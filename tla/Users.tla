-------------------------------- MODULE Users --------------------------------
(***************************************************************************)
(* The rows of users: UsersService create, update, updateUserSpecialRoles, *)
(* updatePassword, updatePasswordByAdmin and remove, called by the users   *)
(* JwtAuthStrategy lets in.                                                *)
(*                                                                         *)
(* A request first reads, among the users that are not removed, and checks *)
(* what it read; then it writes the user by id, without a look at what     *)
(* happened in between.  The unique index on names knows every user, and   *)
(* the removed ones too.  A user's e-mail is under the same rules as the   *)
(* name, and is not modelled apart.  What JwtAuthStrategy reads of the     *)
(* user who asks is read together with what the request reads first.       *)
(***************************************************************************)

CONSTANTS
  Accounts,   \* ids of users; the default administrator's is one of them
  Admin,      \* the default administrator
  UserNames,  \* user names; the default administrator's is Admin
  Passwords,  \* passwords, which also stand for their hashes
  Seed,       \* the password the default administrator is seeded with
  NoName,     \* the name of a row that does not exist
  NoHash,     \* the password of an account made by OAuth
  UserRequests \* HTTP requests that change users

ASSUME AccountsAssumption ==
  /\ Admin \in Accounts /\ Admin \in UserNames /\ Seed \in Passwords
  /\ NoName \notin UserNames /\ NoHash \notin Passwords

VARIABLES
  user,      \* user[u]: the row of u, see Row
  job,       \* job[q]: what request q is about to write, see Job
  overtaken  \* history: the requests that change a password while it was changed by
             \* another

userVars == <<user, job, overtaken>>

Row == [name : UserNames \cup {NoName}, hash : Passwords \cup {NoHash},
        special : BOOLEAN, gone : BOOLEAN]

Absent == [name |-> NoName, hash |-> NoHash, special |-> FALSE, gone |-> FALSE]

\* read: the password it found, and once that is verified the one it was shown.
Job == [kind : {"none", "insert", "found", "name", "special", "verify", "password"},
        who : Accounts \cup {NoName}, value : UserNames \cup Passwords \cup BOOLEAN \cup {NoName},
        read : Passwords \cup {NoHash}]

Idle == [kind |-> "none", who |-> NoName, value |-> NoName, read |-> NoHash]

UsersTypeOK ==
  /\ user \in [Accounts -> Row]
  /\ job \in [UserRequests -> Job]
  /\ overtaken \in SUBSET UserRequests

\* The seed has made the default administrator, and somebody has made him a super
\* administrator in the database: the seed writes 'admin', which is no special role.
UsersInit ==
  /\ user = [u \in Accounts |->
               IF u = Admin THEN [name |-> Admin, hash |-> Seed, special |-> TRUE, gone |-> FALSE]
                            ELSE Absent]
  /\ job = [q \in UserRequests |-> Idle]
  /\ overtaken = {}

-----------------------------------------------------------------------------
\* findFirst({ id, deletedAt: null }), here and in JwtAuthStrategy.validate.
Live(u) == user[u].name # NoName /\ ~user[u].gone

\* The checks before a write: a live user other than u has the name.
TakenByLive(u, n) == \E v \in Accounts \ {u} : Live(v) /\ user[v].name = n

\* The unique index refuses the name (P2002).
Indexed(u, n) == \E v \in Accounts \ {u} : user[v].name = n

Takes(q, kind, u, value, read) ==
  /\ job[q] = Idle
  /\ job' = [job EXCEPT ![q] = [kind |-> kind, who |-> u, value |-> value, read |-> read]]
  /\ UNCHANGED overtaken

Done(q) ==
  /\ job' = [job EXCEPT ![q] = Idle]
  /\ overtaken' = overtaken \ {q}

\* The requests that change the password of u.
Changing(u) == {q \in UserRequests : job[q].kind \in {"verify", "password"} /\ job[q].who = u}

\* create: no live user has the name.
CreateLooks(q, u, n) ==
  /\ user[u] = Absent
  /\ \A o \in UserRequests : job[o].who # u
  /\ ~TakenByLive(u, n)
  /\ Takes(q, "insert", u, n, NoHash)
  /\ UNCHANGED user

\* The password was hashed meanwhile; the index has the last word.
CreateWrites(q, p) ==
  /\ job[q].kind = "insert"
  /\ user' = IF Indexed(job[q].who, job[q].value) THEN user
            ELSE [user EXCEPT ![job[q].who] =
                    [name |-> job[q].value, hash |-> p, special |-> FALSE, gone |-> FALSE]]
  /\ Done(q)

\* update: of oneself, or by a super administrator or developer; the user is found, the
\* name is another one, and the default administrator keeps his.
UpdateFinds(q, a, u, n) ==
  /\ Live(a) /\ (a = u \/ user[a].special)
  /\ Live(u)
  /\ n # user[u].name
  /\ user[u].name # Admin
  /\ Takes(q, "found", u, n, NoHash)
  /\ UNCHANGED user

\* The second query: no live user has the name, or it is refused.
UpdateLooks(q) ==
  /\ job[q].kind = "found"
  /\ IF TakenByLive(job[q].who, job[q].value)
       THEN Done(q)
       ELSE job' = [job EXCEPT ![q].kind = "name"] /\ UNCHANGED overtaken
  /\ UNCHANGED user

UpdateWrites(q) ==
  /\ job[q].kind = "name"
  /\ user' = IF Indexed(job[q].who, job[q].value) THEN user
            ELSE [user EXCEPT ![job[q].who].name = job[q].value]
  /\ Done(q)

\* updateUserSpecialRoles, by a super administrator, of another user, or of himself if
\* he is the default administrator.
SpecialLooks(q, a, u, s) ==
  /\ Live(a) /\ user[a].special
  /\ Live(u)
  /\ a = u => user[u].name = Admin
  /\ Takes(q, "special", u, s, NoHash)
  /\ UNCHANGED user

SpecialWrites(q) ==
  /\ job[q].kind = "special"
  /\ user' = [user EXCEPT ![job[q].who].special = job[q].value]
  /\ Done(q)

\* updatePassword: an account that has a password reads it,
PasswordLooks(q, u, new) ==
  /\ Live(u)
  /\ user[u].hash # NoHash
  /\ Takes(q, "verify", u, new, user[u].hash)
  /\ UNCHANGED user

\* Mutant: the old password is not verified.
PasswordUnverified(q, old) ==
  /\ job[q].kind = "verify"
  /\ IF job[q].value # job[q].read
       THEN job' = [job EXCEPT ![q].kind = "password", ![q].read = old] /\ UNCHANGED overtaken
       ELSE Done(q)
  /\ UNCHANGED user

\* verifies the old one against it, and that the new one differs,
PasswordVerified(q, old) ==
  /\ job[q].kind = "verify"
  /\ IF old = job[q].read /\ job[q].value # job[q].read
       THEN job' = [job EXCEPT ![q].kind = "password", ![q].read = old] /\ UNCHANGED overtaken
       ELSE Done(q)
  /\ UNCHANGED user

\* and writes it by id.
PasswordWrites(q) ==
  /\ job[q].kind = "password"
  /\ user' = [user EXCEPT ![job[q].who].hash = job[q].value]
  /\ job' = [job EXCEPT ![q] = Idle]
  /\ overtaken' = (overtaken \cup Changing(job[q].who)) \ {q}

\* updatePasswordByAdmin: one conditional write.
ResetByAdmin(a, u, new) ==
  /\ Live(a)
  /\ Live(u)
  /\ user' = [user EXCEPT ![u].hash = new]
  /\ overtaken' = overtaken \cup Changing(u)
  /\ UNCHANGED job

\* remove: one conditional write, of anyone but oneself.
RemoveAccount(a, u) ==
  /\ Live(a) /\ a # u
  /\ Live(u)
  /\ user' = [user EXCEPT ![u].gone = TRUE]
  /\ UNCHANGED <<job, overtaken>>

\* createUserWithIdentity: an account without a password.
OAuthCreates(u, n) ==
  /\ user[u] = Absent
  /\ \A o \in UserRequests : job[o].who # u
  /\ ~Indexed(u, n)
  /\ user' = [user EXCEPT ![u] = [Absent EXCEPT !.name = n]]
  /\ UNCHANGED <<job, overtaken>>

\* The request fails before its write.
RequestEnds(q) == job[q] # Idle /\ Done(q) /\ UNCHANGED user

UsersNext ==
  \/ \E q \in UserRequests :
       \/ \E u \in Accounts, n \in UserNames : CreateLooks(q, u, n)
       \/ \E p \in Passwords : CreateWrites(q, p) \/ PasswordVerified(q, p)
       \/ \E a, u \in Accounts :
            \/ \E n \in UserNames : UpdateFinds(q, a, u, n)
            \/ \E s \in BOOLEAN : SpecialLooks(q, a, u, s)
       \/ \E u \in Accounts, p \in Passwords : PasswordLooks(q, u, p)
       \/ UpdateLooks(q) \/ UpdateWrites(q) \/ SpecialWrites(q) \/ PasswordWrites(q) \/ RequestEnds(q)
  \/ \E a, u \in Accounts :
       RemoveAccount(a, u) \/ \E p \in Passwords : ResetByAdmin(a, u, p)
  \/ \E u \in Accounts, n \in UserNames : OAuthCreates(u, n)

UsersSpec == UsersInit /\ [][UsersNext]_userVars

-----------------------------------------------------------------------------
\* users.service.ts:452-453, 482: the update of a user who was removed after the request
\* found him does not hit his row; it answers that there is no such user.
RemovedUserNotUpdated ==
  [][\A u \in Accounts : user[u].gone => user'[u].name = user[u].name]_userVars

\* Whoever is about to change his password has shown the one the account has - unless the
\* password was changed, by an administrator or by another request of his, while it was
\* verified: the write does not ask, and takes back what it overtook.
ShownIsCurrent ==
  \A q \in UserRequests :
    job[q].kind = "password" => job[q].read = user[job[q].who].hash \/ q \in overtaken
=============================================================================
