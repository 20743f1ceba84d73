-------------------------------- MODULE Roles --------------------------------
(***************************************************************************)
(* Roles, their permissions and who holds them: RolesService create,       *)
(* update and remove, UsersService updateUserRoles (create with roles is   *)
(* the same for a user without any), and PermissionsService remove.        *)
(*                                                                         *)
(* A transaction is two steps: its plain reads, which see one snapshot,    *)
(* with the checks made on them, and its writes up to the commit.  The     *)
(* writes of two transactions are ordered by the rows they lock; no check  *)
(* is repeated after a wait for a lock, and a row that is inserted         *)
(* meanwhile need not be seen.                                             *)
(***************************************************************************)

CONSTANTS
  People,       \* users
  RoleIds,      \* ids of roles, other than that of the system role ADMIN
  Permissions,  \* permissions
  Changes       \* requests of administrators

VARIABLES
  roleState,   \* roleState[r]: "absent", "live" or "gone" (deletedAt is set)
  held,        \* user_roles
  grants,      \* role_permissions
  permGone,    \* permissions with deletedAt set
  rq,          \* rq[q]: what q is about to write, see Change
  raced        \* history: roles whose removal overlapped with a change that uses them

roleVars == <<roleState, held, grants, permGone, rq, raced>>

Change ==
  [kind : {"none", "assign", "create", "update", "remove"},
   who : SUBSET People, roles : SUBSET RoleIds, perms : SUBSET Permissions,
   seen : SUBSET (People \X RoleIds)]

\* seen: the user's roles when an assignment began.
NoChange == [kind |-> "none", who |-> {}, roles |-> {}, perms |-> {}, seen |-> {}]

RolesTypeOK ==
  /\ roleState \in [RoleIds -> {"absent", "live", "gone"}]
  /\ held \in SUBSET (People \X RoleIds)
  /\ grants \in SUBSET (RoleIds \X Permissions)
  /\ permGone \in SUBSET Permissions
  /\ rq \in [Changes -> Change]
  /\ raced \in SUBSET RoleIds

RolesInit ==
  /\ roleState = [r \in RoleIds |-> "absent"]
  /\ held = {}
  /\ grants = {}
  /\ permGone = {}
  /\ rq = [q \in Changes |-> NoChange]
  /\ raced = {}

-----------------------------------------------------------------------------
HoldersOf(r) == {u \in People : <<u, r>> \in held}

Asks(q, change) == rq[q] = NoChange /\ rq' = [rq EXCEPT ![q] = change]
Ends(q)         == rq' = [rq EXCEPT ![q] = NoChange]

\* Requests other than q that are about to do something of such a kind with r.
Others(q, kinds, r) == {o \in Changes \ {q} : rq[o].kind \in kinds /\ r \in rq[o].roles}

\* updateUserRoles, or create of a user with roles: every one is found, or it is refused.
AssignCheck(q, u, rs) ==
  /\ \A r \in rs : roleState[r] = "live"
  /\ Asks(q, [NoChange EXCEPT !.kind = "assign", !.who = {u}, !.roles = rs,
                              !.seen = {h \in held : h[1] = u}])
  /\ UNCHANGED <<roleState, held, grants, permGone, raced>>

\* deleteMany and create.  Of what another assignment to the user inserted meanwhile,
\* deleteMany may miss some (`missed`); such a row that is to be created is there already
\* (P2002), and the request fails.
AssignCommit(q) ==
  LET given == rq[q].who \X rq[q].roles
      late  == {h \in held : h[1] \in rq[q].who /\ h \notin rq[q].seen}
  IN
  /\ rq[q].kind = "assign"
  /\ \E missed \in SUBSET (late \ given) :
       held' = {h \in held : h[1] \notin rq[q].who} \cup missed \cup given
  /\ raced' = raced \cup {r \in rq[q].roles : Others(q, {"remove"}, r) # {}}
  /\ Ends(q)
  /\ UNCHANGED <<roleState, grants, permGone>>

\* create: its permissions are found, or it is refused; the code is still free.
CreateCheck(q, r, ps) ==
  /\ roleState[r] = "absent"
  /\ Others(q, {"create"}, r) = {}
  /\ ps \cap permGone = {}
  /\ Asks(q, [NoChange EXCEPT !.kind = "create", !.roles = {r}, !.perms = ps])
  /\ UNCHANGED <<roleState, held, grants, permGone, raced>>

CreateCommit(q) ==
  /\ rq[q].kind = "create"
  /\ roleState' = [r \in RoleIds |-> IF r \in rq[q].roles THEN "live" ELSE roleState[r]]
  /\ grants' = grants \cup (rq[q].roles \X rq[q].perms)
  /\ Ends(q)
  /\ UNCHANGED <<held, permGone, raced>>

\* update with permissions: the role and every permission is found.
UpdateCheck(q, r, ps) ==
  /\ roleState[r] = "live"
  /\ ps \cap permGone = {}
  /\ Asks(q, [NoChange EXCEPT !.kind = "update", !.roles = {r}, !.perms = ps])
  /\ UNCHANGED <<roleState, held, grants, permGone, raced>>

\* The UPDATE is by id.  What Prisma's `set` makes of the links is either what it was
\* given (the comment here), or only those of them that were there before (the comment
\* at users.service.ts:587-590).
UpdateCommit(q) ==
  LET others == {g \in grants : g[1] \notin rq[q].roles}
      given  == rq[q].roles \X rq[q].perms
  IN
  /\ rq[q].kind = "update"
  /\ grants' \in {others \cup given, others \cup (given \cap grants)}
  /\ Ends(q)
  /\ UNCHANGED <<roleState, held, permGone, raced>>

\* Mutant: nobody looks whether the role is in use.
RemoveCheckNotUse(q, r) ==
  /\ roleState[r] = "live"
  /\ Asks(q, [NoChange EXCEPT !.kind = "remove", !.roles = {r}])
  /\ UNCHANGED <<roleState, held, grants, permGone, raced>>

\* remove: the role is found, and counted to be held by nobody.
RemoveCheck(q, r) ==
  /\ roleState[r] = "live"
  /\ HoldersOf(r) = {}
  /\ Asks(q, [NoChange EXCEPT !.kind = "remove", !.roles = {r}])
  /\ UNCHANGED <<roleState, held, grants, permGone, raced>>

\* Deletes its links to permissions, and the role softly and by id.
RemoveCommit(q) ==
  /\ rq[q].kind = "remove"
  /\ roleState' = [r \in RoleIds |-> IF r \in rq[q].roles THEN "gone" ELSE roleState[r]]
  /\ grants' = {g \in grants : g[1] \notin rq[q].roles}
  /\ raced' = raced \cup {r \in rq[q].roles : Others(q, {"assign", "update"}, r) # {}}
  /\ Ends(q)
  /\ UNCHANGED <<held, permGone>>

\* Any of them fails, or its process dies: rolled back.
ChangeFails(q) ==
  /\ rq[q] # NoChange
  /\ Ends(q)
  /\ UNCHANGED <<roleState, held, grants, permGone, raced>>

\* The permission is deleted softly; its links stay.
RemovePermission(p) ==
  /\ p \notin permGone
  /\ permGone' = permGone \cup {p}
  /\ UNCHANGED <<roleState, held, grants, rq, raced>>

RolesNext ==
  \/ \E q \in Changes :
       \/ \E u \in People, rs \in SUBSET RoleIds : AssignCheck(q, u, rs)
       \/ \E r \in RoleIds, ps \in SUBSET Permissions :
            CreateCheck(q, r, ps) \/ UpdateCheck(q, r, ps)
       \/ \E r \in RoleIds : RemoveCheck(q, r)
       \/ AssignCommit(q) \/ CreateCommit(q) \/ UpdateCommit(q) \/ RemoveCommit(q)
       \/ ChangeFails(q)
  \/ \E p \in Permissions : RemovePermission(p)

RolesSpec == RolesInit /\ [][RolesNext]_roleVars

-----------------------------------------------------------------------------
\* A role that was removed has no holder left who would silently lose its permissions,
\* and no permission that would come back with it, unless the removal overlapped with
\* a change that had found the role before.
RemovedRoleIsBare ==
  \A r \in RoleIds : roleState[r] = "gone" /\ r \notin raced =>
    HoldersOf(r) = {} /\ \A p \in Permissions : <<r, p>> \notin grants

\* roles.service.ts:305-314: no user is left with a role that was removed.
RemovedRoleNotHeld == \A r \in RoleIds : roleState[r] = "gone" => HoldersOf(r) = {}
=============================================================================
