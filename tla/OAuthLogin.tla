----------------------------- MODULE OAuthLogin -----------------------------
(***************************************************************************)
(* Signing in one GitHub user: OAuthStateService, the callback of          *)
(* AuthController, AuthService.loginWithGithub with the creation of the    *)
(* account, OAuthTicketService and the exchange of the ticket.             *)
(*                                                                         *)
(* Both stores are in Redis, or, when Redis is not configured, in a Map of *)
(* each server process.  Several callbacks may be under way at once: the   *)
(* user has several tabs, or presses twice.                                *)
(***************************************************************************)
EXTENDS Naturals

CONSTANTS
  States,     \* OAuth states that may be generated
  Callbacks,  \* callback requests; each may issue the ticket of its name
  Servers,    \* server processes
  BaseName,   \* gh_<login>
  Suffixed,   \* gh_<login>_<random>, whatever the random part
  Nobody      \* no account, no process

ASSUME NamesAssumption ==
  BaseName \notin Suffixed /\ Nobody \notin Suffixed \cup {BaseName} \cup Servers

VARIABLES
  shared,    \* TRUE: Redis; FALSE: a Map per process
  state,     \* state[s]: "absent", "valid", "gone"
  stateAt,   \* stateAt[s]: the process that generated s
  stateUses, \* stateUses[s]: history: callbacks that s let through
  ticket,    \* ticket[c]: "absent", "valid", "gone"
  ticketAt,  \* ticketAt[c]: the process that issued it
  ticketUses,\* ticketUses[c]: history: how often it was exchanged
  accounts,  \* usernames of accounts that were created for this GitHub user
  others,    \* usernames, of the two kinds above, that others registered
  identity,  \* the account of the user_identities row, or Nobody
  cpc,       \* cpc[c]: where callback c is
  caccount   \* caccount[c]: the userId that callback c found or made

Names == {BaseName} \cup Suffixed

storeVars   == <<state, stateAt, stateUses, ticket, ticketAt, ticketUses>>
accountVars == <<accounts, others, identity>>
oauthVars   == <<shared, storeVars, accountVars, cpc, caccount>>

CallbackStates ==
  {"idle", "github", "rejected", "find", "create", "retry", "refind", "load", "done", "failed"}

Places == Servers \cup {Nobody}

OAuthTypeOK ==
  /\ shared \in BOOLEAN
  /\ state \in [States -> {"absent", "valid", "gone"}]
  /\ stateAt \in [States -> Places]
  /\ stateUses \in [States -> Nat]
  /\ ticket \in [Callbacks -> {"absent", "valid", "gone"}]
  /\ ticketAt \in [Callbacks -> Places]
  /\ ticketUses \in [Callbacks -> Nat]
  /\ accounts \in SUBSET Names
  /\ others \in SUBSET Names
  /\ identity \in Names \cup {Nobody}
  /\ cpc \in [Callbacks -> CallbackStates]
  /\ caccount \in [Callbacks -> Names \cup {Nobody}]

OAuthInit ==
  /\ shared \in BOOLEAN
  /\ state = [s \in States |-> "absent"]
  /\ stateAt = [s \in States |-> Nobody]
  /\ stateUses = [s \in States |-> 0]
  /\ ticket = [c \in Callbacks |-> "absent"]
  /\ ticketAt = [c \in Callbacks |-> Nobody]
  /\ ticketUses = [c \in Callbacks |-> 0]
  /\ accounts = {}
  /\ others = {}
  /\ identity = Nobody
  /\ cpc = [c \in Callbacks |-> "idle"]
  /\ caccount = [c \in Callbacks |-> Nobody]

-----------------------------------------------------------------------------
(***************************************************************************)
(* The one-time stores                                                     *)
(***************************************************************************)
\* The process p sees what another one stored only through Redis.
Sees(p, place) == shared \/ p = place

\* GET /auth/github: generate.
GenerateState(s, p) ==
  /\ state[s] = "absent"
  /\ state' = [state EXCEPT ![s] = "valid"]
  /\ stateAt' = [stateAt EXCEPT ![s] = p]
  /\ UNCHANGED <<shared, stateUses, ticket, ticketAt, ticketUses, accountVars, cpc, caccount>>

\* The time to live is over: Redis drops the key, the Map's sweep the entry.
StateExpires(s) ==
  /\ state[s] = "valid"
  /\ state' = [state EXCEPT ![s] = "gone"]
  /\ UNCHANGED <<shared, stateAt, stateUses, ticket, ticketAt, ticketUses, accountVars, cpc,
                 caccount>>

\* Mutant: GET and DEL are two commands, and a second callback reads in between.
ConsumeStateInTwo(c, s, p) ==
  /\ cpc[c] = "idle"
  /\ state[s] = "valid" /\ Sees(p, stateAt[s])
  /\ \E after \in {"valid", "gone"} : state' = [state EXCEPT ![s] = after]
  /\ stateUses' = [stateUses EXCEPT ![s] = @ + 1]
  /\ cpc' = [cpc EXCEPT ![c] = "github"]
  /\ UNCHANGED <<shared, stateAt, ticket, ticketAt, ticketUses, accountVars, caccount>>

\* GET /auth/github/callback: consume (GETDEL, or sweep and delete).  A callback whose
\* state is unknown here is refused and changes nothing.
ConsumeState(c, s, p) ==
  /\ cpc[c] = "idle"
  /\ state[s] = "valid" /\ Sees(p, stateAt[s])
  /\ state' = [state EXCEPT ![s] = "gone"]
  /\ stateUses' = [stateUses EXCEPT ![s] = @ + 1]
  /\ cpc' = [cpc EXCEPT ![c] = "github"]
  /\ UNCHANGED <<shared, stateAt, ticket, ticketAt, ticketUses, accountVars, caccount>>

IssueTicket(c, p) ==
  /\ cpc[c] = "load"
  /\ ticket' = [ticket EXCEPT ![c] = "valid"]
  /\ ticketAt' = [ticketAt EXCEPT ![c] = p]
  /\ cpc' = [cpc EXCEPT ![c] = "done"]
  /\ UNCHANGED <<shared, state, stateAt, stateUses, ticketUses, accountVars, caccount>>

TicketExpires(c) ==
  /\ ticket[c] = "valid"
  /\ ticket' = [ticket EXCEPT ![c] = "gone"]
  /\ UNCHANGED <<shared, state, stateAt, stateUses, ticketAt, ticketUses, accountVars, cpc,
                 caccount>>

\* POST /auth/exchange: consume.
ConsumeTicket(c, p) ==
  /\ ticket[c] = "valid" /\ Sees(p, ticketAt[c])
  /\ ticket' = [ticket EXCEPT ![c] = "gone"]
  /\ ticketUses' = [ticketUses EXCEPT ![c] = @ + 1]
  /\ UNCHANGED <<shared, state, stateAt, stateUses, ticketAt, accountVars, cpc, caccount>>

-----------------------------------------------------------------------------
(***************************************************************************)
(* The callback behind its state                                           *)
(***************************************************************************)
callbackFrame == <<shared, storeVars, others>>

Goto(c, pc, account) ==
  /\ cpc' = [cpc EXCEPT ![c] = pc]
  /\ caccount' = [caccount EXCEPT ![c] = account]

\* exchangeCodeForToken and fetchGithubUser: HTTP calls that answer or fail.
CallGithub(c) ==
  /\ cpc[c] = "github"
  /\ \E pc \in {"find", "rejected"} : Goto(c, pc, Nobody)
  /\ UNCHANGED <<accounts, identity, callbackFrame>>

\* loginWithGithub's findUnique of the identity; after a unique conflict once more.
FindIdentity(c) ==
  /\ cpc[c] \in {"find", "refind"}
  /\ Goto(c, IF identity # Nobody THEN "load"
             ELSE IF cpc[c] = "find" THEN "create" ELSE "failed", identity)
  /\ UNCHANGED <<accounts, identity, callbackFrame>>

\* Mutant: the account is committed before its identity is inserted.
CreateUserAlone(c, name, onConflict) ==
  IF name \in accounts \cup others
    THEN /\ Goto(c, onConflict, Nobody)
         /\ UNCHANGED <<accounts, identity>>
    ELSE /\ accounts' = accounts \cup {name}
         /\ IF identity = Nobody
              THEN identity' = name /\ Goto(c, "load", name)
              ELSE Goto(c, onConflict, Nobody) /\ UNCHANGED identity

\* createUserWithIdentity: one transaction.  P2002 on the username or the identity
\* rolls both back.
CreateUserWithIdentity(c, name, onConflict) ==
  IF name \in accounts \cup others \/ identity # Nobody
    THEN /\ Goto(c, onConflict, Nobody)
         /\ UNCHANGED <<accounts, identity>>
    ELSE /\ accounts' = accounts \cup {name}
         /\ identity' = name
         /\ Goto(c, "load", name)

CreateGithubUser(c) ==
  /\ cpc[c] = "create"
  /\ CreateUserWithIdentity(c, BaseName, "retry")
  /\ UNCHANGED callbackFrame

\* Mutant: a conflict in the second attempt is thrown on, not looked into.
RetryGivesUp(c) ==
  /\ cpc[c] = "retry"
  /\ \E name \in Suffixed : CreateUserWithIdentity(c, name, "failed")
  /\ UNCHANGED callbackFrame

\* The second attempt, with a random suffix; its conflict goes to loginWithGithub.
RetryWithSuffix(c) ==
  /\ cpc[c] = "retry"
  /\ \E name \in Suffixed : CreateUserWithIdentity(c, name, "refind")
  /\ UNCHANGED callbackFrame

\* Somebody registers, or is given, a name of this kind.
NameIsTaken(name) ==
  /\ name \notin accounts \cup others
  /\ others' = others \cup {name}
  /\ UNCHANGED <<shared, storeVars, accounts, identity, cpc, caccount>>

OAuthNext ==
  \/ \E s \in States :
       \/ StateExpires(s)
       \/ \E p \in Servers : GenerateState(s, p) \/ \E c \in Callbacks : ConsumeState(c, s, p)
  \/ \E c \in Callbacks :
       \/ CallGithub(c) \/ FindIdentity(c) \/ CreateGithubUser(c) \/ RetryWithSuffix(c)
       \/ TicketExpires(c)
       \/ \E p \in Servers : IssueTicket(c, p) \/ ConsumeTicket(c, p)
  \/ \E name \in Names : NameIsTaken(name)

OAuthSpec == OAuthInit /\ [][OAuthNext]_oauthVars

-----------------------------------------------------------------------------
\* However many callbacks race and retry under another name, the GitHub user has one
\* account and no account without its identity is left behind; whoever gets a ticket
\* gets it for that account.
OneAccount ==
  /\ accounts = (IF identity = Nobody THEN {} ELSE {identity})
  /\ \A c \in Callbacks : cpc[c] \in {"load", "done"} => caccount[c] = identity /\ identity # Nobody

\* auth.service.ts:128-129: the race is caught.  No callback fails because of another
\* one: beyond GitHub's own failures it fails only when both names it tried belong to
\* somebody else.
RacesAreCaught ==
  \A c \in Callbacks :
    cpc[c] = "failed" => BaseName \in others /\ Suffixed \cap others # {}

\* States and tickets are one-time tokens, in Redis as in the Map.
StatesOnce == INSTANCE OneTimeToken WITH
  OneTimeTokens <- States, standing <- state, uses <- stateUses

TicketsOnce == INSTANCE OneTimeToken WITH
  OneTimeTokens <- Callbacks, standing <- ticket, uses <- ticketUses

OAuthCredentialsOnce == StatesOnce!OneTimeSpec /\ TicketsOnce!OneTimeSpec
=============================================================================
