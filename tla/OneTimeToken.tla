---------------------------- MODULE OneTimeToken ----------------------------
(***************************************************************************)
(* What every one-time credential of build-server promises - refresh       *)
(* tokens, OAuth states and OAuth tickets: it is redeemed at most once, and *)
(* once it is redeemed, revoked or expired it never comes back.            *)
(***************************************************************************)
EXTENDS Naturals

CONSTANT OneTimeTokens

VARIABLES
  standing,  \* standing[t]: "absent", "valid" or "gone"
  uses       \* uses[t]: how often t was redeemed

Fresh == /\ standing = [t \in OneTimeTokens |-> "absent"]
         /\ uses = [t \in OneTimeTokens |-> 0]

Same(t) == standing'[t] = standing[t] /\ uses'[t] = uses[t]

Issue(t) == standing[t] = "absent" /\ standing'[t] = "valid" /\ uses'[t] = uses[t]

Redeem(t) == standing[t] = "valid" /\ standing'[t] = "gone" /\ uses'[t] = uses[t] + 1

Void(t) == standing[t] = "valid" /\ standing'[t] = "gone" /\ uses'[t] = uses[t]

\* One step may concern several tokens: a rotation redeems one and issues another,
\* the removal of a user voids all of them.
Exchange == \A t \in OneTimeTokens : Same(t) \/ Issue(t) \/ Redeem(t) \/ Void(t)

OneTimeSpec == Fresh /\ [][Exchange]_<<standing, uses>>
=============================================================================
