--------------------------- MODULE RefreshFamily ---------------------------
(***************************************************************************)
(* What a refresh-token store promises of a family, whatever its backend:  *)
(* the tokens of a family form one chain.  A family is born with a leaf;   *)
(* the leaf is taken once; whoever took it mints at most one successor,    *)
(* which becomes the leaf; a family that loses its leaf otherwise is spent *)
(* for good.                                                               *)
(***************************************************************************)
CONSTANTS Families, Tokens, None

VARIABLES
    state,    \* of each family
    leaf,     \* the token that is live, or was taken and not yet replaced
    next      \* the successor each token was given, or None

vars == <<state, leaf, next>>

Init ==
    /\ state = [f \in Families |-> "unborn"]
    /\ leaf = [f \in Families |-> None]
    /\ next = [t \in Tokens |-> None]

Born(f, t) ==
    /\ state[f] = "unborn"
    /\ state' = [state EXCEPT ![f] = "live"]
    /\ leaf' = [leaf EXCEPT ![f] = t]
    /\ UNCHANGED next

Take(f) ==
    /\ state[f] = "live"
    /\ state' = [state EXCEPT ![f] = "rotating"]
    /\ UNCHANGED <<leaf, next>>

Mint(f, t) ==
    /\ state[f] = "rotating"
    /\ next[leaf[f]] = None
    /\ state' = [state EXCEPT ![f] = "live"]
    /\ leaf' = [leaf EXCEPT ![f] = t]
    /\ next' = [next EXCEPT ![leaf[f]] = t]

\* Expiry, revocation or a failed rotation ends one or more families, perhaps
\* before their first token was ever live.
Spend(gone) ==
    /\ gone # {}
    /\ \A f \in gone : state[f] \in {"unborn", "live", "rotating"}
    /\ state' = [f \in Families |-> IF f \in gone THEN "spent" ELSE state[f]]
    /\ leaf' = [f \in Families |-> IF f \in gone THEN None ELSE leaf[f]]
    /\ UNCHANGED next

\* Most steps of a store and its handlers are none of the contract's.
Next ==
    \/ UNCHANGED vars
    \/ \E f \in Families : Take(f) \/ \E t \in Tokens : Born(f, t) \/ Mint(f, t)
    \/ \E gone \in SUBSET Families : Spend(gone)

Spec == Init /\ [][Next]_vars
=============================================================================
