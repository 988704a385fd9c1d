---------------------------- MODULE BaselineHistory ----------------------------
(***************************************************************************)
(* What the architecture side promises about its baseline: there is one    *)
(* head, every change supersedes exactly the head, and a superseded        *)
(* version never comes back.  ArchitectureEvolution is shown to implement  *)
(* this specification.                                                     *)
(***************************************************************************)
CONSTANTS
    Versions,   \* the baseline versions the code side may ever declare
    First,      \* the version the bootstrap seeds
    NoVersion   \* the head before the first bootstrap

VARIABLES
    head,        \* the current baseline
    superseded   \* the pairs <<version, its successor>>

Retired == {link[1] : link \in superseded}

Init == head = NoVersion /\ superseded = {}

Seed ==
    /\ head = NoVersion
    /\ head' = First
    /\ UNCHANGED superseded

Supersede(version) ==
    /\ head # NoVersion
    /\ version \notin Retired \cup {head}
    /\ head' = version
    /\ superseded' = superseded \cup {<<head, version>>}

Next == Seed \/ \E version \in Versions : Supersede(version)

Spec == Init /\ [][Next]_<<head, superseded>>

-----------------------------------------------------------------------------
\* The history never forks or loops: a version has one successor, one
\* predecessor, and the head has no successor.
Linear ==
    /\ head \notin Retired
    /\ \A one, two \in superseded : one[1] = two[1] <=> one[2] = two[2]

=============================================================================
