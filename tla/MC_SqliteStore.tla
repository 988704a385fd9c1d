---------------------------- MODULE MC_SqliteStore ----------------------------
(* Instances of SqliteStore for TLC: real blocks, two processes.           *)
EXTENDS SqliteStore, StoreScopes

\* Every block of the services, at its longest.
Blocks == [review |-> Review(1, 1, <<"f1">>),
           transition |-> Transition(1, 1),
           retry |-> StepTransition(1),
           approval |-> Approval(1, 1),
           rejection |-> Rejection(1),
           stepOverride |-> StepOverride(1),
           projectOverride |-> ProjectOverride("main"),
           seed |-> Seed("main", "v1", <<"ADR1", "ADR2">>, <<"K1">>),
           introduce |-> Introduce("v2", "v1", <<"ADR3">>),
           propose |-> ProposeChange("ACR1", "ADR3"),
           decide |-> DecideChange("ACR1", "ADR3"),
           apply |-> ApplyChange("ACR1", "v2", "v1", <<"K1", "K2">>),
           supersede |-> AdrCommit(<<"ADR1", "ADR2">>),
           risk |-> RiskCommit("K1")]

\* Each of them closes what it opens, and only its last exit closes the first
\* scope: no service leaves its outermost scope and goes on writing.
ASSUME BlocksAreScopes ==
    \A name \in DOMAIN Blocks :
        LET block == Blocks[name] level == Levels(block) IN
        /\ block[1] = Enter /\ block[Len(block)] = Exit
        /\ \A i \in 2..Len(block) : level[i] >= 1
        /\ level[Len(block)] = 1
        /\ \E i \in DOMAIN block : block[i][1] = "put"

\* A review, with the gate's scope inside its own, and a transition that writes
\* one of its rows again.
MCKinds == {"review", "retry"}
MCScript == [k \in Kinds |-> Blocks[k]]
MCLevel == [k \in Kinds |-> Levels(Blocks[k])]
MCRows == UNION {{Blocks[k][i][2] : i \in {j \in DOMAIN Blocks[k] : Blocks[k][j][1] = "put"}}
                    : k \in Kinds}

MCCreates == [m \in Migrations |-> MIGRATIONS[m]]
MCNames == UNION {{MIGRATIONS[m][i] : i \in DOMAIN MIGRATIONS[m]} : m \in Migrations}

=============================================================================
