----------------------------- MODULE EvidenceMerger -----------------------------
(***************************************************************************)
(* From the advisors' observations to one decision: merge_evidence(),      *)
(* synthesize_decision() and build_judge_conflict(), pure functions of     *)
(* their arguments.  An anchor is what a relation may be about: a rule the *)
(* gate checked, or a violation it found.                                  *)
(***************************************************************************)
EXTENDS Naturals, Sequences, FiniteSets, SequencesExt

\* decide() may be called without a gate.
NoGate == [status |-> "none", rules |-> {}, refs |-> {}]

\* EvidenceRelation: what a caller may declare.
Relations == {"SUPPORTING", "CONTRADICTING", "UNRESOLVED"}

\* The rules and the findings of the gate's decision.
Anchors(gate) == {<<rule>> : rule \in gate.rules} \cup gate.refs

\* _identity(): what a finding's id was derived from.
Identity(finding) == <<finding.source, finding.claim, finding.evidence, finding.step>>

Ids(findings) == {findings[i].id : i \in DOMAIN findings}

\* A relation counts if it was declared and its target is an anchor.
Effective(observation, anchors) ==
    IF observation.relation # "UNRESOLVED" /\ observation.target \in anchors
    THEN observation.relation ELSE "UNRESOLVED"

NoEvidence == [findings |-> << >>, effective |-> << >>, targets |-> << >>,
               abstained |-> 0, errors |-> 0, collision |-> FALSE]

\* The mutants let a later delivery win, and let failures outvote the rest.
MutantMergeStep(merged, observation, anchors) ==
    IF merged.collision THEN merged
    ELSE IF observation.status = "ABSTAIN" THEN [merged EXCEPT !.abstained = @ + 1]
    ELSE IF observation.status = "ERROR" THEN [merged EXCEPT !.errors = @ + 1]
    ELSE IF observation.finding.id \in Ids(merged.findings)
    THEN [merged EXCEPT
            !.collision =
              \E i \in DOMAIN merged.findings :
                /\ merged.findings[i].id = observation.finding.id
                /\ Identity(merged.findings[i]) # Identity(observation.finding),
            !.effective = [i \in DOMAIN @ |->
              IF merged.findings[i].id = observation.finding.id
              THEN Effective(observation, anchors) ELSE @[i]]]
    ELSE [merged EXCEPT !.findings = Append(@, observation.finding),
                        !.effective = Append(@, Effective(observation, anchors)),
                        !.targets = Append(@, observation.target)]

\* One turn of the loop: findings in the order of their first delivery, with
\* the relation and the target of each beside it.
MergeStep(merged, observation, anchors) ==
    IF merged.collision THEN merged
    ELSE IF observation.status = "ABSTAIN" THEN [merged EXCEPT !.abstained = @ + 1]
    ELSE IF observation.status = "ERROR" THEN [merged EXCEPT !.errors = @ + 1]
    ELSE IF observation.finding.id \in Ids(merged.findings)
    THEN [merged EXCEPT !.collision =
            \E i \in DOMAIN merged.findings :
                /\ merged.findings[i].id = observation.finding.id
                /\ Identity(merged.findings[i]) # Identity(observation.finding)]
    ELSE [merged EXCEPT !.findings = Append(@, observation.finding),
                        !.effective = Append(@, Effective(observation, anchors)),
                        !.targets = Append(@, observation.target)]

\* The whole loop: what it has after each of the observations.
Merging(observations, anchors) ==
    LET sofar[n \in 0..Len(observations)] ==
            IF n = 0 THEN NoEvidence
            ELSE MergeStep(sofar[n - 1], observations[n], anchors)
    IN sofar

\* The ids of some of the findings, in the order of the findings.
IdsOf(findings, wanted) ==
    LET ids[n \in 0..Len(findings)] ==
            IF n = 0 THEN << >>
            ELSE IF n \in wanted THEN Append(ids[n - 1], findings[n].id) ELSE ids[n - 1]
    IN ids[Len(findings)]

Related(merged, relation) ==
    IdsOf(merged.findings, {i \in DOMAIN merged.findings : merged.effective[i] = relation})

RelatedTo(merged, relation, anchor) ==
    IdsOf(merged.findings, {i \in DOMAIN merged.findings :
                              merged.effective[i] = relation /\ merged.targets[i] = anchor})

\* An anchor with validated relations of both kinds.  Conflicts are in the
\* order of their targets' names, which SetToSeq stands for.
Conflicts(merged, anchors) ==
    SetToSeq({[target |-> a,
               supporting |-> RelatedTo(merged, "SUPPORTING", a),
               contradicting |-> RelatedTo(merged, "CONTRADICTING", a)] :
                  a \in {b \in anchors :
                          /\ RelatedTo(merged, "SUPPORTING", b) # << >>
                          /\ RelatedTo(merged, "CONTRADICTING", b) # << >>}})

\* merge_evidence(): the view, or the collision that was met.
merge_evidence(observations, gate) ==
    LET anchors == Anchors(gate)
        merged == Merging(observations, anchors)[Len(observations)]
    IN [findings |-> merged.findings,
        supporting |-> Related(merged, "SUPPORTING"),
        conflicting |-> Related(merged, "CONTRADICTING"),
        unresolved |-> Related(merged, "UNRESOLVED"),
        abstained |-> merged.abstained,
        errors |-> merged.errors,
        conflicts |-> Conflicts(merged, anchors),
        collision |-> merged.collision]

\* The sets a merge comes to, whatever the order inside them.
Outline(v) ==
    [supporting |-> Range(v.supporting), conflicting |-> Range(v.conflicting),
     unresolved |-> Range(v.unresolved), abstained |-> v.abstained, errors |-> v.errors,
     conflicts |-> {[target |-> c.target, supporting |-> Range(c.supporting),
                     contradicting |-> Range(c.contradicting)] : c \in Range(v.conflicts)}]

-----------------------------------------------------------------------------
MutantDecisionStatus(gate, view) ==
    IF gate # NoGate THEN gate.status
    ELSE IF view.errors > 0 /\ view.findings = << >> THEN "ERROR" ELSE "ABSTAIN"

\* The gate decides; without one only whether anybody said anything counts.
DecisionStatus(gate, view) ==
    IF gate # NoGate THEN gate.status
    ELSE IF view.errors > 0 /\ view.findings = << >> /\ view.abstained = 0
    THEN "ERROR" ELSE "ABSTAIN"

DecisionRefs(gate, view) ==
    IF gate = NoGate THEN {}
    ELSE Range(view.supporting)
           \cup (IF gate.status = "REJECTED" THEN gate.refs ELSE {})

synthesize_decision(view, gate) ==
    [status |-> DecisionStatus(gate, view),
     rules |-> gate.rules,
     refs |-> DecisionRefs(gate, view),
     perspectives |-> {view.findings[i].source : i \in DOMAIN view.findings}]

-----------------------------------------------------------------------------
\* build_judge_conflict(): the findings of a conflict, which must all be of one
\* step.
ConflictIds(conflict) == Range(conflict.supporting) \cup Range(conflict.contradicting)

ConflictSteps(conflict, view) ==
    {f.step : f \in {view.findings[i] : i \in
        {j \in DOMAIN view.findings : view.findings[j].id \in ConflictIds(conflict)}}}

=============================================================================
