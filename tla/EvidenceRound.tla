------------------------------ MODULE EvidenceRound ------------------------------
(***************************************************************************)
(* One round of advice on a step.  A caller takes the gate's decision on   *)
(* the source tree, or none, asks advisors one after the other, merges     *)
(* what it observed, synthesizes the decision and has a judge resolve the  *)
(* conflicts.  The providers may answer anything, late, or not at all.     *)
(***************************************************************************)
EXTENDS ArchitectureRules, ProviderAdapters, EvidenceMerger

CONSTANTS
    Trees,          \* the source trees the gate may find
    Versions,       \* the baselines it may enforce
    Agendas,        \* the questions a caller may ask, in their order
    KeySets,        \* the API keys that may be set
    MaxRetries,     \* max_retries of every adapter
    MaxOddities     \* bound: answers that are not sound, complete and metered

ASSUME BoundsAreNumbers == MaxRetries \in Nat /\ MaxOddities \in Nat
ASSUME VersionsAreBaselines == Versions \subseteq Baselines
\* observe() runs an advisor, never the judge, and takes one of the relations.
ASSUME AgendasAskAdvisors ==
    \A asks \in Agendas : /\ asks \in Seq({asks[i] : i \in DOMAIN asks})
                          /\ \A i \in DOMAIN asks : /\ asks[i].adapter \in Advisors
                                                   /\ asks[i].relation \in Relations

VARIABLES
    tree,           \* the source tree
    version,        \* the baseline in force
    keys,           \* the API keys that are set
    phase,          \* how far the caller is
    agenda,         \* the questions left
    gate,           \* the gate's decision, or none
    call,           \* the call of an adapter in progress
    calls,          \* the calls that ended, for the properties
    observations,   \* what observe() returned so far
    costs,          \* the rows of cost_records
    view,           \* merge_evidence()
    decision,       \* synthesize_decision()
    judging,        \* the judgments JudgeUseCase.resolve() has so far
    run,            \* what it returned
    oddities

worldVars == <<tree, version, keys>>
callerVars == <<agenda, gate, observations, view, decision, judging, run>>
vars == <<worldVars, phase, callerVars, call, calls, costs, oddities>>

None == [status |-> "none"]
NoCall == [adapter |-> "none"]

\* The phases; a round ends done, or raised out of the caller's hands.
Phases == {"start", "asking", "merged", "decided", "judging", "done", "raised"}
Ended == {"done", "raised"}

Init ==
    /\ tree \in Trees
    /\ version \in Versions
    /\ keys \in KeySets
    /\ agenda \in Agendas
    /\ phase = "start"
    /\ gate = NoGate
    /\ call = NoCall
    /\ calls = << >>
    /\ observations = << >>
    /\ costs = << >>
    /\ view = None
    /\ decision = None
    /\ judging = << >>
    /\ run = << >>
    /\ oddities = 0

-----------------------------------------------------------------------------
\* The realization check on the tree as it is now.
CheckRealization ==
    /\ phase = "start"
    /\ gate' = Decision(version, scan_directory(tree))
    /\ phase' = "asking"
    /\ UNCHANGED <<worldVars, agenda, observations, view, decision, judging, run,
                   call, calls, costs, oddities>>

GoWithoutGate ==
    /\ phase = "start"
    /\ phase' = "asking"
    /\ UNCHANGED <<worldVars, callerVars, call, calls, costs, oddities>>

-----------------------------------------------------------------------------
\* What the judge is asked next.
Conflict == view.conflicts[Len(judging) + 1]

ToAsk == phase = "asking" /\ agenda # << >>
ToJudge == phase = "judging" /\ Len(judging) < Len(view.conflicts)
OneStep == Cardinality(ConflictSteps(Conflict, view)) = 1

NextAdapter == IF phase = "asking" THEN Head(agenda).adapter ELSE "judge"
NextStep ==
    IF phase = "asking" THEN Head(agenda).step
    ELSE CHOOSE step \in ConflictSteps(Conflict, view) : TRUE

\* An observation: the question with what came of it.
Observation(query, result) ==
    [field \in {"relation", "target"} \cup DOMAIN result |->
        IF field \in {"relation", "target"} THEN query[field] ELSE result[field]]

\* advise() or judge() has its result: observe() and resolve() go on with it.
Returns(adapter, result) ==
    IF adapter = "judge"
    THEN /\ judging' = Append(judging, result)
         /\ UNCHANGED <<agenda, observations>>
    ELSE /\ observations' = Append(observations, Observation(Head(agenda), result))
         /\ agenda' = Tail(agenda)
         /\ UNCHANGED judging

Failed(adapter) == IF adapter = "judge" THEN FailedJudgment ELSE NoFinding

\* The end of a call and, for the properties, how it came about and what the
\* provider charged for it.
CallEnds(adapter, ending, bill) ==
    calls' = Append(calls, [adapter |-> adapter, ending |-> ending, bill |-> bill])

\* build_judge_conflict() comes before the call, and raises.
MixedSteps ==
    /\ call = NoCall
    /\ ToJudge /\ ~OneStep
    /\ phase' = "raised"
    /\ UNCHANGED <<worldVars, callerVars, call, calls, costs, oddities>>

MutantWithoutKey ==
    /\ call = NoCall
    /\ ToJudge /\ OneStep
    /\ KeyOf(NextAdapter) \notin keys
    /\ CallEnds(NextAdapter, "noKey", {})
    /\ Returns(NextAdapter, Failed(NextAdapter))
    /\ UNCHANGED <<worldVars, phase, gate, view, decision, run, call, costs, oddities>>

WithoutKey ==
    /\ call = NoCall
    /\ ToAsk \/ (ToJudge /\ OneStep)
    /\ KeyOf(NextAdapter) \notin keys
    /\ CallEnds(NextAdapter, "noKey", {})
    /\ Returns(NextAdapter, Failed(NextAdapter))
    /\ UNCHANGED <<worldVars, phase, gate, view, decision, run, call, costs, oddities>>

Call ==
    /\ call = NoCall
    /\ ToAsk \/ (ToJudge /\ OneStep)
    /\ KeyOf(NextAdapter) \in keys
    /\ call' = [adapter |-> NextAdapter, step |-> NextStep, attempt |-> 0]
    /\ UNCHANGED <<worldVars, phase, callerVars, calls, costs, oddities>>

-----------------------------------------------------------------------------
\* What the network does, other than to answer.
Failures == {[kind |-> "timeout"], [kind |-> "unreachable"], [kind |-> "cutOff"]}
              \cup {Response(status) : status \in {400, 429, 503}}

Attempts == MaxRetries + 1
MutantLastAttempt == call.attempt = Attempts
LastAttempt == call.attempt + 1 = Attempts

Retry(event) ==
    /\ call # NoCall
    /\ AttemptLeadsTo(call.adapter, event, LastAttempt) = "again"
    /\ call' = [call EXCEPT !.attempt = @ + 1]
    /\ UNCHANGED <<worldVars, phase, callerVars, calls, costs, oddities>>

\* The last failure is the call's; an advisor's becomes an observation, the
\* judge's a decision.
GiveUp(event) ==
    /\ call # NoCall
    /\ AttemptLeadsTo(call.adapter, event, LastAttempt) = "failed"
    /\ CallEnds(call.adapter,
                IF AttemptLeadsTo(call.adapter, event, FALSE) # "again" THEN "permanent"
                ELSE IF call.attempt + 1 < Attempts THEN "tooEarly"
                ELSE IF call.attempt + 1 = Attempts THEN "exhausted" ELSE "tooLate", {})
    /\ Returns(call.adapter, Failed(call.adapter))
    /\ call' = NoCall
    /\ UNCHANGED <<worldVars, phase, gate, view, decision, run, costs, oddities>>

\* Neither advise(), observe(), judge() nor resolve() catches it.
Raise(event) ==
    /\ call # NoCall
    /\ AttemptLeadsTo(call.adapter, event, LastAttempt) = "raised"
    /\ call' = NoCall
    /\ phase' = "raised"
    /\ UNCHANGED <<worldVars, callerVars, calls, costs, oddities>>

-----------------------------------------------------------------------------
\* What a provider may answer.  A sound answer is what the caller's question
\* leads to; the others are refused, unsound, or the same text split elsewhere.
SoundAdvice(query) ==
    [kind |-> "contract", status |-> "OK", claim |-> query.claim,
     evidence |-> query.evidence, graded |-> TRUE]

JunkText == [kind |-> "junk"]

AdviceTexts(query) ==
    LET sound == SoundAdvice(query) IN
    {sound, BlankText, JunkText,
     [sound EXCEPT !.status = "ABSTAIN"],
     [sound EXCEPT !.status = "MAYBE"],
     [sound EXCEPT !.claim = Blank],
     [sound EXCEPT !.evidence = << >>],
     [sound EXCEPT !.graded = FALSE],
     [sound EXCEPT !.evidence = [i \in DOMAIN FlattenSeq(@) |-> <<FlattenSeq(@)[i]>>]]}

SoundVerdict(status, ids) ==
    [kind |-> "contract", status |-> status, rationale |-> TRUE, refs |-> <<ids>>]

VerdictTexts(conflict) ==
    LET favoured == SoundVerdict("ACCEPTED", conflict.supporting[1])
        other == SoundVerdict("REJECTED", conflict.contradicting[1]) IN
    {favoured, other, BlankText, JunkText,
     [favoured EXCEPT !.status = "ABSTAIN"],
     [favoured EXCEPT !.status = "PENDING"],
     [favoured EXCEPT !.rationale = FALSE],
     [favoured EXCEPT !.refs = << >>],
     [favoured EXCEPT !.refs = @ \o @],
     [favoured EXCEPT !.refs = Append(@, view.findings[1].id)],
     [favoured EXCEPT !.refs = Append(@, <<"unheard of">>)]}

Texts ==
    IF call.adapter = "judge" THEN VerdictTexts(Conflict) ELSE AdviceTexts(Head(agenda))

SoundTexts ==
    IF call.adapter = "judge"
    THEN {t \in Texts : t \in {SoundVerdict("ACCEPTED", Conflict.supporting[1]),
                               SoundVerdict("REJECTED", Conflict.contradicting[1])}}
    ELSE {SoundAdvice(Head(agenda))}

UsageNames == {"prompt_tokens", "input_tokens", "none"}
OwnUsage(adapter) == IF adapter = "claude" THEN "input_tokens" ELSE "prompt_tokens"

\* A response id is new, or an earlier one again, of whatever provider; 0 is none.
Envelope(id, usage, parts) ==
    [kind |-> "envelope", id |-> id, usage |-> usage, parts |-> parts]
NewId == Len(calls) + 1

SoundBodies == {Envelope(NewId, OwnUsage(call.adapter), <<text>>) : text \in SoundTexts}
PartedBodies ==
    {Envelope(NewId, OwnUsage(call.adapter), parts) :
        parts \in {<< >>} \cup {<<text>> : text \in Texts}
                    \cup {<<BlankText, text>> : text \in Texts}}
RecurringBodies ==
    {Envelope(id, OwnUsage(call.adapter), <<text>>) : id \in 0..NewId, text \in SoundTexts}
MeteredBodies == {Envelope(NewId, usage, <<text>>) : usage \in UsageNames, text \in SoundTexts}
Bodies == {[kind |-> "junk"]} \cup PartedBodies \cup RecurringBodies \cup MeteredBodies

\* What the provider charges for an answer, where there is a sink to tell.
Bill(body, sink) ==
    IF sink /\ body.kind = "envelope"
    THEN {[id |-> body.id, usage |-> body.usage, step |-> call.step]} ELSE {}

\* What advise() and judge() make of a text.
Reads(text) ==
    IF call.adapter = "judge" THEN Verdict(text, ConflictIds(Conflict))
    ELSE Advice(call.adapter, text, call.step)

\* The cost record of a body, if it leads to one, with the step it is booked on.
Booked(body) ==
    {[event |-> event, step |-> call.step] : event \in CostEvents(call.adapter, body)}

\* SqliteCostPlugin.record(), of one booking or none: an event that is in the
\* ledger is acknowledged or refused there, and the adapter swallows the refusal.
record(bookings) ==
    LET unknown == {b \in bookings : \A n \in DOMAIN costs : costs[n].event # b.event} IN
    \/ unknown = {} /\ UNCHANGED costs
    \/ \E booking \in unknown : costs' = Append(costs, booking)

\* The rest of advise() and of judge(): the envelope, the content, the cost
\* record, whose failure is telemetry only, and then the text.
MutantAnswer(body, sink) ==
    /\ call # NoCall
    /\ AttemptLeadsTo(call.adapter, Response(200), LastAttempt) = "answered"
    /\ LET readable == Readable(call.adapter, body)
           result == IF readable THEN Reads(Content(call.adapter, body))
                     ELSE Failed(call.adapter)
       IN /\ Returns(call.adapter, result)
          /\ record(IF readable /\ sink /\ result.status # "ERROR" THEN Booked(body) ELSE {})
          /\ CallEnds(call.adapter, IF readable THEN "told" ELSE "unreadable", Bill(body, sink))
    /\ call' = NoCall
    /\ UNCHANGED <<worldVars, phase, gate, view, decision, run>>

Answer(body, sink) ==
    /\ call # NoCall
    /\ AttemptLeadsTo(call.adapter, Response(200), LastAttempt) = "answered"
    /\ LET readable == Readable(call.adapter, body) IN
       /\ Returns(call.adapter, IF readable THEN Reads(Content(call.adapter, body))
                                ELSE Failed(call.adapter))
       /\ record(IF readable /\ sink THEN Booked(body) ELSE {})
       /\ CallEnds(call.adapter, IF readable THEN "told" ELSE "unreadable", Bill(body, sink))
    /\ call' = NoCall
    /\ UNCHANGED <<worldVars, phase, gate, view, decision, run>>

SoundAnswer ==
    /\ call # NoCall
    /\ \E body \in SoundBodies : Answer(body, TRUE)
    /\ UNCHANGED oddities

OddAnswer ==
    /\ call # NoCall
    /\ oddities < MaxOddities
    /\ oddities' = oddities + 1
    /\ \E body \in Bodies, sink \in BOOLEAN : Answer(body, sink)

-----------------------------------------------------------------------------
MutantMerge ==
    /\ phase = "asking" /\ agenda = << >> /\ call = NoCall
    /\ view' = merge_evidence(observations, gate)
    /\ phase' = "merged"
    /\ UNCHANGED <<worldVars, agenda, gate, observations, decision, judging, run,
                   call, calls, costs, oddities>>

\* merge_evidence() raises on corrupted evidence; nothing is kept then.
Merge ==
    /\ phase = "asking" /\ agenda = << >> /\ call = NoCall
    /\ \E merged \in {merge_evidence(observations, gate)} :
       IF merged.collision
       THEN phase' = "raised" /\ UNCHANGED view
       ELSE phase' = "merged" /\ view' = merged
    /\ UNCHANGED <<worldVars, agenda, gate, observations, decision, judging, run,
                   call, calls, costs, oddities>>

Decide ==
    /\ phase = "merged"
    /\ decision' = synthesize_decision(view, gate)
    /\ phase' = "decided"
    /\ UNCHANGED <<worldVars, agenda, gate, observations, view, judging, run,
                   call, calls, costs, oddities>>

\* JudgeUseCase.resolve(): one judgment for each conflict, in their order; the
\* caller has them all or none.
Resolve ==
    /\ phase = "decided"
    /\ phase' = "judging"
    /\ UNCHANGED <<worldVars, callerVars, call, calls, costs, oddities>>

Resolved ==
    /\ phase = "judging" /\ ~ToJudge /\ call = NoCall
    /\ run' = judging
    /\ phase' = "done"
    /\ UNCHANGED <<worldVars, agenda, gate, observations, view, decision, judging,
                   call, calls, costs, oddities>>

Next ==
    \/ CheckRealization
    \/ GoWithoutGate
    \/ MixedSteps
    \/ WithoutKey
    \/ Call
    \/ \E event \in Failures : Retry(event)
    \/ \E event \in Failures : GiveUp(event)
    \/ \E event \in Failures : Raise(event)
    \/ SoundAnswer
    \/ OddAnswer
    \/ Merge
    \/ Decide
    \/ Resolve
    \/ Resolved

Spec == Init /\ [][Next]_vars

\* A request ends by its timeout at the latest, and the caller goes on.
FairSpec == Spec /\ WF_vars(Next)

-----------------------------------------------------------------------------
Statuses == {"ACCEPTED", "REJECTED", "ABSTAIN", "ERROR"}
Endings == {"noKey", "told", "unreadable", "permanent", "tooEarly", "exhausted", "tooLate"}

TypeOK ==
    /\ tree \in Trees /\ version \in Versions /\ keys \in KeySets
    /\ phase \in Phases
    /\ gate = NoGate \/ gate.status \in {"ACCEPTED", "REJECTED"}
    /\ call = NoCall \/ (call.adapter \in Adapters /\ call.attempt \in 0..MaxRetries)
    /\ \A i \in DOMAIN calls : calls[i].adapter \in Adapters /\ calls[i].ending \in Endings
    /\ \A i \in DOMAIN observations :
         observations[i].status \in {"FINDING", "ABSTAIN", "ERROR"}
    /\ view = None \/ ~view.collision
    /\ decision = None \/ decision.status \in Statuses
    /\ \A i \in DOMAIN judging : judging[i].status \in Statuses
    /\ run \in {<< >>, judging}
    /\ oddities \in 0..MaxOddities

\* A call sends no more than max_retries + 1 requests, gives up early only for
\* what no retry helps, and one that returns without an answer to read returns
\* an error, never a finding, a refusal or a rejection (_post of every adapter).
\* A body that is cut off returns nothing: its exception leaves the round, which
\* Raise models and this property does not judge, although observe() promises
\* that any other failure of an advisor becomes an error.
RetriesAreHonest ==
    /\ call # NoCall => call.attempt < Attempts
    /\ \A i \in DOMAIN calls : calls[i].ending \notin {"tooEarly", "tooLate"}
    /\ Len(calls) = Len(observations) + Len(judging)
    /\ \A i \in DOMAIN calls : calls[i].ending # "told" =>
         IF i <= Len(observations) THEN observations[i].status = "ERROR"
         ELSE judging[i - Len(observations)] = FailedJudgment

\* Who charges for a call: the judge is a second customer of OpenAI.
Account(adapter) == IF adapter = "judge" THEN "openai" ELSE adapter

\* The charges to account for: of an answer that could be read, identified, and
\* metered in the tokens of its own provider.
Due(i) ==
    {bill \in calls[i].bill : /\ calls[i].ending = "told"
                              /\ bill.id # 0 /\ bill.usage = OwnUsage(calls[i].adapter)}
Charge(i, bill) == <<Account(calls[i].adapter), bill.id>>
Recurs(i, bill) ==
    \E j \in 1..(i - 1) : \E earlier \in Due(j) : Charge(j, earlier) = Charge(i, bill)

\* The ledger has every charge of the round once, whatever the text was, however
\* often a response id comes back, from the same provider or another, and even
\* if the round ended in an exception; nothing else is in it, and what is in it
\* bears the step of the call that was charged first (_record_cost, record).
CostIsKept ==
    /\ \A i \in DOMAIN calls : \A bill \in Due(i) :
         \E n \in DOMAIN costs : costs[n].event = Charge(i, bill)
    /\ \A n \in DOMAIN costs : \E i \in DOMAIN calls : \E bill \in Due(i) :
         /\ costs[n] = [event |-> Charge(i, bill), step |-> bill.step]
         /\ ~Recurs(i, bill)
    /\ \A m, n \in DOMAIN costs : costs[m].event = costs[n].event => m = n

Told == {i \in DOMAIN observations : observations[i].status = "FINDING"}
IdAt(i) == observations[i].finding.id
First(i) == i \in Told /\ \A j \in Told : j < i => IdAt(j) # IdAt(i)
Declares(i) ==
    LET relation == Effective(observations[i], Anchors(gate)) IN
    IF relation = "UNRESOLVED" THEN <<relation>> ELSE <<relation, observations[i].target>>
Contested == \E i, j \in Told : IdAt(i) = IdAt(j) /\ Declares(i) # Declares(j)
Reordered(order) == [i \in DOMAIN observations |-> observations[order[i]]]

\* The merge loses nothing and invents nothing: every finding told is in exactly
\* one of the three groups, by the relation its first delivery declared and
\* could prove, and every refusal and failure is counted.  Unless a finding was
\* delivered again with another relation, the order of the answers is of no
\* consequence; that corrupted evidence is refused never depends on it
\* (merge_evidence, EvidenceView).
MergeKeepsEvidence ==
    /\ phase = "merged" =>
         /\ Outline(view).supporting = {IdAt(i) : i \in {j \in Told : First(j)
                /\ Effective(observations[j], Anchors(gate)) = "SUPPORTING"}}
         /\ Outline(view).conflicting = {IdAt(i) : i \in {j \in Told : First(j)
                /\ Effective(observations[j], Anchors(gate)) = "CONTRADICTING"}}
         /\ Outline(view).unresolved =
                {IdAt(i) : i \in Told} \ (Outline(view).supporting \cup Outline(view).conflicting)
         /\ Len(view.findings) = Cardinality({IdAt(i) : i \in Told})
         /\ view.abstained + view.errors + Cardinality(Told) = Len(observations)
         /\ ~Contested => \A order \in Bijection(DOMAIN observations, DOMAIN observations) :
                Outline(merge_evidence(Reordered(order), gate)) = Outline(view)
    /\ phase = "asking" /\ agenda = << >> =>
         \A order \in Bijection(DOMAIN observations, DOMAIN observations) :
            merge_evidence(Reordered(order), gate).collision
                = merge_evidence(observations, gate).collision

\* Advice moves no decision: with a gate the status is the gate's; without one
\* it is an abstention, or an error if every advisor failed, and cites nothing.
\* What is cited is the gate's own, or was told in support of it, and nobody
\* is quoted who told nothing (synthesize_decision).
DecisionStands ==
    decision # None =>
        /\ gate # NoGate => decision.status = gate.status
        /\ gate = NoGate =>
             /\ decision.status = (IF observations # << >> /\ \A i \in DOMAIN observations :
                                       observations[i].status = "ERROR"
                                   THEN "ERROR" ELSE "ABSTAIN")
             /\ decision.refs = {}
        /\ decision.status = "REJECTED" => gate.refs # {} /\ gate.refs \subseteq decision.refs
        /\ \A ref \in decision.refs \ gate.refs :
             \E i \in Told : IdAt(i) = ref /\ observations[i].relation = "SUPPORTING"
        /\ decision.perspectives = {observations[i].finding.source : i \in Told}

\* Whatever the advisors and the judge said, a round that decides ACCEPTED is
\* about a source whose layers import one another in no cycle, none of them
\* unknown to the baseline (the rules of the architecture baselines).
AcceptedIsLayered ==
    decision # None /\ decision.status = "ACCEPTED" =>
        /\ Layered(scan_directory(tree))
        /\ LayersOf(scan_directory(tree)) \subseteq Known(version)

\* resolve() returns one judgment for each conflict, in their order, or raises
\* and returns none; a judgment takes a side by citing findings of its own
\* conflict, each once, and one that failed or abstains cites nothing
\* (JudgeUseCase.resolve, OpenAIJudgeAdapter.judge).
JudgmentsAreWhole ==
    /\ phase = "done" => Len(run) = Len(view.conflicts)
    /\ phase # "done" => run = << >>
    /\ \A i \in DOMAIN judging :
         LET cited == judging[i].refs IN
         /\ (judging[i].status \in {"ACCEPTED", "REJECTED"}) = (cited # << >>)
         /\ Range(cited) \subseteq ConflictIds(view.conflicts[i])
         /\ Cardinality(Range(cited)) = Len(cited)
         /\ Cardinality(ConflictSteps(view.conflicts[i], view)) = 1

\* Every round ends, with its judgments or with an exception, however often the
\* providers time out, refuse or answer nonsense.
RoundEnds == <>(phase \in Ended)

=============================================================================
