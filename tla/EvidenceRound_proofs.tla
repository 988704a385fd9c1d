--------------------------- MODULE EvidenceRound_proofs ---------------------------
(***************************************************************************)
(* For every source tree, agenda and bound: an accepted round is about a   *)
(* layered source, and every answer that was read is booked once.          *)
(***************************************************************************)
EXTENDS EvidenceRound, ArchitectureRules_proofs, EvidenceMerger_proofs, TLAPS

-----------------------------------------------------------------------------
\* The decision of a round follows the gate, and the gate the tree.

\* The gate is taken once, before there is a decision, on a tree that stays.
GateIsOfTree ==
    /\ gate = NoGate \/ gate = Decision(version, scan_directory(tree))
    /\ phase = "start" => decision = None
    /\ decision # None /\ decision.status = "ACCEPTED" =>
         gate # NoGate /\ gate.status = "ACCEPTED"

LEMMA InitGateIsOfTree == Init => GateIsOfTree
BY DEF Init, GateIsOfTree

LEMMA NextGateIsOfTree == GateIsOfTree /\ [Next]_vars => GateIsOfTree'
<1> SUFFICES ASSUME GateIsOfTree, [Next]_vars PROVE GateIsOfTree'
  OBVIOUS
<1> USE DEF GateIsOfTree, vars, worldVars, callerVars
<1>1. CASE CheckRealization
  BY <1>1 DEF CheckRealization
<1>2. CASE Decide
  <2>1. decision' = synthesize_decision(view, gate) /\ phase' = "decided"
    BY <1>2 DEF Decide
  <2>2. decision'.status = DecisionStatus(gate, view)
    BY <2>1 DEF synthesize_decision
  <2>3. UNCHANGED <<tree, version, gate>>
    BY <1>2 DEF Decide
  <2> QED
    BY <2>1, <2>2, <2>3 DEF DecisionStatus
<1>3. CASE UNCHANGED vars
  BY <1>3
<1>4. ASSUME UNCHANGED <<tree, version, gate, decision>>, phase' # "start" \/ UNCHANGED phase
      PROVE  GateIsOfTree'
  BY <1>4
<1>5. CASE GoWithoutGate \/ MixedSteps \/ Call \/ Merge \/ Resolve \/ Resolved
  BY <1>4, <1>5 DEF GoWithoutGate, MixedSteps, Call, Merge, Resolve, Resolved
<1>6. CASE WithoutKey
  BY <1>4, <1>6 DEF WithoutKey
<1>7. CASE \E event \in Failures : Retry(event) \/ GiveUp(event) \/ Raise(event)
  BY <1>4, <1>7 DEF Retry, GiveUp, Raise
<1>8. CASE SoundAnswer \/ OddAnswer
  BY <1>4, <1>8 DEF SoundAnswer, OddAnswer, Answer
<1> QED
  BY <1>1, <1>2, <1>3, <1>5, <1>6, <1>7, <1>8 DEF Next

\* Whatever is answered, a round that decides ACCEPTED is about a source whose
\* layers are known and import one another in no cycle (the baselines' rules).
THEOREM AcceptedRounds == Spec => []AcceptedIsLayered
<1>1. GateIsOfTree => AcceptedIsLayered
  BY AcceptedIsSound DEF GateIsOfTree, AcceptedIsLayered
<1> QED
  BY <1>1, InitGateIsOfTree, NextGateIsOfTree, PTL DEF Spec

-----------------------------------------------------------------------------
\* The ledger.

\* Only adapters are called: the advisors of the agenda, and the judge.
Callees ==
    /\ \E Queries : agenda \in Seq(Queries)
    /\ \A i \in DOMAIN agenda : agenda[i].adapter \in Advisors
    /\ call # NoCall => call.adapter \in Adapters
    /\ call # NoCall /\ call.adapter # "judge" => agenda # << >>

LEMMA InitCallees == Init => Callees
BY AgendasAskAdvisors DEF Init, Callees

\* A question that is answered leaves the agenda.
LEMMA ReturnsKeepsCallees ==
    ASSUME Callees, NEW adapter, NEW result, Returns(adapter, result),
           adapter # "judge" => agenda # << >>, call' = NoCall
    PROVE  Callees'
<1>1. CASE UNCHANGED agenda
  BY <1>1 DEF Callees
<1>2. CASE agenda' = Tail(agenda) /\ agenda # << >>
  <2>1. PICK Queries : agenda \in Seq(Queries)
    BY DEF Callees
  <2>2. /\ agenda' \in Seq(Queries)
        /\ \A i \in DOMAIN agenda' : i + 1 \in DOMAIN agenda /\ agenda'[i] = agenda[i + 1]
    BY <1>2, <2>1
  <2> QED
    BY <2>2 DEF Callees
<1> QED
  BY <1>1, <1>2 DEF Returns

LEMMA NextCallees == Callees /\ [Next]_vars => Callees'
<1> SUFFICES ASSUME Callees, [Next]_vars PROVE Callees'
  OBVIOUS
<1>1. ASSUME UNCHANGED agenda, UNCHANGED call \/ call' = NoCall
      PROVE  Callees'
  BY <1>1 DEF Callees
<1>2. CASE \/ CheckRealization \/ GoWithoutGate \/ MixedSteps
           \/ Merge \/ Decide \/ Resolve \/ Resolved
  BY <1>1, <1>2 DEF CheckRealization, GoWithoutGate, MixedSteps, Merge, Decide, Resolve,
     Resolved, callerVars
<1>3. CASE UNCHANGED vars
  BY <1>1, <1>3 DEF vars, callerVars
<1>4. (ToAsk \/ ToJudge) => /\ NextAdapter \in Adapters
                            /\ NextAdapter # "judge" => agenda # << >>
  <2>1. CASE ToAsk
    <3>1. Head(agenda).adapter \in Advisors
      BY <2>1 DEF ToAsk, Callees
    <3> QED
      BY <2>1, <3>1 DEF ToAsk, NextAdapter, Adapters
  <2>2. CASE ToJudge
    BY <2>2 DEF ToJudge, NextAdapter, Adapters
  <2> QED
    BY <2>1, <2>2
<1>5. CASE WithoutKey
  <2>1. Callees /\ call' = NoCall
    BY <1>5 DEF WithoutKey
  <2> QED
    BY <1>4, <1>5, <2>1, ReturnsKeepsCallees DEF WithoutKey
<1>6. CASE Call
  <2>1. agenda' = agenda /\ call'.adapter = NextAdapter
    BY <1>6 DEF Call, callerVars
  <2> QED
    BY <1>4, <1>6, <2>1 DEF Call, Callees
<1>7. ASSUME NEW event \in Failures, Retry(event)
      PROVE  Callees'
  <2>1. agenda' = agenda /\ call # NoCall /\ call' = [call EXCEPT !.attempt = @ + 1]
    BY <1>7 DEF Retry, callerVars
  <2>2. call'.adapter = call.adapter
    BY <2>1
  <2> QED
    BY <2>1, <2>2 DEF Callees
<1>8. ASSUME NEW event \in Failures, GiveUp(event)
      PROVE  Callees'
  <2>1. Returns(call.adapter, Failed(call.adapter)) /\ call # NoCall /\ call' = NoCall
    BY <1>8 DEF GiveUp
  <2> QED
    BY <2>1, ReturnsKeepsCallees DEF Callees
<1>9. ASSUME NEW event \in Failures, Raise(event)
      PROVE  Callees'
  BY <1>1, <1>9 DEF Raise, callerVars
<1>10. ASSUME NEW body, NEW sink, Answer(body, sink)
       PROVE  Callees'
  <2>1. /\ call # NoCall /\ call' = NoCall
        /\ \E result : Returns(call.adapter, result)
    BY <1>10 DEF Answer
  <2> QED
    BY <2>1, ReturnsKeepsCallees DEF Callees
<1> QED
  BY <1>2, <1>3, <1>5, <1>6, <1>7, <1>8, <1>9, <1>10 DEF Next, SoundAnswer, OddAnswer

\* The ledger keeps the charges of the calls that ended.
Booking ==
    /\ \E Records : calls \in Seq(Records)
    /\ \E Records : costs \in Seq(Records)
    /\ CostIsKept

LEMMA InitBooking == Init => Booking
BY DEF Init, Booking, CostIsKept

\* What of a bill is due, and the row it calls for.
DueOf(adapter, ending, bills) ==
    {bill \in bills : ending = "told" /\ bill.id # 0 /\ bill.usage = OwnUsage(adapter)}
Row(adapter, bill) == [event |-> <<Account(adapter), bill.id>>, step |-> bill.step]

\* A call that ends leaves the charges of the earlier ones as they are.
LEMMA ChargesStay ==
    ASSUME Booking, NEW adapter, NEW ending, NEW bills, CallEnds(adapter, ending, bills)
    PROVE  /\ Len(calls) \in Nat /\ DOMAIN calls = 1..Len(calls)
           /\ DOMAIN calls' = 1..(Len(calls) + 1)
           /\ \E Records : calls' \in Seq(Records)
           /\ \A i \in DOMAIN calls : calls'[i] = calls[i]
           /\ calls'[Len(calls) + 1] = [adapter |-> adapter, ending |-> ending, bill |-> bills]
<1> DEFINE last == [adapter |-> adapter, ending |-> ending, bill |-> bills]
<1>1. PICK Records : calls \in Seq(Records)
  BY DEF Booking
<1>2. calls' = Append(calls, last)
  BY DEF CallEnds
<1>3. calls' \in Seq(Records \cup {last})
  BY <1>1, <1>2
<1> HIDE DEF last
<1>4. /\ Len(calls) \in Nat /\ DOMAIN calls = 1..Len(calls)
      /\ DOMAIN calls' = 1..(Len(calls) + 1)
      /\ \A i \in DOMAIN calls : calls'[i] = calls[i]
      /\ calls'[Len(calls) + 1] = last
  BY <1>1, <1>2
<1> QED
  BY <1>3, <1>4 DEF last

LEMMA ChargesOfCalls ==
    ASSUME Booking, NEW adapter, NEW ending, NEW bills, CallEnds(adapter, ending, bills),
           NEW new, new = Len(calls) + 1
    PROVE  /\ \A i \in DOMAIN calls :
                /\ Due(i)' = Due(i) /\ \A bill : Charge(i, bill)' = Charge(i, bill)
                /\ \A bill : Recurs(i, bill)' = Recurs(i, bill)
           /\ Due(new)' = DueOf(adapter, ending, bills)
           /\ \A bill : Charge(new, bill)' = <<Account(adapter), bill.id>>
           /\ \A bill : Recurs(new, bill)' =>
                \E j \in DOMAIN calls : \E earlier \in Due(j) :
                    Charge(j, earlier) = <<Account(adapter), bill.id>>
<1>1. /\ Len(calls) \in Nat /\ DOMAIN calls = 1..Len(calls)
      /\ \A i \in DOMAIN calls : calls'[i] = calls[i]
      /\ calls'[new] = [adapter |-> adapter, ending |-> ending, bill |-> bills]
  BY ChargesStay
<1>2. \A i \in DOMAIN calls : Due(i)' = Due(i)
  BY <1>1 DEF Due
<1>3. \A i \in DOMAIN calls : \A bill : Charge(i, bill)' = Charge(i, bill)
  BY <1>1 DEF Charge
<1>4. ASSUME NEW i \in DOMAIN calls, NEW bill
      PROVE  Recurs(i, bill)' = Recurs(i, bill)
  <2>1. \A j \in 1..(i - 1) : j \in DOMAIN calls
    BY <1>1
  <2> QED
    BY <1>2, <1>3, <2>1 DEF Recurs
<1>5. calls'[new].adapter = adapter /\ calls'[new].ending = ending /\ calls'[new].bill = bills
  BY <1>1
<1>6. Due(new)' = DueOf(adapter, ending, bills)
  BY <1>5 DEF Due, DueOf
<1>7. \A bill : Charge(new, bill)' = <<Account(adapter), bill.id>>
  BY <1>5 DEF Charge
<1>8. ASSUME NEW bill, Recurs(new, bill)'
      PROVE  \E j \in DOMAIN calls : \E earlier \in Due(j) :
                Charge(j, earlier) = <<Account(adapter), bill.id>>
  <2>1. 1..(new - 1) = DOMAIN calls
    BY <1>1
  <2> QED
    BY <1>2, <1>3, <1>7, <1>8, <2>1 DEF Recurs
<1> QED
  BY <1>2, <1>3, <1>4, <1>6, <1>7, <1>8

\* The rows that are booked are those of the charges that are due.
LEMMA BookedIsDue ==
    ASSUME Callees, call # NoCall, NEW body, NEW sink \in BOOLEAN,
           NEW ending, ending = IF Readable(call.adapter, body) THEN "told" ELSE "unreadable"
    PROVE  (IF Readable(call.adapter, body) /\ sink THEN Booked(body) ELSE {})
              = {Row(call.adapter, bill) : bill \in DueOf(call.adapter, ending, Bill(body, sink))}
<1> DEFINE adapter == call.adapter
           charged == [id |-> body.id, usage |-> body.usage, step |-> call.step]
<1>1. CASE ~(Readable(adapter, body) /\ sink)
  <2>1. DueOf(adapter, ending, Bill(body, sink)) = {}
    BY <1>1 DEF DueOf, Bill
  <2> QED
    BY <1>1, <2>1
<1>2. CASE Readable(adapter, body) /\ sink
  <2>1. adapter \in {"openai", "claude", "grok", "judge"}
    BY DEF Callees, Adapters, Advisors
  <2>2. CostEvents(adapter, body) = IF body.usage = OwnUsage(adapter) /\ body.id # 0
                                    THEN {<<Account(adapter), body.id>>} ELSE {}
    BY <2>1 DEF CostEvents, OpenAICosts, ClaudeCosts, GrokCosts, JudgeCosts, Costs,
       OwnUsage, Account
  <2>3. Bill(body, sink) = {charged} /\ ending = "told"
    BY <1>2 DEF Bill, Readable
  <2>4. charged.id = body.id /\ charged.usage = body.usage /\ charged.step = call.step
    OBVIOUS
  <2> HIDE DEF charged
  <2>5. DueOf(adapter, ending, Bill(body, sink)) =
          IF body.usage = OwnUsage(adapter) /\ body.id # 0 THEN {charged} ELSE {}
    BY <2>3, <2>4 DEF DueOf
  <2>6. Row(adapter, charged) = [event |-> <<Account(adapter), body.id>>, step |-> call.step]
    BY <2>4 DEF Row
  <2>7. CASE body.usage = OwnUsage(adapter) /\ body.id # 0
    <3>1. Booked(body) = {[event |-> <<Account(adapter), body.id>>, step |-> call.step]}
      BY <2>2, <2>7 DEF Booked
    <3> QED
      BY <1>2, <2>5, <2>6, <2>7, <3>1
  <2>8. CASE ~(body.usage = OwnUsage(adapter) /\ body.id # 0)
    <3>1. Booked(body) = {}
      BY <2>2, <2>8 DEF Booked
    <3> QED
      BY <1>2, <2>5, <2>8, <3>1
  <2> QED
    BY <2>7, <2>8
<1> QED
  BY <1>1, <1>2

\* A call that ends with its rows recorded leaves the ledger complete.
LEMMA CallIsBooked ==
    ASSUME Booking, NEW adapter, NEW ending, NEW bills, CallEnds(adapter, ending, bills),
           \A a, b \in bills : a = b,
           record({Row(adapter, bill) : bill \in DueOf(adapter, ending, bills)})
    PROVE  Booking'
<1> DEFINE due == DueOf(adapter, ending, bills)
           rows == {Row(adapter, bill) : bill \in due}
           unknown == {row \in rows : \A n \in DOMAIN costs : costs[n].event # row.event}
<1>0. PICK new : new = Len(calls) + 1
  OBVIOUS
<1>1. /\ Len(calls) \in Nat /\ DOMAIN calls = 1..Len(calls) /\ DOMAIN calls' = 1..new
      /\ \E Records : calls' \in Seq(Records)
  BY <1>0, ChargesStay
<1>2. /\ \A i \in DOMAIN calls :
           /\ Due(i)' = Due(i) /\ \A bill : Charge(i, bill)' = Charge(i, bill)
           /\ \A bill : Recurs(i, bill)' = Recurs(i, bill)
      /\ Due(new)' = due
      /\ \A bill : Charge(new, bill)' = <<Account(adapter), bill.id>>
      /\ \A bill : Recurs(new, bill)' =>
           \E j \in DOMAIN calls : \E earlier \in Due(j) :
               Charge(j, earlier) = <<Account(adapter), bill.id>>
  BY <1>0, ChargesOfCalls
<1>3. \A a, b \in due : a = b
  BY DEF DueOf
<1>4. \A bill : Row(adapter, bill).event = <<Account(adapter), bill.id>>
                /\ Row(adapter, bill).step = bill.step
  BY DEF Row
<1>5. \A i \in DOMAIN calls' : i \in DOMAIN calls \/ i = new
  BY <1>0, <1>1
<1>6. DOMAIN calls \subseteq DOMAIN calls' /\ new \in DOMAIN calls'
  BY <1>0, <1>1
<1>7. (unknown = {} /\ UNCHANGED costs) \/ \E row \in unknown : costs' = Append(costs, row)
  BY DEF record
<1> HIDE DEF due
<1>8. CASE unknown = {} /\ UNCHANGED costs
  <2>1. ASSUME NEW i \in DOMAIN calls', NEW bill \in Due(i)'
        PROVE  \E n \in DOMAIN costs' : costs'[n].event = Charge(i, bill)'
    <3>1. CASE i \in DOMAIN calls
      BY <1>2, <1>8, <2>1, <3>1 DEF Booking, CostIsKept
    <3>2. CASE i = new
      <4>1. bill \in due /\ Row(adapter, bill) \in rows /\ Row(adapter, bill) \notin unknown
        BY <1>2, <1>8, <2>1, <3>2
      <4>2. \E n \in DOMAIN costs : costs[n].event = Row(adapter, bill).event
        BY <4>1
      <4> QED
        BY <1>2, <1>4, <1>8, <3>2, <4>2
    <3> QED
      BY <1>5, <3>1, <3>2
  <2>2. ASSUME NEW n \in DOMAIN costs'
        PROVE  \E i \in DOMAIN calls' : \E bill \in Due(i)' :
                  /\ costs'[n] = [event |-> Charge(i, bill)', step |-> bill.step]
                  /\ ~Recurs(i, bill)'
    <3>1. PICK i \in DOMAIN calls : \E bill \in Due(i) :
                  /\ costs[n] = [event |-> Charge(i, bill), step |-> bill.step]
                  /\ ~Recurs(i, bill)
      BY <1>8, <2>2 DEF Booking, CostIsKept
    <3> QED
      BY <1>2, <1>6, <1>8, <3>1
  <2>3. \A m, n \in DOMAIN costs' : costs'[m].event = costs'[n].event => m = n
    BY <1>8 DEF Booking, CostIsKept
  <2>4. CostIsKept'
    BY <1>8, <2>1, <2>2, <2>3 DEF CostIsKept
  <2> QED
    BY <1>1, <1>8, <2>4 DEF Booking
<1>9. ASSUME NEW row \in unknown, costs' = Append(costs, row)
      PROVE  Booking'
  <2>1. PICK Records : costs \in Seq(Records)
    BY DEF Booking
  <2>2. /\ costs' \in Seq(Records \cup {row})
        /\ Len(costs) \in Nat /\ DOMAIN costs = 1..Len(costs)
        /\ DOMAIN costs' = 1..(Len(costs) + 1)
        /\ costs'[Len(costs) + 1] = row
        /\ \A n \in DOMAIN costs : costs'[n] = costs[n] /\ n \in DOMAIN costs'
    BY <1>9, <2>1
  <2>3. PICK charged \in due : row = Row(adapter, charged)
    OBVIOUS
  <2>4. \A n \in DOMAIN costs : costs[n].event # row.event
    OBVIOUS
  <2>5. ASSUME NEW i \in DOMAIN calls', NEW bill \in Due(i)'
        PROVE  \E n \in DOMAIN costs' : costs'[n].event = Charge(i, bill)'
    <3>1. CASE i \in DOMAIN calls
      BY <1>2, <2>2, <2>5, <3>1 DEF Booking, CostIsKept
    <3>2. CASE i = new
      <4>1. bill = charged
        BY <1>2, <1>3, <2>5, <3>2
      <4>2. costs'[Len(costs) + 1].event = Charge(i, bill)' /\ Len(costs) + 1 \in DOMAIN costs'
        <5>1. row.event = <<Account(adapter), charged.id>>
          BY <1>4, <2>3
        <5>2. Charge(i, bill)' = <<Account(adapter), charged.id>>
          BY <1>2, <3>2, <4>1
        <5> QED
          BY <2>2, <5>1, <5>2
      <4> QED
        BY <4>2
    <3> QED
      BY <1>5, <3>1, <3>2
  <2>6. ASSUME NEW n \in DOMAIN costs'
        PROVE  \E i \in DOMAIN calls' : \E bill \in Due(i)' :
                  /\ costs'[n] = [event |-> Charge(i, bill)', step |-> bill.step]
                  /\ ~Recurs(i, bill)'
    <3>1. CASE n \in DOMAIN costs
      <4>1. PICK i \in DOMAIN calls : \E bill \in Due(i) :
                  /\ costs[n] = [event |-> Charge(i, bill), step |-> bill.step]
                  /\ ~Recurs(i, bill)
        BY <3>1 DEF Booking, CostIsKept
      <4> QED
        BY <1>2, <1>6, <2>2, <3>1, <4>1
    <3>2. CASE n = Len(costs) + 1
      <4>1. costs'[n] = row /\ row = [event |-> Charge(new, charged)', step |-> charged.step]
        BY <1>2, <2>2, <2>3, <3>2 DEF Row
      <4>2. ~Recurs(new, charged)'
        <5> SUFFICES ASSUME NEW j \in DOMAIN calls, NEW bill \in Due(j),
                            Charge(j, bill) = row.event
                     PROVE  FALSE
          BY <1>2, <1>4, <2>3
        <5> QED
          BY <2>4 DEF Booking, CostIsKept
      <4> QED
        BY <1>2, <1>6, <4>1, <4>2
    <3> QED
      BY <2>2, <3>1, <3>2
  <2>7. \A m, n \in DOMAIN costs' : costs'[m].event = costs'[n].event => m = n
    BY <2>2, <2>4 DEF Booking, CostIsKept
  <2>8. CostIsKept'
    BY <2>5, <2>6, <2>7 DEF CostIsKept
  <2> QED
    BY <1>1, <2>2, <2>8 DEF Booking
<1> QED
  BY <1>7, <1>8, <1>9

LEMMA AnswerIsBooked ==
    ASSUME Callees, Booking, NEW body, NEW sink \in BOOLEAN, Answer(body, sink)
    PROVE  Booking'
<1> DEFINE ending == IF Readable(call.adapter, body) THEN "told" ELSE "unreadable"
           bills == Bill(body, sink)
<1>1. /\ call # NoCall
      /\ record(IF Readable(call.adapter, body) /\ sink THEN Booked(body) ELSE {})
      /\ CallEnds(call.adapter, ending, bills)
  BY DEF Answer
<1>2. record({Row(call.adapter, bill) : bill \in DueOf(call.adapter, ending, bills)})
  BY <1>1, BookedIsDue
<1>3. \A a, b \in bills : a = b
  BY DEF Bill
<1> HIDE DEF ending, bills
<1> QED
  BY <1>1, <1>2, <1>3, CallIsBooked

LEMMA NextBooking == Callees /\ Booking /\ [Next]_vars => Booking'
<1> SUFFICES ASSUME Callees, Booking, [Next]_vars PROVE Booking'
  OBVIOUS
<1>1. ASSUME UNCHANGED <<calls, costs>>
      PROVE  Booking'
  <2>1. \A i : Due(i)' = Due(i) /\ \A bill : Charge(i, bill)' = Charge(i, bill)
    BY <1>1 DEF Due, Charge
  <2>2. \A i, bill : Recurs(i, bill)' = Recurs(i, bill)
    BY <2>1 DEF Recurs
  <2>3. CostIsKept'
    BY <1>1, <2>1, <2>2 DEF Booking, CostIsKept
  <2> QED
    BY <1>1, <2>3 DEF Booking
<1>2. CASE \/ CheckRealization \/ GoWithoutGate \/ MixedSteps \/ Call
           \/ Merge \/ Decide \/ Resolve \/ Resolved
  BY <1>1, <1>2 DEF CheckRealization, GoWithoutGate, MixedSteps, Call, Merge, Decide,
     Resolve, Resolved
<1>3. CASE UNCHANGED vars
  BY <1>1, <1>3 DEF vars
<1>4. CASE \E event \in Failures : Retry(event) \/ Raise(event)
  BY <1>1, <1>4 DEF Retry, Raise
<1>5. ASSUME NEW adapter, NEW ending, CallEnds(adapter, ending, {}), UNCHANGED costs
      PROVE  Booking'
  <2>1. {Row(adapter, bill) : bill \in DueOf(adapter, ending, {})} = {}
    BY DEF DueOf
  <2>2. record({})
    BY <1>5 DEF record
  <2> QED
    BY <1>5, <2>1, <2>2, CallIsBooked
<1>6. CASE WithoutKey
  BY <1>5, <1>6 DEF WithoutKey
<1>7. CASE \E event \in Failures : GiveUp(event)
  BY <1>5, <1>7 DEF GiveUp
<1>8. CASE SoundAnswer \/ OddAnswer
  <2>1. PICK body \in SoundBodies \cup Bodies, sink \in BOOLEAN : Answer(body, sink)
    BY <1>8 DEF SoundAnswer, OddAnswer
  <2> QED
    BY <2>1, AnswerIsBooked
<1> QED
  BY <1>2, <1>3, <1>4, <1>6, <1>7, <1>8 DEF Next

\* For every agenda, retry budget and stream of answers, whichever response ids
\* come back again: the ledger has each charge of a readable answer that bears an
\* id and the provider's own token counts, once, on the step of the call that was
\* charged first, and nothing else (_record_cost, SqliteCostPlugin.record).
THEOREM CostsAreKept == Spec => []CostIsKept
<1>1. Booking => CostIsKept
  BY DEF Booking
<1> QED
  BY <1>1, InitCallees, NextCallees, InitBooking, NextBooking, PTL DEF Spec

-----------------------------------------------------------------------------
\* The retries.

\* A call in progress is an advisor's while questions are asked and the judge's
\* while conflicts are resolved, and has an attempt left to make; nothing is
\* judged before everything was asked.
InCall(adapter, step, attempt) ==
    /\ call = [adapter |-> adapter, step |-> step, attempt |-> attempt]
    /\ adapter = "judge" => phase = "judging"
    /\ adapter # "judge" => phase = "asking"

Progress ==
    /\ call # NoCall => \E step : \E adapter \in Adapters, attempt \in 0..MaxRetries :
                            InCall(adapter, step, attempt)
    /\ phase \in {"start", "asking"} => judging = << >>

Recorded ==
    /\ \E Records : calls \in Seq(Records)
    /\ \E Records : observations \in Seq(Records)
    /\ \E Records : judging \in Seq(Records)

Honest ==
    /\ \A i \in DOMAIN calls : calls[i].ending \notin {"tooEarly", "tooLate"}
    /\ Len(calls) = Len(observations) + Len(judging)
    /\ \A i \in DOMAIN calls : calls[i].ending # "told" =>
         IF i <= Len(observations) THEN observations[i].status = "ERROR"
         ELSE judging[i - Len(observations)] = FailedJudgment

Retries == Progress /\ Recorded /\ Honest

LEMMA InitRetries == Init => Retries
<1> SUFFICES ASSUME Init PROVE Retries
  OBVIOUS
<1> QED
  BY DEF Init, Retries, Progress, Recorded, Honest

\* A call that ends leaves one result, of the advisor or of the judge.
LEMMA CallLeavesResult ==
    ASSUME Retries, NEW adapter, NEW ending, NEW bill, NEW result,
           CallEnds(adapter, ending, bill), Returns(adapter, result),
           adapter = "judge" => phase = "judging",
           adapter # "judge" => phase = "asking",
           ending \notin {"tooEarly", "tooLate"},
           ending # "told" => result = Failed(adapter),
           call' = NoCall, UNCHANGED phase
    PROVE  Retries'
<1>1. PICK Records : calls \in Seq(Records)
  BY DEF Retries, Recorded
<1>2. PICK Results : observations \in Seq(Results)
  BY DEF Retries, Recorded
<1>3. PICK Judgments : judging \in Seq(Judgments)
  BY DEF Retries, Recorded
<1>4. PICK last : last.ending = ending /\ calls' = Append(calls, last)
  BY DEF CallEnds
<1>5. /\ calls' \in Seq(Records \cup {last}) /\ Len(calls') = Len(calls) + 1
      /\ DOMAIN calls = 1..Len(calls) /\ DOMAIN calls' = 1..(Len(calls) + 1)
      /\ Len(calls) \in Nat
      /\ calls'[Len(calls) + 1].ending = ending
      /\ \A i \in 1..Len(calls) : calls'[i] = calls[i]
  BY <1>1, <1>4
<1>6. Len(observations) \in Nat /\ Len(judging) \in Nat
      /\ Len(calls) = Len(observations) + Len(judging)
  BY <1>2, <1>3 DEF Retries, Honest
<1>7. CASE adapter = "judge"
  <2>1. judging' = Append(judging, result) /\ observations' = observations
    BY <1>7 DEF Returns
  <2>2. /\ judging' \in Seq(Judgments \cup {result}) /\ Len(judging') = Len(judging) + 1
        /\ judging'[Len(judging) + 1] = result
        /\ \A i \in 1..Len(judging) : judging'[i] = judging[i]
    BY <1>3, <2>1
  <2>3. Progress' /\ Recorded'
    BY <1>2, <1>5, <1>7, <2>1, <2>2 DEF Progress, Recorded
  <2>4. ASSUME NEW i \in DOMAIN calls', calls'[i].ending # "told"
        PROVE  IF i <= Len(observations') THEN observations'[i].status = "ERROR"
               ELSE judging'[i - Len(observations')] = FailedJudgment
    <3>1. CASE i \in 1..Len(calls)
      <4>1. IF i <= Len(observations) THEN observations[i].status = "ERROR"
            ELSE judging[i - Len(observations)] = FailedJudgment
        BY <1>5, <2>4, <3>1 DEF Retries, Honest
      <4>2. i > Len(observations) => i - Len(observations) \in 1..Len(judging)
        BY <1>6, <3>1
      <4>3. CASE i <= Len(observations)
        BY <2>1, <4>1, <4>3
      <4>4. CASE ~(i <= Len(observations))
        <5>1. i - Len(observations) \in 1..Len(judging)
          BY <1>6, <3>1, <4>2, <4>4
        <5> QED
          BY <2>1, <2>2, <4>1, <4>4, <5>1
      <4> QED
        BY <4>3, <4>4
    <3>2. CASE i = Len(calls) + 1
      <4>1. result = FailedJudgment
        BY <1>5, <1>7, <2>4, <3>2 DEF Failed
      <4>2. i > Len(observations) /\ i - Len(observations) = Len(judging) + 1
        BY <1>6, <3>2
      <4> QED
        BY <1>6, <2>1, <2>2, <4>1, <4>2, ~(i <= Len(observations))
    <3> QED
      BY <1>5, <3>1, <3>2
  <2>5. \A i \in DOMAIN calls' : calls'[i].ending \notin {"tooEarly", "tooLate"}
    BY <1>5 DEF Retries, Honest
  <2>6. Len(calls') = Len(observations') + Len(judging')
    BY <1>5, <1>6, <2>1, <2>2
  <2> QED
    BY <2>3, <2>4, <2>5, <2>6 DEF Retries, Honest
<1>8. CASE adapter # "judge"
  <2>1. PICK observation :
          /\ observations' = Append(observations, observation)
          /\ observation = Observation(Head(agenda), result)
    BY <1>8 DEF Returns
  <2>2. judging' = judging /\ judging = << >> /\ Len(judging) = 0
    BY <1>8 DEF Returns, Retries, Progress
  <2>3. /\ observations' \in Seq(Results \cup {observation})
        /\ Len(observations') = Len(observations) + 1
        /\ observations'[Len(observations) + 1] = observation
        /\ \A i \in 1..Len(observations) : observations'[i] = observations[i]
    BY <1>2, <2>1
  <2>4. ending # "told" => observation.status = "ERROR"
    <3> SUFFICES ASSUME ending # "told" PROVE observation.status = "ERROR"
      OBVIOUS
    <3>1. result = [status |-> "ERROR"]
      BY <1>8 DEF Failed, NoFinding
    <3>2. "status" \in DOMAIN result /\ result.status = "ERROR"
      BY <3>1
    <3> QED
      BY <2>1, <3>2 DEF Observation
  <2>5. Progress' /\ Recorded'
    BY <1>3, <1>5, <2>2, <2>3 DEF Progress, Recorded
  <2>6. ASSUME NEW i \in DOMAIN calls', calls'[i].ending # "told"
        PROVE  i <= Len(observations') /\ observations'[i].status = "ERROR"
    <3>1. CASE i \in 1..Len(calls)
      BY <1>5, <1>6, <2>2, <2>3, <2>6, <3>1 DEF Retries, Honest
    <3>2. CASE i = Len(calls) + 1
      BY <1>5, <1>6, <2>2, <2>3, <2>4, <2>6, <3>2
    <3> QED
      BY <1>5, <3>1, <3>2
  <2>7. \A i \in DOMAIN calls' : calls'[i].ending \notin {"tooEarly", "tooLate"}
    BY <1>5 DEF Retries, Honest
  <2>8. Len(calls') = Len(observations') + Len(judging')
    BY <1>5, <1>6, <2>2, <2>3
  <2> QED
    BY <2>5, <2>6, <2>7, <2>8 DEF Retries, Honest
<1> QED
  BY <1>7, <1>8

\* A request is repeated only for what may pass, and while an attempt is left.
LEMMA LastAttemptLeadsOut ==
    ASSUME NEW adapter \in Adapters, NEW event \in Failures
    PROVE  AttemptLeadsTo(adapter, event, TRUE) # "again"
<1> DEFINE reply == urllib_transport(event)
<1>1. reply.kind \in {"exception", "failure", "response"}
  BY DEF Failures, Response, urllib_transport
<1> HIDE DEF reply
<1>2. Posts(reply, TRUE) # "again"
  BY <1>1 DEF Posts
<1>3. AttemptLeadsTo(adapter, event, TRUE) = Posts(reply, TRUE)
  BY DEF AttemptLeadsTo, OpenAIPosts, ClaudePosts, GrokPosts, JudgePosts, Adapters, Advisors, reply
<1> QED
  BY <1>2, <1>3

LEMMA NextRetries == Callees /\ Retries /\ [Next]_vars => Retries'
<1> SUFFICES ASSUME Callees, Retries, [Next]_vars PROVE Retries'
  OBVIOUS
<1>1. ASSUME UNCHANGED <<calls, observations, judging>>, Progress'
      PROVE  Retries'
  BY <1>1 DEF Retries, Recorded, Honest
<1>2. CASE UNCHANGED vars
  BY <1>1, <1>2 DEF vars, callerVars, Retries, Progress, InCall
<1>3. ASSUME call' = NoCall, UNCHANGED <<calls, observations, judging>>,
             phase' \in {"start", "asking"} => phase \in {"start", "asking"}
      PROVE  Retries'
  BY <1>1, <1>3 DEF Retries, Progress
<1>4. call # NoCall => phase \in {"asking", "judging"}
  BY DEF Retries, Progress, InCall
<1>5. CASE \/ CheckRealization \/ GoWithoutGate \/ MixedSteps
           \/ Merge \/ Decide \/ Resolve \/ Resolved
  BY <1>3, <1>4, <1>5
  DEF CheckRealization, GoWithoutGate, MixedSteps, Merge, Decide, Resolve, Resolved, callerVars
<1>6. (ToAsk => NextAdapter # "judge" /\ NextAdapter \in Adapters /\ phase = "asking")
      /\ (ToJudge => NextAdapter = "judge" /\ NextAdapter \in Adapters /\ phase = "judging")
  <2>1. ASSUME ToAsk PROVE Head(agenda).adapter \in Advisors
    BY <2>1 DEF ToAsk, Callees
  <2> QED
    BY <2>1 DEF ToAsk, ToJudge, NextAdapter, Adapters, Advisors
<1>7. CASE WithoutKey
  <2>1. /\ CallEnds(NextAdapter, "noKey", {}) /\ Returns(NextAdapter, Failed(NextAdapter))
        /\ call' = NoCall /\ UNCHANGED phase /\ (ToAsk \/ ToJudge)
    BY <1>7 DEF WithoutKey
  <2> QED
    BY <1>6, <2>1, CallLeavesResult
<1>8. CASE Call
  <2>1. /\ call' = [adapter |-> NextAdapter, step |-> NextStep, attempt |-> 0]
        /\ UNCHANGED <<phase, calls, observations, judging>> /\ (ToAsk \/ ToJudge)
    BY <1>8 DEF Call, callerVars
  <2>2. 0 \in 0..MaxRetries
    BY BoundsAreNumbers
  <2>4. \E step : \E adapter \in Adapters, attempt \in 0..MaxRetries : InCall(adapter, step, attempt)'
    <3>1. PICK adapter \in Adapters : adapter = NextAdapter
      BY <1>6, <2>1
    <3>2. PICK step : step = NextStep
      OBVIOUS
    <3>3. InCall(adapter, step, 0)'
      BY <1>6, <2>1, <3>1, <3>2 DEF InCall
    <3> QED
      BY <2>2, <3>3
  <2>5. Progress'
    BY <2>1, <2>4 DEF Retries, Progress
  <2> QED
    BY <1>1, <2>1, <2>5
<1>9. ASSUME NEW event \in Failures, Retry(event)
      PROVE  Retries'
  <2>1. PICK step : \E adapter \in Adapters, attempt \in 0..MaxRetries : InCall(adapter, step, attempt)
    BY <1>9 DEF Retry, Retries, Progress
  <2>2. PICK adapter \in Adapters, attempt \in 0..MaxRetries : InCall(adapter, step, attempt)
    BY <2>1
  <2>3. call' = [adapter |-> adapter, step |-> step, attempt |-> attempt + 1]
    BY <1>9, <2>2 DEF Retry, InCall
  <2>4. attempt + 1 # Attempts
    <3>1. call.adapter = adapter /\ call.attempt = attempt
      BY <2>2 DEF InCall
    <3>2. AttemptLeadsTo(adapter, event, LastAttempt) = "again"
      BY <1>9, <3>1 DEF Retry
    <3>3. LastAttempt \in BOOLEAN
      BY DEF LastAttempt
    <3>4. LastAttempt = FALSE
      BY <3>2, <3>3, LastAttemptLeadsOut
    <3> QED
      BY <3>1, <3>4 DEF LastAttempt
  <2>5. attempt + 1 \in 0..MaxRetries
    BY <2>4, BoundsAreNumbers DEF Attempts
  <2>6. InCall(adapter, step, attempt + 1)'
    BY <1>9, <2>2, <2>3 DEF InCall, Retry
  <2>7. Progress'
    BY <1>9, <2>5, <2>6 DEF Retries, Progress, Retry, callerVars
  <2> QED
    BY <1>1, <1>9, <2>7 DEF Retry, callerVars
<1>10. ASSUME NEW event \in Failures, GiveUp(event)
       PROVE  Retries'
  <2>1. PICK step : \E adapter \in Adapters, attempt \in 0..MaxRetries : InCall(adapter, step, attempt)
    BY <1>10 DEF GiveUp, Retries, Progress
  <2>2. PICK adapter \in Adapters, attempt \in 0..MaxRetries : InCall(adapter, step, attempt)
    BY <2>1
  <2>3. /\ call.adapter = adapter /\ call.attempt = attempt
        /\ adapter = "judge" => phase = "judging"
        /\ adapter # "judge" => phase = "asking"
    BY <2>2 DEF InCall
  <2>4. PICK ending : /\ CallEnds(adapter, ending, {}) /\ Returns(adapter, Failed(adapter))
                      /\ call' = NoCall /\ UNCHANGED phase
                      /\ ending = IF AttemptLeadsTo(adapter, event, FALSE) # "again" THEN "permanent"
                                  ELSE IF attempt + 1 < Attempts THEN "tooEarly"
                                  ELSE IF attempt + 1 = Attempts THEN "exhausted" ELSE "tooLate"
    BY <1>10, <2>3 DEF GiveUp
  <2>5. AttemptLeadsTo(adapter, event, FALSE) = "again" => attempt + 1 = Attempts
    <3>1. AttemptLeadsTo(adapter, event, LastAttempt) = "failed"
      BY <1>10, <2>3 DEF GiveUp
    <3>2. LastAttempt = TRUE \/ LastAttempt = FALSE
      BY DEF LastAttempt
    <3>3. CASE LastAttempt = TRUE
      BY <2>3, <3>3 DEF LastAttempt
    <3>4. CASE LastAttempt = FALSE
      BY <3>1, <3>4
    <3> QED
      BY <3>2, <3>3, <3>4
  <2>6. ending \in {"permanent", "exhausted"}
    <3>1. attempt + 1 = Attempts => ~(attempt + 1 < Attempts)
      BY BoundsAreNumbers DEF Attempts
    <3> QED
      BY <2>4, <2>5, <3>1
  <2> QED
    BY <2>3, <2>4, <2>6, CallLeavesResult
<1>11. ASSUME NEW event \in Failures, Raise(event)
       PROVE  Retries'
  BY <1>3, <1>11 DEF Raise, callerVars
<1>12. ASSUME NEW body, NEW sink, Answer(body, sink)
       PROVE  Retries'
  <2>1. PICK result, ending, bill :
           /\ CallEnds(call.adapter, ending, bill) /\ Returns(call.adapter, result)
           /\ ending \in {"told", "unreadable"}
           /\ ending # "told" => result = Failed(call.adapter)
    BY <1>12 DEF Answer
  <2>2. /\ call.adapter = "judge" => phase = "judging"
        /\ call.adapter # "judge" => phase = "asking"
    BY <1>12 DEF Answer, Retries, Progress, InCall
  <2>3. call' = NoCall /\ UNCHANGED phase
    BY <1>12 DEF Answer
  <2> QED
    BY <2>1, <2>2, <2>3, CallLeavesResult
<1> QED
  BY <1>2, <1>5, <1>7, <1>8, <1>9, <1>10, <1>11, <1>12 DEF Next, SoundAnswer, OddAnswer

\* For every retry budget: a call sends no request beyond it and gives up before
\* it only for what no retry helps, and what ends a call without an answer is
\* told as an error, by the advisor or the judge that was called (_post).
THEOREM HonestRetries == Spec => []RetriesAreHonest
<1>1. Retries => RetriesAreHonest
  <2> SUFFICES ASSUME Retries, call # NoCall
               PROVE  call.attempt < Attempts
    BY DEF Retries, Honest, RetriesAreHonest
  <2>1. call.attempt \in 0..MaxRetries
    BY DEF Retries, Progress, InCall
  <2> QED
    BY <2>1, BoundsAreNumbers DEF Attempts
<1> QED
  BY <1>1, InitCallees, NextCallees, InitRetries, NextRetries, PTL DEF Spec

-----------------------------------------------------------------------------
\* The results of the calls.

\* What advise() returns, and what judge() returns for a conflict.
IsAdvice(result) ==
    /\ "status" \in DOMAIN result
    /\ result.status \in {"FINDING", "ABSTAIN", "ERROR"}
IsJudgment(result, conflict) ==
    /\ result.status \in Statuses
    /\ (result.status \in {"ACCEPTED", "REJECTED"}) = (result.refs # << >>)
    /\ Range(result.refs) \subseteq ConflictIds(conflict)
    /\ Cardinality(Range(result.refs)) = Len(result.refs)

LEMMA AdviceIsAdvice ==
    ASSUME NEW adapter \in Advisors, NEW text, NEW step
    PROVE  IsAdvice(Advice(adapter, text, step))
<1>1. IsAdvice(NoFinding) /\ IsAdvice([status |-> "ABSTAIN"])
  BY DEF IsAdvice, NoFinding
<1>2. \A finding : IsAdvice([status |-> "FINDING", finding |-> finding])
  BY DEF IsAdvice
<1>3. \A provider : IsAdvice(Finding(provider, text, step))
  BY <1>1, <1>2 DEF Finding
<1> QED
  BY <1>1, <1>3 DEF Advice, Advisors, OpenAIFinding, ClaudeFinding, GrokFinding

\* A sequence without repetitions has as many elements as places.
LEMMA DistinctCounted ==
    ASSUME NEW T, NEW q \in Seq(T), \A i, j \in DOMAIN q : q[i] = q[j] => i = j
    PROVE  Cardinality(Range(q)) = Len(q)
<1>1. q \in [1..Len(q) -> Range(q)] /\ Len(q) \in Nat /\ DOMAIN q = 1..Len(q)
  BY DEF Range
<1>2. q \in Bijection(1..Len(q), Range(q))
  <2>1. q \in Injection(1..Len(q), Range(q))
    BY <1>1 DEF Injection, IsInjective
  <2>2. \A x \in Range(q) : \E i \in 1..Len(q) : q[i] = x
    BY <1>1 DEF Range
  <2>3. q \in Surjection(1..Len(q), Range(q))
    BY <1>1, <2>2 DEF Surjection
  <2> QED
    BY <2>1, <2>3 DEF Bijection
<1>3. IsFiniteSet(1..Len(q))
  BY <1>1, FS_Interval
<1>4. Cardinality(1..Len(q)) = Len(q)
  <2>1. ASSUME NEW n \in Nat PROVE Cardinality(1..n) = n
    <3>1. Cardinality(1..n) = IF 1 > n THEN 0 ELSE n - 1 + 1
      BY FS_Interval
    <3> QED
      BY <3>1
  <2> QED
    BY <1>1, <2>1
<1> QED
  BY <1>2, <1>3, <1>4, FS_Bijection DEF ExistsBijection

LEMMA VerdictIsJudgment ==
    ASSUME NEW text, NEW conflict,
           text.kind = "contract" => \E T : text.refs \in Seq(T)
    PROVE  IsJudgment(Verdict(text, ConflictIds(conflict)), conflict)
<1> DEFINE known == ConflictIds(conflict)
           none == << >>
<1>1. Range(none) = {} /\ Cardinality({}) = 0 /\ Len(none) = 0
  BY FS_EmptySet DEF Range
<1>2. ASSUME NEW status \in {"ABSTAIN", "ERROR"}
      PROVE  IsJudgment(Judgment(status, << >>), conflict)
  <2>1. Judgment(status, none).status = status /\ Judgment(status, none).refs = none
    BY DEF Judgment
  <2>2. (status \in {"ACCEPTED", "REJECTED"}) = (none # << >>)
    OBVIOUS
  <2> HIDE DEF none
  <2>3. IsJudgment(Judgment(status, none), conflict)
    BY <1>1, <2>1, <2>2 DEF IsJudgment, Statuses, none
  <2> QED
    BY <2>3 DEF none
<1>3. ASSUME text.kind = "contract", text.status \in {"ACCEPTED", "REJECTED"},
             evidence_refs_of(text, known)
      PROVE  IsJudgment(Judgment(text.status, text.refs), conflict)
  <2>1. PICK T : text.refs \in Seq(T)
    BY <1>3
  <2>2. Cardinality(Range(text.refs)) = Len(text.refs)
    BY <1>3, <2>1, DistinctCounted DEF evidence_refs_of
  <2>3. Range(text.refs) \subseteq known /\ text.refs # << >>
    BY <1>3 DEF evidence_refs_of, Range
  <2> QED
    BY <1>3, <2>2, <2>3 DEF IsJudgment, Judgment, Statuses
<1> QED
  BY <1>2, <1>3 DEF Verdict, FailedJudgment

\* A text that the judge reads is one the model's providers may tell.
LEMMA JudgeIsTold ==
    ASSUME call.adapter = "judge", NEW body \in SoundBodies \cup Bodies,
           Readable(call.adapter, body)
    PROVE  LET text == Content(call.adapter, body) IN
           text.kind = "contract" => \E T : text.refs \in Seq(T)
<1> DEFINE text == Content(call.adapter, body)
<1>1. body.kind = "envelope" /\ text = FirstChoice(body)
  BY DEF Readable, Content, JudgeContent
<1>2. SoundTexts \subseteq Texts
  BY DEF SoundTexts
<1>3. \E t \in Texts : body.parts \in {<< >>, <<t>>, <<BlankText, t>>} \/ body.parts = << >>
  <2>1. CASE body \in SoundBodies
    <3>1. PICK t \in SoundTexts : body = Envelope(NewId, OwnUsage("judge"), <<t>>)
      BY <2>1 DEF SoundBodies
    <3> QED
      BY <1>2, <3>1 DEF Envelope
  <2>2. CASE body \in Bodies
    <3>1. Texts # {}
      BY DEF Texts, VerdictTexts
    <3>2. body # [kind |-> "junk"]
      BY <1>1
    <3>3. body \in PartedBodies \/ body \in RecurringBodies \/ body \in MeteredBodies
      BY <2>2, <3>2 DEF Bodies
    <3>4. \A id, usage, parts : Envelope(id, usage, parts).parts = parts
      BY DEF Envelope
    <3>5. CASE body \in PartedBodies
      <4> DEFINE Parts == {<< >>} \cup {<<t>> : t \in Texts} \cup {<<BlankText, t>> : t \in Texts}
      <4>1. PICK parts \in Parts : body = Envelope(NewId, OwnUsage(call.adapter), parts)
        BY <3>5 DEF PartedBodies
      <4>2. body.parts = parts
        BY <3>4, <4>1
      <4>3. parts = << >> \/ \E t \in Texts : parts \in {<<t>>, <<BlankText, t>>}
        OBVIOUS
      <4> QED
        BY <3>1, <4>2, <4>3
    <3>6. CASE body \in RecurringBodies
      <4>1. PICK id \in 0..NewId, t \in SoundTexts : body = Envelope(id, OwnUsage(call.adapter), <<t>>)
        BY <3>6 DEF RecurringBodies
      <4> QED
        BY <1>2, <3>4, <4>1
    <3>7. CASE body \in MeteredBodies
      <4>1. PICK usage \in UsageNames, t \in SoundTexts : body = Envelope(NewId, usage, <<t>>)
        BY <3>7 DEF MeteredBodies
      <4> QED
        BY <1>2, <3>4, <4>1
    <3> QED
      BY <3>3, <3>5, <3>6, <3>7
  <2> QED
    BY <2>1, <2>2
<1>4. text \in Texts \cup {BlankText}
  <2>1. \A t : <<t>>[1] = t /\ <<t>> # << >> /\ <<BlankText, t>>[1] = BlankText
               /\ <<BlankText, t>> # << >>
    OBVIOUS
  <2> QED
    BY <1>1, <1>3, <2>1 DEF FirstChoice
<1>5. ASSUME NEW t \in VerdictTexts(Conflict), t.kind = "contract"
      PROVE  \E T : t.refs \in Seq(T)
  <2> DEFINE x == Conflict.supporting[1]
             y == Conflict.contradicting[1]
             z == view.findings[1].id
             w == <<"unheard of">>
             T == {x, y, z, w}
             favoured == SoundVerdict("ACCEPTED", x)
             other == SoundVerdict("REJECTED", y)
  <2>1. t.refs \in {<<x>>, <<y>>, << >>, <<x>> \o <<x>>, Append(<<x>>, z), Append(<<x>>, w)}
    <3>1. t \in {favoured, other, BlankText, JunkText,
                 [favoured EXCEPT !.status = "ABSTAIN"],
                 [favoured EXCEPT !.status = "PENDING"],
                 [favoured EXCEPT !.rationale = FALSE],
                 [favoured EXCEPT !.refs = << >>],
                 [favoured EXCEPT !.refs = favoured.refs \o favoured.refs],
                 [favoured EXCEPT !.refs = Append(favoured.refs, z)],
                 [favoured EXCEPT !.refs = Append(favoured.refs, w)]}
      BY <1>5, Zenon DEF VerdictTexts
    <3>2. t # BlankText /\ t # JunkText
      BY <1>5 DEF BlankText, JunkText
    <3>3. favoured.refs = <<x>> /\ "refs" \in DOMAIN favoured /\ other.refs = <<y>>
      BY DEF SoundVerdict
    <3> HIDE DEF favoured, other, x, y, z, w
    <3> QED
      BY <3>1, <3>2, <3>3
  <2> HIDE DEF x, y, z, w
  <2>2. x \in T /\ y \in T /\ z \in T /\ w \in T
    OBVIOUS
  <2> HIDE DEF T
  <2>3. <<x>> \in Seq(T) /\ <<y>> \in Seq(T) /\ << >> \in Seq(T)
    BY <2>2
  <2>4. \A q \in Seq(T) : /\ q \o q \in Seq(T)
                          /\ \A e \in T : Append(q, e) \in Seq(T)
    OBVIOUS
  <2> QED
    BY <2>1, <2>2, <2>3, <2>4
<1> QED
  BY <1>4, <1>5 DEF Texts, BlankText

-----------------------------------------------------------------------------
\* The round, from the observations to the judgments.

\* What was observed has a status and a relation that the merge knows.
Noted ==
    /\ Observed(observations)
    /\ \A i \in DOMAIN agenda : agenda[i].relation \in Relations

\* Once there is a view it is what the observations merge to, and the decision
\* is the one that follows from it.
MergedView == view = merge_evidence(observations, gate) /\ ~view.collision

Staged ==
    /\ phase \in Phases
    /\ phase \in {"start", "asking"} => view = None
    /\ phase \in {"start", "asking", "merged"} => decision = None
    /\ phase \in {"merged", "decided", "judging", "done"} => MergedView
    /\ view # None => MergedView
    /\ decision # None => MergedView /\ decision = synthesize_decision(view, gate)

AllTaken(results, v) ==
    \A i \in DOMAIN results :
       /\ IsJudgment(results[i], v.conflicts[i])
       /\ Cardinality(ConflictSteps(v.conflicts[i], v)) = 1

\* A call of the judge is about the next conflict, whose findings are of one
\* step; what it told before is a judgment for each of the conflicts up to there.
Resolving ==
    /\ phase \notin {"judging", "done", "raised"} => judging = << >>
    /\ phase # "done" => run = << >>
    /\ phase = "done" => run = judging /\ Len(judging) = Len(view.conflicts)
    /\ phase = "judging" => Len(judging) <= Len(view.conflicts)
    /\ call # NoCall /\ call.adapter = "judge" => ToJudge /\ OneStep
    /\ AllTaken(judging, view)

Logged == \A i \in DOMAIN calls : calls[i].adapter \in Adapters /\ calls[i].ending \in Endings

Round == Callees /\ Retries /\ Noted /\ Staged /\ Resolving /\ Logged

\* A call that ends hands its result to observe() or to resolve().
Handed(adapter, result) ==
    IF adapter = "judge" THEN ToJudge /\ OneStep /\ IsJudgment(result, Conflict)
    ELSE ToAsk /\ adapter \in Advisors /\ IsAdvice(result)

CallReturns ==
    /\ \E adapter \in Adapters : \E result :
          /\ Returns(adapter, result) /\ Handed(adapter, result)
          /\ \E ending \in Endings : \E bill : CallEnds(adapter, ending, bill)
    /\ call' = NoCall
    /\ UNCHANGED <<worldVars, phase, gate, view, decision, run>>

LEMMA FailedIsHanded ==
    ASSUME Callees, NEW adapter \in Adapters,
           adapter = "judge" => ToJudge /\ OneStep, adapter # "judge" => ToAsk
    PROVE  Handed(adapter, Failed(adapter))
<1>1. IsAdvice(NoFinding)
  BY DEF IsAdvice, NoFinding
<1>2. IsJudgment(FailedJudgment, Conflict)
  <2>1. Verdict(JunkText, ConflictIds(Conflict)) = FailedJudgment /\ JunkText.kind # "contract"
    BY DEF Verdict, JunkText
  <2> QED
    BY <2>1, VerdictIsJudgment
<1> QED
  BY <1>1, <1>2 DEF Handed, Failed, Adapters

\* Who is in a call, and for what.
LEMMA WhoIsCalled ==
    ASSUME Round, call # NoCall
    PROVE  /\ call.adapter \in Adapters
           /\ call.adapter = "judge" => ToJudge /\ OneStep
           /\ call.adapter # "judge" => ToAsk
<1>1. call.adapter \in Adapters /\ (call.adapter = "judge" => ToJudge /\ OneStep)
  BY DEF Round, Callees, Resolving
<1>2. call.adapter # "judge" => agenda # << >>
  BY DEF Round, Callees
<1>3. call.adapter # "judge" => phase = "asking"
  <2>1. PICK step : \E adapter \in Adapters, attempt \in 0..MaxRetries : InCall(adapter, step, attempt)
    BY DEF Round, Retries, Progress
  <2>2. PICK adapter \in Adapters, attempt \in 0..MaxRetries : InCall(adapter, step, attempt)
    BY <2>1
  <2>3. call.adapter = adapter
    BY <2>2 DEF InCall
  <2> QED
    BY <2>2, <2>3 DEF InCall
<1> QED
  BY <1>1, <1>2, <1>3 DEF ToAsk

\* Whom a call would be of.
LEMMA WhoIsNext ==
    ASSUME Round, ToAsk \/ (ToJudge /\ OneStep)
    PROVE  /\ NextAdapter \in Adapters
           /\ NextAdapter = "judge" => ToJudge /\ OneStep
           /\ NextAdapter # "judge" => ToAsk
<1>1. CASE ToAsk
  <2>1. Head(agenda).adapter \in Advisors
    BY <1>1 DEF ToAsk, Round, Callees
  <2> QED
    BY <1>1, <2>1 DEF ToAsk, NextAdapter, Adapters, Advisors
<1>2. CASE ToJudge /\ OneStep
  BY <1>2 DEF ToJudge, NextAdapter, Adapters
<1> QED
  BY <1>1, <1>2

LEMMA AnswerReturns ==
    ASSUME Round, NEW body \in SoundBodies \cup Bodies, NEW sink, Answer(body, sink)
    PROVE  CallReturns
<1> DEFINE adapter == call.adapter
           text == Content(adapter, body)
           result == IF Readable(adapter, body) THEN Reads(text) ELSE Failed(adapter)
<1>1. /\ call # NoCall /\ call' = NoCall /\ Returns(adapter, result)
      /\ UNCHANGED <<worldVars, phase, gate, view, decision, run>>
  BY DEF Answer
<1>2. /\ adapter \in Adapters /\ (adapter = "judge" => ToJudge /\ OneStep)
      /\ (adapter # "judge" => ToAsk) /\ Callees
  BY <1>1, WhoIsCalled DEF Round
<1>3. Handed(adapter, result)
  <2>1. CASE ~Readable(adapter, body)
    BY <1>2, <2>1, FailedIsHanded
  <2>2. CASE Readable(adapter, body) /\ adapter = "judge"
    <3>1. text.kind = "contract" => \E T : text.refs \in Seq(T)
      BY <2>2, JudgeIsTold
    <3>2. IsJudgment(Verdict(text, ConflictIds(Conflict)), Conflict)
      <4> HIDE DEF text
      <4> QED
        BY <3>1, VerdictIsJudgment
    <3> QED
      BY <1>2, <2>2, <3>2 DEF Handed, Reads
  <2>3. CASE Readable(adapter, body) /\ adapter # "judge"
    <3>1. adapter \in Advisors
      BY <1>2, <2>3 DEF Adapters
    <3>2. IsAdvice(Advice(adapter, text, call.step))
      BY <3>1, AdviceIsAdvice
    <3> QED
      BY <1>2, <2>3, <3>1, <3>2 DEF Handed, Reads
  <2> QED
    BY <2>1, <2>2, <2>3
<1>4. \E ending \in Endings : \E bill : CallEnds(adapter, ending, bill)
  BY DEF Answer, Endings
<1> HIDE DEF result
<1> QED
  BY <1>1, <1>2, <1>3, <1>4 DEF CallReturns

\* A call that is given up, or never made, hands over a failure.
LEMMA GiveUpReturns ==
    ASSUME Round, NEW event \in Failures, GiveUp(event)
    PROVE  CallReturns
<1>1. /\ call # NoCall /\ call' = NoCall /\ Returns(call.adapter, Failed(call.adapter))
      /\ UNCHANGED <<worldVars, phase, gate, view, decision, run>>
  BY DEF GiveUp
<1>2. \E ending \in Endings : \E bill : CallEnds(call.adapter, ending, bill)
  BY DEF GiveUp, Endings
<1>3. call.adapter \in Adapters /\ Handed(call.adapter, Failed(call.adapter))
  BY <1>1, WhoIsCalled, FailedIsHanded DEF Round
<1> QED
  BY <1>1, <1>2, <1>3 DEF CallReturns

LEMMA WithoutKeyReturns ==
    ASSUME Round, WithoutKey
    PROVE  CallReturns
<1>1. /\ call' = NoCall /\ Returns(NextAdapter, Failed(NextAdapter))
      /\ UNCHANGED <<worldVars, phase, gate, view, decision, run>>
      /\ ToAsk \/ (ToJudge /\ OneStep)
  BY DEF WithoutKey
<1>2. \E ending \in Endings : \E bill : CallEnds(NextAdapter, ending, bill)
  BY DEF WithoutKey, Endings
<1>3. NextAdapter \in Adapters /\ Handed(NextAdapter, Failed(NextAdapter))
  BY <1>1, WhoIsNext, FailedIsHanded DEF Round
<1> QED
  BY <1>1, <1>2, <1>3 DEF CallReturns

\* One more of a sequence whose elements are all of some kind.
LEMMA OneMore ==
    ASSUME NEW q, NEW T, q \in Seq(T), NEW x
    PROVE  /\ Append(q, x) \in Seq(T \cup {x}) /\ Len(Append(q, x)) = Len(q) + 1
           /\ Len(q) \in Nat /\ DOMAIN q = 1..Len(q)
           /\ DOMAIN Append(q, x) = 1..(Len(q) + 1)
           /\ Append(q, x)[Len(q) + 1] = x
           /\ \A i \in 1..Len(q) : Append(q, x)[i] = q[i]
OBVIOUS

LEMMA ObservationIsNoted ==
    ASSUME Noted, ToAsk, Callees, NEW result, IsAdvice(result),
           observations' = Append(observations, Observation(Head(agenda), result)),
           agenda' = Tail(agenda)
    PROVE  Noted'
<1> DEFINE o == Observation(Head(agenda), result)
<1>1. o.status = result.status /\ o.relation = Head(agenda).relation
  BY DEF Observation, IsAdvice
<1>2. PICK Queries : agenda \in Seq(Queries)
  BY DEF Callees
<1>3. /\ Head(agenda) = agenda[1] /\ 1 \in DOMAIN agenda
      /\ \A i \in DOMAIN agenda' : i + 1 \in DOMAIN agenda /\ agenda'[i] = agenda[i + 1]
  BY <1>2 DEF ToAsk
<1>4. IsObservation(o)
  BY <1>1, <1>3 DEF Noted, IsObservation, IsAdvice
<1>5. \A i \in DOMAIN agenda' : agenda'[i].relation \in Relations
  BY <1>3 DEF Noted
<1> HIDE DEF o
<1>6. observations \in Seq(Range(observations)) /\ observations' = Append(observations, o)
  BY DEF Noted, Observed, o
<1>7. /\ DOMAIN observations' = 1..(Len(observations) + 1) /\ Len(observations) \in Nat
      /\ DOMAIN observations = 1..Len(observations)
      /\ Len(observations') = Len(observations) + 1
      /\ observations'[Len(observations) + 1] = o
      /\ \A i \in 1..Len(observations) : observations'[i] = observations[i]
      /\ observations' \in Seq(Range(observations) \cup {o})
  BY <1>6, OneMore
<1>8. \A i \in DOMAIN observations' : IsObservation(observations'[i])
  BY <1>4, <1>7 DEF Noted, Observed
<1>9. observations' \in Seq(Range(observations'))
  BY <1>7 DEF Range
<1>10. Observed(observations')
  BY <1>8, <1>9 DEF Observed
<1>11. Observed(observations)'
  BY <1>10 DEF Observed, IsObservation
<1> QED
  BY <1>5, <1>11 DEF Noted

LEMMA ReturnsKeepsNoted ==
    ASSUME Round, CallReturns
    PROVE  Noted'
<1>1. PICK adapter, result : /\ adapter \in Adapters
                              /\ Returns(adapter, result) /\ Handed(adapter, result)
  BY DEF CallReturns
<1>2. CASE adapter = "judge"
  BY <1>1, <1>2 DEF Returns, Round, Noted, Observed, IsObservation
<1>3. CASE adapter # "judge"
  <2>1. /\ observations' = Append(observations, Observation(Head(agenda), result))
        /\ agenda' = Tail(agenda) /\ ToAsk /\ IsAdvice(result)
    BY <1>1, <1>3 DEF Returns, Handed
  <2> QED
    BY <2>1, ObservationIsNoted DEF Round
<1> QED
  BY <1>2, <1>3

LEMMA ReturnsKeepsStaged ==
    ASSUME Round, CallReturns
    PROVE  Staged'
<1>1. PICK adapter, result : /\ adapter \in Adapters
                              /\ Returns(adapter, result) /\ Handed(adapter, result)
  BY DEF CallReturns
<1>2. UNCHANGED <<phase, gate, view, decision>>
  BY DEF CallReturns
<1>3. CASE adapter = "judge"
  <2>1. observations' = observations
    BY <1>1, <1>3 DEF Returns
  <2> QED
    BY <1>2, <2>1 DEF Round, Staged, MergedView
<1>4. CASE adapter # "judge"
  <2>1. phase = "asking"
    BY <1>1, <1>4 DEF Handed, ToAsk
  <2> QED
    BY <1>2, <2>1 DEF Round, Staged
<1> QED
  BY <1>3, <1>4

LEMMA ReturnsKeepsResolving ==
    ASSUME Round, CallReturns
    PROVE  Resolving'
<1>1. PICK adapter, result : /\ adapter \in Adapters
                              /\ Returns(adapter, result) /\ Handed(adapter, result)
  BY DEF CallReturns
<1>2. UNCHANGED <<phase, view, run>> /\ call' = NoCall
  BY DEF CallReturns
<1>3. CASE adapter = "judge"
  <2>1. /\ judging' = Append(judging, result)
        /\ phase = "judging" /\ Len(judging) < Len(view.conflicts)
        /\ IsJudgment(result, view.conflicts[Len(judging) + 1])
        /\ Cardinality(ConflictSteps(view.conflicts[Len(judging) + 1], view)) = 1
    BY <1>1, <1>3 DEF Returns, Handed, ToJudge, OneStep, Conflict
  <2>2. PICK T : judging \in Seq(T)
    BY DEF Round, Retries, Recorded
  <2>3. /\ Len(judging') = Len(judging) + 1 /\ Len(judging) \in Nat
        /\ DOMAIN judging = 1..Len(judging) /\ DOMAIN judging' = 1..(Len(judging) + 1)
        /\ judging'[Len(judging) + 1] = result
        /\ \A i \in 1..Len(judging) : judging'[i] = judging[i]
    BY <2>1, <2>2, OneMore
  <2>4. Len(view.conflicts) \in Nat
    <3>1. MergedView /\ Observed(observations)
      BY <2>1 DEF Round, Staged, Noted
    <3> QED
      BY <3>1, ConflictsListed DEF MergedView
  <2>5. ASSUME NEW i \in DOMAIN judging'
        PROVE  /\ IsJudgment(judging'[i], view.conflicts[i])
               /\ Cardinality(ConflictSteps(view.conflicts[i], view)) = 1
    <3>1. CASE i \in DOMAIN judging
      BY <2>3, <3>1 DEF Round, Resolving, AllTaken
    <3>2. CASE i = Len(judging) + 1
      BY <2>1, <2>3, <3>2
    <3> QED
      BY <2>3, <3>1, <3>2
  <2>6. Len(judging') <= Len(view.conflicts)
    BY <2>1, <2>3, <2>4
  <2>7. AllTaken(judging', view')
    BY <1>2, <2>5 DEF AllTaken
  <2>8. phase' = "judging" /\ run' = << >> /\ Len(judging') <= Len(view'.conflicts)
    BY <1>2, <2>1, <2>6 DEF Round, Resolving
  <2> QED
    BY <1>2, <2>7, <2>8 DEF Resolving
<1>4. CASE adapter # "judge"
  <2>1. UNCHANGED judging /\ phase = "asking"
    BY <1>1, <1>4 DEF Returns, Handed, ToAsk
  <2> QED
    BY <1>2, <2>1 DEF Round, Resolving
<1> QED
  BY <1>3, <1>4

LEMMA ReturnsKeepsLogged ==
    ASSUME Round, CallReturns
    PROVE  Logged'
<1>1. PICK adapter, ending, bill : /\ adapter \in Adapters /\ ending \in Endings
                                   /\ CallEnds(adapter, ending, bill)
  BY DEF CallReturns
<1>2. PICK last : /\ calls' = Append(calls, last)
                    /\ last.adapter = adapter /\ last.ending = ending
  BY <1>1 DEF CallEnds
<1>3. PICK T : calls \in Seq(T)
  BY DEF Round, Retries, Recorded
<1>4. /\ Len(calls) \in Nat /\ DOMAIN calls = 1..Len(calls)
      /\ DOMAIN calls' = 1..(Len(calls) + 1)
      /\ calls'[Len(calls) + 1] = last
      /\ \A i \in 1..Len(calls) : calls'[i] = calls[i]
  BY <1>2, <1>3, OneMore
<1> QED
  BY <1>1, <1>2, <1>4 DEF Round, Logged

\* A step that hands over no result leaves the results as they are.
Silent == UNCHANGED <<observations, judging, calls>>

LEMMA ReturnsOrSilent ==
    ASSUME Round, [Next]_vars
    PROVE  CallReturns \/ (Silent /\ UNCHANGED agenda)
<1>1. CASE \/ CheckRealization \/ GoWithoutGate \/ MixedSteps \/ Call
           \/ Merge \/ Decide \/ Resolve \/ Resolved
  BY <1>1 DEF CheckRealization, GoWithoutGate, MixedSteps, Call, Merge, Decide, Resolve,
     Resolved, callerVars, Silent
<1>2. CASE \E event \in Failures : Retry(event) \/ Raise(event)
  BY <1>2 DEF Retry, Raise, callerVars, Silent
<1>3. CASE \E event \in Failures : GiveUp(event)
  BY <1>3, GiveUpReturns
<1>4. CASE WithoutKey
  BY <1>4, WithoutKeyReturns
<1>5. CASE SoundAnswer
  <2>1. PICK body \in SoundBodies : Answer(body, TRUE)
    BY <1>5 DEF SoundAnswer
  <2> QED
    BY <2>1, AnswerReturns
<1>6. CASE OddAnswer
  <2>1. PICK body \in Bodies, sink \in BOOLEAN : Answer(body, sink)
    BY <1>6 DEF OddAnswer
  <2> QED
    BY <2>1, AnswerReturns
<1>7. CASE UNCHANGED vars
  BY <1>7 DEF vars, callerVars, Silent
<1> QED
  BY <1>1, <1>2, <1>3, <1>4, <1>5, <1>6, <1>7 DEF Next

LEMMA NextNoted == Round /\ [Next]_vars => Noted'
<1> SUFFICES ASSUME Round, [Next]_vars PROVE Noted'
  OBVIOUS
<1>1. CASE CallReturns
  BY <1>1, ReturnsKeepsNoted
<1>2. CASE Silent /\ UNCHANGED agenda
  BY <1>2 DEF Silent, Round, Noted, Observed, IsObservation
<1> QED
  BY <1>1, <1>2, ReturnsOrSilent

LEMMA NextLogged == Round /\ [Next]_vars => Logged'
<1> SUFFICES ASSUME Round, [Next]_vars PROVE Logged'
  OBVIOUS
<1>1. CASE CallReturns
  BY <1>1, ReturnsKeepsLogged
<1>2. CASE Silent
  BY <1>2 DEF Silent, Round, Logged
<1> QED
  BY <1>1, <1>2, ReturnsOrSilent

\* The caller's steps from stage to stage; a call changes none.
LEMMA NextStaged == Round /\ [Next]_vars => Staged'
<1> SUFFICES ASSUME Round, [Next]_vars PROVE Staged'
  OBVIOUS
<1>1. Staged
  BY DEF Round
<1>2. CASE CallReturns
  BY <1>2, ReturnsKeepsStaged
<1>3. ASSUME UNCHANGED <<phase, gate, observations, view, decision>>
      PROVE  Staged'
  BY <1>1, <1>3 DEF Staged, MergedView
<1>4. CASE CheckRealization \/ GoWithoutGate
  <2>1. /\ phase = "start" /\ phase' = "asking"
        /\ UNCHANGED <<observations, view, decision>>
    BY <1>4 DEF CheckRealization, GoWithoutGate, callerVars
  <2> QED
    BY <1>1, <2>1 DEF Staged, Phases
<1>5. CASE MixedSteps \/ \E event \in Failures : Raise(event)
  <2>1. phase' = "raised" /\ UNCHANGED <<gate, observations, view, decision>>
    BY <1>5 DEF MixedSteps, Raise, callerVars
  <2> QED
    BY <1>1, <2>1 DEF Staged, MergedView, Phases
<1>6. CASE Call \/ \E event \in Failures : Retry(event)
  BY <1>3, <1>6 DEF Call, Retry, callerVars
<1>7. CASE Merge
  <2> DEFINE merged == merge_evidence(observations, gate)
  <2>1. /\ phase = "asking" /\ UNCHANGED <<gate, observations, decision>>
        /\ IF merged.collision THEN phase' = "raised" /\ UNCHANGED view
           ELSE phase' = "merged" /\ view' = merged
    BY <1>7 DEF Merge
  <2>2. view = None /\ decision = None
    BY <1>1, <2>1 DEF Staged
  <2>3. CASE merged.collision
    BY <2>1, <2>2, <2>3 DEF Staged, Phases
  <2>4. CASE ~merged.collision
    <3>1. MergedView'
      BY <2>1, <2>4 DEF MergedView
    <3> QED
      BY <2>1, <2>2, <2>4, <3>1 DEF Staged, Phases
  <2> QED
    BY <2>3, <2>4
<1>8. CASE Decide
  <2>1. /\ phase = "merged" /\ phase' = "decided"
        /\ decision' = synthesize_decision(view, gate)
        /\ UNCHANGED <<gate, observations, view>>
    BY <1>8 DEF Decide
  <2>2. MergedView' /\ decision' = synthesize_decision(view', gate')
    BY <1>1, <2>1 DEF Staged, MergedView
  <2> QED
    BY <2>1, <2>2 DEF Staged, Phases
<1>9. CASE Resolve \/ Resolved
  <2>1. /\ phase \in {"decided", "judging"} /\ phase' \in {"judging", "done"}
        /\ UNCHANGED <<gate, observations, view, decision>>
    BY <1>9 DEF Resolve, Resolved, callerVars
  <2> QED
    BY <1>1, <2>1 DEF Staged, MergedView, Phases
<1>10. CASE WithoutKey \/ \E event \in Failures : GiveUp(event)
  BY <1>2, <1>10, WithoutKeyReturns, GiveUpReturns
<1>11. CASE SoundAnswer \/ OddAnswer
  <2>1. PICK body \in SoundBodies \cup Bodies, sink \in BOOLEAN : Answer(body, sink)
    BY <1>11 DEF SoundAnswer, OddAnswer
  <2> QED
    BY <1>2, <2>1, AnswerReturns
<1>12. CASE UNCHANGED vars
  BY <1>3, <1>12 DEF vars, callerVars
<1> QED
  BY <1>4, <1>5, <1>6, <1>7, <1>8, <1>9, <1>10, <1>11, <1>12 DEF Next

LEMMA NextResolving == Round /\ [Next]_vars => Resolving'
<1> SUFFICES ASSUME Round, [Next]_vars PROVE Resolving'
  OBVIOUS
<1>1. Resolving /\ Staged
  BY DEF Round
<1>2. CASE CallReturns
  BY <1>2, ReturnsKeepsResolving
<1>3. ASSUME UNCHANGED <<phase, view, judging, run>>,
             call' # NoCall /\ call'.adapter = "judge" => ToJudge /\ OneStep
      PROVE  Resolving'
  <2>1. (ToJudge <=> ToJudge') /\ (OneStep <=> OneStep')
    BY <1>3 DEF ToJudge, OneStep, Conflict
  <2> QED
    BY <1>1, <1>3, <2>1 DEF Resolving
<1>4. ASSUME phase \in {"start", "asking", "merged"}, phase' # "done", phase' # "judging",
             UNCHANGED <<judging, run>>, call' = NoCall
      PROVE  Resolving'
  <2>1. judging' = << >> /\ run' = << >> /\ DOMAIN judging' = {}
    BY <1>1, <1>4 DEF Resolving
  <2> QED
    BY <1>4, <2>1 DEF Resolving, AllTaken
<1>5. call # NoCall => phase \in {"asking", "judging"}
  BY WhoIsCalled DEF ToAsk, ToJudge
<1>6. CASE CheckRealization \/ GoWithoutGate \/ Merge \/ Decide
  <2>1. /\ phase \in {"start", "asking", "merged"} /\ UNCHANGED <<judging, run, call>>
        /\ phase' \in {"asking", "merged", "raised", "decided"}
        /\ call = NoCall
    BY <1>5, <1>6 DEF CheckRealization, GoWithoutGate, Merge, Decide, callerVars
  <2> QED
    BY <1>4, <2>1
<1>7. CASE MixedSteps \/ \E event \in Failures : Raise(event)
  <2>1. /\ phase' = "raised" /\ UNCHANGED <<view, judging, run>> /\ call' = NoCall
        /\ phase # "done"
    BY <1>5, <1>7 DEF MixedSteps, Raise, callerVars, ToJudge
  <2> QED
    BY <1>1, <2>1 DEF Resolving
<1>8. CASE Call
  <2>1. /\ UNCHANGED <<phase, view, judging, run>> /\ call'.adapter = NextAdapter
        /\ ToAsk \/ (ToJudge /\ OneStep)
    BY <1>8 DEF Call, callerVars
  <2> QED
    BY <1>3, <2>1, WhoIsNext
<1>9. CASE \E event \in Failures : Retry(event)
  <2>1. /\ UNCHANGED <<phase, view, judging, run>> /\ call # NoCall
        /\ call'.adapter = call.adapter
    BY <1>9 DEF Retry, callerVars
  <2> QED
    BY <1>3, <2>1, WhoIsCalled
<1>10. CASE Resolve
  <2>1. /\ phase = "decided" /\ phase' = "judging" /\ UNCHANGED <<view, judging, run, call>>
        /\ call = NoCall
    BY <1>5, <1>10 DEF Resolve, callerVars
  <2>2. judging' = << >> /\ run' = << >> /\ DOMAIN judging' = {} /\ Len(judging') = 0
    BY <1>1, <2>1 DEF Resolving
  <2>3. Len(view.conflicts) \in Nat
    BY <1>1, <2>1, ConflictsListed DEF Staged, MergedView, Round, Noted
  <2> QED
    BY <2>1, <2>2, <2>3 DEF Resolving, AllTaken
<1>11. CASE Resolved
  <2>1. /\ phase = "judging" /\ phase' = "done" /\ UNCHANGED <<view, judging, call>>
        /\ run' = judging /\ call = NoCall /\ ~(Len(judging) < Len(view.conflicts))
    BY <1>11 DEF Resolved, ToJudge
  <2>2. Len(view.conflicts) \in Nat
    BY <1>1, <2>1, ConflictsListed DEF Staged, MergedView, Round, Noted
  <2>3. Len(judging) \in Nat /\ Len(judging) <= Len(view.conflicts)
    BY <1>1, <2>1 DEF Resolving, Round, Retries, Recorded
  <2>4. run' = judging' /\ Len(judging') = Len(view'.conflicts)
    BY <2>1, <2>2, <2>3
  <2> QED
    BY <1>1, <2>1, <2>4 DEF Resolving
<1>12. CASE WithoutKey \/ \E event \in Failures : GiveUp(event)
  BY <1>2, <1>12, WithoutKeyReturns, GiveUpReturns
<1>13. CASE SoundAnswer \/ OddAnswer
  <2>1. PICK body \in SoundBodies \cup Bodies, sink \in BOOLEAN : Answer(body, sink)
    BY <1>13 DEF SoundAnswer, OddAnswer
  <2> QED
    BY <1>2, <2>1, AnswerReturns
<1>14. CASE UNCHANGED vars
  <2>1. UNCHANGED <<phase, view, judging, run, call>>
    BY <1>14 DEF vars, callerVars
  <2> QED
    BY <1>1, <1>3, <2>1 DEF Resolving
<1> QED
  BY <1>6, <1>7, <1>8, <1>9, <1>10, <1>11, <1>12, <1>13, <1>14 DEF Next

World ==
    /\ tree \in Trees /\ version \in Versions /\ keys \in KeySets
    /\ oddities \in 0..MaxOddities

LEMMA InitRound == Init => Round /\ World
<1> SUFFICES ASSUME Init PROVE Round /\ World
  OBVIOUS
<1>1. Callees /\ Retries
  BY InitCallees, InitRetries
<1>2. Noted
  <2>1. DOMAIN observations = {} /\ observations \in Seq(Range(observations))
    BY DEF Init
  <2>2. \A i \in DOMAIN agenda : agenda[i].relation \in Relations
    BY AgendasAskAdvisors DEF Init
  <2> QED
    BY <2>1, <2>2 DEF Noted, Observed
<1>3. Staged
  BY DEF Init, Staged, Phases
<1>4. Resolving
  <2>1. judging = << >> /\ DOMAIN judging = {}
    BY DEF Init
  <2> QED
    BY <2>1 DEF Init, Resolving, AllTaken
<1>5. Logged
  <2>1. DOMAIN calls = {}
    BY DEF Init
  <2> QED
    BY <2>1 DEF Logged
<1>6. World
  BY BoundsAreNumbers DEF Init, World
<1> QED
  BY <1>1, <1>2, <1>3, <1>4, <1>5, <1>6 DEF Round

LEMMA NextRound == Round /\ [Next]_vars => Round'
<1> SUFFICES ASSUME Round, [Next]_vars PROVE Round'
  OBVIOUS
<1>1. Callees' /\ Retries'
  BY NextCallees, NextRetries DEF Round
<1> QED
  BY <1>1, NextNoted, NextStaged, NextResolving, NextLogged DEF Round

LEMMA NextWorld == World /\ [Next]_vars => World'
<1> SUFFICES ASSUME World, [Next]_vars PROVE World'
  OBVIOUS
<1>1. UNCHANGED worldVars
  BY DEF Next, CheckRealization, GoWithoutGate, MixedSteps, WithoutKey, Call, Retry, GiveUp,
     Raise, SoundAnswer, OddAnswer, Answer, Merge, Decide, Resolve, Resolved, vars
<1>2. UNCHANGED oddities \/ (oddities < MaxOddities /\ oddities' = oddities + 1)
  BY DEF Next, CheckRealization, GoWithoutGate, MixedSteps, WithoutKey, Call, Retry, GiveUp,
     Raise, SoundAnswer, OddAnswer, Merge, Decide, Resolve, Resolved, vars
<1> QED
  BY <1>1, <1>2, BoundsAreNumbers DEF World, worldVars

\* For every tree, baseline, agenda, set of keys and bound the variables of a round
\* have their types, and what is stored is what the rest of it relies on: a view
\* without a collision, a decision and judgments with a status there is.
THEOREM RoundTypes == Spec => []TypeOK
<1>1. Round /\ World /\ GateIsOfTree => TypeOK
  <2> SUFFICES ASSUME Round, World, GateIsOfTree PROVE TypeOK
    OBVIOUS
  <2>1. gate = NoGate \/ gate.status \in {"ACCEPTED", "REJECTED"}
    BY DEF GateIsOfTree, Decision
  <2>2. call = NoCall \/ (call.adapter \in Adapters /\ call.attempt \in 0..MaxRetries)
    <3> SUFFICES ASSUME call # NoCall
                 PROVE  call.adapter \in Adapters /\ call.attempt \in 0..MaxRetries
      OBVIOUS
    <3>1. PICK step : \E adapter \in Adapters, attempt \in 0..MaxRetries :
             InCall(adapter, step, attempt)
      BY DEF Round, Retries, Progress
    <3> QED
      BY <3>1 DEF InCall
  <2>3. \A i \in DOMAIN observations :
           observations[i].status \in {"FINDING", "ABSTAIN", "ERROR"}
    BY DEF Round, Noted, Observed, IsObservation
  <2>4. view = None \/ ~view.collision
    BY DEF Round, Staged, MergedView
  <2>5. decision = None \/ decision.status \in Statuses
    <3> SUFFICES ASSUME decision # None PROVE decision.status \in Statuses
      OBVIOUS
    <3>1. decision.status = DecisionStatus(gate, view)
      BY DEF Round, Staged, synthesize_decision
    <3> QED
      BY <2>1, <3>1 DEF DecisionStatus, Statuses
  <2>6. \A i \in DOMAIN judging : judging[i].status \in Statuses
    BY DEF Round, Resolving, AllTaken, IsJudgment
  <2>7. run \in {<< >>, judging}
    BY DEF Round, Resolving
  <2>8. phase \in Phases
    BY DEF Round, Staged
  <2> QED
    BY <2>1, <2>2, <2>3, <2>4, <2>5, <2>6, <2>7, <2>8 DEF TypeOK, World, Round, Logged
<1> QED
  BY <1>1, InitRound, NextRound, NextWorld, InitGateIsOfTree, NextGateIsOfTree, PTL DEF Spec

\* Whatever the judge answers, resolve() returns a judgment for each conflict in
\* their order or none at all, and a judgment takes a side only by citing findings
\* of its own conflict, each once (JudgeUseCase.resolve, OpenAIJudgeAdapter.judge).
THEOREM JudgmentsWhole == Spec => []JudgmentsAreWhole
<1>1. Round => JudgmentsAreWhole
  <2> SUFFICES ASSUME Round PROVE JudgmentsAreWhole
    OBVIOUS
  <2>1. phase = "done" => Len(run) = Len(view.conflicts)
    BY DEF Round, Resolving
  <2>2. phase # "done" => run = << >>
    BY DEF Round, Resolving
  <2>3. \A i \in DOMAIN judging :
           /\ IsJudgment(judging[i], view.conflicts[i])
           /\ Cardinality(ConflictSteps(view.conflicts[i], view)) = 1
    BY DEF Round, Resolving, AllTaken
  <2> QED
    BY <2>1, <2>2, <2>3 DEF JudgmentsAreWhole, IsJudgment
<1> QED
  BY <1>1, InitRound, NextRound, PTL DEF Spec

\* The round's own words for what was told are those of the merge's proofs.
LEMMA SameWords ==
    ASSUME Observed(observations)
    PROVE  /\ Told = Telling(observations, Len(observations))
           /\ \A i : IdAt(i) = IdOf(observations, i)
           /\ \A i \in Told : First(i) <=> IsFirst(observations, i)
           /\ Contested <=> Disputed(observations, Anchors(gate))
           /\ \A order : Reordered(order) = Shuffled(observations, order)
<1>1. DOMAIN observations = 1..Len(observations) /\ Len(observations) \in Nat
  BY DEF Observed
<1>2. Told = Telling(observations, Len(observations))
  BY <1>1 DEF Told, Telling
<1>3. \A i : IdAt(i) = IdOf(observations, i)
  BY DEF IdAt, IdOf
<1>4. ASSUME NEW i \in Told
      PROVE  First(i) <=> IsFirst(observations, i)
  <2>1. i \in 1..Len(observations) /\ observations[i].status = "FINDING"
    BY <1>1 DEF Told
  <2>2. \A j : (j \in Told /\ j < i) <=> (j \in 1..(i - 1) /\ observations[j].status = "FINDING")
    BY <1>1, <2>1 DEF Told
  <2> QED
    BY <1>3, <2>1, <2>2 DEF First, IsFirst
<1>5. Contested <=> Disputed(observations, Anchors(gate))
  <2>1. \A i : Declares(i) = Declared(observations[i], Anchors(gate))
    BY DEF Declares, Declared
  <2> QED
    BY <1>2, <1>3, <2>1 DEF Contested, Disputed
<1>6. \A order : Reordered(order) = Shuffled(observations, order)
  BY DEF Reordered, Shuffled
<1> QED
  BY <1>2, <1>3, <1>4, <1>5, <1>6

LEMMA ToldIds ==
    ASSUME Observed(observations)
    PROVE  /\ {IdAt(i) : i \in Told} = Heard(observations, Len(observations))
           /\ \A relation :
                {IdAt(i) : i \in {j \in Told : First(j)
                    /\ Effective(observations[j], Anchors(gate)) = relation}} =
                  IdsAt(observations, Firsts(observations, Anchors(gate), relation))
<1>1. {IdAt(i) : i \in Told} = Heard(observations, Len(observations))
  BY SameWords DEF Heard
<1>2. ASSUME NEW relation
      PROVE  {IdAt(i) : i \in {j \in Told : First(j)
                 /\ Effective(observations[j], Anchors(gate)) = relation}} =
               IdsAt(observations, Firsts(observations, Anchors(gate), relation))
  <2> DEFINE S == {j \in Told : First(j)
                     /\ Effective(observations[j], Anchors(gate)) = relation}
             T == Firsts(observations, Anchors(gate), relation)
  <2>1. S \subseteq T
    BY SameWords DEF Firsts, Telling
  <2>2. T \subseteq S
    <3> SUFFICES ASSUME NEW j \in T PROVE j \in S
      OBVIOUS
    <3>1. /\ j \in 1..Len(observations) /\ IsFirst(observations, j)
          /\ Effective(observations[j], Anchors(gate)) = relation
      BY DEF Firsts
    <3>2. j \in Told
      BY <3>1, SameWords DEF IsFirst, Telling
    <3> QED
      BY <3>1, <3>2, SameWords
  <2>3. S = T
    BY <2>1, <2>2
  <2> HIDE DEF S, T
  <2>4. {IdAt(i) : i \in S} = IdsAt(observations, T)
    BY <2>3, SameWords DEF IdsAt
  <2> QED
    BY <2>4 DEF S, T
<1> QED
  BY <1>1, <1>2

\* However many observations there are and whoever made them, the merge of a round
\* keeps every finding in the group that its first delivery could prove, counts
\* what is none, and depends on no order; see MergeLosesNothing and
\* OrderIsImmaterial (merge_evidence, EvidenceView).
THEOREM MergesKeepEvidence == Spec => []MergeKeepsEvidence
<1>1. Round => MergeKeepsEvidence
  <2> SUFFICES ASSUME Round PROVE MergeKeepsEvidence
    OBVIOUS
  <2> DEFINE N == Len(observations)
             all == {IdAt(i) : i \in Told}
             side(relation) == {IdAt(i) : i \in {j \in Told : First(j)
                                  /\ Effective(observations[j], Anchors(gate)) = relation}}
             Orders == Bijection(DOMAIN observations, DOMAIN observations)
  <2>1. Observed(observations)
    BY DEF Round, Noted
  <2>2. /\ \A order : Reordered(order) = Shuffled(observations, order)
        /\ Contested <=> Disputed(observations, Anchors(gate))
        /\ Told = Telling(observations, N)
    BY <2>1, SameWords
  <2>3. /\ all = Heard(observations, N)
        /\ \A relation : side(relation) =
             IdsAt(observations, Firsts(observations, Anchors(gate), relation))
    BY <2>1, ToldIds
  <2> HIDE DEF all, side
  <2>4. ASSUME phase = "merged"
        PROVE  /\ Outline(view).supporting = side("SUPPORTING")
               /\ Outline(view).conflicting = side("CONTRADICTING")
               /\ Outline(view).unresolved =
                    all \ (Outline(view).supporting \cup Outline(view).conflicting)
               /\ Len(view.findings) = Cardinality(all)
               /\ view.abstained + view.errors + Cardinality(Told) = N
               /\ ~Contested => \A order \in Orders :
                    Outline(merge_evidence(Reordered(order), gate)) = Outline(view)
    <3>1. view = merge_evidence(observations, gate) /\ ~view.collision
      BY <2>4 DEF Round, Staged, MergedView
    <3>2. /\ Outline(view).supporting = Range(view.supporting)
          /\ Outline(view).conflicting = Range(view.conflicting)
          /\ Outline(view).unresolved = Range(view.unresolved)
      BY DEF Outline
    <3>3. /\ Range(view.supporting) =
               IdsAt(observations, Firsts(observations, Anchors(gate), "SUPPORTING"))
          /\ Range(view.conflicting) =
               IdsAt(observations, Firsts(observations, Anchors(gate), "CONTRADICTING"))
          /\ Range(view.unresolved) =
               Heard(observations, N) \ (Range(view.supporting) \cup Range(view.conflicting))
          /\ Len(view.findings) = Cardinality(Heard(observations, N))
          /\ view.abstained + view.errors + Cardinality(Telling(observations, N)) = N
      BY <2>1, <3>1, MergeLosesNothing
    <3>4. ASSUME ~Contested, NEW order \in Orders
          PROVE  Outline(merge_evidence(Reordered(order), gate)) = Outline(view)
      BY <2>1, <2>2, <3>1, <3>4, OrderIsImmaterial
    <3> QED
      BY <2>2, <2>3, <3>2, <3>3, <3>4
  <2>5. ASSUME NEW order \in Orders
        PROVE  merge_evidence(Reordered(order), gate).collision
                 = merge_evidence(observations, gate).collision
    BY <2>1, <2>2, OrderIsImmaterial
  <2> QED
    BY <2>4, <2>5, Zenon DEF MergeKeepsEvidence, all, side
<1> QED
  BY <1>1, InitRound, NextRound, PTL DEF Spec

\* Whatever the advisors told, a decision has the gate's status if there is a gate,
\* cites the violations it rejects for and beyond them only what was told in
\* support, and quotes nobody who told nothing (synthesize_decision).
THEOREM DecisionsStand == Spec => []DecisionStands
<1>1. Round /\ GateIsOfTree => DecisionStands
  <2> SUFFICES ASSUME Round, GateIsOfTree, decision # None PROVE DecisionStands
    BY DEF DecisionStands
  <2>1. Observed(observations)
    BY DEF Round, Noted
  <2>2. /\ view = merge_evidence(observations, gate) /\ ~view.collision
        /\ decision = synthesize_decision(view, gate)
    BY DEF Round, Staged, MergedView
  <2>3. /\ gate # NoGate => decision.status = gate.status
        /\ gate = NoGate =>
             /\ decision.status = (IF observations # << >> /\ \A i \in DOMAIN observations :
                                       observations[i].status = "ERROR"
                                   THEN "ERROR" ELSE "ABSTAIN")
             /\ decision.refs = {}
        /\ gate # NoGate /\ gate.status = "REJECTED" => gate.refs \subseteq decision.refs
        /\ \A ref \in decision.refs \ gate.refs :
             \E i \in Telling(observations, Len(observations)) :
                IdOf(observations, i) = ref /\ observations[i].relation = "SUPPORTING"
        /\ decision.perspectives = Sources(observations)
    BY <2>1, <2>2, AdviceMovesNoDecision
  <2>4. Told = Telling(observations, Len(observations))
        /\ \A i : IdAt(i) = IdOf(observations, i)
    BY <2>1, SameWords
  <2>5. gate # NoGate /\ gate.status = "REJECTED" => gate.refs # {}
    BY DEF GateIsOfTree, Decision
  <2>6. decision.status = "REJECTED" => gate # NoGate /\ gate.status = "REJECTED"
    BY <2>3
  <2>7. \A ref \in decision.refs \ gate.refs :
           \E i \in Told : IdAt(i) = ref /\ observations[i].relation = "SUPPORTING"
    BY <2>3, <2>4
  <2>8. decision.perspectives = {observations[i].finding.source : i \in Told}
    BY <2>3, <2>4 DEF Sources
  <2> QED
    BY <2>3, <2>5, <2>6, <2>7, <2>8 DEF DecisionStands
<1> QED
  BY <1>1, InitRound, NextRound, InitGateIsOfTree, NextGateIsOfTree, PTL DEF Spec

-----------------------------------------------------------------------------
\* No round runs for ever.

\* The stages a caller still has before it, the questions or conflicts left in the
\* stage it is in, and the requests left for the next of them.
Stages == [start |-> 5, asking |-> 4, merged |-> 3, decided |-> 2, judging |-> 1,
           done |-> 0, raised |-> 0][phase]
Left ==
    IF phase = "asking" THEN Len(agenda)
    ELSE IF phase = "judging" THEN Len(view.conflicts) - Len(judging) ELSE 0
Tries == IF call = NoCall THEN Attempts + 1 ELSE Attempts - call.attempt

Measured == Stages \in Nat /\ Left \in Nat /\ Tries \in Nat

RunsDown ==
    \/ Stages' < Stages
    \/ Stages' = Stages /\ Left' < Left
    \/ Stages' = Stages /\ Left' = Left /\ Tries' < Tries

LEMMA ToTheEnd ==
    ASSUME Round
    PROVE  /\ Measured
           /\ Len(agenda) \in Nat /\ Len(judging) \in Nat
           /\ phase = "judging" =>
                Len(view.conflicts) \in Nat /\ Len(judging) <= Len(view.conflicts)
           /\ call # NoCall => call.attempt \in 0..MaxRetries
<1>1. Len(agenda) \in Nat /\ Len(judging) \in Nat
  BY DEF Round, Callees, Retries, Recorded
<1>2. ASSUME phase = "judging"
      PROVE  Len(view.conflicts) \in Nat /\ Len(judging) <= Len(view.conflicts)
  BY <1>2, ConflictsListed DEF Round, Staged, MergedView, Noted, Resolving
<1>3. ASSUME call # NoCall PROVE call.attempt \in 0..MaxRetries
  <2>1. PICK step : \E adapter \in Adapters, attempt \in 0..MaxRetries :
           InCall(adapter, step, attempt)
    BY <1>3 DEF Round, Retries, Progress
  <2> QED
    BY <2>1 DEF InCall
<1>4. Left \in Nat
  BY <1>1, <1>2 DEF Left
<1>5. Tries \in Nat
  BY <1>3, BoundsAreNumbers DEF Tries, Attempts
<1>6. Stages \in Nat
  BY DEF Round, Staged, Phases, Stages
<1> QED
  BY <1>1, <1>2, <1>3, <1>4, <1>5, <1>6 DEF Measured

\* A question that is answered is asked no more, nor is a conflict judged again.
LEMMA ReturnsRunDown ==
    ASSUME Round, CallReturns
    PROVE  RunsDown
<1>1. PICK adapter \in Adapters : \E result :
         Returns(adapter, result) /\ Handed(adapter, result)
  BY DEF CallReturns
<1>2. PICK result : Returns(adapter, result) /\ Handed(adapter, result)
  BY <1>1
<1>3. phase' = phase /\ view' = view
  BY DEF CallReturns
<1>4. Stages' = Stages
  BY <1>3 DEF Stages
<1>5. CASE adapter = "judge"
  <2>1. /\ phase = "judging" /\ Len(judging) < Len(view.conflicts)
        /\ judging' = Append(judging, result)
    BY <1>2, <1>5 DEF Handed, Returns, ToJudge
  <2>2. \E T : judging \in Seq(T)
    BY DEF Round, Retries, Recorded
  <2>3. Len(judging') = Len(judging) + 1
    BY <2>1, <2>2, OneMore
  <2>4. Left = Len(view.conflicts) - Len(judging)
        /\ Left' = Len(view.conflicts) - Len(judging')
    BY <1>3, <2>1 DEF Left
  <2> QED
    BY <1>4, <2>1, <2>3, <2>4, ToTheEnd DEF RunsDown
<1>6. CASE adapter # "judge"
  <2>1. phase = "asking" /\ agenda # << >> /\ agenda' = Tail(agenda)
    BY <1>2, <1>6 DEF Handed, Returns, ToAsk
  <2>2. \E T : agenda \in Seq(T)
    BY DEF Round, Callees
  <2>3. Len(agenda') = Len(agenda) - 1 /\ Len(agenda) \in Nat
    BY <2>1, <2>2
  <2>4. Left = Len(agenda) /\ Left' = Len(agenda')
    BY <1>3, <2>1 DEF Left
  <2> QED
    BY <1>4, <2>3, <2>4 DEF RunsDown
<1> QED
  BY <1>5, <1>6

LEMMA NextRunsDown == Round /\ Next => RunsDown
<1> SUFFICES ASSUME Round, Next PROVE RunsDown
  OBVIOUS
<1>1. ASSUME NEW p \in Phases, NEW q \in Phases, phase = p, phase' = q,
             <<p, q>> \in {<<"start", "asking">>, <<"asking", "merged">>, <<"merged", "decided">>,
                           <<"decided", "judging">>, <<"judging", "done">>,
                           <<"asking", "raised">>, <<"judging", "raised">>}
      PROVE  RunsDown
  BY <1>1 DEF Stages, RunsDown
<1>2. CASE \/ CheckRealization \/ GoWithoutGate \/ MixedSteps
           \/ Merge \/ Decide \/ Resolve \/ Resolved
  BY <1>1, <1>2 DEF CheckRealization, GoWithoutGate, MixedSteps, ToJudge, Merge, Decide,
     Resolve, Resolved, Phases
<1>3. CASE \E event \in Failures : Raise(event)
  <2>1. call # NoCall /\ phase' = "raised"
    BY <1>3 DEF Raise
  <2>2. phase \in {"asking", "judging"}
    BY <2>1, WhoIsCalled DEF ToAsk, ToJudge
  <2> QED
    BY <1>1, <2>1, <2>2 DEF Phases
<1>4. ASSUME UNCHANGED <<phase, agenda, view, judging>>, Tries' < Tries
      PROVE  RunsDown
  BY <1>4 DEF RunsDown, Stages, Left
<1>5. CASE Call
  <2>1. /\ call = NoCall /\ call' = [adapter |-> NextAdapter, step |-> NextStep, attempt |-> 0]
        /\ UNCHANGED <<phase, agenda, view, judging>>
    BY <1>5 DEF Call, callerVars
  <2>2. call' # NoCall /\ call'.attempt = 0
    <3>1. "none" \notin Adapters
      BY DEF Adapters, Advisors
    <3>2. NextAdapter \in Adapters
      BY <1>5, WhoIsNext DEF Call
    <3> QED
      BY <2>1, <3>1, <3>2 DEF NoCall
  <2>3. Tries = Attempts + 1 /\ Tries' = Attempts
    BY <2>1, <2>2, BoundsAreNumbers DEF Tries, Attempts
  <2> QED
    BY <1>4, <2>1, <2>3, BoundsAreNumbers DEF Attempts
<1>6. CASE \E event \in Failures : Retry(event)
  <2>1. /\ call # NoCall /\ call' = [call EXCEPT !.attempt = @ + 1]
        /\ UNCHANGED <<phase, agenda, view, judging>>
    BY <1>6 DEF Retry, callerVars
  <2>2. PICK step : \E adapter \in Adapters, attempt \in 0..MaxRetries :
           InCall(adapter, step, attempt)
    BY <2>1 DEF Round, Retries, Progress
  <2>3. PICK adapter \in Adapters, attempt \in 0..MaxRetries : InCall(adapter, step, attempt)
    BY <2>2
  <2>4. call' = [adapter |-> adapter, step |-> step, attempt |-> attempt + 1]
    BY <2>1, <2>3 DEF InCall
  <2>5. call.attempt = attempt /\ call'.attempt = attempt + 1 /\ call' # NoCall
    BY <2>3, <2>4 DEF InCall, NoCall, Adapters, Advisors
  <2>6. Tries' < Tries
    BY <2>1, <2>5, BoundsAreNumbers DEF Tries, Attempts
  <2> QED
    BY <1>4, <2>1, <2>6
<1>7. CASE WithoutKey \/ \E event \in Failures : GiveUp(event)
  BY <1>7, WithoutKeyReturns, GiveUpReturns, ReturnsRunDown
<1>8. CASE SoundAnswer \/ OddAnswer
  <2>1. PICK body \in SoundBodies \cup Bodies, sink \in BOOLEAN : Answer(body, sink)
    BY <1>8 DEF SoundAnswer, OddAnswer
  <2> QED
    BY <2>1, AnswerReturns, ReturnsRunDown
<1> QED
  BY <1>2, <1>3, <1>5, <1>6, <1>7, <1>8 DEF Next

\* Whatever the providers do, every step of a round leaves fewer stages, or fewer
\* questions or conflicts of the stage, or fewer requests for the next of them, and
\* none of these is ever negative: no round runs for ever, however long its agenda
\* and however large max_retries (observe, resolve, _post of every adapter).
THEOREM RoundsRunDown == Spec => []Measured /\ [][RunsDown]_vars
<1>1. Round => Measured
  BY ToTheEnd
<1>2. Round /\ [Next]_vars => [RunsDown]_vars
  BY NextRunsDown
<1> QED
  BY <1>1, <1>2, InitRound, NextRound, PTL DEF Spec

=============================================================================
