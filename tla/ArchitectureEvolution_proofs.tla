-------------------- MODULE ArchitectureEvolution_proofs --------------------
(* Proofs about ArchitectureEvolution, for every catalogue of requests,    *)
(* every series of releases and everything the managers do in between.     *)
EXTENDS ArchitectureEvolution, TLAPS

-----------------------------------------------------------------------------
(* What a step does to the database.                                       *)

ManagerWrites ==
    /\ UNCHANGED <<baseline, requests>>
    /\ \/ UNCHANGED risk /\ \E a \in ManagedAdrs :
            \/ ProposeAdr(a) \/ ChangeAdr(a) \/ AmendAdr(a)
            \/ \E by \in ManagedAdrs : SupersedeAdr(a, by)
       \/ UNCHANGED adr /\ \E k \in ManagedRisks :
            RegisterRisk(k) \/ ChangeRisk(k) \/ UpdateRisk(k)

\* The database changes by an accepted operation or not at all.
DatabaseStep ==
    \/ UNCHANGED database
    \/ SeedAccepts /\ SeedWrites
    \/ \E r \in Requests : ProposeAccepts(r) /\ ProposeWrites(r)
    \/ \E r \in Requests, by \in Approvers : ApproveAccepts(r, by) /\ ApproveWrites(r, by)
    \/ \E r \in Requests : RejectAccepts(r) /\ RejectWrites(r)
    \/ \E r \in Requests : ApplyAccepts(r) /\ ApplyWrites(r)
    \/ ManagerWrites

ControlOK == release \in 1 .. Len(Declared) /\ boot \in Boot

\* A declared change is a request of the catalogue.
LEMMA DeclaredRequests ==
    ASSUME ControlOK, NEW i \in DOMAIN Changes
    PROVE  Changes[i] \in Requests
<1>1. Changes \in Seq(Requests)
  BY RequestShape DEF ControlOK, Changes
<1>2. QED BY <1>1

LEMMA ComposeIsADatabaseStep ==
    ASSUME ControlOK, Compose
    PROVE  DatabaseStep
<1>1. CASE ComposeSeed
  BY <1>1 DEF ComposeSeed, ComposeStep, DatabaseStep
<1>2. ASSUME NEW i \in DOMAIN Changes,
             ComposePropose(i) \/ ComposeApprove(i) \/ ComposeApply(i)
      PROVE  DatabaseStep
  <2>1. Changes[i] \in Requests
    BY DeclaredRequests
  <2>2. DefaultApprover \in Approvers
    BY RequestShape
  <2>3. CASE ComposePropose(i)
    BY <2>1, <2>3 DEF ComposePropose, ComposeStep, DatabaseStep
  <2>4. CASE ComposeApprove(i)
    BY <2>1, <2>2, <2>4 DEF ComposeApprove, ComposeStep, DatabaseStep
  <2>5. CASE ComposeApply(i)
    BY <2>1, <2>5 DEF ComposeApply, ComposeStep, DatabaseStep
  <2>6. QED BY <1>2, <2>3, <2>4, <2>5
<1>3. QED BY <1>1, <1>2 DEF Compose

LEMMA ManageIsADatabaseStep ==
    ASSUME Manage
    PROVE  DatabaseStep
<1>1. ASSUME NEW a \in ManagedAdrs,
             \/ ProposeAdr(a) \/ ChangeAdr(a) \/ AmendAdr(a)
             \/ \E by \in ManagedAdrs : SupersedeAdr(a, by)
      PROVE  ManagerWrites
  <2>1. UNCHANGED <<baseline, requests, risk>>
    BY <1>1 DEF ProposeAdr, ChangeAdr, AmendAdr, SupersedeAdr
  <2>2. QED BY <1>1, <2>1 DEF ManagerWrites
<1>2. ASSUME NEW k \in ManagedRisks, RegisterRisk(k) \/ ChangeRisk(k) \/ UpdateRisk(k)
      PROVE  ManagerWrites
  <2>1. UNCHANGED <<baseline, requests, adr>>
    BY <1>2 DEF RegisterRisk, ChangeRisk, UpdateRisk
  <2>2. QED BY <1>2, <2>1 DEF ManagerWrites
<1>3. QED BY <1>1, <1>2 DEF Manage, DatabaseStep

LEMMA NextIsADatabaseStep ==
    ASSUME ControlOK, [Next]_vars
    PROVE  DatabaseStep
<1>1. CASE Start \/ Stop \/ Upgrade \/ UNCHANGED vars
  BY <1>1 DEF Start, Stop, Upgrade, vars, DatabaseStep
<1>2. CASE Lifecycle
  BY <1>2 DEF Lifecycle, Propose, Approve, Reject, Apply, DatabaseStep
<1>3. QED
  BY <1>1, <1>2, ComposeIsADatabaseStep, ManageIsADatabaseStep DEF Next

-----------------------------------------------------------------------------
(* Type correctness.                                                       *)

AdrRows == [Adrs -> [status : ADRStatus \cup {"NONE"}, intact : BOOLEAN]]
RiskRows == [Risks -> [status : RiskStatus \cup {"NONE"}, intact : BOOLEAN]]

\* Where the ids an operation names come from.
LEMMA Ids ==
    /\ \A r \in Requests : AdrOf[r] \in Adrs /\ RisksOf[r] \subseteq Risks
    /\ BootAdrs \subseteq Adrs /\ ChangeAdrs \subseteq Adrs /\ ManagedAdrs \subseteq Adrs
    /\ BootRisks \subseteq Risks /\ ManagedRisks \subseteq Risks
<1>1. ASSUME NEW r \in Requests PROVE RisksOf[r] \subseteq Risks
  <2>1. RisksOf[r] \in {RisksOf[q] : q \in Requests}
    OBVIOUS
  <2>2. RisksOf[r] \subseteq UNION {RisksOf[q] : q \in Requests}
    BY <2>1
  <2>3. QED BY <2>2 DEF Risks
<1>2. ASSUME NEW r \in Requests PROVE AdrOf[r] \in Adrs
  BY DEF Adrs
<1>3. BootRisks \subseteq Risks /\ ManagedRisks \subseteq Risks
  BY DEF Risks
<1>4. BootAdrs \subseteq Adrs /\ ChangeAdrs \subseteq Adrs /\ ManagedAdrs \subseteq Adrs
  BY DEF Adrs
<1>5. QED BY <1>1, <1>2, <1>3, <1>4

LEMMA WithStatusKeepsAdrs ==
    ASSUME NEW rows \in AdrRows, NEW a \in Adrs, NEW status \in ADRStatus
    PROVE  WithStatus(rows, a, status) \in AdrRows
BY DEF AdrRows, WithStatus

LEMMA ReconciledKeepsAdrs ==
    ASSUME NEW rows \in AdrRows, NEW ids
    PROVE  Reconciled(rows, ids, "ACCEPTED") \in AdrRows
BY DEF AdrRows, Reconciled, Row, ADRStatus

LEMMA ReconciledKeepsRisks ==
    ASSUME NEW rows \in RiskRows, NEW ids
    PROVE  Reconciled(rows, ids, "OPEN") \in RiskRows
BY DEF RiskRows, Reconciled, Row, RiskStatus

LEMMA ManagersKeepRows ==
    ASSUME adr \in AdrRows, risk \in RiskRows, ManagerWrites
    PROVE  adr' \in AdrRows /\ risk' \in RiskRows
<1>1. ASSUME NEW a \in Adrs,
             \/ ProposeAdr(a) \/ ChangeAdr(a) \/ AmendAdr(a)
             \/ \E by \in Adrs : SupersedeAdr(a, by)
      PROVE  adr' \in AdrRows
  <2>1. CASE ProposeAdr(a)
    BY <2>1 DEF ProposeAdr, AdrRows, ADRStatus
  <2>2. CASE ChangeAdr(a)
    BY <2>2, WithStatusKeepsAdrs DEF ChangeAdr
  <2>3. CASE AmendAdr(a)
    BY <2>3 DEF AmendAdr, AdrRows
  <2>4. ASSUME NEW by \in Adrs, SupersedeAdr(a, by) PROVE adr' \in AdrRows
    <3>1. WithStatus(adr, a, "SUPERSEDED") \in AdrRows
      BY WithStatusKeepsAdrs DEF ADRStatus
    <3>2. WithStatus(WithStatus(adr, a, "SUPERSEDED"), by, "ACCEPTED") \in AdrRows
      BY <3>1, WithStatusKeepsAdrs DEF ADRStatus
    <3>3. QED BY <2>4, <3>2 DEF SupersedeAdr
  <2>5. QED BY <1>1, <2>1, <2>2, <2>3, <2>4
<1>2. ASSUME NEW k \in Risks, RegisterRisk(k) \/ ChangeRisk(k) \/ UpdateRisk(k)
      PROVE  risk' \in RiskRows
  <2>1. CASE RegisterRisk(k)
    BY <2>1 DEF RegisterRisk, RiskRows, RiskStatus
  <2>2. CASE ChangeRisk(k)
    BY <2>2 DEF ChangeRisk, WithStatus, RiskRows
  <2>3. CASE UpdateRisk(k)
    BY <2>3 DEF UpdateRisk, RiskRows
  <2>4. QED BY <1>2, <2>1, <2>2, <2>3
<1>3. QED BY <1>1, <1>2, Ids DEF ManagerWrites

TypesOK ==
    /\ current \subseteq stored /\ stored \subseteq Versions
    /\ successor \in [Versions -> Versions \cup {NoVersion}]
    /\ acr \in [Requests -> ACRStatus \cup {"NONE"}]
    /\ approver \in [Requests -> Approvers \cup {Nobody}]
    /\ adr \in AdrRows
    /\ risk \in RiskRows

LEMMA SeedKeepsTypes ==
    ASSUME TypesOK, SeedWrites
    PROVE  TypesOK'
<1>1. stored' \subseteq Versions /\ current' \subseteq stored'
  BY VersionNames DEF TypesOK, SeedWrites
<1>2. adr' \in AdrRows /\ risk' \in RiskRows
  BY ReconciledKeepsAdrs, ReconciledKeepsRisks DEF TypesOK, SeedWrites
<1>3. QED BY <1>1, <1>2 DEF TypesOK, SeedWrites, requests

LEMMA ProposeKeepsTypes ==
    ASSUME TypesOK, NEW r \in Requests, ProposeWrites(r)
    PROVE  TypesOK'
<1>1. CASE acr[r] = "NONE"
  <2>1. adr' \in AdrRows
    <3>1. Row("PROPOSED") \in [status : ADRStatus \cup {"NONE"}, intact : BOOLEAN]
      BY DEF Row, ADRStatus
    <3>2. adr' = [adr EXCEPT ![AdrOf[r]] = IF @ = NoRow THEN Row("PROPOSED") ELSE @]
      BY <1>1 DEF ProposeWrites
    <3>3. QED BY <3>1, <3>2, Ids DEF TypesOK, AdrRows
  <2>2. acr' \in [Requests -> ACRStatus \cup {"NONE"}]
    BY <1>1 DEF TypesOK, ProposeWrites, ACRStatus
  <2>3. QED BY <1>1, <2>1, <2>2 DEF TypesOK, ProposeWrites, baseline
<1>2. CASE acr[r] # "NONE"
  BY <1>2 DEF TypesOK, ProposeWrites, database, baseline, requests
<1>3. QED BY <1>1, <1>2

LEMMA ApproveKeepsTypes ==
    ASSUME TypesOK, NEW r \in Requests, NEW by \in Approvers, ApproveWrites(r, by)
    PROVE  TypesOK'
<1>1. CASE acr[r] = "PROPOSED"
  <2>1. adr' \in AdrRows
    BY <1>1, Ids, WithStatusKeepsAdrs DEF TypesOK, ApproveWrites, ADRStatus
  <2>2. /\ acr' \in [Requests -> ACRStatus \cup {"NONE"}]
        /\ approver' \in [Requests -> Approvers \cup {Nobody}]
    BY <1>1 DEF TypesOK, ApproveWrites, ACRStatus
  <2>3. QED BY <1>1, <2>1, <2>2 DEF TypesOK, ApproveWrites, baseline
<1>2. CASE acr[r] # "PROPOSED"
  BY <1>2 DEF TypesOK, ApproveWrites, database, baseline, requests
<1>3. QED BY <1>1, <1>2

LEMMA RejectKeepsTypes ==
    ASSUME TypesOK, NEW r \in Requests, RejectWrites(r)
    PROVE  TypesOK'
<1>1. adr' \in AdrRows
  BY Ids, WithStatusKeepsAdrs DEF TypesOK, RejectWrites, ADRStatus
<1>2. acr' \in [Requests -> ACRStatus \cup {"NONE"}]
  BY DEF TypesOK, RejectWrites, ACRStatus
<1>3. QED BY <1>1, <1>2 DEF TypesOK, RejectWrites, baseline

LEMMA ApplyKeepsTypes ==
    ASSUME TypesOK, NEW r \in Requests, ApplyWrites(r)
    PROVE  TypesOK'
<1>1. adr' \in AdrRows
  BY ReconciledKeepsAdrs DEF TypesOK, ApplyWrites
<1>2. risk' \in RiskRows
  BY ReconciledKeepsRisks DEF TypesOK, ApplyWrites
<1>3. Source[r] \in Versions /\ Target[r] \in Versions
  BY RequestShape
<1>4. /\ current' \subseteq stored' /\ stored' \subseteq Versions
      /\ successor' \in [Versions -> Versions \cup {NoVersion}]
  BY <1>3 DEF TypesOK, ApplyWrites, baseline
<1>5. acr' \in [Requests -> ACRStatus \cup {"NONE"}]
  BY DEF TypesOK, ApplyWrites, ACRStatus
<1>6. QED BY <1>1, <1>2, <1>4, <1>5 DEF TypesOK, ApplyWrites

LEMMA DatabaseStepKeepsTypes ==
    ASSUME TypesOK, DatabaseStep
    PROVE  TypesOK'
<1>1. CASE UNCHANGED database
  BY <1>1 DEF TypesOK, database, baseline, requests
<1>2. CASE ManagerWrites
  <2>1. adr' \in AdrRows /\ risk' \in RiskRows
    BY <1>2, ManagersKeepRows DEF TypesOK
  <2>2. QED BY <1>2, <2>1 DEF ManagerWrites, TypesOK, baseline, requests
<1>3. QED
  BY <1>1, <1>2, SeedKeepsTypes, ProposeKeepsTypes, ApproveKeepsTypes,
     RejectKeepsTypes, ApplyKeepsTypes
  DEF DatabaseStep

-----------------------------------------------------------------------------
(* The process.                                                            *)

LEMMA ComposeStays ==
    ASSUME ControlOK, Compose
    PROVE  ControlOK'
<1>1. ASSUME NEW i \in Nat PROVE After(i) \in Boot
  BY <1>1 DEF After, At, Boot
<1>2. ASSUME NEW i \in Nat
      PROVE  /\ At("approve", i) \in Boot /\ At("apply", i) \in Boot
             /\ At("refused", 0) \in Boot
  BY <1>2 DEF At, Boot
<1>3. CASE ComposeSeed
  BY <1>1, <1>2, <1>3 DEF ComposeSeed, ComposeStep, ControlOK
<1>4. ASSUME NEW i \in DOMAIN Changes,
             ComposePropose(i) \/ ComposeApprove(i) \/ ComposeApply(i)
      PROVE  ControlOK'
  <2>1. i \in Nat
    <3>1. Changes \in Seq(Requests)
      BY RequestShape DEF ControlOK, Changes
    <3>2. QED BY <3>1
  <2>2. UNCHANGED release /\ boot' \in Boot
    BY <1>1, <1>2, <1>4, <2>1
    DEF ComposePropose, ComposeApprove, ComposeApply, ComposeStep
  <2>3. QED BY <2>2 DEF ControlOK
<1>5. QED BY <1>3, <1>4 DEF Compose

LEMMA NextStays ==
    ASSUME ControlOK, [Next]_vars
    PROVE  ControlOK'
<1>1. CASE Start \/ Stop
  BY <1>1 DEF Start, Stop, ControlOK, At, Boot
<1>2. CASE Upgrade
  BY <1>2, RequestShape DEF Upgrade, ControlOK
<1>3. CASE Lifecycle
  BY <1>3 DEF Lifecycle, Propose, Approve, Reject, Apply, Operator, ControlOK
<1>4. CASE Manage
  BY <1>4 DEF Manage, Operator, ControlOK
<1>5. CASE UNCHANGED vars
  BY <1>5 DEF vars, ControlOK
<1>6. QED BY <1>1, <1>2, <1>3, <1>4, <1>5, ComposeStays DEF Next

LEMMA InitTypes == Init => TypesOK /\ ControlOK
<1>1. SUFFICES ASSUME Init PROVE TypesOK /\ ControlOK
  OBVIOUS
<1>2. release \in 1 .. Len(Declared)
  BY <1>1, RequestShape DEF Init
<1>3. QED
  BY <1>1, <1>2 DEF Init, TypesOK, ControlOK, AdrRows, RiskRows, NoRow, Row, At, Boot

\* Every row of the evolution has a status of its lifecycle, for every
\* catalogue, release history and manager intervention.
THEOREM TypeCorrect == Spec => []TypeOK
<1>1. TypesOK /\ ControlOK /\ [Next]_vars => (TypesOK /\ ControlOK)'
  BY NextIsADatabaseStep, DatabaseStepKeepsTypes, NextStays
<1>2. TypesOK /\ ControlOK => TypeOK
  BY DEF TypesOK, ControlOK, TypeOK, AdrRows, RiskRows
<1>3. QED BY <1>1, <1>2, InitTypes, PTL DEF Spec

-----------------------------------------------------------------------------
(* One current baseline.                                                   *)

\* Before the first bootstrap nothing is stored; afterwards one version is
\* current, and exactly the other stored ones have a successor.
OneHead(v) ==
    /\ v \in stored
    /\ current = {v}
    /\ \A w \in stored : successor[w] = NoVersion <=> w = v

BaselineOK ==
    /\ stored = {} => current = {}
    /\ stored # {} => \E v \in Versions : OneHead(v)
    /\ \A w \in Versions \ stored : successor[w] = NoVersion

IInv == TypesOK /\ ControlOK /\ BaselineOK

\* The baseline moves by the first bootstrap, by a roll-over, or not at all.
FirstSeed == stored = {} /\ stored' = {First} /\ current' = {First} /\ successor' = successor
RollsOver(from, to) ==
    /\ current = {from} /\ to \notin stored
    /\ stored' = stored \cup {to}
    /\ current' = {to}
    /\ successor' = [successor EXCEPT ![from] = to]

LEMMA SeedMovesBaseline ==
    ASSUME IInv, SeedAccepts, SeedWrites
    PROVE  UNCHANGED baseline \/ FirstSeed
<1>1. CASE First \in stored
  BY <1>1 DEF SeedWrites, baseline
<1>2. CASE First \notin stored
  <2>1. current = {}
    BY <1>2 DEF SeedAccepts, VersionReconcilable
  <2>2. stored = {}
    BY <2>1 DEF IInv, BaselineOK, OneHead
  <2>3. QED BY <1>2, <2>1, <2>2 DEF SeedWrites, FirstSeed
<1>3. QED BY <1>1, <1>2

\* An apply finds its change recorded already, or rolls over from the head.
LEMMA ApplyMovesBaseline ==
    ASSUME IInv, NEW r \in Requests, ApplyAccepts(r), ApplyWrites(r)
    PROVE  \/ UNCHANGED baseline
           \/ RollsOver(Source[r], Target[r])
<1>1. CASE acr[r] = "APPLIED"
  BY <1>1 DEF ApplyWrites
<1>2. CASE acr[r] # "APPLIED"
  <2>1. PICK v \in Versions : current = {v}
    BY <1>2 DEF ApplyAccepts
  <2>2. /\ stored' = stored \cup {Target[r]}
        /\ current' = {Target[r]}
        /\ successor' = [successor EXCEPT ![Source[r]] = Target[r]]
    BY <1>2 DEF ApplyWrites
  <2>3. CASE RollOver(Source[r], Target[r])
    BY <2>1, <2>2, <2>3 DEF RollOver, RollsOver
  <2>4. CASE AlreadyRolled(Source[r], Target[r])
    <3>1. current' = current
      BY <2>1, <2>2, <2>4 DEF AlreadyRolled
    <3>2. stored' = stored
      BY <2>2, <2>4 DEF AlreadyRolled, IInv, TypesOK
    <3>3. successor' = successor
      BY <2>2, <2>4 DEF AlreadyRolled, IInv, TypesOK
    <3>4. QED BY <3>1, <3>2, <3>3 DEF baseline
  <2>5. QED BY <1>2, <2>3, <2>4 DEF ApplyAccepts
<1>3. QED BY <1>1, <1>2

LEMMA DatabaseStepMovesBaseline ==
    ASSUME IInv, DatabaseStep
    PROVE  \/ UNCHANGED baseline
           \/ FirstSeed
           \/ \E r \in Requests : RollsOver(Source[r], Target[r])
<1>1. ASSUME NEW r \in Requests, ProposeWrites(r) PROVE UNCHANGED baseline
  BY <1>1 DEF ProposeWrites, database
<1>2. ASSUME NEW r \in Requests, NEW by \in Approvers, ApproveWrites(r, by)
      PROVE  UNCHANGED baseline
  BY <1>2 DEF ApproveWrites, database
<1>3. ASSUME NEW r \in Requests, RejectWrites(r) PROVE UNCHANGED baseline
  BY <1>3 DEF RejectWrites
<1>4. CASE UNCHANGED database \/ ManagerWrites
  BY <1>4 DEF ManagerWrites, database
<1>5. QED
  BY <1>1, <1>2, <1>3, <1>4, SeedMovesBaseline, ApplyMovesBaseline DEF DatabaseStep

LEMMA RollOverKeepsBaseline ==
    ASSUME TypesOK, BaselineOK, NEW r \in Requests, RollsOver(Source[r], Target[r])
    PROVE  BaselineOK'
<1> DEFINE from == Source[r]
           to == Target[r]
<1>1. from \in Versions /\ to \in Versions /\ from # to /\ to # NoVersion
  BY RequestShape, VersionNames
<1>2. OneHead(from)
  <2>1. stored # {}
    BY DEF BaselineOK, RollsOver
  <2>2. PICK v \in Versions : OneHead(v)
    BY <2>1 DEF BaselineOK
  <2>3. v = from
    BY <2>2 DEF OneHead, RollsOver
  <2>4. QED BY <2>2, <2>3
<1>3. /\ successor'[from] = to
      /\ \A w \in Versions \ {from} : successor'[w] = successor[w]
  BY <1>1 DEF TypesOK, RollsOver
<1>4. successor[to] = NoVersion
  BY <1>1 DEF BaselineOK, RollsOver
<1>5. OneHead(to)'
  <2>1. ASSUME NEW w \in stored \cup {to} PROVE successor'[w] = NoVersion <=> w = to
    BY <1>1, <1>2, <1>3, <1>4, <2>1 DEF OneHead, TypesOK, RollsOver
  <2>2. QED BY <2>1 DEF OneHead, RollsOver
<1>6. \A w \in Versions \ stored' : successor'[w] = NoVersion
  BY <1>1, <1>2, <1>3 DEF BaselineOK, OneHead, RollsOver
<1>7. QED BY <1>1, <1>5, <1>6 DEF BaselineOK, RollsOver

LEMMA StepKeepsBaseline ==
    ASSUME IInv, DatabaseStep
    PROVE  BaselineOK'
<1>1. CASE UNCHANGED baseline
  BY <1>1 DEF baseline, IInv, BaselineOK, OneHead
<1>2. CASE FirstSeed
  <2>1. OneHead(First)'
    BY <1>2, VersionNames DEF FirstSeed, OneHead, IInv, BaselineOK
  <2>2. QED BY <1>2, <2>1, VersionNames DEF FirstSeed, IInv, BaselineOK
<1>3. ASSUME NEW r \in Requests, RollsOver(Source[r], Target[r]) PROVE BaselineOK'
  BY <1>3, RollOverKeepsBaseline DEF IInv
<1>4. QED BY <1>1, <1>2, <1>3, DatabaseStepMovesBaseline

LEMMA IInvHolds == Spec => []IInv
<1>1. Init => IInv
  <2>1. Init => BaselineOK
    BY DEF Init, BaselineOK
  <2>2. QED BY <2>1, InitTypes DEF IInv
<1>2. IInv /\ [Next]_vars => IInv'
  BY NextIsADatabaseStep, DatabaseStepKeepsTypes, NextStays, StepKeepsBaseline DEF IInv
<1>3. QED BY <1>1, <1>2, PTL DEF Spec

\* There is exactly one current baseline from the first bootstrap on, whatever
\* requests are applied in whatever order, and it alone has no successor.
THEOREM SingleBaseline == Spec => []OneCurrentBaseline
<1>1. IInv => OneCurrentBaseline
  BY DEF IInv, BaselineOK, OneHead, OneCurrentBaseline
<1>2. QED BY <1>1, IInvHolds, PTL

-----------------------------------------------------------------------------
(* Decisions are final.                                                    *)

Final ==
    \A r \in Requests :
        /\ acr[r] \in {"APPLIED", "REJECTED"} => acr'[r] = acr[r]
        /\ acr[r] = "APPROVED" =>
              /\ acr'[r] \in {"APPROVED", "APPLIED"}
              /\ approver'[r] = approver[r]

LEMMA StepIsFinal ==
    ASSUME TypesOK, DatabaseStep
    PROVE  Final
<1>1. CASE UNCHANGED requests
  BY <1>1 DEF requests, Final
<1>2. ASSUME NEW q \in Requests, ProposeWrites(q) PROVE Final
  BY <1>2 DEF ProposeWrites, database, requests, TypesOK, Final
<1>3. ASSUME NEW q \in Requests, NEW by \in Approvers, ApproveWrites(q, by) PROVE Final
  BY <1>3 DEF ApproveWrites, database, requests, TypesOK, Final
<1>4. ASSUME NEW q \in Requests, RejectAccepts(q), RejectWrites(q) PROVE Final
  BY <1>4 DEF RejectAccepts, RejectWrites, TypesOK, Final
<1>5. ASSUME NEW q \in Requests, ApplyAccepts(q), ApplyWrites(q) PROVE Final
  BY <1>5 DEF ApplyAccepts, ApplyWrites, TypesOK, Final
<1>6. CASE UNCHANGED database \/ ManagerWrites \/ SeedWrites
  BY <1>1, <1>6 DEF ManagerWrites, SeedWrites, database
<1>7. QED BY <1>2, <1>3, <1>4, <1>5, <1>6 DEF DatabaseStep

\* No operation, crash or later release revives a rejected request, undoes an
\* applied one or reassigns an approval.
THEOREM FinalDecisions == Spec => DecisionsAreFinal
<1>1. IInv /\ [Next]_vars => [Final]_vars
  BY NextIsADatabaseStep, StepIsFinal DEF IInv
<1>2. QED BY <1>1, IInvHolds, PTL DEF Spec, DecisionsAreFinal, Final

-----------------------------------------------------------------------------
(* Versions are requested, and reasons follow decisions.                   *)

LEMMA StepKeepsRequested ==
    ASSUME IInv, VersionsAreRequested, DatabaseStep
    PROVE  VersionsAreRequested'
<1> DEFINE Settles(r) == acr'[r] = "APPLIED" /\ acr[r] # "APPLIED"
<1>1. CASE UNCHANGED <<baseline, acr>>
  BY <1>1 DEF baseline, VersionsAreRequested
<1>2. CASE SeedAccepts /\ SeedWrites
  <2>1. UNCHANGED baseline \/ FirstSeed
    BY <1>2, SeedMovesBaseline
  <2>2. UNCHANGED acr
    BY <1>2 DEF SeedWrites, requests
  <2>3. CASE FirstSeed
    BY <2>2, <2>3 DEF FirstSeed, VersionsAreRequested
  <2>4. QED BY <1>1, <2>1, <2>2, <2>3
<1>3. ASSUME UNCHANGED baseline,
             \A r \in Requests : acr'[r] = "APPLIED" <=> acr[r] = "APPLIED"
      PROVE  VersionsAreRequested'
  BY <1>3 DEF baseline, VersionsAreRequested
<1>4. ASSUME NEW q \in Requests, ProposeWrites(q) PROVE VersionsAreRequested'
  <2>1. CASE UNCHANGED database
    BY <1>1, <2>1 DEF database, requests
  <2>2. CASE acr[q] = "NONE"
    BY <1>3, <1>4, <2>2 DEF ProposeWrites, IInv, TypesOK
  <2>3. QED BY <1>4, <2>1, <2>2 DEF ProposeWrites
<1>5. ASSUME NEW q \in Requests, NEW by \in Approvers, ApproveWrites(q, by)
      PROVE  VersionsAreRequested'
  <2>1. CASE UNCHANGED database
    BY <1>1, <2>1 DEF database, requests
  <2>2. CASE acr[q] = "PROPOSED"
    BY <1>3, <1>5, <2>2 DEF ApproveWrites, IInv, TypesOK
  <2>3. QED BY <1>5, <2>1, <2>2 DEF ApproveWrites
<1>6. ASSUME NEW q \in Requests, RejectAccepts(q), RejectWrites(q) PROVE VersionsAreRequested'
  BY <1>3, <1>6 DEF RejectAccepts, RejectWrites, IInv, TypesOK
<1>7. ASSUME NEW q \in Requests, ApplyAccepts(q), ApplyWrites(q) PROVE VersionsAreRequested'
  <2> DEFINE from == Source[q]
             to == Target[q]
  <2>1. CASE acr[q] = "APPLIED"
    BY <1>1, <1>7, <2>1 DEF ApplyWrites
  <2>2. CASE acr[q] # "APPLIED"
    <3>1. /\ stored' = stored \cup {to}
          /\ successor' = [successor EXCEPT ![from] = to]
          /\ acr' = [acr EXCEPT ![q] = "APPLIED"]
      BY <1>7, <2>2 DEF ApplyWrites
    <3>2. from \in Versions /\ to \in Versions /\ to # NoVersion
      BY RequestShape, VersionNames
    <3>3. /\ successor'[from] = to
          /\ \A v \in Versions \ {from} : successor'[v] = successor[v]
      BY <3>1, <3>2 DEF IInv, TypesOK
    <3>4. /\ acr'[q] = "APPLIED"
          /\ \A r \in Requests \ {q} : acr'[r] = acr[r]
      BY <3>1 DEF IInv, TypesOK
    <3>5. successor[from] \in {NoVersion, to}
      BY <1>7, <2>2 DEF ApplyAccepts, RollOver, AlreadyRolled
    <3>6. \A r \in Requests : Source[r] \in Versions /\ Target[r] \in Versions
      BY RequestShape
    <3>7. \A r \in Requests : acr[r] = "APPLIED" => successor'[Source[r]] = Target[r]
      <4> SUFFICES ASSUME NEW r \in Requests, acr[r] = "APPLIED"
                   PROVE  successor'[Source[r]] = Target[r]
        OBVIOUS
      <4>1. successor[Source[r]] = Target[r]
        BY DEF VersionsAreRequested
      <4>2. CASE Source[r] = from
        BY <3>2, <3>3, <3>5, <3>6, <4>1, <4>2, VersionNames
      <4>3. CASE Source[r] # from
        BY <3>3, <3>6, <4>1, <4>3
      <4>4. QED BY <4>2, <4>3
    <3>8. \A r \in Requests : acr'[r] = "APPLIED" => successor'[Source[r]] = Target[r]
      BY <3>3, <3>4, <3>7
    <3>9. ASSUME NEW v \in stored' \ {First}
          PROVE  \E r \in Requests :
                    acr'[r] = "APPLIED" /\ Target[r] = v /\ successor'[Source[r]] = v
      <4>1. CASE v = to
        BY <3>3, <3>4, <4>1
      <4>2. CASE v # to
        <5>1. PICK r \in Requests : acr[r] = "APPLIED" /\ Target[r] = v
          BY <3>1, <4>2 DEF VersionsAreRequested
        <5>2. r # q
          BY <4>2, <5>1
        <5>3. QED BY <3>4, <3>7, <5>1, <5>2
      <4>3. QED BY <4>1, <4>2
    <3>10. QED BY <3>8, <3>9 DEF VersionsAreRequested
  <2>3. QED BY <2>1, <2>2
<1>8. CASE UNCHANGED database \/ ManagerWrites
  BY <1>1, <1>8 DEF ManagerWrites, database, requests
<1>9. QED BY <1>2, <1>4, <1>5, <1>6, <1>7, <1>8 DEF DatabaseStep

\* Every baseline after the first is there because an applied request made its
\* predecessor point to it, and that record stays true in every later release.
THEOREM VersionsWereRequested == Spec => []VersionsAreRequested
<1>1. Init => VersionsAreRequested
  BY DEF Init, VersionsAreRequested
<1>2. IInv /\ VersionsAreRequested /\ [Next]_vars => VersionsAreRequested'
  BY NextIsADatabaseStep, StepKeepsRequested DEF IInv
<1>3. QED BY <1>1, <1>2, IInvHolds, PTL DEF Spec

\* What a step may do to the status of a row that is no longer open.
AdrsStay ==
    \A a \in Adrs :
        /\ adr[a].status = "REJECTED" => adr'[a].status = "REJECTED"
        /\ adr[a].status \in {"ACCEPTED", "DEPRECATED", "SUPERSEDED"} =>
              adr'[a].status \in {"ACCEPTED", "DEPRECATED", "SUPERSEDED"}

LEMMA ReconcilingStays ==
    ASSUME TypesOK, NEW ids, Reconcilable(adr, ids, "ACCEPTED"),
           adr' = Reconciled(adr, ids, "ACCEPTED")
    PROVE  AdrsStay
BY DEF TypesOK, AdrRows, Reconcilable, Reconciled, Matches, NoRow, Row, AdrsStay

LEMMA ManagersStay ==
    ASSUME TypesOK, ManagerWrites
    PROVE  AdrsStay
<1>1. ManagedAdrs \subseteq Adrs
  BY Ids
<1>2. CASE UNCHANGED adr
  BY <1>2 DEF AdrsStay
<1>3. ASSUME NEW a \in Adrs, ProposeAdr(a) \/ ChangeAdr(a) \/ AmendAdr(a) PROVE AdrsStay
  <2>1. CASE ProposeAdr(a)
    BY <2>1 DEF ProposeAdr, TypesOK, AdrRows, NoRow, Row, AdrsStay
  <2>2. CASE ChangeAdr(a)
    BY <2>2 DEF ChangeAdr, ADR_TRANSITIONS, WithStatus, TypesOK, AdrRows, AdrsStay
  <2>3. CASE AmendAdr(a)
    BY <2>3 DEF AmendAdr, TypesOK, AdrRows, AdrsStay
  <2>4. QED BY <1>3, <2>1, <2>2, <2>3
<1>4. ASSUME NEW a \in Adrs, NEW by \in Adrs, SupersedeAdr(a, by) PROVE AdrsStay
  <2>1. /\ a # by
        /\ adr[a].status \in {"ACCEPTED", "DEPRECATED"}
        /\ adr[by].status \in {"PROPOSED", "ACCEPTED"}
    BY <1>4 DEF SupersedeAdr, ADR_TRANSITIONS
  <2>2. /\ adr'[a].status = "SUPERSEDED" /\ adr'[by].status = "ACCEPTED"
        /\ \A other \in Adrs \ {a, by} : adr'[other] = adr[other]
    BY <1>4 DEF SupersedeAdr, WithStatus, TypesOK, AdrRows
  <2>3. QED BY <2>1, <2>2 DEF AdrsStay
<1>5. QED BY <1>1, <1>2, <1>3, <1>4 DEF ManagerWrites

\* No request is decided that was not, except that an approved one is applied.
NothingDecided ==
    \A r \in Requests :
        \/ acr'[r] = acr[r]
        \/ acr'[r] = "PROPOSED"
        \/ acr[r] = "APPROVED" /\ acr'[r] = "APPLIED"

LEMMA ReasonsStay ==
    ASSUME ReasonFollowsDecision, AdrsStay, NothingDecided
    PROVE  ReasonFollowsDecision'
<1>1. ASSUME NEW r \in Requests
      PROVE  /\ acr'[r] = "REJECTED" => adr'[AdrOf[r]].status = "REJECTED"
             /\ acr'[r] \in {"APPROVED", "APPLIED"} =>
                  adr'[AdrOf[r]].status \in {"ACCEPTED", "DEPRECATED", "SUPERSEDED"}
  <2>1. AdrOf[r] \in Adrs
    BY Ids
  <2>2. QED BY <2>1 DEF ReasonFollowsDecision, AdrsStay, NothingDecided
<1>2. QED BY <1>1 DEF ReasonFollowsDecision

LEMMA StepKeepsReasons ==
    ASSUME TypesOK, ReasonFollowsDecision, DatabaseStep
    PROVE  ReasonFollowsDecision'
<1>0. \A r \in Requests : AdrOf[r] \in Adrs
  BY Ids
<1>2. CASE UNCHANGED <<acr, adr>>
  BY <1>2 DEF ReasonFollowsDecision
<1>3. CASE SeedAccepts /\ SeedWrites
  <2>1. AdrsStay
    BY <1>3, ReconcilingStays DEF SeedAccepts, SeedWrites
  <2>2. NothingDecided
    BY <1>3 DEF SeedWrites, requests, NothingDecided
  <2>3. QED BY <2>1, <2>2, ReasonsStay
<1>4. ASSUME NEW q \in Requests, ProposeWrites(q) PROVE ReasonFollowsDecision'
  <2>1. CASE UNCHANGED database
    BY <1>2, <2>1 DEF database, requests
  <2>2. CASE acr[q] = "NONE"
    <3>1. /\ acr' = [acr EXCEPT ![q] = "PROPOSED"]
          /\ adr' = [adr EXCEPT ![AdrOf[q]] = IF @ = NoRow THEN Row("PROPOSED") ELSE @]
      BY <1>4, <2>2 DEF ProposeWrites
    <3>2. AdrsStay
      BY <1>0, <3>1 DEF TypesOK, AdrRows, NoRow, Row, AdrsStay
    <3>3. NothingDecided
      BY <3>1 DEF TypesOK, NothingDecided
    <3>4. QED BY <3>2, <3>3, ReasonsStay
  <2>3. QED BY <1>4, <2>1, <2>2 DEF ProposeWrites
<1>5. ASSUME NEW q \in Requests, NEW by \in Approvers, ApproveAccepts(q, by), ApproveWrites(q, by)
      PROVE  ReasonFollowsDecision'
  <2>1. CASE UNCHANGED database
    BY <1>2, <2>1 DEF database, requests
  <2>2. CASE acr[q] = "PROPOSED"
    <3>1. /\ acr' = [acr EXCEPT ![q] = "APPROVED"]
          /\ adr' = WithStatus(adr, AdrOf[q], "ACCEPTED")
          /\ adr[AdrOf[q]].status \in {"PROPOSED", "ACCEPTED"}
      BY <1>5, <2>2 DEF ApproveAccepts, ApproveWrites
    <3>2. /\ adr'[AdrOf[q]].status = "ACCEPTED"
          /\ \A a \in Adrs \ {AdrOf[q]} : adr'[a] = adr[a]
      BY <1>0, <3>1 DEF WithStatus, TypesOK, AdrRows
    <3>3. /\ acr'[q] = "APPROVED"
          /\ \A r \in Requests \ {q} : acr'[r] = acr[r]
      BY <3>1 DEF TypesOK
    <3>4. QED BY <1>0, <3>1, <3>2, <3>3 DEF ReasonFollowsDecision
  <2>3. QED BY <1>5, <2>1, <2>2 DEF ApproveWrites
<1>6. ASSUME NEW q \in Requests, RejectAccepts(q), RejectWrites(q) PROVE ReasonFollowsDecision'
  <2>1. /\ acr' = [acr EXCEPT ![q] = "REJECTED"]
        /\ adr' = WithStatus(adr, AdrOf[q], "REJECTED")
        /\ adr[AdrOf[q]].status \in {"PROPOSED", "REJECTED"}
    BY <1>6 DEF RejectAccepts, RejectWrites
  <2>2. /\ adr'[AdrOf[q]].status = "REJECTED"
        /\ \A a \in Adrs \ {AdrOf[q]} : adr'[a] = adr[a]
    BY <1>0, <2>1 DEF WithStatus, TypesOK, AdrRows
  <2>3. /\ acr'[q] = "REJECTED"
        /\ \A r \in Requests \ {q} : acr'[r] = acr[r]
    BY <2>1 DEF TypesOK
  <2>4. QED BY <1>0, <2>1, <2>2, <2>3 DEF ReasonFollowsDecision
<1>7. ASSUME NEW q \in Requests, ApplyAccepts(q), ApplyWrites(q) PROVE ReasonFollowsDecision'
  <2>1. AdrsStay
    BY <1>7, ReconcilingStays DEF ApplyAccepts, ApplyWrites
  <2>2. acr' = acr \/ (acr[q] = "APPROVED" /\ acr' = [acr EXCEPT ![q] = "APPLIED"])
    <3>1. CASE acr[q] = "APPLIED"
      BY <1>7, <3>1 DEF ApplyWrites
    <3>2. CASE acr[q] # "APPLIED"
      BY <1>7, <3>2 DEF ApplyAccepts, ApplyWrites
    <3>3. QED BY <3>1, <3>2
  <2>3. NothingDecided
    BY <2>2 DEF NothingDecided, TypesOK
  <2>4. QED BY <2>1, <2>3, ReasonsStay
<1>8. CASE ManagerWrites
  BY <1>8, ManagersStay, ReasonsStay DEF ManagerWrites, requests, NothingDecided
<1>9. QED
  BY <1>2, <1>3, <1>4, <1>5, <1>6, <1>7, <1>8 DEF DatabaseStep, database, requests

\* A rejected request has a rejected reason record and an approved one a record
\* that was accepted, whatever the managers and other requests do to it since.
THEOREM ReasonsFollowDecisions == Spec => []ReasonFollowsDecision
<1>1. Init => ReasonFollowsDecision
  BY DEF Init, ReasonFollowsDecision
<1>2. IInv /\ ReasonFollowsDecision /\ [Next]_vars => ReasonFollowsDecision'
  BY NextIsADatabaseStep, StepKeepsReasons DEF IInv
<1>3. QED BY <1>1, <1>2, IInvHolds, PTL DEF Spec

-----------------------------------------------------------------------------
(* The gate and its baseline.                                              *)

\* No release takes all declared changes back.
ReleasesGrow ==
    \A i, j \in 1 .. Len(Declared) : i < j /\ Declared[j] = <<>> => Declared[i] = <<>>

\* compose() leaves the target of every change it has passed in the store; the
\* process is up once all of them are there and the last one is current.
Reached ==
    /\ Changes = <<>> => stored \subseteq {First}
    /\ boot.stage \in {"propose", "approve", "apply"} =>
          /\ First \in stored
          /\ boot.change \in 1 .. Len(Changes)
          /\ \A i \in 1 .. (boot.change - 1) : Target[Changes[i]] \in stored
    /\ boot.stage = "up" => Canonical \subseteq stored /\ current = {Expected}

\* Only versions this release knows are stored, and while all of them are there
\* no operation moves the baseline.
LEMMA DatabaseStepStores ==
    ASSUME IInv, DatabaseStep
    PROVE  /\ stored \subseteq stored'
           /\ stored' \subseteq stored \cup Canonical
           /\ stored' = stored => current' = current
<1>1. /\ stored \subseteq stored'
      /\ stored' = stored => current' = current
  BY DatabaseStepMovesBaseline, VersionNames DEF baseline, FirstSeed, RollsOver
<1>2. CASE SeedAccepts /\ SeedWrites
  BY <1>1, <1>2 DEF SeedWrites, Canonical
<1>3. ASSUME NEW r \in Requests, ApplyAccepts(r), ApplyWrites(r)
      PROVE  stored' \subseteq stored \cup Canonical
  <2>1. Target[r] \in Canonical
    BY <1>3 DEF ApplyAccepts
  <2>2. stored' = stored \/ stored' = stored \cup {Target[r]}
    BY <1>3 DEF ApplyWrites, baseline
  <2>3. QED BY <2>1, <2>2
<1>4. ASSUME UNCHANGED stored PROVE stored' \subseteq stored \cup Canonical
  BY <1>4
<1>5. QED
  BY <1>1, <1>2, <1>3, <1>4
  DEF DatabaseStep, ProposeWrites, ApproveWrites, RejectWrites, ManagerWrites, database, baseline

LEMMA ComposeReaches ==
    ASSUME IInv, Reached, Compose, IInv'
    PROVE  Reached'
<1>0. /\ DatabaseStep /\ UNCHANGED release /\ Changes' = Changes /\ Canonical' = Canonical
      /\ Expected' = Expected
  BY ComposeIsADatabaseStep
  DEF IInv, Compose, ComposeSeed, ComposePropose, ComposeApprove, ComposeApply, ComposeStep,
      Changes, Canonical, Expected
<1>1. Changes \in Seq(Requests) /\ Len(Changes) \in Nat /\ DOMAIN Changes = 1 .. Len(Changes)
  <2>1. Changes \in Seq(Requests)
    BY RequestShape DEF IInv, ControlOK, Changes
  <2>2. QED BY <2>1
<1>2. Changes = <<>> <=> Len(Changes) = 0
  BY <1>1
<1>3. /\ stored \subseteq stored'
      /\ Changes = <<>> => stored' \subseteq {First}
  <2>1. Changes = <<>> => Canonical = {First}
    BY DEF Canonical
  <2>2. QED BY <1>0, <2>1, DatabaseStepStores DEF Reached
<1>4. ASSUME boot'.stage = "refused" PROVE Reached'
  BY <1>0, <1>3, <1>4 DEF Reached
<1>5. ASSUME ComposeSeed, boot' = After(0), SeedWrites PROVE Reached'
  <2>1. First \in stored'
    BY <1>5 DEF SeedWrites
  <2>2. CASE Changes = <<>>
    <3>1. boot' = At("up", 0)
      BY <1>2, <1>5, <2>2 DEF After
    <3>2. stored' = {First}
      BY <1>3, <2>1, <2>2
    <3>3. PICK v \in Versions : OneHead(v)'
      BY <3>2 DEF IInv, BaselineOK
    <3>4. current' = {First}
      BY <3>2, <3>3 DEF OneHead
    <3>5. Canonical = {First} /\ Expected = First
      BY <2>2 DEF Canonical, Expected
    <3>6. QED BY <1>0, <1>3, <3>1, <3>2, <3>4, <3>5 DEF Reached, At
  <2>3. CASE Changes # <<>>
    <3>1. boot' = At("propose", 1) /\ 1 \in 1 .. Len(Changes)
      BY <1>1, <1>2, <1>5, <2>3 DEF After
    <3>2. boot'.stage = "propose" /\ boot'.change = 1
      BY <3>1 DEF At
    <3>3. QED BY <1>0, <1>3, <2>1, <2>3, <3>1, <3>2 DEF Reached
  <2>4. QED BY <2>2, <2>3
<1>6. ASSUME NEW i \in DOMAIN Changes, boot = At("propose", i) \/ boot = At("approve", i),
             boot' = At("approve", i) \/ boot' = At("apply", i)
      PROVE  Reached'
  <2>1. /\ boot.stage \in {"propose", "approve", "apply"} /\ boot.change = i
        /\ boot'.stage \in {"approve", "apply"} /\ boot'.change = i
    BY <1>6 DEF At
  <2>2. /\ First \in stored'
        /\ \A j \in 1 .. (i - 1) : Target[Changes[j]] \in stored'
    BY <1>3, <2>1 DEF Reached
  <2>3. QED BY <1>0, <1>1, <1>3, <2>1, <2>2 DEF Reached
<1>7. ASSUME NEW i \in DOMAIN Changes, boot = At("apply", i), boot' = After(i),
             ApplyAccepts(Changes[i]), ApplyWrites(Changes[i])
      PROVE  Reached'
  <2>1. boot.stage = "apply" /\ boot.change = i /\ i \in 1 .. Len(Changes) /\ Changes # <<>>
    BY <1>1, <1>2, <1>7 DEF At
  <2>2. Target[Changes[i]] \in stored' /\ current' = {Target[Changes[i]]}
    <3>1. CASE acr[Changes[i]] = "APPLIED"
      BY <1>7, <3>1 DEF ApplyAccepts, ApplyWrites, StillApplied, AlreadyRolled, baseline, IInv, TypesOK
    <3>2. CASE acr[Changes[i]] # "APPLIED"
      BY <1>7, <3>2 DEF ApplyWrites
    <3>3. QED BY <3>1, <3>2
  <2>3. \A j \in 1 .. i : Target[Changes[j]] \in stored'
    <3>1. \A j \in 1 .. (i - 1) : Target[Changes[j]] \in stored'
      BY <1>3, <2>1 DEF Reached
    <3>2. QED BY <2>1, <2>2, <3>1
  <2>4. First \in stored'
    BY <1>3, <2>1 DEF Reached
  <2>5. CASE i < Len(Changes)
    <3>1. boot'.stage = "propose" /\ boot'.change = i + 1 /\ i + 1 \in 1 .. Len(Changes)
      BY <1>1, <1>7, <2>1, <2>5 DEF After, At
    <3>2. \A j \in 1 .. ((i + 1) - 1) : Target[Changes[j]] \in stored'
      BY <2>1, <2>3
    <3>3. QED BY <1>0, <2>1, <2>4, <3>1, <3>2 DEF Reached
  <2>6. CASE i = Len(Changes)
    <3>1. boot'.stage = "up"
      BY <1>1, <1>7, <2>6 DEF After, At
    <3>2. Canonical \subseteq stored'
      BY <1>1, <2>3, <2>4, <2>6 DEF Canonical
    <3>3. Expected = Target[Changes[i]]
      BY <2>1, <2>6 DEF Expected
    <3>4. QED BY <1>0, <2>1, <2>2, <3>1, <3>2, <3>3 DEF Reached
  <2>7. QED BY <1>1, <2>1, <2>5, <2>6
<1>8. CASE ComposeSeed
  BY <1>4, <1>5, <1>8 DEF ComposeSeed, ComposeStep, At
<1>9. ASSUME NEW i \in DOMAIN Changes, ComposePropose(i) \/ ComposeApprove(i) \/ ComposeApply(i)
      PROVE  Reached'
  <2>1. CASE ComposePropose(i)
    BY <1>4, <1>6, <2>1 DEF ComposePropose, ComposeStep, At
  <2>2. CASE ComposeApprove(i)
    <3>1. boot = At("approve", i) /\ (boot' = At("apply", i) \/ boot' = At("refused", 0))
      BY <2>2 DEF ComposeApprove, ComposeStep
    <3>2. CASE boot' = At("apply", i)
      BY <1>6, <3>1, <3>2
    <3>3. CASE boot' = At("refused", 0)
      BY <1>4, <3>3 DEF At
    <3>4. QED BY <3>1, <3>2, <3>3
  <2>3. CASE ComposeApply(i)
    BY <1>4, <1>7, <2>3 DEF ComposeApply, ComposeStep, At
  <2>4. QED BY <1>9, <2>1, <2>2, <2>3
<1>10. QED BY <1>8, <1>9 DEF Compose

LEMMA StepReaches ==
    ASSUME ReleasesGrow, IInv, Reached, [Next]_vars, IInv'
    PROVE  Reached'
<1>1. CASE Start \/ Stop
  BY <1>1 DEF Start, Stop, At, Reached, Changes, database, baseline
<1>2. CASE Upgrade
  <2>1. /\ boot' = boot /\ boot.stage = "down" /\ stored' = stored
        /\ release \in 1 .. Len(Declared) /\ release' \in 1 .. Len(Declared) /\ release < release'
    BY <1>2, RequestShape DEF Upgrade, database, baseline, IInv, ControlOK
  <2>2. Changes' = <<>> => Changes = <<>>
    BY <2>1 DEF ReleasesGrow, Changes
  <2>3. QED BY <2>1, <2>2 DEF Reached
<1>3. CASE UNCHANGED vars
  BY <1>3 DEF vars, database, baseline, Reached, Changes, Canonical, Expected
<1>4. CASE Lifecycle \/ Manage
  <2>1. boot.stage = "up" /\ UNCHANGED <<release, boot>>
    BY <1>4 DEF Lifecycle, Propose, Approve, Reject, Apply, Manage, Operator
  <2>2. Changes' = Changes /\ Canonical' = Canonical /\ Expected' = Expected
    BY <2>1 DEF Changes, Canonical, Expected
  <2>3. stored' = stored /\ current' = current
    BY <2>1, NextIsADatabaseStep, DatabaseStepStores DEF IInv, Reached
  <2>4. QED BY <2>1, <2>2, <2>3 DEF Reached
<1>5. QED BY <1>1, <1>2, <1>3, <1>4, ComposeReaches DEF Next

\* Where no release takes all declared changes back, the gate of a process that
\* is up always finds the baseline its release validates against.
THEOREM GateIsAuthoritative ==
    ASSUME ReleasesGrow
    PROVE  Spec => []GateHasBaseline
<1>1. Init => Reached
  BY DEF Init, Reached, At
<1>2. IInv /\ Reached /\ [Next]_vars /\ IInv' => Reached'
  BY StepReaches
<1>3. Reached => GateHasBaseline
  BY DEF Reached, GateHasBaseline
<1>4. QED BY <1>1, <1>2, <1>3, IInvHolds, PTL DEF Spec

-----------------------------------------------------------------------------
(* Restarts.                                                               *)

\* No row is ever deleted.
RowsRemain ==
    /\ \A a \in Adrs : adr[a].status # "NONE" => adr'[a].status # "NONE"
    /\ \A k \in Risks : risk[k].status # "NONE" => risk'[k].status # "NONE"

\* What seed and apply have reconciled once is there.
Seeded ==
    /\ stored # {} =>
         /\ First \in stored
         /\ \A a \in BootAdrs : adr[a].status # "NONE"
         /\ \A k \in BootRisks : risk[k].status # "NONE"
    /\ (\E r \in Requests : acr[r] = "APPLIED") => \A a \in ChangeAdrs : adr[a].status # "NONE"

LEMMA AdrsRemain ==
    ASSUME adr \in AdrRows, NEW a \in Adrs,
           \/ adr' = adr
           \/ adr' = [adr EXCEPT ![a] = IF @ = NoRow THEN Row("PROPOSED") ELSE @]
           \/ \E status \in ADRStatus : adr' = WithStatus(adr, a, status)
           \/ \E ids : adr' = Reconciled(adr, ids, "ACCEPTED")
           \/ ProposeAdr(a) \/ ChangeAdr(a) \/ AmendAdr(a)
           \/ \E by \in Adrs : SupersedeAdr(a, by)
    PROVE  \A other \in Adrs : adr[other].status # "NONE" => adr'[other].status # "NONE"
<1>1. CASE adr' = adr
  BY <1>1
<1>2. CASE adr' = [adr EXCEPT ![a] = IF @ = NoRow THEN Row("PROPOSED") ELSE @]
  BY <1>2 DEF AdrRows, Row
<1>3. ASSUME NEW status \in ADRStatus, adr' = WithStatus(adr, a, status)
      PROVE  \A other \in Adrs : adr[other].status # "NONE" => adr'[other].status # "NONE"
  BY <1>3 DEF AdrRows, ADRStatus, WithStatus
<1>4. ASSUME NEW ids, adr' = Reconciled(adr, ids, "ACCEPTED")
      PROVE  \A other \in Adrs : adr[other].status # "NONE" => adr'[other].status # "NONE"
  BY <1>4 DEF AdrRows, Reconciled, Row
<1>5. CASE ProposeAdr(a)
  BY <1>5 DEF ProposeAdr, AdrRows
<1>6. CASE ChangeAdr(a)
  BY <1>3, <1>6 DEF ChangeAdr
<1>7. CASE AmendAdr(a)
  BY <1>7 DEF AmendAdr, AdrRows
<1>8. ASSUME NEW by \in Adrs, SupersedeAdr(a, by)
      PROVE  \A other \in Adrs : adr[other].status # "NONE" => adr'[other].status # "NONE"
  BY <1>8 DEF SupersedeAdr, WithStatus, AdrRows
<1>9. QED
  BY <1>1, <1>2, <1>3, <1>4, <1>5, <1>6, <1>7, <1>8

LEMMA RisksRemain ==
    ASSUME risk \in RiskRows,
           \/ risk' = risk
           \/ \E ids : risk' = Reconciled(risk, ids, "OPEN")
           \/ \E k \in Risks : RegisterRisk(k) \/ ChangeRisk(k) \/ UpdateRisk(k)
    PROVE  \A k \in Risks : risk[k].status # "NONE" => risk'[k].status # "NONE"
<1>1. CASE risk' = risk
  BY <1>1
<1>2. ASSUME NEW ids, risk' = Reconciled(risk, ids, "OPEN")
      PROVE  \A k \in Risks : risk[k].status # "NONE" => risk'[k].status # "NONE"
  BY <1>2 DEF RiskRows, Reconciled, Row
<1>3. ASSUME NEW q \in Risks, RegisterRisk(q) \/ ChangeRisk(q) \/ UpdateRisk(q)
      PROVE  \A k \in Risks : risk[k].status # "NONE" => risk'[k].status # "NONE"
  <2>1. CASE RegisterRisk(q)
    BY <2>1 DEF RegisterRisk, RiskRows
  <2>2. CASE ChangeRisk(q)
    BY <2>2 DEF ChangeRisk, RiskStatus, WithStatus, RiskRows
  <2>3. CASE UpdateRisk(q)
    BY <2>3 DEF UpdateRisk, RiskRows
  <2>4. QED BY <1>3, <2>1, <2>2, <2>3
<1>4. QED BY <1>1, <1>2, <1>3

LEMMA StepRemains ==
    ASSUME TypesOK, DatabaseStep
    PROVE  RowsRemain
<1> USE DEF TypesOK, RowsRemain
<1>1. CASE UNCHANGED database
  BY <1>1 DEF database
<1>2. CASE SeedAccepts /\ SeedWrites
  <2>1. adr' = Reconciled(adr, BootAdrs, "ACCEPTED") /\ risk' = Reconciled(risk, BootRisks, "OPEN")
    BY <1>2 DEF SeedWrites
  <2>2. \A a \in Adrs : adr[a].status # "NONE" => adr'[a].status # "NONE"
    BY <2>1, AdrsRemain
  <2>3. QED BY <2>1, <2>2, RisksRemain
<1>3. ASSUME NEW r \in Requests, ProposeWrites(r) PROVE RowsRemain
  <2>1. AdrOf[r] \in Adrs
    BY Ids
  <2>2. QED BY <1>1, <1>3, <2>1, AdrsRemain DEF ProposeWrites
<1>4. ASSUME NEW r \in Requests, NEW by \in Approvers, ApproveWrites(r, by) PROVE RowsRemain
  <2>1. AdrOf[r] \in Adrs /\ "ACCEPTED" \in ADRStatus
    BY Ids DEF ADRStatus
  <2>2. QED BY <1>1, <1>4, <2>1, AdrsRemain DEF ApproveWrites
<1>5. ASSUME NEW r \in Requests, RejectWrites(r) PROVE RowsRemain
  <2>1. AdrOf[r] \in Adrs /\ "REJECTED" \in ADRStatus
    BY Ids DEF ADRStatus
  <2>2. QED BY <1>5, <2>1, AdrsRemain DEF RejectWrites
<1>6. ASSUME NEW r \in Requests, ApplyWrites(r) PROVE RowsRemain
  <2>1. AdrOf[r] \in Adrs /\ adr' = Reconciled(adr, ChangeAdrs, "ACCEPTED")
    BY <1>6, Ids DEF ApplyWrites
  <2>2. risk' = risk \/ risk' = Reconciled(risk, RisksOf[r], "OPEN")
    BY <1>6 DEF ApplyWrites
  <2>3. QED BY <2>1, <2>2, AdrsRemain, RisksRemain
<1>7. CASE ManagerWrites
  <2>1. ManagedAdrs \subseteq Adrs /\ ManagedRisks \subseteq Risks
    BY Ids
  <2>2. \A a \in Adrs : adr[a].status # "NONE" => adr'[a].status # "NONE"
    BY <1>7, <2>1, AdrsRemain DEF ManagerWrites
  <2>3. risk' = risk \/ \E k \in Risks : RegisterRisk(k) \/ ChangeRisk(k) \/ UpdateRisk(k)
    BY <1>7, <2>1 DEF ManagerWrites
  <2>4. QED BY <2>2, <2>3, RisksRemain
<1>8. QED
  BY <1>1, <1>2, <1>3, <1>4, <1>5, <1>6, <1>7 DEF DatabaseStep

LEMMA StepKeepsSeeded ==
    ASSUME IInv, Seeded, DatabaseStep
    PROVE  Seeded'
<1>1. RowsRemain /\ TypesOK /\ stored \subseteq stored'
  BY StepRemains, DatabaseStepStores DEF IInv
<1>2. BootAdrs \subseteq Adrs /\ ChangeAdrs \subseteq Adrs /\ BootRisks \subseteq Risks
  BY Ids
<1>3. CASE SeedAccepts /\ SeedWrites
  <2>1. /\ First \in stored' /\ acr' = acr
        /\ \A a \in BootAdrs : adr'[a].status # "NONE"
        /\ \A k \in BootRisks : risk'[k].status # "NONE"
    BY <1>1, <1>2, <1>3 DEF SeedWrites, requests, Reconciled, Row, TypesOK, AdrRows, RiskRows
  <2>2. QED BY <1>1, <1>2, <2>1 DEF Seeded, RowsRemain
<1>4. ASSUME NEW r \in Requests, ApplyAccepts(r), ApplyWrites(r) PROVE Seeded'
  <2>1. \A a \in ChangeAdrs : adr'[a].status # "NONE"
    BY <1>1, <1>2, <1>4 DEF ApplyWrites, Reconciled, Row, TypesOK, AdrRows
  <2>2. stored # {}
    BY <1>1, <1>4 DEF ApplyAccepts, StillApplied, TypesOK
  <2>3. QED BY <1>1, <1>2, <2>1, <2>2 DEF Seeded, RowsRemain
<1>5. ASSUME stored' = stored,
             \A r \in Requests : acr'[r] = "APPLIED" => acr[r] = "APPLIED"
      PROVE  Seeded'
  BY <1>1, <1>2, <1>5 DEF Seeded, RowsRemain
<1>6. CASE UNCHANGED database \/ ManagerWrites
  BY <1>5, <1>6 DEF database, ManagerWrites, requests, baseline
<1>7. ASSUME NEW r \in Requests, ProposeWrites(r) PROVE Seeded'
  BY <1>1, <1>5, <1>7 DEF ProposeWrites, database, requests, baseline, TypesOK
<1>8. ASSUME NEW r \in Requests, NEW by \in Approvers, ApproveWrites(r, by) PROVE Seeded'
  BY <1>1, <1>5, <1>8 DEF ApproveWrites, database, requests, baseline, TypesOK
<1>9. ASSUME NEW r \in Requests, RejectWrites(r) PROVE Seeded'
  BY <1>1, <1>5, <1>9 DEF RejectWrites, baseline, TypesOK
<1>10. QED
  BY <1>3, <1>4, <1>6, <1>7, <1>8, <1>9 DEF DatabaseStep

\* What is there and still as declared is written as it is.
LEMMA ReconcilingNothing ==
    ASSUME NEW S, NEW rows \in [S -> [status : ADRStatus \cup RiskStatus \cup {"NONE"}, intact : BOOLEAN]],
           NEW ids \in SUBSET S, NEW status, Reconcilable(rows, ids, status),
           \A id \in ids : rows[id].status # "NONE"
    PROVE  Reconciled(rows, ids, status) = rows
<1>1. NoRow.status = "NONE"
  BY DEF NoRow, Row
<1>2. \A id \in ids : rows[id] # NoRow
  BY <1>1
<1>3. \A id \in ids : rows[id] = Row(status)
  BY <1>2 DEF Reconcilable, Matches
<1>4. QED BY <1>3 DEF Reconciled

\* A start of a release whose changes are all applied leaves the database as it
\* is, whatever happened to the rows since, or is refused (compose()).
THEOREM RestartsWriteNothing == Spec => RestartChangesNothing
<1> DEFINE Quiet == boot.stage # "up" /\ stored # {}
                      /\ \A i \in DOMAIN Changes : acr[Changes[i]] = "APPLIED"
<1>1. ASSUME IInv, Seeded, Quiet, [Next]_vars PROVE UNCHANGED database
  <2>1. CASE Start \/ Stop \/ Upgrade \/ UNCHANGED vars
    BY <2>1 DEF Start, Stop, Upgrade, vars
  <2>2. CASE ComposeSeed
    <3>1. CASE UNCHANGED database
      BY <3>1
    <3>2. CASE SeedAccepts /\ SeedWrites
      <4>1. stored' = stored /\ current' = current
        BY <1>1, <3>2 DEF Seeded, SeedWrites
      <4>2. Reconciled(adr, BootAdrs, "ACCEPTED") = adr
        BY <1>1, <3>2, Ids, ReconcilingNothing DEF IInv, TypesOK, AdrRows, Seeded, SeedAccepts
      <4>3. Reconciled(risk, BootRisks, "OPEN") = risk
        BY <1>1, <3>2, Ids, ReconcilingNothing DEF IInv, TypesOK, RiskRows, Seeded, SeedAccepts
      <4>4. QED BY <3>2, <4>1, <4>2, <4>3 DEF SeedWrites, database, baseline
    <3>3. QED BY <2>2, <3>1, <3>2 DEF ComposeSeed, ComposeStep
  <2>3. ASSUME NEW i \in DOMAIN Changes, ComposePropose(i) \/ ComposeApprove(i)
        PROVE  UNCHANGED database
    <3>1. acr[Changes[i]] = "APPLIED"
      BY <1>1
    <3>2. QED
      BY <2>3, <3>1 DEF ComposePropose, ComposeApprove, ComposeStep, ProposeWrites, ApproveWrites
  <2>4. ASSUME NEW i \in DOMAIN Changes, ComposeApply(i)
        PROVE  UNCHANGED database
    <3>1. acr[Changes[i]] = "APPLIED" /\ Changes[i] \in Requests
      BY <1>1, DeclaredRequests DEF IInv
    <3>2. CASE UNCHANGED database
      BY <3>2
    <3>3. CASE ApplyAccepts(Changes[i]) /\ ApplyWrites(Changes[i])
      <4>1. Reconciled(adr, ChangeAdrs, "ACCEPTED") = adr
        BY <1>1, <3>1, <3>3, Ids, ReconcilingNothing
           DEF IInv, TypesOK, AdrRows, Seeded, ApplyAccepts
      <4>2. QED BY <3>1, <3>3, <4>1 DEF ApplyWrites, database, requests
    <3>4. QED BY <2>4, <3>2, <3>3 DEF ComposeApply, ComposeStep
  <2>5. CASE Lifecycle \/ Manage
    BY <1>1, <2>5 DEF Lifecycle, Propose, Approve, Reject, Apply, Manage, Operator
  <2>6. QED BY <1>1, <2>1, <2>2, <2>3, <2>4, <2>5 DEF Next, Compose
<1>2. Init => Seeded
  BY DEF Init, Seeded
<1>3. IInv /\ Seeded /\ [Next]_vars => Seeded'
  BY NextIsADatabaseStep, StepKeepsSeeded DEF IInv
<1>4. IInv /\ Seeded /\ [Next]_vars => [Quiet => UNCHANGED database]_vars
  BY <1>1
<1>5. QED BY <1>2, <1>3, <1>4, IInvHolds, PTL DEF Spec, RestartChangesNothing

-----------------------------------------------------------------------------
(* A catalogue of one change.                                              *)

\* Every release declares the same change, of the seeded version, and nobody
\* uses the managers beside the evolution.
OneChange(c) ==
    /\ c \in SoundRequests
    /\ Source[c] = First
    /\ \A i \in 1 .. Len(Declared) : Declared[i] = <<c>>
    /\ ManagedAdrs = {} /\ ManagedRisks = {}

Accepted(ids) == \A a \in ids : adr[a] = Row("ACCEPTED")

\* Nothing is stored; the change is on its way; it is applied.
Fresh ==
    /\ stored = {} /\ current = {}
    /\ successor[First] = NoVersion
    /\ acr = [r \in Requests |-> "NONE"]
    /\ adr = [a \in Adrs |-> NoRow]
    /\ boot.stage \in {"down", "seed"}

Rolling(c) ==
    /\ stored = {First} /\ current = {First}
    /\ successor[First] = NoVersion /\ successor[Target[c]] = NoVersion
    /\ Accepted(BootAdrs)
    /\ \A a \in Adrs \ (BootAdrs \cup {AdrOf[c]}) : adr[a] = NoRow
    /\ acr[c] \in {"NONE", "PROPOSED", "APPROVED"}
    /\ acr[c] = "NONE" => adr[AdrOf[c]] \in {NoRow, Row("ACCEPTED")}
    /\ acr[c] = "PROPOSED" => adr[AdrOf[c]] \in {Row("PROPOSED"), Row("ACCEPTED")}
    /\ acr[c] = "APPROVED" => approver[c] = DefaultApprover /\ Accepted({AdrOf[c]})
    /\ boot.stage \in {"down", "seed", "propose", "approve", "apply"}
    /\ boot.stage = "approve" => acr[c] # "NONE"
    /\ boot.stage = "apply" => acr[c] = "APPROVED"

Rolled(c) ==
    /\ stored = {First, Target[c]} /\ current = {Target[c]}
    /\ successor[First] = Target[c] /\ successor[Target[c]] = NoVersion
    /\ acr[c] = "APPLIED"
    /\ Accepted(BootAdrs \cup ChangeAdrs \cup {AdrOf[c]})
    /\ boot.stage # "refused"

RisksAreOpen == \A k \in Risks : risk[k] \in {NoRow, Row("OPEN")}

Welcome(c) == RisksAreOpen /\ (Fresh \/ Rolling(c) \/ Rolled(c))

LEMMA OneChangeFacts ==
    ASSUME NEW c, OneChange(c), ControlOK
    PROVE  /\ c \in Requests /\ AdrOf[c] \in Adrs
           /\ Target[c] \in Versions /\ Target[c] # First
           /\ Changes = <<c>> /\ DOMAIN Changes = {1} /\ Changes[1] = c
           /\ Canonical = {First, Target[c]}
           /\ After(0) = At("propose", 1) /\ After(1) = At("up", 0)
<1>1. c \in Requests /\ Target[c] \in Versions /\ Target[c] # First
  BY RequestShape DEF OneChange
<1>2. AdrOf[c] \in Adrs
  BY <1>1, Ids
<1>3. Changes = <<c>>
  BY DEF OneChange, ControlOK, Changes
<1>4. DOMAIN Changes = {1} /\ Changes[1] = c /\ Len(Changes) = 1
  BY <1>3
<1>5. Canonical = {First, Target[c]}
  BY <1>4 DEF Canonical
<1>6. After(0) = At("propose", 1) /\ After(1) = At("up", 0)
  BY <1>4 DEF After
<1>7. QED BY <1>1, <1>2, <1>3, <1>4, <1>5, <1>6

\* A risk that is registered again stays open.
LEMMA RisksStayOpen ==
    ASSUME TypesOK, RisksAreOpen, NEW ids,
           risk' = risk \/ risk' = Reconciled(risk, ids, "OPEN")
    PROVE  RisksAreOpen' /\ Reconcilable(risk, ids \cap Risks, "OPEN")
BY DEF TypesOK, RiskRows, RisksAreOpen, Reconciled, Reconcilable, Matches

LEMMA SeedIsWelcome ==
    ASSUME NEW c, OneChange(c), IInv, Welcome(c), ComposeSeed
    PROVE  Welcome(c)'
<1> USE OneChangeFacts, VersionNames DEF IInv
<1>1. BootAdrs \subseteq Adrs /\ BootRisks \subseteq Risks /\ BootRisks \cap Risks = BootRisks
  BY Ids
<1>2. Row("ACCEPTED") # NoRow
  BY DEF NoRow, Row
<1>3. Reconcilable(risk, BootRisks, "OPEN")
  BY <1>1 DEF Welcome, RisksAreOpen, Reconcilable, Matches
<1>4. Reconcilable(adr, BootAdrs, "ACCEPTED")
  BY <1>1 DEF Welcome, Fresh, Rolling, Rolled, Accepted, Reconcilable, Matches
<1>5. VersionReconcilable
  BY DEF Welcome, Fresh, Rolling, Rolled, VersionReconcilable
<1>6. SeedWrites /\ boot' = At("propose", 1) /\ boot.stage = "seed"
  BY <1>3, <1>4, <1>5 DEF ComposeSeed, ComposeStep, SeedAccepts
<1>7. RisksAreOpen'
  BY <1>6, RisksStayOpen DEF SeedWrites, Welcome
<1>8. boot'.stage = "propose"
  BY <1>6 DEF At
<1>9. CASE Fresh
  <2>1. stored' = {First} /\ current' = {First} /\ successor' = successor /\ acr' = acr
    BY <1>6, <1>9 DEF Fresh, SeedWrites, requests
  <2>2. acr'[c] = "NONE"
    BY <1>9, <2>1 DEF Fresh
  <2>3. \A a \in Adrs : adr'[a] = IF a \in BootAdrs THEN Row("ACCEPTED") ELSE NoRow
    BY <1>6, <1>9 DEF Fresh, SeedWrites, Reconciled
  <2>4. successor[Target[c]] = NoVersion
    BY <1>9 DEF BaselineOK, Fresh
  <2>5. QED
    BY <1>1, <1>7, <1>8, <1>9, <2>1, <2>2, <2>3, <2>4 DEF Welcome, Fresh, Rolling, Accepted
<1>10. CASE Rolling(c) \/ Rolled(c)
  <2>1. First \in stored
    BY <1>10 DEF Rolling, Rolled
  <2>2. UNCHANGED <<stored, current, successor, acr, approver>>
    BY <1>6, <2>1 DEF SeedWrites, requests
  <2>3. \A a \in Adrs : adr'[a] = adr[a]
    BY <1>6, <1>10 DEF SeedWrites, Reconciled, Rolling, Rolled, Accepted, TypesOK, AdrRows
  <2>4. ChangeAdrs \subseteq Adrs
    BY Ids
  <2>5. CASE Rolling(c)
    BY <1>1, <1>7, <1>8, <2>2, <2>3, <2>5 DEF Welcome, Rolling, Accepted
  <2>6. CASE Rolled(c)
    BY <1>1, <1>7, <1>8, <2>2, <2>3, <2>4, <2>6 DEF Welcome, Rolled, Accepted
  <2>7. QED BY <1>10, <2>5, <2>6
<1>11. QED BY <1>9, <1>10 DEF Welcome

LEMMA ProposeIsWelcome ==
    ASSUME NEW c, OneChange(c), IInv, Welcome(c), ComposePropose(1)
    PROVE  Welcome(c)'
<1> USE OneChangeFacts DEF IInv
<1>1. boot.stage = "propose" /\ ~Fresh
  BY DEF ComposePropose, At, Fresh
<1>2. Row("ACCEPTED").status = "ACCEPTED" /\ Row("ACCEPTED").intact
      /\ Row("PROPOSED").status = "PROPOSED" /\ Row("PROPOSED").intact
  BY DEF Row
<1>3. ProposeAccepts(c)
  BY <1>1, <1>2 DEF Welcome, Rolling, Rolled, Accepted, ProposeAccepts, LinkedAdrUsable
<1>4. ProposeWrites(c) /\ boot' = At("approve", 1)
  BY <1>3 DEF ComposePropose, ComposeStep
<1>5. boot'.stage = "approve"
  BY <1>4 DEF At
<1>6. CASE acr[c] # "NONE"
  <2>1. UNCHANGED <<stored, current, successor, acr, approver, adr, risk>>
    BY <1>4, <1>6 DEF ProposeWrites, database, baseline, requests
  <2>2. QED
    BY <1>1, <1>5, <1>6, <2>1 DEF Welcome, Rolling, Rolled, Accepted, RisksAreOpen
<1>7. CASE acr[c] = "NONE"
  <2>1. Rolling(c)
    BY <1>1, <1>7 DEF Welcome, Rolled
  <2>2. /\ UNCHANGED <<stored, current, successor, approver, risk>>
        /\ acr'[c] = "PROPOSED"
        /\ adr' = [adr EXCEPT ![AdrOf[c]] = IF @ = NoRow THEN Row("PROPOSED") ELSE @]
    BY <1>4, <1>7 DEF ProposeWrites, baseline, TypesOK
  <2>3. /\ adr'[AdrOf[c]] = IF adr[AdrOf[c]] = NoRow THEN Row("PROPOSED") ELSE adr[AdrOf[c]]
        /\ \A a \in Adrs \ {AdrOf[c]} : adr'[a] = adr[a]
    BY <2>2 DEF TypesOK, AdrRows
  <2>4. Row("ACCEPTED") # NoRow
    BY DEF NoRow, Row
  <2>5. BootAdrs \subseteq Adrs
    BY Ids
  <2>6. QED
    BY <1>5, <1>7, <2>1, <2>2, <2>3, <2>4, <2>5 DEF Welcome, Rolling, Accepted, RisksAreOpen
<1>8. QED BY <1>6, <1>7

LEMMA ApproveIsWelcome ==
    ASSUME NEW c, OneChange(c), IInv, Welcome(c), ComposeApprove(1)
    PROVE  Welcome(c)'
<1> USE OneChangeFacts DEF IInv
<1>1. boot.stage = "approve" /\ ~Fresh
  BY DEF ComposeApprove, At, Fresh
<1>2. Row("ACCEPTED").status = "ACCEPTED" /\ Row("PROPOSED").status = "PROPOSED"
  BY DEF Row
<1>3. ApproveAccepts(c, DefaultApprover)
  BY <1>1, <1>2 DEF Welcome, Rolling, Rolled, Accepted, ApproveAccepts
<1>4. ApproveWrites(c, DefaultApprover) /\ boot' = At("apply", 1)
  BY <1>3 DEF ComposeApprove, ComposeStep
<1>5. boot'.stage = "apply"
  BY <1>4 DEF At
<1>6. CASE acr[c] # "PROPOSED"
  <2>1. UNCHANGED <<stored, current, successor, acr, approver, adr, risk>>
    BY <1>4, <1>6 DEF ApproveWrites, database, baseline, requests
  <2>2. QED
    BY <1>1, <1>5, <1>6, <2>1 DEF Welcome, Rolling, Rolled, Accepted, RisksAreOpen
<1>7. CASE acr[c] = "PROPOSED"
  <2>1. Rolling(c)
    BY <1>1, <1>7 DEF Welcome, Rolled
  <2>2. /\ UNCHANGED <<stored, current, successor, risk>>
        /\ acr'[c] = "APPROVED" /\ approver'[c] = DefaultApprover
        /\ adr' = WithStatus(adr, AdrOf[c], "ACCEPTED")
    BY <1>4, <1>7 DEF ApproveWrites, baseline, TypesOK
  <2>3. /\ adr'[AdrOf[c]] = [status |-> "ACCEPTED", intact |-> adr[AdrOf[c]].intact]
        /\ \A a \in Adrs \ {AdrOf[c]} : adr'[a] = adr[a]
    BY <2>2 DEF TypesOK, AdrRows, WithStatus
  <2>4. adr[AdrOf[c]].intact = TRUE
    BY <1>7, <2>1 DEF Rolling, Row
  <2>5. adr'[AdrOf[c]] = Row("ACCEPTED")
    BY <2>3, <2>4 DEF Row
  <2>6. BootAdrs \subseteq Adrs
    BY Ids
  <2>7. QED
    BY <1>5, <2>1, <2>2, <2>3, <2>5, <2>6 DEF Welcome, Rolling, Accepted, RisksAreOpen
<1>8. QED BY <1>6, <1>7

\* An apply after the change leaves everything but risks as it is.
LEMMA ApplyStaysRolled ==
    ASSUME NEW c, OneChange(c), IInv, Rolled(c), NEW r \in Requests,
           ApplyAccepts(r), ApplyWrites(r), boot'.stage # "refused"
    PROVE  Rolled(c)'
<1> USE OneChangeFacts DEF IInv
<1>1. \A a \in Adrs : adr'[a] = adr[a]
  BY DEF Rolled, Accepted, ApplyWrites, Reconciled, TypesOK, AdrRows
<1>2. UNCHANGED baseline
  <2>1. CASE acr[r] = "APPLIED"
    BY <2>1 DEF ApplyWrites
  <2>2. CASE acr[r] # "APPLIED"
    <3>1. Target[r] \in stored
      BY DEF ApplyAccepts, Rolled
    <3>2. AlreadyRolled(Source[r], Target[r])
      BY <2>2, <3>1 DEF ApplyAccepts, RollOver
    <3>3. Target[r] = Target[c] /\ Source[r] = First
      BY <3>2 DEF AlreadyRolled, Rolled
    <3>4. stored' = stored /\ current' = current /\ successor' = successor
      BY <2>2, <3>3 DEF ApplyWrites, Rolled, TypesOK
    <3>5. QED BY <3>4 DEF baseline
  <2>3. QED BY <2>1, <2>2
<1>3. acr'[c] = "APPLIED"
  BY DEF ApplyWrites, Rolled, TypesOK
<1>4. BootAdrs \cup ChangeAdrs \cup {AdrOf[c]} \subseteq Adrs
  BY Ids
<1>5. QED BY <1>1, <1>2, <1>3, <1>4 DEF Rolled, Accepted, baseline

LEMMA ApplyIsWelcome ==
    ASSUME NEW c, OneChange(c), IInv, Welcome(c), ComposeApply(1)
    PROVE  Welcome(c)'
<1> USE OneChangeFacts DEF IInv
<1>1. boot.stage = "apply" /\ ~Fresh
  BY DEF ComposeApply, At, Fresh
<1>2. BootAdrs \cup ChangeAdrs \cup {AdrOf[c]} \subseteq Adrs /\ RisksOf[c] \subseteq Risks
  BY Ids
<1>3. Accepted({AdrOf[c]}) /\ Reconcilable(adr, ChangeAdrs, "ACCEPTED")
  BY <1>1, <1>2 DEF Welcome, Rolling, Rolled, Accepted, Reconcilable, Matches
<1>4. Reconcilable(risk, RisksOf[c], "OPEN")
  BY <1>2 DEF Welcome, RisksAreOpen, Reconcilable, Matches
<1>5. adr[AdrOf[c]].status = "ACCEPTED"
  BY <1>3 DEF Accepted, Row
<1>6. CASE Rolling(c)
  <2>1. acr[c] = "APPROVED" /\ current = {First} /\ First \in Versions
    BY <1>1, <1>6, VersionNames DEF Rolling
  <2>2. RollOver(Source[c], Target[c])
    BY <1>6 DEF OneChange, Rolling, RollOver
  <2>3. ApplyAccepts(c)
    BY <1>3, <1>4, <1>5, <2>1, <2>2 DEF ApplyAccepts, OneChange
  <2>4. ApplyWrites(c) /\ boot' = At("up", 0)
    BY <2>3 DEF ComposeApply, ComposeStep
  <2>5. /\ stored' = {First, Target[c]} /\ current' = {Target[c]}
        /\ successor' = [successor EXCEPT ![First] = Target[c]]
        /\ risk' = Reconciled(risk, RisksOf[c], "OPEN")
        /\ acr'[c] = "APPLIED"
    BY <1>6, <2>1, <2>4 DEF ApplyWrites, OneChange, Rolling, TypesOK
  <2>6. successor'[First] = Target[c] /\ successor'[Target[c]] = NoVersion
    BY <1>6, <2>1, <2>5 DEF Rolling, TypesOK
  <2>7. \A a \in BootAdrs \cup ChangeAdrs \cup {AdrOf[c]} : adr'[a] = Row("ACCEPTED")
    BY <1>2, <1>3, <1>6, <2>4 DEF ApplyWrites, Rolling, Accepted, Reconciled, TypesOK, AdrRows
  <2>8. boot'.stage # "refused"
    BY <2>4 DEF At
  <2>9. QED
    BY <2>5, <2>6, <2>7, <2>8, RisksStayOpen DEF Welcome, Rolled, Accepted
<1>7. CASE Rolled(c)
  <2>1. StillApplied(c)
    BY <1>7 DEF OneChange, Rolled, StillApplied, AlreadyRolled
  <2>2. ApplyAccepts(c)
    BY <1>3, <1>5, <1>7, <2>1 DEF ApplyAccepts, OneChange, Rolled
  <2>3. ApplyWrites(c) /\ boot' = At("up", 0)
    BY <2>2 DEF ComposeApply, ComposeStep
  <2>4. risk' = risk
    BY <1>7, <2>3 DEF ApplyWrites, Rolled
  <2>5. QED
    BY <1>7, <2>2, <2>3, <2>4, ApplyStaysRolled DEF At, Welcome, RisksAreOpen
<1>8. QED BY <1>1, <1>6, <1>7 DEF Welcome

\* While the process is up the change is applied, and no request can undo that.
LEMMA LifecycleIsWelcome ==
    ASSUME NEW c, OneChange(c), IInv, Welcome(c), Lifecycle
    PROVE  Welcome(c)'
<1> USE OneChangeFacts DEF IInv
<1>1. boot.stage = "up" /\ boot' = boot
  BY DEF Lifecycle, Propose, Approve, Reject, Apply, Operator
<1>2. Rolled(c) /\ RisksAreOpen
  BY <1>1 DEF Welcome, Fresh, Rolling
<1>3. BootAdrs \cup ChangeAdrs \cup {AdrOf[c]} \subseteq Adrs
  BY Ids
<1>4. Row("ACCEPTED").status = "ACCEPTED" /\ Row("ACCEPTED") # NoRow
      /\ Row("ACCEPTED") = [status |-> "ACCEPTED", intact |-> TRUE]
  BY DEF NoRow, Row
<1>5. ASSUME UNCHANGED <<baseline, risk>>, acr'[c] = "APPLIED",
             \A a \in Adrs : adr[a] = Row("ACCEPTED") => adr'[a] = Row("ACCEPTED")
      PROVE  Welcome(c)'
  BY <1>1, <1>2, <1>3, <1>5 DEF Welcome, Rolled, Accepted, RisksAreOpen, baseline
<1>6. CASE UNCHANGED database
  BY <1>2, <1>5, <1>6 DEF database, requests, baseline, Rolled
<1>7. ASSUME NEW r \in Requests, ProposeAccepts(r), ProposeWrites(r) PROVE Welcome(c)'
  <2>1. CASE acr[r] # "NONE"
    BY <1>6, <1>7, <2>1 DEF ProposeWrites
  <2>2. CASE acr[r] = "NONE"
    <3>1. r # c /\ acr' = [acr EXCEPT ![r] = "PROPOSED"] /\ UNCHANGED <<baseline, risk>>
          /\ adr' = [adr EXCEPT ![AdrOf[r]] = IF @ = NoRow THEN Row("PROPOSED") ELSE @]
      BY <1>2, <1>7, <2>2 DEF ProposeWrites, Rolled
    <3>2. acr'[c] = "APPLIED"
      BY <1>2, <3>1 DEF Rolled, TypesOK
    <3>3. \A a \in Adrs : adr[a] = Row("ACCEPTED") => adr'[a] = Row("ACCEPTED")
      BY <1>4, <3>1 DEF TypesOK, AdrRows
    <3>4. QED BY <1>5, <3>1, <3>2, <3>3
  <2>3. QED BY <2>1, <2>2
<1>8. ASSUME NEW r \in Requests, NEW by \in Approvers, ApproveAccepts(r, by), ApproveWrites(r, by)
      PROVE  Welcome(c)'
  <2>1. CASE acr[r] # "PROPOSED"
    BY <1>6, <1>8, <2>1 DEF ApproveWrites
  <2>2. CASE acr[r] = "PROPOSED"
    <3>1. r # c /\ acr' = [acr EXCEPT ![r] = "APPROVED"] /\ UNCHANGED <<baseline, risk>>
          /\ adr' = WithStatus(adr, AdrOf[r], "ACCEPTED")
      BY <1>2, <1>8, <2>2 DEF ApproveWrites, Rolled
    <3>2. acr'[c] = "APPLIED"
      BY <1>2, <3>1 DEF Rolled, TypesOK
    <3>3. \A a \in Adrs : adr[a] = Row("ACCEPTED") => adr'[a] = Row("ACCEPTED")
      BY <1>4, <3>1 DEF TypesOK, AdrRows, WithStatus
    <3>4. QED BY <1>5, <3>1, <3>2, <3>3
  <2>3. QED BY <2>1, <2>2
<1>9. ASSUME NEW r \in Requests, RejectAccepts(r), RejectWrites(r) PROVE Welcome(c)'
  <2>1. /\ r # c /\ acr' = [acr EXCEPT ![r] = "REJECTED"] /\ UNCHANGED <<baseline, risk>>
        /\ adr' = WithStatus(adr, AdrOf[r], "REJECTED")
        /\ adr[AdrOf[r]].status \in {"PROPOSED", "REJECTED"}
    BY <1>2, <1>9 DEF RejectAccepts, RejectWrites, Rolled
  <2>2. acr'[c] = "APPLIED"
    BY <1>2, <2>1 DEF Rolled, TypesOK
  <2>3. \A a \in Adrs \ {AdrOf[r]} : adr'[a] = adr[a]
    BY <2>1 DEF TypesOK, AdrRows, WithStatus
  <2>4. adr[AdrOf[r]] # Row("ACCEPTED")
    BY <1>4, <2>1
  <2>5. QED BY <1>5, <2>1, <2>2, <2>3, <2>4
<1>10. ASSUME NEW r \in Requests, ApplyAccepts(r), ApplyWrites(r) PROVE Welcome(c)'
  <2>1. Rolled(c)'
    BY <1>1, <1>2, <1>10, ApplyStaysRolled
  <2>2. risk' = risk \/ risk' = Reconciled(risk, RisksOf[r], "OPEN")
    BY <1>10 DEF ApplyWrites
  <2>3. QED BY <1>2, <2>1, <2>2, RisksStayOpen DEF Welcome
<1>11. QED
  BY <1>7, <1>8, <1>9, <1>10 DEF Lifecycle, Propose, Approve, Reject, Apply

\* With one declared change of the seeded version and rows that only the
\* evolution touches, no start is ever refused: not by a start that was cut
\* short anywhere, and not by any request of an operator (compose()).
THEOREM StartsAreAccepted ==
    ASSUME NEW CONSTANT c, OneChange(c)
    PROVE  Spec => []NeverRefused
<1>1. Init => Welcome(c)
  BY VersionNames DEF Init, Welcome, Fresh, RisksAreOpen, At
<1>2. ASSUME IInv, Welcome(c), [Next]_vars PROVE Welcome(c)'
  <2>1. CASE UNCHANGED database /\ boot'.stage \in {"down", "seed"}
    BY <1>2, <2>1
       DEF Welcome, Fresh, Rolling, Rolled, Accepted, RisksAreOpen, database, baseline, requests
  <2>2. CASE Start \/ Stop
    BY <2>1, <2>2 DEF Start, Stop, At
  <2>3. CASE UNCHANGED <<database, boot>>
    BY <1>2, <2>3
       DEF Welcome, Fresh, Rolling, Rolled, Accepted, RisksAreOpen, database, baseline, requests
  <2>4. CASE Compose
    <3>1. \A i \in DOMAIN Changes : i = 1
      BY <1>2, OneChangeFacts DEF IInv
    <3>2. QED
      BY <1>2, <2>4, <3>1, SeedIsWelcome, ProposeIsWelcome, ApproveIsWelcome, ApplyIsWelcome
         DEF Compose
  <2>5. ~Manage
    BY DEF Manage, OneChange
  <2>6. QED
    BY <1>2, <2>2, <2>3, <2>4, <2>5, LifecycleIsWelcome DEF Next, Upgrade, vars
<1>3. Welcome(c) => NeverRefused
  BY DEF Welcome, Fresh, Rolling, Rolled, NeverRefused
<1>4. QED BY <1>1, <1>2, <1>3, IInvHolds, PTL DEF Spec

-----------------------------------------------------------------------------
(* The implementation of BaselineHistory.                                  *)

\* A version is retired in the history iff its row has a successor.
LEMMA RetiredRows ==
    \A v : v \in History!Retired <=> v \in Versions /\ successor[v] # NoVersion
<1>1. History!Retired = {link[1] : link \in Links}
  BY DEF History!Retired, Links
<1>2. ASSUME NEW v \in Versions, successor[v] # NoVersion
      PROVE  v \in {link[1] : link \in Links}
  <2>1. <<v, successor[v]>> \in Links
    BY <1>2 DEF Links
  <2>2. <<v, successor[v]>>[1] = v
    OBVIOUS
  <2>3. QED BY <2>1, <2>2
<1>3. ASSUME NEW link \in Links
      PROVE  link[1] \in Versions /\ successor[link[1]] # NoVersion
  BY <1>3 DEF Links
<1>4. QED BY <1>1, <1>2, <1>3

LEMMA BaselineUnchangedMaps ==
    ASSUME UNCHANGED baseline
    PROVE  CurrentVersion' = CurrentVersion /\ Links' = Links
BY DEF baseline, CurrentVersion, Links

LEMMA RollOverMaps ==
    ASSUME IInv, NEW r \in Requests, RollsOver(Source[r], Target[r])
    PROVE  History!Supersede(Target[r])
<1> DEFINE from == Source[r]
           to == Target[r]
<1>1. from \in Versions /\ to \in Versions /\ from # to
      /\ to # NoVersion /\ from # NoVersion
  BY RequestShape, VersionNames
<1>2. CurrentVersion = from /\ CurrentVersion' = to
  BY DEF CurrentVersion, RollsOver
<1>3. to \notin History!Retired
  BY <1>1, RetiredRows DEF IInv, BaselineOK, RollsOver
<1>4. successor[from] = NoVersion
  BY DEF IInv, BaselineOK, OneHead, RollsOver
<1>5. /\ successor'[from] = to
      /\ \A w \in Versions : w # from => successor'[w] = successor[w]
  BY <1>1 DEF IInv, TypesOK, RollsOver
<1>6. Links' = Links \cup {<<from, to>>}
  <2>1. ASSUME NEW link \in Links' PROVE link \in Links \cup {<<from, to>>}
    <3>1. PICK v \in Versions : successor'[v] # NoVersion /\ link = <<v, successor'[v]>>
      BY <2>1 DEF Links
    <3>2. QED BY <1>5, <3>1 DEF Links
  <2>2. ASSUME NEW link \in Links PROVE link \in Links'
    <3>1. PICK v \in Versions : successor[v] # NoVersion /\ link = <<v, successor[v]>>
      BY <2>2 DEF Links
    <3>2. v # from
      BY <1>4, <3>1
    <3>3. successor'[v] # NoVersion /\ link = <<v, successor'[v]>>
      BY <1>5, <3>1, <3>2
    <3>4. QED BY <3>1, <3>3 DEF Links
  <2>3. <<from, to>> \in Links'
    BY <1>1, <1>5 DEF Links
  <2>4. QED BY <2>1, <2>2, <2>3
<1>7. QED
  BY <1>1, <1>2, <1>3, <1>6 DEF History!Supersede

LEMMA FirstSeedMaps ==
    ASSUME IInv, FirstSeed
    PROVE  History!Seed
<1>1. CurrentVersion = NoVersion /\ CurrentVersion' = First
  BY DEF CurrentVersion, FirstSeed, IInv, BaselineOK
<1>2. Links' = Links
  BY DEF Links, FirstSeed
<1>3. QED BY <1>1, <1>2 DEF History!Seed

\* The stored versions behave as a BaselineHistory: whatever is declared,
\* requested or interrupted, a change supersedes the head and nothing else.
THEOREM ImplementsHistory == Spec => HistorySpec
<1>1. Init => History!Init
  <2>1. SUFFICES ASSUME Init PROVE History!Init
    OBVIOUS
  <2>2. Links = {}
    BY <2>1 DEF Init, Links
  <2>3. CurrentVersion = NoVersion
    BY <2>1 DEF Init, CurrentVersion
  <2>4. QED BY <2>2, <2>3 DEF History!Init
<1>2. IInv /\ [Next]_vars => [History!Next]_<<CurrentVersion, Links>>
  <2>1. SUFFICES ASSUME IInv, [Next]_vars PROVE [History!Next]_<<CurrentVersion, Links>>
    OBVIOUS
  <2>2. CASE UNCHANGED baseline
    BY <2>2, BaselineUnchangedMaps
  <2>3. CASE FirstSeed
    BY <2>1, <2>3, FirstSeedMaps DEF History!Next
  <2>4. ASSUME NEW r \in Requests, RollsOver(Source[r], Target[r])
        PROVE  History!Next
    <3>1. Target[r] \in Versions
      BY RequestShape
    <3>2. QED BY <2>1, <2>4, <3>1, RollOverMaps DEF History!Next
  <2>5. DatabaseStep
    BY <2>1, NextIsADatabaseStep DEF IInv
  <2>6. QED BY <2>1, <2>2, <2>3, <2>4, <2>5, DatabaseStepMovesBaseline
<1>3. QED BY <1>1, <1>2, IInvHolds, PTL DEF Spec, HistorySpec, History!Spec

=============================================================================
