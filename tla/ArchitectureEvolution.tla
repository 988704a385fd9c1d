------------------------ MODULE ArchitectureEvolution ------------------------
(***************************************************************************)
(* The persisted architecture baseline and the change requests that move   *)
(* it: ArchitectureBootstrap.seed, ArchitectureEvolution.propose, approve, *)
(* reject and apply over ArchitectureVersioning.introduce, ADRManager and  *)
(* RiskManager, and compose(), which replays the declared changes at every *)
(* start.                                                                  *)
(*                                                                         *)
(* Every operation is one transaction, so one step; compose() is a series  *)
(* of them, and a crash may come between any two.  An operation that       *)
(* raises rolls back: a human sees nothing change, compose() gives up.     *)
(* The content of a row is abstracted to whether it equals the canonical   *)
(* specification; a version's content never changes at all.                *)
(***************************************************************************)
EXTENDS Naturals, Sequences

CONSTANTS
    Versions, First, NoVersion,
    Requests,          \* change request ids
    Source, Target,    \* request -> the versions it moves between
    AdrOf,             \* request -> its reason record
    RisksOf,           \* request -> the risks it registers when applied
    SoundRequests,     \* requests whose rule_ids equal their target's rules
    Declared,          \* release -> DECLARED_CHANGES, oldest first
    BootAdrs, BootRisks,    \* BOOTSTRAP_ADRS, BOOTSTRAP_RISKS
    ChangeAdrs,             \* the adr_specs of ArchitectureVersioning
    ManagedAdrs, ManagedRisks,  \* what the operator changes through managers
    Approvers, DefaultApprover

Adrs == BootAdrs \cup ChangeAdrs \cup {AdrOf[r] : r \in Requests} \cup ManagedAdrs
Risks == BootRisks \cup ManagedRisks \cup UNION {RisksOf[r] : r \in Requests}
Nobody == "NONE"

ACRStatus == {"PROPOSED", "APPROVED", "APPLIED", "REJECTED"}
ADRStatus == {"PROPOSED", "ACCEPTED", "REJECTED", "DEPRECATED", "SUPERSEDED"}
RiskStatus == {"OPEN", "MITIGATED", "ACCEPTED", "CLOSED"}

ASSUME VersionNames == First \in Versions /\ NoVersion \notin Versions
ASSUME RequestShape ==
    /\ Source \in [Requests -> Versions]
    /\ Target \in [Requests -> Versions]
    /\ \A r \in Requests : Source[r] # Target[r]
    /\ SoundRequests \subseteq Requests
    /\ Declared \in Seq(Seq(Requests)) /\ Declared # <<>>
    /\ DefaultApprover \in Approvers /\ Nobody \notin Approvers

VARIABLES
    current,     \* versions with is_current
    successor,   \* version -> superseded_by
    stored,      \* versions with a row
    acr,         \* request -> status, or "NONE"
    approver,    \* request -> approved_by
    adr,         \* ADR id -> [status, intact]
    risk,        \* risk id -> [status, intact]
    release,     \* which release of the code is installed
    boot         \* where the process is: stage and index of a declared change

baseline == <<current, successor, stored>>
requests == <<acr, approver>>
database == <<baseline, requests, adr, risk>>
vars == <<database, release, boot>>

Row(status) == [status |-> status, intact |-> TRUE]
NoRow == Row("NONE")

Boot == [stage : {"down", "seed", "propose", "approve", "apply", "up", "refused"},
         change : Nat]
At(stage, i) == [stage |-> stage, change |-> i]

Changes == Declared[release]
Canonical == {First} \cup {Target[Changes[i]] : i \in DOMAIN Changes}
Expected == IF Changes = <<>> THEN First ELSE Target[Changes[Len(Changes)]]

Init ==
    /\ current = {}
    /\ successor = [v \in Versions |-> NoVersion]
    /\ stored = {}
    /\ acr = [r \in Requests |-> "NONE"]
    /\ approver = [r \in Requests |-> Nobody]
    /\ adr = [a \in Adrs |-> NoRow]
    /\ risk = [k \in Risks |-> NoRow]
    /\ release = 1
    /\ boot = At("down", 0)

-----------------------------------------------------------------------------
(* Rows against their specification.                                       *)

Matches(row, status) == row = Row(status)

\* Absent rows are created in the given status, present ones must match it.
Reconcilable(rows, ids, status) ==
    \A id \in ids : rows[id] = NoRow \/ Matches(rows[id], status)
Reconciled(rows, ids, status) ==
    [id \in DOMAIN rows |-> IF id \in ids THEN Row(status) ELSE rows[id]]

WithStatus(rows, id, status) ==
    [rows EXCEPT ![id] = [status |-> status, intact |-> @.intact]]

\* _verify_linked_adr
LinkedAdrUsable(a) ==
    /\ adr[a].status \notin {"NONE", "REJECTED", "SUPERSEDED"}
    /\ adr[a].intact

-----------------------------------------------------------------------------
(* ArchitectureBootstrap.seed                                              *)

\* _reconcile_version: create the first baseline, find it current, or find it
\* superseded by the one that is current now.
MutantVersionReconcilable ==
    \/ First \notin stored /\ current = {}
    \/ First \in stored /\ current = {First}
VersionReconcilable ==
    \/ First \notin stored /\ current = {}
    \/ First \in stored /\ current = {First}
    \/ First \in stored \ current /\ successor[First] \in current

SeedAccepts ==
    /\ VersionReconcilable
    /\ Reconcilable(adr, BootAdrs, "ACCEPTED")
    /\ Reconcilable(risk, BootRisks, "OPEN")

SeedWrites ==
    /\ stored' = stored \cup {First}
    /\ current' = IF First \in stored THEN current ELSE {First}
    /\ adr' = Reconciled(adr, BootAdrs, "ACCEPTED")
    /\ risk' = Reconciled(risk, BootRisks, "OPEN")
    /\ UNCHANGED <<successor, requests>>

-----------------------------------------------------------------------------
(* The change-request lifecycle: what is accepted, and what it writes.     *)

ProposeAccepts(r) ==
    \/ acr[r] = "NONE" /\ adr[AdrOf[r]] = NoRow
    \/ LinkedAdrUsable(AdrOf[r])

ProposeWrites(r) ==
    IF acr[r] = "NONE"
    THEN /\ acr' = [acr EXCEPT ![r] = "PROPOSED"]
         /\ adr' = [adr EXCEPT ![AdrOf[r]] = IF @ = NoRow THEN Row("PROPOSED") ELSE @]
         /\ UNCHANGED <<baseline, approver, risk>>
    ELSE UNCHANGED database

MutantApproveAccepts(r, by) ==
    /\ acr[r] = "PROPOSED"
    /\ adr[AdrOf[r]].status \in {"PROPOSED", "ACCEPTED"}
ApproveAccepts(r, by) ==
    \/ acr[r] = "APPLIED"
    \/ acr[r] = "APPROVED" /\ approver[r] = by
    \/ acr[r] = "PROPOSED" /\ adr[AdrOf[r]].status \in {"PROPOSED", "ACCEPTED"}

ApproveWrites(r, by) ==
    IF acr[r] = "PROPOSED"
    THEN /\ acr' = [acr EXCEPT ![r] = "APPROVED"]
         /\ approver' = [approver EXCEPT ![r] = by]
         /\ adr' = WithStatus(adr, AdrOf[r], "ACCEPTED")
         /\ UNCHANGED <<baseline, risk>>
    ELSE UNCHANGED database

\* A repeated rejection is a no-op and left out.
MutantRejectSharedReason(r) == acr[r] = "PROPOSED"
MutantRejectApproved(r) == acr[r] \in {"PROPOSED", "APPROVED"}
RejectAccepts(r) ==
    /\ acr[r] = "PROPOSED"
    /\ adr[AdrOf[r]].status \in {"PROPOSED", "REJECTED"}

RejectWrites(r) ==
    /\ acr' = [acr EXCEPT ![r] = "REJECTED"]
    /\ adr' = WithStatus(adr, AdrOf[r], "REJECTED")
    /\ UNCHANGED <<baseline, approver, risk>>

\* introduce: either the roll-over is possible, or it has already happened.
MutantRollOver(from, to) == to \notin stored /\ from \in stored
RollOver(from, to) == to \notin stored /\ from \in current /\ successor[from] = NoVersion
AlreadyRolled(from, to) ==
    /\ to \in current /\ successor[to] = NoVersion
    /\ from \in stored \ current /\ successor[from] = to

\* _verify_applied: a repeated apply only proves that the change still holds.
StillApplied(r) ==
    /\ current = {Target[r]}
    /\ AlreadyRolled(Source[r], Target[r])

MutantUndeclaredTarget(r) ==
    /\ r \in SoundRequests
    /\ adr[AdrOf[r]].status = "ACCEPTED"
    /\ acr[r] = "APPROVED"
    /\ RollOver(Source[r], Target[r])
ApplyAccepts(r) ==
    /\ Target[r] \in Canonical
    /\ r \in SoundRequests
    /\ adr[AdrOf[r]].status = "ACCEPTED"
    /\ Reconcilable(adr, ChangeAdrs, "ACCEPTED")
    /\ \/ acr[r] = "APPLIED" /\ StillApplied(r)
       \/ /\ acr[r] = "APPROVED"
          /\ \E v \in Versions : current = {v}
          /\ RollOver(Source[r], Target[r]) \/ AlreadyRolled(Source[r], Target[r])
          /\ Reconcilable(risk, RisksOf[r], "OPEN")

MutantKeepPredecessor(r) ==
    /\ stored' = stored \cup {Target[r]}
    /\ current' = current \cup {Target[r]}
    /\ acr' = [acr EXCEPT ![r] = "APPLIED"]
    /\ UNCHANGED <<successor, approver, adr, risk>>
MutantRetireOnly(r) ==
    /\ current' = {Target[r]}
    /\ acr' = [acr EXCEPT ![r] = "APPLIED"]
    /\ UNCHANGED <<stored, successor, approver, adr, risk>>
MutantReopenRisks(r) ==
    /\ risk' = Reconciled(risk, RisksOf[r], "OPEN")
    /\ stored' = stored \cup {Target[r]}
    /\ current' = {Target[r]}
    /\ successor' = [successor EXCEPT ![Source[r]] = Target[r]]
    /\ acr' = [acr EXCEPT ![r] = "APPLIED"]
    /\ UNCHANGED <<approver, adr>>
MutantStayApproved(r) ==
    /\ adr' = Reconciled(adr, ChangeAdrs, "ACCEPTED")
    /\ stored' = stored \cup {Target[r]}
    /\ current' = {Target[r]}
    /\ successor' = [successor EXCEPT ![Source[r]] = Target[r]]
    /\ risk' = Reconciled(risk, RisksOf[r], "OPEN")
    /\ UNCHANGED requests
ApplyWrites(r) ==
    /\ adr' = Reconciled(adr, ChangeAdrs, "ACCEPTED")
    /\ UNCHANGED approver
    /\ IF acr[r] = "APPLIED"
       THEN UNCHANGED <<baseline, acr, risk>>
       ELSE /\ stored' = stored \cup {Target[r]}
            /\ current' = {Target[r]}
            /\ successor' = [successor EXCEPT ![Source[r]] = Target[r]]
            /\ risk' = Reconciled(risk, RisksOf[r], "OPEN")
            /\ acr' = [acr EXCEPT ![r] = "APPLIED"]

-----------------------------------------------------------------------------
(* compose(): seed, then propose, approve and apply each declared change.  *)

Start ==
    /\ boot.stage = "down"
    /\ boot' = At("seed", 0)
    /\ UNCHANGED <<database, release>>

After(i) == IF i < Len(Changes) THEN At("propose", i + 1) ELSE At("up", 0)

\* One transaction of compose(); if it raises, compose() raises with it.
ComposeStep(accepts, writes, then) ==
    /\ \/ accepts /\ writes /\ boot' = then
       \/ ~accepts /\ UNCHANGED database /\ boot' = At("refused", 0)
    /\ UNCHANGED release

ComposeSeed ==
    /\ boot.stage = "seed"
    /\ ComposeStep(SeedAccepts, SeedWrites, After(0))

ComposePropose(i) ==
    /\ boot = At("propose", i)
    /\ ComposeStep(ProposeAccepts(Changes[i]), ProposeWrites(Changes[i]), At("approve", i))

ComposeApprove(i) ==
    /\ boot = At("approve", i)
    /\ ComposeStep(ApproveAccepts(Changes[i], DefaultApprover),
                   ApproveWrites(Changes[i], DefaultApprover), At("apply", i))

ComposeApply(i) ==
    /\ boot = At("apply", i)
    /\ ComposeStep(ApplyAccepts(Changes[i]), ApplyWrites(Changes[i]), After(i))

Compose ==
    \/ ComposeSeed
    \/ \E i \in DOMAIN Changes : ComposePropose(i) \/ ComposeApprove(i) \/ ComposeApply(i)

\* The process ends: a crash in the middle of compose(), or any later exit.
Stop ==
    /\ boot.stage # "down"
    /\ boot' = At("down", 0)
    /\ UNCHANGED <<database, release>>

Upgrade ==
    /\ boot.stage = "down"
    /\ release < Len(Declared)
    /\ release' = release + 1
    /\ UNCHANGED <<database, boot>>

-----------------------------------------------------------------------------
(* The operator, through composition.evolution and the two managers.       *)

Operator == boot.stage = "up" /\ UNCHANGED <<release, boot>>

Propose(r) == Operator /\ ProposeAccepts(r) /\ ProposeWrites(r)
Approve(r, by) == Operator /\ ApproveAccepts(r, by) /\ ApproveWrites(r, by)
Reject(r) == Operator /\ RejectAccepts(r) /\ RejectWrites(r)
Apply(r) == Operator /\ ApplyAccepts(r) /\ ApplyWrites(r)

ADR_TRANSITIONS ==
    {<<"PROPOSED", "ACCEPTED">>, <<"PROPOSED", "REJECTED">>,
     <<"ACCEPTED", "DEPRECATED">>,
     <<"ACCEPTED", "SUPERSEDED">>, <<"DEPRECATED", "SUPERSEDED">>}

ProposeAdr(a) ==
    /\ adr[a] = NoRow
    /\ \E intact \in BOOLEAN :
          adr' = [adr EXCEPT ![a] = [status |-> "PROPOSED", intact |-> intact]]
    /\ UNCHANGED <<baseline, requests, risk>>

\* accept, reject and deprecate
ChangeAdr(a) ==
    /\ \E to \in ADRStatus \ {"SUPERSEDED"} :
          /\ <<adr[a].status, to>> \in ADR_TRANSITIONS
          /\ adr' = WithStatus(adr, a, to)
    /\ UNCHANGED <<baseline, requests, risk>>

\* amend changes the content and leaves the status alone.
AmendAdr(a) ==
    /\ adr[a] # NoRow
    /\ \E intact \in BOOLEAN : adr' = [adr EXCEPT ![a] = [status |-> @.status, intact |-> intact]]
    /\ UNCHANGED <<baseline, requests, risk>>

\* supersede accepts a successor that is still only proposed.
SupersedeAdr(a, by) ==
    /\ a # by
    /\ <<adr[a].status, "SUPERSEDED">> \in ADR_TRANSITIONS
    /\ adr[by].status \in {"PROPOSED", "ACCEPTED"}
    /\ adr' = WithStatus(WithStatus(adr, a, "SUPERSEDED"), by, "ACCEPTED")
    /\ UNCHANGED <<baseline, requests, risk>>

RISK_TRANSITIONS ==
    {<<"OPEN", "MITIGATED">>, <<"OPEN", "ACCEPTED">>, <<"OPEN", "CLOSED">>,
     <<"MITIGATED", "CLOSED">>, <<"ACCEPTED", "CLOSED">>, <<"CLOSED", "OPEN">>}

RegisterRisk(k) ==
    /\ risk[k] = NoRow
    /\ \E intact \in BOOLEAN :
          risk' = [risk EXCEPT ![k] = [status |-> "OPEN", intact |-> intact]]
    /\ UNCHANGED <<baseline, requests, adr>>

ChangeRisk(k) ==
    /\ \E to \in RiskStatus :
          /\ <<risk[k].status, to>> \in RISK_TRANSITIONS
          /\ risk' = WithStatus(risk, k, to)
    /\ UNCHANGED <<baseline, requests, adr>>

UpdateRisk(k) ==
    /\ risk[k] # NoRow
    /\ \E intact \in BOOLEAN : risk' = [risk EXCEPT ![k] = [status |-> @.status, intact |-> intact]]
    /\ UNCHANGED <<baseline, requests, adr>>

Manage ==
    /\ Operator
    /\ \/ \E a \in ManagedAdrs :
            \/ ProposeAdr(a) \/ ChangeAdr(a) \/ AmendAdr(a)
            \/ \E by \in ManagedAdrs : SupersedeAdr(a, by)
       \/ \E k \in ManagedRisks : RegisterRisk(k) \/ ChangeRisk(k) \/ UpdateRisk(k)

Lifecycle ==
    \E r \in Requests :
        \/ Propose(r) \/ Reject(r) \/ Apply(r)
        \/ \E by \in Approvers : Approve(r, by)

Next == Start \/ Compose \/ Stop \/ Upgrade \/ Lifecycle \/ Manage

Spec == Init /\ [][Next]_vars

\* Whoever runs the assistant restarts it after a crash, and a start is not
\* always cut short at the same transaction.
Fairness ==
    /\ WF_vars(Start)
    /\ SF_vars(ComposeSeed)
    /\ \A i \in 1 .. Len(Declared[Len(Declared)]) :
          /\ SF_vars(ComposePropose(i))
          /\ SF_vars(ComposeApprove(i))
          /\ SF_vars(ComposeApply(i))

FairSpec == Spec /\ Fairness

-----------------------------------------------------------------------------
(* Properties.                                                             *)

\* Type correctness: every row has a status of its lifecycle.
TypeOK ==
    /\ current \subseteq stored /\ stored \subseteq Versions
    /\ successor \in [Versions -> Versions \cup {NoVersion}]
    /\ acr \in [Requests -> ACRStatus \cup {"NONE"}]
    /\ approver \in [Requests -> Approvers \cup {Nobody}]
    /\ adr \in [Adrs -> [status : ADRStatus \cup {"NONE"}, intact : BOOLEAN]]
    /\ risk \in [Risks -> [status : RiskStatus \cup {"NONE"}, intact : BOOLEAN]]
    /\ release \in 1 .. Len(Declared)
    /\ boot \in Boot

\* Once seeded there is exactly one current baseline, and it is the only
\* stored version without a successor (_assert_single_current).
OneCurrentBaseline ==
    stored # {} =>
        \E v \in Versions :
            /\ current = {v}
            /\ \A w \in stored : successor[w] = NoVersion <=> w = v

\* Every baseline but the first was requested: some APPLIED request made its
\* predecessor point to it; and the record of an APPLIED request stays true.
VersionsAreRequested ==
    /\ \A v \in stored \ {First} :
          \E r \in Requests :
              acr[r] = "APPLIED" /\ Target[r] = v /\ successor[Source[r]] = v
    /\ \A r \in Requests :
          acr[r] = "APPLIED" => successor[Source[r]] = Target[r]

\* The decision on a request and the status of its reason record agree, also
\* when requests share one: REJECTED with REJECTED, and an approval only with
\* an ADR that was accepted and may since have been retired.
ReasonFollowsDecision ==
    \A r \in Requests :
        /\ acr[r] = "REJECTED" => adr[AdrOf[r]].status = "REJECTED"
        /\ acr[r] \in {"APPROVED", "APPLIED"} =>
              adr[AdrOf[r]].status \in {"ACCEPTED", "DEPRECATED", "SUPERSEDED"}

\* When compose() has succeeded, the single current baseline is the one this
\* release validates against, so the realization gate can render a verdict
\* (require_authoritative_baseline).
GateHasBaseline == boot.stage = "up" => current = {Expected}

\* APPLIED and REJECTED are terminal, and an approval is never withdrawn or
\* reassigned: a decided request is never revived.
DecisionsAreFinal ==
    [][\A r \in Requests :
         /\ acr[r] \in {"APPLIED", "REJECTED"} => acr'[r] = acr[r]
         /\ acr[r] = "APPROVED" =>
               /\ acr'[r] \in {"APPROVED", "APPLIED"}
               /\ approver'[r] = approver[r]]_vars

\* A start after everything declared was applied writes nothing: propose,
\* approve and apply are idempotent, and so is seed.
RestartChangesNothing ==
    [][boot.stage # "up" /\ (\A i \in DOMAIN Changes : acr[Changes[i]] = "APPLIED")
         /\ stored # {}
         => UNCHANGED database]_vars

\* The stored versions are a BaselineHistory: nothing forks, rewrites or
\* revives a superseded baseline.
CurrentVersion == IF current = {} THEN NoVersion ELSE CHOOSE v \in current : TRUE
Links == {<<v, successor[v]>> : v \in {w \in Versions : successor[w] # NoVersion}}
History == INSTANCE BaselineHistory WITH head <- CurrentVersion, superseded <- Links
HistorySpec == History!Spec

\* compose() is never refused by what an earlier run has stored.
NeverRefused == boot.stage # "refused"

\* A restart always brings the assistant up again, however often it crashes.
ComposeCompletes == []<>(boot.stage = "up")

=============================================================================
