----------------------------- MODULE StoreScopes -----------------------------
(***************************************************************************)
(* What the services write, and in which nesting of transaction() scopes.  *)
(* A row is a table with the key its ON CONFLICT clause names: an upsert   *)
(* replaces everything else, so the columns stay out.  A scope is the      *)
(* sequence of instructions its block runs when nothing is present yet.    *)
(***************************************************************************)
EXTENDS Naturals, Sequences, FiniteSets

\* The aggregates, one repository each.
ProjectRow(name) == <<"project", name>>
StepRow(step) == <<"steps", step>>
TaskRow(step, attempt) == <<"tasks", <<step, attempt>>>>
VersionRow(version) == <<"architecture_versions", version>>
RequestRow(request) == <<"architecture_change_requests", request>>
AdrRow(adr) == <<"adrs", adr>>
RiskRow(risk) == <<"risks", risk>>
FindingRow(finding) == <<"findings", finding>>
DecisionRow(step, attempt) == <<"decisions", <<step, attempt>>>>

\* The instructions of a block.
Enter == <<"enter">>
Exit == <<"exit">>
Put(row) == <<"put", row>>
Audit == <<"audit">>
Scope(body) == <<Enter>> \o body \o <<Exit>>

\* A body that is run once for each member of a sequence.
ForEach(items, Body(_)) ==
    LET run[n \in 0..Len(items)] ==
            IF n = 0 THEN << >> ELSE run[n - 1] \o Body(items[n])
    IN run[Len(items)]

\* How many scopes are open before each instruction.
Levels(script) ==
    [i \in 1..Len(script) |->
        Cardinality({j \in 1..(i - 1) : script[j] = Enter})
          - Cardinality({j \in 1..(i - 1) : script[j] = Exit})]

-----------------------------------------------------------------------------
\* What the migrations create, a statement for each.
InitialSchema == <<"project", "steps", "tasks", "architecture_versions", "adrs",
                   "risks", "findings", "decisions">>
AuditTrail == <<"audit_entries", "idx_audit_entries_entity">>
ChangeRequests == <<"architecture_change_requests", "idx_change_requests_status">>
CostRecords == <<"cost_records", "idx_cost_records_created_at">>

MIGRATIONS == <<InitialSchema, AuditTrail, ChangeRequests, CostRecords>>

-----------------------------------------------------------------------------
\* The loop, its approvals and its overrides.
Transition(step, attempt) ==
    Scope(<<Put(StepRow(step)), Put(TaskRow(step, attempt)), Audit>>)

StepTransition(step) == Scope(<<Put(StepRow(step)), Audit>>)

GateRecord(step, attempt, findings) ==
    Scope(ForEach(findings, LAMBDA f : <<Put(FindingRow(f))>>)
            \o <<Put(DecisionRow(step, attempt))>>)

Review(step, attempt, findings) ==
    Scope(GateRecord(step, attempt, findings) \o Transition(step, attempt))

Approval(step, attempt) ==
    Scope(<<Put(StepRow(step)), Put(TaskRow(step, attempt)), Audit>>)

Rejection(step) == Scope(<<Put(StepRow(step)), Audit>>)

StepOverride(step) == Scope(<<Put(StepRow(step)), Audit>>)

ProjectOverride(name) == Scope(<<Put(ProjectRow(name)), Audit>>)

-----------------------------------------------------------------------------
\* The managers, the bootstrap and the evolution engine.
AdrCommit(adrs) == Scope(ForEach(adrs, LAMBDA a : <<Put(AdrRow(a))>>) \o <<Audit>>)

RiskCommit(risk) == Scope(<<Put(RiskRow(risk)), Audit>>)

\* A declared record is proposed and accepted, two scopes of its manager.
DeclaredAdrs(adrs) ==
    ForEach(adrs, LAMBDA a : AdrCommit(<<a>>) \o AdrCommit(<<a>>))

Seed(name, version, adrs, risks) ==
    Scope(<<Put(ProjectRow(name)), Put(VersionRow(version))>>
            \o DeclaredAdrs(adrs) \o ForEach(risks, RiskCommit))

Introduce(version, supersedes, adrs) ==
    Scope(<<Put(VersionRow(supersedes)), Put(VersionRow(version))>>
            \o DeclaredAdrs(adrs))

ProposeChange(request, adr) ==
    Scope(<<Put(RequestRow(request)), Audit>> \o AdrCommit(<<adr>>))

\* approve() and reject() write alike.
DecideChange(request, adr) ==
    Scope(<<Put(RequestRow(request))>> \o AdrCommit(<<adr>>) \o <<Audit>>)

ApplyChange(request, version, supersedes, risks) ==
    Scope(Introduce(version, supersedes, << >>) \o ForEach(risks, RiskCommit)
            \o <<Put(RequestRow(request)), Audit>>)

=============================================================================
