# Formal models of the Architecture Assistant

TLA+ models of the assistant in `src/src/architecture_assistant`, checked with
TLC on small instances and, where a statement should hold for every plan and
every budget, proved with TLAPS. Paths below are relative to that package.

## 1. Inventory

The assistant is one Python process over one SQLite database. It hands the
steps of a seeded plan to an external worker through files, reviews the
reports, and lets a deterministic architecture gate decide on `VERIFIED`.
Around that loop stand the persisted architecture baseline with its change
requests, the advisors whose findings are evidence, and read-only reporting.

| Component | State it keeps | Operations | Talks to | Hard part | Correct when |
| --- | --- | --- | --- | --- | --- |
| Domain FSMs (`domain/fsm.py`) | none (tables) | `next_state` | every writer of a step | - | terminal states stay terminal, no dead ends |
| Loop policy (`application/loop_policy.py`) | none | `requires_approval`, `decide_review` | orchestrator | retry budget | a revision is requested only while one is possible |
| Orchestrator (`orchestrator.py`) | Step, Task, Project, audit rows | `run_once` | channel, policy, gate | file + database effects of one tick, deadline, acknowledgement | rows, files and verdicts agree after any crash |
| Dispatch seam (`dispatch.py`) | - | `publish_task` | channel, context builder | publication cannot join the transaction | a recorded dispatch has its files |
| Worker channel (`infrastructure/cline.py`) | files in `context/`, `to_cline/`, `from_cline/`, `archive/` | dispatch, read, acknowledge | external worker | malformed, late and repeated reports | a report is neither lost nor used twice |
| Approval gate (`approval.py`) | as orchestrator | approve, reject | channel | publishes before it commits | nothing needing approval is published without it |
| Human override (`human_override.py`) | Project, Step rows | pause, resume, set mode, unblock, resolve, abort | - | acts between two ticks | FSM arcs only |
| Realization gate (`realization_control.py`, `composition/realization.py`) | Finding, Decision rows | gate | architecture rules, baseline rows | verdict commits with the transition | `VERIFIED` iff accepted, a verdict stays |
| Scheduler (`scheduler.py`) | - | `run_until_idle` | orchestrator | limit, sleep | comes to rest |
| Bootstrap (`architecture_bootstrap.py`) | version, ADR, risk, project rows | `seed` | managers | runs at every start | idempotent, never rewrites history |
| Versioning (`architecture_versioning.py`) | version, ADR rows | `introduce` | ADR manager | supersession | one linear history |
| Evolution (`architecture_evolution.py`, `composition/evolution.py`) | change requests | propose, approve, reject, apply, reconcile | versioning, managers | replayed at every start, shared reason records | decisions final, baseline single |
| ADR and risk managers | ADR, risk rows | lifecycle operations | audit | out-of-band changes | tables respected |
| Composition root (`composition/root.py`) | - | `compose` | all | a series of transactions that may end anywhere | every start succeeds |
| Transactions, repositories, migrations (`infrastructure/sqlite.py`, ...) | the database | `transaction`, upserts, `apply_migrations` | all | nested scopes join, failing commits, two processes that start at once | all or nothing; tables agree with their record |
| Cost accounting (`infrastructure/cost.py`) | cost rows | `record` | adapters | look, then insert | one row per event |
| Provider adapters (`openai`, `claude`, `grok`, `openai_judge`) | - | `advise`, `judge` | HTTP, cost | bounded retry of billed calls | what is billed is recorded |
| Evidence pipeline, merger, decision engine, judge use case | none | `observe`, `merge_evidence`, `synthesize_decision`, `resolve` | adapters | conflicts, repeated delivery, one call of several failing | nothing lost, order independent, no vote against the gate |
| Plugin core (`plugin_core.py`) | registry | `register`, `set_default` | composition | - | - |
| Monitor, reporting, renderers | files | render | storage | several reads without a transaction | - |
| Architecture rules (`architecture/`) | none | scan, validate | gate | a table of pairs has to exclude cycles | an accepted source is layered |

`PROJECT.json` says of every component what is modelled and why the rest is
not, and lists the hazards with the properties aimed at each.

## 2. Modules

| Module | Models |
| --- | --- |
| `Plan` | the constants of a seeded plan and what is assumed of them |
| `StepFSM` | the Step and Task transition tables, states and events |
| `LoopPolicy` | `requires_approval` and `decide_review` |
| `StepLifecycle` | abstract: what any loop promises about the plan |
| `AssistantLoop` | orchestrator, dispatch, channel, approval gate, override and gate, as one system with worker, clock and crashes; implements `StepLifecycle` |
| `StepLifecycle_proofs`, `AssistantLoop_proofs` | theorems |
| `BaselineHistory` | abstract: one head, superseded by exactly its successor |
| `ArchitectureEvolution` | bootstrap, change requests, versioning, managers and `compose()` over releases and crashes; implements `BaselineHistory` |
| `BaselineHistory_proofs`, `ArchitectureEvolution_proofs` | theorems |
| `AtomicStore` | abstract: rows and audit entries change by whole scopes only |
| `StoreScopes` | the blocks that the services run in a scope, write by write, and the migrations, table by table |
| `SqliteStore` | `open_database`, `apply_migrations`, `transaction` and the cost ledger for processes that share a file; implements `AtomicStore` |
| `SqliteStore_proofs` | theorems |
| `ArchitectureRules` | scanner names, baselines, rules and verdict, as operators on a set of files |
| `ProviderAdapters` | what each of the four adapters makes of a reply, as operators |
| `EvidenceMerger` | `merge_evidence`, `synthesize_decision`, `build_judge_conflict`, as operators |
| `EvidenceRound` | the gate, the calls of advisors and judge with their retries, the merge, the decision and the judgments as one round |
| `ArchitectureRules_proofs`, `EvidenceMerger_proofs`, `EvidenceRound_proofs` | theorems |
| `MC_AssistantLoop`, `MC_ArchitectureEvolution`, `MC_SqliteStore`, `MC_EvidenceRound` | constants for TLC |

An operator named `Mutant...` is a plausible bug of the operator it precedes (a
dropped guard, a forgotten write). No specification uses one; replacing the
operator by it must make the property listed for it in `PROJECT.json` fail.

### AssistantLoop

| Variable | Code |
| --- | --- |
| `mode`, `paused` | the Project row |
| `state`, `attempt`, `overdue` | the Step rows; `overdue` is "now is past `last_update_at` + timeout" |
| `tasks` | Task rows by `(step_no, attempt)` |
| `verdict`, `findings` | realization Decision and Finding rows, by the same key |
| `contexts`, `taskFiles`, `reports` | the file channel |
| `worker` | whether the external worker still owes a report |
| `op` | the operation in flight: which of its effects are done, and what it has read |

A transaction is one step. What cannot join a transaction is a step of its own,
so publication is *context file*, *task file*, *commit*; a poll is *no report
found*, *deadline evaluated*; a review is *report read*, *outcome committed*,
*report archived*. The process is single-threaded (`run_once`, the gate and
the override are called one after another), so an operation starts only when
none is in flight; the worker, the clock and a crash may act between any two
steps. Reports are abstracted to their status, whether they list open problems
or questions, and `Malformed` for every file that makes `read_report` raise.
A report's `mark` (`fresh`, `late`, `stale`) is history for the properties; no
guard reads it. Context text, result payloads, audit rows, reasons and clock
values are left out.

### ArchitectureEvolution

Each operation is one transaction and therefore one step; `...Accepts` is the
condition under which it does not raise and `...Writes` what it then commits. A
human operation that raises changes nothing. `compose()` is `seed`, then
propose, approve and apply of each declared change; a step that raises sends it
to `refused`, `Stop` ends the process anywhere. A version's content never
changes, so a version is its name; an ADR or a risk is its status and whether
its content is still the declared one (`intact`); a request's rules either are
those of its target or not (`SoundRequests`). An id stands for its content, so
two requests with one id and different content do not occur. The
project singleton that `seed` also checks is left out. `Declared` holds the
catalogue of successive releases; the repository is at a catalogue of one.

### SqliteStore

| Variable | Code |
| --- | --- |
| `db` | the committed file: rows, audit trail, cost records, tables, `schema_migrations` |
| `draft`, `lock` | what the connection with the open write transaction sees, and which one that is |
| `pc`, `at` | where a process is in `open_database`, in a block or in `record`, and at which statement |
| `known`, `depth`, `asked` | `applied`, `_depth` and the argument of `record` |
| `cur`, `kind`, `outcome`, `begun`, `acked` | history: the scopes by number, what each ran and what its caller was told; the accepted cost records |

SQLite lets one connection write; `Commit`, `Rollback` and `View` are what the
code relies on it for. A migration is a step per statement, since two processes
may start at once: the applied versions are read before the lock is taken, so
the slower one may meet a table that is there and fail (`RefuseMigration`). A
scope is the sequence of writes and nested scopes that a service's block runs,
taken from `StoreScopes` (a constant of the model, so the proofs hold for any
properly nested block); an exception may leave it after any of them. A row is
its table and key and its value the scope that wrote it last: upserts replace
the rest. `record` is look, insert, commit, with the other process in between.
`MC_SqliteStore` evaluates that every block of every service closes what it
opens; the run takes the two that overlap.

Three things the code leaves to its surroundings are kept as they are. A
`COMMIT` that fails is not rolled back (`CommitScopeFails`): the caller has the
error and the writes stay in the open transaction, until `transaction()` sets
`isolation_level` to `None`, which commits them (`CommitLeftover`), a cost
record does (`CommitEvent`) or the process ends. A cost insert that `UNIQUE`
refuses leaves sqlite3's transaction, and with it the lock, open
(`InsertRefused`). A statement that finds the lock taken raises after the busy
timeout; where nothing else happens that is no step.

### EvidenceRound and its operators

| Variable | Code |
| --- | --- |
| `tree`, `version`, `keys` | the sources, the baseline in force and the environment's API keys |
| `agenda`, `phase` | the questions that a caller still asks, and how far it is |
| `gate` | the decision of `ArchitectureRealizationAdapter.check`, or none |
| `call` | the request in flight: adapter, step, attempt |
| `observations`, `view`, `decision`, `judging`, `run` | the results of `observe`, `merge_evidence`, `synthesize_decision`, the comprehension in `resolve`, and the returned `JudgeRun` |
| `costs` | the rows of `cost_records`, each an event and the step it is booked on |
| `calls` | history: how each call ended and what the provider charged for it |

One request is one step: it is answered, or fails in one of the ways `Failures`
lists, and `_post` decides whether there is another. A provider's answer is any
body in `Bodies`: unparsable, without content, without identity or usage, with
a contract that is sound, refused, blank, out of range or split differently;
its response id is new, an earlier one again (the same provider's or another's)
or missing. What a provider charged is kept in `calls` as the answer came;
`record` sees only the event the adapter made of it, and looks for it first: an
event that is in the ledger is acknowledged or refused there, and the adapter
swallows the refusal, so either way nothing is added.
The four adapters keep one operator each, as they share no code: Claude takes
the first text that is not blank where the others take the first choice, and
counts tokens under another name. `ArchitectureRules` reads a file as its path
and import statements; names after `import` in a from-statement are ignored, as
in the scanner, and of a file and a package with one name the package counts,
which is later in a scan that sorts POSIX paths as strings.

Abstracted: a claim or a locator is the sequence of its words split at the
separator of the hash, so the hash itself is injective but forgets where a part
ended, as the code's does; confidence and severity are one flag; ids of
decisions, wording, prices and prompts are left out (which of two contents of
one event counts is in `SqliteStore`); a relation always has a target, as without one it is unresolved anyway; conflicts come in
an order that only has to be fixed; a run without a judge calls nobody.

## 3. Runs

| Run | Instance | Shows |
| --- | --- | --- |
| `Loop_Faults` | two steps (the second needs a human and may be retried), two modes, a malformed, a failed, an open and a done report, deadline, crash and failing acknowledgement | all safety properties of the loop, and `LifecycleSpec` |
| `Loop_Live` | one step, two attempts, well-formed reports, crashes | dispatches resolve, the loop comes to rest |
| `Loop_Replay` | violation | finding 1 |
| `Loop_Deadline` | violation | finding 2 |
| `Loop_Verdict` | violation | finding 3 |
| `Loop_TimeoutRace` | violation | finding 4 |
| `Evo_Lifecycle` | four requests over three versions, three releases (one mis-declared), two approvers, an ADR and a risk changed through the managers | all safety properties of the evolution, and `HistorySpec` |
| `Evo_Restart` | the repository's catalogue of one change, operator requests, crashes | `compose()` is never refused and completes again and again |
| `Evo_Managers` | violation | finding 5 |
| `Store` | two processes, four migrations, a review with the gate's nested scope and a retry that writes one of its rows again, one cost event with two contents, two ends of processes, one failing `COMMIT` | the store's safety properties, `StoreSpec`, and that starts succeed |
| `Store_FailedCommit` | violation | finding 6 |
| `Evidence` | an accepted and a tangled source under both baselines, five agendas (nobody, a conflict, a repeated question, a conflict across steps, relations only a rejection proves), with and without a key, two retries, one odd answer | the round's safety properties, and that it ends |

**Why the bounds are enough.** The loop works one step at a time, so two steps
show every way a second one could run ahead, and two attempts show a retry, an
exhausted budget and the re-dispatch of one attempt after `UNBLOCK`; nothing
compares attempts beyond neighbours. Answers cover each branch of
`decide_review`, and both modes in use differ in whether a MEDIUM step needs
approval. `StepLifecycle` is not run by itself: its theorems hold for every
plan, and `Loop_Faults` shows that the loop implements it. For the evolution
three versions are the least with a superseded version that is not the
predecessor of the head, and two requests sharing one ADR the least that can
disagree about it. All state spaces are finite without a state constraint:
attempts are bounded by `MaxAttempts`, releases by `Len(Declared)`. In the store
two scopes are the least of which one can overwrite or commit what another left
open, one failing `COMMIT` the least to leave it; the tables are the program's.
In a round one odd answer lets any single call go wrong in every way while the
other calls are sound or fail; four questions are the least for two conflicts
of which the first is judged before the second is refused. The permutations
that `MergeKeepsEvidence` compares are of the answers of a round, at most four.
`Evidence` does not check for deadlock, since a round ends.

**Fairness.** `AssistantLoop`: the scheduler keeps calling `run_once` (weak
fairness of starting and continuing an operation), time passes, and crashes may
recur for ever but not for ever in the same window (strong fairness of the four
steps a crash can pre-empt). The worker and the human owe nothing; liveness is
conditional on the project not being paused for good. `ArchitectureEvolution`:
the operator starts a process that is down, and starts are not cut short at the
same transaction every time. `SqliteStore`: a process that was started goes on,
and a failed start is repeated by whoever runs the program (weak fairness of
opening); scopes and cost records owe nothing. `EvidenceRound`: a request ends
by its timeout at the latest and the caller goes on (weak fairness of the whole
next step).

**Properties.** `TypeOK` of each module apart, these are aimed at the hazards:

- publication: `DispatchIsPublished`, `TaskHasContext`, `PublicationIsRecorded`,
  `ApprovalPrecedesPublication`;
- reports: `ReportKept`, `ReportDecidesOnce`, `InTimeReportKept`, `DispatchResolves`;
- rows against each other: `RowFollowsStep`, `AttemptHistory`,
  `VerifiedExactlyByGate`, `VerdictIsFinal`, `NothingReadIsStale`;
- the plan: `PlanOrder`, `NoReviseDeadEnd`, `LifecycleSpec`, `LoopComesToRest`;
- the baseline: `OneCurrentBaseline`, `HistorySpec`, `VersionsAreRequested`,
  `GateHasBaseline`;
- change requests: `ReasonFollowsDecision`, `DecisionsAreFinal`;
- restarts: `RestartChangesNothing`, `NeverRefused`, `ComposeCompletes`;
- the store: `OutcomeIsTrue`, `RolledBackOnAnyException`, `StoreSpec`,
  `SchemaIsRecorded`, `StartsSucceed`, `AckMeansStored`, `LedgerOnlyGrows`;
- calls: `RetriesAreHonest`, `CostIsKept`, `RoundEnds`;
- evidence: `MergeKeepsEvidence`, `DecisionStands`, `JudgmentsAreWhole`,
  `AcceptedIsLayered`.

## 4. Findings

1. *A report can be processed twice* (`Loop_Replay`). The outcome is committed
   before the report is archived. After a crash in between, a BLOCKED step that
   a human unblocks is dispatched with the same attempt, and the next poll
   finds the old report. It takes such a fault (`OnlyFaultsReplay`).
2. *A malformed report suspends the deadline* (`Loop_Deadline`). `read_report`
   raises before `_timed_out` is asked.
3. *A verdict can be overwritten* (`Loop_Verdict`). Its id names step and
   attempt, and UNBLOCK keeps the attempt. Only a rejection (`AcceptedStands`).
4. *A timeout can discard a report that came in time* (`Loop_TimeoutRace`), if
   it lands between the poll and the reading of the clock.
5. *A legal manager change makes every later start fail* (`Evo_Managers`).
6. *A `COMMIT` that fails is not rolled back* (`Store_FailedCommit`).
   `ports/transactions.py:19` and `infrastructure/sqlite.py:95` promise a rollback
   on any exception, but `COMMIT` stands outside the `try` (`sqlite.py:115`): the
   caller is told of a failure, the writes stay in the open transaction, and a
   later call on the connection commits them. `RolledBackOnAnyException` states
   the promise as written. `OutcomeIsTrue` leaves such a scope out and says what
   callers may rely on otherwise; `PromiseWithoutFailures` proves the promise of
   every run in which no `COMMIT` fails.

Met while modelling, without a run of their own:

- A second declared change makes every later start fail: the seeded version is
  then superseded by one that is not current any more, and `seed` raises
  (`architecture_bootstrap.py:730`). `NeverRefused` is checked for the
  repository's catalogue of one change; `OneChange`, the hypothesis of
  `StartsAreAccepted`, says so.
- `AckMeansStored` needs its premise: after a failed `COMMIT` the event is seen
  in the connection's own open transaction, acknowledged as a replay, and gone
  if the process ends.
- `http.client.IncompleteRead` is caught neither by `urllib_transport` nor by
  `observe()` (`Raise`); one cut-off body ends the round in an exception, although
  `composition/evidence.py:89` says that any other advisor failure becomes an
  error. `RetriesAreHonest` is about the calls that return.
- `judge.py:26` and `judge.py:81` say that corrupted evidence never reaches a
  provider. The conflicts are turned into questions one by one, so the judge has
  been asked, and billed, about the first when the second is refused
  (`MixedSteps`). The caller is handed none of the judgments then, which is what
  `JudgmentsAreWhole` says.
- A billed answer without content, or one that came after the timeout, leaves
  no cost record: `_record_cost` comes after the content.
- Parts of a finding id are joined by `|` unescaped, so two findings may share
  an id that `evidence_merger.py:83` calls impossible; the merge refuses them.
- The three groups of ids in the hash of `_decision_id` are joined as one list.
- The scanner takes `from .. import infrastructure` for an import of the root
  package, and the `sqlite3` rule takes only that exact name.

## 5. Proofs

From the assumptions on the constants, which TLC evaluates in the runs, and
nothing else:

| Module | Assumes | Theorems |
| --- | --- | --- |
| `StepLifecycle_proofs` | `StepsAreNumbered`, `BudgetsArePositive` | `TypeCorrect`, `PlanOrderHolds`, `NoDeadEnd` |
| `AssistantLoop_proofs` | also `PolicyInputs`, `EnvironmentInputs` (types) | `TypeCorrect`, `RowsFilesAndVerdictsAgree`, `PlanOrderHolds`, `NoStaleRead`, `ContextComesFirst`, `ReportsSurvive`, `RowsFollowSteps`, `GateDecides`, `AttemptsAreOrdered`, `ReviseLeadsOn`, `PublicationsAreRecorded`, `ApprovalComesFirst`, `AcceptedStands`, `OnlyFaultsReplay` (under `Faults = {}`), `ImplementsLifecycle` |
| `BaselineHistory_proofs` | - | `HistoryIsLinear` |
| `ArchitectureEvolution_proofs` | `VersionNames`, `RequestShape` (a request moves between two versions, catalogues consist of requests) | `TypeCorrect`, `SingleBaseline`, `FinalDecisions`, `VersionsWereRequested`, `ReasonsFollowDecisions`, `GateIsAuthoritative`, `RestartsWriteNothing`, `StartsAreAccepted`, `ImplementsHistory` |
| `SqliteStore_proofs` | `MigrationsAreNumbered`, `NamesAreUnique`, `ScriptsAreNested`, and that markers differ from data | `StoreTypes`, `SchemaRecorded`, `LedgerGrows`, `AcksAreStored`, `OutcomesAreTrue`, `PromiseWithoutFailures`, `StoreIsAtomic` |
| `ArchitectureRules_proofs` | - | `NoViolationNoCycle`, `AcceptedIsSound`, `OnlyCompositionIsNew` |
| `EvidenceMerger_proofs` | - (observations are what `observe()` can return) | `OrderIsImmaterial`, `MergeLosesNothing`, `AdviceMovesNoDecision` |
| `EvidenceRound_proofs` | `BoundsAreNumbers`, `AgendasAskAdvisors` (an agenda asks advisors about a claim with one of the three relations) | `RoundTypes`, `AcceptedRounds`, `CostsAreKept`, `HonestRetries`, `MergesKeepEvidence`, `DecisionsStand`, `JudgmentsWhole`, `RoundsRunDown` |

None of the loop's safety properties is inductive alone: that a dispatch is
published relies on the operation in flight having written the files of the
attempt it will commit (`NothingReadIsStale`); that in turn relies on no other
operation moving the step; that a new attempt starts without rows and files
relies on `AttemptHistory` for larger numbers. `IInv` therefore joins
`TypeOK`, `PlanOrder`, `NothingReadIsStale`, one conjunct per step (`StepOK`)
and one per key (`KeyOK`). Each action has a lemma "keeps `IInv`", most
of which go through a few shared ones: an action that touches one step keeps
the others (`OthersKeep`), one that writes only the step row (`RowOnlyKeeps`),
one that closes the Task row (`CloseTaskKeeps`). Since every step of the loop
moves at most one step row along an FSM arc, and `PlanOrder` makes that row the
current one, the refinement of `StepLifecycle` follows. Two properties need more
than `IInv`: that an unrecorded publication belongs to a step before dispatch
needs that no step is ever in `CONFLICT` (`NoConflict`; nothing raises that
event), and that approval precedes publication that an operation about to
publish is an approval or needs none (`Sanctioned`).

Two theorems bound findings 1 and 3. `AcceptedStands`: a verdict is written only
in REVIEWING and, by the refinement, a VERIFIED step does not move, so what
`Loop_Verdict` overwrites is never an acceptance. `OnlyFaultsReplay` has the
hypothesis `Faults = {}` (the code has both faults, so `ReportDecidesOnce` as such
is false): its invariant `AllTraced` says what the channel holds for the current
attempt of each step; once an outcome is committed that is nothing, unless the
operation in flight is at the acknowledgement.

The evolution proof first shows that a step changes the database by one accepted
operation or not at all (`DatabaseStep`), and then that the three version
columns move only by the first bootstrap or by a roll-over from the single
current version (`DatabaseStepMovesBaseline`). The second needs the invariant
itself: that `apply` finds its change "already recorded" is harmless only
because the current version is single. `BaselineOK` strengthens
`OneCurrentBaseline` by what holds before the first bootstrap and of versions
without a row: neither has a successor, so a new head never inherits one.

`VersionsWereRequested` and `ReasonsFollowDecisions` are inductive beside it.
`GateIsAuthoritative` has the hypothesis `ReleasesGrow`: no release declares
nothing after one that declared a change. Without it the gate of such a release
expects the first baseline under a history that has moved on. Its invariant
`Reached` says what `compose()` has stored at each stage of a start.

`RestartsWriteNothing` goes by `Seeded`: what a start or an apply reconciled
once is in the database, and no operation deletes a row (`RowsRemain`), so the
same catalogue reconciled again creates nothing. `StartsAreAccepted` has the
hypothesis `OneChange`: every release declares the same one sound change of the
first version, and the managers are not used beside the evolution. That is the
repository's catalogue; with two changes, or with managers in between, a start
can be refused (section 4). Its invariant
`Welcome` has three phases: nothing stored (`Fresh`), the first baseline stored
and the change on its way (`Rolling`), the change applied (`Rolled`).

The store's invariants come in layers, each proved with the ones before it:
`Guarded` (types, and the draft is ahead of the file only under the lock),
`Schema` (what a migrating process believes applied, and what its draft holds
half-way), `Ledger` (a draft adds only the cost that its process is about to
commit) and `Scopes`. The last is why the store is atomic: only the newest scope
can be unsettled (`Numbered`), and the draft is ahead of the file by what that
scope has written up to the instruction it is at, and by nothing else (`Ahead`).
A commit of any kind then lands one scope as a whole or none, which is a step of
`AtomicStore`. `OutcomesAreTrue` follows from `Blamed`, which ties each outcome
to what the file has of the scope, and `PromiseWithoutFailures` adds that a scope
is told late only by a `COMMIT` that failed.

`NoViolationNoCycle` goes by the lowest layer that takes part: the table of
allowed imports leaves each layer only layers below it. `AcceptedRounds` adds
that a round's status is its gate's and the gate's the tree's (`GateIsOfTree`).
`CostsAreKept` relates two things that are derived apart, the charges of the
ended calls and the rows that `record` added for what an adapter read in a body.
It is inductive by three facts: what an adapter books is exactly what its
provider's charge calls for (`BookedIsDue`, one case per adapter); a booking
that adds no row has its event in the ledger already; and the calls that ended
before keep their charges, so what recurs keeps recurring (`ChargesOfCalls`).
`HonestRetries` that a call in flight belongs to the phase (`Progress`), so that
observations and judgments together are one per ended call.

What `merge_evidence` computes from a sequence of any length is proved in
`EvidenceMerger_proofs`. Its loop is the recursive function `Merging`, and its
comprehensions over the findings are `IdsOf`; that such functions exist, and are
what their equations say, is `LoopsRun`. Induction over the number of turns is
done with sets (`NatSetInduction`, from the least number of a set), because the
library's induction theorems take an operator. `Describes`, proved by it, says
what the loop has after each observation: the findings delivered first, the
relation each could prove, the counts, and a collision exactly if two deliveries
of one id clash. A collision is symmetric in the two, so no order matters to it;
the groups depend on the first delivery, and so on the order only where
deliveries of one finding dispute each other's relation or target
(`OrderIsImmaterial`).

The round's invariant is `Round`: `Callees`, `Retries`, `Noted` (every
observation was made by an advisor), `Staged` (once there is a view it is the
merge of the observations, unchanged, and the decision is the one that follows
from it), `Resolving` (the judgments so far belong to the first conflicts, each
of one step, and so does the call in flight) and `Logged`. A step either hands
over one result of a call or leaves observations and judgments alone
(`ReturnsOrSilent`). `MergesKeepEvidence` and `DecisionsStand` then are the
theorems about the merge, applied to the round's observations; `JudgmentsWhole`
needs that what an adapter returns cites only the conflict it was told of
(`VerdictIsJudgment`). `RoundsRunDown` measures a round by the stages left, the
questions or conflicts left in the stage, and the requests left for the next of
them; each step lowers one and raises only later ones. It is the half of
`RoundEnds` that is safety; that a round is never stuck is the other one, and is
left to the run.

Only model-checked: every liveness property (fairness and `ENABLED` are outside
the proof system's reach). The code violates `ReportDecidesOnce`,
`VerdictIsFinal`, `InTimeReportKept` and `RolledBackOnAnyException`, and
`DispatchResolves` and `NeverRefused` outside the instances of `Loop_Live` and
`Evo_Restart`. Every other safety property of a run has a theorem.

## 6. Not modelled

- Plugin core: a dictionary filled once at composition.
- Monitor, reporting and the renderers: they read. The snapshot is read table
  by table without a transaction; what it shows can be torn, nothing depends on
  it.
- The project singleton of `seed`, the iteration limit of the scheduler (after
  which the same call is made again), the archive directory of the channel.
- Two processes running evolution operations at once: they read a request
  outside their transaction. The program is run as one process; what two may do
  to the file is in `SqliteStore`.
- Parsing of Python sources and provider payloads, file layout and wording,
  field validation of the dataclasses: data, of which the models keep what the
  properties tell apart.
