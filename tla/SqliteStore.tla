----------------------------- MODULE SqliteStore -----------------------------
(***************************************************************************)
(* Processes that share one SQLite file: each opens it, migrating it first,*)
(* then runs the services' transaction() scopes and records costs.  Any of *)
(* them may end at any point, an exception may leave any block, and a      *)
(* COMMIT may fail.                                                        *)
(*                                                                         *)
(* SQLite lets one connection write at a time: lock is the connection with *)
(* the open write transaction and draft the database as that connection    *)
(* sees it.  A statement that finds the lock taken raises after the busy   *)
(* timeout; where nothing else happens, that is no step here.              *)
(***************************************************************************)
EXTENDS Naturals, Sequences, FiniteSets

CONSTANTS
    Procs,            \* the processes, one connection each
    Free,             \* no connection holds the write lock
    Migrations,       \* the versions of MIGRATIONS
    Creates,          \* what each migration creates, one statement each
    Names,            \* the tables and indexes
    Rows,             \* the rows that scopes write
    Kinds,            \* the blocks the services run in a scope
    Script,           \* the instructions of each block, as in StoreScopes
    Level,            \* the scopes that are open before each of them
    Events,           \* the event ids of cost records
    Contents,         \* the accounting contents a record may carry
    Nothing,          \* no cost record yet
    MaxScopes,        \* bound: scopes begun
    MaxCrashes,       \* bound: processes that end
    MaxBadCommits     \* bound: COMMITs that fail

ASSUME FreeIsNoProcess == Free \notin Procs
ASSUME NothingIsNoContent == Nothing \notin Contents
ASSUME MigrationsAreNumbered ==
    /\ Migrations \subseteq Nat
    /\ Creates \in [Migrations -> Seq(Names)]
\* MIGRATIONS never names a table twice, nor creates what another one did.
ASSUME NamesAreUnique ==
    \A m, n \in Migrations : \A i \in DOMAIN Creates[m], j \in DOMAIN Creates[n] :
        Creates[m][i] = Creates[n][j] => m = n /\ i = j
ASSUME BoundsAreNumbers ==
    MaxScopes \in Nat /\ MaxCrashes \in Nat /\ MaxBadCommits \in Nat

Instructions == {<<"enter">>, <<"exit">>, <<"audit">>} \cup {<<"put", r>> : r \in Rows}

\* A block is a with statement: what it opens it closes, and its own scope
\* is the first it opens and the last it closes.
ASSUME ScriptsAreNested ==
    /\ Script \in [Kinds -> Seq(Instructions)]
    /\ \A k \in Kinds :
         /\ Len(Script[k]) > 1
         /\ Level[k] \in [1..Len(Script[k]) -> Nat]
         /\ Script[k][1] = <<"enter">>
         /\ Level[k][2] = 1
         /\ \A i \in 2..(Len(Script[k]) - 1) :
              Level[k][i] > 0 /\
              Level[k][i + 1] = CASE Script[k][i] = <<"enter">> -> Level[k][i] + 1
                                  [] Script[k][i] = <<"exit">> -> Level[k][i] - 1
                                  [] OTHER -> Level[k][i]
         /\ Script[k][Len(Script[k])] = <<"exit">>
         /\ Level[k][Len(Script[k])] = 1

VARIABLES
    db,          \* the committed database
    draft,       \* the database as the connection with the lock sees it
    lock,        \* the connection that holds the write lock
    pc,          \* what each process is doing
    known,       \* the migrations each process believes applied
    at,          \* the statement or instruction each process runs next
    depth,       \* SqliteTransactionPort._depth
    cur,         \* the scope each process is in
    asked,       \* the event and content each process is recording
    kind,        \* the block each scope ran
    outcome,     \* what became of each scope
    begun,       \* how many scopes have begun
    acked,       \* the cost records that returned to their caller
    crashes,
    badCommits

fileVars == <<db, draft, lock>>
procVars == <<known, at, depth, cur, asked>>
scopeVars == <<kind, outcome, begun>>
faultVars == <<crashes, badCommits>>
vars == <<fileVars, pc, procVars, scopeVars, acked, faultVars>>

Ids == 1..MaxScopes

\* Where a process is: before open_database(), in apply_migrations() and
\* _apply_one(), between two calls, in a block, or in record().
Places == {"down", "opening", "creating", "bookkeeping", "migrated",
           "idle", "running", "inserting", "inserted"}

\* A scope whose COMMIT failed is pending: its caller was given the error, its
\* writes are still in the open transaction.  A later COMMIT of the connection
\* makes it late, the end of the connection lost.
Outcomes == {"none", "running", "raised", "returned", "pending", "late", "lost"}

\* The rows and the audit entries of a block.
RowsOf == [k \in Kinds |->
    {r \in Rows : \E i \in 1..Len(Script[k]) : Script[k][i] = <<"put", r>>}]
EntriesOf == [k \in Kinds |-> {i \in 1..Len(Script[k]) : Script[k][i] = <<"audit">>}]

\* An audit entry is the scope that appended it and its place in the block;
\* nothing updates or deletes one.
Database ==
    [rows: [Rows -> Ids \cup {0}],
     audit: SUBSET (Ids \X Nat),
     costs: [Events -> Contents \cup {Nothing}],
     tables: SUBSET Names,
     applied: SUBSET Migrations]

NoDatabase ==
    [rows |-> [r \in Rows |-> 0],
     audit |-> {},
     costs |-> [e \in Events |-> Nothing],
     tables |-> {},
     applied |-> {}]

Init ==
    /\ db = NoDatabase
    /\ draft = NoDatabase
    /\ lock = Free
    /\ pc = [p \in Procs |-> "down"]
    /\ known = [p \in Procs |-> {}]
    /\ at = [p \in Procs |-> 0]
    /\ depth = [p \in Procs |-> 0]
    /\ cur = [p \in Procs |-> 0]
    /\ asked = [p \in Procs |-> Nothing]
    /\ kind = [id \in Ids |-> Nothing]
    /\ outcome = [id \in Ids |-> "none"]
    /\ begun = 0
    /\ acked = {}
    /\ crashes = 0
    /\ badCommits = 0

-----------------------------------------------------------------------------
\* What a connection reads: its own open transaction, or the committed file.
View(p) == IF lock = p THEN draft ELSE db

Goto(p, place) == pc' = [pc EXCEPT ![p] = place]

\* The call is over, one way or the other, and its locals are gone.
Leave(p, place) ==
    /\ Goto(p, place)
    /\ known' = [known EXCEPT ![p] = {}]
    /\ at' = [at EXCEPT ![p] = 0]
    /\ depth' = [depth EXCEPT ![p] = 0]
    /\ cur' = [cur EXCEPT ![p] = 0]
    /\ asked' = [asked EXCEPT ![p] = Nothing]

\* COMMIT: everything the connection's transaction holds, whoever began it.
Commit(p) ==
    /\ lock = p
    /\ db' = draft
    /\ lock' = Free
    /\ UNCHANGED draft

Rollback(p) ==
    /\ draft' = IF lock = p THEN db ELSE draft
    /\ lock' = IF lock = p THEN Free ELSE lock
    /\ UNCHANGED db

\* Every scope that was found in state old is now in state new.
Settled(old, new) ==
    [id \in Ids |-> IF outcome[id] = old THEN new ELSE outcome[id]]

-----------------------------------------------------------------------------
\* open_database(): the bookkeeping table exists afterwards and the applied
\* versions are read once.
Open(p) ==
    /\ pc[p] = "down"
    /\ Goto(p, "opening")
    /\ known' = [known EXCEPT ![p] = db.applied]
    /\ UNCHANGED <<fileVars, at, depth, cur, asked, scopeVars, acked, faultVars>>

\* apply_migrations() takes the pending versions in order.
Pending(p) == Migrations \ known[p]
First(p, m) == m \in Pending(p) /\ \A n \in Pending(p) : m <= n
Version(p) == CHOOSE m \in Migrations : First(p, m)

BeginMigration(p) ==
    /\ pc[p] = "opening"
    /\ \E m \in Migrations : First(p, m)
    /\ lock = Free
    /\ lock' = p
    /\ at' = [at EXCEPT ![p] = 1]
    /\ Goto(p, "creating")
    /\ UNCHANGED <<db, draft, known, depth, cur, asked, scopeVars, acked, faultVars>>

\* The mutants leave out a BEGIN, an INSERT, a ROLLBACK, a COMMIT or a
\* constraint, or read a record after its call is over.
MutantCreateTable(p) ==
    /\ pc[p] = "creating"
    /\ at[p] <= Len(Creates[Version(p)])
    /\ Creates[Version(p)][at[p]] \notin draft.tables
    /\ draft' = [draft EXCEPT !.tables = @ \cup {Creates[Version(p)][at[p]]}]
    /\ db' = draft'
    /\ at' = [at EXCEPT ![p] = @ + 1]
    /\ UNCHANGED <<lock, pc, known, depth, cur, asked, scopeVars, acked, faultVars>>

\* migration.up(): no IF NOT EXISTS, so a table that is there is an error.
CreateTable(p) ==
    /\ pc[p] = "creating"
    /\ at[p] <= Len(Creates[Version(p)])
    /\ Creates[Version(p)][at[p]] \notin draft.tables
    /\ draft' = [draft EXCEPT !.tables = @ \cup {Creates[Version(p)][at[p]]}]
    /\ at' = [at EXCEPT ![p] = @ + 1]
    /\ UNCHANGED <<db, lock, pc, known, depth, cur, asked, scopeVars, acked, faultVars>>

MutantRecordMigration(p) ==
    /\ pc[p] = "creating"
    /\ at[p] > Len(Creates[Version(p)])
    /\ Goto(p, "bookkeeping")
    /\ UNCHANGED <<fileVars, procVars, scopeVars, acked, faultVars>>

RecordMigration(p) ==
    /\ pc[p] = "creating"
    /\ at[p] > Len(Creates[Version(p)])
    /\ draft' = [draft EXCEPT !.applied = @ \cup {Version(p)}]
    /\ Goto(p, "bookkeeping")
    /\ UNCHANGED <<db, lock, procVars, scopeVars, acked, faultVars>>

CommitMigration(p) ==
    /\ pc[p] = "bookkeeping"
    /\ Commit(p)
    /\ known' = [known EXCEPT ![p] = @ \cup {Version(p)}]
    /\ Goto(p, "opening")
    /\ UNCHANGED <<at, depth, cur, asked, scopeVars, acked, faultVars>>

\* The start fails: the lock is taken, or another process has applied the
\* version since this one read the applied set.
RefuseMigration(p) ==
    /\ \/ pc[p] = "opening" /\ Pending(p) # {} /\ lock # Free
       \/ /\ pc[p] = "creating"
          /\ at[p] <= Len(Creates[Version(p)])
          /\ Creates[Version(p)][at[p]] \in draft.tables
    /\ Rollback(p)
    /\ Leave(p, "down")
    /\ UNCHANGED <<scopeVars, acked, faultVars>>

Opened(p) ==
    /\ pc[p] = "opening"
    /\ Pending(p) = {}
    /\ Leave(p, "idle")
    /\ UNCHANGED <<fileVars, scopeVars, acked, faultVars>>

-----------------------------------------------------------------------------
\* transaction() sets isolation_level to None first, which commits whatever an
\* earlier call left open on the connection.
CommitLeftover(p) ==
    /\ pc[p] = "idle"
    /\ Commit(p)
    /\ outcome' = Settled("pending", "late")
    /\ UNCHANGED <<pc, procVars, kind, begun, acked, faultVars>>

\* The outermost transaction() of a block: BEGIN IMMEDIATE.
BeginScope(p, k) ==
    /\ pc[p] = "idle"
    /\ lock = Free
    /\ begun < MaxScopes
    /\ lock' = p
    /\ begun' = begun + 1
    /\ kind' = [kind EXCEPT ![begun + 1] = k]
    /\ outcome' = [outcome EXCEPT ![begun + 1] = "running"]
    /\ cur' = [cur EXCEPT ![p] = begun + 1]
    /\ at' = [at EXCEPT ![p] = 2]
    /\ depth' = [depth EXCEPT ![p] = 1]
    /\ Goto(p, "running")
    /\ UNCHANGED <<db, draft, known, asked, acked, faultVars>>

Reaches(p, instruction) ==
    pc[p] = "running" /\ Script[kind[cur[p]]][at[p]] = instruction

Advance(p) ==
    /\ at' = [at EXCEPT ![p] = @ + 1]
    /\ UNCHANGED <<db, lock, pc, known, cur, asked, scopeVars, acked, faultVars>>

\* A nested transaction() joins the open one.
EnterNested(p) ==
    /\ Reaches(p, <<"enter">>)
    /\ depth' = [depth EXCEPT ![p] = @ + 1]
    /\ UNCHANGED draft
    /\ Advance(p)

MutantExitNested(p) ==
    /\ Reaches(p, <<"exit">>)
    /\ depth[p] > 1
    /\ depth' = [depth EXCEPT ![p] = @ - 1]
    /\ db' = draft
    /\ at' = [at EXCEPT ![p] = @ + 1]
    /\ UNCHANGED <<draft, lock, pc, known, cur, asked, scopeVars, acked, faultVars>>

ExitNested(p) ==
    /\ Reaches(p, <<"exit">>)
    /\ depth[p] > 1
    /\ depth' = [depth EXCEPT ![p] = @ - 1]
    /\ UNCHANGED draft
    /\ Advance(p)

\* An upsert inside a scope leaves the commit to the scope.
Upsert(p, row) ==
    /\ Reaches(p, <<"put", row>>)
    /\ draft' = [draft EXCEPT !.rows[row] = cur[p]]
    /\ UNCHANGED depth
    /\ Advance(p)

AppendAudit(p) ==
    /\ Reaches(p, <<"audit">>)
    /\ draft' = [draft EXCEPT !.audit = @ \cup {<<cur[p], at[p]>>}]
    /\ UNCHANGED depth
    /\ Advance(p)

CommitScope(p) ==
    /\ Reaches(p, <<"exit">>)
    /\ depth[p] = 1
    /\ Leave(p, "idle")
    /\ Commit(p)
    /\ outcome' = [outcome EXCEPT ![cur[p]] = "returned"]
    /\ UNCHANGED <<kind, begun, acked, faultVars>>

\* The else branch of transaction() rolls nothing back: the COMMIT raises and
\* the transaction stays open on a connection that is back in its old mode.
CommitScopeFails(p) ==
    /\ badCommits < MaxBadCommits
    /\ badCommits' = badCommits + 1
    /\ Reaches(p, <<"exit">>)
    /\ depth[p] = 1
    /\ Leave(p, "idle")
    /\ outcome' = [outcome EXCEPT ![cur[p]] = "pending"]
    /\ UNCHANGED <<fileVars, kind, begun, acked, crashes>>

MutantRaise(p) ==
    /\ pc[p] = "running"
    /\ Leave(p, "idle")
    /\ Commit(p)
    /\ outcome' = [outcome EXCEPT ![cur[p]] = "raised"]
    /\ UNCHANGED <<kind, begun, acked, faultVars>>

\* An exception leaves every open scope; the outermost one rolls back.
Raise(p) ==
    /\ pc[p] = "running"
    /\ Leave(p, "idle")
    /\ Rollback(p)
    /\ outcome' = [outcome EXCEPT ![cur[p]] = "raised"]
    /\ UNCHANGED <<kind, begun, acked, faultVars>>

-----------------------------------------------------------------------------
\* SqliteCostPlugin.record() looks first: the same content is acknowledged,
\* another one refused.
AcknowledgeReplay(p, e, c) ==
    /\ pc[p] = "idle"
    /\ View(p).costs[e] = c
    /\ acked' = acked \cup {<<e, c>>}
    /\ UNCHANGED <<fileVars, pc, procVars, scopeVars, faultVars>>

LookForEvent(p, e, c) ==
    /\ pc[p] = "idle"
    /\ View(p).costs[e] = Nothing
    /\ asked' = [asked EXCEPT ![p] = <<e, c>>]
    /\ Goto(p, "inserting")
    /\ UNCHANGED <<fileVars, known, at, depth, cur, scopeVars, acked, faultVars>>

MutantInsertEvent(p) ==
    /\ pc[p] = "inserting"
    /\ lock \in {Free, p}
    /\ draft' = [draft EXCEPT !.costs[asked[p][1]] = asked[p][2]]
    /\ lock' = p
    /\ Goto(p, "inserted")
    /\ UNCHANGED <<db, procVars, scopeVars, acked, faultVars>>

InsertEvent(p) ==
    /\ pc[p] = "inserting"
    /\ lock \in {Free, p}
    /\ draft.costs[asked[p][1]] = Nothing
    /\ draft' = [draft EXCEPT !.costs[asked[p][1]] = asked[p][2]]
    /\ lock' = p
    /\ Goto(p, "inserted")
    /\ UNCHANGED <<db, procVars, scopeVars, acked, faultVars>>

\* The event was inserted by another process since the look.  UNIQUE refuses
\* it, and the transaction sqlite3 began for the INSERT stays open.
InsertRefused(p) ==
    /\ pc[p] = "inserting"
    /\ lock \in {Free, p}
    /\ draft.costs[asked[p][1]] # Nothing
    /\ lock' = p
    /\ Leave(p, "idle")
    /\ UNCHANGED <<db, draft, scopeVars, acked, faultVars>>

InsertBusy(p) ==
    /\ pc[p] = "inserting"
    /\ lock \notin {Free, p}
    /\ Leave(p, "idle")
    /\ UNCHANGED <<fileVars, scopeVars, acked, faultVars>>

MutantCommitForgotten(p) ==
    /\ pc[p] = "inserted"
    /\ Commit(p)
    /\ outcome' = Settled("pending", "late")
    /\ Leave(p, "idle")
    /\ acked' = acked \cup {asked'[p]}
    /\ UNCHANGED <<kind, begun, faultVars>>

MutantCommitEvent(p) ==
    /\ pc[p] = "inserted"
    /\ acked' = acked \cup {asked[p]}
    /\ Leave(p, "idle")
    /\ UNCHANGED <<fileVars, scopeVars, faultVars>>

\* _execute_write() commits: no scope is open on this connection.
CommitEvent(p) ==
    /\ pc[p] = "inserted"
    /\ Commit(p)
    /\ outcome' = Settled("pending", "late")
    /\ acked' = acked \cup {asked[p]}
    /\ Leave(p, "idle")
    /\ UNCHANGED <<kind, begun, faultVars>>

CommitEventFails(p) ==
    /\ badCommits < MaxBadCommits
    /\ badCommits' = badCommits + 1
    /\ pc[p] = "inserted"
    /\ Leave(p, "idle")
    /\ UNCHANGED <<fileVars, scopeVars, acked, crashes>>

-----------------------------------------------------------------------------
\* The process ends at any point; the next connection finds the committed file.
Crash(p) ==
    /\ pc[p] # "down"
    /\ crashes < MaxCrashes
    /\ crashes' = crashes + 1
    /\ Rollback(p)
    /\ outcome' = IF lock = p
                  THEN [id \in Ids |-> IF outcome[id] \in {"running", "pending"}
                                       THEN "lost" ELSE outcome[id]]
                  ELSE outcome
    /\ Leave(p, "down")
    /\ UNCHANGED <<kind, begun, acked, badCommits>>

Opening(p) ==
    \/ Open(p)
    \/ BeginMigration(p)
    \/ CreateTable(p)
    \/ RecordMigration(p)
    \/ CommitMigration(p)
    \/ RefuseMigration(p)
    \/ Opened(p)

Running(p) ==
    \/ CommitLeftover(p)
    \/ \E k \in Kinds : BeginScope(p, k)
    \/ EnterNested(p)
    \/ ExitNested(p)
    \/ \E row \in Rows : Upsert(p, row)
    \/ AppendAudit(p)
    \/ CommitScope(p)
    \/ CommitScopeFails(p)
    \/ Raise(p)

Recording(p) ==
    \/ \E e \in Events, c \in Contents : AcknowledgeReplay(p, e, c)
    \/ \E e \in Events, c \in Contents : LookForEvent(p, e, c)
    \/ InsertEvent(p)
    \/ InsertRefused(p)
    \/ InsertBusy(p)
    \/ CommitEvent(p)
    \/ CommitEventFails(p)

Next == \E p \in Procs : Opening(p) \/ Running(p) \/ Recording(p) \/ Crash(p)

Spec == Init /\ [][Next]_vars

\* open_database() runs to its end, and a start that fails is repeated by
\* whoever runs the program; nothing else is assumed to happen.
FairSpec == Spec /\ \A p \in Procs : WF_vars(Opening(p))

-----------------------------------------------------------------------------
TypeOK ==
    /\ db \in Database
    /\ draft \in Database
    /\ lock \in Procs \cup {Free}
    /\ pc \in [Procs -> Places]
    /\ known \in [Procs -> SUBSET Migrations]
    /\ at \in [Procs -> Nat]
    /\ depth \in [Procs -> Nat]
    /\ cur \in [Procs -> Ids \cup {0}]
    /\ asked \in [Procs -> (Events \X Contents) \cup {Nothing}]
    /\ kind \in [Ids -> Kinds \cup {Nothing}]
    /\ outcome \in [Ids -> Outcomes]
    /\ begun \in 0..MaxScopes
    /\ acked \subseteq Events \X Contents
    /\ crashes \in Nat
    /\ badCommits \in Nat

Landed(d, id) ==
    /\ \A r \in RowsOf[kind[id]] : d.rows[r] >= id
    /\ {id} \X EntriesOf[kind[id]] \subseteq d.audit

Absent(d, id) ==
    /\ \A r \in Rows : d.rows[r] # id
    /\ \A entry \in d.audit : entry[1] # id

\* What the caller of a scope was told is what the file holds: a block that
\* returned is there with every row (or a later one) and every audit entry; any
\* other has left nothing at all behind.
AsTold(id) == IF outcome[id] = "returned" THEN Landed(db, id) ELSE Absent(db, id)

\* The file holds what the callers were told, of every scope whose own COMMIT did
\* not fail and land later: whatever nested scopes, exceptions, ends of processes
\* and failed COMMITs of other scopes did beside it (transaction()).  Where no
\* COMMIT fails that is every scope.
OutcomeIsTrue == \A id \in Ids : outcome[id] # "late" => AsTold(id)

\* A scope commits on success and is rolled back on any exception, one that
\* COMMIT raises included (transaction() and TransactionPort say so; the code
\* does not keep it).
RolledBackOnAnyException == \A id \in Ids : AsTold(id)

CreatedBy(versions) ==
    {name \in Names : \E m \in versions : \E i \in DOMAIN Creates[m] : Creates[m][i] = name}

\* A table exists in the file exactly if its migration is recorded there, and
\* the recorded migrations are the first ones of MIGRATIONS, whatever two
\* starting processes and their ends do (_apply_one, apply_migrations).
SchemaIsRecorded ==
    /\ db.tables = CreatedBy(db.applied)
    /\ \A m \in db.applied, n \in Migrations : n <= m => n \in db.applied

\* A cost event that record() accepted is in the file with the content it was
\* given, for good, as long as no COMMIT has failed (SqliteCostPlugin.record).
AckMeansStored ==
    badCommits = 0 => \A ack \in acked : db.costs[ack[1]] = ack[2]

\* A recorded event is never changed or dropped, not by a replay and not by
\* the other writer that looked before it was there.
LedgerOnlyGrows ==
    [][\A e \in Events : db.costs[e] # Nothing => db'.costs[e] = db.costs[e]]_vars

\* A process that is started again after a failed or interrupted start opens
\* the database in the end.
StartsSucceed == \A p \in Procs : pc[p] = "down" ~> pc[p] = "idle"

Promise == INSTANCE AtomicStore WITH rows <- db.rows, audit <- db.audit

\* The rows and the audit trail change by whole scopes only; a scope that lands
\* after its COMMIT failed does so as a whole, too (transaction()).
StoreSpec == Promise!Spec

=============================================================================
