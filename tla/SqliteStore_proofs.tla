-------------------------- MODULE SqliteStore_proofs --------------------------
(***************************************************************************)
(* SqliteStore keeps its promises for every set of processes, migrations,  *)
(* blocks and cost events and for every bound.  The proof is layered: the  *)
(* type invariant, then who may hold the write lock, then on top of it the *)
(* schema, the scopes and the cost ledger, each with its own strengthening *)
(* about the uncommitted draft.                                            *)
(***************************************************************************)
EXTENDS SqliteStore, TLAPS

-----------------------------------------------------------------------------
\* Type correctness.

LEMMA LeaveTypes ==
    ASSUME TypeOK, NEW p \in Procs, NEW place \in Places, Leave(p, place)
    PROVE  /\ pc' \in [Procs -> Places]
           /\ known' \in [Procs -> SUBSET Migrations]
           /\ at' \in [Procs -> Nat]
           /\ depth' \in [Procs -> Nat]
           /\ cur' \in [Procs -> Ids \cup {0}]
           /\ asked' \in [Procs -> (Events \X Contents) \cup {Nothing}]
BY DEF TypeOK, Leave, Goto

LEMMA FileTypes ==
    ASSUME TypeOK, NEW p \in Procs
    PROVE  /\ Commit(p) => db' \in Database /\ draft' \in Database
                            /\ lock' \in Procs \cup {Free}
           /\ Rollback(p) => db' \in Database /\ draft' \in Database
                              /\ lock' \in Procs \cup {Free}
BY DEF TypeOK, Commit, Rollback

LEMMA WriteTypes ==
    ASSUME NEW d \in Database
    PROVE  /\ \A row \in Rows, id \in Ids : [d EXCEPT !.rows[row] = id] \in Database
           /\ \A id \in Ids, i \in Nat :
                [d EXCEPT !.audit = @ \cup {<<id, i>>}] \in Database
           /\ \A e \in Events, c \in Contents : [d EXCEPT !.costs[e] = c] \in Database
           /\ \A n \in Names : [d EXCEPT !.tables = @ \cup {n}] \in Database
           /\ \A m \in Migrations : [d EXCEPT !.applied = @ \cup {m}] \in Database
BY DEF Database

\* A process is where its locals say: in a block it has a scope, in record() a
\* record, in a migration a version and a statement.
Locals ==
    \A p \in Procs :
        /\ pc[p] = "running" => cur[p] \in Ids
        /\ pc[p] \in {"inserting", "inserted"} => asked[p] \in Events \X Contents
        /\ pc[p] \in {"creating", "bookkeeping"} => \E m \in Migrations : First(p, m)
        /\ pc[p] = "creating" => at[p] > 0

Typed == TypeOK /\ Locals

LEMMA FirstVersion ==
    ASSUME NEW p \in Procs, \E m \in Migrations : First(p, m)
    PROVE  Version(p) \in Migrations /\ First(p, Version(p))
BY DEF Version

LEMMA InitTyped == Init => Typed
BY BoundsAreNumbers DEF Init, Typed, TypeOK, Locals, NoDatabase, Database, Places,
   Outcomes, Ids

\* A process that leaves its call keeps none of its locals.
LEMMA LeaveLocals ==
    ASSUME Typed, NEW p \in Procs,
           NEW place \in {"down", "idle"}, Leave(p, place)
    PROVE  Locals'
<1>1. \A q \in Procs \ {p} : /\ pc'[q] = pc[q] /\ known'[q] = known[q] /\ at'[q] = at[q]
                              /\ cur'[q] = cur[q] /\ asked'[q] = asked[q]
  BY DEF Typed, TypeOK, Leave, Goto
<1>2. pc'[p] = place
  BY DEF Typed, TypeOK, Leave, Goto
<1> QED
  BY <1>1, <1>2 DEF Typed, Locals, First, Pending

LEMMA OpeningTyped ==
    ASSUME Typed, NEW p \in Procs, Opening(p)
    PROVE  Typed'
<1> USE DEF Typed, scopeVars, faultVars, fileVars, procVars
<1>1. CASE Open(p)
  <2>1. TypeOK'
    BY <1>1 DEF Open, TypeOK, Goto, Places, Database
  <2>2. Locals'
    BY <1>1 DEF Open, TypeOK, Locals, Goto, First, Pending
  <2> QED
    BY <2>1, <2>2
<1>2. CASE BeginMigration(p)
  <2>1. TypeOK'
    BY <1>2 DEF BeginMigration, TypeOK, Goto, Places
  <2>2. Locals'
    BY <1>2 DEF BeginMigration, TypeOK, Locals, Goto, First, Pending
  <2> QED
    BY <2>1, <2>2
<1>3. CASE CreateTable(p)
  <2>1. Version(p) \in Migrations /\ at[p] \in 1..Len(Creates[Version(p)])
    BY <1>3, FirstVersion DEF CreateTable, Locals, TypeOK
  <2>2. Creates[Version(p)][at[p]] \in Names
    BY <2>1, MigrationsAreNumbered
  <2>3. draft' \in Database
    BY <1>3, <2>2, WriteTypes DEF CreateTable, TypeOK
  <2>4. TypeOK'
    BY <1>3, <2>3 DEF CreateTable, TypeOK
  <2>5. Locals'
    BY <1>3 DEF CreateTable, TypeOK, Locals, First, Pending
  <2> QED
    BY <2>4, <2>5
<1>4. CASE RecordMigration(p)
  <2>1. Version(p) \in Migrations
    BY <1>4, FirstVersion DEF RecordMigration, Locals
  <2>2. draft' \in Database
    BY <1>4, <2>1, WriteTypes DEF RecordMigration, TypeOK
  <2>3. TypeOK'
    BY <1>4, <2>2 DEF RecordMigration, TypeOK, Goto, Places
  <2>4. Locals'
    BY <1>4 DEF RecordMigration, TypeOK, Locals, Goto, First, Pending
  <2> QED
    BY <2>3, <2>4
<1>5. CASE CommitMigration(p)
  <2>1. Version(p) \in Migrations
    BY <1>5, FirstVersion DEF CommitMigration, Locals
  <2>2. TypeOK'
    BY <1>5, <2>1, FileTypes DEF CommitMigration, TypeOK, Goto, Places
  <2>3. Locals'
    BY <1>5 DEF CommitMigration, TypeOK, Locals, Goto, First, Pending
  <2> QED
    BY <2>2, <2>3
<1>6. CASE RefuseMigration(p)
  <2>1. Rollback(p) /\ Leave(p, "down") /\ UNCHANGED <<scopeVars, acked, faultVars>>
    BY <1>6 DEF RefuseMigration
  <2>2. TypeOK'
    BY <2>1, LeaveTypes, FileTypes DEF TypeOK, Places
  <2>3. Locals'
    BY <2>1, LeaveLocals
  <2> QED
    BY <2>2, <2>3
<1>7. CASE Opened(p)
  <2>1. Leave(p, "idle") /\ UNCHANGED <<fileVars, scopeVars, acked, faultVars>>
    BY <1>7 DEF Opened
  <2>2. TypeOK'
    BY <2>1, LeaveTypes DEF TypeOK, Places
  <2>3. Locals'
    BY <2>1, LeaveLocals
  <2> QED
    BY <2>2, <2>3
<1> QED
  BY <1>1, <1>2, <1>3, <1>4, <1>5, <1>6, <1>7 DEF Opening

LEMMA SettledTypes ==
    ASSUME TypeOK, NEW old, NEW new \in Outcomes
    PROVE  Settled(old, new) \in [Ids -> Outcomes]
BY DEF TypeOK, Settled

LEMMA RunningTyped ==
    ASSUME Typed, NEW p \in Procs, Running(p)
    PROVE  Typed'
<1> USE DEF Typed, scopeVars, faultVars, fileVars, procVars
<1>1. CASE CommitLeftover(p)
  <2>1. outcome' \in [Ids -> Outcomes]
    BY <1>1, SettledTypes DEF CommitLeftover, Outcomes
  <2>2. TypeOK'
    BY <1>1, <2>1, FileTypes DEF CommitLeftover, TypeOK
  <2>3. Locals'
    BY <1>1 DEF CommitLeftover, Locals, First, Pending
  <2> QED
    BY <2>2, <2>3
<1>2. ASSUME NEW k \in Kinds, BeginScope(p, k)
      PROVE  Typed'
  <2>1. begun + 1 \in Ids /\ begun + 1 \in 0..MaxScopes
    BY <1>2, BoundsAreNumbers DEF BeginScope, TypeOK, Ids
  <2>2. TypeOK'
    BY <1>2, <2>1 DEF BeginScope, TypeOK, Goto, Places, Outcomes
  <2>3. Locals'
    BY <1>2, <2>1 DEF BeginScope, TypeOK, Locals, Goto, First, Pending
  <2> QED
    BY <2>2, <2>3
<1>3. ASSUME draft' \in Database, depth' \in [Procs -> Nat], pc[p] = "running", Advance(p)
      PROVE  Typed'
  <2>1. TypeOK'
    BY <1>3 DEF Advance, TypeOK
  <2>2. Locals'
    BY <1>3 DEF Advance, TypeOK, Locals, First, Pending
  <2> QED
    BY <2>1, <2>2
<1>4. CASE EnterNested(p)
  BY <1>3, <1>4 DEF EnterNested, Reaches, TypeOK
<1>5. CASE ExitNested(p)
  BY <1>3, <1>5 DEF ExitNested, Reaches, TypeOK
<1>6. ASSUME NEW row \in Rows, Upsert(p, row)
      PROVE  Typed'
  <2>1. cur[p] \in Ids
    BY <1>6 DEF Upsert, Reaches, Locals
  <2>2. draft' \in Database
    BY <1>6, <2>1, WriteTypes DEF Upsert, TypeOK
  <2> QED
    BY <1>3, <1>6, <2>2 DEF Upsert, Reaches, TypeOK
<1>7. CASE AppendAudit(p)
  <2>1. cur[p] \in Ids /\ at[p] \in Nat
    BY <1>7 DEF AppendAudit, Reaches, Locals, TypeOK
  <2>2. draft' \in Database
    BY <1>7, <2>1, WriteTypes DEF AppendAudit, TypeOK
  <2> QED
    BY <1>3, <1>7, <2>2 DEF AppendAudit, Reaches, TypeOK
<1>8. CASE CommitScope(p) \/ CommitScopeFails(p) \/ Raise(p)
  <2>1. Leave(p, "idle") /\ pc[p] = "running"
    BY <1>8 DEF CommitScope, CommitScopeFails, Raise, Reaches
  <2>2. /\ db' \in Database /\ draft' \in Database
        /\ lock' \in Procs \cup {Free}
    BY <1>8, FileTypes DEF CommitScope, CommitScopeFails, Raise, TypeOK
  <2>3. outcome' \in [Ids -> Outcomes]
    BY <1>8 DEF CommitScope, CommitScopeFails, Raise, TypeOK, Outcomes
  <2>4. badCommits' \in Nat /\ UNCHANGED <<kind, begun, acked, crashes>>
    BY <1>8 DEF CommitScope, CommitScopeFails, Raise, TypeOK
  <2>5. TypeOK'
    BY <2>1, <2>2, <2>3, <2>4, LeaveTypes DEF TypeOK, Places
  <2> QED
    BY <2>1, <2>5, LeaveLocals
<1> QED
  BY <1>1, <1>2, <1>4, <1>5, <1>6, <1>7, <1>8 DEF Running

LEMMA RecordingTyped ==
    ASSUME Typed, NEW p \in Procs, Recording(p)
    PROVE  Typed'
<1> USE DEF Typed, scopeVars, faultVars, fileVars, procVars
<1>1. ASSUME NEW e \in Events, NEW c \in Contents, AcknowledgeReplay(p, e, c)
      PROVE  Typed'
  BY <1>1 DEF AcknowledgeReplay, TypeOK, Locals, First, Pending
<1>2. ASSUME NEW e \in Events, NEW c \in Contents, LookForEvent(p, e, c)
      PROVE  Typed'
  <2>1. TypeOK'
    BY <1>2 DEF LookForEvent, TypeOK, Goto, Places
  <2>2. Locals'
    BY <1>2 DEF LookForEvent, TypeOK, Locals, Goto, First, Pending
  <2> QED
    BY <2>1, <2>2
<1>3. CASE InsertEvent(p)
  <2>1. PICK e \in Events, c \in Contents : asked[p] = <<e, c>>
    BY <1>3 DEF InsertEvent, Locals
  <2>2. draft' \in Database
    BY <1>3, <2>1, WriteTypes DEF InsertEvent, TypeOK
  <2>3. TypeOK'
    BY <1>3, <2>2 DEF InsertEvent, TypeOK, Goto, Places
  <2>4. Locals'
    BY <1>3 DEF InsertEvent, TypeOK, Locals, Goto, First, Pending
  <2> QED
    BY <2>3, <2>4
<1>4. CASE InsertRefused(p) \/ InsertBusy(p) \/ CommitEvent(p) \/ CommitEventFails(p)
  <2>1. Leave(p, "idle") /\ asked[p] \in Events \X Contents
    BY <1>4 DEF InsertRefused, InsertBusy, CommitEvent, CommitEventFails, Locals
  <2>2. db' \in Database /\ draft' \in Database /\ lock' \in Procs \cup {Free}
    BY <1>4, FileTypes DEF InsertRefused, InsertBusy, CommitEvent, CommitEventFails, TypeOK
  <2>3. outcome' \in [Ids -> Outcomes]
    BY <1>4, SettledTypes DEF InsertRefused, InsertBusy, CommitEvent, CommitEventFails,
       TypeOK, Outcomes
  <2>4. /\ UNCHANGED <<kind, begun, crashes>>
        /\ badCommits' \in Nat /\ acked' \subseteq Events \X Contents
    BY <1>4, <2>1 DEF InsertRefused, InsertBusy, CommitEvent, CommitEventFails, TypeOK
  <2>5. TypeOK'
    BY <2>1, <2>2, <2>3, <2>4, LeaveTypes DEF TypeOK, Places
  <2> QED
    BY <2>1, <2>5, LeaveLocals
<1> QED
  BY <1>1, <1>2, <1>3, <1>4 DEF Recording

LEMMA CrashTyped ==
    ASSUME Typed, NEW p \in Procs, Crash(p)
    PROVE  Typed'
<1>1. Leave(p, "down") /\ Rollback(p)
  BY DEF Crash
<1>2. outcome' \in [Ids -> Outcomes]
  BY DEF Crash, Typed, TypeOK, Outcomes
<1>3. TypeOK'
  BY <1>1, <1>2, LeaveTypes, FileTypes DEF Crash, Typed, TypeOK, Places
<1> QED
  BY <1>1, <1>3, LeaveLocals DEF Typed

LEMMA NextTyped == Typed /\ [Next]_vars => Typed'
<1>1. Typed /\ UNCHANGED vars => Typed'
  BY DEF vars, fileVars, procVars, scopeVars, faultVars, Typed, TypeOK, Locals, First, Pending
<1> QED
  BY <1>1, OpeningTyped, RunningTyped, RecordingTyped, CrashTyped DEF Next

\* Every variable of the store keeps its type.
THEOREM StoreTypes == Spec => []TypeOK
<1>1. Typed => TypeOK
  BY DEF Typed
<1> QED
  BY <1>1, InitTyped, NextTyped, PTL DEF Spec

-----------------------------------------------------------------------------
\* The write lock.

\* Nobody is in the middle of a write without the lock; a connection that is
\* not open yet has none, and without a holder there is nothing uncommitted.
Writing == {"creating", "bookkeeping", "running", "inserted"}
Locked ==
    /\ lock = Free => draft = db
    /\ \A p \in Procs : pc[p] \in Writing => lock = p
    /\ \A p \in Procs : lock = p => pc[p] \notin {"down", "opening"}

Guarded == Typed /\ Locked

LEMMA InitLocked == Init => Locked
BY FreeIsNoProcess DEF Init, Locked, Writing

LEMMA OpeningLocked ==
    ASSUME Guarded, NEW p \in Procs, Opening(p)
    PROVE  Locked'
<1> USE FreeIsNoProcess DEF Guarded, Typed, TypeOK, Locked, Writing, scopeVars, faultVars,
        fileVars, procVars, Goto
<1>1. CASE Open(p)
  BY <1>1 DEF Open
<1>2. CASE BeginMigration(p)
  BY <1>2 DEF BeginMigration
<1>3. CASE CreateTable(p)
  BY <1>3 DEF CreateTable
<1>4. CASE RecordMigration(p)
  BY <1>4 DEF RecordMigration
<1>5. CASE CommitMigration(p)
  BY <1>5 DEF CommitMigration, Commit
<1>6. CASE RefuseMigration(p)
  BY <1>6 DEF RefuseMigration, Rollback, Leave
<1>7. CASE Opened(p)
  BY <1>7 DEF Opened, Leave
<1> QED
  BY <1>1, <1>2, <1>3, <1>4, <1>5, <1>6, <1>7 DEF Opening

LEMMA RunningLocked ==
    ASSUME Guarded, NEW p \in Procs, Running(p)
    PROVE  Locked'
<1> USE FreeIsNoProcess DEF Guarded, Typed, TypeOK, Locked, Writing, scopeVars, faultVars,
        fileVars, procVars, Goto
<1>1. CASE CommitLeftover(p)
  BY <1>1 DEF CommitLeftover, Commit
<1>2. ASSUME NEW k \in Kinds, BeginScope(p, k)
      PROVE  Locked'
  BY <1>2 DEF BeginScope
<1>3. ASSUME pc[p] = "running", Advance(p)
      PROVE  Locked'
  BY <1>3 DEF Advance
<1>4. CASE EnterNested(p) \/ ExitNested(p) \/ AppendAudit(p) \/ \E row \in Rows : Upsert(p, row)
  BY <1>3, <1>4 DEF EnterNested, ExitNested, AppendAudit, Upsert, Reaches
<1>5. CASE CommitScope(p)
  BY <1>5 DEF CommitScope, Commit, Leave, Reaches
<1>6. CASE CommitScopeFails(p)
  BY <1>6 DEF CommitScopeFails, Leave, Reaches
<1>7. CASE Raise(p)
  BY <1>7 DEF Raise, Rollback, Leave
<1> QED
  BY <1>1, <1>2, <1>4, <1>5, <1>6, <1>7 DEF Running

LEMMA RecordingLocked ==
    ASSUME Guarded, NEW p \in Procs, Recording(p)
    PROVE  Locked'
<1> USE FreeIsNoProcess DEF Guarded, Typed, TypeOK, Locked, Writing, scopeVars, faultVars,
        fileVars, procVars, Goto
<1>1. CASE \E e \in Events, c \in Contents : AcknowledgeReplay(p, e, c)
  BY <1>1 DEF AcknowledgeReplay
<1>2. CASE \E e \in Events, c \in Contents : LookForEvent(p, e, c)
  BY <1>2 DEF LookForEvent
<1>3. CASE InsertEvent(p)
  BY <1>3 DEF InsertEvent
<1>4. CASE InsertRefused(p)
  BY <1>4 DEF InsertRefused, Leave
<1>5. CASE InsertBusy(p)
  BY <1>5 DEF InsertBusy, Leave
<1>6. CASE CommitEvent(p)
  BY <1>6 DEF CommitEvent, Commit, Leave
<1>7. CASE CommitEventFails(p)
  BY <1>7 DEF CommitEventFails, Leave
<1> QED
  BY <1>1, <1>2, <1>3, <1>4, <1>5, <1>6, <1>7 DEF Recording

LEMMA CrashLocked ==
    ASSUME Guarded, NEW p \in Procs, Crash(p)
    PROVE  Locked'
BY FreeIsNoProcess DEF Guarded, Typed, TypeOK, Locked, Writing, Crash, Rollback, Leave, Goto

LEMMA NextGuarded == Guarded /\ [Next]_vars => Guarded'
<1>1. Guarded /\ UNCHANGED vars => Locked'
  BY DEF vars, fileVars, Guarded, Locked
<1> QED
  BY <1>1, NextTyped, OpeningLocked, RunningLocked, RecordingLocked, CrashLocked
  DEF Next, Guarded

-----------------------------------------------------------------------------
\* The schema and its record.

Closed(versions) == \A m \in versions, n \in Migrations : n <= m => n \in versions
Starting == {"opening", "creating", "bookkeeping"}
Migrating == {"creating", "bookkeeping"}

\* What a starting process believes applied is applied, though there may be more.
Beliefs ==
    \A p \in Procs : pc[p] \in Starting => known[p] \subseteq db.applied /\ Closed(known[p])

\* The tables of a migration that has come to statement i.
Made(m, i) == {name \in Names : \E j \in DOMAIN Creates[m] : j < i /\ Creates[m][j] = name}

\* How far the draft of a migrating process is ahead of the file; nobody else's is.
Drafted ==
    /\ \A p \in Procs : pc[p] = "creating" =>
         /\ draft.applied = db.applied
         /\ \A m \in Migrations : First(p, m) => draft.tables = db.tables \cup Made(m, at[p])
    /\ \A p \in Procs : pc[p] = "bookkeeping" =>
         /\ \A m \in Migrations : First(p, m) => draft.applied = db.applied \cup {m}
         /\ draft.tables = CreatedBy(draft.applied)
    /\ (\A p \in Procs : pc[p] \notin Migrating) =>
         draft.tables = db.tables /\ draft.applied = db.applied

Schema == SchemaIsRecorded /\ Beliefs /\ Drafted

LEMMA InitSchema == Init => Schema
BY DEF Init, Schema, SchemaIsRecorded, Beliefs, Drafted, NoDatabase, CreatedBy, Starting,
   Migrating

LEMMA OneFirst ==
    ASSUME NEW p \in Procs, NEW m \in Migrations, NEW n \in Migrations,
           First(p, m), First(p, n)
    PROVE  m = n
BY MigrationsAreNumbered DEF First, Pending

\* Whoever holds the lock and migrates nothing has the file's schema in its draft.
LEMMA SameSchema ==
    ASSUME Guarded, Schema, NEW p \in Procs, lock = p, pc[p] \notin Migrating
    PROVE  draft.tables = db.tables /\ draft.applied = db.applied
<1>1. \A q \in Procs : pc[q] \notin Migrating
  BY DEF Guarded, Locked, Writing, Migrating
<1> QED
  BY <1>1 DEF Schema, Drafted

\* A step that leaves the file's schema alone, and after which its process is in
\* the middle of no migration: it was in none, or its draft was dropped.
LEMMA SchemaAside ==
    ASSUME Guarded, Schema, NEW p \in Procs,
           pc'[p] \in Starting => known'[p] \subseteq db.applied /\ Closed(known'[p]),
           pc'[p] \notin Migrating,
           \A q \in Procs \ {p} : /\ pc'[q] = pc[q] /\ known'[q] = known[q]
                                  /\ at'[q] = at[q],
           db'.tables = db.tables, db'.applied = db.applied,
           \/ /\ pc[p] \notin Migrating
              /\ draft'.tables = draft.tables /\ draft'.applied = draft.applied
           \/ /\ lock = p
              /\ draft'.tables = db.tables /\ draft'.applied = db.applied
    PROVE  Schema'
<1>1. SchemaIsRecorded'
  BY DEF Schema, SchemaIsRecorded, CreatedBy
<1>2. Beliefs'
  BY DEF Schema, Beliefs, Starting, Closed
<1>3. \A q \in Procs : pc'[q] \in Migrating => q # p /\ pc[q] \in Migrating
  OBVIOUS
<1>4. \A q \in Procs, m \in Migrations : q # p => (First(q, m)' <=> First(q, m))
  BY DEF First, Pending
<1>5. lock = p => \A q \in Procs : q # p => pc[q] \notin Migrating
  BY DEF Guarded, Locked, Writing, Migrating
<1>6. CASE \A q \in Procs : pc'[q] \notin Migrating
  <2>1. draft'.tables = db'.tables /\ draft'.applied = db'.applied
    BY <1>5, <1>6 DEF Schema, Drafted
  <2>2. Drafted'
    BY <1>6, <2>1 DEF Drafted, Migrating
  <2> QED
    BY <1>1, <1>2, <2>2 DEF Schema
<1>7. CASE \E q \in Procs : pc'[q] \in Migrating
  <2>1. draft'.tables = draft.tables /\ draft'.applied = draft.applied
    BY <1>3, <1>5, <1>7
  <2>2. ASSUME NEW q \in Procs, pc'[q] = "creating"
        PROVE  /\ draft'.applied = db'.applied
               /\ \A m \in Migrations : First(q, m)' =>
                    draft'.tables = db'.tables \cup Made(m, at'[q])
    BY <2>1, <2>2, <1>3, <1>4 DEF Schema, Drafted, Migrating
  <2>3. ASSUME NEW q \in Procs, pc'[q] = "bookkeeping"
        PROVE  /\ \A m \in Migrations : First(q, m)' => draft'.applied = db'.applied \cup {m}
               /\ draft'.tables = CreatedBy(draft'.applied)
    BY <2>1, <2>3, <1>3, <1>4 DEF Schema, Drafted, Migrating
  <2>4. Drafted'
    BY <1>7, <2>2, <2>3 DEF Drafted, Made, CreatedBy
  <2> QED
    BY <1>1, <1>2, <2>4 DEF Schema
<1> QED
  BY <1>6, <1>7

\* Only the process that migrates is in the middle of a migration.
LEMMA OneMigrates ==
    ASSUME Guarded, NEW p \in Procs, lock \in {p, Free}
    PROVE  \A q \in Procs \ {p} : pc[q] \notin Migrating
BY FreeIsNoProcess DEF Guarded, Locked, Writing, Migrating

LEMMA OpeningSchema ==
    ASSUME Guarded, Schema, NEW p \in Procs, Opening(p)
    PROVE  Schema'
<1> USE DEF scopeVars, faultVars, fileVars, procVars, Goto
<1> TypeOK
  BY DEF Guarded, Typed
<1>1. CASE Open(p)
  BY <1>1, SchemaAside DEF Open, TypeOK, Schema, SchemaIsRecorded, Closed, Migrating
<1>2. CASE BeginMigration(p)
  <2>1. /\ pc[p] = "opening" /\ pc'[p] = "creating" /\ at'[p] = 1 /\ UNCHANGED <<db, draft, known>>
        /\ \A q \in Procs \ {p} : pc'[q] = pc[q]
    BY <1>2 DEF BeginMigration, TypeOK
  <2>2. \A q \in Procs \ {p} : pc'[q] \notin Migrating
    BY <1>2, <2>1, OneMigrates DEF BeginMigration
  <2>3. draft = db
    BY <1>2 DEF BeginMigration, Guarded, Locked
  <2>4. \A m \in Migrations : Made(m, 1) = {}
    BY MigrationsAreNumbered DEF Made
  <2>5. Drafted'
    BY <2>1, <2>2, <2>3, <2>4 DEF Drafted, Migrating
  <2>6. SchemaIsRecorded' /\ Beliefs'
    BY <2>1 DEF Schema, SchemaIsRecorded, Beliefs, Starting, CreatedBy
  <2> QED
    BY <2>5, <2>6 DEF Schema
<1>3. CASE CreateTable(p)
  <2> DEFINE v == Version(p)  name == Creates[v][at[p]]
  <2>1. v \in Migrations /\ First(p, v) /\ at[p] \in DOMAIN Creates[v]
    BY <1>3, FirstVersion, MigrationsAreNumbered
    DEF CreateTable, Guarded, Typed, Locals, TypeOK
  <2>2. name \in Names
    <3> HIDE DEF v
    <3>1. Creates[v] \in Seq(Names)
      BY <2>1, MigrationsAreNumbered
    <3> QED
      BY <2>1, <3>1
  <2> HIDE DEF v, name
  <2>3. /\ pc[p] = "creating" /\ UNCHANGED <<db, pc, known>> /\ at'[p] = at[p] + 1
        /\ draft' = [draft EXCEPT !.tables = @ \cup {name}]
    BY <1>3 DEF CreateTable, TypeOK, v, name
  <2>4. draft'.tables = draft.tables \cup {name} /\ draft'.applied = draft.applied
    BY <2>3 DEF TypeOK, Database
  <2>5. Made(v, at[p] + 1) = Made(v, at[p]) \cup {name}
    <3>1. \A j \in DOMAIN Creates[v] : j < at[p] + 1 <=> j < at[p] \/ j = at[p]
      BY <2>1, MigrationsAreNumbered
    <3> QED
      BY <2>1, <2>2, <3>1 DEF Made, name
  <2>6. \A q \in Procs \ {p} : pc'[q] \notin Migrating
    BY <2>3, OneMigrates DEF Guarded, Locked, Writing
  <2>7. draft.applied = db.applied /\ draft.tables = db.tables \cup Made(v, at[p])
    BY <2>1, <2>3 DEF Schema, Drafted
  <2>8. \A m \in Migrations : First(p, m)' => m = v
    BY <2>1, <2>3, OneFirst DEF First, Pending
  <2>9. Drafted'
    BY <2>3, <2>4, <2>5, <2>6, <2>7, <2>8 DEF Drafted, Migrating
  <2>10. SchemaIsRecorded' /\ Beliefs'
    BY <2>3 DEF Schema, SchemaIsRecorded, Beliefs, CreatedBy
  <2> QED
    BY <2>9, <2>10 DEF Schema
<1>4. CASE RecordMigration(p)
  <2> DEFINE v == Version(p)
  <2>1. v \in Migrations /\ First(p, v)
    BY <1>4, FirstVersion DEF RecordMigration, Guarded, Typed, Locals
  <2>2. /\ pc[p] = "creating" /\ UNCHANGED <<db, known, at>> /\ pc' = [pc EXCEPT ![p] = "bookkeeping"]
        /\ draft' = [draft EXCEPT !.applied = @ \cup {v}] /\ at[p] > Len(Creates[v])
    BY <1>4 DEF RecordMigration
  <2> HIDE DEF v
  <2>3. draft'.tables = draft.tables /\ draft'.applied = draft.applied \cup {v}
    BY <2>2 DEF TypeOK, Database
  <2>4. Made(v, at[p]) = CreatedBy({v})
    <3>1. \A j \in DOMAIN Creates[v] : j < at[p]
      BY <2>1, <2>2, MigrationsAreNumbered DEF TypeOK
    <3> QED
      BY <3>1 DEF Made, CreatedBy
  <2>5. \A q \in Procs \ {p} : pc'[q] \notin Migrating
    BY <2>2, OneMigrates DEF Guarded, Locked, Writing, TypeOK
  <2>6. draft.applied = db.applied /\ draft.tables = db.tables \cup Made(v, at[p])
    BY <2>1, <2>2 DEF Schema, Drafted
  <2>7. draft'.tables = CreatedBy(draft'.applied)
    BY <2>3, <2>4, <2>6 DEF Schema, SchemaIsRecorded, CreatedBy
  <2>8. \A m \in Migrations : First(p, m)' => m = v
    BY <2>1, <2>2, OneFirst DEF First, Pending
  <2>9. pc'[p] = "bookkeeping"
    BY <2>2 DEF TypeOK
  <2>10. Drafted'
    BY <2>2, <2>3, <2>5, <2>6, <2>7, <2>8, <2>9 DEF Drafted, Migrating
  <2>11. SchemaIsRecorded' /\ Beliefs'
    BY <2>2 DEF Schema, SchemaIsRecorded, Beliefs, CreatedBy, Starting, TypeOK
  <2> QED
    BY <2>10, <2>11 DEF Schema
<1>5. CASE CommitMigration(p)
  <2> DEFINE v == Version(p)
  <2>1. v \in Migrations /\ First(p, v)
    BY <1>5, FirstVersion DEF CommitMigration, Guarded, Typed, Locals
  <2>2. /\ pc[p] = "bookkeeping" /\ lock = p /\ db' = draft /\ UNCHANGED draft
        /\ pc' = [pc EXCEPT ![p] = "opening"] /\ known' = [known EXCEPT ![p] = @ \cup {v}]
    BY <1>5 DEF CommitMigration, Commit
  <2> HIDE DEF v
  <2>3. draft.applied = db.applied \cup {v} /\ draft.tables = CreatedBy(draft.applied)
    BY <2>1, <2>2 DEF Schema, Drafted
  <2>4. known[p] \subseteq db.applied /\ Closed(known[p])
    BY <2>2 DEF Schema, Beliefs, Starting
  <2>5. \A n \in Migrations : n <= v => n \in known[p] \/ n = v
    BY <2>1, MigrationsAreNumbered DEF First, Pending
  <2>6. SchemaIsRecorded'
    BY <2>2, <2>3, <2>4, <2>5 DEF Schema, SchemaIsRecorded, CreatedBy
  <2>7. known'[p] = known[p] \cup {v} /\ pc'[p] = "opening"
    BY <2>2 DEF TypeOK
  <2>8. Closed(known'[p])
    BY <2>4, <2>5, <2>7 DEF Closed
  <2>9. \A q \in Procs \ {p} : pc'[q] = pc[q] /\ known'[q] = known[q]
    BY <2>2 DEF TypeOK
  <2>10. Beliefs'
    BY <2>2, <2>3, <2>4, <2>7, <2>8, <2>9 DEF Schema, Beliefs, Closed
  <2>11. \A q \in Procs : pc'[q] \notin Migrating
    BY <2>2, <2>7, <2>9, OneMigrates DEF Migrating
  <2>12. Drafted'
    BY <2>2, <2>11 DEF Drafted, Migrating
  <2> QED
    BY <2>6, <2>10, <2>12 DEF Schema
<1>6. CASE RefuseMigration(p)
  <2>1. /\ pc'[p] = "down"
        /\ \A q \in Procs \ {p} : pc'[q] = pc[q] /\ known'[q] = known[q] /\ at'[q] = at[q]
    BY <1>6 DEF RefuseMigration, Leave, TypeOK
  <2>2. UNCHANGED db
    BY <1>6 DEF RefuseMigration, Rollback
  <2>3. \/ pc[p] = "opening" /\ draft' = draft
        \/ lock = p /\ draft' = db
    BY <1>6 DEF RefuseMigration, Rollback, Guarded, Locked, Writing
  <2> QED
    BY <2>1, <2>2, <2>3, SchemaAside DEF Starting, Migrating
<1>7. CASE Opened(p)
  <2>1. /\ pc'[p] = "idle" /\ pc[p] = "opening" /\ UNCHANGED fileVars
        /\ \A q \in Procs \ {p} : pc'[q] = pc[q] /\ known'[q] = known[q] /\ at'[q] = at[q]
    BY <1>7 DEF Opened, Leave, TypeOK
  <2> QED
    BY <2>1, SchemaAside DEF Starting, Migrating
<1> QED
  BY <1>1, <1>2, <1>3, <1>4, <1>5, <1>6, <1>7 DEF Opening

\* Everything a step does to a process is done to its own.
LEMMA LeaveAlone ==
    ASSUME TypeOK, NEW p \in Procs, NEW place, Leave(p, place)
    PROVE  /\ pc'[p] = place
           /\ \A q \in Procs \ {p} : /\ pc'[q] = pc[q] /\ known'[q] = known[q]
                                     /\ at'[q] = at[q]
BY DEF TypeOK, Leave, Goto

LEMMA RunningSchema ==
    ASSUME Guarded, Schema, NEW p \in Procs, Running(p)
    PROVE  Schema'
<1> USE DEF scopeVars, faultVars, fileVars, procVars, Starting, Migrating
<1> TypeOK
  BY DEF Guarded, Typed
<1>1. CASE CommitLeftover(p)
  BY <1>1, SameSchema, SchemaAside DEF CommitLeftover, Commit
<1>2. ASSUME NEW k \in Kinds, BeginScope(p, k)
      PROVE  Schema'
  BY <1>2, SchemaAside DEF BeginScope, TypeOK, Goto
<1>3. ASSUME pc[p] = "running", Advance(p), draft'.tables = draft.tables,
             draft'.applied = draft.applied
      PROVE  Schema'
  BY <1>3, SchemaAside DEF Advance, TypeOK
<1>4. CASE EnterNested(p) \/ ExitNested(p)
  BY <1>3, <1>4 DEF EnterNested, ExitNested, Reaches
<1>5. ASSUME NEW row \in Rows, Upsert(p, row)
      PROVE  Schema'
  <2>1. draft'.tables = draft.tables /\ draft'.applied = draft.applied
    BY <1>5 DEF Upsert, TypeOK, Database
  <2> QED
    BY <1>3, <1>5, <2>1 DEF Upsert, Reaches
<1>6. CASE AppendAudit(p)
  <2>1. draft'.tables = draft.tables /\ draft'.applied = draft.applied
    BY <1>6 DEF AppendAudit, TypeOK, Database
  <2> QED
    BY <1>3, <1>6, <2>1 DEF AppendAudit, Reaches
<1>7. CASE CommitScope(p) \/ CommitScopeFails(p) \/ Raise(p)
  <2>1. pc[p] = "running" /\ Leave(p, "idle")
    BY <1>7 DEF CommitScope, CommitScopeFails, Raise, Reaches
  <2>2. lock = p
    BY <2>1 DEF Guarded, Locked, Writing
  <2>3. \/ db' = draft /\ draft' = draft
        \/ db' = db /\ (draft' = draft \/ draft' = db)
    BY <1>7 DEF CommitScope, CommitScopeFails, Raise, Commit, Rollback
  <2> QED
    BY <2>1, <2>2, <2>3, LeaveAlone, SameSchema, SchemaAside
<1> QED
  BY <1>1, <1>2, <1>4, <1>5, <1>6, <1>7 DEF Running

LEMMA RecordingSchema ==
    ASSUME Guarded, Schema, NEW p \in Procs, Recording(p)
    PROVE  Schema'
<1> USE DEF scopeVars, faultVars, fileVars, procVars, Starting, Migrating
<1> TypeOK
  BY DEF Guarded, Typed
<1>1. CASE \E e \in Events, c \in Contents : AcknowledgeReplay(p, e, c)
  BY <1>1, SchemaAside DEF AcknowledgeReplay
<1>2. CASE \E e \in Events, c \in Contents : LookForEvent(p, e, c)
  BY <1>2, SchemaAside DEF LookForEvent, TypeOK, Goto
<1>3. CASE InsertEvent(p)
  <2>1. draft'.tables = draft.tables /\ draft'.applied = draft.applied
    BY <1>3 DEF InsertEvent, TypeOK, Database
  <2> QED
    BY <1>3, <2>1, SchemaAside DEF InsertEvent, TypeOK, Goto
<1>4. CASE InsertRefused(p) \/ InsertBusy(p) \/ CommitEventFails(p)
  <2>1. pc[p] \in {"inserting", "inserted"} /\ Leave(p, "idle") /\ UNCHANGED <<db, draft>>
    BY <1>4 DEF InsertRefused, InsertBusy, CommitEventFails
  <2> QED
    BY <2>1, LeaveAlone, SchemaAside
<1>5. CASE CommitEvent(p)
  <2>1. pc[p] = "inserted" /\ Leave(p, "idle") /\ Commit(p)
    BY <1>5 DEF CommitEvent
  <2> QED
    BY <2>1, LeaveAlone, SameSchema, SchemaAside DEF Commit
<1> QED
  BY <1>1, <1>2, <1>3, <1>4, <1>5 DEF Recording

LEMMA CrashSchema ==
    ASSUME Guarded, Schema, NEW p \in Procs, Crash(p)
    PROVE  Schema'
<1> TypeOK
  BY DEF Guarded, Typed
<1>1. Leave(p, "down") /\ Rollback(p)
  BY DEF Crash
<1>2. CASE lock = p
  BY <1>1, <1>2, LeaveAlone, SchemaAside DEF Rollback, Starting, Migrating
<1>3. CASE lock # p
  <2>1. pc[p] \notin Migrating
    BY <1>3 DEF Guarded, Locked, Writing, Migrating
  <2> QED
    BY <1>1, <1>3, <2>1, LeaveAlone, SchemaAside DEF Rollback, Starting, Migrating
<1> QED
  BY <1>2, <1>3

LEMMA NextSchema == Guarded /\ Schema /\ [Next]_vars => Schema'
<1>1. ASSUME Schema, UNCHANGED vars
      PROVE  Schema'
  <2>1. UNCHANGED <<db, draft, pc, known, at>>
    BY <1>1 DEF vars, fileVars, procVars
  <2>2. SchemaIsRecorded' /\ Beliefs'
    BY <1>1, <2>1 DEF Schema, SchemaIsRecorded, Beliefs, CreatedBy
  <2>3. \A p \in Procs, m \in Migrations : First(p, m)' <=> First(p, m)
    BY <2>1 DEF First, Pending
  <2>4. Drafted'
    BY <1>1, <2>1, <2>3 DEF Schema, Drafted
  <2> QED
    BY <2>2, <2>4 DEF Schema
<1> QED
  BY <1>1, OpeningSchema, RunningSchema, RecordingSchema, CrashSchema DEF Next

\* Types hold, and only the connection with the lock has writes that are not in
\* the file (BEGIN IMMEDIATE).
THEOREM StoreGuarded == Spec => []Guarded
BY InitTyped, InitLocked, NextGuarded, PTL DEF Spec, Guarded

\* Whatever starting processes and their ends do to each other, the tables of the
\* file are those of the migrations it records, which are the first ones.
THEOREM SchemaRecorded == Spec => []SchemaIsRecorded
<1>1. Schema => SchemaIsRecorded
  BY DEF Schema
<1> QED
  BY <1>1, InitSchema, NextSchema, StoreGuarded, PTL DEF Spec

-----------------------------------------------------------------------------
\* The cost ledger.

\* A draft never drops a committed cost; and as long as every COMMIT succeeded,
\* it adds only the one that its process is about to commit.
Ledger ==
    /\ \A e \in Events : db.costs[e] # Nothing => draft.costs[e] = db.costs[e]
    /\ badCommits = 0 =>
         /\ \A ack \in acked : db.costs[ack[1]] = ack[2]
         /\ (\A p \in Procs : pc[p] # "inserted") => draft.costs = db.costs
         /\ \A p \in Procs : pc[p] = "inserted" => draft.costs[asked[p][1]] = asked[p][2]

LEMMA InitLedger == Init => Ledger
BY DEF Init, Ledger

\* A step that adds no cost and accepts none: it leaves the costs alone, commits
\* them, or drops what was not committed.
LEMMA LedgerAside ==
    ASSUME Guarded, Ledger, NEW p \in Procs, acked' = acked, pc'[p] # "inserted",
           badCommits' = 0 => badCommits = 0,
           \A q \in Procs \ {p} : pc'[q] = pc[q] /\ asked'[q] = asked[q],
           \/ /\ pc[p] # "inserted" \/ badCommits' # 0
              /\ db'.costs = db.costs /\ draft'.costs = draft.costs
           \/ lock = p /\ db'.costs = draft.costs /\ draft'.costs = draft.costs
           \/ lock = p /\ db'.costs = db.costs /\ draft'.costs = db.costs
    PROVE  Ledger'
<1>1. \A e \in Events : db'.costs[e] # Nothing => draft'.costs[e] = db'.costs[e]
  BY DEF Ledger
<1>2. ASSUME badCommits' = 0
      PROVE  \A ack \in acked' : db'.costs[ack[1]] = ack[2]
  <2>1. \A ack \in acked : ack[1] \in Events /\ ack[2] # Nothing
    BY NothingIsNoContent DEF Guarded, Typed, TypeOK
  <2> QED
    BY <1>2, <2>1 DEF Ledger
<1>3. lock = p => \A q \in Procs \ {p} : pc[q] # "inserted"
  BY DEF Guarded, Locked, Writing
<1>4. ASSUME badCommits' = 0, \A q \in Procs : pc'[q] # "inserted"
      PROVE  draft'.costs = db'.costs
  BY <1>3, <1>4 DEF Ledger
<1>5. ASSUME badCommits' = 0, NEW q \in Procs, pc'[q] = "inserted"
      PROVE  draft'.costs[asked'[q][1]] = asked'[q][2]
  BY <1>3, <1>5 DEF Ledger
<1> QED
  BY <1>1, <1>2, <1>4, <1>5 DEF Ledger

LEMMA LeaveLedger ==
    ASSUME TypeOK, NEW p \in Procs, NEW place, Leave(p, place)
    PROVE  /\ pc'[p] = place
           /\ \A q \in Procs \ {p} : pc'[q] = pc[q] /\ asked'[q] = asked[q]
BY DEF TypeOK, Leave, Goto

LEMMA OpeningLedger ==
    ASSUME Guarded, Ledger, NEW p \in Procs, Opening(p)
    PROVE  Ledger'
<1> USE DEF scopeVars, faultVars, fileVars, procVars
<1> TypeOK
  BY DEF Guarded, Typed
<1>1. CASE Open(p) \/ BeginMigration(p)
  BY <1>1, LedgerAside DEF Open, BeginMigration, TypeOK, Goto
<1>2. CASE CreateTable(p) \/ RecordMigration(p)
  <2>1. draft'.costs = draft.costs
    BY <1>2 DEF CreateTable, RecordMigration, TypeOK, Database
  <2> QED
    BY <1>2, <2>1, LedgerAside DEF CreateTable, RecordMigration, TypeOK, Goto
<1>3. CASE CommitMigration(p)
  BY <1>3, LedgerAside DEF CommitMigration, Commit, TypeOK, Goto
<1>4. CASE RefuseMigration(p)
  <2>1. Leave(p, "down") /\ Rollback(p) /\ UNCHANGED <<acked, badCommits>> /\ pc[p] # "inserted"
    BY <1>4 DEF RefuseMigration
  <2> QED
    BY <2>1, LeaveLedger, LedgerAside DEF Rollback
<1>5. CASE Opened(p)
  BY <1>5, LeaveLedger, LedgerAside DEF Opened
<1> QED
  BY <1>1, <1>2, <1>3, <1>4, <1>5 DEF Opening

LEMMA RunningLedger ==
    ASSUME Guarded, Ledger, NEW p \in Procs, Running(p)
    PROVE  Ledger'
<1> USE DEF scopeVars, faultVars, fileVars, procVars
<1> TypeOK
  BY DEF Guarded, Typed
<1>1. CASE CommitLeftover(p)
  BY <1>1, LedgerAside DEF CommitLeftover, Commit
<1>2. CASE \E k \in Kinds : BeginScope(p, k)
  BY <1>2, LedgerAside DEF BeginScope, TypeOK, Goto
<1>3. ASSUME pc[p] = "running", Advance(p), draft'.costs = draft.costs
      PROVE  Ledger'
  BY <1>3, LedgerAside DEF Advance
<1>4. CASE EnterNested(p) \/ ExitNested(p)
  BY <1>3, <1>4 DEF EnterNested, ExitNested, Reaches
<1>5. CASE AppendAudit(p) \/ \E row \in Rows : Upsert(p, row)
  <2>1. draft'.costs = draft.costs
    BY <1>5 DEF AppendAudit, Upsert, TypeOK, Database
  <2> QED
    BY <1>3, <1>5, <2>1 DEF AppendAudit, Upsert, Reaches
<1>6. CASE CommitScope(p) \/ Raise(p)
  <2>1. pc[p] = "running" /\ Leave(p, "idle") /\ UNCHANGED <<acked, badCommits>>
    BY <1>6 DEF CommitScope, Raise, Reaches
  <2>2. Commit(p) \/ Rollback(p)
    BY <1>6 DEF CommitScope, Raise
  <2> QED
    BY <2>1, <2>2, LeaveLedger, LedgerAside DEF Commit, Rollback
<1>7. CASE CommitScopeFails(p)
  BY <1>7, LeaveLedger, LedgerAside DEF CommitScopeFails, Reaches, TypeOK
<1> QED
  BY <1>1, <1>2, <1>4, <1>5, <1>6, <1>7 DEF Running

LEMMA RecordingLedger ==
    ASSUME Guarded, Ledger, NEW p \in Procs, Recording(p)
    PROVE  Ledger'
<1> USE DEF scopeVars, faultVars, fileVars, procVars
<1> TypeOK
  BY DEF Guarded, Typed
<1>1. ASSUME NEW e \in Events, NEW c \in Contents, AcknowledgeReplay(p, e, c)
      PROVE  Ledger'
  <2>1. badCommits = 0 => db.costs[e] = c
    <3>1. CASE lock = p
      <4>1. \A q \in Procs : pc[q] # "inserted"
        BY <1>1, <3>1 DEF AcknowledgeReplay, Guarded, Locked, Writing
      <4> QED
        BY <1>1, <3>1, <4>1 DEF AcknowledgeReplay, View, Ledger
    <3>2. CASE lock # p
      BY <1>1, <3>2 DEF AcknowledgeReplay, View
    <3> QED
      BY <3>1, <3>2
  <2> QED
    BY <1>1, <2>1 DEF AcknowledgeReplay, Ledger
<1>2. CASE \E e \in Events, c \in Contents : LookForEvent(p, e, c)
  BY <1>2, LedgerAside DEF LookForEvent, TypeOK, Goto
<1>3. CASE InsertEvent(p)
  <2>1. PICK e \in Events, c \in Contents : asked[p] = <<e, c>>
    BY <1>3 DEF InsertEvent, Guarded, Typed, Locals
  <2>2. /\ draft.costs[e] = Nothing /\ draft' = [draft EXCEPT !.costs[e] = c]
        /\ UNCHANGED <<db, acked, badCommits, asked>>
        /\ pc' = [pc EXCEPT ![p] = "inserted"] /\ lock \in {Free, p}
    BY <1>3, <2>1 DEF InsertEvent, Goto
  <2>3. draft'.costs = [draft.costs EXCEPT ![e] = c]
    BY <2>2 DEF TypeOK, Database
  <2>4. draft'.costs[e] = c /\ \A f \in Events \ {e} : draft'.costs[f] = draft.costs[f]
    BY <2>3 DEF TypeOK, Database
  <2>5. \A q \in Procs \ {p} : pc'[q] # "inserted"
    BY <2>2, FreeIsNoProcess DEF TypeOK, Guarded, Locked, Writing
  <2>6. pc'[p] = "inserted"
    BY <2>2 DEF TypeOK
  <2> QED
    BY <2>1, <2>2, <2>4, <2>5, <2>6 DEF Ledger
<1>4. CASE InsertRefused(p) \/ InsertBusy(p)
  <2>1. /\ pc[p] = "inserting" /\ Leave(p, "idle")
        /\ UNCHANGED <<db, draft, acked, badCommits>>
    BY <1>4 DEF InsertRefused, InsertBusy
  <2> QED
    BY <2>1, LeaveLedger, LedgerAside
<1>5. CASE CommitEvent(p)
  <2>1. /\ pc[p] = "inserted" /\ lock = p /\ db' = draft /\ draft' = draft
        /\ acked' = acked \cup {asked[p]} /\ Leave(p, "idle") /\ badCommits' = badCommits
    BY <1>5 DEF CommitEvent, Commit
  <2>2. \A q \in Procs : pc'[q] # "inserted"
    BY <2>1, LeaveLedger DEF Guarded, Locked, Writing
  <2>3. \A ack \in acked : ack[1] \in Events /\ ack[2] # Nothing
    BY NothingIsNoContent DEF TypeOK
  <2> QED
    BY <2>1, <2>2, <2>3 DEF Ledger
<1>6. CASE CommitEventFails(p)
  <2>1. Leave(p, "idle") /\ badCommits' # 0 /\ UNCHANGED <<db, draft, acked>>
    BY <1>6 DEF CommitEventFails, TypeOK
  <2> QED
    BY <2>1, LeaveLedger, LedgerAside
<1> QED
  BY <1>1, <1>2, <1>3, <1>4, <1>5, <1>6 DEF Recording

LEMMA CrashLedger ==
    ASSUME Guarded, Ledger, NEW p \in Procs, Crash(p)
    PROVE  Ledger'
<1>1. Leave(p, "down") /\ Rollback(p) /\ UNCHANGED <<acked, badCommits>>
  BY DEF Crash
<1>2. lock = p \/ pc[p] # "inserted"
  BY DEF Guarded, Locked, Writing
<1> QED
  BY <1>1, <1>2, LeaveLedger, LedgerAside DEF Rollback, Guarded, Typed

LEMMA NextLedger == Guarded /\ Ledger /\ [Next]_vars => Ledger'
<1>1. Ledger /\ UNCHANGED vars => Ledger'
  BY DEF vars, fileVars, procVars, faultVars, Ledger
<1> QED
  BY <1>1, OpeningLedger, RunningLedger, RecordingLedger, CrashLedger DEF Next

\* The file changes by COMMITs only.
LEMMA FileSteps == [Next]_vars => db' = db \/ db' = draft
<1> USE DEF vars, scopeVars, faultVars, fileVars, procVars
<1>1. ASSUME NEW p \in Procs, Opening(p)
      PROVE  db' = db \/ db' = draft
  BY <1>1 DEF Opening, Open, BeginMigration, CreateTable, RecordMigration, CommitMigration,
     Commit, RefuseMigration, Rollback, Opened
<1>2. ASSUME NEW p \in Procs, Running(p)
      PROVE  db' = db \/ db' = draft
  BY <1>2 DEF Running, CommitLeftover, Commit, BeginScope, EnterNested, ExitNested, Advance,
     Upsert, AppendAudit, CommitScope, CommitScopeFails, Raise, Rollback
<1>3. ASSUME NEW p \in Procs, Recording(p)
      PROVE  db' = db \/ db' = draft
  BY <1>3 DEF Recording, AcknowledgeReplay, LookForEvent, InsertEvent, InsertRefused,
     InsertBusy, CommitEvent, Commit, CommitEventFails
<1>4. ASSUME NEW p \in Procs, Crash(p)
      PROVE  db' = db
  BY <1>4 DEF Crash, Rollback
<1> QED
  BY <1>1, <1>2, <1>3, <1>4 DEF Next

\* A recorded cost event is never changed or dropped, whatever fails.
THEOREM LedgerGrows == Spec => LedgerOnlyGrows
<1>1. Ledger /\ [Next]_vars => [\A e \in Events : db.costs[e] # Nothing => db'.costs[e] = db.costs[e]]_vars
  BY FileSteps DEF Ledger
<1> QED
  BY <1>1, InitLedger, NextLedger, StoreGuarded, PTL DEF Spec, LedgerOnlyGrows

\* As long as no COMMIT failed, a cost event that record() accepted is in the file.
THEOREM AcksAreStored == Spec => []AckMeansStored
<1>1. Ledger => AckMeansStored
  BY DEF Ledger, AckMeansStored
<1> QED
  BY <1>1, InitLedger, NextLedger, StoreGuarded, PTL DEF Spec

-----------------------------------------------------------------------------
\* The scopes.

Unsettled(id) == outcome[id] \in {"running", "pending"}

\* Where a process may be with a scope of its own that is pending.
Holding == {"idle", "inserting", "inserted"}

\* Scopes are numbered as they begin, and only the last one may be unsettled: in
\* the block of the process that has the lock, or left behind by it.
Numbered ==
    /\ \A id \in Ids : outcome[id] = "none" <=> id > begun
    /\ \A id \in Ids : id <= begun => kind[id] \in Kinds
    /\ \A id \in Ids : Unsettled(id) => id = begun
    /\ \A id \in Ids : outcome[id] = "running" => \E p \in Procs : pc[p] = "running"
    /\ \A id \in Ids : outcome[id] = "pending" => \E p \in Procs : lock = p /\ pc[p] \in Holding
    /\ \A p \in Procs : pc[p] = "running" =>
         /\ cur[p] = begun /\ begun \in Ids /\ outcome[begun] = "running"
         /\ at[p] \in 2..Len(Script[kind[begun]])
         /\ depth[p] = Level[kind[begun]][at[p]]

\* The draft is ahead of the file by what an unsettled scope has written so far,
\* all of it once the scope is pending, and by nothing else.
Ahead ==
    /\ (\A id \in Ids : ~Unsettled(id)) => draft.rows = db.rows /\ draft.audit = db.audit
    /\ \A id \in Ids : Unsettled(id) =>
         /\ \A r \in Rows : \/ draft.rows[r] = db.rows[r]
                            \/ draft.rows[r] = id /\ r \in RowsOf[kind[id]]
         /\ db.audit \subseteq draft.audit
         /\ draft.audit \subseteq db.audit \cup ({id} \X EntriesOf[kind[id]])
    /\ \A id \in Ids : outcome[id] = "pending" =>
         /\ \A r \in RowsOf[kind[id]] : draft.rows[r] = id
         /\ {id} \X EntriesOf[kind[id]] \subseteq draft.audit
    /\ \A p \in Procs : pc[p] = "running" =>
         \A i \in 1..(at[p] - 1) :
            /\ \A r \in Rows : Script[kind[begun]][i] = <<"put", r>> => draft.rows[r] = begun
            /\ Script[kind[begun]][i] = <<"audit">> => <<begun, i>> \in draft.audit

\* Every scope is in the file as a whole or not at all, one whose COMMIT failed
\* and that landed later among them.
WholeOrNothing ==
    \A id \in Ids :
        IF outcome[id] \in {"returned", "late"} THEN Landed(db, id) ELSE Absent(db, id)

Scopes == WholeOrNothing /\ Numbered /\ Ahead

LEMMA InitScopes == Init => Scopes
<1> SUFFICES ASSUME Init PROVE Scopes
  OBVIOUS
<1>1. WholeOrNothing
  BY BoundsAreNumbers DEF Init, WholeOrNothing, Absent, NoDatabase, Ids
<1>2. Numbered
  BY BoundsAreNumbers DEF Init, Numbered, Unsettled, Ids
<1>3. Ahead
  BY DEF Init, Ahead, Unsettled
<1> QED
  BY <1>1, <1>2, <1>3 DEF Scopes

\* A connection that holds the lock for something else has no scope in its draft.
LEMMA NoScope ==
    ASSUME Guarded, Scopes, NEW p \in Procs, lock = p, pc[p] \in Migrating
    PROVE  draft.rows = db.rows /\ draft.audit = db.audit
<1>1. \A q \in Procs : pc[q] # "running"
  BY DEF Guarded, Locked, Writing, Migrating
<1>2. \A id \in Ids : outcome[id] # "pending"
  BY DEF Scopes, Numbered, Holding, Migrating
<1> QED
  BY <1>1, <1>2 DEF Scopes, Numbered, Ahead, Unsettled

\* A step outside of any block that settles nothing.
LEMMA ScopesAside ==
    ASSUME Guarded, Scopes, NEW p \in Procs, UNCHANGED scopeVars,
           pc[p] # "running", pc'[p] # "running",
           \A q \in Procs \ {p} : /\ pc'[q] = pc[q] /\ cur'[q] = cur[q]
                                  /\ at'[q] = at[q] /\ depth'[q] = depth[q],
           lock' = lock \/ lock = Free \/ (lock = p /\ pc[p] \in Migrating),
           lock = p => pc[p] \in Migrating \/ pc'[p] \in Holding,
           db'.rows = db.rows, db'.audit = db.audit,
           draft'.rows = draft.rows, draft'.audit = draft.audit
    PROVE  Scopes'
<1> USE DEF scopeVars
<1>1. WholeOrNothing'
  BY DEF Scopes, WholeOrNothing, Landed, Absent
<1>2. \A q \in Procs : pc'[q] = "running" <=> (pc[q] = "running" /\ q # p)
  OBVIOUS
<1>3. ASSUME NEW id \in Ids, outcome'[id] = "pending"
      PROVE  \E q \in Procs : lock' = q /\ pc'[q] \in Holding
  <2>1. PICK q \in Procs : lock = q /\ pc[q] \in Holding
    BY <1>3 DEF Scopes, Numbered
  <2>2. lock' = q
    BY <2>1, FreeIsNoProcess DEF Holding, Migrating
  <2>3. pc'[q] \in Holding
    BY <2>1 DEF Holding, Migrating
  <2> QED
    BY <2>2, <2>3
<1>4. Numbered'
  BY <1>2, <1>3 DEF Scopes, Numbered, Unsettled
<1>5. Ahead'
  BY <1>2 DEF Scopes, Ahead, Unsettled
<1> QED
  BY <1>1, <1>4, <1>5 DEF Scopes

LEMMA LeaveScopes ==
    ASSUME TypeOK, NEW p \in Procs, NEW place, Leave(p, place)
    PROVE  /\ pc'[p] = place
           /\ \A q \in Procs \ {p} : /\ pc'[q] = pc[q] /\ cur'[q] = cur[q]
                                     /\ at'[q] = at[q] /\ depth'[q] = depth[q]
BY DEF TypeOK, Leave, Goto

LEMMA OpeningScopes ==
    ASSUME Guarded, Scopes, NEW p \in Procs, Opening(p)
    PROVE  Scopes'
<1> USE DEF scopeVars, faultVars, fileVars, procVars, Migrating
<1> TypeOK /\ Locked
  BY DEF Guarded, Typed
<1>1. CASE Open(p) \/ BeginMigration(p)
  BY <1>1, ScopesAside DEF Open, BeginMigration, TypeOK, Goto, Locked
<1>2. CASE CreateTable(p) \/ RecordMigration(p)
  <2>1. draft'.rows = draft.rows /\ draft'.audit = draft.audit
    BY <1>2 DEF CreateTable, RecordMigration, TypeOK, Database
  <2> QED
    BY <1>2, <2>1, ScopesAside DEF CreateTable, RecordMigration, TypeOK, Goto
<1>3. CASE CommitMigration(p)
  BY <1>3, NoScope, ScopesAside DEF CommitMigration, Commit, TypeOK, Goto
<1>4. CASE RefuseMigration(p)
  <2>1. /\ pc[p] \in {"opening", "creating"} /\ Leave(p, "down") /\ Rollback(p)
        /\ UNCHANGED scopeVars
    BY <1>4 DEF RefuseMigration
  <2>2. CASE lock = p
    <3>1. pc[p] \in Migrating
      BY <2>1, <2>2 DEF Locked
    <3>2. draft' = db /\ UNCHANGED db
      BY <2>1, <2>2 DEF Rollback
    <3> QED
      BY <2>1, <2>2, <3>1, <3>2, NoScope, LeaveScopes, ScopesAside
  <2>3. CASE lock # p
    BY <2>1, <2>3, LeaveScopes, ScopesAside DEF Rollback
  <2> QED
    BY <2>2, <2>3
<1>5. CASE Opened(p)
  BY <1>5, LeaveScopes, ScopesAside DEF Opened, Locked
<1> QED
  BY <1>1, <1>2, <1>3, <1>4, <1>5 DEF Opening

\* A COMMIT outside of any block makes up for the one that failed.
LEMMA CommitsLeftover ==
    ASSUME Guarded, Scopes, NEW p \in Procs, lock = p, pc[p] \in Holding,
           db' = draft, draft' = draft, UNCHANGED <<kind, begun>>,
           outcome' = Settled("pending", "late"), pc'[p] \in Holding,
           \A q \in Procs \ {p} : pc'[q] = pc[q]
    PROVE  Scopes'
<1>1. \A q \in Procs : pc[q] # "running" /\ pc'[q] # "running"
  BY DEF Guarded, Locked, Writing, Holding
<1>2. \A id \in Ids : outcome[id] # "running"
  BY <1>1 DEF Scopes, Numbered
<1>3. \A id \in Ids : outcome'[id] = IF outcome[id] = "pending" THEN "late" ELSE outcome[id]
  BY DEF Settled
<1>4. ASSUME NEW id \in Ids, outcome[id] = "pending"
      PROVE  Landed(draft, id)
  <2>1. /\ \A r \in RowsOf[kind[id]] : draft.rows[r] = id
        /\ {id} \X EntriesOf[kind[id]] \subseteq draft.audit
    BY <1>4 DEF Scopes, Ahead
  <2>2. \A r \in RowsOf[kind[id]] : draft.rows[r] >= id
    BY <2>1, BoundsAreNumbers DEF Ids
  <2> QED
    BY <2>1, <2>2 DEF Landed
<1>5. ASSUME NEW id \in Ids, outcome[id] # "pending"
      PROVE  IF outcome[id] \in {"returned", "late"} THEN Landed(draft, id) ELSE Absent(draft, id)
  <2>1. CASE \A other \in Ids : ~Unsettled(other)
    BY <1>5, <2>1 DEF Scopes, Ahead, WholeOrNothing, Landed, Absent
  <2>2. ASSUME NEW last \in Ids, Unsettled(last)
        PROVE  IF outcome[id] \in {"returned", "late"} THEN Landed(draft, id) ELSE Absent(draft, id)
    <3>1. last = begun /\ id # begun /\ outcome[last] = "pending"
      BY <1>2, <1>5, <2>2 DEF Scopes, Numbered, Unsettled
    <3>2. /\ \A r \in Rows : draft.rows[r] = db.rows[r] \/ draft.rows[r] = last
          /\ db.audit \subseteq draft.audit
          /\ draft.audit \subseteq db.audit \cup ({last} \X EntriesOf[kind[last]])
      BY <2>2 DEF Scopes, Ahead
    <3>3. CASE outcome[id] \in {"returned", "late"}
      <4>1. Landed(db, id)
        BY <3>3 DEF Scopes, WholeOrNothing
      <4>2. id < last
        BY <3>1, <3>3, BoundsAreNumbers DEF Scopes, Numbered, Ids, Guarded, Typed, TypeOK
      <4>3. kind[id] \in Kinds
        BY <3>1, <4>2, BoundsAreNumbers DEF Scopes, Numbered, Ids
      <4>4. RowsOf[kind[id]] \subseteq Rows
        BY <4>3 DEF RowsOf
      <4>5. \A r \in RowsOf[kind[id]] : draft.rows[r] >= id
        BY <3>2, <4>1, <4>2, <4>4, BoundsAreNumbers DEF Landed, Ids
      <4> QED
        BY <3>2, <3>3, <4>1, <4>5 DEF Landed
    <3>4. CASE outcome[id] \notin {"returned", "late"}
      <4>1. Absent(db, id)
        BY <3>4 DEF Scopes, WholeOrNothing
      <4> QED
        BY <3>1, <3>2, <3>4, <4>1 DEF Absent
    <3> QED
      BY <3>3, <3>4
  <2> QED
    BY <2>1, <2>2
<1>6. WholeOrNothing'
  BY <1>3, <1>4, <1>5 DEF WholeOrNothing, Landed, Absent
<1>7. \A id \in Ids : ~Unsettled(id)' /\ outcome'[id] # "pending"
  BY <1>2, <1>3 DEF Unsettled
<1>8. Numbered'
  BY <1>1, <1>3, <1>7 DEF Scopes, Numbered, Unsettled
<1>9. Ahead'
  BY <1>1, <1>7 DEF Ahead
<1> QED
  BY <1>6, <1>8, <1>9 DEF Scopes

LEMMA RecordingScopes ==
    ASSUME Guarded, Scopes, NEW p \in Procs, Recording(p)
    PROVE  Scopes'
<1> USE DEF scopeVars, faultVars, fileVars, procVars, Holding
<1> TypeOK /\ Locked
  BY DEF Guarded, Typed
<1>1. CASE \E e \in Events, c \in Contents : AcknowledgeReplay(p, e, c)
  BY <1>1, ScopesAside DEF AcknowledgeReplay
<1>2. CASE \E e \in Events, c \in Contents : LookForEvent(p, e, c)
  BY <1>2, ScopesAside DEF LookForEvent, TypeOK, Goto
<1>3. CASE InsertEvent(p)
  <2>1. draft'.rows = draft.rows /\ draft'.audit = draft.audit
    BY <1>3 DEF InsertEvent, TypeOK, Database
  <2> QED
    BY <1>3, <2>1, ScopesAside DEF InsertEvent, TypeOK, Goto
<1>4. CASE InsertRefused(p) \/ InsertBusy(p) \/ CommitEventFails(p)
  <2>1. pc[p] \in {"inserting", "inserted"} /\ Leave(p, "idle")
    BY <1>4 DEF InsertRefused, InsertBusy, CommitEventFails
  <2>2. UNCHANGED <<db, draft, scopeVars>>
    BY <1>4 DEF InsertRefused, InsertBusy, CommitEventFails
  <2>3. lock' = lock \/ lock = Free
    BY <1>4 DEF InsertRefused, InsertBusy, CommitEventFails
  <2> QED
    BY <2>1, <2>2, <2>3, LeaveScopes, ScopesAside
<1>5. CASE CommitEvent(p)
  BY <1>5, LeaveScopes, CommitsLeftover DEF CommitEvent, Commit
<1> QED
  BY <1>1, <1>2, <1>3, <1>4, <1>5 DEF Recording

\* While the lock is free no scope is unsettled.
LEMMA NothingUnsettled ==
    ASSUME Guarded, Scopes, lock = Free
    PROVE  \A id \in Ids : ~Unsettled(id)
BY FreeIsNoProcess DEF Guarded, Locked, Writing, Scopes, Numbered, Unsettled

LEMMA BeginsScope ==
    ASSUME Guarded, Scopes, NEW p \in Procs, NEW k \in Kinds, BeginScope(p, k)
    PROVE  Scopes'
<1> TypeOK
  BY DEF Guarded, Typed
<1>0. PICK id \in Ids : id = begun + 1
  BY BoundsAreNumbers DEF BeginScope, TypeOK, Ids
<1>1. /\ id \in Ids /\ lock = Free /\ draft = db /\ UNCHANGED <<db, draft>>
      /\ begun' = id /\ begun \in Nat
  BY <1>0, BoundsAreNumbers DEF BeginScope, TypeOK, Guarded, Locked
<1>2. /\ kind'[id] = k /\ outcome'[id] = "running"
      /\ \A other \in Ids \ {id} : kind'[other] = kind[other] /\ outcome'[other] = outcome[other]
  BY <1>0 DEF BeginScope, TypeOK
<1>3. /\ pc'[p] = "running" /\ cur'[p] = id /\ at'[p] = 2 /\ depth'[p] = 1 /\ pc[p] = "idle"
      /\ \A q \in Procs \ {p} : pc'[q] = pc[q]
  BY <1>0 DEF BeginScope, TypeOK, Goto
<1>4. /\ \A other \in Ids : ~Unsettled(other)
      /\ \A q \in Procs : pc[q] # "running"
  BY <1>1, NothingUnsettled, FreeIsNoProcess DEF Guarded, Locked, Writing
<1>5. outcome[id] = "none"
  BY <1>0, <1>1 DEF Scopes, Numbered
<1>6. WholeOrNothing'
  <2>1. ASSUME NEW other \in Ids \ {id}
        PROVE  IF outcome'[other] \in {"returned", "late"} THEN Landed(db, other)'
               ELSE Absent(db, other)'
    BY <1>1, <1>2 DEF Scopes, WholeOrNothing, Landed, Absent
  <2>2. Absent(db, id)'
    BY <1>1, <1>5 DEF Scopes, WholeOrNothing, Absent
  <2> QED
    BY <1>2, <2>1, <2>2 DEF WholeOrNothing
<1>7. Numbered'
  <2>0. /\ \A other \in Ids : other \in Nat
        /\ \A other \in Ids : other # id => (other > id <=> other > begun) /\ (other <= id <=> other <= begun)
        /\ ~(id > id)
    BY <1>0, <1>1 DEF Ids
  <2>1. \A other \in Ids : outcome'[other] = "none" <=> other > begun'
    <3>1. \A other \in Ids : outcome[other] = "none" <=> other > begun
      BY DEF Scopes, Numbered
    <3> QED
      BY <1>1, <1>2, <2>0, <3>1
  <2>2. \A other \in Ids : other <= begun' => kind'[other] \in Kinds
    <3>1. \A other \in Ids : other <= begun => kind[other] \in Kinds
      BY DEF Scopes, Numbered
    <3> QED
      BY <1>1, <1>2, <2>0, <3>1
  <2>3. \A other \in Ids : Unsettled(other)' => other = id
    BY <1>2, <1>4 DEF Unsettled
  <2>4. \A other \in Ids : outcome'[other] # "pending"
    BY <1>2, <1>4 DEF Unsettled
  <2>5. 2 \in 2..Len(Script[k]) /\ Level[k][2] = 1
    <3>1. Len(Script[k]) > 1 /\ Level[k][2] = 1
      BY ScriptsAreNested
    <3>2. Script[k] \in Seq(Instructions)
      BY ScriptsAreNested
    <3> QED
      BY <3>1, <3>2
  <2> QED
    BY <1>1, <1>2, <1>3, <1>4, <2>1, <2>2, <2>3, <2>4, <2>5 DEF Numbered
<1>8. Ahead'
  <2>1. \A other \in Ids : outcome'[other] # "pending"
    BY <1>2, <1>4 DEF Unsettled
  <2>2. Script[k][1] = <<"enter">>
    BY ScriptsAreNested
  <2>3. <<"enter">> # <<"audit">> /\ \A r \in Rows : <<"enter">> # <<"put", r>>
    OBVIOUS
  <2>4. \A i \in 1..(at'[p] - 1) : i = 1
    BY <1>3
  <2>5. \A q \in Procs : pc'[q] = "running" => q = p
    BY <1>3, <1>4
  <2> QED
    BY <1>1, <1>2, <2>1, <2>2, <2>3, <2>4, <2>5 DEF Ahead
<1> QED
  BY <1>6, <1>7, <1>8 DEF Scopes

\* The block of a running process.
LEMMA BlockOf ==
    ASSUME Guarded, Scopes, NEW p \in Procs, pc[p] = "running"
    PROVE  /\ begun \in Ids /\ cur[p] = begun /\ kind[begun] \in Kinds
           /\ outcome[begun] = "running" /\ lock = p
           /\ at[p] \in 2..Len(Script[kind[begun]])
           /\ depth[p] = Level[kind[begun]][at[p]]
           /\ Len(Script[kind[begun]]) \in Nat
           /\ \A q \in Procs \ {p} : pc[q] # "running"
           /\ \A id \in Ids : outcome[id] # "pending"
           /\ \A id \in Ids : Unsettled(id) <=> id = begun
<1>1. /\ begun \in Ids /\ cur[p] = begun /\ outcome[begun] = "running"
      /\ at[p] \in 2..Len(Script[kind[begun]])
      /\ depth[p] = Level[kind[begun]][at[p]]
  BY DEF Scopes, Numbered
<1>2. kind[begun] \in Kinds
  BY <1>1, BoundsAreNumbers DEF Scopes, Numbered, Ids
<1>3. Script[kind[begun]] \in Seq(Instructions)
  BY <1>2, ScriptsAreNested
<1>4. lock = p /\ \A q \in Procs \ {p} : pc[q] # "running"
  BY DEF Guarded, Locked, Writing
<1>5. \A id \in Ids : Unsettled(id) <=> id = begun
  BY <1>1 DEF Scopes, Numbered, Unsettled
<1> QED
  BY <1>1, <1>2, <1>3, <1>4, <1>5 DEF Unsettled

\* The last instruction of a block closes its first scope, and no other one does.
LEMMA Nesting ==
    ASSUME NEW k \in Kinds, NEW i \in 2..Len(Script[k])
    PROVE  /\ Script[k][i] = <<"exit">> /\ Level[k][i] = 1 => i = Len(Script[k])
           /\ Script[k][i] = <<"enter">> => i < Len(Script[k]) /\ Level[k][i + 1] = Level[k][i] + 1
           /\ Script[k][i] = <<"exit">> /\ Level[k][i] > 1 =>
                i < Len(Script[k]) /\ Level[k][i + 1] = Level[k][i] - 1
           /\ Script[k][i] \notin {<<"enter">>, <<"exit">>} =>
                i < Len(Script[k]) /\ Level[k][i + 1] = Level[k][i]
<1> DEFINE last == Len(Script[k])
<1>1. last \in Nat
  <2>1. Script[k] \in Seq(Instructions)
    BY ScriptsAreNested
  <2> QED
    BY <2>1
<1>2. /\ Script[k][last] = <<"exit">> /\ Level[k][last] = 1 /\ Level[k] \in [1..last -> Nat]
      /\ \A j \in 2..(last - 1) :
           /\ Level[k][j] > 0
           /\ Script[k][j] = <<"enter">> => Level[k][j + 1] = Level[k][j] + 1
           /\ Script[k][j] = <<"exit">> => Level[k][j + 1] = Level[k][j] - 1
           /\ Script[k][j] \notin {<<"enter">>, <<"exit">>} => Level[k][j + 1] = Level[k][j]
  <2>1. /\ Script[k][last] = <<"exit">> /\ Level[k][last] = 1 /\ Level[k] \in [1..last -> Nat]
    BY ScriptsAreNested
  <2>2. ASSUME NEW j \in 2..(last - 1)
        PROVE  /\ Level[k][j] > 0
               /\ Level[k][j + 1] = CASE Script[k][j] = <<"enter">> -> Level[k][j] + 1
                                      [] Script[k][j] = <<"exit">> -> Level[k][j] - 1
                                      [] OTHER -> Level[k][j]
    BY <2>2, ScriptsAreNested
  <2>3. <<"enter">> # <<"exit">>
    OBVIOUS
  <2>4. ASSUME NEW j \in 2..(last - 1)
        PROVE  /\ Script[k][j] = <<"enter">> => Level[k][j + 1] = Level[k][j] + 1
               /\ Script[k][j] = <<"exit">> => Level[k][j + 1] = Level[k][j] - 1
               /\ Script[k][j] \notin {<<"enter">>, <<"exit">>} => Level[k][j + 1] = Level[k][j]
    <3> HIDE DEF last
    <3>1. CASE Script[k][j] = <<"enter">>
      BY <2>2, <2>3, <3>1
    <3>2. CASE Script[k][j] = <<"exit">>
      BY <2>2, <2>3, <3>2
    <3>3. CASE Script[k][j] # <<"enter">> /\ Script[k][j] # <<"exit">>
      BY <2>2, <3>3
    <3> QED
      BY <3>1, <3>2, <3>3
  <2> QED
    BY <2>1, <2>2, <2>4
<1>3. <<"enter">> # <<"exit">>
  OBVIOUS
<1> HIDE DEF last
<1>4. i \in 2..last
  BY DEF last
<1>5. ASSUME i # last
      PROVE  i \in 2..(last - 1) /\ i < last /\ i + 1 \in 2..last
  BY <1>1, <1>4, <1>5
<1>6. \A j \in 2..last : Level[k][j] > 0
  BY <1>1, <1>2
<1>7. Level[k][i] \in Nat
  BY <1>1, <1>2, <1>4
<1>8. Script[k][i] # <<"exit">> \/ Level[k][i] # 1 => i # last
  BY <1>2
<1>9. Script[k][i] = <<"exit">> /\ Level[k][i] = 1 => i = last
  <2> SUFFICES ASSUME Script[k][i] = <<"exit">>, Level[k][i] = 1, i # last
               PROVE  FALSE
    OBVIOUS
  <2>1. Level[k][i + 1] = 0
    BY <1>2, <1>5
  <2> QED
    BY <1>5, <1>6, <2>1
<1>10. i # last => i < last
  BY <1>5
<1>11. /\ Script[k][i] = <<"enter">> => i < last /\ Level[k][i + 1] = Level[k][i] + 1
       /\ Script[k][i] \notin {<<"enter">>, <<"exit">>} => i < last /\ Level[k][i + 1] = Level[k][i]
  BY <1>2, <1>3, <1>5, <1>8
<1>12. Script[k][i] = <<"exit">> /\ Level[k][i] > 1 => i < last /\ Level[k][i + 1] = Level[k][i] - 1
  <2>1. Level[k][i] > 1 => Level[k][i] # 1
    BY <1>7
  <2> QED
    BY <1>2, <1>5, <1>8, <2>1
<1> QED
  BY <1>9, <1>11, <1>12 DEF last

\* An instruction that is not the last one of its block.
LEMMA StepsInBlock ==
    ASSUME Guarded, Scopes, NEW p \in Procs, NEW instruction, Reaches(p, instruction),
           at[p] < Len(Script[kind[begun]]),
           depth'[p] = Level[kind[begun]][at[p] + 1], at'[p] = at[p] + 1,
           UNCHANGED <<db, lock, pc, cur, kind, outcome, begun>>,
           \A r \in Rows : draft'.rows[r] = IF instruction = <<"put", r>> THEN begun ELSE draft.rows[r],
           draft'.audit = draft.audit \cup (IF instruction = <<"audit">> THEN {<<begun, at[p]>>} ELSE {})
    PROVE  Scopes'
<1> DEFINE k == kind[begun]  i == at[p]
<1>1. pc[p] = "running" /\ cur[p] = begun /\ Script[k][i] = instruction
  BY BlockOf DEF Reaches
<1>2. /\ begun \in Ids /\ k \in Kinds /\ outcome[begun] = "running"
      /\ i \in 2..Len(Script[k]) /\ Len(Script[k]) \in Nat
      /\ \A q \in Procs \ {p} : pc[q] # "running"
      /\ \A id \in Ids : outcome[id] # "pending"
      /\ \A id \in Ids : Unsettled(id) <=> id = begun
  BY <1>1, BlockOf
<1>3. k' = k
  OBVIOUS
<1>4. WholeOrNothing'
  BY DEF Scopes, WholeOrNothing, Landed, Absent
<1>5. Numbered'
  <2>1. at'[p] \in 2..Len(Script[k])
    BY <1>2
  <2> QED
    BY <1>1, <1>2, <2>1 DEF Scopes, Numbered, Unsettled
<1>6. \A r \in Rows : instruction = <<"put", r>> => r \in RowsOf[k]
  BY <1>1, <1>2 DEF RowsOf
<1>7. instruction = <<"audit">> => i \in EntriesOf[k]
  BY <1>1, <1>2 DEF EntriesOf
<1>8. /\ \A r \in Rows : draft'.rows[r] = db.rows[r] \/ (draft'.rows[r] = begun /\ r \in RowsOf[k])
      /\ db.audit \subseteq draft'.audit
      /\ draft'.audit \subseteq db.audit \cup ({begun} \X EntriesOf[k])
  BY <1>2, <1>6, <1>7 DEF Scopes, Ahead
<1>9. ASSUME NEW j \in 1..i
      PROVE  /\ \A r \in Rows : Script[k][j] = <<"put", r>> => draft'.rows[r] = begun
             /\ Script[k][j] = <<"audit">> => <<begun, j>> \in draft'.audit
  <2>1. CASE j = i
    BY <1>1, <2>1
  <2>2. CASE j \in 1..(i - 1)
    BY <1>1, <2>2 DEF Scopes, Ahead
  <2> QED
    BY <1>2, <2>1, <2>2
<1>10. at'[p] - 1 = i
  BY <1>2
<1>11. Ahead'
  <2>1. ~\A id \in Ids : ~Unsettled(id)'
    BY <1>2 DEF Unsettled
  <2>2. \A id \in Ids : Unsettled(id)' => id = begun
    BY <1>2 DEF Unsettled
  <2>3. \A q \in Procs : pc'[q] = "running" => q = p
    BY <1>2
  <2> QED
    BY <1>2, <1>8, <1>9, <1>10, <2>1, <2>2, <2>3 DEF Ahead
<1> QED
  BY <1>4, <1>5, <1>11 DEF Scopes

\* A block that has run to its end has written everything it writes.
LEMMA Complete ==
    ASSUME Guarded, Scopes, NEW p \in Procs, Reaches(p, <<"exit">>), depth[p] = 1
    PROVE  /\ \A r \in RowsOf[kind[begun]] : draft.rows[r] = begun
           /\ {begun} \X EntriesOf[kind[begun]] \subseteq draft.audit
<1> DEFINE k == kind[begun]  last == Len(Script[k])
<1>1. /\ pc[p] = "running" /\ k \in Kinds /\ at[p] \in 2..last /\ last \in Nat
      /\ Script[k][at[p]] = <<"exit">> /\ Level[k][at[p]] = 1
  BY BlockOf DEF Reaches
<1> HIDE DEF k
<1>2. at[p] = last
  BY <1>1, Nesting
<1>3. <<"exit">> # <<"audit">> /\ \A r \in Rows : <<"exit">> # <<"put", r>>
  OBVIOUS
<1>4. \A i \in 1..last :
         /\ \A r \in Rows : Script[k][i] = <<"put", r>> => draft.rows[r] = begun
         /\ Script[k][i] = <<"audit">> => <<begun, i>> \in draft.audit
  <2> SUFFICES ASSUME NEW i \in 1..last
               PROVE  /\ \A r \in Rows : Script[k][i] = <<"put", r>> => draft.rows[r] = begun
                      /\ Script[k][i] = <<"audit">> => <<begun, i>> \in draft.audit
    OBVIOUS
  <2>1. CASE i = last
    BY <1>1, <1>2, <1>3, <2>1
  <2>2. CASE i \in 1..(at[p] - 1)
    BY <1>1, <2>2 DEF Scopes, Ahead, k
  <2> QED
    BY <1>1, <1>2, <2>1, <2>2
<1>5. RowsOf[k] = {r \in Rows : \E i \in 1..last : Script[k][i] = <<"put", r>>}
  BY <1>1 DEF RowsOf
<1>6. EntriesOf[k] = {i \in 1..last : Script[k][i] = <<"audit">>}
  BY <1>1 DEF EntriesOf
<1>7. ASSUME NEW r \in RowsOf[k]
      PROVE  draft.rows[r] = begun
  <2>1. PICK i \in 1..last : r \in Rows /\ Script[k][i] = <<"put", r>>
    BY <1>5
  <2> QED
    BY <1>4, <2>1
<1>8. {begun} \X EntriesOf[k] \subseteq draft.audit
  <2> SUFFICES ASSUME NEW i \in EntriesOf[k]
               PROVE  <<begun, i>> \in draft.audit
    OBVIOUS
  <2> QED
    BY <1>4, <1>6
<1> QED
  BY <1>7, <1>8 DEF k

\* The block has returned or failed to commit: the scope is settled.
LEMMA BlockCommits ==
    ASSUME Guarded, Scopes, NEW p \in Procs, CommitScope(p)
    PROVE  Scopes'
<1>1. /\ pc[p] = "running" /\ depth[p] = 1 /\ Reaches(p, <<"exit">>)
      /\ db' = draft /\ draft' = draft /\ UNCHANGED <<kind, begun>>
      /\ outcome' = [outcome EXCEPT ![begun] = "returned"]
  BY BlockOf DEF CommitScope, Commit, Reaches
<1>2. TypeOK
  BY DEF Guarded, Typed
<1>3. /\ begun \in Ids /\ kind[begun] \in Kinds /\ outcome[begun] = "running"
      /\ \A q \in Procs \ {p} : pc[q] # "running"
      /\ \A id \in Ids : outcome[id] # "pending"
      /\ \A id \in Ids : Unsettled(id) <=> id = begun
  BY <1>1, BlockOf
<1>4. /\ outcome'[begun] = "returned"
      /\ \A id \in Ids \ {begun} : outcome'[id] = outcome[id]
  BY <1>1, <1>2, <1>3 DEF TypeOK
<1>5. \A q \in Procs : pc'[q] # "running"
  BY <1>2, <1>3, LeaveScopes DEF CommitScope
<1>6. /\ \A r \in RowsOf[kind[begun]] : draft.rows[r] = begun
      /\ {begun} \X EntriesOf[kind[begun]] \subseteq draft.audit
  BY <1>1, Complete
<1>7. \A id \in Ids : id \in Nat
  BY DEF Ids
<1>8. Landed(draft, begun)
  BY <1>3, <1>6, <1>7 DEF Landed
<1>9. ASSUME NEW id \in Ids \ {begun}
      PROVE  IF outcome[id] \in {"returned", "late"} THEN Landed(draft, id) ELSE Absent(draft, id)
  <2>1. /\ \A r \in Rows : draft.rows[r] = db.rows[r] \/ draft.rows[r] = begun
        /\ db.audit \subseteq draft.audit
        /\ draft.audit \subseteq db.audit \cup ({begun} \X EntriesOf[kind[begun]])
    BY <1>3 DEF Scopes, Ahead
  <2>2. CASE outcome[id] \in {"returned", "late"}
    <3>1. Landed(db, id)
      BY <2>2 DEF Scopes, WholeOrNothing
    <3>2. id <= begun
      BY <1>2, <1>7, <2>2 DEF Scopes, Numbered, TypeOK
    <3>3. RowsOf[kind[id]] \subseteq Rows
      BY <3>2 DEF Scopes, Numbered, RowsOf
    <3>4. \A r \in RowsOf[kind[id]] : draft.rows[r] >= id
      BY <2>1, <3>1, <3>2, <3>3 DEF Landed
    <3> QED
      BY <2>1, <2>2, <3>1, <3>4 DEF Landed
  <2>3. CASE outcome[id] \notin {"returned", "late"}
    <3>1. Absent(db, id)
      BY <2>3 DEF Scopes, WholeOrNothing
    <3> QED
      BY <2>1, <2>3, <3>1 DEF Absent
  <2> QED
    BY <2>2, <2>3
<1>10. WholeOrNothing'
  <2>1. ASSUME NEW id \in Ids
        PROVE  IF outcome'[id] \in {"returned", "late"} THEN Landed(draft, id) ELSE Absent(draft, id)
    BY <1>4, <1>8, <1>9
  <2> QED
    BY <1>1, <2>1 DEF WholeOrNothing, Landed, Absent
<1>11. \A id \in Ids : ~Unsettled(id)' /\ outcome'[id] # "pending"
  BY <1>3, <1>4 DEF Unsettled
<1>12. Numbered'
  BY <1>1, <1>3, <1>4, <1>5, <1>11 DEF Scopes, Numbered, Unsettled
<1>13. Ahead'
  BY <1>1, <1>5, <1>11 DEF Ahead
<1> QED
  BY <1>10, <1>12, <1>13 DEF Scopes

LEMMA BlockStays ==
    ASSUME Guarded, Scopes, NEW p \in Procs, CommitScopeFails(p)
    PROVE  Scopes'
<1>1. /\ pc[p] = "running" /\ depth[p] = 1 /\ Reaches(p, <<"exit">>)
      /\ UNCHANGED <<db, draft, lock, kind, begun>>
      /\ outcome' = [outcome EXCEPT ![begun] = "pending"]
  BY BlockOf DEF CommitScopeFails, Reaches, fileVars
<1>2. TypeOK
  BY DEF Guarded, Typed
<1>3. /\ begun \in Ids /\ kind[begun] \in Kinds /\ outcome[begun] = "running" /\ lock = p
      /\ \A q \in Procs \ {p} : pc[q] # "running"
      /\ \A id \in Ids : outcome[id] # "pending"
      /\ \A id \in Ids : Unsettled(id) <=> id = begun
  BY <1>1, BlockOf
<1>4. /\ outcome'[begun] = "pending"
      /\ \A id \in Ids \ {begun} : outcome'[id] = outcome[id]
  BY <1>1, <1>2, <1>3 DEF TypeOK
<1>5. pc'[p] = "idle" /\ \A q \in Procs : pc'[q] # "running"
  BY <1>2, <1>3, LeaveScopes DEF CommitScopeFails
<1>6. /\ \A r \in RowsOf[kind[begun]] : draft.rows[r] = begun
      /\ {begun} \X EntriesOf[kind[begun]] \subseteq draft.audit
  BY <1>1, Complete
<1>7. \A id \in Ids : Unsettled(id)' <=> id = begun
  BY <1>3, <1>4 DEF Unsettled
<1>8. WholeOrNothing'
  BY <1>1, <1>3, <1>4 DEF Scopes, WholeOrNothing, Landed, Absent
<1>9. Numbered'
  <2>1. \E q \in Procs : lock' = q /\ pc'[q] \in Holding
    BY <1>1, <1>3, <1>5 DEF Holding
  <2> QED
    BY <1>1, <1>3, <1>4, <1>5, <1>7, <2>1 DEF Scopes, Numbered, Unsettled
<1>10. Ahead'
  BY <1>1, <1>3, <1>4, <1>5, <1>6, <1>7 DEF Scopes, Ahead
<1> QED
  BY <1>8, <1>9, <1>10 DEF Scopes

\* A rollback takes back whatever an unsettled scope has written.
LEMMA RolledBack ==
    ASSUME Guarded, Scopes, db' = db, draft' = db, UNCHANGED <<kind, begun>>,
           \A id \in Ids : IF Unsettled(id) THEN outcome'[id] \in {"raised", "lost"}
                           ELSE outcome'[id] = outcome[id],
           \A q \in Procs : pc'[q] # "running"
    PROVE  Scopes'
<1>1. \A id \in Ids : ~Unsettled(id)' /\ outcome'[id] # "pending"
  BY DEF Unsettled
<1>2. WholeOrNothing'
  BY DEF Scopes, WholeOrNothing, Landed, Absent, Unsettled
<1>3. Numbered'
  BY <1>1 DEF Scopes, Numbered, Unsettled
<1>4. Ahead'
  BY <1>1 DEF Ahead
<1> QED
  BY <1>2, <1>3, <1>4 DEF Scopes

LEMMA RunningScopes ==
    ASSUME Guarded, Scopes, NEW p \in Procs, Running(p)
    PROVE  Scopes'
<1> USE DEF scopeVars, faultVars, fileVars, procVars
<1> TypeOK /\ Locked
  BY DEF Guarded, Typed
<1>0. /\ <<"enter">> # <<"exit">> /\ <<"audit">> # <<"exit">> /\ <<"audit">> # <<"enter">>
      /\ \A r \in Rows : /\ <<"put", r>> # <<"enter">> /\ <<"put", r>> # <<"exit">>
                         /\ <<"put", r>> # <<"audit">>
  OBVIOUS
<1>1. CASE CommitLeftover(p)
  BY <1>1, CommitsLeftover DEF CommitLeftover, Commit, Holding
<1>2. CASE \E k \in Kinds : BeginScope(p, k)
  BY <1>2, BeginsScope
<1>3. CASE EnterNested(p)
  <2>1. /\ Reaches(p, <<"enter">>) /\ pc[p] = "running" /\ Advance(p) /\ draft' = draft
        /\ depth' = [depth EXCEPT ![p] = @ + 1]
    BY <1>3 DEF EnterNested, Reaches
  <2>2. /\ Script[kind[begun]][at[p]] = <<"enter">> /\ kind[begun] \in Kinds
        /\ at[p] \in 2..Len(Script[kind[begun]]) /\ Len(Script[kind[begun]]) \in Nat
        /\ depth[p] = Level[kind[begun]][at[p]]
    BY <2>1, BlockOf DEF Reaches
  <2>3. /\ at[p] < Len(Script[kind[begun]])
        /\ Level[kind[begun]][at[p] + 1] = depth[p] + 1
    BY <2>2, Nesting
  <2>4. depth'[p] = depth[p] + 1 /\ at'[p] = at[p] + 1
    BY <2>1 DEF Advance, TypeOK
  <2> QED
    BY <1>0, <2>1, <2>3, <2>4, StepsInBlock DEF Advance
<1>4. CASE ExitNested(p)
  <2>1. /\ Reaches(p, <<"exit">>) /\ pc[p] = "running" /\ Advance(p) /\ draft' = draft
        /\ depth[p] > 1 /\ depth' = [depth EXCEPT ![p] = @ - 1]
    BY <1>4 DEF ExitNested, Reaches
  <2>2. /\ Script[kind[begun]][at[p]] = <<"exit">> /\ kind[begun] \in Kinds
        /\ at[p] \in 2..Len(Script[kind[begun]]) /\ Len(Script[kind[begun]]) \in Nat
        /\ depth[p] = Level[kind[begun]][at[p]]
    BY <2>1, BlockOf DEF Reaches
  <2>3. /\ at[p] < Len(Script[kind[begun]])
        /\ Level[kind[begun]][at[p] + 1] = depth[p] - 1
    BY <2>1, <2>2, Nesting
  <2>4. depth'[p] = depth[p] - 1 /\ at'[p] = at[p] + 1
    BY <2>1 DEF Advance, TypeOK
  <2> QED
    BY <1>0, <2>1, <2>3, <2>4, StepsInBlock DEF Advance
<1>5. ASSUME NEW row \in Rows, Upsert(p, row)
      PROVE  Scopes'
  <2>1. /\ Reaches(p, <<"put", row>>) /\ pc[p] = "running" /\ Advance(p) /\ depth' = depth
        /\ draft' = [draft EXCEPT !.rows[row] = cur[p]]
    BY <1>5 DEF Upsert, Reaches
  <2>2. /\ Script[kind[begun]][at[p]] = <<"put", row>> /\ kind[begun] \in Kinds
        /\ at[p] \in 2..Len(Script[kind[begun]]) /\ Len(Script[kind[begun]]) \in Nat
        /\ depth[p] = Level[kind[begun]][at[p]] /\ cur[p] = begun
    BY <2>1, BlockOf DEF Reaches
  <2>3. /\ at[p] < Len(Script[kind[begun]])
        /\ Level[kind[begun]][at[p] + 1] = depth[p]
    BY <1>0, <2>2, Nesting
  <2>4. depth'[p] = depth[p] /\ at'[p] = at[p] + 1
    BY <2>1 DEF Advance, TypeOK
  <2>5. /\ \A r \in Rows : draft'.rows[r] = IF <<"put", row>> = <<"put", r>> THEN begun ELSE draft.rows[r]
        /\ draft'.audit = draft.audit \cup (IF <<"put", row>> = <<"audit">> THEN {<<begun, at[p]>>} ELSE {})
    BY <1>0, <2>1, <2>2 DEF TypeOK, Database
  <2> QED
    BY <2>1, <2>3, <2>4, <2>5, StepsInBlock DEF Advance
<1>6. CASE AppendAudit(p)
  <2>1. /\ Reaches(p, <<"audit">>) /\ pc[p] = "running" /\ Advance(p) /\ depth' = depth
        /\ draft' = [draft EXCEPT !.audit = @ \cup {<<cur[p], at[p]>>}]
    BY <1>6 DEF AppendAudit, Reaches
  <2>2. /\ Script[kind[begun]][at[p]] = <<"audit">> /\ kind[begun] \in Kinds
        /\ at[p] \in 2..Len(Script[kind[begun]]) /\ Len(Script[kind[begun]]) \in Nat
        /\ depth[p] = Level[kind[begun]][at[p]] /\ cur[p] = begun
    BY <2>1, BlockOf DEF Reaches
  <2>3. /\ at[p] < Len(Script[kind[begun]])
        /\ Level[kind[begun]][at[p] + 1] = depth[p]
    BY <1>0, <2>2, Nesting
  <2>4. depth'[p] = depth[p] /\ at'[p] = at[p] + 1
    BY <2>1 DEF Advance, TypeOK
  <2>5. /\ \A r \in Rows : draft'.rows[r] = draft.rows[r]
        /\ draft'.audit = draft.audit \cup {<<begun, at[p]>>}
    BY <2>1, <2>2 DEF TypeOK, Database
  <2> QED
    BY <1>0, <2>1, <2>3, <2>4, <2>5, StepsInBlock DEF Advance
<1>7. CASE CommitScope(p) \/ CommitScopeFails(p)
  BY <1>7, BlockCommits, BlockStays
<1>8. CASE Raise(p)
  <2>1. /\ pc[p] = "running" /\ Leave(p, "idle") /\ Rollback(p) /\ UNCHANGED <<kind, begun>>
        /\ outcome' = [outcome EXCEPT ![cur[p]] = "raised"]
    BY <1>8 DEF Raise
  <2>2. /\ lock = p /\ cur[p] = begun /\ begun \in Ids
        /\ \A q \in Procs \ {p} : pc[q] # "running"
        /\ \A id \in Ids : Unsettled(id) <=> id = begun
    BY <2>1, BlockOf
  <2>3. \A q \in Procs : pc'[q] # "running"
    BY <2>1, <2>2, LeaveScopes
  <2>4. \A id \in Ids : outcome'[id] = IF Unsettled(id) THEN "raised" ELSE outcome[id]
    BY <2>1, <2>2 DEF TypeOK
  <2> QED
    BY <2>1, <2>2, <2>3, <2>4, RolledBack DEF Rollback
<1> QED
  BY <1>1, <1>2, <1>3, <1>4, <1>5, <1>6, <1>7, <1>8 DEF Running

LEMMA CrashScopes ==
    ASSUME Guarded, Scopes, NEW p \in Procs, Crash(p)
    PROVE  Scopes'
<1> TypeOK /\ Locked
  BY DEF Guarded, Typed
<1>1. /\ Leave(p, "down") /\ Rollback(p) /\ UNCHANGED <<kind, begun>>
      /\ pc'[p] = "down"
      /\ \A q \in Procs \ {p} : /\ pc'[q] = pc[q] /\ cur'[q] = cur[q]
                                /\ at'[q] = at[q] /\ depth'[q] = depth[q]
  BY LeaveScopes DEF Crash
<1>2. CASE lock = p
  <2>1. db' = db /\ draft' = db
    BY <1>1, <1>2 DEF Rollback
  <2>2. \A q \in Procs : pc'[q] # "running"
    BY <1>1, <1>2 DEF Locked, Writing
  <2>3. \A id \in Ids : outcome'[id] = IF Unsettled(id) THEN "lost" ELSE outcome[id]
    BY <1>2 DEF Crash, Unsettled
  <2> QED
    BY <1>1, <2>1, <2>2, <2>3, RolledBack
<1>3. CASE lock # p
  <2>1. pc[p] # "running"
    BY <1>3 DEF Locked, Writing
  <2>2. UNCHANGED <<db, draft, lock, scopeVars>>
    BY <1>1, <1>3 DEF Crash, Rollback, scopeVars
  <2> QED
    BY <1>1, <1>3, <2>1, <2>2, ScopesAside
<1> QED
  BY <1>2, <1>3

LEMMA NextScopes == Guarded /\ Scopes /\ [Next]_vars => Scopes'
<1> SUFFICES ASSUME Guarded, Scopes, [Next]_vars PROVE Scopes'
  OBVIOUS
<1>1. CASE UNCHANGED vars
  BY <1>1 DEF vars, fileVars, procVars, scopeVars, Scopes, WholeOrNothing, Landed, Absent,
       Numbered, Ahead, Unsettled
<1> QED
  BY <1>1, OpeningScopes, RunningScopes, RecordingScopes, CrashScopes DEF Next

\* Scopes are in the file as a whole or not at all, are numbered as they begin, and
\* what the open transaction adds to the file is its own scope's (transaction()).
THEOREM StoreScoped == Spec => []Scopes
BY InitScopes, NextScopes, StoreGuarded, PTL DEF Spec

\* What the caller of a scope was told is what the file holds, unless the COMMIT
\* of that very scope raised and its writes landed later: returned, it is there,
\* now or under later writes; raised or ended with its process, it has left
\* nothing (transaction(), whatever it is nested in and whatever fails beside it).
THEOREM OutcomesAreTrue == Spec => []OutcomeIsTrue
<1>1. Scopes => OutcomeIsTrue
  BY DEF Scopes, WholeOrNothing, OutcomeIsTrue, AsTold
<1> QED
  BY <1>1, StoreScoped, PTL

\* Only a COMMIT that failed leaves a scope pending or makes it late.
Blamed == \A id \in Ids : outcome[id] \in {"pending", "late"} => badCommits # 0

LEMMA NextBlamed == Guarded /\ Blamed /\ [Next]_vars => Blamed'
<1> SUFFICES ASSUME Guarded, Blamed, [Next]_vars PROVE Blamed'
  OBVIOUS
<1>1. badCommits \in Nat /\ DOMAIN outcome = Ids
  BY DEF Guarded, Typed, TypeOK
<1>2. ASSUME badCommits' = badCommits + 1 PROVE Blamed'
  BY <1>1, <1>2 DEF Blamed
<1>3. ASSUME UNCHANGED badCommits,
             \A id \in Ids : outcome'[id] \in {"pending", "late"} =>
                outcome[id] \in {"pending", "late"}
      PROVE  Blamed'
  BY <1>3 DEF Blamed
<1>4. CASE UNCHANGED vars
  BY <1>3, <1>4 DEF vars, scopeVars, faultVars
<1>5. ASSUME NEW p \in Procs, Opening(p)
      PROVE  UNCHANGED <<outcome, badCommits>>
  BY <1>5 DEF Opening, Open, BeginMigration, CreateTable, RecordMigration, CommitMigration,
     RefuseMigration, Opened, scopeVars, faultVars
<1>6. ASSUME NEW p \in Procs, Running(p)
      PROVE  Blamed'
  <2>1. CASE CommitScopeFails(p)
    BY <1>2, <2>1 DEF CommitScopeFails
  <2>2. CASE CommitLeftover(p)
    BY <1>3, <2>2 DEF CommitLeftover, Settled, faultVars
  <2>3. CASE \E k \in Kinds : BeginScope(p, k)
    BY <1>1, <1>3, <2>3 DEF BeginScope, faultVars
  <2>4. CASE EnterNested(p) \/ ExitNested(p) \/ AppendAudit(p) \/ \E row \in Rows : Upsert(p, row)
    BY <1>3, <2>4 DEF EnterNested, ExitNested, AppendAudit, Upsert, Advance, scopeVars, faultVars
  <2>5. CASE CommitScope(p) \/ Raise(p)
    BY <1>1, <1>3, <2>5 DEF CommitScope, Raise, faultVars
  <2> QED
    BY <1>6, <2>1, <2>2, <2>3, <2>4, <2>5 DEF Running
<1>7. ASSUME NEW p \in Procs, Recording(p)
      PROVE  Blamed'
  <2>1. CASE CommitEventFails(p)
    BY <1>2, <2>1 DEF CommitEventFails
  <2>2. CASE CommitEvent(p)
    BY <1>3, <2>2 DEF CommitEvent, Settled, faultVars
  <2>3. CASE ~CommitEventFails(p) /\ ~CommitEvent(p)
    BY <1>3, <1>7, <2>3 DEF Recording, AcknowledgeReplay, LookForEvent, InsertEvent,
       InsertRefused, InsertBusy, scopeVars, faultVars
  <2> QED
    BY <2>1, <2>2, <2>3
<1>8. ASSUME NEW p \in Procs, Crash(p)
      PROVE  Blamed'
  BY <1>3, <1>8 DEF Crash
<1> QED
  BY <1>3, <1>4, <1>5, <1>6, <1>7, <1>8 DEF Next

\* As long as no COMMIT has failed, transaction() keeps its promise: it commits on
\* success and rolls back on any exception, for every block and nesting of blocks.
\* (After a failed COMMIT it does not; see RolledBackOnAnyException.)
THEOREM PromiseWithoutFailures == Spec => [](badCommits = 0 => RolledBackOnAnyException)
<1>1. Init => Blamed
  BY DEF Init, Blamed
<1>2. Scopes /\ Blamed => (badCommits = 0 => RolledBackOnAnyException)
  BY DEF Scopes, WholeOrNothing, Blamed, RolledBackOnAnyException, AsTold
<1> QED
  BY <1>1, <1>2, NextBlamed, StoreGuarded, StoreScoped, PTL DEF Spec

-----------------------------------------------------------------------------
\* The refinement.

\* A COMMIT that finds a scope written to its end publishes that scope.
LEMMA Publishes ==
    ASSUME Guarded, Scopes, NEW id \in Ids, NEW k \in Kinds, Unsettled(id), kind[id] = k,
           \A r \in RowsOf[k] : draft.rows[r] = id,
           {id} \X EntriesOf[k] \subseteq draft.audit, db' = draft
    PROVE  Promise!Next
<1>1. PICK done \in [{id} -> Kinds] : done = [i \in {id} |-> k]
  OBVIOUS
<1>2. DOMAIN done = {id} /\ done[id] = k
  BY <1>1
<1>3. /\ \A r \in Rows : draft.rows[r] = db.rows[r] \/ (draft.rows[r] = id /\ r \in RowsOf[k])
      /\ draft.audit = db.audit \cup ({id} \X EntriesOf[k])
  BY DEF Scopes, Ahead
<1>4. db'.rows \in [Rows -> Ids \cup {0}]
  BY DEF Guarded, Typed, TypeOK, Database
<1>5. id <= id
  BY DEF Ids
<1>6. ASSUME NEW r \in Rows
      PROVE  LET Writers == {i \in DOMAIN done : r \in RowsOf[done[i]]} IN
             IF Writers = {} THEN db'.rows[r] = db.rows[r]
             ELSE db'.rows[r] \in Writers /\ \A i \in Writers : i <= db'.rows[r]
  <2>1. CASE r \in RowsOf[k]
    <3>1. {i \in DOMAIN done : r \in RowsOf[done[i]]} = {id}
      BY <1>2, <2>1
    <3> QED
      BY <1>5, <2>1, <3>1
  <2>2. CASE r \notin RowsOf[k]
    <3>1. {i \in DOMAIN done : r \in RowsOf[done[i]]} = {}
      BY <1>2, <2>2
    <3> QED
      BY <1>3, <2>2, <3>1
  <2> QED
    BY <2>1, <2>2
<1>7. UNION {{i} \X EntriesOf[done[i]] : i \in DOMAIN done} = {id} \X EntriesOf[k]
  BY <1>2
<1>8. db'.audit = db.audit \cup UNION {{i} \X EntriesOf[done[i]] : i \in DOMAIN done}
  BY <1>3, <1>7
<1>9. Promise!Land(done)
  BY <1>4, <1>6, <1>8 DEF Promise!Land
<1>10. {id} \in SUBSET Ids
  OBVIOUS
<1> QED
  BY <1>9, <1>10 DEF Promise!Next

\* Only a connection that has the lock writes the file.
LEMMA WhoCommits ==
    ASSUME [Next]_vars, db' # db
    PROVE  \E p \in Procs : /\ lock = p /\ db' = draft
                            /\ CommitScope(p) \/ pc[p] # "running"
<1> USE DEF vars, fileVars
<1>1. PICK p \in Procs : Opening(p) \/ Running(p) \/ Recording(p) \/ Crash(p)
  BY DEF Next
<1>2. CASE Opening(p)
  BY <1>2 DEF Opening, Open, BeginMigration, CreateTable, RecordMigration, CommitMigration,
       RefuseMigration, Opened, Commit, Rollback
<1>3. CASE Running(p)
  <2>1. ~CommitScope(p) => CommitLeftover(p)
    BY <1>3 DEF Running, BeginScope, EnterNested, ExitNested, Upsert, AppendAudit, Advance,
         CommitScopeFails, Raise, Rollback
  <2> QED
    BY <2>1 DEF CommitLeftover, CommitScope, Commit
<1>4. CASE Recording(p)
  BY <1>4 DEF Recording, AcknowledgeReplay, LookForEvent, InsertEvent, InsertRefused,
       InsertBusy, CommitEvent, CommitEventFails, Commit
<1>5. CASE Crash(p)
  BY <1>5 DEF Crash, Rollback
<1> QED
  BY <1>1, <1>2, <1>3, <1>4, <1>5

LEMMA StepsKeepPromise ==
    ASSUME Guarded, Scopes, [Next]_vars
    PROVE  Promise!Next \/ UNCHANGED <<db.rows, db.audit>>
<1> SUFFICES ASSUME db' # db
             PROVE  Promise!Next \/ UNCHANGED <<db.rows, db.audit>>
  OBVIOUS
<1>1. PICK p \in Procs : lock = p /\ db' = draft /\ (CommitScope(p) \/ pc[p] # "running")
  BY WhoCommits
<1>2. CASE \A id \in Ids : ~Unsettled(id)
  BY <1>1, <1>2 DEF Scopes, Ahead
<1>3. ASSUME NEW id \in Ids, Unsettled(id)
      PROVE  Promise!Next
  <2>1. id = begun
    BY <1>3 DEF Scopes, Numbered
  <2>2. kind[id] \in Kinds
    BY <2>1 DEF Scopes, Numbered, Ids
  <2>3. CASE outcome[id] = "pending"
    BY <1>1, <1>3, <2>2, <2>3, Publishes DEF Scopes, Ahead
  <2>4. CASE outcome[id] = "running"
    <3>1. CommitScope(p)
      BY <1>1, <2>4 DEF Scopes, Numbered, Guarded, Locked, Writing
    <3>2. Reaches(p, <<"exit">>) /\ depth[p] = 1
      BY <3>1 DEF CommitScope
    <3> QED
      BY <1>1, <1>3, <2>1, <2>2, <3>2, Complete, Publishes
  <2> QED
    BY <1>3, <2>3, <2>4 DEF Unsettled
<1> QED
  BY <1>2, <1>3

\* Whoever opens the database, whenever, finds whole scopes: the processes, with
\* their migrations, nested scopes, failed COMMITs, cost records and ends,
\* implement the atomic store that transaction() promises.
THEOREM StoreIsAtomic == Spec => StoreSpec
<1>1. Init => Promise!Init
  BY DEF Init, Promise!Init, NoDatabase
<1>2. Guarded /\ Scopes /\ [Next]_vars => [Promise!Next]_<<db.rows, db.audit>>
  BY StepsKeepPromise
<1> QED
  BY <1>1, <1>2, StoreGuarded, StoreScoped, PTL DEF Spec, StoreSpec, Promise!Spec

=============================================================================
