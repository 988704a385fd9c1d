----------------------------- MODULE AtomicStore -----------------------------
(***************************************************************************)
(* What transaction() promises to everyone who opens the database: rows    *)
(* and audit entries change by whole scopes only.  A row is stood for by   *)
(* the number of the scope that wrote it last, scopes being numbered as    *)
(* they begin.  SqliteStore is shown to implement this specification.      *)
(***************************************************************************)
EXTENDS Naturals

CONSTANTS
    Rows,       \* the rows that scopes upsert
    Ids,        \* the numbers of the scopes
    Kinds,      \* the blocks the services run in a scope
    RowsOf,     \* the rows a block of each kind writes
    EntriesOf   \* the audit entries a block of each kind appends

VARIABLES rows, audit

Init == rows = [r \in Rows |-> 0] /\ audit = {}

\* The scopes of done, each of the kind it names, become visible at once; a
\* row several of them wrote is left as the last one wrote it.
Land(done) ==
    LET Writers(r) == {id \in DOMAIN done : r \in RowsOf[done[id]]} IN
    /\ rows' \in [Rows -> Ids \cup {0}]
    /\ \A r \in Rows :
         IF Writers(r) = {} THEN rows'[r] = rows[r]
         ELSE rows'[r] \in Writers(r) /\ \A id \in Writers(r) : id <= rows'[r]
    /\ audit' = audit \cup UNION {{id} \X EntriesOf[done[id]] : id \in DOMAIN done}

Next == \E ids \in SUBSET Ids : \E done \in [ids -> Kinds] : Land(done)

Spec == Init /\ [][Next]_<<rows, audit>>

=============================================================================
