----------------------------- MODULE DmlLocking -----------------------------
(***************************************************************************)
(* Concurrent sessions running SELECT and DELETE statements on one table   *)
(* with two single-column unique indexes.                                  *)
(*                                                                         *)
(* Portal::start (src/src/portal.h) builds the scan of a DELETE in gap     *)
(* mode, runs it to the end to collect the rids, and hands them to a       *)
(* DeleteExecutor (src/src/execution/executor_delete.h).  The scan takes   *)
(* its lock in its constructor: an IndexScanExecutor a gap lock on its     *)
(* index built from the absorbed conditions (executor_index_scan.h), a     *)
(* SeqScanExecutor a table lock (spec 4.6.3).  The DeleteExecutor locks    *)
(* the table and every index only when the scan was not an index scan and *)
(* found rows; then, per rid, it writes the log record, sets the page LSN, *)
(* deletes the index entries and the record, and appends a write record.   *)
(*                                                                         *)
(* The lock manager and the transaction manager are not in the repository *)
(* and are modelled from spec 4.3 and 4.5: blocking acquisition with       *)
(* wait-for cycle detection that aborts the requester, strict 2PL, commit  *)
(* and abort (undo of the write set in reverse) releasing every lock.      *)
(* A table lock conflicts with a gap lock on one of the table's indexes    *)
(* when either is X; two gap locks conflict when either is X and their     *)
(* key sets on the same index intersect.                                   *)
(***************************************************************************)
EXTENDS Integers, Sequences, FiniteSets, SequencesExt

CONSTANTS
  Txns,          \* sessions, each running one transaction
  Rows,          \* rids of the table's rows (1..N, the heap order)
  Vals,          \* column values
  RowVal,        \* RowVal[r][c]: the value of column c ("a" or "b") in row r
  ScriptChoices  \* candidate assignments of statement sequences to sessions

Cols == {"a", "b"}          \* one unique index on each column
INVALID_LSN == 0

\* A statement: its kind, the column and literal of its one condition, and
\* the access path the planner chose.
Stmt == [kind : {"SELECT", "DELETE"}, col : Cols, val : Vals, path : {"INDEX", "SEQ"}]

VARIABLES
  script,      \* script[t]: the statements session t runs, then COMMIT
  pc,          \* pc[t]: the next statement of t
  phase,       \* "stmt", "scanLock", "dmlLock", "delete", "committed", "aborted"
  need,        \* locks the current step still has to acquire, in order
  waiting,     \* waiting[t]: t is blocked on Head(need[t])
  held,        \* held[t]: the locks t holds
  rids,        \* rids collected by the current DELETE's scan, in scan order
  readSet,     \* rows a SELECT of t returned
  writeSet,    \* the txn's write set: rows it deleted, in order
  present,     \* rows in the table
  log,         \* the log: records [type, txn, row, prev]
  prevLsn,     \* prev_lsn of each txn
  pageLsn      \* page LSN of each row's page

vars == <<script, pc, phase, need, waiting, held, rids, readSet, writeSet,
          present, log, prevLsn, pageLsn>>

Cur(t) == script[t][pc[t]]

Matching(s, rows) == {r \in rows : RowVal[r][s.col] = s.val}

-----------------------------------------------------------------------------
(* Locks.                                                                  *)

TableLock(m)      == [kind |-> "TABLE", col |-> "none", keys |-> Vals, mode |-> m]
GapLock(c, ks, m) == [kind |-> "GAP", col |-> c, keys |-> ks, mode |-> m]

Conflicts(l, m) ==
  /\ "X" \in {l.mode, m.mode}
  /\ \/ "TABLE" \in {l.kind, m.kind}
     \/ l.col = m.col /\ l.keys \cap m.keys # {}

Blockers(t) ==
  {u \in Txns \ {t} : \E l \in held[u] : Conflicts(Head(need[t]), l)}

\* The lock the scan's constructor takes (gap_mode_ is TRUE for a DELETE):
\* an index scan locks the gap of its absorbed condition on its index, a
\* sequential scan the table.
\* Mutant: the scan ignores gap_mode_ and always locks in shared mode.
ScanLocksShared(s) ==
  IF s.path = "INDEX" THEN <<GapLock(s.col, {s.val}, "S")>> ELSE <<TableLock("S")>>

ScanLocks(s) ==
  LET m == IF s.kind = "DELETE" THEN "X" ELSE "S"
  IN  IF s.path = "INDEX" THEN <<GapLock(s.col, {s.val}, m)>> ELSE <<TableLock(m)>>

\* The DeleteExecutor constructor: X on the table and an X gap lock on every
\* index, in the order of tab_.indexes (by index name), whose gap (no
\* conditions) is the whole key space; only when the scan was not an
\* index scan and found rows.
DmlLocks(s, found) ==
  IF s.path # "INDEX" /\ found # <<>>
  THEN <<TableLock("X"), GapLock("a", Vals, "X"), GapLock("b", Vals, "X")>>
  ELSE <<>>

\* Scan order: key order on an index (the indexes are unique), rid order
\* on the heap.
ScanOrder(s, rows) ==
  IF s.path = "INDEX"
  THEN SetToSortSeq(rows, LAMBDA x, y : RowVal[x][s.col] < RowVal[y][s.col])
  ELSE SetToSortSeq(rows, LAMBDA x, y : x < y)

-----------------------------------------------------------------------------
(* Lock manager.                                                           *)

Acquire(t) ==
  /\ need[t] # <<>> /\ Blockers(t) = {}
  /\ held' = [held EXCEPT ![t] = @ \cup {Head(need[t])}]
  /\ need' = [need EXCEPT ![t] = Tail(@)]
  /\ waiting' = [waiting EXCEPT ![t] = FALSE]
  /\ UNCHANGED <<script, pc, phase, rids, readSet, writeSet, present, log, prevLsn, pageLsn>>

\* Transaction manager: abort undoes the write set in reverse, logs ABORT
\* and releases every lock.
Rollback(t) ==
  /\ present' = present \cup Range(writeSet[t])
  /\ log' = Append(log, [type |-> "ABORT", txn |-> t, row |-> 0, prev |-> prevLsn[t]])
  /\ prevLsn' = [prevLsn EXCEPT ![t] = Len(log) + 1]
  /\ phase' = [phase EXCEPT ![t] = "aborted"]
  /\ held' = [held EXCEPT ![t] = {}]
  /\ need' = [need EXCEPT ![t] = <<>>]
  /\ waiting' = [waiting EXCEPT ![t] = FALSE]
  /\ rids' = [rids EXCEPT ![t] = <<>>]
  /\ UNCHANGED <<script, pc, readSet, writeSet, pageLsn>>

\* A blocking request adds the wait-for edges and searches for a cycle; on
\* one it aborts the requester, else the requester sleeps.
\* Mutant: a blocking request sleeps without searching for a cycle.
BlockNoCycleCheck(t) ==
  /\ need[t] # <<>> /\ Blockers(t) # {} /\ ~waiting[t]
  /\ waiting' = [waiting EXCEPT ![t] = TRUE]
  /\ UNCHANGED <<script, pc, phase, need, held, rids, readSet, writeSet,
                 present, log, prevLsn, pageLsn>>

Block(t) ==
  /\ need[t] # <<>> /\ Blockers(t) # {} /\ ~waiting[t]
  /\ IF \E u \in Blockers(t) : waiting[u] /\ t \in Blockers(u)
     THEN Rollback(t)
     ELSE /\ waiting' = [waiting EXCEPT ![t] = TRUE]
          /\ UNCHANGED <<script, pc, phase, need, held, rids, readSet, writeSet,
                         present, log, prevLsn, pageLsn>>

-----------------------------------------------------------------------------
(* Portal and executors.                                                   *)

\* Portal::start builds the scan: its constructor requests its lock.
StartStmt(t) ==
  /\ phase[t] = "stmt" /\ pc[t] <= Len(script[t])
  /\ phase' = [phase EXCEPT ![t] = "scanLock"]
  /\ need' = [need EXCEPT ![t] = ScanLocks(Cur(t))]
  /\ UNCHANGED <<script, pc, waiting, held, rids, readSet, writeSet, present, log, prevLsn, pageLsn>>

\* With the lock held, the scan runs to its end.  A SELECT returns the rows;
\* a DELETE collects the rids and builds the DeleteExecutor, whose
\* constructor requests its locks.
Scan(t) ==
  /\ phase[t] = "scanLock" /\ need[t] = <<>>
  /\ LET s     == Cur(t)
         found == ScanOrder(s, Matching(s, present))
     IN  IF s.kind = "SELECT"
         THEN /\ readSet' = [readSet EXCEPT ![t] = @ \cup Range(found)]
              /\ pc' = [pc EXCEPT ![t] = @ + 1]
              /\ phase' = [phase EXCEPT ![t] = "stmt"]
              /\ UNCHANGED <<need, rids>>
         ELSE /\ rids' = [rids EXCEPT ![t] = found]
              /\ need' = [need EXCEPT ![t] = DmlLocks(s, found)]
              /\ phase' = [phase EXCEPT ![t] = "delete"]
              /\ UNCHANGED <<readSet, pc>>
  /\ UNCHANGED <<script, waiting, held, writeSet, present, log, prevLsn, pageLsn>>

\* Mutant: the page LSN is taken one past the record's LSN.
DeleteRidPageLsnAhead(t) ==
  /\ phase[t] = "delete" /\ need[t] = <<>> /\ rids[t] # <<>>
  /\ LET r == Head(rids[t]) IN
     IF r \notin present
     THEN Rollback(t)
     ELSE /\ log' = Append(log, [type |-> "DELETE", txn |-> t, row |-> r, prev |-> prevLsn[t]])
          /\ prevLsn' = [prevLsn EXCEPT ![t] = Len(log) + 1]
          /\ pageLsn' = [pageLsn EXCEPT ![r] = Len(log) + 2]
          /\ present' = present \ {r}
          /\ writeSet' = [writeSet EXCEPT ![t] = Append(@, r)]
          /\ rids' = [rids EXCEPT ![t] = Tail(@)]
          /\ UNCHANGED <<script, pc, phase, need, waiting, held, readSet>>

\* Mutant: the deleted rid is not appended to the write set.
DeleteRidNoWriteSet(t) ==
  /\ phase[t] = "delete" /\ need[t] = <<>> /\ rids[t] # <<>>
  /\ LET r == Head(rids[t]) IN
     IF r \notin present
     THEN Rollback(t)
     ELSE /\ log' = Append(log, [type |-> "DELETE", txn |-> t, row |-> r, prev |-> prevLsn[t]])
          /\ prevLsn' = [prevLsn EXCEPT ![t] = Len(log) + 1]
          /\ pageLsn' = [pageLsn EXCEPT ![r] = Len(log) + 1]
          /\ present' = present \ {r}
          /\ rids' = [rids EXCEPT ![t] = Tail(@)]
          /\ UNCHANGED <<script, pc, phase, need, waiting, held, readSet, writeSet>>

DeleteRid(t) ==
  /\ phase[t] = "delete" /\ need[t] = <<>> /\ rids[t] # <<>>
  /\ LET r == Head(rids[t]) IN
     IF r \notin present
     THEN Rollback(t)
     ELSE /\ log' = Append(log, [type |-> "DELETE", txn |-> t, row |-> r, prev |-> prevLsn[t]])
          /\ prevLsn' = [prevLsn EXCEPT ![t] = Len(log) + 1]
          /\ pageLsn' = [pageLsn EXCEPT ![r] = Len(log) + 1]
          /\ present' = present \ {r}
          /\ writeSet' = [writeSet EXCEPT ![t] = Append(@, r)]
          /\ rids' = [rids EXCEPT ![t] = Tail(@)]
          /\ UNCHANGED <<script, pc, phase, need, waiting, held, readSet>>

\* Next returns after the last rid; the statement is over.
DeleteDone(t) ==
  /\ phase[t] = "delete" /\ need[t] = <<>> /\ rids[t] = <<>>
  /\ pc' = [pc EXCEPT ![t] = @ + 1]
  /\ phase' = [phase EXCEPT ![t] = "stmt"]
  /\ UNCHANGED <<script, need, waiting, held, rids, readSet, writeSet, present, log, prevLsn, pageLsn>>

\* COMMIT: log it and release every lock.
Commit(t) ==
  /\ phase[t] = "stmt" /\ pc[t] > Len(script[t])
  /\ log' = Append(log, [type |-> "COMMIT", txn |-> t, row |-> 0, prev |-> prevLsn[t]])
  /\ prevLsn' = [prevLsn EXCEPT ![t] = Len(log) + 1]
  /\ phase' = [phase EXCEPT ![t] = "committed"]
  /\ held' = [held EXCEPT ![t] = {}]
  /\ UNCHANGED <<script, pc, need, waiting, rids, readSet, writeSet, present, pageLsn>>

Finished == \A t \in Txns : phase[t] \in {"committed", "aborted"}

Terminated == Finished /\ UNCHANGED vars

Init ==
  /\ script \in ScriptChoices
  /\ pc = [t \in Txns |-> 1]
  /\ phase = [t \in Txns |-> "stmt"]
  /\ need = [t \in Txns |-> <<>>]
  /\ waiting = [t \in Txns |-> FALSE]
  /\ held = [t \in Txns |-> {}]
  /\ rids = [t \in Txns |-> <<>>]
  /\ readSet = [t \in Txns |-> {}]
  /\ writeSet = [t \in Txns |-> <<>>]
  /\ present = Rows
  /\ log = <<>>
  /\ prevLsn = [t \in Txns |-> INVALID_LSN]
  /\ pageLsn = [r \in Rows |-> INVALID_LSN]

Step(t) ==
  \/ Acquire(t) \/ Block(t) \/ StartStmt(t) \/ Scan(t) \/ DeleteRid(t)
  \/ DeleteDone(t) \/ Commit(t)

Next == (\E t \in Txns : Step(t)) \/ Terminated

Spec == Init /\ [][Next]_vars

\* Each session's thread runs its statement to completion unless it sleeps
\* on a lock; a released lock wakes it (condition variable).
Fairness == \A t \in Txns : WF_vars(Step(t))

LiveSpec == Spec /\ Fairness

-----------------------------------------------------------------------------
(* Properties.                                                             *)

Lock == [kind : {"TABLE", "GAP"}, col : Cols \cup {"none"}, keys : SUBSET Vals, mode : {"S", "X"}]
LogRec == [type : {"DELETE", "COMMIT", "ABORT"}, txn : Txns, row : Rows \cup {0}, prev : Nat]

TypeOK ==
  /\ phase \in [Txns -> {"stmt", "scanLock", "delete", "committed", "aborted"}]
  /\ pc \in [Txns -> Nat \ {0}] /\ waiting \in [Txns -> BOOLEAN]
  /\ need \in [Txns -> Seq(Lock)] /\ held \in [Txns -> SUBSET Lock]
  /\ rids \in [Txns -> Seq(Rows)] /\ writeSet \in [Txns -> Seq(Rows)]
  /\ readSet \in [Txns -> SUBSET Rows] /\ present \subseteq Rows
  /\ log \in Seq(LogRec) /\ prevLsn \in [Txns -> 0..Len(log)]
  /\ pageLsn \in [Rows -> 0..Len(log)]

Active(t) == phase[t] \notin {"committed", "aborted"}

\* Rows a transaction has decided to delete: collected by its current
\* DELETE's scan, or already deleted and not yet committed.
Claimed(t) == Range(rids[t]) \cup Range(writeSet[t])

\* Spec 8.5 and 4.6.9: while two transactions are active, no row one of
\* them has collected or deleted is collected, deleted or read by the
\* other (the scan's gap or table lock and the DeleteExecutor's locks
\* must exclude each other).
DeleteIsolation ==
  \A t, u \in Txns :
    (t # u /\ Active(t) /\ Active(u)) =>
      Claimed(t) \cap (Claimed(u) \cup readSet[u]) = {}

\* The sessions implement AtomicStatements: every statement takes effect
\* at once, when its scan runs, and an abort gives back every row the
\* transaction deleted.  Under the mapping, the rids a DELETE's scan
\* collected have already left the table and joined the transaction's
\* write set, so the DeleteExecutor's locking and per-rid steps are
\* stutters.  This fails if a scan sees a row another statement has
\* collected but not yet deleted, if DeleteExecutor::Next drops a rid from
\* the write set that the undo replays, or if an abort (by the cycle
\* check, or by get_record failing mid-statement) restores anything else.
StatusOf(t) ==
  CASE phase[t] = "committed" -> "committed"
    [] phase[t] = "aborted"   -> "aborted"
    [] OTHER                  -> "active"

Atomic == INSTANCE AtomicStatements WITH
  table  <- present \ UNION {Range(rids[t]) : t \in Txns},
  wset   <- [t \in Txns |-> IF phase[t] = "aborted" THEN {} ELSE Claimed(t)],
  reads  <- readSet,
  status <- [t \in Txns |-> StatusOf(t)]

RefinesAtomicStatements == Atomic!Spec

\* Every transaction eventually commits or aborts: no session waits forever
\* on a lock (the lock manager's wait-for cycle detection).
AllFinish == <>Finished
=============================================================================
