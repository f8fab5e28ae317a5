-------------------------- MODULE IndexMaintenance --------------------------
(***************************************************************************)
(* A table with a unique single-column index on each of its columns a and *)
(* b, and the statements that change it, one at a time as one session     *)
(* runs them (each statement its own transaction).                         *)
(*                                                                         *)
(* Portal::start (src/src/portal.h) runs an UPDATE's or DELETE's scan to   *)
(* its end to collect the rids.  For an UPDATE it sets is_set_index_key to *)
(* false when the scan was an index scan and no SET column is a column of  *)
(* THAT index, and hands the flag to the UpdateExecutor.  The             *)
(* DeleteExecutor (executor_delete.h) deletes from every index the entry  *)
(* under the key built from the record, then the record.  An index scan   *)
(* absorbs an equality on its column into the key range and checks it on  *)
(* the key, never on the record (executor_index_scan.h), and fetches the   *)
(* record of every rid it yields.                                          *)
(*                                                                         *)
(* The UpdateExecutor and InsertExecutor are not in the repository and    *)
(* follow spec 4.6.9: per rid, read the record, write the new image, and  *)
(* unless is_set_index_key is false replace the entry of every index; an  *)
(* insert adds the record and an entry to every index.  A key already in  *)
(* a unique index raises DuplicateKey, and a rid with no record makes     *)
(* get_record fail; either error aborts the statement's transaction,      *)
(* which undoes it (spec 4.5, 7), so a failed statement changes nothing.  *)
(***************************************************************************)
EXTENDS Integers, Sequences, SequencesExt

CONSTANTS
  Rids,      \* record slots of the table
  Vals,      \* column values
  InitRows,  \* the rows at start: a function from rids to [a, b]
  Stmts      \* the statements the session may run

Cols == {"a", "b"}

VARIABLES
  heap,      \* the record file: rid -> [a |-> ., b |-> .]
  idx,       \* idx[c]: the entries <<key, rid>> of the index on c
  last       \* the last statement, its error, and the rows a SELECT returned

vars == <<heap, idx, last>>

\* An index exactly as the heap says it should be.
IndexOf(h, c) == {<<h[r][c], r>> : r \in DOMAIN h}

NoStmt == [kind |-> "none"]

-----------------------------------------------------------------------------
(* Scans.  A statement is [kind, col, val, path, set, new]: WHERE col = val *)
(* through the index on col or the heap, SET set = new.                    *)

\* The rids the scan yields: on the index, the entries whose key equals
\* val; on the heap, the records whose column equals val.
ScanRids(s) ==
  IF s.path = "INDEX" THEN {e[2] : e \in {e \in idx[s.col] : e[1] = s.val}}
  ELSE {r \in DOMAIN heap : heap[r][s.col] = s.val}

\* get_record fails for a rid whose record is gone.
Missing(rids) == rids \ DOMAIN heap

-----------------------------------------------------------------------------
(* Actions.                                                                *)

\* SELECT * WHERE col = val: the records of the rids the scan yields.
Select(s) ==
  /\ s.kind = "SELECT"
  /\ LET rs == ScanRids(s)
     IN  last' = [stmt |-> s, err |-> IF Missing(rs) # {} THEN "Internal" ELSE "none",
                  rows |-> {heap[r] : r \in rs \cap DOMAIN heap}]
  /\ UNCHANGED <<heap, idx>>

\* Portal::start, T_Update: is_set_index_key is false only after an index
\* scan whose index (cols_map) holds none of the SET columns.
IsSetIndexKey(s) == ~(s.path = "INDEX" /\ s.set # s.col)

\* UpdateExecutor::Next over the collected rids: write the new images and,
\* if is_set_index_key, delete every index's entry under the old key and
\* insert one under the new key.
Update(s) ==
  /\ s.kind = "UPDATE"
  /\ LET rs   == ScanRids(s)
         h2   == [r \in DOMAIN heap |-> IF r \in rs THEN [heap[r] EXCEPT ![s.set] = s.new] ELSE heap[r]]
         maint == IsSetIndexKey(s)
         idx2 == [c \in Cols |-> IF maint
                                 THEN {e \in idx[c] : ~\E r \in rs : e[1] = heap[r][c]}
                                        \cup {<<h2[r][c], r>> : r \in rs}
                                 ELSE idx[c]]
         dup  == maint /\ \E c \in Cols, r \in rs : \E e \in idx2[c] : e[1] = h2[r][c] /\ e[2] # r
         err  == CASE Missing(rs) # {} -> "Internal"
                   [] dup             -> "DuplicateKey"
                   [] OTHER           -> "none"
     IN  /\ last' = [stmt |-> s, err |-> err, rows |-> {}]
         /\ IF err = "none" THEN heap' = h2 /\ idx' = idx2
                           ELSE UNCHANGED <<heap, idx>>

\* DeleteExecutor::Next: per rid, get_record, delete every index's entry
\* under the key built from the record, delete the record.
Delete(s) ==
  /\ s.kind = "DELETE"
  /\ LET rs == ScanRids(s)
     IN  IF Missing(rs) # {}
         THEN /\ last' = [stmt |-> s, err |-> "Internal", rows |-> {}]
              /\ UNCHANGED <<heap, idx>>
         ELSE /\ idx' = [c \in Cols |-> {e \in idx[c] : ~\E r \in rs : e[1] = heap[r][c]}]
              /\ heap' = [r \in DOMAIN heap \ rs |-> heap[r]]
              /\ last' = [stmt |-> s, err |-> "none", rows |-> {}]

\* InsertExecutor: a free slot takes the record, every index an entry.
Insert(s) ==
  /\ s.kind = "INSERT"
  /\ \E r \in Rids \ DOMAIN heap :
       LET row == [a |-> s.val, b |-> s.new]
       IN  IF \E c \in Cols : \E e \in idx[c] : e[1] = row[c]
           THEN /\ last' = [stmt |-> s, err |-> "DuplicateKey", rows |-> {}]
                /\ UNCHANGED <<heap, idx>>
           ELSE /\ heap' = heap @@ (r :> row)
                /\ idx' = [c \in Cols |-> idx[c] \cup {<<row[c], r>>}]
                /\ last' = [stmt |-> s, err |-> "none", rows |-> {}]

Init ==
  /\ heap = InitRows
  /\ idx = [c \in Cols |-> IndexOf(InitRows, c)]
  /\ last = [stmt |-> NoStmt, err |-> "none", rows |-> {}]

Next == \E s \in Stmts : Select(s) \/ Update(s) \/ Delete(s) \/ Insert(s)

Spec == Init /\ [][Next]_vars

-----------------------------------------------------------------------------
(* Properties.                                                             *)

\* A SELECT that completes returns, through an index as through the heap,
\* exactly the rows of the table with col = val (spec 4.6: the access path
\* is the planner's choice and does not change the answer), whatever
\* UPDATEs and DELETEs ran before it.
SelectSeesHeap ==
  (last.stmt.kind = "SELECT" /\ last.err = "none") =>
    last.rows = {heap[r] : r \in {r \in DOMAIN heap : heap[r][last.stmt.col] = last.stmt.val}}
=============================================================================
