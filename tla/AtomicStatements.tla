-------------------------- MODULE AtomicStatements --------------------------
(***************************************************************************)
(* What the DML path promises concurrent sessions (spec 4.5 and 8.5), with *)
(* no locks, no scan and no per-rid loop: each SELECT or DELETE of an      *)
(* active transaction takes effect in one step, on the table as it is at   *)
(* that step; commit keeps the transaction's deletions and abort puts      *)
(* every row it deleted back.  Transactions may interleave between         *)
(* statements; nothing here orders them.                                   *)
(***************************************************************************)

CONSTANTS
  Txns,      \* transactions
  Rows,      \* rids of the table's rows
  Cols,      \* columns a statement's condition may name
  Vals,      \* values
  RowVal     \* RowVal[r][c]: the value of column c in row r

VARIABLES
  table,     \* rows in the table
  wset,      \* wset[t]: rows t deleted and has not given back
  reads,     \* reads[t]: rows a SELECT of t returned
  status     \* "active", "committed" or "aborted"

vars == <<table, wset, reads, status>>

Where(c, v) == {r \in table : RowVal[r][c] = v}

Active(t) == status[t] = "active"

\* SELECT ... WHERE c = v returns every row of the table with c = v.
Select(t, c, v) ==
  /\ Active(t)
  /\ reads' = [reads EXCEPT ![t] = @ \cup Where(c, v)]
  /\ UNCHANGED <<table, wset, status>>

\* DELETE ... WHERE c = v removes them all at once.
Delete(t, c, v) ==
  /\ Active(t)
  /\ table' = table \ Where(c, v)
  /\ wset' = [wset EXCEPT ![t] = @ \cup Where(c, v)]
  /\ UNCHANGED <<reads, status>>

Commit(t) ==
  /\ Active(t)
  /\ status' = [status EXCEPT ![t] = "committed"]
  /\ UNCHANGED <<table, wset, reads>>

\* Abort gives back every row t deleted.
Abort(t) ==
  /\ Active(t)
  /\ table' = table \cup wset[t]
  /\ wset' = [wset EXCEPT ![t] = {}]
  /\ status' = [status EXCEPT ![t] = "aborted"]
  /\ UNCHANGED reads

Init ==
  /\ table = Rows
  /\ wset = [t \in Txns |-> {}]
  /\ reads = [t \in Txns |-> {}]
  /\ status = [t \in Txns |-> "active"]

Next ==
  \E t \in Txns :
    \/ \E c \in Cols, v \in Vals : Select(t, c, v) \/ Delete(t, c, v)
    \/ Commit(t) \/ Abort(t)

Spec == Init /\ [][Next]_vars
=============================================================================
