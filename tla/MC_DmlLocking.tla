--------------------------- MODULE MC_DmlLocking ---------------------------
(***************************************************************************)
(* Model-checking instance of DmlLocking: two sessions, two rows, two      *)
(* values per column.                                                      *)
(***************************************************************************)
EXTENDS DmlLocking

CONSTANTS T1, T2

MCTxns == {T1, T2}
MCRows == {1, 2}
MCVals == {1, 2}

\* Row 1 is (a = 1, b = 1), row 2 is (a = 2, b = 2).
MCRowVal == [r \in MCRows |-> [a |-> r, b |-> r]]

S(k, c, v, p) == [kind |-> k, col |-> c, val |-> v, path |-> p]

\* Statements that reach every row through one index only: the conditions
\* of all sessions are on column a, through the index or the heap.
ColAStmts == {S(k, "a", v, p) : k \in {"SELECT", "DELETE"}, v \in MCVals, p \in {"INDEX", "SEQ"}}

\* Every script of one or two such statements per session.
OneIndexScripts ==
  [MCTxns -> {<<s>> : s \in ColAStmts} \cup {<<s, x>> : s, x \in ColAStmts}]

\* Two sessions taking the two indexes in opposite orders: the wait-for
\* cycle of spec 8 scenario 5.
CrossScripts ==
  {[t \in MCTxns |->
      IF t = T1 THEN <<S("DELETE", "a", 1, "INDEX"), S("DELETE", "a", 2, "INDEX")>>
                ELSE <<S("DELETE", "a", 2, "INDEX"), S("DELETE", "a", 1, "INDEX")>>]}

\* One session reads or deletes row 1 through the index on a, the other
\* deletes it through the index on b.
TwoIndexScripts ==
  {[t \in MCTxns |->
      IF t = T1 THEN <<S(k, "a", 1, "INDEX")>> ELSE <<S("DELETE", "b", 1, "INDEX")>>] :
     k \in {"SELECT", "DELETE"}}
=============================================================================
