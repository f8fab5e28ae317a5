---------------------------- MODULE MC_IndexScan ----------------------------
(***************************************************************************)
(* Model-checking instance of IndexScan: a two-column unique index, every  *)
(* index content of at most MaxRows rows over a small value domain per     *)
(* column type, and every combination of at most one literal condition per *)
(* column or a two-sided range on it.                                      *)
(***************************************************************************)
EXTENDS IndexScan

CONSTANTS MaxRows, IntVals, FloatVals, StrVals

\* Values a column of each type can hold: the domains include the type
\* extremes that are legal values (INT32_MIN, FLT_MAX, "" ...).
ValsOf == [INT |-> IntVals, FLOAT |-> FloatVals, STRING |-> StrVals]
Dom(i) == ValsOf[ColTypes[i]]

AllKeys == {k \in [Cols -> UNION {Dom(i) : i \in Cols}] : \A i \in Cols : k[i] \in Dom(i)}

MCTables ==
  {SetToSortSeq(T, KeyLess) : T \in {T \in SUBSET AllKeys : Cardinality(T) <= MaxRows}}

C(i, op, v) == [col |-> i, op |-> op, val |-> v]

\* The conditions one column may carry: none, one comparison, or a lower
\* and an upper bound.
ColOptions(i) ==
  {{}}
  \cup {{C(i, op, v)} : op \in CmpOps, v \in Dom(i)}
  \cup {{C(i, lo, p[1]), C(i, hi, p[2])} :
          lo \in {"GT", "GE"}, hi \in {"LT", "LE"},
          p \in {q \in Dom(i) \X Dom(i) : q[1] <= q[2]}}

MCQueries ==
  {UNION {f[i] : i \in Cols} :
     f \in {g \in [Cols -> UNION {ColOptions(i) : i \in Cols}] : \A i \in Cols : g[i] \in ColOptions(i)}}

\* The queries of a scan_index_ operator: a join condition and at least
\* one literal condition.
MCLiteralQueries == MCQueries \ {{}}

\* Conditions on the second index column alone: the derived range is the
\* whole index and every condition is re-checked on the fetched key.
MCSecondColQueries == ColOptions(2)

\* Only the no-condition query: MAX/MIN of the leading column (spec 4.6.2).
NoConds == {{}}

MCColTypesIntStr == <<"INT", "STRING">>
MCColTypesFloat == <<"FLOAT">>
MCIntMin == -1
MCIntVals == {-1, 0, 1}
MCFloatVals == {-2, 0, 2}
MCColTypesIntFloat == <<"INT", "FLOAT">>
=============================================================================
