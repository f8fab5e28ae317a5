--------------------------- MODULE IndexKeyRange ---------------------------
(***************************************************************************)
(* The key-range derivation of IndexScanExecutor::beginTuple               *)
(* (src/src/execution/executor_index_scan.h) as pure operators.            *)
(*                                                                         *)
(* A composite index key is a tuple with one value per index column.  A    *)
(* column value is represented by an integer whose order is the typed      *)
(* order of the column (INT, FLOAT or CHAR(n) compared bytewise), so the   *)
(* index order is the lexicographic order of the tuples.  The type-min and *)
(* type-max images that set_remaining_all_min/max write into a probe key   *)
(* are the constants below; for FLOAT the code writes FLT_MIN, the         *)
(* smallest POSITIVE normal float, which a model gives a value strictly    *)
(* between 0 and the positive column values.                               *)
(*                                                                         *)
(* A WHERE conjunct on an index column is [col, op, val].  The predicate   *)
(* manager (addPredicate, getLeft/RightLastTuple, cmpIndexConds) and the   *)
(* B+-tree probes (lower_bound, upper_bound, leaf_begin, leaf_end) are not *)
(* part of the repository's src/ and are modelled from the spec (4.2,      *)
(* 4.6.2, 6).                                                              *)
(***************************************************************************)
EXTENDS Integers, Sequences, FiniteSets, SequencesExt

CONSTANTS
  ColTypes,          \* the index's column types, in key order
  IntMin, IntMax,    \* INT32_MIN / INT32_MAX
  FltMin, FltMax,    \* FLT_MIN (smallest positive normal) / FLT_MAX
  StrMin, StrMax     \* CHAR(n) all-0x00 / all-0xFF

ASSUME ColTypes \in Seq({"INT", "FLOAT", "STRING"}) /\ Len(ColTypes) > 0
ASSUME IntMin < IntMax /\ StrMin < StrMax /\ 0 < FltMin /\ FltMin < FltMax

ColNum == Len(ColTypes)
Cols   == 1..ColNum

\* The comparison operators of a Condition (CompOp) and OP_INVALID.
CmpOps   == {"EQ", "NE", "LT", "GT", "LE", "GE"}
INVALID  == "INVALID"

\* int_min_/int_max_/float_min_/float_max_ and the 0x00 / 0xFF fill bytes.
TypeMinOf == [INT |-> IntMin, FLOAT |-> FltMin, STRING |-> StrMin]
TypeMaxOf == [INT |-> IntMax, FLOAT |-> FltMax, STRING |-> StrMax]

-----------------------------------------------------------------------------
(* Key order: the column-wise typed comparison of two composite keys.      *)

KeyCmp(a, b) ==
  LET diff == {i \in Cols : a[i] # b[i]}
  IN  IF diff = {} THEN 0
      ELSE IF a[Min(diff)] < b[Min(diff)] THEN -1 ELSE 1

KeyLess(a, b) == KeyCmp(a, b) < 0

\* ih_->lower_bound(key): the first leaf position whose key is >= key;
\* ih_->upper_bound(key): the first whose key is > key.  Positions are
\* 1..Len(keys)+1, leaf_begin() is 1 and leaf_end() is Len(keys)+1.
LowerBound(keys, k) ==
  LET p == SelectInSeq(keys, LAMBDA e : KeyCmp(e, k) >= 0)
  IN  IF p = 0 THEN Len(keys) + 1 ELSE p
UpperBound(keys, k) ==
  LET p == SelectInSeq(keys, LAMBDA e : KeyCmp(e, k) > 0)
  IN  IF p = 0 THEN Len(keys) + 1 ELSE p

-----------------------------------------------------------------------------
(* Condition evaluation.                                                   *)

\* The switch on the result of compare() in cmp_cond.
Holds(x, op, v) ==
  CASE op = "EQ" -> x = v
    [] op = "NE" -> x # v
    [] op = "LT" -> x < v
    [] op = "GT" -> x > v
    [] op = "LE" -> x <= v
    [] op = "GE" -> x >= v

\* The constructor's loop hands every condition with a literal right-hand
\* side and an operator other than OP_NE to addPredicate; the ones it
\* absorbs (all, since every modelled condition is on an index column) are
\* erased from conds_, and the rest stay as residual conditions.
IndexConds(conds)    == {c \in conds : c.op # "NE"}
ResidualConds(conds) == conds \ IndexConds(conds)

\* cmp_conds over the conditions left in conds_, on the fetched record.
CmpConds(k, conds) == \A c \in ResidualConds(conds) : Holds(k[c.col], c.op, c.val)

\* predicate_manager_.cmpIndexConds(key): the absorbed conditions on the key.
CmpIndexConds(k, conds) == \A c \in IndexConds(conds) : Holds(k[c.col], c.op, c.val)

-----------------------------------------------------------------------------
(* Predicate manager: the equality prefix and the range column after it.   *)

EqVal(conds, i) == {c.val : c \in {d \in IndexConds(conds) : d.col = i /\ d.op = "EQ"}}

\* last_idx: the number of leading index columns bound by equality.
EqPrefixLen(conds) ==
  Max({n \in 0..ColNum : \A i \in 1..n : EqVal(conds, i) # {}})

RangeCond(conds, i, ops) == {c \in IndexConds(conds) : c.col = i /\ c.op \in ops}

\* getLeftLastTuple / getRightLastTuple: the last operator (OP_EQ when every
\* index column is equality-bound, the range operator on the first non-
\* equality column, or OP_INVALID), last_idx, and the probe key: equality
\* literals, then the range endpoint, then the type extreme.
LastTuple(conds, ops, Extreme) ==
  LET n  == EqPrefixLen(conds)
      rc == IF n < ColNum THEN RangeCond(conds, n + 1, ops) ELSE {}
      r  == CHOOSE c \in rc : TRUE
      key == [i \in Cols |->
                IF i <= n THEN CHOOSE v \in EqVal(conds, i) : TRUE
                ELSE IF i = n + 1 /\ rc # {} THEN r.val
                ELSE Extreme[ColTypes[i]]]
  IN  [op  |-> IF n = ColNum THEN "EQ" ELSE IF rc # {} THEN r.op ELSE INVALID,
       idx |-> n,
       key |-> key]

LeftLastTuple(conds)  == LastTuple(conds, {"GT", "GE"}, TypeMinOf)
RightLastTuple(conds) == LastTuple(conds, {"LT", "LE"}, TypeMaxOf)

-----------------------------------------------------------------------------
(* The executor's probes.                                                  *)

\* set_remaining_all_max(last_idx, key) / set_remaining_all_min: overwrite
\* the (0-based) columns last_idx.. of the key with the type extreme.
SetRemainingAllMax(lastIdx, key) ==
  [i \in Cols |-> IF i > lastIdx THEN TypeMaxOf[ColTypes[i]] ELSE key[i]]
SetRemainingAllMin(lastIdx, key) ==
  [i \in Cols |-> IF i > lastIdx THEN TypeMinOf[ColTypes[i]] ELSE key[i]]

\* The first switch of beginTuple, on last_left_op: lower_, and upper_
\* where a case sets it (NoPos where it does not).  Each case probes with
\* left_key as modified by the statements before it.
NoPos == 0

\* Mutant: the OP_GT probe fills from last_idx instead of last_idx + 1,
\* overwriting the range literal itself.
LeftSwitchGtNoSkip(keys, lt, rt) ==
  LET idx   == lt.idx
      gtKey == SetRemainingAllMax(idx, lt.key)
      geKey == SetRemainingAllMin(idx + 1, lt.key)
      prefixEnd(k) == IF rt.op = INVALID /\ idx > 0
                      THEN UpperBound(keys, SetRemainingAllMax(idx, k))
                      ELSE NoPos
  IN  CASE lt.op = INVALID -> [lower |-> 1, upper |-> NoPos]
        [] lt.op = "EQ"    -> [lower |-> LowerBound(keys, lt.key),
                               upper |-> UpperBound(keys, rt.key)]
        [] lt.op = "GT"    -> [lower |-> UpperBound(keys, gtKey),
                               upper |-> prefixEnd(gtKey)]
        [] lt.op = "GE"    -> [lower |-> LowerBound(keys, geKey),
                               upper |-> prefixEnd(geKey)]

LeftSwitch(keys, lt, rt) ==
  LET idx   == lt.idx
      gtKey == SetRemainingAllMax(idx + 1, lt.key)
      geKey == SetRemainingAllMin(idx + 1, lt.key)
      prefixEnd(k) == IF rt.op = INVALID /\ idx > 0
                      THEN UpperBound(keys, SetRemainingAllMax(idx, k))
                      ELSE NoPos
  IN  CASE lt.op = INVALID -> [lower |-> 1, upper |-> NoPos]
        [] lt.op = "EQ"    -> [lower |-> LowerBound(keys, lt.key),
                               upper |-> UpperBound(keys, rt.key)]
        [] lt.op = "GT"    -> [lower |-> UpperBound(keys, gtKey),
                               upper |-> prefixEnd(gtKey)]
        [] lt.op = "GE"    -> [lower |-> LowerBound(keys, geKey),
                               upper |-> prefixEnd(geKey)]

\* The second switch, on last_right_op, applied to the result of the first.
RightSwitch(keys, lt, rt, left) ==
  LET idx   == lt.idx
      ltKey == SetRemainingAllMin(idx + 1, rt.key)
      leKey == SetRemainingAllMax(idx + 1, rt.key)
      prefixBegin(k) == IF lt.op = INVALID /\ idx > 0
                        THEN LowerBound(keys, SetRemainingAllMin(idx, k))
                        ELSE left.lower
  IN  CASE rt.op = INVALID -> [left EXCEPT !.upper = Len(keys) + 1]
        [] rt.op = "EQ"    -> left
        [] rt.op = "LT"    -> [lower |-> prefixBegin(ltKey),
                               upper |-> LowerBound(keys, ltKey)]
        [] rt.op = "LE"    -> [lower |-> prefixBegin(leKey),
                               upper |-> UpperBound(keys, leKey)]

\* lower_, upper_ and index_clean_ as the first beginTuple computes them.
ScanRange(keys, conds) ==
  LET lt    == LeftLastTuple(conds)
      rt    == RightLastTuple(conds)
      clean == lt.idx = ColNum
  IN  IF lt.op = INVALID /\ rt.op = INVALID
      THEN [lower |-> LowerBound(keys, SetRemainingAllMin(lt.idx, lt.key)),
            upper |-> UpperBound(keys, SetRemainingAllMax(lt.idx, rt.key)),
            clean |-> clean]
      ELSE LET r == RightSwitch(keys, lt, rt, LeftSwitch(keys, lt, rt))
           IN  [lower |-> r.lower, upper |-> r.upper, clean |-> clean]

\* The leaf positions an IxScan over [lower, upper) visits: it stops when it
\* reaches upper, or at the end of the leaves when it started past upper.
ScanPositions(keys, lower, upper) ==
  IF lower <= upper THEN lower..(upper - 1) ELSE lower..Len(keys)

\* Whether the scan loop returns the leaf entry at position i: the index
\* conditions are re-checked on the stored key unless index_clean_, and the
\* residual conditions on the fetched record.
Qualifies(keys, conds, clean, i) ==
  /\ clean \/ CmpIndexConds(keys[i], conds)
  /\ CmpConds(keys[i], conds)

-----------------------------------------------------------------------------
(* Reference: what a sequential scan with the same conditions selects.     *)

Matches(k, conds) == \A c \in conds : Holds(k[c.col], c.op, c.val)
=============================================================================
