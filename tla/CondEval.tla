------------------------------ MODULE CondEval ------------------------------
(***************************************************************************)
(* One WHERE condition of SELECT * FROM t WHERE lhs op rhs, from the AST   *)
(* to the rows it keeps: Analyze::do_analyze (Analyzer) resolves it and    *)
(* check_clause promotes or rejects its right-hand side, then the index    *)
(* scan on t calls IndexScanExecutor::cmp_cond                             *)
(* (src/src/execution/executor_index_scan.h) on each record it fetches.    *)
(* The statement's first conjunct is a literal condition on t's index,     *)
(* which the constructor absorbs into the key range (addPredicate); the    *)
(* second, the condition modelled, stays in conds_ and cmp_cond checks it  *)
(* on every record of the range.  (As the first conjunct, a list or        *)
(* subquery condition would switch the scan to its mergesort_ or           *)
(* scan_index_ mode, which never evaluate it.)                             *)
(*                                                                         *)
(* The right-hand side is a literal, a value list, or a subquery on table  *)
(* u: the subquery operator hangs off the condition and is re-opened       *)
(* (beginTuple) for every record.  Its rows are those of u, or the one row *)
(* of COUNT; the Aggregate executor is not in the repository and gives     *)
(* one row for a COUNT without GROUP BY (spec 4.6.7, 5).                   *)
(*                                                                         *)
(* compare(a, b, len, type) reads both images as `type` (spec 3).  An      *)
(* image is [enc, n]: the type it was written as and its value.  A value   *)
(* n >= 0 of an Int image read as a Float is the denormal n * 2^-149:      *)
(* 0.0 for n = 0, else above 0.0 and below every Float >= 1.0.  A number   *)
(* is therefore a pair <<whole, denormal>>, ordered lexicographically.     *)
(***************************************************************************)
EXTENDS Analyzer

CONSTANTS
  Cat,       \* the catalog: tables t and u
  Stmts,     \* the SELECT statements on t, one WHERE conjunct each
  TRows,     \* the contents t may have: sequences of rows [col -> value]
  URows      \* the contents u may have

VARIABLES
  stmt,      \* the statement
  t, u,      \* the two tables' rows
  phase,     \* "analyze", "scan" or "done"
  cond,      \* the analysed condition
  i,         \* the next record of t the scan hands to cmp_cond
  out,       \* the records kept
  err,       \* the error thrown, "none" if none
  errAt      \* "analyze" or "execute": where it was thrown

vars == <<stmt, t, u, phase, cond, i, out, err, errAt>>

-----------------------------------------------------------------------------
(* Images and compare.                                                     *)

Image(enc, n) == [enc |-> enc, n |-> n]

\* The Int image of a non-negative value read as a Float is a denormal;
\* any other mismatch reads bits of another type.
AsType(img, T) ==
  CASE img.enc = T                              -> <<img.n, 0>>
    [] T = TYPE_FLOAT /\ img.enc = TYPE_INT     -> <<0, img.n>>
    [] OTHER                                    -> <<-1, img.n>>

Less(p, q) == p[1] < q[1] \/ (p[1] = q[1] /\ p[2] < q[2])

\* compare(lhs, rhs, len, type): -1, 0 or 1.
Compare(l, r, T) ==
  LET a == AsType(l, T)
      b == AsType(r, T)
  IN  IF Less(a, b) THEN -1 ELSE IF a = b THEN 0 ELSE 1

\* The switch on cond.op that ends cmp_cond.
\* Mutant: >= taken as strictly greater.
CmpByOpGeStrict(cmp, op) ==
  CASE op = "="  -> cmp = 0
    [] op = "<>" -> cmp # 0
    [] op = "<"  -> cmp < 0
    [] op = ">"  -> cmp > 0
    [] op = "<=" -> cmp <= 0
    [] op = ">=" -> cmp > 0

CmpByOp(cmp, op) ==
  CASE op = "="  -> cmp = 0
    [] op = "<>" -> cmp # 0
    [] op = "<"  -> cmp < 0
    [] op = ">"  -> cmp > 0
    [] op = "<=" -> cmp <= 0
    [] op = ">=" -> cmp >= 0

-----------------------------------------------------------------------------
(* The subquery operator.                                                  *)

UTab == Cat["u"]

\* The rows cond.prev yields once re-opened, as images: COUNT's one row,
\* or the column of every row of u.
SubRows(q, rows) ==
  IF q.aggs[1] = "COUNT" THEN <<Image(TYPE_INT, Len(rows))>>
  ELSE LET col == GetCol(UTab, q.cols[1].col)
       IN  [k \in DOMAIN rows |-> Image(col.type, rows[k][col.name])]

\* rhs_type before any promotion: Int for COUNT, else the type of the
\* operator's output column.
SubType(q) ==
  IF q.aggs[1] = "COUNT" THEN TYPE_INT ELSE GetCol(UTab, q.cols[1].col).type

\* The loop of an IN subquery from row k on.  rhs_type lives across the
\* iterations: the first Int row read against a Float column turns it
\* into Float after converting that row only.
RECURSIVE InLoop(_, _, _, _, _)
InLoop(lhs, ltype, rows, k, rtype) ==
  IF k > Len(rows) THEN FALSE
  ELSE LET conv == ltype = TYPE_FLOAT /\ rtype = TYPE_INT
           img  == IF conv THEN Image(TYPE_FLOAT, rows[k].n) ELSE rows[k]
           rt   == IF conv THEN TYPE_FLOAT ELSE rtype
       IN  IF Compare(lhs, img, rt) = 0 THEN TRUE ELSE InLoop(lhs, ltype, rows, k + 1, rt)

-----------------------------------------------------------------------------
(* cmp_cond.  The result is [ok, err]: whether the record satisfies the    *)
(* condition, or the error thrown.                                         *)

Res(b) == [ok |-> b, err |-> "none"]
Throws(e) == [ok |-> FALSE, err |-> e]

\* The end of cmp_cond: the types must agree, then compare.
Checked(lhs, ltype, rimg, rtype, op) ==
  IF ltype # rtype THEN Throws("IncompatibleType") ELSE Res(CmpByOp(Compare(lhs, rimg, rtype), op))

\* Mutant: the Int row of a scalar subquery is not promoted.
ScalarSubNoPromote(lhs, ltype, rows, rtype, op) ==
  IF rows = <<>> THEN Throws("Crash") ELSE Checked(lhs, ltype, rows[1], rtype, op)

\* A scalar subquery: Next() once; on an operator that yielded nothing it
\* returns a null record, which is dereferenced.
ScalarSub(lhs, ltype, rows, rtype, op) ==
  IF rows = <<>> THEN Throws("Crash")
  ELSE IF ltype = TYPE_FLOAT /\ rtype = TYPE_INT
       THEN Checked(lhs, ltype, Image(TYPE_FLOAT, rows[1].n), TYPE_FLOAT, op)
       ELSE Checked(lhs, ltype, rows[1], rtype, op)

\* A value list was promoted by check_clause; IN matches any value, a
\* comparison takes its one value, with no type check.
ValueList(lhs, list, op) ==
  IF op = "IN" THEN Res(\E k \in DOMAIN list : Compare(lhs, Image(list[k].type, list[k].v), list[k].type) = 0)
  ELSE Res(CmpByOp(Compare(lhs, Image(list[1].type, list[1].v), list[1].type), op))

CmpCond(row, c, urows) ==
  LET lcol == GetCol(Cat["t"], c.lhs.col)
      lhs  == Image(lcol.type, row[lcol.name])
  IN  CASE c.isRhsVal ->
             Checked(lhs, lcol.type, Image(c.rhsVal.type, c.rhsVal.v), c.rhsVal.type, c.op)
        [] c.list # <<>> -> ValueList(lhs, c.list, c.op)
        [] c.op = "IN" ->
             Res(InLoop(lhs, lcol.type, SubRows(c.sub, urows), 1, SubType(c.sub)))
        [] OTHER ->
             ScalarSub(lhs, lcol.type, SubRows(c.sub, urows), SubType(c.sub), c.op)

-----------------------------------------------------------------------------
(* The statement.                                                          *)

\* Portal: do_analyze; an error ends the statement.
Analyze ==
  /\ phase = "analyze"
  /\ LET r == DoAnalyze(Cat, stmt)
     IN  IF r.err # "none"
         THEN phase' = "done" /\ err' = r.err /\ errAt' = "analyze" /\ UNCHANGED cond
         ELSE phase' = "scan" /\ cond' = r.v.conds[2] /\ UNCHANGED <<err, errAt>>
  /\ UNCHANGED <<stmt, t, u, i, out>>

\* The scan fetches record i and keeps it if cmp_conds holds; a throw
\* ends the statement.
\* Mutant: the record kept is the one after the record checked.
ScanKeepNext ==
  /\ phase = "scan" /\ i <= Len(t)
  /\ LET r == CmpCond(t[i], cond, u)
     IN  IF r.err # "none"
         THEN phase' = "done" /\ err' = r.err /\ errAt' = "execute" /\ UNCHANGED out
         ELSE out' = (IF r.ok THEN out \cup {i + 1} ELSE out) /\ UNCHANGED <<phase, err, errAt>>
  /\ i' = i + 1
  /\ UNCHANGED <<stmt, t, u, cond>>

Scan ==
  /\ phase = "scan" /\ i <= Len(t)
  /\ LET r == CmpCond(t[i], cond, u)
     IN  IF r.err # "none"
         THEN phase' = "done" /\ err' = r.err /\ errAt' = "execute" /\ UNCHANGED out
         ELSE out' = (IF r.ok THEN out \cup {i} ELSE out) /\ UNCHANGED <<phase, err, errAt>>
  /\ i' = i + 1
  /\ UNCHANGED <<stmt, t, u, cond>>

\* The scan is at its end.
ScanEnd ==
  /\ phase = "scan" /\ i > Len(t)
  /\ phase' = "done"
  /\ UNCHANGED <<stmt, t, u, cond, i, out, err, errAt>>

Init ==
  /\ stmt \in Stmts /\ t \in TRows /\ u \in URows
  /\ phase = "analyze" /\ cond = Condition("COL", TabCol("", ""), "=")
  /\ i = 1 /\ out = {} /\ err = "none" /\ errAt = "analyze"

Next == Analyze \/ Scan \/ ScanEnd

Spec == Init /\ [][Next]_vars

-----------------------------------------------------------------------------
(* Properties.                                                             *)

TypeOK ==
  /\ phase \in {"analyze", "scan", "done"}
  /\ i \in 1..Len(t) + 1
  /\ out \subseteq DOMAIN t
  /\ errAt \in {"analyze", "execute"}

\* What the condition means (spec 4.6.3, 5): the values compared as
\* numbers, an Int against a Float column promoted to that Float.
RhsValues(c, urows) ==
  IF c.isRhsVal THEN {c.rhsVal.v}
  ELSE IF c.list # <<>> THEN {c.list[k].v : k \in DOMAIN c.list}
  ELSE {SubRows(c.sub, urows)[k].n : k \in DOMAIN SubRows(c.sub, urows)}

Satisfies(row, c, urows) ==
  LET v == row[c.lhs.col]
  IN  IF c.op = "IN" THEN v \in RhsValues(c, urows)
      ELSE \A w \in RhsValues(c, urows) :
             CASE c.op = "=" -> v = w [] c.op = "<>" -> v # w [] c.op = "<" -> v < w
               [] c.op = ">" -> v > w [] c.op = "<=" -> v <= w [] c.op = ">=" -> v >= w

Matching == {k \in DOMAIN t : Satisfies(t[k], cond, u)}

IsInSubquery(c) == c.isSubQuery /\ c.list = <<>> /\ c.op = "IN"

\* check_clause gives the right-hand side of an accepted condition the
\* type of its column, Int promoted to Float, and cmp_cond then re-derives
\* rhs_type from the literal, the list or the subquery operator: for no
\* accepted condition does cmp_cond throw IncompatibleType.
AnalyzedNeverIncompatible == errAt = "execute" => err # "IncompatibleType"

\* A statement that completes keeps exactly the records that satisfy a
\* literal, value-list or single-row scalar-subquery condition, with an
\* Int right-hand side promoted against a Float column (check_clause for
\* literals and lists, cmp_cond for the subquery's row).
PromotedCompareMatches ==
  (phase = "done" /\ err = "none" /\ ~IsInSubquery(cond)
     /\ (cond.isSubQuery /\ cond.list = <<>> => Len(SubRows(cond.sub, u)) = 1))
    => out = Matching

\* Spec 4.6.3 on subquery right-hand sides.  A scalar subquery is pulled
\* to its end and more than one row fails the statement; an IN subquery
\* is scanned and matched, with an Int row promoted against a Float column
\* (as spec 5 promotes IN-lists).  So a statement whose scalar subquery has
\* several rows never completes, and one with an IN subquery that
\* completes keeps exactly the records whose column equals some row.
IsScalarSubquery(c) == c.isSubQuery /\ c.list = <<>> /\ c.op # "IN"

SubqueryMatchesSpec ==
  /\ (phase = "done" /\ IsScalarSubquery(cond) /\ Len(SubRows(cond.sub, u)) > 1)
       => err # "none"
  /\ (phase = "done" /\ err = "none" /\ IsInSubquery(cond)) => out = Matching
=============================================================================
