------------------------------ MODULE Analyzer ------------------------------
(***************************************************************************)
(* Analyze::do_analyze and its helpers (src/src/analyze/analyze.cpp): the  *)
(* AST of a SELECT, UPDATE or DELETE is resolved against the catalog and   *)
(* lowered to a Query, or an error is thrown.                              *)
(*                                                                         *)
(* Each operator returns a record with the error thrown ("none" if none),  *)
(* the catalog afterwards and its result.  The catalog is an output too:   *)
(* check_column reads sm_manager_->db_.tabs_[table], which inserts a      *)
(* default TabMeta for a table that does not exist.  Once an error is     *)
(* set the later steps are skipped, as a throw skips them.                 *)
(*                                                                         *)
(* The AST: a column is [tab, col] ("" when not written); a select item  *)
(* [agg, col]; a literal [type, v]; a WHERE conjunct [lhs, op, rhs] whose  *)
(* rhs is [kind |-> "val" | "col" | "sub" | "list", ...]; a HAVING         *)
(* conjunct [lhs (a select item), op, rhs].                                *)
(***************************************************************************)
EXTENDS Catalog, FiniteSetsExt

Aggs == {"COL", "COUNT", "MAX", "MIN", "SUM"}

\* convert_sv_value: a Value with the literal's type and value; raw is the
\* length of the image init_raw gives it later (0 until then).
ConvertSvValue(lit) == [type |-> lit.type, v |-> lit.v, raw |-> 0]

SizeofInt == 4
SizeofFloat == 4

TabCol(t, c) == [tab |-> t, col |-> c]

\* struct Query, as do_analyze fills it.
Query(tables) ==
  [tables |-> tables, cols |-> <<>>, aggs |-> <<>>, conds |-> <<>>, groupBys |-> <<>>,
   havings |-> <<>>, sort |-> <<>>, sets |-> <<>>, values |-> <<>>]

NoQuery == Query(<<>>)

OK(cat, v) == [err |-> "none", cat |-> cat, v |-> v]
Err(cat, e) == [err |-> e, cat |-> cat, v |-> NoQuery]

-----------------------------------------------------------------------------
(* check_column.                                                           *)

TouchAll(cat, ts) == FoldLeft(LAMBDA c, t : Touch(c, t), cat, ts)

\* Mutant: a qualified column is accepted if any listed table has it.
CheckColumnAnyTable(cat, tables, target) ==
  LET has(i) == tables[i] \in DOMAIN cat /\ IsCol(cat[tables[i]], target.col)
      hits   == {i \in DOMAIN tables : has(i)}
  IN  IF target.tab = ""
      THEN IF Cardinality(hits) >= 2
           THEN Err(TouchAll(cat, SubSeq(tables, 1, Min(hits \ {Min(hits)}))), "AmbiguousColumn")
           ELSE IF hits = {} THEN Err(TouchAll(cat, tables), "ColumnNotFound")
           ELSE OK(TouchAll(cat, tables), TabCol(tables[Min(hits)], target.col))
      ELSE IF hits = {} THEN Err(TouchAll(cat, tables), "ColumnNotFound")
           ELSE OK(TouchAll(cat, SubSeq(tables, 1, Min(hits))), target)

\* Without a table name: the one table of the list with the column, or
\* AmbiguousColumn at the second, or ColumnNotFound.  With one: the named
\* table must be in the list and have the column.  Every table the loop
\* visits goes through tabs_[table].
CheckColumn(cat, tables, target) ==
  LET has(i) == tables[i] \in DOMAIN cat /\ IsCol(cat[tables[i]], target.col)
      hits   == {i \in DOMAIN tables : has(i)}
  IN  IF target.tab = ""
      THEN IF Cardinality(hits) >= 2
           THEN Err(TouchAll(cat, SubSeq(tables, 1, Min(hits \ {Min(hits)}))), "AmbiguousColumn")
           ELSE IF hits = {} THEN Err(TouchAll(cat, tables), "ColumnNotFound")
           ELSE OK(TouchAll(cat, tables), TabCol(tables[Min(hits)], target.col))
      ELSE LET found == {i \in hits : tables[i] = target.tab}
           IN  IF found = {} THEN Err(TouchAll(cat, tables), "ColumnNotFound")
               ELSE OK(TouchAll(cat, SubSeq(tables, 1, Min(found))), target)

\* Append the result of one call to the results so far, or stop at its
\* error.
Accum(a, r) == IF r.err # "none" THEN Err(r.cat, r.err) ELSE OK(r.cat, Append(a.v, r.v))

\* check_column over a list of columns, stopping at the first error.
CheckColumns(cat, tables, tcs) ==
  FoldLeft(LAMBDA a, tc : IF a.err # "none" THEN a ELSE Accum(a, CheckColumn(a.cat, tables, tc)),
           OK(cat, <<>>), tcs)

-----------------------------------------------------------------------------
(* get_clause and get_having_clause.                                       *)

Condition(agg, lhs, op) ==
  [agg |-> agg, lhs |-> lhs, op |-> op, isRhsVal |-> FALSE, isSubQuery |-> FALSE,
   rhsVal |-> ConvertSvValue([type |-> TYPE_INT, v |-> 0]), rhsCol |-> TabCol("", ""),
   list |-> <<>>, sub |-> NoQuery]

RECURSIVE DoAnalyze(_, _), SubQueryCond(_, _)

\* cond.sub_query = do_analyze(expr->rhs).
SubQueryCond(c, r) == IF r.err # "none" THEN Err(r.cat, r.err) ELSE OK(r.cat, [c EXCEPT !.isSubQuery = TRUE, !.sub = r.v])

\* One WHERE conjunct.  A subquery must select exactly one item and is
\* analysed on the spot; a value list has one value unless the operator
\* is IN.
ConvertCond(cat, e) ==
  LET c == Condition("COL", TabCol(e.lhs.tab, e.lhs.col), e.op)
  IN  CASE e.rhs.kind = "val" ->
             OK(cat, [c EXCEPT !.isRhsVal = TRUE, !.rhsVal = ConvertSvValue(e.rhs.val)])
        [] e.rhs.kind = "col" ->
             OK(cat, [c EXCEPT !.rhsCol = TabCol(e.rhs.col.tab, e.rhs.col.col)])
        [] e.rhs.kind = "sub" ->
             IF Len(e.rhs.sub.sel) # 1 THEN Err(cat, "Internal") ELSE SubQueryCond(c, DoAnalyze(cat, e.rhs.sub))
        [] e.rhs.kind = "list" ->
             IF e.op # "IN" /\ Len(e.rhs.list) # 1 THEN Err(cat, "Internal")
             ELSE OK(cat, [c EXCEPT !.isSubQuery = TRUE,
                                    !.list = [i \in DOMAIN e.rhs.list |-> ConvertSvValue(e.rhs.list[i])]])

GetClause(cat, svConds) ==
  FoldLeft(LAMBDA a, e : IF a.err # "none" THEN a ELSE Accum(a, ConvertCond(a.cat, e)),
           OK(cat, <<>>), svConds)

\* HAVING: the left side must be an aggregate, the right side a value.
GetHavingClause(cat, svConds) ==
  FoldLeft(LAMBDA a, e :
             IF a.err # "none" THEN a
             ELSE IF e.lhs.agg = "COL" \/ e.rhs.kind = "col" THEN Err(a.cat, "Internal")
             ELSE OK(a.cat, Append(a.v, [Condition(e.lhs.agg, TabCol(e.lhs.col.tab, e.lhs.col.col), e.op)
                                           EXCEPT !.isRhsVal = TRUE, !.rhsVal = ConvertSvValue(e.rhs.val)])),
           OK(cat, <<>>), svConds)

-----------------------------------------------------------------------------
(* check_clause.                                                           *)

\* Value::init_raw(len).
InitRaw(val, len) == [val EXCEPT !.raw = len]

Typed(cat, cond, ltype, rtype) == IF ltype # rtype THEN Err(cat, "IncompatibleType") ELSE OK(cat, cond)

\* A condition whose columns are resolved: fix the raw length of its
\* values (an Int promoted to Float against a Float column) and require
\* the two sides to have one type.
CheckCondTypes(cat, c) ==
  LET lcol  == GetCol(cat[c.lhs.tab], c.lhs.col)
      ltype == IF c.agg = "COUNT" THEN TYPE_INT ELSE lcol.type
      RawLen(t) == IF t = TYPE_STRING THEN lcol.len ELSE SizeofInt
      promotes(t) == ltype = TYPE_FLOAT /\ t = TYPE_INT
  IN  CASE c.isRhsVal ->
             LET v == IF c.agg # "COUNT" /\ promotes(c.rhsVal.type)
                      THEN [c.rhsVal EXCEPT !.type = TYPE_FLOAT, !.raw = SizeofFloat]
                      ELSE InitRaw(c.rhsVal, RawLen(c.rhsVal.type))
             IN  Typed(cat, [c EXCEPT !.rhsVal = v], ltype, v.type)
        [] c.isSubQuery /\ c.sub = NoQuery ->
             IF \E i \in DOMAIN c.list : c.list[i].type # ltype /\ ~promotes(c.list[i].type)
             THEN Err(cat, "IncompatibleType")
             ELSE OK(cat, [c EXCEPT !.list = [i \in DOMAIN @ |-> [@[i] EXCEPT !.type = ltype, !.raw = lcol.len]]])
        [] c.isSubQuery ->
             LET rc == GetCol(cat[c.sub.cols[1].tab], c.sub.cols[1].col).type
             IN  Typed(cat, c, ltype, IF c.sub.aggs[1] = "COUNT"
                                      THEN IF ltype = TYPE_FLOAT THEN TYPE_FLOAT ELSE TYPE_INT
                                      ELSE IF promotes(rc) THEN TYPE_FLOAT ELSE rc)
        [] OTHER ->
             Typed(cat, c, ltype, GetCol(cat[c.rhsCol.tab], c.rhsCol.col).type)

\* The right-hand column resolved too, when the right side is a column.
CheckCondRhs(tables, c, r) ==
  IF r.err # "none" THEN Err(r.cat, r.err) ELSE CheckCondTypes(r.cat, [c EXCEPT !.rhsCol = r.v])

CheckCondLhs(tables, c, l) ==
  IF l.err # "none" THEN Err(l.cat, l.err)
  ELSE IF ~c.isRhsVal /\ ~c.isSubQuery
  THEN CheckCondRhs(tables, [c EXCEPT !.lhs = l.v], CheckColumn(l.cat, tables, c.rhsCol))
  ELSE CheckCondTypes(l.cat, [c EXCEPT !.lhs = l.v])

\* One condition; COUNT(*) in HAVING takes an Int only.
CheckCond(cat, tables, c) ==
  IF c.agg = "COUNT" /\ c.lhs = TabCol("", "")
  THEN IF c.rhsVal.type = TYPE_INT THEN OK(cat, [c EXCEPT !.rhsVal = InitRaw(@, SizeofInt)])
       ELSE Err(cat, "IncompatibleType")
  ELSE CheckCondLhs(tables, c, CheckColumn(cat, tables, c.lhs))

CheckClause(cat, conds, tables) ==
  FoldLeft(LAMBDA a, c : IF a.err # "none" THEN a ELSE Accum(a, CheckCond(a.cat, tables, c)),
           OK(cat, <<>>), conds)

-----------------------------------------------------------------------------
(* do_analyze.                                                             *)

\* The select list: COUNT(*) is left as it is, every other item is
\* resolved by check_column.
CheckSelectList(cat, tables, sel) ==
  FoldLeft(LAMBDA a, it :
             IF a.err # "none" THEN a
             ELSE IF it.agg = "COUNT" /\ it.col = TabCol("", "") THEN OK(a.cat, Append(a.v, it.col))
             ELSE Accum(a, CheckColumn(a.cat, tables, TabCol(it.col.tab, it.col.col))),
           OK(cat, <<>>), sel)

\* select *: every column of every table, in FROM order.
AllCols(cat, tables) ==
  FlattenSeq([i \in DOMAIN tables |->
                LET cs == cat[tables[i]].cols IN [j \in DOMAIN cs |-> TabCol(cs[j].tab, cs[j].name)]])

\* Without GROUP BY no HAVING, and the items all aggregates or all
\* columns; with it, every plain column item is grouped.
GroupingError(cols, aggs, groupBys, havings) ==
  IF groupBys = <<>>
  THEN havings # <<>> \/ ("COL" \in Range(aggs) /\ Range(aggs) \ {"COL"} # {})
  ELSE \E i \in DOMAIN aggs : aggs[i] = "COL" /\ cols[i] \notin Range(groupBys)

\* UPDATE's set clauses against the table's columns, Int promoted to Float.
CheckSetClauses(cat, tab, sets) ==
  FoldLeft(LAMBDA a, st :
             IF a.err # "none" THEN a
             ELSE IF ~IsCol(cat[tab], st.lhs.col) THEN Err(a.cat, "ColumnNotFound")
             ELSE LET col == GetCol(cat[tab], st.lhs.col)
                  IN  IF col.type = TYPE_FLOAT /\ st.rhs.type = TYPE_INT
                      THEN OK(a.cat, Append(a.v, [st EXCEPT !.rhs = [@ EXCEPT !.type = TYPE_FLOAT, !.raw = SizeofFloat]]))
                      ELSE IF col.type # st.rhs.type THEN Err(a.cat, "IncompatibleType")
                      ELSE OK(a.cat, Append(a.v, [st EXCEPT !.rhs = InitRaw(@, col.len)])),
           OK(cat, <<>>), sets)

\* The analysis in progress, st, holds the error thrown so far, the
\* catalog and the Query filled in so far.  Put stores the result of one
\* call in field f of the Query.
Put(st, r, f) ==
  IF r.err # "none" THEN [st EXCEPT !.err = r.err, !.cat = r.cat]
  ELSE [st EXCEPT !.cat = r.cat, !.q = [@ EXCEPT ![f] = r.v]]

Throw(st, e) == [st EXCEPT !.err = e]

\* The table list check_column and check_clause search.
TablesOf(x) == IF x.kind = "select" THEN x.tabs ELSE <<x.tab>>

\* One step of do_analyze, in the order the code takes them.
Step(st, step, x) ==
  CASE step = "tables" ->
         IF \E i \in DOMAIN x.tabs : ~IsTable(st.cat, x.tabs[i]) THEN Throw(st, "TableNotFound") ELSE st
    [] step = "star" ->
         IF x.sel = <<>> /\ (x.groupBys # <<>> \/ x.havings # <<>>) THEN Throw(st, "Internal") ELSE st
    [] step = "cols" ->
         Put(st, IF x.sel = <<>> THEN OK(st.cat, AllCols(st.cat, x.tabs)) ELSE CheckSelectList(st.cat, x.tabs, x.sel), "cols")
    [] step = "where" -> Put(st, GetClause(st.cat, x.conds), "conds")
    [] step = "groupBys" -> Put(st, CheckColumns(st.cat, x.tabs, x.groupBys), "groupBys")
    [] step = "grouping" ->
         IF GroupingError(st.q.cols, st.q.aggs, st.q.groupBys, x.havings) THEN Throw(st, "Internal") ELSE st
    [] step = "havings" -> Put(st, GetHavingClause(st.cat, x.havings), "havings")
    [] step = "sort" -> Put(st, CheckColumns(st.cat, x.tabs, x.sort), "sort")
    [] step = "checkConds" -> Put(st, CheckClause(st.cat, st.q.conds, TablesOf(x)), "conds")
    [] step = "checkHavings" -> Put(st, CheckClause(st.cat, st.q.havings, x.tabs), "havings")
    [] step = "table" -> IF ~IsTable(st.cat, x.tab) THEN Throw(st, "TableNotFound") ELSE st
    [] step = "sets" ->
         Put(st, CheckSetClauses(st.cat, x.tab, [i \in DOMAIN x.sets |->
                   [lhs |-> TabCol("", x.sets[i].col), rhs |-> ConvertSvValue(x.sets[i].val)]]), "sets")
    [] step = "values" ->
         Put(st, OK(st.cat, [i \in DOMAIN x.vals |-> ConvertSvValue(x.vals[i])]), "values")

\* The steps of each statement kind: the SELECT, UPDATE, DELETE and
\* INSERT branches of do_analyze.
Steps(x) ==
  CASE x.kind = "select" -> <<"tables", "star", "cols", "where", "groupBys", "grouping",
                              "havings", "sort", "checkConds", "checkHavings">>
    [] x.kind = "update" -> <<"table", "sets", "where", "checkConds">>
    [] x.kind = "delete" -> <<"where", "checkConds">>
    [] x.kind = "insert" -> <<"values">>

Finish(st) == IF st.err # "none" THEN Err(st.cat, st.err) ELSE OK(st.cat, st.q)

DoAnalyze(cat, x) ==
  Finish(FoldLeft(LAMBDA st, step : IF st.err # "none" THEN st ELSE Step(st, step, x),
                  [err |-> "none", cat |-> cat,
                   q |-> [Query(IF x.kind = "select" THEN x.tabs ELSE <<>>) EXCEPT
                            !.aggs = IF x.kind = "select" THEN [i \in DOMAIN x.sel |-> x.sel[i].agg] ELSE <<>>]],
                  Steps(x)))
=============================================================================
