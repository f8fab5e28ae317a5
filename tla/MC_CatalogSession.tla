------------------------- MODULE MC_CatalogSession -------------------------
(***************************************************************************)
(* Tables t(a INT, b FLOAT) and u(a STRING(8), c INT); t exists from the  *)
(* start, u may be created, indexed and dropped.  The statements cover     *)
(* each way do_analyze resolves a column, promotes a value or throws.      *)
(***************************************************************************)
EXTENDS CatalogSession

MCTableDefs ==
  [x \in {"t", "u"} |->
     IF x = "t" THEN <<ColMeta("t", "a", TYPE_INT, 4, 0), ColMeta("t", "b", TYPE_FLOAT, 4, 4)>>
     ELSE <<ColMeta("u", "a", TYPE_STRING, 8, 0), ColMeta("u", "c", TYPE_INT, 4, 8)>>]

MCIndexDefs == {<<"t", <<"a">>>>, <<"u", <<"c">>>>}

\* AST builders (ast.h): Col, BoundExpr, literals, BinaryExpr, HavingExpr.
C(t, c) == [tab |-> t, col |-> c]
Item(agg, col) == [agg |-> agg, col |-> col]
IntL(v) == [type |-> TYPE_INT, v |-> v]
FloatL(v) == [type |-> TYPE_FLOAT, v |-> v]
StrL(v) == [type |-> TYPE_STRING, v |-> v]
Rhs(kind, val, col, list, sub) == [kind |-> kind, val |-> val, col |-> col, list |-> list, sub |-> sub]
NoSub == [kind |-> "none"]
ValR(l) == Rhs("val", l, C("", ""), <<>>, NoSub)
ColR(c) == Rhs("col", IntL(0), c, <<>>, NoSub)
ListR(ls) == Rhs("list", IntL(0), C("", ""), ls, NoSub)
SubR(q) == Rhs("sub", IntL(0), C("", ""), <<>>, q)
Cmp(lhs, op, rhs) == [lhs |-> lhs, op |-> op, rhs |-> rhs]
Select(tabs, sel, conds, gbs, havs, sort) ==
  [kind |-> "select", tabs |-> tabs, sel |-> sel, conds |-> conds, groupBys |-> gbs,
   havings |-> havs, sort |-> sort, tab |-> "", sets |-> <<>>, vals |-> <<>>]
Stmt(kind, tab, sets, conds, vals) ==
  [Select(<<>>, <<>>, conds, <<>>, <<>>, <<>>) EXCEPT !.kind = kind, !.tab = tab, !.sets = sets, !.vals = vals]
SetC(c, l) == [col |-> c, val |-> l]

MaxCSub == Select(<<"u">>, <<Item("MAX", C("", "c"))>>, <<>>, <<>>, <<>>, <<>>)

\* SELECT a FROM t, u
Q1 ==
  Select(<<"t", "u">>, <<Item("COL", C("", "a"))>>, <<>>, <<>>, <<>>, <<>>)

\* SELECT t.c FROM t, u
Q2 ==
  Select(<<"t", "u">>, <<Item("COL", C("t", "c"))>>, <<>>, <<>>, <<>>, <<>>)

\* SELECT t.a, COUNT(*) FROM t GROUP BY a HAVING COUNT(*) > 1 ORDER BY a
Q3 ==
  Select(<<"t">>, <<Item("COL", C("t", "a")), Item("COUNT", C("", ""))>>, <<>>, <<C("", "a")>>,
       <<Cmp(Item("COUNT", C("", "")), ">", ValR(IntL(1)))>>, <<C("", "a")>>)

\* SELECT a, MAX(b) FROM t
Q4 ==
  Select(<<"t">>, <<Item("COL", C("", "a")), Item("MAX", C("", "b"))>>, <<>>, <<>>, <<>>, <<>>)

\* SELECT * FROM t, u WHERE b > 1 AND c IN (1, 2) AND t.a = u.c
Q5 ==
  Select(<<"t", "u">>, <<>>, <<Cmp(C("", "b"), ">", ValR(IntL(1))),
                            Cmp(C("", "c"), "IN", ListR(<<IntL(1), IntL(2)>>)),
                            Cmp(C("t", "a"), "=", ColR(C("u", "c")))>>, <<>>, <<>>, <<>>)

\* SELECT b FROM t WHERE a = (SELECT MAX(c) FROM u)
Q6 ==
  Select(<<"t">>, <<Item("COL", C("", "b"))>>, <<Cmp(C("", "a"), "=", SubR(MaxCSub))>>, <<>>, <<>>, <<>>)

\* SELECT * FROM u WHERE a = 1
Q7 ==
  Select(<<"u">>, <<>>, <<Cmp(C("", "a"), "=", ValR(IntL(1)))>>, <<>>, <<>>, <<>>)

\* UPDATE t SET b = 2 WHERE a IN (3)
Q8 ==
  Stmt("update", "t", <<SetC("b", IntL(2))>>, <<Cmp(C("", "a"), "IN", ListR(<<IntL(3)>>))>>, <<>>)

\* UPDATE u SET a = 3
Q9 ==
  Stmt("update", "u", <<SetC("a", IntL(3))>>, <<>>, <<>>)

\* DELETE FROM t WHERE t.b = 1
Q10 ==
  Stmt("delete", "t", <<>>, <<Cmp(C("t", "b"), "=", ValR(IntL(1)))>>, <<>>)

\* INSERT INTO t VALUES (1, 2.5)
Q11 ==
  Stmt("insert", "t", <<>>, <<>>, <<IntL(1), FloatL(25)>>)

MCStmts == {Q1, Q2, Q3, Q4, Q5, Q6, Q7, Q8, Q9, Q10, Q11}

\* DELETE FROM u WHERE c = 1
DeleteFromU == Stmt("delete", "u", <<>>, <<Cmp(C("", "c"), "=", ValR(IntL(1)))>>, <<>>)

MCStmtsWithDeleteU == MCStmts \cup {DeleteFromU}
=============================================================================
