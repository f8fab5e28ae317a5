---------------------------- MODULE MC_CondEval ----------------------------
(***************************************************************************)
(* Tables t(id INT, a INT, f FLOAT, s CHAR(4)), indexed on id, and         *)
(* u(i INT, g FLOAT); t holds the values 0, 1 and 2 in every column, u any *)
(* two rows or fewer.  A statement is WHERE id >= 0 AND cond: the index    *)
(* condition comes first and is absorbed into the key range, which holds   *)
(* every record.  cond: a column of t against an Int, Float or string      *)
(* literal, a one- or two-value list, or a subquery on u's Int or Float    *)
(* column or its COUNT, under =, < and >= and IN.  Values are              *)
(* non-negative, so the bits of an Int read as a Float are 0.0 or a        *)
(* denormal, never a NaN.                                                  *)
(***************************************************************************)
EXTENDS CondEval

MCCat ==
  [x \in {"t", "u"} |->
     IF x = "t"
     THEN TabMetaOf("t", <<ColMeta("t", "id", TYPE_INT, 4, 0), ColMeta("t", "a", TYPE_INT, 4, 4),
                           ColMeta("t", "f", TYPE_FLOAT, 4, 8), ColMeta("t", "s", TYPE_STRING, 4, 12)>>,
                    NoIndexes)
     ELSE TabMetaOf("u", <<ColMeta("u", "i", TYPE_INT, 4, 0), ColMeta("u", "g", TYPE_FLOAT, 4, 4)>>, NoIndexes)]

\* AST builders (ast.h), as MC_CatalogSession writes them.
C(tb, c) == [tab |-> tb, col |-> c]
Item(agg, col) == [agg |-> agg, col |-> col]
IntL(v) == [type |-> TYPE_INT, v |-> v]
FloatL(v) == [type |-> TYPE_FLOAT, v |-> v]
StrL(v) == [type |-> TYPE_STRING, v |-> v]
NoSub == [kind |-> "none"]
Rhs(kind, val, list, sub) == [kind |-> kind, val |-> val, col |-> C("", ""), list |-> list, sub |-> sub]
Sel(tabs, sel, conds) ==
  [kind |-> "select", tabs |-> tabs, sel |-> sel, conds |-> conds, groupBys |-> <<>>,
   havings |-> <<>>, sort |-> <<>>, tab |-> "", sets |-> <<>>, vals |-> <<>>]

\* SELECT i FROM u, SELECT g FROM u, SELECT COUNT(*) FROM u.
Subs == {Sel(<<"u">>, <<Item("COL", C("", "i"))>>, <<>>), Sel(<<"u">>, <<Item("COL", C("", "g"))>>, <<>>),
         Sel(<<"u">>, <<Item("COUNT", C("", ""))>>, <<>>)}

Lits == {IntL(1), FloatL(1), StrL(1)}

ScalarRhs ==
  {Rhs("val", l, <<>>, NoSub) : l \in Lits}
  \cup {Rhs("list", IntL(0), <<l>>, NoSub) : l \in Lits}
  \cup {Rhs("sub", IntL(0), <<>>, q) : q \in Subs}

InRhs ==
  {Rhs("list", IntL(0), <<IntL(0), IntL(2)>>, NoSub), Rhs("list", IntL(0), <<FloatL(0), FloatL(2)>>, NoSub)}
  \cup {Rhs("sub", IntL(0), <<>>, q) : q \in Subs}

Where(lhs, op, rhs) ==
  Sel(<<"t">>, <<>>, <<[lhs |-> C("", "id"), op |-> ">=", rhs |-> Rhs("val", IntL(0), <<>>, NoSub)],
                       [lhs |-> C("", lhs), op |-> op, rhs |-> rhs]>>)

MCStmts ==
  {Where(c, op, r) : c \in {"a", "f", "s"}, op \in {"=", "<", ">="}, r \in ScalarRhs}
  \cup {Where(c, "IN", r) : c \in {"a", "f", "s"}, r \in InRhs}

\* The IN statements alone.
MCInStmts == {Where(c, "IN", r) : c \in {"a", "f", "s"}, r \in InRhs}

Row(v) == [id |-> v, a |-> v, f |-> v, s |-> v]
MCTRows == {<<Row(0), Row(1), Row(2)>>}

URow(v) == [i |-> v, g |-> v]
MCURows == {<<>>} \cup {<<URow(v)>> : v \in 0..2} \cup {<<URow(v), URow(w)>> : v, w \in 0..2}
=============================================================================
