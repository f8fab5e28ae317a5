------------------------------ MODULE Catalog ------------------------------
(***************************************************************************)
(* The catalog metadata of src/src/system/sm_meta.h: ColMeta, IndexMeta,   *)
(* TabMeta and DbMeta, their lookups, and the whitespace-delimited stream *)
(* they are written to and read back from (operator<< and operator>>).     *)
(*                                                                         *)
(* A catalog is DbMeta::tabs_: a function from table names to TabMeta.     *)
(* The stream is a sequence of tokens: a string token for each non-empty   *)
(* string written (an empty string writes nothing between its separators) *)
(* and an integer token for each number.  Reading a number from a string   *)
(* token, or reading past the end, sets failbit, and every read after it   *)
(* fails and leaves its target as it was: the tables from there on are     *)
(* lost or empty.  The model reports such a read as Fail.                  *)
(***************************************************************************)
EXTENDS Integers, Sequences, SequencesExt, FiniteSets, TLC

\* enum ColType (defs.h), written as its integer value.
TYPE_INT == 0
TYPE_FLOAT == 1
TYPE_STRING == 2
ColTypes == {TYPE_INT, TYPE_FLOAT, TYPE_STRING}

-----------------------------------------------------------------------------
(* The metadata records.                                                   *)

\* ColMeta {tab_name, name, type, len, offset}.
ColMeta(tab, name, type, len, offset) ==
  [tab |-> tab, name |-> name, type |-> type, len |-> len, offset |-> offset]

\* Offset of the i-th column in a record or key: the lengths before it.
OffsetOf(cols, i) == FoldLeft(LAMBDA acc, c : acc + c.len, 0, SubSeq(cols, 1, i - 1))

\* IndexMeta(tab_name, col_tot_len, col_num, cols): each column paired
\* with its offset in the key.
IndexMetaOf(tab, totLen, num, cols) ==
  [tab |-> tab, totLen |-> totLen, num |-> num,
   cols |-> [i \in DOMAIN cols |-> <<OffsetOf(cols, i), cols[i]>>]]

\* cols_map: column name -> position in cols; emplace keeps the first.
ColsMapOf(cols) ==
  [n \in {c.name : c \in Range(cols)} |->
     CHOOSE i \in 0..Len(cols) - 1 :
       cols[i + 1].name = n /\ \A j \in 0..i - 1 : cols[j + 1].name # n]

NoIndexes == [x \in {} |-> 0]

\* A TabMeta as operator[] default-constructs it: no name, no columns.
EmptyTab == [name |-> "", cols |-> <<>>, indexes |-> NoIndexes, colsMap |-> ColsMapOf(<<>>)]

TabMetaOf(name, cols, indexes) ==
  [name |-> name, cols |-> cols, indexes |-> indexes, colsMap |-> ColsMapOf(cols)]

-----------------------------------------------------------------------------
(* Lookups.                                                                *)

\* TabMeta::is_col.
IsCol(tab, col) == col \in DOMAIN tab.colsMap

\* TabMeta::get_col, for a column is_col accepts.
GetCol(tab, col) == tab.cols[tab.colsMap[col] + 1]

\* TabMeta::get_index_name: "<table>_<col>_..._<col>.idx".
GetIndexName(tab, cols) == FoldLeft(LAMBDA acc, c : acc \o "_" \o c, tab.name, cols) \o ".idx"

\* TabMeta::is_index.
IsIndex(tab, cols) == GetIndexName(tab, cols) \in DOMAIN tab.indexes

\* DbMeta::is_table.
IsTable(cat, t) == t \in DOMAIN cat

\* tabs_[t]: the table, inserting a default TabMeta when there is none.
Touch(cat, t) == IF t \in DOMAIN cat THEN cat ELSE cat @@ (t :> EmptyTab)

-----------------------------------------------------------------------------
(* operator<<.                                                             *)

Str(s) == IF s = "" THEN <<>> ELSE <<[k |-> "s", v |-> s]>>
Num(n) == <<[k |-> "i", v |-> n]>>

\* ColMeta: tab name type len offset.
WriteCol(c) == FlattenSeq(<<Str(c.tab), Str(c.name), Num(c.type), Num(c.len), Num(c.offset)>>)

\* IndexMeta: tab tot_len num_cols, then each column.
WriteIndex(ix) ==
  Str(ix.tab) \o Num(ix.totLen) \o Num(ix.num)
    \o FlattenSeq([i \in DOMAIN ix.cols |-> WriteCol(ix.cols[i][2])])

\* TabMeta: name, column count, columns, index count, then name and
\* IndexMeta of each index in the unordered_map's iteration order.
WriteTab(tab, ixOrder) ==
  Str(tab.name) \o Num(Len(tab.cols)) \o FlattenSeq([i \in DOMAIN tab.cols |-> WriteCol(tab.cols[i])])
    \o Num(Cardinality(DOMAIN tab.indexes))
    \o FlattenSeq([i \in DOMAIN ixOrder |-> Str(ixOrder[i]) \o WriteIndex(tab.indexes[ixOrder[i]])])

\* DbMeta: name, table count, each table in iteration order.
WriteDb(dbName, cat, order, ixOrders) ==
  Str(dbName) \o Num(Cardinality(DOMAIN cat))
    \o FlattenSeq([i \in DOMAIN order |-> WriteTab(cat[order[i]], ixOrders[order[i]])])

-----------------------------------------------------------------------------
(* operator>>.  Each reader takes the remaining tokens and returns the     *)
(* value read and the tokens left, or Fail.                                *)

Fail == [ok |-> FALSE]
Got(v, rest) == [ok |-> TRUE, v |-> v, rest |-> rest]

\* >> into a std::string: any token, a number as its decimal text.
ReadStr(ts) ==
  IF ts = <<>> THEN Fail
  ELSE Got(IF Head(ts).k = "s" THEN Head(ts).v ELSE ToString(Head(ts).v), Tail(ts))

\* >> into an integer: only a number token.
ReadNum(ts) == IF ts = <<>> \/ Head(ts).k # "i" THEN Fail ELSE Got(Head(ts).v, Tail(ts))

\* A chain is >> ... >> ...: the fields of the kinds given ("s" a string,
\* "i" a number) in order, or Fail at the first that fails.
RECURSIVE ReadFields(_, _), ReadMore(_, _)
ReadMore(first, kinds) ==
  IF ~first.ok THEN Fail
  ELSE LET more == ReadFields(first.rest, Tail(kinds))
       IN  IF ~more.ok THEN Fail ELSE Got(<<first.v>> \o more.v, more.rest)
ReadFields(ts, kinds) ==
  IF kinds = <<>> THEN Got(<<>>, ts)
  ELSE ReadMore(IF Head(kinds) = "s" THEN ReadStr(ts) ELSE ReadNum(ts), kinds)

\* ColMeta >>: tab_name name type len offset.
\* Mutant: len read before type, against the order operator<< writes.
ReadColSwapped(ts) ==
  LET f == ReadFields(ts, <<"s", "s", "i", "i", "i">>)
  IN  IF ~f.ok THEN Fail ELSE Got(ColMeta(f.v[1], f.v[2], f.v[4], f.v[3], f.v[5]), f.rest)

ReadCol(ts) ==
  LET f == ReadFields(ts, <<"s", "s", "i", "i", "i">>)
  IN  IF ~f.ok THEN Fail ELSE Got(ColMeta(f.v[1], f.v[2], f.v[3], f.v[4], f.v[5]), f.rest)

\* k columns appended to acc.
RECURSIVE ReadCols(_, _, _), ReadColsNext(_, _, _)
ReadColsNext(c, k, acc) == IF ~c.ok THEN Fail ELSE ReadCols(c.rest, k - 1, Append(acc, c.v))
ReadCols(ts, k, acc) == IF k = 0 THEN Got(acc, ts) ELSE ReadColsNext(ReadCol(ts), k, acc)

\* IndexMeta >>: tab_name col_tot_len col_num, the columns; the offsets
\* are recomputed from the lengths read.
IndexWithCols(h, cs) ==
  IF ~cs.ok THEN Fail ELSE Got(IndexMetaOf(h.v[1], h.v[2], h.v[3], cs.v), cs.rest)
IndexFrom(h) == IF ~h.ok THEN Fail ELSE IndexWithCols(h, ReadCols(h.rest, h.v[3], <<>>))
ReadIndex(ts) == IndexFrom(ReadFields(ts, <<"s", "i", "i">>))

\* k (index name, IndexMeta) pairs added to acc.
RECURSIVE ReadIndexes(_, _, _), AddIndex(_, _, _, _), NamedIndex(_, _, _)
AddIndex(name, ix, k, acc) == IF ~ix.ok THEN Fail ELSE ReadIndexes(ix.rest, k - 1, (name :> ix.v) @@ acc)
NamedIndex(nm, k, acc) == IF ~nm.ok THEN Fail ELSE AddIndex(nm.v, ReadIndex(nm.rest), k, acc)
ReadIndexes(ts, k, acc) == IF k = 0 THEN Got(acc, ts) ELSE NamedIndex(ReadStr(ts), k, acc)

\* TabMeta >>: name, the columns, cols_map rebuilt from them, the indexes.
\* Mutant: cols_map left empty.
TabDoneNoColsMap(name, cols, ixs) ==
  IF ~ixs.ok THEN Fail
  ELSE Got([TabMetaOf(name, cols, ixs.v) EXCEPT !.colsMap = ColsMapOf(<<>>)], ixs.rest)

TabDone(name, cols, ixs) == IF ~ixs.ok THEN Fail ELSE Got(TabMetaOf(name, cols, ixs.v), ixs.rest)
TabIndexes(name, cols, k) == IF ~k.ok THEN Fail ELSE TabDone(name, cols, ReadIndexes(k.rest, k.v, NoIndexes))
TabCols(name, cs) == IF ~cs.ok THEN Fail ELSE TabIndexes(name, cs.v, ReadNum(cs.rest))
TabFrom(h) == IF ~h.ok THEN Fail ELSE TabCols(h.v[1], ReadCols(h.rest, h.v[2], <<>>))
ReadTab(ts) == TabFrom(ReadFields(ts, <<"s", "i">>))

\* k tables, each stored as tabs_[tab.name] = tab.
RECURSIVE ReadTabs(_, _, _), AddTab(_, _, _)
AddTab(tb, k, acc) == IF ~tb.ok THEN Fail ELSE ReadTabs(tb.rest, k - 1, (tb.v.name :> tb.v) @@ acc)
ReadTabs(ts, k, acc) == IF k = 0 THEN Got(acc, ts) ELSE AddTab(ReadTab(ts), k, acc)

\* DbMeta >>: the catalog read back, or Fail.
DbWithTabs(name, tbs) == IF ~tbs.ok THEN Fail ELSE Got([name |-> name, tabs |-> tbs.v], tbs.rest)
DbFrom(h) == IF ~h.ok THEN Fail ELSE DbWithTabs(h.v[1], ReadTabs(h.rest, h.v[2], [x \in {} |-> EmptyTab]))
ReadDb(ts) == DbFrom(ReadFields(ts, <<"s", "i">>))
=============================================================================
