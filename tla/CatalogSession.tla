--------------------------- MODULE CatalogSession ---------------------------
(***************************************************************************)
(* One database's catalog across a session: DDL changes it, every         *)
(* statement is analysed against it (Analyze::do_analyze), and a restart   *)
(* writes it out with DbMeta::operator<< and reads it back with           *)
(* operator>>.                                                             *)
(*                                                                         *)
(* SmManager (create_table, drop_table, create_index, flush_meta, open_db) *)
(* is not in the repository; it follows spec 2 and 6: DDL is auto-commit, *)
(* a create fails if the table exists, a drop if it does not, and the     *)
(* catalog is persisted as the DbMeta stream and read back on open.        *)
(***************************************************************************)
EXTENDS Analyzer

CONSTANTS
  DbName,         \* DbMeta::name_
  TableDefs,      \* TableDefs[t]: the ColMeta sequence CREATE TABLE t gives
  InitTables,     \* tables the database holds when the session starts
  Droppable,      \* tables the session may drop
  IndexDefs,      \* set of <<table, column names>> the session may index
  Stmts,          \* the statements analysed, as parser ASTs
  MaxRestarts     \* bound on restarts

VARIABLES
  cat,        \* db_.tabs_
  ddl,        \* the tables the DDL statements have created and not dropped
  last,       \* the statement the last step analysed and its outcome
  corrupt,    \* the last open_db read a stream that failed
  restarts    \* restarts so far

vars == <<cat, ddl, last, corrupt, restarts>>

NoStmt == [kind |-> "none"]

\* last after a step that analysed nothing.
NoLast == [stmt |-> NoStmt, err |-> "none", q |-> NoQuery]

-----------------------------------------------------------------------------

\* CREATE TABLE t.
CreateTable(t) ==
  /\ ~corrupt /\ ~IsTable(cat, t)
  /\ cat' = cat @@ (t :> TabMetaOf(t, TableDefs[t], NoIndexes))
  /\ ddl' = ddl \cup {t}
  /\ last' = NoLast
  /\ UNCHANGED <<corrupt, restarts>>

\* DROP TABLE t.
DropTable(t) ==
  /\ ~corrupt /\ IsTable(cat, t)
  /\ cat' = [x \in DOMAIN cat \ {t} |-> cat[x]]
  /\ ddl' = ddl \ {t}
  /\ last' = NoLast
  /\ UNCHANGED <<corrupt, restarts>>

\* CREATE INDEX t(cols): an IndexMeta over the columns' metas, under the
\* name get_index_name gives.
CreateIndex(t, cs) ==
  /\ ~corrupt /\ IsTable(cat, t)
  /\ \A i \in DOMAIN cs : IsCol(cat[t], cs[i])
  /\ ~IsIndex(cat[t], cs)
  /\ LET metas == [i \in DOMAIN cs |-> GetCol(cat[t], cs[i])]
         ix    == IndexMetaOf(t, OffsetOf(metas, Len(metas) + 1), Len(cs), metas)
     IN  cat' = [cat EXCEPT ![t].indexes = @ @@ (GetIndexName(cat[t], cs) :> ix)]
  /\ last' = NoLast
  /\ UNCHANGED <<ddl, corrupt, restarts>>

\* A statement through the analyzer: the catalog as check_column leaves it,
\* the error thrown or the Query built.
Analyze(s) ==
  /\ ~corrupt
  /\ LET r == DoAnalyze(cat, s)
     IN  /\ cat' = r.cat
         /\ last' = [stmt |-> s, err |-> r.err, q |-> r.v]
  /\ UNCHANGED <<ddl, corrupt, restarts>>

\* flush_meta then open_db: the catalog is written, the tables in the
\* unordered_map's iteration order (any), and read back.
Restart ==
  /\ ~corrupt /\ restarts < MaxRestarts
  /\ \E order \in SetToSeqs(DOMAIN cat) :
       LET ixOrders == [t \in DOMAIN cat |-> CHOOSE o \in SetToSeqs(DOMAIN cat[t].indexes) : TRUE]
           r == ReadDb(WriteDb(DbName, cat, order, ixOrders))
       IN  IF r.ok THEN cat' = r.v.tabs /\ corrupt' = FALSE
                   ELSE cat' = cat /\ corrupt' = TRUE
  /\ restarts' = restarts + 1
  /\ last' = NoLast
  /\ UNCHANGED ddl

Init ==
  /\ cat = [t \in InitTables |-> TabMetaOf(t, TableDefs[t], NoIndexes)]
  /\ ddl = InitTables
  /\ last = NoLast
  /\ corrupt = FALSE
  /\ restarts = 0

Next ==
  \/ \E t \in DOMAIN TableDefs : CreateTable(t)
  \/ \E t \in Droppable : DropTable(t)
  \/ \E ix \in IndexDefs : CreateIndex(ix[1], ix[2])
  \/ \E s \in Stmts : Analyze(s)
  \/ Restart

Spec == Init /\ [][Next]_vars

-----------------------------------------------------------------------------
(* Properties.                                                             *)

TypeOK ==
  /\ DOMAIN cat \subseteq DOMAIN TableDefs /\ ddl \subseteq DOMAIN TableDefs
  /\ \A t \in DOMAIN cat : IsFiniteSet(DOMAIN cat[t].indexes) /\ \A i \in DOMAIN cat[t].cols :
       cat[t].cols[i].type \in ColTypes /\ cat[t].cols[i].len \in Nat
  /\ last.err \in {"none", "TableNotFound", "ColumnNotFound", "AmbiguousColumn",
                   "IncompatibleType", "Internal"}
  /\ corrupt \in BOOLEAN /\ restarts \in 0..MaxRestarts

\* A restart (DbMeta written by operator<<, read back by operator>>) brings
\* back exactly the catalog it wrote: every table, column, cols_map and
\* index, whatever order the unordered_maps iterate in.
RestartPreservesCatalog == [][restarts' # restarts => ~corrupt' /\ cat' = cat]_vars

\* The tables a statement names at its top level.
Scope(s) == IF s.kind = "select" THEN Range(s.tabs) ELSE {s.tab}

CountStar(c) == c.agg = "COUNT" /\ c.lhs = TabCol("", "")

\* Every column an accepted Query refers to (COUNT(*) aside).
QueryCols(q) ==
  (Range(q.cols) \ {TabCol("", "")}) \cup Range(q.groupBys) \cup Range(q.sort)
    \cup {c.lhs : c \in {c \in Range(q.conds) \cup Range(q.havings) : ~CountStar(c)}}
    \cup {c.rhsCol : c \in {c \in Range(q.conds) : ~c.isRhsVal /\ ~c.isSubQuery}}

\* A value matches a column: the column's type and its canonical image
\* width (spec 3: Int->Float is the only promotion, the image is as wide
\* as the column).
Fits(v, col) == v.type = col.type /\ v.raw = col.len

\* An accepted SELECT, UPDATE or DELETE refers only to columns that exist
\* in a table the statement names, with the table filled in (check_column),
\* and every WHERE comparison and SET clause is between one type, its
\* value images as wide as the column (check_clause, the set loop).
AnalyzerSound ==
  LET s == last.stmt  q == last.q
      lcol(c) == GetCol(cat[c.lhs.tab], c.lhs.col)
  IN  (last.err = "none" /\ s.kind \in {"select", "update", "delete"}) =>
        /\ \A tc \in QueryCols(q) : tc.tab \in Scope(s) /\ IsCol(cat[tc.tab], tc.col)
        /\ \A c \in Range(q.conds) :
             /\ c.isRhsVal => Fits(c.rhsVal, lcol(c))
             /\ (c.isSubQuery /\ c.sub = NoQuery) => \A v \in Range(c.list) : Fits(v, lcol(c))
             /\ (~c.isRhsVal /\ ~c.isSubQuery) => GetCol(cat[c.rhsCol.tab], c.rhsCol.col).type = lcol(c).type
        /\ \A st \in Range(q.sets) : IsCol(cat[s.tab], st.lhs.col) /\ Fits(st.rhs, GetCol(cat[s.tab], st.lhs.col))
=============================================================================
