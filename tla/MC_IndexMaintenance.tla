------------------------ MODULE MC_IndexMaintenance ------------------------
(***************************************************************************)
(* Three record slots, two rows (a = 1, b = 1) and (a = 2, b = 2), three  *)
(* values, and every statement with one equality condition on either     *)
(* column through either access path.                                      *)
(***************************************************************************)
EXTENDS IndexMaintenance

MCRids == {1, 2, 3}
MCVals == {1, 2, 3}
MCInitRows == [r \in {1, 2} |-> [a |-> r, b |-> r]]

St(k, c, v, p, sc, n) == [kind |-> k, col |-> c, val |-> v, path |-> p, set |-> sc, new |-> n]

MCStmts ==
  {St(k, c, v, p, "a", 1) : k \in {"SELECT", "DELETE"}, c \in Cols, v \in MCVals, p \in {"INDEX", "SEQ"}}
    \cup {St("UPDATE", c, v, p, sc, n) : c \in Cols, v \in MCVals, p \in {"INDEX", "SEQ"}, sc \in Cols, n \in MCVals}
    \cup {St("INSERT", "a", v, "SEQ", "b", n) : v, n \in MCVals}
=============================================================================
