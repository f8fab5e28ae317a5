--------------------------- MODULE MC_LogManager ---------------------------
(***************************************************************************)
(* Model-checking instance of LogManager: two transactions, one deleting a *)
(* row and committing, one updating a row and aborting, on a table "t"    *)
(* with 2-byte records.  A BEGIN is 20 bytes, the DELETE 43, the UPDATE   *)
(* 45: with a 64-byte buffer a BEGIN and the DELETE fill it to 63, and a  *)
(* BEGIN and the UPDATE (65) do not fit.                                   *)
(***************************************************************************)
EXTENDS LogManager

MCClients == {1, 2}

Name == <<116>>
MCAppends ==
  [c \in MCClients |->
     IF c = 1
     THEN <<TxnRecord("BEGIN", 1),
            TupleRecord("DELETE", 1, <<7, 200>>, [page |-> 1, slot |-> 0], Name),
            TxnRecord("COMMIT", 1)>>
     ELSE <<TxnRecord("BEGIN", 2),
            UpdateRecord(2, <<1, 2>>, <<255, 0>>, [page |-> 1, slot |-> 1], Name),
            TxnRecord("ABORT", 2)>>]
=============================================================================
