-------------------------- MODULE MC_WriteAheadLog --------------------------
(***************************************************************************)
(* The two transactions of MC_LogManager with the table's data pages.  In  *)
(* MCAppends only transaction 1 deletes (a row of page 1), as when the    *)
(* DeleteExecutor's table X lock keeps other writers off the table.  In   *)
(* MCAppendsSamePage both transactions delete a row of page 1, as two     *)
(* DELETEs planned as index scans do: DeleteExecutor then takes no table  *)
(* lock and their gap locks need not conflict.                            *)
(***************************************************************************)
EXTENDS WriteAheadLog, MC_LogManager

MCPages == {1}

MCAppendsSamePage ==
  [c \in MCClients |->
     <<TxnRecord("BEGIN", c),
       TupleRecord("DELETE", c, <<7, 200>>, [page |-> 1, slot |-> c - 1], Name),
       TxnRecord("COMMIT", c)>>]
=============================================================================
