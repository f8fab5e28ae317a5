----------------------------- MODULE DurableLog -----------------------------
(***************************************************************************)
(* What the log manager promises its callers (spec 4.4, 4.5 and the       *)
(* "Ordering" paragraph of spec 5), with no buffer, no file and no thread: *)
(*                                                                         *)
(*  - a record is appended with the next LSN (0, 1, 2, ...) and its       *)
(*    prev_lsn is the LSN of its transaction's previous record;           *)
(*  - a prefix of the log is durable, and it only grows;                   *)
(*  - a transaction that has logged its COMMIT logs nothing more, and its  *)
(*    commit returns only once the COMMIT record is durable.               *)
(*                                                                         *)
(* A step of the implementation may persist records while it appends or  *)
(* commits (a full buffer, a forced flush), so those actions let durable   *)
(* grow too.  Records are [type, lsn, tid, prev, ...]; fields other than  *)
(* these are not constrained.                                              *)
(***************************************************************************)
EXTENDS Naturals, Sequences

CONSTANTS
  Clients,   \* transactions, identified by their txn id
  NoLsn      \* the prev_lsn of a transaction's first record

VARIABLES
  log,       \* every record appended, in LSN order
  durable,   \* the records log[1..durable] are durable
  waiting    \* transactions whose COMMIT is logged and whose commit has not returned

vars == <<log, durable, waiting>>

\* The LSN of c's last record, or NoLsn before its first.
LastLsn(c) ==
  LET own == {i \in DOMAIN log : log[i].tid = c}
  IN  IF own = {} THEN NoLsn ELSE log[CHOOSE i \in own : \A j \in own : j <= i].lsn

\* c appends one record: log' is log and one more record, numbered and
\* chained; records already logged may become durable meanwhile.
AppendRecord(c) ==
  /\ c \notin waiting
  /\ Len(log') = Len(log) + 1
  /\ SubSeq(log', 1, Len(log)) = log
  /\ LET r == log'[Len(log')]
     IN  /\ r.tid = c /\ r.lsn = Len(log) /\ r.prev = LastLsn(c)
         /\ waiting' = IF r.type = "COMMIT" THEN waiting \cup {c} ELSE waiting
  /\ durable' \in durable..Len(log)

\* More of the log becomes durable.
Persist ==
  /\ durable' \in (durable + 1)..Len(log)
  /\ UNCHANGED <<log, waiting>>

\* c's commit returns, its COMMIT record durable by then.
CommitReturns(c) ==
  /\ c \in waiting
  /\ durable' \in durable..Len(log)
  /\ LastLsn(c) < durable'
  /\ waiting' = waiting \ {c}
  /\ UNCHANGED log

Init == log = <<>> /\ durable = 0 /\ waiting = {}

Next == Persist \/ \E c \in Clients : AppendRecord(c) \/ CommitReturns(c)

Spec == Init /\ [][Next]_vars
=============================================================================
