---------------------------- MODULE WriteAheadLog ----------------------------
(***************************************************************************)
(* The log manager composed with the data pages DELETE changes and the     *)
(* buffer pool that writes them back (spec 4.4, WAL: no dirty page may be  *)
(* flushed before its generating log record).                              *)
(*                                                                         *)
(* DeleteExecutor::Next (src/src/execution/executor_delete.h) logs each    *)
(* deleted row with add_log_to_buffer, which runs under the log latch, and *)
(* only afterwards, with no latch, stamps the row's page with the          *)
(* transaction's prev_lsn and removes the record from it.  The two steps   *)
(* are separate actions here so that sessions interleave between them.    *)
(* The buffer pool is not in the repository; FlushPage writes a dirty page *)
(* back only when its page LSN is at most persist_lsn_, the rule spec 4.4  *)
(* asks of it.  Pages are abstracted to the set of LSNs whose change they  *)
(* hold, in memory and on disk.                                            *)
(***************************************************************************)
EXTENDS LogManager

CONSTANT Pages      \* page numbers of the table's data file

VARIABLES
  pageLsn,    \* pageLsn[p]: Page::get_page_lsn of the buffered page p
  pageRecs,   \* LSNs of the changes the buffered page p holds
  diskRecs,   \* LSNs of the changes page p holds in the data file
  stamping    \* stamping[c]: c logged a DELETE and has not yet stamped its page

pageVars == <<pageLsn, pageRecs, diskRecs, stamping>>
walVars == <<vars, pageVars>>

\* The page of the DELETE record c logged last.
StampedPage(c) == Appends[c][next[c] - 1].rid.page

-----------------------------------------------------------------------------

\* add_log_to_buffer for c's next record; a DELETE leaves c owing its page
\* a stamp (executor_delete.h: the loop body goes on after the call).
LogAppend(c) ==
  /\ ~stamping[c]
  /\ AddLogToBuffer(c)
  /\ stamping' = [stamping EXCEPT ![c] = Appends[c][next[c]].type = "DELETE"]
  /\ UNCHANGED <<pageLsn, pageRecs, diskRecs>>

\* page->set_page_lsn(txn->get_prev_lsn()) on the fetched page, unpin it
\* dirty, then fh_->delete_record: the page now holds the change.
\* Mutant: the page stamped with the LSN the txn had before the append
\* (the record's prev_lsn_), as if set_page_lsn came first.
StampPageBeforeAppend(c) ==
  /\ stamping[c]
  /\ LET p == StampedPage(c)
     IN  /\ pageLsn' = [pageLsn EXCEPT ![p] = appended[txnPrev[c] + 1].prev]
         /\ pageRecs' = [pageRecs EXCEPT ![p] = @ \cup {txnPrev[c]}]
  /\ stamping' = [stamping EXCEPT ![c] = FALSE]
  /\ UNCHANGED <<vars, diskRecs>>

StampPage(c) ==
  /\ stamping[c]
  /\ LET p == StampedPage(c)
     IN  /\ pageLsn' = [pageLsn EXCEPT ![p] = txnPrev[c]]
         /\ pageRecs' = [pageRecs EXCEPT ![p] = @ \cup {txnPrev[c]}]
  /\ stamping' = [stamping EXCEPT ![c] = FALSE]
  /\ UNCHANGED <<vars, diskRecs>>

\* The buffer pool writes a dirty page back once the log is durable up to
\* its page LSN.
FlushPage(p) ==
  /\ pageRecs[p] # diskRecs[p]
  /\ pageLsn[p] <= persistLsn
  /\ diskRecs' = [diskRecs EXCEPT ![p] = pageRecs[p]]
  /\ UNCHANGED <<vars, pageLsn, pageRecs, stamping>>

\* The log manager's other steps leave the pages alone.
LogStep ==
  /\ \/ \E c \in Clients : CommitFlush(c)
     \/ BgFlush \/ BgExit \/ DtorStop \/ DtorJoin
  /\ UNCHANGED pageVars

\* Pages hold no change logged in this log before the first DELETE.
WalInit ==
  /\ Init
  /\ pageLsn = [p \in Pages |-> INVALID_LSN]
  /\ pageRecs = [p \in Pages |-> {}]
  /\ diskRecs = [p \in Pages |-> {}]
  /\ stamping = [c \in Clients |-> FALSE]

WalDone == dtor = "joined" /\ UNCHANGED walVars

WalNext ==
  \/ \E c \in Clients : LogAppend(c) \/ StampPage(c)
  \/ \E p \in Pages : FlushPage(p)
  \/ LogStep
  \/ WalDone

WalSpec == WalInit /\ [][WalNext]_walVars

-----------------------------------------------------------------------------

\* WAL (spec 4.4): every change the data file holds was made by a record
\* that is wholly in the log file, whatever order the sessions' appends,
\* page stamps, log flushes (buffer full, commit, background thread) and
\* page write-backs came in.  LSN n is the (n+1)-th record appended.
WalHolds ==
  \A p \in Pages : \A n \in diskRecs[p] : n + 1 <= DurableCount

WalTypeOK ==
  /\ TypeOK
  /\ pageLsn \in [Pages -> INVALID_LSN..(globalLsn - 1)]
  /\ pageRecs \in [Pages -> SUBSET (0..(globalLsn - 1))]
  /\ \A p \in Pages : diskRecs[p] \subseteq pageRecs[p]
  /\ stamping \in [Clients -> BOOLEAN]
=============================================================================
