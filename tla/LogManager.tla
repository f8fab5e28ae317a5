----------------------------- MODULE LogManager -----------------------------
(***************************************************************************)
(* LogManager and LogBuffer (src/src/recovery/log_manager.h): sessions     *)
(* appending serialized records to the one log buffer, the background      *)
(* thread flushing it every second, commit forcing a flush, and the        *)
(* destructor stopping and joining the thread.                             *)
(*                                                                         *)
(* add_log_to_buffer and flush_log_to_disk are not in the repository and   *)
(* follow spec 4.4: under latch_, assign the next LSN, flush first if the  *)
(* record does not fit (LogBuffer::is_full), and copy the image at         *)
(* offset_; a flush appends the buffer to the log file, records the last   *)
(* LSN written as persist_lsn_ and resets offset_.  Each of these runs     *)
(* under latch_, which background_flush also holds while it flushes, so   *)
(* each is one step.  A session is a transaction: it chains prev_lsn_ and  *)
(* its commit returns only after a flush (spec 4.4, 4.5).                  *)
(***************************************************************************)
EXTENDS LogRecordCodec, FiniteSets

CONSTANTS
  Clients,          \* sessions, identified by their txn id
  Appends,          \* Appends[c]: the records session c logs, in order
  LOG_BUFFER_SIZE   \* capacity of LogBuffer::buffer_

VARIABLES
  buffer,       \* log_buffer_.buffer_[0 .. offset_ - 1]
  disk,         \* the log file
  globalLsn,    \* global_lsn_
  persistLsn,   \* persist_lsn_
  running,      \* run_background_thread_
  bg,           \* the background thread: "running" or "exited"
  dtor,         \* ~LogManager: "idle", "stopped" (flag cleared), "joined"
  next,         \* next[c]: index of c's next record
  txnPrev,      \* the txn's prev_lsn
  flushDue,     \* c appended its COMMIT and waits for the forced flush
  appended      \* history: every record handed to the buffer, in LSN order

vars == <<buffer, disk, globalLsn, persistLsn, running, bg, dtor, next, txnPrev,
          flushDue, appended>>

-----------------------------------------------------------------------------

\* LogBuffer::is_full(append_size), with offset_ = Len(buffer).
\* Mutant: the capacity taken as sizeof(buffer_), one byte too many.
IsFullSizeof(appendSize) == Len(buffer) + appendSize > LOG_BUFFER_SIZE + 1

IsFull(appendSize) == Len(buffer) + appendSize > LOG_BUFFER_SIZE

\* flush_log_to_disk: write the buffer out, remember the last LSN written,
\* empty the buffer.
FlushToDisk ==
  /\ disk' = disk \o buffer
  /\ buffer' = <<>>
  /\ persistLsn' = IF buffer = <<>> THEN persistLsn ELSE globalLsn - 1

\* add_log_to_buffer(rec) as DeleteExecutor::Next and the txn manager call
\* it: prev_lsn_ from the txn, LSN from global_lsn_++, flush if the image
\* does not fit, copy it in; the txn's prev_lsn becomes the returned LSN.
\* Mutant: the txn's prev_lsn is not advanced to the record's LSN.
AddLogToBufferNoPrev(c) ==
  /\ dtor = "idle" /\ next[c] <= Len(Appends[c]) /\ ~flushDue[c]
  /\ LET r   == [Appends[c][next[c]] EXCEPT !.lsn = globalLsn, !.prev = txnPrev[c]]
         img == Serialize(r)
     IN  /\ IF IsFull(Len(img))
            THEN /\ disk' = disk \o buffer
                 /\ persistLsn' = IF buffer = <<>> THEN persistLsn ELSE globalLsn - 1
                 /\ buffer' = img
            ELSE /\ buffer' = buffer \o img
                 /\ UNCHANGED <<disk, persistLsn>>
         /\ appended' = Append(appended, r)
         /\ flushDue' = [flushDue EXCEPT ![c] = r.type = "COMMIT"]
  /\ globalLsn' = globalLsn + 1
  /\ next' = [next EXCEPT ![c] = @ + 1]
  /\ UNCHANGED <<running, bg, dtor, txnPrev>>

AddLogToBuffer(c) ==
  /\ dtor = "idle" /\ next[c] <= Len(Appends[c]) /\ ~flushDue[c]
  /\ LET r   == [Appends[c][next[c]] EXCEPT !.lsn = globalLsn, !.prev = txnPrev[c]]
         img == Serialize(r)
     IN  /\ IF IsFull(Len(img))
            THEN /\ disk' = disk \o buffer
                 /\ persistLsn' = IF buffer = <<>> THEN persistLsn ELSE globalLsn - 1
                 /\ buffer' = img
            ELSE /\ buffer' = buffer \o img
                 /\ UNCHANGED <<disk, persistLsn>>
         /\ appended' = Append(appended, r)
         /\ flushDue' = [flushDue EXCEPT ![c] = r.type = "COMMIT"]
  /\ globalLsn' = globalLsn + 1
  /\ txnPrev' = [txnPrev EXCEPT ![c] = globalLsn]
  /\ next' = [next EXCEPT ![c] = @ + 1]
  /\ UNCHANGED <<running, bg, dtor>>

\* Commit returns after forcing the log to disk.
CommitFlush(c) ==
  /\ flushDue[c]
  /\ FlushToDisk
  /\ flushDue' = [flushDue EXCEPT ![c] = FALSE]
  /\ UNCHANGED <<globalLsn, running, bg, dtor, next, txnPrev, appended>>

\* background_flush: wait_for times out with run_background_thread_ set,
\* and the thread flushes while holding latch_.
BgFlush ==
  /\ bg = "running" /\ running
  /\ FlushToDisk
  /\ UNCHANGED <<globalLsn, running, bg, dtor, next, txnPrev, flushDue, appended>>

\* wait_for returns true (the predicate !run_background_thread_ holds after
\* a notify or a timeout): the loop breaks and the thread returns.
BgExit ==
  /\ bg = "running" /\ ~running
  /\ bg' = "exited"
  /\ UNCHANGED <<buffer, disk, globalLsn, persistLsn, running, dtor, next, txnPrev,
                 flushDue, appended>>

\* ~LogManager, once the sessions are gone: clear the flag under latch_ and
\* notify_one ...
DtorStop ==
  /\ dtor = "idle"
  /\ \A c \in Clients : next[c] > Len(Appends[c]) /\ ~flushDue[c]
  /\ running' = FALSE /\ dtor' = "stopped"
  /\ UNCHANGED <<buffer, disk, globalLsn, persistLsn, bg, next, txnPrev, flushDue, appended>>

\* ... then join the thread.
DtorJoin ==
  /\ dtor = "stopped" /\ bg = "exited"
  /\ dtor' = "joined"
  /\ UNCHANGED <<buffer, disk, globalLsn, persistLsn, running, bg, next, txnPrev,
                 flushDue, appended>>

Done == dtor = "joined" /\ UNCHANGED vars

Init ==
  /\ buffer = <<>> /\ disk = <<>>
  /\ globalLsn = 0 /\ persistLsn = 0   \* lsn_t persist_lsn_{}
  /\ running = TRUE /\ bg = "running" /\ dtor = "idle"
  /\ next = [c \in Clients |-> 1]
  /\ txnPrev = [c \in Clients |-> INVALID_LSN]
  /\ flushDue = [c \in Clients |-> FALSE]
  /\ appended = <<>>

Next ==
  \/ \E c \in Clients : AddLogToBuffer(c) \/ CommitFlush(c)
  \/ BgFlush \/ BgExit \/ DtorStop \/ DtorJoin \/ Done

Spec == Init /\ [][Next]_vars

-----------------------------------------------------------------------------
(* Properties.                                                             *)

Byte == 0..255

\* buffer_ is char[LOG_BUFFER_SIZE + 1] and offset_ never passes the
\* capacity that is_full enforces.
TypeOK ==
  /\ buffer \in Seq(Byte) /\ Len(buffer) <= LOG_BUFFER_SIZE
  /\ disk \in Seq(Byte)
  /\ globalLsn \in Nat /\ persistLsn \in INVALID_LSN..globalLsn
  /\ running \in BOOLEAN /\ bg \in {"running", "exited"}
  /\ dtor \in {"idle", "stopped", "joined"}
  /\ next \in [Clients -> Nat \ {0}] /\ flushDue \in [Clients -> BOOLEAN]
  /\ txnPrev \in [Clients -> INVALID_LSN..(globalLsn - 1)]

\* Byte offset in the log stream of the record with LSN n: the sum of the
\* log_tot_len_ of the records before it.
StreamOffset(n) == FoldLeft(LAMBDA acc, r : acc + r.len, 0, SubSeq(appended, 1, n))

\* Reading the log file followed by the buffer record by record, each at
\* the offset the previous log_tot_len_ gives, yields exactly the records
\* handed to add_log_to_buffer, in LSN order, with nothing left over
\* (constructors' log_tot_len_, serialize, deserialize and the buffer's
\* flush-before-overflow, together).
LogDecodes ==
  LET stream == disk \o buffer
  IN  /\ Len(stream) = StreamOffset(Len(appended))
      /\ \A i \in DOMAIN appended :
           Deserialize(SubSeq(stream, StreamOffset(i - 1) + 1, Len(stream))) = appended[i]

\* persist_lsn_ names exactly what is on disk (spec 4.4: "the largest LSN
\* known durable"): the log file holds the records with LSN up to
\* persist_lsn_ and no part of a later one.
PersistedPrefix ==
  /\ persistLsn < globalLsn
  /\ Len(disk) = StreamOffset(persistLsn + 1)

\* The records wholly in the log file: those whose image ends within it.
DurableCount == Cardinality({n \in 1..Len(appended) : StreamOffset(n) <= Len(disk)})

Abs == INSTANCE DurableLog WITH
         log <- appended, durable <- DurableCount,
         waiting <- {c \in Clients : flushDue[c]}, NoLsn <- INVALID_LSN

\* The buffer, the file, the flush thread and commit's forced flush
\* together implement the log's promise: LSNs handed out in order, each
\* record chained to its transaction's previous one (add_log_to_buffer and
\* the txn's prev_lsn_), whole records made durable in LSN order and never
\* lost, and a commit returning only once its COMMIT record is on disk.
RefinesDurableLog == Abs!Spec
=============================================================================
