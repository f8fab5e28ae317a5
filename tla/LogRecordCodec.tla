--------------------------- MODULE LogRecordCodec ---------------------------
(***************************************************************************)
(* The log records of src/src/recovery/log_manager.h: what each            *)
(* constructor sets (log_tot_len_ above all), what serialize writes and    *)
(* what deserialize reads back, at the byte level.                         *)
(*                                                                         *)
(* An image is a sequence of bytes (0..255).  A multi-byte integer is      *)
(* stored little-endian in two's complement, as memcpy of an int32 or a    *)
(* size_t on the x86-64 build does.  The header layout (OFFSET_* and       *)
(* LOG_HEADER_SIZE, log_defs.h) and RmRecord::Deserialize (rm_defs.h) are  *)
(* not in the repository; they follow spec 4.4 and 6: a 20-byte header of *)
(* five 4-byte fields, and a record image preceded by its 4-byte size.     *)
(***************************************************************************)
EXTENDS Integers, Sequences, SequencesExt

LogTypes == {"UPDATE", "INSERT", "DELETE", "BEGIN", "COMMIT", "ABORT", "STATIC_CHECKPOINT"}

\* enum LogType : int, in declaration order.
LogTypeCode == [UPDATE |-> 0, INSERT |-> 1, DELETE |-> 2, BEGIN |-> 3,
                COMMIT |-> 4, ABORT |-> 5, STATIC_CHECKPOINT |-> 6]
LogTypeOf(code) == CHOOSE t \in LogTypes : LogTypeCode[t] = code

INVALID_LSN    == -1
INVALID_TXN_ID == -1

\* Widths of the C++ types on the build: int, lsn_t, txn_id_t, uint32_t,
\* LogType are 4 bytes; Rid {page_no, slot_no} is 8; size_t is 8.
SizeofInt  == 4
SizeofRid  == 8
SizeofSize == 8

OFFSET_LOG_TYPE    == 0
OFFSET_LSN         == 4
OFFSET_LOG_TOT_LEN == 8
OFFSET_LOG_TID     == 12
OFFSET_PREV_LSN    == 16
OFFSET_LOG_DATA    == 20
LOG_HEADER_SIZE    == 20

-----------------------------------------------------------------------------
(* Byte images of integers.                                                *)

\* memcpy of a w-byte integer: little-endian, two's complement.
RECURSIVE IntImage(_, _)
IntImage(v, w) == IF w = 0 THEN <<>> ELSE <<v % 256>> \o IntImage(v \div 256, w - 1)

\* reinterpret_cast of w bytes as a signed integer.
RECURSIVE IntOf(_)
IntOf(bs) ==
  IF Len(bs) = 1 THEN (IF bs[1] >= 128 THEN bs[1] - 256 ELSE bs[1])
  ELSE bs[1] + 256 * IntOf(Tail(bs))

\* The w bytes at offset off (0-based, as in the code) of an image.
Field(src, off, w) == SubSeq(src, off + 1, off + w)

-----------------------------------------------------------------------------
(* Records.  value is insert_value_ / delete_value_ / old_value_, newValue *)
(* is update_value_, name the table name's characters.                     *)

NoRid == [page |-> -1, slot |-> -1]

\* The default constructors: header only, LOG_HEADER_SIZE long, invalid ids.
HeaderRecord(type) ==
  [type |-> type, lsn |-> INVALID_LSN, len |-> LOG_HEADER_SIZE, tid |-> INVALID_TXN_ID,
   prev |-> INVALID_LSN, value |-> <<>>, newValue |-> <<>>, rid |-> NoRid, name |-> <<>>]

\* BeginLogRecord(txn_id), CommitLogRecord(txn_id), AbortLogRecord(txn_id),
\* StaticCheckpointLogRecord(txn_id).
TxnRecord(type, tid) == [HeaderRecord(type) EXCEPT !.tid = tid]

\* InsertLogRecord / DeleteLogRecord(txn_id, value, rid, table_name):
\* log_tot_len_ grows by the size field, the image, the rid, and the name
\* with its size_t length.
\* Mutant: log_tot_len_ leaves out sizeof(Rid).
TupleRecordNoRid(type, tid, value, rid, name) ==
  [HeaderRecord(type) EXCEPT
     !.tid = tid, !.value = value, !.rid = rid, !.name = name,
     !.len = LOG_HEADER_SIZE + SizeofInt + Len(value) + SizeofSize + Len(name)]

TupleRecord(type, tid, value, rid, name) ==
  [HeaderRecord(type) EXCEPT
     !.tid = tid, !.value = value, !.rid = rid, !.name = name,
     !.len = LOG_HEADER_SIZE + SizeofInt + Len(value) + SizeofRid + SizeofSize + Len(name)]

\* UpdateLogRecord(txn_id, old_value, update_value, rid, table_name): old
\* and new images share one size field.
UpdateRecord(tid, old, new, rid, name) ==
  [HeaderRecord("UPDATE") EXCEPT
     !.tid = tid, !.value = old, !.newValue = new, !.rid = rid, !.name = name,
     !.len = LOG_HEADER_SIZE + SizeofInt + Len(old) + Len(new) + SizeofRid + SizeofSize + Len(name)]

-----------------------------------------------------------------------------
(* serialize.                                                              *)

HeaderImage(r) ==
  FlattenSeq(<<IntImage(LogTypeCode[r.type], 4), IntImage(r.lsn, 4),
               IntImage(r.len, 4), IntImage(r.tid, 4), IntImage(r.prev, 4)>>)

RidImage(rid) == IntImage(rid.page, 4) \o IntImage(rid.slot, 4)

\* The body after the header: Insert/Delete write size, image, rid, name
\* size, name; Update writes the old image's size, old, new, rid, name size,
\* name; the others write nothing.
BodyImage(r) ==
  CASE r.type \in {"INSERT", "DELETE"} ->
         FlattenSeq(<<IntImage(Len(r.value), SizeofInt), r.value, RidImage(r.rid),
                      IntImage(Len(r.name), SizeofSize), r.name>>)
    [] r.type = "UPDATE" ->
         FlattenSeq(<<IntImage(Len(r.value), SizeofInt), r.value, r.newValue,
                      RidImage(r.rid), IntImage(Len(r.name), SizeofSize), r.name>>)
    [] OTHER -> <<>>

Serialize(r) == HeaderImage(r) \o BodyImage(r)

-----------------------------------------------------------------------------
(* deserialize.                                                            *)

DeserializeHeader(src) ==
  [HeaderRecord(LogTypeOf(IntOf(Field(src, OFFSET_LOG_TYPE, 4)))) EXCEPT
     !.lsn  = IntOf(Field(src, OFFSET_LSN, 4)),
     !.len  = IntOf(Field(src, OFFSET_LOG_TOT_LEN, 4)),
     !.tid  = IntOf(Field(src, OFFSET_LOG_TID, 4)),
     !.prev = IntOf(Field(src, OFFSET_PREV_LSN, 4))]

\* RmRecord::Deserialize(data): the size, then that many bytes.
RecordAt(src, off) == Field(src, off + SizeofInt, IntOf(Field(src, off, SizeofInt)))

\* The rid and the table name that follow the image(s) at offset off.
RidAt(src, off)  == [page |-> IntOf(Field(src, off, 4)), slot |-> IntOf(Field(src, off + 4, 4))]
NameAt(src, off) == Field(src, off + SizeofRid + SizeofSize,
                          IntOf(Field(src, off + SizeofRid, SizeofSize)))

Deserialize(src) ==
  LET h == DeserializeHeader(src)
  IN  CASE h.type \in {"INSERT", "DELETE"} ->
             LET v   == RecordAt(src, OFFSET_LOG_DATA)
                 off == OFFSET_LOG_DATA + SizeofInt + Len(v)
             IN  [h EXCEPT !.value = v, !.rid = RidAt(src, off), !.name = NameAt(src, off)]
        [] h.type = "UPDATE" ->
             LET old == RecordAt(src, OFFSET_LOG_DATA)
                 new == Field(src, OFFSET_LOG_DATA + SizeofInt + Len(old), Len(old))
                 off == OFFSET_LOG_DATA + SizeofInt + Len(old) + Len(new)
             IN  [h EXCEPT !.value = old, !.newValue = new,
                           !.rid = RidAt(src, off), !.name = NameAt(src, off)]
        [] OTHER -> h
=============================================================================
