----------------------------- MODULE IndexScan -----------------------------
(***************************************************************************)
(* IndexScanExecutor (src/src/execution/executor_index_scan.h) as a state  *)
(* machine driven by its consumer through the pull contract: beginTuple,   *)
(* Next + nextTuple while !is_end, and beginTuple again to restart (a      *)
(* subquery re-executed per outer tuple, the inner side of a nested-loop   *)
(* join).                                                                  *)
(*                                                                         *)
(* The constructor fixes the mode: a leading column = column condition     *)
(* alone makes the operator stream the whole index into a spill file and   *)
(* serve it in batches of MAX_RECORD_SIZE records (mergesort_); with more  *)
(* conditions it scans the whole index and filters (scan_index_);          *)
(* otherwise the first beginTuple derives [lower_, upper_) from the        *)
(* predicates (IndexKeyRange) and later ones reuse it.  asc_ = FALSE makes *)
(* the first beginTuple return the last entry of the range (MAX ... LIMIT  *)
(* 1).                                                                     *)
(*                                                                         *)
(* The table is a unique index (executor_delete.h: "如果有索引，则必然是唯 *)
(* 一索引"), so a row is identified by its key and the index is the sorted *)
(* sequence of keys; lower_, upper_ and the scan cursor are positions in   *)
(* it.  Locks taken by the constructor belong to the TxnLocking model.     *)
(***************************************************************************)
EXTENDS IndexKeyRange

CONSTANTS
  NULL,            \* rm_record_ == nullptr
  BatchSize,       \* MAX_RECORD_SIZE: records buffered per spill-file read
  MaxPulls,        \* records the consumer pulls per pass (its LIMIT)
  MaxPasses,       \* beginTuple calls the consumer makes
  RestartMidScan,  \* the modes in which the consumer may restart before is_end()
  Tables,          \* candidate index contents, as sorted key sequences
  Queries,         \* candidate sets of literal conditions on index columns
  JoinFirstChoices,\* whether conds_[0] is a column = column condition
  AscChoices       \* candidate values of asc_

ASSUME BatchSize \in Nat \ {0} /\ MaxPulls \in Nat \ {0} /\ MaxPasses \in Nat \ {0}
ASSUME RestartMidScan \subseteq {"range", "scanindex", "merge"}

VARIABLES
  keys, conds, joinFirst, asc,   \* fixed by the plan: index, conds_, mode
  alreadyBegin,                  \* already_begin_
  isEnd,                         \* is_end_
  lower, upper, clean,           \* lower_, upper_, index_clean_
  cursor,                        \* position of scan_ (0: no scan yet)
  current,                       \* rm_record_
  records,                       \* records_: the deque of buffered records
  spill, filePos,                \* the spill file and the read offset of outfile_
  out,                           \* history: records pulled in this pass
  passes                         \* history: beginTuple calls so far

plan == <<keys, conds, joinFirst, asc>>
exec == <<alreadyBegin, isEnd, lower, upper, clean, cursor, current, records, spill, filePos>>
vars == <<plan, exec, out, passes>>

\* mergesort_ and scan_index_ as the constructor sets them; conds holds the
\* literal conditions, so conds_.size() is Cardinality(conds) + 1 when a
\* join condition leads.
Mergesort == joinFirst /\ conds = {}
ScanIndex == joinFirst /\ conds # {}

\* The branch of beginTuple/nextTuple the operator runs in.
Mode == IF Mergesort THEN "merge" ELSE IF ScanIndex THEN "scanindex" ELSE "range"

-----------------------------------------------------------------------------
(* The scan loop shared by beginTuple and nextTuple: from position `from`, *)
(* fetch entries until one passes the index re-check and the residual      *)
(* conditions; stop at the end of the scan.                                *)

FirstQualifying(from, lo, up, cl) ==
  LET I == {i \in ScanPositions(keys, lo, up) : i >= from /\ Qualifies(keys, conds, cl, i)}
  IN  IF I = {} THEN 0 ELSE Min(I)

ScanIsEnd(c) == c = upper \/ c > Len(keys)

\* Leaves is_end_ as it is when a record is found and sets it otherwise;
\* rm_record_ keeps its value when nothing qualifies.
\* Mutant: a miss leaves the cursor one past upper_.
SeekOffByOne(from, lo, up, cl, end, cur) ==
  LET p == FirstQualifying(from, lo, up, cl)
  IN  IF p # 0
      THEN cursor' = p /\ current' = keys[p] /\ isEnd' = end
      ELSE /\ cursor' = (IF lo <= up THEN up + 1 ELSE Len(keys) + 1)
           /\ current' = cur /\ isEnd' = TRUE

Seek(from, lo, up, cl, end, cur) ==
  LET p == FirstQualifying(from, lo, up, cl)
  IN  IF p # 0
      THEN cursor' = p /\ current' = keys[p] /\ isEnd' = end
      ELSE /\ cursor' = (IF lo <= up THEN up ELSE Len(keys) + 1)
           /\ current' = cur /\ isEnd' = TRUE

\* The do-while loop that refills records_ from the spill file: it reads at
\* least once, and goes on while records_ holds fewer than MAX_RECORD_SIZE.
ReadCount(file, recs, pos) ==
  IF pos > Len(file) THEN 0
  ELSE LET want == IF Len(recs) + 1 >= BatchSize THEN 1 ELSE BatchSize - Len(recs)
       IN  IF want <= Len(file) - pos + 1 THEN want ELSE Len(file) - pos + 1

\* Refill from offset pos, then take the front record or end the operator.
RefillAndPop(file, pos, end) ==
  LET n    == ReadCount(file, records, pos)
      recs == records \o SubSeq(file, pos, pos + n - 1)
  IN  /\ filePos' = pos + n
      /\ IF recs # <<>>
         THEN current' = Head(recs) /\ records' = Tail(recs) /\ isEnd' = end
         ELSE current' = NULL /\ records' = recs /\ isEnd' = TRUE

-----------------------------------------------------------------------------
(* beginTuple, one action per branch.                                      *)

\* already_begin_ && (!mergesort_ || scan_index_): rescan the stored range.
\* Mutant: the rescan does not reset is_end_.
BeginRescanKeepEnd ==
  /\ alreadyBegin /\ ~Mergesort
  /\ Seek(lower, lower, upper, clean, isEnd, current)
  /\ UNCHANGED <<alreadyBegin, lower, upper, clean, records, spill, filePos>>

BeginRescan ==
  /\ alreadyBegin /\ ~Mergesort
  /\ Seek(lower, lower, upper, clean, FALSE, current)
  /\ UNCHANGED <<alreadyBegin, lower, upper, clean, records, spill, filePos>>

\* First call with scan_index_: the whole index, filtered.
BeginScanIndex ==
  /\ ~alreadyBegin /\ ScanIndex
  /\ alreadyBegin' = TRUE
  /\ Seek(lower, lower, upper, clean, isEnd, current)
  /\ UNCHANGED <<lower, upper, clean, records, spill, filePos>>

\* First call with mergesort_: write_sorted_results copies every entry of
\* the scan into the spill file, which is then opened and read.
BeginMergeFirst ==
  /\ ~alreadyBegin /\ Mergesort
  /\ spill' = SubSeq(keys, lower, upper - 1)
  /\ alreadyBegin' = TRUE
  /\ cursor' = upper
  /\ RefillAndPop(SubSeq(keys, lower, upper - 1), 1, FALSE)
  /\ UNCHANGED <<lower, upper, clean>>

\* Later calls with mergesort_: reopen the spill file and refill records_,
\* which still holds what the previous pass left unread.
\* Mutant: reopening the spill file does not reset is_end_.
BeginMergeReopenKeepEnd ==
  /\ alreadyBegin /\ Mergesort
  /\ RefillAndPop(spill, 1, isEnd)
  /\ UNCHANGED <<alreadyBegin, lower, upper, clean, cursor, spill>>

BeginMergeReopen ==
  /\ alreadyBegin /\ Mergesort
  /\ RefillAndPop(spill, 1, FALSE)
  /\ UNCHANGED <<alreadyBegin, lower, upper, clean, cursor, spill>>

\* First call otherwise: derive the range; with asc_ = FALSE return the
\* entry before upper_ (prev_rid) unchecked, else run the scan loop.
BeginRange ==
  /\ ~alreadyBegin /\ ~joinFirst
  /\ LET r == ScanRange(keys, conds) IN
     /\ lower' = r.lower /\ upper' = r.upper /\ clean' = r.clean
     /\ alreadyBegin' = TRUE
     /\ IF r.lower # r.upper /\ ~asc
        THEN cursor' = r.lower /\ current' = keys[r.upper - 1] /\ UNCHANGED isEnd
        ELSE Seek(r.lower, r.lower, r.upper, r.clean, isEnd, current)
  /\ UNCHANGED <<records, spill, filePos>>

BeginTuple ==
  \/ BeginRescan \/ BeginScanIndex \/ BeginMergeFirst \/ BeginMergeReopen \/ BeginRange

-----------------------------------------------------------------------------
(* nextTuple, one action per branch; `cur` is rm_record_ after Next()      *)
(* moved it out.                                                           *)

NextDesc(cur) ==
  /\ ~asc
  /\ current' = cur
  /\ UNCHANGED <<alreadyBegin, isEnd, lower, upper, clean, cursor, records, spill, filePos>>

NextBuffered ==
  /\ asc /\ records # <<>>
  /\ current' = Head(records) /\ records' = Tail(records)
  /\ UNCHANGED <<alreadyBegin, isEnd, lower, upper, clean, cursor, spill, filePos>>

NextMergeRead ==
  /\ asc /\ records = <<>> /\ Mergesort
  /\ RefillAndPop(spill, filePos, isEnd)
  /\ UNCHANGED <<alreadyBegin, lower, upper, clean, cursor, spill>>

NextAtEnd(cur) ==
  /\ asc /\ records = <<>> /\ ~Mergesort /\ ScanIsEnd(cursor)
  /\ isEnd' = TRUE /\ current' = cur
  /\ UNCHANGED <<alreadyBegin, lower, upper, clean, cursor, records, spill, filePos>>

NextAdvance(cur) ==
  /\ asc /\ records = <<>> /\ ~Mergesort /\ ~ScanIsEnd(cursor)
  /\ Seek(cursor + 1, lower, upper, clean, isEnd, cur)
  /\ UNCHANGED <<alreadyBegin, lower, upper, clean, records, spill, filePos>>

NextTuple(cur) ==
  \/ NextDesc(cur) \/ NextBuffered \/ NextMergeRead \/ NextAtEnd(cur) \/ NextAdvance(cur)

-----------------------------------------------------------------------------
(* The consumer.                                                           *)

Finished == passes = MaxPasses /\ (isEnd \/ Len(out) = MaxPulls)

Begin ==
  /\ passes < MaxPasses
  /\ passes = 0 \/ Mode \in RestartMidScan \/ isEnd \/ Len(out) = MaxPulls
  /\ passes' = passes + 1 /\ out' = <<>>
  /\ BeginTuple
  /\ UNCHANGED plan

\* Next() moves rm_record_ out (leaving nullptr), then nextTuple().
Pull ==
  /\ passes > 0 /\ ~isEnd /\ Len(out) < MaxPulls
  /\ out' = Append(out, current)
  /\ NextTuple(NULL)
  /\ UNCHANGED <<plan, passes>>

Done == Finished /\ UNCHANGED vars

Init ==
  /\ keys \in Tables /\ conds \in Queries
  /\ joinFirst \in JoinFirstChoices /\ asc \in AscChoices
  /\ alreadyBegin = FALSE /\ isEnd = FALSE
  \* lower_/upper_ are never derived when a join condition leads; the scan
  \* then covers the whole leaf sequence.
  /\ lower = 1 /\ upper = Len(keys) + 1 /\ clean = FALSE
  /\ cursor = 0 /\ current = NULL
  /\ records = <<>> /\ spill = <<>> /\ filePos = 1
  /\ out = <<>> /\ passes = 0

Next == Begin \/ Pull \/ Done

Spec == Init /\ [][Next]_vars

-----------------------------------------------------------------------------
(* Properties.                                                             *)

\* What a sequential scan with the same conditions returns, in key order;
\* the spill file of the merge mode holds every entry.
Expected ==
  IF Mergesort THEN keys ELSE SelectSeq(keys, LAMBDA k : Matches(k, conds))

Key == [Cols -> Int]

TypeOK ==
  /\ keys \in Seq(Key) /\ IsSorted(keys, KeyLess)
  /\ alreadyBegin \in BOOLEAN /\ isEnd \in BOOLEAN /\ clean \in BOOLEAN
  /\ lower \in 1..(Len(keys) + 1) /\ upper \in 1..(Len(keys) + 1)
  /\ cursor \in 0..(Len(keys) + 1)
  /\ current \in Key \cup {NULL}
  /\ records \in Seq(Key) /\ spill \in Seq(Key) /\ filePos \in 1..(Len(spill) + 1)
  /\ out \in Seq(Key \cup {NULL}) /\ passes \in 0..MaxPasses

\* Spec 8.1: the entries the derived range [lower_, upper_) and the
\* re-checks select are exactly the rows a sequential scan with the same
\* WHERE conjuncts selects (beginTuple's range derivation, first call).
RangeSelectsMatches ==
  ~joinFirst =>
    LET r == ScanRange(keys, conds)
    IN  {keys[i] : i \in {j \in ScanPositions(keys, r.lower, r.upper) :
                            Qualifies(keys, conds, r.clean, j)}}
        = {k \in Range(keys) : Matches(k, conds)}

\* Every pass of an ascending scan, however many restarts came before it,
\* yields a prefix of the qualifying rows in key order, and all of them by
\* the time is_end() holds (beginTuple/nextTuple under restarts).
ScanYieldsMatches ==
  asc => /\ IsPrefix(out, Expected)
         /\ (passes > 0 /\ isEnd) => out = Expected

\* A descending scan (MAX ... LIMIT 1) yields, on every pass, the largest
\* qualifying row first (beginTuple's asc_ = FALSE branch and its rescan).
DescYieldsMax ==
  (~asc /\ out # <<>>) => (Expected # <<>> /\ out[1] = Last(Expected))

\* Spec 4.6: operators may be restarted (subquery re-execution, the inner
\* side of a nested-loop join) and must tolerate repeated begin_tuple.
\* Whatever mode beginTuple chose and however often the scan is begun
\* again, before or after its end, it yields what the first pass would:
\* the qualifying rows in key order, or the largest first when descending.
RestartTolerated == ScanYieldsMatches /\ DescYieldsMax
=============================================================================
