# TLA+ models of the Rucbase query engine (CSCC-DB-Rucbase-2024)

This directory holds TLA+ models of the parts of the engine whose source is
in `src/`, and the TLC configurations that check them. The repository ships
only part of the engine: the B+-tree, the predicate manager, the lock
manager, the transaction manager, `SmManager` and most executors are not in
it. Where a modelled component calls one of them, the call is modelled from
`spec.md`; such definitions are marked `spec_modelled` in `PROJECT.json`.

## 1. Inventory

| Part | Source | State | Operations | Interacts with |
|---|---|---|---|---|
| IndexScanExecutor | `execution/executor_index_scan.h` | `already_begin_`, `is_end_`, `lower_`/`upper_`, the `IxScan` cursor, `rm_record_`, `records_` (deque), the spill file and its read offset, the modes `mergesort_`/`scan_index_`/`asc_` | constructor (absorbs conditions, takes a gap lock), `beginTuple` (5 branches), `nextTuple` (5 branches), `Next` | predicate manager, B+-tree, lock manager, its consumer (projection, join, subquery condition) |
| DeleteExecutor | `execution/executor_delete.h` | the rid list, the table's indexes, the txn write set, the log chain | `Next`: lock, then per rid log, page LSN, index delete, record delete, write record | lock manager, log manager, index handles, record file |
| Portal | `portal.h` | none of its own | for DELETE runs the scan in gap mode, collects rids, then builds the DML executor | executors, lock manager |
| LogManager / LogBuffer / log records | `recovery/log_manager.h` | buffer and `offset_`, `global_lsn_`, `persist_lsn_`, `run_background_thread_`, the flush thread | record constructors, `serialize`/`deserialize`, `is_full`, background flush, destructor | every executor that logs; transaction manager (commit flush) |
| Analyzer | `analyze/analyze.cpp`, `analyze.h` | the `Query` under construction; the catalog it touches | `do_analyze` per statement kind, `check_column`, `get_clause`, `get_having_clause`, `check_clause` with Int to Float promotion | catalog |
| Catalog metadata | `system/sm_meta.h` | `ColMeta`, `IndexMeta`, `TabMeta`, `DbMeta` | lookups, index names, stream `operator<<` / `operator>>` | analyzer, executors, `SmManager` |
| Buffer pool (write-back only) | not in `src/`; spec 1 and 4.4 | per page: its LSN, the changes it holds in memory and on disk | write a dirty page back once the log is durable up to its page LSN | DeleteExecutor (stamps pages), log manager (`persist_lsn_`) |
| AST and printer, RmScan, QlManager | `parser/`, `record/rm_scan.h`, `execution/execution_manager.h` | — | data types, printing, declarations only | — |

### What is hard

- **The index scan.** Its consumer may call `beginTuple` again before or
  after the end (a subquery condition re-opens its operator for each outer
  tuple, a nested-loop join its inner side), and every branch must restore
  the operator's state. The range derivation turns conditions into two
  B+-tree probes and must fill unconstrained columns with exact type
  extremes. The mergesort mode serves a spill file through a bounded buffer.
- **DML under concurrency.** A DELETE locks through whatever its scan
  locked; two sessions reaching one row through different indexes, and
  sessions waiting on each other, are interleavings no unit test writes.
- **The log.** Sessions append while the background thread flushes and the
  destructor stops it; `persist_lsn_`, the buffer bound and the record
  byte layout must agree at every interleaving. A DELETE stamps its page
  with its record's LSN only after `add_log_to_buffer` has released the
  log latch, and the buffer pool trusts that stamp when it writes the page.
- **The catalog.** `operator[]` on `tabs_` silently inserts; the stream
  written at shutdown must read back to the same catalog in any
  `unordered_map` iteration order.

## 2. Modules

| Module | Models | State and actions |
|---|---|---|
| `IndexKeyRange` | range derivation of `beginTuple`, `set_remaining_all_min/max`, `cmp_cond`, the constructor's condition split | pure operators; predicate manager and B+-tree probes from spec 4.2 |
| `IndexScan` | `beginTuple`, `nextTuple`, `Next`, and a consumer that restarts the operator | one action per branch; `alreadyBegin`, `isEnd`, `current` (`rm_record_`), `records`, `spill`, `filePos` |
| `MC_IndexScan` | index contents and query sets | |
| `DmlLocking` | `Portal::start` for SELECT/DELETE, the scans' lock requests, `DeleteExecutor::Next`; lock and transaction manager from spec 4.3/4.5 | per session: `script`/`pc`, `phase`, `need`, `waiting`, `held`, `rids`, `readSet`, `writeSet`, `prevLsn`; shared: `present` (the heap), `log`, `pageLsn`. Actions `StartStmt`, `Acquire`, `Block` (aborting through `Rollback`), `Scan`, `DeleteRid`, `DeleteDone`, `Commit` |
| `AtomicStatements` | what the DML path promises concurrent sessions (spec 4.5, 8.5): each SELECT or DELETE takes effect in one step, commit keeps the deletions, abort gives every deleted row back | `table`, `wset`, `reads`, `status`; actions `Select`, `Delete`, `Commit`, `Abort`. `DmlLocking` instantiates it with `table <-` the heap less the rids collected by DELETE scans not yet deleted, `wset <-` collected and deleted rows of a transaction that has not aborted, `reads <- readSet` |
| `MC_DmlLocking` | two sessions, two rows, scripts | |
| `LogRecordCodec` | every log record's constructor (`log_tot_len_`), `serialize`, `deserialize`, byte for byte, little-endian | pure operators |
| `LogManager` | `add_log_to_buffer`, `flush_log_to_disk`, `is_full`, `background_flush`, commit's forced flush, `~LogManager` | `buffer`, `disk`, `globalLsn`, `persistLsn`, `running`, `bg`, `dtor`; actions `AddLogToBuffer`, `CommitFlush`, `BgFlush`, `BgExit`, `DtorStop`, `DtorJoin` |
| `DurableLog` | the log manager's promise (spec 4.4, 4.5, 5): numbered records chained per transaction, a durable prefix that only grows, commit returning after durability | `log`, `durable`, `waiting`; actions `AppendRecord`, `Persist`, `CommitReturns`. `LogManager` instantiates it with `log <- appended`, `durable <-` the records wholly in the file, `waiting <-` the sessions with `flushDue` |
| `MC_LogManager` | two transactions' record lists, 64-byte buffer | |
| `WriteAheadLog` | `LogManager` composed with `DeleteExecutor::Next`'s page stamp (`executor_delete.h:61-70`) and a buffer-pool write-back from spec 4.4 | adds `pageLsn`, `pageRecs` (LSNs whose change the buffered page holds), `diskRecs` (the same on disk), `stamping`; actions `LogAppend` (`AddLogToBuffer`, leaving a DELETE's session owing a stamp), `StampPage` (`set_page_lsn`, unpin, `delete_record`), `FlushPage` (guard: page LSN <= `persistLsn`), `LogStep` (the log manager's other actions) |
| `MC_WriteAheadLog` | `MC_LogManager`'s transactions on page 1; `MCAppendsSamePage`, both transactions deleting a row of page 1 | |
| `IndexMaintenance` | `Portal::start`'s UPDATE/DELETE/INSERT paths, `is_set_index_key`, `DeleteExecutor::Next`'s index deletes, an index scan's reads; UpdateExecutor/InsertExecutor from spec 4.6.9 | `heap`, `idx` (entries `<<key, rid>>` per index), `last`; actions `Select`, `Update`, `Delete`, `Insert`, one statement per step |
| `CondEval` | one WHERE condition from AST to rows kept: `Analyzer`'s `do_analyze`/`check_clause`, then `cmp_cond` (`executor_index_scan.h:640-766`) on each record of `t`, with the subquery operator on `u` re-opened per record | `stmt`, `t`, `u`, `phase`, `cond`, `i`, `out`, `err`, `errAt`; actions `Analyze`, `Scan` (`cmp_conds` on record `i`), `ScanEnd`; `InLoop` is the IN-subquery loop as a recursive operator carrying `rhs_type` |
| `MC_CondEval` | `t(a INT, f FLOAT, s CHAR(4))` with values 0..2, every `u(i INT, g FLOAT)` of at most two rows, every condition on `t`'s columns against a literal, a list, or a subquery on `u` | |
| `MC_IndexMaintenance` | three slots, rows (1,1) and (2,2), every one-condition statement on either column and path | |
| `Catalog` | `sm_meta.h`: records, `is_col`, `get_col`, `get_index_name`, `is_index`, `is_table`, `operator<<` and `operator>>` over a token stream | pure operators; a failed `>>` (failbit) is `Fail` |
| `Analyzer` | `analyze.cpp`: `do_analyze`, `check_column`, `get_clause`, `get_having_clause`, `check_clause`, `convert_sv_value` | pure operators; `DoAnalyze(cat, stmt)` returns the error thrown or the `Query`, and the catalog as `tabs_[...]` left it |
| `CatalogSession` | a session: DDL (from spec 2/6), statements through `DoAnalyze`, restart through `WriteDb`/`ReadDb` | `cat` (`db_.tabs_`), `ddl`, `last`, `corrupt`, `restarts`; actions `CreateTable`, `DropTable`, `CreateIndex`, `Analyze`, `Restart` |
| `MC_CatalogSession` | tables `t(a INT, b FLOAT)` and `u(a CHAR(8), c INT)`, eleven statement ASTs `Q1`..`Q11` covering every resolution, promotion and error path | |

### Representation choices

- **Index scan.** The index is unique, so a row is its key, and the index
  is the sorted sequence `keys`. A column value is an integer in the
  column's typed order; FLOAT's minimum `FltMin` lies strictly between 0
  and the positive values, as `FLT_MIN` does. B+-tree iterators are
  positions `1..Len(keys)+1`. The consumer (`Begin`, `Pull`) follows the
  pull contract of spec 4.6 up to `MaxPulls` records and may begin again,
  up to `MaxPasses` times, mid-scan when `RestartMidScan` names the mode.
- **DML.** A row is a rid with fixed values of columns `a` and `b`, each
  with a unique index. A statement is `[kind, col, val, path]`; the path is
  the planner's choice (index or sequential), enumerated. Each lock request
  is one step; a blocked request searches the wait-for graph built from
  `held` and `waiting` and aborts the requester on a cycle.
- **Log.** Records are byte sequences, so `LogDecodes` reads the real
  stream. Every operation that runs under `latch_` is one step.
- **Catalog.** Names are strings, types their enum values, the stream a
  token sequence (an empty string writes no token, as `<<` does). Restart
  writes the tables in every iteration order.
- **Analyzer.** Statements are ASTs as the parser builds them; values keep
  their type and raw width, so promotion and `init_raw` are checked.
- **Condition evaluation.** A column image is `[enc, n]`: the type it was
  written as and its value; `compare` reads both images as its `type`
  argument. The bits of a non-negative Int read as a Float are 0.0 or a
  denormal below every Float >= 1.0, so a number is the pair `<<whole,
  denormal>>` ordered lexicographically. Values are 0..2, never negative,
  so no Int's bits spell a NaN. A scalar subquery that yields nothing makes
  `Next()` return a null record, which `cmp_cond` dereferences: the model
  ends the statement with the error `Crash`.

## 3. Runs

| Run | Expect | Checks | Bounds |
|---|---|---|---|
| `range` | pass | TypeOK, RangeSelectsMatches, ScanYieldsMatches | (INT, CHAR) index, every table of at most 2 rows, every query with at most one condition or a two-sided range per column, with and without a column = column condition first (mergesort mode with batches of 1 record, scan_index mode), 2 passes, restarts mid-scan in the range and scan_index modes and at the end in the mergesort mode (its mid-scan restart is the `restart` run) |
| `fltmin` | violation | RangeSelectsMatches | (INT, FLOAT) index with FLOAT values below 0 |
| `restart` | violation | RestartTolerated | mergesort mode restarted mid-scan; `MC_IndexScan_descrestart.cfg` (no run) checks the same property on a MAX ... LIMIT 1 scan begun twice |
| `dml_sessions` | pass | TypeOK, DeleteIsolation, AllFinish, RefinesAtomicStatements | 2 sessions, 2 rows, every script of one or two SELECT/DELETE statements on column `a`, by index or heap, under `LiveSpec` |
| `dml_twoindex` | violation | DeleteIsolation | one session through index `a`, one DELETE through index `b`, same row |
| `log_twotxn` | pass | WalTypeOK, LogDecodes, WalHolds, RefinesDurableLog | `MC_WriteAheadLog`: a committing DELETE txn on page 1 and an aborting UPDATE txn, 64-byte buffer so that one BEGIN+UPDATE overflows it |
| `wal_samepage` | violation | WalHolds | both transactions delete a row of page 1 |
| `catalog_session` | pass | TypeOK, AnalyzerSound, RestartPreservesCatalog | `Q1`..`Q11`, `u` created, indexed, dropped; 2 restarts |
| `catalog_phantom` | violation | RestartPreservesCatalog | adds `DELETE FROM u` while `u` does not exist |
| `update_stale` | violation | SelectSeesHeap | one session, every SELECT/UPDATE/DELETE/INSERT with one condition, either path |
| `cond_pass` | pass | TypeOK, AnalyzedNeverIncompatible, PromotedCompareMatches | `MC_CondEval`: 96 conditions, 13 contents of `u`, `t` with rows 0, 1, 2 |
| `cond_subquery` | violation | SubqueryMatchesSpec | as `cond_pass`; `MC_CondEval_insub.cfg` (no run) keeps only the IN statements |

What the passing runs show:
- `range`: every ascending pass, in every mode, after any number of restarts,
  yields a prefix of the qualifying rows in key order, and all of them at
  the end; the derived `[lower_, upper_)` plus the re-checks selects exactly
  what a sequential scan selects (spec 8.1).
- `dml_sessions`: with scans on one index, no row collected or deleted by
  one active transaction is read or deleted by another (spec 8.5); the
  sessions implement `AtomicStatements` (`RefinesAtomicStatements`):
  every statement takes effect at once when its scan runs, the
  DeleteExecutor's lock requests and per-rid steps being stutters, and an
  abort by the cycle check gives
  back exactly the rows the transaction deleted, which needs
  `DeleteExecutor::Next` to record each deleted rid in the write set. With
  the two-index scripts of `dml_twoindex` the refinement fails too: a
  scan sees a row another session has collected. (`get_record` failing
  mid-statement, which needs a row another session deleted, is not reached
  under these scripts.) Every session finishes (cycle detection breaks every deadlock).
- `log_twotxn`: the log file followed by the buffer decodes record by
  record to exactly the records appended, and the whole implements
  `DurableLog` (`RefinesDurableLog`): LSNs 0, 1, 2, ... in order, each
  record's `prev_lsn` the LSN of its transaction's previous record, whole
  records made durable in LSN order and never lost. With the page the
  DELETE changes and a buffer pool that writes it back whenever its page
  LSN is at most `persist_lsn_`, the page reaches the data file only after
  its DELETE record is in the log file (`WalHolds`), whichever flush
  (buffer full, commit, background) made it durable. `persist_lsn_`
  starting at 0 cannot break it, because LSN 0 is always a BEGIN record.
  Flushes and commits are modelled from spec 4.4, so no property is
  claimed about what they alone decide (that `persist_lsn_` matches the
  file, that a commit is durable).
- `catalog_session`: every accepted query names existing columns of its tables
  with typed, width-correct values; a restart reads back the catalog it
  wrote in every iteration order.
- `cond_pass`: for every condition `check_clause` accepts, `cmp_cond`
  never throws `IncompatibleType`: the analyzer's type for a literal, a
  list or a subquery (from the catalog, with Int promoted) and the one
  `cmp_cond` derives at run time (from the value, or from the subquery
  operator's output column and its own promotion) agree
  (`AnalyzedNeverIncompatible`). Literal, value-list and one-row
  scalar-subquery conditions keep exactly the records whose value
  satisfies the operator, an Int right-hand side compared as the Float it
  promotes to (`PromotedCompareMatches`).

Why these bounds are enough:
- Two index columns cover every `last_idx` case (equality prefix 0, 1 or 2,
  range on either column); three values per column give a value below, at
  and above each literal; the INT domain contains `INT32_MIN`.
- Two rows tell the first qualifying row from the last; a batch of one
  puts a refill boundary inside the spill file.
- Two sessions and two rows produce every two-party lock conflict and the
  crossed-order wait-for cycle of spec 8 scenario 5.
- In `update_stale`, two rows with three values give an UPDATE both a
  free new key and a taken one, so DuplicateKey and the unmaintained path
  both occur; three slots let an INSERT reuse a value a stale entry holds.
- The 64-byte buffer takes a BEGIN and the DELETE (63 bytes) and
  overflows on a BEGIN and the UPDATE (65 bytes, one over), so both branches of `add_log_to_buffer` and all three flush triggers race.
- The catalog statements reach every `throw` of `analyze.cpp` and each
  promotion; two tables with a shared column name give ambiguity.
- In `MC_CondEval`, every column type meets every right-hand side type, so
  each promotion and each `IncompatibleType` occurs; `u` with zero, one and
  two rows gives the empty, scalar and multi-row subquery, and two rows
  are the fewest for the IN loop to reach a second row after a conversion.

### Findings

1. **FLT_MIN as the FLOAT minimum** (`executor_index_scan.h:56`, run
   `fltmin`). On an (INT, FLOAT) index `WHERE a = -1` probes from
   `(-1, FLT_MIN)` and misses the row `(-1, -2.0)`.
2. **Descending restart** (`:220`, `restart`, shown under
   `MC_IndexScan_descrestart.cfg`). The rescan branch ignores
   `asc_`; a MAX subquery re-executed for the next outer tuple returns the
   minimum.
3. **Unchecked descending shortcut** (`:512`). `prev_rid(upper_)` is
   returned without evaluating the conditions. `MC_IndexScan_descfilter.cfg`
   checks `DescYieldsMax` on a descending scan with conditions on the second
   index column and TLC reports the violation; the `restart` run checks
   `RestartTolerated`, which includes it.
4. **Mergesort restart mid-scan** (`:284`, `restart`). `records_` is
   not cleared when the spill file is reopened.
5. **DELETE locks only the scanned gap** (`executor_delete.h:44`,
   `dml_twoindex`). After an index scan the DeleteExecutor takes no lock,
   so a session reaching the same row through the other index reads or
   deletes it concurrently.
6. **persist_lsn_ starts at 0** (`log_manager.h:488`). Before anything is
   written LSN 0 is reported durable, against spec 4.4. `PersistedPrefix`
   states the claim; `MC_LogManager_persistinit.cfg` checks it alone and TLC
   reports the initial state. It does not break the WAL: LSN 0 is always a
   BEGIN record, so no page carries it.
7. **DELETE on a missing table creates a phantom table**
   (`analyze.cpp:223`, `catalog_phantom`). `check_column` reads
   `tabs_[table]`; for DELETE, which never calls `get_table`, this inserts
   an empty-named `TabMeta`. It is written at shutdown with an empty name,
   which `operator>>` cannot read back as a token, so the restart reads
   the stream out of step and the catalog does not come back.
8. **UPDATE leaves other indexes stale** (`portal.h:124`, `update_stale`).
   `is_set_index_key` is cleared when the scan was an index scan and no SET
   column is in THAT index's `cols_map`. `UPDATE t SET b = 2 WHERE a = 1`
   through the index on `a` therefore skips maintenance of the index on
   `b`: the next `SELECT ... WHERE b = 1` through it returns the row whose
   `b` is now 2 (and the new value escapes the unique check). A later
   DELETE removes index entries by the record's current key, so the stale
   entry outlives the row.
9. **IN subquery converts only its first Int row**
   (`executor_index_scan.h:716`, `cond_subquery`, shown under
   `MC_CondEval_insub.cfg`, which keeps only the IN statements). For a Float column against
   an Int subquery, the loop converts the first row and sets `rhs_type` to
   Float; the later rows are not converted and are compared as the Float
   their bits spell. `WHERE f IN (SELECT i FROM u)` with `u` holding 0 and 1
   keeps `f = 0.0` but drops `f = 1.0` (spec 4.6.3 and 5: Int is promoted to
   Float for IN subqueries).
10. **Scalar subquery of several rows compared against its first**
   (`executor_index_scan.h:728`, `cond_subquery`). Spec 4.6.3 pulls a
   scalar subquery to its end and fails on a second row. The checks that
   did so in `do_analyze` (`analyze.cpp:343`) and `convert_plan_executor`
   (`portal.h:221`) are commented out, and `cmp_cond` takes the first row
   the operator yields: `WHERE a = (SELECT i FROM u)` over a two-row `u`
   completes with the records equal to the first row. `SubqueryMatchesSpec`
   states both rules of spec 4.6.3, and TLC reports this case first.
11. **Page LSN stamped out of order** (`executor_delete.h:68`,
   `wal_samepage`). `add_log_to_buffer` hands out LSNs under the log
   latch, but the page is stamped afterwards, without it, by plain
   assignment. TLC's trace: T1 logs BEGIN (0) and DELETE (1); T2's BEGIN
   (2) does not fit, so the buffer is flushed and `persist_lsn_` = 1; T2
   logs DELETE (3) and stamps page 1 with 3; T1 stamps it with 1. The
   page now holds change 3 under LSN 1, and a buffer pool obeying the WAL
   rule (page LSN <= `persist_lsn_`) writes change 3 before its record is
   on disk. Two DELETEs reach one page at once only through index scans,
   which take no table lock (finding 5).

## 4. Fairness

- Index scan: the consumer and the executor run in one thread (spec 5);
  only safety is checked and no fairness is assumed.
- DML: `LiveSpec` gives each session weak fairness on its steps. A session
  thread runs its statement unless it sleeps on a lock, and a release
  wakes it (the lock manager's condition variable), which is what weak
  fairness on an enabled step states.
- Log: no fairness and no liveness property. The shutdown handshake
  (`background_flush` re-checking `run_background_thread_`, the join) is
  one guard of one action each here, so that the join returns would only
  restate whatever fairness were assumed for those two steps.
- `DurableLog` and `AtomicStatements` have no fairness: the refinements
  are of their safety parts, as nothing forces a session to commit.
- Catalog, analyzer, condition evaluation and index maintenance: safety
  only; one statement runs in one thread.

## 5. Plan for later work

1. `UpdateExecutor` and `InsertExecutor` are not in `src/`; their locking
   could join `DmlLocking` (their index effect is in `IndexMaintenance`).
2. Run the analyzer against larger statement sets (joins of three tables,
   nested subqueries) as the state space allows.
3. Recovery (redo/undo from the decoded log) from spec 4.4, on top of
   `LogRecordCodec`.
4. The predicate manager's conflict test, now spec-modelled inside
   `DmlLocking`, as its own module once its source is available.

## 6. Not modelled

- In `DmlLocking`, `DeleteRid` logs the delete, stamps the page and deletes
  the record in one step, which is enough for isolation; the page stamp
  made outside the log latch, and the race it opens, are modelled in
  `WriteAheadLog`.

- The buffer pool beyond writing a dirty page back: replacement, pinning
  and the page allocator are outside the repository and spec 1 puts them
  out of scope. Undo on abort rewrites pages too (spec 4.5), but the
  transaction manager's rollback is not in the repository, so `WriteAheadLog`
  stamps pages for DELETE only.

- An empty scalar subquery: `cmp_cond` dereferences the null record
  (`executor_index_scan.h:728`), which `CondEval` takes as a crash ending
  the statement. Spec 4.6.3 says nothing of this case and the check that
  threw `Empty sub query!` (`portal.h:215`) is commented out, so no
  property states what should happen.
- The result header of a SELECT (`portal.h:94`) is copied from the
  projection's `sel_cols_` just after `convert_plan_executor` passed them
  with `std::move` to `ProjectionExecutor`, whose constructor is not in
  the repository; whether the copy is empty depends on its signature.
- A `cmp_cond` whose right-hand side is a column (`assert(0)`): such a
  condition is a join condition, which the index scan takes as its
  mergesort key, never through `cmp_cond`.
- The constructor's mode choice for a list or subquery condition placed
  first (`executor_index_scan.h:164-171`): it tests only
  `!conds_[0].is_rhs_val`, so such a condition alone selects the mergesort
  mode and, with others, is erased for the scan_index mode; neither ever
  evaluates it. Whether the planner (not in the repository) orders
  conditions that way is unknown; `CondEval` places a literal index
  condition first, the order in which `cmp_cond` sees the condition.
- UPDATE's `set_clauses` are left unqualified (spec 47 expects the table);
  HAVING without GROUP BY is rejected though spec 141 describes an
  implicit group; `SELECT *` with GROUP BY is rejected. The analyzer model
  follows the code here; no property states the spec's reading.
- The `index_names_map` cache of `TabMeta`, table aliases.
- The formatting of `sorted_results.txt`, the AST printer, `RmScan` and
  `QlManager` (declarations only).
