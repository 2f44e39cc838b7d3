# gigatoken: specifications, model checks and proofs

TLA+ models of gigatoken (`src/src/`): its concurrent and stateful core, its
pretokenizers and the scanner that runs them, its merge loops and its trainer; the TLC
runs that check them on small instances, and TLAPS proofs of the results that should
hold for every instance. Paths below are relative to the repository root's parent, as
in `PROJECT.json`: `src/src/batch.rs` is the crate's `src/batch.rs`. The line of
source each definition stands for is in `PROJECT.json` under `map`.

## 1. The system

gigatoken turns byte strings into token ids, fast. A batch travels through it so:

    files --DocSplit/StreamSplit--> documents --DocChunks (SafeSplit)--> chunks
          --ChunkGather (rayon tasks)--> per chunk: WorkerPool slot
          --MaskScan (a scheme)--> pretokens -> PretokenCache --> BPE merges;
          one flat token buffer + row lengths come back

With a SentencePiece model the chunks are cut by `SpSplit`, an encoder per chunk takes
them apart into units by the same rules, and a unit goes through `SpCache`. Apart from
all that a trainer learns the merges from counted words.

| component | source | state it keeps | operations | what is hard |
|---|---|---|---|---|
| chunk gather engine | `batch.rs` 340-640 | atomic claim counter, one `OnceLock` per chunk, committer (cursor under a mutex, reserved flat buffer) | claim, encode, `advance`, `finish`, `assemble_ragged` | tasks interleave; the reservation is a guess; a task may panic; the last completion races the last drain |
| worker pool | `batch.rs` 650-760 | slots (mutex + optional worker + poison flag), one serial slot | `with_worker`, `with_serial_worker` | scanning with `try_lock` while others take and free; panics |
| document chunking | `batch.rs` 100-340 | open group, emitted bytes, row lengths under way | `build_doc_chunks`, `push_fragment_chunks`, `row_counts` | huge documents between open groups; a row spread over chunks |
| safe split, added-token walk | `pretokenize/mod.rs`, `bpe/tiktoken.rs` | none (a cursor) | `safe_split_ranges`, `for_each_piece` | a cut inside or beside an added token changes the tokens |
| document splitting | `input/*.rs`, `batch.rs` `for_each_doc` | region cursor, one iterator per region | `chunk_ranges`, `par_document_chunks`, `DocumentIter`, `JsonLinesSlice` | the parallel walk must find the documents of the serial one |
| streaming reader | `input/file_source.rs` | `buf`, `finished` | `SeparatorReader::next` | separators across blocks, read errors |
| short pretoken table | `bpe/pretoken_cache.rs` | slots, `len` | `get_or_slot`, `insert`, `insert_at`, `replace`, `grow`, `reset` | wrap-around, load limit, slots remembered across changes |
| encode caches, budget | `bpe/tiktoken.rs` | short table, long map, token arena, budget, config | encode of a pretoken, wipe, mutators, `fork_sized` | entries point into an arena that is wiped; settings change under cached entries |
| BPE trainer | `bpe_train.rs` | words, pair queue, pair index, merges | `train_bpe`, `update_words` | incremental counts, stale index entries, ties |
| BPE merge loops | `bpe/mod.rs` | per-call linked list, heap or rank array; an immutable pair table | `bpe_merge_symbols_*`, `PairRankTable` | stale heap entries, ties, ranks and positions packed into one word, compaction in place |
| SentencePiece encoder | `bpe/sentencepiece.rs` | per encoder: front cache, short and long map, arena, budget | `finalize_speed_paths`, `encode_raw_cb` down to `encode_unit`, wipe, `safe_fragment_ranges` | units and fragments must not cut a merge of the whole section; entries point into an arena that is wiped |
| pretokenizer schemes | `pretokenize/fast/*.rs`, `unicode.rs`, `options.rs` | none: functions of the text | scalar `advance`; `batch_masks` of 64 bytes | each is a backtracking pattern written twice, by hand; a batch sees neither the text before nor behind it |
| mask scanner | `pretokenize/fast/mask.rs` | `pos`, `scan`, trusted bits left, bad zones, a precomputed batch; per fill a buffer of offsets | `next_span`, `fill_spans_two_phase`, mixed | stale bits behind a scalar overrun; what a fill harvested and did not hand out; the u16 window |
| parallel pretokenize, parquet, decompression, loaders, bindings, CLI | see `PROJECT.json` | little or none | | I/O and conversion |

How they interact: a gather task calls `with_worker` around the encode of one chunk, so
a chunk is the unit of work of both; a worker owns its caches outright (no cache is
shared); the committer and the claim counter are the only state tasks share. The input
side hands out byte ranges that stay valid for the batch. The bindings build a tokenizer
once and never mutate it while its pool is alive.

## 2. Modules

| module | models | abstract counterpart |
|---|---|---|
| `Batches` | jobs: chunk sizes, prefix sums, reservation, "the tokens in order" | |
| `ChunkGather` | `encode_chunks_gathered_with_cap`, `Committer`, `gather_flat`, `assemble_ragged` | `GatherContract`: one step gives the answer in order, or a panic |
| `WorkerPool` | `with_worker`, `with_serial_worker`, poisoning | |
| `BatchProofs` | theorems about these two and `DocChunks`, whose names differ for it | |
| `PretokenTable`, `PretokenTableProofs` | `ShortPretokenCache`; theorems | `KeyStore`: a map with insert, replace and clear |
| `PretokenCache`, `PretokenCacheProofs` | the caches of one `Tokenizer`: hit, miss, wipe, mutators, fork; theorems | `Expected`: what an empty cache would emit |
| `ByteSearch` | `memmem::find`, slices | |
| `DocSplit`, `DocSplitProofs` | `chunk_ranges`, `par_document_chunks`, the document iterators, `for_each_doc`; composed with `StreamSplit` for compressed files; theorems | the serial walk, run beside the parallel one as region 0 |
| `StreamSplit` | `SeparatorReader::next` | |
| `SafeSplit` | `safe_split_ranges`, `for_each_piece`, as operators; its theorem is in `BatchProofs` | the walk over the uncut text |
| `SpSplit` | `finalize_speed_paths`, the unit scanner, `encode_raw_from` and what it calls, `safe_fragment_ranges`, as operators | `SpMeans`: normalize, then merge whole sections |
| `SpCache`, `SpCacheProofs` | `EncodeState`, `encode_unit`; theorems | the encoding of the unit (`EmitsEncoding`) |
| `DocChunks` | `build_doc_chunks`, `push_fragment_chunks`, `encode_chunk`, `sp_build_chunks`, `sp_encode_chunks`, `row_counts` | one row per document, with the tokens of the uncut text |
| `TextMasks` | the `MaskScheme` hooks: what the scanner knows of a text, and the contract a scheme's masks keep | |
| `MaskScan`, `MaskScanProofs` | `MaskState`: `next_span`, `fill_spans_two_phase`; theorems | the scalar walk (`SpansAreTokens`) |
| `PretokText`, `BatchClasses` | character classes, decoding, run scans; the class masks of a batch, digit and whitespace rules all schemes share | |
| `R50k`, `Cl100kFamily`, `O200kFamily` | the schemes with masks: `advance`, carries, boundary algebra | `Patterns`: the split patterns, as ordered alternatives |
| `Schemes` | the schemes by name (`PretokenizerType`); DeepSeek-V3, which has no masks; a text as the scanner sees it | |
| `BpeWords`, `BpeTrain`, `BpeTrainProofs` | words and pairs; `train_bpe`, `update_words`, `update_word`; theorems | `NaiveBpe`: recount everything before each merge |
| `PairRank` | `PairRankTable`: grid and flat table of packed slots; its theorem is in `BpeMergeProofs` | the merge map |
| `BpeMerge`, `BpeMergeProofs` | the eight merge loops of `bpe/mod.rs`; theorems | `LowestFirstMerge`: replace the leftmost pair of lowest rank |
| `MC*` | small instances for TLC | |

Reading guide. Variables carry the source's names. Definitions commented "Bug:" are
defects a change of the code could introduce; no specification uses them. They are put
in the place of the definition they follow to show that a property can fail
(`PROJECT.json`, `mutants`).

**ChunkGather.** `next` is the `AtomicUsize` (1-based), `outs` the filled `OnceLock`s,
`cursor`/`lock` the committer's mutex, `buffer` the reserved vector, `pc[t]` where task
`t` is between two accesses to shared state. `Claim` = the `fetch_add`; `EncodeChunk` =
the encode and `OnceLock::set`; `TryLock`, `Drain`, `Bump`, `StopDrain`, `Unlock` =
`Committer::advance` one access at a time, so that other tasks can come between the
copy and the cursor's change; `Join` = the end of the scope and the choice between
`finish` and `assemble_ragged`; `CopySuffix` = one of the parallel copies, in any order;
`SetLen` = `set_len` and return. `Panic` is an encode that panics: the scope still joins
and the caller's unwinding is status `"failed"`. A batch of one chunk or none spawns no
task: `Serial` and `SerialPanic` are the caller encoding it itself. A token is `<<i, k>>`, the k-th token of
chunk i, and `Unset` a buffer entry not written. The relaxed ordering of the counter is
harmless: it is used by `fetch_add` alone, and `outs` and the cursor synchronise.

**WorkerPool.** `stage[t]` is where a thread is between two accesses, `pos` the scan's index (`NumSlots + 1`: the scan came to its end),
`worker[k]` the option inside the mutex, "torn" if an encode was abandoned in it. A
`try_lock` that fails moves on; one that meets poison takes the slot and rebuilds.
`callers` says which threads use this pool at all, so one run covers few and many.

**PretokenTable.** `slots` is the array; `miss` is what the last failed lookup told its
caller, valid until the table changes; growth moves one entry at a time (`grow`).

**PretokenCache.** The table is a function here (`PretokenTable` is what implements it)
with its capacity, since the budget looks at it. A token is a pair naming its pretoken,
so that a stale entry is told from a right one. `MissShort` and `MissLong` are
`encode_pretoken_miss` with its budget check, wipe, second lookup and insert.

**DocSplit.** Every region is read by an iterator of its own at its own pace, region 0
is the serial walk over the whole file. `CutRegion` and `CutWindow` are one turn of the
two cutting loops. **StreamSplit**: `buf` is the byte range `lo..hi` of the file; every
block size is possible in `FillBuf`. `pretokenize_file` picks one of the two by the
file's compression, and so does `streaming` in `DocSplit`. **SafeSplit**: bytes are letters, digits, spaces or
other, which is what the GPT-2 family's safe positions depend on; `Pieces` is
`for_each_piece`. **DocChunks**: the state is the loop over the documents, then the
chunks encoded one after another; fragments are cut with `SafeSplit`, or with `SpSplit`
when `input.model` is a SentencePiece model (then without LPT and without fragments in
the tail, as in `sp_build_chunks`).

**SpSplit.** A model is its merges in rank order, pieces nothing merges into, a
normalizer and a Metaspace. `WordSplit` and `RawPrepend` are derived from them as
`finalize_speed_paths` does. `EncodeSection` takes the raw path (spaces stand for marks,
the dummy prefix is a space in front of the first unit) or the materialized one.
`MeansSection` is written from what the comments promise ("per-unit BPE equals global
BPE") and knows neither units nor raw text: it normalizes a section and merges it whole,
or between the marks where Metaspace splits. A character stands for its bytes, and every
character has a piece.

**SpCache.** `Keys` are what `pack_pretoken_key` sees: the unit's bytes behind its virtual
space. `FrontHit`, `MapHit` and `Miss` are the three ways through `encode_unit`. An
entry is read as the code reads it, without a check: a slice beyond the arena is
`Undefined`.

**BpeTrain**: `UpdateWord` takes the words of a merge in any order, as the thread pool
does; `Apply` puts the summed changes into queue and index. `update_word` walks a word once
and records a change for each pair it breaks and makes. Here the walk is a choice of the
positions it merges at (`MergedAt`, from left to right, none beside the one before), and
what it records are functions on those positions: `LeftLost`, `LeftGained`, `RightLost`,
`RightGained`. The sums over them are what `count_changes` holds.

**TextMasks, MaskScan.** The scanner is parametric in the scheme: a text is its length,
the end of the token at each position (`next`, the scheme's `advance`) and, per batch,
the set of trusted starts (`usable`) and of bytes to be walked by the scalar path
(`bad`). `MaskContract` is what a scheme promises of them; nothing in the code says it in
one place. Its heart is `Trusted`: seen from any token start a walker may enter the batch
at, the bits up to the next bad byte are exactly the token starts. Bits below that start
may be wrong, and in the code they are. `entry` is the first position a batch can be
entered at: usually the last start below it, later when the batch before sends its
walker over the edge by the scalar path. The actions of `MaskScan` are the turns of the
loops of `next_span` (`Pop`, `Scalar`, `NextSegment`, `Refill`, `RefillTail`) and of a
fill: `Window` opens a window of offsets at the pending token, `Segment` and `Flatten`
harvest trusted bits, `Zone` walks a bad zone, `HarvestTail` the end of the text, and
`Emit` hands the spans out. The caller picks `NextSpan` or `Fill` at every turn.

**PretokText, schemes, Patterns.** A text is a sequence of byte names, one per class that
some scheme tells apart; wide characters are a lead and its continuation bytes, so that
they cross the edges of batches as in the code. Masks are sets of bit numbers, shifts are
`Up` and `Down`. The four cl100k schemes and the four o200k schemes are records of what
they differ in, as they are type parameters in the source. `Patterns` is written from the
split patterns of `options.rs` alone and shares with the schemes only the reading of
characters: an alternative is the set of places it can end, so that "greedy", "lookahead"
and "first alternative that matches" are plain set expressions.

**BpeMerge.** The eight `bpe_merge_symbols_*` functions are three loops over one linked
list, which `input.core` chooses: `PopStale` and `PopMerge` are a turn of the heap's
loop (`_by_rank`, `_ranked`), `ScanMerge` of the array scan's (`_small`,
`_short_scalar`, `_ranked_slice`), `LaneMerge` of the vector scan's (`_short_neon`,
`_short_avx2`, `_short_avx512`), whose lanes keep their 32 bits and wrap. `Compact`
moves one survivor. `input.lookup` is what the loop is answered when it asks for a
pair. `PairRank` builds that answer; `Build` takes the merges in any order, since a hash
map gives them in any, and gives up where the code does. `live` is kept by no code: it
remembers which positions a merge has not removed, so that properties can speak of
them.

## 3. Runs

All runs check deadlock; specifications that come to an end have a stuttering step
`Finished` for it.

| run | bounds | what it shows |
|---|---|---|
| `Gather` | 3 tasks, 0, 1 or 3 chunks of 0-2 tokens, reservations 0, 2, 3 and 5, `MaxDrain` 2, at most one panic | the buffer holds a prefix in order; no token is overwritten; an answer is all tokens in order by whichever path; only a panic makes a batch fail; the engine implements `GatherContract`; every batch ends |
| `Pool` | 3 threads, every nonempty set of callers, 2 slots and the serial slot | one thread per worker; no torn worker is used; with enough slots no scan fails and every call returns |
| `Table` | 5 keys, hashes that collide, wrap, and separate only after two growths; capacities 2, 4, growing to 8 | every walk ends and where it should: load limit, findability of every entry even in mid-growth, the remembered slot; the table is a map |
| `Cache` | 4 short and 3 long pretokens (in and out of the vocabulary, inline and spilled, one giant), budgets tiny, small and none | entries mean what the tables say now; the seed survives wipes; the budget holds up to one encoding; no wipe per miss; the output never depends on the cache |
| `Split` | files to 5 bytes, separators of 0-2 bytes that do not overlap themselves, JSON lines with unreadable ones, regions and windows of 1-3; compressed files to 6 bytes, separators to 3, every block size, read errors | pieces tile the file; the documents are the serial ones (or start with them, when a line is unreadable); the documents of a stream end exactly at separators; every file is read to its end |
| `StreamDrops` | the streams alone, without errors | **violated**, finding 1 |
| `SplitStraddle` | as `Chunks`, with two added tokens with spaces, of different lengths | **violated**, finding 2 |
| `Chunks` | batches of up to four documents of 0-18 bytes with every set of places to cut; single documents of 7 or 8 bytes with one added token of any shape and strip flags, alone or beside a short one; with and without LPT. 20 SentencePiece models (merges inside words, over runs of marks, over the mark before a word, over two, with punctuation; seven normalizer and Metaspace schemes): every text of 5 characters over letter, space, mark and full stop, of 5 or 6 with added tokens of every shape and strip flags, and batches of five documents | encoded by chunks, the batch gives the tokens of the uncut documents; units and fragments give what merging the sections whole gives; rows come out per document; the tail is small |
| `Units` | 6 keys short and long, two sharing a front slot, one encoding and one key larger than the budgets, three budgets | every unit is answered with its own encoding; the budget holds up to one entry; a wipe makes room |
| `Spans` | 28 alphabets of 2 to 5 characters for the ten schemes, every text of 6 to 15 bytes over them; on six of them, where scalar walks overrun batches, the scanner runs on every text with every mix of calls. Batches of 4 bytes, chunks of 3 spans, a window of 11 | advance follows the pattern; masks are right wherever they may be trusted; the spans handed out are the tokens; the buffer suffices; calls come back |
| `Train` | two words of up to 4 and 5 symbols over two bytes, counts 1 and 2, merges until nothing is left or 4 are made | counts are exact, the index covers, every merge is one of the naive trainer, training ends |
| `Merge` | words of up to 6 symbols over two bytes, vocabularies of two and three merges into three ids, ranks equal to the ids and opposite to them, all three loops, the table in every order of insertion and the hash map | every merge takes the leftmost pair of lowest rank; no pair is overlooked; loops, table and compaction together are `LowestFirstMerge`; every word is merged to its end |

Why the bounds are enough. *Gather*: three chunks are what a backlog beyond `MaxDrain`,
an empty chunk in the middle and a hole need; two tasks contend for the lock and the
third is the one that panics or comes late. The reservations are "none", "two chunks
overrun it", "fits exactly" and "room to spare". `MaxPanics` = 1: a second panic removes
one more task and no new path; the theorems hold for every bound. *Pool*: more callers
than slots needs three threads on two slots. *Table*: `MaxCap` stops growth beyond two
doublings, the second of which separates keys that collided. *Cache*: `MaxArena` forbids
a mutator with more than that in the arena, since without a budget nothing ever drops
from it; encodes are not bounded by it. `AddSpecialToken` takes a free id once per
content, and a content is one added token: ids are only compared for equality. *Train*:
`VocabSize` leaves room for four merges; a self-overlapping pair needs three symbols in
a row, a fresh merge to the left of the next four. *Split*, *SafeSplit*: two
or three bytes tell a separator from text, and the lengths are the longest separator
plus text on both sides of every probe. *Chunks*, SentencePiece: a crossing piece
spans three characters, a mark run that must not be cut two, and fragments of 2 with
texts over twice that leave a cut with both neighbours; `MaxCrossPieces` is 2 so that
"too many" happens. *Units*: `EntryBytes` and `TokenBytes` are 2 and 1 for 48 and 4, and
three keys fill the smallest budget. *Spans*: no rule of a batch looks further than
three bytes beyond it or two characters before it (`Look`; `TailWalk` is the tail
walkback's limit, 8 in the code, 1 here so that it is reached), so batches of four bytes
have an edge within reach of every byte, and texts of three batches have one between two
others. What a batch of 4 is too short for is a suffix contraction of o200k that is
resolved inside it: an apostrophe neither among its first three nor its last three bytes
needs 7, and with 4 every one is left to the scalar path. A window of 11 holds fewer than
three batches, so that it overflows. *Merge*: ids of 3 bits, lanes of 7 bits with 3
for the position, a grid for the two bytes and 8 slots behind it with one displacement
allowed, so that keys collide, a table is given up, and the packed no-merge rank wraps.
Ties need two occurrences of a pair, stale entries two that overlap, a pair that arises
on the left of a merge four symbols.

Preconditions the models take from the code's callers. `set_ignore_merges` without a
budget happens before any encode: nothing drops the long entries afterwards, and the one
caller, a loader, calls it while building. The precondition is `LoaderPhase`, a conjunct
of `Next`; the action `SetIgnoreMerges` has no such guard, as the method has none. The prototype of a pool does not
change while the pool lives (the type's doc leaves that to the caller, `batch.rs:650-664`,
and no binding exposes a mutator). A separator contains no `Malformed` byte. The budget of
an `EncodeState` keeps its arena below 2^32 tokens (`OffsetsFit`): the default does.

## 4. Fairness

* `Gather`: weak fairness of every task's steps and of the caller's. Rayon runs every
  spawned task, and `advance` never waits (`try_lock`): no task depends on another.
* `Pool`: weak fairness of a thread inside `with_worker` or an encode (the operating
  system runs it, an encode ends). None for `LockSerial`: std's mutex promises its
  waiters no turn, so nothing is claimed about the serial caller.
* `Split`, `Train`, `Merge`: weak fairness of the step of the loop, which is a thread
  that keeps running. The caller is assumed to drain the iterator, as
  `pretokenize_streaming` and `for_each_doc` do.
* `Spans`: weak fairness of a step while a call is under way; none for making a call.
* `Table`, `Cache`, `Chunks`, `Units`: no liveness is claimed.

## 5. Proofs

Assumptions, all in the modules that declare the constants: the tasks are a nonempty
finite set without `NoTask` (`TasksAssumption`), `MaxDrain` is positive
(`BoundsAssumption`), `Unset` is no token of a job (`UnsetAssumption`), the jobs are
well formed (`Batches`), the threads are a finite set without `Nobody`
(`ThreadsAssumption`) and there is a slot (`SlotsAssumption`). What the other modules
assume is said with their theorems.

**`BatchProofs`**, the engine: `TypeCorrect`, `CommitsInOrder`, `EveryIndexClaimedOnce`,
`NoChunkLost`, `GatherCorrect`. None of the properties is inductive. The invariant
`IInv` joins to the types: the lock is held exactly by a task inside `advance`
(`LockHeld`); what lies below the cursor is committed, in order, and a task between copy
and bump has the next chunk in place as well (`CommittedPrefix`, `HalfCommitted`); every
index below `next` is filled, in a task's hands, or was lost by a dead task
(`Accounted`), and no two tasks hold one (`ClaimedOnce`); a batch with a missing output
has had a panic; and while the suffix is copied, the chunks no longer pending are in
place. `StartMonotone` and `Disjoint` say that the chunks' places in the buffer do not
overlap. One lemma per action proves that it keeps `IInv`.

`CopiesDisjoint` (an action property: no written entry of
the buffer changes, a fresh buffer aside) and `ImplementsGatherContract` need in
addition that an index is lost only by a dead task (`Lost`), that every entry of the
buffer is `Unset` or the token that belongs there (`WellPlaced`) and that the overflow
flag is only raised by a batch that really overruns (`Overrun`). Each step maps to a
stutter but these: an encode (a task's, or the caller's of a lone chunk) maps to the
contract's, `SetLen` and the end of the serial path to its answer, a failing `Join` and
the panic of a lone chunk to its panic.

**`BatchProofs`**, the pool: `PoolTypeCorrect`, `MutualExclusion`, `TornNeverUsed`,
`FreeSlotExists`. `Held` ties a working thread to the slot it locked, `TornIsPoisoned`
says that the only workers left torn are behind a poison flag. `FreeSlotExists` is the
interesting one: that all slots are busy at no one moment does not by itself say that a
scan, which looks at them one after another, succeeds. The invariant `Room` counts the
threads at or past slot `k` - whether they scan there or hold a slot there - and says
there are at most `NumSlots - k + 1`. A scanner moves past `k` only when another thread
holds `k`, and that thread, not past `k`, is missing from the count.

**`BatchProofs`**, the chunks: `SafeCut`, `ChunksTypeCorrect`, `ChunksSameTokens`
(`SameTokens`), `ChunksRowsPerDocument` (`RowsPerDocument`) and `ChunksSmallTail`
(`SmallTail`), for any documents, added tokens and target size, with the large and the
small chunks of LPT and without. Of an input is assumed what `IsInput` says: documents
are sequences of bytes, the added tokens are finitely many, of different, nonempty
texts, and with LPT none is longer than `MIN_CHUNK_BYTES`.

`SafeCut` says that a text may be cut where `safe_split_ranges` cuts it: `for_each_piece`
on both sides gives what it gives on the whole. It goes by way of `CleanCut`, which
knows nothing of the search: a clean place is a space behind something else, no added
token straddles it, and none that absorbs the spaces behind it ends there (`Clean`). `for_each_piece` is a recursion over the
text, so walk on the left and walk on the whole are compared from the last place on
which they could disagree (`LeftWalk`, `RightWalk`); the longest match at a place is the
same in both (`LeftOccurrences`, `RightOccurrences`), and so are the trimmed spaces
(`RightTrims`). `SafeIsClean` then shows that what the code looks at is enough. There
the search matters: `find_iter` returns occurrences that do not overlap, in a window
sized by the longest token with a space. If it missed the occurrence that straddles the
cut, an earlier occurrence of the same text in the window would have to overlap it. The
hypothesis `Findable` excludes that: each such token is of the greatest length, so that
whatever begins in its window before the cut straddles the cut as well, or it cannot
overlap itself. It is needed: `SplitStraddle` is a run
without it (finding 2).

The invariant `ChunksInv` makes of the one cut the whole list. `RunInv` says that the
chunks so far follow one another from the first document to the open group, each of
whole documents or a fragment from where the last one ended, and each cut between
fragments one at which the tokens in front and behind join (`Tiles`, `JoinOK`). A huge
document is cut, and its first fragment perhaps cut again, by a second search in a part
of the text: a place safe in the part is clean in the whole document
(`SafeInner`, `CleanInner`, `SplitTiles`). `GroupInv` and `BytesInv` tie the open group and
the counters to the documents taken; `SmallInv` carries `SmallTail`, `CountInv` the rows:
the last entry of `counts` is the length so far of the document the last counted chunk
belongs to, which is why the next chunk may add to it. None of the four properties is
inductive without `RunInv`, and `SameTokens` needs all of it, because the tokens of
fragments can be joined only in the order in which they were cut.

For a SentencePiece model the hypothesis is `UnitsJoin`: at each cut of
`safe_fragment_ranges` the tokens up to it and those of the fragment behind it are the
tokens up to the fragment's end. Everything else, grouping, order, continuation flags and
row counts, is proved from it. `MCDocChunks` has TLC evaluate `CutsExact`, which is
`Findable` or `UnitsJoin`, on its inputs before a run, but for those of `SplitStraddle`.

**`BpeMergeProofs`**: `TypeCorrect`, `NothingLeftToMerge` (`Irreducible`) and
`AlwaysLowestFirst` (`MergesLowest`), for words of any length, any merge table and lanes
of any width. The tables are assumed to answer with ids and ranks, and what a loop over
lanes is given to fit its lanes (`IsInput`), which is what `PairRankTable::build` checks
and the caller's limit of 15 symbols ensures; of the spans only that a position span
fits a word (`SpansAssumption`). Neither property is inductive: a step can only be seen
to take the lowest pair if the loop's queue is right. `IInv` adds that the neighbours of
a live position are live and know each other (`Linked`); that the queue is right, for
each loop in its own way (`Queued`): the heap has an entry for every pair that merges,
and may have more, while the arrays hold exactly the rank of each pair and "none"
elsewhere; and that compaction writes behind what it has yet to read (`Compacting`).
`AfterMerge` is the lemma the three loops share: a merge keeps the list and changes no
pair but those that touch the new symbol. `LaneOfMerge` and `LaneOfNoMerge` are the
arithmetic of the lanes: a rank that fits is packed without loss, and "none" wraps to a
value above every real lane.

`LoopsEncodeByPairs` is the refinement (`ImplementsLowestFirst`): the word that list and
compaction spell goes through exactly the steps of byte pair encoding. That word is a
recursion over the links, so it is first shown to exist: links lead forward (`Forward`),
hence a least position without a chain cannot be (`Chain`). `RInv` adds to `IInv` that
the walk from the first position meets every live one (`Rooted`). Places of the word and live positions then
correspond in order, so that the leftmost pair of lowest rank in the one is that in the
other, and cutting a position out of the list takes one symbol out of the word
(`MergeMaps`). A stale pop leaves the word alone; so does compaction, which spells it
from two parts, what is written and what is still linked (`CompactMaps`).
The hypothesis `TablesAnswer` says that the loop is answered what the merge table says.
`TableAnswersMerges` proves it of `PairRank`, for any hash, any number of slots and any
order of insertion, provided there are ids at all and the hash gives a slot (`TableShape`),
the order names each merge, and there are fewer merges than slots. Its invariant, kept by each
insertion: every merge entered so far is found from its home with no vacant slot in
between, nothing else is in the table, and keys packed with ids unpack to both.
`TableLoopsEncodeByPairs` puts the two together.

**`BpeTrainProofs`**: `TrainTypeCorrect`, `CountsStayExact` (`CountsExact`),
`NoWordIsMissed` (`IndexCovers`) and `TrainingIsNaive` (the refinement `ImplementsNaive`),
for every corpus, vocabulary size and order of the words' updates; nothing is assumed but
what `BpeWords` says of its constants. Two arguments carry it.

The first is about one word. What `update_word` records must be, for every pair, its count
in the new spelling less that in the old. Both are counted over the places that no merge
swallows, and the proof goes over a spelling halfway (`Halfway`): the new symbol stands on
the left of a pair already, but not yet on its right. From old to halfway only pairs behind
a merge change, from there to the merged word only pairs in front of one, and those are the
pairs recorded (`RecordedPairs`, `ChangeCounts`). This holds for merges next to one
another, where the left neighbour is the symbol just made. Left out is the merged pair
itself: when it is one symbol twice its occurrences overlap (`"aaa"`), a change is recorded
for an occurrence the merge removes anyway, and its count turns negative. The invariant
asks for at most zero there, and so does `CountsExact`.

The second is `TInv`, whose conjuncts are the types (`TypesOK`, `Steps`) and:

* `CountsAdd`: for a pair not merged yet, what the queue says plus the changes pending is
  its frequency in the corpus as spelled by now, where some words may be updated and others
  not; for a merged pair it is at most zero.
* `NoMerged`: a merged pair occurs nowhere, but that the last one may in a word still to be
  updated. A merge makes only pairs with its new symbol, so none comes back.
* `IndexCovers`, in every phase. It is needed for the rest: a word the index left out would
  keep the pair, and its changes would be missing from the sums.

`FrequencyStep` says that respelling one word changes the frequency of a pair by the
word's count times its change (the frequency is a sum over the corpus, hence again a least
counterexample). `TInv` holds in every state of `Train`, too. In the refinement the words still to be updated
count as updated. `Pick` is then a step of the naive trainer, its `Train` when the pair
occurs and its `Fill` when not, and everything else is a stutter; that the queue's best
pair is the corpus' best is `CountsAdd` with no changes pending.

**`MaskScanProofs`**: `SpansCorrect` (`SpansAreTokens`) and `BufferSafe`
(`BufferBounded`), for every batch width, chunk and window with
`RelLimit + W <= RelMax` (`WindowShape`). The one assumption on the texts is
`TextsTrusted`: their masks keep `MaskContract`, which is what the run checks of the ten
schemes (`MasksTrusted`). `IInv` says for each mode where the walker stands: between
calls it is fresh, in the tail, or in a loaded batch whose remaining bits are exactly the
live ones (`Live`: the token starts behind the pending token and before the next bad
byte); a batch is only entered at or behind its entry point, with no token start jumped
over (`Enterable`, `Clear`); in a fill the offsets harvested are a chain of tokens from
`fill_base` (`Chained`), and the resume point is either the last boundary or in a batch
before (`Poised`). `LiveFirst` (the lowest live bit ends the pending token),
`LoadIsLive` (what is loaded is live) and `EnterNext` (a clean batch that is used up
leads into the next) carry the argument; `PushFacts` shows that no offset wraps. `Room`
counts for `BufferSafe`: a batch is entered with room left in the chunk, and each of its
positions is harvested at most once.

**`SpCacheProofs`**: `EncodesItsUnit` (`EmitsEncoding`), `StaysWithinBudget`
(`WithinBudget`) and `WipesMakeRoom` (`RoomAfterWipe`), for all keys, encodings, sizes and
budgets that satisfy `KeysAssumption` and `OffsetsFit`. What was answered says nothing of
the next answer; `IInv` adds that every entry of front cache and maps belongs to its key
and points to that key's tokens inside the arena (`Sound`). A hit keeps it because it
copies an entry; a miss because the caches it builds on are either untouched or all empty
(`KeptSound`), because what is appended leaves the rest in place (`AppendHolds`) and
because no offset or length wraps (`OffsetFits`). That needs no bound on the arena in the
invariant: a miss either wipes or has just seen the bill within the budget.
`MissFootprint` is the bill after a miss, from which both budget theorems follow.

**`PretokenTableProofs`**: `TypeCorrect`, `WalksEndRight` (`WalksRight`) and
`ImplementsKeyStore` (`ImplementsStore`), for every set of keys and values, every hash and
every even capacity (`HashAssumption`, `CapsAssumption`). `WalksRight` says of each stored
key that no pair before its own has room, and that is not inductive: an entry put
into the first free slot keeps it (`FirstEmpty` is in the first pair with room, so no
walk gets longer), but only if the key is in no other slot (`Distinct`), and a growth
keeps it only if what is still to be moved, what has been moved and the entry the growth
was started for are different keys and fit together (`Growing`). That walks end at all is
counting: with at most three quarters of the slots used some pair has room, and pair
probing visits every pair (`PairFacts`). The refinement maps the table to the function
from keys to values that the unmoved and the moved entries give together; a growth step
is a stutter because an entry changes place and not value.

**`PretokenCacheProofs`**: `CachesCoherent` (`Coherent`), `SeedAlwaysPresent`
(`SeedPresent`), `EmitsRight` (the action property `EmitsExpected`), `TypeCorrect`,
`StaysBounded` (`Bounded`) and `WipesDoNotThrash` (`NoThrash`), for every vocabulary,
every width and key length and every set of budgets. Assumed are
`PretokensAssumption`: the pretokens are finitely many, no short one is a long one, every
pretoken leaves at least one token, and added tokens among the pretokens are short; and,
for the sizes, `SizesAssumption`: the smallest table is a power of two from 2 on, and the
slack of the arena (4096) holds what a short pretoken (15 bytes) leaves. `WipesDoNotThrash`
has the hypothesis `KeysFit`: no long key needs more than the floor of the long map's
share (64 KiB). It is needed, see section 6. The invariant `IInv` adds to the two properties that the caches are well formed, that a budget
keeps the total it was derived from (so that a mutator derives it again, and never
mistakes it for none), and that before the first encode the long map is empty, which is
what `SetIgnoreMerges` without a budget depends on (`LoaderPhase`). `Good(c, ca)` is its core, stated for
any configuration and any cache, so that it can be asked of what a wipe leaves and of what
a mutator makes. An entry refers to a stretch of the arena; `StandsOn` says that it keeps
its meaning while the arena only grows, and `PutFacts`, `PutAllFacts` that writing any
set of entries in any order is such a growth. The fold `PutAll` goes over a set of
unknown size: its value is a function on the subsets of that set which exists by a
least-counterexample argument over their cardinality (`FoldExists`). `ReseedGood` and
`OverwriteGood` say that reseeding makes a cache right whose other entries are, and each
mutator is then shown to leave those alone or to be followed by a fresh seed.

The sizes have an invariant of their own, `Sizes`, on top of `IInv`. The table is always
one that could be filled the way it was (`Sized`: a power of two, three quarters full at
most), and a budget fits the seed of the present configuration (`Fits`), whose capacity
and arena `CacheBudget::derive` leaves room for (`DeriveFits`). The core is that a table
below its ceiling may double: there is no power of two between one and the next
(`NextPower`), so the doubled table is not above the ceiling, and at the ceiling the check
before the insert has left room for the entry or wiped (`BeforeFits`, `PutStays`). For the
same reason a fork's table, sized for its share of the input, stays below the ceiling:
`required_capacity` gives the least table that is large enough (`GrownFacts`). A wipe and
a fork lay the seed out in a table of another size than `derive` measured;
`ReseedEmpty` says that it does not grow there and that the arena comes out the same,
which `PutAllTwo` proves for two tables filled side by side.

**`DocSplitProofs`**: `TypeCorrect`, `PiecesTile` (`RegionsTile`) and `StreamEndsRight`
(`EndsAtSeparator`), for every file and separator over any bytes and every number of
pieces (`InputsAssumption`). `Cutting` says that the pieces cut so far tile what lies
before `start`. For windows that needs `WindowAt`: the last boundary is the end of the
first separator from the last probe point, and as first occurrences are monotone in where
the search starts, the next boundary cannot lie before it. For the stream, `Streaming`
adds that the last document ended a separator before `lo`, and that while a call reads,
either it began behind a separator (where a document may be taken whose start is not
searched, see section 6) or what is held has none, so that the search from `SearchFrom`
on in the longer buffer finds the first of all (`StreamKeeps`).

`DocumentsSame` (`SameDocuments`) compares the pieces' documents with the serial ones. What
an iterator reads from a position on is a recursion over the text, `Walk`; that it exists
is shown by a least counterexample, since every call moves on (`WalkExists`). `Walked` says
of each iterator, the serial one included, that what it has read and what it would read
from where it is are the walk of its piece; this makes their interleaving irrelevant.
`CutRight` says that each piece ends and the next begins where a document does. The heart is
`Glue`: reading up to such a cut and then reading on behind it is reading on, or both stop
at the same unreadable line. Applied piece by piece from the last one (`PiecesRead`) it
gives the theorem. The hypothesis `Alone` is that no separator of an input overlaps itself. It
is needed: for those that do, the parallel and the serial walk differ, see section 6.

Only model-checked, and why:

* liveness and fairness (`Terminates`, `CallsReturn`, `CallsEnd`): out of the prover's
  reach;
* what `SpSplit` computes: `UnitsExact` compares its units with whole sections, and
  `UnitsJoin`, the hypothesis of the theorems about the chunks of a SentencePiece model,
  its fragments with whole texts. Both rest on a merge loop and a unit scanner that are
  folds, over texts of any length;
* what the schemes compute: `TokensFollowPattern` and `MasksTrusted` compare ten
  hand-written scanners with their patterns over texts. The second is the hypothesis of
  the theorems of `MaskScanProofs`.

The library's induction theorems cannot be used, since they take an operator as a
parameter. Where a proof needs an induction (the word a list spells, the walk of an
iterator, the sum over a corpus, a table built by a fold) it assumes a least
counterexample instead, a set of naturals that is not empty.

## 6. Findings

1. **`SeparatorReader::next` drops text** (`input/file_source.rs:370`, run
   `StreamDrops`). It clears `buf` on entry, and with it what line 404 kept "for the next
   call". Everything read past a separator in the same block is lost.
2. **A straddling added token missed** (`pretokenize/mod.rs:628`, run `SplitStraddle`).
   Occurrences are searched without overlaps in a window sized by the longest token: an
   occurrence ending inside the window can hide the one that straddles the cut.

Observations no run is spent on:

* A separator that overlaps itself (`input/file_source.rs:191`): the parallel cut finds
  it from a probe point, the serial walk from the end of the last one. With `"\n\n"` and
  three newlines in a row the two may differ, where `batch.rs:964-966` promises identical
  documents. The inputs of `Split` hold no such separator.
* Nothing clears a poison flag (`batch.rs:714-720`, `739-746`). After one panic every
  later call that takes that slot builds a cold worker; the slots do not "stay warm
  across calls" (728-730). The answers are right.
* An unreadable JSON line ends the iterator (`jsonl.rs:47`), so the serial walk loses the
  rest of the file and the parallel walk only the rest of one region. `SameDocuments`
  allows for it by asking for a prefix.
* In `StreamSplit`, after an empty document the rest of the block is not searched again,
  so a document can contain the separator (`"bb"` split at `"b"` gives the document
  `"b"`). `EndsAtSeparator` excuses documents behind a separator.
* Without a budget `set_ignore_merges` leaves entries of the long map stale
  (`tiktoken.rs:877`). `LoaderPhase` leaves that out, so `Coherent` and `EmitsExpected`
  say nothing of it.
* The share of the long map has no slack for a giant key as the arena's has for a giant
  encoding (`tiktoken.rs:1018-1020`): a key larger than the share would ask for a wipe at
  every miss. Key lengths in `MCPretokenCache` stay below it, and `KeysFit` is the
  hypothesis of `WipesDoNotThrash`.
* The SentencePiece caches have the same gap: the slack of `over_budget`
  (`sentencepiece.rs:947-951`) is that of the longest encoding, and "one recurring giant
  unit must not force a wipe per occurrence" (911-913) holds for its tokens only. A long
  key whose bytes exceed the budget (1 MiB at the least) leaves the caches over budget
  again and is wiped at the next miss. `RoomAfterWipe` is stated for units whose key fits.
* Offsets and lengths of that cache are `u32`. With `max_cache_bytes` of `None` nothing
  bounds the arena, and past 2^32 tokens (16 GiB) the offset recorded at
  `sentencepiece.rs:1432` would wrap; `OffsetsFit` leaves that case out.
* A character without a piece and without byte fallback produces no token at all
  (`init_symbols`); the models here have a piece for every character.
* `from_split_regex` (`options.rs:128`) maps a pattern without `\s++$` to the cl100k scanner,
  which has that alternative: for whitespace at the end of a text after a newline the
  two differ (`"a\n  "`). `TokensFollowPattern` compares each scanner with the pattern in
  its module's header only.
* The trainer does not stop at counts of zero: pairs with no occurrence left can still
  be merged to fill the vocabulary. The naive trainer has the same step (`Fill`).
* `add_prefix_space` also adds bytes beyond the estimate that `batch.rs:353-356`
  attributes to normalization alone; the overflow path takes care of it.

## 7. Not modelled, and why

The AssembledBytes tie-breaking and the progress bar of the trainer; the SIMD probe loop
and the prefetch window of the encode loop (a lookup here); hash and key packing of the
encode caches (a constant function of the key; the pair table's packing is modelled, its
hash is not); prefetching in the merge loops; the Unicode tables and the vector
instructions that fill the class masks of a batch (a byte's class is its name), keys and
hashes of the spans, malformed text other than a character cut off by the end of it,
and builds without SIMD, which walk by the scalar path alone; of the SentencePiece
encoder the added tokens matched after normalization (`norm_added_tokens`, a second walk
of the same kind on the materialized text), the precompiled charsmap and the collapsing
of spaces, byte fallback, the 32-byte blocks of the unit scanner, and `decode`; parquet, decompression, file loading, the Python
bindings and the command line (I/O and conversion). `PROJECT.json` has a line for each.

## 8. Plan

Done, in the order of importance: `ChunkGather` with its contract, `WorkerPool` and
`DocChunks` over `SafeSplit`, all with `BatchProofs`, `PretokenTable`, `PretokenCache` and
`DocSplit` with their proofs, `StreamSplit`, `BpeTrain` and `BpeMerge` with their
proofs and refinements, the schemes with their patterns, `MaskScan` with its proofs,
`SpSplit` in `DocChunks`, `SpCache` with its proofs.

Next:

1. A composition of `WorkerPool` and `PretokenCache`: forks from one prototype answer
   alike, whichever slot a chunk is encoded on and whatever panicked before.
2. The walk over `norm_added_tokens` in `SpSplit`.
3. `hub.rs`: publication of a downloaded snapshot by rename.

Theorems worth proving next: `UnitsJoin`, that the units of a SentencePiece text are
separated by the cuts of `safe_fragment_ranges`; for the pool, that it implements a
one-slot-per-caller lock; of one scheme, that its masks keep `MaskContract`.
