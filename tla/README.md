# Turbo Graph: formal verification

TLA+ models of the Turbo Graph vector index (Rust crate `turbo-graph`, Python
package `turbo_graph`), TLC configurations that check them on small instances,
and TLAPS proofs of what must hold for every instance.

Run TLC with `tlc -config <cfg> <MC module>` and the prover with
`tlapm <module>_proofs.tla`. `PROJECT.json` maps every definition to the source
lines it stands for and lists the runs, mutants, hazards and theorems.

## The system

A quantizing vector index in one process, with layers on top of it:

| Component | Source | State | Operations |
|---|---|---|---|
| Positional index `TurboQuantIndex` | `lib.rs`, `encode.rs`, `pack.rs` | `dim`, `n_vectors`, `packed_codes`, `scales`, calibration (`tqplus_shift/scale`), four `OnceLock` caches | `new`, `new_lazy`, `add`, `add_2d`, `swap_remove`, `search*`, `prepare`, `write`, `load` |
| Stable ids `IdMapIndex` | `id_map.rs` | a `TurboQuantIndex`, `slot_to_id`, `id_to_slot` | `add_with_ids(_2d)`, `remove`, `search_with_allowlist`, `write`, `load` |
| Index files | `io.rs` | `.tv` and `.tvim` files | `write`, `load`, versions 2 and 3 |
| Packed masks `SlotMask` | `mask.rs` | words, count, per-block counts, active blocks | `allow`, `disallow`, set operations |
| Graph memory `GraphMemoryIndex` | `graph_memory.rs` | a `TurboQuantIndex`, slot tables, records, edges, three metadata indexes, eight caches | mutations, mask compilation, plans, cache trimming |
| Graph searches | `graph_memory.rs` | a prepared view held by the caller | plain, candidate, rerank, hybrid, explained, traced and preset searches |
| Graph sidecar | `graph_memory.rs` 3530-3660 | two files | `write`, `load`, versions 1 and 2 |
| Graph expansion | `graph_memory.rs` 2052-2076, 4053-4128 | queue or heap, visits | breadth-first and budgeted best-first |
| Search kernel | `search.rs` | none | scoring, top-k |
| Numerics | `codebook.rs`, `rotation.rs` | none | Lloyd-Max codebook, rotation |
| Python bindings | `turbo-graph-python/src/lib.rs` | a borrow of the wrapped index, the interpreter's lock | argument checks; `add`, `search` and `write` work without the lock |
| Stores for LangChain, LlamaIndex, Haystack, Agno | `turbo_graph/*.py` | an `IdMapIndex` and document tables | add, upsert, delete, filtered search, dump, load |

**Interaction.** Everything is calls within a process. `GraphMemoryIndex` and
`IdMapIndex` own a `TurboQuantIndex` and must mirror each of its slot moves
(`swap_remove` fills the hole with the last row) in tables of their own. The
stores own an `IdMapIndex` and mirror its ids in dictionaries. Searches take
`&self` and may run on several threads; mutations take `&mut self` and run
alone. In Python the borrow is checked at run time: a call that conflicts with
one that works without the interpreter's lock raises. Persistence goes through
files that are truncated and rewritten in place, two of them for the graph memory
and for each store.

**What is hard.** State that is derived and stored twice: slots against ids,
packed rows against the SIMD layout, a calibration against the rows that were
encoded with it, records against three inverted indexes, masks and plans
against the graph and metadata they were compiled from. None of it is
recomputed on use; each mutation must move, unindex or clear the right things.
On top of that: threads that race to fill a cache, crashes inside a write or
between two files, files of an older format, and a search that reads an index or a
table while a store is half way through a write. The correctness of each component, in a sentence:

- positional index: the arrays describe the same rows, every row is under the
  calibration and dimension a search will use, and a search never scores an
  old layout;
- stable ids: it is a map from ids to vectors, and nothing about slots shows;
- files: a complete file describes a consistent index, a torn one is refused;
- graph memory: the same map, and every cached mask or plan selects exactly
  what compiling it afresh would;
- masks: count, block counts and active blocks agree with the bits;
- graph searches: the answer is what the request means on the memory as it is,
  however old the mask, visits and plan it was put together from;
- sidecar: what one write wrote is what a load gives back;
- stores: an upsert replaces, a failed one changes nothing, and index and
  tables hold the same documents.

`PROJECT.json` lists the individual hazards under `hazards`, each at its line.

## Modules

| Module | Models | Extends or instantiates |
|---|---|---|
| `Slots` | dense slot arrays, `SwapRemove` | |
| `VectorStore` | abstract specification: a partial map from ids to vectors with one saved copy | |
| `TurboQuantIndex` | the positional index, its threads, caches and file | `Slots` |
| `IdMapIndex` | stable ids over the positional index | `TurboQuantIndex`, `VectorStore` |
| `GraphViews` | graph expansion as operators | `Slots` |
| `GraphMemory` | graph memory: tables, indexes, eight caches | `GraphViews`, `VectorStore` |
| `GraphSearch` | every search of the graph memory, prepared views, traces, presets | `GraphMemory` |
| `GraphFiles` | index file and sidecar: writes that stop, loads that compare | `GraphMemory` |
| `GraphSession` | one memory that is searched, prepared for or saved | `GraphSearch`, `GraphFiles` |
| `SlotMask` | packed masks: bits, count, block counts, active blocks, iterator | |
| `SearchKernel` | a top-k search under a mask: block lists, lane skipping, bounded heap | `SlotMask` |
| `AgnoStore` | the Agno vector database: dictionaries, upserts across an `await`, two-file saves | `Slots` |
| `Bindings` | the Python class `IdMapIndex`: borrows and the interpreter's lock | `Slots` |
| `Stores` | the LangChain, LlamaIndex and Haystack stores over the binding | `Bindings` |
| `SlotsTheorems`, `*_proofs` | lemmas and theorems | the module of their name, `TLAPS` |
| `MC*` | constants and symmetry for TLC | the module of their name |

### TurboQuantIndex

| TLA+ | Code |
|---|---|
| `dim`, `n_vectors`, `codes`, `scales`, `calib` | fields of the struct; `NoDim` is `None`, `NoCal` an empty `tqplus_shift` |
| `blocked`, `rotation` | the `OnceLock` caches; rotation, boundaries and centroids depend on `dim` alone and are one variable |
| `pc[t]` | a thread inside `search` or `prepare` (`search`, `repack`, `score`) or `write` |
| `file` | the file on disk: absent, torn, or a complete image |
| `Add`, `AddNothing` | `add_2d` with and without vectors stored, the dimension commit included |
| `SwapRemoveSlot` | `swap_remove` |
| `BeginSearch`, `FindBlocked`, `BeginRepack`, `EndRepack`, `EndSearch` | `search_with_packed_slot_mask`; `OnceLock` admits one initializer at a time |
| `BeginWrite`, `EndWrite` | `io::write`: `File::create` truncates, the payload follows |
| `Load` | `load`, `from_parts`, version 2 files included |
| `Restart` | the process dies at any point, inside a search or a write too |

A row is a pair of a vector and the calibration it was encoded with, and a
calibration is the batch it was fitted to (the empty batch is the identity).
Two calibrations are the same only if they were fitted to the same batch, which
is what tells a correct reuse from a lucky one. Scores are left out.
`Exclusive`, the guard of every mutation, is the borrow checker: `&mut self`
means no thread holds `&self`. `Torn` stands for every proper prefix of a file. That such
a file is refused is built into `Load` (`io.rs` reads exactly the lengths its header gives)
and not shown by a property; what the properties show is that an index lives on
beside it, and that a complete file of either version is believed rightly.

### IdMapIndex

Each action is an action of the inner index conjoined with its effect on
`slot_to_id` and `id_to_slot`. `allow` and `mask` remember what a running search
was asked for and the slots that became, so that `HitsAreAllowed` can say the
translation back to ids is right however long the search takes; it is so because the
borrow keeps every mutation out, and fails without `Exclusive`.

### GraphViews and GraphMemory

A mask is its length and its set of slots. A weight is the exponent of a power
of one half, so products become sums and stay exact; the heap order, the
clamping of weights above 1, the rejection of unusable ones and the three
budgets are kept. `caches` is one function from the name of a cache to its
entries; `Lookup` and `Fill` are a hit and a miss. A lookup action touches the
caches the call touches, in the combinations it does: a plan that is found
leaves the view and mask caches alone, one that is not found fills them. The
searches differ from the `*_plan` functions only in what they do with the
result, except the rerank searches, which fetch visits also on a plan hit
(`RerankSearch`), and the trace searches, which bypass the plan caches
(`TraceSearch`). Every operation takes `&mut self`, so operations are atomic.

Best-first expansion drops for good what does not fit when it is popped. So a node in a
block too many is dropped while weaker ones in open blocks are still visited, and a node
whose strongest path used up the hops is not expanded although a shorter, weaker
path would have had a hop left. `BestFirst` therefore has three parts: the order of what is
visited (`VisitsStrongestFirst`), what may be left out and why (`BudgetsAccounted`), and
the strongest paths that are found when no budget bites (`StrongestPathsFound`).

`trim_hash_map` keeps the last entries by the debug text of their key; the model
keeps some set of the right size. The metadata indexes are sets where the code
has vectors, since only membership reaches a mask.

### GraphSearch

| TLA+ | Code |
|---|---|
| `Answer`, `answer` | the report of a search; `asked` is the request it answers, `Return` hands it to the caller |
| `CandidateMask`, `CandidateScores`, `Scaled` | what a list of candidates with scores becomes: `candidate_id_mask_with_stats`, `candidate_score_mask_with_stats`, `normalize_candidate_score_map` |
| `TopSlots` | `TurboQuantIndex::search_with_slot_mask`: any best slots, as `SearchKernel` shows |
| `prefetch_k`, `HybridHits`, `Outranks` | fetching more than asked for, blending, and the order of the result |
| `SearchView` ... `SearchHybrid`, `Explain*`, `SearchTrace`, `SearchGlobal` | the search functions, each with the cache traffic of the plan it calls |
| `Prepare*`, `prepared`, `SearchPrepared*` | `prepare_graph_view*` and the searches of the two prepared types |
| `Tune` | `GraphSearchPreset::tune` |

Functions that differ only in the statistics or timings they report, or in taking
a batch of queries, are one action. A score is an integer and a path of weight one
scores `Unit`; division rounds where floating point would. A mask of another length
than the index makes a prepared search panic, so it is not a step. `current` is
history: nothing the prepared view depends on has changed since.

### GraphFiles and GraphSession

`Write` writes both files, `WriteStops` is every way a failure or a crash leaves
them, `Load` compares what `load` compares and rebuilds the metadata indexes.
`OldPairs` are pairs of files of version 1, which has neither source nor timestamp.
The field `wrote` of a file is history: the memory it came from. A crash between the two
files can leave a pair that `load` accepts although its halves are of two memories;
`WritesRestored` says what holds of the others, and `MemorySound` that even such a
memory is consistent in itself.

`GraphSession` puts searches, mutations, trims and files on one memory. A session
does one kind of thing (`Uses`): it searches views, searches under policies,
prepares and searches prepared views, or saves and loads.

### SlotMask and SearchKernel

A word is the set of its bits, and `block_counts`, `count` and `active_blocks` are
computed from words by `Rebuild` (`rebuild_counts_and_blocks`) or maintained by
`Allowed` and `Disallowed`, as in the code. `from_slots` of a short list and
`search_with_mask` are `new` followed by one `allow` per slot, which are steps of the
model. Operands of the set operations are masks that `FromSlots` built; by
`RepresentsASet` every mask has that form. A panic (slot out of range, lengths that
differ) ends the mask it was working on, so it is not a step; in `union_with_many`
the lengths are compared between the merges, so a caller that caught the panic
and kept the mask would have words merged and counts not.

A search takes given scores. `ScanLane` is one lane: `LooksAt` says whether the
kernel looks at it at all (AVX2 drops a chunk none of whose lanes beats the heap
minimum *as it was on entering the block*, AVX-512 drops single lanes of a whole
block), `MaskAllows` whether it counts. NEON writes its scores out and scans them
like the scalar kernel. The block-level guards inside the AVX-512 kernel see no mask
in any call and are left out.

### AgnoStore

| TLA+ | Code |
|---|---|
| `index`, `u64_to_doc`, `str_to_u64`, `next_u64`, `content_hashes`, `name_to_ids` | the fields of `TurboQuantVectorDb` |
| `task[t]` | a coroutine that waits for embeddings: its arguments and `old_handles` |
| `tvim`, `docstore` | the two files of `save` |
| `Insert`, `Upsert`, `Delete*`, `UpdateMetadata`, `Create`, `Drop`, `Save` | the methods of that name; without an `await` they are atomic on the event loop |
| `BeginUpsert`, `BeginInsert`, then `Finish` or `Fail` | `async_upsert`, `async_insert` up to and after the `await` |
| `Refused` | `add_with_ids` raised after handles were issued |

What a call does to the tables is a function from a record of them to another
(`Inserted`, `Removed`, `DeletedIds`), so that an upsert is an insert followed by
removals, as in the code. The index is the set of handles it holds: `IdMapIndex`
proves it is a map. A document id is the pair of base id and content hash, since
digests are taken to be unique. Handles only grow, so the order of a dictionary
is the order of its handles; where the code removes handles one by one, the
operators give the result of that order. `via` (insert or upsert), `dropped` (the store
was dropped while the call waited) and `mixed` (the tables were loaded from files of two
saves) are history. `delete()` does
nothing and returns `False`, so it has no action. `Uses` says what the program
around the store does: whether it has a path, whether it drops, how many coroutines.

### Bindings and Stores

| TLA+ | Code |
|---|---|
| `object`, `index` | which `IdMapIndex` the store holds, and its vectors |
| `adding` | an `add_with_ids` that has copied its arguments, released the lock and holds the exclusive borrow |
| `reading[r]` | a thread that searches: resolved its filter (`asked`), scores under a shared borrow (`scoring`), looks its hit up (`found`) |
| `str_to_u64`, `u64_to_str`, `docs`, `next_u64` | the fields of the stores; Haystack's `_u64_to_doc` is the last two joined |
| `call` | the write or delete under way in the thread that changes the store: `add`, then `remove` |
| `Write`, `Added`, `RemoveOne`, `Fill` | `_store_texts_and_vectors`, `add`, `write_documents`: queue, add, remove what is replaced, fill the tables |
| `Delete`, `Update`, `Clear` | the deletes, `update_by_filter`, `clear` |
| `Save`, `SaveStops`, `Load`, `Restart` | `dump`/`load`, `persist`/`from_persist_path`, `save_to_disk`/`load_from_disk` |

The three stores share their shape and differ in `ToWrite` and `Rejects`: the last
row of an id wins (LangChain), a repeated id is refused (LlamaIndex), or the policy
decides (Haystack). The index is a map from handles to vectors, which is what
`IdMapIndex` implements. A step that would take a conflicting borrow raises instead:
a write that cannot enter `add_with_ids` has used up its handles, a removal that is
refused leaves the call half done (`interrupted`). `line` and `pairing` are history:
which count of handles a file belongs to, and whether two files are of one save.

## Runs

| Run | Question | States |
|---|---|---|
| `index` | Do arrays, calibration, caches and file stay consistent under two threads, drained indexes, crashes inside a write and legacy files, and does every search return? | 435 000 |
| `id_map_safety` | Is the id-mapped index a map from ids to vectors? | 326 000 |
| `graph_views` | Do cached views, visits, metadata masks and plans always equal a fresh expansion and filter, does a budget leave out only what it has no room for, and is the memory a map from ids to vectors? | 133 000 |
| `graph_session` | Does every search answer what it was asked on the memory as it is, and does a memory come back from its files? | 1 323 000 |
| `search_topk` | Do a mask's counts describe its bits, and does each kernel return the best allowed slots? | 263 000 |
| `agno` | Do index and dictionaries agree, do coroutines with captured handles remove only what is theirs, and is a handle ever issued twice over saves that stop half way, drops, restarts and loads? | 997 000 |
| `stores` | Do tables and index of the three other stores agree, is a document ever paired with the vector of another, and does a call do what its policy promises, while another thread searches or saves stop half way? | 4 949 000 |
| `agno_upsert_race`, `agno_lost_id`, `agno_drop_race`, `stores_failed_upsert`, `stores_cleared_search` | Disagreements with docs, comments and tests: see Findings. | |

**Bounds and why they are enough.** `MinSamples` is 2 (1000 in the code, see
`TQPLUS_MIN_SAMPLES`) and batches go up to 2, so both calibration outcomes occur
first and later. Three slots are the smallest array in which a removal hits the
first, a middle and the last slot. Dimensions include 0, one that is not a
multiple of 8, and two legal ones, so a mismatch, a refused commit and the panic
after a commit all happen. Two threads show every interleaving of a filler with a
reader, or with a thread that waits for it. Every legal legacy file of
up to two rows is an initial state. Batches for the id map hold bad vectors and
repeated ids, which it must refuse whole: a refusal changes nothing, so it adds no
state, and the mutants `AddGhosts` and `AddRepeated` show what the properties say of
a code that refuses too late or not at all.

A behaviour of `graph_views` is one of four sessions (`Limits` in `MCGraphMemory`), so
that their state spaces add up and do not multiply: vectors, good and bad, under batches
of two; views of three nodes under four link calls
(a chain, a shortcut with its way back, a loop) with weights above 1, below 1 and
unusable; records and filters; and four nodes with a detour, where two hops end a
strong path early and one block of two slots drops a node that is stronger than one
visited after it. With them hop, node, block and weight budgets each
cut something. Filters combine tags, a union of sources, and a window that
starts exactly at one timestamp and ends exactly at another. Files of the memory are
checked in `graph_session`. Symmetry is used
where no definition tells the values apart (valid vectors, threads, ids of the
id map); the graph's ids are compared by the heap order and are not symmetric.

Masks of five slots with words of four and blocks of two have a word that spans
blocks, a partial word and a partial block; three scores make ties, and up to three
hits over five slots make the heap full before, at and after the end of a block.
A vector comparison covers a block there.

A session keeps one view, one policy and a chain of three nodes of which two or
three live. Its weights let a linked node outrank a nearer one, its candidate lists
hold a duplicate, an id that may be missing and a score that is not finite, one
configuration fetches nothing to spare, the preset asks for zero blocks, and the
trim keeps plans and drops visits. Sessions that save have two shapes and the
smallest memories, since a torn save pairs any two of them.

The Agno store is checked with documents of two texts, two of them of one text and
told apart by name and content id, which is what makes ids collide; three handles
are a document, one that shares its id, and one of another hash, or two
generations and a bystander. A program runs two coroutines, or drops the store with one
waiting, or saves and drops with batches of two; a restart ends coroutines anyway.

The other stores write two versions of one document, another one, and one whose
vector is refused, in batches of two: a batch repeats an id, replaces a stored
document, or both. Four handles are an upsert over an upsert. One searching thread is enough,
since readers share nothing but the borrow. Programs that save write one document
at a time; three handles and three objects are a save, a clear or restart, and
handles that start again over old files. With two handles a fourth object is allowed:
a store put together from such files, saved half way and loaded again.

**Fairness.** `index` checks the one liveness property, `SearchReturns`, and assumes
weak fairness of each thread's own steps inside a search. Repacking and scoring are
finite loops, the operating system schedules runnable threads, and `OnceLock` wakes
its waiters. Starting a search, writing, mutating and restarting are not fair.
`agno_upsert_race` and `agno_drop_race` use `FairSpec`, under which the event loop resumes
a coroutine whose embeddings have arrived; the properties would be refuted without it just
as well. The stores wait for nothing: a call that cannot borrow raises.

**Mutants.** Next to a definition stand named variations of it ("Mutant: ...")
that a plausible bug would produce: a cache left out of an invalidation, a
`Vec::remove` in place of `swap_remove`, a calibration refitted on a drained
index. Each property of a passing run is violated under one of them.

## Findings

- `async_upsert` captures the generation to replace before it awaits the embeddings
  (`agno.py:415`): two overlapping upserts of one content hash both keep their
  documents, where `test_agno.py:959` promises the contract of the sync call. Run
  `agno_upsert_race`.
- Documents of one text under one content hash share a document id, which points at
  the last one inserted. After one of them is deleted the other has no id pointing
  at it; `delete_by_content_id` and `delete_by_metadata` still find it, remove nothing
  and return `True`, where `agno.md:110` says a delete returns `True` iff something
  was removed. Run `agno_lost_id`.
- `drop` restarts the handle counter (`agno.py:181`) and does not know of an `async_upsert`
  that waits with handles of the old table. After a `create` these are issued again, to
  entries of any content hash or to the call itself, and the call removes them when it
  resumes, where `test_agno.py:592` says an upsert "leaves existing entries alone" under
  another hash. Run `agno_drop_race`.
- An upsert of the LangChain store adds the new vectors and then removes the
  documents it replaces one by one: `delete` takes a document out of three tables and
  only then calls `remove` (`langchain.py:434`), which raises while a search of another
  thread borrows the index. The old document is gone, the new one never entered, and
  both vectors stay. The comment at `langchain.py:212` says "a failed upsert never
  destroys existing data", and `api.md:174` that searches may overlap. The other two
  stores remove in the same order. Run `stores_failed_upsert`.

- `clear` of the LlamaIndex store makes a new index and restarts the handle counter
  (`llama_index.py:258`). A query that searched the old index looks its handles up in the
  new tables (`llama_index.py:514`), so after an `add` it can return the new node with the
  score of the old one: the outcome that `test_llama_index.py:1189` describes as "silently
  returning the second node's payload attached to the first node's vector".
  `llama_index.md:88` calls a cleared store immediately usable for new adds. Run
  `stores_cleared_search`. `OwnVectors` leaves out such a query (`ClearedUnder`) and nothing
  else that a search under way may meet.

Seen while modelling, without a run of their own: `add_2d` with an empty batch commits the
dimension of a lazy index (`lib.rs:382`): validation of no vectors succeeds, `dim` is set,
and `add` returns because `n == 0`. The comment at `lib.rs:366` says the code avoids
exactly this state, "a committed dim and no vectors". `_remove_handle` keeps a
name while any document has the id (`agno.py:450`), so a renamed document still
answers to its old name. `agno.md:107` calls `delete()` an alias for `drop()` that returns
`True`; the code returns `False` and does nothing, as its docstring says.

## Proofs

TLAPS proves the following for every set of vectors, ids, documents, threads,
dimensions, keys and filters, and every bound, from the assumptions named in the
modules (`ConstantsOK`, `NoCalOK`, `MarkersOK`, `GraphConstantsOK`,
`SearchConstantsOK`, `FilesConstantsOK`, `SessionConstantsOK`, `StoreConstantsOK`,
`AgnoConstantsOK`, `MaskConstantsOK`, `KernelConstantsOK`): marker values differ from what
they mark, constructors take legal dimensions, keys, records, requests and documents have
their types, words, blocks and chunks hold at least one slot, and a file that an earlier
version left is what a write made of a memory it may have had.

- `Index_proofs`: first all invariants of `index` and its action property.
  The inductive invariant `IInv` is their conjunction with `CalibratedRows` (stored
  rows imply a committed calibration): no scored layout is current without the
  cached one being current, nor `OneCalibration` without `FileSound`, since a load
  brings back what the file holds.
  Then the ids: that invariant is reused (each step of the outer specification is a step
  of the inner one), `TablesInverse` and `HitsAreAllowed` are inductive over it, and
  `Refinement` shows that every step is a step or a stutter of `VectorStore`.
- `GraphViews_proofs`: what an expansion computes, for every finite graph and every key.
  The hop-limited one is a recursive function of the hops, so `ReachIsWalked` is an
  induction over a set of naturals. The budgeted one is a loop over heap and visits:
  `VisitInduction` says that what a turn keeps holds of its result (the turns run out
  because each visits a new id or shortens the heap), and one such fact each gives that ids are
  visited once, in order (`VisitsOrdered`), seeds first among their equals, and along edges
  from earlier visits (`VisitsParented`). `StrongestVisited` is Dijkstra's theorem for this
  heap, with the code's hop limit in it: what is visited was relaxed (`PoppedRelaxed`),
  what is in the heap or visited was walked to (`PoppedWalked`), and a lighter walk
  always has a frontier in the heap that pops first (`ReachedIsFound`). `VisitsBudgeted` says
  what becomes of the others when budgets bite: the loop keeps that every seed and every
  usable edge of a visit with a hop left is visited, queued or cut off (`Owed`). An item
  that is dropped has been visited or finds all blocks taken (`DroppedIsOwed`); once they
  are, no visit opens another, so what is cut off stays so (`CutOffPersists`); and what is
  queued at the end met the budget of nodes (`OwedIsAccounted`).
- `GraphMemory_proofs`: `MemoryIsAStore` shows that the graph memory, whose swap
  removals `VectorStore` does not see, implements it; then types, `MemorySound`, and
  `NoStaleCache`: every entry of all eight caches equals what the operators
  would compute now. That is the strengthening the separate caches need: a plan
  is current only because the view, the visits and the masks it was built from
  were. With `GraphViews_proofs` it gives what a caller is promised: `ViewsStayCurrent`
  (paths in today's graph), `PolicyViewsStayCurrent`, `PlansStayCurrent` (today's records,
  and the counts of the plan's steps), `MetadataMasksStayCurrent`, and
  `ExpansionIsBestFirst`. Nothing but caches depends on the keys of queries, so what
  is proved of the tables holds for any caller; the keys' types enter with `KeysStayKept`.
- `GraphSession_proofs`: everything `graph_session` checks. The inductive invariant has three
  parts. `IInv` of `GraphMemory_proofs` carries over, since a search changes caches only
  (`QueryStepsKeep`), and a load of two files that agree makes it true of the new memory
  (`LoadKeeps`), also when they are of different writes. `FilesInv` says that a readable file
  is what some write made of some memory; with `SessionStaysSound` it gives
  `WritesStayRestored`, because the checks of `load` hold of every such memory. `SearchInv`
  says of a prepared view (`PreparedInv`) that it selects what it should until something it
  depends on changes, which is `PreparedStaysCurrent`, and of the last report (`AnswerInv`)
  that it was made as the code makes it from a mask that selects the wanted ids of today
  (`WellAnswered`): by then it no longer matters which caches, filled when, the search
  was put together from. The other properties follow from `WellAnswered` by lemmas about
  ranking: `TopSlotsAre` (what the index returns), `PrefetchIs` (how many slots are
  fetched), `OutranksOrders` and `PlacedInOrder` (a finite set of hits with distinct ids has
  one ranking), `HybridHitsAre` and `PathsCover` (every slot of a current mask has a
  path, so that none is dropped). So `HitsStayLive`, `AnswersStayWanted`, `BlendStaysBest` and,
  with `PresetsVisit` (`Tune` never gives a budget of nothing, `SeedsVisited` does the
  rest), `TracesStayExplained`. `NormalizationStaysLocal` adds that narrowing by the wanted
  part of a list gives the same mask, and that only scores inside the mask enter the scale
  (`ScaledLocally`).
- `Stores_proofs`: `SearchStaysUndisturbed` from `BorrowInv` (a search borrows an object
  that exists, and while it does nobody holds the exclusive borrow);
  `TablesStayInStep` and `CallsDoAsPromised` from `StoresInv`. It says what a write
  knows between its steps: its queue follows the policy over the tables as they were
  (`WriteInv`), its handles are in the index and not yet in the tables (`Written`), and what
  is gone from the tables is what the call takes out (`RemovalInv`); and that a side-car on
  disk describes a store of this kind (`ImageInv`), since a load brings it back. The
  lemmas before it show that `Keeping`, which picks rows by their rank, picks each
  kept row once, so that a queue has every id once with the row that wins.
  `OwnVectorsKept` is from `OwnInv`, beside `StoresInv` and `BorrowInv`. It names its two
  exceptions: files of a foreign count of handles, and a query over `clear`.
  It tells a count of handles from the next: what the tables say of the index, the
  side-car on disk says of the index file on disk (`FilesOwn`) and of the index in memory
  (`SideCarOwn`) while both continue one count, because a write fills only handles above
  the counter that was saved (`CountInv`); and a hit is in the index as it was
  found or its handle is gone for good (`HitInv`). `StoresTypeCorrect` adds what the two
  files hold (`TypesInv`).
- `AgnoStore_proofs`: `AgnoTypeCorrect`, `HandlesStayMatched`, `LookupsStayTrue` and
  `HandlesStayFresh` from `AgnoInv`: the dictionaries agree with the documents they are
  kept beside, in memory and in any file (`TableInv`); the index holds their handles
  unless files of two saves were mixed; what a save leaves can be loaded (`FileInv`). A
  batch is treated as the code treats it, one document after another, so the lemmas say
  which of its rows an id ends at. `GenerationsStayApart` adds `OldInv`: a waiting call holds
  issued handles whose documents, while there, have its hash, unless the store was dropped
  under it. It assumes nothing of the program around the store; the one call left out is
  that of `agno_drop_race`.
- `SearchKernel_proofs`: `MasksAreSets`, `IterationIsExact`, `SearchesAreExact` and
  `TypesCorrect` from `SystemInv`, whatever the word and block sizes. `MaskInv` relates
  words, counts and block list to the set of allowed slots; the lemmas before it do the
  arithmetic of words and blocks (`BitsAreSlots`: counting word by word, cut at both ends,
  counts the slots of the range) and show that the sorted insertions and removals keep
  the list sorted. `IterInv` adds that what was returned is what the iterator has passed
  and that the rest of its word is the word's highest bits. `SearchInv` adds that the heap holds the best k of
  the allowed slots seen so far (`Best`) and that a threshold read earlier is never above
  the heap's minimum (`Below`), which is why a skipped lane could not have entered
  the heap (`SkippedBest`). At the end every allowed slot was seen, so the heap is full.
- `SlotsTheorems`: type, length and content of `SwapRemove`; ranks, the greatest and the
  least of a finite set of positions.

Only model-checked: `SearchReturns`, a liveness property under fairness, which TLAPS does not
prove; and the violations that the findings report, since what they show is a behaviour.
Every invariant and every other temporal property of a passing run is stated by a theorem.

What is proved holds of the models. Where those bound something for TLC (numbers of
hits, weights, candidate lists, seeds, batches) the theorems take any set that satisfies
the assumption of the module, but two abstractions are the same for both: scores are
integers, so nothing is said about rounding, and the index returns some best slots of a
mask, which `SearchesAreExact` proves of the kernel apart.

## Not modelled

- Floating point: codebook, rotation, quantization, SIMD scoring and the values of
  scores; the process-wide counter of skipped blocks.
- Byte layouts and magic numbers of the files.
- Reports: titles, counters of cache hits, timings, formatting, and the cache budget a
  preset derives.
- Python: the classes `TurboQuantIndex` and `GraphMemoryIndex` borrow like `IdMapIndex`;
  their conversions keep no state. Searches of the Agno store only read.
- Several threads that change one store: each resolves duplicates before the lock is
  released and fills the tables after, so two writers of one id interfere; no
  document promises otherwise.
- Benchmarks, examples and scripts are not part of the system.

## Plan

1. Files as prefixes of what a write streams, so that the refusal of a torn one follows
   from the reads of `io.rs`.
2. The searches of the Agno store, which check the index before an `await`.
3. Several writers of one store, whose duplicate checks the lock does not protect.
