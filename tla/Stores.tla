------------------------------- MODULE Stores -------------------------------
(***************************************************************************)
(* The LangChain, LlamaIndex and Haystack stores                           *)
(* (turbo-graph-python/python/turbo_graph/langchain.py, llama_index.py,    *)
(* haystack.py): documents in dictionaries beside an IdMapIndex, upserts   *)
(* that add before they remove, and saves of two files.  One thread        *)
(* changes the store; between its calls into the index, and while an add   *)
(* works without the interpreter's lock, other threads search.             *)
(*                                                                         *)
(* Abstractions.  The three stores differ in how they treat duplicates, in *)
(* clear, and in update_by_filter.  Haystack's _u64_to_doc is u64_to_str   *)
(* joined with docs.  An embedding is given with its document.  Popping a  *)
(* document and removing its vector is one step: a reader that gets in     *)
(* between does what it could have done before.  Documents go in any       *)
(* order.  A call that is refused before it issues handles is left out.    *)
(***************************************************************************)
EXTENDS Bindings

CONSTANTS
  Kinds,       \* among "langchain", "llama_index", "haystack"
  Documents,   \* bound: [id, vector, meta] a caller may pass
  Uses,        \* by use of a store: whether the program saves it (and starts
               \* over), whether other threads search it, the documents it writes
               \* and the metadata it sets, and bounds on the documents per call,
               \* the handles issued and the index objects created
  NoFile, Torn

ASSUME StoreConstantsOK ==
  /\ Kinds \subseteq {"langchain", "llama_index", "haystack"}
  /\ \A d \in Documents : DOMAIN d = {"id", "vector", "meta"} /\ d.vector \in Vectors
  /\ \A u \in DOMAIN Uses : /\ Uses[u].saves \in BOOLEAN /\ Uses[u].searches \in BOOLEAN
                            /\ Uses[u].documents \subseteq Documents
                            /\ Uses[u].batch \in Nat /\ Uses[u].objects \in Nat
                            /\ Uses[u].handles \in 0..MaxHandle

VARIABLES
  str_to_u64,   \* partial function from document ids to handles
  u64_to_str,   \* partial function from handles to document ids
  docs,         \* partial function from document ids to documents
  next_u64,     \* the last handle issued
  call,         \* Free, or the call of the thread that changes the store
  tvim, store_file,  \* the two files: NoFile, Torn, or what was written
  line,         \* history: which count of handles the store continues
  pairing,      \* history: "same", "sibling" or "foreign": how the two files
                \* a store was loaded from belong together
  interrupted,  \* history: a removal was refused
  kind, use     \* fixed

tables == <<str_to_u64, u64_to_str, docs>>
files == <<tvim, store_file>>
history == <<line, pairing, interrupted>>
vars == <<bindingVars, tables, next_u64, call, files, history, kind, use>>

Free == [stage |-> "free"]

Batches == UNION {[1..n -> Uses[use].documents] : n \in 1..Uses[use].batch}
IdsOf(batch) == {batch[n].id : n \in DOMAIN batch}

-----------------------------------------------------------------------------
\* Duplicates.

\* Policies of write_documents; the other stores have one way.  Haystack's NONE
\* is FAIL.
Policies == IF kind = "haystack" THEN {"fail", "skip", "overwrite"} ELSE {"overwrite"}

IsFirst(batch, n) == \A m \in 1..(n - 1) : batch[m].id # batch[n].id
IsLast(batch, n) == \A m \in (n + 1)..Len(batch) : batch[m].id # batch[n].id
LastOf(batch, i) == batch[CHOOSE n \in DOMAIN batch : batch[n].id = i /\ IsLast(batch, n)]
FirstOf(batch, i) == batch[CHOOSE n \in DOMAIN batch : batch[n].id = i /\ IsFirst(batch, n)]

\* The documents at the positions that are kept, in order.
Keeping(batch, kept) ==
  [n \in 1..Cardinality(kept) |->
     batch[CHOOSE m \in kept : Cardinality({l \in kept : l <= m}) = n]]

\* Mutants: every row is kept; the first of several wins.
KeepEveryRow(batch) == batch
KeepFirst(batch) == Keeping(batch, {n \in DOMAIN batch : IsFirst(batch, n)})

\* _store_texts_and_vectors keeps the last row of an id.
Deduplicated(batch) == Keeping(batch, {n \in DOMAIN batch : IsLast(batch, n)})

\* write_documents: a repeated id is skipped, or replaces the document that is
\* queued under it.
Queued(batch, policy) ==
  LET old == IF policy = "skip" THEN DOMAIN str_to_u64 ELSE {}
      queue == Keeping(batch, {n \in DOMAIN batch : IsFirst(batch, n) /\ batch[n].id \notin old})
  IN  IF policy = "skip" THEN queue
      ELSE [n \in DOMAIN queue |-> LastOf(batch, queue[n].id)]

\* add raises for a repeated id, write_documents with FAIL also for an id that is
\* stored.
Rejects(batch, policy) ==
  \/ kind = "llama_index" /\ \E n \in DOMAIN batch : ~IsFirst(batch, n)
  \/ policy = "fail" /\ \E n \in DOMAIN batch :
       ~IsFirst(batch, n) \/ batch[n].id \in DOMAIN str_to_u64

ToWrite(batch, policy) ==
  CASE kind = "langchain" -> Deduplicated(batch)
    [] kind = "llama_index" -> batch
    [] kind = "haystack" -> Queued(batch, policy)

-----------------------------------------------------------------------------
\* The thread that changes the store.

\* Mutants: the counter is read before it is raised; handles are counted by the
\* documents that are there.
HandleBefore(n) == next_u64 + n - 1
HandlePerDocument(n) == Cardinality(DOMAIN docs) + n

\* _issue_handle, for the n-th document of a call.
IssuedHandle(n) == next_u64 + n

\* add_texts, add and write_documents up to add_with_ids.  If the index is
\* borrowed the call raises, with its handles used up.
Write(batch, policy) ==
  /\ call = Free /\ ~Rejects(batch, policy)
  /\ LET queue == ToWrite(batch, policy)
         pairs == [n \in DOMAIN queue |-> <<IssuedHandle(n), queue[n].vector>>]
     IN  /\ queue # << >>
         /\ next_u64 + Len(queue) <= Uses[use].handles
         /\ next_u64' = next_u64 + Len(queue)
         /\ \/ /\ EnterAdd(pairs)
               /\ call' = [op |-> "write", stage |-> "add", asked |-> batch, policy |-> policy,
                           queue |-> queue, handles |-> [n \in DOMAIN pairs |-> pairs[n][1]],
                           todo |-> {}, before |-> docs]
            \/ Borrowed /\ UNCHANGED <<bindingVars, call>>
  /\ UNCHANGED <<tables, files, history>>

\* add_with_ids returns: with an error, which ends the call, or with the vectors
\* added, and the documents they replace are looked up.
Added ==
  /\ call.stage = "add"
  /\ AddReturns
  /\ call' = IF Acceptable(adding)
             THEN [call EXCEPT !.stage = "remove", !.todo = IdsOf(call.queue) \cap DOMAIN str_to_u64]
             ELSE Free
  /\ UNCHANGED <<tables, next_u64, files, history>>

\* delete, delete_nodes, delete_documents, delete_by_filter and
\* delete_all_documents, once it is clear which documents go.
Delete(ids) ==
  /\ call = Free
  /\ call' = [op |-> "delete", stage |-> "remove", todo |-> ids, before |-> docs, asked |-> ids]
  /\ UNCHANGED <<bindingVars, tables, next_u64, files, history>>

\* delete, _remove_node_by_id and _remove_one: the tables forget the document,
\* then its vector goes, unless a search borrows the index: that raises.
RemoveOne(i) ==
  /\ call.stage = "remove" /\ i \in call.todo
  /\ LET h == str_to_u64[i]
     IN  /\ str_to_u64' = [j \in DOMAIN str_to_u64 \ {i} |-> str_to_u64[j]]
         /\ u64_to_str' = [g \in DOMAIN u64_to_str \ {h} |-> u64_to_str[g]]
         /\ docs' = [j \in DOMAIN docs \ {i} |-> docs[j]]
         /\ \/ /\ Remove(h)
               /\ call' = [call EXCEPT !.todo = @ \ {i}]
               /\ UNCHANGED interrupted
            \/ /\ Borrowed
               /\ call' = Free /\ interrupted' = TRUE
               /\ UNCHANGED bindingVars
  /\ UNCHANGED <<next_u64, files, line, pairing>>

Removed == call.stage = "remove" /\ call.todo = {}

\* The end of a write: the tables learn the new documents.
Fill ==
  /\ Removed /\ call.op = "write"
  /\ LET handle == [i \in IdsOf(call.queue) |->
                      call.handles[CHOOSE n \in DOMAIN call.queue :
                                     call.queue[n].id = i /\ IsLast(call.queue, n)]]
         new == Elements(call.handles)
     IN  /\ str_to_u64' = [i \in DOMAIN str_to_u64 \cup DOMAIN handle |->
                             IF i \in DOMAIN handle THEN handle[i] ELSE str_to_u64[i]]
         /\ u64_to_str' = [h \in DOMAIN u64_to_str \cup new |->
                             IF h \in new THEN call.queue[PositionIn(call.handles, h)].id
                             ELSE u64_to_str[h]]
         /\ docs' = [i \in DOMAIN docs \cup DOMAIN handle |->
                       IF i \in DOMAIN handle THEN LastOf(call.queue, i) ELSE docs[i]]
  /\ call' = Free
  /\ UNCHANGED <<bindingVars, next_u64, files, history>>

\* The end of a delete.
Deleted ==
  /\ Removed /\ call.op = "delete"
  /\ call' = Free
  /\ UNCHANGED <<bindingVars, tables, next_u64, files, history>>

\* update_by_filter
Update(ids, m) ==
  /\ call = Free /\ kind = "haystack"
  /\ docs' = [i \in DOMAIN docs |-> IF i \in ids THEN [docs[i] EXCEPT !.meta = m] ELSE docs[i]]
  /\ UNCHANGED <<bindingVars, str_to_u64, u64_to_str, next_u64, call, files, history>>

\* A store without documents that counts its handles from the start.
Empty ==
  /\ Replace(EmptyFn)
  /\ str_to_u64' = EmptyFn /\ u64_to_str' = EmptyFn /\ docs' = EmptyFn /\ next_u64' = 0
  /\ line' = object' /\ pairing' = "same" /\ interrupted' = FALSE

\* clear: searches under way keep the index they borrowed.
Clear ==
  /\ call = Free /\ kind = "llama_index"
  /\ Empty
  /\ UNCHANGED <<reading, call, files>>

-----------------------------------------------------------------------------
\* Threads that search.

\* similarity_search, query and embedding_retrieval up to the index: nothing
\* to search, or the handles of the documents a filter selects.
Ask(r, allow) ==
  /\ reading[r] = Resting
  /\ IF kind = "haystack" THEN DOMAIN str_to_u64 # {} ELSE ~Exclusive /\ DOMAIN index # {}
  /\ reading' = [reading EXCEPT ![r] = [stage |-> "asked", allow |-> allow]]
  /\ UNCHANGED <<object, index, adding, tables, next_u64, call, files, history>>

\* Their end: the document the tables have for the hit, or none, which raises.
Answer(r) ==
  /\ reading[r].stage = "found"
  /\ reading' = [reading EXCEPT ![r] = Resting]
  /\ UNCHANGED <<object, index, adding, tables, next_u64, call, files, history>>

Searching(r) ==
  \/ \E allow \in (SUBSET DOMAIN u64_to_str \ {{}}) \cup {Anything} : Ask(r, allow)
  \/ (EnterSearch(r) \/ SearchReturns(r)) /\ UNCHANGED <<tables, next_u64, call, files, history>>
  \/ Answer(r)

-----------------------------------------------------------------------------
\* Files.

\* The index.  The other two are history.
IndexImage == [index |-> index, line |-> line, pairing |-> pairing]

\* Mutant: the counter is left out.
ImageWithoutCounter ==
  [str_to_u64 |-> str_to_u64, docs |-> docs, next_u64 |-> 0,
   line |-> line, index |-> index, pairing |-> pairing, interrupted |-> interrupted]

\* The side-car.  The last four are history.
StoreImage ==
  [str_to_u64 |-> str_to_u64, docs |-> docs, next_u64 |-> next_u64,
   line |-> line, index |-> index, pairing |-> pairing, interrupted |-> interrupted]

\* dump, persist and save_to_disk: the index, then the side-car.
Save ==
  /\ call = Free
  /\ tvim' = IndexImage /\ store_file' = StoreImage
  /\ UNCHANGED <<bindingVars, tables, next_u64, call, history>>

\* A save that stops: in the index, before the side-car, or in it (the process
\* dies, or a value cannot be serialized).
SaveStops ==
  /\ call = Free
  /\ \/ tvim' = Torn /\ UNCHANGED store_file
     \/ tvim' = IndexImage /\ store_file' \in {store_file, Torn}
  /\ UNCHANGED <<bindingVars, tables, next_u64, call, history>>

\* How two files belong together: of one save, of two saves of a count of
\* handles, of two counts.
PairingOf(t, s) ==
  IF t.line # s.line \/ t.pairing = "foreign" THEN "foreign"
  ELSE IF t.index # s.index /\ s.pairing = "same" THEN "sibling"
  ELSE s.pairing

\* load, from_persist_path and load_from_disk: a store of its own, put together
\* from both files without comparing them.
Load ==
  /\ call = Free /\ \A r \in Readers : reading[r] = Resting
  /\ {NoFile, Torn} \cap {tvim, store_file} = {}
  /\ Replace(tvim.index)
  /\ str_to_u64' = store_file.str_to_u64 /\ docs' = store_file.docs
  /\ u64_to_str' = [h \in {store_file.str_to_u64[i] : i \in DOMAIN store_file.str_to_u64} |->
                      CHOOSE i \in DOMAIN store_file.str_to_u64 : store_file.str_to_u64[i] = h]
  /\ next_u64' = store_file.next_u64
  /\ line' = store_file.line
  /\ pairing' = PairingOf(tvim, store_file)
  /\ interrupted' = store_file.interrupted
  /\ UNCHANGED <<reading, call, files>>

\* The process dies, or the program starts over, with a store of its own.
Restart ==
  /\ Empty
  /\ call' = Free /\ reading' = [r \in Readers |-> Resting]
  /\ UNCHANGED files

-----------------------------------------------------------------------------

Init ==
  /\ BindingsInit
  /\ str_to_u64 = EmptyFn /\ u64_to_str = EmptyFn /\ docs = EmptyFn /\ next_u64 = 0
  /\ call = Free
  /\ tvim = NoFile /\ store_file = NoFile
  /\ line = 1 /\ pairing = "same" /\ interrupted = FALSE
  /\ kind \in Kinds /\ use \in DOMAIN Uses

Changing ==
  \/ \E batch \in Batches, policy \in Policies : Write(batch, policy)
  \/ Added \/ Fill \/ Deleted
  \/ \E i \in DOMAIN docs : RemoveOne(i)
  \/ \E ids \in SUBSET DOMAIN docs : Delete(ids) \/ \E m \in Uses[use].metas : Update(ids, m)
  \/ Clear

Next ==
  /\ \/ Changing
     \/ Uses[use].searches /\ \E r \in Readers : Searching(r)
     \/ Uses[use].saves /\ (Save \/ SaveStops \/ Load \/ Restart)
  /\ object' <= Uses[use].objects
  /\ UNCHANGED <<kind, use>>

Spec == Init /\ [][Next]_vars

-----------------------------------------------------------------------------
\* Properties.

DocIds == {d.id : d \in Documents}

TypeOK ==
  /\ DOMAIN index \subseteq Handles
  /\ \A h \in DOMAIN index : index[h] \in Vectors \ BadVectors
  /\ DOMAIN str_to_u64 \subseteq DocIds /\ DOMAIN docs = DOMAIN str_to_u64
  /\ DOMAIN u64_to_str \subseteq Handles
  /\ next_u64 \in 0..MaxHandle
  /\ \A r \in Readers : reading[r].stage \in {"resting", "asked", "scoring", "found"}
  /\ call # Free => call.stage \in {"add", "remove"} /\ call.todo \subseteq DOMAIN docs

\* Ids and handles are inverse, and every document has its vector.  Between
\* calls no vector is without a document, unless a removal was refused.  Files
\* of different saves are the one way out.
TablesAgree ==
  /\ DOMAIN u64_to_str = {str_to_u64[i] : i \in DOMAIN str_to_u64}
  /\ \A i \in DOMAIN str_to_u64 : u64_to_str[str_to_u64[i]] = i
  /\ pairing = "same" =>
       /\ DOMAIN u64_to_str \subseteq DOMAIN index
       /\ call = Free /\ ~interrupted => DOMAIN index = DOMAIN u64_to_str
       /\ \A h \in DOMAIN index : h <= next_u64

\* A query of LlamaIndex whose hit comes from the index that clear() replaced.
ClearedUnder(hit) == kind = "llama_index" /\ hit.object # object

\* A document is never paired with the vector of another: neither in the tables,
\* even if a save that stopped left files of different age, nor by a search
\* whose hit is looked up after other calls.  There are two ways out: a count of
\* handles that started again over old files, and a query over clear(), which
\* starts the count again under it (HitsNameTheirDocument below).  Searches of
\* the other two stores have neither of their own.
OwnVectors ==
  pairing # "foreign" =>
    /\ \A h \in DOMAIN u64_to_str \cap DOMAIN index : index[h] = docs[u64_to_str[h]].vector
    /\ \A r \in Readers :
         LET hit == reading[r]
         IN  hit.stage = "found" /\ hit.handle \in DOMAIN u64_to_str /\ ~ClearedUnder(hit)
             => docs[u64_to_str[hit.handle]].vector = hit.vector

\* No query returns one node's payload attached to another node's vector
\* (test_llama_index.py:1189), also when other calls come between its search and
\* the lookup of what it found.
HitsNameTheirDocument ==
  \A r \in Readers :
    LET hit == reading[r]
    IN  hit.stage = "found" /\ hit.handle \in DOMAIN u64_to_str
        => docs[u64_to_str[hit.handle]].vector = hit.vector

\* Reference: what writing a batch document by document into a dictionary gives.
Promised(c) ==
  [i \in DOMAIN c.before \cup IdsOf(c.asked) |->
     IF i \notin IdsOf(c.asked) \/ (c.policy = "skip" /\ i \in DOMAIN c.before) THEN c.before[i]
     ELSE IF c.policy = "skip" THEN FirstOf(c.asked, i)
     ELSE LastOf(c.asked, i)]

\* A write that returns has done what its policy promises and a delete has taken
\* the documents it was asked to; a write that the index refused has changed
\* nothing.
CallsAsPromised ==
  [][/\ Fill => docs' = Promised(call)
     /\ Deleted => docs' = [i \in DOMAIN call.before \ call.asked |-> call.before[i]]
     /\ Added /\ call' = Free => UNCHANGED <<tables, index>>]_vars

\* A failed upsert never destroys existing data (langchain.py:212): a write that
\* ends without its documents in the tables leaves those that were there.
FailedUpsertKeeps ==
  [][call # Free /\ call.op = "write" /\ call' = Free /\ object' = object /\ ~Fill =>
       DOMAIN call.before \subseteq DOMAIN docs']_vars

=============================================================================
