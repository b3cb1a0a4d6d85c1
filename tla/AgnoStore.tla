------------------------------ MODULE AgnoStore ------------------------------
(***************************************************************************)
(* The Agno vector database                                                *)
(* (turbo-graph-python/python/turbo_graph/agno.py): documents in           *)
(* dictionaries beside an id-mapped index, upserts that insert before they *)
(* remove, and coroutines that wait for embeddings while other calls run.  *)
(* Calls without an await are atomic on the event loop.                    *)
(*                                                                         *)
(* Abstractions.  The index is the set of handles it holds (IdMapIndex has *)
(* the rest).  A document is its base id (doc.id or the digest of its      *)
(* text), name, content id and metadata; digests do not collide.  Handles  *)
(* grow, so the order of a dictionary is the order of its handles.         *)
(***************************************************************************)
EXTENDS Integers, FiniteSets, Slots

CONSTANTS
  Documents,    \* [base, name, content_id, meta] a caller may pass
  Facts,        \* metadata is the set of key/value pairs that hold, all of
                \* different keys
  Names, NoName,
  ContentIds,
  Hashes,       \* content hashes
  Tasks,        \* coroutines
  Uses,         \* by use of a store: whether it has a path to save to, whether
                \* the program drops it, and bounds on the coroutines that wait
                \* at once, the hashes stored and the documents per call
  MaxHandle,    \* bound: handles issued
  NoIndex, Idle, NoFile, Torn

ASSUME AgnoConstantsOK ==
  /\ \A d \in Documents : /\ d.name \in Names \cup {NoName}
                          /\ d.content_id \in ContentIds
                          /\ d.meta \subseteq Facts
  /\ NoName \notin Names
  /\ \A u \in DOMAIN Uses :
       Uses[u] \in [path : BOOLEAN, drop : BOOLEAN, tasks : Nat, hashes : Nat, batch : Nat]
  /\ MaxHandle \in Nat

\* An index that is there is not the marker for none.
ASSUME MarkersOK == \A handles \in SUBSET (1..MaxHandle) : NoIndex # handles

VARIABLES
  index,           \* _index: handles in the IdMapIndex, or NoIndex
  u64_to_doc,      \* partial function from handles to stored documents
  str_to_u64,      \* partial function from document ids to handles
  next_u64,        \* the last handle issued
  content_hashes,  \* hashes some document was stored under
  name_to_ids,     \* pairs <<name, document id>>
  task,            \* per coroutine: the call that waits for embeddings, or Idle
                   \* (its field dropped is history: the store was dropped
                   \* while the call waited)
  tvim, docstore,  \* the two files of a save: NoFile, Torn, or a payload
  mixed,           \* history: the tables came from files of different saves
  use              \* fixed: what the store is used for

tables == <<index, u64_to_doc, str_to_u64, next_u64, content_hashes, name_to_ids>>
files == <<tvim, docstore>>
vars == <<tables, task, files, mixed, use>>

Handles == 1..MaxHandle
Batches == UNION {[1..n -> Documents] : n \in 0..Uses[use].batch}
EmptyMap == [x \in {} |-> NoFile]

\* _derive_doc_id
DocId(d, hash) == <<d.base, hash>>
\* What is stored; via is history: which call stored it.
Stored(d, hash, via) == [id |-> DocId(d, hash), name |-> d.name, content_id |-> d.content_id,
                         meta |-> d.meta, hash |-> hash, via |-> via]

\* The documents that remain when some handles go.
Without(docs, gone) == [h \in DOMAIN docs \ gone |-> docs[h]]

HashesOf(docs) == {docs[h].hash : h \in DOMAIN docs}

\* Mutant: a document without a name is listed too.
LinksAlways(docs, hs) == {<<docs[h].name, docs[h].id>> : h \in hs}

\* Name and id of the documents that have a name.
LinksOf(docs, hs) == {<<docs[h].name, docs[h].id>> : h \in {h \in hs : docs[h].name # NoName}}

\* Mutant: every document counts as the old generation.
EveryHandle(docs, hash) == DOMAIN docs

\* _handles_for_content_hash
HandlesUnder(docs, hash) == {h \in DOMAIN docs : docs[h].hash = hash}

\* The handle that was issued last among those of a document id.
IsLatest(docs, h) == \A g \in DOMAIN docs : docs[g].id = docs[h].id => g <= h
Latest(docs) ==
  [i \in {docs[h].id : h \in DOMAIN docs} |->
     CHOOSE h \in DOMAIN docs : docs[h].id = i /\ IsLatest(docs, h)]

-----------------------------------------------------------------------------
\* What one call does to the tables, as functions of a record of them, so
\* that an upsert can be an insert followed by removals.

Now == [index |-> index, docs |-> u64_to_doc, ids |-> str_to_u64, next |-> next_u64,
        hashes |-> content_hashes, names |-> name_to_ids]

Become(t) ==
  /\ index' = t.index /\ u64_to_doc' = t.docs /\ str_to_u64' = t.ids
  /\ next_u64' = t.next /\ content_hashes' = t.hashes /\ name_to_ids' = t.names

\* insert: one handle per document.
Inserted(t, hash, ds, via) ==
  LET new == {t.next + i : i \in 1..Len(ds)}
      docs == [h \in DOMAIN t.docs \cup new |->
                 IF h \in new THEN Stored(ds[h - t.next], hash, via) ELSE t.docs[h]]
      fresh == {docs[h].id : h \in new}
      latest == Latest([h \in new |-> docs[h]])
  IN  [index |-> t.index \cup new,
       docs |-> docs,
       ids |-> [i \in DOMAIN t.ids \cup fresh |-> IF i \in fresh THEN latest[i] ELSE t.ids[i]],
       next |-> t.next + Len(ds),
       hashes |-> IF ds = << >> THEN t.hashes ELSE t.hashes \cup {hash},
       names |-> t.names \cup LinksOf(docs, new)]

\* The ids that point at none of some handles.
Pointing(ids, gone) == [i \in {i \in DOMAIN ids : ids[i] \notin gone} |-> ids[i]]

\* Mutants: the vectors stay; ids keep pointing at what went; a hash goes
\* with the first of its documents.
MinusVectorsStay(t, gone, links) ==
  [t EXCEPT !.docs = Without(@, gone), !.ids = Pointing(@, gone),
            !.hashes = @ \cap HashesOf(Without(t.docs, gone)), !.names = @ \ links]
MinusIdsStay(t, gone, links) ==
  [t EXCEPT !.index = @ \ gone, !.docs = Without(@, gone),
            !.hashes = @ \cap HashesOf(Without(t.docs, gone)), !.names = @ \ links]
MinusWholeHash(t, gone, links) ==
  [t EXCEPT !.index = @ \ gone, !.docs = Without(@, gone), !.ids = Pointing(@, gone),
            !.hashes = @ \ HashesOf(Without(t.docs, DOMAIN t.docs \ gone)), !.names = @ \ links]

\* Some handles and links go.  A hash goes with the last of its documents.
Minus(t, gone, links) ==
  LET docs == Without(t.docs, gone)
  IN  [t EXCEPT !.index = @ \ gone, !.docs = docs, !.ids = Pointing(@, gone),
                !.hashes = {c \in @ : c \in HashesOf(t.docs) => c \in HashesOf(docs)},
                !.names = @ \ links]

\* Mutant: the name goes with the first handle of its document id.
RemovedWithNames(t, hs) ==
  Minus(t, hs \cap DOMAIN t.docs, LinksOf(t.docs, hs \cap DOMAIN t.docs))

\* _remove_handle for each handle in turn: a name keeps its link while some
\* handle, of the same or another name, still has the document id.
Removed(t, hs) ==
  LET gone == hs \cap DOMAIN t.docs
      last == {h \in gone : \A g \in DOMAIN t.docs :
                 t.docs[g].id = t.docs[h].id => g \in gone /\ g <= h}
  IN  Minus(t, gone, LinksOf(t.docs, last))

\* delete_by_id for each id: the handle the id points at goes, and its name
\* loses the id even if other handles share it.
DeletedIds(t, is) ==
  LET gone == {t.ids[i] : i \in is \cap DOMAIN t.ids}
  IN  Minus(t, gone, LinksOf(t.docs, gone))

-----------------------------------------------------------------------------
\* Calls without an await.

Exists == index # NoIndex

\* The index holds none of the next n handles.
Vacant(n) == index \cap (next_u64 + 1)..(next_u64 + n) = {}

\* A call that is refused after its handles were issued: the index rejects
\* the vectors, or a handle it was given is taken.  Only the counter moved.
Refused(n) == Become([Now EXCEPT !.next = @ + n])

Insert(hash, ds) ==
  /\ Exists /\ ds # << >>
  /\ next_u64 + Len(ds) <= MaxHandle
  /\ \/ Vacant(Len(ds)) /\ Become(Inserted(Now, hash, ds, "insert"))
     \/ Refused(Len(ds))
  /\ UNCHANGED <<task, files, mixed>>

\* upsert: the generation to replace is remembered, the new one inserted,
\* and only then is the old one removed.  An empty batch just removes.
Upsert(hash, ds) ==
  /\ Exists
  /\ next_u64 + Len(ds) <= MaxHandle
  /\ \/ /\ Vacant(Len(ds))
        /\ Become(Removed(Inserted(Now, hash, ds, "upsert"), HandlesUnder(u64_to_doc, hash)))
     \/ ds # << >> /\ Refused(Len(ds))
  /\ UNCHANGED <<task, files, mixed>>

DeleteIds(is) ==
  /\ Exists
  /\ Become(DeletedIds(Now, is))
  /\ UNCHANGED <<task, files, mixed>>

IdsOf(hs) == {u64_to_doc[h].id : h \in hs}

DeleteById(i) == i \in DOMAIN str_to_u64 /\ DeleteIds({i})
DeleteByName(n) == DeleteIds({l[2] : l \in {l \in name_to_ids : l[1] = n}})

DeleteByContentId(c) ==
  DeleteIds(IdsOf({h \in DOMAIN u64_to_doc : u64_to_doc[h].content_id = c}))

DeleteByMetadata(facts) ==
  DeleteIds(IdsOf({h \in DOMAIN u64_to_doc : facts \subseteq u64_to_doc[h].meta}))

\* update_metadata: merged into every document of the content id.
UpdateMetadata(c, facts) ==
  /\ Exists
  /\ u64_to_doc' = [h \in DOMAIN u64_to_doc |->
                      IF u64_to_doc[h].content_id = c
                      THEN [u64_to_doc[h] EXCEPT !.meta = @ \cup facts]
                      ELSE u64_to_doc[h]]
  /\ UNCHANGED <<index, str_to_u64, next_u64, content_hashes, name_to_ids, task, files, mixed>>

-----------------------------------------------------------------------------
\* Calls that wait for embeddings.  async_upsert remembers the generation to
\* replace before the await; async_insert remembers none.

BeginUpsert(t, hash, ds) ==
  /\ task[t] = Idle /\ ds # << >>
  /\ task' = [task EXCEPT ![t] = [hash |-> hash, docs |-> ds, via |-> "upsert",
                                   old |-> HandlesUnder(u64_to_doc, hash), dropped |-> FALSE]]
  /\ UNCHANGED <<tables, files, mixed>>

BeginInsert(t, hash, ds) ==
  /\ task[t] = Idle /\ ds # << >>
  /\ task' = [task EXCEPT ![t] = [hash |-> hash, docs |-> ds, via |-> "insert",
                                   old |-> {}, dropped |-> FALSE]]
  /\ UNCHANGED <<tables, files, mixed>>

Resume(t) ==
  /\ task[t] # Idle
  /\ task' = [task EXCEPT ![t] = Idle]
  /\ UNCHANGED <<files, mixed>>

\* Mutant: the old generation is looked up again after the insert.
FinishRequerying(t) ==
  /\ Resume(t)
  /\ Exists /\ next_u64 + Len(task[t].docs) <= MaxHandle
  /\ LET added == Inserted(Now, task[t].hash, task[t].docs, task[t].via)
     IN  Become(Removed(added, HandlesUnder(added.docs, task[t].hash)))

Finish(t) ==
  /\ Resume(t)
  /\ Exists
  /\ LET call == task[t]
     IN  /\ next_u64 + Len(call.docs) <= MaxHandle
         /\ Vacant(Len(call.docs))
         /\ Become(Removed(Inserted(Now, call.hash, call.docs, call.via), call.old))

\* No embedding, or the store was dropped: nothing changed.  Or the index
\* refused the batch.
Fail(t) ==
  /\ Resume(t)
  /\ \/ UNCHANGED tables
     \/ /\ Exists
        /\ next_u64 + Len(task[t].docs) <= MaxHandle
        /\ Refused(Len(task[t].docs))

-----------------------------------------------------------------------------
\* Lifecycle and files.

NoTables == [index |-> NoIndex, docs |-> EmptyMap, ids |-> EmptyMap, next |-> 0,
             hashes |-> {}, names |-> {}]

\* create: load a save, or start empty if a file of it is missing.  A torn
\* file makes the call fail.  The dictionaries are rebuilt from the documents.
Create ==
  /\ ~Exists
  /\ IF ~Uses[use].path \/ NoFile \in {tvim, docstore}
     THEN Become([Now EXCEPT !.index = {}]) /\ UNCHANGED mixed
     ELSE /\ Torn \notin {tvim, docstore}
          /\ LET docs == docstore.docs
             IN  /\ Become([index |-> tvim, docs |-> docs, ids |-> Latest(docs),
                            next |-> docstore.next, hashes |-> HashesOf(docs),
                            names |-> LinksOf(docs, DOMAIN docs)])
                 /\ mixed' = (tvim # DOMAIN docs)
  /\ UNCHANGED <<task, files>>

\* Calls that wait live on, whatever they captured.
DropUnderCalls ==
  task' = [t \in Tasks |-> IF task[t] = Idle THEN Idle ELSE [task[t] EXCEPT !.dropped = TRUE]]

\* Mutant: the dictionaries outlive the index.
DropIndexOnly ==
  /\ Uses[use].drop
  /\ Become([Now EXCEPT !.index = NoIndex])
  /\ DropUnderCalls
  /\ mixed' = FALSE
  /\ UNCHANGED files

Drop ==
  /\ Uses[use].drop
  /\ Become(NoTables)
  /\ DropUnderCalls
  /\ mixed' = FALSE
  /\ UNCHANGED files

\* Mutant: the counter is left out of the file.
SaveNoCounter ==
  /\ Exists /\ Uses[use].path
  /\ tvim' = index
  /\ docstore' = [docs |-> u64_to_doc, next |-> 0]
  /\ UNCHANGED <<tables, task, mixed>>

\* save: the index file, then the documents.
Save ==
  /\ Exists /\ Uses[use].path
  /\ tvim' = index
  /\ docstore' = [docs |-> u64_to_doc, next |-> next_u64]
  /\ UNCHANGED <<tables, task, mixed>>

\* The process dies or a value cannot be serialized on the way.
SaveFails ==
  /\ Exists /\ Uses[use].path
  /\ \/ tvim' = Torn /\ UNCHANGED docstore
     \/ tvim' = index /\ docstore' \in {docstore, Torn}
  /\ UNCHANGED <<tables, task, mixed>>

Restart ==
  /\ Become(NoTables)
  /\ task' = [t \in Tasks |-> Idle]
  /\ mixed' = FALSE
  /\ UNCHANGED files

-----------------------------------------------------------------------------

Init ==
  /\ index = NoIndex /\ u64_to_doc = EmptyMap /\ str_to_u64 = EmptyMap /\ next_u64 = 0
  /\ content_hashes = {} /\ name_to_ids = {}
  /\ task = [t \in Tasks |-> Idle]
  /\ tvim = NoFile /\ docstore = NoFile /\ mixed = FALSE
  /\ use \in DOMAIN Uses

Calling ==
  \/ \E hash \in Hashes, ds \in Batches :
       \/ Insert(hash, ds)
       \/ Upsert(hash, ds)
       \/ \E t \in Tasks : BeginUpsert(t, hash, ds) \/ BeginInsert(t, hash, ds)
  \/ \E t \in Tasks : Finish(t) \/ Fail(t)
  \/ \E i \in DOMAIN str_to_u64 : DeleteById(i)
  \/ \E n \in Names : DeleteByName(n)
  \/ \E c \in ContentIds : \/ DeleteByContentId(c)
                           \/ \E facts \in SUBSET Facts : UpdateMetadata(c, facts)
  \/ \E facts \in SUBSET Facts : DeleteByMetadata(facts)
  \/ Create \/ Drop \/ Save \/ SaveFails \/ Restart

Waiting == {t \in Tasks : task[t] # Idle}

Next ==
  /\ Calling
  /\ Cardinality(Waiting') <= Uses[use].tasks
  /\ Cardinality(HashesOf(u64_to_doc')) <= Uses[use].hashes
  /\ UNCHANGED use

Spec == Init /\ [][Next]_vars

\* The event loop resumes a coroutine whose embeddings have arrived.
FairSpec == Spec /\ \A t \in Tasks : WF_vars(Finish(t) \/ Fail(t))

-----------------------------------------------------------------------------
\* Properties.

DocIds == {DocId(d, c) : d \in Documents, c \in Hashes}
StoredDocs == [id : DocIds, name : Names \cup {NoName}, content_id : ContentIds,
               meta : SUBSET Facts, hash : Hashes, via : {"insert", "upsert"}]
Calls == [hash : Hashes, docs : Batches, via : {"insert", "upsert"}, old : SUBSET Handles,
          dropped : BOOLEAN]

TypeOK ==
  /\ index \in (SUBSET Handles) \cup {NoIndex}
  /\ DOMAIN u64_to_doc \subseteq Handles
  /\ \A h \in DOMAIN u64_to_doc : u64_to_doc[h] \in StoredDocs
  /\ DOMAIN str_to_u64 \subseteq DocIds
  /\ next_u64 \in 0..MaxHandle
  /\ content_hashes \subseteq Hashes
  /\ name_to_ids \subseteq Names \X DocIds
  /\ \A t \in Tasks : task[t] \in Calls \cup {Idle}
  /\ tvim \in (SUBSET Handles) \cup {NoFile, Torn}

\* The index holds a vector for each document and no other: a filtered search
\* asks the index only for handles it has.  A save whose second file is older
\* is the one way out.
HandlesMatch == Exists /\ ~mixed => index = DOMAIN u64_to_doc

\* A document id points at a document that is stored and has that id.
IdsPointHome ==
  \A i \in DOMAIN str_to_u64 : /\ str_to_u64[i] \in DOMAIN u64_to_doc
                               /\ u64_to_doc[str_to_u64[i]].id = i

\* content_hash_exists answers for the documents that are stored.
HashesExact == content_hashes = HashesOf(u64_to_doc)

\* A document that its id finds is found by its name too.
NamesReach ==
  \A i \in DOMAIN str_to_u64 :
    LET d == u64_to_doc[str_to_u64[i]]
    IN  d.name # NoName => <<d.name, i>> \in name_to_ids

\* The three lookups agree with the documents, also while several handles
\* share an id and generations are replaced.
LookupsAgree == IdsPointHome /\ HashesExact /\ NamesReach

\* No handle is issued twice, so add_with_ids never meets a taken one.
HandlesFresh == \A h \in DOMAIN u64_to_doc : h <= next_u64

\* When a call that waited comes back, only documents of its own content hash
\* have gone, although handles were captured before other calls ran, and what
\* it just inserted is not removed as if it were the old generation.  A call
\* whose store was dropped while it waited is left out: its handles may have
\* been issued again, and OthersLeftAlone below shows what it does then.
OnlyOwnGeneration ==
  [][\A t \in Tasks :
       task[t] # Idle /\ ~task[t].dropped /\ task'[t] = Idle /\ index' # NoIndex =>
       /\ \A h \in DOMAIN u64_to_doc :
            u64_to_doc[h].hash # task[t].hash => h \in DOMAIN u64_to_doc'
       /\ Finish(t) => (next_u64 + 1)..next_u64' \subseteq DOMAIN u64_to_doc']_vars

\* An upsert leaves the entries of other content hashes alone
\* (test_agno.py:593), also one that comes back after its store was dropped and
\* created again.
OthersLeftAlone ==
  [][\A t \in Tasks : Finish(t) /\ task[t].via = "upsert" =>
       \A h \in DOMAIN u64_to_doc :
         u64_to_doc[h].hash # task[t].hash => h \in DOMAIN u64_to_doc']_vars

\* async_upsert replaces everything under its content hash (test_agno.py:959):
\* no earlier generation outlives it.  Plain inserts that ran meanwhile may.
AsyncUpsertReplaces ==
  [][\A t \in Tasks : Finish(t) /\ task[t].via = "upsert" =>
       \A h \in HandlesUnder(u64_to_doc', task[t].hash) :
         h > next_u64 \/ u64_to_doc'[h].via = "insert"]_vars

\* A delete that reports success removes something (agno.md:110).  Deleting by
\* content id reports success when some document carries it.
ReportedDeletesRemove ==
  Exists => \A c \in ContentIds :
    LET carriers == {h \in DOMAIN u64_to_doc : u64_to_doc[h].content_id = c}
    IN  carriers # {} => DeletedIds(Now, IdsOf(carriers)).docs # u64_to_doc

=============================================================================
