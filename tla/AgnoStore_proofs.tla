-------------------------- MODULE AgnoStore_proofs --------------------------
(***************************************************************************)
(* The Agno store, for every set of documents, hashes and coroutines,      *)
(* batches of any size and any number of handles: the index holds what the *)
(* tables hold, the three lookups agree with the documents, no handle is   *)
(* issued twice, and a call that waited removes only its own generation.   *)
(***************************************************************************)
EXTENDS AgnoStore, SlotsTheorems

-----------------------------------------------------------------------------
\* The tables by themselves.

TableInv(t) ==
  /\ DOMAIN t = {"index", "docs", "ids", "next", "hashes", "names"}
  /\ t.next \in Nat /\ DOMAIN t.docs \subseteq 1..t.next
  /\ \A h \in DOMAIN t.docs : t.docs[h] \in StoredDocs
  /\ \A i \in DOMAIN t.ids : t.ids[i] \in DOMAIN t.docs /\ t.docs[t.ids[i]].id = i
  /\ t.hashes = HashesOf(t.docs)
  /\ t.names \subseteq Names \X DocIds
  /\ \A i \in DOMAIN t.ids :
       t.docs[t.ids[i]].name # NoName => <<t.docs[t.ids[i]].name, i>> \in t.names

\* Some handles have gone; some have come, with documents of one hash.
Lost(t, u, gone) ==
  /\ TableInv(u) /\ u.next = t.next /\ u.index = t.index \ gone
  /\ DOMAIN u.docs = DOMAIN t.docs \ gone
  /\ \A h \in DOMAIN u.docs : u.docs[h] = t.docs[h]
Gained(t, u, new, hash) ==
  /\ TableInv(u) /\ u.index = t.index \cup new
  /\ DOMAIN u.docs = DOMAIN t.docs \cup new
  /\ \A h \in DOMAIN t.docs : u.docs[h] = t.docs[h]
  /\ \A h \in new : u.docs[h].hash = hash

\* Each id of some documents is that of the document Latest finds.
LEMMA LatestHome ==
  ASSUME NEW docs, NEW n \in Nat, DOMAIN docs \subseteq 1..n,
         NEW i \in {docs[h].id : h \in DOMAIN docs}
  PROVE  /\ i \in DOMAIN Latest(docs)
         /\ Latest(docs)[i] \in DOMAIN docs /\ docs[Latest(docs)[i]].id = i
<1> DEFINE rows == {h \in DOMAIN docs : docs[h].id = i}
<1>1. rows \in SUBSET (1..n) /\ rows # {} /\ n \in Int
  OBVIOUS
<1>2. PICK m \in rows : \A l \in rows : l <= m
  <2> HIDE DEF rows
  <2>1. QED
    BY <1>1, 1 \in Int, GreatestPosition
<1>3. \E h \in DOMAIN docs : docs[h].id = i /\ IsLatest(docs, h)
  BY <1>2 DEF IsLatest
<1>4. Latest(docs)[i] = CHOOSE h \in DOMAIN docs : docs[h].id = i /\ IsLatest(docs, h)
  BY DEF Latest
<1>5. QED
  BY <1>3, <1>4 DEF Latest

\* insert adds its documents under new handles.
LEMMA InsertedKeeps ==
  ASSUME NEW t, TableInv(t), NEW hash \in Hashes, NEW ds \in Seq(Documents),
         NEW via \in {"insert", "upsert"}
  PROVE  /\ Inserted(t, hash, ds, via).next = t.next + Len(ds)
         /\ Gained(t, Inserted(t, hash, ds, via), (t.next + 1)..(t.next + Len(ds)), hash)
<1> DEFINE u == Inserted(t, hash, ds, via)
           new == (t.next + 1)..(t.next + Len(ds))
           added == [h \in new |-> u.docs[h]]
           fresh == {u.docs[h].id : h \in new}
<1>1. /\ t.next \in Nat /\ Len(ds) \in Nat /\ DOMAIN t.docs \subseteq 1..t.next
      /\ {t.next + i : i \in 1..Len(ds)} = new
  <2>1. t.next \in Nat /\ Len(ds) \in Nat /\ DOMAIN t.docs \subseteq 1..t.next
    BY DEF TableInv
  <2>2. \A h \in new : h - t.next \in 1..Len(ds) /\ h = t.next + (h - t.next)
    BY <2>1
  <2>3. \A i \in 1..Len(ds) : t.next + i \in new
    BY <2>1
  <2>4. QED
    BY <2>1, <2>2, <2>3
<1>2. /\ DOMAIN u = {"index", "docs", "ids", "next", "hashes", "names"}
      /\ u.next = t.next + Len(ds) /\ u.index = t.index \cup new
      /\ u.docs = [h \in DOMAIN t.docs \cup new |->
                     IF h \in new THEN Stored(ds[h - t.next], hash, via) ELSE t.docs[h]]
      /\ u.ids = [i \in DOMAIN t.ids \cup fresh |-> IF i \in fresh THEN Latest(added)[i] ELSE t.ids[i]]
      /\ u.hashes = IF ds = << >> THEN t.hashes ELSE t.hashes \cup {hash}
      /\ u.names = t.names \cup LinksOf(u.docs, new)
  BY <1>1 DEF Inserted
<1> HIDE DEF u
<1>3. ASSUME NEW h \in new
      PROVE  /\ h \notin DOMAIN t.docs /\ u.docs[h].hash = hash /\ u.docs[h] \in StoredDocs
             /\ h \in 1..u.next
  <2>1. h - t.next \in 1..Len(ds) /\ h \in 1..u.next /\ h \notin DOMAIN t.docs
    BY <1>1, <1>2
  <2>2. ds[h - t.next] \in Documents
    BY <2>1
  <2>3. u.docs[h] = Stored(ds[h - t.next], hash, via)
    BY <1>2
  <2>4. Stored(ds[h - t.next], hash, via) \in StoredDocs
    BY <2>2, AgnoConstantsOK DEF Stored, StoredDocs, DocIds
  <2>5. u.docs[h].hash = hash
    BY <2>3 DEF Stored
  <2>6. QED
    BY <2>1, <2>3, <2>4, <2>5
<1>4. \A h \in DOMAIN t.docs : u.docs[h] = t.docs[h] /\ h \in DOMAIN u.docs
  BY <1>2, <1>3
<1>5. DOMAIN u.docs = DOMAIN t.docs \cup new
  BY <1>2
<1>6. /\ u.next \in Nat /\ DOMAIN u.docs \subseteq 1..u.next
      /\ \A h \in DOMAIN u.docs : u.docs[h] \in StoredDocs
  <2>1. u.next \in Nat /\ DOMAIN t.docs \subseteq 1..u.next
    BY <1>1, <1>2
  <2>2. \A h \in DOMAIN t.docs : t.docs[h] \in StoredDocs
    BY DEF TableInv
  <2> HIDE DEF new
  <2>3. QED
    BY <1>3, <1>4, <1>5, <2>1, <2>2
<1>7. ASSUME NEW i \in fresh
      PROVE  Latest(added)[i] \in new /\ u.docs[Latest(added)[i]].id = i
  <2>1. DOMAIN added = new /\ new \subseteq 1..u.next /\ \A h \in new : added[h] = u.docs[h]
    BY <1>3
  <2>2. i \in {added[h].id : h \in DOMAIN added}
    BY <2>1
  <2> HIDE DEF added, new
  <2>3. Latest(added)[i] \in DOMAIN added /\ added[Latest(added)[i]].id = i
    BY <1>6, <2>1, <2>2, LatestHome
  <2>4. QED
    BY <2>1, <2>3
<1> HIDE DEF added, new
<1>8. \A i \in DOMAIN u.ids : u.ids[i] \in DOMAIN u.docs /\ u.docs[u.ids[i]].id = i
  <2>1. \A i \in DOMAIN t.ids : t.ids[i] \in DOMAIN t.docs /\ t.docs[t.ids[i]].id = i
    BY DEF TableInv
  <2> HIDE DEF fresh
  <2>2. ASSUME NEW i \in DOMAIN u.ids
        PROVE  u.ids[i] \in DOMAIN u.docs /\ u.docs[u.ids[i]].id = i
    <3>1. CASE i \in fresh
      <4>1. u.ids[i] = Latest(added)[i]
        BY <1>2, <3>1
      <4>2. QED
        BY <1>5, <1>7, <3>1, <4>1
    <3>2. CASE i \notin fresh
      <4>1. i \in DOMAIN t.ids /\ u.ids[i] = t.ids[i]
        BY <1>2, <3>2
      <4>2. QED
        BY <1>4, <2>1, <4>1
    <3>3. QED
      BY <3>1, <3>2
  <2>3. QED
    BY <2>2
<1>9. u.hashes = HashesOf(u.docs)
  <2>1. t.hashes = HashesOf(t.docs)
    BY DEF TableInv
  <2>2. ds = << >> => new = {}
    BY <1>1 DEF new
  <2>3. ds # << >> => t.next + 1 \in new
    <3>1. ds # << >> => Len(ds) >= 1
      OBVIOUS
    <3>2. QED
      BY <1>1, <3>1 DEF new
  <2>4. HashesOf(u.docs) = HashesOf(t.docs) \cup {u.docs[h].hash : h \in new}
    BY <1>4, <1>5 DEF HashesOf
  <2>5. {u.docs[h].hash : h \in new} = IF ds = << >> THEN {} ELSE {hash}
    BY <1>3, <2>2, <2>3
  <2>6. u.hashes = IF ds = << >> THEN t.hashes ELSE t.hashes \cup {hash}
    BY <1>2
  <2>7. QED
    BY <2>1, <2>4, <2>5, <2>6
<1>10. u.names \subseteq Names \X DocIds
  <2>1. \A h \in new : u.docs[h].name # NoName => <<u.docs[h].name, u.docs[h].id>> \in Names \X DocIds
    BY <1>3 DEF StoredDocs
  <2>2. LinksOf(u.docs, new) \subseteq Names \X DocIds
    BY <2>1 DEF LinksOf
  <2>3. QED
    BY <1>2, <2>2 DEF TableInv
<1>11. \A i \in DOMAIN u.ids :
         u.docs[u.ids[i]].name # NoName => <<u.docs[u.ids[i]].name, i>> \in u.names
  <2> SUFFICES ASSUME NEW i \in DOMAIN u.ids, u.docs[u.ids[i]].name # NoName
               PROVE  <<u.docs[u.ids[i]].name, i>> \in u.names
    OBVIOUS
  <2>1. CASE i \in fresh
    <3>1. u.ids[i] = Latest(added)[i]
      BY <1>2, <2>1
    <3>2. u.ids[i] \in new /\ u.docs[u.ids[i]].id = i
      BY <1>7, <2>1, <3>1
    <3>3. <<u.docs[u.ids[i]].name, i>> \in LinksOf(u.docs, new)
      BY <3>2 DEF LinksOf
    <3>4. u.names = t.names \cup LinksOf(u.docs, new)
      BY <1>2
    <3>5. QED
      BY <3>3, <3>4
  <2>2. CASE i \notin fresh
    <3>1. i \in DOMAIN t.ids /\ u.ids[i] = t.ids[i]
      BY <1>2, <2>2
    <3>2. t.ids[i] \in DOMAIN t.docs /\ u.docs[u.ids[i]] = t.docs[t.ids[i]]
      BY <1>4, <3>1 DEF TableInv
    <3>3. QED
      BY <1>2, <3>1, <3>2 DEF TableInv
  <2>3. QED
    BY <2>1, <2>2
<1>12. TableInv(u)
  BY <1>2, <1>6, <1>8, <1>9, <1>10, <1>11 DEF TableInv
<1>13. QED
  BY <1>2, <1>3, <1>4, <1>5, <1>12 DEF u, new, Gained

\* Handles go with what the lookups say of them, if no id that stays loses its
\* name.
LEMMA MinusKeeps ==
  ASSUME NEW t, TableInv(t), NEW gone \in SUBSET DOMAIN t.docs, NEW links,
         \A i \in DOMAIN t.ids : t.ids[i] \notin gone =>
           <<t.docs[t.ids[i]].name, i>> \notin links
  PROVE  Lost(t, Minus(t, gone, links), gone)
<1> DEFINE u == Minus(t, gone, links)
<1>1. /\ DOMAIN u = {"index", "docs", "ids", "next", "hashes", "names"}
      /\ u.index = t.index \ gone /\ u.docs = Without(t.docs, gone) /\ u.ids = Pointing(t.ids, gone)
      /\ u.next = t.next /\ u.names = t.names \ links
      /\ u.hashes = {c \in t.hashes : c \in HashesOf(t.docs) => c \in HashesOf(u.docs)}
  BY DEF Minus, TableInv
<1> HIDE DEF u
<1>2. /\ DOMAIN u.docs = DOMAIN t.docs \ gone
      /\ \A h \in DOMAIN u.docs : u.docs[h] = t.docs[h]
  BY <1>1 DEF Without
<1>3. /\ DOMAIN u.ids \subseteq DOMAIN t.ids
      /\ \A i \in DOMAIN u.ids : u.ids[i] = t.ids[i] /\ t.ids[i] \notin gone
  BY <1>1 DEF Pointing
<1>4. u.hashes = HashesOf(u.docs)
  <2>1. HashesOf(u.docs) \subseteq HashesOf(t.docs)
    BY <1>2 DEF HashesOf
  <2>2. QED
    BY <1>1, <2>1 DEF TableInv
<1>5. \A i \in DOMAIN u.ids : u.ids[i] \in DOMAIN u.docs /\ u.docs[u.ids[i]].id = i
  BY <1>2, <1>3 DEF TableInv
<1>6. \A i \in DOMAIN u.ids :
        u.docs[u.ids[i]].name # NoName => <<u.docs[u.ids[i]].name, i>> \in u.names
  BY <1>1, <1>2, <1>3, <1>5 DEF TableInv
<1>7. TableInv(u)
  BY <1>1, <1>2, <1>4, <1>5, <1>6 DEF TableInv
<1>8. QED
  BY <1>1, <1>2, <1>7 DEF u, Lost

\* _remove_handle for each of some handles.
LEMMA RemovedKeeps ==
  ASSUME NEW t, TableInv(t), NEW hs
  PROVE  Lost(t, Removed(t, hs), hs \cap DOMAIN t.docs)
<1> DEFINE gone == hs \cap DOMAIN t.docs
           last == {h \in gone : \A g \in DOMAIN t.docs :
                      t.docs[g].id = t.docs[h].id => g \in gone /\ g <= h}
           links == LinksOf(t.docs, last)
<1>1. Removed(t, hs) = Minus(t, gone, links)
  BY DEF Removed
<1>2. ASSUME NEW i \in DOMAIN t.ids, t.ids[i] \notin gone
      PROVE  <<t.docs[t.ids[i]].name, i>> \notin links
  <2>1. t.ids[i] \in DOMAIN t.docs /\ t.docs[t.ids[i]].id = i
    BY DEF TableInv
  <2>2. \A h \in last : t.docs[h].id # i
    BY <1>2, <2>1
  <2> HIDE DEF last
  <2>3. QED
    BY <2>2 DEF LinksOf
<1>3. gone \in SUBSET DOMAIN t.docs
  OBVIOUS
<1> HIDE DEF links, last, gone
<1>4. Lost(t, Minus(t, gone, links), gone)
  BY <1>2, <1>3, MinusKeeps
<1>5. QED
  BY <1>1, <1>4 DEF gone

\* delete_by_id for each of some ids.
LEMMA DeletedIdsKeeps ==
  ASSUME NEW t, TableInv(t), NEW is
  PROVE  \E gone \in SUBSET DOMAIN t.docs : Lost(t, DeletedIds(t, is), gone)
<1> DEFINE gone == {t.ids[i] : i \in is \cap DOMAIN t.ids}
           links == LinksOf(t.docs, gone)
<1>1. DeletedIds(t, is) = Minus(t, gone, links)
  BY DEF DeletedIds
<1>2. gone \in SUBSET DOMAIN t.docs
  BY DEF TableInv
<1>3. ASSUME NEW i \in DOMAIN t.ids, t.ids[i] \notin gone
      PROVE  <<t.docs[t.ids[i]].name, i>> \notin links
  <2>1. \A h \in gone : t.docs[h].id # i
    BY <1>3 DEF TableInv
  <2> HIDE DEF gone
  <2>2. QED
    BY <2>1 DEF LinksOf
<1> HIDE DEF links, gone
<1>4. Lost(t, Minus(t, gone, links), gone)
  BY <1>2, <1>3, MinusKeeps
<1>5. QED
  BY <1>1, <1>2, <1>4

-----------------------------------------------------------------------------
\* The inductive invariant.

IndexInv ==
  /\ TableInv(Now) /\ next_u64 <= MaxHandle
  /\ index \in (SUBSET Handles) \cup {NoIndex}
  /\ ~Exists => DOMAIN u64_to_doc = {}
  /\ HandlesMatch

\* What a save has written can be loaded.
FileInv ==
  /\ tvim \in (SUBSET Handles) \cup {NoFile, Torn}
  /\ docstore \notin {NoFile, Torn} =>
       /\ docstore.next \in 0..MaxHandle /\ DOMAIN docstore.docs \subseteq 1..docstore.next
       /\ \A h \in DOMAIN docstore.docs : docstore.docs[h] \in StoredDocs

TaskInv ==
  /\ task = [t \in Tasks |-> task[t]]
  /\ \A t \in Tasks : task[t] \in Calls \cup {Idle}

AgnoInv == use \in DOMAIN Uses /\ IndexInv /\ FileInv /\ TaskInv

\* The tables become some that are sound.
LEMMA Becoming ==
  ASSUME NEW t, Become(t), TableInv(t), t.next <= MaxHandle,
         t.index \in (SUBSET Handles) \cup {NoIndex},
         t.index = NoIndex => DOMAIN t.docs = {},
         t.index # NoIndex /\ ~mixed' => t.index = DOMAIN t.docs
  PROVE  IndexInv'
<1>1. /\ index' = t.index /\ u64_to_doc' = t.docs /\ str_to_u64' = t.ids /\ next_u64' = t.next
      /\ content_hashes' = t.hashes /\ name_to_ids' = t.names
  BY DEF Become
<1>2. TableInv(Now)'
  BY <1>1 DEF TableInv, Now, HashesOf
<1>3. QED
  BY <1>1, <1>2 DEF IndexInv, HandlesMatch, Exists, Now

\* Handles come and go in an index that is there.
LEMMA Replacing ==
  ASSUME IndexInv, Exists, mixed' = mixed, NEW u, NEW v, NEW new, NEW gone, NEW hash,
         Gained(Now, u, new, hash), u.next <= MaxHandle, Lost(u, v, gone), Become(v)
  PROVE  IndexInv' /\ Exists'
<1>1. index \in SUBSET Handles /\ MaxHandle \in Nat
  <2>1. MaxHandle \in Nat
    BY AgnoConstantsOK
  <2>2. QED
    BY <2>1 DEF IndexInv, Exists
<1>2. /\ u.index = index \cup new /\ DOMAIN u.docs = DOMAIN u64_to_doc \cup new
      /\ u.next \in Nat /\ DOMAIN u.docs \subseteq 1..u.next
  BY DEF Gained, TableInv, Now
<1>3. new \subseteq Handles
  BY <1>1, <1>2 DEF Handles
<1>4. /\ TableInv(v) /\ v.next = u.next /\ v.index = u.index \ gone
      /\ DOMAIN v.docs = DOMAIN u.docs \ gone
  BY DEF Lost
<1>5. v.index \in SUBSET Handles /\ v.index # NoIndex
  BY <1>1, <1>2, <1>3, <1>4, MarkersOK DEF Handles
<1>6. ~mixed' => v.index = DOMAIN v.docs
  BY <1>2, <1>4 DEF IndexInv, HandlesMatch
<1>7. IndexInv'
  BY <1>4, <1>5, <1>6, Becoming
<1>8. QED
  BY <1>5, <1>7 DEF Become, Exists

LEMMA BatchesAreSequences ==
  ASSUME AgnoInv, NEW ds \in Batches
  PROVE  ds \in Seq(Documents)
<1>1. PICK n \in 0..Uses[use].batch : ds \in [1..n -> Documents]
  BY DEF Batches
<1>2. Uses[use].batch \in Nat
  BY AgnoConstantsOK DEF AgnoInv
<1>3. n \in Nat
  BY <1>1, <1>2
<1>4. QED
  BY <1>1, <1>3, ArrayIsSeq

\* insert after what it was given was refused.
LEMMA RefusedKeeps ==
  ASSUME IndexInv, Exists, mixed' = mixed, NEW n \in Nat, next_u64 + n <= MaxHandle, Refused(n)
  PROVE  /\ IndexInv' /\ Exists' /\ next_u64' = next_u64 + n /\ UNCHANGED <<u64_to_doc, index>>
<1> DEFINE t == [Now EXCEPT !.next = @ + n]
<1>1. /\ Become(t)
      /\ DOMAIN t = {"index", "docs", "ids", "next", "hashes", "names"}
      /\ t.index = index /\ t.docs = u64_to_doc /\ t.ids = str_to_u64 /\ t.next = next_u64 + n
      /\ t.hashes = content_hashes /\ t.names = name_to_ids
  BY DEF Refused, Now
<1> HIDE DEF t
<1>2. TableInv(t)
  BY <1>1 DEF IndexInv, TableInv, Now
<1>3. IndexInv'
  BY <1>1, <1>2, Becoming DEF IndexInv, HandlesMatch, Exists
<1>4. QED
  BY <1>1, <1>3 DEF Become, Exists

\* What a step does to the documents and the counter while the index stays.
Evolves ==
  /\ Exists' /\ next_u64 <= next_u64'
  /\ \A h \in DOMAIN u64_to_doc' :
       \/ h \in DOMAIN u64_to_doc /\ u64_to_doc'[h].hash = u64_to_doc[h].hash
       \/ h > next_u64

\* insert, and insert followed by the removal of an old generation: upsert and
\* the end of the calls that waited.
LEMMA InsertsKeep ==
  ASSUME AgnoInv, Exists, mixed' = mixed, NEW hash \in Hashes, NEW ds \in Seq(Documents),
         NEW via \in {"insert", "upsert"}, NEW old, next_u64 + Len(ds) <= MaxHandle,
         Become(Removed(Inserted(Now, hash, ds, via), old))
  PROVE  /\ IndexInv' /\ Evolves
         /\ next_u64' = next_u64 + Len(ds)
         /\ DOMAIN u64_to_doc' = (DOMAIN u64_to_doc \cup (next_u64 + 1)..(next_u64 + Len(ds))) \ old
<1> DEFINE u == Inserted(Now, hash, ds, via)
           v == Removed(u, old)
           new == (next_u64 + 1)..(next_u64 + Len(ds))
           gone == old \cap DOMAIN u.docs
<1>1. TableInv(Now) /\ Now.next = next_u64 /\ Now.docs = u64_to_doc /\ next_u64 \in Nat
  BY DEF AgnoInv, IndexInv, TableInv, Now
<1>2. u.next = next_u64 + Len(ds) /\ Gained(Now, u, new, hash)
  BY <1>1, InsertedKeeps
<1> HIDE DEF u, new
<1>3. TableInv(u)
  BY <1>2 DEF Gained
<1>4. Lost(u, v, gone)
  BY <1>3, RemovedKeeps
<1>5. Become(v)
  BY DEF u
<1> HIDE DEF v, gone
<1>6. IndexInv' /\ Exists'
  BY <1>2, <1>4, <1>5, Replacing DEF AgnoInv
<1>7. /\ u64_to_doc' = v.docs /\ next_u64' = v.next /\ v.next = u.next
      /\ DOMAIN v.docs = DOMAIN u.docs \ gone /\ \A h \in DOMAIN v.docs : v.docs[h] = u.docs[h]
      /\ DOMAIN u.docs = DOMAIN u64_to_doc \cup new
      /\ \A h \in DOMAIN u64_to_doc : u.docs[h] = u64_to_doc[h]
  BY <1>1, <1>2, <1>4, <1>5 DEF Become, Lost, Gained
<1>8. DOMAIN u64_to_doc' = (DOMAIN u64_to_doc \cup new) \ old
  BY <1>7 DEF gone
<1>9. Len(ds) \in Nat /\ \A h \in new : h > next_u64
  BY <1>1 DEF new
<1>10. Evolves
  BY <1>1, <1>2, <1>6, <1>7, <1>9 DEF Evolves
<1>11. QED
  BY <1>2, <1>6, <1>7, <1>8, <1>10 DEF new

\* insert and upsert.
LEMMA InsertKeeps ==
  ASSUME AgnoInv, NEW hash \in Hashes, NEW ds \in Batches, Insert(hash, ds)
  PROVE  IndexInv' /\ Evolves
<1>1. ds \in Seq(Documents) /\ Len(ds) \in Nat
  BY BatchesAreSequences
<1>2. CASE Become(Inserted(Now, hash, ds, "insert"))
  <2> DEFINE u == Inserted(Now, hash, ds, "insert")
             new == (Now.next + 1)..(Now.next + Len(ds))
  <2>1. TableInv(Now) /\ Now.next = next_u64 /\ Now.docs = u64_to_doc /\ next_u64 \in Nat
    BY DEF AgnoInv, IndexInv, TableInv, Now
  <2>2. u.next = next_u64 + Len(ds) /\ Gained(Now, u, new, hash)
    BY <1>1, <2>1, InsertedKeeps
  <2>3. Become(u)
    BY <1>2
  <2>4. \A h \in new : h > next_u64
    BY <1>1, <2>1
  <2> HIDE DEF u, new
  <2>5. Lost(u, u, {})
    BY <2>2 DEF Lost, Gained
  <2>6. IndexInv' /\ Exists'
    BY <2>2, <2>3, <2>5, Replacing DEF AgnoInv, Insert
  <2>7. /\ u64_to_doc' = u.docs /\ next_u64' = u.next
        /\ DOMAIN u.docs = DOMAIN u64_to_doc \cup new
        /\ \A h \in DOMAIN u64_to_doc : u.docs[h] = u64_to_doc[h]
    BY <2>1, <2>2, <2>3 DEF Become, Gained
  <2>8. QED
    BY <1>1, <2>1, <2>2, <2>4, <2>6, <2>7 DEF Evolves
<1>3. CASE Refused(Len(ds))
  <2>1. next_u64 \in Nat
    BY DEF AgnoInv, IndexInv, TableInv, Now
  <2>2. QED
    BY <1>1, <1>3, <2>1, RefusedKeeps DEF Insert, AgnoInv, Evolves
<1>4. QED
  BY <1>2, <1>3 DEF Insert

LEMMA UpsertKeeps ==
  ASSUME AgnoInv, NEW hash \in Hashes, NEW ds \in Batches, Upsert(hash, ds)
  PROVE  IndexInv' /\ Evolves
<1>1. ds \in Seq(Documents) /\ Len(ds) \in Nat
  BY BatchesAreSequences
<1>2. next_u64 \in Nat /\ Exists /\ mixed' = mixed /\ next_u64 + Len(ds) <= MaxHandle
  BY DEF AgnoInv, IndexInv, TableInv, Now, Upsert
<1>3. CASE Become(Removed(Inserted(Now, hash, ds, "upsert"), HandlesUnder(u64_to_doc, hash)))
  BY <1>1, <1>2, <1>3, InsertsKeep
<1>4. CASE Refused(Len(ds))
  BY <1>1, <1>2, <1>4, RefusedKeeps DEF AgnoInv, Evolves
<1>5. QED
  BY <1>3, <1>4 DEF Upsert

\* The deletes.
LEMMA DeleteKeeps ==
  ASSUME AgnoInv, NEW is, DeleteIds(is)
  PROVE  IndexInv' /\ Evolves
<1>1. /\ TableInv(Now) /\ Now.next = next_u64 /\ Now.docs = u64_to_doc /\ next_u64 \in Nat
      /\ next_u64 <= MaxHandle
  BY DEF AgnoInv, IndexInv, TableInv, Now
<1>2. PICK gone \in SUBSET DOMAIN u64_to_doc : Lost(Now, DeletedIds(Now, is), gone)
  BY <1>1, DeletedIdsKeeps
<1>3. \A hash : Gained(Now, Now, {}, hash)
  BY <1>1 DEF Gained
<1>4. Become(DeletedIds(Now, is)) /\ Exists /\ mixed' = mixed
  BY DEF DeleteIds
<1> DEFINE v == DeletedIds(Now, is)
<1> HIDE DEF v
<1>5. IndexInv' /\ Exists'
  BY <1>1, <1>2, <1>3, <1>4, Replacing DEF AgnoInv, v
<1>6. /\ u64_to_doc' = v.docs /\ next_u64' = v.next /\ v.next = next_u64
      /\ DOMAIN v.docs = DOMAIN u64_to_doc \ gone
      /\ \A h \in DOMAIN v.docs : v.docs[h] = u64_to_doc[h]
  BY <1>1, <1>2, <1>4 DEF Become, Lost, v
<1>7. QED
  BY <1>1, <1>5, <1>6 DEF Evolves

LEMMA UpdateKeeps ==
  ASSUME AgnoInv, NEW c, NEW facts \in SUBSET Facts, UpdateMetadata(c, facts)
  PROVE  IndexInv' /\ Evolves
<1>1. /\ UNCHANGED <<index, str_to_u64, next_u64, content_hashes, name_to_ids, mixed>> /\ Exists
      /\ DOMAIN u64_to_doc' = DOMAIN u64_to_doc
      /\ \A h \in DOMAIN u64_to_doc :
            u64_to_doc'[h] = IF u64_to_doc[h].content_id = c
                             THEN [u64_to_doc[h] EXCEPT !.meta = @ \cup facts] ELSE u64_to_doc[h]
  BY DEF UpdateMetadata
<1>2. \A h \in DOMAIN u64_to_doc : u64_to_doc[h] \in StoredDocs
  BY DEF AgnoInv, IndexInv, TableInv, Now
<1>3. \A h \in DOMAIN u64_to_doc : /\ u64_to_doc'[h] \in StoredDocs
                                  /\ u64_to_doc'[h].id = u64_to_doc[h].id
                                  /\ u64_to_doc'[h].name = u64_to_doc[h].name
                                  /\ u64_to_doc'[h].hash = u64_to_doc[h].hash
  BY <1>1, <1>2 DEF StoredDocs
<1>4. HashesOf(u64_to_doc') = HashesOf(u64_to_doc)
  BY <1>1, <1>3 DEF HashesOf
<1>5. TableInv(Now)'
  BY <1>1, <1>3, <1>4 DEF AgnoInv, IndexInv, TableInv, Now, HashesOf
<1>6. next_u64 \in Nat
  BY DEF AgnoInv, IndexInv, TableInv, Now
<1>7. QED
  BY <1>1, <1>3, <1>5, <1>6 DEF AgnoInv, IndexInv, HandlesMatch, Exists, Evolves

-----------------------------------------------------------------------------
\* Every step keeps the invariant.

\* The calls that waited.
LEMMA FinishKeeps ==
  ASSUME AgnoInv, NEW t \in Tasks, Finish(t)
  PROVE  /\ IndexInv' /\ Evolves
         /\ DOMAIN u64_to_doc' = (DOMAIN u64_to_doc \cup (next_u64 + 1)..next_u64') \ task[t].old
<1>1. task[t] \in Calls
  BY DEF AgnoInv, TaskInv, Finish, Resume
<1>2. /\ task[t].hash \in Hashes /\ task[t].docs \in Batches
      /\ task[t].via \in {"insert", "upsert"}
  BY <1>1 DEF Calls
<1>3. task[t].docs \in Seq(Documents)
  BY <1>2, BatchesAreSequences
<1>4. /\ Exists /\ mixed' = mixed /\ next_u64 + Len(task[t].docs) <= MaxHandle
      /\ Become(Removed(Inserted(Now, task[t].hash, task[t].docs, task[t].via), task[t].old))
  BY DEF Finish, Resume
<1>5. next_u64' = next_u64 + Len(task[t].docs) /\ IndexInv' /\ Evolves
      /\ DOMAIN u64_to_doc' =
            (DOMAIN u64_to_doc \cup (next_u64 + 1)..(next_u64 + Len(task[t].docs))) \ task[t].old
  <2> DEFINE hash == task[t].hash
             ds == task[t].docs
             via == task[t].via
             old == task[t].old
  <2> HIDE DEF hash, ds, via, old
  <2>1. hash \in Hashes /\ ds \in Seq(Documents) /\ via \in {"insert", "upsert"}
    BY <1>2, <1>3 DEF hash, ds, via
  <2>2. Exists /\ mixed' = mixed /\ next_u64 + Len(ds) <= MaxHandle
        /\ Become(Removed(Inserted(Now, hash, ds, via), old))
    BY <1>4 DEF hash, ds, via, old
  <2>3. /\ next_u64' = next_u64 + Len(ds) /\ IndexInv' /\ Evolves
        /\ DOMAIN u64_to_doc' =
              (DOMAIN u64_to_doc \cup (next_u64 + 1)..(next_u64 + Len(ds))) \ old
    BY <2>1, <2>2, InsertsKeep
  <2>4. QED
    BY <2>3 DEF ds, old
<1>6. QED
  BY <1>5

LEMMA FailKeeps ==
  ASSUME AgnoInv, NEW t \in Tasks, Fail(t)
  PROVE  /\ IndexInv' /\ UNCHANGED u64_to_doc
         /\ Exists' = Exists /\ next_u64 \in Nat /\ next_u64' \in Nat /\ next_u64 <= next_u64'
<1>1. task[t] \in Calls /\ mixed' = mixed /\ next_u64 \in Nat
  BY DEF AgnoInv, TaskInv, IndexInv, TableInv, Now, Fail, Resume
<1>2. CASE UNCHANGED tables
  <2>1. UNCHANGED <<index, u64_to_doc, str_to_u64, next_u64, content_hashes, name_to_ids, mixed>>
    BY <1>1, <1>2 DEF tables
  <2>2. TableInv(Now)' = TableInv(Now)
    BY <2>1 DEF TableInv, Now, HashesOf
  <2>3. IndexInv' = IndexInv /\ Exists' = Exists
    BY <2>1, <2>2 DEF IndexInv, HandlesMatch, Exists
  <2>4. QED
    BY <1>1, <2>1, <2>3 DEF AgnoInv
<1>3. CASE ~UNCHANGED tables
  <2>1. task[t].docs \in Batches
    BY <1>1 DEF Calls
  <2>2. Len(task[t].docs) \in Nat
    BY <2>1, BatchesAreSequences
  <2>3. Exists /\ next_u64 + Len(task[t].docs) <= MaxHandle /\ Refused(Len(task[t].docs))
    BY <1>3 DEF Fail
  <2>4. QED
    <3> DEFINE n == Len(task[t].docs)
    <3>1. n \in Nat /\ Exists /\ next_u64 + n <= MaxHandle /\ Refused(n) /\ IndexInv
      BY <2>2, <2>3 DEF AgnoInv
    <3> HIDE DEF n
    <3>2. /\ IndexInv' /\ Exists' /\ next_u64' = next_u64 + n
          /\ UNCHANGED <<u64_to_doc, index>>
      BY <1>1, <3>1, RefusedKeeps
    <3>3. next_u64' \in Nat /\ next_u64 <= next_u64'
      BY <1>1, <3>1, <3>2
    <3>4. Exists' = Exists
      BY <3>2 DEF Exists
    <3>5. QED
      BY <1>1, <3>2, <3>3, <3>4
<1>4. QED
  BY <1>2, <1>3

\* create, drop and a program that starts over.
LEMMA CreateKeeps ==
  ASSUME AgnoInv, Create
  PROVE  IndexInv'
<1>1. CASE Become([Now EXCEPT !.index = {}]) /\ UNCHANGED mixed
  <2> DEFINE t == [Now EXCEPT !.index = {}]
  <2>1. /\ DOMAIN t = {"index", "docs", "ids", "next", "hashes", "names"}
        /\ t.index = {} /\ t.docs = u64_to_doc /\ t.ids = str_to_u64 /\ t.next = next_u64
        /\ t.hashes = content_hashes /\ t.names = name_to_ids
    BY DEF Now
  <2>2. DOMAIN u64_to_doc = {}
    BY DEF Create, AgnoInv, IndexInv
  <2> HIDE DEF t
  <2>3. TableInv(t)
    BY <2>1 DEF AgnoInv, IndexInv, TableInv, Now
  <2>4. t.next <= MaxHandle /\ t.index \in SUBSET Handles /\ t.index = DOMAIN t.docs
    BY <2>1, <2>2 DEF AgnoInv, IndexInv
  <2>5. Become(t)
    BY <1>1 DEF t
  <2>6. QED
    BY <2>1, <2>2, <2>3, <2>4, <2>5, Becoming
<1>2. CASE /\ {NoFile, Torn} \cap {tvim, docstore} = {}
           /\ LET docs == docstore.docs
              IN  /\ Become([index |-> tvim, docs |-> docs, ids |-> Latest(docs),
                             next |-> docstore.next, hashes |-> HashesOf(docs),
                             names |-> LinksOf(docs, DOMAIN docs)])
                  /\ mixed' = (tvim # DOMAIN docs)
  <2> DEFINE docs == docstore.docs
             t == [index |-> tvim, docs |-> docs, ids |-> Latest(docs),
                   next |-> docstore.next, hashes |-> HashesOf(docs),
                   names |-> LinksOf(docs, DOMAIN docs)]
  <2>1. /\ t.index = tvim /\ t.docs = docs /\ t.ids = Latest(docs) /\ t.next = docstore.next
        /\ t.hashes = HashesOf(docs) /\ t.names = LinksOf(docs, DOMAIN docs)
        /\ DOMAIN t = {"index", "docs", "ids", "next", "hashes", "names"}
    OBVIOUS
  <2>2. Become(t) /\ (~mixed' => tvim = DOMAIN docs)
    BY <1>2
  <2>3. /\ docstore.next \in 0..MaxHandle /\ DOMAIN docs \subseteq 1..docstore.next
        /\ \A h \in DOMAIN docs : docs[h] \in StoredDocs
        /\ tvim \in SUBSET Handles
    BY <1>2 DEF AgnoInv, FileInv
  <2>4. docstore.next \in Nat /\ docstore.next <= MaxHandle
    <3>1. MaxHandle \in Nat
      BY AgnoConstantsOK
    <3>2. QED
      BY <2>3, <3>1
  <2> HIDE DEF t, docs
  <2>5. DOMAIN Latest(docs) = {docs[h].id : h \in DOMAIN docs}
    BY DEF Latest
  <2>6. \A i \in DOMAIN Latest(docs) : Latest(docs)[i] \in DOMAIN docs /\ docs[Latest(docs)[i]].id = i
    BY <2>3, <2>4, <2>5, LatestHome
  <2>7. LinksOf(docs, DOMAIN docs) \subseteq Names \X DocIds
    <3>1. \A h \in DOMAIN docs : docs[h].name # NoName => <<docs[h].name, docs[h].id>> \in Names \X DocIds
      BY <2>3 DEF StoredDocs
    <3>2. QED
      BY <3>1 DEF LinksOf
  <2>8. \A i \in DOMAIN Latest(docs) : docs[Latest(docs)[i]].name # NoName =>
          <<docs[Latest(docs)[i]].name, i>> \in LinksOf(docs, DOMAIN docs)
    BY <2>6 DEF LinksOf
  <2>9. TableInv(t)
    BY <2>1, <2>3, <2>4, <2>6, <2>7, <2>8 DEF TableInv
  <2>10. t.index # NoIndex
    BY <2>1, <2>3, MarkersOK DEF Handles
  <2>11. QED
    BY <2>1, <2>2, <2>3, <2>4, <2>9, <2>10, Becoming
<1>3. QED
  BY <1>1, <1>2 DEF Create

LEMMA NoTablesSound ==
  ASSUME Become(NoTables)
  PROVE  IndexInv' /\ DOMAIN u64_to_doc' = {} /\ ~Exists'
<1>1. DOMAIN EmptyMap = {}
  BY DEF EmptyMap
<1>2. /\ DOMAIN NoTables = {"index", "docs", "ids", "next", "hashes", "names"}
      /\ NoTables.index = NoIndex /\ NoTables.docs = EmptyMap /\ NoTables.ids = EmptyMap
      /\ NoTables.next = 0 /\ NoTables.hashes = {} /\ NoTables.names = {}
  BY DEF NoTables
<1>3. HashesOf(EmptyMap) = {}
  BY <1>1 DEF HashesOf
<1>4. TableInv(NoTables)
  BY <1>1, <1>2, <1>3 DEF TableInv
<1>5. 0 <= MaxHandle
  <2>1. MaxHandle \in Nat
    BY AgnoConstantsOK
  <2>2. QED
    BY <2>1
<1>6. QED
  BY <1>1, <1>2, <1>4, <1>5, Becoming DEF Become, Exists

\* dump of both files, and what is left of one that stops.
LEMMA SavesKeep ==
  ASSUME AgnoInv, Save \/ SaveFails
  PROVE  FileInv'
<1>1. /\ Exists /\ tvim' \in {Torn, index}
      /\ docstore' \in {docstore, Torn, [docs |-> u64_to_doc, next |-> next_u64]}
  BY DEF Save, SaveFails
<1>2. index \in SUBSET Handles
  BY <1>1 DEF AgnoInv, IndexInv, Exists
<1>3. next_u64 \in Nat /\ next_u64 <= MaxHandle /\ MaxHandle \in Nat
  <2>1. MaxHandle \in Nat
    BY AgnoConstantsOK
  <2>2. QED
    BY <2>1 DEF AgnoInv, IndexInv, TableInv, Now
<1>4. /\ DOMAIN u64_to_doc \subseteq 1..next_u64
      /\ \A h \in DOMAIN u64_to_doc : u64_to_doc[h] \in StoredDocs
  BY DEF AgnoInv, IndexInv, TableInv, Now
<1>5. CASE docstore' = [docs |-> u64_to_doc, next |-> next_u64]
  <2>1. docstore'.docs = u64_to_doc /\ docstore'.next = next_u64
    BY <1>5
  <2>2. QED
    BY <1>1, <1>2, <1>3, <1>4, <2>1 DEF FileInv
<1>6. CASE docstore' \in {docstore, Torn}
  BY <1>1, <1>2, <1>6 DEF AgnoInv, FileInv
<1>7. QED
  BY <1>1, <1>5, <1>6

\* A call begins to wait, with the generation it is to replace.
LEMMA BeginKeeps ==
  ASSUME AgnoInv, NEW t \in Tasks, NEW hash \in Hashes, NEW ds \in Batches,
         BeginUpsert(t, hash, ds) \/ BeginInsert(t, hash, ds), use' = use
  PROVE  /\ TaskInv' /\ UNCHANGED <<tables, files, mixed>>
         /\ \A s \in Tasks \ {t} : task'[s] = task[s]
         /\ task[t] = Idle
         /\ task'[t].hash = hash /\ task'[t].old \in {{}, HandlesUnder(u64_to_doc, hash)}
<1>1. HandlesUnder(u64_to_doc, hash) \subseteq Handles
  <2>1. MaxHandle \in Nat /\ next_u64 \in Nat
    <3>1. MaxHandle \in Nat
      BY AgnoConstantsOK
    <3>2. QED
      BY <3>1 DEF AgnoInv, IndexInv, TableInv, Now
  <2>2. DOMAIN u64_to_doc \subseteq 1..next_u64 /\ next_u64 <= MaxHandle
    BY DEF AgnoInv, IndexInv, TableInv, Now
  <2>3. DOMAIN u64_to_doc \subseteq Handles
    BY <2>1, <2>2 DEF Handles
  <2>4. QED
    BY <2>3 DEF HandlesUnder
<1>2. PICK call \in Calls : /\ task' = [task EXCEPT ![t] = call] /\ call.hash = hash
                            /\ call.old \in {{}, HandlesUnder(u64_to_doc, hash)}
  <2>1. CASE BeginUpsert(t, hash, ds)
    <3> DEFINE call == [hash |-> hash, docs |-> ds, via |-> "upsert",
                        old |-> HandlesUnder(u64_to_doc, hash), dropped |-> FALSE]
    <3>1. call \in Calls
      BY <1>1 DEF Calls
    <3>2. QED
      BY <2>1, <3>1 DEF BeginUpsert
  <2>2. CASE BeginInsert(t, hash, ds)
    <3> DEFINE call == [hash |-> hash, docs |-> ds, via |-> "insert", old |-> {},
                        dropped |-> FALSE]
    <3>1. call \in Calls
      BY DEF Calls
    <3>2. QED
      BY <2>2, <3>1 DEF BeginInsert
  <2>3. QED
    BY <2>1, <2>2
<1>3. task = [s \in Tasks |-> task[s]] /\ \A s \in Tasks : task[s] \in Calls \cup {Idle}
  BY DEF AgnoInv, TaskInv
<1>4. /\ task' = [s \in Tasks |-> task'[s]] /\ task'[t] = call
      /\ \A s \in Tasks \ {t} : task'[s] = task[s]
  BY <1>2, <1>3
<1>5. \A s \in Tasks : task'[s] \in Calls \cup {Idle}
  BY <1>2, <1>3, <1>4
<1>6. Calls' = Calls
  BY DEF Calls, Batches
<1>7. TaskInv'
  BY <1>4, <1>5, <1>6 DEF TaskInv
<1>8. QED
  BY <1>2, <1>4, <1>7 DEF BeginUpsert, BeginInsert

\* A drop marks the calls that wait and leaves them otherwise.
LEMMA DropKeepsCalls ==
  ASSUME TaskInv, use' = use, DropUnderCalls
  PROVE  /\ TaskInv'
         /\ \A t \in Tasks : IF task[t] = Idle THEN task'[t] = Idle ELSE task'[t].dropped
<1> DEFINE Marked(t) == IF task[t] = Idle THEN Idle ELSE [task[t] EXCEPT !.dropped = TRUE]
<1>1. Calls' = Calls
  BY DEF Calls, Batches
<1>2. ASSUME NEW call \in Calls
      PROVE  [call EXCEPT !.dropped = TRUE] \in Calls /\ [call EXCEPT !.dropped = TRUE].dropped
  <2> DEFINE B == Batches
  <2> HIDE DEF B
  <2>1. Calls = [hash : Hashes, docs : B, via : {"insert", "upsert"}, old : SUBSET Handles,
                 dropped : BOOLEAN]
    BY DEF Calls, B
  <2>2. QED
    BY <1>2, <2>1
<1>3. \A t \in Tasks : Marked(t) \in Calls \cup {Idle}
  BY <1>2 DEF TaskInv
<1>4. task' = [t \in Tasks |-> Marked(t)]
  BY DEF DropUnderCalls
<1>5. \A t \in Tasks : IF task[t] = Idle THEN Marked(t) = Idle ELSE Marked(t).dropped
  BY <1>2 DEF TaskInv
<1> HIDE DEF Marked
<1>6. \A t \in Tasks : task'[t] = Marked(t)
  BY <1>4
<1>7. task' = [t \in Tasks |-> task'[t]]
  BY <1>4
<1>8. TaskInv'
  BY <1>1, <1>3, <1>6, <1>7 DEF TaskInv
<1>9. QED
  BY <1>5, <1>6, <1>8

LEMMA AgnoStep ==
  ASSUME AgnoInv, [Next]_vars
  PROVE  AgnoInv'
<1>1. /\ use \in DOMAIN Uses /\ IndexInv /\ FileInv /\ TaskInv
      /\ task = [t \in Tasks |-> task[t]]
      /\ \A t \in Tasks : task[t] \in Calls \cup {Idle}
  BY DEF AgnoInv, TaskInv
<1>2. use' = use
  BY DEF Next, vars
<1>3. Calls' = Calls
  BY <1>2 DEF Calls, Batches
<1>4. UNCHANGED files => FileInv'
  BY <1>1 DEF FileInv, files
<1>5. UNCHANGED task => TaskInv'
  BY <1>1, <1>3 DEF TaskInv
<1>6. UNCHANGED <<tables, mixed>> => IndexInv'
  <2> SUFFICES ASSUME UNCHANGED <<tables, mixed>>
               PROVE  IndexInv'
    OBVIOUS
  <2>1. UNCHANGED <<index, u64_to_doc, str_to_u64, next_u64, content_hashes, name_to_ids, mixed>>
    BY DEF tables
  <2>2. TableInv(Now)' = TableInv(Now)
    BY <2>1 DEF TableInv, Now, HashesOf
  <2>3. QED
    BY <1>1, <2>1, <2>2 DEF IndexInv, HandlesMatch, Exists
<1>7. ASSUME NEW hash \in Hashes, NEW ds \in Batches, Insert(hash, ds) \/ Upsert(hash, ds)
      PROVE  AgnoInv'
  BY <1>1, <1>2, <1>4, <1>5, <1>7, InsertKeeps, UpsertKeeps DEF AgnoInv, Insert, Upsert
<1>8. ASSUME NEW hash \in Hashes, NEW ds \in Batches, NEW t \in Tasks,
             BeginUpsert(t, hash, ds) \/ BeginInsert(t, hash, ds)
      PROVE  AgnoInv'
  <2>1. TaskInv' /\ UNCHANGED <<tables, files, mixed>>
    BY <1>2, <1>8, BeginKeeps
  <2>2. QED
    BY <1>1, <1>2, <1>4, <1>6, <2>1 DEF AgnoInv
<1>9. ASSUME NEW t \in Tasks, Finish(t) \/ Fail(t)
      PROVE  AgnoInv'
  <2>1. IndexInv'
    BY <1>9, FinishKeeps, FailKeeps
  <2>2. task' = [task EXCEPT ![t] = Idle] /\ UNCHANGED files
    BY <1>9 DEF Finish, Fail, Resume
  <2>3. TaskInv'
    BY <1>1, <1>3, <2>2 DEF TaskInv
  <2>4. QED
    BY <1>1, <1>2, <1>4, <2>1, <2>2, <2>3 DEF AgnoInv
<1>10. ASSUME NEW is, DeleteIds(is)
       PROVE  AgnoInv'
  BY <1>1, <1>2, <1>4, <1>5, <1>10, DeleteKeeps DEF AgnoInv, DeleteIds
<1>11. ASSUME NEW c, NEW facts \in SUBSET Facts, UpdateMetadata(c, facts)
       PROVE  AgnoInv'
  BY <1>1, <1>2, <1>4, <1>5, <1>11, UpdateKeeps DEF AgnoInv, UpdateMetadata
<1>12. CASE Create
  BY <1>1, <1>2, <1>4, <1>5, <1>12, CreateKeeps DEF AgnoInv, Create
<1>13. CASE Drop
  BY <1>1, <1>2, <1>4, <1>13, NoTablesSound, DropKeepsCalls DEF AgnoInv, Drop
<1>14. CASE Save \/ SaveFails
  BY <1>1, <1>2, <1>5, <1>6, <1>14, SavesKeep DEF AgnoInv, Save, SaveFails
<1>15. CASE Restart
  <2>1. TaskInv'
    BY <1>15 DEF TaskInv, Restart
  <2>2. QED
    BY <1>1, <1>2, <1>4, <1>15, <2>1, NoTablesSound DEF AgnoInv, Restart
<1>16. CASE UNCHANGED vars
  BY <1>1, <1>2, <1>4, <1>5, <1>6, <1>16 DEF AgnoInv, vars
<1>17. CASE Calling
  <2>1. ASSUME NEW i, DeleteById(i)
        PROVE  AgnoInv'
    BY <1>10, <2>1 DEF DeleteById
  <2>2. ASSUME NEW n, DeleteByName(n)
        PROVE  AgnoInv'
    BY <1>10, <2>2 DEF DeleteByName
  <2>3. ASSUME NEW c, DeleteByContentId(c)
        PROVE  AgnoInv'
    BY <1>10, <2>3 DEF DeleteByContentId
  <2>4. ASSUME NEW facts, DeleteByMetadata(facts)
        PROVE  AgnoInv'
    BY <1>10, <2>4 DEF DeleteByMetadata
  <2>5. QED
    BY <1>7, <1>8, <1>9, <1>11, <1>12, <1>13, <1>14, <1>15, <1>17, <2>1, <2>2, <2>3, <2>4
       DEF Calling
<1>18. QED
  BY <1>16, <1>17 DEF Next

LEMMA AgnoStart == Init => AgnoInv
<1> SUFFICES ASSUME Init PROVE AgnoInv
  OBVIOUS
<1>1. DOMAIN EmptyMap = {}
  BY DEF EmptyMap
<1>2. HashesOf(u64_to_doc) = {}
  BY <1>1 DEF Init, HashesOf
<1>3. TableInv(Now)
  BY <1>1, <1>2 DEF Init, TableInv, Now
<1>4. MaxHandle \in Nat
  BY AgnoConstantsOK
<1>5. IndexInv
  BY <1>1, <1>3, <1>4 DEF Init, IndexInv, HandlesMatch, Exists
<1>6. QED
  BY <1>5 DEF Init, AgnoInv, FileInv, TaskInv

\* Documents, dictionaries, counter, files and waiting calls have their types
\* (TurboQuantVectorDb of agno.py).
THEOREM AgnoTypeCorrect == Spec => []TypeOK
<1>1. AgnoInv => TypeOK
  <2> SUFFICES ASSUME AgnoInv PROVE TypeOK
    OBVIOUS
  <2>1. /\ next_u64 \in Nat /\ next_u64 <= MaxHandle /\ DOMAIN u64_to_doc \subseteq 1..next_u64
        /\ \A h \in DOMAIN u64_to_doc : u64_to_doc[h] \in StoredDocs
        /\ \A i \in DOMAIN str_to_u64 :
              str_to_u64[i] \in DOMAIN u64_to_doc /\ u64_to_doc[str_to_u64[i]].id = i
        /\ content_hashes = HashesOf(u64_to_doc) /\ name_to_ids \subseteq Names \X DocIds
    BY DEF AgnoInv, IndexInv, TableInv, Now
  <2>2. MaxHandle \in Nat
    BY AgnoConstantsOK
  <2>3. next_u64 \in 0..MaxHandle /\ DOMAIN u64_to_doc \subseteq Handles
    BY <2>1, <2>2 DEF Handles
  <2>4. \A h \in DOMAIN u64_to_doc : u64_to_doc[h].id \in DocIds /\ u64_to_doc[h].hash \in Hashes
    BY <2>1 DEF StoredDocs
  <2>5. DOMAIN str_to_u64 \subseteq DocIds /\ content_hashes \subseteq Hashes
    BY <2>1, <2>4 DEF HashesOf
  <2>6. QED
    BY <2>1, <2>3, <2>5 DEF AgnoInv, IndexInv, FileInv, TaskInv, TypeOK
<1>2. QED
  BY <1>1, AgnoStart, AgnoStep, PTL DEF Spec

\* The index holds a vector for each document and no other, through batches,
\* upserts, deletes, refused adds, drops and loads, unless a save left files
\* that do not belong together (insert, upsert, _remove_handle and
\* _load_from).
THEOREM HandlesStayMatched == Spec => []HandlesMatch
<1>1. AgnoInv => HandlesMatch
  BY DEF AgnoInv, IndexInv
<1>2. QED
  BY <1>1, AgnoStart, AgnoStep, PTL DEF Spec

\* Ids, content hashes and names answer for the documents that are stored, even
\* when several handles share an id, for batches of any size (_remove_handle and
\* delete_by_id).
THEOREM LookupsStayTrue == Spec => []LookupsAgree
<1>1. AgnoInv => LookupsAgree
  BY DEF AgnoInv, IndexInv, TableInv, Now, LookupsAgree, IdsPointHome, HashesExact, NamesReach
<1>2. QED
  BY <1>1, AgnoStart, AgnoStep, PTL DEF Spec

\* The counter stays above every handle in use, also after loads of any files a
\* save can leave (_issue_handle).
THEOREM HandlesStayFresh == Spec => []HandlesFresh
<1>1. AgnoInv => HandlesFresh
  <2> SUFFICES ASSUME AgnoInv PROVE HandlesFresh
    OBVIOUS
  <2>1. next_u64 \in Nat /\ DOMAIN u64_to_doc \subseteq 1..next_u64
    BY DEF AgnoInv, IndexInv, TableInv, Now
  <2>2. QED
    BY <2>1 DEF HandlesFresh
<1>2. QED
  BY <1>1, AgnoStart, AgnoStep, PTL DEF Spec

-----------------------------------------------------------------------------
\* Generations.

\* A call under which the store was not dropped holds handles of its own
\* content hash only, among those that were issued.
OldInv ==
  \A t \in Tasks : task[t] # Idle /\ ~task[t].dropped =>
    /\ ~Exists => task[t].old = {}
    /\ \A h \in task[t].old :
         /\ h \in Nat /\ h <= next_u64
         /\ h \in DOMAIN u64_to_doc => u64_to_doc[h].hash = task[t].hash

\* Calls that waited still hold what they held, after steps of others.
LEMMA OldKept ==
  ASSUME AgnoInv, OldInv, Evolves, next_u64' \in Nat,
         NEW t \in Tasks, task[t] # Idle, ~task[t].dropped
  PROVE  /\ ~Exists' => task[t].old = {}
         /\ \A h \in task[t].old :
              /\ h \in Nat /\ h <= next_u64'
              /\ h \in DOMAIN u64_to_doc' => u64_to_doc'[h].hash = task[t].hash
<1>1. next_u64 \in Nat
  BY DEF AgnoInv, IndexInv, TableInv, Now
<1>2. QED
  BY <1>1 DEF OldInv, Evolves

LEMMA OldStep ==
  ASSUME AgnoInv, AgnoInv', OldInv, [Next]_vars
  PROVE  OldInv'
<1>1. /\ next_u64 \in Nat /\ next_u64' \in Nat /\ use' = use
      /\ DOMAIN u64_to_doc \subseteq 1..next_u64
      /\ ~Exists => DOMAIN u64_to_doc = {}
      /\ task = [t \in Tasks |-> task[t]]
  BY DEF AgnoInv, IndexInv, TaskInv, TableInv, Now, Next, vars
<1> DEFINE Old(t) == /\ ~Exists' => task'[t].old = {}
                     /\ \A h \in task'[t].old :
                          /\ h \in Nat /\ h <= next_u64'
                          /\ h \in DOMAIN u64_to_doc' => u64_to_doc'[h].hash = task'[t].hash
<1>3. SUFFICES ASSUME NEW t \in Tasks, task'[t] # Idle, ~task'[t].dropped
               PROVE  Old(t)
  BY DEF OldInv
<1>4. CASE Evolves /\ task'[t] = task[t]
  BY <1>1, <1>3, <1>4, OldKept
<1>5. CASE UNCHANGED <<index, u64_to_doc, next_u64>> /\ task'[t] = task[t]
  BY <1>3, <1>5 DEF OldInv, Exists
<1>6. CASE Create
  <2>1. task'[t] = task[t] /\ task[t].old = {}
    BY <1>3, <1>6 DEF Create, OldInv
  <2>2. QED
    BY <2>1
<1>7. CASE Drop
  BY <1>1, <1>3, <1>7, DropKeepsCalls DEF AgnoInv, Drop
<1>8. CASE Restart
  BY <1>3, <1>8 DEF Restart
<1>9. ASSUME NEW s \in Tasks, Finish(s) \/ Fail(s)
      PROVE  Old(t)
  <2>1. task' = [task EXCEPT ![s] = Idle]
    BY <1>9 DEF Finish, Fail, Resume
  <2>2. task'[t] = task[t]
    BY <1>1, <1>3, <2>1
  <2>3. CASE Finish(s)
    BY <1>4, <2>2, <2>3, FinishKeeps
  <2>4. CASE Fail(s)
    <3>1. /\ UNCHANGED u64_to_doc /\ Exists' = Exists /\ next_u64 <= next_u64'
      BY <2>4, FailKeeps
    <3>2. QED
      BY <1>1, <1>3, <2>2, <3>1 DEF OldInv
  <2>5. QED
    BY <1>9, <2>3, <2>4
<1>10. ASSUME NEW hash \in Hashes, NEW ds \in Batches, NEW s \in Tasks,
              BeginUpsert(s, hash, ds) \/ BeginInsert(s, hash, ds)
       PROVE  Old(t)
  <2>1. /\ UNCHANGED <<index, u64_to_doc, next_u64>>
        /\ \A r \in Tasks \ {s} : task'[r] = task[r]
        /\ task'[s].hash = hash /\ task'[s].old \in {{}, HandlesUnder(u64_to_doc, hash)}
    BY <1>1, <1>10, BeginKeeps DEF tables
  <2>2. CASE t = s
    BY <1>1, <2>1, <2>2 DEF HandlesUnder, Exists
  <2>3. CASE t # s
    BY <1>5, <2>1, <2>3
  <2>4. QED
    BY <2>2, <2>3
<1>11. ASSUME NEW is, DeleteIds(is)
       PROVE  Old(t)
  BY <1>4, <1>11, DeleteKeeps DEF DeleteIds
<1>12. CASE UNCHANGED vars
  BY <1>5, <1>12 DEF vars, tables
<1>13. CASE Calling
  <2>1. ASSUME NEW hash \in Hashes, NEW ds \in Batches, Insert(hash, ds) \/ Upsert(hash, ds)
        PROVE  Old(t)
    BY <1>4, <2>1, InsertKeeps, UpsertKeeps DEF Insert, Upsert
  <2>2. ASSUME NEW c, NEW facts \in SUBSET Facts, UpdateMetadata(c, facts)
        PROVE  Old(t)
    BY <1>4, <2>2, UpdateKeeps DEF UpdateMetadata
  <2>3. CASE Save \/ SaveFails
    BY <1>5, <2>3 DEF Save, SaveFails, tables
  <2>4. ASSUME \E i : DeleteById(i) \/ DeleteByName(i) \/ DeleteByContentId(i) \/ DeleteByMetadata(i)
        PROVE  Old(t)
    BY <1>11, <2>4 DEF DeleteById, DeleteByName, DeleteByContentId, DeleteByMetadata
  <2> HIDE DEF Old
  <2>5. QED
    BY <1>6, <1>7, <1>8, <1>9, <1>10, <1>13, <2>1, <2>2, <2>3, <2>4 DEF Calling
<1>14. QED
  BY <1>12, <1>13 DEF Next

\* A call that comes back from its await removes documents of its own content
\* hash only, whatever ran meanwhile, and never what it just inserted, unless
\* the store was dropped under this very call (async_upsert and async_insert).
THEOREM GenerationsStayApart == Spec => OnlyOwnGeneration
<1> DEFINE Apart == \A t \in Tasks :
                      task[t] # Idle /\ ~task[t].dropped /\ task'[t] = Idle /\ index' # NoIndex =>
                      /\ \A h \in DOMAIN u64_to_doc :
                           u64_to_doc[h].hash # task[t].hash => h \in DOMAIN u64_to_doc'
                      /\ Finish(t) => (next_u64 + 1)..next_u64' \subseteq DOMAIN u64_to_doc'
<1>1. Init => OldInv
  BY DEF Init, OldInv
<1>2. ASSUME AgnoInv, OldInv, NEW t \in Tasks, Finish(t), ~task[t].dropped
      PROVE  /\ \A h \in DOMAIN u64_to_doc :
                  u64_to_doc[h].hash # task[t].hash => h \in DOMAIN u64_to_doc'
             /\ (next_u64 + 1)..next_u64' \subseteq DOMAIN u64_to_doc'
  <2>1. DOMAIN u64_to_doc' = (DOMAIN u64_to_doc \cup (next_u64 + 1)..next_u64') \ task[t].old
    BY <1>2, FinishKeeps
  <2>2. \A h \in task[t].old : /\ h \in Nat /\ h <= next_u64
                               /\ h \in DOMAIN u64_to_doc => u64_to_doc[h].hash = task[t].hash
    BY <1>2 DEF OldInv, Finish, Resume
  <2>3. next_u64 \in Nat
    BY <1>2 DEF AgnoInv, IndexInv, TableInv, Now
  <2>4. \A h \in (next_u64 + 1)..next_u64' : h \notin task[t].old
    BY <2>2, <2>3
  <2>5. QED
    BY <2>1, <2>2, <2>4
<1>3. ASSUME AgnoInv, OldInv, Next, NEW t \in Tasks,
             task[t] # Idle, task'[t] = Idle, index' # NoIndex
      PROVE  Finish(t) \/ UNCHANGED u64_to_doc
  <2>1. task = [s \in Tasks |-> task[s]]
    BY <1>3 DEF AgnoInv, TaskInv
  <2>2. PICK s \in Tasks : Finish(s) \/ Fail(s)
    <3>1. ~UNCHANGED task
      BY <1>3
    <3>2. ~Restart
      BY <1>3 DEF Restart, Become, NoTables
    <3>3. ASSUME NEW s \in Tasks, NEW hash, NEW ds
          PROVE  ~BeginUpsert(s, hash, ds) /\ ~BeginInsert(s, hash, ds)
      BY <1>3, <2>1 DEF BeginUpsert, BeginInsert
    <3>4. ~Drop
      BY <1>3 DEF Drop, Become, NoTables
    <3>5. QED
      BY <1>3, <3>1, <3>2, <3>3, <3>4
         DEF Next, Calling, Insert, Upsert, DeleteById, DeleteByName, DeleteByContentId,
             DeleteByMetadata, DeleteIds, UpdateMetadata, Create, Save, SaveFails
  <2>3. s = t
    BY <1>3, <2>1, <2>2 DEF Finish, Fail, Resume
  <2>4. QED
    BY <1>3, <2>2, <2>3, FailKeeps
<1>4. AgnoInv /\ OldInv /\ [Next]_vars => [Apart]_vars
  BY <1>2, <1>3
<1>5. AgnoInv /\ AgnoInv' /\ OldInv /\ [Next]_vars => OldInv'
  BY OldStep
<1>6. QED
  BY <1>1, <1>4, <1>5, AgnoStart, AgnoStep, PTL DEF Spec, OnlyOwnGeneration

=============================================================================
