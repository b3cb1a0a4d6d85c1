----------------------------- MODULE IdMapIndex -----------------------------
(***************************************************************************)
(* Stable external ids over the positional index                           *)
(* (turbo-graph/src/id_map.rs).  Every operation of the inner index runs   *)
(* under one of these, which mirrors it in the two id tables.              *)
(***************************************************************************)
EXTENDS TurboQuantIndex

VARIABLES
  slot_to_id,   \* id of the vector in each slot
  id_to_slot,   \* partial function from Ids to slots
  allow,        \* per thread: the ids its search was asked to consider
  mask          \* per thread: the slots that allowlist was turned into

tables == <<slot_to_id, id_to_slot>>
queries == <<allow, mask>>
idvars == <<vars, tables, queries>>

NoIds == [i \in {} |-> 0]
IdSeqs(n) == {ids \in [1..n -> Ids] : IsDistinct(ids)}

\* Mutant: key and value of the table are swapped.
SwappedTableOf(ids) == [s \in 1..Len(ids) |-> ids[s]]

\* The table that sends each id of a slot array back to its slot.
TableOf(ids) == [i \in Elements(ids) |-> PositionIn(ids, i)]

\* The vector each id names.
Contents(ids, rows) == [i \in Elements(ids) |-> rows[PositionIn(ids, i)].vec]

-----------------------------------------------------------------------------

\* Mutants: ids are not checked against each other; ids enter the tables
\* although the inner index refuses the batch.
AddRepeated(d, vs, ids) ==
  /\ d # 0 /\ Elements(ids) \cap DOMAIN id_to_slot = {}
  /\ Add(d, vs)
  /\ id_to_slot' = [i \in DOMAIN id_to_slot \cup Elements(ids) |->
                      IF i \in Elements(ids) THEN n_vectors + PositionIn(ids, i)
                                             ELSE id_to_slot[i]]
  /\ slot_to_id' = slot_to_id \o ids
  /\ UNCHANGED queries

AddGhosts(d, vs, ids) ==
  /\ d # 0 /\ Elements(ids) \cap DOMAIN id_to_slot = {} /\ IsDistinct(ids)
  /\ \/ Add(d, vs)
     \/ Elements(vs) \cap BadVectors # {} /\ Exclusive /\ UNCHANGED vars
  /\ id_to_slot' = [i \in DOMAIN id_to_slot \cup Elements(ids) |->
                      IF i \in Elements(ids) THEN n_vectors + PositionIn(ids, i)
                                             ELSE id_to_slot[i]]
  /\ slot_to_id' = slot_to_id \o ids
  /\ UNCHANGED queries

\* add_with_ids_2d: ids are checked against the index and against each other
\* before the inner index is touched, and enter the tables after it accepted.
AddWithIds(d, vs, ids) ==
  /\ d # 0
  /\ Len(ids) = Len(vs)
  /\ Elements(ids) \cap DOMAIN id_to_slot = {} /\ IsDistinct(ids)
  /\ Add(d, vs)
  /\ id_to_slot' = [i \in DOMAIN id_to_slot \cup Elements(ids) |->
                      IF i \in Elements(ids) THEN n_vectors + PositionIn(ids, i)
                                             ELSE id_to_slot[i]]
  /\ slot_to_id' = slot_to_id \o ids
  /\ UNCHANGED queries

\* The same call with an empty batch.  Unlike add_2d it refuses dimension 0
\* and a ragged buffer before anything is committed.
AddNoIds(d) ==
  /\ d # 0
  /\ AddNothing(d)
  /\ UNCHANGED <<tables, queries>>

\* Mutant: the id table shifts (Vec::remove) while the index swaps.
RemoveShifting(id) ==
  /\ id \in DOMAIN id_to_slot
  /\ LET slot == id_to_slot[id]
         last == Len(slot_to_id)
     IN  /\ SwapRemoveSlot(slot)
         /\ id_to_slot' = [i \in DOMAIN id_to_slot \ {id} |->
                             IF slot # last /\ i = slot_to_id[last]
                             THEN slot ELSE id_to_slot[i]]
         /\ slot_to_id' = SubSeq(slot_to_id, 1, slot - 1) \o SubSeq(slot_to_id, slot + 1, last)
  /\ UNCHANGED queries

\* remove: swap-and-pop in the inner index, mirrored in both tables.
Remove(id) ==
  /\ id \in DOMAIN id_to_slot
  /\ LET slot == id_to_slot[id]
         last == Len(slot_to_id)
     IN  /\ SwapRemoveSlot(slot)
         /\ id_to_slot' = [i \in DOMAIN id_to_slot \ {id} |->
                             IF slot # last /\ i = slot_to_id[last]
                             THEN slot ELSE id_to_slot[i]]
         /\ slot_to_id' = SwapRemove(slot_to_id, slot)
  /\ UNCHANGED queries

\* search_with_allowlist: an empty or unknown allowlist is refused; without
\* one every slot is allowed.  The mask is built before the inner search.
SearchIds(t, ids) ==
  /\ ids \subseteq DOMAIN id_to_slot
  /\ ids # {} \/ DOMAIN id_to_slot = {}
  /\ BeginSearch(t)
  /\ allow' = [allow EXCEPT ![t] = ids]
  /\ mask' = [mask EXCEPT ![t] = {id_to_slot[i] : i \in ids}]
  /\ UNCHANGED tables

\* The inner search runs under the same borrow as the translation back.
Within(t) ==
  /\ \/ FindBlocked(t) \/ BeginRepack(t) \/ EndRepack(t)
     \/ BeginWrite(t) \/ EndWrite(t, slot_to_id)
  /\ UNCHANGED <<tables, queries>>

ReturnHits(t) ==
  /\ EndSearch(t)
  /\ allow' = [allow EXCEPT ![t] = {}]
  /\ mask' = [mask EXCEPT ![t] = {}]
  /\ UNCHANGED tables

\* load: both tables come from the ids stored in slot order; a file with a
\* repeated id is refused.
LoadIds ==
  /\ HasImage
  /\ IsDistinct(file.ids)
  /\ Load
  /\ slot_to_id' = file.ids
  /\ id_to_slot' = TableOf(file.ids)
  /\ UNCHANGED queries

RestartIds(d) ==
  /\ Restart(d)
  /\ slot_to_id' = << >>
  /\ id_to_slot' = NoIds
  /\ allow' = [t \in Threads |-> {}]
  /\ mask' = [t \in Threads |-> {}]

-----------------------------------------------------------------------------

LegacyIdFiles == {LegacyImage(d, vs, ids) : d \in LegalDims, vs \in ValidBatches,
                    ids \in UNION {IdSeqs(n) : n \in 1..MaxBatch}}

InitIds ==
  /\ dim \in Constructors /\ n_vectors = 0
  /\ codes = << >> /\ scales = << >> /\ calib = NoCal
  /\ blocked = NoCache /\ rotation = NoDim
  /\ pc = [t \in Threads |-> "idle"]
  /\ file \in {img \in LegacyIdFiles : img.n = Len(img.ids)} \cup {NoFile}
  /\ slot_to_id = << >>
  /\ id_to_slot = NoIds
  /\ allow = [t \in Threads |-> {}]
  /\ mask = [t \in Threads |-> {}]

NextIds ==
  \/ \E d \in Dims, vs \in Batches : \E ids \in [1..Len(vs) -> Ids] : AddWithIds(d, vs, ids)
  \/ \E d \in Dims : AddNoIds(d)
  \/ \E id \in Ids : Remove(id)
  \/ \E t \in Threads : \/ \E ids \in SUBSET Ids : SearchIds(t, ids)
                        \/ Within(t)
                        \/ ReturnHits(t)
  \/ LoadIds
  \/ \E d \in Constructors : RestartIds(d)

SpecIds == InitIds /\ [][NextIds]_idvars

-----------------------------------------------------------------------------
\* Properties.

TypeOKIds ==
  /\ TypeOK
  /\ slot_to_id \in Seq(Ids)
  /\ DOMAIN id_to_slot \subseteq Ids
  /\ id_to_slot \in [DOMAIN id_to_slot -> Nat]
  /\ allow \in [Threads -> SUBSET Ids]
  /\ mask \in [Threads -> SUBSET Nat]

\* The two tables are inverse to each other and cover exactly the slots of
\* the inner index, so no id is a ghost and no slot is anonymous, after any
\* mix of batch adds, swap removals and loads ("kept in sync").
TablesInverse ==
  /\ Len(slot_to_id) = n_vectors
  /\ DOMAIN id_to_slot = Elements(slot_to_id)
  /\ \A s \in 1..Len(slot_to_id) : id_to_slot[slot_to_id[s]] = s

\* A search reports exactly ids from its allowlist: the slots it masked at
\* the start still hold those ids when they are translated back.
HitsAreAllowed ==
  \A t \in Threads : pc[t] \in {"search", "repack", "score"} =>
    /\ mask[t] \subseteq 1..Len(slot_to_id)
    /\ {slot_to_id[s] : s \in mask[t]} = allow[t]

StoredVectors == Contents(slot_to_id, codes)
SavedVectors == IF HasImage THEN Contents(file.ids, file.codes) ELSE NoFile

\* The markers are neither file contents nor maps.
ASSUME MarkersOK ==
  /\ NoFile \notin Images
  /\ Torn \notin Images
  /\ NoFile \notin UNION {[S -> Vectors] : S \in SUBSET Ids}

Store == INSTANCE VectorStore WITH store <- StoredVectors, saved <- SavedVectors,
                                   NoSaved <- NoFile

\* An id-mapped index is a map from ids to vectors: moving rows between
\* slots, calibrating, caching, saving and loading are invisible through it.
ImplementsVectorStore == Store!Spec

=============================================================================
