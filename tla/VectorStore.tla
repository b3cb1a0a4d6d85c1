----------------------------- MODULE VectorStore -----------------------------
(***************************************************************************)
(* What an id-addressed vector index promises its caller: a partial map    *)
(* from stable external ids to vectors, with at most one saved copy of it. *)
(* No slots, no caches, no calibration.  IdMapIndex and GraphMemory        *)
(* implement this specification (id_map.rs, module comment, lines 1-13).   *)
(***************************************************************************)

CONSTANTS Ids,        \* external identifiers (u64)
          Vectors,    \* embeddings, compared only for identity
          NoSaved     \* there is no usable saved copy

VARIABLES store,      \* partial function from Ids to Vectors
          saved       \* the saved copy of a store, or NoSaved

vars == <<store, saved>>

\* Every map from some of the ids to vectors.
Stores == UNION {[S -> Vectors] : S \in SUBSET Ids}

EmptyStore == [i \in {} |-> NoSaved]

Init == /\ store = EmptyStore
        /\ saved \in Stores \cup {NoSaved}

\* A batch of new ids becomes visible at once, and disturbs no other id.
Put == /\ store' \in Stores
       /\ DOMAIN store \subseteq DOMAIN store'
       /\ \A i \in DOMAIN store : store'[i] = store[i]
       /\ UNCHANGED saved

\* One id gets another vector, under the same name.
Replace(id) == /\ id \in DOMAIN store
               /\ \E v \in Vectors : store' = [store EXCEPT ![id] = v]
               /\ UNCHANGED saved

\* One id disappears; every other id keeps its vector.
Delete(id) == /\ id \in DOMAIN store
              /\ store' = [i \in DOMAIN store \ {id} |-> store[i]]
              /\ UNCHANGED saved

\* Saving overwrites in place, so the old copy is gone before the new one
\* is complete.
BeginSave == saved' = NoSaved /\ UNCHANGED store

EndSave == saved' = store /\ UNCHANGED store

\* Loading replaces the store by exactly what was saved.
Restore == /\ saved # NoSaved
           /\ store' = saved
           /\ UNCHANGED saved

\* The process dies and restarts with an empty store.
Forget == store' = EmptyStore /\ UNCHANGED saved

Next == \/ Put
        \/ \E id \in Ids : Delete(id) \/ Replace(id)
        \/ BeginSave
        \/ EndSave
        \/ Restore
        \/ Forget

Spec == Init /\ [][Next]_vars

=============================================================================
