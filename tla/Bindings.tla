------------------------------ MODULE Bindings ------------------------------
(***************************************************************************)
(* The Python class IdMapIndex (turbo-graph-python/src/lib.rs): the        *)
(* index behind the borrow checks of the extension.  A method runs under   *)
(* the interpreter's lock and borrows its object, shared or exclusive;     *)
(* add, search and write copy their arguments, check them, and work        *)
(* without the lock while the borrow stays.  A borrow that conflicts is    *)
(* never waited for: the call raises.                                      *)
(*                                                                         *)
(* Abstractions.  One thread adds and removes, others search.  The index   *)
(* is a map from handles to vectors (VectorStore; IdMapIndex implements    *)
(* it).  A search answers with one hit of those it may.                    *)
(***************************************************************************)
EXTENDS Integers, FiniteSets, Slots

CONSTANTS
  Vectors,
  BadVectors,  \* those add refuses: not finite
  Readers,     \* threads that search
  MaxHandle,   \* bound: handles issued
  Anything     \* no allowlist

ASSUME BindingsConstantsOK ==
  BadVectors \subseteq Vectors /\ MaxHandle \in Nat

VARIABLES
  object,   \* which index object is in use
  index,    \* its contents: partial function from handles to vectors
  adding,   \* the pairs <<handle, vector>> an add has copied, or << >>
  reading   \* per reader: Resting, or its search
bindingVars == <<object, index, adding, reading>>

Handles == 1..MaxHandle
EmptyFn == [x \in {} |-> x]
Resting == [stage |-> "resting"]

\* The borrows of the object in use.  A search of an object that was replaced
\* borrows that one.
SharedBy(r) == reading[r].stage = "scoring" /\ reading[r].object = object
Exclusive == adding # << >>

\* Mutant: nobody looks.
NeverBorrowed == FALSE

\* Somebody holds a borrow, so that an exclusive one is refused.
Borrowed == Exclusive \/ \E r \in Readers : SharedBy(r)

\* add_with_ids, up to the release of the lock.  An add of nothing is left out.
EnterAdd(pairs) ==
  /\ ~Borrowed
  /\ adding' = pairs
  /\ UNCHANGED <<object, index, reading>>

\* Whether the index takes them: new handles, all different, finite vectors.
Acceptable(pairs) ==
  LET handles == [n \in DOMAIN pairs |-> pairs[n][1]]
  IN  /\ IsDistinct(handles)
      /\ Elements(handles) \cap DOMAIN index = {}
      /\ \A n \in DOMAIN pairs : pairs[n][2] \notin BadVectors

\* The rest of add_with_ids: all are added, or none and it raises.
AddReturns ==
  /\ Exclusive
  /\ index' = IF Acceptable(adding)
              THEN [h \in DOMAIN index \cup {adding[n][1] : n \in DOMAIN adding} |->
                      IF h \in DOMAIN index THEN index[h]
                      ELSE adding[CHOOSE n \in DOMAIN adding : adding[n][1] = h][2]]
              ELSE index
  /\ adding' = << >>
  /\ UNCHANGED <<object, reading>>

\* remove keeps the lock.  It tells whether the handle was there.
Remove(h) ==
  /\ ~Borrowed
  /\ index' = [g \in DOMAIN index \ {h} |-> index[g]]
  /\ UNCHANGED <<object, adding, reading>>

\* search, up to the release of the lock: over is what its borrow protects.
\* It raises when it cannot borrow, or knows no vector for an allowed handle.
EnterSearch(r) ==
  /\ reading[r].stage = "asked"
  /\ reading' = [reading EXCEPT ![r] =
       IF ~Exclusive /\ (reading[r].allow = Anything \/ reading[r].allow \subseteq DOMAIN index)
       THEN [stage |-> "scoring", allow |-> reading[r].allow, object |-> object, over |-> index]
       ELSE Resting]
  /\ UNCHANGED <<object, index, adding>>

\* What search finds in the index it borrowed.
Found(s) ==
  LET handles == IF s.allow = Anything THEN DOMAIN s.over ELSE s.allow
  IN  {[stage |-> "found", handle |-> h, vector |-> s.over[h], object |-> s.object] : h \in handles}

\* The rest of search: the borrow ends with it.
SearchReturns(r) ==
  /\ reading[r].stage = "scoring"
  /\ \E answer \in IF Found(reading[r]) = {} THEN {Resting} ELSE Found(reading[r]) :
       reading' = [reading EXCEPT ![r] = answer]
  /\ UNCHANGED <<object, index, adding>>

\* A new object: nothing borrows it yet.
Replace(contents) ==
  /\ object' = object + 1
  /\ index' = contents /\ adding' = << >>

BindingsInit == /\ object = 1 /\ index = EmptyFn /\ adding = << >>
                /\ reading = [r \in Readers |-> Resting]

-----------------------------------------------------------------------------
\* Properties.

\* While a search works without the lock, the handles its allowlist was checked
\* for stay in the index with the vectors they had.
SearchUndisturbed == \A r \in Readers : SharedBy(r) => reading[r].over = index

=============================================================================
