--------------------------- MODULE TurboQuantIndex ---------------------------
(***************************************************************************)
(* The positional quantized index (turbo-graph/src/lib.rs): storage arrays *)
(* that move under swap_remove, a dimension and a calibration that are     *)
(* each committed once, lazy caches filled through a shared borrow by      *)
(* several searching threads, and the file it is written to.               *)
(*                                                                         *)
(* Abstractions.  A stored row is the pair (vector, calibration it was     *)
(* encoded with); a calibration is the batch it was fitted to, the empty   *)
(* batch standing for the identity.  Scoring and ranking are left out:     *)
(* what a search reads, and when, is kept.  The rotation, boundary and     *)
(* centroid caches depend on the dimension alone and are one variable.     *)
(***************************************************************************)
EXTENDS Integers, Slots

CONSTANTS
  Vectors,      \* embeddings
  BadVectors,   \* those with a non-finite or huge coordinate
  Dims,         \* dimensions a caller may pass to add_2d, legal or not
  Constructors, \* dimensions given to new, and NoDim for new_lazy
  MinSamples,   \* TQPLUS_MIN_SAMPLES
  Threads,      \* callers that may hold a shared borrow (&self)
  Ids,          \* external ids a .tvim file carries, one per slot
  MaxBatch,     \* bound: vectors per call
  MaxSlots,     \* bound: vectors in the index
  NoDim, NoCal, NoCache, NoFile, Torn

ASSUME ConstantsOK ==
  /\ BadVectors \subseteq Vectors
  /\ Dims \subseteq Nat
  /\ MinSamples \in Nat \ {0}
  /\ MaxBatch \in Nat
  /\ MaxSlots \in Nat
  /\ NoDim \notin Nat
  /\ Constructors \subseteq {d \in Dims : d # 0 /\ d % 8 = 0} \cup {NoDim}

VARIABLES
  dim,          \* committed dimension, or NoDim
  n_vectors,    \* number of live slots
  codes,        \* packed_codes: one row per slot
  scales,       \* one correction per slot, computed with the row
  calib,        \* tqplus_shift / tqplus_scale, NoCal while empty
  blocked,      \* SIMD layout repacked from codes, or NoCache
  rotation,     \* dimension the rotation and codebook were built for
  pc,           \* what each thread does with its shared borrow
  file          \* NoFile, Torn, or a complete image

memory == <<dim, n_vectors, codes, scales, calib, blocked, rotation>>
vars == <<dim, n_vectors, codes, scales, calib, blocked, rotation, pc, file>>

Batches == UNION {[1..m -> Vectors] : m \in 0..MaxBatch}
Identity == << >>
Calibrations == Batches \cup {Identity}
Rows == [vec : Vectors, cal : Calibrations]
Images == [dim : Dims \cup {0}, n : Nat, codes : Seq(Rows), scales : Seq(Rows),
           calib : Calibrations \cup {NoCal}, ids : Seq(Ids)]
ASSUME NoCalOK == NoCal \notin Calibrations

HasImage == file \notin {NoFile, Torn}

\* Mutant: mutations run under the shared borrow.
Unlocked == TRUE

\* A mutation takes &mut self: it runs only when nobody holds a borrow.
Exclusive == \A t \in Threads : pc[t] = "idle"

-----------------------------------------------------------------------------

\* compute_tqplus_calibration: too few samples give the identity.
Calibrate(vs) == IF Len(vs) < MinSamples THEN Identity ELSE vs

\* Mutants: every batch is fitted anew; a drained index is fitted again.
FitEveryBatch(vs) == Calibrate(vs)
RefitWhenDrained(vs) == IF calib = NoCal \/ n_vectors = 0 THEN Calibrate(vs) ELSE calib

\* encode: a committed calibration is reused, else one is fitted.
BatchCalibration(vs) == IF calib = NoCal THEN Calibrate(vs) ELSE calib

Encode(vs, cal) == [i \in 1..Len(vs) |-> [vec |-> vs[i], cal |-> cal]]

\* pack::repack of the first n rows.
Repack(rows, n) == SubSeq(rows, 1, n)

\* A file written before format version 3 carries no calibration; its rows
\* were encoded with the identity.
LegacyImage(d, vs, ids) ==
  [dim |-> d, n |-> Len(vs), codes |-> Encode(vs, Identity),
   scales |-> Encode(vs, Identity), calib |-> NoCal, ids |-> ids]

\* Mutants: an uncommitted dimension is written as it is; the calibration is
\* not written.
ImageKeepingNoDim(ids) ==
  [dim |-> dim, n |-> n_vectors,
   codes |-> codes, scales |-> scales, calib |-> calib, ids |-> ids]
ImageWithoutCalibration(ids) ==
  [dim |-> IF dim = NoDim THEN 0 ELSE dim, n |-> n_vectors,
   codes |-> codes, scales |-> scales, calib |-> NoCal, ids |-> ids]

\* What write puts in the file: dimension 0 stands for an uncommitted one.
ImageOf(ids) ==
  [dim |-> IF dim = NoDim THEN 0 ELSE dim, n |-> n_vectors,
   codes |-> codes, scales |-> scales, calib |-> calib, ids |-> ids]

-----------------------------------------------------------------------------

\* Mutant: a batch of another dimension is taken.
AcceptsAnyDim(d, vs) == /\ d % 8 = 0
                        /\ Elements(vs) \cap BadVectors = {}

\* add_2d accepts the batch: the dimension matches or can be committed, and
\* every coordinate is valid.
Accepts(d, vs) ==
  /\ dim \in {NoDim, d}
  /\ dim = NoDim => d % 8 = 0
  /\ Elements(vs) \cap BadVectors = {}

\* add_2d of at least one vector: commit the dimension, encode, store, and
\* drop the blocked layout.
Add(d, vs) ==
  /\ Exclusive
  /\ Accepts(d, vs)
  /\ d # 0 /\ vs # << >>
  /\ n_vectors + Len(vs) <= MaxSlots
  /\ LET cal == BatchCalibration(vs)
         rows == Encode(vs, cal)
     IN  IF n_vectors = 0
         THEN /\ codes' = rows
              /\ scales' = rows
              /\ calib' = cal
         ELSE /\ codes' = codes \o rows
              /\ scales' = scales \o rows
              /\ UNCHANGED calib
  /\ dim' = d
  /\ n_vectors' = n_vectors + Len(vs)
  /\ blocked' = NoCache
  /\ rotation' = IF rotation = NoDim THEN d ELSE rotation
  /\ UNCHANGED <<pc, file>>

\* add_2d that stores nothing: the batch is empty, or the call panics after
\* the commit because the buffer is ragged or the dimension is 0.  A lazy
\* index keeps the dimension it was given.
AddNothing(d) ==
  /\ Exclusive
  /\ Accepts(d, << >>)
  /\ dim' = d
  /\ UNCHANGED <<n_vectors, codes, scales, calib, blocked, rotation, pc, file>>

\* Mutants: the scale of the moved row is forgotten; the layout stays.
SwapRemoveCodesOnly(s) ==
  /\ Exclusive
  /\ s \in 1..n_vectors
  /\ codes' = SwapRemove(codes, s)
  /\ scales' = SubSeq(scales, 1, n_vectors - 1)
  /\ n_vectors' = n_vectors - 1
  /\ blocked' = NoCache
  /\ UNCHANGED <<dim, calib, rotation, pc, file>>
SwapRemoveKeepingLayout(s) ==
  /\ Exclusive
  /\ s \in 1..n_vectors
  /\ codes' = SwapRemove(codes, s)
  /\ scales' = SwapRemove(scales, s)
  /\ n_vectors' = n_vectors - 1
  /\ UNCHANGED <<dim, calib, blocked, rotation, pc, file>>

\* swap_remove: the last row moves into the hole; calibration and dimension
\* stay, even when the index becomes empty.
SwapRemoveSlot(s) ==
  /\ Exclusive
  /\ s \in 1..n_vectors
  /\ codes' = SwapRemove(codes, s)
  /\ scales' = SwapRemove(scales, s)
  /\ n_vectors' = n_vectors - 1
  /\ blocked' = NoCache
  /\ UNCHANGED <<dim, calib, rotation, pc, file>>

-----------------------------------------------------------------------------
\* search and prepare take &self.  OnceLock lets one thread at a time fill a
\* cache; the others wait for it.

Goto(t, from, to) == /\ pc[t] = from
                     /\ pc' = [pc EXCEPT ![t] = to]

BeginSearch(t) ==
  /\ Goto(t, "idle", "search")
  /\ dim \notin {NoDim, 0}
  /\ rotation' = IF rotation = NoDim THEN dim ELSE rotation
  /\ UNCHANGED <<dim, n_vectors, codes, scales, calib, blocked, file>>

FindBlocked(t) ==
  /\ Goto(t, "search", "score")
  /\ blocked # NoCache
  /\ UNCHANGED <<memory, file>>

\* Mutant: a thread repacks only when no other holds a borrow.
BeginRepackAlone(t) ==
  /\ Goto(t, "search", "repack")
  /\ blocked = NoCache
  /\ \A u \in Threads \ {t} : pc[u] = "idle"
  /\ UNCHANGED <<memory, file>>

BeginRepack(t) ==
  /\ Goto(t, "search", "repack")
  /\ blocked = NoCache
  /\ \A u \in Threads : pc[u] # "repack"
  /\ UNCHANGED <<memory, file>>

EndRepack(t) ==
  /\ Goto(t, "repack", "score")
  /\ blocked' = Repack(codes, n_vectors)
  /\ UNCHANGED <<dim, n_vectors, codes, scales, calib, rotation, file>>

EndSearch(t) == Goto(t, "score", "idle") /\ UNCHANGED <<memory, file>>

-----------------------------------------------------------------------------

\* write: File::create truncates the file, then the payload is streamed out.
\* Callers do not write one path from two threads at once.
BeginWrite(t) ==
  /\ Goto(t, "idle", "write")
  /\ \A u \in Threads : pc[u] # "write"
  /\ file' = Torn
  /\ UNCHANGED memory

EndWrite(t, ids) ==
  /\ Goto(t, "write", "idle")
  /\ file' = ImageOf(ids)
  /\ UNCHANGED memory

\* load and from_parts: a torn file fails to read.  Rows without a
\* calibration get the identity spelled out, so that add does not fit one.
Load ==
  /\ Exclusive
  /\ HasImage
  /\ dim' = IF file.dim = 0 THEN NoDim ELSE file.dim
  /\ n_vectors' = file.n
  /\ codes' = file.codes
  /\ scales' = file.scales
  /\ calib' = IF file.calib = NoCal /\ file.n > 0 THEN Identity ELSE file.calib
  /\ blocked' = NoCache
  /\ rotation' = NoDim
  /\ UNCHANGED <<pc, file>>

\* The process dies at any point and starts again with new_lazy or new.
Restart(d) ==
  /\ dim' = d /\ n_vectors' = 0
  /\ codes' = << >> /\ scales' = << >> /\ calib' = NoCal
  /\ blocked' = NoCache /\ rotation' = NoDim
  /\ pc' = [t \in Threads |-> "idle"]
  /\ UNCHANGED file

-----------------------------------------------------------------------------

LegalDims == {d \in Dims : d # 0 /\ d % 8 = 0}

ValidBatches == {vs \in Batches : vs # << >> /\ Elements(vs) \cap BadVectors = {}}

LegacyFiles == {LegacyImage(d, vs, << >>) : d \in LegalDims, vs \in ValidBatches}

Init ==
  /\ dim \in Constructors /\ n_vectors = 0
  /\ codes = << >> /\ scales = << >> /\ calib = NoCal
  /\ blocked = NoCache /\ rotation = NoDim
  /\ pc = [t \in Threads |-> "idle"]
  /\ file \in LegacyFiles \cup {NoFile}

ThreadStep(t) == \/ FindBlocked(t)
                 \/ BeginRepack(t)
                 \/ EndRepack(t)
                 \/ EndSearch(t)

Next ==
  \/ \E d \in Dims, vs \in Batches : Add(d, vs)
  \/ \E d \in Dims : AddNothing(d)
  \/ \E s \in 1..MaxSlots : SwapRemoveSlot(s)
  \/ \E t \in Threads : \/ BeginSearch(t)
                        \/ ThreadStep(t)
                        \/ BeginWrite(t)
                        \/ EndWrite(t, << >>)
  \/ Load
  \/ \E d \in Constructors : Restart(d)

Spec == Init /\ [][Next]_vars

\* Repacking and scoring are finite computations and OnceLock wakes its
\* waiters, so a thread inside a search keeps going.
FairSpec == Spec /\ \A t \in Threads : WF_vars(ThreadStep(t))

-----------------------------------------------------------------------------
\* Properties.

TypeOK ==
  /\ dim \in Dims \cup {NoDim}
  /\ n_vectors \in Nat
  /\ codes \in Seq(Rows)
  /\ scales \in Seq(Rows)
  /\ calib \in Calibrations \cup {NoCal}
  /\ blocked \in Seq(Rows) \cup {NoCache}
  /\ rotation \in Dims \cup {NoDim}
  /\ pc \in [Threads -> {"idle", "search", "repack", "score", "write"}]
  /\ file \in Images \cup {NoFile, Torn}

\* The counter, the packed rows and the per-row scales always describe the
\* same vectors in the same slots, whatever was added, moved or loaded
\* (add, swap_remove, from_parts).
StorageAligned == /\ n_vectors = Len(codes)
                  /\ scales = codes

\* Every stored row was encoded with the calibration the next search will
\* undo, across incremental adds, a drained index, and files that predate
\* calibration (the "silently-wrong scores" from_parts guards against).
OneCalibration == \A s \in 1..Len(codes) : codes[s].cal = calib

\* A thread that scores reads a layout of the current rows: once a cache is
\* populated from &self, it matches the current packed_codes.
ScoringIsCurrent ==
  \A t \in Threads : pc[t] = "score" => blocked = codes

\* The same for a cache nobody is reading: no mutation leaves an old layout
\* behind for the next search to find.
BlockedIsCurrent == blocked # NoCache => blocked = codes

\* The rotation and codebook in use belong to the committed dimension, also
\* when that dimension was committed late or replaced by a load.
RotationFitsDim == rotation # NoDim => rotation = dim

\* Whatever a search reads besides the rows was derived from the current ones,
\* across adds, removals and loads between its filling and its use.
CachesCurrent == ScoringIsCurrent /\ BlockedIsCurrent /\ RotationFitsDim

\* A complete file describes an index with all of the above, so that load
\* cannot bring back what the running index never was.
FileSound ==
  HasImage => /\ file.n = Len(file.codes)
              /\ file.scales = file.codes
              /\ \A s \in 1..Len(file.codes) :
                   file.codes[s].cal = IF file.calib = NoCal THEN Identity ELSE file.calib

\* A dimension, once committed, is only replaced by a whole new index.
DimLocked ==
  [][dim # NoDim /\ dim' # dim => Load \/ \E d \in Constructors : Restart(d)]_vars

\* Calibration is frozen by the first stored batch: later adds and removals,
\* including removal of the last vector, never refit it.
CalibrationFrozen ==
  [][calib # NoCal /\ calib' # calib => Load \/ \E d \in Constructors : Restart(d)]_vars

\* What the first batch committed stays until a whole new index replaces it.
CommitsKept == DimLocked /\ CalibrationFrozen

\* A search that started returns, even when other threads race it to fill
\* the cache.
SearchReturns == \A t \in Threads : pc[t] = "search" ~> pc[t] = "idle"

=============================================================================
