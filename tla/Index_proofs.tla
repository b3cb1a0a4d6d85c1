---------------------------- MODULE Index_proofs ----------------------------
(***************************************************************************)
(* The positional index and the stable ids over it, for every set of       *)
(* vectors, ids, dimensions and threads and every bound.  First the        *)
(* safety of TurboQuantIndex: an inductive invariant and what follows.     *)
(* Then IdMapIndex: its id tables stay inverse to each other, searches     *)
(* answer from their allowlist, and it implements a map from ids to        *)
(* vectors.                                                                *)
(***************************************************************************)
EXTENDS IdMapIndex, SlotsTheorems

\* A stored row implies a committed calibration; without it the first add
\* after a drained index could fit a second one.
CalibratedRows == n_vectors > 0 => calib # NoCal

\* The inductive invariant: the checked properties, strengthened.
IInv == /\ TypeOK
        /\ StorageAligned
        /\ OneCalibration
        /\ CalibratedRows
        /\ BlockedIsCurrent
        /\ ScoringIsCurrent
        /\ RotationFitsDim
        /\ FileSound

-----------------------------------------------------------------------------

LEMMA BatchIsSeq ==
  ASSUME NEW vs \in Batches
  PROVE  /\ vs \in Seq(Vectors) /\ Len(vs) \in Nat
         /\ \A i \in 1..Len(vs) : vs[i] \in Vectors
         /\ vs # << >> => Len(vs) > 0
<1>1. PICK m \in 0..MaxBatch : vs \in [1..m -> Vectors]
  BY DEF Batches
<1>2. m \in Nat
  BY ConstantsOK DEF ConstantsOK
<1>3. vs \in Seq(Vectors) /\ Len(vs) = m
  BY <1>1, <1>2, ArrayIsSeq
<1>4. QED
  BY <1>2, <1>3

\* encode returns one row per vector, all under the one calibration.
LEMMA EncodeProperties ==
  ASSUME NEW vs \in Batches, NEW cal \in Calibrations
  PROVE  /\ Encode(vs, cal) \in Seq(Rows)
         /\ Len(Encode(vs, cal)) = Len(vs)
         /\ \A i \in 1..Len(vs) : /\ Encode(vs, cal)[i].vec = vs[i]
                                  /\ Encode(vs, cal)[i].cal = cal
<1>1. vs \in Seq(Vectors) /\ Len(vs) \in Nat
  BY BatchIsSeq
<1>2. Encode(vs, cal) \in [1..Len(vs) -> Rows]
  BY <1>1 DEF Encode, Rows
<1>3. Encode(vs, cal) \in Seq(Rows) /\ Len(Encode(vs, cal)) = Len(vs)
  BY <1>1, <1>2, ArrayIsSeq
<1>4. QED
  BY <1>1, <1>3 DEF Encode

LEMMA BatchCalibrationType ==
  ASSUME TypeOK, NEW vs \in Batches
  PROVE  /\ BatchCalibration(vs) \in Calibrations
         /\ BatchCalibration(vs) # NoCal
         /\ calib # NoCal => BatchCalibration(vs) = calib
  BY NoCalOK DEF TypeOK, BatchCalibration, Calibrate, Calibrations

-----------------------------------------------------------------------------
\* One lemma per action.

LEMMA AddStep ==
  ASSUME IInv, NEW d \in Dims, NEW vs \in Batches, Add(d, vs)
  PROVE  IInv'
<1> DEFINE cal == BatchCalibration(vs)
           rows == Encode(vs, cal)
<1> USE DEF IInv
<1>1. /\ cal \in Calibrations /\ cal # NoCal
      /\ calib # NoCal => cal = calib
  BY BatchCalibrationType
<1>2. /\ rows \in Seq(Rows) /\ Len(rows) = Len(vs)
      /\ \A i \in 1..Len(rows) : rows[i].cal = cal
      /\ Len(vs) \in Nat
  BY <1>1, EncodeProperties, BatchIsSeq
<1>3. /\ codes' \in Seq(Rows) /\ scales' = codes'
      /\ n_vectors' = Len(codes') /\ n_vectors' \in Nat
      /\ calib' = cal
      /\ \A s \in 1..Len(codes') : codes'[s].cal = cal
  <2>1. CASE n_vectors = 0
    BY <2>1, <1>1, <1>2 DEF Add, TypeOK, StorageAligned
  <2>2. CASE n_vectors # 0
    <3>1. /\ codes' = codes \o rows /\ scales' = scales \o rows
          /\ calib' = calib /\ n_vectors' = n_vectors + Len(vs)
      BY <2>2 DEF Add
    <3>2. n_vectors > 0 /\ calib = cal
      BY <2>2, <1>1 DEF TypeOK, CalibratedRows
    <3>3. \A s \in 1..Len(codes) : codes[s].cal = cal
      BY <3>2 DEF OneCalibration
    <3>4. /\ codes' \in Seq(Rows) /\ Len(codes') = Len(codes) + Len(rows)
          /\ \A s \in 1..Len(codes) : codes'[s] = codes[s]
          /\ \A j \in 1..Len(rows) : codes'[Len(codes) + j] = rows[j]
      <4>1. codes \in Seq(Rows)
        BY DEF TypeOK
      <4>2. rows \in Seq(Rows)
        BY <1>2
      <4> HIDE DEF rows, IInv
      <4>3. QED
        BY <3>1, <4>1, <4>2, ExtendProperties
    <3>5. \A s \in 1..Len(codes') : codes'[s].cal = cal
      <4> SUFFICES ASSUME NEW s \in 1..Len(codes') PROVE codes'[s].cal = cal
        OBVIOUS
      <4>1. CASE s <= Len(codes)
        BY <4>1, <3>3, <3>4 DEF TypeOK
      <4>2. CASE s > Len(codes)
        <5>1. s - Len(codes) \in 1..Len(rows) /\ s = Len(codes) + (s - Len(codes))
          BY <4>2, <3>4, <1>2 DEF TypeOK
        <5>2. QED
          BY <5>1, <3>4, <1>2
      <4>3. QED
        BY <4>1, <4>2, <3>4, <1>2 DEF TypeOK
    <3>6. QED
      BY <3>1, <3>2, <3>4, <3>5, <1>2 DEF TypeOK, StorageAligned
  <2>3. QED
    BY <2>1, <2>2
<1>4. /\ dim' = d /\ blocked' = NoCache /\ pc' = pc /\ file' = file
      /\ rotation' = IF rotation = NoDim THEN d ELSE rotation
      /\ dim \in {NoDim, d}
      /\ \A t \in Threads : pc[t] = "idle"
  BY DEF Add, Accepts, Exclusive
<1>5. TypeOK'
  BY <1>1, <1>3, <1>4 DEF TypeOK, HasImage
<1>6. StorageAligned' /\ OneCalibration' /\ CalibratedRows'
  BY <1>1, <1>3 DEF StorageAligned, OneCalibration, CalibratedRows
<1>7. BlockedIsCurrent' /\ ScoringIsCurrent' /\ RotationFitsDim'
  BY <1>4 DEF BlockedIsCurrent, ScoringIsCurrent, RotationFitsDim
<1>8. FileSound'
  BY <1>4 DEF FileSound, HasImage
<1>9. QED
  BY <1>5, <1>6, <1>7, <1>8

LEMMA AddNothingStep ==
  ASSUME IInv, NEW d \in Dims, AddNothing(d)
  PROVE  IInv'
  BY DEF IInv, AddNothing, Accepts, TypeOK, StorageAligned, OneCalibration,
         CalibratedRows, BlockedIsCurrent, ScoringIsCurrent, RotationFitsDim,
         FileSound, HasImage

LEMMA SwapRemoveStep ==
  ASSUME IInv, NEW s \in 1..n_vectors, SwapRemoveSlot(s)
  PROVE  IInv'
<1> USE DEF IInv
<1>1. /\ codes' \in Seq(Rows)
      /\ Len(codes') = Len(codes) - 1
      /\ \A j \in 1..(Len(codes) - 1) :
           codes'[j] = IF j = s THEN codes[Len(codes)] ELSE codes[j]
      /\ scales' = codes'
  BY SwapRemoveProperties DEF SwapRemoveSlot, TypeOK, StorageAligned
<1>2. /\ n_vectors' = n_vectors - 1 /\ n_vectors' \in Nat
      /\ blocked' = NoCache
      /\ dim' = dim /\ calib' = calib /\ rotation' = rotation
      /\ pc' = pc /\ file' = file
      /\ \A t \in Threads : pc[t] = "idle"
  BY DEF SwapRemoveSlot, Exclusive, TypeOK
<1>3. TypeOK'
  BY <1>1, <1>2 DEF TypeOK, HasImage
<1>4. StorageAligned'
  BY <1>1, <1>2 DEF StorageAligned, TypeOK
<1>5. OneCalibration'
  BY <1>1, <1>2 DEF OneCalibration, TypeOK
<1>6. CalibratedRows' /\ BlockedIsCurrent' /\ ScoringIsCurrent' /\ RotationFitsDim'
  BY <1>2 DEF CalibratedRows, BlockedIsCurrent, ScoringIsCurrent, RotationFitsDim, TypeOK
<1>7. FileSound'
  BY <1>2 DEF FileSound, HasImage
<1>8. QED
  BY <1>3, <1>4, <1>5, <1>6, <1>7

\* Borrows and caches: what a search does to the shared state.
LEMMA BeginSearchStep ==
  ASSUME IInv, NEW t \in Threads, BeginSearch(t)
  PROVE  IInv'
<1>1. /\ pc \in [Threads -> {"idle", "search", "repack", "score", "write"}]
      /\ pc' = [pc EXCEPT ![t] = "search"]
  BY DEF IInv, TypeOK, BeginSearch, Goto
<1>2. /\ pc' \in [Threads -> {"idle", "search", "repack", "score", "write"}]
      /\ \A u \in Threads : pc'[u] = "score" => pc[u] = "score"
  BY <1>1
<1>3. QED
  BY <1>2 DEF IInv, BeginSearch, TypeOK, StorageAligned, OneCalibration,
         CalibratedRows, BlockedIsCurrent, ScoringIsCurrent, RotationFitsDim,
         FileSound, HasImage

LEMMA FindBlockedStep ==
  ASSUME IInv, NEW t \in Threads, FindBlocked(t)
  PROVE  IInv'
<1>1. /\ pc' \in [Threads -> {"idle", "search", "repack", "score", "write"}]
      /\ blocked = codes
  BY DEF IInv, TypeOK, FindBlocked, Goto, BlockedIsCurrent
<1>2. QED
  BY <1>1 DEF IInv, FindBlocked, memory, TypeOK, StorageAligned, OneCalibration,
         CalibratedRows, BlockedIsCurrent, ScoringIsCurrent, RotationFitsDim,
         FileSound, HasImage

LEMMA BeginRepackStep ==
  ASSUME IInv, NEW t \in Threads, BeginRepack(t)
  PROVE  IInv'
<1>1. /\ pc \in [Threads -> {"idle", "search", "repack", "score", "write"}]
      /\ pc' = [pc EXCEPT ![t] = "repack"]
  BY DEF IInv, TypeOK, BeginRepack, Goto
<1>2. /\ pc' \in [Threads -> {"idle", "search", "repack", "score", "write"}]
      /\ \A u \in Threads : pc'[u] = "score" => pc[u] = "score"
  BY <1>1
<1>3. QED
  BY <1>2 DEF IInv, BeginRepack, memory, TypeOK, StorageAligned, OneCalibration,
         CalibratedRows, BlockedIsCurrent, ScoringIsCurrent, RotationFitsDim,
         FileSound, HasImage

\* Repacking as many rows as there are gives the rows themselves.
LEMMA RepackIsCurrent ==
  ASSUME TypeOK, StorageAligned
  PROVE  Repack(codes, n_vectors) = codes
<1>1. codes \in Seq(Rows) /\ n_vectors = Len(codes)
  BY DEF TypeOK, StorageAligned
<1>2. SubSeq(codes, 1, Len(codes)) = codes
  BY <1>1
<1>3. QED
  BY <1>1, <1>2 DEF Repack

LEMMA EndRepackStep ==
  ASSUME IInv, NEW t \in Threads, EndRepack(t)
  PROVE  IInv'
<1>1. /\ pc' \in [Threads -> {"idle", "search", "repack", "score", "write"}]
  BY DEF IInv, TypeOK, EndRepack, Goto
<1>2. blocked' = codes
  BY RepackIsCurrent DEF IInv, EndRepack
<1>3. QED
  BY <1>1, <1>2 DEF IInv, EndRepack, TypeOK, StorageAligned, OneCalibration,
         CalibratedRows, BlockedIsCurrent, ScoringIsCurrent, RotationFitsDim,
         FileSound, HasImage

LEMMA EndSearchStep ==
  ASSUME IInv, NEW t \in Threads, EndSearch(t)
  PROVE  IInv'
<1>1. /\ pc \in [Threads -> {"idle", "search", "repack", "score", "write"}]
      /\ pc' = [pc EXCEPT ![t] = "idle"]
  BY DEF IInv, TypeOK, EndSearch, Goto
<1>2. /\ pc' \in [Threads -> {"idle", "search", "repack", "score", "write"}]
      /\ \A u \in Threads : pc'[u] = "score" => pc[u] = "score"
  BY <1>1
<1>3. QED
  BY <1>2 DEF IInv, EndSearch, memory, TypeOK, StorageAligned, OneCalibration,
         CalibratedRows, BlockedIsCurrent, ScoringIsCurrent, RotationFitsDim,
         FileSound, HasImage

-----------------------------------------------------------------------------
\* Files.

LEMMA BeginWriteStep ==
  ASSUME IInv, NEW t \in Threads, BeginWrite(t)
  PROVE  IInv'
<1>1. /\ pc \in [Threads -> {"idle", "search", "repack", "score", "write"}]
      /\ pc' = [pc EXCEPT ![t] = "write"]
  BY DEF IInv, TypeOK, BeginWrite, Goto
<1>2. /\ pc' \in [Threads -> {"idle", "search", "repack", "score", "write"}]
      /\ \A u \in Threads : pc'[u] = "score" => pc[u] = "score"
  BY <1>1
<1>3. QED
  BY <1>2 DEF IInv, BeginWrite, memory, TypeOK, StorageAligned, OneCalibration,
         CalibratedRows, BlockedIsCurrent, ScoringIsCurrent, RotationFitsDim,
         FileSound, HasImage

LEMMA ImageType ==
  ASSUME TypeOK, NEW ids \in Seq(Ids)
  PROVE  ImageOf(ids) \in Images
  BY DEF TypeOK, ImageOf, Images

LEMMA EndWriteStep ==
  ASSUME IInv, NEW t \in Threads, NEW ids \in Seq(Ids), EndWrite(t, ids)
  PROVE  IInv'
<1>1. /\ pc \in [Threads -> {"idle", "search", "repack", "score", "write"}]
      /\ pc' = [pc EXCEPT ![t] = "idle"]
  BY DEF IInv, TypeOK, EndWrite, Goto
<1>2. /\ pc' \in [Threads -> {"idle", "search", "repack", "score", "write"}]
      /\ \A u \in Threads : pc'[u] = "score" => pc[u] = "score"
  BY <1>1
<1>3. file' = ImageOf(ids) /\ file' \in Images
  BY ImageType DEF IInv, EndWrite
<1>4. TypeOK'
  BY <1>2, <1>3 DEF IInv, EndWrite, memory, TypeOK
<1>5. FileSound'
  <2>1. /\ file'.n = Len(file'.codes)
        /\ file'.scales = file'.codes
        /\ file'.codes = codes /\ file'.calib = calib
    BY <1>3 DEF IInv, ImageOf, StorageAligned
  <2>2. ASSUME NEW s \in 1..Len(codes)
        PROVE  codes[s].cal = IF calib = NoCal THEN Identity ELSE calib
    <3>1. n_vectors > 0
      BY DEF IInv, StorageAligned, TypeOK
    <3>2. QED
      BY <3>1 DEF IInv, CalibratedRows, OneCalibration
  <2>3. QED
    BY <2>1, <2>2 DEF FileSound
<1>6. QED
  BY <1>2, <1>4, <1>5
     DEF IInv, EndWrite, memory, StorageAligned, OneCalibration, CalibratedRows,
         BlockedIsCurrent, ScoringIsCurrent, RotationFitsDim

LEMMA LoadStep ==
  ASSUME IInv, Load
  PROVE  IInv'
<1>1. file \in Images
  BY DEF IInv, TypeOK, Load, HasImage
<1>2. /\ file.n = Len(file.codes)
      /\ file.scales = file.codes
      /\ \A s \in 1..Len(file.codes) :
           file.codes[s].cal = IF file.calib = NoCal THEN Identity ELSE file.calib
  BY DEF IInv, Load, FileSound
<1>3. Identity \in Calibrations /\ Identity # NoCal
  BY NoCalOK DEF Calibrations
<1>4. /\ n_vectors' = file.n /\ codes' = file.codes /\ scales' = file.scales
      /\ calib' = IF file.calib = NoCal /\ file.n > 0 THEN Identity ELSE file.calib
      /\ dim' = IF file.dim = 0 THEN NoDim ELSE file.dim
      /\ blocked' = NoCache /\ rotation' = NoDim /\ pc' = pc /\ file' = file
      /\ \A t \in Threads : pc[t] = "idle"
  BY DEF Load, Exclusive
<1>5. TypeOK'
  BY <1>1, <1>3, <1>4 DEF IInv, TypeOK, Images
<1>6. StorageAligned'
  BY <1>2, <1>4 DEF StorageAligned
<1>7. OneCalibration'
  BY <1>1, <1>2, <1>4 DEF OneCalibration, Images
<1>8. CalibratedRows'
  BY <1>1, <1>3, <1>4 DEF CalibratedRows, Images
<1>9. BlockedIsCurrent' /\ ScoringIsCurrent' /\ RotationFitsDim'
  BY <1>4 DEF BlockedIsCurrent, ScoringIsCurrent, RotationFitsDim
<1>10. FileSound'
  BY <1>4 DEF IInv, FileSound, HasImage
<1>11. QED
  BY <1>5, <1>6, <1>7, <1>8, <1>9, <1>10 DEF IInv

LEMMA RestartStep ==
  ASSUME IInv, NEW d \in Constructors, Restart(d)
  PROVE  IInv'
  BY ConstantsOK
     DEF ConstantsOK, IInv, Restart, TypeOK, StorageAligned, OneCalibration,
         CalibratedRows, BlockedIsCurrent, ScoringIsCurrent, RotationFitsDim,
         FileSound, HasImage

-----------------------------------------------------------------------------

LEMMA StutterStep ==
  ASSUME IInv, UNCHANGED vars
  PROVE  IInv'
  BY DEF IInv, vars, TypeOK, StorageAligned, OneCalibration, CalibratedRows,
         BlockedIsCurrent, ScoringIsCurrent, RotationFitsDim, FileSound, HasImage

\* A file of an older format holds a sound image.
LEMMA LegacyImageProperties ==
  ASSUME NEW d \in LegalDims, NEW vs \in ValidBatches, NEW ids \in Seq(Ids)
  PROVE  /\ LegacyImage(d, vs, ids) \in Images
         /\ file = LegacyImage(d, vs, ids) => FileSound
<1>1. /\ vs \in Batches /\ d \in Dims /\ Len(vs) \in Nat /\ Identity \in Calibrations
  BY BatchIsSeq DEF ValidBatches, LegalDims, Calibrations
<1>2. /\ Encode(vs, Identity) \in Seq(Rows)
      /\ Len(Encode(vs, Identity)) = Len(vs)
      /\ \A i \in 1..Len(vs) : Encode(vs, Identity)[i].cal = Identity
  BY <1>1, EncodeProperties
<1>3. QED
  BY <1>1, <1>2 DEF LegacyImage, Images, FileSound

LEMMA InitStep ==
  ASSUME Init
  PROVE  IInv
<1>1. file \in Images \cup {NoFile} /\ FileSound
  <2>1. CASE file = NoFile
    BY <2>1 DEF FileSound, HasImage
  <2>2. CASE file \in LegacyFiles
    <3>1. PICK d \in LegalDims, vs \in ValidBatches : file = LegacyImage(d, vs, << >>)
      BY <2>2 DEF LegacyFiles
    <3>2. << >> \in Seq(Ids)
      OBVIOUS
    <3>3. QED
      BY <3>1, <3>2, LegacyImageProperties
  <2>3. QED
    BY <2>1, <2>2 DEF Init
<1>2. dim \in Dims \cup {NoDim}
  BY ConstantsOK DEF ConstantsOK, Init
<1>3. QED
  BY <1>1, <1>2
     DEF Init, IInv, TypeOK, StorageAligned, OneCalibration, CalibratedRows,
         BlockedIsCurrent, ScoringIsCurrent, RotationFitsDim

LEMMA NextStep ==
  ASSUME IInv, [Next]_vars
  PROVE  IInv'
<1>1. CASE \E d \in Dims, vs \in Batches : Add(d, vs)
  BY <1>1, AddStep
<1>2. CASE \E d \in Dims : AddNothing(d)
  BY <1>2, AddNothingStep
<1>3. CASE \E s \in 1..MaxSlots : SwapRemoveSlot(s)
  <2>1. PICK s \in 1..MaxSlots : SwapRemoveSlot(s)
    BY <1>3
  <2>2. QED
    BY <2>1, SwapRemoveStep DEF SwapRemoveSlot
<1>4. ASSUME NEW t \in Threads,
             \/ BeginSearch(t)
             \/ ThreadStep(t)
             \/ BeginWrite(t)
             \/ EndWrite(t, << >>)
      PROVE  IInv'
  <2>1. << >> \in Seq(Ids)
    OBVIOUS
  <2>2. QED
    BY <1>4, <2>1, BeginSearchStep, FindBlockedStep, BeginRepackStep,
       EndRepackStep, EndSearchStep, BeginWriteStep, EndWriteStep DEF ThreadStep
<1>5. CASE Load
  BY <1>5, LoadStep
<1>6. CASE \E d \in Constructors : Restart(d)
  BY <1>6, RestartStep
<1>7. CASE UNCHANGED vars
  BY <1>7, StutterStep
<1>8. QED
  BY <1>1, <1>2, <1>3, <1>4, <1>5, <1>6, <1>7 DEF Next

-----------------------------------------------------------------------------
\* Theorems.

\* The strengthened invariant holds throughout: storage, calibration, caches
\* and file stay consistent under every interleaving of adds, swap removals,
\* searches, writes, loads and crashes.
THEOREM Invariance == Spec => []IInv
  BY InitStep, NextStep, PTL DEF Spec

\* Every variable keeps its type.
THEOREM TypeCorrect == Spec => []TypeOK
<1>1. IInv => TypeOK
  BY DEF IInv
<1>2. QED
  BY <1>1, Invariance, PTL

\* The counter, packed rows and scales describe the same vectors in the same
\* slots (add, swap_remove, from_parts).
THEOREM StorageSafety == Spec => []StorageAligned
<1>1. IInv => StorageAligned
  BY DEF IInv
<1>2. QED
  BY <1>1, Invariance, PTL

\* Every stored row was encoded with the calibration a search will undo,
\* whatever was drained, re-added or loaded.
THEOREM CalibrationSafety == Spec => []OneCalibration
<1>1. IInv => OneCalibration
  BY DEF IInv
<1>2. QED
  BY <1>1, Invariance, PTL

\* No thread ever scores against a blocked layout of earlier rows.
THEOREM SearchSafety == Spec => []ScoringIsCurrent
<1>1. IInv => ScoringIsCurrent
  BY DEF IInv
<1>2. QED
  BY <1>1, Invariance, PTL

\* A complete file always describes an index that load accepts as sound.
THEOREM FileSafety == Spec => []FileSound
<1>1. IInv => FileSound
  BY DEF IInv
<1>2. QED
  BY <1>1, Invariance, PTL

\* No mutation leaves an old layout for the next search to find.
THEOREM CacheSafety == Spec => []BlockedIsCurrent
<1>1. IInv => BlockedIsCurrent
  BY DEF IInv
<1>2. QED
  BY <1>1, Invariance, PTL

\* The rotation in use belongs to the committed dimension.
THEOREM RotationSafety == Spec => []RotationFitsDim
<1>1. IInv => RotationFitsDim
  BY DEF IInv
<1>2. QED
  BY <1>1, Invariance, PTL

\* Whatever a search reads besides the rows was derived from the current ones.
THEOREM CachesStayCurrent == Spec => []CachesCurrent
<1>1. ScoringIsCurrent /\ BlockedIsCurrent /\ RotationFitsDim => CachesCurrent
  BY DEF CachesCurrent
<1>2. QED
  BY <1>1, SearchSafety, CacheSafety, RotationSafety, PTL

\* Only a load or a restart replaces a committed dimension.
THEOREM DimIsLocked == Spec => DimLocked
<1>1. ASSUME [Next]_vars
      PROVE  [dim # NoDim /\ dim' # dim
                => Load \/ \E d \in Constructors : Restart(d)]_vars
  BY <1>1 DEF Next, Add, AddNothing, Accepts, SwapRemoveSlot, BeginSearch,
              ThreadStep, FindBlocked, BeginRepack, EndRepack, EndSearch,
              BeginWrite, EndWrite, memory
<1>2. QED
  BY <1>1, PTL DEF Spec, DimLocked

\* No add or removal replaces a calibration once it is committed.
THEOREM CalibrationIsFrozen == Spec => CalibrationFrozen
<1>1. ASSUME IInv, [Next]_vars
      PROVE  [calib # NoCal /\ calib' # calib
                => Load \/ \E d \in Constructors : Restart(d)]_vars
  <2>1. CASE \E d \in Dims, vs \in Batches : Add(d, vs)
    BY <2>1, <1>1, BatchCalibrationType DEF IInv, Add
  <2>2. CASE \/ \E d \in Dims : AddNothing(d)
             \/ \E s \in 1..MaxSlots : SwapRemoveSlot(s)
    BY <2>2 DEF AddNothing, SwapRemoveSlot
  <2>3. ASSUME NEW t \in Threads,
               \/ BeginSearch(t)
               \/ ThreadStep(t)
               \/ BeginWrite(t)
               \/ EndWrite(t, << >>)
        PROVE  calib' = calib
    BY <2>3 DEF BeginSearch, ThreadStep, FindBlocked, BeginRepack, EndRepack,
                EndSearch, BeginWrite, EndWrite, memory
  <2>4. QED
    BY <1>1, <2>1, <2>2, <2>3 DEF Next
<1>2. QED
  BY <1>1, Invariance, PTL DEF Spec, CalibrationFrozen

\* What the first batch committed stays until a whole new index replaces it.
THEOREM CommitsStayKept == Spec => CommitsKept
  BY DimIsLocked, CalibrationIsFrozen DEF CommitsKept

-----------------------------------------------------------------------------
\* Stable ids.

\* A file names each of its rows.
FileNamesRows == HasImage => Len(file.ids) = file.n

\* Nobody is searching when a thread is idle or writing, so the masks matter
\* only in between; they are part of HitsAreAllowed.
IdInv == /\ IInv
         /\ TypeOKIds
         /\ TablesInverse
         /\ HitsAreAllowed
         /\ FileNamesRows

-----------------------------------------------------------------------------

LEMMA IdSeqsProperties ==
  ASSUME NEW n \in Nat, NEW ids \in IdSeqs(n)
  PROVE  ids \in Seq(Ids) /\ Len(ids) = n /\ IsDistinct(ids)
  BY ArrayIsSeq DEF IdSeqs

\* The ids of an accepted batch are distinct.
LEMMA AcceptedIds ==
  ASSUME NEW d, NEW vs, NEW ids \in [1..Len(vs) -> Ids], AddWithIds(d, vs, ids)
  PROVE  ids \in IdSeqs(Len(vs))
  BY DEF AddWithIds, IdSeqs

\* Inverse tables leave no room for a repeated id.
LEMMA TablesAreDistinct ==
  ASSUME TypeOKIds, TablesInverse
  PROVE  /\ IsDistinct(slot_to_id)
         /\ slot_to_id \in Seq(Ids)
         /\ \A i \in DOMAIN id_to_slot :
              id_to_slot[i] \in 1..Len(slot_to_id) /\ slot_to_id[id_to_slot[i]] = i
<1>1. slot_to_id \in Seq(Ids)
  BY DEF TypeOKIds
<1>2. IsDistinct(slot_to_id)
  BY <1>1 DEF TablesInverse, IsDistinct
<1>3. ASSUME NEW i \in DOMAIN id_to_slot
      PROVE  id_to_slot[i] \in 1..Len(slot_to_id) /\ slot_to_id[id_to_slot[i]] = i
  <2>1. PICK s \in 1..Len(slot_to_id) : slot_to_id[s] = i
    BY DEF TablesInverse, Elements
  <2>2. QED
    BY <2>1 DEF TablesInverse
<1>4. QED
  BY <1>1, <1>2, <1>3

\* What an id names: the vector in its slot.
LEMMA ContentsProperties ==
  ASSUME NEW ids \in Seq(Ids), IsDistinct(ids)
  PROVE  \A rows : /\ DOMAIN Contents(ids, rows) = Elements(ids)
                   /\ \A s \in 1..Len(ids) : Contents(ids, rows)[ids[s]] = rows[s].vec
<1>1. \A s \in 1..Len(ids) : PositionIn(ids, ids[s]) = s /\ ids[s] \in Elements(ids)
  BY PositionInDistinct DEF Elements
<1>2. QED
  BY <1>1 DEF Contents

-----------------------------------------------------------------------------
\* One lemma per action.

LEMMA AddWithIdsStep ==
  ASSUME IdInv, NEW d \in Dims, NEW vs \in Batches, NEW ids \in IdSeqs(Len(vs)),
         AddWithIds(d, vs, ids)
  PROVE  IdInv'
<1>1. IInv'
  BY AddStep DEF IdInv, AddWithIds
<1>2. /\ ids \in Seq(Ids) /\ Len(ids) = Len(vs) /\ IsDistinct(ids)
      /\ Len(vs) \in Nat
  BY IdSeqsProperties, BatchIsSeq
<1>3. /\ slot_to_id' = slot_to_id \o ids
      /\ id_to_slot' = [i \in DOMAIN id_to_slot \cup Elements(ids) |->
                          IF i \in Elements(ids) THEN n_vectors + PositionIn(ids, i)
                                                 ELSE id_to_slot[i]]
      /\ Elements(ids) \cap DOMAIN id_to_slot = {}
      /\ n_vectors' = n_vectors + Len(vs)
      /\ pc' = pc /\ file' = file /\ allow' = allow /\ mask' = mask
      /\ \A t \in Threads : pc[t] = "idle"
  BY DEF AddWithIds, Add, Exclusive, queries
<1>4. /\ slot_to_id \in Seq(Ids) /\ Len(slot_to_id) = n_vectors
      /\ n_vectors \in Nat /\ DOMAIN id_to_slot = Elements(slot_to_id)
      /\ \A s \in 1..Len(slot_to_id) : id_to_slot[slot_to_id[s]] = s
      /\ id_to_slot \in [DOMAIN id_to_slot -> Nat]
      /\ DOMAIN id_to_slot \subseteq Ids
  BY DEF IdInv, TypeOKIds, TablesInverse, TypeOK
<1>5. /\ slot_to_id' \in Seq(Ids)
      /\ Len(slot_to_id') = Len(slot_to_id) + Len(ids)
      /\ \A j \in 1..Len(slot_to_id) : slot_to_id'[j] = slot_to_id[j]
      /\ \A j \in 1..Len(ids) : slot_to_id'[Len(slot_to_id) + j] = ids[j]
  <2>1. slot_to_id \in Seq(Ids) /\ ids \in Seq(Ids) /\ slot_to_id' = slot_to_id \o ids
    BY <1>2, <1>3, <1>4
  <2>2. QED
    BY <2>1, ExtendProperties
<1>6. Elements(slot_to_id') = Elements(slot_to_id) \cup Elements(ids)
  BY <1>2, <1>3, <1>4, ElementsExtend
<1>7. \A j \in 1..Len(ids) : ids[j] \in Elements(ids) /\ PositionIn(ids, ids[j]) = j
  BY <1>2, PositionInDistinct DEF Elements
<1>8. \A i \in Elements(ids) : PositionIn(ids, i) \in 1..Len(ids) /\ i \in Ids
  BY <1>2, PositionInProperties DEF Elements
<1>9. TablesInverse'
  <2>1. ASSUME NEW s \in 1..Len(slot_to_id')
        PROVE  id_to_slot'[slot_to_id'[s]] = s
    <3>1. CASE s <= Len(slot_to_id)
      <4>1. slot_to_id'[s] = slot_to_id[s] /\ s \in 1..Len(slot_to_id)
        BY <3>1, <1>4, <1>5
      <4>2. slot_to_id[s] \in DOMAIN id_to_slot /\ slot_to_id[s] \notin Elements(ids)
        BY <4>1, <1>3, <1>4 DEF Elements
      <4>3. QED
        BY <4>1, <4>2, <1>3, <1>4
    <3>2. CASE s > Len(slot_to_id)
      <4> DEFINE j == s - Len(slot_to_id)
      <4>1. j \in 1..Len(ids) /\ s = Len(slot_to_id) + j
        BY <3>2, <1>2, <1>4, <1>5
      <4>2. slot_to_id'[s] = ids[j]
        BY <4>1, <1>5
      <4>3. QED
        BY <4>1, <4>2, <1>3, <1>4, <1>7
    <3>3. QED
      BY <3>1, <3>2, <1>4, <1>5
  <2>2. QED
    BY <2>1, <1>2, <1>3, <1>4, <1>5, <1>6 DEF TablesInverse
<1>10. TypeOKIds'
  <2>1. id_to_slot' \in [DOMAIN id_to_slot' -> Nat] /\ DOMAIN id_to_slot' \subseteq Ids
    BY <1>2, <1>3, <1>4, <1>8
  <2>2. QED
    BY <1>1, <1>3, <1>5, <2>1 DEF IdInv, IInv, TypeOKIds
<1>11. HitsAreAllowed' /\ FileNamesRows'
  BY <1>3 DEF IdInv, HitsAreAllowed, FileNamesRows, HasImage
<1>12. QED
  BY <1>1, <1>9, <1>10, <1>11 DEF IdInv

LEMMA AddNoIdsStep ==
  ASSUME IdInv, NEW d \in Dims, AddNoIds(d)
  PROVE  IdInv'
<1>1. IInv'
  BY AddNothingStep DEF IdInv, AddNoIds
<1>2. QED
  BY <1>1 DEF IdInv, IInv, AddNoIds, AddNothing, tables, queries, TypeOKIds,
              TablesInverse, HitsAreAllowed, FileNamesRows, HasImage

LEMMA RemoveStep ==
  ASSUME IdInv, NEW id \in Ids, Remove(id)
  PROVE  IdInv'
<1> DEFINE slot == id_to_slot[id]
           last == Len(slot_to_id)
<1>1. /\ slot_to_id \in Seq(Ids) /\ IsDistinct(slot_to_id)
      /\ slot \in 1..last /\ slot_to_id[slot] = id
      /\ last = n_vectors /\ last \in Nat
      /\ DOMAIN id_to_slot = Elements(slot_to_id)
      /\ \A s \in 1..last : id_to_slot[slot_to_id[s]] = s
      /\ id_to_slot \in [DOMAIN id_to_slot -> Nat]
      /\ DOMAIN id_to_slot \subseteq Ids
  BY TablesAreDistinct DEF IdInv, Remove, TypeOKIds, TablesInverse, TypeOK
<1>2. /\ SwapRemoveSlot(slot)
      /\ id_to_slot' = [i \in DOMAIN id_to_slot \ {id} |->
                          IF slot # last /\ i = slot_to_id[last]
                          THEN slot ELSE id_to_slot[i]]
      /\ slot_to_id' = SwapRemove(slot_to_id, slot)
      /\ allow' = allow /\ mask' = mask
  BY DEF Remove, queries
<1>3. IInv'
  BY <1>1, <1>2, SwapRemoveStep DEF IdInv
<1>4. /\ n_vectors' = n_vectors - 1 /\ pc' = pc /\ file' = file
      /\ \A t \in Threads : pc[t] = "idle"
  BY <1>2 DEF SwapRemoveSlot, Exclusive
<1> HIDE DEF slot, last
<1>5. /\ slot_to_id' \in Seq(Ids) /\ Len(slot_to_id') = last - 1
      /\ \A j \in 1..(last - 1) :
           slot_to_id'[j] = IF j = slot THEN slot_to_id[last] ELSE slot_to_id[j]
  BY <1>1, <1>2, SwapRemoveProperties DEF last
<1>6. Elements(slot_to_id') = Elements(slot_to_id) \ {id}
  BY <1>1, <1>2, ElementsSwapRemove DEF last
<1>7. TablesInverse'
  <2>1. ASSUME NEW s \in 1..Len(slot_to_id')
        PROVE  id_to_slot'[slot_to_id'[s]] = s
    <3>1. /\ s \in 1..(last - 1) /\ s \in 1..last /\ last \in 1..last
          /\ slot_to_id'[s] \in Elements(slot_to_id')
      BY <1>1, <1>5 DEF Elements
    <3>2. slot_to_id'[s] \in DOMAIN id_to_slot \ {id}
      BY <3>1, <1>1, <1>6
    <3>3. CASE s = slot
      BY <3>1, <3>2, <3>3, <1>1, <1>2, <1>5
    <3>4. CASE s # slot
      <4>1. slot_to_id'[s] = slot_to_id[s] /\ slot_to_id[s] # slot_to_id[last]
        BY <3>1, <3>4, <1>1, <1>5 DEF IsDistinct, last
      <4>2. QED
        BY <4>1, <3>1, <3>2, <1>1, <1>2
    <3>5. QED
      BY <3>3, <3>4
  <2>2. QED
    BY <2>1, <1>1, <1>2, <1>4, <1>5, <1>6 DEF TablesInverse
<1>8. TypeOKIds'
  <2>1. id_to_slot' \in [DOMAIN id_to_slot' -> Nat] /\ DOMAIN id_to_slot' \subseteq Ids
    BY <1>1, <1>2
  <2>2. QED
    BY <1>2, <1>3, <1>5, <2>1 DEF IdInv, IInv, TypeOKIds
<1>9. HitsAreAllowed' /\ FileNamesRows'
  BY <1>4 DEF IdInv, HitsAreAllowed, FileNamesRows, HasImage
<1>10. QED
  BY <1>3, <1>7, <1>8, <1>9 DEF IdInv

LEMMA SearchIdsStep ==
  ASSUME IdInv, NEW t \in Threads, NEW ids \in SUBSET Ids, SearchIds(t, ids)
  PROVE  IdInv'
<1>1. IInv'
  BY BeginSearchStep DEF IdInv, SearchIds
<1>2. /\ ids \subseteq DOMAIN id_to_slot
      /\ allow' = [allow EXCEPT ![t] = ids]
      /\ mask' = [mask EXCEPT ![t] = {id_to_slot[i] : i \in ids}]
      /\ slot_to_id' = slot_to_id /\ id_to_slot' = id_to_slot
      /\ n_vectors' = n_vectors /\ file' = file
      /\ pc' = [pc EXCEPT ![t] = "search"]
  BY DEF SearchIds, BeginSearch, Goto, tables
<1>3. /\ pc \in [Threads -> {"idle", "search", "repack", "score", "write"}]
      /\ allow \in [Threads -> SUBSET Ids] /\ mask \in [Threads -> SUBSET Nat]
      /\ id_to_slot \in [DOMAIN id_to_slot -> Nat]
  BY DEF IdInv, TypeOKIds, TypeOK
<1>4. /\ allow' \in [Threads -> SUBSET Ids] /\ mask' \in [Threads -> SUBSET Nat]
  BY <1>2, <1>3
<1>5. HitsAreAllowed'
  <2>1. ASSUME NEW u \in Threads, pc'[u] \in {"search", "repack", "score"}
        PROVE  /\ mask'[u] \subseteq 1..Len(slot_to_id)
               /\ {slot_to_id[s] : s \in mask'[u]} = allow'[u]
    <3>1. CASE u = t
      <4>1. mask'[u] = {id_to_slot[i] : i \in ids} /\ allow'[u] = ids
        BY <3>1, <1>2, <1>3
      <4>2. \A i \in ids : id_to_slot[i] \in 1..Len(slot_to_id)
                           /\ slot_to_id[id_to_slot[i]] = i
        BY <1>2, TablesAreDistinct DEF IdInv
      <4>3. QED
        BY <4>1, <4>2
    <3>2. CASE u # t
      BY <2>1, <3>2, <1>2, <1>3 DEF IdInv, HitsAreAllowed
    <3>3. QED
      BY <3>1, <3>2
  <2>2. QED
    BY <2>1, <1>2 DEF HitsAreAllowed
<1>6. TypeOKIds' /\ TablesInverse' /\ FileNamesRows'
  BY <1>1, <1>2, <1>4
     DEF IdInv, IInv, TypeOKIds, TablesInverse, FileNamesRows, HasImage
<1>7. QED
  BY <1>1, <1>5, <1>6 DEF IdInv

LEMMA WithinStep ==
  ASSUME IdInv, NEW t \in Threads, Within(t)
  PROVE  IdInv'
<1>1. slot_to_id \in Seq(Ids)
  BY DEF IdInv, TypeOKIds
<1>2. IInv'
  BY <1>1, FindBlockedStep, BeginRepackStep, EndRepackStep, BeginWriteStep,
     EndWriteStep DEF IdInv, Within
<1>3. /\ slot_to_id' = slot_to_id /\ id_to_slot' = id_to_slot
      /\ allow' = allow /\ mask' = mask /\ n_vectors' = n_vectors
  BY DEF Within, FindBlocked, BeginRepack, EndRepack, BeginWrite, EndWrite,
         memory, tables, queries
<1>4. pc \in [Threads -> {"idle", "search", "repack", "score", "write"}]
  BY DEF IdInv, TypeOKIds, TypeOK
<1>5. \A u \in Threads : pc'[u] \in {"search", "repack", "score"}
                           => pc[u] \in {"search", "repack", "score"}
  BY <1>4 DEF Within, FindBlocked, BeginRepack, EndRepack, BeginWrite, EndWrite, Goto
<1>6. FileNamesRows'
  <2>1. CASE EndWrite(t, slot_to_id)
    BY <2>1 DEF IdInv, EndWrite, ImageOf, FileNamesRows, TablesInverse
  <2>2. CASE BeginWrite(t)
    BY <2>2 DEF BeginWrite, FileNamesRows, HasImage
  <2>3. CASE FindBlocked(t) \/ BeginRepack(t) \/ EndRepack(t)
    BY <2>3 DEF IdInv, FindBlocked, BeginRepack, EndRepack, FileNamesRows, HasImage
  <2>4. QED
    BY <2>1, <2>2, <2>3 DEF Within
<1>7. HitsAreAllowed'
  BY <1>3, <1>5 DEF IdInv, HitsAreAllowed
<1>8. TypeOKIds' /\ TablesInverse'
  BY <1>2, <1>3 DEF IdInv, IInv, TypeOKIds, TablesInverse
<1>9. QED
  BY <1>2, <1>6, <1>7, <1>8 DEF IdInv

LEMMA ReturnHitsStep ==
  ASSUME IdInv, NEW t \in Threads, ReturnHits(t)
  PROVE  IdInv'
<1>1. IInv'
  BY EndSearchStep DEF IdInv, ReturnHits
<1>2. /\ slot_to_id' = slot_to_id /\ id_to_slot' = id_to_slot
      /\ n_vectors' = n_vectors /\ file' = file
      /\ pc' = [pc EXCEPT ![t] = "idle"]
      /\ allow' = [allow EXCEPT ![t] = {}]
      /\ mask' = [mask EXCEPT ![t] = {}]
  BY DEF ReturnHits, EndSearch, Goto, memory, tables
<1>3. /\ pc \in [Threads -> {"idle", "search", "repack", "score", "write"}]
      /\ allow \in [Threads -> SUBSET Ids] /\ mask \in [Threads -> SUBSET Nat]
  BY DEF IdInv, TypeOKIds, TypeOK
<1>4. HitsAreAllowed'
  BY <1>2, <1>3 DEF IdInv, HitsAreAllowed
<1>5. TypeOKIds' /\ TablesInverse' /\ FileNamesRows'
  BY <1>1, <1>2, <1>3
     DEF IdInv, IInv, TypeOKIds, TablesInverse, FileNamesRows, HasImage
<1>6. QED
  BY <1>1, <1>4, <1>5 DEF IdInv

LEMMA LoadIdsStep ==
  ASSUME IdInv, LoadIds
  PROVE  IdInv'
<1>1. IInv'
  BY LoadStep DEF IdInv, LoadIds
<1>2. /\ file.ids \in Seq(Ids) /\ Len(file.ids) = file.n /\ IsDistinct(file.ids)
      /\ slot_to_id' = file.ids /\ id_to_slot' = TableOf(file.ids)
      /\ n_vectors' = file.n /\ pc' = pc /\ file' = file
      /\ allow' = allow /\ mask' = mask
      /\ \A t \in Threads : pc[t] = "idle"
  BY DEF IdInv, IInv, LoadIds, Load, Exclusive, HasImage, FileNamesRows, TypeOK,
         Images, queries
<1>3. /\ \A s \in 1..Len(file.ids) : PositionIn(file.ids, file.ids[s]) = s
      /\ \A s \in 1..Len(file.ids) : file.ids[s] \in Elements(file.ids)
      /\ \A i \in Elements(file.ids) : PositionIn(file.ids, i) \in Nat /\ i \in Ids
  BY <1>2, PositionInDistinct, PositionInProperties DEF Elements
<1>4. TablesInverse'
  BY <1>2, <1>3 DEF TablesInverse, TableOf
<1>5. id_to_slot' \in [DOMAIN id_to_slot' -> Nat] /\ DOMAIN id_to_slot' \subseteq Ids
  BY <1>2, <1>3 DEF TableOf
<1>6. TypeOKIds'
  BY <1>1, <1>2, <1>5 DEF IdInv, IInv, TypeOKIds
<1>7. HitsAreAllowed' /\ FileNamesRows'
  BY <1>2 DEF IdInv, HitsAreAllowed, FileNamesRows, HasImage
<1>8. QED
  BY <1>1, <1>4, <1>6, <1>7 DEF IdInv

LEMMA RestartIdsStep ==
  ASSUME IdInv, NEW d \in Constructors, RestartIds(d)
  PROVE  IdInv'
<1>1. IInv'
  BY RestartStep DEF IdInv, RestartIds
<1>2. QED
  BY <1>1 DEF IdInv, IInv, RestartIds, Restart, TypeOKIds, TablesInverse,
              HitsAreAllowed, FileNamesRows, HasImage, NoIds, Elements

LEMMA StutterIdsStep ==
  ASSUME IdInv, UNCHANGED idvars
  PROVE  IdInv'
<1>1. IInv'
  BY StutterStep DEF IdInv, idvars
<1>2. QED
  BY <1>1 DEF IdInv, IInv, idvars, vars, tables, queries, TypeOKIds,
              TablesInverse, HitsAreAllowed, FileNamesRows, HasImage

\* Older files name their rows too.
LEMMA LegacyFilesNameRows ==
  ASSUME NEW img \in LegacyIdFiles, img.n = Len(img.ids)
  PROVE  /\ img \in Images /\ Len(img.ids) = img.n
         /\ file = img => FileSound
<1>1. PICK d \in LegalDims, vs \in ValidBatches,
           ids \in UNION {IdSeqs(n) : n \in 1..MaxBatch} :
             img = LegacyImage(d, vs, ids)
  BY DEF LegacyIdFiles
<1>2. ids \in Seq(Ids)
  BY IdSeqsProperties
<1>3. QED
  BY <1>1, <1>2, LegacyImageProperties

LEMMA InitIdsStep ==
  ASSUME InitIds
  PROVE  IdInv
<1>1. /\ file \in Images \cup {NoFile} /\ FileSound
      /\ FileNamesRows
  <2>1. CASE file = NoFile
    BY <2>1 DEF FileSound, FileNamesRows, HasImage
  <2>2. CASE file \in LegacyIdFiles /\ file.n = Len(file.ids)
    BY <2>2, LegacyFilesNameRows DEF FileNamesRows
  <2>3. QED
    BY <2>1, <2>2 DEF InitIds
<1>2. dim \in Dims \cup {NoDim}
  BY ConstantsOK DEF ConstantsOK, InitIds
<1>3. IInv
  BY <1>1, <1>2
     DEF InitIds, IInv, TypeOK, StorageAligned, OneCalibration, CalibratedRows,
         BlockedIsCurrent, ScoringIsCurrent, RotationFitsDim
<1>4. TypeOKIds /\ TablesInverse /\ HitsAreAllowed
  BY <1>3 DEF InitIds, IInv, TypeOKIds, TablesInverse, HitsAreAllowed, NoIds, Elements
<1>5. QED
  BY <1>1, <1>3, <1>4 DEF IdInv

LEMMA NextIdsStep ==
  ASSUME IdInv, [NextIds]_idvars
  PROVE  IdInv'
<1>1. CASE \E d \in Dims, vs \in Batches : \E ids \in [1..Len(vs) -> Ids] :
             AddWithIds(d, vs, ids)
  BY <1>1, AcceptedIds, AddWithIdsStep
<1>2. CASE \E d \in Dims : AddNoIds(d)
  BY <1>2, AddNoIdsStep
<1>3. CASE \E id \in Ids : Remove(id)
  BY <1>3, RemoveStep
<1>4. CASE \E t \in Threads : \/ \E ids \in SUBSET Ids : SearchIds(t, ids)
                              \/ Within(t)
                              \/ ReturnHits(t)
  BY <1>4, SearchIdsStep, WithinStep, ReturnHitsStep
<1>5. CASE LoadIds
  BY <1>5, LoadIdsStep
<1>6. CASE \E d \in Constructors : RestartIds(d)
  BY <1>6, RestartIdsStep
<1>7. CASE UNCHANGED idvars
  BY <1>7, StutterIdsStep
<1>8. QED
  BY <1>1, <1>2, <1>3, <1>4, <1>5, <1>6, <1>7 DEF NextIds

-----------------------------------------------------------------------------
\* Theorems about the tables.

\* The invariant of the index and of its tables together.
THEOREM IdInvariance == SpecIds => []IdInv
  BY InitIdsStep, NextIdsStep, PTL DEF SpecIds

\* Every variable of the id-mapped index keeps its type.
THEOREM IdTypeCorrect == SpecIds => []TypeOKIds
<1>1. IdInv => TypeOKIds
  BY DEF IdInv
<1>2. QED
  BY <1>1, IdInvariance, PTL

\* id_to_slot and slot_to_id stay inverse and cover exactly the live slots
\* (add_with_ids_2d, remove, load).
THEOREM TablesStayInverse == SpecIds => []TablesInverse
<1>1. IdInv => TablesInverse
  BY DEF IdInv
<1>2. QED
  BY <1>1, IdInvariance, PTL

\* A search translates its slots back to ids of its own allowlist
\* (search_with_allowlist).
THEOREM SearchesAnswerAllowlist == SpecIds => []HitsAreAllowed
<1>1. IdInv => HitsAreAllowed
  BY DEF IdInv
<1>2. QED
  BY <1>1, IdInvariance, PTL

-----------------------------------------------------------------------------
\* Refinement: each step is a step of the abstract store, or invisible in it.

\* The abstract store is a map, whatever the slots hold.
LEMMA ContentsIsStore ==
  ASSUME NEW ids \in Seq(Ids), NEW rows \in Seq(Rows), Len(rows) = Len(ids)
  PROVE  Contents(ids, rows) \in Store!Stores
<1>1. \A i \in Elements(ids) : PositionIn(ids, i) \in 1..Len(rows) /\ i \in Ids
  BY PositionInProperties DEF Elements
<1>2. \A j \in 1..Len(rows) : rows[j].vec \in Vectors
  <2>1. ASSUME NEW j \in 1..Len(rows) PROVE rows[j] \in Rows
    OBVIOUS
  <2>2. QED
    BY <2>1 DEF Rows
<1>3. Contents(ids, rows) \in [Elements(ids) -> Vectors]
  BY <1>1, <1>2 DEF Contents
<1>4. Elements(ids) \in SUBSET Ids
  BY <1>1
<1>5. QED
  BY <1>3, <1>4 DEF Store!Stores

\* An invisible step: neither the rows, nor their names, nor the file change.
LEMMA Invisible ==
  ASSUME slot_to_id' = slot_to_id, codes' = codes, file' = file
  PROVE  UNCHANGED Store!vars
  BY DEF Store!vars, StoredVectors, SavedVectors, Contents, HasImage

LEMMA AddIsPut ==
  ASSUME IdInv, NEW d \in Dims, NEW vs \in Batches, NEW ids \in IdSeqs(Len(vs)),
         AddWithIds(d, vs, ids)
  PROVE  Store!Put
<1>1. IdInv'
  BY AddWithIdsStep
<1>2. /\ slot_to_id \in Seq(Ids) /\ IsDistinct(slot_to_id)
      /\ codes \in Seq(Rows) /\ Len(codes) = Len(slot_to_id)
      /\ Len(slot_to_id) \in Nat
  BY TablesAreDistinct DEF IdInv, IInv, TypeOK, StorageAligned, TablesInverse
<1>3. /\ slot_to_id' \in Seq(Ids) /\ IsDistinct(slot_to_id')
      /\ codes' \in Seq(Rows) /\ Len(codes') = Len(slot_to_id')
  <2>1. TypeOKIds' /\ TablesInverse' /\ StorageAligned' /\ TypeOK'
    BY <1>1 DEF IdInv, IInv
  <2>2. slot_to_id' \in Seq(Ids) /\ IsDistinct(slot_to_id')
    BY <2>1 DEF TypeOKIds, TablesInverse, IsDistinct
  <2>3. QED
    BY <2>1, <2>2 DEF TypeOK, StorageAligned, TablesInverse
<1>4. /\ ids \in Seq(Ids) /\ Len(ids) = Len(vs) /\ Len(ids) \in Nat
  BY IdSeqsProperties, BatchIsSeq
<1>5. slot_to_id' = slot_to_id \o ids
  BY DEF AddWithIds
<1>6. /\ Len(slot_to_id') = Len(slot_to_id) + Len(ids)
      /\ \A j \in 1..Len(slot_to_id) : slot_to_id'[j] = slot_to_id[j]
  BY <1>2, <1>4, <1>5, ExtendProperties
<1>7. \A j \in 1..Len(codes) : codes'[j] = codes[j]
  <2>1. CASE n_vectors = 0
    BY <2>1 DEF IdInv, IInv, StorageAligned
  <2>2. CASE n_vectors # 0
    <3> DEFINE rows == Encode(vs, BatchCalibration(vs))
    <3>1. codes' = codes \o rows
      BY <2>2 DEF AddWithIds, Add
    <3>2. rows \in Seq(Rows)
      BY BatchCalibrationType, EncodeProperties DEF IdInv, IInv
    <3> HIDE DEF rows
    <3>3. QED
      BY <1>2, <3>1, <3>2, ExtendProperties
  <2>3. QED
    BY <2>1, <2>2
<1>8. StoredVectors' = Contents(slot_to_id', codes')
  BY DEF StoredVectors, Contents
<1>9. StoredVectors' \in Store!Stores
  BY <1>3, <1>8, ContentsIsStore
<1>10. /\ DOMAIN StoredVectors = Elements(slot_to_id)
       /\ \A s \in 1..Len(slot_to_id) : StoredVectors[slot_to_id[s]] = codes[s].vec
  BY <1>2, ContentsProperties DEF StoredVectors
<1>11. /\ DOMAIN StoredVectors' = Elements(slot_to_id')
       /\ \A s \in 1..Len(slot_to_id') : StoredVectors'[slot_to_id'[s]] = codes'[s].vec
  BY <1>3, <1>8, ContentsProperties
<1>12. ASSUME NEW i \in DOMAIN StoredVectors
       PROVE  i \in DOMAIN StoredVectors' /\ StoredVectors'[i] = StoredVectors[i]
  <2>1. PICK s \in 1..Len(slot_to_id) : slot_to_id[s] = i
    BY <1>10 DEF Elements
  <2>2. s \in 1..Len(slot_to_id') /\ slot_to_id'[s] = i /\ codes'[s] = codes[s]
    BY <2>1, <1>2, <1>4, <1>6, <1>7
  <2>3. i \in DOMAIN StoredVectors'
    BY <2>2, <1>11 DEF Elements
  <2>4. QED
    BY <2>1, <2>2, <2>3, <1>10, <1>11
<1>13. SavedVectors' = SavedVectors
  BY DEF AddWithIds, Add, SavedVectors, HasImage
<1>14. QED
  BY <1>9, <1>12, <1>13 DEF Store!Put

LEMMA RemoveIsDelete ==
  ASSUME IdInv, NEW id \in Ids, Remove(id)
  PROVE  Store!Delete(id)
<1> DEFINE slot == id_to_slot[id]
           last == Len(slot_to_id)
<1>1. /\ slot_to_id \in Seq(Ids) /\ IsDistinct(slot_to_id)
      /\ slot \in 1..last /\ slot_to_id[slot] = id
      /\ codes \in Seq(Rows) /\ Len(codes) = last /\ last \in Nat
      /\ id \in Elements(slot_to_id)
  BY TablesAreDistinct
     DEF IdInv, IInv, Remove, TypeOK, StorageAligned, TablesInverse
<1>2. /\ codes' = SwapRemove(codes, slot)
      /\ slot_to_id' = SwapRemove(slot_to_id, slot)
      /\ file' = file
  BY DEF Remove, SwapRemoveSlot
<1> HIDE DEF slot
<1>3. /\ Len(slot_to_id') = last - 1 /\ slot_to_id' \in Seq(Ids)
      /\ \A j \in 1..(last - 1) :
           slot_to_id'[j] = IF j = slot THEN slot_to_id[last] ELSE slot_to_id[j]
  BY <1>1, <1>2, SwapRemoveProperties
<1>4. \A j \in 1..(last - 1) : codes'[j] = IF j = slot THEN codes[last] ELSE codes[j]
  <2>1. codes \in Seq(Rows) /\ slot \in 1..Len(codes) /\ codes' = SwapRemove(codes, slot)
    BY <1>1, <1>2
  <2>2. \A j \in 1..(Len(codes) - 1) :
          SwapRemove(codes, slot)[j] = IF j = slot THEN codes[Len(codes)] ELSE codes[j]
    BY <2>1, SwapRemoveProperties
  <2>3. QED
    BY <2>1, <2>2, <1>1
<1>5. Elements(slot_to_id') = Elements(slot_to_id) \ {id}
  BY <1>1, <1>2, ElementsSwapRemove
<1>6. IsDistinct(slot_to_id')
  <2>1. IdInv'
    BY RemoveStep
  <2>2. QED
    BY <2>1 DEF IdInv, TypeOKIds, TablesInverse, IsDistinct
<1>7. StoredVectors' = Contents(slot_to_id', codes')
  BY DEF StoredVectors, Contents
<1>8. /\ DOMAIN StoredVectors = Elements(slot_to_id)
      /\ \A s \in 1..Len(slot_to_id) : StoredVectors[slot_to_id[s]] = codes[s].vec
  BY <1>1, ContentsProperties DEF StoredVectors
<1>9. /\ DOMAIN StoredVectors' = Elements(slot_to_id')
      /\ \A s \in 1..Len(slot_to_id') : StoredVectors'[slot_to_id'[s]] = codes'[s].vec
  BY <1>3, <1>6, <1>7, ContentsProperties
<1>10. ASSUME NEW i \in Elements(slot_to_id')
       PROVE  StoredVectors'[i] = StoredVectors[i]
  <2>1. PICK j \in 1..(last - 1) : slot_to_id'[j] = i
    BY <1>3 DEF Elements
  <2>2. j \in 1..last /\ last \in 1..last
    BY <2>1, <1>1
  <2>3. CASE j = slot
    BY <2>1, <2>2, <2>3, <1>3, <1>4, <1>8, <1>9
  <2>4. CASE j # slot
    BY <2>1, <2>2, <2>4, <1>3, <1>4, <1>8, <1>9
  <2>5. QED
    BY <2>3, <2>4
<1>11. StoredVectors' = [i \in DOMAIN StoredVectors \ {id} |-> StoredVectors[i]]
  <2>1. StoredVectors' = [i \in DOMAIN StoredVectors' |-> StoredVectors'[i]]
    BY <1>7 DEF Contents
  <2>2. QED
    BY <2>1, <1>5, <1>8, <1>9, <1>10
<1>12. SavedVectors' = SavedVectors
  BY <1>2 DEF SavedVectors, HasImage
<1>13. QED
  BY <1>1, <1>8, <1>11, <1>12 DEF Store!Delete

\* The steps inside one borrow show through only when a file is written.
LEMMA WithinIsSave ==
  ASSUME IdInv, NEW t \in Threads, Within(t)
  PROVE  Store!BeginSave \/ Store!EndSave \/ UNCHANGED Store!vars
<1>1. slot_to_id' = slot_to_id /\ codes' = codes
  BY DEF Within, FindBlocked, BeginRepack, EndRepack, BeginWrite, EndWrite,
         memory, tables
<1>2. StoredVectors' = StoredVectors
  BY <1>1 DEF StoredVectors, Contents
<1>3. CASE BeginWrite(t)
  <2>1. SavedVectors' = NoFile
    BY <1>3 DEF BeginWrite, SavedVectors, HasImage
  <2>2. QED
    BY <2>1, <1>2 DEF Store!BeginSave
<1>4. CASE EndWrite(t, slot_to_id)
  <2>1. file' = ImageOf(slot_to_id) /\ file' \in Images
    BY <1>4, ImageType DEF EndWrite, IdInv, IInv, TypeOKIds
  <2>2. file' # NoFile /\ file' # Torn
    BY <2>1, MarkersOK DEF MarkersOK
  <2>3. SavedVectors' = Contents(slot_to_id, codes)
    BY <2>1, <2>2 DEF SavedVectors, HasImage, ImageOf, Contents
  <2>4. QED
    BY <2>3, <1>2 DEF StoredVectors, Store!EndSave
<1>5. CASE FindBlocked(t) \/ BeginRepack(t) \/ EndRepack(t)
  <2>1. file' = file
    BY <1>5 DEF FindBlocked, BeginRepack, EndRepack
  <2>2. QED
    BY <2>1, <1>1, Invisible
<1>6. QED
  BY <1>3, <1>4, <1>5 DEF Within

LEMMA LoadIsRestore ==
  ASSUME IdInv, LoadIds
  PROVE  Store!Restore
<1>1. /\ HasImage /\ file \in Images /\ file.ids \in Seq(Ids)
      /\ file.codes \in Seq(Rows) /\ Len(file.codes) = Len(file.ids)
      /\ slot_to_id' = file.ids /\ codes' = file.codes /\ file' = file
  BY DEF IdInv, IInv, TypeOK, LoadIds, Load, HasImage, FileSound, FileNamesRows, Images
<1>2. SavedVectors = Contents(file.ids, file.codes)
  BY <1>1 DEF SavedVectors
<1>3. SavedVectors # NoFile
  <2>1. SavedVectors \in Store!Stores
    BY <1>1, <1>2, ContentsIsStore
  <2>2. QED
    BY <2>1, MarkersOK DEF MarkersOK, Store!Stores
<1>4. StoredVectors' = SavedVectors /\ SavedVectors' = SavedVectors
  BY <1>1, <1>2 DEF StoredVectors, SavedVectors, Contents, HasImage
<1>5. QED
  BY <1>3, <1>4 DEF Store!Restore

LEMMA RestartIsForget ==
  ASSUME NEW d \in Constructors, RestartIds(d)
  PROVE  Store!Forget
<1>1. slot_to_id' = << >> /\ file' = file
  BY DEF RestartIds, Restart
<1>2. Elements(<< >>) = {}
  BY DEF Elements
<1>3. StoredVectors' = Store!EmptyStore
  BY <1>1, <1>2 DEF StoredVectors, Contents, Store!EmptyStore
<1>4. SavedVectors' = SavedVectors
  BY <1>1 DEF SavedVectors, HasImage
<1>5. QED
  BY <1>3, <1>4 DEF Store!Forget

LEMMA InitIsInit ==
  ASSUME InitIds
  PROVE  Store!Init
<1>1. StoredVectors = Store!EmptyStore
  <2>1. slot_to_id = << >> /\ Elements(<< >>) = {}
    BY DEF InitIds, Elements
  <2>2. QED
    BY <2>1 DEF StoredVectors, Contents, Store!EmptyStore
<1>2. SavedVectors \in Store!Stores \cup {NoFile}
  <2>1. CASE HasImage
    <3>1. IdInv
      BY InitIdsStep
    <3>2. /\ file \in Images /\ file.ids \in Seq(Ids)
          /\ file.codes \in Seq(Rows) /\ Len(file.codes) = Len(file.ids)
      BY <2>1, <3>1 DEF IdInv, IInv, TypeOK, HasImage, FileSound, FileNamesRows, Images
    <3>3. QED
      BY <2>1, <3>2, ContentsIsStore DEF SavedVectors
  <2>2. CASE ~HasImage
    BY <2>2 DEF SavedVectors
  <2>3. QED
    BY <2>1, <2>2
<1>3. QED
  BY <1>1, <1>2 DEF Store!Init

LEMMA StepIsStep ==
  ASSUME IdInv, [NextIds]_idvars
  PROVE  [Store!Next]_(Store!vars)
<1>1. CASE \E d \in Dims, vs \in Batches : \E ids \in [1..Len(vs) -> Ids] :
             AddWithIds(d, vs, ids)
  BY <1>1, AcceptedIds, AddIsPut DEF Store!Next
<1>2. CASE \E d \in Dims : AddNoIds(d)
  BY <1>2, Invisible DEF AddNoIds, AddNothing, tables
<1>3. CASE \E id \in Ids : Remove(id)
  BY <1>3, RemoveIsDelete DEF Store!Next
<1>4. ASSUME NEW t \in Threads, NEW ids \in SUBSET Ids, SearchIds(t, ids)
      PROVE  UNCHANGED Store!vars
  BY <1>4, Invisible DEF SearchIds, BeginSearch, tables
<1>5. ASSUME NEW t \in Threads, Within(t)
      PROVE  [Store!Next]_(Store!vars)
  BY <1>5, WithinIsSave DEF Store!Next
<1>6. ASSUME NEW t \in Threads, ReturnHits(t)
      PROVE  UNCHANGED Store!vars
  BY <1>6, Invisible DEF ReturnHits, EndSearch, memory, tables
<1>7. CASE LoadIds
  BY <1>7, LoadIsRestore DEF Store!Next
<1>8. CASE \E d \in Constructors : RestartIds(d)
  BY <1>8, RestartIsForget DEF Store!Next
<1>9. CASE UNCHANGED idvars
  BY <1>9, Invisible DEF idvars, vars, tables
<1>10. QED
  BY <1>1, <1>2, <1>3, <1>4, <1>5, <1>6, <1>7, <1>8, <1>9 DEF NextIds

\* The id-mapped index implements VectorStore: through ids, nothing else of
\* it can be observed (id_map.rs, module comment).
THEOREM Refinement == SpecIds => ImplementsVectorStore
<1>1. InitIds => Store!Init
  BY InitIsInit
<1>2. IdInv /\ [NextIds]_idvars => [Store!Next]_(Store!vars)
  BY StepIsStep
<1>3. QED
  BY <1>1, <1>2, IdInvariance, PTL DEF SpecIds, ImplementsVectorStore, Store!Spec

=============================================================================
