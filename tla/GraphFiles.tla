----------------------------- MODULE GraphFiles -----------------------------
(***************************************************************************)
(* Persistence of the graph memory (turbo-graph/src/graph_memory.rs): the  *)
(* vectors go to one file and everything else to a sidecar, one after the  *)
(* other, each truncated and then written in place.  load reads both and   *)
(* believes them once their shapes, counts and ids agree.                  *)
(*                                                                         *)
(* Abstractions.  A file is absent, torn (its reader reports an error) or  *)
(* holds what was written.  The byte layout is left out; that version 1    *)
(* sidecars lack source and timestamp is not.                              *)
(***************************************************************************)
EXTENDS GraphMemory

CONSTANTS
  Shapes,    \* [dim, bit_width] of the memories a program creates
  OldPairs,  \* bound: pairs of files an earlier version left behind, from
             \* memories it may have had
  NoFile, Torn

\* The history of a file: a memory some write was asked to save.
IsMemory(m) ==
  /\ m = [shape |-> m.shape, slot_to_id |-> m.slot_to_id, edges |-> m.edges, nodes |-> m.nodes]
  /\ m.slot_to_id \in Seq(Ids) /\ IsDistinct(m.slot_to_id)
  /\ m.nodes = [i \in Elements(m.slot_to_id) |-> m.nodes[i]]
  /\ DOMAIN m.edges \subseteq (DOMAIN m.nodes) \X (DOMAIN m.nodes)
  /\ m.edges \in [DOMAIN m.edges -> Weights] /\ IsFiniteSet(DOMAIN m.edges)

\* What a write leaves in the first file and in the second, in this version or
\* in one without source and timestamp.
HoldsVectors(file) ==
  /\ IsMemory(file.wrote) /\ file.shape = file.wrote.shape
  /\ file.rows \in Seq(Vectors) /\ Len(file.rows) = Len(file.wrote.slot_to_id)
  /\ \A s \in DOMAIN file.rows :
       file.wrote.nodes[file.wrote.slot_to_id[s]][1] = file.rows[s]

HoldsGraph(file) ==
  /\ IsMemory(file.wrote) /\ file.shape = file.wrote.shape
  /\ file.slot_to_id = file.wrote.slot_to_id /\ file.edges = file.wrote.edges
  /\ file.records = [i \in DOMAIN file.wrote.nodes |-> file.wrote.nodes[i][2]]
  /\ \A i \in DOMAIN file.records :
       file.records[i] \in IF file.version = 1 THEN [tags : SUBSET Tags]
                           ELSE [tags : SUBSET Tags, source : Sources \cup {NoSource},
                                 time : Int \cup {NoTime}]

ASSUME FilesConstantsOK ==
  \A pair \in OldPairs : HoldsVectors(pair.index_file) /\ HoldsGraph(pair.sidecar)

VARIABLES
  shape,       \* dim and bit_width of the memory in use
  index_file,  \* NoFile, Torn, or [shape, rows, wrote]
  sidecar      \* NoFile, Torn, or [version, shape, slot_to_id, records, edges, wrote]
files == <<shape, index_file, sidecar>>

\* history: the memory that is written.
Contents == [shape |-> shape, slot_to_id |-> slot_to_id, edges |-> edges,
             nodes |-> [i \in Live |-> <<rows[id_to_slot[i]], records[i]>>]]

IndexImage == [shape |-> shape, rows |-> rows, wrote |-> Contents]

\* Mutant: the records are written in the order of their ids.
SidecarById ==
  [version |-> 2, shape |-> shape,
   slot_to_id |-> [s \in 1..Cardinality(Live) |->
                     CHOOSE i \in Live : Cardinality({j \in Live : j < i}) = s - 1],
   records |-> records, edges |-> edges, wrote |-> Contents]

\* write_graph_sidecar
SidecarImage == [version |-> 2, shape |-> shape, slot_to_id |-> slot_to_id, records |-> records,
                 edges |-> edges, wrote |-> Contents]

\* write
Write == /\ index_file' = IndexImage /\ sidecar' = SidecarImage
         /\ UNCHANGED <<vars, shape>>

\* A write that a failure of the file system, or the end of the process, stops:
\* in the index, before the sidecar, or in the sidecar.
WriteStops ==
  /\ \/ index_file' = Torn /\ sidecar' = sidecar
     \/ index_file' = IndexImage /\ sidecar' \in {sidecar, Torn}
  /\ UNCHANGED <<vars, shape>>

Readable(file) == file \notin {NoFile, Torn}

\* read_graph_sidecar: what it makes of a record of the file's version.
ReadRecord(r) == [tags |-> r.tags,
                  source |-> IF sidecar.version = 1 THEN NoSource ELSE r.source,
                  time |-> IF sidecar.version = 1 THEN NoTime ELSE r.time]

\* build_tag_index, build_source_index, build_time_index
TagIndexOf(rs) == [t \in Tags |-> {i \in DOMAIN rs : t \in rs[i].tags}]
SourceIndexOf(rs) == [s \in Sources |-> {i \in DOMAIN rs : rs[i].source = s}]

\* Mutant: a record without a timestamp is listed under a default one.
TimeIndexDefault(rs) == {<<IF rs[i].time = NoTime THEN 0 ELSE rs[i].time, i>> : i \in DOMAIN rs}

TimeIndexOf(rs) == UNION {TimeEntry(i, rs[i]) : i \in DOMAIN rs}

\* Mutant: the two files are not compared.
AgreeOnIds == /\ IsDistinct(sidecar.slot_to_id)
              /\ Elements(sidecar.slot_to_id) = DOMAIN sidecar.records

\* What load compares: shapes and counts of the two files, and within the
\* sidecar ids, records and the ends of edges.
Agree == /\ sidecar.shape = index_file.shape
         /\ Len(sidecar.slot_to_id) = Len(index_file.rows)
         /\ IsDistinct(sidecar.slot_to_id)
         /\ Elements(sidecar.slot_to_id) = DOMAIN sidecar.records
         /\ \A e \in DOMAIN sidecar.edges : e[1] \in DOMAIN sidecar.records
                                         /\ e[2] \in DOMAIN sidecar.records

\* load; when it fails the program has no memory, or keeps the one it had.
Load ==
  /\ Readable(index_file) /\ Readable(sidecar) /\ Agree
  /\ LET rs == [i \in DOMAIN sidecar.records |-> ReadRecord(sidecar.records[i])]
     IN  /\ records' = rs
         /\ tag_to_ids' = TagIndexOf(rs)
         /\ source_to_ids' = SourceIndexOf(rs)
         /\ time_index' = TimeIndexOf(rs)
  /\ rows' = index_file.rows
  /\ slot_to_id' = sidecar.slot_to_id
  /\ id_to_slot' = [i \in Elements(sidecar.slot_to_id) |-> PositionIn(sidecar.slot_to_id, i)]
  /\ edges' = sidecar.edges
  /\ caches' = [c \in CacheNames |-> EmptyFn]
  /\ shape' = index_file.shape
  /\ UNCHANGED <<index_file, sidecar>>

\* new: the program starts, or starts over, with an empty memory.
New(sh) ==
  /\ rows' = << >> /\ slot_to_id' = << >> /\ id_to_slot' = EmptyFn
  /\ records' = EmptyFn /\ edges' = EmptyFn
  /\ tag_to_ids' = [t \in Tags |-> {}] /\ source_to_ids' = [s \in Sources |-> {}]
  /\ time_index' = {}
  /\ caches' = [c \in CacheNames |-> EmptyFn]
  /\ shape' = sh
  /\ UNCHANGED <<index_file, sidecar>>

FilesInit ==
  /\ shape \in Shapes
  /\ \/ index_file = NoFile /\ sidecar = NoFile
     \/ \E pair \in OldPairs : index_file = pair.index_file /\ sidecar = pair.sidecar

-----------------------------------------------------------------------------
\* Properties.

\* Both files come from one write (an old pair does).
Paired == Readable(index_file) /\ Readable(sidecar) /\ index_file.wrote = sidecar.wrote

\* load never turns down what one write wrote: its checks hold of every memory
\* the program can reach, edges and removed nodes included.  And it gives every
\* id the vector, the record and the edges it had, whatever moved its slot
\* before; a version 1 sidecar gives all but source and timestamp.
WritesRestored ==
  [][Paired =>
       /\ Agree
       /\ Load => Contents' = [sidecar.wrote EXCEPT !.nodes =
                                 [i \in DOMAIN @ |-> <<@[i][1], ReadRecord(@[i][2])>>]]]_<<vars, files>>

=============================================================================
