---------------------------- MODULE Stores_proofs ----------------------------
(***************************************************************************)
(* The stores, for every set of documents and readers and batches of any   *)
(* size: a search keeps what it borrowed, tables and index stay in step,   *)
(* a call does what its duplicate policy promises, no document is ever     *)
(* paired with the vector of another, and every table holds what it should.*)
(***************************************************************************)
EXTENDS Stores, SlotsTheorems

-----------------------------------------------------------------------------
\* The positions a batch keeps.

\* The position Keeping picks for place i.
Picked(kept, i) == CHOOSE m \in kept : Cardinality({l \in kept : l <= m}) = i

\* It picks every kept position once.
LEMMA KeepingPicks ==
  ASSUME NEW S, NEW batch \in Seq(S), NEW kept \in SUBSET (1..Len(batch))
  PROVE  /\ Cardinality(kept) \in Nat
         /\ \A i \in 1..Cardinality(kept) : Picked(kept, i) \in kept
         /\ \A i, j \in 1..Cardinality(kept) : Picked(kept, i) = Picked(kept, j) => i = j
         /\ \A m \in kept : \E i \in 1..Cardinality(kept) : Picked(kept, i) = m
         /\ Keeping(batch, kept) \in Seq(S) /\ Len(Keeping(batch, kept)) = Cardinality(kept)
         /\ \A i \in 1..Cardinality(kept) : Keeping(batch, kept)[i] = batch[Picked(kept, i)]
<1> DEFINE rank(m) == Cardinality({l \in kept : l <= m})
           ranks == 1..Cardinality(kept)
           pick == [i \in ranks |-> Picked(kept, i)]
<1>1. Cardinality(kept) \in Nat /\ \A i \in ranks : \E m \in kept : rank(m) = i
  <2>1. Len(batch) \in Int
    OBVIOUS
  <2>2. QED
    BY <2>1, 1 \in Int, RanksTaken
<1>2. \A i \in ranks : Picked(kept, i) \in kept /\ rank(Picked(kept, i)) = i
  <2>1. \A i : Picked(kept, i) = CHOOSE m \in kept : rank(m) = i
    BY DEF Picked
  <2> HIDE DEF rank, ranks
  <2>2. QED
    BY <1>1, <2>1
<1>3. pick \in [ranks -> kept] /\ \A i \in ranks : pick[i] = Picked(kept, i)
  BY <1>2
<1>4. \A i, j \in ranks : Picked(kept, i) = Picked(kept, j) => i = j
  <2> HIDE DEF rank, ranks, pick
  <2>1. QED
    BY <1>2
<1>5. ASSUME NEW m \in kept
      PROVE  \E i \in ranks : Picked(kept, i) = m
  <2>1. IsFiniteSet(ranks) /\ IsFiniteSet(kept) /\ Cardinality(ranks) = Cardinality(kept)
    <3>1. Len(batch) \in Int
      OBVIOUS
    <3>2. IsFiniteSet(kept) /\ Cardinality(kept) \in Nat
      BY <3>1, 1 \in Int, RanksTaken
    <3>3. QED
      BY <3>2, FS_Interval
  <2>2. pick \in Injection(ranks, kept)
    <3> HIDE DEF pick, ranks, rank
    <3>1. QED
      BY <1>3, <1>4 DEF Injection, IsInjective
  <2>3. pick \in Surjection(ranks, kept)
    <3> HIDE DEF pick, ranks, rank
    <3>1. QED
      BY <2>1, <2>2, FS_Injection
  <2>4. QED
    BY <1>3, <2>3 DEF Surjection
<1>6. Keeping(batch, kept) = [i \in ranks |-> batch[Picked(kept, i)]]
  BY DEF Keeping, Picked
<1>7. /\ \A i \in ranks : Keeping(batch, kept)[i] = batch[Picked(kept, i)]
      /\ Keeping(batch, kept) \in Seq(S) /\ Len(Keeping(batch, kept)) = Cardinality(kept)
  <2>1. \A i \in ranks : batch[Picked(kept, i)] \in S
    <3>1. \A m \in kept : batch[m] \in S
      OBVIOUS
    <3> HIDE DEF ranks, rank
    <3>2. QED
      BY <1>2, <3>1
  <2>2. /\ \A i \in ranks : Keeping(batch, kept)[i] = batch[Picked(kept, i)]
        /\ Keeping(batch, kept) \in [ranks -> S]
    <3> HIDE DEF ranks
    <3>1. QED
      BY <1>6, <2>1
  <2>3. QED
    BY <1>1, <2>2, ArrayIsSeq
<1>8. QED
  BY <1>1, <1>2, <1>4, <1>5, <1>7

-----------------------------------------------------------------------------
\* What a write queues.

\* Every id of a batch has one last row, and one first.
LEMMA LastRow ==
  ASSUME NEW batch \in Seq(Documents), NEW i \in IdsOf(batch)
  PROVE  \E n \in 1..Len(batch) :
           /\ batch[n].id = i /\ IsLast(batch, n)
           /\ LastOf(batch, i) = batch[n]
           /\ \A m \in 1..Len(batch) : batch[m].id = i /\ IsLast(batch, m) => m = n
<1> DEFINE rows == {m \in 1..Len(batch) : batch[m].id = i}
<1>1. Len(batch) \in Int /\ DOMAIN batch = 1..Len(batch)
  OBVIOUS
<1>2. rows \in SUBSET (1..Len(batch)) /\ rows # {}
  BY <1>1 DEF IdsOf
<1>3. PICK n \in rows : \A m \in rows : m <= n
  <2> HIDE DEF rows
  <2>1. QED
    BY <1>1, <1>2, 1 \in Int, GreatestPosition
<1>4. \A m \in 1..Len(batch) : batch[m].id = i /\ IsLast(batch, m) <=> m = n
  BY <1>1, <1>3 DEF IsLast
<1>5. LastOf(batch, i) = batch[n]
  BY <1>1, <1>3, <1>4 DEF LastOf
<1>6. QED
  BY <1>3, <1>4, <1>5

LEMMA FirstRow ==
  ASSUME NEW batch \in Seq(Documents), NEW i \in IdsOf(batch)
  PROVE  \E n \in 1..Len(batch) :
           /\ batch[n].id = i /\ IsFirst(batch, n)
           /\ FirstOf(batch, i) = batch[n]
           /\ \A m \in 1..Len(batch) : batch[m].id = i /\ IsFirst(batch, m) => m = n
<1> DEFINE rows == {m \in 1..Len(batch) : batch[m].id = i}
<1>1. Len(batch) \in Int /\ DOMAIN batch = 1..Len(batch)
  OBVIOUS
<1>2. rows \in SUBSET (1..Len(batch)) /\ rows # {}
  BY <1>1 DEF IdsOf
<1>3. PICK n \in rows : \A m \in rows : n <= m
  <2> HIDE DEF rows
  <2>1. QED
    BY <1>1, <1>2, 1 \in Int, LeastPosition
<1>4. \A m \in 1..Len(batch) : batch[m].id = i /\ IsFirst(batch, m) <=> m = n
  BY <1>1, <1>3 DEF IsFirst
<1>5. FirstOf(batch, i) = batch[n]
  BY <1>1, <1>3, <1>4 DEF FirstOf
<1>6. QED
  BY <1>3, <1>4, <1>5

\* A queue has each id once, and for it the row that the policy lets win.
Queues(q, batch, policy, stored) ==
  /\ q \in Seq(Documents)
  /\ \A m, n \in 1..Len(q) : q[m].id = q[n].id => m = n
  /\ IdsOf(q) = IF policy = "skip" THEN IdsOf(batch) \ stored ELSE IdsOf(batch)
  /\ \A n \in 1..Len(q) : q[n] = IF policy = "skip" THEN FirstOf(batch, q[n].id)
                                ELSE LastOf(batch, q[n].id)

LEMMA DeduplicatedQueues ==
  ASSUME NEW batch \in Seq(Documents)
  PROVE  Queues(Deduplicated(batch), batch, "overwrite", DOMAIN str_to_u64)
<1> DEFINE kept == {n \in DOMAIN batch : IsLast(batch, n)}
           q == Deduplicated(batch)
           size == Cardinality(kept)
           pick(i) == Picked(kept, i)
<1>1. /\ Len(batch) \in Int /\ DOMAIN batch = 1..Len(batch)
      /\ batch \in [1..Len(batch) -> Documents] /\ kept \in SUBSET (1..Len(batch))
  OBVIOUS
<1>2. q = Keeping(batch, kept)
  BY DEF Deduplicated
<1> HIDE DEF q
<1>3. /\ size \in Nat
      /\ \A i \in 1..size : pick(i) \in kept
      /\ \A i, j \in 1..size : pick(i) = pick(j) => i = j
      /\ \A m \in kept : \E i \in 1..size : pick(i) = m
      /\ q \in Seq(Documents) /\ Len(q) = size
      /\ \A i \in 1..size : q[i] = batch[pick(i)]
  <2> HIDE DEF kept
  <2>1. QED
    BY <1>1, <1>2, KeepingPicks
<1>4. q \in Seq(Documents) /\ Len(q) = size
  BY <1>3
<1>5. \A i \in 1..size : /\ pick(i) \in 1..Len(batch) /\ IsLast(batch, pick(i))
                         /\ q[i] = batch[pick(i)] /\ q[i].id \in IdsOf(batch)
  BY <1>1, <1>3 DEF IdsOf
<1> HIDE DEF size, pick
<1>6. \A m, n \in 1..Len(q) : q[m].id = q[n].id => m = n
  <2> SUFFICES ASSUME NEW m \in 1..Len(q), NEW n \in 1..Len(q), q[m].id = q[n].id
               PROVE  m = n
    OBVIOUS
  <2>1. pick(m) = pick(n)
    BY <1>4, <1>5, LastRow
  <2>2. QED
    BY <1>3, <1>4, <2>1
<1>7. IdsOf(q) = IdsOf(batch)
  <2>1. ASSUME NEW i \in IdsOf(batch)
        PROVE  i \in IdsOf(q)
    <3>1. PICK n \in 1..Len(batch) : batch[n].id = i /\ IsLast(batch, n)
      BY LastRow
    <3>2. PICK k \in 1..size : pick(k) = n
      BY <1>1, <1>3, <3>1
    <3>3. q[k].id = i /\ k \in DOMAIN q
      BY <1>4, <1>5, <3>1, <3>2
    <3>4. QED
      BY <3>3 DEF IdsOf
  <2>2. DOMAIN q = 1..size
    BY <1>4
  <2>3. QED
    BY <1>5, <2>1, <2>2 DEF IdsOf
<1>8. \A n \in 1..Len(q) : q[n] = LastOf(batch, q[n].id)
  BY <1>4, <1>5, LastRow
<1>9. QED
  BY <1>4, <1>6, <1>7, <1>8 DEF Queues, q

\* Keeping the rows whose ids are first and not among the old ones keeps each
\* other id once.
NewRows(batch, old) == {n \in DOMAIN batch : IsFirst(batch, n) /\ batch[n].id \notin old}
QueuesNew(q, batch, old) ==
  /\ q \in Seq(Documents)
  /\ \A m, n \in 1..Len(q) : q[m].id = q[n].id => m = n
  /\ IdsOf(q) = IdsOf(batch) \ old
  /\ \A n \in 1..Len(q) : q[n] = FirstOf(batch, q[n].id)

LEMMA FirstRowsKept ==
  ASSUME NEW batch \in Seq(Documents), NEW old
  PROVE  QueuesNew(Keeping(batch, NewRows(batch, old)), batch, old)
<1> DEFINE kept == NewRows(batch, old)
           q == Keeping(batch, kept)
           size == Cardinality(kept)
           pick(i) == Picked(kept, i)
<1>1. /\ DOMAIN batch = 1..Len(batch) /\ kept \in SUBSET (1..Len(batch))
      /\ \A n \in 1..Len(batch) : n \in kept <=> IsFirst(batch, n) /\ batch[n].id \notin old
  BY DEF NewRows
<1> HIDE DEF kept
<1>2. /\ size \in Nat
      /\ \A i \in 1..size : pick(i) \in kept
      /\ \A i, j \in 1..size : pick(i) = pick(j) => i = j
      /\ \A m \in kept : \E i \in 1..size : pick(i) = m
      /\ q \in Seq(Documents) /\ Len(q) = size
      /\ \A i \in 1..size : q[i] = batch[pick(i)]
  BY <1>1, KeepingPicks
<1> HIDE DEF q
<1>3. \A i \in 1..size : /\ pick(i) \in 1..Len(batch) /\ IsFirst(batch, pick(i))
                         /\ q[i] = batch[pick(i)] /\ q[i].id \in IdsOf(batch) \ old
  BY <1>1, <1>2 DEF IdsOf
<1> HIDE DEF size, pick
<1>4. \A m, n \in 1..Len(q) : q[m].id = q[n].id => m = n
  <2> SUFFICES ASSUME NEW m \in 1..Len(q), NEW n \in 1..Len(q), q[m].id = q[n].id
               PROVE  m = n
    OBVIOUS
  <2>1. pick(m) = pick(n)
    BY <1>2, <1>3, FirstRow
  <2>2. QED
    BY <1>2, <2>1
<1>5. IdsOf(q) = IdsOf(batch) \ old
  <2>1. ASSUME NEW i \in IdsOf(batch), i \notin old
        PROVE  i \in IdsOf(q)
    <3>1. PICK n \in 1..Len(batch) : batch[n].id = i /\ IsFirst(batch, n)
      BY FirstRow
    <3>2. PICK k \in 1..size : pick(k) = n
      BY <1>1, <1>2, <2>1, <3>1
    <3>3. q[k].id = i /\ k \in DOMAIN q
      BY <1>2, <1>3, <3>1, <3>2
    <3>4. QED
      BY <3>3 DEF IdsOf
  <2>2. DOMAIN q = 1..size
    BY <1>2
  <2>3. QED
    BY <1>3, <2>1, <2>2 DEF IdsOf
<1>6. \A n \in 1..Len(q) : q[n] = FirstOf(batch, q[n].id)
  BY <1>2, <1>3, FirstRow
<1>7. QED
  <2> HIDE DEF kept
  <2>1. q = Keeping(batch, kept)
    BY DEF q
  <2>2. QueuesNew(q, batch, old)
    BY <1>2, <1>4, <1>5, <1>6 DEF QueuesNew
  <2>3. QED
    BY <2>2 DEF q, kept

LEMMA QueuedQueues ==
  ASSUME NEW batch \in Seq(Documents), NEW policy \in {"fail", "skip", "overwrite"}
  PROVE  Queues(Queued(batch, policy), batch, policy, DOMAIN str_to_u64)
<1> DEFINE old == IF policy = "skip" THEN DOMAIN str_to_u64 ELSE {}
           queue == Keeping(batch, NewRows(batch, old))
           q == Queued(batch, policy)
<1>1. q = IF policy = "skip" THEN queue
          ELSE [n \in DOMAIN queue |-> LastOf(batch, queue[n].id)]
  BY DEF Queued, NewRows
<1> HIDE DEF q
<1>2. /\ queue \in Seq(Documents)
      /\ \A m, n \in 1..Len(queue) : queue[m].id = queue[n].id => m = n
      /\ IdsOf(queue) = IdsOf(batch) \ old
      /\ \A n \in 1..Len(queue) : queue[n] = FirstOf(batch, queue[n].id)
  <2> HIDE DEF old
  <2>1. QueuesNew(queue, batch, old)
    BY FirstRowsKept
  <2>2. QED
    BY <2>1 DEF QueuesNew
<1> HIDE DEF queue
<1>3. CASE policy = "skip"
  <2>1. q = queue
    BY <1>1, <1>3
  <2>2. QED
    BY <1>2, <1>3, <2>1 DEF Queues, q
<1>4. CASE policy # "skip"
  <2>1. old = {} /\ DOMAIN queue = 1..Len(queue) /\ Len(queue) \in Nat
    BY <1>2, <1>4
  <2>2. \A n \in 1..Len(queue) : /\ LastOf(batch, queue[n].id) \in Documents
                                 /\ LastOf(batch, queue[n].id).id = queue[n].id
    <3>1. ASSUME NEW n \in 1..Len(queue)
          PROVE  queue[n].id \in IdsOf(batch)
      BY <1>2, <2>1 DEF IdsOf
    <3>2. QED
      BY <3>1, LastRow
  <2>3. q \in [1..Len(queue) -> Documents]
    BY <1>1, <1>4, <2>1, <2>2
  <2>4. q \in Seq(Documents) /\ Len(q) = Len(queue)
    BY <2>1, <2>3, ArrayIsSeq
  <2>5. \A n \in 1..Len(q) : q[n] = LastOf(batch, queue[n].id) /\ q[n].id = queue[n].id
    BY <1>1, <1>4, <2>1, <2>2, <2>4
  <2>6. IdsOf(q) = IdsOf(queue)
    <3>1. DOMAIN q = DOMAIN queue
      BY <2>1, <2>4
    <3>2. QED
      BY <2>1, <2>4, <2>5, <3>1 DEF IdsOf
  <2>7. \A m, n \in 1..Len(q) : q[m].id = q[n].id => m = n
    BY <1>2, <2>4, <2>5
  <2>8. IdsOf(q) = IdsOf(batch)
    BY <1>2, <2>1, <2>6
  <2> HIDE DEF old
  <2>9. QED
    BY <1>4, <2>4, <2>5, <2>7, <2>8 DEF Queues, q
<1>5. QED
  BY <1>3, <1>4

\* What a write that is not rejected queues, in each store.
LEMMA ToWriteQueues ==
  ASSUME NEW batch \in Seq(Documents), NEW policy \in Policies, ~Rejects(batch, policy),
         kind \in {"langchain", "llama_index", "haystack"}
  PROVE  Queues(ToWrite(batch, policy), batch, policy, DOMAIN str_to_u64)
<1>1. CASE kind = "langchain"
  <2>1. policy = "overwrite" /\ ToWrite(batch, policy) = Deduplicated(batch)
    BY <1>1 DEF Policies, ToWrite
  <2>2. QED
    BY <2>1, DeduplicatedQueues
<1>2. CASE kind = "haystack"
  <2>1. policy \in {"fail", "skip", "overwrite"} /\ ToWrite(batch, policy) = Queued(batch, policy)
    BY <1>2 DEF Policies, ToWrite
  <2>2. QED
    BY <2>1, QueuedQueues
<1>3. CASE kind = "llama_index"
  <2>1. policy = "overwrite" /\ ToWrite(batch, policy) = batch
    BY <1>3 DEF Policies, ToWrite
  <2>2. \A n \in 1..Len(batch) : IsFirst(batch, n)
    BY <1>3 DEF Rejects
  <2>3. \A m, n \in 1..Len(batch) : batch[m].id = batch[n].id => m = n
    BY <2>2, FirstRow DEF IdsOf
  <2>4. \A n \in 1..Len(batch) : batch[n] = LastOf(batch, batch[n].id)
    BY <2>3, LastRow DEF IdsOf
  <2>5. QED
    BY <2>1, <2>3, <2>4 DEF Queues
<1>4. QED
  BY <1>1, <1>2, <1>3

-----------------------------------------------------------------------------
\* The inductive invariant.

Rows(batch) == 1..Len(batch)

\* What the thread that changes the store keeps about a write: what it queued
\* follows its policy, and its handles were never used.
WriteInv ==
  /\ DOMAIN call = {"op", "stage", "asked", "policy", "queue", "handles", "todo", "before"}
  /\ call.asked \in Seq(Documents)
  /\ Queues(call.queue, call.asked, call.policy, DOMAIN call.before)
  /\ call.handles \in Seq(Nat) /\ Len(call.handles) = Len(call.queue)
  /\ \A m, n \in Rows(call.handles) : call.handles[m] = call.handles[n] => m = n
  /\ \A n \in Rows(call.handles) : /\ call.handles[n] \notin DOMAIN u64_to_str
                                    /\ call.handles[n] <= next_u64

\* A call is between its start and its end, and an add holds the index.
CallInv ==
  /\ call.stage \in {"free", "add", "remove"}
  /\ call.stage = "free" => call = Free
  /\ Exclusive <=> call.stage = "add"
  /\ call.stage # "free" => call.op \in {"write", "delete"}
  /\ call.stage = "add" =>
       /\ call.op = "write" /\ docs = call.before
       /\ adding = [n \in Rows(call.queue) |-> <<call.handles[n], call.queue[n].vector>>]
  /\ call.stage # "free" /\ call.op = "write" => WriteInv
  /\ call.stage # "free" /\ call.op = "delete" =>
       DOMAIN call = {"op", "stage", "todo", "before", "asked"}

\* The documents a call takes out.
Leaving == IF call.op = "write" THEN IdsOf(call.queue) ELSE call.asked

\* A call that removes has taken out those it no longer has to, and no others.
RemovalInv ==
  call.stage = "remove" =>
    /\ \A i : i \in DOMAIN docs <=> i \in DOMAIN call.before /\ (i \notin Leaving \/ i \in call.todo)
    /\ \A i \in DOMAIN docs : docs[i] = call.before[i]
    /\ call.todo \subseteq Leaving /\ call.todo \subseteq DOMAIN docs

\* Handles whose vectors are in the index before the tables know them.
Written == IF call.stage = "remove" /\ call.op = "write" THEN Elements(call.handles) ELSE {}

\* The tables among themselves.
TableInv ==
  /\ docs = [i \in DOMAIN docs |-> docs[i]]
  /\ DOMAIN docs = DOMAIN str_to_u64
  /\ next_u64 \in Nat
  /\ DOMAIN u64_to_str = {str_to_u64[i] : i \in DOMAIN str_to_u64}
  /\ \A i \in DOMAIN str_to_u64 : u64_to_str[str_to_u64[i]] = i
  /\ \A h \in DOMAIN u64_to_str : h \in Nat /\ h <= next_u64

\* The tables and the index.
IndexInv ==
  pairing = "same" =>
    /\ DOMAIN u64_to_str \cup Written \subseteq DOMAIN index
    /\ \A h \in DOMAIN index : h \in Nat /\ h <= next_u64
    /\ ~interrupted => DOMAIN index = DOMAIN u64_to_str \cup Written

\* The side-car on disk is that of a store like this one, between calls.
ImageInv(s) ==
  LET handles == {s.str_to_u64[i] : i \in DOMAIN s.str_to_u64}
  IN  /\ s.docs = [i \in DOMAIN s.docs |-> s.docs[i]]
      /\ DOMAIN s.docs = DOMAIN s.str_to_u64
      /\ \A i, j \in DOMAIN s.str_to_u64 : s.str_to_u64[i] = s.str_to_u64[j] => i = j
      /\ s.next_u64 \in Nat /\ \A h \in handles : h \in Nat /\ h <= s.next_u64
      /\ s.pairing = "same" =>
           /\ handles \subseteq DOMAIN s.index
           /\ \A h \in DOMAIN s.index : h \in Nat /\ h <= s.next_u64
           /\ ~s.interrupted => DOMAIN s.index = handles

StoresInv ==
  /\ kind \in Kinds /\ use \in DOMAIN Uses
  /\ TableInv /\ CallInv /\ RemovalInv /\ IndexInv
  /\ store_file \notin {NoFile, Torn} => ImageInv(store_file)

\* A search that is under way borrows an object that exists, and nobody adds to it.
BorrowInv ==
  /\ reading = [r \in Readers |-> reading[r]]
  /\ object \in Nat
  /\ \A r \in Readers : reading[r].stage = "scoring" =>
       reading[r].object \in Nat /\ reading[r].object <= object
  /\ \A r \in Readers : SharedBy(r) => ~Exclusive /\ reading[r].over = index

-----------------------------------------------------------------------------
\* Searches keep what they borrowed.

\* A new index object is borrowed by no search.
LEMMA ReplaceBorrows ==
  ASSUME BorrowInv, NEW contents, Replace(contents), reading' = reading
  PROVE  BorrowInv'
<1>1. object' = object + 1 /\ object \in Nat /\ reading' = reading
  BY DEF BorrowInv, Replace
<1>2. \A r \in Readers : ~SharedBy(r)'
  BY <1>1 DEF BorrowInv, SharedBy
<1>3. QED
  BY <1>1, <1>2 DEF BorrowInv

\* Every step of the binding leaves a search what it borrowed.
LEMMA SearchBorrows ==
  ASSUME BorrowInv, NEW r \in Readers, EnterSearch(r) \/ SearchReturns(r)
  PROVE  BorrowInv'
<1>1. /\ object' = object /\ index' = index /\ adding' = adding
      /\ \E a : reading' = [reading EXCEPT ![r] = a]
      /\ reading = [q \in Readers |-> reading[q]]
  BY DEF EnterSearch, SearchReturns, BorrowInv
<1>2. /\ reading' = [q \in Readers |-> reading'[q]]
      /\ \A q \in Readers \ {r} : reading'[q] = reading[q]
  BY <1>1
<1>3. reading'[r].stage = "scoring" =>
        reading'[r].object = object /\ reading'[r].over = index /\ ~Exclusive
  <2>1. CASE EnterSearch(r)
    BY <1>1, <2>1 DEF EnterSearch, Resting
  <2>2. CASE SearchReturns(r)
    <3>1. PICK a \in IF Found(reading[r]) = {} THEN {Resting} ELSE Found(reading[r]) :
            reading' = [reading EXCEPT ![r] = a]
      BY <2>2 DEF SearchReturns
    <3>2. a.stage # "scoring"
      BY <3>1 DEF Found, Resting
    <3>3. QED
      BY <1>1, <3>1, <3>2
  <2>3. QED
    BY <2>1, <2>2
<1>4. Exclusive' = Exclusive
  BY <1>1 DEF Exclusive
<1>5. ASSUME NEW q \in Readers, reading'[q].stage = "scoring"
      PROVE  /\ reading'[q].object \in Nat /\ reading'[q].object <= object
             /\ SharedBy(q)' => ~Exclusive /\ reading'[q].over = index
  <2>1. CASE q = r
    BY <1>3, <1>5, <2>1 DEF BorrowInv
  <2>2. CASE q # r
    BY <1>1, <1>2, <1>5, <2>2 DEF BorrowInv, SharedBy
  <2>3. QED
    BY <2>1, <2>2
<1>6. QED
  BY <1>1, <1>2, <1>4, <1>5 DEF BorrowInv, SharedBy

LEMMA BorrowStep ==
  ASSUME BorrowInv, [Next]_vars
  PROVE  BorrowInv'
<1> USE StoreConstantsOK
<1>1. ASSUME UNCHANGED bindingVars
      PROVE  BorrowInv'
  BY <1>1 DEF BorrowInv, bindingVars, SharedBy, Exclusive
<1>2. ASSUME NEW batch, NEW policy, Write(batch, policy)
      PROVE  BorrowInv'
  <2>1. CASE UNCHANGED bindingVars
    BY <1>1, <2>1
  <2>2. CASE ~Borrowed /\ UNCHANGED <<object, index, reading>>
    BY <2>2 DEF BorrowInv, Borrowed, SharedBy
  <2>3. QED
    BY <1>2, <2>1, <2>2 DEF Write, EnterAdd
<1>3. CASE Added
  BY <1>3 DEF BorrowInv, Added, AddReturns, SharedBy
<1>4. ASSUME NEW i, RemoveOne(i)
      PROVE  BorrowInv'
  <2>1. CASE UNCHANGED bindingVars
    BY <1>1, <2>1
  <2>2. CASE ~Borrowed /\ UNCHANGED <<object, adding, reading>>
    BY <2>2 DEF BorrowInv, Borrowed, SharedBy
  <2>3. QED
    BY <1>4, <2>1, <2>2 DEF RemoveOne, Remove
<1>5. CASE Fill \/ Deleted \/ Save \/ SaveStops
  BY <1>1, <1>5 DEF Fill, Deleted, Save, SaveStops
<1>6. ASSUME NEW ids, Delete(ids) \/ \E m : Update(ids, m)
      PROVE  BorrowInv'
  BY <1>1, <1>6 DEF Delete, Update
<1>7. CASE Clear \/ Load
  BY <1>7, ReplaceBorrows DEF Clear, Load, Empty
<1>8. CASE Restart
  <2>1. \A r \in Readers : reading'[r].stage # "scoring"
    BY <1>8 DEF Restart, Resting
  <2>2. object' \in Nat /\ reading' = [r \in Readers |-> reading'[r]]
    BY <1>8 DEF Restart, Empty, Replace, BorrowInv
  <2>3. QED
    BY <2>1, <2>2 DEF BorrowInv, SharedBy
<1>9. ASSUME NEW r \in Readers, Searching(r)
      PROVE  BorrowInv'
  <2>1. CASE EnterSearch(r) \/ SearchReturns(r)
    BY <2>1, SearchBorrows
  <2>2. CASE Answer(r) \/ \E allow : Ask(r, allow)
    <3>1. /\ UNCHANGED <<object, index, adding>>
          /\ \E a : reading' = [reading EXCEPT ![r] = a] /\ a.stage # "scoring"
      BY <2>2 DEF Answer, Ask, Resting
    <3>2. QED
      BY <3>1 DEF BorrowInv, SharedBy, Exclusive
  <2>3. QED
    BY <1>9, <2>1, <2>2 DEF Searching
<1>10. QED
  BY <1>1, <1>2, <1>3, <1>4, <1>5, <1>6, <1>7, <1>8, <1>9 DEF Next, Changing, vars

\* While a search scores without the interpreter's lock, no other thread changes
\* the vectors it was checked against: the borrow keeps them (the readers'
\* search and add_with_ids of turbo-graph-python/src/lib.rs).
THEOREM SearchStaysUndisturbed == Spec => []SearchUndisturbed
<1>1. Init => BorrowInv
  BY DEF Init, BindingsInit, BorrowInv, SharedBy, Resting
<1>2. BorrowInv /\ [Next]_vars => BorrowInv'
  BY BorrowStep
<1>3. BorrowInv => SearchUndisturbed
  BY DEF BorrowInv, SearchUndisturbed
<1>4. QED
  BY <1>1, <1>2, <1>3, PTL DEF Spec

-----------------------------------------------------------------------------
\* Every operation keeps the tables in step with the index.

\* Steps that touch neither the tables nor the index nor the call.
LEMMA NothingMoves ==
  ASSUME StoresInv,
         UNCHANGED <<tables, next_u64, call, index, adding, store_file, pairing, interrupted, kind, use>>
  PROVE  StoresInv'
<1>1. /\ UNCHANGED <<str_to_u64, u64_to_str, docs>>
      /\ TableInv' = TableInv /\ CallInv' = CallInv /\ RemovalInv' = RemovalInv
      /\ IndexInv' = IndexInv
  BY DEF tables, TableInv, CallInv, WriteInv, RemovalInv, Leaving, IndexInv, Written, Exclusive
<1>2. QED
  BY <1>1 DEF StoresInv, ImageInv

\* What add_texts, add or write_documents queues, with the handles it issues.
LEMMA WriteQueues ==
  ASSUME StoresInv, NEW batch \in Batches, NEW policy \in Policies, Write(batch, policy)
  PROVE  LET q == ToWrite(batch, policy)
         IN  /\ batch \in Seq(Documents) /\ q \in Seq(Documents) /\ q # << >>
             /\ Queues(q, batch, policy, DOMAIN docs)
             /\ next_u64' = next_u64 + Len(q)
<1>1. batch \in Seq(Documents)
  <2>1. PICK n \in 1..Uses[use].batch : batch \in [1..n -> Uses[use].documents]
    BY DEF Batches
  <2>2. Uses[use].batch \in Nat /\ Uses[use].documents \subseteq Documents
    BY StoreConstantsOK DEF StoresInv
  <2>3. n \in Nat /\ batch \in [1..n -> Documents]
    BY <2>1, <2>2
  <2>4. QED
    BY <2>3, ArrayIsSeq
<1>2. Queues(ToWrite(batch, policy), batch, policy, DOMAIN str_to_u64)
  <2>1. kind \in {"langchain", "llama_index", "haystack"} /\ ~Rejects(batch, policy)
    BY StoreConstantsOK DEF StoresInv, Write
  <2>2. QED
    BY <1>1, <2>1, ToWriteQueues
<1>3. QED
  BY <1>1, <1>2 DEF Write, StoresInv, TableInv, Queues

LEMMA WriteKeeps ==
  ASSUME StoresInv, NEW batch \in Batches, NEW policy \in Policies, Write(batch, policy),
         UNCHANGED <<kind, use>>
  PROVE  StoresInv'
<1> DEFINE q == ToWrite(batch, policy)
           hs == [n \in DOMAIN q |-> IssuedHandle(n)]
<1>1. /\ batch \in Seq(Documents) /\ q \in Seq(Documents) /\ q # << >>
      /\ Queues(q, batch, policy, DOMAIN docs)
      /\ next_u64' = next_u64 + Len(q)
  BY WriteQueues
<1> HIDE DEF q
<1>2. /\ Len(q) \in Nat \ {0} /\ DOMAIN q = 1..Len(q)
      /\ hs = [n \in 1..Len(q) |-> next_u64 + n] /\ next_u64 \in Nat
  BY <1>1 DEF StoresInv, TableInv, IssuedHandle
<1>3. hs \in Seq(Nat) /\ Len(hs) = Len(q)
  <2>1. hs \in [1..Len(q) -> Nat]
    BY <1>2
  <2> HIDE DEF hs
  <2>2. QED
    BY <1>2, <2>1, ArrayIsSeq
<1>4. /\ call = Free /\ UNCHANGED <<str_to_u64, u64_to_str, docs>>
      /\ UNCHANGED <<index, store_file, pairing, interrupted>>
      /\ next_u64' \in Nat /\ next_u64 <= next_u64'
  BY <1>1, <1>2 DEF Write, tables, files, history, EnterAdd, bindingVars
<1>5. TableInv'
  BY <1>2, <1>4 DEF StoresInv, TableInv
<1>6. Written = {}
  BY <1>4 DEF Written, Free
<1>7. CASE UNCHANGED <<bindingVars, call>>
  <2>1. CallInv' /\ RemovalInv' /\ Written' = {}
    BY <1>4, <1>7 DEF StoresInv, CallInv, RemovalInv, Written, Free, bindingVars, Exclusive
  <2>2. IndexInv'
    BY <1>2, <1>4, <1>6, <2>1 DEF StoresInv, IndexInv
  <2>3. QED
    BY <1>4, <1>5, <2>1, <2>2 DEF StoresInv, ImageInv
<1>8. CASE /\ EnterAdd([n \in DOMAIN q |-> <<IssuedHandle(n), q[n].vector>>])
           /\ call' = [op |-> "write", stage |-> "add", asked |-> batch, policy |-> policy,
                       queue |-> q, handles |-> hs, todo |-> {}, before |-> docs]
  <2>1. /\ call'.op = "write" /\ call'.stage = "add" /\ call'.asked = batch
        /\ call'.policy = policy /\ call'.queue = q /\ call'.handles = hs /\ call'.before = docs
        /\ DOMAIN call' = {"op", "stage", "asked", "policy", "queue", "handles", "todo", "before"}
    BY <1>8
  <2>2. adding' = [n \in 1..Len(q) |-> <<hs[n], q[n].vector>>]
    BY <1>2, <1>8 DEF EnterAdd
  <2>3. \A n \in 1..Len(hs) : hs[n] = next_u64 + n
    BY <1>2, <1>3
  <2> HIDE DEF hs
  <2>4. WriteInv'
    <3>1. /\ \A m, n \in 1..Len(hs) : hs[m] = hs[n] => m = n
          /\ \A n \in 1..Len(hs) : hs[n] \notin DOMAIN u64_to_str /\ hs[n] <= next_u64'
      <4>1. \A h \in DOMAIN u64_to_str : h \in Nat /\ h <= next_u64
        BY DEF StoresInv, TableInv
      <4>2. \A n \in 1..Len(hs) : n \in Int /\ 0 < n /\ n <= Len(q)
        BY <1>2, <1>3
      <4> HIDE DEF Queues
      <4>3. next_u64 \in Nat /\ Len(q) \in Nat /\ next_u64' = next_u64 + Len(q)
        BY <1>1, <1>2
      <4>4. QED
        BY <2>3, <4>1, <4>2, <4>3
    <3>2. QED
      BY <1>1, <1>3, <1>4, <2>1, <3>1 DEF WriteInv, Rows
  <2>5. CallInv'
    <3>1. adding' # << >>
      BY <1>2, <2>2
    <3>2. QED
      BY <1>4, <2>1, <2>2, <2>4, <3>1 DEF CallInv, Exclusive, Rows
  <2>6. RemovalInv' /\ Written' = {}
    BY <2>1 DEF RemovalInv, Written
  <2>7. IndexInv'
    BY <1>2, <1>4, <1>6, <2>6 DEF StoresInv, IndexInv
  <2>8. QED
    BY <1>4, <1>5, <2>5, <2>6, <2>7 DEF StoresInv, ImageInv
<1>9. QED
  <2>1. LET pairs == [n \in DOMAIN q |-> <<IssuedHandle(n), q[n].vector>>]
        IN  [n \in DOMAIN pairs |-> pairs[n][1]] = hs
    OBVIOUS
  <2>2. QED
    BY <1>7, <1>8, <2>1 DEF Write, q

\* add_with_ids returns.
LEMMA AddedKeeps ==
  ASSUME StoresInv, Added, UNCHANGED <<kind, use>>
  PROVE  StoresInv'
<1>1. /\ call.stage = "add" /\ call.op = "write" /\ docs = call.before /\ WriteInv
      /\ adding = [n \in Rows(call.queue) |-> <<call.handles[n], call.queue[n].vector>>]
      /\ UNCHANGED <<str_to_u64, u64_to_str, docs, next_u64, store_file, pairing, interrupted>>
      /\ ~Exclusive'
  BY DEF Added, StoresInv, CallInv, tables, files, history, AddReturns, Exclusive
<1>2. TableInv' /\ Written = {}
  BY <1>1 DEF StoresInv, TableInv, Written
<1>3. CASE ~Acceptable(adding)
  <2>1. call' = Free /\ index' = index
    BY <1>3 DEF Added, AddReturns
  <2>2. CallInv' /\ RemovalInv' /\ Written' = {}
    BY <1>1, <2>1 DEF CallInv, RemovalInv, Written, Free
  <2>3. IndexInv'
    BY <1>1, <1>2, <2>1, <2>2 DEF StoresInv, IndexInv
  <2>4. QED
    BY <1>1, <1>2, <2>2, <2>3 DEF StoresInv, ImageInv
<1>4. CASE Acceptable(adding)
  <2>1. call' = [call EXCEPT !.stage = "remove", !.todo = IdsOf(call.queue) \cap DOMAIN str_to_u64]
    BY <1>4 DEF Added
  <2>2. /\ call'.stage = "remove" /\ call'.todo = IdsOf(call.queue) \cap DOMAIN docs
        /\ call'.op = "write" /\ call'.asked = call.asked /\ call'.policy = call.policy
        /\ call'.queue = call.queue /\ call'.handles = call.handles /\ call'.before = call.before
        /\ DOMAIN call' = DOMAIN call
    BY <1>1, <2>1 DEF WriteInv, StoresInv, TableInv
  <2>3. WriteInv'
    BY <1>1, <2>2 DEF WriteInv
  <2>4. CallInv'
    BY <1>1, <2>2, <2>3 DEF CallInv
  <2>5. RemovalInv'
    BY <1>1, <2>2 DEF RemovalInv, Leaving
  <2>6. Written' = Elements(call.handles)
    BY <2>2 DEF Written
  <2>7. DOMAIN index' = DOMAIN index \cup Elements(call.handles)
    <3>1. DOMAIN index' = DOMAIN index \cup {adding[n][1] : n \in DOMAIN adding}
      BY <1>4 DEF Added, AddReturns
    <3>2. {adding[n][1] : n \in DOMAIN adding} = {call.handles[n] : n \in 1..Len(call.queue)}
      BY <1>1 DEF Rows
    <3>3. QED
      BY <1>1, <3>1, <3>2 DEF Elements, WriteInv
  <2>8. \A h \in Elements(call.handles) : h \in Nat /\ h <= next_u64
    BY <1>1 DEF Elements, WriteInv, Rows
  <2>9. IndexInv'
    BY <1>1, <1>2, <2>6, <2>7, <2>8 DEF StoresInv, IndexInv
  <2>10. QED
    BY <1>1, <1>2, <2>4, <2>5, <2>9 DEF StoresInv, ImageInv
<1>5. QED
  BY <1>3, <1>4

\* A document leaves the tables and its vector the index.
LEMMA RemoveOneKeeps ==
  ASSUME StoresInv, NEW i, RemoveOne(i), UNCHANGED <<kind, use>>
  PROVE  StoresInv'
<1> DEFINE h == str_to_u64[i]
<1>1. /\ call.stage = "remove" /\ i \in call.todo /\ i \in DOMAIN str_to_u64 /\ i \in DOMAIN docs
      /\ UNCHANGED <<next_u64, store_file, pairing>> /\ ~Exclusive
      /\ adding' = adding
  BY DEF RemoveOne, StoresInv, CallInv, RemovalInv, TableInv, files, Remove, bindingVars
<1>2. /\ DOMAIN str_to_u64' = DOMAIN str_to_u64 \ {i} /\ DOMAIN docs' = DOMAIN docs \ {i}
      /\ DOMAIN u64_to_str' = DOMAIN u64_to_str \ {h}
      /\ docs' = [j \in DOMAIN docs' |-> docs'[j]]
      /\ \A j \in DOMAIN str_to_u64' : str_to_u64'[j] = str_to_u64[j]
      /\ \A j \in DOMAIN docs' : docs'[j] = docs[j]
      /\ \A g \in DOMAIN u64_to_str' : u64_to_str'[g] = u64_to_str[g]
  BY DEF RemoveOne
<1>3. /\ \A j \in DOMAIN str_to_u64 : u64_to_str[str_to_u64[j]] = j
      /\ DOMAIN u64_to_str = {str_to_u64[j] : j \in DOMAIN str_to_u64}
      /\ h \in DOMAIN u64_to_str
  BY <1>1 DEF StoresInv, TableInv
<1>4. \A j \in DOMAIN str_to_u64 : j # i => str_to_u64[j] # h
  BY <1>1, <1>3
<1>5. TableInv'
  <2>1. DOMAIN u64_to_str' = {str_to_u64'[j] : j \in DOMAIN str_to_u64'}
    BY <1>2, <1>3, <1>4
  <2>2. \A j \in DOMAIN str_to_u64' : u64_to_str'[str_to_u64'[j]] = j
    BY <1>2, <1>3, <1>4
  <2>3. QED
    BY <1>1, <1>2, <2>1, <2>2 DEF StoresInv, TableInv
<1>6. h \notin Written
  <2>1. CASE call.op = "write"
    <3>1. \A n \in 1..Len(call.handles) : call.handles[n] \notin DOMAIN u64_to_str
      BY <1>1, <2>1 DEF StoresInv, CallInv, WriteInv, Rows
    <3>2. QED
      BY <1>1, <1>3, <2>1, <3>1 DEF Written, Elements
  <2>2. CASE call.op # "write"
    BY <2>2 DEF Written
  <2>3. QED
    BY <2>1, <2>2
<1>7. CASE Remove(h) /\ call' = [call EXCEPT !.todo = @ \ {i}] /\ UNCHANGED interrupted
  <2>1. DOMAIN index' = DOMAIN index \ {h}
    BY <1>7 DEF Remove
  <2>2. /\ DOMAIN call' = DOMAIN call /\ call'.stage = "remove" /\ call'.op = call.op
        /\ call'.todo = call.todo \ {i} /\ call'.asked = call.asked /\ call'.before = call.before
    BY <1>1, <1>7 DEF StoresInv, CallInv, WriteInv
  <2>3. call.op = "write" => /\ call'.policy = call.policy /\ call'.queue = call.queue
                             /\ call'.handles = call.handles
    BY <1>1, <1>7 DEF StoresInv, CallInv, WriteInv
  <2>4. call.op = "write" => WriteInv'
    BY <1>1, <1>2, <2>2, <2>3 DEF StoresInv, CallInv, WriteInv
  <2>5. CallInv'
    BY <1>1, <2>2, <2>3, <2>4 DEF StoresInv, CallInv, Exclusive
  <2>6. RemovalInv'
    <3>1. Leaving' = Leaving
      BY <2>2, <2>3 DEF Leaving
    <3>2. QED
      BY <1>1, <1>2, <2>2, <3>1 DEF StoresInv, RemovalInv
  <2>7. Written' = Written
    BY <1>1, <2>2, <2>3 DEF Written
  <2>8. IndexInv'
    BY <1>1, <1>2, <1>6, <1>7, <2>1, <2>7 DEF StoresInv, IndexInv
  <2>9. QED
    BY <1>1, <1>5, <2>5, <2>6, <2>8 DEF StoresInv, ImageInv
<1>8. CASE call' = Free /\ interrupted' = TRUE /\ UNCHANGED bindingVars
  <2>1. CallInv' /\ RemovalInv' /\ Written' = {}
    BY <1>1, <1>8 DEF CallInv, RemovalInv, Written, Free, Exclusive
  <2>2. IndexInv'
    BY <1>1, <1>2, <1>8, <2>1 DEF StoresInv, IndexInv, bindingVars
  <2>3. QED
    BY <1>1, <1>5, <2>1, <2>2 DEF StoresInv, ImageInv
<1>9. QED
  BY <1>7, <1>8 DEF RemoveOne

\* A write that has removed what it replaces queues documents the tables do not
\* have, each with a handle of its own.
LEMMA FillTables ==
  ASSUME StoresInv, Fill
  PROVE  LET q == call.queue
             hs == call.handles
         IN  /\ WriteInv /\ Len(q) \in Nat
             /\ DOMAIN q = 1..Len(q) /\ DOMAIN hs = 1..Len(q)
             /\ IdsOf(q) \cap DOMAIN docs = {}
             /\ DOMAIN docs' = DOMAIN docs \cup IdsOf(q)
             /\ \A i \in DOMAIN docs : docs'[i] = docs[i] /\ str_to_u64'[i] = str_to_u64[i]
             /\ \A n \in 1..Len(q) : /\ docs'[q[n].id] = q[n]
                                     /\ str_to_u64'[q[n].id] = hs[n]
                                     /\ u64_to_str'[hs[n]] = q[n].id
             /\ DOMAIN str_to_u64' = DOMAIN str_to_u64 \cup IdsOf(q)
             /\ DOMAIN u64_to_str' = DOMAIN u64_to_str \cup Elements(hs)
             /\ \A h \in DOMAIN u64_to_str : u64_to_str'[h] = u64_to_str[h]
             /\ docs' = [i \in DOMAIN docs' |-> docs'[i]]
<1> DEFINE q == call.queue
           hs == call.handles
           row(i) == CHOOSE n \in DOMAIN q : q[n].id = i /\ IsLast(q, n)
<1>1. /\ call.stage = "remove" /\ call.todo = {} /\ call.op = "write" /\ WriteInv
      /\ DOMAIN docs = DOMAIN str_to_u64
  BY DEF Fill, Removed, StoresInv, CallInv, TableInv
<1>2. /\ q \in Seq(Documents) /\ hs \in Seq(Nat) /\ Len(hs) = Len(q) /\ Len(q) \in Nat
      /\ DOMAIN q = 1..Len(q) /\ DOMAIN hs = 1..Len(q)
      /\ \A m, n \in 1..Len(q) : q[m].id = q[n].id => m = n
      /\ \A m, n \in 1..Len(q) : hs[m] = hs[n] => m = n
      /\ \A n \in 1..Len(q) : hs[n] \notin DOMAIN u64_to_str
  <2>1. /\ q \in Seq(Documents) /\ hs \in Seq(Nat) /\ Len(hs) = Len(q)
        /\ \A m, n \in 1..Len(q) : q[m].id = q[n].id => m = n
    BY <1>1 DEF WriteInv, Queues
  <2>2. /\ \A m, n \in 1..Len(hs) : hs[m] = hs[n] => m = n
        /\ \A n \in 1..Len(hs) : hs[n] \notin DOMAIN u64_to_str
    BY <1>1 DEF WriteInv, Rows
  <2> HIDE DEF q, hs
  <2>3. Len(q) \in Nat /\ DOMAIN q = 1..Len(q) /\ DOMAIN hs = 1..Len(hs)
    BY <2>1
  <2>4. QED
    BY <2>1, <2>2, <2>3
<1>3. IdsOf(q) \cap DOMAIN docs = {}
  BY <1>1 DEF StoresInv, RemovalInv, Leaving
<1>4. ASSUME NEW n \in 1..Len(q)
      PROVE  /\ q[n].id \in IdsOf(q) /\ row(q[n].id) = n /\ LastOf(q, q[n].id) = q[n]
             /\ hs[n] \in Elements(hs) /\ PositionIn(hs, hs[n]) = n
  <2>1. q[n].id \in IdsOf(q) /\ hs[n] \in Elements(hs)
    BY <1>2 DEF IdsOf, Elements
  <2>2. IsLast(q, n)
    BY <1>2 DEF IsLast
  <2>3. row(q[n].id) = n
    BY <1>2, <2>2
  <2>4. LastOf(q, q[n].id) = q[n]
    BY <2>3 DEF LastOf
  <2>5. PositionIn(hs, hs[n]) = n
    BY <1>2 DEF PositionIn
  <2>6. QED
    BY <2>1, <2>3, <2>4, <2>5
<1> HIDE DEF q, hs, row
<1>5. /\ str_to_u64' = [i \in DOMAIN str_to_u64 \cup IdsOf(q) |->
                          IF i \in IdsOf(q) THEN hs[row(i)] ELSE str_to_u64[i]]
      /\ u64_to_str' = [h \in DOMAIN u64_to_str \cup Elements(hs) |->
                          IF h \in Elements(hs) THEN q[PositionIn(hs, h)].id ELSE u64_to_str[h]]
      /\ docs' = [i \in DOMAIN docs \cup IdsOf(q) |->
                    IF i \in IdsOf(q) THEN LastOf(q, i) ELSE docs[i]]
  <2> DEFINE handle == [i \in IdsOf(q) |-> hs[row(i)]]
  <2>1. DOMAIN handle = IdsOf(q) /\ \A i \in IdsOf(q) : handle[i] = hs[row(i)]
    OBVIOUS
  <2>2. /\ str_to_u64' = [i \in DOMAIN str_to_u64 \cup DOMAIN handle |->
                            IF i \in DOMAIN handle THEN handle[i] ELSE str_to_u64[i]]
        /\ u64_to_str' = [h \in DOMAIN u64_to_str \cup Elements(hs) |->
                            IF h \in Elements(hs) THEN q[PositionIn(hs, h)].id ELSE u64_to_str[h]]
        /\ docs' = [i \in DOMAIN docs \cup DOMAIN handle |->
                      IF i \in DOMAIN handle THEN LastOf(q, i) ELSE docs[i]]
    BY DEF Fill, q, hs, row
  <2> HIDE DEF handle
  <2>3. QED
    BY <2>1, <2>2
<1>6. \A h \in Elements(hs) : h \notin DOMAIN u64_to_str
  BY <1>2 DEF Elements
<1>7. QED
  <2>1. WriteInv
    BY <1>1
  <2>2. \A n \in 1..Len(q) : /\ docs'[q[n].id] = q[n] /\ str_to_u64'[q[n].id] = hs[n]
                              /\ u64_to_str'[hs[n]] = q[n].id
    BY <1>4, <1>5
  <2>3. \A i \in DOMAIN docs : docs'[i] = docs[i] /\ str_to_u64'[i] = str_to_u64[i]
    BY <1>1, <1>3, <1>5
  <2>4. \A h \in DOMAIN u64_to_str : u64_to_str'[h] = u64_to_str[h]
    BY <1>5, <1>6
  <2>5. /\ DOMAIN docs' = DOMAIN docs \cup IdsOf(q)
        /\ DOMAIN str_to_u64' = DOMAIN str_to_u64 \cup IdsOf(q)
        /\ DOMAIN u64_to_str' = DOMAIN u64_to_str \cup Elements(hs)
    BY <1>5
  <2>6. docs' = [i \in DOMAIN docs' |-> docs'[i]]
    BY <1>5
  <2>7. QED
    BY <1>2, <1>3, <2>1, <2>2, <2>3, <2>4, <2>5, <2>6 DEF q, hs

LEMMA FillKeeps ==
  ASSUME StoresInv, Fill, UNCHANGED <<kind, use>>
  PROVE  StoresInv'
<1> DEFINE q == call.queue
           hs == call.handles
<1>1. /\ WriteInv /\ Len(q) \in Nat
      /\ DOMAIN q = 1..Len(q) /\ DOMAIN hs = 1..Len(q)
      /\ IdsOf(q) \cap DOMAIN docs = {}
      /\ DOMAIN docs' = DOMAIN docs \cup IdsOf(q)
      /\ \A i \in DOMAIN docs : docs'[i] = docs[i] /\ str_to_u64'[i] = str_to_u64[i]
      /\ \A n \in 1..Len(q) : /\ docs'[q[n].id] = q[n]
                              /\ str_to_u64'[q[n].id] = hs[n]
                              /\ u64_to_str'[hs[n]] = q[n].id
      /\ DOMAIN str_to_u64' = DOMAIN str_to_u64 \cup IdsOf(q)
      /\ DOMAIN u64_to_str' = DOMAIN u64_to_str \cup Elements(hs)
      /\ \A h \in DOMAIN u64_to_str : u64_to_str'[h] = u64_to_str[h]
      /\ docs' = [i \in DOMAIN docs' |-> docs'[i]]
  BY FillTables
<1>2. /\ Elements(hs) = {hs[n] : n \in 1..Len(q)} /\ IdsOf(q) = {q[n].id : n \in 1..Len(q)}
      /\ \A n \in 1..Len(q) : hs[n] \in Nat /\ hs[n] <= next_u64
  <2>1. \A n \in 1..Len(hs) : hs[n] \in Nat /\ hs[n] <= next_u64
    BY <1>1 DEF WriteInv, Rows
  <2>2. Len(hs) = Len(q)
    BY <1>1 DEF WriteInv
  <2> HIDE DEF q, hs
  <2>3. QED
    BY <1>1, <2>1, <2>2 DEF Elements, IdsOf
<1>3. /\ call.stage = "remove" /\ call.op = "write" /\ call' = Free
      /\ UNCHANGED <<next_u64, index, adding, store_file, pairing, interrupted>>
  BY DEF Fill, Removed, bindingVars, files, history
<1> HIDE DEF q, hs
<1>4. TableInv'
  <2>1. /\ DOMAIN docs = DOMAIN str_to_u64 /\ next_u64 \in Nat
        /\ DOMAIN u64_to_str = {str_to_u64[i] : i \in DOMAIN str_to_u64}
        /\ \A i \in DOMAIN str_to_u64 : u64_to_str[str_to_u64[i]] = i
        /\ \A h \in DOMAIN u64_to_str : h \in Nat /\ h <= next_u64
    BY DEF StoresInv, TableInv
  <2>2. ASSUME NEW i \in DOMAIN str_to_u64'
        PROVE  str_to_u64'[i] \in DOMAIN u64_to_str' /\ u64_to_str'[str_to_u64'[i]] = i
    <3>1. CASE i \in DOMAIN str_to_u64
      BY <1>1, <2>1, <3>1
    <3>2. CASE i \in IdsOf(q)
      <4>1. PICK n \in 1..Len(q) : i = q[n].id
        BY <1>2, <3>2
      <4>2. QED
        BY <1>1, <1>2, <4>1
    <3>3. QED
      BY <1>1, <2>2, <3>1, <3>2
  <2>3. ASSUME NEW h \in DOMAIN u64_to_str'
        PROVE  h \in Nat /\ h <= next_u64 /\ \E i \in DOMAIN str_to_u64' : str_to_u64'[i] = h
    <3>1. CASE h \in DOMAIN u64_to_str
      BY <1>1, <2>1, <3>1
    <3>2. CASE h \in Elements(hs)
      <4>1. PICK n \in 1..Len(q) : h = hs[n]
        BY <1>2, <3>2
      <4>2. QED
        BY <1>1, <1>2, <4>1
    <3>3. QED
      BY <1>1, <2>3, <3>1, <3>2
  <2>4. DOMAIN u64_to_str' = {str_to_u64'[i] : i \in DOMAIN str_to_u64'}
    BY <2>2, <2>3
  <2>5. DOMAIN docs' = DOMAIN str_to_u64' /\ docs' = [i \in DOMAIN docs' |-> docs'[i]]
    BY <1>1, <2>1
  <2>6. QED
    BY <1>3, <2>1, <2>2, <2>3, <2>4, <2>5 DEF TableInv
<1>5. CallInv' /\ RemovalInv' /\ Written' = {}
  BY <1>3 DEF StoresInv, CallInv, RemovalInv, Written, Free, Exclusive
<1>6. IndexInv'
  <2>1. Written = Elements(hs)
    BY <1>3 DEF Written, hs
  <2>2. QED
    BY <1>1, <1>3, <1>5, <2>1 DEF StoresInv, IndexInv
<1>7. QED
  BY <1>3, <1>4, <1>5, <1>6 DEF StoresInv, ImageInv

\* The start and the end of a delete, and update_by_filter.
LEMMA DeleteKeeps ==
  ASSUME StoresInv, NEW ids \in SUBSET DOMAIN docs, Delete(ids), UNCHANGED <<kind, use>>
  PROVE  StoresInv'
<1>1. /\ call = Free /\ UNCHANGED <<index, adding, next_u64, store_file, pairing, interrupted>>
      /\ UNCHANGED <<str_to_u64, u64_to_str, docs>>
      /\ call' = [op |-> "delete", stage |-> "remove", todo |-> ids, before |-> docs, asked |-> ids]
  BY DEF Delete, bindingVars, tables, files, history
<1>2. TableInv' /\ Written = {} /\ Written' = {}
  BY <1>1 DEF StoresInv, TableInv, Written, Free
<1>3. CallInv'
  BY <1>1 DEF StoresInv, CallInv, Exclusive, Free
<1>4. RemovalInv'
  BY <1>1 DEF RemovalInv, Leaving
<1>5. IndexInv'
  BY <1>1, <1>2 DEF StoresInv, IndexInv
<1>6. QED
  BY <1>1, <1>2, <1>3, <1>4, <1>5 DEF StoresInv, ImageInv

LEMMA DeletedKeeps ==
  ASSUME StoresInv, Deleted, UNCHANGED <<kind, use>>
  PROVE  StoresInv'
<1>1. /\ call.stage = "remove" /\ call.op = "delete" /\ call' = Free
      /\ UNCHANGED <<index, adding, next_u64, store_file, pairing, interrupted>>
      /\ UNCHANGED <<str_to_u64, u64_to_str, docs>>
  BY DEF Deleted, Removed, bindingVars, tables, files, history
<1>2. TableInv' /\ Written = {} /\ Written' = {}
  BY <1>1 DEF StoresInv, TableInv, Written, Free
<1>3. CallInv' /\ RemovalInv'
  BY <1>1 DEF StoresInv, CallInv, RemovalInv, Exclusive, Free
<1>4. IndexInv'
  BY <1>1, <1>2 DEF StoresInv, IndexInv
<1>5. QED
  BY <1>1, <1>2, <1>3, <1>4 DEF StoresInv, ImageInv

LEMMA UpdateKeeps ==
  ASSUME StoresInv, NEW ids, NEW m, Update(ids, m), UNCHANGED <<kind, use>>
  PROVE  StoresInv'
<1>1. /\ call = Free
      /\ UNCHANGED <<index, adding, call, next_u64, store_file, pairing, interrupted>>
      /\ UNCHANGED <<str_to_u64, u64_to_str>>
      /\ DOMAIN docs' = DOMAIN docs /\ docs' = [i \in DOMAIN docs' |-> docs'[i]]
  BY DEF Update, bindingVars, files, history
<1>2. TableInv' /\ Written = {} /\ Written' = {}
  BY <1>1 DEF StoresInv, TableInv, Written, Free
<1>3. CallInv' /\ RemovalInv'
  BY <1>1 DEF StoresInv, CallInv, RemovalInv, Exclusive, Free
<1>4. IndexInv'
  BY <1>1, <1>2 DEF StoresInv, IndexInv
<1>5. QED
  BY <1>1, <1>2, <1>3, <1>4 DEF StoresInv, ImageInv

\* clear, and a program that starts over.
LEMMA EmptyKeeps ==
  ASSUME StoresInv, Empty, call' = Free, store_file' = store_file, UNCHANGED <<kind, use>>
  PROVE  StoresInv'
<1>1. /\ docs' = EmptyFn /\ str_to_u64' = EmptyFn /\ u64_to_str' = EmptyFn /\ next_u64' = 0
      /\ index' = EmptyFn /\ adding' = << >>
  BY DEF Empty, Replace
<1>2. DOMAIN EmptyFn = {} /\ EmptyFn = [x \in DOMAIN EmptyFn |-> EmptyFn[x]]
  BY DEF EmptyFn
<1>3. TableInv'
  BY <1>1, <1>2 DEF TableInv
<1>4. CallInv' /\ RemovalInv' /\ Written' = {}
  BY <1>1 DEF CallInv, RemovalInv, Written, Free, Exclusive
<1>5. IndexInv'
  BY <1>1, <1>2, <1>3, <1>4 DEF IndexInv
<1>6. QED
  BY <1>3, <1>4, <1>5 DEF StoresInv, ImageInv

\* dump, persist, save_to_disk, and what is left of one that stops.
LEMMA SavesKeep ==
  ASSUME StoresInv, Save \/ SaveStops, UNCHANGED <<kind, use>>
  PROVE  StoresInv'
<1>1. /\ call = Free /\ UNCHANGED <<index, adding, call, next_u64, pairing, interrupted>>
      /\ UNCHANGED <<str_to_u64, u64_to_str, docs>>
      /\ store_file' \in {store_file, Torn, StoreImage}
  BY DEF Save, SaveStops, bindingVars, tables, history
<1>2. /\ TableInv' = TableInv /\ CallInv' = CallInv /\ RemovalInv' = RemovalInv
      /\ IndexInv' = IndexInv
  BY <1>1 DEF TableInv, CallInv, WriteInv, RemovalInv, Leaving, IndexInv, Written, Exclusive
<1>3. ImageInv(StoreImage)
  <2>1. /\ StoreImage.docs = docs /\ StoreImage.str_to_u64 = str_to_u64
        /\ StoreImage.next_u64 = next_u64 /\ StoreImage.index = index
        /\ StoreImage.pairing = pairing /\ StoreImage.interrupted = interrupted
    BY DEF StoreImage
  <2>2. Written = {}
    BY <1>1 DEF Written, Free
  <2>3. \A i, j \in DOMAIN str_to_u64 : str_to_u64[i] = str_to_u64[j] => i = j
    BY DEF StoresInv, TableInv
  <2>4. QED
    BY <2>1, <2>2, <2>3 DEF StoresInv, TableInv, IndexInv, ImageInv
<1>4. store_file' \notin {NoFile, Torn} => ImageInv(store_file')
  BY <1>1, <1>3 DEF StoresInv
<1>5. QED
  BY <1>2, <1>4 DEF StoresInv, ImageInv

\* load, from_persist_path and load_from_disk.
LEMMA LoadKeeps ==
  ASSUME StoresInv, Load, UNCHANGED <<kind, use>>
  PROVE  StoresInv'
<1> DEFINE s == store_file
           handles == {s.str_to_u64[i] : i \in DOMAIN s.str_to_u64}
<1>1. /\ ImageInv(s) /\ call' = Free /\ adding' = << >> /\ index' = tvim.index
      /\ str_to_u64' = s.str_to_u64 /\ docs' = s.docs /\ next_u64' = s.next_u64
      /\ pairing' = PairingOf(tvim, s) /\ interrupted' = s.interrupted /\ store_file' = s
      /\ u64_to_str' = [h \in handles |->
                          CHOOSE i \in DOMAIN s.str_to_u64 : s.str_to_u64[i] = h]
  BY DEF Load, StoresInv, Replace, files
<1> HIDE DEF s
<1>2. DOMAIN u64_to_str' = handles /\ \A i \in DOMAIN s.str_to_u64 : u64_to_str'[s.str_to_u64[i]] = i
  <2>1. \A i, j \in DOMAIN s.str_to_u64 : s.str_to_u64[i] = s.str_to_u64[j] => i = j
    BY <1>1 DEF ImageInv
  <2>2. QED
    BY <1>1, <2>1
<1>3. TableInv'
  BY <1>1, <1>2 DEF TableInv, ImageInv
<1>4. CallInv' /\ RemovalInv' /\ Written' = {}
  BY <1>1 DEF CallInv, RemovalInv, Written, Free, Exclusive
<1>5. IndexInv'
  <2>1. pairing' = "same" => s.pairing = "same" /\ tvim.index = s.index
    BY <1>1 DEF PairingOf
  <2>2. QED
    BY <1>1, <1>2, <1>4, <2>1 DEF IndexInv, ImageInv
<1>6. QED
  BY <1>1, <1>3, <1>4, <1>5 DEF StoresInv, ImageInv, s

LEMMA StoresStep ==
  ASSUME StoresInv, [Next]_vars
  PROVE  StoresInv'
<1>1. CASE UNCHANGED vars
  BY <1>1, NothingMoves DEF vars, bindingVars, files, history
<1>2. ASSUME NEW r \in Readers, Searching(r), UNCHANGED <<kind, use>>
      PROVE  StoresInv'
  <2>1. UNCHANGED <<tables, next_u64, call, index, adding, store_file, pairing, interrupted>>
    BY <1>2 DEF Searching, Ask, Answer, EnterSearch, SearchReturns, files, history
  <2>2. QED
    BY <1>2, <2>1, NothingMoves
<1>3. CASE Changing /\ UNCHANGED <<kind, use>>
  <2>1. Clear => StoresInv'
    BY <1>3, EmptyKeeps DEF Clear, files
  <2>2. \A i \in DOMAIN docs : RemoveOne(i) => StoresInv'
    BY <1>3, RemoveOneKeeps
  <2>3. QED
    BY <1>3, <2>1, <2>2, WriteKeeps, AddedKeeps, FillKeeps, DeletedKeeps, DeleteKeeps, UpdateKeeps
       DEF Changing
<1>4. CASE Restart /\ UNCHANGED <<kind, use>>
  BY <1>4, EmptyKeeps DEF Restart, files
<1>5. QED
  BY <1>1, <1>2, <1>3, <1>4, SavesKeep, LoadKeeps DEF Next

LEMMA StoresStart == Init => StoresInv
<1> SUFFICES ASSUME Init PROVE StoresInv
  OBVIOUS
<1>1. DOMAIN EmptyFn = {} /\ EmptyFn = [x \in DOMAIN EmptyFn |-> EmptyFn[x]]
  BY DEF EmptyFn
<1>2. TableInv
  BY <1>1 DEF Init, TableInv
<1>3. CallInv /\ RemovalInv /\ Written = {}
  BY DEF Init, BindingsInit, CallInv, RemovalInv, Written, Free, Exclusive
<1>4. IndexInv
  BY <1>1, <1>2, <1>3 DEF Init, BindingsInit, IndexInv
<1>5. QED
  BY <1>2, <1>3, <1>4 DEF Init, StoresInv

\* In each of the three stores ids and handles are inverse and every document has
\* its vector, at every point of a write or delete, whatever was saved, cut short
\* and loaded, unless the two files are of different saves (add_texts and delete
\* of langchain.py, add and _remove_node_by_id of llama_index.py, write_documents
\* and _remove_one of haystack.py).
THEOREM TablesStayInStep == Spec => []TablesAgree
<1>1. StoresInv => TablesAgree
  <2> SUFFICES ASSUME StoresInv PROVE TablesAgree
    OBVIOUS
  <2>1. call = Free => Written = {}
    BY DEF Written, Free
  <2>2. QED
    BY <2>1 DEF StoresInv, TableInv, IndexInv, TablesAgree
<1>2. QED
  BY <1>1, StoresStart, StoresStep, PTL DEF Spec

\* A write that returns has done what its duplicate policy promises for the whole
\* batch, a delete has taken what it was asked to, and a write that add_with_ids
\* refused has changed nothing (the same functions).
THEOREM CallsDoAsPromised == Spec => CallsAsPromised
<1> DEFINE Kept == /\ Fill => docs' = Promised(call)
                   /\ Deleted => docs' = [i \in DOMAIN call.before \ call.asked |-> call.before[i]]
                   /\ Added /\ call' = Free => UNCHANGED <<tables, index>>
<1>1. ASSUME StoresInv, Fill
      PROVE  docs' = Promised(call)
  <2> DEFINE q == call.queue
             c == call
  <2>1. /\ IdsOf(q) \cap DOMAIN docs = {}
        /\ DOMAIN docs' = DOMAIN docs \cup IdsOf(q)
        /\ \A i \in DOMAIN docs : docs'[i] = docs[i]
        /\ \A n \in DOMAIN q : docs'[q[n].id] = q[n]
        /\ docs' = [i \in DOMAIN docs' |-> docs'[i]]
        /\ Queues(q, c.asked, c.policy, DOMAIN c.before)
        /\ DOMAIN q = 1..Len(q)
    BY <1>1, FillTables DEF WriteInv
  <2>2. /\ \A i : i \in DOMAIN docs <=> i \in DOMAIN c.before /\ i \notin IdsOf(q)
        /\ \A i \in DOMAIN docs : docs[i] = c.before[i]
    BY <1>1 DEF Fill, Removed, StoresInv, RemovalInv, Leaving
  <2>3. \A i \in IdsOf(q) :
          docs'[i] = IF c.policy = "skip" THEN FirstOf(c.asked, i) ELSE LastOf(c.asked, i)
    <3>1. ASSUME NEW i \in IdsOf(q)
          PROVE  docs'[i] = IF c.policy = "skip" THEN FirstOf(c.asked, i) ELSE LastOf(c.asked, i)
      <4>1. PICK n \in DOMAIN q : i = q[n].id
        BY DEF IdsOf
      <4>2. QED
        BY <2>1, <4>1 DEF Queues
    <3>2. QED
      BY <3>1
  <2>4. IdsOf(q) = IF c.policy = "skip" THEN IdsOf(c.asked) \ DOMAIN c.before ELSE IdsOf(c.asked)
    BY <2>1 DEF Queues
  <2>5. /\ DOMAIN docs' = DOMAIN c.before \cup IdsOf(c.asked)
        /\ \A i \in DOMAIN docs' : docs'[i] = Promised(c)[i]
    <3>1. DOMAIN docs' = DOMAIN c.before \cup IdsOf(c.asked)
      BY <2>1, <2>2, <2>4
    <3>2. ASSUME NEW i \in DOMAIN docs'
          PROVE  docs'[i] = Promised(c)[i]
      BY <2>1, <2>2, <2>3, <2>4, <3>1 DEF Promised
    <3>3. QED
      BY <3>1, <3>2
  <2> HIDE DEF q
  <2>6. Promised(c) = [i \in DOMAIN c.before \cup IdsOf(c.asked) |-> Promised(c)[i]]
    BY DEF Promised
  <2> HIDE DEF c
  <2>7. docs' = Promised(c)
    BY <2>1, <2>5, <2>6
  <2>8. QED
    BY <2>7 DEF c
<1>2. ASSUME StoresInv, Deleted
      PROVE  docs' = [i \in DOMAIN call.before \ call.asked |-> call.before[i]]
  <2>1. /\ call.stage = "remove" /\ call.op = "delete" /\ call.todo = {} /\ docs' = docs
        /\ docs = [i \in DOMAIN docs |-> docs[i]]
    BY <1>2 DEF Deleted, Removed, tables, StoresInv, TableInv
  <2>2. /\ \A i : i \in DOMAIN docs <=> i \in DOMAIN call.before /\ i \notin call.asked
        /\ \A i \in DOMAIN docs : docs[i] = call.before[i]
    BY <1>2, <2>1 DEF StoresInv, RemovalInv, Leaving
  <2>3. DOMAIN docs = DOMAIN call.before \ call.asked
    BY <2>2
  <2>4. QED
    BY <2>1, <2>2, <2>3
<1>3. ASSUME StoresInv, Added, call' = Free
      PROVE  UNCHANGED <<tables, index>>
  <2>1. CASE Acceptable(adding)
    <3>1. DOMAIN call = {"op", "stage", "asked", "policy", "queue", "handles", "todo", "before"}
      BY <1>3 DEF Added, StoresInv, CallInv, WriteInv
    <3>2. call'.stage = "remove"
      BY <1>3, <2>1, <3>1 DEF Added
    <3>3. QED
      BY <1>3, <3>2 DEF Free
  <2>2. CASE ~Acceptable(adding)
    BY <1>3, <2>2 DEF Added, AddReturns
  <2>3. QED
    BY <2>1, <2>2
<1>4. StoresInv => [Kept]_vars
  BY <1>1, <1>2, <1>3
<1>5. QED
  BY <1>4, StoresStart, StoresStep, PTL DEF Spec, CallsAsPromised

-----------------------------------------------------------------------------
\* No document is ever paired with the vector of another: the invariant, beside
\* StoresInv and BorrowInv.

\* Documents that have a handle in the index have their own vector there.
Agrees(contents, handleOf, documents) ==
  \A i \in DOMAIN documents :
    handleOf[i] \in DOMAIN contents => contents[handleOf[i]] = documents[i].vector

Readable(file) == file \notin {NoFile, Torn}
Writing == call.stage # "free" /\ call.op = "write"

\* Documents have vectors.
HaveVectors(documents) == \A i \in DOMAIN documents : "vector" \in DOMAIN documents[i]
ShapeInv == /\ HaveVectors(docs)
            /\ Readable(store_file) => HaveVectors(store_file.docs)

\* Counts of handles are named by the objects that started them.
LineInv ==
  /\ line \in Nat /\ line <= object
  /\ Readable(tvim) => tvim.line \in Nat /\ tvim.line <= object
  /\ Readable(store_file) => store_file.line \in Nat /\ store_file.line <= object

\* A side-car of this count knows no handle that a write may still fill.
CountInv ==
  Readable(store_file) /\ store_file.line = line =>
    /\ store_file.next_u64 <= next_u64
    /\ Writing => \A n \in Rows(call.handles) : store_file.next_u64 < call.handles[n]

\* The tables and the index, the two files, and the side-car and the index.
TablesOwn == pairing # "foreign" => Agrees(index, str_to_u64, docs)
FilesOwn ==
  /\ Readable(tvim) /\ Readable(store_file) /\ tvim.line = store_file.line
  /\ tvim.pairing # "foreign" /\ store_file.pairing # "foreign"
  => Agrees(tvim.index, store_file.str_to_u64, store_file.docs)
SideCarOwn ==
  /\ Readable(store_file) /\ store_file.line = line
  /\ pairing # "foreign" /\ store_file.pairing # "foreign"
  => Agrees(index, store_file.str_to_u64, store_file.docs)

\* What a write has added it added for its queue.
QueueOwn ==
  Writing /\ call.stage = "remove" =>
    \A n \in Rows(call.queue) :
      call.handles[n] \in DOMAIN index => index[call.handles[n]] = call.queue[n].vector

\* A hit is in the index as it was found, or its handle is gone for good.  A
\* search looks for handles that are there.
HitKnown(hit) ==
  IF hit.handle \in DOMAIN index THEN index[hit.handle] = hit.vector
  ELSE /\ hit.handle \in Nat /\ hit.handle <= next_u64
       /\ hit.handle \notin DOMAIN u64_to_str
       /\ Writing => \A n \in Rows(call.handles) : call.handles[n] # hit.handle
SearchInv(search) ==
  /\ search.stage = "scoring" =>
       search.allow = Anything \/ search.allow \subseteq DOMAIN search.over
  /\ search.stage = "found" =>
       /\ search.object \in Nat /\ search.object <= object
       /\ search.object = object => HitKnown(search)
HitInv == \A r \in Readers : SearchInv(reading[r])

OwnInv == /\ ShapeInv /\ LineInv /\ CountInv
          /\ TablesOwn /\ FilesOwn /\ SideCarOwn /\ QueueOwn /\ HitInv

-----------------------------------------------------------------------------
\* Every operation keeps it.

\* A smaller index agrees with what the larger one agreed with.
LEMMA FewerAgree ==
  ASSUME NEW large, NEW small, NEW handleOf, NEW documents,
         Agrees(large, handleOf, documents), DOMAIN small \subseteq DOMAIN large,
         \A h \in DOMAIN small : small[h] = large[h]
  PROVE  Agrees(small, handleOf, documents)
BY DEF Agrees

\* Steps of the readers, and steps that change nothing the invariant is about.
LEMMA ReadersOwn ==
  ASSUME StoresInv, BorrowInv, OwnInv,
         UNCHANGED <<tables, next_u64, call, object, index, files, history>>, HitInv'
  PROVE  OwnInv'
<1>1. /\ UNCHANGED <<str_to_u64, u64_to_str, docs, tvim, store_file, line, pairing>>
      /\ UNCHANGED <<next_u64, call, object, index>>
  BY DEF tables, files, history
<1>2. ShapeInv' /\ LineInv' /\ CountInv'
  BY <1>1 DEF OwnInv, ShapeInv, LineInv, CountInv, Readable, HaveVectors, Writing
<1>3. TablesOwn' /\ FilesOwn' /\ SideCarOwn' /\ QueueOwn'
  BY <1>1 DEF OwnInv, TablesOwn, FilesOwn, SideCarOwn, QueueOwn, Readable, Agrees, Writing
<1>4. QED
  BY <1>2, <1>3 DEF OwnInv

LEMMA SearchingOwn ==
  ASSUME StoresInv, BorrowInv, OwnInv, NEW r \in Readers, Searching(r)
  PROVE  OwnInv'
<1>1. /\ UNCHANGED <<tables, next_u64, call, object, index, files, history>>
      /\ \E a : reading' = [reading EXCEPT ![r] = a]
      /\ reading = [q \in Readers |-> reading[q]]
  BY DEF Searching, Ask, Answer, EnterSearch, SearchReturns, BorrowInv
<1>2. UNCHANGED <<next_u64, call, object, index, u64_to_str>>
  BY <1>1 DEF tables
<1>3. \A q \in Readers \ {r} : reading'[q] = reading[q]
  BY <1>1
<1>4. SearchInv(reading'[r])
  <2>1. CASE Answer(r) \/ \E allow : Ask(r, allow)
    <3>1. \E a : reading' = [reading EXCEPT ![r] = a] /\ a.stage \notin {"scoring", "found"}
      BY <2>1 DEF Ask, Answer, Resting
    <3>2. QED
      BY <1>1, <3>1 DEF SearchInv
  <2>2. CASE EnterSearch(r)
    BY <1>1, <2>2 DEF EnterSearch, Resting, SearchInv
  <2>3. CASE SearchReturns(r)
    <3>1. PICK a \in IF Found(reading[r]) = {} THEN {Resting} ELSE Found(reading[r]) :
            reading' = [reading EXCEPT ![r] = a]
      BY <2>3 DEF SearchReturns
    <3>2. reading'[r] = a /\ reading[r].stage = "scoring"
      BY <1>1, <2>3, <3>1 DEF SearchReturns
    <3>3. CASE a = Resting
      BY <3>2, <3>3 DEF Resting, SearchInv
    <3>4. CASE a \in Found(reading[r])
      <4>1. /\ a.stage = "found" /\ a.object = reading[r].object
            /\ a.vector = reading[r].over[a.handle]
            /\ a.handle \in IF reading[r].allow = Anything THEN DOMAIN reading[r].over
                            ELSE reading[r].allow
        BY <3>4 DEF Found
      <4>2. a.handle \in DOMAIN reading[r].over
        BY <3>2, <4>1 DEF OwnInv, HitInv, SearchInv
      <4>3. a.object \in Nat /\ a.object <= object
        BY <3>2, <4>1 DEF BorrowInv
      <4>4. a.object = object => reading[r].over = index
        BY <3>2, <4>1 DEF BorrowInv, SharedBy
      <4>5. a.object = object => HitKnown(a)
        BY <4>1, <4>2, <4>4 DEF HitKnown
      <4>6. QED
        BY <3>2, <4>1, <4>3, <4>5 DEF SearchInv
    <3>5. QED
      BY <3>1, <3>3, <3>4
  <2>4. QED
    BY <2>1, <2>2, <2>3 DEF Searching
<1>5. HitInv'
  <2>1. ASSUME NEW q \in Readers
        PROVE  SearchInv(reading[q])'
    <3>1. SearchInv(reading'[q])
      BY <1>3, <1>4 DEF OwnInv, HitInv
    <3>2. QED
      BY <1>2, <3>1 DEF SearchInv, HitKnown, Writing
  <2>2. QED
    BY <2>1 DEF HitInv
<1>6. QED
  BY <1>1, <1>5, ReadersOwn

\* A hit stays known while its handle keeps its vector, or goes with the tables'.
LEMMA HitsStayKnown ==
  ASSUME HitInv, UNCHANGED <<reading, object>>,
         \A hit : hit.stage = "found" /\ HitKnown(hit) => HitKnown(hit)'
  PROVE  HitInv'
<1> SUFFICES ASSUME NEW r \in Readers
             PROVE  SearchInv(reading[r])'
  BY DEF HitInv
<1>1. SearchInv(reading[r]) /\ reading'[r] = reading[r] /\ object' = object
  BY DEF HitInv
<1>2. reading[r].stage = "found" /\ HitKnown(reading[r]) => HitKnown(reading[r])'
  <2>1. reading[r].stage = "found" /\ HitKnown(reading[r])
        => (\A hit : hit = reading[r] => HitKnown(hit)')
    OBVIOUS
  <2>2. QED
    BY <1>1, <2>1 DEF HitKnown
<1>3. QED
  BY <1>1, <1>2 DEF SearchInv

LEMMA WriteOwn ==
  ASSUME StoresInv, OwnInv, NEW batch \in Batches, NEW policy \in Policies,
         Write(batch, policy), StoresInv'
  PROVE  OwnInv'
<1> DEFINE q == ToWrite(batch, policy)
<1>1. q \in Seq(Documents) /\ next_u64' = next_u64 + Len(q)
  BY WriteQueues
<1>2. /\ call = Free /\ ~Writing /\ next_u64 \in Nat /\ next_u64' \in Nat /\ next_u64 <= next_u64'
      /\ UNCHANGED <<object, index, reading, str_to_u64, u64_to_str, docs>>
      /\ UNCHANGED <<tvim, store_file, line, pairing>>
  <2>1. call = Free /\ next_u64 \in Nat /\ UNCHANGED <<object, index, reading, tables, files, history>>
    BY DEF Write, EnterAdd, bindingVars, StoresInv, TableInv
  <2>2. Len(q) \in Nat
    BY <1>1
  <2> HIDE DEF q
  <2>3. next_u64' \in Nat /\ next_u64 <= next_u64'
    BY <1>1, <2>1, <2>2
  <2>4. QED
    BY <2>1, <2>3 DEF Writing, Free, tables, files, history
<1>3. Writing' => /\ call'.stage = "add" /\ call'.handles = [n \in DOMAIN q |-> IssuedHandle(n)]
  <2> DEFINE pairs == [n \in DOMAIN q |-> <<IssuedHandle(n), q[n].vector>>]
             handles == [n \in DOMAIN pairs |-> pairs[n][1]]
  <2>1. handles = [n \in DOMAIN q |-> IssuedHandle(n)]
    OBVIOUS
  <2>2. \/ call' = call
        \/ call'.stage = "add" /\ call'.handles = handles
    BY DEF Write, q
  <2>3. QED
    BY <1>2, <2>1, <2>2 DEF Writing
<1>4. Writing' => \A n \in Rows(call'.handles) : next_u64 < call'.handles[n]
  <2>1. DOMAIN q = 1..Len(q)
    BY <1>1
  <2> HIDE DEF q
  <2>2. ASSUME Writing', NEW n \in Rows(call'.handles)
        PROVE  next_u64 < call'.handles[n]
    <3>1. call'.handles \in Seq(Nat)
      BY <2>2 DEF StoresInv, CallInv, WriteInv, Writing
    <3>2. n \in DOMAIN call'.handles /\ n \in Int /\ 0 < n
      BY <2>2, <3>1 DEF Rows
    <3>3. n \in DOMAIN q /\ call'.handles[n] = IssuedHandle(n)
      BY <1>3, <2>2, <3>2
    <3>4. QED
      BY <1>2, <3>2, <3>3 DEF IssuedHandle
  <2>3. QED
    BY <2>2
<1> HIDE DEF q
<1>5. ShapeInv' /\ LineInv' /\ TablesOwn' /\ FilesOwn' /\ SideCarOwn'
  BY <1>2 DEF OwnInv, ShapeInv, LineInv, TablesOwn, FilesOwn, SideCarOwn, Readable, HaveVectors, Agrees
<1>6. QueueOwn'
  BY <1>3 DEF QueueOwn
<1>7. CountInv'
  <2> SUFFICES ASSUME Readable(store_file), store_file.line = line
               PROVE  /\ store_file.next_u64 <= next_u64'
                      /\ Writing' => \A n \in Rows(call'.handles) : store_file.next_u64 < call'.handles[n]
    BY <1>2 DEF CountInv, Readable, Writing
  <2>1. store_file.next_u64 \in Nat /\ store_file.next_u64 <= next_u64
    BY DEF OwnInv, CountInv, Readable, StoresInv, ImageInv
  <2>2. Writing' => \A n \in Rows(call'.handles) : call'.handles[n] \in Nat
    <3>1. Writing' => call'.handles \in Seq(Nat)
      BY DEF StoresInv, CallInv, WriteInv, Writing
    <3>2. QED
      BY <3>1 DEF Rows
  <2>3. QED
    BY <1>2, <1>4, <2>1, <2>2
<1>8. HitInv'
  <2>1. ASSUME NEW hit, HitKnown(hit)
        PROVE  HitKnown(hit)'
    <3>1. CASE hit.handle \in DOMAIN index
      BY <1>2, <2>1, <3>1 DEF HitKnown
    <3>2. CASE hit.handle \notin DOMAIN index
      <4>1. hit.handle \in Nat /\ hit.handle <= next_u64 /\ hit.handle \notin DOMAIN u64_to_str
        BY <2>1, <3>2 DEF HitKnown
      <4>2. Writing' => \A n \in Rows(call'.handles) : call'.handles[n] # hit.handle
        BY <1>2, <1>4, <4>1
      <4>3. hit.handle <= next_u64'
        BY <1>2, <4>1
      <4>4. QED
        BY <1>2, <3>2, <4>1, <4>2, <4>3 DEF HitKnown, Writing
    <3>3. QED
      BY <3>1, <3>2
  <2>2. QED
    BY <1>2, <2>1, HitsStayKnown DEF OwnInv
<1>9. QED
  BY <1>5, <1>6, <1>7, <1>8 DEF OwnInv

\* The index after add_with_ids.
LEMMA AddedVectors ==
  ASSUME StoresInv, Added, Acceptable(adding)
  PROVE  /\ call.op = "write" /\ call.stage = "add" /\ WriteInv
         /\ call'.stage = "remove" /\ call'.op = "write"
         /\ call'.queue = call.queue /\ call'.handles = call.handles
         /\ Rows(call.queue) = Rows(call.handles)
         /\ \A n \in Rows(call.handles) : /\ call.handles[n] \notin DOMAIN index
                                          /\ index'[call.handles[n]] = call.queue[n].vector
         /\ \A h \in DOMAIN index : h \in DOMAIN index' /\ index'[h] = index[h]
         /\ \A h \in DOMAIN index' : h \in DOMAIN index \/ \E n \in Rows(call.handles) : h = call.handles[n]
<1>1. /\ call.stage = "add" /\ call.op = "write" /\ WriteInv
      /\ adding = [n \in Rows(call.queue) |-> <<call.handles[n], call.queue[n].vector>>]
  BY DEF Added, StoresInv, CallInv
<1>2. /\ call'.stage = "remove" /\ call'.op = "write"
      /\ call'.queue = call.queue /\ call'.handles = call.handles
  BY <1>1 DEF Added, WriteInv
<1>3. Rows(call.queue) = Rows(call.handles)
  BY <1>1 DEF WriteInv, Rows
<1> DEFINE hs == call.handles
           new == {adding[n][1] : n \in DOMAIN adding}
<1>4. /\ DOMAIN adding = Rows(hs)
      /\ \A n \in Rows(hs) : adding[n][1] = hs[n] /\ adding[n][2] = call.queue[n].vector
      /\ \A m, n \in Rows(hs) : hs[m] = hs[n] => m = n
  BY <1>1, <1>3 DEF WriteInv
<1>5. index' = [h \in DOMAIN index \cup new |->
                  IF h \in DOMAIN index THEN index[h]
                  ELSE adding[CHOOSE n \in DOMAIN adding : adding[n][1] = h][2]]
  BY DEF Added, AddReturns
<1>6. \A n \in Rows(hs) : hs[n] \notin DOMAIN index
  <2> DEFINE handles == [n \in DOMAIN adding |-> adding[n][1]]
  <2>1. Elements(handles) \cap DOMAIN index = {}
    BY DEF Acceptable
  <2>2. \A n \in Rows(hs) : n \in DOMAIN handles /\ handles[n] = hs[n]
    BY <1>4
  <2> HIDE DEF handles
  <2>3. QED
    BY <2>1, <2>2 DEF Elements
<1>7. ASSUME NEW n \in Rows(hs)
      PROVE  index'[hs[n]] = call.queue[n].vector
  <2>1. (CHOOSE m \in DOMAIN adding : adding[m][1] = hs[n]) = n
    BY <1>4
  <2>2. hs[n] \in new
    BY <1>4
  <2> HIDE DEF new
  <2>3. QED
    BY <1>4, <1>5, <1>6, <2>1, <2>2
<1>8. \A h \in new : \E n \in Rows(hs) : h = hs[n]
  BY <1>4
<1> HIDE DEF hs, new
<1>9. /\ \A h \in DOMAIN index : h \in DOMAIN index' /\ index'[h] = index[h]
      /\ \A h \in DOMAIN index' : h \in DOMAIN index \/ \E n \in Rows(hs) : h = hs[n]
  BY <1>5, <1>8
<1>10. QED
  BY <1>1, <1>2, <1>3, <1>6, <1>7, <1>9 DEF hs

LEMMA AddedOwn ==
  ASSUME StoresInv, OwnInv, Added
  PROVE  OwnInv'
<1>1. UNCHANGED <<object, reading, str_to_u64, u64_to_str, docs, next_u64, tvim, store_file, line, pairing>>
  BY DEF Added, AddReturns, tables, files, history
<1>2. CASE ~Acceptable(adding)
  <2>1. call' = Free /\ index' = index
    BY <1>2 DEF Added, AddReturns
  <2>2. ~Writing'
    BY <2>1 DEF Writing, Free
  <2>3. \A hit : HitKnown(hit) => HitKnown(hit)'
    BY <1>1, <2>1, <2>2 DEF HitKnown
  <2>4. HitInv'
    BY <1>1, <2>3, HitsStayKnown DEF OwnInv
  <2>5. ShapeInv' /\ LineInv' /\ CountInv' /\ QueueOwn'
    BY <1>1, <2>2 DEF OwnInv, ShapeInv, LineInv, CountInv, QueueOwn, Readable, HaveVectors
  <2>6. TablesOwn' /\ FilesOwn' /\ SideCarOwn'
    BY <1>1, <2>1 DEF OwnInv, TablesOwn, FilesOwn, SideCarOwn, Readable, Agrees
  <2>7. QED
    BY <2>4, <2>5, <2>6 DEF OwnInv
<1>3. CASE Acceptable(adding)
  <2>1. /\ Writing /\ Writing' /\ WriteInv /\ call'.queue = call.queue /\ call'.handles = call.handles
        /\ Rows(call.queue) = Rows(call.handles)
        /\ \A n \in Rows(call.handles) : /\ call.handles[n] \notin DOMAIN index
                                         /\ index'[call.handles[n]] = call.queue[n].vector
        /\ \A h \in DOMAIN index : h \in DOMAIN index' /\ index'[h] = index[h]
        /\ \A h \in DOMAIN index' :
              h \in DOMAIN index \/ \E n \in Rows(call.handles) : h = call.handles[n]
    BY <1>3, AddedVectors DEF Writing
  <2>2. \A n \in Rows(call.handles) : call.handles[n] \notin DOMAIN u64_to_str
    BY <2>1 DEF WriteInv
  <2>3. TablesOwn'
    <3>1. \A i \in DOMAIN docs : str_to_u64[i] \in DOMAIN u64_to_str
      BY DEF StoresInv, TableInv
    <3>2. QED
      BY <1>1, <2>1, <2>2, <3>1 DEF OwnInv, TablesOwn, Agrees
  <2>4. SideCarOwn'
    <3> SUFFICES ASSUME Readable(store_file), store_file.line = line,
                        pairing # "foreign", store_file.pairing # "foreign"
                 PROVE  Agrees(index', store_file.str_to_u64, store_file.docs)
      BY <1>1 DEF SideCarOwn, Readable, Agrees
    <3>1. Agrees(index, store_file.str_to_u64, store_file.docs)
      BY DEF OwnInv, SideCarOwn
    <3>2. \A i \in DOMAIN store_file.docs : /\ store_file.str_to_u64[i] \in Nat
                                            /\ store_file.str_to_u64[i] <= store_file.next_u64
                                            /\ store_file.next_u64 \in Nat
      BY DEF StoresInv, ImageInv, Readable
    <3>3. \A n \in Rows(call.handles) : call.handles[n] \in Nat /\ store_file.next_u64 < call.handles[n]
      <4>1. call.handles \in Seq(Nat)
        BY <2>1 DEF WriteInv
      <4>2. \A n \in Rows(call.handles) : call.handles[n] \in Nat
        BY <4>1 DEF Rows
      <4>3. \A n \in Rows(call.handles) : store_file.next_u64 < call.handles[n]
        BY <2>1 DEF OwnInv, CountInv
      <4>4. QED
        BY <4>2, <4>3
    <3>4. \A i \in DOMAIN store_file.docs : \A n \in Rows(call.handles) :
            store_file.str_to_u64[i] # call.handles[n]
      BY <3>2, <3>3
    <3>5. QED
      BY <2>1, <3>1, <3>4 DEF Agrees
  <2>5. HitInv'
    <3>1. ASSUME NEW hit, HitKnown(hit)
          PROVE  HitKnown(hit)'
      BY <1>1, <2>1, <3>1 DEF HitKnown
    <3>2. QED
      BY <1>1, <3>1, HitsStayKnown DEF OwnInv
  <2>6. CountInv' /\ QueueOwn'
    BY <1>1, <2>1 DEF OwnInv, CountInv, QueueOwn, Readable
  <2>7. ShapeInv' /\ LineInv' /\ FilesOwn'
    BY <1>1 DEF OwnInv, ShapeInv, LineInv, FilesOwn, Readable, HaveVectors, Agrees
  <2>8. QED
    BY <2>3, <2>4, <2>5, <2>6, <2>7 DEF OwnInv
<1>4. QED
  BY <1>2, <1>3

LEMMA RemoveOneOwn ==
  ASSUME StoresInv, OwnInv, NEW i, RemoveOne(i)
  PROVE  OwnInv'
<1> DEFINE h == str_to_u64[i]
<1>1. /\ call.stage = "remove" /\ i \in DOMAIN str_to_u64 /\ h \in DOMAIN u64_to_str
      /\ h \in Nat /\ h <= next_u64
      /\ UNCHANGED <<object, reading, next_u64, tvim, store_file, line, pairing>>
  BY DEF RemoveOne, StoresInv, RemovalInv, TableInv, files, Remove, bindingVars
<1>2. /\ DOMAIN docs' = DOMAIN docs \ {i} /\ DOMAIN u64_to_str' = DOMAIN u64_to_str \ {h}
      /\ \A j \in DOMAIN docs' : docs'[j] = docs[j] /\ str_to_u64'[j] = str_to_u64[j]
  BY DEF RemoveOne, StoresInv, TableInv
<1>3. /\ DOMAIN index' \subseteq DOMAIN index
      /\ \A g \in DOMAIN index' : index'[g] = index[g]
      /\ \A g \in DOMAIN index : g \in DOMAIN index' \/ g = h
  BY DEF RemoveOne, Remove, bindingVars
<1>4. /\ Writing' => Writing /\ call'.handles = call.handles
      /\ Writing' => call'.stage = "remove" /\ call'.queue = call.queue
  <2>1. CASE call' = Free
    BY <2>1 DEF Free, Writing
  <2>2. CASE call' = [call EXCEPT !.todo = @ \ {i}]
    <3>1. call.op \in {"write", "delete"} /\ call.op = "write" => WriteInv
      BY <1>1 DEF StoresInv, CallInv
    <3>2. call.op = "delete" => DOMAIN call = {"op", "stage", "todo", "before", "asked"}
      BY <1>1 DEF StoresInv, CallInv
    <3>3. call'.op = call.op /\ call'.stage = call.stage
      BY <2>2, <3>1, <3>2 DEF WriteInv
    <3>4. call.op = "write" => call'.handles = call.handles /\ call'.queue = call.queue
      BY <2>2, <3>1 DEF WriteInv
    <3>5. QED
      BY <1>1, <3>3, <3>4 DEF Writing
  <2>3. QED
    BY <2>1, <2>2 DEF RemoveOne
<1>5. Writing => \A n \in Rows(call.handles) : call.handles[n] # h
  BY <1>1 DEF Writing, StoresInv, CallInv, WriteInv
<1> HIDE DEF h
<1>6. ShapeInv' /\ LineInv' /\ FilesOwn'
  BY <1>1, <1>2 DEF OwnInv, ShapeInv, LineInv, FilesOwn, Readable, HaveVectors, Agrees
<1>7. CountInv'
  BY <1>1, <1>4 DEF OwnInv, CountInv, Readable
<1>8. TablesOwn' /\ SideCarOwn'
  <2>1. pairing # "foreign" => Agrees(index', str_to_u64', docs')
    BY <1>2, <1>3 DEF OwnInv, TablesOwn, Agrees
  <2>2. /\ Readable(store_file) /\ store_file.line = line
        /\ pairing # "foreign" /\ store_file.pairing # "foreign"
        => Agrees(index', store_file.str_to_u64, store_file.docs)
    BY <1>3, FewerAgree DEF OwnInv, SideCarOwn
  <2>3. QED
    BY <1>1, <2>1, <2>2 DEF TablesOwn, SideCarOwn, Readable, Agrees
<1>9. QueueOwn'
  BY <1>1, <1>3, <1>4 DEF OwnInv, QueueOwn
<1>10. HitInv'
  <2>1. ASSUME NEW hit, HitKnown(hit)
        PROVE  HitKnown(hit)'
    BY <1>1, <1>2, <1>3, <1>4, <1>5, <2>1 DEF HitKnown
  <2>2. QED
    BY <1>1, <2>1, HitsStayKnown DEF OwnInv
<1>11. QED
  BY <1>6, <1>7, <1>8, <1>9, <1>10 DEF OwnInv

LEMMA FillOwn ==
  ASSUME StoresInv, OwnInv, Fill
  PROVE  OwnInv'
<1> DEFINE q == call.queue
           hs == call.handles
<1>1. /\ WriteInv /\ Len(q) \in Nat
      /\ DOMAIN q = 1..Len(q) /\ DOMAIN hs = 1..Len(q)
      /\ DOMAIN docs' = DOMAIN docs \cup IdsOf(q)
      /\ \A i \in DOMAIN docs : docs'[i] = docs[i] /\ str_to_u64'[i] = str_to_u64[i]
      /\ \A n \in 1..Len(q) : docs'[q[n].id] = q[n] /\ str_to_u64'[q[n].id] = hs[n]
      /\ DOMAIN u64_to_str' = DOMAIN u64_to_str \cup Elements(hs)
  BY FillTables
<1>2. /\ Rows(hs) = 1..Len(q) /\ Rows(q) = 1..Len(q)
      /\ \A i \in IdsOf(q) : \E n \in 1..Len(q) : i = q[n].id
      /\ \A h \in Elements(hs) : \E n \in 1..Len(q) : h = hs[n]
  <2>1. Len(hs) = Len(q)
    BY <1>1 DEF WriteInv
  <2>2. QED
    BY <1>1, <2>1 DEF Rows, IdsOf, Elements
<1>3. \A n \in 1..Len(q) : "vector" \in DOMAIN q[n]
  <2>1. q \in Seq(Documents)
    BY <1>1 DEF WriteInv, Queues
  <2>2. \A n \in 1..Len(q) : q[n] \in Documents
    BY <2>1
  <2>3. QED
    BY <2>2, StoreConstantsOK
<1>4. /\ Writing /\ call.stage = "remove" /\ ~Writing'
      /\ UNCHANGED <<object, reading, index, next_u64, tvim, store_file, line, pairing>>
  BY DEF Fill, Removed, Writing, Free, bindingVars, files, history
<1>5. \A n \in 1..Len(q) : hs[n] \in DOMAIN index => index[hs[n]] = q[n].vector
  BY <1>2, <1>4 DEF OwnInv, QueueOwn
<1>6. ASSUME NEW hit, HitKnown(hit)
      PROVE  HitKnown(hit)'
  <2>1. hit.handle \notin DOMAIN index => \A n \in 1..Len(q) : hs[n] # hit.handle
    BY <1>2, <1>4, <1>6 DEF HitKnown
  <2> HIDE DEF q, hs
  <2>2. QED
    BY <1>1, <1>2, <1>4, <1>6, <2>1 DEF HitKnown
<1> HIDE DEF q, hs
<1>7. ShapeInv'
  <2>1. HaveVectors(docs')
    BY <1>1, <1>2, <1>3 DEF OwnInv, ShapeInv, HaveVectors
  <2>2. QED
    BY <1>4, <2>1 DEF OwnInv, ShapeInv, Readable, HaveVectors
<1>8. TablesOwn'
  <2>1. pairing # "foreign" => Agrees(index, str_to_u64', docs')
    BY <1>1, <1>2, <1>5 DEF OwnInv, TablesOwn, Agrees
  <2>2. QED
    BY <1>4, <2>1 DEF TablesOwn, Agrees
<1>9. LineInv' /\ CountInv' /\ FilesOwn' /\ SideCarOwn' /\ QueueOwn'
  BY <1>4 DEF OwnInv, LineInv, CountInv, FilesOwn, SideCarOwn, QueueOwn, Readable, Agrees
<1>10. HitInv'
  BY <1>4, <1>6, HitsStayKnown DEF OwnInv
<1>11. QED
  BY <1>7, <1>8, <1>9, <1>10 DEF OwnInv

\* The start and the end of a delete, and update_by_filter.
LEMMA NoWriteOwn ==
  ASSUME OwnInv, ~Writing',
         UNCHANGED <<object, reading, index, str_to_u64, u64_to_str, next_u64, tvim, store_file,
                     line, pairing>>,
         DOMAIN docs' = DOMAIN docs, HaveVectors(docs'),
         \A i \in DOMAIN docs : docs'[i].vector = docs[i].vector
  PROVE  OwnInv'
<1>1. ShapeInv' /\ LineInv' /\ CountInv' /\ QueueOwn'
  BY DEF OwnInv, ShapeInv, LineInv, CountInv, QueueOwn, Readable, HaveVectors
<1>2. TablesOwn' /\ FilesOwn' /\ SideCarOwn'
  BY DEF OwnInv, TablesOwn, FilesOwn, SideCarOwn, Readable, Agrees
<1>3. \A hit : HitKnown(hit) => HitKnown(hit)'
  BY DEF HitKnown
<1>4. HitInv'
  BY <1>3, HitsStayKnown DEF OwnInv
<1>5. QED
  BY <1>1, <1>2, <1>4 DEF OwnInv

LEMMA DeletesOwn ==
  ASSUME OwnInv, Deleted \/ \E ids : Delete(ids)
  PROVE  OwnInv'
<1>1. ~Writing'
  <2>1. call'.stage = "free" \/ call'.op = "delete"
    BY DEF Deleted, Delete, Free
  <2>2. QED
    BY <2>1 DEF Writing
<1>2. /\ UNCHANGED <<object, reading, index, str_to_u64, u64_to_str, next_u64, docs>>
      /\ UNCHANGED <<tvim, store_file, line, pairing>>
  BY DEF Deleted, Delete, bindingVars, tables, files, history
<1>3. HaveVectors(docs')
  BY <1>2 DEF OwnInv, ShapeInv
<1>4. QED
  BY <1>1, <1>2, <1>3, NoWriteOwn

LEMMA UpdateOwn ==
  ASSUME OwnInv, NEW ids, NEW m, Update(ids, m)
  PROVE  OwnInv'
<1>1. /\ UNCHANGED <<object, reading, index, str_to_u64, u64_to_str, next_u64>>
      /\ UNCHANGED <<tvim, store_file, line, pairing>> /\ ~Writing'
  BY DEF Update, bindingVars, files, history, Writing, Free
<1>2. /\ DOMAIN docs' = DOMAIN docs
      /\ \A i \in DOMAIN docs :
            docs'[i] = IF i \in ids THEN [docs[i] EXCEPT !.meta = m] ELSE docs[i]
  BY DEF Update
<1>3. \A i \in DOMAIN docs : "vector" \in DOMAIN docs'[i] /\ docs'[i].vector = docs[i].vector
  BY <1>2 DEF OwnInv, ShapeInv, HaveVectors
<1>4. HaveVectors(docs')
  BY <1>2, <1>3 DEF HaveVectors
<1>5. QED
  BY <1>1, <1>2, <1>3, <1>4, NoWriteOwn

\* A new object knows none of the hits of those before it.
LEMMA ReplaceHits ==
  ASSUME BorrowInv, OwnInv, NEW contents, Replace(contents), reading' = reading
  PROVE  HitInv'
<1>1. object' = object + 1 /\ object \in Nat
  BY DEF Replace, BorrowInv
<1>2. ASSUME NEW r \in Readers
      PROVE  SearchInv(reading[r])'
  <2>1. SearchInv(reading[r]) /\ reading'[r] = reading[r]
    BY DEF OwnInv, HitInv
  <2>2. reading[r].stage = "found" =>
          /\ reading[r].object \in Nat /\ reading[r].object <= object' /\ reading[r].object # object'
    BY <1>1, <2>1 DEF SearchInv
  <2>3. QED
    BY <2>1, <2>2 DEF SearchInv
<1>3. QED
  BY <1>2 DEF HitInv

\* clear, and a program that starts over.
LEMMA EmptyOwn ==
  ASSUME BorrowInv, OwnInv, Empty, call' = Free, UNCHANGED files,
         HitInv'
  PROVE  OwnInv'
<1>1. /\ docs' = EmptyFn /\ next_u64' = 0 /\ object' = object + 1 /\ line' = object'
      /\ object \in Nat /\ UNCHANGED <<tvim, store_file>> /\ ~Writing'
  BY DEF Empty, Replace, BorrowInv, files, Writing, Free
<1>2. DOMAIN docs' = {}
  BY <1>1 DEF EmptyFn
<1>3. ShapeInv' /\ TablesOwn' /\ FilesOwn' /\ QueueOwn'
  BY <1>1, <1>2 DEF OwnInv, ShapeInv, TablesOwn, FilesOwn, QueueOwn, Readable, HaveVectors, Agrees
<1>4. LineInv'
  BY <1>1 DEF OwnInv, LineInv, Readable
<1>5. Readable(store_file) => store_file.line # line'
  BY <1>1 DEF OwnInv, LineInv
<1>6. CountInv' /\ SideCarOwn'
  BY <1>1, <1>5 DEF CountInv, SideCarOwn, Readable
<1>7. QED
  BY <1>3, <1>4, <1>6 DEF OwnInv

\* dump, persist, save_to_disk, and what is left of one that stops.
LEMMA SavesOwn ==
  ASSUME StoresInv, OwnInv, Save \/ SaveStops
  PROVE  OwnInv'
<1>1. /\ call = Free /\ call' = call /\ ~Writing /\ ~Writing'
      /\ UNCHANGED <<object, reading, index, str_to_u64, u64_to_str, docs, next_u64, line, pairing>>
      /\ next_u64 \in Nat
  BY DEF Save, SaveStops, bindingVars, tables, history, Writing, Free, StoresInv, TableInv
<1>2. /\ tvim' \in {Torn, IndexImage}
      /\ store_file' \in {store_file, Torn, StoreImage}
  BY DEF Save, SaveStops
<1>3. /\ IndexImage.index = index /\ IndexImage.line = line /\ IndexImage.pairing = pairing
      /\ StoreImage.str_to_u64 = str_to_u64 /\ StoreImage.docs = docs
      /\ StoreImage.next_u64 = next_u64 /\ StoreImage.line = line /\ StoreImage.pairing = pairing
  BY DEF IndexImage, StoreImage
<1>4. ShapeInv'
  BY <1>1, <1>2, <1>3 DEF OwnInv, ShapeInv, Readable, HaveVectors
<1>5. LineInv'
  BY <1>1, <1>2, <1>3 DEF OwnInv, LineInv, Readable
<1>6. CountInv'
  BY <1>1, <1>2, <1>3 DEF OwnInv, CountInv, Readable
<1>7. SideCarOwn'
  BY <1>1, <1>2, <1>3 DEF OwnInv, TablesOwn, SideCarOwn, Readable, Agrees
<1>8. FilesOwn'
  <2>1. CASE tvim' = Torn
    BY <2>1 DEF FilesOwn, Readable
  <2>2. CASE tvim' = IndexImage
    <3>1. CASE store_file' = StoreImage
      BY <1>3, <2>2, <3>1 DEF OwnInv, TablesOwn, FilesOwn, Readable, Agrees
    <3>2. CASE store_file' = Torn
      BY <3>2 DEF FilesOwn, Readable
    <3>3. CASE store_file' = store_file
      BY <1>3, <2>2, <3>3 DEF OwnInv, SideCarOwn, FilesOwn, Readable, Agrees
    <3>4. QED
      BY <1>2, <3>1, <3>2, <3>3
  <2>3. QED
    BY <1>2, <2>1, <2>2
<1>9. TablesOwn' /\ QueueOwn'
  BY <1>1 DEF OwnInv, TablesOwn, QueueOwn, Agrees
<1>10. HitInv'
  <2>1. \A hit : HitKnown(hit) => HitKnown(hit)'
    BY <1>1 DEF HitKnown
  <2>2. QED
    BY <1>1, <2>1, HitsStayKnown DEF OwnInv
<1>11. QED
  BY <1>4, <1>5, <1>6, <1>7, <1>8, <1>9, <1>10 DEF OwnInv

\* load, from_persist_path and load_from_disk.
LEMMA LoadOwn ==
  ASSUME StoresInv, BorrowInv, OwnInv, Load
  PROVE  OwnInv'
<1>1. /\ Readable(tvim) /\ Readable(store_file) /\ UNCHANGED <<tvim, store_file>>
      /\ object' = object + 1 /\ object \in Nat /\ index' = tvim.index
      /\ str_to_u64' = store_file.str_to_u64 /\ docs' = store_file.docs
      /\ next_u64' = store_file.next_u64 /\ line' = store_file.line
      /\ pairing' = PairingOf(tvim, store_file) /\ call' = Free /\ ~Writing'
  BY DEF Load, Readable, files, Replace, BorrowInv, Writing, Free
<1>2. pairing' # "foreign" =>
        /\ tvim.line = store_file.line /\ tvim.pairing # "foreign" /\ store_file.pairing # "foreign"
  BY <1>1 DEF PairingOf
<1>3. pairing' # "foreign" => Agrees(tvim.index, store_file.str_to_u64, store_file.docs)
  BY <1>1, <1>2 DEF OwnInv, FilesOwn
<1>4. TablesOwn' /\ SideCarOwn'
  BY <1>1, <1>3 DEF TablesOwn, SideCarOwn, Agrees
<1>5. ShapeInv'
  BY <1>1 DEF OwnInv, ShapeInv, Readable, HaveVectors
<1>6. LineInv' /\ CountInv'
  <2>1. store_file.next_u64 \in Nat
    BY <1>1 DEF StoresInv, ImageInv, Readable
  <2>2. QED
    BY <1>1, <2>1 DEF OwnInv, LineInv, CountInv, Readable
<1>7. FilesOwn' /\ QueueOwn'
  BY <1>1 DEF OwnInv, FilesOwn, QueueOwn, Readable, Agrees
<1>8. HitInv'
  BY ReplaceHits DEF Load
<1>9. QED
  BY <1>4, <1>5, <1>6, <1>7, <1>8 DEF OwnInv

\* Only clear() leaves a search behind with an index that is no longer in use.
HitsOfToday ==
  kind # "llama_index" =>
    \A r \in Readers : reading[r].stage \in {"scoring", "found"} => reading[r].object = object

LEMMA HitsStayOfToday ==
  ASSUME BorrowInv, HitsOfToday, [Next]_vars
  PROVE  HitsOfToday'
<1> USE StoreConstantsOK
<1>1. kind' = kind
  BY DEF Next, vars
<1>2. ASSUME UNCHANGED <<object, reading>>
      PROVE  HitsOfToday'
  BY <1>1, <1>2 DEF HitsOfToday
<1>3. ASSUME UNCHANGED bindingVars
      PROVE  HitsOfToday'
  BY <1>2, <1>3 DEF bindingVars
<1>4. ASSUME NEW batch, NEW policy, Write(batch, policy)
      PROVE  HitsOfToday'
  BY <1>2, <1>3, <1>4 DEF Write, EnterAdd
<1>5. ASSUME NEW i, RemoveOne(i)
      PROVE  HitsOfToday'
  BY <1>2, <1>3, <1>5 DEF RemoveOne, Remove
<1>6. CASE Added \/ Fill \/ Deleted \/ Save \/ SaveStops
  BY <1>2, <1>3, <1>6 DEF Added, AddReturns, Fill, Deleted, Save, SaveStops
<1>7. ASSUME NEW ids, Delete(ids) \/ \E m : Update(ids, m)
      PROVE  HitsOfToday'
  BY <1>3, <1>7 DEF Delete, Update
<1>8. CASE Clear
  BY <1>1, <1>8 DEF Clear, HitsOfToday
<1>9. CASE Load \/ Restart
  <2>1. \A r \in Readers : reading'[r].stage = "resting"
    BY <1>9 DEF Load, Restart, Resting
  <2>2. QED
    BY <2>1 DEF HitsOfToday
<1>10. ASSUME NEW r \in Readers, Searching(r)
       PROVE  HitsOfToday'
  <2>1. /\ object' = object /\ reading = [q \in Readers |-> reading[q]]
        /\ \E a : reading' = [reading EXCEPT ![r] = a]
    BY <1>10 DEF Searching, Ask, Answer, EnterSearch, SearchReturns, BorrowInv
  <2>2. \A q \in Readers \ {r} : reading'[q] = reading[q]
    BY <2>1
  <2>3. CASE Answer(r) \/ \E allow : Ask(r, allow)
    <3>1. \E a : reading' = [reading EXCEPT ![r] = a] /\ a.stage \notin {"scoring", "found"}
      BY <2>3 DEF Ask, Answer, Resting
    <3>2. reading'[r].stage \notin {"scoring", "found"}
      BY <2>1, <3>1
    <3>3. QED
      BY <1>1, <2>1, <2>2, <3>2 DEF HitsOfToday
  <2>4. CASE EnterSearch(r)
    <3>1. reading'[r].stage = "scoring" => reading'[r].object = object
      BY <2>1, <2>4 DEF EnterSearch, Resting
    <3>2. reading'[r].stage # "found"
      BY <2>1, <2>4 DEF EnterSearch, Resting
    <3>3. QED
      BY <1>1, <2>1, <2>2, <3>1, <3>2 DEF HitsOfToday
  <2>5. CASE SearchReturns(r)
    <3>1. PICK a \in IF Found(reading[r]) = {} THEN {Resting} ELSE Found(reading[r]) :
            reading' = [reading EXCEPT ![r] = a]
      BY <2>5 DEF SearchReturns
    <3>2. reading'[r] = a /\ reading[r].stage = "scoring"
      BY <2>1, <2>5, <3>1 DEF SearchReturns
    <3>3. a.stage = "found" => a.object = reading[r].object
      BY <3>1 DEF Found, Resting
    <3>4. a.stage # "scoring"
      BY <3>1 DEF Found, Resting
    <3>5. QED
      BY <1>1, <2>1, <2>2, <3>2, <3>3, <3>4 DEF HitsOfToday
  <2>6. QED
    BY <1>10, <2>3, <2>4, <2>5 DEF Searching
<1>11. QED
  BY <1>3, <1>4, <1>5, <1>6, <1>7, <1>8, <1>9, <1>10 DEF Next, Changing, vars

LEMMA OwnStep ==
  ASSUME StoresInv, StoresInv', BorrowInv, OwnInv, [Next]_vars
  PROVE  OwnInv'
<1>1. CASE UNCHANGED vars
  <2>1. /\ UNCHANGED <<tables, next_u64, call, object, index, files, history>>
        /\ UNCHANGED <<u64_to_str, reading>>
    BY <1>1 DEF vars, bindingVars, tables
  <2>2. \A hit : HitKnown(hit) => HitKnown(hit)'
    BY <2>1 DEF HitKnown, Writing
  <2>3. HitInv'
    BY <2>1, <2>2, HitsStayKnown DEF OwnInv
  <2>4. QED
    BY <2>1, <2>3, ReadersOwn
<1>2. CASE Clear
  <2>1. HitInv'
    BY <1>2, ReplaceHits DEF Clear, Empty
  <2>2. QED
    BY <1>2, <2>1, EmptyOwn DEF Clear
<1>3. CASE Restart
  <2>1. HitInv'
    <3>1. \A r \in Readers : reading'[r].stage = "resting"
      BY <1>3 DEF Restart, Resting
    <3>2. QED
      BY <3>1 DEF HitInv, SearchInv
  <2>2. QED
    BY <1>3, <2>1, EmptyOwn DEF Restart
<1>4. CASE Changing
  BY <1>2, <1>4, WriteOwn, AddedOwn, FillOwn, DeletesOwn, UpdateOwn, RemoveOneOwn DEF Changing
<1>5. QED
  BY <1>1, <1>3, <1>4, SearchingOwn, SavesOwn, LoadOwn DEF Next

\* A document is never paired with the vector of another, in the tables or by a
\* search whose hit is looked up after other calls, whatever is saved, cut short
\* and loaded, unless a count of handles starts again: over old files, or, for a
\* hit of LlamaIndex, by a clear() during its query (the handles of
\* _issue_handle, and load in langchain.py, llama_index.py and haystack.py).
THEOREM OwnVectorsKept == Spec => []OwnVectors
<1>1. Init => BorrowInv
  BY DEF Init, BindingsInit, BorrowInv, SharedBy, Resting
<1>2. Init => OwnInv
  <2> SUFFICES ASSUME Init PROVE OwnInv
    OBVIOUS
  <2>1. /\ DOMAIN docs = {} /\ ~Writing /\ ~Readable(tvim) /\ ~Readable(store_file)
        /\ line = 1 /\ object = 1 /\ \A r \in Readers : reading[r].stage = "resting"
    BY DEF Init, BindingsInit, EmptyFn, Writing, Free, Readable, Resting
  <2>2. QED
    BY <2>1 DEF OwnInv, ShapeInv, LineInv, CountInv, TablesOwn, FilesOwn, SideCarOwn, QueueOwn,
                HitInv, SearchInv, HaveVectors, Agrees
<1>3. ASSUME StoresInv, OwnInv, HitsOfToday
      PROVE  OwnVectors
  <2>1. /\ DOMAIN u64_to_str = {str_to_u64[i] : i \in DOMAIN docs}
        /\ \A i \in DOMAIN docs : u64_to_str[str_to_u64[i]] = i
    BY <1>3 DEF StoresInv, TableInv
  <2>2. pairing # "foreign" =>
          \A h \in DOMAIN u64_to_str \cap DOMAIN index : index[h] = docs[u64_to_str[h]].vector
    BY <1>3, <2>1 DEF OwnInv, TablesOwn, Agrees
  <2>3. ASSUME NEW r \in Readers, reading[r].stage = "found", ~ClearedUnder(reading[r]),
               pairing # "foreign", reading[r].handle \in DOMAIN u64_to_str
        PROVE  docs[u64_to_str[reading[r].handle]].vector = reading[r].vector
    <3>1. reading[r].object = object
      BY <1>3, <2>3 DEF HitsOfToday, ClearedUnder
    <3>2. QED
      BY <1>3, <2>2, <2>3, <3>1 DEF OwnInv, HitInv, SearchInv, HitKnown
  <2>4. QED
    BY <2>2, <2>3 DEF OwnVectors
<1>4. Init => HitsOfToday
  BY DEF Init, BindingsInit, HitsOfToday, Resting
<1>5. QED
  BY <1>1, <1>2, <1>3, <1>4, StoresStart, StoresStep, BorrowStep, OwnStep, HitsStayOfToday, PTL
     DEF Spec

-----------------------------------------------------------------------------
\* Every table holds what it should: the invariant, beside StoresInv.

\* An index has vectors that add takes, under handles that are issued.
Takes(contents) ==
  /\ DOMAIN contents \subseteq Handles
  /\ \A h \in DOMAIN contents : contents[h] \in Vectors \ BadVectors

\* A table of ids leads to handles that are issued.
Leads(handleOf) ==
  /\ DOMAIN handleOf \subseteq DocIds
  /\ \A i \in DOMAIN handleOf : handleOf[i] \in Handles

\* A write has issued handles, and nothing to remove before its vectors are added.
Writes(c) ==
  c.stage # "free" /\ c.op = "write" =>
    /\ \A n \in Rows(c.handles) : c.handles[n] \in Handles
    /\ c.stage = "add" => c.todo = {}

Stages == {"resting", "asked", "scoring", "found"}

TypesInv ==
  /\ Takes(index) /\ Leads(str_to_u64) /\ next_u64 <= MaxHandle
  /\ \A r \in Readers : reading[r].stage \in Stages
  /\ Writes(call)
  /\ Readable(tvim) => Takes(tvim.index)
  /\ Readable(store_file) => Leads(store_file.str_to_u64) /\ store_file.next_u64 <= MaxHandle

\* add_texts, add and write_documents issue handles up to the bound.
LEMMA WriteTypes ==
  ASSUME StoresInv, TypesInv, NEW batch \in Batches, NEW policy \in Policies,
         Write(batch, policy)
  PROVE  TypesInv'
<1> DEFINE q == ToWrite(batch, policy)
           hs == [n \in DOMAIN q |-> IssuedHandle(n)]
<1>1. q \in Seq(Documents) /\ next_u64' = next_u64 + Len(q) /\ next_u64 \in Nat
  BY WriteQueues DEF StoresInv, TableInv
<1>2. next_u64' <= MaxHandle
  <2>1. next_u64 + Len(q) <= Uses[use].handles
    BY DEF Write
  <2>2. Uses[use].handles \in 0..MaxHandle /\ MaxHandle \in Nat
    BY StoreConstantsOK, BindingsConstantsOK DEF StoresInv
  <2> HIDE DEF q
  <2>3. Len(q) \in Nat
    BY <1>1
  <2>4. QED
    BY <1>1, <2>1, <2>2, <2>3
<1>3. UNCHANGED <<index, str_to_u64, reading, tvim, store_file>>
  BY DEF Write, EnterAdd, bindingVars, tables, files
<1>4. Writes(call')
  <2>1. CASE call' = call
    BY <2>1 DEF Write, Writes, Free
  <2>2. CASE call' # call
    <3>1. LET pairs == [n \in DOMAIN q |-> <<IssuedHandle(n), q[n].vector>>]
          IN  [n \in DOMAIN pairs |-> pairs[n][1]] = hs
      OBVIOUS
    <3>2. call'.handles = hs /\ call'.todo = {}
      BY <2>2, <3>1 DEF Write
    <3> HIDE DEF q
    <3>3. Len(q) \in Nat /\ DOMAIN q = 1..Len(q) /\ hs = [n \in 1..Len(q) |-> next_u64 + n]
      BY <1>1 DEF IssuedHandle
    <3>4. Len(hs) = Len(q)
      BY <3>3
    <3>5. \A n \in 1..Len(q) : hs[n] = next_u64 + n
      BY <3>3
    <3> HIDE DEF hs
    <3>6. \A n \in 1..Len(q) : hs[n] \in 1..MaxHandle
      BY <1>1, <1>2, <3>3, <3>5, BindingsConstantsOK
    <3>7. QED
      BY <3>2, <3>4, <3>6 DEF Rows, Handles, Writes
  <2>3. QED
    BY <2>1, <2>2
<1>5. QED
  BY <1>2, <1>3, <1>4 DEF TypesInv, Takes, Leads, Readable, Stages

\* add_with_ids adds vectors of documents, those it takes, under issued handles.
LEMMA AddedTypes ==
  ASSUME StoresInv, TypesInv, Added
  PROVE  TypesInv'
<1>1. /\ call.stage = "add" /\ call.op = "write" /\ WriteInv
      /\ adding = [n \in Rows(call.queue) |-> <<call.handles[n], call.queue[n].vector>>]
      /\ UNCHANGED <<str_to_u64, next_u64, reading, tvim, store_file>>
  BY DEF Added, StoresInv, CallInv, tables, files, AddReturns
<1>2. /\ call.queue \in Seq(Documents) /\ Len(call.handles) = Len(call.queue)
      /\ \A n \in Rows(call.queue) : call.handles[n] \in Handles
  BY <1>1 DEF TypesInv, WriteInv, Queues, Rows, Writes
<1>3. \A n \in Rows(call.queue) : call.queue[n] \in Documents
  BY <1>2 DEF Rows
<1>4. \A n \in Rows(call.queue) : call.queue[n].vector \in Vectors
  BY <1>3, StoreConstantsOK
<1>5. Takes(index')
  <2>1. CASE ~Acceptable(adding)
    BY <2>1 DEF Added, AddReturns, TypesInv
  <2>2. CASE Acceptable(adding)
    <3>1. /\ DOMAIN adding = Rows(call.queue)
          /\ \A n \in DOMAIN adding : /\ adding[n][1] = call.handles[n]
                                      /\ adding[n][2] = call.queue[n].vector
      BY <1>1
    <3>2. \A n \in DOMAIN adding : adding[n][1] \in Handles /\ adding[n][2] \in Vectors \ BadVectors
      BY <1>2, <1>4, <2>2, <3>1 DEF Acceptable
    <3>3. index' = [h \in DOMAIN index \cup {adding[n][1] : n \in DOMAIN adding} |->
                      IF h \in DOMAIN index THEN index[h]
                      ELSE adding[CHOOSE n \in DOMAIN adding : adding[n][1] = h][2]]
      BY <2>2 DEF Added, AddReturns
    <3>4. ASSUME NEW h \in DOMAIN index'
          PROVE  h \in Handles /\ index'[h] \in Vectors \ BadVectors
      <4>1. CASE h \in DOMAIN index
        BY <3>3, <4>1 DEF TypesInv, Takes
      <4>2. CASE h \notin DOMAIN index
        <5>1. PICK n \in DOMAIN adding : adding[n][1] = h
          BY <3>3, <4>2
        <5> DEFINE m == CHOOSE n0 \in DOMAIN adding : adding[n0][1] = h
        <5>2. m \in DOMAIN adding /\ adding[m][1] = h
          BY <5>1
        <5>3. index'[h] = adding[m][2]
          BY <3>3, <4>2
        <5>4. QED
          BY <3>2, <5>2, <5>3
      <4>3. QED
        BY <4>1, <4>2
    <3>5. QED
      BY <3>4 DEF Takes
  <2>3. QED
    BY <2>1, <2>2
<1>6. Writes(call')
  <2>1. CASE call' = Free
    BY <2>1 DEF Writes, Free
  <2>2. CASE call' # Free
    <3>1. call' = [call EXCEPT !.stage = "remove", !.todo = IdsOf(call.queue) \cap DOMAIN str_to_u64]
      BY <2>2 DEF Added
    <3>2. call'.handles = call.handles /\ call'.stage = "remove"
      BY <1>1, <3>1 DEF WriteInv
    <3>3. QED
      BY <1>1, <3>2 DEF TypesInv, Writes
  <2>3. QED
    BY <2>1, <2>2
<1>7. QED
  BY <1>1, <1>5, <1>6 DEF TypesInv, Leads, Readable, Takes

\* A document leaves, and a write fills the tables.
LEMMA RemoveOneTypes ==
  ASSUME StoresInv, TypesInv, NEW i, RemoveOne(i)
  PROVE  TypesInv'
<1>1. /\ UNCHANGED <<next_u64, tvim, store_file, reading>>
      /\ DOMAIN str_to_u64' \subseteq DOMAIN str_to_u64
      /\ \A j \in DOMAIN str_to_u64' : str_to_u64'[j] = str_to_u64[j]
      /\ DOMAIN index' \subseteq DOMAIN index /\ \A h \in DOMAIN index' : index'[h] = index[h]
  BY DEF RemoveOne, Remove, bindingVars, files
<1>2. Writes(call')
  <2>1. CASE call' = Free
    BY <2>1 DEF Writes, Free
  <2>2. CASE call' # Free
    <3>1. call' = [call EXCEPT !.todo = @ \ {i}] /\ call.stage = "remove"
      BY <2>2 DEF RemoveOne
    <3>2. /\ call'.op = call.op /\ call'.stage = "remove"
          /\ call.op = "write" => call'.handles = call.handles
      BY <3>1 DEF StoresInv, CallInv, WriteInv
    <3>3. QED
      BY <3>1, <3>2 DEF TypesInv, Writes
  <2>3. QED
    BY <2>1, <2>2
<1>3. Takes(index') /\ Leads(str_to_u64')
  BY <1>1 DEF TypesInv, Takes, Leads
<1>4. QED
  BY <1>1, <1>2, <1>3 DEF TypesInv, Readable, Takes, Leads

LEMMA FillTypes ==
  ASSUME StoresInv, TypesInv, Fill
  PROVE  TypesInv'
<1> DEFINE q == call.queue
           hs == call.handles
<1>1. /\ WriteInv /\ DOMAIN q = 1..Len(q)
      /\ \A i \in DOMAIN docs : str_to_u64'[i] = str_to_u64[i]
      /\ \A n \in 1..Len(q) : str_to_u64'[q[n].id] = hs[n]
      /\ DOMAIN str_to_u64' = DOMAIN str_to_u64 \cup IdsOf(q)
  BY FillTables
<1>2. /\ q \in Seq(Documents) /\ Len(hs) = Len(q) /\ DOMAIN docs = DOMAIN str_to_u64
      /\ \A n \in 1..Len(q) : hs[n] \in Handles
  <2>1. call.stage = "remove" /\ call.op = "write"
    BY DEF Fill, Removed
  <2>2. QED
    BY <1>1, <2>1 DEF WriteInv, Queues, StoresInv, TableInv, TypesInv, Writes, Rows
<1>3. /\ UNCHANGED <<index, next_u64, tvim, store_file, reading>>
      /\ Writes(call')
  BY DEF Fill, bindingVars, files, Writes, Free
<1> HIDE DEF q, hs
<1>4. \A n \in 1..Len(q) : q[n].id \in DocIds
  BY <1>1, <1>2 DEF DocIds
<1>5. Leads(str_to_u64')
  <2>1. ASSUME NEW i \in DOMAIN str_to_u64'
        PROVE  i \in DocIds /\ str_to_u64'[i] \in Handles
    <3>1. CASE i \in DOMAIN str_to_u64
      BY <1>1, <1>2, <3>1 DEF TypesInv, Leads
    <3>2. CASE i \in IdsOf(q)
      <4>1. PICK n \in 1..Len(q) : i = q[n].id
        BY <1>1, <3>2 DEF IdsOf
      <4>2. QED
        BY <1>1, <1>2, <1>4, <4>1
    <3>3. QED
      BY <1>1, <2>1, <3>1, <3>2
  <2>2. QED
    BY <2>1 DEF Leads
<1>6. QED
  BY <1>3, <1>5 DEF TypesInv, Takes, Readable, Leads

\* The readers' steps.
LEMMA SearchingTypes ==
  ASSUME BorrowInv, TypesInv, NEW r \in Readers, Searching(r)
  PROVE  TypesInv'
<1>1. /\ UNCHANGED <<index, str_to_u64, next_u64, call, tvim, store_file>>
      /\ reading = [q \in Readers |-> reading[q]]
  BY DEF Searching, Ask, Answer, EnterSearch, SearchReturns, tables, files, BorrowInv
<1>2. \E a : reading' = [reading EXCEPT ![r] = a] /\ a.stage \in Stages
  <2>1. CASE Answer(r) \/ EnterSearch(r) \/ \E allow : Ask(r, allow)
    BY <2>1 DEF Answer, EnterSearch, Ask, Resting, Stages
  <2>2. CASE SearchReturns(r)
    <3>1. PICK a \in IF Found(reading[r]) = {} THEN {Resting} ELSE Found(reading[r]) :
            reading' = [reading EXCEPT ![r] = a]
      BY <2>2 DEF SearchReturns
    <3>2. a = Resting \/ a \in Found(reading[r])
      BY <3>1
    <3>3. a.stage \in Stages
      BY <3>2 DEF Found, Resting, Stages
    <3>4. QED
      BY <3>1, <3>3
  <2>3. QED
    BY <2>1, <2>2 DEF Searching
<1>3. \A q \in Readers : reading'[q].stage \in Stages
  BY <1>1, <1>2 DEF TypesInv
<1>4. QED
  BY <1>1, <1>3 DEF TypesInv, Takes, Leads, Readable

LEMMA TypesStep ==
  ASSUME StoresInv, BorrowInv, TypesInv, [Next]_vars
  PROVE  TypesInv'
<1>1. CASE /\ UNCHANGED <<index, str_to_u64, next_u64, reading, tvim, store_file>>
           /\ call' = call \/ Writes(call')
  BY <1>1 DEF TypesInv, Takes, Leads, Readable
<1>2. CASE UNCHANGED vars
  BY <1>1, <1>2 DEF vars, bindingVars, tables, files
<1>3. ASSUME NEW ids, Delete(ids) \/ \E m : Update(ids, m)
      PROVE  TypesInv'
  BY <1>1, <1>3 DEF Delete, Update, bindingVars, tables, files, Writes
<1>4. CASE Deleted
  BY <1>1, <1>4 DEF Deleted, bindingVars, tables, files, Writes, Free
<1>5. DOMAIN EmptyFn = {}
  BY DEF EmptyFn
<1>6. CASE Clear
  <2>1. /\ index' = EmptyFn /\ str_to_u64' = EmptyFn /\ next_u64' = 0 /\ call = Free
        /\ UNCHANGED <<reading, call, tvim, store_file>>
    BY <1>6 DEF Clear, Empty, Replace, files
  <2>2. QED
    BY <1>5, <2>1, BindingsConstantsOK DEF TypesInv, Takes, Leads, Readable, Writes, Free
<1>7. CASE Restart
  <2>1. /\ index' = EmptyFn /\ str_to_u64' = EmptyFn /\ next_u64' = 0 /\ call' = Free
        /\ UNCHANGED <<tvim, store_file>> /\ \A r \in Readers : reading'[r] = Resting
    BY <1>7 DEF Restart, Empty, Replace, files
  <2>2. QED
    BY <1>5, <2>1, BindingsConstantsOK
       DEF TypesInv, Takes, Leads, Readable, Writes, Free, Resting, Stages
<1>8. CASE Save \/ SaveStops
  <2>1. /\ UNCHANGED <<index, str_to_u64, next_u64, reading, call>>
        /\ tvim' \in {tvim, Torn, IndexImage} /\ store_file' \in {store_file, Torn, StoreImage}
    BY <1>8 DEF Save, SaveStops, bindingVars, tables
  <2>2. /\ IndexImage.index = index /\ StoreImage.str_to_u64 = str_to_u64
        /\ StoreImage.next_u64 = next_u64
    BY DEF IndexImage, StoreImage
  <2>3. Readable(tvim') => Takes(tvim'.index)
    BY <2>1, <2>2 DEF TypesInv, Readable
  <2>4. Readable(store_file') => Leads(store_file'.str_to_u64) /\ store_file'.next_u64 <= MaxHandle
    BY <2>1, <2>2 DEF TypesInv, Readable
  <2>5. QED
    BY <2>1, <2>3, <2>4 DEF TypesInv, Takes, Leads, Readable
<1>9. CASE Load
  <2>1. /\ Readable(tvim) /\ Readable(store_file) /\ call = Free /\ index' = tvim.index
        /\ str_to_u64' = store_file.str_to_u64 /\ next_u64' = store_file.next_u64
        /\ UNCHANGED <<reading, call, tvim, store_file>>
    BY <1>9 DEF Load, Replace, files, Readable
  <2>2. QED
    BY <2>1 DEF TypesInv, Readable, Writes, Free, Takes, Leads
<1>10. CASE Changing
  BY <1>3, <1>4, <1>6, <1>10, WriteTypes, AddedTypes, FillTypes, RemoveOneTypes DEF Changing
<1>11. QED
  BY <1>2, <1>7, <1>8, <1>9, <1>10, SearchingTypes DEF Next

\* Every vector in the index is one that add takes, every table leads where it
\* should, handles stay in their range and a call never has to remove a document
\* that is not there: in the stores of langchain.py, llama_index.py and
\* haystack.py, over every use of their files.
THEOREM StoresTypeCorrect == Spec => []TypeOK
<1>1. Init => BorrowInv
  BY DEF Init, BindingsInit, BorrowInv, SharedBy, Resting
<1>2. Init => TypesInv
  <2> SUFFICES ASSUME Init PROVE TypesInv
    OBVIOUS
  <2>1. /\ DOMAIN index = {} /\ DOMAIN str_to_u64 = {} /\ next_u64 = 0 /\ Writes(call)
        /\ ~Readable(tvim) /\ ~Readable(store_file) /\ \A r \in Readers : reading[r] = Resting
    BY DEF Init, BindingsInit, EmptyFn, Writes, Free, Readable
  <2>2. QED
    BY <2>1, BindingsConstantsOK DEF TypesInv, Takes, Leads, Resting, Stages
<1>3. ASSUME StoresInv, TypesInv
      PROVE  TypeOK
  <2>1. DOMAIN docs = DOMAIN str_to_u64 /\ next_u64 \in 0..MaxHandle
    BY <1>3, BindingsConstantsOK DEF StoresInv, TableInv, TypesInv
  <2>2. DOMAIN u64_to_str \subseteq Handles
    BY <1>3 DEF StoresInv, TableInv, TypesInv, Leads
  <2>3. call # Free => call.stage \in {"add", "remove"} /\ call.todo \subseteq DOMAIN docs
    BY <1>3 DEF StoresInv, CallInv, RemovalInv, TypesInv, Writes
  <2>4. QED
    BY <1>3, <2>1, <2>2, <2>3 DEF TypeOK, TypesInv, Takes, Leads, Stages
<1>4. QED
  BY <1>1, <1>2, <1>3, StoresStart, StoresStep, BorrowStep, TypesStep, PTL DEF Spec

=============================================================================
