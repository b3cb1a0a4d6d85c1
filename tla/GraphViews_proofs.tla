-------------------------- MODULE GraphViews_proofs --------------------------
(***************************************************************************)
(* What the expansions of GraphViews return, for every graph and key.      *)
(***************************************************************************)
EXTENDS GraphViews, SlotsTheorems

-----------------------------------------------------------------------------
\* Breadth-first expansion.

Successors(edges, ids) == {e[2] : e \in {e \in DOMAIN edges : e[1] \in ids}}

\* Each hop adds the successors of what was reached so far.
LEMMA ReachSteps ==
  ASSUME NEW edges, NEW slot_of, NEW seeds
  PROVE  /\ Reach(edges, slot_of, seeds, 0) = seeds \cap DOMAIN slot_of
         /\ \A n \in Nat :
              Reach(edges, slot_of, seeds, n + 1)
                = Reach(edges, slot_of, seeds, n)
                    \cup Successors(edges, Reach(edges, slot_of, seeds, n))
<1> DEFINE within[n \in Nat] ==
             IF n = 0 THEN seeds \cap DOMAIN slot_of
             ELSE LET near == within[n - 1]
                  IN  near \cup {e[2] : e \in {e \in DOMAIN edges : e[1] \in near}}
<1> DEFINE X == SUBSET ((seeds \cap DOMAIN slot_of) \cup {e[2] : e \in DOMAIN edges})
           step == [near \in X |-> near \cup {e[2] : e \in {e \in DOMAIN edges : e[1] \in near}}]
           start == seeds \cap DOMAIN slot_of
<1>1. step \in [X -> X] /\ start \in X
  OBVIOUS
<1>2. PICK f \in [Nat -> X] : f = [n \in Nat |-> IF n = 0 THEN start ELSE step[f[n - 1]]]
  <2> HIDE DEF X, step, start
  <2>1. QED
    BY <1>1, RecursiveEquation
<1>3. f = [n \in Nat |-> IF n = 0 THEN seeds \cap DOMAIN slot_of
             ELSE LET near == f[n - 1]
                  IN  near \cup {e[2] : e \in {e \in DOMAIN edges : e[1] \in near}}]
  <2>1. ASSUME NEW n \in Nat, n # 0
        PROVE  step[f[n - 1]] = f[n - 1] \cup {e[2] : e \in {e \in DOMAIN edges : e[1] \in f[n - 1]}}
    <3>1. n - 1 \in Nat
      BY <2>1
    <3>2. f[n - 1] \in X
      <4> HIDE DEF X
      <4>1. QED
        BY <1>2, <3>1
    <3>3. QED
      BY <3>2
  <2> HIDE DEF step, X
  <2>2. QED
    BY <1>2, <2>1
<1>4. within = [n \in Nat |-> IF n = 0 THEN seeds \cap DOMAIN slot_of
             ELSE LET near == within[n - 1]
                  IN  near \cup {e[2] : e \in {e \in DOMAIN edges : e[1] \in near}}]
  BY <1>3, Zenon
<1>5. \A n : Reach(edges, slot_of, seeds, n) = within[n]
  BY Zenon DEF Reach
<1> HIDE DEF within
<1>6. /\ within[0] = seeds \cap DOMAIN slot_of
      /\ within = [n \in Nat |-> IF n = 0 THEN seeds \cap DOMAIN slot_of
                               ELSE within[n - 1] \cup Successors(edges, within[n - 1])]
  BY <1>4 DEF Successors
<1>7. \A m \in Nat : m # 0 => within[m] = within[m - 1] \cup Successors(edges, within[m - 1])
  BY <1>6
<1>8. ASSUME NEW n \in Nat, NEW m \in Nat, m = n + 1
      PROVE  within[m] = within[n] \cup Successors(edges, within[n])
  <2>1. m # 0 /\ m - 1 = n
    BY <1>8
  <2>2. within[m] = within[m - 1] \cup Successors(edges, within[m - 1])
    BY <1>7, <2>1
  <2>3. QED
    BY <2>1, <2>2
<1>9. ASSUME NEW n \in Nat
      PROVE  Reach(edges, slot_of, seeds, n + 1)
               = Reach(edges, slot_of, seeds, n)
                   \cup Successors(edges, Reach(edges, slot_of, seeds, n))
  <2>1. PICK m \in Nat : m = n + 1
    OBVIOUS
  <2>2. within[m] = within[n] \cup Successors(edges, within[n])
    BY <1>8, <2>1
  <2>3. Reach(edges, slot_of, seeds, m) = within[m] /\ Reach(edges, slot_of, seeds, n) = within[n]
    BY <1>5
  <2>4. QED
    BY <2>1, <2>2, <2>3
<1>10. QED
  BY <1>5, <1>6, <1>9

\* A walk of n edges from a seed to i.
Walks(edges, slot_of, seeds, n, i) ==
  {p \in [0..n -> DOMAIN slot_of] :
     /\ p[0] \in seeds /\ p[n] = i
     /\ \A j \in 0..(n - 1) : <<p[j], p[j + 1]>> \in DOMAIN edges}

\* A walk goes on over an edge.
LEMMA WalkExtends ==
  ASSUME NEW edges, NEW slot_of, NEW seeds, NEW n \in Nat, NEW h, NEW i \in DOMAIN slot_of,
         NEW p \in Walks(edges, slot_of, seeds, n, h), <<h, i>> \in DOMAIN edges
  PROVE  \E q : q \in Walks(edges, slot_of, seeds, n + 1, i)
<1> DEFINE q == [j \in 0..(n + 1) |-> IF j = n + 1 THEN i ELSE p[j]]
<1>1. /\ p \in [0..n -> DOMAIN slot_of] /\ p[0] \in seeds /\ p[n] = h
      /\ \A j \in 0..(n - 1) : <<p[j], p[j + 1]>> \in DOMAIN edges
  BY DEF Walks
<1>2. q \in [0..(n + 1) -> DOMAIN slot_of]
  BY <1>1
<1>3. q[0] \in seeds /\ q[n + 1] = i
  BY <1>1
<1>4. ASSUME NEW j \in 0..(n + 1 - 1)
      PROVE  <<q[j], q[j + 1]>> \in DOMAIN edges
  <2>1. j \in 0..n /\ j \in 0..(n + 1) /\ j + 1 \in 0..(n + 1) /\ j # n + 1 /\ q[j] = p[j]
    OBVIOUS
  <2>2. CASE j = n
    BY <2>1, <2>2, <1>1
  <2>3. CASE j # n
    <3>1. j \in 0..(n - 1) /\ j + 1 # n + 1 /\ q[j + 1] = p[j + 1]
      BY <2>1, <2>3
    <3>2. QED
      BY <2>1, <3>1, <1>1
  <2>4. QED
    BY <2>2, <2>3
<1> HIDE DEF q
<1>5. q \in Walks(edges, slot_of, seeds, n + 1, i)
  BY <1>2, <1>3, <1>4 DEF Walks
<1>6. QED
  BY <1>5

\* What a walk passes last.
LEMMA WalkShrinks ==
  ASSUME NEW edges, NEW slot_of, NEW seeds, NEW n \in Nat, NEW i,
         NEW p \in Walks(edges, slot_of, seeds, n + 1, i)
  PROVE  \E h \in DOMAIN slot_of : /\ <<h, i>> \in DOMAIN edges
                                 /\ \E q : q \in Walks(edges, slot_of, seeds, n, h)
<1> DEFINE q == [j \in 0..n |-> p[j]]
<1>1. /\ p \in [0..(n + 1) -> DOMAIN slot_of] /\ p[0] \in seeds /\ p[n + 1] = i
      /\ \A j \in 0..(n + 1 - 1) : <<p[j], p[j + 1]>> \in DOMAIN edges
  BY DEF Walks
<1>2. q \in [0..n -> DOMAIN slot_of] /\ q[0] \in seeds /\ q[n] = p[n] /\ p[n] \in DOMAIN slot_of
  BY <1>1
<1>3. \A j \in 0..(n - 1) : <<q[j], q[j + 1]>> \in DOMAIN edges
  <2>1. ASSUME NEW j \in 0..(n - 1)
        PROVE  <<q[j], q[j + 1]>> \in DOMAIN edges
    <3>1. j \in 0..n /\ j + 1 \in 0..n /\ j \in 0..(n + 1 - 1)
      OBVIOUS
    <3>2. q[j] = p[j] /\ q[j + 1] = p[j + 1]
      BY <3>1
    <3>3. QED
      BY <1>1, <3>1, <3>2
  <2>2. QED
    BY <2>1
<1> HIDE DEF q
<1>4. q \in Walks(edges, slot_of, seeds, n, p[n])
  BY <1>2, <1>3 DEF Walks
<1>5. <<p[n], i>> \in DOMAIN edges
  <2>1. n \in 0..(n + 1 - 1)
    OBVIOUS
  <2>2. QED
    BY <1>1, <2>1
<1>6. QED
  BY <1>2, <1>4, <1>5

\* When edges join live ids, what is within n hops is what walks of up to n
\* edges reach.
THEOREM ReachIsWalked ==
  ASSUME NEW edges, NEW slot_of, NEW seeds,
         DOMAIN edges \subseteq (DOMAIN slot_of) \X (DOMAIN slot_of), NEW n \in Nat
  PROVE  Reach(edges, slot_of, seeds, n)
           = {i \in DOMAIN slot_of :
                \E m \in 0..n : \E p : p \in Walks(edges, slot_of, seeds, m, i)}
<1> DEFINE V == DOMAIN slot_of
           R(k) == Reach(edges, slot_of, seeds, k)
           W(k, i) == \E p : p \in Walks(edges, slot_of, seeds, k, i)
           E(k) == {i \in V : \E m \in 0..k : W(m, i)}
           good == {k \in Nat : R(k) = E(k)}
<1>1. R(0) = seeds \cap V /\ \A k \in Nat : R(k + 1) = R(k) \cup Successors(edges, R(k))
  BY ReachSteps
<1>2. R(0) = E(0)
  <2>1. ASSUME NEW i \in seeds \cap V
        PROVE  W(0, i)
    <3>1. [j \in 0..0 |-> i] \in Walks(edges, slot_of, seeds, 0, i)
      BY DEF Walks
    <3>2. QED
      BY <3>1
  <2>2. ASSUME NEW i \in V, W(0, i)
        PROVE  i \in seeds
    BY <2>2 DEF Walks
  <2> HIDE DEF W, V, R
  <2>3. QED
    BY <1>1, <2>1, <2>2
<1>3. ASSUME NEW k \in Nat, R(k) = E(k)
      PROVE  R(k + 1) = E(k + 1)
  <2>1. ASSUME NEW i \in E(k)
        PROVE  i \in E(k + 1)
    <3> HIDE DEF W
    <3>1. QED
      BY <2>1
  <2>2. ASSUME NEW i \in Successors(edges, R(k))
        PROVE  i \in E(k + 1)
    <3>1. PICK e \in DOMAIN edges : e[1] \in R(k) /\ i = e[2]
      BY DEF Successors
    <3>2. e[1] \in E(k) /\ e \in V \X V
      <4>1. DOMAIN edges \subseteq V \X V
        OBVIOUS
      <4> HIDE DEF R, E, V
      <4>2. QED
        BY <1>3, <3>1, <4>1
    <3>3. e = <<e[1], e[2]>> /\ i \in V
      <4> HIDE DEF V
      <4>1. QED
        BY <3>1, <3>2
    <3>4. PICK m \in 0..k : W(m, e[1])
      BY <3>2
    <3>5. W(m + 1, i)
      <4>1. m \in Nat /\ <<e[1], i>> \in DOMAIN edges
        BY <3>1, <3>3
      <4>2. PICK q : q \in Walks(edges, slot_of, seeds, m, e[1])
        BY <3>4
      <4>3. QED
        BY <3>3, <4>1, <4>2, WalkExtends
    <3>6. m + 1 \in 0..(k + 1)
      OBVIOUS
    <3> HIDE DEF W
    <3>7. QED
      BY <3>3, <3>5, <3>6
  <2>3. ASSUME NEW i \in E(k + 1)
        PROVE  i \in R(k) \cup Successors(edges, R(k))
    <3>1. i \in V
      OBVIOUS
    <3>2. PICK m \in 0..(k + 1) : W(m, i)
      OBVIOUS
    <3>3. CASE m \in 0..k
      <4> HIDE DEF W
      <4>1. i \in E(k)
        BY <3>1, <3>2, <3>3
      <4>2. QED
        BY <1>3, <4>1
    <3>4. CASE m = k + 1
      <4>1. PICK h \in V : <<h, i>> \in DOMAIN edges /\ W(k, h)
        BY <3>2, <3>4, WalkShrinks
      <4>2. k \in 0..k
        OBVIOUS
      <4> HIDE DEF W
      <4>3. h \in R(k)
        BY <1>3, <4>1, <4>2
      <4> HIDE DEF R
      <4>4. QED
        BY <4>1, <4>3 DEF Successors
    <3>5. QED
      BY <3>3, <3>4
  <2> HIDE DEF R, E
  <2>4. QED
    BY <1>1, <1>3, <2>1, <2>2, <2>3
<1>4. good = Nat
  <2>1. 0 \in good /\ \A k \in good : k + 1 \in good
    <3> HIDE DEF R, E
    <3>1. QED
      BY <1>2, <1>3
  <2>2. good \in SUBSET Nat
    OBVIOUS
  <2> HIDE DEF good
  <2>3. QED
    BY <2>1, <2>2, NatSetInduction
<1>5. n \in good
  BY <1>4
<1>6. QED
  BY <1>5

-----------------------------------------------------------------------------
\* Budgeted expansion.

\* Edges join live ids, and weights are finite or refused.
IsGraph(edges, slot_of) ==
  /\ DOMAIN slot_of \subseteq Nat
  /\ DOMAIN edges \subseteq (DOMAIN slot_of) \X (DOMAIN slot_of)
  /\ IsFiniteSet(DOMAIN edges)
  /\ \A e \in DOMAIN edges : edges[e] # BadWeight => edges[e] \in Int

Items(ids) == [id : ids, depth : Nat, parent : ids \cup {NoParent}, weight : Nat]

States(slot_of) == [heap : SUBSET Items(DOMAIN slot_of), visits : Seq(Items(DOMAIN slot_of))]

\* Among queued items there is one to pop.
LEMMA BestItem ==
  ASSUME NEW ids \in SUBSET Nat, NEW heap \in SUBSET Items(ids), heap # {}
  PROVE  \E i \in heap : \A j \in heap : PopsBefore(i, j)
<1>1. \A i \in heap : i.weight \in Nat /\ i.depth \in Nat /\ i.id \in Nat
  BY DEF Items
<1> DEFINE strong(w) == {i \in heap : i.weight = w}
           near(w, d) == {i \in heap : i.weight = w /\ i.depth = d}
<1>2. PICK w \in {i.weight : i \in heap} : \A x \in {i.weight : i \in heap} : w <= x
  <2>1. {i.weight : i \in heap} \in SUBSET Nat /\ {i.weight : i \in heap} # {}
    BY <1>1
  <2>2. QED
    BY <2>1, LeastNumber
<1>3. PICK d \in {i.depth : i \in strong(w)} : \A x \in {i.depth : i \in strong(w)} : d <= x
  <2>1. {i.depth : i \in strong(w)} \in SUBSET Nat /\ {i.depth : i \in strong(w)} # {}
    BY <1>1, <1>2
  <2>2. QED
    BY <2>1, LeastNumber
<1>4. PICK n \in {i.id : i \in near(w, d)} : \A x \in {i.id : i \in near(w, d)} : n <= x
  <2>1. {i.id : i \in near(w, d)} \in SUBSET Nat /\ {i.id : i \in near(w, d)} # {}
    BY <1>1, <1>3
  <2>2. QED
    BY <2>1, LeastNumber
<1>5. PICK i \in heap : i.weight = w /\ i.depth = d /\ i.id = n
  BY <1>4
<1>6. ASSUME NEW j \in heap
      PROVE  PopsBefore(i, j)
  <2>1. w <= j.weight
    BY <1>2
  <2>2. j.weight = w => d <= j.depth
    BY <1>3
  <2>3. j.weight = w /\ j.depth = d => n <= j.id
    BY <1>4
  <2>4. QED
    BY <1>1, <1>5, <2>1, <2>2, <2>3 DEF PopsBefore
<1>7. QED
  BY <1>6

\* The state after an item was popped.
Popped(edges, slot_of, key, st, item) ==
  IF Admits(slot_of, key, st.visits, item)
  THEN [heap |-> (st.heap \ {item}) \cup Offers(edges, key, st.visits, item),
        visits |-> Append(st.visits, item)]
  ELSE [heap |-> st.heap \ {item}, visits |-> st.visits]

\* A turn pops an item that no other comes before.
LEMMA TurnPops ==
  ASSUME NEW edges, NEW slot_of, NEW key, IsGraph(edges, slot_of),
         NEW st \in States(slot_of), st.heap # {}
  PROVE  \E item \in st.heap : /\ \A j \in st.heap : PopsBefore(item, j)
                              /\ Turn(edges, slot_of, key, st)
                                   = Popped(edges, slot_of, key, st, item)
<1> DEFINE item == CHOOSE i \in st.heap : \A j \in st.heap : PopsBefore(i, j)
<1>1. \E i \in st.heap : \A j \in st.heap : PopsBefore(i, j)
  <2>1. DOMAIN slot_of \in SUBSET Nat /\ st.heap \in SUBSET Items(DOMAIN slot_of)
    BY DEF IsGraph, States
  <2>2. QED
    BY <2>1, BestItem
<1>2. item \in st.heap /\ \A j \in st.heap : PopsBefore(item, j)
  BY <1>1, Zenon
<1>3. Turn(edges, slot_of, key, st)
        = IF Admits(slot_of, key, st.visits, item)
          THEN [heap |-> (st.heap \ {item}) \cup Offers(edges, key, st.visits, item),
                visits |-> Append(st.visits, item)]
          ELSE [st EXCEPT !.heap = st.heap \ {item}]
  BY Zenon DEF Turn
<1> HIDE DEF item
<1>4. [st EXCEPT !.heap = st.heap \ {item}] = [heap |-> st.heap \ {item}, visits |-> st.visits]
  <2> DEFINE H == SUBSET Items(DOMAIN slot_of)
             W == Seq(Items(DOMAIN slot_of))
  <2>1. st \in [heap : H, visits : W]
    BY DEF States
  <2> HIDE DEF H, W
  <2>2. QED
    BY <2>1
<1>5. Turn(edges, slot_of, key, st) = Popped(edges, slot_of, key, st, item)
  BY <1>3, <1>4 DEF Popped
<1>6. QED
  BY <1>2, <1>5

\* What a visited item offers lies across a usable edge of its own.
LEMMA OfferIs ==
  ASSUME NEW edges, NEW slot_of, NEW key, IsGraph(edges, slot_of), IsPolicyKey(key),
         NEW visits, NEW item \in Items(DOMAIN slot_of), NEW o \in Offers(edges, key, visits, item)
  PROVE  /\ o \in Items(DOMAIN slot_of)
         /\ item.depth # key.max_hops /\ o.weight <= key.min_weight
         /\ o.id \notin VisitedIds(visits) /\ o.id # item.id
         /\ \E e \in DOMAIN edges :
              /\ e = <<item.id, o.id>> /\ edges[e] # BadWeight
              /\ o = [id |-> e[2], depth |-> item.depth + 1, parent |-> item.id,
                      weight |-> item.weight + Normalize(edges[e])]
         /\ o.depth = item.depth + 1 /\ o.parent = item.id /\ item.weight <= o.weight
<1>1. PICK e \in DOMAIN edges :
        /\ e[1] = item.id /\ edges[e] # BadWeight
        /\ o = [id |-> e[2], depth |-> item.depth + 1, parent |-> item.id,
                weight |-> item.weight + Normalize(edges[e])]
        /\ item.depth # key.max_hops /\ o.weight <= key.min_weight
        /\ o.id \notin VisitedIds(visits) /\ o.id # item.id
  BY DEF Offers
<1>2. /\ e = <<e[1], e[2]>> /\ e[2] \in DOMAIN slot_of
  BY DEF IsGraph
<1>3. edges[e] \in Int
  BY <1>1 DEF IsGraph
<1>4. Normalize(edges[e]) \in Nat
  BY <1>3 DEF Normalize
<1>5. item.weight \in Nat /\ item.depth \in Nat /\ item.id \in DOMAIN slot_of
  BY DEF Items
<1>6. o \in Items(DOMAIN slot_of) /\ item.weight <= o.weight /\ o.depth = item.depth + 1
      /\ o.parent = item.id /\ o.id = e[2]
  BY <1>1, <1>2, <1>4, <1>5 DEF Items
<1>7. QED
  BY <1>1, <1>2, <1>6

\* Popping keeps the types.
LEMMA PoppedType ==
  ASSUME NEW edges, NEW slot_of, NEW key, IsGraph(edges, slot_of), IsPolicyKey(key),
         NEW st \in States(slot_of), NEW item \in st.heap
  PROVE  Popped(edges, slot_of, key, st, item) \in States(slot_of)
<1>1. st.heap \in SUBSET Items(DOMAIN slot_of) /\ st.visits \in Seq(Items(DOMAIN slot_of))
      /\ item \in Items(DOMAIN slot_of)
  BY DEF States
<1>2. Offers(edges, key, st.visits, item) \in SUBSET Items(DOMAIN slot_of)
  BY <1>1, OfferIs
<1>3. Append(st.visits, item) \in Seq(Items(DOMAIN slot_of))
  BY <1>1
<1>4. QED
  BY <1>1, <1>2, <1>3 DEF Popped, States

\* What turns are left to do: queued items, and edges not offered yet.
UnusedEdges(edges, visits) == {e \in DOMAIN edges : e[1] \notin VisitedIds(visits)}
Left(edges, st) == Cardinality(st.heap) + Cardinality(UnusedEdges(edges, st.visits))

\* A visit adds its id to those visited.
LEMMA VisitAdds ==
  ASSUME NEW S, NEW visits \in Seq(S), NEW item \in S
  PROVE  /\ VisitedIds(Append(visits, item)) = VisitedIds(visits) \cup {item.id}
         /\ Len(Append(visits, item)) = Len(visits) + 1
         /\ \A n \in 1..Len(visits) : Append(visits, item)[n] = visits[n]
         /\ Append(visits, item)[Len(visits) + 1] = item
<1> DEFINE longer == Append(visits, item)
<1>1. /\ Len(longer) = Len(visits) + 1 /\ Len(visits) \in Nat
      /\ \A n \in 1..Len(visits) : longer[n] = visits[n]
      /\ longer[Len(visits) + 1] = item
  OBVIOUS
<1> HIDE DEF longer
<1>2. ASSUME NEW i \in VisitedIds(longer)
      PROVE  i \in VisitedIds(visits) \cup {item.id}
  <2>1. PICK n \in 1..(Len(visits) + 1) : i = longer[n].id
    BY <1>1 DEF VisitedIds
  <2>2. CASE n = Len(visits) + 1
    BY <1>1, <2>1, <2>2
  <2>3. CASE n # Len(visits) + 1
    <3>1. n \in 1..Len(visits)
      BY <1>1, <2>3
    <3>2. QED
      BY <1>1, <2>1, <3>1 DEF VisitedIds
  <2>4. QED
    BY <2>2, <2>3
<1>3. ASSUME NEW i \in VisitedIds(visits)
      PROVE  i \in VisitedIds(longer)
  <2>1. PICK n \in 1..Len(visits) : i = visits[n].id
    BY DEF VisitedIds
  <2>2. n \in 1..Len(longer) /\ i = longer[n].id
    BY <1>1, <2>1
  <2>3. QED
    BY <2>2 DEF VisitedIds
<1>4. item.id \in VisitedIds(longer)
  <2>1. Len(visits) + 1 \in 1..Len(longer) /\ longer[Len(visits) + 1].id = item.id
    BY <1>1
  <2>2. QED
    BY <2>1 DEF VisitedIds
<1>5. QED
  BY <1>1, <1>2, <1>3, <1>4 DEF longer

\* Every turn leaves less to do.
LEMMA TurnsRunOut ==
  ASSUME NEW edges, NEW slot_of, NEW key, IsGraph(edges, slot_of), IsPolicyKey(key),
         NEW st \in States(slot_of), IsFiniteSet(st.heap), NEW item \in st.heap
  PROVE  LET next == Popped(edges, slot_of, key, st, item)
         IN  /\ IsFiniteSet(next.heap)
             /\ Left(edges, st) \in Nat /\ Left(edges, next) \in Nat
             /\ Left(edges, next) + 1 <= Left(edges, st)
<1> DEFINE unused == UnusedEdges(edges, st.visits)
           rest == st.heap \ {item}
           offers == Offers(edges, key, st.visits, item)
           own == {e \in DOMAIN edges : e[1] = item.id}
           next == Popped(edges, slot_of, key, st, item)
<1>1. IsFiniteSet(unused) /\ Cardinality(unused) \in Nat
  <2>1. unused \in SUBSET DOMAIN edges /\ IsFiniteSet(DOMAIN edges)
    BY DEF UnusedEdges, IsGraph
  <2>2. IsFiniteSet(unused)
    BY <2>1, FS_Subset
  <2>3. QED
    BY <2>2, FS_CardinalityType
<1>2. /\ IsFiniteSet(rest) /\ Cardinality(rest) = Cardinality(st.heap) - 1
      /\ Cardinality(st.heap) \in Nat /\ Cardinality(rest) \in Nat
  BY FS_RemoveElement, FS_CardinalityType
<1>3. CASE ~Admits(slot_of, key, st.visits, item)
  <2>1. next.heap = rest /\ next.visits = st.visits
    BY <1>3 DEF Popped
  <2> HIDE DEF next, rest
  <2>2. Left(edges, next) = Cardinality(rest) + Cardinality(unused)
    BY <2>1 DEF Left
  <2>3. QED
    BY <1>1, <1>2, <2>1, <2>2 DEF Left, next
<1>4. CASE Admits(slot_of, key, st.visits, item)
  <2>1. next.heap = rest \cup offers /\ next.visits = Append(st.visits, item)
    BY <1>4 DEF Popped
  <2>2. item \in Items(DOMAIN slot_of) /\ st.visits \in Seq(Items(DOMAIN slot_of))
    BY DEF States
  <2>3. own \in SUBSET unused
    BY <1>4 DEF Admits, UnusedEdges
  <2>4. UnusedEdges(edges, next.visits) = unused \ own
    <3>1. VisitedIds(next.visits) = VisitedIds(st.visits) \cup {item.id}
      BY <2>1, <2>2, VisitAdds
    <3>2. QED
      BY <3>1 DEF UnusedEdges
  <2> HIDE DEF unused, own
  <2>5. /\ IsFiniteSet(unused \ own) /\ IsFiniteSet(own)
        /\ Cardinality(own) \in Nat /\ Cardinality(unused \ own) \in Nat
        /\ Cardinality(unused \ own) = Cardinality(unused) - Cardinality(own)
    BY <1>1, <2>3, DifferenceIsRest
  <2>6. IsFiniteSet(offers) /\ Cardinality(offers) <= Cardinality(own) /\ Cardinality(offers) \in Nat
    <3> DEFINE offer == [e \in own |-> [id |-> e[2], depth |-> item.depth + 1, parent |-> item.id,
                                        weight |-> item.weight + Normalize(edges[e])]]
               all == {offer[e] : e \in own}
    <3>1. \A o \in offers : o \in all
      <4>1. ASSUME NEW o \in offers
            PROVE  o \in all
        <5>1. PICK e \in DOMAIN edges :
                /\ e = <<item.id, o.id>>
                /\ o = [id |-> e[2], depth |-> item.depth + 1, parent |-> item.id,
                        weight |-> item.weight + Normalize(edges[e])]
          BY <2>2, OfferIs
        <5>2. e \in own
          BY <5>1 DEF own
        <5>3. QED
          BY <5>1, <5>2
      <4>2. QED
        BY <4>1
    <3>2. IsFiniteSet(all) /\ Cardinality(all) <= Cardinality(own)
      <4>1. DOMAIN offer = own /\ offer = [e \in own |-> offer[e]]
        OBVIOUS
      <4> HIDE DEF offer
      <4>2. QED
        BY <2>5, <4>1, ImageIsSmaller
    <3> HIDE DEF all, offers
    <3>3. offers \in SUBSET all
      BY <3>1
    <3>4. IsFiniteSet(offers) /\ Cardinality(offers) <= Cardinality(all)
      BY <3>2, <3>3, FS_Subset
    <3>5. Cardinality(offers) \in Nat /\ Cardinality(all) \in Nat
      BY <3>2, <3>4, FS_CardinalityType
    <3>6. QED
      BY <2>5, <3>2, <3>4, <3>5
  <2> HIDE DEF offers, rest
  <2>7. /\ IsFiniteSet(rest \cup offers) /\ Cardinality(rest \cup offers) \in Nat
        /\ Cardinality(rest \cup offers) <= Cardinality(rest) + Cardinality(offers)
    <3>1. /\ IsFiniteSet(rest \cup offers)
          /\ Cardinality(rest \cup offers)
               = Cardinality(rest) + Cardinality(offers) - Cardinality(rest \cap offers)
      BY <1>2, <2>6, FS_Union
    <3>2. Cardinality(rest \cap offers) \in Nat
      BY <1>2, FS_Intersection, FS_CardinalityType
    <3>3. Cardinality(rest \cup offers) \in Nat
      BY <3>1, FS_CardinalityType
    <3>4. QED
      BY <1>2, <2>6, <3>1, <3>2, <3>3
  <2> HIDE DEF next
  <2>8. Left(edges, next) = Cardinality(rest \cup offers) + Cardinality(unused \ own)
    BY <2>1, <2>4 DEF Left
  <2>9. Left(edges, st) = Cardinality(st.heap) + Cardinality(unused)
    BY DEF Left, unused
  <2>10. QED
    BY <1>1, <1>2, <2>1, <2>5, <2>6, <2>7, <2>8, <2>9 DEF next
<1>5. QED
  BY <1>3, <1>4

\* The queue holds the live seeds.
LEMMA SeedsAre ==
  ASSUME NEW slot_of, NEW key, IsPolicyKey(key)
  PROVE  LET start == [heap |-> Seeded(slot_of, key), visits |-> << >>]
         IN  /\ start \in States(slot_of) /\ IsFiniteSet(start.heap)
             /\ Cardinality(start.heap) <= Cardinality(key.seeds) /\ Cardinality(key.seeds) \in Nat
<1> DEFINE seed == [s \in key.seeds |-> [id |-> s, depth |-> 0, parent |-> NoParent, weight |-> 0]]
           all == {seed[s] : s \in key.seeds}
           heap == Seeded(slot_of, key)
<1>1. IsFiniteSet(key.seeds) /\ Cardinality(key.seeds) \in Nat
  BY FS_CardinalityType DEF IsPolicyKey
<1>2. IsFiniteSet(all) /\ Cardinality(all) <= Cardinality(key.seeds)
  <2>1. DOMAIN seed = key.seeds /\ seed = [s \in key.seeds |-> seed[s]]
    OBVIOUS
  <2> HIDE DEF seed
  <2>2. QED
    BY <1>1, <2>1, ImageIsSmaller
<1>3. \A h \in heap : h \in all /\ h \in Items(DOMAIN slot_of)
  BY DEF Seeded, Items
<1> HIDE DEF all, heap
<1>4. IsFiniteSet(heap) /\ Cardinality(heap) <= Cardinality(all)
  BY <1>2, <1>3, FS_Subset
<1>5. Cardinality(heap) \in Nat /\ Cardinality(all) \in Nat
  BY <1>2, <1>4, FS_CardinalityType
<1>6. [heap |-> heap, visits |-> << >>] \in States(slot_of)
  BY <1>3 DEF States
<1>7. QED
  BY <1>1, <1>2, <1>4, <1>5, <1>6 DEF heap

Step(edges, slot_of, key, st) ==
  IF Finished(key, st) THEN st ELSE Turn(edges, slot_of, key, st)

AreTurns(t, edges, slot_of, key) ==
  /\ t[0] = [heap |-> Seeded(slot_of, key), visits |-> << >>]
  /\ \A n \in Nat : t[n + 1] = Step(edges, slot_of, key, t[n])
  /\ WeightedVisits(edges, slot_of, key)
       = t[Cardinality(key.seeds) + Cardinality(DOMAIN edges)].visits

\* The turns are a sequence of states, and the visits are those of the one
\* that as many turns reach as there are seeds and edges.
LEMMA VisitTurns ==
  ASSUME NEW edges, NEW slot_of, NEW key, IsGraph(edges, slot_of), IsPolicyKey(key),
         key.max_nodes # 0, key.max_active_blocks # 0
  PROVE  \E t \in [Nat -> States(slot_of)] : AreTurns(t, edges, slot_of, key)
<1> DEFINE turns[n \in Nat] ==
             IF n = 0 THEN [heap |-> Seeded(slot_of, key), visits |-> << >>]
             ELSE LET st == turns[n - 1]
                  IN  IF Finished(key, st) THEN st ELSE Turn(edges, slot_of, key, st)
           X == States(slot_of)
           start == [heap |-> Seeded(slot_of, key), visits |-> << >>]
           step == [st \in X |-> Step(edges, slot_of, key, st)]
<1>1. start \in X
  BY SeedsAre
<1>2. ASSUME NEW st \in X
      PROVE  Step(edges, slot_of, key, st) \in X
  <2>1. CASE Finished(key, st)
    BY <2>1 DEF Step
  <2>2. CASE ~Finished(key, st)
    <3>1. st.heap # {} /\ Step(edges, slot_of, key, st) = Turn(edges, slot_of, key, st)
      BY <2>2 DEF Step, Finished
    <3>2. QED
      BY <3>1, TurnPops, PoppedType
  <2>3. QED
    BY <2>1, <2>2
<1>3. step \in [X -> X]
  <2> HIDE DEF X
  <2>1. QED
    BY <1>2
<1>4. PICK f \in [Nat -> X] : f = [n \in Nat |-> IF n = 0 THEN start ELSE step[f[n - 1]]]
  <2> HIDE DEF X, step, start
  <2>1. QED
    BY <1>1, <1>3, RecursiveEquation
<1>5. \A n \in Nat : n # 0 => step[f[n - 1]] = Step(edges, slot_of, key, f[n - 1])
  <2>1. ASSUME NEW n \in Nat, n # 0
        PROVE  step[f[n - 1]] = Step(edges, slot_of, key, f[n - 1])
    <3>1. n - 1 \in Nat
      BY <2>1
    <3>2. f[n - 1] \in X
      <4> HIDE DEF X
      <4>1. QED
        BY <1>4, <3>1
    <3> HIDE DEF X
    <3>3. QED
      BY <3>2
  <2>2. QED
    BY <2>1
<1>6. f = [n \in Nat |-> IF n = 0 THEN [heap |-> Seeded(slot_of, key), visits |-> << >>]
             ELSE LET st == f[n - 1]
                  IN  IF Finished(key, st) THEN st ELSE Turn(edges, slot_of, key, st)]
  <2> HIDE DEF step, X
  <2>1. QED
    BY <1>4, <1>5 DEF Step
<1>7. turns = [n \in Nat |-> IF n = 0 THEN [heap |-> Seeded(slot_of, key), visits |-> << >>]
             ELSE LET st == turns[n - 1]
                  IN  IF Finished(key, st) THEN st ELSE Turn(edges, slot_of, key, st)]
  BY <1>6, Zenon
<1>8. WeightedVisits(edges, slot_of, key)
        = IF key.max_nodes = 0 \/ key.max_active_blocks = 0 THEN << >>
          ELSE turns[Cardinality(key.seeds) + Cardinality(DOMAIN edges)].visits
  BY Zenon DEF WeightedVisits
<1> HIDE DEF turns
<1>9. WeightedVisits(edges, slot_of, key)
        = turns[Cardinality(key.seeds) + Cardinality(DOMAIN edges)].visits
  BY <1>8
<1> DEFINE S(st) == Step(edges, slot_of, key, st)
<1>10. turns = [n \in Nat |-> IF n = 0 THEN start ELSE S(turns[n - 1])]
  BY <1>7 DEF Step
<1> HIDE DEF start, S
<1>11. turns[0] = start
  BY <1>10
<1>12. \A m \in Nat : m # 0 => turns[m] = S(turns[m - 1])
  BY <1>10
<1>13. ASSUME NEW n \in Nat
       PROVE  turns[n + 1] = S(turns[n])
  <2>1. PICK m \in Nat : m = n + 1
    OBVIOUS
  <2>2. m # 0 /\ m - 1 = n
    BY <2>1
  <2>3. turns[m] = S(turns[m - 1])
    BY <1>12, <2>2
  <2>4. QED
    BY <2>1, <2>2, <2>3
<1>14. \A n \in Nat : turns[n] \in X
  <2> DEFINE good == {n \in Nat : turns[n] \in X}
  <2>1. 0 \in good
    <3> HIDE DEF X
    <3>1. QED
      BY <1>1, <1>11 DEF start
  <2>2. \A n \in good : n + 1 \in good
    <3> HIDE DEF X
    <3>1. ASSUME NEW n \in good
          PROVE  n + 1 \in good
      <4>1. n \in Nat /\ turns[n] \in X
        OBVIOUS
      <4>2. S(turns[n]) \in X
        BY <1>2, <4>1 DEF S
      <4>3. turns[n + 1] \in X
        BY <1>13, <4>1, <4>2
      <4>4. QED
        BY <4>1, <4>3
    <3>2. QED
      BY <3>1
  <2>3. good \in SUBSET Nat
    OBVIOUS
  <2>4. good = Nat
    <3> HIDE DEF good
    <3>1. QED
      BY <2>1, <2>2, <2>3, NatSetInduction
  <2>5. QED
    BY <2>4
<1>15. turns \in [Nat -> X]
  <2> HIDE DEF X
  <2>1. DOMAIN turns = Nat /\ turns = [n \in Nat |-> turns[n]]
    BY <1>10
  <2>2. QED
    BY <2>1, <1>14
<1>16. QED
  <2>1. \A n \in Nat : turns[n + 1] = Step(edges, slot_of, key, turns[n])
    BY <1>13 DEF S
  <2>2. turns[0] = [heap |-> Seeded(slot_of, key), visits |-> << >>]
    BY <1>11 DEF start
  <2>3. AreTurns(turns, edges, slot_of, key)
    BY <1>9, <2>1, <2>2 DEF AreTurns
  <2>4. QED
    BY <1>15, <2>3

\* What holds of the seeds and outlasts every pop holds in the end, and the end
\* is reached: the queue is empty or the budget of nodes used up.
LEMMA VisitInduction ==
  ASSUME NEW edges, NEW slot_of, NEW key, IsGraph(edges, slot_of), IsPolicyKey(key),
         key.max_nodes # 0, key.max_active_blocks # 0,
         NEW P \in SUBSET States(slot_of),
         [heap |-> Seeded(slot_of, key), visits |-> << >>] \in P,
         ASSUME NEW st \in P, NEW item \in st.heap, ~Finished(key, st),
                \A j \in st.heap : PopsBefore(item, j)
         PROVE  Popped(edges, slot_of, key, st, item) \in P
  PROVE  \E st \in P : /\ Finished(key, st)
                       /\ WeightedVisits(edges, slot_of, key) = st.visits
<1> DEFINE start == [heap |-> Seeded(slot_of, key), visits |-> << >>]
           most == Cardinality(key.seeds) + Cardinality(DOMAIN edges)
<1>0. PICK t \in [Nat -> States(slot_of)] : AreTurns(t, edges, slot_of, key)
  BY VisitTurns
<1>1. /\ t[0] = start
      /\ \A n \in Nat : t[n + 1] = Step(edges, slot_of, key, t[n])
      /\ WeightedVisits(edges, slot_of, key) = t[most].visits
  BY <1>0 DEF AreTurns
<1> DEFINE Good(n) == /\ t[n] \in P /\ IsFiniteSet(t[n].heap)
                      /\ (Finished(key, t[n]) \/ Left(edges, t[n]) + n <= most)
           good == {n \in Nat : Good(n)}
<1>2. /\ IsFiniteSet(DOMAIN edges) /\ Cardinality(DOMAIN edges) \in Nat
      /\ Cardinality(key.seeds) \in Nat /\ most \in Nat
      /\ IsFiniteSet(start.heap) /\ Cardinality(start.heap) <= Cardinality(key.seeds)
      /\ Cardinality(start.heap) \in Nat
  <2>1. IsFiniteSet(DOMAIN edges) /\ IsFiniteSet(key.seeds)
    BY DEF IsGraph, IsPolicyKey
  <2>2. Cardinality(DOMAIN edges) \in Nat /\ Cardinality(key.seeds) \in Nat
    BY <2>1, FS_CardinalityType
  <2>3. IsFiniteSet(start.heap) /\ Cardinality(start.heap) <= Cardinality(key.seeds)
    BY SeedsAre
  <2>4. Cardinality(start.heap) \in Nat
    BY <2>3, FS_CardinalityType
  <2>5. QED
    BY <2>1, <2>2, <2>3, <2>4
<1> HIDE DEF most, start
<1>3. Good(0)
  <2> DEFINE unused == UnusedEdges(edges, start.visits)
  <2>1. unused \in SUBSET DOMAIN edges
    BY DEF UnusedEdges
  <2> HIDE DEF unused
  <2>2. Cardinality(unused) \in Nat /\ Cardinality(unused) <= Cardinality(DOMAIN edges)
    BY <1>2, <2>1, FS_Subset, FS_CardinalityType
  <2>3. Left(edges, start) = Cardinality(start.heap) + Cardinality(unused)
    BY DEF Left, unused
  <2>4. Left(edges, start) + 0 <= most
    BY <1>2, <2>2, <2>3 DEF most
  <2>5. start \in P
    BY DEF start
  <2>6. QED
    BY <1>1, <1>2, <2>4, <2>5
<1>4. ASSUME NEW n \in Nat, Good(n)
      PROVE  Good(n + 1)
  <2>1. t[n] \in P /\ IsFiniteSet(t[n].heap) /\ t[n] \in States(slot_of)
    BY <1>4
  <2>2. t[n + 1] = Step(edges, slot_of, key, t[n])
    BY <1>1
  <2>3. CASE Finished(key, t[n])
    <3>1. t[n + 1] = t[n]
      BY <2>2, <2>3 DEF Step
    <3>2. QED
      BY <2>1, <2>3, <3>1
  <2>4. CASE ~Finished(key, t[n])
    <3> DEFINE st == t[n]
    <3>1. st.heap # {} /\ t[n + 1] = Turn(edges, slot_of, key, st)
      BY <2>2, <2>4 DEF Step, Finished
    <3>2. PICK item \in st.heap : /\ \A j \in st.heap : PopsBefore(item, j)
                                  /\ t[n + 1] = Popped(edges, slot_of, key, st, item)
      BY <2>1, <3>1, TurnPops
    <3>3. Left(edges, st) + n <= most
      BY <1>4, <2>4
    <3> HIDE DEF st
    <3>4. t[n + 1] \in P
      BY <2>1, <2>4, <3>2 DEF st
    <3>5. /\ IsFiniteSet(t[n + 1].heap)
          /\ Left(edges, st) \in Nat /\ Left(edges, t[n + 1]) \in Nat
          /\ Left(edges, t[n + 1]) + 1 <= Left(edges, st)
      <4>1. st \in States(slot_of) /\ IsFiniteSet(st.heap)
        BY <2>1 DEF st
      <4>2. QED
        BY <3>2, <4>1, TurnsRunOut
    <3>6. Left(edges, t[n + 1]) + (n + 1) <= most
      BY <1>2, <3>3, <3>5
    <3>7. QED
      BY <3>4, <3>5, <3>6
  <2>5. QED
    BY <2>3, <2>4
<1>5. good = Nat
  <2>1. 0 \in good /\ \A n \in good : n + 1 \in good
    <3> HIDE DEF Good
    <3>1. QED
      BY <1>3, <1>4
  <2>2. good \in SUBSET Nat
    OBVIOUS
  <2> HIDE DEF good
  <2>3. QED
    BY <2>1, <2>2, NatSetInduction
<1>6. Good(most)
  <2> HIDE DEF Good
  <2>1. QED
    BY <1>2, <1>5
<1>7. Finished(key, t[most])
  <2>1. CASE Left(edges, t[most]) + most <= most
    <3> DEFINE st == t[most]
               heap == st.heap
    <3>1. IsFiniteSet(heap) /\ Cardinality(heap) \in Nat
      BY <1>6, FS_CardinalityType
    <3>2. Cardinality(UnusedEdges(edges, st.visits)) \in Nat
      <4>1. UnusedEdges(edges, st.visits) \in SUBSET DOMAIN edges
        BY DEF UnusedEdges
      <4>2. QED
        BY <1>2, <4>1, FS_Subset, FS_CardinalityType
    <3>3. Left(edges, st) = Cardinality(heap) + Cardinality(UnusedEdges(edges, st.visits))
      BY DEF Left
    <3> HIDE DEF heap
    <3>4. Cardinality(heap) = 0
      BY <1>2, <2>1, <3>1, <3>2, <3>3
    <3>5. heap = {}
      BY <3>1, <3>4, FS_EmptySet
    <3>6. QED
      BY <3>5 DEF heap, Finished
  <2>2. QED
    BY <1>6, <2>1
<1>8. QED
  BY <1>1, <1>6, <1>7

\* Without a budget nothing is visited.
LEMMA NoBudget ==
  ASSUME NEW edges, NEW slot_of, NEW key, key.max_nodes = 0 \/ key.max_active_blocks = 0
  PROVE  WeightedVisits(edges, slot_of, key) = << >>
  BY Zenon DEF WeightedVisits

\* Each id is visited once.
VisitedOnce(visits) == \A m, n \in 1..Len(visits) : visits[m].id = visits[n].id => m = n

\* So it is in every expansion, whose visits are of ids of the memory.
LEMMA VisitsOnce ==
  ASSUME NEW edges, NEW slot_of, NEW key, IsGraph(edges, slot_of), IsPolicyKey(key)
  PROVE  /\ WeightedVisits(edges, slot_of, key) \in Seq(Items(DOMAIN slot_of))
         /\ VisitedOnce(WeightedVisits(edges, slot_of, key))
<1> DEFINE start == [heap |-> Seeded(slot_of, key), visits |-> << >>]
           P == {st \in States(slot_of) : VisitedOnce(st.visits)}
<1>1. CASE key.max_nodes # 0 /\ key.max_active_blocks # 0
  <2>1. start \in P
    BY SeedsAre DEF VisitedOnce
  <2>2. ASSUME NEW st \in P, NEW item \in st.heap
        PROVE  Popped(edges, slot_of, key, st, item) \in P
    <3> DEFINE next == Popped(edges, slot_of, key, st, item)
    <3>1. next \in States(slot_of)
      BY PoppedType
    <3>2. CASE ~Admits(slot_of, key, st.visits, item)
      BY <3>1, <3>2 DEF Popped
    <3>3. CASE Admits(slot_of, key, st.visits, item)
      <4>1. /\ next.visits = Append(st.visits, item) /\ item.id \notin VisitedIds(st.visits)
            /\ st.visits \in Seq(Items(DOMAIN slot_of)) /\ item \in Items(DOMAIN slot_of)
        BY <3>3 DEF Popped, Admits, States
      <4>2. /\ Len(next.visits) = Len(st.visits) + 1 /\ Len(st.visits) \in Nat
            /\ \A n \in 1..Len(st.visits) : next.visits[n] = st.visits[n]
            /\ next.visits[Len(st.visits) + 1] = item
        BY <4>1, VisitAdds
      <4>3. \A n \in 1..Len(st.visits) : st.visits[n].id # item.id
        BY <4>1 DEF VisitedIds
      <4> HIDE DEF next
      <4>4. ASSUME NEW m \in 1..Len(next.visits), NEW n \in 1..Len(next.visits),
                   next.visits[m].id = next.visits[n].id
            PROVE  m = n
        <5>1. CASE m \in 1..Len(st.visits) /\ n \in 1..Len(st.visits)
          BY <4>2, <4>4, <5>1 DEF VisitedOnce
        <5>2. CASE m = Len(st.visits) + 1 /\ n \in 1..Len(st.visits)
          BY <4>2, <4>3, <4>4, <5>2
        <5>3. CASE n = Len(st.visits) + 1 /\ m \in 1..Len(st.visits)
          BY <4>2, <4>3, <4>4, <5>3
        <5>4. QED
          BY <4>2, <5>1, <5>2, <5>3
      <4>5. VisitedOnce(next.visits)
        BY <4>4 DEF VisitedOnce
      <4>6. QED
        BY <3>1, <4>5 DEF next
    <3>4. QED
      BY <3>2, <3>3
  <2>3. P \in SUBSET States(slot_of)
    OBVIOUS
  <2> HIDE DEF P
  <2>4. PICK st \in P : WeightedVisits(edges, slot_of, key) = st.visits
    BY <1>1, <2>1, <2>2, <2>3, VisitInduction
  <2>5. QED
    BY <2>4 DEF P, States
<1>2. CASE ~(key.max_nodes # 0 /\ key.max_active_blocks # 0)
  <2>1. WeightedVisits(edges, slot_of, key) = << >>
    BY <1>2, NoBudget
  <2>2. QED
    BY <2>1 DEF VisitedOnce
<1>3. QED
  BY <1>1, <1>2

\* Visits come in the order of their weights, and none is weaker than what is
\* still queued.
Ordered(visits) == \A m, n \in 1..Len(visits) : m < n => visits[m].weight <= visits[n].weight
Settled(st) == \A n \in 1..Len(st.visits) : \A h \in st.heap : st.visits[n].weight <= h.weight

\* A pop keeps the order.
LEMMA PoppedOrdered ==
  ASSUME NEW edges, NEW slot_of, NEW key, IsGraph(edges, slot_of), IsPolicyKey(key),
         NEW st \in States(slot_of), NEW item \in st.heap,
         \A j \in st.heap : PopsBefore(item, j), Ordered(st.visits), Settled(st)
  PROVE  LET next == Popped(edges, slot_of, key, st, item)
         IN  Ordered(next.visits) /\ Settled(next)
<1> DEFINE next == Popped(edges, slot_of, key, st, item)
<1>1. CASE ~Admits(slot_of, key, st.visits, item)
  BY <1>1 DEF Popped, Settled
<1>2. CASE Admits(slot_of, key, st.visits, item)
  <2>1. /\ next.visits = Append(st.visits, item)
        /\ next.heap = (st.heap \ {item}) \cup Offers(edges, key, st.visits, item)
        /\ st.visits \in Seq(Items(DOMAIN slot_of)) /\ item \in Items(DOMAIN slot_of)
        /\ st.heap \subseteq Items(DOMAIN slot_of)
    BY <1>2 DEF Popped, States
  <2>2. /\ Len(next.visits) = Len(st.visits) + 1 /\ Len(st.visits) \in Nat
        /\ \A n \in 1..Len(st.visits) : next.visits[n] = st.visits[n]
        /\ next.visits[Len(st.visits) + 1] = item
        /\ \A n \in 1..Len(st.visits) : st.visits[n] \in Items(DOMAIN slot_of)
    BY <2>1, VisitAdds
  <2>3. \A i \in Items(DOMAIN slot_of) : i.weight \in Nat
    BY DEF Items
  <2>4. \A n \in 1..Len(st.visits) : st.visits[n].weight <= item.weight
    BY DEF Settled
  <2>5. ASSUME NEW h \in next.heap
        PROVE  item.weight <= h.weight /\ h.weight \in Nat
    <3>1. CASE h \in st.heap
      BY <2>1, <2>3, <3>1 DEF PopsBefore
    <3>2. CASE h \in Offers(edges, key, st.visits, item)
      BY <2>1, <2>3, <3>2, OfferIs
    <3>3. QED
      BY <2>1, <3>1, <3>2
  <2> HIDE DEF next
  <2>6. ASSUME NEW m \in 1..Len(next.visits), NEW n \in 1..Len(next.visits), m < n
        PROVE  next.visits[m].weight <= next.visits[n].weight
    <3>1. m \in 1..Len(st.visits) /\ next.visits[m] = st.visits[m]
      BY <2>2, <2>6
    <3>2. CASE n \in 1..Len(st.visits)
      BY <2>2, <2>6, <3>1, <3>2 DEF Ordered
    <3>3. CASE n = Len(st.visits) + 1
      BY <2>2, <2>4, <3>1, <3>3
    <3>4. QED
      BY <2>2, <3>2, <3>3
  <2>7. ASSUME NEW n \in 1..Len(next.visits), NEW h \in next.heap
        PROVE  next.visits[n].weight <= h.weight
    <3>1. CASE n \in 1..Len(st.visits)
      <4>1. /\ st.visits[n].weight <= item.weight /\ item.weight <= h.weight
            /\ st.visits[n].weight \in Nat /\ item.weight \in Nat /\ h.weight \in Nat
        BY <2>1, <2>2, <2>3, <2>4, <2>5, <3>1
      <4>2. QED
        BY <2>2, <3>1, <4>1
    <3>2. CASE n = Len(st.visits) + 1
      BY <2>2, <2>5, <3>2
    <3>3. QED
      BY <2>2, <3>1, <3>2
  <2>8. QED
    BY <2>6, <2>7 DEF Ordered, Settled, next
<1>3. QED
  BY <1>1, <1>2

\* An expansion visits weaker paths later (weighted_graph_visits pops its heap).
THEOREM VisitsOrdered ==
  ASSUME NEW edges, NEW slot_of, NEW key, IsGraph(edges, slot_of), IsPolicyKey(key)
  PROVE  Ordered(WeightedVisits(edges, slot_of, key))
<1> DEFINE start == [heap |-> Seeded(slot_of, key), visits |-> << >>]
           P == {st \in States(slot_of) : Ordered(st.visits) /\ Settled(st)}
<1>1. CASE key.max_nodes # 0 /\ key.max_active_blocks # 0
  <2>1. start \in P
    BY SeedsAre DEF Ordered, Settled
  <2>2. ASSUME NEW st \in P, NEW item \in st.heap, \A j \in st.heap : PopsBefore(item, j)
        PROVE  Popped(edges, slot_of, key, st, item) \in P
    BY <2>2, PoppedType, PoppedOrdered
  <2>3. P \in SUBSET States(slot_of)
    OBVIOUS
  <2> HIDE DEF P
  <2>4. PICK st \in P : WeightedVisits(edges, slot_of, key) = st.visits
    BY <1>1, <2>1, <2>2, <2>3, VisitInduction
  <2>5. QED
    BY <2>4 DEF P
<1>2. CASE ~(key.max_nodes # 0 /\ key.max_active_blocks # 0)
  <2>1. WeightedVisits(edges, slot_of, key) = << >>
    BY <1>2, NoBudget
  <2>2. QED
    BY <2>1 DEF Ordered
<1>3. QED
  BY <1>1, <1>2

\* Every visit but a seed's follows one that is a hop nearer and linked to it.
LinkedTo(edges, visits, before, i) ==
  \E m \in 1..before : visits[m].depth = i.depth - 1 /\ <<visits[m].id, i.id>> \in DOMAIN edges
Parented(edges, visits) ==
  \A n \in 1..Len(visits) :
    visits[n].depth > 0 => LinkedTo(edges, visits, n - 1, visits[n])
QueueParented(edges, st) ==
  \A h \in st.heap : h.depth > 0 => LinkedTo(edges, st.visits, Len(st.visits), h)

\* A pop keeps the parents.
LEMMA PoppedParented ==
  ASSUME NEW edges, NEW slot_of, NEW key, IsGraph(edges, slot_of), IsPolicyKey(key),
         NEW st \in States(slot_of), NEW item \in st.heap,
         Parented(edges, st.visits), QueueParented(edges, st)
  PROVE  LET next == Popped(edges, slot_of, key, st, item)
         IN  Parented(edges, next.visits) /\ QueueParented(edges, next)
<1> DEFINE next == Popped(edges, slot_of, key, st, item)
           last == Len(st.visits)
<1>1. CASE ~Admits(slot_of, key, st.visits, item)
  BY <1>1 DEF Popped, QueueParented
<1>2. CASE Admits(slot_of, key, st.visits, item)
  <2>1. /\ next.visits = Append(st.visits, item)
        /\ next.heap = (st.heap \ {item}) \cup Offers(edges, key, st.visits, item)
        /\ st.visits \in Seq(Items(DOMAIN slot_of)) /\ item \in Items(DOMAIN slot_of)
    BY <1>2 DEF Popped, States
  <2>2. /\ Len(next.visits) = last + 1 /\ last \in Nat
        /\ \A n \in 1..last : next.visits[n] = st.visits[n]
        /\ next.visits[last + 1] = item
    BY <2>1, VisitAdds
  <2> HIDE DEF next, last
  <2>3. ASSUME NEW n \in Nat, n <= last, NEW i, LinkedTo(edges, st.visits, n, i)
        PROVE  LinkedTo(edges, next.visits, n, i)
    <3>1. \A m \in 1..n : m \in 1..last
      BY <2>2, <2>3
    <3>2. QED
      BY <2>2, <2>3, <3>1 DEF LinkedTo
  <2>4. ASSUME NEW i, LinkedTo(edges, st.visits, last, i)
        PROVE  LinkedTo(edges, next.visits, last + 1, i)
    <3>1. PICK m \in 1..last : /\ st.visits[m].depth = i.depth - 1
                               /\ <<st.visits[m].id, i.id>> \in DOMAIN edges
      BY <2>4 DEF LinkedTo
    <3>2. m \in 1..(last + 1) /\ next.visits[m] = st.visits[m]
      BY <2>2
    <3>3. QED
      BY <3>1, <3>2 DEF LinkedTo
  <2>5. item.depth > 0 => LinkedTo(edges, st.visits, last, item)
    BY DEF QueueParented, last
  <2>6. ASSUME NEW n \in 1..(last + 1), next.visits[n].depth > 0
        PROVE  LinkedTo(edges, next.visits, n - 1, next.visits[n])
    <3>1. CASE n = last + 1
      <4>1. n - 1 = last /\ last <= last /\ next.visits[n] = item
        BY <2>2, <3>1
      <4>2. LinkedTo(edges, st.visits, last, item)
        BY <2>5, <2>6, <4>1
      <4>3. QED
        BY <2>2, <2>3, <4>1, <4>2
    <3>2. CASE n \in 1..last
      <4>1. n - 1 \in Nat /\ n - 1 <= last /\ next.visits[n] = st.visits[n]
        BY <2>2, <3>2
      <4>2. LinkedTo(edges, st.visits, n - 1, st.visits[n])
        BY <2>6, <3>2, <4>1 DEF Parented, last
      <4>3. QED
        BY <2>3, <4>1, <4>2
    <3>3. QED
      BY <2>2, <3>1, <3>2
  <2>7. ASSUME NEW h \in next.heap, h.depth > 0
        PROVE  LinkedTo(edges, next.visits, last + 1, h)
    <3>1. CASE h \in st.heap
      <4>1. LinkedTo(edges, st.visits, last, h)
        BY <2>7, <3>1 DEF QueueParented, last
      <4>2. QED
        BY <2>4, <4>1
    <3>2. CASE h \in Offers(edges, key, st.visits, item)
      <4>1. h.depth = item.depth + 1 /\ <<item.id, h.id>> \in DOMAIN edges /\ item.depth \in Nat
        BY <2>1, <3>2, OfferIs DEF Items
      <4>2. last + 1 \in 1..(last + 1) /\ next.visits[last + 1].depth = h.depth - 1
        BY <2>2, <4>1
      <4>3. QED
        BY <2>2, <4>1, <4>2 DEF LinkedTo
    <3>3. QED
      BY <2>1, <3>1, <3>2
  <2>8. QED
    BY <2>2, <2>6, <2>7 DEF Parented, QueueParented, next
<1>3. QED
  BY <1>1, <1>2

\* Each visit but a seed has a parent before it, one hop nearer, with an edge to it
\* (weighted_graph_visits pushes the neighbours of what it visits).
THEOREM VisitsParented ==
  ASSUME NEW edges, NEW slot_of, NEW key, IsGraph(edges, slot_of), IsPolicyKey(key)
  PROVE  Parented(edges, WeightedVisits(edges, slot_of, key))
<1> DEFINE start == [heap |-> Seeded(slot_of, key), visits |-> << >>]
           P == {st \in States(slot_of) : Parented(edges, st.visits) /\ QueueParented(edges, st)}
<1>1. CASE key.max_nodes # 0 /\ key.max_active_blocks # 0
  <2>1. start \in P
    <3>1. \A h \in start.heap : h.depth = 0
      BY DEF Seeded
    <3>2. QED
      BY <3>1, SeedsAre DEF Parented, QueueParented
  <2>2. ASSUME NEW st \in P, NEW item \in st.heap
        PROVE  Popped(edges, slot_of, key, st, item) \in P
    BY <2>2, PoppedType, PoppedParented
  <2>3. P \in SUBSET States(slot_of)
    OBVIOUS
  <2> HIDE DEF P
  <2>4. PICK st \in P : WeightedVisits(edges, slot_of, key) = st.visits
    BY <1>1, <2>1, <2>2, <2>3, VisitInduction
  <2>5. QED
    BY <2>4 DEF P
<1>2. CASE ~(key.max_nodes # 0 /\ key.max_active_blocks # 0)
  <2>1. WeightedVisits(edges, slot_of, key) = << >>
    BY <1>2, NoBudget
  <2>2. QED
    BY <2>1 DEF Parented
<1>3. QED
  BY <1>1, <1>2

\* With a budget, a live seed is enough to visit something.
LEMMA SeedsVisited ==
  ASSUME NEW edges, NEW slot_of, NEW key, IsGraph(edges, slot_of), IsPolicyKey(key),
         key.max_nodes # 0, key.max_active_blocks # 0, key.seeds \cap DOMAIN slot_of # {}
  PROVE  WeightedVisits(edges, slot_of, key) # << >>
<1> DEFINE start == [heap |-> Seeded(slot_of, key), visits |-> << >>]
           P == {st \in States(slot_of) : st.visits # << >> \/ st.heap = Seeded(slot_of, key)}
<1>1. start \in P
  BY SeedsAre
<1>2. ASSUME NEW st \in P, NEW item \in st.heap
      PROVE  Popped(edges, slot_of, key, st, item) \in P
  <2> DEFINE next == Popped(edges, slot_of, key, st, item)
  <2>1. next \in States(slot_of) /\ st.visits \in Seq(Items(DOMAIN slot_of))
        /\ item \in Items(DOMAIN slot_of)
    BY PoppedType DEF States
  <2>2. CASE Admits(slot_of, key, st.visits, item)
    <3>1. next.visits = Append(st.visits, item)
      BY <2>2 DEF Popped
    <3>2. Len(next.visits) # 0
      BY <2>1, <3>1
    <3> HIDE DEF next
    <3>3. next.visits # << >>
      BY <3>2
    <3>4. QED
      BY <2>1, <3>3 DEF next
  <2>3. CASE ~Admits(slot_of, key, st.visits, item)
    <3>1. next.visits = st.visits
      BY <2>3 DEF Popped
    <3>2. CASE st.visits = << >>
      <4>1. VisitedIds(st.visits) = {}
        BY <3>2 DEF VisitedIds
      <4>2. item.id \in DOMAIN slot_of
        BY <2>1 DEF Items
      <4>3. key.max_active_blocks \in Nat /\ 0 < key.max_active_blocks
        BY DEF IsPolicyKey
      <4>4. {BlockOf(slot_of[i]) : i \in VisitedIds(st.visits)} = {}
        BY <4>1
      <4>5. Cardinality({BlockOf(slot_of[i]) : i \in VisitedIds(st.visits)}) = 0
        BY <4>4, FS_EmptySet
      <4>6. Admits(slot_of, key, st.visits, item)
        BY <4>1, <4>2, <4>3, <4>5 DEF Admits
      <4>7. QED
        BY <2>3, <4>6
    <3>3. CASE st.visits # << >>
      BY <2>1, <3>1, <3>3
    <3>4. QED
      BY <3>2, <3>3
  <2>4. QED
    BY <2>2, <2>3
<1>3. P \in SUBSET States(slot_of)
  OBVIOUS
<1>4. PICK st \in P : Finished(key, st) /\ WeightedVisits(edges, slot_of, key) = st.visits
  <2> HIDE DEF P
  <2>1. QED
    BY <1>1, <1>2, <1>3, VisitInduction
<1>5. Seeded(slot_of, key) # {}
  BY DEF Seeded
<1>6. CASE st.visits = << >>
  <2>1. Len(st.visits) = 0 /\ key.max_nodes \in Nat
    BY <1>6 DEF IsPolicyKey
  <2>2. QED
    BY <1>4, <1>5, <1>6, <2>1 DEF Finished
<1>7. QED
  BY <1>4, <1>6

-----------------------------------------------------------------------------
\* Without budgets, a strongest path to every node that is strong enough.

\* upto[n][i] are the weights of the walks of at most n edges from an id to i.
IsWalking(upto, edges, V, from) ==
  /\ \A n \in Nat : \A i \in V : upto[n][i] \in SUBSET Nat
  /\ \A i \in V : upto[0][i] = IF i = from THEN {0} ELSE {}
  /\ \A n \in Nat : \A i \in V :
       upto[n + 1][i] = upto[n][i] \cup
         UNION {{w + Normalize(edges[e]) : w \in upto[n][e[1]]} :
                  e \in {e \in DOMAIN edges : e[2] = i /\ edges[e] # BadWeight}}

\* A walk goes on over a usable edge.
LEMMA WalkGoesOn ==
  ASSUME NEW edges, NEW V, NEW from, NEW upto, IsWalking(upto, edges, V, from),
         NEW n \in Nat, NEW link \in DOMAIN edges, edges[link] # BadWeight, NEW i \in V,
         i = link[2], NEW x \in upto[n][link[1]]
  PROVE  x + Normalize(edges[link]) \in upto[n + 1][i]
<1>1. upto[n + 1][i] = upto[n][i] \cup
        UNION {{w + Normalize(edges[e]) : w \in upto[n][e[1]]} :
                 e \in {e \in DOMAIN edges : e[2] = i /\ edges[e] # BadWeight}}
  <2>1. \A m \in Nat : \A j \in V :
          upto[m + 1][j] = upto[m][j] \cup
            UNION {{w + Normalize(edges[e]) : w \in upto[m][e[1]]} :
                     e \in {e \in DOMAIN edges : e[2] = j /\ edges[e] # BadWeight}}
    BY ZenonT(30) DEF IsWalking
  <2>2. QED
    BY <2>1, ZenonT(30)
<1>2. x + Normalize(edges[link]) \in {w + Normalize(edges[link]) : w \in upto[n][link[1]]}
  OBVIOUS
<1>3. QED
  BY <1>1, <1>2

\* A longer limit admits no fewer walks.
LEMMA WalksGrow ==
  ASSUME NEW edges, NEW V, NEW from, NEW upto, IsWalking(upto, edges, V, from),
         NEW m \in Nat, NEW i \in V, NEW n \in Nat, m <= n
  PROVE  upto[m][i] \subseteq upto[n][i]
<1> DEFINE Good(k) == upto[m][i] \subseteq upto[m + k][i]
           good == {k \in Nat : Good(k)}
<1>1. Good(0)
  OBVIOUS
<1>2. ASSUME NEW k \in Nat, Good(k)
      PROVE  Good(k + 1)
  <2>1. m + k \in Nat /\ m + (k + 1) = (m + k) + 1
    OBVIOUS
  <2>2. upto[m + k][i] \subseteq upto[(m + k) + 1][i]
    BY <2>1 DEF IsWalking
  <2>3. QED
    BY <1>2, <2>1, <2>2
<1>3. good = Nat
  <2>1. 0 \in good /\ \A k \in good : k + 1 \in good
    <3> HIDE DEF Good
    <3>1. QED
      BY <1>1, <1>2
  <2>2. good \in SUBSET Nat
    OBVIOUS
  <2> HIDE DEF good
  <2>3. QED
    BY <2>1, <2>2, NatSetInduction
<1>4. PICK k \in Nat : n = m + k
  <2>1. n - m \in Nat /\ n = m + (n - m)
    OBVIOUS
  <2>2. QED
    BY <2>1
<1>5. k \in good
  BY <1>3
<1>6. QED
  BY <1>4, <1>5

\* A key whose budgets cannot bite on a graph of as many nodes.
IsOpen(key, from, most, m) ==
  /\ key.seeds = {from} /\ key.min_weight = m
  /\ key.max_hops = most /\ key.max_nodes = most /\ key.max_active_blocks = most

\* A node is visited, or visited or queued, along a path no weaker than w.
Found(visits, i, w) == \E n \in 1..Len(visits) : visits[n].id = i /\ visits[n].weight <= w
Reaches(st, i, w) == \/ Found(st.visits, i, w)
                     \/ \E h \in st.heap : h.id = i /\ h.weight <= w

\* Depths stay below the number of visits, so the hop limit never bites.
Shallow(st, most) ==
  /\ \A n \in 1..Len(st.visits) : st.visits[n].depth < most
  /\ \A h \in st.heap : h.depth <= Len(st.visits)

\* Items carry the weight of a walk to their node, and one that is strong
\* enough.
Walked(upto, m, item) == item.weight <= m /\ item.weight \in upto[item.depth][item.id]
AllWalked(upto, m, st) == /\ \A n \in 1..Len(st.visits) : Walked(upto, m, st.visits[n])
                          /\ \A h \in st.heap : Walked(upto, m, h)

\* The usable edges of every visited node were followed.
Followed(edges, m, st, item) ==
  \A e \in DOMAIN edges :
    e[1] = item.id /\ edges[e] # BadWeight =>
      LET w == item.weight + Normalize(edges[e])
      IN  m < w \/ Reaches(st, e[2], w)
Relaxed(edges, m, st) == \A n \in 1..Len(st.visits) : Followed(edges, m, st, st.visits[n])

\* Whoever is popped was not visited before is admitted: its block is one of
\* fewer than there are nodes.
LEMMA AdmitsNew ==
  ASSUME NEW slot_of, IsFiniteSet(DOMAIN slot_of), NEW key,
         key.max_active_blocks = Cardinality(DOMAIN slot_of),
         NEW visits \in Seq(Items(DOMAIN slot_of)), NEW item \in Items(DOMAIN slot_of),
         item.id \notin VisitedIds(visits)
  PROVE  Admits(slot_of, key, visits, item)
<1> DEFINE V == DOMAIN slot_of
           ids == VisitedIds(visits)
           f == [i \in ids |-> BlockOf(slot_of[i])]
           used == {BlockOf(slot_of[i]) : i \in ids}
<1>1. item.id \in V
  BY DEF Items
<1>2. ids \in SUBSET (V \ {item.id})
  <2>1. \A n \in 1..Len(visits) : visits[n] \in Items(V)
    OBVIOUS
  <2>2. QED
    BY <2>1 DEF VisitedIds, Items
<1>3. {f[i] : i \in ids} = used /\ f = [i \in ids |-> f[i]] /\ DOMAIN f = ids
  OBVIOUS
<1> HIDE DEF V, ids, f, used
<1>4. /\ IsFiniteSet(V \ {item.id}) /\ Cardinality(V \ {item.id}) = Cardinality(V) - 1
      /\ Cardinality(V) \in Nat
  <2>1. IsFiniteSet(V)
    BY DEF V
  <2>2. QED
    BY <1>1, <2>1, FS_RemoveElement, FS_CardinalityType
<1>5. IsFiniteSet(ids) /\ Cardinality(ids) <= Cardinality(V \ {item.id})
  BY <1>2, <1>4, FS_Subset
<1>6. IsFiniteSet(used) /\ Cardinality(used) <= Cardinality(ids)
  BY <1>3, <1>5, ImageIsSmaller
<1>7. Cardinality(used) \in Nat /\ Cardinality(ids) \in Nat
  BY <1>5, <1>6, FS_CardinalityType
<1>8. Cardinality(used) < Cardinality(V)
  BY <1>4, <1>5, <1>6, <1>7
<1>9. QED
  BY <1>1, <1>8 DEF Admits, V, used, ids

\* What a pop does to the visits, when no budget bites.
LEMMA OpenPop ==
  ASSUME NEW edges, NEW slot_of, NEW key, IsGraph(edges, slot_of), IsPolicyKey(key),
         IsFiniteSet(DOMAIN slot_of), key.max_active_blocks = Cardinality(DOMAIN slot_of),
         NEW st \in States(slot_of), NEW item \in st.heap, Settled(st)
  PROVE  LET next == Popped(edges, slot_of, key, st, item)
         IN  \/ /\ Admits(slot_of, key, st.visits, item)
                /\ next.visits = Append(st.visits, item)
                /\ next.heap = (st.heap \ {item}) \cup Offers(edges, key, st.visits, item)
             \/ /\ next.visits = st.visits /\ next.heap = st.heap \ {item}
                /\ Found(st.visits, item.id, item.weight)
<1>1. st.visits \in Seq(Items(DOMAIN slot_of)) /\ item \in Items(DOMAIN slot_of)
  BY DEF States
<1>2. CASE Admits(slot_of, key, st.visits, item)
  BY <1>2 DEF Popped
<1>3. CASE ~Admits(slot_of, key, st.visits, item)
  <2>1. item.id \in VisitedIds(st.visits)
    BY <1>1, <1>3, AdmitsNew
  <2>2. PICK n \in 1..Len(st.visits) : st.visits[n].id = item.id
    BY <2>1 DEF VisitedIds
  <2>3. Found(st.visits, item.id, item.weight)
    BY <2>2 DEF Settled, Found
  <2>4. QED
    BY <1>3, <2>3 DEF Popped
<1>4. QED
  BY <1>2, <1>3

\* Visits, once made, are found in what they grow to.
LEMMA FoundPersists ==
  ASSUME NEW S, NEW visits \in Seq(S), NEW item \in S, NEW i, NEW w
  PROVE  /\ Found(visits, i, w) => Found(Append(visits, item), i, w)
         /\ item.id = i /\ item.weight <= w => Found(Append(visits, item), i, w)
<1> DEFINE longer == Append(visits, item)
<1>1. /\ Len(longer) = Len(visits) + 1 /\ Len(visits) \in Nat
      /\ \A n \in 1..Len(visits) : longer[n] = visits[n]
      /\ longer[Len(visits) + 1] = item
  BY VisitAdds
<1> HIDE DEF longer
<1>2. ASSUME Found(visits, i, w)
      PROVE  Found(longer, i, w)
  <2>1. PICK n \in 1..Len(visits) : visits[n].id = i /\ visits[n].weight <= w
    BY <1>2 DEF Found
  <2>2. n \in 1..Len(longer) /\ longer[n] = visits[n]
    BY <1>1
  <2>3. QED
    BY <2>1, <2>2 DEF Found
<1>3. ASSUME item.id = i, item.weight <= w
      PROVE  Found(longer, i, w)
  <2>1. Len(visits) + 1 \in 1..Len(longer)
    BY <1>1
  <2>2. QED
    BY <1>1, <1>3, <2>1 DEF Found
<1>4. QED
  BY <1>2, <1>3 DEF longer

LEMMA FoundWeaker ==
  ASSUME NEW ids, NEW visits \in Seq(Items(ids)), NEW i, NEW v \in Int, NEW w \in Int,
         Found(visits, i, v), v <= w
  PROVE  Found(visits, i, w)
<1>1. PICK n \in 1..Len(visits) : visits[n].id = i /\ visits[n].weight <= v
  BY DEF Found
<1>2. visits[n] \in Items(ids)
  OBVIOUS
<1>3. visits[n].weight \in Nat
  BY <1>2 DEF Items
<1>4. visits[n].weight <= w
  BY <1>1, <1>3
<1>5. QED
  BY <1>1, <1>4 DEF Found

\* A pop loses no path.
LEMMA ReachesPersists ==
  ASSUME NEW edges, NEW slot_of, NEW key, IsGraph(edges, slot_of), IsPolicyKey(key),
         IsFiniteSet(DOMAIN slot_of), key.max_active_blocks = Cardinality(DOMAIN slot_of),
         NEW st \in States(slot_of), NEW item \in st.heap, Settled(st),
         NEW i, NEW w \in Int, Reaches(st, i, w)
  PROVE  Reaches(Popped(edges, slot_of, key, st, item), i, w)
<1> DEFINE next == Popped(edges, slot_of, key, st, item)
<1>1. /\ st.visits \in Seq(Items(DOMAIN slot_of)) /\ item \in Items(DOMAIN slot_of)
      /\ item.weight \in Int
  BY DEF States, Items
<1>2. \/ /\ next.visits = Append(st.visits, item) /\ st.heap \ {item} \subseteq next.heap
      \/ /\ next.visits = st.visits /\ next.heap = st.heap \ {item}
         /\ Found(st.visits, item.id, item.weight)
  BY OpenPop
<1> HIDE DEF next
<1>3. CASE Found(st.visits, i, w)
  <2>1. Found(next.visits, i, w)
    BY <1>1, <1>2, <1>3, FoundPersists
  <2>2. QED
    BY <2>1 DEF Reaches, next
<1>4. ASSUME NEW h \in st.heap, h.id = i, h.weight <= w
      PROVE  Reaches(next, i, w)
  <2>1. CASE h # item
    <3>1. h \in next.heap
      BY <1>2, <2>1
    <3>2. QED
      BY <1>4, <3>1 DEF Reaches
  <2>2. CASE h = item /\ next.visits = Append(st.visits, item)
    <3>1. Found(next.visits, i, w)
      BY <1>1, <1>4, <2>2, FoundPersists
    <3>2. QED
      BY <3>1 DEF Reaches
  <2>3. CASE h = item /\ next.visits = st.visits /\ Found(st.visits, item.id, item.weight)
    <3>1. Found(st.visits, i, w)
      BY <1>1, <1>4, <2>3, FoundWeaker
    <3>2. QED
      BY <2>3, <3>1 DEF Reaches
  <2>4. QED
    BY <1>2, <2>1, <2>2, <2>3
<1>5. QED
  BY <1>3, <1>4 DEF Reaches, next

\* An admitted item's edges are followed.
LEMMA AdmittedFollowed ==
  ASSUME NEW edges, NEW slot_of, NEW key, IsGraph(edges, slot_of), IsPolicyKey(key),
         NEW st \in States(slot_of), NEW item \in st.heap, Settled(st),
         item.depth # key.max_hops, Admits(slot_of, key, st.visits, item)
  PROVE  Followed(edges, key.min_weight, Popped(edges, slot_of, key, st, item), item)
<1> DEFINE next == Popped(edges, slot_of, key, st, item)
           m == key.min_weight
<1>1. /\ st.visits \in Seq(Items(DOMAIN slot_of)) /\ item \in Items(DOMAIN slot_of)
      /\ item.weight \in Nat /\ m \in Nat
  BY DEF States, Items, IsPolicyKey
<1>2. /\ next.visits = Append(st.visits, item)
      /\ Offers(edges, key, st.visits, item) \subseteq next.heap
  BY DEF Popped
<1>3. ASSUME NEW e \in DOMAIN edges, e[1] = item.id, edges[e] # BadWeight,
             ~(m < item.weight + Normalize(edges[e]))
      PROVE  Reaches(next, e[2], item.weight + Normalize(edges[e]))
  <2> DEFINE w == item.weight + Normalize(edges[e])
             o == [id |-> e[2], depth |-> item.depth + 1, parent |-> item.id, weight |-> w]
  <2>1. edges[e] \in Int
    BY <1>3 DEF IsGraph
  <2>2. Normalize(edges[e]) \in Nat
    BY <2>1 DEF Normalize
  <2>3. w \in Int /\ item.weight <= w /\ w <= m
    BY <1>1, <1>3, <2>2
  <2>4. CASE e[2] = item.id
    <3>1. Found(next.visits, e[2], w)
      BY <1>1, <1>2, <2>3, <2>4, FoundPersists
    <3>2. QED
      BY <3>1 DEF Reaches
  <2>5. CASE e[2] \in VisitedIds(st.visits)
    <3>1. PICK n \in 1..Len(st.visits) : st.visits[n].id = e[2]
      BY <2>5 DEF VisitedIds
    <3>2. Found(st.visits, e[2], item.weight)
      BY <3>1 DEF Settled, Found
    <3>3. Found(st.visits, e[2], w)
      BY <1>1, <2>3, <3>2, FoundWeaker
    <3>4. Found(next.visits, e[2], w)
      BY <1>1, <1>2, <3>3, FoundPersists
    <3>5. QED
      BY <3>4 DEF Reaches
  <2>6. CASE e[2] # item.id /\ e[2] \notin VisitedIds(st.visits)
    <3>1. o.id = e[2] /\ o.weight = w
      OBVIOUS
    <3>2. o \in Offers(edges, key, st.visits, item)
      <4>1. o.weight <= key.min_weight /\ o.id # item.id /\ o.id \notin VisitedIds(st.visits)
        BY <2>3, <2>6, <3>1
      <4>2. QED
        BY <1>3, <4>1 DEF Offers
    <3>3. o \in next.heap /\ w <= w
      BY <1>2, <2>3, <3>2
    <3> HIDE DEF o
    <3>4. QED
      BY <3>1, <3>3 DEF Reaches
  <2>7. QED
    BY <2>4, <2>5, <2>6
<1>4. QED
  BY <1>3 DEF Followed

\* A pop leaves no edge of a visited node unfollowed.
LEMMA PoppedRelaxed ==
  ASSUME NEW edges, NEW slot_of, NEW key, IsGraph(edges, slot_of), IsPolicyKey(key),
         IsFiniteSet(DOMAIN slot_of), key.max_active_blocks = Cardinality(DOMAIN slot_of),
         NEW st \in States(slot_of), NEW item \in st.heap, Settled(st),
         item.depth # key.max_hops, Relaxed(edges, key.min_weight, st)
  PROVE  Relaxed(edges, key.min_weight, Popped(edges, slot_of, key, st, item))
<1> DEFINE next == Popped(edges, slot_of, key, st, item)
           m == key.min_weight
<1>1. ASSUME NEW j \in Items(DOMAIN slot_of), Followed(edges, m, st, j)
      PROVE  Followed(edges, m, next, j)
  <2> SUFFICES ASSUME NEW e \in DOMAIN edges, e[1] = j.id, edges[e] # BadWeight
               PROVE  \/ m < j.weight + Normalize(edges[e])
                      \/ Reaches(next, e[2], j.weight + Normalize(edges[e]))
    BY DEF Followed
  <2>1. edges[e] \in Int /\ j.weight \in Nat
    BY DEF IsGraph, Items
  <2>2. j.weight + Normalize(edges[e]) \in Int
    BY <2>1 DEF Normalize
  <2>3. \/ m < j.weight + Normalize(edges[e])
        \/ Reaches(st, e[2], j.weight + Normalize(edges[e]))
    BY <1>1 DEF Followed
  <2>4. QED
    BY <2>2, <2>3, ReachesPersists
<1>2. /\ st.visits \in Seq(Items(DOMAIN slot_of)) /\ item \in Items(DOMAIN slot_of)
      /\ \A n \in 1..Len(st.visits) : st.visits[n] \in Items(DOMAIN slot_of)
  BY DEF States
<1>3. \A n \in 1..Len(st.visits) : Followed(edges, m, next, st.visits[n])
  <2> HIDE DEF next
  <2>1. QED
    BY <1>1, <1>2 DEF Relaxed
<1>4. CASE Admits(slot_of, key, st.visits, item)
  <2>1. next.visits = Append(st.visits, item)
    BY <1>4 DEF Popped
  <2>2. Followed(edges, m, next, item)
    BY <1>4, AdmittedFollowed
  <2> HIDE DEF next
  <2>3. /\ Len(next.visits) = Len(st.visits) + 1 /\ Len(st.visits) \in Nat
        /\ \A n \in 1..Len(st.visits) : next.visits[n] = st.visits[n]
        /\ next.visits[Len(st.visits) + 1] = item
    BY <1>2, <2>1, VisitAdds
  <2>4. ASSUME NEW n \in 1..Len(next.visits)
        PROVE  Followed(edges, m, next, next.visits[n])
    <3>1. n = Len(st.visits) + 1 \/ n \in 1..Len(st.visits)
      BY <2>3
    <3>2. QED
      BY <1>3, <2>2, <2>3, <3>1
  <2>5. QED
    BY <2>4 DEF Relaxed, next
<1>5. CASE ~Admits(slot_of, key, st.visits, item)
  <2>1. next.visits = st.visits
    BY <1>5 DEF Popped
  <2> HIDE DEF next
  <2>2. QED
    BY <1>3, <2>1 DEF Relaxed, next
<1>6. QED
  BY <1>4, <1>5

\* Queued and visited items carry the weights of walks.
LEMMA PoppedWalked ==
  ASSUME NEW edges, NEW slot_of, NEW key, IsGraph(edges, slot_of), IsPolicyKey(key),
         NEW from, NEW upto, IsWalking(upto, edges, DOMAIN slot_of, from),
         NEW st \in States(slot_of), NEW item \in st.heap, AllWalked(upto, key.min_weight, st)
  PROVE  AllWalked(upto, key.min_weight, Popped(edges, slot_of, key, st, item))
<1> DEFINE next == Popped(edges, slot_of, key, st, item)
           m == key.min_weight
<1>1. /\ st.visits \in Seq(Items(DOMAIN slot_of)) /\ item \in Items(DOMAIN slot_of)
      /\ Walked(upto, m, item)
  BY DEF States, AllWalked
<1>2. ASSUME NEW o \in Offers(edges, key, st.visits, item)
      PROVE  Walked(upto, m, o)
  <2>1. PICK e \in DOMAIN edges :
          /\ e = <<item.id, o.id>> /\ edges[e] # BadWeight
          /\ o = [id |-> e[2], depth |-> item.depth + 1, parent |-> item.id,
                  weight |-> item.weight + Normalize(edges[e])]
    BY <1>1, OfferIs
  <2>2. o.weight <= m /\ o.id \in DOMAIN slot_of
    BY <1>1, OfferIs DEF Items
  <2>3. item.depth \in Nat /\ item.weight \in upto[item.depth][item.id]
    BY <1>1 DEF Walked, Items
  <2>4. e[1] = item.id /\ e[2] = o.id /\ o.depth = item.depth + 1
        /\ o.weight = item.weight + Normalize(edges[e])
    BY <2>1
  <2>7. o.weight \in upto[item.depth + 1][o.id]
    BY <2>1, <2>2, <2>3, <2>4, WalkGoesOn
  <2>8. QED
    BY <2>2, <2>4, <2>7 DEF Walked
<1>3. CASE Admits(slot_of, key, st.visits, item)
  <2>1. /\ next.visits = Append(st.visits, item)
        /\ next.heap = (st.heap \ {item}) \cup Offers(edges, key, st.visits, item)
    BY <1>3 DEF Popped
  <2> HIDE DEF next
  <2>2. /\ Len(next.visits) = Len(st.visits) + 1 /\ Len(st.visits) \in Nat
        /\ \A n \in 1..Len(st.visits) : next.visits[n] = st.visits[n]
        /\ next.visits[Len(st.visits) + 1] = item
    BY <1>1, <2>1, VisitAdds
  <2>3. ASSUME NEW n \in 1..Len(next.visits)
        PROVE  Walked(upto, m, next.visits[n])
    <3>1. n = Len(st.visits) + 1 \/ n \in 1..Len(st.visits)
      BY <2>2
    <3>2. QED
      BY <1>1, <2>2, <3>1 DEF AllWalked
  <2>4. \A h \in next.heap : Walked(upto, m, h)
    BY <1>2, <2>1 DEF AllWalked
  <2>5. QED
    BY <2>3, <2>4 DEF AllWalked, next
<1>4. CASE ~Admits(slot_of, key, st.visits, item)
  BY <1>4 DEF Popped, AllWalked
<1>5. QED
  BY <1>3, <1>4

\* Depths stay below the number of visits.
LEMMA PoppedShallow ==
  ASSUME NEW edges, NEW slot_of, NEW key, IsGraph(edges, slot_of), IsPolicyKey(key),
         NEW most \in Nat, NEW st \in States(slot_of), NEW item \in st.heap,
         Shallow(st, most), Len(st.visits) < most
  PROVE  Shallow(Popped(edges, slot_of, key, st, item), most)
<1> DEFINE next == Popped(edges, slot_of, key, st, item)
<1>1. /\ st.visits \in Seq(Items(DOMAIN slot_of)) /\ item \in Items(DOMAIN slot_of)
      /\ item.depth \in Nat /\ item.depth <= Len(st.visits) /\ Len(st.visits) \in Nat
      /\ st.heap \subseteq Items(DOMAIN slot_of)
  BY DEF States, Items, Shallow
<1>2. CASE Admits(slot_of, key, st.visits, item)
  <2>1. /\ next.visits = Append(st.visits, item)
        /\ next.heap = (st.heap \ {item}) \cup Offers(edges, key, st.visits, item)
    BY <1>2 DEF Popped
  <2> HIDE DEF next
  <2>2. /\ Len(next.visits) = Len(st.visits) + 1
        /\ \A n \in 1..Len(st.visits) : next.visits[n] = st.visits[n]
        /\ next.visits[Len(st.visits) + 1] = item
    BY <1>1, <2>1, VisitAdds
  <2>3. ASSUME NEW n \in 1..Len(next.visits)
        PROVE  next.visits[n].depth < most
    <3>1. CASE n = Len(st.visits) + 1
      BY <1>1, <2>2, <3>1
    <3>2. CASE n \in 1..Len(st.visits)
      BY <2>2, <3>2 DEF Shallow
    <3>3. QED
      BY <1>1, <2>2, <3>1, <3>2
  <2>4. ASSUME NEW h \in next.heap
        PROVE  h.depth <= Len(next.visits)
    <3>1. CASE h \in st.heap
      <4>1. h.depth <= Len(st.visits) /\ h.depth \in Nat
        BY <1>1, <3>1 DEF Shallow, Items
      <4>2. QED
        BY <1>1, <2>2, <4>1
    <3>2. CASE h \in Offers(edges, key, st.visits, item)
      <4>1. h.depth = item.depth + 1
        BY <1>1, <3>2, OfferIs
      <4>2. QED
        BY <1>1, <2>2, <4>1
    <3>3. QED
      BY <2>1, <3>1, <3>2
  <2>5. QED
    BY <2>3, <2>4 DEF Shallow, next
<1>3. CASE ~Admits(slot_of, key, st.visits, item)
  BY <1>3 DEF Popped, Shallow
<1>4. QED
  BY <1>2, <1>3

\* When the expansion ends, nothing in the queue is new: every path reached
\* leads to a visit.
LEMMA ReachedIsFound ==
  ASSUME NEW edges, NEW slot_of, NEW key, IsGraph(edges, slot_of),
         IsFiniteSet(DOMAIN slot_of), key.max_nodes = Cardinality(DOMAIN slot_of),
         NEW st \in States(slot_of), Finished(key, st), VisitedOnce(st.visits), Settled(st),
         NEW i, NEW w \in Int, Reaches(st, i, w)
  PROVE  Found(st.visits, i, w)
<1> DEFINE V == DOMAIN slot_of
           visits == st.visits
           last == Len(visits)
           ids == VisitedIds(visits)
           f == [n \in 1..last |-> visits[n].id]
<1>1. visits \in Seq(Items(V)) /\ last \in Nat /\ st.heap \subseteq Items(V)
  BY DEF States
<1>2. \A n \in 1..last : visits[n].id \in V /\ visits[n].weight \in Nat
  <2>1. \A n \in 1..last : visits[n] \in Items(V)
    BY <1>1
  <2>2. QED
    BY <2>1 DEF Items
<1>3. CASE st.heap = {}
  BY <1>3 DEF Reaches
<1>4. CASE last >= Cardinality(V)
  <2>1. ids \in SUBSET V
    BY <1>2 DEF VisitedIds
  <2>2. f \in [1..last -> ids] /\ \A j, k \in 1..last : f[j] = f[k] => j = k
    BY DEF VisitedOnce, VisitedIds
  <2>3. IsFiniteSet(V) /\ Cardinality(V) \in Nat
    BY FS_CardinalityType
  <2> HIDE DEF V, ids, f, last
  <2>4. IsFiniteSet(ids) /\ Cardinality(ids) <= Cardinality(V)
        /\ (Cardinality(ids) = Cardinality(V) => ids = V)
    BY <2>1, <2>3, FS_Subset
  <2>5. Cardinality(1..last) <= Cardinality(ids) /\ Cardinality(1..last) = last
    <3>1. IsFiniteSet(1..last) /\ Cardinality(1..last) = last
      BY <1>1, FS_Interval
    <3>2. f \in Injection(1..last, ids)
      BY <2>2 DEF Injection, IsInjective
    <3>3. QED
      BY <2>4, <3>1, <3>2, FS_Injection
  <2>6. ids = V
    <3>1. Cardinality(ids) \in Nat
      BY <2>4, FS_CardinalityType
    <3>2. QED
      BY <1>1, <1>4, <2>3, <2>4, <2>5, <3>1
  <2>7. ASSUME NEW h \in st.heap, h.id = i, h.weight <= w
        PROVE  Found(visits, i, w)
    <3>1. h.id \in V /\ h.weight \in Nat
      BY <1>1 DEF Items
    <3>2. PICK n \in 1..last : visits[n].id = i
      BY <2>6, <2>7, <3>1 DEF ids, VisitedIds, last
    <3>3. visits[n].weight <= h.weight /\ visits[n].weight \in Nat
      BY <1>2, <3>2 DEF Settled, last
    <3>4. visits[n].weight <= w
      BY <2>7, <3>1, <3>3
    <3>5. QED
      BY <3>2, <3>4 DEF Found, last
  <2>8. QED
    BY <2>7 DEF Reaches
<1>5. QED
  BY <1>3, <1>4 DEF Finished

\* The parts of the argument, as one property of the states of the loop.
StrongestSoFar(edges, key, from, most, upto, st) ==
  /\ Ordered(st.visits) /\ Settled(st) /\ VisitedOnce(st.visits)
  /\ Shallow(st, most) /\ AllWalked(upto, key.min_weight, st)
  /\ Relaxed(edges, key.min_weight, st) /\ Reaches(st, from, 0)

\* A visit once made is not repeated.
LEMMA PoppedOnce ==
  ASSUME NEW edges, NEW slot_of, NEW key, NEW st \in States(slot_of), NEW item \in st.heap,
         VisitedOnce(st.visits)
  PROVE  VisitedOnce(Popped(edges, slot_of, key, st, item).visits)
<1> DEFINE next == Popped(edges, slot_of, key, st, item)
<1>1. CASE ~Admits(slot_of, key, st.visits, item)
  BY <1>1 DEF Popped
<1>2. CASE Admits(slot_of, key, st.visits, item)
  <2>1. /\ next.visits = Append(st.visits, item) /\ item.id \notin VisitedIds(st.visits)
        /\ st.visits \in Seq(Items(DOMAIN slot_of)) /\ item \in Items(DOMAIN slot_of)
    BY <1>2 DEF Popped, Admits, States
  <2>2. /\ Len(next.visits) = Len(st.visits) + 1 /\ Len(st.visits) \in Nat
        /\ \A n \in 1..Len(st.visits) : next.visits[n] = st.visits[n]
        /\ next.visits[Len(st.visits) + 1] = item
    BY <2>1, VisitAdds
  <2>3. \A n \in 1..Len(st.visits) : st.visits[n].id # item.id
    BY <2>1 DEF VisitedIds
  <2> HIDE DEF next
  <2>4. ASSUME NEW m \in 1..Len(next.visits), NEW n \in 1..Len(next.visits),
               next.visits[m].id = next.visits[n].id
        PROVE  m = n
    <3>1. CASE m \in 1..Len(st.visits) /\ n \in 1..Len(st.visits)
      BY <2>2, <2>4, <3>1 DEF VisitedOnce
    <3>2. CASE m = Len(st.visits) + 1 /\ n \in 1..Len(st.visits)
      BY <2>2, <2>3, <2>4, <3>2
    <3>3. CASE n = Len(st.visits) + 1 /\ m \in 1..Len(st.visits)
      BY <2>2, <2>3, <2>4, <3>3
    <3>4. QED
      BY <2>2, <3>1, <3>2, <3>3
  <2>5. QED
    BY <2>4 DEF VisitedOnce, next
<1>3. QED
  BY <1>1, <1>2

LEMMA PoppedSearching ==
  ASSUME NEW edges, NEW slot_of, NEW key, IsGraph(edges, slot_of), IsPolicyKey(key),
         IsFiniteSet(DOMAIN slot_of), NEW from, NEW m,
         IsOpen(key, from, Cardinality(DOMAIN slot_of), m),
         NEW upto, IsWalking(upto, edges, DOMAIN slot_of, from),
         NEW st \in States(slot_of), NEW item \in st.heap, ~Finished(key, st),
         \A j \in st.heap : PopsBefore(item, j),
         StrongestSoFar(edges, key, from, Cardinality(DOMAIN slot_of), upto, st)
  PROVE  StrongestSoFar(edges, key, from, Cardinality(DOMAIN slot_of), upto,
                   Popped(edges, slot_of, key, st, item))
<1> DEFINE next == Popped(edges, slot_of, key, st, item)
           most == Cardinality(DOMAIN slot_of)
<1>1. /\ Ordered(st.visits) /\ Settled(st) /\ VisitedOnce(st.visits)
      /\ Shallow(st, most) /\ AllWalked(upto, key.min_weight, st)
      /\ Relaxed(edges, key.min_weight, st) /\ Reaches(st, from, 0)
  BY DEF StrongestSoFar
<1>2. key.max_hops = most /\ key.max_nodes = most /\ key.max_active_blocks = most
  BY DEF IsOpen
<1>3. most \in Nat
  BY FS_CardinalityType
<1>4. Len(st.visits) < most /\ item.depth # key.max_hops
  <2>1. Len(st.visits) \in Nat /\ item.depth \in Nat /\ item.depth <= Len(st.visits)
    BY <1>1 DEF States, Items, Shallow
  <2>2. ~(Len(st.visits) >= most)
    BY <1>2 DEF Finished
  <2> HIDE DEF most
  <2>3. QED
    BY <1>2, <1>3, <2>1, <2>2
<1>5. Ordered(next.visits) /\ Settled(next)
  BY <1>1, PoppedOrdered
<1>6. VisitedOnce(next.visits)
  BY <1>1, PoppedOnce
<1>7. Shallow(next, most)
  BY <1>1, <1>3, <1>4, PoppedShallow
<1>8. AllWalked(upto, key.min_weight, next)
  BY <1>1, PoppedWalked
<1>9. Relaxed(edges, key.min_weight, next)
  BY <1>1, <1>2, <1>4, PoppedRelaxed
<1>10. Reaches(next, from, 0)
  <2>1. 0 \in Int
    OBVIOUS
  <2>2. QED
    BY <1>1, <1>2, <2>1, ReachesPersists
<1>11. QED
  BY <1>5, <1>6, <1>7, <1>8, <1>9, <1>10 DEF StrongestSoFar

\* At the end every strong enough walk has been matched by a visit.
LEMMA WalksAreFound ==
  ASSUME NEW edges, NEW slot_of, NEW key, IsGraph(edges, slot_of), IsPolicyKey(key),
         IsFiniteSet(DOMAIN slot_of), NEW from \in DOMAIN slot_of, NEW m \in Nat,
         IsOpen(key, from, Cardinality(DOMAIN slot_of), m),
         NEW upto, IsWalking(upto, edges, DOMAIN slot_of, from),
         NEW st \in States(slot_of), Finished(key, st),
         StrongestSoFar(edges, key, from, Cardinality(DOMAIN slot_of), upto, st),
         NEW n \in Nat, NEW j \in DOMAIN slot_of, NEW w \in upto[n][j], w <= m
  PROVE  Found(st.visits, j, w)
<1> DEFINE V == DOMAIN slot_of
           Good(k) == \A i \in V : \A x \in upto[k][i] : x <= m => Found(st.visits, i, x)
           good == {k \in Nat : Good(k)}
<1>1. /\ Settled(st) /\ VisitedOnce(st.visits) /\ Relaxed(edges, m, st) /\ Reaches(st, from, 0)
      /\ key.max_nodes = Cardinality(V)
      /\ st.visits \in Seq(Items(V))
  BY DEF StrongestSoFar, IsOpen, States
<1>2. \A i : \A x \in Int : Reaches(st, i, x) => Found(st.visits, i, x)
  BY <1>1, ReachedIsFound
<1>3. Good(0)
  <2>1. ASSUME NEW i \in V, NEW x \in upto[0][i]
        PROVE  Found(st.visits, i, x)
    <3>1. x = 0 /\ i = from /\ 0 \in Int
      BY <2>1 DEF IsWalking
    <3>2. QED
      BY <1>1, <1>2, <3>1
  <2>2. QED
    BY <2>1
<1>4. ASSUME NEW k \in Nat, Good(k)
      PROVE  Good(k + 1)
  <2> SUFFICES ASSUME NEW i \in V, NEW x \in upto[k + 1][i], x <= m
               PROVE  Found(st.visits, i, x)
    OBVIOUS
  <2>1. upto[k + 1][i] = upto[k][i] \cup
          UNION {{y + Normalize(edges[e]) : y \in upto[k][e[1]]} :
                   e \in {e \in DOMAIN edges : e[2] = i /\ edges[e] # BadWeight}}
    BY Zenon DEF IsWalking
  <2>2. CASE x \in upto[k][i]
    BY <1>4, <2>2
  <2>3. CASE x \notin upto[k][i]
    <3>1. PICK e \in DOMAIN edges : /\ e[2] = i /\ edges[e] # BadWeight
                                    /\ x \in {y + Normalize(edges[e]) : y \in upto[k][e[1]]}
      BY <2>1, <2>3
    <3>2. PICK y \in upto[k][e[1]] : x = y + Normalize(edges[e])
      BY <3>1
    <3>3. e[1] \in V /\ Normalize(edges[e]) \in Nat
      <4>1. edges[e] \in Int /\ e[1] \in V
        BY <3>1 DEF IsGraph
      <4>2. QED
        BY <4>1 DEF Normalize
    <3>4. y \in Nat
      BY <3>2, <3>3 DEF IsWalking
    <3>5. y <= m
      BY <3>2, <3>3, <3>4
    <3>6. Found(st.visits, e[1], y)
      BY <1>4, <3>3, <3>5
    <3>7. PICK n_ \in 1..Len(st.visits) : /\ st.visits[n_].id = e[1]
                                          /\ st.visits[n_].weight <= y
      BY <3>6 DEF Found
    <3> DEFINE v == st.visits[n_].weight
    <3>8. v \in Nat
      <4>1. st.visits[n_] \in Items(V)
        BY <1>1
      <4>2. QED
        BY <4>1 DEF Items
    <3>9. m < v + Normalize(edges[e]) \/ Reaches(st, i, v + Normalize(edges[e]))
      BY <1>1, <3>1, <3>7 DEF Relaxed, Followed
    <3> HIDE DEF v
    <3>10. v <= y
      BY <3>7 DEF v
    <3>11. v + Normalize(edges[e]) \in Int /\ v + Normalize(edges[e]) <= x /\ x \in Int
           /\ ~(m < v + Normalize(edges[e]))
      BY <3>2, <3>3, <3>4, <3>8, <3>10
    <3>12. Found(st.visits, i, v + Normalize(edges[e]))
      BY <1>2, <3>9, <3>11
    <3>13. QED
      BY <1>1, <3>11, <3>12, FoundWeaker
  <2>4. QED
    BY <2>2, <2>3
<1>5. good = Nat
  <2>1. 0 \in good /\ \A k \in good : k + 1 \in good
    <3> HIDE DEF Good
    <3>1. QED
      BY <1>3, <1>4
  <2>2. good \in SUBSET Nat
    OBVIOUS
  <2> HIDE DEF good
  <2>3. QED
    BY <2>1, <2>2, NatSetInduction
<1>6. n \in good
  BY <1>5
<1>7. QED
  BY <1>6

\* A single seed, queued.
LEMMA SeedQueued ==
  ASSUME NEW slot_of, NEW key, NEW from \in DOMAIN slot_of, key.seeds = {from}
  PROVE  Seeded(slot_of, key) = {[id |-> from, depth |-> 0, parent |-> NoParent, weight |-> 0]}
<1>1. key.seeds \cap DOMAIN slot_of = {from}
  OBVIOUS
<1>2. QED
  BY <1>1 DEF Seeded

\* Without budgets, what is visited is what a strong enough walk reaches, and
\* each node along a strongest one.
THEOREM StrongestVisited ==
  ASSUME NEW edges, NEW slot_of, NEW key, IsGraph(edges, slot_of), IsPolicyKey(key),
         IsFiniteSet(DOMAIN slot_of), NEW from \in DOMAIN slot_of, NEW m \in Nat,
         IsOpen(key, from, Cardinality(DOMAIN slot_of), m),
         NEW upto, IsWalking(upto, edges, DOMAIN slot_of, from)
  PROVE  LET visits == WeightedVisits(edges, slot_of, key)
             walks == upto[Cardinality(DOMAIN slot_of)]
         IN  /\ VisitedIds(visits) = {j \in DOMAIN slot_of : \E w \in walks[j] : w <= m}
             /\ \A n \in 1..Len(visits) : /\ visits[n].weight \in walks[visits[n].id]
                                          /\ \A w \in walks[visits[n].id] : visits[n].weight <= w
<1> DEFINE V == DOMAIN slot_of
           most == Cardinality(V)
           walks == upto[most]
           start == [heap |-> Seeded(slot_of, key), visits |-> << >>]
           seed == [id |-> from, depth |-> 0, parent |-> NoParent, weight |-> 0]
           P == {st \in States(slot_of) : StrongestSoFar(edges, key, from, most, upto, st)}
<1>1. /\ key.max_hops = most /\ key.max_nodes = most /\ key.max_active_blocks = most
      /\ key.min_weight = m /\ key.seeds = {from}
  BY DEF IsOpen
<1>2. most \in Nat /\ most # 0
  <2>1. most \in Nat
    BY FS_CardinalityType
  <2>2. V # {}
    OBVIOUS
  <2> HIDE DEF V
  <2>3. IsFiniteSet(V) /\ Cardinality(V) # 0
    BY <2>2, FS_EmptySet DEF V
  <2>4. QED
    BY <2>1, <2>3
<1>3. start \in P
  <2>1. start \in States(slot_of)
    BY SeedsAre
  <2>2. start.heap = {seed} /\ start.visits = << >> /\ Len(start.visits) = 0
    BY <1>1, SeedQueued
  <2> HIDE DEF start
  <2>3. /\ Ordered(start.visits) /\ Settled(start) /\ VisitedOnce(start.visits)
        /\ Relaxed(edges, key.min_weight, start)
    BY <2>2 DEF Ordered, Settled, VisitedOnce, Relaxed
  <2>4. Shallow(start, most)
    BY <2>2 DEF Shallow
  <2>5. upto[0][from] = {0}
    BY DEF IsWalking
  <2>6. AllWalked(upto, key.min_weight, start)
    BY <1>1, <2>2, <2>5 DEF AllWalked, Walked
  <2>7. Reaches(start, from, 0)
    <3>1. seed \in start.heap /\ seed.id = from /\ seed.weight <= 0
      BY <2>2
    <3>2. QED
      BY <3>1 DEF Reaches
  <2>8. QED
    BY <2>1, <2>3, <2>4, <2>6, <2>7 DEF StrongestSoFar
<1>4. ASSUME NEW st \in P, NEW item \in st.heap, ~Finished(key, st),
             \A j \in st.heap : PopsBefore(item, j)
      PROVE  Popped(edges, slot_of, key, st, item) \in P
  BY <1>4, PoppedType, PoppedSearching
<1>5. P \in SUBSET States(slot_of)
  OBVIOUS
<1>6. PICK st \in P : Finished(key, st) /\ WeightedVisits(edges, slot_of, key) = st.visits
  <2> HIDE DEF P, start, most
  <2>1. key.max_nodes # 0 /\ key.max_active_blocks # 0
    BY <1>1, <1>2
  <2>2. [heap |-> Seeded(slot_of, key), visits |-> << >>] \in P
    BY <1>3 DEF start
  <2>3. QED
    BY <1>4, <1>5, <2>1, <2>2, VisitInduction
<1> DEFINE visits == st.visits
<1>7. /\ visits \in Seq(Items(V)) /\ VisitedOnce(visits)
      /\ Shallow(st, most) /\ AllWalked(upto, m, st)
      /\ StrongestSoFar(edges, key, from, most, upto, st) /\ st \in States(slot_of)
  BY <1>1, <1>6 DEF StrongestSoFar, States
<1>8. ASSUME NEW j \in V, NEW w \in walks[j], w <= m
      PROVE  Found(visits, j, w)
  BY <1>2, <1>6, <1>7, <1>8, WalksAreFound
<1>9. ASSUME NEW n \in 1..Len(visits)
      PROVE  /\ visits[n].id \in V /\ visits[n].weight \in Nat /\ visits[n].weight <= m
             /\ visits[n].weight \in walks[visits[n].id]
  <2> DEFINE v == visits[n]
  <2>1. v \in Items(V) /\ v.depth < most /\ Walked(upto, m, v)
    BY <1>7 DEF Shallow, AllWalked
  <2> HIDE DEF v, most
  <2>2. v.id \in V /\ v.weight \in Nat /\ v.depth \in Nat
    BY <2>1 DEF Items
  <2>3. upto[v.depth][v.id] \subseteq upto[most][v.id]
    <3>1. v.depth <= most
      BY <1>2, <2>1, <2>2
    <3>2. QED
      BY <1>2, <2>2, <3>1, WalksGrow
  <2>4. QED
    BY <2>1, <2>2, <2>3 DEF Walked, v
<1> HIDE DEF visits, walks, V
<1>10. VisitedIds(visits) = {j \in V : \E w \in walks[j] : w <= m}
  <2>1. ASSUME NEW j \in VisitedIds(visits)
        PROVE  j \in V /\ \E w \in walks[j] : w <= m
    <3>1. PICK n \in 1..Len(visits) : j = visits[n].id
      BY DEF VisitedIds
    <3>2. QED
      BY <1>9, <3>1
  <2>2. ASSUME NEW j \in V, NEW w \in walks[j], w <= m
        PROVE  j \in VisitedIds(visits)
    BY <1>8, <2>2 DEF Found, VisitedIds
  <2>3. QED
    BY <2>1, <2>2
<1>11. ASSUME NEW n \in 1..Len(visits), NEW w \in walks[visits[n].id]
       PROVE  visits[n].weight <= w
  <2>1. visits[n].id \in V /\ visits[n].weight \in Nat /\ visits[n].weight <= m
    BY <1>9
  <2>2. w \in Nat
    BY <1>2, <2>1 DEF walks, V, IsWalking
  <2>3. CASE w <= m
    <3>1. PICK k \in 1..Len(visits) : visits[k].id = visits[n].id /\ visits[k].weight <= w
      BY <1>8, <2>1, <2>3 DEF Found
    <3>2. k = n
      BY <1>7, <3>1 DEF VisitedOnce
    <3>3. QED
      BY <3>1, <3>2
  <2>4. CASE m < w
    BY <2>1, <2>2, <2>4
  <2>5. QED
    BY <2>2, <2>3, <2>4
<1>12. QED
  BY <1>6, <1>9, <1>10, <1>11 DEF visits, walks, V

-----------------------------------------------------------------------------
\* With budgets, what is left out is what a used-up budget has no room for.

Used(slot_of, visits) == {BlockOf(slot_of[i]) : i \in VisitedIds(visits)}

\* A block was opened by a node no weaker than w.
OpenedBy(slot_of, visits, b, w) ==
  \E n \in 1..Len(visits) : BlockOf(slot_of[visits[n].id]) = b /\ visits[n].weight <= w

\* All blocks are in use, and none is that of i or was opened by a weaker node.
CutOff(slot_of, key, visits, i, w) ==
  /\ Cardinality(Used(slot_of, visits)) = key.max_active_blocks
  /\ BlockOf(slot_of[i]) \notin Used(slot_of, visits)
  /\ \A b \in Used(slot_of, visits) : OpenedBy(slot_of, visits, b, w)

Owed(slot_of, key, st, i, w) == Reaches(st, i, w) \/ CutOff(slot_of, key, st.visits, i, w)

\* The usable edges of a visited item that had a hop left.
OwedBy(edges, slot_of, key, st, item) ==
  item.depth # key.max_hops =>
    \A e \in DOMAIN edges :
      e[1] = item.id /\ edges[e] # BadWeight =>
        LET w == item.weight + Normalize(edges[e])
        IN  key.min_weight < w \/ Owed(slot_of, key, st, e[2], w)

Affordable(key, item) == item.depth <= key.max_hops /\ item.weight <= key.min_weight

InBudget(slot_of, key, st) ==
  /\ Len(st.visits) <= key.max_nodes
  /\ Cardinality(Used(slot_of, st.visits)) <= key.max_active_blocks
  /\ \A n \in 1..Len(st.visits) : Affordable(key, st.visits[n])
  /\ \A h \in st.heap : Affordable(key, h)

\* The parts of the argument, as one property of the states of the loop.
AccountedSoFar(edges, slot_of, key, st) ==
  /\ Ordered(st.visits) /\ Settled(st) /\ InBudget(slot_of, key, st)
  /\ \A s \in key.seeds \cap DOMAIN slot_of : Owed(slot_of, key, st, s, 0)
  /\ \A n \in 1..Len(st.visits) : OwedBy(edges, slot_of, key, st, st.visits[n])

\* The blocks in use, and how a visit adds to them.
LEMMA UsedGrows ==
  ASSUME NEW slot_of, NEW visits \in Seq(Items(DOMAIN slot_of)), NEW item \in Items(DOMAIN slot_of)
  PROVE  /\ IsFiniteSet(Used(slot_of, visits)) /\ Cardinality(Used(slot_of, visits)) \in Nat
         /\ Used(slot_of, Append(visits, item)) =
              Used(slot_of, visits) \cup {BlockOf(slot_of[item.id])}
<1> DEFINE f == [n \in 1..Len(visits) |-> BlockOf(slot_of[visits[n].id])]
<1>1. {f[n] : n \in 1..Len(visits)} = Used(slot_of, visits)
  BY DEF Used, VisitedIds
<1>2. DOMAIN f = 1..Len(visits) /\ f = [n \in 1..Len(visits) |-> f[n]]
  OBVIOUS
<1>3. IsFiniteSet(1..Len(visits))
  BY FS_Interval
<1> HIDE DEF f
<1>4. IsFiniteSet(Used(slot_of, visits))
  BY <1>1, <1>2, <1>3, ImageIsSmaller
<1>5. VisitedIds(Append(visits, item)) = VisitedIds(visits) \cup {item.id}
  BY VisitAdds
<1>6. QED
  BY <1>4, <1>5, FS_CardinalityType DEF Used

\* A block that was opened stays opened.
LEMMA OpenedPersists ==
  ASSUME NEW slot_of, NEW visits \in Seq(Items(DOMAIN slot_of)), NEW item \in Items(DOMAIN slot_of),
         NEW b, NEW w, OpenedBy(slot_of, visits, b, w)
  PROVE  OpenedBy(slot_of, Append(visits, item), b, w)
<1>1. PICK n \in 1..Len(visits) : BlockOf(slot_of[visits[n].id]) = b /\ visits[n].weight <= w
  BY DEF OpenedBy
<1> DEFINE longer == Append(visits, item)
<1>2. n \in 1..Len(longer) /\ longer[n] = visits[n]
  BY VisitAdds
<1> HIDE DEF longer
<1>3. QED
  BY <1>1, <1>2 DEF OpenedBy, longer

\* When all blocks are in use a visit opens no other, so what is cut off stays so.
LEMMA CutOffPersists ==
  ASSUME NEW slot_of, NEW key, IsPolicyKey(key), NEW visits \in Seq(Items(DOMAIN slot_of)),
         NEW item \in Items(DOMAIN slot_of), Admits(slot_of, key, visits, item),
         NEW i, NEW w, CutOff(slot_of, key, visits, i, w)
  PROVE  CutOff(slot_of, key, Append(visits, item), i, w)
<1> DEFINE used == Used(slot_of, visits)
           longer == Append(visits, item)
<1>1. /\ Cardinality(used) = key.max_active_blocks /\ Cardinality(used) \in Nat
      /\ BlockOf(slot_of[i]) \notin used
      /\ \A b \in used : OpenedBy(slot_of, visits, b, w)
  BY UsedGrows DEF CutOff
<1>2. BlockOf(slot_of[item.id]) \in used
  <2>1. BlockOf(slot_of[item.id]) \in used \/ Cardinality(used) < key.max_active_blocks
    BY DEF Admits, Used
  <2> HIDE DEF used
  <2>2. QED
    BY <1>1, <2>1
<1>3. Used(slot_of, longer) = used
  <2>1. Used(slot_of, longer) = used \cup {BlockOf(slot_of[item.id])}
    BY UsedGrows
  <2> HIDE DEF used, longer
  <2>2. QED
    BY <1>2, <2>1
<1>4. \A b \in used : OpenedBy(slot_of, longer, b, w)
  BY <1>1, OpenedPersists
<1> HIDE DEF used, longer
<1>5. QED
  BY <1>1, <1>3, <1>4 DEF CutOff, longer

LEMMA CutOffWeaker ==
  ASSUME NEW slot_of, NEW key, NEW visits \in Seq(Items(DOMAIN slot_of)),
         NEW i, NEW v \in Int, NEW w \in Int, v <= w, CutOff(slot_of, key, visits, i, v)
  PROVE  CutOff(slot_of, key, visits, i, w)
<1>1. ASSUME NEW b, OpenedBy(slot_of, visits, b, v)
      PROVE  OpenedBy(slot_of, visits, b, w)
  <2>1. PICK n \in 1..Len(visits) : BlockOf(slot_of[visits[n].id]) = b /\ visits[n].weight <= v
    BY <1>1 DEF OpenedBy
  <2>2. visits[n] \in Items(DOMAIN slot_of)
    OBVIOUS
  <2>3. visits[n].weight \in Nat
    BY <2>2 DEF Items
  <2>4. visits[n].weight <= w
    BY <2>1, <2>3
  <2>5. QED
    BY <2>1, <2>4 DEF OpenedBy
<1>2. QED
  BY <1>1 DEF CutOff

\* An item that is not admitted was visited before or is cut off.
LEMMA DroppedIsOwed ==
  ASSUME NEW slot_of, NEW key, IsPolicyKey(key), NEW st \in States(slot_of), NEW item \in st.heap,
         Settled(st), InBudget(slot_of, key, st), ~Admits(slot_of, key, st.visits, item)
  PROVE  \/ Found(st.visits, item.id, item.weight)
         \/ CutOff(slot_of, key, st.visits, item.id, item.weight)
<1> DEFINE visits == st.visits
           used == Used(slot_of, visits)
<1>1. visits \in Seq(Items(DOMAIN slot_of)) /\ item \in Items(DOMAIN slot_of)
  BY DEF States
<1>2. \A n \in 1..Len(visits) : visits[n].weight <= item.weight
  BY DEF Settled
<1>3. CASE item.id \in VisitedIds(visits)
  <2>1. PICK n \in 1..Len(visits) : visits[n].id = item.id
    BY <1>3 DEF VisitedIds
  <2>2. QED
    BY <1>2, <2>1 DEF Found
<1>4. CASE item.id \notin VisitedIds(visits)
  <2>1. item.id \in DOMAIN slot_of
    BY <1>1 DEF Items
  <2>2. BlockOf(slot_of[item.id]) \notin used /\ ~(Cardinality(used) < key.max_active_blocks)
    BY <1>4, <2>1 DEF Admits, Used
  <2>3. Cardinality(used) <= key.max_active_blocks
    BY DEF InBudget
  <2>4. Cardinality(used) \in Nat /\ key.max_active_blocks \in Nat
    BY <1>1, UsedGrows DEF IsPolicyKey
  <2>5. Cardinality(used) = key.max_active_blocks
    <3> HIDE DEF used
    <3>1. QED
      BY <2>2, <2>3, <2>4
  <2>6. ASSUME NEW b \in used
        PROVE  OpenedBy(slot_of, visits, b, item.weight)
    <3>1. PICK i \in VisitedIds(visits) : b = BlockOf(slot_of[i])
      BY DEF Used
    <3>2. PICK n \in 1..Len(visits) : i = visits[n].id
      BY DEF VisitedIds
    <3>3. QED
      BY <1>2, <3>1, <3>2 DEF OpenedBy
  <2>7. QED
    BY <2>2, <2>5, <2>6 DEF CutOff
<1>5. QED
  BY <1>3, <1>4

\* A pop forgets nobody.
LEMMA OwedPersists ==
  ASSUME NEW edges, NEW slot_of, NEW key, IsGraph(edges, slot_of), IsPolicyKey(key),
         NEW st \in States(slot_of), NEW item \in st.heap,
         Settled(st), InBudget(slot_of, key, st),
         NEW i, NEW w \in Int, Owed(slot_of, key, st, i, w)
  PROVE  Owed(slot_of, key, Popped(edges, slot_of, key, st, item), i, w)
<1> DEFINE next == Popped(edges, slot_of, key, st, item)
<1>1. /\ st.visits \in Seq(Items(DOMAIN slot_of)) /\ item \in Items(DOMAIN slot_of)
      /\ item.weight \in Int
  BY DEF States, Items
<1>2. \/ /\ Admits(slot_of, key, st.visits, item)
         /\ next.visits = Append(st.visits, item) /\ st.heap \ {item} \subseteq next.heap
      \/ /\ ~Admits(slot_of, key, st.visits, item)
         /\ next.visits = st.visits /\ next.heap = st.heap \ {item}
  BY DEF Popped
<1> HIDE DEF next
<1>3. CASE Found(st.visits, i, w)
  <2>1. Found(next.visits, i, w)
    BY <1>1, <1>2, <1>3, FoundPersists
  <2>2. QED
    BY <2>1 DEF Reaches, Owed, next
<1>4. CASE CutOff(slot_of, key, st.visits, i, w)
  <2>1. CutOff(slot_of, key, next.visits, i, w)
    BY <1>1, <1>2, <1>4, CutOffPersists
  <2>2. QED
    BY <2>1 DEF Owed, next
<1>5. ASSUME NEW h \in st.heap, h.id = i, h.weight <= w
      PROVE  Owed(slot_of, key, next, i, w)
  <2>1. CASE h # item
    <3>1. h \in next.heap
      BY <1>2, <2>1
    <3>2. QED
      BY <1>5, <3>1 DEF Reaches, Owed
  <2>2. CASE h = item /\ next.visits = Append(st.visits, item)
    <3>1. Found(next.visits, i, w)
      BY <1>1, <1>5, <2>2, FoundPersists
    <3>2. QED
      BY <3>1 DEF Reaches, Owed
  <2>3. CASE h = item /\ next.visits = st.visits /\ ~Admits(slot_of, key, st.visits, item)
    <3>1. \/ Found(st.visits, i, item.weight)
          \/ CutOff(slot_of, key, st.visits, i, item.weight)
      BY <1>5, <2>3, DroppedIsOwed
    <3>2. Found(st.visits, i, w) \/ CutOff(slot_of, key, st.visits, i, w)
      BY <1>1, <1>5, <2>3, <3>1, FoundWeaker, CutOffWeaker
    <3>3. QED
      BY <2>3, <3>2 DEF Reaches, Owed
  <2>4. QED
    BY <1>2, <2>1, <2>2, <2>3
<1>6. QED
  BY <1>3, <1>4, <1>5 DEF Owed, Reaches, next

\* A pop overdraws no budget.
LEMMA PoppedInBudget ==
  ASSUME NEW edges, NEW slot_of, NEW key, IsGraph(edges, slot_of), IsPolicyKey(key),
         NEW st \in States(slot_of), NEW item \in st.heap, ~Finished(key, st),
         InBudget(slot_of, key, st)
  PROVE  InBudget(slot_of, key, Popped(edges, slot_of, key, st, item))
<1> DEFINE next == Popped(edges, slot_of, key, st, item)
<1>1. /\ st.visits \in Seq(Items(DOMAIN slot_of)) /\ item \in Items(DOMAIN slot_of)
      /\ Len(st.visits) \in Nat /\ ~(Len(st.visits) >= key.max_nodes)
      /\ key.max_nodes \in Nat /\ key.max_active_blocks \in Nat /\ key.max_hops \in Nat
      /\ item.depth \in Nat /\ Affordable(key, item)
  BY DEF States, Items, Finished, IsPolicyKey, InBudget
<1>2. CASE ~Admits(slot_of, key, st.visits, item)
  BY <1>2 DEF Popped, InBudget
<1>3. CASE Admits(slot_of, key, st.visits, item)
  <2>1. /\ next.visits = Append(st.visits, item)
        /\ next.heap = (st.heap \ {item}) \cup Offers(edges, key, st.visits, item)
    BY <1>3 DEF Popped
  <2> HIDE DEF next
  <2>2. /\ Len(next.visits) = Len(st.visits) + 1
        /\ \A n \in 1..Len(st.visits) : next.visits[n] = st.visits[n]
        /\ next.visits[Len(st.visits) + 1] = item
    BY <1>1, <2>1, VisitAdds
  <2>3. Len(next.visits) <= key.max_nodes
    BY <1>1, <2>2
  <2>4. Cardinality(Used(slot_of, next.visits)) <= key.max_active_blocks
    <3> DEFINE used == Used(slot_of, st.visits)
               block == BlockOf(slot_of[item.id])
    <3>1. /\ IsFiniteSet(used) /\ Cardinality(used) \in Nat
          /\ Cardinality(used) <= key.max_active_blocks
          /\ Used(slot_of, next.visits) = used \cup {block}
      BY <1>1, <2>1, UsedGrows DEF InBudget
    <3>2. block \in used \/ Cardinality(used) < key.max_active_blocks
      BY <1>3 DEF Admits, Used
    <3> HIDE DEF used, block
    <3>3. CASE block \in used
      <4>1. Used(slot_of, next.visits) = used
        BY <3>1, <3>3
      <4>2. QED
        BY <3>1, <4>1
    <3>4. CASE block \notin used
      <4>1. Cardinality(used \cup {block}) = Cardinality(used) + 1
        BY <3>1, <3>4, FS_AddElement
      <4>2. QED
        BY <1>1, <3>1, <3>2, <3>4, <4>1
    <3>5. QED
      BY <3>3, <3>4
  <2>5. ASSUME NEW n \in 1..Len(next.visits)
        PROVE  Affordable(key, next.visits[n])
    <3>1. n = Len(st.visits) + 1 \/ n \in 1..Len(st.visits)
      BY <1>1, <2>2
    <3>2. QED
      BY <1>1, <2>2, <3>1 DEF InBudget
  <2>6. ASSUME NEW h \in next.heap
        PROVE  Affordable(key, h)
    <3>1. CASE h \in st.heap
      BY <3>1 DEF InBudget
    <3>2. CASE h \in Offers(edges, key, st.visits, item)
      <4>1. h.depth = item.depth + 1 /\ item.depth # key.max_hops /\ h.weight <= key.min_weight
        BY <1>1, <3>2, OfferIs
      <4>2. h.depth <= key.max_hops
        BY <1>1, <4>1 DEF Affordable
      <4>3. QED
        BY <4>1, <4>2 DEF Affordable
    <3>3. QED
      BY <2>1, <3>1, <3>2
  <2>7. QED
    BY <2>3, <2>4, <2>5, <2>6 DEF InBudget, next
<1>4. QED
  BY <1>2, <1>3

\* A pop leaves no edge of a visited node unaccounted for.
LEMMA PoppedOwed ==
  ASSUME NEW edges, NEW slot_of, NEW key, IsGraph(edges, slot_of), IsPolicyKey(key),
         NEW st \in States(slot_of), NEW item \in st.heap,
         Settled(st), InBudget(slot_of, key, st),
         \A n \in 1..Len(st.visits) : OwedBy(edges, slot_of, key, st, st.visits[n])
  PROVE  LET next == Popped(edges, slot_of, key, st, item)
         IN  \A n \in 1..Len(next.visits) : OwedBy(edges, slot_of, key, next, next.visits[n])
<1> DEFINE next == Popped(edges, slot_of, key, st, item)
<1>1. ASSUME NEW j \in Items(DOMAIN slot_of), OwedBy(edges, slot_of, key, st, j)
      PROVE  OwedBy(edges, slot_of, key, next, j)
  <2> SUFFICES ASSUME j.depth # key.max_hops,
                      NEW e \in DOMAIN edges, e[1] = j.id, edges[e] # BadWeight
               PROVE  \/ key.min_weight < j.weight + Normalize(edges[e])
                      \/ Owed(slot_of, key, next, e[2], j.weight + Normalize(edges[e]))
    BY DEF OwedBy
  <2>1. edges[e] \in Int /\ j.weight \in Nat
    BY DEF IsGraph, Items
  <2>2. j.weight + Normalize(edges[e]) \in Int
    BY <2>1 DEF Normalize
  <2>3. \/ key.min_weight < j.weight + Normalize(edges[e])
        \/ Owed(slot_of, key, st, e[2], j.weight + Normalize(edges[e]))
    BY <1>1 DEF OwedBy
  <2>4. QED
    BY <2>2, <2>3, OwedPersists
<1>2. /\ st.visits \in Seq(Items(DOMAIN slot_of)) /\ item \in Items(DOMAIN slot_of)
      /\ \A n \in 1..Len(st.visits) : st.visits[n] \in Items(DOMAIN slot_of)
  BY DEF States
<1>3. \A n \in 1..Len(st.visits) : OwedBy(edges, slot_of, key, next, st.visits[n])
  <2> HIDE DEF next
  <2>1. QED
    BY <1>1, <1>2
<1>4. CASE Admits(slot_of, key, st.visits, item)
  <2>1. next.visits = Append(st.visits, item)
    BY <1>4 DEF Popped
  <2>2. item.depth # key.max_hops => Followed(edges, key.min_weight, next, item)
    BY <1>4, AdmittedFollowed
  <2> HIDE DEF next
  <2>3. OwedBy(edges, slot_of, key, next, item)
    BY <2>2 DEF OwedBy, Followed, Owed
  <2>4. /\ Len(next.visits) = Len(st.visits) + 1 /\ Len(st.visits) \in Nat
        /\ \A n \in 1..Len(st.visits) : next.visits[n] = st.visits[n]
        /\ next.visits[Len(st.visits) + 1] = item
    BY <1>2, <2>1, VisitAdds
  <2>5. ASSUME NEW n \in 1..Len(next.visits)
        PROVE  OwedBy(edges, slot_of, key, next, next.visits[n])
    <3>1. n = Len(st.visits) + 1 \/ n \in 1..Len(st.visits)
      BY <2>4
    <3>2. QED
      BY <1>3, <2>3, <2>4, <3>1
  <2>6. QED
    BY <2>5 DEF next
<1>5. CASE ~Admits(slot_of, key, st.visits, item)
  <2>1. next.visits = st.visits
    BY <1>5 DEF Popped
  <2> HIDE DEF next
  <2>2. QED
    BY <1>3, <2>1 DEF next
<1>6. QED
  BY <1>4, <1>5

\* What a turn of the loop keeps.
LEMMA PoppedAccounted ==
  ASSUME NEW edges, NEW slot_of, NEW key, IsGraph(edges, slot_of), IsPolicyKey(key),
         NEW st \in States(slot_of), NEW item \in st.heap, ~Finished(key, st),
         \A j \in st.heap : PopsBefore(item, j), AccountedSoFar(edges, slot_of, key, st)
  PROVE  AccountedSoFar(edges, slot_of, key, Popped(edges, slot_of, key, st, item))
<1> DEFINE next == Popped(edges, slot_of, key, st, item)
<1>1. /\ Ordered(st.visits) /\ Settled(st) /\ InBudget(slot_of, key, st)
      /\ \A s \in key.seeds \cap DOMAIN slot_of : Owed(slot_of, key, st, s, 0)
      /\ \A n \in 1..Len(st.visits) : OwedBy(edges, slot_of, key, st, st.visits[n])
  BY DEF AccountedSoFar
<1>2. Ordered(next.visits) /\ Settled(next)
  BY <1>1, PoppedOrdered
<1>3. InBudget(slot_of, key, next)
  BY <1>1, PoppedInBudget
<1>4. \A s \in key.seeds \cap DOMAIN slot_of : Owed(slot_of, key, next, s, 0)
  <2>1. 0 \in Int
    OBVIOUS
  <2>2. QED
    BY <1>1, <2>1, OwedPersists
<1>5. \A n \in 1..Len(next.visits) : OwedBy(edges, slot_of, key, next, next.visits[n])
  BY <1>1, PoppedOwed
<1>6. QED
  BY <1>2, <1>3, <1>4, <1>5 DEF AccountedSoFar

\* What became of an id that was queued with weight w.
IsAccounted(slot_of, key, visits, i, w) ==
  \/ Found(visits, i, w)
  \/ Len(visits) = key.max_nodes /\ \A n \in 1..Len(visits) : visits[n].weight <= w
  \/ CutOff(slot_of, key, visits, i, w)

\* At the end all that is owed is accounted for: what is still queued met the
\* budget of nodes.
LEMMA OwedIsAccounted ==
  ASSUME NEW slot_of, NEW key, IsPolicyKey(key), NEW st \in States(slot_of),
         Finished(key, st), Settled(st), InBudget(slot_of, key, st),
         NEW i, NEW w \in Int, Owed(slot_of, key, st, i, w)
  PROVE  IsAccounted(slot_of, key, st.visits, i, w)
<1>1. ASSUME NEW h \in st.heap, h.id = i, h.weight <= w
      PROVE  IsAccounted(slot_of, key, st.visits, i, w)
  <2>1. h \in Items(DOMAIN slot_of) /\ st.visits \in Seq(Items(DOMAIN slot_of))
    BY DEF States
  <2>2. h.weight \in Nat /\ Len(st.visits) \in Nat
        /\ \A n \in 1..Len(st.visits) : st.visits[n].weight \in Nat
    <3>1. \A n \in 1..Len(st.visits) : st.visits[n] \in Items(DOMAIN slot_of)
      BY <2>1
    <3>2. QED
      BY <2>1, <3>1 DEF Items
  <2>3. Len(st.visits) >= key.max_nodes /\ Len(st.visits) <= key.max_nodes /\ key.max_nodes \in Nat
    BY DEF Finished, InBudget, IsPolicyKey
  <2>4. Len(st.visits) = key.max_nodes
    BY <2>2, <2>3
  <2>5. \A n \in 1..Len(st.visits) : st.visits[n].weight <= w
    BY <1>1, <2>2 DEF Settled
  <2>6. QED
    BY <2>4, <2>5 DEF IsAccounted
<1>2. QED
  BY <1>1 DEF Owed, Reaches, IsAccounted

\* No budget is overdrawn, and none is wasted.
IsBudgeted(edges, slot_of, key, visits) ==
  /\ Len(visits) <= key.max_nodes
  /\ Cardinality(Used(slot_of, visits)) <= key.max_active_blocks
  /\ \A n \in 1..Len(visits) : Affordable(key, visits[n])
  /\ \A s \in key.seeds \cap DOMAIN slot_of : IsAccounted(slot_of, key, visits, s, 0)
  /\ \A n \in 1..Len(visits) : \A e \in DOMAIN edges :
       visits[n].depth # key.max_hops /\ e[1] = visits[n].id /\ edges[e] # BadWeight =>
         LET w == visits[n].weight + Normalize(edges[e])
         IN  key.min_weight < w \/ IsAccounted(slot_of, key, visits, e[2], w)

\* A budgeted expansion keeps within its budgets, and every seed and usable edge
\* leads to a visit or to a node that a used-up budget has no room for
\* (weighted_graph_visits: break at the budget of nodes, continue at that of blocks).
THEOREM VisitsBudgeted ==
  ASSUME NEW edges, NEW slot_of, NEW key, IsGraph(edges, slot_of), IsPolicyKey(key)
  PROVE  IsBudgeted(edges, slot_of, key, WeightedVisits(edges, slot_of, key))
<1> DEFINE start == [heap |-> Seeded(slot_of, key), visits |-> << >>]
           P == {st \in States(slot_of) : AccountedSoFar(edges, slot_of, key, st)}
<1>1. /\ key.max_nodes \in Nat /\ key.max_active_blocks \in Nat
      /\ key.max_hops \in Nat /\ key.min_weight \in Nat
  BY DEF IsPolicyKey
<1>2. Used(slot_of, << >>) = {} /\ Cardinality(Used(slot_of, << >>)) = 0
  <2>1. Used(slot_of, << >>) = {}
    BY DEF Used, VisitedIds
  <2>2. QED
    BY <2>1, FS_EmptySet
<1>3. CASE key.max_nodes # 0 /\ key.max_active_blocks # 0
  <2>1. start \in P
    <3>1. start \in States(slot_of) /\ start.visits = << >> /\ start.heap = Seeded(slot_of, key)
      BY SeedsAre
    <3>2. \A h \in Seeded(slot_of, key) : h.depth = 0 /\ h.weight = 0
      BY DEF Seeded
    <3>3. ASSUME NEW s \in key.seeds \cap DOMAIN slot_of
          PROVE  Owed(slot_of, key, start, s, 0)
      <4> DEFINE seed == [id |-> s, depth |-> 0, parent |-> NoParent, weight |-> 0]
      <4>1. seed \in start.heap /\ seed.id = s /\ seed.weight <= 0
        BY <3>1 DEF Seeded
      <4> HIDE DEF seed, start
      <4>2. QED
        BY <4>1 DEF Owed, Reaches
    <3> HIDE DEF start
    <3>4. Len(start.visits) = 0
      BY <3>1
    <3>5. InBudget(slot_of, key, start)
      BY <1>1, <1>2, <3>1, <3>2, <3>4 DEF InBudget, Affordable
    <3>6. QED
      BY <3>1, <3>3, <3>4, <3>5 DEF AccountedSoFar, Ordered, Settled
  <2>2. ASSUME NEW st \in P, NEW item \in st.heap, ~Finished(key, st),
               \A j \in st.heap : PopsBefore(item, j)
        PROVE  Popped(edges, slot_of, key, st, item) \in P
    BY <2>2, PoppedType, PoppedAccounted
  <2>3. P \in SUBSET States(slot_of)
    OBVIOUS
  <2> HIDE DEF P
  <2>4. PICK st \in P : Finished(key, st) /\ WeightedVisits(edges, slot_of, key) = st.visits
    BY <1>3, <2>1, <2>2, <2>3, VisitInduction
  <2>5. st \in States(slot_of) /\ AccountedSoFar(edges, slot_of, key, st)
    BY DEF P
  <2> DEFINE visits == st.visits
  <2>6. /\ Settled(st) /\ InBudget(slot_of, key, st)
        /\ visits \in Seq(Items(DOMAIN slot_of))
    BY <2>5 DEF AccountedSoFar, States
  <2>7. ASSUME NEW s \in key.seeds \cap DOMAIN slot_of
        PROVE  IsAccounted(slot_of, key, visits, s, 0)
    <3>1. Owed(slot_of, key, st, s, 0) /\ 0 \in Int
      BY <2>5 DEF AccountedSoFar
    <3>2. QED
      BY <2>4, <2>5, <2>6, <3>1, OwedIsAccounted
  <2>8. ASSUME NEW n \in 1..Len(visits), NEW e \in DOMAIN edges,
               visits[n].depth # key.max_hops, e[1] = visits[n].id, edges[e] # BadWeight,
               ~(key.min_weight < visits[n].weight + Normalize(edges[e]))
        PROVE  IsAccounted(slot_of, key, visits, e[2], visits[n].weight + Normalize(edges[e]))
    <3>1. Owed(slot_of, key, st, e[2], visits[n].weight + Normalize(edges[e]))
      BY <2>5, <2>8 DEF AccountedSoFar, OwedBy
    <3>2. visits[n] \in Items(DOMAIN slot_of)
      BY <2>6
    <3>3. visits[n].weight \in Nat /\ edges[e] \in Int
      BY <2>8, <3>2 DEF Items, IsGraph
    <3>4. visits[n].weight + Normalize(edges[e]) \in Int
      BY <3>3 DEF Normalize
    <3>5. QED
      BY <2>4, <2>5, <2>6, <3>1, <3>4, OwedIsAccounted
  <2>9. QED
    BY <2>4, <2>6, <2>7, <2>8 DEF IsBudgeted, InBudget
<1>4. CASE ~(key.max_nodes # 0 /\ key.max_active_blocks # 0)
  <2> DEFINE visits == << >>
  <2>1. WeightedVisits(edges, slot_of, key) = visits
    BY <1>4, NoBudget
  <2>2. Len(visits) = 0 /\ Used(slot_of, visits) = {} /\ Cardinality(Used(slot_of, visits)) = 0
    BY <1>2
  <2> HIDE DEF visits
  <2>3. \A i, w : IsAccounted(slot_of, key, visits, i, w)
    <3>1. CASE key.max_nodes = 0
      BY <2>2, <3>1 DEF IsAccounted
    <3>2. CASE key.max_active_blocks = 0
      BY <2>2, <3>2 DEF IsAccounted, CutOff
    <3>3. QED
      BY <1>4, <3>1, <3>2
  <2>4. QED
    BY <1>1, <2>1, <2>2, <2>3 DEF IsBudgeted
<1>5. QED
  BY <1>3, <1>4

=============================================================================
