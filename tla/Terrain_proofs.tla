--------------------------- MODULE Terrain_proofs ---------------------------
(***************************************************************************)
(* Proofs about Terrain, for any planet, render distances and queue limit: *)
(* its types, and that what the worker holds to be in the world, what is   *)
(* wanted and what the queue leaves on display stay in step.               *)
(***************************************************************************)
EXTENDS Terrain, FiniteSetTheorems, SequenceTheorems, WellFoundedInduction, TLAPS

(* Sequences of calls, apart from the state they are in.                    *)
LEMMA SpawnIsCall ==
  ASSUME NEW g \in Group, NEW l \in Level \cup {None, Coarse}
  PROVE  Spawn(g, l) \in Call /\ Spawn(g, l).group = g /\ Spawn(g, l).level = l
BY DEF Spawn, Call

LEMMA LastExists ==
  ASSUME NEW q \in Seq(Call), NEW g, Calls(q, g) # {}
  PROVE  \E i \in Calls(q, g) : \A j \in Calls(q, g) : j <= i
<1> DEFINE n == Len(q)
           Dist == {n - i : i \in Calls(q, g)}
<1>1. n \in Nat /\ DOMAIN q = 1 .. n
  BY DEF Call
<1>2. Calls(q, g) \subseteq 1 .. n
  BY <1>1 DEF Calls
<1>3. Dist \subseteq Nat /\ Dist # {}
  BY <1>1, <1>2
<1>4. \E x \in Dist : \A y \in Dist : ~(<<y, x>> \in OpToRel(<, Nat))
  BY <1>3, NatLessThanWellFounded, WFMin
<1>5. PICK x \in Dist : \A y \in Dist : ~(y < x)
  BY <1>3, <1>4 DEF OpToRel
<1>6. PICK i \in Calls(q, g) : x = n - i
  BY <1>5
<1>7. ASSUME NEW j \in Calls(q, g) PROVE j <= i
  <2>1. n - j \in Dist /\ ~(n - j < n - i)
    BY <1>5, <1>6
  <2>2. i \in 1 .. n /\ j \in 1 .. n
    BY <1>2
  <2>3. QED
    BY <1>1, <2>1, <2>2
<1>8. QED
  BY <1>7

(* The last call to a group decides, and it decides once.                   *)
LEMMA LastDecides ==
  ASSUME NEW q \in Seq(Call), NEW b, NEW g, NEW i \in Calls(q, g),
         \A j \in Calls(q, g) : j <= i
  PROVE  ShownAfter(q, b, g) = q[i].level
<1> DEFINE final == CHOOSE k \in Calls(q, g) : \A j \in Calls(q, g) : j <= k
<1>1. final \in Calls(q, g) /\ \A j \in Calls(q, g) : j <= final
  OBVIOUS
<1>2. Calls(q, g) \subseteq Int
  BY DEF Calls, Call
<1>3. final = i
  BY <1>1, <1>2
<1>4. QED
  BY <1>3 DEF ShownAfter

LEMMA NoCallNoChange ==
  ASSUME NEW q, NEW b, NEW g, Calls(q, g) = {}
  PROVE  ShownAfter(q, b, g) = IF b = <<>> THEN None ELSE b[Len(b)]
BY DEF ShownAfter

(* A call at the end of the queue decides for its group, and for no other.  *)
LEMMA AfterAppend ==
  ASSUME NEW q \in Seq(Call), NEW b, NEW g, NEW call \in Call
  PROVE  ShownAfter(Append(q, call), b, g) =
           IF call.group = g THEN call.level ELSE ShownAfter(q, b, g)
<1> DEFINE r == Append(q, call)
           n == Len(q)
<1>1. /\ n \in Nat /\ DOMAIN q = 1 .. n /\ DOMAIN r = 1 .. n + 1 /\ r \in Seq(Call)
      /\ r[n + 1] = call /\ \A i \in 1 .. n : r[i] = q[i]
  OBVIOUS
<1> HIDE DEF r
<1>2. CASE call.group = g
  <2>1. n + 1 \in Calls(r, g) /\ \A j \in Calls(r, g) : j <= n + 1
    BY <1>1, <1>2 DEF Calls
  <2>2. ShownAfter(r, b, g) = r[n + 1].level
    BY <2>1, <1>1, LastDecides
  <2>3. QED
    BY <2>2, <1>1, <1>2 DEF r
<1>3. CASE call.group # g
  <2>1. Calls(r, g) = Calls(q, g)
    BY <1>1, <1>3 DEF Calls
  <2>2. CASE Calls(q, g) = {}
    BY <2>1, <2>2, <1>3, NoCallNoChange DEF r
  <2>3. CASE Calls(q, g) # {}
    <3>1. PICK i \in Calls(q, g) : \A j \in Calls(q, g) : j <= i
      BY <2>3, LastExists
    <3>2. ShownAfter(q, b, g) = q[i].level /\ ShownAfter(r, b, g) = r[i].level
      BY <3>1, <2>1, <1>1, LastDecides
    <3>3. r[i] = q[i]
      BY <1>1 DEF Calls
    <3>4. QED
      BY <3>2, <3>3, <1>3 DEF r
  <2>4. QED
    BY <2>2, <2>3
<1>4. QED
  BY <1>2, <1>3

(* What the deferred call does to its group's batches.                      *)
Ran(call, b) == IF call.level = None THEN <<>> ELSE Append(b, call.level)

(* Running the oldest call changes nothing of what will be shown.           *)
LEMMA AfterTail ==
  ASSUME NEW q \in Seq(Call), q # <<>>, NEW b \in Batches, NEW g
  PROVE  ShownAfter(q, b, g) =
           ShownAfter(Tail(q), IF Head(q).group = g THEN Ran(Head(q), b) ELSE b, g)
<1> DEFINE r == Tail(q)
           n == Len(r)
           c == IF Head(q).group = g THEN Ran(Head(q), b) ELSE b
<1>1. /\ n \in Nat /\ r \in Seq(Call) /\ DOMAIN q = 1 .. n + 1 /\ DOMAIN r = 1 .. n
      /\ q[1] = Head(q) /\ \A i \in 1 .. n : r[i] = q[i + 1]
  OBVIOUS
<1> HIDE DEF r, c
<1>2. \A i \in 1 .. n : i \in Calls(r, g) <=> i + 1 \in Calls(q, g)
  BY <1>1 DEF Calls
<1>3. \A i \in Calls(q, g) : i = 1 \/ i - 1 \in Calls(r, g)
  BY <1>1, <1>2 DEF Calls
<1>4. CASE Calls(r, g) # {}
  <2>1. PICK i \in Calls(r, g) : \A j \in Calls(r, g) : j <= i
    BY <1>1, <1>4, LastExists
  <2>2. i \in 1 .. n /\ i + 1 \in Calls(q, g) /\ Calls(q, g) \subseteq 1 .. n + 1
    BY <1>1, <1>2 DEF Calls
  <2>3. \A j \in Calls(q, g) : j <= i + 1
    BY <1>1, <1>3, <2>1, <2>2
  <2>4. ShownAfter(r, c, g) = r[i].level /\ ShownAfter(q, b, g) = q[i + 1].level
    BY <1>1, <2>1, <2>2, <2>3, LastDecides
  <2>5. QED
    BY <1>1, <2>2, <2>4 DEF r, c
<1>5. CASE Calls(r, g) = {} /\ Head(q).group = g
  <2>1. 1 \in Calls(q, g) /\ \A j \in Calls(q, g) : j <= 1
    BY <1>1, <1>3, <1>5 DEF Calls
  <2>2. ShownAfter(q, b, g) = Head(q).level
    BY <1>1, <2>1, LastDecides
  <2>3. c = Ran(Head(q), b)
    BY <1>5 DEF c
  <2>4. Head(q).level = IF c = <<>> THEN None ELSE c[Len(c)]
    <3>1. CASE Head(q).level = None
      BY <3>1, <2>3 DEF Ran
    <3>2. CASE Head(q).level # None
      <4>1. c = Append(b, Head(q).level) /\ b \in Seq(Level \cup {Coarse})
        BY <3>2, <2>3 DEF Ran, Batches
      <4>2. Head(q).level \in Level \cup {Coarse}
        <5>1. Head(q) \in Call
          BY <1>1
        <5>2. QED
          BY <5>1, <3>2 DEF Call
      <4>3. c # <<>> /\ c[Len(c)] = Head(q).level
        BY <4>1, <4>2
      <4>4. QED
        BY <4>3
    <3>3. QED
      BY <3>1, <3>2
  <2>5. ShownAfter(r, c, g) = IF c = <<>> THEN None ELSE c[Len(c)]
    BY <1>5, NoCallNoChange
  <2>6. QED
    BY <2>2, <2>4, <2>5 DEF r, c
<1>6. CASE Calls(r, g) = {} /\ Head(q).group # g
  <2>1. Calls(q, g) = {}
    BY <1>1, <1>3, <1>6 DEF Calls
  <2>2. c = b
    BY <1>6 DEF c
  <2>3. ShownAfter(r, c, g) = ShownAfter(q, b, g)
    BY <2>1, <2>2, <1>6, NoCallNoChange
  <2>4. QED
    BY <2>3 DEF r, c
<1>7. QED
  BY <1>4, <1>5, <1>6

(* Despawning a set of groups is a call for each of them, in some order.    *)
Despawns(G) == SetToSeq({Despawn(g) : g \in G})

LEMMA DespawnsAreCalls ==
  ASSUME NEW G \in SUBSET Group, IsFiniteSet(G)
  PROVE  /\ Despawns(G) \in Seq(Call)
         /\ \A i \in DOMAIN Despawns(G) :
              Despawns(G)[i].level = None /\ Despawns(G)[i].group \in G
         /\ \A g \in G : \E i \in DOMAIN Despawns(G) : Despawns(G)[i].group = g
<1> DEFINE D == {Despawn(g) : g \in G}
           h == [g \in G |-> Despawn(g)]
           n == Cardinality(D)
           d == Despawns(G)
<1>1. IsFiniteSet(D)
  <2>1. h \in Surjection(G, D)
    BY DEF Surjection
  <2>2. QED
    BY <2>1, FS_Surjection
<1>2. n \in Nat /\ ExistsBijection(1 .. n, D)
  BY <1>1, FS_CardinalityType
<1>3. d \in [1 .. n -> D] /\ IsInjective(d)
  <2>1. \E f \in [1 .. n -> D] : IsInjective(f)
    BY <1>2 DEF ExistsBijection, Bijection, Injection
  <2>2. QED
    BY <2>1 DEF SetToSeq, Despawns
<1>4. d \in Surjection(1 .. n, D)
  <2>1. d \in Injection(1 .. n, D)
    BY <1>3 DEF Injection
  <2>2. Cardinality(1 .. n) = n
    BY <1>2, FS_Interval
  <2>3. QED
    BY <1>1, <2>1, <2>2, FS_Injection
<1>5. \A x \in D : x \in Call /\ x.level = None /\ x.group \in G
  BY DEF Despawn, Spawn, Call
<1>6. \A g \in G : Despawn(g) \in D /\ Despawn(g).group = g
  BY DEF Despawn, Spawn
<1> HIDE DEF D, d, n
<1>7. d \in Seq(Call)
  BY <1>2, <1>3, <1>5
<1>8. DOMAIN d = 1 .. n /\ \A i \in 1 .. n : d[i] \in D
  BY <1>3
<1>9. \A x \in D : \E i \in 1 .. n : d[i] = x
  BY <1>4 DEF Surjection
<1>10. QED
  BY <1>5, <1>6, <1>7, <1>8, <1>9 DEF d

LEMMA AfterDespawns ==
  ASSUME NEW q \in Seq(Call), NEW b, NEW g, NEW G \in SUBSET Group, IsFiniteSet(G)
  PROVE  ShownAfter(q \o Despawns(G), b, g) = IF g \in G THEN None ELSE ShownAfter(q, b, g)
<1> DEFINE d == Despawns(G)
           r == q \o d
           n == Len(q)
           m == Len(d)
<1>1. /\ d \in Seq(Call)
      /\ \A i \in DOMAIN d : d[i].level = None /\ d[i].group \in G
      /\ \A x \in G : \E i \in DOMAIN d : d[i].group = x
  BY DespawnsAreCalls
<1> HIDE DEF d
<1>2. /\ n \in Nat /\ m \in Nat /\ DOMAIN q = 1 .. n /\ DOMAIN d = 1 .. m
      /\ r \in Seq(Call) /\ DOMAIN r = 1 .. n + m
      /\ \A i \in 1 .. n : r[i] = q[i]
      /\ \A i \in 1 .. m : r[n + i] = d[i]
  BY <1>1
<1> HIDE DEF r
<1>3. \A i \in 1 .. n + m : i \notin 1 .. n => i - n \in 1 .. m /\ r[i] = d[i - n]
  <2> SUFFICES ASSUME NEW i \in 1 .. n + m, i \notin 1 .. n
               PROVE  i - n \in 1 .. m /\ r[i] = d[i - n]
    OBVIOUS
  <2>1. i - n \in 1 .. m /\ n + (i - n) = i
    BY <1>2
  <2>2. QED
    BY <1>2, <2>1
<1>4. CASE g \in G
  <2>1. PICK k \in 1 .. m : d[k].group = g
    BY <1>1, <1>2, <1>4
  <2>2. n + k \in Calls(r, g)
    BY <1>2, <2>1 DEF Calls
  <2>3. PICK i \in Calls(r, g) : \A j \in Calls(r, g) : j <= i
    BY <1>2, <2>2, LastExists
  <2>4. i \in 1 .. n + m /\ i \notin 1 .. n
    <3>1. i \in 1 .. n + m
      BY <1>2 DEF Calls
    <3>2. n + k <= i
      BY <2>2, <2>3
    <3>3. n \in Nat /\ k \in Nat /\ k > 0
      BY <1>2, <2>1
    <3>4. QED
      BY <3>1, <3>2, <3>3
  <2>5. r[i].level = None
    <3>1. i - n \in DOMAIN d /\ r[i] = d[i - n]
      BY <1>2, <1>3, <2>4
    <3>2. QED
      BY <1>1, <3>1
  <2>6. r \in Seq(Call)
    BY <1>2
  <2>7. ShownAfter(r, b, g) = r[i].level
    BY <2>3, <2>6, LastDecides
  <2>8. QED
    BY <1>4, <2>5, <2>7 DEF r, d
<1>5. CASE g \notin G
  <2>1. Calls(r, g) = Calls(q, g)
    <3>1. ASSUME NEW i \in Calls(r, g) PROVE i \in Calls(q, g)
      <4>1. i \in 1 .. n + m /\ r[i].group = g
        BY <1>2 DEF Calls
      <4>2. ASSUME i \notin 1 .. n PROVE FALSE
        <5>1. i - n \in DOMAIN d /\ r[i] = d[i - n]
          BY <1>2, <1>3, <4>1, <4>2
        <5>2. d[i - n].group \in G
          BY <1>1, <5>1
        <5>3. QED
          BY <1>5, <4>1, <5>1, <5>2
      <4>3. r[i] = q[i] /\ i \in DOMAIN q
        BY <1>2, <4>2
      <4>4. QED
        BY <4>1, <4>3 DEF Calls
    <3>2. ASSUME NEW i \in Calls(q, g) PROVE i \in Calls(r, g)
      BY <1>2 DEF Calls
    <3>3. QED
      BY <3>1, <3>2
  <2>2. CASE Calls(q, g) = {}
    BY <2>1, <2>2, <1>5, NoCallNoChange DEF r, d
  <2>3. CASE Calls(q, g) # {}
    <3>1. PICK i \in Calls(q, g) : \A j \in Calls(q, g) : j <= i
      BY <2>3, LastExists
    <3>2. ShownAfter(q, b, g) = q[i].level
      BY <3>1, LastDecides
    <3>3. r \in Seq(Call) /\ i \in Calls(r, g) /\ \A j \in Calls(r, g) : j <= i
      BY <1>2, <2>1, <3>1
    <3>4. ShownAfter(r, b, g) = r[i].level
      BY <3>3, LastDecides
    <3>5. r[i] = q[i]
      BY <1>2 DEF Calls
    <3>6. QED
      BY <3>2, <3>4, <3>5, <1>5 DEF r, d
  <2>4. QED
    BY <2>2, <2>3
<1>6. QED
  BY <1>4, <1>5

(* Whenever a spawn of the queue q is run, its group shows nothing.         *)
Alternates(q, display) ==
  \A i \in DOMAIN q :
    q[i].level # None
      => ShownAfter(SubSeq(q, 1, i - 1), display[q[i].group], q[i].group) = None

LEMMA AlternatesAppend ==
  ASSUME NEW q \in Seq(Call), NEW display, Alternates(q, display), NEW call \in Call,
         call.level = None \/ ShownAfter(q, display[call.group], call.group) = None
  PROVE  Alternates(Append(q, call), display)
<1> DEFINE r == Append(q, call)
           n == Len(q)
<1>1. /\ n \in Nat /\ DOMAIN q = 1 .. n /\ DOMAIN r = 1 .. n + 1
      /\ r[n + 1] = call /\ \A i \in 1 .. n : r[i] = q[i]
  OBVIOUS
<1>2. ASSUME NEW i \in 1 .. n + 1 PROVE SubSeq(r, 1, i - 1) = SubSeq(q, 1, i - 1)
  BY <1>1
<1>3. SubSeq(q, 1, n) = q
  BY SubSeqFull
<1> HIDE DEF r
<1>4. SUFFICES ASSUME NEW i \in 1 .. n + 1, r[i].level # None
               PROVE  ShownAfter(SubSeq(r, 1, i - 1), display[r[i].group], r[i].group) = None
  BY <1>1, <1>4 DEF Alternates, r
<1>5. CASE i = n + 1
  <2>1. SubSeq(r, 1, i - 1) = q
    BY <1>1, <1>2, <1>3, <1>5
  <2>2. QED
    BY <1>1, <1>4, <1>5, <2>1
<1>6. CASE i # n + 1
  <2>1. i \in 1 .. n
    BY <1>1, <1>6
  <2>2. QED
    BY <1>1, <1>2, <1>4, <2>1 DEF Alternates
<1>7. QED
  BY <1>5, <1>6

LEMMA AlternatesDespawns ==
  ASSUME NEW q \in Seq(Call), NEW display, Alternates(q, display),
         NEW G \in SUBSET Group, IsFiniteSet(G)
  PROVE  Alternates(q \o Despawns(G), display)
<1> DEFINE d == Despawns(G)
           r == q \o d
           n == Len(q)
<1>1. d \in Seq(Call) /\ \A i \in DOMAIN d : d[i].level = None
  BY DespawnsAreCalls
<1> HIDE DEF d
<1>2. /\ n \in Nat /\ Len(d) \in Nat /\ DOMAIN q = 1 .. n /\ DOMAIN d = 1 .. Len(d)
      /\ DOMAIN r = 1 .. n + Len(d)
      /\ \A i \in 1 .. n : r[i] = q[i]
      /\ \A i \in 1 .. Len(d) : r[n + i] = d[i]
  BY <1>1
<1>3. ASSUME NEW i \in 1 .. n PROVE SubSeq(r, 1, i - 1) = SubSeq(q, 1, i - 1)
  BY <1>1, <1>2
<1> HIDE DEF r
<1>4. SUFFICES ASSUME NEW i \in 1 .. n + Len(d), r[i].level # None
               PROVE  ShownAfter(SubSeq(r, 1, i - 1), display[r[i].group], r[i].group) = None
  BY <1>2, <1>4 DEF Alternates, r, d
<1>5. i \in 1 .. n
  <2>1. CASE i > n
    <3>1. i - n \in 1 .. Len(d) /\ n + (i - n) = i
      BY <1>2, <2>1
    <3>2. QED
      BY <1>1, <1>2, <1>4, <3>1
  <2>2. QED
    BY <1>2, <2>1
<1>6. QED
  BY <1>2, <1>3, <1>4, <1>5 DEF Alternates

LEMMA AlternatesTail ==
  ASSUME NEW q \in Seq(Call), q # <<>>, NEW display \in [Group -> Batches],
         Alternates(q, display)
  PROVE  Alternates(Tail(q), [display EXCEPT ![Head(q).group] = Ran(Head(q), @)])
<1> DEFINE r == Tail(q)
           n == Len(r)
           after == [display EXCEPT ![Head(q).group] = Ran(Head(q), @)]
<1>1. /\ n \in Nat /\ r \in Seq(Call) /\ DOMAIN q = 1 .. n + 1 /\ DOMAIN r = 1 .. n
      /\ Len(q) = n + 1
      /\ q[1] = Head(q) /\ \A i \in 1 .. n : r[i] = q[i + 1]
  OBVIOUS
<1>2. \A g \in Group : after[g] = IF Head(q).group = g THEN Ran(Head(q), display[g]) ELSE display[g]
  OBVIOUS
<1> HIDE DEF r, after
<1>3. SUFFICES ASSUME NEW i \in 1 .. n, r[i].level # None
               PROVE  ShownAfter(SubSeq(r, 1, i - 1), after[r[i].group], r[i].group) = None
  BY <1>1, <1>3 DEF Alternates, r, after
<1> DEFINE p == SubSeq(q, 1, i)
           g == r[i].group
<1>4. p \in Seq(Call) /\ p # <<>> /\ Head(p) = Head(q) /\ Tail(p) = SubSeq(r, 1, i - 1)
  <2>1. p \in Seq(Call) /\ Len(p) = i /\ \A j \in 1 .. i : p[j] = q[j]
    BY <1>1
  <2>2. p # <<>> /\ Head(p) = p[1]
    BY <2>1
  <2>3. Tail(p) \in Seq(Call) /\ Len(Tail(p)) = i - 1 /\ \A j \in 1 .. i - 1 : Tail(p)[j] = p[j + 1]
    BY <2>1, <2>2, HeadTailProperties
  <2>4. /\ SubSeq(r, 1, i - 1) \in Seq(Call) /\ Len(SubSeq(r, 1, i - 1)) = i - 1
        /\ \A j \in 1 .. i - 1 : SubSeq(r, 1, i - 1)[j] = r[j]
    BY <1>1
  <2>5. \A j \in 1 .. i - 1 : p[j + 1] = q[j + 1] /\ r[j] = q[j + 1]
    BY <1>1, <2>1
  <2>6. Tail(p) = SubSeq(r, 1, i - 1)
    BY <2>3, <2>4, <2>5, SeqEqual
  <2>7. QED
    BY <1>1, <2>1, <2>2, <2>6
<1>5. g \in Group /\ display[g] \in Batches
  <2>1. r[i] \in Call
    BY <1>1, ElementOfSeq
  <2>2. QED
    BY <2>1 DEF Call
<1> HIDE DEF p, g
<1>6. ShownAfter(p, display[g], g) = ShownAfter(Tail(p), after[g], g)
  <2>1. after[g] = IF Head(p).group = g THEN Ran(Head(p), display[g]) ELSE display[g]
    BY <1>2, <1>4, <1>5
  <2>2. QED
    BY <1>4, <1>5, <2>1, AfterTail
<1>7. i + 1 \in DOMAIN q /\ q[i + 1] = r[i] /\ (i + 1) - 1 = i
  BY <1>1
<1>8. ShownAfter(p, display[g], g) = None
  BY <1>3, <1>7 DEF Alternates, p, g
<1>9. QED
  BY <1>4, <1>6, <1>8 DEF g
-----------------------------------------------------------------------------
(* What the worker knows of its own lists: it generates, refines and spawns *)
(* what is wanted; while it spawns a chunk, the chunk shows nothing.        *)
Work ==
  /\ rest \subseteq toDespawn
  /\ toGen \subseteq Wanted(centre)
  /\ \A i \in DOMAIN finished : finished[i] \in Wanted(centre)
  /\ pc \in {"mark", "send"} => finished # <<>>
  /\ \A c \in Chunk : pc \in {"mark", "send"} /\ c = Head(finished) => Settled(c) = None
  /\ pc = "gen" => snap \in Place
  /\ \A c \in Chunk : pc = "mark" /\ c = Head(finished) => NextOf(c) \in Level

LEMMA NextIsFiner ==
  ASSUME NEW desired \in Level \cup {None}, NEW type \in Level \cup {None, Zero}
  PROVE  NextType(desired, type) \in Level \cup {type}
<1> DEFINE finer == {t \in Level : t < type /\ t >= desired}
<1>1. CASE type = desired
  BY <1>1 DEF NextType
<1>2. CASE type = None /\ type # desired
  BY <1>2 DEF NextType, Level
<1>3. CASE type \notin {None, desired} /\ finer = {}
  BY <1>3 DEF NextType
<1>4. CASE type \notin {None, desired} /\ finer # {}
  <2>1. \E t \in finer : \A u \in finer : IF coarse THEN u <= t ELSE t <= u
    <3>1. finer \subseteq {1, 4, 16}
      BY DEF Level
    <3> HIDE DEF finer
    <3>2. \E t \in finer : \A u \in finer : u <= t
      <4>1. CASE 16 \in finer
        BY <3>1, <4>1
      <4>2. CASE 16 \notin finer /\ 4 \in finer
        BY <3>1, <4>2
      <4>3. CASE 16 \notin finer /\ 4 \notin finer
        <5>1. finer = {1}
          BY <1>4, <3>1, <4>3
        <5>2. QED
          BY <5>1
      <4>4. QED
        BY <4>1, <4>2, <4>3
    <3>3. \E t \in finer : \A u \in finer : t <= u
      <4>1. CASE 1 \in finer
        BY <3>1, <4>1
      <4>2. CASE 1 \notin finer /\ 4 \in finer
        BY <3>1, <4>2
      <4>3. CASE 1 \notin finer /\ 4 \notin finer
        <5>1. finer = {16}
          BY <1>4, <3>1, <4>3
        <5>2. QED
          BY <5>1
      <4>4. QED
        BY <4>1, <4>2, <4>3
    <3>4. QED
      BY <3>2, <3>3
  <2>2. NextType(desired, type) =
          CHOOSE t \in finer : \A u \in finer : IF coarse THEN u <= t ELSE t <= u
    BY <1>4 DEF NextType
  <2>3. NextType(desired, type) \in finer
    BY <2>1, <2>2
  <2>4. QED
    BY <2>3
<1>5. QED
  BY <1>1, <1>2, <1>3, <1>4

(* The chunk at the front of the queue of chunks to spawn.                  *)
LEMMA FrontIsWanted ==
  ASSUME TypeOK, Work, finished # <<>>
  PROVE  /\ Head(finished) \in Chunk /\ Head(finished) \in Wanted(centre)
         /\ centre \in Place
         /\ CurrentType(Head(finished)) \in Level \cup {None, Zero}
         /\ NextOf(Head(finished)) \in Level \cup {CurrentType(Head(finished))}
<1>1. finished \in Seq(Chunk)
  BY DEF TypeOK
<1>2. Head(finished) \in Chunk /\ 1 \in DOMAIN finished /\ Head(finished) = finished[1]
  BY <1>1
<1>3. Head(finished) \in Wanted(centre)
  BY <1>2 DEF Work
<1>4. centre \in Place
  BY <1>3 DEF Wanted, TypeOK
<1>5. CurrentType(Head(finished)) \in Level \cup {None, Zero}
  BY <1>2 DEF TypeOK, CurrentType
<1>6. Want[centre][Head(finished)] \in Level \cup {None}
  BY <1>2, <1>4, TerrainAssumption
<1>7. QED
  BY <1>2, <1>3, <1>4, <1>5, <1>6, NextIsFiner DEF NextOf

LEMMA ChunksFinite ==
  /\ \A S : S \subseteq Chunk => IsFiniteSet(S) /\ S \in SUBSET Group
  /\ \A S : S \subseteq Patch => IsFiniteSet(S) /\ S \in SUBSET Group
<1>1. IsFiniteSet(Chunk) /\ IsFiniteSet(Patch)
  BY TerrainAssumption
<1>2. QED
  BY <1>1, FS_Subset DEF Group

LEMMA TypeInit == Init => TypeOK
<1>1. <<>> \in Seq(Chunk) /\ <<>> \in Seq(Call) /\ <<>> \in Batches
  BY DEF Batches
<1>2. 0 \in 0 .. MaxMoves /\ 0 \in 0 .. MaxLeaves
  BY TerrainAssumption
<1>3. QED
  BY <1>1, <1>2 DEF Init, TypeOK

(* The queue and the display stay typed.                                    *)
LEMMA QueueTyped ==
  ASSUME TypeOK, Work, [Next]_vars
  PROVE  queue' \in Seq(Call) /\ shown' \in [Group -> Batches]
<1> USE DEF TypeOK
<1>1. ASSUME DespawnPaced PROVE queue' \in Seq(Call) /\ UNCHANGED shown
  <2>1. PICK few \in SUBSET Chunk : queue' = queue \o SetToSeq({Despawn(c) : c \in few})
    <3>1. \A c \in Chunk : leaving \/ ~leaving
      OBVIOUS
    <3>2. QED
      BY <1>1 DEF DespawnPaced
  <2>2. Despawns(few) \in Seq(Call)
    BY <2>1, ChunksFinite, DespawnsAreCalls
  <2>3. queue' = queue \o Despawns(few)
    BY <2>1 DEF Despawns
  <2>4. UNCHANGED shown
    BY <1>1 DEF DespawnPaced
  <2>5. QED
    BY <2>2, <2>3, <2>4
<1>2. ASSUME GenSurface PROVE queue' \in Seq(Call) /\ UNCHANGED shown
  <2>1. PICK s \in sGen : queue' = queue \/ queue' = Append(queue, Spawn(s, Coarse))
    BY <1>2 DEF GenSurface
  <2>2. Spawn(s, Coarse) \in Call
    BY DEF Group, Spawn, Call
  <2>3. UNCHANGED shown
    BY <1>2 DEF GenSurface
  <2>4. Append(queue, Spawn(s, Coarse)) \in Seq(Call)
    BY <2>2, AppendProperties
  <2>5. QED
    BY <2>1, <2>3, <2>4
<1>3. ASSUME SpawnClear PROVE queue' \in Seq(Call) /\ UNCHANGED shown
  <2>1. Head(finished) \in Chunk
    BY <1>3, FrontIsWanted DEF SpawnClear, Spawning
  <2>2. PatchOf[Head(finished)] \in Patch
    BY <2>1, TerrainAssumption
  <2>3. Despawn(Head(finished)) \in Call /\ Despawn(PatchOf[Head(finished)]) \in Call
    BY <2>1, <2>2 DEF Despawn, Spawn, Call, Group
  <2>4. QED
    BY <1>3, <2>3 DEF SpawnClear
<1>4. ASSUME SpawnSend PROVE queue' \in Seq(Call) /\ UNCHANGED shown
  <2>1. Head(finished) \in Chunk
    BY <1>4, FrontIsWanted DEF SpawnSend, Work
  <2>2. Spawn(Head(finished), mark[Head(finished)]) \in Call
    BY <2>1 DEF Spawn, Call, Group
  <2>3. QED
    BY <1>4, <2>2 DEF SpawnSend
<1>5. ASSUME DespawnTick PROVE queue' \in Seq(Call) /\ UNCHANGED shown
  <2>1. toDespawn \ toDespawn' \subseteq Chunk /\ sDespawn \ sDespawn' \subseteq Patch
    OBVIOUS
  <2>2. Despawns(toDespawn \ toDespawn') \in Seq(Call) /\ Despawns(sDespawn \ sDespawn') \in Seq(Call)
    BY <2>1, ChunksFinite, DespawnsAreCalls
  <2>3. queue' = queue \o Despawns(toDespawn \ toDespawn') \o Despawns(sDespawn \ sDespawn')
    BY <1>5 DEF DespawnTick, Despawns
  <2>4. UNCHANGED shown
    BY <1>5 DEF DespawnTick
  <2>5. QED
    BY <2>2, <2>3, <2>4
<1>6. ASSUME RunDeferred PROVE queue' \in Seq(Call) /\ shown' \in [Group -> Batches]
  <2>1. queue # <<>> /\ Head(queue) \in Call /\ queue' = Tail(queue)
    BY <1>6 DEF RunDeferred
  <2>2. \A b \in Batches : Ran(Head(queue), b) \in Batches
    BY <2>1 DEF Ran, Batches, Call
  <2>3. shown' = [shown EXCEPT ![Head(queue).group] = Ran(Head(queue), @)]
    BY <1>6 DEF RunDeferred, Ran
  <2>4. QED
    BY <2>1, <2>2, <2>3 DEF Call
<1>7. CASE \/ DespawnPaced \/ GenSurface \/ SpawnClear \/ SpawnSend \/ DespawnTick \/ RunDeferred
  BY <1>1, <1>2, <1>3, <1>4, <1>5, <1>6, <1>7
<1>8. CASE UNCHANGED <<queue, shown>>
  BY <1>8
<1>9. QED
  BY <1>7, <1>8
  DEF Next, Worker, WorldGen, Top, Wait, Look, SkipGen, StartGen, ResetDesiredChunks, GenChunk,
      SpawnIdle, SpawnDone, SpawnSkip, SpawnMark, NothingToDo, Move, Leave, Enter, Exit, vars

LEMMA TypeStep ==
  ASSUME TypeOK, Work, [Next]_vars
  PROVE  TypeOK'
<1> USE DEF TypeOK
<1>1. queue' \in Seq(Call) /\ shown' \in [Group -> Batches]
  BY QueueTyped
<1>2. CASE UNCHANGED vars
  BY <1>2 DEF vars, world, away, look, gen, surface
<1>3. ASSUME Top \/ Wait \/ SkipGen \/ StartGen \/ SpawnIdle \/ NothingToDo PROVE TypeOK'
  BY <1>3, <1>1
  DEF Top, Wait, SkipGen, StartGen, SpawnIdle, NothingToDo, Iterated, world, away, look, gen, surface
<1>4. ASSUME DespawnPaced PROVE TypeOK'
  <2>1. \E few \in SUBSET Chunk : groups' \subseteq Chunk /\ lost' = lost \cup few
    BY <1>4 DEF DespawnPaced
  <2>2. QED
    BY <1>4, <1>1, <2>1 DEF DespawnPaced, world, look, gen, surface
<1>5. ASSUME Look PROVE TypeOK'
  BY <1>5, <1>1 DEF Look, world, away, gen, surface
<1>6. ASSUME ResetDesiredChunks PROVE TypeOK'
  <2>1. Wanted(snap) \subseteq Chunk /\ Wanted(centre) \subseteq Chunk
    BY DEF Wanted
  <2>2. snap \in Place => WantPatch[snap] \subseteq Patch
    BY TerrainAssumption
  <2>3. QED
    BY <1>6, <1>1, <2>1, <2>2 DEF ResetDesiredChunks, Work, world, away, look
<1>7. ASSUME GenSurface PROVE TypeOK'
  BY <1>7, <1>1 DEF GenSurface, Iterated, world, away, look, gen
<1>8. ASSUME GenChunk PROVE TypeOK'
  BY <1>8, <1>1 DEF GenChunk, Iterated, world, away, look, surface
<1>9. ASSUME SpawnDone PROVE TypeOK'
  BY <1>9, <1>1, FrontIsWanted DEF SpawnDone, Spawning, Iterated, world, away, look, surface
<1>10. ASSUME SpawnSkip PROVE TypeOK'
  BY <1>10, <1>1, FrontIsWanted DEF SpawnSkip, Spawning, Iterated, world, away, look, surface
<1>11. ASSUME SpawnClear PROVE TypeOK'
  BY <1>11, <1>1, FrontIsWanted DEF SpawnClear, Spawning, world, away, look
<1>12. ASSUME SpawnMark PROVE TypeOK'
  BY <1>12, <1>1, FrontIsWanted DEF SpawnMark, Work, world, away, look, surface
<1>13. ASSUME SpawnSend PROVE TypeOK'
  BY <1>13, <1>1, FrontIsWanted DEF SpawnSend, Work, Iterated, world, away, look, gen, surface
<1>14. ASSUME DespawnTick PROVE TypeOK'
  BY <1>14, <1>1 DEF DespawnTick, DespawnVisit, Work, world, away, gen
<1>15. ASSUME RunDeferred PROVE TypeOK'
  BY <1>15, <1>1 DEF RunDeferred, world, away, look, gen, surface
<1>16. ASSUME Move \/ Leave \/ Enter \/ Exit PROVE TypeOK'
  <2>1. CASE Move
    <3>1. moves' \in 0 .. MaxMoves
      BY <2>1, TerrainAssumption DEF Move
    <3>2. QED
      BY <2>1, <3>1, <1>1 DEF Move, away, look, gen, surface
  <2>2. CASE Leave
    <3>1. leaves' \in 0 .. MaxLeaves
      BY <2>2, TerrainAssumption DEF Leave
    <3>2. QED
      BY <2>2, <3>1, <1>1 DEF Leave, look, gen, surface
  <2>3. CASE Enter
    BY <2>3, <1>1 DEF Enter, away, look, gen, surface
  <2>4. CASE Exit
    BY <2>4, <1>1 DEF Exit, world, away, look, gen, surface
  <2>5. QED
    BY <1>16, <2>1, <2>2, <2>3, <2>4
<1>17. QED
  BY <1>2, <1>3, <1>4, <1>5, <1>6, <1>7, <1>8, <1>9, <1>10, <1>11, <1>12, <1>13, <1>14, <1>15, <1>16
  DEF Next, Worker, WorldGen
-----------------------------------------------------------------------------
(* What the steps that change the queue do to what will be shown.           *)
LEMMA SettledNext == \A g : Settled(g)' = ShownAfter(queue', shown'[g], g)
BY DEF Settled, ShownAfter, Calls

LEMMA QueueStays ==
  ASSUME UNCHANGED <<queue, shown>>
  PROVE  /\ \A g \in Group : Settled(g)' = Settled(g)
         /\ Alternates(queue, shown) => Alternates(queue, shown)'
<1>1. \A g \in Group : Settled(g)' = Settled(g)
  BY SettledNext DEF Settled
<1>2. Alternates(queue, shown)' = Alternates(queue', shown')
  BY DEF Alternates, ShownAfter, Calls
<1>3. QED
  BY <1>1, <1>2

LEMMA Appended ==
  ASSUME TypeOK, NEW call \in Call, queue' = Append(queue, call), UNCHANGED shown
  PROVE  \A g \in Group : Settled(g)' = IF g = call.group THEN call.level ELSE Settled(g)
<1> SUFFICES ASSUME NEW g \in Group
             PROVE  Settled(g)' = IF g = call.group THEN call.level ELSE Settled(g)
  OBVIOUS
<1>1. Settled(g)' = ShownAfter(Append(queue, call), shown[g], g)
  BY SettledNext
<1>2. queue \in Seq(Call)
  BY DEF TypeOK
<1>3. QED
  BY <1>1, <1>2, AfterAppend DEF Settled

LEMMA Despawned ==
  ASSUME TypeOK, NEW G \in SUBSET Group, IsFiniteSet(G),
         queue' = queue \o Despawns(G), UNCHANGED shown
  PROVE  \A g \in Group : Settled(g)' = IF g \in G THEN None ELSE Settled(g)
<1> SUFFICES ASSUME NEW g \in Group
             PROVE  Settled(g)' = IF g \in G THEN None ELSE Settled(g)
  OBVIOUS
<1>1. Settled(g)' = ShownAfter(queue \o Despawns(G), shown[g], g)
  BY SettledNext
<1>2. queue \in Seq(Call)
  BY DEF TypeOK
<1>3. QED
  BY <1>1, <1>2, AfterDespawns DEF Settled

LEMMA PacedEffect ==
  ASSUME TypeOK, Alternates(queue, shown), DespawnPaced
  PROVE  /\ \E few \in SUBSET Chunk :
              /\ lost' = lost \cup few
              /\ \A g \in Group : Settled(g)' = IF g \in few THEN None ELSE Settled(g)
         /\ Alternates(queue, shown)'
<1>1. PICK few \in SUBSET Chunk : /\ queue' = queue \o SetToSeq({Despawn(c) : c \in few})
                                  /\ lost' = lost \cup few
  BY DEF DespawnPaced, TypeOK
<1>2. queue' = queue \o Despawns(few) /\ UNCHANGED shown
  BY <1>1 DEF Despawns, DespawnPaced
<1>3. few \in SUBSET Group /\ IsFiniteSet(few)
  BY ChunksFinite
<1>4. \A g \in Group : Settled(g)' = IF g \in few THEN None ELSE Settled(g)
  BY <1>2, <1>3, Despawned
<1>5. queue \in Seq(Call)
  BY DEF TypeOK
<1>6. Alternates(queue, shown)'
  <2>1. Alternates(queue \o Despawns(few), shown)
    BY <1>3, <1>5, AlternatesDespawns
  <2>2. QED
    BY <1>2, <2>1
<1>7. QED
  BY <1>1, <1>4, <1>6

LEMMA SurfaceEffect ==
  ASSUME TypeOK, Alternates(queue, shown), MarksMatchDisplay, GenSurface
  PROVE  /\ \E s \in sGen :
              \/ /\ s \in sWanted /\ s \notin active /\ active' = active \cup {s}
                 /\ \A g \in Group : Settled(g)' = IF g = s THEN Coarse ELSE Settled(g)
              \/ /\ active' = active
                 /\ \A g \in Group : Settled(g)' = Settled(g)
         /\ Alternates(queue, shown)'
<1>1. PICK s \in sGen : IF s \in sWanted \ active
                          THEN active' = active \cup {s} /\ queue' = Append(queue, Spawn(s, Coarse))
                          ELSE UNCHANGED <<active, queue>>
  BY DEF GenSurface
<1>2. UNCHANGED shown
  BY DEF GenSurface
<1>3. CASE s \in sWanted \ active
  <2>1. s \in Patch /\ s \in Group /\ queue \in Seq(Call)
    BY DEF TypeOK, Group
  <2>2. Spawn(s, Coarse) \in Call /\ Spawn(s, Coarse).group = s /\ Spawn(s, Coarse).level = Coarse
    BY <2>1, SpawnIsCall
  <2>3. ShownAfter(queue, shown[s], s) = None
    BY <1>3, <2>1 DEF MarksMatchDisplay, Settled
  <2>4. queue' = Append(queue, Spawn(s, Coarse)) /\ active' = active \cup {s}
    BY <1>1, <1>3
  <2>5. Alternates(Append(queue, Spawn(s, Coarse)), shown)
    BY <2>1, <2>2, <2>3, AlternatesAppend
  <2>6. \A g \in Group : Settled(g)' = IF g = s THEN Coarse ELSE Settled(g)
    BY <1>2, <2>2, <2>4, Appended
  <2>7. QED
    BY <1>2, <1>3, <2>4, <2>5, <2>6
<1>4. CASE s \notin sWanted \ active
  <2>1. UNCHANGED <<active, queue, shown>>
    BY <1>1, <1>2, <1>4
  <2>2. (\A g \in Group : Settled(g)' = Settled(g)) /\ Alternates(queue, shown)'
    BY <2>1, QueueStays
  <2>3. QED
    BY <2>1, <2>2
<1>5. QED
  BY <1>3, <1>4

LEMMA ClearEffect ==
  ASSUME TypeOK, Work, Alternates(queue, shown), MarksMatchDisplay, SpawnClear
  PROVE  LET c == Head(finished)
             s == PatchOf[c]
         IN  /\ c \in Chunk /\ s \in Patch /\ c # s
             /\ \A g \in Group : Settled(g)' = IF g \in {c, s} THEN None ELSE Settled(g)
             /\ Alternates(queue, shown)'
<1> DEFINE c == Head(finished)
           s == PatchOf[c]
           q == Append(queue, Despawn(c))
<1>1. c \in Chunk /\ s \in Patch /\ c # s
  <2>1. c \in Chunk
    BY FrontIsWanted DEF SpawnClear, Spawning
  <2>2. QED
    BY <2>1, TerrainAssumption
<1>2. /\ UNCHANGED shown
      /\ queue' = queue \o <<Despawn(c)>> \o (IF s \in active THEN <<Despawn(s)>> ELSE <<>>)
  BY DEF SpawnClear
<1> HIDE DEF c, s
<1>3. c \in Group /\ s \in Group /\ queue \in Seq(Call)
  BY <1>1 DEF Group, TypeOK
<1>4. /\ Despawn(c) \in Call /\ Despawn(c).group = c /\ Despawn(c).level = None
      /\ Despawn(s) \in Call /\ Despawn(s).group = s /\ Despawn(s).level = None
  BY <1>3, SpawnIsCall DEF Despawn
<1>5. q \in Seq(Call) /\ Alternates(q, shown)
  BY <1>3, <1>4, AlternatesAppend
<1>6. \A g \in Group : ShownAfter(q, shown[g], g) = IF g = c THEN None ELSE Settled(g)
  BY <1>3, <1>4, AfterAppend DEF Settled
<1>7. CASE s \in active
  <2>1. queue' = Append(q, Despawn(s))
    BY <1>2, <1>3, <1>4, <1>7
  <2> HIDE DEF q
  <2>2. Alternates(Append(q, Despawn(s)), shown)
    BY <1>4, <1>5, AlternatesAppend
  <2>3. \A g \in Group : ShownAfter(Append(q, Despawn(s)), shown[g], g) =
          IF g = s THEN None ELSE ShownAfter(q, shown[g], g)
    BY <1>4, <1>5, AfterAppend
  <2>4. \A g \in Group : Settled(g)' = ShownAfter(Append(q, Despawn(s)), shown[g], g)
    BY <1>2, <2>1, SettledNext
  <2>5. QED
    BY <1>1, <1>2, <1>6, <2>1, <2>2, <2>3, <2>4 DEF c, s
<1>8. CASE s \notin active
  <2>1. queue' = q
    BY <1>2, <1>3, <1>4, <1>8
  <2> HIDE DEF q
  <2>2. Settled(s) = None
    BY <1>1, <1>8 DEF MarksMatchDisplay
  <2>3. \A g \in Group : Settled(g)' = ShownAfter(q, shown[g], g)
    BY <1>2, <2>1, SettledNext
  <2>4. QED
    BY <1>1, <1>2, <1>5, <1>6, <2>1, <2>2, <2>3 DEF c, s
<1>9. QED
  BY <1>7, <1>8

LEMMA SendEffect ==
  ASSUME TypeOK, Work, Alternates(queue, shown), SpawnSend
  PROVE  LET c == Head(finished)
             sent == landed /\ mark[c] # None
         IN  /\ c \in Chunk
             /\ \A g \in Group : Settled(g)' = IF g = c /\ sent THEN mark[c] ELSE Settled(g)
             /\ Alternates(queue, shown)'
<1> DEFINE c == Head(finished)
           call == Spawn(c, mark[c])
<1>1. c \in Chunk /\ Settled(c) = None
  BY FrontIsWanted DEF SpawnSend, Work
<1>2. /\ UNCHANGED shown
      /\ queue' = IF landed /\ mark[c] # None THEN Append(queue, call) ELSE queue
  BY DEF SpawnSend
<1> HIDE DEF c
<1>3. c \in Group /\ mark[c] \in Level \cup {None, Coarse} /\ queue \in Seq(Call)
  BY <1>1 DEF Group, TypeOK
<1>4. call \in Call /\ call.group = c /\ call.level = mark[c]
  BY <1>3, SpawnIsCall
<1> HIDE DEF call
<1>5. CASE landed /\ mark[c] # None
  <2>1. Alternates(Append(queue, call), shown)
    BY <1>1, <1>3, <1>4, AlternatesAppend DEF Settled
  <2>2. \A g \in Group : Settled(g)' = IF g = c THEN mark[c] ELSE Settled(g)
    BY <1>2, <1>4, <1>5, Appended
  <2>3. queue' = Append(queue, call)
    BY <1>2, <1>5
  <2>4. QED
    BY <1>1, <1>2, <1>5, <2>1, <2>2, <2>3 DEF c
<1>6. CASE ~(landed /\ mark[c] # None)
  <2>1. UNCHANGED <<queue, shown>>
    BY <1>2, <1>6
  <2>2. QED
    BY <1>1, <1>6, <2>1, QueueStays DEF c
<1>7. QED
  BY <1>5, <1>6

LEMMA TickEffect ==
  ASSUME TypeOK, Alternates(queue, shown), DespawnTick
  PROVE  /\ \A c \in Chunk : Settled(c)' = IF c \in toDespawn \ toDespawn' THEN None ELSE Settled(c)
         /\ \A s \in Patch : Settled(s)' = IF s \in sDespawn \ sDespawn' THEN None ELSE Settled(s)
         /\ Alternates(queue, shown)'
<1> DEFINE A == toDespawn \ toDespawn'
           B == sDespawn \ sDespawn'
           q == queue \o Despawns(A)
<1>1. /\ A \subseteq Chunk /\ B \subseteq Patch
      /\ A \in SUBSET Group /\ IsFiniteSet(A) /\ B \in SUBSET Group /\ IsFiniteSet(B)
  <2>1. A \subseteq Chunk /\ B \subseteq Patch
    BY DEF TypeOK
  <2>2. QED
    BY <2>1, ChunksFinite
<1>2. queue' = q \o Despawns(B) /\ UNCHANGED shown
  BY DEF DespawnTick, Despawns
<1>3. queue \in Seq(Call)
  BY DEF TypeOK
<1> HIDE DEF A, B
<1>4. q \in Seq(Call)
  BY <1>1, <1>3, DespawnsAreCalls
<1>5. Alternates(q, shown)
  BY <1>1, <1>3, AlternatesDespawns
<1>6. \A g \in Group : ShownAfter(q, shown[g], g) = IF g \in A THEN None ELSE Settled(g)
  BY <1>1, <1>3, AfterDespawns DEF Settled
<1> HIDE DEF q
<1>7. Alternates(q \o Despawns(B), shown)
  BY <1>1, <1>4, <1>5, AlternatesDespawns
<1>8. \A g \in Group : ShownAfter(q \o Despawns(B), shown[g], g) =
        IF g \in B THEN None ELSE ShownAfter(q, shown[g], g)
  BY <1>1, <1>4, AfterDespawns
<1>9. \A g \in Group : Settled(g)' = ShownAfter(q \o Despawns(B), shown[g], g)
  BY <1>2, SettledNext
<1>10. \A g \in Group : Settled(g)' = IF g \in A \cup B THEN None ELSE Settled(g)
  BY <1>6, <1>8, <1>9
<1>11. Chunk \cap Patch = {} /\ Chunk \subseteq Group /\ Patch \subseteq Group
  BY TerrainAssumption DEF Group
<1>12. QED
  BY <1>1, <1>2, <1>7, <1>10, <1>11 DEF A, B

LEMMA RunEffect ==
  ASSUME TypeOK, Alternates(queue, shown), RunDeferred
  PROVE  /\ \A g \in Group : Settled(g)' = Settled(g)
         /\ Alternates(queue, shown)'
<1>1. queue \in Seq(Call) /\ queue # <<>> /\ shown \in [Group -> Batches] /\ queue' = Tail(queue)
  BY DEF TypeOK, RunDeferred
<1>2. shown' = [shown EXCEPT ![Head(queue).group] = Ran(Head(queue), @)]
  BY DEF RunDeferred, Ran
<1>3. Alternates(queue, shown)'
  <2>1. Alternates(Tail(queue), [shown EXCEPT ![Head(queue).group] = Ran(Head(queue), @)])
    BY <1>1, AlternatesTail
  <2>2. QED
    BY <1>1, <1>2, <2>1
<1>4. ASSUME NEW g \in Group PROVE Settled(g)' = Settled(g)
  <2>1. shown[g] \in Batches /\ shown'[g] = IF Head(queue).group = g THEN Ran(Head(queue), shown[g]) ELSE shown[g]
    BY <1>1, <1>2
  <2>2. ShownAfter(queue, shown[g], g) = ShownAfter(Tail(queue), shown'[g], g)
    BY <1>1, <2>1, AfterTail
  <2>3. Settled(g)' = ShownAfter(Tail(queue), shown'[g], g)
    BY <1>1, SettledNext
  <2>4. QED
    BY <2>2, <2>3 DEF Settled
<1>5. QED
  BY <1>3, <1>4
-----------------------------------------------------------------------------
(* The inductive invariant: marks and lists as the properties have them,    *)
(* what the worker knows of its own lists, and a queue whose spawns each    *)
(* find their group empty.                                                  *)
IInv ==
  /\ TypeOK /\ Work /\ Alternates(queue, shown)
  /\ OneLevelShown /\ MarksMatchDisplay /\ NothingForgotten

(* Steps of the worker that leave alone what is shown, marked and listed to *)
(* go, and steps that change nothing the worker decides.                    *)
Quiet ==
  Top \/ Wait \/ Look \/ SkipGen \/ StartGen \/ GenChunk \/ SpawnIdle \/ SpawnDone \/ SpawnSkip \/ NothingToDo
Outside == Move \/ Leave \/ Enter \/ Exit \/ UNCHANGED vars

LEMMA StepCases ==
  ASSUME [Next]_vars
  PROVE  \/ Quiet \/ Outside \/ DespawnPaced \/ ResetDesiredChunks \/ GenSurface \/ SpawnClear
         \/ SpawnMark \/ SpawnSend \/ DespawnTick \/ RunDeferred
BY DEF Next, Worker, WorldGen, Quiet, Outside

LEMMA QuietEffect ==
  ASSUME Quiet
  PROVE  /\ UNCHANGED <<queue, shown, mark, lost, active, toDespawn, rest, sWanted, sDespawn, centre>>
         /\ pc \notin {"mark", "send"} /\ pc' \notin {"mark", "send"}
BY DEF Quiet, Top, Wait, Look, SkipGen, StartGen, GenChunk, SpawnIdle, SpawnDone, SpawnSkip, NothingToDo,
       Spawning, Iterated, gen, surface

LEMMA OutsideEffect ==
  ASSUME Outside
  PROVE  /\ UNCHANGED <<queue, shown, mark, lost, active, toDespawn, rest, sWanted, sDespawn, centre>>
         /\ UNCHANGED <<pc, finished, toGen, current, coarse, snap>>
BY DEF Outside, Move, Leave, Enter, Exit, vars, gen, surface, look

LEMMA WorkStep ==
  ASSUME IInv, [Next]_vars
  PROVE  Work'
<1> USE DEF IInv
<1>1. CASE Quiet
  <2>1. toGen' \subseteq Wanted(centre) /\ (pc' = "gen" => snap' \in Place)
        /\ \A i \in DOMAIN finished' : finished'[i] \in Wanted(centre)
    <3>1. CASE UNCHANGED <<toGen, finished>>
      <4>1. pc' = "gen" => snap' \in Place
        BY <1>1 DEF Quiet, Top, Wait, Look, SkipGen, StartGen, GenChunk, SpawnIdle, SpawnDone,
                    SpawnSkip, NothingToDo, Iterated, TypeOK
      <4>2. QED
        BY <3>1, <4>1 DEF Work
    <3>2. CASE GenChunk
      <4>1. PICK c \in toGen : toGen' = toGen \ {c} /\ finished' = Append(finished, c)
        BY <3>2 DEF GenChunk
      <4>2. finished \in Seq(Chunk) /\ c \in Chunk /\ c \in Wanted(centre)
        BY DEF TypeOK, Work
      <4>3. \A i \in DOMAIN Append(finished, c) :
              \/ i \in DOMAIN finished /\ Append(finished, c)[i] = finished[i]
              \/ Append(finished, c)[i] = c
        BY <4>2
      <4>4. pc' # "gen"
        BY <3>2 DEF GenChunk, Iterated
      <4>5. QED
        BY <4>1, <4>2, <4>3, <4>4 DEF Work
    <3>3. CASE SpawnDone
      <4>1. finished \in Seq(Chunk) /\ finished # <<>> /\ UNCHANGED toGen /\ pc' # "gen"
        BY <3>3 DEF SpawnDone, Spawning, TypeOK, Iterated
      <4>2. finished' = Tail(finished) \/ finished' = Append(Tail(finished), Head(finished))
        BY <3>3, <4>1 DEF SpawnDone
      <4>3. Head(finished) \in Wanted(centre) /\ \A i \in DOMAIN finished : finished[i] \in Wanted(centre)
        BY <4>1, FrontIsWanted DEF Work
      <4>4. Tail(finished) \in Seq(Chunk) /\ Head(finished) \in Chunk
            /\ \A i \in DOMAIN Tail(finished) : Tail(finished)[i] \in Wanted(centre)
        BY <4>1, <4>3
      <4>5. \A i \in DOMAIN Append(Tail(finished), Head(finished)) :
              Append(Tail(finished), Head(finished))[i] \in Wanted(centre)
        BY <4>3, <4>4
      <4>6. QED
        BY <4>1, <4>2, <4>4, <4>5 DEF Work
    <3>4. QED
      BY <1>1, <3>1, <3>2, <3>3
      DEF Quiet, Top, Wait, Look, SkipGen, StartGen, SpawnIdle, SpawnSkip, NothingToDo, gen
  <2>2. rest' \subseteq toDespawn' /\ UNCHANGED centre /\ pc' \notin {"mark", "send"}
    BY <1>1, QuietEffect DEF Work
  <2>3. QED
    BY <2>1, <2>2 DEF Work, Wanted
<1>2. CASE Outside
  <2>1. UNCHANGED <<rest, toDespawn, toGen, centre, finished, pc, snap, current, coarse, queue, shown>>
    BY <1>2, OutsideEffect
  <2>2. \A c \in Chunk : Settled(c)' = Settled(c)
    BY <2>1, QueueStays DEF Group
  <2>3. \A c : NextOf(c)' = NextOf(c)
    BY <2>1 DEF NextOf, CurrentType, NextType
  <2>4. QED
    BY <2>1, <2>2, <2>3 DEF Work, Wanted
<1>3. CASE DespawnPaced
  BY <1>3 DEF DespawnPaced, Work, Wanted, gen
<1>4. CASE ResetDesiredChunks
  BY <1>4 DEF ResetDesiredChunks, Work, Wanted
<1>5. CASE GenSurface
  BY <1>5 DEF GenSurface, Iterated, Work, Wanted, gen
<1>6. CASE SpawnClear
  <2>1. /\ UNCHANGED <<rest, toDespawn, toGen, centre, finished, coarse>> /\ pc' = "mark"
        /\ finished # <<>> /\ NextOf(Head(finished)) # CurrentType(Head(finished))
        /\ current' = [current EXCEPT ![Head(finished)] = CurrentType(Head(finished))]
    BY <1>6 DEF SpawnClear, Spawning
  <2>2. Head(finished) \in Chunk /\ NextOf(Head(finished)) \in Level
        /\ CurrentType(Head(finished)) \in Level \cup {None, Zero}
    BY <2>1, FrontIsWanted
  <2>3. \A c \in Chunk : c = Head(finished) => Settled(c)' = None
    BY <1>6, ClearEffect DEF Group
  <2>4. \A c \in Chunk : CurrentType(c)' = CurrentType(c)
    <3>1. ASSUME NEW c \in Chunk, c = Head(finished) PROVE CurrentType(c)' = CurrentType(c)
      <4>1. current'[c] = CurrentType(c)
        BY <2>1, <3>1 DEF TypeOK
      <4>2. QED
        BY <2>2, <3>1, <4>1 DEF CurrentType, Level, Absent, None, Zero
    <3>2. ASSUME NEW c \in Chunk, c # Head(finished) PROVE CurrentType(c)' = CurrentType(c)
      BY <2>1, <3>2 DEF CurrentType, TypeOK
    <3>3. QED
      BY <3>1, <3>2
  <2>5. \A c \in Chunk : NextOf(c)' = NextOf(c)
    <3> SUFFICES ASSUME NEW c \in Chunk PROVE NextOf(c)' = NextOf(c)
      OBVIOUS
    <3>1. CurrentType(c)' = CurrentType(c) /\ UNCHANGED <<centre, coarse>>
      BY <2>1, <2>4
    <3>2. QED
      BY <3>1 DEF NextOf, NextType
  <2>6. \A c \in Chunk : c = Head(finished) => NextOf(c)' \in Level
    BY <2>2, <2>5
  <2>7. QED
    BY <2>1, <2>2, <2>3, <2>6 DEF Work, Wanted
<1>7. CASE SpawnMark
  <2>1. /\ UNCHANGED <<rest, toDespawn, toGen, centre, finished, queue, shown>>
        /\ pc = "mark" /\ pc' = "send"
    BY <1>7 DEF SpawnMark
  <2>2. finished # <<>> /\ \A c \in Chunk : c = Head(finished) => Settled(c) = None
    BY <2>1 DEF Work
  <2>3. \A c \in Chunk : Settled(c)' = Settled(c)
    BY <2>1, QueueStays DEF Group
  <2>4. QED
    BY <2>1, <2>2, <2>3 DEF Work, Wanted
<1>8. CASE SpawnSend
  BY <1>8 DEF SpawnSend, Iterated, Work, Wanted, gen
<1>9. CASE DespawnTick
  <2>1. rest' \subseteq toDespawn'
    BY <1>9 DEF DespawnTick, DespawnVisit, Work
  <2>2. QED
    BY <1>9, <2>1 DEF DespawnTick, Work, Wanted, gen
<1>10. CASE RunDeferred
  <2>1. UNCHANGED <<rest, toDespawn, toGen, centre, finished, pc, snap, current, coarse>>
    BY <1>10 DEF RunDeferred, look, gen
  <2>2. \A c \in Chunk : Settled(c)' = Settled(c)
    BY <1>10, RunEffect DEF Group
  <2>3. \A c : NextOf(c)' = NextOf(c)
    BY <2>1 DEF NextOf, CurrentType, NextType
  <2>4. QED
    BY <2>1, <2>2, <2>3 DEF Work, Wanted
<1>11. QED
  BY <1>1, <1>2, <1>3, <1>4, <1>5, <1>6, <1>7, <1>8, <1>9, <1>10, StepCases

LEMMA AlternatesStep ==
  ASSUME IInv, [Next]_vars
  PROVE  Alternates(queue, shown)'
<1> USE DEF IInv
<1>1. CASE UNCHANGED <<queue, shown>>
  BY <1>1, QueueStays
<1>2. CASE SpawnMark \/ ResetDesiredChunks
  BY <1>2, QueueStays DEF SpawnMark, ResetDesiredChunks
<1>3. CASE Quiet \/ Outside
  BY <1>1, <1>3, QuietEffect, OutsideEffect
<1>4. QED
  BY <1>2, <1>3, StepCases, PacedEffect, SurfaceEffect, ClearEffect, SendEffect, TickEffect, RunEffect

LEMMA OneLevelStep ==
  ASSUME IInv, [Next]_vars
  PROVE  OneLevelShown'
<1> USE DEF IInv
<1>1. CASE RunDeferred
  <2> DEFINE call == Head(queue)
  <2>1. /\ queue \in Seq(Call) /\ queue # <<>> /\ call \in Call /\ 1 \in DOMAIN queue
        /\ queue[1] = call /\ SubSeq(queue, 1, 1 - 1) = <<>>
    BY <1>1 DEF RunDeferred, TypeOK
  <2>2. shown' = [shown EXCEPT ![call.group] = IF call.level = None THEN <<>> ELSE Append(@, call.level)]
    BY <1>1 DEF RunDeferred
  <2> HIDE DEF call
  <2>3. call.group \in Group /\ call.level \in Level \cup {None, Coarse}
    BY <2>1 DEF Call
  <2>4. shown[call.group] \in Seq(Level \cup {Coarse})
    BY <2>3 DEF TypeOK, Batches
  <2>5. call.level # None => shown[call.group] = <<>>
    <3> SUFFICES ASSUME call.level # None PROVE shown[call.group] = <<>>
      OBVIOUS
    <3>1. ShownAfter(<<>>, shown[call.group], call.group) = None
      BY <2>1 DEF Alternates
    <3>2. Calls(<<>>, call.group) = {}
      BY DEF Calls
    <3>3. shown[call.group] = <<>> \/ shown[call.group][Len(shown[call.group])] = None
      BY <3>1, <3>2, NoCallNoChange
    <3>4. ASSUME shown[call.group] # <<>>
          PROVE  shown[call.group][Len(shown[call.group])] \in Level \cup {Coarse}
      BY <2>4, <3>4
    <3>5. None \notin Level \cup {Coarse}
      BY DEF None, Level, Coarse
    <3>6. QED
      BY <3>3, <3>4, <3>5
  <2>6. \A g \in Group : shown'[g] = shown[g] \/ shown'[g] = <<>> \/ shown'[g] = <<call.level>>
    <3>1. CASE call.level = None
      BY <2>2, <2>3, <3>1 DEF TypeOK
    <3>2. CASE call.level # None
      <4>1. shown' = [shown EXCEPT ![call.group] = Append(shown[call.group], call.level)]
        BY <2>2, <3>2
      <4>2. shown[call.group] = <<>> /\ Append(<<>>, call.level) = <<call.level>>
        BY <2>5, <3>2
      <4>3. QED
        BY <2>3, <4>1, <4>2 DEF TypeOK
    <3>3. QED
      BY <3>1, <3>2
  <2>7. ASSUME NEW g \in Group PROVE Len(shown'[g]) <= 1
    <3>1. Len(<<>>) <= 1 /\ Len(<<call.level>>) <= 1
      OBVIOUS
    <3>2. Len(shown[g]) <= 1
      BY DEF OneLevelShown
    <3>3. QED
      BY <2>6, <3>1, <3>2
  <2>8. QED
    BY <2>7 DEF OneLevelShown
<1>2. CASE UNCHANGED shown
  BY <1>2 DEF OneLevelShown
<1>3. CASE Quiet \/ Outside
  BY <1>2, <1>3, QuietEffect, OutsideEffect
<1>4. QED
  BY <1>1, <1>2, <1>3, StepCases
  DEF DespawnPaced, ResetDesiredChunks, GenSurface, SpawnClear, SpawnMark, SpawnSend, DespawnTick

LEMMA MarksStep ==
  ASSUME IInv, [Next]_vars
  PROVE  MarksMatchDisplay'
<1> USE DEF IInv
<1>1. Chunk \subseteq Group /\ Patch \subseteq Group /\ Chunk \cap Patch = {}
  BY TerrainAssumption DEF Group
<1>2. mark \in [Chunk -> Level \cup {None}]
  BY DEF TypeOK
<1>0. \A c \in Chunk : \/ Settled(c) = mark[c]
                       \/ (Settled(c) = None /\ c \in lost)
                       \/ Settled(c) = None /\ pc = "send" /\ c = Head(finished)
  BY DEF MarksMatchDisplay
<1>3. CASE Quiet \/ Outside
  <2>1. UNCHANGED <<mark, lost, active>> /\ (pc = "send" => pc' = "send" /\ finished' = finished)
    BY <1>3, QuietEffect, OutsideEffect
  <2>2. \A g \in Group : Settled(g)' = Settled(g)
    BY <1>3, QuietEffect, OutsideEffect, QueueStays
  <2>3. QED
    BY <1>1, <2>1, <2>2 DEF MarksMatchDisplay
<1>4. CASE DespawnPaced
  <2>1. PICK few \in SUBSET Chunk :
          /\ lost' = lost \cup few
          /\ \A g \in Group : Settled(g)' = IF g \in few THEN None ELSE Settled(g)
    BY <1>4, PacedEffect
  <2>2. UNCHANGED <<mark, active>> /\ pc # "send"
    BY <1>4 DEF DespawnPaced, surface
  <2>3. QED
    BY <1>1, <2>1, <2>2 DEF MarksMatchDisplay
<1>5. CASE ResetDesiredChunks
  <2>1. UNCHANGED <<mark, active, lost, queue, shown>> /\ pc # "send"
    BY <1>5 DEF ResetDesiredChunks
  <2>2. \A g \in Group : Settled(g)' = Settled(g)
    BY <2>1, QueueStays
  <2>3. QED
    BY <1>1, <2>1, <2>2 DEF MarksMatchDisplay
<1>6. CASE GenSurface
  <2>1. UNCHANGED <<mark, lost>> /\ pc # "send"
    BY <1>6 DEF GenSurface
  <2>2. PICK s \in sGen :
          \/ /\ s \in sWanted /\ s \notin active /\ active' = active \cup {s}
             /\ \A g \in Group : Settled(g)' = IF g = s THEN Coarse ELSE Settled(g)
          \/ /\ active' = active
             /\ \A g \in Group : Settled(g)' = Settled(g)
    BY <1>6, SurfaceEffect
  <2>3. s \in Patch /\ s \notin Chunk
    BY <1>1 DEF TypeOK
  <2>4. \A c \in Chunk : Settled(c)' = Settled(c)
    BY <1>1, <2>2, <2>3
  <2>5. \A t \in Patch : Settled(t)' = IF t \in active' THEN Coarse ELSE None
    BY <1>1, <2>2 DEF MarksMatchDisplay
  <2>6. QED
    BY <2>1, <2>4, <2>5 DEF MarksMatchDisplay
<1>7. CASE SpawnClear
  <2> DEFINE h == Head(finished)
             p == PatchOf[h]
  <2>1. /\ h \in Chunk /\ p \in Patch
        /\ \A g \in Group : Settled(g)' = IF g \in {h, p} THEN None ELSE Settled(g)
    BY <1>7, ClearEffect
  <2>2. /\ mark' = [mark EXCEPT ![h] = None] /\ active' = active \ {p} /\ UNCHANGED lost
        /\ pc # "send"
    BY <1>7 DEF SpawnClear, Spawning
  <2> HIDE DEF h, p
  <2>3. \A c \in Chunk : c # h => mark'[c] = mark[c] /\ Settled(c)' = Settled(c)
    BY <1>1, <1>2, <2>1, <2>2
  <2>4. \A c \in Chunk : c = h => mark'[c] = None /\ Settled(c)' = None
    BY <1>1, <1>2, <2>1, <2>2
  <2>5. \A c \in Chunk : \/ Settled(c)' = mark'[c]
                         \/ (Settled(c)' = None /\ c \in lost')
    BY <1>0, <2>2, <2>3, <2>4
  <2>6. \A s \in Patch : Settled(s)' = IF s \in active' THEN Coarse ELSE None
    BY <1>1, <2>1, <2>2 DEF MarksMatchDisplay
  <2>7. QED
    BY <2>5, <2>6 DEF MarksMatchDisplay
<1>8. CASE SpawnMark
  <2> DEFINE h == Head(finished)
  <2>1. /\ \A c \in Chunk : c # h => mark'[c] = mark[c]
        /\ UNCHANGED <<active, lost, queue, shown, finished>> /\ pc = "mark" /\ pc' = "send"
    BY <1>2, <1>8 DEF SpawnMark, surface
  <2>2. \A c \in Chunk : c = h => Settled(c) = None
    BY <2>1 DEF Work
  <2> HIDE DEF h
  <2>3. \A g \in Group : Settled(g)' = Settled(g)
    BY <2>1, QueueStays
  <2>4. \A c \in Chunk : \/ Settled(c)' = mark'[c]
                         \/ (Settled(c)' = None /\ (c \in lost' \/ c = h))
    <3> SUFFICES ASSUME NEW c \in Chunk
                 PROVE  Settled(c)' = mark'[c] \/ (Settled(c)' = None /\ (c \in lost' \/ c = h))
      OBVIOUS
    <3>1. Settled(c)' = Settled(c) /\ (c \in lost' <=> c \in lost)
      BY <1>1, <2>1, <2>3
    <3>2. CASE c = h
      BY <2>2, <3>1, <3>2
    <3>3. CASE c # h
      BY <1>0, <2>1, <3>1, <3>3
    <3>4. QED
      BY <3>2, <3>3
  <2>5. \A s \in Patch : Settled(s)' = IF s \in active' THEN Coarse ELSE None
    BY <1>1, <2>1, <2>3 DEF MarksMatchDisplay
  <2>6. QED
    BY <2>1, <2>4, <2>5 DEF MarksMatchDisplay, h
<1>9. CASE SpawnSend
  <2> DEFINE h == Head(finished)
             sent == landed /\ mark[h] # None
  <2>1. /\ h \in Chunk
        /\ \A g \in Group : Settled(g)' = IF g = h /\ sent THEN mark[h] ELSE Settled(g)
    BY <1>9, SendEffect
  <2>2. /\ UNCHANGED <<mark, active>> /\ pc = "send"
        /\ lost' = IF sent THEN lost \ {h} ELSE lost \cup {h}
    BY <1>9 DEF SpawnSend, surface
  <2>3. \A c \in Chunk : c = h => Settled(c) = None
    BY <2>2 DEF Work
  <2>4. \A c \in Chunk : c # h => Settled(c) = mark[c] \/ (Settled(c) = None /\ c \in lost)
    BY <1>0
  <2> HIDE DEF h, sent
  <2>5. \A c \in Chunk : c # h => /\ Settled(c)' = Settled(c)
                                  /\ c \in lost' <=> c \in lost
    BY <1>1, <2>1, <2>2
  <2>6. \A c \in Chunk : c = h => Settled(c)' = mark[c] \/ (Settled(c)' = None /\ c \in lost')
    <3>1. CASE sent
      BY <1>1, <2>1, <3>1
    <3>2. CASE ~sent
      <4>1. lost' = lost \cup {h}
        BY <2>2, <3>2
      <4>2. \A c \in Chunk : Settled(c)' = Settled(c)
        BY <1>1, <2>1, <3>2
      <4>3. QED
        BY <2>3, <4>1, <4>2
    <3>3. QED
      BY <3>1, <3>2
  <2>7. \A c \in Chunk : Settled(c)' = mark'[c] \/ (Settled(c)' = None /\ c \in lost')
    BY <2>2, <2>4, <2>5, <2>6
  <2>8. \A s \in Patch : Settled(s)' = IF s \in active' THEN Coarse ELSE None
    BY <1>1, <2>1, <2>2 DEF MarksMatchDisplay
  <2>9. QED
    BY <2>7, <2>8 DEF MarksMatchDisplay
<1>10. CASE DespawnTick
  <2>1. /\ \A c \in Chunk : Settled(c)' = IF c \in toDespawn \ toDespawn' THEN None ELSE Settled(c)
        /\ \A s \in Patch : Settled(s)' = IF s \in sDespawn \ sDespawn' THEN None ELSE Settled(s)
    BY <1>10, TickEffect
  <2>2. pc # "send" /\ \A c \in Chunk : /\ c \in toDespawn \ toDespawn' => mark'[c] = None
                                        /\ c \notin toDespawn \ toDespawn' =>
                                             mark'[c] = mark[c] /\ (c \in lost' <=> c \in lost)
    BY <1>2, <1>10 DEF DespawnTick, DespawnVisit, Work
  <2>3. \A s \in Patch : s \in active' <=> s \in active /\ s \notin sDespawn \ sDespawn'
    BY <1>10 DEF DespawnTick
  <2>4. ASSUME NEW c \in Chunk
        PROVE  Settled(c)' = mark'[c] \/ (Settled(c)' = None /\ c \in lost')
    <3>1. CASE c \in toDespawn \ toDespawn'
      BY <2>1, <2>2, <3>1
    <3>2. CASE c \notin toDespawn \ toDespawn'
      <4>1. Settled(c)' = Settled(c) /\ mark'[c] = mark[c] /\ (c \in lost' <=> c \in lost)
        BY <2>1, <2>2, <3>2
      <4>2. QED
        BY <1>0, <2>2, <4>1
    <3>3. QED
      BY <3>1, <3>2
  <2>5. \A s \in Patch : Settled(s)' = IF s \in active' THEN Coarse ELSE None
    BY <2>1, <2>3 DEF MarksMatchDisplay
  <2>6. QED
    BY <2>4, <2>5 DEF MarksMatchDisplay
<1>11. CASE RunDeferred
  <2>1. UNCHANGED <<mark, lost, active, pc, finished>>
    BY <1>11 DEF RunDeferred, gen, surface
  <2>2. \A g \in Group : Settled(g)' = Settled(g)
    BY <1>11, RunEffect
  <2>3. QED
    BY <1>1, <2>1, <2>2 DEF MarksMatchDisplay
<1>12. QED
  BY <1>3, <1>4, <1>5, <1>6, <1>7, <1>8, <1>9, <1>10, <1>11, StepCases

LEMMA ForgottenStep ==
  ASSUME IInv, [Next]_vars
  PROVE  NothingForgotten'
<1> USE DEF IInv
<1>1. Chunk \subseteq Group /\ mark \in [Chunk -> Level \cup {None}]
  BY DEF Group, TypeOK
<1>2. \A c \in Chunk : mark[c] # None \/ Settled(c) # None => c \in Wanted(centre) \cup toDespawn
  BY DEF NothingForgotten
<1>3. active \subseteq sWanted \cup sDespawn
  BY DEF NothingForgotten
<1>4. CASE Quiet \/ Outside \/ RunDeferred
  <2>1. UNCHANGED <<mark, toDespawn, centre, active, sWanted, sDespawn>>
    BY <1>4, QuietEffect, OutsideEffect DEF RunDeferred, gen, surface
  <2>2. \A c \in Chunk : Settled(c)' = Settled(c)
    BY <1>1, <1>4, QuietEffect, OutsideEffect, QueueStays, RunEffect
  <2>3. QED
    BY <1>2, <1>3, <2>1, <2>2 DEF NothingForgotten, Wanted
<1>5. CASE DespawnPaced
  <2>1. UNCHANGED <<mark, toDespawn, centre, active, sWanted, sDespawn>>
    BY <1>5 DEF DespawnPaced, gen, surface
  <2>2. \A c \in Chunk : Settled(c)' # None => Settled(c) # None
    BY <1>1, <1>5, PacedEffect
  <2>3. QED
    BY <1>2, <1>3, <2>1, <2>2 DEF NothingForgotten, Wanted
<1>6. CASE ResetDesiredChunks
  <2>1. /\ UNCHANGED <<mark, active, queue, shown>> /\ centre' = snap
        /\ toDespawn' = (toDespawn \cup Wanted(centre)) \ Wanted(snap)
        /\ sDespawn' = (sDespawn \cup sWanted) \ WantPatch[snap] /\ sWanted' = WantPatch[snap]
    BY <1>6 DEF ResetDesiredChunks
  <2>2. \A c \in Chunk : Settled(c)' = Settled(c)
    BY <1>1, <2>1, QueueStays
  <2>3. Wanted(centre)' = Wanted(snap)
    BY <2>1 DEF Wanted
  <2>4. \A c \in Chunk : mark'[c] # None \/ Settled(c)' # None => c \in Wanted(snap) \cup toDespawn'
    BY <1>2, <2>1, <2>2
  <2>5. active' \subseteq sWanted' \cup sDespawn'
    BY <1>3, <2>1
  <2>6. QED
    BY <2>3, <2>4, <2>5 DEF NothingForgotten
<1>7. CASE GenSurface
  <2>1. UNCHANGED <<mark, toDespawn, centre, sWanted, sDespawn>>
    BY <1>7 DEF GenSurface, gen
  <2>2. (\A c \in Chunk : Settled(c)' = Settled(c)) /\ active' \subseteq sWanted \cup sDespawn
    <3>1. PICK s \in sGen :
            \/ /\ s \in sWanted /\ s \notin active /\ active' = active \cup {s}
               /\ \A g \in Group : Settled(g)' = IF g = s THEN Coarse ELSE Settled(g)
            \/ /\ active' = active
               /\ \A g \in Group : Settled(g)' = Settled(g)
      BY <1>7, SurfaceEffect
    <3>2. s \notin Chunk
      BY TerrainAssumption DEF TypeOK
    <3>3. QED
      BY <1>1, <1>3, <3>1, <3>2
  <2>3. QED
    BY <1>2, <2>1, <2>2 DEF NothingForgotten, Wanted
<1>8. CASE SpawnClear
  <2> DEFINE h == Head(finished)
             p == PatchOf[h]
  <2>1. /\ mark' = [mark EXCEPT ![h] = None] /\ UNCHANGED <<toDespawn, centre>>
        /\ active' = active \ {p} /\ sWanted' = sWanted \ {p} /\ sDespawn' = sDespawn \ {p}
    BY <1>8 DEF SpawnClear
  <2>2. \A g \in Group : Settled(g)' = IF g \in {h, p} THEN None ELSE Settled(g)
    BY <1>8, ClearEffect
  <2> HIDE DEF h, p
  <2>3. \A c \in Chunk : mark'[c] # None \/ Settled(c)' # None => mark[c] # None \/ Settled(c) # None
    BY <1>1, <2>1, <2>2
  <2>4. QED
    BY <1>2, <1>3, <2>1, <2>3 DEF NothingForgotten, Wanted
<1>9. CASE SpawnMark
  <2> DEFINE h == Head(finished)
  <2>1. /\ \A c \in Chunk : c # h => mark'[c] = mark[c]
        /\ UNCHANGED <<queue, shown, toDespawn, centre, active, sWanted, sDespawn>> /\ pc = "mark"
    BY <1>1, <1>9 DEF SpawnMark, surface
  <2>2. h \in Wanted(centre)
    BY <2>1, FrontIsWanted DEF Work
  <2> HIDE DEF h
  <2>3. \A c \in Chunk : Settled(c)' = Settled(c)
    BY <1>1, <2>1, QueueStays
  <2>4. QED
    BY <1>2, <1>3, <2>1, <2>2, <2>3 DEF NothingForgotten, Wanted
<1>10. CASE SpawnSend
  <2> DEFINE h == Head(finished)
  <2>1. UNCHANGED <<mark, toDespawn, centre, active, sWanted, sDespawn>> /\ pc = "send"
    BY <1>10 DEF SpawnSend, gen, surface
  <2>2. h \in Wanted(centre)
    BY <2>1, FrontIsWanted DEF Work
  <2>3. \A c \in Chunk : c # h => Settled(c)' = Settled(c)
    BY <1>1, <1>10, SendEffect
  <2> HIDE DEF h
  <2>4. QED
    BY <1>2, <1>3, <2>1, <2>2, <2>3 DEF NothingForgotten, Wanted
<1>11. CASE DespawnTick
  <2>1. \A c \in Chunk : Settled(c)' = IF c \in toDespawn \ toDespawn' THEN None ELSE Settled(c)
    BY <1>11, TickEffect
  <2>2. UNCHANGED <<centre, sWanted>> /\ toDespawn' \subseteq toDespawn
    BY <1>11 DEF DespawnTick, DespawnVisit, gen
  <2>3. \A c \in Chunk : /\ c \in toDespawn \ toDespawn' => mark'[c] = None
                         /\ c \notin toDespawn \ toDespawn' => mark'[c] = mark[c]
    BY <1>1, <1>11 DEF DespawnTick, DespawnVisit, Work
  <2>4. active' \subseteq sWanted \cup sDespawn'
    BY <1>3, <1>11 DEF DespawnTick
  <2>5. \A c \in Chunk : mark'[c] # None \/ Settled(c)' # None => c \in Wanted(centre) \cup toDespawn'
    <3> SUFFICES ASSUME NEW c \in Chunk, mark'[c] # None \/ Settled(c)' # None
                 PROVE  c \in Wanted(centre) \cup toDespawn'
      OBVIOUS
    <3>1. ASSUME c \in toDespawn \ toDespawn' PROVE FALSE
      <4>1. mark'[c] = None
        BY <2>3, <3>1
      <4>2. Settled(c)' = None
        BY <2>1, <3>1
      <4>3. QED
        BY <4>1, <4>2
    <3>2. mark'[c] = mark[c] /\ Settled(c)' = Settled(c)
      BY <2>1, <2>3, <3>1
    <3>3. c \in Wanted(centre) \cup toDespawn
      BY <1>2, <3>2
    <3>4. QED
      BY <3>1, <3>3
  <2>6. QED
    BY <2>2, <2>4, <2>5 DEF NothingForgotten, Wanted
<1>12. QED
  BY <1>4, <1>5, <1>6, <1>7, <1>8, <1>9, <1>10, <1>11, StepCases

LEMMA IInvInit == Init => IInv
<1> SUFFICES ASSUME Init PROVE IInv
  OBVIOUS
<1>1. TypeOK
  BY TypeInit
<1>2. \A g \in Group : Settled(g) = None
  <2>1. \A g : Calls(<<>>, g) = {}
    BY DEF Calls
  <2>2. \A g \in Group : ShownAfter(<<>>, <<>>, g) = None
    BY <2>1, NoCallNoChange
  <2>3. QED
    BY <2>2 DEF Init, Settled
<1>3. Work
  BY DEF Init, Work, Wanted
<1>4. Alternates(queue, shown) /\ OneLevelShown
  BY DEF Init, Alternates, OneLevelShown
<1>5. MarksMatchDisplay /\ NothingForgotten
  BY <1>2 DEF Init, MarksMatchDisplay, NothingForgotten, Group
<1>6. QED
  BY <1>1, <1>3, <1>4, <1>5 DEF IInv

LEMMA IInvStep == IInv /\ [Next]_vars => IInv'
<1> SUFFICES ASSUME IInv, [Next]_vars PROVE IInv'
  OBVIOUS
<1>1. TypeOK'
  BY TypeStep DEF IInv
<1>2. QED
  BY <1>1, WorkStep, AlternatesStep, OneLevelStep, MarksStep, ForgottenStep DEF IInv

LEMMA Invariance == Spec => []IInv
BY IInvInit, IInvStep, PTL DEF Spec

(* The worker's lists, its marks, the queue and the display stay typed.     *)
THEOREM TypeCorrect == Spec => []TypeOK
<1>1. IInv => TypeOK
  BY DEF IInv
<1>2. QED
  BY <1>1, Invariance, PTL

(* The main thread never shows a group's ground twice or at two levels of   *)
(* detail, however its calls and the worker's steps are interleaved.        *)
THEOREM OneLevelAtATime == Spec => []OneLevelShown
<1>1. IInv => OneLevelShown
  BY DEF IInv
<1>2. QED
  BY <1>1, Invariance, PTL

(* What the worker marks as in the world is what the queue leaves on        *)
(* display, but for the batch it is about to send and for what a departure  *)
(* took off.                                                                *)
THEOREM MarksAreRight == Spec => []MarksMatchDisplay
<1>1. IInv => MarksMatchDisplay
  BY DEF IInv
<1>2. QED
  BY <1>1, Invariance, PTL

(* No move, reset or departure leaves ground behind that is neither wanted  *)
(* nor listed to go.                                                        *)
THEOREM NothingIsForgotten == Spec => []NothingForgotten
<1>1. IInv => NothingForgotten
  BY DEF IInv
<1>2. QED
  BY <1>1, Invariance, PTL
=============================================================================
