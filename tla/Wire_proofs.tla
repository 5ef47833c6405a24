----------------------------- MODULE Wire_proofs -----------------------------
(***************************************************************************)
(* Proofs about Wire, for any messages of the types it describes, any      *)
(* number of them, any width of the places of chunks, and any count from   *)
(* which blocks are range compressed.                                      *)
(*                                                                         *)
(*   1. What has arrived: a length found in some bits is found in all that *)
(*      begin with them (LengthStable).                                    *)
(*   2. Layouts: a message is a list of fields, bits and what they say.    *)
(*      Lies: they stand in some bits; ReadsTo: a reader has passed them   *)
(*      and got what they say. Both go through lists, blocks and every     *)
(*      kind of message (Carried, BodyFramed), hence through whole         *)
(*      messages: message_length finds their length whatever follows       *)
(*      (LengthFound), unpack what they said (SaidUnpacked).               *)
(*   3. The invariant of Wire: the bits that have arrived and those under  *)
(*      way are the messages not taken yet, one after another.             *)
(*                                                                         *)
(* Strings of bits, registries and the blocks of a message are those of    *)
(* Storage_proofs.                                                         *)
(***************************************************************************)
EXTENDS Wire, Storage_proofs

(***************************************************************************)
(* What is known of a length is not changed by what arrives later.         *)
(***************************************************************************)
(* The first of two strings of bits begins the second.                      *)
Begins(b, c) ==
  /\ b \in Seq(Bit) /\ c \in Seq(Bit) /\ Len(b) <= Len(c)
  /\ \A i \in 1..Len(b) : c[i] = b[i]

Position(b) == 0..Len(b) \cup {Short}

(* p is where the reader of b is, q where that of c is: the same, unless b  *)
(* was too short.                                                           *)
Same(b, c, p, q) == p \in Position(b) /\ q \in Position(c) /\ (p # Short => q = p)

LEMMA SkipPosition0 ==
  ASSUME NEW b \in Seq(Bit), NEW p \in Position(b), NEW w \in Nat
  PROVE  /\ Skip(b, p, w) \in Position(b)
         /\ p = Short => Skip(b, p, w) = Short
         /\ Skip(b, p, w) # Short => /\ Skip(b, p, w) = p + w /\ p \in Nat /\ p # Short
                                     /\ p + w <= Len(b)
<1>1. Len(b) \in Nat /\ Short = -1
  BY DEF Short
<1>2. CASE p = Short \/ p + w > Len(b)
  BY <1>2 DEF Skip, Position
<1>3. CASE p # Short /\ ~(p + w > Len(b))
  <2>1. p \in 0..Len(b)
    BY <1>3 DEF Position
  <2>2. p + w \in 0..Len(b)
    BY <1>1, <1>3, <2>1
  <2>3. Skip(b, p, w) = p + w
    BY <1>3 DEF Skip
  <2>4. QED
    BY <1>1, <1>3, <2>1, <2>2, <2>3 DEF Position
<1>4. QED
  BY <1>2, <1>3

LEMMA SkipSame ==
  ASSUME NEW b, NEW c, Begins(b, c), NEW p, NEW q, Same(b, c, p, q),
         NEW w \in Nat, NEW u \in Nat, p # Short => u = w
  PROVE  Same(b, c, Skip(b, p, w), Skip(c, q, u))
<1>1. b \in Seq(Bit) /\ c \in Seq(Bit) /\ Len(b) \in Nat /\ Len(c) \in Nat /\ Len(b) <= Len(c)
  BY DEF Begins
<1>2. p \in Position(b) /\ q \in Position(c)
  BY DEF Same
<1>3. Skip(b, p, w) \in Position(b) /\ Skip(c, q, u) \in Position(c)
  BY <1>1, <1>2, SkipPosition0
<1>4. ASSUME Skip(b, p, w) # Short PROVE Skip(c, q, u) = Skip(b, p, w)
  <2>1. Skip(b, p, w) = p + w /\ p \in Nat /\ p # Short /\ p + w <= Len(b)
    BY <1>1, <1>2, <1>4, SkipPosition0
  <2>2. q = p /\ u = w
    BY <2>1 DEF Same
  <2>3. q # Short /\ ~(q + u > Len(c))
    BY <1>1, <2>1, <2>2
  <2>4. QED
    BY <2>1, <2>2, <2>3 DEF Skip
<1>5. QED
  BY <1>3, <1>4 DEF Same

(* The number before a position that was reached by skipping it.            *)
LEMMA BeforeNat ==
  ASSUME NEW b \in Seq(Bit), NEW p \in Position(b), NEW w \in Nat
  PROVE  Before(b, Skip(b, p, w), w) \in Nat
<1>1. CASE Skip(b, p, w) = Short
  BY <1>1 DEF Before
<1>2. CASE Skip(b, p, w) # Short
  <2>1. Skip(b, p, w) = p + w /\ p \in Nat
    BY <1>2, SkipPosition0
  <2>2. (p + w) - w = p
    BY <2>1
  <2>3. Before(b, Skip(b, p, w), w) = ValueOf(Slice(b, p, w))
    BY <1>2, <2>1, <2>2 DEF Before
  <2>4. QED
    BY <2>1, <2>3, SliceTyped, ValueNat
<1>3. QED
  BY <1>1, <1>2

LEMMA SliceSame ==
  ASSUME NEW b, NEW c, Begins(b, c), NEW p \in Nat, NEW w \in Nat, p + w <= Len(b)
  PROVE  Slice(b, p, w) = Slice(c, p, w)
<1>1. Len(b) \in Nat /\ Len(c) \in Nat /\ Len(b) <= Len(c)
  BY DEF Begins
<1>2. ASSUME NEW i \in 1..w
      PROVE  (IF p + i <= Len(b) THEN b[p + i] ELSE 0) = (IF p + i <= Len(c) THEN c[p + i] ELSE 0)
  <2>1. p + i \in 1..Len(b) /\ p + i <= Len(b) /\ p + i <= Len(c)
    BY <1>1
  <2>2. c[p + i] = b[p + i]
    BY <2>1 DEF Begins
  <2>3. QED
    BY <2>1, <2>2
<1>3. QED
  BY <1>2 DEF Slice

LEMMA BeforeSame ==
  ASSUME NEW b, NEW c, Begins(b, c), NEW p, NEW q, Same(b, c, p, q), NEW w \in Nat,
         Skip(b, p, w) # Short
  PROVE  Before(c, Skip(c, q, w), w) = Before(b, Skip(b, p, w), w)
<1>1. b \in Seq(Bit) /\ p \in Position(b)
  BY DEF Begins, Same
<1>2. Skip(b, p, w) = p + w /\ p \in Nat /\ p # Short /\ p + w <= Len(b)
  BY <1>1, SkipPosition0
<1>3. Skip(c, q, w) = p + w
  <2>1. Same(b, c, Skip(b, p, w), Skip(c, q, w))
    BY SkipSame
  <2>2. QED
    BY <1>2, <2>1 DEF Same
<1>4. p + w # Short /\ (p + w) - w = p
  BY <1>2 DEF Short
<1>5. Slice(b, p, w) = Slice(c, p, w)
  BY <1>2, SliceSame
<1>6. QED
  BY <1>2, <1>3, <1>4, <1>5 DEF Before

IsRepeat(h, n, f, p) == h[0] = p /\ \A i \in 1..n : h[i] = f[h[i - 1]]

LEMMA RepeatIs ==
  ASSUME NEW T, NEW f, NEW n \in Nat, NEW p \in T, NEW h \in [0..n -> T], IsRepeat(h, n, f, p)
  PROVE  Repeat(n, f, p) = h[n]
<1> DEFINE at[i \in 0..n] == IF i = 0 THEN p ELSE f[at[i - 1]]
<1>1. Repeat(n, f, p) = at[n]
  BY DEF Repeat
<1>2. at = [i \in 0..n |-> IF i = 0 THEN p ELSE f[at[i - 1]]]
  <2>1. h = [i \in 0..n |-> IF i = 0 THEN p ELSE f[h[i - 1]]]
    <3>1. ASSUME NEW i \in 0..n PROVE h[i] = IF i = 0 THEN p ELSE f[h[i - 1]]
      <4>1. CASE i = 0
        BY <4>1 DEF IsRepeat
      <4>2. CASE i # 0
        <5>1. i \in 1..n
          BY <4>2
        <5>2. QED
          BY <4>2, <5>1 DEF IsRepeat
      <4>3. QED BY <4>1, <4>2
    <3>2. QED
      BY <3>1
  <2>2. QED
    BY <2>1
<1> HIDE DEF at
<1>3. \A i \in 0..n : at[i] = IF i = 0 THEN p ELSE f[at[i - 1]]
  <2> DEFINE g == [i \in 0..n |-> IF i = 0 THEN p ELSE f[at[i - 1]]]
  <2>1. \A i \in 0..n : g[i] = IF i = 0 THEN p ELSE f[at[i - 1]]
    OBVIOUS
  <2>2. at = g
    BY <1>2
  <2> HIDE DEF g
  <2>3. QED
    BY <2>1, <2>2
<1> DEFINE S == {k \in Nat : k <= n => at[k] = h[k]}
<1>4. 0 \in S
  <2>1. 0 \in 0..n
    OBVIOUS
  <2>2. at[0] = p
    BY <1>3, <2>1
  <2>3. QED
    BY <2>2 DEF IsRepeat
<1>5. ASSUME NEW k \in Nat, k \in S PROVE k + 1 \in S
  <2>1. SUFFICES ASSUME k + 1 <= n PROVE at[k + 1] = h[k + 1]
    OBVIOUS
  <2>2. k + 1 \in 0..n /\ k + 1 \in 1..n /\ k + 1 # 0 /\ (k + 1) - 1 = k /\ k <= n
    BY <2>1
  <2>3. at[k + 1] = f[at[k]]
    BY <1>3, <2>2
  <2>4. h[k + 1] = f[h[k]]
    BY <2>2 DEF IsRepeat
  <2>5. at[k] = h[k]
    BY <1>5, <2>2
  <2>6. QED
    BY <2>3, <2>4, <2>5
<1> HIDE DEF S
<1>6. n \in S
  BY <1>4, <1>5, Induction
<1>7. QED
  BY <1>1, <1>6 DEF S

LEMMA RepeatStep ==
  ASSUME NEW T, NEW f, \A x \in T : f[x] \in T, NEW p \in T
  PROVE  /\ Repeat(0, f, p) = p
         /\ \A n \in Nat : Repeat(n, f, p) \in T /\ Repeat(n + 1, f, p) = f[Repeat(n, f, p)]
<1>1. ASSUME NEW n \in Nat
      PROVE  \E h \in [0..n -> T] : IsRepeat(h, n, f, p)
  <2> DEFINE step == [i \in 1..n |-> [x \in T |-> f[x]]]
  <2>1. step \in [1..n -> [T -> T]]
    OBVIOUS
  <2>2. \A i \in 1..n, x \in T : step[i][x] = f[x]
    OBVIOUS
  <2> HIDE DEF step
  <2>3. PICK h \in [0..n -> T] : IsRecursion(h, n, p, step)
    BY <2>1, Recursion
  <2>4. ASSUME NEW i \in 1..n PROVE h[i] = f[h[i - 1]]
    <3>1. i - 1 \in 0..n
      OBVIOUS
    <3>2. h[i - 1] \in T
      BY <3>1
    <3>3. QED
      BY <2>2, <2>3, <3>2 DEF IsRecursion
  <2>5. QED
    BY <2>3, <2>4 DEF IsRecursion, IsRepeat
<1>2. Repeat(0, f, p) = p
  <2>1. PICK h \in [0..0 -> T] : IsRepeat(h, 0, f, p)
    BY <1>1
  <2>2. Repeat(0, f, p) = h[0]
    BY <2>1, RepeatIs
  <2>3. QED
    BY <2>1, <2>2 DEF IsRepeat
<1>3. ASSUME NEW n \in Nat
      PROVE  Repeat(n, f, p) \in T /\ Repeat(n + 1, f, p) = f[Repeat(n, f, p)]
  <2>1. n + 1 \in Nat /\ n \in 0..(n + 1) /\ n \in 0..n /\ n + 1 \in 1..(n + 1) /\ (n + 1) - 1 = n
        /\ \A i \in 0..n : i \in 0..(n + 1)
        /\ \A j \in 1..n : j \in 1..(n + 1) /\ j - 1 \in 0..n /\ j \in 0..n
    OBVIOUS
  <2>2. PICK h \in [0..(n + 1) -> T] : IsRepeat(h, n + 1, f, p)
    BY <1>1, <2>1
  <2>3. Repeat(n + 1, f, p) = h[n + 1]
    BY <2>1, <2>2, RepeatIs
  <2> DEFINE g == [i \in 0..n |-> h[i]]
  <2>4. g \in [0..n -> T] /\ \A i \in 0..n : g[i] = h[i]
    BY <2>1
  <2> HIDE DEF g
  <2>5. IsRepeat(g, n, f, p)
    <3>1. 0 \in 0..n
      OBVIOUS
    <3>2. g[0] = p
      BY <3>1, <2>2, <2>4 DEF IsRepeat
    <3>3. ASSUME NEW i \in 1..n PROVE g[i] = f[g[i - 1]]
      BY <2>1, <2>2, <2>4 DEF IsRepeat
    <3>4. QED
      BY <3>2, <3>3 DEF IsRepeat
  <2>6. Repeat(n, f, p) = h[n]
    BY <2>1, <2>4, <2>5, RepeatIs
  <2>7. h[n + 1] = f[h[n]]
    BY <2>1, <2>2 DEF IsRepeat
  <2>8. QED
    BY <2>1, <2>3, <2>6, <2>7
<1>4. QED
  BY <1>2, <1>3

Steady(b, c, f, g) == \A p, q : Same(b, c, p, q) => Same(b, c, f[p], g[q])

LEMMA RepeatSame ==
  ASSUME NEW b, NEW c, Begins(b, c), NEW f, NEW g, Steady(b, c, f, g),
         NEW p, NEW q, Same(b, c, p, q), NEW n \in Nat
  PROVE  Same(b, c, Repeat(n, f, p), Repeat(n, g, q))
<1>1. p \in Position(b) /\ q \in Position(c)
  BY DEF Same
<1>2. ASSUME NEW x \in Position(b) PROVE f[x] \in Position(b)
  <2>1. Same(b, c, x, x)
    BY DEF Same, Begins, Position
  <2>2. QED
    BY <2>1 DEF Steady, Same
<1>3. ASSUME NEW y \in Position(c) PROVE g[y] \in Position(c)
  <2>1. Same(b, c, Short, y)
    BY DEF Same, Position
  <2>2. QED
    BY <2>1 DEF Steady, Same
<1>4. /\ Repeat(0, f, p) = p
      /\ \A k \in Nat : Repeat(k, f, p) \in Position(b) /\ Repeat(k + 1, f, p) = f[Repeat(k, f, p)]
  BY <1>1, <1>2, RepeatStep
<1>5. /\ Repeat(0, g, q) = q
      /\ \A k \in Nat : Repeat(k, g, q) \in Position(c) /\ Repeat(k + 1, g, q) = g[Repeat(k, g, q)]
  BY <1>1, <1>3, RepeatStep
<1> DEFINE S == {k \in Nat : Same(b, c, Repeat(k, f, p), Repeat(k, g, q))}
<1>6. 0 \in S
  BY <1>4, <1>5
<1>7. ASSUME NEW k \in Nat, k \in S PROVE k + 1 \in S
  <2>1. Same(b, c, Repeat(k, f, p), Repeat(k, g, q))
    BY <1>7
  <2>2. Same(b, c, f[Repeat(k, f, p)], g[Repeat(k, g, q)])
    BY <2>1 DEF Steady
  <2>3. QED
    BY <1>4, <1>5, <2>2
<1> HIDE DEF S
<1>8. n \in S
  BY <1>6, <1>7, Induction
<1>9. QED
  BY <1>8 DEF S

LEMMA SameItself ==
  ASSUME NEW b \in Seq(Bit), NEW p \in Position(b)
  PROVE  Begins(b, b) /\ Same(b, b, p, p)
  BY DEF Begins, Same

LEMMA SkipEachSame ==
  ASSUME NEW b, NEW c, Begins(b, c), NEW f, NEW g, Steady(b, c, f, g),
         NEW p, NEW q, Same(b, c, p, q), NEW w \in Nat
  PROVE  /\ Same(b, c, SkipEach(b, p, w, f), SkipEach(c, q, w, g))
         /\ p = Short => SkipEach(b, p, w, f) = Short
<1> DEFINE x == Skip(b, p, w)
           y == Skip(c, q, w)
           n == Before(b, x, w)
           m == Before(c, y, w)
<1>1. b \in Seq(Bit) /\ c \in Seq(Bit) /\ p \in Position(b) /\ q \in Position(c)
  BY DEF Begins, Same
<1>2. Same(b, c, x, y) /\ n \in Nat /\ m \in Nat /\ (x # Short => m = n) /\ (p = Short => x = Short)
  <2>1. Same(b, c, x, y)
    BY SkipSame
  <2>2. n \in Nat /\ m \in Nat
    BY <1>1, BeforeNat
  <2>3. x # Short => m = n
    BY BeforeSame
  <2>4. p = Short => x = Short
    BY <1>1, SkipPosition0
  <2>5. QED
    BY <2>1, <2>2, <2>3, <2>4
<1>3. SkipEach(b, p, w, f) = Repeat(n, f, x) /\ SkipEach(c, q, w, g) = Repeat(m, g, y)
  BY DEF SkipEach
<1>4. x = Short => n = 0
  BY DEF Before
<1> HIDE DEF x, y, n, m
<1>5. CASE x # Short
  <2>1. m = n
    BY <1>2, <1>5
  <2>2. Same(b, c, Repeat(n, f, x), Repeat(n, g, y))
    BY <1>2, RepeatSame
  <2>3. QED
    BY <1>2, <1>3, <1>5, <2>1, <2>2
<1>6. CASE x = Short
  <2>1. Same(b, c, Repeat(0, f, x), Repeat(0, g, y)) /\ Same(b, c, Repeat(m, f, x), Repeat(m, g, y))
    BY <1>2, RepeatSame
  <2>2. Repeat(0, f, x) = Short
    <3>1. \A z \in Position(b) : f[z] \in Position(b)
      <4>1. ASSUME NEW z \in Position(b) PROVE f[z] \in Position(b)
        <5>1. Same(b, c, z, z)
          BY <4>1 DEF Same, Begins, Position
        <5>2. QED
          BY <5>1 DEF Steady, Same
      <4>2. QED BY <4>1
    <3>2. x \in Position(b)
      BY <1>6 DEF Position
    <3>3. QED
      BY <1>6, <3>1, <3>2, RepeatStep
  <2>3. Repeat(m, g, y) \in Position(c)
    BY <2>1 DEF Same
  <2>4. SkipEach(b, p, w, f) = Short
    BY <1>3, <1>4, <1>6, <2>2
  <2>5. QED
    BY <1>3, <2>3, <2>4 DEF Same, Position
<1>7. QED
  BY <1>5, <1>6

LEMMA SkipSizedSame ==
  ASSUME NEW b, NEW c, Begins(b, c), NEW p, NEW q, Same(b, c, p, q), NEW w \in Nat, NEW size \in Nat
  PROVE  /\ Same(b, c, SkipSized(b, p, w, size), SkipSized(c, q, w, size))
         /\ p = Short => SkipSized(b, p, w, size) = Short
<1> DEFINE x == Skip(b, p, w)
           y == Skip(c, q, w)
           n == size * Before(b, x, w)
           m == size * Before(c, y, w)
<1>1. b \in Seq(Bit) /\ c \in Seq(Bit) /\ p \in Position(b) /\ q \in Position(c)
  BY DEF Begins, Same
<1>2. Same(b, c, x, y) /\ (p = Short => x = Short)
  BY <1>1, SkipSame, SkipPosition0
<1>3. n \in Nat /\ m \in Nat /\ (x # Short => m = n)
  <2>1. Before(b, x, w) \in Nat /\ Before(c, y, w) \in Nat
    BY <1>1, BeforeNat
  <2>2. x # Short => Before(c, y, w) = Before(b, x, w)
    BY BeforeSame
  <2>3. \A k \in Nat : size * k \in Nat
    OBVIOUS
  <2> HIDE DEF x, y
  <2>4. QED
    BY <2>1, <2>2, <2>3
<1>4. SkipSized(b, p, w, size) = Skip(b, x, n) /\ SkipSized(c, q, w, size) = Skip(c, y, m)
  BY DEF SkipSized
<1>5. x \in Position(b)
  BY <1>2 DEF Same
<1> HIDE DEF x, y, n, m
<1>6. Same(b, c, Skip(b, x, n), Skip(c, y, m)) /\ (x = Short => Skip(b, x, n) = Short)
  BY <1>1, <1>2, <1>3, <1>5, SkipSame, SkipPosition0
<1>7. QED
  BY <1>2, <1>4, <1>6

LEMMA TierNat == \A t : TierBits(t) \in Nat
  BY DEF TierBits

LEMMA SkipIdSame ==
  ASSUME NEW b, NEW c, Begins(b, c), NEW p, NEW q, Same(b, c, p, q)
  PROVE  /\ Same(b, c, SkipId(b, p), SkipId(c, q))
         /\ p = Short => SkipId(b, p) = Short
<1> DEFINE x == Skip(b, p, 2)
           y == Skip(c, q, 2)
           n == TierBits(Before(b, x, 2))
           m == TierBits(Before(c, y, 2))
<1>1. b \in Seq(Bit) /\ c \in Seq(Bit) /\ p \in Position(b) /\ q \in Position(c)
  BY DEF Begins, Same
<1>2. Same(b, c, x, y) /\ (p = Short => x = Short)
  BY <1>1, SkipSame, SkipPosition0
<1>3. n \in Nat /\ m \in Nat /\ (x # Short => m = n)
  BY TierNat, BeforeSame
<1>4. SkipId(b, p) = Skip(b, x, n) /\ SkipId(c, q) = Skip(c, y, m)
  BY DEF SkipId
<1>5. x \in Position(b)
  BY <1>2 DEF Same
<1> HIDE DEF x, y, n, m
<1>6. Same(b, c, Skip(b, x, n), Skip(c, y, m)) /\ (x = Short => Skip(b, x, n) = Short)
  BY <1>1, <1>2, <1>3, <1>5, SkipSame, SkipPosition0
<1>7. QED
  BY <1>2, <1>4, <1>6

(* Skipping a fixed number of bits, from Short too.                         *)
LEMMA SkipBitsSame ==
  ASSUME NEW b, NEW c, Begins(b, c), NEW p, NEW q, Same(b, c, p, q), NEW w \in Nat
  PROVE  /\ Same(b, c, Skip(b, p, w), Skip(c, q, w))
         /\ p = Short => Skip(b, p, w) = Short
  BY SkipSame DEF Skip

LEMMA PositionInt ==
  ASSUME NEW b, NEW c, Begins(b, c), NEW p, NEW q, Same(b, c, p, q)
  PROVE  p \in Int /\ q \in Int
  BY DEF Same, Position, Short, Begins

LEMMA WidthsNat ==
  /\ TypeBits \in Nat /\ ShortBits \in Nat /\ LocalBits \in Nat /\ RotationBits \in Nat
  /\ VelocityBits \in Nat /\ ChunkBits \in Nat /\ KmBits \in Nat /\ SchemataBits \in Nat
  /\ SizeBits \in Nat /\ LengthBits \in Nat /\ BoundBits \in Nat /\ MatBits \in Nat /\ CoorBits \in Nat
  /\ 3 * LocalBits + 2 \in Nat /\ 6 * BoundBits \in Nat /\ 3 * LocalBits + 3 * RotationBits \in Nat
  /\ 3 * RotationBits \in Nat /\ 3 * ChunkBits \in Nat /\ 3 * ChunkBits + 3 * LocalBits \in Nat
  /\ 3 * ChunkBits + MatBits \in Nat /\ 3 * 63 \in Nat
  /\ 3 * CoorBits + SizeBits + MatBits \in Nat
<1>1. MatBits \in Nat /\ CoorBits \in Nat
  BY Bounds
<1>2. ChunkBits \in Nat
  BY WireAssumption
<1>3. QED
  BY <1>1, <1>2 DEF TypeBits, ShortBits, LocalBits, RotationBits, VelocityBits, KmBits,
                    SchemataBits, SizeBits, LengthBits, BoundBits

LEMMA SkipCaptchasSame ==
  ASSUME NEW b, NEW c, Begins(b, c), NEW p, NEW q, Same(b, c, p, q)
  PROVE  /\ Same(b, c, SkipCaptchas(b, p), SkipCaptchas(c, q))
         /\ p = Short => SkipCaptchas(b, p) = Short
<1> DEFINE f(a) == [z \in Int |-> SkipSized(a, Skip(a, z, 64), 4, 4)]
<1>1. Steady(b, c, f(b), f(c))
  <2>1. ASSUME NEW x, NEW y, Same(b, c, x, y) PROVE Same(b, c, f(b)[x], f(c)[y])
    <3>1. x \in Int /\ y \in Int
      BY <2>1, PositionInt
    <3>2. Same(b, c, Skip(b, x, 64), Skip(c, y, 64))
      BY <2>1, SkipBitsSame
    <3>3. Same(b, c, SkipSized(b, Skip(b, x, 64), 4, 4), SkipSized(c, Skip(c, y, 64), 4, 4))
      BY <3>2, SkipSizedSame
    <3>4. QED
      BY <3>1, <3>3
  <2>2. QED
    BY <2>1 DEF Steady
<1>2. SkipCaptchas(b, p) = SkipEach(b, p, 4, f(b)) /\ SkipCaptchas(c, q) = SkipEach(c, q, 4, f(c))
  BY DEF SkipCaptchas
<1> HIDE DEF f
<1>3. QED
  BY <1>1, <1>2, SkipEachSame

(* The lists of ids with a fixed number of bits after each.                 *)
SkipMoves(b, p, w) == SkipEach(b, p, 11, [z \in Int |-> Skip(b, SkipId(b, z), w)])

LEMMA SkipMovesSame ==
  ASSUME NEW b, NEW c, Begins(b, c), NEW p, NEW q, Same(b, c, p, q), NEW w \in Nat
  PROVE  /\ Same(b, c, SkipMoves(b, p, w), SkipMoves(c, q, w))
         /\ p = Short => SkipMoves(b, p, w) = Short
<1> DEFINE f(a) == [z \in Int |-> Skip(a, SkipId(a, z), w)]
<1>1. Steady(b, c, f(b), f(c))
  <2>1. ASSUME NEW x, NEW y, Same(b, c, x, y) PROVE Same(b, c, f(b)[x], f(c)[y])
    <3>1. x \in Int /\ y \in Int
      BY <2>1, PositionInt
    <3>2. Same(b, c, SkipId(b, x), SkipId(c, y))
      BY <2>1, SkipIdSame
    <3>3. Same(b, c, Skip(b, SkipId(b, x), w), Skip(c, SkipId(c, y), w))
      BY <3>2, SkipBitsSame
    <3>4. QED
      BY <3>1, <3>3
  <2>2. QED
    BY <2>1 DEF Steady
<1>2. SkipMoves(b, p, w) = SkipEach(b, p, 11, f(b)) /\ SkipMoves(c, q, w) = SkipEach(c, q, 11, f(c))
  BY DEF SkipMoves
<1> HIDE DEF f
<1>3. QED
  BY <1>1, <1>2, SkipEachSame

LEMMA SkipPlacementsSame ==
  ASSUME NEW b, NEW c, Begins(b, c), NEW p, NEW q, Same(b, c, p, q)
  PROVE  /\ Same(b, c, SkipPlacements(b, p), SkipPlacements(c, q))
         /\ p = Short => SkipPlacements(b, p) = Short
<1>1. /\ SkipPlacements(b, p) = SkipMoves(b, p, 3 * LocalBits + 2)
      /\ SkipPlacements(c, q) = SkipMoves(c, q, 3 * LocalBits + 2)
  BY DEF SkipPlacements, SkipMoves
<1>2. QED
  BY <1>1, SkipMovesSame, WidthsNat

LEMMA ValueSmall ==
  ASSUME NEW s \in Seq(Bit)
  PROVE  ValueOf(s) \in Nat /\ ValueOf(s) < 2^Len(s)
<1> DEFINE n == Len(s)
<1>1. PICK h \in [0..n -> Nat] : IsSum(h, s)
  BY WeightExists
<1>2. n \in Nat /\ n \in 0..n
  OBVIOUS
<1>3. ValueOf(s) = h[n]
  BY <1>1, ValueIs
<1>4. h[0] = 0 /\ \A i \in 1..n : h[i] = h[i - 1] + s[i] * 2^(i - 1)
  BY <1>1 DEF IsSum
<1>5. \A i \in 1..n : s[i] \in {0, 1}
  BY DEF Bit
<1> HIDE DEF n
<1> DEFINE S == {k \in Nat : k <= n => h[k] < 2^k}
<1>6. 0 \in S
  BY <1>4, PowerOfTwo
<1>7. ASSUME NEW k \in Nat, k \in S PROVE k + 1 \in S
  <2>1. SUFFICES ASSUME k + 1 <= n PROVE h[k + 1] < 2^(k + 1)
    OBVIOUS
  <2>2. k + 1 \in 1..n /\ (k + 1) - 1 = k /\ k \in 0..n /\ k <= n
    BY <1>2, <2>1
  <2>3. h[k + 1] = h[k] + s[k + 1] * 2^k
    BY <1>4, <2>2
  <2>4. h[k] < 2^k /\ h[k] \in Nat
    BY <1>7, <2>2, <1>1
  <2>5. s[k + 1] \in {0, 1}
    BY <1>5, <2>2
  <2>6. 2^(k + 1) = 2 * 2^k /\ 2^k \in Nat
    BY PowerOfTwo
  <2> DEFINE t == 2^k
             v == 2^(k + 1)
             a == h[k]
             z == s[k + 1]
  <2>7. v = 2 * t /\ t \in Nat /\ a < t /\ a \in Nat /\ z \in {0, 1} /\ h[k + 1] = a + z * t
    BY <2>3, <2>4, <2>5, <2>6
  <2> HIDE DEF t, v, a, z
  <2>8. h[k + 1] < v
    BY <2>7
  <2>9. QED
    BY <2>8 DEF v
<1> HIDE DEF S
<1>8. n \in S
  BY <1>2, <1>6, <1>7, Induction
<1>9. h[n] < 2^n
  BY <1>8 DEF S
<1>10. QED
  BY <1>1, <1>2, <1>3, <1>9 DEF n

LEMMA NeededNat ==
  ASSUME NEW range \in Int, range < 2^BoundBits
  PROVE  bitsNeeded(range) \in Nat
<1>1. CASE range \in Nat
  <2>1. range <= 2^(BoundBits + 1)
    BY Bounds
  <2>2. QED
    BY <1>1, <2>1, BitsEnough
<1>2. CASE range \notin Nat
  <2>1. 2^0 >= range
    BY <1>2, PowerOfTwo
  <2>2. 0 \in 0..(BoundBits + 1)
    BY DEF BoundBits
  <2>3. \E bits \in 0..(BoundBits + 1) : 2^bits >= range /\ (bits > 0 => 2^(bits - 1) < range)
    <3>1. ~(0 > 0)
      OBVIOUS
    <3>2. QED
      BY <2>1, <2>2, <3>1, Zenon
  <2>4. bitsNeeded(range) \in 0..(BoundBits + 1)
    BY <2>3 DEF bitsNeeded
  <2>5. QED
    BY <2>4 DEF BoundBits
<1>3. QED
  BY <1>1, <1>2

(* The number in w bits that have all arrived.                              *)
LEMMA BeforeSmall ==
  ASSUME NEW b, NEW c, Begins(b, c), NEW p \in Nat, NEW w \in Nat, p + w <= Len(b)
  PROVE  /\ Before(b, p + w, w) \in Nat /\ Before(b, p + w, w) < 2^w
         /\ Before(c, p + w, w) = Before(b, p + w, w)
<1>1. p + w # Short /\ (p + w) - w = p
  BY DEF Short
<1>2. Before(b, p + w, w) = ValueOf(Slice(b, p, w)) /\ Before(c, p + w, w) = ValueOf(Slice(c, p, w))
  BY <1>1 DEF Before
<1>3. Slice(b, p, w) = Slice(c, p, w)
  BY SliceSame
<1>4. Slice(b, p, w) \in Seq(Bit) /\ Len(Slice(b, p, w)) = w
  BY SliceTyped DEF Begins
<1>5. QED
  BY <1>2, <1>3, <1>4, ValueSmall

(* The parts of SkipRecords, by name.                                       *)
Flagged(b, p) == Skip(b, p, 1)
IsRange(b, p) == Before(b, Flagged(b, p), 1) = 1
Bounded(b, p) == IF IsRange(b, p) THEN Skip(b, Flagged(b, p), 6 * BoundBits) ELSE Flagged(b, p)
NameSkip(b) == [q \in Int |-> SkipSized(b, Skip(b, q, MatBits), LengthBits, 8)]
NamesSkipped(b, p) == SkipEach(b, Bounded(b, p), LengthBits, NameSkip(b))
BoundAt(b, p, i) == Before(b, Flagged(b, p) + i * BoundBits, BoundBits)
NamesCount(b, p) == Before(b, Skip(b, Bounded(b, p), LengthBits), LengthBits)
RecordWidth(b, p) ==
  IF ~IsRange(b, p) THEN 3 * CoorBits + SizeBits + MatBits
  ELSE SizeBits + bitsNeeded(NamesCount(b, p))
         + bitsNeeded(BoundAt(b, p, 2) - BoundAt(b, p, 1))
         + bitsNeeded(BoundAt(b, p, 4) - BoundAt(b, p, 3))
         + bitsNeeded(BoundAt(b, p, 6) - BoundAt(b, p, 5))

LEMMA SkipRecordsIs ==
  ASSUME NEW b, NEW p, NEW count
  PROVE  SkipRecords(b, p, count) =
           IF NamesSkipped(b, p) = Short THEN Short
           ELSE Skip(b, NamesSkipped(b, p), count * RecordWidth(b, p))
  BY Zenon DEF SkipRecords, NamesSkipped, RecordWidth, NamesCount, BoundAt, NameSkip, Bounded, IsRange, Flagged

LEMMA NamesSkippedSame ==
  ASSUME NEW b, NEW c, Begins(b, c), NEW p, NEW q, Same(b, c, p, q)
  PROVE  /\ Same(b, c, Flagged(b, p), Flagged(c, q))
         /\ Same(b, c, Bounded(b, p), Bounded(c, q))
         /\ Same(b, c, NamesSkipped(b, p), NamesSkipped(c, q))
         /\ NamesSkipped(b, p) # Short =>
              /\ Flagged(b, p) # Short /\ Bounded(b, p) # Short
              /\ Skip(b, Bounded(b, p), LengthBits) # Short
              /\ IsRange(c, q) = IsRange(b, p)
<1>1. Same(b, c, Flagged(b, p), Flagged(c, q))
  BY SkipBitsSame DEF Flagged
<1>2. Flagged(b, p) # Short => IsRange(c, q) = IsRange(b, p)
  BY BeforeSame DEF Flagged, IsRange
<1>a. Flagged(b, p) = Short => ~IsRange(b, p)
  BY DEF IsRange, Before
<1>3. Same(b, c, Bounded(b, p), Bounded(c, q)) /\ (Bounded(b, p) # Short => Flagged(b, p) # Short)
  <2>1. /\ Same(b, c, Skip(b, Flagged(b, p), 6 * BoundBits), Skip(c, Flagged(c, q), 6 * BoundBits))
        /\ Flagged(b, p) = Short => Skip(b, Flagged(b, p), 6 * BoundBits) = Short
    BY <1>1, SkipBitsSame, WidthsNat
  <2>2. CASE Flagged(b, p) # Short
    BY <1>1, <1>2, <2>1, <2>2 DEF Bounded
  <2>3. CASE Flagged(b, p) = Short
    <3>1. Bounded(b, p) = Short
      BY <1>a, <2>3 DEF Bounded
    <3>2. Bounded(c, q) \in Position(c)
      BY <1>1, <2>1 DEF Bounded, Same
    <3>3. QED
      BY <3>1, <3>2 DEF Same, Position
  <2>4. QED
    BY <2>2, <2>3
<1>4. Steady(b, c, NameSkip(b), NameSkip(c))
  <2>1. ASSUME NEW x, NEW y, Same(b, c, x, y) PROVE Same(b, c, NameSkip(b)[x], NameSkip(c)[y])
    <3>1. x \in Int /\ y \in Int
      BY <2>1, PositionInt
    <3>2. Same(b, c, Skip(b, x, MatBits), Skip(c, y, MatBits))
      BY <2>1, SkipBitsSame, WidthsNat
    <3>3. Same(b, c, SkipSized(b, Skip(b, x, MatBits), LengthBits, 8),
                     SkipSized(c, Skip(c, y, MatBits), LengthBits, 8))
      BY <3>2, SkipSizedSame, WidthsNat
    <3>4. QED
      BY <3>1, <3>3 DEF NameSkip
  <2>2. QED
    BY <2>1 DEF Steady
<1>5. /\ Same(b, c, NamesSkipped(b, p), NamesSkipped(c, q))
      /\ Bounded(b, p) = Short => NamesSkipped(b, p) = Short
  BY <1>3, <1>4, SkipEachSame, WidthsNat DEF NamesSkipped
<1>6. Skip(b, Bounded(b, p), LengthBits) = Short => NamesSkipped(b, p) = Short
  <2>1. SUFFICES ASSUME Skip(b, Bounded(b, p), LengthBits) = Short PROVE NamesSkipped(b, p) = Short
    OBVIOUS
  <2>2. NamesSkipped(b, p) = Repeat(0, NameSkip(b), Short)
    BY <2>1 DEF NamesSkipped, SkipEach, Before
  <2>3. \A z \in Position(b) : NameSkip(b)[z] \in Position(b)
    <3>1. ASSUME NEW z \in Position(b) PROVE NameSkip(b)[z] \in Position(b)
      <4>1. Same(b, c, z, z)
        BY DEF Same, Begins, Position
      <4>2. QED
        BY <1>4, <4>1 DEF Steady, Same
    <3>2. QED BY <3>1
  <2>4. Short \in Position(b)
    BY DEF Position
  <2>5. QED
    BY <2>2, <2>3, <2>4, RepeatStep
<1>7. QED
  BY <1>1, <1>2, <1>3, <1>5, <1>6

(* A bound within what has arrived.                                         *)
LEMMA BoundSame ==
  ASSUME NEW b, NEW c, Begins(b, c), NEW p, NEW q, Same(b, c, p, q),
         IsRange(b, p), Bounded(b, p) # Short, Flagged(b, p) # Short, NEW i \in 1..6
  PROVE  /\ BoundAt(b, p, i) \in Nat /\ BoundAt(b, p, i) < 2^BoundBits
         /\ BoundAt(c, q, i) = BoundAt(b, p, i)
<1> DEFINE flag == Flagged(b, p)
           j == i - 1
           x == flag + j * BoundBits
<1>1. Flagged(c, q) = flag /\ flag \in Position(b)
  BY NamesSkippedSame DEF Same
<1>2. Skip(b, flag, 6 * BoundBits) # Short /\ b \in Seq(Bit)
  BY DEF Bounded, Begins
<1>3. flag \in Nat /\ flag + 6 * BoundBits <= Len(b) /\ Len(b) \in Nat
  BY <1>1, <1>2, SkipPosition0, WidthsNat
<1> HIDE DEF flag
<1>4. BoundBits = 16
  BY DEF BoundBits
<1>5. x \in Nat /\ x + BoundBits <= Len(b) /\ flag + i * BoundBits = x + BoundBits
  BY <1>3, <1>4
<1> HIDE DEF x
<1>6. /\ Before(b, x + BoundBits, BoundBits) \in Nat /\ Before(b, x + BoundBits, BoundBits) < 2^BoundBits
      /\ Before(c, x + BoundBits, BoundBits) = Before(b, x + BoundBits, BoundBits)
  <2>1. BoundBits \in Nat
    BY WidthsNat
  <2>2. \A z \in Nat : z + BoundBits <= Len(b) =>
          /\ Before(b, z + BoundBits, BoundBits) \in Nat
          /\ Before(b, z + BoundBits, BoundBits) < 2^BoundBits
          /\ Before(c, z + BoundBits, BoundBits) = Before(b, z + BoundBits, BoundBits)
    BY <2>1, BeforeSmall
  <2>3. QED
    BY <1>5, <2>2
<1>7. /\ BoundAt(b, p, i) = Before(b, x + BoundBits, BoundBits)
      /\ BoundAt(c, q, i) = Before(c, x + BoundBits, BoundBits)
  BY <1>1, <1>5 DEF BoundAt, flag
<1>8. QED
  BY <1>6, <1>7

LEMMA NeededDifference ==
  ASSUME NEW m \in Nat, NEW n \in Nat, n < 2^BoundBits
  PROVE  bitsNeeded(n - m) \in Nat
<1> DEFINE t == 2^BoundBits
<1>1. t \in Nat
  BY Bounds
<1> HIDE DEF t
<1>2. n < t
  BY DEF t
<1>3. n - m \in Int /\ n - m < t
  BY <1>1, <1>2
<1>4. QED
  BY <1>3, NeededNat DEF t

LEMMA RecordWidthSame ==
  ASSUME NEW b, NEW c, Begins(b, c), NEW p, NEW q, Same(b, c, p, q), NamesSkipped(b, p) # Short
  PROVE  RecordWidth(b, p) \in Nat /\ RecordWidth(c, q) = RecordWidth(b, p)
<1>1. /\ Flagged(b, p) # Short /\ Bounded(b, p) # Short
      /\ Skip(b, Bounded(b, p), LengthBits) # Short
      /\ IsRange(c, q) = IsRange(b, p)
      /\ Same(b, c, Bounded(b, p), Bounded(c, q))
  BY NamesSkippedSame
<1>2. CASE ~IsRange(b, p)
  BY <1>1, <1>2, WidthsNat DEF RecordWidth
<1>3. CASE IsRange(b, p)
  <2>1. \A i \in 1..6 : /\ BoundAt(b, p, i) \in Nat /\ BoundAt(b, p, i) < 2^BoundBits
                        /\ BoundAt(c, q, i) = BoundAt(b, p, i)
    BY <1>1, <1>3, BoundSame
  <2>2. 1 \in 1..6 /\ 2 \in 1..6 /\ 3 \in 1..6 /\ 4 \in 1..6 /\ 5 \in 1..6 /\ 6 \in 1..6
    OBVIOUS
  <2>3. /\ bitsNeeded(BoundAt(b, p, 2) - BoundAt(b, p, 1)) \in Nat
        /\ bitsNeeded(BoundAt(b, p, 4) - BoundAt(b, p, 3)) \in Nat
        /\ bitsNeeded(BoundAt(b, p, 6) - BoundAt(b, p, 5)) \in Nat
    BY <2>1, <2>2, NeededDifference, Zenon
  <2>4. /\ BoundAt(c, q, 1) = BoundAt(b, p, 1) /\ BoundAt(c, q, 2) = BoundAt(b, p, 2)
        /\ BoundAt(c, q, 3) = BoundAt(b, p, 3) /\ BoundAt(c, q, 4) = BoundAt(b, p, 4)
        /\ BoundAt(c, q, 5) = BoundAt(b, p, 5) /\ BoundAt(c, q, 6) = BoundAt(b, p, 6)
    BY <2>1, <2>2, Zenon
  <2>5. /\ NamesCount(c, q) = NamesCount(b, p)
        /\ bitsNeeded(NamesCount(b, p)) \in Nat
    <3>1. NamesCount(c, q) = NamesCount(b, p)
      BY <1>1, BeforeSame, WidthsNat DEF NamesCount
    <3>2. Bounded(b, p) \in Position(b) /\ b \in Seq(Bit)
      BY <1>1 DEF Same, Begins
    <3>3. /\ Skip(b, Bounded(b, p), LengthBits) = Bounded(b, p) + LengthBits
          /\ Bounded(b, p) \in Nat /\ Bounded(b, p) + LengthBits <= Len(b)
      BY <1>1, <3>2, SkipPosition0, WidthsNat
    <3>4. NamesCount(b, p) \in Nat /\ NamesCount(b, p) < 2^LengthBits
      BY <3>3, BeforeSmall, WidthsNat DEF NamesCount
    <3>5. 2^LengthBits <= 2^BoundBits /\ 2^LengthBits \in Nat /\ 2^BoundBits \in Nat
      <4>1. LengthBits <= BoundBits
        BY DEF LengthBits, BoundBits
      <4>2. QED
        BY <4>1, WidthsNat, PowerGrows, PowerOfTwo, Zenon
    <3> DEFINE n == NamesCount(b, p)
               t == 2^LengthBits
               u == 2^BoundBits
    <3>6. n \in Nat /\ n < t /\ t <= u /\ t \in Nat /\ u \in Nat
      BY <3>4, <3>5
    <3> HIDE DEF n, t, u
    <3>7. n \in Int /\ n < u
      BY <3>6
    <3>8. bitsNeeded(NamesCount(b, p)) \in Nat
      BY <3>7, NeededNat DEF n, u
    <3>9. QED
      BY <3>1, <3>8
  <2>6. RecordWidth(c, q) = RecordWidth(b, p)
    BY <1>1, <1>3, <2>4, <2>5, Zenon DEF RecordWidth
  <2>7. RecordWidth(b, p) \in Nat
    BY <1>3, <2>3, <2>5, WidthsNat DEF RecordWidth
  <2>8. QED
    BY <2>6, <2>7
<1>4. QED
  BY <1>2, <1>3

LEMMA SkipRecordsSame ==
  ASSUME NEW b, NEW c, Begins(b, c), NEW p, NEW q, Same(b, c, p, q),
         NEW n \in Nat, NEW m \in Nat, p # Short => m = n
  PROVE  /\ Same(b, c, SkipRecords(b, p, n), SkipRecords(c, q, m))
         /\ p = Short => SkipRecords(b, p, n) = Short
<1> DEFINE x == NamesSkipped(b, p)
           y == NamesSkipped(c, q)
           v == n * RecordWidth(b, p)
           w == m * RecordWidth(c, q)
<1>1. Same(b, c, x, y) /\ (p = Short => x = Short)
  <2>1. Same(b, c, x, y)
    BY NamesSkippedSame
  <2>2. p = Short => x = Short
    BY NamesSkippedSame DEF Flagged, Skip
  <2>3. QED
    BY <2>1, <2>2
<1>2. c \in Seq(Bit) /\ Same(c, c, q, q) /\ Begins(c, c)
  BY SameItself DEF Begins, Same
<1>3. x # Short => /\ v \in Nat /\ w = v /\ p # Short
  <2>1. SUFFICES ASSUME x # Short PROVE v \in Nat /\ w = v /\ p # Short
    OBVIOUS
  <2>2. RecordWidth(b, p) \in Nat /\ RecordWidth(c, q) = RecordWidth(b, p)
    BY <2>1, RecordWidthSame
  <2>3. p # Short /\ m = n
    BY <1>1, <2>1
  <2>4. QED
    BY <2>2, <2>3
<1>4. y # Short => w \in Nat
  <2>1. SUFFICES ASSUME y # Short PROVE w \in Nat
    OBVIOUS
  <2>2. RecordWidth(c, q) \in Nat
    BY <1>2, <2>1, RecordWidthSame
  <2>3. QED
    BY <2>2
<1>5. /\ SkipRecords(b, p, n) = IF x = Short THEN Short ELSE Skip(b, x, v)
      /\ SkipRecords(c, q, m) = IF y = Short THEN Short ELSE Skip(c, y, w)
  BY SkipRecordsIs
<1> HIDE DEF x, y, v, w
<1>6. CASE x # Short
  <2>1. y = x /\ v \in Nat /\ w \in Nat /\ w = v
    BY <1>1, <1>3, <1>6 DEF Same
  <2>2. Same(b, c, Skip(b, x, v), Skip(c, y, w))
    BY <1>1, <2>1, SkipSame
  <2>3. QED
    BY <1>1, <1>5, <1>6, <2>1, <2>2
<1>7. CASE x = Short
  <2>1. SkipRecords(b, p, n) = Short
    BY <1>5, <1>7
  <2>2. y \in Position(c)
    BY <1>1 DEF Same
  <2>3. SkipRecords(c, q, m) \in Position(c)
    <3>1. CASE y = Short
      BY <1>5, <3>1 DEF Position
    <3>2. CASE y # Short
      BY <1>2, <1>4, <1>5, <2>2, <3>2, SkipPosition0
    <3>3. QED BY <3>1, <3>2
  <2>4. QED
    BY <2>1, <2>3 DEF Same, Position
<1>8. QED
  BY <1>6, <1>7

LEMMA SkipBlocksSame ==
  ASSUME NEW b, NEW c, Begins(b, c), NEW p, NEW q, Same(b, c, p, q), NEW w \in Nat
  PROVE  Same(b, c, SkipBlocks(b, p, w), SkipBlocks(c, q, w))
<1> DEFINE x == Skip(b, p, w)
           y == Skip(c, q, w)
           n == Before(b, x, w)
           m == Before(c, y, w)
<1>1. b \in Seq(Bit) /\ c \in Seq(Bit) /\ p \in Position(b) /\ q \in Position(c)
  BY DEF Begins, Same
<1>2. Same(b, c, x, y)
  BY SkipSame
<1>3. n \in Nat /\ m \in Nat
  BY <1>1, BeforeNat
<1>4. x # Short => m = n
  BY BeforeSame
<1>5. /\ SkipBlocks(b, p, w) = IF x = Short \/ n = 0 THEN x ELSE SkipRecords(b, x, n)
      /\ SkipBlocks(c, q, w) = IF y = Short \/ m = 0 THEN y ELSE SkipRecords(c, y, m)
  BY DEF SkipBlocks, SkipPayload
<1> HIDE DEF x, y, n, m
<1>6. Same(b, c, SkipRecords(b, x, n), SkipRecords(c, y, m))
  BY <1>2, <1>3, <1>4, SkipRecordsSame
<1>7. CASE x # Short
  BY <1>2, <1>4, <1>5, <1>6, <1>7 DEF Same
<1>8. CASE x = Short
  <2>1. SkipBlocks(b, p, w) = Short
    BY <1>5, <1>8
  <2>2. SkipBlocks(c, q, w) \in Position(c)
    BY <1>2, <1>5, <1>6 DEF Same
  <2>3. QED
    BY <2>1, <2>2 DEF Same, Position
<1>9. QED
  BY <1>7, <1>8

LEMMA SkipPositionSame ==
  ASSUME NEW b, NEW c, Begins(b, c), NEW p, NEW q, Same(b, c, p, q)
  PROVE  Same(b, c, SkipPosition(b, p), SkipPosition(c, q))
<1> DEFINE space(a, r) == Skip(a, r, 1)
           change(a, r) == Skip(a, space(a, r), 2)
           far(a, r) == 3 * KmBits + (CASE Before(a, change(a, r), 2) = 0 -> 3 * 64 + 3 * 14
                                        [] Before(a, change(a, r), 2) = 1 -> 3 * 14
                                        [] OTHER -> 0)
<1>1. /\ SkipPosition(b, p) = IF Before(b, space(b, p), 1) = 0 THEN Skip(b, space(b, p), 3 * 63)
                              ELSE Skip(b, change(b, p), far(b, p))
      /\ SkipPosition(c, q) = IF Before(c, space(c, q), 1) = 0 THEN Skip(c, space(c, q), 3 * 63)
                              ELSE Skip(c, change(c, q), far(c, q))
  BY DEF SkipPosition
<1>2. Same(b, c, space(b, p), space(c, q))
  BY SkipBitsSame
<1>3. space(b, p) # Short => Before(c, space(c, q), 1) = Before(b, space(b, p), 1)
  BY BeforeSame
<1>a. space(b, p) = Short => Before(b, space(b, p), 1) = 0
  BY DEF Before
<1> HIDE DEF space
<1>4. Same(b, c, change(b, p), change(c, q))
  BY <1>2, SkipBitsSame
<1>5. change(b, p) # Short => Before(c, change(c, q), 2) = Before(b, change(b, p), 2)
  BY <1>2, BeforeSame
<1>6. far(b, p) \in Nat /\ far(c, q) \in Nat
  BY DEF KmBits
<1>7. change(b, p) # Short => far(c, q) = far(b, p)
  BY <1>5
<1>8. Same(b, c, Skip(b, space(b, p), 3 * 63), Skip(c, space(c, q), 3 * 63))
  BY <1>2, SkipBitsSame, WidthsNat
<1> HIDE DEF far, change
<1>9. Same(b, c, Skip(b, change(b, p), far(b, p)), Skip(c, change(c, q), far(c, q)))
  BY <1>4, <1>6, <1>7, SkipSame
<1>10. CASE space(b, p) # Short
  BY <1>1, <1>3, <1>8, <1>9, <1>10
<1>11. CASE space(b, p) = Short
  <2>1. SkipPosition(b, p) = Short
    BY <1>1, <1>a, <1>11 DEF Skip
  <2>2. SkipPosition(c, q) \in Position(c)
    BY <1>1, <1>8, <1>9 DEF Same
  <2>3. QED
    BY <2>1, <2>2 DEF Same, Position
<1>12. QED
  BY <1>10, <1>11

LEMMA SkipPlacementSame ==
  ASSUME NEW b, NEW c, Begins(b, c), NEW p, NEW q, Same(b, c, p, q)
  PROVE  Same(b, c, SkipPlacement(b, p), SkipPlacement(c, q))
<1> DEFINE kind(a, r) == Skip(a, r, 2)
           vehicle(a, r) == Before(a, Skip(a, r, 1), 1) = 1
           schemata(a, r) == kind(a, r) # Short /\ Before(a, kind(a, r), 1) = 1
           one(a, r) == Skip(a, SkipId(a, kind(a, r)), 2)
           two(a, r) == Skip(a, SkipId(a, kind(a, r)), 3 * ChunkBits + 3 * LocalBits)
           three(a, r) == Skip(a, kind(a, r), 3 * ChunkBits + MatBits)
           is(a, r) == IF schemata(a, r) THEN one(a, r)
                       ELSE IF vehicle(a, r) THEN two(a, r) ELSE three(a, r)
<1>1. SkipPlacement(b, p) = is(b, p) /\ SkipPlacement(c, q) = is(c, q)
  BY DEF SkipPlacement
<1>2. Same(b, c, kind(b, p), kind(c, q))
  BY SkipBitsSame
<1>3. /\ Same(b, c, SkipId(b, kind(b, p)), SkipId(c, kind(c, q)))
      /\ kind(b, p) = Short => SkipId(b, kind(b, p)) = Short
  BY <1>2, SkipIdSame
<1>4. /\ Same(b, c, one(b, p), one(c, q)) /\ Same(b, c, two(b, p), two(c, q))
      /\ Same(b, c, three(b, p), three(c, q))
  BY <1>2, <1>3, SkipBitsSame, WidthsNat
<1>5. kind(b, p) = Short => one(b, p) = Short /\ two(b, p) = Short /\ three(b, p) = Short
  BY <1>3 DEF Skip
<1>6. ASSUME kind(b, p) # Short PROVE schemata(c, q) = schemata(b, p) /\ vehicle(c, q) = vehicle(b, p)
  <2>1. b \in Seq(Bit) /\ p \in Position(b) /\ Len(b) \in Nat
    BY DEF Begins, Same
  <2>2. kind(b, p) = p + 2 /\ p \in Nat /\ p + 2 <= Len(b) /\ p # Short
    BY <1>6, <2>1, SkipPosition0
  <2>3. q = p /\ kind(c, q) = p + 2
    BY <1>2, <1>6, <2>2 DEF Same
  <2>4. (p + 1) \in Nat /\ (p + 1) + 1 <= Len(b) /\ (p + 1) + 1 = p + 2 /\ p + 1 <= Len(b)
    BY <2>1, <2>2
  <2>5. Before(c, p + 2, 1) = Before(b, p + 2, 1)
    BY <2>4, BeforeSmall
  <2>6. Skip(b, p, 1) # Short
    BY <2>2, <2>4 DEF Skip, Short
  <2>7. Before(c, Skip(c, q, 1), 1) = Before(b, Skip(b, p, 1), 1)
    BY <2>6, BeforeSame
  <2>8. p + 2 # Short
    BY <2>2 DEF Short
  <2>9. QED
    BY <2>2, <2>3, <2>5, <2>7, <2>8
<1> HIDE DEF kind, vehicle, schemata, one, two, three
<1>7. CASE kind(b, p) # Short
  BY <1>1, <1>4, <1>6, <1>7
<1>8. CASE kind(b, p) = Short
  <2>1. SkipPlacement(b, p) = Short
    BY <1>1, <1>5, <1>8
  <2>2. SkipPlacement(c, q) \in Position(c)
    BY <1>1, <1>4 DEF Same
  <2>3. QED
    BY <2>1, <2>2 DEF Same, Position
<1>9. QED
  BY <1>7, <1>8

(* Those types whose messages are skipped field by field.                   *)
Skipped == {"BATCH_POSITION_UPDATE", "HIT", "ATTACK", "POSITION_UPDATE", "REGISTER", "LOGIN",
            "PUZZLE", "PASSWORD_CHANGE", "DEAD", "RESYNC", "SCHEMATA", "BLOCKS", "VEHICLE",
            "PLACEMENT"}

LEMMA SkipBodyIs ==
  ASSUME NEW b, NEW p
  PROVE  /\ SkipBody("BATCH_POSITION_UPDATE", b, p) = SkipMoves(b, p, 3 * LocalBits + 3 * RotationBits)
         /\ SkipBody("HIT", b, p) = SkipId(b, Skip(b, p, VelocityBits))
         /\ SkipBody("ATTACK", b, p) = SkipSized(b, SkipId(b, p), 1, 3 * RotationBits)
         /\ SkipBody("POSITION_UPDATE", b, p) = SkipPosition(b, p)
         /\ SkipBody("REGISTER", b, p) = SkipCaptchas(b, SkipSized(b, p, 5, 8))
         /\ SkipBody("LOGIN", b, p) = SkipCaptchas(b, SkipSized(b, SkipSized(b, p, 6, 8), 5, 8))
         /\ SkipBody("PUZZLE", b, p) = SkipSized(b, Skip(b, p, 64), 18, 8)
         /\ SkipBody("PASSWORD_CHANGE", b, p) = SkipSized(b, SkipSized(b, Skip(b, p, 128), 5, 8), 5, 8)
         /\ SkipBody("DEAD", b, p) = SkipId(b, p)
         /\ SkipBody("RESYNC", b, p) = SkipMoves(b, p, 1)
         /\ SkipBody("SCHEMATA", b, p) = SkipBlocks(b, SkipId(b, p), SchemataBits)
         /\ SkipBody("BLOCKS", b, p) = SkipPlacements(b, SkipBlocks(b, Skip(b, p, 3 * ChunkBits), 30))
         /\ SkipBody("VEHICLE", b, p) =
              SkipSized(b, SkipPlacements(b, SkipBlocks(b, Skip(b, p, 3 * ChunkBits), 30)), 8, 8)
         /\ SkipBody("PLACEMENT", b, p) = SkipPlacement(b, p)
  BY DEF SkipBody, SkipMoves

LEMMA SkipBodySame ==
  ASSUME NEW b, NEW c, Begins(b, c), NEW p, NEW q, Same(b, c, p, q), NEW type \in Skipped
  PROVE  Same(b, c, SkipBody(type, b, p), SkipBody(type, c, q))
<1>1. CASE type = "BATCH_POSITION_UPDATE"
  BY <1>1, SkipBodyIs, SkipMovesSame, WidthsNat
<1>2. CASE type = "HIT"
  <2>1. Same(b, c, Skip(b, p, VelocityBits), Skip(c, q, VelocityBits))
    BY SkipBitsSame, WidthsNat
  <2>2. QED
    BY <1>2, <2>1, SkipBodyIs, SkipIdSame
<1>3. CASE type = "ATTACK"
  <2>1. Same(b, c, SkipId(b, p), SkipId(c, q))
    BY SkipIdSame
  <2>2. QED
    BY <1>3, <2>1, SkipBodyIs, SkipSizedSame, WidthsNat
<1>4. CASE type = "POSITION_UPDATE"
  BY <1>4, SkipBodyIs, SkipPositionSame
<1>5. CASE type = "REGISTER"
  <2>1. Same(b, c, SkipSized(b, p, 5, 8), SkipSized(c, q, 5, 8))
    BY SkipSizedSame
  <2>2. QED
    BY <1>5, <2>1, SkipBodyIs, SkipCaptchasSame
<1>6. CASE type = "LOGIN"
  <2>1. Same(b, c, SkipSized(b, p, 6, 8), SkipSized(c, q, 6, 8))
    BY SkipSizedSame
  <2>2. Same(b, c, SkipSized(b, SkipSized(b, p, 6, 8), 5, 8), SkipSized(c, SkipSized(c, q, 6, 8), 5, 8))
    BY <2>1, SkipSizedSame
  <2>3. QED
    BY <1>6, <2>2, SkipBodyIs, SkipCaptchasSame
<1>7. CASE type = "PUZZLE"
  <2>1. Same(b, c, Skip(b, p, 64), Skip(c, q, 64))
    BY SkipBitsSame
  <2>2. QED
    BY <1>7, <2>1, SkipBodyIs, SkipSizedSame
<1>8. CASE type = "PASSWORD_CHANGE"
  <2>1. Same(b, c, Skip(b, p, 128), Skip(c, q, 128))
    BY SkipBitsSame
  <2>2. Same(b, c, SkipSized(b, Skip(b, p, 128), 5, 8), SkipSized(c, Skip(c, q, 128), 5, 8))
    BY <2>1, SkipSizedSame
  <2>3. QED
    BY <1>8, <2>2, SkipBodyIs, SkipSizedSame
<1>9. CASE type = "DEAD"
  BY <1>9, SkipBodyIs, SkipIdSame
<1>10. CASE type = "RESYNC"
  BY <1>10, SkipBodyIs, SkipMovesSame
<1>11. CASE type = "SCHEMATA"
  <2>1. Same(b, c, SkipId(b, p), SkipId(c, q))
    BY SkipIdSame
  <2>2. QED
    BY <1>11, <2>1, SkipBodyIs, SkipBlocksSame, WidthsNat
<1>12. Same(b, c, SkipPlacements(b, SkipBlocks(b, Skip(b, p, 3 * ChunkBits), 30)),
                  SkipPlacements(c, SkipBlocks(c, Skip(c, q, 3 * ChunkBits), 30)))
  <2>1. Same(b, c, Skip(b, p, 3 * ChunkBits), Skip(c, q, 3 * ChunkBits))
    BY SkipBitsSame, WidthsNat
  <2>2. Same(b, c, SkipBlocks(b, Skip(b, p, 3 * ChunkBits), 30),
                   SkipBlocks(c, Skip(c, q, 3 * ChunkBits), 30))
    BY <2>1, SkipBlocksSame
  <2>3. QED
    BY <2>2, SkipPlacementsSame
<1>13. CASE type = "BLOCKS"
  BY <1>12, <1>13, SkipBodyIs
<1>14. CASE type = "VEHICLE"
  BY <1>12, <1>14, SkipBodyIs, SkipSizedSame
<1>15. CASE type = "PLACEMENT"
  BY <1>15, SkipBodyIs, SkipPlacementSame
<1>16. QED
  BY <1>1, <1>2, <1>3, <1>4, <1>5, <1>6, <1>7, <1>8, <1>9, <1>10, <1>11, <1>13, <1>14, <1>15 DEF Skipped

LEMMA HeadTypeIs ==
  ASSUME NEW b \in Seq(Bit)
  PROVE  HeadType(b) \in Skipped \cup {"none", "NEW_ENTITY"} \cup DOMAIN FixedBytes
<1> DEFINE number == ValueOf(Slice(b, 1, HeadLength(b) - 1))
<1>1. HeadType(b) = IF number < Len(Types) THEN Types[number + 1] ELSE "none"
  BY DEF HeadType
<1>2. number \in Nat
  <2>1. HeadLength(b) - 1 \in Nat
    BY DEF HeadLength, TypeBits, ShortBits
  <2>2. QED
    BY <2>1, SliceTyped, ValueNat
<1> HIDE DEF number
<1>3. Len(Types) = 20
  BY DEF Types
<1>4. CASE number < 20
  <2>1. number + 1 \in 1..20
    BY <1>2, <1>4
  <2>2. \A i \in 1..20 : Types[i] \in Skipped \cup {"none", "NEW_ENTITY"} \cup DOMAIN FixedBytes
    BY DEF Types, Skipped, FixedBytes
  <2>3. QED
    BY <1>1, <1>3, <1>4, <2>1, <2>2
<1>5. CASE ~(number < 20)
  BY <1>1, <1>3, <1>5
<1>6. QED
  BY <1>4, <1>5

LEMMA LengthStable ==
  ASSUME NEW b, NEW c, Begins(b, c), MessageLength(b) # 0
  PROVE  MessageLength(c) = MessageLength(b)
<1>1. b \in Seq(Bit) /\ c \in Seq(Bit) /\ Len(b) \in Nat /\ Len(c) \in Nat /\ Len(b) <= Len(c)
  BY DEF Begins
<1>2. b # <<>> /\ ~(Len(b) < HeadLength(b))
  BY DEF MessageLength
<1>3. 1 <= Len(b)
  BY <1>1, <1>2
<1>4. c # <<>>
  BY <1>1, <1>3
<1>5. Slice(c, 0, 1) = Slice(b, 0, 1)
  <2>1. 0 + 1 <= Len(b)
    BY <1>3
  <2>2. QED
    BY <2>1, SliceSame
<1>6. HeadLength(c) = HeadLength(b) /\ HeadLength(b) \in Nat /\ HeadLength(b) - 1 \in Nat
      /\ 1 + (HeadLength(b) - 1) = HeadLength(b)
  BY <1>5 DEF HeadLength, TypeBits, ShortBits
<1>7. HeadLength(b) <= Len(b) /\ HeadLength(b) <= Len(c)
  BY <1>1, <1>2, <1>6
<1>8. HeadType(c) = HeadType(b)
  <2>1. Slice(b, 1, HeadLength(b) - 1) = Slice(c, 1, HeadLength(b) - 1)
    BY <1>6, <1>7, SliceSame
  <2>2. QED
    BY <1>6, <2>1 DEF HeadType
<1> DEFINE type == HeadType(b)
           long == Slice(b, 0, 1) = <<1>>
           x == SkipBody(type, b, HeadLength(b))
           y == SkipBody(type, c, HeadLength(b))
<1>9. MessageLength(b) =
        IF type \in {"none", "NEW_ENTITY"} \/ long = IsShort(type) THEN Malformed
        ELSE IF type \in DOMAIN FixedBytes THEN FixedBytes[type]
        ELSE IF x = Short THEN 0 ELSE Bytes(x)
  BY <1>2 DEF MessageLength
<1>10. MessageLength(c) =
        IF type \in {"none", "NEW_ENTITY"} \/ long = IsShort(type) THEN Malformed
        ELSE IF type \in DOMAIN FixedBytes THEN FixedBytes[type]
        ELSE IF y = Short THEN 0 ELSE Bytes(y)
  <2>1. ~(c = <<>> \/ Len(c) < HeadLength(c))
    BY <1>1, <1>4, <1>6, <1>7
  <2>2. QED
    BY <1>5, <1>6, <1>8, <2>1 DEF MessageLength
<1>11. type \in Skipped \cup {"none", "NEW_ENTITY"} \cup DOMAIN FixedBytes
  BY <1>1, HeadTypeIs
<1>12. type \in Skipped => Same(b, c, x, y)
  <2>1. Same(b, c, HeadLength(b), HeadLength(b))
    BY <1>1, <1>6, <1>7 DEF Same, Position
  <2>2. QED
    BY <2>1, SkipBodySame
<1> HIDE DEF type, long, x, y
<1>13. CASE type \in {"none", "NEW_ENTITY"} \/ long = IsShort(type) \/ type \in DOMAIN FixedBytes
  BY <1>9, <1>10, <1>13, Zenon
<1>14. CASE ~(type \in {"none", "NEW_ENTITY"} \/ long = IsShort(type) \/ type \in DOMAIN FixedBytes)
  <2>1. MessageLength(b) = IF x = Short THEN 0 ELSE Bytes(x)
    BY <1>9, <1>14, Zenon
  <2>2. MessageLength(c) = IF y = Short THEN 0 ELSE Bytes(y)
    BY <1>10, <1>14, Zenon
  <2>3. Same(b, c, x, y)
    BY <1>11, <1>12, <1>14, Zenon
  <2>4. x # Short
    BY <2>1
  <2>5. QED
    BY <2>1, <2>2, <2>3, <2>4 DEF Same
<1>15. QED
  BY <1>13, <1>14

-----------------------------------------------------------------------------
(***************************************************************************)
(* Numbers in fields.                                                      *)
(***************************************************************************)
(* The place of the highest one in a number.                                *)
IsTop(s, k) == /\ k \in 0..Len(s) /\ (k > 0 => s[k] = 1)
               /\ \A i \in (k + 1)..Len(s) : s[i] = 0

LEMMA TopExists ==
  ASSUME NEW s \in Seq(Bit)
  PROVE  \E k \in 0..Len(s) : IsTop(s, k)
<1> DEFINE n == Len(s)
           Above(m) == \A i \in (m + 1)..n : s[i] = 0
<1>1. n \in Nat /\ \A i \in 1..n : s[i] \in {0, 1}
  BY DEF Bit
<1>a. ASSUME NEW k \in 0..n, Above(k), k > 0 => s[k] = 1 PROVE IsTop(s, k)
  BY <1>a DEF IsTop
<1> HIDE DEF n
<1> DEFINE P(d) == d <= n /\ Above(n - d) => \E k \in 0..n : IsTop(s, k)
           U == {e \in Nat : e <= n => P(n - e)}
<1>2. 0 \in U
  <2>1. SUFFICES ASSUME Above(0) PROVE \E k \in 0..n : IsTop(s, k)
    BY <1>1
  <2>2. 0 \in 0..n
    BY <1>1
  <2>3. QED
    BY <1>a, <2>1, <2>2
<1>3. ASSUME NEW e \in Nat, e \in U PROVE e + 1 \in U
  <2>1. SUFFICES ASSUME e + 1 <= n, Above(e + 1) PROVE \E k \in 0..n : IsTop(s, k)
    <3>1. e + 1 <= n => n - (n - (e + 1)) = e + 1
      BY <1>1
    <3>2. QED
      BY <3>1
  <2>2. e + 1 \in 1..n /\ e + 1 \in 0..n
    BY <1>1, <2>1
  <2>3. CASE s[e + 1] = 1
    BY <1>a, <2>1, <2>2, <2>3
  <2>4. CASE s[e + 1] = 0
    <3>1. Above(e)
      <4>1. ASSUME NEW i \in (e + 1)..n PROVE s[i] = 0
        <5>1. i = e + 1 \/ i \in (e + 1 + 1)..n
          BY <1>1
        <5>2. QED
          BY <2>1, <2>4, <5>1
      <4>2. QED BY <4>1
    <3>2. e <= n /\ n - e <= n /\ n - (n - e) = e
      BY <1>1, <2>1
    <3>3. P(n - e)
      BY <1>3, <3>2
    <3>4. QED
      BY <3>1, <3>2, <3>3
  <2>5. QED
    BY <1>1, <2>2, <2>3, <2>4
<1> HIDE DEF U, P
<1>4. n \in U
  BY <1>1, <1>2, <1>3, Induction
<1>5. P(0)
  <2>1. n <= n /\ n - n = 0
    BY <1>1
  <2>2. QED
    BY <1>4, <2>1 DEF U
<1>6. Above(n - 0)
  <2>1. (n - 0) + 1 > n
    BY <1>1
  <2>2. QED
    BY <1>1, <2>1
<1>7. QED
  <2>1. 0 <= n
    BY <1>1
  <2>2. QED
    BY <1>5, <1>6, <2>1 DEF P, n

LEMMA TopUnique ==
  ASSUME NEW s \in Seq(Bit), NEW k, NEW m, IsTop(s, k), IsTop(s, m)
  PROVE  k = m
<1>1. Len(s) \in Nat /\ k \in 0..Len(s) /\ m \in 0..Len(s)
  BY DEF IsTop
<1>2. ~(k < m)
  <2>1. SUFFICES ASSUME k < m PROVE FALSE
    OBVIOUS
  <2>2. m \in (k + 1)..Len(s) /\ m > 0
    BY <1>1, <2>1
  <2>3. s[m] = 0 /\ s[m] = 1
    BY <2>2 DEF IsTop
  <2>4. QED BY <2>3
<1>3. ~(m < k)
  <2>1. SUFFICES ASSUME m < k PROVE FALSE
    OBVIOUS
  <2>2. k \in (m + 1)..Len(s) /\ k > 0
    BY <1>1, <2>1
  <2>3. s[k] = 0 /\ s[k] = 1
    BY <2>2 DEF IsTop
  <2>4. QED BY <2>3
<1>4. QED
  BY <1>1, <1>2, <1>3

LEMMA SignificantIs ==
  ASSUME NEW s \in Seq(Bit), NEW k, IsTop(s, k)
  PROVE  Significant(s) = SubSeq(s, 1, k)
<1> DEFINE c == CHOOSE j \in 0..Len(s) : /\ j > 0 => s[j] = 1
                                         /\ \A i \in (j + 1)..Len(s) : s[i] = 0
<1>1. \E j \in 0..Len(s) : /\ j > 0 => s[j] = 1
                            /\ \A i \in (j + 1)..Len(s) : s[i] = 0
  BY DEF IsTop
<1>2. IsTop(s, c)
  BY <1>1 DEF IsTop
<1>3. Significant(s) = SubSeq(s, 1, c)
  BY DEF Significant
<1> HIDE DEF c
<1>4. QED
  BY <1>2, <1>3, TopUnique

(* Two strings of bits that are the same number.                            *)
BitAt(s, i) == IF i <= Len(s) THEN s[i] ELSE 0
SameNumber(s, t) == \A i \in Nat \ {0} : BitAt(s, i) = BitAt(t, i)

LEMMA SameTop ==
  ASSUME NEW s \in Seq(Bit), NEW t \in Seq(Bit), SameNumber(s, t), NEW k, IsTop(s, k)
  PROVE  IsTop(t, k)
<1>1. Len(s) \in Nat /\ Len(t) \in Nat /\ k \in 0..Len(s) /\ k \in Nat
  BY DEF IsTop
<1>2. k > 0 => k <= Len(t) /\ t[k] = 1
  <2>1. SUFFICES ASSUME k > 0 PROVE k <= Len(t) /\ t[k] = 1
    OBVIOUS
  <2>2. BitAt(s, k) = 1
    BY <1>1, <2>1 DEF BitAt, IsTop
  <2>3. BitAt(t, k) = 1
    BY <1>1, <2>1, <2>2 DEF SameNumber
  <2>4. QED
    BY <2>3 DEF BitAt
<1>3. ASSUME NEW i \in (k + 1)..Len(t) PROVE t[i] = 0
  <2>1. i \in Nat \ {0} /\ i <= Len(t) /\ (i <= Len(s) => i \in (k + 1)..Len(s))
    BY <1>1
  <2>2. BitAt(s, i) = 0
    BY <2>1 DEF BitAt, IsTop
  <2>3. BitAt(t, i) = t[i]
    BY <2>1 DEF BitAt
  <2>4. QED
    BY <2>1, <2>2, <2>3 DEF SameNumber
<1>4. QED
  BY <1>1, <1>2, <1>3 DEF IsTop

LEMMA SignificantSame ==
  ASSUME NEW s \in Seq(Bit), NEW t \in Seq(Bit), SameNumber(s, t)
  PROVE  Significant(s) = Significant(t)
<1>1. PICK k \in 0..Len(s) : IsTop(s, k)
  BY TopExists
<1>2. IsTop(t, k)
  BY <1>1, SameTop
<1>3. Significant(s) = SubSeq(s, 1, k) /\ Significant(t) = SubSeq(t, 1, k)
  BY <1>1, <1>2, SignificantIs
<1>4. k <= Len(s) /\ k <= Len(t) /\ Len(s) \in Nat /\ Len(t) \in Nat /\ k \in Nat
  BY <1>1, <1>2 DEF IsTop
<1>5. ASSUME NEW i \in 1..k PROVE s[i] = t[i]
  <2>1. i \in Nat \ {0} /\ i <= Len(s) /\ i <= Len(t)
    BY <1>4
  <2>2. BitAt(s, i) = BitAt(t, i)
    BY <2>1 DEF SameNumber
  <2>3. QED
    BY <2>1, <2>2 DEF BitAt
<1>6. SubSeq(s, 1, k) = [i \in 1..k |-> s[i]] /\ SubSeq(t, 1, k) = [i \in 1..k |-> t[i]]
  BY <1>4
<1>7. QED
  BY <1>3, <1>5, <1>6

LEMMA SignificantTyped ==
  ASSUME NEW s \in Seq(Bit)
  PROVE  Significant(s) \in Seq(Bit)
<1>1. PICK k \in 0..Len(s) : IsTop(s, k)
  BY TopExists
<1>2. Significant(s) = SubSeq(s, 1, k) /\ Len(s) \in Nat
  BY <1>1, SignificantIs
<1>3. \A i \in 1..k : s[i] \in Bit
  <2>1. \A i \in 1..k : i \in 1..Len(s)
    BY <1>2
  <2>2. QED BY <2>1
<1>4. SubSeq(s, 1, k) = [i \in 1..k |-> s[i]] /\ k \in Nat
  BY <1>2
<1>5. QED
  BY <1>2, <1>3, <1>4

(* A field as wide as the number in it says the same number.                *)
LEMMA FitSame ==
  ASSUME NEW v \in Seq(Bit), NEW w \in Nat, Len(Significant(v)) <= w
  PROVE  /\ Fit(v, w) \in Seq(Bit) /\ Len(Fit(v, w)) = w
         /\ Significant(Fit(v, w)) = Significant(v)
<1>0. Len(v) \in Nat /\ \A i \in 1..Len(v) : v[i] \in Bit
  OBVIOUS
<1>1. ASSUME NEW i \in 1..w PROVE (IF i <= Len(v) THEN v[i] ELSE 0) \in Bit
  <2>1. CASE i <= Len(v)
    <3>1. i \in 1..Len(v)
      BY <1>0, <2>1
    <3>2. QED BY <1>0, <2>1, <3>1
  <2>2. CASE ~(i <= Len(v))
    BY <2>2 DEF Bit
  <2>3. QED BY <2>1, <2>2
<1>2. Fit(v, w) \in Seq(Bit) /\ Len(Fit(v, w)) = w /\ \A i \in 1..w : Fit(v, w)[i] = BitAt(v, i)
  BY <1>1 DEF Fit, BitAt
<1>3. PICK k \in 0..Len(v) : IsTop(v, k)
  BY TopExists
<1>4. k <= w
  <2>1. Significant(v) = SubSeq(v, 1, k)
    BY <1>3, SignificantIs
  <2>2. Len(SubSeq(v, 1, k)) = k
    BY <1>0
  <2>3. QED BY <2>1, <2>2
<1> DEFINE f == Fit(v, w)
<1>5. f \in Seq(Bit) /\ Len(f) = w /\ \A i \in 1..w : f[i] = BitAt(v, i)
  BY <1>2
<1> HIDE DEF f
<1>6. ASSUME NEW i \in Nat \ {0} PROVE BitAt(f, i) = BitAt(v, i)
  <2>1. CASE i <= w
    <3>1. i \in 1..w
      BY <2>1
    <3>2. QED
      BY <1>5, <2>1, <3>1 DEF BitAt
  <2>2. CASE i > w
    <3>1. BitAt(f, i) = 0
      BY <1>5, <2>2 DEF BitAt
    <3>2. i <= Len(v) => i \in (k + 1)..Len(v)
      BY <1>0, <1>4, <2>2
    <3>3. BitAt(v, i) = 0
      BY <1>3, <3>2 DEF IsTop, BitAt
    <3>4. QED BY <3>1, <3>3
  <2>3. QED BY <2>1, <2>2
<1>7. Significant(f) = Significant(v)
  BY <1>5, <1>6, SignificantSame DEF SameNumber
<1>8. QED
  BY <1>5, <1>7 DEF f

(* A number is the same in any width that it fits.                          *)
LEMMA BitBeyond ==
  ASSUME NEW n \in Nat, NEW w \in Nat, n < 2^w, NEW i \in Nat, i > w
  PROVE  (n \div 2^(i - 1)) % 2 = 0
<1> DEFINE t == 2^(i - 1)
<1>1. i - 1 \in Nat /\ w <= i - 1
  OBVIOUS
<1>2. t \in Nat \ {0} /\ 2^w <= t /\ 2^w \in Nat
  BY <1>1, PowerOfTwo, PowerGrows
<1> HIDE DEF t
<1>3. n < t
  BY <1>2
<1>4. \A m \in Nat, k \in Nat \ {0} : m < k => m \div k = 0
  OBVIOUS
<1>5. n \div t = 0
  BY <1>2, <1>3, <1>4
<1>6. 0 % 2 = 0
  OBVIOUS
<1>7. QED
  BY <1>5, <1>6, Zenon DEF t

LEMMA NumSame ==
  ASSUME NEW n \in Nat, NEW w \in Nat, NEW u \in Nat, n < 2^w, n < 2^u
  PROVE  Significant(BitsOf(n, w)) = Significant(BitsOf(n, u))
<1> DEFINE s == BitsOf(n, w)
           t == BitsOf(n, u)
<1>1. /\ s \in Seq(Bit) /\ Len(s) = w /\ \A i \in 1..w : s[i] = (n \div 2^(i - 1)) % 2
      /\ t \in Seq(Bit) /\ Len(t) = u /\ \A i \in 1..u : t[i] = (n \div 2^(i - 1)) % 2
  BY BitsTyped DEF BitsOf
<1> HIDE DEF s, t
<1>2. ASSUME NEW i \in Nat \ {0} PROVE BitAt(s, i) = (n \div 2^(i - 1)) % 2
  <2>1. CASE i <= w
    <3>1. i \in 1..w
      BY <2>1
    <3>2. QED BY <1>1, <2>1, <3>1 DEF BitAt
  <2>2. CASE i > w
    <3>1. BitAt(s, i) = 0
      BY <1>1, <2>2 DEF BitAt
    <3>2. QED BY <2>2, <3>1, BitBeyond
  <2>3. QED BY <2>1, <2>2
<1>3. ASSUME NEW i \in Nat \ {0} PROVE BitAt(t, i) = (n \div 2^(i - 1)) % 2
  <2>1. CASE i <= u
    <3>1. i \in 1..u
      BY <2>1
    <3>2. QED BY <1>1, <2>1, <3>1 DEF BitAt
  <2>2. CASE i > u
    <3>1. BitAt(t, i) = 0
      BY <1>1, <2>2 DEF BitAt
    <3>2. QED BY <2>2, <3>1, BitBeyond
  <2>3. QED BY <2>1, <2>2
<1>4. SameNumber(s, t)
  BY <1>2, <1>3, Zenon DEF SameNumber
<1>5. Significant(s) = Significant(t)
  BY <1>1, <1>4, SignificantSame
<1>6. QED
  BY <1>5 DEF s, t

LEMMA ValueSignificant ==
  ASSUME NEW s \in Seq(Bit)
  PROVE  ValueOf(Significant(s)) = ValueOf(s)
<1>1. PICK k \in 0..Len(s) : IsTop(s, k)
  BY TopExists
<1> DEFINE t == SubSeq(s, 1, k)
<1>2. Significant(s) = t /\ Len(s) \in Nat /\ k \in Nat
  BY <1>1, SignificantIs
<1>3. Len(t) = k /\ t = [i \in 1..k |-> s[i]]
  BY <1>2
<1>4. t \in Seq(Bit)
  BY <1>2, SignificantTyped
<1>5. \A i \in 1..k : t[i] = s[i]
  BY <1>3
<1> HIDE DEF t
<1>6. PICK h \in [0..Len(s) -> Nat] : IsSum(h, s)
  BY WeightExists
<1>7. h[0] = 0 /\ \A i \in 1..Len(s) : h[i] = h[i - 1] + s[i] * 2^(i - 1)
  BY <1>6 DEF IsSum
<1> DEFINE g == [i \in 0..k |-> h[i]]
<1>8. g \in [0..k -> Nat] /\ \A i \in 0..k : g[i] = h[i]
  BY <1>2
<1> HIDE DEF g
<1>9. IsSum(g, t)
  <2>1. g[0] = 0
    BY <1>2, <1>7, <1>8
  <2>2. ASSUME NEW i \in 1..k PROVE g[i] = g[i - 1] + t[i] * 2^(i - 1)
    <3>1. i \in 0..k /\ i - 1 \in 0..k /\ i \in 1..Len(s)
      BY <1>2
    <3>2. g[i] = h[i] /\ g[i - 1] = h[i - 1] /\ t[i] = s[i] /\ h[i] = h[i - 1] + s[i] * 2^(i - 1)
      BY <1>5, <1>7, <1>8, <3>1
    <3>3. QED BY <3>2
  <2>3. QED
    BY <1>3, <2>1, <2>2 DEF IsSum
<1>10. ValueOf(t) = h[k] /\ ValueOf(s) = h[Len(s)]
  <2>1. ValueOf(t) = g[k]
    BY <1>3, <1>4, <1>8, <1>9, ValueIs
  <2>2. k \in 0..k
    BY <1>2
  <2>3. QED
    BY <2>1, <2>2, <1>6, <1>8, ValueIs
<1> DEFINE S == {d \in Nat : k + d <= Len(s) => h[k + d] = h[k]}
<1>11. 0 \in S
  BY <1>2
<1>12. ASSUME NEW d \in Nat, d \in S PROVE d + 1 \in S
  <2>1. SUFFICES ASSUME k + (d + 1) <= Len(s) PROVE h[k + (d + 1)] = h[k]
    OBVIOUS
  <2>2. /\ k + (d + 1) \in 1..Len(s) /\ (k + (d + 1)) - 1 = k + d /\ k + d <= Len(s)
        /\ k + (d + 1) \in (k + 1)..Len(s) /\ k + d \in 0..Len(s) /\ k + d \in Nat
    BY <1>2, <2>1
  <2>3. h[k + (d + 1)] = h[k + d] + s[k + (d + 1)] * 2^(k + d)
    BY <1>7, <2>2
  <2>4. s[k + (d + 1)] = 0
    BY <1>1, <2>2 DEF IsTop
  <2>5. 2^(k + d) \in Nat /\ h[k + d] \in Nat
    BY <1>6, <2>2, PowerOfTwo
  <2>6. h[k + d] = h[k]
    BY <1>12, <2>2
  <2> DEFINE a == h[k + d]
             v == 2^(k + d)
             z == s[k + (d + 1)]
  <2>7. a \in Nat /\ v \in Nat /\ z = 0 /\ h[k + (d + 1)] = a + z * v
    BY <2>3, <2>4, <2>5
  <2> HIDE DEF a, v, z
  <2>8. h[k + (d + 1)] = a
    BY <2>7
  <2>9. QED
    BY <2>6, <2>8 DEF a
<1> HIDE DEF S
<1>13. Len(s) - k \in S /\ k + (Len(s) - k) = Len(s)
  BY <1>1, <1>2, <1>11, <1>12, Induction
<1>14. h[Len(s)] = h[k]
  BY <1>2, <1>13 DEF S
<1>15. QED
  BY <1>2, <1>10, <1>14

LEMMA JoinAppend ==
  ASSUME NEW A, NEW s \in Seq(A), NEW t \in Seq(A), NEW x \in A
  PROVE  s \o Append(t, x) = Append(s \o t, x)
<1>1. Append(t, x) = t \o <<x>> /\ Append(s \o t, x) = (s \o t) \o <<x>> /\ <<x>> \in Seq(A)
  BY AppendIsConcat
<1>2. (s \o t) \o <<x>> = s \o (t \o <<x>>)
  BY <1>1, ConcatAssociative
<1>3. QED
  BY <1>1, <1>2

LEMMA FlattenJoin ==
  ASSUME NEW T, NEW s \in Seq(Seq(T)), NEW t \in Seq(Seq(T))
  PROVE  /\ FlattenSeq(s) \in Seq(T) /\ FlattenSeq(t) \in Seq(T)
         /\ FlattenSeq(s \o t) = FlattenSeq(s) \o FlattenSeq(t)
<1> DEFINE A == Seq(T)
           n == Len(t)
           u(k) == SubSeq(t, 1, k)
           S == {k \in Nat : k <= n => FlattenSeq(s \o u(k)) = FlattenSeq(s) \o FlattenSeq(u(k))}
<1>0. n \in Nat /\ \A i \in 1..n : t[i] \in Seq(T)
  OBVIOUS
<1>1. FlattenSeq(s) \in Seq(T) /\ FlattenSeq(t) \in Seq(T)
  BY FlattenAppend
<1>2. 0 \in S
  <2>1. u(0) = <<>>
    OBVIOUS
  <2>2. s \o <<>> = s
    OBVIOUS
  <2>3. FlattenSeq(s) \o <<>> = FlattenSeq(s)
    BY <1>1
  <2>4. QED
    BY <2>1, <2>2, <2>3, FlattenEmpty
<1>3. ASSUME NEW k \in Nat, k \in S PROVE k + 1 \in S
  <2>1. SUFFICES ASSUME k + 1 <= n
                 PROVE  FlattenSeq(s \o u(k + 1)) = FlattenSeq(s) \o FlattenSeq(u(k + 1))
    OBVIOUS
  <2>2. t[k + 1] \in Seq(T) /\ k <= n
    BY <1>0, <2>1
  <2>3. s \in Seq(A) /\ t \in Seq(A)
    OBVIOUS
  <2>4. u(k) \in Seq(A) /\ s \o u(k) \in Seq(A) /\ t[k + 1] \in A
    <3> HIDE DEF A
    <3>1. \A i \in 1..k : t[i] \in A
      BY <2>2, <2>3
    <3>2. u(k) = [i \in 1..k |-> t[i]]
      BY <2>2, <2>3
    <3>3. u(k) \in Seq(A)
      BY <3>1, <3>2
    <3> HIDE DEF u
    <3>4. QED
      BY <2>2, <2>3, <3>3, LenJoin DEF A
  <2>5. u(k + 1) = Append(u(k), t[k + 1])
    <3> HIDE DEF A
    <3>1. k + 1 \in 1..Len(t)
      BY <2>1
    <3>2. QED
      BY <2>3, <3>1
  <2> HIDE DEF u
  <2>6. s \o u(k + 1) = Append(s \o u(k), t[k + 1])
    <3> HIDE DEF A
    <3>1. s \o Append(u(k), t[k + 1]) = Append(s \o u(k), t[k + 1])
      BY <2>3, <2>4, JoinAppend
    <3>2. QED
      BY <2>5, <3>1, Zenon
  <2>7. FlattenSeq(s \o u(k + 1)) = FlattenSeq(s \o u(k)) \o t[k + 1]
    BY <2>4, <2>6, FlattenAppend
  <2>8. FlattenSeq(u(k + 1)) = FlattenSeq(u(k)) \o t[k + 1] /\ FlattenSeq(u(k)) \in Seq(T)
    BY <2>4, <2>5, FlattenAppend
  <2>9. FlattenSeq(s \o u(k)) = FlattenSeq(s) \o FlattenSeq(u(k))
    BY <1>3, <2>2
  <2>10. (FlattenSeq(s) \o FlattenSeq(u(k))) \o t[k + 1] = FlattenSeq(s) \o (FlattenSeq(u(k)) \o t[k + 1])
    <3>1. \A x, y, z \in Seq(T) : (x \o y) \o z = x \o (y \o z)
      BY ConcatAssociative
    <3>2. QED
      BY <1>1, <2>2, <2>8, <3>1, Zenon
  <2>11. QED
    BY <2>7, <2>8, <2>9, <2>10, Zenon
<1> HIDE DEF S
<1>4. n \in S
  BY <1>0, <1>2, <1>3, Induction
<1>5. u(n) = t
  OBVIOUS
<1>6. FlattenSeq(s \o u(n)) = FlattenSeq(s) \o FlattenSeq(u(n))
  BY <1>0, <1>4 DEF S
<1> HIDE DEF u, n
<1>7. QED
  BY <1>1, <1>5, <1>6, Zenon

-----------------------------------------------------------------------------
(***************************************************************************)
(* Layouts, and the reader that stands in one.                             *)
(***************************************************************************)
(* What a message is written as: its fields one after another, each of them *)
(* bits and what they say.                                                  *)
Says == Seq(Bit) \cup Seq(Int) \cup Seq(AnyBlock)
Piece == [bits : Seq(Bit), says : Says]
Layout == Seq(Piece)
BitsIn(F) == FlattenSeq([i \in DOMAIN F |-> F[i].bits])
SaysIn(F) == [i \in DOMAIN F |-> F[i].says]
Size(F) == Len(BitsIn(F))

LEMMA LayoutTyped ==
  ASSUME NEW F \in Layout
  PROVE  /\ BitsIn(F) \in Seq(Bit) /\ Size(F) \in Nat
         /\ SaysIn(F) \in Seq(Says) /\ Len(SaysIn(F)) = Len(F)
         /\ \A i \in 1..Len(F) : SaysIn(F)[i] = F[i].says
         /\ [i \in DOMAIN F |-> F[i].bits] \in Seq(Seq(Bit))
<1>1. Len(F) \in Nat /\ DOMAIN F = 1..Len(F) /\ \A i \in 1..Len(F) : F[i] \in Piece
  BY DEF Layout
<1>2. \A i \in 1..Len(F) : F[i].bits \in Seq(Bit) /\ F[i].says \in Says
  BY <1>1 DEF Piece
<1> DEFINE s == [i \in DOMAIN F |-> F[i].bits]
           t == [i \in DOMAIN F |-> F[i].says]
<1>3. s \in [1..Len(F) -> Seq(Bit)]
  BY <1>1, <1>2
<1>4. t \in [1..Len(F) -> Says] /\ \A i \in 1..Len(F) : t[i] = F[i].says
  BY <1>1, <1>2
<1> HIDE DEF s, t
<1>5. s \in Seq(Seq(Bit))
  BY <1>1, <1>3, IsList
<1>6. t \in Seq(Says) /\ Len(t) = Len(F)
  BY <1>1, <1>4, IsList
<1>7. FlattenSeq(s) \in Seq(Bit)
  <2>1. <<>> \in Seq(Bit)
    OBVIOUS
  <2>2. QED
    BY <1>5, <2>1, FlattenAppend
<1>8. BitsIn(F) = FlattenSeq(s) /\ SaysIn(F) = t
  BY DEF BitsIn, SaysIn, s, t
<1>9. Size(F) = Len(FlattenSeq(s))
  BY <1>8 DEF Size
<1>10. Len(FlattenSeq(s)) \in Nat
  BY <1>7
<1>11. QED
  BY <1>4, <1>5, <1>6, <1>7, <1>8, <1>9, <1>10 DEF s

LEMMA LayoutEmpty == <<>> \in Layout /\ BitsIn(<<>>) = <<>> /\ SaysIn(<<>>) = <<>> /\ Size(<<>>) = 0
<1>1. [i \in DOMAIN <<>> |-> <<>>[i].bits] = <<>> /\ [i \in DOMAIN <<>> |-> <<>>[i].says] = <<>>
  OBVIOUS
<1>2. Len(<<>>) = 0 /\ <<>> \in Seq(Piece)
  OBVIOUS
<1>3. BitsIn(<<>>) = <<>>
  BY <1>1, FlattenEmpty DEF BitsIn
<1>4. QED
  BY <1>1, <1>2, <1>3 DEF SaysIn, Size, Layout

(* A layout of one field.                                                   *)
LEMMA LayoutOne ==
  ASSUME NEW x \in Seq(Bit), NEW y \in Says
  PROVE  /\ <<[bits |-> x, says |-> y]>> \in Layout
         /\ BitsIn(<<[bits |-> x, says |-> y]>>) = x
         /\ SaysIn(<<[bits |-> x, says |-> y]>>) = <<y>>
         /\ Size(<<[bits |-> x, says |-> y]>>) = Len(x)
<1> DEFINE f == [bits |-> x, says |-> y]
           F == <<f>>
<1>1. f \in Piece /\ f.bits = x /\ f.says = y
  BY DEF Piece
<1> HIDE DEF f
<1>2. F \in Layout /\ Len(F) = 1 /\ DOMAIN F = 1..1 /\ F[1] = f
  BY <1>1 DEF Layout
<1>3. [i \in DOMAIN F |-> F[i].bits] = <<x>>
  <2>1. \A i \in 1..1 : F[i].bits = x
    BY <1>1, <1>2
  <2>2. QED
    BY <1>2, <2>1
<1>4. [i \in DOMAIN F |-> F[i].says] = <<y>>
  <2>1. \A i \in 1..1 : F[i].says = y
    BY <1>1, <1>2
  <2>2. QED
    BY <1>2, <2>1
<1> HIDE DEF F
<1>5. FlattenSeq(<<x>>) = x
  <2>1. <<>> \in Seq(Seq(Bit)) /\ <<x>> = Append(<<>>, x) /\ <<>> \o x = x
    OBVIOUS
  <2>2. FlattenSeq(Append(<<>>, x)) = FlattenSeq(<<>>) \o x
    BY <2>1, FlattenAppend
  <2>3. QED
    BY <2>1, <2>2, FlattenEmpty, Zenon
<1>6. BitsIn(F) = x /\ SaysIn(F) = <<y>>
  BY <1>3, <1>4, <1>5 DEF BitsIn, SaysIn
<1>7. QED
  BY <1>2, <1>6 DEF Size, F, f

LEMMA LayoutJoin ==
  ASSUME NEW F \in Layout, NEW G \in Layout
  PROVE  /\ F \o G \in Layout
         /\ BitsIn(F \o G) = BitsIn(F) \o BitsIn(G)
         /\ SaysIn(F \o G) = SaysIn(F) \o SaysIn(G)
         /\ Size(F \o G) = Size(F) + Size(G)
<1> DEFINE H == F \o G
           sF == [i \in DOMAIN F |-> F[i].bits]
           sG == [i \in DOMAIN G |-> G[i].bits]
           sH == [i \in DOMAIN H |-> H[i].bits]
<1>1. H \in Layout /\ Len(H) = Len(F) + Len(G) /\ Len(F) \in Nat /\ Len(G) \in Nat
  BY LenJoin DEF Layout
<1>2. (\A i \in 1..Len(F) : H[i] = F[i]) /\ \A i \in 1..Len(G) : H[Len(F) + i] = G[i]
  BY JoinAt DEF Layout, Joined
<1>3. DOMAIN F = 1..Len(F) /\ DOMAIN G = 1..Len(G) /\ DOMAIN H = 1..Len(H)
  BY <1>1 DEF Layout
<1>4. sF \in Seq(Seq(Bit)) /\ sG \in Seq(Seq(Bit)) /\ sH \in Seq(Seq(Bit))
  BY <1>1, LayoutTyped
<1> HIDE DEF H
<1>5. Len(sF) = Len(F) /\ Len(sG) = Len(G) /\ Len(sH) = Len(H)
  BY <1>1, <1>3
<1>6. /\ \A i \in 1..Len(F) : sF[i] = F[i].bits
      /\ \A i \in 1..Len(G) : sG[i] = G[i].bits
      /\ \A i \in 1..Len(H) : sH[i] = H[i].bits
  BY <1>3
<1> HIDE DEF sF, sG, sH
<1>7. sH = sF \o sG
  <2>1. sF \o sG \in Seq(Seq(Bit)) /\ Len(sF \o sG) = Len(H)
    <3> DEFINE A == Seq(Bit)
    <3>1. sF \in Seq(A) /\ sG \in Seq(A)
      BY <1>4
    <3> HIDE DEF A
    <3>2. sF \o sG \in Seq(A) /\ Len(sF \o sG) = Len(sF) + Len(sG)
      BY <3>1, LenJoin
    <3>3. QED
      BY <1>1, <1>5, <3>2 DEF A
  <2>2. Joined(sF \o sG, sF, sG)
    BY <1>4, JoinAt
  <2>3. ASSUME NEW i \in 1..Len(H) PROVE sH[i] = (sF \o sG)[i]
    <3>1. CASE i \in 1..Len(F)
      BY <1>2, <1>5, <1>6, <2>2, <3>1 DEF Joined
    <3>2. CASE ~(i \in 1..Len(F))
      <4>1. PICK j \in 1..Len(G) : i = Len(F) + j
        <5>1. i - Len(F) \in 1..Len(G) /\ i = Len(F) + (i - Len(F))
          BY <1>1, <3>2
        <5>2. QED BY <5>1
      <4>2. H[i] = G[j] /\ (sF \o sG)[i] = sG[j]
        BY <1>2, <1>5, <2>2, <4>1 DEF Joined
      <4>3. QED
        BY <1>6, <4>2
    <3>3. QED BY <3>1, <3>2
  <2>4. QED
    BY <1>4, <1>5, <2>1, <2>3, SeqEqual
<1>8. BitsIn(H) = BitsIn(F) \o BitsIn(G)
  <2>1. FlattenSeq(sF \o sG) = FlattenSeq(sF) \o FlattenSeq(sG)
    BY <1>4, FlattenJoin
  <2>2. BitsIn(F) = FlattenSeq(sF) /\ BitsIn(G) = FlattenSeq(sG) /\ BitsIn(H) = FlattenSeq(sH)
    BY DEF BitsIn, sF, sG, sH
  <2>3. QED
    BY <1>7, <2>1, <2>2, Zenon
<1>9. SaysIn(H) = SaysIn(F) \o SaysIn(G)
  <2> DEFINE a == SaysIn(F)
             b == SaysIn(G)
             c == SaysIn(H)
  <2>1. /\ a \in Seq(Says) /\ Len(a) = Len(F) /\ \A i \in 1..Len(F) : a[i] = F[i].says
        /\ b \in Seq(Says) /\ Len(b) = Len(G) /\ \A i \in 1..Len(G) : b[i] = G[i].says
        /\ c \in Seq(Says) /\ Len(c) = Len(H) /\ \A i \in 1..Len(H) : c[i] = H[i].says
    BY <1>1, LayoutTyped
  <2> HIDE DEF a, b, c
  <2>2. a \o b \in Seq(Says) /\ Len(a \o b) = Len(H)
    BY <1>1, <2>1, LenJoin
  <2>3. Joined(a \o b, a, b)
    BY <2>1, JoinAt
  <2>4. ASSUME NEW i \in 1..Len(H) PROVE c[i] = (a \o b)[i]
    <3>1. CASE i \in 1..Len(F)
      BY <1>2, <2>1, <2>3, <3>1 DEF Joined
    <3>2. CASE ~(i \in 1..Len(F))
      <4>1. PICK j \in 1..Len(G) : i = Len(F) + j
        <5>1. i - Len(F) \in 1..Len(G) /\ i = Len(F) + (i - Len(F))
          BY <1>1, <3>2
        <5>2. QED BY <5>1
      <4>2. H[i] = G[j] /\ (a \o b)[i] = b[j]
        BY <1>2, <2>1, <2>3, <4>1 DEF Joined
      <4>3. QED
        BY <2>1, <4>2
    <3>3. QED BY <3>1, <3>2
  <2>5. c = a \o b
    BY <2>1, <2>2, <2>4, SeqEqual
  <2>6. QED
    BY <2>5 DEF a, b, c
<1>10. Size(H) = Size(F) + Size(G)
  <2>1. BitsIn(F) \in Seq(Bit) /\ BitsIn(G) \in Seq(Bit)
    BY LayoutTyped
  <2>2. Len(BitsIn(F) \o BitsIn(G)) = Len(BitsIn(F)) + Len(BitsIn(G))
    BY <2>1, LenJoin
  <2>3. QED
    BY <1>8, <2>2, Zenon DEF Size
<1>11. QED
  BY <1>1, <1>8, <1>9, <1>10 DEF H

(* The fields of F stand in b from position p on; s is the reader r after   *)
(* it has read them. A whole reader has a registry of names too.            *)
Lies(b, p, F) == b \in Seq(Bit) /\ p \in Nat /\ F \in Layout /\ Stands(b, p, BitsIn(F))

WholeReader == [at : Nat, got : Seq(Says), names : Registry(Material)]
Reader == [at : Nat, got : Seq(Says)] \cup WholeReader

ReadsTo(r, F, s) ==
  /\ r \in Reader /\ s \in Reader /\ (r \in WholeReader => s \in WholeReader)
  /\ s.at = r.at + Size(F) /\ s.got = r.got \o SaysIn(F)

LEMMA JoinSize == \A F, G \in Layout : Size(F \o G) = Size(F) + Size(G)
  BY LayoutJoin

LEMMA LiesJoin ==
  ASSUME NEW b, NEW p, NEW F \in Layout, NEW G \in Layout, Lies(b, p, F \o G)
  PROVE  Lies(b, p, F) /\ Lies(b, p + Size(F), G)
<1>1. b \in Seq(Bit) /\ p \in Nat /\ Stands(b, p, BitsIn(F) \o BitsIn(G))
  BY LayoutJoin DEF Lies
<1>2. BitsIn(F) \in Seq(Bit) /\ BitsIn(G) \in Seq(Bit) /\ Size(F) \in Nat /\ Size(F) = Len(BitsIn(F))
  BY LayoutTyped DEF Size
<1>3. Stands(b, p, BitsIn(F)) /\ Stands(b, p + Len(BitsIn(F)), BitsIn(G))
  BY <1>1, <1>2, StandsJoin
<1>4. p + Size(F) \in Nat
  BY <1>1, <1>2
<1>5. QED
  BY <1>1, <1>2, <1>3, <1>4 DEF Lies

LEMMA LiesFits ==
  ASSUME NEW b, NEW p, NEW F, Lies(b, p, F)
  PROVE  p + Size(F) <= Len(b) /\ p + Size(F) \in Nat /\ Len(b) \in Nat /\ p \in Nat /\ Size(F) \in Nat
<1>1. Size(F) \in Nat
  BY LayoutTyped DEF Lies
<1>2. QED
  BY <1>1 DEF Lies, Stands, Size

LEMMA ReaderIs ==
  ASSUME NEW r \in Reader
  PROVE  r.at \in Nat /\ r.got \in Seq(Says) /\ (r \in WholeReader => r.names \in Registry(Material))
  BY DEF Reader, WholeReader

LEMMA ReadsJoin ==
  ASSUME NEW F \in Layout, NEW G \in Layout, NEW r, NEW s, NEW t, ReadsTo(r, F, s), ReadsTo(s, G, t)
  PROVE  ReadsTo(r, F \o G, t)
<1>1. /\ r \in Reader /\ t \in Reader /\ (r \in WholeReader => t \in WholeReader)
      /\ s.at = r.at + Size(F) /\ s.got = r.got \o SaysIn(F)
      /\ t.at = s.at + Size(G) /\ t.got = s.got \o SaysIn(G)
  BY DEF ReadsTo
<1>2. r.at \in Nat /\ r.got \in Seq(Says)
  BY <1>1, ReaderIs
<1>3. Size(F) \in Nat /\ Size(G) \in Nat /\ SaysIn(F) \in Seq(Says) /\ SaysIn(G) \in Seq(Says)
  BY LayoutTyped
<1>4. Size(F \o G) = Size(F) + Size(G) /\ SaysIn(F \o G) = SaysIn(F) \o SaysIn(G)
  BY LayoutJoin
<1>5. t.at = r.at + Size(F \o G)
  BY <1>1, <1>2, <1>3, <1>4
<1>6. (r.got \o SaysIn(F)) \o SaysIn(G) = r.got \o (SaysIn(F) \o SaysIn(G))
  <2>1. \A x, y, z \in Seq(Says) : (x \o y) \o z = x \o (y \o z)
    BY ConcatAssociative
  <2>2. QED
    BY <1>2, <1>3, <2>1, Zenon
<1>7. t.got = r.got \o SaysIn(F \o G)
  BY <1>1, <1>4, <1>6, Zenon
<1>8. QED
  BY <1>1, <1>5, <1>7 DEF ReadsTo

LEMMA OneReads ==
  ASSUME NEW p \in Nat
  PROVE  One(p) \in Reader /\ One(p).at = p /\ One(p).got = <<>>
<1>1. <<>> \in Seq(Says)
  OBVIOUS
<1>2. QED
  BY <1>1 DEF One, Reader

(* The reader r after F.                                                    *)
After(r, F) == [r EXCEPT !.at = @ + Size(F), !.got = @ \o SaysIn(F)]

LEMMA AfterIs ==
  ASSUME NEW r \in Reader, NEW F \in Layout
  PROVE  ReadsTo(r, F, After(r, F))
<1>1. r.at \in Nat /\ r.got \in Seq(Says)
  BY ReaderIs
<1>2. Size(F) \in Nat /\ SaysIn(F) \in Seq(Says)
  BY LayoutTyped
<1> DEFINE a == r.at + Size(F)
           g == r.got \o SaysIn(F)
<1>3. a \in Nat /\ g \in Seq(Says)
  <2>1. a \in Nat
    BY <1>1, <1>2
  <2>2. g \in Seq(Says)
    BY <1>1, <1>2, LenJoin
  <2>3. QED BY <2>1, <2>2
<1>4. After(r, F) = [r EXCEPT !.at = a, !.got = g]
  BY DEF After
<1> HIDE DEF a, g
<1> DEFINE s == [r EXCEPT !.at = a, !.got = g]
<1>5. s.at = a /\ s.got = g /\ s \in Reader /\ (r \in WholeReader => s \in WholeReader)
  <2>1. CASE r \in WholeReader
    <3>1. s \in WholeReader /\ s.at = a /\ s.got = g
      BY <1>3, <2>1 DEF WholeReader
    <3>2. QED BY <3>1 DEF Reader
  <2>2. CASE r \notin WholeReader
    <3>1. r \in [at : Nat, got : Seq(Says)]
      BY <2>2 DEF Reader
    <3>2. s \in [at : Nat, got : Seq(Says)] /\ s.at = a /\ s.got = g
      BY <1>3, <3>1
    <3>3. QED BY <2>2, <3>2 DEF Reader
  <2>3. QED BY <2>1, <2>2
<1>6. QED
  BY <1>4, <1>5 DEF ReadsTo, a, g

(* Reading one field, which says its bits without leading zeros.            *)
LEMMA GetReads ==
  ASSUME NEW b \in Seq(Bit), NEW r \in Reader, NEW x \in Seq(Bit), NEW y, y = Significant(x),
         Stands(b, r.at, x), NEW w, w = Len(x)
  PROVE  /\ ReadsTo(r, <<[bits |-> x, says |-> y]>>, Get(b, r, w))
         /\ Got(Get(b, r, w)) = ValueOf(x)
<1> DEFINE F == <<[bits |-> x, says |-> y]>>
<1>1. y \in Seq(Bit) /\ y \in Says
  BY SignificantTyped DEF Says
<1>2. F \in Layout /\ Size(F) = w /\ SaysIn(F) = <<y>>
  BY <1>1, LayoutOne
<1> HIDE DEF F
<1>3. r.at \in Nat /\ r.got \in Seq(Says)
  BY ReaderIs
<1>4. Slice(b, r.at, w) = x
  BY <1>3, SliceOf
<1>5. Append(r.got, y) = r.got \o <<y>>
  BY <1>1, <1>3, AppendIsConcat
<1>6. Get(b, r, w) = [r EXCEPT !.at = r.at + w, !.got = Append(r.got, Significant(Slice(b, r.at, w)))]
  BY DEF Get
<1>7. Get(b, r, w) = [r EXCEPT !.at = r.at + Size(F), !.got = r.got \o SaysIn(F)]
  BY <1>2, <1>4, <1>5, <1>6, Zenon
<1>8. Get(b, r, w) = After(r, F)
  BY <1>7 DEF After
<1>9. ReadsTo(r, F, Get(b, r, w))
  BY <1>2, <1>8, AfterIs
<1>10. Get(b, r, w).got = r.got \o <<y>>
  BY <1>2, <1>9 DEF ReadsTo
<1>11. Last(Get(b, r, w).got) = y
  <2>1. Len(r.got \o <<y>>) = Len(r.got) + 1 /\ (r.got \o <<y>>)[Len(r.got) + 1] = y
    BY <1>1, <1>3
  <2>2. QED
    BY <1>10, <2>1 DEF Last
<1>12. ValueOf(y) = ValueOf(x)
  BY ValueSignificant
<1>13. QED
  BY <1>9, <1>11, <1>12 DEF F, Got

(* Passing over a layout.                                                   *)
LEMMA PassedOver ==
  ASSUME NEW b, NEW p, NEW F, Lies(b, p, F)
  PROVE  /\ Skip(b, p, Size(F)) = p + Size(F)
         /\ Before(b, p + Size(F), Size(F)) = ValueOf(BitsIn(F))
         /\ p # Short /\ p + Size(F) # Short
<1>1. p + Size(F) <= Len(b) /\ p + Size(F) \in Nat /\ Len(b) \in Nat /\ p \in Nat /\ Size(F) \in Nat
  BY LiesFits
<1>2. p # Short /\ p + Size(F) # Short
  BY <1>1 DEF Short
<1>3. Skip(b, p, Size(F)) = p + Size(F)
  BY <1>1, <1>2 DEF Skip
<1>4. BitsIn(F) \in Seq(Bit) /\ b \in Seq(Bit) /\ Stands(b, p, BitsIn(F))
  BY LayoutTyped DEF Lies
<1>5. Slice(b, p, Size(F)) = BitsIn(F)
  BY <1>1, <1>4, SliceOf DEF Size
<1>6. (p + Size(F)) - Size(F) = p
  BY <1>1
<1>7. QED
  BY <1>2, <1>3, <1>5, <1>6 DEF Before

LEMMA NumTyped ==
  ASSUME NEW n \in Nat, NEW w \in Nat
  PROVE  Num(n, w) \in Layout /\ Size(Num(n, w)) = w /\ BitsIn(Num(n, w)) = BitsOf(n, w)
<1> DEFINE x == BitsOf(n, w)
           y == Significant(BitsOf(n, 30))
<1>1. x \in Seq(Bit) /\ Len(x) = w
  BY BitsTyped
<1>2. y \in Seq(Bit) /\ y \in Says
  <2>1. BitsOf(n, 30) \in Seq(Bit)
    BY BitsTyped
  <2>2. QED BY <2>1, SignificantTyped DEF Says
<1>3. Num(n, w) = <<[bits |-> x, says |-> y]>>
  BY DEF Num
<1> HIDE DEF x, y
<1>4. QED
  BY <1>1, <1>2, <1>3, LayoutOne DEF x

LEMMA NumReads ==
  ASSUME NEW n \in Nat, NEW w \in Nat, n < 2^w, n < 2^30, NEW b, NEW r \in Reader, Lies(b, r.at, Num(n, w))
  PROVE  ReadsTo(r, Num(n, w), Get(b, r, w)) /\ Got(Get(b, r, w)) = n
<1> DEFINE x == BitsOf(n, w)
           y == Significant(BitsOf(n, 30))
<1>1. x \in Seq(Bit) /\ Len(x) = w
  BY BitsTyped
<1>2. y = Significant(x)
  BY NumSame
<1>3. Num(n, w) = <<[bits |-> x, says |-> y]>>
  BY DEF Num
<1>4. b \in Seq(Bit) /\ Stands(b, r.at, x)
  BY NumTyped DEF Lies
<1>5. ValueOf(x) = n
  BY ValueOfBits
<1> HIDE DEF x, y
<1>6. QED
  BY <1>1, <1>2, <1>3, <1>4, <1>5, GetReads

LEMMA NumPassed ==
  ASSUME NEW n \in Nat, NEW w \in Nat, n < 2^w, NEW b, NEW p, Lies(b, p, Num(n, w))
  PROVE  /\ Skip(b, p, w) = p + Size(Num(n, w)) /\ p \in Nat /\ p + w \in Nat
         /\ Skip(b, p, w) = p + w /\ Before(b, p + w, w) = n /\ p + w # Short
<1>1. Size(Num(n, w)) = w /\ BitsIn(Num(n, w)) = BitsOf(n, w)
  BY NumTyped
<1>2. ValueOf(BitsOf(n, w)) = n
  BY ValueOfBits
<1>3. p \in Nat /\ p + w \in Nat
  BY <1>1, LiesFits
<1>4. QED
  BY <1>1, <1>2, <1>3, PassedOver

LEMMA WideTyped ==
  ASSUME NEW w \in Nat, NEW v \in Number(w)
  PROVE  Wide(v, w) \in Layout /\ Size(Wide(v, w)) = w
<1> DEFINE x == Fit(v, w)
           y == Significant(v)
<1>1. v \in Seq(Bit) /\ Len(y) <= w
  BY DEF Number, Bit
<1>2. x \in Seq(Bit) /\ Len(x) = w /\ y \in Says
  BY <1>1, FitSame, SignificantTyped DEF Says
<1>3. Wide(v, w) = <<[bits |-> x, says |-> y]>>
  BY DEF Wide
<1> HIDE DEF x, y
<1>4. QED
  BY <1>2, <1>3, LayoutOne

LEMMA WideReads ==
  ASSUME NEW w \in Nat, NEW v \in Number(w), NEW b, NEW r \in Reader, Lies(b, r.at, Wide(v, w))
  PROVE  ReadsTo(r, Wide(v, w), Get(b, r, w))
<1> DEFINE x == Fit(v, w)
           y == Significant(v)
<1>1. v \in Seq(Bit) /\ Len(y) <= w
  BY DEF Number, Bit
<1>2. x \in Seq(Bit) /\ Len(x) = w /\ y = Significant(x) /\ y \in Says
  BY <1>1, FitSame, SignificantTyped DEF Says
<1>3. Wide(v, w) = <<[bits |-> x, says |-> y]>>
  BY DEF Wide
<1> HIDE DEF x, y
<1>4. BitsIn(Wide(v, w)) = x
  BY <1>2, <1>3, LayoutOne
<1>5. b \in Seq(Bit) /\ Stands(b, r.at, x)
  BY <1>4 DEF Lies
<1>6. QED
  BY <1>2, <1>3, <1>5, GetReads

LEMMA WidePassed ==
  ASSUME NEW w \in Nat, NEW v \in Number(w), NEW b, NEW p, Lies(b, p, Wide(v, w))
  PROVE  Skip(b, p, w) = p + Size(Wide(v, w)) /\ p + Size(Wide(v, w)) = p + w
<1>1. Size(Wide(v, w)) = w
  BY WideTyped
<1>2. QED
  BY <1>1, PassedOver

(* The layouts of a list, one after another.                                *)
LEMMA ListChain ==
  ASSUME NEW Fs \in Seq(Layout)
  PROVE  /\ FlattenSeq(Fs) \in Layout
         /\ \E h \in [0..Len(Fs) -> Layout] : IsChain(h, Fs) /\ FlattenSeq(Fs) = h[Len(Fs)]
<1>1. Fs \in Seq(Seq(Piece))
  BY DEF Layout
<1>2. PICK h \in [0..Len(Fs) -> Seq(Piece)] : IsChain(h, Fs)
  BY <1>1, ChainExists
<1>3. FlattenSeq(Fs) = h[Len(Fs)]
  BY <1>1, <1>2, FlattenIs
<1>4. Len(Fs) \in 0..Len(Fs)
  OBVIOUS
<1>5. h[Len(Fs)] \in Seq(Piece)
  BY <1>4
<1>6. h \in [0..Len(Fs) -> Layout] /\ FlattenSeq(Fs) \in Layout
  BY <1>3, <1>5 DEF Layout
<1>7. \E g \in [0..Len(Fs) -> Layout] : IsChain(g, Fs) /\ FlattenSeq(Fs) = g[Len(Fs)]
  <2>1. IsChain(h, Fs) /\ FlattenSeq(Fs) = h[Len(Fs)] /\ h \in [0..Len(Fs) -> Layout]
    BY <1>2, <1>3, <1>6
  <2>2. QED
    BY <2>1, Zenon
<1>8. QED
  BY <1>6, <1>7

LEMMA ListLies ==
  ASSUME NEW Fs \in Seq(Layout), NEW h \in [0..Len(Fs) -> Layout], IsChain(h, Fs),
         NEW b, NEW p, Lies(b, p, h[Len(Fs)])
  PROVE  \A i \in 1..Len(Fs) : Lies(b, p + Size(h[i - 1]), Fs[i])
<1> DEFINE n == Len(Fs)
           S == {d \in Nat : d <= n => Lies(b, p, h[n - d])}
<1>1. n \in Nat /\ \A i \in 1..n : Fs[i] \in Layout
  OBVIOUS
<1>2. ASSUME NEW i \in 1..n, Lies(b, p, h[i])
      PROVE  Lies(b, p, h[i - 1]) /\ Lies(b, p + Size(h[i - 1]), Fs[i])
  <2>1. i - 1 \in 0..n /\ h[i - 1] \in Layout
    BY <1>1
  <2>2. h[i] = h[i - 1] \o Fs[i] /\ Fs[i] \in Layout
    BY <1>1 DEF IsChain
  <2>3. Lies(b, p, h[i - 1] \o Fs[i])
    BY <1>2, <2>2
  <2>4. QED
    BY <2>1, <2>2, <2>3, LiesJoin
<1> HIDE DEF n
<1>3. 0 \in S
  <2>1. n - 0 = n
    BY <1>1
  <2>2. QED
    BY <2>1 DEF n
<1>4. ASSUME NEW d \in Nat, d \in S PROVE d + 1 \in S
  <2>1. SUFFICES ASSUME d + 1 <= n PROVE Lies(b, p, h[n - (d + 1)])
    OBVIOUS
  <2>2. d <= n /\ n - d \in 1..n /\ (n - d) - 1 = n - (d + 1)
    BY <1>1, <2>1
  <2>3. Lies(b, p, h[n - d])
    BY <1>4, <2>2
  <2>4. Lies(b, p, h[(n - d) - 1])
    BY <1>2, <2>2, <2>3
  <2>5. QED
    BY <2>2, <2>4
<1> HIDE DEF S
<1>5. \A d \in Nat : d \in S
  BY <1>3, <1>4, Induction
<1>6. ASSUME NEW i \in 1..n PROVE Lies(b, p + Size(h[i - 1]), Fs[i])
  <2>1. n - i \in Nat /\ n - i <= n /\ n - (n - i) = i
    BY <1>1
  <2>2. n - i \in S
    BY <1>5, <2>1
  <2>3. Lies(b, p, h[i])
    BY <2>1, <2>2 DEF S
  <2>4. QED
    BY <1>2, <2>3
<1>7. QED
  BY <1>6 DEF n

(* f reads, and passes over, whichever of the layouts begins at a position. *)
ReadBy(b, f, Fs) == \A i \in 1..Len(Fs), p \in Nat : Lies(b, p, Fs[i]) => ReadsTo(One(p), Fs[i], f[p])
PassedBy(b, f, Fs) == \A i \in 1..Len(Fs), p \in Nat : Lies(b, p, Fs[i]) => f[p] = p + Size(Fs[i])

IsSeveral(h, n, f, r) ==
  /\ h[0] = r
  /\ \A i \in 1..n : h[i] = [h[i - 1] EXCEPT !.at = f[h[i - 1].at].at,
                                             !.got = h[i - 1].got \o f[h[i - 1].at].got]

LEMMA SeveralIs ==
  ASSUME NEW T, NEW f, NEW n \in Nat, NEW r, NEW h \in [0..n -> T], IsSeveral(h, n, f, r)
  PROVE  Several(n, f, r) = h[n]
<1> DEFINE next(q) == [q EXCEPT !.at = f[q.at].at, !.got = q.got \o f[q.at].got]
           after[i \in 0..n] ==
             IF i = 0 THEN r
             ELSE LET q == after[i - 1]
                      x == f[q.at]
                  IN  [q EXCEPT !.at = x.at, !.got = @ \o x.got]
<1>1. Several(n, f, r) = after[n]
  BY DEF Several
<1>n. \A i \in 1..n : h[i] = next(h[i - 1])
  BY Zenon DEF IsSeveral
<1>2. after = [i \in 0..n |-> IF i = 0 THEN r ELSE next(after[i - 1])]
  <2>1. h = [i \in 0..n |-> IF i = 0 THEN r ELSE next(h[i - 1])]
    <3> HIDE DEF next
    <3>1. ASSUME NEW i \in 0..n PROVE h[i] = IF i = 0 THEN r ELSE next(h[i - 1])
      <4>1. CASE i = 0
        BY <4>1 DEF IsSeveral
      <4>2. CASE i # 0
        <5>1. i \in 1..n
          BY <4>2
        <5>2. QED
          BY <4>2, <5>1, <1>n
      <4>3. QED BY <4>1, <4>2
    <3>2. QED
      BY <3>1
  <2>2. QED
    BY <2>1, Zenon
<1> HIDE DEF after, next
<1>3. \A i \in 0..n : after[i] = IF i = 0 THEN r ELSE next(after[i - 1])
  <2> DEFINE g == [i \in 0..n |-> IF i = 0 THEN r ELSE next(after[i - 1])]
  <2>1. \A i \in 0..n : g[i] = IF i = 0 THEN r ELSE next(after[i - 1])
    OBVIOUS
  <2>2. after = g
    BY <1>2
  <2> HIDE DEF g
  <2>3. QED
    BY <2>1, <2>2
<1> DEFINE S == {k \in Nat : k <= n => after[k] = h[k]}
<1>4. 0 \in S
  <2>1. 0 \in 0..n
    OBVIOUS
  <2>2. after[0] = r
    BY <1>3, <2>1
  <2>3. QED
    BY <2>2 DEF IsSeveral
<1>5. ASSUME NEW k \in Nat, k \in S PROVE k + 1 \in S
  <2>1. SUFFICES ASSUME k + 1 <= n PROVE after[k + 1] = h[k + 1]
    OBVIOUS
  <2>2. k + 1 \in 0..n /\ k + 1 \in 1..n /\ k + 1 # 0 /\ (k + 1) - 1 = k /\ k <= n
    BY <2>1
  <2>3. after[k + 1] = next(after[k])
    BY <1>3, <2>2
  <2>4. h[k + 1] = next(h[k])
    BY <1>n, <2>2
  <2>5. after[k] = h[k]
    BY <1>5, <2>2
  <2>6. QED
    BY <2>3, <2>4, <2>5
<1> HIDE DEF S
<1>6. n \in S
  BY <1>4, <1>5, Induction
<1>7. QED
  BY <1>1, <1>6 DEF S

(* A list is read by reading its items.                                     *)
LEMMA SeveralReads ==
  ASSUME NEW Fs \in Seq(Layout), NEW b, NEW r \in Reader, Lies(b, r.at, FlattenSeq(Fs)),
         NEW f, ReadBy(b, f, Fs)
  PROVE  ReadsTo(r, FlattenSeq(Fs), Several(Len(Fs), f, r))
<1> DEFINE n == Len(Fs)
<1>1. PICK h \in [0..Len(Fs) -> Layout] : IsChain(h, Fs) /\ FlattenSeq(Fs) = h[Len(Fs)]
  BY ListChain
<1>2. \A i \in 1..Len(Fs) : Lies(b, r.at + Size(h[i - 1]), Fs[i])
  <2>1. Lies(b, r.at, h[Len(Fs)])
    BY <1>1
  <2>2. QED
    BY <1>1, <2>1, ListLies
<1>3. n \in Nat /\ \A i \in 1..n : Fs[i] \in Layout
  OBVIOUS
<1>4. h \in [0..n -> Layout] /\ h[0] = <<>> /\ \A i \in 1..n : h[i] = h[i - 1] \o Fs[i]
  BY <1>1 DEF IsChain
<1>5. r.at \in Nat /\ r.got \in Seq(Says)
  BY ReaderIs
<1>a. \A i \in 1..n : Lies(b, r.at + Size(h[i - 1]), Fs[i])
  BY <1>2
<1>b. \A i \in 1..n, p \in Nat : Lies(b, p, Fs[i]) => ReadsTo(One(p), Fs[i], f[p])
  BY DEF ReadBy
<1> DEFINE g == [i \in 0..n |-> After(r, h[i])]
<1>6. ASSUME NEW i \in 0..n PROVE g[i] = After(r, h[i]) /\ ReadsTo(r, h[i], g[i]) /\ g[i] \in Reader
  <2>1. h[i] \in Layout
    BY <1>4
  <2>2. ReadsTo(r, h[i], After(r, h[i]))
    BY <2>1, AfterIs
  <2>3. QED
    BY <2>2 DEF ReadsTo
<1>7. g \in [0..n -> Reader]
  <2>1. g = [i \in 0..n |-> g[i]]
    OBVIOUS
  <2> HIDE DEF g
  <2>2. QED
    BY <1>6, <2>1
<1> HIDE DEF g, n
<1>8. g[0] = r
  <2>1. 0 \in 0..n
    BY <1>3
  <2>2. g[0] = [r EXCEPT !.at = r.at + 0, !.got = r.got \o <<>>]
    BY <1>4, <1>6, <2>1, LayoutEmpty DEF After
  <2>3. r.at + 0 = r.at /\ r.got \o <<>> = r.got
    BY <1>5, ConcatEmptySeq
  <2>4. g[0] = [r EXCEPT !.at = r.at, !.got = r.got]
    BY <2>2, <2>3, Zenon
  <2>5. [r EXCEPT !.at = r.at, !.got = r.got] = r
    BY DEF Reader, WholeReader
  <2>6. QED
    BY <2>4, <2>5
<1>9. ASSUME NEW i \in 1..n
      PROVE  g[i] = [g[i - 1] EXCEPT !.at = f[g[i - 1].at].at,
                                     !.got = g[i - 1].got \o f[g[i - 1].at].got]
  <2>1. i \in 0..n /\ i - 1 \in 0..n
    BY <1>3
  <2> DEFINE H == h[i - 1]
             F == Fs[i]
             q == g[i - 1]
             a == r.at + Size(H)
  <2>2. H \in Layout /\ F \in Layout /\ h[i] = H \o F
    BY <1>3, <1>4, <2>1
  <2>3. q = After(r, H) /\ ReadsTo(r, H, q) /\ g[i] = After(r, H \o F)
    BY <1>6, <2>1, <2>2
  <2>4. Lies(b, a, F)
    BY <1>a
  <2>p. \A p \in Nat : Lies(b, p, F) => ReadsTo(One(p), F, f[p])
    BY <1>b
  <2> HIDE DEF H, F, q
  <2>5. a \in Nat /\ q.at = a /\ q.got = r.got \o SaysIn(H)
    <3>1. Size(H) \in Nat
      BY <2>2, LayoutTyped
    <3>2. q.at = r.at + Size(H) /\ q.got = r.got \o SaysIn(H)
      BY <2>3 DEF ReadsTo
    <3>3. QED
      BY <1>5, <3>1, <3>2
  <2>6. ReadsTo(One(a), F, f[a])
    BY <2>4, <2>5, <2>p
  <2>7. f[a].at = a + Size(F) /\ f[a].got = SaysIn(F)
    <3>1. One(a).at = a /\ One(a).got = <<>> /\ SaysIn(F) \in Seq(Says)
      BY <2>2, <2>5, OneReads, LayoutTyped
    <3>2. f[a].at = a + Size(F) /\ f[a].got = <<>> \o SaysIn(F)
      BY <2>6, <3>1 DEF ReadsTo
    <3>3. <<>> \o SaysIn(F) = SaysIn(F)
      BY <3>1, ConcatEmptySeq
    <3>4. QED BY <3>2, <3>3
  <2> DEFINE t == [q EXCEPT !.at = f[q.at].at, !.got = q.got \o f[q.at].got]
  <2>8. t = [q EXCEPT !.at = a + Size(F), !.got = (r.got \o SaysIn(H)) \o SaysIn(F)]
    BY <2>5, <2>7, Zenon
  <2>9. a + Size(F) = r.at + Size(H \o F) /\ (r.got \o SaysIn(H)) \o SaysIn(F) = r.got \o SaysIn(H \o F)
    <3>1. Size(H) \in Nat /\ Size(F) \in Nat /\ SaysIn(H) \in Seq(Says) /\ SaysIn(F) \in Seq(Says)
      BY <2>2, LayoutTyped
    <3>2. Size(H \o F) = Size(H) + Size(F) /\ SaysIn(H \o F) = SaysIn(H) \o SaysIn(F)
      BY <2>2, LayoutJoin
    <3>3. \A x, y, z \in Seq(Says) : (x \o y) \o z = x \o (y \o z)
      BY ConcatAssociative
    <3>4. (r.got \o SaysIn(H)) \o SaysIn(F) = r.got \o (SaysIn(H) \o SaysIn(F))
      BY <1>5, <3>1, <3>3, Zenon
    <3>5. QED
      BY <1>5, <3>1, <3>2, <3>4
  <2>10. t = [q EXCEPT !.at = r.at + Size(H \o F), !.got = r.got \o SaysIn(H \o F)]
    BY <2>8, <2>9, Zenon
  <2>11. [After(r, H) EXCEPT !.at = r.at + Size(H \o F), !.got = r.got \o SaysIn(H \o F)]
           = After(r, H \o F)
    <3> DEFINE x == r.at + Size(H \o F)
               y == r.got \o SaysIn(H \o F)
               x0 == r.at + Size(H)
               y0 == r.got \o SaysIn(H)
    <3>1. After(r, H) = [r EXCEPT !.at = x0, !.got = y0] /\ After(r, H \o F) = [r EXCEPT !.at = x, !.got = y]
      BY DEF After
    <3> HIDE DEF x, y, x0, y0
    <3>2. [[r EXCEPT !.at = x0, !.got = y0] EXCEPT !.at = x, !.got = y] = [r EXCEPT !.at = x, !.got = y]
      BY DEF Reader, WholeReader
    <3>3. QED
      BY <3>1, <3>2 DEF x, y
  <2>12. t = g[i]
    BY <2>3, <2>10, <2>11, Zenon
  <2>13. QED
    BY <2>12 DEF q
<1>10. IsSeveral(g, n, f, r)
  BY <1>8, <1>9, Zenon DEF IsSeveral
<1>11. Several(n, f, r) = g[n]
  BY <1>3, <1>7, <1>10, SeveralIs
<1>12. n \in 0..n
  BY <1>3
<1>13. ReadsTo(r, h[n], g[n])
  BY <1>6, <1>12
<1>14. QED
  BY <1>1, <1>11, <1>13 DEF n

LEMMA ListPassed ==
  ASSUME NEW Fs \in Seq(Layout), NEW b, NEW p \in Nat, Lies(b, p, FlattenSeq(Fs)),
         NEW f, PassedBy(b, f, Fs)
  PROVE  Repeat(Len(Fs), f, p) = p + Size(FlattenSeq(Fs))
<1> DEFINE n == Len(Fs)
<1>1. PICK h \in [0..Len(Fs) -> Layout] : IsChain(h, Fs) /\ FlattenSeq(Fs) = h[Len(Fs)]
  BY ListChain
<1>2. \A i \in 1..Len(Fs) : Lies(b, p + Size(h[i - 1]), Fs[i])
  <2>1. Lies(b, p, h[Len(Fs)])
    BY <1>1
  <2>2. QED
    BY <1>1, <2>1, ListLies
<1>3. n \in Nat /\ \A i \in 1..n : Fs[i] \in Layout
  OBVIOUS
<1>4. h \in [0..n -> Layout] /\ h[0] = <<>> /\ \A i \in 1..n : h[i] = h[i - 1] \o Fs[i]
  BY <1>1 DEF IsChain
<1>a. \A i \in 1..n : Lies(b, p + Size(h[i - 1]), Fs[i])
  BY <1>2
<1>b. \A i \in 1..n, q \in Nat : Lies(b, q, Fs[i]) => f[q] = q + Size(Fs[i])
  BY DEF PassedBy
<1> HIDE DEF n
<1>5. \A i \in 0..n : Size(h[i]) \in Nat
  BY <1>4, LayoutTyped
<1> DEFINE g == [i \in 0..n |-> p + Size(h[i])]
<1>6. g \in [0..n -> Nat] /\ \A i \in 0..n : g[i] = p + Size(h[i])
  BY <1>5
<1> HIDE DEF g
<1>7. g[0] = p
  BY <1>3, <1>4, <1>6, LayoutEmpty
<1>8. ASSUME NEW i \in 1..n PROVE g[i] = f[g[i - 1]]
  <2>1. i \in 0..n /\ i - 1 \in 0..n
    BY <1>3
  <2>2. h[i - 1] \in Layout /\ Fs[i] \in Layout /\ h[i] = h[i - 1] \o Fs[i]
    BY <1>3, <1>4, <2>1
  <2>3. Size(h[i]) = Size(h[i - 1]) + Size(Fs[i]) /\ Size(h[i - 1]) \in Nat /\ Size(Fs[i]) \in Nat
    <3>1. Size(h[i - 1] \o Fs[i]) = Size(h[i - 1]) + Size(Fs[i])
      BY <2>2, LayoutJoin
    <3>2. Size(h[i - 1]) \in Nat /\ Size(Fs[i]) \in Nat
      BY <2>2, LayoutTyped
    <3>3. QED
      BY <2>2, <3>1, <3>2
  <2>4. g[i - 1] = p + Size(h[i - 1]) /\ g[i] = p + Size(h[i]) /\ g[i - 1] \in Nat
    BY <1>6, <2>1
  <2>5. Lies(b, g[i - 1], Fs[i])
    BY <1>a, <2>4
  <2>6. f[g[i - 1]] = g[i - 1] + Size(Fs[i])
    BY <1>b, <2>4, <2>5
  <2>7. QED
    BY <2>3, <2>4, <2>6
<1>9. IsRepeat(g, n, f, p)
  BY <1>7, <1>8 DEF IsRepeat
<1>10. Repeat(n, f, p) = g[n]
  BY <1>3, <1>6, <1>9, RepeatIs, SMTT(60)
<1>11. n \in 0..n
  BY <1>3
<1>12. g[n] = p + Size(h[n])
  BY <1>6, <1>11
<1>13. QED
  BY <1>1, <1>10, <1>12 DEF n

LEMMA EvenSize ==
  ASSUME NEW Fs \in Seq(Layout), NEW w \in Nat, \A i \in 1..Len(Fs) : Size(Fs[i]) = w
  PROVE  Size(FlattenSeq(Fs)) = Len(Fs) * w
<1> DEFINE n == Len(Fs)
<1>1. PICK h \in [0..Len(Fs) -> Layout] : IsChain(h, Fs) /\ FlattenSeq(Fs) = h[Len(Fs)]
  BY ListChain
<1>2. n \in Nat /\ \A i \in 1..n : Fs[i] \in Layout /\ Size(Fs[i]) = w
  OBVIOUS
<1>3. h \in [0..n -> Layout] /\ h[0] = <<>> /\ \A i \in 1..n : h[i] = h[i - 1] \o Fs[i]
  BY <1>1 DEF IsChain
<1> DEFINE S == {k \in Nat : k <= n => Size(h[k]) = k * w}
<1> HIDE DEF n
<1>4. 0 \in S
  BY <1>3, LayoutEmpty
<1>5. ASSUME NEW k \in Nat, k \in S PROVE k + 1 \in S
  <2>1. SUFFICES ASSUME k + 1 <= n PROVE Size(h[k + 1]) = (k + 1) * w
    OBVIOUS
  <2>2. k + 1 \in 1..n /\ k \in 0..n /\ (k + 1) - 1 = k /\ k <= n
    BY <1>2, <2>1
  <2>3. h[k + 1] = h[k] \o Fs[k + 1] /\ h[k] \in Layout /\ Fs[k + 1] \in Layout
    BY <1>2, <1>3, <2>2
  <2>4. Size(h[k + 1]) = Size(h[k]) + Size(Fs[k + 1])
    <3>1. Size(h[k] \o Fs[k + 1]) = Size(h[k]) + Size(Fs[k + 1])
      BY <2>3, JoinSize
    <3>2. QED
      BY <2>3, <3>1
  <2>5. Size(h[k]) = k * w /\ Size(Fs[k + 1]) = w
    BY <1>2, <1>5, <2>2
  <2>6. k * w + w = (k + 1) * w
    OBVIOUS
  <2>7. QED
    BY <2>4, <2>5, <2>6
<1> HIDE DEF S
<1>6. n \in S
  BY <1>2, <1>4, <1>5, Induction
<1>7. Size(h[n]) = n * w
  BY <1>2, <1>6 DEF S
<1>8. QED
  BY <1>1, <1>7 DEF n

(* A list with its count before it.                                         *)
Counted(w, Fs) == Num(Len(Fs), w) \o FlattenSeq(Fs)

LEMMA CountedTyped ==
  ASSUME NEW Fs \in Seq(Layout), NEW w \in Nat
  PROVE  /\ Counted(w, Fs) \in Layout /\ FlattenSeq(Fs) \in Layout /\ Num(Len(Fs), w) \in Layout
         /\ Size(Counted(w, Fs)) = w + Size(FlattenSeq(Fs))
<1>1. Len(Fs) \in Nat
  OBVIOUS
<1>2. FlattenSeq(Fs) \in Layout
  BY ListChain
<1>3. Num(Len(Fs), w) \in Layout /\ Size(Num(Len(Fs), w)) = w
  BY <1>1, NumTyped
<1> DEFINE A == Num(Len(Fs), w)
           B == FlattenSeq(Fs)
<1>4. Counted(w, Fs) = A \o B
  BY DEF Counted
<1> HIDE DEF A, B
<1>5. A \o B \in Layout /\ Size(A \o B) = Size(A) + Size(B)
  BY <1>2, <1>3, LayoutJoin DEF A, B
<1>6. QED
  BY <1>2, <1>3, <1>4, <1>5 DEF A, B

LEMMA CountedReads ==
  ASSUME NEW Fs \in Seq(Layout), NEW w \in 0..30, Len(Fs) < 2^w,
         NEW b, NEW r \in Reader, Lies(b, r.at, Counted(w, Fs)), NEW f, ReadBy(b, f, Fs)
  PROVE  ReadsTo(r, Counted(w, Fs), GetEach(b, r, w, f))
<1> DEFINE n == Len(Fs)
           A == Num(n, w)
           B == FlattenSeq(Fs)
           q == Get(b, r, w)
<1>1. n \in Nat /\ w \in Nat /\ 30 \in Nat /\ w <= 30
  OBVIOUS
<1>2. n < 2^w /\ n < 2^30
  <2>1. 2^w <= 2^30
    BY <1>1, PowerGrows
  <2>2. 2^w \in Nat /\ 2^30 \in Nat
    BY <1>1, PowerOfTwo
  <2>3. QED
    BY <1>1, <2>1, <2>2
<1>3. A \in Layout /\ B \in Layout /\ Counted(w, Fs) = A \o B
  BY <1>1, CountedTyped DEF Counted
<1>4. Lies(b, r.at, A) /\ Lies(b, r.at + Size(A), B)
  <2> HIDE DEF A, B
  <2>1. Lies(b, r.at, A \o B)
    BY <1>3
  <2>2. QED
    BY <1>3, <2>1, LiesJoin
<1>5. ReadsTo(r, A, q) /\ Got(q) = n
  BY <1>1, <1>2, <1>4, NumReads
<1>6. q \in Reader /\ Lies(b, q.at, B)
  <2> HIDE DEF A, B, q
  <2>1. QED
    BY <1>4, <1>5 DEF ReadsTo
<1>7. ReadsTo(q, B, Several(n, f, q))
  BY <1>6, SeveralReads
<1>8. GetEach(b, r, w, f) = Several(n, f, q)
  BY <1>5 DEF GetEach
<1> HIDE DEF A, B, q, n
<1>9. QED
  BY <1>3, <1>5, <1>7, <1>8, ReadsJoin

LEMMA CountedPassed ==
  ASSUME NEW Fs \in Seq(Layout), NEW w \in Nat, Len(Fs) < 2^w,
         NEW b, NEW p, Lies(b, p, Counted(w, Fs)), NEW f, PassedBy(b, f, Fs)
  PROVE  SkipEach(b, p, w, f) = p + Size(Counted(w, Fs))
<1> DEFINE n == Len(Fs)
           A == Num(n, w)
           B == FlattenSeq(Fs)
<1>1. n \in Nat
  OBVIOUS
<1>3. A \in Layout /\ B \in Layout /\ Counted(w, Fs) = A \o B /\ Size(A) = w /\ Size(B) \in Nat
      /\ Size(Counted(w, Fs)) = w + Size(B)
  <2>1. A \in Layout /\ B \in Layout /\ Counted(w, Fs) = A \o B /\ Size(Counted(w, Fs)) = w + Size(B)
    BY CountedTyped DEF Counted
  <2>2. Size(A) = w
    BY <1>1, NumTyped
  <2>3. Size(B) \in Nat
    BY <2>1, LayoutTyped
  <2>4. QED BY <2>1, <2>2, <2>3
<1>4. Lies(b, p, A) /\ Lies(b, p + w, B)
  <2> HIDE DEF A, B
  <2>1. Lies(b, p, A \o B)
    BY <1>3
  <2>2. Lies(b, p, A) /\ Lies(b, p + Size(A), B)
    BY <1>3, <2>1, LiesJoin
  <2>3. QED
    BY <1>3, <2>2
<1>5. Skip(b, p, w) = p + w /\ Before(b, p + w, w) = n /\ p \in Nat /\ p + w \in Nat
  BY <1>1, <1>4, NumPassed
<1>6. Repeat(n, f, p + w) = (p + w) + Size(B)
  BY <1>4, <1>5, ListPassed
<1>7. SkipEach(b, p, w, f) = Repeat(n, f, p + w)
  BY <1>5 DEF SkipEach
<1> HIDE DEF B
<1>8. QED
  BY <1>3, <1>5, <1>6, <1>7

(* All: numbers of one width.                                               *)
LEMMA AllTyped ==
  ASSUME NEW w \in Nat, NEW vs \in Seq(Number(w))
  PROVE  /\ [i \in DOMAIN vs |-> Wide(vs[i], w)] \in Seq(Layout)
         /\ Len([i \in DOMAIN vs |-> Wide(vs[i], w)]) = Len(vs)
         /\ \A i \in 1..Len(vs) : [j \in DOMAIN vs |-> Wide(vs[j], w)][i] = Wide(vs[i], w)
         /\ All(vs, w) = FlattenSeq([i \in DOMAIN vs |-> Wide(vs[i], w)])
         /\ All(vs, w) \in Layout /\ Size(All(vs, w)) = Len(vs) * w
<1> DEFINE n == Len(vs)
           Fs == [i \in DOMAIN vs |-> Wide(vs[i], w)]
<1>1. n \in Nat /\ DOMAIN vs = 1..n /\ \A i \in 1..n : vs[i] \in Number(w)
  OBVIOUS
<1>2. All(vs, w) = FlattenSeq(Fs)
  BY DEF All, Each
<1>3. \A i \in 1..n : Wide(vs[i], w) \in Layout /\ Size(Wide(vs[i], w)) = w
  BY <1>1, WideTyped
<1>4. Fs \in [1..n -> Layout] /\ \A i \in 1..n : Fs[i] = Wide(vs[i], w)
  BY <1>1, <1>3
<1> HIDE DEF Fs, n
<1>5. Fs \in Seq(Layout) /\ Len(Fs) = n
  BY <1>1, <1>4, IsList
<1>6. Size(FlattenSeq(Fs)) = n * w
  BY <1>3, <1>4, <1>5, EvenSize
<1>7. FlattenSeq(Fs) \in Layout
  BY <1>5, ListChain
<1>8. QED
  BY <1>2, <1>4, <1>5, <1>6, <1>7 DEF Fs, n

LEMMA AllReadBy ==
  ASSUME NEW w \in Nat, NEW vs \in Seq(Number(w)), NEW b
  PROVE  ReadBy(b, [p \in Nat |-> Get(b, One(p), w)], [i \in DOMAIN vs |-> Wide(vs[i], w)])
<1> DEFINE n == Len(vs)
           Fs == [i \in DOMAIN vs |-> Wide(vs[i], w)]
           f == [p \in Nat |-> Get(b, One(p), w)]
<1>1. Len(Fs) = n /\ \A i \in 1..n : Fs[i] = Wide(vs[i], w) /\ vs[i] \in Number(w)
  BY AllTyped
<1>2. \A p \in Nat : f[p] = Get(b, One(p), w)
  OBVIOUS
<1> HIDE DEF Fs, f
<1>4. ASSUME NEW i \in 1..Len(Fs), NEW p \in Nat, Lies(b, p, Fs[i])
      PROVE  ReadsTo(One(p), Fs[i], f[p])
  <2>1. Fs[i] = Wide(vs[i], w) /\ vs[i] \in Number(w) /\ One(p) \in Reader /\ One(p).at = p
    BY <1>1, OneReads
  <2>2. ReadsTo(One(p), Wide(vs[i], w), Get(b, One(p), w))
    BY <1>4, <2>1, WideReads
  <2>3. QED
    BY <1>2, <2>1, <2>2
<1>5. ReadBy(b, f, Fs)
  BY <1>4 DEF ReadBy
<1>6. QED
  BY <1>5 DEF Fs, f

LEMMA AllReads ==
  ASSUME NEW w \in Nat, NEW vs \in Seq(Number(w)), NEW b, NEW r \in Reader, Lies(b, r.at, All(vs, w))
  PROVE  ReadsTo(r, All(vs, w), GetMany(b, r, w, Len(vs)))
<1> DEFINE n == Len(vs)
           Fs == [i \in DOMAIN vs |-> Wide(vs[i], w)]
           f == [p \in Nat |-> Get(b, One(p), w)]
<1>1. Fs \in Seq(Layout) /\ Len(Fs) = n /\ All(vs, w) = FlattenSeq(Fs)
  BY AllTyped
<1>2. ReadBy(b, f, Fs)
  BY AllReadBy
<1>3. GetMany(b, r, w, n) = Several(n, f, r)
  BY DEF GetMany
<1> HIDE DEF Fs, f
<1>4. ReadsTo(r, FlattenSeq(Fs), Several(Len(Fs), f, r))
  BY <1>1, <1>2, SeveralReads
<1>5. QED
  BY <1>1, <1>3, <1>4

-----------------------------------------------------------------------------
(***************************************************************************)
(* What messages are made of.                                              *)
(***************************************************************************)
(* Numbers of u bits with their count, in w bits, before them.              *)
Numbers(vs, w, u) == Num(Len(vs), w) \o All(vs, u)

LEMMA NumbersTyped ==
  ASSUME NEW w \in Nat, NEW u \in Nat, NEW vs \in Few(w, Number(u))
  PROVE  /\ vs \in Seq(Number(u)) /\ Len(vs) \in Nat /\ Len(vs) < 2^w
         /\ Numbers(vs, w, u) \in Layout /\ Size(Numbers(vs, w, u)) = w + Len(vs) * u
         /\ Num(Len(vs), w) \in Layout /\ All(vs, u) \in Layout
<1>1. vs \in Seq(Number(u)) /\ Len(vs) < 2^w /\ Len(vs) \in Nat
  BY DEF Few
<1>2. All(vs, u) \in Layout /\ Size(All(vs, u)) = Len(vs) * u
  BY <1>1, AllTyped
<1>3. Num(Len(vs), w) \in Layout /\ Size(Num(Len(vs), w)) = w
  BY <1>1, NumTyped
<1> DEFINE A == Num(Len(vs), w)
           B == All(vs, u)
<1>4. Numbers(vs, w, u) = A \o B
  BY DEF Numbers
<1> HIDE DEF A, B
<1>5. A \o B \in Layout /\ Size(A \o B) = Size(A) + Size(B)
  BY <1>2, <1>3, LayoutJoin DEF A, B
<1>6. QED
  BY <1>1, <1>2, <1>3, <1>4, <1>5 DEF A, B

LEMMA NumbersRead ==
  ASSUME NEW w \in 0..30, NEW u \in Nat, NEW vs \in Few(w, Number(u)),
         NEW b, NEW r \in Reader, Lies(b, r.at, Numbers(vs, w, u))
  PROVE  ReadsTo(r, Numbers(vs, w, u), GetEach(b, r, w, [p \in Nat |-> Get(b, One(p), u)]))
<1> DEFINE Fs == [i \in DOMAIN vs |-> Wide(vs[i], u)]
           f == [p \in Nat |-> Get(b, One(p), u)]
<1>1. w \in Nat
  OBVIOUS
<1>2. vs \in Seq(Number(u)) /\ Len(vs) < 2^w
  BY <1>1, NumbersTyped
<1>3. Fs \in Seq(Layout) /\ Len(Fs) = Len(vs) /\ All(vs, u) = FlattenSeq(Fs)
  BY <1>2, AllTyped
<1>4. ReadBy(b, f, Fs)
  BY <1>2, AllReadBy
<1> HIDE DEF Fs, f
<1>5. Numbers(vs, w, u) = Counted(w, Fs)
  BY <1>3 DEF Numbers, Counted
<1>6. ReadsTo(r, Counted(w, Fs), GetEach(b, r, w, f))
  BY <1>2, <1>3, <1>4, <1>5, CountedReads
<1>7. QED
  BY <1>5, <1>6 DEF f

LEMMA NumbersPassed ==
  ASSUME NEW w \in Nat, NEW u \in Nat, NEW vs \in Few(w, Number(u)), NEW b, NEW p,
         Lies(b, p, Numbers(vs, w, u))
  PROVE  SkipSized(b, p, w, u) = p + Size(Numbers(vs, w, u))
<1> DEFINE n == Len(vs)
           A == Num(n, w)
           B == All(vs, u)
<1>1. /\ vs \in Seq(Number(u)) /\ n \in Nat /\ n < 2^w /\ A \in Layout /\ B \in Layout
      /\ Size(Numbers(vs, w, u)) = w + n * u
  BY NumbersTyped
<1>2. Size(A) = w /\ Size(B) = n * u
  <2>1. Size(A) = w
    BY <1>1, NumTyped
  <2>2. Size(B) = n * u
    BY <1>1, AllTyped
  <2>3. QED BY <2>1, <2>2
<1>3. Lies(b, p, A) /\ Lies(b, p + w, B)
  <2> HIDE DEF A, B
  <2>1. Lies(b, p, A \o B)
    BY DEF Numbers, A, B
  <2>2. Lies(b, p, A) /\ Lies(b, p + Size(A), B)
    BY <1>1, <2>1, LiesJoin
  <2>3. QED
    BY <1>2, <2>2
<1>4. Skip(b, p, w) = p + w /\ Before(b, p + w, w) = n /\ p \in Nat /\ p + w \in Nat
  BY <1>1, <1>3, NumPassed
<1>5. Skip(b, p + w, Size(B)) = (p + w) + Size(B)
  BY <1>3, PassedOver
<1>6. u * n = n * u
  BY <1>1
<1>7. SkipSized(b, p, w, u) = Skip(b, p + w, u * n)
  BY <1>4 DEF SkipSized
<1>8. SkipSized(b, p, w, u) = (p + w) + n * u
  BY <1>2, <1>5, <1>6, <1>7
<1> DEFINE k == n * u
<1>9. k \in Nat
  BY <1>1
<1> HIDE DEF k
<1>10. (p + w) + k = p + (w + k)
  BY <1>4, <1>9
<1>11. QED
  BY <1>1, <1>8, <1>10 DEF k

LEMMA StringIs ==
  ASSUME NEW s, NEW w
  PROVE  String(s, w) = Numbers(s, w, 8)
  BY DEF String, Numbers

LEMMA StringTyped ==
  ASSUME NEW w \in Nat, NEW s \in Text(w)
  PROVE  String(s, w) \in Layout /\ Size(String(s, w)) \in Nat
<1>1. s \in Few(w, Number(8))
  BY DEF Text
<1>2. Numbers(s, w, 8) \in Layout
  BY <1>1, NumbersTyped
<1>3. QED
  BY <1>2, StringIs, LayoutTyped

LEMMA StringReads ==
  ASSUME NEW w \in 0..30, NEW s \in Text(w), NEW b, NEW r \in Reader, Lies(b, r.at, String(s, w))
  PROVE  ReadsTo(r, String(s, w), GetString(b, r, w))
<1>1. s \in Few(w, Number(8)) /\ Lies(b, r.at, Numbers(s, w, 8))
  BY StringIs DEF Text
<1>2. ReadsTo(r, Numbers(s, w, 8), GetEach(b, r, w, [p \in Nat |-> Get(b, One(p), 8)]))
  BY <1>1, NumbersRead
<1>3. QED
  BY <1>2, StringIs DEF GetString

LEMMA StringPassed ==
  ASSUME NEW w \in Nat, NEW s \in Text(w), NEW b, NEW p, Lies(b, p, String(s, w))
  PROVE  SkipSized(b, p, w, 8) = p + Size(String(s, w))
<1>1. s \in Few(w, Number(8)) /\ Lies(b, p, Numbers(s, w, 8))
  BY StringIs DEF Text
<1>2. SkipSized(b, p, w, 8) = p + Size(Numbers(s, w, 8))
  BY <1>1, NumbersPassed
<1>3. QED
  BY <1>2, StringIs

(* An id is written in the width of its tier, which is wide enough.         *)
LEMMA TierIs ==
  ASSUME NEW id \in Ids
  PROVE  /\ TierFor(id) \in 0..3 /\ TierBits(TierFor(id)) \in Nat
         /\ id \in Number(TierBits(TierFor(id)))
<1> DEFINE n == Len(Significant(id))
           P(t) == n <= TierBits(t) /\ \A u \in 0..(t - 1) : n > TierBits(u)
<1>1. TierBits(0) = 8 /\ TierBits(1) = 13 /\ TierBits(2) = 16 /\ TierBits(3) = 64
  BY DEF TierBits
<1>2. id \in Seq({0, 1}) /\ n <= 64
  BY DEF Ids, Number
<1>3. n \in Nat
  <2>1. id \in Seq(Bit)
    BY <1>2 DEF Bit
  <2>2. Significant(id) \in Seq(Bit)
    BY <2>1, SignificantTyped
  <2>3. QED BY <2>2
<1> HIDE DEF n
<1>4. \E t \in 0..3 : P(t)
  <2>1. CASE n <= 8
    <3>1. 0 \in 0..3 /\ P(0)
      BY <1>1, <2>1
    <3>2. QED BY <3>1
  <2>2. CASE ~(n <= 8) /\ n <= 13
    <3>1. \A u \in 0..(1 - 1) : u = 0
      OBVIOUS
    <3>2. 1 \in 0..3 /\ P(1)
      BY <1>1, <1>3, <2>2, <3>1
    <3>3. QED BY <3>2
  <2>3. CASE ~(n <= 13) /\ n <= 16
    <3>1. \A u \in 0..(2 - 1) : u = 0 \/ u = 1
      OBVIOUS
    <3>2. 2 \in 0..3 /\ P(2)
      BY <1>1, <1>3, <2>3, <3>1
    <3>3. QED BY <3>2
  <2>4. CASE ~(n <= 16)
    <3>1. \A u \in 0..(3 - 1) : u = 0 \/ u = 1 \/ u = 2
      OBVIOUS
    <3>2. 3 \in 0..3 /\ P(3)
      BY <1>1, <1>2, <1>3, <2>4, <3>1
    <3>3. QED BY <3>2
  <2>5. QED
    BY <1>3, <2>1, <2>2, <2>3, <2>4
<1>5. TierFor(id) = CHOOSE t \in 0..3 : P(t)
  BY DEF TierFor, n
<1> HIDE DEF P
<1>6. TierFor(id) \in 0..3 /\ P(TierFor(id))
  BY <1>4, <1>5
<1>7. n <= TierBits(TierFor(id))
  BY <1>6 DEF P
<1>8. TierBits(TierFor(id)) \in Nat
  BY <1>6 DEF TierBits
<1>9. QED
  BY <1>2, <1>6, <1>7, <1>8 DEF Number, n

LEMMA IdTyped ==
  ASSUME NEW id \in Ids
  PROVE  /\ Id(id) \in Layout /\ Size(Id(id)) \in Nat
         /\ Num(TierFor(id), 2) \in Layout /\ Wide(id, TierBits(TierFor(id))) \in Layout
<1>1. TierFor(id) \in Nat /\ TierBits(TierFor(id)) \in Nat /\ id \in Number(TierBits(TierFor(id)))
  BY TierIs
<1> DEFINE A == Num(TierFor(id), 2)
           B == Wide(id, TierBits(TierFor(id)))
<1>2. A \in Layout /\ B \in Layout
  BY <1>1, NumTyped, WideTyped
<1>3. Id(id) = A \o B
  BY DEF Id
<1> HIDE DEF A, B
<1>4. A \o B \in Layout
  BY <1>2, LayoutJoin
<1>5. QED
  BY <1>2, <1>3, <1>4, LayoutTyped DEF A, B

LEMMA IdReads ==
  ASSUME NEW id \in Ids, NEW b, NEW r \in Reader, Lies(b, r.at, Id(id))
  PROVE  ReadsTo(r, Id(id), GetId(b, r))
<1> DEFINE t == TierFor(id)
           A == Num(t, 2)
           B == Wide(id, TierBits(t))
           q == Get(b, r, 2)
<1>1. t \in Nat /\ t <= 3 /\ TierBits(t) \in Nat /\ id \in Number(TierBits(t))
  BY TierIs
<1>2. A \in Layout /\ B \in Layout /\ Id(id) = A \o B
  BY IdTyped DEF Id
<1> HIDE DEF t
<1>3. Lies(b, r.at, A) /\ Lies(b, r.at + Size(A), B)
  <2> HIDE DEF A, B
  <2>1. Lies(b, r.at, A \o B)
    BY <1>2
  <2>2. QED
    BY <1>2, <2>1, LiesJoin
<1>4. t < 2^2 /\ t < 2^30
  <2>1. 2^2 = 4 /\ 2^2 <= 2^30 /\ 2^30 \in Nat
    BY SmallPowers, PowerGrows, PowerOfTwo
  <2>2. QED
    BY <1>1, <2>1
<1>5. ReadsTo(r, A, q) /\ Got(q) = t
  BY <1>1, <1>3, <1>4, NumReads
<1>6. q \in Reader /\ Lies(b, q.at, B)
  <2> HIDE DEF A, B, q
  <2>1. QED
    BY <1>3, <1>5 DEF ReadsTo
<1>7. ReadsTo(q, B, Get(b, q, TierBits(t)))
  BY <1>1, <1>6, WideReads
<1>8. GetId(b, r) = Get(b, q, TierBits(t))
  BY <1>5 DEF GetId
<1> HIDE DEF A, B, q
<1>9. QED
  BY <1>2, <1>5, <1>7, <1>8, ReadsJoin

LEMMA IdPassed ==
  ASSUME NEW id \in Ids, NEW b, NEW p, Lies(b, p, Id(id))
  PROVE  SkipId(b, p) = p + Size(Id(id))
<1> DEFINE t == TierFor(id)
           A == Num(t, 2)
           B == Wide(id, TierBits(t))
<1>1. t \in Nat /\ t <= 3 /\ TierBits(t) \in Nat /\ id \in Number(TierBits(t))
  BY TierIs
<1>2. A \in Layout /\ B \in Layout /\ Id(id) = A \o B
  BY IdTyped DEF Id
<1> HIDE DEF t
<1>3. Size(A) = 2 /\ Size(B) = TierBits(t)
  BY <1>1, NumTyped, WideTyped
<1>4. Lies(b, p, A) /\ Lies(b, p + 2, B) /\ Size(A \o B) = Size(A) + Size(B)
  <2> HIDE DEF A, B
  <2>1. Lies(b, p, A \o B)
    BY <1>2
  <2>2. Lies(b, p, A) /\ Lies(b, p + Size(A), B)
    BY <1>2, <2>1, LiesJoin
  <2>3. Size(A \o B) = Size(A) + Size(B)
    BY <1>2, LayoutJoin
  <2>4. QED
    BY <1>3, <2>2, <2>3
<1>5. t < 2^2
  BY <1>1, SmallPowers
<1>6. Skip(b, p, 2) = p + 2 /\ Before(b, p + 2, 2) = t /\ p \in Nat
  <2> DEFINE w == 2
  <2>1. w \in Nat /\ t < 2^w /\ Lies(b, p, Num(t, w))
    BY <1>4, <1>5
  <2> HIDE DEF w
  <2>2. Skip(b, p, w) = p + w /\ Before(b, p + w, w) = t /\ p \in Nat
    BY <1>1, <2>1, NumPassed
  <2>3. QED
    BY <2>2 DEF w
<1>7. Skip(b, p + 2, TierBits(t)) = (p + 2) + Size(B)
  BY <1>1, <1>4, WidePassed
<1>8. SkipId(b, p) = (p + 2) + Size(B)
  BY <1>6, <1>7 DEF SkipId
<1>9. Size(Id(id)) = 2 + Size(B)
  BY <1>2, <1>3, <1>4
<1>10. (p + 2) + Size(B) = p + (2 + Size(B))
  BY <1>1, <1>3, <1>6
<1>11. QED
  BY <1>8, <1>9, <1>10

(* One layout after another.                                                *)
LEMMA Then ==
  ASSUME NEW F \in Layout, NEW G \in Layout, NEW b, NEW r, Lies(b, r.at, F \o G),
         NEW s, ReadsTo(r, F, s)
  PROVE  s \in Reader /\ Lies(b, s.at, G)
<1>1. Lies(b, r.at + Size(F), G)
  BY LiesJoin
<1>2. QED
  BY <1>1 DEF ReadsTo

LEMMA LayoutAssociative ==
  ASSUME NEW F \in Layout, NEW G \in Layout, NEW H \in Layout
  PROVE  (F \o G) \o H = F \o (G \o H)
  BY ConcatAssociative DEF Layout

(* Counts, flags and other small numbers.                                   *)
LEMMA SmallReads ==
  ASSUME NEW w \in 0..30, NEW n \in Nat, n < 2^w, NEW b, NEW r \in Reader, Lies(b, r.at, Num(n, w))
  PROVE  ReadsTo(r, Num(n, w), Get(b, r, w)) /\ Got(Get(b, r, w)) = n
<1>1. w \in Nat /\ 30 \in Nat /\ w <= 30
  OBVIOUS
<1>2. 2^w <= 2^30
  BY <1>1, PowerGrows
<1>3. 2^w \in Nat /\ 2^30 \in Nat
  BY <1>1, PowerOfTwo
<1>4. n < 2^30
  BY <1>2, <1>3
<1>5. QED
  BY <1>1, <1>4, NumReads

LEMMA FlagReads ==
  ASSUME NEW n \in 0..1, NEW b, NEW r \in Reader, Lies(b, r.at, Num(n, 1))
  PROVE  ReadsTo(r, Num(n, 1), Get(b, r, 1)) /\ Got(Get(b, r, 1)) = n
<1> DEFINE w == 1
<1>1. w \in 0..30 /\ n \in Nat /\ n < 2^w /\ Lies(b, r.at, Num(n, w))
  BY SmallPowers
<1> HIDE DEF w
<1>2. ReadsTo(r, Num(n, w), Get(b, r, w)) /\ Got(Get(b, r, w)) = n
  BY <1>1, SmallReads
<1>3. QED
  BY <1>2 DEF w

LEMMA FlagPassed ==
  ASSUME NEW n \in 0..1, NEW b, NEW p, Lies(b, p, Num(n, 1))
  PROVE  Skip(b, p, 1) = p + 1 /\ Before(b, p + 1, 1) = n /\ p \in Nat /\ p + 1 # Short
<1> DEFINE w == 1
<1>1. w \in Nat /\ n \in Nat /\ n < 2^w /\ Lies(b, p, Num(n, w))
  BY SmallPowers
<1> HIDE DEF w
<1>2. Skip(b, p, w) = p + w /\ Before(b, p + w, w) = n /\ p \in Nat /\ p + w # Short
  BY <1>1, NumPassed
<1>3. QED
  BY <1>2 DEF w

LEMMA FlagTyped ==
  ASSUME NEW n \in Nat
  PROVE  /\ Num(n, 1) \in Layout /\ Size(Num(n, 1)) = 1
         /\ Num(n, 2) \in Layout /\ Size(Num(n, 2)) = 2
  BY NumTyped

LEMMA PairReads ==
  ASSUME NEW n \in 0..3, NEW b, NEW r \in Reader, Lies(b, r.at, Num(n, 2))
  PROVE  ReadsTo(r, Num(n, 2), Get(b, r, 2)) /\ Got(Get(b, r, 2)) = n
<1> DEFINE w == 2
<1>1. w \in 0..30 /\ n \in Nat /\ n < 2^w /\ Lies(b, r.at, Num(n, w))
  BY SmallPowers
<1> HIDE DEF w
<1>2. ReadsTo(r, Num(n, w), Get(b, r, w)) /\ Got(Get(b, r, w)) = n
  BY <1>1, SmallReads
<1>3. QED
  BY <1>2 DEF w

LEMMA PairPassed ==
  ASSUME NEW n \in 0..3, NEW b, NEW p, Lies(b, p, Num(n, 2))
  PROVE  Skip(b, p, 2) = p + 2 /\ Before(b, p + 2, 2) = n /\ p \in Nat /\ p + 2 # Short
<1> DEFINE w == 2
<1>1. w \in Nat /\ n \in Nat /\ n < 2^w /\ Lies(b, p, Num(n, w))
  BY SmallPowers
<1> HIDE DEF w
<1>2. Skip(b, p, w) = p + w /\ Before(b, p + w, w) = n /\ p \in Nat /\ p + w # Short
  BY <1>1, NumPassed
<1>3. QED
  BY <1>2 DEF w

LEMMA VectorTyped ==
  ASSUME NEW w \in Nat, NEW v \in Vector(w)
  PROVE  v \in Seq(Number(w)) /\ Len(v) = 3 /\ All(v, w) \in Layout /\ Size(All(v, w)) = 3 * w
<1>1. v \in Seq(Number(w)) /\ Len(v) = 3
  BY DEF Vector, Just
<1>2. QED
  BY <1>1, AllTyped

LEMMA VectorReads ==
  ASSUME NEW w \in Nat, NEW v \in Vector(w), NEW b, NEW r \in Reader, Lies(b, r.at, All(v, w))
  PROVE  ReadsTo(r, All(v, w), GetMany(b, r, w, 3))
<1>1. v \in Seq(Number(w)) /\ Len(v) = 3
  BY VectorTyped
<1>2. ReadsTo(r, All(v, w), GetMany(b, r, w, Len(v)))
  BY <1>1, AllReads
<1>3. QED
  BY <1>1, <1>2

-----------------------------------------------------------------------------
(* Places of chunks: numbers of both signs, biased by half of what their    *)
(* field can tell.                                                          *)
LEMMA BiasIs == Bias \in Nat /\ 2 * Bias = 2^ChunkBits /\ ChunkBits \in Nat
<1>1. ChunkBits \in Nat /\ ChunkBits - 1 \in Nat /\ (ChunkBits - 1) + 1 = ChunkBits
  BY WireAssumption
<1>2. 2^((ChunkBits - 1) + 1) = 2 * 2^(ChunkBits - 1) /\ 2^(ChunkBits - 1) \in Nat
  BY <1>1, PowerOfTwo
<1>3. QED
  BY <1>1, <1>2 DEF Bias

LEMMA PnegTyped ==
  ASSUME NEW v \in (-Bias)..(Bias - 1)
  PROVE  /\ v + Bias \in Nat /\ v + Bias < 2^ChunkBits /\ <<v>> \in Says
         /\ Pneg(v) \in Layout /\ Size(Pneg(v)) = ChunkBits
         /\ BitsIn(Pneg(v)) = BitsOf(v + Bias, ChunkBits) /\ SaysIn(Pneg(v)) = <<<<v>>>>
<1> DEFINE x == BitsOf(v + Bias, ChunkBits)
           y == <<v>>
<1>1. v \in Int /\ v + Bias \in Nat /\ v + Bias < 2^ChunkBits
  BY BiasIs
<1>2. x \in Seq(Bit) /\ Len(x) = ChunkBits
  BY <1>1, BiasIs, BitsTyped
<1>3. y \in Says
  BY <1>1 DEF Says
<1>4. Pneg(v) = <<[bits |-> x, says |-> y]>>
  BY DEF Pneg
<1> HIDE DEF x, y
<1>5. Pneg(v) \in Layout /\ Size(Pneg(v)) = ChunkBits /\ BitsIn(Pneg(v)) = x
      /\ SaysIn(Pneg(v)) = <<y>>
  BY <1>2, <1>3, <1>4, LayoutOne
<1>6. QED
  BY <1>1, <1>3, <1>5 DEF x, y

LEMMA PnegReads ==
  ASSUME NEW v \in (-Bias)..(Bias - 1), NEW b, NEW r \in Reader, Lies(b, r.at, Pneg(v))
  PROVE  ReadsTo(r, Pneg(v), GetPneg(b, r))
<1> DEFINE x == BitsOf(v + Bias, ChunkBits)
           F == Pneg(v)
<1>1. /\ v + Bias \in Nat /\ v + Bias < 2^ChunkBits /\ <<v>> \in Says
      /\ F \in Layout /\ Size(F) = ChunkBits /\ BitsIn(F) = x /\ SaysIn(F) = <<<<v>>>>
  BY PnegTyped
<1>2. x \in Seq(Bit) /\ Len(x) = ChunkBits /\ ValueOf(x) = v + Bias
  BY <1>1, BiasIs, BitsTyped, ValueOfBits
<1>3. r.at \in Nat /\ r.got \in Seq(Says)
  BY ReaderIs
<1>4. b \in Seq(Bit) /\ Stands(b, r.at, x)
  BY <1>1 DEF Lies
<1> HIDE DEF x, F
<1>5. Slice(b, r.at, ChunkBits) = x
  BY <1>2, <1>3, <1>4, SliceOf
<1>6. ValueOf(Slice(b, r.at, ChunkBits)) - Bias = v
  <2>1. (v + Bias) - Bias = v
    BY BiasIs
  <2>2. QED
    BY <1>2, <1>5, <2>1
<1>7. Append(r.got, <<v>>) = r.got \o <<<<v>>>>
  BY <1>1, <1>3, AppendIsConcat
<1>8. GetPneg(b, r) =
        [r EXCEPT !.at = r.at + ChunkBits,
                  !.got = Append(r.got, <<ValueOf(Slice(b, r.at, ChunkBits)) - Bias>>)]
  BY DEF GetPneg
<1>9. GetPneg(b, r) = [r EXCEPT !.at = r.at + Size(F), !.got = r.got \o SaysIn(F)]
  BY <1>1, <1>6, <1>7, <1>8, Zenon
<1>10. GetPneg(b, r) = After(r, F)
  BY <1>9 DEF After
<1>11. QED
  BY <1>1, <1>10, AfterIs DEF F

LEMMA OriginIs ==
  ASSUME NEW o \in WholePlace
  PROVE  /\ o \in Seq(Int) /\ Len(o) = 3 /\ DOMAIN o = 1..3
         /\ \A i \in 1..3 : o[i] \in (-Bias)..(Bias - 1) /\ o[i] \in Int
         /\ o = [i \in 1..3 |-> o[i]]
<1> DEFINE S == (-Bias)..(Bias - 1)
<1>0. WholePlace = Just(3, S)
  BY DEF WholePlace
<1> HIDE DEF S
<1>1. o \in Seq(S) /\ Len(o) = 3
  BY <1>0 DEF Just
<1>2. \A v \in S : v \in Int
  BY BiasIs DEF S
<1>3. DOMAIN o = 1..3 /\ \A i \in 1..3 : o[i] \in S
  BY <1>1
<1>4. o = [i \in 1..3 |-> o[i]]
  BY <1>1, <1>3
<1>5. o \in Seq(Int)
  BY <1>2, <1>3, <1>4, IsList
<1>6. QED
  BY <1>1, <1>2, <1>3, <1>4, <1>5 DEF S

(* Lists of two and of three, joined from ones that are shorter.            *)
LEMMA PairJoin ==
  ASSUME NEW T, NEW x \in T, NEW y \in T, NEW z \in T
  PROVE  <<x>> \o <<y>> = <<x, y>> /\ <<x, y>> \o <<z>> = <<x, y, z>>
<1>1. <<x>> \o <<y>> = [i \in 1..2 |-> IF i <= 1 THEN <<x>>[i] ELSE <<y>>[i - 1]]
  OBVIOUS
<1>2. <<x, y>> \o <<z>> = [i \in 1..3 |-> IF i <= 2 THEN <<x, y>>[i] ELSE <<z>>[i - 2]]
  OBVIOUS
<1>3. <<x, y>> = [i \in 1..2 |-> IF i <= 1 THEN <<x>>[i] ELSE <<y>>[i - 1]]
  OBVIOUS
<1>4. <<x, y, z>> = [i \in 1..3 |-> IF i <= 2 THEN <<x, y>>[i] ELSE <<z>>[i - 2]]
  OBVIOUS
<1>5. QED
  BY <1>1, <1>2, <1>3, <1>4, Zenon

LEMMA PnegsTyped ==
  ASSUME NEW o \in WholePlace
  PROVE  /\ [i \in DOMAIN o |-> Pneg(o[i])] \in Seq(Layout)
         /\ Len([i \in DOMAIN o |-> Pneg(o[i])]) = 3
         /\ \A i \in 1..3 : [j \in DOMAIN o |-> Pneg(o[j])][i] = Pneg(o[i])
         /\ Pnegs(o) = FlattenSeq([i \in DOMAIN o |-> Pneg(o[i])])
         /\ Pnegs(o) \in Layout /\ Size(Pnegs(o)) = 3 * ChunkBits
         /\ SaysIn(Pnegs(o)) = <<<<o[1]>>, <<o[2]>>, <<o[3]>>>>
<1> DEFINE Fs == [i \in DOMAIN o |-> Pneg(o[i])]
<1>1. DOMAIN o = 1..3 /\ \A i \in 1..3 : o[i] \in (-Bias)..(Bias - 1)
  BY OriginIs
<1>2. Pnegs(o) = FlattenSeq(Fs)
  BY DEF Pnegs, Each
<1>3. \A i \in 1..3 : /\ Pneg(o[i]) \in Layout /\ Size(Pneg(o[i])) = ChunkBits
                      /\ SaysIn(Pneg(o[i])) = <<<<o[i]>>>> /\ <<o[i]>> \in Says
  BY <1>1, PnegTyped
<1>4. Fs \in [1..3 -> Layout] /\ \A i \in 1..3 : Fs[i] = Pneg(o[i])
  BY <1>1, <1>3
<1> HIDE DEF Fs
<1>5. Fs \in Seq(Layout) /\ Len(Fs) = 3
  BY <1>4, IsList
<1>6. Size(FlattenSeq(Fs)) = 3 * ChunkBits
  <2>1. \A i \in 1..Len(Fs) : Size(Fs[i]) = ChunkBits
    BY <1>3, <1>4, <1>5
  <2>2. QED
    BY <1>5, <2>1, BiasIs, EvenSize
<1>7. FlattenSeq(Fs) \in Layout
  BY <1>5, ListChain
<1>8. SaysIn(FlattenSeq(Fs)) = <<<<o[1]>>, <<o[2]>>, <<o[3]>>>>
  <2>1. PICK h \in [0..Len(Fs) -> Layout] : IsChain(h, Fs) /\ FlattenSeq(Fs) = h[Len(Fs)]
    BY <1>5, ListChain
  <2>2. /\ h[0] = <<>> /\ h[1] = h[0] \o Fs[1] /\ h[2] = h[1] \o Fs[2] /\ h[3] = h[2] \o Fs[3]
        /\ h[1] \in Layout /\ h[2] \in Layout /\ FlattenSeq(Fs) = h[3]
    <3>1. /\ h \in [0..3 -> Layout] /\ FlattenSeq(Fs) = h[3]
          /\ h[0] = <<>> /\ \A i \in 1..3 : h[i] = h[i - 1] \o Fs[i]
      BY <1>5, <2>1 DEF IsChain
    <3>2. 1 \in 1..3 /\ 2 \in 1..3 /\ 3 \in 1..3 /\ 1 - 1 = 0 /\ 2 - 1 = 1 /\ 3 - 1 = 2
      OBVIOUS
    <3>3. h[1] = h[1 - 1] \o Fs[1] /\ h[2] = h[2 - 1] \o Fs[2] /\ h[3] = h[3 - 1] \o Fs[3]
      BY <3>1, <3>2, Zenon
    <3>4. h[1] \in Layout /\ h[2] \in Layout
      <4>1. 1 \in 0..3 /\ 2 \in 0..3
        OBVIOUS
      <4>2. QED
        BY <3>1, <4>1, Zenon
    <3>5. QED
      BY <3>1, <3>2, <3>3, <3>4, Zenon
  <2>3. Fs[1] \in Layout /\ Fs[2] \in Layout /\ Fs[3] \in Layout
        /\ SaysIn(Fs[1]) = <<<<o[1]>>>> /\ SaysIn(Fs[2]) = <<<<o[2]>>>>
        /\ SaysIn(Fs[3]) = <<<<o[3]>>>>
    BY <1>3, <1>4
  <2>4. SaysIn(h[1]) = <<>> \o <<<<o[1]>>>>
    BY <2>2, <2>3, LayoutEmpty, LayoutJoin
  <2>5. SaysIn(h[2]) = SaysIn(h[1]) \o <<<<o[2]>>>>
    BY <2>2, <2>3, LayoutJoin
  <2>6. SaysIn(h[3]) = SaysIn(h[2]) \o <<<<o[3]>>>>
    BY <2>2, <2>3, LayoutJoin
  <2> DEFINE x == <<o[1]>>
             y == <<o[2]>>
             z == <<o[3]>>
  <2> HIDE DEF x, y, z
  <2>7. <<>> \o <<x>> = <<x>> /\ <<x>> \o <<y>> = <<x, y>> /\ <<x, y>> \o <<z>> = <<x, y, z>>
    <3>1. x \in Says /\ y \in Says /\ z \in Says
      BY <1>3 DEF x, y, z
    <3>2. <<>> \o <<x>> = <<x>>
      BY <3>1
    <3>3. <<x>> \o <<y>> = <<x, y>>
      BY <3>1, PairJoin, Zenon
    <3>4. <<x, y>> \o <<z>> = <<x, y, z>>
      BY <3>1, PairJoin, Zenon
    <3>5. QED
      BY <3>2, <3>3, <3>4
  <2>8. QED
    BY <2>2, <2>4, <2>5, <2>6, <2>7 DEF x, y, z
<1>9. QED
  BY <1>2, <1>4, <1>5, <1>6, <1>7, <1>8 DEF Fs

LEMMA PnegsRead ==
  ASSUME NEW o \in WholePlace, NEW b, NEW r \in Reader, Lies(b, r.at, Pnegs(o))
  PROVE  ReadsTo(r, Pnegs(o), GetPnegs(b, r))
<1> DEFINE Fs == [i \in DOMAIN o |-> Pneg(o[i])]
           f == [p \in Nat |-> GetPneg(b, One(p))]
<1>1. Fs \in Seq(Layout) /\ Len(Fs) = 3 /\ Pnegs(o) = FlattenSeq(Fs)
      /\ \A i \in 1..3 : Fs[i] = Pneg(o[i])
  BY PnegsTyped
<1>2. \A p \in Nat : f[p] = GetPneg(b, One(p))
  OBVIOUS
<1>3. GetPnegs(b, r) = Several(3, f, r)
  BY DEF GetPnegs
<1> HIDE DEF Fs, f
<1>4. ASSUME NEW i \in 1..Len(Fs), NEW p \in Nat, Lies(b, p, Fs[i])
      PROVE  ReadsTo(One(p), Fs[i], f[p])
  <2>1. i \in 1..3 /\ Fs[i] = Pneg(o[i]) /\ One(p) \in Reader /\ One(p).at = p
    BY <1>1, OneReads
  <2>2. ReadsTo(One(p), Pneg(o[i]), GetPneg(b, One(p)))
    BY <1>4, <2>1, OriginIs, PnegReads
  <2>3. QED
    BY <1>2, <2>1, <2>2
<1>5. ReadBy(b, f, Fs)
  BY <1>4 DEF ReadBy
<1>6. ReadsTo(r, FlattenSeq(Fs), Several(Len(Fs), f, r))
  BY <1>1, <1>5, SeveralReads
<1>7. QED
  BY <1>1, <1>3, <1>6

(* The origin of the blocks is found in what was read last.                 *)
LEMMA OriginRead ==
  ASSUME NEW o \in WholePlace, NEW r \in Reader, NEW s, ReadsTo(r, Pnegs(o), s)
  PROVE  [i \in 1..3 |-> s.got[Len(s.got) - 3 + i][1]] = o
<1> DEFINE t == <<<<o[1]>>, <<o[2]>>, <<o[3]>>>>
           g == r.got
<1>1. s.got = g \o t
  BY PnegsTyped DEF ReadsTo
<1>2. g \in Seq(Says) /\ Len(g) \in Nat
  BY ReaderIs
<1>3. t \in Seq(Says) /\ Len(t) = 3 /\ \A i \in 1..3 : t[i] = <<o[i]>>
  <2>1. <<o[1]>> \in Says /\ <<o[2]>> \in Says /\ <<o[3]>> \in Says
    BY OriginIs, PnegTyped
  <2>2. QED
    BY <2>1
<1> HIDE DEF t, g
<1>4. Len(g \o t) = Len(g) + 3 /\ Joined(g \o t, g, t)
  BY <1>2, <1>3, LenJoin, JoinAt
<1>5. ASSUME NEW i \in 1..3 PROVE s.got[Len(s.got) - 3 + i][1] = o[i]
  <2>1. Len(s.got) - 3 + i = Len(g) + i
    BY <1>1, <1>2, <1>4
  <2>2. (g \o t)[Len(g) + i] = t[i]
    BY <1>3, <1>4 DEF Joined
  <2>3. QED
    BY <1>1, <1>3, <2>1, <2>2
<1>6. o = [i \in 1..3 |-> o[i]]
  BY OriginIs
<1>7. QED
  BY <1>5, <1>6

-----------------------------------------------------------------------------
(* Captchas and their answers.                                              *)
Captcha1 == [puzzle : Number(64), answers : Few(4, Number(4))]
CaptchaFields(c) == Wide(c.puzzle, 64) \o Numbers(c.answers, 4, 4)
CaptchaList(cs) == [i \in DOMAIN cs |-> CaptchaFields(cs[i])]

LEMMA CaptchaTyped ==
  ASSUME NEW c \in Captcha1
  PROVE  /\ CaptchaFields(c) \in Layout /\ Wide(c.puzzle, 64) \in Layout /\ Numbers(c.answers, 4, 4) \in Layout
         /\ Wide(c.puzzle, 64) \o Num(Len(c.answers), 4) \o All(c.answers, 4) = CaptchaFields(c)
         /\ c.puzzle \in Number(64) /\ c.answers \in Few(4, Number(4))
         /\ Size(Wide(c.puzzle, 64)) = 64
<1>1. c.puzzle \in Number(64) /\ c.answers \in Few(4, Number(4))
  BY DEF Captcha1
<1> DEFINE A == Wide(c.puzzle, 64)
           B == Num(Len(c.answers), 4)
           C == All(c.answers, 4)
<1>2. A \in Layout /\ Size(A) = 64
  BY <1>1, WideTyped
<1>3. B \in Layout /\ C \in Layout /\ Numbers(c.answers, 4, 4) \in Layout /\ Numbers(c.answers, 4, 4) = B \o C
  BY <1>1, NumbersTyped DEF Numbers
<1> HIDE DEF A, B, C
<1>4. (A \o B) \o C = A \o (B \o C)
  BY <1>2, <1>3, LayoutAssociative
<1>5. A \o (B \o C) \in Layout
  BY <1>2, <1>3, LayoutJoin
<1>6. QED
  BY <1>1, <1>2, <1>3, <1>4, <1>5 DEF A, B, C, CaptchaFields

LEMMA CaptchaReads ==
  ASSUME NEW c \in Captcha1, NEW b, NEW r \in Reader, Lies(b, r.at, CaptchaFields(c))
  PROVE  ReadsTo(r, CaptchaFields(c), GetAnswers(b, Get(b, r, 64)))
<1> DEFINE A == Wide(c.puzzle, 64)
           B == Numbers(c.answers, 4, 4)
           s == Get(b, r, 64)
<1>1. A \in Layout /\ B \in Layout /\ CaptchaFields(c) = A \o B
      /\ c.puzzle \in Number(64) /\ c.answers \in Few(4, Number(4))
  BY CaptchaTyped DEF CaptchaFields
<1> HIDE DEF A, B, s
<1>2. Lies(b, r.at, A)
  BY <1>1, LiesJoin
<1>3. ReadsTo(r, A, s)
  BY <1>1, <1>2, WideReads DEF A, s
<1>4. s \in Reader /\ Lies(b, s.at, B)
  BY <1>1, <1>3, Then
<1>5. ReadsTo(s, B, GetAnswers(b, s))
  BY <1>1, <1>4, NumbersRead DEF B, GetAnswers
<1>6. QED
  BY <1>1, <1>3, <1>5, ReadsJoin DEF s

LEMMA CaptchaPassed ==
  ASSUME NEW c \in Captcha1, NEW b, NEW p, Lies(b, p, CaptchaFields(c))
  PROVE  SkipSized(b, Skip(b, p, 64), 4, 4) = p + Size(CaptchaFields(c))
<1> DEFINE A == Wide(c.puzzle, 64)
           B == Numbers(c.answers, 4, 4)
<1>1. A \in Layout /\ B \in Layout /\ CaptchaFields(c) = A \o B /\ Size(A) = 64
      /\ c.puzzle \in Number(64) /\ c.answers \in Few(4, Number(4))
  BY CaptchaTyped DEF CaptchaFields
<1> HIDE DEF A, B
<1>2. Lies(b, p, A) /\ Lies(b, p + 64, B) /\ Size(A \o B) = 64 + Size(B) /\ Size(B) \in Nat /\ p \in Nat
  <2>1. Lies(b, p, A) /\ Lies(b, p + 64, B)
    BY <1>1, LiesJoin
  <2>2. Size(A \o B) = 64 + Size(B)
    BY <1>1, LayoutJoin
  <2>3. Size(B) \in Nat
    BY <1>1, LayoutTyped
  <2>4. QED
    BY <2>1, <2>2, <2>3 DEF Lies
<1>3. Skip(b, p, 64) = p + 64
  BY <1>1, <1>2, PassedOver
<1>4. SkipSized(b, p + 64, 4, 4) = (p + 64) + Size(B)
  BY <1>1, <1>2, NumbersPassed DEF B
<1>5. QED
  BY <1>1, <1>2, <1>3, <1>4

LEMMA CaptchasTyped ==
  ASSUME NEW cs \in CaptchaSet
  PROVE  /\ cs \in Seq(Captcha1) /\ CaptchaList(cs) \in Seq(Layout)
         /\ Len(CaptchaList(cs)) = Len(cs) /\ Len(cs) < 2^4
         /\ \A i \in 1..Len(cs) : CaptchaList(cs)[i] = CaptchaFields(cs[i]) /\ cs[i] \in Captcha1
         /\ Captchas(cs) = Counted(4, CaptchaList(cs)) /\ Captchas(cs) \in Layout
<1> DEFINE n == Len(cs)
           Fs == CaptchaList(cs)
           Gs == [i \in DOMAIN cs |-> Wide(cs[i].puzzle, 64) \o Num(Len(cs[i].answers), 4)
                                        \o All(cs[i].answers, 4)]
<1>1. cs \in Seq(Captcha1) /\ n < 2^4 /\ n \in Nat /\ DOMAIN cs = 1..n
  BY DEF CaptchaSet, Few, Captcha1
<1>2. \A i \in 1..n : cs[i] \in Captcha1
  BY <1>1
<1>3. \A i \in 1..n : CaptchaFields(cs[i]) \in Layout
        /\ Wide(cs[i].puzzle, 64) \o Num(Len(cs[i].answers), 4) \o All(cs[i].answers, 4) = CaptchaFields(cs[i])
  BY <1>2, CaptchaTyped
<1>4. Fs = [i \in 1..n |-> CaptchaFields(cs[i])]
  BY <1>1 DEF CaptchaList
<1>5. Fs \in [1..n -> Layout] /\ \A i \in 1..n : Fs[i] = CaptchaFields(cs[i])
  BY <1>3, <1>4
<1>6. Gs = Fs
  BY <1>1, <1>3, <1>4
<1>7. Captchas(cs) = Num(n, 4) \o FlattenSeq(Gs)
  BY DEF Captchas, Each
<1> HIDE DEF n, Fs, Gs
<1>8. Fs \in Seq(Layout) /\ Len(Fs) = n
  BY <1>1, <1>5, IsList
<1>9. Captchas(cs) = Counted(4, Fs)
  BY <1>6, <1>7, <1>8 DEF Counted
<1>10. Counted(4, Fs) \in Layout
  BY <1>8, CountedTyped
<1>11. QED
  BY <1>1, <1>2, <1>5, <1>8, <1>9, <1>10 DEF n, Fs

LEMMA CaptchasRead ==
  ASSUME NEW cs \in CaptchaSet, NEW b, NEW r \in Reader, Lies(b, r.at, Captchas(cs))
  PROVE  ReadsTo(r, Captchas(cs), GetCaptchas(b, r))
<1> DEFINE Fs == CaptchaList(cs)
           f == [p \in Nat |-> GetAnswers(b, Get(b, One(p), 64))]
<1>1. /\ Fs \in Seq(Layout) /\ Len(Fs) = Len(cs) /\ Len(Fs) < 2^4 /\ Captchas(cs) = Counted(4, Fs)
      /\ \A i \in 1..Len(cs) : Fs[i] = CaptchaFields(cs[i]) /\ cs[i] \in Captcha1
  BY CaptchasTyped
<1>2. \A p \in Nat : f[p] = GetAnswers(b, Get(b, One(p), 64))
  OBVIOUS
<1>3. GetCaptchas(b, r) = GetEach(b, r, 4, f)
  BY DEF GetCaptchas
<1> HIDE DEF Fs, f
<1>4. ASSUME NEW i \in 1..Len(Fs), NEW p \in Nat, Lies(b, p, Fs[i])
      PROVE  ReadsTo(One(p), Fs[i], f[p])
  <2>1. Fs[i] = CaptchaFields(cs[i]) /\ cs[i] \in Captcha1 /\ One(p) \in Reader /\ One(p).at = p
    BY <1>1, OneReads
  <2>2. QED
    BY <1>2, <1>4, <2>1, CaptchaReads
<1>5. ReadBy(b, f, Fs)
  BY <1>4 DEF ReadBy
<1>6. 4 \in 0..30
  OBVIOUS
<1>7. QED
  BY <1>1, <1>3, <1>5, <1>6, CountedReads

LEMMA CaptchasPassed ==
  ASSUME NEW cs \in CaptchaSet, NEW b, NEW p, Lies(b, p, Captchas(cs))
  PROVE  SkipCaptchas(b, p) = p + Size(Captchas(cs))
<1> DEFINE Fs == CaptchaList(cs)
           f == [q \in Int |-> SkipSized(b, Skip(b, q, 64), 4, 4)]
<1>1. /\ Fs \in Seq(Layout) /\ Len(Fs) = Len(cs) /\ Len(Fs) < 2^4 /\ Captchas(cs) = Counted(4, Fs)
      /\ \A i \in 1..Len(cs) : Fs[i] = CaptchaFields(cs[i]) /\ cs[i] \in Captcha1
  BY CaptchasTyped
<1>2. \A q \in Nat : f[q] = SkipSized(b, Skip(b, q, 64), 4, 4)
  OBVIOUS
<1>3. SkipCaptchas(b, p) = SkipEach(b, p, 4, f)
  BY DEF SkipCaptchas
<1> HIDE DEF Fs, f
<1>4. ASSUME NEW i \in 1..Len(Fs), NEW q \in Nat, Lies(b, q, Fs[i])
      PROVE  f[q] = q + Size(Fs[i])
  <2>1. Fs[i] = CaptchaFields(cs[i]) /\ cs[i] \in Captcha1
    BY <1>1
  <2>2. QED
    BY <1>2, <1>4, <2>1, CaptchaPassed
<1>5. PassedBy(b, f, Fs)
  BY <1>4 DEF PassedBy
<1>6. 4 \in Nat
  OBVIOUS
<1>7. QED
  BY <1>1, <1>3, <1>5, <1>6, CountedPassed, ZenonT(60)

(* Three layouts one after another.                                         *)
LEMMA ThreeTyped ==
  ASSUME NEW F \in Layout, NEW G \in Layout, NEW H \in Layout
  PROVE  /\ F \o G \o H \in Layout /\ G \o H \in Layout
         /\ F \o G \o H = F \o (G \o H)
         /\ Size(G \o H) = Size(G) + Size(H)
<1>1. F \o G \in Layout
  BY LayoutJoin
<1>2. (F \o G) \o H \in Layout
  BY <1>1, LayoutJoin
<1>3. G \o H \in Layout /\ Size(G \o H) = Size(G) + Size(H)
  BY LayoutJoin
<1>4. (F \o G) \o H = F \o (G \o H)
  BY LayoutAssociative
<1>5. QED
  BY <1>2, <1>3, <1>4

LEMMA ThreeLie ==
  ASSUME NEW F \in Layout, NEW G \in Layout, NEW H \in Layout,
         NEW b, NEW r, Lies(b, r.at, F \o G \o H), NEW s, ReadsTo(r, F, s)
  PROVE  /\ Lies(b, s.at, G) /\ s \in Reader
         /\ \A t : ReadsTo(s, G, t) => Lies(b, t.at, H) /\ t \in Reader
<1>1. G \o H \in Layout /\ Lies(b, r.at, F \o (G \o H))
  BY ThreeTyped
<1>2. s \in Reader /\ Lies(b, s.at, G \o H)
  BY <1>1, Then
<1>3. Lies(b, s.at, G)
  BY <1>2, LiesJoin
<1>4. ASSUME NEW t, ReadsTo(s, G, t) PROVE Lies(b, t.at, H) /\ t \in Reader
  BY <1>2, <1>4, Then
<1>5. QED
  BY <1>2, <1>3, <1>4

LEMMA ThreeRead ==
  ASSUME NEW F \in Layout, NEW G \in Layout, NEW H \in Layout, NEW r, NEW s, NEW t, NEW u,
         ReadsTo(r, F, s), ReadsTo(s, G, t), ReadsTo(t, H, u)
  PROVE  ReadsTo(r, F \o G \o H, u)
<1>1. F \o G \in Layout
  BY LayoutJoin
<1>2. ReadsTo(r, F \o G, t)
  BY ReadsJoin
<1>3. QED
  BY <1>1, <1>2, ReadsJoin
-----------------------------------------------------------------------------
(* Lists of ids with the same number of bits after each.                    *)
Tailed(F, w) == \E id \in Ids, G \in Layout : F = Id(id) \o G /\ Size(G) = w

LEMMA TailedPassed ==
  ASSUME NEW F, NEW w \in Nat, Tailed(F, w), NEW b, NEW p, Lies(b, p, F)
  PROVE  Skip(b, SkipId(b, p), w) = p + Size(F)
<1>1. PICK id \in Ids, G \in Layout : F = Id(id) \o G /\ Size(G) = w
  BY DEF Tailed
<1>2. Id(id) \in Layout /\ Size(Id(id)) \in Nat
  BY IdTyped
<1> DEFINE I == Id(id)
<1>3. Lies(b, p, I) /\ Lies(b, p + Size(I), G)
  BY <1>1, <1>2, LiesJoin
<1>4. Size(F) = Size(I) + w
  BY <1>1, <1>2, LayoutJoin
<1>5. SkipId(b, p) = p + Size(I)
  BY <1>3, IdPassed
<1>6. p \in Nat
  BY DEF Lies
<1> HIDE DEF I
<1>7. Skip(b, p + Size(I), w) = (p + Size(I)) + w
  BY <1>1, <1>3, PassedOver
<1>8. QED
  BY <1>2, <1>4, <1>5, <1>6, <1>7 DEF I

LEMMA MovesPassed ==
  ASSUME NEW Fs \in Seq(Layout), Len(Fs) < 2^11, NEW w \in Nat,
         \A i \in 1..Len(Fs) : Tailed(Fs[i], w),
         NEW b, NEW p, Lies(b, p, Counted(11, Fs))
  PROVE  SkipMoves(b, p, w) = p + Size(Counted(11, Fs))
<1> DEFINE f == [z \in Int |-> Skip(b, SkipId(b, z), w)]
<1>1. \A q \in Nat : f[q] = Skip(b, SkipId(b, q), w)
  OBVIOUS
<1>2. SkipMoves(b, p, w) = SkipEach(b, p, 11, f)
  BY DEF SkipMoves
<1> HIDE DEF f
<1>3. ASSUME NEW i \in 1..Len(Fs), NEW q \in Nat, Lies(b, q, Fs[i])
      PROVE  f[q] = q + Size(Fs[i])
  BY <1>1, <1>3, TailedPassed
<1>4. PassedBy(b, f, Fs)
  BY <1>3 DEF PassedBy
<1>5. 11 \in Nat
  OBVIOUS
<1>6. QED
  BY <1>2, <1>4, <1>5, CountedPassed

LEMMA LocalWidths ==
  /\ LocalBits \in Nat /\ RotationBits \in Nat /\ 3 * LocalBits \in Nat /\ 3 * RotationBits \in Nat
  /\ 3 * LocalBits + 2 \in Nat /\ 3 * LocalBits + 3 * RotationBits \in Nat
  BY WidthsNat DEF LocalBits, RotationBits

(* An id, a place and a third layout: a block that was placed, or a move.   *)
PlacedFields(id, at, H) == Id(id) \o All(at, LocalBits) \o H

LEMMA PlacedTyped ==
  ASSUME NEW id \in Ids, NEW at \in Vector(LocalBits), NEW H \in Layout, NEW w \in Nat, Size(H) = w
  PROVE  /\ PlacedFields(id, at, H) \in Layout
         /\ Tailed(PlacedFields(id, at, H), 3 * LocalBits + w)
<1> DEFINE I == Id(id)
           A == All(at, LocalBits)
<1>1. I \in Layout
  BY IdTyped
<1>2. A \in Layout /\ Size(A) = 3 * LocalBits
  BY LocalWidths, VectorTyped
<1>3. I \o A \o H \in Layout /\ A \o H \in Layout /\ I \o A \o H = I \o (A \o H)
      /\ Size(A \o H) = Size(A) + Size(H)
  <2> HIDE DEF I, A
  <2>1. QED BY <1>1, <1>2, ThreeTyped
<1>4. Size(A \o H) = 3 * LocalBits + w
  BY <1>2, <1>3
<1>5. PlacedFields(id, at, H) = I \o A \o H
  BY DEF PlacedFields
<1>6. Tailed(I \o (A \o H), 3 * LocalBits + w)
  <2> HIDE DEF A
  <2>1. QED BY <1>3, <1>4 DEF Tailed
<1>7. QED
  <2> HIDE DEF I, A
  <2>1. QED BY <1>3, <1>5, <1>6

LEMMA PlacedRead ==
  ASSUME NEW id \in Ids, NEW at \in Vector(LocalBits), NEW H \in Layout,
         NEW b, NEW r \in Reader, Lies(b, r.at, PlacedFields(id, at, H))
  PROVE  LET t == GetMany(b, GetId(b, r), LocalBits, 3)
         IN  /\ t \in Reader /\ Lies(b, t.at, H)
             /\ \A u : ReadsTo(t, H, u) => ReadsTo(r, PlacedFields(id, at, H), u)
<1> DEFINE I == Id(id)
           A == All(at, LocalBits)
           s == GetId(b, r)
           t == GetMany(b, s, LocalBits, 3)
<1>1. I \in Layout
  BY IdTyped
<1>2. A \in Layout
  BY LocalWidths, VectorTyped
<1>3. PlacedFields(id, at, H) = I \o A \o H
  BY DEF PlacedFields
<1> HIDE DEF I, A, s, t
<1>4. I \o A \o H \in Layout /\ A \o H \in Layout /\ I \o A \o H = I \o (A \o H)
  BY <1>1, <1>2, ThreeTyped
<1>5. Lies(b, r.at, I)
  BY <1>1, <1>3, <1>4, LiesJoin
<1>6. ReadsTo(r, I, s)
  BY <1>5, IdReads DEF I, s
<1>7. /\ Lies(b, s.at, A) /\ s \in Reader
      /\ \A v : ReadsTo(s, A, v) => Lies(b, v.at, H) /\ v \in Reader
  <2>1. Lies(b, r.at, I \o A \o H)
    BY <1>3
  <2>2. QED
    BY <1>1, <1>2, <1>6, <2>1, ThreeLie
<1>8. ReadsTo(s, A, t)
  BY <1>7, LocalWidths, VectorReads DEF A, t
<1>9. \A u : ReadsTo(t, H, u) => ReadsTo(r, I \o A \o H, u)
  BY <1>1, <1>2, <1>6, <1>8, ThreeRead
<1>10. t \in Reader /\ Lies(b, t.at, H)
  BY <1>7, <1>8
<1>11. QED
  BY <1>3, <1>9, <1>10 DEF s, t
-----------------------------------------------------------------------------
(* Placements.                                                              *)
Placement1 == [id : Ids, at : Vector(LocalBits), rotation : 0..3]
PlacementFields(p) == PlacedFields(p.id, p.at, Num(p.rotation, 2))

LEMMA PlacementTyped ==
  ASSUME NEW x \in Placement1
  PROVE  /\ x.id \in Ids /\ x.at \in Vector(LocalBits) /\ x.rotation \in 0..3
         /\ Num(x.rotation, 2) \in Layout
         /\ PlacementFields(x) \in Layout /\ Tailed(PlacementFields(x), 3 * LocalBits + 2)
         /\ PlacementFields(x) = Id(x.id) \o All(x.at, LocalBits) \o Num(x.rotation, 2)
<1>1. x.id \in Ids /\ x.at \in Vector(LocalBits) /\ x.rotation \in 0..3 /\ x.rotation \in Nat
  BY DEF Placement1
<1>2. Num(x.rotation, 2) \in Layout /\ Size(Num(x.rotation, 2)) = 2 /\ 2 \in Nat
  BY <1>1, FlagTyped
<1>3. PlacementFields(x) \in Layout /\ Tailed(PlacementFields(x), 3 * LocalBits + 2)
  BY <1>1, <1>2, PlacedTyped DEF PlacementFields
<1>4. QED
  BY <1>1, <1>2, <1>3 DEF PlacementFields, PlacedFields

LEMMA PlacementReads ==
  ASSUME NEW x \in Placement1, NEW b, NEW r \in Reader, Lies(b, r.at, PlacementFields(x))
  PROVE  ReadsTo(r, PlacementFields(x), Get(b, GetMany(b, GetId(b, r), LocalBits, 3), 2))
<1> DEFINE t == GetMany(b, GetId(b, r), LocalBits, 3)
           H == Num(x.rotation, 2)
<1>1. x.id \in Ids /\ x.at \in Vector(LocalBits) /\ x.rotation \in 0..3 /\ H \in Layout
  BY PlacementTyped
<1>2. /\ t \in Reader /\ Lies(b, t.at, H)
      /\ \A u : ReadsTo(t, H, u) => ReadsTo(r, PlacementFields(x), u)
  <2>1. Lies(b, r.at, PlacedFields(x.id, x.at, H))
    BY DEF PlacementFields
  <2> HIDE DEF H
  <2>2. QED
    BY <1>1, <2>1, PlacedRead DEF PlacementFields, H
<1> HIDE DEF t
<1>3. ReadsTo(t, H, Get(b, t, 2))
  BY <1>1, <1>2, PairReads
<1>4. QED
  BY <1>2, <1>3 DEF t

LEMMA PlacementsTyped ==
  ASSUME NEW ps \in PlacementSet
  PROVE  \E Fs \in Seq(Layout) :
           /\ Len(Fs) = Len(ps) /\ Len(Fs) < 2^11
           /\ \A i \in 1..Len(Fs) : Fs[i] = PlacementFields(ps[i]) /\ ps[i] \in Placement1
           /\ Placements(ps) = Counted(11, Fs) /\ Placements(ps) \in Layout
<1> DEFINE n == Len(ps)
           Fs == [i \in DOMAIN ps |-> Id(ps[i].id) \o All(ps[i].at, LocalBits) \o Num(ps[i].rotation, 2)]
<1>1. ps \in Seq(Placement1) /\ n < 2^11 /\ n \in Nat /\ DOMAIN ps = 1..n
  BY DEF PlacementSet, Few, Placement1
<1>2. \A i \in 1..n : ps[i] \in Placement1
  BY <1>1
<1>3. \A i \in 1..n : PlacementFields(ps[i]) \in Layout
        /\ Id(ps[i].id) \o All(ps[i].at, LocalBits) \o Num(ps[i].rotation, 2) = PlacementFields(ps[i])
  BY <1>2, PlacementTyped
<1>4. Fs \in [1..n -> Layout] /\ \A i \in 1..n : Fs[i] = PlacementFields(ps[i])
  BY <1>1, <1>3
<1>5. Placements(ps) = Num(n, 11) \o FlattenSeq(Fs)
  BY DEF Placements, Each
<1> HIDE DEF n, Fs
<1>6. Fs \in Seq(Layout) /\ Len(Fs) = n
  BY <1>1, <1>4, IsList
<1>7. Placements(ps) = Counted(11, Fs)
  BY <1>5, <1>6 DEF Counted
<1>8. Counted(11, Fs) \in Layout
  BY <1>6, CountedTyped
<1>9. QED
  BY <1>1, <1>2, <1>4, <1>6, <1>7, <1>8 DEF n

LEMMA PlacementsRead ==
  ASSUME NEW ps \in PlacementSet, NEW b, NEW r \in Reader, Lies(b, r.at, Placements(ps))
  PROVE  ReadsTo(r, Placements(ps), GetPlacements(b, r))
<1> DEFINE f == [p \in Nat |-> Get(b, GetMany(b, GetId(b, One(p)), LocalBits, 3), 2)]
<1>1. PICK Fs \in Seq(Layout) :
        /\ Len(Fs) < 2^11 /\ Placements(ps) = Counted(11, Fs)
        /\ \A i \in 1..Len(Fs) : Fs[i] = PlacementFields(ps[i]) /\ ps[i] \in Placement1
  BY PlacementsTyped
<1>2. \A p \in Nat : f[p] = Get(b, GetMany(b, GetId(b, One(p)), LocalBits, 3), 2)
  OBVIOUS
<1>3. GetPlacements(b, r) = GetEach(b, r, 11, f)
  BY DEF GetPlacements
<1> HIDE DEF f
<1>4. ASSUME NEW i \in 1..Len(Fs), NEW p \in Nat, Lies(b, p, Fs[i])
      PROVE  ReadsTo(One(p), Fs[i], f[p])
  <2>1. Fs[i] = PlacementFields(ps[i]) /\ ps[i] \in Placement1 /\ One(p) \in Reader /\ One(p).at = p
    BY <1>1, OneReads
  <2>2. QED
    BY <1>2, <1>4, <2>1, PlacementReads
<1>5. ReadBy(b, f, Fs)
  BY <1>4 DEF ReadBy
<1>6. 11 \in 0..30
  OBVIOUS
<1>7. QED
  BY <1>1, <1>3, <1>5, <1>6, CountedReads

LEMMA PlacementsPassed ==
  ASSUME NEW ps \in PlacementSet, NEW b, NEW p, Lies(b, p, Placements(ps))
  PROVE  SkipPlacements(b, p) = p + Size(Placements(ps))
<1>1. PICK Fs \in Seq(Layout) :
        /\ Len(Fs) < 2^11 /\ Placements(ps) = Counted(11, Fs)
        /\ \A i \in 1..Len(Fs) : Fs[i] = PlacementFields(ps[i]) /\ ps[i] \in Placement1
  BY PlacementsTyped
<1>2. \A i \in 1..Len(Fs) : Tailed(Fs[i], 3 * LocalBits + 2)
  BY <1>1, PlacementTyped
<1>3. SkipPlacements(b, p) = SkipMoves(b, p, 3 * LocalBits + 2)
  BY DEF SkipPlacements, SkipMoves
<1>4. QED
  BY <1>1, <1>2, <1>3, LocalWidths, MovesPassed

(* The moves of BATCH_POSITION_UPDATE.                                      *)
Move1 == [id : Ids, at : Vector(LocalBits), turn : Angle]
MoveFields(e) == PlacedFields(e.id, e.at, All(e.turn, RotationBits))
Moved(es) ==
  Num(Len(es), 11)
    \o Each(es, LAMBDA e : Id(e.id) \o All(e.at, LocalBits) \o All(e.turn, RotationBits))
GetMoved(b, r) ==
  GetEach(b, r, 11, [p \in Nat |->
                       GetMany(b, GetMany(b, GetId(b, One(p)), LocalBits, 3), RotationBits, 3)])

LEMMA MoveTyped ==
  ASSUME NEW x \in Move1
  PROVE  /\ x.id \in Ids /\ x.at \in Vector(LocalBits) /\ x.turn \in Vector(RotationBits)
         /\ All(x.turn, RotationBits) \in Layout
         /\ MoveFields(x) \in Layout /\ Tailed(MoveFields(x), 3 * LocalBits + 3 * RotationBits)
         /\ MoveFields(x) = Id(x.id) \o All(x.at, LocalBits) \o All(x.turn, RotationBits)
<1>1. x.id \in Ids /\ x.at \in Vector(LocalBits) /\ x.turn \in Vector(RotationBits)
  BY DEF Move1, Angle
<1>2. All(x.turn, RotationBits) \in Layout /\ Size(All(x.turn, RotationBits)) = 3 * RotationBits
  BY <1>1, LocalWidths, VectorTyped
<1>3. MoveFields(x) \in Layout /\ Tailed(MoveFields(x), 3 * LocalBits + 3 * RotationBits)
  BY <1>1, <1>2, LocalWidths, PlacedTyped DEF MoveFields
<1>4. QED
  BY <1>1, <1>2, <1>3 DEF MoveFields, PlacedFields

LEMMA MoveReads ==
  ASSUME NEW x \in Move1, NEW b, NEW r \in Reader, Lies(b, r.at, MoveFields(x))
  PROVE  ReadsTo(r, MoveFields(x),
                 GetMany(b, GetMany(b, GetId(b, r), LocalBits, 3), RotationBits, 3))
<1> DEFINE t == GetMany(b, GetId(b, r), LocalBits, 3)
           H == All(x.turn, RotationBits)
<1>1. x.id \in Ids /\ x.at \in Vector(LocalBits) /\ x.turn \in Vector(RotationBits) /\ H \in Layout
  BY MoveTyped
<1>2. /\ t \in Reader /\ Lies(b, t.at, H)
      /\ \A u : ReadsTo(t, H, u) => ReadsTo(r, MoveFields(x), u)
  <2>1. Lies(b, r.at, PlacedFields(x.id, x.at, H))
    BY DEF MoveFields
  <2> HIDE DEF H
  <2>2. QED
    BY <1>1, <2>1, PlacedRead DEF MoveFields, H
<1> HIDE DEF t
<1>3. ReadsTo(t, H, GetMany(b, t, RotationBits, 3))
  BY <1>1, <1>2, LocalWidths, VectorReads
<1>4. QED
  BY <1>2, <1>3 DEF t

LEMMA MovedTyped ==
  ASSUME NEW es \in Few(11, Move1)
  PROVE  \E Fs \in Seq(Layout) :
           /\ Len(Fs) = Len(es) /\ Len(Fs) < 2^11
           /\ \A i \in 1..Len(Fs) : Fs[i] = MoveFields(es[i]) /\ es[i] \in Move1
           /\ Moved(es) = Counted(11, Fs) /\ Moved(es) \in Layout
<1> DEFINE n == Len(es)
           Fs == [i \in DOMAIN es |-> Id(es[i].id) \o All(es[i].at, LocalBits)
                                        \o All(es[i].turn, RotationBits)]
<1>1. es \in Seq(Move1) /\ n < 2^11 /\ n \in Nat /\ DOMAIN es = 1..n
  BY DEF Few
<1>2. \A i \in 1..n : es[i] \in Move1
  BY <1>1
<1>3. \A i \in 1..n : MoveFields(es[i]) \in Layout
        /\ Id(es[i].id) \o All(es[i].at, LocalBits) \o All(es[i].turn, RotationBits) = MoveFields(es[i])
  BY <1>2, MoveTyped
<1>4. Fs \in [1..n -> Layout] /\ \A i \in 1..n : Fs[i] = MoveFields(es[i])
  BY <1>1, <1>3
<1>5. Moved(es) = Num(n, 11) \o FlattenSeq(Fs)
  BY DEF Moved, Each
<1> HIDE DEF n, Fs
<1>6. Fs \in Seq(Layout) /\ Len(Fs) = n
  BY <1>1, <1>4, IsList
<1>7. Moved(es) = Counted(11, Fs)
  BY <1>5, <1>6 DEF Counted
<1>8. Counted(11, Fs) \in Layout
  BY <1>6, CountedTyped
<1>9. QED
  BY <1>1, <1>2, <1>4, <1>6, <1>7, <1>8 DEF n

LEMMA MovedReads ==
  ASSUME NEW es \in Few(11, Move1), NEW b, NEW r \in Reader, Lies(b, r.at, Moved(es))
  PROVE  ReadsTo(r, Moved(es), GetMoved(b, r))
<1> DEFINE f == [p \in Nat |-> GetMany(b, GetMany(b, GetId(b, One(p)), LocalBits, 3), RotationBits, 3)]
<1>1. PICK Fs \in Seq(Layout) :
        /\ Len(Fs) < 2^11 /\ Moved(es) = Counted(11, Fs)
        /\ \A i \in 1..Len(Fs) : Fs[i] = MoveFields(es[i]) /\ es[i] \in Move1
  BY MovedTyped
<1>2. \A p \in Nat : f[p] = GetMany(b, GetMany(b, GetId(b, One(p)), LocalBits, 3), RotationBits, 3)
  OBVIOUS
<1>3. GetMoved(b, r) = GetEach(b, r, 11, f)
  BY DEF GetMoved
<1> HIDE DEF f
<1>4. ASSUME NEW i \in 1..Len(Fs), NEW p \in Nat, Lies(b, p, Fs[i])
      PROVE  ReadsTo(One(p), Fs[i], f[p])
  <2>1. Fs[i] = MoveFields(es[i]) /\ es[i] \in Move1 /\ One(p) \in Reader /\ One(p).at = p
    BY <1>1, OneReads
  <2>2. QED
    BY <1>2, <1>4, <2>1, MoveReads
<1>5. ReadBy(b, f, Fs)
  BY <1>4 DEF ReadBy
<1>6. 11 \in 0..30
  OBVIOUS
<1>7. QED
  BY <1>1, <1>3, <1>5, <1>6, CountedReads

LEMMA MovedPassed ==
  ASSUME NEW es \in Few(11, Move1), NEW b, NEW p, Lies(b, p, Moved(es))
  PROVE  SkipMoves(b, p, 3 * LocalBits + 3 * RotationBits) = p + Size(Moved(es))
<1>1. PICK Fs \in Seq(Layout) :
        /\ Len(Fs) < 2^11 /\ Moved(es) = Counted(11, Fs)
        /\ \A i \in 1..Len(Fs) : Fs[i] = MoveFields(es[i]) /\ es[i] \in Move1
  BY MovedTyped
<1>2. \A i \in 1..Len(Fs) : Tailed(Fs[i], 3 * LocalBits + 3 * RotationBits)
  BY <1>1, MoveTyped
<1>3. QED
  BY <1>1, <1>2, LocalWidths, MovesPassed
-----------------------------------------------------------------------------
(* The entries of RESYNC.                                                   *)
Life1 == [id : Ids, alive : 0..1]
LifeFields(e) == Id(e.id) \o Num(e.alive, 1)
Lived(es) == Num(Len(es), 11) \o Each(es, LAMBDA e : Id(e.id) \o Num(e.alive, 1))
GetLived(b, r) == GetEach(b, r, 11, [p \in Nat |-> Get(b, GetId(b, One(p)), 1)])

LEMMA LifeTyped ==
  ASSUME NEW x \in Life1
  PROVE  /\ x.id \in Ids /\ x.alive \in 0..1 /\ Id(x.id) \in Layout /\ Num(x.alive, 1) \in Layout
         /\ LifeFields(x) \in Layout /\ Tailed(LifeFields(x), 1)
<1>1. x.id \in Ids /\ x.alive \in 0..1 /\ x.alive \in Nat
  BY DEF Life1
<1>2. Num(x.alive, 1) \in Layout /\ Size(Num(x.alive, 1)) = 1 /\ Id(x.id) \in Layout
  BY <1>1, FlagTyped, IdTyped
<1>3. LifeFields(x) \in Layout
  BY <1>2, LayoutJoin DEF LifeFields
<1>4. Tailed(LifeFields(x), 1)
  BY <1>1, <1>2 DEF Tailed, LifeFields
<1>5. QED
  BY <1>1, <1>2, <1>3, <1>4

LEMMA LifeReads ==
  ASSUME NEW x \in Life1, NEW b, NEW r \in Reader, Lies(b, r.at, LifeFields(x))
  PROVE  ReadsTo(r, LifeFields(x), Get(b, GetId(b, r), 1))
<1> DEFINE I == Id(x.id)
           H == Num(x.alive, 1)
           s == GetId(b, r)
<1>1. x.id \in Ids /\ x.alive \in 0..1 /\ I \in Layout /\ H \in Layout /\ LifeFields(x) = I \o H
  BY LifeTyped DEF LifeFields
<1> HIDE DEF I, H, s
<1>2. Lies(b, r.at, I)
  BY <1>1, LiesJoin
<1>3. ReadsTo(r, I, s)
  BY <1>1, <1>2, IdReads DEF I, s
<1>4. s \in Reader /\ Lies(b, s.at, H)
  BY <1>1, <1>3, Then
<1>5. ReadsTo(s, H, Get(b, s, 1))
  BY <1>1, <1>4, FlagReads DEF H
<1>6. QED
  BY <1>1, <1>3, <1>5, ReadsJoin DEF s

LEMMA LivedTyped ==
  ASSUME NEW es \in Few(11, Life1)
  PROVE  \E Fs \in Seq(Layout) :
           /\ Len(Fs) = Len(es) /\ Len(Fs) < 2^11
           /\ \A i \in 1..Len(Fs) : Fs[i] = LifeFields(es[i]) /\ es[i] \in Life1
           /\ Lived(es) = Counted(11, Fs) /\ Lived(es) \in Layout
<1> DEFINE n == Len(es)
           Fs == [i \in DOMAIN es |-> Id(es[i].id) \o Num(es[i].alive, 1)]
<1>1. es \in Seq(Life1) /\ n < 2^11 /\ n \in Nat /\ DOMAIN es = 1..n
  BY DEF Few
<1>2. \A i \in 1..n : es[i] \in Life1
  BY <1>1
<1>3. \A i \in 1..n : LifeFields(es[i]) \in Layout
        /\ Id(es[i].id) \o Num(es[i].alive, 1) = LifeFields(es[i])
  BY <1>2, LifeTyped DEF LifeFields
<1>4. Fs \in [1..n -> Layout] /\ \A i \in 1..n : Fs[i] = LifeFields(es[i])
  BY <1>1, <1>3
<1>5. Lived(es) = Num(n, 11) \o FlattenSeq(Fs)
  BY DEF Lived, Each
<1> HIDE DEF n, Fs
<1>6. Fs \in Seq(Layout) /\ Len(Fs) = n
  BY <1>1, <1>4, IsList
<1>7. Lived(es) = Counted(11, Fs)
  BY <1>5, <1>6 DEF Counted
<1>8. Counted(11, Fs) \in Layout
  BY <1>6, CountedTyped
<1>9. QED
  BY <1>1, <1>2, <1>4, <1>6, <1>7, <1>8 DEF n

LEMMA LivedReads ==
  ASSUME NEW es \in Few(11, Life1), NEW b, NEW r \in Reader, Lies(b, r.at, Lived(es))
  PROVE  ReadsTo(r, Lived(es), GetLived(b, r))
<1> DEFINE f == [p \in Nat |-> Get(b, GetId(b, One(p)), 1)]
<1>1. PICK Fs \in Seq(Layout) :
        /\ Len(Fs) < 2^11 /\ Lived(es) = Counted(11, Fs)
        /\ \A i \in 1..Len(Fs) : Fs[i] = LifeFields(es[i]) /\ es[i] \in Life1
  BY LivedTyped
<1>2. \A p \in Nat : f[p] = Get(b, GetId(b, One(p)), 1)
  OBVIOUS
<1>3. GetLived(b, r) = GetEach(b, r, 11, f)
  BY DEF GetLived
<1> HIDE DEF f
<1>4. ASSUME NEW i \in 1..Len(Fs), NEW p \in Nat, Lies(b, p, Fs[i])
      PROVE  ReadsTo(One(p), Fs[i], f[p])
  <2>1. Fs[i] = LifeFields(es[i]) /\ es[i] \in Life1 /\ One(p) \in Reader /\ One(p).at = p
    BY <1>1, OneReads
  <2>2. QED
    BY <1>2, <1>4, <2>1, LifeReads
<1>5. ReadBy(b, f, Fs)
  BY <1>4 DEF ReadBy
<1>6. 11 \in 0..30
  OBVIOUS
<1>7. QED
  BY <1>1, <1>3, <1>5, <1>6, CountedReads

LEMMA LivedPassed ==
  ASSUME NEW es \in Few(11, Life1), NEW b, NEW p, Lies(b, p, Lived(es))
  PROVE  SkipMoves(b, p, 1) = p + Size(Lived(es))
<1>1. PICK Fs \in Seq(Layout) :
        /\ Len(Fs) < 2^11 /\ Lived(es) = Counted(11, Fs)
        /\ \A i \in 1..Len(Fs) : Fs[i] = LifeFields(es[i]) /\ es[i] \in Life1
  BY LivedTyped
<1>2. 1 \in Nat /\ \A i \in 1..Len(Fs) : Tailed(Fs[i], 1)
  BY <1>1, LifeTyped
<1>3. QED
  BY <1>1, <1>2, MovesPassed

-----------------------------------------------------------------------------
(***************************************************************************)
(* Blocks in a message.                                                    *)
(***************************************************************************)
(* A list of blocks that a message has room for, and a chunk that can be    *)
(* sent as the registry r names its materials.                              *)
MaterialsOf(bs) == {bs[i].material : i \in DOMAIN bs}
Knows(r, bs) == r \in Registry(Material) /\ \A i \in 1..Len(bs) : bs[i].material \in ToSet(r)
Sendable(c, bs, r) ==
  /\ Holds(c, bs, r) /\ (c.codec = "packed" => c.remap = <<>>)
  /\ \A g \in ToSet(Materials(c)) : g < Len(r)
  /\ Len(Materials(c)) < 2^LengthBits

(* Blocks from an origin, and back at their places.                         *)
LEMMA BlocksAnywhere == \A bs : bs \in Seq(Blocks) => bs \in Seq(AnyBlock)
<1>1. ASSUME NEW x \in Blocks PROVE x \in AnyBlock
  <2>1. \A p \in Place : p \in Int
    BY Bounds DEF Place
  <2>2. QED
    BY <2>1 DEF Blocks, AnyBlock
<1>2. ASSUME NEW bs \in Seq(Blocks) PROVE bs \in Seq(AnyBlock)
  <2>1. Len(bs) \in Nat /\ bs \in [1..Len(bs) -> AnyBlock]
    BY <1>1
  <2>2. QED
    BY <2>1, IsList
<1>3. QED
  BY <1>2

LEMMA AtOrigin ==
  ASSUME NEW bs \in Seq(AnyBlock)
  PROVE  Absolute(bs, <<0, 0, 0>>) = bs
<1>1. ASSUME NEW x \in AnyBlock
      PROVE  [x EXCEPT !.x = @ + 4 * 0, !.y = @ + 4 * 0, !.z = @ + 4 * 0] = x
  <2>1. x.x + 4 * 0 = x.x /\ x.y + 4 * 0 = x.y /\ x.z + 4 * 0 = x.z
    BY DEF AnyBlock
  <2>2. [x EXCEPT !.x = x.x, !.y = x.y, !.z = x.z] = x
    BY DEF AnyBlock
  <2>3. QED
    BY <2>1, <2>2
<1>2. ASSUME NEW i \in DOMAIN bs PROVE Absolute(bs, <<0, 0, 0>>)[i] = bs[i]
  <2>1. bs[i] \in AnyBlock
    OBVIOUS
  <2>2. QED
    BY <1>1, <2>1 DEF Absolute
<1>3. Absolute(bs, <<0, 0, 0>>) = [i \in DOMAIN bs |-> Absolute(bs, <<0, 0, 0>>)[i]]
  BY DEF Absolute
<1>4. bs = [i \in DOMAIN bs |-> bs[i]]
  OBVIOUS
<1>5. QED
  BY <1>2, <1>3, <1>4

LEMMA MovedBack ==
  ASSUME NEW bs \in Seq(AnyBlock), NEW o \in WholePlace
  PROVE  Absolute(Relative(bs, o), o) = bs
<1>1. o[1] \in Int /\ o[2] \in Int /\ o[3] \in Int
  BY OriginIs
<1> DEFINE back(x, a, b, c) == [x EXCEPT !.x = @ + 4 * a, !.y = @ + 4 * b, !.z = @ + 4 * c]
           away(x, a, b, c) == [x EXCEPT !.x = @ - 4 * a, !.y = @ - 4 * b, !.z = @ - 4 * c]
<1>2. ASSUME NEW x \in AnyBlock, NEW a \in Int, NEW b \in Int, NEW c \in Int
      PROVE  back(away(x, a, b, c), a, b, c) = x
  <2>1. \A p, q \in Int : (p - 4 * q) + 4 * q = p
    OBVIOUS
  <2>2. QED
    BY <2>1 DEF AnyBlock
<1>3. DOMAIN Relative(bs, o) = DOMAIN bs
      /\ \A i \in DOMAIN bs : Relative(bs, o)[i] = away(bs[i], o[1], o[2], o[3])
  BY DEF Relative
<1>4. DOMAIN Absolute(Relative(bs, o), o) = DOMAIN bs
      /\ \A i \in DOMAIN bs :
           Absolute(Relative(bs, o), o)[i] = back(Relative(bs, o)[i], o[1], o[2], o[3])
  BY <1>3 DEF Absolute
<1>5. Absolute(Relative(bs, o), o) = [i \in DOMAIN bs |-> Absolute(Relative(bs, o), o)[i]]
  BY <1>3 DEF Absolute
<1>6. \A i \in DOMAIN bs : bs[i] \in AnyBlock
  OBVIOUS
<1> HIDE DEF back, away
<1>7. \A i \in DOMAIN bs : Absolute(Relative(bs, o), o)[i] = bs[i]
  BY <1>1, <1>2, <1>3, <1>4, <1>6
<1>8. bs = [i \in DOMAIN bs |-> bs[i]]
  OBVIOUS
<1>9. QED
  BY <1>5, <1>7, <1>8

(* Their materials are the same, wherever they are.                         *)
LEMMA RelativeKnown ==
  ASSUME NEW bs \in Seq(AnyBlock), NEW o, NEW known, Knows(known, bs)
  PROVE  Len(Relative(bs, o)) = Len(bs) /\ Knows(known, Relative(bs, o))
<1>1. DOMAIN Relative(bs, o) = 1..Len(bs) /\ Len(bs) \in Nat
  BY DEF Relative
<1>2. Len(Relative(bs, o)) = Len(bs)
  BY <1>1
<1>3. ASSUME NEW i \in 1..Len(bs) PROVE Relative(bs, o)[i].material = bs[i].material
  <2>1. bs[i] \in AnyBlock
    OBVIOUS
  <2>2. \A x \in AnyBlock : \A p, q, r :
          [x EXCEPT !.x = p, !.y = q, !.z = r].material = x.material
    BY DEF AnyBlock
  <2>3. Relative(bs, o)[i] = [bs[i] EXCEPT !.x = bs[i].x - 4 * o[1], !.y = bs[i].y - 4 * o[2],
                                           !.z = bs[i].z - 4 * o[3]]
    BY <1>1 DEF Relative
  <2>4. QED
    BY <2>1, <2>2, <2>3
<1>4. QED
  BY <1>2, <1>3 DEF Knows

(* The indices of the materials are not more than the materials.            *)
IndicesOf(bs, r) == {IndexIn(r, m) : m \in MaterialsOf(bs)}

LEMMA IndicesFew ==
  ASSUME NEW bs \in Seq(Blocks), NEW r, Knows(r, bs)
  PROVE  /\ IsFiniteSet(IndicesOf(bs, r)) /\ IndicesOf(bs, r) \in SUBSET (0..(Len(r) - 1))
         /\ Cardinality(IndicesOf(bs, r)) <= Cardinality(MaterialsOf(bs))
         /\ Cardinality(IndicesOf(bs, r)) \in Nat /\ Cardinality(MaterialsOf(bs)) \in Nat
         /\ \A i \in 1..Len(bs) : IndexIn(r, bs[i].material) \in IndicesOf(bs, r)
<1> DEFINE M == MaterialsOf(bs)
           S == IndicesOf(bs, r)
           f == [m \in M |-> IndexIn(r, m)]
<1>1. r \in Seq(Material) /\ Len(r) \in Nat
  BY DEF Knows, Registry
<1>2. ASSUME NEW i \in 1..Len(bs)
      PROVE  bs[i].material \in Material /\ IndexIn(r, bs[i].material) \in 0..(Len(r) - 1)
  <2>1. bs[i] \in Blocks
    OBVIOUS
  <2>2. bs[i].material \in ToSet(r) /\ bs[i].material \in Material
    BY <2>1, BlockIs DEF Knows
  <2>3. IndexIn(r, bs[i].material) \in Nat /\ IndexIn(r, bs[i].material) + 1 \in 1..Len(r)
    BY <1>1, <2>2, IndexFound
  <2>4. QED
    BY <1>1, <2>2, <2>3
<1>3. DOMAIN bs = 1..Len(bs)
  OBVIOUS
<1>4. M \in SUBSET Material /\ IsFiniteSet(Material)
  BY <1>2, <1>3, StorageAssumption DEF MaterialsOf
<1>5. IsFiniteSet(M)
  BY <1>4, FS_Subset
<1>6. S = {IndexIn(r, m) : m \in M}
  BY DEF IndicesOf
<1>7. f \in Surjection(M, S)
  <2> HIDE DEF M, S
  <2>1. f \in [M -> S] /\ \A s \in S : \E m \in M : f[m] = s
    BY <1>6
  <2> HIDE DEF f
  <2>2. QED
    BY <2>1 DEF Surjection
<1>8. IsFiniteSet(S) /\ Cardinality(S) <= Cardinality(M)
  BY <1>5, <1>7, FS_Surjection
<1>9. Cardinality(S) \in Nat /\ Cardinality(M) \in Nat
  BY <1>5, <1>8, FS_CardinalityType
<1>10. \A i \in 1..Len(bs) : bs[i].material \in M
  BY <1>3 DEF MaterialsOf
<1>11. \A i \in 1..Len(bs) : IndexIn(r, bs[i].material) \in S
  BY <1>6, <1>10
<1>12. ASSUME NEW s \in S PROVE s \in 0..(Len(r) - 1)
  <2>1. PICK m \in M : s = IndexIn(r, m)
    BY <1>6
  <2>2. PICK i \in 1..Len(bs) : m = bs[i].material
    BY <1>3 DEF MaterialsOf
  <2>3. QED
    BY <1>2, <2>1, <2>2
<1>13. QED
  BY <1>8, <1>9, <1>11, <1>12

LEMMA AscendingLong ==
  ASSUME NEW S, Cardinality(S) \in Nat
  PROVE  Len(Ascending(S)) = Cardinality(S)
  BY DEF Ascending

(* Unless the materials are more than can be counted, what was packed can   *)
(* be sent.                                                                 *)
LEMMA PackedSendable ==
  ASSUME NEW bs \in Seq(Blocks), bs # <<>>, NEW r, Knows(r, bs),
         Cardinality(MaterialsOf(bs)) < 2^LengthBits
  PROVE  Sendable(Pack("packed", bs, r), bs, r)
<1> DEFINE c == Pack("packed", bs, r)
           S == IndicesOf(bs, r)
           n == Len(bs)
           F == {Field(c.data, i - 1, 5, PackedWidths) : i \in 1..c.count}
<1>1. Holds(c, bs, r)
  <2>1. "packed" \in {"packed", "range"}
    OBVIOUS
  <2>2. QED
    BY <2>1, Packs DEF Knows
<1>2. c.codec = "packed" /\ c.remap = <<>> /\ c.count = n
  BY DEF Pack, PackPacked
<1>3. Materials(c) = Ascending(F)
  BY <1>2 DEF Materials
<1>4. r \in Seq(Material) /\ Len(r) \in Nat /\ \A i, j \in 1..Len(r) : r[i] = r[j] => i = j
  BY DEF Knows, Registry
<1>5. /\ IsFiniteSet(S) /\ S \in SUBSET (0..(Len(r) - 1))
      /\ Cardinality(S) <= Cardinality(MaterialsOf(bs))
      /\ Cardinality(S) \in Nat /\ Cardinality(MaterialsOf(bs)) \in Nat
      /\ \A i \in 1..n : IndexIn(r, bs[i].material) \in S
  BY IndicesFew
<1>6. S = {IndexIn(r, bs[i].material) : i \in 1..n}
  <2>1. DOMAIN bs = 1..n
    OBVIOUS
  <2>2. MaterialsOf(bs) = {bs[i].material : i \in 1..n}
    BY <2>1 DEF MaterialsOf
  <2>3. S = {IndexIn(r, m) : m \in MaterialsOf(bs)}
    BY DEF IndicesOf
  <2> HIDE DEF S
  <2>4. QED
    BY <2>2, <2>3
<1> HIDE DEF c, S
<1>7. PICK idx \in [1..n -> Nat] : HoldsPacked(c, bs, r, idx)
  <2>1. PICK idx \in [1..n -> Nat] : HoldsPacked(c, bs, r, idx) \/ HoldsRange(c, bs, r, idx)
    BY <1>1 DEF Holds
  <2>2. ~HoldsRange(c, bs, r, idx)
    BY <1>2 DEF HoldsRange, RangeShape
  <2>3. QED
    BY <2>1, <2>2
<1>8. ASSUME NEW i \in 1..n PROVE Field(c.data, i - 1, 5, PackedWidths) = IndexIn(r, bs[i].material)
  <2>1. Field(c.data, i - 1, 5, PackedWidths) = idx[i]
    BY <1>7, PackedKept
  <2>2. Named(r, Local(c, idx[i]), bs[i].material)
    BY <1>7 DEF HoldsPacked
  <2>3. Local(c, idx[i]) = idx[i]
    <3>1. idx[i] \notin DOMAIN <<>>
      OBVIOUS
    <3>2. QED
      BY <1>2, <3>1 DEF Local
  <2>4. bs[i].material \in ToSet(r)
    BY DEF Knows
  <2>5. /\ IndexIn(r, bs[i].material) \in Nat /\ IndexIn(r, bs[i].material) + 1 \in 1..Len(r)
        /\ r[IndexIn(r, bs[i].material) + 1] = bs[i].material
    BY <1>4, <2>4, IndexFound
  <2>6. idx[i] \in Nat /\ idx[i] + 1 \in 1..Len(r) /\ r[idx[i] + 1] = bs[i].material
    BY <2>2, <2>3 DEF Named
  <2> DEFINE g == IndexIn(r, bs[i].material)
             h == idx[i]
  <2>7. g + 1 = h + 1 /\ g \in Nat /\ h \in Nat
    BY <1>4, <2>5, <2>6
  <2> HIDE DEF g, h
  <2>8. g = h
    BY <2>7
  <2>9. QED
    BY <2>1, <2>8 DEF g, h
<1>9. F = S
  <2>1. F = {Field(c.data, i - 1, 5, PackedWidths) : i \in 1..n}
    BY <1>2
  <2>2. {Field(c.data, i - 1, 5, PackedWidths) : i \in 1..n} = {IndexIn(r, bs[i].material) : i \in 1..n}
    BY <1>8
  <2> HIDE DEF F
  <2>3. QED
    BY <1>6, <2>1, <2>2
<1> HIDE DEF F
<1>10. /\ Materials(c) \in Seq(Nat) /\ \A i \in 1..Len(Materials(c)) : Materials(c)[i] \in S
       /\ Len(Materials(c)) = Cardinality(S)
  <2>1. Len(Ascending(S)) = Cardinality(S)
    BY <1>5, AscendingLong
  <2>2. Ascending(S) \in Seq(Nat) /\ \A i \in 1..Len(Ascending(S)) : Ascending(S)[i] \in S
    BY <1>4, <1>5, AscendingHas
  <2>3. QED
    BY <1>3, <1>9, <2>1, <2>2
<1>11. ASSUME NEW g \in ToSet(Materials(c)) PROVE g < Len(r)
  <2>1. g \in S
    BY <1>10, ToSetIs
  <2>2. g \in 0..(Len(r) - 1)
    BY <1>5, <2>1
  <2>3. QED
    BY <1>4, <2>2
<1>12. Len(Materials(c)) < 2^LengthBits
  <2> DEFINE top == 2^LengthBits
  <2>1. top \in Nat /\ Cardinality(MaterialsOf(bs)) < top
    BY PowerOfTwo DEF LengthBits
  <2> HIDE DEF top
  <2>2. Len(Materials(c)) < top
    BY <1>5, <1>10, <2>1
  <2>3. QED
    BY <2>2 DEF top
<1>13. QED
  BY <1>1, <1>2, <1>11, <1>12 DEF Sendable, c

LEMMA RangeSendable ==
  ASSUME NEW bs \in Seq(Blocks), bs # <<>>, NEW r, Knows(r, bs),
         Cardinality(MaterialsOf(bs)) < 2^LengthBits
  PROVE  Sendable(Pack("range", bs, r), bs, r)
<1> DEFINE c == Pack("range", bs, r)
           S == IndicesOf(bs, r)
           n == Len(bs)
           ms == [i \in DOMAIN bs |-> IndexIn(r, bs[i].material)]
           used == Palette(bs, r)
<1>1. Holds(c, bs, r)
  <2>1. "range" \in {"packed", "range"}
    OBVIOUS
  <2>2. QED
    BY <2>1, Packs DEF Knows
<1>2. c.codec = "range" /\ c.palette = used
  BY DEF Pack, PackRange
<1>3. Materials(c) = used
  BY <1>2 DEF Materials
<1>4. Len(r) \in Nat
  BY DEF Knows, Registry
<1>5. /\ IsFiniteSet(S) /\ S \in SUBSET (0..(Len(r) - 1))
      /\ Cardinality(S) <= Cardinality(MaterialsOf(bs))
      /\ Cardinality(S) \in Nat /\ Cardinality(MaterialsOf(bs)) \in Nat
      /\ \A i \in 1..n : IndexIn(r, bs[i].material) \in S
  BY IndicesFew
<1>6. used = FoldLeft(Known, <<>>, ms)
  BY DEF Palette
<1>7. ms \in Seq(S)
  <2>1. DOMAIN bs = 1..n /\ n \in Nat
    OBVIOUS
  <2> HIDE DEF S
  <2>2. ms \in [1..n -> S]
    BY <1>5, <2>1
  <2> HIDE DEF ms
  <2>3. QED
    BY <2>1, <2>2, IsList
<1> HIDE DEF c, S, ms, used
<1>8. <<>> \in Registry(S)
  BY DEF Registry
<1>9. used \in Registry(S)
  BY <1>6, <1>7, <1>8, KnownAll
<1>10. Len(used) <= Cardinality(S)
  BY <1>5, <1>9, RegistrySmall
<1>11. used \in Seq(S) /\ Len(used) \in Nat
  BY <1>9 DEF Registry
<1>12. ASSUME NEW g \in ToSet(used) PROVE g < Len(r)
  <2>1. PICK i \in 1..Len(used) : used[i] = g
    BY <1>11, ToSetIs
  <2>2. g \in S
    BY <1>11, <2>1
  <2>3. g \in 0..(Len(r) - 1)
    BY <1>5, <2>2
  <2>4. QED
    BY <1>4, <2>3
<1>13. Len(used) < 2^LengthBits
  <2> DEFINE top == 2^LengthBits
  <2>1. top \in Nat /\ Cardinality(MaterialsOf(bs)) < top
    BY PowerOfTwo DEF LengthBits
  <2> HIDE DEF top
  <2>2. Len(used) < top
    BY <1>5, <1>10, <1>11, <2>1
  <2>3. QED
    BY <2>2 DEF top
<1>14. QED
  BY <1>1, <1>2, <1>3, <1>12, <1>13 DEF Sendable, c

(* Blocks in a message, from their origin: whether they are range           *)
(* compressed, and the chunk. The field says where the reader has them.     *)
Chest(bs, known) == Pack(Codec(bs), bs, known)
Flag(bs) == IF Codec(bs) = "range" THEN 1 ELSE 0
Packet(bs, said, known) == <<[bits |-> Serialize(Chest(bs, known), known), says |-> said]>>
Holding(bs, said, known, w) == Num(Len(bs), w) \o Payload(bs, said, known)

LEMMA BlockListIs ==
  ASSUME NEW w, NEW bs \in BlockList(w)
  PROVE  bs \in Seq(Blocks) /\ Len(bs) \in Nat /\ Len(bs) < 2^w /\ Cardinality(MaterialsOf(bs)) < 2^LengthBits
  BY DEF BlockList, Few, MaterialsOf

LEMMA ChestSent ==
  ASSUME NEW w, NEW bs \in BlockList(w), bs # <<>>, NEW known, Knows(known, bs)
  PROVE  /\ Sendable(Chest(bs, known), bs, known)
         /\ Chest(bs, known).codec = Codec(bs) /\ Codec(bs) \in {"packed", "range"}
         /\ Flag(bs) \in 0..1 /\ Chest(bs, known).count = Len(bs)
<1>1. bs \in Seq(Blocks) /\ Cardinality(MaterialsOf(bs)) < 2^LengthBits
  BY BlockListIs
<1>2. CASE Codec(bs) = "range"
  BY <1>1, <1>2, RangeSendable DEF Chest, Flag, Pack, PackRange
<1>3. CASE Codec(bs) = "packed"
  BY <1>1, <1>3, PackedSendable DEF Chest, Flag, Pack, PackPacked
<1>4. Codec(bs) = "range" \/ Codec(bs) = "packed"
  BY DEF Codec
<1>5. QED
  BY <1>2, <1>3, <1>4

LEMMA PayloadTyped ==
  ASSUME NEW w \in Nat, NEW bs \in BlockList(w), NEW said \in Says, NEW known, Knows(known, bs)
  PROVE  /\ Payload(bs, said, known) \in Layout /\ Num(Len(bs), w) \in Layout
         /\ Holding(bs, said, known, w) \in Layout /\ Size(Num(Len(bs), w)) = w
         /\ bs # <<>> =>
              /\ Payload(bs, said, known) = Num(Flag(bs), 1) \o Packet(bs, said, known)
              /\ Num(Flag(bs), 1) \in Layout /\ Size(Num(Flag(bs), 1)) = 1
              /\ Packet(bs, said, known) \in Layout
              /\ Serialize(Chest(bs, known), known) \in Seq(Bit)
              /\ BitsIn(Packet(bs, said, known)) = Serialize(Chest(bs, known), known)
              /\ SaysIn(Packet(bs, said, known)) = <<said>>
              /\ Size(Packet(bs, said, known)) = Len(Serialize(Chest(bs, known), known))
<1>1. bs \in Seq(Blocks) /\ Len(bs) \in Nat /\ known \in Registry(Material)
  BY BlockListIs DEF Knows
<1>2. Num(Len(bs), w) \in Layout /\ Size(Num(Len(bs), w)) = w
  BY <1>1, NumTyped
<1>3. CASE bs = <<>>
  <2>1. Payload(bs, said, known) = <<>>
    BY <1>3 DEF Payload
  <2>2. Payload(bs, said, known) \in Layout
    BY <2>1, LayoutEmpty
  <2>3. Holding(bs, said, known, w) \in Layout
    BY <1>2, <2>2, LayoutJoin DEF Holding
  <2>4. QED
    BY <1>2, <1>3, <2>2, <2>3
<1>4. CASE bs # <<>>
  <2> DEFINE c == Chest(bs, known)
             x == Serialize(c, known)
             P == Packet(bs, said, known)
             G == Num(Flag(bs), 1)
  <2>1. Sendable(c, bs, known) /\ Flag(bs) \in 0..1
    BY <1>4, ChestSent
  <2>2. Payload(bs, said, known) = G \o P
    BY <1>4 DEF Payload, Packet, Chest, Flag
  <2>3. Flag(bs) \in Nat
    BY <2>1
  <2>4. G \in Layout /\ Size(G) = 1
    BY <2>3, FlagTyped
  <2> HIDE DEF c, G
  <2>5. x \in Seq(Bit)
    BY <1>1, <2>1, SerializeTyped DEF Sendable
  <2>6. P = <<[bits |-> x, says |-> said]>>
    BY DEF Packet, c
  <2> HIDE DEF x, P
  <2>7. P \in Layout /\ BitsIn(P) = x /\ SaysIn(P) = <<said>> /\ Size(P) = Len(x)
    BY <2>5, <2>6, LayoutOne
  <2>8. G \o P \in Layout
    BY <2>4, <2>7, LayoutJoin
  <2>9. Holding(bs, said, known, w) \in Layout
    BY <1>2, <2>2, <2>8, LayoutJoin DEF Holding
  <2>10. QED
    BY <1>2, <2>2, <2>4, <2>5, <2>7, <2>8, <2>9 DEF c, x, P, G
<1>5. QED
  BY <1>3, <1>4

(* The chunk is read as the blocks that were written, and the reader learns *)
(* the names of their materials.                                            *)
LEMMA PacketReads ==
  ASSUME NEW w \in Nat, NEW bs \in BlockList(w), bs # <<>>, NEW known, Knows(known, bs),
         NEW o, NEW said \in Says, said = Absolute(bs, o),
         NEW b, NEW r \in WholeReader, Lies(b, r.at, Packet(bs, said, known)),
         NEW k \in Registry(Material), NEW d, d = Deserialize(Codec(bs), b, r.at, Len(bs), k)
  PROVE  ReadsTo(r, Packet(bs, said, known),
                 [at |-> d.at, names |-> d.names,
                  got |-> Append(r.got, Absolute(Unpack(d.chunk, d.names), o))])
<1> DEFINE c == Chest(bs, known)
           P == Packet(bs, said, known)
           s == [at |-> d.at, names |-> d.names,
                 got |-> Append(r.got, Absolute(Unpack(d.chunk, d.names), o))]
<1>1. /\ P \in Layout /\ BitsIn(P) = Serialize(c, known) /\ SaysIn(P) = <<said>>
      /\ Size(P) = Len(Serialize(c, known))
  BY PayloadTyped
<1>2. Sendable(c, bs, known) /\ c.codec = Codec(bs) /\ c.count = Len(bs)
  BY ChestSent
<1> HIDE DEF c, P
<1>3. bs \in Seq(Blocks) /\ known \in Registry(Material)
  BY BlockListIs DEF Knows
<1>4. r.at \in Nat /\ r.got \in Seq(Says) /\ r \in Reader
  BY DEF WholeReader, Reader
<1>5. b \in Seq(Bit) /\ Stands(b, r.at, Serialize(c, known))
  BY <1>1 DEF Lies, P
<1>6. /\ Arrived(Deserialize(c.codec, b, r.at, c.count, k), bs, k)
      /\ Deserialize(c.codec, b, r.at, c.count, k).at = r.at + Len(Serialize(c, known))
  BY <1>2, <1>3, <1>4, <1>5, Arrives DEF Sendable
<1>7. Arrived(d, bs, k) /\ d.at = r.at + Size(P)
  BY <1>1, <1>2, <1>6
<1>8. Holds(d.chunk, bs, d.names) /\ d.names \in Registry(Material)
  BY <1>7 DEF Arrived
<1>9. Absolute(Unpack(d.chunk, d.names), o) = said
  <2>1. Unpack(d.chunk, d.names) = bs
    BY <1>3, <1>8, Kept
  <2>2. QED
    BY <2>1
<1>10. Size(P) \in Nat
  BY <1>1, LayoutTyped
<1>11. d.at \in Nat /\ Append(r.got, said) \in Seq(Says) /\ Append(r.got, said) = r.got \o <<said>>
  BY <1>4, <1>7, <1>10, SMTT(60)
<1>12. s \in WholeReader
  BY <1>8, <1>9, <1>11 DEF WholeReader
<1>13. s.at = d.at /\ s.got = Append(r.got, said)
  BY <1>9
<1> HIDE DEF s
<1>14. ReadsTo(r, P, s)
  BY <1>1, <1>4, <1>7, <1>11, <1>12, <1>13 DEF ReadsTo, Reader
<1>15. QED
  BY <1>14 DEF s, P

LEMMA BlocksRead ==
  ASSUME NEW w \in 0..30, NEW bs \in BlockList(w), NEW known, Knows(known, bs),
         NEW o, NEW said \in Says, said = Absolute(bs, o),
         NEW b, NEW r \in WholeReader, Lies(b, r.at, Holding(bs, said, known, w))
  PROVE  ReadsTo(r, Holding(bs, said, known, w), GetBlocks(b, r, w, o))
<1> DEFINE N == Num(Len(bs), w)
           Y == Payload(bs, said, known)
           G == Num(Flag(bs), 1)
           P == Packet(bs, said, known)
           counted == Get(b, r, w)
           flag == Get(b, counted, 1)
           codec == IF Got(flag) = 1 THEN "range" ELSE "packed"
           read == Deserialize(codec, b, flag.at, Got(counted), r.names)
           s == [at |-> read.at, names |-> read.names,
                 got |-> Append(flag.got, Absolute(Unpack(read.chunk, read.names), o))]
<1>1. w \in Nat /\ bs \in Seq(Blocks) /\ Len(bs) \in Nat /\ Len(bs) < 2^w
  BY BlockListIs
<1>2. N \in Layout /\ Y \in Layout /\ Holding(bs, said, known, w) = N \o Y
  BY <1>1, PayloadTyped DEF Holding
<1>3. GetBlocks(b, r, w, o) = IF Got(counted) = 0 THEN counted ELSE s
  BY DEF GetBlocks
<1>4. r \in Reader /\ r.names \in Registry(Material)
  BY DEF Reader, WholeReader
<1> HIDE DEF N, Y, G, P, counted, flag, s
<1>5. Lies(b, r.at, N)
  BY <1>2, LiesJoin
<1>6. ReadsTo(r, N, counted) /\ Got(counted) = Len(bs)
  BY <1>1, <1>4, <1>5, SmallReads DEF N, counted
<1>7. CASE bs = <<>>
  <2>1. Y = <<>>
    BY <1>7 DEF Y, Payload
  <2>2. N \o <<>> = N
    BY <1>2 DEF Layout
  <2>3. Got(counted) = 0
    BY <1>6, <1>7
  <2>4. QED
    BY <1>2, <1>3, <1>6, <2>1, <2>2, <2>3
<1>8. CASE bs # <<>>
  <2>1. Y = G \o P /\ G \in Layout /\ P \in Layout
    <3>1. /\ Payload(bs, said, known) = Num(Flag(bs), 1) \o Packet(bs, said, known)
          /\ Num(Flag(bs), 1) \in Layout /\ Packet(bs, said, known) \in Layout
      <4>1. w \in Nat /\ bs \in BlockList(w) /\ said \in Says /\ Knows(known, bs) /\ bs # <<>>
        BY <1>1, <1>8
      <4>2. QED
        BY ONLY <4>1, PayloadTyped
    <3>2. QED
      BY <3>1 DEF Y, G, P
  <2>2. Flag(bs) \in 0..1
    BY <1>8, ChestSent
  <2>3. counted \in Reader /\ Lies(b, counted.at, G \o P)
    BY <1>2, <1>4, <1>6, <2>1, Then
  <2>4. Lies(b, counted.at, G)
    BY <2>1, <2>3, LiesJoin
  <2>5. ReadsTo(counted, G, flag) /\ Got(flag) = Flag(bs)
    BY <2>2, <2>3, <2>4, FlagReads DEF G, flag
  <2>6. flag \in Reader /\ Lies(b, flag.at, P)
    BY <2>1, <2>3, <2>5, Then
  <2>7. flag \in WholeReader
    BY <1>6, <2>5 DEF ReadsTo
  <2>8. codec = Codec(bs)
    <3>1. Codec(bs) \in {"packed", "range"}
      BY <1>8, ChestSent
    <3>2. QED
      BY <2>5, <3>1 DEF Flag
  <2>9. read = Deserialize(Codec(bs), b, flag.at, Len(bs), r.names)
    BY <1>6, <2>8
  <2> HIDE DEF codec, read
  <2>10. ReadsTo(flag, P, s)
    BY <1>1, <1>4, <1>8, <2>6, <2>7, <2>9, PacketReads DEF P, s
  <2>11. ReadsTo(counted, G \o P, s)
    BY <2>1, <2>5, <2>10, ReadsJoin
  <2>12. ReadsTo(r, N \o Y, s)
    BY <1>2, <1>6, <2>1, <2>11, ReadsJoin
  <2>13. Got(counted) # 0
    BY <1>1, <1>6, <1>8
  <2>14. QED
    BY <1>2, <1>3, <2>12, <2>13
<1>9. QED
  BY <1>7, <1>8
-----------------------------------------------------------------------------
(* Passing over the names in a message.                                     *)
LEMMA NamePassed ==
  ASSUME NEW b \in Seq(Bit), NEW q \in Nat, NEW r \in Seq(Material), NEW u \in Nat,
         u < Len(r), Stands(b, q, NameEntry(u, r))
  PROVE  NameSkip(b)[q] = q + MatBits + LengthBits + Len(Spelling[r[u + 1]])
<1> DEFINE m == r[u + 1]
           n == Len(Spelling[m]) \div 8
           x == BitsOf(u, MatBits)
           y == BitsOf(n, LengthBits)
<1>1. m \in Material
  BY EntryTyped
<1>2. NameEntry(u, r) = (x \o y) \o Spelling[m]
  BY DEF NameEntry
<1> HIDE DEF m
<1>3. Spelling[m] \in Seq(Bit) /\ n \in Nat /\ n < 2^LengthBits /\ Len(Spelling[m]) = 8 * n
  BY <1>1, SpellingIs
<1> HIDE DEF n
<1>4. MatBits \in Nat /\ LengthBits \in Nat
  BY Bounds DEF LengthBits
<1>5. x \in Seq(Bit) /\ Len(x) = MatBits /\ y \in Seq(Bit) /\ Len(y) = LengthBits
  BY <1>3, <1>4, BitsTyped
<1>6. Stands(b, q, (x \o y) \o Spelling[m])
  BY <1>2
<1> HIDE DEF x, y
<1>7. x \o y \in Seq(Bit) /\ Len(x \o y) = MatBits + LengthBits
  BY <1>5, LenJoin
<1>8. Stands(b, q, x \o y) /\ Stands(b, q + (MatBits + LengthBits), Spelling[m])
  BY <1>3, <1>6, <1>7, StandsJoin
<1>9. Stands(b, q, x) /\ Stands(b, q + MatBits, y)
  BY <1>5, <1>8, StandsJoin
<1>10. /\ q + MatBits <= Len(b) /\ q + MatBits + LengthBits <= Len(b)
       /\ q + MatBits + LengthBits + 8 * n <= Len(b)
       /\ Len(b) \in Nat /\ q \in Int
  BY <1>3, <1>4, <1>5, <1>8, <1>9 DEF Stands
<1>11. Skip(b, q, MatBits) = q + MatBits
  BY <1>4, <1>10 DEF Skip, Short
<1>12. Skip(b, q + MatBits, LengthBits) = q + MatBits + LengthBits
  BY <1>4, <1>10 DEF Skip, Short
<1>13. Before(b, q + MatBits + LengthBits, LengthBits) = n
  <2>1. q + MatBits \in Nat /\ (q + MatBits + LengthBits) - LengthBits = q + MatBits
        /\ q + MatBits + LengthBits # Short
    BY <1>4 DEF Short
  <2>2. ValueOf(Slice(b, q + MatBits, LengthBits)) = n
    BY <1>3, <1>4, <1>9, <2>1, NumberRead DEF y
  <2>3. QED
    BY <2>1, <2>2 DEF Before
<1>14. Skip(b, q + MatBits + LengthBits, 8 * n) = q + MatBits + LengthBits + 8 * n
  BY <1>3, <1>4, <1>10 DEF Skip, Short
<1>15. SkipSized(b, q + MatBits, LengthBits, 8) = q + MatBits + LengthBits + 8 * n
  BY <1>12, <1>13, <1>14 DEF SkipSized
<1>16. NameSkip(b)[q] = SkipSized(b, Skip(b, q, MatBits), LengthBits, 8)
  BY <1>10 DEF NameSkip
<1>17. QED
  BY <1>3, <1>11, <1>15, <1>16 DEF m

LEMMA EnvelopeStands ==
  ASSUME NEW b \in Seq(Bit), NEW at \in Nat, NEW r \in Seq(Material), NEW used \in Seq(Nat),
         Known8(used, r), NEW front \in Seq(Bit), NEW data \in Seq(Bit),
         Stands(b, at, Envelope(front, used, r, data))
  PROVE  /\ Stands(b, at, front)
         /\ Stands(b, at + Len(front), BitsOf(Len(used), LengthBits))
         /\ Stands(b, at + Len(front) + LengthBits, Entries(used, r))
         /\ at + Ends(front, used, r) + Len(data) <= Len(b)
<1> DEFINE a == BitsOf(Len(used), LengthBits)
           e == Entries(used, r)
           fa == front \o a
           fae == fa \o e
<1>1. LengthBits \in Nat /\ Len(used) \in Nat
  BY DEF LengthBits
<1>2. a \in Seq(Bit) /\ Len(a) = LengthBits /\ e \in Seq(Bit)
  BY <1>1, BitsTyped, EntriesTyped
<1>3. Stands(b, at, fae \o data)
  BY DEF Envelope
<1> HIDE DEF a, e
<1>4. fa \in Seq(Bit) /\ Len(fa) = Len(front) + LengthBits
  BY <1>2, LenJoin
<1> HIDE DEF fa
<1>5. fae \in Seq(Bit) /\ Len(fae) = Len(fa) + Len(e)
  BY <1>2, <1>4, LenJoin
<1> HIDE DEF fae
<1>6. Stands(b, at, fae) /\ Stands(b, at + Len(fae), data)
  BY <1>3, <1>5, StandsJoin
<1>7. Stands(b, at, fa) /\ Stands(b, at + Len(fa), e)
  BY <1>2, <1>4, <1>6, StandsJoin DEF fae
<1>8. Stands(b, at, front) /\ Stands(b, at + Len(front), a)
  BY <1>2, <1>7, StandsJoin DEF fa
<1>9. at + Len(fa) = at + Len(front) + LengthBits
  BY <1>1, <1>4
<1>10. at + Ends(front, used, r) = at + Len(fae)
  BY <1>1, <1>2, <1>4, <1>5 DEF Ends, e
<1>11. at + Len(fae) + Len(data) <= Len(b)
  BY <1>6 DEF Stands
<1>12. QED
  BY <1>7, <1>8, <1>9, <1>10, <1>11 DEF a, e

LEMMA NamesPassed ==
  ASSUME NEW b \in Seq(Bit), NEW at \in Nat, NEW r \in Seq(Material), NEW used \in Seq(Nat),
         Known8(used, r), Stands(b, at, BitsOf(Len(used), LengthBits)),
         Stands(b, at + LengthBits, Entries(used, r))
  PROVE  /\ Skip(b, at, LengthBits) = at + LengthBits
         /\ Before(b, at + LengthBits, LengthBits) = Len(used)
         /\ SkipEach(b, at, LengthBits, NameSkip(b)) = at + LengthBits + Len(Entries(used, r))
<1> DEFINE n == Len(used)
           q == at + LengthBits
           E == Entries(used, r)
           f == NameSkip(b)
<1>1. n \in Nat /\ n < 2^LengthBits /\ LengthBits \in Nat /\ E \in Seq(Bit) /\ q \in Nat
  BY EntriesTyped DEF Known8, LengthBits
<1>2. BitsOf(n, LengthBits) \in Seq(Bit) /\ Len(BitsOf(n, LengthBits)) = LengthBits
  BY <1>1, BitsTyped
<1>3. q <= Len(b) /\ Len(b) \in Nat
  BY <1>2 DEF Stands
<1>4. Skip(b, at, LengthBits) = q
  BY <1>1, <1>3 DEF Skip, Short
<1>5. Before(b, q, LengthBits) = n
  <2>1. q - LengthBits = at /\ q # Short
    BY <1>1 DEF Short
  <2>2. ValueOf(Slice(b, at, LengthBits)) = n
    BY <1>1, NumberRead
  <2>3. QED
    BY <2>1, <2>2 DEF Before
<1> HIDE DEF q, E, f
<1>6. PICK h \in [0..n -> Seq(Bit)] :
        /\ h[0] = <<>> /\ E = h[n]
        /\ \A i \in 1..n :
             /\ Len(h[i]) = Len(h[i - 1]) + MatBits + LengthBits + Len(Spelling[r[used[i] + 1]])
             /\ Stands(E, Len(h[i - 1]), NameEntry(used[i], r))
  BY EntriesChain DEF E
<1> DEFINE g == [i \in 0..n |-> q + Len(h[i])]
<1>7. g \in [0..n -> Nat]
  <2>1. ASSUME NEW i \in 0..n PROVE q + Len(h[i]) \in Nat
    <3>1. h[i] \in Seq(Bit)
      BY <1>6
    <3>2. Len(h[i]) \in Nat
      BY <3>1
    <3>3. QED
      BY <1>1, <3>2
  <2>2. QED
    BY <2>1
<1>8. g[0] = q
  <2>1. 0 \in 0..n
    BY <1>1
  <2>2. g[0] = q + Len(h[0])
    BY <2>1
  <2> HIDE DEF g
  <2>3. Len(h[0]) = 0
    BY <1>6
  <2>4. QED
    BY <1>1, <2>2, <2>3
<1>9. ASSUME NEW i \in 1..n PROVE g[i] = f[g[i - 1]]
  <2>1. i - 1 \in 0..n /\ i \in 0..n
    BY <1>1
  <2>2. g[i - 1] = q + Len(h[i - 1]) /\ g[i] = q + Len(h[i])
    BY <2>1
  <2>3. Len(h[i - 1]) \in Nat
    BY <2>1
  <2>4. used[i] \in Nat /\ used[i] < Len(r)
    BY DEF Known8
  <2>5. NameEntry(used[i], r) \in Seq(Bit) /\ r[used[i] + 1] \in Material
    BY <2>4, EntryTyped
  <2>6. Stands(b, q + Len(h[i - 1]), NameEntry(used[i], r))
    <3>1. Stands(b, q, E) /\ Stands(E, Len(h[i - 1]), NameEntry(used[i], r))
      BY <1>6 DEF q, E
    <3>2. QED
      BY <1>1, <2>3, <2>5, <3>1, StandsWithin
  <2> DEFINE p == q + Len(h[i - 1])
             long == Len(Spelling[r[used[i] + 1]])
  <2>7. p \in Nat
    BY <1>1, <2>3
  <2>8. f[p] = p + MatBits + LengthBits + long
    BY <2>4, <2>6, <2>7, NamePassed, SMTT(60) DEF f
  <2>9. long \in Nat
    BY <2>5, SpellingIs
  <2>10. Len(h[i]) = Len(h[i - 1]) + MatBits + LengthBits + long
    BY <1>6
  <2> HIDE DEF long, g
  <2>11. MatBits \in Nat
    BY Bounds
  <2>12. q + Len(h[i]) = p + MatBits + LengthBits + long
    <3> DEFINE before == Len(h[i - 1])
    <3>1. before \in Nat /\ Len(h[i]) = before + MatBits + LengthBits + long
      BY <2>3, <2>10
    <3> HIDE DEF before
    <3>2. q + Len(h[i]) = (q + before) + MatBits + LengthBits + long
      BY <1>1, <2>9, <2>11, <3>1
    <3>3. QED
      BY <3>2 DEF before
  <2>13. QED
    BY <2>2, <2>8, <2>12
<1> HIDE DEF g
<1>10. IsRepeat(g, n, f, q)
  BY <1>8, <1>9 DEF IsRepeat
<1>11. Repeat(n, f, q) = g[n]
  BY <1>1, <1>7, <1>10, RepeatIs, ZenonT(60)
<1>12. g[n] = q + Len(E)
  BY <1>1, <1>6 DEF g
<1>13. SkipEach(b, at, LengthBits, f) = Repeat(Before(b, q, LengthBits), f, q)
  BY <1>4 DEF SkipEach, q
<1>14. SkipEach(b, at, LengthBits, f) = q + Len(E)
  BY <1>5, <1>11, <1>12, <1>13
<1>15. QED
  BY <1>4, <1>5, <1>14 DEF q, E, f

LEMMA NumberIn ==
  ASSUME NEW w \in Seq(Nat), NEW i \in 1..Len(w)
  PROVE  w[i] \in Nat
  OBVIOUS

LEMMA FiveBits ==
  ASSUME NEW w \in Seq(Nat), Len(w) = 5
  PROVE  RecordBits(w) = w[1] + w[2] + w[3] + w[4] + w[5]
<1>1. PICK h \in [0..Len(w) -> Nat] : IsOffsets(h, w)
  BY OffsetsExist
<1>2. RecordBits(w) = h[5]
  BY <1>1, OffsetsAre
<1>3. h[0] = 0 /\ h[1] = h[0] + w[1] /\ h[2] = h[1] + w[2] /\ h[3] = h[2] + w[3]
      /\ h[4] = h[3] + w[4] /\ h[5] = h[4] + w[5]
  <2>1. \A i \in 1..5 : h[i] = h[i - 1] + w[i]
    BY <1>1 DEF IsOffsets
  <2>2. 1 \in 1..5 /\ 2 \in 1..5 /\ 3 \in 1..5 /\ 4 \in 1..5 /\ 5 \in 1..5
        /\ 1 - 1 = 0 /\ 2 - 1 = 1 /\ 3 - 1 = 2 /\ 4 - 1 = 3 /\ 5 - 1 = 4
    OBVIOUS
  <2>3. h[1] = h[0] + w[1]
    BY <2>1, <2>2
  <2>4. h[2] = h[1] + w[2]
    BY <2>1, <2>2
  <2>5. h[3] = h[2] + w[3]
    BY <2>1, <2>2
  <2>6. h[4] = h[3] + w[4]
    BY <2>1, <2>2
  <2>7. h[5] = h[4] + w[5]
    BY <2>1, <2>2
  <2>8. QED
    BY <1>1, <2>3, <2>4, <2>5, <2>6, <2>7 DEF IsOffsets
<1>4. w[1] \in Nat /\ w[2] \in Nat /\ w[3] \in Nat /\ w[4] \in Nat /\ w[5] \in Nat
  <2>1. \A i \in 1..Len(w) : w[i] \in Nat
    BY NumberIn
  <2>2. \A i \in 1..5 : w[i] \in Nat
    BY <2>1
  <2>3. QED
    BY <2>2
<1>5. QED
  BY <1>2, <1>3, <1>4

LEMMA NamesOfPacket ==
  ASSUME NEW b \in Seq(Bit), NEW p, NEW at \in Nat, NEW c, NEW r \in Seq(Material), NEW front \in Seq(Bit),
         Serialized(c, r, front), Stands(b, at, Serialize(c, r)), Bounded(b, p) = at + Len(front)
  PROVE  /\ Stands(b, at, front) /\ NamesCount(b, p) = Len(Materials(c))
         /\ NamesSkipped(b, p) = at + Ends(front, Materials(c), r)
         /\ Ends(front, Materials(c), r) \in Nat /\ Len(c.data) \in Nat
         /\ at + Ends(front, Materials(c), r) + Len(c.data) <= Len(b)
         /\ Len(Serialize(c, r)) = Ends(front, Materials(c), r) + Len(c.data)
<1> DEFINE used == Materials(c)
           q == at + Len(front)
           end == Ends(front, used, r)
<1>1. used \in Seq(Nat) /\ Known8(used, r) /\ c.data \in Seq(Bit)
      /\ Serialize(c, r) = Envelope(front, used, r, c.data)
  BY DEF Serialized
<1> HIDE DEF used
<1>2. Stands(b, at, Envelope(front, used, r, c.data))
  BY <1>1
<1>3. /\ Stands(b, at, front)
      /\ Stands(b, at + Len(front), BitsOf(Len(used), LengthBits))
      /\ Stands(b, at + Len(front) + LengthBits, Entries(used, r))
      /\ at + Ends(front, used, r) + Len(c.data) <= Len(b)
  BY <1>1, <1>2, EnvelopeStands
<1>4. Len(front) \in Nat /\ q \in Nat /\ LengthBits \in Nat /\ Entries(used, r) \in Seq(Bit)
  BY <1>1, EntriesTyped DEF LengthBits
<1>5. /\ end \in Nat /\ Len(Envelope(front, used, r, c.data)) = end + Len(c.data)
  BY <1>1, EnvelopeTyped
<1> HIDE DEF q, end
<1>6. /\ Skip(b, q, LengthBits) = q + LengthBits
      /\ Before(b, q + LengthBits, LengthBits) = Len(used)
      /\ SkipEach(b, q, LengthBits, NameSkip(b)) = q + LengthBits + Len(Entries(used, r))
  <2>1. /\ Stands(b, q, BitsOf(Len(used), LengthBits))
        /\ Stands(b, q + LengthBits, Entries(used, r))
    BY <1>3 DEF q
  <2>2. QED
    BY <1>1, <1>4, <2>1, NamesPassed
<1>7. q + LengthBits + Len(Entries(used, r)) = at + end
  BY <1>4 DEF q, end, Ends
<1>8. NamesCount(b, p) = Len(used)
  BY <1>6 DEF NamesCount, q
<1>9. NamesSkipped(b, p) = at + end
  BY <1>6, <1>7 DEF NamesSkipped, q
<1>10. Len(c.data) \in Nat
  BY <1>1
<1>11. QED
  BY <1>1, <1>3, <1>5, <1>8, <1>9, <1>10 DEF used, end

RecordsLong(b, p, n, long) == n * RecordWidth(b, p) = long

LEMMA RecordsPassed ==
  ASSUME NEW b \in Seq(Bit), NEW p, NEW q \in Nat, NEW n, NEW long \in Nat,
         NamesSkipped(b, p) = q, q + long <= Len(b),
         RecordsLong(b, p, n, long)
  PROVE  SkipRecords(b, p, n) = q + long
<1>1. NamesSkipped(b, p) # Short /\ Len(b) \in Nat
  BY DEF Short
<1>2. SkipRecords(b, p, n) = Skip(b, q, long)
  BY <1>1, SkipRecordsIs DEF RecordsLong
<1>3. Skip(b, q, long) = q + long
  BY <1>1 DEF Skip
<1>4. QED
  BY <1>2, <1>3

LEMMA PackedPassed ==
  ASSUME NEW b \in Seq(Bit), NEW p, NEW at \in Nat, NEW c, NEW bs \in Seq(Blocks),
         NEW r \in Registry(Material), Sendable(c, bs, r), c.codec = "packed",
         Stands(b, at, Serialize(c, r)), Flagged(b, p) = at, ~IsRange(b, p)
  PROVE  SkipRecords(b, p, Len(bs)) = at + Len(Serialize(c, r))
<1> DEFINE n == Len(bs)
           front == <<>>
           end == Ends(front, Materials(c), r)
           long == Len(c.data)
<1>1. PICK idx \in [1..n -> Nat] : HoldsPacked(c, bs, r, idx)
  <2>1. PICK idx \in [1..n -> Nat] : HoldsPacked(c, bs, r, idx) \/ HoldsRange(c, bs, r, idx)
    BY DEF Sendable, Holds
  <2>2. ~HoldsRange(c, bs, r, idx)
    BY DEF HoldsRange, RangeShape
  <2>3. QED
    BY <2>1, <2>2
<1>2. Serialized(c, r, front) /\ long = n * RecordBits(PackedWidths)
  BY <1>1, SerializesPacked DEF Sendable
<1>3. Bounded(b, p) = at + Len(front) /\ front \in Seq(Bit)
  BY DEF Bounded
<1> HIDE DEF front
<1>4. /\ NamesSkipped(b, p) = at + end /\ end \in Nat /\ long \in Nat
      /\ at + end + long <= Len(b) /\ Len(Serialize(c, r)) = end + long
  <2>1. r \in Seq(Material)
    BY DEF Registry
  <2>2. QED
    BY <1>2, <1>3, <2>1, NamesOfPacket
<1>5. RecordBits(PackedWidths) = RecordWidth(b, p)
  <2>1. CoorBits \in Nat /\ MatBits \in Nat /\ SizeBits \in Nat
    BY Bounds DEF SizeBits
  <2>2. PackedWidths \in Seq(Nat) /\ Len(PackedWidths) = 5
    BY <2>1 DEF PackedWidths
  <2>3. RecordBits(PackedWidths) = PackedWidths[1] + PackedWidths[2] + PackedWidths[3]
                                     + PackedWidths[4] + PackedWidths[5]
    BY <2>2, FiveBits
  <2>4. PackedWidths[1] = CoorBits /\ PackedWidths[2] = CoorBits /\ PackedWidths[3] = CoorBits
        /\ PackedWidths[4] = SizeBits /\ PackedWidths[5] = MatBits
    BY DEF PackedWidths
  <2>5. QED
    BY <2>1, <2>3, <2>4 DEF RecordWidth
<1>6. RecordsLong(b, p, n, long)
  BY <1>2, <1>5 DEF RecordsLong
<1> HIDE DEF end, long, n
<1>7. SkipRecords(b, p, n) = at + (end + long)
  <2> DEFINE q == at + end
  <2>1. q \in Nat /\ q + long <= Len(b) /\ NamesSkipped(b, p) = q /\ q + long = at + (end + long)
    BY <1>4
  <2> HIDE DEF q
  <2>2. SkipRecords(b, p, n) = q + long
    BY <1>4, <1>6, <2>1, RecordsPassed
  <2>3. QED
    BY <2>1, <2>2
<1>8. QED
  BY <1>4, <1>7 DEF n

(* The widths of the records of a range compressed chunk, as a reader finds *)
(* them from the bounds and the count of names in the message.              *)
LEMMA BoundFound ==
  ASSUME NEW b, NEW p, NEW at \in Nat, Flagged(b, p) = at, NEW i \in 1..6
  PROVE  BoundAt(b, p, i) = Bound(b, at, i)
<1>1. BoundBits = 16
  BY DEF BoundBits
<1>2. at + i * BoundBits # Short /\ (at + i * BoundBits) - BoundBits = at + (i - 1) * BoundBits
  BY <1>1 DEF Short
<1>3. QED
  BY <1>2 DEF BoundAt, Bound, Before

LEMMA CornersFound ==
  ASSUME NEW c, RangeOf(c), NEW b \in Seq(Bit), NEW p, NEW at \in Nat, Flagged(b, p) = at,
         Stands(b, at, Around(c))
  PROVE  /\ BoundAt(b, p, 1) = c.min[1] /\ BoundAt(b, p, 2) = c.max[1]
         /\ BoundAt(b, p, 3) = c.min[2] /\ BoundAt(b, p, 4) = c.max[2]
         /\ BoundAt(b, p, 5) = c.min[3] /\ BoundAt(b, p, 6) = c.max[3]
<1>1. BoundsSmall(c)
  BY BoundsAreSmall
<1>2. \A i \in 1..3 : Bound(b, at, 2 * i - 1) = c.min[i] /\ Bound(b, at, 2 * i) = c.max[i]
  BY <1>1, BoundsRead
<1>3. /\ 1 \in 1..3 /\ 2 \in 1..3 /\ 3 \in 1..3
      /\ 2 * 1 - 1 = 1 /\ 2 * 2 - 1 = 3 /\ 2 * 3 - 1 = 5 /\ 2 * 1 = 2 /\ 2 * 2 = 4 /\ 2 * 3 = 6
  OBVIOUS
<1>4. Bound(b, at, 1) = c.min[1] /\ Bound(b, at, 2) = c.max[1]
  BY <1>2, <1>3
<1>5. Bound(b, at, 3) = c.min[2] /\ Bound(b, at, 4) = c.max[2]
  BY <1>2, <1>3
<1>6. Bound(b, at, 5) = c.min[3] /\ Bound(b, at, 6) = c.max[3]
  BY <1>2, <1>3
<1>7. \A i \in 1..6 : BoundAt(b, p, i) = Bound(b, at, i)
  BY BoundFound
<1>8. 1 \in 1..6 /\ 2 \in 1..6 /\ 3 \in 1..6 /\ 4 \in 1..6 /\ 5 \in 1..6 /\ 6 \in 1..6
  OBVIOUS
<1>9. /\ BoundAt(b, p, 1) = Bound(b, at, 1) /\ BoundAt(b, p, 2) = Bound(b, at, 2)
      /\ BoundAt(b, p, 3) = Bound(b, at, 3) /\ BoundAt(b, p, 4) = Bound(b, at, 4)
      /\ BoundAt(b, p, 5) = Bound(b, at, 5) /\ BoundAt(b, p, 6) = Bound(b, at, 6)
  BY <1>7, <1>8, Zenon
<1>10. QED
  BY <1>4, <1>5, <1>6, <1>9

LEMMA RangeBitsAre ==
  ASSUME NEW c, RangeOf(c)
  PROVE  /\ RecordBits(RangeWidths(c)) =
              SizeBits + bitsNeeded(Len(c.palette)) + bitsNeeded(c.max[1] - c.min[1])
                + bitsNeeded(c.max[2] - c.min[2]) + bitsNeeded(c.max[3] - c.min[3])
<1> DEFINE d(i) == c.max[i] - c.min[i]
           f == [i \in 1..3 |-> bitsNeeded(c.max[i] - c.min[i])]
           z == bitsNeeded(Len(c.palette))
           w == RangeWidths(c)
<1>1. ASSUME NEW i \in 1..3 PROVE d(i) \in Nat /\ d(i) <= 2^(BoundBits + 1)
  <2>1. c.min[i] \in Nat /\ c.max[i] \in Nat /\ c.min[i] < c.max[i] /\ c.max[i] <= 2^CoorBits
    BY DEF RangeOf
  <2>2. QED
    BY <2>1, Bounds
<1>2. \A i \in 1..3 : bitsNeeded(d(i)) \in Nat
  BY <1>1, BitsEnough
<1>3. z \in Nat
  <2>1. Len(c.palette) \in Nat
    BY DEF RangeOf
  <2>2. QED
    BY <2>1, BitsEnough DEF RangeOf
<1>4. f \in [1..3 -> Nat]
  BY <1>2
<1>5. w = f \o <<SizeBits, z>> /\ SizeBits \in Nat
  BY DEF RangeWidths, SizeBits
<1>6. /\ f[1] = bitsNeeded(c.max[1] - c.min[1]) /\ f[2] = bitsNeeded(c.max[2] - c.min[2])
      /\ f[3] = bitsNeeded(c.max[3] - c.min[3])
  OBVIOUS
<1>7. f[1] \in Nat /\ f[2] \in Nat /\ f[3] \in Nat
  BY <1>4
<1> HIDE DEF f, z, w
<1>8. w = <<f[1], f[2], f[3], SizeBits, z>> /\ w \in Seq(Nat)
  BY <1>3, <1>4, <1>5, Five
<1>9. Len(w) = 5 /\ w[1] = f[1] /\ w[2] = f[2] /\ w[3] = f[3] /\ w[4] = SizeBits /\ w[5] = z
  BY <1>8
<1>10. RecordBits(w) = w[1] + w[2] + w[3] + w[4] + w[5]
  BY <1>8, <1>9, FiveBits
<1>11. RecordBits(w) = SizeBits + z + f[1] + f[2] + f[3]
  BY <1>3, <1>5, <1>7, <1>9, <1>10
<1>12. QED
  BY <1>6, <1>11 DEF w, z

LEMMA RangePassed ==
  ASSUME NEW b \in Seq(Bit), NEW p, NEW at \in Nat, NEW c, NEW bs \in Seq(Blocks),
         NEW r \in Registry(Material), Sendable(c, bs, r), c.codec = "range",
         Stands(b, at, Serialize(c, r)), Flagged(b, p) = at, IsRange(b, p)
  PROVE  SkipRecords(b, p, Len(bs)) = at + Len(Serialize(c, r))
<1> DEFINE n == Len(bs)
           front == Around(c)
           end == Ends(front, Materials(c), r)
           long == Len(c.data)
<1>1. PICK idx \in [1..n -> Nat] : HoldsRange(c, bs, r, idx)
  <2>1. PICK idx \in [1..n -> Nat] : HoldsPacked(c, bs, r, idx) \/ HoldsRange(c, bs, r, idx)
    BY DEF Sendable, Holds
  <2>2. ~HoldsPacked(c, bs, r, idx)
    BY DEF HoldsPacked, PackedShape
  <2>3. QED
    BY <2>1, <2>2
<1>2. /\ Serialized(c, r, front) /\ Materials(c) = c.palette /\ front \in Seq(Bit)
      /\ Len(front) = 6 * BoundBits /\ long = n * RecordBits(RangeWidths(c))
  BY <1>1, SerializesRange DEF Sendable
<1>3. RangeOf(c)
  BY <1>1 DEF HoldsRange, RangeShape
<1> HIDE DEF front
<1>4. Stands(b, at, front)
  <2>1. c.data \in Seq(Bit) /\ Materials(c) \in Seq(Nat) /\ Known8(Materials(c), r)
        /\ Serialize(c, r) = Envelope(front, Materials(c), r, c.data)
    BY <1>2 DEF Serialized
  <2>2. Stands(b, at, Envelope(front, Materials(c), r, c.data)) /\ r \in Seq(Material)
    BY <2>1 DEF Registry
  <2>3. QED
    BY <1>2, <2>1, <2>2, EnvelopeStands
<1>5. Bounded(b, p) = at + Len(front)
  <2>1. at + 6 * BoundBits <= Len(b) /\ at # Short
    BY <1>2, <1>4 DEF Stands, Short
  <2>2. Skip(b, at, 6 * BoundBits) = at + 6 * BoundBits
    <3>1. BoundBits \in Nat /\ Len(b) \in Nat
      BY DEF BoundBits
    <3>2. QED
      BY <2>1, <3>1 DEF Skip
  <2>3. QED
    BY <1>2, <2>2 DEF Bounded
<1>6. /\ NamesSkipped(b, p) = at + end /\ end \in Nat /\ long \in Nat
      /\ at + end + long <= Len(b) /\ Len(Serialize(c, r)) = end + long
      /\ NamesCount(b, p) = Len(Materials(c))
  <2>1. r \in Seq(Material)
    BY DEF Registry
  <2>2. Serialized(c, r, front) /\ front \in Seq(Bit)
    BY <1>2
  <2>3. QED
    BY <1>5, <2>1, <2>2, NamesOfPacket
<1>7. RecordWidth(b, p) = RecordBits(RangeWidths(c))
  <2>1. /\ BoundAt(b, p, 1) = c.min[1] /\ BoundAt(b, p, 2) = c.max[1]
        /\ BoundAt(b, p, 3) = c.min[2] /\ BoundAt(b, p, 4) = c.max[2]
        /\ BoundAt(b, p, 5) = c.min[3] /\ BoundAt(b, p, 6) = c.max[3]
    BY <1>3, <1>4, CornersFound DEF front
  <2>2. RecordBits(RangeWidths(c)) =
              SizeBits + bitsNeeded(Len(c.palette)) + bitsNeeded(c.max[1] - c.min[1])
                + bitsNeeded(c.max[2] - c.min[2]) + bitsNeeded(c.max[3] - c.min[3])
    BY <1>3, RangeBitsAre
  <2>3. NamesCount(b, p) = Len(c.palette)
    BY <1>2, <1>6
  <2>4. QED
    BY <2>1, <2>2, <2>3, Zenon DEF RecordWidth
<1>8. RecordsLong(b, p, n, long)
  BY <1>2, <1>7 DEF RecordsLong
<1> HIDE DEF end, long, n
<1>9. SkipRecords(b, p, n) = at + (end + long)
  <2> DEFINE q == at + end
  <2>1. q \in Nat /\ q + long <= Len(b) /\ NamesSkipped(b, p) = q /\ q + long = at + (end + long)
    BY <1>6
  <2> HIDE DEF q
  <2>2. SkipRecords(b, p, n) = q + long
    BY <1>6, <1>8, <2>1, RecordsPassed
  <2>3. QED
    BY <2>1, <2>2
<1>10. QED
  BY <1>6, <1>9 DEF n

(* Passing over blocks and their count.                                     *)
LEMMA PayloadPassed ==
  ASSUME NEW w \in Nat, NEW bs \in BlockList(w), bs # <<>>, NEW known, Knows(known, bs),
         NEW said \in Says, NEW b, NEW p, Lies(b, p, Payload(bs, said, known))
  PROVE  SkipRecords(b, p, Len(bs)) = p + Size(Payload(bs, said, known))
<1> DEFINE c == Chest(bs, known)
           G == Num(Flag(bs), 1)
           P == Packet(bs, said, known)
           at == p + 1
<1>1. /\ Payload(bs, said, known) = G \o P /\ G \in Layout /\ P \in Layout /\ Size(G) = 1
      /\ BitsIn(P) = Serialize(c, known) /\ Size(P) = Len(Serialize(c, known))
  BY PayloadTyped
<1>2. /\ Sendable(c, bs, known) /\ c.codec = Codec(bs) /\ Codec(bs) \in {"packed", "range"}
      /\ Flag(bs) \in 0..1
  BY ChestSent
<1>3. bs \in Seq(Blocks) /\ known \in Registry(Material)
  BY BlockListIs DEF Knows
<1> HIDE DEF c, G, P
<1>4. Lies(b, p, G) /\ Lies(b, p + Size(G), P)
  BY <1>1, LiesJoin
<1>5. Skip(b, p, 1) = at /\ Before(b, at, 1) = Flag(bs) /\ p \in Nat
  BY <1>2, <1>4, FlagPassed DEF G
<1>6. Flagged(b, p) = at /\ (IsRange(b, p) <=> Flag(bs) = 1)
  BY <1>5 DEF Flagged, IsRange
<1>7. at \in Nat /\ b \in Seq(Bit) /\ Stands(b, at, Serialize(c, known))
  BY <1>1, <1>4, <1>5 DEF Lies
<1>8. Size(Payload(bs, said, known)) = 1 + Len(Serialize(c, known)) /\ Size(P) \in Nat
  BY <1>1, LayoutJoin, LayoutTyped
<1> HIDE DEF at
<1>9. SkipRecords(b, p, Len(bs)) = at + Len(Serialize(c, known))
  <2>1. CASE Codec(bs) = "range"
    <3>1. c.codec = "range" /\ IsRange(b, p)
      BY <1>2, <1>6, <2>1 DEF Flag
    <3>2. QED
      BY <1>2, <1>3, <1>6, <1>7, <3>1, RangePassed
  <2>2. CASE Codec(bs) = "packed"
    <3>1. c.codec = "packed" /\ ~IsRange(b, p)
      BY <1>2, <1>6, <2>2 DEF Flag
    <3>2. QED
      BY <1>2, <1>3, <1>6, <1>7, <3>1, PackedPassed
  <2>3. QED
    BY <1>2, <2>1, <2>2
<1>10. QED
  BY <1>1, <1>5, <1>8, <1>9 DEF at

LEMMA BlocksPassed ==
  ASSUME NEW w \in Nat, NEW bs \in BlockList(w), NEW known, Knows(known, bs),
         NEW said \in Says, NEW b, NEW p, Lies(b, p, Holding(bs, said, known, w))
  PROVE  SkipBlocks(b, p, w) = p + Size(Holding(bs, said, known, w))
<1> DEFINE N == Num(Len(bs), w)
           Y == Payload(bs, said, known)
           q == p + w
<1>1. /\ N \in Layout /\ Y \in Layout /\ Holding(bs, said, known, w) = N \o Y /\ Size(N) = w
      /\ Len(bs) \in Nat /\ Len(bs) < 2^w
  BY PayloadTyped, BlockListIs DEF Holding
<1> HIDE DEF N, Y
<1>2. Lies(b, p, N) /\ Lies(b, p + Size(N), Y)
  BY <1>1, LiesJoin
<1>3. Skip(b, p, w) = q /\ Before(b, q, w) = Len(bs) /\ p \in Nat /\ q # Short
  BY <1>1, <1>2, NumPassed DEF N
<1>4. Size(Holding(bs, said, known, w)) = w + Size(Y) /\ Size(Y) \in Nat
  BY <1>1, LayoutJoin, LayoutTyped
<1>5. Lies(b, q, Y)
  BY <1>1, <1>2
<1> HIDE DEF q
<1>6. SkipBlocks(b, p, w) = IF Len(bs) = 0 THEN q ELSE SkipRecords(b, q, Len(bs))
  BY <1>3 DEF SkipBlocks, SkipPayload
<1>7. SkipBlocks(b, p, w) = q + Size(Y)
  <2>1. CASE bs = <<>>
    <3>1. Y = <<>> /\ Len(bs) = 0
      BY <2>1 DEF Y, Payload
    <3>2. Size(Y) = 0
      BY <3>1, LayoutEmpty
    <3>3. q + 0 = q
      BY <1>3 DEF q
    <3>4. QED
      BY <1>6, <3>1, <3>2, <3>3
  <2>2. CASE bs # <<>>
    <3>1. Len(bs) # 0
      BY <2>2, BlockListIs
    <3>2. SkipRecords(b, q, Len(bs)) = q + Size(Y)
      BY <1>5, <2>2, PayloadPassed DEF Y
    <3>3. QED
      BY <1>6, <3>1, <3>2
  <2>3. QED
    BY <2>1, <2>2
<1>8. QED
  BY <1>3, <1>4, <1>7 DEF q

-----------------------------------------------------------------------------
(***************************************************************************)
(* The kinds of messages.                                                  *)
(***************************************************************************)
(* The kinds of messages. B is the layout of the body of a message of a     *)
(* type: a reader of its length passes over it, a reader of its values      *)
(* reads it.                                                                *)
Passes(type, B) == \A b, p : Lies(b, p, B) => SkipBody(type, b, p) = p + Size(B)
IsRead(type, B) ==
  \A b : \A r \in WholeReader : Lies(b, r.at, B) => ReadsTo(r, B, GetBody(type, b, r))
Carried(type, B) == B \in Layout /\ Passes(type, B) /\ IsRead(type, B)

LEMMA GetBodyIs ==
  ASSUME NEW b, NEW r
  PROVE  /\ GetBody("PING", b, r) = Get(b, r, 1)
         /\ GetBody("REGISTER", b, r) = GetCaptchas(b, GetString(b, r, 5))
         /\ GetBody("LOGIN", b, r) = GetCaptchas(b, GetString(b, GetString(b, r, 6), 5))
         /\ GetBody("PUZZLE", b, r) = GetString(b, Get(b, r, 64), 18)
         /\ GetBody("LOGOUT", b, r) = GetMany(b, r, 8, 16)
         /\ GetBody("AUTH", b, r) = GetMany(b, r, 8, 16)
         /\ GetBody("STOP", b, r) = GetMany(b, r, 8, 16)
         /\ GetBody("PASSWORD_CHANGE", b, r) = GetString(b, GetString(b, GetMany(b, r, 8, 16), 5), 5)
<1>1. \A type \in OfAccounts : GetBody(type, b, r) = GetAccountBody(type, b, r)
  BY DEF GetBody, OfAccounts, OfBlocks
<1>2. /\ "PING" \in OfAccounts /\ "REGISTER" \in OfAccounts /\ "LOGIN" \in OfAccounts
      /\ "PUZZLE" \in OfAccounts /\ "LOGOUT" \in OfAccounts /\ "AUTH" \in OfAccounts
      /\ "STOP" \in OfAccounts /\ "PASSWORD_CHANGE" \in OfAccounts
  BY DEF OfAccounts
<1>3. QED
  BY <1>1, <1>2 DEF GetAccountBody

LEMMA GetMotionIs ==
  ASSUME NEW b, NEW r
  PROVE  /\ GetBody("CLIENT_LOCAL_POSITION_UPDATE", b, r) =
              GetMany(b, GetMany(b, r, LocalBits, 3), RotationBits, 3)
         /\ GetBody("BATCH_POSITION_UPDATE", b, r) = GetMoved(b, r)
         /\ GetBody("POSITION_UPDATE", b, r) = GetPosition(b, r)
         /\ GetBody("HIT", b, r) = GetId(b, Get(b, r, VelocityBits))
         /\ GetBody("ATTACK", b, r) =
              GetMany(b, Get(b, GetId(b, r), 1), RotationBits, 3 * Got(Get(b, GetId(b, r), 1)))
         /\ GetBody("DEAD", b, r) = GetId(b, r)
         /\ GetBody("RESYNC", b, r) = GetLived(b, r)
<1>1. /\ GetBody("CLIENT_LOCAL_POSITION_UPDATE", b, r) = GetMotionBody("CLIENT_LOCAL_POSITION_UPDATE", b, r)
      /\ GetBody("BATCH_POSITION_UPDATE", b, r) = GetMotionBody("BATCH_POSITION_UPDATE", b, r)
      /\ GetBody("POSITION_UPDATE", b, r) = GetMotionBody("POSITION_UPDATE", b, r)
      /\ GetBody("HIT", b, r) = GetMotionBody("HIT", b, r)
      /\ GetBody("ATTACK", b, r) = GetMotionBody("ATTACK", b, r)
      /\ GetBody("DEAD", b, r) = GetMotionBody("DEAD", b, r)
      /\ GetBody("RESYNC", b, r) = GetMotionBody("RESYNC", b, r)
  BY DEF GetBody, OfAccounts, OfBlocks
<1>2. QED
  BY <1>1 DEF GetMotionBody, GetMoved, GetLived

LEMMA GetBlocksIs ==
  ASSUME NEW b, NEW r
  PROVE  /\ GetBody("SCHEMATA", b, r) = GetBlocks(b, GetId(b, r), SchemataBits, <<0, 0, 0>>)
         /\ GetBody("BLOCKS", b, r) = GetPlacements(b, GetInChunk(b, r))
         /\ GetBody("VEHICLE", b, r) = GetString(b, GetPlacements(b, GetInChunk(b, r)), 8)
         /\ GetBody("PLACEMENT", b, r) = GetPlacement(b, r)
  BY DEF GetBody, OfAccounts, OfBlocks, GetBlocksBody

LEMMA TwoPassed ==
  ASSUME NEW F \in Layout, NEW G \in Layout, NEW b, NEW p, Lies(b, p, F \o G)
  PROVE  /\ Lies(b, p, F) /\ Lies(b, p + Size(F), G)
         /\ (p + Size(F)) + Size(G) = p + Size(F \o G)
<1>1. Lies(b, p, F) /\ Lies(b, p + Size(F), G)
  BY LiesJoin
<1>2. Size(F \o G) = Size(F) + Size(G)
  BY LayoutJoin
<1>3. p \in Nat /\ Size(F) \in Nat /\ Size(G) \in Nat
  BY <1>1, LiesFits
<1>4. QED
  BY <1>1, <1>2, <1>3

LEMMA ThreePassed ==
  ASSUME NEW F \in Layout, NEW G \in Layout, NEW H \in Layout, NEW b, NEW p, Lies(b, p, F \o G \o H)
  PROVE  /\ Lies(b, p, F) /\ Lies(b, p + Size(F), G) /\ Lies(b, (p + Size(F)) + Size(G), H)
         /\ ((p + Size(F)) + Size(G)) + Size(H) = p + Size(F \o G \o H)
<1>1. F \o G \in Layout
  BY LayoutJoin
<1>2. Lies(b, p, F \o G) /\ Lies(b, p + Size(F \o G), H)
      /\ (p + Size(F \o G)) + Size(H) = p + Size(F \o G \o H)
  BY <1>1, TwoPassed
<1>3. Lies(b, p, F) /\ Lies(b, p + Size(F), G) /\ (p + Size(F)) + Size(G) = p + Size(F \o G)
  BY <1>2, TwoPassed
<1>4. QED
  BY <1>2, <1>3

LEMMA RegisterCarried ==
  ASSUME NEW password \in Text(5), NEW cs \in CaptchaSet
  PROVE  Carried("REGISTER", String(password, 5) \o Captchas(cs))
<1> DEFINE F == String(password, 5)
           G == Captchas(cs)
<1>1. F \in Layout /\ G \in Layout /\ 5 \in Nat /\ 5 \in 0..30
  BY StringTyped, CaptchasTyped
<1>2. F \o G \in Layout
  BY <1>1, LayoutJoin
<1>3. ASSUME NEW b, NEW p, Lies(b, p, F \o G)
      PROVE  SkipBody("REGISTER", b, p) = p + Size(F \o G)
  <2>1. Lies(b, p, F) /\ Lies(b, p + Size(F), G) /\ (p + Size(F)) + Size(G) = p + Size(F \o G)
    BY <1>1, <1>3, TwoPassed
  <2>2. SkipSized(b, p, 5, 8) = p + Size(F)
    BY <1>1, <2>1, StringPassed
  <2>3. SkipCaptchas(b, p + Size(F)) = (p + Size(F)) + Size(G)
    BY <2>1, CaptchasPassed
  <2>4. SkipBody("REGISTER", b, p) = SkipCaptchas(b, SkipSized(b, p, 5, 8))
    BY SkipBodyIs
  <2> HIDE DEF F, G
  <2>5. QED
    BY <2>1, <2>2, <2>3, <2>4
<1>4. ASSUME NEW b, NEW r \in WholeReader, Lies(b, r.at, F \o G)
      PROVE  ReadsTo(r, F \o G, GetBody("REGISTER", b, r))
  <2> DEFINE s == GetString(b, r, 5)
             t == GetCaptchas(b, s)
  <2>1. r \in Reader /\ Lies(b, r.at, F)
    BY <1>1, <1>4, LiesJoin DEF Reader
  <2>2. ReadsTo(r, F, s)
    BY <1>1, <2>1, StringReads
  <2>3. s \in Reader /\ Lies(b, s.at, G)
    BY <1>1, <1>4, <2>2, Then
  <2>4. ReadsTo(s, G, t)
    BY <2>3, CaptchasRead
  <2>5. GetBody("REGISTER", b, r) = t
    BY GetBodyIs
  <2> HIDE DEF F, G, s, t
  <2>6. QED
    BY <1>1, <2>2, <2>4, <2>5, ReadsJoin
<1>5. QED
  BY <1>2, <1>3, <1>4 DEF Carried, Passes, IsRead

LEMMA LoginCarried ==
  ASSUME NEW player \in Text(6), NEW password \in Text(5), NEW cs \in CaptchaSet
  PROVE  Carried("LOGIN", String(player, 6) \o String(password, 5) \o Captchas(cs))
<1> DEFINE F == String(player, 6)
           G == String(password, 5)
           H == Captchas(cs)
<1>1. F \in Layout /\ G \in Layout /\ H \in Layout /\ 5 \in 0..30 /\ 6 \in 0..30 /\ 5 \in Nat /\ 6 \in Nat
  BY StringTyped, CaptchasTyped
<1>2. F \o G \o H \in Layout
  BY <1>1, ThreeTyped
<1>3. ASSUME NEW b, NEW p, Lies(b, p, F \o G \o H)
      PROVE  SkipBody("LOGIN", b, p) = p + Size(F \o G \o H)
  <2>1. /\ Lies(b, p, F) /\ Lies(b, p + Size(F), G) /\ Lies(b, (p + Size(F)) + Size(G), H)
        /\ ((p + Size(F)) + Size(G)) + Size(H) = p + Size(F \o G \o H)
    BY <1>1, <1>3, ThreePassed
  <2>2. SkipSized(b, p, 6, 8) = p + Size(F)
    BY <1>1, <2>1, StringPassed
  <2>3. SkipSized(b, p + Size(F), 5, 8) = (p + Size(F)) + Size(G)
    BY <1>1, <2>1, StringPassed
  <2>4. SkipCaptchas(b, (p + Size(F)) + Size(G)) = ((p + Size(F)) + Size(G)) + Size(H)
    BY <2>1, CaptchasPassed
  <2>5. SkipBody("LOGIN", b, p) = SkipCaptchas(b, SkipSized(b, SkipSized(b, p, 6, 8), 5, 8))
    BY SkipBodyIs
  <2> HIDE DEF F, G, H
  <2>6. QED
    BY <2>1, <2>2, <2>3, <2>4, <2>5
<1>4. ASSUME NEW b, NEW r \in WholeReader, Lies(b, r.at, F \o G \o H)
      PROVE  ReadsTo(r, F \o G \o H, GetBody("LOGIN", b, r))
  <2> DEFINE s == GetString(b, r, 6)
             t == GetString(b, s, 5)
             u == GetCaptchas(b, t)
  <2>1. r \in Reader /\ Lies(b, r.at, F)
    BY <1>1, <1>4, ThreePassed DEF Reader
  <2>2. ReadsTo(r, F, s)
    BY <1>1, <2>1, StringReads
  <2>3. s \in Reader /\ Lies(b, s.at, G)
    BY <1>1, <1>4, <2>2, ThreeLie
  <2>4. ReadsTo(s, G, t)
    BY <1>1, <2>3, StringReads
  <2>5. Lies(b, t.at, H) /\ t \in Reader
    <3> HIDE DEF F, G, H, s, t
    <3>1. QED
      BY <1>1, <1>4, <2>2, <2>4, ThreeLie
  <2>6. ReadsTo(t, H, u)
    BY <2>5, CaptchasRead
  <2>7. GetBody("LOGIN", b, r) = u
    BY GetBodyIs
  <2> HIDE DEF F, G, H, s, t, u
  <2>8. QED
    BY <1>1, <2>2, <2>4, <2>6, <2>7, ThreeRead
<1>5. QED
  BY <1>2, <1>3, <1>4 DEF Carried, Passes, IsRead

LEMMA PuzzleCarried ==
  ASSUME NEW puzzle \in Number(64), NEW image \in Text(18)
  PROVE  Carried("PUZZLE", Wide(puzzle, 64) \o String(image, 18))
<1> DEFINE F == Wide(puzzle, 64)
           G == String(image, 18)
<1>1. F \in Layout /\ G \in Layout /\ 64 \in Nat /\ 18 \in Nat /\ 18 \in 0..30
  BY StringTyped, WideTyped
<1>2. F \o G \in Layout
  BY <1>1, LayoutJoin
<1>3. ASSUME NEW b, NEW p, Lies(b, p, F \o G)
      PROVE  SkipBody("PUZZLE", b, p) = p + Size(F \o G)
  <2>1. Lies(b, p, F) /\ Lies(b, p + Size(F), G) /\ (p + Size(F)) + Size(G) = p + Size(F \o G)
    BY <1>1, <1>3, TwoPassed
  <2>2. Skip(b, p, 64) = p + Size(F)
    BY <1>1, <2>1, WidePassed
  <2>3. SkipSized(b, p + Size(F), 18, 8) = (p + Size(F)) + Size(G)
    BY <1>1, <2>1, StringPassed
  <2>4. SkipBody("PUZZLE", b, p) = SkipSized(b, Skip(b, p, 64), 18, 8)
    BY SkipBodyIs
  <2> HIDE DEF F, G
  <2>5. QED
    BY <2>1, <2>2, <2>3, <2>4
<1>4. ASSUME NEW b, NEW r \in WholeReader, Lies(b, r.at, F \o G)
      PROVE  ReadsTo(r, F \o G, GetBody("PUZZLE", b, r))
  <2> DEFINE s == Get(b, r, 64)
             t == GetString(b, s, 18)
  <2>1. r \in Reader /\ Lies(b, r.at, F)
    BY <1>1, <1>4, LiesJoin DEF Reader
  <2>2. ReadsTo(r, F, s)
    BY <1>1, <2>1, WideReads
  <2>3. s \in Reader /\ Lies(b, s.at, G)
    BY <1>1, <1>4, <2>2, Then
  <2>4. ReadsTo(s, G, t)
    BY <1>1, <2>3, StringReads
  <2>5. GetBody("PUZZLE", b, r) = t
    BY GetBodyIs
  <2> HIDE DEF F, G, s, t
  <2>6. QED
    BY <1>1, <2>2, <2>4, <2>5, ReadsJoin
<1>5. QED
  BY <1>2, <1>3, <1>4 DEF Carried, Passes, IsRead

LEMMA UuidReads ==
  ASSUME NEW uuid \in Just(16, Number(8))
  PROVE  /\ All(uuid, 8) \in Layout /\ Size(All(uuid, 8)) = 128
         /\ \A b : \A r \in Reader :
              Lies(b, r.at, All(uuid, 8)) => ReadsTo(r, All(uuid, 8), GetMany(b, r, 8, 16))
<1> DEFINE w == 8
           n == 16
<1>1. uuid \in Seq(Number(w)) /\ Len(uuid) = n /\ w \in Nat /\ n * w = 128
  BY DEF Just
<1> HIDE DEF w, n
<1>2. All(uuid, w) \in Layout /\ Size(All(uuid, w)) = n * w
  BY <1>1, AllTyped
<1>3. ASSUME NEW b, NEW r \in Reader, Lies(b, r.at, All(uuid, w))
      PROVE  ReadsTo(r, All(uuid, w), GetMany(b, r, w, n))
  <2>1. ReadsTo(r, All(uuid, w), GetMany(b, r, w, Len(uuid)))
    BY <1>1, <1>3, AllReads
  <2>2. QED
    BY <1>1, <2>1
<1>4. QED
  BY <1>1, <1>2, <1>3 DEF w, n

LEMMA PasswordCarried ==
  ASSUME NEW uuid \in Just(16, Number(8)), NEW old \in Text(5), NEW new \in Text(5)
  PROVE  Carried("PASSWORD_CHANGE", All(uuid, 8) \o String(old, 5) \o String(new, 5))
<1> DEFINE F == All(uuid, 8)
           G == String(old, 5)
           H == String(new, 5)
<1>1. F \in Layout /\ G \in Layout /\ H \in Layout /\ 5 \in 0..30 /\ 5 \in Nat /\ Size(F) = 128
  BY StringTyped, UuidReads
<1>2. F \o G \o H \in Layout
  BY <1>1, ThreeTyped
<1>3. ASSUME NEW b, NEW p, Lies(b, p, F \o G \o H)
      PROVE  SkipBody("PASSWORD_CHANGE", b, p) = p + Size(F \o G \o H)
  <2>1. /\ Lies(b, p, F) /\ Lies(b, p + Size(F), G) /\ Lies(b, (p + Size(F)) + Size(G), H)
        /\ ((p + Size(F)) + Size(G)) + Size(H) = p + Size(F \o G \o H)
    BY <1>1, <1>3, ThreePassed
  <2>2. Skip(b, p, 128) = p + Size(F)
    BY <1>1, <2>1, PassedOver
  <2>3. SkipSized(b, p + Size(F), 5, 8) = (p + Size(F)) + Size(G)
    BY <1>1, <2>1, StringPassed
  <2>4. SkipSized(b, (p + Size(F)) + Size(G), 5, 8) = ((p + Size(F)) + Size(G)) + Size(H)
    BY <1>1, <2>1, StringPassed
  <2>5. SkipBody("PASSWORD_CHANGE", b, p) = SkipSized(b, SkipSized(b, Skip(b, p, 128), 5, 8), 5, 8)
    BY SkipBodyIs
  <2> HIDE DEF F, G, H
  <2>6. QED
    BY <2>1, <2>2, <2>3, <2>4, <2>5
<1>4. ASSUME NEW b, NEW r \in WholeReader, Lies(b, r.at, F \o G \o H)
      PROVE  ReadsTo(r, F \o G \o H, GetBody("PASSWORD_CHANGE", b, r))
  <2> DEFINE s == GetMany(b, r, 8, 16)
             t == GetString(b, s, 5)
             u == GetString(b, t, 5)
  <2>1. r \in Reader /\ Lies(b, r.at, F)
    BY <1>1, <1>4, ThreePassed DEF Reader
  <2>2. ReadsTo(r, F, s)
    BY <2>1, UuidReads
  <2>3. s \in Reader /\ Lies(b, s.at, G)
    BY <1>1, <1>4, <2>2, ThreeLie
  <2>4. ReadsTo(s, G, t)
    BY <1>1, <2>3, StringReads
  <2>5. Lies(b, t.at, H) /\ t \in Reader
    <3> HIDE DEF F, G, H, s, t
    <3>1. QED
      BY <1>1, <1>4, <2>2, <2>4, ThreeLie
  <2>6. ReadsTo(t, H, u)
    BY <1>1, <2>5, StringReads
  <2>7. GetBody("PASSWORD_CHANGE", b, r) = u
    BY GetBodyIs
  <2> HIDE DEF F, G, H, s, t, u
  <2>8. QED
    BY <1>1, <2>2, <2>4, <2>6, <2>7, ThreeRead
<1>5. QED
  BY <1>2, <1>3, <1>4 DEF Carried, Passes, IsRead

(* Messages of fixed length.                                                *)
LEMMA PingRead ==
  ASSUME NEW status \in 0..1
  PROVE  Num(status, 1) \in Layout /\ Size(Num(status, 1)) = 1 /\ IsRead("PING", Num(status, 1))
<1>1. Num(status, 1) \in Layout /\ Size(Num(status, 1)) = 1
  BY FlagTyped
<1>2. ASSUME NEW b, NEW r \in WholeReader, Lies(b, r.at, Num(status, 1))
      PROVE  ReadsTo(r, Num(status, 1), GetBody("PING", b, r))
  <2>1. r \in Reader
    BY DEF Reader
  <2>2. ReadsTo(r, Num(status, 1), Get(b, r, 1))
    BY <1>2, <2>1, FlagReads
  <2>3. QED
    BY <2>2, GetBodyIs
<1>3. QED
  BY <1>1, <1>2 DEF IsRead

LEMMA UuidCarried ==
  ASSUME NEW type \in {"LOGOUT", "AUTH", "STOP"}, NEW uuid \in Just(16, Number(8))
  PROVE  All(uuid, 8) \in Layout /\ Size(All(uuid, 8)) = 128 /\ IsRead(type, All(uuid, 8))
<1>1. ASSUME NEW b, NEW r \in WholeReader, Lies(b, r.at, All(uuid, 8))
      PROVE  ReadsTo(r, All(uuid, 8), GetBody(type, b, r))
  <2>1. r \in Reader
    BY DEF Reader
  <2>2. ReadsTo(r, All(uuid, 8), GetMany(b, r, 8, 16))
    BY <1>1, <2>1, UuidReads
  <2>3. GetBody(type, b, r) = GetMany(b, r, 8, 16)
    BY GetBodyIs
  <2>4. QED
    BY <2>2, <2>3
<1>2. QED
  BY <1>1, UuidReads DEF IsRead

LEMMA MotionRead ==
  ASSUME NEW at \in Vector(LocalBits), NEW turn \in Angle
  PROVE  /\ All(at, LocalBits) \o All(turn, RotationBits) \in Layout
         /\ Size(All(at, LocalBits) \o All(turn, RotationBits)) = 3 * LocalBits + 3 * RotationBits
         /\ IsRead("CLIENT_LOCAL_POSITION_UPDATE", All(at, LocalBits) \o All(turn, RotationBits))
<1> DEFINE F == All(at, LocalBits)
           G == All(turn, RotationBits)
<1>1. LocalBits \in Nat /\ RotationBits \in Nat /\ turn \in Vector(RotationBits)
  BY DEF LocalBits, RotationBits, Angle
<1>2. F \in Layout /\ G \in Layout /\ Size(F) = 3 * LocalBits /\ Size(G) = 3 * RotationBits
  BY <1>1, VectorTyped
<1>3. F \o G \in Layout /\ Size(F \o G) = 3 * LocalBits + 3 * RotationBits
  <2> HIDE DEF F, G
  <2>1. QED
    BY <1>2, LayoutJoin
<1>4. ASSUME NEW b, NEW r \in WholeReader, Lies(b, r.at, F \o G)
      PROVE  ReadsTo(r, F \o G, GetBody("CLIENT_LOCAL_POSITION_UPDATE", b, r))
  <2> DEFINE s == GetMany(b, r, LocalBits, 3)
             t == GetMany(b, s, RotationBits, 3)
  <2>1. r \in Reader /\ Lies(b, r.at, F)
    BY <1>2, <1>4, LiesJoin DEF Reader
  <2>2. ReadsTo(r, F, s)
    BY <1>1, <2>1, VectorReads
  <2>3. s \in Reader /\ Lies(b, s.at, G)
    BY <1>2, <1>4, <2>2, Then
  <2>4. ReadsTo(s, G, t)
    BY <1>1, <2>3, VectorReads
  <2>5. GetBody("CLIENT_LOCAL_POSITION_UPDATE", b, r) = t
    BY GetMotionIs
  <2> HIDE DEF F, G, s, t
  <2>6. QED
    BY <1>2, <2>2, <2>4, <2>5, ReadsJoin
<1>5. QED
  BY <1>3, <1>4 DEF IsRead

(* Players that fight.                                                      *)
LEMMA HitCarried ==
  ASSUME NEW velocity \in Number(VelocityBits), NEW id \in Ids
  PROVE  Carried("HIT", Wide(velocity, VelocityBits) \o Id(id))
<1> DEFINE F == Wide(velocity, VelocityBits)
           G == Id(id)
<1>1. VelocityBits \in Nat
  BY DEF VelocityBits
<1>2. F \in Layout /\ G \in Layout
  BY <1>1, WideTyped, IdTyped
<1>3. F \o G \in Layout
  BY <1>2, LayoutJoin
<1>4. ASSUME NEW b, NEW p, Lies(b, p, F \o G)
      PROVE  SkipBody("HIT", b, p) = p + Size(F \o G)
  <2>1. Lies(b, p, F) /\ Lies(b, p + Size(F), G) /\ (p + Size(F)) + Size(G) = p + Size(F \o G)
    BY <1>2, <1>4, TwoPassed
  <2>2. Skip(b, p, VelocityBits) = p + Size(F)
    BY <1>1, <2>1, WidePassed
  <2>3. SkipId(b, p + Size(F)) = (p + Size(F)) + Size(G)
    BY <2>1, IdPassed
  <2>4. SkipBody("HIT", b, p) = SkipId(b, Skip(b, p, VelocityBits))
    BY SkipBodyIs
  <2> HIDE DEF F, G
  <2>5. QED
    BY <2>1, <2>2, <2>3, <2>4
<1>5. ASSUME NEW b, NEW r \in WholeReader, Lies(b, r.at, F \o G)
      PROVE  ReadsTo(r, F \o G, GetBody("HIT", b, r))
  <2> DEFINE s == Get(b, r, VelocityBits)
             t == GetId(b, s)
  <2>1. r \in Reader /\ Lies(b, r.at, F)
    BY <1>2, <1>5, LiesJoin DEF Reader
  <2>2. ReadsTo(r, F, s)
    BY <1>1, <2>1, WideReads
  <2>3. s \in Reader /\ Lies(b, s.at, G)
    BY <1>2, <1>5, <2>2, Then
  <2>4. ReadsTo(s, G, t)
    BY <2>3, IdReads
  <2>5. GetBody("HIT", b, r) = t
    BY GetMotionIs
  <2> HIDE DEF F, G, s, t
  <2>6. QED
    BY <1>2, <2>2, <2>4, <2>5, ReadsJoin
<1>6. QED
  BY <1>3, <1>4, <1>5 DEF Carried, Passes, IsRead

LEMMA DeadCarried ==
  ASSUME NEW id \in Ids
  PROVE  Carried("DEAD", Id(id))
<1>1. Id(id) \in Layout
  BY IdTyped
<1>2. ASSUME NEW b, NEW p, Lies(b, p, Id(id)) PROVE SkipBody("DEAD", b, p) = p + Size(Id(id))
  BY <1>2, IdPassed, SkipBodyIs
<1>3. ASSUME NEW b, NEW r \in WholeReader, Lies(b, r.at, Id(id))
      PROVE  ReadsTo(r, Id(id), GetBody("DEAD", b, r))
  <2>1. r \in Reader
    BY DEF Reader
  <2>2. ReadsTo(r, Id(id), GetId(b, r))
    BY <1>3, <2>1, IdReads
  <2>3. QED
    BY <2>2, GetMotionIs
<1>4. QED
  BY <1>1, <1>2, <1>3 DEF Carried, Passes, IsRead

(* The angle of an attack is there or not, and a flag says so.              *)
LEMMA AngleIs ==
  ASSUME NEW turn \in {<<>>} \cup Angle
  PROVE  /\ Len(turn) \div 3 \in 0..1 /\ 3 * (Len(turn) \div 3) = Len(turn)
         /\ turn \in Seq(Number(RotationBits)) /\ All(turn, RotationBits) \in Layout
         /\ Size(All(turn, RotationBits)) = (3 * RotationBits) * (Len(turn) \div 3)
<1>1. RotationBits \in Nat
  BY DEF RotationBits
<1>2. turn \in Seq(Number(RotationBits)) /\ (Len(turn) = 0 \/ Len(turn) = 3)
  <2>1. CASE turn = <<>>
    BY <2>1
  <2>2. CASE turn \in Angle
    BY <1>1, <2>2, VectorTyped DEF Angle
  <2>3. QED
    BY <2>1, <2>2
<1>3. Len(turn) \div 3 \in 0..1 /\ 3 * (Len(turn) \div 3) = Len(turn)
  <2> DEFINE n == Len(turn)
  <2>1. n = 0 \/ n = 3
    BY <1>2
  <2> HIDE DEF n
  <2>2. n \div 3 \in 0..1 /\ 3 * (n \div 3) = n
    BY <2>1
  <2>3. QED
    BY <2>2 DEF n
<1>4. All(turn, RotationBits) \in Layout /\ Size(All(turn, RotationBits)) = Len(turn) * RotationBits
  BY <1>1, <1>2, AllTyped
<1>5. Len(turn) * RotationBits = (3 * RotationBits) * (Len(turn) \div 3)
  BY <1>2, <1>3 DEF RotationBits
<1>6. QED
  BY <1>2, <1>3, <1>4, <1>5

LEMMA AttackCarried ==
  ASSUME NEW id \in Ids, NEW turn \in {<<>>} \cup Angle
  PROVE  Carried("ATTACK", Id(id) \o Num(Len(turn) \div 3, 1) \o All(turn, RotationBits))
<1> DEFINE n == Len(turn) \div 3
           F == Id(id)
           G == Num(n, 1)
           H == All(turn, RotationBits)
<1>1. /\ n \in 0..1 /\ 3 * n = Len(turn) /\ turn \in Seq(Number(RotationBits)) /\ H \in Layout
      /\ Size(H) = (3 * RotationBits) * n
  BY AngleIs
<1> HIDE DEF n
<1>2. F \in Layout /\ G \in Layout /\ Size(G) = 1 /\ RotationBits \in Nat /\ n \in Nat
  BY <1>1, IdTyped, FlagTyped DEF RotationBits
<1>3. F \o G \o H \in Layout
  BY <1>1, <1>2, ThreeTyped
<1>4. ASSUME NEW b, NEW p, Lies(b, p, F \o G \o H)
      PROVE  SkipBody("ATTACK", b, p) = p + Size(F \o G \o H)
  <2> DEFINE q == p + Size(F)
             t == q + 1
  <2>1. /\ Lies(b, p, F) /\ Lies(b, q, G) /\ Lies(b, q + Size(G), H)
        /\ (q + Size(G)) + Size(H) = p + Size(F \o G \o H)
    <3> HIDE DEF F, G, H
    <3>1. QED
      BY <1>1, <1>2, <1>4, ThreePassed
  <2>2. SkipId(b, p) = q
    BY <2>1, IdPassed
  <2> HIDE DEF F, H, q
  <2>3. Skip(b, q, 1) = t /\ Before(b, t, 1) = n
    BY <1>1, <2>1, FlagPassed
  <2>4. Lies(b, t, H) /\ t + Size(H) = p + Size(F \o G \o H)
    BY <1>2, <2>1
  <2> HIDE DEF t
  <2>5. Skip(b, t, (3 * RotationBits) * n) = t + Size(H)
    BY <1>1, <2>4, PassedOver
  <2>6. SkipSized(b, q, 1, 3 * RotationBits) = Skip(b, t, (3 * RotationBits) * n)
    BY <2>3 DEF SkipSized
  <2>7. SkipBody("ATTACK", b, p) = SkipSized(b, SkipId(b, p), 1, 3 * RotationBits)
    BY SkipBodyIs
  <2>8. QED
    BY <2>2, <2>4, <2>5, <2>6, <2>7
<1>5. ASSUME NEW b, NEW r \in WholeReader, Lies(b, r.at, F \o G \o H)
      PROVE  ReadsTo(r, F \o G \o H, GetBody("ATTACK", b, r))
  <2> DEFINE s == GetId(b, r)
             t == Get(b, s, 1)
             u == GetMany(b, t, RotationBits, 3 * n)
  <2>1. r \in Reader /\ Lies(b, r.at, F)
    <3> HIDE DEF F, G, H
    <3>1. QED
      BY <1>1, <1>2, <1>5, ThreePassed DEF Reader
  <2>2. ReadsTo(r, F, s)
    BY <2>1, IdReads
  <2>3. s \in Reader /\ Lies(b, s.at, G)
    <3> HIDE DEF F, G, H, s
    <3>1. QED
      BY <1>1, <1>2, <1>5, <2>2, ThreeLie
  <2>4. ReadsTo(s, G, t) /\ Got(t) = n
    BY <1>1, <2>3, FlagReads
  <2>5. Lies(b, t.at, H) /\ t \in Reader
    <3> HIDE DEF F, G, H, s, t
    <3>1. QED
      BY <1>1, <1>2, <1>5, <2>2, <2>4, ThreeLie
  <2>6. ReadsTo(t, H, u)
    <3>1. ReadsTo(t, H, GetMany(b, t, RotationBits, Len(turn)))
      BY <1>1, <1>2, <2>5, AllReads
    <3>2. QED
      BY <1>1, <3>1
  <2>7. GetBody("ATTACK", b, r) = u
    BY <2>4, GetMotionIs
  <2> HIDE DEF F, G, H, s, t, u
  <2>8. QED
    BY <1>1, <1>2, <2>2, <2>4, <2>6, <2>7, ThreeRead
<1>6. QED
  BY <1>3, <1>4, <1>5 DEF Carried, Passes, IsRead, n

LEMMA MovedCarried ==
  ASSUME NEW es \in Few(11, Move1)
  PROVE  Carried("BATCH_POSITION_UPDATE", Moved(es))
<1>1. Moved(es) \in Layout
  BY MovedTyped
<1>2. ASSUME NEW b, NEW p, Lies(b, p, Moved(es))
      PROVE  SkipBody("BATCH_POSITION_UPDATE", b, p) = p + Size(Moved(es))
  BY <1>2, MovedPassed, SkipBodyIs
<1>3. ASSUME NEW b, NEW r \in WholeReader, Lies(b, r.at, Moved(es))
      PROVE  ReadsTo(r, Moved(es), GetBody("BATCH_POSITION_UPDATE", b, r))
  <2>1. r \in Reader
    BY DEF Reader
  <2>2. ReadsTo(r, Moved(es), GetMoved(b, r))
    BY <1>3, <2>1, MovedReads
  <2>3. QED
    BY <2>2, GetMotionIs
<1>4. QED
  BY <1>1, <1>2, <1>3 DEF Carried, Passes, IsRead

LEMMA LivedCarried ==
  ASSUME NEW es \in Few(11, Life1)
  PROVE  Carried("RESYNC", Lived(es))
<1>1. Lived(es) \in Layout
  BY LivedTyped
<1>2. ASSUME NEW b, NEW p, Lies(b, p, Lived(es))
      PROVE  SkipBody("RESYNC", b, p) = p + Size(Lived(es))
  BY <1>2, LivedPassed, SkipBodyIs
<1>3. ASSUME NEW b, NEW r \in WholeReader, Lies(b, r.at, Lived(es))
      PROVE  ReadsTo(r, Lived(es), GetBody("RESYNC", b, r))
  <2>1. r \in Reader
    BY DEF Reader
  <2>2. ReadsTo(r, Lived(es), GetLived(b, r))
    BY <1>3, <2>1, LivedReads
  <2>3. QED
    BY <2>2, GetMotionIs
<1>4. QED
  BY <1>1, <1>2, <1>3 DEF Carried, Passes, IsRead
-----------------------------------------------------------------------------
(* Four and five layouts one after another.                                 *)
LEMMA SkipTo ==
  ASSUME NEW b, NEW p, NEW F, Lies(b, p, F), NEW q \in Nat, NEW n \in Nat, q + n = p + Size(F)
  PROVE  Skip(b, q, n) = p + Size(F)
<1>1. p + Size(F) <= Len(b) /\ Len(b) \in Nat
  BY LiesFits
<1>2. q # Short
  BY DEF Short
<1>3. QED
  BY <1>1, <1>2 DEF Skip

LEMMA FourTyped ==
  ASSUME NEW F \in Layout, NEW G \in Layout, NEW H \in Layout, NEW I \in Layout
  PROVE  /\ F \o G \in Layout /\ F \o G \o H \in Layout /\ F \o G \o H \o I \in Layout
         /\ Size(F \o G \o H \o I) = Size(F) + Size(G) + Size(H) + Size(I)
<1>1. F \o G \in Layout /\ Size(F \o G) = Size(F) + Size(G)
  BY LayoutJoin
<1>2. (F \o G) \o H \in Layout /\ Size((F \o G) \o H) = Size(F \o G) + Size(H)
  BY <1>1, LayoutJoin
<1>3. ((F \o G) \o H) \o I \in Layout /\ Size(((F \o G) \o H) \o I) = Size((F \o G) \o H) + Size(I)
  BY <1>2, LayoutJoin
<1>4. Size(F) \in Nat /\ Size(G) \in Nat /\ Size(H) \in Nat /\ Size(I) \in Nat
  BY LayoutTyped
<1>5. QED
  BY <1>1, <1>2, <1>3, <1>4

LEMMA FiveTyped ==
  ASSUME NEW F \in Layout, NEW G \in Layout, NEW H \in Layout, NEW I \in Layout, NEW J \in Layout
  PROVE  /\ F \o G \in Layout /\ F \o G \o H \in Layout /\ F \o G \o H \o I \in Layout
         /\ F \o G \o H \o I \o J \in Layout
         /\ Size(F \o G \o H \o I \o J) = Size(F) + Size(G) + Size(H) + Size(I) + Size(J)
<1>1. /\ F \o G \in Layout /\ F \o G \o H \in Layout /\ F \o G \o H \o I \in Layout
      /\ Size(F \o G \o H \o I) = Size(F) + Size(G) + Size(H) + Size(I)
  BY FourTyped
<1>2. /\ (F \o G \o H \o I) \o J \in Layout
      /\ Size((F \o G \o H \o I) \o J) = Size(F \o G \o H \o I) + Size(J)
  BY <1>1, LayoutJoin
<1>3. QED
  BY <1>1, <1>2

LEMMA FourLie ==
  ASSUME NEW F \in Layout, NEW G \in Layout, NEW H \in Layout, NEW I \in Layout,
         NEW b, NEW p, Lies(b, p, F \o G \o H \o I)
  PROVE  /\ Lies(b, p, F) /\ Lies(b, p, F \o G) /\ Lies(b, p, F \o G \o H)
<1>1. F \o G \in Layout /\ F \o G \o H \in Layout
  BY FourTyped
<1>2. Lies(b, p, F \o G \o H)
  BY <1>1, LiesJoin
<1>3. Lies(b, p, F \o G)
  BY <1>1, <1>2, LiesJoin
<1>4. Lies(b, p, F)
  BY <1>3, LiesJoin
<1>5. QED
  BY <1>2, <1>3, <1>4

LEMMA FiveLie ==
  ASSUME NEW F \in Layout, NEW G \in Layout, NEW H \in Layout, NEW I \in Layout, NEW J \in Layout,
         NEW b, NEW p, Lies(b, p, F \o G \o H \o I \o J)
  PROVE  /\ Lies(b, p, F) /\ Lies(b, p, F \o G) /\ Lies(b, p, F \o G \o H)
         /\ Lies(b, p, F \o G \o H \o I)
<1>1. F \o G \o H \o I \in Layout
  BY FourTyped
<1>2. Lies(b, p, F \o G \o H \o I)
  BY <1>1, LiesJoin
<1>3. QED
  BY <1>2, FourLie

LEMMA NothingReads ==
  ASSUME NEW r \in Reader
  PROVE  ReadsTo(r, <<>>, r)
<1>1. r.at \in Nat /\ r.got \in Seq(Says)
  BY ReaderIs
<1>2. Size(<<>>) = 0 /\ SaysIn(<<>>) = <<>>
  BY LayoutEmpty
<1>3. r.at + 0 = r.at /\ r.got \o <<>> = r.got
  BY <1>1
<1>4. QED
  BY <1>2, <1>3 DEF ReadsTo

LEMMA NoNumbers ==
  ASSUME NEW w
  PROVE  All(<<>>, w) = <<>>
<1>1. [i \in DOMAIN <<>> |-> Wide(<<>>[i], w)] = <<>>
  OBVIOUS
<1>2. All(<<>>, w) = FlattenSeq([i \in DOMAIN <<>> |-> Wide(<<>>[i], w)])
  BY DEF All, Each
<1>3. QED
  BY <1>1, <1>2, FlattenEmpty, Zenon

(* Where a player is: in a terrain,                                         *)
LEMMA TerrainCarried ==
  ASSUME NEW at \in Vector(63)
  PROVE  Carried("POSITION_UPDATE", Num(0, 1) \o All(at, 63))
<1> DEFINE w == 63
           n == 0
           F == Num(n, 1)
           G == All(at, w)
<1>1. w \in Nat /\ at \in Vector(w) /\ n \in 0..1 /\ n \in Nat
  OBVIOUS
<1>2. 3 * 63 = 3 * w
  OBVIOUS
<1> HIDE DEF w
<1>3. F \in Layout /\ G \in Layout /\ Size(F) = 1 /\ Size(G) = 3 * w
  BY <1>1, FlagTyped, VectorTyped
<1> HIDE DEF n
<1>4. F \o G \in Layout
  BY <1>3, LayoutJoin
<1>5. ASSUME NEW b, NEW p, Lies(b, p, F \o G)
      PROVE  SkipBody("POSITION_UPDATE", b, p) = p + Size(F \o G)
  <2>1. Lies(b, p, F) /\ Lies(b, p + Size(F), G) /\ (p + Size(F)) + Size(G) = p + Size(F \o G)
    BY <1>3, <1>5, TwoPassed
  <2>2. Skip(b, p, 1) = p + 1 /\ Before(b, p + 1, 1) = n
    BY <1>1, <2>1, FlagPassed
  <2>3. Skip(b, p + Size(F), 3 * w) = (p + Size(F)) + Size(G)
    BY <1>3, <2>1, PassedOver
  <2>4. SkipBody("POSITION_UPDATE", b, p) = SkipPosition(b, p)
    BY SkipBodyIs
  <2>5. SkipPosition(b, p) = Skip(b, p + 1, 3 * w)
    BY <1>2, <2>2 DEF SkipPosition, n
  <2> HIDE DEF F, G
  <2>6. QED
    BY <1>3, <2>1, <2>3, <2>4, <2>5
<1>6. ASSUME NEW b, NEW r \in WholeReader, Lies(b, r.at, F \o G)
      PROVE  ReadsTo(r, F \o G, GetBody("POSITION_UPDATE", b, r))
  <2> DEFINE s == Get(b, r, 1)
             t == GetMany(b, s, w, 3)
  <2>1. r \in Reader /\ Lies(b, r.at, F)
    BY <1>3, <1>6, LiesJoin DEF Reader
  <2>2. ReadsTo(r, F, s) /\ Got(s) = n
    BY <1>1, <2>1, FlagReads
  <2>3. s \in Reader /\ Lies(b, s.at, G)
    BY <1>3, <1>6, <2>2, Then
  <2>4. ReadsTo(s, G, t)
    BY <1>1, <2>3, VectorReads
  <2>5. GetBody("POSITION_UPDATE", b, r) = t
    BY <2>2, GetMotionIs DEF GetPosition, n, w
  <2> HIDE DEF F, G, s, t
  <2>6. QED
    BY <1>3, <2>2, <2>4, <2>5, ReadsJoin
<1>7. QED
  BY <1>4, <1>5, <1>6 DEF Carried, Passes, IsRead, n, w

(* or in space, as far as it has changed.                                   *)
Moving(c, quadrant, lightyear) ==
  /\ c \in 0..2
  /\ quadrant \in IF c = 0 THEN Vector(64) ELSE {<<>>}
  /\ lightyear \in IF c <= 1 THEN Vector(14) ELSE {<<>>}

LEMMA MovingTyped ==
  ASSUME NEW c, NEW quadrant, NEW lightyear, Moving(c, quadrant, lightyear)
  PROVE  /\ All(quadrant, 64) \in Layout /\ All(lightyear, 14) \in Layout
         /\ Size(All(quadrant, 64)) = IF c = 0 THEN 192 ELSE 0
         /\ Size(All(lightyear, 14)) = IF c <= 1 THEN 42 ELSE 0
<1> DEFINE v == 64
           w == 14
<1>1. v \in Nat /\ w \in Nat /\ 3 * v = 192 /\ 3 * w = 42
      /\ quadrant \in (IF c = 0 THEN Vector(v) ELSE {<<>>})
      /\ lightyear \in (IF c <= 1 THEN Vector(w) ELSE {<<>>})
  BY DEF Moving
<1> HIDE DEF v, w
<1>2. All(quadrant, v) \in Layout /\ Size(All(quadrant, v)) = IF c = 0 THEN 192 ELSE 0
  <2>1. CASE c = 0
    BY <1>1, <2>1, VectorTyped
  <2>2. CASE c # 0
    BY <1>1, <2>2, NoNumbers, LayoutEmpty
  <2>3. QED
    BY <2>1, <2>2
<1>3. All(lightyear, w) \in Layout /\ Size(All(lightyear, w)) = IF c <= 1 THEN 42 ELSE 0
  <2>1. CASE c <= 1
    BY <1>1, <2>1, VectorTyped
  <2>2. CASE ~(c <= 1)
    BY <1>1, <2>2, NoNumbers, LayoutEmpty
  <2>3. QED
    BY <2>1, <2>2
<1>4. QED
  BY <1>2, <1>3 DEF v, w

LEMMA MovingRead ==
  ASSUME NEW c, NEW quadrant, NEW lightyear, Moving(c, quadrant, lightyear), NEW b, NEW r \in Reader
  PROVE  /\ Lies(b, r.at, All(quadrant, 64)) =>
              ReadsTo(r, All(quadrant, 64), IF c = 0 THEN GetMany(b, r, 64, 3) ELSE r)
         /\ Lies(b, r.at, All(lightyear, 14)) =>
              ReadsTo(r, All(lightyear, 14), IF c <= 1 THEN GetMany(b, r, 14, 3) ELSE r)
<1> DEFINE v == 64
           w == 14
<1>1. v \in Nat /\ w \in Nat
      /\ quadrant \in (IF c = 0 THEN Vector(v) ELSE {<<>>})
      /\ lightyear \in (IF c <= 1 THEN Vector(w) ELSE {<<>>})
  BY DEF Moving
<1> HIDE DEF v, w
<1>2. ASSUME Lies(b, r.at, All(quadrant, v))
      PROVE  ReadsTo(r, All(quadrant, v), IF c = 0 THEN GetMany(b, r, v, 3) ELSE r)
  <2>1. CASE c = 0
    BY <1>1, <1>2, <2>1, VectorReads
  <2>2. CASE c # 0
    <3>1. All(quadrant, v) = <<>>
      BY <1>1, <2>2, NoNumbers
    <3>2. QED
      BY <2>2, <3>1, NothingReads
  <2>3. QED
    BY <2>1, <2>2
<1>3. ASSUME Lies(b, r.at, All(lightyear, w))
      PROVE  ReadsTo(r, All(lightyear, w), IF c <= 1 THEN GetMany(b, r, w, 3) ELSE r)
  <2>1. CASE c <= 1
    BY <1>1, <1>3, <2>1, VectorReads
  <2>2. CASE ~(c <= 1)
    <3>1. All(lightyear, w) = <<>>
      BY <1>1, <2>2, NoNumbers
    <3>2. QED
      BY <2>2, <3>1, NothingReads
  <2>3. QED
    BY <2>1, <2>2
<1>4. QED
  BY <1>2, <1>3 DEF v, w

LEMMA SpaceCarried ==
  ASSUME NEW c, NEW quadrant, NEW lightyear, Moving(c, quadrant, lightyear), NEW km \in Vector(KmBits)
  PROVE  Carried("POSITION_UPDATE", Num(1, 1) \o Num(c, 2) \o All(quadrant, 64)
                                      \o All(lightyear, 14) \o All(km, KmBits))
<1> DEFINE n == 1
           F == Num(n, 1)
           G == Num(c, 2)
           H == All(quadrant, 64)
           I == All(lightyear, 14)
           J == All(km, KmBits)
           B == F \o G \o H \o I \o J
<1>1. n \in 0..1 /\ n \in Nat /\ c \in 0..2 /\ c \in 0..3 /\ c \in Nat /\ KmBits \in Nat /\ 3 * KmBits = 132
  BY DEF Moving, KmBits
<1> HIDE DEF n
<1>2. /\ F \in Layout /\ G \in Layout /\ H \in Layout /\ I \in Layout /\ J \in Layout
      /\ Size(F) = 1 /\ Size(G) = 2 /\ Size(J) = 132
      /\ Size(H) = IF c = 0 THEN 192 ELSE 0
      /\ Size(I) = IF c <= 1 THEN 42 ELSE 0
  BY <1>1, FlagTyped, MovingTyped, VectorTyped
<1>3. /\ F \o G \in Layout /\ F \o G \o H \in Layout /\ F \o G \o H \o I \in Layout /\ B \in Layout
      /\ Size(B) = Size(F) + Size(G) + Size(H) + Size(I) + Size(J)
  <2>1. F \in Layout /\ G \in Layout /\ H \in Layout /\ I \in Layout /\ J \in Layout
    BY <1>2
  <2> HIDE DEF F, G, H, I, J
  <2>2. QED
    BY <2>1, FiveTyped
<1>4. ASSUME NEW b, NEW p, Lies(b, p, B)
      PROVE  SkipBody("POSITION_UPDATE", b, p) = p + Size(B)
  <2>1. Lies(b, p, F) /\ Lies(b, p, F \o G)
    <3> HIDE DEF F, G, H, I, J
    <3>1. QED
      BY <1>2, <1>4, FiveLie
  <2>2. Lies(b, p + Size(F), G)
    BY <1>2, <2>1, LiesJoin
  <2> DEFINE q == p + 1
             k == q + 2
             more == 3 * KmBits + (IF c = 0 THEN 3 * 64 + 3 * 14 ELSE IF c = 1 THEN 3 * 14 ELSE 0)
  <2>3. Skip(b, p, 1) = q /\ Before(b, q, 1) = n /\ p \in Nat
    BY <1>1, <2>1, FlagPassed
  <2>4. Lies(b, q, G)
    BY <1>2, <2>2
  <2> HIDE DEF q
  <2>5. Skip(b, q, 2) = k /\ Before(b, k, 2) = c /\ q \in Nat
    BY <1>1, <2>4, PairPassed
  <2>6. k \in Nat /\ more \in Nat /\ k + more = p + Size(B)
    BY <1>1, <1>2, <1>3, <2>3, <2>5 DEF q
  <2> HIDE DEF k
  <2>7. SkipPosition(b, p) = Skip(b, k, more)
    <3>1. Before(b, q, 1) # 0
      BY <2>3 DEF n
    <3>2. SkipPosition(b, p) = Skip(b, k, 3 * KmBits + (CASE c = 0 -> 3 * 64 + 3 * 14
                                           [] c = 1 -> 3 * 14
                                           [] OTHER -> 0))
      BY <2>3, <2>5, <3>1 DEF SkipPosition
    <3>3. (CASE c = 0 -> 3 * 64 + 3 * 14 [] c = 1 -> 3 * 14 [] OTHER -> 0)
            = IF c = 0 THEN 3 * 64 + 3 * 14 ELSE IF c = 1 THEN 3 * 14 ELSE 0
      BY <1>1
    <3>4. QED
      BY <3>2, <3>3
  <2> HIDE DEF more, B
  <2>8. Skip(b, k, more) = p + Size(B)
    BY <1>4, <2>6, SkipTo
  <2>9. QED
    BY <2>7, <2>8, SkipBodyIs
<1>5. ASSUME NEW b, NEW r \in WholeReader, Lies(b, r.at, B)
      PROVE  ReadsTo(r, B, GetBody("POSITION_UPDATE", b, r))
  <2> DEFINE s == Get(b, r, 1)
             t == Get(b, s, 2)
             u == IF c = 0 THEN GetMany(b, t, 64, 3) ELSE t
             v == IF c <= 1 THEN GetMany(b, u, 14, 3) ELSE u
             x == GetMany(b, v, KmBits, 3)
  <2>1. r \in Reader
    BY DEF Reader
  <2>2. /\ Lies(b, r.at, F) /\ Lies(b, r.at, F \o G) /\ Lies(b, r.at, F \o G \o H)
        /\ Lies(b, r.at, F \o G \o H \o I)
    <3> HIDE DEF F, G, H, I, J
    <3>1. QED
      BY <1>2, <1>5, FiveLie
  <2>3. ReadsTo(r, F, s) /\ Got(s) = n
    BY <1>1, <2>1, <2>2, FlagReads
  <2>4. s \in Reader /\ Lies(b, s.at, G)
    BY <1>2, <2>2, <2>3, Then
  <2>5. ReadsTo(s, G, t) /\ Got(t) = c
    BY <1>1, <2>4, PairReads
  <2>6. GetBody("POSITION_UPDATE", b, r) = x
    <3>1. Got(s) # 0 /\ Got(t) = c
      BY <2>3, <2>5 DEF n
    <3>2. GetPosition(b, r) = x
      BY <3>1, Zenon DEF GetPosition
    <3>3. QED
      BY <3>2, GetMotionIs
  <2> HIDE DEF s, t
  <2>7. ReadsTo(r, F \o G, t)
    <3> HIDE DEF F, G
    <3>1. QED
      BY <1>2, <2>3, <2>5, ReadsJoin
  <2>8. ReadsTo(r, F \o G \o H, u)
    <3>1. t \in Reader /\ Lies(b, t.at, H)
      <4> HIDE DEF F, G, H
      <4>1. QED
        BY <1>2, <1>3, <2>2, <2>7, Then, ZenonT(60)
    <3>2. ReadsTo(t, H, u)
      BY <3>1, MovingRead
    <3> HIDE DEF F, G, H, u
    <3>3. QED
      BY <1>2, <1>3, <2>7, <3>2, ReadsJoin
  <2>9. ReadsTo(r, F \o G \o H \o I, v)
    <3>1. u \in Reader /\ Lies(b, u.at, I)
      <4> HIDE DEF F, G, H, I, u
      <4>1. QED
        BY <1>2, <1>3, <2>2, <2>8, Then, ZenonT(60)
    <3> HIDE DEF u
    <3>2. ReadsTo(u, I, v)
      BY <3>1, MovingRead
    <3> HIDE DEF F, G, H, I, v
    <3>3. QED
      BY <1>2, <1>3, <2>8, <3>2, ReadsJoin
  <2> HIDE DEF u, v
  <2>10. ReadsTo(r, F \o G \o H \o I \o J, x)
    <3>1. v \in Reader /\ Lies(b, v.at, J)
      <4> HIDE DEF F, G, H, I, J
      <4>1. QED
        BY <1>2, <1>3, <1>5, <2>9, Then, ZenonT(60)
    <3>2. ReadsTo(v, J, x)
      BY <1>1, <3>1, VectorReads
    <3> HIDE DEF F, G, H, I, J, x
    <3>3. QED
      BY <1>2, <1>3, <2>9, <3>2, ReadsJoin
  <2>11. QED
    BY <2>6, <2>10
<1>6. QED
  BY <1>3, <1>4, <1>5 DEF Carried, Passes, IsRead, n

(* Messages with blocks.                                                    *)
LEMMA SchemataCarried ==
  ASSUME NEW id \in Ids, NEW bs \in BlockList(SchemataBits), NEW known, Knows(known, bs)
  PROVE  Carried("SCHEMATA", Id(id) \o Holding(bs, bs, known, SchemataBits))
<1> DEFINE F == Id(id)
           G == Holding(bs, bs, known, SchemataBits)
<1>1. SchemataBits \in Nat /\ SchemataBits \in 0..30
  BY DEF SchemataBits
<1>0. bs \in Says /\ bs = Absolute(bs, <<0, 0, 0>>)
  <2>1. bs \in Seq(Blocks)
    BY BlockListIs
  <2>2. QED
    BY <2>1, BlocksAnywhere, AtOrigin DEF Says
<1>2. F \in Layout /\ G \in Layout
  BY <1>0, <1>1, IdTyped, PayloadTyped
<1>3. F \o G \in Layout
  BY <1>2, LayoutJoin
<1>4. ASSUME NEW b, NEW p, Lies(b, p, F \o G)
      PROVE  SkipBody("SCHEMATA", b, p) = p + Size(F \o G)
  <2>1. Lies(b, p, F) /\ Lies(b, p + Size(F), G) /\ (p + Size(F)) + Size(G) = p + Size(F \o G)
    BY <1>2, <1>4, TwoPassed
  <2>2. SkipId(b, p) = p + Size(F)
    BY <2>1, IdPassed
  <2>3. SkipBlocks(b, p + Size(F), SchemataBits) = (p + Size(F)) + Size(G)
    BY <1>0, <1>1, <2>1, BlocksPassed
  <2>4. SkipBody("SCHEMATA", b, p) = SkipBlocks(b, SkipId(b, p), SchemataBits)
    BY SkipBodyIs
  <2> HIDE DEF F, G
  <2>5. QED
    BY <2>1, <2>2, <2>3, <2>4
<1>5. ASSUME NEW b, NEW r \in WholeReader, Lies(b, r.at, F \o G)
      PROVE  ReadsTo(r, F \o G, GetBody("SCHEMATA", b, r))
  <2> DEFINE s == GetId(b, r)
             t == GetBlocks(b, s, SchemataBits, <<0, 0, 0>>)
  <2>1. r \in Reader /\ Lies(b, r.at, F)
    BY <1>2, <1>5, LiesJoin DEF Reader
  <2>2. ReadsTo(r, F, s)
    BY <2>1, IdReads
  <2>3. s \in WholeReader /\ Lies(b, s.at, G)
    <3>1. s \in WholeReader
      BY <2>2 DEF ReadsTo
    <3>2. Lies(b, s.at, G)
      BY <1>2, <1>5, <2>2, Then
    <3>3. QED
      BY <3>1, <3>2
  <2>4. ReadsTo(s, G, t)
    BY <1>0, <1>1, <2>3, BlocksRead
  <2>5. GetBody("SCHEMATA", b, r) = t
    BY GetBlocksIs
  <2> HIDE DEF F, G, s, t
  <2>6. QED
    BY <1>2, <2>2, <2>4, <2>5, ReadsJoin
<1>6. QED
  BY <1>3, <1>4, <1>5 DEF Carried, Passes, IsRead

(* Blocks in a chunk, given from its origin, and what is placed there.      *)
InChunk(place, bs, said) ==
  place \in WholePlace /\ bs \in BlockList(30) /\ said \in Says /\ said = Absolute(bs, place)
Built(place, bs, said, ps, known) ==
  Pnegs(place) \o Holding(bs, said, known, 30) \o Placements(ps)
SkipBuilt(b, p) == SkipPlacements(b, SkipBlocks(b, Skip(b, p, 3 * ChunkBits), 30))
GetBuilt(b, r) == GetPlacements(b, GetInChunk(b, r))

LEMMA BuiltTyped ==
  ASSUME NEW place, NEW bs, NEW said, InChunk(place, bs, said), NEW ps \in PlacementSet,
         NEW known, Knows(known, bs)
  PROVE  /\ Pnegs(place) \in Layout /\ Holding(bs, said, known, 30) \in Layout
         /\ Placements(ps) \in Layout /\ Built(place, bs, said, ps, known) \in Layout
         /\ Size(Pnegs(place)) = 3 * ChunkBits
<1>1. place \in WholePlace /\ bs \in BlockList(30) /\ said \in Says /\ 30 \in Nat
  BY DEF InChunk
<1>2. Pnegs(place) \in Layout /\ Size(Pnegs(place)) = 3 * ChunkBits
  BY <1>1, PnegsTyped
<1>3. Holding(bs, said, known, 30) \in Layout
  BY <1>1, PayloadTyped
<1>4. Placements(ps) \in Layout
  BY PlacementsTyped
<1>5. Built(place, bs, said, ps, known) \in Layout
  BY <1>2, <1>3, <1>4, ThreeTyped DEF Built
<1>6. QED
  BY <1>2, <1>3, <1>4, <1>5

LEMMA BuiltPassed ==
  ASSUME NEW place, NEW bs, NEW said, InChunk(place, bs, said), NEW ps \in PlacementSet,
         NEW known, Knows(known, bs), NEW b, NEW p, Lies(b, p, Built(place, bs, said, ps, known))
  PROVE  SkipBuilt(b, p) = p + Size(Built(place, bs, said, ps, known))
<1> DEFINE F == Pnegs(place)
           G == Holding(bs, said, known, 30)
           H == Placements(ps)
<1>1. F \in Layout /\ G \in Layout /\ H \in Layout /\ Size(F) = 3 * ChunkBits /\ 30 \in Nat
      /\ Built(place, bs, said, ps, known) = F \o G \o H
  BY BuiltTyped DEF Built
<1>2. /\ Lies(b, p, F) /\ Lies(b, p + Size(F), G) /\ Lies(b, (p + Size(F)) + Size(G), H)
      /\ ((p + Size(F)) + Size(G)) + Size(H) = p + Size(F \o G \o H)
  <2> HIDE DEF F, G, H
  <2>1. Lies(b, p, F \o G \o H)
    BY <1>1
  <2>2. QED
    BY <1>1, <2>1, ThreePassed
<1>3. Skip(b, p, 3 * ChunkBits) = p + Size(F)
  BY <1>1, <1>2, PassedOver
<1>4. SkipBlocks(b, p + Size(F), 30) = (p + Size(F)) + Size(G)
  BY <1>1, <1>2, BlocksPassed DEF InChunk
<1>5. SkipPlacements(b, (p + Size(F)) + Size(G)) = ((p + Size(F)) + Size(G)) + Size(H)
  BY <1>2, PlacementsPassed
<1> HIDE DEF F, G, H
<1>6. QED
  BY <1>1, <1>2, <1>3, <1>4, <1>5 DEF SkipBuilt

LEMMA BuiltReads ==
  ASSUME NEW place, NEW bs, NEW said, InChunk(place, bs, said), NEW ps \in PlacementSet,
         NEW known, Knows(known, bs), NEW b, NEW r \in WholeReader,
         Lies(b, r.at, Built(place, bs, said, ps, known))
  PROVE  ReadsTo(r, Built(place, bs, said, ps, known), GetBuilt(b, r))
<1> DEFINE F == Pnegs(place)
           G == Holding(bs, said, known, 30)
           H == Placements(ps)
           s == GetPnegs(b, r)
           t == GetBlocks(b, s, 30, place)
           u == GetPlacements(b, t)
<1>1. F \in Layout /\ G \in Layout /\ H \in Layout /\ 30 \in 0..30 /\ r \in Reader
      /\ Built(place, bs, said, ps, known) = F \o G \o H
  BY BuiltTyped DEF Built, Reader
<1>0. place \in WholePlace /\ bs \in BlockList(30) /\ said \in Says /\ said = Absolute(bs, place)
  BY DEF InChunk
<1>2. Lies(b, r.at, F) /\ Lies(b, r.at, F \o G \o H)
  <2> HIDE DEF F, G, H
  <2>1. Lies(b, r.at, F \o G \o H)
    BY <1>1
  <2>2. QED
    BY <1>1, <2>1, ThreePassed
<1>3. ReadsTo(r, F, s)
  BY <1>0, <1>1, <1>2, PnegsRead
<1>4. s \in WholeReader /\ Lies(b, s.at, G)
  <2>1. s \in WholeReader
    BY <1>3 DEF ReadsTo
  <2> HIDE DEF F, G, H, s
  <2>2. Lies(b, s.at, G)
    BY <1>1, <1>2, <1>3, ThreeLie
  <2>3. QED
    BY <2>1, <2>2
<1>5. ReadsTo(s, G, t)
  BY <1>0, <1>1, <1>4, BlocksRead
<1>6. Lies(b, t.at, H) /\ t \in Reader
  <2> HIDE DEF F, G, H, s, t
  <2>1. QED
    BY <1>1, <1>2, <1>3, <1>5, ThreeLie
<1>7. ReadsTo(t, H, u)
  BY <1>6, PlacementsRead
<1>8. GetBuilt(b, r) = u
  <2>1. [i \in 1..3 |-> s.got[Len(s.got) - 3 + i][1]] = place
    BY <1>0, <1>1, <1>3, OriginRead
  <2> HIDE DEF s
  <2>2. GetInChunk(b, r) = GetBlocks(b, s, 30, place)
    BY <2>1 DEF GetInChunk, s
  <2>3. QED
    BY <2>2 DEF GetBuilt
<1> HIDE DEF F, G, H, s, t, u
<1>9. QED
  BY <1>1, <1>3, <1>5, <1>7, <1>8, ThreeRead

LEMMA BlocksCarried ==
  ASSUME NEW place, NEW bs, NEW said, InChunk(place, bs, said), NEW ps \in PlacementSet,
         NEW known, Knows(known, bs)
  PROVE  Carried("BLOCKS", Built(place, bs, said, ps, known))
<1> DEFINE B == Built(place, bs, said, ps, known)
<1>1. B \in Layout
  BY BuiltTyped
<1>2. ASSUME NEW b, NEW p, Lies(b, p, B) PROVE SkipBody("BLOCKS", b, p) = p + Size(B)
  <2>1. SkipBuilt(b, p) = p + Size(B)
    BY <1>2, BuiltPassed
  <2>2. QED
    BY <2>1, SkipBodyIs DEF SkipBuilt
<1>3. ASSUME NEW b, NEW r \in WholeReader, Lies(b, r.at, B)
      PROVE  ReadsTo(r, B, GetBody("BLOCKS", b, r))
  <2>1. ReadsTo(r, B, GetBuilt(b, r))
    BY <1>3, BuiltReads
  <2>2. QED
    BY <2>1, GetBlocksIs DEF GetBuilt
<1>4. QED
  BY <1>1, <1>2, <1>3 DEF Carried, Passes, IsRead

LEMMA VehicleCarried ==
  ASSUME NEW place, NEW bs, NEW said, InChunk(place, bs, said), NEW ps \in PlacementSet,
         NEW meta \in Text(8), NEW known, Knows(known, bs)
  PROVE  Carried("VEHICLE", Built(place, bs, said, ps, known) \o String(meta, 8))
<1> DEFINE F == Built(place, bs, said, ps, known)
           G == String(meta, 8)
<1>1. F \in Layout /\ G \in Layout /\ 8 \in Nat /\ 8 \in 0..30
  BY BuiltTyped, StringTyped
<1>2. F \o G \in Layout
  BY <1>1, LayoutJoin
<1>3. ASSUME NEW b, NEW p, Lies(b, p, F \o G)
      PROVE  SkipBody("VEHICLE", b, p) = p + Size(F \o G)
  <2>1. Lies(b, p, F) /\ Lies(b, p + Size(F), G) /\ (p + Size(F)) + Size(G) = p + Size(F \o G)
    BY <1>1, <1>3, TwoPassed
  <2>2. SkipBuilt(b, p) = p + Size(F)
    BY <2>1, BuiltPassed
  <2>3. SkipSized(b, p + Size(F), 8, 8) = (p + Size(F)) + Size(G)
    BY <1>1, <2>1, StringPassed
  <2>4. SkipBody("VEHICLE", b, p) = SkipSized(b, SkipBuilt(b, p), 8, 8)
    BY SkipBodyIs DEF SkipBuilt
  <2> HIDE DEF F, G
  <2>5. QED
    BY <2>1, <2>2, <2>3, <2>4
<1>4. ASSUME NEW b, NEW r \in WholeReader, Lies(b, r.at, F \o G)
      PROVE  ReadsTo(r, F \o G, GetBody("VEHICLE", b, r))
  <2> DEFINE s == GetBuilt(b, r)
             t == GetString(b, s, 8)
  <2>1. Lies(b, r.at, F)
    BY <1>1, <1>4, LiesJoin
  <2>2. ReadsTo(r, F, s)
    BY <2>1, BuiltReads
  <2>3. s \in Reader /\ Lies(b, s.at, G)
    BY <1>1, <1>4, <2>2, Then
  <2>4. ReadsTo(s, G, t)
    BY <1>1, <2>3, StringReads
  <2>5. GetBody("VEHICLE", b, r) = t
    BY GetBlocksIs DEF GetBuilt
  <2> HIDE DEF F, G, s, t
  <2>6. QED
    BY <1>1, <2>2, <2>4, <2>5, ReadsJoin
<1>5. QED
  BY <1>2, <1>3, <1>4 DEF Carried, Passes, IsRead

(* A placement begins with two flags: what it is placed on, and what it is. *)
LEMMA FlagsPassed ==
  ASSUME NEW v \in 0..1, NEW s \in 0..1, NEW b, NEW p, Lies(b, p, Num(v, 1) \o Num(s, 1))
  PROVE  /\ Skip(b, p, 2) = p + 2 /\ Before(b, Skip(b, p, 1), 1) = v /\ Before(b, p + 2, 1) = s
         /\ p \in Nat /\ p + 2 # Short /\ Size(Num(v, 1) \o Num(s, 1)) = 2
<1> DEFINE F == Num(v, 1)
           G == Num(s, 1)
           q == p + 1
<1>1. F \in Layout /\ G \in Layout /\ Size(F) = 1 /\ Size(G) = 1
  BY FlagTyped
<1>2. /\ Lies(b, p, F) /\ Lies(b, p + Size(F), G) /\ Size(F \o G) = 2
      /\ (p + Size(F)) + Size(G) = p + Size(F \o G)
  <2> HIDE DEF F, G
  <2>1. Size(F \o G) = Size(F) + Size(G)
    BY <1>1, LayoutJoin
  <2>2. Lies(b, p, F \o G)
    BY DEF F, G
  <2>3. Lies(b, p, F) /\ Lies(b, p + Size(F), G)
    BY <1>1, <2>2, LiesJoin
  <2>4. (p + Size(F)) + Size(G) = p + Size(F \o G)
    BY <1>1, <2>2, TwoPassed
  <2>5. QED
    BY <1>1, <2>1, <2>3, <2>4
<1>3. Skip(b, p, 1) = q /\ Before(b, q, 1) = v /\ p \in Nat
  BY <1>2, FlagPassed
<1>4. Lies(b, q, G)
  BY <1>1, <1>2
<1> HIDE DEF q
<1>5. Before(b, q + 1, 1) = s
  BY <1>4, FlagPassed
<1>6. q + 1 = p + 2 /\ p + 2 # Short
  BY <1>3 DEF q, Short
<1>7. Skip(b, p, 2) = p + Size(F \o G)
  <2> HIDE DEF F, G
  <2>1. F \o G \in Layout
    BY <1>1, LayoutJoin
  <2>2. Lies(b, p, F \o G)
    BY DEF F, G
  <2>3. QED
    BY <1>2, <2>2, PassedOver
<1>8. QED
  BY <1>2, <1>3, <1>5, <1>6, <1>7

LEMMA FlagsRead ==
  ASSUME NEW v \in 0..1, NEW s \in 0..1, NEW b, NEW r \in Reader, Lies(b, r.at, Num(v, 1) \o Num(s, 1))
  PROVE  /\ ReadsTo(r, Num(v, 1) \o Num(s, 1), Get(b, Get(b, r, 1), 1))
         /\ Got(Get(b, r, 1)) = v /\ Got(Get(b, Get(b, r, 1), 1)) = s
         /\ Get(b, Get(b, r, 1), 1) \in Reader
<1> DEFINE F == Num(v, 1)
           G == Num(s, 1)
           t == Get(b, r, 1)
           u == Get(b, t, 1)
<1>1. F \in Layout /\ G \in Layout
  BY FlagTyped
<1>2. Lies(b, r.at, F)
  BY <1>1, LiesJoin
<1>3. ReadsTo(r, F, t) /\ Got(t) = v
  BY <1>2, FlagReads
<1>4. t \in Reader /\ Lies(b, t.at, G)
  BY <1>1, <1>3, Then
<1>5. ReadsTo(t, G, u) /\ Got(u) = s
  BY <1>4, FlagReads
<1>6. u \in Reader
  BY <1>5 DEF ReadsTo
<1> HIDE DEF F, G, t, u
<1>7. ReadsTo(r, F \o G, u)
  BY <1>1, <1>3, <1>5, ReadsJoin
<1>8. QED
  BY <1>3, <1>5, <1>6, <1>7 DEF F, G, t, u

LEMMA FlagsTyped ==
  ASSUME NEW v \in 0..1, NEW s \in 0..1
  PROVE  Num(v, 1) \o Num(s, 1) \in Layout /\ Num(v, 1) \in Layout /\ Num(s, 1) \in Layout
<1>1. Num(v, 1) \in Layout /\ Num(s, 1) \in Layout
  BY FlagTyped
<1>2. QED
  BY <1>1, LayoutJoin

LEMMA PlacedSchemataCarried ==
  ASSUME NEW v \in 0..1, NEW id \in Ids, NEW rotation \in 0..3
  PROVE  Carried("PLACEMENT", Num(v, 1) \o Num(1, 1) \o Id(id) \o Num(rotation, 2))
<1> DEFINE n == 1
           F == Num(v, 1) \o Num(n, 1)
           G == Id(id)
           H == Num(rotation, 2)
<1>1. n \in 0..1 /\ rotation \in Nat
  OBVIOUS
<1> HIDE DEF n
<1>2. F \in Layout /\ G \in Layout /\ H \in Layout /\ Size(H) = 2
  BY <1>1, FlagsTyped, IdTyped, FlagTyped
<1>3. F \o G \o H \in Layout
  <2> HIDE DEF F, G, H
  <2>1. QED
    BY <1>2, ThreeTyped
<1>4. ASSUME NEW b, NEW p, Lies(b, p, F \o G \o H)
      PROVE  SkipBody("PLACEMENT", b, p) = p + Size(F \o G \o H)
  <2>1. /\ Lies(b, p, F) /\ Lies(b, p + Size(F), G) /\ Lies(b, (p + Size(F)) + Size(G), H)
        /\ ((p + Size(F)) + Size(G)) + Size(H) = p + Size(F \o G \o H)
    <3> HIDE DEF F, G, H
    <3>1. QED
      BY <1>2, <1>4, ThreePassed
  <2> DEFINE k == p + 2
  <2>2. Skip(b, p, 2) = k /\ Before(b, k, 1) = n /\ k # Short /\ Size(F) = 2
    BY <1>1, <2>1, FlagsPassed
  <2>3. SkipId(b, k) = k + Size(G)
    BY <2>1, <2>2, IdPassed
  <2>4. Skip(b, k + Size(G), 2) = (k + Size(G)) + 2
    <3>1. Skip(b, k + Size(G), Size(H)) = (k + Size(G)) + Size(H)
      BY <2>1, <2>2, PassedOver
    <3>2. QED
      BY <1>2, <3>1
  <2> HIDE DEF k, G, F
  <2>5. SkipPlacement(b, p) = Skip(b, SkipId(b, k), 2)
    BY <2>2 DEF SkipPlacement, n
  <2>6. SkipPlacement(b, p) = ((p + Size(F)) + Size(G)) + Size(H)
    BY <1>2, <2>2, <2>3, <2>4, <2>5 DEF k
  <2>7. QED
    BY <2>1, <2>6, SkipBodyIs
<1>5. ASSUME NEW b, NEW r \in WholeReader, Lies(b, r.at, F \o G \o H)
      PROVE  ReadsTo(r, F \o G \o H, GetBody("PLACEMENT", b, r))
  <2> DEFINE s == Get(b, Get(b, r, 1), 1)
             t == GetId(b, s)
             u == Get(b, t, 2)
  <2>1. r \in Reader /\ Lies(b, r.at, F)
    <3> HIDE DEF F, G, H
    <3>1. QED
      BY <1>2, <1>5, ThreePassed DEF Reader
  <2>2. ReadsTo(r, F, s) /\ Got(s) = n
    BY <1>1, <2>1, FlagsRead
  <2>3. s \in Reader /\ Lies(b, s.at, G)
    <3> HIDE DEF F, G, H, s
    <3>1. QED
      BY <1>2, <1>5, <2>2, ThreeLie
  <2>4. ReadsTo(s, G, t)
    BY <2>3, IdReads
  <2>5. Lies(b, t.at, H) /\ t \in Reader
    <3> HIDE DEF F, G, H, s, t
    <3>1. QED
      BY <1>2, <1>5, <2>2, <2>4, ThreeLie
  <2>6. ReadsTo(t, H, u)
    BY <2>5, PairReads
  <2>7. GetBody("PLACEMENT", b, r) = u
    BY <2>2, GetBlocksIs DEF GetPlacement, n
  <2> HIDE DEF F, G, H, s, t, u
  <2>8. QED
    BY <1>2, <2>2, <2>4, <2>6, <2>7, ThreeRead
<1>6. QED
  BY <1>3, <1>4, <1>5 DEF Carried, Passes, IsRead, n

LEMMA PlacedBlockCarried ==
  ASSUME NEW at \in WholePlace, NEW material \in Number(MatBits)
  PROVE  Carried("PLACEMENT", Num(0, 1) \o Num(0, 1) \o Pnegs(at) \o Wide(material, MatBits))
<1> DEFINE n == 0
           F == Num(n, 1) \o Num(n, 1)
           G == Pnegs(at)
           H == Wide(material, MatBits)
<1>1. n \in 0..1 /\ ChunkBits \in Nat /\ MatBits \in Nat
  BY Bounds, WireAssumption
<1> HIDE DEF n
<1>2. F \in Layout /\ G \in Layout /\ H \in Layout /\ Size(G) = 3 * ChunkBits /\ Size(H) = MatBits
  BY <1>1, FlagsTyped, PnegsTyped, WideTyped
<1>3. F \o G \o H \in Layout
  <2> HIDE DEF F, G, H
  <2>1. QED
    BY <1>2, ThreeTyped
<1>4. ASSUME NEW b, NEW p, Lies(b, p, F \o G \o H)
      PROVE  SkipBody("PLACEMENT", b, p) = p + Size(F \o G \o H)
  <2>1. /\ Lies(b, p, F)
        /\ ((p + Size(F)) + Size(G)) + Size(H) = p + Size(F \o G \o H)
    <3> HIDE DEF F, G, H
    <3>1. QED
      BY <1>2, <1>4, ThreePassed
  <2> DEFINE k == p + 2
  <2>2. /\ Skip(b, p, 2) = k /\ Before(b, k, 1) = n /\ k # Short /\ Size(F) = 2 /\ p \in Nat
        /\ Before(b, Skip(b, p, 1), 1) = n
    BY <1>1, <2>1, FlagsPassed
  <2>3. k \in Nat /\ 3 * ChunkBits + MatBits \in Nat
        /\ k + (3 * ChunkBits + MatBits) = p + Size(F \o G \o H)
    BY <1>1, <1>2, <2>1, <2>2
  <2> HIDE DEF k
  <2>4. SkipPlacement(b, p) = Skip(b, k, 3 * ChunkBits + MatBits)
    BY <2>2 DEF SkipPlacement, n
  <2> DEFINE B == F \o G \o H
  <2> HIDE DEF B
  <2>5. Lies(b, p, B) /\ k + (3 * ChunkBits + MatBits) = p + Size(B)
    BY <1>4, <2>3 DEF B
  <2>6. Skip(b, k, 3 * ChunkBits + MatBits) = p + Size(B)
    BY <2>3, <2>5, SkipTo
  <2>7. QED
    BY <2>4, <2>6, SkipBodyIs DEF B
<1>5. ASSUME NEW b, NEW r \in WholeReader, Lies(b, r.at, F \o G \o H)
      PROVE  ReadsTo(r, F \o G \o H, GetBody("PLACEMENT", b, r))
  <2> DEFINE s == Get(b, Get(b, r, 1), 1)
             t == GetPnegs(b, s)
             u == Get(b, t, MatBits)
  <2>1. r \in Reader /\ Lies(b, r.at, F)
    <3> HIDE DEF F, G, H
    <3>1. QED
      BY <1>2, <1>5, ThreePassed DEF Reader
  <2>2. ReadsTo(r, F, s) /\ Got(s) = n /\ Got(Get(b, r, 1)) = n
    BY <1>1, <2>1, FlagsRead
  <2>3. s \in Reader /\ Lies(b, s.at, G)
    <3> HIDE DEF F, G, H, s
    <3>1. QED
      BY <1>2, <1>5, <2>2, ThreeLie
  <2>4. ReadsTo(s, G, t)
    BY <2>3, PnegsRead
  <2>5. Lies(b, t.at, H) /\ t \in Reader
    <3> HIDE DEF F, G, H, s, t
    <3>1. QED
      BY <1>2, <1>5, <2>2, <2>4, ThreeLie
  <2>6. ReadsTo(t, H, u)
    BY <1>1, <2>5, WideReads
  <2>7. GetBody("PLACEMENT", b, r) = u
    BY <2>2, GetBlocksIs DEF GetPlacement, n
  <2> HIDE DEF F, G, H, s, t, u
  <2>8. QED
    BY <1>2, <2>2, <2>4, <2>6, <2>7, ThreeRead
<1>6. QED
  BY <1>3, <1>4, <1>5 DEF Carried, Passes, IsRead, n

LEMMA PlacedVehicleCarried ==
  ASSUME NEW id \in Ids, NEW place \in WholePlace, NEW at \in Vector(LocalBits)
  PROVE  Carried("PLACEMENT", Num(1, 1) \o Num(0, 1) \o Id(id) \o Pnegs(place)
                                \o All(at, LocalBits))
<1> DEFINE n == 0
           m == 1
           F == Num(m, 1) \o Num(n, 1)
           G == Id(id)
           H == Pnegs(place)
           I == All(at, LocalBits)
           B == F \o G \o H \o I
<1>1. n \in 0..1 /\ m \in 0..1 /\ ChunkBits \in Nat /\ LocalBits \in Nat
  BY WireAssumption DEF LocalBits
<1> HIDE DEF n, m
<1>2. F \in Layout /\ G \in Layout /\ H \in Layout /\ I \in Layout
      /\ Size(H) = 3 * ChunkBits /\ Size(I) = 3 * LocalBits
  BY <1>1, FlagsTyped, PnegsTyped, VectorTyped, IdTyped
<1>3. /\ F \o G \in Layout /\ F \o G \o H \in Layout /\ B \in Layout
      /\ Size(B) = Size(F) + Size(G) + Size(H) + Size(I) /\ Size(G) \in Nat
  <2> HIDE DEF F, G, H, I
  <2>1. F \in Layout /\ G \in Layout /\ H \in Layout /\ I \in Layout
    BY <1>2
  <2>2. /\ F \o G \in Layout /\ F \o G \o H \in Layout /\ F \o G \o H \o I \in Layout
        /\ Size(F \o G \o H \o I) = Size(F) + Size(G) + Size(H) + Size(I)
    BY <2>1, FourTyped
  <2>3. Size(G) \in Nat
    BY <2>1, LayoutTyped
  <2>4. QED
    BY <2>2, <2>3
<1>4. ASSUME NEW b, NEW p, Lies(b, p, B)
      PROVE  SkipBody("PLACEMENT", b, p) = p + Size(B)
  <2>1. Lies(b, p, F) /\ Lies(b, p, F \o G)
    <3> HIDE DEF F, G, H, I
    <3>1. QED
      BY <1>2, <1>4, FourLie
  <2> DEFINE k == p + 2
             more == 3 * ChunkBits + 3 * LocalBits
  <2>2. /\ Skip(b, p, 2) = k /\ Before(b, k, 1) = n /\ k # Short /\ Size(F) = 2 /\ p \in Nat
        /\ Before(b, Skip(b, p, 1), 1) = m
    BY <1>1, <2>1, FlagsPassed
  <2>3. Lies(b, k, G)
    <3> HIDE DEF F, G
    <3>1. Lies(b, p + Size(F), G)
      BY <1>2, <2>1, LiesJoin
    <3>2. QED
      BY <2>2, <3>1
  <2>4. SkipId(b, k) = k + Size(G)
    BY <2>3, IdPassed
  <2>5. k + Size(G) \in Nat /\ more \in Nat /\ (k + Size(G)) + more = p + Size(B)
    BY <1>1, <1>2, <1>3, <2>2
  <2> HIDE DEF k, G, B
  <2>6. SkipPlacement(b, p) = Skip(b, SkipId(b, k), more)
    BY <2>2 DEF SkipPlacement, n, m
  <2> HIDE DEF more
  <2>7. Skip(b, k + Size(G), more) = p + Size(B)
    BY <1>4, <2>5, SkipTo
  <2>8. QED
    BY <2>4, <2>6, <2>7, SkipBodyIs
<1>5. ASSUME NEW b, NEW r \in WholeReader, Lies(b, r.at, B)
      PROVE  ReadsTo(r, B, GetBody("PLACEMENT", b, r))
  <2> DEFINE s == Get(b, Get(b, r, 1), 1)
             t == GetId(b, s)
             u == GetPnegs(b, t)
             v == GetMany(b, u, LocalBits, 3)
  <2>1. r \in Reader
    BY DEF Reader
  <2>2. Lies(b, r.at, F) /\ Lies(b, r.at, F \o G) /\ Lies(b, r.at, F \o G \o H)
    <3> HIDE DEF F, G, H, I
    <3>1. QED
      BY <1>2, <1>5, FourLie
  <2>3. ReadsTo(r, F, s) /\ Got(s) = n /\ Got(Get(b, r, 1)) = m
    BY <1>1, <2>1, <2>2, FlagsRead
  <2>4. GetBody("PLACEMENT", b, r) = v
    BY <2>3, GetBlocksIs DEF GetPlacement, n, m
  <2> HIDE DEF s
  <2>5. ReadsTo(r, F \o G, t)
    <3>1. s \in Reader /\ Lies(b, s.at, G)
      <4> HIDE DEF F, G
      <4>1. QED
        BY <1>2, <2>2, <2>3, Then
    <3>2. ReadsTo(s, G, t)
      BY <3>1, IdReads
    <3> HIDE DEF F, G, t
    <3>3. QED
      BY <1>2, <2>3, <3>2, ReadsJoin
  <2> HIDE DEF t
  <2>6. ReadsTo(r, F \o G \o H, u)
    <3>1. t \in Reader /\ Lies(b, t.at, H)
      <4> HIDE DEF F, G, H
      <4>1. QED
        BY <1>2, <1>3, <2>2, <2>5, Then
    <3>2. ReadsTo(t, H, u)
      BY <3>1, PnegsRead
    <3> HIDE DEF F, G, H, u
    <3>3. QED
      BY <1>2, <1>3, <2>5, <3>2, ReadsJoin
  <2> HIDE DEF u
  <2>7. ReadsTo(r, F \o G \o H \o I, v)
    <3>1. u \in Reader /\ Lies(b, u.at, I)
      <4> HIDE DEF F, G, H, I
      <4>1. QED
        BY <1>2, <1>3, <1>5, <2>6, Then
    <3>2. ReadsTo(u, I, v)
      BY <1>1, <3>1, VectorReads
    <3> HIDE DEF F, G, H, I, v
    <3>3. QED
      BY <1>2, <1>3, <2>6, <3>2, ReadsJoin
  <2>8. QED
    BY <2>4, <2>7
<1>6. QED
  BY <1>3, <1>4, <1>5 DEF Carried, Passes, IsRead, n, m

(* The bits of a body whose length is known as soon as its type is.         *)
FixedSize ==
  [PING |-> 1, LOGOUT |-> 128, AUTH |-> 128, STOP |-> 128,
   CLIENT_LOCAL_POSITION_UPDATE |-> 3 * LocalBits + 3 * RotationBits]

(* B is a body of a type: its length is found, and it is read for what it   *)
(* says.                                                                    *)
Framed(type, B) ==
  /\ B \in Layout /\ IsRead(type, B)
  /\ \/ type \in DOMAIN FixedSize /\ Size(B) = FixedSize[type]
     \/ type \in Skipped /\ Passes(type, B)

LEMMA CarriedFramed ==
  ASSUME NEW type \in Skipped, NEW B, Carried(type, B)
  PROVE  Framed(type, B)
  BY DEF Carried, Framed

(* Every message of accounts and sessions,                                  *)
LEMMA AccountFramed ==
  ASSUME NEW m \in AccountMessages
  PROVE  m.type \in OfAccounts /\ Framed(m.type, AccountBody(m))
<1>1. CASE m \in [type : {"PING"}, status : 0..1]
  <2>1. m.type = "PING" /\ m.status \in 0..1
    BY <1>1
  <2>2. AccountBody(m) = Num(m.status, 1)
    BY <2>1 DEF AccountBody
  <2>3. Framed("PING", Num(m.status, 1))
    BY <2>1, PingRead DEF Framed, FixedSize
  <2>4. QED
    BY <2>1, <2>2, <2>3 DEF OfAccounts
<1>2. CASE m \in [type : {"REGISTER"}, password : Text(5), captchas : CaptchaSet]
  <2>1. m.type = "REGISTER" /\ m.password \in Text(5) /\ m.captchas \in CaptchaSet
    BY <1>2
  <2>2. AccountBody(m) = String(m.password, 5) \o Captchas(m.captchas)
    BY <2>1 DEF AccountBody
  <2>3. Carried("REGISTER", AccountBody(m))
    BY <2>1, <2>2, RegisterCarried
  <2>4. QED
    BY <2>1, <2>3, CarriedFramed DEF OfAccounts, Skipped
<1>3. CASE m \in [type : {"LOGIN"}, player : Text(6), password : Text(5), captchas : CaptchaSet]
  <2>1. m.type = "LOGIN" /\ m.player \in Text(6) /\ m.password \in Text(5) /\ m.captchas \in CaptchaSet
    BY <1>3
  <2>2. AccountBody(m) = String(m.player, 6) \o String(m.password, 5) \o Captchas(m.captchas)
    BY <2>1 DEF AccountBody
  <2>3. Carried("LOGIN", AccountBody(m))
    BY <2>1, <2>2, LoginCarried
  <2>4. QED
    BY <2>1, <2>3, CarriedFramed DEF OfAccounts, Skipped
<1>4. CASE m \in [type : {"PUZZLE"}, puzzle : Number(64), image : Text(18)]
  <2>1. m.type = "PUZZLE" /\ m.puzzle \in Number(64) /\ m.image \in Text(18)
    BY <1>4
  <2>2. AccountBody(m) = Wide(m.puzzle, 64) \o String(m.image, 18)
    BY <2>1 DEF AccountBody
  <2>3. Carried("PUZZLE", AccountBody(m))
    BY <2>1, <2>2, PuzzleCarried
  <2>4. QED
    BY <2>1, <2>3, CarriedFramed DEF OfAccounts, Skipped
<1>5. CASE m \in [type : {"LOGOUT", "AUTH", "STOP"}, uuid : Just(16, Number(8))]
  <2>1. m.type \in {"LOGOUT", "AUTH", "STOP"} /\ m.uuid \in Just(16, Number(8))
    BY <1>5
  <2>2. AccountBody(m) = All(m.uuid, 8)
    BY <2>1 DEF AccountBody
  <2>3. All(m.uuid, 8) \in Layout /\ Size(All(m.uuid, 8)) = 128 /\ IsRead(m.type, All(m.uuid, 8))
    BY <2>1, UuidCarried
  <2>4. QED
    BY <2>1, <2>2, <2>3 DEF OfAccounts, Framed, FixedSize
<1>6. CASE m \in [type : {"PASSWORD_CHANGE"}, uuid : Just(16, Number(8)), old : Text(5), new : Text(5)]
  <2>1. m.type = "PASSWORD_CHANGE" /\ m.uuid \in Just(16, Number(8)) /\ m.old \in Text(5) /\ m.new \in Text(5)
    BY <1>6
  <2>2. AccountBody(m) = All(m.uuid, 8) \o String(m.old, 5) \o String(m.new, 5)
    BY <2>1 DEF AccountBody
  <2>3. Carried("PASSWORD_CHANGE", AccountBody(m))
    BY <2>1, <2>2, PasswordCarried
  <2>4. QED
    BY <2>1, <2>3, CarriedFramed DEF OfAccounts, Skipped
<1>7. QED
  BY <1>1, <1>2, <1>3, <1>4, <1>5, <1>6 DEF AccountMessages

(* of players that move and fight,                                          *)
LEMMA PositionFramed ==
  ASSUME NEW m, m \in [type : {"POSITION_UPDATE"}, change : {"terrain"}, at : Vector(63)]
                 \cup [type : {"POSITION_UPDATE"}, change : {"quadrant"}, quadrant : Vector(64),
                       lightyear : Vector(14), km : Vector(KmBits)]
                 \cup [type : {"POSITION_UPDATE"}, change : {"lightyear"}, quadrant : {<<>>},
                       lightyear : Vector(14), km : Vector(KmBits)]
                 \cup [type : {"POSITION_UPDATE"}, change : {"km"}, quadrant : {<<>>},
                       lightyear : {<<>>}, km : Vector(KmBits)]
  PROVE  m.type = "POSITION_UPDATE" /\ Framed(m.type, MotionBody(m))
<1> DEFINE in(c) == Num(1, 1) \o Num(c, 2) \o All(m.quadrant, 64) \o All(m.lightyear, 14) \o All(m.km, KmBits)
<1>1. m.type = "POSITION_UPDATE"
  OBVIOUS
<1>2. CASE m.change = "terrain"
  <2>1. m.at \in Vector(63)
    BY <1>2
  <2>2. MotionBody(m) = Num(0, 1) \o All(m.at, 63)
    BY <1>1, <1>2 DEF MotionBody
  <2>3. Carried("POSITION_UPDATE", MotionBody(m))
    BY <2>1, <2>2, TerrainCarried
  <2>4. QED
    BY <1>1, <2>3, CarriedFramed DEF Skipped
<1>3. CASE m.change # "terrain"
  <2>1. PICK c \in 0..2 : /\ c = (CASE m.change = "quadrant" -> 0 [] m.change = "lightyear" -> 1 [] OTHER -> 2)
                          /\ Moving(c, m.quadrant, m.lightyear) /\ m.km \in Vector(KmBits)
    <3>1. CASE m.change = "quadrant"
      <4>1. m.quadrant \in Vector(64) /\ m.lightyear \in Vector(14) /\ m.km \in Vector(KmBits)
        BY <3>1
      <4>2. Moving(0, m.quadrant, m.lightyear)
        BY <4>1 DEF Moving
      <4>3. QED
        BY <3>1, <4>1, <4>2
    <3>2. CASE m.change = "lightyear"
      <4>1. m.quadrant = <<>> /\ m.lightyear \in Vector(14) /\ m.km \in Vector(KmBits)
        BY <3>2
      <4>2. Moving(1, m.quadrant, m.lightyear)
        BY <4>1 DEF Moving
      <4>3. QED
        BY <3>2, <4>1, <4>2
    <3>3. CASE m.change = "km"
      <4>1. m.quadrant = <<>> /\ m.lightyear = <<>> /\ m.km \in Vector(KmBits)
        BY <3>3
      <4>2. Moving(2, m.quadrant, m.lightyear)
        BY <4>1 DEF Moving
      <4>3. QED
        BY <3>3, <4>1, <4>2
    <3>4. m.change \in {"terrain", "quadrant", "lightyear", "km"}
      OBVIOUS
    <3>5. QED
      BY <1>3, <3>1, <3>2, <3>3, <3>4
  <2>2. MotionBody(m) = in(c)
    BY <1>1, <1>3, <2>1 DEF MotionBody
  <2>3. Carried("POSITION_UPDATE", in(c))
    BY <2>1, SpaceCarried
  <2>4. QED
    BY <1>1, <2>2, <2>3, CarriedFramed DEF Skipped
<1>4. QED
  BY <1>1, <1>2, <1>3

LEMMA MotionFramed ==
  ASSUME NEW m \in MotionMessages
  PROVE  m.type \notin OfAccounts /\ m.type \notin OfBlocks /\ Framed(m.type, MotionBody(m))
<1>1. CASE m \in [type : {"CLIENT_LOCAL_POSITION_UPDATE"}, at : Vector(LocalBits), turn : Angle]
  <2>1. m.type = "CLIENT_LOCAL_POSITION_UPDATE" /\ m.at \in Vector(LocalBits) /\ m.turn \in Angle
    BY <1>1
  <2>2. MotionBody(m) = All(m.at, LocalBits) \o All(m.turn, RotationBits)
    BY <2>1 DEF MotionBody
  <2>3. Framed("CLIENT_LOCAL_POSITION_UPDATE", MotionBody(m))
    BY <2>1, <2>2, MotionRead DEF Framed, FixedSize
  <2>4. QED
    BY <2>1, <2>3 DEF OfAccounts, OfBlocks
<1>2. CASE m \in [type : {"BATCH_POSITION_UPDATE"},
                  entries : Few(11, [id : Ids, at : Vector(LocalBits), turn : Angle])]
  <2>1. m.type = "BATCH_POSITION_UPDATE" /\ m.entries \in Few(11, Move1)
    BY <1>2 DEF Move1
  <2>2. MotionBody(m) = Moved(m.entries)
    BY <2>1 DEF MotionBody, Moved
  <2>3. Carried("BATCH_POSITION_UPDATE", MotionBody(m))
    BY <2>1, <2>2, MovedCarried
  <2>4. QED
    BY <2>1, <2>3, CarriedFramed DEF OfAccounts, OfBlocks, Skipped
<1>3. CASE m.type = "POSITION_UPDATE"
  <2>1. Framed(m.type, MotionBody(m))
    BY <1>3, PositionFramed DEF MotionMessages
  <2>2. QED
    BY <1>3, <2>1 DEF OfAccounts, OfBlocks
<1>4. CASE m \in [type : {"HIT"}, velocity : Number(VelocityBits), id : Ids]
  <2>1. m.type = "HIT" /\ m.velocity \in Number(VelocityBits) /\ m.id \in Ids
    BY <1>4
  <2>2. MotionBody(m) = Wide(m.velocity, VelocityBits) \o Id(m.id)
    BY <2>1 DEF MotionBody
  <2>3. Carried("HIT", MotionBody(m))
    BY <2>1, <2>2, HitCarried
  <2>4. QED
    BY <2>1, <2>3, CarriedFramed DEF OfAccounts, OfBlocks, Skipped
<1>5. CASE m \in [type : {"ATTACK"}, id : Ids, turn : {<<>>} \cup Angle]
  <2>1. m.type = "ATTACK" /\ m.id \in Ids /\ m.turn \in {<<>>} \cup Angle
    BY <1>5
  <2>2. MotionBody(m) = Id(m.id) \o Num(Len(m.turn) \div 3, 1) \o All(m.turn, RotationBits)
    BY <2>1 DEF MotionBody
  <2>3. Carried("ATTACK", MotionBody(m))
    BY <2>1, <2>2, AttackCarried
  <2>4. QED
    BY <2>1, <2>3, CarriedFramed DEF OfAccounts, OfBlocks, Skipped
<1>6. CASE m \in [type : {"DEAD"}, id : Ids]
  <2>1. m.type = "DEAD" /\ m.id \in Ids
    BY <1>6
  <2>2. MotionBody(m) = Id(m.id)
    BY <2>1 DEF MotionBody
  <2>3. Carried("DEAD", MotionBody(m))
    BY <2>1, <2>2, DeadCarried
  <2>4. QED
    BY <2>1, <2>3, CarriedFramed DEF OfAccounts, OfBlocks, Skipped
<1>7. CASE m \in [type : {"RESYNC"}, entries : Few(11, [id : Ids, alive : 0..1])]
  <2>1. m.type = "RESYNC" /\ m.entries \in Few(11, Life1)
    BY <1>7 DEF Life1
  <2>2. MotionBody(m) = Lived(m.entries)
    BY <2>1 DEF MotionBody, Lived
  <2>3. Carried("RESYNC", MotionBody(m))
    BY <2>1, <2>2, LivedCarried
  <2>4. QED
    BY <2>1, <2>3, CarriedFramed DEF OfAccounts, OfBlocks, Skipped
<1>8. QED
  BY <1>1, <1>2, <1>3, <1>4, <1>5, <1>6, <1>7 DEF MotionMessages

(* and of blocks.                                                           *)
LEMMA BlocksFramed ==
  ASSUME NEW m \in BlockMessages, NEW known, Knows(known, BlocksOf(m))
  PROVE  m.type \in OfBlocks /\ Framed(m.type, BlocksBody(m, known))
<1>1. CASE m \in {x \in [type : {"SCHEMATA"}, id : Ids, blocks : Seq(AnyBlock)] :
                  Anchored(x.blocks) \in BlockList(SchemataBits)}
  <2> DEFINE bs == Anchored(m.blocks)
             w == SchemataBits
             F == Id(m.id)
             G == Num(Len(bs), w)
             H == Payload(bs, bs, known)
  <2>1. /\ m.type = "SCHEMATA" /\ m.id \in Ids /\ "blocks" \in DOMAIN m
        /\ m.blocks \in Seq(AnyBlock) /\ bs \in BlockList(w)
    BY <1>1
  <2>2. bs \in Says /\ Len(bs) = Len(m.blocks) /\ Knows(known, bs)
    <3>1. Knows(known, m.blocks)
      BY <2>1 DEF BlocksOf
    <3>2. bs \in Seq(Blocks)
      BY <2>1, BlockListIs
    <3>3. Len(bs) = Len(m.blocks) /\ Knows(known, bs)
      BY <2>1, <3>1, RelativeKnown DEF Anchored
    <3> HIDE DEF bs
    <3>4. QED
      BY <3>2, <3>3, BlocksAnywhere DEF Says
  <2>3. BlocksBody(m, known) = Id(m.id) \o Num(Len(m.blocks), SchemataBits) \o H
    BY <2>1 DEF BlocksBody
  <2>4. F \in Layout
    BY <2>1, IdTyped
  <2>5. w \in Nat
    BY DEF SchemataBits
  <2> HIDE DEF bs
  <2>6. G \in Layout /\ H \in Layout
    <3> HIDE DEF w
    <3>1. QED
      BY <2>1, <2>2, <2>5, PayloadTyped
  <2>7. F \o G \o H = F \o (G \o H)
    <3> HIDE DEF F, G, H
    <3>1. QED
      BY <2>4, <2>6, LayoutAssociative
  <2>8. BlocksBody(m, known) = Id(m.id) \o Holding(bs, bs, known, SchemataBits)
    BY <2>2, <2>3, <2>7 DEF Holding
  <2>9. Carried("SCHEMATA", BlocksBody(m, known))
    BY <2>1, <2>2, <2>8, SchemataCarried
  <2>10. QED
    BY <2>1, <2>9, CarriedFramed DEF OfBlocks, Skipped
<1>2. ASSUME "blocks" \in DOMAIN m, m.chunk \in WholePlace, m.blocks \in Seq(AnyBlock),
             Relative(m.blocks, m.chunk) \in BlockList(30), m.placements \in PlacementSet
      PROVE  /\ Pnegs(m.chunk) \o Num(Len(m.blocks), 30)
                  \o Payload(Relative(m.blocks, m.chunk), m.blocks, known)
                  \o Placements(m.placements)
                = Built(m.chunk, Relative(m.blocks, m.chunk), m.blocks, m.placements, known)
             /\ InChunk(m.chunk, Relative(m.blocks, m.chunk), m.blocks)
             /\ Knows(known, Relative(m.blocks, m.chunk))
             /\ Built(m.chunk, Relative(m.blocks, m.chunk), m.blocks, m.placements, known)
                  \in Layout
  <2> DEFINE w == 30
             bs == Relative(m.blocks, m.chunk)
             F == Pnegs(m.chunk)
             G == Num(Len(bs), w)
             H == Payload(bs, m.blocks, known)
  <2>1. Knows(known, bs) /\ Len(bs) = Len(m.blocks)
    <3>1. Knows(known, m.blocks)
      BY <1>2 DEF BlocksOf
    <3>2. QED
      BY <1>2, <3>1, RelativeKnown
  <2>2. InChunk(m.chunk, bs, m.blocks) /\ m.blocks \in Says
    <3>1. Absolute(bs, m.chunk) = m.blocks
      BY <1>2, MovedBack
    <3>2. m.blocks \in Says
      BY <1>2 DEF Says
    <3>3. QED
      BY <1>2, <3>1, <3>2 DEF InChunk
  <2>3. bs \in BlockList(w) /\ w \in Nat
    BY <1>2
  <2> HIDE DEF bs
  <2>4. F \in Layout /\ Built(m.chunk, bs, m.blocks, m.placements, known) \in Layout
    BY <1>2, <2>1, <2>2, BuiltTyped
  <2>5. G \in Layout /\ H \in Layout
    <3> HIDE DEF w
    <3>1. QED
      BY <2>1, <2>2, <2>3, PayloadTyped
  <2>6. F \o G \o H = F \o (G \o H)
    <3> HIDE DEF F, G, H
    <3>1. QED
      BY <2>4, <2>5, LayoutAssociative
  <2>7. Pnegs(m.chunk) \o Num(Len(m.blocks), 30) \o H \o Placements(m.placements)
          = Built(m.chunk, bs, m.blocks, m.placements, known)
    BY <2>1, <2>6 DEF Built, Holding
  <2>8. QED
    BY <2>1, <2>2, <2>4, <2>7 DEF bs
<1>3. CASE m \in {x \in [type : {"BLOCKS"}, chunk : WholePlace, blocks : Seq(AnyBlock),
                         placements : PlacementSet] : Relative(x.blocks, x.chunk) \in BlockList(30)}
  <2> DEFINE bs == Relative(m.blocks, m.chunk)
             B == Built(m.chunk, bs, m.blocks, m.placements, known)
  <2>1. /\ m.type = "BLOCKS" /\ m.chunk \in WholePlace /\ m.blocks \in Seq(AnyBlock)
        /\ bs \in BlockList(30) /\ m.placements \in PlacementSet /\ "blocks" \in DOMAIN m
    BY <1>3
  <2>2. BlocksBody(m, known) =
          Pnegs(m.chunk) \o Num(Len(m.blocks), 30) \o Payload(bs, m.blocks, known)
            \o Placements(m.placements) \o <<>>
    BY <2>1 DEF BlocksBody
  <2>3. BlocksBody(m, known) = B \o <<>> /\ B \in Layout /\ Knows(known, bs)
        /\ InChunk(m.chunk, bs, m.blocks)
    BY <1>2, <2>1, <2>2
  <2>4. Carried("BLOCKS", B)
    BY <2>1, <2>3, BlocksCarried
  <2>5. B \o <<>> = B
    BY <2>3 DEF Layout
  <2>6. QED
    BY <2>1, <2>3, <2>4, <2>5, CarriedFramed DEF OfBlocks, Skipped
<1>4. CASE m \in {x \in [type : {"VEHICLE"}, chunk : WholePlace, blocks : Seq(AnyBlock),
                         placements : PlacementSet, meta : Text(8)] :
                    Relative(x.blocks, x.chunk) \in BlockList(30)}
  <2> DEFINE bs == Relative(m.blocks, m.chunk)
             B == Built(m.chunk, bs, m.blocks, m.placements, known)
  <2>1. /\ m.type = "VEHICLE" /\ m.chunk \in WholePlace /\ m.blocks \in Seq(AnyBlock)
        /\ bs \in BlockList(30) /\ m.placements \in PlacementSet /\ m.meta \in Text(8)
        /\ "blocks" \in DOMAIN m
    BY <1>4
  <2>2. BlocksBody(m, known) =
          Pnegs(m.chunk) \o Num(Len(m.blocks), 30) \o Payload(bs, m.blocks, known)
            \o Placements(m.placements) \o String(m.meta, 8)
    BY <2>1 DEF BlocksBody
  <2>3. BlocksBody(m, known) = B \o String(m.meta, 8) /\ Knows(known, bs)
        /\ InChunk(m.chunk, bs, m.blocks)
    BY <1>2, <2>1, <2>2
  <2>4. Carried("VEHICLE", B \o String(m.meta, 8))
    BY <2>1, <2>3, VehicleCarried
  <2>5. QED
    BY <2>1, <2>3, <2>4, CarriedFramed DEF OfBlocks, Skipped
<1>5. CASE m \in [type : {"PLACEMENT"}, of : {"schemata"}, vehicle : 0..1, id : Ids, rotation : 0..3]
  <2>1. /\ m.type = "PLACEMENT" /\ m.of = "schemata" /\ m.vehicle \in 0..1 /\ m.id \in Ids
        /\ m.rotation \in 0..3
    BY <1>5
  <2>2. BlocksBody(m, known) = Num(m.vehicle, 1) \o Num(1, 1) \o Id(m.id) \o Num(m.rotation, 2)
    BY <2>1 DEF BlocksBody
  <2>3. Carried("PLACEMENT", BlocksBody(m, known))
    BY <2>1, <2>2, PlacedSchemataCarried
  <2>4. QED
    BY <2>1, <2>3, CarriedFramed DEF OfBlocks, Skipped
<1>6. CASE m \in [type : {"PLACEMENT"}, of : {"vehicle"}, id : Ids, chunk : WholePlace,
                  at : Vector(LocalBits)]
  <2>1. /\ m.type = "PLACEMENT" /\ m.of = "vehicle" /\ m.id \in Ids /\ m.chunk \in WholePlace
        /\ m.at \in Vector(LocalBits)
    BY <1>6
  <2>2. BlocksBody(m, known) = Num(1, 1) \o Num(0, 1) \o Id(m.id) \o Pnegs(m.chunk)
                                 \o All(m.at, LocalBits)
    BY <2>1 DEF BlocksBody
  <2>3. Carried("PLACEMENT", BlocksBody(m, known))
    BY <2>1, <2>2, PlacedVehicleCarried
  <2>4. QED
    BY <2>1, <2>3, CarriedFramed DEF OfBlocks, Skipped
<1>7. CASE m \in [type : {"PLACEMENT"}, of : {"block"}, at : WholePlace,
                  material : Number(MatBits)]
  <2>1. /\ m.type = "PLACEMENT" /\ m.of = "block" /\ m.at \in WholePlace
        /\ m.material \in Number(MatBits)
    BY <1>7
  <2>2. BlocksBody(m, known) = Num(0, 1) \o Num(0, 1) \o Pnegs(m.at) \o Wide(m.material, MatBits)
    BY <2>1 DEF BlocksBody
  <2>3. Carried("PLACEMENT", BlocksBody(m, known))
    BY <2>1, <2>2, PlacedBlockCarried
  <2>4. QED
    BY <2>1, <2>3, CarriedFramed DEF OfBlocks, Skipped
<1>8. QED
  BY <1>1, <1>3, <1>4, <1>5, <1>6, <1>7 DEF BlockMessages

LEMMA BodyFramed ==
  ASSUME NEW m \in AccountMessages \cup MotionMessages \cup BlockMessages,
         NEW known, Knows(known, BlocksOf(m))
  PROVE  Framed(m.type, Body(m, known))
<1>0. \A type : type \in OfBlocks => type \notin OfAccounts
  BY DEF OfAccounts, OfBlocks
<1>1. CASE m \in AccountMessages
  <2>1. m.type \in OfAccounts /\ Framed(m.type, AccountBody(m))
    BY <1>1, AccountFramed
  <2>2. m.type \notin OfBlocks
    BY <1>0, <2>1
  <2>3. Body(m, known) = AccountBody(m)
    BY <2>1, <2>2 DEF Body
  <2>4. QED
    BY <2>1, <2>3
<1>2. CASE m \in MotionMessages
  <2>1. m.type \notin OfAccounts /\ m.type \notin OfBlocks /\ Framed(m.type, MotionBody(m))
    BY <1>2, MotionFramed
  <2>2. Body(m, known) = MotionBody(m)
    BY <2>1 DEF Body
  <2>3. QED
    BY <2>1, <2>2
<1>3. CASE m \in BlockMessages
  <2>1. m.type \in OfBlocks /\ Framed(m.type, BlocksBody(m, known))
    BY <1>3, BlocksFramed
  <2>2. m.type \notin OfAccounts
    BY <1>0, <2>1
  <2>3. Body(m, known) = BlocksBody(m, known)
    BY <2>1, <2>2 DEF Body
  <2>4. QED
    BY <2>1, <2>3
<1>4. QED
  BY <1>1, <1>2, <1>3

-----------------------------------------------------------------------------
(***************************************************************************)
(* Headers and whole messages.                                             *)
(***************************************************************************)
Typed == Skipped \cup DOMAIN FixedSize

(* The number of a type is its place in the enumeration.                    *)
LEMMA TypeNumberIs ==
  ASSUME NEW type \in Typed
  PROVE  /\ TypeNumber(type) \in 0..19 /\ Types[TypeNumber(type) + 1] = type
         /\ type \notin {"none", "NEW_ENTITY"}
<1>1. DOMAIN Types = 1..20
  BY DEF Types
<1>2. \E i \in 1..20 : Types[i] = type
  <2>1. CASE type \in DOMAIN FixedSize
    <3>1. type \in {"PING", "LOGOUT", "AUTH", "STOP", "CLIENT_LOCAL_POSITION_UPDATE"}
      BY <2>1 DEF FixedSize
    <3>2. /\ Types[1] = "CLIENT_LOCAL_POSITION_UPDATE" /\ Types[6] = "PING" /\ Types[10] = "LOGOUT"
          /\ Types[11] = "AUTH" /\ Types[12] = "STOP"
      BY DEF Types
    <3>3. QED
      BY <3>1, <3>2
  <2>2. CASE type \in Skipped
    <3>1. /\ Types[2] = "BATCH_POSITION_UPDATE" /\ Types[3] = "HIT" /\ Types[4] = "ATTACK"
          /\ Types[5] = "POSITION_UPDATE" /\ Types[7] = "REGISTER" /\ Types[8] = "LOGIN"
          /\ Types[9] = "PUZZLE" /\ Types[13] = "PASSWORD_CHANGE" /\ Types[14] = "BLOCKS"
          /\ Types[15] = "SCHEMATA" /\ Types[16] = "DEAD" /\ Types[17] = "RESYNC"
          /\ Types[18] = "PLACEMENT" /\ Types[19] = "VEHICLE"
      BY DEF Types
    <3>2. QED
      BY <2>2, <3>1 DEF Skipped
  <2>3. QED
    BY <2>1, <2>2 DEF Typed
<1> DEFINE k == CHOOSE i \in DOMAIN Types : Types[i] = type
<1>3. k \in 1..20 /\ Types[k] = type
  BY <1>1, <1>2
<1>4. TypeNumber(type) = k - 1
  BY DEF TypeNumber
<1> HIDE DEF k
<1>5. (k - 1) + 1 = k /\ k - 1 \in 0..19
  BY <1>3
<1>6. type \notin {"none", "NEW_ENTITY"}
  BY DEF Typed, Skipped, FixedSize
<1>7. QED
  BY <1>3, <1>4, <1>5, <1>6

(* The width of a header.                                                   *)
HeadWidth(type) == IF IsShort(type) THEN ShortBits ELSE TypeBits
HeadFlag(type) == IF IsShort(type) THEN 0 ELSE 1

LEMMA HeaderTyped ==
  ASSUME NEW type \in Typed
  PROVE  /\ HeadFlag(type) \in 0..1 /\ HeadWidth(type) \in 0..30 /\ HeadWidth(type) \in Nat
         /\ TypeNumber(type) \in Nat /\ TypeNumber(type) < 2^HeadWidth(type)
         /\ Header(type) = Num(HeadFlag(type), 1) \o Num(TypeNumber(type), HeadWidth(type))
         /\ Num(HeadFlag(type), 1) \in Layout /\ Num(TypeNumber(type), HeadWidth(type)) \in Layout
         /\ Size(Num(HeadFlag(type), 1)) = 1
         /\ Header(type) \in Layout /\ Size(Header(type)) = 1 + HeadWidth(type)
<1>1. HeadFlag(type) \in 0..1 /\ HeadWidth(type) \in 0..30 /\ HeadWidth(type) \in Nat
  BY DEF HeadFlag, HeadWidth, ShortBits, TypeBits
<1>2. TypeNumber(type) \in Nat /\ TypeNumber(type) < 20
  BY TypeNumberIs
<1>3. TypeNumber(type) < 2^HeadWidth(type)
  <2>1. 2^2 = 4
    BY SmallPowers
  <2>2. 2^8 >= 20
    OBVIOUS
  <2>3. QED
    BY <1>2, <2>1, <2>2 DEF HeadWidth, IsShort, ShortBits, TypeBits
<1>4. Header(type) = Num(HeadFlag(type), 1) \o Num(TypeNumber(type), HeadWidth(type))
  BY DEF Header, HeadFlag, HeadWidth
<1>5. HeadFlag(type) \in Nat
  BY <1>1
<1> DEFINE F == Num(HeadFlag(type), 1)
           G == Num(TypeNumber(type), HeadWidth(type))
<1>6. F \in Layout /\ Size(F) = 1
  BY <1>5, FlagTyped
<1>7. G \in Layout /\ Size(G) = HeadWidth(type)
  BY <1>1, <1>2, NumTyped
<1>8. F \o G \in Layout /\ Size(F \o G) = Size(F) + Size(G)
  <2> HIDE DEF F, G
  <2>1. QED
    BY <1>6, <1>7, LayoutJoin
<1>9. QED
  BY <1>1, <1>2, <1>3, <1>4, <1>6, <1>7, <1>8

(* What a header tells.                                                     *)
LEMMA HeaderTold ==
  ASSUME NEW type \in Typed, NEW b, Lies(b, 0, Header(type))
  PROVE  /\ HeadLength(b) = 1 + HeadWidth(type) /\ HeadLength(b) <= Len(b) /\ b # <<>>
         /\ HeadType(b) = type /\ (Slice(b, 0, 1) = <<1>>) = ~IsShort(type)
<1> DEFINE n == HeadFlag(type)
           w == HeadWidth(type)
           k == TypeNumber(type)
           F == Num(n, 1)
           G == Num(k, w)
<1>1. /\ n \in 0..1 /\ w \in Nat /\ k \in Nat /\ k < 2^w /\ Header(type) = F \o G
      /\ F \in Layout /\ G \in Layout /\ Size(F) = 1 /\ Size(Header(type)) = 1 + w
  BY HeaderTyped
<1>2. Lies(b, 0, F) /\ Lies(b, 1, G)
  <2> HIDE DEF F, G
  <2>1. Lies(b, 0, F \o G)
    BY <1>1
  <2>2. Lies(b, 0, F) /\ Lies(b, 0 + Size(F), G)
    BY <1>1, <2>1, LiesJoin
  <2>3. QED
    BY <1>1, <2>2
<1>3. 0 + (1 + w) <= Len(b) /\ Len(b) \in Nat /\ b \in Seq(Bit)
  BY <1>1, LiesFits DEF Lies
<1>4. 1 + w <= Len(b) /\ b # <<>>
  BY <1>1, <1>3
<1>5. Slice(b, 0, 1) = <<n>>
  <2>1. BitsIn(F) = BitsOf(n, 1)
    BY <1>1, NumTyped
  <2>2. BitsOf(n, 1) = <<n>>
    <3>1. 2^0 = 1 /\ n \in Nat
      BY <1>1, SmallPowers
    <3> HIDE DEF n
    <3>2. (n \div 2^(1 - 1)) % 2 = n
      BY <1>1, <3>1
    <3>3. QED
      BY <3>2 DEF BitsOf
  <2>3. <<n>> \in Seq(Bit) /\ Len(<<n>>) = 1
    BY <1>1 DEF Bit
  <2>4. Stands(b, 0, <<n>>)
    BY <1>2, <2>1, <2>2 DEF Lies
  <2> HIDE DEF n
  <2>5. Slice(b, 0, Len(<<n>>)) = <<n>>
    BY <1>3, <2>3, <2>4, SliceOf, Zenon
  <2>6. QED
    BY <2>3, <2>5
<1>6. n = 1 <=> ~IsShort(type)
  BY DEF HeadFlag
<1>7. (Slice(b, 0, 1) = <<1>>) <=> n = 1
  <2> HIDE DEF n
  <2>1. QED
    BY <1>5
<1>8. HeadLength(b) = 1 + w
  BY <1>6, <1>7 DEF HeadLength, HeadWidth
<1>9. HeadLength(b) - 1 = w
  <2> HIDE DEF w
  <2>1. QED
    BY <1>1, <1>8
<1>10. ValueOf(Slice(b, 1, w)) = k
  <2> HIDE DEF w, k
  <2>1. Before(b, 1 + w, w) = k /\ 1 + w # Short
    BY <1>1, <1>2, NumPassed DEF w, k
  <2>2. (1 + w) - w = 1
    BY <1>1
  <2>3. QED
    BY <2>1, <2>2 DEF Before
<1>11. HeadType(b) = type
  <2>1. k < 20 /\ Types[k + 1] = type
    BY TypeNumberIs
  <2>2. Len(Types) = 20
    BY DEF Types
  <2> HIDE DEF k, w
  <2>3. QED
    BY <1>9, <1>10, <2>1, <2>2 DEF HeadType
<1>12. (Slice(b, 0, 1) = <<1>>) = ~IsShort(type)
  <2> HIDE DEF n
  <2>1. QED
    BY <1>6, <1>7 DEF IsShort
<1>13. QED
  BY <1>4, <1>8, <1>11, <1>12

LEMMA HeaderReads ==
  ASSUME NEW type \in Typed, NEW b, NEW r \in Reader, Lies(b, r.at, Header(type))
  PROVE  ReadsTo(r, Header(type), Get(b, Get(b, r, 1), HeadWidth(type)))
<1> DEFINE n == HeadFlag(type)
           w == HeadWidth(type)
           k == TypeNumber(type)
           F == Num(n, 1)
           G == Num(k, w)
           s == Get(b, r, 1)
           t == Get(b, s, w)
<1>1. /\ n \in 0..1 /\ w \in 0..30 /\ k \in Nat /\ k < 2^w /\ Header(type) = F \o G
      /\ F \in Layout /\ G \in Layout
  BY HeaderTyped
<1>2. Lies(b, r.at, F \o G)
  BY <1>1
<1>3. Lies(b, r.at, F)
  <2> HIDE DEF F, G
  <2>1. QED
    BY <1>1, <1>2, LiesJoin
<1>4. ReadsTo(r, F, s)
  <2> HIDE DEF n
  <2>1. QED
    BY <1>1, <1>3, FlagReads
<1>5. s \in Reader /\ Lies(b, s.at, G)
  <2> HIDE DEF F, G, s
  <2>1. QED
    BY <1>1, <1>2, <1>4, Then
<1>6. ReadsTo(s, G, t)
  <2> HIDE DEF k, w, s
  <2>1. QED
    BY <1>1, <1>5, SmallReads
<1>7. ReadsTo(r, F \o G, t)
  <2> HIDE DEF F, G, s, t
  <2>1. QED
    BY <1>1, <1>4, <1>6, ReadsJoin
<1>8. QED
  BY <1>1, <1>7

Messages == AccountMessages \cup MotionMessages \cup BlockMessages

(* The fields of a message, and the bits in which it travels.               *)
LEMMA FieldsTyped ==
  ASSUME NEW m \in Messages, NEW known, Knows(known, BlocksOf(m))
  PROVE  /\ m.type \in Typed /\ Framed(m.type, Body(m, known))
         /\ Header(m.type) \in Layout /\ Body(m, known) \in Layout
         /\ Fields(m, known) = Header(m.type) \o Body(m, known)
         /\ Fields(m, known) \in Layout
         /\ Size(Fields(m, known)) = Size(Header(m.type)) + Size(Body(m, known))
         /\ Size(Header(m.type)) = 1 + HeadWidth(m.type) /\ HeadWidth(m.type) \in Nat
         /\ Size(Body(m, known)) \in Nat
<1>1. Framed(m.type, Body(m, known))
  BY BodyFramed DEF Messages
<1>2. m.type \in Typed /\ Body(m, known) \in Layout
  BY <1>1 DEF Framed, Typed
<1> DEFINE F == Header(m.type)
           G == Body(m, known)
<1>3. F \in Layout /\ Size(F) = 1 + HeadWidth(m.type) /\ HeadWidth(m.type) \in Nat
  BY <1>2, HeaderTyped
<1>4. Fields(m, known) = F \o G
  BY DEF Fields
<1>5. F \o G \in Layout /\ Size(F \o G) = Size(F) + Size(G) /\ Size(G) \in Nat
  <2> HIDE DEF F, G
  <2>1. G \in Layout
    BY <1>2 DEF G
  <2>2. F \o G \in Layout /\ Size(F \o G) = Size(F) + Size(G)
    BY <1>3, <2>1, LayoutJoin
  <2>3. Size(G) \in Nat
    BY <2>1, LayoutTyped
  <2>4. QED
    BY <2>2, <2>3
<1>6. QED
  BY <1>1, <1>2, <1>3, <1>4, <1>5

LEMMA BytesAre ==
  ASSUME NEW n \in Nat
  PROVE  Bytes(n) \in Nat /\ n <= 8 * Bytes(n) /\ (n > 0 => Bytes(n) > 0) /\ 8 * Bytes(n) \in Nat
  BY DEF Bytes

(* A message takes the bytes that its bits need.                            *)
LEMMA PackedTyped ==
  ASSUME NEW m \in Messages, NEW known, Knows(known, BlocksOf(m))
  PROVE  LET F == Fields(m, known)
         IN  /\ Packed(m, known) \in Seq(Bit) /\ Len(Packed(m, known)) = 8 * Bytes(Size(F))
             /\ Lies(Packed(m, known), 0, F)
             /\ Bytes(Size(F)) \in Nat /\ Bytes(Size(F)) > 0
             /\ Said(m, known) = SaysIn(F)
<1> DEFINE F == Fields(m, known)
           x == BitsIn(F)
           w == 8 * Bytes(Size(F))
<1>1. F \in Layout /\ x \in Seq(Bit) /\ Len(x) \in Nat /\ Size(F) = Len(x) /\ Size(F) \in Nat /\ Size(F) > 0
  <2>1. /\ F \in Layout /\ Size(F) = Size(Header(m.type)) + Size(Body(m, known))
        /\ Size(Header(m.type)) = 1 + HeadWidth(m.type) /\ HeadWidth(m.type) \in Nat
        /\ Size(Body(m, known)) \in Nat
    BY FieldsTyped
  <2> HIDE DEF F
  <2>2. x \in Seq(Bit) /\ Size(F) \in Nat
    BY <2>1, LayoutTyped
  <2>3. QED
    BY <2>1, <2>2 DEF Size
<1>2. Packed(m, known) = Fit(x, w)
  BY DEF Packed, Each, BitsIn, Size
<1>3. Said(m, known) = SaysIn(F)
  BY DEF Said, SaysIn
<1> HIDE DEF F
<1>4. w \in Nat /\ Len(x) <= w /\ Bytes(Size(F)) \in Nat /\ Bytes(Size(F)) > 0
  <2>1. Size(F) <= w /\ w \in Nat /\ Bytes(Size(F)) \in Nat /\ Bytes(Size(F)) > 0
    BY <1>1, BytesAre
  <2>2. QED
    BY <1>1, <2>1
<1> HIDE DEF x, w
<1>5. Fit(x, w) \in Seq(Bit) /\ Len(Fit(x, w)) = w
  <2>1. \A i \in 1..w : (IF i <= Len(x) THEN x[i] ELSE 0) \in Bit
    BY <1>1, <1>4 DEF Bit
  <2>2. QED
    BY <1>4, <2>1 DEF Fit
<1>6. Stands(Fit(x, w), 0, x)
  <2>1. 0 + Len(x) <= Len(Fit(x, w))
    BY <1>1, <1>4, <1>5
  <2>2. ASSUME NEW i \in 1..Len(x) PROVE Fit(x, w)[0 + i] = x[i]
    <3>1. 0 + i = i /\ i \in 1..w /\ i <= Len(x)
      BY <1>1, <1>4
    <3>2. QED
      BY <3>1 DEF Fit
  <2>3. QED
    BY <2>1, <2>2 DEF Stands
<1>7. Lies(Packed(m, known), 0, F)
  BY <1>1, <1>2, <1>5, <1>6 DEF Lies, x
<1>8. QED
  BY <1>2, <1>3, <1>4, <1>5, <1>7 DEF F, w

(* Whatever follows it.                                                     *)
LEMMA BeginsLies ==
  ASSUME NEW b, NEW c, Begins(b, c), NEW F, Lies(b, 0, F)
  PROVE  Lies(c, 0, F)
<1> DEFINE x == BitsIn(F)
<1>1. /\ b \in Seq(Bit) /\ c \in Seq(Bit) /\ Len(b) <= Len(c) /\ F \in Layout /\ Stands(b, 0, x)
      /\ \A i \in 1..Len(b) : c[i] = b[i]
  BY DEF Begins, Lies
<1>2. x \in Seq(Bit)
  BY <1>1, LayoutTyped
<1> HIDE DEF x
<1>3. Len(x) <= Len(b) /\ \A i \in 1..Len(x) : b[i] = x[i]
  <2>1. 0 + Len(x) <= Len(b) /\ \A i \in 1..Len(x) : b[0 + i] = x[i]
    BY <1>1 DEF Stands
  <2>2. QED
    BY <1>2, <2>1
<1>4. Stands(c, 0, x)
  <2>1. 0 + Len(x) <= Len(c)
    BY <1>1, <1>2, <1>3
  <2>2. ASSUME NEW i \in 1..Len(x) PROVE c[0 + i] = x[i]
    <3>1. 0 + i = i /\ i \in 1..Len(b) /\ b[i] = x[i]
      BY <1>1, <1>2, <1>3
    <3>2. QED
      BY <1>1, <3>1
  <2>3. QED
    BY <2>1, <2>2 DEF Stands
<1>5. QED
  BY <1>1, <1>4 DEF Lies, x

LEMMA FixedNumbers ==
  /\ ~IsShort("PING") /\ ~IsShort("LOGOUT") /\ ~IsShort("AUTH") /\ ~IsShort("STOP")
  /\ IsShort("CLIENT_LOCAL_POSITION_UPDATE")
<1> DEFINE k(type) == TypeNumber(type) + 1
<1>1. \A i \in 1..20 :
        /\ Types[i] \in {"PING", "LOGOUT", "AUTH", "STOP"} => i > 5
        /\ Types[i] = "CLIENT_LOCAL_POSITION_UPDATE" => i = 1
  BY DEF Types
<1>2. \A type \in {"PING", "LOGOUT", "AUTH", "STOP", "CLIENT_LOCAL_POSITION_UPDATE"} :
        TypeNumber(type) \in 0..19 /\ Types[k(type)] = type
  BY TypeNumberIs DEF Typed, FixedSize
<1>3. \A type \in {"PING", "LOGOUT", "AUTH", "STOP", "CLIENT_LOCAL_POSITION_UPDATE"} :
        k(type) \in 1..20 /\ TypeNumber(type) = k(type) - 1
  BY <1>2
<1> HIDE DEF k
<1>4. QED
  BY <1>1, <1>2, <1>3 DEF IsShort

(* The length of a message is found whatever follows it.                    *)
LEMMA LengthFound ==
  ASSUME NEW m \in Messages, NEW known, Knows(known, BlocksOf(m)), NEW c,
         Begins(Packed(m, known), c)
  PROVE  MessageLength(c) = Bytes(Size(Fields(m, known)))
<1> DEFINE type == m.type
           F == Header(m.type)
           G == Body(m, known)
           p == HeadLength(c)
           end == SkipBody(type, c, p)
<1>1. /\ type \in Typed /\ Framed(type, G) /\ F \in Layout /\ G \in Layout
      /\ Fields(m, known) = F \o G /\ Size(Fields(m, known)) = Size(F) + Size(G)
      /\ Size(F) = 1 + HeadWidth(type) /\ HeadWidth(type) \in Nat /\ Size(G) \in Nat
  BY FieldsTyped
<1>2. Lies(c, 0, F \o G)
  BY <1>1, PackedTyped, BeginsLies
<1>3. Lies(c, 0, F) /\ Lies(c, Size(F), G)
  <2> HIDE DEF F, G
  <2>1. Lies(c, 0, F) /\ Lies(c, 0 + Size(F), G)
    BY <1>1, <1>2, LiesJoin
  <2>2. QED
    BY <1>1, <2>1
<1>4. /\ p = Size(F) /\ p <= Len(c) /\ c # <<>> /\ HeadType(c) = type
      /\ (Slice(c, 0, 1) = <<1>>) = ~IsShort(type)
  BY <1>1, <1>3, HeaderTold
<1>5. p \in Nat /\ Len(c) \in Nat
  BY <1>1, <1>4 DEF Begins
<1>6. type \notin {"none", "NEW_ENTITY"}
  BY <1>1, TypeNumberIs
<1>7. MessageLength(c) = IF type \in DOMAIN FixedBytes THEN FixedBytes[type]
                         ELSE IF end = Short THEN 0 ELSE Bytes(end)
  <2>1. ~(c = <<>> \/ Len(c) < p)
    BY <1>4, <1>5
  <2>2. ~((Slice(c, 0, 1) = <<1>>) = IsShort(type))
    BY <1>4 DEF IsShort
  <2> HIDE DEF type
  <2>3. QED
    BY <1>4, <1>6, <2>1, <2>2 DEF MessageLength
<1>8. CASE type \in DOMAIN FixedSize
  <2>1. type \in DOMAIN FixedBytes
    BY <1>8 DEF FixedSize, FixedBytes
  <2>2. type \notin Skipped
    BY <1>8 DEF FixedSize, Skipped
  <2>3. Size(G) = FixedSize[type]
    BY <1>1, <2>2 DEF Framed
  <2>4. Size(F) + Size(G) = HeadWidth(type) + 1 + FixedSize[type]
    BY <1>1, <2>3
  <2>5. FixedBytes[type] = Bytes(HeadWidth(type) + 1 + FixedSize[type])
    <3>1. type \in {"PING", "LOGOUT", "AUTH", "STOP", "CLIENT_LOCAL_POSITION_UPDATE"}
      BY <1>8 DEF FixedSize
    <3>2. CASE type = "PING"
      BY <3>2, FixedNumbers DEF FixedBytes, FixedSize, HeadWidth, TypeBits, Bytes
    <3>3. CASE type \in {"LOGOUT", "AUTH", "STOP"}
      BY <3>3, FixedNumbers DEF FixedBytes, FixedSize, HeadWidth, TypeBits, Bytes
    <3>4. CASE type = "CLIENT_LOCAL_POSITION_UPDATE"
      BY <3>4, FixedNumbers DEF FixedBytes, FixedSize, HeadWidth, ShortBits, Bytes, LocalBits, RotationBits
    <3>5. QED
      BY <3>1, <3>2, <3>3, <3>4
  <2>6. QED
    BY <1>1, <1>7, <2>1, <2>4, <2>5
<1>9. CASE type \notin DOMAIN FixedSize
  <2>1. type \notin DOMAIN FixedBytes
    BY <1>9 DEF FixedSize, FixedBytes
  <2>2. Passes(type, G)
    BY <1>1, <1>9 DEF Framed
  <2>3. end = p + Size(G)
    BY <1>3, <1>4, <2>2 DEF Passes
  <2>4. end # Short
    BY <1>1, <1>5, <2>3 DEF Short
  <2>5. QED
    BY <1>1, <1>4, <1>7, <2>1, <2>3, <2>4
<1>10. QED
  BY <1>8, <1>9

(* It is unpacked for what was said.                                        *)
LEMMA SaidUnpacked ==
  ASSUME NEW m \in Messages, NEW known, Knows(known, BlocksOf(m)), NEW k \in Registry(Material)
  PROVE  /\ Unpacked(Packed(m, known), k).got = Said(m, known)
         /\ Unpacked(Packed(m, known), k).names \in Registry(Material)
<1> DEFINE type == m.type
           b == Packed(m, known)
           F == Header(m.type)
           G == Body(m, known)
           r == [at |-> 0, got |-> <<>>, names |-> k]
           s == Get(b, Get(b, r, 1), HeadWidth(type))
           t == GetBody(type, b, s)
<1>1. /\ type \in Typed /\ Framed(type, G) /\ F \in Layout /\ G \in Layout
      /\ Fields(m, known) = F \o G
      /\ Size(F) = 1 + HeadWidth(type) /\ HeadWidth(type) \in Nat
  BY FieldsTyped
<1>2. Lies(b, 0, F \o G) /\ Said(m, known) = SaysIn(F \o G)
  BY <1>1, PackedTyped
<1>3. Lies(b, 0, F)
  <2> HIDE DEF F, G, b
  <2>1. QED
    BY <1>1, <1>2, LiesJoin
<1>4. HeadLength(b) = 1 + HeadWidth(type) /\ HeadType(b) = type
  BY <1>1, <1>3, HeaderTold
<1>5. Unpacked(b, k) = t
  <2>1. HeadLength(b) - 1 = HeadWidth(type)
    BY <1>1, <1>4
  <2>2. QED
    BY <1>4, <2>1 DEF Unpacked
<1>6. r \in WholeReader /\ r \in Reader /\ r.at = 0 /\ r.got = <<>>
  BY DEF WholeReader, Reader
<1> HIDE DEF r
<1>7. ReadsTo(r, F, s)
  BY <1>1, <1>3, <1>6, HeaderReads
<1>8. s \in WholeReader
  BY <1>6, <1>7 DEF ReadsTo
<1>9. Lies(b, s.at, G)
  <2> HIDE DEF F, G, b, s
  <2>1. Lies(b, r.at, F \o G)
    BY <1>2, <1>6
  <2>2. QED
    BY <1>1, <1>7, <2>1, Then
<1>10. ReadsTo(s, G, t)
  BY <1>1, <1>8, <1>9 DEF Framed, IsRead
<1>11. ReadsTo(r, F \o G, t)
  <2> HIDE DEF F, G, b, s, t
  <2>1. QED
    BY <1>1, <1>7, <1>10, ReadsJoin
<1>12. t \in WholeReader /\ t.got = r.got \o SaysIn(F \o G)
  BY <1>6, <1>11 DEF ReadsTo
<1>13. t.got = SaysIn(F \o G)
  <2>1. SaysIn(F \o G) \in Seq(Says)
    <3>1. F \o G \in Layout
      BY <1>2 DEF Lies
    <3> HIDE DEF F, G
    <3>2. QED
      BY <3>1, LayoutTyped
  <2> DEFINE z == SaysIn(F \o G)
  <2> HIDE DEF z
  <2>2. <<>> \o z = z
    BY <2>1 DEF z
  <2>3. QED
    BY <1>6, <1>12, <2>2 DEF z
<1>14. t.names \in Registry(Material)
  BY <1>12, ReaderIs DEF Reader
<1>15. QED
  BY <1>2, <1>5, <1>13, <1>14

-----------------------------------------------------------------------------
(***************************************************************************)
(* The specification of Wire.                                              *)
(***************************************************************************)
(* The bits x are those of the message that says y.                         *)
Sent(x, y) ==
  \E m \in Messages : \E k : Knows(k, BlocksOf(m)) /\ x = Packed(m, k) /\ y = Said(m, k)

(* What makes it so: the bits that have arrived and those under way are the *)
(* messages that were sent and not yet taken, whole and one after another.  *)
Untaken(W) ==
  /\ W \in Seq(Seq(Bit)) /\ Len(sent) = Len(got) + Len(W)
  /\ buffer \o line = FlattenSeq(W)
  /\ \A j \in 1..Len(W) : Sent(W[j], sent[Len(got) + j])

WireTypeOK ==
  /\ DOMAIN names = {"sender", "receiver"}
  /\ names.sender \in Registry(Material) /\ names.receiver \in Registry(Material)
  /\ names = [sender |-> names.sender, receiver |-> names.receiver]
  /\ sent \in Seq(Seq(Says)) /\ got \in Seq(Seq(Says))
  /\ line \in Seq(Bit) /\ buffer \in Seq(Bit)
  /\ \E bytes \in Nat : Len(line) = 8 * bytes

WireInv ==
  /\ WireTypeOK
  /\ \A i \in 1..Len(got) : got[i] = sent[i]
  /\ \E W : Untaken(W)

LEMMA BlocksOfTyped ==
  ASSUME NEW m \in Messages
  PROVE  BlocksOf(m) \in Seq(AnyBlock)
<1>1. CASE "blocks" \notin DOMAIN m
  BY <1>1 DEF BlocksOf
<1>2. CASE "blocks" \in DOMAIN m
  <2>1. m \notin AccountMessages
    BY <1>2 DEF AccountMessages
  <2>2. m \notin MotionMessages
    BY <1>2 DEF MotionMessages
  <2>3. m \in BlockMessages
    BY <2>1, <2>2 DEF Messages
  <2>4. m.blocks \in Seq(AnyBlock)
    BY <1>2, <2>3 DEF BlockMessages
  <2>5. QED
    BY <1>2, <2>4 DEF BlocksOf
<1>3. QED
  BY <1>1, <1>2

(* The sender's registry has the materials of the blocks it sends.          *)
LEMMA SenderKnows ==
  ASSUME NEW k \in Registry(Material), NEW bs \in Seq(AnyBlock)
  PROVE  Knows(AllKnown(k, bs), bs)
<1> DEFINE ms == [i \in DOMAIN bs |-> bs[i].material]
           known == FoldLeft(Known, k, ms)
<1>1. ms \in Seq(Material) /\ Len(ms) = Len(bs) /\ \A i \in 1..Len(bs) : ms[i] = bs[i].material
  <2>1. ASSUME NEW i \in 1..Len(bs) PROVE bs[i].material \in Material
    <3>1. bs[i] \in AnyBlock
      OBVIOUS
    <3>2. \A b \in AnyBlock : b.material \in Material
      BY DEF AnyBlock
    <3>3. QED
      BY <3>1, <3>2
  <2>2. QED
    BY <2>1
<1> HIDE DEF ms
<1>2. Learned(k, ms)
  BY <1>1, Learns
<1>3. known \in Registry(Material) /\ \A i \in 1..Len(ms) : Named(known, IndicesIn(k, ms)[i], ms[i])
      /\ IndicesIn(k, ms) \in Seq(Nat) /\ Len(IndicesIn(k, ms)) = Len(ms)
  BY <1>2 DEF Learned
<1>4. ASSUME NEW i \in 1..Len(bs) PROVE bs[i].material \in ToSet(known)
  <2>1. Named(known, IndicesIn(k, ms)[i], bs[i].material) /\ IndicesIn(k, ms)[i] \in Nat
    BY <1>1, <1>3
  <2> DEFINE u == IndicesIn(k, ms)[i]
  <2> HIDE DEF u, known
  <2>2. u \in Nat /\ u < Len(known) /\ known[u + 1] = bs[i].material /\ known \in Seq(Material)
    BY <1>3, <2>1 DEF Named, u, Registry
  <2>3. u + 1 \in 1..Len(known)
    BY <2>2
  <2>4. QED
    BY <2>2, <2>3, ToSetIs
<1>5. AllKnown(k, bs) = known
  BY DEF AllKnown, ms
<1>6. QED
  BY <1>3, <1>4, <1>5 DEF Knows

LEMMA SentTyped ==
  ASSUME NEW m \in Messages, NEW k, Knows(k, BlocksOf(m))
  PROVE  /\ Packed(m, k) \in Seq(Bit) /\ Said(m, k) \in Seq(Says)
         /\ Len(Packed(m, k)) = 8 * Bytes(Size(Fields(m, k))) /\ Bytes(Size(Fields(m, k))) \in Nat
  <1>1. /\ Packed(m, k) \in Seq(Bit) /\ Len(Packed(m, k)) = 8 * Bytes(Size(Fields(m, k)))
        /\ Said(m, k) = SaysIn(Fields(m, k)) /\ Bytes(Size(Fields(m, k))) \in Nat
    BY PackedTyped
  <1>2. Fields(m, k) \in Layout
    BY FieldsTyped
  <1>3. SaysIn(Fields(m, k)) \in Seq(Says)
    BY <1>2, LayoutTyped
  <1>4. QED
    BY <1>1, <1>3

LEMMA WireInit == Init => WireInv
<1> SUFFICES ASSUME Init PROVE WireInv
  OBVIOUS
<1>1. PICK m \in Material : names = [sender |-> <<>>, receiver |-> <<m>>]
  BY DEF Init
<1>2. <<>> \in Registry(Material) /\ <<m>> \in Registry(Material)
  BY DEF Registry
<1>3. sent = <<>> /\ line = <<>> /\ buffer = <<>> /\ got = <<>>
  BY DEF Init
<1>4. WireTypeOK
  BY <1>1, <1>2, <1>3 DEF WireTypeOK
<1>5. Untaken(<<>>)
  BY <1>3, FlattenEmpty DEF Untaken
<1>6. QED
  BY <1>3, <1>4, <1>5 DEF WireInv

LEMMA SendKeeps ==
  ASSUME WireInv, Send
  PROVE  WireInv'
<1>1. PICK m : /\ m \in IF sent = <<>> THEN Message ELSE Following
               /\ line' = Packed(m, AllKnown(names.sender, BlocksOf(m)))
               /\ sent' = Append(sent, Said(m, AllKnown(names.sender, BlocksOf(m))))
               /\ names' = [names EXCEPT !.sender = AllKnown(names.sender, BlocksOf(m))]
  BY DEF Send
<1>2. line = <<>> /\ buffer' = buffer /\ got' = got
  BY DEF Send
<1> DEFINE k == AllKnown(names.sender, BlocksOf(m))
           x == Packed(m, k)
           y == Said(m, k)
<1>3. m \in Messages
  BY <1>1, WireAssumption DEF Messages
<1>4. Knows(k, BlocksOf(m))
  <2>1. names.sender \in Registry(Material) /\ BlocksOf(m) \in Seq(AnyBlock)
    BY <1>3, BlocksOfTyped DEF WireInv, WireTypeOK
  <2>2. QED
    BY <2>1, SenderKnows
<1>5. k \in Registry(Material) /\ x \in Seq(Bit) /\ y \in Seq(Says)
      /\ Len(x) = 8 * Bytes(Size(Fields(m, k))) /\ Bytes(Size(Fields(m, k))) \in Nat
  BY <1>3, <1>4, SentTyped DEF Knows
<1>6. Sent(x, y)
  BY <1>3, <1>4 DEF Sent
<1>7. line' = x /\ sent' = Append(sent, y) /\ names' = [names EXCEPT !.sender = k]
  BY <1>1
<1>8. \E bytes \in Nat : Len(x) = 8 * bytes
  BY <1>5
<1> HIDE DEF k, x, y
<1>9. WireTypeOK'
  <2>1. WireTypeOK
    BY DEF WireInv
  <2>2. /\ sent' \in Seq(Seq(Says)) /\ got' \in Seq(Seq(Says))
        /\ line' \in Seq(Bit) /\ buffer' \in Seq(Bit)
    BY <1>2, <1>5, <1>7, <2>1 DEF WireTypeOK
  <2>3. names' = [sender |-> k, receiver |-> names.receiver]
    BY <1>7, <2>1 DEF WireTypeOK
  <2>4. /\ DOMAIN names' = {"sender", "receiver"} /\ names'.sender = k
        /\ names'.receiver = names.receiver
        /\ names' = [sender |-> names'.sender, receiver |-> names'.receiver]
    BY <2>3
  <2>5. names'.sender \in Registry(Material) /\ names'.receiver \in Registry(Material)
    BY <1>5, <2>1, <2>4 DEF WireTypeOK
  <2>6. \E bytes \in Nat : Len(line') = 8 * bytes
    BY <1>7, <1>8
  <2>7. QED
    BY <2>2, <2>4, <2>5, <2>6 DEF WireTypeOK
<1>10. PICK W : Untaken(W)
  BY DEF WireInv
<1>11. WireTypeOK
  BY DEF WireInv
<1>12. Len(got) \in Nat /\ Len(sent) = Len(got) + Len(W) /\ W \in Seq(Seq(Bit)) /\ Len(W) \in Nat
       /\ sent \in Seq(Seq(Says)) /\ got \in Seq(Seq(Says))
  BY <1>10, <1>11 DEF Untaken, WireTypeOK
<1>13. /\ Len(sent') = Len(sent) + 1 /\ sent'[Len(sent) + 1] = y
       /\ \A i \in 1..Len(sent) : sent'[i] = sent[i]
  BY <1>5, <1>7, <1>12
<1>14. PICK V : V = Append(W, x)
  OBVIOUS
<1>15. V \in Seq(Seq(Bit)) /\ Len(V) = Len(W) + 1 /\ V[Len(W) + 1] = x /\ \A j \in 1..Len(W) : V[j] = W[j]
  BY <1>5, <1>12, <1>14
<1>16. buffer' \o line' = FlattenSeq(V)
  <2>1. buffer \in Seq(Bit)
    BY <1>11 DEF WireTypeOK
  <2>2. buffer \o line = buffer
    BY <1>2, <2>1
  <2>3. FlattenSeq(V) = FlattenSeq(W) \o x
    BY <1>5, <1>12, <1>14, FlattenAppend
  <2>4. QED
    BY <1>2, <1>7, <1>10, <2>2, <2>3 DEF Untaken
<1>17. ASSUME NEW j \in 1..Len(V) PROVE Sent(V[j], sent'[Len(got) + j])
  <2>1. CASE j = Len(W) + 1
    <3>1. Len(got) + j = Len(sent) + 1
      BY <1>12, <2>1
    <3>2. QED
      BY <1>6, <1>13, <1>15, <2>1, <3>1
  <2>2. CASE j # Len(W) + 1
    <3>1. j \in 1..Len(W) /\ Len(got) + j \in 1..Len(sent)
      BY <1>12, <1>15, <2>2, SMTT(60)
    <3>2. Sent(W[j], sent[Len(got) + j])
      BY <1>10, <3>1 DEF Untaken
    <3>3. QED
      BY <1>13, <1>15, <3>1, <3>2
  <2>3. QED
    BY <2>1, <2>2
<1>18. Untaken(V)'
  <2>1. Len(sent') = Len(got) + Len(V)
    BY <1>12, <1>13, <1>15
  <2>2. QED
    BY <1>2, <1>15, <1>16, <1>17, <2>1 DEF Untaken, Sent
<1>19. \A i \in 1..Len(got') : got'[i] = sent'[i]
  <2>1. \A i \in 1..Len(got) : i \in 1..Len(sent)
    BY <1>12
  <2>2. QED
    BY <1>2, <1>13, <2>1 DEF WireInv
<1>20. QED
  BY <1>9, <1>18, <1>19 DEF WireInv

LEMMA ArriveKeeps ==
  ASSUME WireInv, Arrive
  PROVE  WireInv'
<1> DEFINE x == SubSeq(line, 1, 8)
           y == SubSeq(line, 9, Len(line))
<1>1. /\ line # <<>> /\ buffer' = buffer \o x /\ line' = y
      /\ sent' = sent /\ got' = got /\ names' = names
  BY DEF Arrive
<1>2. WireTypeOK
  BY DEF WireInv
<1>3. PICK bytes \in Nat : Len(line) = 8 * bytes
  BY <1>2 DEF WireTypeOK
<1>4. line \in Seq(Bit) /\ buffer \in Seq(Bit) /\ Len(line) \in Nat
  BY <1>2 DEF WireTypeOK
<1>5. Len(line) >= 8 /\ bytes - 1 \in Nat
  BY <1>1, <1>3, <1>4
<1>6. x \in Seq(Bit) /\ y \in Seq(Bit) /\ Len(x) = 8 /\ Len(y) = Len(line) - 8
  <2>1. \A i \in 1..8 : line[i] \in Bit
    BY <1>4, <1>5
  <2>2. x \in Seq(Bit) /\ Len(x) = 8
    BY <1>4, <1>5, <2>1
  <2>3. \A i \in 9..Len(line) : line[i] \in Bit
    BY <1>4
  <2>4. y \in Seq(Bit) /\ Len(y) = IF 9 <= Len(line) THEN Len(line) - 9 + 1 ELSE 0
    BY <1>4, <2>3, SubSeqProperties
  <2> HIDE DEF y
  <2> DEFINE n == Len(line)
  <2>5. Len(y) = n - 8
    <3>1. n \in Nat /\ n >= 8 /\ Len(y) = IF 9 <= n THEN n - 9 + 1 ELSE 0
      BY <1>4, <1>5, <2>4
    <3> HIDE DEF n
    <3>2. CASE 9 <= n
      BY <3>1, <3>2
    <3>3. CASE ~(9 <= n)
      BY <3>1, <3>3
    <3>4. QED
      BY <3>2, <3>3
  <2>6. QED
    BY <2>2, <2>4, <2>5
<1>7. x \o y = line
  <2> DEFINE n == Len(line)
  <2>1. 1 \in 1..n + 1 /\ 8 \in 1 - 1..n /\ n \in 8..n
    BY <1>4, <1>5
  <2>2. SubSeq(line, 1, 8) \o SubSeq(line, 8 + 1, n) = SubSeq(line, 1, n)
    BY <1>4, <2>1, ConcatAdjacentSubSeq
  <2>3. SubSeq(line, 1, n) = line
    BY <1>4
  <2>4. QED
    BY <2>2, <2>3
<1> HIDE DEF x, y
<1>8. buffer' \o line' = buffer \o line
  <2>1. (buffer \o x) \o y = buffer \o (x \o y)
    BY <1>4, <1>6, ConcatAssociative, SMTT(60)
  <2>2. QED
    BY <1>1, <1>7, <2>1
<1>9. WireTypeOK'
  <2>1. buffer' \in Seq(Bit) /\ line' \in Seq(Bit)
    BY <1>1, <1>4, <1>6
  <2>2. Len(line') = 8 * (bytes - 1)
    BY <1>1, <1>3, <1>6
  <2>3. QED
    BY <1>1, <1>2, <1>5, <2>1, <2>2 DEF WireTypeOK
<1>10. PICK W : Untaken(W)
  BY DEF WireInv
<1>11. Untaken(W)'
  BY <1>1, <1>8, <1>10 DEF Untaken, Sent
<1>12. QED
  BY <1>1, <1>9, <1>11 DEF WireInv

LEMMA FlattenFirst ==
  ASSUME NEW W \in Seq(Seq(Bit)), W # <<>>
  PROVE  /\ W[1] \in Seq(Bit) /\ Tail(W) \in Seq(Seq(Bit)) /\ FlattenSeq(Tail(W)) \in Seq(Bit)
         /\ Len(Tail(W)) = Len(W) - 1 /\ \A j \in 1..Len(Tail(W)) : Tail(W)[j] = W[j + 1]
         /\ FlattenSeq(W) = W[1] \o FlattenSeq(Tail(W))
<1> DEFINE x == W[1]
           V == Tail(W)
<1>1. x \in Seq(Bit) /\ V \in Seq(Seq(Bit)) /\ Len(V) = Len(W) - 1 /\ \A j \in 1..Len(V) : V[j] = W[j + 1]
  OBVIOUS
<1>7. W = <<x>> \o V
  OBVIOUS
<1> HIDE DEF x, V
<1>2. <<x>> \in Seq(Seq(Bit))
  BY <1>1
<1>3. FlattenSeq(<<x>> \o V) = FlattenSeq(<<x>>) \o FlattenSeq(V) /\ FlattenSeq(V) \in Seq(Bit)
  BY <1>1, <1>2, FlattenJoin
<1>4. FlattenSeq(<<x>>) = x
  <2>1. <<>> \in Seq(Seq(Bit)) /\ Append(<<>>, x) = <<x>>
    OBVIOUS
  <2>2. FlattenSeq(Append(<<>>, x)) = FlattenSeq(<<>>) \o x
    BY <1>1, <2>1, FlattenAppend
  <2>3. <<>> \o x = x
    BY <1>1
  <2>4. QED
    BY <2>1, <2>2, <2>3, FlattenEmpty
<1>5. FlattenSeq(W) = x \o FlattenSeq(V)
  BY <1>3, <1>4, <1>7, Zenon
<1>6. QED
  BY <1>1, <1>3, <1>5 DEF x, V

LEMMA JoinBegins ==
  ASSUME NEW b \in Seq(Bit), NEW c \in Seq(Bit)
  PROVE  Begins(b, b \o c)
<1>1. /\ b \o c \in Seq(Bit) /\ Len(b \o c) = Len(b) + Len(c) /\ Len(c) \in Nat /\ Len(b) \in Nat
      /\ \A i \in 1..Len(b) : (b \o c)[i] = b[i]
  OBVIOUS
<1>2. QED
  BY <1>1 DEF Begins

LEMMA BitsJoin ==
  \A s, t, u \in Seq(Bit) : (s \o t) \o u = s \o (t \o u)
  BY ConcatAssociative

(* Two ways to cut the same bits.                                           *)
CutAt(b, n, c, x, y) ==
  /\ SubSeq(b, 1, n) = x
  /\ SubSeq(b, n + 1, Len(b)) \in Seq(Bit)
  /\ SubSeq(b, n + 1, Len(b)) \o c = y

LEMMA SplitJoin ==
  ASSUME NEW b \in Seq(Bit), NEW c \in Seq(Bit), NEW x \in Seq(Bit), NEW y \in Seq(Bit),
         NEW n \in Nat, b \o c = x \o y /\ n = Len(x) /\ 0 < n /\ n <= Len(b)
  PROVE  CutAt(b, n, c, x, y)
<1> DEFINE z == SubSeq(b, n + 1, Len(b))
<1>1. Len(b) \in Nat /\ Len(c) \in Nat /\ Len(y) \in Nat
  OBVIOUS
<1>2. /\ \A i \in 1..Len(b) : (b \o c)[i] = b[i]
      /\ \A i \in 1..n : (x \o y)[i] = x[i]
  OBVIOUS
<1>3. SubSeq(b, 1, n) = x
  <2>1. SubSeq(b, 1, n) \in Seq(Bit) /\ Len(SubSeq(b, 1, n)) = n
        /\ \A i \in 1..n : SubSeq(b, 1, n)[i] = b[i]
    <3>1. \A i \in 1..n : b[i] \in Bit
      BY <1>1
    <3>2. QED
      BY <1>1, <3>1
  <2>2. ASSUME NEW i \in 1..n PROVE b[i] = x[i]
    <3>1. i \in 1..Len(b)
      BY <1>1
    <3>2. (b \o c)[i] = b[i] /\ (x \o y)[i] = x[i]
      BY <1>2, <3>1
    <3>3. QED
      BY <3>2
  <2>3. QED
    BY <2>1, <2>2
<1>4. z \in Seq(Bit) /\ SubSeq(b, 1, n) \o z = b
  <2> DEFINE l == Len(b)
  <2>1. 1 \in 1..l + 1 /\ n \in 1 - 1..l /\ l \in n..l
    BY <1>1
  <2>2. SubSeq(b, 1, n) \o SubSeq(b, n + 1, l) = SubSeq(b, 1, l)
    BY <2>1, ConcatAdjacentSubSeq
  <2>3. \A i \in n + 1..l : b[i] \in Bit
    BY <1>1
  <2>4. z \in Seq(Bit)
    BY <1>1, <2>3, SubSeqProperties
  <2>5. SubSeq(b, 1, l) = b
    OBVIOUS
  <2>6. QED
    BY <2>2, <2>4, <2>5, Zenon
<1> HIDE DEF z
<1>5. x \o z = b
  BY <1>3, <1>4
<1>6. (x \o z) \o c = x \o (z \o c) /\ z \o c \in Seq(Bit)
  <2>1. z \in Seq(Bit)
    BY <1>4
  <2>4. x \in Seq(Bit) /\ c \in Seq(Bit)
    OBVIOUS
  <2>2. (x \o z) \o c = x \o (z \o c)
    BY <2>1, <2>4, BitsJoin
  <2>3. z \o c \in Seq(Bit)
    BY <2>1
  <2>5. QED
    BY <2>2, <2>3
<1>7. x \o (z \o c) = x \o y
  BY <1>5, <1>6
<1>8. z \o c = y
  BY <1>6, <1>7, ConcatSimplifications
<1>9. QED
  BY <1>3, <1>4, <1>8 DEF z, CutAt

LEMMA NothingYet == MessageLength(<<>>) = 0
  BY DEF MessageLength

(* The first of the messages that are not taken yet: how long it is, and    *)
(* what it says.                                                            *)
LEMMA FirstIs ==
  ASSUME WireTypeOK, NEW W, Untaken(W), W # <<>>
  PROVE  /\ MessageLength(buffer \o line) \in Nat /\ MessageLength(buffer \o line) > 0
         /\ 8 * MessageLength(buffer \o line) = Len(W[1])
         /\ \A k \in Registry(Material) :
              /\ Unpacked(W[1], k).got = sent[Len(got) + 1]
              /\ Unpacked(W[1], k).names \in Registry(Material)
<1>1. W \in Seq(Seq(Bit)) /\ buffer \o line = FlattenSeq(W) /\ 1 \in 1..Len(W)
  BY DEF Untaken
<1>2. Sent(W[1], sent[Len(got) + 1])
  BY <1>1 DEF Untaken
<1>11. PICK m \in Messages : \E k : Knows(k, BlocksOf(m)) /\ W[1] = Packed(m, k)
                                   /\ sent[Len(got) + 1] = Said(m, k)
  BY <1>2 DEF Sent
<1>3. PICK names0 : Knows(names0, BlocksOf(m)) /\ W[1] = Packed(m, names0)
                    /\ sent[Len(got) + 1] = Said(m, names0)
  BY <1>11
<1> DEFINE n == Bytes(Size(Fields(m, names0)))
<1>4. Len(W[1]) = 8 * n /\ n \in Nat /\ n > 0
  BY <1>3, PackedTyped
<1>5. Begins(W[1], buffer \o line)
  BY <1>1, FlattenFirst, JoinBegins
<1>6. MessageLength(buffer \o line) = n
  BY <1>3, <1>5, LengthFound
<1>7. \A k \in Registry(Material) :
              /\ Unpacked(W[1], k).got = sent[Len(got) + 1]
              /\ Unpacked(W[1], k).names \in Registry(Material)
  BY <1>3, SaidUnpacked
<1>8. QED
  BY <1>4, <1>6, <1>7

LEMMA TakeKeeps ==
  ASSUME WireInv, Take
  PROVE  WireInv'
<1> DEFINE n == MessageLength(buffer)
           size == 8 * n
           read == Unpacked(SubSeq(buffer, 1, size), names.receiver)
           rest == SubSeq(buffer, size + 1, Len(buffer))
<1>1. /\ size > 0 /\ Len(buffer) >= size /\ got' = Append(got, read.got)
      /\ names' = [names EXCEPT !.receiver = read.names] /\ buffer' = rest
      /\ sent' = sent /\ line' = line
  BY DEF Take
<1>2. WireTypeOK
  BY DEF WireInv
<1>3. PICK W : Untaken(W)
  BY DEF WireInv
<1>4. buffer \in Seq(Bit) /\ line \in Seq(Bit) /\ Len(buffer) \in Nat
  BY <1>2 DEF WireTypeOK
<1>5. W \in Seq(Seq(Bit)) /\ buffer \o line = FlattenSeq(W)
  BY <1>3 DEF Untaken
<1>6. n # 0 /\ buffer # <<>>
  <2>1. n # 0
    BY <1>1
  <2>2. QED
    BY <2>1, NothingYet
<1>7. W # <<>>
  <2>1. buffer \o line # <<>>
    BY <1>4, <1>6
  <2>2. QED
    BY <1>5, <2>1, FlattenEmpty
<1> DEFINE x == W[1]
           V == Tail(W)
<1>8. /\ x \in Seq(Bit) /\ V \in Seq(Seq(Bit)) /\ FlattenSeq(V) \in Seq(Bit)
      /\ Len(V) = Len(W) - 1 /\ \A j \in 1..Len(V) : V[j] = W[j + 1]
      /\ buffer \o line = x \o FlattenSeq(V)
  BY <1>5, <1>7, FlattenFirst
<1>9. MessageLength(buffer \o line) = n
  BY <1>4, <1>6, JoinBegins, LengthStable
<1>10. /\ n \in Nat /\ n > 0 /\ size = Len(x)
       /\ \A k \in Registry(Material) : /\ Unpacked(x, k).got = sent[Len(got) + 1]
                                        /\ Unpacked(x, k).names \in Registry(Material)
  BY <1>2, <1>3, <1>7, <1>9, FirstIs
<1> HIDE DEF n, x, V
<1>11. SubSeq(buffer, 1, size) = x /\ rest \in Seq(Bit) /\ rest \o line = FlattenSeq(V)
  <2> DEFINE y == FlattenSeq(V)
  <2>1. /\ size \in Nat /\ size <= Len(buffer) /\ size = Len(x) /\ x \in Seq(Bit)
        /\ y \in Seq(Bit) /\ buffer \o line = x \o y /\ 0 < size
    BY <1>1, <1>8, <1>10
  <2> HIDE DEF size, y
  <2>2. SubSeq(buffer, 1, size) = x /\ SubSeq(buffer, size + 1, Len(buffer)) \o line = y
        /\ SubSeq(buffer, size + 1, Len(buffer)) \in Seq(Bit)
    <3>1. buffer \in Seq(Bit) /\ line \in Seq(Bit) /\ x \in Seq(Bit) /\ y \in Seq(Bit)
      BY <1>4, <2>1
    <3>2. size \in Nat
      BY <2>1
    <3>3. buffer \o line = x \o y /\ size = Len(x) /\ 0 < size /\ size <= Len(buffer)
      BY <2>1
    <3>4. CutAt(buffer, size, line, x, y)
      BY <3>1, <3>2, <3>3, SplitJoin
    <3>5. QED
      BY <3>4 DEF CutAt
  <2>3. QED
    BY <2>2 DEF y
<1>12. read.got = sent[Len(got) + 1] /\ read.names \in Registry(Material)
  BY <1>2, <1>10, <1>11 DEF WireTypeOK
<1> HIDE DEF read, rest
<1>13. /\ sent \in Seq(Seq(Says)) /\ got \in Seq(Seq(Says)) /\ Len(sent) = Len(got) + Len(W)
       /\ Len(W) \in Nat /\ Len(got) \in Nat /\ Len(W) > 0
  BY <1>2, <1>3, <1>5, <1>7 DEF WireTypeOK, Untaken
<1>14. Len(got) + 1 \in 1..Len(sent) /\ read.got \in Seq(Says)
  BY <1>12, <1>13
<1>15. /\ got' \in Seq(Seq(Says)) /\ Len(got') = Len(got) + 1 /\ got'[Len(got) + 1] = sent[Len(got) + 1]
       /\ \A i \in 1..Len(got) : got'[i] = got[i]
  BY <1>1, <1>12, <1>13, <1>14
<1>16. WireTypeOK'
  <2>1. names' = [sender |-> names.sender, receiver |-> read.names]
    BY <1>1, <1>2 DEF WireTypeOK
  <2>2. /\ DOMAIN names' = {"sender", "receiver"} /\ names'.sender = names.sender
        /\ names'.receiver = read.names
        /\ names' = [sender |-> names'.sender, receiver |-> names'.receiver]
    BY <2>1
  <2>3. names'.sender \in Registry(Material) /\ names'.receiver \in Registry(Material)
    BY <1>2, <1>12, <2>2 DEF WireTypeOK
  <2>4. \E bytes \in Nat : Len(line') = 8 * bytes
    BY <1>1, <1>2 DEF WireTypeOK
  <2>5. sent' \in Seq(Seq(Says)) /\ line' \in Seq(Bit) /\ buffer' \in Seq(Bit)
    BY <1>1, <1>4, <1>11, <1>13
  <2>6. QED
    BY <1>15, <2>2, <2>3, <2>4, <2>5 DEF WireTypeOK
<1>17. PICK Y : Y = V
  OBVIOUS
<1>18. Untaken(Y)'
  <2>1. Len(sent') = Len(got') + Len(Y)
    <3>1. /\ Len(sent') = Len(got) + Len(W) /\ Len(got') = Len(got) + 1 /\ Len(Y) = Len(W) - 1
          /\ Len(got) \in Nat /\ Len(W) \in Nat
      BY <1>1, <1>8, <1>13, <1>15, <1>17
    <3>2. QED
      BY <3>1
  <2>2. buffer' \o line' = FlattenSeq(Y)
    BY <1>1, <1>11, <1>17
  <2>3. ASSUME NEW j \in 1..Len(Y) PROVE Sent(Y[j], sent'[Len(got') + j])
    <3>1. j + 1 \in 1..Len(W) /\ Y[j] = W[j + 1] /\ Len(got') + j = Len(got) + (j + 1)
      <4>1. /\ Len(got') = Len(got) + 1 /\ Len(Y) = Len(W) - 1 /\ j \in 1..Len(Y)
            /\ Len(got) \in Nat /\ Len(W) \in Nat
        BY <1>8, <1>13, <1>15, <1>17
      <4>2. Y[j] = W[j + 1]
        BY <1>8, <1>17
      <4>3. QED
        BY <4>1, <4>2
    <3>2. Sent(W[j + 1], sent[Len(got) + (j + 1)])
      BY <1>3, <3>1 DEF Untaken
    <3>3. QED
      BY <1>1, <3>1, <3>2
  <2>4. QED
    BY <1>8, <1>17, <2>1, <2>2, <2>3 DEF Untaken, Sent
<1>19. \A i \in 1..Len(got') : got'[i] = sent'[i]
  <2>1. \A i \in 1..Len(got) : got[i] = sent[i]
    BY DEF WireInv
  <2>2. \A i \in 1..Len(got') : i = Len(got) + 1 \/ i \in 1..Len(got)
    BY <1>13, <1>15
  <2>3. QED
    BY <1>1, <1>15, <2>1, <2>2
<1>20. QED
  BY <1>16, <1>18, <1>19 DEF WireInv

LEMMA WireStep == WireInv /\ [Next]_vars => WireInv'
<1> SUFFICES ASSUME WireInv, [Next]_vars PROVE WireInv'
  OBVIOUS
<1>1. CASE Send
  BY <1>1, SendKeeps
<1>2. CASE Arrive
  BY <1>2, ArriveKeeps
<1>3. CASE Take
  BY <1>3, TakeKeeps
<1>4. CASE UNCHANGED vars
  <2>1. sent' = sent /\ got' = got /\ line' = line /\ buffer' = buffer /\ names' = names
    BY <1>4 DEF vars
  <2>2. WireTypeOK'
    BY <2>1 DEF WireInv, WireTypeOK
  <2>3. PICK W : Untaken(W)
    BY DEF WireInv
  <2>4. Untaken(W)'
    BY <2>1, <2>3 DEF Untaken, Sent
  <2>5. QED
    BY <2>1, <2>2, <2>4 DEF WireInv
<1>5. QED
  BY <1>1, <1>2, <1>3, <1>4 DEF Next

LEMMA WireInvReads == WireInv => ReadAsSent
<1> SUFFICES ASSUME WireInv PROVE ReadAsSent
  OBVIOUS
<1>1. WireTypeOK
  BY DEF WireInv
<1>2. PICK W : Untaken(W)
  BY DEF WireInv
<1>3. /\ sent \in Seq(Seq(Says)) /\ got \in Seq(Seq(Says)) /\ Len(sent) = Len(got) + Len(W)
      /\ W \in Seq(Seq(Bit)) /\ Len(W) \in Nat /\ Len(got) \in Nat
      /\ buffer \in Seq(Bit) /\ line \in Seq(Bit) /\ buffer \o line = FlattenSeq(W)
  BY <1>1, <1>2 DEF WireTypeOK, Untaken
<1>4. IsPrefix(got, sent)
  <2>1. Len(got) <= Len(sent) /\ \A i \in 1..Len(got) : got[i] = sent[i]
    BY <1>3 DEF WireInv
  <2>2. SubSeq(got, 1, Len(got)) = SubSeq(sent, 1, Len(got))
    BY <1>3, <2>1
  <2>3. QED
    BY <2>1, <2>2 DEF IsPrefix
<1>5. FramedExactly
  <2> SUFFICES ASSUME line = <<>>
               PROVE  IF Len(got) = Len(sent) THEN buffer = <<>>
                      ELSE MessageLength(buffer) > 0 /\ 8 * MessageLength(buffer) <= Len(buffer)
    BY DEF FramedExactly
  <2>1. buffer \o line = buffer /\ buffer = FlattenSeq(W)
    BY <1>3
  <2>2. CASE W = <<>>
    <3>1. Len(got) = Len(sent) /\ buffer = <<>>
      BY <1>3, <2>1, <2>2, FlattenEmpty
    <3>2. QED
      BY <3>1
  <2>3. CASE W # <<>>
    <3>1. Len(got) # Len(sent)
      BY <1>3, <2>3
    <3>2. /\ MessageLength(buffer) \in Nat /\ MessageLength(buffer) > 0
          /\ 8 * MessageLength(buffer) = Len(W[1])
      BY <1>1, <1>2, <2>1, <2>3, FirstIs
    <3>3. Len(W[1]) <= Len(buffer)
      <4>1. Begins(W[1], buffer)
        BY <1>3, <2>1, <2>3, FlattenFirst, JoinBegins
      <4>2. QED
        BY <4>1 DEF Begins
    <3>4. QED
      BY <3>1, <3>2, <3>3
  <2>4. QED
    BY <2>2, <2>3
<1>6. QED
  BY <1>4, <1>5 DEF ReadAsSent

(* What is unpacked is what was sent, however the bytes of the messages     *)
(* were split or run together by the reads.                                 *)
THEOREM WireReadsAsSent == Spec => []ReadAsSent
<1>1. Init => WireInv
  BY WireInit
<1>2. WireInv /\ [Next]_vars => WireInv'
  BY WireStep
<1>3. WireInv => ReadAsSent
  BY WireInvReads
<1>4. QED
  BY <1>1, <1>2, <1>3, PTL DEF Spec

(* Bits that arrive later do not change a length that was found.            *)
THEOREM WireLengthIsStable == Spec => LengthIsStable
<1>1. Init => WireInv
  BY WireInit
<1>2. WireInv /\ [Next]_vars => WireInv'
  BY WireStep
<1>3. WireInv /\ WireInv'
        => [MessageLength(buffer) # 0 /\ IsPrefix(buffer, buffer')
              => MessageLength(buffer') = MessageLength(buffer)]_vars
  <2> SUFFICES ASSUME WireInv, WireInv', MessageLength(buffer) # 0, IsPrefix(buffer, buffer')
               PROVE  MessageLength(buffer') = MessageLength(buffer)
    OBVIOUS
  <2>1. buffer \in Seq(Bit) /\ buffer' \in Seq(Bit)
    BY DEF WireInv, WireTypeOK
  <2>2. Begins(buffer, buffer')
    <3>1. Len(buffer) <= Len(buffer') /\ SubSeq(buffer, 1, Len(buffer)) = SubSeq(buffer', 1, Len(buffer))
      BY DEF IsPrefix
    <3>2. \A i \in 1..Len(buffer) : SubSeq(buffer, 1, Len(buffer))[i] = buffer[i]
                                    /\ SubSeq(buffer', 1, Len(buffer))[i] = buffer'[i]
      BY <2>1, <3>1
    <3>3. QED
      BY <2>1, <3>1, <3>2 DEF Begins
  <2>3. QED
    BY <2>2, LengthStable
<1>4. QED
  BY <1>1, <1>2, <1>3, PTL DEF Spec, LengthIsStable
=============================================================================
