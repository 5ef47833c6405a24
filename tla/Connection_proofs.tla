-------------------------- MODULE Connection_proofs --------------------------
(***************************************************************************)
(* Proofs about Connection, for any kinds of messages of any length, any   *)
(* number of calls and of connections: its types, that both ends keep      *)
(* their place in the streams, and that it implements Exchange.            *)
(***************************************************************************)
EXTENDS Connection, SequenceTheorems, TLAPS

(* A stream of pieces s in which each message n, of size[n] pieces, stands  *)
(* in one place, from its first piece on: the message of the piece at p     *)
(* fills the places after p - s[p].i, as far as the stream goes.            *)
Framed(s, size) ==
  \A p \in DOMAIN s :
    /\ s[p].of \in DOMAIN size /\ s[p].i \in 1..size[s[p].of] /\ s[p].i <= p
    /\ \A q \in DOMAIN s :
         IF p - s[p].i < q /\ q <= p - s[p].i + size[s[p].of]
         THEN s[q].of = s[p].of /\ s[q].i = q - (p - s[p].i)
         ELSE s[q].of # s[p].of

(* None of its messages is cut short.                                       *)
Complete(s, size) == \A p \in DOMAIN s : p - s[p].i + size[s[p].of] <= Len(s)

(* What a sequence of pieces holds, and the rest of it after n of them.     *)
LEMMA PieceTypes ==
  ASSUME NEW s \in Seq(Piece)
  PROVE  /\ Len(s) \in Nat /\ DOMAIN s = 1..Len(s)
         /\ \A p \in DOMAIN s : /\ s[p] \in Piece /\ s[p].of \in Call /\ s[p].i \in Nat
                                /\ p \in Nat /\ p >= 1 /\ p <= Len(s)
         /\ s # <<>> => 1 \in DOMAIN s /\ Len(s) > 0
         /\ Len(s) > 0 => s # <<>>
<1>1. Len(s) \in Nat /\ DOMAIN s = 1..Len(s)
  BY LenProperties
<1>2. \A p \in DOMAIN s : s[p] \in Piece
  BY <1>1, ElementOfSeq
<1>3. \A e \in Piece : e.of \in Call /\ e.i \in Nat
  BY DEF Piece
<1>4. s # <<>> => Len(s) > 0
  BY EmptySeq
<1>5. Len(s) > 0 => s # <<>>
  BY EmptySeq
<1>6. QED
  BY <1>1, <1>2, <1>3, <1>4, <1>5

LEMMA AfterProperties ==
  ASSUME NEW s \in Seq(Piece), NEW n \in 0..Len(s)
  PROVE  /\ After(s, n) \in Seq(Piece) /\ Len(After(s, n)) = Len(s) - n
         /\ \A p \in 1..Len(s) - n : After(s, n)[p] = s[p + n]
<1>1. Len(s) \in Nat /\ n + 1 \in Int /\ \A i \in n + 1..Len(s) : s[i] \in Piece
  BY PieceTypes
<1>2. /\ SubSeq(s, n + 1, Len(s)) \in Seq(Piece)
      /\ Len(SubSeq(s, n + 1, Len(s))) = IF n + 1 <= Len(s) THEN Len(s) - (n + 1) + 1 ELSE 0
      /\ \A i \in 1..Len(s) - (n + 1) + 1 : SubSeq(s, n + 1, Len(s))[i] = s[(n + 1) + i - 1]
  BY <1>1, SubSeqProperties
<1>3. QED
  BY <1>1, <1>2 DEF After

LEMMA FramedPrefix ==
  ASSUME NEW s \in Seq(Piece), NEW size, Framed(s, size), NEW n \in 0..Len(s)
  PROVE  SubSeq(s, 1, n) \in Seq(Piece) /\ Framed(SubSeq(s, 1, n), size)
<1> DEFINE t == SubSeq(s, 1, n)
<1>1. t \in Seq(Piece) /\ Len(t) = n /\ \A p \in 1..n : t[p] = s[p]
  OBVIOUS
<1> HIDE DEF t
<1>2. \A p \in DOMAIN t : p \in DOMAIN s /\ t[p] = s[p]
  BY <1>1
<1>3. Framed(t, size)
  BY <1>2 DEF Framed
<1>4. QED
  BY <1>1, <1>3 DEF t

LEMMA FramedExtend ==
  ASSUME NEW s \in Seq(Piece), NEW size, NEW more, Framed(s, size),
         \A n \in DOMAIN size : n \in DOMAIN more /\ more[n] = size[n]
  PROVE  Framed(s, more) /\ (Complete(s, size) => Complete(s, more))
  BY DEF Framed, Complete

(* A message that is new is added at the end of whole ones.                 *)
LEMMA FramedAppend ==
  ASSUME NEW s \in Seq(Piece), NEW size, Framed(s, size), Complete(s, size),
         NEW n \in Call, NEW long \in Nat \ {0},
         \A m \in DOMAIN size : size[m] \in Nat,
         \A p \in DOMAIN s : s[p].of # n,
         n \in DOMAIN size, size[n] = long
  PROVE  /\ s \o Pieces(n, long) \in Seq(Piece)
         /\ Framed(s \o Pieces(n, long), size) /\ Complete(s \o Pieces(n, long), size)
         /\ Len(s \o Pieces(n, long)) = Len(s) + long
         /\ \A p \in DOMAIN (s \o Pieces(n, long)) :
              IF p <= Len(s) THEN p \in DOMAIN s /\ (s \o Pieces(n, long))[p] = s[p]
              ELSE (s \o Pieces(n, long))[p] = [of |-> n, i |-> p - Len(s)]
<1> DEFINE a == Pieces(n, long)
           t == s \o a
<1>1. a \in Seq(Piece) /\ Len(a) = long /\ \A i \in 1..long : a[i] = [of |-> n, i |-> i]
  BY DEF Pieces, Piece
<1> HIDE DEF a
<1>2. /\ t \in Seq(Piece) /\ Len(t) = Len(s) + long /\ Len(s) \in Nat
      /\ \A p \in 1..Len(s) : t[p] = s[p]
      /\ \A p \in Len(s) + 1..Len(s) + long : t[p] = a[p - Len(s)]
  <2>1. /\ t \in Seq(Piece) /\ Len(t) = Len(s) + Len(a)
        /\ \A p \in 1..Len(s) + Len(a) : t[p] = IF p <= Len(s) THEN s[p] ELSE a[p - Len(s)]
    BY <1>1, ConcatProperties
  <2>2. Len(s) \in Nat
    BY PieceTypes
  <2> HIDE DEF t
  <2>3. QED
    BY <1>1, <2>1, <2>2
<1> HIDE DEF t
<1>3. \A p \in DOMAIN t : IF p <= Len(s) THEN p \in DOMAIN s /\ t[p] = s[p]
                          ELSE t[p] = [of |-> n, i |-> p - Len(s)] /\ p - Len(s) \in 1..long
  BY <1>1, <1>2
<1>4. /\ DOMAIN t = 1..Len(t) /\ DOMAIN s = 1..Len(s)
      /\ \A p \in DOMAIN s : s[p].i \in Nat
  BY <1>2, PieceTypes
<1>5. Complete(t, size)
  <2>1. SUFFICES ASSUME NEW p \in DOMAIN t PROVE p - t[p].i + size[t[p].of] <= Len(t)
    BY DEF Complete
  <2>2. CASE p <= Len(s)
    <3>1. p \in DOMAIN s /\ t[p] = s[p]
      BY <1>3, <2>2
    <3>2. s[p].i \in Nat /\ size[s[p].of] \in Nat
      BY <1>4, <3>1 DEF Framed
    <3>3. p - s[p].i + size[s[p].of] <= Len(s)
      BY <3>1 DEF Complete
    <3>4. QED
      BY <1>2, <1>4, <3>1, <3>2, <3>3
  <2>3. CASE ~(p <= Len(s))
    BY <1>2, <1>3, <1>4, <2>3
  <2>4. QED
    BY <2>2, <2>3
<1>6. Framed(t, size)
  <2>1. SUFFICES ASSUME NEW p \in DOMAIN t, NEW q \in DOMAIN t
                 PROVE  /\ t[p].of \in DOMAIN size /\ t[p].i \in 1..size[t[p].of] /\ t[p].i <= p
                        /\ IF p - t[p].i < q /\ q <= p - t[p].i + size[t[p].of]
                           THEN t[q].of = t[p].of /\ t[q].i = q - (p - t[p].i)
                           ELSE t[q].of # t[p].of
    BY DEF Framed
  <2>2. CASE p <= Len(s)
    <3>1. p \in DOMAIN s /\ t[p] = s[p] /\ p \in Nat /\ q \in Nat
      BY <1>3, <1>4, <2>2
    <3>2. /\ s[p].of \in DOMAIN size /\ s[p].i \in 1..size[s[p].of] /\ s[p].i <= p
          /\ s[p].of # n /\ size[s[p].of] \in Nat
          /\ p - s[p].i + size[s[p].of] <= Len(s)
      BY <3>1 DEF Framed, Complete
    <3>3. CASE q <= Len(s)
      <4>1. q \in DOMAIN s /\ t[q] = s[q]
        BY <1>3, <3>3
      <4>2. IF p - s[p].i < q /\ q <= p - s[p].i + size[s[p].of]
            THEN s[q].of = s[p].of /\ s[q].i = q - (p - s[p].i)
            ELSE s[q].of # s[p].of
        BY <3>1, <4>1 DEF Framed
      <4>3. QED
        BY <3>1, <3>2, <4>1, <4>2
    <3>4. CASE ~(q <= Len(s))
      <4>1. t[q].of = n
        BY <1>3, <3>4
      <4>2. QED
        BY <1>2, <3>1, <3>2, <3>4, <4>1
    <3>5. QED
      BY <3>3, <3>4
  <2>3. CASE ~(p <= Len(s))
    <3>1. t[p] = [of |-> n, i |-> p - Len(s)] /\ p - Len(s) \in 1..long /\ p \in Nat /\ q \in Nat
      BY <1>3, <1>4, <2>3
    <3>2. CASE q <= Len(s)
      <4>1. t[q].of # n
        BY <1>3, <3>2
      <4>2. QED
        BY <1>2, <3>1, <3>2, <4>1
    <3>3. CASE ~(q <= Len(s))
      <4>1. t[q] = [of |-> n, i |-> q - Len(s)] /\ q - Len(s) \in 1..long
        BY <1>3, <3>3
      <4>2. QED
        BY <1>2, <3>1, <4>1
    <3>4. QED
      BY <3>2, <3>3
  <2>4. QED
    BY <2>2, <2>3
<1>7. QED
  BY <1>2, <1>3, <1>5, <1>6 DEF t, a

(* The first message is taken from the front.                               *)
LEMMA FramedAfter ==
  ASSUME NEW s \in Seq(Piece), NEW size, Framed(s, size),
         \A m \in DOMAIN size : size[m] \in Nat,
         s # <<>>, Len(s) >= size[s[1].of]
  PROVE  LET t == After(s, size[s[1].of])
         IN  /\ t \in Seq(Piece) /\ Framed(t, size)
             /\ Complete(s, size) => Complete(t, size)
             /\ \A p \in DOMAIN t : /\ p + size[s[1].of] \in DOMAIN s
                                    /\ t[p] = s[p + size[s[1].of]] /\ t[p].of # s[1].of
             /\ size[s[1].of] > 0 /\ s[1].of \in DOMAIN size /\ s[1].i = 1
<1> DEFINE z == size[s[1].of]
           t == After(s, z)
<1>1. /\ 1 \in DOMAIN s /\ Len(s) \in Nat /\ DOMAIN s = 1..Len(s)
      /\ \A p \in DOMAIN s : s[p].i \in Nat /\ p \in Nat
  BY PieceTypes
<1>2. s[1].of \in DOMAIN size /\ s[1].i = 1 /\ z \in Nat /\ z > 0 /\ z <= Len(s)
  <2>1. s[1].of \in DOMAIN size /\ s[1].i \in 1..z /\ s[1].i <= 1
    BY <1>1 DEF Framed
  <2>2. z \in Nat
    BY <2>1
  <2>3. QED
    BY <2>1, <2>2
<1>3. \A q \in DOMAIN s : IF q <= z THEN s[q].of = s[1].of ELSE s[q].of # s[1].of
  <2>1. SUFFICES ASSUME NEW q \in DOMAIN s
                 PROVE  IF q <= z THEN s[q].of = s[1].of ELSE s[q].of # s[1].of
    OBVIOUS
  <2>2. IF 1 - s[1].i < q /\ q <= 1 - s[1].i + z
        THEN s[q].of = s[1].of ELSE s[q].of # s[1].of
    BY <1>1 DEF Framed
  <2>3. 1 - s[1].i < q /\ (q <= 1 - s[1].i + z <=> q <= z)
    BY <1>1, <1>2
  <2>4. QED
    BY <2>2, <2>3
<1> HIDE DEF z
<1>4. /\ t \in Seq(Piece) /\ Len(t) = Len(s) - z
      /\ \A p \in 1..Len(s) - z : t[p] = s[p + z]
  <2>1. z \in 0..Len(s)
    BY <1>1, <1>2
  <2>2. QED
    BY <2>1, AfterProperties
<1> HIDE DEF t
<1>5. /\ DOMAIN t = 1..Len(t)
      /\ \A p \in DOMAIN t : /\ p \in Nat /\ p > 0
                             /\ p + z \in DOMAIN s /\ t[p] = s[p + z] /\ s[p + z].i \in Nat
  <2>1. DOMAIN t = 1..Len(t)
    BY <1>4, PieceTypes
  <2>2. QED
    BY <1>1, <1>2, <1>4, <2>1
<1>6. \A p \in DOMAIN t : t[p].of # s[1].of
  BY <1>2, <1>3, <1>5
<1>7. Framed(t, size)
  <2>1. SUFFICES ASSUME NEW p \in DOMAIN t, NEW q \in DOMAIN t
                 PROVE  /\ t[p].of \in DOMAIN size /\ t[p].i \in 1..size[t[p].of] /\ t[p].i <= p
                        /\ IF p - t[p].i < q /\ q <= p - t[p].i + size[t[p].of]
                           THEN t[q].of = t[p].of /\ t[q].i = q - (p - t[p].i)
                           ELSE t[q].of # t[p].of
    BY DEF Framed
  <2> DEFINE i == t[p].i
             o == t[p].of
             y == size[o]
  <2>2. /\ p + z \in DOMAIN s /\ p \in Nat /\ p > 0 /\ i \in Nat
        /\ q + z \in DOMAIN s /\ q \in Nat /\ q > 0 /\ z \in DOMAIN s
        /\ s[p + z].of = o /\ s[p + z].i = i /\ t[q] = s[q + z]
    BY <1>1, <1>2, <1>5
  <2>3. o \in DOMAIN size /\ i \in 1..y /\ y \in Nat /\ i <= p + z
    <3>1. o \in DOMAIN size /\ i \in 1..y /\ i <= p + z
      BY <2>2 DEF Framed
    <3>2. QED
      BY <3>1
  <2>4. IF (p + z) - i < q + z /\ q + z <= (p + z) - i + y
        THEN t[q].of = o /\ t[q].i = (q + z) - ((p + z) - i)
        ELSE t[q].of # o
    <3> HIDE DEF i, o
    <3>1. \A r \in DOMAIN s :
            IF (p + z) - s[p + z].i < r /\ r <= (p + z) - s[p + z].i + size[s[p + z].of]
            THEN s[r].of = s[p + z].of /\ s[r].i = r - ((p + z) - s[p + z].i)
            ELSE s[r].of # s[p + z].of
      BY <2>2 DEF Framed
    <3>2. \A r \in DOMAIN s :
            IF (p + z) - i < r /\ r <= (p + z) - i + y
            THEN s[r].of = o /\ s[r].i = r - ((p + z) - i) ELSE s[r].of # o
      BY <2>2, <3>1
    <3>3. QED
      BY <2>2, <3>2
  <2>5. IF (p + z) - i < z /\ z <= (p + z) - i + y THEN s[z].of = o ELSE s[z].of # o
    <3> HIDE DEF i, o
    <3>1. \A r \in DOMAIN s :
            IF (p + z) - s[p + z].i < r /\ r <= (p + z) - s[p + z].i + size[s[p + z].of]
            THEN s[r].of = s[p + z].of ELSE s[r].of # s[p + z].of
      BY <2>2 DEF Framed
    <3>2. QED
      BY <2>2, <3>1
  <2>6. s[z].of # o
    BY <1>2, <1>3, <1>6, <2>2
  <2> HIDE DEF i, o, y
  <2>a. p \in Nat /\ p > 0 /\ q \in Nat /\ z \in Nat /\ i \in Nat /\ y \in Nat /\ i <= y
    BY <1>2, <2>2, <2>3
  <2>7. i <= p
    <3>1. ~((p + z) - i < z /\ z <= (p + z) - i + y)
      BY <2>5, <2>6
    <3>2. QED
      BY <2>a, <3>1
  <2>8. IF p - i < q /\ q <= p - i + y
        THEN t[q].of = o /\ t[q].i = q - (p - i) ELSE t[q].of # o
    <3>1. /\ (p + z) - i < q + z <=> p - i < q
          /\ q + z <= (p + z) - i + y <=> q <= p - i + y
          /\ (q + z) - ((p + z) - i) = q - (p - i)
      BY <2>a
    <3>2. QED
      BY <2>4, <3>1
  <2>9. QED
    BY <2>3, <2>7, <2>8 DEF i, o, y
<1>8. ASSUME Complete(s, size) PROVE Complete(t, size)
  <2>1. SUFFICES ASSUME NEW p \in DOMAIN t PROVE p - t[p].i + size[t[p].of] <= Len(t)
    BY DEF Complete
  <2> DEFINE i == t[p].i
             y == size[t[p].of]
  <2>2. p \in Nat /\ i \in Nat
    BY <1>5
  <2>3. y \in Nat
    BY <1>7 DEF Framed
  <2>4. (p + z) - i + y <= Len(s)
    BY <1>5, <1>8 DEF Complete
  <2> HIDE DEF i, y
  <2>5. p - i + y <= Len(t)
    BY <1>1, <1>2, <1>4, <2>2, <2>3, <2>4
  <2>6. QED
    BY <2>5 DEF i, y
<1>9. QED
  BY <1>2, <1>4, <1>5, <1>6, <1>7, <1>8 DEF t, z
-----------------------------------------------------------------------------
(* The messages a stream holds pieces of.                                   *)
Messages(s) == {s[p].of : p \in DOMAIN s}

(* How a stream changes: it is cut, a message is added, one is taken.       *)
LEMMA PrefixMessages ==
  ASSUME NEW s \in Seq(Piece), NEW n \in 0..Len(s)
  PROVE  Messages(SubSeq(s, 1, n)) \subseteq Messages(s)
<1> DEFINE t == SubSeq(s, 1, n)
<1>1. DOMAIN t = 1..n /\ (\A p \in 1..n : t[p] = s[p]) /\ DOMAIN s = 1..Len(s) /\ Len(s) \in Nat
  BY PieceTypes
<1> HIDE DEF t
<1>2. \A p \in DOMAIN t : p \in DOMAIN s /\ t[p] = s[p]
  BY <1>1
<1>3. Messages(t) \subseteq Messages(s)
  BY <1>2 DEF Messages
<1>4. QED
  BY <1>3 DEF t

LEMMA AppendMessages ==
  ASSUME NEW s \in Seq(Piece), NEW n \in Call, NEW long \in Nat \ {0}
  PROVE  Messages(s \o Pieces(n, long)) \subseteq Messages(s) \cup {n}
<1> DEFINE a == Pieces(n, long)
           t == s \o a
<1>1. a \in Seq(Piece) /\ Len(a) = long /\ \A i \in 1..long : a[i].of = n
  BY DEF Pieces, Piece
<1> HIDE DEF a
<1>2. /\ t \in Seq(Piece) /\ Len(t) = Len(s) + Len(a)
      /\ \A p \in 1..Len(s) + Len(a) : t[p] = IF p <= Len(s) THEN s[p] ELSE a[p - Len(s)]
  BY <1>1, ConcatProperties
<1> HIDE DEF t
<1>3. Len(s) \in Nat /\ DOMAIN s = 1..Len(s) /\ DOMAIN t = 1..Len(t)
  BY <1>2, PieceTypes
<1>4. ASSUME NEW p \in DOMAIN t PROVE t[p].of = n \/ (p \in DOMAIN s /\ t[p] = s[p])
  <2>1. p \in Nat /\ p > 0 /\ p <= Len(s) + long /\ long \in Nat
    BY <1>1, <1>2, <1>3
  <2>2. CASE p <= Len(s)
    BY <1>1, <1>2, <1>3, <2>1, <2>2
  <2>3. CASE ~(p <= Len(s))
    <3>1. t[p] = a[p - Len(s)]
      BY <1>1, <1>2, <1>3, <2>1, <2>3
    <3>2. p - Len(s) \in 1..long
      BY <1>3, <2>1, <2>3
    <3>3. QED
      BY <1>1, <3>1, <3>2
  <2>4. QED
    BY <2>2, <2>3
<1>5. Messages(t) \subseteq Messages(s) \cup {n}
  BY <1>4 DEF Messages
<1>6. QED
  BY <1>5 DEF t, a

LEMMA AfterMessages ==
  ASSUME NEW s \in Seq(Piece), NEW size, Framed(s, size),
         \A m \in DOMAIN size : size[m] \in Nat,
         s # <<>>, Len(s) >= size[s[1].of]
  PROVE  Messages(After(s, size[s[1].of])) \subseteq Messages(s) \ {s[1].of}
<1> DEFINE t == After(s, size[s[1].of])
<1>1. \A p \in DOMAIN t : \E q \in DOMAIN s : t[p] = s[q] /\ t[p].of # s[1].of
  <2>1. \A p \in DOMAIN t : /\ p + size[s[1].of] \in DOMAIN s
                            /\ t[p] = s[p + size[s[1].of]] /\ t[p].of # s[1].of
    BY FramedAfter
  <2>2. QED
    BY <2>1
<1> HIDE DEF t
<1>2. Messages(t) \subseteq Messages(s) \ {s[1].of}
  BY <1>1 DEF Messages
<1>3. QED
  BY <1>2 DEF t

LEMMA HeadMessage ==
  ASSUME NEW s \in Seq(Piece), s # <<>>
  PROVE  s[1].of \in Messages(s)
BY PieceTypes DEF Messages

LEMMA NoMessages ==
  ASSUME NEW s \in Seq(Piece), Messages(s) = {}
  PROVE  s = <<>>
BY PieceTypes DEF Messages

(* A connection's bytes are what the server has buffered and what is under  *)
(* way: reading moves the border between the two and no more.               *)
LEMMA PendingRead ==
  ASSUME NEW b \in Seq(Piece), NEW x \in Seq(Piece), NEW n \in 1..Len(x)
  PROVE  /\ b \o SubSeq(x, 1, n) \in Seq(Piece) /\ After(x, n) \in Seq(Piece)
         /\ (b \o SubSeq(x, 1, n)) \o After(x, n) = b \o x
<1>1. Len(x) \in Nat /\ \A i \in 1..Len(x) : x[i] \in Piece
  BY PieceTypes
<1>2. SubSeq(x, 1, n) \in Seq(Piece)
  OBVIOUS
<1>3. After(x, n) \in Seq(Piece)
  BY <1>1, AfterProperties
<1>4. SubSeq(x, 1, n) \o After(x, n) = x
  <2>1. 1 \in 1..Len(x) + 1 /\ n \in 0..Len(x) /\ Len(x) \in n..Len(x)
    BY <1>1
  <2>2. n \in 1 - 1..Len(x)
    BY <2>1
  <2>3. SubSeq(x, 1, n) \o SubSeq(x, n + 1, Len(x)) = SubSeq(x, 1, Len(x))
    BY <2>1, <2>2, ConcatAdjacentSubSeq
  <2>4. QED
    BY <2>3, SubSeqFull DEF After
<1>5. (b \o SubSeq(x, 1, n)) \o After(x, n) = b \o (SubSeq(x, 1, n) \o After(x, n))
  BY <1>2, <1>3, ConcatAssociative
<1>6. b \o SubSeq(x, 1, n) \in Seq(Piece)
  BY <1>2
<1>7. QED
  BY <1>3, <1>4, <1>5, <1>6

LEMMA PendingSend ==
  ASSUME NEW b \in Seq(Piece), NEW x \in Seq(Piece), NEW a \in Seq(Piece)
  PROVE  b \o (x \o a) = (b \o x) \o a
BY ConcatAssociative

LEMMA PendingLost ==
  ASSUME NEW b \in Seq(Piece), NEW x \in Seq(Piece), NEW w \in Prefixes(x)
  PROVE  w \in Seq(Piece) /\ \E n \in 0..Len(b \o x) : b \o w = SubSeq(b \o x, 1, n)
<1>1. PICK n \in 0..Len(x) : w = SubSeq(x, 1, n)
  BY DEF Prefixes
<1>2. /\ Len(b) \in Nat /\ Len(x) \in Nat
      /\ \A i \in 1..Len(b) : b[i] \in Piece
  BY PieceTypes
<1>3. w \in Seq(Piece) /\ Len(w) = n /\ \A i \in 1..n : w[i] = x[i]
  BY <1>1, <1>2
<1> DEFINE bx == b \o x
           bw == b \o w
           s == SubSeq(bx, 1, Len(b) + n)
<1>4. /\ bx \in Seq(Piece) /\ Len(bx) = Len(b) + Len(x)
      /\ \A i \in 1..Len(b) + Len(x) : bx[i] = IF i <= Len(b) THEN b[i] ELSE x[i - Len(b)]
  BY ConcatProperties
<1>5. /\ bw \in Seq(Piece) /\ Len(bw) = Len(b) + Len(w)
      /\ \A i \in 1..Len(b) + Len(w) : bw[i] = IF i <= Len(b) THEN b[i] ELSE w[i - Len(b)]
  BY <1>3, ConcatProperties
<1> HIDE DEF bx, bw
<1>6. /\ s \in Seq(Piece) /\ Len(s) = Len(b) + n
      /\ \A i \in 1..Len(b) + n : s[i] = bx[i]
  BY <1>2, <1>4
<1> HIDE DEF s
<1>7. ASSUME NEW i \in 1..Len(bw) PROVE bw[i] = s[i]
  <2>1. i \in Nat /\ i > 0 /\ i <= Len(b) + n /\ n \in Nat /\ n <= Len(x)
    BY <1>2, <1>3, <1>5
  <2>2. s[i] = bx[i]
    BY <1>2, <1>6, <2>1
  <2>3. bx[i] = IF i <= Len(b) THEN b[i] ELSE x[i - Len(b)]
    BY <1>2, <1>4, <2>1
  <2>4. bw[i] = IF i <= Len(b) THEN b[i] ELSE w[i - Len(b)]
    BY <1>2, <1>3, <1>5, <2>1
  <2>5. ~(i <= Len(b)) => w[i - Len(b)] = x[i - Len(b)]
    BY <1>2, <1>3, <2>1
  <2>6. QED
    BY <2>2, <2>3, <2>4, <2>5
<1>8. bw = s
  BY <1>3, <1>5, <1>6, <1>7, SeqEqual
<1>9. Len(b) + n \in 0..Len(bx)
  BY <1>2, <1>4
<1>10. QED
  BY <1>3, <1>8, <1>9 DEF bw, bx, s

LEMMA PendingAfter ==
  ASSUME NEW b \in Seq(Piece), NEW x \in Seq(Piece), b # <<>>, NEW n \in 0..Len(b)
  PROVE  /\ After(b, n) \in Seq(Piece)
         /\ After(b, n) \o x = After(b \o x, n)
         /\ b \o x \in Seq(Piece) /\ b \o x # <<>> /\ (b \o x)[1] = b[1] /\ n <= Len(b \o x)
<1> DEFINE bx == b \o x
           ax == After(b, n) \o x
           s == After(bx, n)
<1>1. Len(b) \in Nat /\ Len(x) \in Nat /\ Len(b) > 0
  BY PieceTypes
<1>2. /\ After(b, n) \in Seq(Piece) /\ Len(After(b, n)) = Len(b) - n
      /\ \A p \in 1..Len(b) - n : After(b, n)[p] = b[p + n]
  BY AfterProperties
<1>3. /\ bx \in Seq(Piece) /\ Len(bx) = Len(b) + Len(x)
      /\ \A i \in 1..Len(b) + Len(x) : bx[i] = IF i <= Len(b) THEN b[i] ELSE x[i - Len(b)]
  BY ConcatProperties
<1>4. /\ ax \in Seq(Piece) /\ Len(ax) = Len(After(b, n)) + Len(x)
      /\ \A i \in 1..Len(After(b, n)) + Len(x) :
           ax[i] = IF i <= Len(After(b, n)) THEN After(b, n)[i] ELSE x[i - Len(After(b, n))]
  BY <1>2, ConcatProperties
<1> HIDE DEF bx, ax
<1>5. n \in 0..Len(bx)
  BY <1>1, <1>3
<1>6. /\ s \in Seq(Piece) /\ Len(s) = Len(bx) - n
      /\ \A p \in 1..Len(bx) - n : s[p] = bx[p + n]
  BY <1>3, <1>5, AfterProperties
<1> HIDE DEF s
<1>7. Len(ax) = Len(s)
  BY <1>1, <1>2, <1>3, <1>4, <1>6
<1>8. ASSUME NEW i \in 1..Len(ax) PROVE ax[i] = s[i]
  <2>1. i \in Nat /\ i > 0 /\ i <= Len(b) - n + Len(x) /\ n \in Nat
    BY <1>1, <1>2, <1>4
  <2>2. s[i] = bx[i + n]
    BY <1>1, <1>3, <1>6, <2>1
  <2>3. CASE i <= Len(b) - n
    BY <1>1, <1>2, <1>3, <1>4, <2>1, <2>2, <2>3
  <2>4. CASE ~(i <= Len(b) - n)
    <3>1. ax[i] = x[i - (Len(b) - n)]
      BY <1>1, <1>2, <1>4, <2>1, <2>4
    <3>2. bx[i + n] = x[(i + n) - Len(b)]
      BY <1>1, <1>3, <2>1, <2>4
    <3>3. (i + n) - Len(b) = i - (Len(b) - n)
      BY <1>1, <2>1
    <3>4. QED
      BY <2>2, <3>1, <3>2, <3>3
  <2>5. QED
    BY <2>3, <2>4
<1>9. ax = s
  BY <1>4, <1>6, <1>7, <1>8, SeqEqual
<1>10. bx # <<>> /\ bx[1] = b[1] /\ n <= Len(bx)
  BY <1>1, <1>3, <1>5, PieceTypes
<1>11. QED
  BY <1>2, <1>3, <1>9, <1>10 DEF ax, s, bx
-----------------------------------------------------------------------------
(* The requests sent so far, and their lengths.                             *)
Sent == IF call = "sending" THEN Number - 1 ELSE Number
Size == [n \in 1..Number |-> AskSize[asked[n]]]

(* What a connection holds for its thread, which has not closed it.         *)
Live(k) == thread[k] # "closed"
Pending(k) == buffer[k] \o toServer[k]

(* It is a sequence of requests that were sent, and the last one may be cut *)
(* short only when the client has lost the connection or left it.           *)
Stream(k) ==
  /\ Framed(Pending(k), Size)
  /\ link[k] = "open" => Complete(Pending(k), Size)
  /\ Messages(Pending(k)) \subseteq 1..Sent

Unused(k) ==
  k > socket => /\ link[k] = "none" /\ thread[k] = "none"
                /\ toServer[k] = <<>> /\ toClient[k] = <<>>
Emptied(k) == thread[k] \in {"none", "closed"} => buffer[k] = <<>>
Answering(k) ==
  thread[k] = "answering" => WholeAsk(k) /\ buffer[k][1].of \in ToSet(handled)

(* Only answers to requests the server acted on are under way, or read.     *)
Answered ==
  /\ Messages(rx) \subseteq ToSet(handled)
  /\ \A k \in Socket : Messages(toClient[k]) \subseteq ToSet(handled)

(* The client waits for an answer on a connection.                          *)
Joined == call = "receiving" => connected

StreamInv ==
  /\ TypeOK /\ Answered /\ Joined
  /\ \A k \in Socket : Unused(k) /\ Emptied(k) /\ Answering(k)
  /\ \A k \in Socket : Live(k) => Stream(k)

LEMMA Sizes ==
  ASSUME TypeOK
  PROVE  /\ Number \in Nat /\ Number <= MaxCalls /\ 1..Number \subseteq Call /\ MaxCalls \in Nat
         /\ \A n \in 1..Number : /\ asked[n] \in Kind
                                 /\ AskSize[asked[n]] \in Nat \ {0}
                                 /\ AnswerSize[asked[n]] \in Nat \ {0}
         /\ DOMAIN Size = 1..Number /\ \A n \in 1..Number : Size[n] = AskSize[asked[n]]
         /\ \A m \in DOMAIN Size : Size[m] \in Nat
<1>1. asked \in Seq(Kind) /\ Number <= MaxCalls /\ MaxCalls \in Nat
  BY ConnectionAssumption DEF TypeOK
<1>2. Number \in Nat
  BY <1>1, LenProperties DEF Number
<1>3. 1..Number \subseteq Call
  BY <1>1, <1>2 DEF Call
<1>4. \A n \in 1..Number : asked[n] \in Kind
  BY <1>1, ElementOfSeq DEF Number
<1>5. \A n \in 1..Number : AskSize[asked[n]] \in Nat \ {0} /\ AnswerSize[asked[n]] \in Nat \ {0}
  BY <1>4, ConnectionAssumption
<1>6. DOMAIN Size = 1..Number /\ \A n \in 1..Number : Size[n] = AskSize[asked[n]]
  BY DEF Size
<1>7. QED
  BY <1>1, <1>2, <1>3, <1>4, <1>5, <1>6

LEMMA PendingType ==
  ASSUME TypeOK, NEW k \in Socket
  PROVE  /\ buffer[k] \in Seq(Piece) /\ toServer[k] \in Seq(Piece) /\ toClient[k] \in Seq(Piece)
         /\ Pending(k) \in Seq(Piece)
<1>1. buffer[k] \in Seq(Piece) /\ toServer[k] \in Seq(Piece) /\ toClient[k] \in Seq(Piece)
  BY DEF TypeOK
<1>2. Pending(k) \in Seq(Piece)
  BY <1>1, ConcatProperties DEF Pending
<1>3. QED
  BY <1>1, <1>2

(* The request at the head of a buffer.                                     *)
LEMMA HeadOfBuffer ==
  ASSUME StreamInv, NEW k \in Socket, buffer[k] # <<>>
  PROVE  /\ Live(k) /\ thread[k] # "none"
         /\ buffer[k][1].i = 1 /\ buffer[k][1].of \in 1..Sent
         /\ buffer[k][1].of \in 1..Number /\ buffer[k][1].of \in Messages(Pending(k))
         /\ Size[buffer[k][1].of] = AskSize[Asking(k)] /\ AskSize[Asking(k)] \in Nat \ {0}
         /\ Pending(k) # <<>> /\ Pending(k)[1] = buffer[k][1]
<1>1. TypeOK /\ thread[k] \notin {"none", "closed"} /\ Live(k)
  BY DEF StreamInv, Emptied, Live
<1>2. buffer[k] \in Seq(Piece) /\ toServer[k] \in Seq(Piece) /\ Pending(k) \in Seq(Piece)
  BY <1>1, PendingType
<1>3. 0 \in 0..Len(buffer[k])
  BY <1>2, PieceTypes
<1>4. Pending(k) # <<>> /\ Pending(k)[1] = buffer[k][1]
  BY <1>2, <1>3, PendingAfter DEF Pending
<1>5. buffer[k][1].of \in Messages(Pending(k))
  BY <1>2, <1>4, HeadMessage
<1>6. Stream(k)
  BY <1>1 DEF StreamInv
<1>7. buffer[k][1].of \in 1..Sent
  BY <1>5, <1>6 DEF Stream
<1>8. 1..Sent \subseteq 1..Number
  BY <1>1, Sizes DEF Sent
<1>9. buffer[k][1].i = 1
  <2>1. 1 \in DOMAIN Pending(k) /\ Pending(k)[1].i \in Nat
    BY <1>2, <1>4, PieceTypes
  <2>2. /\ Pending(k)[1].i \in 1..Size[Pending(k)[1].of] /\ Pending(k)[1].i <= 1
        /\ Pending(k)[1].of \in DOMAIN Size
    BY <1>6, <2>1 DEF Stream, Framed
  <2>3. QED
    BY <1>1, <1>4, <2>1, <2>2, Sizes
<1>10. Size[buffer[k][1].of] = AskSize[Asking(k)] /\ AskSize[Asking(k)] \in Nat \ {0}
  BY <1>1, <1>7, <1>8, Sizes DEF Asking
<1>11. QED
  BY <1>1, <1>4, <1>5, <1>7, <1>8, <1>9, <1>10

(* Once it is taken from the buffer the rest is still in place.             *)
LEMMA TakenOff ==
  ASSUME StreamInv, NEW k \in Socket, WholeAsk(k)
  PROVE  LET rest == After(buffer[k], AskSize[Asking(k)])
         IN  /\ rest \in Seq(Piece)
             /\ Framed(rest \o toServer[k], Size)
             /\ link[k] = "open" => Complete(rest \o toServer[k], Size)
             /\ Messages(rest \o toServer[k]) \subseteq Messages(Pending(k)) \ {buffer[k][1].of}
<1> DEFINE z == AskSize[Asking(k)]
           s == Pending(k)
<1>1. TypeOK /\ buffer[k] # <<>> /\ Len(buffer[k]) >= z
  BY DEF StreamInv, WholeAsk
<1>2. /\ Live(k) /\ z \in Nat /\ z = Size[s[1].of] /\ s # <<>>
      /\ s[1] = buffer[k][1]
  BY <1>1, HeadOfBuffer
<1>3. buffer[k] \in Seq(Piece) /\ toServer[k] \in Seq(Piece) /\ s \in Seq(Piece)
  BY <1>1, PendingType
<1>4. Stream(k)
  BY <1>2 DEF StreamInv
<1> HIDE DEF z
<1>5. z \in 0..Len(buffer[k])
  BY <1>1, <1>2, <1>3, PieceTypes
<1>6. /\ After(buffer[k], z) \in Seq(Piece)
      /\ After(buffer[k], z) \o toServer[k] = After(s, z) /\ z <= Len(s)
  BY <1>1, <1>3, <1>5, PendingAfter DEF Pending
<1> HIDE DEF s
<1>7. Framed(s, Size) /\ (link[k] = "open" => Complete(s, Size)) /\ Len(s) >= Size[s[1].of]
  <2>1. Len(s) \in Nat
    BY <1>3, PieceTypes
  <2>2. QED
    BY <1>2, <1>4, <1>6, <2>1 DEF Stream, s
<1>8. \A m \in DOMAIN Size : Size[m] \in Nat
  BY <1>1, Sizes
<1>9. /\ Framed(After(s, z), Size)
      /\ Complete(s, Size) => Complete(After(s, z), Size)
  BY <1>2, <1>3, <1>7, <1>8, FramedAfter
<1>10. Messages(After(s, z)) \subseteq Messages(s) \ {s[1].of}
  BY <1>2, <1>3, <1>7, <1>8, AfterMessages
<1>11. QED
  BY <1>2, <1>6, <1>7, <1>9, <1>10 DEF z, s

(* A stream that a step does not touch.                                     *)
LEMMA StreamKept ==
  ASSUME NEW k \in Socket, Stream(k), asked' = asked, 1..Sent \subseteq (1..Sent)',
         buffer'[k] = buffer[k], toServer'[k] = toServer[k],
         link'[k] = "open" => link[k] = "open"
  PROVE  Stream(k)'
BY DEF Stream, Pending, Size, Number

LEMMA InitStreams == Init => StreamInv
<1>1. SUFFICES ASSUME Init PROVE StreamInv
  OBVIOUS
<1>2. /\ <<>> \in Seq(Piece) /\ <<>> \in Seq(Kind) /\ Len(<<>>) = 0
      /\ <<>> \in Seq({"own", "other", "none", "failed"})
      /\ <<>> \in Seq(1..Number) /\ <<>> \o <<>> = <<>>
  BY EmptySeq
<1>3. TypeOK
  <2>1. Number = 0 /\ 0 <= MaxCalls /\ 0 \in 0..MaxSockets
    BY <1>1, <1>2, ConnectionAssumption DEF Init, Number
  <2>2. /\ call \in {"idle", "sending", "receiving"} /\ Len(outcome) = Number
        /\ connected = FALSE /\ socket \in 0..MaxSockets
        /\ stray \in Nat /\ inStep = TRUE /\ server \in {"running", "stopping", "gone"}
        /\ refused \subseteq 1..Number
    BY <1>1, <1>2, <2>1 DEF Init
  <2>3. /\ asked \in Seq(Kind) /\ outcome \in Seq({"own", "other", "none", "failed"})
        /\ rx \in Seq(Piece) /\ handled \in Seq(1..Number)
    BY <1>1, <1>2 DEF Init
  <2>4. /\ link \in [Socket -> {"none", "open", "left", "cut", "silent"}]
        /\ thread \in [Socket -> {"none", "reading", "answering", "closed", "missing"}]
    BY <1>1 DEF Init
  <2>5. /\ toServer \in [Socket -> Seq(Piece)] /\ toClient \in [Socket -> Seq(Piece)]
        /\ buffer \in [Socket -> Seq(Piece)]
    BY <1>1, <1>2 DEF Init
  <2>6. call = "idle" /\ (connected => socket # 0) /\ connected \in BOOLEAN /\ inStep \in BOOLEAN
    BY <1>1 DEF Init
  <2>7. QED
    BY <2>1, <2>2, <2>3, <2>4, <2>5, <2>6 DEF TypeOK
<1>4. \A k \in Socket : Unused(k) /\ Emptied(k) /\ Answering(k)
  BY <1>1 DEF Init, Unused, Emptied, Answering
<1>5. ASSUME NEW k \in Socket PROVE Stream(k)
  <2>1. Pending(k) = <<>>
    BY <1>1, <1>2 DEF Init, Pending
  <2>2. DOMAIN <<>> = {}
    OBVIOUS
  <2>3. QED
    BY <2>1, <2>2 DEF Stream, Framed, Complete, Messages
<1>6. Answered
  <2>1. DOMAIN <<>> = {}
    OBVIOUS
  <2>2. QED
    BY <1>1, <2>1 DEF Init, Answered, Messages
<1>7. Joined
  BY <1>1 DEF Init, Joined
<1>8. QED
  BY <1>3, <1>4, <1>5, <1>6, <1>7 DEF StreamInv
(* A step that leaves alone every stream a thread still reads.              *)
LEMMA Untouched ==
  ASSUME StreamInv, TypeOK', Answered', Joined',
         asked' = asked, handled' = handled, 1..Sent \subseteq (1..Sent)',
         \A k \in Socket :
           /\ Unused(k)' /\ Emptied(k)'
           /\ thread'[k] = "answering" => thread[k] = "answering"
           /\ thread'[k] # "closed" =>
                /\ thread[k] # "closed"
                /\ buffer'[k] = buffer[k] /\ toServer'[k] = toServer[k]
                /\ link'[k] = "open" => link[k] = "open"
  PROVE  StreamInv'
<1>1. ASSUME NEW k \in Socket PROVE Answering(k)'
  BY DEF StreamInv, Answering, WholeAsk, Asking
<1>2. ASSUME NEW k \in Socket, Live(k)' PROVE Stream(k)'
  BY <1>2, StreamKept DEF StreamInv, Live
<1>3. QED
  BY <1>1, <1>2 DEF StreamInv

LEMMA BeginStreams == StreamInv /\ Begin => StreamInv'
<1>1. SUFFICES ASSUME StreamInv, Begin PROVE StreamInv'
  OBVIOUS
<1>2. TypeOK
  BY <1>1 DEF StreamInv
<1>3. PICK kind \in Kind : asked' = Append(asked, kind)
  BY <1>1 DEF Begin
<1>4. /\ asked' \in Seq(Kind) /\ Number' = Number + 1 /\ Number \in Nat
      /\ \A n \in 1..Number : asked'[n] = asked[n]
  BY <1>2, <1>3, AppendProperties, Sizes DEF TypeOK, Number
<1>5. Number' <= MaxCalls /\ MaxCalls \in Nat
  BY <1>1, <1>2, <1>4, Sizes DEF Begin
<1>6. Sent' = Number /\ Sent = Number /\ call = "idle" /\ call' = "sending"
  BY <1>1, <1>4 DEF Begin, Sent
<1>7. TypeOK'
  <2>1. 1..Number \subseteq (1..Number)'
    BY <1>4
  <2>2. handled' \in Seq((1..Number)') /\ refused' \subseteq (1..Number)'
    BY <1>1, <1>2, <2>1, SeqMonotonic DEF Begin, TypeOK, serverVars
  <2>3. Len(outcome') = Number' - 1
    BY <1>1, <1>2, <1>4, <1>6 DEF Begin, TypeOK
  <2>4. /\ outcome' = outcome /\ connected' = connected /\ socket' = socket /\ rx' = rx
        /\ stray' = stray /\ inStep' = inStep /\ link' = link /\ toServer' = toServer
        /\ toClient' = toClient /\ server' = server /\ thread' = thread /\ buffer' = buffer
    BY <1>1 DEF Begin, linkVars, serverVars
  <2>5. QED
    BY <1>2, <1>4, <1>5, <1>6, <2>2, <2>3, <2>4 DEF TypeOK
<1>8. ASSUME NEW k \in Socket PROVE Unused(k)' /\ Emptied(k)' /\ Answering(k)'
  <2>1. /\ socket' = socket /\ link' = link /\ toServer' = toServer /\ toClient' = toClient
        /\ thread' = thread /\ buffer' = buffer
    BY <1>1 DEF Begin, linkVars, serverVars
  <2>2. Unused(k)' /\ Emptied(k)'
    BY <1>1, <2>1 DEF StreamInv, Unused, Emptied
  <2>3. Answering(k)'
    <3>1. SUFFICES ASSUME thread[k] = "answering"
                   PROVE  WholeAsk(k)' /\ (buffer[k][1].of \in ToSet(handled))'
      BY <2>1 DEF Answering
    <3>2. WholeAsk(k) /\ buffer[k] # <<>>
      BY <1>1, <3>1 DEF StreamInv, Answering, WholeAsk
    <3>3. buffer[k][1].of \in 1..Number
      BY <1>1, <3>2, HeadOfBuffer
    <3>4. Asking(k)' = Asking(k)
      BY <1>4, <2>1, <3>3 DEF Asking
    <3>5. QED
      BY <1>1, <2>1, <3>1, <3>2, <3>4 DEF WholeAsk, StreamInv, Answering, Begin, serverVars
  <2>4. QED
    BY <2>2, <2>3
<1>9. ASSUME NEW k \in Socket, Live(k)' PROVE Stream(k)'
  <2>1. Stream(k)
    BY <1>1, <1>9 DEF Begin, StreamInv, Live, serverVars
  <2>2. Pending(k)' = Pending(k) /\ link' = link
    BY <1>1 DEF Begin, Pending, linkVars, serverVars
  <2>3. \A n \in DOMAIN Size : n \in DOMAIN Size' /\ Size'[n] = Size[n]
    BY <1>4 DEF Size
  <2>4. /\ Framed(Pending(k), Size')
        /\ Complete(Pending(k), Size) => Complete(Pending(k), Size')
    BY <1>2, <2>1, <2>3, FramedExtend, PendingType DEF Stream
  <2>5. QED
    BY <1>6, <2>1, <2>2, <2>4 DEF Stream
<1>10. Answered'
  BY <1>1 DEF StreamInv, Answered, Begin, linkVars, serverVars
<1>11. Joined'
  BY <1>6 DEF Joined
<1>12. QED
  BY <1>7, <1>8, <1>9, <1>10, <1>11 DEF StreamInv

LEMMA EnsureTcpStreams == StreamInv /\ EnsureTcp => StreamInv'
<1>1. SUFFICES ASSUME StreamInv, EnsureTcp PROVE StreamInv'
  OBVIOUS
<1>2. TypeOK /\ socket \in Nat /\ socket + 1 \in Socket /\ MaxSockets \in Nat
  BY <1>1, ConnectionAssumption DEF StreamInv, TypeOK, EnsureTcp, Socket
<1>3. /\ socket' = socket + 1 /\ connected' = TRUE /\ inStep' \in BOOLEAN
      /\ call' = call /\ asked' = asked /\ outcome' = outcome /\ rx' = rx /\ stray' = stray
      /\ toServer' = toServer /\ toClient' = toClient
      /\ server' = server /\ thread' = thread /\ buffer' = buffer
      /\ handled' = handled /\ refused' = refused
  BY <1>1 DEF EnsureTcp, serverVars
<1>4. /\ link' \in [Socket -> {"none", "open", "left", "cut", "silent"}]
      /\ \A k \in Socket : k # socket + 1 => link'[k] \in {link[k], "left"}
  BY <1>1, <1>2 DEF EnsureTcp, TypeOK, Left
<1>5. TypeOK'
  BY <1>2, <1>3, <1>4 DEF TypeOK, Number, Socket
<1>6. ASSUME NEW k \in Socket PROVE Unused(k)' /\ Emptied(k)' /\ Answering(k)'
  <2>1. Unused(k)'
    <3>1. SUFFICES ASSUME k > socket + 1 PROVE Unused(k)'
      BY <1>3 DEF Unused
    <3>2. k > socket /\ k # socket + 1 /\ k # socket
      BY <1>2, <3>1 DEF Socket
    <3>3. link'[k] = link[k]
      BY <1>1, <3>2 DEF EnsureTcp, Left
    <3>4. QED
      BY <1>1, <1>3, <3>2, <3>3 DEF StreamInv, Unused
  <2>2. QED
    BY <1>1, <1>3, <2>1 DEF StreamInv, Emptied, Answering, WholeAsk, Asking
<1>7. ASSUME NEW k \in Socket, Live(k)' PROVE Stream(k)'
  <2>1. Stream(k)
    BY <1>1, <1>3, <1>7 DEF StreamInv, Live
  <2>2. (1..Sent)' = 1..Sent
    BY <1>3 DEF Sent, Number
  <2>3. CASE k # socket + 1
    BY <1>3, <1>4, <2>1, <2>2, <2>3, StreamKept
  <2>4. CASE k = socket + 1
    <3>1. k > socket
      BY <1>2, <2>4
    <3>2. toServer[k] = <<>> /\ buffer[k] = <<>>
      BY <1>1, <3>1 DEF StreamInv, Unused, Emptied
    <3>3. Pending(k)' = <<>>
      BY <1>3, <3>2, EmptySeq, ConcatEmptySeq DEF Pending
    <3>4. DOMAIN <<>> = {}
      OBVIOUS
    <3>5. QED
      BY <3>3, <3>4 DEF Stream, Framed, Complete, Messages
  <2>5. QED
    BY <2>3, <2>4
<1>8. Answered'
  BY <1>1, <1>3 DEF StreamInv, Answered
<1>9. Joined'
  BY <1>1, <1>3 DEF StreamInv, Joined
<1>10. QED
  BY <1>5, <1>6, <1>7, <1>8, <1>9 DEF StreamInv
(* A call ends, and the streams are as they were.                           *)
LEMMA Returning ==
  ASSUME TypeOK, call # "idle", asked' = asked,
         NEW o \in {"own", "other", "none", "failed"}, Returns(o)
  PROVE  /\ call' = "idle" /\ Number' = Number
         /\ outcome' \in Seq({"own", "other", "none", "failed"}) /\ Len(outcome') = Number'
         /\ 1..Sent \subseteq (1..Sent)'
<1>1. Number' = Number /\ Number \in Nat
  BY Sizes DEF Number
<1>2. /\ outcome' \in Seq({"own", "other", "none", "failed"})
      /\ Len(outcome') = Len(outcome) + 1
  BY AppendProperties DEF Returns, TypeOK
<1>3. Len(outcome) = Number - 1
  BY DEF TypeOK
<1>4. 1..Sent \subseteq (1..Sent)'
  BY <1>1 DEF Returns, Sent
<1>5. QED
  BY <1>1, <1>2, <1>3, <1>4 DEF Returns

LEMMA ConnectFailsStreams == StreamInv /\ ConnectFails => StreamInv'
<1>1. SUFFICES ASSUME StreamInv, ConnectFails PROVE StreamInv'
  OBVIOUS
<1>2. TypeOK /\ call = "sending" /\ asked' = asked /\ Returns("failed")
  BY <1>1 DEF StreamInv, ConnectFails
<1>3. /\ call' = "idle" /\ Number' = Number
      /\ outcome' \in Seq({"own", "other", "none", "failed"}) /\ Len(outcome') = Number'
      /\ 1..Sent \subseteq (1..Sent)'
  BY <1>2, Returning
<1>4. /\ connected' = connected /\ socket' = socket /\ rx' = rx /\ stray' = stray
      /\ inStep' = inStep /\ toServer' = toServer /\ toClient' = toClient
      /\ server' = server /\ thread' = thread /\ buffer' = buffer
      /\ handled' = handled /\ refused' = refused
  BY <1>1 DEF ConnectFails, serverVars
<1>5. /\ link' \in [Socket -> {"none", "open", "left", "cut", "silent"}]
      /\ \A k \in Socket : link'[k] = link[k] \/ (link[k] = "open" /\ link'[k] = "left")
  BY <1>1, <1>2 DEF ConnectFails, TypeOK, Left
<1>6. TypeOK'
  BY <1>2, <1>3, <1>4, <1>5 DEF TypeOK
<1>7. Answered'
  BY <1>1, <1>4 DEF StreamInv, Answered
<1>8. QED
  BY <1>1, <1>2, <1>3, <1>4, <1>5, <1>6, <1>7, Untouched DEF StreamInv, Unused, Emptied, Joined

LEMMA SendFailsStreams == StreamInv /\ SendFails => StreamInv'
<1>1. SUFFICES ASSUME StreamInv, SendFails PROVE StreamInv'
  OBVIOUS
<1>2. TypeOK /\ call = "sending" /\ asked' = asked /\ Returns("failed")
  BY <1>1 DEF StreamInv, SendFails
<1>3. /\ call' = "idle" /\ Number' = Number
      /\ outcome' \in Seq({"own", "other", "none", "failed"}) /\ Len(outcome') = Number'
      /\ 1..Sent \subseteq (1..Sent)'
  BY <1>2, Returning
<1>4. /\ connected' = FALSE /\ socket' = socket /\ rx' = rx /\ stray' = stray
      /\ inStep' = inStep /\ toServer' = toServer /\ toClient' = toClient /\ link' = link
      /\ server' = server /\ thread' = thread /\ buffer' = buffer
      /\ handled' = handled /\ refused' = refused
  BY <1>1 DEF SendFails, serverVars, linkVars
<1>5. TypeOK'
  BY <1>2, <1>3, <1>4 DEF TypeOK
<1>6. Answered'
  BY <1>1, <1>4 DEF StreamInv, Answered
<1>7. QED
  BY <1>1, <1>2, <1>3, <1>4, <1>5, <1>6, Untouched DEF StreamInv, Unused, Emptied, Joined

LEMMA SendStreams == StreamInv /\ Send => StreamInv'
<1>1. SUFFICES ASSUME StreamInv, Send PROVE StreamInv'
  OBVIOUS
<1>2. /\ TypeOK /\ call = "sending" /\ call' = "receiving" /\ asked' = asked
      /\ socket \in Socket
  BY <1>1 DEF StreamInv, Send, TypeOK, Socket
<1>3. /\ outcome' = outcome /\ connected' = connected /\ socket' = socket /\ rx' = rx
      /\ stray' = stray /\ inStep' = inStep /\ toClient' = toClient /\ link' = link
      /\ server' = server /\ thread' = thread /\ buffer' = buffer
      /\ handled' = handled /\ refused' = refused
      /\ toServer' = IF link[socket] = "open"
                     THEN [toServer EXCEPT ![socket] = @ \o Ask(Number)]
                     ELSE toServer
  BY <1>1 DEF Send, serverVars
<1>4. Number' = Number /\ Number \in Nat /\ Sent = Number - 1 /\ Sent' = Number
  BY <1>2, Sizes DEF Sent, Number
<1>5. Number \in 1..Number
  <2>1. Len(outcome) = Number - 1 /\ Len(outcome) \in Nat
    BY <1>2, LenProperties DEF TypeOK
  <2>2. QED
    BY <1>4, <2>1
<1> DEFINE long == AskSize[asked[Number]]
<1>6. long \in Nat \ {0} /\ Number \in Call /\ Ask(Number) = Pieces(Number, long)
  BY <1>2, <1>5, Sizes DEF Ask
<1> HIDE DEF long
<1>7. Ask(Number) \in Seq(Piece)
  BY <1>6 DEF Pieces, Piece
<1>8. toServer' \in [Socket -> Seq(Piece)]
  BY <1>2, <1>3, <1>7, ConcatProperties DEF TypeOK
<1>9. TypeOK'
  BY <1>2, <1>3, <1>4, <1>8 DEF TypeOK
<1>10. ASSUME NEW k \in Socket PROVE Unused(k)' /\ Emptied(k)' /\ Answering(k)'
  <2>1. ~(socket > socket)
    BY <1>2 DEF Socket
  <2>2. k # socket => toServer'[k] = toServer[k]
    BY <1>2, <1>3 DEF TypeOK
  <2>3. QED
    BY <1>1, <1>2, <1>3, <2>1, <2>2 DEF StreamInv, Unused, Emptied, Answering, WholeAsk, Asking
<1>11. ASSUME NEW k \in Socket, Live(k)' PROVE Stream(k)'
  <2>1. Stream(k)
    BY <1>1, <1>3, <1>11 DEF StreamInv, Live
  <2>2. CASE k # socket \/ link[socket] # "open"
    <3>1. toServer'[k] = toServer[k]
      BY <1>2, <1>3, <2>2 DEF TypeOK
    <3>2. 1..Sent \subseteq (1..Sent)'
      BY <1>4
    <3>3. QED
      BY <1>2, <1>3, <2>1, <3>1, <3>2, StreamKept
  <2>3. CASE k = socket /\ link[socket] = "open"
    <3>1. Pending(k)' = Pending(k) \o Pieces(Number, long)
      <4>1. toServer'[k] = toServer[k] \o Ask(Number)
        BY <1>2, <1>3, <2>3 DEF TypeOK
      <4>2. buffer[k] \in Seq(Piece) /\ toServer[k] \in Seq(Piece)
        BY <1>2, PendingType
      <4>3. buffer[k] \o (toServer[k] \o Ask(Number)) = (buffer[k] \o toServer[k]) \o Ask(Number)
        BY <1>7, <4>2, PendingSend
      <4>4. QED
        BY <1>3, <1>6, <4>1, <4>3 DEF Pending
    <3>2. /\ Pending(k) \in Seq(Piece) /\ Framed(Pending(k), Size) /\ Complete(Pending(k), Size)
          /\ Messages(Pending(k)) \subseteq 1..Sent
      BY <1>2, <2>1, <2>3, PendingType DEF Stream
    <3>3. \A p \in DOMAIN Pending(k) : Pending(k)[p].of # Number
      <4>1. Number \notin 1..Sent
        BY <1>4
      <4>2. QED
        BY <3>2, <4>1 DEF Messages
    <3>4. /\ \A m \in DOMAIN Size : Size[m] \in Nat
          /\ Number \in DOMAIN Size /\ Size[Number] = long
      BY <1>2, <1>5, Sizes DEF long
    <3>5. /\ Framed(Pending(k) \o Pieces(Number, long), Size)
          /\ Complete(Pending(k) \o Pieces(Number, long), Size)
      BY <1>6, <3>2, <3>3, <3>4, FramedAppend
    <3>6. Messages(Pending(k) \o Pieces(Number, long)) \subseteq Messages(Pending(k)) \cup {Number}
      BY <1>6, <3>2, AppendMessages
    <3>7. Messages(Pending(k))' \subseteq (1..Sent)'
      <4>1. 1..Sent \subseteq (1..Sent)' /\ Number \in (1..Sent)'
        BY <1>4, <1>5
      <4>2. Messages(Pending(k))' = Messages(Pending(k) \o Pieces(Number, long))
        BY <3>1 DEF Messages
      <4>3. QED
        BY <3>2, <3>6, <4>1, <4>2
    <3>8. Size' = Size
      BY <1>2 DEF Size, Number
    <3>9. QED
      BY <3>1, <3>5, <3>7, <3>8 DEF Stream
  <2>4. QED
    BY <2>2, <2>3
<1>12. Answered'
  BY <1>1, <1>3 DEF StreamInv, Answered
<1>13. Joined'
  BY <1>1, <1>3 DEF Send, Joined
<1>14. QED
  BY <1>9, <1>10, <1>11, <1>12, <1>13 DEF StreamInv
LEMMA SuffixMessages ==
  ASSUME NEW s \in Seq(Piece), NEW n \in 0..Len(s)
  PROVE  After(s, n) \in Seq(Piece) /\ Messages(After(s, n)) \subseteq Messages(s)
<1> DEFINE t == After(s, n)
<1>1. /\ t \in Seq(Piece) /\ Len(t) = Len(s) - n
      /\ \A p \in 1..Len(s) - n : t[p] = s[p + n]
  BY AfterProperties
<1> HIDE DEF t
<1>2. Len(s) \in Nat /\ DOMAIN s = 1..Len(s) /\ DOMAIN t = 1..Len(t)
  BY <1>1, PieceTypes
<1>3. \A p \in DOMAIN t : p + n \in DOMAIN s /\ t[p] = s[p + n]
  BY <1>1, <1>2
<1>4. Messages(t) \subseteq Messages(s)
  <2>1. \A p \in DOMAIN t : \E q \in DOMAIN s : t[p].of = s[q].of
    BY <1>3
  <2>2. QED
    BY <2>1 DEF Messages
<1>5. QED
  BY <1>1, <1>4 DEF t

LEMMA ConcatMessages ==
  ASSUME NEW s \in Seq(Piece), NEW a \in Seq(Piece)
  PROVE  s \o a \in Seq(Piece) /\ Messages(s \o a) \subseteq Messages(s) \cup Messages(a)
<1> DEFINE t == s \o a
<1>1. /\ t \in Seq(Piece) /\ Len(t) = Len(s) + Len(a)
      /\ \A p \in 1..Len(s) + Len(a) : t[p] = IF p <= Len(s) THEN s[p] ELSE a[p - Len(s)]
  BY ConcatProperties
<1> HIDE DEF t
<1>2. /\ Len(s) \in Nat /\ DOMAIN s = 1..Len(s) /\ DOMAIN t = 1..Len(t)
      /\ Len(a) \in Nat /\ DOMAIN a = 1..Len(a)
  BY <1>1, PieceTypes
<1>3. ASSUME NEW p \in DOMAIN t PROVE t[p].of \in Messages(s) \cup Messages(a)
  <2>1. p \in Nat /\ p > 0 /\ p <= Len(s) + Len(a)
    BY <1>1, <1>2
  <2>2. CASE p <= Len(s)
    <3>1. p \in DOMAIN s /\ t[p] = s[p]
      BY <1>1, <1>2, <2>1, <2>2
    <3>2. QED
      BY <3>1 DEF Messages
  <2>3. CASE ~(p <= Len(s))
    <3>1. p - Len(s) \in DOMAIN a /\ t[p] = a[p - Len(s)]
      BY <1>1, <1>2, <2>1, <2>3
    <3>2. QED
      BY <3>1 DEF Messages
  <2>4. QED
    BY <2>2, <2>3
<1>4. Messages(t) \subseteq Messages(s) \cup Messages(a)
  BY <1>3 DEF Messages
<1>5. QED
  BY <1>1, <1>4 DEF t

(* What the client has read begins with an answer to a call of known kind.  *)
LEMMA HeadOfAnswer ==
  ASSUME StreamInv, rx # <<>>
  PROVE  /\ rx \in Seq(Piece) /\ rx[1].of \in ToSet(handled) /\ rx[1].of \in 1..Number
         /\ HeadSize \in Nat \ {0}
<1>1. TypeOK /\ rx \in Seq(Piece) /\ handled \in Seq(1..Number)
  BY DEF StreamInv, TypeOK
<1>2. rx[1].of \in ToSet(handled)
  BY <1>1, HeadMessage DEF StreamInv, Answered
<1>3. \A i \in DOMAIN handled : handled[i] \in 1..Number
  BY <1>1, LenProperties, ElementOfSeq
<1>4. rx[1].of \in 1..Number
  BY <1>2, <1>3 DEF ToSet
<1>5. QED
  BY <1>1, <1>2, <1>4, Sizes DEF HeadSize, HeadKind

LEMMA TakeStreams == StreamInv /\ Take => StreamInv'
<1>1. SUFFICES ASSUME StreamInv, Take PROVE StreamInv'
  OBVIOUS
<1>2. TypeOK /\ call = "receiving" /\ asked' = asked
  BY <1>1 DEF StreamInv, Take
<1>3. /\ connected' = connected /\ socket' = socket /\ inStep' = inStep /\ link' = link
      /\ toServer' = toServer /\ toClient' = toClient /\ server' = server
      /\ thread' = thread /\ buffer' = buffer /\ handled' = handled /\ refused' = refused
  BY <1>1 DEF Take, serverVars, linkVars
<1>4. rx' \in Seq(Piece) /\ Messages(rx') \subseteq Messages(rx)
  <2>1. rx # <<>> /\ Len(rx) >= HeadSize /\ rx' = After(rx, HeadSize)
    BY <1>1 DEF Take, Whole, HeadKnown
  <2>2. rx \in Seq(Piece) /\ HeadSize \in Nat
    BY <1>1, <2>1, HeadOfAnswer
  <2>3. HeadSize \in 0..Len(rx)
    BY <2>1, <2>2, PieceTypes
  <2>4. QED
    BY <2>1, <2>2, <2>3, SuffixMessages
<1>5. /\ Number' = Number /\ 1..Sent \subseteq (1..Sent)'
      /\ call' \in {"idle", "receiving"} /\ stray' \in Nat
      /\ outcome' \in Seq({"own", "other", "none", "failed"})
      /\ Len(outcome') = IF call' = "idle" THEN Number' ELSE Number' - 1
  <2>1. CASE HeadKind = asked[Number]
    <3>1. PICK o \in {"own", "other"} : Returns(o) /\ stray' = stray
      BY <1>1, <2>1 DEF Take
    <3>2. QED
      BY <1>2, <3>1, Returning DEF TypeOK
  <2>2. CASE HeadKind # asked[Number]
    <3>1. call' = call /\ outcome' = outcome /\ stray' = stray + 1
      BY <1>1, <2>2 DEF Take
    <3>2. QED
      BY <1>2, <3>1 DEF TypeOK, Sent, Number
  <2>3. QED
    BY <2>1, <2>2
<1>6. TypeOK'
  BY <1>2, <1>3, <1>4, <1>5 DEF TypeOK
<1>7. Answered'
  BY <1>1, <1>3, <1>4 DEF StreamInv, Answered, Messages
<1>8. Joined'
  BY <1>1, <1>2, <1>3 DEF StreamInv, Joined
<1>9. QED
  BY <1>1, <1>2, <1>3, <1>5, <1>6, <1>7, <1>8, Untouched DEF StreamInv, Unused, Emptied

LEMMA TakeGarbledStreams == StreamInv /\ TakeGarbled => StreamInv'
<1>1. SUFFICES ASSUME StreamInv, TakeGarbled PROVE StreamInv'
  OBVIOUS
<1>2. TypeOK /\ call = "receiving" /\ asked' = asked /\ rx \in Seq(Piece) /\ rx # <<>>
  BY <1>1 DEF StreamInv, TakeGarbled, TypeOK
<1>3. /\ socket' = socket /\ inStep' = inStep /\ link' = link
      /\ toServer' = toServer /\ toClient' = toClient /\ server' = server
      /\ thread' = thread /\ buffer' = buffer /\ handled' = handled /\ refused' = refused
  BY <1>1 DEF TakeGarbled, serverVars, linkVars
<1>4. rx' \in Seq(Piece) /\ Messages(rx') \subseteq Messages(rx)
  <2>1. CASE \E n \in 1..Len(rx) : rx' = After(rx, n)
    <3>1. PICK n \in 1..Len(rx) : rx' = After(rx, n)
      BY <2>1
    <3>2. n \in 0..Len(rx)
      BY <1>2, PieceTypes
    <3>3. QED
      BY <1>2, <3>1, <3>2, SuffixMessages
  <2>2. CASE rx' = rx
    BY <1>2, <2>2
  <2>3. QED
    BY <1>1, <2>1, <2>2 DEF TakeGarbled
<1>5. connected' \in BOOLEAN /\ (connected' => socket' # 0)
  <2>1. CASE connected' = connected
    BY <1>2, <1>3, <2>1 DEF TypeOK
  <2>2. CASE connected' = FALSE
    BY <2>2
  <2>3. QED
    BY <1>1, <2>1, <2>2 DEF TakeGarbled
<1>6. /\ Number' = Number /\ 1..Sent \subseteq (1..Sent)'
      /\ call' \in {"idle", "receiving"} /\ stray' \in Nat
      /\ outcome' \in Seq({"own", "other", "none", "failed"})
      /\ Len(outcome') = IF call' = "idle" THEN Number' ELSE Number' - 1
  <2>1. CASE \E o \in {"other", "none"} : Returns(o) /\ stray' = stray
    <3>1. PICK o \in {"other", "none"} : Returns(o) /\ stray' = stray
      BY <2>1
    <3>2. QED
      BY <1>2, <3>1, Returning DEF TypeOK
  <2>2. CASE call' = call /\ outcome' = outcome /\ stray' = stray + 1
    BY <1>2, <2>2 DEF TypeOK, Sent, Number
  <2>3. QED
    BY <1>1, <2>1, <2>2 DEF TakeGarbled
<1>7. TypeOK'
  BY <1>2, <1>3, <1>4, <1>5, <1>6 DEF TypeOK
<1>8. Answered'
  BY <1>1, <1>3, <1>4 DEF StreamInv, Answered, Messages
<1>9. Joined'
  BY <1>1, <1>2 DEF StreamInv, Joined, TakeGarbled, Returns
<1>10. QED
  BY <1>1, <1>2, <1>3, <1>6, <1>7, <1>8, <1>9, Untouched DEF StreamInv, Unused, Emptied
LEMMA ReceiveStreams == StreamInv /\ Receive => StreamInv'
<1>1. SUFFICES ASSUME StreamInv, Receive PROVE StreamInv'
  OBVIOUS
<1>2. TypeOK /\ call = "receiving" /\ asked' = asked /\ connected
  BY <1>1 DEF StreamInv, Receive, Joined
<1>3. /\ connected' = connected /\ socket' = socket /\ inStep' = inStep /\ link' = link
      /\ call' = call /\ outcome' = outcome /\ stray' = stray
      /\ toServer' = toServer /\ server' = server
      /\ thread' = thread /\ buffer' = buffer /\ handled' = handled /\ refused' = refused
  BY <1>1 DEF Receive, serverVars
<1>4. socket \in Socket
  BY <1>2 DEF TypeOK, Socket
<1>5. PICK n \in 1..Len(toClient[socket]) :
        /\ rx' = rx \o SubSeq(toClient[socket], 1, n)
        /\ toClient' = [toClient EXCEPT ![socket] = After(@, n)]
  BY <1>1 DEF Receive
<1> DEFINE x == toClient[socket]
<1>6. x \in Seq(Piece) /\ rx \in Seq(Piece) /\ n \in 0..Len(x)
  <2>1. x \in Seq(Piece) /\ rx \in Seq(Piece)
    BY <1>2, <1>4 DEF TypeOK
  <2>2. QED
    BY <2>1, PieceTypes
<1>7. /\ After(x, n) \in Seq(Piece) /\ Messages(After(x, n)) \subseteq Messages(x)
      /\ SubSeq(x, 1, n) \in Seq(Piece) /\ Messages(SubSeq(x, 1, n)) \subseteq Messages(x)
  BY <1>6, SuffixMessages, FramedPrefix, PrefixMessages
<1>8. rx' \in Seq(Piece) /\ Messages(rx') \subseteq Messages(rx) \cup Messages(x)
  <2> DEFINE y == SubSeq(x, 1, n)
  <2>1. y \in Seq(Piece) /\ Messages(y) \subseteq Messages(x) /\ rx' = rx \o y
    BY <1>5, <1>7
  <2> HIDE DEF y
  <2>2. rx \o y \in Seq(Piece) /\ Messages(rx \o y) \subseteq Messages(rx) \cup Messages(y)
    BY <1>6, <2>1, ConcatMessages
  <2>3. QED
    BY <2>1, <2>2
<1>9. /\ toClient' \in [Socket -> Seq(Piece)]
      /\ \A k \in Socket : toClient'[k] = IF k = socket THEN After(x, n) ELSE toClient[k]
  BY <1>2, <1>4, <1>5, <1>7 DEF TypeOK
<1>10. TypeOK'
  BY <1>2, <1>3, <1>8, <1>9 DEF TypeOK, Number
<1>11. Answered'
  <2>1. Messages(x) \subseteq ToSet(handled) /\ Messages(rx) \subseteq ToSet(handled)
    BY <1>1, <1>4 DEF StreamInv, Answered
  <2>2. Messages(rx)' = Messages(rx')
    BY DEF Messages
  <2>3. ASSUME NEW k \in Socket PROVE Messages(toClient[k])' \subseteq ToSet(handled)
    <3>1. Messages(toClient[k])' = Messages(toClient'[k])
      BY DEF Messages
    <3>2. QED
      BY <1>1, <1>7, <1>9, <2>1, <3>1 DEF StreamInv, Answered
  <2>4. QED
    BY <1>3, <1>8, <2>1, <2>2, <2>3 DEF Answered
<1>12. (1..Sent)' = 1..Sent
  BY <1>2, <1>3 DEF Sent, Number
<1>13. ASSUME NEW k \in Socket PROVE Unused(k)' /\ Emptied(k)'
  <2>1. ~(socket > socket)
    BY <1>4 DEF Socket
  <2>2. QED
    BY <1>1, <1>3, <1>9, <2>1 DEF StreamInv, Unused, Emptied
<1>14. Joined'
  BY <1>2, <1>3 DEF Joined
<1>15. QED
  BY <1>1, <1>2, <1>3, <1>10, <1>11, <1>12, <1>13, <1>14, Untouched

LEMMA ReceiveEndStreams == StreamInv /\ ReceiveEnd => StreamInv'
<1>1. SUFFICES ASSUME StreamInv, ReceiveEnd PROVE StreamInv'
  OBVIOUS
<1>2. TypeOK /\ call = "receiving" /\ asked' = asked /\ Returns("none")
  BY <1>1 DEF StreamInv, ReceiveEnd
<1>3. /\ call' = "idle" /\ Number' = Number
      /\ outcome' \in Seq({"own", "other", "none", "failed"}) /\ Len(outcome') = Number'
      /\ 1..Sent \subseteq (1..Sent)'
  BY <1>2, Returning
<1>4. /\ connected' = FALSE /\ socket' = socket /\ rx' = rx /\ stray' = stray
      /\ inStep' = inStep /\ toServer' = toServer /\ toClient' = toClient /\ link' = link
      /\ server' = server /\ thread' = thread /\ buffer' = buffer
      /\ handled' = handled /\ refused' = refused
  BY <1>1 DEF ReceiveEnd, serverVars, linkVars
<1>5. TypeOK'
  BY <1>2, <1>3, <1>4 DEF TypeOK
<1>6. Answered'
  BY <1>1, <1>4 DEF StreamInv, Answered
<1>7. QED
  BY <1>1, <1>2, <1>3, <1>4, <1>5, <1>6, Untouched DEF StreamInv, Unused, Emptied, Joined

(* What the client has and does is not touched by the network or the server.*)
LEMMA ClientKept ==
  ASSUME TypeOK, UNCHANGED clientVars
  PROVE  /\ call' = call /\ asked' = asked /\ outcome' = outcome /\ connected' = connected
         /\ socket' = socket /\ rx' = rx /\ stray' = stray /\ inStep' = inStep
         /\ Number' = Number /\ Sent' = Sent /\ Size' = Size
BY DEF clientVars, Number, Sent, Size

LEMMA LossStreams ==
  ASSUME StreamInv, NEW c \in Socket, Loses(c)
  PROVE  StreamInv'
<1> PICK how \in {"cut", "silent"} : Lose(c, how) /\ link[c] \in {"open", "silent"}
  BY DEF Loses, Cut, GoSilent
<1>1. TypeOK /\ UNCHANGED clientVars
  BY DEF StreamInv, Lose
<1>2. /\ call' = call /\ asked' = asked /\ outcome' = outcome /\ connected' = connected
      /\ socket' = socket /\ rx' = rx /\ stray' = stray /\ inStep' = inStep
      /\ Number' = Number /\ Sent' = Sent /\ Size' = Size
  BY <1>1, ClientKept
<1>3. /\ server' = server /\ thread' = thread /\ buffer' = buffer
      /\ handled' = handled /\ refused' = refused
      /\ link[c] \in {"open", "silent"} /\ link' = [link EXCEPT ![c] = how]
  BY DEF Lose, serverVars
<1>4. PICK s \in Prefixes(toServer[c]) : toServer' = [toServer EXCEPT ![c] = s]
  BY DEF Lose
<1>5. PICK a \in Prefixes(toClient[c]) : toClient' = [toClient EXCEPT ![c] = a]
  BY DEF Lose
<1>6. /\ s \in Seq(Piece)
      /\ \E n \in 0..Len(Pending(c)) : buffer[c] \o s = SubSeq(Pending(c), 1, n)
  BY <1>1, PendingLost, PendingType DEF Pending
<1>7. a \in Seq(Piece) /\ Messages(a) \subseteq Messages(toClient[c])
  <2>1. PICK n \in 0..Len(toClient[c]) : a = SubSeq(toClient[c], 1, n)
    BY DEF Prefixes
  <2>2. QED
    BY <1>1, <2>1, PendingType, PrefixMessages, FramedPrefix
<1>8. /\ toServer' \in [Socket -> Seq(Piece)] /\ toClient' \in [Socket -> Seq(Piece)]
      /\ link' \in [Socket -> {"none", "open", "left", "cut", "silent"}]
      /\ \A k \in Socket :
           /\ toServer'[k] = IF k = c THEN s ELSE toServer[k]
           /\ toClient'[k] = IF k = c THEN a ELSE toClient[k]
           /\ link'[k] = IF k = c THEN how ELSE link[k]
  BY <1>1, <1>3, <1>4, <1>5, <1>6, <1>7 DEF TypeOK
<1>9. TypeOK'
  BY <1>1, <1>2, <1>3, <1>8 DEF TypeOK
<1>10. Answered'
  <2>1. ASSUME NEW k \in Socket PROVE Messages(toClient[k])' \subseteq ToSet(handled)
    <3>1. Messages(toClient[k])' = Messages(toClient'[k])
      BY DEF Messages
    <3>2. QED
      BY <1>7, <1>8, <3>1 DEF StreamInv, Answered
  <2>2. QED
    BY <1>2, <1>3, <2>1 DEF StreamInv, Answered
<1>11. ASSUME NEW k \in Socket PROVE Unused(k)' /\ Emptied(k)' /\ Answering(k)'
  <2>1. c > socket => FALSE
    BY <1>3 DEF StreamInv, Unused
  <2>2. QED
    BY <1>2, <1>3, <1>8, <2>1 DEF StreamInv, Unused, Emptied, Answering, WholeAsk, Asking
<1>12. ASSUME NEW k \in Socket, Live(k)' PROVE Stream(k)'
  <2>1. Stream(k)
    BY <1>3, <1>12 DEF StreamInv, Live
  <2>2. CASE k # c
    BY <1>2, <1>3, <1>8, <2>1, <2>2, StreamKept
  <2>3. CASE k = c
    <3>1. PICK n \in 0..Len(Pending(c)) : buffer[c] \o s = SubSeq(Pending(c), 1, n)
      BY <1>6
    <3>2. Pending(k)' = SubSeq(Pending(c), 1, n)
      BY <1>3, <1>8, <2>3, <3>1 DEF Pending
    <3>3. /\ Framed(SubSeq(Pending(c), 1, n), Size)
          /\ Messages(SubSeq(Pending(c), 1, n)) \subseteq Messages(Pending(c))
      BY <1>1, <2>1, <2>3, <3>1, FramedPrefix, PrefixMessages, PendingType DEF Stream
    <3>4. Messages(Pending(k))' = Messages(SubSeq(Pending(c), 1, n))
      BY <3>2 DEF Messages
    <3>5. QED
      BY <1>2, <1>8, <2>1, <2>3, <3>2, <3>3, <3>4 DEF Stream
  <2>4. QED
    BY <2>2, <2>3
<1>13. Joined'
  BY <1>2 DEF StreamInv, Joined
<1>14. QED
  BY <1>9, <1>10, <1>11, <1>12, <1>13 DEF StreamInv
LEMMA AcceptStreams ==
  ASSUME StreamInv, NEW c \in Socket, TakeUp(c)
  PROVE  StreamInv'
<1>1. TypeOK /\ UNCHANGED clientVars
  BY DEF StreamInv, TakeUp, Accept, AcceptFails
<1>2. /\ call' = call /\ asked' = asked /\ outcome' = outcome /\ connected' = connected
      /\ socket' = socket /\ rx' = rx /\ stray' = stray /\ inStep' = inStep
      /\ Number' = Number /\ Sent' = Sent /\ Size' = Size
  BY <1>1, ClientKept
<1>3. /\ server' = server /\ link' = link /\ toServer' = toServer /\ toClient' = toClient
      /\ buffer' = buffer /\ handled' = handled /\ refused' = refused
      /\ link[c] # "none" /\ thread[c] = "none"
  BY DEF TakeUp, Accept, AcceptFails, linkVars
<1>4. /\ thread' \in [Socket -> {"none", "reading", "answering", "closed", "missing"}]
      /\ \A k \in Socket : k # c => thread'[k] = thread[k]
      /\ thread'[c] \in {"reading", "missing"}
  BY <1>1 DEF TakeUp, Accept, AcceptFails, TypeOK
<1>5. TypeOK'
  BY <1>1, <1>2, <1>3, <1>4 DEF TypeOK
<1>6. Answered' /\ Joined'
  BY <1>2, <1>3 DEF StreamInv, Answered, Joined
<1>7. ASSUME NEW k \in Socket PROVE Unused(k)' /\ Emptied(k)'
  BY <1>2, <1>3, <1>4 DEF StreamInv, Unused, Emptied
<1>8. QED
  BY <1>2, <1>3, <1>4, <1>5, <1>6, <1>7, Untouched

LEMMA CloseStreams ==
  ASSUME StreamInv, NEW c \in Socket, Close(c)
  PROVE  StreamInv'
<1>1. TypeOK /\ UNCHANGED clientVars
  BY DEF StreamInv, Close
<1>2. /\ call' = call /\ asked' = asked /\ outcome' = outcome /\ connected' = connected
      /\ socket' = socket /\ rx' = rx /\ stray' = stray /\ inStep' = inStep
      /\ Number' = Number /\ Sent' = Sent /\ Size' = Size
  BY <1>1, ClientKept
<1>3. /\ server' = server /\ link' = link /\ toServer' = toServer /\ toClient' = toClient
      /\ handled' = handled /\ refused' = refused /\ thread[c] = "reading"
  BY DEF Close, linkVars
<1>4. /\ thread' \in [Socket -> {"none", "reading", "answering", "closed", "missing"}]
      /\ buffer' \in [Socket -> Seq(Piece)]
      /\ \A k \in Socket : k # c => thread'[k] = thread[k] /\ buffer'[k] = buffer[k]
      /\ thread'[c] = "closed" /\ buffer'[c] = <<>>
  <2>1. <<>> \in Seq(Piece)
    BY EmptySeq
  <2>2. QED
    BY <1>1, <2>1 DEF Close, TypeOK
<1>5. TypeOK'
  BY <1>1, <1>2, <1>3, <1>4 DEF TypeOK
<1>6. Answered' /\ Joined'
  BY <1>2, <1>3 DEF StreamInv, Answered, Joined
<1>7. ASSUME NEW k \in Socket PROVE Unused(k)' /\ Emptied(k)'
  BY <1>2, <1>3, <1>4 DEF StreamInv, Unused, Emptied
<1>8. QED
  BY <1>2, <1>3, <1>4, <1>5, <1>6, <1>7, Untouched

LEMMA StopStreams == StreamInv /\ (Stop \/ Gone) => StreamInv'
<1>1. SUFFICES ASSUME StreamInv, Stop \/ Gone PROVE StreamInv'
  OBVIOUS
<1>2. TypeOK /\ UNCHANGED clientVars
  BY <1>1 DEF StreamInv, Stop, Gone
<1>3. /\ call' = call /\ asked' = asked /\ outcome' = outcome /\ connected' = connected
      /\ socket' = socket /\ rx' = rx /\ stray' = stray /\ inStep' = inStep
      /\ Number' = Number /\ Sent' = Sent /\ Size' = Size
  BY <1>2, ClientKept
<1>4. /\ server' \in {"stopping", "gone"} /\ thread' = thread /\ buffer' = buffer
      /\ toServer' = toServer /\ toClient' = toClient
      /\ handled' = handled /\ refused' = refused
  BY <1>1 DEF Stop, Gone, linkVars
<1>5. /\ link' \in [Socket -> {"none", "open", "left", "cut", "silent"}]
      /\ \A k \in Socket : link'[k] = link[k] \/ (link[k] = "open" /\ link'[k] = "cut")
  <2>1. CASE Stop
    BY <1>2, <2>1 DEF Stop, TypeOK, linkVars
  <2>2. CASE Gone
    BY <1>2, <2>2 DEF Gone, TypeOK
  <2>3. QED
    BY <1>1, <2>1, <2>2
<1>6. TypeOK'
  BY <1>2, <1>3, <1>4, <1>5 DEF TypeOK
<1>7. Answered' /\ Joined'
  BY <1>1, <1>3, <1>4 DEF StreamInv, Answered, Joined
<1>8. ASSUME NEW k \in Socket PROVE Unused(k)' /\ Emptied(k)'
  BY <1>1, <1>3, <1>4, <1>5 DEF StreamInv, Unused, Emptied
<1>9. QED
  BY <1>1, <1>3, <1>4, <1>5, <1>6, <1>7, <1>8, Untouched

LEMMA ReadStreams ==
  ASSUME StreamInv, NEW c \in Socket, Read(c)
  PROVE  StreamInv' /\ \A k \in Socket : Pending(k)' = Pending(k)
<1>1. TypeOK /\ UNCHANGED clientVars
  BY DEF StreamInv, Read
<1>2. /\ call' = call /\ asked' = asked /\ outcome' = outcome /\ connected' = connected
      /\ socket' = socket /\ rx' = rx /\ stray' = stray /\ inStep' = inStep
      /\ Number' = Number /\ Sent' = Sent /\ Size' = Size
  BY <1>1, ClientKept
<1>3. /\ server' = server /\ link' = link /\ toClient' = toClient /\ thread' = thread
      /\ handled' = handled /\ refused' = refused /\ thread[c] = "reading"
  BY DEF Read
<1>4. PICK n \in 1..Len(toServer[c]) :
        /\ buffer' = [buffer EXCEPT ![c] = @ \o SubSeq(toServer[c], 1, n)]
        /\ toServer' = [toServer EXCEPT ![c] = After(@, n)]
  BY DEF Read
<1> DEFINE b == buffer[c] \o SubSeq(toServer[c], 1, n)
           x == After(toServer[c], n)
<1>5. b \in Seq(Piece) /\ x \in Seq(Piece) /\ b \o x = buffer[c] \o toServer[c]
  BY <1>1, PendingRead, PendingType
<1>6. /\ buffer' = [buffer EXCEPT ![c] = b] /\ toServer' = [toServer EXCEPT ![c] = x]
  BY <1>4
<1> HIDE DEF b, x
<1>7. /\ buffer' \in [Socket -> Seq(Piece)] /\ toServer' \in [Socket -> Seq(Piece)]
      /\ \A k \in Socket : /\ buffer'[k] = IF k = c THEN b ELSE buffer[k]
                           /\ toServer'[k] = IF k = c THEN x ELSE toServer[k]
  <2>1. buffer \in [Socket -> Seq(Piece)] /\ toServer \in [Socket -> Seq(Piece)]
    BY <1>1 DEF TypeOK
  <2>2. /\ buffer' \in [Socket -> Seq(Piece)]
        /\ \A k \in Socket : buffer'[k] = IF k = c THEN b ELSE buffer[k]
    BY <1>5, <1>6, <2>1
  <2>3. /\ toServer' \in [Socket -> Seq(Piece)]
        /\ \A k \in Socket : toServer'[k] = IF k = c THEN x ELSE toServer[k]
    BY <1>5, <1>6, <2>1
  <2>4. QED
    BY <2>2, <2>3
<1>8. ASSUME NEW k \in Socket PROVE Pending(k)' = Pending(k)
  <2>1. CASE k = c
    BY <1>5, <1>7, <2>1 DEF Pending
  <2>2. CASE k # c
    BY <1>7, <2>2 DEF Pending
  <2>3. QED
    BY <2>1, <2>2
<1>9. TypeOK'
  BY <1>1, <1>2, <1>3, <1>7 DEF TypeOK
<1>10. Answered' /\ Joined'
  BY <1>2, <1>3 DEF StreamInv, Answered, Joined
<1>11. ASSUME NEW k \in Socket PROVE Unused(k)' /\ Emptied(k)' /\ Answering(k)'
  <2>1. c > socket => FALSE
    BY <1>3 DEF StreamInv, Unused
  <2>2. CASE k = c
    BY <1>2, <1>3, <2>1, <2>2 DEF Unused, Emptied, Answering
  <2>3. CASE k # c
    <3>1. buffer'[k] = buffer[k] /\ toServer'[k] = toServer[k]
      BY <1>7, <2>3
    <3>2. QED
      BY <1>2, <1>3, <3>1 DEF StreamInv, Unused, Emptied, Answering, WholeAsk, Asking
  <2>4. QED
    BY <2>2, <2>3
<1>12. ASSUME NEW k \in Socket, Live(k)' PROVE Stream(k)'
  <2>1. Stream(k)
    BY <1>3, <1>12 DEF StreamInv, Live
  <2>2. Messages(Pending(k))' = Messages(Pending(k))
    BY <1>8 DEF Messages
  <2>3. QED
    BY <1>2, <1>3, <1>8, <2>1, <2>2 DEF Stream
<1>13. QED
  BY <1>8, <1>9, <1>10, <1>11, <1>12 DEF StreamInv

(* The thread takes the request at the head of its buffer.                  *)
LEMMA TakenStream ==
  ASSUME StreamInv, NEW c \in Socket, WholeAsk(c), UNCHANGED clientVars,
         buffer' = [buffer EXCEPT ![c] = After(@, AskSize[Asking(c)])],
         toServer' = toServer, link' = link
  PROVE  /\ buffer' \in [Socket -> Seq(Piece)] /\ Stream(c)'
         /\ \A k \in Socket : k # c => buffer'[k] = buffer[k] /\ Pending(k)' = Pending(k)
         /\ Messages(Pending(c))' \subseteq Messages(Pending(c)) \ {buffer[c][1].of}
<1> DEFINE rest == After(buffer[c], AskSize[Asking(c)])
<1>1. TypeOK /\ buffer[c] # <<>>
  BY DEF StreamInv, WholeAsk
<1>2. /\ rest \in Seq(Piece)
      /\ Framed(rest \o toServer[c], Size)
      /\ link[c] = "open" => Complete(rest \o toServer[c], Size)
      /\ Messages(rest \o toServer[c]) \subseteq Messages(Pending(c)) \ {buffer[c][1].of}
  BY TakenOff
<1>3. buffer' = [buffer EXCEPT ![c] = rest]
  OBVIOUS
<1> HIDE DEF rest
<1>4. /\ buffer' \in [Socket -> Seq(Piece)]
      /\ \A k \in Socket : buffer'[k] = IF k = c THEN rest ELSE buffer[k]
  BY <1>1, <1>2, <1>3 DEF TypeOK
<1>5. \A k \in Socket : Pending(k)' = IF k = c THEN rest \o toServer[c] ELSE Pending(k)
  BY <1>4 DEF Pending
<1>6. Sent' = Sent /\ Size' = Size
  BY <1>1, ClientKept
<1>7. Live(c)
  BY <1>1, HeadOfBuffer
<1>8. Stream(c)
  BY <1>7 DEF StreamInv
<1>9. Messages(Pending(c))' \subseteq Messages(Pending(c)) \ {buffer[c][1].of}
  BY <1>2, <1>5 DEF Messages
<1>10. Stream(c)'
  BY <1>2, <1>5, <1>6, <1>8, <1>9 DEF Stream
<1>11. QED
  BY <1>4, <1>5, <1>9, <1>10
(* The server acts on a request: its thread goes on to answer it, or drops  *)
(* it.                                                                      *)
LEMMA ProcessStreams ==
  ASSUME StreamInv, NEW c \in Socket, Process(c)
  PROVE  StreamInv'
<1>1. TypeOK /\ UNCHANGED clientVars /\ WholeAsk(c) /\ buffer[c] # <<>> /\ thread[c] = "reading"
  BY DEF StreamInv, Process, WholeAsk
<1>2. /\ call' = call /\ asked' = asked /\ outcome' = outcome /\ connected' = connected
      /\ socket' = socket /\ rx' = rx /\ stray' = stray /\ inStep' = inStep
      /\ Number' = Number /\ Sent' = Sent /\ Size' = Size
  BY <1>1, ClientKept
<1>3. /\ server' = server /\ link' = link /\ toServer' = toServer /\ toClient' = toClient
      /\ handled' = Append(handled, buffer[c][1].of)
  BY DEF Process, linkVars
<1>4. buffer[c][1].of \in 1..Number
  BY <1>1, HeadOfBuffer
<1>5. /\ handled' \in Seq(1..Number)
      /\ ToSet(handled) \subseteq ToSet(handled') /\ buffer[c][1].of \in ToSet(handled')
  <2>1. handled \in Seq(1..Number)
    BY <1>1 DEF TypeOK
  <2>2. /\ handled' \in Seq(1..Number) /\ Len(handled') = Len(handled) + 1
        /\ \A i \in 1..Len(handled) : handled'[i] = handled[i]
        /\ handled'[Len(handled) + 1] = buffer[c][1].of
    BY <1>3, <1>4, <2>1, AppendProperties
  <2>3. /\ DOMAIN handled = 1..Len(handled) /\ Len(handled) \in Nat
        /\ DOMAIN handled' = 1..Len(handled')
    BY <2>1, <2>2, LenProperties
  <2>4. DOMAIN handled \subseteq DOMAIN handled' /\ Len(handled) + 1 \in DOMAIN handled'
    BY <2>2, <2>3
  <2>5. QED
    BY <2>2, <2>3, <2>4 DEF ToSet
<1>6. Answered' /\ Joined'
  BY <1>2, <1>3, <1>5 DEF StreamInv, Answered, Joined
<1>7. c > socket => FALSE
  BY <1>1 DEF StreamInv, Unused
<1>8. CASE thread' = [thread EXCEPT ![c] = "answering"] /\ UNCHANGED <<buffer, refused>>
  <2>1. /\ thread' \in [Socket -> {"none", "reading", "answering", "closed", "missing"}]
        /\ \A k \in Socket : thread'[k] = IF k = c THEN "answering" ELSE thread[k]
    BY <1>1, <1>8 DEF TypeOK
  <2>2. TypeOK'
    BY <1>1, <1>2, <1>3, <1>5, <1>8, <2>1 DEF TypeOK
  <2>3. ASSUME NEW k \in Socket PROVE Unused(k)' /\ Emptied(k)' /\ Answering(k)'
    BY <1>1, <1>2, <1>3, <1>5, <1>7, <1>8, <2>1
       DEF StreamInv, Unused, Emptied, Answering, WholeAsk, Asking
  <2>4. ASSUME NEW k \in Socket, Live(k)' PROVE Stream(k)'
    <3>1. Stream(k)
      BY <1>1, <2>1, <2>4 DEF StreamInv, Live
    <3>2. QED
      BY <1>2, <1>3, <1>8, <3>1, StreamKept
  <2>5. QED
    BY <1>6, <2>2, <2>3, <2>4 DEF StreamInv
<1>9. CASE /\ refused' = refused \cup {buffer[c][1].of}
           /\ buffer' = [buffer EXCEPT ![c] = After(@, AskSize[Asking(c)])]
           /\ UNCHANGED thread
  <2>1. /\ buffer' \in [Socket -> Seq(Piece)] /\ Stream(c)'
        /\ \A k \in Socket : k # c => buffer'[k] = buffer[k]
    BY <1>1, <1>3, <1>9, TakenStream
  <2>2. TypeOK'
    BY <1>1, <1>2, <1>3, <1>4, <1>5, <1>9, <2>1 DEF TypeOK
  <2>3. ASSUME NEW k \in Socket PROVE Unused(k)' /\ Emptied(k)' /\ Answering(k)'
    <3>1. CASE k = c
      BY <1>1, <1>2, <1>7, <1>9, <3>1 DEF Unused, Emptied, Answering
    <3>2. CASE k # c
      BY <1>2, <1>3, <1>5, <1>9, <2>1, <3>2
         DEF StreamInv, Unused, Emptied, Answering, WholeAsk, Asking
    <3>3. QED
      BY <3>1, <3>2
  <2>4. ASSUME NEW k \in Socket, Live(k)' PROVE Stream(k)'
    <3>1. CASE k # c
      <4>1. Stream(k)
        BY <1>9, <2>4 DEF StreamInv, Live
      <4>2. QED
        BY <1>2, <1>3, <2>1, <3>1, <4>1, StreamKept
    <3>2. QED
      BY <2>1, <3>1
  <2>5. QED
    BY <1>6, <2>2, <2>3, <2>4 DEF StreamInv
<1>10. QED
  BY <1>8, <1>9 DEF Process

LEMMA SendAnswerStreams ==
  ASSUME StreamInv, NEW c \in Socket, SendAnswer(c)
  PROVE  StreamInv'
<1>1. /\ TypeOK /\ UNCHANGED clientVars /\ thread[c] = "answering"
      /\ WholeAsk(c) /\ buffer[c] # <<>> /\ buffer[c][1].of \in ToSet(handled)
  BY DEF StreamInv, SendAnswer, Answering, WholeAsk
<1>2. /\ call' = call /\ asked' = asked /\ outcome' = outcome /\ connected' = connected
      /\ socket' = socket /\ rx' = rx /\ stray' = stray /\ inStep' = inStep
      /\ Number' = Number /\ Sent' = Sent /\ Size' = Size
  BY <1>1, ClientKept
<1>3. /\ server' = server /\ link' = link /\ toServer' = toServer
      /\ handled' = handled /\ refused' = refused
      /\ buffer' = [buffer EXCEPT ![c] = After(@, AskSize[Asking(c)])]
      /\ thread' = [thread EXCEPT ![c] = "reading"]
  BY DEF SendAnswer
<1>4. /\ buffer' \in [Socket -> Seq(Piece)] /\ Stream(c)'
      /\ \A k \in Socket : k # c => buffer'[k] = buffer[k]
  BY <1>1, <1>3, TakenStream
<1>5. /\ thread' \in [Socket -> {"none", "reading", "answering", "closed", "missing"}]
      /\ \A k \in Socket : thread'[k] = IF k = c THEN "reading" ELSE thread[k]
  BY <1>1, <1>3 DEF TypeOK
<1>6. /\ toClient' \in [Socket -> Seq(Piece)]
      /\ \A k \in Socket : Messages(toClient'[k]) \subseteq ToSet(handled)
      /\ \A k \in Socket : k # c => toClient'[k] = toClient[k]
  <2>1. CASE link[c] = "open"
    <3> DEFINE head == buffer[c][1].of
               long == AnswerSize[asked[head]]
    <3>1. head \in 1..Number
      BY <1>1, HeadOfBuffer
    <3>2. head \in Call /\ long \in Nat \ {0} /\ Answer(head) = Pieces(head, long)
      BY <1>1, <3>1, Sizes DEF Answer
    <3> HIDE DEF long
    <3>3. toClient' = [toClient EXCEPT ![c] = @ \o Pieces(head, long)]
      BY <2>1, <3>2 DEF SendAnswer
    <3> HIDE DEF head
    <3>4. Pieces(head, long) \in Seq(Piece)
      BY <3>2 DEF Pieces, Piece
    <3> USE DEF head
    <3> DEFINE y == toClient[c] \o Pieces(head, long)
    <3>5. y \in Seq(Piece) /\ Messages(y) \subseteq Messages(toClient[c]) \cup {head}
      BY <1>1, <3>2, <3>4, PendingType, ConcatProperties, AppendMessages
    <3>6. toClient' = [toClient EXCEPT ![c] = y]
      BY <3>3
    <3> HIDE DEF y
    <3>7. /\ toClient' \in [Socket -> Seq(Piece)]
          /\ \A k \in Socket : toClient'[k] = IF k = c THEN y ELSE toClient[k]
      BY <1>1, <3>5, <3>6 DEF TypeOK
    <3>8. QED
      BY <1>1, <3>5, <3>7 DEF StreamInv, Answered
  <2>2. CASE link[c] # "open"
    <3>1. toClient' = toClient
      BY <2>2 DEF SendAnswer
    <3>2. QED
      BY <1>1, <3>1 DEF TypeOK, StreamInv, Answered
  <2>3. QED
    BY <2>1, <2>2
<1>7. TypeOK'
  BY <1>1, <1>2, <1>3, <1>4, <1>5, <1>6 DEF TypeOK
<1>8. Answered' /\ Joined'
  <2>1. \A k \in Socket : Messages(toClient[k])' = Messages(toClient'[k])
    BY DEF Messages
  <2>2. QED
    BY <1>2, <1>3, <1>6, <2>1 DEF StreamInv, Answered, Joined
<1>9. c > socket => FALSE
  BY <1>1 DEF StreamInv, Unused
<1>10. ASSUME NEW k \in Socket PROVE Unused(k)' /\ Emptied(k)' /\ Answering(k)'
  <2>1. CASE k = c
    BY <1>2, <1>5, <1>9, <2>1 DEF Unused, Emptied, Answering
  <2>2. CASE k # c
    BY <1>2, <1>3, <1>4, <1>5, <1>6, <2>2
       DEF StreamInv, Unused, Emptied, Answering, WholeAsk, Asking
  <2>3. QED
    BY <2>1, <2>2
<1>11. ASSUME NEW k \in Socket, Live(k)' PROVE Stream(k)'
  <2>1. CASE k # c
    <3>1. Stream(k)
      BY <1>5, <1>11, <2>1 DEF StreamInv, Live
    <3>2. QED
      BY <1>2, <1>3, <1>4, <2>1, <3>1, StreamKept
  <2>2. QED
    BY <1>4, <2>1
<1>12. QED
  BY <1>7, <1>8, <1>10, <1>11 DEF StreamInv

LEMMA StutterStreams == StreamInv /\ UNCHANGED vars => StreamInv'
<1>1. SUFFICES ASSUME StreamInv, UNCHANGED vars PROVE StreamInv'
  OBVIOUS
<1>2. /\ call' = call /\ asked' = asked /\ outcome' = outcome /\ connected' = connected
      /\ socket' = socket /\ rx' = rx /\ stray' = stray /\ inStep' = inStep
      /\ link' = link /\ toServer' = toServer /\ toClient' = toClient
      /\ server' = server /\ thread' = thread /\ buffer' = buffer
      /\ handled' = handled /\ refused' = refused
  BY <1>1 DEF vars, clientVars, linkVars, serverVars
<1>3. TypeOK'
  BY <1>1, <1>2 DEF StreamInv, TypeOK, Number
<1>4. Answered' /\ Joined' /\ (1..Sent)' = 1..Sent
  BY <1>1, <1>2 DEF StreamInv, Answered, Joined, Sent, Number
<1>5. ASSUME NEW k \in Socket PROVE Unused(k)' /\ Emptied(k)'
  BY <1>1, <1>2 DEF StreamInv, Unused, Emptied
<1>6. QED
  BY <1>1, <1>2, <1>3, <1>4, <1>5, Untouched

LEMMA NextStreams == StreamInv /\ [Next]_vars => StreamInv'
<1>1. SUFFICES ASSUME StreamInv, [Next]_vars PROVE StreamInv'
  OBVIOUS
<1>2. CASE Client
  BY <1>1, <1>2, BeginStreams, EnsureTcpStreams, ConnectFailsStreams, SendStreams, SendFailsStreams,
     TakeStreams, TakeGarbledStreams, ReceiveStreams, ReceiveEndStreams
     DEF Client, Sending, Receiving
<1>3. ASSUME NEW k \in Socket, Loses(k) \/ TakeUp(k) \/ Serve(k) PROVE StreamInv'
  BY <1>1, <1>3, LossStreams, AcceptStreams, ReadStreams, ProcessStreams, SendAnswerStreams,
     CloseStreams DEF Serve
<1>4. CASE Stop \/ Gone
  BY <1>1, <1>4, StopStreams
<1>5. CASE UNCHANGED vars
  BY <1>1, <1>5, StutterStreams
<1>6. QED
  BY <1>1, <1>2, <1>3, <1>4, <1>5 DEF Next

LEMMA StreamsHold == Spec => []StreamInv
BY InitStreams, NextStreams, PTL DEF Spec

(* The state of the client, the network and the server stays of its types:  *)
(* in particular a read of either end never takes the length of a message   *)
(* from a place where none begins, nor beyond what has arrived.             *)
THEOREM TypeCorrect == Spec => []TypeOK
BY StreamsHold, PTL DEF StreamInv

(* What the server has buffered begins with the beginning of a request.     *)
LEMMA ServerKeepsPlace == Spec => []ServerInStep
<1>1. StreamInv => ServerInStep
  BY HeadOfBuffer DEF ServerInStep
<1>2. QED
  BY <1>1, StreamsHold, PTL
-----------------------------------------------------------------------------
(* A request is on one connection only, and one the server has acted on is  *)
(* gone from it, unless its thread is about to answer it.                   *)
Acted(k) ==
  \A n \in Messages(Pending(k)) \cap ToSet(handled) :
    thread[k] = "answering" /\ n = buffer[k][1].of

OnceInv ==
  /\ ToSet(handled) \subseteq 1..Sent
  /\ \A k \in Socket : Live(k) => Acted(k)
  /\ \A j, k \in Socket :
       Live(j) /\ Live(k) /\ j # k => Messages(Pending(j)) \cap Messages(Pending(k)) = {}

(* Requests are only ever added.                                            *)
LEMMA SentGrows ==
  ASSUME StreamInv, [Next]_vars
  PROVE  1..Sent \subseteq (1..Sent)'
<1>1. TypeOK /\ Number \in Nat /\ asked \in Seq(Kind)
  BY Sizes DEF StreamInv, TypeOK
<1>2. CASE Begin
  <2>1. PICK kind \in Kind : asked' = Append(asked, kind)
    BY <1>2 DEF Begin
  <2>2. Number' = Number + 1
    BY <1>1, <2>1, AppendProperties DEF Number
  <2>3. QED
    BY <1>1, <1>2, <2>2 DEF Begin, Sent
<1>3. CASE asked' = asked /\ (call' = "sending" => call = "sending")
  <2>1. Number' = Number
    BY <1>3 DEF Number
  <2>2. QED
    BY <1>1, <1>3, <2>1 DEF Sent
<1>4. CASE Sending \/ Receiving
  <2>1. asked' = asked
    BY <1>4 DEF Sending, EnsureTcp, ConnectFails, Send, SendFails,
                Receiving, Take, TakeGarbled, Receive, ReceiveEnd
  <2>2. call' = "sending" => call = "sending"
    BY <1>4 DEF Sending, EnsureTcp, ConnectFails, Send, SendFails, Returns,
                Receiving, Take, TakeGarbled, Receive, ReceiveEnd
  <2>3. QED
    BY <1>3, <2>1, <2>2
<1>5. CASE UNCHANGED clientVars
  BY <1>3, <1>5 DEF clientVars
<1>6. CASE UNCHANGED vars
  BY <1>5, <1>6 DEF vars
<1>7. ASSUME NEW k \in Socket, Loses(k) \/ TakeUp(k) \/ Serve(k) PROVE UNCHANGED clientVars
  BY <1>7 DEF Loses, Cut, GoSilent, Lose, TakeUp, Accept, AcceptFails, Serve, Read, Process,
              SendAnswer, Close
<1>8. CASE Stop \/ Gone
  BY <1>5, <1>8 DEF Stop, Gone
<1>9. QED
  BY <1>2, <1>4, <1>5, <1>6, <1>7, <1>8 DEF Next, Client

(* Every other step only takes pieces from the streams.                     *)
LEMMA StreamsShrink ==
  ASSUME StreamInv, [Next]_vars, ~Send,
         \A c \in Socket : ~Process(c) /\ ~SendAnswer(c)
  PROVE  /\ handled' = handled
         /\ \A k \in Socket :
              /\ thread[k] = "answering" => thread'[k] = "answering" /\ buffer'[k] = buffer[k]
              /\ Live(k)' => Live(k) /\ Messages(Pending(k))' \subseteq Messages(Pending(k))
<1> DEFINE Goal == /\ handled' = handled
                   /\ \A k \in Socket :
                        /\ thread[k] = "answering" =>
                             thread'[k] = "answering" /\ buffer'[k] = buffer[k]
                        /\ Live(k)' =>
                             Live(k) /\ Messages(Pending(k))' \subseteq Messages(Pending(k))
<1>1. CASE UNCHANGED <<handled, thread, buffer, toServer>>
  BY <1>1 DEF Live, Pending, Messages
<1>2. CASE Begin \/ Sending \/ Receiving
  <2>1. UNCHANGED <<handled, thread, buffer, toServer>>
    BY <1>2 DEF Begin, Sending, EnsureTcp, ConnectFails, SendFails,
                Receiving, Take, TakeGarbled, Receive, ReceiveEnd, linkVars, serverVars
  <2>2. QED
    BY <1>1, <2>1
<1>3. CASE Stop \/ Gone \/ UNCHANGED vars
  <2>1. UNCHANGED <<handled, thread, buffer, toServer>>
    BY <1>3 DEF Stop, Gone, vars, linkVars, serverVars
  <2>2. QED
    BY <1>1, <2>1
<1>4. ASSUME NEW c \in Socket, Loses(c) PROVE Goal
  <2>1. TypeOK /\ handled' = handled /\ thread' = thread /\ buffer' = buffer
    BY <1>4 DEF StreamInv, Loses, Cut, GoSilent, Lose, serverVars
  <2>2. PICK s \in Prefixes(toServer[c]) : toServer' = [toServer EXCEPT ![c] = s]
    BY <1>4 DEF Loses, Cut, GoSilent, Lose
  <2>3. PICK n \in 0..Len(Pending(c)) : buffer[c] \o s = SubSeq(Pending(c), 1, n)
    BY <2>1, PendingLost, PendingType DEF Pending
  <2>4. \A k \in Socket : toServer'[k] = IF k = c THEN s ELSE toServer[k]
    BY <2>1, <2>2 DEF TypeOK
  <2>5. Messages(SubSeq(Pending(c), 1, n)) \subseteq Messages(Pending(c))
    BY <2>1, PrefixMessages, PendingType
  <2>6. ASSUME NEW k \in Socket PROVE Messages(Pending(k))' \subseteq Messages(Pending(k))
    <3>1. CASE k = c
      <4>1. Pending(k)' = SubSeq(Pending(c), 1, n)
        BY <2>1, <2>3, <2>4, <3>1 DEF Pending
      <4>2. Messages(Pending(k))' = Messages(SubSeq(Pending(c), 1, n))
        BY <4>1 DEF Messages
      <4>3. QED
        BY <2>5, <3>1, <4>2
    <3>2. CASE k # c
      BY <2>1, <2>4, <3>2 DEF Pending, Messages
    <3>3. QED
      BY <3>1, <3>2
  <2>7. QED
    BY <2>1, <2>6 DEF Live
<1>5. ASSUME NEW c \in Socket, TakeUp(c) \/ Close(c) PROVE Goal
  <2>1. /\ TypeOK /\ handled' = handled /\ toServer' = toServer
        /\ thread[c] \in {"none", "reading"}
        /\ \A k \in Socket : k # c => thread'[k] = thread[k] /\ buffer'[k] = buffer[k]
        /\ thread'[c] # "closed" => buffer'[c] = buffer[c]
    BY <1>5 DEF StreamInv, TypeOK, TakeUp, Accept, AcceptFails, Close, linkVars
  <2>2. ASSUME NEW k \in Socket, Live(k)'
        PROVE  Live(k) /\ Messages(Pending(k))' \subseteq Messages(Pending(k))
    BY <2>1, <2>2 DEF Live, Pending, Messages
  <2>3. QED
    BY <2>1, <2>2
<1>6. ASSUME NEW c \in Socket, Read(c) PROVE Goal
  <2>1. /\ TypeOK /\ handled' = handled /\ thread' = thread /\ thread[c] = "reading"
        /\ \A k \in Socket : k # c => buffer'[k] = buffer[k]
    BY <1>6 DEF StreamInv, TypeOK, Read
  <2>2. \A k \in Socket : Pending(k)' = Pending(k)
    BY <1>6, ReadStreams
  <2>3. QED
    BY <2>1, <2>2 DEF Live, Messages
<1>7. QED
  BY <1>2, <1>3, <1>4, <1>5, <1>6 DEF Next, Client, Sending, Serve
(* How the messages of the streams change as a request is sent or taken.    *)
LEMMA SendMessages ==
  ASSUME StreamInv, Send
  PROVE  /\ socket \in Socket /\ handled' = handled /\ thread' = thread /\ buffer' = buffer
         /\ socket' = socket /\ Number' = Number /\ Number \in Nat /\ Number \notin 1..Sent
         /\ (1..Sent)' = (1..Sent) \cup {Number}
         /\ \A k \in Socket : Messages(Pending(k))' \subseteq
                              Messages(Pending(k)) \cup (IF k = socket THEN {Number} ELSE {})
<1>1. /\ TypeOK /\ call = "sending" /\ call' = "receiving" /\ asked' = asked
      /\ socket \in Socket /\ handled' = handled /\ thread' = thread /\ buffer' = buffer
      /\ socket' = socket
      /\ toServer' = IF link[socket] = "open"
                     THEN [toServer EXCEPT ![socket] = @ \o Ask(Number)]
                     ELSE toServer
  BY DEF StreamInv, Send, TypeOK, Socket, serverVars
<1>2. Number' = Number /\ Number \in Nat /\ Sent = Number - 1 /\ Sent' = Number
  BY <1>1, Sizes DEF Sent, Number
<1>3. Number \in 1..Number
  <2>1. Len(outcome) = Number - 1 /\ Len(outcome) \in Nat
    BY <1>1, LenProperties DEF TypeOK
  <2>2. QED
    BY <1>2, <2>1
<1>4. Number \notin 1..Sent /\ (1..Sent)' = (1..Sent) \cup {Number}
  BY <1>2, <1>3
<1> DEFINE long == AskSize[asked[Number]]
<1>5. long \in Nat \ {0} /\ Number \in Call /\ Ask(Number) = Pieces(Number, long)
  BY <1>1, <1>3, Sizes DEF Ask
<1> HIDE DEF long
<1>6. Pieces(Number, long) \in Seq(Piece)
  BY <1>5 DEF Pieces, Piece
<1>7. ASSUME NEW k \in Socket
      PROVE  Messages(Pending(k))' \subseteq
                Messages(Pending(k)) \cup (IF k = socket THEN {Number} ELSE {})
  <2>1. CASE k = socket /\ link[socket] = "open"
    <3>1. toServer'[k] = toServer[k] \o Pieces(Number, long)
      BY <1>1, <1>5, <2>1 DEF TypeOK
    <3>2. buffer[k] \in Seq(Piece) /\ toServer[k] \in Seq(Piece) /\ Pending(k) \in Seq(Piece)
      BY <1>1, PendingType
    <3>3. Pending(k)' = Pending(k) \o Pieces(Number, long)
      <4>1. buffer[k] \o (toServer[k] \o Pieces(Number, long))
              = (buffer[k] \o toServer[k]) \o Pieces(Number, long)
        BY <1>6, <3>2, PendingSend
      <4>2. QED
        BY <1>1, <3>1, <4>1 DEF Pending
    <3>4. Messages(Pending(k) \o Pieces(Number, long)) \subseteq Messages(Pending(k)) \cup {Number}
      BY <1>5, <3>2, AppendMessages
    <3>5. Messages(Pending(k))' = Messages(Pending(k) \o Pieces(Number, long))
      BY <3>3 DEF Messages
    <3>6. QED
      BY <2>1, <3>4, <3>5
  <2>2. CASE k # socket \/ link[socket] # "open"
    <3>1. toServer'[k] = toServer[k]
      BY <1>1, <2>2 DEF TypeOK
    <3>2. QED
      BY <1>1, <3>1 DEF Pending, Messages
  <2>3. QED
    BY <2>1, <2>2
<1>8. QED
  BY <1>1, <1>2, <1>4, <1>7

LEMMA ProcessMessages ==
  ASSUME StreamInv, NEW c \in Socket, Process(c)
  PROVE  /\ buffer[c][1].of \in Messages(Pending(c)) /\ buffer[c][1].of \in 1..Sent
         /\ thread[c] = "reading" /\ handled \in Seq(1..Number)
         /\ handled' = Append(handled, buffer[c][1].of)
         /\ ToSet(handled') = ToSet(handled) \cup {buffer[c][1].of}
         /\ \A k \in Socket : k # c => /\ thread'[k] = thread[k] /\ buffer'[k] = buffer[k]
                                      /\ Messages(Pending(k))' = Messages(Pending(k))
         /\ \/ /\ thread'[c] = "answering" /\ buffer'[c] = buffer[c]
               /\ Messages(Pending(c))' = Messages(Pending(c))
            \/ Messages(Pending(c))' \subseteq Messages(Pending(c)) \ {buffer[c][1].of}
<1> DEFINE head == buffer[c][1].of
<1>1. /\ TypeOK /\ UNCHANGED clientVars /\ WholeAsk(c) /\ buffer[c] # <<>>
      /\ thread[c] = "reading" /\ handled' = Append(handled, head)
      /\ link' = link /\ toServer' = toServer
  BY DEF StreamInv, Process, WholeAsk, linkVars
<1>2. head \in Messages(Pending(c)) /\ head \in 1..Sent /\ head \in 1..Number
  BY <1>1, HeadOfBuffer
<1> HIDE DEF head
<1>3. ToSet(handled') = ToSet(handled) \cup {head}
  <2>1. handled \in Seq(1..Number)
    BY <1>1 DEF TypeOK
  <2>2. /\ handled' \in Seq(1..Number) /\ Len(handled') = Len(handled) + 1
        /\ \A i \in 1..Len(handled) : handled'[i] = handled[i]
        /\ handled'[Len(handled) + 1] = head
    BY <1>1, <1>2, <2>1, AppendProperties
  <2>3. /\ DOMAIN handled = 1..Len(handled) /\ Len(handled) \in Nat
        /\ DOMAIN handled' = 1..Len(handled')
    BY <2>1, <2>2, LenProperties
  <2>4. DOMAIN handled' = DOMAIN handled \cup {Len(handled) + 1}
    BY <2>2, <2>3
  <2>5. QED
    BY <2>2, <2>3, <2>4 DEF ToSet
<1>4. CASE thread' = [thread EXCEPT ![c] = "answering"] /\ UNCHANGED <<buffer, refused>>
  <2>1. thread'[c] = "answering" /\ \A k \in Socket : k # c => thread'[k] = thread[k]
    BY <1>1, <1>4 DEF TypeOK
  <2>2. \A k \in Socket : Messages(Pending(k))' = Messages(Pending(k))
    BY <1>1, <1>4 DEF Pending, Messages
  <2>3. QED
    BY <1>1, <1>2, <1>3, <1>4, <2>1, <2>2 DEF head, TypeOK
<1>5. CASE /\ buffer' = [buffer EXCEPT ![c] = After(@, AskSize[Asking(c)])]
           /\ UNCHANGED thread
  <2>1. /\ \A k \in Socket : k # c => buffer'[k] = buffer[k] /\ Pending(k)' = Pending(k)
        /\ Messages(Pending(c))' \subseteq Messages(Pending(c)) \ {head}
    BY <1>1, <1>5, TakenStream DEF head
  <2>2. \A k \in Socket : k # c => Messages(Pending(k))' = Messages(Pending(k))
    BY <2>1 DEF Messages
  <2>3. QED
    BY <1>1, <1>2, <1>3, <1>5, <2>1, <2>2 DEF head, TypeOK
<1>6. QED
  BY <1>4, <1>5 DEF Process

LEMMA SendAnswerMessages ==
  ASSUME StreamInv, NEW c \in Socket, SendAnswer(c)
  PROVE  /\ handled' = handled /\ thread[c] = "answering" /\ Live(c)
         /\ thread'[c] = "reading"
         /\ buffer[c][1].of \in Messages(Pending(c)) /\ buffer[c][1].of \in 1..Number
         /\ \A k \in Socket : k # c => /\ thread'[k] = thread[k] /\ buffer'[k] = buffer[k]
                                      /\ Messages(Pending(k))' = Messages(Pending(k))
         /\ Messages(Pending(c))' \subseteq Messages(Pending(c)) \ {buffer[c][1].of}
<1>1. /\ TypeOK /\ UNCHANGED clientVars /\ thread[c] = "answering"
      /\ WholeAsk(c) /\ buffer[c] # <<>>
      /\ handled' = handled /\ link' = link /\ toServer' = toServer
      /\ buffer' = [buffer EXCEPT ![c] = After(@, AskSize[Asking(c)])]
      /\ thread' = [thread EXCEPT ![c] = "reading"]
  BY DEF StreamInv, SendAnswer, Answering, WholeAsk
<1>2. buffer[c][1].of \in Messages(Pending(c)) /\ buffer[c][1].of \in 1..Number
  BY <1>1, HeadOfBuffer
<1>3. /\ \A k \in Socket : k # c => buffer'[k] = buffer[k] /\ Pending(k)' = Pending(k)
      /\ Messages(Pending(c))' \subseteq Messages(Pending(c)) \ {buffer[c][1].of}
  BY <1>1, TakenStream
<1>4. \A k \in Socket : k # c => Messages(Pending(k))' = Messages(Pending(k))
  BY <1>3 DEF Messages
<1>5. thread'[c] = "reading" /\ \A k \in Socket : k # c => thread'[k] = thread[k]
  BY <1>1 DEF TypeOK
<1>6. QED
  BY <1>1, <1>2, <1>3, <1>4, <1>5 DEF Live
LEMMA InitOnce == Init => OnceInv
<1>1. SUFFICES ASSUME Init PROVE OnceInv
  OBVIOUS
<1>2. DOMAIN <<>> = {} /\ <<>> \o <<>> = <<>>
  BY EmptySeq
<1>3. ToSet(handled) = {} /\ \A k \in Socket : Messages(Pending(k)) = {}
  BY <1>1, <1>2 DEF Init, ToSet, Messages, Pending
<1>4. QED
  BY <1>3 DEF OnceInv, Acted

LEMMA NextOnce == StreamInv /\ OnceInv /\ [Next]_vars => OnceInv'
<1>1. SUFFICES ASSUME StreamInv, OnceInv, [Next]_vars PROVE OnceInv'
  OBVIOUS
<1>2. 1..Sent \subseteq (1..Sent)'
  BY <1>1, SentGrows
<1>3. \A k \in Socket : Live(k) => Messages(Pending(k)) \subseteq 1..Sent
  BY <1>1 DEF StreamInv, Stream
<1>4. CASE Send
  <2>1. /\ socket \in Socket /\ handled' = handled /\ thread' = thread /\ buffer' = buffer
        /\ Number \notin 1..Sent
        /\ \A k \in Socket : Messages(Pending(k))' \subseteq
                             Messages(Pending(k)) \cup (IF k = socket THEN {Number} ELSE {})
    BY <1>1, <1>4, SendMessages
  <2>2. ToSet(handled)' \subseteq (1..Sent)' /\ Number \notin ToSet(handled)
    BY <1>1, <1>2, <2>1 DEF OnceInv
  <2>3. ASSUME NEW k \in Socket, Live(k)' PROVE Acted(k)'
    BY <1>1, <2>1, <2>2, <2>3 DEF OnceInv, Acted, Live
  <2>4. ASSUME NEW j \in Socket, NEW k \in Socket, Live(j)', Live(k)', j # k
        PROVE  (Messages(Pending(j)) \cap Messages(Pending(k)) = {})'
    <3>1. Live(j) /\ Live(k)
      BY <2>1, <2>4 DEF Live
    <3>2. Messages(Pending(j)) \cap Messages(Pending(k)) = {}
      BY <1>1, <2>4, <3>1 DEF OnceInv
    <3>3. Number \notin Messages(Pending(j)) /\ Number \notin Messages(Pending(k))
      BY <1>3, <2>1, <3>1
    <3>4. QED
      BY <2>1, <2>4, <3>2, <3>3
  <2>5. QED
    BY <2>2, <2>3, <2>4 DEF OnceInv
<1>5. ASSUME NEW c \in Socket, Process(c) PROVE OnceInv'
  <2> DEFINE head == buffer[c][1].of
  <2>1. /\ head \in Messages(Pending(c)) /\ head \in 1..Sent /\ thread[c] = "reading"
        /\ ToSet(handled') = ToSet(handled) \cup {head}
        /\ \A k \in Socket : k # c => /\ thread'[k] = thread[k] /\ buffer'[k] = buffer[k]
                                     /\ Messages(Pending(k))' = Messages(Pending(k))
        /\ \/ /\ thread'[c] = "answering" /\ buffer'[c] = buffer[c]
              /\ Messages(Pending(c))' = Messages(Pending(c))
           \/ Messages(Pending(c))' \subseteq Messages(Pending(c)) \ {head}
    BY <1>1, <1>5, ProcessMessages
  <2>2. Live(c) /\ Messages(Pending(c)) \cap ToSet(handled) = {}
    BY <1>1, <2>1 DEF OnceInv, Acted, Live
  <2>3. ToSet(handled)' \subseteq (1..Sent)'
    BY <1>1, <1>2, <2>1 DEF OnceInv
  <2>4. ASSUME NEW k \in Socket, Live(k)' PROVE Acted(k)'
    <3>1. CASE k = c
      BY <2>1, <2>2, <3>1 DEF Acted
    <3>2. CASE k # c
      <4>1. Live(k)
        BY <2>1, <2>4, <3>2 DEF Live
      <4>2. head \notin Messages(Pending(k))
        BY <1>1, <2>1, <2>2, <3>2, <4>1 DEF OnceInv
      <4>3. Acted(k)
        BY <1>1, <4>1 DEF OnceInv
      <4>4. QED
        BY <2>1, <3>2, <4>2, <4>3 DEF Acted
    <3>3. QED
      BY <3>1, <3>2
  <2>5. \A k \in Socket : /\ Live(k)' => Live(k)
                         /\ Messages(Pending(k))' \subseteq Messages(Pending(k))
    BY <2>1, <2>2 DEF Live
  <2>6. QED
    BY <1>1, <2>3, <2>4, <2>5 DEF OnceInv
<1>6. ASSUME NEW c \in Socket, SendAnswer(c) PROVE OnceInv'
  <2>1. /\ handled' = handled /\ Live(c)
        /\ \A k \in Socket : k # c => /\ thread'[k] = thread[k] /\ buffer'[k] = buffer[k]
                                     /\ Messages(Pending(k))' = Messages(Pending(k))
        /\ Messages(Pending(c))' \subseteq Messages(Pending(c)) \ {buffer[c][1].of}
    BY <1>1, <1>6, SendAnswerMessages
  <2>2. ToSet(handled)' \subseteq (1..Sent)'
    BY <1>1, <1>2, <2>1 DEF OnceInv
  <2>3. ASSUME NEW k \in Socket, Live(k)' PROVE Acted(k)'
    <3>1. CASE k = c
      <4>1. Acted(c)
        BY <1>1, <2>1 DEF OnceInv
      <4>2. Messages(Pending(c))' \cap ToSet(handled) = {}
        BY <2>1, <4>1 DEF Acted
      <4>3. QED
        BY <2>1, <3>1, <4>2 DEF Acted
    <3>2. CASE k # c
      <4>1. Acted(k)
        BY <1>1, <2>1, <2>3, <3>2 DEF OnceInv, Live
      <4>2. QED
        BY <2>1, <3>2, <4>1 DEF Acted
    <3>3. QED
      BY <3>1, <3>2
  <2>4. \A k \in Socket : /\ Live(k)' => Live(k)
                         /\ Messages(Pending(k))' \subseteq Messages(Pending(k))
    BY <2>1 DEF Live
  <2>5. QED
    BY <1>1, <2>2, <2>3, <2>4 DEF OnceInv
<1>7. CASE ~Send /\ \A c \in Socket : ~Process(c) /\ ~SendAnswer(c)
  <2>1. /\ handled' = handled
        /\ \A k \in Socket :
             /\ thread[k] = "answering" => thread'[k] = "answering" /\ buffer'[k] = buffer[k]
             /\ Live(k)' => Live(k) /\ Messages(Pending(k))' \subseteq Messages(Pending(k))
    BY <1>1, <1>7, StreamsShrink
  <2>2. ToSet(handled)' \subseteq (1..Sent)'
    BY <1>1, <1>2, <2>1 DEF OnceInv
  <2>3. ASSUME NEW k \in Socket, Live(k)' PROVE Acted(k)'
    <3>1. Acted(k)
      BY <1>1, <2>1, <2>3 DEF OnceInv
    <3>2. QED
      BY <2>1, <2>3, <3>1 DEF Acted
  <2>4. QED
    BY <1>1, <2>1, <2>2, <2>3 DEF OnceInv
<1>8. QED
  BY <1>4, <1>5, <1>6, <1>7
-----------------------------------------------------------------------------
(* As long as the client is in step with the server nothing is under way    *)
(* between two calls; during a call it is the request, or the answer to it. *)
Quiet(k) == Live(k) => Messages(Pending(k)) = {}
Silent == rx = <<>> /\ toClient[socket] = <<>>
Begins(s, n) == \A p \in DOMAIN s : s[p] = [of |-> n, i |-> p]
Continues(s, n, after) == \A p \in DOMAIN s : s[p] = [of |-> n, i |-> after + p]
Coming ==
  /\ Len(rx) + Len(toClient[socket]) <= AnswerSize[asked[Number]]
  /\ Begins(rx, Number) /\ Continues(toClient[socket], Number, Len(rx))

PlaceInv ==
  inStep =>
    /\ stray = 0
    /\ connected /\ call # "receiving" => Silent /\ Quiet(socket)
    /\ call = "receiving" =>
         \/ Silent /\ (Live(socket) => Messages(Pending(socket)) \subseteq {Number})
         \/ Coming /\ Quiet(socket)

LEMMA InitPlace == Init => PlaceInv
BY DEF Init, PlaceInv

LEMMA Numbers ==
  ASSUME StreamInv, call # "idle"
  PROVE  /\ Number \in 1..Number /\ Number \in Call /\ AnswerSize[asked[Number]] \in Nat \ {0}
<1>1. TypeOK
  BY DEF StreamInv
<1>2. Len(outcome) = Number - 1 /\ Len(outcome) \in Nat /\ Number \in Nat
  BY <1>1, LenProperties, Sizes DEF TypeOK
<1>3. Number \in 1..Number
  BY <1>2
<1>4. QED
  BY <1>1, <1>3, Sizes

(* A call of a client in step gets its own answer, all of it and no more.   *)
LEMMA TakeInStep ==
  ASSUME StreamInv, PlaceInv, inStep, Take
  PROVE  /\ Returns("own") /\ stray' = stray /\ rx' = <<>>
         /\ toClient[socket] = <<>> /\ Quiet(socket) /\ Number \in ToSet(handled)
<1>1. /\ TypeOK /\ call = "receiving" /\ connected /\ socket \in Socket
      /\ rx # <<>> /\ Len(rx) >= HeadSize /\ rx' = After(rx, HeadSize)
  BY DEF StreamInv, Joined, Take, Whole, HeadKnown, TypeOK, Socket
<1>2. Coming /\ Quiet(socket)
  BY <1>1 DEF PlaceInv, Silent
<1>3. /\ rx \in Seq(Piece) /\ 1 \in DOMAIN rx /\ Len(rx) \in Nat /\ DOMAIN rx = 1..Len(rx)
      /\ toClient[socket] \in Seq(Piece) /\ Len(toClient[socket]) \in Nat
  BY <1>1, PendingType, PieceTypes DEF TypeOK
<1>4. rx[1] = [of |-> Number, i |-> 1]
  BY <1>2, <1>3 DEF Coming, Begins, Continues
<1>5. HeadKind = asked[Number] /\ HeadSize = AnswerSize[asked[Number]]
  BY <1>4 DEF HeadKind, HeadSize
<1>6. HeadSize \in Nat /\ Number \in ToSet(handled)
  BY <1>1, <1>4, HeadOfAnswer
<1>7. Len(rx) + Len(toClient[socket]) <= HeadSize
  BY <1>2, <1>5 DEF Coming, Begins, Continues
<1>8. Len(rx) = HeadSize /\ Len(toClient[socket]) = 0
  <2>1. \A l, m, z \in Nat : l >= z /\ l + m <= z => l = z /\ m = 0
    OBVIOUS
  <2>2. Len(rx) >= HeadSize
    BY <1>1
  <2>3. Len(rx) \in Nat /\ Len(toClient[socket]) \in Nat
    BY <1>3
  <2>4. QED
    BY <1>6, <1>7, <2>1, <2>2, <2>3
<1>9. toClient[socket] = <<>>
  BY <1>3, <1>8, PieceTypes
<1>10. rx' = <<>>
  <2>1. After(rx, HeadSize) \in Seq(Piece) /\ Len(After(rx, HeadSize)) = 0
    <3>1. HeadSize \in 0..Len(rx)
      BY <1>3, <1>6, <1>8
    <3>2. Len(After(rx, HeadSize)) = Len(rx) - HeadSize
      BY <1>3, <3>1, AfterProperties
    <3>3. After(rx, HeadSize) \in Seq(Piece)
      BY <1>3, <3>1, AfterProperties
    <3>4. QED
      BY <1>3, <1>8, <3>2, <3>3
  <2>2. QED
    BY <1>1, <2>1, PieceTypes
<1>11. SubSeq(rx, 1, HeadSize) = Answer(Number)
  <2> DEFINE a == Answer(Number)
  <2>1. SubSeq(rx, 1, HeadSize) = rx
    BY <1>3, <1>8, SubSeqFull
  <2>2. Number \in Call
    BY <1>1, Numbers
  <2>3. a \in Seq(Piece) /\ Len(a) = HeadSize /\ \A i \in 1..HeadSize : a[i] = [of |-> Number, i |-> i]
    <3>1. a = Pieces(Number, HeadSize)
      BY <1>5 DEF Answer
    <3>2. \A n \in Call, z \in Nat :
            LET b == Pieces(n, z)
            IN  b \in Seq(Piece) /\ Len(b) = z /\ \A i \in 1..z : b[i] = [of |-> n, i |-> i]
      BY DEF Pieces, Piece
    <3>3. QED
      BY <1>6, <2>2, <3>1, <3>2
  <2> HIDE DEF a
  <2>4. \A i \in 1..Len(rx) : rx[i] = a[i]
    BY <1>2, <1>3, <1>8, <2>3 DEF Coming, Begins, Continues
  <2>5. rx = a
    BY <1>3, <1>8, <2>3, <2>4, SeqEqual
  <2>6. QED
    BY <2>1, <2>5 DEF a
<1>12. Returns("own") /\ stray' = stray
  BY <1>5, <1>11 DEF Take
<1>13. QED
  BY <1>2, <1>6, <1>9, <1>10, <1>12

(* It never meets the middle of a message.                                  *)
LEMMA NeverGarbled ==
  ASSUME StreamInv, PlaceInv, inStep, TakeGarbled
  PROVE  FALSE
<1>1. TypeOK /\ call = "receiving" /\ rx # <<>> /\ ~HeadKnown
  BY DEF StreamInv, TakeGarbled
<1>2. Coming
  BY <1>1 DEF PlaceInv, Silent
<1>3. 1 \in DOMAIN rx
  BY <1>1, PieceTypes DEF TypeOK
<1>4. rx[1].i = 1
  BY <1>2, <1>3 DEF Coming, Begins, Continues
<1>5. QED
  BY <1>1, <1>4 DEF HeadKnown

(* A step that the client has no part in.                                   *)
LEMMA PlaceKept ==
  ASSUME StreamInv, PlaceInv, UNCHANGED clientVars,
         connected => /\ Silent => Silent'
                      /\ call # "idle" /\ Coming => Coming'
                      /\ Live(socket)' =>
                           /\ Live(socket)
                           /\ Messages(Pending(socket))' \subseteq Messages(Pending(socket))
  PROVE  PlaceInv'
<1>1. TypeOK
  BY DEF StreamInv
<1>2. /\ call' = call /\ asked' = asked /\ connected' = connected /\ socket' = socket
      /\ rx' = rx /\ stray' = stray /\ inStep' = inStep /\ Number' = Number
  BY <1>1, ClientKept
<1>3. SUFFICES ASSUME inStep, connected
               PROVE  /\ call # "receiving" => (Silent /\ Quiet(socket))'
                      /\ call = "receiving" =>
                           \/ Silent' /\ (Live(socket) => Messages(Pending(socket)) \subseteq {Number})'
                           \/ (Coming /\ Quiet(socket))'
  BY <1>2 DEF PlaceInv, StreamInv, Joined
<1>4. /\ Live(socket)' => /\ Live(socket)
                          /\ Messages(Pending(socket))' \subseteq Messages(Pending(socket))
      /\ (Silent => Silent') /\ (call # "idle" /\ Coming => Coming')
  BY <1>3
<1>5. Quiet(socket) => Quiet(socket)'
  BY <1>4 DEF Quiet
<1>6. QED
  BY <1>2, <1>3, <1>4, <1>5 DEF PlaceInv
(* An answer that is read in parts is still the answer.                     *)
LEMMA ComingRead ==
  ASSUME NEW r \in Seq(Piece), NEW x \in Seq(Piece), NEW n \in 1..Len(x), NEW m,
         Begins(r, m), Continues(x, m, Len(r))
  PROVE  LET r2 == r \o SubSeq(x, 1, n)
             x2 == After(x, n)
         IN  /\ Len(r2) + Len(x2) = Len(r) + Len(x)
             /\ Begins(r2, m) /\ Continues(x2, m, Len(r2))
<1> DEFINE y == SubSeq(x, 1, n)
           r2 == r \o y
           x2 == After(x, n)
<1>1. /\ Len(r) \in Nat /\ DOMAIN r = 1..Len(r) /\ Len(x) \in Nat /\ DOMAIN x = 1..Len(x)
      /\ n \in Nat /\ n <= Len(x) /\ n \in 0..Len(x)
  BY PieceTypes
<1>2. y \in Seq(Piece) /\ Len(y) = n /\ \A p \in 1..n : y[p] = x[p]
  BY <1>1
<1> HIDE DEF y
<1>3. /\ r2 \in Seq(Piece) /\ Len(r2) = Len(r) + Len(y)
      /\ \A p \in 1..Len(r) + Len(y) : r2[p] = IF p <= Len(r) THEN r[p] ELSE y[p - Len(r)]
  BY <1>2, ConcatProperties
<1>4. /\ x2 \in Seq(Piece) /\ Len(x2) = Len(x) - n /\ \A p \in 1..Len(x) - n : x2[p] = x[p + n]
  BY <1>1, AfterProperties
<1> HIDE DEF r2, x2
<1>5. DOMAIN r2 = 1..Len(r) + n /\ DOMAIN x2 = 1..Len(x) - n
  BY <1>2, <1>3, <1>4, PieceTypes
<1>10. /\ \A p \in DOMAIN r : r[p] = [of |-> m, i |-> p]
      /\ \A p \in DOMAIN x : x[p] = [of |-> m, i |-> Len(r) + p]
  BY DEF Begins, Continues
<1>6. ASSUME NEW p \in DOMAIN r2 PROVE r2[p] = [of |-> m, i |-> p]
  <2>1. p \in Nat /\ p > 0 /\ p <= Len(r) + n
    BY <1>1, <1>5
  <2>2. CASE p <= Len(r)
    BY <1>1, <1>2, <1>3, <1>10, <2>1, <2>2
  <2>3. CASE ~(p <= Len(r))
    <3>1. r2[p] = y[p - Len(r)] /\ p - Len(r) \in 1..n
      BY <1>1, <1>2, <1>3, <2>1, <2>3
    <3>2. r2[p] = x[p - Len(r)] /\ p - Len(r) \in DOMAIN x
      BY <1>1, <1>2, <3>1
    <3>3. Len(r) + (p - Len(r)) = p
      BY <1>1, <2>1
    <3>4. QED
      BY <1>10, <3>2, <3>3
  <2>4. QED
    BY <2>2, <2>3
<1>7. ASSUME NEW p \in DOMAIN x2 PROVE x2[p] = [of |-> m, i |-> Len(r2) + p]
  <2>1. p \in 1..Len(x) - n /\ p + n \in DOMAIN x /\ Len(r) + (p + n) = Len(r2) + p
    BY <1>1, <1>2, <1>3, <1>5
  <2>2. QED
    BY <1>4, <1>10, <2>1
<1>8. Len(r2) + Len(x2) = Len(r) + Len(x)
  BY <1>1, <1>2, <1>3, <1>4
<1>9. QED
  BY <1>6, <1>7, <1>8 DEF r2, x2, y, Begins, Continues

LEMMA ClientPlace ==
  ASSUME StreamInv, PlaceInv, Begin \/ Sending \/ Receiving
  PROVE  PlaceInv'
<1>1. TypeOK
  BY DEF StreamInv
<1>2. CASE Begin
  <2>1. /\ call = "idle" /\ call' = "sending" /\ connected' = connected /\ socket' = socket
        /\ rx' = rx /\ stray' = stray /\ inStep' = inStep /\ toClient' = toClient
        /\ toServer' = toServer /\ thread' = thread /\ buffer' = buffer
    BY <1>2 DEF Begin, linkVars, serverVars
  <2>2. (Silent /\ Quiet(socket))' <=> Silent /\ Quiet(socket)
    BY <2>1 DEF Silent, Quiet, Live, Pending, Messages
  <2>3. QED
    BY <2>1, <2>2 DEF PlaceInv
<1>3. CASE EnsureTcp
  <2>1. SUFFICES ASSUME inStep' PROVE PlaceInv'
    BY DEF PlaceInv
  <2>2. /\ inStep /\ rx = <<>> /\ rx' = rx /\ stray' = stray /\ call' = "sending"
        /\ socket' = socket + 1 /\ toClient' = toClient
        /\ toServer' = toServer /\ thread' = thread /\ buffer' = buffer
    BY <1>3, <2>1 DEF EnsureTcp, serverVars
  <2>3. socket + 1 \in Socket /\ socket + 1 > socket
    BY <1>1, <1>3, ConnectionAssumption DEF EnsureTcp, TypeOK, Socket
  <2>4. /\ toServer[socket + 1] = <<>> /\ toClient[socket + 1] = <<>> /\ buffer[socket + 1] = <<>>
    BY <2>3 DEF StreamInv, Unused, Emptied
  <2>5. Silent'
    BY <2>2, <2>4 DEF Silent
  <2>6. Quiet(socket)'
    <3>1. Pending(socket)' = <<>>
      BY <2>2, <2>4, EmptySeq, ConcatEmptySeq DEF Pending
    <3>2. DOMAIN <<>> = {}
      OBVIOUS
    <3>3. QED
      BY <3>1, <3>2 DEF Quiet, Messages
  <2>7. QED
    BY <2>2, <2>5, <2>6 DEF PlaceInv
<1>4. CASE ConnectFails \/ SendFails \/ ReceiveEnd
  <2>1. call' = "idle" /\ ~connected' /\ inStep' = inStep /\ stray' = stray
    BY <1>4 DEF ConnectFails, SendFails, ReceiveEnd, Returns
  <2>2. QED
    BY <2>1 DEF PlaceInv
<1>5. CASE Send
  <2>1. SUFFICES ASSUME inStep' PROVE PlaceInv'
    BY DEF PlaceInv
  <2>2. /\ inStep /\ connected /\ call = "sending" /\ call' = "receiving"
        /\ rx' = rx /\ stray' = stray /\ toClient' = toClient
    BY <1>5, <2>1 DEF Send
  <2>3. /\ socket \in Socket /\ thread' = thread /\ socket' = socket /\ Number' = Number
        /\ Messages(Pending(socket))' \subseteq Messages(Pending(socket)) \cup {Number}
    BY <1>5, SendMessages
  <2>4. Silent /\ Quiet(socket) /\ stray = 0
    BY <2>2 DEF PlaceInv
  <2>5. Silent' /\ (Live(socket) => Messages(Pending(socket)) \subseteq {Number})'
    BY <2>2, <2>3, <2>4 DEF Silent, Quiet, Live
  <2>6. QED
    BY <2>2, <2>4, <2>5 DEF PlaceInv
<1>6. CASE Take
  <2>1. SUFFICES ASSUME inStep' PROVE PlaceInv'
    BY DEF PlaceInv
  <2>2. /\ inStep /\ socket' = socket /\ toClient' = toClient
        /\ toServer' = toServer /\ thread' = thread /\ buffer' = buffer
    BY <1>6, <2>1 DEF Take, linkVars, serverVars
  <2>3. /\ Returns("own") /\ stray' = stray /\ rx' = <<>>
        /\ toClient[socket] = <<>> /\ Quiet(socket)
    BY <1>6, <2>2, TakeInStep
  <2>4. Silent' /\ Quiet(socket)'
    <3>1. Pending(socket)' = Pending(socket) /\ Live(socket)' = Live(socket)
      BY <2>2 DEF Pending, Live
    <3>2. Messages(Pending(socket))' = Messages(Pending(socket))
      BY <3>1 DEF Messages
    <3>3. QED
      BY <2>2, <2>3, <3>1, <3>2 DEF Silent, Quiet
  <2>5. call' = "idle" /\ stray = 0
    BY <2>2, <2>3 DEF Returns, PlaceInv
  <2>6. QED
    BY <2>3, <2>4, <2>5 DEF PlaceInv
<1>7. CASE TakeGarbled
  <2>1. inStep' = inStep
    BY <1>7 DEF TakeGarbled
  <2>2. QED
    BY <1>7, <2>1, NeverGarbled DEF PlaceInv
<1>8. CASE Receive
  <2>1. SUFFICES ASSUME inStep' PROVE PlaceInv'
    BY DEF PlaceInv
  <2>2. /\ inStep /\ call = "receiving" /\ call' = call /\ connected' = connected
        /\ socket' = socket /\ stray' = stray /\ asked' = asked
        /\ toServer' = toServer /\ thread' = thread /\ buffer' = buffer
        /\ connected /\ socket \in Socket
    BY <1>1, <1>8, <2>1 DEF Receive, serverVars, StreamInv, Joined, TypeOK, Socket
  <2> DEFINE x == toClient[socket]
  <2>3. PICK n \in 1..Len(x) : /\ rx' = rx \o SubSeq(x, 1, n)
                               /\ toClient' = [toClient EXCEPT ![socket] = After(@, n)]
    BY <1>8 DEF Receive
  <2>4. rx \in Seq(Piece) /\ x \in Seq(Piece) /\ toClient'[socket] = After(x, n)
    BY <1>1, <2>2, <2>3 DEF TypeOK
  <2>5. x # <<>>
    BY <2>4, EmptySeq
  <2>6. Coming /\ Quiet(socket) /\ stray = 0
    BY <2>2, <2>5 DEF PlaceInv, Silent
  <2>7. /\ Len(rx') + Len(After(x, n)) = Len(rx) + Len(x)
        /\ Begins(rx', Number) /\ Continues(After(x, n), Number, Len(rx'))
    <3>1. Begins(rx, Number) /\ Continues(x, Number, Len(rx))
      BY <2>6 DEF Coming
    <3> HIDE DEF x
    <3> DEFINE r2 == rx \o SubSeq(x, 1, n)
               x2 == After(x, n)
    <3>2. /\ Len(r2) + Len(x2) = Len(rx) + Len(x)
          /\ Begins(r2, Number) /\ Continues(x2, Number, Len(r2))
      BY <2>4, <3>1, ComingRead
    <3>3. rx' = r2
      BY <2>3
    <3> HIDE DEF r2, x2
    <3>4. QED
      BY <3>2, <3>3 DEF x2
  <2>8. Number' = Number
    BY <2>2 DEF Number
  <2>9. Coming'
    BY <2>2, <2>4, <2>6, <2>7, <2>8 DEF Coming, Begins, Continues
  <2>10. Quiet(socket)'
    <3>1. Pending(socket)' = Pending(socket) /\ Live(socket)' = Live(socket)
      BY <2>2 DEF Pending, Live
    <3>2. Messages(Pending(socket))' = Messages(Pending(socket))
      BY <3>1 DEF Messages
    <3>3. QED
      BY <2>6, <3>1, <3>2 DEF Quiet
  <2>11. QED
    BY <2>2, <2>6, <2>9, <2>10 DEF PlaceInv
<1>9. QED
  BY <1>2, <1>3, <1>4, <1>5, <1>6, <1>7, <1>8 DEF Sending, Receiving
LEMMA SamePlace ==
  ASSUME TypeOK, UNCHANGED clientVars, toClient'[socket] = toClient[socket]
  PROVE  (Silent => Silent') /\ (Coming => Coming')
<1>1. socket' = socket /\ rx' = rx /\ asked' = asked /\ Number' = Number
  BY ClientKept
<1>2. toClient'[socket'] = toClient[socket]
  BY <1>1
<1>3. QED
  BY <1>1, <1>2 DEF Silent, Coming, Begins, Continues

LEMMA LossPlace ==
  ASSUME StreamInv, UNCHANGED clientVars, socket \in Socket, NEW c \in Socket, Loses(c)
  PROVE  (Silent => Silent') /\ (call # "idle" /\ Coming => Coming')
<1>1. TypeOK /\ socket' = socket /\ rx' = rx /\ asked' = asked /\ Number' = Number
  BY ClientKept DEF StreamInv
<1>2. PICK a \in Prefixes(toClient[c]) : toClient' = [toClient EXCEPT ![c] = a]
  BY DEF Loses, Cut, GoSilent, Lose
<1>3. CASE c # socket
  <2>1. toClient'[socket] = toClient[socket]
    BY <1>1, <1>2, <1>3 DEF TypeOK
  <2>2. QED
    BY <1>1, <2>1, SamePlace
<1>4. CASE c = socket
  <2> DEFINE x == toClient[socket]
  <2>1. toClient'[socket'] = a /\ x \in Seq(Piece)
    BY <1>1, <1>2, <1>4 DEF TypeOK
  <2>2. PICK n \in 0..Len(x) : a = SubSeq(x, 1, n)
    BY <1>2, <1>4 DEF Prefixes
  <2>3. Len(x) \in Nat /\ DOMAIN x = 1..Len(x)
    BY <2>1, PieceTypes
  <2>4. a \in Seq(Piece) /\ Len(a) = n /\ (\A p \in 1..n : a[p] = x[p]) /\ DOMAIN a = 1..n
    BY <2>1, <2>2, <2>3
  <2>5. Silent => Silent'
    <3>1. x = <<>> => Len(x) = 0
      OBVIOUS
    <3>2. x = <<>> => Len(a) = 0
      BY <2>2, <2>4, <3>1
    <3>3. x = <<>> => a = <<>>
      BY <2>4, <3>2, PieceTypes
    <3>4. QED
      BY <1>1, <2>1, <3>3 DEF Silent
  <2>6. ASSUME call # "idle", Coming PROVE Coming'
    <3>1. AnswerSize[asked[Number]] \in Nat /\ Len(rx) \in Nat
      BY <1>1, <2>6, Numbers, PieceTypes DEF TypeOK
    <3>2. Len(rx) + Len(x) <= AnswerSize[asked[Number]]
      BY <2>6 DEF Coming
    <3>3. \A p \in DOMAIN a : p \in DOMAIN x /\ a[p] = x[p]
      BY <2>3, <2>4
    <3>4. Continues(a, Number, Len(rx))
      BY <2>6, <3>3 DEF Coming, Continues
    <3>5. Len(rx) + Len(a) <= AnswerSize[asked[Number]]
      BY <2>3, <2>4, <3>1, <3>2
    <3>6. QED
      BY <1>1, <2>1, <2>6, <3>4, <3>5 DEF Coming
  <2>7. QED
    BY <2>5, <2>6
<1>5. QED
  BY <1>3, <1>4
(* The answer to the call that waits is sent on its connection.             *)
LEMMA SendAnswerPlace ==
  ASSUME StreamInv, PlaceInv, NEW c \in Socket, SendAnswer(c)
  PROVE  PlaceInv'
<1> DEFINE head == buffer[c][1].of
<1>1. TypeOK /\ UNCHANGED clientVars
  BY DEF StreamInv, SendAnswer
<1>2. /\ call' = call /\ asked' = asked /\ connected' = connected /\ socket' = socket
      /\ rx' = rx /\ stray' = stray /\ inStep' = inStep /\ Number' = Number
  BY <1>1, ClientKept
<1>3. /\ Live(c) /\ thread'[c] = "reading" /\ head \in Messages(Pending(c)) /\ head \in 1..Number
      /\ \A k \in Socket : k # c => /\ thread'[k] = thread[k]
                                   /\ Messages(Pending(k))' = Messages(Pending(k))
      /\ Messages(Pending(c))' \subseteq Messages(Pending(c)) \ {head}
  BY SendAnswerMessages
<1> HIDE DEF head
<1>4. connected => socket \in Socket
  BY <1>1 DEF TypeOK, Socket
<1>5. CASE connected /\ c # socket
  <2>1. toClient'[socket] = toClient[socket]
    BY <1>1, <1>4, <1>5 DEF SendAnswer, TypeOK
  <2>2. (Silent => Silent') /\ (Coming => Coming')
    BY <1>1, <2>1, SamePlace
  <2>3. Live(socket)' => /\ Live(socket)
                        /\ Messages(Pending(socket))' \subseteq Messages(Pending(socket))
    <3>1. \A k \in Socket : k # c =>
             /\ Live(k)' => Live(k)
             /\ Messages(Pending(k))' \subseteq Messages(Pending(k))
      BY <1>3 DEF Live
    <3>2. QED
      BY <1>2, <1>4, <1>5, <3>1 DEF Live, Messages, Pending
  <2>4. QED
    BY <1>1, <2>2, <2>3, PlaceKept
<1>6. CASE connected /\ c = socket
  <2>1. SUFFICES ASSUME inStep' PROVE PlaceInv'
    BY DEF PlaceInv
  <2>2. /\ inStep /\ call = "receiving" /\ Silent /\ Messages(Pending(c)) \subseteq {Number}
        /\ stray = 0
    BY <1>2, <1>3, <1>6, <2>1 DEF PlaceInv, Quiet
  <2>3. head = Number /\ Messages(Pending(c))' = {}
    BY <1>3, <2>2
  <2>4. Messages(Pending(socket))' = {}
    <3>1. socket' = c
      BY <1>2, <1>6
    <3>2. QED
      BY <2>3, <3>1 DEF Messages, Pending
  <2>5. Quiet(socket)'
    BY <2>4 DEF Quiet
  <2>6. CASE link[c] = "open"
    <3> DEFINE long == AnswerSize[asked[Number]]
    <3>1. long \in Nat \ {0} /\ Number \in Call
      BY <2>2, Numbers
    <3>2. toClient'[c] = toClient[c] \o Pieces(Number, long)
      <4>1. toClient' = [toClient EXCEPT ![c] = @ \o Answer(head)]
        BY <2>6 DEF SendAnswer, head
      <4>2. QED
        BY <1>1, <2>3, <4>1 DEF Answer, TypeOK
    <3> HIDE DEF long
    <3> DEFINE a == Pieces(Number, long)
    <3>3. /\ a \in Seq(Piece) /\ Len(a) = long /\ DOMAIN a = 1..long
          /\ \A i \in 1..long : a[i] = [of |-> Number, i |-> i]
      BY <3>1 DEF Pieces, Piece
    <3>4. toClient[c] = <<>> /\ rx = <<>>
      BY <1>6, <2>2 DEF Silent
    <3>5. <<>> \o a = a
      BY <3>3, ConcatEmptySeq
    <3>6. toClient'[socket'] = a /\ rx' = <<>>
      BY <1>2, <1>6, <3>2, <3>4, <3>5
    <3> HIDE DEF a
    <3>7. Len(rx') = 0 /\ DOMAIN rx' = {}
      BY <3>6
    <3>8. \A p \in DOMAIN a : a[p] = [of |-> Number, i |-> 0 + p]
      BY <3>1, <3>3
    <3>9. Begins(rx', Number) /\ Continues(a, Number, 0)
      BY <3>7, <3>8 DEF Begins, Continues
    <3>10. 0 + Len(a) <= AnswerSize[asked[Number]]
      BY <3>1, <3>3 DEF long
    <3>11. Coming'
      BY <1>2, <3>6, <3>7, <3>9, <3>10 DEF Coming
    <3>12. QED
      BY <1>2, <2>2, <2>5, <3>11 DEF PlaceInv
  <2>7. CASE link[c] # "open"
    <3>1. toClient' = toClient
      BY <2>7 DEF SendAnswer
    <3>2. Silent'
      BY <1>2, <2>2, <3>1 DEF Silent
    <3>3. (Messages(Pending(socket)) \subseteq {Number})'
      BY <2>4
    <3>4. QED
      BY <1>2, <2>2, <3>2, <3>3 DEF PlaceInv
  <2>8. QED
    BY <2>6, <2>7
<1>7. CASE ~connected
  BY <1>1, <1>7, PlaceKept
<1>8. QED
  BY <1>1, <1>5, <1>6, <1>7 DEF TypeOK

LEMMA ProcessPlace ==
  ASSUME StreamInv, PlaceInv, NEW c \in Socket, Process(c)
  PROVE  PlaceInv'
<1>1. TypeOK /\ UNCHANGED clientVars /\ toClient' = toClient
  BY DEF StreamInv, Process, linkVars
<1>2. (Silent => Silent') /\ (Coming => Coming')
  BY <1>1, SamePlace
<1>3. \A k \in Socket :
        Live(k)' => Live(k) /\ Messages(Pending(k))' \subseteq Messages(Pending(k))
  <2>1. /\ thread[c] = "reading"
        /\ \A k \in Socket : k # c => /\ thread'[k] = thread[k]
                                     /\ Messages(Pending(k))' = Messages(Pending(k))
        /\ Messages(Pending(c))' \subseteq Messages(Pending(c))
    BY ProcessMessages
  <2>2. QED
    BY <2>1 DEF Live
<1>4. connected => (Live(socket)' =>
        Live(socket) /\ Messages(Pending(socket))' \subseteq Messages(Pending(socket)))
  <2>1. connected => socket \in Socket
    BY <1>1 DEF TypeOK, Socket
  <2>2. socket' = socket
    BY <1>1 DEF clientVars
  <2>3. QED
    BY <1>3, <2>1, <2>2 DEF Live, Messages, Pending
<1>5. QED
  BY <1>1, <1>2, <1>4, PlaceKept

LEMMA NextPlace == StreamInv /\ PlaceInv /\ [Next]_vars => PlaceInv'
<1>1. SUFFICES ASSUME StreamInv, PlaceInv, [Next]_vars PROVE PlaceInv'
  OBVIOUS
<1>2. CASE Client
  BY <1>1, <1>2, ClientPlace DEF Client
<1>3. ASSUME NEW c \in Socket, Process(c) \/ SendAnswer(c) PROVE PlaceInv'
  BY <1>1, <1>3, ProcessPlace, SendAnswerPlace
<1>4. CASE ~Client /\ \A c \in Socket : ~Process(c) /\ ~SendAnswer(c)
  <2>1. TypeOK
    BY <1>1 DEF StreamInv
  <2>2. /\ UNCHANGED clientVars
        /\ toClient' = toClient \/ \E c \in Socket : Loses(c)
    <3>1. ASSUME NEW c \in Socket, Loses(c) \/ TakeUp(c) \/ Serve(c)
          PROVE  UNCHANGED clientVars /\ (toClient' = toClient \/ Loses(c))
      BY <1>4, <3>1 DEF Loses, Cut, GoSilent, Lose, TakeUp, Accept, AcceptFails, Serve, Read,
                         Close, linkVars
    <3>2. CASE Stop \/ Gone \/ UNCHANGED vars
      BY <3>2 DEF Stop, Gone, vars, linkVars
    <3>3. QED
      BY <1>1, <1>4, <3>1, <3>2 DEF Next
  <2>3. \A k \in Socket :
          Live(k)' => Live(k) /\ Messages(Pending(k))' \subseteq Messages(Pending(k))
    <3>1. ~Send
      BY <1>4 DEF Client, Sending
    <3>2. QED
      BY <1>1, <1>4, <3>1, StreamsShrink
  <2>4. connected => socket \in Socket
    BY <2>1 DEF TypeOK, Socket
  <2>5. connected => (Live(socket)' =>
          Live(socket) /\ Messages(Pending(socket))' \subseteq Messages(Pending(socket)))
    <3>1. socket' = socket
      BY <2>2 DEF clientVars
    <3>2. QED
      BY <2>3, <2>4, <3>1 DEF Live, Messages, Pending
  <2>6. connected => (Silent => Silent') /\ (call # "idle" /\ Coming => Coming')
    <3>1. CASE toClient' = toClient
      BY <2>1, <2>2, <3>1, SamePlace
    <3>2. CASE connected /\ \E c \in Socket : Loses(c)
      BY <1>1, <2>2, <2>4, <3>2, LossPlace
    <3>3. QED
      BY <2>2, <3>1, <3>2
  <2>7. QED
    BY <1>1, <2>2, <2>5, <2>6, PlaceKept
<1>5. QED
  BY <1>2, <1>3, <1>4
-----------------------------------------------------------------------------
LEMMA AllHold == Spec => [](StreamInv /\ OnceInv /\ PlaceInv)
<1>1. Init => StreamInv /\ OnceInv /\ PlaceInv
  BY InitStreams, InitOnce, InitPlace
<1>2. (StreamInv /\ OnceInv /\ PlaceInv) /\ [Next]_vars => (StreamInv /\ OnceInv /\ PlaceInv)'
  BY NextStreams, NextOnce, NextPlace
<1>3. QED
  BY <1>1, <1>2, PTL DEF Spec

(* Both ends keep their place in the streams, however the messages are      *)
(* split, cut off or left unanswered: what the server reads begins with a   *)
(* request, and nothing is put aside by a client that began every           *)
(* connection with an empty buffer.                                         *)
THEOREM InPlace == Spec => []KeepsPlace
<1>1. StreamInv /\ PlaceInv => KeepsPlace
  BY HeadOfBuffer DEF KeepsPlace, NothingStray, ServerInStep, PlaceInv
<1>2. QED
  BY <1>1, AllHold, PTL

LEMMA InitExchange == Init => E!Init
BY DEF Init, E!Init, Number

(* Each step of the connection is a step of the exchange, or none.          *)
LEMMA ReturnRefines ==
  ASSUME StreamInv, call # "idle", asked' = asked, handled' = handled, inStep' = inStep,
         NEW o \in {"own", "other", "none", "failed"}, Returns(o),
         o = "own" => Number \in ToSet(handled), o = "other" => ~inStep
  PROVE  E!Return
<1>1. Number' = Number
  BY DEF Number
<1>2. QED
  BY <1>1 DEF E!Return, E!Outcome, Returns, ToSet, E!ToSet

LEMMA ClientExchange ==
  ASSUME StreamInv, OnceInv, PlaceInv, Begin \/ Sending \/ Receiving
  PROVE  E!Next \/ UNCHANGED E!vars
<1>1. TypeOK
  BY DEF StreamInv
<1>2. CASE Begin
  <2>1. PICK kind \in Kind : asked' = Append(asked, kind)
    BY <1>2 DEF Begin
  <2>2. Number' = Number + 1
    BY <1>1, <2>1, AppendProperties DEF TypeOK, Number
  <2>3. E!Begin
    BY <1>2, <2>2 DEF Begin, serverVars, E!Begin
  <2>4. QED
    BY <2>3 DEF E!Next
<1>3. CASE EnsureTcp
  <2>1. call' = call /\ Number' = Number /\ handled' = handled /\ outcome' = outcome
    BY <1>3 DEF EnsureTcp, serverVars, Number
  <2>2. CASE rx = <<>>
    <3>1. inStep' = inStep
      BY <1>1, <1>3, <2>2 DEF EnsureTcp, TypeOK
    <3>2. QED
      BY <2>1, <3>1 DEF E!vars
  <2>3. CASE rx # <<>>
    <3>1. inStep' = FALSE
      BY <1>3, <2>3 DEF EnsureTcp
    <3>2. E!LoseStep
      BY <2>1, <3>1 DEF E!LoseStep
    <3>3. QED
      BY <3>2 DEF E!Next
  <2>4. QED
    BY <2>2, <2>3
<1>4. CASE ConnectFails \/ SendFails \/ ReceiveEnd
  <2>1. /\ call # "idle" /\ asked' = asked /\ handled' = handled /\ inStep' = inStep
        /\ Returns("failed") \/ Returns("none")
    BY <1>4 DEF ConnectFails, SendFails, ReceiveEnd, serverVars
  <2>2. E!Return
    BY <2>1, ReturnRefines
  <2>3. QED
    BY <2>2 DEF E!Next
<1>5. CASE Send \/ Receive
  <2>1. /\ call # "idle" /\ call' # "idle" /\ asked' = asked /\ handled' = handled
        /\ outcome' = outcome /\ inStep' = inStep
    BY <1>5 DEF Send, Receive, serverVars
  <2>2. QED
    BY <2>1 DEF E!vars, Number
<1>6. CASE Take
  <2>1. call = "receiving" /\ asked' = asked /\ handled' = handled /\ inStep' = inStep
    BY <1>6 DEF Take, serverVars
  <2>2. CASE inStep
    <3>1. Returns("own") /\ Number \in ToSet(handled)
      BY <1>6, <2>2, TakeInStep
    <3>2. E!Return
      BY <2>1, <3>1, ReturnRefines
    <3>3. QED
      BY <3>2 DEF E!Next
  <2>3. CASE ~inStep /\ HeadKind = asked[Number]
    <3>1. CASE SubSeq(rx, 1, HeadSize) = Answer(Number)
      <4>1. Returns("own")
        BY <1>6, <2>3, <3>1 DEF Take
      <4>2. Number \in ToSet(handled)
        <5>1. /\ rx \in Seq(Piece) /\ rx[1].of \in ToSet(handled) /\ HeadSize \in Nat \ {0}
              /\ Len(rx) >= HeadSize /\ Len(rx) \in Nat
          BY <1>6, HeadOfAnswer, PieceTypes DEF Take, Whole, HeadKnown
        <5> DEFINE x == SubSeq(rx, 1, HeadSize)
                   long == AnswerSize[asked[Number]]
        <5>2. x[1] = rx[1]
          BY <5>1
        <5>3. long \in Nat \ {0} /\ Number \in Call
          BY <2>1, Numbers
        <5> HIDE DEF long
        <5>4. Pieces(Number, long)[1] = [of |-> Number, i |-> 1]
          BY <5>3 DEF Pieces
        <5>5. Answer(Number)[1] = [of |-> Number, i |-> 1]
          BY <5>4 DEF Answer, long
        <5>6. rx[1].of = Number
          <6>1. rx[1] = Answer(Number)[1]
            BY <3>1, <5>2
          <6>2. QED
            BY <5>5, <6>1
        <5>7. QED
          BY <5>1, <5>6
      <4>3. E!Return
        BY <2>1, <4>1, <4>2, ReturnRefines
      <4>4. QED
        BY <4>3 DEF E!Next
    <3>2. CASE SubSeq(rx, 1, HeadSize) # Answer(Number)
      <4>1. Returns("other")
        BY <1>6, <2>3, <3>2 DEF Take
      <4>2. E!Return
        BY <2>1, <2>3, <4>1, ReturnRefines
      <4>3. QED
        BY <4>2 DEF E!Next
    <3>3. QED
      BY <3>1, <3>2
  <2>4. CASE ~inStep /\ HeadKind # asked[Number]
    <3>1. call' = call /\ outcome' = outcome
      BY <1>6, <2>4 DEF Take
    <3>2. QED
      BY <2>1, <3>1 DEF E!vars, Number
  <2>5. QED
    BY <2>2, <2>3, <2>4
<1>7. CASE TakeGarbled
  <2>1. /\ call = "receiving" /\ asked' = asked /\ handled' = handled /\ inStep' = inStep
        /\ ~inStep
    BY <1>7, NeverGarbled DEF TakeGarbled, serverVars
  <2>2. CASE Returns("other") \/ Returns("none")
    <3>1. E!Return
      BY <2>1, <2>2, ReturnRefines
    <3>2. QED
      BY <3>1 DEF E!Next
  <2>3. CASE call' = call /\ outcome' = outcome
    BY <2>1, <2>3 DEF E!vars, Number
  <2>4. QED
    BY <1>7, <2>2, <2>3 DEF TakeGarbled
<1>8. QED
  BY <1>2, <1>3, <1>4, <1>5, <1>6, <1>7 DEF Sending, Receiving

LEMMA NextExchange ==
  StreamInv /\ OnceInv /\ PlaceInv /\ [Next]_vars => [E!Next]_(E!vars)
<1>1. SUFFICES ASSUME StreamInv, OnceInv, PlaceInv, [Next]_vars
               PROVE  E!Next \/ UNCHANGED E!vars
  OBVIOUS
<1>2. CASE Client
  BY <1>1, <1>2, ClientExchange DEF Client
<1>3. ASSUME NEW c \in Socket, Process(c) PROVE E!Next
  <2>1. /\ buffer[c][1].of \in Messages(Pending(c)) /\ thread[c] = "reading"
        /\ handled' = Append(handled, buffer[c][1].of)
    BY <1>1, <1>3, ProcessMessages
  <2>2. buffer[c][1].of \notin ToSet(handled)
    BY <1>1, <2>1 DEF OnceInv, Acted, Live
  <2>3. buffer[c][1].of \in 1..Number
    BY <1>1, <1>3, HeadOfBuffer DEF Process, WholeAsk
  <2>4. call' = call /\ Number' = Number /\ outcome' = outcome /\ inStep' = inStep
    BY <1>3 DEF Process, clientVars, Number
  <2>5. E!Handle
    BY <2>1, <2>2, <2>3, <2>4 DEF E!Handle, ToSet, E!ToSet
  <2>6. QED
    BY <2>5 DEF E!Next
<1>4. CASE ~Client /\ \A c \in Socket : ~Process(c)
  <2>1. UNCHANGED clientVars /\ handled' = handled
    <3>1. ASSUME NEW c \in Socket, Loses(c) \/ TakeUp(c) \/ Serve(c)
          PROVE  UNCHANGED clientVars /\ handled' = handled
      BY <1>4, <3>1 DEF Loses, Cut, GoSilent, Lose, TakeUp, Accept, AcceptFails, Serve, Read,
                         SendAnswer, Close, serverVars
    <3>2. CASE Stop \/ Gone \/ UNCHANGED vars
      BY <3>2 DEF Stop, Gone, vars, serverVars
    <3>3. QED
      BY <1>1, <1>4, <3>1, <3>2 DEF Next
  <2>2. QED
    BY <2>1 DEF clientVars, E!vars, Number
<1>5. QED
  BY <1>2, <1>3, <1>4

(* The calls are an exchange: the server acts on a request at most once,    *)
(* and a call that returns an answer returns its own, which the server gave *)
(* after it had acted, as long as every connection began with an empty      *)
(* buffer.                                                                  *)
THEOREM ImplementsExchange == Spec => IsExchange
<1>1. Init => E!Init
  BY InitExchange
<1>2. (StreamInv /\ OnceInv /\ PlaceInv) /\ [Next]_vars => [E!Next]_(E!vars)
  BY NextExchange
<1>3. QED
  BY <1>1, <1>2, AllHold, PTL DEF Spec, IsExchange, E!Spec
=============================================================================
