-------------------------- MODULE ReplyStream_proofs --------------------------
(***************************************************************************)
(* For every run of tokens a block may commit and a reply of any length:   *)
(* until committed text is taken back, the client of a finished reply was  *)
(* sent each channel of the engine's reply, whole and once, without its    *)
(* tool markup; and a committed call is never held back.                   *)
(***************************************************************************)
EXTENDS ReplyStream, SequenceTheorems, WellFoundedInduction, TLAPS

-----------------------------------------------------------------------------
(* Sets of positions.                                                      *)

\* A non-empty set of numbers has a least element, and it is Min.
LEMMA LeastElement ==
    ASSUME NEW D, D \subseteq Nat, D # {}
    PROVE  Min(D) \in D /\ \A y \in D : Min(D) <= y
<1> DEFINE R == OpToRel(<, Nat)
<1>1. IsWellFoundedOn(R, Nat)
  BY NatLessThanWellFounded
<1>2. \A x, y \in Nat : x < y => <<x, y>> \in R
  BY DEF OpToRel
<1> HIDE DEF R
<1>3. PICK x \in D : \A y \in D : ~ (<<y, x>> \in R)
  BY <1>1, WFMin
<1>4. ASSUME NEW y \in D PROVE x <= y
  <2>1. x \in Nat /\ y \in Nat /\ ~(y < x)
    BY <1>2, <1>3
  <2> QED
    BY <2>1
<1> QED
  BY <1>4 DEF Min

\* Three sequences put together in either order.
Regroups(x, y, z) == (x \o y) \o z = x \o (y \o z)

LEMMA Regrouping ==
    \A T : \A x, y, z \in Seq(T) : Regroups(x, y, z)
<1> TAKE T
<1> TAKE x, y, z \in Seq(T)
<1> DEFINE a == x \o y
           b == y \o z
<1>1. /\ a \in Seq(T) /\ Len(a) = Len(x) + Len(y)
      /\ \A i \in 1 .. Len(x) + Len(y) : a[i] = IF i <= Len(x) THEN x[i] ELSE y[i - Len(x)]
  BY ConcatProperties
<1>2. /\ b \in Seq(T) /\ Len(b) = Len(y) + Len(z)
      /\ \A i \in 1 .. Len(y) + Len(z) : b[i] = IF i <= Len(y) THEN y[i] ELSE z[i - Len(y)]
  BY ConcatProperties
<1> HIDE DEF a, b
<1>3. /\ a \o z \in Seq(T) /\ Len(a \o z) = Len(a) + Len(z)
      /\ \A i \in 1 .. Len(a) + Len(z) : (a \o z)[i] = IF i <= Len(a) THEN a[i] ELSE z[i - Len(a)]
  <2>1. a \in Seq(T)
    BY <1>1
  <2> QED
    BY ONLY <2>1, ConcatProperties
<1>4. /\ x \o b \in Seq(T) /\ Len(x \o b) = Len(x) + Len(b)
      /\ \A i \in 1 .. Len(x) + Len(b) : (x \o b)[i] = IF i <= Len(x) THEN x[i] ELSE b[i - Len(x)]
  <2>1. b \in Seq(T)
    BY <1>2
  <2> QED
    BY ONLY <2>1, ConcatProperties
<1> DEFINE l == a \o z
           r == x \o b
<1> HIDE DEF l, r
<1>5. l = r
  <2>1. Len(x) \in Nat /\ Len(y) \in Nat /\ Len(z) \in Nat
    OBVIOUS
  <2>2. l \in Seq(T) /\ r \in Seq(T) /\ Len(l) = Len(r) /\ Len(l) = Len(x) + Len(y) + Len(z)
    BY <1>1, <1>2, <1>3, <1>4, <2>1 DEF l, r
  <2>3. ASSUME NEW i \in 1 .. Len(l) PROVE l[i] = r[i]
    <3>1. l[i] = IF i <= Len(a) THEN a[i] ELSE z[i - Len(a)]
      BY <1>1, <1>3, <2>1, <2>2 DEF l
    <3>2. r[i] = IF i <= Len(x) THEN x[i] ELSE b[i - Len(x)]
      BY <1>2, <1>4, <2>1, <2>2 DEF r
    <3>3. /\ i <= Len(x) + Len(y) => a[i] = IF i <= Len(x) THEN x[i] ELSE y[i - Len(x)]
          /\ Len(a) = Len(x) + Len(y) /\ Len(b) = Len(y) + Len(z)
          /\ i \in 1 .. Len(x) + Len(y) + Len(z)
      BY <1>1, <1>2, <2>2
    <3>4. CASE i <= Len(x)
      BY <2>1, <3>1, <3>2, <3>3, <3>4
    <3>5. CASE Len(x) < i /\ i <= Len(x) + Len(y)
      <4>1. b[i - Len(x)] = y[i - Len(x)]
        BY <1>2, <3>5
      <4>2. i <= Len(a) /\ ~(i <= Len(x))
        BY <1>2, <2>2, <3>3, <3>5
      <4> QED
        BY <3>1, <3>2, <3>3, <3>5, <4>1, <4>2
    <3>6. CASE Len(x) + Len(y) < i
      <4>1. i - Len(x) \in 1 .. Len(y) + Len(z) /\ ~(i - Len(x) <= Len(y))
        BY <2>1, <3>3, <3>6
      <4>2. b[i - Len(x)] = z[(i - Len(x)) - Len(y)]
        BY <1>2, <4>1
      <4>3. (i - Len(x)) - Len(y) = i - (Len(x) + Len(y))
        BY <2>1
      <4> QED
        BY <2>1, <3>1, <3>2, <3>3, <3>6, <4>2, <4>3
    <3> QED
      BY <2>1, <3>3, <3>4, <3>5, <3>6
  <2> QED
    BY <2>2, <2>3, SeqEqual
<1> QED
  BY <1>5 DEF l, r, a, b, Regroups

\* Nothing is wrong anywhere that starts right and goes wrong nowhere.
LEMMA NoLeastWrong ==
    ASSUME NEW N \in Nat, NEW Wrong, Wrong \subseteq 0 .. N, 0 \notin Wrong,
           \A n \in 1 .. N : n \in Wrong => n - 1 \in Wrong
    PROVE  Wrong = {}
<1> SUFFICES ASSUME Wrong # {} PROVE FALSE
  OBVIOUS
<1>1. Wrong \subseteq Nat
  OBVIOUS
<1>2. Min(Wrong) \in Wrong /\ \A y \in Wrong : Min(Wrong) <= y
  BY <1>1, LeastElement
<1> DEFINE x == Min(Wrong)
<1> HIDE DEF x
<1>3. x \in Wrong /\ \A y \in Wrong : x <= y
  BY <1>2 DEF x
<1>4. x \in 1 .. N /\ ~(x <= x - 1)
  BY <1>3
<1> QED
  BY <1>3, <1>4

\* The larger of two lengths.
LEMMA MaxOfTwo ==
    ASSUME NEW x \in Nat, NEW y \in Nat
    PROVE  Max({x, y}) \in Nat
<1>1. \E z \in {x, y} : \A w \in {x, y} : z >= w
  OBVIOUS
<1> QED
  BY <1>1 DEF Max

-----------------------------------------------------------------------------
(* Flattening.                                                             *)

\* The recursion behind FlattenSeq.
Flattens(f, seqs) ==
    f = [i \in 1 .. Len(seqs) |-> IF i = 1 THEN seqs[i] ELSE f[i - 1] \o seqs[i]]

\* It has a solution.
LEMMA FlattenExists ==
    ASSUME NEW T, NEW seqs \in Seq(Seq(T))
    PROVE  \E f : Flattens(f, seqs)
<1> DEFINE n == Len(seqs)
           Solves(f, m) == f = [i \in 1 .. m |->
                                   IF i = 1 THEN seqs[i] ELSE f[i - 1] \o seqs[i]]
           Wrong == {m \in 0 .. n : ~ \E f : Solves(f, m)}
<1>1. n \in Nat
  OBVIOUS
<1>2. 0 \notin Wrong
  <2>1. Solves([i \in 1 .. 0 |-> i], 0)
    OBVIOUS
  <2> QED
    BY <2>1
<1>3. ASSUME NEW m \in 1 .. n, m - 1 \notin Wrong PROVE m \notin Wrong
  <2>0. m - 1 \in 0 .. n /\ m \in Nat /\ m - 1 \in Nat
    BY <1>1
  <2>1. PICK f : Solves(f, m - 1)
    BY <1>3, <2>0
  <2> DEFINE g == [i \in 1 .. m |->
                     IF i = m THEN (IF m = 1 THEN seqs[m] ELSE f[m - 1] \o seqs[m]) ELSE f[i]]
             Step(i) == IF i = 1 THEN seqs[i] ELSE g[i - 1] \o seqs[i]
  <2>2. ASSUME NEW i \in 1 .. m PROVE g[i] = Step(i)
    <3>1. CASE i = m /\ m = 1
      BY <3>1
    <3>2. CASE i = m /\ m # 1
      <4>1. m - 1 \in 1 .. m /\ m - 1 # m
        BY <2>0, <3>2
      <4>2. g[m - 1] = f[m - 1] /\ g[m] = f[m - 1] \o seqs[m]
        BY <2>0, <3>2, <4>1
      <4> QED
        BY <3>2, <4>2
    <3>3. CASE i # m
      <4>1. i \in 1 .. m - 1 /\ i - 1 # m /\ (i # 1 => i - 1 \in 1 .. m)
        BY <2>0, <3>3
      <4>2. f[i] = IF i = 1 THEN seqs[i] ELSE f[i - 1] \o seqs[i]
        BY <2>1, <4>1
      <4>3. g[i] = f[i]
        BY <3>3
      <4>4. i # 1 => g[i - 1] = f[i - 1]
        BY <4>1
      <4> QED
        BY <4>2, <4>3, <4>4
    <3> QED
      BY <3>1, <3>2, <3>3
  <2>3. g = [i \in 1 .. m |-> g[i]]
    OBVIOUS
  <2>4. g = [i \in 1 .. m |-> Step(i)]
    <3> HIDE DEF g, Step
    <3> QED
      BY <2>2, <2>3
  <2> HIDE DEF g
  <2> QED
    BY <2>4
<1>4. Wrong = {}
  <2>1. Wrong \subseteq 0 .. n
    OBVIOUS
  <2>2. \A m \in 1 .. n : m \in Wrong => m - 1 \in Wrong
    BY <1>3
  <2> HIDE DEF Wrong, n
  <2> QED
    BY <1>1, <1>2, <2>1, <2>2, NoLeastWrong
<1>5. n \in 0 .. n
  BY <1>1
<1>6. \E f : Solves(f, n)
  BY <1>4, <1>5
<1> QED
  BY <1>6 DEF Flattens

\* Flattening takes the sequences one by one, from the first to the last.
LEMMA FlattenIs ==
    ASSUME NEW T, NEW seqs \in Seq(Seq(T))
    PROVE  \E h : /\ h[0] = <<>> /\ FlattenSeq(seqs) = h[Len(seqs)]
                  /\ \A i \in 1 .. Len(seqs) : h[i] = h[i - 1] \o seqs[i]
                  /\ \A i \in 0 .. Len(seqs) : h[i] \in Seq(T)
<1> DEFINE n == Len(seqs)
           f == CHOOSE g : Flattens(g, seqs)
           h == [i \in 0 .. n |-> IF i = 0 THEN <<>> ELSE f[i]]
<1>1. n \in Nat /\ 0 \in 0 .. n /\ n \in 0 .. n
  OBVIOUS
<1>2. Flattens(f, seqs)
  BY FlattenExists
<1>3. FlattenSeq(seqs) = h[n]
  <2>1. CASE n = 0
    BY <2>1 DEF FlattenSeq
  <2>2. CASE n # 0
    <3>1. FlattenSeq(seqs) = f[n]
      BY <2>2 DEF FlattenSeq, Flattens
    <3> HIDE DEF f
    <3> QED
      BY <1>1, <2>2, <3>1
  <2> QED
    BY <2>1, <2>2
<1> HIDE DEF f
<1>4. ASSUME NEW i \in 1 .. n PROVE h[i] = h[i - 1] \o seqs[i]
  <2>1. i \in 0 .. n /\ i - 1 \in 0 .. n /\ i # 0 /\ seqs[i] \in Seq(T)
    OBVIOUS
  <2>2. h[i] = IF i = 1 THEN seqs[i] ELSE f[i - 1] \o seqs[i]
    BY <1>2, <2>1 DEF Flattens
  <2>3. CASE i = 1
    <3>1. h[i - 1] = <<>>
      BY <1>1, <2>3
    <3>2. <<>> \o seqs[i] = seqs[i]
      BY <2>1
    <3> QED
      BY <2>2, <2>3, <3>1, <3>2
  <2>4. CASE i # 1
    <3>1. h[i - 1] = f[i - 1]
      BY <2>1, <2>4
    <3> QED
      BY <2>2, <2>4, <3>1
  <2> QED
    BY <2>3, <2>4
<1>5. h[0] = <<>>
  BY <1>1
<1> HIDE DEF h
<1>6. \A i \in 0 .. n : h[i] \in Seq(T)
  <2> DEFINE Wrong == {i \in 0 .. n : h[i] \notin Seq(T)}
  <2>1. 0 \notin Wrong
    <3>1. <<>> \in Seq(T)
      OBVIOUS
    <3> QED
      BY <1>5, <3>1
  <2>2. ASSUME NEW i \in 1 .. n, i - 1 \notin Wrong PROVE i \notin Wrong
    <3>1. i - 1 \in 0 .. n /\ seqs[i] \in Seq(T)
      OBVIOUS
    <3>2. h[i - 1] \in Seq(T)
      BY <2>2, <3>1
    <3>3. h[i - 1] \o seqs[i] \in Seq(T)
      BY <3>1, <3>2
    <3> QED
      BY <1>4, <3>3
  <2>3. Wrong \subseteq 0 .. n /\ \A i \in 1 .. n : i \in Wrong => i - 1 \in Wrong
    BY <2>2
  <2>4. Wrong = {}
    <3> HIDE DEF Wrong, n
    <3> QED
      BY <1>1, <2>1, <2>3, NoLeastWrong
  <2> QED
    BY <2>4
<1> QED
  BY <1>3, <1>4, <1>5, <1>6

\* Flattening sequences of T gives a sequence of T.
LEMMA FlattenType ==
    ASSUME NEW T, NEW seqs \in Seq(Seq(T))
    PROVE  FlattenSeq(seqs) \in Seq(T)
<1>1. PICK h : FlattenSeq(seqs) = h[Len(seqs)] /\ \A i \in 0 .. Len(seqs) : h[i] \in Seq(T)
  BY FlattenIs
<1>2. Len(seqs) \in 0 .. Len(seqs)
  OBVIOUS
<1> QED
  BY <1>1, <1>2

\* What is flattened of two sequences is flattened of one, then of the other.
LEMMA FlattenConcat ==
    ASSUME NEW T, NEW a \in Seq(Seq(T)), NEW b \in Seq(Seq(T))
    PROVE  FlattenSeq(a \o b) = FlattenSeq(a) \o FlattenSeq(b)
<1> DEFINE m == Len(a)
           n == Len(b)
<1>0. /\ m \in Nat /\ n \in Nat /\ a \o b \in Seq(Seq(T)) /\ Len(a \o b) = m + n
      /\ \A i \in 1 .. m : (a \o b)[i] = a[i]
      /\ \A i \in 1 .. n : (a \o b)[m + i] = b[i]
  OBVIOUS
<1>1. PICK f : /\ f[0] = <<>> /\ FlattenSeq(a) = f[m]
               /\ \A i \in 1 .. m : f[i] = f[i - 1] \o a[i]
               /\ \A i \in 0 .. m : f[i] \in Seq(T)
  BY FlattenIs
<1>2. PICK g : /\ g[0] = <<>> /\ FlattenSeq(b) = g[n]
               /\ \A i \in 1 .. n : g[i] = g[i - 1] \o b[i]
               /\ \A i \in 0 .. n : g[i] \in Seq(T)
  BY FlattenIs
<1>3. PICK h : /\ h[0] = <<>> /\ FlattenSeq(a \o b) = h[m + n]
               /\ \A i \in 1 .. m + n : h[i] = h[i - 1] \o (a \o b)[i]
  <2> DEFINE ab == a \o b
  <2>1. ab \in Seq(Seq(T)) /\ Len(ab) = m + n
    BY <1>0
  <2> HIDE DEF ab, m, n
  <2>2. PICK h : /\ h[0] = <<>> /\ FlattenSeq(ab) = h[Len(ab)]
                 /\ \A i \in 1 .. Len(ab) : h[i] = h[i - 1] \o ab[i]
                 /\ \A i \in 0 .. Len(ab) : h[i] \in Seq(T)
    BY <2>1, FlattenIs
  <2>3. /\ h[0] = <<>> /\ FlattenSeq(ab) = h[m + n]
        /\ \A i \in 1 .. m + n : h[i] = h[i - 1] \o ab[i]
    BY <2>1, <2>2
  <2> QED
    BY <2>3 DEF ab
<1> HIDE DEF m, n
<1>4. \A i \in 0 .. m : h[i] = f[i]
  <2> DEFINE Wrong == {i \in 0 .. m : h[i] # f[i]}
  <2>1. 0 \notin Wrong
    BY <1>1, <1>3
  <2>2. ASSUME NEW i \in 1 .. m, i - 1 \notin Wrong PROVE i \notin Wrong
    <3>1. i - 1 \in 0 .. m /\ i \in 1 .. m + n
      BY <1>0
    <3> QED
      BY <1>0, <1>1, <1>3, <2>2, <3>1
  <2>3. Wrong \subseteq 0 .. m /\ \A i \in 1 .. m : i \in Wrong => i - 1 \in Wrong
    BY <2>2
  <2>4. Wrong = {}
    <3> HIDE DEF Wrong
    <3> QED
      BY <1>0, <2>1, <2>3, NoLeastWrong
  <2> QED
    BY <2>4
<1>5. f[m] \in Seq(T) /\ h[m] = f[m]
  BY <1>0, <1>1, <1>4
<1>6. \A i \in 0 .. n : h[m + i] = f[m] \o g[i]
  <2> DEFINE Wrong == {i \in 0 .. n : h[m + i] # f[m] \o g[i]}
  <2>1. 0 \notin Wrong
    <3>1. f[m] \o <<>> = f[m] /\ m + 0 = m
      BY <1>0, <1>5
    <3> QED
      BY <1>2, <1>5, <3>1
  <2>2. ASSUME NEW i \in 1 .. n, i - 1 \notin Wrong PROVE i \notin Wrong
    <3>1. i - 1 \in 0 .. n /\ m + i \in 1 .. m + n /\ (m + i) - 1 = m + (i - 1)
      BY <1>0
    <3>2. h[m + i] = h[m + (i - 1)] \o b[i]
      BY <1>0, <1>3, <3>1
    <3>3. h[m + (i - 1)] = f[m] \o g[i - 1]
      BY <2>2, <3>1
    <3>4. g[i - 1] \in Seq(T) /\ b[i] \in Seq(T) /\ g[i] = g[i - 1] \o b[i]
      <4>1. i \in 1 .. Len(b)
        BY DEF n
      <4>2. b[i] \in Seq(T)
        BY <4>1
      <4> QED
        BY <1>2, <3>1, <4>2
    <3>5. (f[m] \o g[i - 1]) \o b[i] = f[m] \o (g[i - 1] \o b[i])
      <4> DEFINE x == f[m]
                 y == g[i - 1]
                 z == b[i]
      <4>1. x \in Seq(T) /\ y \in Seq(T) /\ z \in Seq(T)
        BY <1>5, <3>4
      <4> HIDE DEF x, y, z
      <4>2. Regroups(x, y, z)
        BY ONLY <4>1, Regrouping
      <4> QED
        BY <4>2 DEF x, y, z, Regroups
    <3> QED
      BY <3>2, <3>3, <3>4, <3>5
  <2>3. Wrong \subseteq 0 .. n /\ \A i \in 1 .. n : i \in Wrong => i - 1 \in Wrong
    BY <2>2
  <2>4. Wrong = {}
    <3> HIDE DEF Wrong
    <3> QED
      BY <1>0, <2>1, <2>3, NoLeastWrong
  <2> QED
    BY <2>4
<1>7. n \in 0 .. n
  BY <1>0
<1>8. h[m + n] = f[m] \o g[n]
  BY <1>6, <1>7
<1> QED
  BY <1>1, <1>2, <1>3, <1>8

\* z starts like x and goes on like y.
Joins(x, y, z) ==
    /\ Len(x) \in Nat /\ Len(y) \in Nat /\ Len(z) = Len(x) + Len(y)
    /\ \A i \in 1 .. Len(x) : z[i] = x[i]
    /\ \A i \in 1 .. Len(y) : z[Len(x) + i] = y[i]

\* A sequence that starts like one and goes on like another is the two in turn.
LEMMA JoinIs ==
    ASSUME NEW S, NEW x \in Seq(S), NEW y \in Seq(S), NEW z \in Seq(S), Joins(x, y, z)
    PROVE  z = x \o y
<1> DEFINE m == Len(x)
           n == Len(y)
<1>0. /\ m \in Nat /\ n \in Nat /\ Len(x) = m /\ Len(y) = n /\ Len(z) = m + n
      /\ \A i \in 1 .. m : z[i] = x[i]
      /\ \A i \in 1 .. n : z[m + i] = y[i]
  BY DEF Joins
<1> HIDE DEF m, n
<1>1. x \o y \in Seq(S) /\ Len(x \o y) = m + n
  BY <1>0, ConcatProperties
<1>2. ASSUME NEW i \in 1 .. m + n PROVE z[i] = (x \o y)[i]
  <2>1. CASE i <= m
    BY <1>0, <2>1
  <2>2. CASE ~(i <= m)
    <3> DEFINE j == i - m
    <3>1. j \in 1 .. n /\ m + j = i
      BY <1>0, <2>2
    <3> HIDE DEF j
    <3>2. (x \o y)[m + j] = y[j]
      BY <1>0, <3>1
    <3> QED
      BY <1>0, <3>1, <3>2
  <2> QED
    BY <2>1, <2>2
<1> QED
  BY <1>0, <1>1, <1>2, SeqEqual

-----------------------------------------------------------------------------
(* Tokens and their text.                                                  *)

Pieces == Kinds \cup {"<|tool", "_call>"}

Piece(x) == IF x = "mark" THEN <<"<|tool", "_call>">> ELSE <<x>>

Spelled(ids) == [i \in DOMAIN ids |-> Piece(ids[i])]

Has(text, piece) == \E i \in DOMAIN text : text[i] = piece

\* The opener's first piece is followed by its second.
Whole(text) ==
    \A i \in DOMAIN text : text[i] = "<|tool" => i < Len(text) /\ text[i + 1] = "_call>"

\* A token is spelled in one piece or two.
LEMMA PieceType ==
    ASSUME NEW x \in Kinds
    PROVE  Piece(x) \in Seq(Pieces)
<1>1. CASE x = "mark"
  <2>1. "<|tool" \in Pieces /\ "_call>" \in Pieces
    BY DEF Pieces
  <2>2. <<"<|tool", "_call>">> \in Seq(Pieces)
    BY <2>1
  <2> QED
    BY <1>1, <2>2 DEF Piece
<1>2. CASE x # "mark"
  <2>1. x \in Pieces
    BY DEF Pieces
  <2>2. <<x>> \in Seq(Pieces)
    BY <2>1
  <2> QED
    BY <1>2, <2>2 DEF Piece
<1> QED
  BY <1>1, <1>2

\* The text is the flattening of what each token is spelled as.
LEMMA SpelledType ==
    ASSUME NEW ids \in Seq(Kinds)
    PROVE  /\ Spelled(ids) \in Seq(Seq(Pieces))
           /\ TextOf(ids) = FlattenSeq(Spelled(ids))
<1>1. DOMAIN ids = 1 .. Len(ids) /\ Len(ids) \in Nat /\ \A i \in 1 .. Len(ids) : ids[i] \in Kinds
  OBVIOUS
<1>2. \A i \in 1 .. Len(ids) : Piece(ids[i]) \in Seq(Pieces)
  BY <1>1, PieceType
<1>3. Spelled(ids) \in Seq(Seq(Pieces))
  BY <1>1, <1>2 DEF Spelled
<1>4. TextOf(ids) = FlattenSeq(Spelled(ids))
  BY DEF TextOf, Spelled, Piece
<1> QED
  BY <1>3, <1>4

\* The text of two runs is the text of one, then of the other.
LEMMA TextConcat ==
    ASSUME NEW a \in Seq(Kinds), NEW b \in Seq(Kinds)
    PROVE  /\ TextOf(a) \in Seq(Pieces)
           /\ TextOf(a \o b) = TextOf(a) \o TextOf(b)
<1>1. /\ Spelled(a) \in Seq(Seq(Pieces)) /\ TextOf(a) = FlattenSeq(Spelled(a))
      /\ Spelled(b) \in Seq(Seq(Pieces)) /\ TextOf(b) = FlattenSeq(Spelled(b))
  BY SpelledType
<1>2. a \o b \in Seq(Kinds)
  OBVIOUS
<1>3. /\ Spelled(a \o b) \in Seq(Seq(Pieces))
      /\ TextOf(a \o b) = FlattenSeq(Spelled(a \o b))
  BY <1>2, SpelledType
<1>4. Spelled(a \o b) = Spelled(a) \o Spelled(b)
  <2>1. /\ Len(a) \in Nat /\ Len(b) \in Nat /\ Len(a \o b) = Len(a) + Len(b)
        /\ DOMAIN a = 1 .. Len(a) /\ DOMAIN b = 1 .. Len(b)
        /\ DOMAIN (a \o b) = 1 .. Len(a) + Len(b)
        /\ \A i \in 1 .. Len(a) : (a \o b)[i] = a[i]
        /\ \A i \in 1 .. Len(b) : (a \o b)[Len(a) + i] = b[i]
    OBVIOUS
  <2>2. /\ Len(Spelled(a)) = Len(a) /\ Len(Spelled(b)) = Len(b)
        /\ Len(Spelled(a \o b)) = Len(a) + Len(b)
    BY <2>1 DEF Spelled
  <2> DEFINE x == Spelled(a)
             y == Spelled(b)
             z == Spelled(a \o b)
  <2>3. \A i \in 1 .. Len(a) : z[i] = x[i]
    BY <2>1 DEF Spelled
  <2>4. \A i \in 1 .. Len(b) : z[Len(a) + i] = y[i]
    BY <2>1 DEF Spelled
  <2>5. x \in Seq(Seq(Pieces)) /\ y \in Seq(Seq(Pieces)) /\ z \in Seq(Seq(Pieces))
        /\ Len(x) = Len(a) /\ Len(y) = Len(b) /\ Len(z) = Len(a) + Len(b)
    BY <1>1, <1>3, <2>2
  <2> HIDE DEF x, y, z
  <2>6. z = x \o y
    <3>1. Joins(x, y, z)
      BY <2>1, <2>3, <2>4, <2>5 DEF Joins
    <3>0. x \in Seq(Seq(Pieces)) /\ y \in Seq(Seq(Pieces)) /\ z \in Seq(Seq(Pieces))
      BY <2>5
    <3> QED
      BY <3>0, <3>1, JoinIs
  <2> QED
    BY <2>6 DEF x, y, z
<1>5. FlattenSeq(Spelled(a) \o Spelled(b)) = FlattenSeq(Spelled(a)) \o FlattenSeq(Spelled(b))
  BY <1>1, FlattenConcat
<1>6. FlattenSeq(Spelled(a)) \in Seq(Pieces)
  BY <1>1, FlattenType
<1> QED
  BY <1>1, <1>3, <1>4, <1>5, <1>6

\* The text of a single token.
LEMMA TextOfOne ==
    ASSUME NEW x \in Kinds
    PROVE  TextOf(<<x>>) = Piece(x)
<1>1. <<x>> \in Seq(Kinds) /\ Len(<<x>>) = 1 /\ DOMAIN <<x>> = 1 .. 1
  OBVIOUS
<1> DEFINE s == Spelled(<<x>>)
<1>2. s \in Seq(Seq(Pieces)) /\ TextOf(<<x>>) = FlattenSeq(s)
  BY <1>1, SpelledType
<1>3. Len(s) = 1 /\ s[1] = Piece(x)
  BY <1>1 DEF Spelled
<1> HIDE DEF s
<1>4. PICK h : /\ h[0] = <<>> /\ FlattenSeq(s) = h[Len(s)]
               /\ \A i \in 1 .. Len(s) : h[i] = h[i - 1] \o s[i]
               /\ \A i \in 0 .. Len(s) : h[i] \in Seq(Pieces)
  BY <1>2, FlattenIs
<1>5. h[1] = <<>> \o Piece(x)
  <2>1. 1 \in 1 .. Len(s) /\ 1 - 1 = 0
    BY <1>3
  <2>2. h[1] = h[1 - 1] \o s[1]
    BY <1>4, <2>1
  <2> QED
    BY <1>3, <1>4, <2>1, <2>2
<1>6. <<>> \o Piece(x) = Piece(x)
  BY PieceType, ConcatEmptySeq
<1> QED
  BY <1>2, <1>3, <1>4, <1>5, <1>6

\* Text keeps openers whole and shows a call exactly when a token is one.
Faithful(ids) ==
    /\ Whole(TextOf(ids))
    /\ Has(TextOf(ids), "call") <=> Has(ids, "call")

\* One more token keeps openers whole and shows a call exactly if it is one.
LEMMA FaithfulStep ==
    ASSUME NEW a \in Seq(Kinds), NEW x \in Kinds, Faithful(a)
    PROVE  Faithful(a \o <<x>>)
<1> DEFINE t == TextOf(a)
           p == Piece(x)
<1>1. <<x>> \in Seq(Kinds)
  OBVIOUS
<1>2. t \in Seq(Pieces) /\ TextOf(a \o <<x>>) = t \o p /\ p \in Seq(Pieces)
  BY <1>1, TextConcat, TextOfOne, PieceType
<1>3. /\ \A i \in 1 .. Len(t) : t[i] = "<|tool" => i < Len(t) /\ t[i + 1] = "_call>"
      /\ Has(t, "call") <=> Has(a, "call")
  <2>1. Whole(t) /\ (Has(t, "call") <=> Has(a, "call"))
    BY DEF Faithful
  <2> HIDE DEF t
  <2>2. DOMAIN t = 1 .. Len(t)
    BY <1>2
  <2> QED
    BY <2>1, <2>2 DEF Whole
<1>4. \/ x = "mark" /\ Len(p) = 2 /\ p[1] = "<|tool" /\ p[2] = "_call>"
      \/ x # "mark" /\ Len(p) = 1 /\ p[1] = x /\ x # "<|tool"
  <2>1. CASE x = "mark"
    BY <2>1 DEF Piece
  <2>2. CASE x # "mark"
    BY <2>2 DEF Piece, Kinds
  <2> QED
    BY <2>1, <2>2
<1> HIDE DEF t, p
<1>5. /\ Len(t) \in Nat /\ Len(p) \in Nat /\ Len(t \o p) = Len(t) + Len(p)
      /\ DOMAIN p = 1 .. Len(p)
      /\ DOMAIN (t \o p) = 1 .. Len(t) + Len(p) /\ DOMAIN t = 1 .. Len(t)
      /\ \A i \in 1 .. Len(t) : (t \o p)[i] = t[i]
      /\ \A i \in 1 .. Len(p) : (t \o p)[Len(t) + i] = p[i]
  BY <1>2
<1>6. Whole(t \o p)
  <2> SUFFICES ASSUME NEW i \in 1 .. Len(t) + Len(p), (t \o p)[i] = "<|tool"
               PROVE  i < Len(t \o p) /\ (t \o p)[i + 1] = "_call>"
    BY <1>5 DEF Whole
  <2>1. CASE i <= Len(t)
    <3>1. i < Len(t) /\ t[i + 1] = "_call>"
      BY <1>3, <1>5, <2>1
    <3>2. (t \o p)[i + 1] = t[i + 1]
      BY <1>5, <3>1
    <3> QED
      BY <1>5, <3>1, <3>2
  <2>2. CASE i > Len(t)
    <3> DEFINE j == i - Len(t)
    <3>1. j \in 1 .. Len(p) /\ i = Len(t) + j
      BY <1>5, <2>2
    <3> HIDE DEF j
    <3>2. p[j] = "<|tool"
      BY <1>5, <3>1
    <3>3. Len(p) = 2 /\ j = 1 /\ p[2] = "_call>"
      BY <1>4, <3>1, <3>2
    <3>4. (t \o p)[Len(t) + 2] = p[2]
      BY <1>5, <3>3
    <3> QED
      BY <1>5, <3>1, <3>3, <3>4
  <2> QED
    BY <1>5, <2>1, <2>2
<1>7. Has(t \o p, "call") <=> Has(t, "call") \/ x = "call"
  <2>1. Has(p, "call") <=> x = "call"
    <3>1. DOMAIN p = 1 .. Len(p)
      BY <1>2
    <3>2. \A i \in 1 .. 2 : i = 1 \/ i = 2
      OBVIOUS
    <3> QED
      BY <1>4, <3>1, <3>2 DEF Has
  <2>2. Has(t \o p, "call") => Has(t, "call") \/ Has(p, "call")
    <3> SUFFICES ASSUME NEW i \in 1 .. Len(t) + Len(p), (t \o p)[i] = "call", i > Len(t)
                 PROVE  Has(p, "call")
      BY <1>5 DEF Has
    <3>1. i - Len(t) \in 1 .. Len(p) /\ Len(t) + (i - Len(t)) = i
      BY <1>5
    <3>2. p[i - Len(t)] = "call" /\ DOMAIN p = 1 .. Len(p)
      BY <1>2, <1>5, <3>1
    <3> QED
      BY <3>1, <3>2 DEF Has
  <2>3. Has(t, "call") => Has(t \o p, "call")
    BY <1>5 DEF Has
  <2>4. Has(p, "call") => Has(t \o p, "call")
    <3> SUFFICES ASSUME NEW i \in 1 .. Len(p), p[i] = "call"
                 PROVE  Has(t \o p, "call")
      BY <1>5 DEF Has
    <3>1. Len(t) + i \in 1 .. Len(t) + Len(p) /\ (t \o p)[Len(t) + i] = "call"
      BY <1>5
    <3> QED
      BY <1>5, <3>1 DEF Has
  <2> QED
    BY <2>1, <2>2, <2>3, <2>4
<1>8. Has(a \o <<x>>, "call") <=> Has(a, "call") \/ x = "call"
  <2>1. /\ Len(a) \in Nat /\ DOMAIN a = 1 .. Len(a) /\ DOMAIN (a \o <<x>>) = 1 .. Len(a) + 1
        /\ (a \o <<x>>)[Len(a) + 1] = x
        /\ \A i \in 1 .. Len(a) : (a \o <<x>>)[i] = a[i]
    OBVIOUS
  <2>2. \A i \in 1 .. Len(a) + 1 : i = Len(a) + 1 \/ i \in 1 .. Len(a)
    BY <2>1
  <2>3. Len(a) + 1 \in 1 .. Len(a) + 1 /\ 1 .. Len(a) \subseteq 1 .. Len(a) + 1
    BY <2>1
  <2> QED
    BY <2>1, <2>2, <2>3 DEF Has
<1> QED
  BY <1>2, <1>3, <1>6, <1>7, <1>8 DEF Faithful

\* Text keeps openers whole, and shows a call exactly if the tokens hold one.
LEMMA TextIsFaithful ==
    ASSUME NEW ids \in Seq(Kinds)
    PROVE  Faithful(ids)
<1> DEFINE N == Len(ids)
           Wrong == {n \in 0 .. N : ~Faithful(SubSeq(ids, 1, n))}
<1>1. N \in Nat /\ \A i \in 1 .. N : ids[i] \in Kinds
  OBVIOUS
<1>2. 0 \notin Wrong
  <2>1. SubSeq(ids, 1, 0) = <<>>
    OBVIOUS
  <2>2. TextOf(<<>>) = <<>>
    BY DEF TextOf, FlattenSeq
  <2>3. Faithful(<<>>)
    BY <2>2 DEF Faithful, Whole, Has
  <2> QED
    BY <2>1, <2>3
<1>3. ASSUME NEW n \in 1 .. N, n - 1 \notin Wrong PROVE n \notin Wrong
  <2>1. n - 1 \in 0 .. N /\ ids[n] \in Kinds
    BY <1>1
  <2>2. SubSeq(ids, 1, n - 1) \in Seq(Kinds) /\ Faithful(SubSeq(ids, 1, n - 1))
    BY <1>1, <1>3, <2>1
  <2>3. SubSeq(ids, 1, n) = SubSeq(ids, 1, n - 1) \o <<ids[n]>>
    BY <1>1
  <2>4. Faithful(SubSeq(ids, 1, n - 1) \o <<ids[n]>>)
    BY <2>1, <2>2, FaithfulStep
  <2> QED
    BY <2>3, <2>4
<1>4. Wrong = {}
  <2>1. Wrong \subseteq 0 .. N /\ \A n \in 1 .. N : n \in Wrong => n - 1 \in Wrong
    BY <1>3
  <2> HIDE DEF Wrong, N
  <2> QED
    BY <1>1, <1>2, <2>1, NoLeastWrong
<1>5. SubSeq(ids, 1, N) = ids /\ N \in 0 .. N
  OBVIOUS
<1> QED
  BY <1>4, <1>5


-----------------------------------------------------------------------------
(* Channels.                                                               *)

Chosen(s, I) == [i \in DOMAIN s |-> IF i \in I THEN <<s[i]>> ELSE <<>>]

\* A selection is a flattening of one or no token for each position.
LEMMA ChosenType ==
    ASSUME NEW s \in Seq(Kinds), NEW I
    PROVE  /\ Chosen(s, I) \in Seq(Seq(Kinds)) /\ Len(Chosen(s, I)) = Len(s)
           /\ At(s, I) = FlattenSeq(Chosen(s, I))
           /\ \A i \in 1 .. Len(s) : Len(Chosen(s, I)[i]) <= 1
<1>1. DOMAIN s = 1 .. Len(s) /\ Len(s) \in Nat
  OBVIOUS
<1>2. ASSUME NEW i \in 1 .. Len(s)
      PROVE  LET e == IF i \in I THEN <<s[i]>> ELSE <<>>
             IN  e \in Seq(Kinds) /\ Len(e) <= 1
  <2>1. s[i] \in Kinds
    BY <1>2
  <2>2. <<s[i]>> \in Seq(Kinds) /\ Len(<<s[i]>>) = 1 /\ <<>> \in Seq(Kinds) /\ Len(<<>>) = 0
    BY <2>1
  <2> QED
    BY <2>2
<1>3. Chosen(s, I) \in Seq(Seq(Kinds)) /\ Len(Chosen(s, I)) = Len(s)
  BY <1>1, <1>2 DEF Chosen
<1>4. \A i \in 1 .. Len(s) : Len(Chosen(s, I)[i]) <= 1
  BY <1>1, <1>2 DEF Chosen
<1> QED
  BY <1>3, <1>4 DEF At, Chosen

\* No more tokens are picked than there are.
LEMMA AtType ==
    ASSUME NEW s \in Seq(Kinds), NEW I
    PROVE  At(s, I) \in Seq(Kinds) /\ Len(At(s, I)) <= Len(s)
<1> DEFINE c == Chosen(s, I)
           n == Len(s)
<1>1. c \in Seq(Seq(Kinds)) /\ Len(c) = n /\ At(s, I) = FlattenSeq(c)
      /\ n \in Nat /\ \A i \in 1 .. n : Len(c[i]) <= 1
  <2>1. Len(s) \in Nat
    OBVIOUS
  <2> QED
    BY <2>1, ChosenType
<1> HIDE DEF c, n
<1>2. PICK h : /\ h[0] = <<>> /\ FlattenSeq(c) = h[Len(c)]
               /\ \A i \in 1 .. Len(c) : h[i] = h[i - 1] \o c[i]
               /\ \A i \in 0 .. Len(c) : h[i] \in Seq(Kinds)
  BY <1>1, FlattenIs
<1> DEFINE Wrong == {i \in 0 .. n : ~(Len(h[i]) <= i)}
<1>3. 0 \notin Wrong
  <2>1. Len(h[0]) = 0
    BY <1>2
  <2> QED
    BY <2>1
<1>4. ASSUME NEW i \in 1 .. n, i - 1 \notin Wrong PROVE i \notin Wrong
  <2>1. i - 1 \in 0 .. n /\ i \in Nat
    BY <1>1
  <2>2. /\ h[i - 1] \in Seq(Kinds) /\ c[i] \in Seq(Kinds) /\ Len(c[i]) <= 1
        /\ h[i] = h[i - 1] \o c[i] /\ Len(h[i - 1]) <= i - 1
    <3>1. i - 1 \in 0 .. Len(c) /\ i \in 1 .. Len(c) /\ i - 1 \in 0 .. n
      BY <1>1, <2>1
    <3>2. Len(h[i - 1]) <= i - 1
      BY <1>4, <3>1
    <3>3. c[i] \in Seq(Kinds)
      BY <1>1, <3>1
    <3> QED
      BY <1>1, <1>2, <3>1, <3>2, <3>3
  <2>3. Len(h[i - 1] \o c[i]) = Len(h[i - 1]) + Len(c[i])
    BY <2>2
  <2>4. Len(h[i - 1]) \in Nat /\ Len(c[i]) \in Nat
    BY <2>2
  <2>5. Len(h[i]) <= i
    <3> DEFINE p == Len(h[i - 1])
               q == Len(c[i])
    <3>1. p \in Nat /\ q \in Nat /\ p <= i - 1 /\ q <= 1 /\ Len(h[i]) = p + q
      BY <2>2, <2>3, <2>4
    <3> HIDE DEF p, q
    <3>2. p + q <= i
      BY <2>1, <3>1
    <3> QED
      BY <3>1, <3>2
  <2> QED
    BY <2>5
<1>5. Wrong = {}
  <2>1. Wrong \subseteq 0 .. n /\ \A i \in 1 .. n : i \in Wrong => i - 1 \in Wrong
    BY <1>4
  <2> HIDE DEF Wrong
  <2> QED
    BY <1>1, <1>3, <2>1, NoLeastWrong
<1>6. n \in 0 .. n
  BY <1>1
<1>7. Len(h[n]) <= n /\ h[n] \in Seq(Kinds)
  BY <1>1, <1>2, <1>5, <1>6
<1> QED
  BY <1>1, <1>2, <1>7 DEF n

\* What is picked of two runs is picked of one, then of the other.
LEMMA AtConcat ==
    ASSUME NEW a \in Seq(Kinds), NEW b \in Seq(Kinds), NEW I, NEW J, NEW K,
           \A i \in 1 .. Len(a) : i \in I <=> i \in J,
           \A i \in 1 .. Len(b) : Len(a) + i \in I <=> i \in K
    PROVE  At(a \o b, I) = At(a, J) \o At(b, K)
<1> DEFINE x == Chosen(a, J)
           y == Chosen(b, K)
           z == Chosen(a \o b, I)
<1>1. /\ a \o b \in Seq(Kinds) /\ Len(a \o b) = Len(a) + Len(b)
      /\ Len(a) \in Nat /\ Len(b) \in Nat
      /\ DOMAIN (a \o b) = 1 .. Len(a) + Len(b)
      /\ DOMAIN a = 1 .. Len(a) /\ DOMAIN b = 1 .. Len(b)
      /\ \A i \in 1 .. Len(a) : (a \o b)[i] = a[i]
      /\ \A i \in 1 .. Len(b) : (a \o b)[Len(a) + i] = b[i]
  OBVIOUS
<1>2. /\ x \in Seq(Seq(Kinds)) /\ Len(x) = Len(a) /\ At(a, J) = FlattenSeq(x)
      /\ y \in Seq(Seq(Kinds)) /\ Len(y) = Len(b) /\ At(b, K) = FlattenSeq(y)
  BY ChosenType
<1>3. z \in Seq(Seq(Kinds)) /\ Len(z) = Len(a) + Len(b) /\ At(a \o b, I) = FlattenSeq(z)
  <2> DEFINE s == a \o b
  <2>1. s \in Seq(Kinds) /\ Len(s) = Len(a) + Len(b)
    BY <1>1
  <2> HIDE DEF s
  <2>2. Chosen(s, I) \in Seq(Seq(Kinds)) /\ Len(Chosen(s, I)) = Len(s)
        /\ At(s, I) = FlattenSeq(Chosen(s, I))
    BY <2>1, ChosenType
  <2> QED
    BY <2>1, <2>2 DEF s
<1>4. \A i \in 1 .. Len(a) : z[i] = x[i]
  BY <1>1 DEF Chosen
<1>5. \A i \in 1 .. Len(b) : z[Len(a) + i] = y[i]
  BY <1>1 DEF Chosen
<1> HIDE DEF x, y, z
<1>6. z = x \o y
  <2>1. Joins(x, y, z)
    BY <1>1, <1>2, <1>3, <1>4, <1>5 DEF Joins
  <2>0. x \in Seq(Seq(Kinds)) /\ y \in Seq(Seq(Kinds)) /\ z \in Seq(Seq(Kinds))
    BY <1>2, <1>3
  <2> QED
    BY <2>0, <2>1, JoinIs
<1>7. FlattenSeq(x \o y) = FlattenSeq(x) \o FlattenSeq(y)
  BY <1>2, FlattenConcat
<1> QED
  BY <1>2, <1>3, <1>6, <1>7

\* A non-empty set of positions has a largest one, and it is Max.
LEMMA MaxIs ==
    ASSUME NEW m \in Nat, NEW t \in SUBSET (1 .. m), t # {}
    PROVE  Max(t) \in t
<1> DEFINE D == {m - x : x \in t}
<1>1. D \subseteq Nat /\ D # {}
  OBVIOUS
<1> HIDE DEF D
<1>2. Min(D) \in D /\ \A y \in D : Min(D) <= y
  BY <1>1, LeastElement
<1> DEFINE d == Min(D)
<1> HIDE DEF d
<1>3. d \in D /\ \A y \in D : d <= y
  BY <1>2 DEF d
<1>4. PICK x \in t : d = m - x
  BY <1>3 DEF D
<1>5. ASSUME NEW y \in t PROVE x >= y
  <2>1. m - x <= m - y
    BY <1>3, <1>4 DEF D
  <2>2. x \in Nat /\ y \in Nat
    OBVIOUS
  <2> QED
    BY <2>1, <2>2
<1> QED
  BY <1>4, <1>5 DEF Max

\* A token's channel is decided by the tokens before it.
LEMMA ChannelByPast ==
    ASSUME NEW a \in Seq(Kinds), NEW b \in Seq(Kinds), NEW i \in 1 .. Len(a)
    PROVE  /\ IsMarker(a \o b, i) <=> IsMarker(a, i)
           /\ InThought(a \o b, i) <=> InThought(a, i)
<1> DEFINE s == a \o b
<1>1. Len(a) \in Nat /\ \A j \in 1 .. Len(a) : s[j] = a[j]
  OBVIOUS
<1> HIDE DEF s
<1>2. ASSUME NEW j \in 1 .. Len(a) PROVE IsMarker(s, j) <=> IsMarker(a, j)
  <2>1. {k \in 1 .. j - 1 : s[k] = "quote"} = {k \in 1 .. j - 1 : a[k] = "quote"}
    BY <1>1
  <2>2. InQuote(s, j) <=> InQuote(a, j)
    BY <2>1 DEF InQuote
  <2> QED
    BY <1>1, <2>2 DEF IsMarker
<1> DEFINE before(ids) == {j \in 1 .. i - 1 : IsMarker(ids, j)}
<1>3. before(s) = before(a)
  <2>1. \A j \in 1 .. i - 1 : j \in 1 .. Len(a)
    BY <1>1
  <2> QED
    BY <1>2, <2>1
<1>4. before(a) # {} => s[Max(before(a))] = a[Max(before(a))]
  <2> SUFFICES ASSUME before(a) # {} PROVE s[Max(before(a))] = a[Max(before(a))]
    OBVIOUS
  <2>1. before(a) \in SUBSET (1 .. Len(a))
    BY <1>1
  <2> HIDE DEF before
  <2>2. Max(before(a)) \in 1 .. Len(a)
    BY <1>1, <2>1, MaxIs
  <2> QED
    BY <1>1, <2>2
<1>5. InThought(s, i) <=> InThought(a, i)
  <2>1. InThought(s, i) <=> IF before(s) = {} THEN seeded ELSE s[Max(before(s))] = "open"
    BY DEF InThought
  <2>2. InThought(a, i) <=> IF before(a) = {} THEN seeded ELSE a[Max(before(a))] = "open"
    BY DEF InThought
  <2> HIDE DEF before
  <2> QED
    BY <1>3, <1>4, <2>1, <2>2
<1> QED
  BY <1>2, <1>5 DEF s

\* The thought grows at its end only: where a channel marker stands does not depend on
\* what comes later.
LEMMA MusingGrows ==
    ASSUME NEW a \in Seq(Kinds), NEW b \in Seq(Kinds)
    PROVE  \E y \in Seq(Kinds) : Musing(a \o b) = Musing(a) \o y /\ Len(y) <= Len(b)
<1> DEFINE s == a \o b
           I == {i \in DOMAIN s : s[i] \notin {"open", "close"} /\ InThought(s, i)}
           J == {i \in DOMAIN a : a[i] \notin {"open", "close"} /\ InThought(a, i)}
           K == {i \in 1 .. Len(b) : Len(a) + i \in I}
<1>1. \A i \in 1 .. Len(a) : i \in I <=> i \in J
  <2>1. \A i \in 1 .. Len(a) : i \in DOMAIN s /\ i \in DOMAIN a /\ s[i] = a[i]
    OBVIOUS
  <2> QED
    BY <2>1, ChannelByPast
<1>2. \A i \in 1 .. Len(b) : Len(a) + i \in I <=> i \in K
  OBVIOUS
<1> HIDE DEF I, J, K
<1>3. At(s, I) = At(a, J) \o At(b, K)
  BY <1>1, <1>2, AtConcat
<1>4. Musing(s) = At(s, I) /\ Musing(a) = At(a, J)
  BY DEF Musing, I, J
<1>5. At(b, K) \in Seq(Kinds) /\ Len(At(b, K)) <= Len(b)
  BY AtType
<1> QED
  BY <1>3, <1>4, <1>5


\* What is kept of a block that is cut at its first stop.
LEMMA KeptType ==
    ASSUME NEW block \in Seq(Kinds), NEW stops, stops \subseteq 1 .. Len(block)
    PROVE  Kept(block, stops) \in Seq(Kinds) /\ Len(Kept(block, stops)) <= Len(block)
<1>1. Len(block) \in Nat
  OBVIOUS
<1>2. Kept(block, stops) = IF stops = {} THEN block ELSE SubSeq(block, 1, Min(stops) - 1)
  BY DEF Kept, Prefix
<1>3. CASE stops = {}
  BY <1>1, <1>2, <1>3
<1>4. CASE stops # {}
  <2>1. stops \subseteq Nat
    BY <1>1
  <2>2. Min(stops) \in stops
    BY <1>4, <2>1, LeastElement
  <2>3. Min(stops) \in 1 .. Len(block)
    BY <1>1, <2>2
  <2> DEFINE n == Min(stops) - 1
  <2>4. n \in 0 .. Len(block)
    BY <1>1, <2>3
  <2> HIDE DEF n
  <2>5. SubSeq(block, 1, n) \in Seq(Kinds) /\ Len(SubSeq(block, 1, n)) = n
    BY <1>1, <2>4
  <2> QED
    BY <1>1, <1>2, <1>4, <2>4, <2>5 DEF n
<1> QED
  BY <1>3, <1>4

\* The clean-up only takes tokens away.
LEMMA SanitizedType ==
    ASSUME NEW text \in Seq(Kinds)
    PROVE  Sanitized(text) \in Seq(Kinds) /\ Len(Sanitized(text)) <= Len(text)
<1> DEFINE cut == Kept(text, Seen(text, "stop"))
<1>1. Seen(text, "stop") \subseteq 1 .. Len(text)
  BY DEF Seen, Where
<1>2. cut \in Seq(Kinds) /\ Len(cut) <= Len(text)
  BY <1>1, KeptType
<1>3. Sanitized(text) = Stripped(cut)
  BY DEF Sanitized
<1> HIDE DEF cut
<1>4. Stripped(cut) \in Seq(Kinds) /\ Len(Stripped(cut)) <= Len(cut)
  BY <1>2, AtType DEF Stripped
<1> DEFINE x == Stripped(cut)
<1>5. x \in Seq(Kinds) /\ Len(x) <= Len(cut) /\ Len(x) \in Nat
      /\ Len(cut) \in Nat /\ Len(text) \in Nat
  BY <1>2, <1>4
<1> HIDE DEF x
<1>6. Len(x) <= Len(text)
  BY <1>2, <1>5
<1> QED
  BY <1>3, <1>5, <1>6 DEF x

\* The answer is no longer than the reply it is taken from.
LEMMA ContentType ==
    ASSUME NEW a \in Seq(Kinds)
    PROVE  ContentOf(a) \in Seq(Kinds) /\ Len(ContentOf(a)) <= Len(a)
<1> DEFINE x == IF thinks THEN Answer(a) ELSE a
<1>1. x \in Seq(Kinds) /\ Len(x) <= Len(a) /\ Len(x) \in Nat /\ Len(a) \in Nat
  <2>1. Answer(a) \in Seq(Kinds) /\ Len(Answer(a)) <= Len(a)
    BY AtType DEF Answer
  <2>2. Len(a) \in Nat /\ Len(a) <= Len(a)
    OBVIOUS
  <2>3. x \in Seq(Kinds) /\ Len(x) <= Len(a)
    BY <2>1, <2>2
  <2> HIDE DEF x
  <2> QED
    BY <2>2, <2>3
<1>2. ContentOf(a) = Sanitized(x)
  BY DEF ContentOf
<1> HIDE DEF x
<1>3. Sanitized(x) \in Seq(Kinds) /\ Len(Sanitized(x)) <= Len(x)
  BY <1>1, SanitizedType
<1> DEFINE y == Sanitized(x)
<1>4. y \in Seq(Kinds) /\ Len(y) <= Len(x) /\ Len(y) \in Nat
  BY <1>3
<1> HIDE DEF y
<1>5. Len(y) <= Len(a)
  BY <1>1, <1>4
<1> QED
  BY <1>2, <1>4, <1>5 DEF y

\* The reasoning channel of a longer reply continues that of the shorter one.
LEMMA ReasoningGrows ==
    ASSUME NEW a \in Seq(Kinds), NEW b \in Seq(Kinds)
    PROVE  /\ ReasoningOf(a) \in Seq(Kinds) /\ Len(ReasoningOf(a)) <= Len(a)
           /\ \E y \in Seq(Kinds) : ReasoningOf(a \o b) = ReasoningOf(a) \o y
<1>1. CASE thinks
  <2>1. Musing(a) \in Seq(Kinds) /\ Len(Musing(a)) <= Len(a)
    BY AtType DEF Musing
  <2> QED
    BY <1>1, <2>1, MusingGrows DEF ReasoningOf
<1>2. CASE ~thinks
  <2>1. <<>> \in Seq(Kinds) /\ <<>> = <<>> \o <<>> /\ Len(<<>>) = 0 /\ Len(a) \in Nat
    OBVIOUS
  <2>2. ReasoningOf(a) = <<>> /\ ReasoningOf(a \o b) = <<>>
    BY <1>2 DEF ReasoningOf
  <2>3. \E y \in Seq(Kinds) : ReasoningOf(a \o b) = ReasoningOf(a) \o y
    BY <2>1, <2>2
  <2> QED
    BY <2>1, <2>2, <2>3
<1> QED
  BY <1>1, <1>2

\* The thought that a longer reply tells begins with the one that the shorter tells.
LEMMA SaidGrows ==
    ASSUME NEW a \in Seq(Kinds), NEW b \in Seq(Kinds)
    PROVE  \E y \in Seq(Pieces) : Said(a \o b)["reasoning"] = Said(a)["reasoning"] \o y
<1>1. PICK y \in Seq(Kinds) : ReasoningOf(a \o b) = ReasoningOf(a) \o y
  BY ReasoningGrows
<1>2. ReasoningOf(a) \in Seq(Kinds)
  BY ReasoningGrows
<1>3. TextOf(ReasoningOf(a) \o y) = TextOf(ReasoningOf(a)) \o TextOf(y)
  BY <1>2, TextConcat
<1>4. TextOf(y) \in Seq(Pieces)
  BY TextConcat
<1> QED
  BY <1>1, <1>3, <1>4 DEF Said, Channels

\* What a reply says, and that a call shows in it.
LEMMA SaidType ==
    ASSUME NEW a \in Seq(Kinds)
    PROVE  /\ \A c \in Channels : Said(a)[c] \in Seq(Pieces)
           /\ Whole(Said(a)["content"])
           /\ Has(Said(a)["content"], "call") <=> Has(ContentOf(a), "call")
<1>1. ContentOf(a) \in Seq(Kinds) /\ ReasoningOf(a) \in Seq(Kinds)
  BY ContentType, ReasoningGrows
<1>2. TextOf(ContentOf(a)) \in Seq(Pieces) /\ TextOf(ReasoningOf(a)) \in Seq(Pieces)
  BY <1>1, TextConcat
<1>3. Faithful(ContentOf(a))
  BY <1>1, TextIsFaithful
<1>4. /\ Said(a)["content"] = TextOf(ContentOf(a))
      /\ Said(a)["reasoning"] = TextOf(ReasoningOf(a))
  BY DEF Said, Channels
<1> QED
  BY <1>2, <1>3, <1>4 DEF Faithful, Channels

-----------------------------------------------------------------------------
(* The filter.                                                             *)

Marked(text) == Has(text, "<|tool")

Marks(text) == {i \in DOMAIN text : Opens(text, i)}

\* The text before the first markup opener.
LEMMA VisibleIs ==
    ASSUME NEW text \in Seq(Pieces)
    PROVE  /\ Visible(text) \in Seq(Pieces) /\ Len(Visible(text)) <= Len(text)
           /\ Marks(text) = {} => Visible(text) = text
           /\ Marks(text) # {} =>
                /\ Min(Marks(text)) \in 1 .. Len(text) - 1
                /\ \A i \in Marks(text) : Min(Marks(text)) <= i
                /\ Opens(text, Min(Marks(text)))
                /\ Visible(text) = SubSeq(text, 1, Min(Marks(text)) - 1)
                /\ Visible(text) # text
<1>1. Len(text) \in Nat /\ DOMAIN text = 1 .. Len(text)
  OBVIOUS
<1>2. Visible(text) = IF Marks(text) = {} THEN text ELSE SubSeq(text, 1, Min(Marks(text)) - 1)
  BY DEF Visible, Marks, Prefix
<1>3. CASE Marks(text) = {}
  BY <1>1, <1>2, <1>3
<1>4. CASE Marks(text) # {}
  <2>1. /\ Marks(text) \subseteq Nat
        /\ \A i \in Marks(text) : i \in 1 .. Len(text) - 1 /\ Opens(text, i)
    BY <1>1 DEF Marks, Opens
  <2>2. Min(Marks(text)) \in Marks(text) /\ \A i \in Marks(text) : Min(Marks(text)) <= i
    BY <1>4, <2>1, LeastElement
  <2> DEFINE m == Min(Marks(text))
  <2>3. m \in 1 .. Len(text) - 1 /\ Opens(text, m)
    BY <2>1, <2>2
  <2>4. Visible(text) = SubSeq(text, 1, m - 1)
    BY <1>2, <1>4
  <2> HIDE DEF m
  <2>5. SubSeq(text, 1, m - 1) \in Seq(Pieces) /\ Len(SubSeq(text, 1, m - 1)) = m - 1
    BY <1>1, <2>3
  <2>6. Len(Visible(text)) <= Len(text) /\ Visible(text) # text
    BY <1>1, <2>3, <2>4, <2>5
  <2> QED
    BY <1>4, <2>2, <2>3, <2>4, <2>5, <2>6 DEF m
<1> QED
  BY <1>3, <1>4

\* The filter lets text without an opener through.
LEMMA UnmarkedIsVisible ==
    ASSUME NEW text \in Seq(Pieces), ~Marked(text)
    PROVE  Marks(text) = {} /\ Visible(text) = text
<1>1. Marks(text) = {}
  BY DEF Marks, Opens, Marked, Has
<1> QED
  BY <1>1, VisibleIs

\* A whole opener is cut off.
LEMMA MarkedIsCut ==
    ASSUME NEW text \in Seq(Pieces), Whole(text), Marked(text)
    PROVE  Marks(text) # {} /\ Visible(text) # text
<1>1. PICK i \in DOMAIN text : text[i] = "<|tool"
  BY DEF Marked, Has
<1>2. i \in Marks(text)
  BY <1>1 DEF Whole, Marks, Opens
<1> QED
  BY <1>2, VisibleIs

\* Past an opener nothing more is seen.
LEMMA HiddenStaysHidden ==
    ASSUME NEW a \in Seq(Pieces), NEW b \in Seq(Pieces), Marks(a) # {}
    PROVE  Visible(a \o b) = Visible(a)
<1> DEFINE s == a \o b
           m == Min(Marks(a))
<1>1. /\ s \in Seq(Pieces) /\ Len(a) \in Nat /\ Len(b) \in Nat /\ Len(s) = Len(a) + Len(b)
      /\ DOMAIN a = 1 .. Len(a) /\ DOMAIN s = 1 .. Len(a) + Len(b)
      /\ \A i \in 1 .. Len(a) : s[i] = a[i]
  OBVIOUS
<1>2. /\ m \in 1 .. Len(a) - 1 /\ \A i \in Marks(a) : m <= i
      /\ Opens(a, m) /\ Visible(a) = SubSeq(a, 1, m - 1)
  BY VisibleIs
<1> HIDE DEF s, m
<1>3. \A i \in 1 .. Len(a) - 1 : Opens(s, i) <=> Opens(a, i)
  <2>1. \A i \in 1 .. Len(a) - 1 : /\ i < Len(a) /\ i < Len(s)
                                   /\ s[i] = a[i] /\ s[i + 1] = a[i + 1]
    BY <1>1
  <2> QED
    BY <2>1 DEF Opens
<1>4. m \in Marks(s)
  BY <1>1, <1>2, <1>3 DEF Marks
<1>5. /\ Min(Marks(s)) \in 1 .. Len(s) - 1 /\ \A i \in Marks(s) : Min(Marks(s)) <= i
      /\ Opens(s, Min(Marks(s))) /\ Visible(s) = SubSeq(s, 1, Min(Marks(s)) - 1)
  BY <1>1, <1>4, VisibleIs
<1> DEFINE k == Min(Marks(s))
<1>6. k \in 1 .. Len(s) - 1 /\ k <= m /\ Opens(s, k) /\ Visible(s) = SubSeq(s, 1, k - 1)
  BY <1>4, <1>5
<1> HIDE DEF k
<1>7. k \in Marks(a)
  <2>1. k \in 1 .. Len(a) - 1 /\ k \in DOMAIN a
    BY <1>1, <1>2, <1>6
  <2> QED
    BY <1>3, <1>6, <2>1 DEF Marks
<1>8. k = m
  <2>1. m <= k
    BY <1>2, <1>7
  <2> QED
    BY <1>1, <1>2, <1>6, <2>1
<1>9. SubSeq(s, 1, m - 1) = SubSeq(a, 1, m - 1)
  BY <1>1, <1>2
<1> QED
  BY <1>2, <1>6, <1>8, <1>9 DEF s

\* Text without an opener is seen, whatever follows it.
LEMMA SeenStaysSeen ==
    ASSUME NEW a \in Seq(Pieces), NEW b \in Seq(Pieces), ~Marked(a)
    PROVE  Visible(a \o b) = a \o Visible(b)
<1> DEFINE s == a \o b
           n == Len(a)
<1>1. /\ s \in Seq(Pieces) /\ n \in Nat /\ Len(b) \in Nat /\ Len(s) = n + Len(b)
      /\ DOMAIN a = 1 .. n /\ DOMAIN s = 1 .. n + Len(b) /\ DOMAIN b = 1 .. Len(b)
      /\ \A i \in 1 .. n : s[i] = a[i] /\ a[i] # "<|tool"
      /\ \A i \in 1 .. Len(b) : s[n + i] = b[i]
  BY DEF Marked, Has
<1> HIDE DEF s, n
<1>2. \A i \in 1 .. n : ~Opens(s, i)
  BY <1>1 DEF Opens
<1>3. ASSUME NEW i \in 1 .. Len(b) PROVE Opens(s, n + i) <=> Opens(b, i)
  <2>1. n + i < Len(s) <=> i < Len(b)
    BY <1>1
  <2>2. i < Len(b) => s[(n + i) + 1] = b[i + 1]
    <3> SUFFICES ASSUME i < Len(b) PROVE s[(n + i) + 1] = b[i + 1]
      OBVIOUS
    <3>1. i + 1 \in 1 .. Len(b) /\ (n + i) + 1 = n + (i + 1)
      BY <1>1
    <3> QED
      BY <1>1, <3>1
  <2> QED
    BY <1>1, <2>1, <2>2 DEF Opens
<1>4. CASE Marks(b) = {}
  <2>1. Marks(s) = {}
    <3> SUFFICES ASSUME NEW i \in Marks(s) PROVE FALSE
      OBVIOUS
    <3>1. i \in 1 .. n + Len(b) /\ Opens(s, i)
      BY <1>1 DEF Marks
    <3>2. i - n \in 1 .. Len(b) /\ n + (i - n) = i
      BY <1>1, <1>2, <3>1
    <3>3. i - n \in Marks(b)
      BY <1>1, <1>3, <3>1, <3>2 DEF Marks
    <3> QED
      BY <1>4, <3>3
  <2>2. Visible(s) = s /\ Visible(b) = b
    BY <1>1, <1>4, <2>1, VisibleIs
  <2> QED
    BY <2>2 DEF s
<1>5. CASE Marks(b) # {}
  <2> DEFINE m == Min(Marks(b))
             k == Min(Marks(s))
  <2>1. /\ m \in 1 .. Len(b) - 1 /\ \A i \in Marks(b) : m <= i
        /\ Opens(b, m) /\ Visible(b) = SubSeq(b, 1, m - 1)
    BY <1>5, VisibleIs
  <2> HIDE DEF m
  <2>2. n + m \in Marks(s)
    <3>1. m \in 1 .. Len(b) /\ n + m \in 1 .. n + Len(b)
      BY <1>1, <2>1
    <3> QED
      BY <1>1, <1>3, <2>1, <3>1 DEF Marks
  <2>3. /\ k \in 1 .. Len(s) - 1 /\ \A i \in Marks(s) : k <= i
        /\ Opens(s, k) /\ Visible(s) = SubSeq(s, 1, k - 1)
    BY <1>1, <2>2, VisibleIs
  <2> HIDE DEF k
  <2>4. k \in 1 .. n + Len(b) /\ k <= n + m
    BY <1>1, <2>2, <2>3
  <2>5. k - n \in 1 .. Len(b) /\ n + (k - n) = k
    BY <1>1, <1>2, <2>3, <2>4
  <2>6. k - n \in Marks(b)
    BY <1>1, <1>3, <2>3, <2>5 DEF Marks
  <2>7. k = n + m
    <3>1. m <= k - n
      BY <2>1, <2>6
    <3> QED
      BY <1>1, <2>1, <2>4, <3>1
  <2>8. SubSeq(s, 1, (n + m) - 1) = a \o SubSeq(b, 1, m - 1)
    <3> DEFINE z == SubSeq(s, 1, (n + m) - 1)
               y == SubSeq(b, 1, m - 1)
               l == m - 1
    <3>0. l \in Nat /\ l <= Len(b) /\ (n + m) - 1 = n + l
      BY <1>1, <2>1
    <3>1. z \in Seq(Pieces) /\ Len(z) = n + l /\ \A i \in 1 .. n + l : z[i] = s[i]
      BY <1>1, <3>0
    <3>2. y \in Seq(Pieces) /\ Len(y) = l /\ \A i \in 1 .. l : y[i] = b[i]
      BY <1>1, <3>0
    <3> HIDE DEF z, y, l
    <3>3. /\ n \in Nat /\ l \in Nat /\ Len(a) = n /\ Len(y) = l /\ Len(z) = n + l
          /\ \A i \in 1 .. n : z[i] = a[i]
          /\ \A i \in 1 .. l : z[n + i] = y[i]
      <4>1. \A i \in 1 .. n : i \in 1 .. n + l
        BY <1>1, <3>0
      <4>2. \A i \in 1 .. l : n + i \in 1 .. n + l /\ i \in 1 .. Len(b)
        BY <1>1, <3>0
      <4> QED
        BY <1>1, <3>0, <3>1, <3>2, <4>1, <4>2 DEF n
    <3>4. a \in Seq(Pieces) /\ y \in Seq(Pieces) /\ z \in Seq(Pieces)
      BY <3>1, <3>2
    <3>6. Joins(a, y, z)
      BY <3>3 DEF Joins
    <3>5. z = a \o y
      BY <3>4, <3>6, JoinIs
    <3> QED
      BY <3>5 DEF z, y
  <2> QED
    BY <2>1, <2>3, <2>7, <2>8 DEF s
<1> QED
  BY <1>4, <1>5


-----------------------------------------------------------------------------
(* Deliveries.                                                             *)

\* A sequence up to a later point is it up to an earlier one, then the rest.
LEMMA CutIs ==
    ASSUME NEW S, NEW s \in Seq(S), NEW r \in Nat, NEW t \in Nat, r <= t, t <= Len(s)
    PROVE  /\ SubSeq(s, 1, r) \in Seq(S) /\ Len(SubSeq(s, 1, r)) = r
           /\ SubSeq(s, r + 1, t) \in Seq(S) /\ Len(SubSeq(s, r + 1, t)) = t - r
           /\ \A i \in 1 .. r : SubSeq(s, 1, r)[i] = s[i]
           /\ \A i \in 1 .. t - r : SubSeq(s, r + 1, t)[i] = s[r + i]
           /\ SubSeq(s, 1, t) = SubSeq(s, 1, r) \o SubSeq(s, r + 1, t)
<1>1. Len(s) \in Nat /\ DOMAIN s = 1 .. Len(s) /\ \A i \in 1 .. Len(s) : s[i] \in S
  OBVIOUS
<1> DEFINE x == SubSeq(s, 1, r)
           y == SubSeq(s, r + 1, t)
           z == SubSeq(s, 1, t)
           l == t - r
<1>2. l \in Nat /\ t = r + l
  OBVIOUS
<1>3. x \in Seq(S) /\ Len(x) = r /\ \A i \in 1 .. r : x[i] = s[i]
  BY <1>1
<1>4. z \in Seq(S) /\ Len(z) = t /\ \A i \in 1 .. t : z[i] = s[i]
  BY <1>1
<1>5. y \in Seq(S) /\ Len(y) = l /\ \A i \in 1 .. l : y[i] = s[r + i]
  BY <1>1
<1> HIDE DEF x, y, z, l
<1>6. /\ r \in Nat /\ l \in Nat /\ Len(x) = r /\ Len(y) = l /\ Len(z) = r + l
      /\ \A i \in 1 .. r : z[i] = x[i]
      /\ \A i \in 1 .. l : z[r + i] = y[i]
  <2>1. \A i \in 1 .. r : i \in 1 .. t
    BY <1>2
  <2>2. \A i \in 1 .. l : r + i \in 1 .. t
    BY <1>2
  <2>3. \A i \in 1 .. r : z[i] = x[i]
    BY <1>3, <1>4, <2>1
  <2>4. \A i \in 1 .. l : z[r + i] = y[i]
    BY <1>4, <1>5, <2>2
  <2>5. Len(z) = r + l
    BY <1>2, <1>4
  <2> QED
    BY <1>2, <1>3, <1>5, <2>3, <2>4, <2>5
<1>7. x \in Seq(S) /\ y \in Seq(S) /\ z \in Seq(S)
  BY <1>3, <1>4, <1>5
<1>8. z = x \o y
  <2>1. Joins(x, y, z)
    BY <1>6 DEF Joins
  <2> QED
    BY <1>7, <2>1, JoinIs
<1> QED
  BY <1>3, <1>5, <1>8 DEF x, y, z, l

\* CutIs for text, in the form its uses match.
Cuts(s, r, t) ==
    /\ SubSeq(s, r + 1, t) \in Seq(Pieces) /\ Len(SubSeq(s, r + 1, t)) = t - r
    /\ \A i \in 1 .. t - r : SubSeq(s, r + 1, t)[i] = s[r + i]
    /\ SubSeq(s, 1, t) = SubSeq(s, 1, r) \o SubSeq(s, r + 1, t)

\* Pieces can be cut anywhere.
LEMMA CutPieces ==
    \A s \in Seq(Pieces) : \A r, t \in Nat : r <= t /\ t <= Len(s) => Cuts(s, r, t)
<1> TAKE s \in Seq(Pieces)
<1> TAKE r, t \in Nat
<1> HAVE r <= t /\ t <= Len(s)
<1> QED
  BY CutIs DEF Cuts

\* What the filter let through up to a point, and the filtered delta from there on, is
\* what is visible up to the next point, when no opener was cut: either the text is out
\* to its end or it has none.
LEMMA Delivers ==
    ASSUME NEW old \in Seq(Pieces), NEW more \in Seq(Pieces), NEW new, new = old \o more,
           Whole(old), Whole(new),
           NEW r \in Nat, r <= Len(old), r = Len(old) \/ ~Marked(old),
           NEW t \in Nat, r <= t, t <= Len(new), t = Len(new) \/ ~Marked(new)
    PROVE  LET p == SubSeq(old, 1, r)
               delta == SubSeq(new, r + 1, t)
               q == SubSeq(new, 1, t)
           IN  /\ Marked(p) => Visible(q) = Visible(p)
               /\ ~Marked(p) => Visible(q) = Visible(p) \o Visible(delta)
               /\ Marked(q) <=> Marked(p) \/ Visible(delta) # delta
<1> DEFINE p == SubSeq(old, 1, r)
           delta == SubSeq(new, r + 1, t)
           q == SubSeq(new, 1, t)
<1>1. /\ new \in Seq(Pieces) /\ Len(old) \in Nat /\ Len(new) \in Nat /\ Len(old) <= Len(new)
      /\ \A i \in 1 .. Len(old) : new[i] = old[i]
      /\ DOMAIN new = 1 .. Len(new)
  OBVIOUS
<1>2. p \in Seq(Pieces) /\ SubSeq(new, 1, r) = p
  BY <1>1
<1>3. /\ delta \in Seq(Pieces) /\ Len(delta) = t - r /\ q = SubSeq(new, 1, r) \o delta
      /\ \A i \in 1 .. t - r : delta[i] = new[r + i]
  <2>1. /\ SubSeq(new, r + 1, t) \in Seq(Pieces) /\ Len(SubSeq(new, r + 1, t)) = t - r
        /\ \A i \in 1 .. t - r : SubSeq(new, r + 1, t)[i] = new[r + i]
        /\ SubSeq(new, 1, t) = SubSeq(new, 1, r) \o SubSeq(new, r + 1, t)
    <3>1. Cuts(new, r, t)
      BY <1>1, CutPieces
    <3> QED
      BY <3>1 DEF Cuts
  <2> QED
    BY <2>1
<1>4. r = Len(old) => p = old
  BY <1>1
<1>5. \A i \in DOMAIN p : p[i] = old[i] /\ i \in DOMAIN old
  BY <1>1
<1> HIDE DEF p, delta, q
<1>6. q = p \o delta
  BY <1>2, <1>3
<1>7. Marked(q) <=> Marked(p) \/ Marked(delta)
  <2>1. /\ DOMAIN p = 1 .. Len(p) /\ DOMAIN delta = 1 .. Len(delta)
        /\ DOMAIN q = 1 .. Len(p) + Len(delta) /\ Len(p) \in Nat /\ Len(delta) \in Nat
        /\ \A i \in 1 .. Len(p) : q[i] = p[i]
        /\ \A i \in 1 .. Len(delta) : q[Len(p) + i] = delta[i]
    <3>1. p \in Seq(Pieces) /\ delta \in Seq(Pieces)
      BY <1>2, <1>3
    <3> QED
      BY <1>6, <3>1
  <2>2. ASSUME NEW i \in DOMAIN q, q[i] = "<|tool" PROVE Marked(p) \/ Marked(delta)
    <3>1. CASE i <= Len(p)
      BY <2>1, <2>2, <3>1 DEF Marked, Has
    <3>2. CASE ~(i <= Len(p))
      <4>1. i - Len(p) \in 1 .. Len(delta) /\ Len(p) + (i - Len(p)) = i
        BY <2>1, <3>2
      <4>2. delta[i - Len(p)] = "<|tool"
        BY <2>1, <2>2, <4>1
      <4> QED
        BY <2>1, <4>1, <4>2 DEF Marked, Has
    <3> QED
      BY <3>1, <3>2
  <2>3. Marked(p) => Marked(q)
    <3>1. \A i \in 1 .. Len(p) : i \in 1 .. Len(p) + Len(delta)
      BY <2>1
    <3> QED
      BY <2>1, <3>1 DEF Marked, Has
  <2>4. Marked(delta) => Marked(q)
    <3>1. \A i \in 1 .. Len(delta) : Len(p) + i \in 1 .. Len(p) + Len(delta)
      BY <2>1
    <3> QED
      BY <2>1, <3>1 DEF Marked, Has
  <2> QED
    BY <2>2, <2>3, <2>4 DEF Marked, Has
<1>8. CASE Marked(p)
  <2>1. Marked(p)
    BY <1>8
  <2>2. Marked(old)
    BY <1>5, <2>1 DEF Marked, Has
  <2>3. p = old
    BY <1>4, <2>2
  <2>4. Marks(p) # {}
    BY <2>2, <2>3, MarkedIsCut
  <2>5. Visible(q) = Visible(p)
    <3>1. p \in Seq(Pieces) /\ delta \in Seq(Pieces)
      BY <1>2, <1>3
    <3>2. Visible(p \o delta) = Visible(p)
      BY <2>4, <3>1, HiddenStaysHidden
    <3> QED
      BY <1>6, <3>2
  <2> QED
    BY <1>7, <1>8, <2>1, <2>5 DEF p, delta, q
<1>9. CASE ~Marked(p)
  <2>1. ~Marked(p)
    BY <1>9
  <2>2. Visible(q) = p \o Visible(delta) /\ Visible(p) = p
    <3>1. Visible(p) = p
      BY <1>2, <2>1, UnmarkedIsVisible
    <3>2. Visible(p \o delta) = p \o Visible(delta)
      BY ONLY <1>2, <1>3, <2>1, SeenStaysSeen
    <3> QED
      BY <1>6, <3>1, <3>2
  <2>3. Marked(delta) => Visible(delta) # delta
    <3>1. CASE t = Len(new)
      <4>1. Whole(delta)
        <5> SUFFICES ASSUME NEW i \in 1 .. t - r, delta[i] = "<|tool"
                     PROVE  i < Len(delta) /\ delta[i + 1] = "_call>"
          BY <1>3 DEF Whole
        <5>1. r + i \in DOMAIN new /\ new[r + i] = "<|tool"
          BY <1>1, <1>3
        <5>2. r + i < Len(new) /\ new[(r + i) + 1] = "_call>"
          BY <5>1 DEF Whole
        <5>3. i + 1 \in 1 .. t - r /\ r + (i + 1) = (r + i) + 1
          BY <1>1, <3>1, <5>2
        <5>4. delta[i + 1] = "_call>"
          BY <1>3, <5>2, <5>3
        <5>5. i < t - r
          BY <5>3
        <5> QED
          BY <1>3, <5>4, <5>5
      <4> QED
        BY <1>3, <4>1, MarkedIsCut
    <3>2. CASE ~Marked(new)
      <4>1. \A i \in 1 .. t - r : r + i \in DOMAIN new
        BY <1>1
      <4>2. DOMAIN delta = 1 .. t - r
        BY <1>3
      <4> QED
        BY <1>3, <3>2, <4>1, <4>2 DEF Marked, Has
    <3> QED
      BY <3>1, <3>2
  <2>4. Visible(delta) # delta => Marked(delta)
    BY <1>3, UnmarkedIsVisible
  <2> QED
    BY <1>7, <1>9, <2>1, <2>2, <2>3, <2>4 DEF p, delta, q
<1> QED
  BY <1>8, <1>9


\* What was released of an answer, and what is released of it grown, are one piece.
CutAfter(old, more, r, t) ==
    /\ SubSeq(old \o more, 1, t) = SubSeq(old, 1, r) \o SubSeq(old \o more, r + 1, t)
    /\ SubSeq(old \o more, r + 1, t) \in Seq(Pieces)
    /\ Len(SubSeq(old \o more, r + 1, t)) = t - r

\* Sent up to an earlier point and the rest is sent up to the later one.
LEMMA Streams ==
    \A old, more \in Seq(Pieces) : \A r, t \in Nat :
        r <= Len(old) /\ r <= t /\ t <= Len(old \o more) => CutAfter(old, more, r, t)
<1> TAKE old, more \in Seq(Pieces)
<1> TAKE r, t \in Nat
<1> HAVE r <= Len(old) /\ r <= t /\ t <= Len(old \o more)
<1> DEFINE new == old \o more
<1>1. new \in Seq(Pieces) /\ SubSeq(new, 1, r) = SubSeq(old, 1, r)
  OBVIOUS
<1>2. t <= Len(new)
  OBVIOUS
<1> HIDE DEF new
<1>3. /\ SubSeq(new, 1, t) = SubSeq(new, 1, r) \o SubSeq(new, r + 1, t)
      /\ SubSeq(new, r + 1, t) \in Seq(Pieces) /\ Len(SubSeq(new, r + 1, t)) = t - r
  <2>1. new \in Seq(Pieces) /\ r \in Nat /\ t \in Nat /\ r <= t
    BY <1>1
  <2>2. Cuts(new, r, t)
    BY ONLY <1>2, <2>1, CutPieces
  <2> QED
    BY ONLY <2>2 DEF Cuts
<1>4. new \in Seq(Pieces) /\ new = old \o more
  BY <1>1 DEF new
<1> QED
  BY ONLY <1>1, <1>3, <1>4 DEF CutAfter

-----------------------------------------------------------------------------
(* The invariant.                                                          *)

\* A set of positions and the existence of one.
LEMMA WhereIs ==
    ASSUME NEW text, NEW kind
    PROVE  Where(text, kind) # {} <=> Has(text, kind)
BY DEF Where, Has

\* What is kept of a block is a run of tokens.
LEMMA StopsCut ==
    ASSUME NEW block \in Seq(Kinds), NEW before
    PROVE  Kept(block, StopsIn(block, before)) \in Seq(Kinds)
<1> DEFINE stops == StopsIn(block, before)
<1>1. stops \subseteq 1 .. Len(block)
  BY DEF StopsIn
<1> HIDE DEF stops
<1>2. Kept(block, stops) \in Seq(Kinds)
  BY <1>1, KeptType
<1> QED
  BY <1>2 DEF stops

\* Text that continues another is that text and more, and the other way round.
LEMMA PrefixGrows ==
    \A old, new \in Seq(Pieces) :
        IsPrefix(old, new) <=> \E y \in Seq(Pieces) : new = old \o y
<1> TAKE old, new \in Seq(Pieces)
<1>1. IsPrefix(old, new) <=>
          Len(old) <= Len(new) /\ SubSeq(old, 1, Len(old)) = SubSeq(new, 1, Len(old))
  BY DEF IsPrefix
<1>2. SubSeq(old, 1, Len(old)) = old /\ Len(old) \in Nat /\ Len(new) \in Nat
      /\ SubSeq(new, 1, Len(new)) = new
  OBVIOUS
<1>3. ASSUME IsPrefix(old, new) PROVE \E y \in Seq(Pieces) : new = old \o y
  <2> DEFINE r == Len(old)
             n == Len(new)
  <2>1. r \in Nat /\ n \in Nat /\ r <= n /\ n <= Len(new) /\ SubSeq(new, 1, r) = old
        /\ SubSeq(new, 1, n) = new
    BY <1>1, <1>2, <1>3
  <2> HIDE DEF r, n
  <2>2. Cuts(new, r, n)
    BY <2>1, CutPieces
  <2>3. /\ SubSeq(new, r + 1, n) \in Seq(Pieces)
        /\ SubSeq(new, 1, n) = SubSeq(new, 1, r) \o SubSeq(new, r + 1, n)
    BY <2>2 DEF Cuts
  <2> QED
    BY <2>1, <2>3
<1>4. ASSUME NEW y \in Seq(Pieces), new = old \o y PROVE IsPrefix(old, new)
  <2>1. Len(old \o y) = Len(old) + Len(y) /\ Len(y) \in Nat
        /\ SubSeq(old \o y, 1, Len(old)) = old
    OBVIOUS
  <2>2. Len(old) <= Len(new) /\ SubSeq(new, 1, Len(old)) = old
    BY <1>2, <1>4, <2>1
  <2> QED
    BY <1>1, <1>2, <2>2
<1> QED
  BY <1>3, <1>4

\* The options never change: what a reply says depends on the reply alone.
LEMMA OptionsFixed ==
    ASSUME UNCHANGED options
    PROVE  /\ Said(shown)' = Said(shown')
           /\ ContentOf(shown)' = ContentOf(shown')
           /\ ContentOf(reply)' = ContentOf(reply')
<1>1. /\ tool' = tool /\ thinks' = thinks /\ seeded' = seeded
  BY DEF options
<1>2. ContentOf(shown)' = ContentOf(shown')
  BY <1>1 DEF ContentOf, Answer, IsMarker, InThought
<1>3. ContentOf(reply)' = ContentOf(reply')
  BY <1>1 DEF ContentOf, Answer, IsMarker, InThought
<1>4. ReasoningOf(shown)' = ReasoningOf(shown')
  BY <1>1 DEF ReasoningOf, Musing, IsMarker, InThought
<1>5. Said(shown)' = Said(shown')
  BY <1>2, <1>4 DEF Said
<1> QED
  BY <1>2, <1>3, <1>5

\* Pieces are streamed.
Streamed == \A c \in Channels : stream[c] \in Seq(Pieces)

\* The engine and the mapper kept the same tokens, and the mapper saw an end only
\* where the engine did, unless stops are put off and one was judged on two texts.
Agree ==
    ~again /\ (defers => ~parted) => shown = reply /\ (ended => phase # "running")

\* Nothing is held without a reason to.
Unheld ==
    /\ (gated \/ ended \/ ~paced \/ phase = "done") => released = Full(Said(shown))
    /\ Has(ContentOf(shown), "call") => gated

SentAll(c) == stream[c] = SubSeq(Said(shown)[c], 1, released[c])

SentVisible ==
    /\ stream["content"] = Visible(SubSeq(Said(shown)["content"], 1, released["content"]))
    /\ hidden <=> Marked(SubSeq(Said(shown)["content"], 1, released["content"]))
    /\ \/ released["content"] = Len(Said(shown)["content"])
       \/ ~Marked(Said(shown)["content"])

\* The stream is what was said up to the cursors, up to its first markup opener: of the
\* answer until some of it is taken back.
Sent ==
    /\ SentAll("reasoning")
    /\ ~revised /\ ~tool => SentAll("content")
    /\ ~revised /\ tool /\ ~torn => SentVisible

RInv == TypeOK /\ Streamed /\ Agree /\ Unheld /\ Sent


\* Every cursor is inside what was said.
LEMMA CursorsInside ==
    ASSUME TypeOK
    PROVE  /\ shown \in Seq(Kinds) /\ reply \in Seq(Kinds)
           /\ \A c \in Channels : /\ Said(shown)[c] \in Seq(Pieces)
                                  /\ Len(Said(shown)[c]) \in Nat
                                  /\ released[c] \in Nat
                                  /\ released[c] <= Len(Said(shown)[c])
<1>1. shown \in Seq(Kinds) /\ reply \in Seq(Kinds)
  BY DEF TypeOK
<1>2. \A c \in Channels : Said(shown)[c] \in Seq(Pieces)
  BY <1>1, SaidType
<1>3. \A c \in Channels : Len(Said(shown)[c]) \in Nat
  BY <1>2
<1>4. \A c \in Channels : released[c] \in 0 .. Len(Said(shown)[c])
  BY DEF TypeOK
<1> QED
  BY <1>1, <1>2, <1>3, <1>4

\* Filtering adds nothing.
LEMMA FilteredType ==
    ASSUME NEW delta \in Seq(Pieces), NEW hides
    PROVE  Filtered(delta, hides) \in Seq(Pieces) /\ Len(Filtered(delta, hides)) <= Len(delta)
<1>1. Visible(delta) \in Seq(Pieces) /\ Len(Visible(delta)) <= Len(delta)
  BY VisibleIs
<1>2. <<>> \in Seq(Pieces) /\ Len(<<>>) = 0 /\ Len(delta) \in Nat
  OBVIOUS
<1> QED
  BY <1>1, <1>2 DEF Filtered

\* The mapper commits X, takes the cursors back to from where the text was taken back,
\* and releases up to t.
Releases(X, from, t) ==
    /\ TypeOK /\ Streamed /\ Sent /\ UNCHANGED options
    /\ X \in Seq(Kinds) /\ shown' = shown \o X
    /\ \A c \in Channels : /\ from[c] \in Nat /\ t[c] \in Nat /\ from[c] <= t[c]
                           /\ t[c] <= Len(Said(shown \o X)[c])
    /\ from["reasoning"] = released["reasoning"]
    /\ ~revised' => /\ from["content"] = released["content"]
                    /\ \E y \in Seq(Pieces) :
                          Said(shown \o X)["content"] = Said(shown)["content"] \o y
    /\ Release(Said(shown \o X), from, t)
    /\ torn => torn'
    /\ revised => revised'
    /\ ~revised' /\ tool /\ ~torn' =>
                         \/ t["content"] = Len(Said(shown \o X)["content"])
                         \/ ~Marked(Said(shown \o X)["content"])

\* A longer reply and later cursors: the deltas carry the stream along.
LEMMA ReleaseCarries ==
    ASSUME NEW X, NEW from, NEW t, Releases(X, from, t)
    PROVE  /\ shown' \in Seq(Kinds)
           /\ \A c \in Channels : /\ released'[c] \in 0 .. Len(Said(shown)'[c])
                                  /\ revised' \/ revised' \/ Len(stream'[c]) <= released'[c]
           /\ Streamed' /\ Sent'
<1> DEFINE new == Said(shown \o X)
           old == Said(shown)
           Delta(c) == SubSeq(new[c], from[c] + 1, t[c])
<1>1. Said(shown)' = new
  BY OptionsFixed DEF Releases
<1>2. shown \in Seq(Kinds) /\ X \in Seq(Kinds) /\ shown' \in Seq(Kinds)
  BY CursorsInside DEF Releases
<1>3. /\ \A c \in Channels : old[c] \in Seq(Pieces) /\ new[c] \in Seq(Pieces)
      /\ \E y \in Seq(Pieces) : new["reasoning"] = old["reasoning"] \o y
      /\ Whole(old["content"]) /\ Whole(new["content"])
  <2>1. shown \o X \in Seq(Kinds)
    BY <1>2
  <2> QED
    BY <1>2, <2>1, SaidType, SaidGrows
<1>4. /\ released' = t
      /\ stream' = [reasoning |-> stream["reasoning"] \o Delta("reasoning"),
                    content |-> stream["content"] \o Filtered(Delta("content"), hidden)]
      /\ hidden' = (hidden \/ (tool /\ Visible(Delta("content")) # Delta("content")))
  BY DEF Release, Releases
<1>5. \A c \in Channels : /\ t[c] \in Nat /\ from[c] \in Nat /\ released[c] \in Nat
                          /\ released[c] <= Len(old[c]) /\ Len(old[c]) \in Nat
                          /\ from[c] <= t[c] /\ t[c] <= Len(new[c])
                          /\ stream[c] \in Seq(Pieces)
                          /\ revised \/ Len(stream[c]) <= released[c]
  BY CursorsInside DEF Releases, Streamed, TypeOK
<1> DEFINE Goes(c) == c = "reasoning" \/ ~revised'
<1>0. \A c \in Channels : Goes(c) =>
          from[c] = released[c] /\ \E y \in Seq(Pieces) : new[c] = old[c] \o y
  BY <1>3 DEF Releases, Channels
<1>7. {"content", "reasoning"} = Channels /\ Goes("reasoning")
  BY DEF Channels
<1>a. revised => revised'
  BY DEF Releases
<1> HIDE DEF new, old, Goes
<1>b. \A c \in Channels : Delta(c) \in Seq(Pieces) /\ Len(Delta(c)) = t[c] - from[c]
  <2> TAKE c \in Channels
  <2> DEFINE n == new[c]
             r == from[c]
             u == t[c]
  <2>1. n \in Seq(Pieces) /\ r \in Nat /\ u \in Nat /\ r <= u /\ u <= Len(n)
    BY <1>3, <1>5
  <2>2. Delta(c) = SubSeq(n, r + 1, u)
    OBVIOUS
  <2> HIDE DEF n, r, u, Delta
  <2>3. Cuts(n, r, u)
    BY <2>1, CutPieces
  <2>4. SubSeq(n, r + 1, u) \in Seq(Pieces) /\ Len(SubSeq(n, r + 1, u)) = u - r
    BY <2>3 DEF Cuts
  <2> QED
    BY <2>2, <2>4 DEF r, u
<1>6. \A c \in Channels : Goes(c) =>
          SubSeq(new[c], 1, t[c]) = SubSeq(old[c], 1, released[c]) \o Delta(c)
  <2> TAKE c \in Channels
  <2> HAVE Goes(c)
  <2>1. PICK y \in Seq(Pieces) : new[c] = old[c] \o y
    BY <1>0
  <2> DEFINE o == old[c]
             n == new[c]
             r == released[c]
             u == t[c]
  <2>2. /\ o \in Seq(Pieces) /\ n = o \o y
        /\ r \in Nat /\ r <= Len(o) /\ u \in Nat /\ r <= u /\ u <= Len(n)
    BY <1>0, <1>3, <1>5, <2>1
  <2>3. Delta(c) = SubSeq(n, r + 1, u)
    BY <1>0
  <2> HIDE DEF o, n, r, u, Delta
  <2>4. SubSeq(n, 1, u) = SubSeq(o, 1, r) \o SubSeq(n, r + 1, u)
    <3>1. u <= Len(o \o y)
      BY <2>2
    <3>2. CutAfter(o, y, r, u)
      BY <2>1, <2>2, <3>1, Streams
    <3> QED
      BY <2>2, <3>2 DEF CutAfter
  <2> QED
    BY <2>3, <2>4 DEF o, n, r, u
<1> HIDE DEF Delta
<1>8. /\ stream'["reasoning"] = stream["reasoning"] \o Delta("reasoning")
      /\ stream'["content"] = stream["content"] \o Filtered(Delta("content"), hidden)
  BY <1>4
<1>9. \A c \in Channels : released'[c] \in 0 .. Len(Said(shown)'[c])
  BY <1>1, <1>4, <1>5
<1>c. /\ Filtered(Delta("content"), hidden) \in Seq(Pieces)
      /\ Len(Filtered(Delta("content"), hidden)) <= Len(Delta("content"))
  BY <1>b, <1>7, FilteredType
<1>d. \A c \in Channels : stream'[c] \in Seq(Pieces)
  <2>1. \A c \in Channels : stream[c] \in Seq(Pieces) /\ Delta(c) \in Seq(Pieces)
    BY <1>5, <1>b
  <2>2. /\ stream["reasoning"] \in Seq(Pieces) /\ Delta("reasoning") \in Seq(Pieces)
        /\ stream["content"] \in Seq(Pieces)
    BY <1>7, <2>1
  <2>3. stream'["reasoning"] \in Seq(Pieces) /\ stream'["content"] \in Seq(Pieces)
    BY <1>8, <1>c, <2>2
  <2> QED
    BY <1>7, <2>3
<1>10. \A c \in Channels : revised' \/ revised' \/ Len(stream'[c]) <= released'[c]
  <2> SUFFICES ASSUME ~revised'
               PROVE  \A c \in Channels : revised' \/ Len(stream'[c]) <= released'[c]
    OBVIOUS
  <2>1. \A c \in Channels : from[c] = released[c] /\ Len(stream[c]) <= released[c]
    BY <1>0, <1>5, <1>a DEF Goes
  <2>3. Len(stream'["reasoning"]) <= t["reasoning"]
    <3> DEFINE f == Delta("reasoning")
    <3>1. f \in Seq(Pieces) /\ Len(f) = t["reasoning"] - released["reasoning"]
      BY <1>b, <1>7, <2>1
    <3> HIDE DEF f
    <3>2. stream'["reasoning"] = stream["reasoning"] \o f
      BY <1>8 DEF f
    <3> QED
      BY <1>5, <1>7, <2>1, <3>1, <3>2
  <2>4. Len(stream'["content"]) <= t["content"]
    <3> DEFINE f == Filtered(Delta("content"), hidden)
    <3>1. f \in Seq(Pieces) /\ Len(f) <= t["content"] - released["content"]
      BY <1>b, <1>c, <1>7, <2>1
    <3> HIDE DEF f
    <3>2. stream'["content"] = stream["content"] \o f
      BY <1>8 DEF f
    <3> QED
      BY <1>5, <1>7, <2>1, <3>1, <3>2
  <2> QED
    BY <1>4, <1>7, <2>3, <2>4
<1>11. Streamed'
  BY <1>d DEF Streamed, Channels
<1>12. SentAll("reasoning")'
  <2>1. stream["reasoning"] = SubSeq(old["reasoning"], 1, released["reasoning"])
    BY DEF Releases, Sent, SentAll, old
  <2>2. stream'["reasoning"] = SubSeq(new["reasoning"], 1, t["reasoning"])
    BY <1>6, <1>7, <1>8, <2>1
  <2> QED
    BY <1>1, <1>4, <2>2 DEF SentAll
<1>13. tool' = tool
  BY DEF Releases, options
<1>14. ASSUME ~tool, ~revised' PROVE SentAll("content")'
  <2>1. stream["content"] = SubSeq(old["content"], 1, released["content"])
    BY <1>14, <1>a DEF Releases, Sent, SentAll, old
  <2>2. Filtered(Delta("content"), hidden) = Delta("content")
    BY <1>14 DEF Filtered
  <2>4. Goes("content")
    BY <1>14 DEF Goes
  <2>3. stream'["content"] = SubSeq(new["content"], 1, t["content"])
    BY <1>6, <1>7, <1>8, <2>1, <2>2, <2>4
  <2> QED
    BY <1>1, <1>4, <2>3 DEF SentAll
<1>15. ~revised' /\ tool /\ ~torn' => SentVisible'
  <2> SUFFICES ASSUME tool, ~torn', ~revised' PROVE SentVisible'
    OBVIOUS
  <2> DEFINE o == old["content"]
             n == new["content"]
             r == released["content"]
             u == t["content"]
             p == SubSeq(o, 1, r)
             delta == SubSeq(n, r + 1, u)
  <2>0. Goes("content") /\ from["content"] = r
    BY <1>0, <1>7 DEF Goes
  <2>1. PICK y \in Seq(Pieces) : n = o \o y
    BY <1>0, <1>7, <2>0
  <2>2. /\ stream["content"] = Visible(p)
        /\ hidden <=> Marked(p)
        /\ r = Len(o) \/ ~Marked(o)
    BY <1>a DEF Releases, Sent, SentVisible, old
  <2>3. u = Len(n) \/ ~Marked(n)
    BY DEF Releases, new
  <2>4. /\ o \in Seq(Pieces) /\ Whole(o) /\ Whole(n)
        /\ r \in Nat /\ r <= Len(o) /\ u \in Nat /\ r <= u /\ u <= Len(n)
    BY <1>3, <1>5, <1>7, <2>0
  <2>5. /\ stream'["content"] = stream["content"] \o (IF hidden THEN <<>> ELSE Visible(delta))
        /\ hidden' = (hidden \/ Visible(delta) # delta)
    BY <1>4, <1>8, <2>0 DEF Filtered, Delta
  <2> HIDE DEF o, n, r, u
  <2>6. /\ Marked(p) => Visible(SubSeq(n, 1, u)) = Visible(p)
        /\ ~Marked(p) => Visible(SubSeq(n, 1, u)) = Visible(p) \o Visible(delta)
        /\ Marked(SubSeq(n, 1, u)) <=> Marked(p) \/ Visible(delta) # delta
    <3>1. /\ u <= Len(o \o y) /\ Whole(o \o y)
          /\ u = Len(o \o y) \/ ~Marked(o \o y)
      BY <2>1, <2>3, <2>4
    <3>2. /\ Marked(p) => Visible(SubSeq(o \o y, 1, u)) = Visible(p)
          /\ ~Marked(p) => Visible(SubSeq(o \o y, 1, u)) =
                              Visible(p) \o Visible(SubSeq(o \o y, r + 1, u))
          /\ Marked(SubSeq(o \o y, 1, u)) <=>
                (Marked(p) \/ Visible(SubSeq(o \o y, r + 1, u)) # SubSeq(o \o y, r + 1, u))
      BY <2>1, <2>2, <2>4, <3>1, Delivers, ZenonT(30)
    <3> QED
      BY <2>1, <3>2
  <2>7. p \in Seq(Pieces)
    BY <2>4
  <2>8. Visible(p) \o <<>> = Visible(p)
    BY <2>7, VisibleIs, ConcatEmptySeq
  <2> HIDE DEF p, delta
  <2>9. stream'["content"] = Visible(SubSeq(n, 1, u))
    BY <2>2, <2>5, <2>6, <2>8
  <2>10. hidden' <=> Marked(SubSeq(n, 1, u))
    BY <2>2, <2>5, <2>6, Zenon
  <2>11. Said(shown)'["content"] = n /\ released'["content"] = u
    BY <1>1, <1>4 DEF n, u
  <2> QED
    BY <2>3, <2>9, <2>10, <2>11 DEF SentVisible
<1>16. Sent'
  BY <1>12, <1>13, <1>14, <1>15 DEF Sent
<1> QED
  BY <1>2, <1>9, <1>10, <1>11, <1>16


-----------------------------------------------------------------------------
(* Every step keeps the invariant.                                         *)

\* The invariant holds of a fresh reply.
LEMMA StartType ==
    ASSUME Init
    PROVE  RInv
<1>1. /\ \A c \in Channels : Said(shown)[c] \in Seq(Pieces) /\ Len(Said(shown)[c]) = 0
      /\ ContentOf(shown) = <<>>
  <2>1. /\ <<>> \in Seq(Kinds) /\ Len(<<>>) = 0
        /\ ContentOf(<<>>) \in Seq(Kinds) /\ Len(ContentOf(<<>>)) <= 0
        /\ ReasoningOf(<<>>) \in Seq(Kinds) /\ Len(ReasoningOf(<<>>)) <= 0
    <3>1. <<>> \in Seq(Kinds) /\ Len(<<>>) = 0
      OBVIOUS
    <3>2. ContentOf(<<>>) \in Seq(Kinds) /\ Len(ContentOf(<<>>)) <= Len(<<>>)
      BY <3>1, ContentType, Zenon
    <3>3. ReasoningOf(<<>>) \in Seq(Kinds) /\ Len(ReasoningOf(<<>>)) <= Len(<<>>)
      BY <3>1, ReasoningGrows, Zenon
    <3> QED
      BY <3>1, <3>2, <3>3
  <2>2. ContentOf(<<>>) = <<>> /\ ReasoningOf(<<>>) = <<>>
    BY <2>1
  <2>3. TextOf(<<>>) \in Seq(Pieces) /\ Len(TextOf(<<>>)) = 0
    <3>1. TextOf(<<>> \o <<>>) = TextOf(<<>>) \o TextOf(<<>>) /\ TextOf(<<>>) \in Seq(Pieces)
      BY <2>1, TextConcat
    <3>2. <<>> \o <<>> = <<>>
      OBVIOUS
    <3> DEFINE e == TextOf(<<>>)
    <3>3. e = e \o e /\ e \in Seq(Pieces)
      BY <3>1, <3>2
    <3> HIDE DEF e
    <3>4. Len(e) \in Nat /\ Len(e \o e) = Len(e) + Len(e)
      BY <3>3
    <3>5. Len(e) = 0
      BY <3>3, <3>4
    <3> QED
      BY <3>3, <3>5 DEF e
  <2>4. shown = <<>>
    BY DEF Init
  <2> QED
    BY <2>2, <2>3, <2>4 DEF Said, Channels
<1>2. /\ \A c \in Channels : released[c] = 0 /\ stream[c] = <<>>
      /\ released = [c \in Channels |-> 0]
  BY DEF Init
<1>3. TypeOK
  <2>1. /\ phase \in {"running", "generated", "done"} /\ blocks \in 0 .. MaxBlocks
        /\ {reply, shown} \subseteq Seq(Kinds)
    BY StreamShape DEF Init
  <2>2. {tool, defers, thinks, seeded, paced, stages, again, ended, gated, hidden,
         torn, revised, parted} \subseteq BOOLEAN
    BY DEF Init
  <2>3. \A c \in Channels : /\ released[c] \in 0 .. Len(Said(shown)[c])
                            /\ Len(stream[c]) <= released[c]
    BY <1>1, <1>2
  <2> QED
    BY <2>1, <2>2, <2>3 DEF TypeOK
<1>4. Streamed
  <2>1. <<>> \in Seq(Pieces)
    OBVIOUS
  <2> QED
    BY <1>2, <2>1 DEF Streamed
<1>5. Agree
  BY DEF Agree, Init
<1>6. Unheld
  <2>1. Full(Said(shown)) = [c \in Channels |-> 0]
    BY <1>1 DEF Full
  <2>2. ~Has(ContentOf(shown), "call")
    BY <1>1 DEF Has
  <2> QED
    BY <1>2, <2>1, <2>2 DEF Unheld
<1>7. \A c \in Channels : SubSeq(Said(shown)[c], 1, released[c]) = <<>>
  BY <1>1, <1>2
<1>8. Sent
  <2>1. SentAll("reasoning") /\ SentAll("content")
    BY <1>2, <1>7 DEF SentAll, Channels
  <2>2. <<>> \in Seq(Pieces) /\ ~Marked(<<>>)
    BY DEF Marked, Has
  <2>3. Visible(<<>>) = <<>>
    BY <2>2, UnmarkedIsVisible
  <2>4. ~hidden
    BY DEF Init
  <2>5. SentVisible
    BY <1>1, <1>2, <1>7, <2>2, <2>3, <2>4 DEF SentVisible, Channels
  <2> QED
    BY <2>1, <2>5 DEF Sent
<1> QED
  BY <1>3, <1>4, <1>5, <1>6, <1>8 DEF RInv

\* What does not touch the mapper and the wire keeps what they are about.
LEMMA MapperRests ==
    ASSUME TypeOK, Streamed, Sent, UNCHANGED <<options, mapper, wire, past>>
    PROVE  /\ Streamed' /\ Sent' /\ Said(shown)' = Said(shown)
           /\ ContentOf(shown)' = ContentOf(shown)
           /\ ContentOf(reply)' = ContentOf(reply')
           /\ {tool', defers', thinks', seeded', paced', stages', ended', gated', hidden',
            torn', revised', parted'}
                 \subseteq BOOLEAN
           /\ shown' \in Seq(Kinds)
           /\ \A c \in Channels : /\ released'[c] \in 0 .. Len(Said(shown)'[c])
                                  /\ revised' \/ Len(stream'[c]) <= released'[c]
<1>1. /\ tool' = tool /\ defers' = defers /\ thinks' = thinks /\ seeded' = seeded
      /\ paced' = paced /\ stages' = stages
      /\ shown' = shown /\ ended' = ended /\ gated' = gated /\ released' = released
      /\ hidden' = hidden /\ stream' = stream
      /\ torn' = torn /\ revised' = revised /\ parted' = parted
  BY DEF options, mapper, wire, past
<1>2. /\ Said(shown)' = Said(shown) /\ ContentOf(shown)' = ContentOf(shown)
      /\ ContentOf(reply)' = ContentOf(reply')
  BY <1>1, OptionsFixed
<1>3. Streamed'
  BY <1>1 DEF Streamed
<1>4. /\ SentAll("reasoning") => SentAll("reasoning")'
      /\ SentAll("content") => SentAll("content")'
      /\ SentVisible => SentVisible'
  BY <1>1, <1>2 DEF SentAll, SentVisible
<1>5. Sent'
  BY <1>1, <1>4 DEF Sent
<1>6. {tool', defers', thinks', seeded', paced', stages', ended', gated', hidden',
            torn', revised', parted'}
          \subseteq BOOLEAN
  BY <1>1 DEF TypeOK
<1>7. /\ shown' \in Seq(Kinds)
      /\ \A c \in Channels : /\ released'[c] \in 0 .. Len(Said(shown)'[c])
                             /\ revised' \/ Len(stream'[c]) <= released'[c]
  BY <1>1, <1>2 DEF TypeOK
<1> QED
  BY <1>2, <1>3, <1>5, <1>6, <1>7

\* The budget is spent: the mapper notices nothing.
LEMMA BudgetStep ==
    ASSUME RInv, OutOfBudget
    PROVE  RInv'
<1>1. /\ phase = "running" /\ phase' = "generated" /\ UNCHANGED <<options, mapper, wire, past>>
      /\ reply' = reply /\ blocks' = blocks /\ again' = again
  BY DEF OutOfBudget
<1>2. TypeOK /\ Streamed /\ Agree /\ Unheld /\ Sent
  BY DEF RInv
<1>3. /\ Streamed' /\ Sent' /\ Said(shown)' = Said(shown)
      /\ ContentOf(shown)' = ContentOf(shown) /\ ContentOf(reply)' = ContentOf(reply')
      /\ {tool', defers', thinks', seeded', paced', stages', ended', gated', hidden',
            torn', revised', parted'}
            \subseteq BOOLEAN
      /\ shown' \in Seq(Kinds)
      /\ \A c \in Channels : /\ released'[c] \in 0 .. Len(Said(shown)'[c])
                             /\ revised' \/ Len(stream'[c]) <= released'[c]
  BY <1>1, <1>2, MapperRests
<1>4. TypeOK'
  BY <1>1, <1>2, <1>3 DEF TypeOK
<1>5. /\ shown' = shown /\ ended' = ended /\ gated' = gated /\ paced' = paced
      /\ released' = released /\ defers' = defers /\ parted' = parted
  BY <1>1 DEF mapper, options, past
<1>6. Agree'
  BY <1>1, <1>2, <1>3, <1>5 DEF Agree
<1>7. Unheld'
  BY <1>1, <1>2, <1>3, <1>5 DEF Unheld, Full
<1> QED
  BY <1>3, <1>4, <1>6, <1>7 DEF RInv

\* A stage generates again: the two texts part, which Agree excludes by name.
LEMMA AgainStep ==
    ASSUME RInv, GenerateAgain
    PROVE  RInv'
<1>1. /\ phase = "generated" /\ phase' = "running" /\ UNCHANGED <<options, mapper, wire, past>>
      /\ reply' = <<>> /\ blocks' = blocks /\ again' = TRUE
  BY DEF GenerateAgain
<1>2. TypeOK /\ Streamed /\ Agree /\ Unheld /\ Sent
  BY DEF RInv
<1>3. /\ Streamed' /\ Sent' /\ Said(shown)' = Said(shown)
      /\ ContentOf(shown)' = ContentOf(shown)
      /\ {tool', defers', thinks', seeded', paced', stages', ended', gated', hidden',
            torn', revised', parted'}
            \subseteq BOOLEAN
      /\ shown' \in Seq(Kinds)
      /\ \A c \in Channels : /\ released'[c] \in 0 .. Len(Said(shown)'[c])
                             /\ revised' \/ Len(stream'[c]) <= released'[c]
  BY <1>1, <1>2, MapperRests
<1>4. TypeOK'
  BY <1>1, <1>2, <1>3 DEF TypeOK
<1>5. shown' = shown /\ ended' = ended /\ gated' = gated /\ paced' = paced /\ released' = released
  BY <1>1 DEF mapper, options
<1>6. Agree'
  BY <1>1 DEF Agree
<1>7. Unheld'
  BY <1>1, <1>2, <1>3, <1>5 DEF Unheld, Full
<1> QED
  BY <1>3, <1>4, <1>6, <1>7 DEF RInv

\* Some of what is held goes out: nothing new is committed.
LEMMA DenoiseStep ==
    ASSUME RInv, Denoise
    PROVE  RInv'
<1>1. /\ phase = "running" /\ ~ended /\ paced /\ ~gated
      /\ UNCHANGED options /\ UNCHANGED <<reply, blocks, phase, again>>
      /\ shown' = shown /\ ended' = ended /\ gated' = gated
      /\ torn' = torn /\ revised' = revised /\ parted' = parted
  BY DEF Denoise, engine, past
<1>2. TypeOK /\ Streamed /\ Agree /\ Unheld /\ Sent
  BY DEF RInv
<1>3. PICK t \in [Channels -> 0 .. Max({Len(Said(shown)[c]) : c \in Channels})] :
          /\ \A c \in Channels : released[c] <= t[c] /\ t[c] <= Len(Said(shown)[c])
          /\ Release(Said(shown), released, t)
  BY DEF Denoise
<1>4. \A c \in Channels : t[c] \in Nat
  <2> DEFINE lens == {Len(Said(shown)[c]) : c \in Channels}
  <2>1. lens = {Len(Said(shown)["reasoning"]), Len(Said(shown)["content"])}
    BY DEF Channels
  <2>2. Len(Said(shown)["reasoning"]) \in Nat /\ Len(Said(shown)["content"]) \in Nat
    BY <1>2, CursorsInside DEF Channels
  <2>3. Max(lens) \in Nat
    BY <2>1, <2>2, MaxOfTwo
  <2> QED
    BY <1>3, <2>3
<1>5. shown \o <<>> = shown /\ <<>> \in Seq(Kinds) /\ shown \in Seq(Kinds)
  <2>1. shown \in Seq(Kinds)
    BY <1>2, CursorsInside
  <2> QED
    BY <2>1
<1>6. ~revised /\ tool /\ ~torn => \/ t["content"] = Len(Said(shown)["content"])
                                   \/ ~Marked(Said(shown)["content"])
  <2> SUFFICES ASSUME ~revised, tool, ~torn, Marked(Said(shown)["content"])
               PROVE  t["content"] = Len(Said(shown)["content"])
    OBVIOUS
  <2>1. released["content"] = Len(Said(shown)["content"])
    BY <1>2 DEF Sent, SentVisible
  <2>2. Len(Said(shown)["content"]) \in Nat
    BY <1>2, CursorsInside DEF Channels
  <2>3. released["content"] <= t["content"] /\ t["content"] <= Len(Said(shown)["content"])
    BY <1>3 DEF Channels
  <2> QED
    BY <1>4, <2>1, <2>2, <2>3 DEF Channels
<1>7. Releases(<<>>, released, t)
  <2>1. \E y \in Seq(Pieces) : Said(shown \o <<>>)["content"] = Said(shown)["content"] \o y
    <3> DEFINE o == Said(shown)["content"]
    <3>1. o \in Seq(Pieces)
      BY <1>2, CursorsInside DEF Channels
    <3> HIDE DEF o
    <3>2. <<>> \in Seq(Pieces) /\ o = o \o <<>>
      BY <3>1
    <3> QED
      BY <1>5, <3>2 DEF o
  <2>2. \A c \in Channels : /\ released[c] \in Nat /\ t[c] \in Nat /\ released[c] <= t[c]
                            /\ t[c] <= Len(Said(shown)[c])
    BY <1>2, <1>3, <1>4, CursorsInside
  <2> QED
    BY <1>1, <1>2, <1>3, <1>5, <1>6, <2>1, <2>2 DEF Releases
<1>8. /\ shown' \in Seq(Kinds) /\ Streamed' /\ Sent'
      /\ \A c \in Channels : /\ released'[c] \in 0 .. Len(Said(shown)'[c])
                             /\ revised' \/ Len(stream'[c]) <= released'[c]
  BY <1>7, ReleaseCarries
<1>9. /\ tool' = tool /\ defers' = defers /\ thinks' = thinks /\ seeded' = seeded
      /\ paced' = paced /\ stages' = stages
  BY <1>1 DEF options
<1>10. hidden' \in BOOLEAN
  BY <1>3 DEF Release
<1>11. TypeOK'
  <2>1. {tool', defers', thinks', seeded', paced', stages', again', ended', gated', hidden',
            torn', revised', parted'}
           \subseteq BOOLEAN
    BY <1>1, <1>2, <1>9, <1>10 DEF TypeOK
  <2> QED
    BY <1>1, <1>2, <1>8, <2>1 DEF TypeOK
<1>12. /\ ContentOf(shown)' = ContentOf(shown) /\ ContentOf(reply)' = ContentOf(reply)
  BY <1>1, OptionsFixed
<1>13. Agree'
  BY <1>1, <1>2, <1>9, <1>12 DEF Agree
<1>14. Unheld'
  BY <1>1, <1>2, <1>9, <1>12 DEF Unheld
<1> QED
  BY <1>8, <1>11, <1>13, <1>14 DEF RInv


\* A delta of what a cursor moved keeps the stream inside the cursor.
LEMMA LongerBy ==
    ASSUME NEW x \in Seq(Pieces), NEW y \in Seq(Pieces), NEW r \in Nat, NEW n \in Nat,
           Len(x) <= r, Len(y) <= n - r
    PROVE  x \o y \in Seq(Pieces) /\ Len(x \o y) <= n
<1>1. Len(x) \in Nat /\ Len(y) \in Nat /\ Len(x \o y) = Len(x) + Len(y)
  OBVIOUS
<1> QED
  BY <1>1

\* The rest of each channel goes out, through a filter that has seen no markup.
LEMMA FlushStep ==
    ASSUME RInv, Flush
    PROVE  RInv'
<1> DEFINE said == Said(shown)
           Held(c) == SubSeq(said[c], released[c] + 1, Len(said[c]))
<1>1. /\ phase = "generated" /\ phase' = "done"
      /\ UNCHANGED options /\ UNCHANGED <<reply, blocks, again>>
      /\ shown' = shown /\ ended' = ended /\ gated' = gated
      /\ hidden' = hidden /\ torn' = torn /\ revised' = revised /\ parted' = parted
      /\ released' = Full(said)
      /\ stream'["reasoning"] = stream["reasoning"] \o Held("reasoning")
      /\ stream'["content"] = stream["content"] \o Filtered(Held("content"), FALSE)
  BY DEF Flush, Suffix, past
<1>2. TypeOK /\ Streamed /\ Agree /\ Unheld /\ Sent
  BY DEF RInv
<1>3. /\ shown \in Seq(Kinds)
      /\ \A c \in Channels : /\ said[c] \in Seq(Pieces) /\ Len(said[c]) \in Nat
                             /\ released[c] \in Nat /\ released[c] <= Len(said[c])
                             /\ stream[c] \in Seq(Pieces)
                             /\ revised \/ Len(stream[c]) <= released[c]
  BY <1>2, CursorsInside DEF TypeOK, Streamed
<1>4. Whole(said["content"])
  BY <1>3, SaidType
<1>5. Said(shown)' = said /\ ContentOf(shown)' = ContentOf(shown)
      /\ ContentOf(reply)' = ContentOf(reply)
  BY <1>1, OptionsFixed
<1>6. \A c \in Channels : released'[c] = Len(said[c])
  BY <1>1 DEF Full
<1>7. /\ tool' = tool /\ defers' = defers /\ thinks' = thinks /\ seeded' = seeded
      /\ paced' = paced /\ stages' = stages
  BY <1>1 DEF options
<1>8. Unheld'
  BY <1>1, <1>2, <1>5, <1>7 DEF Unheld, Full
<1>9. Agree'
  BY <1>1, <1>2, <1>5, <1>7 DEF Agree
<1> HIDE DEF said
<1>10. \A c \in Channels : /\ SubSeq(said[c], 1, released[c]) \o Held(c) = said[c]
                           /\ Held(c) \in Seq(Pieces)
                           /\ Len(Held(c)) = Len(said[c]) - released[c]
  <2> TAKE c \in Channels
  <2> DEFINE s == said[c]
             r == released[c]
  <2>1. s \in Seq(Pieces) /\ Len(s) \in Nat /\ r \in Nat /\ r <= Len(s) /\ Len(s) <= Len(s)
    BY <1>3
  <2> HIDE DEF s, r
  <2>2. /\ SubSeq(s, r + 1, Len(s)) \in Seq(Pieces)
        /\ Len(SubSeq(s, r + 1, Len(s))) = Len(s) - r
        /\ SubSeq(s, 1, Len(s)) = SubSeq(s, 1, r) \o SubSeq(s, r + 1, Len(s))
    <3>1. Cuts(s, r, Len(s))
      BY <2>1, CutPieces
    <3> QED
      BY <3>1 DEF Cuts
  <2>3. SubSeq(s, 1, Len(s)) = s
    BY <2>1
  <2> QED
    BY <2>2, <2>3 DEF s, r
<1> HIDE DEF Held
<1>11. {"content", "reasoning"} = Channels
  BY DEF Channels
<1>12. \A c \in Channels : /\ stream'[c] \in Seq(Pieces)
                           /\ revised \/ Len(stream'[c]) <= Len(said[c])
  <2> DEFINE h == Held("reasoning")
             f == Filtered(Held("content"), FALSE)
  <2>1. h \in Seq(Pieces) /\ Len(h) = Len(said["reasoning"]) - released["reasoning"]
    BY <1>10, <1>11
  <2>2. f \in Seq(Pieces) /\ Len(f) <= Len(Held("content"))
    BY <1>10, <1>11, FilteredType
  <2>3. Len(Held("content")) = Len(said["content"]) - released["content"]
    BY <1>10, <1>11
  <2>4. /\ stream'["reasoning"] = stream["reasoning"] \o h
        /\ stream'["content"] = stream["content"] \o f
    BY <1>1
  <2> HIDE DEF h, f
  <2>5. stream["reasoning"] \in Seq(Pieces) /\ stream["content"] \in Seq(Pieces)
    BY <1>3, <1>11
  <2>6. /\ stream'["reasoning"] \in Seq(Pieces)
        /\ revised \/ Len(stream'["reasoning"]) <= Len(said["reasoning"])
    <3>0. stream'["reasoning"] \in Seq(Pieces)
      BY <2>1, <2>4, <2>5
    <3> SUFFICES ASSUME ~revised
                 PROVE  Len(stream'["reasoning"]) <= Len(said["reasoning"])
      BY <3>0
    <3>1. /\ released["reasoning"] \in Nat /\ Len(said["reasoning"]) \in Nat
          /\ released["reasoning"] <= Len(said["reasoning"])
          /\ Len(stream["reasoning"]) <= released["reasoning"]
      BY <1>3, <1>11
    <3>2. Len(h) <= Len(said["reasoning"]) - released["reasoning"]
      BY <2>1, <3>1
    <3> QED
      BY <2>1, <2>4, <2>5, <3>1, <3>2, LongerBy
  <2>7. /\ stream'["content"] \in Seq(Pieces)
        /\ revised \/ Len(stream'["content"]) <= Len(said["content"])
    <3>0. stream'["content"] \in Seq(Pieces)
      BY <2>2, <2>4, <2>5
    <3> SUFFICES ASSUME ~revised
                 PROVE  Len(stream'["content"]) <= Len(said["content"])
      BY <3>0
    <3>1. /\ released["content"] \in Nat /\ Len(said["content"]) \in Nat
          /\ Len(stream["content"]) <= released["content"]
      BY <1>3, <1>11
    <3> QED
      BY <2>2, <2>3, <2>4, <2>5, <3>1, LongerBy
  <2> QED
    BY <1>11, <2>6, <2>7
<1>13. Streamed'
  BY <1>12 DEF Streamed, Channels
<1>14. TypeOK'
  <2>1. {tool', defers', thinks', seeded', paced', stages', again', ended', gated', hidden',
            torn', revised', parted'}
           \subseteq BOOLEAN
    BY <1>1, <1>2, <1>7 DEF TypeOK
  <2>2. \A c \in Channels : /\ released'[c] \in 0 .. Len(Said(shown)'[c])
                            /\ revised' \/ Len(stream'[c]) <= released'[c]
    BY <1>1, <1>3, <1>5, <1>6, <1>12
  <2>3. /\ phase' \in {"running", "generated", "done"} /\ blocks' \in 0 .. MaxBlocks
        /\ {reply', shown'} \subseteq Seq(Kinds)
    BY <1>1, <1>2 DEF TypeOK
  <2> QED
    BY <2>1, <2>2, <2>3 DEF TypeOK
<1>15. \A c \in Channels : SubSeq(said[c], 1, Len(said[c])) = said[c]
  <2> TAKE c \in Channels
  <2> DEFINE s == said[c]
  <2>1. s \in Seq(Pieces)
    BY <1>3
  <2> HIDE DEF s
  <2>2. SubSeq(s, 1, Len(s)) = s
    BY <2>1
  <2> QED
    BY <2>2 DEF s
<1>16. SentAll("reasoning")'
  <2>1. stream["reasoning"] = SubSeq(said["reasoning"], 1, released["reasoning"])
    BY <1>2 DEF Sent, SentAll, said
  <2>2. stream'["reasoning"] = said["reasoning"]
    BY <1>1, <1>10, <1>11, <2>1
  <2> QED
    BY <1>5, <1>6, <1>11, <1>15, <2>2 DEF SentAll
<1>17. ASSUME ~revised, ~tool PROVE SentAll("content")'
  <2>1. stream["content"] = SubSeq(said["content"], 1, released["content"])
    BY <1>2, <1>17 DEF Sent, SentAll, said
  <2>2. Filtered(Held("content"), FALSE) = Held("content")
    BY <1>17 DEF Filtered
  <2>3. stream'["content"] = said["content"]
    BY <1>1, <1>10, <1>11, <2>1, <2>2
  <2> QED
    BY <1>5, <1>6, <1>11, <1>15, <2>3 DEF SentAll
<1>18. ASSUME ~revised, tool, ~torn PROVE SentVisible'
  <2> DEFINE o == said["content"]
             r == released["content"]
             p == SubSeq(o, 1, r)
             held == Held("content")
  <2>1. /\ stream["content"] = Visible(p)
        /\ hidden <=> Marked(p)
        /\ r = Len(o) \/ ~Marked(o)
    BY <1>2, <1>18 DEF Sent, SentVisible, said
  <2>2. /\ stream'["content"] = stream["content"] \o Visible(held)
    BY <1>1, <1>18 DEF Filtered
  <2>3. /\ o \in Seq(Pieces) /\ Whole(o) /\ r \in Nat /\ Len(o) \in Nat /\ r <= Len(o)
        /\ held \in Seq(Pieces) /\ Len(held) = Len(o) - r /\ p \o held = o
        /\ SubSeq(o, 1, Len(o)) = o
    BY <1>3, <1>4, <1>10, <1>11, <1>15
  <2>4. p \in Seq(Pieces) /\ DOMAIN p = 1 .. r /\ DOMAIN o = 1 .. Len(o)
        /\ \A i \in 1 .. r : p[i] = o[i]
    <3> HIDE DEF o, r, held
    <3> QED
      BY <2>3
  <2> HIDE DEF o, r, p, held
  <2>5. Marked(o) => r = Len(o)
    BY <2>1
  <2>6. Marked(p) => Marked(o)
    <3>1. \A i \in 1 .. r : i \in 1 .. Len(o)
      BY <2>3
    <3> QED
      BY <2>4, <3>1 DEF Marked, Has
  <2>7. CASE Marked(o)
    <3>1. held = <<>> /\ r = Len(o)
      BY <2>3, <2>5, <2>7
    <3>2. p = o
      BY <2>3, <3>1 DEF p
    <3>3. Visible(held) = <<>>
      <4>1. ~Marked(<<>>) /\ <<>> \in Seq(Pieces)
        BY DEF Marked, Has
      <4> QED
        BY <3>1, <4>1, UnmarkedIsVisible
    <3>4. Visible(o) \o <<>> = Visible(o)
      BY <2>3, VisibleIs, ConcatEmptySeq
    <3>5. stream'["content"] = Visible(o) /\ (hidden' <=> Marked(o))
      BY <1>1, <2>1, <2>2, <3>2, <3>3, <3>4
    <3> QED
      BY <1>5, <1>6, <1>11, <2>3, <3>5 DEF SentVisible, o
  <2>8. CASE ~Marked(o)
    <3>1. ~Marked(p)
      BY <2>6, <2>8
    <3>2. Visible(p \o held) = p \o Visible(held) /\ Visible(p) = p
      BY <2>3, <2>4, <3>1, SeenStaysSeen, UnmarkedIsVisible
    <3>3. stream'["content"] = Visible(o) /\ (hidden' <=> Marked(o))
      BY <1>1, <2>1, <2>2, <2>3, <2>8, <3>1, <3>2
    <3> QED
      BY <1>5, <1>6, <1>11, <2>3, <3>3 DEF SentVisible, o
  <2> QED
    BY <2>7, <2>8
<1>19. Sent'
  BY <1>1, <1>7, <1>16, <1>17, <1>18 DEF Sent
<1> QED
  BY <1>8, <1>9, <1>13, <1>14, <1>19 DEF RInv


\* A block is final.  Where both sides kept the same tokens so far they cut this block
\* at the same stop.
LEMMA CommitStep ==
    ASSUME RInv, NEW block \in Blocks, Commit(block)
    PROVE  RInv'
<1> DEFINE stops == StopsIn(block, reply)
           kept == Kept(block, stops)
<1>1. /\ phase = "running" /\ blocks < MaxBlocks
      /\ reply' = reply \o kept /\ blocks' = blocks + 1
      /\ phase' = IF stops # {} /\ ~(defers /\ Continues(reply \o kept))
                  THEN "generated" ELSE phase
      /\ Watch(block) /\ UNCHANGED options /\ again' = again
  BY DEF Commit
<1>2. TypeOK /\ Streamed /\ Agree /\ Unheld /\ Sent
  BY DEF RInv
<1>3. block \in Seq(Kinds) /\ reply \in Seq(Kinds) /\ shown \in Seq(Kinds)
  BY <1>2, StreamShape, CursorsInside
<1>4. kept \in Seq(Kinds)
  BY <1>3, StopsCut
<1>5. /\ tool' = tool /\ defers' = defers /\ thinks' = thinks /\ seeded' = seeded
      /\ paced' = paced /\ stages' = stages
  BY <1>1 DEF options
<1>6. /\ reply' \in Seq(Kinds) /\ phase' \in {"running", "generated", "done"}
      /\ phase' # "done" /\ blocks' \in 0 .. MaxBlocks /\ again' \in BOOLEAN
  <2>1. reply' \in Seq(Kinds)
    BY <1>1, <1>3, <1>4
  <2>2. blocks \in 0 .. MaxBlocks /\ again \in BOOLEAN
    BY <1>2 DEF TypeOK
  <2>3. blocks' \in 0 .. MaxBlocks
    BY <1>1, <2>2, StreamShape
  <2> QED
    BY <1>1, <2>1, <2>2, <2>3
<1> HIDE DEF kept, stops
<1>9. CASE ended
  <2>1. UNCHANGED <<options, mapper, wire, past>>
    BY <1>1, <1>9 DEF Watch
  <2>2. /\ Streamed' /\ Sent' /\ Said(shown)' = Said(shown)
        /\ ContentOf(shown)' = ContentOf(shown)
        /\ {tool', defers', thinks', seeded', paced', stages', ended', gated', hidden',
            torn', revised', parted'}
              \subseteq BOOLEAN
        /\ shown' \in Seq(Kinds)
        /\ \A c \in Channels : /\ released'[c] \in 0 .. Len(Said(shown)'[c])
                               /\ revised' \/ Len(stream'[c]) <= released'[c]
    BY <1>2, <2>1, MapperRests
  <2>3. TypeOK'
    BY <1>6, <2>2 DEF TypeOK
  <2>4. /\ shown' = shown /\ ended' = ended /\ gated' = gated /\ released' = released
    BY <2>1 DEF mapper
  <2>5. Unheld'
    BY <1>2, <1>6, <1>9, <2>2, <2>4 DEF Unheld
  <2>6. Agree'
    <3>1. again' = again /\ defers' = defers /\ parted' = parted
      BY <1>1, <1>5, <2>1 DEF past
    <3> QED
      BY <1>1, <1>2, <1>9, <3>1 DEF Agree
  <2> QED
    BY <2>2, <2>3, <2>5, <2>6 DEF RInv
<1>10. CASE ~ended
  <2> DEFINE seenStops == StopsIn(block, shown)
             X == Kept(block, seenStops)
             said == Said(shown \o X)
             gates == gated \/ Where(said["content"], "call") # {}
             over == seenStops # {} /\ ~Continues(ContentOf(shown \o X))
             from == Cursors(said)
             t == IF paced /\ ~gates /\ ~over THEN from ELSE Full(said)
  <2>1. /\ shown' = shown \o X /\ ended' = over /\ gated' = gates
        /\ Release(said, from, t)
        /\ torn' = (torn \/ (paced /\ ~gates /\ Visible(said["content"]) # said["content"]))
        /\ revised' = (revised \/ ~IsPrefix(Said(shown)["content"], said["content"]))
        /\ parted' = (parted \/ (seenStops # {} /\ ContentOf(shown \o X) # shown \o X))
    BY <1>1, <1>10 DEF Watch, MapperStops, Gates
  <2>2. X \in Seq(Kinds)
    BY <1>3, StopsCut
  <2>3. /\ shown \o X \in Seq(Kinds)
        /\ \A c \in Channels : said[c] \in Seq(Pieces) /\ Len(said[c]) \in Nat
        /\ Whole(said["content"])
        /\ Has(said["content"], "call") <=> Has(ContentOf(shown \o X), "call")
    <3>1. shown \o X \in Seq(Kinds)
      BY <1>3, <2>2
    <3>2. /\ \A c \in Channels : said[c] \in Seq(Pieces)
          /\ Whole(said["content"])
          /\ Has(said["content"], "call") <=> Has(ContentOf(shown \o X), "call")
      BY <3>1, SaidType
    <3>3. \A c \in Channels : Len(said[c]) \in Nat
      BY <3>2
    <3> QED
      BY <3>1, <3>2, <3>3
  <2>4. /\ Said(shown)' = said /\ ContentOf(shown)' = ContentOf(shown \o X)
    BY <1>1, <2>1, OptionsFixed
  <2>5. \A c \in Channels :
            /\ from[c] \in Nat /\ from[c] <= Len(said[c])
            /\ IsPrefix(Said(shown)[c], said[c]) => from[c] = released[c]
    <3> TAKE c \in Channels
    <3>1. from[c] = IF IsPrefix(Said(shown)[c], said[c]) THEN released[c] ELSE 0
      BY DEF Cursors
    <3>2. /\ released[c] \in Nat /\ released[c] <= Len(Said(shown)[c])
          /\ Len(Said(shown)[c]) \in Nat /\ Len(said[c]) \in Nat
      BY <1>2, <2>3, CursorsInside
    <3>3. IsPrefix(Said(shown)[c], said[c]) => Len(Said(shown)[c]) <= Len(said[c])
      BY DEF IsPrefix
    <3> HIDE DEF from, said
    <3> QED
      BY <3>1, <3>2, <3>3
  <2>16. from["reasoning"] = released["reasoning"]
    <3>1. \E y \in Seq(Pieces) : said["reasoning"] = Said(shown)["reasoning"] \o y
      BY <1>3, <2>2, SaidGrows
    <3>2. Said(shown)["reasoning"] \in Seq(Pieces) /\ said["reasoning"] \in Seq(Pieces)
      BY <1>2, <2>3, CursorsInside DEF Channels
    <3> HIDE DEF from, said
    <3>3. IsPrefix(Said(shown)["reasoning"], said["reasoning"])
      BY <3>1, <3>2, PrefixGrows
    <3> QED
      BY <2>5, <3>3 DEF Channels
  <2>17. ~revised' => /\ from["content"] = released["content"]
                      /\ \E y \in Seq(Pieces) : said["content"] = Said(shown)["content"] \o y
    <3> SUFFICES ASSUME ~revised'
                 PROVE  /\ from["content"] = released["content"]
                        /\ \E y \in Seq(Pieces) : said["content"] = Said(shown)["content"] \o y
      OBVIOUS
    <3>1. IsPrefix(Said(shown)["content"], said["content"])
      BY <2>1
    <3>2. Said(shown)["content"] \in Seq(Pieces) /\ said["content"] \in Seq(Pieces)
      BY <1>2, <2>3, CursorsInside DEF Channels
    <3> HIDE DEF from, said
    <3> QED
      BY <2>5, <3>1, <3>2, PrefixGrows DEF Channels
  <2> HIDE DEF said, gates, over, X, seenStops, from
  <2>6. \A c \in Channels : t[c] = from[c] \/ t[c] = Len(said[c])
    BY DEF Full
  <2>7. (gates \/ over \/ ~paced) => t = Full(said)
    OBVIOUS
  <2>8. ~(gates \/ over \/ ~paced) => t = from
    OBVIOUS
  <2> HIDE DEF t
  <2>9. tool /\ ~torn' => \/ t["content"] = Len(said["content"])
                          \/ ~Marked(said["content"])
    <3>1. CASE gates \/ over \/ ~paced
      BY <2>7, <3>1 DEF Full, Channels
    <3>2. CASE ~(gates \/ over \/ ~paced)
      <4>1. ~torn' => Visible(said["content"]) = said["content"]
        BY <2>1, <3>2
      <4>2. Marked(said["content"]) => Visible(said["content"]) # said["content"]
        BY <2>3, MarkedIsCut DEF Channels
      <4> QED
        BY <4>1, <4>2
    <3> QED
      BY <3>1, <3>2
  <2>10. Releases(X, from, t)
    <3>1. \A c \in Channels : from[c] \in Nat /\ t[c] \in Nat /\ from[c] <= t[c]
                            /\ t[c] <= Len(said[c])
      BY <2>3, <2>5, <2>6
    <3>2. (torn => torn') /\ (revised => revised')
      BY <2>1
    <3> QED
      BY <1>1, <1>2, <2>1, <2>2, <2>9, <2>16, <2>17, <3>1, <3>2 DEF Releases, said
  <2>11. /\ shown' \in Seq(Kinds) /\ Streamed' /\ Sent'
         /\ \A c \in Channels : /\ released'[c] \in 0 .. Len(Said(shown)'[c])
                                /\ revised' \/ Len(stream'[c]) <= released'[c]
    BY <2>10, ReleaseCarries
  <2>12. {tool', defers', thinks', seeded', paced', stages', ended', gated', hidden',
            torn', revised', parted'}
            \subseteq BOOLEAN
    <3>1. /\ ended' \in BOOLEAN /\ gated' \in BOOLEAN /\ torn' \in BOOLEAN
          /\ revised' \in BOOLEAN /\ parted' \in BOOLEAN
      <4>1. over \in BOOLEAN /\ gates \in BOOLEAN
        <5>1. gated \in BOOLEAN
          BY <1>2 DEF TypeOK
        <5> QED
          BY <5>1 DEF over, gates
      <4>2. torn \in BOOLEAN /\ revised \in BOOLEAN /\ parted \in BOOLEAN
        BY <1>2 DEF TypeOK
      <4> QED
        BY <2>1, <4>1, <4>2
    <3>2. hidden' \in BOOLEAN
      BY <2>1 DEF Release
    <3> QED
      BY <1>2, <1>5, <3>1, <3>2 DEF TypeOK
  <2>13. TypeOK'
    BY <1>6, <2>11, <2>12 DEF TypeOK
  <2>14. Unheld'
    <3>1. released' = t
      BY <2>1 DEF Release
    <3>2. (gated' \/ ended' \/ ~paced') => released' = Full(said)
      BY <1>5, <2>1, <2>7, <3>1
    <3>3. Full(Said(shown))' = Full(said)
      BY <2>4 DEF Full
    <3>4. Has(ContentOf(shown)', "call") => gated'
      <4>1. Has(said["content"], "call") => gates
        BY WhereIs DEF gates
      <4> QED
        BY <2>1, <2>3, <2>4, <4>1
    <3>5. Has(ContentOf(shown), "call")' = Has(ContentOf(shown)', "call")
      BY DEF Has
    <3> QED
      BY <1>6, <3>2, <3>3, <3>4, <3>5 DEF Unheld
  <2>15. Agree'
    <3> SUFFICES ASSUME ~again, defers => ~parted'
                 PROVE  shown' = reply' /\ (ended' => phase' # "running")
      BY <1>1, <1>5 DEF Agree
    <3>1. shown = reply /\ (defers => ~parted)
      BY <1>2, <2>1 DEF Agree
    <3>2. seenStops = stops /\ X = kept
      BY <3>1 DEF seenStops, stops, X, kept
    <3>3. shown' = reply'
      BY <1>1, <2>1, <3>1, <3>2
    <3>4. ASSUME ended', phase' = "running" PROVE FALSE
      <4>1. stops # {} /\ ~Continues(ContentOf(reply \o kept))
        BY <2>1, <3>1, <3>2, <3>4 DEF over
      <4>2. defers /\ Continues(reply \o kept)
        BY <1>1, <3>4, <4>1
      <4>3. ContentOf(reply \o kept) = reply \o kept
        BY <2>1, <3>1, <3>2, <4>1, <4>2
      <4> QED
        BY <4>1, <4>2, <4>3
    <3> QED
      BY <3>3, <3>4
  <2> QED
    BY <2>11, <2>13, <2>14, <2>15 DEF RInv
<1> QED
  BY <1>9, <1>10


LEMMA NextStep ==
    ASSUME RInv, [Next]_vars
    PROVE  RInv'
<1>1. CASE \E block \in Blocks : Commit(block)
  BY <1>1, CommitStep
<1>2. CASE Denoise
  BY <1>2, DenoiseStep
<1>3. CASE OutOfBudget
  BY <1>3, BudgetStep
<1>4. CASE GenerateAgain
  BY <1>4, AgainStep
<1>5. CASE Flush
  BY <1>5, FlushStep
<1>6. CASE UNCHANGED vars
  <2>1. UNCHANGED <<options, mapper, wire, past>> /\ UNCHANGED <<reply, blocks, phase, again>>
    BY <1>6 DEF vars, engine
  <2>2. TypeOK /\ Streamed /\ Agree /\ Unheld /\ Sent
    BY DEF RInv
  <2>3. /\ Streamed' /\ Sent' /\ Said(shown)' = Said(shown)
        /\ ContentOf(shown)' = ContentOf(shown) /\ ContentOf(reply)' = ContentOf(reply')
        /\ {tool', defers', thinks', seeded', paced', stages', ended', gated', hidden',
            torn', revised', parted'}
              \subseteq BOOLEAN
        /\ shown' \in Seq(Kinds)
        /\ \A c \in Channels : /\ released'[c] \in 0 .. Len(Said(shown)'[c])
                               /\ revised' \/ Len(stream'[c]) <= released'[c]
    BY <2>1, <2>2, MapperRests
  <2>4. TypeOK'
    BY <2>1, <2>2, <2>3 DEF TypeOK
  <2>5. /\ shown' = shown /\ ended' = ended /\ gated' = gated /\ paced' = paced
        /\ released' = released /\ defers' = defers /\ parted' = parted
    BY <2>1 DEF mapper, options, past
  <2>6. Agree'
    BY <2>1, <2>2, <2>3, <2>5 DEF Agree
  <2>7. Unheld'
    BY <2>1, <2>2, <2>3, <2>5 DEF Unheld, Full
  <2> QED
    BY <2>3, <2>4, <2>6, <2>7 DEF RInv
<1> QED
  BY <1>1, <1>2, <1>3, <1>4, <1>5, <1>6 DEF Next

\* The engine and the mapper keep the same tokens and agree on where the reply ends until
\* a stage generates again or a stop that may be put off is judged on a text that the
\* split or the clean-up (sanitize_model_reply) made different from the tokens; what is
\* held back has a reason; and the stream is what was said up to the cursors without its
\* markup, of the answer until some committed text is taken back.
THEOREM ReplyInvariant == Spec => []RInv
<1>1. Init => RInv
  BY StartType
<1>2. RInv /\ [Next]_vars => RInv'
  BY NextStep
<1> QED
  BY <1>1, <1>2, PTL DEF Spec

\* Types: the mapper releases nothing it did not see and streams nothing it did not
\* release (decoder/mod.rs, released).
THEOREM ReplyTypes == Spec => []TypeOK
<1>1. RInv => TypeOK
  BY DEF RInv
<1> QED
  BY <1>1, ReplyInvariant, PTL

\* The client of a finished reply was sent each channel of the engine's reply, as the
\* mapper cleans it up, whole and once, without its tool markup, for every block and every
\* release on the way (on_step, flush_paced and filter_tool_markup_delta): unless a stage
\* generated again, a markup opener was held, committed text was taken back, or a stop was
\* judged on two different texts.
THEOREM AlwaysReachesClient == Spec => []ReplyReachesClient
<1>1. RInv => ReplyReachesClient
  <2> SUFFICES ASSUME RInv, phase = "done", ~again, ~torn, ~revised, defers => ~parted
               PROVE  /\ stream["reasoning"] = Said(reply)["reasoning"]
                      /\ stream["content"] = IF tool THEN Visible(Said(reply)["content"])
                                             ELSE Said(reply)["content"]
    BY DEF ReplyReachesClient
  <2>1. TypeOK /\ Agree /\ Unheld /\ Sent
    BY DEF RInv
  <2>2. shown = reply
    BY <2>1 DEF Agree
  <2>3. \A c \in Channels : released[c] = Len(Said(reply)[c])
    BY <2>1, <2>2 DEF Unheld, Full
  <2>4. \A c \in Channels : SubSeq(Said(reply)[c], 1, Len(Said(reply)[c])) = Said(reply)[c]
    <3> TAKE c \in Channels
    <3> DEFINE s == Said(reply)[c]
    <3>1. s \in Seq(Pieces)
      BY <2>1, <2>2, CursorsInside
    <3> HIDE DEF s
    <3>2. SubSeq(s, 1, Len(s)) = s
      BY <3>1
    <3> QED
      BY <3>2 DEF s
  <2>5. \A c \in Channels : SubSeq(Said(shown)[c], 1, released[c]) = Said(reply)[c]
    BY <2>2, <2>3, <2>4
  <2>6. SentAll("reasoning") /\ (tool => SentVisible) /\ (~tool => SentAll("content"))
    BY <2>1 DEF Sent
  <2>7. stream["reasoning"] = Said(reply)["reasoning"]
    BY <2>5, <2>6 DEF SentAll, Channels
  <2>8. tool => stream["content"] = Visible(Said(reply)["content"])
    BY <2>5, <2>6 DEF SentVisible, Channels
  <2>9. ~tool => stream["content"] = Said(reply)["content"]
    BY <2>5, <2>6 DEF SentAll, Channels
  <2> QED
    BY <2>7, <2>8, <2>9
<1> QED
  BY <1>1, ReplyInvariant, PTL

\* Once a call is in the committed answer nothing is held, in this block or in any later
\* one (on_commit and pace_off).
THEOREM CallsNeverWait == Spec => []CallsAreNeverHeld
<1>1. RInv => CallsAreNeverHeld
  BY WhereIs DEF RInv, Unheld, CallsAreNeverHeld
<1> QED
  BY <1>1, ReplyInvariant, PTL

=============================================================================
