-------------------------- MODULE ChatSession_proofs --------------------------
(***************************************************************************)
(* For a session of any length, any tool rounds and any room: at the       *)
(* prompt the history is whole exchanges, the events follow the protocol's *)
(* turn shape, a suggestion is told of the conversation as it is, and each *)
(* round of a turn extends what the cache holds.                           *)
(***************************************************************************)
EXTENDS ChatSession, SequenceTheorems, WellFoundedInduction, TLAPS

AtPrompt == pc \in {"head", "prompt", "joining"}
Running  == pc \in {"turn", "asking", "generating", "calling"}

\* What a prompt is made of.
Kinds == {"user", "model", "seeded", "injected", "reply", "responses"}
Items == [who : Kinds, exchange : Nat, thought : BOOLEAN]
             \cup [who : {"header"}, think : BOOLEAN, system : BOOLEAN, tools : BOOLEAN]

Alternate(h) == \A i \in DOMAIN h : h[i].who = IF i % 2 = 1 THEN "user" ELSE "model"

Records ==
    /\ spec \in [source : {"generate", "tools", "forced"},
                thought : {"model", "seeded", "injected"}]
    /\ calls \in [left : 0 .. MaxCalls, corrupt : BOOLEAN, ended : BOOLEAN]
    /\ draft \in [at : {"waiting", "generating", "drafted", "telling", "over"},
                  history : Seq(Turns), turn : 0 .. MaxAsked, cancel : BOOLEAN]
    /\ prompt \in Seq(Items)

\* Within a turn the user's message has no answer yet, and the turn not counted.
Pairing ==
    /\ AtPrompt => Len(history) = 2 * turn /\ Alternate(history) /\ turn <= asked
    /\ Running  => Len(history) = 2 * turn + 1 /\ Alternate(history) /\ turn < asked

Bounds ==
    /\ pc = "joining" /\ line = "message" => asked < MaxAsked
    /\ round < MaxRounds

\* Where the loop is, the event stream is too.
Showing ==
    /\ AtPrompt => shown = "idle"
    /\ pc = "turn" => shown \in {"started", "tools", "retried"}
    /\ pc = "turn" /\ spec.source = "forced" => shown = "started"
    /\ pc = "asking" => shown = "round"
    /\ pc = "generating" => shown \in {"round", "stream"}
    /\ pc = "calling" => shown = "tools"
    /\ pc \in {"asking", "generating", "calling"} => spec.source # "forced"
    /\ shown # "broken"

\* A draft is on its way only at the prompt, and was drawn from what is there.
Drafting ==
    draft.at # "over" =>
        /\ pc \in {"prompt", "joining"}
        /\ draft.history = history /\ draft.turn = turn

\* After a round the cache holds its prompt, and its reply or not; before the
\* next it holds a prefix of that one's prompt.
Extending ==
    /\ pc \in {"turn", "asking"} /\ round > 0 => IsPrefix(kv, prompt)
    /\ pc = "calling" => kv \in {prompt, Append(prompt, Reply)}

\* The inductive invariant.
CInv == TypeOK /\ Records /\ Pairing /\ Bounds /\ Showing /\ Drafting /\ Extending

-----------------------------------------------------------------------------
(* Induction over a set of numbers, and what a fold over events computes.  *)

\* A non-empty set of numbers has a least element.
LEMMA LeastElement ==
    ASSUME NEW D, D \subseteq Nat, D # {}
    PROVE  \E x \in D : \A y \in D : x <= y
<1> DEFINE R == OpToRel(<, Nat)
<1>1. IsWellFoundedOn(R, Nat)
  BY NatLessThanWellFounded
<1>2. \A x, y \in Nat : x < y => <<x, y>> \in R
  BY DEF OpToRel
<1> HIDE DEF R
<1>3. PICK x \in D : \A y \in D : ~ (<<y, x>> \in R)
  BY <1>1, WFMin
<1>4. ASSUME NEW y \in D PROVE x <= y
  <2>1. x \in Nat /\ y \in Nat /\ ~(y < x)
    BY <1>2, <1>3
  <2> QED
    BY <2>1
<1> QED
  BY <1>4

\* Nothing is wrong anywhere that starts right and goes wrong nowhere.
LEMMA NoLeastWrong ==
    ASSUME NEW N \in Nat, NEW Wrong, Wrong \subseteq 0 .. N, 0 \notin Wrong,
           \A n \in 1 .. N : n \in Wrong => n - 1 \in Wrong
    PROVE  Wrong = {}
<1> SUFFICES ASSUME Wrong # {} PROVE FALSE
  OBVIOUS
<1>1. PICK x \in Wrong : \A y \in Wrong : x <= y
  <2>1. Wrong \subseteq Nat
    OBVIOUS
  <2> QED
    BY <2>1, LeastElement
<1>2. x \in 1 .. N /\ ~(x <= x - 1)
  OBVIOUS
<1> QED
  BY <1>1, <1>2

\* A non-empty set of positions has a largest one, and it is Max.
LEMMA MaxIs ==
    ASSUME NEW m \in Nat, NEW t \in SUBSET (1 .. m), t # {}
    PROVE  Max(t) \in t /\ \A x \in t : Max(t) >= x
<1> DEFINE D == {m - x : x \in t}
<1>1. D \subseteq Nat
  OBVIOUS
<1>2. D # {}
  <2>1. PICK x : x \in t
    OBVIOUS
  <2>2. m - x \in D
    BY <2>1
  <2> QED
    BY <2>2
<1>3. PICK d \in D : \A y \in D : d <= y
  <2> HIDE DEF D
  <2> QED
    BY <1>1, <1>2, LeastElement
<1>4. PICK x \in t : d = m - x
  BY <1>3
<1>5. ASSUME NEW y \in t PROVE x >= y
  <2>1. m - x <= m - y
    BY <1>3, <1>4
  <2>2. x \in Nat /\ y \in Nat
    OBVIOUS
  <2> QED
    BY <2>1, <2>2
<1> QED
  BY <1>4, <1>5 DEF Max

Fold(at, seq) == FoldLeft(Follow, at, seq)

\* The recursion behind the fold, on the sets of the first m positions.
Folds(it, at, seq, m) ==
    it = [t \in SUBSET (1 .. m) |->
             IF t = {} THEN at ELSE Follow(it[t \ {Max(t)}], seq[Max(t)])]

\* It has a solution.
LEMMA FoldExists ==
    ASSUME NEW n \in Nat, NEW at, NEW seq
    PROVE  \E it : Folds(it, at, seq, n)
<1> DEFINE Wrong == {m \in 0 .. n : ~ \E it : Folds(it, at, seq, m)}
<1>1. 0 \notin Wrong
  <2> DEFINE it == [t \in SUBSET (1 .. 0) |-> at]
  <2>1. \A t \in SUBSET (1 .. 0) : t = {}
    OBVIOUS
  <2>2. Folds(it, at, seq, 0)
    BY <2>1 DEF Folds
  <2> QED
    BY <2>2
<1>2. ASSUME NEW m \in 1 .. n, m - 1 \notin Wrong PROVE m \notin Wrong
  <2>1. PICK f : Folds(f, at, seq, m - 1)
    BY <1>2
  <2> DEFINE g == [t \in SUBSET (1 .. m) |->
                      IF m \in t THEN Follow(f[t \ {m}], seq[m]) ELSE f[t]]
             Step(t) == IF t = {} THEN at ELSE Follow(g[t \ {Max(t)}], seq[Max(t)])
  <2>2. m \in Nat /\ m - 1 \in Nat
    OBVIOUS
  <2>3. ASSUME NEW t \in SUBSET (1 .. m) PROVE g[t] = Step(t)
    <3>1. CASE m \in t
      <4>1. Max(t) \in t /\ Max(t) >= m
        BY <2>2, <3>1, MaxIs
      <4>2. Max(t) = m
        <5> DEFINE x == Max(t)
        <5>1. x \in 1 .. m /\ x >= m
          BY <4>1
        <5> HIDE DEF x
        <5>2. x = m
          BY <2>2, <5>1
        <5> QED
          BY <5>2 DEF x
      <4>3. t \ {m} \in SUBSET (1 .. m) /\ m \notin t \ {m} /\ t # {}
        BY <3>1
      <4> QED
        BY <3>1, <4>2, <4>3
    <3>2. CASE m \notin t /\ t # {}
      <4>1. t \in SUBSET (1 .. m - 1)
        BY <2>2, <3>2
      <4>2. Max(t) \in t
        BY <2>2, <3>2, <4>1, MaxIs
      <4>3. f[t] = Follow(f[t \ {Max(t)}], seq[Max(t)])
        BY <2>1, <3>2, <4>1 DEF Folds
      <4>4. g[t \ {Max(t)}] = f[t \ {Max(t)}]
        BY <3>2
      <4> QED
        BY <3>2, <4>3, <4>4
    <3>3. CASE t = {}
      <4>1. f[t] = at
        BY <2>1, <3>3 DEF Folds
      <4> QED
        BY <3>3, <4>1
    <3> QED
      BY <3>1, <3>2, <3>3
  <2>4. g = [t \in SUBSET (1 .. m) |-> g[t]]
    OBVIOUS
  <2>5. g = [t \in SUBSET (1 .. m) |-> Step(t)]
    <3> HIDE DEF g, Step
    <3> QED
      BY <2>3, <2>4
  <2> HIDE DEF g
  <2> QED
    BY <2>5 DEF Folds
<1>3. Wrong = {}
  <2>1. Wrong \subseteq 0 .. n
    OBVIOUS
  <2> HIDE DEF Wrong
  <2> QED
    BY <1>1, <1>2, <2>1, NoLeastWrong
<1> QED
  BY <1>3

\* Folding takes the events one by one, from the first to the last.
LEMMA FoldIs ==
    ASSUME NEW n \in Nat, NEW at, NEW seq, DOMAIN seq = 1 .. n
    PROVE  \E h : /\ h[0] = at /\ Fold(at, seq) = h[n]
                  /\ \A i \in 1 .. n : h[i] = Follow(h[i - 1], seq[i])
<1> DEFINE it == CHOOSE f : Folds(f, at, seq, n)
           h == [i \in 0 .. n |-> it[1 .. i]]
<1>1. Fold(at, seq) = it[1 .. n]
  BY DEF Fold, FoldLeft, MapThenFoldSet, Folds
<1>2. Folds(it, at, seq, n)
  BY FoldExists
<1> HIDE DEF it
<1>3. h[0] = at
  <2>1. 1 .. 0 = {} /\ {} \in SUBSET (1 .. n) /\ 0 \in 0 .. n
    OBVIOUS
  <2>2. h[0] = it[{}]
    BY <2>1
  <2>3. it[{}] = at
    <3> HIDE DEF h
    <3> QED
      BY <1>2, <2>1 DEF Folds
  <2> QED
    BY <2>2, <2>3
<1>4. ASSUME NEW i \in 1 .. n PROVE h[i] = Follow(h[i - 1], seq[i])
  <2>1. /\ 1 .. i \in SUBSET (1 .. n) /\ i \in 1 .. i /\ i \in Nat
        /\ i - 1 \in 0 .. n /\ i \in 0 .. n
    OBVIOUS
  <2>2. Max(1 .. i) = i
    <3>1. Max(1 .. i) \in 1 .. i /\ Max(1 .. i) >= i
      BY <2>1, MaxIs
    <3> QED
      BY <2>1, <3>1
  <2>3. (1 .. i) \ {i} = 1 .. i - 1
    BY <2>1
  <2>4. it[1 .. i] = Follow(it[(1 .. i) \ {i}], seq[i])
    BY <1>2, <2>1, <2>2 DEF Folds
  <2> QED
    BY <2>1, <2>3, <2>4
<1> HIDE DEF h
<1>5. Fold(at, seq) = h[n]
  BY <1>1 DEF h
<1> QED
  BY <1>3, <1>4, <1>5

-----------------------------------------------------------------------------
(* What an emitted event does to the stream.                               *)

\* An event takes the stream where the protocol's shape says.
LEMMA FollowIs ==
    ASSUME NEW at, NEW event, NEW to, <<at, event, to>> \in Shape
    PROVE  Follow(at, event) = to
<1>1. to \in Points
  BY DEF Points, Shape
<1>3. ASSUME NEW x, <<at, event, x>> \in Shape PROVE x = to
  BY <1>3 DEF Shape
<1> DEFINE Takes(x) == <<at, event, x>> \in Shape
<1>4. Follow(at, event) = CHOOSE x \in Points : Takes(x)
  BY <1>1 DEF Follow
<1>5. \E x \in Points : Takes(x)
  BY <1>1
<1>6. Takes(CHOOSE x \in Points : Takes(x))
  <2> HIDE DEF Takes
  <2> QED
    BY <1>5
<1> QED
  BY <1>3, <1>4, <1>6

\* The stream goes through one point after each event.
LEMMA EmitSteps ==
    ASSUME NEW S, NEW s \in Seq(S), Emit(s)
    PROVE  \E h : /\ h[0] = shown /\ shown' = h[Len(s)]
                  /\ \A i \in 1 .. Len(s) : h[i] = Follow(h[i - 1], s[i])
<1>1. shown' = Fold(shown, s)
  BY DEF Emit, Fold
<1>2. Len(s) \in Nat /\ DOMAIN s = 1 .. Len(s)
  OBVIOUS
<1> QED
  BY <1>1, <1>2, FoldIs

\* Events that are emitted in one step, put together.
LEMMA OneOne ==
    ASSUME NEW a, NEW b PROVE <<a>> \o <<b>> = <<a, b>>
<1> DEFINE v == <<a>> \o <<b>>
           w == <<a, b>>
<1>1. <<a>> \in Seq({a, b}) /\ <<b>> \in Seq({a, b}) /\ Len(<<a>>) = 1 /\ Len(<<b>>) = 1
  OBVIOUS
<1>2. /\ v \in Seq({a, b}) /\ Len(v) = 2
      /\ \A i \in 1 .. 2 : v[i] = IF i <= 1 THEN <<a>>[i] ELSE <<b>>[i - 1]
  BY <1>1, ConcatProperties
<1>3. w \in Seq({a, b}) /\ Len(w) = 2
  OBVIOUS
<1>4. 1 .. 2 = {1, 2}
  OBVIOUS
<1>5. v[1] = a
  BY <1>1, <1>2
<1>6. w[1] = a
  OBVIOUS
<1>7. v[2] = b
  BY <1>1, <1>2
<1>8. w[2] = b
  OBVIOUS
<1> HIDE DEF v, w
<1>9. v = w
  BY <1>2, <1>3, <1>4, <1>5, <1>6, <1>7, <1>8, SeqEqual
<1> QED
  BY <1>9 DEF v, w

LEMMA OneTwo ==
    ASSUME NEW a, NEW b, NEW c PROVE <<a>> \o <<b, c>> = <<a, b, c>>
<1> DEFINE v == <<a>> \o <<b, c>>
           w == <<a, b, c>>
<1>1. <<a>> \in Seq({a, b, c}) /\ <<b, c>> \in Seq({a, b, c}) /\ Len(<<a>>) = 1 /\ Len(<<b, c>>) = 2
  OBVIOUS
<1>2. /\ v \in Seq({a, b, c}) /\ Len(v) = 3
      /\ \A i \in 1 .. 3 : v[i] = IF i <= 1 THEN <<a>>[i] ELSE <<b, c>>[i - 1]
  BY <1>1, ConcatProperties
<1>3. w \in Seq({a, b, c}) /\ Len(w) = 3
  OBVIOUS
<1>4. 1 .. 3 = {1, 2, 3}
  OBVIOUS
<1>5. v[1] = a
  BY <1>1, <1>2
<1>6. w[1] = a
  OBVIOUS
<1>7. v[2] = b
  BY <1>1, <1>2
<1>8. w[2] = b
  OBVIOUS
<1>9. v[3] = c
  BY <1>1, <1>2
<1>10. w[3] = c
  OBVIOUS
<1> HIDE DEF v, w
<1>11. v = w
  BY <1>2, <1>3, <1>4, <1>5, <1>6, <1>7, <1>8, <1>9, <1>10, SeqEqual
<1> QED
  BY <1>11 DEF v, w

LEMMA TwoOne ==
    ASSUME NEW a, NEW b, NEW c PROVE <<a, b>> \o <<c>> = <<a, b, c>>
<1> DEFINE v == <<a, b>> \o <<c>>
           w == <<a, b, c>>
<1>1. <<a, b>> \in Seq({a, b, c}) /\ <<c>> \in Seq({a, b, c}) /\ Len(<<a, b>>) = 2 /\ Len(<<c>>) = 1
  OBVIOUS
<1>2. /\ v \in Seq({a, b, c}) /\ Len(v) = 3
      /\ \A i \in 1 .. 3 : v[i] = IF i <= 2 THEN <<a, b>>[i] ELSE <<c>>[i - 2]
  BY <1>1, ConcatProperties
<1>3. w \in Seq({a, b, c}) /\ Len(w) = 3
  OBVIOUS
<1>4. 1 .. 3 = {1, 2, 3}
  OBVIOUS
<1>5. v[1] = a
  BY <1>1, <1>2
<1>6. w[1] = a
  OBVIOUS
<1>7. v[2] = b
  BY <1>1, <1>2
<1>8. w[2] = b
  OBVIOUS
<1>9. v[3] = c
  BY <1>1, <1>2
<1>10. w[3] = c
  OBVIOUS
<1> HIDE DEF v, w
<1>11. v = w
  BY <1>2, <1>3, <1>4, <1>5, <1>6, <1>7, <1>8, <1>9, <1>10, SeqEqual
<1> QED
  BY <1>11 DEF v, w

\* No event, no change of the protocol's state.
LEMMA EmitNone == Emit(<<>>) => shown' = shown
<1> SUFFICES ASSUME Emit(<<>>) PROVE shown' = shown
  OBVIOUS
<1>1. <<>> \in Seq({}) /\ Len(<<>>) = 0
  OBVIOUS
<1> QED
  BY <1>1, EmitSteps

\* One event moves it along one edge.
LEMMA EmitOne ==
    ASSUME NEW a, NEW to, Emit(<<a>>),
           <<shown, a, to>> \in Shape
    PROVE  shown' = to
<1> DEFINE s == <<a>>
<1>1. s \in Seq({a}) /\ Len(s) = 1
  OBVIOUS
<1>2. s[1] = a
  OBVIOUS
<1>3. Emit(s)
  OBVIOUS
<1> HIDE DEF s
<1>4. PICK h : /\ h[0] = shown /\ shown' = h[1]
               /\ \A i \in 1 .. 1 : h[i] = Follow(h[i - 1], s[i])
  BY <1>1, <1>3, EmitSteps
<1>5. h[1] = to
  <2>1. h[1] = Follow(h[0], a)
    BY <1>2, <1>4
  <2>2. Follow(shown, a) = to
    BY FollowIs
  <2> QED
    BY <1>4, <2>1, <2>2
<1> QED
  BY <1>4, <1>5

\* Two along two.
LEMMA EmitTwo ==
    ASSUME NEW a, NEW b, NEW x, NEW to, Emit(<<a, b>>),
           <<shown, a, x>> \in Shape, <<x, b, to>> \in Shape
    PROVE  shown' = to
<1> DEFINE s == <<a, b>>
<1>1. s \in Seq({a, b}) /\ Len(s) = 2
  OBVIOUS
<1>2. s[1] = a /\ s[2] = b
  OBVIOUS
<1>3. Emit(s)
  OBVIOUS
<1> HIDE DEF s
<1>4. PICK h : /\ h[0] = shown /\ shown' = h[2]
               /\ \A i \in 1 .. 2 : h[i] = Follow(h[i - 1], s[i])
  BY <1>1, <1>3, EmitSteps
<1>5. h[1] = x
  <2>1. h[1] = Follow(h[0], a)
    BY <1>2, <1>4
  <2>2. Follow(shown, a) = x
    BY FollowIs
  <2> QED
    BY <1>4, <2>1, <2>2
<1>6. h[2] = to
  <2>1. h[2] = Follow(h[1], b)
    BY <1>2, <1>4
  <2>2. Follow(x, b) = to
    BY FollowIs
  <2> QED
    BY <1>5, <2>1, <2>2
<1> QED
  BY <1>4, <1>6

\* Three along three.
LEMMA EmitThree ==
    ASSUME NEW a, NEW b, NEW c, NEW x, NEW y, NEW to,
           Emit(<<a, b, c>>),
           <<shown, a, x>> \in Shape, <<x, b, y>> \in Shape, <<y, c, to>> \in Shape
    PROVE  shown' = to
<1> DEFINE s == <<a, b, c>>
<1>1. s \in Seq({a, b, c}) /\ Len(s) = 3
  OBVIOUS
<1>2. s[1] = a /\ s[2] = b /\ s[3] = c
  OBVIOUS
<1>3. Emit(s)
  OBVIOUS
<1> HIDE DEF s
<1>4. PICK h : /\ h[0] = shown /\ shown' = h[3]
               /\ \A i \in 1 .. 3 : h[i] = Follow(h[i - 1], s[i])
  <2>1. s \in Seq({a, b, c})
    BY <1>1
  <2>2. \E h : /\ h[0] = shown /\ shown' = h[Len(s)]
               /\ \A i \in 1 .. Len(s) : h[i] = Follow(h[i - 1], s[i])
    BY ONLY <1>3, <2>1, EmitSteps
  <2> QED
    BY <1>1, <2>2
<1>5. h[1] = x
  <2>1. h[1] = Follow(h[0], a)
    BY <1>2, <1>4
  <2>2. Follow(shown, a) = x
    BY FollowIs
  <2> QED
    BY <1>4, <2>1, <2>2
<1>6. h[2] = y
  <2>1. h[2] = Follow(h[1], b)
    BY <1>2, <1>4
  <2>2. Follow(x, b) = y
    BY FollowIs
  <2> QED
    BY <1>5, <2>1, <2>2
<1>7. h[3] = to
  <2>1. h[3] = Follow(h[2], c)
    BY <1>2, <1>4
  <2>2. Follow(y, c) = to
    BY FollowIs
  <2> QED
    BY <1>6, <2>1, <2>2
<1> QED
  BY <1>4, <1>7

-----------------------------------------------------------------------------
(* Histories and prompts.                                                  *)

\* The user speaks at the odd places, the model at the even ones.
LEMMA Parity ==
    ASSUME NEW t \in Nat
    PROVE  (2 * t + 1) % 2 = 1 /\ (2 * t + 2) % 2 = 0 /\ (2 * t) % 2 = 0
OBVIOUS

\* A turn of the right kind goes to the end of the history.
LEMMA Said ==
    ASSUME NEW h \in Seq(Turns), Alternate(h), NEW e \in Turns,
           e.who = IF (Len(h) + 1) % 2 = 1 THEN "user" ELSE "model"
    PROVE  /\ Append(h, e) \in Seq(Turns) /\ Len(Append(h, e)) = Len(h) + 1
           /\ Alternate(Append(h, e))
<1> DEFINE g == Append(h, e)
<1>1. g \in Seq(Turns) /\ Len(g) = Len(h) + 1 /\ Len(h) \in Nat
  OBVIOUS
<1>2. \A i \in 1 .. Len(h) : g[i] = h[i]
  OBVIOUS
<1>3. g[Len(h) + 1] = e
  OBVIOUS
<1>4. DOMAIN h = 1 .. Len(h) /\ DOMAIN g = 1 .. Len(h) + 1
  BY <1>1
<1> HIDE DEF g
<1>5. ASSUME NEW i \in 1 .. Len(h) + 1
      PROVE  g[i].who = IF i % 2 = 1 THEN "user" ELSE "model"
  <2>1. CASE i = Len(h) + 1
    BY <1>3, <2>1
  <2>2. CASE i # Len(h) + 1
    <3>1. i \in 1 .. Len(h)
      BY <1>1, <2>2
    <3> QED
      BY <1>2, <1>4, <3>1 DEF Alternate
  <2> QED
    BY <2>1, <2>2
<1>6. Alternate(g)
  BY <1>4, <1>5 DEF Alternate
<1> QED
  BY <1>1, <1>6 DEF g

\* Cutting the last turn keeps the rest.
LEMMA CutLast ==
    ASSUME NEW h \in Seq(Turns), Alternate(h), h # <<>>
    PROVE  /\ Front(h) \in Seq(Turns) /\ Len(Front(h)) = Len(h) - 1
           /\ Alternate(Front(h))
           /\ Last(h).who = IF Len(h) % 2 = 1 THEN "user" ELSE "model"
<1> DEFINE g == Front(h)
<1>1. Len(h) \in Nat \ {0} /\ DOMAIN h = 1 .. Len(h)
  BY EmptySeq
<1>2. \A i \in 1 .. Len(h) - 1 : h[i] \in Turns
  OBVIOUS
<1>3. /\ g \in Seq(Turns) /\ Len(g) = Len(h) - 1
      /\ \A i \in 1 .. Len(h) - 1 : g[i] = h[i]
  BY <1>1, <1>2, SubSeqProperties DEF Front
<1>4. DOMAIN g = 1 .. Len(h) - 1
  BY <1>1, <1>3
<1> HIDE DEF g
<1>5. Alternate(g)
  BY <1>1, <1>3, <1>4 DEF Alternate
<1>6. Last(h).who = IF Len(h) % 2 = 1 THEN "user" ELSE "model"
  BY <1>1 DEF Last, Alternate
<1> QED
  BY <1>3, <1>5, <1>6 DEF g

\* Rewinding whole exchanges takes the last one, if there is one.
LEMMA RewindCuts ==
    ASSUME NEW h \in Seq(Turns), Alternate(h), NEW t \in Nat, Len(h) = 2 * t
    PROVE  LET g == Without("user", Without("model", h))
           IN  /\ g \in Seq(Turns) /\ Alternate(g)
               /\ Len(g) = 2 * (IF g # h /\ t > 0 THEN t - 1 ELSE t)
<1> DEFINE f == Without("model", h)
           g == Without("user", f)
<1>1. CASE t = 0
  <2>1. h = <<>>
    BY <1>1, EmptySeq
  <2>2. f = h /\ g = h
    BY <2>1 DEF Without
  <2> QED
    BY <1>1, <2>2
<1>2. CASE t # 0
  <2>1. h # <<>> /\ t - 1 \in Nat
    BY <1>2, EmptySeq
  <2>2. Last(h).who = "model"
    BY <2>1, Parity, CutLast
  <2>3. f = Front(h)
    BY <2>1, <2>2 DEF Without
  <2>4. f \in Seq(Turns) /\ Len(f) = 2 * (t - 1) + 1 /\ Alternate(f)
    BY <2>1, <2>3, CutLast
  <2> HIDE DEF f
  <2>5. f # <<>>
    BY <2>1, <2>4, EmptySeq
  <2>6. Last(f).who = "user"
    BY <2>1, <2>4, <2>5, Parity, CutLast
  <2>7. g = Front(f)
    BY <2>5, <2>6 DEF Without
  <2>8. g \in Seq(Turns) /\ Len(g) = 2 * (t - 1) /\ Alternate(g)
    BY <2>1, <2>4, <2>5, <2>7, CutLast
  <2> HIDE DEF g
  <2>9. g # h
    BY <2>1, <2>8
  <2> QED
    BY <2>1, <2>8, <2>9 DEF f, g
<1> QED
  BY <1>1, <1>2

LEMMA TurnsAreItems == Turns \subseteq Items
<1>1. ASSUME NEW e \in Turns PROVE e \in Items
  <2>1. e \in [who : {"user", "model"}, exchange : 1 .. MaxAsked, thought : BOOLEAN]
    BY DEF Turns
  <2>2. {"user", "model"} \subseteq Kinds /\ 1 .. MaxAsked \subseteq Nat
    BY ChatShape DEF Kinds, ChatShape
  <2> QED
    BY <2>1, <2>2 DEF Items
<1> QED
  BY <1>1

LEMMA HeaderType ==
    ASSUME NEW a \in BOOLEAN, NEW b \in BOOLEAN, NEW c \in BOOLEAN
    PROVE  Header(a, b, c) \in Seq(Items)
<1> DEFINE r == [who |-> "header", think |-> a, system |-> b, tools |-> c]
<1>1. r \in Items
  BY DEF Items
<1> HIDE DEF r
<1>2. <<r>> \in Seq(Items) /\ <<>> \in Seq(Items)
  BY <1>1
<1> QED
  BY <1>2 DEF Header, r

\* A turn's prompt is made of the header, the history and the opened turn.
LEMMA PromptType ==
    ASSUME NEW h \in Seq(Turns), options.tools \in BOOLEAN, system \in BOOLEAN,
           NEW s, s.thought \in {"model", "seeded", "injected"}, NEW k \in Nat
    PROVE  FirstPrompt(h, s, k) \in Seq(Items)
<1>1. h \in Seq(Items)
  BY TurnsAreItems, SeqMonotonic
<1>2. Chat(h, TRUE, system) \in Seq(Items)
  BY <1>1, HeaderType, ConcatProperties DEF Chat
<1>3. WithTools(h, system) \in Seq(Items)
  <2> DEFINE g == [i \in DOMAIN h |-> [h[i] EXCEPT !.thought = FALSE]]
  <2>1. Len(h) \in Nat /\ DOMAIN h = 1 .. Len(h)
    OBVIOUS
  <2>2. ASSUME NEW i \in 1 .. Len(h) PROVE [h[i] EXCEPT !.thought = FALSE] \in Items
    <3>1. h[i] \in Turns
      OBVIOUS
    <3>2. [h[i] EXCEPT !.thought = FALSE] \in Turns
      BY <3>1 DEF Turns
    <3> QED
      BY <3>2, TurnsAreItems
  <2>3. g \in [1 .. Len(h) -> Items]
    BY <2>1, <2>2
  <2> HIDE DEF g
  <2>4. g \in Seq(Items)
    BY <2>1, <2>3
  <2> QED
    BY <2>4, HeaderType, ConcatProperties DEF WithTools, g
<1>4. Conversation(h, s.thought = "injected") \in Seq(Items)
  BY <1>2, <1>3 DEF Conversation
<1>5. Mark(s.thought, k) \in Items
  BY DEF Mark, Items, Kinds
<1> QED
  BY <1>4, <1>5 DEF FirstPrompt

\* A prompt, with the reply to it or not, begins the next round's.
LEMMA NextPrompt ==
    ASSUME NEW p \in Seq(Items), NEW r \in Items, NEW m \in Items, NEW q,
           q \in {p, Append(p, r)}
    PROVE  p \o <<r, m>> \in Seq(Items) /\ IsPrefix(q, p \o <<r, m>>)
<1> DEFINE w == p \o <<r, m>>
<1>1. <<r, m>> \in Seq(Items) /\ Len(<<r, m>>) = 2
  OBVIOUS
<1>2. /\ w \in Seq(Items) /\ Len(w) = Len(p) + 2 /\ Len(p) \in Nat
      /\ \A i \in 1 .. Len(p) : w[i] = p[i]
  OBVIOUS
<1>3. w[Len(p) + 1] = r
  OBVIOUS
<1>4. /\ q \in Seq(Items) /\ Len(q) \in {Len(p), Len(p) + 1}
      /\ \A i \in 1 .. Len(q) : q[i] = IF i <= Len(p) THEN p[i] ELSE r
  OBVIOUS
<1> HIDE DEF w
<1>5. \A i \in 1 .. Len(q) : w[i] = q[i]
  <2>1. ASSUME NEW i \in 1 .. Len(q) PROVE w[i] = q[i]
    <3>1. i \in 1 .. Len(p) \/ i = Len(p) + 1
      BY <1>2, <1>4
    <3> QED
      BY <1>2, <1>3, <1>4, <3>1
  <2> QED
    BY <2>1
<1>6. Len(q) \in Nat /\ Len(q) <= Len(w)
  BY <1>2, <1>4
<1>7. SubSeq(w, 1, Len(q)) = SubSeq(q, 1, Len(q))
  <2>1. SubSeq(w, 1, Len(q)) = [i \in 1 .. Len(q) |-> w[i]]
    BY <1>2, <1>6
  <2>2. SubSeq(q, 1, Len(q)) = [i \in 1 .. Len(q) |-> q[i]]
    BY <1>4, <1>6
  <2> QED
    BY <1>5, <2>1, <2>2
<1> QED
  BY <1>2, <1>6, <1>7 DEF IsPrefix, w

-----------------------------------------------------------------------------
(* The steps.                                                              *)

LEMMA InitCInv == Init => CInv
<1> SUFFICES ASSUME Init PROVE CInv
  OBVIOUS
<1>0. ChatShape
  BY ChatShape
<1>1. history \in Seq(Turns) /\ Len(history) = 0 /\ prompt \in Seq(Items) /\ Alternate(history)
  BY DEF Init, Alternate
<1>2. TypeOK
  <2>1. 0 \in 0 .. MaxAsked /\ 0 \in 0 .. MaxRounds /\ 0 \in 0 .. MaxCalls
    BY <1>0 DEF ChatShape
  <2>2. spec.source = "generate" /\ spec.thought = "model" /\ calls.left = 0 /\ draft.at = "over"
    BY DEF Init, NoSpec, NoCalls, NoDraft
  <2>3. turn = 0 /\ round = 0 /\ asked = 0 /\ line = "empty" /\ gpu = None
    BY DEF Init
  <2>4. /\ options \in [display : {"tty", "json", "plain"}, tools : BOOLEAN]
        /\ pc = "head" /\ system \in BOOLEAN /\ pending \subseteq Slots /\ due \in BOOLEAN
        /\ region = "full"
    BY DEF Init
  <2> QED
    BY <1>1, <2>1, <2>2, <2>3, <2>4 DEF TypeOK, Lines
<1>3. spec \in [source : {"generate", "tools", "forced"}, thought : {"model", "seeded", "injected"}]
  BY DEF Init, NoSpec
<1>4. calls \in [left : 0 .. MaxCalls, corrupt : BOOLEAN, ended : BOOLEAN]
  BY <1>0 DEF Init, NoCalls, ChatShape
<1>5. draft \in [at : {"waiting", "generating", "drafted", "telling", "over"},
                 history : Seq(Turns), turn : 0 .. MaxAsked, cancel : BOOLEAN]
  <2>1. <<>> \in Seq(Turns) /\ 0 \in 0 .. MaxAsked
    BY <1>0 DEF ChatShape
  <2> QED
    BY <2>1 DEF Init, NoDraft
<1>6. Pairing /\ Bounds
  BY <1>0, <1>1 DEF Init, Pairing, Bounds, AtPrompt, Running, ChatShape
<1>7. Showing /\ Drafting /\ Extending
  BY DEF Init, Showing, Drafting, Extending, AtPrompt, NoDraft
<1> QED
  BY <1>1, <1>2, <1>3, <1>4, <1>5, <1>6, <1>7 DEF CInv, Records

\* The end of a turn stores the model's side of the exchange and counts it.
LEMMA EndTurnStep ==
    ASSUME CInv, NEW thought \in BOOLEAN, EndTurn(thought), Running,
           shown' = "idle", region' = "full", gpu' \in {None, "loop", "draft"},
           UNCHANGED <<options, line, draft>>
    PROVE  CInv'
<1>0. ChatShape
  BY ChatShape
<1>1. /\ history' = Append(history, Model(asked, thought)) /\ turn' = turn + 1
      /\ due' = TRUE /\ pc' = "head" /\ spec' = NoSpec /\ round' = 0
      /\ prompt' = <<>> /\ calls' = NoCalls
      /\ UNCHANGED <<system, pending, asked>>
  BY DEF EndTurn
<1>2. history \in Seq(Turns) /\ turn \in 0 .. MaxAsked /\ asked \in 0 .. MaxAsked
  BY DEF CInv, TypeOK
<1>3. Len(history) = 2 * turn + 1 /\ Alternate(history) /\ turn < asked
  BY DEF CInv, Pairing
<1>4. turn \in Nat /\ asked \in 1 .. MaxAsked /\ turn + 1 \in 0 .. MaxAsked /\ turn + 1 <= asked
  BY <1>0, <1>2, <1>3 DEF ChatShape
<1>5. Model(asked, thought) \in Turns /\ Model(asked, thought).who = "model"
  BY <1>4 DEF Model, Turns
<1>6. history' \in Seq(Turns) /\ Len(history') = 2 * turn' /\ Alternate(history')
  <2> DEFINE e == Model(asked, thought)
  <2>1. (2 * turn + 1) + 1 = 2 * turn + 2 /\ (2 * turn + 2) % 2 = 0
    BY <1>4, Parity
  <2>2. e \in Turns /\ e.who = IF (Len(history) + 1) % 2 = 1 THEN "user" ELSE "model"
    BY <1>3, <1>5, <2>1
  <2> HIDE DEF e
  <2>3. /\ Append(history, e) \in Seq(Turns) /\ Len(Append(history, e)) = Len(history) + 1
        /\ Alternate(Append(history, e))
    BY <1>2, <1>3, <2>2, Said
  <2>4. history' = Append(history, e) /\ 2 * turn' = Len(history) + 1
    BY <1>1, <1>3, <1>4 DEF e
  <2> QED
    BY <2>3, <2>4
<1>7. draft.at = "over"
  BY DEF CInv, Drafting, Running
<1>8. TypeOK'
  BY <1>0, <1>1, <1>2, <1>4, <1>6 DEF CInv, TypeOK, ChatShape, NoSpec, NoCalls
<1>9. Records'
  <2>1. spec' \in [source : {"generate", "tools", "forced"},
                    thought : {"model", "seeded", "injected"}]
    BY <1>1 DEF NoSpec
  <2>2. calls' \in [left : 0 .. MaxCalls, corrupt : BOOLEAN, ended : BOOLEAN]
    BY <1>0, <1>1 DEF NoCalls, ChatShape
  <2>3. prompt' \in Seq(Items)
    BY <1>1
  <2> QED
    BY <2>1, <2>2, <2>3 DEF CInv, Records
<1>10. Pairing' /\ Bounds'
  BY <1>0, <1>1, <1>4, <1>6 DEF Pairing, Bounds, AtPrompt, Running, ChatShape
<1>11. Showing' /\ Drafting' /\ Extending'
  BY <1>1, <1>7 DEF Showing, Drafting, Extending, AtPrompt
<1> QED
  BY <1>8, <1>9, <1>10, <1>11 DEF CInv

\* A command leaves whole exchanges, and the count of them.
LEMMA CommandStep ==
    ASSUME CInv, NEW l, Joined(l), BackToPrompt,
           history' \in Seq(Turns), Alternate(history'), turn' \in Nat, turn' <= turn,
           Len(history') = 2 * turn', system' \in BOOLEAN, pending' \subseteq Slots,
           asked' = asked
    PROVE  CInv'
<1>0. ChatShape
  BY ChatShape
<1>1. pc = "joining" /\ draft.at = "over"
  BY DEF Joined
<1>2. /\ pc' = "head" /\ line' = "empty"
      /\ UNCHANGED <<options, due, spec, round, prompt, calls, kv, gpu, draft, region, shown>>
  BY DEF BackToPrompt, run
<1>3. turn \in 0 .. MaxAsked /\ asked \in 0 .. MaxAsked /\ turn <= asked
  BY <1>1 DEF CInv, TypeOK, Pairing, AtPrompt
<1>4. turn' \in 0 .. MaxAsked /\ turn' <= asked'
  BY <1>0, <1>3 DEF ChatShape
<1>5. TypeOK'
  BY <1>0, <1>1, <1>2, <1>3, <1>4 DEF CInv, TypeOK, Lines
<1>6. Records'
  BY <1>2 DEF CInv, Records
<1>7. Pairing' /\ Bounds'
  BY <1>2, <1>4 DEF CInv, Pairing, Bounds, AtPrompt, Running
<1>8. Showing' /\ Drafting' /\ Extending'
  BY <1>1, <1>2 DEF CInv, Showing, Drafting, Extending, AtPrompt
<1> QED
  BY <1>5, <1>6, <1>7, <1>8 DEF CInv

\* Where a turn is, the drafting thread has returned.
LEMMA NoDraftInTurn == CInv /\ pc \notin {"prompt", "joining"} => draft.at = "over"
BY DEF CInv, Drafting

\* The drafting thread touches its draft, the lock, and a cache that the next
\* turn's first round rewinds.
LEMMA DraftStep ==
    ASSUME CInv, draft.at # "over", gpu' \in {None, "loop", "draft"}, shown' = shown,
           draft' \in [at : {"waiting", "generating", "drafted", "telling", "over"},
                       history : Seq(Turns), turn : 0 .. MaxAsked, cancel : BOOLEAN],
           draft'.at # "over" => draft'.history = draft.history /\ draft'.turn = draft.turn,
           UNCHANGED <<options, loop, talk, due, run, region>>
    PROVE  CInv'
<1>1. /\ UNCHANGED <<options, pc, line, history, turn, system, pending, asked, due>>
      /\ UNCHANGED <<spec, round, prompt, calls, region, shown>>
  BY DEF loop, talk, run
<1>2. pc \in {"prompt", "joining"}
  BY DEF CInv, Drafting
<1>3. TypeOK'
  BY <1>1 DEF CInv, TypeOK
<1>4. Records' /\ Pairing' /\ Bounds'
  BY <1>1 DEF CInv, Records, Pairing, Bounds, AtPrompt, Running
<1>5. Showing' /\ Drafting' /\ Extending'
  BY <1>1, <1>2 DEF CInv, Showing, Drafting, Extending, AtPrompt
<1> QED
  BY <1>3, <1>4, <1>5 DEF CInv

\* The commands that answer at the prompt.
LEMMA AtPromptSteps ==
    ASSUME CInv, Idle \/ Clear \/ Rewind \/ SetPrompt \/ Park \/ Unpark
    PROVE  CInv'
<1>1. /\ history \in Seq(Turns) /\ turn \in 0 .. MaxAsked /\ system \in BOOLEAN
      /\ pending \subseteq Slots
  BY DEF CInv, TypeOK
<1>2. turn \in Nat
  BY <1>1, ChatShape DEF ChatShape
<1>3. ASSUME pc = "joining" PROVE Len(history) = 2 * turn /\ Alternate(history)
  BY <1>3 DEF CInv, Pairing, AtPrompt
<1>4. CASE Idle
  <2>1. Joined("empty") /\ BackToPrompt /\ UNCHANGED <<history, turn, system, pending, asked>>
    BY <1>4 DEF Idle, talk
  <2>2. pc = "joining"
    BY <2>1 DEF Joined
  <2> QED
    BY <1>1, <1>2, <1>3, <2>1, <2>2, CommandStep
<1>5. CASE Clear
  <2>1. /\ Joined("clear") /\ BackToPrompt /\ history' = <<>> /\ turn' = 0
        /\ pending' \subseteq Slots /\ UNCHANGED <<system, asked>>
    BY <1>1, <1>5 DEF Clear
  <2>2. Alternate(<<>>) /\ <<>> \in Seq(Turns) /\ Len(<<>>) = 2 * 0
    BY DEF Alternate
  <2> QED
    BY <1>1, <1>2, <2>1, <2>2, CommandStep
<1>6. CASE Rewind
  <2> DEFINE g == Without("user", Without("model", history))
             n == IF g # history /\ turn > 0 THEN turn - 1 ELSE turn
  <2>1. /\ Joined("rewind") /\ BackToPrompt /\ history' = g /\ turn' = n
        /\ UNCHANGED <<system, pending, asked>>
    BY <1>6 DEF Rewind
  <2>2. pc = "joining"
    BY <2>1 DEF Joined
  <2>3. g \in Seq(Turns) /\ Alternate(g) /\ Len(g) = 2 * n
    BY <1>1, <1>2, <1>3, <2>2, RewindCuts
  <2>4. n \in Nat /\ n <= turn
    BY <1>2
  <2> HIDE DEF g, n
  <2> QED
    BY <1>1, <2>1, <2>3, <2>4, CommandStep
<1>7. CASE SetPrompt
  <2>1. /\ Joined("prompt") /\ BackToPrompt /\ system' \in BOOLEAN
        /\ UNCHANGED <<history, turn, pending, asked>>
    BY <1>7 DEF SetPrompt
  <2>2. pc = "joining"
    BY <2>1 DEF Joined
  <2> QED
    BY <1>1, <1>2, <1>3, <2>1, <2>2, CommandStep
<1>8. CASE Park
  <2>1. /\ Joined("park") /\ BackToPrompt /\ pending' \subseteq Slots
        /\ UNCHANGED <<history, turn, system, asked>>
    BY <1>1, <1>8 DEF Park
  <2>2. pc = "joining"
    BY <2>1 DEF Joined
  <2> QED
    BY <1>1, <1>2, <1>3, <2>1, <2>2, CommandStep
<1>9. CASE Unpark
  <2>1. /\ Joined("unpark") /\ BackToPrompt /\ pending' \subseteq Slots
        /\ UNCHANGED <<history, turn, system, asked>>
    BY <1>1, <1>9 DEF Unpark
  <2>2. pc = "joining"
    BY <2>1 DEF Joined
  <2> QED
    BY <1>1, <1>2, <1>3, <2>1, <2>2, CommandStep
<1> QED
  BY <1>4, <1>5, <1>6, <1>7, <1>8, <1>9

\* The process ends; what the terminal and the stream show stays.
LEMMA EndsStep ==
    ASSUME CInv, pc' = "closed", line' \in Lines, gpu' \in {None, "loop", "draft"},
           shown' # "broken", draft' \in {draft, NoDraft},
           draft.at = "over" \/ draft' = NoDraft,
           UNCHANGED <<options, talk, due, run, region>>
    PROVE  CInv'
<1>0. ChatShape
  BY ChatShape
<1>1. /\ UNCHANGED <<options, history, turn, system, pending, asked, due>>
      /\ UNCHANGED <<spec, round, prompt, calls, region>>
  BY DEF talk, run
<1>2. draft'.at = "over"
  BY DEF NoDraft
<1>3. TypeOK'
  BY <1>1, <1>2 DEF CInv, TypeOK
<1>4. draft' \in [at : {"waiting", "generating", "drafted", "telling", "over"},
                  history : Seq(Turns), turn : 0 .. MaxAsked, cancel : BOOLEAN]
  <2>1. <<>> \in Seq(Turns) /\ 0 \in 0 .. MaxAsked
    BY <1>0 DEF ChatShape
  <2>2. NoDraft \in [at : {"waiting", "generating", "drafted", "telling", "over"},
                     history : Seq(Turns), turn : 0 .. MaxAsked, cancel : BOOLEAN]
    BY <2>1 DEF NoDraft
  <2> QED
    BY <2>2 DEF CInv, Records
<1>5. Records' /\ Pairing' /\ Bounds'
  BY <1>1, <1>4 DEF CInv, Records, Pairing, Bounds, AtPrompt, Running
<1>6. Showing' /\ Drafting' /\ Extending'
  BY <1>1, <1>2 DEF Showing, Drafting, Extending, AtPrompt
<1> QED
  BY <1>3, <1>5, <1>6 DEF CInv

LEMMA ClosingSteps ==
    ASSUME CInv, Exit \/ ReadFails \/ GenerateFails \/ ToolPanics
    PROVE  CInv'
<1>1. gpu \in {None, "loop", "draft"} /\ line \in Lines /\ shown # "broken"
  BY DEF CInv, TypeOK, Showing
<1>2. CASE Exit
  BY <1>1, <1>2, EndsStep DEF Exit, Joined, Lines
<1>3. CASE ReadFails
  BY <1>1, <1>3, EndsStep DEF ReadFails
<1>4. CASE GenerateFails
  <2>1. pc = "generating"
    BY <1>4 DEF GenerateFails
  <2>2. draft.at = "over"
    BY <2>1, NoDraftInTurn
  <2> QED
    BY <1>1, <1>4, <2>2, EndsStep DEF GenerateFails
<1>5. CASE ToolPanics
  <2>1. pc = "calling" /\ Emit(<<"call">>)
    BY <1>5 DEF ToolPanics
  <2>2. draft.at = "over" /\ shown = "tools"
    BY <2>1, NoDraftInTurn DEF CInv, Showing
  <2>3. shown' = "running"
    <3>1. <<shown, "call", "running">> \in Shape
      BY <2>2 DEF Shape
    <3> QED
      BY <2>1, <3>1, EmitOne
  <2> QED
    BY <1>1, <1>5, <2>2, <2>3, EndsStep DEF ToolPanics
<1> QED
  BY <1>2, <1>3, <1>4, <1>5

\* The loop's thread moves on at the prompt.
LEMMA LoopHeadStep ==
    ASSUME CInv, LoopHead PROVE CInv'
<1>1. /\ pc = "head" /\ pc' = "prompt" /\ due' = FALSE
      /\ UNCHANGED <<options, line, kv, gpu, region, shown>>
      /\ UNCHANGED <<history, turn, system, pending, asked, spec, round, prompt, calls>>
  BY DEF LoopHead, talk, run
<1>2. draft.at = "over"
  BY <1>1, NoDraftInTurn
<1>3. \/ draft' = [at |-> "waiting", history |-> history, turn |-> turn, cancel |-> FALSE]
      \/ draft' = draft
  BY DEF LoopHead
<1>4. history \in Seq(Turns) /\ turn \in 0 .. MaxAsked
  BY DEF CInv, TypeOK
<1>5. draft' \in [at : {"waiting", "generating", "drafted", "telling", "over"},
                  history : Seq(Turns), turn : 0 .. MaxAsked, cancel : BOOLEAN]
  <2> DEFINE r == [at |-> "waiting", history |-> history, turn |-> turn, cancel |-> FALSE]
  <2>1. r \in [at : {"waiting", "generating", "drafted", "telling", "over"},
               history : Seq(Turns), turn : 0 .. MaxAsked, cancel : BOOLEAN]
    BY <1>4
  <2> HIDE DEF r
  <2>2. draft' = r \/ draft' = draft
    BY <1>3 DEF r
  <2> QED
    BY <2>1, <2>2 DEF CInv, Records
<1>6. TypeOK'
  BY <1>1, <1>5 DEF CInv, TypeOK
<1>7. Records' /\ Pairing' /\ Bounds'
  BY <1>1, <1>5 DEF CInv, Records, Pairing, Bounds, AtPrompt, Running
<1>8. Drafting'
  BY <1>1, <1>2, <1>3 DEF Drafting
<1>9. Showing' /\ Extending'
  BY <1>1 DEF CInv, Showing, Extending, AtPrompt
<1> QED
  BY <1>6, <1>7, <1>8, <1>9 DEF CInv

LEMMA ReadLineStep ==
    ASSUME CInv, NEW l \in Lines, ReadLine(l) PROVE CInv'
<1>1. /\ pc = "prompt" /\ pc' = "joining" /\ line' = l /\ (l = "message" => asked < MaxAsked)
      /\ UNCHANGED <<options, due, kv, gpu, region, shown>>
      /\ UNCHANGED <<history, turn, system, pending, asked, spec, round, prompt, calls>>
  BY DEF ReadLine, talk, run
<1>2. draft' \in {draft, [draft EXCEPT !.cancel = TRUE]}
  BY DEF ReadLine
<1>3. draft \in [at : {"waiting", "generating", "drafted", "telling", "over"},
                 history : Seq(Turns), turn : 0 .. MaxAsked, cancel : BOOLEAN]
  BY DEF CInv, Records
<1>4. /\ draft' \in [at : {"waiting", "generating", "drafted", "telling", "over"},
                     history : Seq(Turns), turn : 0 .. MaxAsked, cancel : BOOLEAN]
      /\ draft'.at = draft.at /\ draft'.history = draft.history /\ draft'.turn = draft.turn
  BY <1>2, <1>3
<1>5. TypeOK'
  BY <1>1, <1>4 DEF CInv, TypeOK
<1>6. Records' /\ Pairing' /\ Bounds'
  BY <1>1, <1>4 DEF CInv, Records, Pairing, Bounds, AtPrompt, Running
<1>7. Showing' /\ Drafting' /\ Extending'
  BY <1>1, <1>4 DEF CInv, Showing, Drafting, Extending, AtPrompt
<1> QED
  BY <1>5, <1>6, <1>7 DEF CInv

LEMMA DraftSteps ==
    ASSUME CInv, Draft PROVE CInv'
<1>1. draft \in [at : {"waiting", "generating", "drafted", "telling", "over"},
                 history : Seq(Turns), turn : 0 .. MaxAsked, cancel : BOOLEAN]
  BY DEF CInv, Records
<1>2. /\ NoDraft \in [at : {"waiting", "generating", "drafted", "telling", "over"},
                      history : Seq(Turns), turn : 0 .. MaxAsked, cancel : BOOLEAN]
      /\ NoDraft.at = "over"
  <2>1. <<>> \in Seq(Turns) /\ 0 \in 0 .. MaxAsked
    BY ChatShape DEF ChatShape
  <2> QED
    BY <2>1 DEF NoDraft
<1>3. gpu \in {None, "loop", "draft"}
  BY DEF CInv, TypeOK
<1>4. CASE DraftSkips
  BY <1>2, <1>3, <1>4, DraftStep DEF DraftSkips
<1>5. CASE DraftLocks
  <2>1. /\ draft.at = "waiting" /\ draft' = [draft EXCEPT !.at = "generating"] /\ gpu' = "draft"
        /\ shown' = shown /\ UNCHANGED <<options, loop, talk, due, run, region>>
    BY <1>5 DEF DraftLocks
  <2>2. /\ draft' \in [at : {"waiting", "generating", "drafted", "telling", "over"},
                       history : Seq(Turns), turn : 0 .. MaxAsked, cancel : BOOLEAN]
        /\ draft'.history = draft.history /\ draft'.turn = draft.turn
    BY <1>1, <2>1
  <2> QED
    BY <2>1, <2>2, DraftStep
<1>6. CASE DraftReturns
  <2>1. /\ draft.at = "generating" /\ draft' \in {[draft EXCEPT !.at = "drafted"], NoDraft}
        /\ gpu' = None
        /\ shown' = shown /\ UNCHANGED <<options, loop, talk, due, run, region>>
    BY <1>6 DEF DraftReturns
  <2>2. /\ draft' \in [at : {"waiting", "generating", "drafted", "telling", "over"},
                       history : Seq(Turns), turn : 0 .. MaxAsked, cancel : BOOLEAN]
        /\ draft'.at # "over" => draft'.history = draft.history /\ draft'.turn = draft.turn
    BY <1>1, <1>2, <2>1
  <2> QED
    BY <2>1, <2>2, DraftStep
<1>7. CASE DraftChecks
  <2>1. /\ draft.at = "drafted" /\ draft' \in {[draft EXCEPT !.at = "telling"], NoDraft}
        /\ gpu' = gpu
        /\ shown' = shown /\ UNCHANGED <<options, loop, talk, due, run, region>>
    BY <1>7 DEF DraftChecks
  <2>2. /\ draft' \in [at : {"waiting", "generating", "drafted", "telling", "over"},
                       history : Seq(Turns), turn : 0 .. MaxAsked, cancel : BOOLEAN]
        /\ draft'.at # "over" => draft'.history = draft.history /\ draft'.turn = draft.turn
    BY <1>1, <1>2, <2>1
  <2> QED
    BY <1>3, <2>1, <2>2, DraftStep
<1>8. CASE DraftTells
  <2>1. /\ draft.at = "telling" /\ draft' = NoDraft /\ Emit(<<"suggestion">>) /\ gpu' = gpu
        /\ UNCHANGED <<options, loop, talk, due, run, region>>
    BY <1>8 DEF DraftTells
  <2>2. shown = "idle"
    BY <2>1 DEF CInv, Drafting, Showing, AtPrompt
  <2>3. shown' = shown
    <3>1. <<shown, "suggestion", "idle">> \in Shape
      BY <2>2 DEF Shape
    <3> QED
      BY <2>1, <2>2, <3>1, EmitOne
  <2> QED
    BY <1>2, <1>3, <2>1, <2>3, DraftStep
<1> QED
  BY <1>4, <1>5, <1>6, <1>7, <1>8 DEF Draft

\* The message is the user's side of a new exchange, and its prompt the first.
LEMMA SubmitStep ==
    ASSUME CInv, Submit PROVE CInv'
<1>0. ChatShape
  BY ChatShape
<1>1. /\ pc = "joining" /\ line = "message" /\ draft.at = "over"
      /\ asked' = asked + 1 /\ history' = Append(history, User(asked'))
      /\ spec' = Resolve(pending) /\ pending' = pending \cap {"persistent"}
      /\ prompt' = FirstPrompt(history', spec', asked') /\ round' = 0 /\ calls' = NoCalls
      /\ Emit(<<"start">>) /\ pc' = "turn" /\ line' = "empty"
      /\ UNCHANGED <<options, turn, system, due, kv, gpu, draft, region>>
  BY DEF Submit, Joined
<1>2. /\ Len(history) = 2 * turn /\ Alternate(history) /\ turn <= asked /\ asked < MaxAsked
      /\ history \in Seq(Turns) /\ turn \in 0 .. MaxAsked /\ asked \in 0 .. MaxAsked
      /\ options.tools \in BOOLEAN /\ system \in BOOLEAN /\ pending \subseteq Slots
  BY <1>1 DEF CInv, TypeOK, Pairing, AtPrompt, Bounds
<1>3. turn \in Nat /\ asked' \in 1 .. MaxAsked /\ asked' \in Nat /\ turn < asked'
  BY <1>0, <1>1, <1>2 DEF ChatShape
<1>4. history' \in Seq(Turns) /\ Len(history') = 2 * turn' + 1 /\ Alternate(history')
  <2> DEFINE e == User(asked')
  <2>1. (2 * turn + 1) % 2 = 1
    BY <1>3, Parity
  <2>2. e \in Turns /\ e.who = IF (Len(history) + 1) % 2 = 1 THEN "user" ELSE "model"
    BY <1>2, <1>3, <2>1 DEF User, Turns
  <2>3. history' = Append(history, e)
    BY <1>1
  <2> HIDE DEF e
  <2>4. /\ Append(history, e) \in Seq(Turns) /\ Len(Append(history, e)) = Len(history) + 1
        /\ Alternate(Append(history, e))
    BY <1>2, <2>2, Said
  <2> QED
    BY <1>1, <1>2, <2>3, <2>4
<1>5. spec' \in [source : {"generate", "tools", "forced"},
                  thought : {"model", "seeded", "injected"}]
  BY <1>1 DEF Resolve
<1>6. prompt' \in Seq(Items)
  <2> DEFINE h == history'
             s == spec'
             k == asked'
  <2>1. h \in Seq(Turns) /\ s.thought \in {"model", "seeded", "injected"} /\ k \in Nat
    BY <1>3, <1>4, <1>5
  <2>2. prompt' = FirstPrompt(h, s, k)
    BY <1>1
  <2> HIDE DEF h, s, k
  <2> QED
    BY <1>2, <2>1, <2>2, PromptType
<1>7. shown' = "started"
  <2>1. shown = "idle"
    BY <1>1 DEF CInv, Showing, AtPrompt
  <2>2. <<shown, "start", "started">> \in Shape
    BY <2>1 DEF Shape
  <2> QED
    BY <1>1, <2>2, EmitOne
<1>8. TypeOK'
  <2>1. pending' \subseteq Slots /\ spec'.source \in {"generate", "tools", "forced"}
    BY <1>1, <1>2, <1>5
  <2>2. spec'.thought \in {"model", "seeded", "injected"} /\ calls'.left \in 0 .. MaxCalls
    BY <1>0, <1>1, <1>5 DEF NoCalls, ChatShape
  <2>3. round' \in 0 .. MaxRounds /\ asked' \in 0 .. MaxAsked
    BY <1>0, <1>1, <1>3 DEF ChatShape
  <2> QED
    BY <1>1, <1>4, <2>1, <2>2, <2>3 DEF CInv, TypeOK, Lines
<1>9. Records'
  <2>1. calls' \in [left : 0 .. MaxCalls, corrupt : BOOLEAN, ended : BOOLEAN]
    BY <1>0, <1>1 DEF NoCalls, ChatShape
  <2> QED
    BY <1>1, <1>5, <1>6, <2>1 DEF CInv, Records
<1>10. Pairing' /\ Bounds'
  BY <1>0, <1>1, <1>3, <1>4 DEF Pairing, Bounds, AtPrompt, Running, ChatShape
<1>11. Showing' /\ Drafting' /\ Extending'
  BY <1>1, <1>7 DEF Showing, Drafting, Extending, AtPrompt
<1> QED
  BY <1>8, <1>9, <1>10, <1>11 DEF CInv

\* A step inside a turn that leaves the conversation alone.
LEMMA TurnStep ==
    ASSUME CInv, Running, pc' \in {"turn", "asking", "generating", "calling"},
           gpu' \in {None, "loop", "draft"},
           region' \in {"full", "split"}, region' = "split" => pc' \in {"asking", "generating"},
           calls' \in [left : 0 .. MaxCalls, corrupt : BOOLEAN, ended : BOOLEAN],
           round' \in 0 .. MaxRounds - 1, prompt' \in Seq(Items), Showing', Extending',
           UNCHANGED <<options, line, talk, due, spec, draft>>
    PROVE  CInv'
<1>0. ChatShape
  BY ChatShape
<1>1. UNCHANGED <<options, line, history, turn, system, pending, asked, due, spec, draft>>
  BY DEF talk
<1>2. draft.at = "over" /\ round' \in 0 .. MaxRounds /\ round' < MaxRounds
  BY <1>0, NoDraftInTurn DEF Running, ChatShape
<1>3. TypeOK'
  <2>1. calls'.left \in 0 .. MaxCalls
    OBVIOUS
  <2> QED
    BY <1>1, <1>2, <2>1 DEF CInv, TypeOK
<1>4. Records'
  BY <1>1 DEF CInv, Records
<1>5. Pairing' /\ Bounds'
  BY <1>1, <1>2 DEF CInv, Pairing, Bounds, AtPrompt, Running
<1>6. Drafting'
  BY <1>1, <1>2 DEF Drafting
<1> QED
  BY <1>3, <1>4, <1>5, <1>6 DEF CInv

\* What every step inside a turn knows of it.
LEMMA InTurn ==
    ASSUME CInv
    PROVE  /\ gpu \in {None, "loop", "draft"} /\ region \in {"full", "split"}
           /\ (region = "split" => pc \in {"asking", "generating", "closed"})
           /\ calls \in [left : 0 .. MaxCalls, corrupt : BOOLEAN, ended : BOOLEAN]
           /\ round \in 0 .. MaxRounds - 1 /\ prompt \in Seq(Items)
<1>0. ChatShape
  BY ChatShape
<1>1. round \in 0 .. MaxRounds /\ round < MaxRounds
  BY DEF CInv, TypeOK, Bounds
<1>2. round \in 0 .. MaxRounds - 1
  BY <1>0, <1>1 DEF ChatShape
<1> QED
  BY <1>2 DEF CInv, TypeOK, Records

LEMMA StartRoundStep ==
    ASSUME CInv, StartRound PROVE CInv'
<1>1. /\ pc = "turn" /\ spec.source # "forced" /\ Emit(<<"round">>)
      /\ region' \in {region, "split"} /\ pc' = "asking"
      /\ UNCHANGED <<options, line, talk, due, spec, round, prompt, calls, kv, gpu, draft>>
  BY DEF StartRound, run
<1>2. shown' = "round"
  <2>1. shown \in {"started", "tools", "retried"}
    BY <1>1 DEF CInv, Showing
  <2>2. <<shown, "round", "round">> \in Shape
    BY <2>1 DEF Shape
  <2> QED
    BY <1>1, <2>2, EmitOne
<1>3. Showing' /\ Extending'
  BY <1>1, <1>2 DEF CInv, Showing, Extending, AtPrompt
<1> QED
  BY <1>1, <1>3, InTurn, TurnStep DEF Running

LEMMA AskStep ==
    ASSUME CInv, Ask PROVE CInv'
<1>1. /\ pc = "asking" /\ gpu' = "loop" /\ pc' = "generating"
      /\ UNCHANGED <<options, line, talk, due, spec, round, prompt, calls, kv, draft>>
      /\ UNCHANGED <<region, shown>>
  BY DEF Ask, run
<1>2. Showing' /\ Extending'
  BY <1>1 DEF CInv, Showing, Extending, AtPrompt
<1> QED
  BY <1>1, <1>2, InTurn, TurnStep DEF Running

LEMMA ObserveStep ==
    ASSUME CInv, Observe PROVE CInv'
<1>1. /\ pc = "generating" /\ pc' = pc /\ shown = "round"
      /\ UNCHANGED <<options, line, talk, due, spec, round, prompt, calls, kv, gpu, draft>>
      /\ region' = region
  BY DEF Observe, run, loop
<1>2. PICK e \in {"text", "thought"} : Emit(<<e>>)
  BY DEF Observe
<1>3. shown' = "stream"
  <2>1. <<shown, e, "stream">> \in Shape
    BY <1>1 DEF Shape
  <2> QED
    BY <1>2, <2>1, EmitOne
<1>4. Showing' /\ Extending'
  BY <1>1, <1>3 DEF CInv, Showing, Extending, AtPrompt
<1> QED
  BY <1>1, <1>4, InTurn, TurnStep DEF Running

\* A reply that calls tools ends its round, and the cache holds its prompt.
LEMMA CalledStep ==
    ASSUME CInv, NEW n \in 0 .. MaxCalls, NEW corrupt \in BOOLEAN, Called(n, corrupt)
    PROVE  CInv'
<1>1. /\ pc = "generating" /\ gpu' = None /\ kv' \in {prompt, Append(prompt, Reply)}
      /\ region' = "full" /\ Emit(<<"roundend">>) /\ pc' = "calling"
      /\ calls' = [left |-> n, corrupt |-> corrupt, ended |-> FALSE]
      /\ UNCHANGED <<options, line, talk, due, spec, round, prompt, draft>>
  BY DEF Called, Returns
<1>2. shown' = "tools"
  <2>1. shown \in {"round", "stream"}
    BY <1>1 DEF CInv, Showing
  <2>2. <<shown, "roundend", "tools">> \in Shape
    BY <2>1 DEF Shape
  <2> QED
    BY <1>1, <2>2, EmitOne
<1>3. Showing' /\ Extending'
  BY <1>1, <1>2 DEF CInv, Showing, Extending, AtPrompt, Reply
<1>4. calls' \in [left : 0 .. MaxCalls, corrupt : BOOLEAN, ended : BOOLEAN]
  BY <1>1
<1> QED
  BY <1>1, <1>3, <1>4, InTurn, TurnStep DEF Running

LEMMA RunToolStep ==
    ASSUME CInv, NEW sets \in BOOLEAN, NEW ends \in BOOLEAN, RunTool(sets, ends)
    PROVE  CInv'
<1>1. /\ pc = "calling" /\ calls.left > 0 /\ pc' = pc
      /\ Emit(<<"call">> \o (IF sets THEN <<"set">> ELSE <<>>) \o <<"result">>)
      /\ calls' = [calls EXCEPT !.left = @ - 1, !.ended = @ \/ ends]
      /\ UNCHANGED <<options, line, talk, due, spec, round, prompt, kv, gpu, draft, region>>
  BY DEF RunTool, loop
<1>2. shown = "tools"
  BY <1>1 DEF CInv, Showing
<1>3. /\ <<shown, "call", "running">> \in Shape /\ <<"running", "set", "running">> \in Shape
      /\ <<"running", "result", "tools">> \in Shape
  BY <1>2 DEF Shape
<1>4. shown' = "tools"
  <2>1. CASE sets
    <3>1. <<"call">> \o <<"set">> \o <<"result">> = <<"call", "set", "result">>
      <4>1. <<"call">> \o <<"set">> = <<"call", "set">>
        BY OneOne
      <4>2. <<"call", "set">> \o <<"result">> = <<"call", "set", "result">>
        BY TwoOne
      <4> QED
        BY <4>1, <4>2
    <3>2. Emit(<<"call", "set", "result">>)
      BY <1>1, <2>1, <3>1
    <3> QED
      BY <1>3, <3>2, EmitThree
  <2>2. CASE ~sets
    <3>1. <<"call">> \o <<>> \o <<"result">> = <<"call", "result">>
      <4>1. <<"call">> \in Seq({"call"})
        OBVIOUS
      <4>2. <<"call">> \o <<>> = <<"call">>
        BY <4>1, ConcatEmptySeq
      <4> QED
        BY <4>2, OneOne
    <3>2. Emit(<<"call", "result">>)
      BY <1>1, <2>2, <3>1
    <3> QED
      BY <1>3, <3>2, EmitTwo
  <2> QED
    BY <2>1, <2>2
<1>5. calls' \in [left : 0 .. MaxCalls, corrupt : BOOLEAN, ended : BOOLEAN]
  <2>1. calls \in [left : 0 .. MaxCalls, corrupt : BOOLEAN, ended : BOOLEAN]
    BY InTurn
  <2>2. calls.left - 1 \in 0 .. MaxCalls
    BY <1>1, <2>1, ChatShape DEF ChatShape
  <2>3. (calls.ended \/ ends) \in BOOLEAN
    BY <2>1
  <2> QED
    BY <1>1, <2>1, <2>2, <2>3
<1>6. Showing' /\ Extending'
  BY <1>1, <1>4 DEF CInv, Showing, Extending, AtPrompt, Reply
<1> QED
  BY <1>1, <1>5, <1>6, InTurn, TurnStep DEF Running

\* A turn that is over told its Done.
LEMMA DoneSteps ==
    ASSUME CInv, NoRoom \/ Answered \/ EndedByTool PROVE CInv'
<1>1. gpu \in {None, "loop", "draft"} /\ (region = "split" => pc \notin {"turn", "calling"})
      /\ region \in {"full", "split"} /\ (spec.thought = "injected") \in BOOLEAN
  BY InTurn
<1>2. ASSUME <<shown, "done", "idle">> \in Shape, Emit(<<"done">>) PROVE shown' = "idle"
  BY <1>2, EmitOne
<1>3. CASE NoRoom
  <2>1. shown \in {"started", "tools", "retried"}
    BY <1>3 DEF NoRoom, CInv, Showing
  <2>2. shown' = "idle"
    BY <1>2, <1>3, <2>1 DEF NoRoom, Shape
  <2>3. Running /\ region' = "full" /\ gpu' \in {None, "loop", "draft"}
    BY <1>1, <1>3 DEF NoRoom, Running
  <2> QED
    BY <1>3, <2>2, <2>3, EndTurnStep DEF NoRoom
<1>4. CASE Answered
  <2>1. shown \in {"round", "stream"}
    BY <1>4 DEF Answered, Returns, CInv, Showing
  <2>2. shown' = "idle"
    BY <1>2, <1>4, <2>1 DEF Answered, Shape
  <2>3. Running /\ region' = "full" /\ gpu' \in {None, "loop", "draft"}
    BY <1>4 DEF Answered, Returns, Running
  <2> QED
    BY <1>1, <1>4, <2>2, <2>3, EndTurnStep DEF Answered
<1>5. CASE EndedByTool
  <2>1. shown = "tools"
    BY <1>5 DEF EndedByTool, CInv, Showing
  <2>2. shown' = "idle"
    BY <1>2, <1>5, <2>1 DEF EndedByTool, Shape
  <2>3. Running /\ region' = "full" /\ gpu' \in {None, "loop", "draft"}
    BY <1>1, <1>5 DEF EndedByTool, Running
  <2> QED
    BY <1>5, <2>2, <2>3, EndTurnStep DEF EndedByTool
<1> QED
  BY <1>3, <1>4, <1>5

\* The next round's prompt begins with what the cache holds of this one.
LEMMA NextRoundStep ==
    ASSUME CInv, NextRound PROVE CInv'
<1> DEFINE retry == IF calls.corrupt THEN <<"retry">> ELSE <<>>
           Last2 == <<Reply, Mark("responses", round)>>
<1>1. /\ pc = "calling"
      /\ UNCHANGED <<options, line, kv, gpu, draft, region>>
  BY DEF NextRound
<1>2. shown = "tools" /\ kv \in {prompt, Append(prompt, Reply)} /\ spec.source # "forced"
  BY <1>1 DEF CInv, Showing, Extending
<1>3. region = "full" /\ gpu \in {None, "loop", "draft"}
  BY <1>1, InTurn
<1>4. CASE round + 1 = MaxRounds
  <2>1. Emit(retry \o <<"done">>) /\ EndTurn(FALSE)
    BY <1>4 DEF NextRound
  <2>2. shown' = "idle"
    <3>1. CASE calls.corrupt
      <4>1. <<"retry">> \o <<"done">> = <<"retry", "done">>
        BY OneOne
      <4>2. Emit(<<"retry", "done">>)
        BY <2>1, <3>1, <4>1
      <4>3. <<shown, "retry", "retried">> \in Shape /\ <<"retried", "done", "idle">> \in Shape
        BY <1>2 DEF Shape
      <4> QED
        BY <4>2, <4>3, EmitTwo
    <3>2. CASE ~calls.corrupt
      <4>1. <<>> \o <<"done">> = <<"done">>
        OBVIOUS
      <4>2. Emit(<<"done">>)
        BY <2>1, <3>2, <4>1
      <4>3. <<shown, "done", "idle">> \in Shape
        BY <1>2 DEF Shape
      <4> QED
        BY <4>2, <4>3, EmitOne
    <3> QED
      BY <3>1, <3>2
  <2> HIDE DEF retry
  <2> QED
    BY <1>1, <1>3, <2>1, <2>2, EndTurnStep DEF Running
<1>5. CASE round + 1 # MaxRounds
  <2>1. /\ Emit(retry) /\ pc' = "turn" /\ round' = round + 1 /\ prompt' = prompt \o Last2
        /\ calls' = NoCalls /\ UNCHANGED <<talk, due, spec>>
    BY <1>5 DEF NextRound
  <2>2. shown' \in {"tools", "retried"}
    <3>1. CASE calls.corrupt
      <4>1. Emit(<<"retry">>)
        BY <2>1, <3>1
      <4>2. <<shown, "retry", "retried">> \in Shape
        BY <1>2 DEF Shape
      <4> QED
        BY <4>1, <4>2, EmitOne
    <3>2. CASE ~calls.corrupt
      BY <1>2, <2>1, <3>2, EmitNone
    <3> QED
      BY <3>1, <3>2
  <2>3. round \in 0 .. MaxRounds - 1 /\ prompt \in Seq(Items)
    BY InTurn
  <2>4. round' \in 0 .. MaxRounds - 1
    BY <1>5, <2>1, <2>3, ChatShape DEF ChatShape
  <2>5. Reply \in Items /\ Mark("responses", round) \in Items
    BY <2>3, ChatShape DEF Reply, Mark, Items, Kinds, ChatShape
  <2>6. prompt' \in Seq(Items) /\ IsPrefix(kv, prompt')
    <3> HIDE DEF Reply
    <3> QED
      BY <1>2, <2>1, <2>3, <2>5, NextPrompt
  <2>7. calls' \in [left : 0 .. MaxCalls, corrupt : BOOLEAN, ended : BOOLEAN]
    BY <2>1, ChatShape DEF NoCalls, ChatShape
  <2> HIDE DEF retry, Last2
  <2>8. Showing' /\ Extending'
    <3>1. Showing'
      BY <1>2, <2>1, <2>2 DEF Showing, AtPrompt
    <3>2. Extending'
      BY <1>1, <2>1, <2>6 DEF Extending
    <3> QED
      BY <3>1, <3>2
  <2> QED
    BY <1>1, <1>3, <2>1, <2>4, <2>6, <2>7, <2>8, TurnStep DEF Running
<1> QED
  BY <1>4, <1>5

LEMMA ForceReplyStep ==
    ASSUME CInv, ForceReply PROVE CInv'
<1>1. /\ pc = "turn" /\ spec.source = "forced"
      /\ Emit((IF spec.thought = "injected" THEN <<"thought">> ELSE <<>>) \o <<"text", "done">>)
      /\ EndTurn(spec.thought = "injected")
      /\ UNCHANGED <<options, line, gpu, draft, region>>
  BY DEF ForceReply
<1>2. shown = "started"
  BY <1>1 DEF CInv, Showing
<1>3. /\ <<shown, "thought", "thought">> \in Shape /\ <<"thought", "text", "forced">> \in Shape
      /\ <<shown, "text", "forced">> \in Shape /\ <<"forced", "done", "idle">> \in Shape
  BY <1>2 DEF Shape
<1>4. shown' = "idle"
  <2>1. CASE spec.thought = "injected"
    <3>1. <<"thought">> \o <<"text", "done">> = <<"thought", "text", "done">>
      BY OneTwo
    <3>2. Emit(<<"thought", "text", "done">>)
      BY <1>1, <2>1, <3>1
    <3> QED
      BY <1>3, <3>2, EmitThree
  <2>2. CASE spec.thought # "injected"
    <3>1. <<>> \o <<"text", "done">> = <<"text", "done">>
      OBVIOUS
    <3>2. Emit(<<"text", "done">>)
      BY <1>1, <2>2, <3>1
    <3> QED
      BY <1>3, <3>2, EmitTwo
  <2> QED
    BY <2>1, <2>2
<1>5. Running /\ region' = "full" /\ gpu' \in {None, "loop", "draft"}
  BY <1>1, InTurn DEF Running
<1> DEFINE thought == spec.thought = "injected"
<1>6. thought \in BOOLEAN /\ EndTurn(thought)
  BY <1>1
<1> HIDE DEF thought
<1> QED
  BY <1>1, <1>4, <1>5, <1>6, EndTurnStep

LEMMA CStutter == CInv /\ UNCHANGED vars => CInv'
<1> SUFFICES ASSUME CInv, UNCHANGED vars PROVE CInv'
  OBVIOUS
<1>1. /\ UNCHANGED <<options, pc, line, history, turn, system, pending, asked, due>>
      /\ UNCHANGED <<spec, round, prompt, calls, kv, gpu, draft, region, shown>>
  BY DEF vars, loop, talk, run
<1>2. TypeOK'
  BY <1>1 DEF CInv, TypeOK
<1>3. Records' /\ Pairing' /\ Bounds'
  BY <1>1 DEF CInv, Records, Pairing, Bounds, AtPrompt, Running
<1>4. Showing' /\ Drafting' /\ Extending'
  BY <1>1 DEF CInv, Showing, Drafting, Extending, AtPrompt, Reply
<1> QED
  BY <1>2, <1>3, <1>4 DEF CInv

LEMMA NextCInv == CInv /\ [Next]_vars => CInv'
<1> SUFFICES ASSUME CInv, [Next]_vars PROVE CInv'
  OBVIOUS
<1>1. CASE LoopHead
  BY <1>1, LoopHeadStep
<1>2. CASE Command
  BY <1>2, AtPromptSteps, ClosingSteps, SubmitStep DEF Command
<1>3. CASE Turn
  <2>1. CASE NoRoom \/ Answered \/ EndedByTool
    BY <2>1, DoneSteps
  <2>2. CASE StartRound \/ Ask \/ Observe
    BY <2>2, StartRoundStep, AskStep, ObserveStep
  <2>3. CASE GenerateFails \/ ToolPanics
    BY <2>3, ClosingSteps
  <2>4. CASE \E n \in 0 .. MaxCalls, corrupt \in BOOLEAN : Called(n, corrupt)
    BY <2>4, CalledStep
  <2>5. CASE \E sets, ends \in BOOLEAN : RunTool(sets, ends)
    BY <2>5, RunToolStep
  <2>6. CASE NextRound
    BY <2>6, NextRoundStep
  <2>7. CASE ForceReply
    BY <2>7, ForceReplyStep
  <2> QED
    BY <1>3, <2>1, <2>2, <2>3, <2>4, <2>5, <2>6, <2>7 DEF Turn
<1>4. CASE Draft
  BY <1>4, DraftSteps
<1>5. CASE ReadFails
  BY <1>5, ClosingSteps
<1>6. CASE Closed
  BY <1>6, CStutter DEF Closed
<1>7. CASE \E l \in Lines : ReadLine(l)
  BY <1>7, ReadLineStep
<1>8. CASE UNCHANGED vars
  BY <1>8, CStutter
<1> QED
  BY <1>1, <1>2, <1>3, <1>4, <1>5, <1>6, <1>7, <1>8 DEF Next

-----------------------------------------------------------------------------
(* The results.                                                            *)

\* The invariant holds in every state of every session.
THEOREM ChatInvariant == Spec => []CInv
<1>1. Init => CInv
  BY InitCInv
<1>2. CInv /\ [Next]_vars => CInv'
  BY NextCInv
<1> QED
  BY <1>1, <1>2, PTL DEF Spec

\* No count goes below zero or over its bound, whatever was rewound, and the pane
\* is reserved only while a round is on.
THEOREM ChatTypes == Spec => []TypeOK
<1>1. CInv => TypeOK
  BY DEF CInv
<1> QED
  BY <1>1, ChatInvariant, PTL

\* The events of every session follow the protocol's turn shape, the drafting
\* thread's suggestion included.
THEOREM AlwaysTurnShape == Spec => []TurnShape
<1>1. CInv => TurnShape
  BY DEF CInv, Showing, TurnShape
<1> QED
  BY <1>1, ChatInvariant, PTL

\* At the prompt the history is whole exchanges and turn_idx counts them.
THEOREM AlwaysPaired == Spec => []Paired
<1>1. CInv => Paired
  BY DEF CInv, Pairing, AtPrompt, Alternate, Paired
<1> QED
  BY <1>1, ChatInvariant, PTL

\* A suggestion is told of the conversation it was drafted for, as it still is.
THEOREM SuggestionsAreCurrent == Spec => SuggestionIsCurrent
<1> DEFINE Current == draft.history = history /\ draft.turn = turn
<1>1. CInv /\ DraftTells => Current
  BY DEF DraftTells, CInv, Drafting
<1>2. CInv /\ [Next]_vars => [DraftTells => Current]_vars
  BY <1>1
<1> QED
  BY <1>2, ChatInvariant, PTL DEF Spec, SuggestionIsCurrent

\* Each round of a turn extends what the cache holds: nothing is rewound.
THEOREM RoundsExtend == Spec => PureExtension
<1>1. CInv /\ Ask /\ round > 0 => IsPrefix(kv, prompt)
  BY DEF Ask, CInv, Extending
<1>2. CInv /\ [Next]_vars => [Ask /\ round > 0 => IsPrefix(kv, prompt)]_vars
  BY <1>1
<1> QED
  BY <1>2, ChatInvariant, PTL DEF Spec, PureExtension

=============================================================================
