------------------------ MODULE PipelineStages_proofs ------------------------
(***************************************************************************)
(* For every token set, prompt, run, capacity and failure: the pipeline's  *)
(* log goes on naming what the cache holds (but for a restored blob and a  *)
(* turn that jumped its own gap), an open turn owns the session, and a     *)
(* rewind lands on the log its id was issued for.  The steps of the ops    *)
(* are stated for any well-typed argument, so that the chain stages, which *)
(* call them with prompts and ids of their own, can cite them.             *)
(*                                                                         *)
(* For every reply, error response and choice of stages besides: that      *)
(* invariant survives the stages, the caller of a staged Generate finds    *)
(* only what it is given in the causal context, and a summarize pass keeps *)
(* the conversation's log, under its own prompt when a stage stepped in.   *)
(***************************************************************************)
EXTENDS PipelineStages, SequenceTheorems, WellFoundedInduction, TLAPS

-----------------------------------------------------------------------------
(* The pipeline on its own (TokenPipeline).                                *)

\* An id still of the current epoch names a beginning of the log, unless a turn
\* op ran or an op failed since it was issued.
HeldTruthful ==
    /\ held.epoch <= epoch /\ held.pos = Len(held.log)
    /\ ~loose /\ held.epoch = epoch => IsPrefixOf(held.log, log)

\* The types, and a row for every token of the log.
Typed == TypeOK /\ Len(kv) = Len(log)

\* The inductive invariant: HeldTruthful is what the epoch check relies on.
IInv == Typed /\ TurnOwnsSession /\ HeldTruthful

\* The session's part of the types.
SessionOK ==
    log \in Seq(Token) /\ kv \in Seq(Row) /\ Len(kv) = Len(log) /\ Fits(log)

\* What a session call does: the session stays well-formed, and a log that names
\* the cache's tokens goes on doing so.
Sound == SessionOK' /\ (Truthful => Truthful')

-----------------------------------------------------------------------------
(* Sequences, of tokens and of rows.                                       *)

LEMMA PrefixIsBeginning ==
    ASSUME NEW S, NEW s \in Seq(S), NEW n \in 0 .. Len(s)
    PROVE  /\ Prefix(s, n) \in Seq(S) /\ Len(Prefix(s, n)) = n
           /\ IsPrefixOf(Prefix(s, n), s)
<1>1. n \in Nat /\ n <= Len(s) /\ \A i \in 1..n : s[i] \in S
  BY LenProperties, ElementOfSeq
<1>2. Prefix(s, n) \in Seq(S) /\ Len(Prefix(s, n)) = n
  BY <1>1 DEF Prefix
<1>3. \A i \in 1..n : Prefix(s, n)[i] = s[i]
  BY <1>1 DEF Prefix
<1> QED
  BY <1>1, <1>2, <1>3 DEF IsPrefixOf

LEMMA SuffixType ==
    ASSUME NEW S, NEW s \in Seq(S), NEW n \in 0 .. Len(s)
    PROVE  /\ Suffix(s, n) \in Seq(S) /\ Len(Suffix(s, n)) = Len(s) - n
           /\ \A i \in 1 .. Len(s) - n : Suffix(s, n)[i] = s[n + i]
<1>1. Len(s) - n \in Nat
  BY LenProperties
<1>2. \A i \in 1 .. Len(s) - n : n + i \in 1 .. Len(s)
  BY LenProperties
<1>3. \A i \in 1 .. Len(s) - n : s[n + i] \in S
  BY <1>2, ElementOfSeq
<1> QED
  BY <1>1, <1>3 DEF Suffix

\* Two sequences that begin alike and are equally long are the same.
LEMMA PrefixUnique ==
    ASSUME NEW S, NEW s \in Seq(S), NEW t \in Seq(S), IsPrefixOf(s, t)
    PROVE  Prefix(t, Len(s)) = s
<1>1. Len(s) \in 0 .. Len(t)
  BY LenProperties DEF IsPrefixOf
<1>2. /\ Prefix(t, Len(s)) \in Seq(S) /\ Len(Prefix(t, Len(s))) = Len(s)
      /\ \A i \in 1 .. Len(s) : Prefix(t, Len(s))[i] = t[i]
  BY <1>1, PrefixIsBeginning DEF IsPrefixOf
<1>3. \A i \in 1 .. Len(s) : Prefix(t, Len(s))[i] = s[i]
  BY <1>2 DEF IsPrefixOf
<1> QED
  BY <1>2, <1>3, SeqEqual

LEMMA PrefixOfLonger ==
    ASSUME NEW s \in Seq(Token), NEW t \in Seq(Token), NEW u \in Seq(Token),
           IsPrefixOf(s, t)
    PROVE  t \o u \in Seq(Token) /\ IsPrefixOf(s, t \o u)
<1>1. Len(s) \in Nat /\ Len(t) \in Nat /\ Len(u) \in Nat
  BY LenProperties
<1>2. t \o u \in Seq(Token) /\ Len(t \o u) = Len(t) + Len(u)
  BY ConcatProperties
<1>3. \A i \in 1 .. Len(t) : (t \o u)[i] = t[i]
  BY <1>1, ConcatProperties
<1> QED
  BY <1>1, <1>2, <1>3 DEF IsPrefixOf

LEMMA PrefixReflexive ==
    ASSUME NEW s \in Seq(Token)
    PROVE  IsPrefixOf(s, s)
BY LenProperties DEF IsPrefixOf

\* Tokens are rows.
LEMMA Rows == ASSUME NEW s \in Seq(Token) PROVE s \in Seq(Row)
<1>1. Token \subseteq Row
  BY DEF Row
<1>2. Len(s) \in Nat /\ \A i \in 1 .. Len(s) : s[i] \in Row
  BY <1>1, LenProperties, ElementOfSeq
<1>3. [i \in 1 .. Len(s) |-> s[i]] \in Seq(Row)
  BY <1>2, IsASeq
<1>4. s = [i \in 1 .. Len(s) |-> s[i]]
  BY LenProperties
<1> QED
  BY <1>3, <1>4

\* A beginning that two sequences share, put back before the rest of one.
LEMMA Rejoined ==
    ASSUME NEW S, NEW s \in Seq(S), NEW t \in Seq(S),
           NEW n \in 0 .. Len(s), n <= Len(t)
    PROVE  /\ Prefix(s, n) \o Suffix(t, n) \in Seq(S)
           /\ Len(Prefix(s, n) \o Suffix(t, n)) = Len(t)
           /\ (\A i \in 1..n : s[i] = t[i]) => Prefix(s, n) \o Suffix(t, n) = t
<1> DEFINE p == Prefix(s, n)
           q == Suffix(t, n)
<1>1. n \in Nat /\ Len(s) \in Nat /\ Len(t) \in Nat /\ n \in 0 .. Len(t)
  BY LenProperties
<1>2. p \in Seq(S) /\ Len(p) = n /\ \A i \in 1..n : p[i] = s[i]
  BY PrefixIsBeginning DEF IsPrefixOf
<1>3. /\ q \in Seq(S) /\ Len(q) = Len(t) - n
      /\ \A i \in 1 .. Len(t) - n : q[i] = t[n + i]
  BY <1>1, SuffixType
<1> HIDE DEF p, q
<1>4. p \o q \in Seq(S) /\ Len(p \o q) = Len(p) + Len(q)
  BY <1>2, <1>3, ConcatProperties
<1>5. Len(p \o q) = Len(t)
  BY <1>1, <1>2, <1>3, <1>4
<1>6. ASSUME \A i \in 1..n : s[i] = t[i], NEW i \in 1 .. Len(t)
      PROVE  (p \o q)[i] = t[i]
  <2>1. CASE i <= n
    <3>1. (p \o q)[i] = p[i]
      BY <1>1, <1>2, <1>3, <2>1, ConcatProperties
    <3> QED
      BY <1>1, <1>2, <1>6, <2>1, <3>1
  <2>2. CASE i > n
    <3>1. (p \o q)[i] = q[i - n]
      BY <1>1, <1>2, <1>3, <2>2, ConcatProperties
    <3>2. i - n \in 1 .. Len(t) - n /\ n + (i - n) = i
      BY <1>1, <2>2
    <3> QED
      BY <1>3, <3>1, <3>2
  <2>3. i <= n \/ i > n
    BY <1>1
  <2> QED
    BY <2>1, <2>2, <2>3
<1>7. ASSUME \A i \in 1..n : s[i] = t[i] PROVE p \o q = t
  BY <1>4, <1>5, <1>6, <1>7, SeqEqual
<1> QED
  BY <1>4, <1>5, <1>7 DEF p, q

\* Every nonempty set of naturals has a least element.
LEMMA LeastElement ==
    ASSUME NEW D, D \subseteq Nat, D # {}
    PROVE  \E x \in D : \A y \in D : x <= y
<1> DEFINE R == OpToRel(<, Nat)
<1>1. IsWellFoundedOn(R, Nat)
  BY NatLessThanWellFounded
<1>2. \A x, y \in Nat : x < y => <<x, y>> \in R
  BY DEF OpToRel
<1> HIDE DEF R
<1>3. PICK x \in D : \A y \in D : ~ (<<y, x>> \in R)
  BY <1>1, WFMin
<1>4. ASSUME NEW y \in D PROVE x <= y
  <2>1. x \in Nat /\ y \in Nat /\ ~(y < x)
    BY <1>2, <1>3
  <2> QED
    BY <2>1
<1> QED
  BY <1>4

\* The longest common prefix exists and fits the log.
LEMMA ReusedType ==
    ASSUME NEW t \in Seq(Token), log \in Seq(Token)
    PROVE  /\ Reused(t) \in 0 .. Len(log) /\ Reused(t) <= Len(t)
           /\ \A i \in 1 .. Reused(t) : log[i] = t[i]
<1> DEFINE L == IF Len(log) < Len(t) THEN Len(log) ELSE Len(t)
           Common(n) == /\ \A i \in 1..n : log[i] = t[i]
                        /\ n < L => log[n + 1] # t[n + 1]
           D == {i \in 1..L : log[i] # t[i]}
<1>1. L \in Nat /\ L <= Len(log) /\ L <= Len(t) /\ Len(log) \in Nat /\ Len(t) \in Nat
  BY LenProperties
<1> HIDE DEF L
<1>2. \E n \in 0..L : Common(n)
  <2>1. CASE D = {}
    <3>1. L \in 0..L /\ Common(L)
      BY <1>1, <2>1
    <3> QED
      BY <3>1
  <2>2. CASE D # {}
    <3>1. D \subseteq Nat
      BY <1>1
    <3> HIDE DEF D
    <3>2. PICK x \in D : \A y \in D : x <= y
      BY <2>2, <3>1, LeastElement
    <3>3. x \in 1..L /\ log[x] # t[x] /\ x \in Nat
      BY <1>1, <3>2 DEF D
    <3>4. ASSUME NEW i \in 1 .. x - 1 PROVE log[i] = t[i]
      <4>1. i \in 1..L /\ ~(x <= i)
        BY <1>1, <3>3
      <4> QED
        BY <3>2, <4>1 DEF D
    <3>5. x - 1 \in 0..L /\ (x - 1) + 1 = x
      BY <1>1, <3>3
    <3>6. Common(x - 1)
      BY <3>3, <3>4, <3>5
    <3> QED
      BY <3>5, <3>6
  <2> QED
    BY <2>1, <2>2
<1>3. Reused(t) = CHOOSE n \in 0..L : Common(n)
  BY DEF Reused, Least, L
<1>4. Reused(t) \in 0..L /\ Common(Reused(t))
  <2> HIDE DEF Common
  <2> QED
    BY <1>2, <1>3
<1> QED
  BY <1>1, <1>4

-----------------------------------------------------------------------------
(* What a step of each shape leaves.                                       *)

LEMMA Types ==
    ASSUME IInv
    PROVE  /\ SessionOK
           /\ log \in Seq(Token) /\ kv \in Seq(Row) /\ Len(kv) = Len(log)
           /\ seqs \in Seq(Token) /\ pending \in Seq(Token)
           /\ held.log \in Seq(Token)
           /\ epoch \in Nat /\ held.epoch \in Nat /\ held.pos \in Nat
           /\ open \in BOOLEAN /\ loose \in BOOLEAN
           /\ gap \in {"none", "left", "jumped"}
           /\ Fits(log) /\ Len(log) \in Nat
BY LenProperties DEF IInv, Typed, TypeOK, SessionOK

\* The types, put together from a sound session and the rest.
LEMMA TypesAgain ==
    ASSUME SessionOK', {seqs, pending, held.log}' \subseteq Seq(Token),
           {epoch, held.epoch, held.pos}' \subseteq Nat,
           open' \in BOOLEAN, loose' \in BOOLEAN,
           gap' \in {"none", "left", "jumped"}
    PROVE  Typed'
<1>1. {open, loose}' \subseteq BOOLEAN
  BY Zenon
<1> QED
  BY <1>1 DEF SessionOK, Typed, TypeOK, Fits

\* The log is replaced while no turn is open, and an id issued before is of an
\* older epoch or known to be loose.
LEMMA WholeLogStep ==
    ASSUME IInv, ~open, UNCHANGED turn, SessionOK',
           \/ epoch' = epoch + 1 /\ UNCHANGED marks
           \/ epoch' \in {epoch, epoch + 1} /\ Loosens
    PROVE  IInv'
<1>1. UNCHANGED <<open, seqs, pending, gap, held>>
  BY DEF turn, marks, Loosens
<1>2. epoch' \in Nat
  BY Types
<1>3. loose' \in BOOLEAN
  BY Types, Zenon DEF marks, Loosens
<1>4. Typed'
  <2>1. {seqs, pending, held.log}' \subseteq Seq(Token)
    BY <1>1, Types
  <2>2. {epoch, held.epoch, held.pos}' \subseteq Nat
    BY <1>1, <1>2, Types
  <2> QED
    BY <1>1, <1>3, <2>1, <2>2, Types, TypesAgain
<1>5. TurnOwnsSession'
  BY <1>1 DEF IInv, TurnOwnsSession
<1>6. HeldTruthful'
  <2>1. held.epoch <= epoch /\ held.pos = Len(held.log)
    BY DEF IInv, HeldTruthful
  <2>2. CASE epoch' = epoch + 1 /\ UNCHANGED marks
    BY <1>1, <2>1, <2>2, Types DEF HeldTruthful
  <2>3. CASE epoch' \in {epoch, epoch + 1} /\ Loosens
    BY <1>1, <2>1, <2>3, Types DEF HeldTruthful, Loosens
  <2> QED
    BY <2>2, <2>3
<1> QED
  BY <1>4, <1>5, <1>6 DEF IInv

LEMMA DroppedLeaves == Dropped => Sound
<1>1. <<>> \in Seq(Token) /\ <<>> \in Seq(Row) /\ Len(<<>>) = 0
  BY EmptySeq
<1>2. 0 <= Capacity
  BY PipelineSizes
<1> QED
  BY <1>1, <1>2 DEF Dropped, Holds, Sound, SessionOK, Truthful, Fits

\* The rows a truncate leaves under the first n tokens of the log.
LEMMA KeptType ==
    ASSUME IInv, NEW n \in 0 .. Len(log), NEW rows \in Kept(n)
    PROVE  /\ rows \in Seq(Row) /\ Len(rows) = n
           /\ Truthful => rows = Prefix(log, n)
<1>1. /\ log \in Seq(Token) /\ kv \in Seq(Row) /\ log \in Seq(Row)
      /\ Len(kv) = Len(log) /\ Len(log) \in Nat
  BY Types, Rows
<1>2. CASE n < Len(log)
  <2>1. rows = Prefix(kv, n) \/ rows = Prefix(log, n)
    BY <1>2 DEF Kept
  <2>2. Prefix(kv, n) \in Seq(Row) /\ Len(Prefix(kv, n)) = n
    BY <1>1, PrefixIsBeginning
  <2>3. Prefix(log, n) \in Seq(Row) /\ Len(Prefix(log, n)) = n
    BY <1>1, PrefixIsBeginning
  <2> QED
    BY <2>1, <2>2, <2>3 DEF Truthful
<1>3. CASE ~(n < Len(log))
  <2>1. n = Len(log) /\ rows = kv
    BY <1>1, <1>3 DEF Kept
  <2>2. Prefix(log, Len(log)) = log
    BY <1>1, PrefixReflexive, PrefixUnique
  <2> QED
    BY <1>1, <2>1, <2>2 DEF Truthful
<1> QED
  BY <1>2, <1>3

LEMMA CutLeaves ==
    ASSUME IInv, NEW n \in 0 .. Len(log), Cut(n)
    PROVE  Sound /\ log' = Prefix(log, n)
<1>1. PICK rows \in Kept(n) : log' = Prefix(log, n) /\ kv' = rows
  BY DEF Cut, Holds
<1>2. /\ rows \in Seq(Row) /\ Len(rows) = n
      /\ Truthful => rows = Prefix(log, n)
  BY KeptType
<1>3. Prefix(log, n) \in Seq(Token) /\ Len(Prefix(log, n)) = n
  BY Types, PrefixIsBeginning
<1>4. n <= Capacity
  BY Types, PipelineSizes DEF Fits
<1> QED
  BY <1>1, <1>2, <1>3, <1>4 DEF Sound, SessionOK, Truthful, Fits

\* The same ids behind a log and behind its rows.
LEMMA ExtendedLeaves ==
    ASSUME NEW l \in Seq(Token), NEW rows \in Seq(Row), Len(rows) = Len(l),
           NEW ids \in Seq(Token), Fits(l \o ids), Holds(l \o ids, rows \o ids),
           Truthful => rows = l
    PROVE  Sound
<1>1. /\ l \o ids \in Seq(Token) /\ Len(l \o ids) = Len(l) + Len(ids)
  BY ConcatProperties
<1>2. ids \in Seq(Row)
  BY Rows
<1>3. rows \o ids \in Seq(Row) /\ Len(rows \o ids) = Len(rows) + Len(ids)
  BY <1>2, ConcatProperties
<1>4. Truthful => rows \o ids = l \o ids
  OBVIOUS
<1> QED
  BY <1>1, <1>3, <1>4 DEF Holds, Sound, SessionOK, Truthful, Fits

LEMMA RegrownLeaves ==
    ASSUME IInv, NEW n \in 0 .. Len(log), NEW ids \in Seq(Token),
           n + Len(ids) <= Capacity, Regrown(n, ids)
    PROVE  Sound
<1>1. PICK rows \in Kept(n) : Holds(Prefix(log, n) \o ids, rows \o ids)
  BY DEF Regrown
<1>2. /\ rows \in Seq(Row) /\ Len(rows) = n
      /\ Truthful => rows = Prefix(log, n)
  BY KeptType
<1>3. Prefix(log, n) \in Seq(Token) /\ Len(Prefix(log, n)) = n
  BY Types, PrefixIsBeginning
<1>4. Fits(Prefix(log, n) \o ids)
  BY <1>3, ConcatProperties DEF Fits
<1> QED
  BY <1>1, <1>2, <1>3, <1>4, ExtendedLeaves

\* A call that was cut short leaves part of the log or nothing.
LEMMA CutShortLeaves ==
    ASSUME IInv, NEW n \in 0 .. Len(log), CutShort(n)
    PROVE  Sound
BY CutLeaves, DroppedLeaves DEF CutShort

\* The prompt of a turn, over the rows it reused, and ids behind it.
LEMMA StartedLeaves ==
    ASSUME IInv, NEW text \in Seq(Token), NEW ids \in Seq(Token),
           Fits(text \o ids), Started(text, ids)
    PROVE  Sound /\ log' = text \o ids
<1> DEFINE n == Reused(text)
           rows == Prefix(kv, n) \o Suffix(text, n)
<1>1. /\ n \in 0 .. Len(log) /\ n <= Len(text)
      /\ \A i \in 1..n : log[i] = text[i]
  BY Types, ReusedType
<1> HIDE DEF n
<1>2. /\ rows \in Seq(Row) /\ Len(rows) = Len(text)
      /\ Truthful => rows = text
  <2>1. kv \in Seq(Row) /\ text \in Seq(Row) /\ n \in 0 .. Len(kv)
    BY <1>1, Types, Rows
  <2>2. /\ rows \in Seq(Row) /\ Len(rows) = Len(text)
        /\ (\A i \in 1..n : kv[i] = text[i]) => rows = text
    <3>1. \A s, t \in Seq(Row) : \A m \in 0 .. Len(s) : m <= Len(t) =>
             /\ Prefix(s, m) \o Suffix(t, m) \in Seq(Row)
             /\ Len(Prefix(s, m) \o Suffix(t, m)) = Len(t)
             /\ (\A i \in 1..m : s[i] = t[i]) =>
                   Prefix(s, m) \o Suffix(t, m) = t
      BY ONLY Rejoined, Zenon
    <3> QED
      BY ONLY <1>1, <2>1, <3>1, Zenon DEF rows
  <2>3. Truthful => \A i \in 1..n : kv[i] = text[i]
    BY <1>1 DEF Truthful
  <2> QED
    BY <2>2, <2>3
<1>3. text \in Seq(Row)
  BY Rows
<1>4. PICK begun \in {rows, text} : Holds(text \o ids, begun \o ids)
  BY DEF Started, n
<1> HIDE DEF rows
<1>5. begun \in Seq(Row) /\ Len(begun) = Len(text) /\ (Truthful => begun = text)
  BY <1>2, <1>3, <1>4
<1> QED
  BY <1>4, <1>5, ExtendedLeaves DEF Holds

LEMMA NothingBehind ==
    ASSUME NEW text \in Seq(Token)
    PROVE  text \o <<>> = text /\ <<>> \in Seq(Token)
BY ConcatEmptySeq, EmptySeq

\* The log and its rows cut alike.
LEMMA BothCutLeaves ==
    ASSUME IInv, NEW n \in 0 .. Len(log), Holds(Prefix(log, n), Prefix(kv, n))
    PROVE  Sound
<1>1. Prefix(log, n) \in Seq(Token) /\ Len(Prefix(log, n)) = n
  BY Types, PrefixIsBeginning
<1>2. Prefix(kv, n) \in Seq(Row) /\ Len(Prefix(kv, n)) = n
  BY Types, PrefixIsBeginning
<1>3. n <= Capacity
  BY Types, PipelineSizes DEF Fits
<1> QED
  BY <1>1, <1>2, <1>3 DEF Holds, Sound, SessionOK, Truthful, Fits

LEMMA BeginFailsLeaves ==
    ASSUME IInv, NEW text \in Seq(Token), BeginFails(text)
    PROVE  Sound
BY Types, ReusedType, BothCutLeaves, DroppedLeaves DEF BeginFails

LEMMA GeneratedLeaves ==
    ASSUME IInv, NEW text \in Seq(Token), NEW run \in Seq(Token),
           Generated(text, run)
    PROVE  /\ Sound
           /\ \E n \in 0 .. Len(run) : log' = text \o Prefix(run, n)
<1>1. PICK n \in 0 .. Len(run) :
         Fits(text \o Prefix(run, n)) /\ Started(text, Prefix(run, n))
  BY DEF Generated
<1>2. Prefix(run, n) \in Seq(Token)
  BY PrefixIsBeginning
<1> QED
  BY <1>1, <1>2, StartedLeaves


-----------------------------------------------------------------------------
(* Whole-log ops.                                                          *)

LEMMA MarkStep == IInv /\ Mark => IInv' /\ (Truthful => Truthful')
<1> SUFFICES ASSUME IInv, Mark PROVE IInv' /\ (Truthful => Truthful')
  OBVIOUS
<1>1. UNCHANGED <<log, kv, epoch, open, seqs, pending, gap>>
  BY DEF Mark, session, turn
<1>2. held'.epoch = epoch /\ held'.pos = Len(log) /\ held'.log = log /\ loose' = FALSE
  BY DEF Mark
<1>3. Typed'
  <2>1. SessionOK'
    BY <1>1, Types DEF SessionOK, Fits
  <2>2. {seqs, pending, held.log}' \subseteq Seq(Token)
    BY <1>1, <1>2, Types
  <2>3. {epoch, held.epoch, held.pos}' \subseteq Nat
    BY <1>1, <1>2, Types
  <2> QED
    BY <1>1, <1>2, <2>1, <2>2, <2>3, Types, TypesAgain
<1>4. TurnOwnsSession' /\ (Truthful => Truthful')
  BY <1>1 DEF IInv, TurnOwnsSession, Truthful
<1>5. HeldTruthful'
  BY <1>1, <1>2, Types, PrefixReflexive DEF HeldTruthful
<1> QED
  BY <1>3, <1>4, <1>5 DEF IInv

LEMMA ExtendStep ==
    ASSUME NEW ids \in Seq(Token), IInv, Extend(ids)
    PROVE  IInv' /\ (Truthful => Truthful')
<1>1. ~open
  BY DEF Extend, Admitted, Conflicts
<1>2. /\ UNCHANGED <<epoch, open, seqs, pending, gap, held, loose>>
      /\ Holds(log \o ids, kv \o ids) /\ Fits(log \o ids)
  BY DEF Extend, turn, marks
<1>3. Sound
  <2>1. Truthful => kv = log
    BY DEF Truthful
  <2> QED
    BY <1>2, <2>1, Types, ExtendedLeaves
<1>4. Typed'
  BY <1>2, <1>3, Types, TypesAgain DEF Sound
<1>5. TurnOwnsSession'
  BY <1>1, <1>2 DEF IInv, TurnOwnsSession
<1>6. HeldTruthful'
  BY <1>2, Types, PrefixOfLonger DEF Holds, IInv, HeldTruthful
<1> QED
  BY <1>3, <1>4, <1>5, <1>6 DEF IInv, Sound

LEMMA RewindToStep ==
    ASSUME NEW id, id.pos \in Nat, IInv, RewindTo(id)
    PROVE  IInv' /\ (Truthful => Truthful')
<1>1. /\ ~open /\ UNCHANGED turn /\ UNCHANGED marks /\ epoch' = epoch + 1
      /\ Cut(Least(id.pos, Len(log)))
  BY DEF RewindTo, Admitted, Conflicts, Bump
<1>2. Least(id.pos, Len(log)) \in 0 .. Len(log)
  BY Types DEF Least
<1>3. Sound
  BY <1>1, <1>2, CutLeaves
<1> QED
  BY <1>1, <1>3, WholeLogStep DEF Sound

LEMMA RewindToFailsStep ==
    ASSUME NEW id, IInv, RewindToFails(id)
    PROVE  IInv' /\ (Truthful => Truthful')
<1>1. ~open /\ UNCHANGED turn /\ Loosens /\ epoch' = epoch /\ Dropped
  BY DEF RewindToFails, Admitted, Conflicts, Keep
<1> QED
  BY <1>1, DroppedLeaves, WholeLogStep DEF Sound

LEMMA SyntheticFillStep ==
    ASSUME NEW text \in Seq(Token), IInv, SyntheticFill(text)
    PROVE  IInv' /\ (Truthful => Truthful')
<1>1. /\ ~open /\ UNCHANGED turn /\ UNCHANGED marks /\ epoch' = epoch + 1
      /\ Holds(text, text) /\ Fits(text)
  BY DEF SyntheticFill, Admitted, Conflicts, Bump
<1>2. Sound
  BY <1>1, Rows DEF Holds, Sound, SessionOK, Truthful, Fits
<1> QED
  BY <1>1, <1>2, WholeLogStep DEF Sound

LEMMA AlignToStep ==
    ASSUME NEW target \in Seq(Token), IInv, AlignTo(target)
    PROVE  IInv' /\ (Truthful => Truthful')
<1> DEFINE n == Reused(target)
<1>1. ~open /\ UNCHANGED turn
  BY DEF AlignTo, Admitted, Conflicts
<1>2. n \in 0 .. Len(log) /\ n <= Len(target) /\ Len(target) \in Nat
  BY Types, ReusedType, LenProperties
<1>3. CASE Fits(target) /\ Aligned(target) /\ Bump /\ UNCHANGED marks
  <2>1. Suffix(target, n) \in Seq(Token) /\ n + Len(Suffix(target, n)) = Len(target)
    BY <1>2, SuffixType
  <2>2. Sound
    BY <1>2, <1>3, <2>1, RegrownLeaves DEF Aligned, Fits
  <2> QED
    BY <1>1, <1>3, <2>2, WholeLogStep DEF Bump, Sound
<1>4. CASE CutShort(n) /\ Keep /\ Loosens
  <2>1. Sound
    BY <1>2, <1>4, CutShortLeaves
  <2> QED
    BY <1>1, <1>4, <2>1, WholeLogStep DEF Keep, Sound
<1> QED
  BY <1>3, <1>4 DEF AlignTo

LEMMA SpliceStep ==
    ASSUME NEW start \in Nat, NEW end \in Nat, NEW ids \in Seq(Token),
           IInv, Splice(start, end, ids)
    PROVE  IInv' /\ (Truthful => Truthful')
<1> DEFINE tail == ids \o Suffix(log, end)
<1>1. ~open /\ UNCHANGED turn /\ start \in 0 .. Len(log) /\ end \in 0 .. Len(log)
  BY Types DEF Splice, Admitted, Conflicts
<1>2. tail \in Seq(Token)
  BY <1>1, Types, SuffixType, ConcatProperties
<1>3. \/ start + Len(tail) <= Capacity /\ Regrown(start, tail) /\ Bump /\ UNCHANGED marks
      \/ CutShort(start) /\ Keep /\ Loosens
  BY DEF Splice
<1> HIDE DEF tail
<1>4. CASE start + Len(tail) <= Capacity /\ Regrown(start, tail) /\ Bump /\ UNCHANGED marks
  <2>1. Sound
    BY <1>1, <1>2, <1>4, RegrownLeaves
  <2> QED
    BY <1>1, <1>4, <2>1, WholeLogStep DEF Bump, Sound
<1>5. CASE CutShort(start) /\ Keep /\ Loosens
  <2>1. Sound
    BY <1>1, <1>5, CutShortLeaves
  <2> QED
    BY <1>1, <1>5, <2>1, WholeLogStep DEF Keep, Sound
<1> QED
  BY <1>3, <1>4, <1>5

\* The rows of another text are rows.
LEMMA ForeignType ==
    ASSUME NEW l \in Seq(Token), NEW m \in Nat
    PROVE  Foreign(l, m) \in Seq(Row) /\ Len(Foreign(l, m)) = Len(l)
<1>1. Len(l) \in Nat /\ \A i \in 1 .. Len(l) : l[i] \in Token
  BY LenProperties, ElementOfSeq
<1>2. \A i \in 1 .. Len(l) : (IF i < m THEN l[i] ELSE Junk) \in Row
  BY <1>1 DEF Row
<1> QED
  BY <1>1, <1>2 DEF Foreign

\* Activate may restore rows of another text: only the types are kept.
LEMMA ActivateStep ==
    ASSUME NEW text \in Seq(Token), IInv, Activate(text)
    PROVE  IInv'
<1>1. ~open /\ UNCHANGED turn /\ epoch' = epoch + 1
  BY DEF Activate, Admitted, Conflicts, Bump
<1>2. CASE Cut(Reused(text)) /\ UNCHANGED marks
  <2>1. Sound
    BY <1>2, Types, ReusedType, CutLeaves
  <2> QED
    BY <1>1, <1>2, <2>1, WholeLogStep DEF Sound
<1>3. ASSUME NEW n \in 0 .. Least(Len(text), Capacity),
             NEW m \in 1 .. Len(text) + 1,
             Holds(Prefix(text, n), Foreign(Prefix(text, n), m)), UNCHANGED marks
      PROVE  IInv'
  <2>1. n \in 0 .. Len(text) /\ n <= Capacity /\ m \in Nat
    BY LenProperties, PipelineSizes DEF Least
  <2>2. Prefix(text, n) \in Seq(Token) /\ Len(Prefix(text, n)) = n
    BY <2>1, PrefixIsBeginning
  <2>3. SessionOK'
    BY <1>3, <2>1, <2>2, ForeignType DEF Holds, SessionOK, Fits
  <2> QED
    BY <1>1, <1>3, <2>3, WholeLogStep
<1>4. CASE Dropped /\ Loosens
  BY <1>1, <1>4, DroppedLeaves, WholeLogStep DEF Sound
<1> QED
  BY <1>2, <1>3, <1>4 DEF Activate

LEMMA FinalizeStep ==
    ASSUME NEW canonical \in Seq(Token), IInv, Finalize(canonical)
    PROVE  IInv' /\ (Truthful => Truthful')
<1> DEFINE n   == Reused(canonical)
           c   == Least(Len(canonical), Capacity)
           fit == Prefix(canonical, c)
<1>1. ~open /\ UNCHANGED turn
  BY DEF Finalize, Admitted, Conflicts
<1>2. /\ n \in 0 .. Len(log) /\ n <= Len(canonical) /\ n \in 0 .. Len(kv)
      /\ \A i \in 1..n : log[i] = canonical[i]
  BY Types, ReusedType
<1>3. c \in 0 .. Len(canonical) /\ c <= Capacity /\ n <= c
  BY <1>2, Types, PipelineSizes, LenProperties DEF Least, Fits
<1>4. /\ fit \in Seq(Token) /\ Len(fit) = c /\ Fits(fit) /\ fit \in Seq(Row)
      /\ \A i \in 1..c : fit[i] = canonical[i]
  BY <1>3, PrefixIsBeginning, Rows DEF Fits, IsPrefixOf
<1>5. \/ Holds(fit, Prefix(kv, n) \o Suffix(fit, n)) /\ Bump /\ UNCHANGED marks
      \/ Dropped /\ Bump /\ UNCHANGED marks
      \/ Holds(Prefix(log, n), Prefix(kv, n)) /\ Keep /\ Loosens
  BY DEF Finalize
<1> HIDE DEF n, c, fit
<1>6. CASE Holds(fit, Prefix(kv, n) \o Suffix(fit, n)) /\ Bump /\ UNCHANGED marks
  <2>1. Sound
    <3>1. /\ Prefix(kv, n) \o Suffix(fit, n) \in Seq(Row)
          /\ Len(Prefix(kv, n) \o Suffix(fit, n)) = Len(fit)
          /\ (\A i \in 1..n : kv[i] = fit[i]) =>
                Prefix(kv, n) \o Suffix(fit, n) = fit
      <4>1. \A s, t \in Seq(Row) : \A m \in 0 .. Len(s) : m <= Len(t) =>
               /\ Prefix(s, m) \o Suffix(t, m) \in Seq(Row)
               /\ Len(Prefix(s, m) \o Suffix(t, m)) = Len(t)
               /\ (\A i \in 1..m : s[i] = t[i]) =>
                     Prefix(s, m) \o Suffix(t, m) = t
        BY ONLY Rejoined, Zenon
      <4>2. kv \in Seq(Row) /\ n <= Len(fit)
        BY <1>3, <1>4, Types
      <4> QED
        BY ONLY <1>2, <1>4, <4>1, <4>2, Zenon
    <3>2. Truthful => \A i \in 1..n : kv[i] = fit[i]
      <4>1. \A i \in 1..n : i \in 1..c
        BY <1>2, <1>3, Types
      <4> QED
        BY <1>2, <1>4, <4>1 DEF Truthful
    <3> DEFINE rows == Prefix(kv, n) \o Suffix(fit, n)
    <3>3. log' = fit /\ kv' = rows
      BY <1>6 DEF Holds
    <3>4. rows \in Seq(Row) /\ Len(rows) = Len(fit) /\ (Truthful => rows = fit)
      BY <3>1, <3>2, Zenon
    <3> HIDE DEF rows
    <3> QED
      BY <1>4, <3>3, <3>4 DEF Sound, SessionOK, Truthful, Fits
  <2> QED
    BY <1>1, <1>6, <2>1, WholeLogStep DEF Bump, Sound
<1>7. CASE Dropped /\ Bump /\ UNCHANGED marks
  BY <1>1, <1>7, DroppedLeaves, WholeLogStep DEF Bump, Sound
<1>8. CASE Holds(Prefix(log, n), Prefix(kv, n)) /\ Keep /\ Loosens
  <2>1. Sound
    BY <1>2, <1>8, BothCutLeaves
  <2> QED
    BY <1>1, <1>8, <2>1, WholeLogStep DEF Keep, Sound
<1> QED
  BY <1>5, <1>6, <1>7, <1>8

-----------------------------------------------------------------------------
(* Turns.                                                                  *)

LEMMA GeneratesStep ==
    ASSUME NEW text \in Seq(Token), NEW run \in Seq(Token),
           IInv, Generates(text, run)
    PROVE  IInv' /\ (Truthful => Truthful')
<1>1. /\ ~open /\ UNCHANGED turn /\ Loosens /\ epoch' = epoch
      /\ Generated(text, run)
  BY DEF Generates, Admitted, Conflicts
<1>2. Sound
  BY <1>1, GeneratedLeaves
<1> QED
  BY <1>1, <1>2, WholeLogStep DEF Sound

LEMMA GenerateFailsStep ==
    ASSUME NEW text \in Seq(Token), IInv, GenerateFails(text)
    PROVE  IInv' /\ (Truthful => Truthful')
<1>1. ~open /\ UNCHANGED turn /\ Loosens /\ epoch' = epoch
  BY DEF GenerateFails, Admitted, Conflicts
<1>2. Sound
  <2>1. CASE BeginFails(text)
    BY <2>1, BeginFailsLeaves
  <2>2. ASSUME NEW run \in Runs, Generated(text, run) PROVE Sound
    <3>1. run \in Seq(Token)
      BY PipelineSizes
    <3> QED
      BY <2>2, <3>1, GeneratedLeaves
  <2> QED
    BY <2>1, <2>2 DEF GenerateFails
<1> QED
  BY <1>1, <1>2, WholeLogStep DEF Sound

LEMMA ScoreStep ==
    ASSUME NEW text \in Seq(Token), IInv, Score(text)
    PROVE  IInv' /\ (Truthful => Truthful')
<1>1. ~open /\ UNCHANGED turn /\ Loosens /\ epoch' = epoch /\ Fits(text)
  BY DEF Score, Admitted, Conflicts
<1>2. CASE Started(text, <<>>)
  <2>1. Sound
    BY <1>1, <1>2, NothingBehind, StartedLeaves
  <2> QED
    BY <1>1, <2>1, WholeLogStep DEF Sound
<1>3. CASE BeginFails(text)
  <2>1. Sound
    BY <1>3, BeginFailsLeaves
  <2> QED
    BY <1>1, <2>1, WholeLogStep DEF Sound
<1> QED
  BY <1>2, <1>3 DEF Score

LEMMA BeginTurnStep ==
    ASSUME NEW text \in Seq(Token), IInv, BeginTurn(text)
    PROVE  IInv' /\ (Truthful => Truthful')
<1>1. ~open /\ Loosens /\ epoch' = epoch /\ pending' = pending /\ Fits(text)
  BY DEF BeginTurn, Admitted, Conflicts
<1>2. CASE Started(text, <<>>) /\ open' = TRUE /\ seqs' = text /\ gap' = "none"
  <2>1. Sound /\ log' = text
    BY <1>1, <1>2, NothingBehind, StartedLeaves
  <2>2. held' = held /\ loose' = TRUE
    BY <1>1 DEF Loosens
  <2>3. Typed'
    <3>1. {seqs, pending, held.log}' \subseteq Seq(Token)
      BY <1>1, <1>2, <2>2, Types
    <3>2. {epoch, held.epoch, held.pos}' \subseteq Nat
      BY <1>1, <2>2, Types
    <3> QED
      BY <1>2, <2>1, <2>2, <3>1, <3>2, TypesAgain DEF Sound
  <2>4. TurnOwnsSession'
    BY <1>2, <2>1, LenProperties DEF TurnOwnsSession
  <2>5. HeldTruthful'
    BY <1>1, <2>2 DEF IInv, HeldTruthful
  <2> QED
    BY <2>1, <2>3, <2>4, <2>5 DEF IInv, Sound
<1>3. CASE BeginFails(text) /\ UNCHANGED <<open, seqs, gap>>
  <2>1. Sound /\ UNCHANGED turn
    BY <1>1, <1>3, BeginFailsLeaves DEF turn
  <2> QED
    BY <1>1, <2>1, WholeLogStep DEF Sound
<1> QED
  BY <1>2, <1>3 DEF BeginTurn

LEMMA ProposeBlockStep ==
    ASSUME NEW ids \in Seq(Token), IInv, ProposeBlock(ids)
    PROVE  IInv' /\ (Truthful => Truthful')
<1>1. /\ open /\ pending' = ids
      /\ UNCHANGED <<log, kv, epoch, open, seqs, gap, held, loose>>
  BY DEF ProposeBlock, session, marks
<1>2. Typed'
  BY <1>1, Types DEF Typed, TypeOK, Fits
<1> QED
  BY <1>1, <1>2 DEF IInv, Truthful, TurnOwnsSession, HeldTruthful

\* A turn that appends ids to its sequences, none, some, or all of them behind
\* what is already in the log.
LEMMA TurnGrows ==
    ASSUME IInv, open, NEW ids \in Seq(Token), Len(ids) = 0 => gap' = gap,
           pending' = <<>>, seqs' = seqs \o ids,
           \/ log' = log \o ids /\ gap' = Jumped
           \/ log' = log /\ gap' = (IF Len(ids) > 0 THEN LeftOut ELSE gap)
    PROVE  TurnOwnsSession' /\ gap' \in {"none", "left", "jumped"}
<1>1. /\ gap = "none" => log = seqs
      /\ gap = "left" => IsPrefixOf(log, seqs)
      /\ Len(log) <= Len(seqs)
  BY DEF IInv, TurnOwnsSession
<1>2. /\ log \o ids \in Seq(Token) /\ Len(log \o ids) = Len(log) + Len(ids)
      /\ seqs \o ids \in Seq(Token) /\ Len(seqs \o ids) = Len(seqs) + Len(ids)
      /\ Len(log) \in Nat /\ Len(seqs) \in Nat /\ Len(ids) \in Nat
  BY Types, ConcatProperties, LenProperties
<1>3. Len(ids) = 0 => seqs \o ids = seqs
  BY Types, ConcatEmptySeq, EmptySeq
<1>4. gap' \in {"none", "left", "jumped"}
  BY Types DEF Jumped, LeftOut
<1>5. Len(log') <= Len(seqs')
  BY <1>1, <1>2
<1>6. gap' = "none" => log' = seqs'
  <2>1. CASE log' = log \o ids /\ gap' = Jumped
    BY <1>1, <2>1 DEF Jumped
  <2>2. CASE log' = log /\ gap' = (IF Len(ids) > 0 THEN LeftOut ELSE gap)
    BY <1>1, <1>2, <1>3, <2>2, Types DEF LeftOut
  <2> QED
    BY <2>1, <2>2
<1>7. gap' = "left" => IsPrefixOf(log', seqs')
  <2>1. CASE log' = log \o ids /\ gap' = Jumped
    BY <2>1 DEF Jumped
  <2>2. CASE log' = log /\ gap' = (IF Len(ids) > 0 THEN LeftOut ELSE gap)
    <3>1. ASSUME gap' = "left" PROVE gap \in {"none", "left"}
      BY <2>2, <3>1, Types DEF LeftOut
    <3>2. gap \in {"none", "left"} => IsPrefixOf(log, seqs)
      BY <1>1, Types, PrefixReflexive
    <3>3. IsPrefixOf(log, seqs) => IsPrefixOf(log, seqs \o ids)
      BY Types, PrefixOfLonger
    <3>4. log' = log /\ seqs' = seqs \o ids
      BY <2>2
    <3>5. IsPrefixOf(log', seqs') <=> IsPrefixOf(log, seqs \o ids)
      BY <3>4
    <3> QED
      BY <3>1, <3>2, <3>3, <3>5
  <2> QED
    BY <2>1, <2>2
<1> QED
  BY <1>4, <1>5, <1>6, <1>7 DEF TurnOwnsSession, IsPrefixOf

LEMMA CommitBlockStep ==
    ASSUME NEW kept \in 0 .. Len(pending), NEW extend \in BOOLEAN,
           IInv, CommitBlock(kept, extend)
    PROVE  IInv' /\ (Truthful => Truthful')
<1> DEFINE ids == Prefix(pending, kept)
<1>1. ids \in Seq(Token) /\ Len(ids) = kept /\ seqs \o ids \in Seq(Token)
      /\ kept \in Nat
  BY Types, PrefixIsBeginning, ConcatProperties, LenProperties
<1>2. /\ open /\ seqs' = seqs \o ids /\ pending' = <<>> /\ open' = open
      /\ UNCHANGED <<epoch, open, held, loose>>
  BY DEF CommitBlock, marks
<1>3. \/ /\ kept > 0 /\ Fits(kv \o ids) /\ Holds(log \o ids, kv \o ids)
         /\ gap' = Jumped
      \/ /\ UNCHANGED <<log, kv>>
         /\ gap' = (IF kept > 0 THEN LeftOut ELSE gap)
  BY Zenon DEF CommitBlock, session
<1> HIDE DEF ids
<1>4. Sound /\ log' \in {log, log \o ids}
  <2>1. CASE Fits(kv \o ids) /\ Holds(log \o ids, kv \o ids)
    <3>1. Fits(log \o ids)
      <4>1. Len(kv \o ids) = Len(kv) + Len(ids)
        BY <1>1, Rows, Types, ConcatProperties
      <4>2. Len(log \o ids) = Len(log) + Len(ids)
        BY <1>1, Types, ConcatProperties
      <4>3. Len(kv) = Len(log)
        BY Types
      <4> QED
        BY <2>1, <4>1, <4>2, <4>3 DEF Fits
    <3>2. Truthful => kv = log
      BY DEF Truthful
    <3>3. Sound
      BY <1>1, <2>1, <3>1, <3>2, Types, ExtendedLeaves
    <3> QED
      BY <2>1, <3>3 DEF Holds
  <2>2. CASE UNCHANGED <<log, kv>>
    BY <2>2, Types DEF Sound, SessionOK, Truthful, Fits
  <2> QED
    BY <1>3, <2>1, <2>2
<1>5. TurnOwnsSession' /\ gap' \in {"none", "left", "jumped"}
  <2>1. \/ log' = log \o ids /\ gap' = Jumped
        \/ log' = log /\ gap' = (IF Len(ids) > 0 THEN LeftOut ELSE gap)
    BY <1>1, <1>3 DEF Holds
  <2>2. Len(ids) = 0 => gap' = gap
    BY <1>1, <1>3
  <2>3. open /\ pending' = <<>> /\ seqs' = seqs \o ids
    BY <1>2
  <2> QED
    BY ONLY IInv, <1>1, <2>1, <2>2, <2>3, TurnGrows, Zenon
<1>6. Typed'
  <2>1. {seqs, pending, held.log}' \subseteq Seq(Token)
    BY <1>1, <1>2, Types, EmptySeq
  <2>2. {epoch, held.epoch, held.pos}' \subseteq Nat
    BY <1>2, Types
  <2>3. open' \in BOOLEAN /\ loose' \in BOOLEAN
    BY <1>2, Types, Zenon
  <2> QED
    BY <1>4, <1>5, <2>1, <2>2, <2>3, TypesAgain DEF Sound
<1>7. HeldTruthful'
  <2>1. held.epoch <= epoch /\ held.pos = Len(held.log)
        /\ (~loose /\ held.epoch = epoch => IsPrefixOf(held.log, log))
    BY DEF IInv, HeldTruthful
  <2>2. IsPrefixOf(held.log, log) => IsPrefixOf(held.log, log')
    <3>1. CASE log' = log
      BY <3>1
    <3>2. CASE log' = log \o ids
      <4>1. IsPrefixOf(held.log, log) => IsPrefixOf(held.log, log \o ids)
        BY <1>1, Types, PrefixOfLonger
      <4> QED
        BY <3>2, <4>1
    <3> QED
      BY <1>4, <3>1, <3>2
  <2> QED
    BY <1>2, <2>1, <2>2 DEF HeldTruthful, IsPrefixOf
<1> QED
  BY <1>4, <1>5, <1>6, <1>7 DEF IInv, Sound

LEMMA DiscardBlockStep == IInv /\ DiscardBlock => IInv' /\ (Truthful => Truthful')
<1> SUFFICES ASSUME IInv, DiscardBlock PROVE IInv' /\ (Truthful => Truthful')
  OBVIOUS
<1>1. pending' = <<>> /\ UNCHANGED <<log, kv, epoch, open, seqs, gap, held, loose>>
  BY DEF DiscardBlock, session, marks
<1>2. Typed'
  BY <1>1, Types, EmptySeq DEF Typed, TypeOK, Fits
<1> QED
  BY <1>1, <1>2 DEF IInv, Truthful, TurnOwnsSession, HeldTruthful

\* The log becomes what the turn recorded: the same log, unless the turn had
\* jumped a gap.
LEMMA EndTurnStep ==
    IInv /\ EndTurn => IInv' /\ (Truthful /\ gap # "jumped" => Truthful')
<1> SUFFICES ASSUME IInv, EndTurn
             PROVE  IInv' /\ (Truthful /\ gap # "jumped" => Truthful')
  OBVIOUS
<1>1. /\ open /\ pending = <<>> /\ open' = FALSE /\ seqs' = <<>> /\ gap' = "none"
      /\ log' = Prefix(seqs, Least(Len(kv), Len(seqs)))
      /\ loose' = (loose \/ gap = "jumped")
      /\ UNCHANGED <<kv, epoch, pending, held>>
  BY DEF EndTurn, Records
<1>2. /\ gap = "none" => log = seqs
      /\ gap = "left" => IsPrefixOf(log, seqs)
      /\ Len(log) <= Len(seqs)
  BY <1>1 DEF IInv, TurnOwnsSession
<1>3. Least(Len(kv), Len(seqs)) = Len(log) /\ Len(log) \in 0 .. Len(seqs)
  BY <1>2, Types, LenProperties DEF Least
<1>4. log' \in Seq(Token) /\ Len(log') = Len(log)
  BY <1>1, <1>3, Types, PrefixIsBeginning
<1>5. ASSUME gap # "jumped" PROVE log' = log
  <2>1. IsPrefixOf(log, seqs)
    BY <1>2, <1>5, Types, PrefixReflexive
  <2>2. Prefix(seqs, Len(log)) = log
    BY <2>1, Types, PrefixUnique
  <2> QED
    BY <1>1, <1>3, <2>2
<1>6. Typed'
  <2>1. SessionOK'
    BY <1>1, <1>4, Types DEF SessionOK, Fits
  <2>2. {seqs, pending, held.log}' \subseteq Seq(Token)
    BY <1>1, Types, EmptySeq
  <2>3. {epoch, held.epoch, held.pos}' \subseteq Nat
    BY <1>1, Types
  <2>4. loose' \in BOOLEAN /\ open' \in BOOLEAN
    BY <1>1, Zenon
  <2> QED
    BY <1>1, <2>1, <2>2, <2>3, <2>4, TypesAgain
<1>7. TurnOwnsSession'
  BY <1>1 DEF TurnOwnsSession
<1>8. HeldTruthful'
  <2>1. held.epoch <= epoch /\ held.pos = Len(held.log)
        /\ (~loose /\ held.epoch = epoch => IsPrefixOf(held.log, log))
    BY DEF IInv, HeldTruthful
  <2>2. ASSUME ~loose' PROVE ~loose /\ log' = log
    BY <1>1, <1>5, <2>2, Types
  <2> QED
    BY <1>1, <2>1, <2>2 DEF HeldTruthful, IsPrefixOf
<1>9. Truthful /\ gap # "jumped" => Truthful'
  BY <1>1, <1>5 DEF Truthful
<1> QED
  BY <1>6, <1>7, <1>8, <1>9 DEF IInv

LEMMA StutterStep == IInv /\ UNCHANGED vars => IInv' /\ (Truthful => Truthful')
BY DEF vars, IInv, Typed, TypeOK, Truthful, TurnOwnsSession, HeldTruthful, Fits

LEMMA InitIInv == Init => IInv
<1> SUFFICES ASSUME Init PROVE IInv
  OBVIOUS
<1>1. /\ log = <<>> /\ kv = <<>> /\ seqs = <<>> /\ pending = <<>>
      /\ epoch = 0 /\ open = FALSE /\ gap = "none" /\ loose = FALSE
  BY DEF Init
<1>2. held.epoch = 0 /\ held.pos = 0 /\ held.log = <<>>
  BY DEF Init
<1>3. <<>> \in Seq(Token) /\ <<>> \in Seq(Row) /\ Len(<<>>) = 0 /\ Fits(<<>>)
  BY EmptySeq, PipelineSizes DEF Fits
<1>4. Typed
  <2>1. {log, seqs, pending, held.log} \subseteq Seq(Token)
    BY <1>1, <1>2, <1>3
  <2>2. {epoch, held.epoch, held.pos} \subseteq Nat
    BY <1>1, <1>2
  <2> QED
    BY <1>1, <1>3, <2>1, <2>2 DEF Typed, TypeOK
<1>5. HeldTruthful
  <2>1. IsPrefixOf(held.log, log)
    BY <1>1, <1>2, <1>3, PrefixReflexive
  <2> QED
    BY <1>1, <1>2, <1>3, <2>1 DEF HeldTruthful
<1> QED
  BY <1>1, <1>4, <1>5 DEF IInv, TurnOwnsSession

-----------------------------------------------------------------------------
(* Every step keeps the invariant.                                         *)

\* The steps that may leave a log over another text's rows.
Renames == (\E text \in Texts : Activate(text)) \/ (EndTurn /\ gap = "jumped")

LEMMA LogOpStep == IInv /\ LogOp => IInv' /\ (Truthful => Truthful' \/ Renames)
<1> SUFFICES ASSUME IInv, LogOp PROVE IInv' /\ (Truthful => Truthful' \/ Renames)
  OBVIOUS
<1>1. /\ \A text \in Texts : text \in Seq(Token)
      /\ \A ids \in Runs \cup {<<>>} : ids \in Seq(Token)
  BY PipelineSizes, EmptySeq, Zenon
<1> DEFINE Done == IInv' /\ (Truthful => Truthful' \/ Renames)
<1>2. CASE Mark
  BY <1>2, MarkStep
<1>3. CASE RewindOk
  BY <1>3, Types, RewindToStep DEF RewindOk
<1>4. CASE RewindFails
  BY <1>4, RewindToFailsStep DEF RewindFails
<1>5. ASSUME NEW ids \in Runs, Extend(ids) PROVE Done
  BY <1>1, <1>5, ExtendStep
<1>6. ASSUME NEW text \in Texts, SyntheticFill(text) \/ AlignTo(text) \/ Finalize(text)
      PROVE  Done
  BY <1>1, <1>6, SyntheticFillStep, AlignToStep, FinalizeStep
<1>7. ASSUME NEW text \in Texts, Activate(text) PROVE Done
  BY <1>1, <1>7, ActivateStep DEF Renames
<1>8. ASSUME NEW start \in 0 .. Capacity, NEW end \in 0 .. Capacity,
             NEW ids \in Runs \cup {<<>>}, Splice(start, end, ids)
      PROVE  Done
  <2>1. start \in Nat /\ end \in Nat
    BY PipelineSizes
  <2> QED
    BY <1>1, <1>8, <2>1, SpliceStep
<1> QED
  BY <1>2, <1>3, <1>4, <1>5, <1>6, <1>7, <1>8 DEF LogOp

LEMMA TurnOpStep == IInv /\ TurnOp => IInv' /\ (Truthful => Truthful' \/ Renames)
<1> SUFFICES ASSUME IInv, TurnOp PROVE IInv' /\ (Truthful => Truthful' \/ Renames)
  OBVIOUS
<1> DEFINE Done == IInv' /\ (Truthful => Truthful' \/ Renames)
<1>1. /\ \A text \in Texts : text \in Seq(Token)
      /\ \A ids \in Runs : ids \in Seq(Token)
  BY PipelineSizes
<1>2. ASSUME NEW text \in Texts, Generate(text) PROVE Done
  BY <1>1, <1>2, GeneratesStep, GenerateFailsStep DEF Generate
<1>3. ASSUME NEW text \in Texts, Score(text) \/ BeginTurn(text) PROVE Done
  BY <1>1, <1>3, ScoreStep, BeginTurnStep
<1>4. ASSUME NEW ids \in Runs, ProposeBlock(ids) PROVE Done
  BY <1>1, <1>4, ProposeBlockStep
<1>5. ASSUME NEW extend \in BOOLEAN, NEW kept \in 0 .. Len(pending),
             CommitBlock(kept, extend)
      PROVE  Done
  BY <1>5, CommitBlockStep
<1>6. CASE DiscardBlock
  BY <1>6, DiscardBlockStep
<1>7. CASE EndTurn
  BY <1>7, EndTurnStep DEF Renames
<1> QED
  BY <1>2, <1>3, <1>4, <1>5, <1>6, <1>7 DEF TurnOp

LEMMA PipelineStep ==
    IInv /\ [Next]_vars => IInv' /\ (Truthful => Truthful' \/ Renames)
BY LogOpStep, TurnOpStep, StutterStep DEF Next

\* The inductive invariant, whatever an Activate restores and a commit jumps:
\* a row per token of the log and no more than fit, an open turn's sequences
\* behind the log, and an id of the current epoch names a beginning of the log
\* unless loose.
THEOREM PipelineInvariant == Spec => []IInv
BY PipelineStep, InitIInv, PTL DEF Spec

\* Whatever the ops and their failures, a log (kv_valid_tokens, which the next
\* begin_turn compares with) that names the tokens the cache was computed from
\* goes on naming them, but for a restored blob and a turn that jumped a gap.
THEOREM LogAlwaysTruthful == Spec => LogStaysTruthful
<1>1. IInv /\ [Next]_vars =>
         [Truthful => \/ Truthful'
                      \/ \E text \in Texts : Activate(text)
                      \/ EndTurn /\ gap = "jumped"]_vars
  BY PipelineStep DEF Renames
<1> QED
  BY <1>1, PipelineInvariant, PTL DEF Spec, LogStaysTruthful

\* While a turn is open the session's log is the turn's own sequence until a
\* commit left a gap, its beginning until one extended behind the gap, and never
\* longer; no proposal outlives its turn.
THEOREM TurnAlwaysOwnsSession == Spec => []TurnOwnsSession
<1>1. IInv => TurnOwnsSession
  BY DEF IInv
<1> QED
  BY <1>1, PipelineInvariant, PTL

\* An id that the epoch check accepts and nothing loosened names the beginning
\* of the log the rewind leaves.
LEMMA RewindOkLands == IInv => (RewindOk /\ ~loose => log' = held.log)
<1> SUFFICES ASSUME IInv, RewindOk, ~loose PROVE log' = held.log
  OBVIOUS
<1>1. held.epoch = epoch /\ Cut(Least(held.pos, Len(log)))
  BY DEF RewindOk, RewindTo
<1>2. held.pos = Len(held.log) /\ IsPrefixOf(held.log, log)
  BY <1>1 DEF IInv, HeldTruthful
<1>3. Least(held.pos, Len(log)) = Len(held.log)
  BY <1>2, Types, LenProperties DEF Least, IsPrefixOf
<1>4. log' = Prefix(log, Len(held.log))
  BY <1>1, <1>3 DEF Cut, Holds
<1> QED
  BY <1>2, <1>4, Types, PrefixUnique

\* An id accepted by the epoch check alone (runner.rs, rewind_to) rewinds to the
\* very log it was issued for, when no turn op ran and no op failed since.
THEOREM RewindAlwaysLands == Spec => RewindLandsUnlessLoose
BY RewindOkLands, PipelineInvariant, PTL DEF RewindLandsUnlessLoose

-----------------------------------------------------------------------------
(* The stages on top of it (PipelineStages).                               *)

Stages == {"idle", "generate", "repair", "unwind", "rewind", "leave"}

\* The types, and what is only set while a call runs.
StackTypes ==
    /\ StackTypeOK
    /\ {vmark.pos, rmark.pos, smark.pos} \subseteq Nat
    /\ at = "idle" => vmark.epoch = 0 /\ rmark.epoch = 0 /\ smark.epoch = 0
    /\ at # "idle" => ~open

\* A bracket's mark lies where the call began, or before.
Bracketed ==
    /\ at # "idle" => vmark.pos <= Len(before)
    /\ at \in {"generate", "repair", "unwind"} => rmark.pos <= Len(before)

\* What the log holds of the prompt and the reply at every op.
Clean ==
    /\ at = "repair" => IsPrefixOf(log, prompt \o reply)
    /\ at = "unwind" => fixed # <<>> /\ IsPrefixOf(prompt, log)
    /\ at \in {"rewind", "leave"} /\ ~failed /\ Len(before) <= Len(prompt)
       => IsPrefixOf(log, prompt \o reply)

\* A prompt that continues the log keeps it: at every op it lies beneath whatever
\* the call left on it, unless the session was reset.
Beneath ==
    at # "idle" /\ IsPrefixOf(before, prompt)
    => /\ log = <<>> \/ IsPrefixOf(before, log)
       /\ at = "generate" => log \in {before, <<>>}
       /\ vmark.pos \in {0, Len(before)} /\ smark.pos = Len(before)

\* Until a stage stepped in, the outermost mark is good for a rewind.
Restorable ==
    at # "idle" /\ fixed = <<>> /\ ~retried /\ IsPrefixOf(before, prompt)
    => smark.epoch = epoch

StackIInv == IInv /\ StackTypes /\ Bracketed /\ Clean /\ Beneath /\ Restorable

-----------------------------------------------------------------------------
(* Sequences and ops.                                                      *)

LEMMA PrefixTransitive ==
    ASSUME NEW s \in Seq(Token), NEW t \in Seq(Token), NEW u \in Seq(Token),
           IsPrefixOf(s, t), IsPrefixOf(t, u)
    PROVE  IsPrefixOf(s, u)
BY LenProperties DEF IsPrefixOf

\* The whole log is reused by a prompt that continues it.
LEMMA ReusedWhole ==
    ASSUME NEW t \in Seq(Token), log \in Seq(Token), IsPrefixOf(log, t)
    PROVE  Prefix(log, Reused(t)) = log
<1> DEFINE L == Least(Len(log), Len(t))
           Common(n) == /\ \A i \in 1..n : log[i] = t[i]
                        /\ n < L => log[n + 1] # t[n + 1]
<1>1. Len(log) \in Nat /\ Len(t) \in Nat /\ Len(log) <= Len(t)
      /\ \A i \in 1 .. Len(log) : log[i] = t[i]
  BY LenProperties DEF IsPrefixOf
<1>2. L = Len(log)
  BY <1>1 DEF Least
<1> HIDE DEF L
<1>3. L \in 0..L /\ Common(L)
  BY <1>1, <1>2
<1>4. Reused(t) = CHOOSE n \in 0..L : Common(n)
  BY DEF Reused, L
<1>5. Reused(t) \in 0..L /\ Common(Reused(t))
  <2> HIDE DEF Common
  <2> QED
    BY <1>3, <1>4
<1>6. Reused(t) = Len(log)
  BY <1>1, <1>2, <1>5
<1> QED
  BY <1>6, PrefixReflexive, PrefixUnique

\* What a Generate leaves: the prompt and a beginning of the reply.
LEMMA GeneratesLeaves ==
    ASSUME NEW text \in Seq(Token), NEW new \in Seq(Token), IInv, Generates(text, new)
    PROVE  /\ IInv' /\ log' \in Seq(Token) /\ epoch' = epoch /\ open' = open
           /\ IsPrefixOf(text, log') /\ IsPrefixOf(log', text \o new)
<1>1. IInv' /\ epoch' = epoch /\ open' = open
  BY GeneratesStep DEF Generates, turn
<1>2. PICK n \in 0 .. Len(new) : log' = text \o Prefix(new, n)
  BY GeneratedLeaves DEF Generates
<1>3. /\ Prefix(new, n) \in Seq(Token) /\ Len(Prefix(new, n)) = n
      /\ n \in Nat /\ n <= Len(new) /\ \A i \in 1..n : Prefix(new, n)[i] = new[i]
  BY PrefixIsBeginning, LenProperties DEF IsPrefixOf
<1>4. log' \in Seq(Token) /\ IsPrefixOf(text, log')
  BY <1>2, <1>3, PrefixReflexive, PrefixOfLonger
<1>5. IsPrefixOf(log', text \o new)
  <2>1. /\ Len(log') = Len(text) + n /\ Len(text \o new) = Len(text) + Len(new)
        /\ Len(text) \in Nat /\ Len(new) \in Nat
    <3>1. Len(text \o Prefix(new, n)) = Len(text) + Len(Prefix(new, n))
      BY <1>3, ConcatProperties
    <3>2. Len(text \o new) = Len(text) + Len(new)
      BY ConcatProperties
    <3> QED
      BY <1>2, <1>3, <3>1, <3>2, LenProperties
  <2>2. ASSUME NEW i \in 1 .. Len(log') PROVE log'[i] = (text \o new)[i]
    <3>1. CASE i <= Len(text)
      BY <1>2, <1>3, <2>1, <3>1, ConcatProperties
    <3>2. CASE i > Len(text)
      <4>1. i - Len(text) \in 1..n
        BY <2>1, <3>2
      <4>2. log'[i] = Prefix(new, n)[i - Len(text)]
        BY <1>2, <1>3, <2>1, <3>2, ConcatProperties
      <4>3. (text \o new)[i] = new[i - Len(text)]
        BY <1>3, <2>1, <3>2, ConcatProperties
      <4> QED
        BY <1>3, <4>1, <4>2, <4>3
    <3> QED
      BY <2>1, <3>1, <3>2
  <2> QED
    BY <1>3, <2>1, <2>2 DEF IsPrefixOf
<1> QED
  BY <1>1, <1>4, <1>5

\* A failed Generate that continues the log costs nothing, all of the log, or
\* leaves the prompt and what a later block had extended.
LEMMA GenerateFailsLeaves ==
    ASSUME NEW text \in Seq(Token), IInv, GenerateFails(text), IsPrefixOf(log, text)
    PROVE  log' \in Seq(Token) /\ (log' \in {log, <<>>} \/ IsPrefixOf(text, log'))
<1>1. CASE BeginFails(text)
  BY <1>1, Types, EmptySeq, ReusedWhole DEF BeginFails, Holds, Dropped
<1>2. ASSUME NEW new \in Runs, Generated(text, new)
      PROVE  log' \in Seq(Token) /\ IsPrefixOf(text, log')
  <2>1. new \in Seq(Token)
    BY PipelineSizes
  <2>2. PICK n \in 0 .. Len(new) : log' = text \o Prefix(new, n)
    BY <1>2, <2>1, GeneratedLeaves
  <2>3. Prefix(new, n) \in Seq(Token)
    BY <2>1, PrefixIsBeginning
  <2> QED
    BY <2>2, <2>3, PrefixReflexive, PrefixOfLonger
<1> QED
  BY <1>1, <1>2 DEF GenerateFails

LEMMA RewindLeaves ==
    ASSUME NEW id, id.pos \in Nat, IInv, RewindTo(id)
    PROVE  /\ IInv' /\ log' \in Seq(Token) /\ epoch' = epoch + 1 /\ open' = open
           /\ log' = Prefix(log, Least(id.pos, Len(log)))
           /\ Len(log') <= id.pos /\ IsPrefixOf(log', log)
<1>1. IInv' /\ epoch' = epoch + 1 /\ open' = open
  BY RewindToStep DEF RewindTo, Bump, turn
<1>2. log' = Prefix(log, Least(id.pos, Len(log)))
  BY DEF RewindTo, Cut, Holds
<1>3. Least(id.pos, Len(log)) \in 0 .. Len(log) /\ Least(id.pos, Len(log)) <= id.pos
  BY Types, LenProperties DEF Least
<1> QED
  BY <1>1, <1>2, <1>3, Types, PrefixIsBeginning

-----------------------------------------------------------------------------
(* The parts of a step.                                                    *)

LEMMA StackFacts ==
    ASSUME IInv, StackTypes
    PROVE  /\ log \in Seq(Token) /\ epoch \in Nat /\ ErrorText \in Seq(Token)
           /\ prompt \in Seq(Token) /\ reply \in Seq(Token)
           /\ fixed \in Seq(Token) /\ before \in Seq(Token)
           /\ Len(log) \in Nat /\ Len(prompt) \in Nat /\ Len(before) \in Nat
           /\ vmark.pos \in Nat /\ rmark.pos \in Nat /\ smark.pos \in Nat
           /\ vmark.epoch \in 0 .. epoch /\ rmark.epoch \in 0 .. epoch
           /\ smark.epoch \in 0 .. epoch
           /\ at \in Stages /\ (at # "idle" => ~open)
BY Types, StageData, LenProperties DEF StackTypes, StackTypeOK, Stages

LEMMA JudgedIs == ASSUME NEW r PROVE Judged(r) \in {"rewind", "leave"}
BY DEF Judged

\* A step within a call that keeps the marks.
LEMMA MidCall ==
    ASSUME StackIInv, IInv', at # "idle",
           at' \in {"repair", "unwind", "rewind", "leave"},
           at' \in {"repair", "unwind"} => at \in {"generate", "repair", "unwind"},
           open' = open, epoch' \in {epoch, epoch + 1},
           UNCHANGED <<options, marked, prompt, tries>>,
           reply' \in Seq(Token), fixed' \in Seq(Token),
           failed' = failed \/ failed' = TRUE
    PROVE  StackTypes' /\ Bracketed'
<1>1. /\ UNCHANGED <<validates, repairs, summing, retried, prompt>>
      /\ UNCHANGED <<vmark, rmark, smark, before>>
  BY DEF options, marked, tries
<1>2. IInv /\ StackTypes /\ Bracketed
  BY DEF StackIInv
<1>3. {validates, repairs, summing, retried, failed}' \subseteq BOOLEAN
  <2>1. {validates, repairs, summing, retried, failed} \subseteq BOOLEAN
    BY <1>2 DEF StackTypes, StackTypeOK
  <2>2. failed' \in BOOLEAN
    BY <2>1, Zenon
  <2> QED
    BY <1>1, <2>1, <2>2, Zenon
<1>4. {prompt, reply, fixed, before}' \subseteq Seq(Token)
  BY <1>1, <1>2, StackFacts
<1>5. /\ {vmark.epoch, rmark.epoch, smark.epoch}' \subseteq 0 .. epoch'
      /\ {vmark.pos, rmark.pos, smark.pos}' \subseteq Nat
  <2>1. /\ vmark.pos \in Nat /\ rmark.pos \in Nat /\ smark.pos \in Nat /\ epoch \in Nat
        /\ vmark.epoch \in 0 .. epoch /\ rmark.epoch \in 0 .. epoch
        /\ smark.epoch \in 0 .. epoch
    BY <1>2, StackFacts
  <2>2. 0 .. epoch \subseteq 0 .. epoch'
    BY <2>1
  <2> QED
    BY <1>1, <2>1, <2>2
<1>6. StackTypes'
  <2>1. TypeOK' /\ at' \in Stages /\ at' # "idle" /\ ~open'
    BY <1>2, StackFacts DEF IInv, Typed, Stages
  <2> QED
    BY <1>3, <1>4, <1>5, <2>1 DEF StackTypes, StackTypeOK, Stages
<1>7. Bracketed'
  BY <1>1, <1>2 DEF Bracketed
<1> QED
  BY <1>6, <1>7

\* Such a step leaves the conversation beneath when it keeps, resets or continues
\* the log.
LEMMA StillBeneath ==
    ASSUME StackIInv, at # "idle", at' # "generate",
           UNCHANGED <<prompt, before, vmark, smark>>, NEW text \in Seq(Token),
           IsPrefixOf(before, prompt) => IsPrefixOf(before, text),
           log' \in {log, <<>>} \/ (log' \in Seq(Token) /\ IsPrefixOf(text, log'))
    PROVE  Beneath'
<1> SUFFICES ASSUME IsPrefixOf(before, prompt)
             PROVE  /\ log' = <<>> \/ IsPrefixOf(before, log')
                    /\ vmark.pos \in {0, Len(before)} /\ smark.pos = Len(before)
  BY DEF Beneath, IsPrefixOf
<1>1. /\ log = <<>> \/ IsPrefixOf(before, log)
      /\ vmark.pos \in {0, Len(before)} /\ smark.pos = Len(before)
  BY DEF StackIInv, Beneath
<1>2. before \in Seq(Token)
  BY StackFacts DEF StackIInv
<1>3. ASSUME log' \in Seq(Token), IsPrefixOf(text, log') PROVE IsPrefixOf(before, log')
  BY <1>2, <1>3, PrefixTransitive
<1>4. CASE log' = log
  BY <1>1, <1>4 DEF IsPrefixOf
<1> QED
  BY <1>1, <1>3, <1>4

-----------------------------------------------------------------------------
(* The repair stage.                                                       *)

LEMMA CallStep ==
    ASSUME NEW text \in Texts, NEW summarize \in BOOLEAN,
           StackIInv, Call(text, summarize)
    PROVE  StackIInv'
<1>1. /\ at = "idle" /\ ~open /\ at' = "generate" /\ prompt' = text
      /\ vmark' = Here /\ rmark' = Here /\ smark' = Here /\ before' = log
      /\ UNCHANGED <<vars, reply, fixed, validates, repairs, retried, failed>>
  BY DEF Call, options
<1>2. UNCHANGED <<log, epoch, open>>
  BY <1>1 DEF vars
<1>3. IInv /\ StackTypes
  BY DEF StackIInv
<1>4. IInv'
  BY <1>1, <1>3, StutterStep
<1>5. /\ vmark'.epoch = epoch /\ rmark'.epoch = epoch /\ smark'.epoch = epoch
      /\ vmark'.pos = Len(log) /\ rmark'.pos = Len(log) /\ smark'.pos = Len(log)
  BY <1>1 DEF Here
<1>6. StackTypes'
  <2>1. {validates, repairs, summing, retried, failed}' \subseteq BOOLEAN
    <3>1. {validates, repairs, summing, retried, failed} \subseteq BOOLEAN
      BY <1>3 DEF StackTypes, StackTypeOK
    <3>2. summing' = summarize
      BY DEF Call
    <3> QED
      BY <1>1, <3>1, <3>2, Zenon
  <2>2. {prompt, reply, fixed, before}' \subseteq Seq(Token)
    BY <1>1, <1>3, StackFacts, PipelineSizes
  <2>3. /\ {vmark.epoch, rmark.epoch, smark.epoch}' \subseteq 0 .. epoch'
        /\ {vmark.pos, rmark.pos, smark.pos}' \subseteq Nat
    BY <1>2, <1>3, <1>5, StackFacts
  <2> QED
    BY <1>1, <1>2, <1>4, <2>1, <2>2, <2>3 DEF IInv, Typed, StackTypes, StackTypeOK
<1>7. Bracketed' /\ Clean'
  BY <1>1, <1>3, <1>5, StackFacts DEF Bracketed, Clean
<1>8. Restorable' /\ Beneath'
  <2>1. IsPrefixOf(before, log)'
    BY <1>1, <1>2, <1>3, StackFacts, PrefixReflexive
  <2> QED
    BY <1>1, <1>2, <1>5, <2>1 DEF Restorable, Beneath
<1> QED
  BY <1>4, <1>6, <1>7, <1>8 DEF StackIInv

LEMMA FirstStep ==
    ASSUME NEW new \in Runs, StackIInv, First(new)
    PROVE  StackIInv'
<1>1. /\ at = "generate" /\ Generates(prompt, new) /\ reply' = new
      /\ at' = (IF repairs /\ Bad(new) THEN "repair" ELSE Judged(new))
      /\ UNCHANGED <<options, prompt, fixed, marked, tries, failed>>
  BY DEF First
<1>2. IInv /\ StackTypes /\ new \in Seq(Token) /\ prompt \in Seq(Token)
  BY StackFacts, PipelineSizes DEF StackIInv
<1>3. /\ IInv' /\ log' \in Seq(Token) /\ epoch' = epoch /\ open' = open
      /\ IsPrefixOf(prompt, log') /\ IsPrefixOf(log', prompt \o new)
  BY <1>1, <1>2, GeneratesLeaves
<1>4. at' \in {"repair", "rewind", "leave"}
  BY <1>1, JudgedIs
<1>5. StackTypes' /\ Bracketed'
  BY <1>1, <1>2, <1>3, <1>4, StackFacts, MidCall
<1>6. Clean'
  BY <1>1, <1>3, <1>4 DEF Clean
<1>7. UNCHANGED <<fixed, retried, before, prompt, smark, vmark>>
  BY <1>1 DEF marked, tries
<1>8. Beneath'
  BY <1>1, <1>2, <1>3, <1>4, <1>7, StillBeneath
<1>9. Restorable'
  BY <1>1, <1>3, <1>7 DEF StackIInv, Restorable, IsPrefixOf
<1> QED
  BY <1>3, <1>5, <1>6, <1>8, <1>9 DEF StackIInv

LEMMA FirstFailsStep == StackIInv /\ FirstFails => StackIInv'
<1> SUFFICES ASSUME StackIInv, FirstFails PROVE StackIInv'
  OBVIOUS
<1>1. /\ at = "generate" /\ at' = "leave" /\ reply' = <<>> /\ failed' = TRUE
      /\ GenerateFails(prompt) \/ UNCHANGED vars
      /\ UNCHANGED <<options, prompt, fixed, marked, tries>>
  BY DEF FirstFails
<1>2. IInv /\ StackTypes /\ prompt \in Seq(Token)
  BY StackFacts DEF StackIInv
<1>3. IInv' /\ epoch' = epoch /\ open' = open
  <2>1. CASE GenerateFails(prompt)
    BY <1>2, <2>1, GenerateFailsStep DEF GenerateFails, turn
  <2>2. CASE UNCHANGED vars
    BY <1>2, <2>2, StutterStep DEF vars
  <2> QED
    BY <1>1, <2>1, <2>2
<1>4. StackTypes' /\ Bracketed'
  BY <1>1, <1>2, <1>3, StackFacts, EmptySeq, MidCall
<1>5. Clean'
  BY <1>1 DEF Clean
<1>6. UNCHANGED <<fixed, retried, before, prompt, smark, vmark>>
  BY <1>1 DEF marked, tries
<1>7. Beneath'
  <2>1. CASE ~IsPrefixOf(before, prompt)
    BY <1>6, <2>1 DEF Beneath, IsPrefixOf
  <2>2. CASE IsPrefixOf(before, prompt)
    <3>1. log \in {before, <<>>}
      BY <1>1, <2>2 DEF StackIInv, Beneath
    <3>2. IsPrefixOf(log, prompt)
      BY <1>2, <2>2, <3>1, EmptySeq DEF IsPrefixOf
    <3>3. log' \in {log, <<>>} \/ (log' \in Seq(Token) /\ IsPrefixOf(prompt, log'))
      BY <1>1, <1>2, <3>2, GenerateFailsLeaves DEF vars
    <3> QED
      BY <1>1, <1>2, <1>6, <2>2, <3>3, StillBeneath
  <2> QED
    BY <2>1, <2>2
<1>8. Restorable'
  BY <1>1, <1>3, <1>6 DEF StackIInv, Restorable, IsPrefixOf
<1> QED
  BY <1>3, <1>4, <1>5, <1>7, <1>8 DEF StackIInv

\* The error exchange as a prompt: it continues the prompt and the bad reply.
LEMMA RepairPromptIs ==
    ASSUME IInv, StackTypes
    PROVE  /\ RepairPrompt \in Seq(Token) /\ prompt \o reply \in Seq(Token)
           /\ IsPrefixOf(prompt \o reply, RepairPrompt)
           /\ IsPrefixOf(prompt, RepairPrompt)
<1>1. prompt \in Seq(Token) /\ reply \in Seq(Token) /\ ErrorText \in Seq(Token)
  BY StackFacts
<1>2. prompt \o reply \in Seq(Token) /\ IsPrefixOf(prompt, prompt \o reply)
  BY <1>1, PrefixReflexive, PrefixOfLonger
<1>3. IsPrefixOf(prompt \o reply, prompt \o reply)
  BY <1>2, PrefixReflexive
<1>4. /\ (prompt \o reply) \o ErrorText \in Seq(Token)
      /\ IsPrefixOf(prompt \o reply, (prompt \o reply) \o ErrorText)
      /\ IsPrefixOf(prompt, (prompt \o reply) \o ErrorText)
  BY <1>1, <1>2, <1>3, PrefixOfLonger
<1> QED
  BY <1>2, <1>4 DEF RepairPrompt

LEMMA RepairStep ==
    ASSUME NEW new \in Runs, StackIInv, Repair(new)
    PROVE  StackIInv'
<1>1. /\ at = "repair" /\ Generates(RepairPrompt, new)
      /\ at' = "unwind" /\ fixed' = new
      /\ UNCHANGED <<options, prompt, reply, marked, tries, failed>>
  BY DEF Repair
<1>2. /\ IInv /\ StackTypes /\ new \in Seq(Token) /\ new # <<>>
      /\ prompt \in Seq(Token) /\ reply \in Seq(Token)
  BY StackFacts, PipelineSizes DEF StackIInv
<1>3. RepairPrompt \in Seq(Token) /\ IsPrefixOf(prompt, RepairPrompt)
  BY <1>2, RepairPromptIs
<1> HIDE DEF RepairPrompt
<1>4. /\ IInv' /\ log' \in Seq(Token) /\ epoch' = epoch /\ open' = open
      /\ IsPrefixOf(RepairPrompt, log')
  BY <1>1, <1>2, <1>3, GeneratesLeaves
<1>5. StackTypes' /\ Bracketed'
  BY <1>1, <1>2, <1>4, MidCall
<1>6. Clean'
  <2>1. IsPrefixOf(prompt, log')
    BY <1>2, <1>3, <1>4, PrefixTransitive
  <2> QED
    BY <1>1, <1>2, <2>1 DEF Clean, IsPrefixOf
<1>7. Restorable'
  BY <1>1, <1>2 DEF Restorable
<1>8. Beneath'
  <2>1. UNCHANGED <<prompt, before, vmark, smark>> /\ before \in Seq(Token)
    BY <1>1, <1>2, StackFacts DEF marked
  <2>2. IsPrefixOf(before, prompt) => IsPrefixOf(before, RepairPrompt)
    BY <1>2, <1>3, <2>1, PrefixTransitive
  <2> QED
    BY <1>1, <1>3, <1>4, <2>1, <2>2, StillBeneath
<1> QED
  BY <1>4, <1>5, <1>6, <1>7, <1>8 DEF StackIInv

LEMMA RepairFailsStep == StackIInv /\ RepairFails => StackIInv'
<1> SUFFICES ASSUME StackIInv, RepairFails PROVE StackIInv'
  OBVIOUS
<1>1. /\ at = "repair" /\ at' = Judged(reply)
      /\ (GenerateFails(RepairPrompt) /\ failed' = TRUE) \/ UNCHANGED <<vars, failed>>
      /\ UNCHANGED <<options, prompt, reply, fixed, marked, tries>>
  BY DEF RepairFails
<1>2. /\ IInv /\ StackTypes /\ prompt \in Seq(Token) /\ reply \in Seq(Token)
      /\ fixed \in Seq(Token) /\ log \in Seq(Token) /\ before \in Seq(Token)
      /\ at' \in {"rewind", "leave"}
  BY <1>1, StackFacts, JudgedIs DEF StackIInv
<1>3. /\ RepairPrompt \in Seq(Token) /\ prompt \o reply \in Seq(Token)
      /\ IsPrefixOf(prompt \o reply, RepairPrompt) /\ IsPrefixOf(prompt, RepairPrompt)
  BY <1>2, RepairPromptIs
<1>4. IsPrefixOf(log, prompt \o reply)
  BY <1>1 DEF StackIInv, Clean
<1>5. IInv' /\ epoch' = epoch /\ open' = open
  <2>1. CASE GenerateFails(RepairPrompt)
    BY <1>2, <1>3, <2>1, GenerateFailsStep DEF GenerateFails, turn
  <2>2. CASE UNCHANGED vars
    BY <1>2, <2>2, StutterStep DEF vars
  <2> QED
    BY <1>1, <2>1, <2>2
<1>6. StackTypes' /\ Bracketed'
  BY <1>1, <1>2, <1>5, MidCall
<1>7. Clean'
  <2>1. CASE failed' = TRUE
    BY <1>2, <2>1 DEF Clean
  <2>2. CASE UNCHANGED vars
    BY <1>1, <1>2, <1>4, <2>2 DEF Clean, vars, IsPrefixOf
  <2> QED
    BY <1>1, <2>1, <2>2
<1>8. UNCHANGED <<fixed, retried, before, prompt, smark, vmark>>
  BY <1>1 DEF marked, tries
<1>9. Beneath'
  <2>1. IsPrefixOf(before, prompt) => IsPrefixOf(before, RepairPrompt)
    BY <1>2, <1>3, PrefixTransitive
  <2>2. log' \in {log, <<>>} \/ (log' \in Seq(Token) /\ IsPrefixOf(RepairPrompt, log'))
    <3>1. CASE GenerateFails(RepairPrompt)
      <4>1. IsPrefixOf(log, RepairPrompt)
        BY <1>2, <1>3, <1>4, PrefixTransitive
      <4> QED
        BY <1>2, <1>3, <3>1, <4>1, GenerateFailsLeaves
    <3>2. CASE UNCHANGED vars
      BY <3>2 DEF vars
    <3> QED
      BY <1>1, <3>1, <3>2
  <2> HIDE DEF RepairPrompt
  <2> QED
    BY <1>1, <1>2, <1>3, <1>8, <2>1, <2>2, StillBeneath
<1>10. Restorable'
  BY <1>1, <1>5, <1>8 DEF StackIInv, Restorable, IsPrefixOf
<1> QED
  BY <1>5, <1>6, <1>7, <1>9, <1>10 DEF StackIInv

LEMMA UnwindStep == StackIInv /\ Unwind => StackIInv'
<1> SUFFICES ASSUME StackIInv, Unwind PROVE StackIInv'
  OBVIOUS
<1>1. /\ at = "unwind" /\ RewindTo(PromptEnd) /\ reply' = fixed
      /\ rmark'.epoch = epoch' /\ rmark'.pos = Len(log') /\ at' = Judged(fixed)
      /\ UNCHANGED <<validates, repairs, prompt, fixed, vmark, smark, before,
                     summing, retried, failed>>
  BY DEF Unwind, Here, options, tries
<1>2. /\ IInv /\ StackTypes /\ Bracketed /\ at' \in {"rewind", "leave"}
      /\ IsPrefixOf(prompt, log) /\ fixed # <<>>
  BY <1>1, JudgedIs DEF StackIInv, Clean
<1>3. /\ prompt \in Seq(Token) /\ fixed \in Seq(Token) /\ before \in Seq(Token)
      /\ Len(prompt) \in Nat /\ Len(log) \in Nat /\ Len(before) \in Nat
      /\ rmark.pos \in Nat /\ log \in Seq(Token) /\ ~open
  BY <1>1, <1>2, StackFacts
<1>4. /\ PromptEnd.pos \in Nat
      /\ rmark.pos <= Len(prompt) => PromptEnd.pos = Len(prompt)
  BY <1>3 DEF PromptEnd
<1>5. /\ IInv' /\ log' \in Seq(Token) /\ epoch' = epoch + 1 /\ open' = open
      /\ log' = Prefix(log, Least(PromptEnd.pos, Len(log)))
  BY <1>1, <1>2, <1>4, RewindLeaves
<1>6. StackTypes'
  <2>1. {validates, repairs, summing, retried, failed}' \subseteq BOOLEAN
    <3>1. {validates, repairs, summing, retried, failed} \subseteq BOOLEAN
      BY <1>2 DEF StackTypes, StackTypeOK
    <3> QED
      BY <1>1, <3>1, Zenon
  <2>2. {prompt, reply, fixed, before}' \subseteq Seq(Token)
    BY <1>1, <1>3
  <2>3. /\ {vmark.epoch, rmark.epoch, smark.epoch}' \subseteq 0 .. epoch'
        /\ {vmark.pos, rmark.pos, smark.pos}' \subseteq Nat
    <3>1. /\ vmark' = vmark /\ smark' = smark
          /\ rmark'.epoch = epoch + 1 /\ rmark'.pos \in Nat
      BY <1>1, <1>5, LenProperties
    <3>2. /\ epoch \in Nat /\ vmark.pos \in Nat /\ smark.pos \in Nat
          /\ vmark.epoch \in 0 .. epoch /\ smark.epoch \in 0 .. epoch
      BY <1>2, StackFacts
    <3> QED
      BY <1>5, <3>1, <3>2
  <2> QED
    BY <1>2, <1>3, <1>5, <2>1, <2>2, <2>3 DEF IInv, Typed, StackTypes, StackTypeOK
<1>7. Bracketed'
  BY <1>1, <1>2 DEF Bracketed
<1>8. Clean'
  <2>1. ASSUME Len(before) <= Len(prompt) PROVE IsPrefixOf(log', prompt \o fixed)
    <3>1. rmark.pos <= Len(prompt)
      BY <1>1, <1>2, <1>3, <2>1 DEF Bracketed
    <3>2. Least(PromptEnd.pos, Len(log)) = Len(prompt)
      BY <1>2, <1>3, <1>4, <3>1 DEF Least, IsPrefixOf
    <3>3. log' = prompt
      BY <1>2, <1>3, <1>5, <3>2, PrefixUnique
    <3> QED
      BY <1>3, <3>3, PrefixReflexive, PrefixOfLonger
  <2> QED
    BY <1>1, <1>2, <2>1 DEF Clean, IsPrefixOf
<1>9. Restorable'
  BY <1>1, <1>2 DEF Restorable
<1>10. Beneath'
  <2>1. IsPrefixOf(prompt, log')
    <3>1. /\ Least(PromptEnd.pos, Len(log)) \in 0 .. Len(log)
          /\ Len(prompt) <= Least(PromptEnd.pos, Len(log))
      BY <1>2, <1>3 DEF Least, IsPrefixOf, PromptEnd
    <3>2. /\ Len(log') = Least(PromptEnd.pos, Len(log))
          /\ \A i \in 1 .. Len(log') : log'[i] = log[i]
      BY <1>3, <1>5, <3>1, PrefixIsBeginning DEF IsPrefixOf
    <3> QED
      BY <1>2, <1>3, <3>1, <3>2 DEF IsPrefixOf
  <2> QED
    BY <1>1, <1>2, <1>3, <1>5, <2>1, StillBeneath
<1> QED
  BY <1>5, <1>6, <1>7, <1>8, <1>9, <1>10 DEF StackIInv

\* A rewind that is refused, or resets the session and keeps the epoch.
LEMMA RewindFailsLeaves ==
    ASSUME NEW id, IInv, RewindToFails(id) \/ UNCHANGED vars
    PROVE  /\ IInv' /\ epoch' = epoch /\ open' = open /\ log' \in {log, <<>>}
<1>1. CASE RewindToFails(id)
  BY <1>1, RewindToFailsStep DEF RewindToFails, Keep, Dropped, Holds, turn
<1>2. CASE UNCHANGED vars
  BY <1>2, StutterStep DEF vars
<1> QED
  BY <1>1, <1>2

\* A stage gives up its rewind: the call goes on with the reply it has.
LEMMA GaveUp ==
    ASSUME NEW id, StackIInv, RewindToFails(id) \/ UNCHANGED vars,
           at \in {"unwind", "rewind"}, at' \in {"rewind", "leave"},
           UNCHANGED <<options, prompt, reply, fixed, marked, tries>>,
           \/ failed' = TRUE
           \/ failed' = failed /\ at = "rewind" /\ UNCHANGED vars
    PROVE  StackIInv'
<1>1. IInv /\ StackTypes
  BY DEF StackIInv
<1>2. IInv' /\ epoch' = epoch /\ open' = open /\ log' \in {log, <<>>}
  BY <1>1, RewindFailsLeaves
<1>3. StackTypes' /\ Bracketed'
  BY <1>1, <1>2, StackFacts, MidCall
<1>4. UNCHANGED <<fixed, retried, before, prompt, reply, smark, vmark>>
  BY DEF marked, tries
<1>5. Clean'
  <2>1. CASE failed' = TRUE
    BY <2>1 DEF Clean
  <2>2. CASE failed' = failed /\ at = "rewind" /\ log' = log
    BY <1>4, <2>2 DEF StackIInv, Clean
  <2> QED
    BY <2>1, <2>2 DEF vars
<1>6. Beneath'
  BY <1>1, <1>2, <1>4, StackFacts, StillBeneath
<1>7. Restorable'
  BY <1>2, <1>4 DEF StackIInv, Restorable, IsPrefixOf
<1> QED
  BY <1>2, <1>3, <1>5, <1>6, <1>7 DEF StackIInv

LEMMA UnwindFailsStep == StackIInv /\ UnwindFails => StackIInv'
<1> SUFFICES ASSUME StackIInv, UnwindFails PROVE StackIInv'
  OBVIOUS
<1>1. /\ at = "unwind" /\ at' = Judged(reply) /\ failed' = TRUE
      /\ RewindToFails(PromptEnd) \/ UNCHANGED vars
      /\ UNCHANGED <<options, prompt, reply, fixed, marked, tries>>
  BY DEF UnwindFails
<1>2. at' \in {"rewind", "leave"}
  BY <1>1, JudgedIs
<1> HIDE DEF PromptEnd
<1> QED
  BY <1>1, <1>2, GaveUp

-----------------------------------------------------------------------------
(* The validator.                                                          *)

LEMMA RetryStep == StackIInv /\ Retry => StackIInv'
<1> SUFFICES ASSUME StackIInv, Retry PROVE StackIInv'
  OBVIOUS
<1>1. /\ at = "rewind" /\ RewindTo(vmark) /\ retried' = TRUE /\ at' = "generate"
      /\ vmark'.epoch = epoch' /\ vmark'.pos = Len(log')
      /\ rmark'.epoch = epoch' /\ rmark'.pos = Len(log')
      /\ UNCHANGED <<validates, repairs, prompt, reply, fixed, smark, before,
                     summing, failed>>
  BY DEF Retry, Here, options
<1>2. IInv /\ StackTypes /\ vmark.pos <= Len(before)
  BY <1>1 DEF StackIInv, Bracketed
<1>3. /\ epoch \in Nat /\ vmark.pos \in Nat /\ smark.pos \in Nat /\ ~open
      /\ smark.epoch \in 0 .. epoch /\ Len(before) \in Nat
  BY <1>1, <1>2, StackFacts
<1>4. /\ IInv' /\ log' \in Seq(Token) /\ epoch' = epoch + 1 /\ open' = open
      /\ Len(log') <= vmark.pos
  BY <1>1, <1>2, <1>3, RewindLeaves
<1>5. Len(log') \in Nat
  BY <1>4, LenProperties
<1>6. StackTypes'
  <2>1. {validates, repairs, summing, retried, failed}' \subseteq BOOLEAN
    <3>1. {validates, repairs, summing, failed} \subseteq BOOLEAN
      BY <1>2 DEF StackTypes, StackTypeOK
    <3> QED
      BY <1>1, <3>1, Zenon
  <2>2. {prompt, reply, fixed, before}' \subseteq Seq(Token)
    BY <1>1, <1>2, StackFacts
  <2>3. /\ {vmark.epoch, rmark.epoch, smark.epoch}' \subseteq 0 .. epoch'
        /\ {vmark.pos, rmark.pos, smark.pos}' \subseteq Nat
    BY <1>1, <1>3, <1>4, <1>5
  <2> QED
    BY <1>1, <1>3, <1>4, <2>1, <2>2, <2>3 DEF IInv, Typed, StackTypes, StackTypeOK
<1>7. Bracketed'
  BY <1>1, <1>2, <1>3, <1>4, <1>5 DEF Bracketed
<1>8. Beneath'
  <2> SUFFICES ASSUME IsPrefixOf(before, prompt)
               PROVE  /\ log' = <<>> \/ IsPrefixOf(before, log')
                      /\ log' \in {before, <<>>}
                      /\ Len(log') \in {0, Len(before)} /\ smark.pos = Len(before)
    BY <1>1 DEF Beneath, IsPrefixOf
  <2>1. /\ log = <<>> \/ IsPrefixOf(before, log)
        /\ vmark.pos \in {0, Len(before)} /\ smark.pos = Len(before)
    BY <1>1 DEF StackIInv, Beneath
  <2>2. before \in Seq(Token) /\ log \in Seq(Token) /\ Len(log) \in Nat
    BY <1>2, StackFacts
  <2>3. /\ log' = Prefix(log, Least(vmark.pos, Len(log))) /\ IsPrefixOf(log', log)
    BY <1>1, <1>2, <1>3, RewindLeaves
  <2>4. CASE log = <<>> \/ vmark.pos = 0
    <3>1. Len(log') = 0
      BY <1>4, <1>5, <2>2, <2>3, <2>4, EmptySeq DEF IsPrefixOf
    <3> QED
      BY <1>4, <2>1, <3>1, EmptySeq
  <2>5. CASE IsPrefixOf(before, log) /\ vmark.pos = Len(before)
    <3>1. Least(vmark.pos, Len(log)) = Len(before)
      BY <1>3, <2>2, <2>5 DEF Least, IsPrefixOf
    <3>2. log' = before
      BY <2>2, <2>3, <2>5, <3>1, PrefixUnique
    <3> QED
      BY <2>1, <2>2, <3>2, PrefixReflexive
  <2> QED
    BY <2>1, <2>4, <2>5
<1> QED
  BY <1>1, <1>4, <1>6, <1>7, <1>8 DEF StackIInv, Clean, Restorable

LEMMA RetryRefusedStep == StackIInv /\ RetryRefused => StackIInv'
BY GaveUp DEF RetryRefused

LEMMA RetryFailsStep == StackIInv /\ RetryFails => StackIInv'
BY GaveUp DEF RetryFails

-----------------------------------------------------------------------------
(* The caller, and the ops between two calls.                              *)

\* The call is over.
LEMMA RestStep ==
    ASSUME StackIInv, IInv', AtRest, UNCHANGED options
    PROVE  StackIInv'
<1>1. /\ at' = "idle" /\ prompt' = <<>> /\ reply' = <<>> /\ fixed' = <<>>
      /\ before' = <<>> /\ summing' = FALSE /\ retried' = FALSE /\ failed' = FALSE
      /\ validates' = validates /\ repairs' = repairs
  BY DEF AtRest, options
<1>2. /\ vmark'.epoch = 0 /\ rmark'.epoch = 0 /\ smark'.epoch = 0
      /\ vmark'.pos = 0 /\ rmark'.pos = 0 /\ smark'.pos = 0
  BY DEF AtRest, Zero
<1>3. {validates, repairs, summing, retried, failed}' \subseteq BOOLEAN
  <2>1. {validates, repairs} \subseteq BOOLEAN
    BY DEF StackIInv, StackTypes, StackTypeOK
  <2> QED
    BY <1>1, <2>1, Zenon
<1>4. {prompt, reply, fixed, before}' \subseteq Seq(Token)
  BY <1>1, EmptySeq
<1>5. epoch' \in Nat /\ TypeOK'
  BY DEF IInv, Typed, TypeOK
<1>6. StackTypes'
  BY <1>1, <1>2, <1>3, <1>4, <1>5 DEF StackTypes, StackTypeOK
<1> QED
  BY <1>1, <1>6 DEF StackIInv, Bracketed, Clean, Beneath, Restorable

LEMMA ReturnStep == StackIInv /\ Return => StackIInv'
BY StutterStep, RestStep DEF Return, StackIInv

LEMMA RollBackStep == StackIInv /\ RollBack => StackIInv'
<1> SUFFICES ASSUME StackIInv, RollBack PROVE StackIInv'
  OBVIOUS
<1>1. IInv /\ smark.pos \in Nat
  BY StackFacts DEF StackIInv
<1>2. IInv'
  BY <1>1, RewindLeaves DEF RollBack
<1> QED
  BY <1>2, RestStep DEF RollBack

LEMMA RollBackFailsStep == StackIInv /\ RollBackFails => StackIInv'
<1> SUFFICES ASSUME StackIInv, RollBackFails PROVE StackIInv'
  OBVIOUS
<1>1. IInv'
  BY RewindFailsLeaves DEF RollBackFails, StackIInv
<1> QED
  BY <1>1, RestStep DEF RollBackFails

\* Any other step leaves an idle chain idle.
LEMMA PassStep ==
    ASSUME StackIInv, IInv', at = "idle", UNCHANGED <<options, chain>>
    PROVE  StackIInv'
<1>1. /\ UNCHANGED <<validates, repairs, at, prompt, reply, fixed, vmark, rmark,
                     smark, before, summing, retried, failed>>
  BY DEF options, chain, marked, tries
<1>2. StackTypes
  BY DEF StackIInv
<1>3. {validates, repairs, summing, retried, failed}' \subseteq BOOLEAN
  <2>1. {validates, repairs, summing, retried, failed} \subseteq BOOLEAN
    BY <1>2 DEF StackTypes, StackTypeOK
  <2> QED
    BY <1>1, <2>1, Zenon
<1>4. epoch' \in Nat /\ TypeOK'
  BY DEF IInv, Typed, TypeOK
<1>5. /\ vmark.epoch = 0 /\ rmark.epoch = 0 /\ smark.epoch = 0
      /\ {vmark.pos, rmark.pos, smark.pos} \subseteq Nat
      /\ {prompt, reply, fixed, before} \subseteq Seq(Token)
  BY <1>2 DEF StackTypes, StackTypeOK
<1>6. StackTypes'
  BY <1>1, <1>3, <1>4, <1>5 DEF StackTypes, StackTypeOK
<1> QED
  BY <1>1, <1>6 DEF StackIInv, Bracketed, Clean, Beneath, Restorable

LEMMA StackInitIInv == StackInit => StackIInv
<1> SUFFICES ASSUME StackInit PROVE StackIInv
  OBVIOUS
<1>1. IInv /\ TypeOK /\ epoch \in Nat
  BY InitIInv DEF StackInit, IInv, Typed, TypeOK
<1>2. /\ at = "idle" /\ prompt = <<>> /\ reply = <<>> /\ fixed = <<>> /\ before = <<>>
      /\ validates \in BOOLEAN /\ repairs \in BOOLEAN
      /\ summing = FALSE /\ retried = FALSE /\ failed = FALSE
  BY DEF StackInit
<1>3. /\ vmark.epoch = 0 /\ rmark.epoch = 0 /\ smark.epoch = 0
      /\ vmark.pos = 0 /\ rmark.pos = 0 /\ smark.pos = 0
  BY DEF StackInit, Zero
<1>4. {validates, repairs, summing, retried, failed} \subseteq BOOLEAN
  BY <1>2, Zenon
<1>5. {prompt, reply, fixed, before} \subseteq Seq(Token)
  BY <1>2, EmptySeq
<1>6. StackTypes
  BY <1>1, <1>2, <1>3, <1>4, <1>5 DEF StackTypes, StackTypeOK
<1> QED
  BY <1>1, <1>2, <1>6 DEF StackIInv, Bracketed, Clean, Beneath, Restorable

LEMMA StageOpStep == StackIInv /\ StageOp => StackIInv'
BY CallStep, FirstStep, RepairStep, FirstFailsStep, RepairFailsStep, UnwindStep,
   UnwindFailsStep, RetryStep, RetryRefusedStep, RetryFailsStep, ReturnStep,
   RollBackStep, RollBackFailsStep DEF StageOp

LEMMA StackStep == StackIInv /\ [StackNext]_stack => StackIInv'
<1> SUFFICES ASSUME StackIInv, [StackNext]_stack PROVE StackIInv'
  OBVIOUS
<1>1. CASE StageOp
  BY <1>1, StageOpStep
<1>2. CASE at = "idle" /\ Next /\ UNCHANGED <<options, chain>>
  <2>1. IInv'
    BY <1>2, LogOpStep, TurnOpStep DEF Next, StackIInv
  <2> QED
    BY <1>2, <2>1, PassStep
<1>3. CASE UNCHANGED stack
  <2>1. IInv' /\ open' = open /\ log' = log /\ epoch' = epoch
    BY <1>3, StutterStep DEF StackIInv, stack, vars
  <2> QED
    BY <1>3, <2>1 DEF StackIInv, StackTypes, StackTypeOK, Bracketed, Clean,
       Beneath, Restorable, stack, options, chain, marked, tries, IInv, Typed, IsPrefixOf
<1> QED
  BY <1>1, <1>2, <1>3 DEF StackNext

-----------------------------------------------------------------------------
\* The pipeline's invariant and the stages' own, whatever the chain does.
THEOREM StackInvariant == StackSpec => []StackIInv
BY StackInitIInv, StackStep, PTL DEF StackSpec

\* Types, and no mark of a later epoch than the pipeline's: under the stages.
THEOREM StackAlwaysTyped == StackSpec => []StackTypeOK
<1>1. StackIInv => StackTypeOK
  BY DEF StackIInv, StackTypes
<1> QED
  BY <1>1, StackInvariant, PTL

\* A stage's step is one op of the pipeline, or none.
LEMMA StageTruthful ==
    ASSUME StackIInv, StageOp, Truthful
    PROVE  Truthful'
<1>1. /\ IInv /\ StackTypes /\ prompt \in Seq(Token) /\ RepairPrompt \in Seq(Token)
      /\ vmark.pos \in Nat /\ smark.pos \in Nat /\ PromptEnd.pos \in Nat
  <2>1. IInv /\ StackTypes
    BY DEF StackIInv
  <2>2. rmark.pos \in Nat /\ Len(prompt) \in Nat
    BY <2>1, StackFacts
  <2>3. PromptEnd.pos \in Nat
    BY <2>2 DEF PromptEnd
  <2> QED
    BY <2>1, <2>3, StackFacts, RepairPromptIs
<1>2. \A new \in Runs : new \in Seq(Token)
  BY PipelineSizes
<1> HIDE DEF PromptEnd, RepairPrompt
<1>3. ASSUME NEW text \in Texts, NEW summarize \in BOOLEAN, Call(text, summarize)
      PROVE  Truthful'
  BY <1>1, <1>3, StutterStep DEF Call
<1>4. ASSUME NEW new \in Runs, First(new) \/ Repair(new) PROVE Truthful'
  BY <1>1, <1>2, <1>4, GeneratesStep DEF First, Repair
<1>5. CASE FirstFails
  BY <1>1, <1>5, GenerateFailsStep, StutterStep DEF FirstFails
<1>6. CASE RepairFails
  BY <1>1, <1>6, GenerateFailsStep, StutterStep DEF RepairFails, vars
<1>7. CASE Unwind \/ UnwindFails
  BY <1>1, <1>7, RewindToStep, RewindToFailsStep, StutterStep DEF Unwind, UnwindFails
<1>8. CASE Retry \/ RetryRefused \/ RetryFails
  BY <1>1, <1>8, RewindToStep, RewindToFailsStep, StutterStep
     DEF Retry, RetryRefused, RetryFails, vars
<1>9. CASE Return \/ RollBack \/ RollBackFails
  BY <1>1, <1>9, RewindToStep, RewindToFailsStep, StutterStep
     DEF Return, RollBack, RollBackFails, vars
<1> QED
  BY <1>3, <1>4, <1>5, <1>6, <1>7, <1>8, <1>9 DEF StageOp

\* The log goes on naming the tokens the cache was computed from, also when the
\* stages mark, rewind and generate again: a stage never renames the rows.
THEOREM StackLogTruthful == StackSpec => LogStaysTruthful
<1>1. StackIInv /\ [StackNext]_stack =>
         [Truthful => \/ Truthful'
                      \/ \E text \in Texts : Activate(text)
                      \/ EndTurn /\ gap = "jumped"]_vars
  <2> SUFFICES ASSUME StackIInv, [StackNext]_stack, Truthful
               PROVE  Truthful' \/ Renames
    BY DEF Renames
  <2>1. CASE StageOp
    BY <2>1, StageTruthful
  <2>2. CASE Next \/ UNCHANGED stack
    BY <2>2, PipelineStep DEF StackIInv, stack
  <2> QED
    BY <2>1, <2>2 DEF StackNext
<1> QED
  BY <1>1, StackInvariant, PTL DEF StackSpec, LogStaysTruthful

\* An open turn of the per-block ops owns the session, whichever staged calls
\* ran before it was opened.
THEOREM StackTurnOwnsSession == StackSpec => []TurnOwnsSession
<1>1. StackIInv => TurnOwnsSession
  BY DEF StackIInv, IInv
<1> QED
  BY <1>1, StackInvariant, PTL

\* A client's own id still rewinds to the log it was issued for when staged
\* calls came between: their rewinds bump the epoch, their turns loosen it.
THEOREM StackRewindLands == StackSpec => RewindLandsUnlessLoose
<1>1. StackIInv => (RewindOk /\ ~loose => log' = held.log)
  BY RewindOkLands DEF StackIInv
<1> QED
  BY <1>1, StackInvariant, PTL DEF RewindLandsUnlessLoose

\* ToolValidatorStage and ToolRepairStage (pipeline/stages.rs) return with the
\* prompt and the reply the caller is given in the causal context, and nothing
\* of a discarded attempt or of the error exchange.
THEOREM StackCleanReturn == StackSpec => []CleanReturn
<1>1. StackIInv => CleanReturn
  BY DEF StackIInv, Clean, CleanReturn
<1> QED
  BY <1>1, StackInvariant, PTL

\* run_summarize_pass leaves the conversation's log under whatever stays of its
\* exchange, or a reset session; exactly that log when no stage stepped in, its
\* rewind being never refused then; and, unless the GPU failed, nothing but the
\* prompt and the reply returned when one did.
THEOREM StackRollBackRestores == StackSpec => RollBackRestores
<1>1. ASSUME StackIInv, [StackNext]_stack, at = "leave", at' = "idle", summing,
             IsPrefixOf(before, prompt)
      PROVE  /\ log' = <<>> \/ IsPrefixOf(before, log')
             /\ fixed = <<>> /\ ~retried => log' \in {before, <<>>}
             /\ failed \/ IsPrefixOf(log', prompt \o reply)
  <2>1. /\ log = <<>> \/ IsPrefixOf(before, log)
        /\ fixed = <<>> /\ ~retried => smark.epoch = epoch
        /\ smark.pos = Len(before)
        /\ failed \/ IsPrefixOf(log, prompt \o reply)
    BY <1>1 DEF StackIInv, Beneath, Restorable, Clean, IsPrefixOf
  <2>2. /\ IInv /\ log \in Seq(Token) /\ before \in Seq(Token) /\ smark.pos \in Nat
        /\ Len(log) \in Nat /\ Len(before) \in Nat /\ prompt \o reply \in Seq(Token)
    BY <1>1, StackFacts, ConcatProperties DEF StackIInv
  <2>3. RollBack \/ RollBackFails
    <3>1. at # at'
      BY <1>1
    <3>2. ~(UNCHANGED stack)
      BY <3>1 DEF stack, chain
    <3> QED
      BY <1>1, <3>2 DEF StackNext, StageOp, Call, First, FirstFails, Repair,
         RepairFails, Unwind, UnwindFails, Retry, RetryRefused, RetryFails, Return
  <2>4. IsPrefixOf(<<>>, prompt \o reply)
    BY <2>2, EmptySeq, LenProperties DEF IsPrefixOf
  <2>5. CASE RollBack
    <3>1. /\ log' = Prefix(log, Least(smark.pos, Len(log)))
          /\ log' \in Seq(Token) /\ IsPrefixOf(log', log) /\ smark.epoch = epoch
      BY <2>2, <2>5, RewindLeaves DEF RollBack, RewindTo
    <3>2. failed \/ IsPrefixOf(log', prompt \o reply)
      BY <2>1, <2>2, <3>1, PrefixTransitive
    <3>3. CASE IsPrefixOf(before, log)
      <4>1. Least(smark.pos, Len(log)) = Len(before)
        BY <2>1, <2>2, <3>3 DEF Least, IsPrefixOf
      <4>2. log' = before
        BY <2>2, <3>1, <3>3, <4>1, PrefixUnique
      <4> QED
        BY <2>2, <3>2, <4>2, PrefixReflexive
    <3>4. CASE log = <<>>
      <4>1. Len(log') = 0
        BY <2>2, <3>1, <3>4, EmptySeq, LenProperties DEF IsPrefixOf
      <4> QED
        BY <3>1, <3>2, <4>1, EmptySeq
    <3> QED
      BY <2>1, <3>3, <3>4
  <2>6. CASE RollBackFails
    <3>1. log' = <<>> \/ (log' = log /\ smark.epoch # epoch)
      BY <2>6 DEF RollBackFails, RewindToFails, Dropped, Holds, vars
    <3> QED
      BY <2>1, <2>4, <3>1
  <2> QED
    BY <2>3, <2>5, <2>6
<1>2. StackIInv /\ [StackNext]_stack =>
         [at = "leave" /\ at' = "idle" /\ summing /\ IsPrefixOf(before, prompt)
          => /\ log' = <<>> \/ IsPrefixOf(before, log')
             /\ fixed = <<>> /\ ~retried => log' \in {before, <<>>}
             /\ failed \/ IsPrefixOf(log', prompt \o reply)]_stack
  BY <1>1
<1> QED
  BY <1>2, StackInvariant, PTL DEF StackSpec, RollBackRestores

=============================================================================
