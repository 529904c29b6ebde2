-------------------------- MODULE KvSession_proofs --------------------------
(***************************************************************************)
(* For every ring, window, canvas, prompt and failure: a session's         *)
(* variables keep their types and capacity, and every position within one  *)
(* ring length of the highest write is in its slot.                        *)
(***************************************************************************)
EXTENDS KvSession, WellFoundedInduction, TLAPS

-----------------------------------------------------------------------------
(* Ring arithmetic.                                                        *)

\* Two positions that share a slot are at least one ring apart.
LEMMA SlotsApart ==
    ASSUME NEW p \in Nat, NEW q \in Nat, p < q, SlotOf(p) = SlotOf(q)
    PROVE  p + Ring <= q
<1> DEFINE x == p \div Ring
           y == q \div Ring
           r == p % Ring
<1>0. Ring \in Nat \ {0}
  BY SizesAssumption
<1>1. x \in Int /\ y \in Int /\ r \in Int /\ p = Ring * x + r /\ q = Ring * y + r
  BY <1>0 DEF SlotOf
<1> HIDE DEF x, y, r
<1>2. x < y
  BY <1>0, <1>1
<1>3. Ring * (x + 1) <= Ring * y
  BY <1>0, <1>1, <1>2
<1>4. Ring * (x + 1) = Ring * x + Ring
  BY <1>0, <1>1
<1> QED
  BY <1>0, <1>1, <1>3, <1>4

\* A position has one slot.
LEMMA SlotOfType ==
    ASSUME NEW p \in Nat
    PROVE  SlotOf(p) \in Slots /\ SlotOf(p) <= p
<1>0. Ring \in Nat \ {0}
  BY SizesAssumption
<1>1. SlotOf(p) \in Slots
  BY <1>0 DEF SlotOf, Slots
<1>2. p = Ring * (p \div Ring) + (p % Ring) /\ p \div Ring \in Nat
  BY <1>0
<1>3. Ring * (p \div Ring) >= 0
  BY <1>0, <1>2
<1> QED
  BY <1>0, <1>1, <1>2, <1>3 DEF SlotOf, Slots

\* A position among the last Ring of a written range carries its own label.
LEMMA WrittenInside ==
    ASSUME NEW buf, NEW from \in Nat, NEW to \in Nat, NEW lab,
           NEW p \in Nat, from <= p, p < to, to <= p + Ring
    PROVE  Written(buf, from, to, lab)[SlotOf(p)] = lab[p]
<1>0. Ring \in Nat \ {0} /\ SlotOf(p) \in Slots
  BY SizesAssumption, SlotOfType
<1>1. p \in from .. to - 1 /\ IsLastWrite(p, from, to, SlotOf(p))
  BY DEF IsLastWrite
<1> DEFINE c == CHOOSE q \in from .. to - 1 : IsLastWrite(q, from, to, SlotOf(p))
<1>2. c \in from .. to - 1 /\ IsLastWrite(c, from, to, SlotOf(p))
  BY <1>1
<1>3. c \in Nat /\ c < to /\ to <= c + Ring /\ SlotOf(c) = SlotOf(p)
  BY <1>2 DEF IsLastWrite
<1> HIDE DEF c
<1>4. ~(c < p) /\ ~(p < c)
  BY <1>0, <1>3, SlotsApart
<1>5. c = p
  BY <1>3, <1>4
<1> QED
  BY <1>0, <1>1, <1>5 DEF Written, c

\* A position below a written range keeps its slot unless the range reaches
\* one ring above it.
LEMMA WrittenBelow ==
    ASSUME NEW buf, NEW from \in Nat, NEW to \in Nat, NEW lab,
           NEW p \in Nat, p < from, to <= p + Ring
    PROVE  Written(buf, from, to, lab)[SlotOf(p)] = buf[SlotOf(p)]
<1>0. Ring \in Nat \ {0} /\ SlotOf(p) \in Slots
  BY SizesAssumption, SlotOfType
<1>1. ASSUME NEW q \in from .. to - 1, IsLastWrite(q, from, to, SlotOf(p))
      PROVE  FALSE
  <2>1. q \in Nat /\ p < q /\ q < to /\ SlotOf(p) = SlotOf(q)
    BY <1>1 DEF IsLastWrite
  <2>2. p + Ring <= q
    BY <2>1, SlotsApart
  <2> QED
    BY <1>0, <2>1, <2>2
<1> QED
  BY <1>0, <1>1 DEF Written

\* Writing labels into a ring gives a ring.
LEMMA WrittenType ==
    ASSUME NEW buf \in [Slots -> Seq(Token)],
           NEW from \in Nat, NEW to \in Nat, to <= NoEnd + 1,
           NEW lab \in [0 .. NoEnd -> Seq(Token)]
    PROVE  Written(buf, from, to, lab) \in [Slots -> Seq(Token)]
<1>0. NoEnd \in Nat
  BY SizesAssumption DEF NoEnd
<1>1. ASSUME NEW s \in Slots, \E q \in from .. to - 1 : IsLastWrite(q, from, to, s)
      PROVE  lab[CHOOSE q \in from .. to - 1 : IsLastWrite(q, from, to, s)] \in Seq(Token)
  <2>1. (CHOOSE q \in from .. to - 1 : IsLastWrite(q, from, to, s)) \in from .. to - 1
    BY <1>1
  <2> QED
    BY <1>0, <2>1
<1> QED
  BY <1>1 DEF Written

-----------------------------------------------------------------------------
(* Prefixes and labels.                                                    *)

LEMMA PrefixType ==
    ASSUME NEW l \in Seq(Token), NEW n \in 0 .. Len(l)
    PROVE  /\ Prefix(l, n) \in Seq(Token)
           /\ Len(Prefix(l, n)) = n
           /\ \A i \in 1..n : Prefix(l, n)[i] = l[i]
<1>1. Len(l) \in Nat /\ \A i \in 1 .. Len(l) : l[i] \in Token
  OBVIOUS
<1> QED
  BY <1>1 DEF Prefix

\* Sequences that agree up to n have the same prefixes up to n.
LEMMA PrefixAgree ==
    ASSUME NEW k, NEW l, NEW n \in Nat, NEW m \in 0..n, \A i \in 1..n : k[i] = l[i]
    PROVE  Prefix(k, m) = Prefix(l, m)
BY DEF Prefix

LEMMA LabelsType ==
    ASSUME NEW l \in Seq(Token)
    PROVE  Labels(l) \in [0 .. NoEnd -> Seq(Token)]
<1>1. ASSUME NEW p \in 0 .. NoEnd
      PROVE  (IF p < Len(l) THEN Prefix(l, p + 1) ELSE <<>>) \in Seq(Token)
  <2>0. NoEnd \in Nat /\ Len(l) \in Nat
    BY SizesAssumption DEF NoEnd
  <2>1. CASE p < Len(l)
    BY <2>0, <2>1, PrefixType
  <2>2. CASE ~(p < Len(l))
    BY <2>2
  <2> QED
    BY <2>1, <2>2
<1> QED
  BY <1>1 DEF Labels

-----------------------------------------------------------------------------
(* The ring invariant of a buffer, a history mark and a log of length n.   *)

InPlace(buf, h, l, n) ==
    \A p \in 0 .. n - 1 : h <= p + Ring => buf[SlotOf(p)] = Prefix(l, p + 1)

\* Writing at or past the log's end disturbs only what the new mark gives up.
LEMMA WriteAbove ==
    ASSUME NEW buf, NEW h \in Nat, NEW l, NEW n \in Nat, NEW lab,
           NEW from \in Nat, NEW to \in Nat, n <= from,
           InPlace(buf, h, l, n)
    PROVE  InPlace(Written(buf, from, to, lab), Higher(h, to), l, n)
<1> SUFFICES ASSUME NEW p \in 0 .. n - 1, Higher(h, to) <= p + Ring
             PROVE  Written(buf, from, to, lab)[SlotOf(p)] = Prefix(l, p + 1)
  BY DEF InPlace
<1>0. Ring \in Nat
  BY SizesAssumption
<1>1. h <= p + Ring /\ to <= p + Ring /\ p \in Nat /\ p < from
  BY <1>0 DEF Higher
<1>2. buf[SlotOf(p)] = Prefix(l, p + 1)
  BY <1>1 DEF InPlace
<1> QED
  BY <1>1, <1>2, WrittenBelow

\* Writing a log's next positions, labelled by that log, extends it.
LEMMA WriteNext ==
    ASSUME NEW buf, NEW h \in Nat, NEW l \in Seq(Token), NEW n \in Nat,
           NEW to \in Nat, n <= to, to <= Len(l), to <= NoEnd,
           InPlace(buf, h, l, n)
    PROVE  InPlace(Written(buf, n, to, Labels(l)), Higher(h, to), l, to)
<1> SUFFICES ASSUME NEW p \in 0 .. to - 1, Higher(h, to) <= p + Ring
             PROVE  Written(buf, n, to, Labels(l))[SlotOf(p)] = Prefix(l, p + 1)
  BY DEF InPlace
<1>0. Ring \in Nat /\ NoEnd \in Nat
  BY SizesAssumption DEF NoEnd
<1>1. h <= p + Ring /\ to <= p + Ring /\ p \in Nat
  BY <1>0 DEF Higher
<1>2. CASE p < n
  <2>1. buf[SlotOf(p)] = Prefix(l, p + 1)
    BY <1>1, <1>2 DEF InPlace
  <2> QED
    BY <1>1, <1>2, <2>1, WrittenBelow
<1>3. CASE n <= p
  <2>1. Labels(l)[p] = Prefix(l, p + 1)
    BY <1>0, <1>1 DEF Labels
  <2> QED
    BY <1>1, <1>3, <2>1, WrittenInside
<1> QED
  BY <1>1, <1>2, <1>3

\* The invariant only looks at the tokens below n.
LEMMA InPlaceAgree ==
    ASSUME NEW buf, NEW h, NEW k, NEW l, NEW n \in Nat, NEW m \in 0..n,
           \A i \in 1..m : k[i] = l[i], InPlace(buf, h, k, n)
    PROVE  InPlace(buf, h, l, m)
<1> SUFFICES ASSUME NEW p \in 0 .. m - 1, h <= p + Ring
             PROVE  buf[SlotOf(p)] = Prefix(l, p + 1)
  BY DEF InPlace
<1>1. Prefix(k, p + 1) = Prefix(l, p + 1)
  BY PrefixAgree, p + 1 \in 0..m, m \in Nat
<1> QED
  BY <1>1, p \in 0 .. n - 1 DEF InPlace

-----------------------------------------------------------------------------
(* The inductive invariant.                                                *)

\* The engine only starts on an empty log.  A running chunked prefill builds on
\* the log it was started from, and its write bracket ends where the target ends.
JobOK ==
    /\ engine => ~Idle /\ Len(log) = 0
    /\ ~Idle /\ ~engine =>
        /\ Len(log) <= pos /\ pos < Len(todo)
        /\ \A i \in 1 .. Len(log) : log[i] = todo[i]
        /\ writeEnd = Len(todo)

\* While a chunked prefill runs, its target is in place up to the next chunk.
JobInPlace == ~Idle /\ ~engine => InPlace(ring, hi, todo, pos)

LogInPlace == InPlace(ring, hi, log, Len(log))

SavedInPlace == InPlace(saved.cells, saved.hi, saved.tokens, Len(saved.tokens))

IInv == TypeOK /\ JobOK /\ JobInPlace /\ LogInPlace /\ SavedInPlace

LEMMA IInvImpliesRingHolds == IInv => RingHolds
<1> SUFFICES ASSUME IInv PROVE RingHolds
  OBVIOUS
<1>1. CASE Idle \/ engine
  BY <1>1 DEF IInv, LogInPlace, InPlace, RingHolds, Current, Holds
<1>2. CASE ~Idle /\ ~engine
  <2>1. pos \in 0 .. Len(todo) /\ todo \in Seq(Token)
    BY <1>2 DEF IInv, TypeOK, JobOK
  <2>2. Len(Prefix(todo, pos)) = pos /\ \A i \in 1..pos : todo[i] = Prefix(todo, pos)[i]
    BY <2>1, PrefixType
  <2>3. InPlace(ring, hi, Prefix(todo, pos), pos)
    BY <1>2, <2>1, <2>2, InPlaceAgree DEF IInv, JobInPlace
  <2> QED
    BY <1>2, <2>2, <2>3 DEF InPlace, RingHolds, Current, Holds
<1> QED
  BY <1>1, <1>2

LEMMA InitIInv == Init => IInv
<1> SUFFICES ASSUME Init PROVE IInv
  OBVIOUS
<1>0. NoEnd \in Nat /\ Capacity \in Nat
  BY SizesAssumption DEF NoEnd, Capacity
<1>1. <<>> \in Seq(Token) /\ Len(<<>>) = 0
  OBVIOUS
<1>2. Blank \in [Slots -> Seq(Token)]
  BY <1>1 DEF Blank
<1>3. TypeOK
  <2>1. saved \in [tokens : Seq(Token), hi : Nat, cells : [Slots -> Seq(Token)]]
    BY <1>1, <1>2 DEF Init
  <2>2. Len(saved.tokens) <= Capacity
    BY <1>0, <1>1 DEF Init
  <2>3. engine \in BOOLEAN
    BY DEF Init
  <2>4. ring \in [Slots -> Seq(Token)] /\ side \in [Slots -> Seq(Token)]
    BY <1>2 DEF Init
  <2>5. log \in Seq(Token) /\ Len(log) <= Capacity /\ todo \in Seq(Token)
        /\ Len(todo) <= Capacity
    BY <1>0, <1>1 DEF Init
  <2>6. /\ kvLen \in 0 .. Capacity /\ pos \in 0 .. Capacity /\ writeEnd \in 0 .. NoEnd
        /\ sideValid \in 0 .. Capacity /\ hi \in Nat
    BY <1>0 DEF Init
  <2> QED
    BY <2>1, <2>2, <2>3, <2>4, <2>5, <2>6 DEF TypeOK
<1>4. JobOK /\ JobInPlace /\ LogInPlace /\ SavedInPlace
  BY <1>1 DEF Init, JobOK, JobInPlace, LogInPlace, SavedInPlace, InPlace, Idle
<1> QED
  BY <1>3, <1>4 DEF IInv

-----------------------------------------------------------------------------
(* Facts the steps share.                                                  *)

LEMMA Sizes ==
    /\ Ring \in Nat /\ Canvas \in Nat /\ Canvas > 0 /\ MaxSeq \in Nat /\ Subs \in Nat
    /\ NoEnd \in Nat /\ Capacity \in Nat /\ Capacity <= NoEnd
    /\ Capacity + Canvas = MaxSeq /\ NoEnd = MaxSeq + Canvas
BY SizesAssumption DEF NoEnd, Capacity

LEMMA NonEmpty ==
    ASSUME NEW l \in Seq(Token)
    PROVE  /\ Len(l) \in Nat
           /\ l = <<>> <=> Len(l) = 0
OBVIOUS

\* Nothing is in place in any ring.
LEMMA EmptyInPlace ==
    ASSUME NEW buf, NEW h, NEW l
    PROVE  InPlace(buf, h, l, 0)
BY DEF InPlace

\* A forward has rows, and what it writes ends at the target or at its rows.
LEMMA RowsWritten ==
    ASSUME TypeOK, JobOK, ~Idle, ~engine
    PROVE  /\ ForwardRows \in Nat /\ ForwardRows > 0
           /\ RowsWrittenEnd \in pos .. Len(todo)
           /\ pos + ForwardRows >= Len(todo) => RowsWrittenEnd = Len(todo)
           /\ pos + ForwardRows < Len(todo) => RowsWrittenEnd = pos + ForwardRows
<1> DEFINE subs == Lower((Len(todo) - pos) \div Canvas, Subs)
<1>1. pos \in Nat /\ Len(todo) \in Nat /\ writeEnd = Len(todo) /\ pos < Len(todo)
  BY Sizes DEF TypeOK, JobOK
<1>2. subs \in Nat
  BY <1>1, Sizes DEF Lower
<1>3. ForwardRows = IF subs >= 2 /\ pos + subs * Canvas + Canvas <= MaxSeq
                    THEN subs * Canvas ELSE Canvas
  BY DEF ForwardRows
<1> HIDE DEF subs
<1>4. subs >= 2 => subs * Canvas \in Nat /\ subs * Canvas > 0
  BY <1>2, Sizes
<1>5. ForwardRows \in Nat /\ ForwardRows > 0
  BY <1>3, <1>4, Sizes
<1> QED
  BY <1>1, <1>5 DEF RowsWrittenEnd, Lower

\* The mirror re-read from the ring is a ring.
LEMMA HydratedType ==
    ASSUME TypeOK, NEW from
    PROVE  Hydrated(from) \in [Slots -> Seq(Token)]
BY DEF TypeOK, Hydrated

\* Entering a prefill from the end of the (new) log establishes the invariant.
LEMMA StartStep ==
    ASSUME IInv, Idle, NEW from \in Nat, NEW target \in Seq(Token),
           StartPrefill(from, target),
           from < Len(target), Len(target) <= Capacity,
           log' \in Seq(Token), Len(log') = from, \A i \in 1..from : log'[i] = target[i],
           kvLen' \in 0 .. Capacity, hi' \in Nat, InPlace(ring, hi', log', from)
    PROVE  IInv'
<1>1. ~engine /\ TypeOK /\ SavedInPlace
  BY DEF IInv, JobOK
<1>2. ring' = ring /\ sideValid' = sideValid /\ engine' = engine /\ saved' = saved
      /\ writeEnd' = Len(target)
  BY DEF StartPrefill
<1>3. SavedInPlace' /\ LogInPlace'
  BY <1>1, <1>2 DEF SavedInPlace, LogInPlace
<1>4. engine' \in BOOLEAN /\ ~engine'
  BY <1>1, <1>2 DEF TypeOK
<1>5. CASE /\ todo' = target /\ pos' = from
           /\ side' = IF SideIsStale(from) THEN Hydrated(from) ELSE side
  <2>1. side' \in [Slots -> Seq(Token)]
    BY <1>1, <1>5, HydratedType DEF TypeOK
  <2>2. TypeOK'
    BY <1>1, <1>2, <1>4, <1>5, <2>1, Sizes DEF TypeOK
  <2>3. \A i \in 1 .. Len(log') : log'[i] = todo'[i]
    BY <1>5
  <2>4. ~Idle'
    BY <1>5, NonEmpty DEF Idle
  <2>5. JobOK'
    BY <1>2, <1>4, <1>5, <2>3, <2>4 DEF JobOK
  <2>6. InPlace(ring, hi', target, from)
    BY InPlaceAgree
  <2>7. JobInPlace'
    BY <1>2, <1>5, <2>6 DEF JobInPlace
  <2> QED
    BY <1>3, <2>2, <2>5, <2>7 DEF IInv
<1>6. CASE UNCHANGED <<todo, pos, side>>
  <2>1. TypeOK'
    BY <1>1, <1>2, <1>4, <1>6, Sizes DEF TypeOK
  <2>2. Idle'
    BY <1>6 DEF Idle
  <2>3. JobOK' /\ JobInPlace'
    BY <1>4, <2>2 DEF JobOK, JobInPlace
  <2> QED
    BY <1>3, <2>1, <2>3 DEF IInv
<1> QED
  BY <1>5, <1>6 DEF StartPrefill

\* A step that stays idle and leaves the ring alone.
LEMMA IdleStep ==
    ASSUME IInv, Idle, UNCHANGED <<writeEnd, ring, side, sideValid, todo, pos, engine, saved>>,
           log' \in Seq(Token), Len(log') <= Capacity, kvLen' \in 0 .. Capacity,
           hi' \in Nat, InPlace(ring, hi', log', Len(log'))
    PROVE  IInv'
<1>1. engine' \in BOOLEAN /\ ~engine'
  BY DEF IInv, TypeOK, JobOK
<1>2. TypeOK'
  BY <1>1 DEF IInv, TypeOK
<1>3. Idle'
  BY DEF Idle
<1>4. JobOK' /\ JobInPlace'
  BY <1>1, <1>3 DEF JobOK, JobInPlace
<1>5. LogInPlace' /\ SavedInPlace'
  BY DEF IInv, LogInPlace, SavedInPlace
<1> QED
  BY <1>2, <1>4, <1>5 DEF IInv

-----------------------------------------------------------------------------
(* One lemma per action.                                                   *)

\* Writing rows pos .. end-1 of the target keeps both views of the ring.
LEMMA RowsStep ==
    ASSUME IInv, ~Idle, ~engine, NEW end \in pos .. Len(todo),
           ring' = Written(ring, pos, end, Labels(todo)),
           hi' = Higher(hi, end)
    PROVE  /\ ring' \in [Slots -> Seq(Token)]
           /\ hi' \in Nat
           /\ InPlace(ring', hi', todo, end)
           /\ InPlace(ring', hi', log, Len(log))
<1>1. pos \in Nat /\ end \in Nat /\ end <= NoEnd /\ hi \in Nat /\ todo \in Seq(Token)
      /\ log \in Seq(Token) /\ ring \in [Slots -> Seq(Token)] /\ Len(log) \in Nat
      /\ pos <= end /\ end <= Len(todo)
  BY Sizes DEF IInv, TypeOK
<1>2. Labels(todo) \in [0 .. NoEnd -> Seq(Token)]
  BY <1>1, LabelsType
<1>3. ring' \in [Slots -> Seq(Token)]
  <2>1. end <= NoEnd + 1
    BY <1>1, Sizes
  <2> QED
    BY <1>1, <1>2, <2>1, WrittenType
<1>4. hi' \in Nat
  BY <1>1 DEF Higher
<1>5. InPlace(ring', hi', todo, end)
  BY <1>1, WriteNext DEF IInv, JobInPlace
<1>6. InPlace(ring', hi', log, Len(log))
  BY <1>1, WriteAbove DEF IInv, JobOK, LogInPlace
<1> QED
  BY <1>3, <1>4, <1>5, <1>6

LEMMA SideType ==
    ASSUME IInv, NEW end \in pos .. Len(todo),
           side' = IF SideRing THEN Written(side, pos, end, Labels(todo)) ELSE side
    PROVE  side' \in [Slots -> Seq(Token)]
<1>1. pos \in Nat /\ end \in Nat /\ end <= NoEnd + 1 /\ todo \in Seq(Token)
      /\ side \in [Slots -> Seq(Token)]
  BY Sizes DEF IInv, TypeOK
<1>2. Written(side, pos, end, Labels(todo)) \in [Slots -> Seq(Token)]
  BY <1>1, LabelsType, WrittenType
<1> QED
  BY <1>1, <1>2

LEMMA PrefillChunkStep == IInv /\ PrefillChunk => IInv'
<1> SUFFICES ASSUME IInv, PrefillChunk PROVE IInv'
  OBVIOUS
<1> DEFINE end == RowsWrittenEnd
<1>1. ~Idle /\ ~engine /\ TypeOK /\ JobOK /\ SavedInPlace
  BY DEF PrefillChunk, IInv
<1>2. ring' = Written(ring, pos, end, Labels(todo)) /\ hi' = Higher(hi, end)
      /\ side' = (IF SideRing THEN Written(side, pos, end, Labels(todo)) ELSE side)
      /\ engine' = engine /\ saved' = saved
  BY DEF PrefillChunk
<1>3. /\ ForwardRows \in Nat /\ ForwardRows > 0
      /\ end \in pos .. Len(todo)
      /\ pos + ForwardRows >= Len(todo) => end = Len(todo)
      /\ pos + ForwardRows < Len(todo) => end = pos + ForwardRows
  BY <1>1, RowsWritten
<1> HIDE DEF end
<1>4. /\ ring' \in [Slots -> Seq(Token)] /\ hi' \in Nat
      /\ InPlace(ring', hi', todo, end) /\ InPlace(ring', hi', log, Len(log))
  BY <1>1, <1>2, <1>3, RowsStep
<1>5. side' \in [Slots -> Seq(Token)]
  BY <1>2, <1>3, SideType
<1>6. engine' \in BOOLEAN /\ ~engine'
  BY <1>1, <1>2 DEF TypeOK
<1>7. SavedInPlace'
  BY <1>1, <1>2 DEF SavedInPlace
<1>8. CASE pos + ForwardRows >= Len(todo)
  <2>1. /\ log' = todo /\ kvLen' = Len(todo) /\ writeEnd' = NoEnd
        /\ sideValid' = (IF SideRing THEN Len(todo) ELSE sideValid)
        /\ todo' = <<>> /\ pos' = 0
    BY <1>8 DEF PrefillChunk
  <2>2. TypeOK'
    <3>1. <<>> \in Seq(Token) /\ Len(<<>>) = 0
      OBVIOUS
    <3>2. Len(todo) \in 0 .. Capacity /\ NoEnd \in 0 .. NoEnd /\ 0 \in 0 .. Capacity
      BY <1>1, Sizes DEF TypeOK
    <3>3. sideValid' \in 0 .. Capacity
      BY <1>1, <2>1, <3>2 DEF TypeOK
    <3> QED
      BY <1>1, <1>2, <1>4, <1>5, <1>6, <2>1, <3>1, <3>2, <3>3, Sizes DEF TypeOK
  <2>3. Idle'
    BY <2>1 DEF Idle
  <2>4. JobOK' /\ JobInPlace'
    BY <1>6, <2>3 DEF JobOK, JobInPlace
  <2>5. LogInPlace'
    BY <1>3, <1>4, <1>8, <2>1 DEF LogInPlace
  <2> QED
    BY <1>7, <2>2, <2>4, <2>5 DEF IInv
<1>9. CASE pos + ForwardRows < Len(todo)
  <2>1. /\ pos' = pos + ForwardRows /\ kvLen' = pos
        /\ UNCHANGED <<log, writeEnd, sideValid, todo>>
    BY <1>1, <1>3, <1>9 DEF PrefillChunk, TypeOK
  <2>2. TypeOK'
    <3>1. pos \in 0 .. Capacity /\ pos + ForwardRows \in 0 .. Capacity
      BY <1>1, <1>3, <1>9, Sizes DEF TypeOK
    <3> QED
      BY <1>1, <1>2, <1>4, <1>5, <1>6, <2>1, <3>1 DEF TypeOK
  <2>3. JobOK'
    BY <1>1, <1>3, <1>6, <1>9, <2>1 DEF JobOK, Idle, TypeOK
  <2>4. JobInPlace' /\ LogInPlace'
    BY <1>3, <1>4, <1>9, <2>1 DEF JobInPlace, LogInPlace
  <2> QED
    BY <1>7, <2>2, <2>3, <2>4 DEF IInv
<1> QED
  BY <1>1, <1>3, <1>8, <1>9 DEF TypeOK

LEMMA PrefillErrorStep == IInv /\ PrefillError => IInv'
<1> SUFFICES ASSUME IInv, PrefillError PROVE IInv'
  OBVIOUS
<1>1. ~Idle /\ ~engine /\ TypeOK /\ JobOK /\ SavedInPlace
  BY DEF PrefillError, IInv
<1>2. PICK end \in pos .. RowsWrittenEnd :
        /\ ring' = Written(ring, pos, end, Labels(todo))
        /\ side' = IF SideRing THEN Written(side, pos, end, Labels(todo)) ELSE side
        /\ hi' = Higher(hi, end)
  BY DEF PrefillError
<1>3. end \in pos .. Len(todo)
  BY <1>1, RowsWritten DEF TypeOK, JobOK
<1>4. kvLen' = pos /\ todo' = <<>> /\ pos' = 0
      /\ UNCHANGED <<log, writeEnd, sideValid, engine, saved>>
  BY DEF PrefillError
<1>5. /\ ring' \in [Slots -> Seq(Token)] /\ hi' \in Nat
      /\ InPlace(ring', hi', log, Len(log))
  BY <1>1, <1>2, <1>3, RowsStep
<1>6. side' \in [Slots -> Seq(Token)]
  BY <1>2, <1>3, SideType
<1>7. engine' \in BOOLEAN /\ ~engine'
  BY <1>1, <1>4 DEF TypeOK
<1>8. TypeOK'
  BY <1>1, <1>4, <1>5, <1>6, <1>7, Sizes DEF TypeOK
<1>9. Idle'
  BY <1>4 DEF Idle
<1>10. JobOK' /\ JobInPlace'
  BY <1>7, <1>9 DEF JobOK, JobInPlace
<1>11. LogInPlace' /\ SavedInPlace'
  BY <1>1, <1>4, <1>5 DEF LogInPlace, SavedInPlace
<1> QED
  BY <1>8, <1>10, <1>11 DEF IInv

\* A blank ring is a ring.
LEMMA BlankType == Blank \in [Slots -> Seq(Token)]
BY DEF Blank

LEMMA EnginePrefillStep == IInv /\ EnginePrefill => IInv'
<1> SUFFICES ASSUME IInv, EnginePrefill PROVE IInv'
  OBVIOUS
<1> DEFINE n == Len(todo)
<1>1. /\ ring' = Written(Blank, 0, n, Labels(todo)) /\ hi' = Higher(hi, n)
      /\ log' = todo /\ kvLen' = n /\ todo' = <<>> /\ engine' = FALSE
      /\ UNCHANGED <<writeEnd, side, sideValid, pos, saved>>
  BY DEF EnginePrefill
<1>2. TypeOK /\ SavedInPlace /\ n \in Nat /\ n <= NoEnd /\ todo \in Seq(Token)
      /\ hi \in Nat /\ ring \in [Slots -> Seq(Token)] /\ n <= Capacity
  BY Sizes DEF IInv, TypeOK
<1>3. ring' \in [Slots -> Seq(Token)]
  <2>1. Labels(todo) \in [0 .. NoEnd -> Seq(Token)]
    BY <1>2, LabelsType
  <2>2. 0 \in Nat /\ n <= NoEnd + 1
    BY <1>2, Sizes
  <2> HIDE DEF n
  <2>3. Written(Blank, 0, n, Labels(todo)) \in [Slots -> Seq(Token)]
    BY <1>2, <2>1, <2>2, BlankType, WrittenType
  <2> QED
    BY <1>1, <2>3
<1>4. InPlace(ring', hi', todo, n)
  <2>1. InPlace(Blank, hi, todo, 0)
    BY EmptyInPlace
  <2>2. 0 \in Nat /\ 0 <= n /\ n <= Len(todo)
    BY <1>2
  <2> HIDE DEF n
  <2>3. InPlace(Written(Blank, 0, n, Labels(todo)), Higher(hi, n), todo, n)
    BY <1>2, <2>1, <2>2, WriteNext
  <2> QED
    BY <1>1, <2>3
<1>5. hi' \in Nat
  BY <1>1, <1>2 DEF Higher
<1>6. engine' \in BOOLEAN /\ ~engine'
  BY <1>1
<1>7. TypeOK'
  BY <1>1, <1>2, <1>3, <1>5, <1>6, Sizes DEF TypeOK
<1>8. Idle'
  BY <1>1 DEF Idle
<1>9. JobOK' /\ JobInPlace'
  BY <1>6, <1>8 DEF JobOK, JobInPlace
<1>10. LogInPlace' /\ SavedInPlace'
  BY <1>1, <1>2, <1>4 DEF LogInPlace, SavedInPlace
<1> QED
  BY <1>7, <1>9, <1>10 DEF IInv

LEMMA EngineErrorStep == IInv /\ EngineError => IInv'
<1> SUFFICES ASSUME IInv, EngineError PROVE IInv'
  OBVIOUS
<1>1. /\ todo' = <<>> /\ engine' = FALSE
      /\ UNCHANGED <<log, kvLen, writeEnd, side, sideValid, pos, saved>>
  BY DEF EngineError
<1>2. engine' \in BOOLEAN /\ ~engine'
  BY <1>1
<1>3. Len(log) = 0 /\ TypeOK /\ SavedInPlace /\ Len(todo) \in Nat /\ Len(todo) <= NoEnd
      /\ todo \in Seq(Token) /\ hi \in Nat
  BY Sizes DEF EngineError, IInv, JobOK, TypeOK
<1>4. ring' \in [Slots -> Seq(Token)] /\ hi' \in Nat
  <2>1. CASE UNCHANGED <<ring, hi>>
    BY <1>3, <2>1 DEF TypeOK
  <2>2. CASE \E end \in 0 .. Len(todo) :
               ring' = Written(Blank, 0, end, Labels(todo)) /\ hi' = Higher(hi, end)
    <3>1. PICK end \in 0 .. Len(todo) :
            ring' = Written(Blank, 0, end, Labels(todo)) /\ hi' = Higher(hi, end)
      BY <2>2
    <3>2. 0 \in Nat /\ end \in Nat /\ end <= NoEnd + 1
      BY <1>3, Sizes
    <3>3. Labels(todo) \in [0 .. NoEnd -> Seq(Token)]
      BY <1>3, LabelsType
    <3>4. Written(Blank, 0, end, Labels(todo)) \in [Slots -> Seq(Token)]
      BY <3>2, <3>3, BlankType, WrittenType
    <3> QED
      BY <1>3, <3>1, <3>2, <3>4 DEF Higher
  <2> QED
    BY <2>1, <2>2 DEF EngineError
<1>5. TypeOK'
  <2>1. <<>> \in Seq(Token) /\ Len(<<>>) <= Capacity
    BY Sizes
  <2> QED
    BY <1>1, <1>2, <1>3, <1>4, <2>1 DEF TypeOK
<1>6. Idle'
  BY <1>1 DEF Idle
<1>7. LogInPlace'
  BY <1>1, <1>3, EmptyInPlace DEF LogInPlace
<1>8. JobOK' /\ JobInPlace' /\ SavedInPlace'
  BY <1>1, <1>2, <1>3, <1>6 DEF JobOK, JobInPlace, SavedInPlace
<1> QED
  BY <1>5, <1>7, <1>8 DEF IInv

LEMMA ExtendKvStep == IInv /\ ExtendKv => IInv'
<1> SUFFICES ASSUME IInv, ExtendKv PROVE IInv'
  OBVIOUS
<1>1. PICK d \in Deltas : Len(log) + Len(d) <= Capacity /\ StartPrefill(Len(log), log \o d)
  BY DEF ExtendKv
<1>2. Idle /\ UNCHANGED <<log, kvLen, hi>>
  BY DEF ExtendKv
<1>3. log \in Seq(Token) /\ Len(log) \in Nat /\ kvLen \in 0 .. Capacity /\ hi \in Nat
  BY DEF IInv, TypeOK
<1>4. d \in Seq(Token) /\ Len(d) \in Nat /\ Len(d) > 0
  BY InputsAssumption, NonEmpty
<1>5. /\ log \o d \in Seq(Token) /\ Len(log \o d) = Len(log) + Len(d)
      /\ \A i \in 1 .. Len(log) : log[i] = (log \o d)[i]
  BY <1>3, <1>4
<1>6. InPlace(ring, hi, log, Len(log))
  BY DEF IInv, LogInPlace
<1> DEFINE target == log \o d
<1> HIDE DEF target
<1>7. /\ target \in Seq(Token) /\ Len(log) < Len(target) /\ Len(target) <= Capacity
      /\ \A i \in 1 .. Len(log) : log[i] = target[i]
      /\ StartPrefill(Len(log), target)
  BY <1>1, <1>3, <1>4, <1>5 DEF target
<1> QED
  BY <1>2, <1>3, <1>6, <1>7, StartStep

LEMMA ResetKvStep == IInv /\ ResetKv => IInv'
<1> SUFFICES ASSUME IInv, ResetKv PROVE IInv'
  OBVIOUS
<1>1. /\ log' \in Seq(Token) /\ Len(log') <= Capacity /\ kvLen' \in 0 .. Capacity
      /\ hi' \in Nat /\ Len(log') = 0
  BY Sizes DEF ResetKv, Emptied
<1>2. InPlace(ring, hi', log', Len(log'))
  BY <1>1, EmptyInPlace
<1> QED
  BY <1>1, <1>2, IdleStep DEF ResetKv

\* Cutting the log to a prefix keeps it in place; at zero the mark may drop.
LEMMA CutInPlace ==
    ASSUME IInv, NEW n \in 0 .. Len(log), NEW h, n = 0 \/ h = hi
    PROVE  /\ Prefix(log, n) \in Seq(Token) /\ Len(Prefix(log, n)) = n
           /\ InPlace(ring, h, Prefix(log, n), n)
<1>1. log \in Seq(Token) /\ Len(log) \in Nat /\ n \in Nat
  BY DEF IInv, TypeOK
<1>2. /\ Prefix(log, n) \in Seq(Token) /\ Len(Prefix(log, n)) = n
      /\ \A i \in 1..n : log[i] = Prefix(log, n)[i]
  BY <1>1, PrefixType
<1>3. CASE n = 0
  BY <1>2, <1>3, EmptyInPlace
<1>4. CASE h = hi
  <2>1. InPlace(ring, hi, log, Len(log))
    BY DEF IInv, LogInPlace
  <2> QED
    BY <1>1, <1>2, <1>4, <2>1, InPlaceAgree
<1> QED
  BY <1>2, <1>3, <1>4

LEMMA TruncateKvToStep == IInv /\ TruncateKvTo => IInv'
<1> SUFFICES ASSUME IInv, TruncateKvTo PROVE IInv'
  OBVIOUS
<1> DEFINE still == UNCHANGED <<writeEnd, ring, side, sideValid, todo, pos, engine, saved>>
<1>1. PICK n \in 0 .. Len(log) - 1 :
        IF ~NeedsRebuild(Len(log), n) THEN Clamped(n) /\ still
        ELSE Emptied /\ (IF n = 0 THEN still ELSE StartPrefill(0, Prefix(log, n)))
  BY DEF TruncateKvTo
<1>2. Idle /\ Len(log) \in Nat /\ Len(log) <= Capacity /\ n \in 0 .. Len(log) /\ n \in Nat
      /\ hi \in Nat
  BY DEF TruncateKvTo, IInv, TypeOK
<1>3. CASE Clamped(n) /\ still
  <2>1. log' = Prefix(log, n) /\ kvLen' = n /\ hi' \in Nat /\ (n = 0 \/ hi' = hi)
    BY <1>2, <1>3 DEF Clamped
  <2>2. log' \in Seq(Token) /\ Len(log') = n /\ InPlace(ring, hi', log', Len(log'))
    BY <1>2, <2>1, CutInPlace
  <2> QED
    BY <1>2, <1>3, <2>1, <2>2, IdleStep, Sizes
<1>4. ASSUME Emptied
      PROVE  /\ log' \in Seq(Token) /\ Len(log') = 0 /\ kvLen' \in 0 .. Capacity
             /\ hi' \in Nat /\ InPlace(ring, hi', log', 0)
  BY <1>4, EmptyInPlace, Sizes DEF Emptied
<1>5. CASE Emptied /\ still
  BY <1>2, <1>4, <1>5, IdleStep, Sizes
<1>6. CASE Emptied /\ n # 0 /\ StartPrefill(0, Prefix(log, n))
  <2>1. Prefix(log, n) \in Seq(Token) /\ Len(Prefix(log, n)) = n
    BY <1>2, CutInPlace
  <2>2. 0 \in Nat /\ 0 < n /\ n <= Capacity
    BY <1>2, <1>6, Sizes
  <2>3. \A i \in 1..0 : log'[i] = Prefix(log, n)[i]
    OBVIOUS
  <2> QED
    BY <1>2, <1>4, <1>6, <2>1, <2>2, <2>3, StartStep
<1> QED
  BY <1>1, <1>3, <1>5, <1>6

-----------------------------------------------------------------------------
(* begin_turn reuses what longest_common_prefix found.                     *)

\* Every nonempty set of naturals has a least element.
LEMMA Least ==
    ASSUME NEW T, T \subseteq Nat, T # {}
    PROVE  \E x \in T : \A y \in T : x <= y
<1> DEFINE R == OpToRel(<, Nat)
<1>1. IsWellFoundedOn(R, Nat)
  BY NatLessThanWellFounded
<1>2. \A x, y \in Nat : x < y => <<x, y>> \in R
  BY DEF OpToRel
<1> HIDE DEF R
<1>3. PICK x \in T : \A y \in T : ~ (<<y, x>> \in R)
  BY <1>1, WFMin
<1>4. ASSUME NEW y \in T PROVE x <= y
  <2>1. x \in Nat /\ y \in Nat /\ ~(y < x)
    BY <1>2, <1>3
  <2> QED
    BY <2>1
<1> QED
  BY <1>4

\* The common prefix exists, fits both sequences, and they agree on it.
LEMMA CommonPrefix ==
    ASSUME NEW a \in Seq(Token), NEW b \in Seq(Token)
    PROVE  /\ CommonPrefixLen(a, b) \in 0 .. Lower(Len(a), Len(b))
           /\ \A i \in 1 .. CommonPrefixLen(a, b) : a[i] = b[i]
<1> DEFINE L == Lower(Len(a), Len(b))
           Common(n) == /\ \A i \in 1..n : a[i] = b[i]
                        /\ n < L => a[n + 1] # b[n + 1]
           D == {i \in 1..L : a[i] # b[i]}
<1>1. L \in Nat
  BY DEF Lower
<1> HIDE DEF L
<1>2. \E n \in 0..L : Common(n)
  <2>1. CASE D = {}
    <3>1. L \in 0..L /\ Common(L)
      BY <1>1, <2>1
    <3> QED
      BY <3>1
  <2>2. CASE D # {}
    <3>1. D \subseteq Nat
      BY <1>1
    <3> HIDE DEF D
    <3>2. PICK x \in D : \A y \in D : x <= y
      BY <2>2, <3>1, Least
    <3>3. x \in 1..L /\ a[x] # b[x] /\ x \in Nat
      BY <1>1, <3>2 DEF D
    <3>4. ASSUME NEW i \in 1 .. x - 1 PROVE a[i] = b[i]
      <4>1. i \in 1..L /\ ~(x <= i)
        BY <1>1, <3>3
      <4> QED
        BY <3>2, <4>1 DEF D
    <3>5. x - 1 \in 0..L /\ (x - 1) + 1 = x
      BY <1>1, <3>3
    <3>6. Common(x - 1)
      BY <3>3, <3>4, <3>5
    <3> QED
      BY <3>5, <3>6
  <2> QED
    BY <2>1, <2>2
<1>3. CommonPrefixLen(a, b) = CHOOSE n \in 0..L : Common(n)
  BY DEF CommonPrefixLen, L
<1> HIDE DEF Common
<1>4. CommonPrefixLen(a, b) \in 0..L /\ Common(CommonPrefixLen(a, b))
  BY <1>2, <1>3
<1> QED
  BY <1>4 DEF Common, L

LEMMA BeginTurnStep == IInv /\ BeginTurn => IInv'
<1> SUFFICES ASSUME IInv, BeginTurn PROVE IInv'
  OBVIOUS
<1> DEFINE matched(prompt) == Lower(CommonPrefixLen(log, prompt), kvLen)
           reused(prompt) == IF DeepRewind(matched(prompt)) THEN 0 ELSE matched(prompt)
<1>1. PICK prompt \in Prompts :
        IF reused(prompt) = Len(prompt)
        THEN /\ log' = prompt
             /\ kvLen' = Len(prompt)
             /\ UNCHANGED <<writeEnd, ring, side, sideValid, todo, pos, engine, saved, hi>>
        ELSE /\ log' = Prefix(log, reused(prompt))
             /\ kvLen' = IF reused(prompt) < Len(log) THEN reused(prompt) ELSE kvLen
             /\ hi' = IF reused(prompt) = 0 THEN 0 ELSE hi
             /\ IF reused(prompt) = 0 /\ Len(prompt) <= EngineMax
                THEN /\ todo' = prompt
                     /\ engine' = TRUE
                     /\ UNCHANGED <<writeEnd, ring, side, sideValid, pos, saved>>
                ELSE StartPrefill(reused(prompt), prompt)
  BY DEF BeginTurn
<1> DEFINE reuse == reused(prompt)
<1>2. /\ Idle /\ TypeOK /\ LogInPlace /\ SavedInPlace
      /\ log \in Seq(Token) /\ Len(log) \in Nat /\ Len(log) <= Capacity
      /\ kvLen \in 0 .. Capacity /\ hi \in Nat
  BY DEF BeginTurn, IInv, TypeOK
<1>3. prompt \in Seq(Token) /\ Len(prompt) \in 1 .. Capacity
  BY InputsAssumption
<1>4. /\ reuse \in 0 .. Len(log) /\ reuse <= Len(prompt)
      /\ \A i \in 1..reuse : log[i] = prompt[i]
  <2> DEFINE c == CommonPrefixLen(log, prompt)
  <2>1. /\ c \in 0 .. Lower(Len(log), Len(prompt)) /\ \A i \in 1..c : log[i] = prompt[i]
    BY <1>2, <1>3, CommonPrefix
  <2> HIDE DEF c
  <2>2. c \in Nat /\ c <= Len(log) /\ c <= Len(prompt)
    BY <1>2, <1>3, <2>1 DEF Lower
  <2>3. kvLen \in Nat
    BY <1>2, Sizes
  <2>4. reuse \in 0..c
    BY <2>2, <2>3 DEF c, Lower
  <2> HIDE DEF reuse
  <2> QED
    BY <1>2, <1>3, <2>1, <2>2, <2>4
<1> HIDE DEF reuse, reused, matched
<1>5. reuse = reused(prompt)
  BY DEF reuse
<1>6. CASE reuse = Len(prompt)
  <2>1. log' = prompt /\ kvLen' = Len(prompt)
        /\ UNCHANGED <<writeEnd, ring, side, sideValid, todo, pos, engine, saved, hi>>
    BY <1>1, <1>5, <1>6
  <2>2. InPlace(ring, hi, prompt, Len(prompt))
    BY <1>2, <1>4, <1>6, InPlaceAgree DEF LogInPlace
  <2>3. kvLen' \in 0 .. Capacity /\ Len(prompt) <= Capacity /\ hi' \in Nat
    BY <1>2, <1>3, <2>1, Sizes
  <2> QED
    BY <1>2, <1>3, <2>1, <2>2, <2>3, IdleStep
<1>7. CASE reuse # Len(prompt)
  <2>1. /\ log' = Prefix(log, reuse)
        /\ kvLen' = IF reuse < Len(log) THEN reuse ELSE kvLen
        /\ hi' = IF reuse = 0 THEN 0 ELSE hi
    BY <1>1, <1>5, <1>7
  <2>2. /\ kvLen' \in 0 .. Capacity /\ hi' \in Nat /\ (reuse = 0 \/ hi' = hi)
        /\ reuse \in Nat /\ reuse < Len(prompt)
    BY <1>2, <1>3, <1>4, <1>7, <2>1, Sizes
  <2>3. /\ log' \in Seq(Token) /\ Len(log') = reuse /\ InPlace(ring, hi', log', reuse)
    BY <1>4, <2>1, <2>2, CutInPlace
  <2>4. \A i \in 1..reuse : log'[i] = prompt[i]
    BY <1>2, <1>4, <2>1, PrefixType
  <2>5. CASE StartPrefill(reuse, prompt)
    BY <1>2, <1>3, <2>2, <2>3, <2>4, <2>5, StartStep
  <2>6. CASE /\ reuse = 0 /\ todo' = prompt /\ engine' = TRUE
             /\ UNCHANGED <<writeEnd, ring, side, sideValid, pos, saved>>
    <3>1. ~Idle' /\ engine' \in BOOLEAN /\ engine'
      BY <1>3, <2>6, NonEmpty DEF Idle
    <3>2. TypeOK'
      BY <1>2, <1>3, <1>4, <2>2, <2>3, <2>6, <3>1, Sizes DEF TypeOK
    <3>3. JobOK' /\ JobInPlace'
      BY <2>3, <2>6, <3>1 DEF JobOK, JobInPlace
    <3>4. LogInPlace' /\ SavedInPlace'
      BY <1>2, <2>3, <2>6 DEF LogInPlace, SavedInPlace
    <3> QED
      BY <3>2, <3>3, <3>4 DEF IInv
  <2> QED
    BY <1>1, <1>5, <1>7, <2>5, <2>6
<1> QED
  BY <1>6, <1>7

LEMMA DenoiseStep == IInv /\ Denoise => IInv'
<1> SUFFICES ASSUME IInv, Denoise PROVE IInv'
  OBVIOUS
<1>1. PICK rows \in 1..Canvas :
        /\ ring' = Written(ring, kvLen, kvLen + rows, Noise)
        /\ hi' = Higher(hi, kvLen + rows)
  BY DEF Denoise
<1>2. /\ Idle /\ kvLen = Len(log) /\ writeEnd' = NoEnd
      /\ UNCHANGED <<log, kvLen, side, sideValid, todo, pos, engine, saved>>
  BY DEF Denoise
<1> DEFINE to == kvLen + rows
<1>3. /\ kvLen \in Nat /\ to \in Nat /\ to <= NoEnd + 1 /\ hi \in Nat
      /\ log \in Seq(Token) /\ ring \in [Slots -> Seq(Token)] /\ LogInPlace
  BY Sizes DEF IInv, TypeOK
<1>4. Noise \in [0 .. NoEnd -> Seq(Token)]
  BY LabelsType, <<>> \in Seq(Token) DEF Noise
<1> HIDE DEF to
<1>5. ring' \in [Slots -> Seq(Token)]
  BY <1>1, <1>3, <1>4, WrittenType DEF to
<1>6. hi' \in Nat
  BY <1>1, <1>3 DEF to, Higher
<1>7. InPlace(ring', hi', log, Len(log))
  BY <1>1, <1>2, <1>3, WriteAbove DEF to, LogInPlace
<1>8. engine' \in BOOLEAN /\ ~engine' /\ Idle'
  BY <1>2 DEF IInv, TypeOK, JobOK, Idle
<1>9. TypeOK'
  BY <1>2, <1>5, <1>6, <1>8, Sizes DEF IInv, TypeOK
<1>10. JobOK' /\ JobInPlace'
  BY <1>8 DEF JobOK, JobInPlace
<1>11. LogInPlace' /\ SavedInPlace'
  BY <1>2, <1>7 DEF IInv, LogInPlace, SavedInPlace
<1> QED
  BY <1>9, <1>10, <1>11 DEF IInv

\* A prefix copied slot by slot is in place: a position's slot is at or below it.
LEMMA CopyInPlace ==
    ASSUME NEW buf, NEW copy, NEW h, NEW l, NEW n \in Nat, InPlace(buf, h, l, n),
           \A s \in Slots : s < n => copy[s] = buf[s]
    PROVE  InPlace(copy, h, l, n)
<1> SUFFICES ASSUME NEW p \in 0 .. n - 1, h <= p + Ring
             PROVE  copy[SlotOf(p)] = Prefix(l, p + 1)
  BY DEF InPlace
<1>1. p \in Nat /\ p < n
  OBVIOUS
<1>2. SlotOf(p) \in Slots /\ SlotOf(p) <= p
  BY <1>1, SlotOfType
<1>3. SlotOf(p) < n
  BY <1>1, <1>2, Sizes DEF Slots
<1> QED
  BY <1>2, <1>3 DEF InPlace

LEMMA SnapshotKvStep == IInv /\ SnapshotKv => IInv'
<1> SUFFICES ASSUME IInv, SnapshotKv PROVE IInv'
  OBVIOUS
<1> DEFINE copy == [s \in Slots |-> IF s < Len(log) THEN ring[s] ELSE <<>>]
<1>1. /\ Idle /\ saved' = [tokens |-> log, hi |-> hi, cells |-> copy]
      /\ UNCHANGED <<log, kvLen, writeEnd, ring, side, sideValid, todo, pos, engine, hi>>
  BY DEF SnapshotKv
<1>2. /\ log \in Seq(Token) /\ Len(log) \in Nat /\ Len(log) <= Capacity /\ hi \in Nat
      /\ ring \in [Slots -> Seq(Token)] /\ LogInPlace
  BY DEF IInv, TypeOK
<1>3. copy \in [Slots -> Seq(Token)]
  BY <1>2
<1>4. \A s \in Slots : s < Len(log) => copy[s] = ring[s]
  OBVIOUS
<1> HIDE DEF copy
<1>5. InPlace(copy, hi, log, Len(log))
  BY <1>2, <1>4, CopyInPlace DEF LogInPlace
<1>6. /\ saved' \in [tokens : Seq(Token), hi : Nat, cells : [Slots -> Seq(Token)]]
      /\ Len(saved'.tokens) <= Capacity
  BY <1>1, <1>2, <1>3
<1>7. SavedInPlace'
  BY <1>1, <1>5 DEF SavedInPlace
<1>8. engine' \in BOOLEAN /\ ~engine' /\ Idle'
  BY <1>1 DEF IInv, TypeOK, JobOK, Idle
<1>9. TypeOK'
  BY <1>1, <1>6, <1>8 DEF IInv, TypeOK
<1>10. JobOK' /\ JobInPlace' /\ LogInPlace'
  BY <1>1, <1>8 DEF IInv, JobOK, JobInPlace, LogInPlace
<1> QED
  BY <1>7, <1>9, <1>10 DEF IInv

LEMMA RestoreKvStep == IInv /\ RestoreKv => IInv'
<1> SUFFICES ASSUME IInv, RestoreKv PROVE IInv'
  OBVIOUS
<1> DEFINE l == saved.tokens
           back == [s \in Slots |-> IF s < Len(l) THEN saved.cells[s] ELSE ring[s]]
<1>1. /\ Idle /\ log' = l /\ kvLen' = Len(l) /\ hi' = saved.hi /\ ring' = back
      /\ UNCHANGED <<writeEnd, side, sideValid, todo, pos, engine, saved>>
  BY DEF RestoreKv
<1>2. /\ l \in Seq(Token) /\ Len(l) \in Nat /\ Len(l) <= Capacity /\ saved.hi \in Nat
      /\ saved.cells \in [Slots -> Seq(Token)] /\ ring \in [Slots -> Seq(Token)]
      /\ SavedInPlace
  BY DEF IInv, TypeOK
<1>3. back \in [Slots -> Seq(Token)]
  BY <1>2
<1>4. \A s \in Slots : s < Len(l) => back[s] = saved.cells[s]
  OBVIOUS
<1> HIDE DEF back
<1>5. InPlace(back, saved.hi, l, Len(l))
  BY <1>2, <1>4, CopyInPlace DEF SavedInPlace
<1>6. Len(l) \in 0 .. Capacity
  BY <1>2, Sizes
<1> HIDE DEF l
<1>7. engine' \in BOOLEAN /\ ~engine' /\ Idle'
  BY <1>1 DEF IInv, TypeOK, JobOK, Idle
<1>8. TypeOK'
  BY <1>1, <1>2, <1>3, <1>6, <1>7 DEF IInv, TypeOK
<1>9. JobOK' /\ JobInPlace'
  BY <1>7 DEF JobOK, JobInPlace
<1>10. LogInPlace' /\ SavedInPlace'
  BY <1>1, <1>2, <1>5 DEF LogInPlace, SavedInPlace
<1> QED
  BY <1>8, <1>9, <1>10 DEF IInv

LEMMA StutterStep == IInv /\ UNCHANGED vars => IInv'
<1> SUFFICES ASSUME IInv, UNCHANGED vars PROVE IInv'
  OBVIOUS
<1>1. UNCHANGED <<log, kvLen, writeEnd, ring, side, sideValid, todo, pos, engine, saved, hi>>
  BY DEF vars
<1>2. engine' \in BOOLEAN
  BY <1>1 DEF IInv, TypeOK
<1>3. TypeOK'
  BY <1>1, <1>2 DEF IInv, TypeOK
<1>4. JobOK' /\ JobInPlace' /\ LogInPlace' /\ SavedInPlace'
  BY <1>1 DEF IInv, JobOK, JobInPlace, LogInPlace, SavedInPlace, Idle
<1> QED
  BY <1>3, <1>4 DEF IInv

-----------------------------------------------------------------------------
(* The theorems.                                                           *)

\* The strengthened invariant holds in every reachable state.
THEOREM InductiveInvariant == Spec => []IInv
<1>1. IInv /\ [Next]_vars => IInv'
  <2> SUFFICES ASSUME IInv, [Next]_vars PROVE IInv'
    OBVIOUS
  <2>1. CASE PrefillChunk
    BY <2>1, PrefillChunkStep
  <2>2. CASE PrefillError
    BY <2>2, PrefillErrorStep
  <2>3. CASE EnginePrefill
    BY <2>3, EnginePrefillStep
  <2>4. CASE EngineError
    BY <2>4, EngineErrorStep
  <2>5. CASE ExtendKv
    BY <2>5, ExtendKvStep
  <2>6. CASE ResetKv
    BY <2>6, ResetKvStep
  <2>7. CASE TruncateKvTo
    BY <2>7, TruncateKvToStep
  <2>8. CASE BeginTurn
    BY <2>8, BeginTurnStep
  <2>9. CASE Denoise
    BY <2>9, DenoiseStep
  <2>10. CASE SnapshotKv
    BY <2>10, SnapshotKvStep
  <2>11. CASE RestoreKv
    BY <2>11, RestoreKvStep
  <2>12. CASE UNCHANGED vars
    BY <2>12, StutterStep
  <2> QED
    BY <2>1, <2>2, <2>3, <2>4, <2>5, <2>6, <2>7, <2>8, <2>9, <2>10, <2>11, <2>12
       DEF Next
<1> QED
  BY InitIInv, <1>1, PTL DEF Spec

\* Types and capacity: no operation, failure or swap takes the committed log,
\* kv_len or a prefill's target past max_seq - CANVAS.
THEOREM TypeCorrect == Spec => []TypeOK
<1>1. IInv => TypeOK
  BY DEF IInv
<1> QED
  BY <1>1, InductiveInvariant, PTL

\* Every position of the current log within one ring length of the highest
\* write is in its slot, through any rewind, swap, failed prefill and denoise.
THEOREM RingCorrect == Spec => []RingHolds
BY InductiveInvariant, IInvImpliesRingHolds, PTL

-----------------------------------------------------------------------------
(* The window a query reads.                                               *)

\* The ring is as long as the context, or a batched forward and its window fit.
LEMMA Slack ==
    /\ Window \in Nat /\ Window > 0
    /\ Ring >= MaxSeq \/ Ring + 1 >= Subs * Canvas + Window
    /\ Subs * Canvas \in Nat /\ Subs * Canvas >= Canvas
<1>1. Window \in Nat /\ Window > 0 /\ Subs \in Nat /\ Subs >= 1
  BY SizesAssumption
<1>2. Subs * Canvas \in Nat /\ Subs * Canvas >= 1 * Canvas
  BY <1>1, Sizes
<1> QED
  BY <1>1, <1>2, RingAssumption, Sizes

\* Writes below h leave what a query at n reads.
Reaches(h, n) == \A p \in Readable(n) : h <= p + Ring

CurrentIs ==
    /\ Idle \/ engine => Current = log
    /\ ~Idle /\ ~engine => /\ Current = Prefix(todo, pos) /\ Len(Current) = pos
                           /\ \A i \in 1 .. pos : Current[i] = todo[i]
    /\ Len(Current) \in 0 .. Capacity

\* The current log is the log, or what is in place of the running prefill's target.
LEMMA CurrentLen == IInv => CurrentIs
<1> SUFFICES ASSUME TypeOK, JobOK PROVE CurrentIs
  BY DEF IInv
<1>1. CASE Idle \/ engine
  BY <1>1, Sizes DEF Current, TypeOK, CurrentIs
<1>2. CASE ~Idle /\ ~engine
  <2>1. pos \in 0 .. Len(todo) /\ todo \in Seq(Token) /\ pos \in 0 .. Capacity
    BY <1>2, Sizes DEF TypeOK, JobOK
  <2>2. Len(Prefix(todo, pos)) = pos /\ \A i \in 1 .. pos : Prefix(todo, pos)[i] = todo[i]
    BY <2>1, PrefixType
  <2> QED
    BY <1>2, <2>1, <2>2 DEF Current, CurrentIs
<1> QED
  BY <1>1, <1>2

LEMMA CurrentLenNext == IInv' => CurrentIs'
BY CurrentLen, PTL

\* Where no write reached a ring above the window, the window is exact.
LEMMA ReachedExact == IInv /\ Reaches(hi, Len(Current)) => WindowExact
<1> SUFFICES ASSUME IInv, Reaches(hi, Len(Current)) PROVE WindowExact
  OBVIOUS
<1>1. Len(Current) \in Nat /\ Window \in Nat /\ Window > 0
  BY CurrentLen, Sizes, Slack DEF CurrentIs
<1>2. Readable(Len(Current)) \subseteq 0 .. Len(Current) - 1
  BY <1>1 DEF Readable, Monus
<1> QED
  BY <1>2, IInvImpliesRingHolds DEF RingHolds, Reaches, WindowExact

LEMMA ReachedExactNext == IInv' /\ Reaches(hi, Len(Current))' => WindowExact'
BY ReachedExact, PTL

\* Residue of one canvas above the end does not reach the window.
LEMMA CleanReaches ==
    ASSUME NEW h \in Nat, NEW n \in Nat, n <= Capacity, h <= n + Canvas
    PROVE  Reaches(h, n)
<1> SUFFICES ASSUME NEW p \in Readable(n) PROVE h <= p + Ring
  BY DEF Reaches
<1>1. p \in Nat /\ p + Window >= n + 1 /\ p <= n - 1
  BY Slack DEF Readable, Monus
<1>2. CASE Ring >= MaxSeq
  BY <1>1, <1>2, Sizes
<1>3. CASE Ring + 1 >= Subs * Canvas + Window
  <2>1. Ring + 1 >= Canvas + Window
    BY <1>3, Slack, Sizes
  <2> QED
    BY <1>1, <2>1, Sizes, Slack
<1> QED
  BY <1>2, <1>3, Slack

\* What the rewind check lets through does not reach the shorter log's window.
LEMMA RewindReaches ==
    ASSUME NEW h \in Nat, NEW old \in Nat, NEW n \in Nat, n < old, h <= old + Canvas,
           ~NeedsRebuild(old, n)
    PROVE  Reaches(h, n)
<1> SUFFICES ASSUME NEW p \in Readable(n) PROVE h <= p + Ring
  BY DEF Reaches
<1>1. p \in Nat /\ p >= Monus(n, Window - 1)
  BY Slack DEF Readable, Monus
<1>2. ~(Monus(n, Window - 1) < Monus(old + Canvas, Ring))
  BY DEF NeedsRebuild
<1>3. Monus(n, Window - 1) \in Nat /\ Monus(old + Canvas, Ring) \in Nat
  BY Slack, Sizes DEF Monus
<1>4. p >= Monus(old + Canvas, Ring)
  BY <1>1, <1>2, <1>3
<1>5. Monus(old + Canvas, Ring) + Ring >= old + Canvas
  BY Sizes DEF Monus
<1> QED
  BY <1>1, <1>3, <1>4, <1>5, Sizes

\* Nothing is read below an empty log.
LEMMA EmptyReaches ==
    ASSUME NEW h PROVE Reaches(h, 0)
<1>1. Readable(0) = {}
  BY Slack DEF Readable, Monus
<1> QED
  BY <1>1 DEF Reaches

\* Entering a prefill makes the log it starts from the current one.
LEMMA StartCurrent ==
    ASSUME IInv, IInv', Idle, NEW from \in Nat, NEW target \in Seq(Token),
           StartPrefill(from, target), from < Len(target), Len(log') = from
    PROVE  Len(Current') = from
<1>1. engine' = engine /\ ~engine
  BY DEF StartPrefill, IInv, JobOK
<1>2. CASE todo' = target /\ pos' = from
  <2>1. ~Idle'
    BY <1>2, NonEmpty DEF Idle
  <2>2. Len(Current') = pos'
    BY <1>1, <2>1, CurrentLenNext DEF CurrentIs
  <2> QED
    BY <1>2, <2>2
<1>3. CASE todo' = todo
  <2>1. Idle'
    BY <1>3 DEF Idle
  <2>2. Len(Current') = Len(log')
    BY <2>1, CurrentLenNext DEF CurrentIs
  <2> QED
    BY <2>2
<1> QED
  BY <1>2, <1>3 DEF StartPrefill


\* A query whose window was in place when a forward began finds it, and the
\* forward's own rows, when the forward attends: no row of the forward takes a slot
\* it still reads (kv_ring_slots).
THEOREM ChunksReadWhatTheyNeed == Spec => ChunkReadsHeld
<1> DEFINE A == PrefillChunk /\ WindowExact =>
                    \A p \in Monus(pos, Window - 1) .. RowsWrittenEnd - 1 :
                        Holds(ring', todo, p)
<1>1. IInv /\ [Next]_vars => A
  <2> SUFFICES ASSUME IInv, PrefillChunk, WindowExact,
                      NEW p \in Monus(pos, Window - 1) .. RowsWrittenEnd - 1
               PROVE  Holds(ring', todo, p)
    OBVIOUS
  <2> DEFINE end == RowsWrittenEnd
  <2>1. /\ ~Idle /\ ~engine /\ ring' = Written(ring, pos, end, Labels(todo))
        /\ TypeOK /\ JobOK
    BY DEF PrefillChunk, IInv
  <2>2. /\ pos \in Nat /\ Len(todo) \in Nat /\ end \in pos .. Len(todo)
        /\ Len(todo) <= Capacity /\ pos < Len(todo)
    BY <2>1, RowsWritten, Sizes DEF TypeOK, JobOK
  <2>3. p \in Nat /\ p + Window >= pos + 1 /\ p < end
    BY <2>2, Slack DEF Monus
  <2>4. end <= pos + Subs * Canvas
    <3> DEFINE subs == Lower((Len(todo) - pos) \div Canvas, Subs)
    <3>1. subs \in Nat /\ subs <= Subs
      BY <2>2, Sizes DEF Lower
    <3>2. ForwardRows = IF subs >= 2 /\ pos + subs * Canvas + Canvas <= MaxSeq
                        THEN subs * Canvas ELSE Canvas
      BY DEF ForwardRows
    <3> HIDE DEF subs
    <3>3. subs * Canvas <= Subs * Canvas /\ subs * Canvas \in Nat
      BY <3>1, Sizes
    <3>4. ForwardRows <= Subs * Canvas /\ ForwardRows \in Nat
      BY <3>2, <3>3, Slack, Sizes
    <3>5. end <= pos + ForwardRows
      <4>1. writeEnd \in Nat
        BY <2>1, <2>2 DEF JobOK
      <4> QED
        BY <2>2, <3>4, <4>1 DEF RowsWrittenEnd, Lower
    <3> QED
      BY <2>2, <3>4, <3>5, Slack
  <2>5. end <= p + Ring
    <3>1. CASE Ring >= MaxSeq
      BY <2>2, <2>3, <3>1, Sizes
    <3>2. CASE Ring + 1 >= Subs * Canvas + Window
      BY <2>2, <2>3, <2>4, <3>2, Sizes, Slack
    <3> QED
      BY <3>1, <3>2, Slack
  <2> HIDE DEF end
  <2>6. CASE pos <= p
    <3>1. Labels(todo)[p] = Prefix(todo, p + 1)
      BY <2>2, <2>3, Sizes DEF Labels
    <3> QED
      BY <2>1, <2>2, <2>3, <2>5, <2>6, <3>1, WrittenInside DEF Holds
  <2>7. CASE p < pos
    <3>1. /\ Current = Prefix(todo, pos) /\ Len(Current) = pos
          /\ \A i \in 1 .. pos : Current[i] = todo[i]
      BY <2>1, CurrentLen DEF CurrentIs
    <3>2. p \in Readable(pos)
      BY <2>2, <2>3, <2>7 DEF Readable
    <3>3. ring[SlotOf(p)] = Prefix(Current, p + 1)
      BY <3>1, <3>2 DEF WindowExact, Holds
    <3>4. Prefix(Current, p + 1) = Prefix(todo, p + 1)
      <4>1. p + 1 \in 0 .. pos
        BY <2>2, <2>3, <2>7
      <4> QED
        BY <2>2, <3>1, <4>1, PrefixAgree
    <3> QED
      BY <2>1, <2>2, <2>3, <2>5, <2>7, <3>3, <3>4, WrittenBelow DEF Holds
  <2> QED
    BY <2>2, <2>3, <2>6, <2>7
<1> HIDE DEF A
<1>2. Spec => [][A]_vars
  BY <1>1, InductiveInvariant, PTL DEF Spec
<1> QED
  BY <1>2 DEF ChunkReadsHeld, A

\* A forward keeps a clean cache clean.
LEMMA ChunkReaches ==
    ASSUME IInv, IInv', PrefillChunk, Clean(hi, Current)
    PROVE  Reaches(hi', Len(Current'))
<1> DEFINE end == RowsWrittenEnd
<1>1. /\ ~Idle /\ ~engine /\ engine' = engine /\ hi' = Higher(hi, end) /\ TypeOK /\ JobOK
      /\ ForwardRows \in Nat /\ ForwardRows > 0 /\ end \in pos .. Len(todo)
      /\ pos + ForwardRows >= Len(todo) => end = Len(todo)
      /\ pos + ForwardRows < Len(todo) => end = pos + ForwardRows
  BY RowsWritten DEF PrefillChunk, IInv
<1>2. /\ Len(Current) = pos /\ pos \in Nat /\ Len(todo) \in Nat /\ Len(todo) <= Capacity
      /\ hi \in Nat
  BY <1>1, CurrentLen, Sizes DEF CurrentIs, TypeOK
<1>3. hi <= pos + Canvas
  BY <1>2 DEF Clean
<1> HIDE DEF end
<1>4. Len(Current') = end
  <2>1. CASE pos + ForwardRows >= Len(todo)
    <3>1. log' = todo /\ todo' = <<>>
      BY <2>1 DEF PrefillChunk
    <3>2. Current' = log'
      BY <3>1, CurrentLenNext DEF CurrentIs, Idle
    <3> QED
      BY <1>1, <2>1, <3>1, <3>2
  <2>2. CASE ~(pos + ForwardRows >= Len(todo))
    <3>1. todo' = todo /\ pos' = pos + ForwardRows
      BY <2>2 DEF PrefillChunk
    <3>2. Len(Current') = pos'
      BY <1>1, <3>1, CurrentLenNext DEF CurrentIs, Idle
    <3> QED
      BY <1>1, <1>2, <2>2, <3>1, <3>2
  <2> QED
    BY <2>1, <2>2
<1>5. hi' <= end + Canvas /\ hi' \in Nat /\ end \in Nat /\ end <= Capacity
  BY <1>1, <1>2, <1>3, Sizes DEF Higher
<1> QED
  BY <1>4, <1>5, CleanReaches

\* After a rewind judged clean the ring still holds what a query may read.
LEMMA TruncateReaches ==
    ASSUME IInv, IInv', TruncateKvTo, Clean(hi, Current)
    PROVE  Reaches(hi', Len(Current'))
<1>1. /\ Idle /\ Current = log /\ log \in Seq(Token) /\ Len(log) \in Nat /\ hi \in Nat
      /\ Len(log) <= Capacity
  <2>1. Idle /\ Current = log
    BY CurrentLen DEF TruncateKvTo, CurrentIs
  <2>2. log \in Seq(Token) /\ Len(log) \in Nat /\ hi \in Nat /\ Len(log) <= Capacity
    BY DEF IInv, TypeOK
  <2> QED
    BY <2>1, <2>2
<1>2. hi <= Len(log) + Canvas
  BY <1>1 DEF Clean
<1> DEFINE still == UNCHANGED <<writeEnd, ring, side, sideValid, todo, pos, engine, saved>>
<1>3. PICK n \in 0 .. Len(log) - 1 :
        IF ~NeedsRebuild(Len(log), n) THEN Clamped(n) /\ still
        ELSE Emptied /\ (IF n = 0 THEN still ELSE StartPrefill(0, Prefix(log, n)))
  BY DEF TruncateKvTo
<1>4. n \in Nat /\ n < Len(log) /\ n \in 0 .. Len(log)
  BY <1>1
<1>5. still => Current' = log'
  <2>1. still => Idle'
    BY <1>1 DEF Idle
  <2> QED
    BY <2>1, CurrentLenNext DEF CurrentIs
<1>6. CASE ~NeedsRebuild(Len(log), n) /\ Clamped(n) /\ still
  <2>1. Len(Current') = n
    BY <1>1, <1>4, <1>5, <1>6, PrefixType DEF Clamped
  <2>2. hi' = 0 \/ hi' = hi
    BY <1>6 DEF Clamped
  <2>3. hi' \in Nat /\ hi' <= Len(log) + Canvas
    BY <1>1, <1>2, <2>2, Sizes
  <2> QED
    BY <1>1, <1>4, <1>6, <2>1, <2>3, RewindReaches
<1>7. CASE Emptied /\ still
  <2>1. Len(Current') = 0
    BY <1>5, <1>7 DEF Emptied
  <2> QED
    BY <2>1, EmptyReaches
<1>8. CASE Emptied /\ n # 0 /\ StartPrefill(0, Prefix(log, n))
  <2>1. Prefix(log, n) \in Seq(Token) /\ Len(Prefix(log, n)) = n /\ Len(log') = 0
    BY <1>1, <1>4, <1>8, PrefixType DEF Emptied
  <2>2. 0 \in Nat /\ 0 < n
    BY <1>4, <1>8
  <2>3. Len(Current') = 0
    BY <1>1, <1>8, <2>1, <2>2, StartCurrent
  <2> QED
    BY <2>3, EmptyReaches
<1> QED
  BY <1>3, <1>6, <1>7, <1>8

\* So it does after the rewind at the start of a turn.
LEMMA BeginTurnReaches ==
    ASSUME IInv, IInv', BeginTurn, Clean(hi, Current)
    PROVE  Reaches(hi', Len(Current'))
<1> DEFINE matched(prompt) == Lower(CommonPrefixLen(log, prompt), kvLen)
           reused(prompt) == IF DeepRewind(matched(prompt)) THEN 0 ELSE matched(prompt)
<1>1. PICK prompt \in Prompts :
        IF reused(prompt) = Len(prompt)
        THEN /\ log' = prompt
             /\ kvLen' = Len(prompt)
             /\ UNCHANGED <<writeEnd, ring, side, sideValid, todo, pos, engine, saved, hi>>
        ELSE /\ log' = Prefix(log, reused(prompt))
             /\ kvLen' = IF reused(prompt) < Len(log) THEN reused(prompt) ELSE kvLen
             /\ hi' = IF reused(prompt) = 0 THEN 0 ELSE hi
             /\ IF reused(prompt) = 0 /\ Len(prompt) <= EngineMax
                THEN /\ todo' = prompt
                     /\ engine' = TRUE
                     /\ UNCHANGED <<writeEnd, ring, side, sideValid, pos, saved>>
                ELSE StartPrefill(reused(prompt), prompt)
  BY DEF BeginTurn
<1> DEFINE m == matched(prompt)
           n == reused(prompt)
<1>2. Idle /\ Current = log
  BY CurrentLen DEF BeginTurn, CurrentIs
<1>3. /\ log \in Seq(Token) /\ Len(log) \in Nat /\ hi \in Nat /\ Len(log) <= Capacity
      /\ kvLen \in Nat
  BY Sizes DEF IInv, TypeOK
<1>4. hi <= Len(log) + Canvas
  BY <1>2, <1>3 DEF Clean
<1>5. prompt \in Seq(Token) /\ Len(prompt) \in 1 .. Capacity
  BY InputsAssumption
<1>6. m \in Nat /\ m <= Len(log) /\ m <= Len(prompt)
  <2>1. CommonPrefixLen(log, prompt) \in 0 .. Lower(Len(log), Len(prompt))
    BY <1>3, <1>5, CommonPrefix
  <2> QED
    BY <1>3, <1>5, <2>1 DEF Lower
<1>7. /\ n \in Nat /\ n <= Len(log) /\ n <= Len(prompt)
      /\ \/ n = 0
         \/ n = m /\ ~NeedsRebuild(Len(log), m)
  <2>1. n = IF NeedsRebuild(Len(log), m) THEN 0 ELSE m
    BY DEF DeepRewind
  <2> HIDE DEF m, n
  <2>2. CASE NeedsRebuild(Len(log), m)
    <3>1. n = 0
      BY <2>1, <2>2
    <3>2. Len(prompt) \in Nat
      BY <1>5
    <3>3. n \in Nat /\ n <= Len(log) /\ n <= Len(prompt)
      BY <1>3, <3>1, <3>2
    <3> QED
      BY <3>1, <3>3
  <2>3. CASE ~NeedsRebuild(Len(log), m)
    BY <1>6, <2>1, <2>3
  <2> QED
    BY <2>2, <2>3
<1> HIDE DEF m, n, matched, reused
<1>8. Reaches(hi', n)
  <2>1. hi' = 0 \/ hi' = hi
    BY <1>1
  <2>2. hi' \in Nat /\ hi' <= Len(log) + Canvas
    BY <1>3, <1>4, <2>1, Sizes
  <2>3. CASE n = 0
    BY <2>3, EmptyReaches
  <2>4. CASE n = Len(log)
    BY <1>3, <2>2, <2>4, CleanReaches
  <2>5. CASE n < Len(log) /\ ~NeedsRebuild(Len(log), n)
    BY <1>3, <1>7, <2>2, <2>5, RewindReaches
  <2> QED
    BY <1>3, <1>7, <2>3, <2>4, <2>5
<1>9. Len(Current') = n
  <2>1. CASE n = Len(prompt)
    <3>1. log' = prompt /\ todo' = todo
      BY <1>1, <2>1 DEF n
    <3>2. Current' = log'
      BY <1>2, <3>1, CurrentLenNext DEF CurrentIs, Idle
    <3> QED
      BY <2>1, <3>1, <3>2
  <2>2. CASE n # Len(prompt)
    <3>1. log' = Prefix(log, n) /\ Len(log') = n
      BY <1>1, <1>3, <1>7, <2>2, PrefixType DEF n
    <3>2. CASE engine' = TRUE
      <4>1. Current' = log'
        BY <3>2, CurrentLenNext DEF CurrentIs
      <4> QED
        BY <3>1, <4>1
    <3>3. CASE StartPrefill(n, prompt)
      <4>1. n < Len(prompt)
        BY <1>5, <1>7, <2>2
      <4> QED
        BY <1>2, <1>5, <1>7, <3>1, <3>3, <4>1, StartCurrent
    <3> QED
      BY <1>1, <2>2, <3>2, <3>3 DEF n
  <2> QED
    BY <2>1, <2>2
<1> QED
  BY <1>8, <1>9

\* The steps that neither forward, rewind nor begin a turn.
LEMMA OtherReaches ==
    ASSUME IInv, IInv', Clean(hi, Current), Clean(saved.hi, saved.tokens),
           \/ EnginePrefill \/ EngineError \/ ExtendKv \/ ResetKv \/ Denoise
           \/ SnapshotKv \/ RestoreKv
    PROVE  Reaches(hi', Len(Current'))
<1>1. /\ log \in Seq(Token) /\ Len(log) \in Nat /\ hi \in Nat /\ Len(log) <= Capacity
      /\ saved.tokens \in Seq(Token) /\ Len(saved.tokens) <= Capacity /\ saved.hi \in Nat
      /\ todo \in Seq(Token) /\ Len(todo) <= Capacity /\ hi' \in Nat
  BY DEF IInv, TypeOK
<1>2. Idle \/ engine => hi <= Len(log) + Canvas
  BY <1>1, CurrentLen DEF Clean, CurrentIs
<1>3. Idle' => Current' = log'
  BY CurrentLenNext DEF CurrentIs
<1>4. CASE EnginePrefill
  <2>1. log' = todo /\ todo' = <<>> /\ hi' = Higher(hi, Len(todo)) /\ engine
    BY <1>4 DEF EnginePrefill
  <2>2. Len(log) = 0
    BY <2>1 DEF IInv, JobOK
  <2>3. Len(Current') = Len(todo)
    BY <1>3, <2>1 DEF Idle
  <2>4. hi' <= Len(todo) + Canvas
    BY <1>1, <1>2, <2>1, <2>2, Sizes DEF Higher
  <2> QED
    BY <1>1, <2>3, <2>4, CleanReaches
<1>5. CASE EngineError
  <2>1. log' = log /\ todo' = <<>> /\ engine
    BY <1>5 DEF EngineError
  <2>2. Len(log) = 0
    BY <2>1 DEF IInv, JobOK
  <2>3. Len(Current') = 0
    BY <1>3, <2>1, <2>2 DEF Idle
  <2> QED
    BY <2>3, EmptyReaches
<1>6. CASE ExtendKv
  <2>1. PICK d \in Deltas : /\ Len(log) + Len(d) <= Capacity
                            /\ StartPrefill(Len(log), log \o d)
    BY <1>6 DEF ExtendKv
  <2>2. Idle /\ log' = log /\ hi' = hi
    BY <1>6 DEF ExtendKv
  <2>3. d \in Seq(Token) /\ Len(d) > 0 /\ Len(d) \in Nat
    BY InputsAssumption, NonEmpty
  <2>4. log \o d \in Seq(Token) /\ Len(log) < Len(log \o d)
    BY <1>1, <2>3
  <2>5. Len(Current') = Len(log)
    BY <1>1, <2>1, <2>2, <2>4, StartCurrent
  <2> QED
    BY <1>1, <1>2, <2>2, <2>5, CleanReaches
<1>7. CASE ResetKv
  <2>1. Idle' /\ Len(log') = 0
    BY <1>7 DEF ResetKv, Emptied, Idle
  <2>2. Len(Current') = 0
    BY <1>3, <2>1
  <2> QED
    BY <2>2, EmptyReaches
<1>8. CASE Denoise
  <2>1. PICK rows \in 1..Canvas : hi' = Higher(hi, kvLen + rows)
    BY <1>8 DEF Denoise
  <2>2. Idle /\ Idle' /\ log' = log /\ kvLen = Len(log)
    BY <1>8 DEF Denoise, Idle
  <2>3. hi' <= Len(log) + Canvas
    BY <1>1, <1>2, <2>1, <2>2, Sizes DEF Higher
  <2>4. Len(Current') = Len(log)
    BY <1>3, <2>2
  <2> QED
    BY <1>1, <2>3, <2>4, CleanReaches
<1>9. CASE SnapshotKv
  <2>1. Idle /\ Idle' /\ log' = log /\ hi' = hi
    BY <1>9 DEF SnapshotKv, Idle
  <2>2. Len(Current') = Len(log)
    BY <1>3, <2>1
  <2> QED
    BY <1>1, <1>2, <2>1, <2>2, CleanReaches
<1>10. CASE RestoreKv
  <2>1. Idle' /\ log' = saved.tokens /\ hi' = saved.hi
    BY <1>10 DEF RestoreKv, Idle
  <2>2. Len(Current') = Len(saved.tokens)
    BY <1>3, <2>1
  <2>3. hi' <= Len(saved.tokens) + Canvas
    BY <2>1 DEF Clean
  <2> QED
    BY <1>1, <2>2, <2>3, CleanReaches
<1> QED
  BY <1>4, <1>5, <1>6, <1>7, <1>8, <1>9, <1>10

\* From a cache with no residue above its log, whatever an operation does that does
\* not fail - rewind, reuse, extend, denoise, swap - the window the next query reads
\* is the log's own: kv_truncate_needs_ring_rebuild is right about one rewind.
THEOREM CleanStepsAreExact == Spec => CleanStepsKeepTheWindow
<1> DEFINE C == Clean(hi, Current) /\ Clean(saved.hi, saved.tokens) /\ ~PrefillError
           A == C => WindowExact'
<1>1. IInv /\ IInv' /\ [Next]_vars => [A]_vars
  <2> SUFFICES ASSUME IInv, IInv', Next, C PROVE WindowExact'
    OBVIOUS
  <2>1. Reaches(hi', Len(Current'))
    BY ChunkReaches, TruncateReaches, BeginTurnReaches, OtherReaches DEF Next
  <2>2. Reaches(hi, Len(Current))'
    BY <2>1
  <2> QED
    BY <2>2, ReachedExactNext
<1> HIDE DEF A, C
<1>2. Spec => [][A]_vars
  BY <1>1, InductiveInvariant, PTL DEF Spec
<1> QED
  BY <1>2 DEF CleanStepsKeepTheWindow, A, C

-----------------------------------------------------------------------------
(* Without a wrap the session implements CausalLog.                        *)

\* No write of the log or of the snapshot reached past the context.
Bounded == hi <= MaxSeq /\ saved.hi <= MaxSeq

LEMMA InitBounded == Init => Bounded
BY Sizes DEF Init, Bounded

\* Every write ends at the running target, or at one canvas past the log.
LEMMA StepBounded == IInv /\ Bounded /\ [Next]_vars => Bounded'
<1> SUFFICES ASSUME IInv, Bounded, [Next]_vars PROVE Bounded'
  OBVIOUS
<1>1. /\ hi \in Nat /\ saved.hi \in Nat /\ pos \in Nat /\ TypeOK /\ JobOK
      /\ Len(todo) \in Nat /\ Len(todo) <= MaxSeq /\ Len(log) \in Nat /\ Len(log) <= Capacity
      /\ hi <= MaxSeq /\ saved.hi <= MaxSeq
  BY Sizes DEF IInv, TypeOK, Bounded
<1>2. CASE saved' = saved /\ (hi' = hi \/ hi' = 0)
  BY <1>1, <1>2, Sizes DEF Bounded
<1>3. ASSUME NEW to \in Nat, to <= MaxSeq, saved' = saved, hi' = Higher(hi, to)
      PROVE  Bounded'
  BY <1>1, <1>3, Sizes DEF Bounded, Higher
<1>4. CASE PrefillChunk
  <2>1. RowsWrittenEnd \in pos .. Len(todo)
    BY <1>1, <1>4, RowsWritten DEF PrefillChunk
  <2>2. RowsWrittenEnd \in Nat /\ RowsWrittenEnd <= MaxSeq
    BY <1>1, <2>1, Sizes
  <2> QED
    BY <1>3, <1>4, <2>2 DEF PrefillChunk
<1>5. CASE PrefillError
  <2>1. RowsWrittenEnd \in pos .. Len(todo)
    BY <1>1, <1>5, RowsWritten DEF PrefillError
  <2>2. PICK end \in pos .. RowsWrittenEnd : hi' = Higher(hi, end)
    BY <1>5 DEF PrefillError
  <2>3. end \in Nat /\ end <= MaxSeq
    BY <1>1, <2>1, <2>2, Sizes
  <2> QED
    BY <1>3, <1>5, <2>2, <2>3 DEF PrefillError
<1>6. CASE EnginePrefill
  BY <1>1, <1>3, <1>6 DEF EnginePrefill
<1>7. CASE EngineError
  <2>1. CASE UNCHANGED <<ring, hi>>
    BY <1>2, <1>7, <2>1 DEF EngineError
  <2>2. CASE \E end \in 0 .. Len(todo) : hi' = Higher(hi, end)
    <3>1. PICK end \in 0 .. Len(todo) : hi' = Higher(hi, end)
      BY <2>2
    <3>2. end \in Nat /\ end <= MaxSeq
      BY <1>1, <3>1, Sizes
    <3> QED
      BY <1>3, <1>7, <3>1, <3>2 DEF EngineError
  <2> QED
    BY <1>7, <2>1, <2>2 DEF EngineError
<1>8. CASE ExtendKv
  BY <1>2, <1>8 DEF ExtendKv, StartPrefill
<1>9. CASE ResetKv
  BY <1>2, <1>9 DEF ResetKv, Emptied
<1>10. CASE TruncateKvTo
  BY <1>2, <1>10 DEF TruncateKvTo, Clamped, Emptied, StartPrefill
<1>11. CASE BeginTurn
  <2>1. saved' = saved /\ (hi' = hi \/ hi' = 0)
    BY <1>11 DEF BeginTurn, StartPrefill
  <2> QED
    BY <1>2, <2>1
<1>12. CASE Denoise
  <2>1. PICK rows \in 1 .. Canvas : hi' = Higher(hi, kvLen + rows)
    BY <1>12 DEF Denoise
  <2>2. kvLen + rows \in Nat /\ kvLen + rows <= MaxSeq
    <3>1. kvLen = Len(log)
      BY <1>12 DEF Denoise
    <3>2. Len(log) + rows \in Nat /\ Len(log) + rows <= MaxSeq
      BY <1>1, Sizes
    <3> QED
      BY <3>1, <3>2
  <2> QED
    BY <1>3, <1>12, <2>1, <2>2 DEF Denoise
<1>13. CASE SnapshotKv
  BY <1>1, <1>13 DEF SnapshotKv, Bounded
<1>14. CASE RestoreKv
  BY <1>1, <1>14 DEF RestoreKv, Bounded
<1>15. CASE UNCHANGED vars
  BY <1>2, <1>15 DEF vars
<1> QED
  BY <1>4, <1>5, <1>6, <1>7, <1>8, <1>9, <1>10, <1>11, <1>12, <1>13, <1>14, <1>15 DEF Next

\* No operation, failure or swap writes a position past the context: the canvas of a
\* block at full capacity is the furthest write (the headroom set_kv_len asserts).
THEOREM AlwaysBounded == Spec => []Bounded
BY InductiveInvariant, InitBounded, StepBounded, PTL DEF Spec


\* What the query after the log reads, the value `view` takes in CausalLog.
View == {ring[SlotOf(p)] : p \in Readable(Len(log))}

Viewed == View = CL!ViewOf(log)

\* With a slot for every position, the slots below the log's end hold its window.
LEMMA LogIsViewed == IInv /\ Bounded => (Ring >= MaxSeq => Viewed)
<1> SUFFICES ASSUME Ring >= MaxSeq, IInv, Bounded PROVE Viewed
  OBVIOUS
<1>1. log \in Seq(Token) /\ Len(log) \in Nat /\ hi \in Nat /\ hi <= MaxSeq
  BY DEF IInv, TypeOK, Bounded
<1>2. ASSUME NEW p \in 0 .. Len(log) - 1
      PROVE  ring[SlotOf(p)] = Prefix(log, p + 1)
  <2>1. hi <= p + Ring
    BY <1>1, Sizes
  <2> QED
    BY <2>1 DEF IInv, LogInPlace, InPlace
<1>3. ASSUME NEW v \in View PROVE v \in CL!ViewOf(log)
  <2>1. PICK p \in Readable(Len(log)) : v = ring[SlotOf(p)]
    BY DEF View
  <2>2. p \in 0 .. Len(log) - 1 /\ p + Window >= Len(log) + 1
    BY <1>1, Slack DEF Readable, Monus
  <2>3. v = CL!FirstN(log, p + 1)
    BY <1>2, <2>1, <2>2 DEF Prefix, CL!FirstN
  <2>4. p + 1 \in {m \in 1 .. Len(log) : m + Window > Len(log) + 1}
    BY <1>1, <2>2, Slack
  <2> QED
    BY <2>3, <2>4 DEF CL!ViewOf
<1>4. ASSUME NEW v \in CL!ViewOf(log) PROVE v \in View
  <2>1. PICK m \in 1 .. Len(log) : m + Window > Len(log) + 1 /\ v = CL!FirstN(log, m)
    BY DEF CL!ViewOf
  <2>2. m - 1 \in 0 .. Len(log) - 1 /\ m - 1 \in Readable(Len(log)) /\ (m - 1) + 1 = m
    BY <1>1, <2>1, Slack DEF Readable, Monus
  <2>3. v = ring[SlotOf(m - 1)]
    BY <1>2, <2>1, <2>2 DEF Prefix, CL!FirstN
  <2> QED
    BY <2>2, <2>3 DEF View
<1> QED
  BY <1>3, <1>4 DEF Viewed

LEMMA LogIsViewedNext == IInv' /\ Bounded' => (Ring >= MaxSeq => Viewed')
<1>1. IInv' /\ Bounded' => (Ring >= MaxSeq => Viewed)'
  BY LogIsViewed, PTL
<1> QED
  BY <1>1

AbstractStep == [CL!Next]_<<log, View, saved.tokens>>

\* A step that keeps the log and the shelf is a stutter of CausalLog.
LEMMA MapsToStutter ==
    ASSUME Viewed, Viewed', log' = log, saved' = saved
    PROVE  AbstractStep
<1>1. View' = View
  BY DEF Viewed, CL!ViewOf, CL!FirstN
<1> QED
  BY <1>1 DEF AbstractStep

\* Keeping a prefix of the log cuts it.
LEMMA MapsToCut ==
    ASSUME Viewed, Viewed', log \in Seq(Token), NEW n \in 0 .. Len(log),
           log' = Prefix(log, n), saved' = saved
    PROVE  AbstractStep
<1>1. /\ Len(log) \in Nat /\ n \in Nat /\ log' \in Seq(Token) /\ Len(log') = n
      /\ \A i \in 1 .. n : log'[i] = log[i]
  BY PrefixType
<1>2. CASE n = Len(log)
  <2>1. log' = log
    BY <1>1, <1>2
  <2> QED
    BY <2>1, MapsToStutter
<1>3. CASE n < Len(log)
  <2>1. CL!Begins(log', log) /\ log # log'
    BY <1>1, <1>3 DEF CL!Begins, CL!FirstN, Prefix
  <2>2. CL!Cut
    BY <2>1 DEF CL!Cut
  <2>3. View' = CL!ViewOf(log')
    BY DEF Viewed, CL!ViewOf, CL!FirstN
  <2> QED
    BY <2>2, <2>3 DEF AbstractStep, CL!Next, View
<1> QED
  BY <1>1, <1>2, <1>3

\* Appending tokens grows the log.
LEMMA MapsToGrow ==
    ASSUME Viewed', log \in Seq(Token), log' \in Seq(Token), Len(log) < Len(log'),
           \A i \in 1 .. Len(log) : log[i] = log'[i], saved' = saved
    PROVE  AbstractStep
<1>1. log = [i \in 1 .. Len(log) |-> log'[i]]
  BY DEF Prefix
<1>2. CL!Begins(log, log') /\ log # log'
  BY <1>1 DEF CL!Begins, CL!FirstN
<1>3. CL!Grow
  BY <1>2 DEF CL!Grow
<1>4. View' = CL!ViewOf(log')
  BY DEF Viewed, CL!ViewOf, CL!FirstN
<1> QED
  BY <1>3, <1>4 DEF AbstractStep, CL!Next, View


\* A prefill that finishes grows the log by what it wrote; one that does not keeps it.
LEMMA PrefillMaps ==
    ASSUME IInv, Viewed, Viewed',
           PrefillChunk \/ PrefillError \/ EnginePrefill \/ EngineError
    PROVE  AbstractStep
<1>1. /\ log \in Seq(Token) /\ todo \in Seq(Token) /\ Len(log) \in Nat /\ Len(todo) \in Nat
      /\ saved' = saved
  BY DEF IInv, TypeOK, PrefillChunk, PrefillError, EnginePrefill, EngineError
<1>2. CASE log' = log
  BY <1>1, <1>2, MapsToStutter
<1>3. CASE PrefillChunk /\ log' = todo
  <2>1. Len(log) < Len(todo) /\ \A i \in 1 .. Len(log) : log[i] = todo[i]
    BY <1>1, <1>3 DEF PrefillChunk, IInv, JobOK, TypeOK
  <2> QED
    BY <1>1, <1>3, <2>1, MapsToGrow
<1>4. CASE EnginePrefill
  <2>1. log' = todo /\ todo # <<>> /\ Len(log) = 0
    BY <1>4 DEF EnginePrefill, Idle, IInv, JobOK
  <2>2. Len(log) < Len(todo)
    BY <1>1, <2>1, NonEmpty
  <2> QED
    BY <1>1, <2>1, <2>2, MapsToGrow
<1> QED
  BY <1>2, <1>3, <1>4 DEF PrefillChunk, PrefillError, EngineError

\* Resets and rewinds cut the log, and so does a turn that keeps a common prefix.
LEMMA RewindMaps ==
    ASSUME IInv, Viewed, Viewed', ResetKv \/ TruncateKvTo \/ BeginTurn
    PROVE  AbstractStep
<1>1. log \in Seq(Token) /\ Len(log) \in Nat /\ kvLen \in Nat
  BY Sizes DEF IInv, TypeOK
<1>2. 0 \in 0 .. Len(log) /\ Prefix(log, 0) = <<>>
  BY <1>1 DEF Prefix
<1>3. CASE ResetKv
  BY <1>1, <1>2, <1>3, MapsToCut DEF ResetKv, Emptied
<1>4. CASE TruncateKvTo
  <2>1. PICK n \in 0 .. Len(log) - 1 : log' = Prefix(log, n) \/ log' = <<>>
    BY <1>4 DEF TruncateKvTo, Clamped, Emptied
  <2>2. saved' = saved
    BY <1>4 DEF TruncateKvTo, StartPrefill
  <2>3. n \in 0 .. Len(log)
    BY <1>1
  <2> QED
    BY <1>1, <1>2, <2>1, <2>2, <2>3, MapsToCut
<1>5. CASE BeginTurn
  <2> DEFINE matched(prompt) == Lower(CommonPrefixLen(log, prompt), kvLen)
             reused(prompt) == IF DeepRewind(matched(prompt)) THEN 0 ELSE matched(prompt)
  <2>1. PICK prompt \in Prompts :
          /\ reused(prompt) = Len(prompt) => log' = prompt
          /\ reused(prompt) # Len(prompt) => log' = Prefix(log, reused(prompt))
    BY <1>5 DEF BeginTurn
  <2>2. saved' = saved
    BY <1>5 DEF BeginTurn, StartPrefill
  <2> DEFINE n == reused(prompt)
             c == CommonPrefixLen(log, prompt)
  <2>3. prompt \in Seq(Token) /\ Len(prompt) \in Nat
    BY InputsAssumption
  <2>4. /\ c \in Nat /\ c <= Len(log) /\ \A i \in 1 .. c : log[i] = prompt[i]
        /\ n \in 0 .. c
    <3>1. c \in 0 .. Lower(Len(log), Len(prompt)) /\ \A i \in 1 .. c : log[i] = prompt[i]
      BY <1>1, <2>3, CommonPrefix
    <3> HIDE DEF c
    <3>2. c \in Nat /\ c <= Len(log)
      BY <1>1, <2>3, <3>1 DEF Lower
    <3>3. n \in 0 .. c
      BY <1>1, <3>2 DEF c, Lower
    <3> QED
      BY <3>1, <3>2, <3>3
  <2> HIDE DEF n, c, reused, matched
  <2>5. n \in 0 .. Len(log) /\ \A i \in 1 .. n : log[i] = prompt[i]
    BY <1>1, <2>4
  <2>6. log' = Prefix(log, n)
    <3>1. CASE n = Len(prompt)
      <4>1. /\ Prefix(log, n) \in Seq(Token) /\ Len(Prefix(log, n)) = n
            /\ \A i \in 1 .. n : Prefix(log, n)[i] = log[i]
        BY <1>1, <2>5, PrefixType
      <4>2. Prefix(log, n) = prompt
        BY <2>3, <2>5, <3>1, <4>1
      <4> QED
        BY <2>1, <3>1, <4>2 DEF n
    <3>2. CASE n # Len(prompt)
      BY <2>1, <3>2 DEF n
    <3> QED
      BY <3>1, <3>2
  <2> QED
    BY <1>1, <2>2, <2>5, <2>6, MapsToCut
<1> QED
  BY <1>3, <1>4, <1>5

\* A swap shelves the log or exchanges it for the shelved one; the rest stutter.
LEMMA SwapMaps ==
    ASSUME Viewed, Viewed', ExtendKv \/ Denoise \/ SnapshotKv \/ RestoreKv
    PROVE  AbstractStep
<1>1. CASE ExtendKv \/ Denoise
  <2>1. log' = log /\ saved' = saved
    BY <1>1 DEF ExtendKv, StartPrefill, Denoise
  <2> QED
    BY <2>1, MapsToStutter
<1>2. View' = CL!ViewOf(log')
  BY DEF Viewed, CL!ViewOf, CL!FirstN
<1>3. CASE SnapshotKv
  <2>1. CL!Shelve
    BY <1>3 DEF SnapshotKv, CL!Shelve
  <2> QED
    BY <1>2, <2>1 DEF AbstractStep, CL!Next, View
<1>4. CASE RestoreKv
  <2>1. CL!Restore
    BY <1>4 DEF RestoreKv, CL!Restore
  <2> QED
    BY <1>2, <2>1 DEF AbstractStep, CL!Next, View
<1> QED
  BY <1>1, <1>3, <1>4

\* Every step of the session is a step or a stutter of the log it promises.
LEMMA StepMaps ==
    ASSUME IInv, Viewed, Viewed', [Next]_vars
    PROVE  AbstractStep
<1>1. CASE UNCHANGED vars
  <2>1. log' = log /\ saved' = saved
    BY <1>1 DEF vars
  <2> QED
    BY <2>1, MapsToStutter
<1> QED
  BY <1>1, PrefillMaps, RewindMaps, SwapMaps DEF Next

\* The initial states map to the initial state of the log.
LEMMA InitMaps == Init => CL!Init
<1> SUFFICES ASSUME Init PROVE CL!Init
  OBVIOUS
<1>1. log = <<>> /\ saved.tokens = <<>>
  BY DEF Init
<1>2. Readable(Len(log)) = {}
  BY <1>1, Slack DEF Readable, Monus
<1> QED
  BY <1>1, <1>2 DEF CL!Init

\* Where the ring is as long as the context, the session - with its chunked, batched and
\* engine prefills, failures, denoise blocks, rewinds, reuse and swaps - implements a plain
\* causal log whose next query always reads the log's own window.
THEOREM ImplementsTheLog ==
    ASSUME Ring >= MaxSeq
    PROVE  Spec => ImplementsCausalLog
<1>1. IInv /\ Bounded => Viewed
  BY LogIsViewed
<1>2. IInv' /\ Bounded' => Viewed'
  BY LogIsViewedNext
<1>3. IInv /\ Viewed /\ Viewed' /\ [Next]_vars => AbstractStep
  BY StepMaps
<1>4. Spec => [][CL!Next]_<<log, View, saved.tokens>>
  BY <1>1, <1>2, <1>3, InductiveInvariant, AlwaysBounded, PTL DEF Spec, AbstractStep
<1> QED
  BY <1>4, InitMaps, PTL DEF Spec, ImplementsCausalLog, CL!Spec, View

\* Where the ring is as long as the context no operation, failing or not, ever leaves a
\* query a window that is not its own log's.
THEOREM UnwrappedIsExact ==
    ASSUME Ring >= MaxSeq
    PROVE  Spec => []WindowExact
<1>1. IInv /\ Bounded => WindowExact
  <2> SUFFICES ASSUME IInv, Bounded PROVE Reaches(hi, Len(Current))
    BY ReachedExact
  <2>1. Len(Current) \in Nat /\ hi \in Nat /\ hi <= MaxSeq
    BY CurrentLen, Sizes DEF IInv, TypeOK, Bounded, CurrentIs
  <2>2. ASSUME NEW p \in Readable(Len(Current)) PROVE hi <= p + Ring
    BY <2>1, Slack, Sizes DEF Readable, Monus
  <2> QED
    BY <2>2 DEF Reaches
<1> QED
  BY <1>1, InductiveInvariant, AlwaysBounded, PTL

=============================================================================
