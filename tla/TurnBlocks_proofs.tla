-------------------------- MODULE TurnBlocks_proofs --------------------------
(***************************************************************************)
(* Theorems about TurnBlocks for every canvas, budget and flag setting.    *)
(* The invariant that carries them: while blocks may still be denoised,    *)
(* the cache holds the whole reply or at most one canvas of the budget is  *)
(* left from its end, so a block that is extended starts where the cache   *)
(* ends.                                                                   *)
(***************************************************************************)
EXTENDS TurnBlocks, SequenceTheorems, TLAPS

Live    == {"ready", "denoise", "stopped", "proposed"}
InBlock == {"denoise", "stopped", "proposed"}

\* The cache is the beginning of the reply.
CacheIsPrefix ==
    /\ Len(kv) <= Len(reply)
    /\ \A i \in 1 .. Len(kv) : kv[i] = reply[i]

\* What the reply and the cache may have grown to in each phase.
Bounds ==
    /\ Len(reply) < MaxNew + Canvas
    /\ phase \in InBlock => Len(reply) < MaxNew
    /\ Len(kv) <= MaxNew
    /\ phase \in Live => Len(kv) = Len(reply) \/ MaxNew - Len(kv) <= Canvas

\* A commit after a cancel leaves the block loop for good.
CancelLeaves ==
    /\ late <= 1
    /\ late = 1 => cancel /\ phase \notin InBlock

IInv == TypeOK /\ log = kv /\ CacheIsPrefix /\ Bounds /\ CancelLeaves

-----------------------------------------------------------------------------
(* Arithmetic of widths.                                                   *)

LEMMA Sizes ==
    /\ Canvas \in Nat /\ Canvas >= 4 /\ MinKeep \in Nat /\ MinKeep >= 1
    /\ PromptLen \in Nat /\ MaxNew \in Nat /\ MaxNew >= 1 /\ MaxSeq \in Nat
    /\ MaxSteps \in Nat
    /\ EmptyRetries \in Nat /\ NcRetries \in Nat
    /\ PromptLen + MaxNew + Canvas <= MaxSeq
  BY TurnSizes, WidthAssumption, BudgetAssumption

LEMMA AttemptWidth ==
    ASSUME NEW r \in Nat
    PROVE  AttemptCanvas(r) \in 1 .. Canvas
  BY Sizes DEF AttemptCanvas

LEMMA ProposalWidth ==
    ASSUME TypeOK, NEW w \in ProposalWidths
    PROVE  w \in 0 .. Canvas
  <1>1. active \in Nat /\ active <= Canvas /\ active \div 2 \in 0 .. Canvas
    BY Sizes DEF TypeOK
  <1> DEFINE head == IF stop = "prefix_exit" THEN active \div 2 ELSE active
  <1>2. head \in 0 .. Canvas
    BY <1>1, Sizes
  <1>3. w \in MinKeep .. head \/ w = head
    BY DEF ProposalWidths
  <1> HIDE DEF head
  <1> QED
    BY <1>2, <1>3, Sizes

\* Rows(k) is k tokens of the next block.
LEMMA RowsAre ==
    ASSUME blocks \in Nat, NEW k \in Nat
    PROVE  Rows(k) \in Seq(Nat) /\ Len(Rows(k)) = k
  BY DEF Rows

-----------------------------------------------------------------------------
\* A block that is extended finds the cache complete: it is not the last one
\* by the budget, so the cache cannot lag.
LEMMA ExtendedFromTheEnd ==
    ASSUME IInv, phase = "proposed", ~IsLastBlock
    PROVE  kv = reply
  <1>1. kv \in Seq(Nat) /\ reply \in Seq(Nat) /\ Len(kv) \in Nat /\ Len(reply) \in Nat
    BY DEF IInv, TypeOK
  <1>2. Len(kv) = Len(reply)
    <2>1. MaxNew - Len(reply) > Canvas
      BY <1>1, Sizes DEF IsLastBlock, Remaining
    <2>2. Len(kv) = Len(reply) \/ MaxNew - Len(kv) <= Canvas
      BY DEF IInv, Bounds, Live
    <2>3. Len(kv) <= Len(reply)
      BY DEF IInv, CacheIsPrefix
    <2> QED
      BY <1>1, <2>1, <2>2, <2>3, Sizes
  <1>3. \A i \in 1 .. Len(kv) : kv[i] = reply[i]
    BY DEF IInv, CacheIsPrefix
  <1> QED
    BY <1>1, <1>2, <1>3, SeqEqual

LEMMA InitIInv == Init => IInv
  <1> SUFFICES ASSUME Init PROVE IInv
    OBVIOUS
  <1>1. TypeOK
    <2>1. phase \in Phases /\ stop \in Stops
      BY DEF Init, Phases, Stops
    <2>2. cancel \in BOOLEAN
      BY DEF Init
    <2>3. reply \in Seq(Nat) /\ kv \in Seq(Nat) /\ log \in Seq(Nat)
      BY DEF Init
    <2>4. blocks \in Nat /\ step \in Nat /\ empties \in Nat /\ ncs \in Nat /\ late \in Nat
          /\ active \in 1 .. Canvas /\ width \in 0 .. Canvas
      BY Sizes DEF Init
    <2> QED
      BY <2>1, <2>2, <2>3, <2>4 DEF TypeOK
  <1>2. log = kv /\ CacheIsPrefix /\ Bounds /\ CancelLeaves
    BY Sizes DEF Init, CacheIsPrefix, Bounds, CancelLeaves, Live, InBlock
  <1> QED
    BY <1>1, <1>2 DEF IInv

\* Steps that leave the contents alone and stay in, or leave, the block loop.
LEMMA ContentsKept ==
    ASSUME IInv, TypeOK', UNCHANGED contents, cancel => cancel',
           \/ phase' \notin Live
           \/ phase \in InBlock /\ phase' \in InBlock
           \/ phase = "ready" /\ phase' \in InBlock /\ Len(reply) < MaxNew /\ ~cancel
           \/ phase' = phase
    PROVE  IInv'
  <1>1. log' = kv' /\ CacheIsPrefix'
    BY DEF IInv, contents, CacheIsPrefix
  <1>2. Bounds'
    BY DEF IInv, Bounds, contents, Live, InBlock
  <1>3. CancelLeaves'
    BY DEF IInv, CancelLeaves, contents, Live, InBlock, TypeOK
  <1> QED
    BY <1>1, <1>2, <1>3 DEF IInv

-----------------------------------------------------------------------------
(* The commit, by what becomes of the KV.                                  *)

LEMMA CommitType ==
    ASSUME IInv, NEW kept \in 0 .. Canvas, NEW hit \in BOOLEAN,
           NEW defer \in BOOLEAN, NEW blank \in BOOLEAN,
           Commit(kept, hit, defer, blank)
    PROVE  TypeOK' /\ kept <= Canvas /\ kept \in Nat
  <1>1. kept \in Nat /\ kept <= Canvas
    BY Sizes
  <1>2. Rows(kept) \in Seq(Nat)
    BY <1>1, RowsAre DEF IInv, TypeOK
  <1>0. reply \in Seq(Nat) /\ kv \in Seq(Nat) /\ log \in Seq(Nat)
    BY DEF IInv, TypeOK
  <1>3. reply' \in Seq(Nat)
    <2>1. reply' = reply \/ reply' = reply \o Rows(kept)
      BY DEF Commit
    <2>2. reply \o Rows(kept) \in Seq(Nat)
      BY <1>0, <1>2, ConcatProperties
    <2> QED
      BY <1>0, <2>1, <2>2
  <1>4. kv' \in Seq(Nat) /\ log' \in Seq(Nat)
    <2>1. /\ kv' = kv \/ kv' = kv \o Rows(kept)
          /\ log' = log \/ log' = log \o Rows(kept)
      BY DEF Commit
    <2>2. kv \o Rows(kept) \in Seq(Nat) /\ log \o Rows(kept) \in Seq(Nat)
      BY <1>0, <1>2, ConcatProperties
    <2> QED
      BY <1>0, <2>1, <2>2
  <1>5. blocks' \in Nat /\ late' \in Nat
    BY DEF Commit, Counted, IInv, TypeOK
  <1>6. phase' \in Phases
    BY DEF Commit, Phases
  <1>7. UNCHANGED <<step, active, empties, ncs, stop, width, cancel>>
    BY DEF Commit, attempt
  <1> QED
    BY <1>1, <1>3, <1>4, <1>5, <1>6, <1>7 DEF IInv, TypeOK

\* The tokens were extended: cache and reply grow alike from the same end.
LEMMA CommitExtended ==
    ASSUME IInv, TypeOK', phase = "proposed", ~IsLastBlock, blocks \in Nat,
           NEW kept \in Nat, kept <= Canvas,
           reply' = reply \o Rows(kept), kv' = kv \o Rows(kept),
           log' = log \o Rows(kept)
    PROVE  log' = kv' /\ CacheIsPrefix' /\ Bounds'
  <1>1. kv = reply
    BY ExtendedFromTheEnd
  <1>2. kv' = reply' /\ log' = kv'
    BY <1>1 DEF IInv
  <1>3. CacheIsPrefix'
    BY <1>2 DEF CacheIsPrefix, TypeOK
  <1>0. reply \in Seq(Nat) /\ Len(reply) \in Nat
    BY DEF IInv, TypeOK
  <1>4. Len(reply') = Len(reply) + kept
    <2>1. Rows(kept) \in Seq(Nat) /\ Len(Rows(kept)) = kept
      BY RowsAre
    <2> QED
      BY <1>0, <2>1
  <1>5. MaxNew - Len(reply) > Canvas
    BY <1>0, Sizes DEF IsLastBlock, Remaining
  <1>6. Bounds'
    BY <1>0, <1>2, <1>4, <1>5, Sizes DEF Bounds
  <1> QED
    BY <1>2, <1>3, <1>6

\* The cache and the reply are sequences.
LEMMA TheirLengths ==
    ASSUME IInv
    PROVE  kv \in Seq(Nat) /\ reply \in Seq(Nat) /\ Len(kv) \in Nat /\ Len(reply) \in Nat
  BY DEF IInv, TypeOK

\* The cache stayed: the turn ends, or the block was the last by the budget,
\* or it kept nothing.
LEMMA CommitNotExtended ==
    ASSUME IInv, TypeOK', phase = "proposed", blocks \in Nat,
           NEW kept \in Nat, kept <= Canvas,
           reply' = reply \/ reply' = reply \o Rows(kept),
           UNCHANGED <<kv, log>>,
           phase' \notin Live \/ (phase' = "ready" /\ (IsLastBlock \/ kept = 0))
    PROVE  log' = kv' /\ CacheIsPrefix' /\ Bounds'
  <1>1. kv \in Seq(Nat) /\ reply \in Seq(Nat) /\ Len(kv) \in Nat /\ Len(reply) \in Nat
    BY TheirLengths
  <1>2. Rows(kept) \in Seq(Nat) /\ Len(Rows(kept)) = kept
    BY RowsAre
  <1>3. /\ Len(reply') \in Nat /\ Len(reply) <= Len(reply')
        /\ Len(reply') <= Len(reply) + kept
        /\ \A i \in 1 .. Len(reply) : reply'[i] = reply[i]
    <2>1. CASE reply' = reply
      BY <1>1, <2>1
    <2>2. CASE reply' = reply \o Rows(kept)
      <3> DEFINE rows == Rows(kept)
      <3>1. rows \in Seq(Nat) /\ Len(rows) = kept /\ reply' = reply \o rows
        BY <1>2, <2>2
      <3> HIDE DEF rows
      <3> QED
        BY <1>1, <3>1, ConcatProperties
    <2> QED
      BY <2>1, <2>2
  <1>4. CacheIsPrefix'
    BY <1>1, <1>3 DEF IInv, CacheIsPrefix
  <1>5. Len(reply) < MaxNew /\ Len(kv) <= MaxNew
        /\ (Len(kv) = Len(reply) \/ MaxNew - Len(kv) <= Canvas)
    BY DEF IInv, Bounds, InBlock, Live
  <1>6. Len(reply') < MaxNew + Canvas
    BY <1>1, <1>3, <1>5, Sizes
  <1>7. phase' \in Live => Len(kv) = Len(reply') \/ MaxNew - Len(kv) <= Canvas
    <2>1. CASE phase' \notin Live
      BY <2>1
    <2>2. CASE IsLastBlock
      BY <2>2, <1>1, <1>5, Sizes DEF IsLastBlock, Remaining
    <2>3. CASE kept = 0
      BY <2>3, <1>1, <1>3, <1>5
    <2> QED
      BY <2>1, <2>2, <2>3
  <1>8. phase' \notin InBlock
    BY DEF Live, InBlock
  <1>9. Bounds'
    BY <1>5, <1>6, <1>7, <1>8 DEF Bounds
  <1> QED
    BY <1>4, <1>9 DEF IInv

LEMMA CommitIInv ==
    ASSUME IInv, CommitBlock
    PROVE  IInv'
  <1> PICK kept \in 0 .. Canvas, hit \in BOOLEAN, defer \in BOOLEAN,
           blank \in BOOLEAN : Commit(kept, hit, defer, blank)
    BY DEF CommitBlock
  <1> DEFINE ends == (hit /\ ~defer) \/ blank
             grow == Extends(kept, ends)
  <1>1. TypeOK' /\ kept <= Canvas /\ kept \in Nat
    BY CommitType
  <1>2. phase = "proposed" /\ blocks \in Nat
    BY DEF Commit, IInv, TypeOK
  <1>3. log' = kv' /\ CacheIsPrefix' /\ Bounds'
    <2>1. CASE grow /\ ~(phase' = "error")
      <3>1. ~ends /\ ~IsLastBlock
        BY <2>1 DEF Extends
      <3>2. reply' = reply \o Rows(kept) /\ kv' = kv \o Rows(kept)
            /\ log' = log \o Rows(kept)
        BY <2>1, <3>1 DEF Commit
      <3> QED
        BY <1>1, <1>2, <3>1, <3>2, CommitExtended
    <2>2. CASE grow /\ phase' = "error"
      <3>1. reply' = reply \o Rows(kept) /\ UNCHANGED <<kv, log>>
        BY <2>2 DEF Commit
      <3> QED
        BY <1>1, <1>2, <2>2, <3>1, CommitNotExtended DEF Live
    <2>3. CASE ~grow
      <3>1. UNCHANGED <<kv, log>>
        BY <2>3 DEF Commit
      <3>2. reply' = reply \/ reply' = reply \o Rows(kept)
        BY <2>3 DEF Commit
      <3>3. phase' = IF ends THEN "finish" ELSE "ready"
        BY <2>3 DEF Commit
      <3>4. phase' \notin Live \/ (phase' = "ready" /\ (IsLastBlock \/ kept = 0))
        BY <1>1, <2>3, <3>3 DEF Extends, Live
      <3> QED
        BY <1>1, <1>2, <3>1, <3>2, <3>4, CommitNotExtended
    <2> QED
      BY <2>1, <2>2, <2>3
  <1>4. CancelLeaves'
    <2>1. cancel' = cancel /\ late' = IF cancel THEN late + 1 ELSE late
      BY DEF Commit, attempt
    <2>2. phase' \in {"ready", "finish", "error"}
      BY DEF Commit
    <2>3. late = 0
      BY <1>2 DEF IInv, CancelLeaves, InBlock, TypeOK
    <2> QED
      BY <2>1, <2>2, <2>3 DEF CancelLeaves, InBlock, IInv, TypeOK
  <1> QED
    BY <1>1, <1>3, <1>4 DEF IInv

LEMMA FinishIInv ==
    ASSUME IInv, FinishTurn
    PROVE  IInv'
  <1>1. kv \in Seq(Nat) /\ reply \in Seq(Nat) /\ Len(kv) \in Nat /\ Len(reply) \in Nat
        /\ Len(kv) <= Len(reply) /\ \A i \in 1 .. Len(kv) : kv[i] = reply[i]
    BY DEF IInv, TypeOK, CacheIsPrefix
  <1>2. log' = [i \in 1 .. Len(kv) |-> reply[i]]
    BY <1>1 DEF FinishTurn, Least
  <1>3. log' \in Seq(Nat) /\ Len(log') = Len(kv)
        /\ \A i \in 1 .. Len(log') : log'[i] = kv[i]
    BY <1>1, <1>2
  <1>4. log' = kv
    BY <1>1, <1>3, SeqEqual
  <1>5. UNCHANGED <<reply, kv, blocks, late, step, active, empties, ncs, stop, width, cancel>>
        /\ phase' = "closed"
    BY DEF FinishTurn, attempt
  <1>6. TypeOK'
    BY <1>3, <1>5 DEF IInv, TypeOK, Phases
  <1>7. CacheIsPrefix' /\ Bounds' /\ CancelLeaves'
    BY <1>5 DEF IInv, CacheIsPrefix, Bounds, CancelLeaves, Live, InBlock
  <1> QED
    BY <1>4, <1>5, <1>6, <1>7 DEF IInv

-----------------------------------------------------------------------------
\* The invariant is preserved by every step.
LEMMA StepIInv == IInv /\ [Next]_vars => IInv'
  <1> SUFFICES ASSUME IInv, [Next]_vars PROVE IInv'
    OBVIOUS
  <1> USE DEF contents, attempt
  <1>1. CASE Exhausted \/ CancelledAtEntry \/ Abandon
    <2>1. TypeOK'
      BY <1>1 DEF Exhausted, CancelledAtEntry, Abandon, IInv, TypeOK, Phases
    <2> QED
      BY <1>1, <2>1, ContentsKept DEF Exhausted, CancelledAtEntry, Abandon, Live
  <1>2. CASE StartBlock
    <2>1. AttemptCanvas(0) \in 1 .. Canvas
      BY AttemptWidth
    <2>2. TypeOK'
      BY <1>2, <2>1, Sizes DEF StartBlock, IInv, TypeOK, Phases, Stops
    <2> QED
      BY <1>2, <2>2, ContentsKept DEF StartBlock, RoomLeft, InBlock, Live
  <1>3. CASE DenoiseStops
    <2>1. stop' \in Stops
      BY <1>3 DEF DenoiseStops, NaturalStop, Stops
    <2>2. TypeOK'
      BY <1>3, <2>1 DEF DenoiseStops, IInv, TypeOK, Phases
    <2> QED
      BY <1>3, <2>2, ContentsKept DEF DenoiseStops, InBlock, Live
  <1>4. CASE DenoiseContinues
    <2>1. TypeOK'
      BY <1>4 DEF DenoiseContinues, IInv, TypeOK, Phases
    <2> QED
      BY <1>4, <2>1, ContentsKept DEF DenoiseContinues, InBlock, Live
  <1>5. CASE DenoiseError
    <2>1. TypeOK'
      BY <1>5 DEF DenoiseError, IInv, TypeOK, Phases
    <2> QED
      BY <1>5, <2>1, ContentsKept DEF DenoiseError, Live
  <1>6. CASE ReRollEmpty
    <2>1. empties + 1 \in Nat
      BY DEF IInv, TypeOK
    <2>2. AttemptCanvas(empties + 1) \in 1 .. Canvas
      BY <2>1, AttemptWidth
    <2>3. TypeOK'
      BY <1>6, <2>1, <2>2 DEF ReRollEmpty, IInv, TypeOK, Phases
    <2> QED
      BY <1>6, <2>3, ContentsKept DEF ReRollEmpty, InBlock, Live
  <1>7. CASE ReRollUnconverged
    <2>1. TypeOK'
      BY <1>7 DEF ReRollUnconverged, IInv, TypeOK, Phases
    <2> QED
      BY <1>7, <2>1, ContentsKept DEF ReRollUnconverged, InBlock, Live
  <1>8. CASE Propose
    <2>1. width' \in 0 .. Canvas
      BY <1>8, ProposalWidth DEF Propose, IInv
    <2>2. TypeOK'
      BY <1>8, <2>1 DEF Propose, IInv, TypeOK, Phases
    <2> QED
      BY <1>8, <2>2, ContentsKept DEF Propose, InBlock, Live
  <1>9. CASE CommitBlock
    BY <1>9, CommitIInv
  <1>10. CASE FinishTurn
    BY <1>10, FinishIInv
  <1>11. CASE RequestCancel
    <2>1. TypeOK'
      BY <1>11 DEF RequestCancel, IInv, TypeOK
    <2> QED
      BY <1>11, <2>1, ContentsKept DEF RequestCancel
  <1>12. CASE UNCHANGED vars
    <2>1. TypeOK'
      BY <1>12 DEF vars, IInv, TypeOK
    <2> QED
      BY <1>12, <2>1, ContentsKept DEF vars
  <1> QED
    BY <1>1, <1>2, <1>3, <1>4, <1>5, <1>6, <1>7, <1>8, <1>9, <1>10, <1>11, <1>12
    DEF Next, Driver, Over

\* The inductive invariant of the turn.
THEOREM TurnInvariant == Spec => []IInv
  BY InitIInv, StepIInv, PTL DEF Spec

\* Type correctness of the turn's state (TurnState and the session's log).
THEOREM TurnTypes == Spec => []TypeOK
  <1>1. IInv => TypeOK
    BY DEF IInv
  <1> QED
    BY <1>1, TurnInvariant, PTL

\* kv_valid_tokens describes the cache at every moment of every turn, whatever
\* was trimmed, deferred, dropped, cancelled or failed.
THEOREM LogAlwaysDescribesKv == Spec => []LogDescribesKv
  <1>1. IInv => LogDescribesKv
    BY DEF IInv, CacheIsPrefix, LogDescribesKv
  <1> QED
    BY <1>1, TurnInvariant, PTL

\* set_kv_len's assertion never fires: a canvas fits past the cache.
THEOREM CanvasAlwaysFits == Spec => []CanvasFits
  <1>1. IInv => CanvasFits
    BY Sizes DEF IInv, TypeOK, Bounds, CanvasFits
  <1> QED
    BY <1>1, TurnInvariant, PTL

\* The cache lags the reply only in the last canvas of the budget.
THEOREM LagIsBounded == Spec => []LagOnlyInLastCanvas
  <1>1. ASSUME IInv, phase = "denoise", kv # reply
        PROVE  MaxNew - Len(kv) <= Canvas
    <2>1. Len(kv) # Len(reply)
      BY <1>1, SeqEqual DEF IInv, TypeOK, CacheIsPrefix
    <2> QED
      BY <1>1, <2>1 DEF IInv, Bounds, Live
  <1>2. IInv => LagOnlyInLastCanvas
    BY <1>1 DEF LagOnlyInLastCanvas
  <1> QED
    BY <1>2, TurnInvariant, PTL

\* A cancelled turn commits at most the block it was in.
THEOREM CancelIsPrompt == Spec => []CancelCommitsAtMostOne
  <1>1. IInv => CancelCommitsAtMostOne
    BY DEF IInv, CancelLeaves, CancelCommitsAtMostOne
  <1> QED
    BY <1>1, TurnInvariant, PTL

=============================================================================
