------------------------------ MODULE KvSession ------------------------------
(***************************************************************************)
(* The causal KV cache behind one generation session: StepGenerateSession  *)
(* (metal/step_generate/session.rs), the runtime it drives                 *)
(* (metal/step_kernel/runtime.rs) and the snapshot gather and scatter of   *)
(* metal/step_kv/mod.rs.                                                   *)
(*                                                                         *)
(* A sliding-window layer stores position p in ring slot p % Ring.  A slot *)
(* holds a LABEL, the causal token prefix under which it was last written: *)
(* position p of log l is labelled by the first p + 1 tokens of l, and a   *)
(* canvas row (uncommitted noise) by the empty sequence.  A full layer is  *)
(* the same ring when Ring >= MaxSeq.  Token values, head widths and the   *)
(* numbers in the cache are not modelled.                                  *)
(***************************************************************************)
EXTENDS Integers, Sequences

CONSTANTS
    Token,       \* token ids
    Prompts,     \* the prompts a client may start a turn with
    Deltas,      \* token runs a commit, an extend or a finalize may append
    MaxSeq,      \* StepRuntime.max_seq: positions a full layer holds
    Ring,        \* kv_ring_mask + 1: slots of a sliding layer
    Window,      \* sliding_window
    Canvas,      \* CANVAS: rows of a denoise block and of a prefill chunk
    Subs,        \* PREFILL_SUBS: chunks one batched forward may hold
    EngineMax,   \* fresh prompts up to this length prefill on the f32 engine
    SideRing,    \* is the f32 side ring allocated (DGQ_PREFILL_KV_F32)?
    GpuMayFail,  \* may a GPU dispatch return an error?
    MaySwap      \* are conversations swapped through this session?

Capacity == MaxSeq - Canvas

ASSUME SizesAssumption ==
    /\ {MaxSeq, Ring, Window, Canvas, Subs} \subseteq Nat \ {0}
    /\ EngineMax \in Nat
    /\ EngineMax <= Ring   \* FAST_PREFILL_MIN_TOKENS; past the ring its pack races
    /\ Canvas < MaxSeq
    /\ {SideRing, GpuMayFail, MaySwap} \subseteq BOOLEAN

\* The slack arithmetic of kv_ring_slots: a batched forward and the window
\* it reads fit in the ring, or the ring is as long as the context.
ASSUME RingAssumption ==
    Ring >= MaxSeq \/ Ring + 1 >= Subs * Canvas + Window

\* Callers size max_seq >= prompt + CANVAS (set_kv_len asserts it).
ASSUME InputsAssumption ==
    /\ Prompts \subseteq {p \in Seq(Token) : Len(p) \in 1..Capacity}
    /\ Deltas \subseteq Seq(Token) \ {<<>>}

VARIABLES
    log,        \* kv_valid_tokens
    kvLen,      \* params.kv_len
    writeEnd,   \* params.kv_write_end: first position a kernel must not write
    ring,       \* the labels of one sliding layer's slots
    side,       \* the labels of its f32 side ring
    sideValid,  \* kv_f32_side_valid
    todo,       \* the log the running prefill is building, <<>> when idle
    pos,        \* the running prefill's next chunk
    engine,     \* does the running prefill go through the f32 engine?
    saved,      \* a snapshot taken earlier (KvSnapshot)
    hi          \* history: no write at or past hi since the log was last empty

vars == <<log, kvLen, writeEnd, ring, side, sideValid, todo, pos, engine, saved, hi>>

Slots     == 0 .. Ring - 1
NoEnd     == MaxSeq + Canvas      \* stands for u32::MAX: past every position
SlotOf(p) == p % Ring
Blank     == [s \in Slots |-> <<>>]
Lower(a, b)  == IF a < b THEN a ELSE b
Higher(a, b) == IF a < b THEN b ELSE a
Monus(a, b)  == IF b < a THEN a - b ELSE 0     \* saturating_sub
Prefix(l, n) == [i \in 1..n |-> l[i]]      \* SubSeq(l, 1, n)

-----------------------------------------------------------------------------
(* Ring arithmetic.                                                        *)

\* The position of from .. to-1 whose write to slot s is the last one.
IsLastWrite(q, from, to, s) == q \in from .. to - 1 /\ to <= q + Ring /\ SlotOf(q) = s

\* buf after positions from .. to-1 are written in order, q labelled lab[q].
Written(buf, from, to, lab) ==
    [s \in Slots |->
        IF \E q \in from .. to - 1 : IsLastWrite(q, from, to, s)
        THEN lab[CHOOSE q \in from .. to - 1 : IsLastWrite(q, from, to, s)]
        ELSE buf[s]]

Labels(l) == [p \in 0 .. NoEnd |-> IF p < Len(l) THEN Prefix(l, p + 1) ELSE <<>>]
Noise     == Labels(<<>>)

\* Fault: forgets that a denoise block wrote its canvas past the log.
NeedsRebuildIgnoringCanvas(old, new) ==
    /\ new < old
    /\ Monus(new, Window - 1) < Monus(old, Ring)

\* kv_truncate_needs_ring_rebuild.
NeedsRebuild(old, new) ==
    LET writtenEnd == old + Canvas
        oldestLive == Monus(writtenEnd, Ring)
        deepestNeeded == Monus(new, Window - 1)
    IN  new < old /\ deepestNeeded < oldestLive

\* longest_common_prefix.
CommonPrefixLen(a, b) ==
    CHOOSE n \in 0 .. Lower(Len(a), Len(b)) :
        /\ \A i \in 1..n : a[i] = b[i]
        /\ n < Lower(Len(a), Len(b)) => a[n + 1] # b[n + 1]

-----------------------------------------------------------------------------
(* The prefill that extend_kv, a ring rebuild, a block commit and          *)
(* begin_turn all run: prefill_chunks_from, one forward per step.          *)

Idle == todo = <<>>

\* hydrate_kv_f32_side: refill the side ring from the monolithic cache.
Hydrated(from) == 
    [s \in Slots |->
        IF \E p \in Monus(from, Ring) .. from - 1 : SlotOf(p) = s
        THEN ring[s] ELSE side[s]]

\* The check that decides whether a resumed prefill re-hydrates.
SideIsStale(from) == SideRing /\ from > 0 /\ sideValid # from

\* Entering prefill_chunks_from at offset `from` to build the log `target`.
\* A failed hydration dispatch returns before any chunk ran.
StartPrefill(from, target) ==
    /\ writeEnd' = Len(target)
    /\ \/ /\ todo' = target
          /\ pos' = from
          /\ side' = IF SideIsStale(from) THEN Hydrated(from) ELSE side
       \/ /\ GpuMayFail /\ SideIsStale(from)
          /\ UNCHANGED <<todo, pos, side>>
    /\ UNCHANGED <<ring, sideValid, engine, saved>>

\* Fault: a super-chunk one sub-chunk longer than the ring's slack allows.
ForwardRowsOneMore ==
    LET subs == Lower((Len(todo) - pos) \div Canvas, Subs + 1)
    IN  IF subs >= 2 /\ pos + subs * Canvas + Canvas <= MaxSeq
        THEN subs * Canvas ELSE Canvas

\* Rows of the next forward: a super-chunk when two full chunks and their
\* headroom remain, else one chunk whose tail rows are padding.
ForwardRows ==
    LET subs == Lower((Len(todo) - pos) \div Canvas, Subs)
    IN  IF subs >= 2 /\ pos + subs * Canvas + Canvas <= MaxSeq
        THEN subs * Canvas ELSE Canvas

\* qk_rope_kv drops the rows at and past kv_write_end.
RowsWrittenEnd == Lower(pos + ForwardRows, writeEnd)

\* One forward of the chunk loop; the last one closes the brackets and the
\* caller records the log.
PrefillChunk ==
    LET end == RowsWrittenEnd
        done == pos + ForwardRows >= Len(todo)
    IN  /\ ~Idle /\ ~engine
        /\ ring' = Written(ring, pos, end, Labels(todo))
        /\ side' = IF SideRing THEN Written(side, pos, end, Labels(todo)) ELSE side
        /\ hi' = Higher(hi, end)
        /\ IF done
           THEN /\ log' = todo
                /\ kvLen' = Len(todo)
                /\ writeEnd' = NoEnd
                /\ sideValid' = IF SideRing THEN Len(todo) ELSE sideValid
                /\ todo' = <<>>
                /\ pos' = 0
           ELSE /\ pos' = pos + ForwardRows
                /\ kvLen' = pos
                /\ UNCHANGED <<log, writeEnd, sideValid, todo>>
        /\ UNCHANGED <<engine, saved>>

\* Fault: the log is extended before the prefill's result is known.
PrefillErrorAfterLog ==
    /\ GpuMayFail /\ ~Idle /\ ~engine
    /\ log' = todo
    /\ kvLen' = pos
    /\ todo' = <<>>
    /\ pos' = 0
    /\ UNCHANGED <<writeEnd, ring, side, sideValid, engine, saved, hi>>

\* A chunk's dispatch fails after some of its rows were written: the caller's
\* `?` leaves kv_len at the chunk, the write bracket open and the log alone.
PrefillError ==
    /\ GpuMayFail /\ ~Idle /\ ~engine
    /\ \E end \in pos .. RowsWrittenEnd :
        /\ ring' = Written(ring, pos, end, Labels(todo))
        /\ side' = IF SideRing THEN Written(side, pos, end, Labels(todo)) ELSE side
        /\ hi' = Higher(hi, end)
    /\ kvLen' = pos
    /\ todo' = <<>>
    /\ pos' = 0
    /\ UNCHANGED <<log, writeEnd, sideValid, engine, saved>>

\* The f32 engine computes the whole prompt in its own buffers, zeroes the
\* monolithic cache and packs the K/V into it; it knows nothing of the side ring.
EnginePrefill ==
    /\ ~Idle /\ engine
    /\ ring' = Written(Blank, 0, Len(todo), Labels(todo))
    /\ hi' = Higher(hi, Len(todo))
    /\ log' = todo
    /\ kvLen' = Len(todo)
    /\ todo' = <<>>
    /\ engine' = FALSE
    /\ UNCHANGED <<writeEnd, side, sideValid, pos, saved>>

\* The engine fails before it zeroed the cache, or while it packs.
EngineError ==
    /\ GpuMayFail /\ ~Idle /\ engine
    /\ \/ UNCHANGED <<ring, hi>>
       \/ \E end \in 0 .. Len(todo) :
            /\ ring' = Written(Blank, 0, end, Labels(todo))
            /\ hi' = Higher(hi, end)
    /\ todo' = <<>>
    /\ engine' = FALSE
    /\ UNCHANGED <<log, kvLen, writeEnd, side, sideValid, pos, saved>>

-----------------------------------------------------------------------------
(* StepGenerateSession's operations.                                       *)

\* Fault: no capacity check before the extension.
ExtendKvUnchecked ==
    /\ Idle
    /\ \E d \in Deltas : StartPrefill(Len(log), log \o d)
    /\ UNCHANGED <<log, kvLen, hi>>

\* extend_kv: an extension past the capacity returns a typed error.
ExtendKv ==
    /\ Idle
    /\ \E d \in Deltas :
        /\ Len(log) + Len(d) <= Capacity
        /\ StartPrefill(Len(log), log \o d)
    /\ UNCHANGED <<log, kvLen, hi>>

\* reset_kv's own assignments; the ring keeps its bytes.
Emptied == log' = <<>> /\ kvLen' = 0 /\ hi' = 0

ResetKv ==
    /\ Idle
    /\ Emptied
    /\ UNCHANGED <<writeEnd, ring, side, sideValid, todo, pos, engine, saved>>

\* The O(1) branch shared by truncate_kv_to and begin_turn's rewind guard.
Clamped(n) ==
    /\ log' = Prefix(log, n)
    /\ kvLen' = n
    /\ hi' = IF n = 0 THEN 0 ELSE hi

\* truncate_kv_to(n): clamp, or rebuild the kept prefix by reset and prefill.
TruncateKvTo ==
    /\ Idle
    /\ \E n \in 0 .. Len(log) - 1 :
        IF ~NeedsRebuild(Len(log), n)
        THEN Clamped(n) /\ UNCHANGED <<writeEnd, ring, side, sideValid, todo, pos, engine, saved>>
        ELSE /\ Emptied
             /\ IF n = 0 THEN UNCHANGED <<writeEnd, ring, side, sideValid, todo, pos, engine, saved>>
                ELSE StartPrefill(0, Prefix(log, n))

\* begin_turn drops the KV rather than rebuild it (no-rebuild-to-salvage).
DeepRewind(reuse) == NeedsRebuild(Len(log), reuse)

\* begin_turn: keep the longest common prefix the runtime holds, drop or clamp
\* the rest, and prefill what the prompt adds.  A short fresh prompt goes
\* through the f32 engine, which packs its K/V into the monolithic cache only.
BeginTurn ==
    /\ Idle
    /\ \E prompt \in Prompts :
        LET matched == Lower(CommonPrefixLen(log, prompt), kvLen)
            reuse == IF DeepRewind(matched) THEN 0 ELSE matched
        IN  IF reuse = Len(prompt)
            THEN /\ log' = prompt
                 /\ kvLen' = Len(prompt)
                 /\ UNCHANGED <<writeEnd, ring, side, sideValid, todo, pos, engine, saved, hi>>
            ELSE /\ log' = Prefix(log, reuse)
                 /\ kvLen' = IF reuse < Len(log) THEN reuse ELSE kvLen
                 /\ hi' = IF reuse = 0 THEN 0 ELSE hi
                 /\ IF reuse = 0 /\ Len(prompt) <= EngineMax
                    THEN /\ todo' = prompt
                         /\ engine' = TRUE
                         /\ UNCHANGED <<writeEnd, ring, side, sideValid, pos, saved>>
                    ELSE StartPrefill(reuse, prompt)

\* One denoise step of a block: reset_block rewrote the parameters, so the
\* canvas rows land at kv_len whatever bracket an earlier failure left open.
\* Blocks run inside a turn, where begin_turn set kv_len to the log's length.
Denoise ==
    /\ Idle
    /\ log # <<>>
    /\ kvLen = Len(log)
    /\ writeEnd' = NoEnd
    /\ \E rows \in 1..Canvas :
        /\ ring' = Written(ring, kvLen, kvLen + rows, Noise)
        /\ hi' = Higher(hi, kvLen + rows)
    /\ UNCHANGED <<log, kvLen, side, sideValid, todo, pos, engine, saved>>

\* snapshot_kv: gather_kv_prefix copies the first min(kv_len, slots) slots.
SnapshotKv ==
    /\ MaySwap /\ Idle
    /\ saved' = [tokens |-> log, hi |-> hi,
                 cells |-> [s \in Slots |-> IF s < Len(log) THEN ring[s] ELSE <<>>]]
    /\ UNCHANGED <<log, kvLen, writeEnd, ring, side, sideValid, todo, pos, engine, hi>>

\* Fault: scatters by the length still resident, not the snapshot's.
RestoreKvByOldLen ==
    /\ MaySwap /\ Idle
    /\ log' = saved.tokens
    /\ kvLen' = Len(saved.tokens)
    /\ hi' = saved.hi
    /\ ring' = [s \in Slots |-> IF s < kvLen THEN saved.cells[s] ELSE ring[s]]
    /\ UNCHANGED <<writeEnd, side, sideValid, todo, pos, engine, saved>>

\* restore_kv: scatter_kv_prefix writes them back; the side ring's cursor and
\* the slots past the prefix stay as they are.
RestoreKv ==
    /\ MaySwap /\ Idle
    /\ log' = saved.tokens
    /\ kvLen' = Len(saved.tokens)
    /\ hi' = saved.hi
    /\ ring' = [s \in Slots |-> IF s < Len(saved.tokens) THEN saved.cells[s] ELSE ring[s]]
    /\ UNCHANGED <<writeEnd, side, sideValid, todo, pos, engine, saved>>

-----------------------------------------------------------------------------
\* A fresh session: the buffers are zeroed and nothing was ever swapped out.
Init ==
    /\ log = <<>> /\ kvLen = 0 /\ writeEnd = NoEnd
    /\ ring = Blank /\ side = Blank /\ sideValid = 0
    /\ todo = <<>> /\ pos = 0 /\ engine = FALSE
    /\ saved = [tokens |-> <<>>, hi |-> 0, cells |-> Blank]
    /\ hi = 0

Next ==
    \/ PrefillChunk \/ PrefillError \/ EnginePrefill \/ EngineError
    \/ ExtendKv \/ ResetKv \/ TruncateKvTo \/ BeginTurn \/ Denoise
    \/ SnapshotKv \/ RestoreKv

Spec == Init /\ [][Next]_vars

-----------------------------------------------------------------------------
(* Properties.                                                             *)

\* The positions whose K/V is in place: the log, or a running prefill's part.
Current == IF Idle \/ engine THEN log ELSE Prefix(todo, pos)

\* The positions a query at position n still reads below itself.
Readable(n) == Monus(n, Window - 1) .. n - 1

Holds(buf, l, p) == buf[SlotOf(p)] = Prefix(l, p + 1)

\* Every variable has its type; no committed position is past the capacity
\* that keeps one canvas of headroom (set_kv_len's assertion).
TypeOK ==
    /\ log \in Seq(Token) /\ Len(log) <= Capacity
    /\ todo \in Seq(Token) /\ Len(todo) <= Capacity
    /\ kvLen \in 0 .. Capacity
    /\ pos \in 0 .. Capacity
    /\ writeEnd \in 0 .. NoEnd
    /\ ring \in [Slots -> Seq(Token)]
    /\ side \in [Slots -> Seq(Token)]
    /\ sideValid \in 0 .. Capacity
    /\ engine \in BOOLEAN
    /\ saved \in [tokens : Seq(Token), hi : Nat, cells : [Slots -> Seq(Token)]]
    /\ Len(saved.tokens) <= Capacity
    /\ hi \in Nat

\* A position keeps its slot until a write at least one ring length above it:
\* whatever was rewound, swapped, failed or denoised since, every position of
\* the current log within a ring of the highest write is in its slot.
RingHolds ==
    \A p \in 0 .. Len(Current) - 1 : hi <= p + Ring => Holds(ring, Current, p)

\* The sliding window a query at the end of the current log reads is that
\* log's own: what a fresh prefill of the same tokens would have left there.
WindowExact == \A p \in Readable(Len(Current)) : Holds(ring, Current, p)

\* No write reached past one canvas above l: nothing was rewound over.
Clean(h, l) == h <= Len(l) + Canvas

\* kv_truncate_needs_ring_rebuild is right about one rewind: from a cache with
\* no residue above its log, every operation that does not fail leaves the
\* readable window exact.
CleanStepsKeepTheWindow ==
    [][Clean(hi, Current) /\ Clean(saved.hi, saved.tokens) /\ ~PrefillError
        => WindowExact']_vars

\* A forward attends after it wrote its rows: the window of its first query
\* and the rows themselves are all still in their slots then.
ChunkReadsHeld ==
    [][PrefillChunk /\ WindowExact =>
        \A p \in Monus(pos, Window - 1) .. RowsWrittenEnd - 1 :
            Holds(ring', todo, p)]_vars

\* Without a wrap the session is a causal log: it grows, is cut, shelved and
\* restored, and a query always reads the log's own window.
CL == INSTANCE CausalLog WITH
        view <- {ring[SlotOf(p)] : p \in Readable(Len(log))}, shelf <- saved.tokens

ImplementsCausalLog == CL!Spec
=============================================================================
