----------------------------- MODULE TurnBlocks -----------------------------
(***************************************************************************)
(* One generation turn, block by block: propose_block,                     *)
(* default_commit_policy, commit_block and finish_turn of                  *)
(* metal/step_generate/turn.rs, driven by generate_with_session, from the  *)
(* state begin_turn leaves (the prompt prefilled, no reply yet).           *)
(*                                                                         *)
(* A reply token is abstracted to the number of the block that committed   *)
(* it: enough to tell a token at its own position from one that is not.    *)
(* Sampling, entropies, text and stop ids are nondeterministic verdicts.   *)
(***************************************************************************)
EXTENDS Integers, Sequences

CONSTANTS
    Canvas,        \* CANVAS: rows a block denoises at full width
    MinKeep,       \* MIN_CONF_KEEP: rows a confidence trim never drops
    PromptLen,     \* prompt_token_ids.len()
    MaxNew,        \* cfg.max_new_tokens
    MaxSeq,        \* cfg.max_seq
    MaxSteps,      \* denoise steps a block may take
    PrefixSteps,   \* PREFIX_EXIT_MIN_STEPS
    EmptyRetries,  \* DGQ_EMPTY_REPLY_RETRY
    NcRetries,     \* DGQ_BLOCK_COMMIT_RETRY
    CommitGuard,   \* DGQ_BLOCK_COMMIT_MAX_ENT > 0: abandon unconverged blocks
    ConfTrim,      \* DGQ_COMMIT_CONF_TRIM (or the hard tier) > 0
    PrefixExit,    \* DGQ_PREFIX_EXIT > 0
    WsStop,        \* DGQ_WS_BLOCK_STOP
    ToolMode,      \* continue_incomplete_tool_calls
    GpuMayFail     \* may a GPU dispatch return an error?

ASSUME TurnSizes ==
    /\ {Canvas, MinKeep, PromptLen, MaxNew, MaxSeq, MaxSteps, PrefixSteps}
           \subseteq Nat \ {0}
    /\ {EmptyRetries, NcRetries} \subseteq Nat
    /\ {CommitGuard, ConfTrim, PrefixExit, WsStop, ToolMode, GpuMayFail}
           \subseteq BOOLEAN

\* Canvases shrink to a half and a quarter; the floor fits the narrowest.
ASSUME WidthAssumption == Canvas % 4 = 0 /\ 4 * MinKeep <= Canvas

\* Callers cap the budget (server/worker.rs handle and per_request_cfg).
ASSUME BudgetAssumption == PromptLen + MaxNew + Canvas <= MaxSeq

VARIABLES
    phase,     \* where the turn's driver is
    reply,     \* sequences[prompt_token_ids.len()..]
    kv,        \* the reply part of the causal KV cache (up to kv_len)
    log,       \* the reply part of kv_valid_tokens
    blocks,    \* blocks_committed
    step,      \* denoise steps of the current attempt
    active,    \* active_canvas: rows of the current attempt
    empties,   \* empty_retry_attempt
    ncs,       \* nc_retry_attempt
    stop,      \* why the attempt's last step stopped
    width,     \* token_ids.len() of the proposal
    cancel,    \* the turn's CancelToken
    late       \* history: blocks committed since the token was set

vars == <<phase, reply, kv, log, blocks, step, active, empties, ncs, stop,
          width, cancel, late>>
attempt  == <<step, active, empties, ncs, stop, width>>
contents == <<reply, kv, log, blocks, late>>

Phases  == {"ready", "denoise", "stopped", "proposed", "finish", "closed", "error"}
Stops   == {"none", "early", "max_steps", "prefix_exit"}
Least(a, b) == IF a < b THEN a ELSE b

\* begin_turn's block budget, doubled when a block may commit part of its canvas.
MaxBlocks ==
    LET whole == (MaxNew + Canvas - 1) \div Canvas
    IN  IF ConfTrim \/ PrefixExit THEN 2 * whole ELSE whole

Remaining == MaxNew - Len(reply)
IsLastBlock == Remaining <= Canvas

\* Fault: the block count alone limits the turn.
RoomLeftInBlocks == blocks < MaxBlocks

RoomLeft == blocks < MaxBlocks /\ Len(reply) < MaxNew

\* Fault: narrows by half a canvas on every re-roll, without a floor.
NarrowerEachTime(r) == Canvas - r * (Canvas \div 2)

\* The canvas width of an attempt after r empty-reply re-rolls.
AttemptCanvas(r) ==
    IF r = 0 THEN Canvas ELSE IF r = 1 THEN Canvas \div 2 ELSE Canvas \div 4

-----------------------------------------------------------------------------
(* propose_block                                                           *)

Exhausted ==
    /\ phase = "ready" /\ ~RoomLeft
    /\ phase' = "finish"
    /\ UNCHANGED <<contents, attempt, cancel>>

CancelledAtEntry ==
    /\ phase = "ready" /\ RoomLeft /\ cancel
    /\ phase' = "finish"
    /\ UNCHANGED <<contents, attempt, cancel>>

\* Fault: only a running denoise looks at the cancel token.
StartBlockUnasked ==
    /\ phase = "ready" /\ RoomLeft
    /\ phase' = "denoise"
    /\ step' = 0 /\ active' = AttemptCanvas(0) /\ empties' = 0 /\ ncs' = 0
    /\ stop' = "none" /\ width' = 0
    /\ UNCHANGED <<contents, cancel>>

StartBlock ==
    /\ phase = "ready" /\ RoomLeft /\ ~cancel
    /\ phase' = "denoise"
    /\ step' = 0 /\ active' = AttemptCanvas(0) /\ empties' = 0 /\ ncs' = 0
    /\ stop' = "none" /\ width' = 0
    /\ UNCHANGED <<contents, cancel>>

\* The step's stop reason: a natural stop wins over a prefix exit.
NaturalStop(s) == {"early"} \cup (IF s >= MaxSteps THEN {"max_steps"} ELSE {})
MayPrefixExit(s) ==
    /\ PrefixExit /\ s >= PrefixSteps /\ s < MaxSteps
    /\ active \div 2 >= MinKeep

DenoiseStops ==
    /\ phase = "denoise"
    /\ step' = step + 1
    /\ stop' \in NaturalStop(step + 1)
                   \cup (IF MayPrefixExit(step + 1) THEN {"prefix_exit"} ELSE {})
    /\ phase' = "stopped"
    /\ UNCHANGED <<contents, active, empties, ncs, width, cancel>>

\* No stop fired: the cancel token is read after the stop test.
DenoiseContinues ==
    /\ phase = "denoise" /\ step + 1 < MaxSteps
    /\ step' = step + 1
    /\ phase' = IF cancel THEN "finish" ELSE "denoise"
    /\ UNCHANGED <<contents, active, empties, ncs, stop, width, cancel>>

DenoiseError ==
    /\ phase = "denoise" /\ GpuMayFail
    /\ phase' = "error"
    /\ UNCHANGED <<contents, attempt, cancel>>

\* A degenerate first block is re-rolled on a narrower canvas.
ReRollEmpty ==
    /\ phase = "stopped" /\ blocks = 0 /\ empties < EmptyRetries
    /\ phase' = "denoise"
    /\ empties' = empties + 1 /\ active' = AttemptCanvas(empties + 1) /\ step' = 0
    /\ UNCHANGED <<contents, ncs, stop, width, cancel>>

\* A block that burned its schedule unconverged is re-rolled, then abandoned.
ReRollUnconverged ==
    /\ phase = "stopped" /\ CommitGuard /\ stop = "max_steps" /\ ncs < NcRetries
    /\ phase' = "denoise"
    /\ ncs' = ncs + 1 /\ step' = 0
    /\ UNCHANGED <<contents, active, empties, stop, width, cancel>>

Abandon ==
    /\ phase = "stopped" /\ CommitGuard /\ stop = "max_steps" /\ ncs >= NcRetries
    /\ phase' = "finish"
    /\ UNCHANGED <<contents, attempt, cancel>>

\* Rows a stopped attempt may propose: its canvas, or the settled head of a
\* prefix exit (which is always scanned for a trim).
ProposalWidths ==
    LET head == IF stop = "prefix_exit" THEN active \div 2 ELSE active
    IN  IF ConfTrim \/ stop = "prefix_exit" THEN MinKeep .. head ELSE {head}

Propose ==
    /\ phase = "stopped"
    /\ width' \in ProposalWidths
    /\ phase' = "proposed"
    /\ UNCHANGED <<contents, step, active, empties, ncs, stop, cancel>>

-----------------------------------------------------------------------------
(* default_commit_policy and the commit_block it calls                     *)

\* Fault: only a block that kept its whole canvas is extended.
ExtendsIfFull(kept, ends) == ~ends /\ ~IsLastBlock /\ kept = Canvas

\* Fault: a turn-final block is extended as well.
ExtendsAlways(kept, ends) == ~ends /\ kept > 0

Extends(kept, ends) == ~ends /\ ~IsLastBlock /\ kept > 0

Rows(kept) == [i \in 1..kept |-> blocks + 1]

\* Fault: an empty commit does not use up a block.
CountedIfKept(kept) == IF kept > 0 THEN blocks + 1 ELSE blocks

Counted(kept) == blocks + 1

\* A stop id at row kept cuts the block there; outside tool mode it ends the
\* turn, in tool mode a reply with an open call goes on.  An all-whitespace
\* block ends the turn and is dropped from the reply again.
Commit(kept, hit, defer, blank) ==
    LET ends == (hit /\ ~defer) \/ blank
        grow == Extends(kept, ends)
    IN  /\ phase = "proposed"
        /\ IF hit THEN kept \in 0 .. width - 1 ELSE kept = width
        /\ defer => hit /\ ToolMode
        /\ blank => WsStop /\ ~(hit /\ ~defer)
        /\ blocks' = Counted(kept)
        /\ late' = IF cancel THEN late + 1 ELSE late
        /\ \/ /\ reply' = IF blank THEN reply ELSE reply \o Rows(kept)
              /\ kv' = IF grow THEN kv \o Rows(kept) ELSE kv
              /\ log' = IF grow THEN log \o Rows(kept) ELSE log
              /\ phase' = IF ends THEN "finish" ELSE "ready"
           \/ /\ GpuMayFail /\ grow           \* the extend's dispatch failed
              /\ reply' = reply \o Rows(kept)
              /\ phase' = "error"
              /\ UNCHANGED <<kv, log>>
        /\ UNCHANGED <<attempt, cancel>>

CommitBlock ==
    \E kept \in 0 .. Canvas, hit, defer, blank \in BOOLEAN :
        Commit(kept, hit, defer, blank)

\* finish_turn: kv_valid_tokens = sequences[.. min(kv_len, sequences.len())].
FinishTurn ==
    /\ phase = "finish"
    /\ log' = [i \in 1 .. Least(Len(kv), Len(reply)) |-> reply[i]]
    /\ phase' = "closed"
    /\ UNCHANGED <<reply, kv, blocks, late, attempt, cancel>>

\* The client hung up, or its socket write failed in the step observer.
RequestCancel ==
    /\ phase \notin {"closed", "error"} /\ ~cancel
    /\ cancel' = TRUE
    /\ UNCHANGED <<phase, contents, attempt>>

Over == phase \in {"closed", "error"} /\ UNCHANGED vars

-----------------------------------------------------------------------------
Init ==
    /\ phase = "ready"
    /\ reply = <<>> /\ kv = <<>> /\ log = <<>>
    /\ blocks = 0 /\ step = 0 /\ active = Canvas /\ empties = 0 /\ ncs = 0
    /\ stop = "none" /\ width = 0
    /\ cancel = FALSE /\ late = 0

Driver ==
    \/ Exhausted \/ CancelledAtEntry \/ StartBlock
    \/ DenoiseStops \/ DenoiseContinues \/ DenoiseError
    \/ ReRollEmpty \/ ReRollUnconverged \/ Abandon \/ Propose
    \/ CommitBlock \/ FinishTurn

Next == Driver \/ RequestCancel \/ Over

\* The turn runs on the pipeline's thread in one loop; a GPU dispatch returns
\* (with an error at worst), so an enabled step is taken.
Spec == Init /\ [][Next]_vars /\ WF_vars(Driver)

-----------------------------------------------------------------------------
(* Properties                                                              *)

\* Types; the canvas keeps at least one row through the shrinks of its retries.
TypeOK ==
    /\ phase \in Phases /\ stop \in Stops /\ cancel \in BOOLEAN
    /\ reply \in Seq(Nat) /\ kv \in Seq(Nat) /\ log \in Seq(Nat)
    /\ blocks \in Nat /\ step \in Nat /\ empties \in Nat /\ ncs \in Nat
    /\ late \in Nat
    /\ active \in 1 .. Canvas /\ width \in 0 .. Canvas

\* kv_valid_tokens is, token for token, what the KV cache holds, and both are
\* the beginning of the reply: a block left out of the cache is never followed
\* by one that is put in it (the next turn reuses the log unverified).
LogDescribesKv ==
    /\ log = kv
    /\ Len(kv) <= Len(reply)
    /\ \A i \in 1 .. Len(kv) : kv[i] = reply[i]

\* A denoise at the end of the causal KV fits in the context (set_kv_len's
\* assertion), though replies overshoot the budget by part of a canvas.
CanvasFits ==
    /\ PromptLen + Len(kv) + Canvas <= MaxSeq
    /\ Len(reply) < MaxNew + Canvas

\* Blocks are denoised without part of the reply before them in the cache only
\* when at most one canvas of the budget was left from there on.
LagOnlyInLastCanvas == phase = "denoise" /\ kv # reply => MaxNew - Len(kv) <= Canvas

\* A cancelled turn commits at most the block it was in.
CancelCommitsAtMostOne == late <= 1

\* Every turn ends, whatever the model emits.
TurnEnds == <>(phase \in {"closed", "error"})

=============================================================================
