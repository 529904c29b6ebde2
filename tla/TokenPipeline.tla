--------------------------- MODULE TokenPipeline ---------------------------
(***************************************************************************)
(* The token pipeline (pipeline/runner.rs): one thread that owns the       *)
(* session and serves one op at a time.  A client's call sends an op and   *)
(* blocks for its event, so an op is one action.  KvId = (epoch, position) *)
(* names a place in the causal log; ops that cut the log bump the epoch.   *)
(*                                                                         *)
(* The session is its causal log and, row by row, the tokens its KV cache  *)
(* was computed from (KvSession models how the two are kept together).     *)
(* Which conversation Activate routes to is ConversationPool's subject:    *)
(* here the resident log becomes any prefix of the prompt, over rows that  *)
(* may be another text's.  An op that only returns an Error and changes    *)
(* nothing is a stuttering step.                                           *)
(***************************************************************************)
EXTENDS Integers, Sequences

CONSTANTS
    Token,        \* token ids
    Junk,         \* a row computed behind another text than the log's
    Texts,        \* prompts, targets, canonicals and fills a client sends
    Runs,         \* token runs an extend, a splice or a denoised block holds
    Capacity,     \* extend_capacity(): max_seq - CANVAS
    GpuMayFail,   \* may a GPU dispatch return an error?
    MaxEpoch      \* bound on the epoch counter

ASSUME PipelineSizes ==
    /\ Capacity \in Nat \ {0} /\ MaxEpoch \in Nat /\ GpuMayFail \in BOOLEAN
    /\ Texts \subseteq Seq(Token) \ {<<>>} /\ Runs \subseteq Seq(Token) \ {<<>>}
    /\ Junk \notin Token

VARIABLES
    log,      \* the session's kv_valid_tokens
    kv,       \* the rows of the KV cache: the token each was computed from
    epoch,    \* the pipeline's lineage epoch
    open,     \* is a per-block turn open?
    seqs,     \* the open turn's sequences (prompt and committed reply)
    pending,  \* the proposal awaiting commit or discard, <<>> if none
    gap,      \* history: tokens the open turn committed and left out of the
              \* KV: "none", "left", or "jumped" when it extended behind them
    held,     \* an id a client holds, with the log it was issued for
    loose     \* history: since then a turn op cut or renamed the log, or an
              \* op failed midway

vars == <<log, kv, epoch, open, seqs, pending, gap, held, loose>>
session == <<log, kv>>
turn    == <<open, seqs, pending, gap>>
marks   == <<held, loose>>

Prefix(s, n)   == [i \in 1..n |-> s[i]]
Suffix(s, n)   == [i \in 1 .. Len(s) - n |-> s[n + i]]
Least(a, b)    == IF a < b THEN a ELSE b
IsPrefixOf(s, t) == Len(s) <= Len(t) /\ \A i \in 1 .. Len(s) : s[i] = t[i]

\* The longest common prefix of the log and a token sequence.
Reused(t) ==
    CHOOSE n \in 0 .. Least(Len(log), Len(t)) :
        /\ \A i \in 1..n : log[i] = t[i]
        /\ n < Least(Len(log), Len(t)) => log[n + 1] # t[n + 1]

-----------------------------------------------------------------------------
(* What a session call leaves: truncate_kv_to, extend_kv and begin_turn    *)
(* cut and extend the log and the rows together, also when they fail.      *)

Row == Token \cup {Junk}

Holds(l, rows) == log' = l /\ kv' = rows
Dropped        == Holds(<<>>, <<>>)

\* The first n rows after a truncate: kept, or rebuilt from the log.
Kept(n) == IF n < Len(log) THEN {Prefix(kv, n), Prefix(log, n)} ELSE {kv}

Cut(n) == \E rows \in Kept(n) : Holds(Prefix(log, n), rows)

\* A truncate to n and an extend by ids.
Regrown(n, ids) == \E rows \in Kept(n) : Holds(Prefix(log, n) \o ids, rows \o ids)

\* A truncate to n that failed in its ring rebuild, or the extend after a
\* truncate that succeeded: cut short, or nothing left.
CutShort(n) == Cut(n) \/ (GpuMayFail /\ Dropped)

\* A turn's prompt, behind the rows it reused or prefilled whole, and ids.
Started(prompt, ids) ==
    LET n    == Reused(prompt)
        rows == Prefix(kv, n) \o Suffix(prompt, n)
    IN  \E begun \in {rows, prompt} : Holds(prompt \o ids, begun \o ids)

Fits(l) == Len(l) <= Capacity

\* Fault: a turn does not refuse an extend behind its back.
ConflictsButExtend ==
    {"generate", "rewind", "synthetic_fill", "activate", "finalize",
     "align_to", "splice", "begin_turn", "score"}

\* conflicts_with_open_turn.
Conflicts ==
    {"extend", "generate", "rewind", "synthetic_fill", "activate", "finalize",
     "align_to", "splice", "begin_turn", "score"}

Admitted(op) == open => op \notin Conflicts

Bump == epoch < MaxEpoch /\ epoch' = epoch + 1
Keep == epoch' = epoch

\* A step that cut the log without bumping leaves the held id in the epoch.
Loosens == loose' = TRUE /\ UNCHANGED held

-----------------------------------------------------------------------------
(* Whole-log ops                                                           *)

Mark ==
    /\ held' = [epoch |-> epoch, pos |-> Len(log), log |-> log]
    /\ loose' = FALSE
    /\ UNCHANGED <<session, epoch, turn>>

\* Fault: the capacity check is left to set_kv_len's assertion.
ExtendUnchecked(ids) ==
    /\ Admitted("extend")
    /\ Fits(log) /\ Holds(log \o ids, kv \o ids)
    /\ UNCHANGED <<epoch, turn, marks>>

Extend(ids) ==
    /\ Admitted("extend")
    /\ Fits(log \o ids) /\ Holds(log \o ids, kv \o ids)
    /\ UNCHANGED <<epoch, turn, marks>>

\* Accepted only in the id's epoch; a position past the log is clamped.
RewindTo(id) ==
    /\ Admitted("rewind") /\ id.epoch = epoch
    /\ Cut(Least(id.pos, Len(log)))
    /\ Bump
    /\ UNCHANGED <<turn, marks>>

\* The ring rebuild failed: the session was reset, the epoch stays.
RewindToFails(id) ==
    /\ Admitted("rewind") /\ id.epoch = epoch /\ id.pos < Len(log)
    /\ GpuMayFail /\ Dropped /\ Keep
    /\ Loosens /\ UNCHANGED turn

RewindOk    == RewindTo(held)
RewindFails == RewindToFails(held)

SyntheticFill(text) ==
    /\ Admitted("synthetic_fill")
    /\ Fits(text) /\ Holds(text, text) /\ Bump
    /\ UNCHANGED <<turn, marks>>

\* Truncate to the common prefix, extend the rest.
Aligned(target) == Regrown(Reused(target), Suffix(target, Reused(target)))

\* Fault: AlignTo forgets to bump.
AlignToKeepsEpoch(target) ==
    /\ Admitted("align_to")
    /\ \/ Fits(target) /\ Aligned(target) /\ Keep /\ UNCHANGED marks
       \/ (GpuMayFail \/ ~Fits(target)) /\ CutShort(Reused(target)) /\ Keep /\ Loosens
    /\ UNCHANGED turn

\* The rest may not fit.
AlignTo(target) ==
    /\ Admitted("align_to")
    /\ \/ Fits(target) /\ Aligned(target) /\ Bump /\ UNCHANGED marks
       \/ (GpuMayFail \/ ~Fits(target)) /\ CutShort(Reused(target)) /\ Keep /\ Loosens
    /\ UNCHANGED turn

\* Replace log[start..end) by ids and re-encode the tail.
Splice(start, end, ids) ==
    LET tail == ids \o Suffix(log, end)
    IN  /\ Admitted("splice")
        /\ start <= end /\ end <= Len(log)
        /\ \/ start + Len(tail) <= Capacity /\ Regrown(start, tail) /\ Bump /\ UNCHANGED marks
           \/ /\ GpuMayFail \/ start + Len(tail) > Capacity
              /\ CutShort(start) /\ Keep /\ Loosens
        /\ UNCHANGED turn

\* The rows of l, those from m on computed behind another text.
Foreign(l, m) == [i \in 1 .. Len(l) |-> IF i < m THEN l[i] ELSE Junk]

\* The hot conversation stays, or the pool swaps another in, whose blob is
\* restored under its canonical tokens: gathered under other ones, its rows are
\* theirs from where the two part.  The log is cut to its common prefix with
\* the prompt; the epoch is bumped before that cut can fail.
Activate(prompt) ==
    /\ Admitted("activate")
    /\ \/ Cut(Reused(prompt)) /\ UNCHANGED marks
       \/ \E n \in 0 .. Least(Len(prompt), Capacity), m \in 1 .. Len(prompt) + 1 :
              /\ Holds(Prefix(prompt, n), Foreign(Prefix(prompt, n), m))
              /\ UNCHANGED marks
       \/ GpuMayFail /\ Dropped /\ Loosens
    /\ Bump
    /\ UNCHANGED turn

\* The KV keeps the canonical's longest fitting prefix, or is dropped when the
\* rewind is deep.
Finalize(canonical) ==
    LET n   == Reused(canonical)
        fit == Prefix(canonical, Least(Len(canonical), Capacity))
    IN  /\ Admitted("finalize")
        /\ \/ /\ \/ Holds(fit, Prefix(kv, n) \o Suffix(fit, n))
                 \/ n < Len(log) /\ Dropped
              /\ Bump /\ UNCHANGED marks
           \/ GpuMayFail /\ Holds(Prefix(log, n), Prefix(kv, n)) /\ Keep /\ Loosens
        /\ UNCHANGED turn

-----------------------------------------------------------------------------
(* Turns: Generate, Score and the per-block ops                            *)

\* begin_turn failed: the log is cut to the common prefix or was reset.
BeginFails(prompt) ==
    LET n == Reused(prompt)
    IN  GpuMayFail /\ (Holds(Prefix(log, n), Prefix(kv, n)) \/ Dropped)

\* Whether it returns or a later block fails, a turn leaves its prompt and the
\* reply blocks that were extended (the last one seldom is).
Generated(prompt, reply) ==
    \E n \in 0 .. Len(reply) :
        Fits(prompt \o Prefix(reply, n)) /\ Started(prompt, Prefix(reply, n))

Generates(prompt, reply) ==
    /\ Admitted("generate") /\ Fits(prompt)
    /\ Generated(prompt, reply)
    /\ Loosens /\ UNCHANGED <<epoch, turn>>

GenerateFails(prompt) ==
    /\ Admitted("generate") /\ Fits(prompt)
    /\ \/ BeginFails(prompt)
       \/ GpuMayFail /\ \E reply \in Runs : Generated(prompt, reply)
    /\ Loosens /\ UNCHANGED <<epoch, turn>>

Generate(prompt) ==
    GenerateFails(prompt) \/ \E reply \in Runs : Generates(prompt, reply)

\* score_canvas commits nothing: the log ends at the prompt.
Score(prompt) ==
    /\ Admitted("score") /\ Fits(prompt)
    /\ Started(prompt, <<>>) \/ BeginFails(prompt)
    /\ Loosens /\ UNCHANGED <<epoch, turn>>

BeginTurn(prompt) ==
    /\ Admitted("begin_turn") /\ Fits(prompt)
    /\ \/ /\ Started(prompt, <<>>)
          /\ open' = TRUE /\ seqs' = prompt /\ gap' = "none"
       \/ BeginFails(prompt) /\ UNCHANGED <<open, seqs, gap>>
    /\ Loosens /\ UNCHANGED <<epoch, pending>>

\* A denoise touches neither the log nor the causal KV; a stalled block or an
\* error leaves everything.  A turn's budget ends at the capacity (callers cap
\* max_new_tokens so), past which propose_block is exhausted.
ProposeBlock(ids) ==
    /\ open /\ pending = <<>> /\ Len(seqs) < Capacity
    /\ pending' = ids
    /\ UNCHANGED <<session, epoch, open, seqs, gap, marks>>

\* Tokens committed and not extended; an extend behind some.
LeftOut == IF gap = "none" THEN "left" ELSE gap
Jumped  == IF gap = "none" THEN "none" ELSE "jumped"

\* Fault: the log grows before the extend that may fail.
CommitBlockLogsFirst(kept, extend) ==
    LET ids == Prefix(pending, kept)
        grow == extend /\ kept > 0
    IN  /\ open /\ pending # <<>>
        /\ grow => Fits(kv \o ids)
        /\ seqs' = seqs \o ids /\ pending' = <<>>
        /\ \/ grow /\ Holds(log \o ids, kv \o ids) /\ gap' = Jumped
           \/ grow /\ GpuMayFail /\ Holds(log \o ids, kv) /\ gap' = LeftOut
           \/ ~grow /\ UNCHANGED session /\ gap' = IF kept > 0 THEN LeftOut ELSE gap
        /\ UNCHANGED <<epoch, open, marks>>

\* Append the kept tokens to the turn, then re-encode them into the KV, at its
\* end, whatever earlier commits left out.  The turn keeps them, and the
\* proposal is gone, also when the extend failed.  (Past the capacity
\* set_kv_len's assertion ends the thread.)
CommitBlock(kept, extend) ==
    LET ids == Prefix(pending, kept)
        grow == extend /\ kept > 0
    IN  /\ open /\ pending # <<>>
        /\ grow => Fits(kv \o ids)
        /\ seqs' = seqs \o ids /\ pending' = <<>>
        /\ \/ grow /\ Holds(log \o ids, kv \o ids) /\ gap' = Jumped
           \/ grow /\ GpuMayFail /\ UNCHANGED session /\ gap' = LeftOut
           \/ ~grow /\ UNCHANGED session /\ gap' = IF kept > 0 THEN LeftOut ELSE gap
        /\ UNCHANGED <<epoch, open, marks>>

DiscardBlock ==
    /\ pending # <<>> /\ pending' = <<>>
    /\ UNCHANGED <<session, epoch, open, seqs, gap, marks>>

\* finish_turn: kv_valid_tokens = sequences[.. min(kv_len, sequences.len())],
\* which renames the rows when an extend jumped a gap.
Records ==
    /\ log' = Prefix(seqs, Least(Len(kv), Len(seqs)))
    /\ open' = FALSE /\ seqs' = <<>> /\ gap' = "none"
    /\ loose' = (loose \/ gap = "jumped")
    /\ UNCHANGED <<kv, epoch, pending, held>>

\* Fault: a turn may end with its proposal still pending.
EndTurnAnyTime == open /\ Records

EndTurn == open /\ pending = <<>> /\ Records

-----------------------------------------------------------------------------
Init ==
    /\ log = <<>> /\ kv = <<>> /\ epoch = 0
    /\ open = FALSE /\ seqs = <<>> /\ pending = <<>> /\ gap = "none"
    /\ held = [epoch |-> 0, pos |-> 0, log |-> <<>>] /\ loose = FALSE

LogOp ==
    \/ Mark \/ RewindOk \/ RewindFails
    \/ \E ids \in Runs : Extend(ids)
    \/ \E text \in Texts :
          SyntheticFill(text) \/ AlignTo(text) \/ Activate(text) \/ Finalize(text)
    \/ \E start, end \in 0 .. Capacity, ids \in Runs \cup {<<>>} :
          Splice(start, end, ids)

TurnOp ==
    \/ \E text \in Texts : Generate(text) \/ Score(text) \/ BeginTurn(text)
    \/ \E ids \in Runs : ProposeBlock(ids)
    \/ \E extend \in BOOLEAN, kept \in 0 .. Len(pending) : CommitBlock(kept, extend)
    \/ DiscardBlock \/ EndTurn

Next == LogOp \/ TurnOp

Spec == Init /\ [][Next]_vars

-----------------------------------------------------------------------------
(* Properties                                                              *)

\* Types; the log holds no more than the capacity.
TypeOK ==
    /\ {log, seqs, pending, held.log} \subseteq Seq(Token) /\ kv \in Seq(Row)
    /\ {epoch, held.epoch, held.pos} \subseteq Nat
    /\ {open, loose} \subseteq BOOLEAN /\ gap \in {"none", "left", "jumped"}
    /\ Fits(log)

Truthful == log = kv

\* A log that names the tokens the cache was computed from (the next turn's
\* reuse guard believes it) goes on doing so whatever the ops and their
\* failures, but for two steps: an Activate, whose blob may have been gathered
\* under other tokens, and the end of a turn that extended behind a gap (whose
\* rows are not those of "the prompt plus any committed blocks that were causally
\* extended" in the sequence's order, as finish_turn records them).
LogStaysTruthful ==
    [][Truthful => \/ Truthful'
                   \/ \E text \in Texts : Activate(text)
                   \/ EndTurn /\ gap = "jumped"]_vars

\* While a turn is open the session's log is the turn's own: all of it until a
\* commit left a gap, its beginning until one extended behind the gap, and
\* never longer; a proposal never outlives its turn.
TurnOwnsSession ==
    /\ open => /\ gap = "none" => log = seqs
               /\ gap = "left" => IsPrefixOf(log, seqs)
               /\ Len(log) <= Len(seqs)
    /\ pending # <<>> => open

\* An accepted rewind lands on the very tokens its id was issued for, unless a
\* turn op ran or an op failed since: those leave the epoch as it was, and a
\* rewind past one may land on another lineage's rows.
RewindLandsUnlessLoose == [][RewindOk /\ ~loose => log' = held.log]_vars

=============================================================================
