--------------------------- MODULE PipelineStages ---------------------------
(***************************************************************************)
(* The chain stages around the token pipeline (pipeline/stages.rs): the    *)
(* tool validator over the tool repair over the pipeline, and the caller   *)
(* that brackets a Generate itself (run_summarize_pass).  A stage turns    *)
(* one Generate into marks, rewinds and further Generates; every other op  *)
(* passes through.  One worker calls the chain, so nothing runs between    *)
(* two ops of a stage.  The op log changes nothing and is left out, and    *)
(* both stages run with the one attempt the server gives them.             *)
(*                                                                         *)
(* Every op of a stage is an action of TokenPipeline.  A reply is its ids; *)
(* which replies speak malformed tool grammar is a set.                    *)
(***************************************************************************)
EXTENDS TokenPipeline

CONSTANTS
    Malformed,   \* the replies whose tool grammar is invalid
    ErrorText,   \* the ids of the synthetic error response
    Bumps        \* the epochs one staged call may use up (bounds the epoch)

ASSUME StageData ==
    Malformed \subseteq Runs /\ ErrorText \in Seq(Token) \ {<<>>} /\ Bumps \in Nat

VARIABLES
    validates, repairs,  \* the server's options: which stages are chained
    at,       \* the next op of the staged Generate, "idle" when none runs
    prompt,   \* its prompt
    reply,    \* the reply the chain would return now
    fixed,    \* the reply of a repair that is not unwound yet
    vmark,    \* the validator's mark
    rmark,    \* the repair stage's mark
    smark,    \* the summarize pass's mark
    before,   \* history: the log when the call began
    summing,  \* is a summarize pass the caller?
    retried,  \* has the validator spent its retry?
    failed    \* history: an op of this call failed on the GPU

options == <<validates, repairs>>
marked  == <<vmark, rmark, smark, before>>
tries   == <<summing, retried>>
chain   == <<at, prompt, reply, fixed, marked, tries, failed>>
stack   == <<vars, options, chain>>

Bad(r) == r \in Malformed

Here == [epoch |-> epoch, pos |-> Len(log)]
Zero == [epoch |-> 0, pos |-> 0]

AtRest ==
    /\ at' = "idle" /\ prompt' = <<>> /\ reply' = <<>> /\ fixed' = <<>>
    /\ vmark' = Zero /\ rmark' = Zero /\ smark' = Zero /\ before' = <<>>
    /\ summing' = FALSE /\ retried' = FALSE /\ failed' = FALSE

-----------------------------------------------------------------------------
(* The repair stage                                                        *)

\* What the validator does with the event of its inner Generate.
Judged(r) == IF validates /\ Bad(r) /\ ~retried THEN "rewind" ELSE "leave"

\* Every bracket marks before it generates: the caller of a summarize pass,
\* the validator, the repair stage.  The pipeline thread of a server has no
\* per-block turn open.
Call(text, summarize) ==
    /\ at = "idle" /\ ~open /\ epoch + Bumps <= MaxEpoch
    /\ at' = "generate" /\ prompt' = text /\ summing' = summarize
    /\ vmark' = Here /\ rmark' = Here /\ smark' = Here /\ before' = log
    /\ UNCHANGED <<vars, options, reply, fixed, retried, failed>>

First(new) ==
    /\ at = "generate" /\ Generates(prompt, new)
    /\ reply' = new
    /\ at' = IF repairs /\ Bad(new) THEN "repair" ELSE Judged(new)
    /\ UNCHANGED <<options, prompt, fixed, marked, tries, failed>>

\* An Error event goes straight up (also from the validator's retry).
FirstFails ==
    /\ at = "generate"
    /\ \/ GenerateFails(prompt)
       \/ ~Fits(prompt) /\ UNCHANGED vars
    /\ at' = "leave" /\ reply' = <<>> /\ failed' = TRUE
    /\ UNCHANGED <<options, prompt, fixed, marked, tries>>

\* The bad reply and an error response for it, as a prompt of one more turn.
RepairPrompt == prompt \o reply \o ErrorText

Repair(new) ==
    /\ at = "repair" /\ Generates(RepairPrompt, new)
    /\ at' = "unwind" /\ fixed' = new
    /\ UNCHANGED <<options, prompt, reply, marked, tries, failed>>

\* The repair turn failed, or does not fit: the invalid reply is kept.
RepairFails ==
    /\ at = "repair"
    /\ \/ GenerateFails(RepairPrompt) /\ failed' = TRUE
       \/ ~Fits(RepairPrompt) /\ UNCHANGED <<vars, failed>>
    /\ at' = Judged(reply)
    /\ UNCHANGED <<options, prompt, reply, fixed, marked, tries>>

\* Fault: the log is cut to the end of the corrupt reply.
PromptEndPastReply ==
    [epoch |-> rmark.epoch, pos |-> Len(prompt \o reply)]

\* The end of the prompt: its prefill is kept, the exchange is not.
PromptEnd ==
    [epoch |-> rmark.epoch,
     pos |-> IF rmark.pos > Len(prompt) THEN rmark.pos ELSE Len(prompt)]

\* The exchange is rewound out; the prompt and the new reply are returned.
Unwind ==
    /\ at = "unwind" /\ RewindTo(PromptEnd)
    /\ rmark' = Here' /\ reply' = fixed
    /\ at' = Judged(fixed)
    /\ UNCHANGED <<options, prompt, fixed, vmark, smark, before, tries, failed>>

\* The rewind is refused or fails: the invalid reply is kept.
UnwindFails ==
    /\ at = "unwind"
    /\ \/ PromptEnd.epoch # epoch /\ UNCHANGED vars
       \/ RewindToFails(PromptEnd)
    /\ at' = Judged(reply) /\ failed' = TRUE
    /\ UNCHANGED <<options, prompt, reply, fixed, marked, tries>>

-----------------------------------------------------------------------------
(* The validator                                                           *)

\* Back to the mark, and the inner stage generates again at another seed.
Retry ==
    /\ at = "rewind" /\ RewindTo(vmark)
    /\ vmark' = Here' /\ rmark' = Here' /\ retried' = TRUE
    /\ at' = "generate"
    /\ UNCHANGED <<options, prompt, reply, fixed, smark, before, summing, failed>>

\* "rewind failed; keeping original reply"
RetryRefused ==
    /\ at = "rewind" /\ vmark.epoch # epoch
    /\ at' = "leave"
    /\ UNCHANGED <<vars, options, prompt, reply, fixed, marked, tries, failed>>

RetryFails ==
    /\ at = "rewind" /\ RewindToFails(vmark)
    /\ at' = "leave" /\ failed' = TRUE
    /\ UNCHANGED <<options, prompt, reply, fixed, marked, tries>>

-----------------------------------------------------------------------------
(* The caller                                                              *)

Return ==
    /\ at = "leave" /\ ~summing
    /\ AtRest /\ UNCHANGED <<vars, options>>

\* Fault: a summarize pass whose generate failed is not rolled back.
RollBackOnSuccess ==
    /\ at = "leave" /\ summing
    /\ IF failed THEN UNCHANGED vars ELSE RewindTo(smark)
    /\ AtRest /\ UNCHANGED options

\* run_summarize_pass always rewinds, whatever the Generate returned.
RollBack ==
    /\ at = "leave" /\ summing /\ RewindTo(smark)
    /\ AtRest /\ UNCHANGED options

\* Refused or failed: the summary is given up.
RollBackFails ==
    /\ at = "leave" /\ summing
    /\ \/ smark.epoch # epoch /\ UNCHANGED vars
       \/ RewindToFails(smark)
    /\ AtRest /\ UNCHANGED options

-----------------------------------------------------------------------------
StackInit ==
    /\ Init
    /\ validates \in BOOLEAN /\ repairs \in BOOLEAN
    /\ at = "idle" /\ prompt = <<>> /\ reply = <<>> /\ fixed = <<>>
    /\ vmark = Zero /\ rmark = Zero /\ smark = Zero /\ before = <<>>
    /\ summing = FALSE /\ retried = FALSE /\ failed = FALSE

StageOp ==
    \/ \E text \in Texts, summarize \in BOOLEAN : Call(text, summarize)
    \/ \E new \in Runs : First(new) \/ Repair(new)
    \/ FirstFails \/ RepairFails \/ Unwind \/ UnwindFails
    \/ Retry \/ RetryRefused \/ RetryFails
    \/ Return \/ RollBack \/ RollBackFails

\* Between two staged calls every other op reaches the pipeline as it is.
StackNext == StageOp \/ (at = "idle" /\ Next /\ UNCHANGED <<options, chain>>)

StackSpec == StackInit /\ [][StackNext]_stack

-----------------------------------------------------------------------------
(* Properties                                                              *)

\* The pipeline's types and the stages'; no mark is of an epoch yet to come.
StackTypeOK ==
    /\ TypeOK
    /\ {validates, repairs, summing, retried, failed} \subseteq BOOLEAN
    /\ at \in {"idle", "generate", "repair", "unwind", "rewind", "leave"}
    /\ {prompt, reply, fixed, before} \subseteq Seq(Token)
    /\ {vmark.epoch, rmark.epoch, smark.epoch} \subseteq 0 .. epoch

\* Whatever was re-generated, repaired or refused on the way, the causal
\* context holds the prompt and the reply the caller is given, and nothing of
\* a discarded attempt or of the error exchange (unless the GPU failed, or the
\* log was longer than the prompt when the call began).
CleanReturn ==
    at = "leave" /\ ~failed /\ Len(before) <= Len(prompt)
    => IsPrefixOf(log, prompt \o reply)

\* What a summarize pass over a conversation leaves of it, also when its Generate
\* failed in a later block: the conversation's log under whatever stays, or a
\* reset session, and exactly that log when no stage stepped in.  When one did,
\* the pass's rewind is refused and its exchange stays ("must never persist",
\* says run_summarize_pass), but no more than the prompt and the reply returned
\* unless the GPU failed.
RollBackRestores ==
    [][at = "leave" /\ at' = "idle" /\ summing /\ IsPrefixOf(before, prompt)
       => /\ log' = <<>> \/ IsPrefixOf(before, log')
          /\ fixed = <<>> /\ ~retried => log' \in {before, <<>>}
          /\ failed \/ IsPrefixOf(log', prompt \o reply)]_stack

=============================================================================
