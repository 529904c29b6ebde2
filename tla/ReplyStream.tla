----------------------------- MODULE ReplyStream -----------------------------
(***************************************************************************)
(* One reply on its way to the client: the blocks the engine commits and   *)
(* where its stop rule ends the turn (default_commit_policy), the mapper   *)
(* that watches the same blocks and decides on its own where the text ends *)
(* (decoder/), the paced release of what it holds, and the filter that     *)
(* hides tool markup (server/wire.rs).  The engine and the mapper share no *)
(* state: each sees the block and cuts it for itself.                      *)
(*                                                                         *)
(* Drafts replace one another and are left out.  A token is its kind; the  *)
(* open token stands for its name line too, "call" for call:NAME{, "end"   *)
(* for the brace and the closer after it, "stop" for the turn's close.     *)
(* Code fences, turn openers, markers spelled in plain text and the        *)
(* trimming of white space are left out.                                   *)
(***************************************************************************)
EXTENDS Integers, SequencesExt, FiniteSetsExt

CONSTANTS
    Blocks,     \* the token runs a block may commit
    MaxBlocks   \* bound on the blocks of one reply, do-overs included

Kinds == {"word", "open", "close", "quote", "mark", "call", "end", "stop"}

ASSUME StreamShape == Blocks \subseteq Seq(Kinds) \ {<<>>} /\ MaxBlocks \in Nat

VARIABLES
    tool,      \* tool mode: quotes are grammar, markup is hidden
    defers,    \* DGQ_CONTINUE_PAST_STOP: a stop may be put off
    thinks,    \* is the thought split on?
    seeded,    \* does the prompt end in an open thought?
    paced,     \* DGQ_PACED_STREAM: is committed text held back?
    stages,    \* may a chain stage generate again (tool repair, validator)?
    reply,     \* engine: the reply's tokens since its prompt
    blocks,    \* the blocks committed so far
    phase,     \* running, generated or done
    again,     \* history: a stage generated again behind the same mapper
    shown,     \* mapper: committed_ids
    ended,     \* mapper: it saw the end of the reply
    gated,     \* clock: pace_off
    released,  \* mapper: the cursor of each channel
    hidden,    \* filter: tool markup began
    stream,    \* what the client was sent of each channel
    torn,      \* history: a markup opener was held back when its block ended
    revised,   \* history: committed text was taken back
    parted     \* history: a stop was judged on text the clean-up had changed

options == <<tool, defers, thinks, seeded, paced, stages>>
engine  == <<reply, blocks, phase, again>>
mapper  == <<shown, ended, gated, released>>
wire    == <<hidden, stream>>
past    == <<torn, revised, parted>>
vars    == <<options, engine, mapper, wire, past>>

Channels == {"reasoning", "content"}

\* The tokens of s at the positions I.
At(s, I) == FlattenSeq([i \in DOMAIN s |-> IF i \in I THEN <<s[i]>> ELSE <<>>])

Prefix(s, n) == SubSeq(s, 1, n)
Suffix(s, n) == SubSeq(s, n + 1, Len(s))

InQuote(s, i) == Cardinality({j \in 1 .. i - 1 : s[j] = "quote"}) % 2 = 1

-----------------------------------------------------------------------------
(* What both sides decide on their own                                     *)

\* first_unquoted_stop: where the block ends, given the tokens before it.
StopsIn(block, before) ==
    {i \in DOMAIN block :
        /\ block[i] = "stop"
        /\ ~(defers /\ InQuote(before \o block, Len(before) + i))}

\* Fault: the quote parity is counted in the block at hand only.
StopsByBlock(block, before) ==
    {i \in DOMAIN block : block[i] = "stop" /\ ~(defers /\ InQuote(block, i))}

\* The mapper's own scan, with the quote parity of what it committed.
MapperStops(block, before) == StopsIn(block, before)

Kept(block, stops) == IF stops = {} THEN block ELSE Prefix(block, Min(stops) - 1)

Where(text, kind) == {i \in DOMAIN text : text[i] = kind}

\* read_braced: where the braces opened at i balance.  Quotes hide what they
\* enclose, to the end when they are not closed.
Balances(text, i) ==
    LET Quoted(k) == Cardinality({j \in i + 1 .. k - 1 : text[j] = "quote"}) % 2 = 1
        Braces(kind, k) == {j \in i .. k : text[j] = kind /\ ~Quoted(j)}
    IN  {k \in Braces("end", Len(text)) :
            Cardinality(Braces("call", k)) = Cardinality(Braces("end", k))}

\* The complete calls, as masked_ranges and parse_tool_calls read them: from the
\* left, past the arguments of one that balances, one token past another.
Parsed(text) ==
    LET From[p \in 1 .. Len(text) + 1] ==
            LET calls == {i \in Where(text, "call") : i >= p}
                first == Min(calls)
                ends  == Balances(text, first)
            IN  IF calls = {} THEN {}
                ELSE IF ends = {} THEN From[first + 1]
                ELSE {first} \cup From[Min(ends) + 1]
    IN  From[1]

\* The arguments of a complete call are data.
Masked(text, k) == \E i \in Parsed(text) : i < k /\ k <= Min(Balances(text, i))

Seen(text, kind) == {i \in Where(text, kind) : ~Masked(text, i)}

\* The calls that no brace ends.
Dangling(text) == Seen(text, "call") \ Parsed(text)

\* has_incomplete_tool_call: an opener without its call, or a call left open.
Incomplete(text) ==
    \/ \E i \in Seen(text, "mark") : \A j \in Seen(text, "call") : j < i
    \/ Dangling(text) # {}

\* has_trailing_after_tool_calls: something follows the last complete call
\* before a dangling one.
Trailing(text) ==
    LET calls == {i \in Parsed(text) : \A j \in Dangling(text) : i < j}
    IN  calls # {} /\ Min(Balances(text, Max(calls))) < Len(text)

\* should_continue_past_stop
Continues(text) == Incomplete(text) \/ Trailing(text)

\* ChannelIds::split: a token belongs to the thought when the last channel
\* marker before it (in tool mode, the last unquoted one) opened one.
IsMarker(ids, i) == ids[i] \in {"open", "close"} /\ ~(tool /\ InQuote(ids, i))

InThought(ids, i) ==
    LET before == {j \in 1 .. i - 1 : IsMarker(ids, j)}
    IN  IF before = {} THEN seeded ELSE ids[Max(before)] = "open"

Answer(ids) ==
    At(ids, {i \in DOMAIN ids : ~IsMarker(ids, i) /\ ~InThought(ids, i)})
\* decode_reasoning deletes the quoted markers too.
Musing(ids) ==
    At(ids, {i \in DOMAIN ids : ids[i] \notin {"open", "close"} /\ InThought(ids, i)})

\* The channel markers of a text that its masks leave, and what they enclose.
SpanMarks(text) == Seen(text, "open") \cup Seen(text, "close")

Enclosed(text, i) ==
    LET before == {j \in SpanMarks(text) : j < i}
    IN  before # {} /\ text[Max(before)] = "open"

\* strip_thinking: no thought span, and no marker that opens or closes one.
Stripped(text) ==
    At(text, {i \in DOMAIN text : i \notin SpanMarks(text) /\ ~Enclosed(text, i)})

\* sanitize_model_reply: cut at the first turn close, then strip the spans.
Sanitized(text) == Stripped(Kept(text, Seen(text, "stop")))

\* The two channels (one, when the thought split is off).  The answer is
\* cleaned up by masks over its text: one that a later block completes may give
\* back what was stripped, or strip what was not.
ContentOf(ids)   == Sanitized(IF thinks THEN Answer(ids) ELSE ids)
ReasoningOf(ids) == IF thinks THEN Musing(ids) ELSE <<>>

\* tool_call_lost_in_thinking: a thought holds a complete call and the visible
\* text none, by the masks of the whole text.
LostInThought(text) ==
    LET Body(o) == At(text, {i \in o + 1 .. Len(text) :
                                 \A m \in SpanMarks(text) : o < m /\ m <= i => text[m] = "open"})
    IN  /\ Parsed(Stripped(text)) = {}
        /\ \E o \in Seen(text, "open") : Parsed(Body(o)) # {}

\* validate_tool_reply: the reply of an attempt that a stage does over.
Malformed(ids) == Incomplete(ids) \/ LostInThought(ids)

\* The text of the tokens: a markup opener is the one piece a cut can tear.
TextOf(ids) ==
    FlattenSeq([i \in DOMAIN ids |->
        IF ids[i] = "mark" THEN <<"<|tool", "_call>">> ELSE <<ids[i]>>])

Said(ids) == [c \in Channels |->
                 TextOf(IF c = "content" THEN ContentOf(ids) ELSE ReasoningOf(ids))]

-----------------------------------------------------------------------------
(* Release and filter                                                      *)

Opens(text, i) ==
    i < Len(text) /\ text[i] = "<|tool" /\ text[i + 1] = "_call>"

\* The text before the first markup opener.
Visible(text) ==
    LET marks == {i \in DOMAIN text : Opens(text, i)}
    IN  IF marks = {} THEN text ELSE Prefix(text, Min(marks) - 1)

\* filter_tool_markup_delta looks at one delta at a time.
Filtered(delta, hides) ==
    IF ~tool THEN delta ELSE IF hides THEN <<>> ELSE Visible(delta)

\* Where the release of a newly committed text begins: text that does not
\* continue the committed one goes out again from its beginning.
Cursors(said) ==
    [c \in Channels |-> IF IsPrefix(Said(shown)[c], said[c]) THEN released[c] ELSE 0]

\* The deltas from the cursors to their targets go out.
Release(said, from, targets) ==
    LET Delta(c) == SubSeq(said[c], from[c] + 1, targets[c])
    IN  /\ released' = targets
        /\ stream' = [reasoning |-> stream["reasoning"] \o Delta("reasoning"),
                      content |-> stream["content"]
                                  \o Filtered(Delta("content"), hidden)]
        /\ hidden' = (hidden \/ (tool /\ Visible(Delta("content")) # Delta("content")))

Full(said) == [c \in Channels |-> Len(said[c])]

\* Fault: only the block at hand is searched for a call.
GatesForABlock(text, kept) == Where(kept, "call") # {}

\* on_commit: a call in the committed answer ends the pacing for good.
Gates(text, kept) == gated \/ Where(text, "call") # {}

\* DiffusionStreamMapper::on_step for a finished block.
Watch(block) ==
    IF ended THEN UNCHANGED <<mapper, wire, past>>
    ELSE LET stops == MapperStops(block, shown)
             kept  == Kept(block, stops)
             text  == shown \o kept
             said  == Said(text)
             from  == Cursors(said)
             gates == Gates(said["content"], kept)
             over  == stops # {} /\ ~Continues(ContentOf(text))
         IN  /\ shown' = text
             /\ ended' = over
             /\ gated' = gates
             /\ Release(said, from, IF paced /\ ~gates /\ ~over THEN from ELSE Full(said))
             /\ torn' = (torn \/ (paced /\ ~gates
                                  /\ Visible(said["content"]) # said["content"]))
             /\ revised' = (revised \/ ~IsPrefix(Said(shown)["content"], said["content"]))
             /\ parted' = (parted \/ (stops # {} /\ ContentOf(text) # text))

-----------------------------------------------------------------------------
Init ==
    /\ tool \in BOOLEAN /\ defers \in BOOLEAN /\ (defers => tool)
    /\ thinks \in BOOLEAN /\ seeded \in BOOLEAN /\ (seeded => tool /\ thinks)
    /\ paced \in BOOLEAN /\ stages \in BOOLEAN
    /\ reply = <<>> /\ blocks = 0 /\ phase = "running" /\ again = FALSE
    /\ shown = <<>> /\ ended = FALSE /\ gated = FALSE
    /\ released = [c \in Channels |-> 0]
    /\ hidden = FALSE /\ stream = [c \in Channels |-> <<>>]
    /\ torn = FALSE /\ revised = FALSE /\ parted = FALSE

\* A block is final: the mapper sees it, then the engine commits it up to its
\* stop, which ends the turn unless it is put off.
Commit(block) ==
    LET stops == StopsIn(block, reply)
        kept  == Kept(block, stops)
    IN  /\ phase = "running" /\ blocks < MaxBlocks
        /\ reply' = reply \o kept /\ blocks' = blocks + 1
        /\ phase' = IF stops # {} /\ ~(defers /\ Continues(reply \o kept))
                    THEN "generated" ELSE phase
        /\ Watch(block)
        /\ UNCHANGED <<options, again>>

\* A denoise step: some of what is held goes out.
Denoise ==
    /\ phase = "running" /\ blocks < MaxBlocks /\ ~ended /\ paced /\ ~gated
    /\ \E t \in [Channels -> 0 .. Max({Len(Said(shown)[c]) : c \in Channels})] :
          /\ \A c \in Channels : released[c] <= t[c] /\ t[c] <= Len(Said(shown)[c])
          /\ Release(Said(shown), released, t)
    /\ UNCHANGED <<options, engine, shown, ended, gated, past>>

\* The budget is spent (or a block found nothing to commit).
OutOfBudget ==
    /\ phase = "running" /\ phase' = "generated"
    /\ UNCHANGED <<options, reply, blocks, again, mapper, wire, past>>

\* Fault: the do-over starts a new text but keeps the cursors.
GenerateAgainAfresh ==
    /\ stages /\ ~again /\ phase = "generated" /\ Malformed(reply)
    /\ again' = TRUE /\ phase' = "running" /\ reply' = <<>>
    /\ shown' = <<>> /\ ended' = FALSE
    /\ UNCHANGED <<options, blocks, gated, released, wire, past>>

\* A stage rewinds and generates again, with the observer of the first try.
GenerateAgain ==
    /\ stages /\ ~again /\ phase = "generated" /\ Malformed(reply)
    /\ again' = TRUE /\ phase' = "running" /\ reply' = <<>>
    /\ UNCHANGED <<options, blocks, mapper, wire, past>>

\* Fault: only the answer is flushed.
FlushContentOnly ==
    LET said == Said(shown)
        Held(c) == Suffix(said[c], released[c])
    IN  /\ phase = "generated" /\ phase' = "done"
        /\ stream' = [stream EXCEPT !["content"] = @ \o Filtered(Held("content"), FALSE)]
        /\ released' = Full(said)
        /\ UNCHANGED <<options, reply, blocks, again, shown, ended, gated, hidden, past>>

\* flush_paced: the rest goes out through a filter of its own.
Flush ==
    LET said == Said(shown)
        Held(c) == Suffix(said[c], released[c])
    IN  /\ phase = "generated" /\ phase' = "done"
        /\ stream' = [reasoning |-> stream["reasoning"] \o Held("reasoning"),
                      content |-> stream["content"] \o Filtered(Held("content"), FALSE)]
        /\ released' = Full(said)
        /\ UNCHANGED <<options, reply, blocks, again, shown, ended, gated, hidden, past>>

Next ==
    \/ \E block \in Blocks : Commit(block)
    \/ Denoise \/ OutOfBudget \/ GenerateAgain \/ Flush

Spec == Init /\ [][Next]_vars

-----------------------------------------------------------------------------
(* Properties                                                              *)

\* Types; nothing is released that the mapper did not see, and nothing streamed
\* that was not released, until committed text was taken back.
TypeOK ==
    /\ phase \in {"running", "generated", "done"} /\ blocks \in 0 .. MaxBlocks
    /\ {tool, defers, thinks, seeded, paced, stages, again, ended, gated, hidden,
        torn, revised, parted} \subseteq BOOLEAN
    /\ {reply, shown} \subseteq Seq(Kinds)
    /\ \A c \in Channels :
          /\ released[c] \in 0 .. Len(Said(shown)[c])
          /\ revised \/ Len(stream[c]) <= released[c]

\* The client of a finished reply was sent each channel of the engine's reply,
\* whole and once, without its tool markup: the two stop rules agreed, and
\* nothing held back was lost, repeated or let past the filter.  (Unless a stage
\* generated again, a markup opener was held, committed text was taken back, or
\* stops may be put off and one was judged on text that the split or the
\* clean-up had taken something from.)
ReplyReachesClient ==
    phase = "done" /\ ~again /\ ~torn /\ ~revised /\ (defers => ~parted) =>
        /\ stream["reasoning"] = Said(reply)["reasoning"]
        /\ stream["content"] = IF tool THEN Visible(Said(reply)["content"])
                               ELSE Said(reply)["content"]

\* An agent that must run a call never waits for the pace: once a call is in the
\* committed answer nothing is held, in this block or in any later one.
CallsAreNeverHeld ==
    Where(ContentOf(shown), "call") # {} => released = Full(Said(shown))

\* The claim of pipeline/stages.rs: the caller receives the new reply.
AnswerIsTheReply == phase = "done" => ContentOf(shown) = ContentOf(reply)

=============================================================================
