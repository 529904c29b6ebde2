----------------------------- MODULE ChatSession -----------------------------
(***************************************************************************)
(* The chat command (commands/chat.rs, chat/engine.rs, chat/render.rs): a  *)
(* loop that reads lines and runs turns, a background thread that drafts   *)
(* the user's likely next message on the same pipeline while they type, a  *)
(* live pane on the terminal and a stream of events for drivers.           *)
(*                                                                         *)
(* A message and the reply to it are named by the number of the exchange;  *)
(* a prompt is its header, the turns of the history, and how the model's   *)
(* turn is opened.  The cache holds such a sequence.                       *)
(***************************************************************************)
EXTENDS Integers, Sequences, SequencesExt

CONSTANTS
    MaxAsked,    \* bound on the messages of a session
    MaxRounds,   \* max_rounds, the tool rounds a turn may run
    MaxCalls,    \* bound on the tool calls of one reply
    Room         \* the longest prompt that leaves room for a reply

ASSUME ChatShape ==
    MaxAsked \in Nat /\ MaxRounds \in Nat \ {0} /\ MaxCalls \in Nat /\ Room \in Nat

VARIABLES
    options,   \* how the session is shown, and whether tools are declared
    pc, line,  \* the loop's thread: where it is, the line it read last
    history,   \* the turns of the conversation
    turn,      \* turn_idx
    system,    \* is a system prompt set?
    pending,   \* what /response, /thought and /prethink parked
    due,       \* suggestion_due
    spec,      \* the running turn: source of its reply, plan for its thought
    round,     \* its round
    prompt,    \* what the next generate is given
    calls,     \* the calls of the last reply: to run, corrupt, ended by a tool
    kv,        \* what the pipeline's session holds
    gpu,       \* who holds the pipeline's lock
    draft,     \* the drafting thread
    region,    \* the terminal's scroll region: "full" or "split"
    shown,     \* how far the event stream is in a turn, as its protocol has it
    asked      \* history: the number of messages submitted

loop  == <<pc, line>>
talk  == <<history, turn, system, pending, asked>>
run   == <<spec, round, prompt, calls>>
vars  == <<options, loop, talk, due, run, kv, gpu, draft, region, shown>>

None     == "none"
Slots    == {"response", "thought", "prethink", "persistent"}
Lines    == {"empty", "exit", "message", "clear", "rewind", "prompt", "park", "unpark"}
NoCalls  == [left |-> 0, corrupt |-> FALSE, ended |-> FALSE]
NoSpec   == [source |-> "generate", thought |-> "model"]
NoDraft  == [at |-> "over", history |-> <<>>, turn |-> 0, cancel |-> FALSE]

-----------------------------------------------------------------------------
(* Prompts                                                                 *)

User(k) == [who |-> "user", exchange |-> k, thought |-> FALSE]
Model(k, thought) == [who |-> "model", exchange |-> k, thought |-> thought]
Mark(kind, k) == [who |-> kind, exchange |-> k, thought |-> FALSE]

\* The system block opens the prompt: the thinking flag, the system prompt, the
\* declared tools.  Without any of them there is none.
Header(think, sys, tools) ==
    IF think \/ sys \/ tools
    THEN <<[who |-> "header", think |-> think, system |-> sys, tools |-> tools]>>
    ELSE <<>>

\* format_chat_token_ids: a persisted thought turns thinking on for the whole
\* prompt, and is rendered where it was.
Chat(h, think, sys) ==
    Header(think \/ \E i \in DOMAIN h : h[i].thought, sys, FALSE) \o h

\* The tool renderer is given roles and contents only (chat_turns_to_messages).
WithTools(h, sys) ==
    Header(TRUE, sys, TRUE) \o [i \in DOMAIN h |-> [h[i] EXCEPT !.thought = FALSE]]

\* A session with tools renders every turn but a /thought with them.
Conversation(h, plain) ==
    IF options.tools /\ ~plain THEN WithTools(h, system) ELSE Chat(h, TRUE, system)

\* The prompt of a turn: the conversation and the opened model turn, with the
\* seed or the finished thought in it.
FirstPrompt(h, s, k) ==
    Append(Conversation(h, s.thought = "injected"), Mark(s.thought, k))

\* The suggester renders its history and one instruction with default options.
Probe(h) ==
    Append(Chat(Append(h, User(0)), FALSE, FALSE),
           Mark(IF \E i \in DOMAIN h : h[i].thought THEN "model" ELSE "closed", 0))

\* TurnSpec::resolve.
Resolve(slots) ==
    [source |-> IF "response" \in slots THEN "forced"
                ELSE IF options.tools /\ "thought" \notin slots THEN "tools" ELSE "generate",
     thought |-> IF "thought" \in slots THEN "injected"
                 ELSE IF "response" \in slots THEN "model"
                 ELSE IF slots \cap {"prethink", "persistent"} # {} THEN "seeded" ELSE "model"]

-----------------------------------------------------------------------------
(* Events                                                                  *)

\* The turn shape of chat/event.rs, as the steps an event may take a stream.  A
\* turn that cannot generate has no round, or one fewer than it announced.
Shape == {
    <<"idle", "suggestion", "idle">>,    <<"idle", "start", "started">>,
    <<"started", "thought", "thought">>, <<"started", "text", "forced">>,
    <<"thought", "text", "forced">>,     <<"forced", "done", "idle">>,
    <<"started", "round", "round">>,     <<"started", "done", "idle">>,
    <<"round", "thought", "stream">>,    <<"round", "text", "stream">>,
    <<"round", "done", "idle">>,         <<"stream", "done", "idle">>,
    <<"round", "roundend", "tools">>,    <<"stream", "roundend", "tools">>,
    <<"tools", "call", "running">>,      <<"running", "set", "running">>,
    <<"running", "result", "tools">>,    <<"tools", "retry", "retried">>,
    <<"tools", "round", "round">>,       <<"tools", "done", "idle">>,
    <<"retried", "round", "round">>,     <<"retried", "done", "idle">>}

Points == {step[1] : step \in Shape} \cup {"broken"}

Follow(at, event) ==
    IF \E to \in Points : <<at, event, to>> \in Shape
    THEN CHOOSE to \in Points : <<at, event, to>> \in Shape ELSE "broken"

Emit(events) == shown' = FoldLeft(Follow, shown, events)

-----------------------------------------------------------------------------
(* The loop                                                                *)

\* After a turn a draft is started, if there is anyone to show it to.
LoopHead ==
    /\ pc = "head" /\ pc' = "prompt" /\ due' = FALSE
    /\ IF due /\ options.display # "plain"
       THEN draft' = [at |-> "waiting", history |-> history, turn |-> turn, cancel |-> FALSE]
       ELSE UNCHANGED draft
    /\ UNCHANGED <<options, line, talk, run, kv, gpu, region, shown>>

\* Any line, or the end of the input, cancels the draft.
ReadLine(l) ==
    /\ pc = "prompt" /\ pc' = "joining" /\ line' = l
    /\ (l = "message" => asked < MaxAsked)
    /\ draft' = IF draft = NoDraft THEN NoDraft ELSE [draft EXCEPT !.cancel = TRUE]
    /\ UNCHANGED <<options, talk, due, run, kv, gpu, region, shown>>

\* A read error ends the process, and the drafting thread with it.
ReadFails ==
    /\ pc = "prompt" /\ pc' = "closed"
    /\ draft' = NoDraft /\ gpu' = None /\ kv' = <<>>
    /\ UNCHANGED <<options, line, talk, due, run, region, shown>>

\* Fault: commands do not wait for the draft, only messages do.
JoinedForMessage(l) ==
    pc = "joining" /\ line = l /\ (l = "message" => draft.at = "over")

\* The line is looked at when the drafting thread has returned.
Joined(l) == pc = "joining" /\ line = l /\ draft.at = "over"

BackToPrompt ==
    /\ pc' = "head" /\ line' = "empty"
    /\ UNCHANGED <<options, due, run, kv, gpu, draft, region, shown>>

Idle == Joined("empty") /\ BackToPrompt /\ UNCHANGED talk

Exit ==
    /\ Joined("exit") /\ pc' = "closed" /\ line' = "empty"
    /\ UNCHANGED <<options, talk, due, run, kv, gpu, draft, region, shown>>

\* Fault: the turn number goes on after the conversation was cleared.
ClearKeepsTurn ==
    /\ Joined("clear") /\ BackToPrompt
    /\ history' = <<>> /\ pending' = pending \ {"prethink"}
    /\ UNCHANGED <<turn, system, asked>>

Clear ==
    /\ Joined("clear") /\ BackToPrompt
    /\ history' = <<>> /\ turn' = 0
    /\ pending' = pending \ {"prethink"}
    /\ UNCHANGED <<system, asked>>

\* The last turn, if it is of that kind, is taken away.
Without(who, h) == IF h # <<>> /\ Last(h).who = who THEN Front(h) ELSE h

\* Fault: the turn number goes down whether or not something was removed.
RewindAnyway ==
    /\ Joined("rewind") /\ BackToPrompt
    /\ history' = Without("user", Without("model", history))
    /\ turn' = turn - 1
    /\ UNCHANGED <<system, pending, asked>>

Rewind ==
    /\ Joined("rewind") /\ BackToPrompt
    /\ history' = Without("user", Without("model", history))
    /\ turn' = IF history' # history /\ turn > 0 THEN turn - 1 ELSE turn
    /\ UNCHANGED <<system, pending, asked>>

\* /prompt with a text or bare.
SetPrompt ==
    /\ Joined("prompt") /\ BackToPrompt
    /\ system' \in BOOLEAN
    /\ UNCHANGED <<history, turn, pending, asked>>

Park ==
    /\ Joined("park") /\ BackToPrompt
    /\ \E s \in Slots : pending' = pending \cup {s}
    /\ UNCHANGED <<history, turn, system, asked>>

\* The bare commands; a bare /prethink clears both seeds.
Unpark ==
    /\ Joined("unpark") /\ BackToPrompt
    /\ \E s \in {{"response"}, {"thought"}, {"persistent"}, {"prethink", "persistent"}} :
          pending' = pending \ s
    /\ UNCHANGED <<history, turn, system, asked>>

\* A message becomes the user's turn and takes the one-shot slots with it.
Submit ==
    /\ Joined("message")
    /\ asked' = asked + 1
    /\ history' = Append(history, User(asked'))
    /\ spec' = Resolve(pending)
    /\ pending' = pending \cap {"persistent"}
    /\ prompt' = FirstPrompt(history', spec', asked')
    /\ round' = 0 /\ calls' = NoCalls
    /\ Emit(<<"start">>) /\ pc' = "turn" /\ line' = "empty"
    /\ UNCHANGED <<options, turn, system, due, kv, gpu, draft, region>>

-----------------------------------------------------------------------------
(* A turn                                                                  *)

\* run_turn stores the reply and drops the turn's locals; the next idle moment
\* drafts a suggestion.
EndTurn(thought) ==
    /\ history' = Append(history, Model(asked, thought))
    /\ turn' = turn + 1 /\ due' = TRUE /\ pc' = "head"
    /\ spec' = NoSpec /\ round' = 0 /\ prompt' = <<>> /\ calls' = NoCalls
    /\ UNCHANGED <<system, pending, asked>>

\* The prompt leaves no room: an empty reply, and the turn is over.
NoRoom ==
    /\ pc = "turn" /\ spec.source # "forced" /\ Len(prompt) > Room
    /\ Emit(<<"done">>) /\ EndTurn(FALSE)
    /\ UNCHANGED <<options, line, kv, gpu, draft, region>>

\* ChatStream::start: the pane is reserved, if the terminal answers, the round is
\* announced and the ticker runs.
StartRound ==
    /\ pc = "turn" /\ spec.source # "forced" /\ Len(prompt) <= Room
    /\ Emit(<<"round">>)
    /\ region' \in {region} \cup (IF options.display = "tty" THEN {"split"} ELSE {})
    /\ pc' = "asking"
    /\ UNCHANGED <<options, line, talk, due, run, kv, gpu, draft>>

Ask ==
    /\ pc = "asking" /\ gpu = None
    /\ gpu' = "loop" /\ pc' = "generating"
    /\ UNCHANGED <<options, line, talk, due, run, kv, draft, region, shown>>

\* The observer: text, and the thought if it is to be seen.
Observe ==
    /\ pc = "generating" /\ shown = "round"
    /\ \E e \in {"text", "thought"} : Emit(<<e>>)
    /\ UNCHANGED <<options, loop, talk, due, run, kv, gpu, draft, region>>

Reply == Mark("reply", round)

\* The generate returns; a reply's last block may be left out of the cache.
Returns ==
    /\ pc = "generating" /\ gpu' = None
    /\ kv' \in {prompt, Append(prompt, Reply)}
    /\ region' = "full"

\* An error ends the process: nothing is emitted, and the stream is dropped with
\* its ticker still running.
GenerateFails ==
    /\ pc = "generating" /\ gpu' = None
    /\ kv' = <<>> /\ pc' = "closed"
    /\ UNCHANGED <<options, line, talk, due, run, draft, region, shown>>

\* The reply is the answer: no tools, or a round that calls none.
Answered ==
    /\ Returns
    /\ Emit(<<"done">>) /\ EndTurn(spec.thought = "injected")
    /\ UNCHANGED <<options, line, draft>>

\* Fault: a round that called tools is closed like an answer.
CalledDone(n, corrupt) ==
    /\ Returns /\ spec.source = "tools" /\ (n > 0 \/ corrupt)
    /\ Emit(<<"done">>) /\ calls' = [left |-> n, corrupt |-> corrupt, ended |-> FALSE]
    /\ pc' = "calling"
    /\ UNCHANGED <<options, line, talk, due, spec, round, prompt, draft>>

\* The valid calls before the first corrupt one are run.
Called(n, corrupt) ==
    /\ Returns /\ spec.source = "tools" /\ (n > 0 \/ corrupt)
    /\ Emit(<<"roundend">>)
    /\ calls' = [left |-> n, corrupt |-> corrupt, ended |-> FALSE]
    /\ pc' = "calling"
    /\ UNCHANGED <<options, line, talk, due, spec, round, prompt, draft>>

\* A tool's script runs; its directives set a variable or end the turn, which
\* the calls after it do not notice.
RunTool(sets, ends) ==
    /\ pc = "calling" /\ calls.left > 0
    /\ Emit(<<"call">> \o (IF sets THEN <<"set">> ELSE <<>>) \o <<"result">>)
    /\ calls' = [calls EXCEPT !.left = @ - 1, !.ended = @ \/ ends]
    /\ UNCHANGED <<options, loop, talk, due, spec, round, prompt, kv, gpu, draft, region>>

\* The cap on a script's output cuts at a byte: inside a character it panics, and
\* the process unwinds.
ToolPanics ==
    /\ pc = "calling" /\ calls.left > 0
    /\ Emit(<<"call">>) /\ pc' = "closed" /\ kv' = <<>>
    /\ UNCHANGED <<options, line, talk, due, run, gpu, draft, region>>

EndedByTool ==
    /\ pc = "calling" /\ calls.left = 0 /\ calls.ended
    /\ Emit(<<"done">>) /\ EndTurn(FALSE)
    /\ UNCHANGED <<options, line, kv, gpu, draft, region>>

\* Fault: the next round renders the conversation again.
NextRoundAnew ==
    /\ pc = "calling" /\ calls.left = 0 /\ ~calls.ended
    /\ LET retry == IF calls.corrupt THEN <<"retry">> ELSE <<>>
       IN  IF round + 1 = MaxRounds
           THEN Emit(retry \o <<"done">>) /\ EndTurn(FALSE)
           ELSE /\ Emit(retry) /\ pc' = "turn" /\ round' = round + 1
                /\ prompt' = Append(FirstPrompt(history, spec, asked), Mark("responses", round))
                /\ calls' = NoCalls /\ UNCHANGED <<talk, due, spec>>
    /\ UNCHANGED <<options, line, kv, gpu, draft, region>>

\* The next round's prompt is the model's own output and the responses.
NextRound ==
    /\ pc = "calling" /\ calls.left = 0 /\ ~calls.ended
    /\ LET retry == IF calls.corrupt THEN <<"retry">> ELSE <<>>
       IN  IF round + 1 = MaxRounds
           THEN Emit(retry \o <<"done">>) /\ EndTurn(FALSE)
           ELSE /\ Emit(retry) /\ pc' = "turn" /\ round' = round + 1
                /\ prompt' = prompt \o <<Reply, Mark("responses", round)>>
                /\ calls' = NoCalls /\ UNCHANGED <<talk, due, spec>>
    /\ UNCHANGED <<options, line, kv, gpu, draft, region>>

\* What a forced reply leaves the cache to hold (prefill_conversation).
Aligned == Conversation(Append(history, Model(asked, spec.thought = "injected")), FALSE)

\* A forced reply is shown, then the cache is aligned; an error is only logged.
ForceReply ==
    /\ pc = "turn" /\ spec.source = "forced" /\ gpu = None
    /\ Emit((IF spec.thought = "injected" THEN <<"thought">> ELSE <<>>) \o <<"text", "done">>)
    /\ \/ kv' = Aligned
       \/ \E n \in 0 .. Len(Aligned) - 1 : kv' = SubSeq(Aligned, 1, n)
    /\ EndTurn(spec.thought = "injected")
    /\ UNCHANGED <<options, line, gpu, draft, region>>

-----------------------------------------------------------------------------
(* The drafting thread                                                     *)

DraftSkips ==
    /\ draft.at = "waiting" /\ Len(Probe(draft.history)) >= Room
    /\ draft' = NoDraft
    /\ UNCHANGED <<options, loop, talk, due, run, kv, gpu, region, shown>>

DraftLocks ==
    /\ draft.at = "waiting" /\ Len(Probe(draft.history)) < Room /\ gpu = None
    /\ draft' = [draft EXCEPT !.at = "generating"] /\ gpu' = "draft"
    /\ UNCHANGED <<options, loop, talk, due, run, kv, region, shown>>

\* Fault: an empty draft is tried again, cancelled or not.
DraftReturnsOrRetries ==
    /\ draft.at = "generating" /\ gpu' = None
    /\ kv' \in {Probe(draft.history), Append(Probe(draft.history), Mark("draft", 0))}
    /\ \E at \in {"drafted", "waiting"} : draft' = [draft EXCEPT !.at = at]
    /\ UNCHANGED <<options, loop, talk, due, run, region, shown>>

\* The generate ends, by itself, by an error or by the cancel, and lets go of the
\* lock; then the draft is dropped if it is empty.
DraftReturns ==
    /\ draft.at = "generating" /\ gpu' = None
    /\ kv' \in {Probe(draft.history), Append(Probe(draft.history), Mark("draft", 0))}
    /\ draft' \in {[draft EXCEPT !.at = "drafted"], NoDraft}
    /\ UNCHANGED <<options, loop, talk, due, run, region, shown>>

\* It looks at the cancel token once more, and tells its draft in a later step.
DraftChecks ==
    /\ draft.at = "drafted"
    /\ draft' = IF draft.cancel THEN NoDraft ELSE [draft EXCEPT !.at = "telling"]
    /\ UNCHANGED <<options, loop, talk, due, run, kv, gpu, region, shown>>

DraftTells ==
    /\ draft.at = "telling"
    /\ draft' = NoDraft
    /\ Emit(<<"suggestion">>)
    /\ UNCHANGED <<options, loop, talk, due, run, kv, gpu, region>>

-----------------------------------------------------------------------------
Init ==
    /\ options \in [display : {"tty", "json", "plain"}, tools : BOOLEAN]
    /\ pc = "head" /\ line = "empty"
    /\ history = <<>> /\ turn = 0 /\ system = FALSE /\ pending = {} /\ due = FALSE
    /\ spec = NoSpec /\ round = 0 /\ prompt = <<>> /\ calls = NoCalls
    /\ kv = <<>> /\ gpu = None /\ draft = NoDraft
    /\ region = "full" /\ shown = "idle" /\ asked = 0

Command == Idle \/ Exit \/ Clear \/ Rewind \/ SetPrompt \/ Park \/ Unpark \/ Submit

Turn ==
    \/ NoRoom \/ StartRound \/ Ask \/ Observe \/ GenerateFails \/ Answered
    \/ \E n \in 0 .. MaxCalls, corrupt \in BOOLEAN : Called(n, corrupt)
    \/ \E sets, ends \in BOOLEAN : RunTool(sets, ends)
    \/ ToolPanics \/ EndedByTool \/ NextRound \/ ForceReply

Draft == DraftSkips \/ DraftLocks \/ DraftReturns \/ DraftChecks \/ DraftTells

\* The process is over.
Closed == pc = "closed" /\ UNCHANGED vars

Next ==
    \/ LoopHead \/ Command \/ Turn \/ Draft \/ ReadFails \/ Closed
    \/ \E l \in Lines : ReadLine(l)

\* Both threads run when they can: a generate returns, a tool's script ends.
\* What the user types is up to them.
Spec ==
    /\ Init /\ [][Next]_vars
    /\ WF_vars(LoopHead \/ Command \/ Turn) /\ WF_vars(Draft)

-----------------------------------------------------------------------------
(* Properties                                                              *)

Turns == [who : {"user"}, exchange : 1 .. MaxAsked, thought : {FALSE}]
             \cup [who : {"model"}, exchange : 1 .. MaxAsked, thought : BOOLEAN]

\* Every variable stays in its type, and no count goes below zero; a pane is
\* reserved only while a round is on, or was when the process ended.
TypeOK ==
    /\ options \in [display : {"tty", "json", "plain"}, tools : BOOLEAN]
    /\ pc \in {"head", "prompt", "joining", "turn", "asking", "generating", "calling", "closed"}
    /\ line \in Lines /\ history \in Seq(Turns) /\ turn \in 0 .. MaxAsked
    /\ system \in BOOLEAN /\ pending \subseteq Slots /\ due \in BOOLEAN
    /\ spec.source \in {"generate", "tools", "forced"}
    /\ spec.thought \in {"model", "seeded", "injected"}
    /\ round \in 0 .. MaxRounds /\ calls.left \in 0 .. MaxCalls
    /\ gpu \in {None, "loop", "draft"} /\ region \in {"full", "split"}
    /\ (region = "split" => pc \in {"asking", "generating", "closed"})
    /\ draft.at \in {"waiting", "generating", "drafted", "telling", "over"}
    /\ asked \in 0 .. MaxAsked

\* The events of a session follow the protocol's turn shape (chat/event.rs): rounds
\* within a turn, tool events between rounds, one Done at the end, and no
\* suggestion of the drafting thread inside a turn.
TurnShape == shown # "broken"

\* At the prompt the history is whole exchanges and turn_idx counts them, after
\* any mix of turns, /clear and /rewind: the seed of a turn and the number its
\* events carry depend on it.
Paired ==
    pc \in {"head", "prompt", "joining"} =>
        /\ Len(history) = 2 * turn
        /\ \A i \in DOMAIN history : history[i].who = IF i % 2 = 1 THEN "user" ELSE "model"

\* A suggestion is told about the conversation as it is then: "the upcoming turn
\* it would seed" (chat/event.rs), not one that was cut away or answered meanwhile.
SuggestionIsCurrent ==
    [][DraftTells => draft.history = history /\ draft.turn = turn]_vars

\* Every round after the first extends what the cache holds ("each round is a pure
\* KV extension", tool_loop): nothing is rewound between the rounds of a turn.
PureExtension == [][Ask /\ round > 0 => IsPrefix(kv, prompt)]_vars

\* A line that was read is answered: the drafting thread lets go of the pipeline,
\* every round ends, and the tool rounds of a turn come to an end.
LineAnswered == pc = "joining" ~> pc \in {"prompt", "closed"}
=============
