----------------------------- MODULE ServeWorker -----------------------------
(***************************************************************************)
(* The HTTP server around the token pipeline (server/): one thread per     *)
(* connection, an unbounded job queue, one worker thread that handles one  *)
(* job at a time, and an optional heartbeat thread that talks over a       *)
(* silent prefill.  The worker's step observer and the heartbeat share the *)
(* connection's event channel; the channel closes when its last sender is  *)
(* gone.  Each connection is one request.                                  *)
(*                                                                         *)
(* A reply is the request it answers: two replies to the same messages     *)
(* differ in their text and arguments (each request has its own seed), but *)
(* may call the same functions.                                            *)
(***************************************************************************)
EXTENDS Integers, Sequences

CONSTANTS
    Conn,        \* connections, one chat request each
    None,        \* no connection
    Opening,     \* the conversation each request belongs to
    Answers,     \* the request whose reply it echoes and answers, or None
    Mode,        \* "text", "tool" or "structured"
    Streamed,    \* the requests that ask for server-sent events
    CallSets,    \* the function names a tool reply may call, "none" included
    MaxSteps,    \* bound on the deltas of one generation
    MaxRounds,   \* max_expand_rounds
    LastStage,   \* the statuses a heartbeat may say after its first
    Faults       \* {"worker", "pipeline"}: the threads that may panic

ASSUME ServeShape ==
    /\ None \notin Conn /\ Streamed \subseteq Conn /\ "none" \in CallSets
    /\ Answers \in [Conn -> Conn \cup {None}]
    /\ Mode \in [Conn -> {"text", "tool", "structured"}]
    /\ MaxSteps \in Nat /\ MaxRounds \in Nat /\ LastStage \in Nat
    /\ Faults \subseteq {"worker", "pipeline"}

VARIABLES
    conn,      \* the connection's thread: new, head, wait or shut
    gone,      \* has the client of an open stream hung up?
    told,      \* the last thing it was told: a finish reason or an error
    chan,      \* the connection's channel of ServerEvents
    jobs,      \* the job queue
    compacts,  \* the server's --tool-compact option
    pc, cur,   \* the worker: what it does, for which request
    round,     \* the expand round of a compacted tool turn
    steps,     \* the deltas the running generate has sent
    cancel,    \* the running generate's CancelToken
    out,       \* how that generate ended
    pending,   \* the tool turn answered last (PendingToolTurn)
    alive,     \* is the pipeline's thread alive?
    beat,      \* the heartbeat's thread: off, warm, sleep, send or over
    stage,     \* the next status it has not said
    started,   \* the flag the first denoise step sets
    late,      \* history: statuses an open connection was sent since its separator
    sent,      \* history: the last event the worker sent, if it ended the reply
    calls,     \* history: the function names each reply called
    source,    \* history: the turn whose raw log the request was prompted with
    final      \* history: has the turn's finalize returned?

threads == <<conn, gone, told>>
worker  == <<pc, cur, round, steps, cancel, out, pending, alive>>
beats   == <<beat, stage, started, late>>
history == <<sent, calls, source, final>>
vars    == <<threads, chan, jobs, worker, compacts, beats, history>>

Finishes == {"stop", "length", "tool_calls"}
Deltas   == {"status", "separator", "delta"}
Events   == Deltas \cup Finishes \cup {"error"}

\* A send succeeds while the connection's thread has not dropped its receiver.
Listening(c) == conn[c] # "shut"
Sent(c, events) ==
    chan' = IF Listening(c) THEN [chan EXCEPT ![c] = @ \o events] ELSE chan

\* Does any sender of the channel remain?  A queued job owns one, the worker's
\* job and observer do until it is done with the request, the heartbeat has its
\* own clone.
Sending(c) ==
    \/ \E i \in DOMAIN jobs : jobs[i] = c
    \/ cur = c
    \/ beat[c] \in {"warm", "sleep", "send"}

-----------------------------------------------------------------------------
(* The client and its connection thread                                    *)

\* A client continues a reply it was given; anything else it may ask any time.
Ready(c) == Answers[c] # None => told[Answers[c]] \in {"stop", "tool_calls"}

\* handle_chat: the job is queued, or refused (503) when the worker is gone.
Post(c) ==
    /\ conn[c] = "new" /\ Ready(c)
    /\ IF pc = "dead"
       THEN /\ conn' = [conn EXCEPT ![c] = "shut"]
            /\ told' = [told EXCEPT ![c] = "error"]
            /\ UNCHANGED jobs
       ELSE /\ conn' = [conn EXCEPT ![c] = IF c \in Streamed THEN "head" ELSE "wait"]
            /\ jobs' = Append(jobs, c)
            /\ UNCHANGED told
    /\ UNCHANGED <<gone, chan, worker, beats, history>>

\* (A plain response's thread drains its events whether or not anyone listens.)
HangUp(c) ==
    /\ c \in Streamed /\ conn[c] \in {"head", "wait"} /\ ~gone[c]
    /\ gone' = [gone EXCEPT ![c] = TRUE]
    /\ UNCHANGED <<conn, told, chan, jobs, worker, beats, history>>

\* The thread returns: its receiver and what the channel held are dropped.
Shut(c) ==
    /\ conn' = [conn EXCEPT ![c] = "shut"]
    /\ gone' = [gone EXCEPT ![c] = FALSE]
    /\ chan' = [chan EXCEPT ![c] = <<>>]
    /\ late' = [late EXCEPT ![c] = 0]

\* stream_sse writes the head; a write to a client that hung up may fail.
OpenStream(c) ==
    /\ conn[c] = "head"
    /\ \/ conn' = [conn EXCEPT ![c] = "wait"] /\ UNCHANGED <<gone, chan, late>>
       \/ gone[c] /\ Shut(c)
    /\ UNCHANGED <<told, jobs, worker, beat, stage, started, history>>

ReadDelta(c) ==
    /\ conn[c] = "wait" /\ chan[c] # <<>> /\ Head(chan[c]) \in Deltas
    /\ \/ chan' = [chan EXCEPT ![c] = Tail(@)] /\ UNCHANGED <<conn, gone, late>>
       \/ gone[c] /\ Shut(c)
    /\ UNCHANGED <<told, jobs, worker, beat, stage, started, history>>

ReadEnd(c) ==
    /\ conn[c] = "wait" /\ chan[c] # <<>> /\ Head(chan[c]) \notin Deltas
    /\ told' = IF gone[c] THEN told ELSE [told EXCEPT ![c] = Head(chan[c])]
    /\ Shut(c)
    /\ UNCHANGED <<jobs, worker, beat, stage, started, history>>

\* The channel closed without a Done: a stream ends with the finish reason it
\* started from, a plain response is never written.
ReadEof(c) ==
    /\ conn[c] = "wait" /\ chan[c] = <<>> /\ ~Sending(c)
    /\ told' = IF gone[c] THEN told
               ELSE [told EXCEPT ![c] = IF c \in Streamed THEN "stop" ELSE "nothing"]
    /\ Shut(c)
    /\ UNCHANGED <<jobs, worker, beat, stage, started, history>>

-----------------------------------------------------------------------------
(* The heartbeat (spawn_prefill_status)                                    *)

\* A status goes out; a failed send ends the thread.
Say(c, next) ==
    /\ Sent(c, <<"status">>)
    /\ beat' = [beat EXCEPT ![c] = IF Listening(c) THEN next ELSE "over"]
    /\ late' = [late EXCEPT ![c] = IF started[c] /\ Listening(c) THEN @ + 1 ELSE @]

BeatWarmsUp(c) ==
    /\ beat[c] = "warm"
    /\ Say(c, "sleep")
    /\ UNCHANGED <<threads, jobs, worker, stage, started, history>>

\* Fault: the heartbeat does not look at the flag again.
BeatChecksNothing(c) ==
    /\ beat[c] = "sleep"
    /\ beat' = [beat EXCEPT ![c] = "send"]
    /\ UNCHANGED <<threads, chan, jobs, worker, stage, started, late, history>>

\* After its sleep it looks at the flag, and speaks in a later step.
BeatChecks(c) ==
    /\ beat[c] = "sleep"
    /\ beat' = [beat EXCEPT ![c] = IF started[c] THEN "over" ELSE "send"]
    /\ UNCHANGED <<threads, chan, jobs, worker, stage, started, late, history>>

\* Stages that are due together are skipped but for the last.
BeatSpeaks(c) ==
    /\ beat[c] = "send"
    /\ \E due \in stage[c] .. LastStage :
          /\ stage' = [stage EXCEPT ![c] = due + 1]
          /\ Say(c, IF due = LastStage THEN "over" ELSE "sleep")
    /\ UNCHANGED <<threads, jobs, worker, started, history>>

-----------------------------------------------------------------------------
(* The worker                                                              *)

Unfinished == [calls |-> "none", cancelled |-> FALSE]

\* handle returns: its job, with the sender, is dropped.
Idles ==
    pc' = "idle" /\ cur' = None /\ cancel' = FALSE
    /\ round' = 0 /\ steps' = 0 /\ out' = Unfinished

RepliedWith(e) == Sent(cur, <<e>>) /\ sent' = [sent EXCEPT ![cur] = e]
Fails == RepliedWith("error") /\ Idles

Take ==
    /\ pc = "idle" /\ jobs # <<>>
    /\ cur' = Head(jobs) /\ jobs' = Tail(jobs) /\ pc' = "opening"
    /\ UNCHANGED <<threads, chan, round, steps, cancel, out, pending, alive, beats, history>>

\* Fault: nothing is sent for a prompt that does not render.
RefuseSilently ==
    /\ pc = "opening"
    /\ Idles
    /\ UNCHANGED <<threads, chan, jobs, pending, alive, beats, history>>

\* The prompt does not render, or leaves no room for a reply.
Refuse ==
    /\ pc = "opening"
    /\ Fails
    /\ UNCHANGED <<threads, jobs, pending, alive, beats,
                   calls, source, final>>

\* match_tool_continuation: the same messages up to an assistant message that
\* echoes calls of the pending turn's ids and names, with nothing after it but
\* their responses.  Arguments are not compared, and ids only number the calls.
Matches(p, c) ==
    /\ p # None /\ Answers[c] # None
    /\ Opening[p] = Opening[c] /\ Answers[p] = Answers[Answers[c]]
    /\ calls[p] = calls[Answers[c]]

\* The prompt is the pending turn's raw log and the responses, or, when there is
\* no such turn or the log no longer fits, the messages rendered anew; then the
\* pool is asked for the conversation.  A long new prompt starts the heartbeat.
Activate ==
    /\ pc = "opening" /\ alive
    /\ \E from \in {None} \cup
                   (IF Mode[cur] = "tool" /\ ~compacts /\ Matches(pending, cur)
                    THEN {pending} ELSE {}) :
          source' = [source EXCEPT ![cur] = from]
    /\ \E talk \in BOOLEAN :
          /\ talk => /\ cur \in Streamed /\ Mode[cur] # "structured"
                     /\ ~(compacts /\ Mode[cur] = "tool")
          /\ beat' = [beat EXCEPT ![cur] = IF talk THEN "warm" ELSE @]
    /\ pc' = "generating"
    /\ UNCHANGED <<threads, chan, jobs, cur, round, steps, cancel, out, pending, alive,
                   stage, started, late, sent, calls, final>>

\* Fault: an op's error is only logged.
OpFailsSilently ==
    /\ pc \in {"opening", "generating"}
    /\ Idles
    /\ UNCHANGED <<threads, chan, jobs, pending, alive, beats, history>>

\* Fault: an op that finds the pipeline's thread gone is tried again.
OpRetries ==
    /\ pc \in {"opening", "generating"}
    /\ IF alive THEN Fails /\ UNCHANGED <<threads, jobs, pending, alive, beats,
                                         calls, source, final>>
       ELSE UNCHANGED vars

\* The op failed, or the pipeline's thread is gone and the call says so.
OpFails ==
    /\ pc \in {"opening", "generating"}
    /\ Fails
    /\ UNCHANGED <<threads, jobs, pending, alive, beats,
                   calls, source, final>>

\* A denoise step's observer: the first one sets the flag and separates the
\* statuses from the reply; a delta that cannot be sent cancels the generate.
Step(new) ==
    LET speaks == beat[cur] # "off" /\ ~started[cur]
        events == (IF speaks THEN <<"separator">> ELSE <<>>)
                  \o (IF new THEN <<"delta">> ELSE <<>>)
    IN  /\ pc = "generating" /\ alive /\ ~cancel /\ Mode[cur] # "structured"
        /\ events # <<>> /\ new => steps < MaxSteps
        /\ Sent(cur, events)
        /\ started' = [started EXCEPT ![cur] = @ \/ speaks]
        /\ steps' = IF new THEN steps + 1 ELSE steps
        /\ cancel' = (new /\ ~Listening(cur))
        /\ UNCHANGED <<threads, jobs, pc, cur, round, out, pending, alive,
                       beat, stage, late, history>>

\* The generate returns.  A cancel set during its last step comes too late.
Generated(reply) ==
    /\ pc = "generating" /\ alive /\ Mode[cur] # "structured"
    /\ reply.cancelled => cancel
    /\ out' = reply /\ pc' = "flushing"
    /\ UNCHANGED <<threads, chan, jobs, cur, round, steps, cancel, pending, alive,
                   beats, history>>

\* flush_paced: the text the mapper held back, before the final events.
Flush ==
    /\ pc = "flushing" /\ pc' = "replying"
    /\ \E held \in {<<>>, <<"delta">>} : Sent(cur, held)
    /\ UNCHANGED <<threads, jobs, cur, round, steps, cancel, out, pending, alive,
                   beats, history>>

\* A reply without calls ended at a stop token or at its budget.
Ends(reply) ==
    IF reply.calls # "none" THEN {"tool_calls"} ELSE {"stop", "length"}

\* The client hung up and the generate noticed: no Done, no finalize.
Abandon ==
    /\ pc = "replying" /\ out.cancelled
    /\ Idles
    /\ UNCHANGED <<threads, chan, jobs, pending, alive, beats, history>>

\* A compacted turn that only asked for its stored outputs goes on: the KV is
\* aligned to the reply and the excerpts, and a new generate starts with a
\* mapper, an observer and a cancel token of its own.
Expand ==
    /\ pc = "replying" /\ ~out.cancelled /\ alive
    /\ compacts /\ Mode[cur] = "tool" /\ out.calls = "none" /\ round < MaxRounds
    /\ round' = round + 1 /\ steps' = 0 /\ cancel' = FALSE
    /\ pc' = "generating"
    /\ UNCHANGED <<threads, chan, jobs, cur, out, pending, alive, beats,
                   history>>

\* Done goes out before the finalize; a tool turn that ended in calls is kept as
\* the pending one, one that did not clears it.
Reply ==
    /\ pc = "replying" /\ ~out.cancelled
    /\ (\E e \in Ends(out) : RepliedWith(e)) /\ pc' = "finalizing"
    /\ calls' = [calls EXCEPT ![cur] = out.calls]
    /\ pending' = IF compacts \/ Mode[cur] # "tool" THEN pending
                  ELSE IF out.calls = "none" THEN None ELSE cur
    /\ UNCHANGED <<threads, jobs, cur, round, steps, cancel, out, alive, beats,
                   source, final>>

\* handle_structured: Score ops without an observer, one delta for a stream.
Score ==
    /\ pc = "generating" /\ alive /\ Mode[cur] = "structured"
    /\ LET delta == IF cur \in Streamed THEN <<"delta">> ELSE <<>>
       IN  Sent(cur, delta \o <<"stop">>)
    /\ sent' = [sent EXCEPT ![cur] = "stop"]
    /\ pc' = "finalizing"
    /\ UNCHANGED <<threads, jobs, cur, round, steps, cancel, out, pending, alive, beats,
                   calls, source, final>>

\* Fault: the finalize is left to run behind the next job.
FinalizeBehind ==
    /\ pc = "finalizing"
    /\ Idles
    /\ UNCHANGED <<threads, chan, jobs, pending, alive, beats, history>>

\* The worker is not done with a job before its finalize returned (an error
\* only costs reuse).
Finalize ==
    /\ pc = "finalizing"
    /\ final' = [final EXCEPT ![cur] = TRUE]
    /\ Idles
    /\ UNCHANGED <<threads, chan, jobs, pending, alive, beats,
                   sent, calls, source>>

\* A panic in an op ends the pipeline's thread; its callers get errors.
PipelineDies ==
    /\ "pipeline" \in Faults /\ alive
    /\ pc \in {"opening", "generating", "finalizing"}
    /\ alive' = FALSE
    /\ UNCHANGED <<threads, chan, jobs, pc, cur, round, steps, cancel, out, pending,
                   beats, history>>

\* A panic in handle ends the worker: its queue goes with it.
WorkerDies ==
    /\ "worker" \in Faults /\ cur # None
    /\ pc' = "dead" /\ cur' = None /\ jobs' = <<>>
    /\ UNCHANGED <<threads, chan, round, steps, cancel, out, pending, alive, beats, history>>

-----------------------------------------------------------------------------
Init ==
    /\ conn = [c \in Conn |-> "new"] /\ gone = [c \in Conn |-> FALSE]
    /\ told = [c \in Conn |-> "untold"]
    /\ chan = [c \in Conn |-> <<>>] /\ jobs = <<>>
    /\ compacts \in BOOLEAN
    /\ pc = "idle" /\ cur = None /\ round = 0 /\ steps = 0 /\ cancel = FALSE
    /\ out = Unfinished
    /\ pending = None /\ alive = TRUE
    /\ beat = [c \in Conn |-> "off"] /\ stage = [c \in Conn |-> 1]
    /\ started = [c \in Conn |-> FALSE]
    /\ late = [c \in Conn |-> 0]
    /\ sent = [c \in Conn |-> "unsent"]
    /\ calls = [c \in Conn |-> "none"] /\ source = [c \in Conn |-> None]
    /\ final = [c \in Conn |-> FALSE]

Client(c) == Post(c) \/ HangUp(c)

Thread(c) ==
    /\ OpenStream(c) \/ ReadDelta(c) \/ ReadEnd(c) \/ ReadEof(c)
    /\ UNCHANGED compacts

Beat(c) ==
    /\ BeatWarmsUp(c) \/ BeatChecks(c) \/ BeatSpeaks(c)
    /\ UNCHANGED compacts

Replies ==
    [cancelled : BOOLEAN,
     calls : IF cur # None /\ Mode[cur] = "tool" THEN CallSets ELSE {"none"}]

Handle ==
    /\ \/ Take \/ Refuse \/ Activate \/ OpFails
       \/ \E new \in BOOLEAN : Step(new)
       \/ \E reply \in Replies : Generated(reply)
       \/ Flush \/ Abandon \/ Expand \/ Reply \/ Score \/ Finalize
    /\ UNCHANGED compacts

\* Nothing runs and nothing is owed: the server waits for connections.
Quiet ==
    /\ pc \in {"idle", "dead"} /\ jobs = <<>>
    /\ \A c \in Conn : conn[c] \in {"new", "shut"} /\ beat[c] \in {"off", "over"}
    /\ UNCHANGED <<threads, chan, jobs, worker, beats, history>>

Next ==
    \/ \E c \in Conn : Client(c) /\ UNCHANGED compacts
    \/ \E c \in Conn : Thread(c) \/ Beat(c)
    \/ Handle
    \/ (PipelineDies \/ WorkerDies \/ Quiet) /\ UNCHANGED compacts

\* Every thread that can run runs; clients, and faults, do as they like.
Spec ==
    /\ Init /\ [][Next]_vars
    /\ WF_vars(Handle)
    /\ \A c \in Conn : WF_vars(Thread(c)) /\ WF_vars(Beat(c))

-----------------------------------------------------------------------------
(* Properties                                                              *)

\* Types; the worker holds a job exactly while it handles one, and a
\* connection's heartbeat speaks at most once after its reply has begun.
TypeOK ==
    /\ conn \in [Conn -> {"new", "head", "wait", "shut"}]
    /\ gone \in [Conn -> BOOLEAN]
    /\ told \in [Conn -> Finishes \cup {"untold", "error", "nothing"}]
    /\ chan \in [Conn -> Seq(Events)] /\ jobs \in Seq(Conn)
    /\ pc \in {"idle", "opening", "generating", "flushing", "replying",
               "finalizing", "dead"}
    /\ cur \in Conn \cup {None} /\ (cur = None <=> pc \in {"idle", "dead"})
    /\ round \in 0 .. MaxRounds /\ cancel \in BOOLEAN /\ alive \in BOOLEAN
    /\ out \in [calls : CallSets, cancelled : BOOLEAN]
    /\ pending \in Conn \cup {None} /\ compacts \in BOOLEAN
    /\ beat \in [Conn -> {"off", "warm", "sleep", "send", "over"}]
    /\ stage \in [Conn -> 1 .. LastStage + 1] /\ started \in [Conn -> BOOLEAN]
    /\ steps \in 0 .. MaxSteps /\ sent \in [Conn -> Finishes \cup {"unsent", "error"}]
    /\ calls \in [Conn -> CallSets] /\ source \in [Conn -> Conn \cup {None}]
    /\ final \in [Conn -> BOOLEAN] /\ late \in [Conn -> 0 .. 1]

\* A request the worker is through with was answered, or its client hung up;
\* nothing the pipeline does, its death included, leaves a client waiting.
Answered ==
    pc # "dead" =>
        \A c \in Conn :
            conn[c] \in {"head", "wait"} /\ cur # c /\ (\A i \in DOMAIN jobs : jobs[i] # c)
                => sent[c] # "unsent" \/ gone[c]

\* A client that is told how its reply ended was told what the worker decided;
\* only a worker's death may cut a reply short and call it a stop.
ToldTheTruth ==
    \A c \in Conn : told[c] \in Finishes \cup {"nothing"} =>
        told[c] = sent[c] \/ (pc = "dead" /\ sent[c] = "unsent")

\* The client hears Done before the finalize ran, yet the next round of its
\* conversation is routed only after it did.
FollowUpAfterFinalize ==
    [][Activate =>
         \A p \in {Answers[cur], source'[cur]} \ {None} :
             sent[p] \in {"stop", "tool_calls"} => final[p]]_vars

\* Every connection's thread returns in the end: no event and no closed channel
\* is waited for in vain.
EveryConnectionEnds == \A c \in Conn : []<>(conn[c] \in {"new", "shut"})

=============================================================================
