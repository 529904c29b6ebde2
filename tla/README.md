# TLA+ models and proofs for diffgemma's serving core

diffgemma serves a block-diffusion language model: a block of `CANVAS` rows is
denoised in place against a causal KV cache, committed, re-encoded causally
into the cache, and so on until the turn ends.  The cache is worth minutes of
GPU time, so the code goes to great lengths to *reuse* it - across blocks,
turns, rewinds, conversations and restarts.  Every one of those reuses rests on
one belief: **the token log the session keeps says exactly what the cache
holds.**  When the belief is wrong nothing crashes; the model just reads
another conversation's context.  That is what this project is about.

Source paths below are relative to the repository's `src/` directory.

## 1. Inventory

| Part | State | Operations | What is hard |
|---|---|---|---|
| KV session and step runtime: `metal/step_generate/session.rs`, `metal/step_kernel/runtime.rs`, `metal/step_kv/mod.rs`, kernel `shaders/attn/qk_rope_kv` | `kv_valid_tokens`, `params.kv_len`, `kv_write_end`, monolithic KV (a ring per sliding layer), optional f32 side ring and its cursor | `extend_kv`, `reset_kv`, `truncate_kv_to`, `rollback_to`, `begin_turn`, `prefill_chunks_from`, engine prefill, denoise, `snapshot_kv`, `restore_kv` | ring wrap against rewinds; chunk padding; a dispatch failing midway; stale mirrors |
| Turn loop: `metal/step_generate/turn.rs` | `TurnState` (sequences, blocks, budget), attempt state | `begin_turn`, `propose_block`, `default_commit_policy`, `commit_block`, `finish_turn` | two retry loops, partial commits, whether a block is extended, cancellation, overshoot of the budget |
| Token pipeline: `pipeline/runner.rs`, `op.rs`, `event.rs` | epoch, open turn, pending proposal, the session | 15 ops, one event each, on one thread | ops behind an open turn; truncate-then-extend that fails halfway; stale `KvId`s |
| Conversation pool: `conversation.rs` | conversations (canonical tokens, RAM/SSD snapshot, stamp), byte counters, blobs | `activate`, `finalize`, rebalance, spill, `Drop` | snapshots and logs of different lengths; hand-kept counters; write failures; kill and restart |
| Serve worker and HTTP: `server/` | job queue, one worker, a response channel per request | accept, enqueue, generate, stream, finalize, cancel | dead clients, heartbeat against first delta, done before finalize |
| Pipeline stages: `pipeline/stages.rs` | verdict and retry state | wrap Generate | nested brackets of mark, generate and rewind across failures |
| Memory budget: `membudget.rs` | permits, FIFO tickets, lock files | `acquire`, drop | condvar wake-ups, cross-process locks, stall deadline |
| Stream decoding: `decoder/`, `server/wire.rs`, `tools/parse.rs` | committed ids, release cursors, markup filter | watch a block, pace, flush, filter | the engine and the mapper cut the same block each for itself; nothing lost, repeated or leaked |
| Chat command: `commands/chat.rs`, `chat/` | the conversation and `turn_idx`, parked replies and thoughts, the drafting thread's task, the event stream, the live pane | read a line, `/clear`, `/rewind`, `/prompt`, park, submit; a turn plain, with tools or forced; draft a suggestion | a second thread on the same pipeline; many ways out of a turn; the cache shared by three renderings of one conversation |
| Structured decisions, delimiters | text state | text in, text out | rendering |
| Expert cache, download and resume | LRU; chunk log | load, evict; fetch, verify | eviction under a byte cap; resume over changed bytes |
| Kernels, GEMM crates, CPU reference, sampler, DGQ format, tokenizer, CLI, harnesses | - | numeric or pure | not a matter of control |

How they interact: an HTTP thread puts a job on the worker's queue; the worker
(or the chat engine, through pipeline stages) sends ops to the pipeline thread
and waits for each event; the pipeline thread owns the conversation pool, which
owns the one session; a turn runs inside one op (Generate) or one op per block.
The step observer calls back from the pipeline thread into the stream mapper
and cancels the turn when the client's socket is gone.

The hazards this leads to, each at its line, are listed in `PROJECT.json`.

## 2. The modules

| Module | Models | Extends / instantiates |
|---|---|---|
| `CausalLog` | what a KV session promises: a log that grows, is cut, shelved and restored, and a *view* that is always the log's own window | - |
| `KvSession` | the session, the runtime's prefill loop and the ring | `CausalLog` through a refinement mapping |
| `TurnBlocks` | one turn, block by block | - |
| `TokenPipeline` | the op loop over the session | - |
| `PipelineStages` | the tool repair stage, the tool validator and the summarize bracket around the op loop | `TokenPipeline`: every op of a stage is an action of it |
| `ConversationPool` | the pool under the worker's request loop | - |
| `ServeWorker` | connection threads, job queue, worker, heartbeat | - |
| `ReplyStream` | one reply on its way from the committed blocks to the client | - |
| `ChatSession` | the chat loop, its turns and the drafting thread | - |
| `MemBudget` | threads of several processes under the machine's memory budget | - |
| `KvSession_proofs`, `TurnBlocks_proofs`, `PipelineStages_proofs`, `ConversationPool_proofs`, `ServeWorker_proofs`, `ReplyStream_proofs`, `ChatSession_proofs`, `MemBudget_proofs` | the proofs; `PipelineStages_proofs` holds those about `TokenPipeline` too, whose step lemmas the stages cite | the module they name, TLAPS |
| `MCKvSession`, `MCPipelineStages`, `MCConversationPool`, `MCServeWorker`, `MCReplyStream`, `MCMemBudget` | token sets, prompts, blocks, connections, threads for TLC (the constants of `TurnBlocks` and `ChatSession` are numbers and flags, given in their .cfg) | the module they name |

The layers are composed by contract rather than by one product state space.
`KvSession` shows that a session call leaves a log the cache agrees with (also
when it fails), `TurnBlocks` that a turn does; `TokenPipeline` and
`ConversationPool` take those two facts as the effect of a call ("the log
becomes a prefix, with its rows") and ask what the layer above does with them.
In turn `TokenPipeline` takes from `ConversationPool` that an Activate may restore
rows of another text, and from `TurnBlocks` that an extend may fail.
`PipelineStages` composes with the pipeline outright: its steps *are* the
pipeline's, called with prompts and ids of the stage's own, so the pipeline's
invariants are checked and proved again under it.  `ServeWorker` sees a pipeline
call as one step that may fail (or find the thread dead), and `ReplyStream` takes
the blocks that `TurnBlocks` commits apart into tokens.

### KvSession

*State.*  `log` is `kv_valid_tokens`, `kvLen` and `writeEnd` are the two step
parameters, `ring` is one sliding layer's slots, `side` the f32 mirror with
`sideValid` its cursor, `todo`/`pos`/`engine` the prefill in progress (one
forward per step, so that a failure can fall between forwards), `saved` a
snapshot.  A slot does not hold numbers: it holds the *causal prefix* under
which it was written (position p of log l is labelled by the first p+1 tokens
of l), which is exactly what the stored K/V depends on; canvas rows are labelled
by the empty sequence.  `hi` is a history variable, the highest position written
since the log was last empty.  A full-attention layer is the same ring with
`Ring >= MaxSeq`.

*Actions.*  `PrefillChunk` is one iteration of `prefill_chunks_from` (super-chunk
or padded chunk, write bracket, the closing assignments of the last one),
`PrefillError` a dispatch that failed after some rows were written: the early
return leaves `kv_len` at the chunk, the bracket open and the log alone.
`EnginePrefill` and `EngineError` are the f32 path, which zero-fills the
monolithic cache and packs into it.  `TruncateKvTo` is `truncate_kv_to` (and
`rollback_to`): the O(1) clamp or the rebuild.  `BeginTurn` is the reuse
decision of `begin_turn` up to its prefill; `Denoise` the canvas rows a block
writes past the log; `SnapshotKv` and `RestoreKv` gather and scatter slots.

*Constants.*  `RingAssumption` is the slack arithmetic of `kv_ring_slots`;
`InputsAssumption` the headroom every caller leaves (`set_kv_len` asserts it);
`EngineMax <= Ring` is the default threshold of the engine path - with forced
flags a longer prompt makes the pack kernel's threads race for a slot, which is
outside the model.

### TurnBlocks

*State.*  The reply part of `sequences`, of the causal KV and of
`kv_valid_tokens` as sequences of block numbers (enough to tell a token at its
own position from one that is not), the driver's phase, the attempt's step,
width and retry counters, the cancel token and a history count of blocks
committed after it was set.

*Actions.*  `propose_block`'s three entry verdicts, one action per denoise step
outcome, its two re-rolls, the abandon and the proposal; `CommitBlock` is
`default_commit_policy` with the `commit_block` it calls, its extend possibly
failing; `FinishTurn` records the log.  What the model emits - stop reasons,
degenerate canvases, trims, stop ids, blank blocks, open tool calls - is
nondeterministic, inside the bounds the code enforces (`MIN_CONF_KEEP`,
half-canvas exits, the order of the stop tests).

### TokenPipeline

*State.*  The session's log and, row by row, the token each row of its cache was
computed from (`Junk` for one computed behind another text), the epoch, the open
turn's sequence, the pending proposal, and the one `KvId` a client holds together
with the log it was issued for.  `gap` and `loose` are history: whether the open
turn committed tokens it left out of the cache ("left") and then extended behind
them ("jumped"); whether a turn op ran or an op failed since the id was issued.

*Actions.*  One per op of `run_pipeline`; ops that truncate and then extend have
the outcomes "done", "cut but not extended" and "reset".  A Generate that fails may
fail before its prompt is in (the common prefix or nothing stays) or in any later
block (the prompt and the blocks already extended stay).  `CommitBlock` extends at
the end of the cache whatever earlier commits of the turn left out or failed to
extend: nothing in `runner.rs` or `turn.rs` prevents it, and `op.rs` only says what
`extend: false` is for.  `Activate` restores any prefix of the prompt over rows
that may be another text's from some position on, which is what the violation
`PoolStaleBlob` of the layer below amounts to here.

### PipelineStages

*State.*  The server's two options (which stages are chained), the position in
the staged Generate (`at`), its prompt, the reply the chain would return and the
one a repair produced, and the three marks: the validator's, the repair stage's,
the summarize pass's.  `before`, `failed` and `retried` are history for the
properties (`retried` is also the validator's single attempt).

*Actions.*  `Call` marks; `First` is the inner Generate with its verdict;
`Repair` the second turn over prompt, bad reply and error response; `Unwind` the
rewind to the end of the prompt; `Retry` the validator's rewind and its second
Generate; `Return` and `RollBack` the caller.  Each has its failure action: an op
that failed on the GPU (a Generate also in a later block), a prompt that does not
fit, a mark whose epoch has passed.
Between two staged calls every op of `TokenPipeline` may run.  Both stages run
with one attempt, as `build_pipeline` configures them.

### ConversationPool

*State.*  The hot session (log and contents), each conversation's canonical
tokens, tier, snapshot and stamp, the two byte counters, the cache directory,
and what the pipeline thread is doing for the worker.  A request is `Activate`
(stay, or stash and materialize), the rebalance loop one victim per step, the
salvage truncate, `Generate`, and `Finalize` - or `Cancelled`, or a failure.
A blob keeps bytes and no log: restoring it lays the bytes out under the
conversation's canonical tokens.  `Killed` leaves the blobs in the directory,
`Started` removes them.

### ServeWorker

*State.*  Per connection: where its thread is, whether its client hung up, what
it was last told, its channel of `ServerEvent`s.  The job queue; the worker's
position and job, its expand round, the deltas sent, the cancel token and the
outcome of the generate; the pending tool turn; whether the pipeline's thread
lives.  Per connection a heartbeat thread, with the flag that stops it.  A
channel is closed when no sender is left (`Sending`): the queued job, the
worker's job, the heartbeat's clone.

*Actions.*  `Post` to `ReadEof` are `handle_chat` and `stream_sse` on the
connection's thread, `BeatWarmsUp` to `BeatSpeaks` the heartbeat (which looks at
its flag in one step and speaks in the next), `Take` to `Finalize` the worker in
the order `handle` has: prompt, activate, generate with its step observer, flush,
abandon or expand or reply, finalize.  `Matches` is `match_tool_continuation`,
which compares ids and names and not arguments.  `PipelineDies` and `WorkerDies`
are panics; a dead pipeline answers every call with an error, a dead worker takes
the queue with it.

### ReplyStream

*State.*  The engine's reply (its tokens since the prompt); the mapper's committed
ids, its `ended` and pacing flags and its two release cursors; the markup filter's
flag and what the client was sent of each channel; the options of the server and
the template as constants of a behaviour.  A token is its kind: a word, a channel
marker, a quote, the halves of a call, a stop.  `torn`, `revised` and `parted` are
history: a markup opener was held when its block ended; committed text was taken
back; a stop was judged on text that the split or the clean-up had changed.

*Actions.*  `Commit` shows a block first to the mapper (`Watch`) and then to the
engine's stop rule, which cut it independently; `Denoise` is a paced release,
`GenerateAgain` a stage that does the reply over behind the same mapper, `Flush`
the worker's `flush_paced`.  `Parsed`, `Masked`, `Incomplete`, `Trailing`,
`LostInThought` are the scanners of `tools/parse.rs` over token kinds: balanced
braces outside quotes, arguments of a complete call masked, calls left open.
`ContentOf` is the answer as `decode_content` gives it, with the thought split on
or off: cut at its first unmasked turn close and rid of the channel markers and the
spans they enclose (`Sanitized` and `Stripped`, for `sanitize_model_reply` and
`strip_thinking`).  The masks are over the whole text, so a later block can change
what an earlier one said; `Cursors` then starts the release again from the
beginning, as `on_step` of `decoder/serve.rs` does.

### ChatSession

*State.*  The loop's position and the line it read; the conversation as turns
(`User(k)`, `Model(k, thought)`) and `turn_idx`; the slots that `/response`,
`/thought` and `/prethink` fill; the running turn's `TurnSpec`, round, prompt and
calls; what the pipeline's session holds (`kv`) and who has the pipeline's lock
(`gpu`); the drafting thread with the history it was given and its cancel token;
the terminal's scroll region; and how far the event stream is in a turn (`shown`,
over the grammar `Shape` of `chat/event.rs`).  A message is named by its exchange;
a prompt is its header (thinking flag, system prompt, tools), the turns and how
the model's turn is opened, which is what decides where two prompts part.

*Actions.*  `ReadLine` cancels the draft; every line, an empty one too, waits for
the drafting thread to return (`Joined`) before its command changes anything;
`Submit` resolves the spec (`Resolve`).  `StartRound`, `Ask`,
`Observe`, `Answered`, `Called`, `RunTool`, `EndedByTool`, `NextRound` are
`generate_turn` and `tool_loop`, `ForceReply` a reply the user gave; `NoRoom`,
`GenerateFails` and `ToolPanics` leave a turn early.  `DraftSkips` to `DraftTells`
are `Suggester::spawn` and `generate_suggestion`, which looks at its cancel token
and tells its draft in two steps.

### MemBudget

*State.*  Per process the FIFO of waiters and `used`; per waiter whether
something `moved` since its last poll and how long it has stalled; the lock file
at each process's path (present, who holds its flock, its byte stamp) and what
each permit's descriptor refers to - the file at the path, or one unlinked since.
`build_step_runtime` is the only caller of `acquire` and always passes the same
label, so a process has one path.  `quiet` (ticks since a release, counted while
someone waits) and `blind` (grants that did not count some runtime's memory) are
history.

*Actions.*  `Poll` is one pass of `acquire`'s loop under the mutex, with the scan
of the lock directory and the files it reaps: `Grant`, `Wait` or `GiveUp`.
`OpenFile`, `LockFile`, `StampFile` are the calls of `advertise`, made after the
mutex is dropped, so every poll of the other process can fall between them.
`Unlist` and `Release` are the permit's `Drop`, `Freed` the rest of the runtime,
whose fields are dropped after it.  `Kill` ends a process: its flocks go, its
file stays.  A scan is one step, which is why at most two processes are allowed.

## 3. What the runs check

| Run | Bounds | Shows |
|---|---|---|
| `KvSessionWrap` | 7 positions, ring 4, window 2, canvas 2, dispatches may fail, side ring on | types and capacity; **RingHolds**: no position within a ring of the highest write is lost; one rewind of a clean cache keeps the window exact; a forward reads only rows that are there |
| `KvSessionLinear` | 6 positions, ring 6, window 3, two-chunk forwards, engine prefills up to 2, snapshots, failures | without wrap the session implements `CausalLog`: its log grows, is cut, shelved and restored, and what a reader sees is always the log's own window |
| `KvRewindTwice` | ring 4, window 2, no failures | *violation*: two O(1) rewinds lose the window |
| `TurnBlocks` | canvas 4, budget 6, two steps a block, every lever on | types, log against cache, canvas fits, bounded lag, prompt cancel, termination |
| `PipelineStages` | capacity 3, two tokens, three prompts (one too long), two replies (one malformed), epoch 2, both stages on or off, failures | under every op and every staged call: **LogStaysTruthful**: a truthful log stays so but for a restored blob and the end of a turn that extended behind a gap; a turn owns the session; rewinds land unless loosened; **CleanReturn**: nothing of a discarded attempt stays in the context; **RollBackRestores**: a summarize pass never damages the conversation's log beneath it, leaves exactly that log (or a reset session) when no stage stepped in, and no more than its prompt and reply on it when one did |
| `ConversationPool` | capacity 3, 3 conversations, 4 requests, RAM for one short snapshot, disk for one or two | **TiersAccounted**: counters and the directory match what is stored and the budgets hold; wrong KV only after a misread blob |
| `PoolStaleBlob` | the same | *violation*: cancel, switch away, spill, switch back |
| `MemBudget` | 2 processes, 2 + 1 threads, requests 2 and 5 of 4, deadline one tick, one process may be killed | bytes and tickets are accounted; overcommit only after a grant that missed a runtime; scans never overcount; no give-up while permits are released; every acquire returns |
| `ServeWorker` | a streamed tool turn, the round that answers it, a structured request; one delta a generate, one expand round, two heartbeat stages; client may hang up, either thread may die | at most one status line follows the first byte of a reply; every request the worker is through with was answered; a client is told what the worker decided; the next round is routed after the finalize although `Done` came first; every connection ends |
| `ReplyStream` | three blocks out of eleven shapes, all six options | **ReplyReachesClient**: each channel, cleaned up, arrives whole, once, without markup, until text is taken back or a stop is judged on two texts; **CallsAreNeverHeld** |
| `StaleAnswer` | the same | *violation*: the mapper of the first attempt decides what the second one says |
| `ChatSession` | two messages, two tool rounds, two calls a reply, prompts of at most six parts; with and without tools, on a terminal, as JSON, plain | **TurnShape**: events keep the protocol's turn shape, and no suggestion falls inside a turn; **Paired**: the history is whole exchanges, counted by `turn_idx`; **SuggestionIsCurrent**; **PureExtension**: no round of a turn cuts the cache; **LineAnswered** |

*Why the bounds are enough.*  The ring runs need a context about twice the ring,
a window smaller than the ring and a canvas that wraps: 7, 4, 2, 2 has all of
them, and two tokens suffice to make two logs diverge at any position.  In
`KvSessionLinear` the engine threshold lies inside the context so both prefill
paths run, and `Subs = 2` gives super-chunks.  A turn with a budget of one and a
half canvases has a full block, a last block, an overshoot and, with trims down
to one row, as many short blocks as `max_blocks` allows.  The pool has one more
conversation than its RAM holds, a disk that can overflow, prompts that share a
prefix above and below the salvage threshold, and enough requests for a
conversation to be left, spilled and come back.  `MaxConvs` and `MaxTick` bound
the pool; `MaxEpoch` bounds the pipeline's epoch, and `Bumps` leaves a staged
call the epochs it may use; all are guards, not constraints.  In
`PipelineStages` a capacity of 3 holds a prompt with a reply and an error token, or
with a reply of two blocks, and not what is longer; the prompts extend, contradict
and outgrow one another (151,576 states).  `ServeWorker` (319,962 states) has a
connection for each role of a tool conversation and one that may come between them;
replies to the same messages may call the same functions, which is all that the
continuation looks at.  In `ReplyStream` (176,321 states) a call, a quote, a thought and a
markup opener can each begin in one block and end, or not, in another, with a block
to follow.  `ChatSession` (387,020 states) needs two messages so that `/rewind` and `/clear` can
fall before, between and after them and a draft can belong to a conversation that is
gone; `Room` of six lets a second turn fit, or not, depending on its thoughts and
tool rounds.
The budget holds two small runtimes, one of each process or two of one, and no
oversized one beside anything; two threads in a process are needed for a shared
path and for a queue, and `Limit` of one tick lets a release fall just before or
just after a deadline.

*Deadlock* is checked in every run but the two of `ReplyStream`, where one reply
is sent and the behaviour ends.

*Fairness.*  `TurnBlocks`, `ServeWorker`, `MemBudget` and `ChatSession` have a
liveness property.
`WF_vars(Driver)` says the turn's thread keeps running: it is one loop on the
pipeline thread, it waits for nothing but GPU dispatches, and those return (with
an error at worst).  No fairness is put on what the model emits: `TurnEnds` holds
however it answers, because each loop has a counter - steps, re-rolls, blocks.
In `ServeWorker` each thread of the server is weakly fair (connections, heartbeat,
worker: threads of the operating system that wait only for a channel or a sleep);
clients, hang-ups and panics are not, so `EveryConnectionEnds` holds also when
nobody hangs up and nothing dies.  In `MemBudget` a thread inside `acquire` goes
on (`WF_vars(Poll(t) \/ Advertise(t))`: it wakes at least every
`CROSS_PROCESS_POLL`, and the calls of `advertise` do not block) and time passes
(`WF_vars(Tick)`).  In `ChatSession` the loop and the drafting thread are weakly
fair while they have something to run - a generate returns, a tool's script ends
(`run_shell_tool` has no timeout: that is an assumption about the scripts); what the
user types is not, so `LineAnswered` speaks of lines already read.  In `MemBudget`
nothing says that a runtime is ever dropped: it is the
deadline that makes `AcquireReturns` true.

*What the exclusions mean.*  Some properties name the cases in which the code
does less than one would wish:

* `OvercommitOnlyBlind`: the budget is not exclusive across processes.  A grant is
  *blind* when some runtime alive at that moment is not counted: granted by the
  other process but not (or no longer) visible in a locked and stamped file, or
  already released but not yet freed.  These are the only ways to exceed the
  budget, apart from a single oversized runtime.
* `LogStaysTruthful` leaves out two steps.  An Activate may restore a blob gathered
  under other tokens (`PoolStaleBlob`).  The end of a turn records its sequence cut
  at the length of the cache, which misnames the rows when a commit extended behind
  a gap; `turn.rs:1642-1643` says that it records "the prompt plus any committed
  blocks that were causally extended".  No driver in the repository makes such a pair
  of commits: `default_commit_policy` leaves a block out only near the end of the
  budget (`LagOnlyInLastCanvas`), and a failed extend ends its turn.  A client of the
  per-block ops may (`op.rs` leaves `extend` to it, and `runner.rs:345-376` keeps the
  turn open after a failed commit).
* `RewindLandsUnlessLoose`: Generate, Score and BeginTurn do not bump the epoch,
  nor does an op that fails midway, although they may cut the log, so an id from
  before them is accepted and may land on another prompt's rows
  (`pipeline/mod.rs:16-19` says that a stale id "fails loudly instead of silently
  landing on different-lineage KV").  Clients in the repository rewind only within
  brackets that allow for it, which is what `CleanReturn` and `RollBackRestores`
  check.
* `RollBackRestores` promises less when a stage stepped in within a summarize pass:
  the stage's rewind bumps the epoch, the pass's own rewind is refused, and its
  prompt with the reply returned stays until the next request's prefix cuts it,
  although `server/mod.rs:523-524` says that they "must never persist in the
  conversation's KV".  What is checked and proved for that case is that the
  conversation's log is whole beneath it and, unless the GPU failed, that nothing
  else stays.  The property is about
  prompts that continue the log, as the pass's own prompt (the conversation and an
  instruction) is meant to; one that parts from it cuts it like any Generate.
* `CleanReturn` leaves out a call that began with a log longer than its prompt:
  the repair stage then unwinds to its mark, past the end of the prompt.
* `ReplyReachesClient` leaves out a reply done over by a stage (`StaleAnswer`); a
  markup opener held when its block ended (`torn`: `flush_paced` starts a fresh
  filter, and a cursor may cut the opener in two); committed text that was taken
  back (`revised`: it goes out again from its beginning, as an append, although
  `decoder/serve.rs:18` calls committed text immutable); and, with
  `DGQ_CONTINUE_PAST_STOP`, a stop judged on text that the split or the clean-up
  had taken something from (`parted`: the engine looks at the whole decode of the
  reply, the mapper at its cleaned-up answer, with thinking on or off, so that the
  two may keep different tokens, although `worker.rs:831-834` and
  `stabilize.rs:20-23` mean them to agree).
* `LagOnlyInLastCanvas`: "last block" is decided by the budget before a trim makes
  the block shorter (`turn.rs:312`, `:403`), so a trimmed last block is committed
  without its extend and the next one is denoised without it, although
  `turn.rs:1234-1235` says that "the next block re-denoises the dropped tail against
  committed left context".  The property bounds the loss to the last canvas.
* `TurnShape` and `ChatSession.TypeOK` speak of a process that runs: when a
  generate fails, `?` leaves the turn without its `Done` (`engine.rs:261-262` says
  every `TurnStart` is closed by one) and with the pane reserved, because the
  ticker thread keeps the view alive (`render.rs:38-40` lists the teardown paths).
* `PureExtension` speaks of the rounds within a turn.  Between turns the drafting
  thread's probe, rendered with default options, parts from the conversation at its
  header when that says anything (`chat.rs:162-163` means it to keep the prefix),
  and a session with tools drops the thoughts of earlier turns
  (`chat_turns_to_messages` against `chat.rs:25`).  Both cost prefills, not answers.
* `SuggestionIsCurrent` is about the moment a suggestion is told.  `/clear` and
  `/rewind` do not empty the cell that Tab completes from (`chat.rs:940-977`); the
  cell is not part of the model.
* `ToldTheTruth`: when the worker's thread dies midway a stream ends with the
  `stop` its connection started from.

## 4. The violations

Three runs are expected to fail; each states what a comment or test of the
repository says.  They are described under `findings` in `PROJECT.json`.

* `KvRewindTwice`: `kv_truncate_needs_ring_rebuild` derives how far the ring was
  written from the *current* length.  After one O(1) rewind that is an
  underestimate, and a second rewind is judged clean when it is not.  `RingHolds`
  states what remains true, with the true high-water mark `hi`.
* `PoolStaleBlob`: a blob is laid out again under a log other than its own.
* `StaleAnswer`: a stage generates again with the observer of the attempt it
  discards, so the text the client gets is not that of the reply it returned.

Further disagreements with a comment, met on the way, are named with the property
that leaves them out ("What the exclusions mean", section 3).

## 5. What is proved

TLAPS checks the eight proof modules to the last leaf, from the named assumptions
of the modules they extend only, so for every ring, window, canvas, context,
prompt set, budget, retry count, capacity, reply set, set of connections, threads
and blocks, and combination of flags.  Every invariant and every action property
that a passing run checks is stated by a theorem; so is the refinement of
`CausalLog`.  Each component has one inductive invariant, and its theorems are
short consequences of it.

Two things the prover does not have are worked around in the same way everywhere.
A recursion (the total weight of the pool, a sum over a set of threads, the fold
over events, the flattening of pieces) is unfolded by hand: a solution of the
recursion's equations is shown to exist, `CHOOSE` then picks one, and what it
computes follows because a smallest counterexample (`NoLeastWrong`, from the
well-foundedness of `<` on the naturals) is not one.  And a property of steps is
reduced to the invariant before and after the step (`IInv`, `IInv'`), so that no
proof looks further than one step.

**KvSession.**  `TypeCorrect` (`[]TypeOK`) and `RingCorrect` (`[]RingHolds`) from
`InductiveInvariant`.  `RingHolds` alone is not inductive: the invariant adds
`JobOK` (the running prefill's target extends what is in the ring up to `pos`,
`pos` and the target are inside the capacity, an engine job starts from an empty
log, the write bracket is at or past the target's end) and the same ring statement
for the snapshot (`saved.cells` hold `saved.tokens` relative to `saved.hi`).  The
argument rests on three lemmas about `Written`: a slot outside the written range
keeps its label; the last position written to a slot wins; and a write of
positions `from .. to-1` does not touch the slot of a position p with
`to <= p + Ring` and `p < from`.  The invariant then says that whatever could
overwrite p also raised `hi` past `p + Ring`.

From the same invariant: `ChunksReadWhatTheyNeed` (`ChunkReadsHeld`) uses that a
chunk is no longer than what the ring holds beyond a window (`RingAssumption`, the
slack the code allocates); `CleanStepsAreExact` (`CleanStepsKeepTheWindow`) shows
for each operation that the new high-water mark is within a ring of every position
a query may read, and that the test in `kv_truncate_needs_ring_rebuild` is exactly
what a rewind needs for that.  `AlwaysBounded` adds that no mark passes the
capacity of the context.

`ImplementsTheLog` and `UnwrappedIsExact` assume `Ring >= MaxSeq`.  That is not a
claim about the code's sliding layers - the run `KvRewindTwice` shows that both
conclusions are false there - but the case of a full-attention layer, whose ring is
the context, and of a context too short to wrap.  Then nothing is ever overwritten
by a longer log, `WindowExact` always holds, the view of the refinement mapping is
a function of the log (`LogIsViewed`), and each step of the session - chunks and
failures of a prefill, rewinds, the writes of a turn, snapshot and restore - is a
step of `CausalLog` or a stutter (`StepMaps`).

**TurnBlocks.**  `TurnTypes`, `LogAlwaysDescribesKv`, `CanvasAlwaysFits`,
`LagIsBounded`, `CancelIsPrompt`, from `TurnInvariant`: the cache is a prefix of
the reply; it lags only if at most one canvas of budget was left from its end;
from then on every block is a last block, so nothing is appended past a gap;
and after the cancel token is set at most the block in flight commits.

**TokenPipeline.**  `LogAlwaysTruthful` (`LogStaysTruthful`), `TurnAlwaysOwnsSession`
and `RewindAlwaysLands`, from `PipelineInvariant`.  That log and cache agree is not an
invariant: a blob or a jumped gap ends it.  What always holds, and what every op
relies on, is that they are equally long.  `LogStaysTruthful` is therefore proved op
by op, from equal lengths and `TurnOwnsSession`: while no gap was jumped the sequence
whose beginning the end of a turn records begins with the log.  The invariant adds
`HeldTruthful` to what the run checks: an id is never of a later epoch than the
pipeline's, its position is the length of the log it was issued for, and while its
epoch is current and nothing loosened it that log is still a beginning of the
session's.  Most ops are one lemma, `WholeLogStep`: while no turn is open, any log
that fits may replace the session's, provided the epoch moves on or the id is
loosened - which shows that the epoch discipline, and not what an op does with the
log, is what makes a rewind safe.  Only Mark, Extend and the per-block ops need an
argument of their own; of those `EndTurn` rests on `TurnOwnsSession`, and loosens the
id when it renames rows.

**PipelineStages.**  `StackAlwaysTyped`, `StackCleanReturn`,
`StackRollBackRestores` and, again under the stages, `StackLogTruthful`,
`StackTurnOwnsSession`, `StackRewindLands`, from `StackInvariant`.  The step
lemmas of the pipeline are stated for any well-typed argument, so the stages cite
them for the prompts and ids they make up.  The invariant adds `Bracketed` (a mark
never lies past where the call began), `Clean` (what the log holds of prompt and
reply at every op: before an unwind it begins with the prompt) and `Beneath`
(a log that the prompt continues lies beneath whatever the call has left on it, or
the session was reset) and `Restorable` (until a stage stepped in, the outermost mark
is of the current epoch).  `ReusedWhole` - a prompt that
continues the log reuses all of it - is why a failed Generate costs a bracket
everything or nothing: either the session was reset, or the old log is still its
beginning, however many blocks of the reply follow it when the failure comes.

**ConversationPool.**  `PoolTypes`, `PoolIsTruthful` (`TruthfulUnlessMisread`) and
`PoolAccountsForItsTiers` (`TiersAccounted`) from `PoolInvariant`.  What the run
checks is nearly inductive: the invariant adds the shape of the records (`Shapes`),
that an id not yet minted holds nothing, that a request's prompt is one of the
prompts, and that a dead process holds nothing but its files (`Gone`).  The work is
in the counters: `ram_used` and `disk_used` are updated by differences, and the
invariant says they equal sums over all ids, so every path that moves a
conversation between tiers needs the lemma that changing one weight changes the
total by the difference.  A victim of a spill weighs something and therefore was
opened (`VictimIs`); why a rebalance may end above a budget is the clause about the
current conversation.

**ServeWorker.**  `ServeTypes`, `AlwaysAnswered`, `AlwaysToldTheTruth` and
`FollowUpsAfterFinalize` from `ServeInvariant`.  `Answered` alone says nothing of
how an end reaches a client; the invariant follows a request: it is in one place
(`QueueOK`), nothing was sent for it before the worker replied (`Unsaid`), its
channel holds no end but the one that was sent (`ChannelOK`), which stays there until
the connection's thread reads it (`EndWaits`), and whoever waits is queued, served
or owed an end that exists (`Owed`).  That the heartbeat cannot speak for a request
that is over is `LateOnce`; that a generate is cancelled only for a client that
left is `CancelOK`.

**ReplyStream.**  `ReplyTypes`, `AlwaysReachesClient` (`ReplyReachesClient`) and
`CallsNeverWait` (`CallsAreNeverHeld`) from `ReplyInvariant`.  The property speaks
of a finished reply only; the invariant says what holds on the way.  `Agree`: until
a stage generates again or a stop is judged on two texts, the mapper holds exactly
the engine's tokens and saw an end where the engine did.  `Sent`: the reasoning is
what was said up to its cursor, and so is the answer until text is taken back, up to
its first opener; either everything is out or no opener was said yet.  `Unheld`:
nothing is held once a call was committed, the end was seen or pacing is off.  The
lemma behind it, `Delivers`, is that filtering delta by delta gives what filtering
the whole gives, provided no delta ends inside an opener; the history variable `torn`
is exactly when that fails.  That the reasoning only grows (`SaidGrows`) needs that
the channel of a token depends on the tokens before it only (`ChannelByPast`); of the
answer no such lemma can hold, because its masks look ahead, which is what `revised`
records.

**ChatSession.**  `ChatTypes`, `AlwaysTurnShape`, `AlwaysPaired`,
`SuggestionsAreCurrent` and `RoundsExtend` (`PureExtension`) from `ChatInvariant`.
It ties three machines together: where the loop is and where the event protocol is
(`Showing`), what the history holds at the prompt and within a turn (`Pairing`), and
that a draft in flight was drawn from the conversation that is still there
(`Drafting`) - which holds because the loop joins the drafting thread before it
changes the history.  `Extending` says what the cache holds between the rounds of a
turn.

**MemBudget.**  `BudgetTypes`, `AlwaysAccounted`, `OvercommitsOnlyBlind`,
`ScansNeverOvercount` and `GivesUpOnlyQuiet` from `BudgetInvariant`, for every
finite set of threads and processes (`BudgetConstants`; an operating system has no
other).  The invariant adds who may have which lock file open, locked or stamped
(`Files`), that the runtimes whose grant counted every other fit together or are one
(`SightedFit`), and that a waiter which saw nothing move has waited no longer than
its process was quiet (`Stalls`).  A scan sums what the lock files show, a grant
compares that with a sum over threads: the lemmas about `SumOf` (a subset sums to no
more, a disjoint union to the sum of both) carry the argument.

**Only model-checked:** the liveness properties `TurnEnds`, `AcquireReturns`,
`EveryConnectionEnds` and `LineAnswered`, since fairness and ENABLED are outside the
prover's reach.  `WindowExact` without its assumption, `NeverServesStaleKv` and
`AnswerIsTheReply` are false; section 4 says where.

## 6. What is not modelled

Numbers: K/V values, quantization, sampling, early stop, kernels, the DGQ format;
the share of the repository that is GPU code, its encoders and a CUDA port is by
far the largest, and of it only which cache slots a forward reads and writes is
modelled.  Text: tokenizer, chat template, delimiters, structured scoring,
rendering.  Tooling: CLI, benches, harnesses and the other workspace crates.

Left out of modelled parts, and why:

* *KvSession*: the f32 side ring is part of the state (`SideIsStale` is the
  comparison the prefill makes) but no run asks whether the two rings agree: they
  do not have to, the check compares lengths and the flag is opt-in.  A flag left
  set by a failed chunk (`runtime.rs:403`) changes numbers only.
* *TokenPipeline*: one client and one id at a time; a turn has one sequence; which
  conversation an Activate picks is `ConversationPool`'s subject.
* *ServeWorker*: request parsing, rendering, the turn log, and the output store of
  compacted turns.  A delta is opaque here; `ReplyStream` says what is in it.
* *ReplyStream*: drafts of unfinished blocks, code fences, turn openers, markers
  spelled in plain text, the trimming of white space, name lines and prethink.
* *MemBudget*: the panic on a nested acquire, and the settings without a deadline
  or a lock directory.
* *ChatSession*: drawing, line editing, files and variables, harness files, raw
  prompts, the first message given on the command line, and the cut of a long tool
  output at byte 4096 (`ToolPanics` stands for it: `String::truncate` panics inside
  a character).
* *Model download and resume, expert cache*: chunk threads over a resume log; an
  LRU used on one path.  Each would be a module of its own.

## 7. Plan

Order of work, most important behaviour first; done unless marked.

1. `KvSession` with `CausalLog` - everything above depends on the cache.
2. `TurnBlocks` - what a turn leaves in it.
3. `TokenPipeline` - what clients may do with it.
4. `ConversationPool` - what happens to it between requests.
5. Proofs of type correctness and the ring invariant; of the turn's invariants.
6. `MemBudget` - who may load a model, across threads and processes.
7. `ServeWorker` - threads, queue, channels, hang-ups, heartbeat, panics.
8. `PipelineStages` over the pipeline ops; `ReplyStream` for the mapper's promise.
9. Proofs about the pipeline and the stages around it.
10. `ChatSession` - the second client of the pipeline, with a thread of its own.
11. Proofs: the rest of the session's properties and the refinement of `CausalLog`
    where the ring does not wrap; the pool, the worker, the reply, the chat loop and
    the memory budget.
12. *Next, proofs:* a refinement of `CausalLog` for a ring that wraps, with the view
    cut to the positions within a ring of the high-water mark; that the pool
    implements a map from conversations to logs.
13. *Later:* download and resume, the expert cache.
