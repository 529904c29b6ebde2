-------------------------- MODULE ConversationPool --------------------------
(***************************************************************************)
(* The multi-conversation KV pool (ConversationManager, conversation.rs)   *)
(* under the request loop of the serve worker (server/worker.rs handle):   *)
(* Activate, Generate, then Finalize - or no Finalize, when the client     *)
(* hung up or an op failed.                                                *)
(*                                                                         *)
(* A conversation is known by its canonical tokens; its KV snapshot is in  *)
(* RAM, in an SSD blob, or nowhere.  A snapshot is the log it was gathered *)
(* under and the tokens its KV was computed from; it takes one unit of     *)
(* budget per token.  A blob keeps its bytes only: the log beside it is    *)
(* history.  Everything runs on the pipeline thread, so the steps of a     *)
(* switch follow one another with nothing between.                         *)
(***************************************************************************)
EXTENDS Integers, Sequences, FiniteSets

CONSTANTS
    Token, Junk,  \* token ids; a KV row read at the wrong place of a blob
    Prompts,      \* prompts of requests
    Replies,      \* reply blocks a turn extends the KV with
    Answers,      \* sanitized answers a completed turn is rendered with
    Scaffold,     \* generation-prompt tokens at the end of a prompt
    MinSalvage,   \* MIN_SALVAGE_PREFIX
    TailSlack,    \* TAIL_SLACK
    Capacity,     \* extend_capacity()
    RamBudget,    \* DGQ_CONV_CACHE_BYTES, in tokens
    DiskBudget,   \* DGQ_CONV_DISK_BYTES, in tokens
    GpuMayFail,   \* may a GPU dispatch return an error?
    DiskMayFail,  \* may a blob's write or read fail?
    MaxConvs,     \* bound on conversations ever opened
    MaxTick       \* bound on requests

ASSUME PoolSizes ==
    /\ {Scaffold, MinSalvage, TailSlack, Capacity, RamBudget, DiskBudget, MaxConvs, MaxTick}
           \subseteq Nat
    /\ {GpuMayFail, DiskMayFail} \subseteq BOOLEAN
    /\ Junk \notin Token

ASSUME PoolInputs ==
    /\ Prompts \subseteq {p \in Seq(Token) : Len(p) \in Scaffold + 1 .. Capacity}
    /\ {Replies, Answers} \subseteq SUBSET Seq(Token)

VARIABLES
    phase,    \* what the pipeline thread is doing for the worker
    prompt,   \* the current request's prompt
    hot,      \* the session: its log and what its KV holds
    convs,    \* conversation id -> tokens, tier, snapshot, last use
    nextId,   \* next_id
    current,  \* the conversation in the hot buffer, 0 for none
    tick,     \* access stamp
    ramUsed,  \* ram_used
    diskUsed, \* disk_used
    files,    \* ids whose blob is in the cache directory
    misread   \* history: a blob was restored under another log than its own

vars == <<phase, prompt, hot, convs, nextId, current, tick, ramUsed, diskUsed,
          files, misread>>
pool == <<nextId, current, tick, ramUsed, diskUsed, files>>

Ids     == 1 .. MaxConvs
Opened  == 1 .. nextId - 1
Phases  == {"idle", "rebalance", "serving", "generated", "dead", "down"}
Empty   == [log |-> <<>>, kv |-> <<>>]
Unborn  == [tokens |-> <<>>, tier |-> "none", snap |-> Empty, used |-> 0]

Least(a, b)  == IF a < b THEN a ELSE b
Prefix(s, n) == [i \in 1..n |-> s[i]]
Suffix(s, n) == [i \in 1 .. Len(s) - n |-> s[n + i]]
Common(s, t) ==
    CHOOSE n \in 0 .. Least(Len(s), Len(t)) :
        /\ \A i \in 1..n : s[i] = t[i]
        /\ n < Least(Len(s), Len(t)) => s[n + 1] # t[n + 1]

Cut(s, n) == [log |-> Prefix(s.log, n), kv |-> Prefix(s.kv, n)]

\* The session after keeping its first n positions and prefilling the rest of t.
Prefilled(s, n, t) == [log |-> t, kv |-> Prefix(s.kv, n) \o Suffix(t, n)]

Bytes(c)     == Len(c.snap.kv)
RamBytes(c)  == IF c.tier = "ram" THEN Bytes(c) ELSE 0
DiskBytes(c) == IF c.tier = "disk" THEN Bytes(c) ELSE 0
NoSnapshot(c) == [c EXCEPT !.tier = "none", !.snap = Empty]

-----------------------------------------------------------------------------
(* route                                                                   *)

\* An exact match, a rewind, or a salvage of a substantial common prefix.
Claims(id, p) ==
    LET t == convs[id].tokens
        lcp == Common(t, p)
    IN  /\ t # <<>>
        /\ \/ lcp = Len(t)
           \/ lcp = Len(p) /\ lcp >= MinSalvage
           \/ lcp >= MinSalvage /\ Len(t) - lcp <= TailSlack

\* The conversations with the longest common prefix (the map's order decides).
Routed(p) ==
    {id \in Opened : /\ Claims(id, p)
                     /\ \A j \in Opened : Claims(j, p) =>
                            Common(convs[j].tokens, p) <= Common(convs[id].tokens, p)}

-----------------------------------------------------------------------------
(* activate and the switch                                                 *)

\* stash: free the outgoing conversation's tier, snapshot the hot KV to RAM
\* (no snapshot is taken when there is no pool at all).
Stashed(c) ==
    IF RamBudget = 0 /\ DiskBudget = 0
    THEN [NoSnapshot(c) EXCEPT !.used = tick + 1]
    ELSE [c EXCEPT !.tier = "ram", !.snap = hot, !.used = tick + 1]

\* Fault: a RAM snapshot is restored under the conversation's canonical log.
RamSessionByTokens(c) == [log |-> c.tokens, kv |-> c.snap.kv]

\* A RAM snapshot carries its own log.
RamSession(c) == c.snap

\* A blob carries none: its bytes are laid out again as rows of c.tokens.
\* Layers are packed back to back, so another length reads the wrong rows.
BlobSession(c) ==
    [log |-> c.tokens,
     kv  |-> IF Len(c.tokens) = Bytes(c) THEN c.snap.kv
             ELSE [i \in 1 .. Len(c.tokens) |-> Junk]]

\* A canonical log longer than the blob's cannot be laid out from its bytes.
BlobTooShort(c) == c.tier = "disk" /\ Len(c.tokens) > Bytes(c)

\* materialize: RAM, else SSD, else a reset the generate prefills after.
Materialized(c) ==
    CASE c.tier = "ram"  -> {RamSession(c)}
      [] c.tier = "disk" -> (IF BlobTooShort(c) THEN {} ELSE {BlobSession(c)})
                                \cup (IF DiskMayFail THEN {Empty} ELSE {})
      [] OTHER           -> {Empty}

\* The request stays in the resident conversation: the hot log is cut to the
\* part the prompt shares (a failed ring rebuild resets it).
Salvage(p) ==
    \/ hot' = Cut(hot, Common(hot.log, p)) /\ phase' = "serving"
    \/ /\ GpuMayFail /\ Common(hot.log, p) < Len(hot.log)
       /\ hot' = Empty /\ phase' = "idle"

StayInConversation(p) ==
    /\ phase = "idle" /\ tick < MaxTick
    /\ current \in Routed(p)
    /\ tick' = tick + 1 /\ prompt' = p
    /\ convs' = [convs EXCEPT ![current].used = tick + 1]
    /\ Salvage(p)
    /\ UNCHANGED <<nextId, current, ramUsed, diskUsed, files, misread>>

\* Fault: the outgoing conversation's old blob is left behind.
StashCountedLeavesBlob ==
    /\ ramUsed' = IF current = 0 THEN ramUsed
                  ELSE ramUsed - RamBytes(convs[current])
                       + (IF RamBudget = 0 /\ DiskBudget = 0 THEN 0 ELSE Len(hot.kv))
    /\ UNCHANGED <<diskUsed, files>>

\* The counters and the directory after the outgoing conversation is stashed.
StashCounted ==
    /\ ramUsed' = IF current = 0 THEN ramUsed
                  ELSE ramUsed - RamBytes(convs[current])
                       + (IF RamBudget = 0 /\ DiskBudget = 0 THEN 0 ELSE Len(hot.kv))
    /\ diskUsed' = IF current = 0 THEN diskUsed ELSE diskUsed - DiskBytes(convs[current])
    /\ files' = files \ {current}

\* switch_to another conversation, routed or new; rebalance follows.
SwitchTo(id, p) ==
    LET stashed == [i \in Ids |->
                       IF i = current /\ current # 0 THEN Stashed(convs[i]) ELSE convs[i]]
        c == stashed[id]
    IN  /\ phase = "idle" /\ tick < MaxTick
        /\ id # current
        /\ tick' = tick + 1 /\ prompt' = p
        /\ convs' = [stashed EXCEPT ![id].used = tick + 1]
        /\ current' = id
        /\ StashCounted
        /\ hot' \in Materialized(c)
        /\ phase' = "rebalance"
        /\ misread' = (misread \/ (c.tier = "disk" /\ hot' # Empty /\ c.tokens # c.snap.log))

\* What goes with the process, or with the pipeline thread.
ForgetAll ==
    /\ prompt' = <<>> /\ hot' = Empty
    /\ convs' = [i \in Ids |-> Unborn]
    /\ nextId' = 1 /\ current' = 0 /\ tick' = 0 /\ ramUsed' = 0 /\ diskUsed' = 0
    /\ misread' = FALSE

\* scatter_kv_prefix slices past the blob's end: the thread unwinds, the
\* manager's Drop removes the blobs, every later call finds no thread.
Panics(id) ==
    /\ phase = "idle" /\ tick < MaxTick
    /\ id # current /\ BlobTooShort(convs[id])
    /\ phase' = "dead" /\ files' = {}
    /\ ForgetAll

Activate(p) ==
    \/ StayInConversation(p)
    \/ \E id \in Routed(p) : SwitchTo(id, p) /\ UNCHANGED nextId
    \/ \E id \in Routed(p) : Panics(id)
    \/ /\ Routed(p) = {} /\ nextId <= MaxConvs
       /\ SwitchTo(nextId, p) /\ nextId' = nextId + 1

-----------------------------------------------------------------------------
(* rebalance                                                               *)

\* The least recently used conversations but the current one that weigh
\* something in a tier.
LruVictims(weight) ==
    LET cands == {i \in Opened \ {current} : weight[i] > 0}
    IN  {i \in cands : \A j \in cands : convs[i].used <= convs[j].used}

RamWeight  == [i \in Ids |-> RamBytes(convs[i])]
DiskWeight == [i \in Ids |-> DiskBytes(convs[i])]

RamOver == ramUsed > RamBudget /\ LruVictims(RamWeight) # {}

DiskOver == diskUsed > DiskBudget /\ LruVictims(DiskWeight) # {}

\* spill_to_disk: the victim moves to a blob, or is dropped when there is no
\* room for it on disk at all or the write fails.
Spill ==
    /\ phase = "rebalance" /\ RamOver
    /\ \E v \in LruVictims(RamWeight) :
          LET bytes == RamBytes(convs[v])
              drop  == DiskBudget = 0 \/ bytes > DiskBudget
          IN  /\ ramUsed' = ramUsed - bytes
              /\ \/ /\ ~drop
                    /\ convs' = [convs EXCEPT ![v].tier = "disk"]
                    /\ diskUsed' = diskUsed + bytes
                    /\ files' = files \cup {v}
                 \/ /\ drop \/ DiskMayFail
                    /\ convs' = [convs EXCEPT ![v] = NoSnapshot(@)]
                    /\ UNCHANGED <<diskUsed, files>>
    /\ UNCHANGED <<phase, prompt, hot, nextId, current, tick, misread>>

DropBlob ==
    /\ phase = "rebalance" /\ ~RamOver /\ DiskOver
    /\ \E v \in LruVictims(DiskWeight) :
          /\ convs' = [convs EXCEPT ![v] = NoSnapshot(@)]
          /\ diskUsed' = diskUsed - DiskBytes(convs[v])
          /\ files' = files \ {v}
    /\ UNCHANGED <<phase, prompt, hot, nextId, current, tick, ramUsed, misread>>

\* Both budgets hold: the pipeline's Activate goes on to the salvage.
Rebalanced ==
    /\ phase = "rebalance" /\ ~RamOver /\ ~DiskOver
    /\ Salvage(prompt)
    /\ UNCHANGED <<prompt, convs, pool, misread>>

-----------------------------------------------------------------------------
(* The turn and its end                                                    *)

\* Generate reuses the common prefix and prefills the rest; a failure leaves
\* the log cut or reset, and the request ends without a Finalize.
Generate ==
    /\ phase = "serving"
    /\ \/ /\ \E r \in Replies \cup {<<>>} :
                /\ Len(prompt) + Len(r) <= Capacity
                /\ hot' = Prefilled(hot, Common(hot.log, prompt), prompt \o r)
          /\ phase' = "generated"
       \/ /\ GpuMayFail
          /\ hot' \in {hot, Empty}
          /\ phase' = "idle"
    /\ UNCHANGED <<prompt, convs, pool, misread>>

\* The canonical log of a completed turn: the history without the scaffold and
\* with the answer - or, when a tool turn goes on, the turn's raw log.
Canonicals(p) ==
    {Prefix(p, Len(p) - Scaffold) \o answer : answer \in Answers}
        \cup {p \o reply : reply \in Replies}

\* Fault: the canonical is extended whole, whatever the capacity.
FinalizeWhole(canonical) ==
    LET reuse == Common(hot.log, canonical)
    IN  /\ phase = "generated" /\ phase' = "idle"
        /\ hot' = Prefilled(hot, reuse, canonical)
        /\ convs' = [convs EXCEPT ![current].tokens = canonical, ![current].used = tick]
        /\ UNCHANGED <<prompt, pool, misread>>

\* finalize: the KV holds the canonical's longest fitting prefix (or is dropped,
\* when the rewind is deep), the routing log keeps all of it.
Finalize(canonical) ==
    LET fit == Least(Len(canonical), Capacity)
        reuse == Least(Common(hot.log, canonical), fit)
    IN  /\ phase = "generated" /\ phase' = "idle"
        /\ \/ /\ \/ hot' = Prefilled(hot, reuse, Prefix(canonical, fit))
                 \/ reuse < Len(hot.log) /\ hot' = Empty
              /\ convs' = [convs EXCEPT ![current].tokens = canonical,
                                        ![current].used = tick]
           \/ /\ GpuMayFail                 \* the routing log stays as it was
              /\ hot' \in {Cut(hot, reuse), Empty}
              /\ UNCHANGED convs
        /\ UNCHANGED <<prompt, pool, misread>>

\* The client hung up: the worker returns without a Finalize.
Cancelled ==
    /\ phase = "generated" /\ phase' = "idle"
    /\ UNCHANGED <<prompt, hot, convs, pool, misread>>

\* The server is killed (no Drop runs) - or exits after its pipeline died - and
\* the blobs stay in the directory.
Killed ==
    /\ phase # "down" /\ phase' = "down"
    /\ ForgetAll
    /\ UNCHANGED files

\* new: stale blobs are removed first.
Started ==
    /\ phase = "down" /\ phase' = "idle"
    /\ files' = {}
    /\ UNCHANGED <<prompt, hot, convs, nextId, current, tick, ramUsed, diskUsed, misread>>

-----------------------------------------------------------------------------
Init ==
    /\ phase = "idle" /\ prompt = <<>> /\ hot = Empty
    /\ convs = [i \in Ids |-> Unborn]
    /\ nextId = 1 /\ current = 0 /\ tick = 0 /\ ramUsed = 0 /\ diskUsed = 0
    /\ files = {} /\ misread = FALSE

Next ==
    \/ \E p \in Prompts : Activate(p)
    \/ Spill \/ DropBlob \/ Rebalanced
    \/ Generate \/ Cancelled
    \/ \E c \in Canonicals(prompt) : Finalize(c)
    \/ Killed \/ Started

Spec == Init /\ [][Next]_vars

-----------------------------------------------------------------------------
(* Properties                                                              *)

Total(weight) ==
    LET sum[n \in 0 .. MaxConvs] == IF n = 0 THEN 0 ELSE sum[n - 1] + weight[n]
    IN  sum[MaxConvs]

\* Types; no conversation is used before it is minted, and the hot log fits.
TypeOK ==
    /\ phase \in Phases /\ prompt \in Seq(Token)
    /\ hot.log \in Seq(Token) /\ hot.kv \in Seq(Token \cup {Junk})
    /\ Len(hot.log) <= Capacity
    /\ \A i \in Ids : convs[i].tier \in {"none", "ram", "disk"}
    /\ nextId \in 1 .. MaxConvs + 1 /\ current \in 0 .. nextId - 1
    /\ {ramUsed, diskUsed} \subseteq Nat /\ files \subseteq Ids

\* The hot log, and every snapshot in RAM, names the tokens its KV was computed
\* from, as long as no blob was restored under another log than its own.
TruthfulUnlessMisread ==
    ~misread =>
        /\ hot.log = hot.kv
        /\ \A i \in Ids : convs[i].tier # "none" => convs[i].snap.log = convs[i].snap.kv

\* The incremental counters are the sums over the tiers, and the directory
\* holds the blobs of the conversations on disk and no others, across
\* stashes, spills that fail, drops, kills and restarts; and outside a
\* rebalance what is used is within each budget, up to the snapshot of the
\* current conversation, which is kept while its KV is hot.
TiersAccounted ==
    /\ phase # "down" =>
        /\ ramUsed = Total(RamWeight) /\ diskUsed = Total(DiskWeight)
        /\ files = {i \in Ids : convs[i].tier = "disk"}
    /\ phase \in {"idle", "serving", "generated"} =>
        /\ \/ ramUsed <= RamBudget
           \/ current # 0 /\ ramUsed = RamBytes(convs[current])
        /\ \/ diskUsed <= DiskBudget
           \/ current # 0 /\ diskUsed = DiskBytes(convs[current])

\* The claim of spill_to_disk's comment: the pool never serves stale KV.
NeverServesStaleKv == phase \in {"serving", "generated"} => hot.log = hot.kv

=============================================================================
