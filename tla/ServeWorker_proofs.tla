-------------------------- MODULE ServeWorker_proofs --------------------------
(***************************************************************************)
(* For any number of connections, any mix of requests, any set of threads  *)
(* that may die and any bounds: the worker is through with a request only  *)
(* when its client was answered, a client is told what the worker decided, *)
(* the heartbeat speaks at most once after the reply has begun, and the    *)
(* next round of a conversation is routed after the finalize.              *)
(***************************************************************************)
EXTENDS ServeWorker, SequenceTheorems, TLAPS

Queue   == {jobs[i] : i \in DOMAIN jobs}
Serving == pc \in {"opening", "generating", "flushing", "replying"}
Holds(q) == {q[i] : i \in DOMAIN q}

\* A request is in one place: not posted, queued once, with the worker, or past it.
QueueOK ==
    /\ \A i, j \in DOMAIN jobs : jobs[i] = jobs[j] => i = j
    /\ cur \notin Queue
    /\ \A c \in Conn : c \in Queue \cup {cur} => conn[c] # "new"

\* Before the pool was asked for its conversation no heartbeat ran for a request.
Untouched ==
    \A c \in Conn : conn[c] = "new" \/ c \in Queue \/ (c = cur /\ pc = "opening")
        => late[c] = 0 /\ beat[c] = "off"

\* No end was sent before the worker replied.
Unsaid ==
    \A c \in Conn : conn[c] = "new" \/ c \in Queue \/ (c = cur /\ Serving)
        => sent[c] = "unsent"

\* A heartbeat that was late reads the flag before it could speak again.
LateOnce ==
    \A c \in Conn : late[c] = 1 => started[c] /\ beat[c] \in {"sleep", "over"}

\* A channel holds no other end than the one the worker sent.
ChannelOK ==
    \A c \in Conn : Holds(chan[c]) \subseteq Deltas \cup {sent[c]}

\* The end waits in the channel until its thread reads it.
EndWaits ==
    \A c \in Conn : sent[c] # "unsent" /\ conn[c] \in {"head", "wait"}
        => sent[c] \in Holds(chan[c])

\* A connection that waits is queued, being served, or has its end.
Owed ==
    \A c \in Conn : conn[c] \in {"head", "wait"}
        => c \in Queue \/ (c = cur /\ Serving) \/ sent[c] # "unsent" \/ pc = "dead"

\* A generate is cancelled only when the connection's thread is gone.
CancelOK ==
    /\ cancel /\ pc # "dead" => cur # None /\ conn[cur] = "shut"
    /\ out.cancelled /\ pc \in {"flushing", "replying"} => conn[cur] = "shut"

\* What was told is what was sent, and nothing is told to a thread that waits.
ToldOK ==
    /\ ToldTheTruth
    /\ \A c \in Conn : told[c] # "untold" => conn[c] = "shut"

\* The worker leaves an answered request by way of its finalize.
FinalOK ==
    \A c \in Conn : sent[c] \in Finishes
        => final[c] \/ (c = cur /\ pc = "finalizing") \/ pc = "dead"

\* The inductive invariant.
WInv ==
    /\ TypeOK /\ QueueOK /\ Untouched /\ Unsaid /\ LateOnce /\ ChannelOK
    /\ EndWaits /\ Owed /\ CancelOK /\ ToldOK /\ FinalOK

-----------------------------------------------------------------------------
(* Channels and the queue.                                                 *)

\* A channel holds what either part held.
LEMMA HoldsConcat ==
    ASSUME NEW q \in Seq(Events), NEW s \in Seq(Events)
    PROVE  q \o s \in Seq(Events) /\ Holds(q \o s) = Holds(q) \cup Holds(s)
<1>1. /\ q \o s \in Seq(Events) /\ Len(q \o s) = Len(q) + Len(s)
      /\ Len(q) \in Nat /\ Len(s) \in Nat
      /\ DOMAIN (q \o s) = 1 .. Len(q \o s)
      /\ DOMAIN q = 1 .. Len(q) /\ DOMAIN s = 1 .. Len(s)
  BY ConcatProperties, LenProperties
<1>2. \A i \in 1 .. Len(q) + Len(s) :
          (q \o s)[i] = IF i <= Len(q) THEN q[i] ELSE s[i - Len(q)]
  BY ConcatProperties
<1>3. ASSUME NEW i \in 1 .. Len(q) + Len(s) PROVE (q \o s)[i] \in Holds(q) \cup Holds(s)
  <2>1. CASE i <= Len(q)
    BY <1>1, <1>2, <2>1 DEF Holds
  <2>2. CASE ~(i <= Len(q))
    <3>1. i - Len(q) \in 1 .. Len(s)
      BY <1>1, <2>2
    <3> QED
      BY <1>1, <1>2, <2>2, <3>1 DEF Holds
  <2> QED
    BY <2>1, <2>2
<1>4. ASSUME NEW i \in 1 .. Len(q) PROVE q[i] \in Holds(q \o s)
  <2>1. i \in 1 .. Len(q) + Len(s) /\ i <= Len(q)
    BY <1>1
  <2> QED
    BY <1>1, <1>2, <2>1 DEF Holds
<1>5. ASSUME NEW i \in 1 .. Len(s) PROVE s[i] \in Holds(q \o s)
  <2>1. Len(q) + i \in 1 .. Len(q) + Len(s) /\ ~(Len(q) + i <= Len(q))
        /\ (Len(q) + i) - Len(q) = i
    BY <1>1
  <2>2. (q \o s)[Len(q) + i] = s[i]
    BY <1>2, <2>1
  <2> QED
    BY <1>1, <2>1, <2>2 DEF Holds
<1> QED
  BY <1>1, <1>3, <1>4, <1>5 DEF Holds

\* Reading one event leaves the others.
LEMMA HoldsTail ==
    ASSUME NEW q \in Seq(Events), q # <<>>
    PROVE  /\ Tail(q) \in Seq(Events) /\ Head(q) \in Events
           /\ Holds(q) = {Head(q)} \cup Holds(Tail(q))
<1>1. /\ Tail(q) \in Seq(Events) /\ Len(Tail(q)) = Len(q) - 1 /\ Head(q) \in Events
      /\ \A i \in 1 .. Len(Tail(q)) : Tail(q)[i] = q[i + 1]
  BY HeadTailProperties
<1>2. /\ DOMAIN q = 1 .. Len(q) /\ Len(q) \in Nat \ {0}
      /\ DOMAIN Tail(q) = 1 .. Len(q) - 1 /\ Head(q) = q[1]
  BY <1>1, LenProperties, EmptySeq
<1>3. ASSUME NEW i \in 1 .. Len(q) PROVE q[i] \in {Head(q)} \cup Holds(Tail(q))
  <2>1. CASE i = 1
    BY <1>2, <2>1
  <2>2. CASE i # 1
    <3>1. i - 1 \in 1 .. Len(q) - 1 /\ (i - 1) + 1 = i
      BY <1>2, <2>2
    <3>2. Tail(q)[i - 1] = q[i]
      BY <1>1, <3>1
    <3> QED
      BY <1>2, <3>1, <3>2 DEF Holds
  <2> QED
    BY <2>1, <2>2
<1>4. ASSUME NEW i \in 1 .. Len(q) - 1 PROVE Tail(q)[i] \in Holds(q)
  <2>1. i + 1 \in 1 .. Len(q) /\ Tail(q)[i] = q[i + 1]
    BY <1>1, <1>2
  <2> QED
    BY <1>2, <2>1 DEF Holds
<1>5. Head(q) \in Holds(q)
  <2>1. 1 \in DOMAIN q
    BY <1>2
  <2> QED
    BY <1>2, <2>1 DEF Holds
<1> QED
  BY <1>1, <1>2, <1>3, <1>4, <1>5 DEF Holds

\* What short channels hold.
LEMMA HoldsFew ==
    /\ Holds(<<>>) = {} /\ <<>> \in Seq(Events)
    /\ \A e \in Events : <<e>> \in Seq(Events) /\ Holds(<<e>>) = {e}
<1>1. Holds(<<>>) = {} /\ <<>> \in Seq(Events)
  BY DEF Holds
<1>2. ASSUME NEW e \in Events PROVE <<e>> \in Seq(Events) /\ Holds(<<e>>) = {e}
  <2>1. DOMAIN <<e>> = {1} /\ <<e>>[1] = e /\ <<e>> \in Seq(Events)
    OBVIOUS
  <2> QED
    BY <2>1 DEF Holds
<1> QED
  BY <1>1, <1>2

\* A posted request is queued behind the others.
LEMMA QueuePosts ==
    ASSUME NEW c \in Conn, jobs \in Seq(Conn), jobs' = Append(jobs, c), c \notin Queue,
           \A i, j \in DOMAIN jobs : jobs[i] = jobs[j] => i = j
    PROVE  /\ jobs' \in Seq(Conn) /\ Queue' = Queue \cup {c}
           /\ \A i, j \in DOMAIN jobs' : jobs'[i] = jobs'[j] => i = j
<1>1. /\ jobs' \in Seq(Conn) /\ Len(jobs') = Len(jobs) + 1
      /\ \A i \in 1 .. Len(jobs) : jobs'[i] = jobs[i]
      /\ jobs'[Len(jobs) + 1] = c
  BY AppendProperties
<1>2. /\ DOMAIN jobs = 1 .. Len(jobs) /\ Len(jobs) \in Nat
      /\ DOMAIN jobs' = 1 .. Len(jobs) + 1
  BY <1>1, LenProperties
<1>3. Queue' = Queue \cup {c}
  <2>1. ASSUME NEW i \in DOMAIN jobs' PROVE jobs'[i] \in Queue \cup {c}
    <3>1. CASE i = Len(jobs) + 1
      BY <1>1, <3>1
    <3>2. CASE i \in DOMAIN jobs
      BY <1>1, <1>2, <3>2 DEF Queue
    <3> QED
      BY <1>2, <3>1, <3>2
  <2>2. ASSUME NEW i \in DOMAIN jobs PROVE jobs[i] \in Queue'
    BY <1>1, <1>2 DEF Queue
  <2>3. c \in Queue'
    <3>1. Len(jobs) + 1 \in DOMAIN jobs'
      BY <1>2
    <3> QED
      BY <1>1, <3>1 DEF Queue
  <2> QED
    BY <2>1, <2>2, <2>3 DEF Queue
<1>4. ASSUME NEW i \in DOMAIN jobs', NEW j \in DOMAIN jobs', jobs'[i] = jobs'[j]
      PROVE  i = j
  <2>1. \A k \in DOMAIN jobs : jobs[k] # c
    BY DEF Queue
  <2> QED
    BY <1>1, <1>2, <1>4, <2>1
<1> QED
  BY <1>1, <1>3, <1>4

\* The worker takes the first, which is in the queue no more.
LEMMA QueueTakes ==
    ASSUME jobs \in Seq(Conn), jobs # <<>>, jobs' = Tail(jobs),
           \A i, j \in DOMAIN jobs : jobs[i] = jobs[j] => i = j
    PROVE  /\ jobs' \in Seq(Conn) /\ Head(jobs) \in Queue
           /\ Queue' = Queue \ {Head(jobs)}
           /\ \A i, j \in DOMAIN jobs' : jobs'[i] = jobs'[j] => i = j
<1>1. /\ jobs' \in Seq(Conn) /\ Len(jobs') = Len(jobs) - 1
      /\ \A i \in 1 .. Len(jobs') : jobs'[i] = jobs[i + 1]
  BY HeadTailProperties
<1>2. /\ DOMAIN jobs = 1 .. Len(jobs) /\ Len(jobs) \in Nat \ {0}
      /\ DOMAIN jobs' = 1 .. Len(jobs) - 1 /\ Head(jobs) = jobs[1]
  BY <1>1, LenProperties, EmptySeq
<1>3. \A i \in DOMAIN jobs' : i + 1 \in DOMAIN jobs /\ jobs'[i] = jobs[i + 1] /\ i + 1 # 1
  BY <1>1, <1>2
<1>4. Queue' = Queue \ {Head(jobs)}
  <2>1. ASSUME NEW i \in DOMAIN jobs' PROVE jobs'[i] \in Queue \ {Head(jobs)}
    BY <1>2, <1>3 DEF Queue
  <2>2. ASSUME NEW i \in DOMAIN jobs, i # 1 PROVE jobs[i] \in Queue'
    <3>1. i - 1 \in DOMAIN jobs' /\ jobs'[i - 1] = jobs[(i - 1) + 1] /\ (i - 1) + 1 = i
      BY <1>1, <1>2, <2>2
    <3> QED
      BY <3>1 DEF Queue
  <2> QED
    BY <1>2, <2>1, <2>2 DEF Queue
<1>5. ASSUME NEW i \in DOMAIN jobs', NEW j \in DOMAIN jobs', jobs'[i] = jobs'[j]
      PROVE  i = j
  BY <1>2, <1>3, <1>5
<1>6. Head(jobs) \in Queue
  BY <1>2 DEF Queue
<1> QED
  BY <1>1, <1>4, <1>5, <1>6

-----------------------------------------------------------------------------
(* Events.                                                                 *)

LEMMA Kinds ==
    /\ Deltas \subseteq Events /\ Finishes \subseteq Events /\ "error" \in Events
    /\ "unsent" \notin Events /\ "unsent" \notin Finishes
    /\ Finishes \cap Deltas = {} /\ "error" \notin Deltas
BY DEF Events, Deltas, Finishes

\* Sending appends to one channel, or is lost when its thread is gone.
LEMMA SendHolds ==
    ASSUME chan \in [Conn -> Seq(Events)], NEW c \in Conn, NEW s \in Seq(Events),
           Sent(c, s)
    PROVE  /\ chan' \in [Conn -> Seq(Events)]
           /\ \A d \in Conn : d # c => chan'[d] = chan[d]
           /\ Holds(chan'[c]) = IF Listening(c) THEN Holds(chan[c]) \cup Holds(s)
                                ELSE Holds(chan[c])
<1>1. chan[c] \o s \in Seq(Events) /\ Holds(chan[c] \o s) = Holds(chan[c]) \cup Holds(s)
  BY HoldsConcat
<1>2. CASE Listening(c)
  <2>1. chan' = [chan EXCEPT ![c] = chan[c] \o s]
    BY <1>2 DEF Sent
  <2> QED
    BY <1>1, <1>2, <2>1
<1>3. CASE ~Listening(c)
  BY <1>3 DEF Sent
<1> QED
  BY <1>2, <1>3

\* Whoever sends deltas, or the worker its end, leaves the channels in order:
\* e is what the worker has sent of that kind afterwards.
LEMMA SendKeeps ==
    ASSUME WInv, NEW c \in Conn, NEW s \in Seq(Events), NEW e, Sent(c, s),
           UNCHANGED conn, sent' = [sent EXCEPT ![c] = e],
           sent[c] = e \/ (sent[c] = "unsent" /\ e \in Holds(s)),
           Holds(s) \subseteq Deltas \cup {e}
    PROVE  chan' \in [Conn -> Seq(Events)] /\ ChannelOK' /\ EndWaits'
<1>1. chan \in [Conn -> Seq(Events)] /\ sent'[c] = e
      /\ \A d \in Conn : d # c => sent'[d] = sent[d]
  BY DEF WInv, TypeOK
<1>2. /\ chan' \in [Conn -> Seq(Events)]
      /\ \A d \in Conn : d # c => chan'[d] = chan[d]
      /\ Holds(chan'[c]) = IF Listening(c) THEN Holds(chan[c]) \cup Holds(s)
                           ELSE Holds(chan[c])
  BY <1>1, SendHolds
<1>3. Holds(chan[c]) \subseteq Deltas \cup {e}
  <2>1. Holds(chan[c]) \subseteq Events
    <3>1. chan[c] \in Seq(Events)
      BY <1>1
    <3> QED
      BY <3>1, ElementOfSeq, LenProperties DEF Holds
  <2> QED
    BY <2>1, Kinds DEF WInv, ChannelOK
<1>4. ChannelOK'
  BY <1>1, <1>2, <1>3 DEF WInv, ChannelOK
<1>5. EndWaits'
  BY <1>1, <1>2 DEF WInv, EndWaits, Listening
<1> QED
  BY <1>2, <1>4, <1>5

\* Deltas alone change nothing that was sent.
LEMMA DeltasKeep ==
    ASSUME WInv, NEW c \in Conn, NEW s \in Seq(Events), Sent(c, s), Holds(s) \subseteq Deltas,
           UNCHANGED <<conn, sent>>
    PROVE  chan' \in [Conn -> Seq(Events)] /\ ChannelOK' /\ EndWaits'
<1>1. sent' = [sent EXCEPT ![c] = sent[c]]
  BY DEF WInv, TypeOK
<1> QED
  BY <1>1, SendKeeps

-----------------------------------------------------------------------------
(* Connections and their clients.                                          *)

\* The invariant holds at the start.
LEMMA InitWInv == ServeShape /\ Init => WInv
<1> SUFFICES ASSUME ServeShape, Init PROVE WInv
  OBVIOUS
<1>1. TypeOK
  <2>1. out \in [calls : CallSets, cancelled : BOOLEAN]
    BY DEF ServeShape, Init, Unfinished
  <2>2. chan \in [Conn -> Seq(Events)] /\ jobs \in Seq(Conn)
    BY HoldsFew DEF Init
  <2>3. 1 \in 1 .. LastStage + 1 /\ 0 \in 0 .. MaxRounds /\ 0 \in 0 .. MaxSteps /\ 0 \in 0 .. 1
    BY DEF ServeShape
  <2> QED
    BY <2>1, <2>2, <2>3 DEF ServeShape, Init, TypeOK
<1>2. Queue = {}
  BY DEF Init, Queue
<1> QED
  BY <1>1, <1>2, HoldsFew DEF Init, WInv, QueueOK, Untouched, Unsaid, LateOnce, ChannelOK, EndWaits,
     Owed, CancelOK, ToldOK, ToldTheTruth, FinalOK, Finishes, Unfinished

LEMMA PostStep ==
    ASSUME ServeShape, WInv, NEW c \in Conn, Post(c), UNCHANGED compacts
    PROVE  WInv'
<1> USE DEF worker, beats, history
<1>1. c \notin Queue /\ c # cur /\ sent[c] = "unsent"
  BY DEF WInv, QueueOK, Unsaid, Post
<1>2. CASE pc = "dead"
  <2>1. Queue' = Queue
    BY <1>2 DEF Post, Queue
  <2>2. TypeOK'
    <3>0. /\ conn \in [Conn -> {"new", "head", "wait", "shut"}]
          /\ told \in [Conn -> Finishes \cup {"untold", "error", "nothing"}]
      BY DEF WInv, TypeOK
    <3>3. conn' = [conn EXCEPT ![c] = "shut"] /\ told' = [told EXCEPT ![c] = "error"]
      BY <1>2 DEF Post
    <3>1. /\ conn' \in [Conn -> {"new", "head", "wait", "shut"}]
          /\ told' \in [Conn -> Finishes \cup {"untold", "error", "nothing"}]
      BY <3>0, <3>3
    <3>2. UNCHANGED <<gone, chan, jobs, worker, beats, history>>
      BY <1>2 DEF Post
    <3> QED
      BY <3>1, <3>2 DEF WInv, TypeOK
  <2>0. /\ \A d \in Conn : d # c => conn'[d] = conn[d]
        /\ conn'[c] = "shut" /\ jobs' = jobs
    BY <1>2 DEF Post, WInv, TypeOK
  <2>3. QueueOK' /\ Untouched' /\ Unsaid' /\ LateOnce'
    <3>1. QueueOK'
      BY <1>1, <2>0, <2>1 DEF Post, WInv, QueueOK
    <3>2. Untouched' /\ LateOnce'
      BY <1>1, <1>2, <2>0, <2>1 DEF Post, WInv, Untouched, LateOnce
    <3>3. Unsaid'
      BY <1>1, <1>2, <2>0, <2>1 DEF Post, WInv, Unsaid, Serving
    <3> QED
      BY <3>1, <3>2, <3>3
  <2>4. ChannelOK' /\ EndWaits' /\ Owed'
    BY <1>1, <1>2, <2>1 DEF Post, WInv, TypeOK, ChannelOK, EndWaits, Owed, Serving
  <2>5. CancelOK' /\ FinalOK'
    BY <1>1, <1>2, <2>1 DEF Post, WInv, TypeOK, CancelOK, FinalOK
  <2>6. ToldOK'
    <3>1. /\ \A d \in Conn : d # c => told'[d] = told[d] /\ conn'[d] = conn[d]
          /\ told'[c] = "error" /\ conn'[c] = "shut" /\ UNCHANGED <<pc, sent>>
      BY <1>2 DEF Post, WInv, TypeOK
    <3> QED
      BY <3>1 DEF WInv, ToldOK, ToldTheTruth, Finishes
  <2> QED
    BY <2>2, <2>3, <2>4, <2>5, <2>6 DEF WInv
<1>3. CASE pc # "dead"
  <2>1. jobs' = Append(jobs, c) /\ UNCHANGED <<told, gone, chan, pc, cur>>
    BY <1>3 DEF Post
  <2>2. /\ jobs' \in Seq(Conn) /\ Queue' = Queue \cup {c}
        /\ \A i, j \in DOMAIN jobs' : jobs'[i] = jobs'[j] => i = j
    BY <1>1, <2>1, QueuePosts DEF WInv, TypeOK, QueueOK
  <2>3. TypeOK'
    <3>0. conn \in [Conn -> {"new", "head", "wait", "shut"}]
      BY DEF WInv, TypeOK
    <3>3. conn' = [conn EXCEPT ![c] = IF c \in Streamed THEN "head" ELSE "wait"]
      BY <1>3 DEF Post
    <3>1. conn' \in [Conn -> {"new", "head", "wait", "shut"}]
      BY <3>0, <3>3
    <3>2. UNCHANGED <<told, gone, chan, worker, beats, history>>
      BY <1>3 DEF Post
    <3>4. jobs' \in Seq(Conn)
      BY <2>2
    <3> QED
      BY <3>1, <3>2, <3>4 DEF WInv, TypeOK
  <2>0. /\ \A d \in Conn : d # c => conn'[d] = conn[d]
        /\ conn'[c] \in {"head", "wait"}
    BY <1>3 DEF Post, WInv, TypeOK
  <2>4. QueueOK' /\ Untouched' /\ Unsaid' /\ LateOnce'
    <3>1. QueueOK'
      BY <1>1, <2>0, <2>1, <2>2 DEF WInv, QueueOK
    <3>2. Untouched' /\ LateOnce'
      BY <1>1, <2>0, <2>1, <2>2 DEF Post, WInv, Untouched, LateOnce
    <3>3. Unsaid'
      BY <1>1, <2>0, <2>1, <2>2 DEF Post, WInv, Unsaid, Serving
    <3> QED
      BY <3>1, <3>2, <3>3
  <2>5. ChannelOK' /\ EndWaits' /\ Owed'
    BY <1>1, <1>3, <2>1, <2>2 DEF Post, WInv, TypeOK, ChannelOK, EndWaits, Owed, Serving
  <2>6. CancelOK' /\ ToldOK' /\ FinalOK'
    BY <1>1, <1>3, <2>1, <2>2 DEF Post, WInv, TypeOK, QueueOK, CancelOK, ToldOK, ToldTheTruth,
       FinalOK,
       Finishes
  <2> QED
    BY <2>2, <2>3, <2>4, <2>5, <2>6 DEF WInv
<1> QED
  BY <1>2, <1>3

LEMMA HangUpStep ==
    ASSUME WInv, NEW c \in Conn, HangUp(c), UNCHANGED compacts
    PROVE  WInv'
<1> USE DEF HangUp, worker, beats, history
<1>1. TypeOK' /\ Queue' = Queue
  BY DEF WInv, TypeOK, Queue
<1> QED
  BY <1>1 DEF WInv, TypeOK, QueueOK, Untouched, Unsaid, Serving, LateOnce, ChannelOK, EndWaits,
     Owed, CancelOK, ToldOK, ToldTheTruth, FinalOK

\* A thread that returns owes nothing and is owed nothing.
LEMMA ShutStep ==
    ASSUME WInv, NEW c \in Conn, Shut(c), conn[c] # "new",
           UNCHANGED <<jobs, worker, beat, stage, started, history, compacts>>,
           \/ UNCHANGED told
           \/ \E e \in Finishes \cup {"error", "nothing"} :
                 /\ told' = [told EXCEPT ![c] = e]
                 /\ e = sent[c] \/ (pc = "dead" /\ sent[c] = "unsent") \/ e = "error"
    PROVE  WInv'
<1> USE DEF Shut, worker, history
<1>1. /\ conn' = [conn EXCEPT ![c] = "shut"] /\ chan' = [chan EXCEPT ![c] = <<>>]
      /\ late' = [late EXCEPT ![c] = 0] /\ Queue' = Queue
  BY DEF Queue
<1>2. told' \in [Conn -> Finishes \cup {"untold", "error", "nothing"}] /\ ToldOK'
  <2>1. CASE UNCHANGED told
    BY <1>1, <2>1 DEF WInv, TypeOK, ToldOK, ToldTheTruth
  <2>2. ASSUME NEW e \in Finishes \cup {"error", "nothing"},
               told' = [told EXCEPT ![c] = e],
               e = sent[c] \/ (pc = "dead" /\ sent[c] = "unsent") \/ e = "error"
        PROVE  told' \in [Conn -> Finishes \cup {"untold", "error", "nothing"}] /\ ToldOK'
    BY <1>1, <2>2 DEF WInv, TypeOK, ToldOK, ToldTheTruth, Finishes
  <2> QED
    BY <2>1, <2>2
<1>3. TypeOK'
  <2>1. conn' \in [Conn -> {"new", "head", "wait", "shut"}] /\ gone' \in [Conn -> BOOLEAN]
    BY <1>1 DEF WInv, TypeOK
  <2>2. chan' \in [Conn -> Seq(Events)] /\ late' \in [Conn -> 0 .. 1]
    BY <1>1, HoldsFew DEF WInv, TypeOK
  <2> QED
    BY <1>2, <2>1, <2>2 DEF WInv, TypeOK
<1>4. QueueOK' /\ Untouched' /\ Unsaid' /\ LateOnce'
  BY <1>1 DEF WInv, TypeOK, QueueOK, Untouched, Unsaid, Serving, LateOnce
<1>5. ChannelOK' /\ EndWaits' /\ Owed'
  BY <1>1, HoldsFew DEF WInv, TypeOK, ChannelOK, EndWaits, Owed, Serving
<1>6. CancelOK' /\ FinalOK'
  BY <1>1 DEF WInv, TypeOK, CancelOK, FinalOK
<1> QED
  BY <1>2, <1>3, <1>4, <1>5, <1>6 DEF WInv

LEMMA OpenStreamStep ==
    ASSUME WInv, NEW c \in Conn, OpenStream(c), UNCHANGED compacts
    PROVE  WInv'
<1> USE DEF worker, history
<1>1. CASE Shut(c)
  BY <1>1, ShutStep DEF OpenStream
<1>2. CASE conn' = [conn EXCEPT ![c] = "wait"] /\ UNCHANGED <<gone, chan, late>>
  <2>1. TypeOK' /\ Queue' = Queue
    BY <1>2 DEF OpenStream, WInv, TypeOK, Queue
  <2>2. /\ \A d \in Conn : d # c => conn'[d] = conn[d]
        /\ conn[c] = "head" /\ conn'[c] = "wait"
        /\ UNCHANGED <<told, gone, chan, jobs, late, beat, started, worker, history>>
    BY <1>2 DEF OpenStream, WInv, TypeOK
  <2>3. QueueOK' /\ Untouched' /\ Unsaid' /\ LateOnce'
    BY <2>1, <2>2 DEF WInv, QueueOK, Untouched, Unsaid, Serving, LateOnce
  <2>4. ChannelOK' /\ EndWaits' /\ Owed'
    BY <2>1, <2>2 DEF WInv, ChannelOK, EndWaits, Owed, Serving
  <2>5. CancelOK' /\ FinalOK'
    <3>1. cur \in Conn \cup {None} /\ (cur = None <=> pc \in {"idle", "dead"})
      BY DEF WInv, TypeOK
    <3>2. CancelOK'
      BY <2>2, <3>1 DEF WInv, CancelOK
    <3>3. FinalOK'
      BY <2>2 DEF WInv, FinalOK
    <3> QED
      BY <3>2, <3>3
  <2>6. ToldOK'
    BY <2>2 DEF WInv, ToldOK, ToldTheTruth
  <2> QED
    BY <2>1, <2>3, <2>4, <2>5, <2>6 DEF WInv
<1> QED
  BY <1>1, <1>2 DEF OpenStream

LEMMA ReadDeltaStep ==
    ASSUME WInv, NEW c \in Conn, ReadDelta(c), UNCHANGED compacts
    PROVE  WInv'
<1> USE DEF worker, history
<1>1. CASE Shut(c)
  BY <1>1, ShutStep DEF ReadDelta
<1>2. CASE chan' = [chan EXCEPT ![c] = Tail(@)] /\ UNCHANGED <<conn, gone, late>>
  <2> DEFINE q == chan[c]
  <2>1. q \in Seq(Events) /\ q # <<>> /\ Head(q) \in Deltas
    BY DEF ReadDelta, WInv, TypeOK
  <2>2. Tail(q) \in Seq(Events) /\ Holds(q) = {Head(q)} \cup Holds(Tail(q))
    BY <2>1, HoldsTail
  <2>3. chan' = [chan EXCEPT ![c] = Tail(q)] /\ chan'[c] = Tail(q)
        /\ \A d \in Conn : d # c => chan'[d] = chan[d]
    BY <1>2 DEF WInv, TypeOK
  <2>4. TypeOK' /\ Queue' = Queue
    BY <1>2, <2>2, <2>3 DEF ReadDelta, WInv, TypeOK, Queue
  <2>5. ChannelOK' /\ EndWaits'
    <3>1. sent[c] \notin Deltas
      BY Kinds DEF WInv, TypeOK, Deltas
    <3> QED
      BY <1>2, <2>1, <2>2, <2>3, <3>1 DEF ReadDelta, WInv, ChannelOK, EndWaits
  <2> QED
    BY <1>2, <2>4, <2>5 DEF ReadDelta, WInv, TypeOK, QueueOK, Untouched, Unsaid, Serving,
       LateOnce, Owed, CancelOK, ToldOK, ToldTheTruth, FinalOK
<1> QED
  BY <1>1, <1>2 DEF ReadDelta

\* The end that is read is the worker's.
LEMMA ReadEndStep ==
    ASSUME WInv, NEW c \in Conn, ReadEnd(c), UNCHANGED compacts
    PROVE  WInv'
<1> DEFINE q == chan[c]
<1>1. q \in Seq(Events) /\ q # <<>> /\ Head(q) \notin Deltas
  BY DEF ReadEnd, WInv, TypeOK
<1>2. Head(q) \in Holds(q) /\ Head(q) \in Events
  BY <1>1, HoldsTail
<1>3. Head(q) = sent[c] /\ Head(q) \in Finishes \cup {"error", "nothing"}
  BY <1>1, <1>2 DEF WInv, ChannelOK, Events
<1> QED
  BY <1>3, ShutStep DEF ReadEnd

\* A channel that closed without an end lost its worker.
LEMMA ReadEofStep ==
    ASSUME WInv, NEW c \in Conn, ReadEof(c), UNCHANGED compacts
    PROVE  WInv'
<1>1. c \notin Queue /\ c # cur
  BY DEF ReadEof, Sending, Queue
<1>2. sent[c] = "unsent"
  BY HoldsFew DEF ReadEof, WInv, EndWaits
<1>3. pc = "dead"
  BY <1>1, <1>2 DEF ReadEof, WInv, Owed
<1>4. UNCHANGED told \/ \E e \in Finishes \cup {"error", "nothing"} :
                            told' = [told EXCEPT ![c] = e]
  BY DEF ReadEof, Finishes
<1> QED
  BY <1>2, <1>3, <1>4, ShutStep DEF ReadEof

-----------------------------------------------------------------------------
(* The heartbeat.                                                          *)

\* Having looked at the flag it speaks once at most before it looks again.
LEMMA SayStep ==
    ASSUME WInv, NEW c \in Conn, beat[c] \in {"warm", "send"},
           NEW next \in {"sleep", "over"}, Say(c, next),
           UNCHANGED <<threads, jobs, worker, started, history, compacts>>,
           stage' \in [Conn -> 1 .. LastStage + 1]
    PROVE  WInv'
<1> USE DEF threads, worker, history
<1>1. chan' \in [Conn -> Seq(Events)] /\ ChannelOK' /\ EndWaits'
  <2>1. "status" \in Events /\ "status" \in Deltas
    BY DEF Events, Deltas
  <2>2. <<"status">> \in Seq(Events) /\ Holds(<<"status">>) \subseteq Deltas
    BY <2>1, HoldsFew
  <2> QED
    BY <2>2, DeltasKeep DEF Say
<1>2. /\ late[c] = 0 /\ c \notin Queue /\ conn[c] # "new" /\ ~(c = cur /\ pc = "opening")
      /\ Queue' = Queue
  <2>1. late[c] = 0
    <3>1. late[c] # 1
      BY DEF WInv, LateOnce
    <3>2. late[c] \in 0 .. 1
      BY DEF WInv, TypeOK
    <3> QED
      BY <3>1, <3>2
  <2>2. c \notin Queue /\ conn[c] # "new" /\ ~(c = cur /\ pc = "opening")
    BY DEF WInv, Untouched
  <2> QED
    BY <2>1, <2>2 DEF Queue
<1>3. /\ late' \in [Conn -> 0 .. 1]
      /\ beat' \in [Conn -> {"off", "warm", "sleep", "send", "over"}]
      /\ beat'[c] \in {"sleep", "over"} /\ (late'[c] = 1 => started[c])
      /\ \A d \in Conn : d # c => late'[d] = late[d] /\ beat'[d] = beat[d]
  BY <1>2 DEF Say, WInv, TypeOK
<1>4. TypeOK'
  BY <1>1, <1>3 DEF WInv, TypeOK
<1>5. QueueOK' /\ Untouched' /\ Unsaid' /\ LateOnce'
  BY <1>2, <1>3 DEF WInv, QueueOK, Untouched, Unsaid, Serving, LateOnce
<1>6. Owed' /\ CancelOK' /\ ToldOK' /\ FinalOK'
  BY <1>2 DEF WInv, Owed, Serving, CancelOK, ToldOK, ToldTheTruth, FinalOK
<1> QED
  BY <1>1, <1>4, <1>5, <1>6 DEF WInv

LEMMA BeatWarmsUpStep ==
    ASSUME WInv, NEW c \in Conn, BeatWarmsUp(c), UNCHANGED compacts
    PROVE  WInv'
<1>1. UNCHANGED <<threads, jobs, worker, started, history, compacts>> /\ Say(c, "sleep")
      /\ beat[c] \in {"warm", "send"} /\ stage' \in [Conn -> 1 .. LastStage + 1]
  BY DEF BeatWarmsUp, WInv, TypeOK
<1> QED
  BY <1>1, SayStep

LEMMA BeatChecksStep ==
    ASSUME WInv, NEW c \in Conn, BeatChecks(c), UNCHANGED compacts
    PROVE  WInv'
<1> USE DEF threads, worker, history
<1>1. /\ beat' \in [Conn -> {"off", "warm", "sleep", "send", "over"}]
      /\ beat'[c] = (IF started[c] THEN "over" ELSE "send") /\ Queue' = Queue
      /\ \A d \in Conn : d # c => beat'[d] = beat[d]
  BY DEF BeatChecks, WInv, TypeOK, Queue
<1>2. UNCHANGED <<conn, gone, told, chan, jobs, worker, stage, started, late, history, compacts>>
  BY DEF BeatChecks
<1>3. c \notin Queue /\ conn[c] # "new" /\ ~(c = cur /\ pc = "opening")
  BY DEF BeatChecks, WInv, Untouched
<1>4. TypeOK'
  BY <1>1, <1>2 DEF WInv, TypeOK
<1>5. QueueOK' /\ Untouched' /\ Unsaid' /\ LateOnce'
  BY <1>1, <1>2, <1>3 DEF WInv, QueueOK, Untouched, Unsaid, Serving, LateOnce
<1>6. ChannelOK' /\ EndWaits' /\ Owed' /\ CancelOK' /\ ToldOK' /\ FinalOK'
  BY <1>1, <1>2 DEF WInv, ChannelOK, EndWaits, Owed, Serving, CancelOK, ToldOK, ToldTheTruth,
     FinalOK
<1> QED
  BY <1>4, <1>5, <1>6 DEF WInv

LEMMA BeatSpeaksStep ==
    ASSUME ServeShape, WInv, NEW c \in Conn, BeatSpeaks(c), UNCHANGED compacts
    PROVE  WInv'
<1>1. PICK due \in stage[c] .. LastStage :
          /\ stage' = [stage EXCEPT ![c] = due + 1]
          /\ Say(c, IF due = LastStage THEN "over" ELSE "sleep")
  BY DEF BeatSpeaks
<1>2. due + 1 \in 1 .. LastStage + 1
  BY DEF ServeShape, WInv, TypeOK
<1>3. stage' \in [Conn -> 1 .. LastStage + 1]
  BY <1>1, <1>2 DEF WInv, TypeOK
<1>4. UNCHANGED <<threads, jobs, worker, started, history, compacts>> /\ beat[c] = "send"
  BY DEF BeatSpeaks
<1> QED
  BY <1>1, <1>3, <1>4, SayStep

-----------------------------------------------------------------------------
(* The worker.                                                             *)

\* While it serves a request, what it does touches nobody else's.
LEMMA ServesOn ==
    ASSUME WInv, TypeOK', Serving, Serving', pc' # "opening", CancelOK',
           UNCHANGED <<conn, told, jobs, cur, sent, final, late>>,
           ChannelOK', EndWaits', LateOnce',
           \A d \in Conn : d # cur => beat'[d] = beat[d]
    PROVE  WInv'
<1>1. Queue' = Queue
  BY DEF Queue
<1>2. QueueOK' /\ Untouched' /\ Unsaid'
  BY <1>1 DEF WInv, QueueOK, Untouched, Unsaid
<1>3. Owed' /\ ToldOK' /\ FinalOK'
  BY <1>1 DEF WInv, Owed, ToldOK, ToldTheTruth, FinalOK, Serving
<1> QED
  BY <1>2, <1>3 DEF WInv

\* It lets a request go: answered, or given up by its client.
LEMMA LetsGo ==
    ASSUME ServeShape, WInv, TypeOK', cur \in Conn, Idles,
           UNCHANGED <<conn, told, jobs, late, beat, started>>, ChannelOK', EndWaits',
           \A d \in Conn : d # cur => sent'[d] = sent[d] /\ final'[d] = final[d],
           conn[cur] = "shut" \/ sent'[cur] # "unsent",
           sent'[cur] \in Finishes => final'[cur],
           sent'[cur] = sent[cur] \/ Serving
    PROVE  WInv'
<1>1. Queue' = Queue /\ pc' = "idle" /\ cur' = None /\ ~cancel' /\ ~Serving' /\ cur' \notin Conn
  BY DEF Queue, Idles, Serving, ServeShape
<1>2. pc # "dead" /\ cur \notin Queue /\ conn[cur] # "new"
  BY DEF WInv, TypeOK, QueueOK, ServeShape
<1>3. QueueOK' /\ Untouched' /\ Unsaid' /\ LateOnce'
  <2>1. cur' \notin Queue'
    BY <1>1, ElementOfSeq, LenProperties DEF Queue, WInv, TypeOK
  <2> QED
    BY <1>1, <1>2, <2>1 DEF WInv, QueueOK, Untouched, Unsaid, LateOnce
<1>4. Owed'
  BY <1>1, <1>2 DEF WInv, Owed
<1>5. CancelOK'
  BY <1>1 DEF CancelOK
<1>6. ToldOK'
  <2>1. ASSUME NEW c \in Conn, told[c] \in Finishes \cup {"nothing"}
        PROVE  told[c] = sent'[c]
    <3>1. told[c] = sent[c]
      BY <1>2, <2>1 DEF WInv, ToldOK, ToldTheTruth
    <3>2. CASE Serving /\ c = cur
      BY <2>1, <3>1, <3>2 DEF WInv, Unsaid, Finishes
    <3> QED
      BY <3>1, <3>2
  <2> QED
    BY <2>1 DEF WInv, ToldOK, ToldTheTruth
<1>7. FinalOK'
  BY <1>1, <1>2 DEF WInv, FinalOK
<1> QED
  BY <1>3, <1>4, <1>5, <1>6, <1>7 DEF WInv

\* It replied, and has the finalize before it.
LEMMA EndsReply ==
    ASSUME WInv, TypeOK', Serving, pc' = "finalizing", sent'[cur] \in Finishes,
           UNCHANGED <<conn, told, jobs, cur, cancel, out, final, late, beat, started>>,
           ChannelOK', EndWaits',
           \A d \in Conn : d # cur => sent'[d] = sent[d]
    PROVE  WInv'
<1>1. Queue' = Queue /\ ~Serving' /\ cur \in Conn /\ cur \notin Queue /\ conn[cur] # "new"
      /\ pc # "dead"
  BY DEF Queue, Serving, WInv, TypeOK, QueueOK
<1>2. QueueOK' /\ Untouched' /\ Unsaid' /\ LateOnce'
  BY <1>1 DEF WInv, QueueOK, Untouched, Unsaid, LateOnce
<1>3. Owed'
  BY <1>1, Kinds DEF WInv, Owed
<1>4. CancelOK' /\ FinalOK'
  BY <1>1 DEF WInv, CancelOK, FinalOK, Serving
<1>5. ToldOK'
  <2>1. ASSUME NEW c \in Conn, told[c] \in Finishes \cup {"nothing"}
        PROVE  told[c] = sent'[c]
    <3>1. told[c] = sent[c]
      BY <1>1, <2>1 DEF WInv, ToldOK, ToldTheTruth
    <3>2. c # cur
      BY <2>1, <3>1 DEF WInv, Unsaid, Finishes
    <3> QED
      BY <3>1, <3>2
  <2> QED
    BY <2>1 DEF WInv, ToldOK, ToldTheTruth
<1> QED
  BY <1>2, <1>3, <1>4, <1>5 DEF WInv

LEMMA TakeStep ==
    ASSUME WInv, Take, UNCHANGED compacts
    PROVE  WInv'
<1> USE DEF threads, beats, history
<1>1. /\ jobs' \in Seq(Conn) /\ cur' \in Queue /\ Queue' = Queue \ {cur'}
      /\ \A i, j \in DOMAIN jobs' : jobs'[i] = jobs'[j] => i = j
  BY QueueTakes DEF Take, WInv, TypeOK, QueueOK
<1>2. cur' \in Conn /\ cur' # None
  <2>1. cur' \in Conn
    BY <1>1, ElementOfSeq, LenProperties DEF Queue, WInv, TypeOK
  <2>2. cur = None /\ None \notin Queue
    BY DEF Take, WInv, TypeOK, QueueOK
  <2> QED
    BY <1>1, <2>1, <2>2
<1>3. /\ pc = "idle" /\ pc' = "opening" /\ cur = None /\ Serving' /\ ~Serving
      /\ UNCHANGED <<conn, gone, told, chan, round, steps, cancel, out, pending, alive, beats,
                     history, compacts>>
  BY DEF Take, WInv, TypeOK, Serving
<1>4. TypeOK'
  BY <1>1, <1>2, <1>3 DEF WInv, TypeOK
<1>5. QueueOK' /\ Untouched' /\ Unsaid' /\ LateOnce'
  BY <1>1, <1>2, <1>3 DEF WInv, QueueOK, Untouched, Unsaid, LateOnce
<1>6. ChannelOK' /\ EndWaits' /\ Owed'
  BY <1>1, <1>2, <1>3 DEF WInv, ChannelOK, EndWaits, Owed
<1>7. ~cancel
  BY <1>3 DEF WInv, CancelOK
<1>8. CancelOK' /\ ToldOK' /\ FinalOK'
  BY <1>3, <1>7 DEF WInv, CancelOK, ToldOK, ToldTheTruth, FinalOK
<1> QED
  BY <1>4, <1>5, <1>6, <1>8 DEF WInv

\* Whatever it was doing, the request is told of the failure.
LEMMA FailsStep ==
    ASSUME ServeShape, WInv, pc \in {"opening", "generating"}, Fails,
           UNCHANGED <<threads, jobs, pending, alive, beats, calls, source, final, compacts>>
    PROVE  WInv'
<1> USE DEF threads, beats
<1>1. Serving /\ cur \in Conn /\ sent[cur] = "unsent"
  BY DEF Serving, WInv, TypeOK, Unsaid
<1>2. sent' = [sent EXCEPT ![cur] = "error"] /\ sent'[cur] = "error"
      /\ \A d \in Conn : d # cur => sent'[d] = sent[d]
  BY <1>1 DEF Fails, RepliedWith, WInv, TypeOK
<1>3. chan' \in [Conn -> Seq(Events)] /\ ChannelOK' /\ EndWaits'
  <2>1. <<"error">> \in Seq(Events) /\ Holds(<<"error">>) = {"error"}
    BY HoldsFew, Kinds
  <2> QED
    BY <1>1, <1>2, <2>1, SendKeeps DEF Fails, RepliedWith
<1>4. TypeOK'
  <2>1. /\ 0 \in 0 .. MaxRounds /\ 0 \in 0 .. MaxSteps
        /\ Unfinished \in [calls : CallSets, cancelled : BOOLEAN]
    BY DEF ServeShape, Unfinished
  <2>2. sent' \in [Conn -> Finishes \cup {"unsent", "error"}]
    BY <1>2 DEF WInv, TypeOK
  <2> QED
    BY <1>3, <2>1, <2>2 DEF Fails, Idles, WInv, TypeOK
<1>5. "error" \notin Finishes /\ "error" # "unsent"
  BY DEF Finishes
<1> QED
  BY <1>1, <1>2, <1>3, <1>4, <1>5, LetsGo DEF Fails

LEMMA ActivateStep ==
    ASSUME ServeShape, WInv, Activate, UNCHANGED compacts
    PROVE  WInv'
<1> USE DEF threads
<1>1. /\ pc = "opening" /\ pc' = "generating" /\ cur \in Conn /\ Serving /\ Serving'
      /\ UNCHANGED <<conn, gone, told, chan, jobs, cur, round, steps, cancel, out, pending, alive,
                     stage, started, late, sent, calls, final, compacts>>
  BY DEF Activate, WInv, TypeOK, Serving
<1>2. source' \in [Conn -> Conn \cup {None}]
  BY <1>1 DEF Activate, WInv, TypeOK
<1>3. /\ beat' \in [Conn -> {"off", "warm", "sleep", "send", "over"}]
      /\ \A d \in Conn : d # cur => beat'[d] = beat[d]
  BY <1>1 DEF Activate, WInv, TypeOK
<1>4. late[cur] = 0
  BY <1>1 DEF WInv, Untouched
<1>5. LateOnce'
  BY <1>1, <1>3, <1>4 DEF WInv, LateOnce
<1>6. TypeOK'
  BY <1>1, <1>2, <1>3 DEF WInv, TypeOK
<1>7. CancelOK' /\ ChannelOK' /\ EndWaits'
  BY <1>1 DEF WInv, CancelOK, ChannelOK, EndWaits
<1> QED
  BY <1>1, <1>3, <1>5, <1>6, <1>7, ServesOn

\* A delta that finds the thread gone cancels the generate.
LEMMA StepStep ==
    ASSUME ServeShape, WInv, NEW new \in BOOLEAN, Step(new), UNCHANGED compacts
    PROVE  WInv'
<1> USE DEF threads, history
<1> DEFINE speaks == beat[cur] # "off" /\ ~started[cur]
           head   == IF speaks THEN <<"separator">> ELSE <<>>
           tail   == IF new THEN <<"delta">> ELSE <<>>
<1>1. /\ pc = "generating" /\ cur \in Conn /\ Serving /\ Serving' /\ Sent(cur, head \o tail)
      /\ UNCHANGED <<conn, gone, told, jobs, pc, cur, round, out, pending, alive, beat, stage, late,
                     sent, calls, source, final, compacts>>
      /\ started' = [started EXCEPT ![cur] = @ \/ speaks]
      /\ steps' = (IF new THEN steps + 1 ELSE steps) /\ (new => steps < MaxSteps)
      /\ cancel' = (new /\ ~Listening(cur))
  BY DEF Step, WInv, TypeOK, Serving
<1>2. head \o tail \in Seq(Events) /\ Holds(head \o tail) \subseteq Deltas
  <2>1. {"separator", "delta"} \subseteq Events /\ {"separator", "delta"} \subseteq Deltas
    BY DEF Events, Deltas
  <2>2. head \in Seq(Events) /\ Holds(head) \subseteq Deltas
    BY <2>1, HoldsFew
  <2>3. tail \in Seq(Events) /\ Holds(tail) \subseteq Deltas
    BY <2>1, HoldsFew
  <2> HIDE DEF head, tail
  <2> QED
    BY <2>2, <2>3, HoldsConcat
<1> HIDE DEF head, tail
<1>3. chan' \in [Conn -> Seq(Events)] /\ ChannelOK' /\ EndWaits'
  BY <1>1, <1>2, DeltasKeep
<1>4. /\ started' \in [Conn -> BOOLEAN]
      /\ \A d \in Conn : started[d] => started'[d]
  BY <1>1 DEF WInv, TypeOK
<1>5. TypeOK'
  <2>1. steps' \in 0 .. MaxSteps
    <3>1. steps \in 0 .. MaxSteps /\ MaxSteps \in Nat
      BY DEF WInv, TypeOK, ServeShape
    <3> QED
      BY <1>1, <3>1
  <2>2. cancel' \in BOOLEAN
    BY <1>1
  <2> QED
    BY <1>1, <1>3, <1>4, <2>1, <2>2 DEF WInv, TypeOK
<1>6. LateOnce'
  BY <1>1, <1>4 DEF WInv, LateOnce
<1>7. CancelOK'
  <2>1. cur # None
    BY <1>1 DEF WInv, TypeOK
  <2> QED
    BY <1>1, <2>1 DEF CancelOK, Listening
<1> QED
  BY <1>1, <1>3, <1>5, <1>6, <1>7, ServesOn

LEMMA GeneratedStep ==
    ASSUME ServeShape, WInv, NEW reply \in Replies, Generated(reply), UNCHANGED compacts
    PROVE  WInv'
<1> USE DEF threads, beats, history
<1>1. /\ pc = "generating" /\ pc' = "flushing" /\ cur \in Conn /\ Serving /\ Serving'
      /\ out' = reply /\ (reply.cancelled => cancel)
      /\ UNCHANGED <<conn, gone, told, chan, jobs, cur, round, steps, cancel, pending, alive, beats,
                     history, compacts>>
  BY DEF Generated, WInv, TypeOK, Serving
<1>2. out' \in [calls : CallSets, cancelled : BOOLEAN]
  BY <1>1 DEF Replies, ServeShape
<1>3. TypeOK'
  BY <1>1, <1>2 DEF WInv, TypeOK
<1>4. CancelOK' /\ ChannelOK' /\ EndWaits' /\ LateOnce'
  BY <1>1 DEF WInv, CancelOK, ChannelOK, EndWaits, LateOnce
<1> QED
  BY <1>1, <1>3, <1>4, ServesOn

LEMMA FlushStep ==
    ASSUME WInv, Flush, UNCHANGED compacts
    PROVE  WInv'
<1> USE DEF threads, beats, history
<1>1. /\ pc = "flushing" /\ pc' = "replying" /\ cur \in Conn /\ Serving /\ Serving'
      /\ UNCHANGED <<conn, gone, told, jobs, cur, round, steps, cancel, out, pending, alive, beats,
                     history, compacts>>
  BY DEF Flush, WInv, TypeOK, Serving
<1>2. PICK held \in {<<>>, <<"delta">>} : Sent(cur, held)
  BY DEF Flush
<1>3. held \in Seq(Events) /\ Holds(held) \subseteq Deltas
  <2>1. "delta" \in Events /\ "delta" \in Deltas
    BY DEF Events, Deltas
  <2> QED
    BY <2>1, HoldsFew
<1>4. chan' \in [Conn -> Seq(Events)] /\ ChannelOK' /\ EndWaits'
  BY <1>1, <1>2, <1>3, DeltasKeep
<1>5. TypeOK'
  BY <1>1, <1>4 DEF WInv, TypeOK
<1>6. CancelOK' /\ LateOnce'
  BY <1>1 DEF WInv, CancelOK, LateOnce
<1> QED
  BY <1>1, <1>4, <1>5, <1>6, ServesOn

LEMMA AbandonStep ==
    ASSUME ServeShape, WInv, Abandon, UNCHANGED compacts
    PROVE  WInv'
<1> USE DEF threads, beats, history
<1>1. /\ pc = "replying" /\ out.cancelled /\ Serving /\ cur \in Conn /\ Idles
      /\ UNCHANGED <<conn, gone, told, chan, jobs, pending, alive, beats, history, compacts>>
  BY DEF Abandon, WInv, TypeOK, Serving
<1>2. conn[cur] = "shut" /\ sent[cur] = "unsent"
  BY <1>1 DEF WInv, CancelOK, Unsaid
<1>3. TypeOK'
  <2>1. /\ 0 \in 0 .. MaxRounds /\ 0 \in 0 .. MaxSteps
        /\ Unfinished \in [calls : CallSets, cancelled : BOOLEAN]
    BY DEF ServeShape, Unfinished
  <2> QED
    BY <1>1, <2>1 DEF Idles, WInv, TypeOK
<1>4. ChannelOK' /\ EndWaits'
  BY <1>1 DEF WInv, ChannelOK, EndWaits
<1> QED
  BY <1>1, <1>2, <1>3, <1>4, Kinds, LetsGo

LEMMA ExpandStep ==
    ASSUME ServeShape, WInv, Expand, UNCHANGED compacts
    PROVE  WInv'
<1> USE DEF threads, beats, history
<1>1. /\ pc = "replying" /\ pc' = "generating" /\ cur \in Conn /\ Serving /\ Serving'
      /\ round < MaxRounds /\ round' = round + 1 /\ steps' = 0 /\ cancel' = FALSE
      /\ UNCHANGED <<conn, gone, told, chan, jobs, cur, out, pending, alive, beats, history,
                     compacts>>
  BY DEF Expand, WInv, TypeOK, Serving
<1>2. round' \in 0 .. MaxRounds /\ steps' \in 0 .. MaxSteps
  <2>1. round \in 0 .. MaxRounds /\ MaxRounds \in Nat /\ MaxSteps \in Nat
    BY DEF WInv, TypeOK, ServeShape
  <2> QED
    BY <1>1, <2>1
<1>3. TypeOK'
  BY <1>1, <1>2 DEF WInv, TypeOK
<1>4. CancelOK' /\ ChannelOK' /\ EndWaits' /\ LateOnce'
  BY <1>1 DEF WInv, CancelOK, ChannelOK, EndWaits, LateOnce
<1> QED
  BY <1>1, <1>3, <1>4, ServesOn

LEMMA ReplyStep ==
    ASSUME ServeShape, WInv, Reply, UNCHANGED compacts
    PROVE  WInv'
<1> USE DEF threads, beats
<1>1. /\ pc = "replying" /\ pc' = "finalizing" /\ cur \in Conn /\ Serving
      /\ calls' = [calls EXCEPT ![cur] = out.calls]
      /\ UNCHANGED <<conn, gone, told, jobs, cur, round, steps, cancel, out, alive, beats, source,
                     final, compacts>>
  BY DEF Reply, WInv, TypeOK, Serving
<1>2. PICK e \in Ends(out) : RepliedWith(e)
  BY DEF Reply
<1>3. e \in Finishes /\ e \in Events /\ e # "unsent"
  BY <1>2 DEF Ends, Finishes, Events
<1>4. /\ sent' = [sent EXCEPT ![cur] = e] /\ sent'[cur] = e /\ Sent(cur, <<e>>)
      /\ \A d \in Conn : d # cur => sent'[d] = sent[d]
  BY <1>1, <1>2 DEF RepliedWith, WInv, TypeOK
<1>5. chan' \in [Conn -> Seq(Events)] /\ ChannelOK' /\ EndWaits'
  <2>1. sent[cur] = "unsent" /\ <<e>> \in Seq(Events) /\ Holds(<<e>>) = {e}
    BY <1>1, <1>3, HoldsFew DEF WInv, Unsaid
  <2> QED
    BY <1>1, <1>4, <2>1, SendKeeps
<1>6. TypeOK'
  <2>1. sent' \in [Conn -> Finishes \cup {"unsent", "error"}]
    BY <1>1, <1>3, <1>4 DEF WInv, TypeOK
  <2>2. calls' \in [Conn -> CallSets]
    BY <1>1 DEF WInv, TypeOK
  <2>3. pending' \in Conn \cup {None}
    BY <1>1 DEF Reply, WInv, TypeOK
  <2> QED
    BY <1>1, <1>5, <2>1, <2>2, <2>3 DEF WInv, TypeOK
<1> QED
  BY <1>1, <1>3, <1>4, <1>5, <1>6, EndsReply

LEMMA ScoreStep ==
    ASSUME WInv, Score, UNCHANGED compacts
    PROVE  WInv'
<1> USE DEF threads, beats
<1> DEFINE delta == IF cur \in Streamed THEN <<"delta">> ELSE <<>>
<1>1. /\ pc = "generating" /\ pc' = "finalizing" /\ cur \in Conn /\ Serving
      /\ Sent(cur, delta \o <<"stop">>) /\ sent' = [sent EXCEPT ![cur] = "stop"]
      /\ UNCHANGED <<conn, gone, told, jobs, cur, round, steps, cancel, out, pending, alive, beats,
                     calls, source, final, compacts>>
  BY DEF Score, WInv, TypeOK, Serving
<1>2. /\ /\ delta \o <<"stop">> \in Seq(Events)
      /\ Holds(delta \o <<"stop">>) \subseteq Deltas \cup {"stop"}
      /\ "stop" \in Holds(delta \o <<"stop">>)
  <2>1. "delta" \in Events /\ "delta" \in Deltas /\ "stop" \in Events
    BY DEF Events, Deltas, Finishes
  <2>2. delta \in Seq(Events) /\ Holds(delta) \subseteq Deltas
    <3>1. CASE cur \in Streamed
      <4>1. delta = <<"delta">>
        BY <3>1
      <4> HIDE DEF delta
      <4> QED
        BY <2>1, <4>1, HoldsFew
    <3>2. CASE cur \notin Streamed
      <4>1. delta = <<>>
        BY <3>2
      <4> HIDE DEF delta
      <4> QED
        BY <4>1, HoldsFew
    <3> QED
      BY <3>1, <3>2
  <2>3. <<"stop">> \in Seq(Events) /\ Holds(<<"stop">>) = {"stop"}
    BY <2>1, HoldsFew
  <2> DEFINE stop == <<"stop">>
  <2>4. stop \in Seq(Events) /\ Holds(stop) = {"stop"}
    BY <2>3
  <2> HIDE DEF delta, stop
  <2>5. delta \o stop \in Seq(Events) /\ Holds(delta \o stop) = Holds(delta) \cup Holds(stop)
    BY <2>2, <2>4, HoldsConcat
  <2>6. /\ delta \o stop \in Seq(Events)
        /\ Holds(delta \o stop) \subseteq Deltas \cup {"stop"}
        /\ "stop" \in Holds(delta \o stop)
    BY <2>2, <2>4, <2>5
  <2> QED
    BY <2>6 DEF stop
<1> HIDE DEF delta
<1>3. sent'[cur] = "stop" /\ \A d \in Conn : d # cur => sent'[d] = sent[d]
  BY <1>1 DEF WInv, TypeOK
<1>4. chan' \in [Conn -> Seq(Events)] /\ ChannelOK' /\ EndWaits'
  <2>1. sent[cur] = "unsent"
    BY <1>1 DEF WInv, Unsaid
  <2> QED
    BY <1>1, <1>2, <2>1, SendKeeps
<1>5. TypeOK'
  <2>1. sent' \in [Conn -> Finishes \cup {"unsent", "error"}]
    BY <1>1 DEF WInv, TypeOK, Finishes
  <2> QED
    BY <1>1, <1>4, <2>1 DEF WInv, TypeOK
<1>6. "stop" \in Finishes
  BY DEF Finishes
<1> QED
  BY <1>1, <1>3, <1>4, <1>5, <1>6, EndsReply

LEMMA FinalizeStep ==
    ASSUME ServeShape, WInv, Finalize, UNCHANGED compacts
    PROVE  WInv'
<1> USE DEF threads, beats
<1>1. /\ pc = "finalizing" /\ cur \in Conn /\ Idles
      /\ final' = [final EXCEPT ![cur] = TRUE]
      /\ UNCHANGED <<conn, gone, told, chan, jobs, pending, alive, beats, sent, calls, source,
                     compacts>>
  BY DEF Finalize, WInv, TypeOK
<1>2. final'[cur] /\ \A d \in Conn : d # cur => final'[d] = final[d]
  BY <1>1 DEF WInv, TypeOK
<1>3. conn[cur] = "shut" \/ sent[cur] # "unsent"
  <2>1. cur \notin Queue /\ conn[cur] # "new"
    BY <1>1 DEF WInv, QueueOK
  <2>2. conn[cur] \in {"head", "wait"} => sent[cur] # "unsent"
    BY <1>1, <2>1 DEF WInv, Owed, Serving
  <2> QED
    BY <1>1, <2>1, <2>2 DEF WInv, TypeOK
<1>4. TypeOK'
  <2>1. /\ 0 \in 0 .. MaxRounds /\ 0 \in 0 .. MaxSteps
        /\ Unfinished \in [calls : CallSets, cancelled : BOOLEAN]
    BY DEF ServeShape, Unfinished
  <2>2. final' \in [Conn -> BOOLEAN]
    BY <1>1 DEF WInv, TypeOK
  <2> QED
    BY <1>1, <2>1, <2>2 DEF Idles, WInv, TypeOK
<1>5. ChannelOK' /\ EndWaits'
  BY <1>1 DEF WInv, ChannelOK, EndWaits
<1> QED
  BY <1>1, <1>2, <1>3, <1>4, <1>5, LetsGo

LEMMA PipelineDiesStep ==
    ASSUME WInv, PipelineDies, UNCHANGED compacts
    PROVE  WInv'
<1> USE DEF threads, beats, history
<1>1. /\ alive' = FALSE /\ Queue' = Queue
      /\ UNCHANGED <<conn, gone, told, chan, jobs, pc, cur, round, steps, cancel, out, pending,
                     beats,
                     history, compacts>>
  BY DEF PipelineDies, Queue
<1>2. TypeOK'
  BY <1>1 DEF WInv, TypeOK
<1>3. QueueOK' /\ Untouched' /\ Unsaid' /\ LateOnce'
  BY <1>1 DEF WInv, QueueOK, Untouched, Unsaid, Serving, LateOnce
<1>4. ChannelOK' /\ EndWaits' /\ Owed' /\ CancelOK' /\ ToldOK' /\ FinalOK'
  BY <1>1 DEF WInv, ChannelOK, EndWaits, Owed, Serving, CancelOK, ToldOK, ToldTheTruth, FinalOK
<1> QED
  BY <1>2, <1>3, <1>4 DEF WInv

\* The queue goes with the worker, and what it had not answered.
LEMMA WorkerDiesStep ==
    ASSUME ServeShape, WInv, WorkerDies, UNCHANGED compacts
    PROVE  WInv'
<1> USE DEF threads, beats, history
<1>1. /\ pc' = "dead" /\ cur' = None /\ jobs' = <<>> /\ ~Serving'
      /\ UNCHANGED <<conn, gone, told, chan, round, steps, cancel, out, pending, alive, beats,
                     history, compacts>>
  BY DEF WorkerDies, Serving
<1>2. /\ jobs' \in Seq(Conn) /\ Queue' = {} /\ pc # "dead" /\ None \notin Conn
  BY <1>1 DEF Queue, WorkerDies, WInv, TypeOK, ServeShape
<1>3. TypeOK'
  BY <1>1, <1>2 DEF WInv, TypeOK
<1>4. QueueOK' /\ Untouched' /\ Unsaid' /\ LateOnce'
  BY <1>1, <1>2 DEF WInv, QueueOK, Untouched, Unsaid, LateOnce
<1>5. ChannelOK' /\ EndWaits' /\ Owed' /\ CancelOK' /\ FinalOK'
  BY <1>1, <1>2 DEF WInv, ChannelOK, EndWaits, Owed, CancelOK, FinalOK
<1>6. ToldOK'
  BY <1>1, <1>2 DEF WInv, ToldOK, ToldTheTruth
<1> QED
  BY <1>3, <1>4, <1>5, <1>6 DEF WInv

LEMMA WStutter ==
    ASSUME WInv, UNCHANGED vars
    PROVE  WInv'
<1> USE DEF vars, threads, worker, beats, history
<1>1. TypeOK' /\ Queue' = Queue
  BY DEF WInv, TypeOK, Queue
<1>2. QueueOK' /\ Untouched' /\ Unsaid' /\ LateOnce'
  BY <1>1 DEF WInv, QueueOK, Untouched, Unsaid, Serving, LateOnce
<1>3. ChannelOK' /\ EndWaits' /\ Owed' /\ CancelOK' /\ ToldOK' /\ FinalOK'
  BY <1>1 DEF WInv, ChannelOK, EndWaits, Owed, Serving, CancelOK, ToldOK, ToldTheTruth, FinalOK
<1> QED
  BY <1>1, <1>2, <1>3 DEF WInv

-----------------------------------------------------------------------------
(* Every step.                                                             *)

LEMMA HandleStep ==
    ASSUME ServeShape, WInv, Handle
    PROVE  WInv'
<1>1. CASE Take
  BY <1>1, TakeStep DEF Handle
<1>2. CASE Refuse
  BY <1>2, FailsStep DEF Handle, Refuse
<1>3. CASE Activate
  BY <1>3, ActivateStep DEF Handle
<1>4. CASE OpFails
  BY <1>4, FailsStep DEF Handle, OpFails
<1>5. CASE \E new \in BOOLEAN : Step(new)
  BY <1>5, StepStep DEF Handle
<1>6. CASE \E reply \in Replies : Generated(reply)
  BY <1>6, GeneratedStep DEF Handle
<1>7. CASE Flush
  BY <1>7, FlushStep DEF Handle
<1>8. CASE Abandon
  BY <1>8, AbandonStep DEF Handle
<1>9. CASE Expand
  BY <1>9, ExpandStep DEF Handle
<1>10. CASE Reply
  BY <1>10, ReplyStep DEF Handle
<1>11. CASE Score
  BY <1>11, ScoreStep DEF Handle
<1>12. CASE Finalize
  BY <1>12, FinalizeStep DEF Handle
<1> QED
  BY <1>1, <1>2, <1>3, <1>4, <1>5, <1>6, <1>7, <1>8, <1>9, <1>10, <1>11, <1>12 DEF Handle

LEMMA NextWInv ==
    ASSUME ServeShape, WInv, [Next]_vars
    PROVE  WInv'
<1>1. CASE \E c \in Conn : Client(c) /\ UNCHANGED compacts
  BY <1>1, PostStep, HangUpStep DEF Client
<1>2. CASE \E c \in Conn : Thread(c) \/ Beat(c)
  <2>1. ASSUME NEW c \in Conn, Thread(c) PROVE WInv'
    BY <2>1, OpenStreamStep, ReadDeltaStep, ReadEndStep, ReadEofStep DEF Thread
  <2>2. ASSUME NEW c \in Conn, Beat(c) PROVE WInv'
    BY <2>2, BeatWarmsUpStep, BeatChecksStep, BeatSpeaksStep DEF Beat
  <2> QED
    BY <1>2, <2>1, <2>2
<1>3. CASE Handle
  BY <1>3, HandleStep
<1>4. CASE (PipelineDies \/ WorkerDies \/ Quiet) /\ UNCHANGED compacts
  <2>1. CASE Quiet
    BY <1>4, <2>1, WStutter DEF Quiet, vars
  <2> QED
    BY <1>4, <2>1, PipelineDiesStep, WorkerDiesStep
<1>5. CASE UNCHANGED vars
  BY <1>5, WStutter
<1> QED
  BY <1>1, <1>2, <1>3, <1>4, <1>5 DEF Next

-----------------------------------------------------------------------------
(* Theorems.                                                               *)

\* The invariant holds in every state of every server.
THEOREM ServeInvariant == Spec => []WInv
<1>1. Init => WInv
  BY InitWInv, ServeShape
<1>2. WInv /\ [Next]_vars => WInv'
  BY NextWInv, ServeShape
<1> QED
  BY <1>1, <1>2, PTL DEF Spec

\* Every variable keeps to its type; the worker holds a job exactly while it
\* handles one, and the heartbeat (spawn_prefill_status) sends one status at
\* most once the reply has begun, whatever the schedule.
THEOREM ServeTypes == Spec => []TypeOK
<1>1. WInv => TypeOK
  BY DEF WInv
<1> QED
  BY <1>1, ServeInvariant, PTL

\* While the worker lives, a request it is through with was sent how it ended:
\* no error path of handle, no dead pipeline and no cancelled generate leaves a
\* connection whose client is still there without its Done or its Error.
THEOREM AlwaysAnswered == Spec => []Answered
<1>1. WInv => Answered
  BY DEF WInv, Owed, Answered, Queue
<1> QED
  BY <1>1, ServeInvariant, PTL

\* What a client was told is what the worker sent; a stream that ends in "stop"
\* for want of a Done (stream_sse), and a plain response that is never written,
\* are the work of a worker that died.
THEOREM AlwaysToldTheTruth == Spec => []ToldTheTruth
<1>1. WInv => ToldTheTruth
  BY DEF WInv, ToldOK
<1> QED
  BY <1>1, ServeInvariant, PTL

\* The conversation is asked of the pool (activate), and its pending turn
\* matched, only after the finalize of the reply the request continues.
THEOREM FollowUpsAfterFinalize == Spec => FollowUpAfterFinalize
<1> DEFINE Routed == \A p \in {Answers[cur], source'[cur]} \ {None} :
                         sent[p] \in {"stop", "tool_calls"} => final[p]
<1>1. WInv /\ Activate => Routed
  <2> SUFFICES ASSUME WInv, Activate, NEW p \in {Answers[cur], source'[cur]} \ {None},
                      sent[p] \in {"stop", "tool_calls"}
               PROVE  final[p]
    OBVIOUS
  <2>1. cur \in Conn /\ pc = "opening"
    BY DEF Activate, WInv, TypeOK
  <2>2. source'[cur] \in Conn \cup {None}
    BY <2>1 DEF Activate, WInv, TypeOK
  <2>3. p \in Conn
    BY <2>1, <2>2, ServeShape DEF ServeShape
  <2> QED
    BY <2>1, <2>3 DEF WInv, FinalOK, Finishes
<1>2. WInv /\ [Next]_vars => [Activate => Routed]_vars
  BY <1>1
<1> QED
  BY <1>2, ServeInvariant, PTL DEF Spec, FollowUpAfterFinalize

=============================================================================
