------------------------------ MODULE MemBudget ------------------------------
(***************************************************************************)
(* The machine-wide memory budget (membudget.rs): threads that build a     *)
(* runtime block in acquire until its bytes fit, first come first served   *)
(* within their process, and count what other processes advertise in lock  *)
(* files.  The caller is build_step_runtime, whose label never varies, so  *)
(* a process has one lock file path.                                       *)
(*                                                                         *)
(* A poll is one pass of acquire's loop under the process's mutex; a       *)
(* waiter wakes for one at least every CROSS_PROCESS_POLL, notified or     *)
(* not.  Time is counted in ticks of the deadline.  With two processes a    *)
(* scan reads a single foreign file, in one step.                          *)
(***************************************************************************)
EXTENDS Integers, Sequences, FiniteSetsExt, SequencesExt

CONSTANTS
    Thread, Proc, None,
    Home,       \* the process of each thread
    Sizes,      \* bytes a runtime may ask for
    Total,      \* the budget
    Limit,      \* DGQ_MEM_LOCK_TIMEOUT, in ticks
    Mortal      \* processes that may be killed

ASSUME BudgetConstants ==
    /\ Home \in [Thread -> Proc] /\ None \notin Thread
    /\ IsFiniteSet(Thread) /\ IsFiniteSet(Proc) /\ Cardinality(Proc) <= 2
    /\ Sizes \subseteq Nat \ {0} /\ {Total, Limit} \subseteq Nat \ {0}
    /\ Mortal \subseteq Proc

VARIABLES
    pc,       \* where each thread is in acquire, in a run, or in Drop
    want,     \* bytes of its request
    queue,    \* FIFO tickets of each process (a thread has at most one)
    used,     \* used of each process
    moved,    \* (releases, position) # seen: something moved since the last poll
    stall,    \* ticks since last_progress
    file,     \* what is at each process's lock file path
    fd,       \* the thread's lock file: none, at the path, or unlinked
    quiet,    \* history: ticks since a permit of the process was released
    blind     \* history: grants that did not count some runtime's memory

vars == <<pc, want, queue, used, moved, stall, file, fd, quiet, blind>>
waiters == <<queue, moved, stall>>

ThreadsOf(p) == {t \in Thread : Home[t] = p}
Granted == {"granted", "opened", "locked", "holding", "leaving"}
Absent  == [there |-> FALSE, locker |-> None, stamp |-> 0]
InForce == {t \in Thread : pc[t] \in Granted \cup {"freeing"}}
Sum(S)  == MapThenSumSet(LAMBDA t : want[t], S)
Queued(p) == {t \in ThreadsOf(p) : pc[t] = "queued"}
Capped(n) == IF n < Limit THEN n + 1 ELSE n

-----------------------------------------------------------------------------
(* Lock files                                                              *)

\* The path of each process in S is unlinked: descriptors stay open.
Unlinked(S) ==
    /\ file' = [p \in Proc |-> IF p \in S THEN Absent ELSE file[p]]
    /\ fd' = [t \in Thread |-> IF Home[t] \in S /\ fd[t] = "here" THEN "gone" ELSE fd[t]]

\* Files nobody has locked look like a dead process's to a scan.
Reapable(p) == {q \in Proc \ {p} : file[q].there /\ file[q].locker = None}

\* external_used: the stamps of other processes' locked files.
External(p) ==
    MapThenSumSet(LAMBDA q : file[q].stamp,
                  {q \in Proc \ {p} : file[q].there /\ file[q].locker # None})

\* Is t's grant counted by the processes that scan?
Visible(t) == LET f == file[Home[t]] IN f.there /\ f.locker = t /\ f.stamp = want[t]

-----------------------------------------------------------------------------
(* acquire                                                                 *)

Acquire(t, bytes) ==
    /\ pc[t] = "idle"
    /\ pc' = [pc EXCEPT ![t] = "queued"]
    /\ want' = [want EXCEPT ![t] = bytes]
    /\ queue' = [queue EXCEPT ![Home[t]] = Append(@, t)]
    /\ UNCHANGED <<moved, stall, used, file, fd, quiet, blind>>

AtHead(t) == queue[Home[t]] # <<>> /\ Head(queue[Home[t]]) = t

\* Fault: an oversized request only waits for its own process to be idle.
FitsOwn(t) ==
    LET p == Home[t]
    IN  used[p] + External(p) + want[t] <= Total \/ used[p] = 0

\* Within the budget, or oversized with everything idle.
Fits(t) ==
    LET p == Home[t]
    IN  \/ used[p] + External(p) + want[t] <= Total
        \/ used[p] = 0 /\ External(p) = 0

Place(t) == CHOOSE i \in DOMAIN queue[Home[t]] : queue[Home[t]][i] = t

Behind(t) == LET q == queue[Home[t]] IN {q[i] : i \in Place(t) + 1 .. Len(q)}

\* t leaves the queue: those behind it advance.
Dequeue(t) ==
    /\ queue' = [queue EXCEPT ![Home[t]] = RemoveAt(@, Place(t))]
    /\ moved' = [u \in Thread |-> u # t /\ (moved[u] \/ u \in Behind(t))]
    /\ stall' = [stall EXCEPT ![t] = 0]

\* Runtimes t's process does not count: another process's unadvertised grant,
\* or memory whose permit is already released.
Uncounted(t) ==
    {u \in InForce : IF Home[u] = Home[t] THEN pc[u] = "freeing" ELSE ~Visible(u)}

Grant(t) ==
    /\ pc[t] = "queued" /\ AtHead(t) /\ Fits(t)
    /\ pc' = [pc EXCEPT ![t] = "granted"]
    /\ used' = [used EXCEPT ![Home[t]] = @ + want[t]]
    /\ Dequeue(t)
    /\ Unlinked(Reapable(Home[t]))
    /\ blind' = IF Uncounted(t) # {} THEN blind \cup {t} ELSE blind
    /\ UNCHANGED <<want, quiet>>

\* Fault: the deadline measures the whole wait.
WaitWithoutReset(t) ==
    /\ pc[t] = "queued" /\ ~(AtHead(t) /\ Fits(t))
    /\ moved[t] \/ stall[t] < Limit
    /\ moved' = [moved EXCEPT ![t] = FALSE]
    /\ Unlinked(Reapable(Home[t]))
    /\ UNCHANGED <<pc, want, queue, used, stall, quiet, blind>>

\* Fault: any poll restarts the stall clock.
WaitForever(t) ==
    /\ pc[t] = "queued" /\ ~(AtHead(t) /\ Fits(t))
    /\ stall' = [stall EXCEPT ![t] = 0]
    /\ moved' = [moved EXCEPT ![t] = FALSE]
    /\ Unlinked(Reapable(Home[t]))
    /\ UNCHANGED <<pc, want, queue, used, quiet, blind>>

\* Progress restarts the stall clock.
Wait(t) ==
    /\ pc[t] = "queued" /\ ~(AtHead(t) /\ Fits(t))
    /\ moved[t] \/ stall[t] < Limit
    /\ stall' = [stall EXCEPT ![t] = IF moved[t] THEN 0 ELSE @]
    /\ moved' = [moved EXCEPT ![t] = FALSE]
    /\ Unlinked(Reapable(Home[t]))
    /\ UNCHANGED <<pc, want, queue, used, quiet, blind>>

\* Fault: the ticket of a waiter that gave up stays in the queue.
GiveUpInQueue(t) ==
    /\ pc[t] = "queued" /\ ~(AtHead(t) /\ Fits(t))
    /\ ~moved[t] /\ stall[t] = Limit
    /\ pc' = [pc EXCEPT ![t] = "idle"]
    /\ Unlinked(Reapable(Home[t]))
    /\ UNCHANGED <<want, waiters, used, quiet, blind>>

\* Nothing moved for the whole deadline.
GiveUp(t) ==
    /\ pc[t] = "queued" /\ ~(AtHead(t) /\ Fits(t))
    /\ ~moved[t] /\ stall[t] = Limit
    /\ pc' = [pc EXCEPT ![t] = "idle"]
    /\ want' = [want EXCEPT ![t] = 0]
    /\ Dequeue(t)
    /\ Unlinked(Reapable(Home[t]))
    /\ UNCHANGED <<used, quiet, blind>>

Poll(t) == Grant(t) \/ Wait(t) \/ GiveUp(t)

-----------------------------------------------------------------------------
(* advertise, after the mutex is released                                  *)

Degraded(t) == fd' = [fd EXCEPT ![t] = "none"] /\ pc' = [pc EXCEPT ![t] = "holding"]

\* File::create makes the file, or empties the one a sibling advertises in.
OpenFile(t) ==
    LET p == Home[t]
    IN  /\ pc[t] = "granted"
        /\ \/ /\ file' = [file EXCEPT ![p].there = TRUE, ![p].stamp = 0]
              /\ fd' = [fd EXCEPT ![t] = "here"]
              /\ pc' = [pc EXCEPT ![t] = "opened"]
           \/ Degraded(t) /\ UNCHANGED file      \* the directory is unusable
        /\ UNCHANGED <<want, waiters, used, quiet, blind>>

\* flock(EX | NB): fails while a sibling holds the file - or while a scanner
\* that is about to unlink it tests it.
LockFile(t) ==
    LET p == Home[t]
    IN  /\ pc[t] = "opened"
        /\ \/ /\ fd[t] = "here" /\ file[p].locker = None
              /\ file' = [file EXCEPT ![p].locker = t]
              /\ pc' = [pc EXCEPT ![t] = "locked"] /\ UNCHANGED fd
           \/ /\ fd[t] = "here" /\ file[p].locker # None
              /\ Degraded(t) /\ UNCHANGED file
           \/ /\ fd[t] = "gone"
              /\ Degraded(t) \/ (pc' = [pc EXCEPT ![t] = "locked"] /\ UNCHANGED fd)
              /\ UNCHANGED file
        /\ UNCHANGED <<want, waiters, used, quiet, blind>>

\* Fault: advertises all its process holds.
StampUsed(t) ==
    LET p == Home[t]
    IN  /\ pc[t] = "locked"
        /\ file' = IF fd[t] = "here" THEN [file EXCEPT ![p].stamp = used[p]] ELSE file
        /\ pc' = [pc EXCEPT ![t] = "holding"]
        /\ UNCHANGED <<want, waiters, used, fd, quiet, blind>>

StampFile(t) ==
    LET p == Home[t]
    IN  /\ pc[t] = "locked"
        /\ file' = IF fd[t] = "here" THEN [file EXCEPT ![p].stamp = want[t]] ELSE file
        /\ pc' = [pc EXCEPT ![t] = "holding"]
        /\ UNCHANGED <<want, waiters, used, fd, quiet, blind>>

Advertise(t) == OpenFile(t) \/ LockFile(t) \/ StampFile(t)

-----------------------------------------------------------------------------
(* Drop: the permit is the runtime's first field, dropped before the rest  *)

\* Fault: the lock file outlives the permit.
UnlistNothing(t) ==
    /\ pc[t] = "holding"
    /\ pc' = [pc EXCEPT ![t] = "leaving"]
    /\ UNCHANGED <<want, waiters, used, file, fd, quiet, blind>>

\* The path is unlinked, whoever's file is there by now; the lock goes with
\* the descriptor.
Unlist(t) ==
    LET p == Home[t]
    IN  /\ pc[t] = "holding"
        /\ pc' = [pc EXCEPT ![t] = "leaving"]
        /\ IF fd[t] = "none" THEN UNCHANGED <<file, fd>>
           ELSE /\ file' = [file EXCEPT ![p] = Absent]
                /\ fd' = [u \in Thread |->
                             IF u = t THEN "none"
                             ELSE IF Home[u] = p /\ fd[u] = "here" THEN "gone" ELSE fd[u]]
        /\ UNCHANGED <<want, waiters, used, quiet, blind>>

Release(t) ==
    LET p == Home[t]
    IN  /\ pc[t] = "leaving"
        /\ pc' = [pc EXCEPT ![t] = "freeing"]
        /\ used' = [used EXCEPT ![p] = IF @ > want[t] THEN @ - want[t] ELSE 0]
        /\ moved' = [u \in Thread |-> moved[u] \/ u \in Queued(p)]
        /\ quiet' = [quiet EXCEPT ![p] = 0]
        /\ UNCHANGED <<want, queue, stall, file, fd, blind>>

\* The buffers and the weights blob are freed.
Freed(t) ==
    /\ pc[t] = "freeing"
    /\ pc' = [pc EXCEPT ![t] = "idle"]
    /\ want' = [want EXCEPT ![t] = 0]
    /\ blind' = blind \ {t}
    /\ UNCHANGED <<waiters, used, file, fd, quiet>>

Tick ==
    /\ stall' = [t \in Thread |-> IF pc[t] = "queued" THEN Capped(stall[t]) ELSE stall[t]]
    /\ quiet' = [p \in Proc |-> IF Queued(p) = {} THEN quiet[p] ELSE Capped(quiet[p])]
    /\ UNCHANGED <<pc, want, queue, used, moved, file, fd, blind>>

\* The process is killed: its locks go, its file stays.
Kill(p) ==
    /\ p \in Mortal /\ \E t \in ThreadsOf(p) : pc[t] # "dead"
    /\ pc' = [t \in Thread |-> IF Home[t] = p THEN "dead" ELSE pc[t]]
    /\ fd' = [t \in Thread |-> IF Home[t] = p THEN "none" ELSE fd[t]]
    /\ file' = [file EXCEPT ![p].locker = None]
    /\ queue' = [queue EXCEPT ![p] = <<>>]
    /\ used' = [used EXCEPT ![p] = 0]
    /\ want' = [t \in Thread |-> IF Home[t] = p THEN 0 ELSE want[t]]
    /\ moved' = [t \in Thread |-> Home[t] # p /\ moved[t]]
    /\ stall' = [t \in Thread |-> IF Home[t] = p THEN 0 ELSE stall[t]]
    /\ quiet' = [quiet EXCEPT ![p] = 0]
    /\ blind' = blind \ ThreadsOf(p)

-----------------------------------------------------------------------------
Init ==
    /\ pc = [t \in Thread |-> "idle"] /\ want = [t \in Thread |-> 0]
    /\ queue = [p \in Proc |-> <<>>] /\ used = [p \in Proc |-> 0]
    /\ moved = [t \in Thread |-> FALSE] /\ stall = [t \in Thread |-> 0]
    /\ file = [p \in Proc |-> Absent] /\ fd = [t \in Thread |-> "none"]
    /\ quiet = [p \in Proc |-> 0] /\ blind = {}

Next ==
    \/ \E t \in Thread :
          \/ \E bytes \in Sizes : Acquire(t, bytes)
          \/ Poll(t) \/ Advertise(t)
          \/ Unlist(t) \/ Release(t) \/ Freed(t)
    \/ Tick
    \/ \E p \in Proc : Kill(p)

\* A waiter keeps polling, acquire runs to its end and time passes; nothing
\* says that a runtime is ever dropped.
Spec ==
    /\ Init /\ [][Next]_vars
    /\ \A t \in Thread : WF_vars(Poll(t) \/ Advertise(t))
    /\ WF_vars(Tick)

-----------------------------------------------------------------------------
(* Properties                                                              *)

\* Types; no lock file counts for more than a request may take.
TypeOK ==
    /\ pc \in [Thread -> Granted \cup {"idle", "queued", "freeing", "dead"}]
    /\ want \in [Thread -> Sizes \cup {0}]
    /\ queue \in [Proc -> Seq(Thread)]
    /\ used \in [Proc -> Nat]
    /\ moved \in [Thread -> BOOLEAN] /\ stall \in [Thread -> 0 .. Limit]
    /\ file \in [Proc -> [there : BOOLEAN, locker : Thread \cup {None},
                          stamp : Sizes \cup {0}]]
    /\ fd \in [Thread -> {"none", "here", "gone"}]
    /\ quiet \in [Proc -> 0 .. Limit] /\ blind \subseteq Thread

\* used is the bytes of the live permits, and they fit in the budget or are a
\* single oversized one; the queue holds exactly the waiters, each once.
Accounted ==
    \A p \in Proc :
        LET grants == {t \in ThreadsOf(p) : pc[t] \in Granted}
        IN  /\ used[p] = Sum(grants)
            /\ used[p] > Total => Cardinality(grants) = 1
            /\ {queue[p][i] : i \in DOMAIN queue[p]} = Queued(p)
            /\ Len(queue[p]) = Cardinality(Queued(p))

\* The machine is overcommitted only while a runtime is alive that was granted
\* without counting some other runtime's memory.
OvercommitOnlyBlind ==
    blind \cap InForce = {} => Sum(InForce) <= Total \/ Cardinality(InForce) = 1

\* A scan never counts bytes that no live permit of another process holds:
\* what a dropped permit or a killed process held is not waited for.
ScanNeverOvercounts ==
    \A p \in Proc :
        External(p) <= Sum({t \in Thread : Home[t] # p /\ pc[t] \in Granted})

\* A waiter gives up only when no permit of its process was released for the
\* whole deadline, however long it waited.
GivesUpOnlyWhenQuiet ==
    [][\A t \in Thread :
          pc[t] = "queued" /\ pc'[t] = "idle" => quiet[Home[t]] >= Limit]_vars

\* Every acquire returns, with a permit or an error, also when no permit is
\* ever dropped.
AcquireReturns ==
    \A t \in Thread : []<>(pc[t] \notin {"queued", "granted", "opened", "locked"})

=============================================================================
