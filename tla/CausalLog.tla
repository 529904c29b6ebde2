------------------------------ MODULE CausalLog ------------------------------
(***************************************************************************)
(* What a generation session promises its clients, whatever it does with   *)
(* rings, side buffers and rebuilds: its causal token log grows at the     *)
(* end, is cut at the end, is shelved or is exchanged for the shelved one, *)
(* and the sliding window the next query reads is always that of the log   *)
(* itself (session.rs: "as if it had never been swapped out";              *)
(* tests.rs: "the live KV must equal what a fresh prefill of the same n    *)
(* tokens produces").                                                      *)
(***************************************************************************)
EXTENDS Integers, Sequences

CONSTANTS Token, Window

VARIABLES
    log,    \* the causal token log
    view,   \* what the query after the log reads: prefixes naming positions
    shelf   \* the log of a conversation swapped out

FirstN(l, n) == [i \in 1..n |-> l[i]]

\* The last Window - 1 positions of l.
ViewOf(l) == {FirstN(l, n) : n \in {m \in 1 .. Len(l) : m + Window > Len(l) + 1}}

Begins(short, long) == Len(short) <= Len(long) /\ short = FirstN(long, Len(short))

Init == log = <<>> /\ view = {} /\ shelf = <<>>

Grow == Begins(log, log') /\ log # log' /\ UNCHANGED shelf
Cut  == Begins(log', log) /\ log # log' /\ UNCHANGED shelf

Shelve  == shelf' = log /\ UNCHANGED log
Restore == log' = shelf /\ UNCHANGED shelf

Next == (Grow \/ Cut \/ Shelve \/ Restore) /\ view' = ViewOf(log')

Spec == Init /\ [][Next]_<<log, view, shelf>>
=============================================================================
