----------------------------- MODULE MCMemBudget -----------------------------
(***************************************************************************)
(* MemBudget with two threads in one process and one in another.           *)
(***************************************************************************)
EXTENDS MemBudget

CONSTANTS t1, t2, t3, p1, p2

MCThread == {t1, t2, t3}
MCHome == [t \in MCThread |-> IF t = t3 THEN p2 ELSE p1]

=============================================================================
