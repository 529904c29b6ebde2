-------------------------- MODULE MemBudget_proofs --------------------------
(***************************************************************************)
(* For any threads of at most two processes, any requests and any budget:  *)
(* the bytes in use are those of the live permits, the queue is exactly    *)
(* the waiters, a scan counts no more than another process's live permits, *)
(* the machine is overcommitted only by a grant that did not see some      *)
(* runtime, and a waiter gives up only when nothing was released for the   *)
(* whole deadline.                                                         *)
(***************************************************************************)
EXTENDS MemBudget, FiniteSetTheorems, SequenceTheorems, WellFoundedInduction, TLAPS

Grants(p) == {t \in ThreadsOf(p) : pc[t] \in Granted}

\* A sum with its weight as a parameter; Sum(S) is SumOf(want, S).
SumOf(w, S) == MapThenSumSet(LAMBDA t : w[t], S)

\* A thread in the queue or with a runtime asked for something.
Sized == \A t \in Thread : pc[t] = "queued" \/ t \in InForce => want[t] \in Sizes

\* The parts of Accounted.
Books == \A p \in Proc : used[p] = SumOf(want, Grants(p))
Bound == \A p \in Proc : used[p] > Total => Cardinality(Grants(p)) = 1
Waiting ==
    \A p \in Proc : /\ {queue[p][i] : i \in DOMAIN queue[p]} = Queued(p)
                    /\ Len(queue[p]) = Cardinality(Queued(p))

\* A ticket is in the queue once.
Once == \A p \in Proc : \A i, j \in DOMAIN queue[p] : i # j => queue[p][i] # queue[p][j]

\* A locked file is its locker's, who has it open, is advertising or runs, and has
\* stamped its own bytes or not yet; a file that is open to be locked is not
\* stamped before it is.
FileInOrder(q) ==
    /\ file[q].locker # None =>
           LET t == file[q].locker
           IN  /\ Home[t] = q /\ pc[t] \in {"locked", "holding"} /\ fd[t] = "here"
               /\ file[q].stamp \in {0, want[t]}
    /\ \A t \in ThreadsOf(q) :
           /\ pc[t] = "locked" /\ fd[t] = "here" => file[q].locker = t
           /\ pc[t] = "opened" /\ fd[t] = "here" /\ file[q].locker = None =>
                  file[q].stamp = 0
Files == \A q \in Proc : FileInOrder(q)

\* The runtimes whose grant counted every other fit, or are one.
Sighted == InForce \ blind
SightedFit == SumOf(want, Sighted) <= Total \/ Cardinality(Sighted) = 1

\* A waiter that saw nothing move has waited no longer than nothing was released.
Stalls ==
    \A t \in Thread :
        /\ pc[t] # "queued" => stall[t] = 0
        /\ pc[t] = "queued" /\ ~moved[t] => stall[t] <= quiet[Home[t]]

\* The inductive invariant.
MInv ==
    /\ TypeOK /\ Sized /\ Books /\ Bound /\ Waiting /\ Once /\ Files /\ SightedFit
    /\ Stalls

-----------------------------------------------------------------------------
(* Induction over a set of numbers, and over the subsets of a finite set.  *)

\* A non-empty set of numbers has a least element.
LEMMA LeastElement ==
    ASSUME NEW D, D \subseteq Nat, D # {}
    PROVE  \E x \in D : \A y \in D : x <= y
<1> DEFINE R == OpToRel(<, Nat)
<1>1. IsWellFoundedOn(R, Nat)
  BY NatLessThanWellFounded
<1>2. \A x, y \in Nat : x < y => <<x, y>> \in R
  BY DEF OpToRel
<1> HIDE DEF R
<1>3. PICK x \in D : \A y \in D : ~ (<<y, x>> \in R)
  BY <1>1, WFMin
<1>4. ASSUME NEW y \in D PROVE x <= y
  <2>1. x \in Nat /\ y \in Nat /\ ~(y < x)
    BY <1>2, <1>3
  <2> QED
    BY <2>1
<1> QED
  BY <1>4

\* Nothing is wrong anywhere that starts right and goes wrong nowhere.
LEMMA NoLeastWrong ==
    ASSUME NEW N \in Nat, NEW Wrong, Wrong \subseteq 0 .. N, 0 \notin Wrong,
           \A n \in 1 .. N : n \in Wrong => n - 1 \in Wrong
    PROVE  Wrong = {}
<1> SUFFICES ASSUME Wrong # {} PROVE FALSE
  OBVIOUS
<1>1. PICK x \in Wrong : \A y \in Wrong : x <= y
  <2>1. Wrong \subseteq Nat
    OBVIOUS
  <2> QED
    BY <2>1, LeastElement
<1>2. x \in 1 .. N /\ ~(x <= x - 1)
  OBVIOUS
<1> QED
  BY <1>1, <1>2

\* Nothing is wrong with a set that is not wrong with one of fewer elements.
LEMMA NoSmallestWrong ==
    ASSUME NEW U, IsFiniteSet(U), NEW Wrong, Wrong \subseteq SUBSET U,
           \A s \in Wrong : \E t \in s : s \ {t} \in Wrong
    PROVE  Wrong = {}
<1> SUFFICES ASSUME Wrong # {} PROVE FALSE
  OBVIOUS
<1> DEFINE D == {Cardinality(s) : s \in Wrong}
<1>1. ASSUME NEW s \in Wrong PROVE IsFiniteSet(s) /\ Cardinality(s) \in Nat
  <2>1. s \in SUBSET U
    OBVIOUS
  <2>2. IsFiniteSet(s)
    BY <2>1, FS_Subset
  <2> QED
    BY <2>2, FS_CardinalityType
<1>2. D \subseteq Nat /\ D # {}
  <2>1. D \subseteq Nat
    BY <1>1
  <2>2. PICK s : s \in Wrong
    OBVIOUS
  <2>3. Cardinality(s) \in D
    BY <2>2
  <2> QED
    BY <2>1, <2>3
<1>3. PICK d \in D : \A e \in D : d <= e
  <2> HIDE DEF D
  <2> QED
    BY <1>2, LeastElement
<1>4. PICK s \in Wrong : d = Cardinality(s)
  BY <1>3
<1>5. PICK t \in s : s \ {t} \in Wrong
  BY <1>4
<1>6. Cardinality(s \ {t}) = Cardinality(s) - 1
  BY <1>1, <1>4, <1>5, FS_RemoveElement
<1>7. Cardinality(s \ {t}) \in D
  BY <1>5
<1>8. Cardinality(s) <= Cardinality(s) - 1 /\ Cardinality(s) \in Nat
  BY <1>1, <1>3, <1>4, <1>6, <1>7
<1> QED
  BY <1>8

-----------------------------------------------------------------------------
(* The sum of a weight over a finite set, which the model folds.           *)

AnyOf(s) == CHOOSE x \in s : TRUE

Step(f, w, s) == IF s = {} THEN 0 ELSE w[AnyOf(s)] + f[s \ {AnyOf(s)}]

\* f solves the recursion behind the fold.
Adds(f, w, U) == f = [s \in SUBSET U |-> Step(f, w, s)]

\* What the fold picks is in the set.
LEMMA AnyIsIn ==
    ASSUME NEW s, s # {} PROVE AnyOf(s) \in s
<1>1. \E x \in s : TRUE
  OBVIOUS
<1> QED
  BY <1>1 DEF AnyOf

\* The sum is the value the fold's function has at the set.
LEMMA SumIsFold ==
    ASSUME NEW w, NEW S
    PROVE  SumOf(w, S) = (CHOOSE f : Adds(f, w, S))[S]
BY DEF SumOf, MapThenSumSet, MapThenFoldSet, Adds, Step, AnyOf

\* The recursion has a solution.
LEMMA AddsExists ==
    ASSUME NEW U, IsFiniteSet(U), NEW w
    PROVE  \E f : Adds(f, w, U)
<1> DEFINE Upto(f, n) == \A s \in SUBSET U : Cardinality(s) <= n => f[s] = Step(f, w, s)
           N == Cardinality(U)
           Wrong == {n \in 0 .. N : ~ \E f : Upto(f, n)}
<1>1. N \in Nat
  BY FS_CardinalityType
<1>2. ASSUME NEW s \in SUBSET U
      PROVE  IsFiniteSet(s) /\ Cardinality(s) \in 0 .. N
  <2>1. IsFiniteSet(s) /\ Cardinality(s) <= N
    BY FS_Subset
  <2>2. Cardinality(s) \in Nat
    BY <2>1, FS_CardinalityType
  <2> QED
    BY <1>1, <2>1, <2>2
<1>3. 0 \notin Wrong
  <2> DEFINE f == [s \in SUBSET U |-> 0]
  <2>1. ASSUME NEW s \in SUBSET U, Cardinality(s) <= 0 PROVE f[s] = Step(f, w, s)
    <3>1. Cardinality(s) = 0
      BY <1>2, <2>1
    <3>2. s = {}
      BY <1>2, <3>1, FS_EmptySet
    <3> QED
      BY <3>2 DEF Step
  <2> HIDE DEF f
  <2>2. Upto(f, 0)
    BY <2>1
  <2> QED
    BY <2>2
<1>4. ASSUME NEW n \in 1 .. N, n - 1 \notin Wrong PROVE n \notin Wrong
  <2>1. n \in Nat /\ n - 1 \in 0 .. N
    BY <1>1
  <2>2. PICK f : Upto(f, n - 1)
    BY <1>4, <2>1
  <2> DEFINE g == [s \in SUBSET U |-> Step(f, w, s)]
  <2>3. ASSUME NEW s \in SUBSET U, Cardinality(s) <= n PROVE g[s] = Step(g, w, s)
    <3>1. CASE s = {}
      BY <3>1 DEF Step
    <3>2. CASE s # {}
      <4> DEFINE r == s \ {AnyOf(s)}
      <4>1. r \in SUBSET U /\ AnyOf(s) \in s
        BY <3>2, AnyIsIn
      <4>2. Cardinality(r) = Cardinality(s) - 1
        BY <1>2, <4>1, FS_RemoveElement
      <4>3. Cardinality(r) <= n - 1
        BY <1>2, <2>1, <2>3, <4>2
      <4>4. f[r] = Step(f, w, r)
        BY <2>2, <4>1, <4>3
      <4>5. g[r] = f[r]
        BY <4>1, <4>4
      <4>6. g[s] = w[AnyOf(s)] + f[r]
        BY <3>2 DEF Step
      <4> HIDE DEF g, r
      <4> QED
        BY <3>2, <4>5, <4>6 DEF Step, r
    <3> QED
      BY <3>1, <3>2
  <2> HIDE DEF g
  <2>4. Upto(g, n)
    BY <2>3
  <2> QED
    BY <2>4
<1>5. PICK f : Upto(f, N)
  <2>1. Wrong \subseteq 0 .. N
    OBVIOUS
  <2>2. Wrong = {}
    <3> HIDE DEF Wrong
    <3> QED
      BY <1>1, <1>3, <1>4, <2>1, NoLeastWrong
  <2> QED
    BY <1>1, <2>2
<1>6. \A s \in SUBSET U : f[s] = Step(f, w, s)
  BY <1>1, <1>2, <1>5
<1> DEFINE g == [s \in SUBSET U |-> f[s]]
<1>7. ASSUME NEW s \in SUBSET U PROVE g[s] = Step(g, w, s)
  <2>1. s \ {AnyOf(s)} \in SUBSET U
    OBVIOUS
  <2>2. g[s \ {AnyOf(s)}] = f[s \ {AnyOf(s)}] /\ g[s] = f[s]
    BY <2>1
  <2> QED
    BY <1>6, <2>2 DEF Step
<1>8. g = [s \in SUBSET U |-> Step(g, w, s)]
  <2>1. g = [s \in SUBSET U |-> g[s]]
    OBVIOUS
  <2> HIDE DEF g
  <2> QED
    BY <1>7, <2>1
<1> QED
  BY <1>8 DEF Adds

\* Two solutions agree on the sets they share.
LEMMA AddsAgree ==
    ASSUME NEW U, NEW V, NEW S, IsFiniteSet(S), S \subseteq U, S \subseteq V,
           NEW w, NEW f, NEW g, Adds(f, w, U), Adds(g, w, V)
    PROVE  f[S] = g[S]
<1> DEFINE Wrong == {s \in SUBSET S : f[s] # g[s]}
<1>1. ASSUME NEW s \in Wrong PROVE \E t \in s : s \ {t} \in Wrong
  <2>1. /\ s \in SUBSET S /\ f[s] # g[s]
        /\ f[s] = Step(f, w, s) /\ g[s] = Step(g, w, s)
    BY DEF Adds
  <2>2. s # {}
    BY <2>1 DEF Step
  <2>3. AnyOf(s) \in s
    BY <2>2, AnyIsIn
  <2>4. f[s \ {AnyOf(s)}] # g[s \ {AnyOf(s)}]
    BY <2>1, <2>2, <2>3 DEF Step
  <2> QED
    BY <2>1, <2>3, <2>4
<1>2. Wrong = {}
  <2>1. Wrong \subseteq SUBSET S
    OBVIOUS
  <2> HIDE DEF Wrong
  <2> QED
    BY <1>1, <2>1, NoSmallestWrong
<1> QED
  BY <1>2

\* A sum is a number.
LEMMA AddsNat ==
    ASSUME NEW U, IsFiniteSet(U), NEW w, \A t \in U : w[t] \in Nat, NEW f, Adds(f, w, U)
    PROVE  \A s \in SUBSET U : f[s] \in Nat
<1> DEFINE Wrong == {s \in SUBSET U : f[s] \notin Nat}
<1>1. ASSUME NEW s \in Wrong PROVE \E t \in s : s \ {t} \in Wrong
  <2>1. s \in SUBSET U /\ f[s] \notin Nat /\ f[s] = Step(f, w, s)
    BY DEF Adds
  <2>2. s # {}
    BY <2>1 DEF Step
  <2>3. AnyOf(s) \in s
    BY <2>2, AnyIsIn
  <2>4. f[s \ {AnyOf(s)}] \notin Nat
    BY <2>1, <2>2, <2>3 DEF Step
  <2> QED
    BY <2>1, <2>3, <2>4
<1>2. Wrong = {}
  <2>1. Wrong \subseteq SUBSET U
    OBVIOUS
  <2> HIDE DEF Wrong
  <2> QED
    BY <1>1, <2>1, NoSmallestWrong
<1> QED
  BY <1>2

\* Any element may be taken first.
LEMMA AddsAny ==
    ASSUME NEW U, IsFiniteSet(U), NEW w, \A t \in U : w[t] \in Nat, NEW f, Adds(f, w, U)
    PROVE  \A s \in SUBSET U : \A t \in s : f[s] = w[t] + f[s \ {t}]
<1> DEFINE Right(s) == \A t \in s : f[s] = w[t] + f[s \ {t}]
           Wrong == {s \in SUBSET U : ~Right(s)}
<1>0. \A s \in SUBSET U : f[s] \in Nat /\ f[s] = Step(f, w, s)
  BY AddsNat DEF Adds
<1>1. ASSUME NEW s \in Wrong PROVE \E t \in s : s \ {t} \in Wrong
  <2> DEFINE c == AnyOf(s)
  <2>1. s \in SUBSET U /\ ~Right(s)
    OBVIOUS
  <2>2. PICK t \in s : f[s] # w[t] + f[s \ {t}]
    BY <2>1
  <2>3. c \in s /\ f[s] = w[c] + f[s \ {c}]
    BY <1>0, <2>1, <2>2, AnyIsIn DEF Step
  <2>4. SUFFICES ASSUME Right(s \ {c}), Right(s \ {t}) PROVE FALSE
    <3>1. s \ {c} \in SUBSET U /\ s \ {t} \in SUBSET U
      BY <2>1
    <3> HIDE DEF Right, c
    <3> QED
      BY <2>2, <2>3, <3>1
  <2>5. t # c
    BY <2>2, <2>3
  <2>6. /\ f[s \ {c}] = w[t] + f[(s \ {c}) \ {t}]
        /\ f[s \ {t}] = w[c] + f[(s \ {t}) \ {c}]
    <3> HIDE DEF c
    <3> QED
      BY <2>2, <2>3, <2>4, <2>5
  <2>7. (s \ {c}) \ {t} = (s \ {t}) \ {c}
    OBVIOUS
  <2> DEFINE r == f[(s \ {c}) \ {t}]
  <2>8. r \in Nat /\ w[t] \in Nat /\ w[c] \in Nat
    <3>1. (s \ {c}) \ {t} \in SUBSET U
      BY <2>1
    <3> HIDE DEF c
    <3> QED
      BY <1>0, <2>1, <2>2, <2>3, <3>1
  <2>9. f[s \ {c}] = w[t] + r /\ f[s \ {t}] = w[c] + r
    BY <2>6, <2>7
  <2> HIDE DEF r, c
  <2> QED
    BY <2>2, <2>3, <2>8, <2>9
<1>2. Wrong = {}
  <2>1. Wrong \subseteq SUBSET U
    OBVIOUS
  <2> HIDE DEF Wrong
  <2> QED
    BY <1>1, <2>1, NoSmallestWrong
<1> QED
  BY <1>2

\* That function exists for a finite set (no recursion theorem is available here).
LEMMA SumSolved ==
    ASSUME NEW S, IsFiniteSet(S), NEW w
    PROVE  \E f : Adds(f, w, S) /\ SumOf(w, S) = f[S]
<1>1. \E f : Adds(f, w, S)
  BY AddsExists
<1>2. Adds(CHOOSE f : Adds(f, w, S), w, S)
  BY <1>1
<1> QED
  BY <1>2, SumIsFold

\* Nothing sums to 0.
LEMMA SumEmpty ==
    ASSUME NEW w PROVE SumOf(w, {}) = 0
<1>1. PICK f : Adds(f, w, {}) /\ SumOf(w, {}) = f[{}]
  BY SumSolved, FS_EmptySet
<1> QED
  BY <1>1 DEF Adds, Step

\* A sum of numbers is a number.
LEMMA SumNat ==
    ASSUME NEW S, IsFiniteSet(S), NEW w, \A t \in S : w[t] \in Nat
    PROVE  SumOf(w, S) \in Nat
<1>1. PICK f : Adds(f, w, S) /\ SumOf(w, S) = f[S]
  BY SumSolved
<1> QED
  BY <1>1, AddsNat

\* Only the weights in the set count.
LEMMA SumAgrees ==
    ASSUME NEW S, IsFiniteSet(S), NEW w, NEW v, \A t \in S : w[t] = v[t]
    PROVE  SumOf(w, S) = SumOf(v, S)
<1>1. PICK f : Adds(f, w, S) /\ SumOf(w, S) = f[S]
  BY SumSolved
<1>2. PICK g : Adds(g, v, S) /\ SumOf(v, S) = g[S]
  BY SumSolved
<1>3. Adds(f, v, S)
  <2>1. ASSUME NEW s \in SUBSET S PROVE Step(f, w, s) = Step(f, v, s)
    <3>1. CASE s = {}
      BY <3>1 DEF Step
    <3>2. CASE s # {}
      BY <3>2, AnyIsIn DEF Step
    <3> QED
      BY <3>1, <3>2
  <2>2. f = [s \in SUBSET S |-> Step(f, w, s)]
    BY <1>1 DEF Adds
  <2>3. f = [s \in SUBSET S |-> Step(f, v, s)]
    <3> HIDE DEF Step
    <3> QED
      BY <2>1, <2>2
  <2> QED
    BY <2>3 DEF Adds
<1>4. f[S] = g[S]
  <2>1. S \subseteq S
    OBVIOUS
  <2> QED
    BY <1>2, <1>3, <2>1, AddsAgree
<1> QED
  BY <1>1, <1>2, <1>4

\* One element more adds its weight.
LEMMA SumAdds ==
    ASSUME NEW S, IsFiniteSet(S), NEW w, NEW t, t \notin S,
           w[t] \in Nat, \A u \in S : w[u] \in Nat
    PROVE  SumOf(w, S \cup {t}) = w[t] + SumOf(w, S)
<1> DEFINE T == S \cup {t}
<1>1. IsFiniteSet(T) /\ t \in T /\ T \ {t} = S /\ \A u \in T : w[u] \in Nat
  BY FS_AddElement
<1> HIDE DEF T
<1>2. PICK f : Adds(f, w, T) /\ SumOf(w, T) = f[T]
  BY <1>1, SumSolved
<1>3. PICK g : Adds(g, w, S) /\ SumOf(w, S) = g[S]
  BY SumSolved
<1>4. f[T] = w[t] + f[T \ {t}]
  BY <1>1, <1>2, AddsAny
<1>5. f[S] = g[S]
  <2>1. S \subseteq T
    BY <1>1
  <2> QED
    BY <1>2, <1>3, <2>1, AddsAgree
<1> QED
  BY <1>1, <1>2, <1>3, <1>4, <1>5 DEF T

\* A sum over two sets that share nothing is two sums.
LEMMA SumSplits ==
    ASSUME NEW A, IsFiniteSet(A), NEW B, IsFiniteSet(B), A \cap B = {},
           NEW w, \A t \in A \cup B : w[t] \in Nat
    PROVE  SumOf(w, A \cup B) = SumOf(w, A) + SumOf(w, B)
<1> DEFINE Wrong == {s \in SUBSET B : SumOf(w, A \cup s) # SumOf(w, A) + SumOf(w, s)}
<1>1. ASSUME NEW s \in Wrong PROVE \E t \in s : s \ {t} \in Wrong
  <2>1. s \in SUBSET B /\ SumOf(w, A \cup s) # SumOf(w, A) + SumOf(w, s)
    OBVIOUS
  <2>2. s # {}
    <3>1. SumOf(w, A) \in Nat
      BY SumNat
    <3>2. A \cup {} = A
      OBVIOUS
    <3> QED
      BY <2>1, <3>1, <3>2, SumEmpty
  <2>3. PICK t : t \in s
    BY <2>2
  <2> DEFINE r == s \ {t}
  <2>4. /\ r \in SUBSET B /\ IsFiniteSet(r) /\ t \notin r /\ r \cup {t} = s
        /\ t \notin A \cup r /\ (A \cup r) \cup {t} = A \cup s
    <3>1. IsFiniteSet(s)
      BY <2>1, FS_Subset
    <3>2. IsFiniteSet(r)
      BY <3>1, FS_RemoveElement
    <3> QED
      BY <2>1, <2>3, <3>2
  <2> HIDE DEF r
  <2>5. IsFiniteSet(A \cup r) /\ w[t] \in Nat /\ \A u \in A \cup r : w[u] \in Nat
    <3>1. IsFiniteSet(A \cup r)
      BY <2>4, FS_Union
    <3> QED
      BY <2>1, <2>3, <2>4, <3>1
  <2>6. SumOf(w, s) = w[t] + SumOf(w, r)
    <3>1. SumOf(w, r \cup {t}) = w[t] + SumOf(w, r)
      BY <2>4, <2>5, SumAdds
    <3> QED
      BY <2>4, <3>1
  <2>7. SumOf(w, A \cup s) = w[t] + SumOf(w, A \cup r)
    <3>1. SumOf(w, (A \cup r) \cup {t}) = w[t] + SumOf(w, A \cup r)
      BY <2>4, <2>5, SumAdds
    <3> QED
      BY <2>4, <3>1
  <2>8. SumOf(w, A) \in Nat /\ SumOf(w, r) \in Nat /\ SumOf(w, A \cup r) \in Nat
    BY <2>4, <2>5, SumNat
  <2>9. SumOf(w, A \cup r) # SumOf(w, A) + SumOf(w, r)
    BY <2>1, <2>5, <2>6, <2>7, <2>8
  <2>10. r \in Wrong
    BY <2>4, <2>9
  <2> QED
    BY <2>3, <2>10 DEF r
<1>2. Wrong = {}
  <2>1. Wrong \subseteq SUBSET B
    OBVIOUS
  <2> HIDE DEF Wrong
  <2> QED
    BY <1>1, <2>1, NoSmallestWrong
<1> QED
  BY <1>2

\* A part weighs no more than the whole.
LEMMA SumOfPart ==
    ASSUME NEW T, IsFiniteSet(T), NEW S, S \subseteq T, NEW w, \A t \in T : w[t] \in Nat
    PROVE  SumOf(w, S) <= SumOf(w, T)
<1> DEFINE R == T \ S
<1>1. IsFiniteSet(S) /\ IsFiniteSet(R)
  BY FS_Subset
<1>2. S \cap R = {} /\ S \cup R = T
  OBVIOUS
<1> HIDE DEF R
<1>3. SumOf(w, T) = SumOf(w, S) + SumOf(w, R)
  <2>1. SumOf(w, S \cup R) = SumOf(w, S) + SumOf(w, R)
    BY <1>1, <1>2, SumSplits
  <2> QED
    BY <1>2, <2>1
<1>4. SumOf(w, S) \in Nat /\ SumOf(w, R) \in Nat
  BY <1>1, <1>2, SumNat
<1> QED
  BY <1>3, <1>4

\* The sum of one weight.
LEMMA SumOne ==
    ASSUME NEW t, NEW w, w[t] \in Nat
    PROVE  SumOf(w, {t}) = w[t]
<1>1. IsFiniteSet({}) /\ {} \cup {t} = {t}
  BY FS_EmptySet
<1>2. SumOf(w, {} \cup {t}) = w[t] + SumOf(w, {})
  BY <1>1, SumAdds
<1> QED
  BY <1>1, <1>2, SumEmpty

-----------------------------------------------------------------------------
(* The operators of the budget.                                            *)

\* What threads ask for adds up.
LEMMA SumIs ==
    ASSUME NEW S PROVE Sum(S) = SumOf(want, S)
BY DEF Sum, SumOf

\* Every set of threads is finite.
LEMMA Finite == \A S \in SUBSET Thread : IsFiniteSet(S) /\ Cardinality(S) \in Nat
<1>1. IsFiniteSet(Thread)
  BY BudgetConstants DEF BudgetConstants
<1>2. ASSUME NEW S \in SUBSET Thread PROVE IsFiniteSet(S) /\ Cardinality(S) \in Nat
  <2>1. IsFiniteSet(S)
    BY <1>1, FS_Subset
  <2> QED
    BY <2>1, FS_CardinalityType
<1> QED
  BY <1>2

\* There is at most one other process.
LEMMA OneOther ==
    ASSUME NEW p \in Proc, NEW q \in Proc, NEW r \in Proc, q # p, r # p
    PROVE  q = r
<1> SUFFICES ASSUME q # r PROVE FALSE
  OBVIOUS
<1>1. IsFiniteSet(Proc) /\ Cardinality(Proc) <= 2
  BY BudgetConstants DEF BudgetConstants
<1>2. IsFiniteSet({p}) /\ Cardinality({p}) = 1
  BY FS_Singleton
<1>3. IsFiniteSet({p} \cup {q}) /\ Cardinality({p} \cup {q}) = 2
  BY <1>2, FS_AddElement
<1>4. IsFiniteSet(({p} \cup {q}) \cup {r}) /\ Cardinality(({p} \cup {q}) \cup {r}) = 3
  BY <1>3, FS_AddElement
<1>5. Cardinality(({p} \cup {q}) \cup {r}) <= Cardinality(Proc)
  <2>1. (({p} \cup {q}) \cup {r}) \in SUBSET Proc
    OBVIOUS
  <2> QED
    BY <1>1, <2>1, FS_Subset
<1>6. Cardinality(Proc) \in Nat
  BY <1>1, FS_CardinalityType
<1> QED
  BY <1>1, <1>4, <1>5, <1>6

Locked(p) == {q \in Proc \ {p} : file[q].there /\ file[q].locker # None}

\* A scan counts nothing, or the one foreign file.
LEMMA ExternalIs ==
    ASSUME NEW p \in Proc, \A q \in Proc : file[q].stamp \in Nat
    PROVE  \/ Locked(p) = {} /\ External(p) = 0
           \/ \E q \in Locked(p) : External(p) = file[q].stamp
<1> DEFINE Solves(f, S) ==
             f = [s \in SUBSET S |->
                     IF s = {} THEN 0 ELSE file[AnyOf(s)].stamp + f[s \ {AnyOf(s)}]]
           S == Locked(p)
<1>1. External(p) = (CHOOSE f : Solves(f, S))[S]
  BY DEF External, MapThenSumSet, MapThenFoldSet, AnyOf, Locked
<1>2. CASE S = {}
  <2>1. Solves([s \in SUBSET {} |-> 0], {})
    <3>1. \A s \in SUBSET {} : s = {}
      OBVIOUS
    <3> QED
      BY <3>1
  <2>2. \E f : Solves(f, {})
    BY <2>1
  <2>3. PICK f : Solves(f, {}) /\ External(p) = f[{}]
    <3> HIDE DEF Solves
    <3> QED
      BY <1>1, <1>2, <2>2
  <2>4. f[{}] = 0
    BY <2>3
  <2> QED
    BY <1>2, <2>3, <2>4
<1>3. CASE S # {}
  <2>1. PICK q : q \in S
    BY <1>3
  <2>2. S = {q} /\ q \in Proc
    BY <2>1, OneOther DEF Locked
  <2> DEFINE g == [s \in SUBSET {q} |-> IF s = {} THEN 0 ELSE file[q].stamp]
  <2>3. \A s \in SUBSET {q} : s # {} => s = {q} /\ AnyOf(s) = q /\ s \ {q} = {}
    <3>1. ASSUME NEW s \in SUBSET {q}, s # {} PROVE s = {q} /\ AnyOf(s) = q
      BY <3>1, AnyIsIn
    <3> QED
      BY <3>1
  <2>4. Solves(g, {q})
    <3>1. ASSUME NEW s \in SUBSET {q}
          PROVE  g[s] = IF s = {} THEN 0 ELSE file[AnyOf(s)].stamp + g[s \ {AnyOf(s)}]
      <4>1. CASE s = {}
        BY <4>1
      <4>2. CASE s # {}
        <5>0. s = {q} /\ AnyOf(s) = q /\ s \ {q} = {}
          BY <2>3, <4>2
        <5>1. g[{}] = 0 /\ g[s] = file[q].stamp /\ file[q].stamp \in Nat
          BY <2>2, <5>0
        <5> HIDE DEF g
        <5>2. s \ {AnyOf(s)} = {}
          BY <5>0
        <5> QED
          BY <4>2, <5>0, <5>1, <5>2
      <4> QED
        BY <4>1, <4>2
    <3>2. g = [s \in SUBSET {q} |-> g[s]]
      OBVIOUS
    <3> HIDE DEF g
    <3> QED
      BY <3>1, <3>2
  <2> HIDE DEF g
  <2>5. \E f : Solves(f, {q})
    BY <2>4
  <2>6. PICK f : Solves(f, {q}) /\ External(p) = f[{q}]
    <3> HIDE DEF Solves, S
    <3> QED
      BY <1>1, <2>2, <2>5
  <2>7. f[{}] = 0
    BY <2>6
  <2>8. f[{q}] = file[q].stamp + f[{}]
    <3>1. AnyOf({q}) = q /\ {q} \ {q} = {} /\ {q} \in SUBSET {q} /\ {q} # {}
      BY <2>3
    <3> QED
      BY <2>6, <3>1
  <2> QED
    BY <2>1, <2>2, <2>6, <2>7, <2>8
<1> QED
  BY <1>2, <1>3

-----------------------------------------------------------------------------
(* The queue.                                                              *)

\* Taking the one ticket of t out of the queue leaves the others.
LEMMA TicketGoes ==
    ASSUME NEW q \in Seq(Thread), \A i, j \in DOMAIN q : i # j => q[i] # q[j],
           NEW k \in DOMAIN q
    PROVE  LET r == RemoveAt(q, k)
           IN  /\ r \in Seq(Thread) /\ Len(r) = Len(q) - 1
               /\ {r[i] : i \in DOMAIN r} = {q[i] : i \in DOMAIN q} \ {q[k]}
               /\ \A i, j \in DOMAIN r : i # j => r[i] # r[j]
<1> DEFINE n == Len(q)
           a == SubSeq(q, 1, k - 1)
           b == SubSeq(q, k + 1, n)
           r == RemoveAt(q, k)
<1>1. n \in Nat /\ DOMAIN q = 1 .. n /\ k \in 1 .. n /\ k \in Nat
  OBVIOUS
<1>2. /\ a \in Seq(Thread) /\ Len(a) = k - 1
      /\ \A i \in 1 .. k - 1 : a[i] = q[i]
  <2>1. \A i \in 1 .. k - 1 : q[i] \in Thread
    BY <1>1
  <2> HIDE DEF n
  <2> QED
    BY <1>1, <2>1, SubSeqProperties
<1>3. /\ b \in Seq(Thread) /\ Len(b) = n - k
      /\ \A i \in 1 .. n - k : b[i] = q[i + k]
  <2>1. \A i \in k + 1 .. n : q[i] \in Thread
    BY <1>1
  <2> HIDE DEF n
  <2>2. /\ b \in Seq(Thread) /\ Len(b) = IF k + 1 <= n THEN n - (k + 1) + 1 ELSE 0
        /\ \A i \in 1 .. n - (k + 1) + 1 : b[i] = q[k + 1 + i - 1]
    BY <1>1, <2>1, SubSeqProperties
  <2>3. n - (k + 1) + 1 = n - k
    BY <1>1
  <2>4. \A i \in 1 .. n - k : b[i] = q[i + k]
    <3>1. ASSUME NEW i \in 1 .. n - k PROVE k + 1 + i - 1 = i + k
      BY <1>1
    <3> QED
      BY <2>2, <2>3, <3>1
  <2> QED
    BY <1>1, <2>2, <2>3, <2>4
<1>4. r = a \o b
  BY DEF RemoveAt
<1> HIDE DEF a, b, n, r
<1>C. /\ a \o b \in Seq(Thread) /\ Len(a \o b) = Len(a) + Len(b)
      /\ \A i \in 1 .. Len(a) + Len(b) :
             (a \o b)[i] = IF i <= Len(a) THEN a[i] ELSE b[i - Len(a)]
  <2>1. a \in Seq(Thread) /\ b \in Seq(Thread)
    BY <1>2, <1>3
  <2> QED
    BY ONLY <2>1, ConcatProperties
<1>5. r \in Seq(Thread) /\ Len(r) = n - 1
  BY <1>1, <1>2, <1>3, <1>4, <1>C
<1>6. \A i \in 1 .. n - 1 : r[i] = IF i < k THEN q[i] ELSE q[i + 1]
  <2>1. ASSUME NEW i \in 1 .. n - 1 PROVE r[i] = IF i < k THEN q[i] ELSE q[i + 1]
    <3>1. r[i] = IF i <= k - 1 THEN a[i] ELSE b[i - (k - 1)]
      <4>1. Len(a) + Len(b) = n - 1
        BY <1>1, <1>2, <1>3
      <4> QED
        BY <1>1, <1>2, <1>4, <1>C, <4>1
    <3>2. CASE i < k
      <4>1. i \in 1 .. k - 1 /\ i <= k - 1
        BY <1>1, <3>2
      <4> QED
        BY <1>2, <3>1, <3>2, <4>1
    <3>3. CASE ~(i < k)
      <4>1. i - (k - 1) \in 1 .. n - k /\ ~(i <= k - 1) /\ i - (k - 1) + k = i + 1
        BY <1>1, <3>3
      <4> QED
        BY <1>3, <3>1, <3>3, <4>1
    <3> QED
      BY <3>2, <3>3
  <2> QED
    BY <2>1
<1>7. DOMAIN r = 1 .. n - 1
  BY <1>5
<1>8. {r[i] : i \in DOMAIN r} = {q[i] : i \in DOMAIN q} \ {q[k]}
  <2>1. ASSUME NEW i \in 1 .. n - 1 PROVE r[i] \in {q[j] : j \in DOMAIN q} \ {q[k]}
    <3>1. i \in DOMAIN q /\ i + 1 \in DOMAIN q
      BY <1>1
    <3>2. CASE i < k
      BY <1>1, <1>6, <3>1, <3>2
    <3>3. CASE ~(i < k)
      <4>1. i + 1 # k /\ r[i] = q[i + 1]
        BY <1>1, <1>6, <3>3
      <4> QED
        BY <3>1, <4>1
    <3> QED
      BY <3>2, <3>3
  <2>2. ASSUME NEW j \in DOMAIN q, q[j] # q[k] PROVE \E i \in 1 .. n - 1 : q[j] = r[i]
    <3>1. CASE j < k
      <4>1. j \in 1 .. n - 1
        BY <1>1, <3>1
      <4> QED
        BY <1>6, <3>1, <4>1
    <3>2. CASE j > k
      <4>1. j - 1 \in 1 .. n - 1 /\ ~(j - 1 < k) /\ (j - 1) + 1 = j
        BY <1>1, <3>2
      <4>2. r[j - 1] = q[j]
        BY <1>6, <4>1
      <4> QED
        BY <4>1, <4>2
    <3>3. j # k
      BY <2>2
    <3> QED
      BY <1>1, <3>1, <3>2, <3>3
  <2> QED
    BY <1>7, <2>1, <2>2
<1>9. ASSUME NEW i \in 1 .. n - 1, NEW j \in 1 .. n - 1, i # j PROVE r[i] # r[j]
  <2> DEFINE x == IF i < k THEN i ELSE i + 1
             y == IF j < k THEN j ELSE j + 1
  <2>1. x \in DOMAIN q /\ y \in DOMAIN q /\ x # y
    BY <1>1, <1>9
  <2>2. r[i] = q[x] /\ r[j] = q[y]
    BY <1>6
  <2> HIDE DEF x, y
  <2> QED
    BY <2>1, <2>2
<1> QED
  BY <1>5, <1>7, <1>8, <1>9 DEF r, n

\* A ticket that joins the queue is the last.
LEMMA TicketComes ==
    ASSUME NEW q \in Seq(Thread), \A i, j \in DOMAIN q : i # j => q[i] # q[j],
           NEW t \in Thread, t \notin {q[i] : i \in DOMAIN q}
    PROVE  LET r == Append(q, t)
           IN  /\ r \in Seq(Thread) /\ Len(r) = Len(q) + 1
               /\ {r[i] : i \in DOMAIN r} = {q[i] : i \in DOMAIN q} \cup {t}
               /\ \A i, j \in DOMAIN r : i # j => r[i] # r[j]
<1> DEFINE n == Len(q)
           r == Append(q, t)
<1>1. n \in Nat /\ DOMAIN q = 1 .. n
  OBVIOUS
<1>2. r \in Seq(Thread) /\ Len(r) = n + 1 /\ DOMAIN r = 1 .. n + 1
  OBVIOUS
<1>3. \A i \in 1 .. n : r[i] = q[i]
  OBVIOUS
<1>4. r[n + 1] = t
  OBVIOUS
<1> HIDE DEF n, r
<1>5. \A i \in 1 .. n + 1 : i \in 1 .. n \/ i = n + 1
  BY <1>1
<1>6. {r[i] : i \in DOMAIN r} = {q[i] : i \in DOMAIN q} \cup {t}
  <2>1. ASSUME NEW i \in 1 .. n + 1 PROVE r[i] \in {q[j] : j \in DOMAIN q} \cup {t}
    BY <1>1, <1>3, <1>4, <1>5
  <2>2. \A i \in 1 .. n : i \in 1 .. n + 1
    BY <1>1
  <2>3. n + 1 \in 1 .. n + 1
    BY <1>1
  <2> QED
    BY <1>1, <1>2, <1>3, <1>4, <2>1, <2>2, <2>3
<1>7. ASSUME NEW i \in 1 .. n + 1, NEW j \in 1 .. n + 1, i # j PROVE r[i] # r[j]
  <2>1. \A m \in 1 .. n : r[m] # t
    BY <1>1, <1>3
  <2> QED
    BY <1>1, <1>3, <1>4, <1>5, <1>7, <2>1
<1> QED
  BY <1>2, <1>6, <1>7 DEF r, n

-----------------------------------------------------------------------------
(* What a step leaves alone.                                               *)

LEMMA Subsets ==
    \A p \in Proc : /\ Grants(p) \in SUBSET Thread /\ Queued(p) \in SUBSET Thread
                    /\ InForce \in SUBSET Thread /\ Sighted \in SUBSET Thread
BY DEF Grants, Queued, ThreadsOf, InForce, Sighted

\* What a thread wants is a number of bytes.
LEMMA WantNat ==
    ASSUME TypeOK PROVE \A t \in Thread : want[t] \in Nat
<1>1. Sizes \cup {0} \subseteq Nat
  BY BudgetConstants DEF BudgetConstants
<1>2. \A t \in Thread : want[t] \in Sizes \cup {0}
  BY DEF TypeOK
<1> QED
  BY <1>1, <1>2

\* The files and the descriptors keep their types when files are unlinked.
LEMMA UnlinkedTypes ==
    ASSUME TypeOK, NEW S, Unlinked(S)
    PROVE  /\ file' \in [Proc -> [there : BOOLEAN, locker : Thread \cup {None},
                                  stamp : Sizes \cup {0}]]
           /\ fd' \in [Thread -> {"none", "here", "gone"}]
<1>1. Absent \in [there : BOOLEAN, locker : Thread \cup {None}, stamp : Sizes \cup {0}]
  BY DEF Absent
<1>2. file' = [q \in Proc |-> IF q \in S THEN Absent ELSE file[q]]
  BY DEF Unlinked
<1>3. fd' = [t \in Thread |-> IF Home[t] \in S /\ fd[t] = "here" THEN "gone" ELSE fd[t]]
  BY DEF Unlinked
<1> QED
  BY <1>1, <1>2, <1>3 DEF TypeOK

Advertising == {"opened", "locked", "holding"}

\* Unlinking files nobody has locked, or none, leaves the files in order.
LEMMA FilesKeep ==
    ASSUME MInv, TypeOK',
           UNCHANGED <<file, fd>> \/ \E p \in Proc : Unlinked(Reapable(p)),
           \A t \in Thread : pc[t] \in Advertising \/ pc'[t] \in Advertising =>
                                 pc'[t] = pc[t] /\ want'[t] = want[t]
    PROVE  Files'
<1>1. CASE UNCHANGED <<file, fd>>
  <2>0. file' = file /\ fd' = fd
    BY <1>1
  <2>1. ASSUME NEW q \in Proc, file[q].locker # None
        PROVE  LET t == file[q].locker
               IN  /\ Home[t] = q /\ pc'[t] \in {"locked", "holding"} /\ fd[t] = "here"
                   /\ file[q].stamp \in {0, want'[t]}
    <3>1. file[q].locker \in Thread
      BY <2>1 DEF MInv, TypeOK
    <3> QED
      BY <2>1, <3>1 DEF MInv, Files, FileInOrder, Advertising
  <2>2. ASSUME NEW q \in Proc, NEW t \in ThreadsOf(q)
        PROVE  /\ pc'[t] = "locked" /\ fd[t] = "here" => file[q].locker = t
               /\ pc'[t] = "opened" /\ fd[t] = "here" /\ file[q].locker = None =>
                      file[q].stamp = 0
    BY <2>2 DEF MInv, Files, FileInOrder, Advertising, ThreadsOf
  <2> QED
    BY <2>0, <2>1, <2>2 DEF Files, FileInOrder, ThreadsOf
<1>2. ASSUME NEW p \in Proc, Unlinked(Reapable(p)) PROVE Files'
  <2> DEFINE S == Reapable(p)
  <2>1. /\ \A q \in Proc : file'[q] = IF q \in S THEN Absent ELSE file[q]
        /\ \A t \in Thread :
              fd'[t] = IF Home[t] \in S /\ fd[t] = "here" THEN "gone" ELSE fd[t]
    BY <1>2 DEF Unlinked
  <2>2. \A q \in S : file[q].locker = None
    BY DEF Reapable
  <2> HIDE DEF S
  <2>3. ASSUME NEW q \in Proc, file'[q].locker # None
        PROVE  LET t == file'[q].locker
               IN  /\ Home[t] = q /\ pc'[t] \in {"locked", "holding"} /\ fd'[t] = "here"
                   /\ file'[q].stamp \in {0, want'[t]}
    <3>1. q \notin S /\ file'[q] = file[q]
      BY <2>1, <2>3 DEF Absent
    <3>2. file[q].locker \in Thread
      BY <2>3, <3>1 DEF MInv, TypeOK
    <3>3. Home[file[q].locker] = q
      BY <2>3, <3>1, <3>2 DEF MInv, Files, FileInOrder
    <3>4. fd'[file[q].locker] = fd[file[q].locker]
      BY <2>1, <3>1, <3>2, <3>3
    <3> QED
      BY <2>3, <3>1, <3>2, <3>3, <3>4 DEF MInv, Files, FileInOrder, Advertising
  <2>4. ASSUME NEW q \in Proc, NEW t \in ThreadsOf(q)
        PROVE  /\ pc'[t] = "locked" /\ fd'[t] = "here" => file'[q].locker = t
               /\ pc'[t] = "opened" /\ fd'[t] = "here" /\ file'[q].locker = None =>
                      file'[q].stamp = 0
    <3>0. t \in Thread /\ Home[t] = q
      BY DEF ThreadsOf
    <3>1. CASE q \in S
      <4>1. fd'[t] # "here"
        BY <2>1, <3>0, <3>1
      <4> QED
        BY <4>1
    <3>2. CASE q \notin S
      <4>1. file'[q] = file[q] /\ fd'[t] = fd[t]
        BY <2>1, <3>0, <3>2
      <4> QED
        BY <3>0, <4>1 DEF MInv, Files, FileInOrder, Advertising
    <3> QED
      BY <3>1, <3>2
  <2> QED
    BY <2>3, <2>4 DEF Files, FileInOrder, ThreadsOf
<1> QED
  BY <1>1, <1>2

\* A process whose permits stay as they are stays accounted for.
LEMMA SameBooks ==
    ASSUME MInv, NEW p \in Proc, Grants(p)' = Grants(p), used'[p] = used[p],
           \A t \in Grants(p) : want'[t] = want[t]
    PROVE  /\ used'[p] = SumOf(want', Grants(p)')
           /\ used'[p] > Total => Cardinality(Grants(p)') = 1
<1> DEFINE G == Grants(p)
<1>1. IsFiniteSet(G)
  BY Subsets, Finite
<1>2. used[p] = SumOf(want, G) /\ (used[p] > Total => Cardinality(G) = 1)
  BY DEF MInv, Books, Bound
<1>3. SumOf(want', G) = SumOf(want, G)
  <2>1. \A t \in G : want[t] = want'[t]
    OBVIOUS
  <2> HIDE DEF G
  <2>2. SumOf(want, G) = SumOf(want', G)
    BY <1>1, <2>1, SumAgrees
  <2> QED
    BY <2>2
<1> QED
  BY <1>2, <1>3

\* A process whose waiters stay as they are keeps its queue in order.
LEMMA SameQueue ==
    ASSUME MInv, NEW p \in Proc, Queued(p)' = Queued(p), queue'[p] = queue[p]
    PROVE  /\ {queue'[p][i] : i \in DOMAIN queue'[p]} = Queued(p)'
           /\ Len(queue'[p]) = Cardinality(Queued(p)')
           /\ \A i, j \in DOMAIN queue'[p] : i # j => queue'[p][i] # queue'[p][j]
BY DEF MInv, Waiting, Once

\* Fewer runtimes that saw every other still fit.
LEMMA SightedShrinks ==
    ASSUME MInv, Sighted' \subseteq Sighted, \A t \in Sighted' : want'[t] = want[t]
    PROVE  SightedFit'
<1> DEFINE S == Sighted
           R == Sighted'
<1>1. IsFiniteSet(S) /\ IsFiniteSet(R) /\ Cardinality(S) \in Nat
  <2>1. Sighted \in SUBSET Thread
    BY DEF Sighted, InForce
  <2>2. Sighted' \in SUBSET Thread
    BY <2>1
  <2> QED
    BY <2>1, <2>2, Finite
<1>2. \A t \in S : want[t] \in Nat
  BY WantNat DEF MInv, Sighted, InForce
<1>3. R \subseteq S /\ \A t \in R : want'[t] = want[t]
  OBVIOUS
<1>4. SumOf(want, S) <= Total \/ Cardinality(S) = 1
  BY DEF MInv, SightedFit
<1> HIDE DEF S, R
<1>5. SumOf(want', R) = SumOf(want, R)
  BY <1>1, <1>3, SumAgrees
<1>6. SumOf(want, R) <= SumOf(want, S)
  BY <1>1, <1>2, <1>3, SumOfPart
<1>7. SumOf(want, R) \in Nat /\ SumOf(want, S) \in Nat /\ Total \in Nat
  BY <1>1, <1>2, <1>3, SumNat, BudgetConstants DEF BudgetConstants
<1>8. CASE SumOf(want, S) <= Total
  <2>1. SumOf(want', R) <= Total
    BY <1>5, <1>6, <1>7, <1>8
  <2> QED
    BY <2>1 DEF SightedFit, R
<1>9. CASE Cardinality(S) = 1
  <2>1. PICK x : S = {x}
    BY <1>1, <1>9, FS_Singleton
  <2>2. CASE R = {x}
    <3>1. Cardinality(R) = 1
      BY <1>9, <2>1, <2>2
    <3> QED
      BY <3>1 DEF SightedFit, R
  <2>3. CASE R # {x}
    <3>1. R = {}
      BY <1>3, <2>1, <2>3
    <3>2. SumOf(want', R) = 0
      BY <3>1, SumEmpty
    <3>3. SumOf(want', R) <= Total
      BY <1>7, <3>2
    <3> QED
      BY <3>3 DEF SightedFit, R
  <2> QED
    BY <2>2, <2>3
<1> QED
  BY <1>4, <1>8, <1>9

\* A step that moves no thread in or out of the queue or its permit, and asks for
\* nothing, keeps all but the types and the files.
LEMMA SameGrants ==
    ASSUME MInv, TypeOK', UNCHANGED <<want, queue, used, blind>>,
           \A t \in Thread : \/ pc'[t] = pc[t]
                             \/ pc[t] \in Granted /\ pc'[t] \in Granted
    PROVE  Sized' /\ Books' /\ Bound' /\ Waiting' /\ Once' /\ SightedFit'
<1>0. want' = want /\ queue' = queue /\ used' = used /\ blind' = blind
  OBVIOUS
<1>1. \A t \in Thread : /\ pc'[t] \in Granted <=> pc[t] \in Granted
                        /\ pc'[t] = "queued" <=> pc[t] = "queued"
                        /\ pc'[t] = "freeing" <=> pc[t] = "freeing"
  BY DEF Granted
<1>2. InForce' = InForce /\ Sighted' = Sighted
  BY <1>0, <1>1 DEF InForce, Sighted
<1>3. ASSUME NEW p \in Proc PROVE Grants(p)' = Grants(p) /\ Queued(p)' = Queued(p)
  BY <1>1 DEF Grants, Queued, ThreadsOf
<1>4. Sized'
  BY <1>0, <1>1, <1>2 DEF MInv, Sized
<1>5. Books' /\ Bound'
  BY <1>0, <1>3, SameBooks DEF Books, Bound
<1>6. Waiting' /\ Once'
  BY <1>0, <1>3, SameQueue DEF Waiting, Once
<1>7. SightedFit'
  BY <1>0, <1>2, SightedShrinks
<1> QED
  BY <1>4, <1>5, <1>6, <1>7

\* A step of t leaves a file in order that it does not touch, that t has not locked
\* and that t is not about to lock.
LEMMA SameFile ==
    ASSUME MInv, NEW t \in Thread, NEW q \in Proc, file'[q] = file[q],
           \A u \in ThreadsOf(q) \ {t} : pc'[u] = pc[u] /\ fd'[u] = fd[u]
                                         /\ want'[u] = want[u],
           file[q].locker # t,
           t \in ThreadsOf(q) => fd'[t] # "here" \/ pc'[t] \notin {"locked", "opened"}
    PROVE  FileInOrder(q)'
<1>1. FileInOrder(q)
  BY DEF MInv, Files
<1>2. ASSUME file[q].locker # None
      PROVE  LET u == file[q].locker
             IN  /\ Home[u] = q /\ pc'[u] \in {"locked", "holding"} /\ fd'[u] = "here"
                 /\ file[q].stamp \in {0, want'[u]}
  <2>1. file[q].locker \in ThreadsOf(q) \ {t}
    BY <1>1, <1>2 DEF MInv, TypeOK, FileInOrder, ThreadsOf
  <2> QED
    BY <1>1, <1>2, <2>1 DEF FileInOrder
<1>3. ASSUME NEW u \in ThreadsOf(q)
      PROVE  /\ pc'[u] = "locked" /\ fd'[u] = "here" => file[q].locker = u
             /\ pc'[u] = "opened" /\ fd'[u] = "here" /\ file[q].locker = None =>
                    file[q].stamp = 0
  <2>1. CASE u = t
    BY <2>1
  <2>2. CASE u # t
    BY <1>1, <2>2 DEF FileInOrder
  <2> QED
    BY <2>1, <2>2
<1> QED
  BY <1>2, <1>3 DEF FileInOrder, ThreadsOf

\* A step that touches no clock and neither queues a thread nor takes one out.
LEMMA SameStalls ==
    ASSUME MInv, UNCHANGED <<moved, stall, quiet>>,
           \A t \in Thread : pc'[t] = "queued" <=> pc[t] = "queued"
    PROVE  Stalls'
BY DEF MInv, Stalls

-----------------------------------------------------------------------------
(* The steps.                                                              *)

LEMMA WaitStep ==
    ASSUME MInv, NEW t \in Thread, Wait(t) PROVE MInv'
<1>0. /\ pc[t] = "queued"
      /\ moved[t] \/ stall[t] < Limit
      /\ stall' = [stall EXCEPT ![t] = IF moved[t] THEN 0 ELSE @]
      /\ moved' = [moved EXCEPT ![t] = FALSE]
      /\ Unlinked(Reapable(Home[t]))
      /\ pc' = pc /\ want' = want /\ queue' = queue /\ used' = used
      /\ quiet' = quiet /\ blind' = blind
  BY DEF Wait
<1>1. TypeOK'
  <2>1. stall' \in [Thread -> 0 .. Limit] /\ moved' \in [Thread -> BOOLEAN]
    <3>1. 0 \in 0 .. Limit
      BY BudgetConstants DEF BudgetConstants
    <3> QED
      BY <1>0, <3>1 DEF MInv, TypeOK
  <2> QED
    BY <1>0, <2>1, UnlinkedTypes DEF MInv, TypeOK
<1>2. Sized' /\ Books' /\ Bound' /\ Waiting' /\ Once' /\ SightedFit'
  BY <1>0, <1>1, SameGrants
<1>3. Files'
  <2>1. \E p \in Proc : Unlinked(Reapable(p))
    BY <1>0, BudgetConstants DEF BudgetConstants
  <2> QED
    BY <1>0, <1>1, <2>1, FilesKeep
<1>4. Stalls'
  <2>1. ASSUME NEW u \in Thread
        PROVE  /\ pc[u] # "queued" => stall'[u] = 0
               /\ pc[u] = "queued" /\ ~moved'[u] => stall'[u] <= quiet[Home[u]]
    <3>1. quiet[Home[u]] \in 0 .. Limit /\ stall[u] \in 0 .. Limit
      BY BudgetConstants DEF MInv, TypeOK, BudgetConstants
    <3>2. stall'[u] = IF u = t /\ moved[u] THEN 0 ELSE stall[u]
      BY <1>0 DEF MInv, TypeOK
    <3>3. moved'[u] = IF u = t THEN FALSE ELSE moved[u]
      BY <1>0 DEF MInv, TypeOK
    <3>4. /\ pc[u] # "queued" => stall[u] = 0
          /\ pc[u] = "queued" /\ ~moved[u] => stall[u] <= quiet[Home[u]]
      BY DEF MInv, Stalls
    <3>5. Limit \in Nat
      BY BudgetConstants DEF BudgetConstants
    <3>6. 0 <= quiet[Home[u]]
      BY <3>1, <3>5
    <3> QED
      BY <3>2, <3>3, <3>4, <3>6
  <2> QED
    BY <1>0, <2>1 DEF Stalls
<1> QED
  BY <1>1, <1>2, <1>3, <1>4 DEF MInv

LEMMA OpenFileStep ==
    ASSUME MInv, NEW t \in Thread, OpenFile(t) PROVE MInv'
<1> DEFINE p == Home[t]
<1>0. /\ pc[t] = "granted"
      /\ want' = want /\ queue' = queue /\ moved' = moved /\ stall' = stall
      /\ used' = used /\ quiet' = quiet /\ blind' = blind
  BY DEF OpenFile, waiters
<1>A. p \in Proc /\ t \in ThreadsOf(p)
  BY BudgetConstants DEF BudgetConstants, ThreadsOf
<1>B. \/ /\ file' = [file EXCEPT ![p].there = TRUE, ![p].stamp = 0]
         /\ fd' = [fd EXCEPT ![t] = "here"]
         /\ pc' = [pc EXCEPT ![t] = "opened"]
      \/ /\ fd' = [fd EXCEPT ![t] = "none"] /\ pc' = [pc EXCEPT ![t] = "holding"]
         /\ file' = file
  BY DEF OpenFile, Degraded
<1> HIDE DEF p
<1>C. \A q \in Proc : file[q].locker # t
  BY <1>0, BudgetConstants DEF MInv, Files, FileInOrder, BudgetConstants
<1>D. \A u \in Thread : u # t => pc'[u] = pc[u] /\ fd'[u] = fd[u]
  BY <1>B DEF MInv, TypeOK
<1>E. pc'[t] \in {"opened", "holding"}
  BY <1>B DEF MInv, TypeOK
<1>1. TypeOK'
  <2>1. pc' \in [Thread -> Granted \cup {"idle", "queued", "freeing", "dead"}]
    BY <1>B DEF MInv, TypeOK, Granted
  <2>2. fd' \in [Thread -> {"none", "here", "gone"}]
    BY <1>B DEF MInv, TypeOK
  <2>3. file' \in [Proc -> [there : BOOLEAN, locker : Thread \cup {None},
                            stamp : Sizes \cup {0}]]
    <3>0. file \in [Proc -> [there : BOOLEAN, locker : Thread \cup {None},
                             stamp : Sizes \cup {0}]]
      BY DEF MInv, TypeOK
    <3>1. CASE file' = file
      BY <3>0, <3>1
    <3>2. CASE file' = [file EXCEPT ![p].there = TRUE, ![p].stamp = 0]
      BY <3>0, <3>2
    <3> QED
      BY <1>B, <3>1, <3>2
  <2> QED
    BY <1>0, <2>1, <2>2, <2>3 DEF MInv, TypeOK
<1>2. Sized' /\ Books' /\ Bound' /\ Waiting' /\ Once' /\ SightedFit'
  BY <1>0, <1>1, <1>D, <1>E, SameGrants DEF Granted
<1>3. Stalls'
  BY <1>0, <1>D, <1>E, SameStalls
<1>4. ASSUME NEW q \in Proc PROVE FileInOrder(q)'
  <2>1. \A u \in ThreadsOf(q) \ {t} : pc'[u] = pc[u] /\ fd'[u] = fd[u]
                                      /\ want'[u] = want[u]
    BY <1>0, <1>D DEF ThreadsOf
  <2>2. CASE q # p
    <3>1. file'[q] = file[q]
      BY <1>B, <2>2 DEF MInv, TypeOK
    <3>2. t \notin ThreadsOf(q)
      BY <2>2 DEF p, ThreadsOf
    <3> QED
      BY <1>C, <2>1, <3>1, <3>2, SameFile
  <2>4. CASE fd' = [fd EXCEPT ![t] = "none"] /\ file' = file
    <3>1. fd'[t] = "none" /\ file'[q] = file[q]
      BY <2>4 DEF MInv, TypeOK
    <3> QED
      BY <1>C, <2>1, <3>1, SameFile
  <2>3. CASE q = p /\ file' = [file EXCEPT ![p].there = TRUE, ![p].stamp = 0]
    <3>1. file'[q].locker = file[q].locker /\ file'[q].stamp = 0
      BY <1>A, <2>3 DEF MInv, TypeOK
    <3>2. FileInOrder(q)
      BY DEF MInv, Files
    <3>3. ASSUME file'[q].locker # None
          PROVE  LET u == file'[q].locker
                 IN  /\ Home[u] = q /\ pc'[u] \in {"locked", "holding"}
                     /\ fd'[u] = "here" /\ file'[q].stamp \in {0, want'[u]}
      <4>1. file[q].locker \in Thread \ {t}
        BY <1>C, <3>1, <3>3 DEF MInv, TypeOK
      <4> QED
        BY <1>D, <3>1, <3>2, <3>3, <4>1 DEF FileInOrder
    <3>4. ASSUME NEW u \in ThreadsOf(q)
          PROVE  pc'[u] = "locked" /\ fd'[u] = "here" => file'[q].locker = u
      <4>1. CASE u = t
        BY <1>E, <4>1
      <4>2. CASE u # t
        BY <1>D, <3>1, <3>2, <4>2 DEF FileInOrder, ThreadsOf
      <4> QED
        BY <4>1, <4>2
    <3> QED
      BY <3>1, <3>3, <3>4 DEF FileInOrder, ThreadsOf
  <2> QED
    BY <1>B, <2>2, <2>3, <2>4
<1> QED
  BY <1>1, <1>2, <1>3, <1>4 DEF MInv, Files

LEMMA LockFileStep ==
    ASSUME MInv, NEW t \in Thread, LockFile(t) PROVE MInv'
<1> DEFINE p == Home[t]
<1>0. /\ pc[t] = "opened"
      /\ want' = want /\ queue' = queue /\ moved' = moved /\ stall' = stall
      /\ used' = used /\ quiet' = quiet /\ blind' = blind
  BY DEF LockFile, waiters
<1>A. p \in Proc /\ t \in ThreadsOf(p) /\ t # None
  BY BudgetConstants DEF BudgetConstants, ThreadsOf
<1>B. \/ /\ fd[t] = "here" /\ file[p].locker = None
         /\ file' = [file EXCEPT ![p].locker = t] /\ fd' = fd
         /\ pc' = [pc EXCEPT ![t] = "locked"]
      \/ /\ fd' = [fd EXCEPT ![t] = "none"] /\ pc' = [pc EXCEPT ![t] = "holding"]
         /\ file' = file
      \/ /\ fd[t] = "gone" /\ fd' = fd /\ file' = file
         /\ pc' = [pc EXCEPT ![t] = "locked"]
  BY DEF LockFile, Degraded
<1> HIDE DEF p
<1>C. \A q \in Proc : file[q].locker # t
  BY <1>0, <1>A DEF MInv, Files, FileInOrder
<1>D. \A u \in Thread : u # t => pc'[u] = pc[u] /\ fd'[u] = fd[u]
  BY <1>B DEF MInv, TypeOK
<1>E. pc'[t] \in {"locked", "holding"}
  BY <1>B DEF MInv, TypeOK
<1>1. TypeOK'
  <2>1. pc' \in [Thread -> Granted \cup {"idle", "queued", "freeing", "dead"}]
    BY <1>B DEF MInv, TypeOK, Granted
  <2>2. fd' \in [Thread -> {"none", "here", "gone"}]
    BY <1>B DEF MInv, TypeOK
  <2>3. file' \in [Proc -> [there : BOOLEAN, locker : Thread \cup {None},
                            stamp : Sizes \cup {0}]]
    <3>0. file \in [Proc -> [there : BOOLEAN, locker : Thread \cup {None},
                             stamp : Sizes \cup {0}]]
      BY DEF MInv, TypeOK
    <3>1. CASE file' = file
      BY <3>0, <3>1
    <3>2. CASE file' = [file EXCEPT ![p].locker = t]
      BY <3>0, <3>2
    <3> QED
      BY <1>B, <3>1, <3>2
  <2> QED
    BY <1>0, <2>1, <2>2, <2>3 DEF MInv, TypeOK
<1>2. Sized' /\ Books' /\ Bound' /\ Waiting' /\ Once' /\ SightedFit'
  BY <1>0, <1>1, <1>D, <1>E, SameGrants DEF Granted
<1>3. Stalls'
  BY <1>0, <1>D, <1>E, SameStalls
<1>4. ASSUME NEW q \in Proc PROVE FileInOrder(q)'
  <2>1. \A u \in ThreadsOf(q) \ {t} : pc'[u] = pc[u] /\ fd'[u] = fd[u]
                                      /\ want'[u] = want[u]
    BY <1>0, <1>D DEF ThreadsOf
  <2>2. CASE q # p
    <3>1. file'[q] = file[q]
      BY <1>B, <2>2 DEF MInv, TypeOK
    <3>2. t \notin ThreadsOf(q)
      BY <2>2 DEF p, ThreadsOf
    <3> QED
      BY <1>C, <2>1, <3>1, <3>2, SameFile
  <2>3. CASE file' = file /\ fd'[t] # "here"
    <3>1. file'[q] = file[q]
      BY <2>3
    <3> QED
      BY <1>C, <2>1, <2>3, <3>1, SameFile
  <2>4. CASE /\ q = p /\ fd[t] = "here" /\ file[p].locker = None
             /\ file' = [file EXCEPT ![p].locker = t] /\ fd' = fd
             /\ pc' = [pc EXCEPT ![t] = "locked"]
    <3>1. /\ file'[q].locker = t /\ file'[q].stamp = file[q].stamp
          /\ pc'[t] = "locked" /\ fd'[t] = "here" /\ Home[t] = q
      BY <1>A, <2>4 DEF MInv, TypeOK, p
    <3>2. FileInOrder(q)
      BY DEF MInv, Files
    <3>3. file[q].stamp = 0
      BY <1>0, <1>A, <2>4, <3>2 DEF FileInOrder
    <3>4. ASSUME NEW u \in ThreadsOf(q), u # t
          PROVE  ~(pc'[u] = "locked" /\ fd'[u] = "here")
      <4>1. u # None /\ u \in Thread
        BY BudgetConstants DEF ThreadsOf, BudgetConstants
      <4> QED
        BY <1>D, <2>4, <3>2, <3>4, <4>1 DEF FileInOrder
    <3> QED
      BY <1>A, <3>1, <3>3, <3>4 DEF FileInOrder, ThreadsOf
  <2> QED
    <3>1. CASE fd' = [fd EXCEPT ![t] = "none"] /\ file' = file
      <4>1. fd'[t] = "none"
        BY <3>1 DEF MInv, TypeOK
      <4> QED
        BY <2>3, <3>1, <4>1
    <3>2. CASE fd[t] = "gone" /\ fd' = fd /\ file' = file
      BY <2>3, <3>2
    <3>3. CASE /\ fd[t] = "here" /\ file[p].locker = None
               /\ file' = [file EXCEPT ![p].locker = t] /\ fd' = fd
               /\ pc' = [pc EXCEPT ![t] = "locked"]
      BY <2>2, <2>4, <3>3
    <3> QED
      BY <1>B, <3>1, <3>2, <3>3
<1> QED
  BY <1>1, <1>2, <1>3, <1>4 DEF MInv, Files

LEMMA StampFileStep ==
    ASSUME MInv, NEW t \in Thread, StampFile(t) PROVE MInv'
<1> DEFINE p == Home[t]
<1>0. /\ pc[t] = "locked" /\ pc' = [pc EXCEPT ![t] = "holding"] /\ fd' = fd
      /\ want' = want /\ queue' = queue /\ moved' = moved /\ stall' = stall
      /\ used' = used /\ quiet' = quiet /\ blind' = blind
      /\ file' = IF fd[t] = "here" THEN [file EXCEPT ![p].stamp = want[t]] ELSE file
  BY DEF StampFile, waiters
<1>A. p \in Proc /\ t \in ThreadsOf(p) /\ t # None
  BY BudgetConstants DEF BudgetConstants, ThreadsOf
<1> HIDE DEF p
<1>B. /\ \A u \in Thread : u # t => pc'[u] = pc[u] /\ fd'[u] = fd[u]
      /\ pc'[t] = "holding"
  BY <1>0 DEF MInv, TypeOK
<1>1. TypeOK'
  <2>1. pc' \in [Thread -> Granted \cup {"idle", "queued", "freeing", "dead"}]
    BY <1>0 DEF MInv, TypeOK, Granted
  <2>2. file' \in [Proc -> [there : BOOLEAN, locker : Thread \cup {None},
                            stamp : Sizes \cup {0}]]
    <3>0. file \in [Proc -> [there : BOOLEAN, locker : Thread \cup {None},
                             stamp : Sizes \cup {0}]]
      BY DEF MInv, TypeOK
    <3>1. want[t] \in Sizes \cup {0}
      BY DEF MInv, TypeOK
    <3> QED
      BY <1>0, <3>0, <3>1
  <2> QED
    BY <1>0, <2>1, <2>2 DEF MInv, TypeOK
<1>2. Sized' /\ Books' /\ Bound' /\ Waiting' /\ Once' /\ SightedFit'
  BY <1>0, <1>1, <1>B, SameGrants DEF Granted
<1>3. Stalls'
  BY <1>0, <1>B, SameStalls
<1>4. ASSUME NEW q \in Proc PROVE FileInOrder(q)'
  <2>1. \A u \in ThreadsOf(q) \ {t} : pc'[u] = pc[u] /\ fd'[u] = fd[u]
                                      /\ want'[u] = want[u]
    BY <1>0, <1>B DEF ThreadsOf
  <2>2. CASE fd[t] # "here" \/ q # p
    <3>1. file'[q] = file[q]
      BY <1>0, <2>2 DEF MInv, TypeOK
    <3>2. file[q].locker # t
      BY <1>A, <2>2 DEF MInv, Files, FileInOrder, p
    <3> QED
      BY <1>B, <2>1, <3>1, <3>2, SameFile
  <2>3. CASE q = p /\ fd[t] = "here"
    <3>1. file[q].locker = t
      BY <1>0, <1>A, <2>3 DEF MInv, Files, FileInOrder
    <3>2. file'[q].locker = t /\ file'[q].stamp = want'[t] /\ Home[t] = q /\ fd'[t] = "here"
      BY <1>0, <1>A, <2>3, <3>1 DEF MInv, TypeOK, p
    <3>3. ASSUME NEW u \in ThreadsOf(q), u # t
          PROVE  ~(pc'[u] = "locked" /\ fd'[u] = "here")
      BY <1>0, <1>B, <3>1, <3>3 DEF MInv, Files, FileInOrder, ThreadsOf
    <3> QED
      BY <1>A, <1>B, <3>2, <3>3 DEF FileInOrder, ThreadsOf
  <2> QED
    BY <2>2, <2>3
<1> QED
  BY <1>1, <1>2, <1>3, <1>4 DEF MInv, Files

LEMMA UnlistStep ==
    ASSUME MInv, NEW t \in Thread, Unlist(t) PROVE MInv'
<1> DEFINE p == Home[t]
<1>0. /\ pc[t] = "holding" /\ pc' = [pc EXCEPT ![t] = "leaving"]
      /\ want' = want /\ queue' = queue /\ moved' = moved /\ stall' = stall
      /\ used' = used /\ quiet' = quiet /\ blind' = blind
  BY DEF Unlist, waiters
<1>A. p \in Proc /\ t \in ThreadsOf(p) /\ t # None
  BY BudgetConstants DEF BudgetConstants, ThreadsOf
<1>B. \/ fd[t] = "none" /\ file' = file /\ fd' = fd
      \/ /\ file' = [file EXCEPT ![p] = Absent]
         /\ fd' = [u \in Thread |->
                      IF u = t THEN "none"
                      ELSE IF Home[u] = p /\ fd[u] = "here" THEN "gone" ELSE fd[u]]
  BY DEF Unlist
<1> HIDE DEF p
<1>C. /\ \A u \in Thread : u # t => pc'[u] = pc[u]
      /\ pc'[t] = "leaving"
  BY <1>0 DEF MInv, TypeOK
<1>1. TypeOK'
  <2>1. pc' \in [Thread -> Granted \cup {"idle", "queued", "freeing", "dead"}]
    BY <1>0 DEF MInv, TypeOK, Granted
  <2>2. file' \in [Proc -> [there : BOOLEAN, locker : Thread \cup {None},
                            stamp : Sizes \cup {0}]]
    <3>1. Absent \in [there : BOOLEAN, locker : Thread \cup {None}, stamp : Sizes \cup {0}]
      BY DEF Absent
    <3> QED
      BY <1>B, <3>1 DEF MInv, TypeOK
  <2>3. fd' \in [Thread -> {"none", "here", "gone"}]
    BY <1>B DEF MInv, TypeOK
  <2> QED
    BY <1>0, <2>1, <2>2, <2>3 DEF MInv, TypeOK
<1>2. Sized' /\ Books' /\ Bound' /\ Waiting' /\ Once' /\ SightedFit'
  BY <1>0, <1>1, <1>C, SameGrants DEF Granted
<1>3. Stalls'
  BY <1>0, <1>C, SameStalls
<1>4. ASSUME NEW q \in Proc PROVE FileInOrder(q)'
  <2>1. CASE fd[t] = "none" /\ file' = file /\ fd' = fd
    <3>1. \A u \in ThreadsOf(q) \ {t} : pc'[u] = pc[u] /\ fd'[u] = fd[u]
                                        /\ want'[u] = want[u]
      BY <1>0, <1>C, <2>1 DEF ThreadsOf
    <3>2. file[q].locker # t
      BY <1>A, <2>1 DEF MInv, Files, FileInOrder
    <3> QED
      BY <1>C, <2>1, <3>1, <3>2, SameFile
  <2>2. CASE /\ file' = [file EXCEPT ![p] = Absent]
             /\ fd' = [u \in Thread |->
                          IF u = t THEN "none"
                          ELSE IF Home[u] = p /\ fd[u] = "here" THEN "gone" ELSE fd[u]]
    <3>1. CASE q = p
      <4>1. file'[q].locker = None
        BY <2>2, <3>1 DEF MInv, TypeOK, Absent
      <4>2. \A u \in ThreadsOf(q) : fd'[u] # "here"
        BY <2>2, <3>1 DEF ThreadsOf
      <4> QED
        BY <4>1, <4>2 DEF FileInOrder, ThreadsOf
    <3>2. CASE q # p
      <4>1. file'[q] = file[q] /\ t \notin ThreadsOf(q)
        BY <2>2, <3>2 DEF MInv, TypeOK, ThreadsOf, p
      <4>2. \A u \in ThreadsOf(q) \ {t} : pc'[u] = pc[u] /\ fd'[u] = fd[u]
                                          /\ want'[u] = want[u]
        BY <1>0, <1>C, <2>2, <3>2 DEF ThreadsOf
      <4>3. file[q].locker # t
        BY <1>A, <3>2 DEF MInv, Files, FileInOrder, p
      <4> QED
        BY <4>1, <4>2, <4>3, SameFile
    <3> QED
      BY <3>1, <3>2
  <2> QED
    BY <1>B, <2>1, <2>2
<1> QED
  BY <1>1, <1>2, <1>3, <1>4 DEF MInv, Files

LEMMA TickStep ==
    ASSUME MInv, Tick PROVE MInv'
<1>0. /\ stall' = [t \in Thread |-> IF pc[t] = "queued" THEN Capped(stall[t]) ELSE stall[t]]
      /\ quiet' = [p \in Proc |-> IF Queued(p) = {} THEN quiet[p] ELSE Capped(quiet[p])]
      /\ pc' = pc /\ want' = want /\ queue' = queue /\ used' = used /\ moved' = moved
      /\ file' = file /\ fd' = fd /\ blind' = blind
  BY DEF Tick
<1>A. \A n \in 0 .. Limit : Capped(n) \in 0 .. Limit
  BY BudgetConstants DEF Capped, BudgetConstants
<1>B. \A m, n \in 0 .. Limit : m <= n => Capped(m) <= Capped(n)
  BY BudgetConstants DEF Capped, BudgetConstants
<1>1. TypeOK'
  <2>1. stall' \in [Thread -> 0 .. Limit] /\ quiet' \in [Proc -> 0 .. Limit]
    BY <1>0, <1>A DEF MInv, TypeOK
  <2> QED
    BY <1>0, <2>1 DEF MInv, TypeOK
<1>2. Sized' /\ Books' /\ Bound' /\ Waiting' /\ Once' /\ SightedFit'
  BY <1>0, <1>1, SameGrants
<1>3. Files'
  BY <1>0, <1>1, FilesKeep
<1>4. Stalls'
  <2>1. ASSUME NEW u \in Thread
        PROVE  /\ pc[u] # "queued" => stall'[u] = 0
               /\ pc[u] = "queued" /\ ~moved[u] => stall'[u] <= quiet'[Home[u]]
    <3>1. quiet[Home[u]] \in 0 .. Limit /\ stall[u] \in 0 .. Limit /\ Home[u] \in Proc
      BY BudgetConstants DEF MInv, TypeOK, BudgetConstants
    <3>2. pc[u] # "queued" => stall'[u] = 0
      BY <1>0 DEF MInv, Stalls
    <3>3. ASSUME pc[u] = "queued", ~moved[u] PROVE stall'[u] <= quiet'[Home[u]]
      <4>1. u \in Queued(Home[u])
        BY <3>3 DEF Queued, ThreadsOf
      <4>2. stall'[u] = Capped(stall[u]) /\ quiet'[Home[u]] = Capped(quiet[Home[u]])
        BY <1>0, <3>1, <3>3, <4>1
      <4>3. stall[u] <= quiet[Home[u]]
        BY <3>3 DEF MInv, Stalls
      <4> QED
        BY <1>B, <3>1, <4>2, <4>3
    <3> QED
      BY <3>2, <3>3
  <2> QED
    BY <1>0, <2>1 DEF Stalls
<1> QED
  BY <1>1, <1>2, <1>3, <1>4 DEF MInv

LEMMA Heads ==
    ASSUME NEW t \in Thread
    PROVE  Home[t] \in Proc /\ t \in ThreadsOf(Home[t]) /\ t # None
BY BudgetConstants DEF BudgetConstants, ThreadsOf

\* A runtime that leaves its permit takes its bytes out of the books.
LEMMA ReleaseStep ==
    ASSUME MInv, NEW t \in Thread, Release(t) PROVE MInv'
<1> DEFINE p == Home[t]
<1>0. /\ pc[t] = "leaving" /\ pc' = [pc EXCEPT ![t] = "freeing"]
      /\ used' = [used EXCEPT ![p] = IF @ > want[t] THEN @ - want[t] ELSE 0]
      /\ moved' = [u \in Thread |-> moved[u] \/ u \in Queued(p)]
      /\ quiet' = [quiet EXCEPT ![p] = 0]
      /\ want' = want /\ queue' = queue /\ stall' = stall /\ file' = file /\ fd' = fd
      /\ blind' = blind
  BY DEF Release
<1>A. p \in Proc /\ t \in ThreadsOf(p)
  BY Heads
<1>B. \A u \in Thread : pc'[u] = IF u = t THEN "freeing" ELSE pc[u]
  BY <1>0 DEF MInv, TypeOK
<1>C. used[p] \in Nat /\ want[t] \in Nat /\ used[p] = SumOf(want, Grants(p))
  BY <1>A, WantNat DEF MInv, TypeOK, Books
<1>D. InForce' = InForce /\ Sighted' = Sighted
  BY <1>0, <1>B DEF InForce, Sighted, Granted
<1> HIDE DEF p
<1>1. TypeOK'
  <2>1. pc' \in [Thread -> Granted \cup {"idle", "queued", "freeing", "dead"}]
    BY <1>0 DEF MInv, TypeOK
  <2>2. used' \in [Proc -> Nat]
    <3>1. (IF used[p] > want[t] THEN used[p] - want[t] ELSE 0) \in Nat
      BY <1>C
    <3> QED
      BY <1>0, <3>1 DEF MInv, TypeOK
  <2>3. moved' \in [Thread -> BOOLEAN]
    <3>1. \A u \in Thread : (moved[u] \/ u \in Queued(p)) \in BOOLEAN
      OBVIOUS
    <3> QED
      BY <1>0, <3>1
  <2>4. quiet' \in [Proc -> 0 .. Limit]
    <3>1. 0 \in 0 .. Limit
      BY BudgetConstants DEF BudgetConstants
    <3> QED
      BY <1>0, <3>1 DEF MInv, TypeOK
  <2> QED
    BY <1>0, <2>1, <2>2, <2>3, <2>4 DEF MInv, TypeOK
<1>2. Sized'
  BY <1>0, <1>B, <1>D DEF MInv, Sized
<1>3. ASSUME NEW q \in Proc
      PROVE  /\ used'[q] = SumOf(want', Grants(q)')
             /\ used'[q] > Total => Cardinality(Grants(q)') = 1
  <2>1. CASE q # p
    <3>1. Grants(q)' = Grants(q)
      BY <1>B, <2>1 DEF Grants, ThreadsOf, p
    <3>2. used'[q] = used[q]
      BY <1>0, <2>1 DEF MInv, TypeOK
    <3> QED
      BY <1>0, <3>1, <3>2, SameBooks
  <2>2. CASE q = p
    <3> DEFINE G == Grants(p)
               R == G \ {t}
    <3>1. Grants(q)' = R
      BY <1>B, <2>2 DEF Grants, ThreadsOf, Granted
    <3>2. /\ t \in G /\ IsFiniteSet(G) /\ IsFiniteSet(R) /\ t \notin R /\ R \cup {t} = G
          /\ \A u \in R : want[u] \in Nat
      <4>1. G \in SUBSET Thread /\ R \in SUBSET Thread /\ t \in G
        BY <1>0, <1>A DEF Grants, ThreadsOf, Granted
      <4>2. \A u \in Thread : want[u] \in Nat
        BY WantNat DEF MInv
      <4> HIDE DEF G
      <4> QED
        BY <4>1, <4>2, Finite
    <3>3. used[p] = SumOf(want, G) /\ (used[p] > Total => Cardinality(G) = 1)
      BY <1>A DEF MInv, Books, Bound
    <3>4. used'[p] = IF used[p] > want[t] THEN used[p] - want[t] ELSE 0
      BY <1>0, <1>A DEF MInv, TypeOK
    <3> HIDE DEF G, R
    <3>5. SumOf(want, G) = want[t] + SumOf(want, R)
      <4>1. SumOf(want, R \cup {t}) = want[t] + SumOf(want, R)
        BY <1>C, <3>2, SumAdds
      <4> QED
        BY <3>2, <4>1
    <3>6. SumOf(want, R) \in Nat
      BY <3>2, SumNat
    <3>7. used'[p] = SumOf(want, R)
      BY <1>C, <3>3, <3>4, <3>5, <3>6
    <3>8. ~(used'[p] > Total)
      <4>1. ASSUME used'[p] > Total PROVE FALSE
        <5>1. Cardinality(G) = 1
          BY <1>C, <3>3, <3>5, <3>6, <3>7, <4>1, BudgetConstants DEF BudgetConstants
        <5>2. \E x : G = {x}
          BY <3>2, <5>1, FS_Singleton
        <5>3. R = {}
          BY <3>2, <5>2
        <5>4. used'[p] = 0
          BY <3>7, <5>3, SumEmpty
        <5> QED
          BY <4>1, <5>4, BudgetConstants DEF BudgetConstants
      <4> QED
        BY <4>1
    <3> QED
      BY <1>0, <2>2, <3>1, <3>7, <3>8
  <2> QED
    BY <2>1, <2>2
<1>4. Waiting' /\ Once'
  <2>1. ASSUME NEW q \in Proc PROVE Queued(q)' = Queued(q)
    BY <1>0, <1>B DEF Queued, ThreadsOf
  <2> QED
    BY <1>0, <2>1, SameQueue DEF Waiting, Once
<1>5. Files'
  BY <1>0, <1>1, <1>B, FilesKeep DEF Advertising
<1>6. SightedFit'
  BY <1>0, <1>D, SightedShrinks
<1>7. Stalls'
  <2>1. ASSUME NEW u \in Thread
        PROVE  /\ pc'[u] # "queued" => stall'[u] = 0
               /\ pc'[u] = "queued" /\ ~moved'[u] => stall'[u] <= quiet'[Home[u]]
    <3>1. pc'[u] = "queued" <=> pc[u] = "queued"
      BY <1>0, <1>B
    <3>2. ASSUME pc'[u] = "queued", ~moved'[u] PROVE stall'[u] <= quiet'[Home[u]]
      <4>1. ~moved[u] /\ u \notin Queued(p)
        BY <1>0, <3>2
      <4>2. Home[u] # p
        BY <3>1, <3>2, <4>1 DEF Queued, ThreadsOf
      <4>3. quiet'[Home[u]] = quiet[Home[u]]
        BY <1>0, <4>2, Heads DEF MInv, TypeOK
      <4> QED
        BY <1>0, <3>1, <3>2, <4>1, <4>3 DEF MInv, Stalls
    <3> QED
      BY <1>0, <3>1, <3>2 DEF MInv, Stalls
  <2> QED
    BY <2>1 DEF Stalls
<1>8. Books' /\ Bound'
  BY <1>3 DEF Books, Bound
<1> QED
  BY <1>1, <1>2, <1>4, <1>5, <1>6, <1>7, <1>8 DEF MInv

LEMMA FreedStep ==
    ASSUME MInv, NEW t \in Thread, Freed(t) PROVE MInv'
<1>0. /\ pc[t] = "freeing" /\ pc' = [pc EXCEPT ![t] = "idle"]
      /\ want' = [want EXCEPT ![t] = 0] /\ blind' = blind \ {t}
      /\ queue' = queue /\ moved' = moved /\ stall' = stall /\ used' = used
      /\ file' = file /\ fd' = fd /\ quiet' = quiet
  BY DEF Freed, waiters
<1>B. \A u \in Thread : /\ pc'[u] = IF u = t THEN "idle" ELSE pc[u]
                        /\ want'[u] = IF u = t THEN 0 ELSE want[u]
  BY <1>0 DEF MInv, TypeOK
<1>C. InForce' = InForce \ {t} /\ Sighted' = Sighted \ {t}
  <2>1. InForce' = InForce \ {t}
    BY <1>B DEF InForce, Granted
  <2> QED
    BY <1>0, <2>1 DEF Sighted
<1>1. TypeOK'
  BY <1>0 DEF MInv, TypeOK
<1>2. Sized'
  BY <1>B, <1>C DEF MInv, Sized, InForce
<1>3. ASSUME NEW p \in Proc
      PROVE  /\ Grants(p)' = Grants(p) /\ Queued(p)' = Queued(p)
             /\ \A u \in Grants(p) : want'[u] = want[u]
  <2>1. Grants(p)' = Grants(p) /\ t \notin Grants(p)
    BY <1>0, <1>B DEF Grants, ThreadsOf, Granted
  <2>2. Queued(p)' = Queued(p)
    BY <1>0, <1>B DEF Queued, ThreadsOf
  <2> QED
    BY <1>B, <2>1, <2>2 DEF Grants, ThreadsOf
<1>4. Books' /\ Bound'
  BY <1>0, <1>3, SameBooks DEF Books, Bound
<1>5. Waiting' /\ Once'
  BY <1>0, <1>3, SameQueue DEF Waiting, Once
<1>6. Files'
  BY <1>0, <1>1, <1>B, FilesKeep DEF Advertising
<1>7. SightedFit'
  <2>1. \A u \in Sighted' : want'[u] = want[u]
    BY <1>B, <1>C DEF Sighted, InForce
  <2> QED
    BY <1>C, <2>1, SightedShrinks
<1>8. Stalls'
  BY <1>0, <1>B, SameStalls
<1> QED
  BY <1>1, <1>2, <1>4, <1>5, <1>6, <1>7, <1>8 DEF MInv

LEMMA AcquireStep ==
    ASSUME MInv, NEW t \in Thread, NEW bytes \in Sizes, Acquire(t, bytes) PROVE MInv'
<1> DEFINE p == Home[t]
<1>0. /\ pc[t] = "idle" /\ pc' = [pc EXCEPT ![t] = "queued"]
      /\ want' = [want EXCEPT ![t] = bytes]
      /\ queue' = [queue EXCEPT ![p] = Append(@, t)]
      /\ moved' = moved /\ stall' = stall /\ used' = used
      /\ file' = file /\ fd' = fd /\ quiet' = quiet /\ blind' = blind
  BY DEF Acquire
<1>A. p \in Proc /\ t \in ThreadsOf(p)
  BY Heads
<1>B. \A u \in Thread : /\ pc'[u] = IF u = t THEN "queued" ELSE pc[u]
                        /\ want'[u] = IF u = t THEN bytes ELSE want[u]
  BY <1>0 DEF MInv, TypeOK
<1> HIDE DEF p
<1>C. InForce' = InForce /\ Sighted' = Sighted /\ t \notin InForce
  <2>1. InForce' = InForce /\ t \notin InForce
    BY <1>0, <1>B DEF InForce, Granted
  <2> QED
    BY <1>0, <2>1 DEF Sighted
<1>D. /\ Append(queue[p], t) \in Seq(Thread)
      /\ Len(Append(queue[p], t)) = Len(queue[p]) + 1
      /\ {Append(queue[p], t)[i] : i \in DOMAIN Append(queue[p], t)} = Queued(p) \cup {t}
      /\ \A i, j \in DOMAIN Append(queue[p], t) :
             i # j => Append(queue[p], t)[i] # Append(queue[p], t)[j]
  <2>1. queue[p] \in Seq(Thread)
    BY <1>A DEF MInv, TypeOK
  <2>2. \A i, j \in DOMAIN queue[p] : i # j => queue[p][i] # queue[p][j]
    BY <1>A DEF MInv, Once
  <2>3. {queue[p][i] : i \in DOMAIN queue[p]} = Queued(p)
    BY <1>A DEF MInv, Waiting
  <2>4. t \notin Queued(p)
    BY <1>0 DEF Queued
  <2> QED
    BY <2>1, <2>2, <2>3, <2>4, TicketComes
<1>1. TypeOK'
  <2>1. pc' \in [Thread -> Granted \cup {"idle", "queued", "freeing", "dead"}]
    BY <1>0 DEF MInv, TypeOK
  <2>2. queue' \in [Proc -> Seq(Thread)]
    BY <1>0, <1>D DEF MInv, TypeOK
  <2>3. want' \in [Thread -> Sizes \cup {0}]
    BY <1>0 DEF MInv, TypeOK
  <2> QED
    BY <1>0, <2>1, <2>2, <2>3 DEF MInv, TypeOK
<1>2. Sized'
  BY <1>B, <1>C DEF MInv, Sized
<1>3. Books' /\ Bound'
  <2>1. ASSUME NEW q \in Proc
        PROVE  Grants(q)' = Grants(q) /\ \A u \in Grants(q) : want'[u] = want[u]
    <3>1. Grants(q)' = Grants(q) /\ t \notin Grants(q)
      BY <1>0, <1>B DEF Grants, ThreadsOf, Granted
    <3> QED
      BY <1>B, <3>1 DEF Grants, ThreadsOf
  <2> QED
    BY <1>0, <2>1, SameBooks DEF Books, Bound
<1>4. ASSUME NEW q \in Proc
      PROVE  /\ {queue'[q][i] : i \in DOMAIN queue'[q]} = Queued(q)'
             /\ Len(queue'[q]) = Cardinality(Queued(q)')
             /\ \A i, j \in DOMAIN queue'[q] : i # j => queue'[q][i] # queue'[q][j]
  <2>1. CASE q # p
    <3>1. Queued(q)' = Queued(q) /\ queue'[q] = queue[q]
      BY <1>0, <1>B, <2>1 DEF Queued, ThreadsOf, p, MInv, TypeOK
    <3> QED
      BY <3>1, SameQueue
  <2>2. CASE q = p
    <3>1. Queued(q)' = Queued(p) \cup {t}
      BY <1>A, <1>B, <2>2 DEF Queued, ThreadsOf
    <3>2. queue'[q] = Append(queue[p], t)
      BY <1>0, <1>A, <2>2 DEF MInv, TypeOK
    <3>3. Cardinality(Queued(p) \cup {t}) = Cardinality(Queued(p)) + 1
      <4>1. t \notin Queued(p) /\ IsFiniteSet(Queued(p))
        BY <1>0, <1>A, Subsets, Finite DEF Queued
      <4> QED
        BY <4>1, FS_AddElement
    <3>4. Len(queue[p]) = Cardinality(Queued(p))
      BY <1>A DEF MInv, Waiting
    <3> QED
      BY <1>D, <3>1, <3>2, <3>3, <3>4
  <2> QED
    BY <2>1, <2>2
<1>5. Files'
  BY <1>0, <1>1, <1>B, FilesKeep DEF Advertising
<1>6. SightedFit'
  <2>1. \A u \in Sighted' : want'[u] = want[u]
    BY <1>B, <1>C DEF Sighted, InForce
  <2> QED
    BY <1>C, <2>1, SightedShrinks
<1>7. Stalls'
  <2>1. ASSUME NEW u \in Thread
        PROVE  /\ pc'[u] # "queued" => stall[u] = 0
               /\ pc'[u] = "queued" /\ ~moved[u] => stall[u] <= quiet[Home[u]]
    <3>1. CASE u # t
      BY <1>B, <3>1 DEF MInv, Stalls
    <3>2. CASE u = t
      <4>1. stall[u] = 0 /\ pc'[u] = "queued"
        BY <1>0, <1>B, <3>2 DEF MInv, Stalls
      <4>2. quiet[Home[u]] \in 0 .. Limit /\ Limit \in Nat
        BY Heads, BudgetConstants DEF MInv, TypeOK, BudgetConstants
      <4> QED
        BY <4>1, <4>2
    <3> QED
      BY <3>1, <3>2
  <2> QED
    BY <1>0, <2>1 DEF Stalls
<1>8. Waiting' /\ Once'
  BY <1>4 DEF Waiting, Once
<1> QED
  BY <1>1, <1>2, <1>3, <1>5, <1>6, <1>7, <1>8 DEF MInv

\* A killed process has no permit, no ticket and no lock; its file stays.
LEMMA KillStep ==
    ASSUME MInv, NEW p \in Proc, Kill(p) PROVE MInv'
<1>0. /\ pc' = [t \in Thread |-> IF Home[t] = p THEN "dead" ELSE pc[t]]
      /\ fd' = [t \in Thread |-> IF Home[t] = p THEN "none" ELSE fd[t]]
      /\ file' = [file EXCEPT ![p].locker = None]
      /\ queue' = [queue EXCEPT ![p] = <<>>]
      /\ used' = [used EXCEPT ![p] = 0]
      /\ want' = [t \in Thread |-> IF Home[t] = p THEN 0 ELSE want[t]]
      /\ moved' = [t \in Thread |-> Home[t] # p /\ moved[t]]
      /\ stall' = [t \in Thread |-> IF Home[t] = p THEN 0 ELSE stall[t]]
      /\ quiet' = [quiet EXCEPT ![p] = 0]
      /\ blind' = blind \ ThreadsOf(p)
  BY DEF Kill
<1>C. InForce' = InForce \ ThreadsOf(p) /\ Sighted' = Sighted \ ThreadsOf(p)
  <2>1. InForce' = InForce \ ThreadsOf(p)
    BY <1>0 DEF InForce, Granted, ThreadsOf
  <2> QED
    BY <1>0, <2>1 DEF Sighted
<1>1. TypeOK'
  <2>1. pc' \in [Thread -> Granted \cup {"idle", "queued", "freeing", "dead"}]
    BY <1>0 DEF MInv, TypeOK
  <2>2. want' \in [Thread -> Sizes \cup {0}] /\ fd' \in [Thread -> {"none", "here", "gone"}]
    BY <1>0 DEF MInv, TypeOK
  <2>3. queue' \in [Proc -> Seq(Thread)] /\ used' \in [Proc -> Nat]
    BY <1>0 DEF MInv, TypeOK
  <2>4. moved' \in [Thread -> BOOLEAN]
    <3>1. \A u \in Thread : (Home[u] # p /\ moved[u]) \in BOOLEAN
      OBVIOUS
    <3> QED
      BY <1>0, <3>1
  <2>5. stall' \in [Thread -> 0 .. Limit] /\ quiet' \in [Proc -> 0 .. Limit]
    <3>1. 0 \in 0 .. Limit
      BY BudgetConstants DEF BudgetConstants
    <3> QED
      BY <1>0, <3>1 DEF MInv, TypeOK
  <2>6. file' \in [Proc -> [there : BOOLEAN, locker : Thread \cup {None},
                            stamp : Sizes \cup {0}]]
    <3>1. file \in [Proc -> [there : BOOLEAN, locker : Thread \cup {None},
                             stamp : Sizes \cup {0}]]
      BY DEF MInv, TypeOK
    <3> QED
      BY <1>0, <3>1
  <2>7. blind' \subseteq Thread
    BY <1>0 DEF MInv, TypeOK
  <2> QED
    BY <2>1, <2>2, <2>3, <2>4, <2>5, <2>6, <2>7 DEF TypeOK
<1>2. Sized'
  BY <1>0, <1>C DEF MInv, Sized, InForce, ThreadsOf
<1>3. ASSUME NEW q \in Proc
      PROVE  /\ used'[q] = SumOf(want', Grants(q)')
             /\ used'[q] > Total => Cardinality(Grants(q)') = 1
  <2>1. CASE q # p
    <3>1. Grants(q)' = Grants(q) /\ \A u \in Grants(q) : want'[u] = want[u]
      BY <1>0, <2>1 DEF Grants, ThreadsOf
    <3>2. used'[q] = used[q]
      BY <1>0, <2>1 DEF MInv, TypeOK
    <3> QED
      BY <3>1, <3>2, SameBooks
  <2>2. CASE q = p
    <3>1. Grants(q)' = {}
      BY <1>0, <2>2 DEF Grants, ThreadsOf, Granted
    <3>2. used'[q] = 0
      BY <1>0, <2>2 DEF MInv, TypeOK
    <3>3. ~(0 > Total)
      BY BudgetConstants DEF BudgetConstants
    <3> QED
      BY <3>1, <3>2, <3>3, SumEmpty
  <2> QED
    BY <2>1, <2>2
<1>4. ASSUME NEW q \in Proc
      PROVE  /\ {queue'[q][i] : i \in DOMAIN queue'[q]} = Queued(q)'
             /\ Len(queue'[q]) = Cardinality(Queued(q)')
             /\ \A i, j \in DOMAIN queue'[q] : i # j => queue'[q][i] # queue'[q][j]
  <2>1. CASE q # p
    <3>1. Queued(q)' = Queued(q) /\ queue'[q] = queue[q]
      BY <1>0, <2>1 DEF Queued, ThreadsOf, MInv, TypeOK
    <3> QED
      BY <3>1, SameQueue
  <2>2. CASE q = p
    <3>1. Queued(q)' = {}
      BY <1>0, <2>2 DEF Queued, ThreadsOf
    <3>2. queue'[q] = <<>>
      BY <1>0, <2>2 DEF MInv, TypeOK
    <3> QED
      BY <3>1, <3>2, FS_EmptySet
  <2> QED
    BY <2>1, <2>2
<1>5. ASSUME NEW q \in Proc PROVE FileInOrder(q)'
  <2>1. CASE q = p
    <3>1. file'[q].locker = None
      BY <1>0, <2>1 DEF MInv, TypeOK
    <3>2. \A u \in ThreadsOf(q) : fd'[u] # "here"
      BY <1>0, <2>1 DEF ThreadsOf
    <3> QED
      BY <3>1, <3>2 DEF FileInOrder, ThreadsOf
  <2>2. CASE q # p
    <3>1. file'[q] = file[q]
      BY <1>0, <2>2 DEF MInv, TypeOK
    <3>2. \A u \in ThreadsOf(q) : pc'[u] = pc[u] /\ fd'[u] = fd[u] /\ want'[u] = want[u]
      BY <1>0, <2>2 DEF ThreadsOf
    <3>3. FileInOrder(q)
      BY DEF MInv, Files
    <3>4. file[q].locker # None => file[q].locker \in ThreadsOf(q)
      BY <3>3 DEF MInv, TypeOK, FileInOrder, ThreadsOf
    <3> QED
      BY <3>1, <3>2, <3>3, <3>4 DEF FileInOrder, ThreadsOf
  <2> QED
    BY <2>1, <2>2
<1>6. SightedFit'
  <2>1. \A u \in Sighted' : want'[u] = want[u]
    BY <1>0, <1>C DEF Sighted, InForce, ThreadsOf
  <2> QED
    BY <1>C, <2>1, SightedShrinks
<1>7. Stalls'
  <2>1. ASSUME NEW u \in Thread
        PROVE  /\ pc'[u] # "queued" => stall'[u] = 0
               /\ pc'[u] = "queued" /\ ~moved'[u] => stall'[u] <= quiet'[Home[u]]
    <3>1. CASE Home[u] = p
      BY <1>0, <3>1
    <3>2. CASE Home[u] # p
      <4>1. quiet'[Home[u]] = quiet[Home[u]]
        BY <1>0, <3>2, Heads DEF MInv, TypeOK
      <4> QED
        BY <1>0, <3>2, <4>1 DEF MInv, Stalls
    <3> QED
      BY <3>1, <3>2
  <2> QED
    BY <2>1 DEF Stalls
<1>8. Books' /\ Bound' /\ Waiting' /\ Once' /\ Files'
  BY <1>3, <1>4, <1>5 DEF Books, Bound, Waiting, Once, Files
<1> QED
  BY <1>1, <1>2, <1>6, <1>7, <1>8 DEF MInv

\* Leaving the queue takes out one's own ticket, and those behind move up.
LEMMA Dequeued ==
    ASSUME MInv, NEW t \in Thread, pc[t] = "queued", Dequeue(t), NEW x, x # "queued",
           \A u \in Thread : pc'[u] = IF u = t THEN x ELSE pc[u]
    PROVE  /\ queue' \in [Proc -> Seq(Thread)] /\ moved' \in [Thread -> BOOLEAN]
           /\ stall' \in [Thread -> 0 .. Limit]
           /\ Waiting' /\ Once'
           /\ quiet' = quiet => Stalls'
<1> DEFINE p == Home[t]
           k == Place(t)
           r == RemoveAt(queue[p], k)
<1>0. /\ queue' = [queue EXCEPT ![p] = r]
      /\ moved' = [u \in Thread |-> u # t /\ (moved[u] \/ u \in Behind(t))]
      /\ stall' = [stall EXCEPT ![t] = 0]
  BY DEF Dequeue
<1>A. p \in Proc /\ t \in ThreadsOf(p)
  BY Heads
<1>B. k \in DOMAIN queue[p] /\ queue[p][k] = t
  <2>1. t \in {queue[p][i] : i \in DOMAIN queue[p]}
    BY <1>A DEF MInv, Waiting, Queued
  <2>2. \E i \in DOMAIN queue[p] : queue[p][i] = t
    BY <2>1
  <2> QED
    BY <2>2 DEF Place
<1> HIDE DEF k
<1>C. /\ r \in Seq(Thread) /\ Len(r) = Len(queue[p]) - 1
      /\ {r[i] : i \in DOMAIN r} = Queued(p) \ {t}
      /\ \A i, j \in DOMAIN r : i # j => r[i] # r[j]
  <2>1. queue[p] \in Seq(Thread)
    BY <1>A DEF MInv, TypeOK
  <2>2. \A i, j \in DOMAIN queue[p] : i # j => queue[p][i] # queue[p][j]
    BY <1>A DEF MInv, Once
  <2>3. {queue[p][i] : i \in DOMAIN queue[p]} = Queued(p)
    BY <1>A DEF MInv, Waiting
  <2> DEFINE q == queue[p]
             s == RemoveAt(q, k)
  <2>4. q \in Seq(Thread) /\ k \in DOMAIN q /\ \A i, j \in DOMAIN q : i # j => q[i] # q[j]
    BY <1>B, <2>1, <2>2
  <2>5. q[k] = t /\ {q[i] : i \in DOMAIN q} = Queued(p)
    BY <1>B, <2>3
  <2> HIDE DEF p, q
  <2>6. /\ s \in Seq(Thread) /\ Len(s) = Len(q) - 1
        /\ {s[i] : i \in DOMAIN s} = {q[i] : i \in DOMAIN q} \ {q[k]}
        /\ \A i, j \in DOMAIN s : i # j => s[i] # s[j]
    BY ONLY <2>4, TicketGoes
  <2>7. r = s /\ Len(queue[p]) = Len(q)
    BY DEF q
  <2> HIDE DEF r, s
  <2> QED
    BY <2>5, <2>6, <2>7
<1> HIDE DEF p, r
<1>1. queue' \in [Proc -> Seq(Thread)]
  BY <1>0, <1>C DEF MInv, TypeOK
<1>2. moved' \in [Thread -> BOOLEAN]
  <2>1. \A u \in Thread : (u # t /\ (moved[u] \/ u \in Behind(t))) \in BOOLEAN
    OBVIOUS
  <2> QED
    BY <1>0, <2>1
<1>3. stall' \in [Thread -> 0 .. Limit]
  <2>1. 0 \in 0 .. Limit
    BY BudgetConstants DEF BudgetConstants
  <2> QED
    BY <1>0, <2>1 DEF MInv, TypeOK
<1>4. ASSUME NEW q \in Proc
      PROVE  /\ {queue'[q][i] : i \in DOMAIN queue'[q]} = Queued(q)'
             /\ Len(queue'[q]) = Cardinality(Queued(q)')
             /\ \A i, j \in DOMAIN queue'[q] : i # j => queue'[q][i] # queue'[q][j]
  <2>1. CASE q # p
    <3>1. Queued(q)' = Queued(q) /\ queue'[q] = queue[q]
      BY <1>0, <2>1 DEF Queued, ThreadsOf, p, MInv, TypeOK
    <3> QED
      BY <3>1, SameQueue
  <2>2. CASE q = p
    <3>1. Queued(q)' = Queued(p) \ {t}
      BY <2>2 DEF Queued, ThreadsOf
    <3>2. queue'[q] = r
      BY <1>0, <1>A, <2>2 DEF MInv, TypeOK
    <3>3. Cardinality(Queued(p) \ {t}) = Cardinality(Queued(p)) - 1
      <4>1. t \in Queued(p) /\ IsFiniteSet(Queued(p))
        BY <1>A, Subsets, Finite DEF Queued
      <4> QED
        BY <4>1, FS_RemoveElement
    <3>4. Len(queue[p]) = Cardinality(Queued(p))
      BY <1>A DEF MInv, Waiting
    <3> QED
      BY <1>C, <3>1, <3>2, <3>3, <3>4
  <2> QED
    BY <2>1, <2>2
<1>5. ASSUME quiet' = quiet PROVE Stalls'
  <2>1. ASSUME NEW u \in Thread
        PROVE  /\ pc'[u] # "queued" => stall'[u] = 0
               /\ pc'[u] = "queued" /\ ~moved'[u] => stall'[u] <= quiet'[Home[u]]
    <3>1. CASE u = t
      BY <1>0, <3>1 DEF MInv, TypeOK
    <3>2. CASE u # t
      <4>1. pc'[u] = pc[u] /\ stall'[u] = stall[u] /\ (~moved'[u] => ~moved[u])
        BY <1>0, <3>2 DEF MInv, TypeOK
      <4> QED
        BY <1>5, <4>1 DEF MInv, Stalls
    <3> QED
      BY <3>1, <3>2
  <2> QED
    BY <2>1 DEF Stalls
<1>6. Waiting' /\ Once'
  BY <1>4 DEF Waiting, Once
<1> QED
  BY <1>1, <1>2, <1>3, <1>5, <1>6

LEMMA GiveUpStep ==
    ASSUME MInv, NEW t \in Thread, GiveUp(t) PROVE MInv'
<1>0. /\ pc[t] = "queued" /\ pc' = [pc EXCEPT ![t] = "idle"]
      /\ want' = [want EXCEPT ![t] = 0] /\ Dequeue(t) /\ Unlinked(Reapable(Home[t]))
      /\ used' = used /\ quiet' = quiet /\ blind' = blind
  BY DEF GiveUp
<1>B. \A u \in Thread : /\ pc'[u] = IF u = t THEN "idle" ELSE pc[u]
                        /\ want'[u] = IF u = t THEN 0 ELSE want[u]
  BY <1>0 DEF MInv, TypeOK
<1>C. InForce' = InForce /\ Sighted' = Sighted /\ t \notin InForce
  <2>1. InForce' = InForce /\ t \notin InForce
    BY <1>0, <1>B DEF InForce, Granted
  <2> QED
    BY <1>0, <2>1 DEF Sighted
<1>D. /\ queue' \in [Proc -> Seq(Thread)] /\ moved' \in [Thread -> BOOLEAN]
      /\ stall' \in [Thread -> 0 .. Limit]
      /\ Waiting' /\ Once' /\ Stalls'
  <2>1. "idle" # "queued" /\ \A u \in Thread : pc'[u] = IF u = t THEN "idle" ELSE pc[u]
    BY <1>B
  <2> QED
    BY <1>0, <2>1, Dequeued
<1>1. TypeOK'
  <2>1. pc' \in [Thread -> Granted \cup {"idle", "queued", "freeing", "dead"}]
    BY <1>0 DEF MInv, TypeOK
  <2>2. want' \in [Thread -> Sizes \cup {0}]
    BY <1>0 DEF MInv, TypeOK
  <2> QED
    BY <1>0, <1>D, <2>1, <2>2, UnlinkedTypes DEF MInv, TypeOK
<1>2. Sized'
  BY <1>B, <1>C DEF MInv, Sized
<1>3. Books' /\ Bound'
  <2>1. ASSUME NEW q \in Proc
        PROVE  Grants(q)' = Grants(q) /\ \A u \in Grants(q) : want'[u] = want[u]
    <3>1. Grants(q)' = Grants(q) /\ t \notin Grants(q)
      BY <1>0, <1>B DEF Grants, ThreadsOf, Granted
    <3> QED
      BY <1>B, <3>1 DEF Grants, ThreadsOf
  <2> QED
    BY <1>0, <2>1, SameBooks DEF Books, Bound
<1>4. Files'
  <2>1. \E p \in Proc : Unlinked(Reapable(p))
    BY <1>0, Heads
  <2> QED
    BY <1>0, <1>1, <1>B, <2>1, FilesKeep DEF Advertising
<1>5. SightedFit'
  <2>1. \A u \in Sighted' : want'[u] = want[u]
    BY <1>B, <1>C DEF Sighted, InForce
  <2> QED
    BY <1>C, <2>1, SightedShrinks
<1> QED
  BY <1>1, <1>2, <1>3, <1>4, <1>5, <1>D DEF MInv

\* What a scan counts of the other process is a number.
LEMMA ExternalNat ==
    ASSUME TypeOK, NEW p \in Proc
    PROVE  External(p) \in Nat /\ \A q \in Proc : file[q].stamp \in Nat
<1>1. \A q \in Proc : file[q].stamp \in Nat
  <2>1. Sizes \cup {0} \subseteq Nat
    BY BudgetConstants DEF BudgetConstants
  <2>2. \A q \in Proc : file[q].stamp \in Sizes \cup {0}
    BY DEF TypeOK
  <2> QED
    BY <2>1, <2>2
<1> QED
  BY <1>1, ExternalIs DEF Locked

\* Threads that asked for something and add up to nothing are none.
LEMMA NoneAsked ==
    ASSUME MInv, NEW S \in SUBSET InForce, SumOf(want, S) <= 0
    PROVE  S = {}
<1> SUFFICES ASSUME NEW u \in S PROVE FALSE
  OBVIOUS
<1>1. u \in Thread /\ want[u] \in Sizes
  BY DEF InForce, MInv, Sized
<1>2. IsFiniteSet(S) /\ \A s \in S : want[s] \in Nat
  BY Finite, WantNat DEF InForce, MInv
<1>3. SumOf(want, {u}) <= SumOf(want, S) /\ SumOf(want, {u}) = want[u]
  <2>1. {u} \subseteq S
    OBVIOUS
  <2> QED
    BY <1>2, <2>1, SumOfPart, SumOne
<1>4. want[u] \in Nat /\ want[u] # 0
  BY <1>1, BudgetConstants DEF BudgetConstants
<1>5. SumOf(want, S) \in Nat
  BY <1>2, SumNat
<1> QED
  BY <1>3, <1>4, <1>5

\* The runtimes a process sees elsewhere add up to no more than its scan counts.
LEMMA SeenIsCounted ==
    ASSUME MInv, NEW p \in Proc, NEW S \in SUBSET InForce,
           \A u \in S : Home[u] # p /\ Visible(u)
    PROVE  SumOf(want, S) <= External(p)
<1>0. External(p) \in Nat /\ \A q \in Proc : file[q].stamp \in Nat
  BY ExternalNat DEF MInv
<1>1. \A u \in S : /\ u \in Thread /\ Home[u] \in Locked(p)
                   /\ u = file[Home[u]].locker /\ file[Home[u]].stamp = want[u]
  BY Heads DEF Visible, Locked, InForce
<1>2. CASE S = {}
  BY <1>0, <1>2, SumEmpty
<1>3. CASE S # {}
  <2>1. PICK u : u \in S
    BY <1>3
  <2>2. \A q \in Locked(p) : q = Home[u]
    <3>1. ASSUME NEW q \in Locked(p) PROVE q = Home[u]
      <4>1. q \in Proc /\ q # p /\ Home[u] \in Proc /\ Home[u] # p
        BY <1>1, <2>1 DEF Locked
      <4> QED
        BY <4>1, OneOther
    <3> QED
      BY <3>1
  <2>3. S = {u}
    BY <1>1, <2>1, <2>2
  <2>4. External(p) = file[Home[u]].stamp
    <3>1. Home[u] \in Locked(p)
      BY <1>1, <2>1
    <3> QED
      BY <1>0, <2>2, <3>1, ExternalIs
  <2>5. External(p) = want[u] /\ want[u] \in Nat
    BY <1>0, <1>1, <2>1, <2>4
  <2>6. SumOf(want, S) = want[u]
    BY <2>3, <2>5, SumOne
  <2> QED
    BY <1>0, <2>5, <2>6
<1> QED
  BY <1>2, <1>3

\* A grant that counted every runtime leaves them all within the budget, or is alone.
LEMMA GrantSees ==
    ASSUME MInv, NEW t \in Thread, pc[t] = "queued", Fits(t), Uncounted(t) = {}
    PROVE  want[t] + SumOf(want, InForce) <= Total \/ InForce = {}
<1> DEFINE p == Home[t]
           A == Grants(p)
           B == {u \in InForce : Home[u] # p}
<1>1. InForce = A \cup B /\ A \cap B = {}
  <2>1. \A u \in InForce : Home[u] = p => pc[u] # "freeing"
    BY DEF Uncounted
  <2> QED
    BY <2>1 DEF InForce, Grants, ThreadsOf
<1>2. A \in SUBSET InForce /\ B \in SUBSET InForce
  BY <1>1
<1>3. IsFiniteSet(A) /\ IsFiniteSet(B) /\ \A u \in A \cup B : want[u] \in Nat
  BY <1>2, Finite, WantNat DEF InForce, MInv
<1>4. SumOf(want, B) <= External(p)
  <2>1. \A u \in B : Home[u] # p /\ Visible(u)
    BY DEF Uncounted
  <2> HIDE DEF B, p
  <2> QED
    BY <1>2, <2>1, Heads, SeenIsCounted DEF p
<1>5. used[p] = SumOf(want, A) /\ used[p] \in Nat /\ External(p) \in Nat
  BY Heads, ExternalNat DEF MInv, Books, TypeOK
<1>6. want[t] \in Nat /\ Total \in Nat
  BY WantNat, BudgetConstants DEF MInv, BudgetConstants
<1>7. \/ used[p] + External(p) + want[t] <= Total
      \/ used[p] = 0 /\ External(p) = 0
  BY DEF Fits
<1> HIDE DEF A, B, p
<1>8. SumOf(want, A \cup B) = SumOf(want, A) + SumOf(want, B)
  BY <1>1, <1>3, SumSplits
<1>9. SumOf(want, A) \in Nat /\ SumOf(want, B) \in Nat
  BY <1>3, SumNat
<1>10. CASE used[p] + External(p) + want[t] <= Total
  BY <1>1, <1>4, <1>5, <1>6, <1>8, <1>9, <1>10
<1>11. CASE used[p] = 0 /\ External(p) = 0
  <2>0. SumOf(want, A) <= 0 /\ SumOf(want, B) <= 0
    BY <1>4, <1>5, <1>11
  <2>1. A = {}
    BY <1>2, <2>0, NoneAsked
  <2>2. B = {}
    BY <1>2, <2>0, NoneAsked
  <2> QED
    BY <1>1, <2>1, <2>2
<1> QED
  BY <1>7, <1>10, <1>11

LEMMA GrantStep ==
    ASSUME MInv, NEW t \in Thread, Grant(t) PROVE MInv'
<1> DEFINE p == Home[t]
<1>0. /\ pc[t] = "queued" /\ pc' = [pc EXCEPT ![t] = "granted"] /\ Fits(t)
      /\ used' = [used EXCEPT ![p] = @ + want[t]]
      /\ Dequeue(t) /\ Unlinked(Reapable(p))
      /\ blind' = IF Uncounted(t) # {} THEN blind \cup {t} ELSE blind
      /\ want' = want /\ quiet' = quiet
  BY DEF Grant
<1>A. p \in Proc /\ t \in ThreadsOf(p)
  BY Heads
<1>B. \A u \in Thread : pc'[u] = IF u = t THEN "granted" ELSE pc[u]
  BY <1>0 DEF MInv, TypeOK
<1>C. InForce' = InForce \cup {t} /\ t \notin InForce
  BY <1>0, <1>B DEF InForce, Granted
<1>D. /\ queue' \in [Proc -> Seq(Thread)] /\ moved' \in [Thread -> BOOLEAN]
      /\ stall' \in [Thread -> 0 .. Limit]
      /\ Waiting' /\ Once' /\ Stalls'
  <2>1. "granted" # "queued"
    OBVIOUS
  <2> QED
    BY <1>0, <1>B, <2>1, Dequeued
<1>E. /\ used[p] \in Nat /\ want[t] \in Nat /\ External(p) \in Nat
      /\ Total \in Nat /\ Total > 0
  <2>1. TypeOK
    BY DEF MInv
  <2>2. want[t] \in Nat /\ External(p) \in Nat
    BY <1>A, <2>1, WantNat, ExternalNat
  <2>3. used[p] \in Nat
    BY <1>A, <2>1 DEF TypeOK
  <2>4. Total \in Nat /\ Total > 0
    BY BudgetConstants DEF BudgetConstants
  <2> QED
    BY <2>2, <2>3, <2>4
<1>1. TypeOK'
  <2>1. pc' \in [Thread -> Granted \cup {"idle", "queued", "freeing", "dead"}]
    BY <1>0 DEF MInv, TypeOK, Granted
  <2>2. used' \in [Proc -> Nat]
    <3>1. used[p] + want[t] \in Nat
      BY <1>E
    <3> QED
      BY <1>0, <3>1 DEF MInv, TypeOK
  <2>3. blind' \subseteq Thread
    BY <1>0 DEF MInv, TypeOK
  <2> QED
    BY <1>0, <1>D, <2>1, <2>2, <2>3, UnlinkedTypes DEF MInv, TypeOK
<1>2. Sized'
  BY <1>0, <1>B, <1>C DEF MInv, Sized
<1>3. ASSUME NEW q \in Proc
      PROVE  /\ used'[q] = SumOf(want', Grants(q)')
             /\ used'[q] > Total => Cardinality(Grants(q)') = 1
  <2>1. CASE q # p
    <3>1. Grants(q)' = Grants(q)
      BY <1>B, <2>1 DEF Grants, ThreadsOf
    <3>2. used'[q] = used[q]
      BY <1>0, <2>1 DEF MInv, TypeOK
    <3> QED
      BY <1>0, <3>1, <3>2, SameBooks
  <2>2. CASE q = p
    <3> DEFINE G == Grants(p)
    <3>1. Grants(q)' = G \cup {t}
      BY <1>A, <1>B, <2>2 DEF Grants, ThreadsOf, Granted
    <3>2. /\ t \notin G /\ G \in SUBSET InForce /\ IsFiniteSet(G)
          /\ \A u \in G : want[u] \in Nat
      <4>1. t \notin G /\ G \in SUBSET InForce /\ G \in SUBSET Thread
        BY <1>0 DEF Grants, Granted, InForce, ThreadsOf
      <4>2. \A u \in Thread : want[u] \in Nat
        BY WantNat DEF MInv
      <4> HIDE DEF G
      <4> QED
        BY <4>1, <4>2, Finite
    <3>3. used[p] = SumOf(want, G)
      BY <1>A DEF MInv, Books
    <3>4. used'[p] = used[p] + want[t]
      BY <1>0, <1>A DEF MInv, TypeOK
    <3>5. \/ used[p] + External(p) + want[t] <= Total
          \/ used[p] = 0 /\ External(p) = 0
      BY <1>0 DEF Fits
    <3> HIDE DEF G, p
    <3>6. SumOf(want, G \cup {t}) = want[t] + SumOf(want, G)
      BY <1>E, <3>2, SumAdds
    <3>7. used'[p] = SumOf(want, G \cup {t})
      BY <1>E, <3>3, <3>4, <3>6
    <3>8. ASSUME used'[p] > Total PROVE Cardinality(G \cup {t}) = 1
      <4>1. used[p] = 0
        BY <1>E, <3>4, <3>5, <3>8
      <4>0. SumOf(want, G) <= 0
        BY <3>3, <4>1
      <4>2. G = {}
        BY <3>2, <4>0, NoneAsked
      <4>3. G \cup {t} = {t}
        BY <4>2
      <4> QED
        BY <4>3, FS_Singleton
    <3> QED
      BY <1>0, <2>2, <3>1, <3>7, <3>8
  <2> QED
    BY <2>1, <2>2
<1>4. Files'
  <2>1. \E q \in Proc : Unlinked(Reapable(q))
    BY <1>0, <1>A
  <2> QED
    BY <1>0, <1>1, <1>B, <2>1, FilesKeep DEF Advertising
<1>5. SightedFit'
  <2>1. CASE Uncounted(t) # {}
    <3>1. Sighted' = Sighted
      BY <1>0, <1>C, <2>1 DEF Sighted
    <3> QED
      BY <1>0, <3>1, SightedShrinks
  <2>2. CASE Uncounted(t) = {}
    <3> DEFINE W == InForce \cup {t}
               V == Sighted'
    <3>1. V \subseteq W
      BY <1>C DEF Sighted
    <3>2. /\ IsFiniteSet(InForce) /\ IsFiniteSet(W) /\ IsFiniteSet(V)
          /\ \A u \in W : want[u] \in Nat
      <4>1. InForce \in SUBSET Thread /\ W \in SUBSET Thread
        BY DEF InForce
      <4>2. V \in SUBSET Thread
        BY <3>1, <4>1
      <4>3. \A u \in Thread : want[u] \in Nat
        BY WantNat DEF MInv
      <4> HIDE DEF W, V
      <4> QED
        BY <4>1, <4>2, <4>3, Finite
    <3>3. SumOf(want, W) = want[t] + SumOf(want, InForce)
      BY <1>C, <1>E, <3>2, SumAdds
    <3> HIDE DEF W
    <3>4. SumOf(want, V) <= SumOf(want, W) /\ SumOf(want, V) \in Nat
          /\ SumOf(want, W) \in Nat
      <4> HIDE DEF V
      <4>1. SumOf(want, V) <= SumOf(want, W)
        BY <3>1, <3>2, SumOfPart
      <4>2. \A u \in V : want[u] \in Nat
        BY <3>1, <3>2
      <4> QED
        BY <3>2, <4>1, <4>2, SumNat
    <3>5. want[t] + SumOf(want, InForce) <= Total \/ InForce = {}
      BY <1>0, <2>2, GrantSees
    <3>6. CASE want[t] + SumOf(want, InForce) <= Total
      <4>1. SumOf(want, V) <= Total
        <5> HIDE DEF V
        <5> QED
          BY <1>E, <3>3, <3>4, <3>6
      <4> QED
        BY <1>0, <4>1 DEF SightedFit
    <3>7. CASE InForce = {}
      <4>1. V = {} \/ V = {t}
        BY <3>1, <3>7 DEF W
      <4>2. CASE V = {}
        <5>1. SumOf(want, V) <= Total
          BY <1>E, <4>2, SumEmpty
        <5> QED
          BY <1>0, <5>1 DEF SightedFit
      <4>3. CASE V = {t}
        <5>1. Cardinality(V) = 1
          BY <4>3, FS_Singleton
        <5> QED
          BY <5>1 DEF SightedFit
      <4> QED
        BY <4>1, <4>2, <4>3
    <3> QED
      BY <3>5, <3>6, <3>7
  <2> QED
    BY <2>1, <2>2
<1>6. Books' /\ Bound'
  BY <1>3 DEF Books, Bound
<1> QED
  BY <1>1, <1>2, <1>4, <1>5, <1>6, <1>D DEF MInv

-----------------------------------------------------------------------------
(* The theorems.                                                           *)

LEMMA InitMInv == Init => MInv
<1> SUFFICES ASSUME Init PROVE MInv
  OBVIOUS
<1>1. TypeOK
  <2>1. 0 \in 0 .. Limit
    BY BudgetConstants DEF BudgetConstants
  <2>2. Absent \in [there : BOOLEAN, locker : Thread \cup {None}, stamp : Sizes \cup {0}]
    BY DEF Absent
  <2> QED
    BY <2>1, <2>2 DEF Init, TypeOK
<1>2. InForce = {} /\ Sighted = {}
  BY DEF Init, InForce, Sighted, Granted
<1>3. ASSUME NEW p \in Proc PROVE Grants(p) = {} /\ Queued(p) = {}
  BY DEF Init, Grants, Queued, ThreadsOf, Granted
<1>4. Sized /\ Files /\ Stalls
  BY <1>2 DEF Init, Sized, Files, FileInOrder, Stalls, Absent, ThreadsOf
<1>5. Books /\ Bound
  <2>1. ~(0 > Total)
    BY BudgetConstants DEF BudgetConstants
  <2> QED
    BY <1>3, <2>1, SumEmpty DEF Init, Books, Bound
<1>6. Waiting /\ Once
  <2>1. \A p \in Proc : queue[p] = <<>>
    BY DEF Init
  <2>2. /\ {<<>>[i] : i \in DOMAIN <<>>} = {} /\ Len(<<>>) = 0
        /\ \A i, j \in DOMAIN <<>> : i # j => <<>>[i] # <<>>[j]
    OBVIOUS
  <2>3. Cardinality({}) = 0
    BY FS_EmptySet
  <2> QED
    BY <1>3, <2>1, <2>2, <2>3 DEF Waiting, Once
<1>7. SightedFit
  <2>1. 0 <= Total
    BY BudgetConstants DEF BudgetConstants
  <2> QED
    BY <1>2, <2>1, SumEmpty DEF SightedFit
<1> QED
  BY <1>1, <1>4, <1>5, <1>6, <1>7 DEF MInv

LEMMA NextMInv == MInv /\ [Next]_vars => MInv'
<1> SUFFICES ASSUME MInv, [Next]_vars PROVE MInv'
  OBVIOUS
<1>1. ASSUME NEW t \in Thread, NEW bytes \in Sizes, Acquire(t, bytes) PROVE MInv'
  BY <1>1, AcquireStep
<1>2. ASSUME NEW t \in Thread, Poll(t) PROVE MInv'
  BY <1>2, GrantStep, WaitStep, GiveUpStep DEF Poll
<1>3. ASSUME NEW t \in Thread, Advertise(t) PROVE MInv'
  BY <1>3, OpenFileStep, LockFileStep, StampFileStep DEF Advertise
<1>4. ASSUME NEW t \in Thread, Unlist(t) \/ Release(t) \/ Freed(t) PROVE MInv'
  BY <1>4, UnlistStep, ReleaseStep, FreedStep
<1>5. CASE Tick
  BY <1>5, TickStep
<1>6. ASSUME NEW p \in Proc, Kill(p) PROVE MInv'
  BY <1>6, KillStep
<1>7. CASE UNCHANGED vars
  <2>1. /\ pc' = pc /\ want' = want /\ queue' = queue /\ used' = used /\ moved' = moved
        /\ stall' = stall /\ file' = file /\ fd' = fd /\ quiet' = quiet /\ blind' = blind
    BY <1>7 DEF vars
  <2>2. TypeOK'
    BY <2>1 DEF MInv, TypeOK
  <2>3. Sized' /\ Books' /\ Bound' /\ Waiting' /\ Once' /\ SightedFit'
    BY <2>1, <2>2, SameGrants
  <2>4. Files'
    BY <2>1, <2>2, FilesKeep
  <2>5. Stalls'
    BY <2>1, SameStalls
  <2> QED
    BY <2>2, <2>3, <2>4, <2>5 DEF MInv
<1> QED
  BY <1>1, <1>2, <1>3, <1>4, <1>5, <1>6, <1>7 DEF Next

\* The inductive invariant holds in every reachable state (membudget.rs: acquire,
\* advertise, and the permit's Drop).
THEOREM BudgetInvariant == Spec => []MInv
<1>1. Init => MInv
  BY InitMInv
<1>2. MInv /\ [Next]_vars => MInv'
  BY NextMInv
<1> QED
  BY <1>1, <1>2, PTL DEF Spec

\* Types; no lock file counts for more than a request may take.
THEOREM BudgetTypes == Spec => []TypeOK
<1>1. MInv => TypeOK
  BY DEF MInv
<1> QED
  BY <1>1, BudgetInvariant, PTL

\* The bytes in use are those of the live permits, within the budget or one oversized
\* request's, and the queue is exactly the waiters, each once.
THEOREM AlwaysAccounted == Spec => []Accounted
<1>1. MInv => Accounted
  BY SumIs DEF MInv, Accounted, Books, Bound, Waiting, Grants
<1> QED
  BY <1>1, BudgetInvariant, PTL

\* Without a grant that missed some runtime's memory, the machine's runtimes fit the
\* budget together, or are one.
THEOREM OvercommitsOnlyBlind == Spec => []OvercommitOnlyBlind
<1>1. MInv => OvercommitOnlyBlind
  <2> SUFFICES ASSUME MInv, blind \cap InForce = {}
               PROVE  Sum(InForce) <= Total \/ Cardinality(InForce) = 1
    BY DEF OvercommitOnlyBlind
  <2>1. Sighted = InForce
    BY DEF Sighted
  <2> QED
    BY <2>1, SumIs DEF MInv, SightedFit
<1> QED
  BY <1>1, BudgetInvariant, PTL

\* A scan counts no bytes that no live permit of the other process holds, whatever
\* was killed, dropped or unlinked meanwhile.
THEOREM ScansNeverOvercount == Spec => []ScanNeverOvercounts
<1>1. MInv => ScanNeverOvercounts
  <2> SUFFICES ASSUME MInv, NEW p \in Proc
               PROVE  External(p) <= Sum({t \in Thread : Home[t] # p /\ pc[t] \in Granted})
    BY DEF ScanNeverOvercounts
  <2> DEFINE R == {t \in Thread : Home[t] # p /\ pc[t] \in Granted}
  <2>1. IsFiniteSet(R) /\ (\A t \in R : want[t] \in Nat) /\ Sum(R) = SumOf(want, R)
    BY Finite, WantNat, SumIs DEF MInv
  <2>2. SumOf(want, R) \in Nat
    <3> HIDE DEF R
    <3> QED
      BY <2>1, SumNat
  <2>3. \A q \in Proc : file[q].stamp \in Nat
    BY ExternalNat DEF MInv
  <2>4. CASE Locked(p) = {} /\ External(p) = 0
    BY <2>1, <2>2, <2>4
  <2>5. CASE \E q \in Locked(p) : External(p) = file[q].stamp
    <3>1. PICK q \in Locked(p) : External(p) = file[q].stamp
      BY <2>5
    <3> DEFINE u == file[q].locker
    <3>2. q \in Proc /\ q # p /\ u # None /\ u \in Thread
      BY <3>1 DEF Locked, MInv, TypeOK
    <3>3. Home[u] = q /\ pc[u] \in {"locked", "holding"} /\ file[q].stamp \in {0, want[u]}
      BY <3>2 DEF MInv, Files, FileInOrder
    <3> HIDE DEF u
    <3>4. u \in R
      BY <3>2, <3>3 DEF Granted
    <3>5. want[u] \in Nat /\ SumOf(want, {u}) = want[u] /\ SumOf(want, {u}) <= SumOf(want, R)
      <4>1. {u} \subseteq R /\ want[u] \in Nat
        BY <2>1, <3>4
      <4> HIDE DEF R
      <4> QED
        BY <2>1, <4>1, SumOne, SumOfPart
    <3>6. External(p) <= Sum(R)
      <4> HIDE DEF R
      <4> QED
        BY <2>1, <2>2, <3>1, <3>3, <3>5
    <3> QED
      BY <3>6
  <2> QED
    BY <2>3, <2>4, <2>5, ExternalIs
<1> QED
  BY <1>1, BudgetInvariant, PTL

\* A waiter gives up only when nothing of its process was released for the whole
\* deadline, however long it waited and however often it was woken.
THEOREM GivesUpOnlyQuiet == Spec => GivesUpOnlyWhenQuiet
<1> DEFINE A == \A t \in Thread :
                    pc[t] = "queued" /\ pc'[t] = "idle" => quiet[Home[t]] >= Limit
<1>1. MInv /\ [Next]_vars => A
  <2> SUFFICES ASSUME MInv, [Next]_vars, NEW t \in Thread, pc[t] = "queued", pc'[t] = "idle"
               PROVE  quiet[Home[t]] >= Limit
    OBVIOUS
  <2>1. GiveUp(t)
    <3>1. ASSUME NEW u \in Thread, NEW bytes \in Sizes, Acquire(u, bytes) PROVE FALSE
      BY <3>1 DEF Acquire, MInv, TypeOK
    <3>2. ASSUME NEW u \in Thread, Grant(u) \/ Wait(u) PROVE FALSE
      BY <3>2 DEF Grant, Wait, MInv, TypeOK
    <3>3. ASSUME NEW u \in Thread, GiveUp(u) PROVE u = t
      BY <3>3 DEF GiveUp, MInv, TypeOK
    <3>4. ASSUME NEW u \in Thread, OpenFile(u) PROVE FALSE
      BY <3>4 DEF OpenFile, Degraded, MInv, TypeOK
    <3>5. ASSUME NEW u \in Thread, LockFile(u) PROVE FALSE
      BY <3>5 DEF LockFile, Degraded, MInv, TypeOK
    <3>6. ASSUME NEW u \in Thread, StampFile(u) \/ Unlist(u) \/ Release(u) PROVE FALSE
      BY <3>6 DEF StampFile, Unlist, Release, MInv, TypeOK
    <3>7. ASSUME NEW u \in Thread, Freed(u) PROVE FALSE
      BY <3>7 DEF Freed, MInv, TypeOK
    <3>8. CASE Tick \/ UNCHANGED vars
      BY <3>8 DEF Tick, vars
    <3>9. ASSUME NEW p \in Proc, Kill(p) PROVE FALSE
      BY <3>9 DEF Kill
    <3> QED
      BY <3>1, <3>2, <3>3, <3>4, <3>5, <3>6, <3>7, <3>8, <3>9
         DEF Next, Poll, Advertise
  <2>2. ~moved[t] /\ stall[t] = Limit
    BY <2>1 DEF GiveUp
  <2>3. stall[t] <= quiet[Home[t]]
    BY <2>2 DEF MInv, Stalls
  <2>4. quiet[Home[t]] \in 0 .. Limit /\ Limit \in Nat
    BY Heads, BudgetConstants DEF MInv, TypeOK, BudgetConstants
  <2> QED
    BY <2>2, <2>3, <2>4
<1>2. MInv /\ [Next]_vars => [A]_vars
  BY <1>1
<1> HIDE DEF A
<1>3. Spec => [][A]_vars
  BY <1>2, BudgetInvariant, PTL DEF Spec
<1> QED
  BY <1>3 DEF GivesUpOnlyWhenQuiet, A

=============================================================================
