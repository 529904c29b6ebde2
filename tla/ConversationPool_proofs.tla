------------------------ MODULE ConversationPool_proofs ------------------------
(***************************************************************************)
(* For every mix of prompts and replies, every budget and every failure of *)
(* the disk or the GPU: the pool's counters are the sums of what its tiers *)
(* hold, and within the budgets outside a rebalance; the blobs in the      *)
(* directory are the conversations on disk; and a session or a RAM         *)
(* snapshot names the tokens its KV was computed from, unless a blob was   *)
(* restored under another log than its own.                                *)
(***************************************************************************)
EXTENDS ConversationPool, SequenceTheorems, WellFoundedInduction, TLAPS

-----------------------------------------------------------------------------
(* Induction over a set of numbers, and the sum of a weight.               *)

\* A non-empty set of numbers has a least element.
LEMMA LeastElement ==
    ASSUME NEW D, D \subseteq Nat, D # {}
    PROVE  \E x \in D : \A y \in D : x <= y
<1> DEFINE R == OpToRel(<, Nat)
<1>1. IsWellFoundedOn(R, Nat)
  BY NatLessThanWellFounded
<1>2. \A x, y \in Nat : x < y => <<x, y>> \in R
  BY DEF OpToRel
<1> HIDE DEF R
<1>3. PICK x \in D : \A y \in D : ~ (<<y, x>> \in R)
  BY <1>1, WFMin
<1>4. ASSUME NEW y \in D PROVE x <= y
  <2>1. x \in Nat /\ y \in Nat /\ ~(y < x)
    BY <1>2, <1>3
  <2> QED
    BY <2>1
<1> QED
  BY <1>4

\* Nothing is wrong anywhere that starts right and goes wrong nowhere.
LEMMA NoLeastWrong ==
    ASSUME NEW N \in Nat, NEW Wrong, Wrong \subseteq 0 .. N, 0 \notin Wrong,
           \A n \in 1 .. N : n \in Wrong => n - 1 \in Wrong
    PROVE  Wrong = {}
<1> SUFFICES ASSUME Wrong # {} PROVE FALSE
  OBVIOUS
<1>1. PICK x \in Wrong : \A y \in Wrong : x <= y
  <2>1. Wrong \subseteq Nat
    OBVIOUS
  <2> QED
    BY <2>1, LeastElement
<1>2. x \in 1 .. N /\ ~(x <= x - 1)
  OBVIOUS
<1> QED
  BY <1>1, <1>2

\* f holds the sums of the weights up to each id.
Sums(f, w) ==
    /\ f \in [0 .. MaxConvs -> Nat] /\ f[0] = 0
    /\ \A n \in 1 .. MaxConvs : f[n] = f[n - 1] + w[n]

\* Total's recursion has a solution.
LEMMA SumsExist ==
    ASSUME NEW w \in [Ids -> Nat]
    PROVE  \E f : Sums(f, w) /\ Total(w) = f[MaxConvs]
<1> DEFINE Upto(f, m) == /\ f \in [0 .. m -> Nat] /\ f[0] = 0
                         /\ \A n \in 1 .. m : f[n] = f[n - 1] + w[n]
           Wrong == {m \in 0 .. MaxConvs : ~ \E f : Upto(f, m)}
<1>0. MaxConvs \in Nat
  BY PoolSizes
<1>1. 0 \notin Wrong
  <2> DEFINE f == [n \in 0 .. 0 |-> 0]
  <2>1. f \in [0 .. 0 -> Nat] /\ f[0] = 0
    OBVIOUS
  <2>2. \A n \in 1 .. 0 : f[n] = f[n - 1] + w[n]
    OBVIOUS
  <2> HIDE DEF f
  <2>3. Upto(f, 0)
    BY <2>1, <2>2
  <2> QED
    BY <2>3
<1>2. ASSUME NEW m \in 1 .. MaxConvs, m - 1 \notin Wrong PROVE m \notin Wrong
  <2>0. m - 1 \in 0 .. MaxConvs
    BY <1>0
  <2>1. PICK f : Upto(f, m - 1)
    BY <1>2, <2>0
  <2> DEFINE g == [n \in 0 .. m |-> IF n = m THEN f[m - 1] + w[m] ELSE f[n]]
  <2>2. m \in Nat \ {0} /\ m - 1 \in 0 .. m - 1 /\ w[m] \in Nat
    BY <1>0 DEF Ids
  <2>3. f \in [0 .. m - 1 -> Nat] /\ f[0] = 0 /\ \A n \in 1 .. m - 1 : f[n] = f[n - 1] + w[n]
    BY <2>1
  <2>4. g \in [0 .. m -> Nat] /\ g[0] = 0
    BY <2>2, <2>3
  <2>5. ASSUME NEW n \in 1 .. m PROVE g[n] = g[n - 1] + w[n]
    <3>1. CASE n = m
      BY <2>2, <3>1
    <3>2. CASE n # m
      <4>1. n \in 1 .. m - 1 /\ n - 1 \in 0 .. m /\ n - 1 # m /\ n \in 0 .. m
        BY <2>2, <3>2
      <4> QED
        BY <2>3, <3>2, <4>1
    <3> QED
      BY <3>1, <3>2
  <2> QED
    BY <2>4, <2>5
<1> HIDE DEF Upto
<1>3. Wrong = {}
  <2>1. Wrong \subseteq 0 .. MaxConvs
    OBVIOUS
  <2> HIDE DEF Wrong
  <2> QED
    BY <1>0, <1>1, <1>2, <2>1, NoLeastWrong
<1>4. PICK f : Upto(f, MaxConvs)
  BY <1>0, <1>3
<1>5. Sums(f, w)
  BY <1>4 DEF Upto, Sums
<1> DEFINE Solves(h) == h = [n \in 0 .. MaxConvs |-> IF n = 0 THEN 0 ELSE h[n - 1] + w[n]]
<1>6. Solves(f)
  <2>1. \A n \in 0 .. MaxConvs : n = 0 \/ n \in 1 .. MaxConvs
    BY <1>0
  <2> QED
    BY <1>5, <2>1 DEF Sums
<1> DEFINE s == CHOOSE h : Solves(h)
<1>7. Total(w) = s[MaxConvs]
  BY DEF Total
<1>8. Solves(s)
  <2> HIDE DEF Solves
  <2> QED
    BY <1>6
<1>9. \A n \in 0 .. MaxConvs : s[n] = IF n = 0 THEN 0 ELSE s[n - 1] + w[n]
  BY <1>8
<1> HIDE DEF s
<1>10. s[MaxConvs] = f[MaxConvs]
  <2> DEFINE Apart == {n \in 0 .. MaxConvs : s[n] # f[n]}
  <2>1. 0 \notin Apart
    BY <1>0, <1>5, <1>9 DEF Sums
  <2>2. ASSUME NEW n \in 1 .. MaxConvs, n \in Apart PROVE n - 1 \in Apart
    <3>1. n \in 0 .. MaxConvs /\ n - 1 \in 0 .. MaxConvs /\ n # 0
      BY <1>0
    <3> QED
      BY <1>5, <1>9, <2>2, <3>1 DEF Sums
  <2>3. Apart = {}
    <3>1. Apart \subseteq 0 .. MaxConvs
      OBVIOUS
    <3> HIDE DEF Apart
    <3> QED
      BY <1>0, <2>1, <2>2, <3>1, NoLeastWrong
  <2> QED
    BY <1>0, <2>3
<1> QED
  BY <1>5, <1>7, <1>10

\* A weight that changes at one id changes the total by the difference.
LEMMA TotalChanges ==
    ASSUME NEW w \in [Ids -> Nat], NEW x \in [Ids -> Nat], NEW k \in Ids,
           \A i \in Ids : i # k => x[i] = w[i]
    PROVE  /\ Total(w) \in Nat /\ Total(x) \in Nat /\ w[k] <= Total(w)
           /\ Total(x) = Total(w) - w[k] + x[k]
<1>0. MaxConvs \in Nat /\ k \in Nat \ {0} /\ k <= MaxConvs /\ w[k] \in Nat /\ x[k] \in Nat
  BY PoolSizes DEF Ids
<1>1. PICK f : Sums(f, w) /\ Total(w) = f[MaxConvs]
  BY SumsExist
<1>2. PICK g : Sums(g, x) /\ Total(x) = g[MaxConvs]
  BY SumsExist
<1> DEFINE Right(n) == IF n < k THEN g[n] = f[n] ELSE g[n] = f[n] - w[k] + x[k] /\ w[k] <= f[n]
           Wrong == {n \in 0 .. MaxConvs : ~Right(n)}
<1>3. 0 \notin Wrong
  BY <1>0, <1>1, <1>2 DEF Sums
<1>4. ASSUME NEW n \in 1 .. MaxConvs, Right(n - 1) PROVE Right(n)
  <2>1. /\ f[n] = f[n - 1] + w[n] /\ g[n] = g[n - 1] + x[n] /\ n \in Nat /\ n \in Ids
        /\ f[n - 1] \in Nat /\ g[n - 1] \in Nat /\ w[n] \in Nat /\ x[n] \in Nat
    <3>1. n - 1 \in 0 .. MaxConvs /\ n \in Ids
      BY <1>0 DEF Ids
    <3> QED
      BY <1>0, <1>1, <1>2, <3>1 DEF Sums
  <2>2. CASE n = k
    BY <1>0, <1>4, <2>1, <2>2
  <2>3. CASE n # k
    <3>1. x[n] = w[n]
      BY <2>1, <2>3
    <3> QED
      BY <1>0, <1>4, <2>1, <2>3, <3>1
  <2> QED
    BY <2>2, <2>3
<1>5. Wrong = {}
  <2>1. Wrong \subseteq 0 .. MaxConvs
    OBVIOUS
  <2>2. ASSUME NEW n \in 1 .. MaxConvs, n \in Wrong PROVE n - 1 \in Wrong
    <3>1. n - 1 \in 0 .. MaxConvs
      BY <1>0
    <3> QED
      BY <1>4, <2>2, <3>1
  <2> HIDE DEF Wrong
  <2> QED
    BY <1>0, <1>3, <2>1, <2>2, NoLeastWrong
<1>6. f[MaxConvs] \in Nat /\ g[MaxConvs] \in Nat
  BY <1>0, <1>1, <1>2 DEF Sums
<1>7. Right(MaxConvs)
  BY <1>0, <1>5
<1> QED
  BY <1>0, <1>1, <1>2, <1>6, <1>7

\* The total of a weight that is zero but at one id is its weight there.
LEMMA TotalOfNothing ==
    ASSUME NEW w \in [Ids -> Nat], \A i \in Ids : w[i] = 0
    PROVE  Total(w) = 0
<1>0. MaxConvs \in Nat
  BY PoolSizes
<1>1. PICK f : Sums(f, w) /\ Total(w) = f[MaxConvs]
  BY SumsExist
<1> DEFINE Wrong == {n \in 0 .. MaxConvs : f[n] # 0}
<1>2. 0 \notin Wrong
  BY <1>1 DEF Sums
<1>3. ASSUME NEW n \in 1 .. MaxConvs, n \in Wrong PROVE n - 1 \in Wrong
  <2>1. n \in Ids /\ n - 1 \in 0 .. MaxConvs
    BY <1>0 DEF Ids
  <2>2. f[n] = f[n - 1] + w[n] /\ w[n] = 0 /\ f[n - 1] \in Nat
    BY <1>1, <2>1 DEF Sums
  <2> QED
    BY <1>3, <2>1, <2>2
<1>4. Wrong = {}
  <2>1. Wrong \subseteq 0 .. MaxConvs
    OBVIOUS
  <2> HIDE DEF Wrong
  <2> QED
    BY <1>0, <1>2, <1>3, <2>1, NoLeastWrong
<1> QED
  BY <1>0, <1>1, <1>4

\* One weight that is not 0 is the whole total.
LEMMA TotalOfOne ==
    ASSUME NEW w \in [Ids -> Nat], NEW k \in Ids, \A i \in Ids : i # k => w[i] = 0
    PROVE  Total(w) = w[k]
<1> DEFINE z == [i \in Ids |-> 0]
<1>1. z \in [Ids -> Nat] /\ z[k] = 0 /\ Total(z) = 0
  BY TotalOfNothing
<1>2. \A i \in Ids : i # k => w[i] = z[i]
  OBVIOUS
<1> HIDE DEF z
<1>3. Total(w) = Total(z) - z[k] + w[k] /\ w[k] \in Nat
  BY <1>1, <1>2, TotalChanges
<1> QED
  BY <1>1, <1>3

-----------------------------------------------------------------------------
(* Sequences.                                                              *)

LEMMA FunctionIsSeq ==
    ASSUME NEW S, NEW n \in Nat, NEW f \in [1 .. n -> S]
    PROVE  f \in Seq(S) /\ Len(f) = n
<1>1. f \in Seq(S)
  BY SeqDef
<1>2. Len(f) \in Nat /\ DOMAIN f = 1 .. Len(f)
  BY <1>1, LenProperties
<1> QED
  BY <1>1, <1>2

LEMMA PrefixIs ==
    ASSUME NEW S, NEW s \in Seq(S), NEW n \in 0 .. Len(s)
    PROVE  /\ Prefix(s, n) \in Seq(S) /\ Len(Prefix(s, n)) = n
           /\ \A i \in 1 .. n : Prefix(s, n)[i] = s[i]
<1>1. Len(s) \in Nat /\ n \in Nat /\ \A i \in 1 .. n : i \in 1 .. Len(s)
  BY LenProperties
<1>2. Prefix(s, n) \in [1 .. n -> S]
  BY <1>1, ElementOfSeq DEF Prefix
<1> QED
  BY <1>1, <1>2, FunctionIsSeq DEF Prefix

LEMMA SuffixIs ==
    ASSUME NEW S, NEW s \in Seq(S), NEW n \in 0 .. Len(s)
    PROVE  /\ Suffix(s, n) \in Seq(S) /\ Len(Suffix(s, n)) = Len(s) - n
           /\ \A i \in 1 .. Len(s) - n : Suffix(s, n)[i] = s[n + i]
<1>1. Len(s) \in Nat /\ Len(s) - n \in Nat /\ \A i \in 1 .. Len(s) - n : n + i \in 1 .. Len(s)
  BY LenProperties
<1>2. Suffix(s, n) \in [1 .. Len(s) - n -> S]
  BY <1>1, ElementOfSeq DEF Suffix
<1> QED
  BY <1>1, <1>2, FunctionIsSeq DEF Suffix

\* The common prefix exists, fits both sequences, and they agree on it.
LEMMA CommonIs ==
    ASSUME NEW s \in Seq(Token), NEW t \in Seq(Token)
    PROVE  /\ Common(s, t) \in Nat /\ Common(s, t) <= Len(s) /\ Common(s, t) <= Len(t)
           /\ \A i \in 1 .. Common(s, t) : s[i] = t[i]
<1> DEFINE L == Least(Len(s), Len(t))
           Agree(n) == /\ \A i \in 1..n : s[i] = t[i]
                       /\ n < L => s[n + 1] # t[n + 1]
           D == {i \in 1..L : s[i] # t[i]}
<1>1. L \in Nat /\ L <= Len(s) /\ L <= Len(t) /\ Len(s) \in Nat /\ Len(t) \in Nat
  BY LenProperties DEF Least
<1>2. Common(s, t) = CHOOSE n \in 0..L : Agree(n)
  BY DEF Common
<1> HIDE DEF L
<1>3. \E n \in 0..L : Agree(n)
  <2>1. CASE D = {}
    BY <1>1, <2>1
  <2>2. CASE D # {}
    <3>1. D \subseteq Nat
      BY <1>1
    <3> HIDE DEF D
    <3>2. PICK x \in D : \A y \in D : x <= y
      BY <2>2, <3>1, LeastElement
    <3>3. x \in 1..L /\ s[x] # t[x] /\ x \in Nat
      BY <1>1, <3>2 DEF D
    <3>4. ASSUME NEW i \in 1 .. x - 1 PROVE s[i] = t[i]
      <4>1. i \in 1..L /\ ~(x <= i)
        BY <1>1, <3>3
      <4> QED
        BY <3>2, <4>1 DEF D
    <3>5. x - 1 \in 0..L /\ (x - 1) + 1 = x
      BY <1>1, <3>3
    <3>6. Agree(x - 1)
      BY <3>3, <3>4, <3>5
    <3> QED
      BY <3>5, <3>6
  <2> QED
    BY <2>1, <2>2
<1> HIDE DEF Agree
<1>4. Common(s, t) \in 0..L /\ Agree(Common(s, t))
  BY <1>2, <1>3
<1> QED
  BY <1>1, <1>4 DEF Agree

-----------------------------------------------------------------------------
(* Sessions and snapshots.                                                 *)

Images == [log : Seq(Token), kv : Seq(Token \cup {Junk})]

\* A row of KV for every token of the log, and no more than the pool extends to.
Fits(s) == s \in Images /\ Len(s.kv) = Len(s.log) /\ Len(s.log) <= Capacity

\* The KV was computed from the tokens the log names.
Truthful(s) == s.log = s.kv

\* The empty session fits and is truthful.
LEMMA EmptyFits == Fits(Empty) /\ Truthful(Empty)
<1>1. <<>> \in Seq(Token) /\ <<>> \in Seq(Token \cup {Junk}) /\ Len(<<>>) = 0 /\ Capacity \in Nat
  BY PoolSizes
<1> QED
  BY <1>1 DEF Fits, Truthful, Images, Empty

\* So is a session cut short, of one that does.
LEMMA CutFits ==
    ASSUME NEW s, Fits(s), NEW n \in 0 .. Len(s.log)
    PROVE  Fits(Cut(s, n)) /\ (Truthful(s) => Truthful(Cut(s, n)))
<1>1. s.log \in Seq(Token) /\ s.kv \in Seq(Token \cup {Junk}) /\ Len(s.kv) = Len(s.log)
      /\ Len(s.log) <= Capacity /\ Len(s.log) \in Nat /\ Capacity \in Nat
  BY LenProperties, PoolSizes DEF Fits, Images
<1>2. Prefix(s.log, n) \in Seq(Token) /\ Len(Prefix(s.log, n)) = n
  BY <1>1, PrefixIs
<1>3. Prefix(s.kv, n) \in Seq(Token \cup {Junk}) /\ Len(Prefix(s.kv, n)) = n
  BY <1>1, PrefixIs
<1> QED
  BY <1>1, <1>2, <1>3 DEF Fits, Images, Truthful, Cut

\* What is kept of the log is a prefix of what it becomes.
LEMMA PrefilledFits ==
    ASSUME NEW s, Fits(s), NEW t \in Seq(Token), Len(t) <= Capacity,
           NEW n \in 0 .. Len(s.log), n <= Len(t), \A i \in 1 .. n : s.log[i] = t[i]
    PROVE  Fits(Prefilled(s, n, t)) /\ (Truthful(s) => Truthful(Prefilled(s, n, t)))
<1> DEFINE K == Token \cup {Junk}
           kept == Prefix(s.kv, n)
           rest == Suffix(t, n)
<1>1. /\ s.log \in Seq(Token) /\ s.kv \in Seq(K) /\ Len(s.kv) = Len(s.log)
      /\ n \in 0 .. Len(s.kv) /\ n \in 0 .. Len(t) /\ n \in Nat /\ Len(t) \in Nat
  BY LenProperties DEF Fits, Images
<1>2. kept \in Seq(K) /\ Len(kept) = n /\ \A i \in 1 .. n : kept[i] = s.kv[i]
  BY <1>1, PrefixIs
<1>3. /\ rest \in Seq(Token) /\ Len(rest) = Len(t) - n
      /\ \A i \in 1 .. Len(t) - n : rest[i] = t[n + i]
  BY <1>1, SuffixIs
<1>4. rest \in Seq(K) /\ t \in Seq(K)
  BY <1>3, SeqMonotonic
<1> HIDE DEF kept, rest, K
<1>5. /\ kept \o rest \in Seq(K) /\ Len(kept \o rest) = Len(t)
      /\ \A i \in 1 .. Len(t) : (kept \o rest)[i] = IF i <= n THEN kept[i] ELSE rest[i - n]
  <2>1. Len(kept) + Len(rest) = Len(t)
    BY <1>1, <1>2, <1>3
  <2> QED
    BY <1>2, <1>4, <2>1, ConcatProperties
<1>6. Prefilled(s, n, t) = [log |-> t, kv |-> kept \o rest]
  BY DEF Prefilled, kept, rest
<1>7. Fits(Prefilled(s, n, t))
  BY <1>5, <1>6 DEF Fits, Images, K
<1>8. ASSUME Truthful(s) PROVE kept \o rest = t
  <2>1. ASSUME NEW i \in 1 .. Len(t) PROVE (kept \o rest)[i] = t[i]
    <3>1. CASE i <= n
      <4>1. i \in 1 .. n
        BY <1>1, <3>1
      <4> QED
        BY <1>2, <1>5, <1>8, <3>1, <4>1 DEF Truthful
    <3>2. CASE ~(i <= n)
      <4>1. i - n \in 1 .. Len(t) - n /\ n + (i - n) = i
        BY <1>1, <3>2
      <4> QED
        BY <1>3, <1>5, <3>2, <4>1
    <3> QED
      BY <3>1, <3>2
  <2> QED
    BY <1>4, <1>5, <2>1, SeqEqual
<1> QED
  BY <1>6, <1>7, <1>8 DEF Truthful

\* A blob's bytes under the conversation's log.
LEMMA BlobFits ==
    ASSUME NEW c, Fits(c.snap), c.tokens \in Seq(Token), Len(c.tokens) <= Bytes(c)
    PROVE  /\ Fits(BlobSession(c))
           /\ Truthful(c.snap) /\ c.tokens = c.snap.log => Truthful(BlobSession(c))
<1>1. /\ Len(c.tokens) \in Nat /\ Bytes(c) \in Nat /\ Capacity \in Nat
      /\ Bytes(c) = Len(c.snap.kv) /\ Bytes(c) <= Capacity
      /\ c.snap.kv \in Seq(Token \cup {Junk}) /\ Len(c.snap.log) = Bytes(c)
  BY LenProperties, PoolSizes DEF Fits, Images, Bytes
<1> DEFINE junk == [i \in 1 .. Len(c.tokens) |-> Junk]
<1>2. junk \in Seq(Token \cup {Junk}) /\ Len(junk) = Len(c.tokens)
  <2>1. junk \in [1 .. Len(c.tokens) -> Token \cup {Junk}]
    OBVIOUS
  <2> HIDE DEF junk
  <2> QED
    BY <1>1, <2>1, FunctionIsSeq
<1>3. BlobSession(c) = [log |-> c.tokens,
                        kv  |-> IF Len(c.tokens) = Bytes(c) THEN c.snap.kv ELSE junk]
  BY DEF BlobSession
<1> HIDE DEF junk
<1>4. Fits(BlobSession(c))
  BY <1>1, <1>2, <1>3 DEF Fits, Images
<1>5. ASSUME Truthful(c.snap), c.tokens = c.snap.log PROVE Truthful(BlobSession(c))
  BY <1>1, <1>3, <1>5 DEF Truthful
<1> QED
  BY <1>4, <1>5

-----------------------------------------------------------------------------
(* The inductive invariant.                                                *)

Conversations ==
    [tokens : Seq(Token), tier : {"none", "ram", "disk"}, snap : Images, used : Nat]

Shapes ==
    /\ Fits(hot) /\ tick \in Nat /\ misread \in BOOLEAN
    /\ convs \in [Ids -> Conversations]
    /\ \A i \in Ids : Fits(convs[i].snap)

\* An id that was not minted holds nothing in any tier.
UnopenedHoldNothing == \A i \in Ids : i >= nextId => convs[i].tier = "none"

\* A request is served with one of the prompts.
PromptOK == phase \in {"rebalance", "serving", "generated"} => prompt \in Prompts

Counted == ramUsed = Total(RamWeight) /\ diskUsed = Total(DiskWeight)

FilesMatch == phase # "down" => files = {i \in Ids : convs[i].tier = "disk"}

WithinBudgets ==
    phase \in {"idle", "serving", "generated"} =>
        /\ \/ ramUsed <= RamBudget
           \/ current # 0 /\ ramUsed = RamBytes(convs[current])
        /\ \/ diskUsed <= DiskBudget
           \/ current # 0 /\ diskUsed = DiskBytes(convs[current])

\* Nothing is held: at the start, and when a process or its pipeline is gone.
Nothing ==
    /\ prompt = <<>> /\ hot = Empty /\ convs = [i \in Ids |-> Unborn] /\ nextId = 1 /\ current = 0
    /\ tick = 0 /\ ramUsed = 0 /\ diskUsed = 0 /\ misread = FALSE
    /\ phase \in {"idle", "dead", "down"} /\ files \subseteq Ids
    /\ phase # "down" => files = {}

Gone == phase \in {"dead", "down"} => Nothing

\* The inductive invariant.
PInv ==
    /\ TypeOK /\ Shapes /\ UnopenedHoldNothing /\ PromptOK /\ Counted /\ FilesMatch
    /\ WithinBudgets /\ TruthfulUnlessMisread /\ Gone

-----------------------------------------------------------------------------
(* Weights.                                                                *)

\* A conversation weighs a number of bytes in each tier.
LEMMA Weighs ==
    ASSUME NEW c \in Conversations
    PROVE  Bytes(c) \in Nat /\ RamBytes(c) \in Nat /\ DiskBytes(c) \in Nat
<1>1. c.snap.kv \in Seq(Token \cup {Junk})
  BY DEF Conversations, Images
<1>2. Bytes(c) \in Nat
  BY <1>1, LenProperties DEF Bytes
<1> QED
  BY <1>2 DEF RamBytes, DiskBytes

LEMMA WeightTypes ==
    ASSUME convs \in [Ids -> Conversations]
    PROVE  /\ RamWeight \in [Ids -> Nat] /\ DiskWeight \in [Ids -> Nat]
           /\ \A i \in Ids : /\ RamWeight[i] = RamBytes(convs[i])
                             /\ DiskWeight[i] = DiskBytes(convs[i])
<1>1. \A i \in Ids : RamBytes(convs[i]) \in Nat /\ DiskBytes(convs[i]) \in Nat
  BY Weighs
<1> QED
  BY <1>1 DEF RamWeight, DiskWeight

\* The same of the next state.
LEMMA NextWeightTypes ==
    ASSUME convs' \in [Ids -> Conversations]
    PROVE  /\ RamWeight' \in [Ids -> Nat] /\ DiskWeight' \in [Ids -> Nat]
           /\ \A i \in Ids : /\ RamWeight'[i] = RamBytes(convs'[i])
                             /\ DiskWeight'[i] = DiskBytes(convs'[i])
<1>1. \A i \in Ids : RamBytes(convs'[i]) \in Nat /\ DiskBytes(convs'[i]) \in Nat
  BY Weighs
<1> QED
  BY <1>1 DEF RamWeight, DiskWeight

LEMMA Using ==
    ASSUME NEW c \in Conversations, NEW n \in Nat
    PROVE  /\ [c EXCEPT !.used = n] \in Conversations
           /\ [c EXCEPT !.used = n].tier = c.tier /\ [c EXCEPT !.used = n].snap = c.snap
BY DEF Conversations

\* Where no tier and no snapshot changes, no weight does.
LEMMA SameWeights ==
    ASSUME \A i \in Ids : convs'[i].tier = convs[i].tier /\ convs'[i].snap = convs[i].snap
    PROVE  RamWeight' = RamWeight /\ DiskWeight' = DiskWeight
BY DEF RamWeight, DiskWeight, RamBytes, DiskBytes, Bytes

\* Some conversation is the least recently used.
LEMMA VictimExists ==
    ASSUME convs \in [Ids -> Conversations], nextId \in 1 .. MaxConvs + 1,
           NEW w \in [Ids -> Nat], LruVictims(w) = {}
    PROVE  \A i \in Opened \ {current} : w[i] = 0
<1> DEFINE cands == {i \in Opened \ {current} : w[i] > 0}
           stamps == {convs[i].used : i \in cands}
<1>0. Opened \subseteq Ids
  BY PoolSizes DEF Opened, Ids
<1>1. \A i \in cands : convs[i].used \in Nat
  BY <1>0 DEF Conversations
<1>2. CASE cands = {}
  <2>1. \A i \in Opened : w[i] \in Nat
    BY <1>0
  <2> QED
    BY <1>2, <2>1
<1>3. CASE cands # {}
  <2>1. stamps \subseteq Nat /\ stamps # {}
    BY <1>1, <1>3
  <2> HIDE DEF stamps
  <2>2. PICK x \in stamps : \A y \in stamps : x <= y
    BY <2>1, LeastElement
  <2>3. PICK v \in cands : convs[v].used = x
    BY <2>2 DEF stamps
  <2>4. \A j \in cands : convs[v].used <= convs[j].used
    BY <2>2, <2>3 DEF stamps
  <2>5. v \in LruVictims(w)
    BY <2>3, <2>4 DEF LruVictims
  <2> QED
    BY <2>5
<1> QED
  BY <1>2, <1>3

\* Without a victim only the current conversation weighs.
LEMMA OnlyCurrentWeighs ==
    ASSUME PInv, NEW w \in [Ids -> Nat], LruVictims(w) = {},
           \A i \in Ids : convs[i].tier = "none" => w[i] = 0
    PROVE  IF current = 0 THEN Total(w) = 0 ELSE Total(w) = w[current]
<1>1. /\ convs \in [Ids -> Conversations] /\ nextId \in 1 .. MaxConvs + 1
      /\ current \in 0 .. nextId - 1 /\ MaxConvs \in Nat
  BY PoolSizes DEF PInv, TypeOK, Shapes
<1>2. ASSUME NEW i \in Ids, i # current PROVE w[i] = 0
  <2>1. CASE i >= nextId
    BY <2>1 DEF PInv, UnopenedHoldNothing
  <2>2. CASE ~(i >= nextId)
    <3>1. i \in Opened \ {current}
      BY <1>1, <1>2, <2>2 DEF Opened, Ids
    <3> QED
      BY <1>1, <3>1, VictimExists
  <2> QED
    BY <2>1, <2>2
<1>3. CASE current = 0
  <2>1. \A i \in Ids : w[i] = 0
    BY <1>2, <1>3 DEF Ids
  <2> QED
    BY <1>3, <2>1, TotalOfNothing
<1>4. CASE current # 0
  <2>1. current \in Ids
    BY <1>1, <1>4 DEF Ids
  <2> QED
    BY <1>2, <1>4, <2>1, TotalOfOne
<1> QED
  BY <1>3, <1>4

-----------------------------------------------------------------------------
(* The first state, and what is left of a process.                         *)

\* A process that holds nothing satisfies the invariant.
LEMMA NothingPInv == Nothing => PInv
<1> SUFFICES ASSUME Nothing PROVE PInv
  OBVIOUS
<1> USE DEF Nothing
<1>0. MaxConvs \in Nat /\ RamBudget \in Nat /\ DiskBudget \in Nat
  BY PoolSizes
<1>1. Fits(Empty) /\ Truthful(Empty) /\ Empty \in Images /\ <<>> \in Seq(Token)
  BY EmptyFits DEF Fits
<1>2. Unborn \in Conversations
  BY <1>1 DEF Unborn, Conversations
<1>3. \A i \in Ids : convs[i] = Unborn /\ convs[i].tier = "none" /\ convs[i].snap = Empty
  BY DEF Unborn
<1>4. Shapes
  BY <1>1, <1>2, <1>3 DEF Shapes
<1>5. TypeOK
  BY <1>0, <1>1, <1>3 DEF TypeOK, Phases, Fits, Images
<1>6. Counted
  <2>1. \A i \in Ids : RamWeight[i] = 0 /\ DiskWeight[i] = 0
    BY <1>3, WeightTypes DEF RamWeight, DiskWeight, RamBytes, DiskBytes
  <2> QED
    BY <1>4, <2>1, WeightTypes, TotalOfNothing DEF Shapes, Counted
<1>7. FilesMatch /\ WithinBudgets /\ UnopenedHoldNothing /\ PromptOK
  BY <1>0, <1>3 DEF FilesMatch, WithinBudgets, UnopenedHoldNothing, PromptOK
<1>8. TruthfulUnlessMisread
  BY <1>1, <1>3 DEF TruthfulUnlessMisread, Truthful
<1> QED
  BY <1>4, <1>5, <1>6, <1>7, <1>8 DEF PInv, Gone

LEMMA InitPInv == Init => PInv
BY NothingPInv DEF Init, Nothing

\* The same of the next state.
LEMMA ForgetStep ==
    ASSUME ForgetAll, phase' \in {"idle", "dead", "down"}, files' \subseteq Ids,
           phase' # "down" => files' = {}
    PROVE  PInv'
<1>1. Nothing'
  BY DEF ForgetAll, Nothing
<1>2. Nothing' => PInv'
  BY NothingPInv, PTL
<1> QED
  BY <1>1, <1>2

LEMMA KilledStep == PInv /\ Killed => PInv'
BY ForgetStep DEF Killed, PInv, TypeOK

LEMMA PanicsStep == ASSUME NEW id, Panics(id) PROVE PInv'
BY ForgetStep DEF Panics

LEMMA StartedStep ==
    ASSUME PInv, Started
    PROVE  PInv'
<1>1. Nothing'
  BY DEF Started, PInv, Gone, Nothing
<1>2. Nothing' => PInv'
  BY NothingPInv, PTL
<1> QED
  BY <1>1, <1>2

-----------------------------------------------------------------------------
(* activate and the switch.                                                *)

\* The salvage cuts the hot log to what it shares with the prompt, or drops it.
LEMMA SalvageFits ==
    ASSUME Fits(hot), NEW p \in Seq(Token), Salvage(p)
    PROVE  Fits(hot') /\ (Truthful(hot) => Truthful(hot')) /\ phase' \in {"serving", "idle"}
<1>1. Common(hot.log, p) \in 0 .. Len(hot.log)
  <2>1. hot.log \in Seq(Token) /\ Len(hot.log) \in Nat
    BY LenProperties DEF Fits, Images
  <2> QED
    BY <2>1, CommonIs
<1> QED
  BY <1>1, CutFits, EmptyFits DEF Salvage

\* A prompt is a sequence of tokens that leaves room for a reply.
LEMMA PromptIs ==
    ASSUME NEW p \in Prompts
    PROVE  p \in Seq(Token) /\ Len(p) \in Nat /\ Scaffold < Len(p) /\ Len(p) <= Capacity
<1>1. p \in Seq(Token) /\ Len(p) \in Scaffold + 1 .. Capacity
  BY PoolInputs
<1>2. Scaffold \in Nat /\ Capacity \in Nat
  BY PoolSizes
<1> QED
  BY <1>1, <1>2, LenProperties

\* The hot session is that of no conversation, or of one that was opened.
LEMMA CurrentIs ==
    ASSUME PInv
    PROVE  /\ MaxConvs \in Nat /\ nextId \in 1 .. MaxConvs + 1 /\ current \in 0 .. nextId - 1
           /\ current # 0 => current \in Ids
<1>1. MaxConvs \in Nat
  BY PoolSizes
<1>2. nextId \in 1 .. MaxConvs + 1 /\ current \in 0 .. nextId - 1
  BY DEF PInv, TypeOK
<1> QED
  BY <1>1, <1>2 DEF Ids

\* What every step that leaves the tiers alone needs to show.
LEMMA TiersKept ==
    ASSUME PInv, convs' \in [Ids -> Conversations],
           \A i \in Ids : convs'[i].tier = convs[i].tier /\ convs'[i].snap = convs[i].snap,
           UNCHANGED <<nextId, current, ramUsed, diskUsed, files, misread>>,
           tick' \in Nat, Fits(hot'), ~misread => (Truthful(hot) => Truthful(hot')),
           phase \in {"idle", "serving", "generated"}, phase' \in {"idle", "serving", "generated"},
           prompt' \in Prompts \/ (phase' = "idle" /\ prompt' \in Seq(Token))
    PROVE  PInv'
<1>1. RamWeight' = RamWeight /\ DiskWeight' = DiskWeight
  BY SameWeights
<1>2. Shapes' /\ UnopenedHoldNothing'
  BY DEF PInv, Shapes, UnopenedHoldNothing
<1>3. TypeOK'
  <2>1. prompt' \in Seq(Token)
    BY PromptIs
  <2>2. hot'.log \in Seq(Token) /\ hot'.kv \in Seq(Token \cup {Junk}) /\ Len(hot'.log) <= Capacity
    BY DEF Fits, Images
  <2>3. phase' \in Phases
    BY DEF Phases
  <2>4. \A i \in Ids : convs'[i].tier \in {"none", "ram", "disk"}
    BY DEF PInv, TypeOK
  <2>5. /\ nextId' \in 1 .. MaxConvs + 1 /\ current' \in 0 .. nextId' - 1
        /\ {ramUsed', diskUsed'} \subseteq Nat /\ files' \subseteq Ids
    BY DEF PInv, TypeOK
  <2> QED
    BY <2>1, <2>2, <2>3, <2>4, <2>5 DEF TypeOK
<1>4. PromptOK' /\ Gone'
  BY DEF PInv, PromptOK, Gone
<1>5. Counted'
  BY <1>1 DEF PInv, Counted
<1>6. FilesMatch'
  BY DEF PInv, FilesMatch
<1>7. WithinBudgets'
  <2>1. current # 0 => current \in Ids
    BY CurrentIs
  <2>2. current # 0 => /\ RamBytes(convs'[current]) = RamBytes(convs[current])
                       /\ DiskBytes(convs'[current]) = DiskBytes(convs[current])
    BY <2>1 DEF RamBytes, DiskBytes, Bytes
  <2> QED
    BY <2>1, <2>2 DEF PInv, WithinBudgets
<1>8. TruthfulUnlessMisread'
  BY DEF PInv, TruthfulUnlessMisread, Truthful
<1> QED
  BY <1>2, <1>3, <1>4, <1>5, <1>6, <1>7, <1>8 DEF PInv

LEMMA StayStep ==
    ASSUME PInv, NEW p \in Prompts, StayInConversation(p)
    PROVE  PInv'
<1>1. Fits(hot') /\ (Truthful(hot) => Truthful(hot')) /\ phase' \in {"serving", "idle"}
  BY SalvageFits, PromptIs DEF StayInConversation, PInv, Shapes
<1>2. current \in Ids /\ tick \in Nat /\ convs \in [Ids -> Conversations]
  <2>1. current \in Opened
    BY DEF StayInConversation, Routed
  <2>2. Opened \subseteq Ids
    BY CurrentIs DEF Opened, Ids
  <2> QED
    BY <2>1, <2>2 DEF PInv, Shapes
<1>3. convs' = [convs EXCEPT ![current] = [@ EXCEPT !.used = tick + 1]]
  BY DEF StayInConversation
<1>4. /\ [convs[current] EXCEPT !.used = tick + 1] \in Conversations
      /\ [convs[current] EXCEPT !.used = tick + 1].tier = convs[current].tier
      /\ [convs[current] EXCEPT !.used = tick + 1].snap = convs[current].snap
  BY <1>2, Using
<1>5. /\ convs' \in [Ids -> Conversations]
      /\ \A i \in Ids : convs'[i].tier = convs[i].tier /\ convs'[i].snap = convs[i].snap
  BY <1>2, <1>3, <1>4
<1> QED
  BY <1>1, <1>2, <1>5, TiersKept DEF StayInConversation

\* The outgoing conversation, if there is one, is stashed; the incoming one is
\* used now.  Its tier and snapshot stay as they are.
LEMMA SwitchConvs ==
    ASSUME PInv, NEW id \in Ids, NEW p \in Prompts, SwitchTo(id, p)
    PROVE  /\ convs' \in [Ids -> Conversations]
           /\ \A i \in Ids : i # current =>
                  convs'[i].tier = convs[i].tier /\ convs'[i].snap = convs[i].snap
           /\ current # 0 => convs'[current] = Stashed(convs[current])
           /\ current # 0 => Stashed(convs[current]) \in Conversations
<1>1. /\ convs \in [Ids -> Conversations] /\ Fits(hot) /\ hot \in Images /\ tick + 1 \in Nat
      /\ id # current
  BY DEF SwitchTo, PInv, Shapes, Fits
<1>2. \A i \in Ids : Stashed(convs[i]) \in Conversations
  <2>1. Empty \in Images
    BY EmptyFits DEF Fits
  <2> QED
    BY <1>1, <2>1 DEF Stashed, NoSnapshot, Conversations
<1> DEFINE stashed == [i \in Ids |->
                          IF i = current /\ current # 0 THEN Stashed(convs[i]) ELSE convs[i]]
<1>3. convs' = [stashed EXCEPT ![id] = [@ EXCEPT !.used = tick + 1]]
  BY DEF SwitchTo
<1>4. stashed \in [Ids -> Conversations] /\ stashed[id] = convs[id]
  BY <1>1, <1>2
<1>5. /\ [convs[id] EXCEPT !.used = tick + 1] \in Conversations
      /\ [convs[id] EXCEPT !.used = tick + 1].tier = convs[id].tier
      /\ [convs[id] EXCEPT !.used = tick + 1].snap = convs[id].snap
  BY <1>1, Using
<1>6. \A i \in Ids : convs'[i] = IF i = id THEN [convs[id] EXCEPT !.used = tick + 1] ELSE stashed[i]
  <2> HIDE DEF stashed
  <2> QED
    BY <1>3, <1>4
<1>7. convs' \in [Ids -> Conversations]
  <2> HIDE DEF stashed
  <2> QED
    BY <1>3, <1>4, <1>5
<1>8. current # 0 => current \in Ids
  BY PoolSizes DEF PInv, TypeOK, Ids
<1> QED
  BY <1>1, <1>2, <1>5, <1>6, <1>7, <1>8

\* What a stashed conversation weighs.
LEMMA StashedWeighs ==
    ASSUME NEW c \in Conversations, Fits(hot)
    PROVE  /\ RamBytes(Stashed(c)) = (IF RamBudget = 0 /\ DiskBudget = 0 THEN 0 ELSE Len(hot.kv))
           /\ DiskBytes(Stashed(c)) = 0 /\ Stashed(c).tier # "disk" /\ Fits(Stashed(c).snap)
           /\ Stashed(c).tier # "none" => Stashed(c).snap = hot
<1>1. CASE RamBudget = 0 /\ DiskBudget = 0
  <2>1. Stashed(c).tier = "none" /\ Stashed(c).snap = Empty
    BY <1>1 DEF Stashed, NoSnapshot, Conversations
  <2> QED
    BY <1>1, <2>1, EmptyFits DEF RamBytes, DiskBytes
<1>2. CASE ~(RamBudget = 0 /\ DiskBudget = 0)
  <2>1. Stashed(c).tier = "ram" /\ Stashed(c).snap = hot
    BY <1>2 DEF Stashed, Conversations
  <2> QED
    BY <1>2, <2>1 DEF RamBytes, DiskBytes, Bytes
<1> QED
  BY <1>1, <1>2

\* Where one conversation's tier or snapshot changes, the totals change by what
\* it weighed and weighs.
LEMMA OneChanges ==
    ASSUME convs \in [Ids -> Conversations], convs' \in [Ids -> Conversations], NEW k \in Ids,
           \A i \in Ids : i # k => convs'[i].tier = convs[i].tier /\ convs'[i].snap = convs[i].snap
    PROVE  /\ Total(RamWeight') = Total(RamWeight) - RamBytes(convs[k]) + RamBytes(convs'[k])
           /\ Total(DiskWeight') = Total(DiskWeight) - DiskBytes(convs[k]) + DiskBytes(convs'[k])
           /\ Total(RamWeight') \in Nat /\ Total(DiskWeight') \in Nat
           /\ Total(RamWeight)' = Total(RamWeight') /\ Total(DiskWeight)' = Total(DiskWeight')
<1>1. /\ RamWeight \in [Ids -> Nat] /\ DiskWeight \in [Ids -> Nat]
      /\ \A i \in Ids : RamWeight[i] = RamBytes(convs[i]) /\ DiskWeight[i] = DiskBytes(convs[i])
  BY WeightTypes
<1>2. /\ RamWeight' \in [Ids -> Nat] /\ DiskWeight' \in [Ids -> Nat]
      /\ \A i \in Ids : RamWeight'[i] = RamBytes(convs'[i]) /\ DiskWeight'[i] = DiskBytes(convs'[i])
  BY NextWeightTypes
<1>3. ASSUME NEW i \in Ids, i # k
      PROVE  RamWeight'[i] = RamWeight[i] /\ DiskWeight'[i] = DiskWeight[i]
  <2>1. convs'[i].tier = convs[i].tier /\ convs'[i].snap = convs[i].snap
    BY <1>3
  <2>2. RamBytes(convs'[i]) = RamBytes(convs[i]) /\ DiskBytes(convs'[i]) = DiskBytes(convs[i])
    BY <2>1 DEF RamBytes, DiskBytes, Bytes
  <2> QED
    BY <1>1, <1>2, <2>2
<1>4. /\ Total(RamWeight') = Total(RamWeight) - RamWeight[k] + RamWeight'[k]
      /\ Total(RamWeight') \in Nat
  BY <1>1, <1>2, <1>3, TotalChanges
<1>5. /\ Total(DiskWeight') = Total(DiskWeight) - DiskWeight[k] + DiskWeight'[k]
      /\ Total(DiskWeight') \in Nat
  BY <1>1, <1>2, <1>3, TotalChanges
<1>6. Total(RamWeight)' = Total(RamWeight') /\ Total(DiskWeight)' = Total(DiskWeight')
  BY DEF Total
<1> QED
  BY <1>1, <1>2, <1>4, <1>5, <1>6

\* The counters follow the stash.
LEMMA SwitchCounted ==
    ASSUME PInv, NEW id \in Ids, NEW p \in Prompts, SwitchTo(id, p)
    PROVE  Counted' /\ ramUsed' \in Nat /\ diskUsed' \in Nat
<1>1. /\ convs \in [Ids -> Conversations] /\ convs' \in [Ids -> Conversations] /\ Fits(hot)
      /\ ramUsed = Total(RamWeight) /\ diskUsed = Total(DiskWeight)
      /\ ramUsed \in Nat /\ diskUsed \in Nat
      /\ \A i \in Ids : i # current =>
             convs'[i].tier = convs[i].tier /\ convs'[i].snap = convs[i].snap
  BY SwitchConvs DEF PInv, Shapes, Counted, TypeOK
<1>2. CASE current = 0
  <2>1. \A i \in Ids : convs'[i].tier = convs[i].tier /\ convs'[i].snap = convs[i].snap
    BY <1>1, <1>2 DEF Ids
  <2>2. RamWeight' = RamWeight /\ DiskWeight' = DiskWeight
    BY <2>1, SameWeights
  <2>3. ramUsed' = ramUsed /\ diskUsed' = diskUsed
    BY <1>2 DEF SwitchTo, StashCounted
  <2> QED
    BY <1>1, <2>2, <2>3 DEF Counted
<1>3. CASE current # 0
  <2>1. current \in Ids
    BY <1>3, CurrentIs
  <2>2. /\ RamBytes(convs'[current]) = (IF RamBudget = 0 /\ DiskBudget = 0 THEN 0 ELSE Len(hot.kv))
        /\ DiskBytes(convs'[current]) = 0
    <3>1. convs'[current] = Stashed(convs[current]) /\ convs[current] \in Conversations
      BY <1>1, <1>3, <2>1, SwitchConvs
    <3> QED
      BY <1>1, <3>1, StashedWeighs
  <2>3. /\ ramUsed' = ramUsed - RamBytes(convs[current]) + RamBytes(convs'[current])
        /\ diskUsed' = diskUsed - DiskBytes(convs[current])
    BY <1>3, <2>2 DEF SwitchTo, StashCounted
  <2>4. DiskBytes(convs[current]) \in Nat
    BY <1>1, <2>1, Weighs
  <2>5. /\ Total(RamWeight)' = ramUsed - RamBytes(convs[current]) + RamBytes(convs'[current])
        /\ Total(DiskWeight)' = diskUsed - DiskBytes(convs[current]) + 0
        /\ Total(RamWeight)' \in Nat /\ Total(DiskWeight)' \in Nat
    BY <1>1, <2>1, <2>2, OneChanges
  <2> QED
    BY <1>1, <2>3, <2>4, <2>5 DEF Counted
<1> QED
  BY <1>2, <1>3

\* What is restored fits; it is truthful when the snapshot was, unless a blob is
\* laid out under another log than its own.
LEMMA MaterializedFits ==
    ASSUME NEW c \in Conversations, Fits(c.snap), NEW h \in Materialized(c)
    PROVE  /\ Fits(h)
           /\ /\ c.tier # "none" => Truthful(c.snap)
              /\ ~(c.tier = "disk" /\ h # Empty /\ c.tokens # c.snap.log)
              => Truthful(h)
<1>1. CASE h = Empty
  BY <1>1, EmptyFits
<1>2. CASE h = RamSession(c) /\ c.tier = "ram"
  BY <1>2 DEF RamSession
<1>3. CASE h = BlobSession(c) /\ c.tier = "disk" /\ ~BlobTooShort(c) /\ h # Empty
  <2>1. c.tokens \in Seq(Token) /\ Len(c.tokens) \in Nat /\ Bytes(c) \in Nat
    BY Weighs, LenProperties DEF Conversations
  <2>2. Len(c.tokens) <= Bytes(c)
    BY <1>3, <2>1 DEF BlobTooShort
  <2> QED
    BY <1>3, <2>1, <2>2, BlobFits
<1>4. c.tier \in {"none", "ram", "disk"}
  BY DEF Conversations
<1>5. h = Empty \/ (h = RamSession(c) /\ c.tier = "ram")
      \/ (h = BlobSession(c) /\ c.tier = "disk" /\ ~BlobTooShort(c))
  BY <1>4 DEF Materialized
<1> QED
  BY <1>1, <1>2, <1>3, <1>5

LEMMA SwitchStep ==
    ASSUME PInv, NEW id \in Ids, NEW p \in Prompts, SwitchTo(id, p),
           \/ id < nextId /\ nextId' = nextId
           \/ id = nextId /\ nextId' = nextId + 1
    PROVE  PInv'
<1>1. /\ convs' \in [Ids -> Conversations]
      /\ \A i \in Ids : i # current =>
             convs'[i].tier = convs[i].tier /\ convs'[i].snap = convs[i].snap
      /\ current # 0 => convs'[current] = Stashed(convs[current])
  BY SwitchConvs
<1>2. /\ phase = "idle" /\ phase' = "rebalance" /\ id # current /\ current' = id /\ prompt' = p
      /\ tick' = tick + 1 /\ files' = files \ {current}
  BY DEF SwitchTo, StashCounted
<1>3. /\ convs \in [Ids -> Conversations] /\ Fits(hot) /\ tick \in Nat /\ misread \in BOOLEAN
      /\ \A i \in Ids : Fits(convs[i].snap)
      /\ nextId \in 1 .. MaxConvs + 1 /\ current \in 0 .. nextId - 1 /\ MaxConvs \in Nat
      /\ files \subseteq Ids /\ files = {i \in Ids : convs[i].tier = "disk"}
  BY <1>2, PoolSizes DEF PInv, Shapes, TypeOK, FilesMatch
<1>4. current # 0 => current \in Ids
  BY <1>3 DEF Ids
<1>5. /\ hot' \in Materialized(convs[id])
      /\ misread' = (misread \/ (convs[id].tier = "disk" /\ hot' # Empty
                                 /\ convs[id].tokens # convs[id].snap.log))
  <2>1. [i \in Ids |-> IF i = current /\ current # 0 THEN Stashed(convs[i]) ELSE convs[i]][id]
            = convs[id]
    BY <1>2
  <2> QED
    BY <2>1 DEF SwitchTo
<1>6. /\ Fits(hot')
      /\ /\ convs[id].tier # "none" => Truthful(convs[id].snap)
         /\ ~(convs[id].tier = "disk" /\ hot' # Empty /\ convs[id].tokens # convs[id].snap.log)
         => Truthful(hot')
  BY <1>3, <1>5, MaterializedFits
<1>7. Counted' /\ ramUsed' \in Nat /\ diskUsed' \in Nat
  BY SwitchCounted
<1>8. current # 0 => /\ convs'[current].tier # "disk" /\ Fits(convs'[current].snap)
                     /\ convs'[current].tier # "none" => convs'[current].snap = hot
  BY <1>1, <1>3, <1>4, StashedWeighs
<1>9. Shapes'
  <2>1. \A i \in Ids : Fits(convs'[i].snap)
    BY <1>1, <1>3, <1>8 DEF Ids
  <2>2. misread' \in BOOLEAN /\ tick' \in Nat
    BY <1>2, <1>3, <1>5
  <2> QED
    BY <1>1, <1>6, <2>1, <2>2 DEF Shapes
<1>10. TypeOK'
  <2>1. nextId' \in 1 .. MaxConvs + 1 /\ current' \in 0 .. nextId' - 1
    BY <1>2, <1>3 DEF Ids
  <2>2. prompt' \in Seq(Token)
    BY <1>2, PromptIs
  <2>3. \A i \in Ids : convs'[i].tier \in {"none", "ram", "disk"}
    BY <1>1 DEF Conversations
  <2>4. hot'.log \in Seq(Token) /\ hot'.kv \in Seq(Token \cup {Junk}) /\ Len(hot'.log) <= Capacity
    BY <1>6 DEF Fits, Images
  <2>5. files' \subseteq Ids
    BY <1>2, <1>3
  <2> QED
    BY <1>2, <1>7, <2>1, <2>2, <2>3, <2>4, <2>5 DEF TypeOK, Phases
<1>11. UnopenedHoldNothing'
  <2>1. ASSUME NEW i \in Ids, i >= nextId' PROVE i >= nextId /\ i # current
    BY <1>3, <2>1 DEF Ids
  <2> QED
    BY <1>1, <2>1 DEF PInv, UnopenedHoldNothing
<1>12. FilesMatch'
  BY <1>1, <1>2, <1>3, <1>8 DEF FilesMatch, Ids
<1>13. PromptOK' /\ WithinBudgets' /\ Gone'
  BY <1>2 DEF PromptOK, WithinBudgets, Gone
<1>14. TruthfulUnlessMisread'
  <2> SUFFICES ASSUME ~misread'
               PROVE  /\ Truthful(hot')
                      /\ \A i \in Ids : convs'[i].tier # "none" => Truthful(convs'[i].snap)
    BY DEF TruthfulUnlessMisread, Truthful
  <2>1. Truthful(hot) /\ \A i \in Ids : convs[i].tier # "none" => Truthful(convs[i].snap)
    BY <1>5 DEF PInv, TruthfulUnlessMisread, Truthful
  <2>2. Truthful(hot')
    BY <1>5, <1>6, <2>1
  <2> QED
    BY <1>1, <1>8, <2>1, <2>2 DEF Ids
<1> QED
  BY <1>7, <1>9, <1>10, <1>11, <1>12, <1>13, <1>14 DEF PInv

LEMMA ActivateStep ==
    ASSUME PInv, NEW p \in Prompts, Activate(p)
    PROVE  PInv'
<1>1. nextId \in 1 .. MaxConvs + 1 /\ MaxConvs \in Nat
  BY PoolSizes DEF PInv, TypeOK
<1>2. CASE StayInConversation(p)
  BY <1>2, StayStep
<1>3. ASSUME NEW id \in Routed(p), SwitchTo(id, p), UNCHANGED nextId PROVE PInv'
  <2>1. id \in Ids /\ id < nextId
    BY <1>1 DEF Routed, Opened, Ids
  <2> QED
    BY <1>3, <2>1, SwitchStep
<1>4. ASSUME NEW id \in Routed(p), Panics(id) PROVE PInv'
  BY <1>4, PanicsStep
<1>5. ASSUME nextId <= MaxConvs, SwitchTo(nextId, p), nextId' = nextId + 1 PROVE PInv'
  <2>1. nextId \in Ids
    BY <1>1, <1>5 DEF Ids
  <2> QED
    BY <1>5, <2>1, SwitchStep
<1> QED
  BY <1>2, <1>3, <1>4, <1>5 DEF Activate

-----------------------------------------------------------------------------
(* rebalance.                                                              *)

\* A victim weighs something, so it was opened.
LEMMA VictimIs ==
    ASSUME PInv, NEW w, NEW v \in LruVictims(w)
    PROVE  v \in Ids /\ v < nextId /\ w[v] > 0
<1>1. nextId \in 1 .. MaxConvs + 1 /\ MaxConvs \in Nat
  BY PoolSizes DEF PInv, TypeOK
<1>2. v \in Opened /\ w[v] > 0
  BY DEF LruVictims
<1> QED
  BY <1>1, <1>2 DEF Opened, Ids

\* A step of the rebalance moves or drops one snapshot.
LEMMA OneMoves ==
    ASSUME PInv, phase = "rebalance", NEW v \in Ids, v < nextId, convs[v].tier # "none",
           NEW c \in Conversations, convs' = [convs EXCEPT ![v] = c],
           c.snap = convs[v].snap \/ (c.snap = Empty /\ c.tier = "none"),
           UNCHANGED <<phase, prompt, hot, nextId, current, tick, misread>>,
           ramUsed' = ramUsed - RamBytes(convs[v]) + RamBytes(c),
           diskUsed' = diskUsed - DiskBytes(convs[v]) + DiskBytes(c),
           files' = IF c.tier = "disk" THEN files \cup {v} ELSE files \ {v}
    PROVE  PInv'
<1>1. /\ convs \in [Ids -> Conversations] /\ nextId \in Nat
      /\ ramUsed = Total(RamWeight) /\ diskUsed = Total(DiskWeight)
      /\ files = {i \in Ids : convs[i].tier = "disk"} /\ \A i \in Ids : Fits(convs[i].snap)
  BY DEF PInv, Shapes, Counted, FilesMatch, TypeOK
<1>2. /\ convs' \in [Ids -> Conversations] /\ convs'[v] = c
      /\ \A i \in Ids : i # v => convs'[i] = convs[i]
  BY <1>1
<1>3. Counted' /\ ramUsed' \in Nat /\ diskUsed' \in Nat
  BY <1>1, <1>2, OneChanges DEF Counted
<1>4. Shapes'
  BY <1>1, <1>2, EmptyFits DEF PInv, Shapes
<1>5. FilesMatch' /\ files' \subseteq Ids
  BY <1>1, <1>2 DEF FilesMatch
<1>6. TypeOK'
  <2>1. \A i \in Ids : convs'[i].tier \in {"none", "ram", "disk"}
    BY <1>2 DEF Conversations
  <2> QED
    BY <1>3, <1>5, <2>1 DEF PInv, TypeOK
<1>7. UnopenedHoldNothing'
  <2>1. \A i \in Ids : i >= nextId => i # v
    BY <1>1 DEF Ids
  <2> QED
    BY <1>2, <2>1 DEF PInv, UnopenedHoldNothing
<1>8. PromptOK' /\ WithinBudgets' /\ Gone'
  BY DEF PInv, PromptOK, WithinBudgets, Gone
<1>9. TruthfulUnlessMisread'
  BY <1>2 DEF PInv, TruthfulUnlessMisread
<1> QED
  BY <1>3, <1>4, <1>5, <1>6, <1>7, <1>8, <1>9 DEF PInv

LEMMA SpillStep ==
    ASSUME PInv, Spill
    PROVE  PInv'
<1>1. PICK v \in LruVictims(RamWeight) :
          LET bytes == RamBytes(convs[v])
              drop  == DiskBudget = 0 \/ bytes > DiskBudget
          IN  /\ ramUsed' = ramUsed - bytes
              /\ \/ /\ ~drop
                    /\ convs' = [convs EXCEPT ![v].tier = "disk"]
                    /\ diskUsed' = diskUsed + bytes
                    /\ files' = files \cup {v}
                 \/ /\ drop \/ DiskMayFail
                    /\ convs' = [convs EXCEPT ![v] = NoSnapshot(@)]
                    /\ UNCHANGED <<diskUsed, files>>
  BY DEF Spill
<1>2. v \in Ids /\ v < nextId /\ RamWeight[v] > 0
  BY VictimIs
<1>3. /\ convs \in [Ids -> Conversations] /\ convs[v] \in Conversations
      /\ RamWeight[v] = RamBytes(convs[v]) /\ ramUsed \in Nat /\ diskUsed \in Nat
      /\ files = {i \in Ids : convs[i].tier = "disk"}
  BY <1>2, WeightTypes DEF PInv, Shapes, TypeOK, FilesMatch, Spill
<1>4. /\ convs[v].tier = "ram" /\ RamBytes(convs[v]) \in Nat /\ DiskBytes(convs[v]) = 0
      /\ RamBytes(convs[v]) = Bytes(convs[v])
  <2>1. convs[v].tier = "ram"
    BY <1>2, <1>3 DEF RamBytes
  <2> QED
    BY <1>3, <2>1, Weighs DEF RamBytes, DiskBytes
<1>5. phase = "rebalance" /\ UNCHANGED <<phase, prompt, hot, nextId, current, tick, misread>>
  BY DEF Spill
<1>6. ASSUME convs' = [convs EXCEPT ![v].tier = "disk"],
             diskUsed' = diskUsed + RamBytes(convs[v]), files' = files \cup {v}
      PROVE  PInv'
  <2> DEFINE c == [convs[v] EXCEPT !.tier = "disk"]
  <2>1. c \in Conversations /\ c.snap = convs[v].snap /\ c.tier = "disk"
    BY <1>3 DEF Conversations
  <2>2. convs' = [convs EXCEPT ![v] = c]
    BY <1>6
  <2> HIDE DEF c
  <2>3. RamBytes(c) = 0 /\ DiskBytes(c) = RamBytes(convs[v])
    BY <1>4, <2>1 DEF RamBytes, DiskBytes, Bytes
  <2>4. /\ ramUsed' = ramUsed - RamBytes(convs[v]) + RamBytes(c)
        /\ diskUsed' = diskUsed - DiskBytes(convs[v]) + DiskBytes(c)
    BY <1>1, <1>3, <1>4, <1>6, <2>3
  <2> QED
    BY <1>2, <1>4, <1>5, <1>6, <2>1, <2>2, <2>4, OneMoves
<1>7. ASSUME convs' = [convs EXCEPT ![v] = NoSnapshot(@)], UNCHANGED <<diskUsed, files>>
      PROVE  PInv'
  <2> DEFINE c == NoSnapshot(convs[v])
  <2>1. c \in Conversations /\ c.snap = Empty /\ c.tier = "none"
    BY <1>3, EmptyFits DEF Conversations, NoSnapshot, Fits
  <2>2. convs' = [convs EXCEPT ![v] = c]
    BY <1>7
  <2> HIDE DEF c
  <2>3. RamBytes(c) = 0 /\ DiskBytes(c) = 0
    BY <2>1 DEF RamBytes, DiskBytes
  <2>4. /\ ramUsed' = ramUsed - RamBytes(convs[v]) + RamBytes(c)
        /\ diskUsed' = diskUsed - DiskBytes(convs[v]) + DiskBytes(c)
        /\ files' = files \ {v}
    BY <1>1, <1>3, <1>4, <1>7, <2>3
  <2> QED
    BY <1>2, <1>4, <1>5, <2>1, <2>2, <2>4, OneMoves
<1> QED
  BY <1>1, <1>6, <1>7

LEMMA DropBlobStep ==
    ASSUME PInv, DropBlob
    PROVE  PInv'
<1>1. PICK v \in LruVictims(DiskWeight) :
          /\ convs' = [convs EXCEPT ![v] = NoSnapshot(@)]
          /\ diskUsed' = diskUsed - DiskBytes(convs[v])
          /\ files' = files \ {v}
  BY DEF DropBlob
<1>2. v \in Ids /\ v < nextId /\ DiskWeight[v] > 0
  BY VictimIs
<1>3. /\ convs \in [Ids -> Conversations] /\ convs[v] \in Conversations
      /\ DiskWeight[v] = DiskBytes(convs[v]) /\ ramUsed \in Nat /\ diskUsed \in Nat
  BY <1>2, WeightTypes DEF PInv, Shapes, TypeOK
<1>4. convs[v].tier = "disk" /\ DiskBytes(convs[v]) \in Nat /\ RamBytes(convs[v]) = 0
  <2>1. convs[v].tier = "disk"
    BY <1>2, <1>3 DEF DiskBytes
  <2> QED
    BY <1>3, <2>1, Weighs DEF RamBytes
<1> DEFINE c == NoSnapshot(convs[v])
<1>5. c \in Conversations /\ c.snap = Empty /\ c.tier = "none"
  BY <1>3, EmptyFits DEF Conversations, NoSnapshot, Fits
<1>6. convs' = [convs EXCEPT ![v] = c]
  BY <1>1
<1> HIDE DEF c
<1>7. RamBytes(c) = 0 /\ DiskBytes(c) = 0
  BY <1>5 DEF RamBytes, DiskBytes
<1>8. /\ ramUsed' = ramUsed - RamBytes(convs[v]) + RamBytes(c)
      /\ diskUsed' = diskUsed - DiskBytes(convs[v]) + DiskBytes(c)
  BY <1>1, <1>3, <1>4, <1>7 DEF DropBlob
<1> QED
  BY <1>1, <1>2, <1>4, <1>5, <1>6, <1>8, OneMoves DEF DropBlob

\* Over budget with no victim left, only the current conversation weighs.
LEMMA RebalancedStep ==
    ASSUME PInv, Rebalanced
    PROVE  PInv'
<1>1. /\ convs \in [Ids -> Conversations] /\ Fits(hot) /\ prompt \in Prompts /\ phase = "rebalance"
      /\ ramUsed = Total(RamWeight) /\ diskUsed = Total(DiskWeight) /\ current \in Nat
      /\ ramUsed \in Nat /\ diskUsed \in Nat /\ RamBudget \in Nat /\ DiskBudget \in Nat
  BY PoolSizes DEF PInv, Shapes, PromptOK, Counted, TypeOK, Rebalanced
<1>2. UNCHANGED <<prompt, convs, nextId, current, tick, ramUsed, diskUsed, files, misread>>
  BY DEF Rebalanced, pool
<1>3. Fits(hot') /\ (Truthful(hot) => Truthful(hot')) /\ phase' \in {"serving", "idle"}
  BY <1>1, SalvageFits, PromptIs DEF Rebalanced
<1>4. current # 0 => current \in Ids
  BY PoolSizes DEF PInv, TypeOK, Ids
<1>5. /\ RamWeight \in [Ids -> Nat] /\ DiskWeight \in [Ids -> Nat]
      /\ \A i \in Ids : RamWeight[i] = RamBytes(convs[i]) /\ DiskWeight[i] = DiskBytes(convs[i])
  BY <1>1, WeightTypes
<1>6. ramUsed <= RamBudget \/ (current # 0 /\ ramUsed = RamBytes(convs[current]))
  <2>1. CASE LruVictims(RamWeight) = {}
    <3>1. \A i \in Ids : convs[i].tier = "none" => RamWeight[i] = 0
      BY <1>5 DEF RamBytes
    <3>2. IF current = 0 THEN ramUsed = 0 ELSE ramUsed = RamWeight[current]
      BY <1>1, <1>5, <2>1, <3>1, OnlyCurrentWeighs
    <3> QED
      BY <1>1, <1>4, <1>5, <3>2
  <2>2. CASE ~(ramUsed > RamBudget)
    BY <1>1, <2>2
  <2> QED
    BY <2>1, <2>2 DEF Rebalanced, RamOver
<1>7. diskUsed <= DiskBudget \/ (current # 0 /\ diskUsed = DiskBytes(convs[current]))
  <2>1. CASE LruVictims(DiskWeight) = {}
    <3>1. \A i \in Ids : convs[i].tier = "none" => DiskWeight[i] = 0
      BY <1>5 DEF DiskBytes
    <3>2. IF current = 0 THEN diskUsed = 0 ELSE diskUsed = DiskWeight[current]
      BY <1>1, <1>5, <2>1, <3>1, OnlyCurrentWeighs
    <3> QED
      BY <1>1, <1>4, <1>5, <3>2
  <2>2. CASE ~(diskUsed > DiskBudget)
    BY <1>1, <2>2
  <2> QED
    BY <2>1, <2>2 DEF Rebalanced, DiskOver
<1>8. WithinBudgets'
  BY <1>2, <1>6, <1>7 DEF WithinBudgets
<1>9. Shapes' /\ UnopenedHoldNothing' /\ Counted'
  BY <1>2, <1>3 DEF PInv, Shapes, UnopenedHoldNothing, Counted, RamWeight, DiskWeight, Total
<1>10. TypeOK' /\ FilesMatch'
  BY <1>1, <1>2, <1>3 DEF PInv, TypeOK, Phases, FilesMatch, Fits, Images
<1>11. PromptOK' /\ Gone'
  BY <1>1, <1>2, <1>3 DEF PromptOK, Gone
<1>12. TruthfulUnlessMisread'
  BY <1>2, <1>3 DEF PInv, TruthfulUnlessMisread, Truthful
<1> QED
  BY <1>8, <1>9, <1>10, <1>11, <1>12 DEF PInv

-----------------------------------------------------------------------------
(* The turn and its end.                                                   *)

LEMMA GenerateStep ==
    ASSUME PInv, Generate
    PROVE  PInv'
<1>1. /\ convs \in [Ids -> Conversations] /\ Fits(hot) /\ prompt \in Prompts /\ phase = "serving"
      /\ tick \in Nat /\ hot.log \in Seq(Token) /\ prompt \in Seq(Token)
  BY PromptIs DEF PInv, Shapes, PromptOK, Generate, Fits, Images
<1>2. UNCHANGED <<prompt, convs, nextId, current, tick, ramUsed, diskUsed, files, misread>>
  BY DEF Generate, pool
<1>3. ASSUME NEW r \in Replies \cup {<<>>}, Len(prompt) + Len(r) <= Capacity,
             hot' = Prefilled(hot, Common(hot.log, prompt), prompt \o r)
      PROVE  Fits(hot') /\ (Truthful(hot) => Truthful(hot'))
  <2> DEFINE n == Common(hot.log, prompt)
             t == prompt \o r
  <2>1. r \in Seq(Token)
    <3>1. <<>> \in Seq(Token) /\ Replies \subseteq Seq(Token)
      BY PoolInputs
    <3> QED
      BY <3>1
  <2>2. /\ t \in Seq(Token) /\ Len(t) = Len(prompt) + Len(r)
        /\ \A i \in 1 .. Len(prompt) + Len(r) : t[i] = IF i <= Len(prompt)
                                                              THEN prompt[i] ELSE r[i - Len(prompt)]
    BY <1>1, <2>1, ConcatProperties
  <2>3. /\ n \in Nat /\ n <= Len(hot.log) /\ n <= Len(prompt)
        /\ \A i \in 1 .. n : hot.log[i] = prompt[i]
    BY <1>1, CommonIs
  <2>4. Len(prompt) \in Nat /\ Len(r) \in Nat /\ Len(hot.log) \in Nat
    BY <1>1, <2>1, LenProperties
  <2>5. hot' = Prefilled(hot, n, t)
    BY <1>3
  <2> HIDE DEF n, t
  <2>6. n \in 0 .. Len(hot.log) /\ n <= Len(t) /\ Len(t) <= Capacity
    BY <1>3, <2>2, <2>3, <2>4
  <2>7. ASSUME NEW i \in 1 .. n PROVE hot.log[i] = t[i]
    <3>1. i \in 1 .. Len(prompt) + Len(r) /\ i <= Len(prompt)
      BY <2>3, <2>4
    <3> QED
      BY <2>2, <2>3, <3>1
  <2> QED
    BY <1>1, <2>2, <2>5, <2>6, <2>7, PrefilledFits
<1>4. Fits(hot') /\ (Truthful(hot) => Truthful(hot')) /\ phase' \in {"generated", "idle"}
  BY <1>1, <1>3, EmptyFits DEF Generate
<1> QED
  BY <1>1, <1>2, <1>4, TiersKept

LEMMA CancelledStep ==
    ASSUME PInv, Cancelled
    PROVE  PInv'
<1>1. /\ phase = "generated" /\ phase' = "idle"
      /\ UNCHANGED <<prompt, hot, convs, nextId, current, tick, ramUsed, diskUsed, files, misread>>
  BY DEF Cancelled, pool
<1>2. /\ convs' \in [Ids -> Conversations] /\ Fits(hot') /\ tick' \in Nat /\ prompt' \in Seq(Token)
      /\ (Truthful(hot) => Truthful(hot'))
  BY <1>1 DEF PInv, Shapes, TypeOK
<1> QED
  BY <1>1, <1>2, TiersKept

\* The canonical log is a sequence of tokens of any length.
LEMMA CanonicalIs ==
    ASSUME NEW p \in Prompts, NEW canonical \in Canonicals(p)
    PROVE  canonical \in Seq(Token)
<1>1. p \in Seq(Token) /\ Len(p) - Scaffold \in 0 .. Len(p)
  <2>1. p \in Seq(Token) /\ Len(p) \in Nat /\ Scaffold < Len(p)
    BY PromptIs
  <2>2. Scaffold \in Nat
    BY PoolSizes
  <2> QED
    BY <2>1, <2>2
<1>2. Prefix(p, Len(p) - Scaffold) \in Seq(Token)
  BY <1>1, PrefixIs
<1>3. \A a \in Answers \cup Replies : a \in Seq(Token)
  BY PoolInputs
<1> QED
  BY <1>1, <1>2, <1>3, ConcatProperties DEF Canonicals

\* What fits of the canonical log is what the KV is extended to.
LEMMA FinalizeStep ==
    ASSUME PInv, NEW canonical \in Canonicals(prompt), Finalize(canonical)
    PROVE  PInv'
<1> DEFINE fit == Least(Len(canonical), Capacity)
           reuse == Least(Common(hot.log, canonical), fit)
           kept == Prefix(canonical, fit)
<1>1. /\ convs \in [Ids -> Conversations] /\ Fits(hot) /\ prompt \in Prompts /\ phase = "generated"
      /\ tick \in Nat /\ hot.log \in Seq(Token) /\ prompt \in Seq(Token) /\ Capacity \in Nat
      /\ phase' = "idle"
  BY PromptIs, PoolSizes DEF PInv, Shapes, PromptOK, Finalize, Fits, Images
<1>2. UNCHANGED <<prompt, nextId, current, tick, ramUsed, diskUsed, files, misread>>
  BY DEF Finalize, pool
<1>3. canonical \in Seq(Token) /\ Len(canonical) \in Nat /\ Len(hot.log) \in Nat
  BY <1>1, CanonicalIs, LenProperties
<1>4. /\ Common(hot.log, canonical) \in Nat /\ Common(hot.log, canonical) <= Len(hot.log)
      /\ Common(hot.log, canonical) <= Len(canonical)
      /\ \A i \in 1 .. Common(hot.log, canonical) : hot.log[i] = canonical[i]
  BY <1>1, <1>3, CommonIs
<1>5. fit \in 0 .. Len(canonical) /\ fit <= Capacity /\ fit \in Nat
  BY <1>1, <1>3 DEF Least
<1>6. /\ reuse \in 0 .. Len(hot.log) /\ reuse <= fit /\ reuse <= Common(hot.log, canonical)
      /\ reuse \in Nat
  <2> HIDE DEF fit
  <2> QED
    BY <1>3, <1>4, <1>5 DEF Least
<1>7. \/ hot' = Prefilled(hot, reuse, kept)
      \/ hot' = Empty
      \/ hot' = Cut(hot, reuse)
  BY DEF Finalize
<1>8. \/ convs' = [convs EXCEPT ![current].tokens = canonical, ![current].used = tick]
      \/ UNCHANGED convs
  BY DEF Finalize
<1> HIDE DEF fit, reuse
<1>9. /\ kept \in Seq(Token) /\ Len(kept) = fit
      /\ \A i \in 1 .. fit : kept[i] = canonical[i]
  BY <1>3, <1>5, PrefixIs
<1>10. \A i \in 1 .. reuse : hot.log[i] = kept[i]
  <2>1. \A i \in 1 .. reuse : i \in 1 .. Common(hot.log, canonical) /\ i \in 1 .. fit
    BY <1>4, <1>5, <1>6
  <2> HIDE DEF kept
  <2> QED
    BY <1>4, <1>9, <2>1
<1>11. Fits(hot') /\ (Truthful(hot) => Truthful(hot'))
  <2> HIDE DEF kept
  <2>1. /\ Fits(Prefilled(hot, reuse, kept))
        /\ Truthful(hot) => Truthful(Prefilled(hot, reuse, kept))
    BY <1>1, <1>5, <1>6, <1>9, <1>10, PrefilledFits
  <2>2. Fits(Cut(hot, reuse)) /\ (Truthful(hot) => Truthful(Cut(hot, reuse)))
    BY <1>1, <1>6, CutFits
  <2> QED
    BY <1>7, <2>1, <2>2, EmptyFits
<1>12. /\ convs' \in [Ids -> Conversations]
       /\ \A i \in Ids : convs'[i].tier = convs[i].tier /\ convs'[i].snap = convs[i].snap
  <2>1. CASE convs' = [convs EXCEPT ![current].tokens = canonical, ![current].used = tick]
    <3>1. ASSUME NEW i \in Ids
          PROVE  convs'[i] = IF i = current
                             THEN [convs[i] EXCEPT !.tokens = canonical, !.used = tick]
                             ELSE convs[i]
      BY <1>1, <2>1
    <3>2. ASSUME NEW c \in Conversations
          PROVE  /\ [c EXCEPT !.tokens = canonical, !.used = tick] \in Conversations
                 /\ [c EXCEPT !.tokens = canonical, !.used = tick].tier = c.tier
                 /\ [c EXCEPT !.tokens = canonical, !.used = tick].snap = c.snap
      BY <1>1, <1>3 DEF Conversations
    <3>3. ASSUME NEW i \in Ids
          PROVE  /\ convs'[i] \in Conversations
                 /\ convs'[i].tier = convs[i].tier /\ convs'[i].snap = convs[i].snap
      BY <1>1, <3>1, <3>2
    <3>4. convs' = [i \in Ids |-> convs'[i]]
      BY <1>1, <2>1
    <3> QED
      BY <3>3, <3>4
  <2>2. CASE UNCHANGED convs
    BY <1>1, <2>2
  <2> QED
    BY <1>8, <2>1, <2>2
<1> QED
  BY <1>1, <1>2, <1>11, <1>12, TiersKept

-----------------------------------------------------------------------------
(* Every step, and the theorems.                                           *)

LEMMA NextPInv ==
    ASSUME PInv, [Next]_vars
    PROVE  PInv'
<1>1. CASE \E p \in Prompts : Activate(p)
  BY <1>1, ActivateStep
<1>2. CASE \E c \in Canonicals(prompt) : Finalize(c)
  BY <1>2, FinalizeStep
<1>3. CASE Spill \/ DropBlob \/ Rebalanced \/ Generate \/ Cancelled
  BY <1>3, SpillStep, DropBlobStep, RebalancedStep, GenerateStep, CancelledStep
<1>4. CASE Killed \/ Started
  BY <1>4, KilledStep, StartedStep
<1>5. CASE UNCHANGED vars
  <2> USE <1>5 DEF vars
  <2>1. TypeOK' /\ Shapes' /\ UnopenedHoldNothing'
    BY DEF PInv, TypeOK, Shapes, UnopenedHoldNothing
  <2>2. Counted'
    BY DEF PInv, Counted, RamWeight, DiskWeight, Total
  <2>3. PromptOK' /\ FilesMatch' /\ WithinBudgets' /\ TruthfulUnlessMisread'
    BY DEF PInv, PromptOK, FilesMatch, WithinBudgets, TruthfulUnlessMisread
  <2>4. Gone'
    BY DEF PInv, Gone, Nothing
  <2> QED
    BY <2>1, <2>2, <2>3, <2>4 DEF PInv
<1> QED
  BY <1>1, <1>2, <1>3, <1>4, <1>5 DEF Next

\* The invariant holds in every state of every pool.
THEOREM PoolInvariant == Spec => []PInv
<1>1. Init => PInv
  BY InitPInv
<1>2. PInv /\ [Next]_vars => PInv'
  BY NextPInv
<1> QED
  BY <1>1, <1>2, PTL DEF Spec

\* Every variable keeps to its type; the hot log never outgrows extend_capacity,
\* and neither counter of the tiers goes below zero.
THEOREM PoolTypes == Spec => []TypeOK
<1>1. PInv => TypeOK
  BY DEF PInv
<1> QED
  BY <1>1, PoolInvariant, PTL

\* Through switches, salvages, extensions and finalizes the session's log and
\* every RAM snapshot's name the tokens the KV was computed from, as long as
\* materialize laid no blob out under another log than its own.
THEOREM PoolIsTruthful == Spec => []TruthfulUnlessMisread
<1>1. PInv => TruthfulUnlessMisread
  BY DEF PInv
<1> QED
  BY <1>1, PoolInvariant, PTL

\* ram_used and disk_used are the sums over the tiers, the cache directory holds
\* the blobs of the conversations on disk and no others, and outside a rebalance
\* each budget holds up to the snapshot of the current conversation.
THEOREM PoolAccountsForItsTiers == Spec => []TiersAccounted
<1>1. PInv => TiersAccounted
  BY DEF PInv, Counted, FilesMatch, WithinBudgets, TiersAccounted
<1> QED
  BY <1>1, PoolInvariant, PTL

=============================================================================
