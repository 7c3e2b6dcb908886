--------------------------- MODULE DataPlaneProofs ---------------------------
(***************************************************************************)
(* SDUs on one link, for every set of flows, all sizes, weights and bounds.  *)
(***************************************************************************)
EXTENDS DataPlane, SequenceTheorems, FiniteSetTheorems, TLAPS

Sums     == INSTANCE Iteration WITH Step <- LAMBDA v, u, w, k, t : t + v[k]
Turns    == INSTANCE Iteration WITH Step <- LAMBDA v, u, w, k, b : SendOne(b)
Cycles   == INSTANCE Iteration WITH Step <- LAMBDA v, u, w, k, b : serveNext(b)
Passes   == INSTANCE Iteration WITH Step <- LAMBDA v, u, w, k, list : LookAt(k, list)
Receipts == INSTANCE Iteration WITH Step <- LAMBDA v, u, w, k, r : Taken(r, v[k])

-----------------------------------------------------------------------------
(* Sums. *)

LEMMA SumSteps ==
    ASSUME NEW v
    PROVE  \E sum : /\ Total(v) = sum[Len(v)]
                    /\ sum[0] = 0
                    /\ \A k \in Nat \ {0} : sum[k] = sum[k - 1] + v[k]
  <1> DEFINE sum[k \in Nat] == IF k = 0 THEN 0 ELSE sum[k - 1] + v[k]
  <1>1. \A p, x : \E f : f = [k \in Nat |-> IF k = 0 THEN x ELSE f[k - 1] + p[k]]
    BY Sums!Runs
  <1>2. sum = [k \in Nat |-> IF k = 0 THEN 0 ELSE sum[k - 1] + v[k]]
    BY <1>1
  <1>3. Total(v) = sum[Len(v)] BY DEF Total
  <1> HIDE DEF sum
  <1>4. \A k \in Nat \ {0} : sum[k] = sum[k - 1] + v[k] BY <1>2
  <1> QED BY <1>2, <1>3, <1>4

\* The sums up to k.
LEMMA SumsTyped ==
    ASSUME NEW v \in Seq(Int), NEW sum, sum[0] = 0,
           \A k \in Nat \ {0} : sum[k] = sum[k - 1] + v[k]
    PROVE  \A k \in 0 .. Len(v) : sum[k] \in Int
  <1> DEFINE Bad == {k \in 0 .. Len(v) : sum[k] \notin Int}
  <1>1. ASSUME NEW k \in Bad PROVE k - 1 \in Bad
    <2>1. k # 0 BY <1>1
    <2>2. k - 1 \in 0 .. Len(v) /\ k \in Nat \ {0} /\ k \in 1 .. Len(v) BY <2>1
    <2>3. sum[k] = sum[k - 1] + v[k] BY <2>2
    <2>4. v[k] \in Int BY <2>2
    <2> QED BY <2>2, <2>3, <2>4
  <1>2. Bad \in SUBSET Nat OBVIOUS
  <1> HIDE DEF Bad
  <1>3. Bad = {} BY <1>1, <1>2, Sums!Descent
  <1> QED BY <1>3 DEF Bad

LEMMA TotalInt ==
    ASSUME NEW v \in Seq(Int)
    PROVE  Total(v) \in Int /\ (Len(v) = 0 => Total(v) = 0)
  <1>1. PICK sum : /\ Total(v) = sum[Len(v)] /\ sum[0] = 0
                   /\ \A k \in Nat \ {0} : sum[k] = sum[k - 1] + v[k]
    BY SumSteps
  <1> QED BY <1>1, SumsTyped, SMTT(30)

LEMMA TotalAppend ==
    ASSUME NEW v \in Seq(Int), NEW x \in Int
    PROVE  Append(v, x) \in Seq(Int) /\ Total(Append(v, x)) = Total(v) + x
  <1> DEFINE w == Append(v, x)
             n == Len(v)
  <1>0. w \in Seq(Int) /\ n \in Nat /\ Len(w) = n + 1 /\ w[n + 1] = x
        /\ \A k \in 1 .. n : w[k] = v[k]
    OBVIOUS
  <1>1. PICK s : /\ Total(v) = s[n] /\ s[0] = 0
                 /\ \A k \in Nat \ {0} : s[k] = s[k - 1] + v[k]
    BY SumSteps
  <1> HIDE DEF w
  <1>2. PICK t : /\ Total(w) = t[Len(w)] /\ t[0] = 0
                 /\ \A k \in Nat \ {0} : t[k] = t[k - 1] + w[k]
    BY SumSteps
  <1> DEFINE Bad == {k \in 0 .. n : s[k] # t[k]}
  <1>3. ASSUME NEW k \in Bad PROVE k - 1 \in Bad
    <2>1. k # 0 BY <1>1, <1>2, <1>3
    <2>2. k - 1 \in 0 .. n /\ k \in Nat \ {0} /\ k \in 1 .. n BY <1>0, <2>1
    <2>3. s[k] = s[k - 1] + v[k] /\ t[k] = t[k - 1] + w[k] BY <1>1, <1>2, <2>2
    <2> QED BY <1>0, <2>2, <2>3
  <1>4. Bad = {}
    <2>1. Bad \in SUBSET Nat OBVIOUS
    <2> HIDE DEF Bad
    <2> QED BY <1>3, <2>1, Sums!Descent
  <1>5. s[n] = t[n] BY <1>0, <1>4
  <1>6. t[n + 1] = t[n] + x
    <2>1. n + 1 \in Nat \ {0} /\ (n + 1) - 1 = n BY <1>0
    <2>2. t[n + 1] = t[(n + 1) - 1] + w[n + 1] BY <1>2, <2>1
    <2> QED BY <1>0, <2>1, <2>2
  <1> QED BY <1>0, <1>1, <1>2, <1>5, <1>6 DEF w

LEMMA TotalTail ==
    ASSUME NEW v \in Seq(Int), v # <<>>
    PROVE  Tail(v) \in Seq(Int) /\ Total(Tail(v)) = Total(v) - Head(v)
  <1> DEFINE w == Tail(v)
             n == Len(v) - 1
  <1>0. w \in Seq(Int) /\ n \in Nat /\ Len(w) = n /\ v[1] = Head(v) /\ v[1] \in Int
        /\ \A k \in 1 .. n : w[k] = v[k + 1]
    OBVIOUS
  <1>1. PICK s : /\ Total(v) = s[n + 1] /\ s[0] = 0
                 /\ \A k \in Nat \ {0} : s[k] = s[k - 1] + v[k]
    BY SumSteps
  <1> HIDE DEF w, n
  <1>2. PICK t : /\ Total(w) = t[n] /\ t[0] = 0
                 /\ \A k \in Nat \ {0} : t[k] = t[k - 1] + w[k]
    BY <1>0, SumSteps
  <1> DEFINE Bad == {k \in 0 .. n : t[k] # s[k + 1] - v[1] \/ s[k + 1] \notin Int}
  <1>3. ASSUME NEW k \in Bad PROVE k - 1 \in Bad
    <2>1. k # 0
      <3>1. s[1] = v[1] BY <1>0, <1>1
      <3> QED BY <1>0, <1>2, <1>3, <3>1
    <2>2. k - 1 \in 0 .. n /\ k \in Nat \ {0} /\ k \in 1 .. n /\ k \in Nat BY <1>0, <2>1
    <2>3. s[k + 1] = s[(k + 1) - 1] + v[k + 1] /\ (k + 1) - 1 = k /\ t[k] = t[k - 1] + w[k] BY <1>1, <1>2, <2>2
    <2>4. v[k + 1] \in Int BY <2>2, <1>0 DEF n
    <2>5. SUFFICES ASSUME k - 1 \notin Bad PROVE FALSE OBVIOUS
    <2>6. t[k - 1] = s[k] - v[1] /\ s[k] \in Int BY <2>2, <2>5
    <2>7. w[k] = v[k + 1] BY <1>0, <2>2
    <2>8. t[k] = s[k + 1] - v[1] /\ s[k + 1] \in Int BY <1>0, <2>3, <2>4, <2>6, <2>7
    <2> QED BY <1>3, <2>8
  <1>4. Bad = {}
    <2>1. Bad \in SUBSET Nat OBVIOUS
    <2> HIDE DEF Bad
    <2> QED BY <1>3, <2>1, Sums!Descent
  <1>5. t[n] = s[n + 1] - v[1]
    <2>1. n \in 0 .. n BY <1>0
    <2>2. \A k \in 0 .. n : k \notin Bad BY <1>4
    <2> QED BY <2>1, <2>2
  <1> QED BY <1>0, <1>1, <1>2, <1>5 DEF w

\* One number changes.
LEMMA TotalExcept ==
    ASSUME NEW v \in Seq(Int), NEW i \in 1 .. Len(v), NEW x \in Int
    PROVE  /\ [v EXCEPT ![i] = x] \in Seq(Int)
           /\ Total([v EXCEPT ![i] = x]) = Total(v) - v[i] + x
  <1> DEFINE w == [v EXCEPT ![i] = x]
             n == Len(v)
  <1>0. w \in Seq(Int) /\ n \in Nat /\ Len(w) = n /\ w[i] = x
        /\ \A k \in 1 .. n : k # i => w[k] = v[k]
    OBVIOUS
  <1>1. PICK s : /\ Total(v) = s[n] /\ s[0] = 0
                 /\ \A k \in Nat \ {0} : s[k] = s[k - 1] + v[k]
    BY SumSteps
  <1> HIDE DEF w
  <1>2. PICK t : /\ Total(w) = t[Len(w)] /\ t[0] = 0
                 /\ \A k \in Nat \ {0} : t[k] = t[k - 1] + w[k]
    BY SumSteps
  <1> DEFINE Diff(k) == IF k >= i THEN x - v[i] ELSE 0
             Bad == {k \in 0 .. n : t[k] # s[k] + Diff(k) \/ s[k] \notin Int}
  <1>3. ASSUME NEW k \in Bad PROVE k - 1 \in Bad
    <2>1. k # 0 BY <1>1, <1>2, <1>3
    <2>2. k - 1 \in 0 .. n /\ k \in Nat \ {0} /\ k \in 1 .. n BY <1>0, <2>1
    <2>3. s[k] = s[k - 1] + v[k] /\ t[k] = t[k - 1] + w[k] BY <1>1, <1>2, <2>2
    <2>4. v[k] \in Int /\ v[i] \in Int BY <2>2
    <2>5. w[k] = v[k] + Diff(k) - Diff(k - 1)
      <3>1. CASE k = i BY <1>0, <2>2, <2>4, <3>1
      <3>2. CASE k # i BY <1>0, <2>2, <2>4, <3>2
      <3> QED BY <3>1, <3>2
    <2>6. Diff(k) \in Int /\ Diff(k - 1) \in Int BY <2>4
    <2>7. SUFFICES ASSUME k - 1 \notin Bad PROVE FALSE OBVIOUS
    <2>8. t[k - 1] = s[k - 1] + Diff(k - 1) /\ s[k - 1] \in Int BY <2>2, <2>7
    <2>9. t[k] # s[k] + Diff(k) \/ s[k] \notin Int BY <1>3
    <2> HIDE DEF Diff, Bad
    <2> QED BY <2>3, <2>4, <2>5, <2>6, <2>8, <2>9, SMTT(30)
  <1>4. Bad = {}
    <2>1. Bad \in SUBSET Nat OBVIOUS
    <2> HIDE DEF Bad
    <2> QED BY <1>3, <2>1, Sums!Descent
  <1>5. n \in 0 .. n /\ n >= i BY <1>0
  <1>6. t[n] = s[n] + Diff(n) /\ s[n] \in Int
    <2>1. n \notin Bad => t[n] = s[n] + Diff(n) /\ s[n] \in Int BY <1>5
    <2> QED BY <1>4, <2>1
  <1>7. Diff(n) = x - v[i] /\ v[i] \in Int BY <1>5
  <1> HIDE DEF Diff, Bad
  <1>8. Total(w) = Total(v) + (x - v[i]) /\ Total(v) \in Int BY <1>0, <1>1, <1>2, <1>6, <1>7
  <1>9. Total(w) = Total(v) - v[i] + x BY <1>7, <1>8
  <1> QED BY <1>0, <1>9 DEF w

\* A sum of natural numbers is at least each of them.
LEMMA TotalNat ==
    ASSUME NEW v \in Seq(Nat)
    PROVE  Total(v) \in Nat /\ \A i \in 1 .. Len(v) : v[i] <= Total(v)
  <1> DEFINE n == Len(v)
  <1>1. PICK s : /\ Total(v) = s[n] /\ s[0] = 0
                 /\ \A k \in Nat \ {0} : s[k] = s[k - 1] + v[k]
    BY SumSteps
  <1> DEFINE Bad == {k \in 0 .. n : s[k] \notin Nat \/ \E i \in 1 .. k : v[i] > s[k]}
  <1>2. ASSUME NEW k \in Bad PROVE k - 1 \in Bad
    <2>1. k # 0 BY <1>1, <1>2
    <2>2. k - 1 \in 0 .. n /\ k \in Nat \ {0} /\ k \in 1 .. n BY <2>1
    <2>3. s[k] = s[k - 1] + v[k] BY <1>1, <2>2
    <2>4. \A i \in 1 .. k : v[i] \in Nat BY <2>2
    <2>5. SUFFICES ASSUME k - 1 \notin Bad PROVE FALSE OBVIOUS
    <2>6. s[k - 1] \in Nat /\ \A i \in 1 .. k - 1 : v[i] <= s[k - 1] BY <2>2, <2>5
    <2>7. v[k] \in Nat BY <2>2, <2>4
    <2>8. s[k] \in Nat BY <2>3, <2>6, <2>7
    <2>9. \A i \in 1 .. k : v[i] <= s[k]
      <3>1. ASSUME NEW i \in 1 .. k, i # k PROVE v[i] <= s[k]
        <4>1. i \in 1 .. k - 1 BY <2>2, <3>1
        <4>2. v[i] <= s[k - 1] /\ v[i] \in Nat /\ s[k - 1] \in Nat BY <2>4, <2>6, <4>1
        <4> QED BY <2>3, <2>7, <4>2
      <3>2. v[k] <= s[k] BY <2>3, <2>6, <2>7
      <3> QED BY <3>1, <3>2
    <2>10. k \notin Bad BY <2>8, <2>9
    <2> HIDE DEF Bad
    <2> QED BY <1>2, <2>10
  <1>3. Bad = {}
    <2>1. Bad \in SUBSET Nat OBVIOUS
    <2> HIDE DEF Bad
    <2> QED BY <1>2, <2>1, Sums!Descent
  <1>4. n \in 0 .. n /\ n \notin Bad BY <1>3
  <1> QED BY <1>1, <1>4

-----------------------------------------------------------------------------
(* PDUs and queues. *)

State == {"NO_FRAG", "FIRST_FRAG", "CONT_FRAG", "LAST_FRAG"}
PduSet == [flow : Flow, mark : Nat, data : Nat, off : Nat, state : State, fsn : 0 .. FsnSize - 1]
DescSet == [flow : Flow, quantum : Nat, deficit : Nat, size : Nat, queue : Seq(PduSet)]

LEMMA SizeNat ==
    \A p \in PduSet : size(p) \in Nat \ {0}
  BY DataPlaneAssumption DEF PduSet, size

LEMMA PduIsNotEmpty == \A p \in PduSet : p # <<>>
  <1> SUFFICES ASSUME NEW p \in PduSet, p = <<>> PROVE FALSE OBVIOUS
  <1>1. DOMAIN p = {"flow", "mark", "data", "off", "state", "fsn"} BY DEF PduSet
  <1>2. DOMAIN p = {} BY DOMAIN <<>> = 1 .. 0
  <1> QED BY <1>1, <1>2

\* The bytes of a queue.
LEMMA SizesOf ==
    ASSUME NEW q \in Seq(PduSet)
    PROVE  [i \in DOMAIN q |-> size(q[i])] \in Seq(Nat)
  <1>1. DOMAIN q = 1 .. Len(q) /\ Len(q) \in Nat OBVIOUS
  <1>2. \A i \in 1 .. Len(q) : size(q[i]) \in Nat BY SizeNat
  <1> HIDE DEF PduSet
  <1> QED BY <1>1, <1>2

LEMMA BytesNat ==
    ASSUME NEW q \in Seq(PduSet)
    PROVE  /\ Bytes(q) \in Nat
           /\ q = <<>> => Bytes(q) = 0
           /\ q # <<>> => Head(q) \in PduSet /\ size(Head(q)) <= Bytes(q) /\ Bytes(q) > 0
  <1> DEFINE v == [i \in DOMAIN q |-> size(q[i])]
  <1>1. v \in Seq(Nat) BY SizesOf
  <1>2. Len(v) = Len(q) /\ \A i \in 1 .. Len(q) : v[i] = size(q[i]) OBVIOUS
  <1>3. Bytes(q) = Total(v) BY DEF Bytes
  <1> HIDE DEF v
  <1>4. v \in Seq(Int)
    <2>1. Nat \subseteq Int OBVIOUS
    <2> QED BY <1>1, <2>1
  <1>5. Total(v) \in Nat /\ \A i \in 1 .. Len(v) : v[i] <= Total(v) BY <1>1, TotalNat
  <1>6. ASSUME q # <<>> PROVE Head(q) \in PduSet /\ size(Head(q)) <= Bytes(q) /\ Bytes(q) > 0
    <2>1. 1 \in 1 .. Len(q) /\ Head(q) = q[1] /\ q[1] \in PduSet BY <1>6
    <2>2. size(q[1]) \in Nat \ {0} BY <2>1, SizeNat
    <2> QED BY <1>2, <1>3, <1>5, <2>1, <2>2
  <1> QED BY <1>2, <1>3, <1>4, <1>5, <1>6, TotalInt

LEMMA BytesAppend ==
    ASSUME NEW q \in Seq(PduSet), NEW p \in PduSet
    PROVE  Append(q, p) \in Seq(PduSet) /\ Bytes(Append(q, p)) = Bytes(q) + size(p)
  <1> DEFINE r == Append(q, p)
             v == [i \in DOMAIN q |-> size(q[i])]
             w == [i \in DOMAIN r |-> size(r[i])]
  <1>1. v \in Seq(Int) /\ size(p) \in Int
    <2>1. v \in Seq(Nat) BY SizesOf
    <2>2. Nat \subseteq Int OBVIOUS
    <2> QED BY <2>1, <2>2, SizeNat
  <1>2. r \in Seq(PduSet) /\ Len(r) = Len(q) + 1 /\ r[Len(q) + 1] = p
        /\ \A i \in 1 .. Len(q) : r[i] = q[i]
    OBVIOUS
  <1>3. DOMAIN r = 1 .. Len(q) + 1 /\ DOMAIN q = 1 .. Len(q) /\ Len(q) \in Nat BY <1>2
  <1> HIDE DEF r
  <1>4. w = Append(v, size(p)) BY <1>2, <1>3
  <1> QED BY <1>1, <1>2, <1>4, TotalAppend DEF Bytes, r

LEMMA BytesTail ==
    ASSUME NEW q \in Seq(PduSet), q # <<>>
    PROVE  /\ Tail(q) \in Seq(PduSet) /\ Len(Tail(q)) = Len(q) - 1
           /\ \A i \in 1 .. Len(q) - 1 : Tail(q)[i] = q[i + 1]
           /\ Bytes(Tail(q)) = Bytes(q) - size(Head(q))
  <1> DEFINE r == Tail(q)
             v == [i \in DOMAIN q |-> size(q[i])]
             w == [i \in DOMAIN r |-> size(r[i])]
  <1>1. v \in Seq(Int) /\ Len(v) = Len(q)
    <2>1. v \in Seq(Nat) BY SizesOf
    <2>2. Nat \subseteq Int OBVIOUS
    <2> QED BY <2>1, <2>2
  <1>2. r \in Seq(PduSet) /\ Len(r) = Len(q) - 1 /\ \A i \in 1 .. Len(q) - 1 : r[i] = q[i + 1]
    OBVIOUS
  <1>3. DOMAIN r = 1 .. Len(q) - 1 /\ DOMAIN q = 1 .. Len(q) /\ Len(q) \in Nat \ {0} BY <1>2
  <1> HIDE DEF r
  <1>4. w = Tail(v) BY <1>1, <1>2, <1>3, SMTT(30)
  <1>5. v # <<>> /\ Head(v) = size(Head(q)) BY <1>1, <1>3
  <1>6. Bytes(q) = Total(v) /\ Bytes(r) = Total(w) BY DEF Bytes
  <1> HIDE DEF v, w
  <1> QED BY <1>1, <1>2, <1>4, <1>5, <1>6, TotalTail DEF r

-----------------------------------------------------------------------------
(* Descriptors and the lists of them. *)

\* A PDU in the queue of flow f.
Fresh(p, f) == p.flow = f /\ p.state = "NO_FRAG" /\ p.off = 0

\* A descriptor whose counts are those of its queue.
Valid(d) ==
    /\ d.size = Bytes(d.queue)
    /\ d.deficit <= d.size
    /\ \A i \in 1 .. Len(d.queue) : Fresh(d.queue[i], d.flow)
    /\ conf.sharing = "PER_FLOW" => d.size <= conf.maxBufSize

\* A list of service s: valid descriptors of distinct flows.
Ring(list, s) ==
    /\ list \in Seq(DescSet)
    /\ \A i \in 1 .. Len(list) : Valid(list[i]) /\ Serv[list[i].flow] = s
    /\ \A i, j \in 1 .. Len(list) : list[i].flow = list[j].flow => i = j

\* The bytes queued in a list.
Owed(list) == Total([i \in DOMAIN list |-> list[i].size])

LEMMA DescFields ==
    \A d \in DescSet : /\ d.flow \in Flow /\ d.quantum \in Nat /\ d.deficit \in Nat
                       /\ d.size \in Nat /\ d.queue \in Seq(PduSet)
  BY DEF DescSet

LEMMA OwedNat ==
    ASSUME NEW list \in Seq(DescSet)
    PROVE  /\ [i \in DOMAIN list |-> list[i].size] \in Seq(Nat)
           /\ [i \in DOMAIN list |-> list[i].size] \in Seq(Int)
           /\ Len([i \in DOMAIN list |-> list[i].size]) = Len(list)
           /\ Owed(list) \in Nat
           /\ Len(list) = 0 => Owed(list) = 0
           /\ \A i \in 1 .. Len(list) : list[i].size <= Owed(list)
  <1> DEFINE v == [i \in DOMAIN list |-> list[i].size]
  <1>1. DOMAIN list = 1 .. Len(list) /\ Len(list) \in Nat OBVIOUS
  <1>2. \A i \in 1 .. Len(list) : list[i].size \in Nat BY DescFields
  <1>3. v \in Seq(Nat) /\ Len(v) = Len(list) /\ \A i \in 1 .. Len(list) : v[i] = list[i].size
    BY <1>1, <1>2
  <1>4. v \in Seq(Int)
    <2>1. Nat \subseteq Int OBVIOUS
    <2> QED BY <1>3, <2>1
  <1>5. Owed(list) = Total(v) BY DEF Owed
  <1> HIDE DEF v
  <1> QED BY <1>3, <1>4, <1>5, TotalNat, TotalInt DEF v

LEMMA OwedAppend ==
    ASSUME NEW list \in Seq(DescSet), NEW d \in DescSet
    PROVE  /\ Append(list, d) \in Seq(DescSet)
           /\ Owed(Append(list, d)) = Owed(list) + d.size
  <1> DEFINE r == Append(list, d)
             v == [i \in DOMAIN list |-> list[i].size]
             w == [i \in DOMAIN r |-> r[i].size]
  <1>1. v \in Seq(Int) /\ Len(v) = Len(list) /\ d.size \in Int
    BY OwedNat, DescFields
  <1>2. r \in Seq(DescSet) /\ Len(r) = Len(list) + 1 /\ r[Len(list) + 1] = d
        /\ \A i \in 1 .. Len(list) : r[i] = list[i]
    OBVIOUS
  <1>3. DOMAIN r = 1 .. Len(list) + 1 /\ DOMAIN list = 1 .. Len(list) /\ Len(list) \in Nat
    BY <1>2
  <1> HIDE DEF r
  <1>4. w = Append(v, d.size) BY <1>2, <1>3
  <1>5. Owed(list) = Total(v) /\ Owed(r) = Total(w) BY DEF Owed
  <1> HIDE DEF v, w
  <1> QED BY <1>1, <1>2, <1>4, <1>5, TotalAppend DEF r

LEMMA OwedTail ==
    ASSUME NEW list \in Seq(DescSet), list # <<>>
    PROVE  /\ Tail(list) \in Seq(DescSet)
           /\ Owed(Tail(list)) = Owed(list) - Head(list).size
  <1> DEFINE r == Tail(list)
             v == [i \in DOMAIN list |-> list[i].size]
             w == [i \in DOMAIN r |-> r[i].size]
  <1>1. v \in Seq(Int) /\ Len(v) = Len(list) BY OwedNat
  <1>2. r \in Seq(DescSet) /\ Len(r) = Len(list) - 1
        /\ \A i \in 1 .. Len(list) - 1 : r[i] = list[i + 1]
    OBVIOUS
  <1>3. DOMAIN r = 1 .. Len(list) - 1 /\ DOMAIN list = 1 .. Len(list) /\ Len(list) \in Nat \ {0}
    BY <1>2
  <1> HIDE DEF r
  <1>4. w = Tail(v)
    <2>1. \A i \in 1 .. Len(list) - 1 : w[i] = v[i + 1] BY <1>1, <1>2, <1>3
    <2>2. w \in Seq(Int) /\ Len(w) = Len(list) - 1 BY <1>2, OwedNat
    <2>3. /\ Tail(v) \in Seq(Int) /\ Len(Tail(v)) = Len(list) - 1
          /\ \A i \in 1 .. Len(list) - 1 : Tail(v)[i] = v[i + 1]
      BY <1>1, <1>3
    <2> HIDE DEF v, w
    <2> QED BY <2>1, <2>2, <2>3, SeqEqual
  <1>5. v # <<>> /\ Head(v) = Head(list).size BY <1>1, <1>3
  <1>6. Owed(list) = Total(v) /\ Owed(r) = Total(w) BY DEF Owed
  <1> HIDE DEF v, w
  <1> QED BY <1>1, <1>2, <1>4, <1>5, <1>6, TotalTail DEF r

\* One descriptor changes.
LEMMA OwedExcept ==
    ASSUME NEW list \in Seq(DescSet), NEW i \in 1 .. Len(list), NEW d \in DescSet
    PROVE  /\ [list EXCEPT ![i] = d] \in Seq(DescSet)
           /\ Owed([list EXCEPT ![i] = d]) = Owed(list) - list[i].size + d.size
  <1> DEFINE r == [list EXCEPT ![i] = d]
             v == [j \in DOMAIN list |-> list[j].size]
             w == [j \in DOMAIN r |-> r[j].size]
  <1>1. v \in Seq(Int) /\ Len(v) = Len(list) /\ d.size \in Int /\ v[i] = list[i].size
    BY OwedNat, DescFields
  <1>2. r \in Seq(DescSet) /\ Len(r) = Len(list) /\ r[i] = d
        /\ \A j \in 1 .. Len(list) : j # i => r[j] = list[j]
    OBVIOUS
  <1>3. DOMAIN r = 1 .. Len(list) /\ DOMAIN list = 1 .. Len(list) BY <1>2
  <1> HIDE DEF r
  <1>4. w = [v EXCEPT ![i] = d.size] BY <1>2, <1>3
  <1>5. Owed(list) = Total(v) /\ Owed(r) = Total(w) BY DEF Owed
  <1> HIDE DEF v, w
  <1>6. Total([v EXCEPT ![i] = d.size]) = Total(v) - v[i] + d.size BY <1>1, TotalExcept
  <1> QED BY <1>1, <1>2, <1>4, <1>5, <1>6 DEF r

\* One descriptor of a ring changes, but not its flow.
LEMMA RingExcept ==
    ASSUME NEW list, NEW s, Ring(list, s), NEW i \in 1 .. Len(list),
           NEW d \in DescSet, Valid(d), d.flow = list[i].flow
    PROVE  /\ Ring([list EXCEPT ![i] = d], s)
           /\ Owed([list EXCEPT ![i] = d]) = Owed(list) - list[i].size + d.size
  <1>1. list \in Seq(DescSet) BY DEF Ring
  <1>2. /\ [list EXCEPT ![i] = d] \in Seq(DescSet)
        /\ Owed([list EXCEPT ![i] = d]) = Owed(list) - list[i].size + d.size
    BY <1>1, OwedExcept
  <1>3. Len([list EXCEPT ![i] = d]) = Len(list)
        /\ \A j \in 1 .. Len(list) :
              [list EXCEPT ![i] = d][j] = IF j = i THEN d ELSE list[j]
    BY <1>1, ExceptSeq
  <1> HIDE DEF DescSet
  <1> QED BY <1>2, <1>3 DEF Ring

\* A descriptor of another flow is added.
LEMMA RingAppend ==
    ASSUME NEW list, NEW s, Ring(list, s), NEW d \in DescSet, Valid(d), Serv[d.flow] = s,
           \A i \in 1 .. Len(list) : list[i].flow # d.flow
    PROVE  /\ Ring(Append(list, d), s)
           /\ Owed(Append(list, d)) = Owed(list) + d.size
  <1>1. list \in Seq(DescSet) BY DEF Ring
  <1>2. /\ Append(list, d) \in Seq(DescSet)
        /\ Owed(Append(list, d)) = Owed(list) + d.size
    BY <1>1, OwedAppend
  <1> HIDE DEF DescSet
  <1>3. Len(Append(list, d)) = Len(list) + 1
        /\ \A j \in 1 .. Len(list) + 1 :
              Append(list, d)[j] = IF j = Len(list) + 1 THEN d ELSE list[j]
    BY <1>1
  <1> QED BY <1>1, <1>2, <1>3 DEF Ring

\* The current one is taken out.
LEMMA RingTail ==
    ASSUME NEW list, NEW s, Ring(list, s), list # <<>>
    PROVE  /\ Ring(Tail(list), s)
           /\ Head(list) = list[1] /\ 1 \in 1 .. Len(list)
           /\ Head(list) \in DescSet /\ Valid(Head(list)) /\ Serv[Head(list).flow] = s
           /\ Owed(Tail(list)) = Owed(list) - Head(list).size
           /\ Len(Tail(list)) = Len(list) - 1
           /\ \A i \in 1 .. Len(list) - 1 : Tail(list)[i] = list[i + 1]
           /\ \A i \in 1 .. Len(Tail(list)) : Tail(list)[i].flow # Head(list).flow
  <1>1. list \in Seq(DescSet) BY DEF Ring
  <1>2. /\ Tail(list) \in Seq(DescSet)
        /\ Owed(Tail(list)) = Owed(list) - Head(list).size
    BY <1>1, OwedTail
  <1> HIDE DEF DescSet
  <1>3. Len(Tail(list)) = Len(list) - 1 /\ Len(list) \in Nat \ {0}
        /\ \A j \in 1 .. Len(list) - 1 : Tail(list)[j] = list[j + 1]
    BY <1>1
  <1>4. Head(list) = list[1] /\ 1 \in 1 .. Len(list) BY <1>1, <1>3
  <1> QED BY <1>1, <1>2, <1>3, <1>4 DEF Ring

\* The current one goes to the end.
LEMMA RingRotate ==
    ASSUME NEW list, NEW s, Ring(list, s), list # <<>>
    PROVE  /\ Ring(Append(Tail(list), Head(list)), s)
           /\ Owed(Append(Tail(list), Head(list))) = Owed(list)
  <1>1. /\ Ring(Tail(list), s)
        /\ Head(list) \in DescSet /\ Valid(Head(list)) /\ Serv[Head(list).flow] = s
        /\ Owed(Tail(list)) = Owed(list) - Head(list).size
        /\ \A i \in 1 .. Len(Tail(list)) : Tail(list)[i].flow # Head(list).flow
    BY RingTail
  <1>2. Owed(list) \in Nat /\ Head(list).size \in Nat
    <2>1. list \in Seq(DescSet) BY DEF Ring
    <2> QED BY <1>1, <2>1, OwedNat, DescFields
  <1>3. /\ Ring(Append(Tail(list), Head(list)), s)
        /\ Owed(Append(Tail(list), Head(list))) = Owed(Tail(list)) + Head(list).size
    BY <1>1, RingAppend
  <1> QED BY <1>1, <1>2, <1>3

\* Flows, counts and queues stay as they are.
LEMMA RingSimilar ==
    ASSUME NEW list \in Seq(DescSet), NEW r \in Seq(DescSet), Len(r) = Len(list),
           \A i \in 1 .. Len(list) : /\ r[i].flow = list[i].flow
                                     /\ r[i].deficit = list[i].deficit
                                     /\ r[i].size = list[i].size
                                     /\ r[i].queue = list[i].queue
    PROVE  /\ Owed(r) = Owed(list)
           /\ \A s : Ring(list, s) => Ring(r, s)
  <1> HIDE DEF DescSet
  <1>1. DOMAIN list = 1 .. Len(list) /\ DOMAIN r = 1 .. Len(list) OBVIOUS
  <1>2. [i \in DOMAIN list |-> list[i].size] = [i \in DOMAIN r |-> r[i].size] BY <1>1
  <1>3. Owed(r) = Owed(list) BY <1>2 DEF Owed
  <1>4. \A i \in 1 .. Len(list) : Valid(list[i]) => Valid(r[i]) BY DEF Valid
  <1> QED BY <1>3, <1>4 DEF Ring

\* recompute changes nothing but the quanta.
LEMMA Recomputed ==
    ASSUME NEW list \in Seq(DescSet)
    PROVE  LET r == recompute(list)
           IN /\ r \in Seq(DescSet) /\ Len(r) = Len(list)
              /\ \A i \in 1 .. Len(list) : /\ r[i].flow = list[i].flow
                                           /\ r[i].deficit = list[i].deficit
                                           /\ r[i].size = list[i].size
                                           /\ r[i].queue = list[i].queue
  <1> DEFINE v == [i \in DOMAIN list |-> Weight[list[i].flow]]
             sum == Total(v)
             quantum(f) == (roundDuration * Weight[f]) \div sum
             e(i) == [list[i] EXCEPT !.quantum = IF quantum(list[i].flow) > 0
                                             THEN quantum(list[i].flow) ELSE 1]
  <1>1. DOMAIN list = 1 .. Len(list) /\ Len(list) \in Nat
        /\ \A i \in 1 .. Len(list) : list[i] \in DescSet /\ list[i].flow \in Flow
    BY DescFields
  <1>2. \A f \in Flow : Weight[f] \in Nat \ {0} BY DataPlaneAssumption
  <1>3. v \in Seq(Nat) /\ Len(v) = Len(list) /\ \A i \in 1 .. Len(list) : v[i] = Weight[list[i].flow]
    BY <1>1, <1>2
  <1>4. sum \in Nat /\ \A i \in 1 .. Len(list) : Weight[list[i].flow] <= sum
    BY <1>3, TotalNat
  <1> HIDE DEF sum
  <1>5. \A i \in 1 .. Len(list) : quantum(list[i].flow) \in Nat
    <2> TAKE i \in 1 .. Len(list)
    <2>1. sum \in Nat \ {0} /\ Weight[list[i].flow] \in Nat BY <1>1, <1>2, <1>4
    <2>2. roundDuration * Weight[list[i].flow] \in Nat BY <2>1, DataPlaneAssumption
    <2> QED BY <2>1, <2>2
  <1> HIDE DEF quantum
  <1>6. \A i \in 1 .. Len(list) :
           /\ e(i) \in DescSet
           /\ e(i).flow = list[i].flow /\ e(i).deficit = list[i].deficit
           /\ e(i).size = list[i].size /\ e(i).queue = list[i].queue
    BY <1>1, <1>5 DEF DescSet
  <1>7. recompute(list) = [i \in 1 .. Len(list) |-> e(i)]
    BY <1>1 DEF recompute, quantum, sum
  <1> HIDE DEF e, DescSet
  <1> QED BY <1>1, <1>6, <1>7

-----------------------------------------------------------------------------
(* The burst that is being filled. *)

BurstSet == [pdus : Seq(PduSet), room : Nat, spare : BOOLEAN, last : PduSet \cup {<<>>},
             fsn : 0 .. FsnSize - 1, rr : Seq(DescSet), unfinished : BOOLEAN, sent : Nat]

\* What a burst has besides the PDUs, the room and the fragment.
SameRest(c, b) == c.rr = b.rr /\ c.unfinished = b.unfinished /\ c.sent = b.sent

\* p is cut in two.
Split(p, piece, rest) ==
    /\ piece \in PduSet /\ rest \in PduSet
    /\ piece.flow = p.flow /\ rest.flow = p.flow
    /\ piece.mark = p.mark /\ rest.mark = p.mark
    /\ piece.state = (IF isFrag(p) THEN "CONT_FRAG" ELSE "FIRST_FRAG")
    /\ rest.state = "CONT_FRAG"
    /\ rest.fsn = piece.fsn
    /\ isFrag(p) => piece.fsn = p.fsn
    /\ piece.off = p.off /\ rest.off = p.off + piece.data

\* q is p, or its last piece.
Closes(p, q) ==
    /\ q \in PduSet
    /\ q.flow = p.flow /\ q.mark = p.mark /\ q.data = p.data /\ q.off = p.off /\ q.fsn = p.fsn
    /\ q.state = (IF isFrag(p) THEN "LAST_FRAG" ELSE p.state)

LEMMA BurstFields ==
    \A b \in BurstSet : /\ b.pdus \in Seq(PduSet) /\ b.room \in Nat /\ b.spare \in BOOLEAN
                        /\ b.last \in PduSet \cup {<<>>} /\ b.fsn \in 0 .. FsnSize - 1
                        /\ b.rr \in Seq(DescSet) /\ b.unfinished \in BOOLEAN /\ b.sent \in Nat
  BY DEF BurstSet

LEMMA PduFields ==
    \A p \in PduSet : /\ p.flow \in Flow /\ p.mark \in Nat /\ p.data \in Nat /\ p.off \in Nat
                      /\ p.state \in State /\ p.fsn \in 0 .. FsnSize - 1
                      /\ Header[p.flow] \in Nat \ {0} /\ Fsh \in Nat
                      /\ size(p) \in Nat \ {0}
                      /\ p.state # "NO_FRAG" => size(p) = p.data + Header[p.flow] + Fsh
                      /\ p.state = "NO_FRAG" => size(p) = p.data + Header[p.flow]
  BY SizeNat, DataPlaneAssumption DEF PduSet, size, isFrag

LEMMA Numbered ==
    ASSUME NEW b \in BurstSet
    PROVE  /\ NextFsn(b) \in BurstSet /\ SameRest(NextFsn(b), b)
           /\ NextFsn(b).pdus = b.pdus /\ NextFsn(b).room = b.room
           /\ NextFsn(b).spare = b.spare /\ NextFsn(b).last = b.last
  <1>1. (b.fsn + 1) % FsnSize \in 0 .. FsnSize - 1 BY DataPlaneAssumption, BurstFields
  <1> QED BY <1>1 DEF NextFsn, BurstSet, SameRest

LEMMA WholeAdded ==
    ASSUME NEW b \in BurstSet, NEW p \in PduSet, size(p) <= b.room
    PROVE  /\ Whole(b, p) \in BurstSet /\ SameRest(Whole(b, p), b)
           /\ Whole(b, p).pdus = Append(b.pdus, p) /\ Whole(b, p).last = b.last
           /\ Whole(b, p).room + Bytes(Whole(b, p).pdus) = b.room + Bytes(b.pdus)
  <1>1. b.pdus \in Seq(PduSet) /\ b.room \in Nat BY BurstFields
  <1>2. Append(b.pdus, p) \in Seq(PduSet) /\ Bytes(Append(b.pdus, p)) = Bytes(b.pdus) + size(p)
    BY <1>1, BytesAppend
  <1>3. size(p) \in Nat /\ Bytes(b.pdus) \in Nat BY <1>1, SizeNat, BytesNat
  <1>4. b.room - size(p) \in Nat /\ (b.room - size(p) > MinSize) \in BOOLEAN BY <1>1, <1>3
  <1>5. /\ Whole(b, p) \in BurstSet /\ SameRest(Whole(b, p), b)
        /\ Whole(b, p).pdus = Append(b.pdus, p) /\ Whole(b, p).last = b.last
        /\ Whole(b, p).room = b.room - size(p)
    BY <1>2, <1>4 DEF Whole, BurstSet, SameRest
  <1> QED BY <1>1, <1>2, <1>3, <1>5

LEMMA FragmentAdded ==
    ASSUME NEW b \in BurstSet, NEW p \in PduSet, size(p) > b.room, fragsize(b, p) >= 1
    PROVE  LET c == Fragment(b, p, fragsize(b, p))
           IN /\ c \in BurstSet /\ SameRest(c, b) /\ c.spare = FALSE
              /\ c.room + Bytes(c.pdus) = b.room + Bytes(b.pdus)
              /\ \E piece, rest \in PduSet : /\ c.pdus = Append(b.pdus, piece) /\ c.last = rest
                                             /\ Split(p, piece, rest)
  <1> DEFINE n == fragsize(b, p)
             first == ~isFrag(p)
             piece == [p EXCEPT !.data = n, !.fsn = IF first THEN b.fsn ELSE @,
                                !.state = IF first THEN "FIRST_FRAG" ELSE "CONT_FRAG"]
             rest == [piece EXCEPT !.data = p.data - n, !.off = @ + n, !.state = "CONT_FRAG"]
             c == Fragment(b, p, n)
  <1>1. b.pdus \in Seq(PduSet) /\ b.room \in Nat /\ b.fsn \in 0 .. FsnSize - 1 BY BurstFields
  <1>2. n \in Nat /\ n <= p.data /\ n + Header[p.flow] + Fsh = b.room /\ p.data - n \in Nat
    <2>1. /\ p.data \in Nat /\ Header[p.flow] \in Nat /\ Fsh \in Nat
          /\ size(p) <= p.data + Header[p.flow] + Fsh
      BY PduFields
    <2>2. n = b.room - Header[p.flow] - Fsh /\ n >= 1 BY DEF fragsize
    <2>3. size(p) > b.room /\ size(p) \in Nat BY SizeNat
    <2> HIDE DEF n
    <2>4. n \in Nat BY <1>1, <2>1, <2>2
    <2>5. n + Header[p.flow] + Fsh = b.room BY <1>1, <2>1, <2>2
    <2>6. n <= p.data BY <1>1, <2>1, <2>3, <2>4, <2>5
    <2> QED BY <2>1, <2>4, <2>5, <2>6
  <1>3. p.off + n \in Nat BY <1>2, PduFields
  <1> HIDE DEF n
  <1>4. piece \in PduSet /\ rest \in PduSet /\ piece.data = n /\ piece.flow = p.flow
        /\ piece.state # "NO_FRAG"
    BY <1>1, <1>2, <1>3 DEF PduSet, State
  <1>5. Split(p, piece, rest) BY <1>4 DEF Split, PduSet
  <1>6. size(piece) = b.room BY <1>2, <1>4, PduFields
  <1>7. c = [(IF first THEN NextFsn(b) ELSE b) EXCEPT
               !.pdus = Append(@, piece), !.room = 0, !.last = rest, !.spare = FALSE]
    BY DEF Fragment
  <1> HIDE DEF piece, rest, c, first
  <1> DEFINE b1 == IF first THEN NextFsn(b) ELSE b
  <1>8. b1 \in BurstSet /\ SameRest(b1, b) /\ b1.pdus = b.pdus BY Numbered DEF SameRest
  <1> HIDE DEF b1
  <1>9. Append(b.pdus, piece) \in Seq(PduSet)
        /\ Bytes(Append(b.pdus, piece)) = Bytes(b.pdus) + size(piece)
    BY <1>1, <1>4, BytesAppend
  <1>10. c = [b1 EXCEPT !.pdus = Append(@, piece), !.room = 0, !.last = rest, !.spare = FALSE]
    BY <1>7 DEF b1
  <1>11. /\ c \in BurstSet /\ SameRest(c, b1) /\ c.spare = FALSE /\ c.room = 0
         /\ c.pdus = Append(b.pdus, piece) /\ c.last = rest
    BY <1>4, <1>8, <1>9, <1>10 DEF BurstSet, SameRest
  <1>12. c.room + Bytes(c.pdus) = b.room + Bytes(b.pdus)
    <2>1. Bytes(b.pdus) \in Nat BY <1>1, BytesNat
    <2> QED BY <1>1, <1>6, <1>9, <1>11, <2>1
  <1> QED BY <1>4, <1>5, <1>8, <1>11, <1>12 DEF SameRest, n, c

\* addPdu: p goes into the burst, or is cut in two, or stays pending.
LEMMA Added ==
    ASSUME NEW b \in BurstSet, NEW p \in PduSet
    PROVE  LET c == addPdu(b, p)
           IN /\ c \in BurstSet /\ SameRest(c, b)
              /\ c.room + Bytes(c.pdus) = b.room + Bytes(b.pdus)
              /\ \/ c.pdus = Append(b.pdus, p) /\ c.last = b.last
                 \/ /\ c.spare = FALSE
                    /\ \E piece, rest \in PduSet : /\ c.pdus = Append(b.pdus, piece) /\ c.last = rest
                                                   /\ Split(p, piece, rest)
                 \/ c.spare = FALSE /\ c.pdus = b.pdus /\ c.last = p
  <1> DEFINE c == addPdu(b, p)
  <1>0. b.room \in Nat /\ size(p) \in Nat /\ fragsize(b, p) \in Int
    BY BurstFields, PduFields, SizeNat DEF fragsize
  <1>1. CASE b.room >= size(p)
    <2>1. c = NextFsn(Whole(b, p)) BY <1>1 DEF addPdu
    <2>2. size(p) <= b.room BY <1>0, <1>1
    <2>3. /\ Whole(b, p) \in BurstSet /\ SameRest(Whole(b, p), b)
          /\ Whole(b, p).pdus = Append(b.pdus, p) /\ Whole(b, p).last = b.last
          /\ Whole(b, p).room + Bytes(Whole(b, p).pdus) = b.room + Bytes(b.pdus)
      BY <2>2, WholeAdded
    <2>4. /\ c \in BurstSet /\ SameRest(c, Whole(b, p)) /\ c.pdus = Whole(b, p).pdus
          /\ c.room = Whole(b, p).room /\ c.last = Whole(b, p).last
      BY <2>1, <2>3, Numbered
    <2> HIDE DEF c
    <2>5. c \in BurstSet /\ SameRest(c, b) /\ c.pdus = Append(b.pdus, p) /\ c.last = b.last
          /\ c.room + Bytes(c.pdus) = b.room + Bytes(b.pdus)
      BY <2>3, <2>4 DEF SameRest
    <2> QED BY <2>5 DEF c
  <1>2. CASE ~(b.room >= size(p)) /\ fragsize(b, p) > 0
    <2>1. c = Fragment(b, p, fragsize(b, p)) BY <1>2 DEF addPdu
    <2>2. size(p) > b.room /\ fragsize(b, p) >= 1 BY <1>0, <1>2
    <2> HIDE DEF c
    <2>3. /\ c \in BurstSet /\ SameRest(c, b) /\ c.spare = FALSE
          /\ c.room + Bytes(c.pdus) = b.room + Bytes(b.pdus)
          /\ \E piece, rest \in PduSet : /\ c.pdus = Append(b.pdus, piece) /\ c.last = rest
                                         /\ Split(p, piece, rest)
      BY <2>1, <2>2, FragmentAdded
    <2> QED BY <2>3 DEF c
  <1>3. CASE ~(b.room >= size(p)) /\ ~(fragsize(b, p) > 0)
    <2>1. c = [b EXCEPT !.last = p, !.spare = FALSE] BY <1>3 DEF addPdu
    <2>2. /\ c \in BurstSet /\ SameRest(c, b) /\ c.spare = FALSE /\ c.pdus = b.pdus
          /\ c.last = p /\ c.room = b.room
      BY <2>1 DEF BurstSet, SameRest
    <2> QED BY <2>2
  <1> QED BY <1>1, <1>2, <1>3

\* newBurst: what is pending goes into the burst, or a piece of it, or nothing.
LEMMA Begun ==
    ASSUME NEW b \in BurstSet, b.last # <<>> => b.last.state \in {"NO_FRAG", "CONT_FRAG"}
    PROVE  LET c == newBurst(b)
           IN /\ c \in BurstSet /\ SameRest(c, b)
              /\ c.room + Bytes(c.pdus) = b.room + Bytes(b.pdus)
              /\ \/ b.last = <<>> /\ c = b
                 \/ b.last # <<>> /\ c.last = <<>>
                    /\ \E q \in PduSet : c.pdus = Append(b.pdus, q) /\ Closes(b.last, q)
                 \/ b.last # <<>> /\ c.spare = FALSE /\ c.pdus = b.pdus /\ c.last = b.last
                 \/ b.last # <<>> /\ c.spare = FALSE
                    /\ \E piece, rest \in PduSet : /\ c.pdus = Append(b.pdus, piece) /\ c.last = rest
                                                   /\ Split(b.last, piece, rest)
  <1> DEFINE c == newBurst(b)
             p == b.last
  <1>1. CASE p = <<>>
    <2>1. c = b BY <1>1 DEF newBurst
    <2> QED BY <1>1, <2>1 DEF SameRest
  <1>2. CASE p # <<>>
    <2>0. p \in PduSet /\ b.room \in Nat BY <1>2, BurstFields
    <2>1. size(p) \in Nat /\ fragsize(b, p) \in Int BY <2>0, PduFields, SizeNat DEF fragsize
    <2>2. CASE size(p) <= b.room
      <3> DEFINE q == IF isFrag(p) THEN [p EXCEPT !.state = "LAST_FRAG"] ELSE p
      <3>1. Closes(p, q) BY <2>0 DEF Closes, PduSet, State
      <3>2. q \in PduSet /\ size(q) = size(p) BY <2>0, <3>1 DEF Closes, size, isFrag
      <3>3. c = [Whole(b, q) EXCEPT !.last = <<>>] BY <1>2, <2>2 DEF newBurst
      <3> HIDE DEF q, c, p
      <3>4. /\ Whole(b, q) \in BurstSet /\ SameRest(Whole(b, q), b)
            /\ Whole(b, q).pdus = Append(b.pdus, q)
            /\ Whole(b, q).room + Bytes(Whole(b, q).pdus) = b.room + Bytes(b.pdus)
        BY <2>2, <3>2, WholeAdded
      <3>5. /\ c \in BurstSet /\ SameRest(c, Whole(b, q)) /\ c.last = <<>>
            /\ c.pdus = Whole(b, q).pdus /\ c.room = Whole(b, q).room
        BY <3>3, <3>4 DEF BurstSet, SameRest
      <3>6. /\ c \in BurstSet /\ SameRest(c, b) /\ c.last = <<>>
            /\ c.pdus = Append(b.pdus, q)
            /\ c.room + Bytes(c.pdus) = b.room + Bytes(b.pdus)
        BY <3>4, <3>5 DEF SameRest
      <3> QED BY <1>2, <3>1, <3>2, <3>6 DEF c, p
    <2>3. CASE ~(size(p) <= b.room) /\ fragsize(b, p) < 1
      <3>1. c = [b EXCEPT !.spare = FALSE] BY <1>2, <2>3 DEF newBurst
      <3>2. /\ c \in BurstSet /\ SameRest(c, b) /\ c.spare = FALSE /\ c.pdus = b.pdus
            /\ c.last = p /\ c.room = b.room
        BY <3>1 DEF BurstSet, SameRest
      <3> QED BY <1>2, <3>2
    <2>4. CASE ~(size(p) <= b.room) /\ ~(fragsize(b, p) < 1)
      <3>1. c = Fragment(b, p, fragsize(b, p)) BY <1>2, <2>4 DEF newBurst
      <3>2. size(p) > b.room /\ fragsize(b, p) >= 1 BY <2>0, <2>1, <2>4
      <3> HIDE DEF c, p
      <3>3. /\ c \in BurstSet /\ SameRest(c, b) /\ c.spare = FALSE
            /\ c.room + Bytes(c.pdus) = b.room + Bytes(b.pdus)
            /\ \E piece, rest \in PduSet : /\ c.pdus = Append(b.pdus, piece) /\ c.last = rest
                                           /\ Split(p, piece, rest)
        BY <2>0, <3>1, <3>2, FragmentAdded
      <3> QED BY <1>2, <3>3 DEF c, p
    <2> QED BY <2>2, <2>3, <2>4
  <1> QED BY <1>1, <1>2

-----------------------------------------------------------------------------
(* The way of the SDUs of a service: the PDUs of a burst, then what is        *)
(* pending, then the queues.                                                  *)

\* A PDU of the service; a mark is one of the watched flow, not delivered yet.
Own(p, s) ==
    /\ Serv[p.flow] = s
    /\ p.mark > 0 => p.flow = conf.watched /\ got < p.mark /\ p.mark <= marked

Owned(s, pdus, last, list) ==
    /\ \A i \in 1 .. Len(pdus) : Own(pdus[i], s)
    /\ last # <<>> => Own(last, s)
    /\ \A k \in 1 .. Len(list) : \A j \in 1 .. Len(list[k].queue) : Own(list[k].queue[j], s)

Before(p, q) == p.mark > 0 /\ q.mark > 0 => p.mark < q.mark

\* Marks go up on the way; only a piece and its rest share one.
Sorted(pdus, last, list) ==
    /\ \A i, j \in 1 .. Len(pdus) : i < j => Before(pdus[i], pdus[j])
    /\ \A i \in 1 .. Len(pdus) : last # <<>> /\ Delivers(pdus[i]) => Before(pdus[i], last)
    /\ \A i \in 1 .. Len(pdus), k \in 1 .. Len(list) :
          \A j \in 1 .. Len(list[k].queue) : Before(pdus[i], list[k].queue[j])
    /\ \A k \in 1 .. Len(list) : \A j \in 1 .. Len(list[k].queue) :
          last # <<>> => Before(last, list[k].queue[j])
    /\ \A k \in 1 .. Len(list) : \A i, j \in 1 .. Len(list[k].queue) :
          i < j => Before(list[k].queue[i], list[k].queue[j])

\* A burst may start with the rest of an SDU and end with a piece, whose own rest
\* is pending.
Pieces(pdus, last) ==
    /\ \A i \in 1 .. Len(pdus) :
          /\ pdus[i].state \in {"CONT_FRAG", "LAST_FRAG"} => i = 1
          /\ pdus[i].state \in {"NO_FRAG", "FIRST_FRAG"} => pdus[i].off = 0
          /\ ~Delivers(pdus[i]) =>
                /\ i = Len(pdus) /\ last # <<>> /\ last.state = "CONT_FRAG"
                /\ last.mark = pdus[i].mark /\ last.fsn = pdus[i].fsn
                /\ last.off = pdus[i].off + pdus[i].data
    /\ last # <<>> =>
          /\ last.state \in {"NO_FRAG", "CONT_FRAG"}
          /\ last.state = "NO_FRAG" => last.off = 0
          /\ last.state = "CONT_FRAG" /\ pdus # <<>> => ~Delivers(pdus[Len(pdus)])

\* The SDU with mark m is on its way.
Present(m, pdus, last, list) ==
    \/ \E i \in 1 .. Len(pdus) : pdus[i].mark = m
    \/ last # <<>> /\ last.mark = m
    \/ \E k \in 1 .. Len(list) : \E j \in 1 .. Len(list[k].queue) : list[k].queue[j].mark = m

\* Without losses the receiver has what comes before the rest of an SDU, and
\* every SDU that is not delivered is on its way.
Complete(s, pdus, last, list) ==
    /\ pdus = <<>> /\ last # <<>> /\ last.state = "CONT_FRAG" => last.off = upto[s]
    /\ pdus # <<>> /\ pdus[1].state \in {"CONT_FRAG", "LAST_FRAG"} => pdus[1].off = upto[s]
    /\ s = Serv[conf.watched] => \A m \in got + 1 .. marked : Present(m, pdus, last, list)

Line(s, pdus, last, list) ==
    /\ Owned(s, pdus, last, list)
    /\ Sorted(pdus, last, list)
    /\ Pieces(pdus, last)
    /\ ~conf.lossy => Complete(s, pdus, last, list)

\* The number under which the receiver may have a piece of the service.
Opens(pdus, last) ==
    IF pdus # <<>>
    THEN IF pdus[1].state \in {"CONT_FRAG", "LAST_FRAG"} THEN {pdus[1].fsn} ELSE {}
    ELSE IF last # <<>> /\ last.state = "CONT_FRAG" THEN {last.fsn} ELSE {}

\* The head of the first queue becomes the pending PDU.
LEMMA LinePull ==
    ASSUME NEW s, NEW list, Ring(list, s), NEW pdus \in Seq(PduSet), Line(s, pdus, <<>>, list),
           list # <<>>, list[1].queue # <<>>,
           NEW r \in Seq(DescSet), Len(r) = Len(list),
           \A k \in 2 .. Len(list) : r[k].queue = list[k].queue,
           r[1].queue = Tail(list[1].queue)
    PROVE  LET p == Head(list[1].queue)
           IN /\ p \in PduSet /\ p.state = "NO_FRAG" /\ Line(s, pdus, p, r)
              /\ Opens(pdus, p) = Opens(pdus, <<>>)
  <1> DEFINE q == list[1].queue
             p == Head(q)
  <1>1. list \in Seq(DescSet) /\ Len(list) \in Nat \ {0} BY DEF Ring
  <1>2. 1 \in 1 .. Len(list) /\ list[1] \in DescSet BY <1>1
  <1>3. q \in Seq(PduSet) /\ q # <<>> BY <1>2, DescFields
  <1> HIDE DEF q
  <1>4. /\ p = q[1] /\ 1 \in 1 .. Len(q) /\ p \in PduSet /\ Len(q) \in Nat \ {0}
        /\ Len(Tail(q)) = Len(q) - 1 /\ \A j \in 1 .. Len(q) - 1 : Tail(q)[j] = q[j + 1]
    BY <1>3
  <1>5. p # <<>> BY <1>4, PduIsNotEmpty
  <1> HIDE DEF p
  <1>6. Fresh(p, list[1].flow) BY <1>2, <1>4 DEF Ring, Valid, q
  <1>7. ASSUME NEW k \in 1 .. Len(list), NEW j \in 1 .. Len(r[k].queue)
        PROVE  /\ k = 1 => j + 1 \in 1 .. Len(q) /\ r[k].queue[j] = q[j + 1]
               /\ k # 1 => r[k].queue = list[k].queue
    <2>1. k # 1 => k \in 2 .. Len(list) BY <1>1
    <2>2. r[1].queue = Tail(q) BY DEF q
    <2>3. CASE k = 1
      <3>1. Len(r[k].queue) = Len(q) - 1 BY <1>4, <2>2, <2>3
      <3>2. j \in 1 .. Len(q) - 1 BY <1>7, <3>1
      <3>3. j + 1 \in 1 .. Len(q) BY <1>4, <3>2
      <3> QED BY <1>4, <2>2, <2>3, <3>2, <3>3
    <2> QED BY <2>1, <2>3
  <1>8. ASSUME NEW k \in 1 .. Len(list), NEW j \in 1 .. Len(r[k].queue)
        PROVE  /\ \E i \in 1 .. Len(list[k].queue) : r[k].queue[j] = list[k].queue[i]
               /\ Before(p, r[k].queue[j])
    <2>1. CASE k = 1
      <3>1. Before(q[1], q[j + 1]) BY <1>2, <1>4, <1>7, <2>1 DEF Line, Sorted, q
      <3> QED BY <1>2, <1>4, <1>7, <2>1, <3>1 DEF q
    <2>2. CASE k # 1
      <3>1. r[k].queue = list[k].queue BY <1>7, <2>2
      <3>2. Fresh(list[k].queue[j], list[k].flow) /\ list[k].flow # list[1].flow
        BY <1>2, <2>2, <3>1 DEF Ring, Valid
      <3>3. Own(list[k].queue[j], s) /\ Own(p, s)
        BY <1>2, <1>4, <3>1 DEF Line, Owned, q
      <3> QED BY <1>6, <3>1, <3>2, <3>3 DEF Own, Fresh, Before
    <2> QED BY <2>1, <2>2
  <1>9. Owned(s, pdus, p, r)
    <2>1. Own(p, s) BY <1>2, <1>4 DEF Line, Owned, q
    <2> QED BY <1>8, <2>1 DEF Line, Owned
  <1>10. Sorted(pdus, p, r)
    <2>1. ASSUME NEW i \in 1 .. Len(pdus) PROVE Before(pdus[i], p)
      BY <1>2, <1>4 DEF Line, Sorted, q
    <2>2. ASSUME NEW k \in 1 .. Len(r), NEW i \in 1 .. Len(r[k].queue),
                 NEW j \in 1 .. Len(r[k].queue), i < j
          PROVE  Before(r[k].queue[i], r[k].queue[j])
      <3>1. CASE k = 1
        <4>1. r[k].queue[i] = q[i + 1] /\ r[k].queue[j] = q[j + 1] BY <1>7, <3>1
        <4>2. i + 1 \in 1 .. Len(q) /\ j + 1 \in 1 .. Len(q) /\ i + 1 < j + 1 BY <1>7, <2>2, <3>1
        <4> QED BY <1>2, <4>1, <4>2 DEF Line, Sorted, q
      <3>2. CASE k # 1
        <4>1. r[k].queue = list[k].queue BY <1>7, <3>2
        <4> QED BY <2>2, <4>1 DEF Line, Sorted
      <3> QED BY <3>1, <3>2
    <2>3. ASSUME NEW k \in 1 .. Len(r), NEW j \in 1 .. Len(r[k].queue), NEW i \in 1 .. Len(pdus)
          PROVE  Before(pdus[i], r[k].queue[j])
      <3>1. k \in 1 .. Len(list) BY <2>3
      <3>2. PICK h \in 1 .. Len(list[k].queue) : r[k].queue[j] = list[k].queue[h]
        BY <1>8, <2>3, <3>1
      <3>3. Before(pdus[i], list[k].queue[h]) BY <2>3, <3>1 DEF Line, Sorted
      <3> QED BY <3>2, <3>3
    <2>4. \A i, j \in 1 .. Len(pdus) : i < j => Before(pdus[i], pdus[j]) BY DEF Line, Sorted
    <2> HIDE DEF Before
    <2> QED BY <1>8, <2>1, <2>2, <2>3, <2>4 DEF Sorted
  <1>11. Pieces(pdus, p) BY <1>6 DEF Line, Pieces, Fresh
  <1>12. ASSUME ~conf.lossy PROVE Complete(s, pdus, p, r)
    <2>1. Complete(s, pdus, <<>>, list) BY <1>12 DEF Line
    <2>2. ASSUME NEW m, Present(m, pdus, <<>>, list) PROVE Present(m, pdus, p, r)
      <3>1. CASE \E i \in 1 .. Len(pdus) : pdus[i].mark = m BY <3>1 DEF Present
      <3>2. CASE \E k \in 1 .. Len(list) : \E j \in 1 .. Len(list[k].queue) : list[k].queue[j].mark = m
        <4>0. PICK k \in 1 .. Len(list) : \E j \in 1 .. Len(list[k].queue) : list[k].queue[j].mark = m
          BY <3>2
        <4>1. PICK j \in 1 .. Len(list[k].queue) : list[k].queue[j].mark = m
          BY <4>0
        <4>2. CASE k = 1 /\ j = 1 BY <1>4, <1>5, <4>1, <4>2 DEF Present, q
        <4>3. CASE k = 1 /\ j # 1
          <5>1. j - 1 \in 1 .. Len(r[1].queue) /\ r[1].queue[j - 1] = q[j]
            <6>1. j \in 1 .. Len(q) BY <4>3 DEF q
            <6>2. j - 1 \in 1 .. Len(q) - 1 BY <1>4, <4>3, <6>1
            <6> QED BY <1>4, <6>1, <6>2 DEF q
          <5> QED BY <1>2, <4>1, <4>3, <5>1 DEF Present, q
        <4>4. CASE k # 1
          <5>1. r[k].queue = list[k].queue BY <1>1, <4>4
          <5> QED BY <4>1, <5>1 DEF Present
        <4> QED BY <4>2, <4>3, <4>4
      <3> QED BY <2>2, <3>1, <3>2 DEF Present
    <2> QED BY <1>6, <2>1, <2>2 DEF Complete, Fresh
  <1>13. Opens(pdus, p) = Opens(pdus, <<>>) BY <1>6 DEF Opens, Fresh
  <1> QED BY <1>4, <1>6, <1>9, <1>10, <1>11, <1>12, <1>13 DEF Line, Fresh, p, q

\* What an appended PDU is like.
LEMMA AppendPdu ==
    ASSUME NEW pdus \in Seq(PduSet), NEW q \in PduSet
    PROVE  LET r == Append(pdus, q)
           IN /\ r \in Seq(PduSet) /\ Len(r) = Len(pdus) + 1 /\ r # <<>> /\ Len(pdus) \in Nat
              /\ pdus = <<>> <=> Len(pdus) = 0
              /\ r[Len(pdus) + 1] = q /\ \A i \in 1 .. Len(pdus) : r[i] = pdus[i]
              /\ r[1] = IF pdus = <<>> THEN q ELSE pdus[1]
  <1> HIDE DEF PduSet
  <1> QED OBVIOUS

\* The whole of what is pending goes into the burst.
LEMMA LineClose ==
    ASSUME NEW s, NEW list, NEW pdus \in Seq(PduSet), NEW p \in PduSet, Line(s, pdus, p, list),
           pdus = <<>> \/ p.state = "NO_FRAG", NEW q, Closes(p, q)
    PROVE  /\ Line(s, Append(pdus, q), <<>>, list)
           /\ Opens(Append(pdus, q), <<>>) = Opens(pdus, p)
           /\ \A i \in 1 .. Len(Append(pdus, q)) : Delivers(Append(pdus, q)[i])
  <1> DEFINE r == Append(pdus, q)
             n == Len(pdus)
  <1>1. p # <<>> BY PduIsNotEmpty
  <1>2. q \in PduSet BY DEF Closes
  <1>3. /\ Len(r) = n + 1 /\ r # <<>> /\ n \in Nat /\ (pdus = <<>> <=> n = 0)
        /\ r[n + 1] = q /\ \A i \in 1 .. n : r[i] = pdus[i]
        /\ r[1] = IF pdus = <<>> THEN q ELSE pdus[1]
    BY <1>2, AppendPdu
  <1> HIDE DEF r
  <1>4. /\ q.flow = p.flow /\ q.mark = p.mark /\ q.off = p.off /\ q.fsn = p.fsn
        /\ q.state \in {"NO_FRAG", "LAST_FRAG"} /\ Delivers(q)
        /\ p.state = "NO_FRAG" => q.state = "NO_FRAG" /\ q.off = 0
        /\ p.state = "CONT_FRAG" => q.state = "LAST_FRAG"
        /\ p.state \in {"NO_FRAG", "CONT_FRAG"}
    BY <1>1 DEF Closes, Line, Pieces, isFrag, Delivers
  <1>5. \A i \in 1 .. n : Delivers(pdus[i])
    BY <1>3, <1>4 DEF Line, Pieces
  <1>6. Owned(s, r, <<>>, list)
    <2>1. Own(q, s) BY <1>1, <1>4 DEF Line, Owned, Own
    <2> QED BY <1>3, <2>1 DEF Line, Owned
  <1>7. Sorted(r, <<>>, list)
    <2>1. \A x : (Before(x, p) => Before(x, q)) /\ (Before(p, x) => Before(q, x))
      BY <1>4 DEF Before
    <2>2. ASSUME NEW i \in 1 .. Len(r), NEW j \in 1 .. Len(r), i < j PROVE Before(r[i], r[j])
      <3>1. i \in 1 .. n BY <1>3, <2>2
      <3>2. CASE j = n + 1 BY <1>1, <1>3, <1>5, <2>1, <3>1, <3>2 DEF Line, Sorted
      <3>3. CASE j # n + 1
        <4>1. j \in 1 .. n BY <1>3, <3>3
        <4> QED BY <1>3, <2>2, <3>1, <4>1 DEF Line, Sorted
      <3> QED BY <3>2, <3>3
    <2>3. ASSUME NEW i \in 1 .. Len(r), NEW k \in 1 .. Len(list), NEW j \in 1 .. Len(list[k].queue)
          PROVE  Before(r[i], list[k].queue[j])
      <3>1. CASE i = n + 1 BY <1>1, <1>3, <2>1, <3>1 DEF Line, Sorted
      <3>2. CASE i # n + 1
        <4>1. i \in 1 .. n BY <1>3, <3>2
        <4> QED BY <1>3, <4>1 DEF Line, Sorted
      <3> QED BY <3>1, <3>2
    <2>4. \A k \in 1 .. Len(list) : \A i, j \in 1 .. Len(list[k].queue) :
             i < j => Before(list[k].queue[i], list[k].queue[j])
      BY DEF Line, Sorted
    <2> HIDE DEF Before
    <2> QED BY <2>2, <2>3, <2>4 DEF Sorted
  <1>8. Pieces(r, <<>>)
    <2>1. ASSUME NEW i \in 1 .. Len(r)
          PROVE  /\ Delivers(r[i])
                 /\ r[i].state \in {"CONT_FRAG", "LAST_FRAG"} => i = 1
                 /\ r[i].state \in {"NO_FRAG", "FIRST_FRAG"} => r[i].off = 0
      <3>1. CASE i = n + 1 BY <1>3, <1>4, <3>1
      <3>2. CASE i # n + 1
        <4>1. i \in 1 .. n BY <1>3, <3>2
        <4> QED BY <1>3, <1>5, <4>1 DEF Line, Pieces
      <3> QED BY <3>1, <3>2
    <2> QED BY <2>1 DEF Pieces
  <1>9. ASSUME ~conf.lossy PROVE Complete(s, r, <<>>, list)
    <2>1. Complete(s, pdus, p, list) BY <1>9 DEF Line
    <2>2. ASSUME NEW m, Present(m, pdus, p, list) PROVE Present(m, r, <<>>, list)
      <3>1. n + 1 \in 1 .. Len(r) /\ \A i \in 1 .. n : i \in 1 .. Len(r) BY <1>3
      <3> QED BY <1>3, <1>4, <2>2, <3>1 DEF Present
    <2>3. r[1].state \in {"CONT_FRAG", "LAST_FRAG"} => r[1].off = upto[s]
      <3>1. CASE pdus = <<>> BY <1>1, <1>3, <1>4, <2>1, <3>1 DEF Complete
      <3>2. CASE pdus # <<>> BY <1>3, <2>1, <3>2 DEF Complete
      <3> QED BY <3>1, <3>2
    <2> QED BY <1>3, <2>1, <2>2, <2>3 DEF Complete
  <1>10. Opens(r, <<>>) = Opens(pdus, p) BY <1>1, <1>3, <1>4 DEF Opens
  <1>11. \A i \in 1 .. Len(r) : Delivers(r[i])
    <2>1. \A i \in 1 .. Len(r) : i = n + 1 \/ i \in 1 .. n BY <1>3
    <2> QED BY <1>3, <1>4, <1>5, <2>1
  <1> QED BY <1>6, <1>7, <1>8, <1>9, <1>10, <1>11 DEF Line, r

\* A piece of what is pending goes into the burst.
LEMMA LineSplit ==
    ASSUME NEW s, NEW list, NEW pdus \in Seq(PduSet), NEW p \in PduSet, Line(s, pdus, p, list),
           pdus = <<>> \/ p.state = "NO_FRAG", NEW piece, NEW rest, Split(p, piece, rest)
    PROVE  /\ Line(s, Append(pdus, piece), rest, list)
           /\ Opens(Append(pdus, piece), rest) = Opens(pdus, p)
  <1> DEFINE r == Append(pdus, piece)
             n == Len(pdus)
  <1>1. p # <<>> /\ rest # <<>>
    <2>1. rest \in PduSet BY DEF Split
    <2> QED BY <2>1, PduIsNotEmpty
  <1>2. piece \in PduSet BY DEF Split
  <1>3. /\ Len(r) = n + 1 /\ r # <<>> /\ n \in Nat /\ (pdus = <<>> <=> n = 0)
        /\ r[n + 1] = piece /\ \A i \in 1 .. n : r[i] = pdus[i]
        /\ r[1] = IF pdus = <<>> THEN piece ELSE pdus[1]
    BY <1>2, AppendPdu
  <1> HIDE DEF r
  <1>4. /\ piece.flow = p.flow /\ piece.mark = p.mark /\ piece.off = p.off
        /\ rest.flow = p.flow /\ rest.mark = p.mark /\ rest.fsn = piece.fsn
        /\ rest.state = "CONT_FRAG" /\ rest.off = piece.off + piece.data
        /\ piece.state \in {"FIRST_FRAG", "CONT_FRAG"} /\ ~Delivers(piece)
        /\ p.state = "NO_FRAG" => piece.state = "FIRST_FRAG" /\ piece.off = 0
        /\ p.state = "CONT_FRAG" => piece.state = "CONT_FRAG" /\ piece.fsn = p.fsn
        /\ p.state \in {"NO_FRAG", "CONT_FRAG"}
    BY <1>1 DEF Split, Line, Pieces, isFrag, Delivers
  <1>5. \A i \in 1 .. n : Delivers(pdus[i])
    BY <1>3, <1>4 DEF Line, Pieces
  <1>6. Owned(s, r, rest, list)
    <2>1. Own(piece, s) /\ Own(rest, s) BY <1>1, <1>4 DEF Line, Owned, Own
    <2> QED BY <1>3, <2>1 DEF Line, Owned
  <1>7. Sorted(r, rest, list)
    <2>1. \A x : /\ Before(x, p) => Before(x, piece) /\ Before(x, rest)
                 /\ Before(p, x) => Before(piece, x) /\ Before(rest, x)
      BY <1>4 DEF Before
    <2>2. ASSUME NEW i \in 1 .. Len(r), NEW j \in 1 .. Len(r), i < j PROVE Before(r[i], r[j])
      <3>1. i \in 1 .. n BY <1>3, <2>2
      <3>2. CASE j = n + 1 BY <1>1, <1>3, <1>5, <2>1, <3>1, <3>2 DEF Line, Sorted
      <3>3. CASE j # n + 1
        <4>1. j \in 1 .. n BY <1>3, <3>3
        <4> QED BY <1>3, <2>2, <3>1, <4>1 DEF Line, Sorted
      <3> QED BY <3>2, <3>3
    <2>3. ASSUME NEW i \in 1 .. Len(r), NEW k \in 1 .. Len(list), NEW j \in 1 .. Len(list[k].queue)
          PROVE  Before(r[i], list[k].queue[j])
      <3>1. CASE i = n + 1 BY <1>1, <1>3, <2>1, <3>1 DEF Line, Sorted
      <3>2. CASE i # n + 1
        <4>1. i \in 1 .. n BY <1>3, <3>2
        <4> QED BY <1>3, <4>1 DEF Line, Sorted
      <3> QED BY <3>1, <3>2
    <2>4. \A k \in 1 .. Len(list) : \A i, j \in 1 .. Len(list[k].queue) :
             i < j => Before(list[k].queue[i], list[k].queue[j])
      BY DEF Line, Sorted
    <2>5. ASSUME NEW k \in 1 .. Len(list), NEW j \in 1 .. Len(list[k].queue)
          PROVE  Before(rest, list[k].queue[j])
      BY <1>1, <2>1 DEF Line, Sorted
    <2>6. ASSUME NEW i \in 1 .. Len(r), Delivers(r[i]) PROVE Before(r[i], rest)
      <3>1. i \in 1 .. n BY <1>3, <1>4, <2>6
      <3> QED BY <1>1, <1>3, <1>5, <2>1, <3>1 DEF Line, Sorted
    <2> HIDE DEF Before
    <2> QED BY <2>2, <2>3, <2>4, <2>5, <2>6 DEF Sorted
  <1>8. Pieces(r, rest)
    <2>1. ASSUME NEW i \in 1 .. Len(r)
          PROVE  /\ ~Delivers(r[i]) => i = n + 1
                 /\ r[i].state \in {"CONT_FRAG", "LAST_FRAG"} => i = 1
                 /\ r[i].state \in {"NO_FRAG", "FIRST_FRAG"} => r[i].off = 0
      <3>1. CASE i = n + 1 BY <1>3, <1>4, <3>1
      <3>2. CASE i # n + 1
        <4>1. i \in 1 .. n BY <1>3, <3>2
        <4> QED BY <1>3, <1>5, <4>1 DEF Line, Pieces
      <3> QED BY <3>1, <3>2
    <2>2. ASSUME NEW i \in 1 .. Len(r), ~Delivers(r[i])
          PROVE  /\ i = Len(r) /\ rest.mark = r[i].mark /\ rest.fsn = r[i].fsn
                 /\ rest.off = r[i].off + r[i].data
      BY <1>3, <1>4, <2>1, <2>2
    <2>3. ~Delivers(r[Len(r)]) BY <1>3, <1>4
    <2> HIDE DEF Delivers
    <2> QED BY <1>1, <1>4, <2>1, <2>2, <2>3 DEF Pieces
  <1>9. ASSUME ~conf.lossy PROVE Complete(s, r, rest, list)
    <2>1. Complete(s, pdus, p, list) BY <1>9 DEF Line
    <2>2. ASSUME NEW m, Present(m, pdus, p, list) PROVE Present(m, r, rest, list)
      <3>1. n + 1 \in 1 .. Len(r) /\ \A i \in 1 .. n : i \in 1 .. Len(r) BY <1>3
      <3> QED BY <1>1, <1>3, <1>4, <2>2, <3>1 DEF Present
    <2>3. r[1].state \in {"CONT_FRAG", "LAST_FRAG"} => r[1].off = upto[s]
      <3>1. CASE pdus = <<>> BY <1>1, <1>3, <1>4, <2>1, <3>1 DEF Complete
      <3>2. CASE pdus # <<>> BY <1>3, <2>1, <3>2 DEF Complete
      <3> QED BY <3>1, <3>2
    <2> QED BY <1>3, <2>1, <2>2, <2>3 DEF Complete
  <1>10. Opens(r, rest) = Opens(pdus, p) BY <1>1, <1>3, <1>4 DEF Opens
  <1> QED BY <1>6, <1>7, <1>8, <1>9, <1>10 DEF Line, r

\* Only the queues that have PDUs matter, not where they are.
Rearranged(r, list) ==
    /\ \A k \in 1 .. Len(r) : r[k].queue # <<>> =>
          \E l \in 1 .. Len(list) : list[l].queue = r[k].queue
    /\ \A l \in 1 .. Len(list) : list[l].queue # <<>> =>
          \E k \in 1 .. Len(r) : r[k].queue = list[l].queue

LEMMA LineRearranged ==
    ASSUME NEW s, NEW pdus, NEW last, NEW list \in Seq(DescSet), NEW r \in Seq(DescSet),
           Line(s, pdus, last, list), Rearranged(r, list)
    PROVE  Line(s, pdus, last, r)
  <1> HIDE DEF DescSet
  <1>1. ASSUME NEW k \in 1 .. Len(r), NEW j \in 1 .. Len(r[k].queue)
        PROVE  \E l \in 1 .. Len(list) : list[l].queue = r[k].queue
    <2>1. r[k].queue # <<>> BY <1>1
    <2> QED BY <2>1 DEF Rearranged
  <1>2. ASSUME NEW k \in 1 .. Len(list), NEW j \in 1 .. Len(list[k].queue)
        PROVE  \E l \in 1 .. Len(r) : r[l].queue = list[k].queue
    <2>1. list[k].queue # <<>> BY <1>2
    <2> QED BY <2>1 DEF Rearranged
  <1>3. Owned(s, pdus, last, r)
    <2>1. ASSUME NEW k \in 1 .. Len(r), NEW j \in 1 .. Len(r[k].queue) PROVE Own(r[k].queue[j], s)
      <3>1. PICK l \in 1 .. Len(list) : list[l].queue = r[k].queue BY <1>1
      <3> QED BY <2>1, <3>1 DEF Line, Owned
    <2> QED BY <2>1 DEF Line, Owned
  <1>4. Sorted(pdus, last, r)
    <2>1. ASSUME NEW i \in 1 .. Len(pdus), NEW k \in 1 .. Len(r), NEW j \in 1 .. Len(r[k].queue)
          PROVE  Before(pdus[i], r[k].queue[j])
      <3>1. PICK l \in 1 .. Len(list) : list[l].queue = r[k].queue BY <1>1
      <3> QED BY <2>1, <3>1 DEF Line, Sorted
    <2>2. ASSUME NEW k \in 1 .. Len(r), NEW j \in 1 .. Len(r[k].queue), last # <<>>
          PROVE  Before(last, r[k].queue[j])
      <3>1. PICK l \in 1 .. Len(list) : list[l].queue = r[k].queue BY <1>1
      <3> QED BY <2>2, <3>1 DEF Line, Sorted
    <2>3. ASSUME NEW k \in 1 .. Len(r), NEW i \in 1 .. Len(r[k].queue), NEW j \in 1 .. Len(r[k].queue),
                 i < j
          PROVE  Before(r[k].queue[i], r[k].queue[j])
      <3>1. PICK l \in 1 .. Len(list) : list[l].queue = r[k].queue BY <1>1
      <3> QED BY <2>3, <3>1 DEF Line, Sorted
    <2>4. /\ \A i, j \in 1 .. Len(pdus) : i < j => Before(pdus[i], pdus[j])
          /\ \A i \in 1 .. Len(pdus) : last # <<>> /\ Delivers(pdus[i]) => Before(pdus[i], last)
      BY DEF Line, Sorted
    <2> HIDE DEF Before, Delivers
    <2> QED BY <2>1, <2>2, <2>3, <2>4 DEF Sorted
  <1>5. ASSUME ~conf.lossy PROVE Complete(s, pdus, last, r)
    <2>1. Complete(s, pdus, last, list) BY <1>5 DEF Line
    <2>2. ASSUME NEW m, Present(m, pdus, last, list) PROVE Present(m, pdus, last, r)
      <3>1. CASE \E k \in 1 .. Len(list) : \E j \in 1 .. Len(list[k].queue) : list[k].queue[j].mark = m
        <4>1. PICK k \in 1 .. Len(list) : \E j \in 1 .. Len(list[k].queue) : list[k].queue[j].mark = m
          BY <3>1
        <4>2. PICK j \in 1 .. Len(list[k].queue) : list[k].queue[j].mark = m BY <4>1
        <4>3. PICK l \in 1 .. Len(r) : r[l].queue = list[k].queue BY <1>2
        <4> QED BY <4>2, <4>3 DEF Present
      <3> QED BY <2>2, <3>1 DEF Present
    <2> QED BY <2>1, <2>2 DEF Complete
  <1> QED BY <1>3, <1>4, <1>5 DEF Line

-----------------------------------------------------------------------------
(* What holds of the burst of service s while it is filled: bytes were        *)
(* granted, and owed were queued.                                             *)

\* The numbers of the pieces of other services.
OtherOpen(s) ==
    UNION {Opens(<<>>, lastPdu[t]) : t \in Service \ {s}}

Burst(b, s, bytes, owed) ==
    /\ b \in BurstSet /\ conf \in Configs
    /\ b.room + Bytes(b.pdus) = bytes
    /\ Ring(b.rr, s)
    /\ b.sent + Owed(b.rr) = owed
    /\ b.spare => b.last = <<>>
    /\ Line(s, b.pdus, b.last, b.rr)
    /\ ~conf.lossy => reas \subseteq OtherOpen(s) \cup Opens(b.pdus, b.last)

LEMMA ConfFields ==
    ASSUME conf \in Configs
    PROVE  conf.maxBufSize \in Nat /\ conf.watched \in Flow /\ conf.flows \subseteq Flow
  BY DataPlaneAssumption

\* A descriptor without its head is valid.
LEMMA Headless ==
    ASSUME conf \in Configs, NEW flow \in DescSet, Valid(flow), flow.deficit > 0, size(Head(flow.queue)) <= flow.deficit
    PROVE  LET p    == Head(flow.queue)
               rest == [flow EXCEPT !.queue = Tail(@), !.size = @ - size(p), !.deficit = @ - size(p)]
           IN /\ flow.queue # <<>> /\ p \in PduSet /\ size(p) \in Nat
              /\ rest \in DescSet /\ Valid(rest)
              /\ rest.flow = flow.flow /\ rest.queue = Tail(flow.queue)
              /\ rest.size = flow.size - size(p) /\ flow.size \in Nat
  <1> DEFINE q == flow.queue
             p == Head(q)
             rest == [flow EXCEPT !.queue = Tail(@), !.size = @ - size(p), !.deficit = @ - size(p)]
  <1>1. q \in Seq(PduSet) /\ flow.size \in Nat /\ flow.deficit \in Nat /\ flow.size = Bytes(q)
        /\ flow.deficit <= flow.size
    BY DescFields DEF Valid
  <1> HIDE DEF q
  <1>2. q # <<>>
    <2>1. q = <<>> => Bytes(q) = 0 BY <1>1, BytesNat
    <2> QED BY <1>1, <2>1
  <1>3. /\ p \in PduSet /\ size(p) \in Nat
        /\ Tail(q) \in Seq(PduSet) /\ Bytes(Tail(q)) = Bytes(q) - size(p)
        /\ Len(Tail(q)) = Len(q) - 1 /\ Len(q) \in Nat
        /\ \A i \in 1 .. Len(q) - 1 : Tail(q)[i] = q[i + 1]
    BY <1>1, <1>2, BytesNat, BytesTail, SizeNat
  <1>4. size(p) <= flow.deficit BY DEF q
  <1> HIDE DEF p
  <1>5. flow.size - size(p) \in Nat /\ flow.deficit - size(p) \in Nat
        /\ flow.deficit - size(p) <= flow.size - size(p) /\ flow.size - size(p) <= flow.size
    BY <1>1, <1>3, <1>4
  <1>6. /\ rest \in DescSet /\ rest.flow = flow.flow /\ rest.queue = Tail(q)
        /\ rest.size = flow.size - size(p) /\ rest.deficit = flow.deficit - size(p)
    BY <1>3, <1>5 DEF DescSet, q
  <1> HIDE DEF rest
  <1>7. \A i \in 1 .. Len(rest.queue) : Fresh(rest.queue[i], rest.flow)
    <2>1. \A i \in 1 .. Len(q) : Fresh(q[i], flow.flow) BY DEF Valid, q
    <2> TAKE i \in 1 .. Len(rest.queue)
    <2>2. i \in 1 .. Len(q) - 1 /\ i + 1 \in 1 .. Len(q) BY <1>3, <1>6
    <2> QED BY <1>3, <1>6, <2>1, <2>2
  <1>8. conf.sharing = "PER_FLOW" => rest.size <= conf.maxBufSize
    <2>1. conf.sharing = "PER_FLOW" => flow.size <= conf.maxBufSize BY DEF Valid
    <2>2. SUFFICES ASSUME conf.sharing = "PER_FLOW" PROVE rest.size <= conf.maxBufSize OBVIOUS
    <2>3. rest.size <= flow.size /\ rest.size \in Nat BY <1>5, <1>6
    <2>4. conf.maxBufSize \in Nat BY ConfFields
    <2> QED BY <1>1, <2>1, <2>2, <2>3, <2>4
  <1>9. Valid(rest) BY <1>1, <1>3, <1>5, <1>6, <1>7, <1>8 DEF Valid
  <1> QED BY <1>1, <1>2, <1>3, <1>6, <1>9 DEF q, p, rest

LEMMA SendHeadKeeps ==
    ASSUME NEW b, NEW s, NEW bytes, NEW owed, Burst(b, s, bytes, owed), b.spare, b.rr # <<>>,
           Head(b.rr).deficit > 0, size(Head(Head(b.rr).queue)) <= Head(b.rr).deficit
    PROVE  Burst(SendHead(b), s, bytes, owed) /\ SendHead(b).rr # <<>>
  <1> DEFINE flow == Head(b.rr)
             p    == Head(flow.queue)
             rest == [flow EXCEPT !.queue = Tail(@), !.size = @ - size(p), !.deficit = @ - size(p)]
             r    == [b.rr EXCEPT ![1] = rest]
             b2   == [b EXCEPT !.rr = r, !.sent = @ + size(p)]
             c    == addPdu(b2, p)
  <1>1. /\ b \in BurstSet /\ Ring(b.rr, s) /\ b.last = <<>> /\ Line(s, b.pdus, <<>>, b.rr)
        /\ conf \in Configs
    BY DEF Burst
  <1>2. /\ flow = b.rr[1] /\ 1 \in 1 .. Len(b.rr) /\ flow \in DescSet /\ Valid(flow)
    BY <1>1, RingTail
  <1> HIDE DEF flow
  <1>3. flow.deficit > 0 /\ size(p) <= flow.deficit BY DEF flow
  <1>4. /\ flow.queue # <<>> /\ p \in PduSet /\ size(p) \in Nat
        /\ rest \in DescSet /\ Valid(rest)
        /\ rest.flow = flow.flow /\ rest.queue = Tail(flow.queue)
        /\ rest.size = flow.size - size(p) /\ flow.size \in Nat
    BY <1>1, <1>2, <1>3, Headless
  <1> HIDE DEF rest
  <1>5. Ring(r, s) /\ Owed(r) = Owed(b.rr) - flow.size + rest.size
    BY <1>1, <1>2, <1>4, RingExcept
  <1>6. b.rr \in Seq(DescSet) BY <1>1, BurstFields
  <1>7. r \in Seq(DescSet) /\ Len(r) = Len(b.rr) /\ r[1] = rest
        /\ (\A k \in 2 .. Len(b.rr) : r[k] = b.rr[k]) /\ Len(b.rr) \in Nat
    <2>1. /\ [b.rr EXCEPT ![1] = rest] \in Seq(DescSet)
          /\ Len([b.rr EXCEPT ![1] = rest]) = Len(b.rr)
          /\ \A j \in 1 .. Len(b.rr) : [b.rr EXCEPT ![1] = rest][j] = IF j = 1 THEN rest ELSE b.rr[j]
      BY <1>2, <1>4, <1>6, ExceptSeq
    <2>2. \A k \in 2 .. Len(b.rr) : k \in 1 .. Len(b.rr) /\ k # 1 OBVIOUS
    <2>3. Len(b.rr) \in Nat BY <1>6
    <2> HIDE DEF r
    <2> QED BY <1>2, <2>1, <2>2, <2>3 DEF r
  <1>8. SendHead(b) = c
    <2>1. [b EXCEPT !.rr[1] = rest, !.sent = @ + size(p)] = b2 BY <1>1 DEF BurstSet
    <2> QED BY <2>1 DEF SendHead, rest, flow
  <1> HIDE DEF r, p
  <1>9. /\ b2 \in BurstSet /\ b2.rr = r /\ b2.pdus = b.pdus /\ b2.last = <<>> /\ b2.room = b.room
        /\ b2.sent = b.sent + size(p) /\ b.sent \in Nat
    <2>1. b.sent \in Nat /\ b.sent + size(p) \in Nat BY <1>1, <1>4, BurstFields
    <2> QED BY <1>1, <1>7, <2>1 DEF BurstSet
  <1> HIDE DEF b2
  <1>10. /\ p.state = "NO_FRAG" /\ Line(s, b.pdus, p, r) /\ Opens(b.pdus, p) = Opens(b.pdus, <<>>)
    <2>1. b.pdus \in Seq(PduSet) BY <1>1, BurstFields
    <2>2. r[1].queue = Tail(b.rr[1].queue) /\ b.rr[1].queue # <<>> BY <1>2, <1>4, <1>7
    <2>3. \A k \in 2 .. Len(b.rr) : r[k].queue = b.rr[k].queue BY <1>7
    <2>4. p = Head(b.rr[1].queue) BY <1>2 DEF p
    <2> QED BY <1>1, <1>7, <2>1, <2>2, <2>3, <2>4, LinePull
  <1>11. /\ c \in BurstSet /\ SameRest(c, b2)
         /\ c.room + Bytes(c.pdus) = b2.room + Bytes(b2.pdus)
         /\ \/ c.pdus = Append(b2.pdus, p) /\ c.last = b2.last
            \/ /\ c.spare = FALSE
               /\ \E piece, left \in PduSet : /\ c.pdus = Append(b2.pdus, piece) /\ c.last = left
                                              /\ Split(p, piece, left)
            \/ c.spare = FALSE /\ c.pdus = b2.pdus /\ c.last = p
    BY <1>4, <1>9, Added
  <1> HIDE DEF c
  <1>12. /\ Line(s, c.pdus, c.last, r) /\ Opens(c.pdus, c.last) = Opens(b.pdus, b.last)
         /\ c.spare => c.last = <<>>
    <2>0. b.pdus \in Seq(PduSet) BY <1>1, BurstFields
    <2>1. CASE c.pdus = Append(b2.pdus, p) /\ c.last = b2.last
      <3>1. Closes(p, p) BY <1>4, <1>10 DEF Closes, isFrag
      <3>2. /\ Line(s, Append(b.pdus, p), <<>>, r)
            /\ Opens(Append(b.pdus, p), <<>>) = Opens(b.pdus, p)
        BY <1>4, <1>10, <2>0, <3>1, LineClose, ZenonT(30)
      <3> QED BY <1>1, <1>9, <1>10, <2>1, <3>2
    <2>2. CASE /\ c.spare = FALSE
               /\ \E piece, left \in PduSet : /\ c.pdus = Append(b2.pdus, piece) /\ c.last = left
                                              /\ Split(p, piece, left)
      <3>1. PICK piece, left \in PduSet : /\ c.pdus = Append(b2.pdus, piece) /\ c.last = left
                                          /\ Split(p, piece, left)
        BY <2>2
      <3> QED BY <1>1, <1>4, <1>9, <1>10, <2>0, <2>2, <3>1, LineSplit
    <2>3. CASE c.spare = FALSE /\ c.pdus = b2.pdus /\ c.last = p
      BY <1>1, <1>9, <1>10, <2>3
    <2> QED BY <1>11, <2>1, <2>2, <2>3
  <1>13. c.rr = r /\ c.sent = b.sent + size(p) BY <1>9, <1>11 DEF SameRest
  <1>14. c.sent + Owed(r) = owed
    <2>1. Owed(b.rr) \in Nat BY <1>6, OwedNat
    <2>2. b.sent + Owed(b.rr) = owed BY DEF Burst
    <2> QED BY <1>4, <1>5, <1>9, <1>13, <2>1, <2>2
  <1>15. c.room + Bytes(c.pdus) = bytes BY <1>9, <1>11 DEF Burst
  <1>16. ~conf.lossy => reas \subseteq OtherOpen(s) \cup Opens(c.pdus, c.last)
    BY <1>12 DEF Burst
  <1>17. r # <<>> BY <1>2, <1>7
  <1> QED BY <1>1, <1>5, <1>8, <1>11, <1>12, <1>13, <1>14, <1>15, <1>16, <1>17 DEF Burst

LEMMA SendOneKeeps ==
    ASSUME NEW b, NEW s, NEW bytes, NEW owed, Burst(b, s, bytes, owed), b.rr # <<>>
    PROVE  Burst(SendOne(b), s, bytes, owed) /\ SendOne(b).rr # <<>>
  <1>1. CASE b.spare /\ Head(b.rr).deficit > 0 /\ size(Head(Head(b.rr).queue)) <= Head(b.rr).deficit
    <2>1. SendOne(b) = SendHead(b) BY <1>1 DEF SendOne
    <2> QED BY <1>1, <2>1, SendHeadKeeps
  <1>2. CASE ~(b.spare /\ Head(b.rr).deficit > 0 /\ size(Head(Head(b.rr).queue)) <= Head(b.rr).deficit)
    <2>1. SendOne(b) = b BY <1>2 DEF SendOne
    <2> QED BY <2>1
  <1> QED BY <1>1, <1>2

LEMMA SendTurnKeeps ==
    ASSUME NEW b, NEW s, NEW bytes, NEW owed, Burst(b, s, bytes, owed), b.rr # <<>>
    PROVE  Burst(SendTurn(b), s, bytes, owed) /\ SendTurn(b).rr # <<>>
  <1> DEFINE turn[k \in Nat] == IF k = 0 THEN b ELSE SendOne(turn[k - 1])
             n == Len(Head(b.rr).queue)
             Bad == {k \in Nat : ~(Burst(turn[k], s, bytes, owed) /\ turn[k].rr # <<>>)}
  <1>1. \A p, x : \E f : f = [k \in Nat |-> IF k = 0 THEN x ELSE SendOne(f[k - 1])]
    BY Turns!Runs
  <1>2. turn = [k \in Nat |-> IF k = 0 THEN b ELSE SendOne(turn[k - 1])]
    BY <1>1
  <1>3. SendTurn(b) = turn[n] BY DEF SendTurn
  <1> HIDE DEF turn
  <1>4. turn[0] = b /\ \A k \in Nat \ {0} : turn[k] = SendOne(turn[k - 1]) BY <1>2
  <1>5. ASSUME NEW k \in Bad PROVE k - 1 \in Bad
    <2>1. k \in Nat \ {0} /\ k - 1 \in Nat BY <1>4
    <2>2. turn[k] = SendOne(turn[k - 1]) BY <1>4, <2>1
    <2> QED BY <2>1, <2>2, SendOneKeeps
  <1>6. Bad \in SUBSET Nat OBVIOUS
  <1>7. n \in Nat
    <2>1. b.rr \in Seq(DescSet) BY BurstFields DEF Burst
    <2>2. Head(b.rr) \in DescSet BY <2>1
    <2> QED BY <2>2, DescFields
  <1>8. n \notin Bad
    <2> HIDE DEF Bad
    <2> QED BY <1>5, <1>6, Turns!Descent
  <1> QED BY <1>3, <1>7, <1>8

\* Where the current descriptor goes after its turn: the PDUs that are queued stay.
LEMMA Rotated ==
    ASSUME NEW list \in Seq(DescSet), list # <<>>
    PROVE  /\ Append(Tail(list), Head(list)) \in Seq(DescSet)
           /\ Rearranged(Append(Tail(list), Head(list)), list)
           /\ Head(list).queue = <<>> => Rearranged(Tail(list), list)
           /\ Tail(list) \in Seq(DescSet)
  <1> DEFINE n == Len(list)
             t == Tail(list)
             r == Append(t, Head(list))
  <1>1. /\ n \in Nat \ {0} /\ Head(list) = list[1] /\ Head(list) \in DescSet
        /\ t \in Seq(DescSet) /\ Len(t) = n - 1 /\ \A i \in 1 .. n - 1 : t[i] = list[i + 1]
    <2> HIDE DEF DescSet
    <2> QED OBVIOUS
  <1> HIDE DEF t, n
  <1>2. /\ r \in Seq(DescSet) /\ Len(r) = n /\ r[n] = Head(list)
        /\ \A i \in 1 .. n - 1 : r[i] = t[i]
    <2> HIDE DEF DescSet
    <2> QED BY <1>1
  <1> HIDE DEF r
  <1>3. \A i \in 1 .. n : i = 1 \/ (i - 1 \in 1 .. n - 1 /\ (i - 1) + 1 = i) BY <1>1
  <1>4. \A i \in 1 .. n : i = n \/ (i \in 1 .. n - 1 /\ i + 1 \in 1 .. n) BY <1>1
  <1>5. 1 \in 1 .. n /\ n \in 1 .. n /\ \A i \in 1 .. n - 1 : i \in 1 .. n BY <1>1
  <1>6. ASSUME NEW i \in 1 .. n, i # 1
        PROVE  t[i - 1] = list[i] /\ r[i - 1] = list[i] /\ i - 1 \in 1 .. n - 1 /\ i - 1 \in 1 .. n
    BY <1>1, <1>2, <1>3, <1>5, <1>6
  <1>7. Rearranged(r, list)
    <2>1. \A k \in 1 .. Len(r) : \E l \in 1 .. n : list[l] = r[k]
      <3> TAKE k \in 1 .. Len(r)
      <3>1. CASE k = n BY <1>1, <1>2, <1>5, <3>1
      <3>2. CASE k # n
        <4>1. k \in 1 .. n - 1 /\ k + 1 \in 1 .. n BY <1>2, <1>4, <3>2
        <4> QED BY <1>1, <1>2, <4>1
      <3> QED BY <3>1, <3>2
    <2>2. \A l \in 1 .. n : \E k \in 1 .. Len(r) : r[k] = list[l]
      <3> TAKE l \in 1 .. n
      <3>1. CASE l = 1 BY <1>1, <1>2, <1>5, <3>1
      <3>2. CASE l # 1 BY <1>2, <1>6, <3>2
      <3> QED BY <3>1, <3>2
    <2> QED BY <2>1, <2>2 DEF Rearranged, n
  <1>8. ASSUME Head(list).queue = <<>> PROVE Rearranged(t, list)
    <2>1. \A k \in 1 .. Len(t) : \E l \in 1 .. n : list[l] = t[k]
      <3> TAKE k \in 1 .. Len(t)
      <3>1. k \in 1 .. n - 1 /\ k + 1 \in 1 .. n BY <1>1
      <3> QED BY <1>1, <3>1
    <2>2. \A l \in 1 .. n : list[l].queue # <<>> => \E k \in 1 .. Len(t) : t[k] = list[l]
      <3> TAKE l \in 1 .. n
      <3>1. CASE l = 1 BY <1>1, <1>8, <3>1
      <3>2. CASE l # 1 BY <1>1, <1>6, <3>2
      <3> QED BY <3>1, <3>2
    <2> QED BY <2>1, <2>2 DEF Rearranged, n
  <1> QED BY <1>1, <1>2, <1>7, <1>8 DEF r, t

\* A descriptor without bytes has no PDUs.
LEMMA EmptyQueue ==
    ASSUME NEW d \in DescSet, Valid(d)
    PROVE  d.size = 0 <=> d.queue = <<>>
  <1>1. d.queue \in Seq(PduSet) /\ d.size = Bytes(d.queue) BY DescFields DEF Valid
  <1> QED BY <1>1, BytesNat

LEMMA EndTurnKeeps ==
    ASSUME NEW b, NEW s, NEW bytes, NEW owed, Burst(b, s, bytes, owed), b.rr # <<>>
    PROVE  Burst(EndTurn(b), s, bytes, owed)
  <1> DEFINE c == EndTurn(b)
             r == IF Head(b.rr).size = 0 THEN Tail(b.rr) ELSE Append(Tail(b.rr), Head(b.rr))
  <1>1. b \in BurstSet /\ Ring(b.rr, s) /\ b.rr \in Seq(DescSet) /\ Line(s, b.pdus, b.last, b.rr)
    BY DEF Burst, Ring
  <1>2. CASE ~b.spare
    <2>1. c = [b EXCEPT !.unfinished = TRUE] BY <1>2 DEF EndTurn
    <2>2. /\ c \in BurstSet /\ c.pdus = b.pdus /\ c.room = b.room /\ c.last = b.last /\ c.rr = b.rr
          /\ c.sent = b.sent /\ c.spare = b.spare
      BY <1>1, <2>1 DEF BurstSet
    <2> HIDE DEF c
    <2> QED BY <2>2 DEF Burst, c
  <1>3. CASE b.spare
    <2>1. c = [b EXCEPT !.unfinished = FALSE, !.rr = r] BY <1>3 DEF EndTurn
    <2>2. Head(b.rr) \in DescSet /\ Valid(Head(b.rr)) BY <1>1, RingTail
    <2>3. Ring(r, s) /\ Owed(r) = Owed(b.rr) /\ Rearranged(r, b.rr)
      <3>1. CASE Head(b.rr).size = 0
        <4>1. Head(b.rr).queue = <<>> BY <2>2, <3>1, EmptyQueue
        <4>2. Ring(Tail(b.rr), s) /\ Owed(Tail(b.rr)) = Owed(b.rr) - Head(b.rr).size
          BY <1>1, RingTail
        <4>3. Owed(b.rr) \in Nat BY <1>1, OwedNat
        <4> QED BY <1>1, <3>1, <4>1, <4>2, <4>3, Rotated
      <3>2. CASE Head(b.rr).size # 0
        BY <1>1, <3>2, RingRotate, Rotated
      <3> QED BY <3>1, <3>2
    <2> HIDE DEF r
    <2>4. r \in Seq(DescSet) BY <2>3 DEF Ring
    <2>5. /\ c \in BurstSet /\ c.pdus = b.pdus /\ c.room = b.room /\ c.last = b.last /\ c.rr = r
          /\ c.sent = b.sent /\ c.spare = b.spare
      BY <1>1, <2>1, <2>4 DEF BurstSet
    <2>6. Line(s, b.pdus, b.last, r) BY <1>1, <2>3, <2>4, LineRearranged
    <2> HIDE DEF c
    <2> QED BY <2>3, <2>5, <2>6 DEF Burst, c
  <1> QED BY <1>2, <1>3

LEMMA ReplenishKeeps ==
    ASSUME NEW b, NEW s, NEW bytes, NEW owed, Burst(b, s, bytes, owed), b.rr # <<>>
    PROVE  LET c == [b EXCEPT !.rr[1] = Replenish(@)]
           IN Burst(c, s, bytes, owed) /\ c.rr # <<>>
  <1> DEFINE flow == b.rr[1]
             d == Replenish(flow)
             r == [b.rr EXCEPT ![1] = d]
             c == [b EXCEPT !.rr = r]
  <1>1. /\ b \in BurstSet /\ Ring(b.rr, s) /\ b.rr \in Seq(DescSet)
        /\ Line(s, b.pdus, b.last, b.rr)
    BY DEF Burst, Ring
  <1>2. 1 \in 1 .. Len(b.rr) /\ flow \in DescSet /\ Valid(flow)
    <2>1. 1 \in 1 .. Len(b.rr) BY <1>1, RingTail
    <2>2. b.rr[1] \in DescSet /\ Valid(b.rr[1])
      BY <1>1, <2>1, ElementOfSeq DEF Ring
    <2> QED BY <2>1, <2>2
  <1> HIDE DEF flow
  <1>3. /\ flow.deficit \in Nat /\ flow.quantum \in Nat /\ flow.size \in Nat
    BY <1>2, DescFields
  <1>4. d \in DescSet /\ d.flow = flow.flow /\ d.size = flow.size /\ d.queue = flow.queue
        /\ d.deficit <= d.size
    <2> DEFINE deficit == IF flow.deficit + flow.quantum > flow.size THEN flow.size
                          ELSE flow.deficit + flow.quantum
    <2>1. deficit \in Nat /\ deficit <= flow.size BY <1>3
    <2>2. d = [flow EXCEPT !.deficit = deficit] BY <1>2 DEF Replenish, DescSet
    <2> HIDE DEF deficit
    <2> QED BY <1>2, <2>1, <2>2 DEF DescSet
  <1>5. Valid(d) BY <1>2, <1>4 DEF Valid
  <1> HIDE DEF d
  <1>6. Ring(r, s) /\ Owed(r) = Owed(b.rr)
    <2>1. Ring(r, s) /\ Owed(r) = Owed(b.rr) - flow.size + d.size
      BY <1>1, <1>2, <1>4, <1>5, RingExcept DEF flow
    <2>2. Owed(b.rr) \in Nat BY <1>1, OwedNat
    <2> QED BY <1>3, <1>4, <2>1, <2>2
  <1>7. /\ r \in Seq(DescSet) /\ Len(r) = Len(b.rr)
        /\ \A k \in 1 .. Len(b.rr) : r[k].queue = b.rr[k].queue
    BY <1>1, <1>2, <1>4, ExceptSeq DEF flow
  <1> HIDE DEF r
  <1>8. Rearranged(r, b.rr) BY <1>7 DEF Rearranged
  <1>9. Line(s, b.pdus, b.last, r) BY <1>1, <1>7, <1>8, LineRearranged
  <1>10. /\ c \in BurstSet /\ c.pdus = b.pdus /\ c.room = b.room /\ c.last = b.last /\ c.rr = r
         /\ c.sent = b.sent /\ c.spare = b.spare
    BY <1>1, <1>7 DEF BurstSet
  <1>11. c = [b EXCEPT !.rr[1] = Replenish(@)] BY <1>1 DEF BurstSet, r, d, flow
  <1>12. r # <<>> BY <1>2, <1>7
  <1> HIDE DEF c
  <1>13. Burst(c, s, bytes, owed) BY <1>6, <1>9, <1>10 DEF Burst
  <1> QED BY <1>10, <1>11, <1>12, <1>13

LEMMA serveKeeps ==
    ASSUME NEW b, NEW s, NEW bytes, NEW owed, Burst(b, s, bytes, owed), b.rr # <<>>,
           NEW resumed \in BOOLEAN
    PROVE  Burst(serve(b, resumed), s, bytes, owed)
  <1> DEFINE c == IF resumed THEN b ELSE [b EXCEPT !.rr[1] = Replenish(@)]
  <1>1. Burst(c, s, bytes, owed) /\ c.rr # <<>> BY ReplenishKeeps
  <1>2. serve(b, resumed) = EndTurn(SendTurn(c)) BY DEF serve
  <1> HIDE DEF c
  <1>3. Burst(SendTurn(c), s, bytes, owed) /\ SendTurn(c).rr # <<>> BY <1>1, SendTurnKeeps
  <1> QED BY <1>2, <1>3, EndTurnKeeps

LEMMA serveNextKeeps ==
    ASSUME NEW b, NEW s, NEW bytes, NEW owed, Burst(b, s, bytes, owed)
    PROVE  Burst(serveNext(b), s, bytes, owed)
  <1>1. CASE b.rr = <<>> \/ ~b.spare
    <2>1. serveNext(b) = b BY <1>1 DEF serveNext
    <2> QED BY <2>1
  <1>2. CASE ~(b.rr = <<>> \/ ~b.spare)
    <2>1. serveNext(b) = serve(b, FALSE) BY <1>2 DEF serveNext
    <2> QED BY <1>2, <2>1, serveKeeps
  <1> QED BY <1>1, <1>2

LEMMA RoundsKeep ==
    ASSUME NEW b, NEW s, NEW bytes, NEW owed, Burst(b, s, bytes, owed)
    PROVE  Burst(Rounds(b), s, bytes, owed)
  <1> DEFINE round[k \in Nat] == IF k = 0 THEN b ELSE serveNext(round[k - 1])
             n == Owed(b.rr)
             Bad == {k \in Nat : ~Burst(round[k], s, bytes, owed)}
  <1>1. \A p, x : \E f : f = [k \in Nat |-> IF k = 0 THEN x ELSE serveNext(f[k - 1])]
    BY Cycles!Runs
  <1>2. round = [k \in Nat |-> IF k = 0 THEN b ELSE serveNext(round[k - 1])]
    BY <1>1
  <1>3. Rounds(b) = round[n] BY DEF Rounds, Owed
  <1> HIDE DEF round
  <1>4. round[0] = b /\ \A k \in Nat \ {0} : round[k] = serveNext(round[k - 1]) BY <1>2
  <1>5. ASSUME NEW k \in Bad PROVE k - 1 \in Bad
    <2>1. k \in Nat \ {0} /\ k - 1 \in Nat BY <1>4
    <2>2. round[k] = serveNext(round[k - 1]) BY <1>4, <2>1
    <2> QED BY <2>1, <2>2, serveNextKeeps
  <1>6. Bad \in SUBSET Nat OBVIOUS
  <1>7. n \in Nat
    <2>1. b.rr \in Seq(DescSet) BY BurstFields DEF Burst
    <2> QED BY <2>1, OwedNat
  <1>8. n \notin Bad
    <2> HIDE DEF Bad
    <2> QED BY <1>5, <1>6, Cycles!Descent
  <1> QED BY <1>3, <1>7, <1>8

LEMMA scheduleKeeps ==
    ASSUME NEW b, NEW s, NEW bytes, NEW owed, Burst(b, s, bytes, owed),
           b.unfinished => b.rr # <<>>
    PROVE  Burst(schedule(b), s, bytes, owed)
  <1> DEFINE c == IF b.unfinished THEN serve(b, TRUE) ELSE b
  <1>1. Burst(c, s, bytes, owed) BY serveKeeps
  <1>2. schedule(b) = Rounds(c) BY DEF schedule
  <1> HIDE DEF c
  <1> QED BY <1>1, <1>2, RoundsKeep

\* What a grant opens the burst with.
LEMMA OpenedKeeps ==
    ASSUME NEW s \in Service, NEW bytes \in Nat, conf \in Configs,
           Ring(rr[s], s), lastPdu[s] \in PduSet \cup {<<>>}, fsn \in 0 .. FsnSize - 1,
           unfinished[s] \in BOOLEAN, Line(s, <<>>, lastPdu[s], rr[s]),
           ~conf.lossy => reas \subseteq OtherOpen(s) \cup Opens(<<>>, lastPdu[s])
    PROVE  Burst(Opened(s, bytes), s, bytes, Owed(rr[s]))
  <1> DEFINE b == [pdus |-> <<>>, room |-> bytes, spare |-> TRUE, last |-> lastPdu[s], fsn |-> fsn,
                   rr |-> rr[s], unfinished |-> unfinished[s], sent |-> 0]
             c == newBurst(b)
             p == lastPdu[s]
  <1>1. rr[s] \in Seq(DescSet) /\ <<>> \in Seq(PduSet)
    <2>1. <<>> \in Seq(PduSet) BY EmptySeq
    <2> QED BY <2>1 DEF Ring
  <1>2. b \in BurstSet BY <1>1 DEF BurstSet
  <1>3. /\ b.pdus = <<>> /\ b.last = p /\ b.rr = rr[s] /\ b.room = bytes /\ b.sent = 0
    OBVIOUS
  <1>4. Opened(s, bytes) = c BY DEF Opened
  <1> HIDE DEF b, p
  <1>5. p # <<>> => p \in PduSet /\ p.state \in {"NO_FRAG", "CONT_FRAG"}
    BY DEF Line, Pieces, p
  <1>6. /\ c \in BurstSet /\ SameRest(c, b)
        /\ c.room + Bytes(c.pdus) = b.room + Bytes(b.pdus)
        /\ \/ b.last = <<>> /\ c = b
           \/ b.last # <<>> /\ c.last = <<>>
              /\ \E q \in PduSet : c.pdus = Append(b.pdus, q) /\ Closes(b.last, q)
           \/ b.last # <<>> /\ c.spare = FALSE /\ c.pdus = b.pdus /\ c.last = b.last
           \/ b.last # <<>> /\ c.spare = FALSE
              /\ \E piece, rest \in PduSet : /\ c.pdus = Append(b.pdus, piece) /\ c.last = rest
                                             /\ Split(b.last, piece, rest)
    BY <1>2, <1>3, <1>5, Begun
  <1> HIDE DEF c
  <1>7. /\ Line(s, c.pdus, c.last, rr[s]) /\ Opens(c.pdus, c.last) = Opens(<<>>, p)
        /\ c.spare => c.last = <<>>
    <2>0. Line(s, b.pdus, p, rr[s]) /\ b.pdus \in Seq(PduSet) /\ Opens(b.pdus, p) = Opens(<<>>, p)
      BY <1>1, <1>3 DEF p
    <2>1. CASE p = <<>> /\ c = b BY <1>3, <2>0, <2>1
    <2>2. CASE p # <<>> /\ c.last = <<>>
               /\ \E q \in PduSet : c.pdus = Append(b.pdus, q) /\ Closes(p, q)
      <3>1. PICK q \in PduSet : c.pdus = Append(b.pdus, q) /\ Closes(p, q) BY <2>2
      <3>2. /\ Line(s, Append(b.pdus, q), <<>>, rr[s]) /\ Opens(Append(b.pdus, q), <<>>) = Opens(b.pdus, p)
        <4>1. p \in PduSet /\ b.pdus \in Seq(PduSet) /\ Line(s, b.pdus, p, rr[s]) BY <1>5, <2>0, <2>2
        <4>2. b.pdus = <<>> \/ p.state = "NO_FRAG" BY <1>3
        <4>3. Closes(p, q) BY <3>1
        <4> DEFINE list == rr[s]
                   last == p
                   pdus == b.pdus
        <4> HIDE DEF list, last, pdus
        <4>4. last \in PduSet /\ pdus \in Seq(PduSet) /\ Line(s, pdus, last, list)
              /\ (pdus = <<>> \/ last.state = "NO_FRAG") /\ Closes(last, q)
          BY <4>1, <4>2, <4>3 DEF list, last, pdus
        <4>5. Line(s, Append(pdus, q), <<>>, list) BY <4>4, LineClose
        <4>6. Opens(Append(pdus, q), <<>>) = Opens(pdus, last) BY <4>4, LineClose
        <4> QED BY <4>5, <4>6 DEF list, last, pdus
      <3> QED BY <2>0, <2>2, <3>1, <3>2
    <2>3. CASE c.spare = FALSE /\ c.pdus = <<>> /\ c.last = p
      BY <1>3, <2>0, <2>3
    <2>4. CASE p # <<>> /\ c.spare = FALSE
               /\ \E piece, rest \in PduSet : /\ c.pdus = Append(b.pdus, piece) /\ c.last = rest
                                              /\ Split(p, piece, rest)
      <3>1. PICK piece, rest \in PduSet : /\ c.pdus = Append(b.pdus, piece) /\ c.last = rest
                                          /\ Split(p, piece, rest)
        BY <2>4
      <3>2. /\ Line(s, Append(b.pdus, piece), rest, rr[s])
            /\ Opens(Append(b.pdus, piece), rest) = Opens(b.pdus, p)
        <4>1. p \in PduSet /\ b.pdus \in Seq(PduSet) /\ Line(s, b.pdus, p, rr[s]) BY <1>5, <2>0, <2>4
        <4>2. b.pdus = <<>> \/ p.state = "NO_FRAG" BY <1>3
        <4>3. Split(p, piece, rest) BY <3>1
        <4> QED BY <4>1, <4>2, <4>3, LineSplit
      <3> QED BY <2>0, <2>4, <3>1, <3>2
    <2> QED BY <1>3, <1>6, <2>1, <2>2, <2>3, <2>4
  <1>8. c.rr = rr[s] /\ c.sent = 0 BY <1>3, <1>6 DEF SameRest
  <1>9. c.room + Bytes(c.pdus) = bytes
    <2>1. Bytes(<<>>) = 0 BY <1>1, BytesNat
    <2> QED BY <1>3, <1>6, <2>1
  <1>10. c.sent + Owed(c.rr) = Owed(rr[s])
    <2>1. Owed(rr[s]) \in Nat BY <1>1, OwedNat
    <2> QED BY <1>8, <2>1
  <1>11. ~conf.lossy => reas \subseteq OtherOpen(s) \cup Opens(c.pdus, c.last) BY <1>7 DEF p
  <1> QED BY <1>4, <1>6, <1>7, <1>8, <1>9, <1>10, <1>11 DEF Burst

\* The burst that is sent.
Filled(s, bytes) ==
    IF Opened(s, bytes).spare THEN schedule(Opened(s, bytes)) ELSE Opened(s, bytes)

LEMMA FilledKeeps ==
    ASSUME NEW s \in Service, NEW bytes \in Nat, conf \in Configs,
           Ring(rr[s], s), lastPdu[s] \in PduSet \cup {<<>>}, fsn \in 0 .. FsnSize - 1,
           unfinished[s] \in BOOLEAN, Line(s, <<>>, lastPdu[s], rr[s]),
           ~conf.lossy => reas \subseteq OtherOpen(s) \cup Opens(<<>>, lastPdu[s]),
           Proceeds(Opened(s, bytes))
    PROVE  Burst(Filled(s, bytes), s, bytes, Owed(rr[s]))
  <1>1. Burst(Opened(s, bytes), s, bytes, Owed(rr[s])) BY OpenedKeeps
  <1> QED BY <1>1, scheduleKeeps DEF Proceeds, Filled

-----------------------------------------------------------------------------
(* A PDU arrives. *)

\* p comes to the end of a queue, or into a new one.
Extended(r, list, p) ==
    /\ \A k \in 1 .. Len(r) : \E q \in Seq(PduSet) :
          /\ q = <<>> \/ \E l \in 1 .. Len(list) : q = list[l].queue
          /\ r[k].queue = q \/ r[k].queue = Append(q, p)
    /\ \A l \in 1 .. Len(list) : \E k \in 1 .. Len(r) :
          r[k].queue = list[l].queue \/ r[k].queue = Append(list[l].queue, p)
    /\ \E k \in 1 .. Len(r) : \E q \in Seq(PduSet) : r[k].queue = Append(q, p)

\* A descriptor with one more PDU is valid.
LEMMA OneMore ==
    ASSUME conf \in Configs, NEW d \in DescSet, Valid(d), NEW p \in PduSet, Fresh(p, d.flow),
           conf.sharing = "PER_FLOW" => d.size + size(p) <= conf.maxBufSize
    PROVE  LET e == [d EXCEPT !.queue = Append(@, p), !.size = @ + size(p)]
           IN /\ e \in DescSet /\ Valid(e) /\ e.flow = d.flow /\ e.size = d.size + size(p)
              /\ e.queue = Append(d.queue, p) /\ d.queue \in Seq(PduSet)
  <1> DEFINE q == d.queue
             e == [d EXCEPT !.queue = Append(@, p), !.size = @ + size(p)]
  <1>1. q \in Seq(PduSet) /\ d.size \in Nat /\ d.deficit \in Nat /\ d.size = Bytes(q)
        /\ d.deficit <= d.size /\ size(p) \in Nat
    BY DescFields, SizeNat DEF Valid
  <1> HIDE DEF q
  <1>2. /\ Append(q, p) \in Seq(PduSet) /\ Bytes(Append(q, p)) = Bytes(q) + size(p)
        /\ Len(Append(q, p)) = Len(q) + 1 /\ Append(q, p)[Len(q) + 1] = p
        /\ \A i \in 1 .. Len(q) : Append(q, p)[i] = q[i]
    BY <1>1, BytesAppend, AppendPdu
  <1>3. d.size + size(p) \in Nat /\ d.deficit <= d.size + size(p) BY <1>1
  <1>4. /\ e \in DescSet /\ e.flow = d.flow /\ e.queue = Append(q, p) /\ e.size = d.size + size(p)
        /\ e.deficit = d.deficit
    BY <1>2, <1>3 DEF DescSet, q
  <1> HIDE DEF e
  <1>5. \A i \in 1 .. Len(e.queue) : Fresh(e.queue[i], e.flow)
    <2>1. \A i \in 1 .. Len(q) : Fresh(q[i], d.flow) BY DEF Valid, q
    <2>2. \A i \in 1 .. Len(e.queue) : i \in 1 .. Len(q) \/ i = Len(q) + 1 BY <1>1, <1>2, <1>4
    <2> HIDE DEF Fresh
    <2> QED BY <1>2, <1>4, <2>1, <2>2
  <1>6. Valid(e) BY <1>1, <1>2, <1>3, <1>4, <1>5 DEF Valid
  <1> QED BY <1>1, <1>4, <1>6 DEF q, e

\* Enqueue when the flow has a descriptor.
LEMMA EnqueuedKnown ==
    ASSUME conf \in Configs, NEW s \in Service, Ring(rr[s], s), NEW p \in PduSet, Fresh(p, p.flow),
           NEW i \in 1 .. Len(rr[s]), rr[s][i].flow = p.flow,
           conf.sharing = "PER_FLOW" => flowSize(s, p.flow) + size(p) <= conf.maxBufSize
    PROVE  /\ Ring(Enqueue(s, p), s)
           /\ Owed(Enqueue(s, p)) = Owed(rr[s]) + size(p)
           /\ Extended(Enqueue(s, p), rr[s], p)
  <1> DEFINE list == rr[s]
             d == list[i]
             e == [d EXCEPT !.queue = Append(@, p), !.size = @ + size(p)]
             r == [list EXCEPT ![i] = e]
  <1>1. list \in Seq(DescSet) /\ d \in DescSet /\ Valid(d) /\ DOMAIN list = 1 .. Len(list)
    BY ElementOfSeq DEF Ring
  <1>2. known(list, p.flow) = {i} BY <1>1 DEF known, Ring
  <1>3. flowSize(s, p.flow) = d.size
    <2>1. (CHOOSE j \in {i} : TRUE) = i OBVIOUS
    <2>2. {i} # {} OBVIOUS
    <2> QED BY <1>2, <2>1, <2>2 DEF flowSize
  <1>4. Enqueue(s, p) = r
    <2>1. Enqueue(s, p) = [j \in DOMAIN list |->
               IF j \in {i} THEN [list[j] EXCEPT !.queue = Append(@, p), !.size = @ + size(p)]
               ELSE list[j]]
      BY <1>2 DEF Enqueue
    <2> QED BY <1>1, <2>1
  <1>5. /\ e \in DescSet /\ Valid(e) /\ e.flow = d.flow /\ e.size = d.size + size(p)
        /\ e.queue = Append(d.queue, p) /\ d.queue \in Seq(PduSet)
    BY <1>1, <1>3, OneMore
  <1> HIDE DEF e
  <1>6. /\ Ring(r, s) /\ Owed(r) = Owed(list) - d.size + e.size
    <2>1. e.flow = list[i].flow BY <1>5
    <2> QED BY <1>5, <2>1, RingExcept
  <1>7. Owed(r) = Owed(list) + size(p)
    <2>1. Owed(list) \in Nat /\ d.size \in Nat /\ size(p) \in Nat
      BY <1>1, OwedNat, DescFields, SizeNat
    <2> QED BY <1>5, <1>6, <2>1
  <1>8. /\ Len(r) = Len(list) /\ r[i] = e /\ \A j \in 1 .. Len(list) : j # i => r[j] = list[j]
    BY <1>1, <1>5, ExceptSeq
  <1>9. \A j \in 1 .. Len(list) : list[j].queue \in Seq(PduSet) BY <1>1, DescFields
  <1> HIDE DEF r
  <1>10. Extended(r, list, p)
    <2>1. \A k \in 1 .. Len(r) : r[k].queue = list[k].queue \/ r[k].queue = Append(list[k].queue, p)
      BY <1>5, <1>8
    <2>2. r[i].queue = Append(list[i].queue, p) BY <1>5, <1>8
    <2> QED BY <1>8, <1>9, <2>1, <2>2 DEF Extended
  <1> QED BY <1>4, <1>6, <1>7, <1>10

\* Enqueue when it has none.
LEMMA EnqueuedNew ==
    ASSUME conf \in Configs, NEW s \in Service, Ring(rr[s], s), NEW p \in PduSet, Fresh(p, p.flow),
           Serv[p.flow] = s, \A i \in 1 .. Len(rr[s]) : rr[s][i].flow # p.flow,
           conf.sharing = "PER_FLOW" => flowSize(s, p.flow) + size(p) <= conf.maxBufSize
    PROVE  /\ Ring(Enqueue(s, p), s)
           /\ Owed(Enqueue(s, p)) = Owed(rr[s]) + size(p)
           /\ Extended(Enqueue(s, p), rr[s], p)
  <1> DEFINE list == rr[s]
             d == [flow |-> p.flow, quantum |-> 0, deficit |-> 0, size |-> size(p), queue |-> <<p>>]
             a == Append(list, d)
             r == recompute(a)
  <1>1. list \in Seq(DescSet) /\ DOMAIN list = 1 .. Len(list) /\ Len(list) \in Nat
    BY DEF Ring
  <1>2. known(list, p.flow) = {} BY <1>1 DEF known
  <1>3. Enqueue(s, p) = r BY <1>2 DEF Enqueue
  <1>4. flowSize(s, p.flow) = 0 BY <1>2 DEF flowSize
  <1>5. size(p) \in Nat /\ p.flow \in Flow BY SizeNat, PduFields
  <1>6. <<p>> = Append(<<>>, p) /\ <<>> \in Seq(PduSet) /\ <<p>> \in Seq(PduSet) /\ Bytes(<<>>) = 0
    <2>1. <<>> \in Seq(PduSet) BY EmptySeq
    <2>2. Bytes(<<>>) = 0 BY <2>1, BytesNat
    <2>3. Append(<<>>, p) \in Seq(PduSet) BY <2>1, BytesAppend
    <2>4. <<p>> = Append(<<>>, p) OBVIOUS
    <2> QED BY <2>1, <2>2, <2>3, <2>4
  <1>7. Bytes(<<p>>) = size(p)
    <2>1. Bytes(Append(<<>>, p)) = Bytes(<<>>) + size(p) BY <1>6, BytesAppend
    <2> QED BY <1>5, <1>6, <2>1
  <1>8. d \in DescSet BY <1>5, <1>6 DEF DescSet
  <1>9. Valid(d)
    <2>1. \A i \in 1 .. Len(<<p>>) : Fresh(<<p>>[i], p.flow) OBVIOUS
    <2> QED BY <1>4, <1>5, <1>7, <2>1 DEF Valid
  <1>10. d.flow = p.flow /\ d.size = size(p) /\ d.queue = Append(<<>>, p) BY <1>6
  <1> HIDE DEF d
  <1>11. Ring(a, s) /\ Owed(a) = Owed(list) + size(p) BY <1>8, <1>9, <1>10, RingAppend
  <1>12. /\ a \in Seq(DescSet) /\ Len(a) = Len(list) + 1 /\ a[Len(list) + 1] = d
         /\ \A j \in 1 .. Len(list) : a[j] = list[j]
    <2> HIDE DEF DescSet
    <2> QED BY <1>1, <1>8
  <1> HIDE DEF a
  <1>13. /\ r \in Seq(DescSet) /\ Len(r) = Len(a)
         /\ \A i \in 1 .. Len(a) : /\ r[i].flow = a[i].flow /\ r[i].deficit = a[i].deficit
                                   /\ r[i].size = a[i].size /\ r[i].queue = a[i].queue
    BY <1>12, Recomputed
  <1> HIDE DEF r
  <1>14. Ring(r, s) /\ Owed(r) = Owed(a) BY <1>11, <1>12, <1>13, RingSimilar
  <1>15. \A j \in 1 .. Len(list) : list[j].queue \in Seq(PduSet) BY <1>1, DescFields, ElementOfSeq
  <1>16. Extended(r, list, p)
    <2>1. \A k \in 1 .. Len(list) : k \in 1 .. Len(r) /\ r[k].queue = list[k].queue
      BY <1>12, <1>13
    <2>2. Len(list) + 1 \in 1 .. Len(r) /\ r[Len(list) + 1].queue = Append(<<>>, p)
      BY <1>1, <1>10, <1>12, <1>13
    <2>3. \A k \in 1 .. Len(r) : k \in 1 .. Len(list) \/ k = Len(list) + 1 BY <1>1, <1>12, <1>13
    <2> QED BY <1>6, <1>15, <2>1, <2>2, <2>3 DEF Extended
  <1> QED BY <1>3, <1>11, <1>14, <1>16

-----------------------------------------------------------------------------
(* Sums over the services. *)

Sum(size_) == LET all == SetToSeq(Service) IN Total([i \in DOMAIN all |-> size_[all[i]]])

LEMMA Services ==
    LET all == SetToSeq(Service)
        n   == Cardinality(Service)
    IN /\ n \in Nat
       /\ all \in [1 .. n -> Service]
       /\ \A i, j \in 1 .. n : all[i] = all[j] => i = j
       /\ \A s \in Service : \E i \in 1 .. n : all[i] = s
  <1> DEFINE all == SetToSeq(Service)
             n   == Cardinality(Service)
             g   == [f \in Flow |-> Serv[f]]
  <1>1. IsFiniteSet(Service)
    <2>1. g \in Surjection(Flow, Service) BY DEF Surjection, Service
    <2> QED BY <2>1, FS_Surjection, DataPlaneAssumption
  <1>2. n \in Nat /\ ExistsBijection(1 .. n, Service) BY <1>1, FS_CardinalityType
  <1> HIDE DEF n
  <1>3. \E f \in [1 .. n -> Service] : IsInjective(f)
    BY <1>2 DEF ExistsBijection, Bijection, Injection
  <1>4. all \in [1 .. n -> Service] /\ IsInjective(all) BY <1>3 DEF SetToSeq, n
  <1> HIDE DEF all
  <1>5. all \in Injection(1 .. n, Service) BY <1>4 DEF Injection
  <1>6. Cardinality(1 .. n) = n BY <1>2, FS_Interval
  <1>7. all \in Surjection(1 .. n, Service) BY <1>1, <1>5, <1>6, FS_Injection DEF n
  <1>8. \A s \in Service : \E i \in 1 .. n : all[i] = s BY <1>4, <1>7 DEF Surjection
  <1>9. \A i, j \in 1 .. n : all[i] = all[j] => i = j BY <1>4 DEF IsInjective
  <1> QED BY <1>2, <1>4, <1>8, <1>9 DEF all, n

\* The count of one service changes.
LEMMA SumExcept ==
    ASSUME NEW t \in [Service -> Nat], NEW s \in Service, NEW x \in Nat
    PROVE  /\ Sum([t EXCEPT ![s] = x]) = Sum(t) - t[s] + x
           /\ Sum(t) \in Nat /\ t[s] <= Sum(t)
  <1> DEFINE all == SetToSeq(Service)
             n   == Cardinality(Service)
             u   == [t EXCEPT ![s] = x]
             v   == [i \in DOMAIN all |-> t[all[i]]]
             w   == [i \in DOMAIN all |-> u[all[i]]]
  <1>1. /\ n \in Nat /\ all \in [1 .. n -> Service]
        /\ \A i, j \in 1 .. n : all[i] = all[j] => i = j
        /\ \A r \in Service : \E i \in 1 .. n : all[i] = r
    BY Services
  <1> HIDE DEF all, n
  <1>2. PICK i \in 1 .. n : all[i] = s BY <1>1
  <1>3. u[s] = x /\ \A r \in Service : r # s => u[r] = t[r] OBVIOUS
  <1> HIDE DEF u
  <1>4. v \in Seq(Nat) /\ Len(v) = n /\ v[i] = t[s] BY <1>1, <1>2
  <1>5. v \in Seq(Int)
    <2>1. Nat \subseteq Int OBVIOUS
    <2> QED BY <1>4, <2>1
  <1>6. w = [v EXCEPT ![i] = x] BY <1>1, <1>2, <1>3
  <1>7. Sum(t) = Total(v) /\ Sum(u) = Total(w) BY DEF Sum, all
  <1> HIDE DEF v, w
  <1>8. Total([v EXCEPT ![i] = x]) = Total(v) - v[i] + x
    <2>1. i \in 1 .. Len(v) /\ x \in Int BY <1>2, <1>4
    <2> QED BY <1>5, <2>1, TotalExcept
  <1>9. Total(v) \in Nat /\ v[i] <= Total(v) BY <1>2, <1>4, TotalNat
  <1> QED BY <1>4, <1>6, <1>7, <1>8, <1>9 DEF u

LEMMA SumZero == Sum([s \in Service |-> 0]) = 0
  <1> DEFINE all == SetToSeq(Service)
             z   == [s \in Service |-> 0]
             v   == [i \in DOMAIN all |-> z[all[i]]]
             n   == Cardinality(Service)
  <1>1. n \in Nat /\ all \in [1 .. n -> Service] BY Services
  <1> HIDE DEF all, n
  <1>2. v \in Seq(Int) /\ Len(v) = n /\ \A i \in 1 .. n : v[i] = 0 BY <1>1
  <1>3. Sum(z) = Total(v) BY DEF Sum, all
  <1> HIDE DEF v
  <1>4. PICK sum : /\ Total(v) = sum[Len(v)] /\ sum[0] = 0
                   /\ \A k \in Nat \ {0} : sum[k] = sum[k - 1] + v[k]
    BY SumSteps
  <1> DEFINE Bad == {k \in 0 .. n : sum[k] # 0}
  <1>5. ASSUME NEW k \in Bad PROVE k - 1 \in Bad
    <2>1. k # 0 BY <1>4, <1>5
    <2>2. k - 1 \in 0 .. n /\ k \in Nat \ {0} /\ k \in 1 .. n BY <1>1, <2>1
    <2>3. sum[k] = sum[k - 1] + 0 BY <1>2, <1>4, <2>2
    <2>4. SUFFICES ASSUME k - 1 \notin Bad PROVE FALSE OBVIOUS
    <2>5. sum[k - 1] = 0 BY <2>2, <2>4
    <2>6. sum[k] = 0 BY <2>3, <2>5
    <2> QED BY <2>6
  <1>6. Bad \in SUBSET Nat OBVIOUS
  <1>7. n \notin Bad
    <2> HIDE DEF Bad
    <2> QED BY <1>5, <1>6, Sums!Descent
  <1> QED BY <1>1, <1>2, <1>3, <1>4, <1>7

-----------------------------------------------------------------------------
(* The invariant. *)

\* The PDUs of the burst on the channel, if it is one of service s.
airOf(s) == IF air # <<>> /\ Serv[Head(air).flow] = s THEN air ELSE <<>>

Typed ==
    /\ conf \in Configs
    /\ marked \in Nat /\ got \in Nat /\ got <= marked
    /\ DOMAIN rr = Service
    /\ linkSize \in [Service -> Nat] /\ bufSize \in Nat
    /\ unfinished \in [Service -> BOOLEAN]
    /\ lastPdu \in [Service -> PduSet \cup {<<>>}]
    /\ fsn \in 0 .. FsnSize - 1
    /\ air \in Seq(PduSet) /\ limit \in Nat
    /\ DOMAIN upto = Service

\* The counts of the queues.
Counted ==
    /\ \A s \in Service : /\ Ring(rr[s], s)
                          /\ linkSize[s] = Owed(rr[s])
                          /\ conf.sharing = "PER_LINK" => linkSize[s] <= conf.maxBufSize
    /\ bufSize = Sum(linkSize)
    /\ conf.sharing = "SHARED" => bufSize <= conf.maxBufSize

\* What is on its way, service by service.
Lines == \A s \in Service : Line(s, airOf(s), lastPdu[s], rr[s])

\* The reassembly buffer has pieces of pending SDUs, and has delivered whole ones.
Buffered ==
    ~conf.lossy => /\ reas \subseteq UNION {Opens(airOf(s), lastPdu[s]) : s \in Service}
                   /\ whole

DInv == Typed /\ Counted /\ Lines /\ Buffered /\ BurstFits

\* Nothing changes for a service by a step of another, or of another kind.
LEMMA LineStays ==
    ASSUME NEW s, NEW pdus, NEW last, NEW list, Line(s, pdus, last, list),
           conf' = conf, got' = got, marked' = marked, upto'[s] = upto[s]
    PROVE  Line(s, pdus, last, list)'
  <1>1. \A p : Own(p, s) => Own(p, s)' BY DEF Own
  <1>2. Owned(s, pdus, last, list)' BY <1>1 DEF Line, Owned
  <1>3. ~conf.lossy => Complete(s, pdus, last, list)' BY DEF Line, Complete
  <1> QED BY <1>2, <1>3 DEF Line

\* A PDU joins its queue, with the next mark if it has one.
LEMMA LineExtended ==
    ASSUME NEW s, NEW pdus \in Seq(PduSet), NEW last \in PduSet \cup {<<>>},
           NEW list \in Seq(DescSet), NEW r \in Seq(DescSet),
           Line(s, pdus, last, list), NEW p \in PduSet, Extended(r, list, p),
           Serv[p.flow] = s, marked \in Nat, got \in Nat, got <= marked,
           conf' = conf, got' = got, upto' = upto,
           \/ p.mark = 0 /\ marked' = marked
           \/ p.mark = marked + 1 /\ p.flow = conf.watched /\ marked' = p.mark
    PROVE  Line(s, pdus, last, r)'
  <1> HIDE DEF DescSet
  <1>1. p.mark \in Nat /\ \A x \in PduSet : x.mark \in Nat BY PduFields
  <1>2. \A x \in PduSet : Own(x, s) => Own(x, s)' /\ Before(x, p)
    BY <1>1 DEF Own, Before
  <1>3. Own(p, s)' BY <1>1 DEF Own
  <1>4. ASSUME NEW k \in 1 .. Len(r), NEW j \in 1 .. Len(r[k].queue)
        PROVE  \/ r[k].queue[j] = p /\ j = Len(r[k].queue)
               \/ \E l \in 1 .. Len(list) : /\ j \in 1 .. Len(list[l].queue)
                                            /\ r[k].queue[j] = list[l].queue[j]
    <2>1. PICK q \in Seq(PduSet) : /\ q = <<>> \/ \E l \in 1 .. Len(list) : q = list[l].queue
                                   /\ r[k].queue = q \/ r[k].queue = Append(q, p)
      BY DEF Extended
    <2>2. CASE j \in 1 .. Len(q)
      <3>1. q # <<>> /\ r[k].queue[j] = q[j] BY <2>1, <2>2, SMTT(30)
      <3> QED BY <2>1, <2>2, <3>1
    <2>3. CASE j \notin 1 .. Len(q)
      <3>1. r[k].queue = Append(q, p) BY <1>4, <2>1, <2>3
      <3>2. /\ Len(Append(q, p)) = Len(q) + 1 /\ Append(q, p)[Len(q) + 1] = p /\ Len(q) \in Nat
        BY AppendPdu
      <3>3. j = Len(q) + 1
        <4>1. j \in 1 .. Len(q) + 1 BY <1>4, <3>1, <3>2
        <4> QED BY <2>3, <3>2, <4>1
      <3> QED BY <3>1, <3>2, <3>3
    <2> QED BY <2>2, <2>3
  <1>5. \A l \in 1 .. Len(list) : \A j \in 1 .. Len(list[l].queue) :
           list[l].queue[j] \in PduSet /\ Own(list[l].queue[j], s)
    <2> TAKE l \in 1 .. Len(list)
    <2>1. list[l].queue \in Seq(PduSet) BY DescFields, ElementOfSeq
    <2> QED BY <2>1, ElementOfSeq DEF Line, Owned
  <1>6. Owned(s, pdus, last, r)'
    <2>1. ASSUME NEW k \in 1 .. Len(r), NEW j \in 1 .. Len(r[k].queue)
          PROVE  Own(r[k].queue[j], s)'
      BY <1>2, <1>3, <1>4, <1>5
    <2>2. \A i \in 1 .. Len(pdus) : pdus[i] \in PduSet BY ElementOfSeq
    <2>3. \A i \in 1 .. Len(pdus) : Own(pdus[i], s)' BY <1>2, <2>2 DEF Line, Owned
    <2>4. last # <<>> => Own(last, s)' BY <1>2 DEF Line, Owned
    <2> HIDE DEF Own
    <2> QED BY <2>1, <2>3, <2>4 DEF Owned
  <1>7. Sorted(pdus, last, r)
    <2>1. ASSUME NEW i \in 1 .. Len(pdus), NEW k \in 1 .. Len(r), NEW j \in 1 .. Len(r[k].queue)
          PROVE  Before(pdus[i], r[k].queue[j])
      <3>1. CASE r[k].queue[j] = p
        <4>1. pdus[i] \in PduSet BY ElementOfSeq
        <4> QED BY <1>2, <3>1, <4>1 DEF Line, Owned
      <3>2. CASE \E l \in 1 .. Len(list) : /\ j \in 1 .. Len(list[l].queue)
                                           /\ r[k].queue[j] = list[l].queue[j]
        BY <3>2 DEF Line, Sorted
      <3> QED BY <1>4, <3>1, <3>2
    <2>2. ASSUME NEW k \in 1 .. Len(r), NEW j \in 1 .. Len(r[k].queue), last # <<>>
          PROVE  Before(last, r[k].queue[j])
      <3>1. CASE r[k].queue[j] = p BY <1>2, <2>2, <3>1 DEF Line, Owned
      <3>2. CASE \E l \in 1 .. Len(list) : /\ j \in 1 .. Len(list[l].queue)
                                           /\ r[k].queue[j] = list[l].queue[j]
        BY <2>2, <3>2 DEF Line, Sorted
      <3> QED BY <1>4, <3>1, <3>2
    <2>3. ASSUME NEW k \in 1 .. Len(r), NEW i \in 1 .. Len(r[k].queue),
                 NEW j \in 1 .. Len(r[k].queue), i < j
          PROVE  Before(r[k].queue[i], r[k].queue[j])
      <3>1. PICK q \in Seq(PduSet) : /\ q = <<>> \/ \E l \in 1 .. Len(list) : q = list[l].queue
                                     /\ r[k].queue = q \/ r[k].queue = Append(q, p)
        BY DEF Extended
      <3>2. /\ Len(Append(q, p)) = Len(q) + 1 /\ Append(q, p)[Len(q) + 1] = p /\ Len(q) \in Nat
            /\ \A m \in 1 .. Len(q) : Append(q, p)[m] = q[m]
        BY AppendPdu
      <3>3. i \in 1 .. Len(q) /\ r[k].queue[i] = q[i]
        <4>1. j \in 1 .. Len(q) + 1 BY <3>1, <3>2
        <4>2. i \in Nat \ {0} /\ i \in 1 .. Len(q) BY <2>3, <3>2, <4>1
        <4> QED BY <3>1, <3>2, <4>2
      <3>4. q # <<>> /\ \E l \in 1 .. Len(list) : q = list[l].queue BY <3>1, <3>3
      <3>5. PICK l \in 1 .. Len(list) : q = list[l].queue BY <3>4
      <3>6. CASE j \in 1 .. Len(q)
        <4>1. r[k].queue[j] = q[j] BY <3>1, <3>2, <3>6
        <4> QED BY <2>3, <3>3, <3>5, <3>6, <4>1 DEF Line, Sorted
      <3>7. CASE j \notin 1 .. Len(q)
        <4>1. r[k].queue = Append(q, p) BY <3>1, <3>7
        <4>2. j = Len(q) + 1
          <5>1. j \in 1 .. Len(q) + 1 BY <3>2, <4>1
          <5> QED BY <3>2, <3>7, <5>1, SMTT(30)
        <4>3. r[k].queue[j] = p BY <3>2, <4>1, <4>2
        <4> QED BY <1>2, <1>5, <3>3, <3>5, <4>3
      <3> QED BY <3>6, <3>7
    <2>4. /\ \A i, j \in 1 .. Len(pdus) : i < j => Before(pdus[i], pdus[j])
          /\ \A i \in 1 .. Len(pdus) : last # <<>> /\ Delivers(pdus[i]) => Before(pdus[i], last)
      BY DEF Line, Sorted
    <2> HIDE DEF Before, Delivers
    <2> QED BY <2>1, <2>2, <2>3, <2>4 DEF Sorted
  <1>8. ASSUME ~conf.lossy PROVE Complete(s, pdus, last, r)'
    <2>1. Complete(s, pdus, last, list) BY <1>8 DEF Line
    <2>2. ASSUME NEW m, Present(m, pdus, last, list) PROVE Present(m, pdus, last, r)
      <3>1. CASE \E l \in 1 .. Len(list) : \E j \in 1 .. Len(list[l].queue) : list[l].queue[j].mark = m
        <4>1. PICK l \in 1 .. Len(list) : \E j \in 1 .. Len(list[l].queue) : list[l].queue[j].mark = m
          BY <3>1
        <4>2. PICK j \in 1 .. Len(list[l].queue) : list[l].queue[j].mark = m BY <4>1
        <4>3. PICK k \in 1 .. Len(r) :
                 r[k].queue = list[l].queue \/ r[k].queue = Append(list[l].queue, p)
          BY DEF Extended
        <4>4. list[l].queue \in Seq(PduSet) BY DescFields, ElementOfSeq
        <4>5. j \in 1 .. Len(r[k].queue) /\ r[k].queue[j] = list[l].queue[j]
          <5> DEFINE q == list[l].queue
          <5>1. /\ Len(Append(q, p)) = Len(q) + 1 /\ Len(q) \in Nat
                /\ \A i \in 1 .. Len(q) : Append(q, p)[i] = q[i]
            BY <4>4, AppendPdu
          <5>2. j \in 1 .. Len(q) /\ j \in 1 .. Len(q) + 1 BY <5>1
          <5> QED BY <4>3, <5>1, <5>2
        <4> QED BY <4>2, <4>5 DEF Present
      <3> QED BY <2>2, <3>1 DEF Present
    <2>3. Present(p.mark, pdus, last, r)
      <3>1. PICK k \in 1 .. Len(r) : \E q \in Seq(PduSet) : r[k].queue = Append(q, p)
        BY DEF Extended
      <3>2. PICK q \in Seq(PduSet) : r[k].queue = Append(q, p) BY <3>1
      <3>3. Len(q) + 1 \in 1 .. Len(r[k].queue) /\ r[k].queue[Len(q) + 1] = p
        <4>1. Len(Append(q, p)) = Len(q) + 1 /\ Append(q, p)[Len(q) + 1] = p /\ Len(q) \in Nat
          BY AppendPdu
        <4> QED BY <3>2, <4>1
      <3> QED BY <3>3 DEF Present
    <2>4. ASSUME s = Serv[conf.watched], NEW m \in got' + 1 .. marked' PROVE Present(m, pdus, last, r)
      <3>1. m = p.mark \/ m \in got + 1 .. marked BY <1>1, <2>4
      <3> QED BY <2>1, <2>2, <2>3, <2>4, <3>1 DEF Complete
    <2> QED BY <2>1, <2>4 DEF Complete
  <1> QED BY <1>6, <1>7, <1>8 DEF Line

\* The PDUs of the queues of the other services have no mark when an SDU of
\* another service is marked.
LEMMA LineOther ==
    ASSUME NEW s, NEW pdus, NEW last, NEW list, Line(s, pdus, last, list),
           \A i \in 1 .. Len(pdus) : pdus[i] \in PduSet, last # <<>> => last \in PduSet,
           list \in Seq(DescSet), marked \in Nat, got \in Nat,
           conf' = conf, got' = got, upto' = upto,
           marked' = marked \/ (marked' = marked + 1 /\ s # Serv[conf.watched])
    PROVE  Line(s, pdus, last, list)'
  <1>1. \A p \in PduSet : Own(p, s) => Own(p, s)' BY PduFields DEF Own
  <1>2. \A l \in 1 .. Len(list) : \A j \in 1 .. Len(list[l].queue) : list[l].queue[j] \in PduSet
    <2> TAKE l \in 1 .. Len(list)
    <2>1. list[l].queue \in Seq(PduSet) BY DescFields, ElementOfSeq
    <2> QED BY <2>1, ElementOfSeq
  <1>3. Owned(s, pdus, last, list)' BY <1>1, <1>2 DEF Line, Owned
  <1>4. ~conf.lossy => Complete(s, pdus, last, list)' BY DEF Line, Complete
  <1> QED BY <1>3, <1>4 DEF Line

-----------------------------------------------------------------------------
(* Stale descriptors are removed. *)

LEMMA LookAtKeeps ==
    ASSUME NEW s, NEW list, NEW owed, NEW first, Ring(list, s), Owed(list) = owed,
           Rearranged(list, first), NEW k \in Nat \ {0}
    PROVE  LET r == LookAt(k, list)
           IN Ring(r, s) /\ Owed(r) = owed /\ Rearranged(r, first)
  <1> DEFINE r == LookAt(k, list)
  <1>0. list \in Seq(DescSet) BY DEF Ring
  <1>1. CASE k > Len(list)
    <2>1. r = list BY <1>1 DEF LookAt
    <2> QED BY <2>1
  <1>2. CASE ~(k > Len(list))
    <2>1. list # <<>> BY <1>0, <1>2
    <2>2. /\ Ring(Tail(list), s) /\ Owed(Tail(list)) = Owed(list) - Head(list).size
          /\ Head(list) \in DescSet /\ Valid(Head(list))
      BY <2>1, RingTail
    <2>3. Owed(list) \in Nat BY <1>0, OwedNat
    <2>4. Ring(r, s) /\ Owed(r) = owed /\ Rearranged(r, list)
      <3>1. CASE Head(list).queue = <<>>
        <4>1. r = Tail(list) BY <1>2, <3>1 DEF LookAt
        <4>2. Head(list).size = 0 BY <2>2, <3>1, EmptyQueue
        <4> QED BY <1>0, <2>1, <2>2, <2>3, <3>1, <4>1, <4>2, Rotated
      <3>2. CASE Head(list).queue # <<>>
        <4>1. r = Append(Tail(list), Head(list)) BY <1>2, <3>2 DEF LookAt
        <4> QED BY <1>0, <2>1, <4>1, Rotated, RingRotate
      <3> QED BY <3>1, <3>2
    <2> HIDE DEF r
    <2>5. Rearranged(r, first) BY <2>4, SMTT(30) DEF Rearranged
    <2> QED BY <2>4, <2>5 DEF r
  <1> QED BY <1>1, <1>2

LEMMA SweepKeeps ==
    ASSUME NEW s, NEW list, Ring(list, s)
    PROVE  LET r == Swept(list)
           IN Ring(r, s) /\ Owed(r) = Owed(list) /\ Rearranged(r, list)
  <1> DEFINE pass[k \in Nat] == IF k = 0 THEN list ELSE LookAt(k, pass[k - 1])
             n == Len(list)
             Good(x) == Ring(x, s) /\ Owed(x) = Owed(list) /\ Rearranged(x, list)
             Bad == {k \in Nat : ~Good(pass[k])}
  <1>1. \A p, x : \E f : f = [k \in Nat |-> IF k = 0 THEN x ELSE LookAt(k, f[k - 1])]
    BY Passes!Runs
  <1>2. pass = [k \in Nat |-> IF k = 0 THEN list ELSE LookAt(k, pass[k - 1])]
    BY <1>1
  <1>3. Sweep(list) = pass[n] BY DEF Sweep
  <1> HIDE DEF pass
  <1>4. pass[0] = list /\ \A k \in Nat \ {0} : pass[k] = LookAt(k, pass[k - 1]) BY <1>2
  <1>5. Good(list) BY DEF Rearranged
  <1>6. ASSUME NEW k \in Bad PROVE k - 1 \in Bad
    <2>1. k \in Nat \ {0} /\ k - 1 \in Nat BY <1>4, <1>5
    <2>2. pass[k] = LookAt(k, pass[k - 1]) BY <1>4, <2>1
    <2>3. ASSUME NEW x, Good(x) PROVE Good(LookAt(k, x)) BY <2>1, <2>3, LookAtKeeps
    <2> HIDE DEF Good
    <2> QED BY <2>1, <2>2, <2>3
  <1>7. Bad \in SUBSET Nat OBVIOUS
  <1>8. n \in Nat BY DEF Ring
  <1>9. Good(pass[n])
    <2>1. n \notin Bad
      <3> HIDE DEF Bad
      <3> QED BY <1>6, <1>7, Passes!Descent
    <2> QED BY <1>8, <2>1
  <1> DEFINE a == Sweep(list)
             r == recompute(a)
  <1>10. Ring(a, s) /\ Owed(a) = Owed(list) /\ Rearranged(a, list) BY <1>3, <1>9
  <1> HIDE DEF a
  <1>11. a \in Seq(DescSet) BY <1>10 DEF Ring
  <1>12. /\ r \in Seq(DescSet) /\ Len(r) = Len(a)
         /\ \A i \in 1 .. Len(a) : /\ r[i].flow = a[i].flow /\ r[i].deficit = a[i].deficit
                                   /\ r[i].size = a[i].size /\ r[i].queue = a[i].queue
    BY <1>11, Recomputed
  <1> HIDE DEF r
  <1>13. Ring(r, s) /\ Owed(r) = Owed(a) BY <1>10, <1>11, <1>12, RingSimilar
  <1>14. Rearranged(r, list) BY <1>10, <1>12, SMTT(30) DEF Rearranged
  <1>15. Swept(list) = r \/ Swept(list) = a BY DEF Swept, r, a
  <1> QED BY <1>10, <1>13, <1>14, <1>15

-----------------------------------------------------------------------------
(* A burst is received. *)

\* The rest of the way of service s after k PDUs of the burst, with g delivered.
Remaining(g, k, s, last, list) ==
    /\ g \in Nat /\ got <= g /\ g <= marked
    /\ s # Serv[conf.watched] => g = got
    /\ \A j \in k + 1 .. Len(air) : air[j].mark > 0 => g < air[j].mark
    /\ last # <<>> /\ last.mark > 0 => g < last.mark
    /\ \A l \in 1 .. Len(list) : \A j \in 1 .. Len(list[l].queue) :
          list[l].queue[j].mark > 0 => g < list[l].queue[j].mark
    /\ ~conf.lossy /\ s = Serv[conf.watched] => \A m \in g + 1 .. marked :
          \/ \E j \in k + 1 .. Len(air) : air[j].mark = m
          \/ last # <<>> /\ last.mark = m
          \/ \E l \in 1 .. Len(list) : \E j \in 1 .. Len(list[l].queue) : list[l].queue[j].mark = m

LEMMA OneTaken ==
    ASSUME NEW s, NEW last \in PduSet \cup {<<>>}, NEW list \in Seq(DescSet),
           air \in Seq(PduSet), Line(s, air, last, list), marked \in Nat, got \in Nat,
           NEW k \in 1 .. Len(air), NEW r, Remaining(r.got, k - 1, s, last, list)
    PROVE  Remaining(Taken(r, air[k]).got, k, s, last, list)
  <1> DEFINE p == air[k]
             g == r.got
             n == Len(air)
  <1>1. p \in PduSet /\ Own(p, s) /\ n \in Nat /\ k \in Nat \ {0} BY ElementOfSeq DEF Line, Owned
  <1>2. (k - 1) + 1 = k /\ k \in k .. n /\ \A j \in k .. n : j = k \/ j \in k + 1 .. n BY <1>1
  <1>3. \A j \in k + 1 .. n : j \in k .. n /\ j \in 1 .. n /\ k < j BY <1>1
  <1> HIDE DEF p, g, n
  <1>4. Remaining(g, k - 1, s, last, list) BY DEF g
  <1>5. CASE Delivers(p) /\ p.mark > 0
    <2>1. Taken(r, p).got = p.mark BY <1>5 DEF Taken
    <2>2. /\ p.mark \in Nat /\ got <= p.mark /\ p.mark <= marked /\ s = Serv[conf.watched]
      BY <1>1, <1>5, PduFields DEF Own
    <2>3. \A j \in k + 1 .. n : air[j].mark > 0 => p.mark < air[j].mark
      <3> TAKE j \in k + 1 .. n
      <3>1. Before(air[k], air[j]) BY <1>3 DEF Line, Sorted, n
      <3> QED BY <1>5, <3>1 DEF Before, p
    <2>4. last # <<>> /\ last.mark > 0 => p.mark < last.mark
      BY <1>5 DEF Line, Sorted, Before, p
    <2>5. \A l \in 1 .. Len(list) : \A j \in 1 .. Len(list[l].queue) :
             list[l].queue[j].mark > 0 => p.mark < list[l].queue[j].mark
      BY <1>5 DEF Line, Sorted, Before, p
    <2>6. g \in Nat /\ g < p.mark BY <1>1, <1>2, <1>4, <1>5 DEF Remaining, n, p
    <2>7. ASSUME ~conf.lossy, NEW m \in p.mark + 1 .. marked
          PROVE  \/ \E j \in k + 1 .. n : air[j].mark = m
                 \/ last # <<>> /\ last.mark = m
                 \/ \E l \in 1 .. Len(list) : \E j \in 1 .. Len(list[l].queue) :
                       list[l].queue[j].mark = m
      <3>1. m \in g + 1 .. marked /\ m # p.mark BY <2>2, <2>6
      <3>2. \/ \E j \in k .. n : air[j].mark = m
            \/ last # <<>> /\ last.mark = m
            \/ \E l \in 1 .. Len(list) : \E j \in 1 .. Len(list[l].queue) :
                  list[l].queue[j].mark = m
        BY <1>2, <1>4, <2>2, <2>7, <3>1 DEF Remaining, n
      <3> QED BY <1>2, <3>1, <3>2 DEF p
    <2> QED BY <2>1, <2>2, <2>3, <2>4, <2>5, <2>7 DEF Remaining, n, p
  <1>6. CASE ~(Delivers(p) /\ p.mark > 0)
    <2>1. Taken(r, p).got = g BY <1>6 DEF Taken, g
    <2>2. \A j \in k + 1 .. n : air[j].mark > 0 => g < air[j].mark
      BY <1>2, <1>3, <1>4 DEF Remaining, n
    <2>3. g \in Nat BY <1>4 DEF Remaining
    <2>4. ASSUME ~conf.lossy, s = Serv[conf.watched], NEW m \in g + 1 .. marked
          PROVE  \/ \E j \in k + 1 .. n : air[j].mark = m
                 \/ last # <<>> /\ last.mark = m
                 \/ \E l \in 1 .. Len(list) : \E j \in 1 .. Len(list[l].queue) :
                       list[l].queue[j].mark = m
      <3>1. \/ \E j \in k .. n : air[j].mark = m
            \/ last # <<>> /\ last.mark = m
            \/ \E l \in 1 .. Len(list) : \E j \in 1 .. Len(list[l].queue) :
                  list[l].queue[j].mark = m
        BY <1>2, <1>4, <2>4 DEF Remaining, n
      <3>2. ASSUME p.mark = m PROVE last # <<>> /\ last.mark = m
        <4>1. ~Delivers(p) BY <1>6, <2>3, <3>2
        <4> QED BY <3>2, <4>1 DEF Line, Pieces, p
      <3> QED BY <1>2, <3>1, <3>2 DEF p
    <2> QED BY <1>4, <2>1, <2>2, <2>4 DEF Remaining, n, p
  <1> QED BY <1>5, <1>6 DEF p

\* What the receiver has after the burst of service s, when others may have
\* pieces under the numbers of X.
LEMMA AllTaken ==
    ASSUME NEW s, NEW last \in PduSet \cup {<<>>}, NEW list \in Seq(DescSet),
           air \in Seq(PduSet), air # <<>>, Line(s, air, last, list),
           marked \in Nat, got \in Nat, got <= marked,
           NEW after, after[0] = [reas |-> reas, got |-> got, upto |-> upto[s]],
           \A k \in Nat \ {0} : after[k] = Taken(after[k - 1], air[k]),
           NEW X, ~conf.lossy => reas \subseteq X \cup Opens(air, last)
    PROVE  LET end == after[Len(air)]
           IN /\ Remaining(end.got, Len(air), s, last, list)
              /\ ~conf.lossy => /\ end.reas \subseteq X \cup Opens(<<>>, last)
                                /\ last # <<>> /\ last.state = "CONT_FRAG" => end.upto = last.off
  <1> DEFINE n == Len(air)
             Mine(k) == IF k = 0 THEN Opens(air, last)
                        ELSE IF k = n THEN Opens(<<>>, last) ELSE {}
             Good(k) == /\ Remaining(after[k].got, k, s, last, list)
                        /\ ~conf.lossy => after[k].reas \subseteq X \cup Mine(k)
             Bad == {k \in 0 .. n : ~Good(k)}
  <1>1. n \in Nat \ {0} /\ 1 \in 1 .. n /\ n \in 1 .. n /\ \A k \in 1 .. n : air[k] \in PduSet
    BY ElementOfSeq
  <1> HIDE DEF n
  <1>2. Good(0)
    <2>1. \A j \in 0 + 1 .. n : j \in 1 .. n OBVIOUS
    <2>2. \A j \in 1 .. n : j \in 0 + 1 .. n OBVIOUS
    <2>3. ASSUME ~conf.lossy, s = Serv[conf.watched], NEW m \in got + 1 .. marked
          PROVE  \/ \E j \in 0 + 1 .. n : air[j].mark = m
                 \/ last # <<>> /\ last.mark = m
                 \/ \E l \in 1 .. Len(list) : \E j \in 1 .. Len(list[l].queue) :
                       list[l].queue[j].mark = m
      <3>1. Present(m, air, last, list) BY <2>3 DEF Line, Complete
      <3> QED BY <2>2, <3>1 DEF Present, n
    <2>4. Remaining(got, 0, s, last, list)
      <3>1. \A j \in 0 + 1 .. n : air[j].mark > 0 => got < air[j].mark
        BY <2>1 DEF Line, Owned, Own, n
      <3>2. last # <<>> /\ last.mark > 0 => got < last.mark BY DEF Line, Owned, Own
      <3>3. \A l \in 1 .. Len(list) : \A j \in 1 .. Len(list[l].queue) :
               list[l].queue[j].mark > 0 => got < list[l].queue[j].mark
        BY DEF Line, Owned, Own
      <3> QED BY <2>3, <3>1, <3>2, <3>3 DEF Remaining, n
    <2>5. after[0].got = got /\ after[0].reas = reas OBVIOUS
    <2> QED BY <2>4, <2>5
  <1>3. ASSUME NEW k \in 1 .. n, Good(k - 1) PROVE Good(k)
    <2> DEFINE p == air[k]
    <2>1. k \in Nat \ {0} /\ k - 1 \in Nat /\ p \in PduSet BY <1>1
    <2>2. after[k] = Taken(after[k - 1], p) BY <2>1
    <2>3. Remaining(after[k].got, k, s, last, list) BY <1>3, <2>2, OneTaken DEF n
    <2>4. ASSUME ~conf.lossy PROVE after[k].reas \subseteq X \cup Mine(k)
      <3>1. after[k - 1].reas \subseteq X \cup Mine(k - 1) BY <1>3, <2>4
      <3>2. after[k].reas = Kept(after[k - 1].reas, p) BY <2>2 DEF Taken
      <3>3. /\ p.state \in {"CONT_FRAG", "LAST_FRAG"} => k = 1
            /\ ~Delivers(p) => k = n /\ last # <<>> /\ last.state = "CONT_FRAG" /\ last.fsn = p.fsn
            /\ p.state \in State
        BY <1>1, <2>1, PduFields DEF Line, Pieces, n
      <3>4. Mine(k - 1) = IF k = 1 /\ p.state \in {"CONT_FRAG", "LAST_FRAG"} THEN {p.fsn} ELSE {}
        <4>1. CASE k = 1 BY <4>1 DEF Opens
        <4>2. CASE k # 1
          <5>1. k - 1 # 0 /\ k - 1 # n BY <1>1, <4>2
          <5> QED BY <4>2, <5>1
        <4> QED BY <4>1, <4>2
      <3>5. ~Delivers(p) => Mine(k) = {p.fsn} BY <2>1, <3>3 DEF Opens
      <3> HIDE DEF Mine, p
      <3>6. CASE p.state = "NO_FRAG" BY <3>1, <3>2, <3>4, <3>6 DEF Kept
      <3>7. CASE p.state = "LAST_FRAG" BY <3>1, <3>2, <3>3, <3>4, <3>7 DEF Kept
      <3>8. CASE p.state \in {"FIRST_FRAG", "CONT_FRAG"}
        <4>1. Mine(k) = {p.fsn} /\ Mine(k - 1) \subseteq {p.fsn} BY <3>4, <3>5, <3>8 DEF Delivers
        <4>2. after[k].reas = after[k - 1].reas \cup {p.fsn} BY <3>2, <3>8 DEF Kept
        <4> QED BY <3>1, <4>1, <4>2
      <3> QED BY <3>3, <3>6, <3>7, <3>8 DEF State
    <2> QED BY <2>3, <2>4
  <1>4. Good(n)
    <2> HIDE DEF Good
    <2>1. ASSUME NEW k \in Bad PROVE k - 1 \in Bad
      <3>1. k # 0 BY <1>2, <2>1
      <3>2. k \in 1 .. n /\ k - 1 \in 0 .. n BY <1>1, <3>1
      <3> QED BY <1>3, <3>2
    <2>2. Bad \in SUBSET Nat OBVIOUS
    <2>3. n \notin Bad
      <3> HIDE DEF Bad
      <3> QED BY <2>1, <2>2, Sums!Descent
    <2> QED BY <1>1, <2>3
  <1>5. ASSUME ~conf.lossy, last # <<>>, last.state = "CONT_FRAG" PROVE after[n].upto = last.off
    <2> DEFINE p == air[n]
    <2>1. n \in Nat \ {0} /\ p \in PduSet BY <1>1
    <2>2. after[n].upto = IF Delivers(p) THEN 0 ELSE Follows(after[n - 1].upto, p)
      <3>1. after[n] = Taken(after[n - 1], p) BY <2>1
      <3> QED BY <3>1 DEF Taken
    <2>3. ~Delivers(p) /\ last.off = p.off + p.data /\ (p.state = "FIRST_FRAG" => p.off = 0)
          /\ (p.state # "FIRST_FRAG" => p.state = "CONT_FRAG" /\ n = 1) /\ p.data \in Nat
      BY <1>1, <1>5, PduFields DEF Line, Pieces, State, Delivers, n
    <2>4. CASE p.state = "FIRST_FRAG"
      BY <2>2, <2>3, <2>4 DEF Follows
    <2>5. CASE p.state # "FIRST_FRAG"
      <3>1. n = 1 /\ p.state = "CONT_FRAG" BY <2>3, <2>5
      <3>2. after[n - 1].upto = upto[s] BY <3>1
      <3>3. upto[s] = p.off BY <1>5, <3>1 DEF Line, Complete
      <3> QED BY <2>2, <2>3, <2>5, <3>2, <3>3 DEF Follows
    <2> QED BY <2>4, <2>5
  <1>6. Mine(n) = Opens(<<>>, last) BY <1>1
  <1> QED BY <1>4, <1>5, <1>6 DEF n

-----------------------------------------------------------------------------
(* The invariant holds at the start and is kept by every step. *)

LEMMA ServiceOf ==
    \A p \in PduSet : Serv[p.flow] \in Service
  BY PduFields DEF Service

\* All PDUs on the channel are of one service.
LEMMA OnAir ==
    ASSUME air \in Seq(PduSet)
    PROVE  /\ air = <<>> => \A s : airOf(s) = <<>>
           /\ air # <<>> =>
                 LET s == Serv[Head(air).flow]
                 IN s \in Service /\ airOf(s) = air /\ \A t : t # s => airOf(t) = <<>>
           /\ \A s : airOf(s) \in Seq(PduSet)
  <1>1. air # <<>> => Head(air) \in PduSet BY HeadTailProperties
  <1>2. <<>> \in Seq(PduSet) BY EmptySeq
  <1> QED BY <1>1, <1>2, ServiceOf DEF airOf

LEMMA InitDInv == Init => DInv
  <1> SUFFICES ASSUME Init PROVE DInv OBVIOUS
  <1>1. /\ conf \in Configs /\ marked = 0 /\ got = 0 /\ bufSize = 0 /\ fsn = 0 /\ air = <<>>
        /\ limit = 0 /\ reas = {} /\ whole
        /\ rr = [s \in Service |-> <<>>] /\ linkSize = [s \in Service |-> 0]
        /\ unfinished = [s \in Service |-> FALSE] /\ lastPdu = [s \in Service |-> <<>>]
        /\ upto = [s \in Service |-> 0]
    BY DEF Init
  <1>2. <<>> \in Seq(PduSet) /\ <<>> \in Seq(DescSet) /\ Len(<<>>) = 0
    <2>1. <<>> \in Seq(PduSet) /\ Len(<<>>) = 0 BY EmptySeq
    <2>2. <<>> \in Seq(DescSet) BY EmptySeq
    <2> QED BY <2>1, <2>2
  <1>3. Bytes(<<>>) = 0 /\ Owed(<<>>) = 0 BY <1>2, BytesNat, OwedNat
  <1>4. conf.maxBufSize \in Nat BY <1>1, ConfFields
  <1>5. Typed
    <2>1. linkSize \in [Service -> Nat] /\ unfinished \in [Service -> BOOLEAN]
          /\ lastPdu \in [Service -> PduSet \cup {<<>>}] /\ DOMAIN rr = Service
          /\ DOMAIN upto = Service
      BY <1>1
    <2>2. 0 \in 0 .. FsnSize - 1 BY DataPlaneAssumption
    <2> QED BY <1>1, <1>2, <2>1, <2>2 DEF Typed
  <1>6. \A s : Ring(<<>>, s) BY <1>2 DEF Ring
  <1>7. Counted
    <2>1. Sum(linkSize) = 0 BY <1>1, SumZero
    <2>2. \A s \in Service : rr[s] = <<>> /\ linkSize[s] = 0 BY <1>1
    <2> QED BY <1>1, <1>3, <1>4, <1>6, <2>1, <2>2 DEF Counted
  <1>8. Lines
    <2>1. \A s \in Service : rr[s] = <<>> /\ lastPdu[s] = <<>> /\ upto[s] = 0 BY <1>1
    <2>2. \A s : airOf(s) = <<>> BY <1>1 DEF airOf
    <2>3. \A s : Line(s, <<>>, <<>>, <<>>)
      BY <1>1, <1>2 DEF Line, Owned, Sorted, Pieces, Complete
    <2> QED BY <2>1, <2>2, <2>3 DEF Lines
  <1>9. Buffered BY <1>1 DEF Buffered
  <1>10. BurstFits BY <1>1, <1>3 DEF BurstFits
  <1> QED BY <1>5, <1>7, <1>8, <1>9, <1>10 DEF DInv

\* What the other services keep when the counts, the list and the pending PDU of one
\* change.
LEMMA CountedStep ==
    ASSUME Typed, Counted, NEW s \in Service, NEW list, Ring(list, s), conf' = conf,
           rr' = [rr EXCEPT ![s] = list],
           linkSize' = [linkSize EXCEPT ![s] = Owed(list)],
           bufSize' = bufSize - linkSize[s] + Owed(list),
           conf.sharing = "PER_LINK" => Owed(list) <= conf.maxBufSize,
           conf.sharing = "SHARED" => bufSize - linkSize[s] + Owed(list) <= conf.maxBufSize
    PROVE  /\ Counted' /\ linkSize' \in [Service -> Nat] /\ bufSize' \in Nat /\ DOMAIN rr' = Service
           /\ \A t \in Service : rr[t] \in Seq(DescSet) /\ rr'[t] \in Seq(DescSet)
  <1>1. list \in Seq(DescSet) /\ \A t \in Service : Ring(rr[t], t) /\ rr[t] \in Seq(DescSet)
    BY DEF Counted, Ring
  <1>2. Owed(list) \in Nat BY <1>1, OwedNat
  <1>3. linkSize \in [Service -> Nat] /\ DOMAIN rr = Service BY DEF Typed
  <1>4. /\ Sum(linkSize') = Sum(linkSize) - linkSize[s] + Owed(list)
        /\ Sum(linkSize) \in Nat /\ linkSize[s] <= Sum(linkSize) /\ linkSize[s] \in Nat
    BY <1>2, <1>3, SumExcept
  <1>5. bufSize = Sum(linkSize) BY DEF Counted
  <1>6. bufSize' = Sum(linkSize') /\ bufSize' \in Nat BY <1>2, <1>4, <1>5
  <1>7. rr'[s] = list /\ linkSize'[s] = Owed(list)
        /\ \A t \in Service : t # s => rr'[t] = rr[t] /\ linkSize'[t] = linkSize[t]
    BY <1>3
  <1>8. ASSUME NEW t \in Service
        PROVE  /\ Ring(rr[t], t)' /\ linkSize'[t] = Owed(rr'[t]) /\ rr'[t] \in Seq(DescSet)
               /\ conf'.sharing = "PER_LINK" => linkSize'[t] <= conf'.maxBufSize
    <2>1. \A x : Ring(x, t) => Ring(x, t)' BY DEF Ring, Valid
    <2>2. CASE t = s BY <1>1, <1>7, <2>1, <2>2
    <2>3. CASE t # s BY <1>1, <1>7, <2>1, <2>3 DEF Counted
    <2> QED BY <2>2, <2>3
  <1>9. Counted' BY <1>6, <1>8 DEF Counted
  <1> QED BY <1>1, <1>2, <1>3, <1>6, <1>8, <1>9

LEMMA ArriveDInv ==
    ASSUME DInv, NEW f \in conf.flows, NEW n \in Sizes[f], Arrive(f, n)
    PROVE  DInv'
  <1> DEFINE s == Serv[f]
  <1>1. PICK m \in {0} \cup {k \in {marked + 1} : f = conf.watched /\ k <= 2} :
           /\ ~Overflows(s, Pdu(f, n, m))
           /\ rr' = [rr EXCEPT ![s] = Enqueue(s, Pdu(f, n, m))]
           /\ linkSize' = [linkSize EXCEPT ![s] = @ + size(Pdu(f, n, m))]
           /\ bufSize' = bufSize + size(Pdu(f, n, m))
           /\ marked' = IF m > 0 THEN m ELSE marked
    BY DEF Arrive
  <1> DEFINE p == Pdu(f, n, m)
             r == Enqueue(s, p)
  <1>2. /\ conf' = conf /\ unfinished' = unfinished /\ lastPdu' = lastPdu /\ fsn' = fsn
        /\ air' = air /\ limit' = limit /\ reas' = reas /\ got' = got /\ upto' = upto
        /\ whole' = whole
    BY DEF Arrive, receiver
  <1>3. Typed /\ Counted /\ Lines /\ Buffered /\ BurstFits BY DEF DInv
  <1>4. conf \in Configs /\ marked \in Nat /\ got \in Nat /\ got <= marked BY <1>3 DEF Typed
  <1>5. f \in Flow /\ n \in Nat
    <2>1. f \in Flow BY <1>4, ConfFields
    <2> QED BY <2>1, DataPlaneAssumption
  <1>6. s \in Service BY <1>5 DEF Service
  <1>7. m \in Nat /\ (m = 0 \/ (m = marked + 1 /\ f = conf.watched)) BY <1>1, <1>4
  <1>8. /\ p \in PduSet /\ p.flow = f /\ p.mark = m /\ Fresh(p, p.flow)
    <2>1. 0 \in 0 .. FsnSize - 1 BY DataPlaneAssumption
    <2> QED BY <1>5, <1>7, <2>1 DEF Pdu, PduSet, State, Fresh
  <1>9. /\ ~Overflows(s, p) /\ rr' = [rr EXCEPT ![s] = r]
        /\ linkSize' = [linkSize EXCEPT ![s] = @ + size(p)] /\ bufSize' = bufSize + size(p)
        /\ \/ p.mark = 0 /\ marked' = marked
           \/ p.mark = marked + 1 /\ p.flow = conf.watched /\ marked' = p.mark
    BY <1>1, <1>4, <1>7, <1>8
  <1> HIDE DEF p, s
  <1>10. Ring(rr[s], s) /\ linkSize[s] = Owed(rr[s]) /\ rr[s] \in Seq(DescSet)
    BY <1>3, <1>6 DEF Counted, Ring
  <1>11. size(p) \in Nat /\ linkSize[s] \in Nat /\ bufSize \in Nat /\ flowSize(s, p.flow) \in Nat
    <2>1. size(p) \in Nat /\ linkSize[s] \in Nat /\ bufSize \in Nat
      BY <1>3, <1>6, <1>8, SizeNat DEF Typed
    <2>2. ASSUME known(rr[s], p.flow) # {}
          PROVE  rr[s][CHOOSE i \in known(rr[s], p.flow) : TRUE].size \in Nat
      <3>1. (CHOOSE i \in known(rr[s], p.flow) : TRUE) \in known(rr[s], p.flow) BY <2>2
      <3>2. (CHOOSE i \in known(rr[s], p.flow) : TRUE) \in 1 .. Len(rr[s])
        BY <1>10, <3>1 DEF known
      <3> QED BY <1>10, <3>2, DescFields, ElementOfSeq
    <2> QED BY <2>1, <2>2 DEF flowSize
  <1>12. /\ conf.sharing = "SHARED" => bufSize + size(p) <= conf.maxBufSize
         /\ conf.sharing = "PER_LINK" => linkSize[s] + size(p) <= conf.maxBufSize
         /\ conf.sharing = "PER_FLOW" => flowSize(s, p.flow) + size(p) <= conf.maxBufSize
    <2>1. conf.maxBufSize \in Nat BY <1>4, ConfFields
    <2> QED BY <1>9, <1>11, <2>1 DEF Overflows
  <1>13. Ring(r, s) /\ Owed(r) = Owed(rr[s]) + size(p) /\ Extended(r, rr[s], p)
    <2>1. CASE \E i \in 1 .. Len(rr[s]) : rr[s][i].flow = p.flow
      BY <1>4, <1>6, <1>8, <1>10, <1>12, <2>1, EnqueuedKnown
    <2>2. CASE ~\E i \in 1 .. Len(rr[s]) : rr[s][i].flow = p.flow
      <3>1. Serv[p.flow] = s BY <1>8 DEF s
      <3> QED BY <1>4, <1>6, <1>8, <1>10, <1>12, <2>2, <3>1, EnqueuedNew
    <2> QED BY <2>1, <2>2
  <1> HIDE DEF r
  <1>14. /\ Counted' /\ linkSize' \in [Service -> Nat] /\ bufSize' \in Nat /\ DOMAIN rr' = Service
         /\ \A t \in Service : rr[t] \in Seq(DescSet) /\ rr'[t] \in Seq(DescSet)
    <2>1. linkSize' = [linkSize EXCEPT ![s] = Owed(r)] BY <1>9, <1>10, <1>13
    <2>2. bufSize' = bufSize - linkSize[s] + Owed(r)
          /\ bufSize - linkSize[s] + Owed(r) = bufSize + size(p)
          /\ Owed(r) = linkSize[s] + size(p)
      BY <1>9, <1>10, <1>11, <1>13
    <2> QED BY <1>2, <1>3, <1>6, <1>9, <1>12, <1>13, <2>1, <2>2, CountedStep
  <1>15. Typed'
    <2>1. marked' \in Nat /\ got' <= marked' BY <1>2, <1>4, <1>9
    <2> QED BY <1>2, <1>3, <1>14, <2>1 DEF Typed
  <1>16. ASSUME NEW t \in Service PROVE Line(t, airOf(t), lastPdu[t], rr[t])'
    <2>1. /\ airOf(t) \in Seq(PduSet) /\ lastPdu[t] \in PduSet \cup {<<>>}
          /\ Line(t, airOf(t), lastPdu[t], rr[t]) /\ rr[t] \in Seq(DescSet)
          /\ rr'[t] \in Seq(DescSet)
      BY <1>3, <1>14, OnAir DEF Typed, Lines
    <2>2. airOf(t)' = airOf(t) /\ lastPdu'[t] = lastPdu[t] BY <1>2 DEF airOf
    <2>3. PICK pdus, last, list, q :
             pdus = airOf(t) /\ last = lastPdu[t] /\ list = rr[t] /\ q = rr'[t]
      OBVIOUS
    <2>4. /\ pdus \in Seq(PduSet) /\ last \in PduSet \cup {<<>>} /\ list \in Seq(DescSet)
          /\ q \in Seq(DescSet) /\ Line(t, pdus, last, list)
      BY <2>1, <2>3
    <2>5. CASE t = s
      <3>1. q = r BY <1>3, <1>6, <1>9, <2>3, <2>5 DEF Typed
      <3>2. Serv[p.flow] = t BY <1>8, <2>5 DEF s
      <3>3. Extended(q, list, p) BY <1>13, <2>3, <2>5, <3>1
      <3>4. Line(t, pdus, last, q)'
        BY <1>2, <1>4, <1>8, <1>9, <2>4, <3>2, <3>3, LineExtended
      <3> QED BY <2>2, <2>3, <3>4
    <2>6. CASE t # s
      <3>1. q = list BY <1>3, <1>9, <2>3, <2>6 DEF Typed
      <3>2. marked' = marked \/ (marked' = marked + 1 /\ t # Serv[conf.watched])
        BY <1>8, <1>9, <2>6 DEF s
      <3>3. (\A i \in 1 .. Len(pdus) : pdus[i] \in PduSet) /\ (last # <<>> => last \in PduSet)
        BY <2>4, ElementOfSeq
      <3>4. Line(t, pdus, last, list)' BY <1>2, <1>4, <2>4, <3>2, <3>3, LineOther
      <3> QED BY <2>2, <2>3, <3>1, <3>4
    <2> QED BY <2>5, <2>6
  <1>17. Buffered'
    <2>1. \A t : airOf(t)' = airOf(t) BY <1>2 DEF airOf
    <2> QED BY <1>2, <1>3, <2>1 DEF Buffered
  <1>18. BurstFits' BY <1>2, <1>3 DEF BurstFits
  <1> QED BY <1>14, <1>15, <1>16, <1>17, <1>18 DEF DInv, Lines

LEMMA TransmitDInv ==
    ASSUME DInv, NEW s \in Service, NEW bytes \in Grants, Transmit(s, bytes)
    PROVE  DInv'
  <1>1. Typed /\ Counted /\ Lines /\ Buffered /\ BurstFits BY DEF DInv
  <1>2. bytes \in Nat /\ air = <<>> /\ Proceeds(Opened(s, bytes))
    BY DataPlaneAssumption DEF Transmit
  <1>3. PICK b : b = Filled(s, bytes) OBVIOUS
  <1>4. /\ rr' = [rr EXCEPT ![s] = b.rr]
        /\ linkSize' = [linkSize EXCEPT ![s] = @ - b.sent]
        /\ bufSize' = bufSize - b.sent
        /\ unfinished' = [unfinished EXCEPT ![s] = b.unfinished]
        /\ lastPdu' = [lastPdu EXCEPT ![s] = b.last]
        /\ fsn' = b.fsn /\ air' = b.pdus /\ limit' = IF b.pdus = <<>> THEN 0 ELSE bytes
        /\ conf' = conf /\ marked' = marked /\ reas' = reas /\ got' = got /\ upto' = upto
        /\ whole' = whole
    BY <1>3 DEF Transmit, Filled, receiver
  <1>5. /\ conf \in Configs /\ Ring(rr[s], s) /\ lastPdu[s] \in PduSet \cup {<<>>}
        /\ fsn \in 0 .. FsnSize - 1 /\ unfinished[s] \in BOOLEAN
        /\ linkSize[s] = Owed(rr[s]) /\ linkSize[s] \in Nat /\ bufSize \in Nat
    BY <1>1 DEF Typed, Counted
  <1>6. \A t : airOf(t) = <<>> BY <1>2 DEF airOf
  <1>7. \A t \in Service : Line(t, <<>>, lastPdu[t], rr[t]) BY <1>1, <1>6 DEF Lines
  <1>8. ~conf.lossy => reas \subseteq OtherOpen(s) \cup Opens(<<>>, lastPdu[s])
    <2>1. ASSUME ~conf.lossy, NEW x \in reas
          PROVE  x \in OtherOpen(s) \cup Opens(<<>>, lastPdu[s])
      <3>1. PICK t \in Service : x \in Opens(<<>>, lastPdu[t])
        BY <1>1, <1>6, <2>1 DEF Buffered
      <3> QED BY <3>1 DEF OtherOpen
    <2> QED BY <2>1
  <1>9. Burst(b, s, bytes, Owed(rr[s]))
    BY <1>2, <1>3, <1>5, <1>7, <1>8, FilledKeeps
  <1>10. /\ b \in BurstSet /\ b.room + Bytes(b.pdus) = bytes /\ Ring(b.rr, s)
         /\ b.sent + Owed(b.rr) = Owed(rr[s]) /\ Line(s, b.pdus, b.last, b.rr)
         /\ ~conf.lossy => reas \subseteq OtherOpen(s) \cup Opens(b.pdus, b.last)
    BY <1>9 DEF Burst
  <1>11. /\ b.pdus \in Seq(PduSet) /\ b.room \in Nat /\ b.last \in PduSet \cup {<<>>}
         /\ b.fsn \in 0 .. FsnSize - 1 /\ b.rr \in Seq(DescSet) /\ b.unfinished \in BOOLEAN
         /\ b.sent \in Nat
    BY <1>10, BurstFields
  <1>12. Owed(b.rr) \in Nat /\ Bytes(b.pdus) \in Nat BY <1>11, OwedNat, BytesNat
  <1>13. /\ Counted' /\ linkSize' \in [Service -> Nat] /\ bufSize' \in Nat /\ DOMAIN rr' = Service
         /\ \A t \in Service : rr[t] \in Seq(DescSet) /\ rr'[t] \in Seq(DescSet)
    <2>1. linkSize[s] - b.sent = Owed(b.rr) /\ Owed(b.rr) <= linkSize[s]
          /\ bufSize - b.sent = bufSize - linkSize[s] + Owed(b.rr)
          /\ bufSize - linkSize[s] + Owed(b.rr) <= bufSize
          /\ bufSize - linkSize[s] + Owed(b.rr) \in Int
      BY <1>5, <1>10, <1>11, <1>12, SMTT(30)
    <2>2. linkSize' = [linkSize EXCEPT ![s] = Owed(b.rr)] BY <1>4, <2>1
    <2>3. bufSize' = bufSize - linkSize[s] + Owed(b.rr) BY <1>4, <2>1
    <2>4. conf.maxBufSize \in Nat BY <1>5, ConfFields
    <2>5. conf.sharing = "PER_LINK" => Owed(b.rr) <= conf.maxBufSize
      <3>1. conf.sharing = "PER_LINK" => linkSize[s] <= conf.maxBufSize BY <1>1 DEF Counted
      <3> QED BY <1>5, <1>12, <2>1, <2>4, <3>1
    <2>6. conf.sharing = "SHARED" => bufSize - linkSize[s] + Owed(b.rr) <= conf.maxBufSize
      <3>1. conf.sharing = "SHARED" => bufSize <= conf.maxBufSize BY <1>1 DEF Counted
      <3> QED BY <1>5, <2>1, <2>4, <3>1
    <2> QED BY <1>1, <1>4, <1>10, <2>2, <2>3, <2>5, <2>6, CountedStep
  <1>14. Typed'
    <2>1. unfinished' \in [Service -> BOOLEAN] /\ lastPdu' \in [Service -> PduSet \cup {<<>>}]
      BY <1>1, <1>4, <1>11 DEF Typed
    <2>2. limit' \in Nat BY <1>2, <1>4
    <2>3. /\ conf' \in Configs /\ marked' \in Nat /\ got' \in Nat /\ got' <= marked'
          /\ DOMAIN upto' = Service /\ fsn' \in 0 .. FsnSize - 1 /\ air' \in Seq(PduSet)
      BY <1>1, <1>4, <1>11 DEF Typed
    <2> QED BY <1>13, <2>1, <2>2, <2>3 DEF Typed
  <1>15. /\ rr'[s] = b.rr /\ lastPdu'[s] = b.last
         /\ \A t \in Service : t # s => rr'[t] = rr[t] /\ lastPdu'[t] = lastPdu[t]
    BY <1>1, <1>4 DEF Typed
  <1>16. airOf(s)' = b.pdus /\ \A t : t # s => airOf(t)' = <<>>
    <2>1. CASE b.pdus = <<>> BY <1>4, <2>1 DEF airOf
    <2>2. CASE b.pdus # <<>>
      <3>1. Serv[Head(b.pdus).flow] = s
        <4>1. Head(b.pdus) = b.pdus[1] /\ 1 \in 1 .. Len(b.pdus) BY <1>11, <2>2
        <4> QED BY <1>10, <4>1 DEF Line, Owned, Own
      <3> QED BY <1>4, <2>2, <3>1 DEF airOf
    <2> QED BY <2>1, <2>2
  <1>17. ASSUME NEW t \in Service PROVE Line(t, airOf(t), lastPdu[t], rr[t])'
    <2>1. CASE t = s
      <3>1. PICK pdus, last, list : pdus = b.pdus /\ last = b.last /\ list = b.rr OBVIOUS
      <3>2. Line(t, pdus, last, list) BY <1>10, <2>1, <3>1
      <3>3. Line(t, pdus, last, list)' BY <1>4, <3>2, LineStays
      <3> QED BY <1>15, <1>16, <2>1, <3>1, <3>3
    <2>2. CASE t # s
      <3>1. PICK last, list : last = lastPdu[t] /\ list = rr[t] OBVIOUS
      <3>2. Line(t, <<>>, last, list) BY <1>7, <3>1
      <3>3. Line(t, <<>>, last, list)' BY <1>4, <3>2, LineStays
      <3> QED BY <1>15, <1>16, <2>2, <3>1, <3>3
    <2> QED BY <2>1, <2>2
  <1>18. Buffered'
    <2>1. ASSUME ~conf.lossy, NEW x \in reas
          PROVE  \E t \in Service : x \in Opens(airOf(t)', lastPdu'[t])
      <3>1. CASE x \in OtherOpen(s)
        <4>1. PICK t \in Service \ {s} : x \in Opens(<<>>, lastPdu[t]) BY <3>1 DEF OtherOpen
        <4> QED BY <1>15, <1>16, <4>1
      <3>2. CASE x \in Opens(b.pdus, b.last) BY <1>15, <1>16, <3>2
      <3> QED BY <1>10, <2>1, <3>1, <3>2
    <2>2. ~conf.lossy => reas' \subseteq UNION {Opens(airOf(t)', lastPdu'[t]) : t \in Service}
      BY <1>4, <2>1
    <2> QED BY <1>1, <1>4, <2>2 DEF Buffered
  <1>19. BurstFits'
    <2>1. CASE b.pdus = <<>>
      <3>1. Bytes(b.pdus) = 0 BY <1>11, <2>1, BytesNat
      <3> QED BY <1>4, <2>1, <3>1 DEF BurstFits
    <2>2. CASE b.pdus # <<>>
      <3>1. Bytes(b.pdus) <= bytes BY <1>2, <1>10, <1>11, <1>12
      <3> QED BY <1>4, <2>2, <3>1 DEF BurstFits
    <2> QED BY <2>1, <2>2
  <1> QED BY <1>13, <1>14, <1>17, <1>18, <1>19 DEF DInv, Lines

LEMMA RemoveStaleDInv ==
    ASSUME DInv, RemoveStale
    PROVE  DInv'
  <1>1. Typed /\ Counted /\ Lines /\ Buffered /\ BurstFits BY DEF DInv
  <1>2. /\ rr' = [s \in Service |-> Swept(rr[s])]
        /\ conf' = conf /\ marked' = marked /\ linkSize' = linkSize /\ bufSize' = bufSize
        /\ unfinished' = unfinished /\ lastPdu' = lastPdu /\ fsn' = fsn /\ air' = air
        /\ limit' = limit /\ reas' = reas /\ got' = got /\ upto' = upto /\ whole' = whole
    BY DEF RemoveStale, receiver
  <1>3. ASSUME NEW s \in Service
        PROVE  /\ Ring(rr'[s], s) /\ Owed(rr'[s]) = Owed(rr[s]) /\ Rearranged(rr'[s], rr[s])
               /\ rr[s] \in Seq(DescSet) /\ rr'[s] \in Seq(DescSet)
    <2>1. Ring(rr[s], s) BY <1>1 DEF Counted
    <2>2. rr'[s] = Swept(rr[s]) BY <1>2
    <2>3. Ring(rr'[s], s) /\ Owed(rr'[s]) = Owed(rr[s]) /\ Rearranged(rr'[s], rr[s])
      BY <2>1, <2>2, SweepKeeps
    <2> QED BY <2>1, <2>3 DEF Ring
  <1>4. Counted'
    <2>1. \A x, s : Ring(x, s) => Ring(x, s)' BY <1>2 DEF Ring, Valid
    <2>2. ASSUME NEW s \in Service
          PROVE  /\ Ring(rr[s], s)' /\ linkSize'[s] = Owed(rr'[s])
                 /\ conf'.sharing = "PER_LINK" => linkSize'[s] <= conf'.maxBufSize
      BY <1>1, <1>2, <1>3, <2>1 DEF Counted
    <2> QED BY <1>1, <1>2, <2>2 DEF Counted
  <1>5. Typed'
    <2>1. DOMAIN rr' = Service BY <1>2
    <2> QED BY <1>1, <1>2, <2>1 DEF Typed
  <1>6. \A s : airOf(s)' = airOf(s) BY <1>2 DEF airOf
  <1>7. ASSUME NEW s \in Service PROVE Line(s, airOf(s), lastPdu[s], rr[s])'
    <2>1. PICK pdus, last, list, r :
             pdus = airOf(s) /\ last = lastPdu[s] /\ list = rr[s] /\ r = rr'[s]
      OBVIOUS
    <2>2. Line(s, pdus, last, list) BY <1>1, <2>1 DEF Lines
    <2>3. Line(s, pdus, last, r) BY <1>3, <2>1, <2>2, LineRearranged
    <2>4. Line(s, pdus, last, r)' BY <1>2, <2>3, LineStays
    <2> QED BY <1>2, <1>6, <2>1, <2>4
  <1>8. Buffered' BY <1>1, <1>2, <1>6 DEF Buffered
  <1>9. BurstFits' BY <1>1, <1>2 DEF BurstFits
  <1> QED BY <1>4, <1>5, <1>7, <1>8, <1>9 DEF DInv, Lines

\* The channel is free again: what is left of the way of a service, when g has
\* been delivered.
LEMMA LineFreed ==
    ASSUME NEW s, NEW last \in PduSet \cup {<<>>}, NEW list \in Seq(DescSet), NEW n,
           NEW pdus, Line(s, pdus, last, list), Remaining(got', n, s, last, list),
           \A j : j \notin n + 1 .. Len(air), conf' = conf, marked' = marked,
           ~conf.lossy => (last # <<>> /\ last.state = "CONT_FRAG" => upto'[s] = last.off)
    PROVE  Line(s, <<>>, last, list)'
  <1>0. Len(<<>>) = 0 OBVIOUS
  <1>1. Owned(s, <<>>, last, list)'
    <2>1. last # <<>> => Own(last, s)' BY DEF Line, Owned, Own, Remaining
    <2>2. \A k \in 1 .. Len(list) : \A j \in 1 .. Len(list[k].queue) : Own(list[k].queue[j], s)'
      BY DEF Line, Owned, Own, Remaining
    <2> HIDE DEF Own
    <2> QED BY <1>0, <2>1, <2>2 DEF Owned
  <1>2. Sorted(<<>>, last, list) BY <1>0 DEF Line, Sorted
  <1>3. Pieces(<<>>, last) BY <1>0 DEF Line, Pieces
  <1>4. ~conf.lossy => Complete(s, <<>>, last, list)'
    <2>1. ASSUME ~conf.lossy, s = Serv[conf.watched], NEW m \in got' + 1 .. marked
          PROVE  Present(m, <<>>, last, list)
      BY <2>1 DEF Remaining, Present
    <2> QED BY <2>1 DEF Complete
  <1> QED BY <1>1, <1>2, <1>3, <1>4 DEF Line

\* A service that has no PDU on the channel, when another one does.
LEMMA LineWaits ==
    ASSUME NEW s, NEW t, NEW last, NEW list, Line(t, <<>>, last, list), t # s,
           got' = got \/ s = Serv[conf.watched],
           conf' = conf, marked' = marked, upto'[t] = upto[t], got \in Nat, got' \in Nat
    PROVE  Line(t, <<>>, last, list)'
  <1>1. CASE got' = got BY <1>1, LineStays
  <1>2. CASE s = Serv[conf.watched]
    <2>1. \A p : Own(p, t) => Own(p, t)' BY <1>2 DEF Own
    <2>2. Owned(t, <<>>, last, list)' BY <2>1 DEF Line, Owned
    <2>3. ~conf.lossy => Complete(t, <<>>, last, list)' BY <1>2 DEF Line, Complete
    <2> QED BY <2>2, <2>3 DEF Line
  <1> QED BY <1>1, <1>2

\* The loop over the PDUs of the burst.
LEMMA ReceiveSteps ==
    ASSUME Receive
    PROVE  \E after :
              LET s   == Serv[Head(air).flow]
                  end == after[Len(air)]
              IN /\ after[0] = [reas |-> reas, got |-> got, upto |-> upto[s]]
                 /\ \A k \in Nat \ {0} : after[k] = Taken(after[k - 1], air[k])
                 /\ reas' = end.reas /\ got' = end.got /\ upto' = [upto EXCEPT ![s] = end.upto]
  <1> DEFINE s == Serv[Head(air).flow]
             x == [reas |-> reas, got |-> got, upto |-> upto[s]]
             after[k \in Nat] == IF k = 0 THEN [reas |-> reas, got |-> got, upto |-> upto[s]]
                                 ELSE Taken(after[k - 1], air[k])
  <1>1. \A p, y : \E f : f = [k \in Nat |-> IF k = 0 THEN y ELSE Taken(f[k - 1], p[k])]
    BY Receipts!Runs
  <1>2. after = [k \in Nat |-> IF k = 0 THEN x ELSE Taken(after[k - 1], air[k])]
    BY <1>1
  <1>3. /\ reas' = after[Len(air)].reas /\ got' = after[Len(air)].got
        /\ upto' = [upto EXCEPT ![s] = after[Len(air)].upto]
    BY DEF Receive
  <1> HIDE DEF after
  <1>4. after[0] = x /\ \A k \in Nat \ {0} : after[k] = Taken(after[k - 1], air[k]) BY <1>2
  <1> QED BY <1>3, <1>4

LEMMA ReceiveDInv ==
    ASSUME DInv, Receive
    PROVE  DInv'
  <1>0. PICK s : s = Serv[Head(air).flow] OBVIOUS
  <1> DEFINE n == Len(air)
  <1>1. Typed /\ Counted /\ Lines /\ Buffered /\ BurstFits BY DEF DInv
  <1>2. /\ air # <<>> /\ air' = <<>> /\ limit' = 0 /\ conf' = conf /\ marked' = marked
        /\ rr' = rr /\ linkSize' = linkSize /\ bufSize' = bufSize /\ unfinished' = unfinished
        /\ lastPdu' = lastPdu /\ fsn' = fsn
        /\ whole' = (whole /\ (Head(air).state = "LAST_FRAG" => Head(air).off = upto[s]))
    BY <1>0 DEF Receive, sender
  <1>3. PICK after :
           /\ after[0] = [reas |-> reas, got |-> got, upto |-> upto[s]]
           /\ \A k \in Nat \ {0} : after[k] = Taken(after[k - 1], air[k])
           /\ reas' = after[n].reas /\ got' = after[n].got
           /\ upto' = [upto EXCEPT ![s] = after[n].upto]
    BY <1>0, ReceiveSteps
  <1>4. /\ s \in Service /\ airOf(s) = air /\ \A t : t # s => airOf(t) = <<>>
        /\ air \in Seq(PduSet)
    BY <1>0, <1>1, <1>2, OnAir DEF Typed
  <1>5. Head(air) = air[1] /\ n \in Nat BY <1>2, <1>4
  <1> HIDE DEF n
  <1>6. /\ marked \in Nat /\ got \in Nat /\ got <= marked /\ DOMAIN upto = Service
        /\ \A t \in Service : /\ lastPdu[t] \in PduSet \cup {<<>>} /\ rr[t] \in Seq(DescSet)
                              /\ Line(t, airOf(t), lastPdu[t], rr[t])
    BY <1>1 DEF Typed, Counted, Ring, Lines
  <1>7. PICK last, list : last = lastPdu[s] /\ list = rr[s] OBVIOUS
  <1>8. last \in PduSet \cup {<<>>} /\ list \in Seq(DescSet) /\ Line(s, air, last, list)
    BY <1>4, <1>6, <1>7
  <1>9. ~conf.lossy => reas \subseteq OtherOpen(s) \cup Opens(air, last)
    <2>1. ASSUME ~conf.lossy, NEW x \in reas PROVE x \in OtherOpen(s) \cup Opens(air, last)
      <3>1. PICK t \in Service : x \in Opens(airOf(t), lastPdu[t])
        BY <1>1, <2>1 DEF Buffered
      <3> QED BY <1>4, <1>7, <3>1 DEF OtherOpen
    <2> QED BY <2>1
  <1>10. /\ Remaining(after[n].got, n, s, last, list)
         /\ ~conf.lossy => /\ after[n].reas \subseteq OtherOpen(s) \cup Opens(<<>>, last)
                           /\ last # <<>> /\ last.state = "CONT_FRAG" => after[n].upto = last.off
    BY <1>2, <1>3, <1>4, <1>6, <1>8, <1>9, AllTaken DEF n
  <1>11. /\ Remaining(got', n, s, last, list) /\ got' \in Nat /\ got' <= marked
         /\ got' = got \/ s = Serv[conf.watched]
    BY <1>3, <1>10 DEF Remaining
  <1>12. upto'[s] = after[n].upto /\ \A t \in Service : t # s => upto'[t] = upto[t]
    BY <1>3, <1>4, <1>6
  <1>13. \A t : airOf(t)' = <<>> BY <1>2 DEF airOf
  <1>14. ASSUME NEW t \in Service PROVE Line(t, airOf(t), lastPdu[t], rr[t])'
    <2>1. CASE t = s
      <3>1. \A j : j \notin n + 1 .. Len(air) BY <1>5 DEF n
      <3>2. ~conf.lossy => (last # <<>> /\ last.state = "CONT_FRAG" => upto'[s] = last.off)
        BY <1>10, <1>12
      <3>3. Line(s, <<>>, last, list)' BY <1>2, <1>8, <1>11, <3>1, <3>2, LineFreed
      <3> QED BY <1>2, <1>7, <1>13, <2>1, <3>3
    <2>2. CASE t # s
      <3>1. PICK p, l : p = lastPdu[t] /\ l = rr[t] OBVIOUS
      <3>2. Line(t, <<>>, p, l) BY <1>4, <1>6, <2>2, <3>1
      <3>3. upto'[t] = upto[t] /\ got \in Nat /\ (got' = got \/ s = Serv[conf.watched])
        BY <1>6, <1>11, <1>12, <2>2
      <3>4. Line(t, <<>>, p, l)'
        <4>1. conf' = conf /\ marked' = marked /\ got' \in Nat BY <1>2, <1>11
        <4> QED BY <2>2, <3>2, <3>3, <4>1, LineWaits
      <3> QED BY <1>2, <1>13, <3>1, <3>4
    <2> QED BY <2>1, <2>2
  <1>15. Typed'
    <2>1. DOMAIN upto' = Service BY <1>3, <1>6
    <2>2. <<>> \in Seq(PduSet) BY EmptySeq
    <2> QED BY <1>1, <1>2, <1>11, <2>1, <2>2 DEF Typed
  <1>16. Counted'
    <2>1. \A x, t : Ring(x, t) => Ring(x, t)' BY <1>2 DEF Ring, Valid
    <2>2. \A t \in Service : Ring(rr[t], t)' BY <1>1, <1>2, <2>1 DEF Counted
    <2> QED BY <1>1, <1>2, <2>2 DEF Counted
  <1>17. Buffered'
    <2>1. ASSUME ~conf.lossy, NEW x \in reas'
          PROVE  \E t \in Service : x \in Opens(<<>>, lastPdu[t])
      <3>1. x \in OtherOpen(s) \cup Opens(<<>>, lastPdu[s]) BY <1>3, <1>7, <1>10, <2>1
      <3> QED BY <1>4, <3>1 DEF OtherOpen
    <2>2. ~conf.lossy => whole'
      <3>1. ~conf.lossy /\ air[1].state = "LAST_FRAG" => air[1].off = upto[s]
        BY <1>2, <1>8 DEF Line, Complete
      <3>2. ~conf.lossy => whole BY <1>1 DEF Buffered
      <3> QED BY <1>2, <1>5, <3>1, <3>2
    <2>3. ~conf.lossy => reas' \subseteq UNION {Opens(airOf(t)', lastPdu'[t]) : t \in Service}
      BY <1>2, <1>13, <2>1
    <2> QED BY <1>2, <2>2, <2>3 DEF Buffered
  <1>18. BurstFits'
    <2>1. Bytes(<<>>) = 0
      <3>1. <<>> \in Seq(PduSet) /\ Len(<<>>) = 0 BY EmptySeq
      <3> QED BY <3>1, BytesNat
    <2> QED BY <1>2, <2>1 DEF BurstFits
  <1> QED BY <1>14, <1>15, <1>16, <1>17, <1>18 DEF DInv, Lines

LEMMA LoseDInv ==
    ASSUME DInv, Lose
    PROVE  DInv'
  <1> DEFINE s == Serv[Head(air).flow]
  <1>1. Typed /\ Counted /\ Lines /\ Buffered /\ BurstFits BY DEF DInv
  <1>2. /\ air # <<>> /\ air' = <<>> /\ limit' = 0 /\ conf' = conf /\ marked' = marked
        /\ rr' = rr /\ linkSize' = linkSize /\ bufSize' = bufSize /\ unfinished' = unfinished
        /\ lastPdu' = lastPdu /\ fsn' = fsn /\ conf.lossy /\ reas' = reas /\ got' = got
        /\ whole' = whole /\ upto' = [upto EXCEPT ![s] = 0]
    BY DEF Lose, sender
  <1>3. s \in Service /\ airOf(s) = air /\ \A t : t # s => airOf(t) = <<>>
    BY <1>1, <1>2, OnAir DEF Typed
  <1>4. DOMAIN upto = Service BY <1>1 DEF Typed
  <1> HIDE DEF s
  <1>5. \A t \in Service : t # s => upto'[t] = upto[t] BY <1>2, <1>4
  <1>6. \A t : airOf(t)' = <<>> BY <1>2 DEF airOf
  <1>7. ASSUME NEW t \in Service PROVE Line(t, airOf(t), lastPdu[t], rr[t])'
    <2>1. PICK pdus, last, list : pdus = airOf(t) /\ last = lastPdu[t] /\ list = rr[t] OBVIOUS
    <2>2. Line(t, pdus, last, list) BY <1>1, <2>1 DEF Lines
    <2>3. \A p : Own(p, t) => Own(p, t)' BY <1>2 DEF Own
    <2>4. Len(<<>>) = 0 OBVIOUS
    <2>5. Owned(t, <<>>, last, list)' BY <2>2, <2>3, <2>4 DEF Line, Owned
    <2>6. Sorted(<<>>, last, list) BY <2>2, <2>4 DEF Line, Sorted
    <2>7. Pieces(<<>>, last) BY <2>2, <2>4 DEF Line, Pieces
    <2>8. Line(t, <<>>, last, list)' BY <1>2, <2>5, <2>6, <2>7 DEF Line
    <2> QED BY <1>2, <1>6, <2>1, <2>8
  <1>8. Typed'
    <2>1. DOMAIN upto' = Service BY <1>2, <1>4
    <2>2. <<>> \in Seq(PduSet) BY EmptySeq
    <2> QED BY <1>1, <1>2, <2>1, <2>2 DEF Typed
  <1>9. Counted'
    <2>1. \A x, t : Ring(x, t) => Ring(x, t)' BY <1>2 DEF Ring, Valid
    <2>2. \A t \in Service : Ring(rr[t], t)' BY <1>1, <1>2, <2>1 DEF Counted
    <2> QED BY <1>1, <1>2, <2>2 DEF Counted
  <1>10. Buffered' BY <1>2 DEF Buffered
  <1>11. BurstFits'
    <2>1. Bytes(<<>>) = 0
      <3>1. <<>> \in Seq(PduSet) /\ Len(<<>>) = 0 BY EmptySeq
      <3> QED BY <3>1, BytesNat
    <2> QED BY <1>2, <2>1 DEF BurstFits
  <1> QED BY <1>7, <1>8, <1>9, <1>10, <1>11 DEF DInv, Lines

LEMMA UnchangedDInv ==
    ASSUME DInv, UNCHANGED vars
    PROVE  DInv'
  <1>1. Typed /\ Counted /\ Lines /\ Buffered /\ BurstFits BY DEF DInv
  <1>2. /\ rr' = rr /\ conf' = conf /\ marked' = marked /\ linkSize' = linkSize
        /\ bufSize' = bufSize /\ unfinished' = unfinished /\ lastPdu' = lastPdu /\ fsn' = fsn
        /\ air' = air /\ limit' = limit /\ reas' = reas /\ got' = got /\ upto' = upto
        /\ whole' = whole
    BY DEF vars, sender, receiver
  <1>3. \A s : airOf(s)' = airOf(s) BY <1>2 DEF airOf
  <1>4. ASSUME NEW s \in Service PROVE Line(s, airOf(s), lastPdu[s], rr[s])'
    <2>1. PICK pdus, last, list : pdus = airOf(s) /\ last = lastPdu[s] /\ list = rr[s] OBVIOUS
    <2>2. Line(s, pdus, last, list) BY <1>1, <2>1 DEF Lines
    <2>3. Line(s, pdus, last, list)' BY <1>2, <2>2, LineStays
    <2> QED BY <1>2, <1>3, <2>1, <2>3
  <1>5. Typed' BY <1>1, <1>2 DEF Typed
  <1>6. Counted'
    <2>1. \A x, t : Ring(x, t) => Ring(x, t)' BY <1>2 DEF Ring, Valid
    <2>2. \A t \in Service : Ring(rr[t], t)' BY <1>1, <1>2, <2>1 DEF Counted
    <2> QED BY <1>1, <1>2, <2>2 DEF Counted
  <1>7. Buffered' BY <1>1, <1>2, <1>3 DEF Buffered
  <1>8. BurstFits' BY <1>1, <1>2 DEF BurstFits
  <1> QED BY <1>4, <1>5, <1>6, <1>7, <1>8 DEF DInv, Lines

LEMMA NextDInv == DInv /\ [Next]_vars => DInv'
  BY ArriveDInv, TransmitDInv, RemoveStaleDInv, ReceiveDInv, LoseDInv, UnchangedDInv DEF Next

-----------------------------------------------------------------------------
(* What is ahead of the receiver, one PDU after the other. *)

\* Three sequences, one after the other.
LEMMA Way ==
    ASSUME NEW a \in Seq(PduSet), NEW l \in Seq(PduSet), NEW q \in Seq(PduSet),
           NEW w, w = a \o l \o q
    PROVE  /\ DOMAIN w = 1 .. Len(a) + Len(l) + Len(q)
           /\ \A i \in 1 .. Len(a) : w[i] = a[i]
           /\ \A i \in 1 .. Len(l) : w[Len(a) + i] = l[i]
           /\ \A i \in 1 .. Len(q) : w[Len(a) + Len(l) + i] = q[i]
  <1> DEFINE u == a \o l
  <1>1. Len(a) \in Nat /\ Len(l) \in Nat /\ Len(q) \in Nat BY LenProperties
  <1>2. /\ u \in Seq(PduSet) /\ Len(u) = Len(a) + Len(l)
        /\ \A i \in 1 .. Len(a) + Len(l) : u[i] = IF i <= Len(a) THEN a[i] ELSE l[i - Len(a)]
    BY ConcatProperties
  <1>3. w = u \o q OBVIOUS
  <1> HIDE DEF u
  <1>4. /\ w \in Seq(PduSet) /\ Len(w) = Len(u) + Len(q)
        /\ \A i \in 1 .. Len(u) + Len(q) : w[i] = IF i <= Len(u) THEN u[i] ELSE q[i - Len(u)]
    <2>1. /\ u \o q \in Seq(PduSet) /\ Len(u \o q) = Len(u) + Len(q)
          /\ \A i \in 1 .. Len(u) + Len(q) :
                (u \o q)[i] = IF i <= Len(u) THEN u[i] ELSE q[i - Len(u)]
      <3>1. u \in Seq(PduSet) BY <1>2
      <3> QED BY ONLY <3>1, q \in Seq(PduSet), ConcatProperties
    <2> QED BY <1>3, <2>1
  <1>5. DOMAIN w = 1 .. Len(a) + Len(l) + Len(q) BY <1>1, <1>2, <1>4
  <1>6. \A i \in 1 .. Len(a) + Len(l) : w[i] = u[i]
    <2>1. \A i \in 1 .. Len(a) + Len(l) : i \in 1 .. Len(u) + Len(q) /\ i <= Len(u)
      BY <1>1, <1>2
    <2> QED BY <1>4, <2>1
  <1>7. ASSUME NEW i \in 1 .. Len(a) PROVE w[i] = a[i]
    <2>1. i \in 1 .. Len(a) + Len(l) /\ i <= Len(a) BY <1>1
    <2> QED BY <1>2, <1>6, <2>1
  <1>8. ASSUME NEW i \in 1 .. Len(l) PROVE w[Len(a) + i] = l[i]
    <2>1. PICK c : c = Len(a) + i OBVIOUS
    <2>2. c \in 1 .. Len(a) + Len(l) /\ ~(c <= Len(a)) /\ c - Len(a) = i BY <1>1, <2>1
    <2>3. w[c] = l[i] BY <1>2, <1>6, <2>2
    <2> QED BY <2>1, <2>3
  <1>9. ASSUME NEW i \in 1 .. Len(q) PROVE w[Len(a) + Len(l) + i] = q[i]
    <2>1. PICK c : c = Len(a) + Len(l) + i OBVIOUS
    <2>2. c \in 1 .. Len(u) + Len(q) /\ ~(c <= Len(u)) /\ c - Len(u) = i BY <1>1, <1>2, <2>1
    <2>3. w[c] = q[i] BY <1>4, <2>2
    <2> QED BY <2>1, <2>3
  <1> QED BY <1>5, <1>7, <1>8, <1>9

LEMMA WatchedWay ==
    ASSUME DInv
    PROVE  \E l, q \in Seq(PduSet) :
              LET s    == Serv[conf.watched]
                  last == lastPdu[s]
                  list == rr[s]
              IN /\ Ahead = air \o l \o q
                 /\ last = <<>> => Len(l) = 0
                 /\ last # <<>> => Len(l) = 1 /\ l[1] = last
                 /\ \/ Len(q) = 0
                    \/ \E k \in 1 .. Len(list) : q = list[k].queue
                 /\ \A k \in 1 .. Len(list) : list[k].flow = conf.watched => q = list[k].queue
                 /\ s \in Service /\ last \in PduSet \cup {<<>>} /\ air \in Seq(PduSet)
                 /\ Ring(list, s) /\ Line(s, airOf(s), last, list)
                 /\ \A i \in 1 .. Len(air) : air[i].mark > 0 => airOf(s) = air
  <1> DEFINE s    == Serv[conf.watched]
             list == rr[s]
             k    == known(list, conf.watched)
             l    == IF lastPdu[s] = <<>> THEN <<>> ELSE <<lastPdu[s]>>
             q    == IF k = {} THEN <<>> ELSE list[CHOOSE i \in k : TRUE].queue
  <1>1. Typed /\ Counted /\ Lines BY DEF DInv
  <1>2. conf.watched \in Flow BY <1>1, ConfFields DEF Typed
  <1>3. s \in Service BY <1>2 DEF Service
  <1>4. Ahead = air \o l \o q BY DEF Ahead
  <1>5. /\ Ring(list, s) /\ Line(s, airOf(s), lastPdu[s], list) /\ air \in Seq(PduSet)
        /\ lastPdu[s] \in PduSet \cup {<<>>} /\ list \in Seq(DescSet)
    BY <1>1, <1>3 DEF Typed, Counted, Lines, Ring
  <1> HIDE DEF list
  <1>6. /\ q \in Seq(PduSet)
        /\ \/ Len(q) = 0
           \/ \E i \in 1 .. Len(list) : q = list[i].queue
        /\ \A i \in 1 .. Len(list) : list[i].flow = conf.watched => q = list[i].queue
    <2>1. k = {i \in 1 .. Len(list) : list[i].flow = conf.watched} BY <1>5 DEF known
    <2> HIDE DEF k
    <2>2. CASE k = {}
      <3>1. q = <<>> /\ <<>> \in Seq(PduSet) /\ Len(<<>>) = 0 BY <2>2, EmptySeq
      <3>2. \A i \in 1 .. Len(list) : list[i].flow # conf.watched BY <2>1, <2>2
      <3> QED BY <3>1, <3>2
    <2>3. CASE k # {}
      <3>1. PICK c : c = CHOOSE i \in k : TRUE OBVIOUS
      <3>2. c \in k BY <2>3, <3>1
      <3>3. c \in 1 .. Len(list) /\ list[c].flow = conf.watched BY <2>1, <3>2
      <3>4. q = list[c].queue BY <2>3, <3>1
      <3>5. list[c] \in DescSet BY <1>5, <3>3, ElementOfSeq
      <3>6. \A i \in 1 .. Len(list) : list[i].flow = conf.watched => i = c
        BY <1>5, <3>3 DEF Ring
      <3> QED BY <3>3, <3>4, <3>5, <3>6, DescFields
    <2> QED BY <2>2, <2>3
  <1>7. ASSUME NEW i \in 1 .. Len(air), air[i].mark > 0 PROVE airOf(s) = air
    <2>1. air # <<>> BY <1>7
    <2>2. PICK t : t = Serv[Head(air).flow] OBVIOUS
    <2>3. t \in Service /\ airOf(t) = air BY <1>5, <2>1, <2>2, OnAir
    <2>4. Line(t, air, lastPdu[t], rr[t]) BY <1>1, <2>3 DEF Lines
    <2>5. Own(air[i], t) BY <2>4 DEF Line, Owned
    <2>6. t = s BY <1>7, <2>5 DEF Own
    <2> QED BY <2>3, <2>6
  <1>8. /\ l \in Seq(PduSet)
        /\ lastPdu[s] = <<>> => Len(l) = 0
        /\ lastPdu[s] # <<>> => Len(l) = 1 /\ l[1] = lastPdu[s]
    BY <1>5, EmptySeq
  <1> HIDE DEF s, q, l
  <1> QED BY <1>3, <1>4, <1>5, <1>6, <1>7, <1>8 DEF list, s

LEMMA OrderFollows == DInv => InOrder
  <1> SUFFICES ASSUME DInv PROVE InOrder OBVIOUS
  <1>1. PICK s, last, list :
           s = Serv[conf.watched] /\ last = lastPdu[s] /\ list = rr[s]
    OBVIOUS
  <1>2. PICK rest, q \in Seq(PduSet) :
           /\ Ahead = air \o rest \o q
           /\ last = <<>> => Len(rest) = 0
           /\ last # <<>> => Len(rest) = 1 /\ rest[1] = last
           /\ \/ Len(q) = 0
              \/ \E k \in 1 .. Len(list) : q = list[k].queue
           /\ last \in PduSet \cup {<<>>} /\ air \in Seq(PduSet)
           /\ Line(s, airOf(s), last, list)
           /\ \A i \in 1 .. Len(air) : air[i].mark > 0 => airOf(s) = air
    BY <1>1, WatchedWay
  <1>2a. last = <<>> => Len(rest) = 0 BY <1>2, Zenon
  <1>2b. last # <<>> => Len(rest) = 1 /\ rest[1] = last BY <1>2, Zenon
  <1>2c. Len(q) = 0 \/ \E k \in 1 .. Len(list) : q = list[k].queue BY <1>2, Zenon
  <1>2d. air \in Seq(PduSet) BY <1>2, Zenon
  <1> DEFINE e == Len(rest)
             n == Len(air)
             a == Ahead
  <1>3. /\ DOMAIN a = 1 .. n + e + Len(q)
        /\ \A i \in 1 .. n : a[i] = air[i]
        /\ last # <<>> => a[n + 1] = last
        /\ \A j \in 1 .. Len(q) : a[n + e + j] = q[j]
    <2>1. /\ DOMAIN a = 1 .. n + e + Len(q)
          /\ \A i \in 1 .. n : a[i] = air[i]
          /\ \A i \in 1 .. e : a[n + i] = rest[i]
          /\ \A j \in 1 .. Len(q) : a[n + e + j] = q[j]
      <3>1. PICK w : w = a OBVIOUS
      <3>2. w = air \o rest \o q BY <1>2, <3>1
      <3> HIDE DEF a
      <3> QED BY <1>2, <3>1, <3>2, Way
    <2> HIDE DEF a
    <2> QED BY <1>2a, <1>2b, <2>1
  <1>4. n \in Nat /\ Len(q) \in Nat /\ e \in {0, 1} /\ (e = 1 <=> last # <<>>)
    <2>1. n \in Nat /\ Len(q) \in Nat BY <1>2d, LenProperties
    <2>2. CASE last = <<>>
      <3>1. e = 0 BY <1>2a, <2>2
      <3> QED BY <2>1, <2>2, <3>1
    <2>3. CASE last # <<>>
      <3>1. e = 1 BY <1>2b, <2>3
      <3> QED BY <2>1, <2>3, <3>1
    <2> QED BY <2>2, <2>3
  <1>5. \A i \in 1 .. n : air[i] \in PduSet /\ air[i].mark \in Nat
    BY <1>2, PduFields, ElementOfSeq
  <1>6. /\ last # <<>> => last.mark \in Nat
        /\ \A j \in 1 .. Len(q) : q[j].mark \in Nat
    BY <1>2, PduFields, ElementOfSeq
  <1> HIDE DEF a, e, n
  <1>7. ASSUME NEW i \in 1 .. n, air[i].mark > 0
        PROVE  /\ got < air[i].mark
               /\ \A j \in 1 .. n : i < j /\ air[j].mark > 0 => air[i].mark <= air[j].mark
               /\ last # <<>> /\ last.mark > 0 => air[i].mark <= last.mark
               /\ \A j \in 1 .. Len(q) : q[j].mark > 0 => air[i].mark <= q[j].mark
    <2>1. Line(s, air, last, list) BY <1>2, <1>7 DEF n
    <2>2. got < air[i].mark BY <1>7, <2>1 DEF Line, Owned, Own, n
    <2>3. ASSUME NEW j \in 1 .. n, i < j, air[j].mark > 0 PROVE air[i].mark <= air[j].mark
      <3>1. Before(air[i], air[j]) BY <2>1, <2>3 DEF Line, Sorted, n
      <3> QED BY <1>5, <1>7, <2>3, <3>1 DEF Before
    <2>4. ASSUME last # <<>>, last.mark > 0 PROVE air[i].mark <= last.mark
      <3>1. CASE Delivers(air[i])
        <4>1. Before(air[i], last) BY <2>1, <2>4, <3>1 DEF Line, Sorted, n
        <4> QED BY <1>5, <1>6, <1>7, <2>4, <4>1 DEF Before
      <3>2. CASE ~Delivers(air[i])
        <4>1. last.mark = air[i].mark BY <2>1, <3>2 DEF Line, Pieces, n
        <4> QED BY <1>5, <4>1
      <3> QED BY <3>1, <3>2
    <2>5. ASSUME NEW j \in 1 .. Len(q), q[j].mark > 0 PROVE air[i].mark <= q[j].mark
      <3>1. PICK k \in 1 .. Len(list) : q = list[k].queue BY <1>2c
      <3>2. Before(air[i], q[j]) BY <2>1, <3>1 DEF Line, Sorted, n
      <3> QED BY <1>5, <1>6, <1>7, <2>5, <3>2 DEF Before
    <2> QED BY <2>2, <2>3, <2>4, <2>5
  <1>8. ASSUME last # <<>>, last.mark > 0
        PROVE  /\ got < last.mark
               /\ \A j \in 1 .. Len(q) : q[j].mark > 0 => last.mark <= q[j].mark
    <2>1. got < last.mark BY <1>2, <1>8 DEF Line, Owned, Own
    <2>2. ASSUME NEW j \in 1 .. Len(q), q[j].mark > 0 PROVE last.mark <= q[j].mark
      <3>1. PICK k \in 1 .. Len(list) : q = list[k].queue BY <1>2c
      <3>2. Before(last, q[j]) BY <1>2, <1>8, <3>1 DEF Line, Sorted
      <3> QED BY <1>6, <1>8, <2>2, <3>2 DEF Before
    <2> QED BY <2>1, <2>2
  <1>9. ASSUME NEW i \in 1 .. Len(q), q[i].mark > 0
        PROVE  /\ got < q[i].mark
               /\ \A j \in 1 .. Len(q) : i < j /\ q[j].mark > 0 => q[i].mark <= q[j].mark
    <2>1. PICK k \in 1 .. Len(list) : q = list[k].queue BY <1>2c
    <2>2. got < q[i].mark BY <1>2, <1>9, <2>1 DEF Line, Owned, Own
    <2>3. ASSUME NEW j \in 1 .. Len(q), i < j, q[j].mark > 0 PROVE q[i].mark <= q[j].mark
      <3>1. Before(q[i], q[j]) BY <1>2, <2>1, <2>3 DEF Line, Sorted
      <3> QED BY <1>6, <1>9, <2>3, <3>1 DEF Before
    <2> QED BY <2>2, <2>3
  <1>10. ASSUME NEW i \in DOMAIN a
         PROVE  \/ i \in 1 .. n /\ a[i] = air[i]
                \/ last # <<>> /\ i = n + 1 /\ e = 1 /\ a[i] = last
                \/ \E j \in 1 .. Len(q) : i = n + e + j /\ a[i] = q[j]
    <2>1. i \in 1 .. n + e + Len(q) BY <1>3
    <2>2. CASE i <= n
      <3>1. i \in 1 .. n BY <1>4, <2>1, <2>2
      <3> QED BY <1>3, <3>1
    <2>3. CASE i = n + 1 /\ e = 1 BY <1>3, <1>4, <2>3
    <2>4. CASE n + e < i
      <3>1. i - n - e \in 1 .. Len(q) /\ i = n + e + (i - n - e) BY <1>4, <2>1, <2>4
      <3> QED BY <1>3, <3>1
    <2> QED BY <1>4, <2>1, <2>2, <2>3, <2>4, SMTT(30)
  <1>11. ASSUME NEW i \in DOMAIN a, a[i].mark > 0
         PROVE  /\ a[i].mark > got
                /\ \A j \in DOMAIN a : i < j /\ a[j].mark > 0 => a[i].mark <= a[j].mark
    <2>1. CASE i \in 1 .. n /\ a[i] = air[i]
      <3>1. ASSUME NEW j \in DOMAIN a, i < j, a[j].mark > 0 PROVE a[i].mark <= a[j].mark
        <4>1. CASE j \in 1 .. n /\ a[j] = air[j] BY <1>7, <1>11, <2>1, <3>1, <4>1
        <4>2. CASE last # <<>> /\ a[j] = last BY <1>7, <1>11, <2>1, <3>1, <4>2
        <4>3. CASE \E l \in 1 .. Len(q) : a[j] = q[l] BY <1>7, <1>11, <2>1, <3>1, <4>3
        <4> QED BY <1>10, <4>1, <4>2, <4>3
      <3>2. got < air[i].mark BY <1>7, <1>11, <2>1
      <3> QED BY <2>1, <3>1, <3>2
    <2>2. CASE last # <<>> /\ i = n + 1 /\ e = 1 /\ a[i] = last
      <3>1. ASSUME NEW j \in DOMAIN a, i < j, a[j].mark > 0 PROVE a[i].mark <= a[j].mark
        <4>1. j \notin 1 .. n /\ j # n + 1 BY <1>4, <2>2, <3>1
        <4>2. PICK l \in 1 .. Len(q) : a[j] = q[l] BY <1>10, <4>1
        <4> QED BY <1>8, <1>11, <2>2, <3>1, <4>2
      <3>2. got < last.mark BY <1>8, <1>11, <2>2
      <3> QED BY <2>2, <3>1, <3>2
    <2>3. CASE \E l \in 1 .. Len(q) : i = n + e + l /\ a[i] = q[l]
      <3>1. PICK l \in 1 .. Len(q) : i = n + e + l /\ a[i] = q[l] BY <2>3
      <3>2. ASSUME NEW j \in DOMAIN a, i < j, a[j].mark > 0 PROVE a[i].mark <= a[j].mark
        <4>1. l \in Nat \ {0} /\ j \notin 1 .. n /\ ~(j = n + 1 /\ e = 1) BY <1>4, <3>1, <3>2
        <4>2. PICK c \in 1 .. Len(q) : j = n + e + c /\ a[j] = q[c] BY <1>10, <4>1
        <4>3. l < c BY <1>4, <3>1, <3>2, <4>2
        <4> QED BY <1>9, <1>11, <3>1, <3>2, <4>2, <4>3
      <3>3. got < q[l].mark BY <1>9, <1>11, <3>1
      <3> QED BY <3>1, <3>2, <3>3
    <2> QED BY <1>10, <2>1, <2>2, <2>3
  <1> QED BY <1>11 DEF InOrder, a

LEMMA NothingMissingFollows == DInv => NothingMissing
  <1> SUFFICES ASSUME DInv, ~conf.lossy, NEW m \in got + 1 .. marked
               PROVE  \E i \in DOMAIN Ahead : Ahead[i].mark = m
    BY DEF NothingMissing
  <1>1. PICK s, last, list :
           s = Serv[conf.watched] /\ last = lastPdu[s] /\ list = rr[s]
    OBVIOUS
  <1>2. PICK l, q \in Seq(PduSet) :
           /\ Ahead = air \o l \o q
           /\ last = <<>> => Len(l) = 0
           /\ last # <<>> => Len(l) = 1 /\ l[1] = last
           /\ \A k \in 1 .. Len(list) : list[k].flow = conf.watched => q = list[k].queue
           /\ air \in Seq(PduSet) /\ Ring(list, s) /\ Line(s, airOf(s), last, list)
    BY <1>1, WatchedWay
  <1>2a. last # <<>> => Len(l) = 1 /\ l[1] = last BY <1>2, Zenon
  <1>2b. \A k \in 1 .. Len(list) : list[k].flow = conf.watched => q = list[k].queue
    BY <1>2, Zenon
  <1>2c. air \in Seq(PduSet) /\ Ring(list, s) /\ Line(s, airOf(s), last, list) BY <1>2, Zenon
  <1> DEFINE a == Ahead
             n == Len(air)
             e == Len(l)
  <1>3. /\ DOMAIN a = 1 .. n + e + Len(q)
        /\ \A i \in 1 .. n : a[i] = air[i]
        /\ \A i \in 1 .. e : a[n + i] = l[i]
        /\ \A j \in 1 .. Len(q) : a[n + e + j] = q[j]
    <2>1. PICK w : w = a OBVIOUS
    <2>2. w = air \o l \o q BY <1>2, <2>1
    <2> HIDE DEF a
    <2> QED BY <1>2c, <2>1, <2>2, Way
  <1>4. n \in Nat /\ Len(q) \in Nat /\ e \in Nat BY <1>2c, LenProperties
  <1> HIDE DEF a, n, e
  <1>5. Present(m, airOf(s), last, list)
    <2>1. conf.watched \in Flow BY ConfFields DEF DInv, Typed
    <2> QED BY <1>1, <1>2c DEF Line, Complete
  <1>6. CASE \E i \in 1 .. Len(airOf(s)) : airOf(s)[i].mark = m
    <2>1. PICK i \in 1 .. Len(airOf(s)) : airOf(s)[i].mark = m BY <1>6
    <2>2. airOf(s) = air
      <3>1. Len(<<>>) = 0 OBVIOUS
      <3> QED BY <3>1 DEF airOf
    <2>3. i \in 1 .. n /\ air[i].mark = m BY <2>1, <2>2 DEF n
    <2>4. i \in 1 .. n + e + Len(q) BY <1>4, <2>3
    <2>5. a[i].mark = m BY <1>3, <2>3
    <2> QED BY <1>3, <2>4, <2>5 DEF a
  <1>7. CASE last # <<>> /\ last.mark = m
    <2>1. e = 1 /\ l[1] = last BY <1>2a, <1>7 DEF e
    <2>2. a[n + 1] = last BY <1>3, <2>1
    <2>3. n + 1 \in 1 .. n + e + Len(q) BY <1>4, <2>1
    <2> QED BY <1>3, <1>7, <2>2, <2>3 DEF a
  <1>8. CASE \E k \in 1 .. Len(list) : \E j \in 1 .. Len(list[k].queue) : list[k].queue[j].mark = m
    <2>1. PICK k \in 1 .. Len(list) : \E j \in 1 .. Len(list[k].queue) : list[k].queue[j].mark = m
      BY <1>8
    <2>2. PICK j \in 1 .. Len(list[k].queue) : list[k].queue[j].mark = m BY <2>1
    <2>3. m > 0 BY DEF DInv, Typed
    <2>4. list[k].queue[j].flow = conf.watched
      BY <1>2c, <2>2, <2>3 DEF Line, Owned, Own
    <2>5. list[k].queue[j].flow = list[k].flow BY <1>2c DEF Ring, Valid, Fresh
    <2>6. q = list[k].queue BY <1>2b, <2>4, <2>5
    <2>7. j \in 1 .. Len(q) /\ q[j].mark = m BY <2>2, <2>6
    <2>8. n + e + j \in 1 .. n + e + Len(q) BY <1>4, <2>7
    <2>9. a[n + e + j].mark = m BY <1>3, <2>7
    <2> QED BY <1>3, <2>8, <2>9 DEF a
  <1> QED BY <1>5, <1>6, <1>7, <1>8 DEF Present

LEMMA CountsFollow == DInv => BuffersAgree
  <1> SUFFICES ASSUME DInv PROVE BuffersAgree OBVIOUS
  <1>1. Counted BY DEF DInv
  <1>2. ASSUME NEW s \in Service
        PROVE  /\ \A i \in DOMAIN rr[s] : rr[s][i].size = Bytes(rr[s][i].queue)
               /\ linkSize[s] = Total([i \in DOMAIN rr[s] |-> rr[s][i].size])
               /\ \A i, j \in DOMAIN rr[s] : rr[s][i].flow = rr[s][j].flow => i = j
               /\ conf.sharing = "PER_LINK" => linkSize[s] <= conf.maxBufSize
               /\ conf.sharing = "PER_FLOW" =>
                     \A i \in DOMAIN rr[s] : rr[s][i].size <= conf.maxBufSize
    <2>1. Ring(rr[s], s) BY <1>1 DEF Counted
    <2>2. DOMAIN rr[s] = 1 .. Len(rr[s]) BY <2>1 DEF Ring
    <2>3. linkSize[s] = Total([i \in DOMAIN rr[s] |-> rr[s][i].size])
      BY <1>1 DEF Counted, Owed
    <2> QED BY <1>1, <2>1, <2>2, <2>3 DEF Counted, Ring, Valid
  <1>3. LET all == SetToSeq(Service) IN bufSize = Total([i \in DOMAIN all |-> linkSize[all[i]]])
    BY <1>1 DEF Counted, Sum
  <1> QED BY <1>1, <1>2, <1>3 DEF BuffersAgree, Counted

LEMMA DeficitFollows == DInv => DeficitCovered
  <1> SUFFICES ASSUME DInv, NEW s \in Service, NEW i \in DOMAIN rr[s]
               PROVE  rr[s][i].deficit <= Bytes(rr[s][i].queue)
    BY DEF DeficitCovered
  <1>1. Ring(rr[s], s) BY DEF DInv, Counted
  <1>2. i \in 1 .. Len(rr[s]) BY <1>1 DEF Ring
  <1> QED BY <1>1, <1>2 DEF Ring, Valid

LEMMA LeftOverFollows == DInv => NothingLeftOver
  <1> SUFFICES ASSUME DInv, ~conf.lossy, air = <<>>, NEW x \in reas
               PROVE  \E s \in Service : lastPdu[s] # <<>> /\ x = lastPdu[s].fsn
    BY DEF NothingLeftOver
  <1>1. PICK s \in Service : x \in Opens(airOf(s), lastPdu[s]) BY DEF DInv, Buffered
  <1>2. airOf(s) = <<>> BY DEF airOf
  <1> QED BY <1>1, <1>2 DEF Opens

-----------------------------------------------------------------------------
(* The theorems. *)

\* The invariant holds whatever the flows, sizes, grants and configurations.
THEOREM Invariant == Spec => []DInv
  BY InitDInv, NextDInv, PTL DEF Spec

\* A burst never holds more bytes than its grant, with all the headers that
\* newBurst and addPdu add (WimshFragmentationBuffer), however many rounds
\* schedule goes through to fill it.
THEOREM BurstsFit == Spec => []BurstFits
  <1>1. DInv => BurstFits BY DEF DInv
  <1> QED BY <1>1, Invariant, PTL

\* The sizes that addPdu and serve keep of a queue, a link and the node are those
\* of the PDUs queued, and stay below the maximum of the buffer.
THEOREM CountsAgree == Spec => []BuffersAgree
  BY CountsFollow, Invariant, PTL

\* serve never finds the queue empty when a deficit lets it take the head.
THEOREM DeficitsCovered == Spec => []DeficitCovered
  BY DeficitFollows, Invariant, PTL

\* recvBurst delivers the SDUs of a flow in the order recvSdu took them: nothing
\* overtakes a pending fragment, and no burst, pending PDU or queue holds an SDU
\* that was delivered before.
THEOREM OrderIsKept == Spec => []InOrder
  BY OrderFollows, Invariant, PTL

\* Without losses no accepted SDU disappears between addPdu of the scheduler, the
\* fragmentation buffer, the channel and the reassembly buffer.
THEOREM NothingIsMissing == Spec => []NothingMissing
  BY NothingMissingFollows, Invariant, PTL

\* Without losses a last fragment finds all that came before it received, though
\* the buffer does not look at what it joins (WimaxReassemblyBuffer::addPdu).
THEOREM SdusAreWhole == Spec => []DeliveredWhole
  <1>1. DInv => DeliveredWhole BY DEF DInv, Buffered, DeliveredWhole
  <1> QED BY <1>1, Invariant, PTL

\* Without losses the reassembly buffer is left with the pieces of pending SDUs
\* only, though services draw their numbers from one counter that wraps.
THEOREM NothingIsLeftOver == Spec => []NothingLeftOver
  BY LeftOverFollows, Invariant, PTL

=============================================================================
