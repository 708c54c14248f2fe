-------------------------- MODULE Monitors_proofs ---------------------------
(* Proofs about TrafficStats, for any number of profiles, resets and bytes,  *)
(* and about FlowInspector, for any number of flows, sessions and polls.     *)
EXTENDS TrafficStats, FlowInspector, FiniteSetTheorems, SequenceTheorems, WellFoundedInduction, TLAPS

-----------------------------------------------------------------------------
\* Sums over finite sets.
Pick(s) == CHOOSE x \in s : TRUE
Adds(g, S, it) == it = [s \in SUBSET S |-> IF s = {} THEN 0 ELSE g[Pick(s)] + it[s \ {Pick(s)}]]

LEMMA PickIsIn == ASSUME NEW s, s # {} PROVE Pick(s) \in s
  BY DEF Pick

LEMMA LeastNumber ==
    ASSUME NEW T \in SUBSET Nat, T # {}
    PROVE  \E x \in T : \A y \in T : ~(y < x)
<1>1. \E x \in T : \A y \in T : ~(<<y, x>> \in OpToRel(<, Nat))
  BY NatLessThanWellFounded, WFMin, Zenon
<1>2. ASSUME NEW x \in Nat, NEW y \in Nat, y < x PROVE <<y, x>> \in OpToRel(<, Nat)
  BY <1>2 DEF OpToRel
<1> QED
  BY <1>1, <1>2, Zenon

LEMMA LeastSubset ==
    ASSUME NEW S, IsFiniteSet(S)
    PROVE  \A T \in SUBSET SUBSET S : T # {} => \E x \in T : \A y \in T : ~(y \subseteq x /\ y # x)
<1> SUFFICES ASSUME NEW T \in SUBSET SUBSET S, T # {}
             PROVE  \E x \in T : \A y \in T : ~(y \subseteq x /\ y # x)
  OBVIOUS
<1>1. IsWellFoundedOn(StrictSubsetOrdering(S), SUBSET S)
  BY FS_StrictSubsetOrderingWellFounded, FS_FiniteSubsetsOfFinite
<1>2. \E x \in T : \A y \in T : ~(<<y, x>> \in StrictSubsetOrdering(S))
  BY <1>1, WFMin, Zenon
<1> QED
  BY <1>2, Zenon DEF StrictSubsetOrdering

\* FoldSet's recursion has a solution: one for the sets of at most n elements,
\* for every n.
LEMMA AddsExists == ASSUME NEW S, IsFiniteSet(S), NEW g PROVE \E it : Adds(g, S, it)
<1> DEFINE D(n) == {s \in SUBSET S : Cardinality(s) <= n}
           Next1(it, s) == IF s = {} THEN 0 ELSE g[Pick(s)] + it[s \ {Pick(s)}]
           Upto(n, it) == it = [s \in D(n) |-> Next1(it, s)]
           N == {n \in Nat : ~\E it : Upto(n, it)}
<1>1. \A s \in SUBSET S : IsFiniteSet(s) /\ Cardinality(s) \in Nat /\ Cardinality(s) <= Cardinality(S)
  BY FS_Subset, FS_CardinalityType
<1>2. ASSUME NEW s \in SUBSET S, s # {}
      PROVE  s \ {Pick(s)} \in SUBSET S /\ Cardinality(s \ {Pick(s)}) = Cardinality(s) - 1
  BY <1>1, <1>2, PickIsIn, FS_RemoveElement
<1>3. \E it : Upto(0, it)
  <2>1. \A s \in D(0) : s = {}
    BY <1>1, FS_EmptySet
  <2>2. Upto(0, [s \in D(0) |-> 0])
    BY <2>1
  <2> QED
    BY <2>2, Zenon
<1>4. ASSUME NEW m \in Nat, NEW old, Upto(m, old) PROVE \E it : Upto(m + 1, it)
  <2> DEFINE new == [s \in D(m + 1) |-> Next1(old, s)]
  <2>1. ASSUME NEW s \in D(m + 1), s # {} PROVE new[s \ {Pick(s)}] = old[s \ {Pick(s)}]
    <3>1. s \ {Pick(s)} \in D(m) /\ s \ {Pick(s)} \in D(m + 1)
      BY <1>1, <1>2, <2>1
    <3>2. old[s \ {Pick(s)}] = Next1(old, s \ {Pick(s)})
      BY <1>4, <3>1, Zenon
    <3> QED
      BY <3>1, <3>2
  <2>2. ASSUME NEW s \in D(m + 1) PROVE Next1(new, s) = Next1(old, s)
    <3>1. CASE s = {}
      BY <3>1, Zenon
    <3>2. CASE s # {}
      <4> HIDE DEF new
      <4> QED
        BY <2>1, <3>2, Zenon
    <3> QED
      BY <3>1, <3>2, Zenon
  <2>3. new = [s \in D(m + 1) |-> Next1(new, s)]
    BY <2>2, Zenon
  <2> QED
    BY <2>3, Zenon
<1>8. \A n : n \in N <=> n \in Nat /\ ~\E it : Upto(n, it)
  BY Zenon
<1>5. N = {}
  <2> HIDE DEF N, Upto
  <2> SUFFICES ASSUME N # {} PROVE FALSE
    OBVIOUS
  <2>1. PICK m \in N : \A y \in N : ~(y < m)
    BY <1>8, LeastNumber, Zenon
  <2>5. m \in Nat /\ m # 0
    BY <1>3, <1>8, <2>1, Zenon
  <2>6. m - 1 \in Nat /\ m - 1 < m /\ (m - 1) + 1 = m
    BY <2>5, SMT
  <2>2. m - 1 \in Nat /\ m - 1 \notin N
    BY <2>1, <2>6, Zenon
  <2>3. PICK old : Upto(m - 1, old)
    BY <1>8, <2>2, Zenon
  <2>4. \E it : Upto((m - 1) + 1, it)
    BY <1>4, <2>2, <2>3, Zenon
  <2> QED
    BY <1>8, <2>1, <2>4, <2>6, Zenon
<1>6. Cardinality(S) \in Nat /\ D(Cardinality(S)) = SUBSET S
  BY <1>1, FS_CardinalityType
<1>7. PICK it : Upto(Cardinality(S), it)
  BY <1>5, <1>6, Zenon
<1> QED
  BY <1>6, <1>7, Zenon DEF Adds

\* A sum of natural numbers is one, and at least each of them.
LEMMA AddsBounds ==
    ASSUME NEW S, IsFiniteSet(S), NEW g, \A e \in S : g[e] \in Nat, NEW it, Adds(g, S, it)
    PROVE  it[S] \in Nat /\ \A e \in S : g[e] <= it[S]
<1> DEFINE Good(t) == it[t] \in Nat /\ \A e \in t : g[e] <= it[t]
           T == {t \in SUBSET S : ~Good(t)}
<1>1. T = {}
  <2> SUFFICES ASSUME T # {} PROVE FALSE
    OBVIOUS
  <2>8. T \in SUBSET SUBSET S
    BY Zenon
  <2>1. PICK t \in T : \A y \in T : ~(y \subseteq t /\ y # t)
    <3>1. \A X \in SUBSET SUBSET S : X # {} => \E x \in X : \A y \in X : ~(y \subseteq x /\ y # x)
      BY LeastSubset, SMT
    <3> HIDE DEF T
    <3> QED
      BY <2>8, <3>1, Zenon
  <2>2. it[t] = IF t = {} THEN 0 ELSE g[Pick(t)] + it[t \ {Pick(t)}]
    BY Zenon DEF Adds
  <2>3. t # {}
    BY <2>2
  <2>4. Pick(t) \in t /\ g[Pick(t)] \in Nat
    BY <2>3, PickIsIn
  <2>5. Good(t \ {Pick(t)})
    BY <2>1, <2>4
  <2>6. it[t] \in Nat /\ g[Pick(t)] <= it[t] /\ it[t \ {Pick(t)}] <= it[t] /\ it[t \ {Pick(t)}] \in Nat
    BY <2>2, <2>3, <2>4, <2>5
  <2>7. ASSUME NEW e \in t PROVE g[e] <= it[t]
    <3>1. g[e] \in Nat
      OBVIOUS
    <3> QED
      BY <2>4, <2>5, <2>6, <3>1
  <2> QED
    BY <2>6, <2>7
<1> QED
  BY <1>1

-----------------------------------------------------------------------------
\* TrafficStats.
Kernels == [up : BOOLEAN, count : [Directions -> Nat]]
Tracked == [base : Bytes, total : Bytes, rate : Bytes, available : BOOLEAN, points : Seq(Bytes), on : BOOLEAN]

StatsTypes ==
    /\ kernel \in [Names -> Kernels]
    /\ tracked \in [Names -> Tracked]
    /\ pending \in [Names -> Seq(Bytes)] /\ stored \in [Names -> Seq(Bytes)]
    /\ carried \in [Names -> [Directions -> 0..MaxTraffic]] /\ polled \in [Names -> [Directions -> Nat]]
    /\ restarted \in [Names -> BOOLEAN] /\ resets \in Nat

\* The last of these rows is at most what these counters say.
AtMost(rows, counts) == rows # <<>> => \A d \in Directions : LastRow(rows)[d] <= counts[d]

\* The kernel's counter starts at 0 or 1; an interface that is gone has none.
KernelInv(k, c, p, r) ==
    /\ \A d \in Directions : k.count[d] <= c[d] + 1 /\ p[d] <= c[d]
    /\ ~k.up => k.count = Zero /\ r

\* The total is the newest point's; with its base, an interface shows no more
\* than it carried, and since the last update no more than it carried since.
TotalInv(t, k, c, p) ==
    /\ Len(t.points) <= HistoryLength
    /\ t.total = IF t.points = <<>> THEN Zero ELSE LastRow(t.points)
    /\ ~t.on => t = Untracked
    /\ \A d \in Directions : t.total[d] <= c[d]
    /\ t.base # Zero => \A d \in Directions : /\ k.count[d] - t.base[d] <= c[d]
                                              /\ k.count[d] - t.base[d] <= t.total[d] + c[d] - p[d]

\* The rows that a total may go on from.
RowsInv(t, waiting, rows, c) ==
    /\ AtMost(rows, c) /\ AtMost(waiting, c)
    /\ t.on => waiting = <<>>

\* As long as the counter has not started again the total can go on: it, and
\* what waits for the profile, is at most the counter.
GoesOn(t, k, waiting) ==
    /\ \A d \in Directions : t.total[d] <= k.count[d]
    /\ AtMost(waiting, k.count)
    /\ t.base # Zero => \A d \in Directions : t.base[d] + t.total[d] <= k.count[d]
    /\ ~t.available => t.total = Zero

Sound(t, k, waiting, rows, c, p, r) ==
    /\ KernelInv(k, c, p, r) /\ TotalInv(t, k, c, p) /\ RowsInv(t, waiting, rows, c)
    /\ r \/ GoesOn(t, k, waiting)

StatsInv ==
    /\ StatsTypes
    /\ \A n \in Names :
          Sound(tracked[n], kernel[n], pending[n], stored[n], carried[n], polled[n], restarted[n])

-----------------------------------------------------------------------------
LEMMA ByteTypes ==
    /\ Zero \in Bytes /\ Zero \in [Directions -> Nat] /\ \A d \in Directions : Zero[d] = 0
    /\ \A b \in Bytes, d \in Directions : b[d] \in Nat /\ b[d] < 2^Width
    /\ \A b \in [Directions -> Nat] : (\A d \in Directions : b[d] < 2^Width) => b \in Bytes
<1>1. PICK L \in Nat : L = 2^Width /\ 0 < L
  BY WidthAssumption, StatsAssumption
<1>2. Bytes = [Directions -> 0..(L - 1)]
  BY <1>1, Zenon DEF Bytes
<1>3. Zero \in Bytes /\ Zero \in [Directions -> Nat] /\ \A d \in Directions : Zero[d] = 0
  BY <1>1, <1>2 DEF Zero
<1>4. \A b \in Bytes, d \in Directions : b[d] \in Nat /\ b[d] < L
  BY <1>1, <1>2
<1>5. \A b \in [Directions -> Nat] : (\A d \in Directions : b[d] < L) => b \in Bytes
  BY <1>1, <1>2
<1> QED
  BY <1>1, <1>3, <1>4, <1>5, Zenon

LEMMA RecordTypes ==
    /\ Untracked \in Tracked /\ Fresh \in Tracked /\ Fresh.on /\ ~Untracked.on
    /\ \A t \in {Untracked, Fresh} : /\ t.base = Zero /\ t.total = Zero /\ t.rate = Zero /\ t.points = <<>>
                                     /\ ~t.available
<1>1. <<>> \in Seq(Bytes) /\ Zero \in Bytes
  BY ByteTypes
<1>2. Untracked \in Tracked /\ ~Untracked.on
  BY <1>1 DEF Untracked, Tracked
<1>3. ASSUME NEW u \in Tracked, NEW f, f = [u EXCEPT !.on = TRUE]
      PROVE  /\ f \in Tracked /\ f.on /\ f.base = u.base /\ f.total = u.total /\ f.rate = u.rate
             /\ f.points = u.points /\ f.available = u.available
  BY <1>3, Zenon DEF Tracked
<1>4. /\ Untracked.base = Zero /\ Untracked.total = Zero /\ Untracked.rate = Zero
      /\ Untracked.points = <<>> /\ ~Untracked.available
  BY DEF Untracked
<1> QED
  BY <1>2, <1>3, <1>4, Zenon DEF Fresh

LEMMA NewestKeeps ==
    ASSUME NEW rows \in Seq(Bytes), rows # <<>>
    PROVE  /\ Newest(rows) \in Seq(Bytes) /\ Newest(rows) # <<>> /\ Len(Newest(rows)) <= HistoryLength
           /\ LastRow(Newest(rows)) = LastRow(rows)
<1> DEFINE m == IF Len(rows) > HistoryLength THEN Len(rows) - HistoryLength + 1 ELSE 1
<1>1. Len(rows) \in Nat /\ Len(rows) >= 1 /\ HistoryLength \in Nat /\ HistoryLength >= 1
  BY StatsAssumption
<1>2. m \in Int /\ 1 <= m /\ m <= Len(rows) /\ Len(rows) - m + 1 <= HistoryLength
  BY <1>1
<1>3. \A i \in m..Len(rows) : rows[i] \in Bytes
  BY <1>2
<1> HIDE DEF m
<1>4. /\ SubSeq(rows, m, Len(rows)) \in Seq(Bytes)
      /\ Len(SubSeq(rows, m, Len(rows))) = Len(rows) - m + 1
      /\ SubSeq(rows, m, Len(rows))[Len(rows) - m + 1] = rows[m + (Len(rows) - m + 1) - 1]
  BY <1>1, <1>2, <1>3, SubSeqProperties
<1>5. Newest(rows) = SubSeq(rows, m, Len(rows))
  BY DEF Newest, m
<1>6. m + (Len(rows) - m + 1) - 1 = Len(rows)
  BY <1>1, <1>2
<1>7. /\ Newest(rows) \in Seq(Bytes)
      /\ Len(Newest(rows)) = Len(rows) - m + 1 /\ Newest(rows)[Len(rows) - m + 1] = rows[Len(rows)]
  BY <1>4, <1>5, <1>6, Zenon
<1>8. Len(Newest(rows)) <= HistoryLength /\ Len(Newest(rows)) >= 1
  BY <1>1, <1>2, <1>7
<1>9. Newest(rows) # <<>>
  BY <1>8
<1> QED
  BY <1>7, <1>8, <1>9, Zenon DEF LastRow

\* The base never passes the counter, and what is above it was carried, since
\* the last update and at all.
LEMMA RebasedBounds ==
    ASSUME NEW t \in Tracked, NEW k \in Kernels,
           NEW c \in [Directions -> 0..MaxTraffic], NEW p \in [Directions -> Nat], NEW r,
           KernelInv(k, c, p, r), TotalInv(t, k, c, p), NEW d \in Directions
    PROVE  /\ Rebased(t, k.count)[d] \in Nat /\ Rebased(t, k.count)[d] <= k.count[d]
           /\ k.count[d] < 2^Width
           /\ k.count[d] - Rebased(t, k.count)[d] <= c[d]
           /\ k.count[d] - Rebased(t, k.count)[d] <= t.total[d] + c[d] - p[d]
           /\ (\A w : GoesOn(t, k, w) => t.total[d] <= k.count[d] - Rebased(t, k.count)[d])
<1>1. /\ k.count[d] \in Nat /\ c[d] \in 0..MaxTraffic /\ p[d] \in Nat
      /\ t.base[d] \in Nat /\ t.total[d] \in Nat /\ k.count \in [Directions -> Nat]
  BY ByteTypes DEF Tracked, Kernels
<1>2. k.count[d] <= c[d] + 1 /\ p[d] <= c[d] /\ t.total[d] <= c[d]
  BY DEF KernelInv, TotalInv
<1>3. k.count[d] < 2^Width
  BY <1>1, <1>2, WidthAssumption, StatsAssumption
<1> DEFINE b == IF t.base = Zero /\ ~t.available THEN k.count[d]
                ELSE IF t.base = Zero /\ k.count[d] >= t.total[d] THEN k.count[d] - t.total[d]
                ELSE t.base[d]
<1>4. Rebased(t, k.count)[d] = IF k.count[d] < b THEN k.count[d] ELSE b
  BY DEF Rebased
<1>5. t.base # Zero => k.count[d] - t.base[d] <= c[d] /\ k.count[d] - t.base[d] <= t.total[d] + c[d] - p[d]
  BY DEF TotalInv
<1>6. t.base = Zero => t.base[d] = 0
  BY ByteTypes
<1>7. ASSUME NEW w, GoesOn(t, k, w)
      PROVE  /\ t.total[d] <= k.count[d] /\ (t.base # Zero => t.base[d] + t.total[d] <= k.count[d])
             /\ (~t.available => t.total[d] = 0)
  BY <1>7, ByteTypes DEF GoesOn
<1>8. b \in Nat
  BY <1>1
<1>9. /\ k.count[d] - b <= c[d] \/ k.count[d] < b
      /\ k.count[d] - b <= t.total[d] + c[d] - p[d] \/ k.count[d] < b
  BY <1>1, <1>2, <1>5, <1>6
<1>10. ASSUME NEW w, GoesOn(t, k, w) PROVE t.total[d] <= k.count[d] - b
  BY <1>1, <1>6, <1>7, <1>10
<1> HIDE DEF b
<1> QED
  BY <1>1, <1>2, <1>3, <1>4, <1>8, <1>9, <1>10

LEMMA MinusIsLess == ASSUME NEW x \in Nat, NEW y \in Nat, y <= x, x < 2^Width PROVE Minus(x, y) = x - y
<1>1. PICK L \in Nat : L = 2^Width
  BY WidthAssumption
<1>2. (x - y) % L = x - y
  BY <1>1
<1> QED
  BY <1>1, <1>2, Zenon DEF Minus

\* update, for an interface that has counters.
LEMMA MeasuredKeeps ==
    ASSUME NEW t \in Tracked, NEW k \in Kernels,
           NEW c \in [Directions -> 0..MaxTraffic], NEW p \in [Directions -> Nat], NEW r,
           KernelInv(k, c, p, r), TotalInv(t, k, c, p), k.up, NEW m, m = Measured(t, k)
    PROVE  /\ m \in Tracked /\ m.on /\ TotalInv(m, k, c, c) /\ GoesOn(m, k, <<>>)
           /\ \A d \in Directions : m.rate[d] <= c[d] - p[d]
           /\ (\A w : GoesOn(t, k, w) => \A d \in Directions : t.total[d] <= m.total[d])
<1> DEFINE base == Rebased(t, k.count)
           total == [d \in Directions |-> Minus(k.count[d], base[d])]
           rate == [d \in Directions |-> Rate(total[d], t.total[d])]
           points == Newest(Append(t.points, total))
<1>1. m = [on |-> TRUE, base |-> base, total |-> total, available |-> TRUE, rate |-> rate, points |-> points]
  BY DEF Measured
<1>2. ASSUME NEW d \in Directions
      PROVE  /\ k.count[d] \in Nat /\ base[d] \in Nat /\ base[d] <= k.count[d] /\ k.count[d] < 2^Width
             /\ c[d] \in Nat /\ p[d] \in Nat /\ p[d] <= c[d] /\ t.total[d] \in Nat
             /\ k.count[d] - base[d] <= c[d] /\ k.count[d] - base[d] <= t.total[d] + c[d] - p[d]
             /\ (\A w : GoesOn(t, k, w) => t.total[d] <= k.count[d] - base[d])
  <2>1. /\ base[d] \in Nat /\ base[d] <= k.count[d] /\ k.count[d] < 2^Width
        /\ k.count[d] - base[d] <= c[d] /\ k.count[d] - base[d] <= t.total[d] + c[d] - p[d]
        /\ (\A w : GoesOn(t, k, w) => t.total[d] <= k.count[d] - base[d])
    BY RebasedBounds, Zenon
  <2>2. t.total[d] \in Nat /\ p[d] <= c[d] /\ k.count[d] \in Nat /\ p[d] \in Nat /\ c[d] \in Nat
    BY ByteTypes, StatsAssumption DEF Tracked, Kernels, KernelInv
  <2> QED
    BY <2>1, <2>2, Zenon
<1>3. base \in [Directions -> Nat]
  <2>1. base = [d \in Directions |-> base[d]]
    BY Zenon DEF Rebased
  <2> HIDE DEF base
  <2> QED
    BY <1>2, <2>1, Zenon
<1> HIDE DEF base
<1>4. ASSUME NEW d \in Directions PROVE total[d] = k.count[d] - base[d] /\ total[d] \in Nat /\ total[d] < 2^Width
  <2>1. Minus(k.count[d], base[d]) = k.count[d] - base[d]
    BY <1>2, MinusIsLess
  <2> QED
    BY <1>2, <2>1, WidthAssumption
<1>5. total \in [Directions -> Nat]
  <2>1. total = [d \in Directions |-> total[d]]
    OBVIOUS
  <2> HIDE DEF total
  <2> QED
    BY <1>4, <2>1
<1>6. \A d \in Directions : base[d] < 2^Width
  BY <1>2, WidthAssumption
<1>7. base \in Bytes /\ total \in Bytes
  BY <1>3, <1>4, <1>5, <1>6, ByteTypes, Zenon
<1> HIDE DEF total
<1>8. ASSUME NEW d \in Directions
      PROVE  rate[d] \in Nat /\ rate[d] < 2^Width /\ rate[d] <= c[d] - p[d]
  BY <1>2, <1>4, WidthAssumption DEF Rate
<1>9. rate \in Bytes
  <2>1. rate = [d \in Directions |-> rate[d]]
    OBVIOUS
  <2> HIDE DEF rate
  <2>2. rate \in [Directions -> Nat]
    BY <1>8, <2>1, Zenon
  <2> QED
    BY <1>8, <2>2, ByteTypes, Zenon
<1> HIDE DEF rate
<1>10. /\ Append(t.points, total) \in Seq(Bytes) /\ Append(t.points, total) # <<>>
       /\ LastRow(Append(t.points, total)) = total
  <2>1. t.points \in Seq(Bytes)
    BY DEF Tracked
  <2> QED
    BY <1>7, <2>1, AppendProperties DEF LastRow
<1>11. /\ points \in Seq(Bytes) /\ points # <<>> /\ Len(points) <= HistoryLength
       /\ LastRow(points) = total
  BY <1>10, NewestKeeps, Zenon
<1> HIDE DEF points
<1>12. /\ m.on /\ m.base = base /\ m.total = total /\ m.available /\ m.rate = rate /\ m.points = points
  BY <1>1
<1>13. m \in Tracked
  BY <1>1, <1>7, <1>9, <1>11 DEF Tracked
<1>14. TotalInv(m, k, c, c)
  BY <1>2, <1>4, <1>11, <1>12 DEF TotalInv
<1>15. GoesOn(m, k, <<>>)
  BY <1>2, <1>4, <1>12 DEF GoesOn, AtMost
<1>16. ASSUME NEW w, GoesOn(t, k, w), NEW d \in Directions PROVE t.total[d] <= m.total[d]
  BY <1>2, <1>4, <1>12, <1>16
<1> QED
  BY <1>8, <1>12, <1>13, <1>14, <1>15, <1>16, Zenon

-----------------------------------------------------------------------------
\* A byte more, in the kernel's counter and in what was carried.
Grows(x, y, c, d) == \A e \in Directions : x[e] <= y[e] /\ c[e] <= d[e] /\ y[e] - x[e] = d[e] - c[e]

MoreCounted(k, d) == [up |-> k.up, count |-> [k.count EXCEPT ![d] = k.count[d] + 1]]
MoreCarried(c, d) == [c EXCEPT ![d] = c[d] + 1]

LEMMA ByteCounts ==
    ASSUME NEW k \in Kernels, NEW c \in [Directions -> 0..MaxTraffic], NEW d \in Directions, c[d] < MaxTraffic
    PROVE  /\ MoreCounted(k, d) \in Kernels /\ MoreCounted(k, d).up = k.up
           /\ MoreCarried(c, d) \in [Directions -> 0..MaxTraffic]
           /\ Grows(k.count, MoreCounted(k, d).count, c, MoreCarried(c, d))
<1> DEFINE k2 == MoreCounted(k, d)
           c2 == MoreCarried(c, d)
<1>1. k.count \in [Directions -> Nat] /\ k.up \in BOOLEAN
  BY Zenon DEF Kernels
<1>2. /\ k2.up = k.up /\ k2.count = [k.count EXCEPT ![d] = k.count[d] + 1] /\ k2 = [up |-> k2.up, count |-> k2.count]
      /\ c2 = [c EXCEPT ![d] = c[d] + 1]
  BY Zenon DEF MoreCounted, MoreCarried
<1> HIDE DEF k2, c2
<1>3. k2.count \in [Directions -> Nat]
  BY <1>1, <1>2
<1>4. c2 \in [Directions -> 0..MaxTraffic]
  BY <1>2, StatsAssumption
<1>5. k2 \in Kernels
  BY <1>1, <1>2, <1>3, Zenon DEF Kernels
<1>6. ASSUME NEW e \in Directions
      PROVE  /\ k.count[e] \in Nat /\ c[e] \in Nat
             /\ k2.count[e] = IF e = d THEN k.count[e] + 1 ELSE k.count[e]
             /\ c2[e] = IF e = d THEN c[e] + 1 ELSE c[e]
  BY <1>1, <1>2, StatsAssumption
<1>7. ASSUME NEW e \in Directions
      PROVE  /\ k.count[e] <= k2.count[e] /\ c[e] <= c2[e] /\ k2.count[e] - k.count[e] = c2[e] - c[e]
  BY <1>6
<1> QED
  BY <1>5, <1>2, <1>4, <1>7, Zenon DEF Grows, k2, c2

LEMMA ByteKeeps ==
    ASSUME NEW t \in Tracked, NEW k \in Kernels, NEW w \in Seq(Bytes), NEW rows \in Seq(Bytes), NEW r,
           NEW c \in [Directions -> 0..MaxTraffic], NEW p \in [Directions -> Nat],
           Sound(t, k, w, rows, c, p, r), k.up,
           NEW k2 \in Kernels, NEW c2 \in [Directions -> 0..MaxTraffic], k2.up,
           Grows(k.count, k2.count, c, c2)
    PROVE  Sound(t, k2, w, rows, c2, p, r)
<1>1. /\ k.count \in [Directions -> Nat] /\ k2.count \in [Directions -> Nat]
      /\ t.base \in Bytes /\ t.total \in Bytes
  BY Zenon DEF Tracked, Kernels
<1>2. ASSUME NEW e \in Directions
      PROVE  /\ k.count[e] \in Nat /\ c[e] \in Nat /\ p[e] \in Nat /\ t.base[e] \in Nat /\ t.total[e] \in Nat
             /\ k2.count[e] \in Nat /\ c2[e] \in Nat
  <2>1. k.count[e] \in Nat /\ k2.count[e] \in Nat /\ p[e] \in Nat /\ t.base[e] \in Nat /\ t.total[e] \in Nat
    BY <1>1, ByteTypes, Zenon
  <2>2. c[e] \in Nat /\ c2[e] \in Nat
    BY StatsAssumption
  <2> QED
    BY <2>1, <2>2, Zenon
<1>3. ASSUME NEW e \in Directions
      PROVE  /\ k.count[e] <= k2.count[e] /\ c[e] <= c2[e] /\ k2.count[e] - k.count[e] = c2[e] - c[e]
  BY Zenon DEF Grows
<1>4. ASSUME NEW e \in Directions
      PROVE  /\ \A x \in Nat : (x <= k.count[e] => x <= k2.count[e]) /\ (x <= c[e] => x <= c2[e])
             /\ k.count[e] <= c[e] + 1 => k2.count[e] <= c2[e] + 1
             /\ k.count[e] - t.base[e] <= c[e] => k2.count[e] - t.base[e] <= c2[e]
             /\ k.count[e] - t.base[e] <= t.total[e] + c[e] - p[e]
                   => k2.count[e] - t.base[e] <= t.total[e] + c2[e] - p[e]
             /\ t.base[e] + t.total[e] <= k.count[e] => t.base[e] + t.total[e] <= k2.count[e]
  <2>1. PICK K \in Nat, X \in Nat, C \in Nat, Y \in Nat :
            K = k.count[e] /\ X = k2.count[e] /\ C = c[e] /\ Y = c2[e] /\ K <= X /\ C <= Y /\ X - K = Y - C
    BY <1>2, <1>3, Zenon
  <2>2. PICK B \in Nat, S \in Nat, P \in Nat : B = t.base[e] /\ S = t.total[e] /\ P = p[e]
    BY <1>2, Zenon
  <2>3. K <= X /\ C <= Y /\ X - K = Y - C
    BY <2>1, Zenon
  <2>4. \A x \in Nat : (x <= K => x <= X) /\ (x <= C => x <= Y)
    BY <2>3
  <2>5. K <= C + 1 => X <= Y + 1
    BY <2>3
  <2>6. K - B <= C => X - B <= Y
    BY <2>3
  <2>7. K - B <= S + C - P => X - B <= S + Y - P
    BY <2>3
  <2>8. B + S <= K => B + S <= X
    BY <2>3
  <2> QED
    BY <2>1, <2>2, <2>4, <2>5, <2>6, <2>7, <2>8, Zenon
<1>5. KernelInv(k2, c2, p, r)
  BY <1>2, <1>4, Zenon DEF KernelInv, Sound
<1>6. TotalInv(t, k2, c2, p)
  BY <1>2, <1>4, Zenon DEF TotalInv, Sound
<1>7. ASSUME NEW row \in Seq(Bytes), NEW e \in Directions, row # <<>> PROVE LastRow(row)[e] \in Nat
  BY <1>7, ByteTypes DEF LastRow
<1>8. ASSUME NEW row \in Seq(Bytes), AtMost(row, c) PROVE AtMost(row, c2)
  BY <1>4, <1>7, <1>8, Zenon DEF AtMost
<1>9. ASSUME NEW row \in Seq(Bytes), AtMost(row, k.count) PROVE AtMost(row, k2.count)
  BY <1>4, <1>7, <1>9, Zenon DEF AtMost
<1>10. RowsInv(t, w, rows, c2)
  BY <1>8, Zenon DEF RowsInv, Sound
<1>11. ASSUME GoesOn(t, k, w) PROVE GoesOn(t, k2, w)
  BY <1>2, <1>4, <1>9, <1>11, Zenon DEF GoesOn
<1> QED
  BY <1>5, <1>6, <1>10, <1>11, Zenon DEF Sound

LEMMA TrafficKeeps == ASSUME StatsInv, NEW n \in Names, NEW d \in Directions, Traffic(n, d) PROVE StatsInv'
<1>1. /\ kernel[n].up /\ kernel' = [kernel EXCEPT ![n].count[d] = @ + 1]
      /\ carried' = [carried EXCEPT ![n][d] = @ + 1]
      /\ UNCHANGED <<tracked, pending, stored, polled, restarted, resets>>
  BY Zenon DEF Traffic
<1>2. /\ tracked[n] \in Tracked /\ kernel[n] \in Kernels /\ pending[n] \in Seq(Bytes) /\ stored[n] \in Seq(Bytes)
      /\ carried[n] \in [Directions -> 0..MaxTraffic] /\ polled[n] \in [Directions -> Nat]
      /\ kernel \in [Names -> Kernels] /\ carried \in [Names -> [Directions -> 0..MaxTraffic]]
  BY DEF StatsInv, StatsTypes
<1>3. carried[n][d] < MaxTraffic
  <2> DEFINE it == CHOOSE f : Adds(carried[n], Directions, f)
  <2>1. FoldSet(LAMBDA e, s : carried[n][e] + s, 0, Directions) = it[Directions]
    BY DEF FoldSet, MapThenFoldSet, Adds, Pick
  <2>2. Adds(carried[n], Directions, it)
    BY AddsExists, StatsAssumption, Zenon
  <2>3. \A e \in Directions : carried[n][e] \in Nat
    BY <1>2, StatsAssumption
  <2> HIDE DEF it
  <2>4. it[Directions] \in Nat /\ carried[n][d] <= it[Directions]
    BY <2>2, <2>3, AddsBounds, StatsAssumption, Zenon
  <2>5. it[Directions] < MaxTraffic
    BY <2>1, Zenon DEF Traffic
  <2> QED
    BY <2>3, <2>4, <2>5, StatsAssumption
<1>4. /\ kernel'[n] = MoreCounted(kernel[n], d) /\ carried'[n] = MoreCarried(carried[n], d)
      /\ \A m \in Names \ {n} : kernel'[m] = kernel[m] /\ carried'[m] = carried[m]
  BY <1>1, <1>2, Zenon DEF Kernels, MoreCounted, MoreCarried
<1>5. /\ kernel'[n] \in Kernels /\ carried'[n] \in [Directions -> 0..MaxTraffic]
      /\ Sound(tracked[n], kernel'[n], pending[n], stored[n], carried'[n], polled[n], restarted[n])
  <2>1. /\ kernel'[n] \in Kernels /\ kernel'[n].up = kernel[n].up
        /\ carried'[n] \in [Directions -> 0..MaxTraffic]
        /\ Grows(kernel[n].count, kernel'[n].count, carried[n], carried'[n])
    <3>1. kernel[n] \in Kernels /\ carried[n] \in [Directions -> 0..MaxTraffic]
      BY <1>2, Zenon
    <3>2. /\ MoreCounted(kernel[n], d) \in Kernels /\ MoreCounted(kernel[n], d).up = kernel[n].up
          /\ MoreCarried(carried[n], d) \in [Directions -> 0..MaxTraffic]
          /\ Grows(kernel[n].count, MoreCounted(kernel[n], d).count, carried[n], MoreCarried(carried[n], d))
      BY <1>3, <3>1, ByteCounts, Zenon
    <3> QED
      BY <1>4, <3>2, Zenon
  <2>2. Sound(tracked[n], kernel[n], pending[n], stored[n], carried[n], polled[n], restarted[n])
    BY Zenon DEF StatsInv
  <2> QED
    BY <1>1, <1>2, <2>1, <2>2, ByteKeeps, Zenon
<1>6. kernel' \in [Names -> Kernels] /\ carried' \in [Names -> [Directions -> 0..MaxTraffic]]
  BY <1>1, <1>2, <1>4, <1>5
<1> QED
  BY <1>1, <1>4, <1>5, <1>6, Zenon DEF StatsInv, StatsTypes

-----------------------------------------------------------------------------
\* The parts of Sound that an interface starts from: nothing seen, or a history.
LEMMA StartKeeps ==
    ASSUME NEW k \in Kernels, NEW rows, NEW r, NEW w,
           NEW c \in [Directions -> 0..MaxTraffic], NEW p \in [Directions -> Nat],
           KernelInv(k, c, p, r), AtMost(rows, c)
    PROVE  /\ Sound(Fresh, k, <<>>, rows, c, p, r)
           /\ AtMost(w, c) /\ (r \/ AtMost(w, k.count)) => Sound(Untracked, k, w, rows, c, p, r)
<1>1. \A d \in Directions : Zero[d] = 0 /\ Zero[d] <= c[d] /\ Zero[d] <= k.count[d]
  BY ByteTypes, StatsAssumption DEF Kernels
<1>2. ASSUME NEW t \in {Untracked, Fresh}, NEW v, (r \/ AtMost(v, k.count)), ~t.on => t = Untracked
      PROVE  TotalInv(t, k, c, p) /\ (r \/ GoesOn(t, k, v))
  <2>1. t.base = Zero /\ t.total = Zero /\ t.points = <<>>
    BY RecordTypes, Zenon
  <2>2. Len(<<>>) <= HistoryLength
    BY StatsAssumption
  <2>3. TotalInv(t, k, c, p)
    BY <1>1, <1>2, <2>1, <2>2, Zenon DEF TotalInv
  <2> QED
    BY <1>1, <1>2, <2>1, <2>3, Zenon DEF GoesOn
<1>3. AtMost(<<>>, c) /\ AtMost(<<>>, k.count)
  BY Zenon DEF AtMost
<1>4. Sound(Fresh, k, <<>>, rows, c, p, r)
  BY <1>2, <1>3, RecordTypes, Zenon DEF Sound, RowsInv
<1>5. AtMost(w, c) /\ (r \/ AtMost(w, k.count)) => Sound(Untracked, k, w, rows, c, p, r)
  BY <1>2, RecordTypes, Zenon DEF Sound, RowsInv
<1> QED
  BY <1>4, <1>5, Zenon

LEMMA HistoryKeeps ==
    ASSUME NEW k \in Kernels, NEW rows, NEW r, NEW w \in Seq(Bytes), w # <<>>,
           NEW c \in [Directions -> 0..MaxTraffic], NEW p \in [Directions -> Nat],
           KernelInv(k, c, p, r), AtMost(rows, c), AtMost(w, c), r \/ AtMost(w, k.count)
    PROVE  WithHistory(w) \in Tracked /\ WithHistory(w).on /\ Sound(WithHistory(w), k, <<>>, rows, c, p, r)
<1> DEFINE h == WithHistory(w)
           last == IF Len(w) > 1 THEN [d \in Directions |-> Rate(w[Len(w)][d], w[Len(w) - 1][d])] ELSE Zero
<1>1. h = [on |-> TRUE, base |-> Zero, total |-> LastRow(w), available |-> TRUE, rate |-> last, points |-> Newest(w)]
  BY Zenon DEF WithHistory, LastRow
<1>2. LastRow(w) \in Bytes
  BY DEF LastRow
<1>3. last \in Bytes
  <2>1. CASE Len(w) > 1
    <3>1. w[Len(w)] \in Bytes /\ w[Len(w) - 1] \in Bytes
      BY <2>1
    <3>2. PICK L \in Nat : L = 2^Width
      BY WidthAssumption
    <3>3. ASSUME NEW x \in Nat, NEW y \in Nat, x < L PROVE Rate(x, y) \in Nat /\ Rate(x, y) < L
      BY <3>3 DEF Rate
    <3>4. ASSUME NEW d \in Directions
          PROVE  Rate(w[Len(w)][d], w[Len(w) - 1][d]) \in Nat /\ Rate(w[Len(w)][d], w[Len(w) - 1][d]) < 2^Width
      BY <3>1, <3>2, <3>3, ByteTypes, Zenon
    <3>5. last = [d \in Directions |-> Rate(w[Len(w)][d], w[Len(w) - 1][d])]
      BY <2>1, Zenon
    <3> HIDE DEF last
    <3>6. last \in [Directions -> Nat] /\ \A d \in Directions : last[d] < 2^Width
      BY <3>4, <3>5, Zenon
    <3> QED
      BY <3>6, ByteTypes, Zenon
  <2> QED
    BY <2>1, ByteTypes, Zenon
<1>4. Newest(w) \in Seq(Bytes) /\ Newest(w) # <<>> /\ Len(Newest(w)) <= HistoryLength /\ LastRow(Newest(w)) = LastRow(w)
  BY NewestKeeps, Zenon
<1> HIDE DEF h, last
<1>5. /\ h.on /\ h.base = Zero /\ h.total = LastRow(w) /\ h.available /\ h.rate = last /\ h.points = Newest(w)
      /\ h \in Tracked
  BY <1>1, <1>2, <1>3, <1>4, ByteTypes, Zenon DEF Tracked
<1>6. TotalInv(h, k, c, p)
  BY <1>4, <1>5, Zenon DEF TotalInv, AtMost
<1>7. AtMost(<<>>, c) /\ AtMost(<<>>, k.count)
  BY Zenon DEF AtMost
<1>8. r \/ GoesOn(h, k, <<>>)
  BY <1>5, <1>7, Zenon DEF GoesOn, AtMost
<1> QED
  BY <1>5, <1>6, <1>7, <1>8, Zenon DEF Sound, RowsInv, h

-----------------------------------------------------------------------------
LEMMA Parts ==
    ASSUME StatsInv, NEW n \in Names
    PROVE  /\ tracked[n] \in Tracked /\ kernel[n] \in Kernels /\ pending[n] \in Seq(Bytes) /\ stored[n] \in Seq(Bytes)
           /\ carried[n] \in [Directions -> 0..MaxTraffic] /\ polled[n] \in [Directions -> Nat]
           /\ restarted[n] \in BOOLEAN
           /\ Sound(tracked[n], kernel[n], pending[n], stored[n], carried[n], polled[n], restarted[n])
           /\ KernelInv(kernel[n], carried[n], polled[n], restarted[n])
           /\ TotalInv(tracked[n], kernel[n], carried[n], polled[n])
           /\ RowsInv(tracked[n], pending[n], stored[n], carried[n])
           /\ restarted[n] \/ GoesOn(tracked[n], kernel[n], pending[n])
<1>1. /\ tracked[n] \in Tracked /\ kernel[n] \in Kernels /\ pending[n] \in Seq(Bytes) /\ stored[n] \in Seq(Bytes)
      /\ carried[n] \in [Directions -> 0..MaxTraffic] /\ polled[n] \in [Directions -> Nat]
      /\ restarted[n] \in BOOLEAN
  BY DEF StatsInv, StatsTypes
<1> QED
  BY <1>1, Zenon DEF StatsInv, Sound

\* Without counters the interface shows what it showed.
LEMMA ZeroKeeps ==
    ASSUME NEW t \in Tracked, NEW k \in Kernels, NEW r,
           NEW c \in [Directions -> 0..MaxTraffic], NEW p \in [Directions -> Nat],
           KernelInv(k, c, p, r), TotalInv(t, k, c, p), NEW k2 \in Kernels, k2.count = Zero
    PROVE  KernelInv(k2, c, p, TRUE) /\ TotalInv(t, k2, c, p) /\ TotalInv(t, k2, c, c)
<1>1. ASSUME NEW d \in Directions
      PROVE  /\ k2.count[d] <= c[d] + 1
             /\ k2.count[d] - t.base[d] <= c[d]
             /\ k2.count[d] - t.base[d] <= t.total[d] + c[d] - p[d]
             /\ k2.count[d] - t.base[d] <= t.total[d] + c[d] - c[d]
  <2>1. t.base[d] \in Nat /\ t.total[d] \in Nat /\ Zero[d] = 0
    BY ByteTypes, Zenon DEF Tracked
  <2>2. c[d] \in Nat /\ p[d] \in Nat
    BY StatsAssumption
  <2>3. p[d] <= c[d] /\ k2.count[d] = 0
    BY <2>1, Zenon DEF KernelInv
  <2>4. PICK B \in Nat, S \in Nat, C \in Nat, P \in Nat : B = t.base[d] /\ S = t.total[d] /\ C = c[d] /\ P = p[d]
    BY <2>1, <2>2, Zenon
  <2>5. P <= C
    BY <2>3, <2>4, Zenon
  <2>6. 0 <= C + 1 /\ 0 - B <= C /\ 0 - B <= S + C - P /\ 0 - B <= S + C - C
    BY <2>5
  <2> QED
    BY <2>3, <2>4, <2>6, Zenon
<1>2. KernelInv(k2, c, p, TRUE)
  BY <1>1, Zenon DEF KernelInv
<1> QED
  BY <1>1, <1>2, Zenon DEF TotalInv

LEMMA TunnelDownKeeps == ASSUME StatsInv, NEW n \in Names, TunnelDown(n) PROVE StatsInv'
<1> DEFINE k2 == [up |-> FALSE, count |-> Zero]
<1>1. /\ kernel' = [kernel EXCEPT ![n] = k2] /\ restarted' = [restarted EXCEPT ![n] = TRUE]
      /\ UNCHANGED <<tracked, pending, stored, carried, polled>> /\ resets' = resets + 1
  BY Zenon DEF TunnelDown
<1>2. k2 \in Kernels /\ k2.count = Zero
  BY ByteTypes, Zenon DEF Kernels
<1> HIDE DEF k2
<1>3. KernelInv(k2, carried[n], polled[n], TRUE) /\ TotalInv(tracked[n], k2, carried[n], polled[n])
  BY <1>2, Parts, ZeroKeeps, Zenon
<1>4. Sound(tracked[n], k2, pending[n], stored[n], carried[n], polled[n], TRUE)
  BY <1>3, Parts, Zenon DEF Sound
<1>5. kernel \in [Names -> Kernels] /\ restarted \in [Names -> BOOLEAN] /\ resets \in Nat
  BY Zenon DEF StatsInv, StatsTypes
<1>6. /\ kernel' \in [Names -> Kernels] /\ restarted' \in [Names -> BOOLEAN]
      /\ kernel'[n] = k2 /\ restarted'[n] = TRUE
      /\ \A m \in Names \ {n} : kernel'[m] = kernel[m] /\ restarted'[m] = restarted[m]
  BY <1>1, <1>2, <1>5, Zenon
<1>7. resets' \in Nat
  BY <1>1, <1>5
<1> QED
  BY <1>1, <1>4, <1>6, <1>7, Zenon DEF StatsInv, StatsTypes

LEMMA TunnelUpKeeps == ASSUME StatsInv, NEW n \in Names, TunnelUp(n) PROVE StatsInv'
<1> DEFINE k2 == [kernel[n] EXCEPT !.up = TRUE]
<1>1. /\ kernel' = [kernel EXCEPT ![n].up = TRUE]
      /\ UNCHANGED <<tracked, pending, stored, carried, polled, restarted, resets>>
  BY Zenon DEF TunnelUp
<1>2. k2 \in Kernels /\ k2.count = kernel[n].count /\ k2.up
  BY Parts, Zenon DEF Kernels
<1>3. kernel \in [Names -> Kernels]
  BY Zenon DEF StatsInv, StatsTypes
<1>4. kernel'[n] = k2 /\ \A m \in Names \ {n} : kernel'[m] = kernel[m]
  BY <1>1, <1>3
<1> HIDE DEF k2
<1>5. kernel' \in [Names -> Kernels]
  BY <1>1, <1>2, <1>3, <1>4, Zenon
<1>6. Sound(tracked[n], k2, pending[n], stored[n], carried[n], polled[n], restarted[n])
  BY <1>2, Parts, Zenon DEF Sound, KernelInv, TotalInv, GoesOn
<1> QED
  BY <1>1, <1>4, <1>5, <1>6, Zenon DEF StatsInv, StatsTypes

LEMMA ChangeInterfaceKeeps == ASSUME StatsInv, NEW n \in Names, ChangeInterface(n) PROVE StatsInv'
<1> DEFINE k2 == [kernel[n] EXCEPT !.count = Zero]
<1>1. /\ tracked[n].on /\ tracked' = [tracked EXCEPT ![n] = Fresh] /\ kernel' = [kernel EXCEPT ![n].count = Zero]
      /\ restarted' = [restarted EXCEPT ![n] = TRUE] /\ UNCHANGED <<pending, stored, carried, polled>>
      /\ resets' = resets + 1
  BY Zenon DEF ChangeInterface
<1>2. k2 \in Kernels /\ k2.count = Zero
  BY Parts, ByteTypes, Zenon DEF Kernels
<1>3. /\ kernel \in [Names -> Kernels] /\ restarted \in [Names -> BOOLEAN] /\ resets \in Nat
      /\ tracked \in [Names -> Tracked]
  BY Zenon DEF StatsInv, StatsTypes
<1>4. kernel'[n] = k2 /\ \A m \in Names \ {n} : kernel'[m] = kernel[m]
  BY <1>1, <1>3
<1> HIDE DEF k2
<1>5. kernel' \in [Names -> Kernels]
  BY <1>1, <1>2, <1>3, <1>4
<1>6. /\ tracked' \in [Names -> Tracked] /\ restarted' \in [Names -> BOOLEAN]
      /\ tracked'[n] = Fresh /\ restarted'[n] = TRUE
      /\ \A m \in Names \ {n} : tracked'[m] = tracked[m] /\ restarted'[m] = restarted[m]
  BY <1>1, <1>3, RecordTypes, Zenon
<1>7. resets' \in Nat
  BY <1>1, <1>3
<1>8. KernelInv(k2, carried[n], polled[n], TRUE)
  BY <1>2, Parts, ZeroKeeps, Zenon
<1>9. pending[n] = <<>> /\ AtMost(stored[n], carried[n])
  BY <1>1, Parts, Zenon DEF RowsInv
<1>10. Sound(Fresh, k2, pending[n], stored[n], carried[n], polled[n], TRUE)
  BY <1>2, <1>8, <1>9, Parts, StartKeeps, Zenon
<1> QED
  BY <1>1, <1>4, <1>5, <1>6, <1>7, <1>10, Zenon DEF StatsInv, StatsTypes

\* update, for every interface.
LEMMA PolledKeeps ==
    ASSUME StatsInv, Poll, NEW n \in Names
    PROVE  /\ tracked'[n] \in Tracked
           /\ Sound(tracked'[n], kernel[n], pending[n], stored[n], carried[n], carried[n], restarted'[n])
           /\ \A d \in Directions : tracked'[n].rate[d] <= carried[n][d] - polled[n][d]
           /\ restarted[n] \/ \A d \in Directions : tracked[n].total[d] <= tracked'[n].total[d]
<1> DEFINE t == tracked[n]
           k == kernel[n]
           c == carried[n]
           p == polled[n]
           r == restarted[n]
           m == Measured(t, k)
<1>1. /\ tracked'[n] = (IF t.on THEN m ELSE t) /\ restarted'[n] = (r /\ ~(k.up /\ t.on))
  BY Zenon DEF Poll
<1>2. /\ t \in Tracked /\ k \in Kernels /\ c \in [Directions -> 0..MaxTraffic] /\ p \in [Directions -> Nat] /\ r \in BOOLEAN
      /\ KernelInv(k, c, p, r) /\ TotalInv(t, k, c, p) /\ RowsInv(t, pending[n], stored[n], c)
      /\ r \/ GoesOn(t, k, pending[n])
  BY Parts, Zenon
<1>3. \A d \in Directions : t.total[d] <= t.total[d] /\ c[d] <= c[d] /\ 0 <= c[d] - p[d]
  <2>1. ASSUME NEW d \in Directions PROVE t.total[d] \in Nat /\ c[d] \in Nat /\ p[d] \in Nat /\ p[d] <= c[d]
    BY <1>2, ByteTypes, StatsAssumption DEF Tracked, KernelInv
  <2> QED
    BY <2>1
<1>4. ASSUME NEW q PROVE KernelInv(k, c, c, q) <=> (~k.up => k.count = Zero /\ q)
  BY <1>2, <1>3, <1>4, Zenon DEF KernelInv
<1> HIDE DEF t, k, c, p, r
<1>5. CASE t.on /\ k.up
  <2>1. /\ m \in Tracked /\ m.on /\ TotalInv(m, k, c, c) /\ GoesOn(m, k, <<>>)
        /\ \A d \in Directions : m.rate[d] <= c[d] - p[d]
        /\ \A w : GoesOn(t, k, w) => \A d \in Directions : t.total[d] <= m.total[d]
    BY <1>2, <1>5, MeasuredKeeps, Zenon
  <2> HIDE DEF m
  <2>2. pending[n] = <<>> /\ RowsInv(m, pending[n], stored[n], c)
    BY <1>2, <1>5, <2>1, Zenon DEF RowsInv
  <2>3. KernelInv(k, c, c, FALSE)
    BY <1>4, <1>5, Zenon
  <2>4. tracked'[n] = m /\ restarted'[n] = FALSE
    BY <1>1, <1>5, Zenon
  <2>5. Sound(m, k, pending[n], stored[n], c, c, FALSE)
    BY <2>1, <2>2, <2>3, Zenon DEF Sound
  <2> QED
    BY <1>2, <2>1, <2>4, <2>5, Zenon DEF t, k, c, p, r
<1>6. CASE t.on /\ ~k.up
  <2>1. k.count = Zero /\ r /\ tracked'[n] = m /\ restarted'[n] = r
    BY <1>1, <1>2, <1>6, Zenon DEF KernelInv
  <2>2. m = [t EXCEPT !.available = FALSE, !.rate = Zero]
    BY <1>6, Zenon DEF Measured
  <2> HIDE DEF m
  <2>3. /\ m \in Tracked /\ m.on = t.on /\ m.base = t.base /\ m.total = t.total /\ m.points = t.points
        /\ m.rate = Zero
    BY <1>2, <2>2, ByteTypes, Zenon DEF Tracked
  <2>4. TotalInv(t, k, c, c)
    BY <1>2, <2>1, ZeroKeeps, Zenon
  <2>5. TotalInv(m, k, c, c)
    BY <1>6, <2>3, <2>4, Zenon DEF TotalInv
  <2>6. KernelInv(k, c, c, r)
    BY <1>4, <2>1, Zenon
  <2>7. RowsInv(m, pending[n], stored[n], c)
    BY <1>2, <2>3, Zenon DEF RowsInv
  <2>8. Sound(m, k, pending[n], stored[n], c, c, r)
    BY <2>1, <2>5, <2>6, <2>7, Zenon DEF Sound
  <2>9. \A d \in Directions : m.rate[d] <= c[d] - p[d]
    BY <1>3, <2>3, ByteTypes, Zenon
  <2> QED
    BY <2>1, <2>3, <2>8, <2>9, Zenon DEF t, k, c, p, r
<1>7. CASE ~t.on
  <2>1. tracked'[n] = t /\ restarted'[n] = r /\ t = Untracked
    BY <1>1, <1>2, <1>7, Zenon DEF TotalInv, r
  <2>2. KernelInv(k, c, c, r)
    BY <1>2, <1>4, Zenon DEF KernelInv
  <2>3. TotalInv(t, k, c, c)
    BY <1>2, <2>1, RecordTypes, Zenon DEF TotalInv
  <2>4. Sound(t, k, pending[n], stored[n], c, c, r)
    BY <1>2, <2>2, <2>3, Zenon DEF Sound
  <2>5. \A d \in Directions : t.rate[d] <= c[d] - p[d]
    BY <1>3, <2>1, RecordTypes, ByteTypes, Zenon
  <2> QED
    BY <1>2, <1>3, <2>1, <2>4, <2>5, Zenon DEF t, k, c, p, r
<1> QED
  BY <1>5, <1>6, <1>7, Zenon

LEMMA PollKeeps == ASSUME StatsInv, Poll PROVE StatsInv'
<1>1. /\ DOMAIN tracked' = Names /\ tracked' = [n \in Names |-> tracked'[n]]
      /\ polled' = carried /\ restarted' = [n \in Names |-> restarted'[n]]
      /\ \A n \in Names : restarted'[n] \in BOOLEAN
      /\ UNCHANGED <<kernel, pending, stored, carried, resets>>
  BY Zenon DEF Poll
<1>2. tracked' \in [Names -> Tracked] /\ restarted' \in [Names -> BOOLEAN]
  BY <1>1, PolledKeeps, Zenon
<1>3. polled' \in [Names -> [Directions -> Nat]]
  <2>1. carried \in [Names -> [Directions -> 0..MaxTraffic]]
    BY Zenon DEF StatsInv, StatsTypes
  <2> QED
    BY <1>1, <2>1, StatsAssumption
<1> QED
  BY <1>1, <1>2, <1>3, PolledKeeps, Zenon DEF StatsInv, StatsTypes

LEMMA ConfigureKeeps == ASSUME StatsInv, NEW vpns \in SUBSET VPNs, Configure(vpns) PROVE StatsInv'
<1>1. /\ tracked' = [n \in Names |-> IF n \in vpns \cup {"WAN"} THEN Ensured(n, tracked[n]) ELSE Untracked]
      /\ pending' = [n \in Names |-> IF n \in vpns \cup {"WAN"} THEN <<>> ELSE pending[n]]
      /\ UNCHANGED <<kernel, stored, carried, polled, restarted>> /\ resets' = resets + 1
  BY Zenon DEF Configure
<1>2. ASSUME NEW n \in Names
      PROVE  /\ tracked'[n] \in Tracked /\ pending'[n] \in Seq(Bytes)
             /\ Sound(tracked'[n], kernel[n], pending'[n], stored[n], carried[n], polled[n], restarted[n])
  <2> DEFINE t == tracked[n]
             w == pending[n]
             q == vpns \cup {"WAN"}
  <2>1. /\ tracked'[n] = (IF n \in q THEN Ensured(n, t) ELSE Untracked)
        /\ pending'[n] = (IF n \in q THEN <<>> ELSE w)
    BY <1>1, Zenon
  <2>2. /\ KernelInv(kernel[n], carried[n], polled[n], restarted[n]) /\ AtMost(stored[n], carried[n])
        /\ AtMost(w, carried[n]) /\ (restarted[n] \/ AtMost(w, kernel[n].count)) /\ w \in Seq(Bytes)
        /\ t \in Tracked /\ kernel[n] \in Kernels
        /\ carried[n] \in [Directions -> 0..MaxTraffic] /\ polled[n] \in [Directions -> Nat]
        /\ Sound(t, kernel[n], w, stored[n], carried[n], polled[n], restarted[n])
    BY Parts, Zenon DEF RowsInv, GoesOn
  <2>3. <<>> \in Seq(Bytes)
    OBVIOUS
  <2> HIDE DEF t, w, q
  <2>4. CASE n \notin q
    <3>1. tracked'[n] = Untracked /\ pending'[n] = w
      BY <2>1, <2>4, Zenon
    <3>2. Sound(Untracked, kernel[n], w, stored[n], carried[n], polled[n], restarted[n])
      BY <2>2, StartKeeps, Zenon
    <3> QED
      BY <2>2, <3>1, <3>2, RecordTypes, Zenon
  <2>5. CASE n \in q /\ w # <<>>
    <3>1. tracked'[n] = WithHistory(w) /\ pending'[n] = <<>>
      BY <2>1, <2>5, Zenon DEF Ensured, w
    <3> QED
      BY <2>2, <2>3, <2>5, <3>1, HistoryKeeps, Zenon
  <2>6. CASE n \in q /\ w = <<>> /\ t.on
    <3>1. tracked'[n] = t /\ pending'[n] = w
      BY <2>1, <2>6, Zenon DEF Ensured, w
    <3> QED
      BY <2>2, <3>1, Zenon
  <2>7. CASE n \in q /\ w = <<>> /\ ~t.on
    <3>1. tracked'[n] = Fresh /\ pending'[n] = <<>>
      BY <2>1, <2>7, Zenon DEF Ensured, w
    <3> QED
      BY <2>2, <2>3, <3>1, StartKeeps, RecordTypes, Zenon
  <2> QED
    BY <2>4, <2>5, <2>6, <2>7, Zenon
<1>3. tracked' = [n \in Names |-> tracked'[n]] /\ pending' = [n \in Names |-> pending'[n]]
  BY <1>1, Zenon
<1>4. tracked' \in [Names -> Tracked] /\ pending' \in [Names -> Seq(Bytes)]
  BY <1>2, <1>3, Zenon
<1>5. resets' \in Nat
  BY <1>1 DEF StatsInv, StatsTypes
<1> QED
  BY <1>1, <1>2, <1>4, <1>5, Zenon DEF StatsInv, StatsTypes

LEMMA RestartKeeps ==
    ASSUME StatsInv, NEW vpns \in SUBSET VPNs, NEW clean \in BOOLEAN, NEW reboot \in BOOLEAN, Restart(clean, reboot, vpns)
    PROVE  StatsInv'
<1>1. /\ stored' = (IF clean THEN Persist ELSE stored)
      /\ tracked' = [n \in Names |-> Loaded(n, vpns)]
      /\ pending' = [n \in Names |-> IF n \in vpns \cup {"WAN"} THEN <<>> ELSE stored'[n]]
      /\ kernel' = (IF reboot THEN [n \in Names |-> [up |-> TRUE, count |-> Zero]] ELSE kernel)
      /\ restarted' = [n \in Names |-> restarted[n] \/ reboot \/ ~clean]
      /\ UNCHANGED <<carried, polled>> /\ resets' = resets + 1
  BY Zenon DEF Restart
<1>2. ASSUME NEW n \in Names
      PROVE  /\ stored'[n] = (IF clean THEN tracked[n].points ELSE stored[n])
             /\ tracked'[n] = Loaded(n, vpns)
             /\ pending'[n] = (IF n \in vpns \cup {"WAN"} THEN <<>> ELSE stored'[n])
             /\ kernel'[n] = (IF reboot THEN [up |-> TRUE, count |-> Zero] ELSE kernel[n])
             /\ restarted'[n] = (restarted[n] \/ reboot \/ ~clean)
  BY <1>1, Zenon DEF Persist
<1>3. ASSUME NEW n \in Names
      PROVE  /\ kernel'[n] \in Kernels /\ KernelInv(kernel'[n], carried[n], polled[n], restarted'[n])
             /\ stored'[n] \in Seq(Bytes) /\ AtMost(stored'[n], carried[n])
             /\ restarted'[n] \/ AtMost(stored'[n], kernel'[n].count)
  <2> DEFINE k2 == [up |-> TRUE, count |-> Zero]
  <2>1. k2 \in Kernels /\ k2.count = Zero /\ kernel'[n] = (IF reboot THEN k2 ELSE kernel[n])
    BY <1>2, ByteTypes, Zenon DEF Kernels
  <2> HIDE DEF k2
  <2>2. KernelInv(k2, carried[n], polled[n], TRUE)
    BY <2>1, Parts, ZeroKeeps, Zenon
  <2>3. kernel'[n] \in Kernels /\ KernelInv(kernel'[n], carried[n], polled[n], restarted'[n])
    <3>1. CASE reboot
      BY <1>2, <2>1, <2>2, <3>1, Zenon
    <3>2. CASE ~reboot
      <4>1. kernel'[n] = kernel[n] /\ (restarted[n] => restarted'[n])
        BY <1>2, <3>2, Zenon
      <4> QED
        BY <4>1, Parts, Zenon DEF KernelInv
    <3> QED
      BY <3>1, <3>2, Zenon
  <2>4. tracked[n].points \in Seq(Bytes)
    BY Parts, Zenon DEF Tracked
  <2>5. AtMost(tracked[n].points, carried[n])
    BY Parts, Zenon DEF TotalInv, AtMost
  <2>6. GoesOn(tracked[n], kernel[n], pending[n]) => AtMost(tracked[n].points, kernel[n].count)
    BY Parts, Zenon DEF TotalInv, AtMost, GoesOn
  <2>7. stored'[n] \in Seq(Bytes) /\ AtMost(stored'[n], carried[n])
    BY <1>2, <2>4, <2>5, Parts, Zenon DEF RowsInv
  <2>8. restarted'[n] \/ AtMost(stored'[n], kernel'[n].count)
    BY <1>2, <2>6, Parts, Zenon
  <2> QED
    BY <2>3, <2>7, <2>8, Zenon
<1>4. ASSUME NEW n \in Names
      PROVE  /\ tracked'[n] \in Tracked /\ pending'[n] \in Seq(Bytes)
             /\ Sound(tracked'[n], kernel'[n], pending'[n], stored'[n], carried[n], polled[n], restarted'[n])
  <2>1. <<>> \in Seq(Bytes)
    OBVIOUS
  <2>2. carried[n] \in [Directions -> 0..MaxTraffic] /\ polled[n] \in [Directions -> Nat]
    BY Parts, Zenon
  <2>3. CASE n \notin vpns \cup {"WAN"}
    <3>1. tracked'[n] = Untracked /\ pending'[n] = stored'[n]
      BY <1>2, <2>3, Zenon DEF Loaded
    <3> QED
      BY <1>3, <2>2, <3>1, StartKeeps, RecordTypes, Zenon
  <2>4. CASE n \in vpns \cup {"WAN"} /\ stored'[n] = <<>>
    <3>1. tracked'[n] = Fresh /\ pending'[n] = <<>>
      BY <1>2, <2>4, Zenon DEF Loaded
    <3> QED
      BY <1>3, <2>1, <2>2, <3>1, StartKeeps, RecordTypes, Zenon
  <2>5. CASE n \in vpns \cup {"WAN"} /\ stored'[n] # <<>>
    <3> DEFINE w == stored'[n]
               k == kernel'[n]
               r == restarted'[n]
    <3>1. tracked'[n] = WithHistory(w) /\ pending'[n] = <<>>
      BY <1>2, <2>5, Zenon DEF Loaded
    <3>2. /\ k \in Kernels /\ KernelInv(k, carried[n], polled[n], r) /\ w \in Seq(Bytes) /\ w # <<>>
          /\ AtMost(w, carried[n]) /\ (r \/ AtMost(w, k.count))
      BY <1>3, <2>5, Zenon
    <3> HIDE DEF w, k, r
    <3>3. WithHistory(w) \in Tracked /\ Sound(WithHistory(w), k, <<>>, w, carried[n], polled[n], r)
      BY <2>2, <3>2, HistoryKeeps, Zenon
    <3> QED
      BY <2>1, <3>1, <3>3, Zenon DEF w, k, r
  <2> QED
    BY <2>3, <2>4, <2>5, Zenon
<1>5. /\ DOMAIN tracked' = Names /\ DOMAIN pending' = Names /\ DOMAIN restarted' = Names
      /\ tracked' = [n \in Names |-> tracked'[n]] /\ pending' = [n \in Names |-> pending'[n]]
      /\ restarted' = [n \in Names |-> restarted'[n]] /\ \A n \in Names : restarted'[n] \in BOOLEAN
  BY <1>1, Zenon
<1>6. kernel' = [n \in Names |-> kernel'[n]] /\ stored' = [n \in Names |-> stored'[n]]
  BY <1>1, Zenon DEF Persist, StatsInv, StatsTypes
<1>7. /\ tracked' \in [Names -> Tracked] /\ pending' \in [Names -> Seq(Bytes)] /\ restarted' \in [Names -> BOOLEAN]
      /\ kernel' \in [Names -> Kernels] /\ stored' \in [Names -> Seq(Bytes)]
  BY <1>3, <1>4, <1>5, <1>6, Zenon
<1>8. resets' \in Nat
  BY <1>1 DEF StatsInv, StatsTypes
<1> QED
  BY <1>1, <1>4, <1>7, <1>8, Zenon DEF StatsInv, StatsTypes

-----------------------------------------------------------------------------
LEMMA StatsInit == TInit => StatsInv
<1> SUFFICES ASSUME TInit PROVE StatsInv
  OBVIOUS
<1> DEFINE one == [d \in Directions |-> 1]
<1>1. ASSUME NEW n \in Names PROVE kernel[n].up /\ kernel[n].count \in {Zero, one} /\ kernel[n] \in Kernels
  <2>1. one \in [Directions -> Nat]
    OBVIOUS
  <2>2. kernel[n] \in [up : {TRUE}, count : {Zero, one}]
    BY Zenon DEF TInit
  <2> HIDE DEF one
  <2> QED
    BY <2>1, <2>2, ByteTypes, Zenon DEF Kernels
<1>2. kernel \in [Names -> Kernels]
  <2>1. kernel = [n \in Names |-> kernel[n]]
    BY Zenon DEF TInit
  <2> QED
    BY <1>1, <2>1, Zenon
<1>3. Zero \in [Directions -> 0..MaxTraffic] /\ Zero \in [Directions -> Nat] /\ <<>> \in Seq(Bytes)
  BY StatsAssumption DEF Zero
<1>4. StatsTypes
  <2>1. resets \in Nat
    BY DEF TInit
  <2> QED
    BY <1>2, <1>3, <2>1, RecordTypes, Zenon DEF TInit, StatsTypes
<1>5. ASSUME NEW n \in Names
      PROVE  Sound(tracked[n], kernel[n], pending[n], stored[n], carried[n], polled[n], restarted[n])
  <2>1. /\ tracked[n] = Fresh /\ pending[n] = <<>> /\ stored[n] = <<>> /\ carried[n] = Zero /\ polled[n] = Zero
        /\ restarted[n] = FALSE
    BY Zenon DEF TInit
  <2>2. KernelInv(kernel[n], Zero, Zero, FALSE)
    BY <1>1, ByteTypes DEF KernelInv
  <2>3. AtMost(<<>>, Zero)
    BY Zenon DEF AtMost
  <2>4. Sound(Fresh, kernel[n], <<>>, <<>>, Zero, Zero, FALSE)
    BY <1>1, <1>3, <2>2, <2>3, StartKeeps, Zenon
  <2> QED
    BY <2>1, <2>4, Zenon
<1> QED
  BY <1>4, <1>5, Zenon DEF StatsInv

LEMMA StatsNext == ASSUME StatsInv, [TNext]_statsVars PROVE StatsInv'
<1>1. CASE UNCHANGED statsVars
  BY <1>1, Zenon DEF StatsInv, StatsTypes, statsVars
<1>2. ASSUME NEW n \in Names, TunnelDown(n) \/ TunnelUp(n) \/ ChangeInterface(n) PROVE StatsInv'
  BY <1>2, TunnelDownKeeps, TunnelUpKeeps, ChangeInterfaceKeeps, Zenon
<1>3. ASSUME NEW n \in Names, NEW d \in Directions, Traffic(n, d) PROVE StatsInv'
  BY <1>3, TrafficKeeps, Zenon
<1>4. ASSUME NEW vpns \in SUBSET VPNs, Configure(vpns) PROVE StatsInv'
  BY <1>4, ConfigureKeeps, Zenon
<1>5. ASSUME NEW vpns \in SUBSET VPNs, NEW clean \in BOOLEAN, NEW reboot \in BOOLEAN, Restart(clean, reboot, vpns)
      PROVE  StatsInv'
  BY <1>5, RestartKeeps, Zenon
<1> QED
  BY <1>1, <1>2, <1>3, <1>4, <1>5, PollKeeps, Zenon DEF TNext

LEMMA StatsHolds == TSpec => []StatsInv
  BY StatsInit, StatsNext, PTL DEF TSpec

\* The collector's values are counters of the code's width, its histories are no
\* longer than configured and end with the present total.
THEOREM StatsTypeCorrect == TSpec => []TTypeOK
<1>1. StatsInv => TTypeOK
  <2> SUFFICES ASSUME StatsInv, NEW n \in Names
               PROVE  /\ tracked[n].base \in Bytes /\ tracked[n].total \in Bytes /\ tracked[n].rate \in Bytes
                      /\ Len(tracked[n].points) <= HistoryLength
                      /\ tracked[n].points # <<>> => LastRow(tracked[n].points) = tracked[n].total
    BY Zenon DEF TTypeOK
  <2>1. tracked[n] \in Tracked /\ TotalInv(tracked[n], kernel[n], carried[n], polled[n])
    BY Parts, Zenon
  <2> QED
    BY <2>1, Zenon DEF Tracked, TotalInv
<1> QED
  BY <1>1, StatsHolds, PTL

\* update counts no byte twice, however counters, server and router start
\* again, for any number of profiles and any traffic below the counters' width;
\* what Snapshot shows of the WAN is never more than the WAN's own total.
THEOREM TotalsStayReal == TSpec => []TotalsAreReal
<1>1. StatsInv => TotalsAreReal
  <2> SUFFICES ASSUME StatsInv, NEW d \in Directions
               PROVE  /\ \A n \in Names : tracked[n].total[d] <= carried[n][d]
                      /\ WANCorrected(d) \in 0..tracked["WAN"].total[d]
    BY Zenon DEF TotalsAreReal
  <2>1. \A n \in Names : tracked[n].total[d] <= carried[n][d]
    BY Parts, Zenon DEF TotalInv
  <2>2. \A n \in Names : tracked[n].total[d] \in Nat
    BY Parts, ByteTypes, Zenon DEF Tracked
  <2> DEFINE g == [n \in VPNs |-> tracked[n].total[d]]
             Totals(f) == f = [s \in SUBSET VPNs |-> IF s = {} THEN 0
                                                     ELSE tracked[Pick(s)].total[d] + f[s \ {Pick(s)}]]
             it == CHOOSE f : Totals(f)
  <2>3. FoldSet(LAMBDA n, s : tracked[n].total[d] + s, 0, VPNs) = it[VPNs]
    BY DEF FoldSet, MapThenFoldSet, Pick
  <2>4. Adds(g, VPNs, it)
    <3>1. ASSUME NEW s \in SUBSET VPNs, s # {} PROVE g[Pick(s)] = tracked[Pick(s)].total[d]
      BY <3>1, PickIsIn
    <3> HIDE DEF g
    <3>2. ASSUME NEW f
          PROVE  [s \in SUBSET VPNs |-> IF s = {} THEN 0 ELSE g[Pick(s)] + f[s \ {Pick(s)}]]
               = [s \in SUBSET VPNs |-> IF s = {} THEN 0 ELSE tracked[Pick(s)].total[d] + f[s \ {Pick(s)}]]
      BY <3>1
    <3>3. \A f : Totals(f) <=> Adds(g, VPNs, f)
      BY <3>2, Zenon DEF Adds
    <3>4. \E f : Totals(f)
      BY <3>3, AddsExists, StatsAssumption, Zenon
    <3> HIDE DEF Totals
    <3>5. Totals(it)
      BY <3>4, Zenon
    <3> QED
      BY <3>3, <3>5, Zenon
  <2>5. \A n \in VPNs : g[n] \in Nat
    BY <2>2 DEF Names
  <2> HIDE DEF it, g
  <2>6. it[VPNs] \in Nat
    BY <2>4, <2>5, AddsBounds, StatsAssumption, Zenon
  <2>7. PICK v \in Nat, w \in Nat : v = it[VPNs] /\ w = tracked["WAN"].total[d]
    BY <2>2, <2>6, Zenon DEF Names
  <2>8. Corrected(w, v) \in 0..w
    BY DEF Corrected
  <2>9. WANCorrected(d) \in 0..tracked["WAN"].total[d]
    BY <2>3, <2>7, <2>8, Zenon DEF WANCorrected
  <2> QED
    BY <2>1, <2>9, Zenon
<1> QED
  BY <1>1, StatsHolds, PTL

\* A rate is at most the traffic of its interval, and a total goes back only
\* with its counter, its interface or its profile, or when the server was killed.
THEOREM CountsAlwaysGoOn == TSpec => CountsGoOn
<1> DEFINE A == \A n \in Names : \A d \in Directions :
                    /\ polled' # polled => tracked'[n].rate[d] <= carried[n][d] - polled[n][d]
                    /\ tracked'[n].total[d] < tracked[n].total[d] /\ tracked'[n].on
                        => \/ restarted[n] \/ restarted'[n]
                           \/ stored' = stored /\ resets' # resets
<1>1. ASSUME StatsInv, TNext PROVE A
  <2>1. ASSUME NEW n \in Names, NEW d \in Directions PROVE tracked[n].total[d] \in Nat
    BY <1>1, Parts, ByteTypes, Zenon DEF Tracked
  <2>2. ASSUME NEW x \in Nat, NEW y \in Nat PROVE ~(x < x) /\ (x <= y => ~(y < x)) /\ x + 1 # x
    BY <2>2
  <2>3. resets \in Nat
    BY <1>1, Zenon DEF StatsInv, StatsTypes
  <2>4. CASE UNCHANGED tracked /\ UNCHANGED polled
    BY <2>1, <2>2, <2>4, Zenon
  <2>5. CASE stored' = stored /\ resets' = resets + 1 /\ UNCHANGED polled
    BY <2>2, <2>3, <2>5, Zenon
  <2>6. ASSUME Poll PROVE A
    <3>1. ASSUME NEW n \in Names
          PROVE  /\ tracked'[n] \in Tracked
                 /\ \A d \in Directions : tracked'[n].rate[d] <= carried[n][d] - polled[n][d]
                 /\ restarted[n] \/ \A d \in Directions : tracked[n].total[d] <= tracked'[n].total[d]
      BY <1>1, <2>6, PolledKeeps, Zenon
    <3>2. ASSUME NEW n \in Names, NEW d \in Directions PROVE tracked'[n].total[d] \in Nat
      BY <3>1, ByteTypes, Zenon DEF Tracked
    <3> QED
      BY <2>1, <2>2, <3>1, <3>2, Zenon
  <2>7. ASSUME NEW vpns \in SUBSET VPNs, NEW clean \in BOOLEAN, NEW reboot \in BOOLEAN, Restart(clean, reboot, vpns)
        PROVE  A
    <3>1. UNCHANGED polled
      BY <2>7, Zenon DEF Restart
    <3>2. ASSUME NEW n \in Names, ~restarted'[n], tracked'[n].on PROVE tracked'[n].total = tracked[n].total
      <4>1. clean /\ stored'[n] = tracked[n].points /\ tracked'[n] = Loaded(n, vpns)
        BY <2>7, <3>2, Zenon DEF Restart, Persist
      <4>2. /\ tracked[n].total = (IF tracked[n].points = <<>> THEN Zero ELSE LastRow(tracked[n].points))
        BY <1>1, Parts, Zenon DEF TotalInv
      <4>3. n \in vpns \cup {"WAN"}
        BY <3>2, <4>1, RecordTypes, Zenon DEF Loaded
      <4>4. tracked'[n] = IF tracked[n].points = <<>> THEN Fresh ELSE WithHistory(tracked[n].points)
        BY <4>1, <4>3, Zenon DEF Loaded
      <4>5. ASSUME NEW rows PROVE WithHistory(rows).total = LastRow(rows)
        BY Zenon DEF WithHistory, LastRow
      <4> QED
        BY <4>2, <4>4, <4>5, RecordTypes, Zenon
    <3> QED
      BY <2>1, <2>2, <3>1, <3>2, Zenon
  <2>8. ASSUME NEW n \in Names, TunnelDown(n) \/ TunnelUp(n) \/ ChangeInterface(n) PROVE A
    BY <2>4, <2>5, <2>8, Zenon DEF TunnelDown, TunnelUp, ChangeInterface
  <2>9. ASSUME NEW n \in Names, NEW d \in Directions, Traffic(n, d) PROVE A
    BY <2>4, <2>9, Zenon DEF Traffic
  <2>10. ASSUME NEW vpns \in SUBSET VPNs, Configure(vpns) PROVE A
    BY <2>5, <2>10, Zenon DEF Configure
  <2> HIDE DEF A
  <2> QED
    BY <1>1, <2>6, <2>7, <2>8, <2>9, <2>10, Zenon DEF TNext
<1>2. StatsInv /\ [TNext]_statsVars => [A]_statsVars
  BY <1>1, Zenon
<1> QED
  BY <1>2, StatsHolds, PTL DEF TSpec, CountsGoOn

-----------------------------------------------------------------------------
\* FlowInspector.  The rows of a session, the samples of a request and the
\* entries of conntrack are counters of flows.
Row(r) == r.last \in Nat /\ r.total \in Nat /\ r.seen \in Nat
Session(s) ==
    /\ s = [vpn |-> s.vpn, touched |-> s.touched, total |-> s.total, rows |-> s.rows, base |-> s.base,
            muddled |-> s.muddled]
    /\ s.touched \in Nat /\ DOMAIN s.rows \subseteq Flows /\ \A f \in DOMAIN s.rows : Row(s.rows[f])
Samples(c) == DOMAIN c \subseteq Flows /\ \A f \in DOMAIN c : c[f] \in Nat
Request(q) ==
    q = [id |-> q.id, vpn |-> q.vpn, late |-> q.late, passed |-> q.passed, samples |-> q.samples] /\ Samples(q.samples)

IsSeq(s) == \E S : s \in Seq(S)

\* The ids of sessions are the numbers given so far, so a new session replaces
\* none.
FlowInv ==
    /\ clock \in Nat /\ opened \in Nat /\ DOMAIN sessions \subseteq 1..opened
    /\ Samples(conntrack) /\ \A id \in DOMAIN sessions : Session(sessions[id])
    /\ Len(polls) \in Nat /\ DOMAIN polls = 1..Len(polls) /\ \A i \in DOMAIN polls : Request(polls[i])
    /\ IsSeq(polls)

LEMMA SampledKeeps ==
    ASSUME clock \in Nat, NEW bytes \in Nat
    PROVE  /\ Row(Sampled({}, bytes))
           /\ \A r : Row(r) => Row(Sampled({r}, bytes)) /\ Sampled({r}, bytes).total >= r.total
<1>1. Row(Sampled({}, bytes))
  BY DEF Row, Sampled
<1>2. ASSUME NEW r, Row(r) PROVE Row(Sampled({r}, bytes)) /\ Sampled({r}, bytes).total >= r.total
  <2>1. {r} # {} /\ (CHOOSE x \in {r} : TRUE) = r
    OBVIOUS
  <2>2. Sampled({r}, bytes) = [last |-> bytes, seen |-> clock, total |-> r.total + monotonicDelta(bytes, r.last)]
    BY <2>1, Zenon DEF Sampled
  <2>3. monotonicDelta(bytes, r.last) \in Nat
    BY <1>2 DEF monotonicDelta, Row
  <2>4. r.total + monotonicDelta(bytes, r.last) \in Nat /\ r.total + monotonicDelta(bytes, r.last) >= r.total
    BY <1>2, <2>3 DEF Row
  <2>5. /\ Sampled({r}, bytes).last = bytes /\ Sampled({r}, bytes).seen = clock
        /\ Sampled({r}, bytes).total = r.total + monotonicDelta(bytes, r.last)
    BY <2>2
  <2> QED
    BY <2>4, <2>5 DEF Row
<1> QED
  BY <1>1, <1>2, Zenon

\* updateAndSnapshot, on the rows of a session.
LEMMA UpdatedKeeps ==
    ASSUME clock \in Nat, NEW s, Session(s), NEW q, Request(q), NEW u, u = Updated(s, q)
    PROVE  /\ Session(u) /\ u.vpn = s.vpn
           /\ \A f \in DOMAIN s.rows : IF f \in DOMAIN u.rows THEN u.rows[f].total >= s.rows[f].total
                                       ELSE clock - s.rows[f].seen > IdleRetention
<1> DEFINE all == [f \in DOMAIN s.rows \cup DOMAIN q.samples |->
                     IF f \in DOMAIN q.samples
                     THEN Sampled(IF f \in DOMAIN s.rows THEN {s.rows[f]} ELSE {}, q.samples[f])
                     ELSE s.rows[f]]
           rows == [f \in Kept(all, q.samples) |-> all[f]]
           added == MapThenSumSet(LAMBDA f : all[f].total - s.rows[f].total, DOMAIN s.rows)
<1>1. u = [s EXCEPT !.touched = clock, !.total = @ + added, !.muddled = @ \/ q.late, !.rows = rows]
  BY Zenon DEF Updated
<1>2. /\ \A f \in DOMAIN s.rows : Row(s.rows[f])
      /\ \A f \in DOMAIN q.samples : q.samples[f] \in Nat
      /\ DOMAIN s.rows \subseteq Flows /\ DOMAIN q.samples \subseteq Flows
  BY Zenon DEF Session, Request, Samples
<1>3. DOMAIN all = DOMAIN s.rows \cup DOMAIN q.samples
  BY Zenon
<1>4. ASSUME NEW f \in DOMAIN all
      PROVE  Row(all[f]) /\ (f \in DOMAIN s.rows => all[f].total >= s.rows[f].total)
  <2>1. CASE f \in DOMAIN q.samples /\ f \in DOMAIN s.rows
    <3>1. all[f] = Sampled({s.rows[f]}, q.samples[f])
      BY <2>1, Zenon
    <3> HIDE DEF all
    <3> QED
      BY <1>2, <2>1, <3>1, SampledKeeps, Zenon
  <2>2. CASE f \in DOMAIN q.samples /\ f \notin DOMAIN s.rows
    <3>1. all[f] = Sampled({}, q.samples[f])
      BY <2>2, Zenon
    <3> HIDE DEF all
    <3> QED
      BY <1>2, <2>2, <3>1, SampledKeeps, Zenon
  <2>3. CASE f \notin DOMAIN q.samples
    <3>1. f \in DOMAIN s.rows /\ all[f] = s.rows[f]
      BY <1>3, <2>3, Zenon
    <3>2. ASSUME NEW x \in Nat PROVE x >= x
      OBVIOUS
    <3> HIDE DEF all
    <3> QED
      BY <1>2, <3>1, <3>2, Zenon DEF Row
  <2> QED
    BY <2>1, <2>2, <2>3, Zenon
<1>5. \A f \in DOMAIN s.rows \ DOMAIN q.samples : all[f] = s.rows[f]
  BY Zenon
<1> HIDE DEF all, added
<1>6. /\ DOMAIN rows \subseteq DOMAIN all /\ \A f \in DOMAIN rows : rows[f] = all[f]
      /\ \A f \in DOMAIN all \ DOMAIN rows : f \notin DOMAIN q.samples /\ ~(clock - all[f].seen <= IdleRetention)
  BY Zenon DEF Kept
<1> HIDE DEF rows
<1>7. /\ u = [vpn |-> u.vpn, touched |-> u.touched, total |-> u.total, rows |-> u.rows, base |-> u.base,
              muddled |-> u.muddled]
      /\ u.vpn = s.vpn /\ u.rows = rows /\ u.touched = clock
  <2>1. s = [vpn |-> s.vpn, touched |-> s.touched, total |-> s.total, rows |-> s.rows, base |-> s.base,
             muddled |-> s.muddled]
    BY Zenon DEF Session
  <2> QED
    BY <1>1, <2>1, Zenon
<1>8. Session(u)
  BY <1>2, <1>3, <1>4, <1>6, <1>7, Zenon DEF Session
<1>9. ASSUME NEW f \in DOMAIN s.rows
      PROVE  IF f \in DOMAIN u.rows THEN u.rows[f].total >= s.rows[f].total
             ELSE clock - s.rows[f].seen > IdleRetention
  <2>1. CASE f \in DOMAIN u.rows
    BY <1>3, <1>4, <1>6, <1>7, <2>1, Zenon
  <2>2. CASE f \notin DOMAIN u.rows
    <3>1. ~(clock - s.rows[f].seen <= IdleRetention)
      BY <1>3, <1>5, <1>6, <1>7, <2>2, Zenon
    <3>2. s.rows[f].seen \in Nat
      BY <1>2, Zenon DEF Row
    <3> QED
      BY <2>2, <3>1, <3>2, FlowAssumption
  <2> QED
    BY <2>1, <2>2, Zenon
<1> QED
  BY <1>7, <1>8, <1>9, Zenon

LEMMA RestKeeps ==
    ASSUME FlowInv, NEW i \in DOMAIN polls
    PROVE  /\ Len(Rest(i)) \in Nat /\ DOMAIN Rest(i) = 1..Len(Rest(i)) /\ IsSeq(Rest(i))
           /\ \A j \in DOMAIN Rest(i) : Request(Rest(i)[j])
<1>1. /\ Len(polls) \in Nat /\ i \in 1..Len(polls) /\ Len(polls) - 1 \in Nat
  BY DEF FlowInv
<1>2. DOMAIN Rest(i) = 1..(Len(polls) - 1)
  BY Zenon DEF Rest
<1>3. Len(Rest(i)) = Len(polls) - 1 /\ IsSeq(Rest(i))
  <2>1. Rest(i) \in Seq({Rest(i)[j] : j \in 1..(Len(polls) - 1)})
    BY <1>1, <1>2 DEF Rest
  <2>2. Len(Rest(i)) = Len(polls) - 1
    BY <1>1, <1>2, <2>1
  <2> QED
    BY <2>1, <2>2, Zenon DEF IsSeq
<1>4. ASSUME NEW j \in 1..(Len(polls) - 1) PROVE Request(Rest(i)[j])
  <2>1. j \in DOMAIN polls /\ j + 1 \in DOMAIN polls
    BY <1>1 DEF FlowInv
  <2>2. Request(polls[j]) /\ Request(polls[j + 1])
    BY <2>1, Zenon DEF FlowInv
  <2>3. CASE j < i
    <3>1. Rest(i)[j] = [polls[j] EXCEPT !.late = @ \/ polls[j].id = polls[i].id]
      BY <2>3, Zenon DEF Rest
    <3>2. ASSUME NEW q, NEW u, NEW l, q = [id |-> q.id, vpn |-> q.vpn, late |-> q.late, passed |-> q.passed,
                                           samples |-> q.samples], u = [q EXCEPT !.late = l]
          PROVE  /\ u = [id |-> u.id, vpn |-> u.vpn, late |-> u.late, passed |-> u.passed, samples |-> u.samples]
                 /\ u.samples = q.samples
      BY <3>2
    <3> QED
      BY <2>2, <3>1, <3>2, Zenon DEF Request
  <2>4. CASE ~(j < i)
    <3>1. Rest(i)[j] = polls[j + 1]
      BY <2>4, Zenon DEF Rest
    <3> QED
      BY <2>2, <3>1, Zenon
  <2> QED
    BY <2>3, <2>4, Zenon
<1> QED
  BY <1>1, <1>2, <1>3, <1>4, Zenon

\* What a step keeps of the sessions, in the words of HistoryIsKept.
Keeps(id) ==
    IF id \in DOMAIN sessions'
    THEN \A f \in DOMAIN sessions[id].rows :
           IF f \in DOMAIN sessions'[id].rows
           THEN sessions'[id].rows[f].total >= sessions[id].rows[f].total
           ELSE clock - sessions[id].rows[f].seen > IdleRetention
    ELSE clock - sessions[id].touched > SessionTTL \/ \E v \in FlowVPNs : StopSession(id, v)

LEMMA SameSession ==
    ASSUME FlowInv, NEW id \in DOMAIN sessions, id \in DOMAIN sessions', sessions'[id] = sessions[id]
    PROVE  Keeps(id)
<1>1. \A f \in DOMAIN sessions[id].rows : sessions[id].rows[f].total \in Nat
  BY Zenon DEF FlowInv, Session, Row
<1>2. ASSUME NEW x \in Nat PROVE x >= x
  OBVIOUS
<1> QED
  BY <1>1, <1>2, Zenon DEF Keeps

LEMMA ExpiredSession ==
    ASSUME FlowInv, NEW id \in DOMAIN sessions, id \notin DOMAIN cleanupExpiredSessions(sessions)
    PROVE  clock - sessions[id].touched > SessionTTL
<1>1. ~(clock - sessions[id].touched <= SessionTTL)
  BY Zenon DEF cleanupExpiredSessions
<1>2. sessions[id].touched \in Nat /\ clock \in Nat
  BY Zenon DEF FlowInv, Session
<1> QED
  BY <1>1, <1>2, FlowAssumption

LEMMA StartSessionKeeps ==
    ASSUME FlowInv, NEW i \in DOMAIN polls, StartSession(i)
    PROVE  FlowInv' /\ \A id \in DOMAIN sessions : Keeps(id)
<1> DEFINE new == [vpn |-> polls[i].vpn, touched |-> clock, total |-> 0, rows |-> <<>>,
                   base |-> polls[i].passed, muddled |-> FALSE]
           left == DOMAIN cleanupExpiredSessions(sessions)
           u == Updated(new, polls[i])
<1>1. /\ opened' = opened + 1 /\ polls' = Rest(i) /\ UNCHANGED <<clock, conntrack, passed>>
      /\ sessions' = [id \in left \cup {opened + 1} |-> IF id = opened + 1 THEN u ELSE sessions[id]]
  BY Zenon DEF StartSession
<1>2. clock \in Nat /\ opened \in Nat /\ DOMAIN sessions \subseteq 1..opened /\ Request(polls[i])
  BY Zenon DEF FlowInv
<1>3. left \subseteq DOMAIN sessions
  BY Zenon DEF cleanupExpiredSessions
<1>4. opened + 1 \notin DOMAIN sessions /\ opened + 1 \in Nat /\ 1..opened \subseteq 1..(opened + 1) /\ opened + 1 \in 1..(opened + 1)
  BY <1>2
<1>5. Session(new)
  <2>1. /\ new.rows = <<>> /\ DOMAIN (<<>>) = {} /\ new.touched = clock
        /\ new = [vpn |-> new.vpn, touched |-> new.touched, total |-> new.total, rows |-> new.rows,
                  base |-> new.base, muddled |-> new.muddled]
    OBVIOUS
  <2> HIDE DEF new
  <2> QED
    BY <1>2, <2>1, Zenon DEF Session
<1> HIDE DEF new
<1>6. Session(u)
  BY <1>2, <1>5, UpdatedKeeps, Zenon
<1> HIDE DEF u, left
<1>7. /\ DOMAIN sessions' = left \cup {opened + 1} /\ sessions'[opened + 1] = u
      /\ \A id \in left : sessions'[id] = sessions[id]
  BY <1>1, <1>3, <1>4, Zenon
<1>8. DOMAIN sessions' \subseteq 1..opened'
  BY <1>1, <1>2, <1>3, <1>4, <1>7, Zenon
<1>9. \A id \in DOMAIN sessions' : Session(sessions'[id])
  BY <1>3, <1>6, <1>7, Zenon DEF FlowInv
<1>10. /\ Len(polls') \in Nat /\ DOMAIN polls' = 1..Len(polls') /\ IsSeq(polls') /\ \A j \in DOMAIN polls' : Request(polls'[j])
  BY <1>1, RestKeeps, Zenon
<1>11. ASSUME NEW id \in DOMAIN sessions PROVE Keeps(id)
  <2>1. CASE id \in left
    BY <1>7, <2>1, SameSession, Zenon
  <2>2. CASE id \notin left
    <3>1. id \notin DOMAIN sessions'
      BY <1>4, <1>7, <2>2, Zenon
    <3> QED
      BY <2>2, <3>1, ExpiredSession, Zenon DEF Keeps, left
  <2> QED
    BY <2>1, <2>2, Zenon
<1>12. FlowInv'
  BY <1>1, <1>4, <1>8, <1>9, <1>10, Zenon DEF FlowInv
<1> QED
  BY <1>11, <1>12, Zenon

LEMMA PollSessionKeeps ==
    ASSUME FlowInv, NEW i \in DOMAIN polls, PollSession(i)
    PROVE  FlowInv' /\ \A id \in DOMAIN sessions : Keeps(id)
<1> DEFINE left == cleanupExpiredSessions(sessions)
           id0 == polls[i].id
           u == Updated(sessions[id0], polls[i])
<1>1. /\ polls' = Rest(i) /\ UNCHANGED <<clock, conntrack, opened, passed>>
      /\ sessions' = IF id0 \in DOMAIN left /\ left[id0].vpn = polls[i].vpn
                     THEN [left EXCEPT ![id0] = Updated(left[id0], polls[i])] ELSE left
  BY Zenon DEF PollSession
<1>2. clock \in Nat /\ DOMAIN sessions \subseteq 1..opened /\ Request(polls[i])
  BY Zenon DEF FlowInv
<1>3. /\ DOMAIN left \subseteq DOMAIN sessions /\ \A id \in DOMAIN left : left[id] = sessions[id]
  BY Zenon DEF cleanupExpiredSessions
<1>4. id0 \in DOMAIN sessions =>
        /\ Session(u)
        /\ \A f \in DOMAIN sessions[id0].rows :
             IF f \in DOMAIN u.rows THEN u.rows[f].total >= sessions[id0].rows[f].total
             ELSE clock - sessions[id0].rows[f].seen > IdleRetention
  <2> SUFFICES ASSUME id0 \in DOMAIN sessions
               PROVE  /\ Session(u)
                      /\ \A f \in DOMAIN sessions[id0].rows :
                            IF f \in DOMAIN u.rows THEN u.rows[f].total >= sessions[id0].rows[f].total
                            ELSE clock - sessions[id0].rows[f].seen > IdleRetention
    BY Zenon
  <2>1. Session(sessions[id0])
    BY Zenon DEF FlowInv
  <2> QED
    BY <1>2, <2>1, UpdatedKeeps, Zenon
<1>5. /\ DOMAIN sessions' = DOMAIN left
      /\ \A id \in DOMAIN left : sessions'[id] = sessions[id] \/ (id = id0 /\ sessions'[id] = u)
  <2>1. CASE id0 \in DOMAIN left /\ left[id0].vpn = polls[i].vpn
    <3>1. sessions' = [left EXCEPT ![id0] = u]
      BY <1>1, <1>3, <2>1, Zenon
    <3> HIDE DEF u, left
    <3> QED
      BY <1>3, <2>1, <3>1, Zenon
  <2>2. CASE ~(id0 \in DOMAIN left /\ left[id0].vpn = polls[i].vpn)
    <3>1. sessions' = left
      BY <1>1, <2>2, Zenon
    <3> HIDE DEF left
    <3> QED
      BY <1>3, <3>1, Zenon
  <2> QED
    BY <2>1, <2>2, Zenon
<1> HIDE DEF u
<1>6. DOMAIN sessions' \subseteq 1..opened /\ \A id \in DOMAIN sessions' : Session(sessions'[id])
  BY <1>2, <1>3, <1>4, <1>5, Zenon DEF FlowInv
<1>7. /\ Len(polls') \in Nat /\ DOMAIN polls' = 1..Len(polls') /\ IsSeq(polls') /\ \A j \in DOMAIN polls' : Request(polls'[j])
  BY <1>1, RestKeeps, Zenon
<1>8. ASSUME NEW id \in DOMAIN sessions PROVE Keeps(id)
  <2>1. CASE id \in DOMAIN left /\ sessions'[id] = sessions[id]
    BY <1>5, <2>1, SameSession, Zenon
  <2>2. CASE id \in DOMAIN left /\ id = id0 /\ sessions'[id] = u
    BY <1>4, <1>5, <2>2, Zenon DEF Keeps
  <2>3. CASE id \notin DOMAIN left
    BY <1>5, <2>3, ExpiredSession, Zenon DEF Keeps
  <2> QED
    BY <1>5, <2>1, <2>2, <2>3, Zenon
<1>9. FlowInv'
  BY <1>1, <1>6, <1>7, Zenon DEF FlowInv
<1> QED
  BY <1>8, <1>9, Zenon

\* The steps that leave the sessions alone, and StopSession.
LEMMA OtherStepsKeep ==
    ASSUME FlowInv,
           \/ Time \/ \E f \in Flows : FlowTraffic(f) \/ FlowEnds(f)
           \/ \E id \in 0..MaxSessions, v \in FlowVPNs, m \in SUBSET DOMAIN conntrack : Collect(id, v, m)
           \/ \E id \in 1..MaxSessions, v \in FlowVPNs : StopSession(id, v)
    PROVE  FlowInv' /\ \A id \in DOMAIN sessions : Keeps(id)
<1>1. ASSUME UNCHANGED sessions PROVE \A id \in DOMAIN sessions : Keeps(id)
  BY <1>1, SameSession, Zenon
<1>2. ASSUME Time PROVE FlowInv' /\ UNCHANGED sessions
  <2>1. clock' \in Nat
    BY <1>2 DEF Time, FlowInv
  <2> QED
    BY <1>2, <2>1, Zenon DEF Time, FlowInv
<1>3. ASSUME NEW f \in Flows, FlowTraffic(f) PROVE FlowInv' /\ UNCHANGED sessions
  <2>1. Samples(conntrack')
    <3>1. DOMAIN conntrack' = DOMAIN conntrack \cup {f} /\ Samples(conntrack)
      BY <1>3, Zenon DEF FlowTraffic, FlowInv
    <3>2. ASSUME NEW g \in DOMAIN conntrack' PROVE conntrack'[g] \in Nat
      <4>1. conntrack'[g] = (IF g \in DOMAIN conntrack THEN conntrack[g] ELSE 0) + (IF g = f THEN 1 ELSE 0)
        BY <1>3, <3>1, Zenon DEF FlowTraffic
      <4>2. (IF g \in DOMAIN conntrack THEN conntrack[g] ELSE 0) \in Nat
        BY <3>1 DEF Samples
      <4> QED
        BY <4>1, <4>2
    <3> QED
      BY <3>1, <3>2, Zenon DEF Samples
  <2> QED
    BY <1>3, <2>1, Zenon DEF FlowTraffic, FlowInv
<1>4. ASSUME NEW f \in Flows, FlowEnds(f) PROVE FlowInv' /\ UNCHANGED sessions
  <2>1. Samples(conntrack')
    BY <1>4, Zenon DEF FlowEnds, FlowInv, Samples
  <2> QED
    BY <1>4, <2>1, Zenon DEF FlowEnds, FlowInv
<1>5. ASSUME NEW id \in 0..MaxSessions, NEW v \in FlowVPNs, NEW m \in SUBSET DOMAIN conntrack, Collect(id, v, m)
      PROVE  FlowInv' /\ UNCHANGED sessions
  <2> DEFINE q == [id |-> id, vpn |-> v, late |-> FALSE, passed |-> passed, samples |-> [f \in m |-> conntrack[f]]]
  <2>1. polls' = Append(polls, q) /\ UNCHANGED <<clock, conntrack, sessions, opened, passed>>
    BY <1>5, Zenon DEF Collect
  <2>2. Request(q)
    <3>1. Samples([f \in m |-> conntrack[f]])
      BY Zenon DEF FlowInv, Samples
    <3> QED
      BY <3>1, Zenon DEF Request
  <2> HIDE DEF q
  <2>3. /\ Len(polls') = Len(polls) + 1 /\ DOMAIN polls' = 1..(Len(polls) + 1) /\ Len(polls) \in Nat
        /\ polls'[Len(polls) + 1] = q /\ \A i \in 1..Len(polls) : polls'[i] = polls[i]
    <3>1. PICK S : polls \in Seq(S)
      BY Zenon DEF FlowInv, IsSeq
    <3>2. polls \in Seq(S \cup {q}) /\ q \in S \cup {q}
      BY <3>1
    <3> QED
      BY <2>1, <3>2
  <2>4. IsSeq(polls')
    <3>1. PICK S : polls \in Seq(S)
      BY Zenon DEF FlowInv, IsSeq
    <3>2. Append(polls, q) \in Seq(S \cup {q})
      BY <3>1
    <3> QED
      BY <2>1, <3>2, Zenon DEF IsSeq
  <2>5. /\ Len(polls') \in Nat /\ DOMAIN polls' = 1..Len(polls') /\ \A i \in DOMAIN polls' : Request(polls'[i])
    BY <2>2, <2>3 DEF FlowInv
  <2> QED
    BY <2>1, <2>5, <2>4, Zenon DEF FlowInv
<1>6. ASSUME NEW id \in 1..MaxSessions, NEW v \in FlowVPNs, StopSession(id, v)
      PROVE  FlowInv' /\ \A i \in DOMAIN sessions : Keeps(i)
  <2>1. /\ DOMAIN sessions' = DOMAIN sessions \ {id} /\ \A i \in DOMAIN sessions' : sessions'[i] = sessions[i]
        /\ UNCHANGED <<clock, conntrack, polls, opened, passed>>
    BY <1>6, Zenon DEF StopSession
  <2>2. FlowInv'
    BY <2>1, Zenon DEF FlowInv
  <2>3. ASSUME NEW i \in DOMAIN sessions PROVE Keeps(i)
    <3>1. CASE i = id
      BY <1>6, <2>1, <3>1, Zenon DEF Keeps
    <3>2. CASE i # id
      BY <2>1, <3>2, SameSession, Zenon
    <3> QED
      BY <3>1, <3>2, Zenon
  <2> QED
    BY <2>2, <2>3, Zenon
<1> QED
  BY <1>1, <1>2, <1>3, <1>4, <1>5, <1>6, Zenon

LEMMA FlowNext == ASSUME FlowInv, FNext PROVE FlowInv' /\ \A id \in DOMAIN sessions : Keeps(id)
  BY StartSessionKeeps, PollSessionKeeps, OtherStepsKeep, Zenon DEF FNext

LEMMA FlowHolds == FSpec => []FlowInv
<1>1. FInit => FlowInv
  <2> SUFFICES ASSUME FInit PROVE FlowInv
    OBVIOUS
  <2>1. /\ DOMAIN sessions = {} /\ DOMAIN conntrack = {} /\ DOMAIN polls = {} /\ Len(polls) = 0 /\ 1..0 = {}
        /\ clock = 0 /\ opened = 0 /\ 0 \in Nat /\ polls \in Seq({})
    BY DEF FInit
  <2> QED
    BY <2>1, Zenon DEF FlowInv, Samples, IsSeq
<1>2. FlowInv /\ [FNext]_flowVars => FlowInv'
  <2>1. ASSUME FlowInv, UNCHANGED flowVars PROVE FlowInv'
    BY <2>1, Zenon DEF FlowInv, flowVars
  <2> QED
    BY <2>1, FlowNext, Zenon
<1> QED
  BY <1>1, <1>2, PTL DEF FSpec

\* Starting, polling and cleaning up sessions lose none that is in use, and an
\* update loses no row within the retention and nothing that was counted in
\* one, for any number of sessions, flows and requests applied in any order.
THEOREM HistoryAlwaysKept == FSpec => HistoryIsKept
<1>1. FlowInv /\ [FNext]_flowVars => [\A id \in DOMAIN sessions : Keeps(id)]_flowVars
  BY FlowNext, Zenon
<1> QED
  BY <1>1, FlowHolds, PTL DEF FSpec, HistoryIsKept, Keeps
=============================================================================
