---------------------------- MODULE QueueProofs ----------------------------
(***************************************************************************)
(* Proofs about the queues on which the processes of the kernel rely: that *)
(* of their timers, that of themselves, from which their pids come, that   *)
(* of those who may run, and that of the keys they read.                   *)
(*                                                                         *)
(* TimerList: the list of differences keeps the promise of Alarm, for any  *)
(* sleepers and any times.  Everything is said of the sums of a list, the  *)
(* ticks until each of its timers rings.  Inductions over a list are by    *)
(* the least place at which a sum would be wrong.                          *)
(*                                                                         *)
(* PidAlloc, for every MAX_PID and MAX_PROCESS: no two processes have the  *)
(* same pid, and get_pid keeps the promise of FreshPids.  The inductive    *)
(* invariant says what the scan knows: the pids it has seen are outside of *)
(* [last_pid, next_safe), and every pid it has skipped since the last one  *)
(* that was given is in use.                                               *)
(*                                                                         *)
(* Stride, for any number of processes, any BIG_STRIDE and any priorities  *)
(* up to it: the skew heap stays a heap of the queued processes, its root  *)
(* is the least of strides that can be compared, and while nobody sleeps   *)
(* the scheduler implements StridePolicy, whose order of strides never     *)
(* overflows.  A heap is described by its pointers alone: children and     *)
(* parents fit, whoever is above may be there, and some numbers, the       *)
(* ranks, grow along the pointers.  A merge is followed call by call: who  *)
(* has come to the top is numbered by its call, and no pointer from the    *)
(* rest leads there.                                                       *)
(*                                                                         *)
(* Stdin, for any number of readers and any size of the ring: a reader     *)
(* sleeps in the device only, after it joined the wait queue, and is in    *)
(* that queue for as long as it sleeps.  So the key that makes the ring    *)
(* non-empty wakes it, wherever between the queue and schedule() it is;    *)
(* and since interrupts are disabled from the look at the ring until it is *)
(* in the queue, no key can come earlier.  The keys in the ring are at     *)
(* different places of it, so that a key never overwrites another one than *)
(* the oldest, and that only in a full ring.                               *)
(***************************************************************************)
EXTENDS TimerList, PidAlloc, Stride, Stdin, SchedProofs, FiniteSetTheorems,
        SequenceTheorems, WellFoundedInduction

(* No process has two timers, all of them sleep, and all timers ring       *)
(* within the longest time.                                                *)
ProcsOK ==
  /\ \A i, j \in DOMAIN timerList : timerList[i].proc = timerList[j].proc => i = j
  /\ \A i \in DOMAIN timerList : timerList[i].proc \in inSleep

SumsOK == \A i \in 0 .. Len(timerList) : Sums(timerList)[i] <= MaxTicks

TimerInv ==
  /\ TimerTypeOK
  /\ HeadNotDue
  /\ ProcsOK
  /\ SumsOK

-----------------------------------------------------------------------------
(* A set of numbers has a least one.                                       *)
LEMMA NumbersWellFounded ==
  \E R : IsWellFoundedOn(R, Nat) /\ \A k, m \in Nat : <<k, m>> \in R <=> k < m
<1>1. \A k, m \in Nat : <<k, m>> \in OpToRel(<, Nat) <=> k < m
  BY DEF OpToRel
<1> QED BY <1>1, NatLessThanWellFounded, Zenon

LEMMA Least ==
  ASSUME NEW T, T \subseteq Nat, T # {}
  PROVE  \E m \in T : \A k \in T : m <= k
<1>1. PICK R : IsWellFoundedOn(R, Nat) /\ \A k, m \in Nat : <<k, m>> \in R <=> k < m
  BY NumbersWellFounded
<1>2. IsWellFoundedOn(R, Nat)
  BY <1>1
<1>3. \E m \in T : \A k \in T : ~ (<<k, m>> \in R)
  BY <1>2, WFMin, Zenon
<1>4. PICK m \in T : \A k \in T : ~ (<<k, m>> \in R)
  BY <1>3
<1>5. ASSUME NEW k \in T PROVE m <= k
  <2>1. k \in Nat /\ m \in Nat
    OBVIOUS
  <2>2. ~(k < m)
    BY <1>1, <1>4, <2>1
  <2> QED BY <2>1, <2>2
<1> QED BY <1>5

(* The recursion defines the sums of a list: there is a function that      *)
(* satisfies it.                                                           *)
LEMMA SumsDefined ==
  ASSUME NEW list, Len(list) \in Nat
  PROVE  Sums(list) = [i \in 0 .. Len(list) |->
           IF i = 0 THEN 0 ELSE Sums(list)[i - 1] + list[i].expires]
<1> DEFINE Step(f, i) == IF i = 0 THEN 0 ELSE f[i - 1] + list[i].expires
           Defined(m) == \E f : f = [i \in 0 .. m |-> Step(f, i)]
           T == {m \in Nat : ~Defined(m)}
<1>1. T = {}
  <2> SUFFICES ASSUME T # {} PROVE FALSE
    OBVIOUS
  <2>1. PICK m \in T : \A k \in T : m <= k
    BY Least
  <2>2. CASE m = 0
    <3> DEFINE g == [i \in 0 .. m |-> 0]
    <3>1. g = [i \in 0 .. m |-> Step(g, i)]
      BY <2>2
    <3> QED BY <2>1, <3>1
  <2>3. CASE m # 0
    <3>1. m - 1 \in Nat /\ m - 1 \notin T
      <4>1. m \in Nat /\ T \subseteq Nat
        OBVIOUS
      <4> HIDE DEF T
      <4> QED BY <2>1, <2>3, <4>1
    <3>2. PICK f : f = [i \in 0 .. m - 1 |-> Step(f, i)]
      BY <3>1
    <3> DEFINE g == [i \in 0 .. m |-> IF i < m THEN f[i] ELSE Step(f, m)]
    <3>3. ASSUME NEW i \in 0 .. m PROVE g[i] = Step(g, i)
      <4>1. CASE i < m
        <5>1. i \in 0 .. m - 1 /\ g[i] = f[i] /\ f[i] = Step(f, i)
          BY <3>1, <3>2, <4>1
        <5>2. i # 0 => i - 1 \in 0 .. m /\ i - 1 < m /\ g[i - 1] = f[i - 1]
          BY <3>1, <4>1
        <5> QED BY <5>1, <5>2
      <4>2. CASE ~(i < m)
        <5>1. i = m /\ i - 1 \in 0 .. m /\ i - 1 < m
          BY <3>1, <4>2, <2>3
        <5>2. g[i - 1] = f[i - 1] /\ g[i] = Step(f, i)
          BY <5>1
        <5> QED BY <5>1, <5>2
      <4> QED BY <4>1, <4>2
    <3>4. g = [i \in 0 .. m |-> Step(g, i)]
      BY <3>3
    <3> QED BY <2>1, <3>4
  <2> QED BY <2>2, <2>3
<1>2. \E f : f = [i \in 0 .. Len(list) |-> Step(f, i)]
  BY <1>1
<1> QED BY <1>2 DEF Sums

(* The sums begin with 0, are numbers, and each is as far from the last    *)
(* as the list says.                                                       *)
LEMMA SumsStep ==
  ASSUME NEW list, Len(list) \in Nat
  PROVE  /\ Sums(list)[0] = 0
         /\ \A i \in 1 .. Len(list) : Sums(list)[i] = Sums(list)[i - 1] + list[i].expires
<1> DEFINE S == Sums(list)
<1>1. S = [i \in 0 .. Len(list) |-> IF i = 0 THEN 0 ELSE S[i - 1] + list[i].expires]
  BY SumsDefined
<1> HIDE DEF S
<1>2. S[0] = 0 /\ \A i \in 1 .. Len(list) : S[i] = S[i - 1] + list[i].expires
  BY <1>1
<1> QED BY <1>2 DEF S

(* They are the only function of which that is true.                       *)
LEMMA SumsUnique ==
  ASSUME NEW list, Len(list) \in Nat, NEW g, g[0] = 0,
         \A i \in 1 .. Len(list) : g[i] = g[i - 1] + list[i].expires
  PROVE  \A i \in 0 .. Len(list) : Sums(list)[i] = g[i]
<1> DEFINE S == Sums(list)
           T == {i \in 0 .. Len(list) : S[i] # g[i]}
<1>1. S[0] = 0 /\ \A i \in 1 .. Len(list) : S[i] = S[i - 1] + list[i].expires
  BY SumsStep
<1> HIDE DEF S
<1>2. T = {}
  <2> SUFFICES ASSUME T # {} PROVE FALSE
    OBVIOUS
  <2>1. T \subseteq Nat
    OBVIOUS
  <2>2. PICK i \in T : \A k \in T : i <= k
    BY <2>1, Least
  <2>3. i # 0
    BY <1>1
  <2>4. i \in 1 .. Len(list) /\ i - 1 \in 0 .. Len(list) /\ i - 1 \notin T
    BY <2>2, <2>3
  <2>5. S[i - 1] = g[i - 1]
    BY <2>4
  <2> QED BY <1>1, <2>4, <2>5
<1> QED BY <1>2 DEF S

(* They are numbers.                                                       *)
LEMMA SumsNat ==
  ASSUME NEW list, Len(list) \in Nat,
         \A i \in 1 .. Len(list) : list[i].expires \in Nat
  PROVE  \A i \in 0 .. Len(list) : Sums(list)[i] \in Nat
<1> DEFINE S == Sums(list)
           T == {i \in 0 .. Len(list) : S[i] \notin Nat}
<1>1. S[0] = 0 /\ \A i \in 1 .. Len(list) : S[i] = S[i - 1] + list[i].expires
  BY SumsStep
<1> HIDE DEF S
<1>2. T = {}
  <2> SUFFICES ASSUME T # {} PROVE FALSE
    OBVIOUS
  <2>1. T \subseteq Nat
    OBVIOUS
  <2>2. PICK i \in T : \A k \in T : i <= k
    BY <2>1, Least
  <2>3. i # 0
    BY <1>1
  <2>4. i \in 1 .. Len(list) /\ i - 1 \in 0 .. Len(list) /\ i - 1 \notin T
    BY <2>2, <2>3
  <2>5. S[i - 1] \in Nat /\ list[i].expires \in Nat
    BY <2>4
  <2> QED BY <1>1, <2>4, <2>5
<1> QED BY <1>2 DEF S

(* Later timers do not ring earlier.                                       *)
LEMMA SumsGrow ==
  ASSUME NEW list, Len(list) \in Nat,
         \A i \in 1 .. Len(list) : list[i].expires \in Nat,
         NEW i \in 0 .. Len(list)
  PROVE  \A j \in i .. Len(list) : Sums(list)[i] <= Sums(list)[j]
<1> DEFINE S == Sums(list)
           T == {j \in i .. Len(list) : ~(S[i] <= S[j])}
<1>1. \A j \in 1 .. Len(list) : S[j] = S[j - 1] + list[j].expires
  BY SumsStep
<1>2. \A j \in 0 .. Len(list) : S[j] \in Nat
  BY SumsNat
<1> HIDE DEF S
<1>3. T = {}
  <2> SUFFICES ASSUME T # {} PROVE FALSE
    OBVIOUS
  <2>1. T \subseteq Nat
    OBVIOUS
  <2>2. PICK j \in T : \A k \in T : j <= k
    BY <2>1, Least
  <2>3. j # i
    BY <1>2
  <2>4. j \in 1 .. Len(list) /\ j - 1 \in i .. Len(list) /\ j - 1 \notin T /\ j - 1 \in 0 .. Len(list)
    BY <2>2, <2>3
  <2>5. S[i] <= S[j - 1] /\ S[j] = S[j - 1] + list[j].expires
    BY <1>1, <2>4
  <2>6. S[i] \in Nat /\ S[j - 1] \in Nat /\ list[j].expires \in Nat
    BY <1>2, <2>4
  <2> QED BY <2>5, <2>6
<1> QED BY <1>3 DEF S

-----------------------------------------------------------------------------
(* What the words of a list are.                                           *)
LEMMA Typed ==
  ASSUME NEW list \in Seq(Timers)
  PROVE  /\ Len(list) \in Nat /\ DOMAIN list = 1 .. Len(list)
         /\ \A i \in 1 .. Len(list) :
              /\ list[i] \in Timers /\ list[i].proc \in Sleepers
              /\ list[i].expires \in Nat /\ list[i].expires <= MaxTicks
<1>1. \A x \in Timers : x.proc \in Sleepers /\ x.expires \in Nat /\ x.expires <= MaxTicks
  BY TimerAssumption DEF Timers
<1> QED BY <1>1

(* The timer of a process is where PlaceOf says.                           *)
LEMMA PlaceIs ==
  ASSUME NEW list, NEW i \in DOMAIN list,
         \A j, k \in DOMAIN list : list[j].proc = list[k].proc => j = k
  PROVE  Has(list, list[i].proc) /\ PlaceOf(list, list[i].proc) = i
  BY DEF Has, PlaceOf

LEMMA PlaceIn ==
  ASSUME NEW list, NEW p, Has(list, p)
  PROVE  PlaceOf(list, p) \in DOMAIN list /\ list[PlaceOf(list, p)].proc = p
  BY DEF Has, PlaceOf

(* add_timer finds a place.                                                *)
LEMMA PlaceFound ==
  ASSUME NEW list \in Seq(Timers), NEW t \in Nat
  PROVE  LET k == PlaceFor(list, t) IN
         /\ k \in 1 .. Len(list) + 1
         /\ \A i \in 1 .. k - 1 : Sums(list)[i] <= t
         /\ k <= Len(list) => t < Sums(list)[k]
<1> DEFINE S == Sums(list)
           n == Len(list)
           T == {i \in 1 .. n + 1 : i <= n => t < S[i]}
<1>1. n \in Nat /\ \A i \in 0 .. n : S[i] \in Nat
  BY Typed, SumsNat
<1> HIDE DEF S, n
<1>2. T \subseteq Nat /\ n + 1 \in T
  BY <1>1
<1>3. PICK k \in T : \A i \in T : k <= i
  BY <1>2, Least
<1>4. ASSUME NEW i \in 1 .. k - 1 PROVE S[i] <= t
  <2>1. i \in 1 .. n + 1 /\ i \notin T /\ i <= n /\ i \in 0 .. n
    BY <1>1, <1>3
  <2> QED BY <1>1, <2>1
<1>5. k \in 1 .. n + 1 /\ (\A i \in 1 .. k - 1 : S[i] <= t) /\ (k <= n => t < S[k])
  BY <1>3, <1>4
<1> QED BY <1>5 DEF PlaceFor, S, n

-----------------------------------------------------------------------------
(* The list with a timer put in: one more timer at its place, the ones     *)
(* behind it ring when they did.                                           *)
LEMMA InsertedIs ==
  ASSUME NEW list \in Seq(Timers), NEW p \in Sleepers, NEW t \in 1 .. MaxTicks
  PROVE  LET k == PlaceFor(list, t)
             new == Inserted(list, p, t)
         IN  /\ k \in 1 .. Len(list) + 1
             /\ new \in Seq(Timers) /\ Len(new) = Len(list) + 1
             /\ \A i \in 1 .. Len(new) :
                  new[i].proc = IF i < k THEN list[i].proc
                                ELSE IF i = k THEN p ELSE list[i - 1].proc
             /\ \A i \in 0 .. Len(new) :
                  Sums(new)[i] = IF i < k THEN Sums(list)[i]
                                 ELSE IF i = k THEN t ELSE Sums(list)[i - 1]
             /\ (list # <<>> => list[1].expires > 0) => new[1].expires > 0
<1> DEFINE k == PlaceFor(list, t)
           S == Sums(list)
           n == Len(list)
           rest == t - S[k - 1]
           less == IF k <= n THEN [list EXCEPT ![k].expires = @ - rest] ELSE list
           timer == [proc |-> p, expires |-> rest]
           new == Inserted(list, p, t)
<1>1. /\ n \in Nat /\ DOMAIN list = 1 .. n
      /\ \A i \in 1 .. n : /\ list[i] \in Timers /\ list[i].proc \in Sleepers
                           /\ list[i].expires \in Nat /\ list[i].expires <= MaxTicks
  BY Typed
<1>2. t \in Nat /\ t >= 1 /\ t <= MaxTicks /\ MaxTicks \in Nat
  BY TimerAssumption
<1>3. /\ k \in 1 .. n + 1 /\ \A i \in 1 .. k - 1 : S[i] <= t
      /\ k <= n => t < S[k]
  BY <1>2, PlaceFound
<1>4. S[0] = 0 /\ (\A i \in 1 .. n : S[i] = S[i - 1] + list[i].expires) /\ \A i \in 0 .. n : S[i] \in Nat
  BY <1>1, SumsStep, SumsNat
<1>5. new = SubSeq(less, 1, k - 1) \o <<timer>> \o SubSeq(less, k, Len(less))
  BY DEF Inserted, InsertAt
<1> HIDE DEF k, S, n, new
<1>6. rest \in 0 .. t /\ S[k - 1] \in Nat /\ S[k - 1] <= t
  <2>1. k - 1 \in 0 .. n /\ (k = 1 \/ k - 1 \in 1 .. k - 1)
    BY <1>1, <1>3
  <2>2. S[k - 1] \in Nat /\ S[k - 1] <= t
    BY <1>2, <1>3, <1>4, <2>1
  <2> QED BY <1>2, <2>2
<1>7. k <= n => /\ list[k].expires = S[k] - S[k - 1] /\ list[k].expires - rest = S[k] - t
                /\ S[k] \in Nat /\ list[k].expires - rest \in Nat /\ list[k].expires - rest <= MaxTicks
  <2> SUFFICES ASSUME k <= n PROVE /\ list[k].expires = S[k] - S[k - 1] /\ list[k].expires - rest = S[k] - t
                /\ S[k] \in Nat /\ list[k].expires - rest \in Nat /\ list[k].expires - rest <= MaxTicks
    OBVIOUS
  <2>1. k \in 1 .. n /\ k \in 0 .. n
    BY <1>1, <1>3
  <2>2. S[k] = S[k - 1] + list[k].expires /\ S[k] \in Nat /\ list[k].expires \in Nat /\ list[k].expires <= MaxTicks
    BY <1>1, <1>4, <2>1
  <2>3. t < S[k]
    BY <1>3
  <2>4. rest = t - S[k - 1] /\ k - 1 \in Nat
    BY <1>3
  <2> DEFINE a == S[k - 1]
             b == S[k]
             e == list[k].expires
             r == rest
  <2>5. a \in Nat /\ b \in Nat /\ e \in Nat /\ e <= MaxTicks /\ b = a + e /\ t < b /\ r = t - a /\ r \in 0 .. t
    BY <1>6, <2>2, <2>3, <2>4
  <2> HIDE DEF a, b, e, r
  <2>6. e = b - a /\ e - r = b - t /\ e - r \in Nat /\ e - r <= MaxTicks
    BY <1>2, <2>5
  <2> QED BY <2>2, <2>6 DEF a, b, e, r
<1> HIDE DEF rest
<1>8. /\ less \in Seq(Timers) /\ Len(less) = n
      /\ \A i \in 1 .. n : /\ less[i].proc = list[i].proc
                           /\ less[i].expires = IF i = k THEN list[i].expires - rest ELSE list[i].expires
                           /\ i # k => less[i] = list[i]
  <2>1. CASE k <= n
    <3>1. list[k] \in Timers /\ list[k].expires - rest \in 0 .. MaxTicks
      BY <1>1, <1>2, <1>3, <1>7, <2>1
    <3>2. [list[k] EXCEPT !.expires = @ - rest] \in Timers
      BY <3>1 DEF Timers
    <3>3. less = [list EXCEPT ![k] = [list[k] EXCEPT !.expires = @ - rest]]
      BY <2>1
    <3>4. less \in Seq(Timers) /\ Len(less) = n
      BY <1>1, <1>3, <2>1, <3>2, <3>3 DEF n
    <3>5. \A i \in 1 .. n : i # k => less[i] = list[i]
      BY <1>1, <3>3
    <3>6. less[k] = [list[k] EXCEPT !.expires = @ - rest]
      BY <1>1, <1>3, <2>1, <3>3
    <3>7. less[k].proc = list[k].proc /\ less[k].expires = list[k].expires - rest
      BY <3>1, <3>6 DEF Timers
    <3> QED BY <3>4, <3>5, <3>7
  <2>2. CASE ~(k <= n)
    BY <1>1, <1>3, <2>2 DEF n
  <2> QED BY <2>1, <2>2
<1> HIDE DEF less
<1>9. timer \in Timers /\ timer.proc = p /\ timer.expires = rest
  BY <1>2, <1>6 DEF Timers
<1> HIDE DEF timer
<1>10. /\ new \in Seq(Timers) /\ Len(new) = n + 1
       /\ \A i \in 1 .. n + 1 : new[i] = IF i < k THEN less[i] ELSE IF i = k THEN timer ELSE less[i - 1]
  <2> DEFINE a == SubSeq(less, 1, k - 1)
             b == SubSeq(less, k, Len(less))
  <2>1. a \in Seq(Timers) /\ Len(a) = k - 1 /\ \A i \in 1 .. k - 1 : a[i] = less[i]
    BY <1>1, <1>3, <1>8
  <2>2. b \in Seq(Timers) /\ Len(b) = n - k + 1 /\ \A i \in 1 .. n - k + 1 : b[i] = less[k + i - 1]
    BY <1>1, <1>3, <1>8
  <2> HIDE DEF a, b
  <2>3. a \o <<timer>> \in Seq(Timers) /\ Len(a \o <<timer>>) = k
        /\ \A i \in 1 .. k : (a \o <<timer>>)[i] = IF i < k THEN less[i] ELSE timer
    BY <1>3, <1>9, <2>1
  <2>4. new = (a \o <<timer>>) \o b
    BY <1>5 DEF a, b
  <2> DEFINE ab == a \o <<timer>>
  <2> HIDE DEF ab
  <2>5. ab \in Seq(Timers) /\ Len(ab) = k /\ (\A i \in 1 .. k : ab[i] = IF i < k THEN less[i] ELSE timer)
        /\ new = ab \o b
    BY <2>3, <2>4 DEF ab
  <2>6. new \in Seq(Timers) /\ Len(new) = n + 1
    <3>1. new \in Seq(Timers) /\ Len(new) = Len(ab) + Len(b)
      BY <2>2, <2>5, ConcatProperties
    <3> QED BY <1>1, <1>3, <2>2, <2>5, <3>1
  <2>7. ASSUME NEW i \in 1 .. n + 1 PROVE new[i] = IF i < k THEN less[i] ELSE IF i = k THEN timer ELSE less[i - 1]
    <3>1. CASE i <= k
      <4>1. new[i] = ab[i]
        BY <1>1, <1>3, <2>2, <2>5, <2>7, <3>1
      <4> QED BY <1>3, <2>5, <2>7, <3>1, <4>1
    <3>2. CASE i > k
      <4>1. new[i] = b[i - k] /\ i - k \in 1 .. n - k + 1
        BY <1>1, <1>3, <2>2, <2>5, <2>7, <3>2
      <4>2. k + (i - k) - 1 = i - 1
        BY <1>3, <2>7
      <4> QED BY <1>3, <2>2, <3>2, <4>1, <4>2
    <3> QED BY <1>3, <2>7, <3>1, <3>2
  <2> QED BY <2>6, <2>7
<1>11. \A i \in 1 .. n + 1 :
         new[i].proc = IF i < k THEN list[i].proc ELSE IF i = k THEN p ELSE list[i - 1].proc
  <2> TAKE i \in 1 .. n + 1
  <2>1. CASE i < k
    BY <1>1, <1>3, <1>8, <1>10, <2>1
  <2>2. CASE i = k
    BY <1>9, <1>10, <2>2
  <2>3. CASE i > k
    <3>1. i - 1 \in 1 .. n
      BY <1>1, <1>3, <2>3
    <3> QED BY <1>3, <1>8, <1>10, <2>3, <3>1
  <2> QED BY <1>3, <2>1, <2>2, <2>3
<1>12. \A i \in 0 .. n + 1 : Sums(new)[i] = IF i < k THEN S[i] ELSE IF i = k THEN t ELSE S[i - 1]
  <2> DEFINE g == [i \in 0 .. n + 1 |-> IF i < k THEN S[i] ELSE IF i = k THEN t ELSE S[i - 1]]
  <2>1. g[0] = 0
    BY <1>1, <1>3, <1>4
  <2>2. ASSUME NEW i \in 1 .. n + 1 PROVE g[i] = g[i - 1] + new[i].expires
    <3>0. i \in 0 .. n + 1 /\ i - 1 \in 0 .. n + 1 /\ i \in Nat
      BY <1>1
    <3>1. CASE i < k
      <4>1. g[i] = S[i] /\ g[i - 1] = S[i - 1]
        BY <1>3, <3>0, <3>1
      <4>2. i \in 1 .. n /\ new[i] = list[i]
        BY <1>1, <1>3, <1>8, <1>10, <3>1
      <4> QED BY <1>4, <4>1, <4>2
    <3>2. CASE i = k
      <4>1. g[i] = t /\ g[i - 1] = S[k - 1] /\ new[i].expires = rest
        BY <1>3, <1>9, <1>10, <3>0, <3>2
      <4> QED BY <1>2, <1>6, <4>1 DEF rest
    <3>3. CASE i = k + 1
      <4>1. g[i] = S[k] /\ g[i - 1] = t
        BY <1>3, <3>0, <3>3
      <4>2. k \in 1 .. n /\ k <= n /\ new[i] = less[k] /\ less[k].expires = list[k].expires - rest
        BY <1>1, <1>3, <1>8, <1>10, <3>3
      <4> QED BY <1>2, <1>7, <4>1, <4>2
    <3>4. CASE i > k + 1
      <4>1. g[i] = S[i - 1] /\ g[i - 1] = S[(i - 1) - 1]
        BY <1>3, <3>0, <3>4
      <4>2. i - 1 \in 1 .. n /\ i - 1 # k /\ ~(i < k) /\ i # k
        BY <1>1, <1>3, <3>4
      <4>3. new[i] = list[i - 1]
        BY <1>8, <1>10, <4>2
      <4> QED BY <1>4, <4>1, <4>2, <4>3
    <3> QED BY <1>3, <3>0, <3>1, <3>2, <3>3, <3>4
  <2> HIDE DEF g
  <2>3. \A i \in 0 .. n + 1 : Sums(new)[i] = g[i]
    <3>1. Len(new) \in Nat /\ Len(new) = n + 1
      BY <1>1, <1>10
    <3>2. \A i \in 1 .. Len(new) : g[i] = g[i - 1] + new[i].expires
      BY <2>2, <3>1
    <3>3. \A i \in 0 .. Len(new) : Sums(new)[i] = g[i]
      BY <2>1, <3>1, <3>2, SumsUnique
    <3> QED BY <3>1, <3>3
  <2> QED BY <2>3 DEF g
<1>13. (list # <<>> => list[1].expires > 0) => new[1].expires > 0
  <2>1. CASE k = 1
    <3>1. new[1].expires = rest /\ rest = t
      BY <1>1, <1>2, <1>4, <1>9, <1>10, <2>1 DEF rest
    <3> QED BY <1>2, <3>1
  <2>2. CASE k # 1
    <3>1. new[1] = list[1] /\ n >= 1
      BY <1>1, <1>3, <1>8, <1>10, <2>2
    <3>2. list # <<>>
      BY <3>1 DEF n
    <3> QED BY <3>1, <3>2
  <2> QED BY <2>1, <2>2
<1> QED BY <1>3, <1>10, <1>11, <1>12, <1>13 DEF k, S, n, new

(* The list with a timer taken out: the others ring when they did.         *)
LEMMA DeletedIs ==
  ASSUME NEW list \in Seq(Timers), NEW k \in 1 .. Len(list),
         \A i \in 0 .. Len(list) : Sums(list)[i] <= MaxTicks
  PROVE  LET new == Deleted(list, k) IN
         /\ new \in Seq(Timers) /\ Len(new) = Len(list) - 1
         /\ \A i \in 1 .. Len(new) :
              new[i].proc = IF i < k THEN list[i].proc ELSE list[i + 1].proc
         /\ \A i \in 0 .. Len(new) :
              Sums(new)[i] = IF i < k THEN Sums(list)[i] ELSE Sums(list)[i + 1]
         /\ list[1].expires > 0 /\ new # <<>> => new[1].expires > 0
<1> DEFINE S == Sums(list)
           n == Len(list)
           more == IF k < n THEN [list EXCEPT ![k + 1].expires = @ + list[k].expires] ELSE list
           new == Deleted(list, k)
<1>1. /\ n \in Nat /\ DOMAIN list = 1 .. n
      /\ \A i \in 1 .. n : /\ list[i] \in Timers /\ list[i].proc \in Sleepers
                           /\ list[i].expires \in Nat /\ list[i].expires <= MaxTicks
  BY Typed
<1>2. k \in 1 .. n /\ MaxTicks \in Nat
  BY TimerAssumption
<1>3. S[0] = 0 /\ (\A i \in 1 .. n : S[i] = S[i - 1] + list[i].expires)
      /\ \A i \in 0 .. n : S[i] \in Nat /\ S[i] <= MaxTicks
  BY <1>1, SumsStep, SumsNat
<1>4. new = SubSeq(more, 1, k - 1) \o SubSeq(more, k + 1, Len(more))
  BY DEF Deleted, RemoveAt
<1> HIDE DEF S, n, new, more
<1>5. k < n => list[k + 1].expires + list[k].expires \in 0 .. MaxTicks
  <2> SUFFICES ASSUME k < n PROVE list[k + 1].expires + list[k].expires \in 0 .. MaxTicks
    OBVIOUS
  <2>1. k \in 1 .. n /\ k + 1 \in 1 .. n /\ k - 1 \in 0 .. n /\ k + 1 \in 0 .. n /\ (k + 1) - 1 = k
    BY <1>1, <1>2
  <2>2. S[k] = S[k - 1] + list[k].expires /\ S[k + 1] = S[k] + list[k + 1].expires
    BY <1>3, <2>1
  <2> DEFINE a == S[k - 1]
             b == S[k]
             c == S[k + 1]
             d == list[k].expires
             e == list[k + 1].expires
  <2>3. a \in Nat /\ b = a + d /\ c = b + e /\ d \in Nat /\ e \in Nat /\ c <= MaxTicks
    BY <1>1, <1>3, <2>1, <2>2
  <2> HIDE DEF a, b, c, d, e
  <2>4. e + d \in 0 .. MaxTicks
    BY <1>2, <2>3
  <2> QED BY <2>4 DEF d, e
<1>6. /\ more \in Seq(Timers) /\ Len(more) = n
      /\ \A i \in 1 .. n : /\ more[i].proc = list[i].proc
                           /\ more[i].expires = IF i = k + 1 THEN list[i].expires + list[k].expires ELSE list[i].expires
                           /\ i # k + 1 => more[i] = list[i]
  <2>1. CASE k < n
    <3>0. k + 1 \in 1 .. n
      BY <1>1, <1>2, <2>1
    <3>1. list[k + 1] \in Timers /\ list[k + 1].expires + list[k].expires \in 0 .. MaxTicks
      BY <1>1, <1>5, <2>1, <3>0
    <3>2. [list[k + 1] EXCEPT !.expires = @ + list[k].expires] \in Timers
      BY <3>1 DEF Timers
    <3>3. more = [list EXCEPT ![k + 1] = [list[k + 1] EXCEPT !.expires = @ + list[k].expires]]
      BY <2>1 DEF more
    <3>4. more \in Seq(Timers) /\ Len(more) = n
      BY <1>1, <3>0, <3>2, <3>3 DEF n
    <3>5. \A i \in 1 .. n : i # k + 1 => more[i] = list[i]
      BY <1>1, <3>3
    <3>6. more[k + 1] = [list[k + 1] EXCEPT !.expires = @ + list[k].expires]
      BY <1>1, <3>0, <3>3
    <3>7. more[k + 1].proc = list[k + 1].proc /\ more[k + 1].expires = list[k + 1].expires + list[k].expires
      BY <3>1, <3>6 DEF Timers
    <3> QED BY <3>4, <3>5, <3>7
  <2>2. CASE ~(k < n)
    BY <1>1, <1>2, <2>2 DEF n, more
  <2> QED BY <2>1, <2>2
<1>7. /\ new \in Seq(Timers) /\ Len(new) = n - 1 /\ n - 1 \in Nat
      /\ \A i \in 1 .. n - 1 : new[i] = IF i < k THEN more[i] ELSE more[i + 1]
  <2> DEFINE a == SubSeq(more, 1, k - 1)
             b == SubSeq(more, k + 1, Len(more))
  <2>1. a \in Seq(Timers) /\ Len(a) = k - 1 /\ \A i \in 1 .. k - 1 : a[i] = more[i]
    BY <1>1, <1>2, <1>6
  <2>2. b \in Seq(Timers) /\ Len(b) = n - k /\ \A i \in 1 .. n - k : b[i] = more[(k + 1) + i - 1]
    BY <1>1, <1>2, <1>6
  <2> HIDE DEF a, b
  <2>3. new = a \o b
    BY <1>4 DEF a, b
  <2>4. /\ new \in Seq(Timers) /\ Len(new) = Len(a) + Len(b)
        /\ \A i \in 1 .. Len(a) + Len(b) : new[i] = IF i <= Len(a) THEN a[i] ELSE b[i - Len(a)]
    BY <2>1, <2>2, <2>3, ConcatProperties
  <2>5. Len(a) + Len(b) = n - 1 /\ n - 1 \in Nat
    BY <1>1, <1>2, <2>1, <2>2
  <2> DEFINE la == Len(a)
             lb == Len(b)
  <2> HIDE DEF la, lb
  <2>7. \A i \in 1 .. n - 1 : new[i] = IF i <= k - 1 THEN a[i] ELSE b[i - (k - 1)]
    <3>1. la + lb = n - 1 /\ \A i \in 1 .. la + lb : new[i] = IF i <= la THEN a[i] ELSE b[i - la]
      BY <2>4, <2>5 DEF la, lb
    <3>2. la = k - 1
      BY <2>1 DEF la
    <3> QED BY <3>1, <3>2
  <2>6. ASSUME NEW i \in 1 .. n - 1 PROVE new[i] = IF i < k THEN more[i] ELSE more[i + 1]
    <3>1. CASE i < k
      BY <1>2, <2>1, <2>7, <3>1
    <3>2. CASE ~(i < k)
      <4>1. new[i] = b[i - (k - 1)] /\ i - (k - 1) \in 1 .. n - k
        BY <1>1, <1>2, <2>7, <3>2
      <4>2. (k + 1) + (i - (k - 1)) - 1 = i + 1
        BY <1>1, <1>2
      <4> QED BY <2>2, <3>2, <4>1, <4>2
    <3> QED BY <3>1, <3>2
  <2> QED BY <2>4, <2>5, <2>6
<1>8. \A i \in 1 .. n - 1 : new[i].proc = IF i < k THEN list[i].proc ELSE list[i + 1].proc
  BY <1>1, <1>2, <1>6, <1>7
<1>9. \A i \in 0 .. n - 1 : Sums(new)[i] = IF i < k THEN S[i] ELSE S[i + 1]
  <2> DEFINE g == [i \in 0 .. n - 1 |-> IF i < k THEN S[i] ELSE S[i + 1]]
  <2>1. g[0] = 0
    BY <1>2, <1>3, <1>7
  <2>2. ASSUME NEW i \in 1 .. n - 1 PROVE g[i] = g[i - 1] + new[i].expires
    <3>0. i \in 0 .. n - 1 /\ i - 1 \in 0 .. n - 1 /\ i \in Nat /\ i \in 1 .. n /\ i + 1 \in 1 .. n
          /\ (i + 1) - 1 = i /\ (i - 1) + 1 = i
      BY <1>1
    <3>1. CASE i < k
      <4>1. g[i] = S[i] /\ g[i - 1] = S[i - 1] /\ i # k + 1
        BY <1>2, <3>0, <3>1
      <4>2. new[i] = list[i]
        BY <1>6, <1>7, <3>0, <3>1, <4>1
      <4> QED BY <1>3, <3>0, <4>1, <4>2
    <3>2. CASE i = k
      <4>1. g[i] = S[k + 1] /\ g[i - 1] = S[k - 1]
        BY <1>2, <3>0, <3>2
      <4>2. new[i] = more[k + 1] /\ more[k + 1].expires = list[k + 1].expires + list[k].expires
        BY <1>2, <1>6, <1>7, <3>0, <3>2
      <4>3. S[k] = S[k - 1] + list[k].expires /\ S[k + 1] = S[k] + list[k + 1].expires
        BY <1>3, <3>0, <3>2
      <4>4. S[k - 1] \in Nat /\ list[k].expires \in Nat /\ list[k + 1].expires \in Nat
        BY <1>1, <1>2, <1>3, <3>0, <3>2
      <4> QED BY <4>1, <4>2, <4>3, <4>4
    <3>3. CASE i > k
      <4>1. g[i] = S[i + 1] /\ g[i - 1] = S[i] /\ i + 1 # k + 1 /\ ~(i < k)
        BY <1>2, <3>0, <3>3
      <4>2. new[i] = list[i + 1]
        BY <1>6, <1>7, <3>0, <4>1, SMTT(30)
      <4> QED BY <1>3, <3>0, <4>1, <4>2
    <3> QED BY <1>2, <3>0, <3>1, <3>2, <3>3
  <2> HIDE DEF g
  <2>3. Len(new) \in Nat /\ Len(new) = n - 1
    BY <1>7
  <2>4. \A i \in 1 .. Len(new) : g[i] = g[i - 1] + new[i].expires
    BY <2>2, <2>3
  <2>5. \A i \in 0 .. Len(new) : Sums(new)[i] = g[i]
    BY <2>1, <2>3, <2>4, SumsUnique
  <2> QED BY <2>3, <2>5 DEF g
<1>10. list[1].expires > 0 /\ new # <<>> => new[1].expires > 0
  <2> SUFFICES ASSUME list[1].expires > 0, new # <<>> PROVE new[1].expires > 0
    OBVIOUS
  <2>1. 1 \in 1 .. n - 1 /\ 1 \in 1 .. n /\ 2 \in 1 .. n
    BY <1>1, <1>7
  <2>2. CASE k = 1
    <3>1. new[1] = more[2]
      BY <1>7, <2>1, <2>2
    <3>2. more[2].expires = list[2].expires + list[1].expires
      BY <1>6, <2>1, <2>2
    <3> QED BY <1>1, <2>1, <3>1, <3>2
  <2>3. CASE k # 1
    <3>1. new[1] = list[1]
      BY <1>2, <1>6, <1>7, <2>1, <2>3
    <3> QED BY <3>1
  <2> QED BY <2>2, <2>3
<1> QED BY <1>7, <1>8, <1>9, <1>10 DEF S, n, new

(* A tick: the timers that ring are those with one tick left, they stand   *)
(* in front, and the others have one tick less.                            *)
LEMMA TickedIs ==
  ASSUME NEW list \in Seq(Timers), list # <<>>, list[1].expires > 0
  PROVE  LET ticked == [list EXCEPT ![1].expires = @ - 1]
             due    == Expired(ticked)
             new    == SubSeq(ticked, Cardinality(due) + 1, Len(ticked))
         IN  \E k \in 0 .. Len(list) :
               /\ due = 1 .. k
               /\ \A i \in 1 .. k : ticked[i].proc = list[i].proc
               /\ \A i \in 1 .. Len(list) : i <= k <=> Sums(list)[i] = 1
               /\ new \in Seq(Timers) /\ Len(new) = Len(list) - k
               /\ \A i \in 1 .. Len(new) : new[i].proc = list[k + i].proc
               /\ \A i \in 0 .. Len(new) :
                    Sums(new)[i] = IF i = 0 THEN 0 ELSE Sums(list)[k + i] - 1
               /\ new # <<>> => new[1].expires > 0
<1> DEFINE S == Sums(list)
           n == Len(list)
           ticked == [list EXCEPT ![1].expires = @ - 1]
           due == Expired(ticked)
           new == SubSeq(ticked, Cardinality(due) + 1, Len(ticked))
           T == Sums(ticked)
<1>1. /\ n \in Nat /\ DOMAIN list = 1 .. n /\ n >= 1 /\ 1 \in 1 .. n
      /\ \A i \in 1 .. n : /\ list[i] \in Timers /\ list[i].proc \in Sleepers
                           /\ list[i].expires \in Nat /\ list[i].expires <= MaxTicks
  BY Typed
<1>2. S[0] = 0 /\ (\A i \in 1 .. n : S[i] = S[i - 1] + list[i].expires)
      /\ \A i \in 0 .. n : S[i] \in Nat
  BY <1>1, SumsStep, SumsNat
<1> HIDE DEF S, n, ticked, due, new, T
<1>3. /\ ticked \in Seq(Timers) /\ Len(ticked) = n /\ DOMAIN ticked = 1 .. n
      /\ \A i \in 1 .. n : /\ ticked[i].proc = list[i].proc /\ ticked[i].expires \in Nat
                           /\ ticked[i].expires = IF i = 1 THEN list[1].expires - 1 ELSE list[i].expires
  <2>1. list[1] \in Timers /\ list[1].expires - 1 \in 0 .. MaxTicks
    BY <1>1, TimerAssumption
  <2>2. [list[1] EXCEPT !.expires = @ - 1] \in Timers
    BY <2>1 DEF Timers
  <2>3. ticked = [list EXCEPT ![1] = [list[1] EXCEPT !.expires = @ - 1]]
    BY DEF ticked
  <2>4. ticked \in Seq(Timers) /\ Len(ticked) = n /\ DOMAIN ticked = 1 .. n
    BY <1>1, <2>2, <2>3 DEF n
  <2>5. \A i \in 1 .. n : i # 1 => ticked[i] = list[i]
    BY <1>1, <2>3
  <2>6. ticked[1] = [list[1] EXCEPT !.expires = @ - 1]
    BY <1>1, <2>3
  <2>7. ticked[1].proc = list[1].proc /\ ticked[1].expires = list[1].expires - 1
    BY <2>1, <2>6 DEF Timers
  <2> QED BY <1>1, <2>1, <2>4, <2>5, <2>7
<1>4. \A i \in 0 .. n : T[i] = IF i = 0 THEN 0 ELSE S[i] - 1
  <2> DEFINE g == [i \in 0 .. n |-> IF i = 0 THEN 0 ELSE S[i] - 1]
  <2>1. g[0] = 0
    BY <1>1
  <2>2. ASSUME NEW i \in 1 .. n PROVE g[i] = g[i - 1] + ticked[i].expires
    <3>0. i \in 0 .. n /\ i - 1 \in 0 .. n /\ i # 0
      BY <1>1
    <3>1. CASE i = 1
      <4>1. g[i] = S[1] - 1 /\ g[i - 1] = 0 /\ S[1] = 0 + list[1].expires
        BY <1>1, <1>2, <3>0, <3>1
      <4> QED BY <1>1, <1>3, <3>1, <4>1
    <3>2. CASE i # 1
      <4>1. g[i] = S[i] - 1 /\ g[i - 1] = S[i - 1] - 1 /\ S[i] = S[i - 1] + list[i].expires
        BY <1>2, <3>0, <3>2
      <4>2. ticked[i].expires = list[i].expires /\ list[i].expires \in Nat /\ S[i - 1] \in Nat
        BY <1>1, <1>2, <1>3, <3>0, <3>2
      <4> QED BY <4>1, <4>2
    <3> QED BY <3>1, <3>2
  <2> HIDE DEF g
  <2>3. Len(ticked) = n /\ Len(ticked) \in Nat
        /\ \A i \in 1 .. Len(ticked) : g[i] = g[i - 1] + ticked[i].expires
    BY <1>1, <1>3, <2>2
  <2>4. \A i \in 0 .. Len(ticked) : T[i] = g[i]
    BY <2>1, <2>3, SumsUnique DEF T
  <2> QED BY <2>3, <2>4 DEF g
<1>5. /\ T[0] = 0 /\ (\A i \in 1 .. n : T[i] = T[i - 1] + ticked[i].expires)
      /\ \A i \in 0 .. n : T[i] \in Nat
      /\ \A i \in 0 .. n : \A j \in i .. n : T[i] <= T[j]
  BY <1>1, <1>3, SumsStep, SumsNat, SumsGrow DEF T
<1> DEFINE Z == {i \in 1 .. n + 1 : i <= n => ticked[i].expires # 0}
<1>6. PICK m \in Z : \A i \in Z : m <= i
  <2>1. Z \subseteq Nat /\ n + 1 \in Z
    BY <1>1
  <2> QED BY <2>1, Least
<1> DEFINE k == m - 1
<1>7. /\ k \in 0 .. n
      /\ \A i \in 1 .. k : ticked[i].expires = 0
      /\ k + 1 <= n => ticked[k + 1].expires # 0
  <2>1. m \in 1 .. n + 1 /\ (m <= n => ticked[m].expires # 0)
    BY <1>6
  <2>2. ASSUME NEW i \in 1 .. k PROVE ticked[i].expires = 0
    <3>1. i \in 1 .. n + 1 /\ i \notin Z /\ i <= n
      BY <1>1, <1>6, <2>1
    <3> QED BY <3>1
  <2> QED BY <1>1, <2>1, <2>2
<1> HIDE DEF k, Z
<1>8. \A i \in 0 .. k : T[i] = 0
  <2> DEFINE W == {i \in 0 .. k : T[i] # 0}
  <2> SUFFICES ASSUME W # {} PROVE FALSE
    OBVIOUS
  <2>1. W \subseteq Nat
    OBVIOUS
  <2>2. PICK i \in W : \A j \in W : i <= j
    BY <2>1, Least
  <2>3. i # 0
    BY <1>5
  <2>4. i \in 1 .. k /\ i \in 1 .. n /\ i - 1 \in 0 .. k /\ i - 1 \notin W
    BY <1>1, <1>7, <2>2, <2>3
  <2>5. T[i] = T[i - 1] + ticked[i].expires /\ T[i - 1] = 0 /\ ticked[i].expires = 0
    BY <1>5, <1>7, <2>4
  <2> QED BY <2>4, <2>5
<1>9. \A i \in 1 .. n : i > k => T[i] > 0
  <2> TAKE i \in 1 .. n
  <2> HAVE i > k
  <2>1. k + 1 \in 1 .. n /\ k + 1 \in 0 .. n /\ i \in k + 1 .. n /\ k \in 0 .. n /\ k + 1 <= n /\ (k + 1) - 1 = k
        /\ i \in 0 .. n /\ k \in 0 .. k
    BY <1>1, <1>7
  <2>2. T[k + 1] = T[k] + ticked[k + 1].expires /\ T[k] = 0 /\ ticked[k + 1].expires \in Nat
        /\ ticked[k + 1].expires # 0
    BY <1>3, <1>5, <1>7, <1>8, <2>1
  <2>3. T[k + 1] <= T[i] /\ T[i] \in Nat
    BY <1>5, <2>1
  <2> QED BY <2>2, <2>3
<1>10. due = 1 .. k
  <2>1. ASSUME NEW i \in 1 .. n, i <= k PROVE \A j \in 1 .. i : ticked[j].expires = 0
    BY <1>7, <2>1
  <2>2. ASSUME NEW i \in 1 .. n, ~(i <= k) PROVE \E j \in 1 .. i : ticked[j].expires # 0
    <3>1. k + 1 \in 1 .. i /\ k + 1 <= n
      BY <1>1, <1>7, <2>2
    <3> QED BY <1>7, <3>1
  <2>3. \A i : i \in due <=> i \in 1 .. n /\ \A j \in 1 .. i : ticked[j].expires = 0
    BY <1>3 DEF due, Expired
  <2>4. \A i : i \in due <=> i \in 1 .. n /\ i <= k
    BY <2>1, <2>2, <2>3
  <2>5. \A i : i \in 1 .. k <=> i \in 1 .. n /\ i <= k
    BY <1>1, <1>7
  <2> QED BY <2>4, <2>5
<1>11. \A i \in 1 .. n : i <= k <=> S[i] = 1
  <2> TAKE i \in 1 .. n
  <2>1. i \in 0 .. n /\ i # 0
    BY <1>1
  <2>2. T[i] = S[i] - 1 /\ S[i] \in Nat /\ T[i] \in Nat
    BY <1>2, <1>4, <1>5, <2>1
  <2>3. i <= k => T[i] = 0
    BY <1>8, <2>1
  <2>4. ~(i <= k) => T[i] > 0
    BY <1>7, <1>9
  <2> QED BY <2>2, <2>3, <2>4
<1>12. /\ new \in Seq(Timers) /\ Len(new) = n - k /\ n - k \in Nat
       /\ \A i \in 1 .. n - k : new[i] = ticked[k + i]
  <2>1. Cardinality(due) = k
    BY <1>1, <1>7, <1>10, FS_Interval
  <2>2. new = SubSeq(ticked, k + 1, n)
    BY <1>3, <2>1 DEF new
  <2>3. \A i \in 1 .. n - k : (k + 1) + i - 1 = k + i
    BY <1>1, <1>7
  <2>4. new \in Seq(Timers) /\ Len(new) = n - k /\ n - k \in Nat
    BY <1>1, <1>3, <1>7, <2>2
  <2>5. \A i \in 1 .. n - k : new[i] = ticked[(k + 1) + i - 1]
    BY <1>1, <1>3, <1>7, <2>2
  <2> QED BY <2>3, <2>4, <2>5
<1>13. \A i \in 1 .. n - k : new[i].proc = list[k + i].proc
  <2> TAKE i \in 1 .. n - k
  <2>1. k + i \in 1 .. n
    BY <1>1, <1>7
  <2> QED BY <1>3, <1>12, <2>1
<1>14. \A i \in 0 .. n - k : Sums(new)[i] = IF i = 0 THEN 0 ELSE S[k + i] - 1
  <2> DEFINE g == [i \in 0 .. n - k |-> T[k + i]]
  <2>1. g[0] = 0
    BY <1>1, <1>7, <1>8
  <2>2. ASSUME NEW i \in 1 .. n - k PROVE g[i] = g[i - 1] + new[i].expires
    <3>1. i \in 0 .. n - k /\ i - 1 \in 0 .. n - k /\ k + i \in 1 .. n /\ (k + i) - 1 = k + (i - 1)
      BY <1>1, <1>7
    <3>2. g[i] = T[k + i] /\ g[i - 1] = T[k + (i - 1)] /\ new[i] = ticked[k + i]
      BY <1>12, <3>1
    <3>3. T[k + i] = T[(k + i) - 1] + ticked[k + i].expires
      BY <1>5, <3>1
    <3> QED BY <3>1, <3>2, <3>3
  <2> HIDE DEF g
  <2>3. \A i \in 0 .. n - k : Sums(new)[i] = g[i]
    BY <1>12, <2>1, <2>2, SumsUnique
  <2>4. ASSUME NEW i \in 0 .. n - k PROVE g[i] = IF i = 0 THEN 0 ELSE S[k + i] - 1
    <3>1. k + i \in 0 .. n /\ (i = 0 => k + i \in 0 .. k) /\ (i # 0 => k + i # 0)
      BY <1>1, <1>7
    <3> QED BY <1>4, <1>8, <3>1 DEF g
  <2> QED BY <2>3, <2>4
<1>15. new # <<>> => new[1].expires > 0
  <2> HAVE new # <<>>
  <2>1. 1 \in 1 .. n - k /\ k + 1 <= n /\ k + 1 \in 1 .. n
    BY <1>1, <1>7, <1>12
  <2>2. new[1] = ticked[k + 1] /\ ticked[k + 1].expires # 0 /\ ticked[k + 1].expires \in Nat
    BY <1>3, <1>7, <1>12, <2>1
  <2> QED BY <2>2
<1>16. \A i \in 1 .. k : ticked[i].proc = list[i].proc
  BY <1>1, <1>3, <1>7
<1> QED BY <1>7, <1>10, <1>11, <1>12, <1>13, <1>14, <1>15, <1>16 DEF S, n, ticked, due, new

-----------------------------------------------------------------------------
(* The steps keep the invariant.                                           *)
LEMMA TimerInitHolds == TimerInit => TimerInv
<1> SUFFICES ASSUME TimerInit PROVE TimerInv
  OBVIOUS
<1>1. timerList = <<>> /\ inSleep = {} /\ rung = {}
  BY DEF TimerInit
<1>2. Len(timerList) = 0 /\ Sums(timerList)[0] = 0 /\ timerList \in Seq(Timers)
  BY <1>1, SumsStep
<1>3. SumsOK
  BY <1>2, TimerAssumption DEF SumsOK
<1> QED BY <1>1, <1>2, <1>3 DEF TimerInv, TimerTypeOK, HeadNotDue, ProcsOK

LEMMA AddKeeps ==
  ASSUME TimerInv, NEW p \in Sleepers, NEW t \in 1 .. MaxTicks, AddTimer(p, t)
  PROVE  TimerInv'
<1> DEFINE L == timerList
           new == Inserted(L, p, t)
           k == PlaceFor(L, t)
           n == Len(L)
<1>1. /\ L \in Seq(Timers) /\ inSleep \subseteq Sleepers /\ rung \subseteq Sleepers /\ n \in Nat
      /\ p \notin inSleep /\ timerList' = new /\ inSleep' = inSleep \cup {p} /\ rung' = rung
  BY Typed DEF TimerInv, TimerTypeOK, AddTimer
<1>2. /\ \A i, j \in 1 .. n : L[i].proc = L[j].proc => i = j
      /\ \A i \in 1 .. n : L[i].proc \in inSleep
      /\ \A i \in 0 .. n : Sums(L)[i] <= MaxTicks
      /\ L # <<>> => L[1].expires > 0
  BY <1>1 DEF TimerInv, ProcsOK, SumsOK, HeadNotDue
<1>3. /\ k \in 1 .. n + 1 /\ new \in Seq(Timers) /\ Len(new) = n + 1
      /\ \A i \in 1 .. n + 1 : new[i].proc = IF i < k THEN L[i].proc ELSE IF i = k THEN p ELSE L[i - 1].proc
      /\ \A i \in 0 .. n + 1 :
           Sums(new)[i] = IF i < k THEN Sums(L)[i] ELSE IF i = k THEN t ELSE Sums(L)[i - 1]
      /\ new[1].expires > 0
  BY <1>1, <1>2, InsertedIs, SMTT(30)
<1> HIDE DEF L, new, k, n
<1>4. TimerTypeOK'
  BY <1>1, <1>3 DEF TimerTypeOK
<1>5. HeadNotDue'
  BY <1>1, <1>3 DEF HeadNotDue
<1>6. ASSUME NEW i \in 1 .. n + 1
      PROVE  IF i = k THEN new[i].proc = p
             ELSE \E j \in 1 .. n : j = (IF i < k THEN i ELSE i - 1) /\ new[i].proc = L[j].proc
  <2>1. i # k => (IF i < k THEN i ELSE i - 1) \in 1 .. n
    BY <1>1, <1>3
  <2> QED BY <1>1, <1>3, <2>1
<1>7. ASSUME NEW i \in 1 .. n + 1, NEW j \in 1 .. n + 1, new[i].proc = new[j].proc
      PROVE  i = j
  <2>1. CASE i = k \/ j = k
    <3>1. ASSUME NEW x \in 1 .. n + 1, x # k PROVE new[x].proc # p
      BY <1>1, <1>2, <1>6, <3>1
    <3>2. new[k].proc = p /\ k \in 1 .. n + 1
      BY <1>3, <1>6
    <3> QED BY <1>7, <2>1, <3>1, <3>2
  <2>2. CASE i # k /\ j # k
    <3>1. PICK u \in 1 .. n : u = (IF i < k THEN i ELSE i - 1) /\ new[i].proc = L[u].proc
      BY <1>6, <2>2
    <3>2. PICK v \in 1 .. n : v = (IF j < k THEN j ELSE j - 1) /\ new[j].proc = L[v].proc
      BY <1>6, <2>2
    <3>3. u = v
      BY <1>2, <1>7, <3>1, <3>2
    <3> QED BY <1>1, <1>3, <2>2, <3>1, <3>2, <3>3
  <2> QED BY <2>1, <2>2
<1>8. ASSUME NEW i \in 1 .. n + 1 PROVE new[i].proc \in inSleep'
  BY <1>1, <1>2, <1>6
<1>9. ProcsOK'
  <2>1. DOMAIN new = 1 .. n + 1
    BY <1>1, <1>3
  <2> QED BY <1>1, <1>7, <1>8, <2>1 DEF ProcsOK
<1>10. ASSUME NEW i \in 0 .. n + 1 PROVE Sums(new)[i] <= MaxTicks
  <2>1. CASE i < k
    <3>1. i \in 0 .. n
      BY <1>1, <1>3, <2>1
    <3> QED BY <1>2, <1>3, <2>1, <3>1
  <2>2. CASE i = k
    BY <1>3, <2>2, TimerAssumption
  <2>3. CASE i > k
    <3>1. i - 1 \in 0 .. n
      BY <1>1, <1>3, <2>3
    <3> QED BY <1>2, <1>3, <2>3, <3>1
  <2> QED BY <1>3, <2>1, <2>2, <2>3
<1>11. SumsOK'
  BY <1>1, <1>3, <1>10 DEF SumsOK
<1> QED BY <1>4, <1>5, <1>9, <1>11 DEF TimerInv

LEMMA DelKeeps ==
  ASSUME TimerInv, NEW p \in Sleepers, DelTimer(p)
  PROVE  TimerInv'
<1> DEFINE L == timerList
           k == PlaceOf(L, p)
           new == Deleted(L, k)
           n == Len(L)
<1>1. /\ L \in Seq(Timers) /\ inSleep \subseteq Sleepers /\ rung \subseteq Sleepers /\ n \in Nat
      /\ DOMAIN L = 1 .. n
      /\ timerList' = (IF Has(L, p) THEN new ELSE L) /\ inSleep' = inSleep \ {p} /\ rung' = rung
  BY Typed DEF TimerInv, TimerTypeOK, DelTimer
<1>2. /\ \A i, j \in 1 .. n : L[i].proc = L[j].proc => i = j
      /\ \A i \in 1 .. n : L[i].proc \in inSleep
      /\ \A i \in 0 .. n : Sums(L)[i] <= MaxTicks
      /\ L # <<>> => L[1].expires > 0
  BY <1>1 DEF TimerInv, ProcsOK, SumsOK, HeadNotDue
<1>3. CASE ~Has(L, p)
  <2>1. UNCHANGED timerList /\ \A i \in DOMAIN L : L[i].proc # p
    BY <1>1, <1>3 DEF Has
  <2>2. TimerTypeOK' /\ HeadNotDue' /\ SumsOK'
    BY <1>1, <2>1 DEF TimerInv, TimerTypeOK, HeadNotDue, SumsOK
  <2>3. ProcsOK'
    BY <1>1, <1>2, <2>1 DEF ProcsOK
  <2> QED BY <2>2, <2>3 DEF TimerInv
<1>4. CASE Has(L, p)
  <2>1. k \in 1 .. n /\ L[k].proc = p /\ timerList' = new
    BY <1>1, <1>4, PlaceIn
  <2>2. /\ new \in Seq(Timers) /\ Len(new) = n - 1
        /\ \A i \in 1 .. n - 1 : new[i].proc = IF i < k THEN L[i].proc ELSE L[i + 1].proc
        /\ \A i \in 0 .. n - 1 : Sums(new)[i] = IF i < k THEN Sums(L)[i] ELSE Sums(L)[i + 1]
        /\ L[1].expires > 0 /\ new # <<>> => new[1].expires > 0
    <3> HIDE DEF L, k, n
    <3>1. L \in Seq(Timers) /\ k \in 1 .. Len(L) /\ \A i \in 0 .. Len(L) : Sums(L)[i] <= MaxTicks
      BY <1>1, <1>2, <2>1 DEF n
    <3>2. /\ new \in Seq(Timers) /\ Len(new) = Len(L) - 1
          /\ \A i \in 1 .. Len(new) : new[i].proc = IF i < k THEN L[i].proc ELSE L[i + 1].proc
          /\ \A i \in 0 .. Len(new) : Sums(new)[i] = IF i < k THEN Sums(L)[i] ELSE Sums(L)[i + 1]
          /\ L[1].expires > 0 /\ new # <<>> => new[1].expires > 0
      BY <3>1, DeletedIs
    <3> HIDE DEF new
    <3> QED BY <3>2 DEF n
  <2>3. L[1].expires > 0
    BY <1>1, <1>2, <2>1
  <2> HIDE DEF L, new, k, n
  <2>4. TimerTypeOK'
    BY <1>1, <2>1, <2>2 DEF TimerTypeOK
  <2>5. HeadNotDue'
    BY <2>1, <2>2, <2>3 DEF HeadNotDue
  <2>6. ASSUME NEW i \in 1 .. n - 1
        PROVE  \E j \in 1 .. n : j = (IF i < k THEN i ELSE i + 1) /\ j # k /\ new[i].proc = L[j].proc
    <3>1. (IF i < k THEN i ELSE i + 1) \in 1 .. n /\ (IF i < k THEN i ELSE i + 1) # k
      BY <1>1, <2>1
    <3> QED BY <2>2, <3>1
  <2>7. ASSUME NEW i \in 1 .. n - 1, NEW j \in 1 .. n - 1, new[i].proc = new[j].proc
        PROVE  i = j
    <3>1. PICK u \in 1 .. n : u = (IF i < k THEN i ELSE i + 1) /\ new[i].proc = L[u].proc
      BY <2>6
    <3>2. PICK v \in 1 .. n : v = (IF j < k THEN j ELSE j + 1) /\ new[j].proc = L[v].proc
      BY <2>6
    <3>3. u = v
      BY <1>2, <2>7, <3>1, <3>2
    <3> QED BY <1>1, <2>1, <3>1, <3>2, <3>3
  <2>8. ASSUME NEW i \in 1 .. n - 1 PROVE new[i].proc \in inSleep'
    <3>1. PICK u \in 1 .. n : u # k /\ new[i].proc = L[u].proc
      BY <2>6
    <3>2. L[u].proc # p
      BY <1>2, <2>1, <3>1
    <3> QED BY <1>1, <1>2, <3>1, <3>2
  <2>9. ProcsOK'
    <3>1. DOMAIN new = 1 .. n - 1
      BY <1>1, <2>2
    <3> QED BY <2>1, <2>7, <2>8, <3>1 DEF ProcsOK
  <2>10. ASSUME NEW i \in 0 .. n - 1 PROVE Sums(new)[i] <= MaxTicks
    <3>1. i \in 0 .. n /\ i + 1 \in 0 .. n
      BY <1>1
    <3> QED BY <1>2, <2>2, <3>1
  <2>11. SumsOK'
    BY <2>1, <2>2, <2>10 DEF SumsOK
  <2> QED BY <2>4, <2>5, <2>9, <2>11 DEF TimerInv
<1> QED BY <1>3, <1>4

(* What a tick does to the list.                                           *)
LEMMA TickIs ==
  ASSUME TimerInv, RunTimerList
  PROVE  \E k \in 0 .. Len(timerList) :
           /\ rung' = {timerList[i].proc : i \in 1 .. k}
           /\ \A i \in 1 .. Len(timerList) : i <= k <=> Sums(timerList)[i] = 1
           /\ timerList' \in Seq(Timers) /\ Len(timerList') = Len(timerList) - k
           /\ \A i \in 1 .. Len(timerList') : timerList'[i].proc = timerList[k + i].proc
           /\ \A i \in 0 .. Len(timerList') :
                Sums(timerList')[i] = IF i = 0 THEN 0 ELSE Sums(timerList)[k + i] - 1
           /\ timerList' # <<>> => timerList'[1].expires > 0
<1>1. timerList \in Seq(Timers) /\ (timerList # <<>> => timerList[1].expires > 0)
      /\ Len(timerList) \in Nat
  BY Typed DEF TimerInv, TimerTypeOK, HeadNotDue
<1>2. CASE timerList = <<>>
  <2> DEFINE ticked == <<>>
             due == Expired(ticked)
  <2>1. due = {} /\ Cardinality(due) = 0
    BY FS_EmptySet DEF Expired
  <2>2. rung' = {ticked[i].proc : i \in due} /\ timerList' = SubSeq(ticked, Cardinality(due) + 1, Len(ticked))
    BY <1>2 DEF RunTimerList
  <2> HIDE DEF due
  <2>3. rung' = {} /\ timerList' = <<>> /\ Len(timerList) = 0
    BY <1>2, <2>1, <2>2
  <2>4. Sums(timerList')[0] = 0
    BY <2>3, SumsStep
  <2> QED BY <1>2, <2>3, <2>4
<1>3. CASE timerList # <<>>
  <2> DEFINE ticked == [timerList EXCEPT ![1].expires = @ - 1]
             due == Expired(ticked)
             new == SubSeq(ticked, Cardinality(due) + 1, Len(ticked))
  <2>1. rung' = {ticked[i].proc : i \in due} /\ timerList' = new
    BY <1>3 DEF RunTimerList
  <2>2. PICK k \in 0 .. Len(timerList) :
          /\ due = 1 .. k
          /\ \A i \in 1 .. k : ticked[i].proc = timerList[i].proc
          /\ \A i \in 1 .. Len(timerList) : i <= k <=> Sums(timerList)[i] = 1
          /\ new \in Seq(Timers) /\ Len(new) = Len(timerList) - k
          /\ \A i \in 1 .. Len(new) : new[i].proc = timerList[k + i].proc
          /\ \A i \in 0 .. Len(new) : Sums(new)[i] = IF i = 0 THEN 0 ELSE Sums(timerList)[k + i] - 1
          /\ new # <<>> => new[1].expires > 0
    BY <1>1, <1>3, TickedIs
  <2> HIDE DEF ticked, due, new
  <2>3. rung' = {timerList[i].proc : i \in 1 .. k}
    BY <2>1, <2>2, SMTT(30)
  <2> QED BY <2>1, <2>2, <2>3
<1> QED BY <1>2, <1>3

LEMMA TickKeeps ==
  ASSUME TimerInv, RunTimerList
  PROVE  TimerInv'
<1> DEFINE L == timerList
           n == Len(L)
<1>1. /\ L \in Seq(Timers) /\ inSleep \subseteq Sleepers /\ n \in Nat /\ DOMAIN L = 1 .. n
      /\ \A i \in 1 .. n : L[i].proc \in Sleepers
      /\ inSleep' = inSleep
  BY Typed DEF TimerInv, TimerTypeOK, RunTimerList
<1>2. /\ \A i, j \in 1 .. n : L[i].proc = L[j].proc => i = j
      /\ \A i \in 1 .. n : L[i].proc \in inSleep
      /\ \A i \in 0 .. n : Sums(L)[i] <= MaxTicks /\ Sums(L)[i] \in Nat
  BY <1>1, Typed, SumsNat DEF TimerInv, ProcsOK, SumsOK
<1>3. PICK k \in 0 .. n :
        /\ rung' = {L[i].proc : i \in 1 .. k}
        /\ timerList' \in Seq(Timers) /\ Len(timerList') = n - k
        /\ \A i \in 1 .. Len(timerList') : timerList'[i].proc = L[k + i].proc
        /\ \A i \in 0 .. Len(timerList') : Sums(timerList')[i] = IF i = 0 THEN 0 ELSE Sums(L)[k + i] - 1
        /\ timerList' # <<>> => timerList'[1].expires > 0
  BY TickIs
<1> HIDE DEF L, n
<1>4. TimerTypeOK' /\ HeadNotDue'
  <2>1. \A i \in 1 .. k : L[i].proc \in Sleepers
    BY <1>1, <1>3
  <2> QED BY <1>1, <1>3, <2>1 DEF TimerTypeOK, HeadNotDue
<1>5. DOMAIN timerList' = 1 .. n - k /\ \A i \in 1 .. n - k : k + i \in 1 .. n
  BY <1>1, <1>3
<1>6. \A i, j \in 1 .. n - k : timerList'[i].proc = timerList'[j].proc => i = j
  <2> TAKE i, j \in 1 .. n - k
  <2> HAVE timerList'[i].proc = timerList'[j].proc
  <2>1. L[k + i].proc = L[k + j].proc
    BY <1>3
  <2>2. k + i = k + j
    BY <1>2, <1>5, <2>1
  <2> QED BY <1>1, <1>3, <2>2
<1>7. \A i \in 1 .. n - k : timerList'[i].proc \in inSleep'
  BY <1>1, <1>2, <1>3, <1>5
<1>8. SumsOK'
  <2>1. ASSUME NEW i \in 0 .. n - k PROVE Sums(timerList')[i] <= MaxTicks
    <3>1. CASE i = 0
      BY <1>1, <1>3, <3>1, TimerAssumption
    <3>2. CASE i # 0
      <4>1. k + i \in 0 .. n
        BY <1>1, <1>3
      <4>2. Sums(timerList')[i] = Sums(L)[k + i] - 1
        BY <1>1, <1>3, <3>2
      <4> QED BY <1>2, <4>1, <4>2, TimerAssumption
    <3> QED BY <3>1, <3>2
  <2> QED BY <1>3, <2>1 DEF SumsOK
<1> QED BY <1>4, <1>5, <1>6, <1>7, <1>8 DEF TimerInv, ProcsOK

LEMMA TimerNextKeeps == TimerInv /\ [TimerNext]_timerVars => TimerInv'
<1> SUFFICES ASSUME TimerInv, [TimerNext]_timerVars PROVE TimerInv'
  OBVIOUS
<1>1. ASSUME NEW p \in Sleepers, NEW t \in 1 .. MaxTicks, AddTimer(p, t) PROVE TimerInv'
  BY <1>1, AddKeeps
<1>2. ASSUME NEW p \in Sleepers, DelTimer(p) PROVE TimerInv'
  BY <1>2, DelKeeps
<1>3. ASSUME RunTimerList PROVE TimerInv'
  BY <1>3, TickKeeps
<1>4. ASSUME UNCHANGED timerVars PROVE TimerInv'
  BY <1>4 DEF timerVars, TimerInv, TimerTypeOK, HeadNotDue, ProcsOK, SumsOK
<1> QED BY <1>1, <1>2, <1>3, <1>4 DEF TimerNext

(* Every state of TimerList satisfies the inductive invariant.             *)
THEOREM TimerInvariance == TimerSpec => []TimerInv
<1> QED BY TimerInitHolds, TimerNextKeeps, PTL DEF TimerSpec

(* HeadNotDue, the assertion of run_timer_list: no step of add_timer,      *)
(* del_timer or the tick leaves a timer that is due at the head, for any   *)
(* sleepers and times.                                                     *)
THEOREM HeadCorrect == TimerSpec => []HeadNotDue
<1>1. TimerInv => HeadNotDue
  BY DEF TimerInv
<1> QED BY TimerInvariance, <1>1, PTL

-----------------------------------------------------------------------------
(* The refinement of Alarm.                                                *)
left == [p \in Sleepers |-> LeftIn(timerList, p)]

(* The ticks a process has left are the sum up to its timer.               *)
LEMMA LeftIs ==
  ASSUME NEW list, Len(list) \in Nat, DOMAIN list = 1 .. Len(list),
         \A i, j \in DOMAIN list : list[i].proc = list[j].proc => i = j
  PROVE  /\ \A i \in 1 .. Len(list) : LeftIn(list, list[i].proc) = Sums(list)[i]
         /\ \A p : (\A i \in 1 .. Len(list) : list[i].proc # p) => LeftIn(list, p) = 0
<1>1. ASSUME NEW i \in 1 .. Len(list) PROVE LeftIn(list, list[i].proc) = Sums(list)[i]
  <2>1. Has(list, list[i].proc) /\ PlaceOf(list, list[i].proc) = i
    BY PlaceIs
  <2> QED BY <2>1 DEF LeftIn
<1>2. ASSUME NEW p, \A i \in 1 .. Len(list) : list[i].proc # p PROVE LeftIn(list, p) = 0
  BY <1>2 DEF LeftIn, Has
<1> QED BY <1>1, <1>2

(* What the invariant says of a state, in terms of the list alone.         *)
LEMMA ListFacts ==
  ASSUME TimerInv
  PROVE  /\ timerList \in Seq(Timers) /\ Len(timerList) \in Nat
         /\ DOMAIN timerList = 1 .. Len(timerList)
         /\ \A i \in 1 .. Len(timerList) : timerList[i].proc \in Sleepers
         /\ \A i, j \in DOMAIN timerList : timerList[i].proc = timerList[j].proc => i = j
         /\ \A i \in DOMAIN timerList : timerList[i].proc \in inSleep
         /\ \A i \in 0 .. Len(timerList) : Sums(timerList)[i] \in Nat
         /\ \A i \in 1 .. Len(timerList) : Sums(timerList)[i] > 0
<1>1. /\ timerList \in Seq(Timers) /\ Len(timerList) \in Nat
      /\ DOMAIN timerList = 1 .. Len(timerList)
      /\ \A i \in 1 .. Len(timerList) : timerList[i].proc \in Sleepers /\ timerList[i].expires \in Nat
  BY Typed DEF TimerInv, TimerTypeOK
<1>2. \A i \in 0 .. Len(timerList) : Sums(timerList)[i] \in Nat
  BY <1>1, SumsNat
<1>3. ASSUME NEW i \in 1 .. Len(timerList) PROVE Sums(timerList)[i] > 0
  <2>1. 1 \in 1 .. Len(timerList) /\ 1 \in 0 .. Len(timerList) /\ i \in 1 .. Len(timerList)
        /\ i \in 0 .. Len(timerList) /\ timerList # <<>>
    BY <1>1
  <2>2. Sums(timerList)[1] = Sums(timerList)[1 - 1] + timerList[1].expires /\ Sums(timerList)[0] = 0
    BY <1>1, <2>1, SumsStep
  <2>3. timerList[1].expires > 0 /\ timerList[1].expires \in Nat
    BY <1>1, <2>1 DEF TimerInv, HeadNotDue
  <2>4. Sums(timerList)[1] <= Sums(timerList)[i]
    BY <1>1, <2>1, SumsGrow
  <2>5. Sums(timerList)[1] \in Nat /\ Sums(timerList)[i] \in Nat
    BY <1>2, <2>1
  <2> QED BY <2>2, <2>3, <2>4, <2>5
<1> QED BY <1>1, <1>2, <1>3 DEF TimerInv, ProcsOK

LEMMA InitMaps == TimerInit => Abstract!Init
<1> SUFFICES ASSUME TimerInit PROVE Abstract!Init
  OBVIOUS
<1>1. timerList = <<>> /\ rung = {}
  BY DEF TimerInit
<1>2. \A p \in Sleepers : LeftIn(timerList, p) = 0
  BY <1>1 DEF LeftIn, Has
<1> QED BY <1>1, <1>2 DEF Abstract!Init

(* add_timer sets the timer of the process and leaves the others.          *)
LEMMA AddMaps ==
  ASSUME TimerInv, TimerInv', NEW p \in Sleepers, NEW t \in 1 .. MaxTicks, AddTimer(p, t)
  PROVE  Abstract!Set(p, t)
<1> DEFINE L == timerList
           M == timerList'
           k == PlaceFor(L, t)
           n == Len(L)
<1>1. /\ L \in Seq(Timers) /\ n \in Nat /\ DOMAIN L = 1 .. n
      /\ \A i, j \in DOMAIN L : L[i].proc = L[j].proc => i = j
      /\ \A i \in DOMAIN L : L[i].proc \in inSleep
      /\ (L # <<>> => L[1].expires > 0)
  BY ListFacts DEF TimerInv, HeadNotDue
<1>2. p \notin inSleep /\ M = Inserted(L, p, t) /\ rung' = rung
  BY DEF AddTimer
<1>3. /\ k \in 1 .. n + 1 /\ Len(M) = n + 1
      /\ \A i \in 1 .. n + 1 : M[i].proc = IF i < k THEN L[i].proc ELSE IF i = k THEN p ELSE L[i - 1].proc
      /\ \A i \in 0 .. n + 1 :
           Sums(M)[i] = IF i < k THEN Sums(L)[i] ELSE IF i = k THEN t ELSE Sums(L)[i - 1]
  BY <1>1, <1>2, InsertedIs, SMTT(30)
<1>4. Len(M) \in Nat /\ DOMAIN M = 1 .. Len(M) /\ \A i, j \in DOMAIN M : M[i].proc = M[j].proc => i = j
  BY Typed DEF TimerInv, TimerTypeOK, ProcsOK
<1> HIDE DEF L, M, k, n
<1>5. /\ \A i \in 1 .. n : LeftIn(L, L[i].proc) = Sums(L)[i]
      /\ \A q : (\A i \in 1 .. n : L[i].proc # q) => LeftIn(L, q) = 0
  BY <1>1, LeftIs DEF n
<1>6. /\ \A i \in 1 .. n + 1 : LeftIn(M, M[i].proc) = Sums(M)[i]
      /\ \A q : (\A i \in 1 .. n + 1 : M[i].proc # q) => LeftIn(M, q) = 0
  <2>1. /\ \A i \in 1 .. Len(M) : LeftIn(M, M[i].proc) = Sums(M)[i]
        /\ \A q : (\A i \in 1 .. Len(M) : M[i].proc # q) => LeftIn(M, q) = 0
    BY <1>4, LeftIs
  <2> QED BY <1>3, <2>1
<1>7. LeftIn(L, p) = 0
  BY <1>1, <1>2, <1>5
<1>8. LeftIn(M, p) = t
  <2>1. k \in 0 .. n + 1 /\ M[k].proc = p /\ Sums(M)[k] = t
    BY <1>1, <1>3
  <2> QED BY <1>3, <1>6, <2>1
<1>9. ASSUME NEW q, q # p PROVE LeftIn(M, q) = LeftIn(L, q)
  <2>1. CASE \E i \in 1 .. n : L[i].proc = q
    <3>1. PICK i \in 1 .. n : L[i].proc = q
      BY <2>1
    <3> DEFINE j == IF i < k THEN i ELSE i + 1
    <3>2. j \in 1 .. n + 1 /\ j \in 0 .. n + 1 /\ j # k /\ (IF j < k THEN j ELSE j - 1) = i
      BY <1>1, <1>3
    <3> HIDE DEF j
    <3>3. M[j].proc = q /\ Sums(M)[j] = Sums(L)[i]
      BY <1>3, <3>1, <3>2
    <3> QED BY <1>5, <1>6, <3>1, <3>2, <3>3
  <2>2. CASE ~\E i \in 1 .. n : L[i].proc = q
    <3>1. ASSUME NEW j \in 1 .. n + 1 PROVE M[j].proc # q
      <4>1. j < k => j \in 1 .. n
        BY <1>1, <1>3
      <4>2. j > k => j - 1 \in 1 .. n
        BY <1>1, <1>3
      <4> QED BY <1>3, <1>9, <2>2, <4>1, <4>2
    <3> QED BY <1>5, <1>6, <2>2, <3>1
  <2> QED BY <2>1, <2>2
<1>10. left[p] = 0 /\ left' = [left EXCEPT ![p] = t]
  <2>1. left = [q \in Sleepers |-> LeftIn(L, q)] /\ left' = [q \in Sleepers |-> LeftIn(M, q)]
    BY DEF left, L, M
  <2> QED BY <1>7, <1>8, <1>9, <2>1
<1> QED BY <1>2, <1>10 DEF Abstract!Set, left

(* del_timer removes the timer of the process and leaves the others.       *)
LEMMA DelMaps ==
  ASSUME TimerInv, TimerInv', NEW p \in Sleepers, DelTimer(p)
  PROVE  Abstract!Remove(p)
<1> DEFINE L == timerList
           M == timerList'
           k == PlaceOf(L, p)
           n == Len(L)
<1>1. /\ L \in Seq(Timers) /\ n \in Nat /\ DOMAIN L = 1 .. n
      /\ \A i, j \in DOMAIN L : L[i].proc = L[j].proc => i = j
      /\ \A i \in 0 .. Len(L) : Sums(L)[i] <= MaxTicks
  BY ListFacts DEF TimerInv, SumsOK
<1>2. M = (IF Has(L, p) THEN Deleted(L, k) ELSE L) /\ rung' = rung
  BY DEF DelTimer
<1>3. /\ \A i \in 1 .. n : LeftIn(L, L[i].proc) = Sums(L)[i]
      /\ \A q : (\A i \in 1 .. n : L[i].proc # q) => LeftIn(L, q) = 0
  BY <1>1, LeftIs
<1>4. Len(M) \in Nat /\ DOMAIN M = 1 .. Len(M) /\ \A i, j \in DOMAIN M : M[i].proc = M[j].proc => i = j
  BY Typed DEF TimerInv, TimerTypeOK, ProcsOK
<1>5. LeftIn(M, p) = 0 /\ \A q : q # p => LeftIn(M, q) = LeftIn(L, q)
  <2>1. CASE ~Has(L, p)
    <3>1. M = L /\ \A i \in 1 .. n : L[i].proc # p
      BY <1>1, <1>2, <2>1 DEF Has
    <3> QED BY <1>3, <3>1
  <2>2. CASE Has(L, p)
    <3>1. k \in 1 .. n /\ L[k].proc = p /\ M = Deleted(L, k)
      BY <1>1, <1>2, <2>2, PlaceIn
    <3> HIDE DEF k
    <3>2. /\ Len(M) = Len(L) - 1
          /\ \A i \in 1 .. Len(M) : M[i].proc = IF i < k THEN L[i].proc ELSE L[i + 1].proc
          /\ \A i \in 0 .. Len(M) : Sums(M)[i] = IF i < k THEN Sums(L)[i] ELSE Sums(L)[i + 1]
      <4>1. L \in Seq(Timers) /\ k \in 1 .. Len(L) /\ \A i \in 0 .. Len(L) : Sums(L)[i] <= MaxTicks
        BY <1>1, <3>1
      <4> DEFINE new == Deleted(L, k)
      <4> HIDE DEF L
      <4>2. /\ Len(new) = Len(L) - 1
            /\ \A i \in 1 .. Len(new) : new[i].proc = IF i < k THEN L[i].proc ELSE L[i + 1].proc
            /\ \A i \in 0 .. Len(new) : Sums(new)[i] = IF i < k THEN Sums(L)[i] ELSE Sums(L)[i + 1]
        BY <4>1, DeletedIs, SMTT(60)
      <4>3. M = new
        BY <3>1
      <4> HIDE DEF new, M
      <4> QED BY <4>2, <4>3
    <3>3. /\ \A i \in 1 .. Len(M) : LeftIn(M, M[i].proc) = Sums(M)[i]
          /\ \A q : (\A i \in 1 .. Len(M) : M[i].proc # q) => LeftIn(M, q) = 0
      BY <1>4, LeftIs
    <3> HIDE DEF L, M
    <3>4. Len(M) = n - 1
      BY <3>2
    <3> HIDE DEF n
    <3>5. ASSUME NEW j \in 1 .. n - 1
          PROVE  \E i \in 1 .. n : i # k /\ M[j].proc = L[i].proc
      <4>1. (IF j < k THEN j ELSE j + 1) \in 1 .. n /\ (IF j < k THEN j ELSE j + 1) # k
        BY <1>1, <3>1
      <4> QED BY <3>2, <3>4, <4>1
    <3>6. LeftIn(M, p) = 0
      <4>1. ASSUME NEW j \in 1 .. n - 1 PROVE M[j].proc # p
        BY <1>1, <3>1, <3>5
      <4> QED BY <3>3, <3>4, <4>1
    <3>7. ASSUME NEW q, q # p PROVE LeftIn(M, q) = LeftIn(L, q)
      <4>1. CASE \E i \in 1 .. n : L[i].proc = q
        <5>1. PICK i \in 1 .. n : L[i].proc = q
          BY <4>1
        <5> DEFINE j == IF i < k THEN i ELSE i - 1
        <5>2. i # k
          BY <3>1, <3>7, <5>1
        <5>3. j \in 1 .. n - 1 /\ j \in 0 .. n - 1 /\ (IF j < k THEN j ELSE j + 1) = i
          BY <1>1, <3>1, <5>2
        <5> HIDE DEF j
        <5>4. M[j].proc = q /\ Sums(M)[j] = Sums(L)[i]
          BY <3>2, <3>4, <5>1, <5>3
        <5> QED BY <1>3, <3>3, <3>4, <5>1, <5>3, <5>4
      <4>2. CASE ~\E i \in 1 .. n : L[i].proc = q
        <5>1. ASSUME NEW j \in 1 .. n - 1 PROVE M[j].proc # q
          BY <3>5, <4>2
        <5> QED BY <1>3, <3>3, <3>4, <4>2, <5>1
      <4> QED BY <4>1, <4>2
    <3> QED BY <3>6, <3>7
  <2> QED BY <2>1, <2>2
<1> HIDE DEF L, M, k, n
<1>6. left' = [left EXCEPT ![p] = 0]
  <2>1. left = [q \in Sleepers |-> LeftIn(L, q)] /\ left' = [q \in Sleepers |-> LeftIn(M, q)]
    BY DEF left, L, M
  <2> QED BY <1>5, <2>1
<1> QED BY <1>2, <1>6 DEF Abstract!Remove, left

(* A tick rings the timers with one tick left and takes one from the rest. *)
LEMMA TickMaps ==
  ASSUME TimerInv, TimerInv', RunTimerList
  PROVE  Abstract!Tick
<1> DEFINE L == timerList
           M == timerList'
           n == Len(L)
<1>1. /\ n \in Nat /\ DOMAIN L = 1 .. n
      /\ \A i \in 1 .. n : L[i].proc \in Sleepers
      /\ \A i, j \in DOMAIN L : L[i].proc = L[j].proc => i = j
      /\ \A i \in 1 .. n : Sums(L)[i] > 0
      /\ \A i \in 0 .. n : Sums(L)[i] \in Nat
  BY ListFacts
<1>2. /\ \A i \in 1 .. n : LeftIn(L, L[i].proc) = Sums(L)[i]
      /\ \A q : (\A i \in 1 .. n : L[i].proc # q) => LeftIn(L, q) = 0
  BY <1>1, LeftIs
<1>3. Len(M) \in Nat /\ DOMAIN M = 1 .. Len(M) /\ \A i, j \in DOMAIN M : M[i].proc = M[j].proc => i = j
  BY Typed DEF TimerInv, TimerTypeOK, ProcsOK
<1>4. PICK k \in 0 .. n :
        /\ rung' = {L[i].proc : i \in 1 .. k}
        /\ \A i \in 1 .. n : i <= k <=> Sums(L)[i] = 1
        /\ Len(M) = n - k
        /\ \A i \in 1 .. Len(M) : M[i].proc = L[k + i].proc
        /\ \A i \in 0 .. Len(M) : Sums(M)[i] = IF i = 0 THEN 0 ELSE Sums(L)[k + i] - 1
  BY TickIs
<1>5. /\ \A i \in 1 .. n - k : LeftIn(M, M[i].proc) = Sums(M)[i]
      /\ \A q : (\A i \in 1 .. n - k : M[i].proc # q) => LeftIn(M, q) = 0
  BY <1>3, <1>4, LeftIs
<1> HIDE DEF L, M, n
<1>6. ASSUME NEW q \in Sleepers
      PROVE  /\ q \in rung' <=> LeftIn(L, q) = 1
             /\ LeftIn(M, q) = IF LeftIn(L, q) > 0 THEN LeftIn(L, q) - 1 ELSE 0
  <2>1. CASE \E i \in 1 .. n : L[i].proc = q
    <3>1. PICK i \in 1 .. n : L[i].proc = q
      BY <2>1
    <3>2. LeftIn(L, q) = Sums(L)[i] /\ Sums(L)[i] > 0 /\ Sums(L)[i] \in Nat
      BY <1>1, <1>2, <3>1
    <3>3. \A j \in 1 .. n : L[j].proc = q => j = i
      BY <1>1, <3>1
    <3>4. q \in rung' <=> i <= k
      <4>1. ASSUME q \in rung' PROVE i <= k
        <5>1. PICK j \in 1 .. k : L[j].proc = q
          BY <1>4, <4>1
        <5>2. j \in 1 .. n
          BY <1>1
        <5> QED BY <3>3, <5>1, <5>2
      <4>2. ASSUME i <= k PROVE q \in rung'
        BY <1>1, <1>4, <3>1, <4>2
      <4> QED BY <4>1, <4>2
    <3>5. CASE i <= k
      <4>1. ASSUME NEW j \in 1 .. n - k PROVE M[j].proc # q
        <5>1. k + j \in 1 .. n /\ k + j # i
          BY <1>1, <3>5
        <5> QED BY <1>4, <3>3, <5>1
      <4>2. LeftIn(M, q) = 0 /\ Sums(L)[i] = 1
        BY <1>4, <1>5, <3>5, <4>1
      <4> QED BY <3>2, <3>4, <3>5, <4>2
    <3>6. CASE ~(i <= k)
      <4>1. i - k \in 1 .. n - k /\ i - k \in 0 .. n - k /\ k + (i - k) = i /\ i - k # 0
        BY <1>1, <3>6
      <4>2. M[i - k].proc = q /\ Sums(M)[i - k] = Sums(L)[i] - 1 /\ Sums(L)[i] # 1
        BY <1>4, <3>1, <3>6, <4>1
      <4>3. LeftIn(M, q) = Sums(L)[i] - 1
        BY <1>5, <4>1, <4>2
      <4> QED BY <3>2, <3>4, <3>6, <4>2, <4>3
    <3> QED BY <3>5, <3>6
  <2>2. CASE ~\E i \in 1 .. n : L[i].proc = q
    <3>1. LeftIn(L, q) = 0
      BY <1>2, <2>2
    <3>2. q \notin rung'
      <4>1. \A i \in 1 .. k : i \in 1 .. n
        BY <1>1
      <4> QED BY <1>4, <2>2, <4>1
    <3>3. ASSUME NEW j \in 1 .. n - k PROVE M[j].proc # q
      <4>1. k + j \in 1 .. n
        BY <1>1
      <4> QED BY <1>4, <2>2, <4>1
    <3>4. LeftIn(M, q) = 0
      BY <1>5, <3>3
    <3> QED BY <3>1, <3>2, <3>4
  <2> QED BY <2>1, <2>2
<1>7. rung' \subseteq Sleepers
  <2>1. \A i \in 1 .. k : i \in 1 .. n
    BY <1>1
  <2> QED BY <1>1, <1>4, <2>1
<1>8. left = [q \in Sleepers |-> LeftIn(L, q)] /\ left' = [q \in Sleepers |-> LeftIn(M, q)]
  BY DEF left, L, M
<1>9. rung' = {q \in Sleepers : left[q] = 1}
  BY <1>6, <1>7, <1>8
<1>10. left' = [q \in Sleepers |-> IF left[q] > 0 THEN left[q] - 1 ELSE 0]
  BY <1>6, <1>8
<1> QED BY <1>9, <1>10 DEF Abstract!Tick, left

LEMMA NextMaps ==
  ASSUME TimerInv, TimerInv', [TimerNext]_timerVars
  PROVE  [Abstract!Next]_<<left, rung>>
<1>1. ASSUME NEW p \in Sleepers, NEW t \in 1 .. MaxTicks, AddTimer(p, t)
      PROVE  Abstract!Next
  BY <1>1, AddMaps DEF Abstract!Next
<1>2. ASSUME NEW p \in Sleepers, DelTimer(p)
      PROVE  Abstract!Next
  BY <1>2, DelMaps DEF Abstract!Next
<1>3. ASSUME RunTimerList
      PROVE  Abstract!Next
  BY <1>3, TickMaps DEF Abstract!Next
<1>4. ASSUME UNCHANGED timerVars
      PROVE  UNCHANGED <<left, rung>>
  BY <1>4 DEF timerVars, left
<1> QED BY <1>1, <1>2, <1>3, <1>4 DEF TimerNext

(* AlarmSpec: the list of timers implements Alarm, for any sleepers and    *)
(* any times: each timer rings at the tick it was set for, with all others *)
(* that are due then, whatever is set and removed around it.               *)
THEOREM ListIsAlarm == TimerSpec => AlarmSpec
<1>1. TimerInit => Abstract!Init
  BY InitMaps
<1>2. TimerInv /\ TimerInv' /\ [TimerNext]_timerVars => [Abstract!Next]_<<left, rung>>
  BY NextMaps
<1> QED BY <1>1, <1>2, TimerInvariance, PTL DEF TimerSpec, AlarmSpec, Abstract!Spec, left
-----------------------------------------------------------------------------
(* The list of processes and their pids.                                   *)

Skipped == Fresh!Between(issued, lastPid)

PidInv ==
  /\ PidTypeOK
  /\ at = 0 => lastPid = issued /\ lastPid <= nextSafe
  /\ at # 0 => lastPid < nextSafe /\ Skipped \subseteq Live
  /\ NextSafeTrue
  /\ PidsUnique

(* RemoveAt of a list of pids: one entry less, the others keep their order.*)
LEMMA RemoveAtKeeps ==
  ASSUME NEW s \in Seq(Pids), NEW i \in DOMAIN s
  PROVE  /\ RemoveAt(s, i) \in Seq(Pids)
         /\ Len(RemoveAt(s, i)) = Len(s) - 1
         /\ \A j \in 1 .. Len(s) - 1 : RemoveAt(s, i)[j] = IF j < i THEN s[j] ELSE s[j + 1]
<1> DEFINE front == SubSeq(s, 1, i - 1)
           back  == SubSeq(s, i + 1, Len(s))
<1>1. RemoveAt(s, i) = front \o back
  BY DEF RemoveAt
<1>2. front \in Seq(Pids) /\ Len(front) = i - 1 /\ \A j \in 1 .. i - 1 : front[j] = s[j]
  BY SubSeqProperties
<1>3. /\ back \in Seq(Pids) /\ Len(back) = Len(s) - i
      /\ \A j \in 1 .. Len(s) - i : back[j] = s[i + j]
  BY SubSeqProperties
<1>4. i \in 1 .. Len(s) /\ Len(s) \in Nat
  OBVIOUS
<1> HIDE DEF front, back
<1>5. /\ front \o back \in Seq(Pids)
      /\ Len(front \o back) = Len(front) + Len(back)
      /\ \A j \in 1 .. Len(front) + Len(back) :
           (front \o back)[j] = IF j <= Len(front) THEN front[j] ELSE back[j - Len(front)]
  BY <1>2, <1>3, ConcatProperties, Zenon
<1>6. Len(front) + Len(back) = Len(s) - 1
  BY <1>2, <1>3, <1>4
<1> DEFINE both == front \o back
<1> HIDE DEF both
<1>7. ASSUME NEW j \in 1 .. Len(s) - 1
      PROVE  both[j] = IF j < i THEN s[j] ELSE s[j + 1]
  <2>1. both[j] = IF j <= i - 1 THEN front[j] ELSE back[j - (i - 1)]
    BY <1>2, <1>5, <1>6 DEF both
  <2>2. CASE j < i
    BY <2>1, <2>2, <1>2, <1>4
  <2>3. CASE ~(j < i)
    <3>1. j - (i - 1) \in 1 .. Len(s) - i /\ i + (j - (i - 1)) = j + 1
      BY <2>3, <1>4
    <3>2. back[j - (i - 1)] = s[j + 1]
      BY <3>1, <1>3
    <3> QED BY <2>1, <2>3, <3>2, <1>4
  <2> QED BY <2>2, <2>3
<1> QED BY <1>1, <1>5, <1>6, <1>7 DEF both

-----------------------------------------------------------------------------
LEMMA PidInitHolds == PidInit => PidInv
  BY PidAssumption DEF PidInit, PidInv, PidTypeOK, Pids, NextSafeTrue, PidsUnique

(* The fast path and the start of a scan.                                  *)
LEMMA GetPidKeeps == PidInv /\ GetPid => PidInv'
<1> SUFFICES ASSUME PidInv, GetPid PROVE PidInv'
  OBVIOUS
<1> USE PidAssumption DEF PidInv, PidTypeOK, Pids
<1>1. PidTypeOK'
  BY DEF GetPid, WrappedPid
<1>2. at' # 0 /\ lastPid' < nextSafe' /\ Skipped' \subseteq Live'
  BY DEF GetPid, WrappedPid, Skipped, Fresh!Between, Fresh!Pids
<1>3. NextSafeTrue'
  BY DEF GetPid, WrappedPid, NextSafeTrue
<1>4. PidsUnique'
  BY DEF GetPid, PidsUnique
<1> QED BY <1>1, <1>2, <1>3, <1>4

(* One turn of the loop.                                                   *)
LEMMA ScanKeeps == PidInv /\ Scan => PidInv'
<1> SUFFICES ASSUME PidInv, Scan PROVE PidInv'
  OBVIOUS
<1> USE PidAssumption DEF PidInv, PidTypeOK, Pids, Scan
<1>1. at # 0 /\ procList[at] \in Pids /\ procList[at] \in Live
  BY DEF Live
<1>2. CASE Taken
  <2>1. PidTypeOK'
    BY <1>1, <1>2, SMTT(30) DEF Taken, WrappedPid
  <2>2. at' # 0 /\ lastPid' < nextSafe'
    BY <1>1, <1>2 DEF Taken, WrappedPid
  <2>3. Skipped' \subseteq Skipped \cup {lastPid}
    BY <1>1, <1>2 DEF Taken, WrappedPid, Skipped, Fresh!Between, Fresh!Pids
  <2>4. Skipped' \subseteq Live'
    BY <1>1, <1>2, <2>3 DEF Taken, Live
  <2>5. ASSUME NEW i \in DOMAIN procList, i < at'
        PROVE  ~(lastPid' <= procList[i] /\ procList[i] < nextSafe')
    <3>1. CASE at' = 1
      BY <3>1, <2>5
    <3>2. CASE at' # 1
      <4>1. lastPid' = lastPid + 1 /\ nextSafe' = nextSafe /\ at' = at + 1
        BY <1>2, <3>2 DEF Taken
      <4>2. procList[i] \in Pids /\ (i = at => procList[i] = lastPid)
        BY <1>2 DEF Taken
      <4>3. i < at => ~(lastPid <= procList[i] /\ procList[i] < nextSafe)
        BY <1>1 DEF NextSafeTrue
      <4> QED BY <4>1, <4>2, <4>3, <2>5, SMTT(30)
    <3> QED BY <3>1, <3>2
  <2>6. NextSafeTrue'
    BY <2>2, <2>5 DEF NextSafeTrue
  <2> QED BY <2>1, <2>2, <2>4, <2>6 DEF PidsUnique
<1>3. CASE Other
  <2>1. PidTypeOK'
    BY <1>1, <1>3 DEF Other
  <2>2. at' # 0 /\ lastPid' < nextSafe'
    BY <1>1, <1>3 DEF Other
  <2>3. Skipped' \subseteq Live'
    BY <1>1, <1>3 DEF Other, Skipped, Live
  <2>4. NextSafeTrue'
    BY <1>1, <1>3, SMTT(30) DEF Other, NextSafeTrue
  <2> QED BY <2>1, <2>2, <2>3, <2>4 DEF PidsUnique
<1> QED BY <1>2, <1>3

(* The pid that is returned is free.                                       *)
LEMMA LinkFree ==
  ASSUME PidInv, Link
  PROVE  /\ lastPid \in Pids \ Live
         /\ Skipped \subseteq Live
         /\ Live' = Live \cup {lastPid}
         /\ procList' \in Seq(Pids) /\ Len(procList') = Len(procList) + 1
         /\ \A i \in 1 .. Len(procList) + 1 :
              procList'[i] = IF i = 1 THEN lastPid ELSE procList[i - 1]
<1> USE PidAssumption DEF PidInv, PidTypeOK, Pids, Link
<1>1. at # 0 /\ lastPid \in Pids
  OBVIOUS
<1>2. procList' \in Seq(Pids) /\ Len(procList') = Len(procList) + 1
  BY <1>1
<1>3. \A i \in 1 .. Len(procList) + 1 :
        procList'[i] = IF i = 1 THEN lastPid ELSE procList[i - 1]
  BY <1>1
<1>4. ASSUME NEW i \in DOMAIN procList
      PROVE  procList[i] # lastPid
  <2>1. i < at /\ lastPid < nextSafe
    BY <1>1
  <2>2. ~(lastPid <= procList[i] /\ procList[i] < nextSafe)
    BY <1>1, <2>1 DEF NextSafeTrue
  <2> QED BY <2>1, <2>2
<1>5. Live' \subseteq Live \cup {lastPid}
  BY <1>2, <1>3 DEF Live
<1>6. ASSUME NEW i \in DOMAIN procList
      PROVE  procList[i] \in Live'
  <2>1. i + 1 \in DOMAIN procList' /\ procList'[i + 1] = procList[i]
    BY <1>2, <1>3
  <2> QED BY <2>1 DEF Live
<1>7. lastPid \in Live'
  <2>1. 1 \in DOMAIN procList' /\ procList'[1] = lastPid
    BY <1>2, <1>3
  <2> QED BY <2>1 DEF Live
<1>8. Live' = Live \cup {lastPid}
  BY <1>5, <1>6, <1>7 DEF Live
<1>9. lastPid \notin Live
  BY <1>4 DEF Live
<1> QED BY <1>1, <1>2, <1>3, <1>8, <1>9

LEMMA LinkKeeps == PidInv /\ Link => PidInv'
<1> SUFFICES ASSUME PidInv, Link PROVE PidInv'
  OBVIOUS
<1> USE PidAssumption DEF PidInv, PidTypeOK, Pids
<1>1. /\ lastPid \in Pids \ Live
      /\ procList' \in Seq(Pids) /\ Len(procList') = Len(procList) + 1
      /\ \A i \in 1 .. Len(procList) + 1 :
           procList'[i] = IF i = 1 THEN lastPid ELSE procList[i - 1]
  BY LinkFree
<1>2. PidTypeOK'
  BY <1>1 DEF Link
<1>3. at' = 0 /\ lastPid' = issued' /\ lastPid' <= nextSafe'
  BY <1>1 DEF Link
<1>4. ASSUME NEW i \in DOMAIN procList'
      PROVE  ~(lastPid' < procList'[i] /\ procList'[i] < nextSafe')
  <2>1. CASE i = 1
    BY <2>1, <1>1 DEF Link
  <2>2. CASE i # 1
    <3>1. i - 1 \in DOMAIN procList /\ i - 1 < at /\ procList'[i] = procList[i - 1]
      BY <2>2, <1>1 DEF Link
    <3>2. ~(lastPid <= procList[i - 1] /\ procList[i - 1] < nextSafe)
      BY <3>1 DEF NextSafeTrue, Link
    <3> QED BY <3>1, <3>2 DEF Link
  <2> QED BY <2>1, <2>2
<1>5. NextSafeTrue'
  BY <1>3, <1>4 DEF NextSafeTrue
<1>6. ASSUME NEW i \in DOMAIN procList', NEW j \in DOMAIN procList', procList'[i] = procList'[j]
      PROVE  i = j
  <2>1. \A k \in DOMAIN procList' : k # 1 =>
           k - 1 \in DOMAIN procList /\ procList'[k] = procList[k - 1] /\ procList[k - 1] # lastPid
    BY <1>1, SMTT(30) DEF Live
  <2>2. procList'[1] = lastPid
    BY <1>1
  <2>3. i = 1 <=> j = 1
    BY <1>6, <2>1, <2>2
  <2>4. CASE i # 1 /\ j # 1
    <3>1. i - 1 = j - 1
      BY <1>6, <2>1, <2>4 DEF PidsUnique
    <3>2. i \in Nat /\ j \in Nat
      BY <1>1
    <3> QED BY <3>1, <3>2
  <2> QED BY <2>3, <2>4
<1> QED BY <1>2, <1>3, <1>5, <1>6 DEF PidsUnique

(* What a process that is reaped leaves behind.                            *)
LEMMA UnlinkFrees ==
  ASSUME PidInv, NEW i \in DOMAIN procList, Unlink(i)
  PROVE  /\ procList' \in Seq(Pids) /\ Len(procList') = Len(procList) - 1
         /\ \A j \in 1 .. Len(procList) - 1 :
              procList'[j] = IF j < i THEN procList[j] ELSE procList[j + 1]
         /\ procList[i] \in Live /\ Live' = Live \ {procList[i]}
<1> USE DEF PidInv, PidTypeOK
<1>1. /\ procList' \in Seq(Pids) /\ Len(procList') = Len(procList) - 1
      /\ \A j \in 1 .. Len(procList) - 1 :
           procList'[j] = IF j < i THEN procList[j] ELSE procList[j + 1]
  BY RemoveAtKeeps DEF Unlink
<1>2. ASSUME NEW j \in DOMAIN procList'
      PROVE  procList'[j] \in Live \ {procList[i]}
  <2> DEFINE k == IF j < i THEN j ELSE j + 1
  <2>1. k \in DOMAIN procList /\ k # i /\ procList'[j] = procList[k]
    BY <1>1, SMTT(30)
  <2> HIDE DEF k
  <2> QED BY <2>1 DEF Live, PidsUnique
<1>3. ASSUME NEW k \in DOMAIN procList, k # i
      PROVE  procList[k] \in Live'
  <2>1. PICK j \in DOMAIN procList' : procList'[j] = procList[k]
    <3>1. CASE k < i
      BY <3>1, <1>1
    <3>2. CASE k > i
      <4>1. k - 1 \in DOMAIN procList' /\ procList'[k - 1] = procList[k]
        BY <3>2, <1>1
      <4> QED BY <4>1
    <3> QED BY <3>1, <3>2, <1>3
  <2> QED BY <2>1 DEF Live
<1>4. Live' = Live \ {procList[i]}
  BY <1>2, <1>3 DEF Live
<1> QED BY <1>1, <1>4 DEF Live

LEMMA UnlinkKeeps ==
  ASSUME PidInv, NEW i \in DOMAIN procList, Unlink(i)
  PROVE  PidInv'
<1> USE PidAssumption DEF PidInv, PidTypeOK, Pids
<1>1. /\ procList' \in Seq(Pids) /\ Len(procList') = Len(procList) - 1
      /\ \A j \in 1 .. Len(procList) - 1 :
           procList'[j] = IF j < i THEN procList[j] ELSE procList[j + 1]
  BY UnlinkFrees
<1> HIDE DEF PidInv, PidTypeOK, Pids
<1>8. /\ Len(procList) \in Nat /\ DOMAIN procList = 1 .. Len(procList)
      /\ DOMAIN procList' = 1 .. Len(procList) - 1
  <2>1. procList \in Seq(Pids) /\ procList' \in Seq(Pids)
    BY <1>1 DEF PidInv, PidTypeOK
  <2>2. Len(procList') = Len(procList) - 1
    BY <1>1
  <2> HIDE <1>1
  <2> QED BY <2>1, <2>2
<1> USE DEF PidInv, PidTypeOK, Pids
<1>2. PidTypeOK'
  BY <1>1 DEF Unlink
<1>3. at' = 0 /\ lastPid' = issued' /\ lastPid' <= nextSafe'
  BY DEF Unlink
<1> DEFINE old(j) == IF j < i THEN j ELSE j + 1
<1>4. ASSUME NEW j \in DOMAIN procList'
      PROVE  old(j) \in DOMAIN procList /\ procList'[j] = procList[old(j)]
  <2>1. j \in 1 .. Len(procList) - 1 /\ Len(procList) \in Nat
    BY ONLY <1>8, j \in DOMAIN procList'
  <2>2. j \in DOMAIN procList /\ j + 1 \in DOMAIN procList
    BY ONLY <1>8, <2>1
  <2>3. procList'[j] = IF j < i THEN procList[j] ELSE procList[j + 1]
    BY <1>1, <2>1
  <2>4. CASE j < i
    BY <2>2, <2>3, <2>4
  <2>5. CASE ~(j < i)
    BY <2>2, <2>3, <2>5
  <2> QED BY <2>4, <2>5
<1>5. ASSUME NEW j \in DOMAIN procList', NEW k \in DOMAIN procList', old(j) = old(k)
      PROVE  j = k
  <2>1. i \in Nat /\ j \in Nat /\ k \in Nat
    BY <1>8
  <2> QED BY <2>1, <1>5
<1> HIDE DEF old
<1>6. NextSafeTrue'
  BY <1>3, <1>4 DEF NextSafeTrue, Unlink
<1>7. PidsUnique'
  BY <1>4, <1>5 DEF PidsUnique
<1> QED BY <1>2, <1>3, <1>6, <1>7

LEMMA PidNextHolds == PidInv /\ [PidNext]_pidVars => PidInv'
<1> SUFFICES ASSUME PidInv, [PidNext]_pidVars PROVE PidInv'
  OBVIOUS
<1>1. CASE GetPid
  BY <1>1, GetPidKeeps
<1>2. CASE Scan
  BY <1>2, ScanKeeps
<1>3. CASE Link
  BY <1>3, LinkKeeps
<1>4. CASE \E i \in DOMAIN procList : Unlink(i)
  BY <1>4, UnlinkKeeps
<1>5. CASE UNCHANGED pidVars
  BY <1>5 DEF pidVars, PidInv, PidTypeOK, NextSafeTrue, PidsUnique, Skipped, Fresh!Between, Live
<1> QED BY <1>1, <1>2, <1>3, <1>4, <1>5 DEF PidNext

LEMMA PidInvariance == PidSpec => []PidInv
  BY PidInitHolds, PidNextHolds, PTL DEF PidSpec

(* The variables keep their types; last_pid stays in 1 .. MAX_PID.         *)
THEOREM PidTypeCorrect == PidSpec => []PidTypeOK
  BY PidInvariance, PTL DEF PidInv

(* What next_safe says of the list is true whenever it is relied on.       *)
THEOREM NextSafeCorrect == PidSpec => []NextSafeTrue
  BY PidInvariance, PTL DEF PidInv

(* No two processes have the same pid, for any MAX_PID above MAX_PROCESS   *)
(* and any order of forks and exits.                                       *)
THEOREM PidsNeverShared == PidSpec => []PidsUnique
  BY PidInvariance, PTL DEF PidInv

(* get_pid returns a free pid, the first one above the last, cyclically.   *)
THEOREM GetPidIsFresh == PidSpec => FreshSpec
<1>1. PidInit => Fresh!Init
  BY DEF PidInit, Fresh!Init, Live
<1>2. PidInv /\ [PidNext]_pidVars => [Fresh!Next]_<<Live, issued>>
  <2> SUFFICES ASSUME PidInv, [PidNext]_pidVars PROVE [Fresh!Next]_<<Live, issued>>
    OBVIOUS
  <2>1. CASE Link
    <3>1. lastPid \in Pids \ Live /\ Skipped \subseteq Live /\ Live' = Live \cup {lastPid}
      BY <2>1, LinkFree
    <3>2. Fresh!Alloc
      BY <2>1, <3>1 DEF Link, Fresh!Alloc, Fresh!Pids, Pids, Skipped
    <3> QED BY <3>2 DEF Fresh!Next
  <2>2. CASE \E i \in DOMAIN procList : Unlink(i)
    <3>1. PICK i \in DOMAIN procList : Unlink(i)
      BY <2>2
    <3>2. procList[i] \in Live /\ Live' = Live \ {procList[i]}
      BY <3>1, UnlinkFrees
    <3>3. Fresh!Free
      BY <3>1, <3>2 DEF Unlink, Fresh!Free
    <3> QED BY <3>3 DEF Fresh!Next
  <2>3. CASE GetPid \/ Scan \/ UNCHANGED pidVars
    BY <2>3 DEF GetPid, Scan, pidVars, Live
  <2> QED BY <2>1, <2>2, <2>3 DEF PidNext
<1> QED BY <1>1, <1>2, PidInvariance, PTL DEF PidSpec, FreshSpec, Fresh!Spec

-----------------------------------------------------------------------------
(* Stride: the skew heap.                                                 *)

\* The strides are words.
StridesOK == stride \in [Sharers -> Strides]

\* p may be above c in the heap.
Before(p, c) == Comp(p, c) < 0 \/ ~(Comp(c, p) < 0)

Children(h, p) == {h.left[p], h.right[p]} \ {None}

\* The pointers of h make trees of the processes S, with the roots R.
Forest(h, S, R) ==
  /\ R \subseteq S
  /\ \A p \in S : Children(h, p) \subseteq S \ R
  /\ \A p \in S : h.left[p] = h.right[p] => h.left[p] = None
  /\ \A p \in S : \A c \in Children(h, p) : h.parent[c] = p
  /\ \A p \in S \ R : h.parent[p] \in S /\ p \in Children(h, h.parent[p])
  /\ \A p \in S : \A c \in Children(h, p) : Before(p, c)

\* d grows along the pointers, so that they lead nowhere in a circle.
Ranks(h, S, d) ==
  /\ d \in [S -> Nat]
  /\ \A p \in S : \A c \in Children(h, p) : d[p] < d[c]

-----------------------------------------------------------------------------
(* There are finitely many processes.                                      *)
LEMMA Sizes ==
  /\ Cardinality(Sharers) \in Nat
  /\ \A S \in SUBSET Sharers : /\ IsFiniteSet(S) /\ Cardinality(S) \in Nat
                             /\ Cardinality(S) <= Cardinality(Sharers)
<1>1. IsFiniteSet(Sharers)
  BY StrideAssumption
<1>2. Cardinality(Sharers) \in Nat
  BY <1>1, FS_CardinalityType
<1>3. ASSUME NEW S \in SUBSET Sharers
      PROVE  IsFiniteSet(S) /\ Cardinality(S) \in Nat /\ Cardinality(S) <= Cardinality(Sharers)
  <2>1. IsFiniteSet(S)
    BY <1>1, FS_Subset
  <2>2. Cardinality(S) \in Nat
    BY <2>1, FS_CardinalityType
  <2>3. Cardinality(S) <= Cardinality(Sharers)
    BY <1>1, FS_Subset
  <2> QED BY <2>1, <2>2, <2>3
<1> QED BY <1>2, <1>3

(* The recursion defines the calls of a merge: there is a function that    *)
(* satisfies it.                                                           *)
LEMMA CallsDefined ==
  ASSUME NEW h, NEW a, NEW b
  PROVE  /\ Calls(h, a, b)[0] = [h |-> h, a |-> a, b |-> b]
         /\ \A n \in 1 .. Cardinality(Sharers) :
              Calls(h, a, b)[n] = Call[Calls(h, a, b)[n - 1]]
<1> DEFINE N == Cardinality(Sharers)
           first == [h |-> h, a |-> a, b |-> b]
           Step(f, n) == IF n = 0 THEN first ELSE Call[f[n - 1]]
           Defined(m) == \E f : f = [n \in 0 .. m |-> Step(f, n)]
           T == {m \in Nat : ~Defined(m)}
<1>0. N \in Nat
  BY Sizes
<1>1. T = {}
  <2> SUFFICES ASSUME T # {} PROVE FALSE
    OBVIOUS
  <2>1. PICK m \in T : \A k \in T : m <= k
    BY Least
  <2>2. CASE m = 0
    <3> DEFINE g == [n \in 0 .. m |-> first]
    <3>1. g = [n \in 0 .. m |-> Step(g, n)]
      BY <2>2
    <3> QED BY <2>1, <3>1
  <2>3. CASE m # 0
    <3>1. m - 1 \in Nat /\ m - 1 \notin T
      <4>1. m \in Nat /\ T \subseteq Nat
        OBVIOUS
      <4> HIDE DEF T
      <4> QED BY <2>1, <2>3, <4>1
    <3>2. PICK f : f = [n \in 0 .. m - 1 |-> Step(f, n)]
      BY <3>1
    <3> DEFINE g == [n \in 0 .. m |-> IF n < m THEN f[n] ELSE Step(f, m)]
    <3>3. ASSUME NEW n \in 0 .. m PROVE g[n] = Step(g, n)
      <4>1. CASE n < m
        <5>1. n \in 0 .. m - 1 /\ g[n] = f[n] /\ f[n] = Step(f, n)
          BY <3>1, <3>2, <4>1
        <5>2. n # 0 => n - 1 \in 0 .. m /\ n - 1 < m /\ g[n - 1] = f[n - 1]
          BY <3>1, <4>1
        <5> QED BY <5>1, <5>2
      <4>2. CASE ~(n < m)
        <5>1. n = m /\ n - 1 \in 0 .. m /\ n - 1 < m
          BY <3>1, <4>2, <2>3
        <5>2. g[n - 1] = f[n - 1] /\ g[n] = Step(f, n)
          BY <5>1
        <5> QED BY <5>1, <5>2
      <4> QED BY <4>1, <4>2
    <3>4. g = [n \in 0 .. m |-> Step(g, n)]
      BY <3>3
    <3> QED BY <2>1, <3>4
  <2> QED BY <2>2, <2>3
<1>2. \E f : f = [n \in 0 .. N |-> Step(f, n)]
  BY <1>0, <1>1
<1> DEFINE x == Calls(h, a, b)
<1>3. x = [n \in 0 .. N |-> Step(x, n)]
  BY <1>2 DEF Calls
<1> HIDE DEF x
<1>4. x[0] = first /\ \A n \in 1 .. N : x[n] = Call[x[n - 1]]
  <2>1. \A n \in 0 .. N : x[n] = Step(x, n)
    BY <1>3
  <2>2. 0 \in 0 .. N /\ \A n \in 1 .. N : n \in 0 .. N /\ n # 0
    BY <1>0
  <2> HIDE DEF first, N
  <2> QED BY <2>1, <2>2
<1> QED BY <1>4 DEF x

-----------------------------------------------------------------------------
(* The comparison of two strides is a number.                              *)
LEMMA CompNumbers ==
  ASSUME StridesOK
  PROVE  \A p, q \in Sharers : Comp(p, q) \in Int
  BY BigStrideAssumption DEF StridesOK, Strides, Words, Comp, Signed

(* Who comes to the top of two roots may be above the other.               *)
LEMMA TopFirst ==
  ASSUME NEW a \in Links, NEW b \in Links
  PROVE  /\ Top(a, b) \in Links
         /\ a = None => Top(a, b) = b
         /\ b = None => Top(a, b) = a
         /\ a # None /\ b # None =>
              \/ Top(a, b) = a /\ Before(a, b)
              \/ Top(a, b) = b /\ Before(b, a)
  BY DEF Top, Before

\* p, with q on top of the rest of the two trees, on its left.
Relinked(h, g, p, q) ==
  /\ g.left = [h.left EXCEPT ![p] = q]
  /\ g.right = [h.right EXCEPT ![p] = h.left[p]]
  /\ g.parent = [h.parent EXCEPT ![q] = p]

\* What a call for a and b does that makes a nested one, for a1 and b1: p is on top, and
\* q will be what that one returns.
Turns(h, a, b, p, o, a1, b1, q, g) ==
  /\ p = Top(a, b) /\ {p, o} = {a, b} /\ Before(p, o)
  /\ {a1, b1} = {h.right[p], o} /\ q = Top(a1, b1) /\ q \in Sharers
  /\ Call[[h |-> h, a |-> a, b |-> b]] = [h |-> g, a |-> a1, b |-> b1]
  /\ Relinked(h, g, p, q)

(* A call of skew_heap_merge for two processes does that.                  *)
LEMMA CallTurns ==
  ASSUME NEW h \in Heaps, NEW a \in Sharers, NEW b \in Sharers
  PROVE  \E p, o \in Sharers, a1, b1, q \in Links, g \in Heaps :
           Turns(h, a, b, p, o, a1, b1, q, g)
<1> DEFINE x == [h |-> h, a |-> a, b |-> b]
           p == Top(a, b)
           o == IF p = a THEN b ELSE a
           a1 == IF p = a THEN h.right[p] ELSE a
           b1 == IF p = a THEN b ELSE h.right[p]
           q == Top(a1, b1)
           g == [h EXCEPT !.left[p] = q, !.right[p] = h.left[p], !.parent[q] = p]
<1>1. a \in Links /\ b \in Links /\ a # None /\ b # None
  BY StrideAssumption DEF Links
<1>2. p \in Sharers /\ o \in Sharers /\ {p, o} = {a, b} /\ Before(p, o)
  <2>1. (p = a /\ Before(a, b)) \/ (p = b /\ Before(b, a))
    BY <1>1, TopFirst, Zenon
  <2> HIDE DEF p
  <2>2. CASE p = a
    <3>1. o = b /\ (Before(a, b) \/ (a = b /\ Before(b, a)))
      BY <2>1, <2>2
    <3> QED BY <2>2, <3>1
  <2>3. CASE p # a
    <3>1. o = a /\ p = b /\ Before(b, a)
      BY <2>1, <2>3
    <3> QED BY <3>1
  <2> QED BY <2>2, <2>3
<1>3. h.right[p] \in Links /\ h.left[p] \in Links
  BY <1>2 DEF Heaps
<1>4. a1 \in Links /\ b1 \in Links /\ {a1, b1} = {h.right[p], o}
  <2> HIDE DEF p
  <2> QED BY <1>1, <1>2, <1>3
<1>5. q \in Sharers
  <2> HIDE DEF a1, b1
  <2>1. a1 \in Sharers \/ b1 \in Sharers
    BY <1>2, <1>4
  <2> QED BY <2>1, <1>1, <1>4, TopFirst DEF Links
<1> HIDE DEF q, p
<1>6. /\ g \in Heaps
      /\ g.left = [h.left EXCEPT ![p] = q]
      /\ g.right = [h.right EXCEPT ![p] = h.left[p]]
      /\ g.parent = [h.parent EXCEPT ![q] = p]
  BY <1>2, <1>3, <1>5 DEF Heaps, Links
<1>7. Call[x] = [h |-> g, a |-> a1, b |-> b1]
  <2>1. x \in [h : Heaps, a : Links, b : Links]
    BY <1>1
  <2>2. None \notin {x.a, x.b} /\ x.a = a /\ x.b = b /\ x.h = h
    BY <1>1
  <2> QED BY <2>1, <2>2 DEF Call, p, q
<1>8. p = Top(a, b) /\ q = Top(a1, b1) /\ q \in Links
  BY <1>5 DEF p, q, Links
<1>9. Call[[h |-> h, a |-> a, b |-> b]] = [h |-> g, a |-> a1, b |-> b1]
  BY <1>7 DEF x
<1> HIDE DEF o, a1, b1, g, x
<1>10. Turns(h, a, b, p, o, a1, b1, q, g)
  BY <1>2, <1>4, <1>5, <1>6, <1>8, <1>9 DEF Turns, Relinked
<1> QED BY <1>2, <1>4, <1>6, <1>8, <1>10

-----------------------------------------------------------------------------
\* In g, p has o or what it had on the right, q, on its left: then what is left of that
\* becomes a root, and o has been one.
Turned(S, h, g, r, p, o, q) ==
  /\ S \in SUBSET Sharers /\ h \in Heaps /\ g \in Heaps
  /\ {r, p, o, q} \subseteq S /\ p # o /\ r # o
  /\ Forest(h, S, {r, o}) /\ Before(p, o)
  /\ q \in {h.right[p], o} /\ Relinked(h, g, p, q)

(* Such a step leaves trees, with o below p, or still a root and what p had *)
(* on the right above it.                                                  *)
LEMMA ForestTurns ==
  ASSUME NEW S, NEW h, NEW g, NEW r, NEW p, NEW o, NEW q, Turned(S, h, g, r, p, o, q),
         NEW R, R = {r} \cup ({h.right[p], o} \ {None, q})
  PROVE  /\ Forest(g, S, R)
         /\ q # r /\ g.parent[q] = p /\ g.parent[r] = h.parent[r]
         /\ Children(g, p) = {q, h.left[p]} \ {None}
         /\ \A u \in S \ {p} : Children(g, u) = Children(h, u)
<1>0. /\ S \in SUBSET Sharers /\ h \in Heaps /\ g \in Heaps
      /\ r \in S /\ p \in S /\ o \in S /\ q \in S /\ p # o /\ r # o
      /\ Forest(h, S, {r, o}) /\ Before(p, o)
      /\ q \in {h.right[p], o} /\ Relinked(h, g, p, q)
  BY DEF Turned
<1> DEFINE c == h.right[p]
           l == h.left[p]
<1>1. None \notin S /\ p \in Sharers /\ q \in Sharers /\ o \in Sharers
  BY <1>0, StrideAssumption
<1>2. /\ DOMAIN h.left = Sharers /\ DOMAIN h.right = Sharers /\ DOMAIN h.parent = Sharers
      /\ h.left \in [Sharers -> Links] /\ h.right \in [Sharers -> Links] /\ h.parent \in [Sharers -> Links]
  BY <1>0 DEF Heaps
<1>3. /\ g.left[p] = q /\ g.right[p] = l /\ g.parent[q] = p
      /\ \A u \in S \ {p} : g.left[u] = h.left[u] /\ g.right[u] = h.right[u]
      /\ \A u \in S \ {q} : g.parent[u] = h.parent[u]
  BY <1>0, <1>1, <1>2 DEF Relinked
<1>4. Children(g, p) = {q, l} \ {None} /\ \A u \in S \ {p} : Children(g, u) = Children(h, u)
  BY <1>0, <1>3 DEF Children
<1>5. c \in Children(h, p) \/ c = None
  BY DEF Children
<1>6. l \in Children(h, p) \/ l = None
  BY DEF Children
<1>7. /\ \A u \in S : Children(h, u) \subseteq S \ {r, o}
      /\ \A u \in S : \A k \in Children(h, u) : h.parent[k] = u
      /\ \A u \in S : h.left[u] = h.right[u] => h.left[u] = None
      /\ \A u \in S \ {r, o} : h.parent[u] \in S /\ u \in Children(h, h.parent[u])
      /\ \A u \in S : \A k \in Children(h, u) : Before(u, k)
  BY <1>0 DEF Forest
<1>8. /\ l # None => l \in S \ {r, o} /\ h.parent[l] = p
      /\ c # None => c \in S \ {r, o} /\ h.parent[c] = p /\ c # l
      /\ l # q
  <2>1. l # None => l \in S \ {r, o} /\ h.parent[l] = p
    BY <1>0, <1>6, <1>7
  <2>2. c # None => c \in S \ {r, o} /\ h.parent[c] = p
    BY <1>0, <1>5, <1>7
  <2>3. l = c => l = None
    BY <1>0, <1>7
  <2> HIDE DEF l, c
  <2> QED BY <1>0, <2>1, <2>2, <2>3, <1>1 DEF c
<1>15. R = {r} \cup ({c, o} \ {None, q})
  OBVIOUS
<1> HIDE DEF l, c
<1>9. q \in {c, o} /\ q # r
  BY <1>0, <1>8, <1>1 DEF c
<1>10. R \subseteq S /\ r \in S
  BY <1>0, <1>15, <1>8
<1>11. ASSUME NEW u \in S, NEW k \in Children(g, u)
       PROVE  k \in S \ R /\ g.parent[k] = u /\ Before(u, k)
  <2>1. CASE u # p
    <3>1. k \in Children(h, u)
      BY <1>0, <1>4, <2>1
    <3>2. k \in S \ {r, o} /\ h.parent[k] = u /\ Before(u, k)
      BY <1>0, <1>7, <3>1
    <3>3. k # c \/ c = None
      BY <1>0, <1>8, <2>1, <3>2
    <3>4. k # q
      BY <1>0, <3>2, <3>3, <1>9, <1>1
    <3> QED BY <1>0, <1>15, <1>1, <1>3, <3>2, <3>3, <3>4
  <2>2. CASE u = p /\ k = q
    <3>1. q = c => Before(p, q)
      BY <1>0, <1>1, <1>5, <1>7
    <3>2. q \notin R
      BY <1>0, <1>9
    <3> QED BY <1>0, <1>3, <1>9, <2>2, <3>1, <3>2
  <2>3. CASE u = p /\ k = l
    <3>1. l # None
      BY <1>0, <2>3, <1>4, <1>1, <1>3 DEF Children
    <3>2. l \in S \ {r, o} /\ h.parent[l] = p /\ l # q /\ (c = None \/ c # l)
      BY <1>0, <3>1, <1>8
    <3>3. l \notin R
      BY <1>0, <1>15, <3>1, <3>2
    <3>4. Before(p, l)
      BY <1>0, <3>1, <1>6, <1>7
    <3> QED BY <1>0, <1>3, <2>3, <3>2, <3>3, <3>4
  <2> QED BY <1>0, <1>4, <2>1, <2>2, <2>3
<1>12. ASSUME NEW u \in S, g.left[u] = g.right[u]
       PROVE  g.left[u] = None
  BY <1>0, <1>3, <1>7, <1>8, <1>12
<1>13. ASSUME NEW u \in S \ R
       PROVE  g.parent[u] \in S /\ u \in Children(g, g.parent[u])
  <2>1. CASE u = q
    BY <1>0, <2>1, <1>1, <1>3, <1>4
  <2>2. CASE u # q
    <3>1. u \notin {r, o}
      BY <1>0, <1>1, <2>2
    <3>2. g.parent[u] = h.parent[u] /\ h.parent[u] \in S /\ u \in Children(h, h.parent[u])
      BY <1>0, <1>3, <1>7, <2>2, <3>1
    <3>3. CASE h.parent[u] # p
      BY <1>0, <1>4, <3>2, <3>3
    <3>4. CASE h.parent[u] = p
      <4>1. u \in {l, c} /\ u # None
        BY <1>0, <3>2, <3>4, <1>1 DEF Children, l, c
      <4>2. u # c
        BY <1>0, <1>15, <1>1, <2>2
      <4> QED BY <1>0, <1>4, <3>2, <3>4, <4>1, <4>2
    <3> QED BY <1>0, <3>3, <3>4
  <2> QED BY <2>1, <2>2
<1>14. Forest(g, S, R)
  BY <1>10, <1>11, <1>12, <1>13 DEF Forest
<1> QED BY <1>0, <1>3, <1>4, <1>9, <1>14 DEF c, l

\* d grows along the pointers between the processes V that have come to the top, all below
\* n, and between the others, from which no pointers lead to V.
Order(h, S, V, d, n) ==
  /\ V \subseteq S /\ d \in [S -> Nat]
  /\ \A p \in S \ V : \A c \in Children(h, p) : c \notin V /\ d[p] < d[c]
  /\ \A p \in V : d[p] < n
  /\ \A p \in V : \A c \in Children(h, p) : c \in V => d[p] < d[c]

\* After n calls of a merge of trees with processes S, into one with root r: there are two
\* trees, that one and the one that has lost a comparison, up to a call that is done.
Merging(x, n, S, r, V, d) ==
  LET q == Top(x.a, x.b)
      R == {r} \cup ({x.a, x.b} \ {None, q})
  IN  /\ x \in [h : Heaps, a : Links, b : Links]
      /\ {x.a, x.b} \ {None} \subseteq S \ V /\ x.a # x.b
      /\ r \in S /\ Forest(x.h, S, R)
      /\ q # r => r \in V /\ x.h.parent[q] \in V
      /\ Order(x.h, S, V, d, n)
      /\ None \notin {x.a, x.b} => Cardinality(V) = n

(* The one that comes to the top gets the next number.                     *)
LEMMA OrderTurns ==
  ASSUME NEW S \in SUBSET Sharers, NEW h, NEW g, NEW n \in Nat, NEW p \in S, NEW q, NEW l,
         NEW V, NEW d, Order(h, S, V, d, n), p \notin V,
         \A u \in S \ V : p \notin Children(h, u),
         Children(g, p) = {q, l} \ {None}, l # None => l \in Children(h, p),
         q \notin V, q # p,
         \A u \in S : Children(h, u) \subseteq S,
         \A u \in S \ {p} : Children(g, u) = Children(h, u)
  PROVE  Order(g, S, V \cup {p}, [d EXCEPT ![p] = n], n + 1)
<1> DEFINE W == V \cup {p}
           e == [d EXCEPT ![p] = n]
<1>1. /\ V \subseteq S /\ d \in [S -> Nat]
      /\ \A u \in S \ V : \A k \in Children(h, u) : k \notin V /\ d[u] < d[k]
      /\ \A u \in V : d[u] < n
      /\ \A u \in V : \A k \in Children(h, u) : k \in V => d[u] < d[k]
  BY DEF Order
<1>2. e \in [S -> Nat] /\ e[p] = n /\ \A u \in S \ {p} : e[u] = d[u]
  BY <1>1
<1> HIDE DEF e
<1>3. W \subseteq S
  BY <1>1
<1>4. ASSUME NEW u \in S \ W, NEW k \in Children(g, u)
      PROVE  k \notin W /\ e[u] < e[k]
  <2>1. u \in S \ V /\ k \in Children(h, u) /\ u # p
    BY <1>4
  <2>2. k # p /\ k \in S
    BY <2>1
  <2>3. k \notin V /\ d[u] < d[k]
    BY <1>1, <2>1
  <2> QED BY <1>2, <2>1, <2>2, <2>3
<1>5. \A u \in W : e[u] < n + 1
  <2> SUFFICES ASSUME NEW u \in W PROVE e[u] < n + 1
    OBVIOUS
  <2>1. CASE u = p
    BY <2>1, <1>2
  <2>2. CASE u # p
    <3>1. u \in V /\ u \in S \ {p} /\ d[u] \in Nat
      BY <1>1, <2>2
    <3>2. e[u] = d[u] /\ d[u] < n
      BY <1>1, <1>2, <3>1
    <3> QED BY <3>1, <3>2
  <2> QED BY <2>1, <2>2
<1>6. ASSUME NEW u \in W, NEW k \in Children(g, u), k \in W
      PROVE  e[u] < e[k]
  <2>1. CASE u = p
    <3>1. k = q \/ (k = l /\ l # None)
      BY <1>6, <2>1
    <3>2. k # q
      BY <1>6
    <3>3. k \in Children(h, p) /\ p \in S \ V
      BY <3>1, <3>2
    <3>4. k \notin V /\ d[p] < d[k]
      BY <1>1, <3>3
    <3>5. k = p
      BY <1>6, <3>4
    <3> QED BY <3>3, <3>5
  <2>2. CASE u # p
    <3>1. u \in V /\ u \in S \ {p} /\ k \in Children(h, u) /\ k \in S
      BY <1>1, <1>6, <2>2
    <3>2. CASE k = p
      BY <3>1, <3>2, <1>1, <1>2
    <3>3. CASE k # p
      <4>1. k \in V /\ d[u] < d[k]
        BY <1>1, <1>6, <3>1, <3>3
      <4> QED BY <1>2, <3>1, <3>3, <4>1
    <3> QED BY <3>2, <3>3
  <2> QED BY <2>1, <2>2
<1>7. Order(g, S, W, e, n + 1)
  BY <1>2, <1>3, <1>4, <1>5, <1>6 DEF Order
<1> QED BY <1>7 DEF e

(* Each call keeps what Merging says, and the parent of the root.          *)
LEMMA MergingTurns ==
  ASSUME NEW S \in SUBSET Sharers, NEW x, NEW n \in Nat, NEW r, NEW V, NEW d,
         Merging(x, n, S, r, V, d)
  PROVE  /\ \E W, e : Merging(Call[x], n + 1, S, r, W, e)
         /\ Call[x].h.parent[r] = x.h.parent[r]
<1>1. /\ x \in [h : Heaps, a : Links, b : Links]
      /\ {x.a, x.b} \ {None} \subseteq S \ V /\ x.a # x.b
      /\ r \in S /\ Forest(x.h, S, {r} \cup ({x.a, x.b} \ {None, Top(x.a, x.b)}))
      /\ Top(x.a, x.b) # r => r \in V /\ x.h.parent[Top(x.a, x.b)] \in V
      /\ Order(x.h, S, V, d, n)
      /\ None \notin {x.a, x.b} => Cardinality(V) = n
  BY Zenon DEF Merging
<1>2. CASE None \in {x.a, x.b}
  <2>1. Call[x] = x
    BY <1>1, <1>2 DEF Call
  <2>2. Order(x.h, S, V, d, n + 1)
    BY <1>1 DEF Order
  <2>3. Merging(x, n + 1, S, r, V, d)
    BY <1>1, <1>2, <2>2, Zenon DEF Merging
  <2> QED BY <2>1, <2>3
<1>3. CASE None \notin {x.a, x.b}
  <2> DEFINE h == x.h
             a == x.a
             b == x.b
  <2>1. x = [h |-> h, a |-> a, b |-> b] /\ h \in Heaps /\ a \in Sharers /\ b \in Sharers
    BY <1>1, <1>3 DEF Links
  <2> HIDE DEF h, a, b
  <2>2. PICK p \in Sharers, o \in Sharers, a1 \in Links, b1 \in Links, q \in Links, g \in Heaps :
          Turns(h, a, b, p, o, a1, b1, q, g)
    BY <2>1, CallTurns
  <2>3. /\ p = Top(a, b) /\ {p, o} = {a, b} /\ Before(p, o)
        /\ {a1, b1} = {h.right[p], o} /\ q = Top(a1, b1) /\ q \in Sharers
        /\ Call[x] = [h |-> g, a |-> a1, b |-> b1]
        /\ Relinked(h, g, p, q)
    BY <2>1, <2>2 DEF Turns
  <2> DEFINE c == h.right[p]
             W == V \cup {p}
             e == [d EXCEPT ![p] = n]
             y == [h |-> g, a |-> a1, b |-> b1]
  <2>4. /\ a \in S \ V /\ b \in S \ V /\ a # b /\ r \in S
        /\ Forest(h, S, {r} \cup ({a, b} \ {None, p}))
        /\ p # r => r \in V /\ h.parent[p] \in V
        /\ Order(h, S, V, d, n) /\ Cardinality(V) = n
    BY <1>1, <1>3, <2>3 DEF h, a, b
  <2>5. p \in S \ V /\ o \in S \ V /\ p # o /\ r # o
    BY <2>3, <2>4
  <2>6. Forest(h, S, {r, o})
    <3>1. {r} \cup ({a, b} \ {None, p}) = {r, o}
      BY <2>3, <2>4, <2>5, StrideAssumption
    <3> QED BY <2>4, <3>1
  <2>7. /\ \A u \in S : Children(h, u) \subseteq S \ {r, o}
        /\ \A u \in S : \A k \in Children(h, u) : h.parent[k] = u
        /\ \A u \in S : h.left[u] = h.right[u] => h.left[u] = None
    BY <2>6 DEF Forest
  <2>8. c \in Children(h, p) \/ c = None
    BY DEF Children
  <2>9. c # None => c \in S \ {r, o} /\ h.parent[c] = p /\ c \notin V /\ c # p
    <3>1. c # None => c \in S \ {r, o} /\ h.parent[c] = p
      BY <2>5, <2>7, <2>8
    <3>2. c # None => c \notin V /\ d[p] < d[c] /\ d[p] \in Nat
      BY <2>4, <2>5, <2>8 DEF Order
    <3> QED BY <3>1, <3>2
  <2> HIDE DEF c
  <2>10. q \in {c, o} /\ q \in S
    <3>1. q = a1 \/ q = b1
      BY <2>3 DEF Top
    <3> QED BY <3>1, <2>3, <2>5, <2>9, StrideAssumption DEF c
  <2>11. /\ Forest(g, S, {r} \cup ({c, o} \ {None, q}))
         /\ q # r /\ g.parent[q] = p /\ g.parent[r] = h.parent[r]
         /\ Children(g, p) = {q, h.left[p]} \ {None}
         /\ \A u \in S \ {p} : Children(g, u) = Children(h, u)
    <3>1. /\ S \in SUBSET Sharers /\ h \in Heaps /\ g \in Heaps
          /\ {r, p, o, q} \subseteq S /\ p # o /\ r # o /\ Before(p, o)
      BY <2>1, <2>3, <2>4, <2>5, <2>10
    <3>2. q \in {h.right[p], o}
      BY <2>10 DEF c
    <3>3. Turned(S, h, g, r, p, o, q)
      BY <2>3, <2>6, <3>1, <3>2 DEF Turned
    <3>4. {r} \cup ({c, o} \ {None, q}) = {r} \cup ({h.right[p], o} \ {None, q})
      BY DEF c
    <3> DEFINE R == {r} \cup ({c, o} \ {None, q})
    <3>5. R = {r} \cup ({h.right[p], o} \ {None, q})
      BY <3>4
    <3> HIDE DEF R
    <3>6. /\ Forest(g, S, R)
          /\ q # r /\ g.parent[q] = p /\ g.parent[r] = h.parent[r]
          /\ Children(g, p) = {q, h.left[p]} \ {None}
          /\ \A u \in S \ {p} : Children(g, u) = Children(h, u)
      BY <3>3, <3>5, ForestTurns
    <3> QED BY <3>6 DEF R
  <2>12. Order(g, S, W, e, n + 1)
    <3>1. \A u \in S \ V : p \notin Children(h, u)
      <4> SUFFICES ASSUME NEW u \in S \ V, p \in Children(h, u) PROVE FALSE
        OBVIOUS
      <4>1. p # r /\ h.parent[p] = u
        BY <2>7
      <4> QED BY <2>4, <4>1
    <3>2. h.left[p] # None => h.left[p] \in Children(h, p)
      BY DEF Children
    <3>3. q \notin V /\ q # p
      BY <2>5, <2>9, <2>10, StrideAssumption
    <3>4. \A u \in S : Children(h, u) \subseteq S
      BY <2>7
    <3> QED BY <2>4, <2>5, <2>11, <3>1, <3>2, <3>3, <3>4, OrderTurns
  <2>13. {a1, b1} \ {None} \subseteq S \ W /\ a1 # b1
    <3>1. c # o
      BY <2>9, <2>5, StrideAssumption
    <3>2. c # None => c \in S \ W
      BY <2>9
    <3>3. o \in S \ W
      BY <2>5
    <3> QED BY <2>3, <3>1, <3>2, <3>3 DEF c
  <2>14. r \in W
    BY <2>4
  <2>15. Cardinality(W) = n + 1
    <3>1. V \subseteq S
      BY <2>4 DEF Order
    <3>2. IsFiniteSet(V)
      BY <3>1, Sizes
    <3> QED BY <3>2, <2>4, <2>5, FS_AddElement
  <2>16. Merging(y, n + 1, S, r, W, e)
    <3>1. y \in [h : Heaps, a : Links, b : Links] /\ y.h = g /\ y.a = a1 /\ y.b = b1
      OBVIOUS
    <3>2. Forest(g, S, {r} \cup ({a1, b1} \ {None, q}))
      BY <2>3, <2>11 DEF c
    <3>3. p \in W
      OBVIOUS
    <3> HIDE DEF y, W, e
    <3> QED BY <3>1, <3>2, <3>3, <2>3, <2>4, <2>11, <2>12, <2>13, <2>14, <2>15 DEF Merging
  <2>17. Call[x] = y /\ y.h = g
    BY <2>3
  <2> HIDE DEF y, W, e
  <2> QED BY <2>11, <2>16, <2>17 DEF h
<1> QED BY <1>2, <1>3

-----------------------------------------------------------------------------
(* The merge of two empty trees does nothing.                              *)
LEMMA CallsNone ==
  ASSUME NEW h \in Heaps
  PROVE  Calls(h, None, None)[Cardinality(Sharers)] = [h |-> h, a |-> None, b |-> None]
<1> DEFINE x == Calls(h, None, None)
           N == Cardinality(Sharers)
           first == [h |-> h, a |-> None, b |-> None]
           T == {n \in 0 .. N : x[n] # first}
<1>1. N \in Nat
  BY Sizes
<1>2. x[0] = first /\ \A n \in 1 .. N : x[n] = Call[x[n - 1]]
  BY CallsDefined
<1>3. Call[first] = first
  BY DEF Call, Links
<1> HIDE DEF x, N, first
<1>4. T = {}
  <2> SUFFICES ASSUME T # {} PROVE FALSE
    OBVIOUS
  <2>1. T \subseteq Nat
    OBVIOUS
  <2>2. PICK n \in T : \A k \in T : n <= k
    BY <2>1, Least
  <2>3. n # 0
    BY <1>2
  <2>4. n \in 1 .. N /\ n - 1 \in 0 .. N /\ n - 1 \notin T
    BY <1>1, <2>2, <2>3
  <2>5. x[n - 1] = first
    BY <2>4
  <2> QED BY <1>2, <1>3, <2>4, <2>5
<1> QED BY <1>1, <1>4 DEF x, N, first

\* The pointers of h make one tree of the processes S, below its root.
Tree(h, S) == Forest(h, S, {h.root} \ {None}) /\ \E d : Ranks(h, S, d)

(* A merge of two trees gives one tree of the same processes, whoever has  *)
(* come to the top in which call.                                          *)
LEMMA MergeExact ==
  ASSUME NEW S \in SUBSET Sharers, NEW h \in Heaps, NEW a \in Links, NEW b \in Links,
         NEW R, R = {a, b} \ {None}, Forest(h, S, R), NEW d, Ranks(h, S, d),
         a = b => a = None /\ S = {}
  PROVE  LET m == Merge(h, a, b)
         IN  /\ m \in Heaps /\ m.root = Top(a, b) /\ Tree(m, S)
             /\ m.root # None => m.parent[m.root] = h.parent[m.root]
<1> DEFINE x == Calls(h, a, b)
           N == Cardinality(Sharers)
           first == [h |-> h, a |-> a, b |-> b]
           r == Top(a, b)
           m == Merge(h, a, b)
           g == x[N].h
<1>1. N \in Nat
  BY Sizes
<1>2. x[0] = first /\ \A n \in 1 .. N : x[n] = Call[x[n - 1]]
  BY CallsDefined
<1>3. r \in Links /\ (a = None => r = b) /\ (b = None => r = a) /\ r \in {a, b}
  BY TopFirst, Zenon
<1>4. CASE a = b
  <2>1. g = h /\ S = {} /\ r = None
    <3>1. a = None /\ b = None /\ S = {}
      BY <1>4
    <3>2. x[N] = [h |-> h, a |-> None, b |-> None]
      BY <3>1, CallsNone
    <3>3. g = h
      BY <3>2
    <3> HIDE DEF r, g
    <3> QED BY <1>3, <3>1, <3>3
  <2>2. m = [h EXCEPT !.root = None]
    BY <2>1 DEF Merge
  <2>3. m \in Heaps /\ m.root = None
    BY <2>2 DEF Heaps, Links
  <2>4. Forest(m, S, {m.root} \ {None}) /\ Ranks(m, S, [p \in {} |-> 0])
    BY <2>1, <2>3 DEF Forest, Ranks
  <2> HIDE DEF m
  <2> QED BY <2>1, <2>3, <2>4 DEF m, Tree
<1>5. CASE a # b
  <2> DEFINE Right(n) == /\ \E V, e : Merging(x[n], n, S, r, V, e)
                         /\ x[n].h.parent[r] = h.parent[r]
             T == {n \in 0 .. N : ~Right(n)}
  <2> HIDE DEF x, N
  <2>1. /\ {a, b} \ {None} \subseteq S /\ r \in S
        /\ {r} \cup ({a, b} \ {None, r}) = R
    <3>1. {a, b} \ {None} \subseteq S
      BY DEF Forest
    <3>2. r # None
      BY <1>3, <1>5
    <3> HIDE DEF r
    <3> QED BY <1>3, <1>5, <3>1, <3>2
  <2>2. Right(0)
    <3>1. Order(h, S, {}, d, 0)
      BY DEF Order, Ranks
    <3>2. Cardinality({}) = 0
      BY FS_EmptySet
    <3>3. first \in [h : Heaps, a : Links, b : Links] /\ first.h = h /\ first.a = a /\ first.b = b
      OBVIOUS
    <3> HIDE DEF first
    <3>4. Forest(first.h, S, {r} \cup ({first.a, first.b} \ {None, r}))
      BY <2>1, <3>3
    <3>5. Merging(first, 0, S, r, {}, d)
      BY <1>5, <2>1, <3>1, <3>2, <3>3, <3>4 DEF Merging
    <3> HIDE DEF r
    <3> QED BY <1>2, <3>3, <3>5
  <2>3. ASSUME NEW n \in 1 .. N, Right(n - 1) PROVE Right(n)
    <3>1. n - 1 \in Nat /\ n - 1 + 1 = n
      BY <1>1
    <3> DEFINE k == n - 1
    <3>2. k \in Nat /\ k + 1 = n /\ x[n] = Call[x[k]] /\ Right(k)
      BY <1>2, <2>3, <3>1
    <3> HIDE DEF k, r
    <3>3. PICK V, e : Merging(x[k], k, S, r, V, e)
      BY <3>2
    <3>4. /\ \E W, f : Merging(Call[x[k]], k + 1, S, r, W, f)
          /\ Call[x[k]].h.parent[r] = x[k].h.parent[r]
      BY <3>2, <3>3, MergingTurns
    <3> QED BY <3>2, <3>4
  <2>4. T = {}
    <3> SUFFICES ASSUME T # {} PROVE FALSE
      OBVIOUS
    <3>1. T \subseteq Nat
      OBVIOUS
    <3> HIDE DEF Right
    <3>2. PICK n \in T : \A k \in T : n <= k
      BY <3>1, Least
    <3>3. n # 0
      BY <2>2
    <3>4. n \in 1 .. N /\ n - 1 \in 0 .. N /\ n - 1 \notin T
      BY <1>1, <3>2, <3>3
    <3>5. Right(n - 1)
      BY <3>4
    <3>6. Right(n)
      BY <2>3, <3>4, <3>5
    <3> QED BY <3>6
  <2>5. Right(N)
    <3> HIDE DEF Right
    <3> QED BY <1>1, <2>4
  <2> HIDE DEF r
  <2>6. PICK V, e : Merging(x[N], N, S, r, V, e)
    BY <2>5
  <2> DEFINE y == x[N]
             q == Top(y.a, y.b)
  <2>7. /\ y \in [h : Heaps, a : Links, b : Links]
        /\ {y.a, y.b} \ {None} \subseteq S \ V /\ y.a # y.b
        /\ Forest(y.h, S, {r} \cup ({y.a, y.b} \ {None, q}))
        /\ Order(y.h, S, V, e, N)
        /\ None \notin {y.a, y.b} => Cardinality(V) = N
    BY <2>6, Zenon DEF Merging
  <2> HIDE DEF y
  <2>8. None \in {y.a, y.b}
    <3> SUFFICES ASSUME None \notin {y.a, y.b} PROVE FALSE
      OBVIOUS
    <3>1. V \subseteq S /\ Cardinality(V) = N /\ y.a \in S \ V
      BY <2>7 DEF Order
    <3>2. V \in SUBSET Sharers /\ V \cup {y.a} \in SUBSET Sharers
      BY <3>1
    <3>3. IsFiniteSet(V)
      BY <3>2, Sizes
    <3>4. Cardinality(V \cup {y.a}) = N + 1
      BY <3>1, <3>3, FS_AddElement
    <3>5. Cardinality(V \cup {y.a}) <= N
      BY <3>2, Sizes DEF N
    <3> QED BY <1>1, <3>4, <3>5
  <2>9. {r} \cup ({y.a, y.b} \ {None, q}) = {r}
    <3>1. q = y.a \/ q = y.b
      BY DEF Top
    <3>2. y.a = None => q = y.b
      BY DEF Top
    <3>3. y.b = None /\ y.a # None => q = y.a
      BY DEF Top
    <3> HIDE DEF q
    <3> QED BY <2>8, <3>1, <3>2, <3>3
  <2>10. m = [y.h EXCEPT !.root = r]
    BY DEF Merge, x, y, N, r
  <2>11. /\ m \in Heaps /\ m.root = r
         /\ m.left = y.h.left /\ m.right = y.h.right /\ m.parent = y.h.parent
    <3>1. y.h \in Heaps /\ r \in Links
      BY <2>7, <1>3
    <3> HIDE DEF m
    <3> QED BY <2>10, <3>1 DEF Heaps
  <2> HIDE DEF m
  <2>12. \A p \in S : Children(m, p) = Children(y.h, p)
    BY <2>11 DEF Children
  <2>13. {m.root} \ {None} = {r}
    BY <2>1, <2>11, StrideAssumption
  <2>14. Forest(m, S, {m.root} \ {None})
    <3>1. Forest(y.h, S, {r})
      BY <2>7, <2>9
    <3> QED BY <2>11, <2>13, <3>1 DEF Forest, Children
  <2> DEFINE f == [p \in S |-> IF p \in V THEN e[p] ELSE e[p] + N]
  <2>15. Ranks(m, S, f)
    <3>1. /\ V \subseteq S /\ e \in [S -> Nat]
          /\ \A p \in S \ V : \A c \in Children(m, p) : c \notin V /\ e[p] < e[c]
          /\ \A p \in V : e[p] < N
          /\ \A p \in V : \A c \in Children(m, p) : c \in V => e[p] < e[c]
      BY <2>7, <2>12 DEF Order
    <3>2. \A p \in S : Children(m, p) \subseteq S
      BY <2>14 DEF Forest
    <3>3. f \in [S -> Nat]
      BY <1>1, <3>1
    <3>4. ASSUME NEW p \in S, NEW c \in Children(m, p) PROVE f[p] < f[c]
      <4>1. c \in S /\ e[p] \in Nat /\ e[c] \in Nat
        BY <3>1, <3>2
      <4>2. CASE p \in V /\ c \in V
        BY <3>1, <4>1, <4>2
      <4>3. CASE p \in V /\ c \notin V
        <5>1. f[p] = e[p] /\ f[c] = e[c] + N /\ e[p] < N
          BY <3>1, <4>1, <4>3
        <5> QED BY <1>1, <4>1, <5>1
      <4>4. CASE p \notin V
        <5>1. f[p] = e[p] + N /\ f[c] = e[c] + N /\ e[p] < e[c]
          BY <3>1, <4>1, <4>4
        <5> QED BY <1>1, <4>1, <5>1
      <4> QED BY <4>2, <4>3, <4>4
    <3> HIDE DEF f
    <3> QED BY <3>3, <3>4 DEF Ranks
  <2>16. m.parent[r] = h.parent[r]
    BY <2>5, <2>11 DEF y
  <2> HIDE DEF f
  <2> QED BY <2>1, <2>11, <2>14, <2>15, <2>16 DEF m, r, Tree
<1> QED BY <1>4, <1>5

-----------------------------------------------------------------------------
(* The least process of a set is a root, or has its parent outside.        *)
LEMMA NoLoop ==
  ASSUME NEW h, NEW S, NEW R, NEW d, Forest(h, S, R), Ranks(h, S, d),
         NEW T, T \subseteq S, T # {}
  PROVE  \E p \in T : p \in R \/ h.parent[p] \notin T
<1> SUFFICES ASSUME \A p \in T : p \notin R /\ h.parent[p] \in T PROVE FALSE
  OBVIOUS
<1>1. d \in [S -> Nat] /\ \A p \in S : \A c \in Children(h, p) : d[p] < d[c]
  BY DEF Ranks
<1>2. \A p \in S \ R : h.parent[p] \in S /\ p \in Children(h, h.parent[p])
  BY DEF Forest
<1> DEFINE N == {d[p] : p \in T}
<1>3. N \subseteq Nat /\ N # {}
  BY <1>1
<1> HIDE DEF N
<1>4. PICK n \in N : \A k \in N : n <= k
  BY <1>3, Least
<1>5. PICK p \in T : n = d[p]
  BY DEF N
<1>6. p \in S \ R /\ h.parent[p] \in T /\ h.parent[p] \in S
  OBVIOUS
<1>7. d[h.parent[p]] < d[p] /\ d[h.parent[p]] \in Nat /\ d[p] \in Nat
  BY <1>1, <1>2, <1>6
<1>8. d[h.parent[p]] \in N
  BY <1>6 DEF N
<1>9. n <= d[h.parent[p]]
  BY <1>4, <1>8
<1> QED BY <1>5, <1>7, <1>9

\* h is a heap of exactly the processes S.
HeapOf(h, S) ==
  /\ h \in Heaps /\ Tree(h, S)
  /\ h.root # None => h.parent[h.root] = None

(* A heap has a root exactly when it holds a process.                      *)
LEMMA HeapRoot ==
  ASSUME NEW h, NEW S \in SUBSET Sharers, HeapOf(h, S)
  PROVE  /\ h.root = None <=> S = {}
         /\ h.root # None => h.root \in S /\ h.root \in Sharers
<1> DEFINE R == {h.root} \ {None}
<1>1. Forest(h, S, R) /\ \E d : Ranks(h, S, d)
  BY DEF HeapOf, Tree
<1>2. PICK d : Ranks(h, S, d)
  BY <1>1
<1>3. R \subseteq S /\ \A p \in S \ R : h.parent[p] \in S
  BY <1>1 DEF Forest
<1>4. ASSUME S # {} PROVE R # {}
  <2> HIDE DEF R
  <2>1. PICK p \in S : p \in R \/ h.parent[p] \notin S
    BY <1>1, <1>2, <1>4, NoLoop
  <2> QED BY <1>3, <2>1
<1> QED BY <1>3, <1>4

(* skew_heap_insert adds a process to a heap.                              *)
LEMMA InsertExact ==
  ASSUME NEW h, NEW S \in SUBSET Sharers, HeapOf(h, S), NEW p \in Sharers \ S
  PROVE  HeapOf(HeapInsert(h, p), S \cup {p})
<1> DEFINE g == [h EXCEPT !.left[p] = None, !.right[p] = None, !.parent[p] = None]
           Q == S \cup {p}
           R0 == {h.root} \ {None}
           R == {h.root, p} \ {None}
           m == Merge(g, h.root, p)
<1>1. h \in Heaps /\ Forest(h, S, R0) /\ (h.root # None => h.parent[h.root] = None)
  BY DEF HeapOf, Tree
<1>2. PICK d : Ranks(h, S, d)
  BY DEF HeapOf, Tree
<1>3. /\ g \in Heaps /\ g.left[p] = None /\ g.right[p] = None /\ g.parent[p] = None
      /\ \A u \in Sharers \ {p} : g.left[u] = h.left[u] /\ g.right[u] = h.right[u]
      /\ \A u \in Sharers \ {p} : g.parent[u] = h.parent[u]
  BY <1>1 DEF Heaps, Links
<1> HIDE DEF g
<1>4. Children(g, p) = {} /\ \A u \in S : Children(g, u) = Children(h, u)
  BY <1>3 DEF Children
<1>5. h.root \in Links /\ p \in Links /\ h.root # p /\ p # None /\ None \notin S
  <2>1. h.root \in Links
    BY <1>1 DEF Heaps
  <2>2. h.root # None => h.root \in S
    BY HeapRoot
  <2> QED BY <2>1, <2>2, StrideAssumption DEF Links
<1>6. /\ R0 \subseteq S
      /\ \A u \in S : Children(h, u) \subseteq S \ R0
      /\ \A u \in S : h.left[u] = h.right[u] => h.left[u] = None
      /\ \A u \in S : \A c \in Children(h, u) : h.parent[c] = u
      /\ \A u \in S \ R0 : h.parent[u] \in S /\ u \in Children(h, h.parent[u])
      /\ \A u \in S : \A c \in Children(h, u) : Before(u, c)
  BY <1>1 DEF Forest
<1>7. R = R0 \cup {p}
  BY <1>5
<1> HIDE DEF R, R0
<1>8. Forest(g, Q, R)
  <2>1. R \subseteq Q
    BY <1>6, <1>7
  <2>2. \A u \in Q : Children(g, u) \subseteq Q \ R
    BY <1>4, <1>6, <1>7
  <2>3. \A u \in Q : g.left[u] = g.right[u] => g.left[u] = None
    BY <1>3, <1>6
  <2>4. \A u \in Q : \A c \in Children(g, u) : g.parent[c] = u
    BY <1>3, <1>4, <1>6
  <2>5. \A u \in Q \ R : g.parent[u] \in Q /\ u \in Children(g, g.parent[u])
    BY <1>3, <1>4, <1>6, <1>7
  <2>6. \A u \in Q : \A c \in Children(g, u) : Before(u, c)
    BY <1>4, <1>6
  <2> QED BY <2>1, <2>2, <2>3, <2>4, <2>5, <2>6 DEF Forest
<1> DEFINE e == [u \in Q |-> IF u = p THEN 0 ELSE d[u]]
<1>9. Ranks(g, Q, e)
  <2>1. d \in [S -> Nat] /\ \A u \in S : \A c \in Children(h, u) : d[u] < d[c]
    BY <1>2 DEF Ranks
  <2>2. e \in [Q -> Nat]
    BY <2>1
  <2>3. \A u \in Q : \A c \in Children(g, u) : e[u] < e[c]
    BY <2>1, <1>4, <1>6
  <2> HIDE DEF e
  <2> QED BY <2>2, <2>3 DEF Ranks
<1> HIDE DEF e
<1>10. Q \in SUBSET Sharers
  OBVIOUS
<1> HIDE DEF Q
<1>11. /\ m \in Heaps /\ m.root = Top(h.root, p) /\ Tree(m, Q)
       /\ m.root # None => m.parent[m.root] = g.parent[m.root]
  BY <1>3, <1>5, <1>8, <1>9, <1>10, MergeExact DEF R
<1>12. m.root # None => m.parent[m.root] = None
  <2>1. m.root \in {h.root, p}
    BY <1>5, <1>11, TopFirst
  <2>2. m.root # p /\ m.root # None => g.parent[h.root] = None
    BY <1>1, <1>3, <1>5, <2>1 DEF Links
  <2> QED BY <1>3, <1>11, <2>1, <2>2
<1>13. HeapInsert(h, p) = m
  BY DEF HeapInsert, g
<1> HIDE DEF m
<1>14. HeapOf(HeapInsert(h, p), Q)
  BY <1>11, <1>12, <1>13 DEF HeapOf
<1> QED BY <1>14 DEF Q

(* skew_heap_remove of the root takes just that one from a heap.           *)
LEMMA RemoveExact ==
  ASSUME NEW h, NEW S \in SUBSET Sharers, HeapOf(h, S), h.root # None
  PROVE  HeapOf(HeapRemove(h, h.root), S \ {h.root})
<1> DEFINE r == h.root
           a == h.left[r]
           b == h.right[r]
           Q == S \ {r}
           R0 == {r} \ {None}
           R == {a, b} \ {None}
           m == Merge(h, a, b)
           t == IF m.root = None THEN m ELSE [m EXCEPT !.parent[m.root] = None]
           g == [t EXCEPT !.left[r] = None, !.right[r] = None, !.parent[r] = None]
<1>1. h \in Heaps /\ Forest(h, S, R0) /\ h.parent[r] = None
  BY DEF HeapOf, Tree
<1>2. PICK d : Ranks(h, S, d)
  BY DEF HeapOf, Tree
<1>3. r \in S /\ r \in Sharers /\ r # None
  BY HeapRoot
<1>4. /\ \A u \in S : Children(h, u) \subseteq S \ {r}
      /\ \A u \in S : h.left[u] = h.right[u] => h.left[u] = None
      /\ \A u \in S : \A c \in Children(h, u) : h.parent[c] = u
      /\ \A u \in S \ {r} : h.parent[u] \in S /\ u \in Children(h, h.parent[u])
      /\ \A u \in S : \A c \in Children(h, u) : Before(u, c)
  BY <1>1, <1>3 DEF Forest
<1>5. R = Children(h, r) /\ a \in Links /\ b \in Links
  BY <1>1, <1>3 DEF Children, Heaps
<1> HIDE DEF R
<1>6. Forest(h, Q, R)
  <2>1. R \subseteq Q
    BY <1>3, <1>4, <1>5
  <2>2. \A u \in Q : Children(h, u) \subseteq Q \ R
    <3> SUFFICES ASSUME NEW u \in Q, NEW c \in Children(h, u) PROVE c \in Q \ R
      OBVIOUS
    <3>1. c \in S \ {r} /\ h.parent[c] = u /\ u # r
      BY <1>4
    <3>2. c \notin Children(h, r)
      BY <1>3, <1>4, <3>1
    <3> QED BY <1>5, <3>1, <3>2
  <2>3. \A u \in Q \ R : h.parent[u] \in Q /\ u \in Children(h, h.parent[u])
    <3> SUFFICES ASSUME NEW u \in Q \ R
                 PROVE  h.parent[u] \in Q /\ u \in Children(h, h.parent[u])
      OBVIOUS
    <3>1. h.parent[u] \in S /\ u \in Children(h, h.parent[u])
      BY <1>4
    <3>2. h.parent[u] # r
      BY <1>5, <3>1
    <3> QED BY <3>1, <3>2
  <2> QED BY <1>4, <2>1, <2>2, <2>3 DEF Forest
<1>7. Ranks(h, Q, [u \in Q |-> d[u]])
  <2>1. d \in [S -> Nat] /\ \A u \in S : \A c \in Children(h, u) : d[u] < d[c]
    BY <1>2 DEF Ranks
  <2> QED BY <2>1, <1>4 DEF Ranks
<1>8. a = b => a = None /\ Q = {}
  <2> SUFFICES ASSUME a = b PROVE a = None /\ Q = {}
    OBVIOUS
  <2>1. a = None /\ R = {}
    BY <1>3, <1>4 DEF R
  <2>2. ASSUME Q # {} PROVE FALSE
    <3> DEFINE e == [u \in Q |-> d[u]]
    <3>1. Ranks(h, Q, e)
      BY <1>7
    <3> HIDE DEF e, Q
    <3>2. PICK u \in Q : u \in R \/ h.parent[u] \notin Q
      BY <1>6, <2>2, <3>1, NoLoop
    <3>3. h.parent[u] \in Q
      BY <1>6, <2>1 DEF Forest
    <3> QED BY <2>1, <3>2, <3>3
  <2> QED BY <2>1, <2>2
<1>9. /\ m \in Heaps /\ m.root = Top(a, b) /\ Tree(m, Q)
      /\ m.root # None => m.parent[m.root] = h.parent[m.root]
  <2> DEFINE e == [u \in Q |-> d[u]]
  <2>1. Ranks(h, Q, e) /\ Q \in SUBSET Sharers /\ R = {a, b} \ {None}
    BY <1>7 DEF R
  <2> HIDE DEF e, Q, a, b
  <2> QED BY <1>1, <1>5, <1>6, <1>8, <2>1, MergeExact
<1>10. HeapRemove(h, h.root) = g
  BY <1>1 DEF HeapRemove
<1> DEFINE R1 == {m.root} \ {None}
<1>11. Forest(m, Q, R1) /\ \E e : Ranks(m, Q, e)
  BY <1>9 DEF Tree
<1>12. R1 \subseteq Q
  BY <1>11 DEF Forest
<1> HIDE DEF m, a, b
<1>13. /\ t \in Heaps /\ t.root = m.root /\ t.left = m.left /\ t.right = m.right
       /\ \A u \in Sharers \ R1 : t.parent[u] = m.parent[u]
       /\ m.root # None => t.parent[m.root] = None
  <2>1. CASE m.root = None
    BY <1>9, <2>1
  <2>2. CASE m.root # None
    <3>1. m.root \in Q
      BY <1>12, <2>2
    <3> HIDE DEF Q
    <3>2. Q \subseteq Sharers
      BY DEF Q
    <3> QED BY <1>9, <2>2, <3>1, <3>2 DEF Heaps, Links
  <2> QED BY <2>1, <2>2
<1> HIDE DEF t
<1>14. /\ g \in Heaps /\ g.root = m.root
       /\ \A u \in Q : g.left[u] = m.left[u] /\ g.right[u] = m.right[u]
       /\ \A u \in Q \ R1 : g.parent[u] = m.parent[u]
       /\ m.root # None => g.parent[m.root] = None
  <2>1. m.root # None => m.root \in Q
    BY <1>12
  <2>2. /\ g \in Heaps /\ g.root = t.root
        /\ \A u \in Q : g.left[u] = t.left[u] /\ g.right[u] = t.right[u]
        /\ \A u \in Q : g.parent[u] = t.parent[u]
    BY <1>3, <1>13 DEF Heaps, Links
  <2> HIDE DEF g
  <2> QED BY <1>13, <2>1, <2>2
<1> HIDE DEF g
<1>15. \A u \in Q : Children(g, u) = Children(m, u)
  BY <1>14 DEF Children
<1>16. /\ R1 \subseteq Q
       /\ \A u \in Q : Children(m, u) \subseteq Q \ R1
       /\ \A u \in Q : m.left[u] = m.right[u] => m.left[u] = None
       /\ \A u \in Q : \A c \in Children(m, u) : m.parent[c] = u
       /\ \A u \in Q \ R1 : m.parent[u] \in Q /\ u \in Children(m, m.parent[u])
       /\ \A u \in Q : \A c \in Children(m, u) : Before(u, c)
  BY <1>11 DEF Forest
<1> DEFINE Rg == {g.root} \ {None}
<1>17. Rg = R1
  BY <1>14
<1> HIDE DEF R1, Rg, Q
<1>18. Forest(g, Q, Rg)
  BY <1>14, <1>15, <1>16, <1>17 DEF Forest
<1>19. \E e : Ranks(g, Q, e)
  <2>1. PICK e : Ranks(m, Q, e)
    BY <1>11
  <2>2. Ranks(g, Q, e)
    BY <2>1, <1>15 DEF Ranks
  <2> QED BY <2>2
<1>20. HeapOf(g, Q)
  BY <1>14, <1>18, <1>19 DEF HeapOf, Tree, Rg
<1> QED BY <1>10, <1>20 DEF Q

-----------------------------------------------------------------------------
P == INSTANCE StridePolicy

StrideTypeOK ==
  /\ StridesOK
  /\ priority \in [Sharers -> 0 .. Words - 1]
  /\ running \in Links
  /\ asleep \in SUBSET Sharers /\ running \notin asleep
  /\ sleepers \in {{}, Sharers}

Consistent == \A p, q, r \in Sharers : Comp(p, q) + Comp(q, r) = Comp(p, r)

HeapOK == HeapOf(heap, Queued)

\* While nobody sleeps the strides are in order, and a process that runs has all the others
\* in the heap.
Awake == sleepers = {} => Consistent /\ (running # None => asleep = {})

StrideInv == StrideTypeOK /\ HeapOK /\ Awake

-----------------------------------------------------------------------------
(* The comparison of two words is their difference, shifted by at most one *)
(* turn, and an int32_t.                                                   *)
LEMMA CompRange ==
  ASSUME StridesOK, NEW p \in Sharers, NEW q \in Sharers
  PROVE  /\ Comp(p, q) \in -BigStride - 1 .. BigStride
         /\ Comp(p, q) \in {stride[p] - stride[q], stride[p] - stride[q] - Words,
                            stride[p] - stride[q] + Words}
  BY BigStrideAssumption DEF StridesOK, Strides, Words, Comp, Signed

(* A consistent comparison is antisymmetric, so that its least value does  *)
(* not occur.                                                              *)
LEMMA ConsistentRange ==
  ASSUME StridesOK, Consistent, NEW p \in Sharers, NEW q \in Sharers
  PROVE  /\ Comp(p, q) = -Comp(q, p)
         /\ Comp(p, q) \in -BigStride .. BigStride
<1>1. Comp(p, q) + Comp(q, p) = Comp(p, p)
  BY DEF Consistent
<1>2. Comp(p, p) = 0
  BY BigStrideAssumption DEF StridesOK, Strides, Comp, Signed
<1>3. /\ Comp(p, q) \in -BigStride - 1 .. BigStride
      /\ Comp(q, p) \in -BigStride - 1 .. BigStride
  BY CompRange
<1> QED BY <1>1, <1>2, <1>3, BigStrideAssumption

(* A difference inside the range is what the comparison of any two words   *)
(* with that difference, up to turns, gives.                               *)
LEMMA SignedExact ==
  ASSUME NEW d \in -BigStride .. BigStride, NEW e \in Int,
         e \in {d, d + Words, d - Words}
  PROVE  Signed(e) = d
  BY BigStrideAssumption DEF Signed, Words

(* Strides stay words.                                                     *)
LEMMA StridesKept == StridesOK /\ [P!Next]_stride => StridesOK'
<1> SUFFICES ASSUME StridesOK, [P!Next]_stride PROVE StridesOK'
  OBVIOUS
<1>1. CASE UNCHANGED stride
  BY <1>1 DEF StridesOK
<1>2. ASSUME NEW p \in Sharers, P!Run(p)
      PROVE  StridesOK'
  BY <1>2, BigStrideAssumption DEF P!Run, P!Wrapped, P!Words, StridesOK, Strides, Words, Wrapped
<1> QED BY <1>1, <1>2 DEF P!Next

(* The process that runs was behind nobody, so that its differences to the *)
(* others grow by the pass and stay inside the range.                      *)
LEMMA RunShifts ==
  ASSUME StridesOK, Consistent, NEW p \in Sharers, NEW pass \in 0 .. BigStride,
         \A q \in Sharers : Comp(p, q) <= 0,
         stride' = [stride EXCEPT ![p] = Wrapped(@ + pass)],
         NEW q \in Sharers \ {p}
  PROVE  /\ Comp(p, q)' = Comp(p, q) + pass
         /\ Comp(q, p)' = Comp(q, p) - pass
<1>1. /\ Comp(p, q) \in -BigStride .. 0
      /\ Comp(q, p) = -Comp(p, q)
  BY ConsistentRange, BigStrideAssumption
<1>2. /\ Comp(p, q) \in {stride[p] - stride[q], stride[p] - stride[q] - Words,
                         stride[p] - stride[q] + Words}
      /\ stride[p] \in Strides /\ stride[q] \in Strides
  BY CompRange DEF StridesOK
<1>3. /\ stride'[p] \in {stride[p] + pass, stride[p] + pass - Words}
      /\ stride'[p] \in Strides /\ stride'[q] = stride[q]
  BY <1>2, BigStrideAssumption DEF StridesOK, Strides, Words, Wrapped
<1> DEFINE d == Comp(p, q) + pass
           e == stride'[p] - stride'[q]
<1>4. d \in -BigStride .. BigStride
  BY <1>1, BigStrideAssumption
<1>5. e \in Int /\ e \in {d, d + Words, d - Words}
  BY <1>1, <1>2, <1>3, <1>4, BigStrideAssumption DEF Strides, Words
<1>6. -d \in -BigStride .. BigStride /\ -e \in Int /\ -e \in {-d, -d + Words, -d - Words}
  BY <1>4, <1>5, BigStrideAssumption DEF Words
<1>7. Signed(e) = d /\ Signed(-e) = -d
  BY <1>4, <1>5, <1>6, SignedExact
<1>8. stride'[q] - stride'[p] = -e
  BY <1>2, <1>3 DEF Strides, Words
<1> QED BY <1>1, <1>7, <1>8 DEF Comp

(* The policy keeps the comparison consistent: who runs moves against all  *)
(* others by the same pass.                                                *)
LEMMA NextConsistent == StridesOK /\ Consistent /\ [P!Next]_stride => Consistent'
<1> SUFFICES ASSUME StridesOK, Consistent, [P!Next]_stride PROVE Consistent'
  OBVIOUS
<1>1. CASE UNCHANGED stride
  BY <1>1 DEF Consistent, Comp
<1>2. ASSUME NEW r \in Sharers, P!Run(r)
      PROVE  Consistent'
  <2>1. PICK pass \in 0 .. BigStride : stride' = [stride EXCEPT ![r] = Wrapped(@ + pass)]
    BY <1>2 DEF P!Run, P!Wrapped, P!Words, Wrapped, Words
  <2>2. \A q \in Sharers \ {r} : /\ Comp(r, q)' = Comp(r, q) + pass
                               /\ Comp(q, r)' = Comp(q, r) - pass
    <3>1. \A q \in Sharers : Comp(r, q) <= 0
      BY <1>2 DEF P!Run, P!Comp, P!Signed, P!Words, Comp, Signed, Words
    <3> QED BY <2>1, <3>1, RunShifts
  <2>3. \A a, b \in Sharers \ {r} : Comp(a, b)' = Comp(a, b)
    BY <2>1 DEF Comp, StridesOK
  <2>4. Comp(r, r)' = 0 /\ Comp(r, r) = 0
    <3>1. StridesOK'
      BY StridesKept
    <3> QED BY <3>1, BigStrideAssumption DEF StridesOK, Strides, Comp, Signed
  <2>5. \A a, b \in Sharers : Comp(a, b) \in Int
    BY CompRange, BigStrideAssumption
  <2>6. SUFFICES ASSUME NEW a \in Sharers, NEW b \in Sharers, NEW c \in Sharers
                 PROVE  Comp(a, b)' + Comp(b, c)' = Comp(a, c)'
    BY DEF Consistent
  <2>7. Comp(a, b) + Comp(b, c) = Comp(a, c)
    BY DEF Consistent
  <2> DEFINE moved(x) == IF x = r THEN pass ELSE 0
  <2>8. \A x, y \in Sharers : Comp(x, y)' = Comp(x, y) + moved(x) - moved(y)
    BY <2>2, <2>3, <2>4, <2>5
  <2>9. \A x \in Sharers : moved(x) \in Int
    OBVIOUS
  <2> HIDE DEF moved
  <2> QED BY <2>5, <2>7, <2>8, <2>9
<1> QED BY <1>1, <1>2 DEF P!Next

(* The comparison of wrapped strides is an order in every reachable state  *)
(* of the policy, for any number of processes and any priorities.          *)
THEOREM StridesConsistent == P!Spec => [](P!TypeOK /\ P!Consistent)
<1>1. (P!TypeOK <=> StridesOK) /\ (P!Consistent <=> Consistent)
  <2>1. P!Strides = Strides
    BY DEF P!Strides, P!Words, Strides, Words
  <2>2. \A p, q \in Sharers : P!Comp(p, q) = Comp(p, q)
    BY DEF P!Comp, P!Signed, P!Words, Comp, Signed, Words
  <2> QED BY <2>1, <2>2 DEF P!TypeOK, StridesOK, P!Consistent, Consistent
<1>2. P!Init => StridesOK /\ Consistent
  BY BigStrideAssumption DEF P!Init, StridesOK, Consistent, Comp, Signed, Strides, Words
<1>3. StridesOK /\ Consistent /\ [P!Next]_stride => (StridesOK /\ Consistent)'
  BY StridesKept, NextConsistent
<1> QED BY <1>1, <1>2, <1>3, PTL DEF P!Spec

-----------------------------------------------------------------------------
(* A heap stays one while the strides of those in it do not change.        *)
LEMMA HeapKept ==
  ASSUME NEW h, NEW S \in SUBSET Sharers, HeapOf(h, S),
         \A p \in S : stride'[p] = stride[p]
  PROVE  HeapOf(h, S)'
<1> DEFINE R == {h.root} \ {None}
<1>1. Forest(h, S, R) /\ (\E d : Ranks(h, S, d)) /\ h \in Heaps
  BY DEF HeapOf, Tree
<1> HIDE DEF R
<1>2. \A p \in S : \A c \in Children(h, p) : c \in S
  BY <1>1 DEF Forest
<1>3. \A p, c \in S : Before(p, c)' <=> Before(p, c)
  BY DEF Before, Comp
<1>4. Forest(h, S, R)'
  BY <1>1, <1>2, <1>3 DEF Forest
<1> QED BY <1>1, <1>4 DEF HeapOf, Tree, R

(* No pass is greater than BIG_STRIDE.                                     *)
LEMMA PassRange ==
  ASSUME StrideTypeOK, NEW p \in Sharers
  PROVE  Pass(p) \in 0 .. BigStride
<1>1. priority[p] \in 0 .. Words - 1
  BY DEF StrideTypeOK
<1>2. ASSUME NEW n \in Nat, NEW k \in Nat \ {0}
      PROVE  n \div k \in 0 .. n
  <2>1. n \div k \in Nat /\ k * (n \div k) <= n
    BY <1>2
  <2>2. n \div k <= k * (n \div k)
    BY <2>1
  <2> QED BY <2>1, <2>2
<1> QED BY <1>1, <1>2, BigStrideAssumption DEF Pass, Words

(* Who is on top of a heap of all processes is behind nobody.              *)
LEMMA RootFirst ==
  ASSUME StridesOK, Consistent, NEW h, NEW S \in SUBSET Sharers, HeapOf(h, S), h.root # None
  PROVE  \A q \in S : Comp(h.root, q) <= 0
<1> DEFINE r == h.root
           T == {q \in S : ~(Comp(r, q) <= 0)}
           R == {r} \ {None}
<1>1. r \in S /\ r \in Sharers
  BY HeapRoot
<1>2. Forest(h, S, R) /\ \E d : Ranks(h, S, d)
  BY DEF HeapOf, Tree
<1>3. PICK d : Ranks(h, S, d)
  BY <1>2
<1>4. T = {}
  <2> SUFFICES ASSUME T # {} PROVE FALSE
    OBVIOUS
  <2>1. T \subseteq S
    OBVIOUS
  <2> HIDE DEF T, R
  <2>2. PICK q \in T : q \in R \/ h.parent[q] \notin T
    BY <1>2, <1>3, <2>1, NoLoop
  <2>3. q \in S /\ q \in Sharers /\ ~(Comp(r, q) <= 0)
    BY DEF T
  <2>4. q # r
    <3>1. Comp(r, r) <= 0
      BY <1>1, ConsistentRange, BigStrideAssumption
    <3> QED BY <2>3, <3>1
  <2> DEFINE u == h.parent[q]
  <2>5. u \in S /\ q \in Children(h, u) /\ Before(u, q)
    BY <1>2, <2>3, <2>4 DEF Forest, R
  <2>6. u \in Sharers /\ Comp(r, u) <= 0
    BY <2>2, <2>4, <2>5 DEF T, R
  <2>7. Comp(u, q) <= 0
    <3>1. Comp(u, q) = -Comp(q, u) /\ Comp(u, q) \in Int /\ Comp(q, u) \in Int
      BY <2>3, <2>6, ConsistentRange, CompNumbers
    <3> QED BY <2>5, <3>1 DEF Before
  <2>8. Comp(r, u) + Comp(u, q) = Comp(r, q)
    BY <1>1, <2>3, <2>6 DEF Consistent
  <2>9. Comp(r, u) \in Int /\ Comp(u, q) \in Int
    BY <1>1, <2>3, <2>6, CompNumbers
  <2> QED BY <2>3, <2>6, <2>7, <2>8, <2>9
<1> QED BY <1>4

-----------------------------------------------------------------------------
(* A pick takes the root from the heap, and leaves one of the others.      *)
LEMMA PickKeeps ==
  ASSUME StrideTypeOK, NEW h, NEW S \in SUBSET Sharers, HeapOf(h, S), StridePickNext(h),
         asleep' \in SUBSET Sharers, S = Sharers \ asleep', UNCHANGED <<priority, sleepers>>
  PROVE  StrideTypeOK' /\ HeapOK'
<1>1. h.root = None <=> S = {}
  BY HeapRoot
<1>2. CASE h.root = None
  <2>1. stride' = stride /\ heap' = h /\ running' = None
    BY <1>2 DEF StridePickNext
  <2>2. Queued' = S
    BY <2>1, StrideAssumption DEF Queued
  <2>3. HeapOf(h, S)'
    BY <2>1, HeapKept
  <2>4. HeapOK'
    BY <2>1, <2>2, <2>3 DEF HeapOK
  <2> QED BY <2>1, <2>4, StrideAssumption DEF StrideTypeOK, StridesOK, Links
<1>3. CASE h.root # None
  <2>1. h.root \in S /\ h.root \in Sharers
    BY <1>3, HeapRoot
  <2>2. /\ stride' = [stride EXCEPT ![h.root] = Wrapped(@ + Pass(h.root))]
        /\ running' = h.root
    BY <1>3 DEF StridePickNext
  <2>3. PICK g : g = HeapRemove(h, h.root) /\ heap' = g
    BY <1>3 DEF StridePickNext
  <2>4. PICK Q \in SUBSET Sharers : Q = S \ {h.root}
    OBVIOUS
  <2>5. HeapOf(g, Q)
    BY <1>3, <2>3, <2>4, RemoveExact
  <2>6. \A p \in Q : stride'[p] = stride[p]
    BY <2>2, <2>4 DEF StrideTypeOK, StridesOK
  <2>7. HeapOf(g, Q)'
    BY <2>5, <2>6, HeapKept
  <2>8. Queued' = Q
    BY <2>2, <2>4 DEF Queued
  <2>9. HeapOK'
    BY <2>3, <2>7, <2>8 DEF HeapOK
  <2>10. StridesOK'
    <3>1. Pass(h.root) \in 0 .. BigStride /\ stride[h.root] \in Strides
      BY <2>1, PassRange DEF StrideTypeOK, StridesOK
    <3>2. Wrapped(stride[h.root] + Pass(h.root)) \in Strides
      BY <3>1, BigStrideAssumption DEF Strides, Words, Wrapped
    <3> QED BY <2>2, <3>2 DEF StrideTypeOK, StridesOK
  <2> QED BY <2>1, <2>2, <2>9, <2>10 DEF StrideTypeOK, Links
<1> QED BY <1>2, <1>3

(* While nobody sleeps a pick is a step of the policy.                     *)
LEMMA PickRuns ==
  ASSUME StrideTypeOK, Consistent, NEW h, HeapOf(h, Sharers), StridePickNext(h)
  PROVE  [P!Next]_stride
<1>1. CASE h.root = None
  BY <1>1 DEF StridePickNext
<1>2. CASE h.root # None
  <2>1. Sharers \in SUBSET Sharers
    OBVIOUS
  <2>2. h.root \in Sharers /\ \A q \in Sharers : Comp(h.root, q) <= 0
    BY <1>2, <2>1, HeapRoot, RootFirst DEF StrideTypeOK
  <2>3. /\ stride' = [stride EXCEPT ![h.root] = Wrapped(@ + Pass(h.root))]
        /\ Pass(h.root) \in 0 .. BigStride
    BY <1>2, <2>2, PassRange DEF StridePickNext
  <2>4. P!Run(h.root)
    BY <2>2, <2>3 DEF P!Run, P!Comp, P!Signed, P!Wrapped, P!Words, Comp, Signed, Wrapped, Words
  <2> QED BY <2>2, <2>4 DEF P!Next
<1> QED BY <1>1, <1>2

(* The invariant holds at first.                                           *)
LEMMA StrideInitHolds == StrideInit => StrideInv
<1> SUFFICES ASSUME StrideInit PROVE StrideInv
  OBVIOUS
<1>1. StrideTypeOK
  BY BigStrideAssumption, StrideAssumption DEF StrideInit, StrideTypeOK, StridesOK, Strides, Words, Links
<1>2. Consistent
  BY BigStrideAssumption DEF StrideInit, Consistent, Comp, Signed
<1>3. Queued = {} /\ heap.root = None
  BY DEF StrideInit, Queued
<1>4. heap \in Heaps
  BY DEF StrideInit, Heaps, Links
<1>5. Forest(heap, {}, {heap.root} \ {None}) /\ Ranks(heap, {}, [p \in {} |-> 0])
  BY <1>3 DEF Forest, Ranks
<1>6. HeapOK
  BY <1>3, <1>4, <1>5 DEF HeapOK, HeapOf, Tree
<1>7. Awake
  BY <1>2 DEF StrideInit, Awake
<1> QED BY <1>1, <1>6, <1>7 DEF StrideInv

(* Each step keeps the invariant, and while nobody sleeps changes strides  *)
(* as the policy does.                                                     *)
LEMMA StepOK ==
  ASSUME StrideInv, [StrideNext]_strideVars
  PROVE  StrideInv' /\ (sleepers = {} => [P!Next]_stride)
<1>1. StrideTypeOK /\ HeapOf(heap, Queued) /\ Awake
  BY DEF StrideInv, HeapOK
<1>2. PICK h0 : h0 = heap
  OBVIOUS
<1>3. PICK S0 \in SUBSET Sharers : S0 = Queued
  BY DEF Queued
<1>4. HeapOf(h0, S0)
  BY <1>1, <1>2, <1>3
<1>5. None \notin Sharers
  BY StrideAssumption
<1> DEFINE Goal == StrideInv' /\ (sleepers = {} => [P!Next]_stride)
<1>6. ASSUME sleepers = {}, sleepers' = sleepers, [P!Next]_stride
      PROVE  Consistent'
  BY <1>1, <1>6, NextConsistent DEF StrideTypeOK, Awake
<1>7. CASE UNCHANGED strideVars
  <2>1. StrideTypeOK' /\ Awake'
    BY <1>1, <1>7 DEF strideVars, StrideTypeOK, StridesOK, Awake, Consistent, Comp
  <2>2. HeapOf(h0, S0)'
    BY <1>4, <1>7, HeapKept DEF strideVars
  <2>3. HeapOK'
    BY <1>2, <1>3, <1>7, <2>2 DEF strideVars, HeapOK, Queued
  <2> QED BY <1>7, <2>1, <2>3 DEF StrideInv, strideVars
<1>8. CASE Yield
  <2>1. /\ running # None /\ UNCHANGED <<priority, asleep, sleepers>>
        /\ \E h \in {HeapInsert(heap, running)} : StridePickNext(h)
    BY <1>8 DEF Yield
  <2>2. PICK p \in Sharers : p = running
    BY <1>1, <2>1 DEF StrideTypeOK, Links
  <2>3. PICK h : h = HeapInsert(h0, p) /\ StridePickNext(h)
    BY <1>2, <2>1, <2>2
  <2>4. PICK S \in SUBSET Sharers : S = Sharers \ asleep
    OBVIOUS
  <2>5. S = S0 \cup {p} /\ p \in Sharers \ S0
    BY <1>1, <1>3, <2>2, <2>4 DEF StrideTypeOK, Queued
  <2>6. HeapOf(h, S)
    <3>1. HeapOf(HeapInsert(h0, p), S0 \cup {p})
      BY <1>4, <2>5, InsertExact
    <3> QED BY <2>3, <2>5, <3>1
  <2>7. StrideTypeOK' /\ HeapOK'
    BY <1>1, <2>1, <2>3, <2>4, <2>6, PickKeeps DEF StrideTypeOK
  <2>8. ASSUME sleepers = {} PROVE [P!Next]_stride /\ asleep = {}
    <3>1. asleep = {} /\ Consistent
      BY <1>1, <2>1, <2>8 DEF Awake
    <3>2. S = Sharers
      BY <2>4, <3>1
    <3>3. HeapOf(h, Sharers)
      BY <2>6, <3>2
    <3> QED BY <1>1, <2>3, <3>1, <3>3, PickRuns
  <2>9. Awake'
    BY <1>6, <2>1, <2>8 DEF Awake
  <2> QED BY <2>7, <2>8, <2>9 DEF StrideInv
<1>9. CASE Block
  <2>1. /\ running \in sleepers /\ asleep' = asleep \cup {running}
        /\ StridePickNext(heap) /\ UNCHANGED <<priority, sleepers>>
    BY <1>9 DEF Block
  <2>2. running \in Sharers /\ sleepers = Sharers
    BY <1>1, <2>1 DEF StrideTypeOK
  <2>3. asleep' \in SUBSET Sharers /\ S0 = Sharers \ asleep'
    BY <1>1, <1>3, <2>1, <2>2 DEF StrideTypeOK, Queued
  <2>4. StrideTypeOK' /\ HeapOK'
    BY <1>1, <1>2, <1>4, <2>1, <2>3, PickKeeps
  <2>5. sleepers # {} /\ sleepers' # {}
    BY <2>1, <2>2
  <2> QED BY <2>4, <2>5 DEF StrideInv, Awake
<1>10. CASE StrideIdle
  <2>1. /\ running = None /\ (sleepers = {} => asleep = {})
        /\ StridePickNext(heap) /\ UNCHANGED <<priority, asleep, sleepers>>
    BY <1>10 DEF StrideIdle
  <2>2. asleep' \in SUBSET Sharers /\ S0 = Sharers \ asleep'
    BY <1>1, <1>3, <1>5, <2>1 DEF StrideTypeOK, Queued
  <2>3. StrideTypeOK' /\ HeapOK'
    BY <1>1, <1>2, <1>4, <2>1, <2>2, PickKeeps
  <2>4. ASSUME sleepers = {} PROVE [P!Next]_stride /\ asleep = {}
    <3>1. asleep = {} /\ Consistent
      BY <1>1, <2>1, <2>4 DEF Awake
    <3>2. S0 = Sharers
      BY <2>1, <2>2, <3>1
    <3>3. HeapOf(h0, Sharers)
      BY <1>4, <3>2
    <3> QED BY <1>1, <1>2, <2>1, <3>1, <3>3, PickRuns
  <2>5. Awake'
    BY <1>6, <2>1, <2>4 DEF Awake
  <2> QED BY <2>3, <2>4, <2>5 DEF StrideInv
<1>11. ASSUME NEW p \in Sharers, Wakeup(p) PROVE Goal
  <2>1. /\ p \in asleep /\ asleep' = asleep \ {p} /\ heap' = HeapInsert(heap, p)
        /\ UNCHANGED <<stride, priority, running, sleepers>>
    BY <1>11 DEF Wakeup
  <2>2. PICK h : h = HeapInsert(h0, p)
    OBVIOUS
  <2>3. p \in Sharers \ S0 /\ p # running
    BY <1>1, <1>3, <2>1 DEF Queued, StrideTypeOK
  <2>4. PICK S \in SUBSET Sharers : S = S0 \cup {p}
    BY <2>3
  <2>5. HeapOf(h, S)
    BY <1>4, <2>2, <2>3, <2>4, InsertExact
  <2>6. HeapOf(h, S)'
    BY <2>1, <2>5, HeapKept
  <2>7. Queued' = S
    BY <1>1, <1>3, <2>1, <2>3, <2>4 DEF Queued, StrideTypeOK
  <2>8. HeapOK'
    BY <1>2, <2>1, <2>2, <2>6, <2>7 DEF HeapOK
  <2>9. StrideTypeOK' /\ Awake'
    <3>1. StrideTypeOK'
      BY <1>1, <2>1 DEF StrideTypeOK, StridesOK
    <3>2. Consistent' <=> Consistent
      BY <2>1 DEF Consistent, Comp
    <3> QED BY <1>1, <2>1, <3>1, <3>2 DEF Awake
  <2> QED BY <2>1, <2>8, <2>9 DEF StrideInv
<1>12. ASSUME NEW n \in Priorities, SetPriority(n) PROVE Goal
  <2>1. /\ running # None
        /\ priority' = [priority EXCEPT ![running] = IF n = 0 THEN 1 ELSE n]
        /\ UNCHANGED <<stride, heap, running, asleep, sleepers>>
    BY <1>12 DEF SetPriority
  <2>2. HeapOf(h0, S0)'
    BY <1>4, <2>1, HeapKept
  <2>3. HeapOK'
    BY <1>2, <1>3, <2>1, <2>2 DEF HeapOK, Queued
  <2>4. StrideTypeOK'
    <3>1. (IF n = 0 THEN 1 ELSE n) \in 0 .. Words - 1
      BY StrideAssumption, BigStrideAssumption DEF Words
    <3> QED BY <1>1, <2>1, <3>1 DEF StrideTypeOK, StridesOK
  <2>5. Awake'
    <3>1. Consistent' <=> Consistent
      BY <2>1 DEF Consistent, Comp
    <3> QED BY <1>1, <2>1, <3>1 DEF Awake
  <2> QED BY <2>1, <2>3, <2>4, <2>5 DEF StrideInv
<1> QED BY <1>7, <1>8, <1>9, <1>10, <1>11, <1>12 DEF StrideNext

(* The inductive invariant holds in every reachable state.                *)
THEOREM StrideInvariance == StrideSpec => []StrideInv
<1>1. StrideInit => StrideInv
  BY StrideInitHolds
<1>2. StrideInv /\ [StrideNext]_strideVars => StrideInv'
  BY StepOK
<1> QED BY <1>1, <1>2, PTL DEF StrideSpec

-----------------------------------------------------------------------------
(* The heap always holds exactly the queued processes, in a tree whose     *)
(* pointers fit, also those to parents.                                    *)
THEOREM HeapCorrect == StrideSpec => []HeapExact
<1>1. ASSUME StrideInv PROVE HeapExact
  <2> DEFINE R == {heap.root} \ {None}
  <2>1. Queued \in SUBSET Sharers /\ HeapOf(heap, Queued)
    BY <1>1 DEF StrideInv, HeapOK, Queued
  <2>2. /\ heap.root = None <=> Queued = {}
        /\ heap.root # None => heap.root \in Queued /\ heap.parent[heap.root] = None
    <3>1. heap.root # None => heap.parent[heap.root] = None
      BY <2>1 DEF HeapOf
    <3> HIDE DEF HeapOf
    <3> QED BY <2>1, <3>1, HeapRoot
  <2>3. Forest(heap, Queued, R) /\ \E d : Ranks(heap, Queued, d)
    BY <2>1 DEF HeapOf, Tree
  <2>4. \A p \in Queued :
          /\ \A c \in Children(heap, p) : c \in Queued /\ heap.parent[c] = p
          /\ heap.left[p] = heap.right[p] => heap.left[p] = None
          /\ p \notin R => heap.parent[p] \in Queued /\ p \in Children(heap, heap.parent[p])
    BY <2>3 DEF Forest
  <2>5. PICK d : Ranks(heap, Queued, d)
    BY <2>3
  <2>6. ASSUME NEW loop \in (SUBSET Queued) \ {{}}
        PROVE  \E p \in loop : heap.parent[p] \notin loop
    <3> HIDE DEF R
    <3>1. PICK p \in loop : p \in R \/ heap.parent[p] \notin loop
      BY <2>3, <2>5, <2>6, NoLoop
    <3>2. p \in R => heap.parent[p] \notin loop
      BY <2>2, <2>6, StrideAssumption DEF R, Queued
    <3> QED BY <3>1, <3>2
  <2>7. ASSUME NEW p \in Queued, p # heap.root
        PROVE  heap.parent[p] \in Queued
               /\ p \in {heap.left[heap.parent[p]], heap.right[heap.parent[p]]}
    BY <2>4, <2>7 DEF Children
  <2>8. ASSUME NEW p \in Queued
        PROVE  \A c \in {heap.left[p], heap.right[p]} \ {None} : c \in Queued /\ heap.parent[c] = p
    BY <2>4 DEF Children
  <2> QED BY <2>2, <2>4, <2>6, <2>7, <2>8 DEF HeapExact
<1> QED BY <1>1, StrideInvariance, PTL

(* The root is the least of the queue, whenever the strides in it can be   *)
(* compared.                                                               *)
THEOREM LeastTaken == StrideSpec => []LeastFirst
<1>1. ASSUME StrideInv PROVE LeastFirst
  <2>1. SUFFICES ASSUME NEW q \in Queued, \A p \in Queued : Ahead(p, q) <= BigStride
                 PROVE  stride[heap.root] = stride[q]
    BY DEF LeastFirst
  <2> DEFINE R == {heap.root} \ {None}
             T == {p \in Queued : stride[p] = stride[q]}
  <2>2. Queued \in SUBSET Sharers /\ HeapOf(heap, Queued) /\ StridesOK
    BY <1>1 DEF StrideInv, HeapOK, Queued, StrideTypeOK
  <2>3. Forest(heap, Queued, R) /\ \E d : Ranks(heap, Queued, d)
    BY <2>2 DEF HeapOf, Tree
  <2>4. PICK d : Ranks(heap, Queued, d)
    BY <2>3
  <2>5. T \subseteq Queued /\ T # {}
    BY <2>1
  <2> HIDE DEF T, R
  <2>6. PICK p \in T : p \in R \/ heap.parent[p] \notin T
    BY <2>3, <2>4, <2>5, NoLoop
  <2>7. CASE p \in R
    BY <2>7 DEF R, T
  <2>8. CASE p \notin R
    <3> DEFINE u == heap.parent[p]
    <3>1. p \in Queued /\ stride[p] = stride[q]
      BY DEF T
    <3>2. u \in Queued /\ Before(u, p) /\ u \notin T
      BY <2>3, <2>6, <2>8, <3>1 DEF Forest
    <3>3. stride[u] # stride[q]
      BY <3>2 DEF T
    <3>4. Ahead(u, q) <= BigStride
      BY <2>1, <3>2
    <3>5. /\ stride[u] \in Strides /\ stride[q] \in Strides
      BY <2>1, <2>2, <3>2 DEF StridesOK
    <3>6. Before(u, p) <=> Before(u, q)
      BY <3>1 DEF Before, Comp
    <3> HIDE DEF u
    <3>7. ~Before(u, q)
      BY <3>3, <3>4, <3>5, BigStrideAssumption DEF Before, Comp, Signed, Ahead, Strides, Words
    <3> QED BY <3>2, <3>6, <3>7
  <2> QED BY <2>7, <2>8
<1> QED BY <1>1, StrideInvariance, PTL

(* While nobody sleeps, the skew heap on words that wrap implements the    *)
(* policy.                                                                 *)
THEOREM PolicyImplemented == StrideSpec => PolicySpec
<1> DEFINE bar == IF sleepers = {} THEN stride ELSE [p \in Sharers |-> 0]
<1>1. StrideInit => Policy!Init
  BY DEF StrideInit, Policy!Init
<1>2. ASSUME StrideInv, [StrideNext]_strideVars PROVE [Policy!Next]_bar
  <2>1. sleepers' = sleepers
    BY <1>2 DEF StrideNext, strideVars, Yield, Block, StrideIdle, Wakeup, SetPriority
  <2>2. CASE sleepers # {}
    BY <2>1, <2>2
  <2>3. CASE sleepers = {}
    <3>1. [P!Next]_stride
      BY <1>2, <2>3, StepOK
    <3>2. bar = stride /\ bar' = stride'
      BY <2>1, <2>3
    <3>3. CASE UNCHANGED stride
      BY <3>2, <3>3
    <3>4. ASSUME NEW p \in Sharers, P!Run(p) PROVE Policy!Run(p)
      <4>1. \A q \in Sharers : Policy!Comp(p, q) = P!Comp(p, q)
        BY <2>3 DEF Policy!Comp, P!Comp, Policy!Signed, P!Signed, Policy!Words, P!Words
      <4>2. \A n : Policy!Wrapped(n) = P!Wrapped(n)
        BY DEF Policy!Wrapped, P!Wrapped, Policy!Words, P!Words
      <4> QED BY <2>1, <2>3, <3>2, <3>4, <4>1, <4>2 DEF Policy!Run, P!Run
    <3> QED BY <3>1, <3>3, <3>4 DEF P!Next, Policy!Next
  <2> QED BY <2>2, <2>3
<1> QED BY <1>1, <1>2, StrideInvariance, PTL DEF StrideSpec, PolicySpec, Policy!Spec

-----------------------------------------------------------------------------
(* Stdin: the buffer of stdin.                                             *)

PlaceOK(p) ==
  /\ pc[p] = "idle" <=> p = Idle
  /\ state[p] # "UNUSED"
  /\ pc[p] = "dead" <=> state[p] = "ZOMBIE"
  /\ state[p] = "SLEEPING" => pc[p] = IF p = current THEN "read_sched" ELSE "read_wake"

SleepOK(p) ==
  /\ waitState[p] \in {"NONE", "WT_KBD"}
  /\ state[p] = "SLEEPING" <=> waitState[p] = "WT_KBD"
  /\ state[p] = "SLEEPING" => p \in waitq
  /\ p \in waitq => pc[p] \in {"read_sched", "read_wake"}

IInv ==
  /\ TypeOK
  /\ SchedInv
  /\ \A p \in Procs : PlaceOK(p)
  /\ \A p \in Procs : SleepOK(p)
  /\ NoSleepWithKeys

(* A process moves on in the kernel or its program, out of the wait queue  *)
(* if it is there, and nothing of the scheduler changes.                   *)
LEMMA MoveKeeps ==
  ASSUME IInv, NEW p \in Readers, current = p, pc[p] \notin {"read_sched", "dead"},
         NEW l \in PCs \ {"idle", "dead"}, Goto(p, l), UNCHANGED schedVars, TypeOK',
         waitq' = waitq \ {p},
         \A q \in Readers : waitState[q] = "WT_KBD" => rpos' = wpos'
  PROVE  IInv'
<1>1. state[p] # "SLEEPING" /\ state[p] # "ZOMBIE"
  BY DEF IInv, PlaceOK, Readers
<1>2. SchedInv'
  BY DEF IInv, SchedInv, SchedTypeOK, RunQueueExact, schedVars
<1>3. ASSUME NEW q \in Procs
      PROVE  PlaceOK(q)'
  BY <1>1 DEF IInv, TypeOK, PlaceOK, Goto, schedVars, Readers
<1>4. ASSUME NEW q \in Procs
      PROVE  SleepOK(q)'
  BY <1>1 DEF IInv, TypeOK, SleepOK, Goto, schedVars
<1>5. NoSleepWithKeys'
  BY DEF NoSleepWithKeys, schedVars
<1> QED BY <1>2, <1>3, <1>4, <1>5 DEF IInv

(* A call of schedule(): the caller goes on at l some day.                 *)
LEMMA SwitchKeeps ==
  ASSUME IInv, NEW p \in Procs, current = p, NEW l \in PCs, SwitchTo(p, l),
         state[p] = "SLEEPING" \/ p \in waitq => l = "read_wake",
         state[p] = "ZOMBIE" <=> l = "dead",
         p = Idle <=> l = "idle",
         UNCHANGED <<exiting, ring, waitq, flags, want>>
  PROVE  IInv'
<1>1. SchedInv' /\ state'[current'] = "RUNNABLE" /\ UNCHANGED <<state, waitState>>
  BY ScheduleKeeps DEF SwitchTo, IInv
<1>2. TypeOK'
  BY <1>1 DEF IInv, TypeOK, SchedInv, SwitchTo, Goto, ring
<1>3. ASSUME NEW q \in Procs
      PROVE  PlaceOK(q)'
  BY <1>1 DEF IInv, TypeOK, PlaceOK, SwitchTo, Goto
<1>4. ASSUME NEW q \in Procs
      PROVE  SleepOK(q)'
  BY <1>1 DEF IInv, TypeOK, SleepOK, SwitchTo, Goto
<1>5. NoSleepWithKeys'
  BY <1>1 DEF IInv, NoSleepWithKeys, ring
<1> QED BY <1>1, <1>2, <1>3, <1>4, <1>5 DEF IInv

(* The processes of W are woken, and nobody else sleeps over a key.        *)
LEMMA WakeKeeps ==
  ASSUME IInv, NEW W, W \subseteq Procs, MakeRunnable(W), SchedInv', UNCHANGED current,
         \A q \in W : state[q] # "ZOMBIE",
         TypeOK',
         \/ UNCHANGED pc
         \/ state[current] = "RUNNABLE" /\ pc[current] = "user" /\ Goto(current, "sysret"),
         waitq' \subseteq waitq, waitq \ waitq' \subseteq W,
         rpos' = wpos' \/ \A q \in Readers : waitState[q] = "WT_KBD" => q \in W
  PROVE  IInv'
<1>1. \A q \in Procs :
        /\ state'[q] = IF q \in W THEN "RUNNABLE" ELSE state[q]
        /\ waitState'[q] = IF q \in W /\ state[q] # "RUNNABLE" THEN "NONE" ELSE waitState[q]
  BY DEF MakeRunnable, Woken, IInv, SchedInv, SchedTypeOK
<1>2. ASSUME NEW q \in Procs
      PROVE  PlaceOK(q)'
  <2>1. CASE UNCHANGED pc
    BY <1>1, <2>1 DEF IInv, PlaceOK
  <2>2. CASE state[current] = "RUNNABLE" /\ pc[current] = "user" /\ Goto(current, "sysret")
    BY <1>1, <2>2 DEF IInv, TypeOK, PlaceOK, Goto
  <2> QED BY <2>1, <2>2
<1>3. ASSUME NEW q \in Procs
      PROVE  SleepOK(q)'
  BY <1>1, ZenonT(60) DEF IInv, TypeOK, SleepOK, Goto
<1>4. NoSleepWithKeys'
  BY <1>1 DEF IInv, SleepOK, NoSleepWithKeys, Readers
<1> QED BY <1>2, <1>3, <1>4 DEF IInv

-----------------------------------------------------------------------------
LEMMA InitIInv == Init => IInv
<1> SUFFICES ASSUME Init PROVE IInv
  OBVIOUS
<1>1. TypeOK
  BY SchedAssumption, StdinAssumption DEF Init, TypeOK, SchedTypeOK, Readers, PCs, States, WaitStates
<1>2. SchedInv
  BY SchedAssumption, <1>1 DEF Init, TypeOK, SchedInv, RunQueueExact, Readers
<1>3. \A p \in Procs : PlaceOK(p) /\ SleepOK(p)
  BY DEF Init, PlaceOK, SleepOK
<1>4. NoSleepWithKeys
  BY DEF Init, NoSleepWithKeys
<1> QED BY <1>1, <1>2, <1>3, <1>4 DEF IInv

(* A key goes into the ring or over the oldest character, and all readers  *)
(* in the queue are woken, so that none sleeps (dev_stdin_write).          *)
LEMMA KeyKeeps == IInv /\ Key => IInv'
<1> SUFFICES ASSUME IInv, Key PROVE IInv'
  OBVIOUS
<1>1. MakeRunnable(waitq) /\ waitq \subseteq Procs /\ UNCHANGED <<current, pc>> /\ waitq' = {}
  BY DEF Key, WakeReaders, IInv, TypeOK, Readers
<1>2. slice' \in [Procs -> 0 .. MaxTimeSlice]
  BY EnqueueType DEF Key, WakeReaders, WokenSlice, IInv, SchedInv, SchedTypeOK
<1>3. SchedInv'
  BY <1>1, <1>2, MakeRunnableKeeps DEF Key, WakeReaders, IInv, SchedInv, SchedTypeOK
<1>4. wpos % BufSize \in 0 .. BufSize - 1
  BY StdinAssumption DEF IInv, TypeOK
<1>5. TypeOK'
  <2>1. typed + 1 \in 0 .. MaxTyped /\ typed' \in 0 .. MaxTyped
    BY StdinAssumption DEF Key, IInv, TypeOK
  <2>4. buffer' \in [0 .. BufSize - 1 -> 0 .. MaxTyped]
    BY <2>1 DEF Key, Put, IInv, TypeOK
  <2>5. lost' \subseteq 0 .. MaxTyped
    <3>1. buffer[wpos % BufSize] \in 0 .. MaxTyped /\ lost \subseteq 0 .. MaxTyped
      BY <1>4 DEF IInv, TypeOK
    <3> QED BY <3>1 DEF Key, Put
  <2>2. rpos' \in 0 .. wpos' /\ wpos' \in 0 .. rpos' + BufSize
    BY StdinAssumption DEF Key, Put, IInv, TypeOK
  <2>3. flags' \in [Procs -> {"WT_INTERRUPTED", "WT_KBD"}]
    BY DEF Key, WakeReaders, IInv, TypeOK
  <2> QED BY <1>3, <2>1, <2>2, <2>3, <2>4, <2>5 DEF Key, WakeReaders, SchedInv, IInv, TypeOK
<1>6. \A q \in waitq : state[q] # "ZOMBIE"
  BY <1>1 DEF IInv, PlaceOK, SleepOK
<1>7. \A q \in Readers : waitState[q] = "WT_KBD" => q \in waitq
  BY DEF IInv, SleepOK, Readers
<1> QED BY <1>1, <1>3, <1>5, <1>6, <1>7, WakeKeeps

-----------------------------------------------------------------------------
(* Where a process is that has the processor and is not in the wait queue. *)
LEMMA Running ==
  ASSUME IInv, NEW p \in Readers, NEW l \in PCs \ {"read_sched", "read_wake"}, At(p, l)
  PROVE  current = p /\ p # Idle /\ p \in Procs /\ p \notin waitq /\ waitq \ {p} = waitq
         /\ (state[p] = "RUNNABLE" \/ l = "dead")
<1>1. current = p /\ p # Idle /\ p \in Procs /\ pc[p] = l
  BY DEF At, Readers
<1>2. p \notin waitq
  BY <1>1 DEF IInv, SleepOK
<1>3. state[p] = "RUNNABLE" \/ l = "dead"
  BY <1>1 DEF IInv, SchedInv, SchedTypeOK, States, PlaceOK
<1> QED BY <1>1, <1>2, <1>3

LEMMA ReadCallKeeps == ASSUME IInv, NEW p \in Readers, NEW n \in 1 .. MaxRead, ReadCall(p, n)
                       PROVE  IInv'
<1>1. current = p /\ pc[p] = "user" /\ waitq' = waitq \ {p} /\ UNCHANGED schedVars
  BY Running DEF ReadCall, PCs, At
<1>2. n \in 0 .. MaxRead
  BY StdinAssumption
<1>3. TypeOK'
  BY <1>1, <1>2 DEF ReadCall, Goto, PCs, IInv, TypeOK, SchedTypeOK, schedVars, ring
<1>4. \A q \in Readers : waitState[q] = "WT_KBD" => rpos' = wpos'
  BY DEF ReadCall, ring, IInv, NoSleepWithKeys
<1> QED BY <1>1, <1>3, <1>4, MoveKeeps DEF ReadCall, PCs

(* A character is there, so nobody sleeps, and taking it changes nothing   *)
(* of that (dev_stdin_read).                                               *)
LEMMA ReadCharKeeps == ASSUME IInv, NEW p \in Readers, ReadChar(p)
                       PROVE  IInv'
<1>1. current = p /\ pc[p] = "read" /\ waitq' = waitq \ {p} /\ UNCHANGED schedVars
  BY Running DEF ReadChar, PCs, At
<1>2. rpos \in Nat /\ wpos \in Nat /\ rpos < wpos /\ wpos <= rpos + BufSize /\ rpos' = rpos + 1 /\ wpos' = wpos
  BY StdinAssumption DEF ReadChar, IInv, TypeOK
<1>3. rpos' \in 0 .. wpos' /\ wpos' \in 0 .. rpos' + BufSize
  BY <1>2, StdinAssumption
<1>4. rpos % BufSize \in 0 .. BufSize - 1
  BY <1>2, StdinAssumption
<1>5. taken' \in Seq(0 .. MaxTyped)
  BY <1>4 DEF ReadChar, IInv, TypeOK
<1>6. want' \in [Procs -> 0 .. MaxRead]
  BY StdinAssumption DEF ReadChar, IInv, TypeOK, Readers
<1>7. pc' = [pc EXCEPT ![p] = "read"]
  BY <1>1 DEF ReadChar, IInv, TypeOK
<1>8. TypeOK'
  BY <1>1, <1>3, <1>5, <1>6 DEF ReadChar, IInv, TypeOK, SchedTypeOK, schedVars
<1>9. \A q \in Readers : waitState[q] = "WT_KBD" => rpos' = wpos'
  BY <1>2 DEF IInv, NoSleepWithKeys
<1> QED BY <1>1, <1>7, <1>8, <1>9, MoveKeeps DEF PCs, Goto

(* The ring is empty, and the reader sleeps and is in the queue before any *)
(* key can come.                                                           *)
LEMMA ReadSleepKeeps == ASSUME IInv, NEW p \in Readers, ReadSleep(p)
                        PROVE  IInv'
<1>1. current = p /\ p \in Procs /\ p # Idle /\ pc[p] = "read" /\ p \notin waitq /\ state[p] = "RUNNABLE"
  BY Running DEF ReadSleep, PCs, At
<1>2. SchedInv'
  BY <1>1, SetSleepingKeeps DEF ReadSleep, IInv, WaitStates
<1>3. TypeOK'
  BY <1>1, <1>2 DEF ReadSleep, Goto, PCs, IInv, SchedInv, TypeOK, ring
<1>4. \A q \in Procs : PlaceOK(q)'
  BY <1>1 DEF ReadSleep, SetSleeping, Goto, IInv, TypeOK, SchedTypeOK, PlaceOK
<1>5. \A q \in Procs : SleepOK(q)'
  BY <1>1 DEF ReadSleep, SetSleeping, Goto, IInv, TypeOK, SchedTypeOK, SleepOK
<1>6. rpos' = wpos'
  BY StdinAssumption DEF ReadSleep, ring, IInv, TypeOK
<1> QED BY <1>2, <1>3, <1>4, <1>5, <1>6 DEF IInv, NoSleepWithKeys

LEMMA ReadScheduleKeeps == ASSUME IInv, NEW p \in Readers, ReadSchedule(p)
                           PROVE  IInv'
<1>1. current = p /\ pc[p] = "read_sched" /\ p \in Procs /\ p # Idle
  BY DEF ReadSchedule, At, Readers
<1>2. state[p] # "ZOMBIE"
  BY <1>1 DEF IInv, PlaceOK
<1> QED BY <1>1, <1>2, SwitchKeeps DEF ReadSchedule, PCs

LEMMA ReadWakeKeeps == ASSUME IInv, NEW p \in Readers, ReadWake(p)
                       PROVE  IInv'
<1>1. current = p /\ pc[p] = "read_wake" /\ UNCHANGED schedVars /\ UNCHANGED ring
      /\ waitq' = waitq \ {p}
  BY DEF ReadWake, At
<1>2. PICK l \in {"read", "sysret"} : Goto(p, l) /\ want' \in [Procs -> 0 .. MaxRead]
  BY StdinAssumption DEF ReadWake, IInv, TypeOK
<1>3. TypeOK'
  BY <1>1, <1>2 DEF ReadWake, Goto, PCs, IInv, TypeOK, SchedTypeOK, schedVars, ring
<1>4. \A q \in Readers : waitState[q] = "WT_KBD" => rpos' = wpos'
  BY <1>1 DEF ring, IInv, NoSleepWithKeys
<1> QED BY <1>1, <1>2, <1>3, <1>4, MoveKeeps DEF PCs

LEMMA ReadEndKeeps == ASSUME IInv, NEW p \in Readers, ReadEnd(p)
                      PROVE  IInv'
<1>1. current = p /\ pc[p] = "read" /\ waitq' = waitq \ {p} /\ UNCHANGED schedVars
  BY Running DEF ReadEnd, PCs, At
<1>2. TypeOK'
  BY <1>1 DEF ReadEnd, Goto, PCs, IInv, TypeOK, SchedTypeOK, schedVars, ring
<1>3. \A q \in Readers : waitState[q] = "WT_KBD" => rpos' = wpos'
  BY DEF ReadEnd, ring, IInv, NoSleepWithKeys
<1> QED BY <1>1, <1>2, <1>3, MoveKeeps DEF ReadEnd, PCs

-----------------------------------------------------------------------------
(* A kill may wake a reader, which stays in the queue (do_kill).           *)
LEMMA KillKeeps == ASSUME IInv, NEW p \in Readers, NEW q \in Readers, Kill(p, q)
                   PROVE  IInv'
<1>1. current = p /\ pc[p] = "user" /\ p \in Procs /\ state[p] = "RUNNABLE" /\ Goto(p, "sysret")
  BY Running DEF Kill, PCs, At
<1>2. PICK W \in {{q}, {}} : MakeRunnable(W) /\ SchedInv' /\ UNCHANGED current
  <2>1. CASE Interrupted(waitState[q])
    BY <2>1, WakeupProcKeeps DEF Kill, WakeupProc, IInv, Readers
  <2>2. CASE ~Interrupted(waitState[q])
    BY <2>2, NobodyWoken DEF Kill, IInv
  <2> QED BY <2>1, <2>2
<1>3. TypeOK'
  BY <1>1, <1>2 DEF Kill, Goto, PCs, IInv, SchedInv, TypeOK, ring
<1>4. W \subseteq Procs /\ \A r \in W : state[r] # "ZOMBIE"
  BY DEF Kill, Readers
<1>5. rpos' = wpos' \/ \A r \in Readers : waitState[r] = "WT_KBD" => r \in W
  BY DEF Kill, ring, IInv, NoSleepWithKeys
<1>6. waitq' = waitq
  BY DEF Kill
<1> QED BY <1>1, <1>2, <1>3, <1>4, <1>5, <1>6, WakeKeeps

LEMMA TrapReturnKeeps == ASSUME IInv, NEW p \in Readers, TrapReturn(p)
                         PROVE  IInv'
<1>1. current = p /\ pc[p] = "sysret" /\ waitq' = waitq \ {p} /\ UNCHANGED schedVars
  BY Running DEF TrapReturn, PCs, At
<1>2. PICK l \in {"exit", "user"} : Goto(p, l)
  BY DEF TrapReturn
<1>3. TypeOK'
  BY <1>1, <1>2 DEF TrapReturn, Goto, PCs, IInv, TypeOK, SchedTypeOK, schedVars, ring
<1>4. \A q \in Readers : waitState[q] = "WT_KBD" => rpos' = wpos'
  BY DEF TrapReturn, ring, IInv, NoSleepWithKeys
<1> QED BY <1>1, <1>2, <1>3, <1>4, MoveKeeps DEF PCs

LEMMA PreemptKeeps == ASSUME IInv, NEW p \in Readers, Preempt(p)
                      PROVE  IInv'
<1>1. current = p /\ pc[p] = "user" /\ p \in Procs /\ p # Idle /\ state[p] = "RUNNABLE"
      /\ waitq \ {p} = waitq /\ p \notin waitq
  BY Running DEF Preempt, PCs, At
<1>2. CASE exiting[p]
  <2>1. Goto(p, "exit") /\ UNCHANGED schedVars
    BY <1>2 DEF Preempt
  <2>2. TypeOK'
    BY <1>1, <2>1 DEF Preempt, Goto, PCs, IInv, TypeOK, SchedTypeOK, schedVars, ring
  <2>3. \A q \in Readers : waitState[q] = "WT_KBD" => rpos' = wpos'
    BY DEF Preempt, ring, IInv, NoSleepWithKeys
  <2>4. waitq' = waitq \ {p}
    BY <1>1 DEF Preempt
  <2> QED BY <1>1, <2>1, <2>2, <2>3, <2>4, MoveKeeps DEF PCs
<1>3. CASE ~exiting[p]
  BY <1>1, <1>3, SwitchKeeps DEF Preempt, PCs
<1> QED BY <1>2, <1>3

LEMMA ExitKeeps == ASSUME IInv, NEW p \in Readers, Exit(p)
                   PROVE  IInv'
<1>1. current = p /\ p \in Procs /\ p # Idle /\ state[p] = "RUNNABLE" /\ p \notin waitq
  BY Running DEF Exit, PCs, At
<1>2. SchedInv'
  BY <1>1 DEF Exit, IInv, SchedInv, SchedTypeOK, RunQueueExact, States
<1>3. TypeOK'
  BY <1>1, <1>2 DEF Exit, Goto, PCs, IInv, SchedInv, TypeOK, ring
<1>4. \A q \in Procs : PlaceOK(q)'
  BY <1>1 DEF Exit, Goto, IInv, TypeOK, SchedTypeOK, PlaceOK
<1>5. \A q \in Procs : SleepOK(q)'
  BY <1>1 DEF Exit, Goto, IInv, TypeOK, SchedTypeOK, SleepOK
<1>6. NoSleepWithKeys'
  BY DEF Exit, ring, IInv, NoSleepWithKeys
<1> QED BY <1>2, <1>3, <1>4, <1>5, <1>6 DEF IInv

LEMMA ExitScheduleKeeps == ASSUME IInv, NEW p \in Readers, ExitSchedule(p)
                           PROVE  IInv'
<1>1. current = p /\ pc[p] = "dead" /\ p \in Procs /\ p # Idle /\ p \notin waitq
  BY Running DEF ExitSchedule, PCs, At
<1>2. state[p] = "ZOMBIE"
  BY <1>1 DEF IInv, PlaceOK
<1> QED BY <1>1, <1>2, SwitchKeeps DEF ExitSchedule, PCs

LEMMA IdleLoopKeeps == IInv /\ IdleLoop => IInv'
<1> SUFFICES ASSUME IInv, IdleLoop PROVE IInv'
  OBVIOUS
<1>1. current = Idle /\ Idle \in Procs /\ pc[Idle] = "idle" /\ Idle \notin waitq
      /\ state[Idle] = "RUNNABLE"
  BY SchedAssumption DEF IdleLoop, At, IInv, SleepOK, SchedInv
<1> QED BY <1>1, SwitchKeeps DEF IdleLoop, PCs

-----------------------------------------------------------------------------
LEMMA NextKeeps == IInv /\ [Next]_vars => IInv'
<1> SUFFICES ASSUME IInv, [Next]_vars PROVE IInv'
  OBVIOUS
<1>1. CASE Key
  BY <1>1, KeyKeeps
<1>2. ASSUME NEW p \in Readers, NEW n \in 1 .. MaxRead, ReadCall(p, n)
      PROVE  IInv'
  BY <1>2, ReadCallKeeps
<1>3. ASSUME NEW p \in Readers, NEW q \in Readers, Kill(p, q)
      PROVE  IInv'
  BY <1>3, KillKeeps
<1>4. ASSUME NEW p \in Readers, Preempt(p)
      PROVE  IInv'
  BY <1>4, PreemptKeeps
<1>5. CASE KernelStep
  BY <1>5, ReadCharKeeps, ReadSleepKeeps, ReadScheduleKeeps, ReadWakeKeeps, ReadEndKeeps,
     TrapReturnKeeps, ExitKeeps, ExitScheduleKeeps, IdleLoopKeeps DEF KernelStep
<1>6. CASE UNCHANGED vars
  BY <1>6 DEF vars, ring, schedVars, IInv, TypeOK, SchedInv, SchedTypeOK, RunQueueExact,
     PlaceOK, SleepOK, NoSleepWithKeys
<1> QED BY <1>1, <1>2, <1>3, <1>4, <1>5, <1>6 DEF Next

(* The invariant holds throughout.                                         *)
THEOREM Invariance == Spec => []IInv
<1>1. Init => IInv
  BY InitIInv
<1>2. IInv /\ [Next]_vars => IInv'
  BY NextKeeps
<1> QED BY <1>1, <1>2, PTL DEF Spec

(* No reader ever sleeps while the ring holds a key.                       *)
THEOREM NoSleepCorrect == Spec => []NoSleepWithKeys
<1>1. IInv => NoSleepWithKeys
  BY DEF IInv
<1> QED BY <1>1, Invariance, PTL

-----------------------------------------------------------------------------
(* Places of the ring: the keys in it are at different places, and a full  *)
(* ring is written at the place of the oldest.                             *)
LEMMA ModRange ==
  ASSUME NEW K \in Nat \ {0}, NEW a \in Nat
  PROVE  a % K \in 0 .. K - 1
  OBVIOUS

LEMMA ModValue ==
  ASSUME NEW K \in Nat \ {0}, NEW a \in Nat
  PROVE  (a \div K) \in Int /\ a = K * (a \div K) + (a % K)
  OBVIOUS

LEMMA Times ==
  ASSUME NEW K \in Nat \ {0}, NEW q \in Int, NEW r \in Int, q > r
  PROVE  K * q >= K * r + K
<1>1. q - r - 1 \in Nat
  OBVIOUS
<1>2. K * (q - r - 1) >= 0
  BY <1>1
<1>3. K * (q - r - 1) = K * q - K * r - K
  OBVIOUS
<1> QED BY <1>2, <1>3

LEMMA PlacesDiffer ==
  ASSUME NEW K \in Nat \ {0}, NEW a \in Nat, NEW b \in Nat, a < b, b < a + K
  PROVE  a % K # b % K
<1> SUFFICES ASSUME a % K = b % K PROVE FALSE
  OBVIOUS
<1> DEFINE q == a \div K
           r == b \div K
           m == a % K
<1>1. q \in Int /\ r \in Int /\ m \in Int /\ a = K * q + m /\ b = K * r + m
  BY ModValue, ModRange
<1> HIDE DEF q, r, m
<1>2. CASE r > q
  BY <1>1, <1>2, Times
<1>3. CASE ~(r > q)
  <2>1. r = q \/ q > r
    BY <1>1, <1>3
  <2> QED BY <1>1, <2>1, Times
<1> QED BY <1>2, <1>3

LEMMA PlaceAgain ==
  ASSUME NEW K \in Nat \ {0}, NEW a \in Nat
  PROVE  (a + K) % K = a % K
<1> DEFINE b == a + K
           q == a \div K
           r == b \div K
           m == a % K
           n == b % K
<1>1. b \in Nat /\ b = a + K
  OBVIOUS
<1> HIDE DEF b
<1>2. q \in Int /\ m \in 0 .. K - 1 /\ a = K * q + m
  BY ModValue, ModRange
<1>3. r \in Int /\ n \in 0 .. K - 1 /\ b = K * r + n
  BY <1>1, ModValue, ModRange
<1> HIDE DEF q, r, m, n
<1>4. K * q + K = K * (q + 1)
  BY <1>2
<1>5. ~(r > q + 1)
  <2> SUFFICES ASSUME r > q + 1 PROVE FALSE
    OBVIOUS
  <2>1. K * r >= K * (q + 1) + K
    BY <1>2, <1>3, Times
  <2> QED BY <1>1, <1>2, <1>3, <1>4, <2>1
<1>6. ~(q + 1 > r)
  <2> SUFFICES ASSUME q + 1 > r PROVE FALSE
    OBVIOUS
  <2>1. K * (q + 1) >= K * r + K
    BY <1>2, <1>3, Times
  <2> QED BY <1>1, <1>2, <1>3, <1>4, <2>1
<1>7. r = q + 1
  BY <1>2, <1>3, <1>5, <1>6
<1>8. m = n
  BY <1>1, <1>2, <1>3, <1>4, <1>7
<1> QED BY <1>8 DEF m, n, b

(* The i-th key that went into the ring and was not overwritten there.     *)
KeyAt(i) == IF i <= rpos THEN taken[i] ELSE buffer[(i - 1) % BufSize]

KeysInv ==
  /\ Len(taken) = rpos
  /\ lost \subseteq 1 .. typed
  /\ \A i \in 1 .. wpos : KeyAt(i) \in (1 .. typed) \ lost
  /\ \A k \in (1 .. typed) \ lost : \E i \in 1 .. wpos : KeyAt(i) = k
  /\ \A i, j \in 1 .. wpos : KeyAt(i) = KeyAt(j) => i = j
  /\ lost = {} => wpos = typed /\ \A i \in 1 .. wpos : KeyAt(i) = i

RingInv == IInv /\ KeysInv

LEMMA KeysStay ==
  ASSUME RingInv, UNCHANGED <<wpos, typed, lost>>, Len(taken') = rpos',
         \A i \in 1 .. wpos : KeyAt(i)' = KeyAt(i)
  PROVE  KeysInv'
  BY DEF RingInv, KeysInv

(* A character that is taken is the one that was next.                     *)
LEMMA ReadCharOrder ==
  ASSUME RingInv, NEW p \in Readers, ReadChar(p)
  PROVE  KeysInv'
<1>1. rpos \in Nat /\ wpos \in Nat /\ taken \in Seq(0 .. MaxTyped) /\ Len(taken) = rpos
  BY StdinAssumption DEF RingInv, IInv, TypeOK, KeysInv
<1>2. rpos' = rpos + 1 /\ taken' = Append(taken, buffer[rpos % BufSize])
      /\ UNCHANGED <<wpos, buffer, typed, lost>>
  BY DEF ReadChar
<1>3. Len(taken') = rpos' /\ taken'[rpos + 1] = buffer[rpos % BufSize]
      /\ \A i \in 1 .. rpos : taken'[i] = taken[i]
  BY <1>1, <1>2
<1>4. ASSUME NEW i \in 1 .. wpos
      PROVE  KeyAt(i)' = KeyAt(i)
  <2>1. CASE i <= rpos
    BY <1>1, <1>2, <1>3, <2>1 DEF KeyAt
  <2>2. CASE i = rpos + 1
    <3>1. i - 1 = rpos
      BY <1>1, <2>2
    <3> QED BY <1>1, <1>2, <1>3, <2>2, <3>1 DEF KeyAt
  <2>3. CASE i > rpos + 1
    BY <1>1, <1>2, <2>3 DEF KeyAt
  <2> QED BY <1>1, <2>1, <2>2, <2>3
<1> QED BY <1>2, <1>3, <1>4, KeysStay

(* A key that is pressed goes behind the others, or, if the ring is full,  *)
(* takes the place of the oldest.                                          *)
LEMMA KeyOrder == RingInv /\ Key => KeysInv'
<1> SUFFICES ASSUME RingInv, Key PROVE KeysInv'
  OBVIOUS
<1>1. /\ rpos \in Nat /\ wpos \in Nat /\ typed \in Nat /\ BufSize \in Nat \ {0}
      /\ rpos <= wpos /\ wpos <= rpos + BufSize
      /\ buffer \in [0 .. BufSize - 1 -> 0 .. MaxTyped]
  BY StdinAssumption DEF RingInv, IInv, TypeOK
<1>2. PICK full \in BOOLEAN : full <=> wpos = rpos + BufSize
  OBVIOUS
<1>3. PICK n \in Nat : n = IF full THEN rpos + 1 ELSE wpos + 1
  BY <1>1
<1>4. PICK t \in Nat : t = typed + 1
  BY <1>1
<1>5. UNCHANGED <<rpos, taken>> /\ typed' = t /\ buffer' = [buffer EXCEPT ![wpos % BufSize] = t]
      /\ wpos' = (IF full THEN wpos ELSE wpos + 1)
      /\ lost' = (IF full THEN lost \cup {buffer[wpos % BufSize]} ELSE lost)
  BY <1>1, <1>2, <1>4 DEF Key, Put
<1>6. \A x \in 0 .. BufSize - 1 : buffer'[x] = IF x = wpos % BufSize THEN t ELSE buffer[x]
  BY <1>1, <1>5
<1>7. wpos % BufSize \in 0 .. BufSize - 1 /\ (full => wpos % BufSize = rpos % BufSize)
  BY <1>1, <1>2, ModRange, PlaceAgain
<1>8. KeyAt(n)' = t /\ n \in 1 .. wpos'
  <2>1. n > rpos /\ n - 1 = (IF full THEN rpos ELSE wpos) /\ n \in 1 .. wpos'
    BY <1>1, <1>2, <1>3, <1>5
  <2>2. (n - 1) % BufSize = wpos % BufSize
    BY <1>7, <2>1
  <2>3. KeyAt(n)' = buffer'[(n - 1) % BufSize]
    BY <1>1, <1>5, <2>1 DEF KeyAt
  <2> QED BY <1>6, <1>7, <2>1, <2>2, <2>3
<1>9. ASSUME NEW i \in 1 .. wpos', i # n
      PROVE  i \in 1 .. wpos /\ KeyAt(i)' = KeyAt(i)
  <2>1. i \in 1 .. wpos
    BY <1>1, <1>3, <1>5, <1>9
  <2>2. CASE i <= rpos
    BY <1>5, <2>1, <2>2 DEF KeyAt
  <2>3. CASE i > rpos
    <3>1. i - 1 \in Nat /\ i - 1 < wpos
      BY <1>1, <2>1
    <3>2. (i - 1) % BufSize \in 0 .. BufSize - 1 /\ (i - 1) % BufSize # wpos % BufSize
      <4>1. (i - 1) % BufSize \in 0 .. BufSize - 1
        BY <1>1, <3>1, ModRange
      <4>2. CASE full
        <5>1. rpos < i - 1 /\ i - 1 < rpos + BufSize
          BY <1>1, <1>2, <1>3, <1>9, <2>1, <2>3, <4>2
        <5>2. (i - 1) % BufSize # rpos % BufSize
          BY <1>1, <3>1, <5>1, PlacesDiffer
        <5> QED BY <1>7, <4>1, <4>2, <5>2
      <4>3. CASE ~full
        <5>1. wpos < (i - 1) + BufSize
          BY <1>1, <1>2, <2>1, <2>3, <4>3
        <5> QED BY <1>1, <3>1, <4>1, <5>1, PlacesDiffer
      <4> QED BY <4>2, <4>3
    <3>3. KeyAt(i)' = buffer'[(i - 1) % BufSize] /\ KeyAt(i) = buffer[(i - 1) % BufSize]
      BY <1>1, <1>5, <2>1, <2>3 DEF KeyAt
    <3> QED BY <1>6, <2>1, <3>2, <3>3
  <2> QED BY <1>1, <2>1, <2>2, <2>3
<1>10. full => n \in 1 .. wpos /\ buffer[wpos % BufSize] = KeyAt(n)
  <2> SUFFICES ASSUME full PROVE n \in 1 .. wpos /\ buffer[wpos % BufSize] = KeyAt(n)
    OBVIOUS
  <2>1. n = rpos + 1 /\ n - 1 = rpos /\ n > rpos /\ n \in 1 .. wpos
    BY <1>1, <1>2, <1>3
  <2> QED BY <1>1, <1>7, <2>1 DEF KeyAt
<1>11. ~full => lost' = lost /\ wpos' = wpos + 1 /\ n = wpos + 1
  BY <1>3, <1>5
<1>12. full => lost' = lost \cup {KeyAt(n)} /\ wpos' = wpos
  BY <1>5, <1>10
<1>13. /\ Len(taken) = rpos /\ lost \subseteq 1 .. typed
       /\ \A i \in 1 .. wpos : KeyAt(i) \in (1 .. typed) \ lost
       /\ \A k \in (1 .. typed) \ lost : \E i \in 1 .. wpos : KeyAt(i) = k
       /\ \A i, j \in 1 .. wpos : KeyAt(i) = KeyAt(j) => i = j
       /\ lost = {} => wpos = typed /\ \A i \in 1 .. wpos : KeyAt(i) = i
  BY DEF RingInv, KeysInv
<1>14. lost' \subseteq 1 .. t /\ t \notin lost'
  <2>1. lost' \subseteq 1 .. typed
    <3>1. CASE full
      <4>1. lost' = lost \cup {KeyAt(n)} /\ KeyAt(n) \in (1 .. typed) \ lost
        BY <1>10, <1>12, <1>13, <3>1
      <4> QED BY <1>13, <4>1
    <3>2. CASE ~full
      BY <1>11, <1>13, <3>2
    <3> QED BY <3>1, <3>2
  <2> QED BY <1>1, <1>4, <2>1
<1>15. ASSUME NEW i \in 1 .. wpos' PROVE KeyAt(i)' \in (1 .. t) \ lost'
  <2>1. CASE i = n
    BY <1>1, <1>4, <1>8, <1>14, <2>1
  <2>2. CASE i # n
    <3>1. i \in 1 .. wpos /\ KeyAt(i)' = KeyAt(i) /\ KeyAt(i) \in (1 .. typed) \ lost
      BY <1>9, <1>13, <2>2
    <3>2. full => KeyAt(i) # KeyAt(n)
      BY <1>10, <1>13, <2>2, <3>1
    <3> QED BY <1>1, <1>4, <1>11, <1>12, <3>1, <3>2
  <2> QED BY <2>1, <2>2
<1>16. ASSUME NEW k \in (1 .. t) \ lost' PROVE \E i \in 1 .. wpos' : KeyAt(i)' = k
  <2>1. CASE k = t
    BY <1>8, <2>1
  <2>2. CASE k # t
    <3>1. k \in (1 .. typed) \ lost
      BY <1>1, <1>4, <1>11, <1>12, <2>2
    <3>2. PICK i \in 1 .. wpos : KeyAt(i) = k
      BY <1>13, <3>1
    <3>3. i \in 1 .. wpos' /\ i # n
      BY <1>1, <1>11, <1>12, <3>2
    <3> QED BY <1>9, <3>2, <3>3
  <2> QED BY <2>1, <2>2
<1>17. ASSUME NEW i \in 1 .. wpos', NEW j \in 1 .. wpos', KeyAt(i)' = KeyAt(j)'
       PROVE  i = j
  <2>1. \A x \in 1 .. wpos' : x # n => KeyAt(x)' = KeyAt(x) /\ KeyAt(x) # t /\ x \in 1 .. wpos
    BY <1>1, <1>4, <1>9, <1>13
  <2> QED BY <1>8, <1>13, <1>17, <2>1
<1>18. lost' = {} => wpos' = t /\ \A i \in 1 .. wpos' : KeyAt(i)' = i
  <2> SUFFICES ASSUME lost' = {} PROVE wpos' = t /\ \A i \in 1 .. wpos' : KeyAt(i)' = i
    OBVIOUS
  <2>1. ~full /\ lost = {} /\ wpos = typed /\ n = t /\ wpos' = t
    BY <1>4, <1>11, <1>12, <1>13
  <2> QED BY <1>8, <1>9, <1>13, <2>1
<1> QED BY <1>5, <1>13, <1>14, <1>15, <1>16, <1>17, <1>18 DEF KeysInv

LEMMA RingInit == Init => RingInv
<1> SUFFICES ASSUME Init PROVE RingInv
  OBVIOUS
<1>1. IInv
  BY InitIInv
<1>2. rpos = 0 /\ wpos = 0 /\ typed = 0 /\ lost = {} /\ taken = <<>>
  BY DEF Init
<1>3. (1 .. typed) \ lost = {} /\ 1 .. wpos = {} /\ Len(taken) = rpos
  BY <1>2
<1> QED BY <1>1, <1>2, <1>3 DEF RingInv, KeysInv

LEMMA RingNext == RingInv /\ [Next]_vars => RingInv'
<1> SUFFICES ASSUME RingInv, [Next]_vars PROVE RingInv'
  OBVIOUS
<1>1. IInv'
  BY NextKeeps DEF RingInv
<1>2. CASE Key
  BY <1>1, <1>2, KeyOrder DEF RingInv
<1>3. ASSUME NEW p \in Readers, ReadChar(p)
      PROVE  RingInv'
  BY <1>1, <1>3, ReadCharOrder DEF RingInv
<1>4. CASE UNCHANGED ring
  BY <1>1, <1>4 DEF RingInv, KeysInv, KeyAt, ring
<1>5. Key \/ (\E p \in Readers : ReadChar(p)) \/ UNCHANGED ring
  BY DEF Next, KernelStep, ReadCall, Kill, Preempt, ReadSleep, ReadSchedule, ReadWake, ReadEnd,
         TrapReturn, Exit, ExitSchedule, IdleLoop, vars
<1> QED BY <1>2, <1>3, <1>4, <1>5

(* What was delivered and what is in the ring, in one row.                 *)
LEMMA RowOfKeys ==
  ASSUME RingInv
  PROVE  taken \o InRing = [i \in 1 .. wpos |-> KeyAt(i)]
<1>1. /\ rpos \in Nat /\ wpos \in Nat /\ rpos <= wpos /\ BufSize \in Nat \ {0}
      /\ buffer \in [0 .. BufSize - 1 -> 0 .. MaxTyped]
      /\ taken \in Seq(0 .. MaxTyped) /\ Len(taken) = rpos
  BY StdinAssumption DEF RingInv, IInv, TypeOK, KeysInv
<1>2. \A i \in 1 .. wpos - rpos : (rpos + i - 1) % BufSize \in 0 .. BufSize - 1
  <2> TAKE i \in 1 .. wpos - rpos
  <2>1. rpos + i - 1 \in Nat
    BY <1>1
  <2> QED BY <1>1, <2>1, ModRange
<1>3. InRing \in [1 .. wpos - rpos -> 0 .. MaxTyped] /\ wpos - rpos \in Nat
  BY <1>1, <1>2 DEF InRing
<1>4. InRing \in Seq(0 .. MaxTyped) /\ Len(InRing) = wpos - rpos
  <2> DEFINE n == wpos - rpos
  <2>1. InRing \in [1 .. n -> 0 .. MaxTyped] /\ n \in Nat
    BY <1>3
  <2> HIDE DEF n
  <2>2. InRing \in UNION {[1 .. m -> 0 .. MaxTyped] : m \in Nat}
    BY <2>1
  <2>3. InRing \in Seq(0 .. MaxTyped)
    BY <2>2, SeqDef
  <2>4. Len(InRing) = n
    BY <2>1, <2>3, LenProperties
  <2> QED BY <2>3, <2>4 DEF n
<1>5. /\ taken \o InRing \in Seq(0 .. MaxTyped) /\ Len(taken \o InRing) = wpos
      /\ \A i \in 1 .. wpos : (taken \o InRing)[i] = IF i <= rpos THEN taken[i] ELSE InRing[i - rpos]
  BY <1>1, <1>4
<1>6. ASSUME NEW i \in 1 .. wpos PROVE (taken \o InRing)[i] = KeyAt(i)
  <2>1. CASE i <= rpos
    BY <1>5, <2>1 DEF KeyAt
  <2>2. CASE ~(i <= rpos)
    <3>1. i - rpos \in 1 .. wpos - rpos /\ rpos + (i - rpos) - 1 = i - 1
      BY <1>1, <2>2
    <3>2. InRing[i - rpos] = buffer[(i - 1) % BufSize]
      BY <3>1 DEF InRing
    <3> QED BY <1>5, <2>2, <3>2 DEF KeyAt
  <2> QED BY <2>1, <2>2
<1>7. taken \o InRing = [i \in 1 .. wpos |-> (taken \o InRing)[i]]
  <2> DEFINE row == taken \o InRing
  <2>1. row \in [1 .. wpos -> 0 .. MaxTyped]
    BY <1>5, LenProperties
  <2> HIDE DEF row
  <2>2. row = [i \in 1 .. wpos |-> row[i]]
    BY <2>1
  <2> QED BY <2>2 DEF row
<1> QED BY <1>6, <1>7

(* Every key is delivered once, or is in the ring, or was overwritten when *)
(* the ring was full; and while none was, the order is that of typing.     *)
THEOREM KeysCorrect == Spec => []KeysOnce
<1>1. RingInv => KeysOnce
  <2> SUFFICES ASSUME RingInv PROVE KeysOnce
    OBVIOUS
  <2> DEFINE row == taken \o InRing
  <2>1. row = [i \in 1 .. wpos |-> KeyAt(i)]
    BY RowOfKeys
  <2> HIDE DEF row
  <2>2. DOMAIN row = 1 .. wpos /\ \A i \in 1 .. wpos : row[i] = KeyAt(i)
    BY <2>1
  <2>3. IsInjective(row)
    BY <2>2 DEF IsInjective, RingInv, KeysInv
  <2>4. ToSet(row) = (1 .. typed) \ lost
    BY <2>2 DEF ToSet, RingInv, KeysInv
  <2>5. lost = {} => row = [i \in 1 .. typed |-> i]
    <3> SUFFICES ASSUME lost = {} PROVE row = [i \in 1 .. typed |-> i]
      OBVIOUS
    <3>1. wpos = typed /\ \A i \in 1 .. wpos : KeyAt(i) = i
      BY DEF RingInv, KeysInv
    <3> QED BY <2>1, <3>1
  <2> QED BY <2>3, <2>4, <2>5 DEF KeysOnce, row
<1> QED BY <1>1, RingInit, RingNext, PTL DEF Spec
=============================================================================
