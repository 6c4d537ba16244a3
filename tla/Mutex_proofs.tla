---------------------------- MODULE Mutex_proofs ----------------------------
(***************************************************************************)
(* Theorems about Mutex, for any number of tasks, priorities and mutexes.  *)
(*                                                                         *)
(* That a borrowed priority is paid back needs to know, besides TypeOK,    *)
(* that nobody is on a list twice (Queued), for then taking off an item    *)
(* takes off the task, and which mutexes a task asks for (Using).          *)
(*                                                                         *)
(* HolderInherits does not hold of every program: a task that waits for a  *)
(* mutex while it holds another one may lose a borrowed priority, and the  *)
(* list it waits in is not sorted anew (MCMutexNested). It holds where     *)
(* each task shares at most one of its mutexes with others (OneShared).    *)
(* For that the invariant orders the lists by priority (InOrder), also     *)
(* while the mutex is free and a woken task has yet to take it. The task   *)
(* that takes it is the highest, or one that runs on after it has paid a   *)
(* priority back, and then it knows what it has given (RunsAbove).         *)
(***************************************************************************)
EXTENDS Mutex, FiniteSetTheorems, WellFoundedInduction, TLAPS

(* The order of those that wait *)
Injective(s) == \A i, j \in DOMAIN s : s[i] = s[j] => i = j
Before(s, a, b) == \E i, j \in DOMAIN s : i < j /\ s[i] = a /\ s[j] = b

(* No task is twice on a list. *)
Queued == \A m \in Mutexes : Injective(waiters[m])

(* A priority that was borrowed is owed for a mutex. *)
Owing == \A t \in Tasks : prio[t] >= Base[t] /\ (held[t] = 0 => prio[t] = Base[t])

Calling == {"try", "block", "blocked", "expired", "disinherit"}

(* A task asks for mutexes it uses, and holds no others. *)
Using ==
    /\ \A t \in Tasks : pc[t] \in Calling => want[t] \in Uses[t]
    /\ \A m \in Mutexes : holder[m] # NoTask => m \in Uses[holder[m]]

MutexInv == TypeOK /\ Queued /\ Owing /\ Using

-----------------------------------------------------------------------------
(* No task takes two mutexes that others take too. Then no task holds a    *)
(* mutex that others want while it waits for another one.                  *)
OneShared ==
    \A t \in Tasks : \A m, n \in Uses[t] :
        m # n => \A u, v \in Tasks \ {t} : m \notin Uses[u] \/ n \notin Uses[v]

(* Those that wait are in the order of their priorities, but for the       *)
(* holder, if it waits for what it holds,                                  *)
Ordered(m) ==
    \A a, b \in Tasks \ {holder[m]} : Before(waiters[m], a, b) => prio[a] >= prio[b]

(* and the holder, or if there is none one that is about to take it, is    *)
(* not below them.                                                         *)
Above(m) ==
    \A b \in ToSet(waiters[m]) :
        \E a \in Tasks :
            /\ a = holder[m] \/ (holder[m] = NoTask /\ want[a] = m /\ pc[a] = "try")
            /\ prio[a] >= prio[b]

InOrder == \A m \in Mutexes : Ordered(m) /\ Above(m)

(* A task that runs on below ready ones is not below those that wait for a *)
(* mutex it might take.                                                    *)
RunsAbove ==
    \A m \in Mutexes : \A t \in Tasks :
        t = runs /\ m \in Uses[t] /\ holder[m] = NoTask
          => \A b \in ToSet(waiters[m]) : prio[b] <= prio[t]

-----------------------------------------------------------------------------

(* Where a new item goes: behind all that are not below it and before one  *)
(* that is, if there is one.                                               *)
LEMMA PlaceInList ==
    ASSUME NEW s \in Seq(Tasks), NEW t \in Tasks, NEW p \in [Tasks -> Nat]
    PROVE  LET k == PlaceIn(s, t, p) IN
           /\ k \in 1 .. Len(s) + 1
           /\ \A j \in 1 .. k - 1 : p[s[j]] >= p[t]
           /\ k <= Len(s) => p[s[k]] < p[t]
<1> DEFINE Below == {i \in DOMAIN s : p[s[i]] < p[t]}
           Fits(k) == /\ \A j \in 1 .. k - 1 : p[s[j]] >= p[t]
                      /\ k <= Len(s) => p[s[k]] < p[t]
<1>1. \E k \in 1 .. Len(s) + 1 : Fits(k)
  <2>1. CASE Below = {}
    <3>1. Fits(Len(s) + 1)
      BY <2>1
    <3>2. QED
      BY <3>1
  <2>2. CASE Below # {}
    <3>1. PICK k \in Below : \A j \in Below : ~(j < k)
      <4>1. IsWellFoundedOn(OpToRel(<, Nat), Nat)
        BY NatLessThanWellFounded
      <4>2. Below \subseteq Nat
        OBVIOUS
      <4>3. \E k \in Below : \A j \in Below : <<j, k>> \notin OpToRel(<, Nat)
        BY <2>2, <4>1, <4>2, WFMin
      <4>4. QED
        BY <4>2, <4>3 DEF OpToRel
    <3>2. Fits(k)
      BY <3>1
    <3>3. QED
      BY <3>1, <3>2
  <2>3. QED
    BY <2>1, <2>2
<1>2. QED
  BY <1>1 DEF PlaceIn

(* Two lists end to end *)
LEMMA EndToEnd ==
    ASSUME NEW x \in Seq(Tasks), NEW y \in Seq(Tasks)
    PROVE  /\ x \o y \in Seq(Tasks) /\ Len(x \o y) = Len(x) + Len(y)
           /\ \A i \in 1 .. Len(x) : (x \o y)[i] = x[i]
           /\ \A i \in 1 .. Len(y) : (x \o y)[Len(x) + i] = y[i]
OBVIOUS

(* The order after an item has been inserted *)
LEMMA InsertOne ==
    ASSUME NEW s \in Seq(Tasks), NEW t \in Tasks \ ToSet(s), Injective(s),
           NEW p \in [Tasks -> Nat]
    PROVE  LET r == Insert(s, t, p) IN
           /\ r \in Seq(Tasks) /\ Injective(r) /\ ToSet(r) = ToSet(s) \cup {t}
           /\ \A a, b \in Tasks : Before(r, a, b) =>
                \/ Before(s, a, b)
                \/ b = t /\ p[a] >= p[t]
                \/ a = t /\ \E x \in Tasks : p[x] < p[t] /\ (b = x \/ Before(s, x, b))
<1> DEFINE k == PlaceIn(s, t, p)
           r == Insert(s, t, p)
<1>1. /\ k \in 1 .. Len(s) + 1
      /\ \A j \in 1 .. k - 1 : p[s[j]] >= p[t]
      /\ k <= Len(s) => p[s[k]] < p[t]
  BY PlaceInList
<1>2. r = SubSeq(s, 1, k - 1) \o <<t>> \o SubSeq(s, k, Len(s))
  BY DEF Insert, InsertAt
<1> HIDE DEF k, r
<1>3. /\ r \in Seq(Tasks) /\ Len(r) = Len(s) + 1
      /\ \A i \in 1 .. k - 1 : r[i] = s[i]
      /\ r[k] = t
      /\ \A i \in k + 1 .. Len(s) + 1 : r[i] = s[i - 1]
  <2> DEFINE x == SubSeq(s, 1, k - 1)
             y == SubSeq(s, k, Len(s))
  <2>1. x \in Seq(Tasks) /\ Len(x) = k - 1 /\ \A i \in 1 .. k - 1 : x[i] = s[i]
    BY <1>1
  <2>2. /\ y \in Seq(Tasks) /\ Len(y) = Len(s) + 1 - k
        /\ \A i \in 1 .. Len(s) + 1 - k : y[i] = s[i + k - 1]
    BY <1>1
  <2>3. r = x \o <<t>> \o y
    BY <1>2
  <2> HIDE DEF x, y
  <2>4. /\ r \in Seq(Tasks) /\ Len(r) = Len(s) + 1
        /\ \A i \in 1 .. k - 1 : r[i] = x[i]
        /\ r[k] = t
        /\ \A i \in k + 1 .. Len(s) + 1 : r[i] = y[i - k]
    <3> DEFINE z == x \o <<t>>
    <3>1. z \in Seq(Tasks) /\ Len(z) = k /\ z[k] = t /\ \A i \in 1 .. k - 1 : z[i] = x[i]
      BY <1>1, <2>1
    <3>2. r = z \o y
      BY <2>3
    <3> HIDE DEF z
    <3>3. /\ r \in Seq(Tasks) /\ Len(r) = k + (Len(s) + 1 - k)
          /\ \A i \in 1 .. k : r[i] = z[i]
          /\ \A i \in 1 .. Len(s) + 1 - k : r[k + i] = y[i]
      <4>1. /\ r \in Seq(Tasks) /\ Len(r) = Len(z) + Len(y)
            /\ \A i \in 1 .. Len(z) : r[i] = z[i]
            /\ \A i \in 1 .. Len(y) : r[Len(z) + i] = y[i]
        BY <2>2, <3>1, <3>2, EndToEnd, Zenon
      <4>2. QED
        BY <2>2, <3>1, <4>1
    <3>4. k + (Len(s) + 1 - k) = Len(s) + 1 /\ \A i \in 1 .. k - 1 : i \in 1 .. k
      BY <1>1
    <3>5. ASSUME NEW i \in k + 1 .. Len(s) + 1 PROVE r[i] = y[i - k]
      <4>1. i - k \in 1 .. Len(s) + 1 - k /\ k + (i - k) = i
        BY <1>1
      <4>2. QED
        BY <3>3, <4>1
    <3>6. k \in 1 .. k
      BY <1>1
    <3>7. QED
      BY <3>1, <3>3, <3>4, <3>5, <3>6
  <2>5. ASSUME NEW i \in k + 1 .. Len(s) + 1 PROVE r[i] = s[i - 1]
    <3>1. i - k \in 1 .. Len(s) + 1 - k /\ (i - k) + k - 1 = i - 1
      BY <1>1
    <3>2. QED
      BY <2>2, <2>4, <3>1
  <2>6. QED
    BY <2>1, <2>4, <2>5
<1>4. DOMAIN s = 1 .. Len(s) /\ DOMAIN r = 1 .. Len(s) + 1 /\ Len(s) \in Nat
  BY <1>3
<1>5. \A i \in DOMAIN s : s[i] \in Tasks /\ s[i] # t
  BY DEF ToSet
<1>6. ASSUME NEW x \in DOMAIN r, x # k
       PROVE  LET q == IF x < k THEN x ELSE x - 1 IN q \in DOMAIN s /\ r[x] = s[q]
  <2>1. CASE x < k
    BY <1>1, <1>3, <1>4, <2>1
  <2>2. CASE ~(x < k)
    <3>1. x \in k + 1 .. Len(s) + 1 /\ x - 1 \in 1 .. Len(s)
      BY <1>1, <1>4, <1>6, <2>2
    <3>2. QED
      BY <1>3, <1>4, <2>2, <3>1
  <2>3. QED
    BY <2>1, <2>2
<1>7. Injective(r)
  <2> SUFFICES ASSUME NEW i \in DOMAIN r, NEW j \in DOMAIN r, r[i] = r[j] PROVE i = j
    BY DEF Injective
  <2> DEFINE q(x) == IF x < k THEN x ELSE x - 1
  <2>1. \A x \in DOMAIN r : x # k => q(x) \in DOMAIN s /\ r[x] = s[q(x)]
    BY <1>6
  <2>2. i # k /\ j # k => q(i) = q(j)
    BY <2>1 DEF Injective
  <2>3. i = k <=> j = k
    BY SMTT(30), <1>3, <1>5, <2>1
  <2>4. QED
    BY <1>1, <1>4, <2>2, <2>3
<1>8. ToSet(r) = ToSet(s) \cup {t}
  <2>1. \A i \in DOMAIN r : r[i] \in ToSet(s) \cup {t}
    <3> SUFFICES ASSUME NEW i \in DOMAIN r, i # k PROVE r[i] \in ToSet(s)
      BY <1>3
    <3>1. i < k => i \in DOMAIN s /\ r[i] = s[i]
      BY <1>1, <1>3, <1>4
    <3>2. ~(i < k) => i - 1 \in DOMAIN s /\ r[i] = s[i - 1]
      BY SMTT(30), <1>1, <1>3, <1>4
    <3>3. QED
      BY <3>1, <3>2 DEF ToSet
  <2>2. \A i \in DOMAIN s : s[i] \in ToSet(r)
    <3> SUFFICES ASSUME NEW i \in DOMAIN s PROVE s[i] \in ToSet(r)
      OBVIOUS
    <3>1. i < k => i \in DOMAIN r /\ r[i] = s[i]
      BY <1>1, <1>3, <1>4
    <3>2. ~(i < k) => i + 1 \in DOMAIN r /\ r[i + 1] = s[i]
      BY SMTT(30), <1>1, <1>3, <1>4
    <3>3. QED
      BY <3>1, <3>2 DEF ToSet
  <2>3. t \in ToSet(r)
    BY <1>1, <1>3, <1>4 DEF ToSet
  <2>4. QED
    BY <2>1, <2>2, <2>3 DEF ToSet
<1>9. ASSUME NEW a \in Tasks, NEW b \in Tasks, Before(r, a, b)
      PROVE  \/ Before(s, a, b)
             \/ b = t /\ p[a] >= p[t]
             \/ a = t /\ \E x \in Tasks : p[x] < p[t] /\ (b = x \/ Before(s, x, b))
  <2>1. PICK i \in DOMAIN r, j \in DOMAIN r : i < j /\ r[i] = a /\ r[j] = b
    BY <1>9 DEF Before
  <2>2. CASE j = k
    <3>1. i \in 1 .. k - 1 /\ b = t
      BY <1>1, <1>3, <1>4, <2>1, <2>2
    <3>2. a = s[i] /\ p[s[i]] >= p[t]
      BY <1>1, <1>3, <2>1, <3>1
    <3>3. QED
      BY <3>1, <3>2
  <2>3. CASE i = k
    <3>1. j - 1 \in DOMAIN s /\ s[j - 1] = b /\ k \in DOMAIN s /\ j - 1 >= k
      <4>1. j \in k + 1 .. Len(s) + 1 /\ j - 1 \in k .. Len(s)
        BY <1>1, <1>4, <2>1, <2>3
      <4>2. b = s[j - 1]
        BY <1>3, <2>1, <4>1
      <4>3. QED
        BY <1>1, <1>4, <4>1, <4>2
    <3>2. p[s[k]] < p[t] /\ s[k] \in Tasks
      BY <1>1, <1>4, <1>5, <3>1
    <3>3. b = s[k] \/ Before(s, s[k], b)
      BY <1>4, <3>1 DEF Before
    <3>4. a = t
      BY <1>3, <2>1, <2>3
    <3>5. QED
      BY <3>2, <3>3, <3>4
  <2>4. CASE i # k /\ j # k
    <3> DEFINE q(x) == IF x < k THEN x ELSE x - 1
    <3>1. \A x \in DOMAIN r : x # k => q(x) \in DOMAIN s /\ r[x] = s[q(x)]
      BY <1>6
    <3>2. q(i) < q(j)
      BY <1>1, <1>4, <2>1, <2>4
    <3>3. QED
      BY <2>1, <2>4, <3>1, <3>2 DEF Before
  <2>5. QED
    BY <2>2, <2>3, <2>4
<1>10. QED
  BY <1>3, <1>7, <1>8, <1>9 DEF r

(* and after one has been taken off *)
LEMMA UnlinkOne ==
    ASSUME NEW s \in Seq(Tasks), NEW t \in Tasks, Injective(s)
    PROVE  LET r == Unlink(s, t) IN
           /\ r \in Seq(Tasks) /\ Injective(r) /\ ToSet(r) = ToSet(s) \ {t}
           /\ \A a, b \in Tasks : Before(r, a, b) => Before(s, a, b)
<1> DEFINE r == Unlink(s, t)
<1>1. CASE ~\E i \in DOMAIN s : s[i] = t
  BY <1>1 DEF Unlink, ToSet
<1>2. CASE \E i \in DOMAIN s : s[i] = t
  <2> DEFINE k == CHOOSE i \in DOMAIN s : s[i] = t
             q(x) == IF x < k THEN x ELSE x + 1
  <2>1. k \in DOMAIN s /\ s[k] = t
    BY <1>2
  <2>2. r = SubSeq(s, 1, k - 1) \o SubSeq(s, k + 1, Len(s))
    BY <1>2 DEF Unlink, RemoveAt
  <2> HIDE DEF k, r
  <2>3. /\ r \in Seq(Tasks) /\ Len(r) = Len(s) - 1
        /\ \A i \in 1 .. k - 1 : r[i] = s[i]
        /\ \A i \in k .. Len(s) - 1 : r[i] = s[i + 1]
    <3> DEFINE x == SubSeq(s, 1, k - 1)
               y == SubSeq(s, k + 1, Len(s))
    <3>1. x \in Seq(Tasks) /\ Len(x) = k - 1 /\ \A i \in 1 .. k - 1 : x[i] = s[i]
      BY <2>1
    <3>2. /\ y \in Seq(Tasks) /\ Len(y) = Len(s) - k
          /\ \A i \in 1 .. Len(s) - k : y[i] = s[i + k]
      BY <2>1
    <3>3. r = x \o y
      BY <2>2
    <3> HIDE DEF x, y
    <3>4. /\ r \in Seq(Tasks) /\ Len(r) = Len(s) - 1
          /\ \A i \in 1 .. k - 1 : r[i] = x[i]
          /\ \A i \in k .. Len(s) - 1 : r[i] = y[i - k + 1]
      <4>1. /\ r \in Seq(Tasks) /\ Len(r) = (k - 1) + (Len(s) - k)
            /\ \A i \in 1 .. k - 1 : r[i] = x[i]
            /\ \A i \in 1 .. Len(s) - k : r[(k - 1) + i] = y[i]
        <5>1. /\ r \in Seq(Tasks) /\ Len(r) = Len(x) + Len(y)
              /\ \A i \in 1 .. Len(x) : r[i] = x[i]
              /\ \A i \in 1 .. Len(y) : r[Len(x) + i] = y[i]
          BY <3>1, <3>2, <3>3, EndToEnd, Zenon
        <5>2. QED
          BY <3>1, <3>2, <5>1
      <4>2. (k - 1) + (Len(s) - k) = Len(s) - 1
        BY <2>1
      <4>3. ASSUME NEW i \in k .. Len(s) - 1 PROVE r[i] = y[i - k + 1]
        <5>1. i - k + 1 \in 1 .. Len(s) - k /\ (k - 1) + (i - k + 1) = i
          BY <2>1
        <5>2. QED
          BY <4>1, <5>1
      <4>4. QED
        BY <4>1, <4>2, <4>3
    <3>5. ASSUME NEW i \in k .. Len(s) - 1 PROVE r[i] = s[i + 1]
      <4>1. i - k + 1 \in 1 .. Len(s) - k /\ (i - k + 1) + k = i + 1
        BY <2>1
      <4>2. QED
        BY <3>2, <3>4, <4>1
    <3>6. QED
      BY <3>1, <3>4, <3>5
  <2>4. DOMAIN s = 1 .. Len(s) /\ DOMAIN r = 1 .. Len(s) - 1 /\ Len(s) \in Nat
    BY <2>3
  <2>5. \A x \in DOMAIN r : q(x) \in DOMAIN s /\ q(x) # k /\ r[x] = s[q(x)]
    BY <2>1, <2>3, <2>4
  <2>6. \A x, y \in DOMAIN r : (q(x) = q(y) => x = y) /\ (x < y => q(x) < q(y))
    BY <2>1, <2>4
  <2>7. \A i \in DOMAIN s : i # k => \E x \in DOMAIN r : q(x) = i
    <3> SUFFICES ASSUME NEW i \in DOMAIN s, i # k PROVE \E x \in DOMAIN r : q(x) = i
      OBVIOUS
    <3>1. i < k => i \in DOMAIN r /\ q(i) = i
      BY <2>1, <2>4
    <3>2. ~(i < k) => i - 1 \in DOMAIN r /\ q(i - 1) = i
      BY <2>1, <2>4
    <3>3. QED
      BY <3>1, <3>2
  <2> HIDE DEF q
  <2>8. Injective(r)
    BY <2>5, <2>6 DEF Injective
  <2>9. ToSet(r) = ToSet(s) \ {t}
    <3>1. \A x \in DOMAIN r : r[x] \in ToSet(s) /\ r[x] # t
      BY <2>1, <2>5 DEF ToSet, Injective
    <3>2. \A i \in DOMAIN s : s[i] # t => s[i] \in ToSet(r)
      BY <2>1, <2>5, <2>7 DEF ToSet
    <3>3. QED
      BY <3>1, <3>2 DEF ToSet
  <2>10. \A a, b \in Tasks : Before(r, a, b) => Before(s, a, b)
    BY <2>5, <2>6 DEF Before
  <2>11. QED
    BY <2>3, <2>8, <2>9, <2>10 DEF r
<1>3. QED
  BY <1>1, <1>2

(* The head comes before the others.                                       *)
LEMMA HeadFirst ==
    ASSUME NEW s \in Seq(Tasks), s # <<>>, Injective(s)
    PROVE  /\ Head(s) \in Tasks /\ Head(s) \in ToSet(s)
           /\ Tail(s) \in Seq(Tasks) /\ Injective(Tail(s)) /\ ToSet(Tail(s)) = ToSet(s) \ {Head(s)}
           /\ \A b \in ToSet(s) \ {Head(s)} : Before(s, Head(s), b)
           /\ \A a, b \in Tasks : Before(Tail(s), a, b) => Before(s, a, b)
<1>1. /\ Len(s) \in Nat \ {0} /\ DOMAIN s = 1 .. Len(s) /\ Head(s) = s[1] /\ s[1] \in Tasks
      /\ Tail(s) \in Seq(Tasks) /\ Len(Tail(s)) = Len(s) - 1 /\ DOMAIN Tail(s) = 1 .. Len(s) - 1
      /\ \A i \in 1 .. Len(s) - 1 : Tail(s)[i] = s[i + 1]
  OBVIOUS
<1> DEFINE r == Tail(s)
<1>2. \A x \in DOMAIN r : x + 1 \in DOMAIN s /\ x + 1 # 1 /\ r[x] = s[x + 1]
  BY <1>1
<1>3. \A i \in DOMAIN s : i # 1 => i - 1 \in DOMAIN r /\ s[i] = r[i - 1] /\ 1 < i
  BY <1>1
<1>4. Head(s) \in ToSet(s)
  BY <1>1 DEF ToSet
<1>5. Injective(r)
  BY <1>1, <1>2 DEF Injective
<1>6. ToSet(r) = ToSet(s) \ {Head(s)}
  <2>1. \A x \in DOMAIN r : r[x] \in ToSet(s) /\ r[x] # s[1]
    BY <1>1, <1>2 DEF ToSet, Injective
  <2>2. \A i \in DOMAIN s : s[i] # s[1] => s[i] \in ToSet(r)
    BY <1>1, <1>3 DEF ToSet
  <2>3. QED
    BY <1>1, <2>1, <2>2 DEF ToSet
<1>7. \A b \in ToSet(s) \ {Head(s)} : Before(s, Head(s), b)
  BY <1>1, <1>3 DEF ToSet, Before
<1>8. \A a, b \in Tasks : Before(r, a, b) => Before(s, a, b)
  BY <1>1, <1>2 DEF Before
<1>9. QED
  BY <1>1, <1>4, <1>5, <1>6, <1>7, <1>8

-----------------------------------------------------------------------------
-----------------------------------------------------------------------------
(* A holder knows that it holds something.                                 *)
LEMMA HoldersCount ==
    ASSUME TypeOK, NEW m \in Mutexes, holder[m] # NoTask
    PROVE  holder[m] \in Tasks /\ held[holder[m]] \in Nat \ {0}
<1>1. holder[m] \in Tasks
  BY DEF TypeOK, DataOK
<1> DEFINE S == {n \in Mutexes : holder[n] = holder[m]}
<1>2. IsFiniteSet(S) /\ S # {}
  BY FS_Subset, MutexAssumption
<1>3. Cardinality(S) \in Nat /\ Cardinality(S) # 0
  BY <1>2, FS_CardinalityType, FS_EmptySet
<1>4. held[holder[m]] = Cardinality(S)
  BY <1>1 DEF TypeOK, DataOK
<1>5. QED
  BY <1>1, <1>3, <1>4

(* What is counted and what is compared *)
LEMMA Numbers ==
    ASSUME TypeOK
    PROVE  held \in [Tasks -> Nat] /\ prio \in [Tasks -> Nat] /\ Base \in [Tasks -> Nat]
<1>1. ASSUME NEW t \in Tasks PROVE Cardinality({n \in Mutexes : holder[n] = t}) \in Nat
  <2> DEFINE S == {n \in Mutexes : holder[n] = t}
  <2>1. IsFiniteSet(S)
    BY FS_Subset, MutexAssumption
  <2>2. QED
    BY <2>1, FS_CardinalityType
<1>2. QED
  BY <1>1, MutexAssumption DEF TypeOK, DataOK

(* The one mutex a task holds *)
LEMMA HoldsOne ==
    ASSUME TypeOK, NEW m \in Mutexes, NEW n \in Mutexes,
           holder[m] # NoTask, held[holder[m]] = 1, holder[n] = holder[m]
    PROVE  n = m
<1> DEFINE S == {k \in Mutexes : holder[k] = holder[m]}
<1>1. Cardinality(S) = 1 /\ IsFiniteSet(S)
  <2>1. holder[m] \in Tasks
    BY DEF TypeOK, DataOK
  <2>2. IsFiniteSet(S)
    BY FS_Subset, MutexAssumption
  <2>3. QED
    BY <2>1, <2>2 DEF TypeOK, DataOK
<1>2. PICK x : S = {x}
  BY <1>1, FS_Singleton
<1>3. m \in S /\ n \in S
  OBVIOUS
<1>4. QED
  BY <1>2, <1>3

(* What a task that takes or gives a mutex counts *)
LEMMA Counted ==
    ASSUME TypeOK, NEW t \in Tasks, NEW m \in Mutexes
    PROVE  /\ holder[m] = NoTask /\ holder' = [holder EXCEPT ![m] = t]
                /\ held' = [held EXCEPT ![t] = @ + 1]
             => held' = [u \in Tasks |-> Cardinality({n \in Mutexes : holder'[n] = u})]
           /\ holder[m] = t /\ holder' = [holder EXCEPT ![m] = NoTask]
                /\ held' = [held EXCEPT ![t] = @ - 1]
             => held' = [u \in Tasks |-> Cardinality({n \in Mutexes : holder'[n] = u})]
<1> DEFINE S(u) == {n \in Mutexes : holder[n] = u}
           R(u) == {n \in Mutexes : holder'[n] = u}
<1>1. \A u \in Tasks : IsFiniteSet(S(u)) /\ held[u] = Cardinality(S(u)) /\ held[u] \in Nat
  <2> SUFFICES ASSUME NEW u \in Tasks
               PROVE  IsFiniteSet(S(u)) /\ held[u] = Cardinality(S(u)) /\ held[u] \in Nat
    OBVIOUS
  <2>1. IsFiniteSet(S(u))
    BY FS_Subset, MutexAssumption
  <2>2. QED
    BY <2>1, Numbers DEF TypeOK, DataOK
<1>2. holder \in [Mutexes -> Tasks \cup {NoTask}] /\ held \in [Tasks -> Nat] /\ NoTask \notin Tasks
  BY <1>1, MutexAssumption DEF TypeOK, DataOK
<1>3. ASSUME holder[m] = NoTask, holder' = [holder EXCEPT ![m] = t],
             held' = [held EXCEPT ![t] = @ + 1]
      PROVE  held' = [u \in Tasks |-> Cardinality(R(u))]
  <2>1. R(t) = S(t) \cup {m} /\ m \notin S(t)
    BY <1>2, <1>3
  <2>2. \A u \in Tasks \ {t} : R(u) = S(u)
    BY <1>2, <1>3
  <2>3. Cardinality(R(t)) = Cardinality(S(t)) + 1
    BY <1>1, <2>1, FS_AddElement
  <2> HIDE DEF S, R
  <2>4. \A u \in Tasks : held'[u] = Cardinality(R(u))
    BY <1>1, <1>2, <1>3, <2>2, <2>3
  <2>5. held' \in [Tasks -> Nat]
    BY <1>2, <1>3
  <2>6. QED
    BY <2>4, <2>5
<1>4. ASSUME holder[m] = t, holder' = [holder EXCEPT ![m] = NoTask],
             held' = [held EXCEPT ![t] = @ - 1]
      PROVE  held' = [u \in Tasks |-> Cardinality(R(u))]
  <2>1. R(t) = S(t) \ {m} /\ m \in S(t)
    BY <1>2, <1>4
  <2>2. \A u \in Tasks \ {t} : R(u) = S(u)
    BY <1>2, <1>4
  <2>3. Cardinality(R(t)) = Cardinality(S(t)) - 1
    BY <1>1, <2>1, FS_RemoveElement
  <2> HIDE DEF S, R
  <2>4. \A u \in Tasks : held'[u] = Cardinality(R(u))
    BY <1>1, <1>2, <1>4, <2>2, <2>3
  <2>5. held' \in [Tasks -> Int]
    BY <1>2, <1>4
  <2>6. QED
    BY <2>4, <2>5
<1>5. QED
  BY <1>3, <1>4

(* A call that ends leaves a task outside of any. *)
LEMMA Returns ==
    ASSUME TypeOK, NEW t \in Tasks, Return(t)
    PROVE  /\ pc' = [pc EXCEPT ![t] = "idle"] /\ pc' \in [Tasks -> Labels]
           /\ want' \in [Tasks -> Mutexes] /\ want' = [want EXCEPT ![t] = AnyMutex]
           /\ wait' \in [Tasks -> WaitKinds]
           /\ late' \in [Tasks -> BOOLEAN] /\ inherited' \in [Tasks -> BOOLEAN]
           /\ pc'[t] = "idle" /\ \A u \in Tasks \ {t} : pc'[u] = pc[u] /\ want'[u] = want[u]
<1>1. AnyMutex \in Mutexes
  BY MutexAssumption DEF AnyMutex
<1>2. pc' = [pc EXCEPT ![t] = "idle"] /\ pc' \in [Tasks -> Labels]
  BY DEF Return, Goto, TypeOK, DataOK, Labels
<1>3. want' = [want EXCEPT ![t] = AnyMutex] /\ want' \in [Tasks -> Mutexes]
  BY <1>1 DEF Return, TypeOK, DataOK
<1>4. wait' \in [Tasks -> WaitKinds]
  BY DEF Return, TypeOK, DataOK, WaitKinds
<1>5. late' \in [Tasks -> BOOLEAN] /\ inherited' \in [Tasks -> BOOLEAN]
  BY DEF Return, TypeOK, DataOK
<1>6. pc'[t] = "idle" /\ \A u \in Tasks \ {t} : pc'[u] = pc[u] /\ want'[u] = want[u]
  BY DEF Return, Goto, TypeOK, DataOK
<1>7. QED
  BY <1>2, <1>3, <1>4, <1>5, <1>6

(* Who is on the lists when time has elapsed, *)
LEMMA ElapseMoves ==
    ASSUME MutexInv, NEW t \in Tasks, Elapse(t)
    PROVE  /\ waiters' \in [Mutexes -> Seq(Tasks)]
           /\ \A m \in Mutexes :
                /\ Injective(waiters'[m]) /\ ToSet(waiters'[m]) = ToSet(waiters[m]) \ {t}
                /\ \A a, b \in Tasks : Before(waiters'[m], a, b) => Before(waiters[m], a, b)
<1>1. /\ want[t] \in Mutexes /\ waiters \in [Mutexes -> Seq(Tasks)]
      /\ waiters' = [waiters EXCEPT ![want[t]] = Unlink(waiters[want[t]], t)]
  BY DEF MutexInv, TypeOK, DataOK, Elapse
<1>2. /\ Unlink(waiters[want[t]], t) \in Seq(Tasks)
      /\ Injective(Unlink(waiters[want[t]], t))
      /\ ToSet(Unlink(waiters[want[t]], t)) = ToSet(waiters[want[t]]) \ {t}
      /\ \A a, b \in Tasks :
           Before(Unlink(waiters[want[t]], t), a, b) => Before(waiters[want[t]], a, b)
  BY <1>1, UnlinkOne DEF MutexInv, Queued
<1>3. \A m \in Mutexes \ {want[t]} : t \notin ToSet(waiters[m])
  BY DEF MutexInv, TypeOK, DataOK
<1>4. QED
  BY <1>1, <1>2, <1>3 DEF MutexInv, Queued

(* has been given the mutex, *)
LEMMA GiveMoves ==
    ASSUME MutexInv, NEW t \in Tasks, Give(t)
    PROVE  \E m \in Mutexes :
             /\ holder[m] = t
             /\ holder' = [holder EXCEPT ![m] = NoTask] /\ depth' = [depth EXCEPT ![m] = 0]
             /\ waiters' \in [Mutexes -> Seq(Tasks)]
             /\ \A n \in Mutexes \ {m} : waiters'[n] = waiters[n]
             /\ \/ waiters[m] = <<>> /\ waiters' = waiters /\ pc' = pc
                \/ \E u \in ToSet(waiters[m]) :
                     /\ u \in Tasks /\ pc' = [pc EXCEPT ![u] = "try"]
                     /\ Injective(waiters'[m]) /\ ToSet(waiters'[m]) = ToSet(waiters[m]) \ {u}
                     /\ \A b \in ToSet(waiters'[m]) : Before(waiters[m], u, b)
                     /\ \A a, b \in Tasks : Before(waiters'[m], a, b) => Before(waiters[m], a, b)
<1>1. PICK m \in Mutexes :
        /\ holder[m] = t
        /\ holder' = [holder EXCEPT ![m] = NoTask] /\ depth' = [depth EXCEPT ![m] = 0]
        /\ IF waiters[m] = <<>>
             THEN UNCHANGED <<waiters, pc>>
             ELSE /\ waiters' = [waiters EXCEPT ![m] = Tail(waiters[m])]
                  /\ pc' = [pc EXCEPT ![Head(waiters[m])] = "try"]
  BY DEF Give, Goto
<1>2. waiters \in [Mutexes -> Seq(Tasks)] /\ Injective(waiters[m])
  BY DEF MutexInv, TypeOK, DataOK, Queued
<1>3. CASE waiters[m] = <<>>
  BY <1>1, <1>2, <1>3
<1>4. CASE waiters[m] # <<>>
  <2>1. /\ Head(waiters[m]) \in Tasks /\ Head(waiters[m]) \in ToSet(waiters[m])
        /\ Tail(waiters[m]) \in Seq(Tasks) /\ Injective(Tail(waiters[m]))
        /\ ToSet(Tail(waiters[m])) = ToSet(waiters[m]) \ {Head(waiters[m])}
        /\ \A b \in ToSet(waiters[m]) \ {Head(waiters[m])} : Before(waiters[m], Head(waiters[m]), b)
        /\ \A a, b \in Tasks : Before(Tail(waiters[m]), a, b) => Before(waiters[m], a, b)
    BY <1>2, <1>4, HeadFirst
  <2>2. /\ waiters' \in [Mutexes -> Seq(Tasks)] /\ waiters'[m] = Tail(waiters[m])
        /\ \A n \in Mutexes \ {m} : waiters'[n] = waiters[n]
    BY <1>1, <1>2, <1>4, <2>1
  <2>3. QED
    BY <1>1, <1>4, <2>1, <2>2
<1>5. QED
  BY <1>3, <1>4

(* or has begun to wait *)
LEMMA BlockMoves ==
    ASSUME MutexInv, NEW t \in Tasks, Block(t)
    PROVE  LET m == want[t] IN
           LET p == Raised(t, holder[m]) IN
           /\ m \in Mutexes /\ holder[m] \in Tasks /\ prio' = p /\ p \in [Tasks -> Nat]
           /\ waiters' \in [Mutexes -> Seq(Tasks)]
           /\ \A n \in Mutexes \ {m} : waiters'[n] = waiters[n]
           /\ Injective(waiters'[m]) /\ ToSet(waiters'[m]) = ToSet(waiters[m]) \cup {t}
           /\ \A a, b \in Tasks : Before(waiters'[m], a, b) =>
                \/ Before(waiters[m], a, b)
                \/ b = t /\ p[a] >= p[t]
                \/ a = t /\ \E x \in Tasks : p[x] < p[t] /\ (b = x \/ Before(waiters[m], x, b))
<1> DEFINE m == want[t]
           p == Raised(t, holder[m])
<1>1. m \in Mutexes /\ holder[m] \in Tasks /\ prio' = p
  BY DEF MutexInv, TypeOK, DataOK, Block, Inherit
<1>2. p \in [Tasks -> Nat]
  BY <1>1 DEF MutexInv, TypeOK, DataOK, Raised
<1>3. waiters[m] \in Seq(Tasks) /\ Injective(waiters[m]) /\ t \notin ToSet(waiters[m])
  BY <1>1 DEF MutexInv, TypeOK, DataOK, Queued, Block, At
<1>4. waiters' = [waiters EXCEPT ![m] = Insert(waiters[m], t, p)] /\ waiters \in [Mutexes -> Seq(Tasks)]
  BY DEF MutexInv, TypeOK, DataOK, Block
<1> HIDE DEF m, p
<1>5. LET r == Insert(waiters[m], t, p) IN
      /\ r \in Seq(Tasks) /\ Injective(r) /\ ToSet(r) = ToSet(waiters[m]) \cup {t}
      /\ \A a, b \in Tasks : Before(r, a, b) =>
           \/ Before(waiters[m], a, b)
           \/ b = t /\ p[a] >= p[t]
           \/ a = t /\ \E x \in Tasks : p[x] < p[t] /\ (b = x \/ Before(waiters[m], x, b))
  BY <1>2, <1>3, InsertOne
<1>6. /\ waiters' \in [Mutexes -> Seq(Tasks)] /\ waiters'[m] = Insert(waiters[m], t, p)
      /\ \A n \in Mutexes \ {m} : waiters'[n] = waiters[n]
  BY <1>1, <1>4, <1>5
<1>7. QED
  BY <1>1, <1>2, <1>5, <1>6 DEF m, p

(* Somebody waits if the list is not empty. *)
LEMMA SomeoneWaits ==
    ASSUME TypeOK, NEW m \in Mutexes PROVE waiters[m] = <<>> <=> ToSet(waiters[m]) = {}
<1>1. waiters[m] \in Seq(Tasks)
  BY DEF TypeOK, DataOK
<1>2. waiters[m] # <<>> => 1 \in DOMAIN waiters[m]
  BY <1>1
<1>3. waiters[m] = <<>> => DOMAIN waiters[m] = {}
  OBVIOUS
<1>4. QED
  BY <1>2, <1>3 DEF ToSet

(* Whoever comes before another one on a list is on it. *)
LEMMA BeforeMembers ==
    ASSUME NEW s, NEW a, NEW b, Before(s, a, b) PROVE a \in ToSet(s) /\ b \in ToSet(s)
BY DEF Before, ToSet

-----------------------------------------------------------------------------
(* Who waits for a mutex is on its list, and nobody else.                  *)
LEMMA Waiting ==
    ASSUME TypeOK
    PROVE  /\ pc \in [Tasks -> Labels] /\ want \in [Tasks -> Mutexes]
           /\ \A m \in Mutexes : ToSet(waiters[m]) = {t \in Tasks : pc[t] = "blocked" /\ want[t] = m}
BY DEF TypeOK, DataOK

(* Every step keeps the types, counts what is held and puts who waits on   *)
(* the list of the mutex it wants.                                         *)
LEMMA TypeStep == MutexInv /\ [Next]_vars => TypeOK'
<1> SUFFICES ASSUME MutexInv, [Next]_vars PROVE TypeOK'
  OBVIOUS
<1> USE MutexAssumption DEF MutexInv, mutexes, priorities, frame, Goto
<1>0. runs' \in Tasks \cup {NoTask}
  BY DEF TypeOK, DataOK, Next, vars, Give, RunsOn, Ticks, Keeps
<1>1. ASSUME NEW t \in Tasks, Sleep(t) PROVE DataOK'
  BY <1>1 DEF Sleep, TypeOK, DataOK, Return, Labels, WaitKinds, At
<1>2. ASSUME NEW t \in Tasks, Wake(t) PROVE DataOK'
  BY <1>2 DEF Wake, TypeOK, DataOK, Return, Labels, WaitKinds, At
<1>3. ASSUME NEW t \in Tasks, Elapse(t) PROVE DataOK'
  <2>1. /\ waiters' \in [Mutexes -> Seq(Tasks)]
        /\ \A m \in Mutexes : ToSet(waiters'[m]) = ToSet(waiters[m]) \ {t}
    BY <1>3, ElapseMoves
  <2>2. pc' = [pc EXCEPT ![t] = IF pc[t] = "blocked" THEN "try" ELSE pc[t]]
    BY <1>3 DEF Elapse
  <2>3. pc' \in [Tasks -> Labels]
    BY <2>2 DEF TypeOK, DataOK, Labels
  <2>4. ASSUME NEW m \in Mutexes
        PROVE  ToSet(waiters'[m]) = {u \in Tasks : pc'[u] = "blocked" /\ want'[u] = m}
    BY <1>3, <2>1, <2>2, Waiting DEF Elapse, TypeOK, DataOK
  <2>5. QED
    BY <1>3, <2>1, <2>3, <2>4 DEF Elapse, TypeOK, DataOK
<1>4. ASSUME NEW t \in Tasks, Take(t) PROVE DataOK'
  BY <1>4 DEF Take, TypeOK, DataOK, Return, Labels, WaitKinds, At
<1>5. ASSUME NEW t \in Tasks, TakeAgain(t) PROVE DataOK'
  BY SMTT(30), <1>5 DEF TakeAgain, TypeOK, DataOK, Return, Labels, WaitKinds, At
<1>6. ASSUME NEW t \in Tasks, GiveOne(t) PROVE DataOK'
  BY SMTT(30), <1>6 DEF GiveOne, TypeOK, DataOK, Return, Labels, WaitKinds, At
<1>7. ASSUME NEW t \in Tasks, Give(t) PROVE DataOK'
  <2>1. PICK m \in Mutexes :
          /\ holder[m] = t
          /\ holder' = [holder EXCEPT ![m] = NoTask] /\ depth' = [depth EXCEPT ![m] = 0]
          /\ waiters' \in [Mutexes -> Seq(Tasks)]
          /\ \A n \in Mutexes \ {m} : waiters'[n] = waiters[n]
          /\ \/ waiters[m] = <<>> /\ waiters' = waiters /\ pc' = pc
             \/ \E u \in ToSet(waiters[m]) :
                  /\ u \in Tasks /\ pc' = [pc EXCEPT ![u] = "try"]
                  /\ ToSet(waiters'[m]) = ToSet(waiters[m]) \ {u}
    BY <1>7, GiveMoves, Zenon
  <2>2. /\ held' = [u \in Tasks |-> Cardinality({n \in Mutexes : holder'[n] = u})]
    BY <1>7, <2>1, Counted DEF Give, Disinherit
  <2>3. pc' \in [Tasks -> Labels]
    BY <2>1 DEF TypeOK, DataOK, Labels
  <2>4. ASSUME NEW n \in Mutexes
        PROVE  ToSet(waiters'[n]) = {u \in Tasks : pc'[u] = "blocked" /\ want'[u] = n}
    <3>1. CASE pc' = pc /\ waiters' = waiters
      BY <1>7, <3>1 DEF Give, TypeOK, DataOK
    <3>2. ASSUME NEW u \in ToSet(waiters[m]), u \in Tasks, pc' = [pc EXCEPT ![u] = "try"],
                 ToSet(waiters'[m]) = ToSet(waiters[m]) \ {u}
          PROVE  ToSet(waiters'[n]) = {v \in Tasks : pc'[v] = "blocked" /\ want'[v] = n}
      <4>1. UNCHANGED want
        BY <1>7 DEF Give
      <4>2. \A v \in ToSet(waiters[m]) : pc[v] = "blocked" /\ want[v] = m
        BY DEF TypeOK, DataOK
      <4>3. CASE n = m
        BY <2>1, <3>2, <4>1, <4>2, <4>3 DEF TypeOK, DataOK
      <4>4. CASE n # m
        <5>1. waiters'[n] = waiters[n] /\ u \in Tasks /\ want[u] = m /\ pc \in [Tasks -> Labels]
          BY <2>1, <3>2, <4>2, <4>4 DEF TypeOK, DataOK
        <5>2. ToSet(waiters[n]) = {v \in Tasks : pc[v] = "blocked" /\ want[v] = n}
          BY DEF TypeOK, DataOK
        <5>3. {v \in Tasks : pc[v] = "blocked" /\ want[v] = n}
                = {v \in Tasks : pc'[v] = "blocked" /\ want'[v] = n}
          BY <3>2, <4>1, <4>4, <5>1
        <5>4. QED
          BY <5>1, <5>2, <5>3
      <4>5. QED
        BY <4>3, <4>4
    <3>3. QED
      BY <2>1, <3>1, <3>2
  <2>5. prio' \in [Tasks -> Nat]
    BY <1>7 DEF Give, Disinherit, TypeOK, DataOK
  <2>6. /\ holder' \in [Mutexes -> Tasks \cup {NoTask}] /\ depth' \in [Mutexes -> 0 .. MaxDepth]
        /\ \A n \in Mutexes : depth'[n] = 0 <=> holder'[n] = NoTask
    BY <2>1 DEF TypeOK, DataOK
  <2>7. UNCHANGED <<want, wait, late, inherited>>
    BY <1>7 DEF Give
  <2>8. QED
    BY <2>1, <2>2, <2>3, <2>4, <2>5, <2>6, <2>7 DEF TypeOK, DataOK
<1>8. ASSUME NEW t \in Tasks, Obtain(t) PROVE DataOK'
  <2>1. want[t] \in Mutexes /\ AnyMutex \in Mutexes
    BY DEF TypeOK, DataOK, AnyMutex
  <2>2. /\ held' = [u \in Tasks |-> Cardinality({n \in Mutexes : holder'[n] = u})]
    BY <1>8, <2>1, Counted DEF Obtain
  <2>3. /\ holder' \in [Mutexes -> Tasks \cup {NoTask}] /\ depth' \in [Mutexes -> 0 .. MaxDepth]
        /\ \A n \in Mutexes : depth'[n] = 0 <=> holder'[n] = NoTask
    BY <1>8, <2>1 DEF Obtain, TypeOK, DataOK
  <2>4. /\ pc' \in [Tasks -> Labels] /\ want' \in [Tasks -> Mutexes] /\ wait' \in [Tasks -> WaitKinds]
        /\ late' \in [Tasks -> BOOLEAN] /\ inherited' \in [Tasks -> BOOLEAN]
    BY <1>8, <2>1 DEF Obtain, Return, TypeOK, DataOK, Labels, WaitKinds
  <2>5. ASSUME NEW m \in Mutexes
        PROVE  ToSet(waiters'[m]) = {u \in Tasks : pc'[u] = "blocked" /\ want'[u] = m}
    BY <1>8, Waiting DEF Obtain, Return, At, TypeOK, DataOK
  <2>6. waiters' \in [Mutexes -> Seq(Tasks)] /\ prio' \in [Tasks -> Nat]
    BY <1>8 DEF Obtain, TypeOK, DataOK
  <2>7. QED
    BY <2>2, <2>3, <2>4, <2>5, <2>6 DEF TypeOK, DataOK
<1>9. ASSUME NEW t \in Tasks, Refuse(t) PROVE DataOK'
  <2>1. /\ pc' \in [Tasks -> Labels] /\ want' \in [Tasks -> Mutexes] /\ wait' \in [Tasks -> WaitKinds]
        /\ late' \in [Tasks -> BOOLEAN] /\ inherited' \in [Tasks -> BOOLEAN]
        /\ \E l \in Labels \ {"blocked"} :
             pc' = [pc EXCEPT ![t] = l] /\ (want' = want \/ want' = [want EXCEPT ![t] = AnyMutex])
    <3>1. CASE Return(t)
      BY <3>1, Returns DEF Labels
    <3>2. CASE UNCHANGED frame
      <4>1. PICK l \in Labels \ {"blocked"} : pc' = [pc EXCEPT ![t] = l]
        BY <1>9, <3>2 DEF Refuse, Labels, Return
      <4>2. QED
        BY <3>2, <4>1 DEF TypeOK, DataOK
    <3>3. QED
      BY <1>9, <3>1, <3>2 DEF Refuse
  <2>2. pc[t] # "blocked"
    BY <1>9 DEF Refuse, At
  <2>3. UNCHANGED waiters
    BY <1>9 DEF Refuse
  <2>4. ASSUME NEW m \in Mutexes
        PROVE  ToSet(waiters'[m]) = {u \in Tasks : pc'[u] = "blocked" /\ want'[u] = m}
    BY <2>1, <2>2, <2>3, Waiting
  <2>5. UNCHANGED <<holder, depth, held, prio>>
    BY <1>9 DEF Refuse
  <2>6. QED
    BY <2>1, <2>3, <2>4, <2>5 DEF TypeOK, DataOK
<1>10. ASSUME NEW t \in Tasks, Prepare(t) PROVE DataOK'
  BY SMTT(30), <1>10 DEF Prepare, TypeOK, DataOK, Labels, At
<1>11. ASSUME NEW t \in Tasks, GiveUp(t) PROVE DataOK'
  BY SMTT(30), <1>11 DEF GiveUp, TypeOK, DataOK, Return, Labels, WaitKinds, At
<1>12. ASSUME NEW t \in Tasks, TryAgain(t) PROVE DataOK'
  BY SMTT(30), <1>12 DEF TryAgain, TypeOK, DataOK, Return, Labels, WaitKinds, At
<1>13. ASSUME NEW t \in Tasks, Block(t) PROVE DataOK'
  <2>1. /\ want[t] \in Mutexes /\ prio' \in [Tasks -> Nat]
        /\ waiters' \in [Mutexes -> Seq(Tasks)]
        /\ \A n \in Mutexes \ {want[t]} : waiters'[n] = waiters[n]
        /\ ToSet(waiters'[want[t]]) = ToSet(waiters[want[t]]) \cup {t}
    <3>1. /\ want[t] \in Mutexes /\ prio' = Raised(t, holder[want[t]])
          /\ Raised(t, holder[want[t]]) \in [Tasks -> Nat]
      BY <1>13, BlockMoves
    <3>2. /\ waiters' \in [Mutexes -> Seq(Tasks)]
          /\ \A n \in Mutexes \ {want[t]} : waiters'[n] = waiters[n]
          /\ ToSet(waiters'[want[t]]) = ToSet(waiters[want[t]]) \cup {t}
      BY <1>13, BlockMoves
    <3>3. QED
      BY <3>1, <3>2
  <2>2. pc' = [pc EXCEPT ![t] = "blocked"] /\ pc[t] = "block" /\ UNCHANGED want
    BY <1>13 DEF Block, At
  <2>3. ASSUME NEW m \in Mutexes
        PROVE  ToSet(waiters'[m]) = {u \in Tasks : pc'[u] = "blocked" /\ want'[u] = m}
    <3>1. ToSet(waiters[m]) = {u \in Tasks : pc[u] = "blocked" /\ want[u] = m} /\ want[t] \in Mutexes
      BY Waiting
    <3>2. \A u \in Tasks : pc'[u] = "blocked" <=> pc[u] = "blocked" \/ u = t
      BY <2>2, Waiting
    <3>3. ToSet(waiters'[m]) = IF m = want[t] THEN ToSet(waiters[m]) \cup {t} ELSE ToSet(waiters[m])
      BY <2>1
    <3>4. QED
      BY <2>2, <3>1, <3>2, <3>3
  <2>4. pc' \in [Tasks -> Labels] /\ inherited' \in [Tasks -> BOOLEAN]
    BY <1>13, <2>2 DEF TypeOK, DataOK, Labels, Block, Inherit
  <2>5. UNCHANGED <<holder, depth, held, want, wait, late>>
    BY <1>13 DEF Block
  <2>6. /\ holder' \in [Mutexes -> Tasks \cup {NoTask}] /\ depth' \in [Mutexes -> 0 .. MaxDepth]
        /\ \A m \in Mutexes : depth'[m] = 0 <=> holder'[m] = NoTask
        /\ held' = [u \in Tasks |-> Cardinality({m \in Mutexes : holder'[m] = u})]
        /\ late' \in [Tasks -> BOOLEAN] /\ want' \in [Tasks -> Mutexes] /\ wait' \in [Tasks -> WaitKinds]
    BY <2>5 DEF TypeOK, DataOK
  <2>7. QED
    BY <2>1, <2>3, <2>4, <2>6 DEF DataOK
<1>14. ASSUME NEW t \in Tasks, Expired(t) PROVE DataOK'
  <2>1. /\ pc' \in [Tasks -> Labels] /\ want' \in [Tasks -> Mutexes] /\ wait' \in [Tasks -> WaitKinds]
        /\ late' \in [Tasks -> BOOLEAN] /\ inherited' \in [Tasks -> BOOLEAN]
        /\ \E l \in Labels \ {"blocked"} :
             pc' = [pc EXCEPT ![t] = l] /\ (want' = want \/ want' = [want EXCEPT ![t] = AnyMutex])
    <3>1. CASE Return(t)
      BY <3>1, Returns DEF Labels
    <3>2. CASE UNCHANGED frame
      <4>1. PICK l \in Labels \ {"blocked"} : pc' = [pc EXCEPT ![t] = l]
        BY <1>14, <3>2 DEF Expired, Labels, Return
      <4>2. QED
        BY <3>2, <4>1 DEF TypeOK, DataOK
    <3>3. QED
      BY <1>14, <3>1, <3>2 DEF Expired
  <2>2. pc[t] # "blocked"
    BY <1>14 DEF Expired, At
  <2>3. UNCHANGED waiters
    BY <1>14 DEF Expired
  <2>4. ASSUME NEW m \in Mutexes
        PROVE  ToSet(waiters'[m]) = {u \in Tasks : pc'[u] = "blocked" /\ want'[u] = m}
    BY <2>1, <2>2, <2>3, Waiting
  <2>5. UNCHANGED <<holder, depth, held, prio>>
    BY <1>14 DEF Expired
  <2>6. QED
    BY <2>1, <2>3, <2>4, <2>5 DEF TypeOK, DataOK
<1>15. ASSUME NEW t \in Tasks, DisinheritLate(t) PROVE DataOK'
  <2>1. /\ pc' \in [Tasks -> Labels] /\ want' \in [Tasks -> Mutexes] /\ wait' \in [Tasks -> WaitKinds]
        /\ late' \in [Tasks -> BOOLEAN] /\ inherited' \in [Tasks -> BOOLEAN]
        /\ \E l \in Labels \ {"blocked"} :
             pc' = [pc EXCEPT ![t] = l] /\ (want' = want \/ want' = [want EXCEPT ![t] = AnyMutex])
    <3>1. CASE Return(t)
      BY <3>1, Returns DEF Labels
    <3>2. CASE UNCHANGED frame
      <4>1. PICK l \in Labels \ {"blocked"} : pc' = [pc EXCEPT ![t] = l]
        BY <1>15, <3>2 DEF DisinheritLate, Labels, Return
      <4>2. QED
        BY <3>2, <4>1 DEF TypeOK, DataOK
    <3>3. QED
      BY <1>15, <3>1, <3>2 DEF DisinheritLate
  <2>2. pc[t] # "blocked"
    BY <1>15 DEF DisinheritLate, At
  <2>3. UNCHANGED waiters
    BY <1>15 DEF DisinheritLate
  <2>4. ASSUME NEW m \in Mutexes
        PROVE  ToSet(waiters'[m]) = {u \in Tasks : pc'[u] = "blocked" /\ want'[u] = m}
    BY <2>1, <2>2, <2>3, Waiting
  <2>5. prio' \in [Tasks -> Nat]
    <3>1. HighestWaiting(want[t]) \in Nat
      <4>1. waiters[want[t]] # <<>> => Head(waiters[want[t]]) \in Tasks
        BY DEF TypeOK, DataOK
      <4>2. QED
        BY <4>1 DEF HighestWaiting, TypeOK, DataOK
    <3>2. QED
      BY <1>15, <3>1 DEF DisinheritLate, TypeOK, DataOK
  <2>6. QED
    <3>1. UNCHANGED <<holder, depth, held>>
      BY <1>15 DEF DisinheritLate
    <3>2. held' = [u \in Tasks |-> Cardinality({m \in Mutexes : holder'[m] = u})]
      BY <3>1 DEF TypeOK, DataOK
    <3>3. /\ holder' \in [Mutexes -> Tasks \cup {NoTask}]
          /\ depth' \in [Mutexes -> 0 .. MaxDepth] /\ waiters' \in [Mutexes -> Seq(Tasks)]
          /\ \A m \in Mutexes : depth'[m] = 0 <=> holder'[m] = NoTask
      BY <2>3, <3>1 DEF TypeOK, DataOK
    <3>4. QED
      BY <2>1, <2>4, <2>5, <3>2, <3>3 DEF TypeOK, DataOK
<1>16. ASSUME UNCHANGED vars PROVE DataOK'
  BY <1>16 DEF vars, TypeOK, DataOK, Return, Labels, WaitKinds, At
<1>17. QED
  BY <1>0, <1>1, <1>2, <1>3, <1>4, <1>5, <1>6, <1>7, <1>8, <1>9, <1>10, <1>11,
    <1>12, <1>13, <1>14, <1>15, <1>16
    DEF Next, Step, TypeOK

(* No step puts a task on a list twice.                                    *)
LEMMA QueuedStep == MutexInv /\ [Next]_vars => Queued'
<1> SUFFICES ASSUME MutexInv, [Next]_vars PROVE Queued'
  OBVIOUS
<1> USE MutexAssumption DEF MutexInv, mutexes, priorities, frame, Goto
<1>1. ASSUME NEW t \in Tasks, Sleep(t) PROVE Queued'
  BY <1>1 DEF Sleep, Queued, TypeOK, DataOK, Return, At
<1>2. ASSUME NEW t \in Tasks, Wake(t) PROVE Queued'
  BY <1>2 DEF Wake, Queued, TypeOK, DataOK, Return, At
<1>3. ASSUME NEW t \in Tasks, Elapse(t) PROVE Queued'
  BY <1>3, ElapseMoves DEF Queued
<1>4. ASSUME NEW t \in Tasks, Take(t) PROVE Queued'
  BY <1>4 DEF Take, Queued, TypeOK, DataOK, Return, At
<1>5. ASSUME NEW t \in Tasks, TakeAgain(t) PROVE Queued'
  BY <1>5 DEF TakeAgain, Queued, TypeOK, DataOK, Return, At
<1>6. ASSUME NEW t \in Tasks, GiveOne(t) PROVE Queued'
  BY <1>6 DEF GiveOne, Queued, TypeOK, DataOK, Return, At
<1>7. ASSUME NEW t \in Tasks, Give(t) PROVE Queued'
  <2>1. PICK m \in Mutexes :
          /\ \A n \in Mutexes \ {m} : waiters'[n] = waiters[n]
          /\ waiters'[m] = waiters[m] \/ Injective(waiters'[m])
    BY <1>7, GiveMoves
  <2>2. QED
    BY <2>1 DEF Queued
<1>8. ASSUME NEW t \in Tasks, Obtain(t) PROVE Queued'
  BY <1>8 DEF Obtain, Queued, TypeOK, DataOK, Return, At
<1>9. ASSUME NEW t \in Tasks, Refuse(t) PROVE Queued'
  BY <1>9 DEF Refuse, Queued, TypeOK, DataOK, Return, At
<1>10. ASSUME NEW t \in Tasks, Prepare(t) PROVE Queued'
  BY <1>10 DEF Prepare, Queued, TypeOK, DataOK, Return, At
<1>11. ASSUME NEW t \in Tasks, GiveUp(t) PROVE Queued'
  BY <1>11 DEF GiveUp, Queued, TypeOK, DataOK, Return, At
<1>12. ASSUME NEW t \in Tasks, TryAgain(t) PROVE Queued'
  BY <1>12 DEF TryAgain, Queued, TypeOK, DataOK, Return, At
<1>13. ASSUME NEW t \in Tasks, Block(t) PROVE Queued'
  <2>1. /\ \A n \in Mutexes \ {want[t]} : waiters'[n] = waiters[n]
        /\ Injective(waiters'[want[t]])
    BY <1>13, BlockMoves
  <2>2. QED
    BY <2>1 DEF Queued
<1>14. ASSUME NEW t \in Tasks, Expired(t) PROVE Queued'
  BY <1>14 DEF Expired, Queued, TypeOK, DataOK, Return, At
<1>15. ASSUME NEW t \in Tasks, DisinheritLate(t) PROVE Queued'
  BY <1>15 DEF DisinheritLate, Queued, TypeOK, DataOK, Return, At
<1>16. CASE UNCHANGED vars
  BY <1>16 DEF vars, Queued, TypeOK, DataOK, Return, At
<1>17. QED
  BY <1>1, <1>2, <1>3, <1>4, <1>5, <1>6, <1>7, <1>8, <1>9, <1>10, <1>11,
    <1>12, <1>13, <1>14, <1>15, <1>16
    DEF Next, Step

(* Every step pays back what it need not borrow any more.                  *)
LEMMA OwingStep == MutexInv /\ [Next]_vars => Owing'
<1> SUFFICES ASSUME MutexInv, [Next]_vars PROVE Owing'
  OBVIOUS
<1> USE MutexAssumption DEF MutexInv, mutexes, priorities, frame, Goto
<1>1. ASSUME NEW t \in Tasks, Sleep(t) PROVE Owing'
  BY <1>1 DEF Sleep, Owing, TypeOK, DataOK, Return, At
<1>2. ASSUME NEW t \in Tasks, Wake(t) PROVE Owing'
  BY <1>2 DEF Wake, Owing, TypeOK, DataOK, Return, At
<1>3. ASSUME NEW t \in Tasks, Elapse(t) PROVE Owing'
  BY <1>3 DEF Elapse, Owing, TypeOK, DataOK, Return, At
<1>4. ASSUME NEW t \in Tasks, Take(t) PROVE Owing'
  BY <1>4 DEF Take, Owing, TypeOK, DataOK, Return, At
<1>5. ASSUME NEW t \in Tasks, TakeAgain(t) PROVE Owing'
  BY <1>5 DEF TakeAgain, Owing, TypeOK, DataOK, Return, At
<1>6. ASSUME NEW t \in Tasks, GiveOne(t) PROVE Owing'
  BY <1>6 DEF GiveOne, Owing, TypeOK, DataOK, Return, At
<1>7. ASSUME NEW t \in Tasks, Give(t) PROVE Owing'
  <2>1. held[t] \in Nat /\ held[t] # 0
    <3>1. PICK m \in Mutexes : holder[m] = t
      BY <1>7 DEF Give
    <3>2. QED
      BY <3>1, HoldersCount DEF TypeOK, DataOK
  <2>2. /\ held' = [held EXCEPT ![t] = held[t] - 1]
        /\ prio' = [prio EXCEPT ![t] = IF held[t] = 1 THEN Base[t] ELSE prio[t]]
    BY <1>7 DEF Give, Disinherit
  <2>3. QED
    BY <2>1, <2>2, Numbers DEF Owing
<1>8. ASSUME NEW t \in Tasks, Obtain(t) PROVE Owing'
  <2>1. held' = [held EXCEPT ![t] = held[t] + 1]
    BY <1>8 DEF Obtain
  <2>2. held'[t] # 0 /\ \A u \in Tasks \ {t} : held'[u] = held[u]
    BY <2>1, Numbers
  <2>3. UNCHANGED prio
    BY <1>8 DEF Obtain
  <2>4. QED
    BY <2>2, <2>3 DEF Owing
<1>9. ASSUME NEW t \in Tasks, Refuse(t) PROVE Owing'
  BY <1>9 DEF Refuse, Owing, TypeOK, DataOK, Return, At
<1>10. ASSUME NEW t \in Tasks, Prepare(t) PROVE Owing'
  BY <1>10 DEF Prepare, Owing, TypeOK, DataOK, Return, At
<1>11. ASSUME NEW t \in Tasks, GiveUp(t) PROVE Owing'
  BY <1>11 DEF GiveUp, Owing, TypeOK, DataOK, Return, At
<1>12. ASSUME NEW t \in Tasks, TryAgain(t) PROVE Owing'
  BY <1>12 DEF TryAgain, Owing, TypeOK, DataOK, Return, At
<1>13. ASSUME NEW t \in Tasks, Block(t) PROVE Owing'
  <2>1. holder[want[t]] \in Tasks /\ held[holder[want[t]]] \in Nat \ {0}
    BY <1>13, HoldersCount DEF Block, TypeOK, DataOK
  <2>2. UNCHANGED held /\ prio' = Raised(t, holder[want[t]])
    BY <1>13 DEF Block, Inherit
  <2>3. QED
    BY <2>1, <2>2, Numbers DEF Raised, Owing
<1>14. ASSUME NEW t \in Tasks, Expired(t) PROVE Owing'
  BY <1>14 DEF Expired, Owing, TypeOK, DataOK, Return, At
<1>15. ASSUME NEW t \in Tasks, DisinheritLate(t) PROVE Owing'
  <2> DEFINE h == holder[want[t]]
             above == HighestWaiting(want[t])
  <2>1. above \in Nat
    <3>1. waiters[want[t]] # <<>> => Head(waiters[want[t]]) \in Tasks
      BY DEF TypeOK, DataOK
    <3>2. QED
      BY <3>1 DEF HighestWaiting, TypeOK, DataOK
  <2>2. UNCHANGED held
    BY <1>15 DEF DisinheritLate
  <2>3. CASE prio' = prio
    BY <2>2, <2>3 DEF Owing
  <2>4. CASE prio' # prio
    <3>1. /\ h # NoTask /\ held[h] = 1
          /\ prio' = [prio EXCEPT ![h] = IF Base[h] < above THEN above ELSE Base[h]]
      BY <1>15, <2>4 DEF DisinheritLate
    <3>2. h \in Tasks
      BY <3>1 DEF TypeOK, DataOK
    <3>3. QED
      BY <2>1, <2>2, <3>1, <3>2, Numbers DEF Owing
  <2>5. QED
    BY <2>3, <2>4
<1>16. CASE UNCHANGED vars
  BY <1>16 DEF vars, Owing, TypeOK, DataOK, Return, At
<1>17. QED
  BY <1>1, <1>2, <1>3, <1>4, <1>5, <1>6, <1>7, <1>8, <1>9, <1>10, <1>11,
    <1>12, <1>13, <1>14, <1>15, <1>16
    DEF Next, Step

(* Every step keeps to the mutexes a task uses.                            *)
LEMMA UsingStep == MutexInv /\ [Next]_vars => Using'
<1> SUFFICES ASSUME MutexInv, [Next]_vars PROVE Using'
  OBVIOUS
<1> USE MutexAssumption DEF MutexInv, mutexes, priorities, frame, Goto
<1>1. ASSUME NEW t \in Tasks, Sleep(t) PROVE Using'
  BY <1>1 DEF Sleep, Using, TypeOK, DataOK, Return, At, Calling
<1>2. ASSUME NEW t \in Tasks, Wake(t) PROVE Using'
  BY <1>2 DEF Wake, Using, TypeOK, DataOK, Return, At, Calling
<1>3. ASSUME NEW t \in Tasks, Elapse(t) PROVE Using'
  BY <1>3 DEF Elapse, Using, TypeOK, DataOK, Return, At, Calling
<1>4. ASSUME NEW t \in Tasks, Take(t) PROVE Using'
  BY <1>4 DEF Take, Using, TypeOK, DataOK, Return, At, Calling
<1>5. ASSUME NEW t \in Tasks, TakeAgain(t) PROVE Using'
  BY <1>5 DEF TakeAgain, Using, TypeOK, DataOK, Return, At, Calling
<1>6. ASSUME NEW t \in Tasks, GiveOne(t) PROVE Using'
  BY <1>6 DEF GiveOne, Using, TypeOK, DataOK, Return, At, Calling
<1>7. ASSUME NEW t \in Tasks, Give(t) PROVE Using'
  <2>1. PICK m \in Mutexes :
          /\ holder' = [holder EXCEPT ![m] = NoTask]
          /\ \/ pc' = pc
             \/ \E u \in ToSet(waiters[m]) : u \in Tasks /\ pc' = [pc EXCEPT ![u] = "try"]
    BY <1>7, GiveMoves
  <2>2. \A u \in ToSet(waiters[m]) : pc[u] = "blocked"
    BY DEF TypeOK, DataOK
  <2>3. \A u \in Tasks : pc'[u] \in Calling => pc[u] \in Calling
    BY <2>1, <2>2 DEF Calling, TypeOK, DataOK
  <2>4. \A n \in Mutexes : holder'[n] # NoTask => holder'[n] = holder[n]
    BY <2>1 DEF TypeOK, DataOK
  <2>5. UNCHANGED want
    BY <1>7 DEF Give
  <2>6. QED
    BY <2>3, <2>4, <2>5 DEF Using
<1>8. ASSUME NEW t \in Tasks, Obtain(t) PROVE Using'
  BY <1>8 DEF Obtain, Using, TypeOK, DataOK, Return, At, Calling
<1>9. ASSUME NEW t \in Tasks, Refuse(t) PROVE Using'
  <2>1. \A u \in Tasks : pc'[u] \in Calling => pc[u] \in Calling /\ want'[u] = want[u]
    <3>1. CASE Return(t)
      BY <3>1, Returns DEF Calling
    <3>2. CASE UNCHANGED frame
      <4>1. pc[t] \in Calling /\ \A u \in Tasks \ {t} : pc'[u] = pc[u]
        BY <1>9, <3>2 DEF Refuse, At, Calling, Return, TypeOK, DataOK
      <4>2. QED
        BY <3>2, <4>1
    <3>3. QED
      BY <1>9, <3>1, <3>2 DEF Refuse
  <2>2. UNCHANGED holder
    BY <1>9 DEF Refuse
  <2>3. QED
    BY <2>1, <2>2 DEF Using
<1>10. ASSUME NEW t \in Tasks, Prepare(t) PROVE Using'
  BY <1>10 DEF Prepare, Using, TypeOK, DataOK, Return, At, Calling
<1>11. ASSUME NEW t \in Tasks, GiveUp(t) PROVE Using'
  BY <1>11 DEF GiveUp, Using, TypeOK, DataOK, Return, At, Calling
<1>12. ASSUME NEW t \in Tasks, TryAgain(t) PROVE Using'
  BY <1>12 DEF TryAgain, Using, TypeOK, DataOK, Return, At, Calling
<1>13. ASSUME NEW t \in Tasks, Block(t) PROVE Using'
  BY <1>13 DEF Block, Using, TypeOK, DataOK, Return, At, Calling
<1>14. ASSUME NEW t \in Tasks, Expired(t) PROVE Using'
  <2>1. \A u \in Tasks : pc'[u] \in Calling => pc[u] \in Calling /\ want'[u] = want[u]
    <3>1. CASE Return(t)
      BY <3>1, Returns DEF Calling
    <3>2. CASE UNCHANGED frame
      <4>1. pc[t] \in Calling /\ \A u \in Tasks \ {t} : pc'[u] = pc[u]
        BY <1>14, <3>2 DEF Expired, At, Calling, Return, TypeOK, DataOK
      <4>2. QED
        BY <3>2, <4>1
    <3>3. QED
      BY <1>14, <3>1, <3>2 DEF Expired
  <2>2. UNCHANGED holder
    BY <1>14 DEF Expired
  <2>3. QED
    BY <2>1, <2>2 DEF Using
<1>15. ASSUME NEW t \in Tasks, DisinheritLate(t) PROVE Using'
  <2>1. \A u \in Tasks : pc'[u] \in Calling => pc[u] \in Calling /\ want'[u] = want[u]
    <3>1. CASE Return(t)
      BY <3>1, Returns DEF Calling
    <3>2. CASE UNCHANGED frame
      <4>1. pc[t] \in Calling /\ \A u \in Tasks \ {t} : pc'[u] = pc[u]
        BY <1>15, <3>2 DEF DisinheritLate, At, Calling, Return, TypeOK, DataOK
      <4>2. QED
        BY <3>2, <4>1
    <3>3. QED
      BY <1>15, <3>1, <3>2 DEF DisinheritLate
  <2>2. UNCHANGED holder
    BY <1>15 DEF DisinheritLate
  <2>3. QED
    BY <2>1, <2>2 DEF Using
<1>16. CASE UNCHANGED vars
  BY <1>16 DEF vars, Using, TypeOK, DataOK, Return, At, Calling
<1>17. QED
  BY <1>1, <1>2, <1>3, <1>4, <1>5, <1>6, <1>7, <1>8, <1>9, <1>10, <1>11,
    <1>12, <1>13, <1>14, <1>15, <1>16
    DEF Next, Step

(* No step leaves a free mutex with none that is about to take it.         *)
LEMMA OfferStep == MutexInv /\ FreeMutexIsOffered /\ [Next]_vars => FreeMutexIsOffered'
<1> SUFFICES ASSUME MutexInv /\ FreeMutexIsOffered, [Next]_vars PROVE FreeMutexIsOffered'
  OBVIOUS
<1> USE MutexAssumption DEF MutexInv, mutexes, priorities, frame, Goto
<1>1. ASSUME NEW t \in Tasks, Sleep(t) PROVE FreeMutexIsOffered'
  BY <1>1 DEF Sleep, FreeMutexIsOffered, TypeOK, DataOK, Return, At
<1>2. ASSUME NEW t \in Tasks, Wake(t) PROVE FreeMutexIsOffered'
  BY <1>2 DEF Wake, FreeMutexIsOffered, TypeOK, DataOK, Return, At
<1>3. ASSUME NEW t \in Tasks, Elapse(t) PROVE FreeMutexIsOffered'
  <2>1. \A m \in Mutexes : waiters'[m] # <<>> => waiters[m] # <<>>
    <3>1. waiters' \in [Mutexes -> Seq(Tasks)]
      BY <1>3, ElapseMoves
    <3>2. ASSUME NEW m \in Mutexes, waiters[m] = <<>> PROVE waiters'[m] = <<>>
      BY <1>3, <3>2 DEF Elapse, Unlink, TypeOK, DataOK
    <3>3. QED
      BY <3>2
  <2>2. QED
    BY <1>3, <2>1 DEF Elapse, FreeMutexIsOffered, TypeOK, DataOK
<1>4. ASSUME NEW t \in Tasks, Take(t) PROVE FreeMutexIsOffered'
  BY <1>4 DEF Take, FreeMutexIsOffered, TypeOK, DataOK, Return, At
<1>5. ASSUME NEW t \in Tasks, TakeAgain(t) PROVE FreeMutexIsOffered'
  BY <1>5 DEF TakeAgain, FreeMutexIsOffered, TypeOK, DataOK, Return, At
<1>6. ASSUME NEW t \in Tasks, GiveOne(t) PROVE FreeMutexIsOffered'
  BY <1>6 DEF GiveOne, FreeMutexIsOffered, TypeOK, DataOK, Return, At
<1>7. ASSUME NEW t \in Tasks, Give(t) PROVE FreeMutexIsOffered'
  <2>1. PICK m \in Mutexes :
          /\ holder' = [holder EXCEPT ![m] = NoTask]
          /\ \A n \in Mutexes \ {m} : waiters'[n] = waiters[n]
          /\ \/ waiters[m] = <<>> /\ waiters' = waiters /\ pc' = pc
             \/ \E u \in ToSet(waiters[m]) : u \in Tasks /\ pc' = [pc EXCEPT ![u] = "try"]
    BY <1>7, GiveMoves
  <2>2. \A u \in ToSet(waiters[m]) : pc[u] = "blocked" /\ want[u] = m
    BY DEF TypeOK, DataOK
  <2>3. UNCHANGED want
    BY <1>7 DEF Give
  <2>4. ASSUME NEW n \in Mutexes, n # m, holder'[n] = NoTask, waiters'[n] # <<>>
        PROVE  \E a \in Tasks : want'[a] = n /\ pc'[a] = "try"
    <3>1. PICK a \in Tasks : want[a] = n /\ pc[a] = "try"
      BY <2>1, <2>4 DEF FreeMutexIsOffered, TypeOK, DataOK
    <3>2. pc'[a] = "try"
      BY <2>1, <3>1 DEF TypeOK, DataOK
    <3>3. QED
      BY <2>3, <3>1, <3>2
  <2>5. ASSUME waiters'[m] # <<>> PROVE \E a \in Tasks : want'[a] = m /\ pc'[a] = "try"
    BY <2>1, <2>2, <2>3, <2>5 DEF TypeOK, DataOK
  <2>6. QED
    BY <2>4, <2>5 DEF FreeMutexIsOffered
<1>8. ASSUME NEW t \in Tasks, Obtain(t) PROVE FreeMutexIsOffered'
  BY <1>8 DEF Obtain, FreeMutexIsOffered, TypeOK, DataOK, Return, At
<1>9. ASSUME NEW t \in Tasks, Refuse(t) PROVE FreeMutexIsOffered'
  <2>1. pc[t] = "try" /\ holder[want[t]] # NoTask /\ UNCHANGED <<holder, waiters>>
    BY <1>9 DEF Refuse, At
  <2>2. \A u \in Tasks \ {t} : want'[u] = want[u] /\ pc'[u] = pc[u]
    <3>1. CASE Return(t)
      BY <3>1, Returns
    <3>2. CASE UNCHANGED frame
      BY <1>9, <3>2 DEF Refuse, Return, TypeOK, DataOK
    <3>3. QED
      BY <1>9, <3>1, <3>2 DEF Refuse
  <2>3. QED
    BY <2>1, <2>2 DEF FreeMutexIsOffered
<1>10. ASSUME NEW t \in Tasks, Prepare(t) PROVE FreeMutexIsOffered'
  BY <1>10 DEF Prepare, FreeMutexIsOffered, TypeOK, DataOK, Return, At
<1>11. ASSUME NEW t \in Tasks, GiveUp(t) PROVE FreeMutexIsOffered'
  BY <1>11 DEF GiveUp, FreeMutexIsOffered, TypeOK, DataOK, Return, At
<1>12. ASSUME NEW t \in Tasks, TryAgain(t) PROVE FreeMutexIsOffered'
  BY <1>12 DEF TryAgain, FreeMutexIsOffered, TypeOK, DataOK, Return, At
<1>13. ASSUME NEW t \in Tasks, Block(t) PROVE FreeMutexIsOffered'
  <2>1. \A n \in Mutexes \ {want[t]} : waiters'[n] = waiters[n]
    BY <1>13, BlockMoves
  <2>2. QED
    BY <1>13, <2>1 DEF Block, At, FreeMutexIsOffered, TypeOK, DataOK
<1>14. ASSUME NEW t \in Tasks, Expired(t) PROVE FreeMutexIsOffered'
  <2>1. pc[t] = "expired" /\ UNCHANGED <<holder, waiters>>
    BY <1>14 DEF Expired, At
  <2>2. \A u \in Tasks : pc[u] = "try" => want'[u] = want[u] /\ pc'[u] = "try"
    <3>1. CASE Return(t)
      BY <2>1, <3>1, Returns
    <3>2. CASE UNCHANGED frame
      BY <1>14, <2>1, <3>2 DEF Expired, Return, TypeOK, DataOK
    <3>3. QED
      BY <1>14, <3>1, <3>2 DEF Expired
  <2>3. QED
    BY <2>1, <2>2 DEF FreeMutexIsOffered
<1>15. ASSUME NEW t \in Tasks, DisinheritLate(t) PROVE FreeMutexIsOffered'
  <2>1. pc[t] = "disinherit" /\ UNCHANGED <<holder, waiters>>
    BY <1>15 DEF DisinheritLate, At
  <2>2. \A u \in Tasks : pc[u] = "try" => want'[u] = want[u] /\ pc'[u] = "try"
    <3>1. CASE Return(t)
      BY <2>1, <3>1, Returns
    <3>2. CASE UNCHANGED frame
      BY <1>15, <2>1, <3>2 DEF DisinheritLate, Return, TypeOK, DataOK
    <3>3. QED
      BY <1>15, <3>1, <3>2 DEF DisinheritLate
  <2>3. QED
    BY <2>1, <2>2 DEF FreeMutexIsOffered
<1>16. CASE UNCHANGED vars
  BY <1>16 DEF vars, FreeMutexIsOffered, TypeOK, DataOK, Return, At
<1>17. QED
  BY <1>1, <1>2, <1>3, <1>4, <1>5, <1>6, <1>7, <1>8, <1>9, <1>10, <1>11,
    <1>12, <1>13, <1>14, <1>15, <1>16
    DEF Next, Step

-----------------------------------------------------------------------------
(* A task that shares one mutex has any other to itself. *)
LEMMA Private ==
    ASSUME OneShared, NEW h \in Tasks, NEW t \in Tasks \ {h},
           NEW m \in Uses[h], NEW n \in Uses[h], m # n, m \in Uses[t]
    PROVE  \A u \in Tasks \ {h} : n \notin Uses[u]
BY DEF OneShared

(* Who waits for a mutex uses it, and so does who holds it. *)
LEMMA WaitersUse ==
    ASSUME MutexInv, NEW m \in Mutexes
    PROVE  /\ \A b \in ToSet(waiters[m]) :
                b \in Tasks /\ pc[b] = "blocked" /\ want[b] = m /\ m \in Uses[b]
           /\ holder[m] # NoTask => holder[m] \in Tasks /\ m \in Uses[holder[m]]
BY DEF MutexInv, TypeOK, DataOK, Using, Calling

(* A holder whose mutex others want does not wait for another one. *)
LEMMA HolderIsFree ==
    ASSUME MutexInv, InOrder, OneShared, NEW m \in Mutexes, NEW n \in Mutexes \ {m},
           holder[m] # NoTask, NEW t \in Tasks \ {holder[m]}, m \in Uses[t],
           NEW x \in ToSet(waiters[n]), x = holder[m] \/ holder[n] = NoTask
    PROVE  ~(x = holder[m] /\ holder[n] # x) /\ ~(want[holder[m]] = n /\ pc[holder[m]] = "try")
<1> DEFINE h == holder[m]
<1>1. h \in Tasks /\ m \in Uses[h] /\ x \in Tasks /\ n \in Uses[x] /\ want[x] = n /\ pc[x] = "blocked"
  BY WaitersUse
<1>2. n \in Uses[h] => \A u \in Tasks \ {h} : n \notin Uses[u]
  BY <1>1, Private
<1>3. ASSUME x = h, holder[n] # h PROVE FALSE
  <2>1. holder[n] = NoTask
    BY <1>1, <1>2, <1>3, WaitersUse
  <2>2. PICK a \in Tasks : want[a] = n /\ pc[a] = "try"
    BY <2>1, MutexAssumption DEF InOrder, Above
  <2>3. n \in Uses[a]
    BY <2>2 DEF MutexInv, Using, Calling
  <2>4. QED
    BY <1>1, <1>2, <1>3, <2>2, <2>3
<1>4. ASSUME want[h] = n, pc[h] = "try" PROVE FALSE
  <2>1. n \in Uses[h] /\ x # h
    BY <1>1, <1>4 DEF MutexInv, Using, Calling
  <2>2. QED
    BY <1>1, <1>2, <2>1
<1>5. QED
  BY <1>3, <1>4

(* Every step keeps those that wait below who holds the mutex or takes it. *)
LEMMA OrderStep == MutexInv /\ InOrder /\ RunsAbove /\ OneShared /\ [Next]_vars => InOrder'
<1> SUFFICES ASSUME MutexInv /\ InOrder /\ RunsAbove /\ OneShared, [Next]_vars PROVE InOrder'
  OBVIOUS
<1> USE MutexAssumption DEF MutexInv, mutexes, priorities, frame, Goto
<1>1. ASSUME NEW t \in Tasks, Sleep(t) PROVE InOrder'
  BY <1>1 DEF Sleep, InOrder, Ordered, Above, TypeOK, DataOK, Return, At
<1>2. ASSUME NEW t \in Tasks, Wake(t) PROVE InOrder'
  BY <1>2 DEF Wake, InOrder, Ordered, Above, TypeOK, DataOK, Return, At
<1>3. ASSUME NEW t \in Tasks, Elapse(t) PROVE InOrder'
  <2>1. /\ \A m \in Mutexes :
             /\ ToSet(waiters'[m]) = ToSet(waiters[m]) \ {t}
             /\ \A a, b \in Tasks : Before(waiters'[m], a, b) => Before(waiters[m], a, b)
    BY <1>3, ElapseMoves
  <2>2. UNCHANGED <<holder, prio, want>>
    BY <1>3 DEF Elapse
  <2>3. \A a \in Tasks : pc[a] = "try" => pc'[a] = "try"
    BY <1>3 DEF Elapse, TypeOK, DataOK
  <2>4. QED
    BY <2>1, <2>2, <2>3 DEF InOrder, Ordered, Above
<1>4. ASSUME NEW t \in Tasks, Take(t) PROVE InOrder'
  BY <1>4 DEF Take, InOrder, Ordered, Above, TypeOK, DataOK, Return, At
<1>5. ASSUME NEW t \in Tasks, TakeAgain(t) PROVE InOrder'
  BY <1>5 DEF TakeAgain, InOrder, Ordered, Above, TypeOK, DataOK, Return, At
<1>6. ASSUME NEW t \in Tasks, GiveOne(t) PROVE InOrder'
  BY <1>6 DEF GiveOne, InOrder, Ordered, Above, TypeOK, DataOK, Return, At
<1>7. ASSUME NEW t \in Tasks, Give(t) PROVE InOrder'
  <2>1. PICK m \in Mutexes :
          /\ holder[m] = t /\ holder' = [holder EXCEPT ![m] = NoTask]
          /\ \A n \in Mutexes \ {m} : waiters'[n] = waiters[n]
          /\ \/ waiters[m] = <<>> /\ waiters' = waiters /\ pc' = pc
             \/ \E u \in ToSet(waiters[m]) :
                  /\ u \in Tasks /\ pc' = [pc EXCEPT ![u] = "try"]
                  /\ ToSet(waiters'[m]) = ToSet(waiters[m]) \ {u}
                  /\ \A b \in ToSet(waiters'[m]) : Before(waiters[m], u, b)
                  /\ \A a, b \in Tasks : Before(waiters'[m], a, b) => Before(waiters[m], a, b)
    BY <1>7, GiveMoves, Zenon
  <2>2. pc[t] = "idle" /\ UNCHANGED want /\ prio' = [prio EXCEPT ![t] = IF held[t] = 1 THEN Base[t] ELSE prio[t]]
    BY <1>7 DEF Give, Disinherit, At
  <2>3. ASSUME NEW n \in Mutexes \ {m} PROVE Ordered(n)' /\ Above(n)'
    <3>1. waiters'[n] = waiters[n] /\ holder'[n] = holder[n] /\ t \notin ToSet(waiters[n])
      BY <2>1, <2>2, WaitersUse DEF TypeOK, DataOK
    <3>2. holder[n] = t => prio' = prio
      BY <2>1, <2>2, HoldsOne, Numbers
    <3>3. \A a \in Tasks : want[a] = n /\ pc[a] = "try" => a # t /\ want'[a] = n /\ pc'[a] = "try"
      BY SMTT(30), <2>1, <2>2, WaitersUse DEF TypeOK, DataOK
    <3>4. Ordered(n)'
      BY <2>2, <3>1, BeforeMembers DEF InOrder, Ordered, TypeOK, DataOK
    <3>5. Above(n)'
      BY <2>2, <3>1, <3>2, <3>3, WaitersUse, Numbers DEF InOrder, Above
    <3>6. QED
      BY <3>4, <3>5
  <2>4. Ordered(m)' /\ Above(m)'
    <3>1. t \notin ToSet(waiters[m]) /\ \A a \in ToSet(waiters[m]) : prio'[a] = prio[a] /\ a \in Tasks /\ want[a] = m
      BY <2>1, <2>2, WaitersUse, Numbers
    <3>2. CASE waiters[m] = <<>> /\ waiters' = waiters
      BY <3>1, <3>2, SomeoneWaits, BeforeMembers DEF Ordered, Above, TypeOK, DataOK
    <3>3. ASSUME NEW u \in ToSet(waiters[m]), u \in Tasks, pc' = [pc EXCEPT ![u] = "try"],
                 ToSet(waiters'[m]) = ToSet(waiters[m]) \ {u},
                 \A b \in ToSet(waiters'[m]) : Before(waiters[m], u, b),
                 \A a, b \in Tasks : Before(waiters'[m], a, b) => Before(waiters[m], a, b)
          PROVE  Ordered(m)' /\ Above(m)'
      <4>1. \A a, b \in Tasks : Before(waiters[m], a, b) => prio'[a] >= prio'[b]
        <5>1. \A a, b \in Tasks : Before(waiters[m], a, b) => a \in ToSet(waiters[m]) /\ b \in ToSet(waiters[m])
          BY BeforeMembers DEF TypeOK, DataOK
        <5>2. QED
          BY <2>1, <3>1, <5>1 DEF InOrder, Ordered
      <4>2. Ordered(m)'
        BY <3>3, <4>1 DEF Ordered
      <4>3. holder'[m] = NoTask /\ want'[u] = m /\ pc'[u] = "try"
        BY <2>1, <2>2, <3>1, <3>3 DEF TypeOK, DataOK
      <4>4. Above(m)'
        BY <3>1, <3>3, <4>1, <4>3 DEF Above
      <4>5. QED
        BY <4>2, <4>4
    <3>4. QED
      BY <2>1, <3>2, <3>3
  <2>5. QED
    BY <2>3, <2>4 DEF InOrder
<1>8. ASSUME NEW t \in Tasks, Obtain(t) PROVE InOrder'
  <2>1. PICK m \in Mutexes : m = want[t]
    BY DEF TypeOK, DataOK
  <2>2. /\ pc[t] = "try" /\ holder[m] = NoTask /\ holder' = [holder EXCEPT ![m] = t]
        /\ UNCHANGED <<waiters, prio>>
        /\ \A u \in Tasks : pc[u] = "try" => t = runs \/ prio[u] <= prio[t]
        /\ m \in Uses[t]
    BY <1>8, <2>1 DEF Obtain, At, Ready, Using, Calling
  <2>3. /\ pc' = [pc EXCEPT ![t] = "idle"] /\ want' = [want EXCEPT ![t] = AnyMutex]
    BY <1>8, Returns DEF Obtain
  <2>4. Ordered(m)'
    <3>1. \A a, b \in Tasks : Before(waiters[m], a, b) => prio[a] >= prio[b]
      BY <2>2, MutexAssumption DEF InOrder, Ordered
    <3>2. QED
      BY <2>2, <3>1 DEF Ordered
  <2>5. Above(m)'
    <3>1. ASSUME NEW b \in ToSet(waiters[m]) PROVE prio[t] >= prio[b]
      <4>1. PICK a \in Tasks : pc[a] = "try" /\ prio[a] >= prio[b]
        BY <2>2, MutexAssumption DEF InOrder, Above
      <4>2. b \in Tasks
        BY WaitersUse
      <4>3. CASE t = runs
        BY <2>2, <4>2, <4>3, Numbers DEF RunsAbove
      <4>4. CASE t # runs
        BY <2>2, <4>1, <4>2, <4>4, Numbers
      <4>5. QED
        BY <4>3, <4>4
    <3>2. holder'[m] = t
      BY <2>2 DEF TypeOK, DataOK
    <3>3. QED
      BY <2>2, <3>1, <3>2 DEF Above
  <2>6. ASSUME NEW n \in Mutexes \ {m} PROVE Ordered(n)' /\ Above(n)'
    BY <2>1, <2>2, <2>3, <2>6 DEF InOrder, Ordered, Above, TypeOK, DataOK
  <2>7. QED
    BY <2>4, <2>5, <2>6 DEF InOrder
<1>9. ASSUME NEW t \in Tasks, Refuse(t) PROVE InOrder'
  BY <1>9 DEF Refuse, InOrder, Ordered, Above, TypeOK, DataOK, Return, At
<1>10. ASSUME NEW t \in Tasks, Prepare(t) PROVE InOrder'
  BY <1>10 DEF Prepare, InOrder, Ordered, Above, TypeOK, DataOK, Return, At
<1>11. ASSUME NEW t \in Tasks, GiveUp(t) PROVE InOrder'
  BY <1>11 DEF GiveUp, InOrder, Ordered, Above, TypeOK, DataOK, Return, At
<1>12. ASSUME NEW t \in Tasks, TryAgain(t) PROVE InOrder'
  BY <1>12 DEF TryAgain, InOrder, Ordered, Above, TypeOK, DataOK, Return, At
<1>13. ASSUME NEW t \in Tasks, Block(t) PROVE InOrder'
  <2>1. PICK m \in Mutexes, h \in Tasks : m = want[t] /\ h = holder[m]
    BY <1>13, BlockMoves
  <2>2. /\ prio' = [prio EXCEPT ![h] = IF prio[h] < prio[t] THEN prio[t] ELSE prio[h]]
        /\ pc' = [pc EXCEPT ![t] = "blocked"] /\ pc[t] = "block" /\ UNCHANGED <<holder, want>>
        /\ h # NoTask /\ m \in Uses[t]
    BY <1>13, <2>1 DEF Block, Inherit, Raised, At, Using, Calling
  <2>3. /\ prio'[h] >= prio[h] /\ prio'[h] >= prio[t]
        /\ \A u \in Tasks \ {h} : prio'[u] = prio[u]
        /\ prio' \in [Tasks -> Nat]
        /\ (h = t => prio' = prio)
    BY <2>2, Numbers
  <2>4. /\ \A n \in Mutexes \ {m} : waiters'[n] = waiters[n]
        /\ ToSet(waiters'[m]) = ToSet(waiters[m]) \cup {t}
        /\ \A a, b \in Tasks : Before(waiters'[m], a, b) =>
             \/ Before(waiters[m], a, b)
             \/ b = t /\ prio'[a] >= prio'[t]
             \/ a = t /\ \E x \in Tasks : prio'[x] < prio'[t] /\ (b = x \/ Before(waiters[m], x, b))
    BY <1>13, <2>1, BlockMoves
  <2>5. \A a \in Tasks : pc[a] = "try" => pc'[a] = "try"
    BY <2>2 DEF TypeOK, DataOK
  <2>6. ASSUME NEW n \in Mutexes \ {m} PROVE Ordered(n)' /\ Above(n)'
    <3>1. h \in ToSet(waiters[n]) /\ h # t => holder[n] = h
      BY SMTT(30), <2>1, <2>2, HolderIsFree
    <3>2. \A b \in ToSet(waiters[n]) : b \in Tasks /\ b # t
      BY <2>2, WaitersUse
    <3>3. Ordered(n)'
      BY <2>2, <2>3, <2>4, <3>1, <3>2, BeforeMembers DEF InOrder, Ordered
    <3>4. Above(n)'
      <4> SUFFICES ASSUME NEW b \in ToSet(waiters[n])
                   PROVE  \E a \in Tasks :
                            /\ a = holder[n] \/ (holder[n] = NoTask /\ want[a] = n /\ pc'[a] = "try")
                            /\ prio'[a] >= prio'[b]
        BY <2>2, <2>4 DEF Above
      <4>1. CASE b = h
        BY <2>3, <3>1, <3>2, <4>1
      <4>2. CASE b # h
        <5>1. PICK a \in Tasks : /\ a = holder[n] \/ (holder[n] = NoTask /\ want[a] = n /\ pc[a] = "try")
                                 /\ prio[a] >= prio[b]
          BY DEF InOrder, Above
        <5>2. prio'[a] >= prio[a] /\ prio'[b] = prio[b]
          BY <2>3, <3>2, <4>2, Numbers
        <5>3. prio'[a] >= prio'[b]
          BY <2>3, <3>2, <5>1, <5>2, Numbers
        <5>4. QED
          BY <2>5, <5>1, <5>3
      <4>3. QED
        BY <4>1, <4>2
    <3>5. QED
      BY <3>3, <3>4
  <2>7. Ordered(m)'
    <3> SUFFICES ASSUME NEW a \in Tasks \ {h}, NEW b \in Tasks \ {h}, Before(waiters'[m], a, b)
                 PROVE  prio'[a] >= prio'[b]
      BY <2>1, <2>2 DEF Ordered
    <3>1. CASE Before(waiters[m], a, b)
      BY <2>1, <2>3, <3>1 DEF InOrder, Ordered
    <3>2. CASE b = t /\ prio'[a] >= prio'[t]
      BY <3>2
    <3>3. ASSUME a = t, NEW x \in Tasks, prio'[x] < prio'[t], b = x \/ Before(waiters[m], x, b)
          PROVE  prio'[a] >= prio'[b]
      <4>1. x # h
        <5>1. prio'[h] >= prio'[t]
          BY <2>3, Numbers
        <5>2. QED
          BY <2>3, <3>3, <5>1
      <4>2. CASE b = x
        BY <2>3, <3>3, <4>2
      <4>3. CASE Before(waiters[m], x, b)
        <5>1. prio[x] >= prio[b]
          BY <2>1, <4>1, <4>3 DEF InOrder, Ordered
        <5>2. QED
          BY <2>3, <3>3, <4>1, <5>1
      <4>4. QED
        BY <3>3, <4>2, <4>3
    <3>4. QED
      BY <2>4, <3>1, <3>2, <3>3
  <2>8. Above(m)'
    <3>1. ASSUME NEW b \in ToSet(waiters[m]) PROVE prio'[h] >= prio'[b]
      <4>1. prio[h] >= prio[b] /\ b \in Tasks
        BY <2>1, <2>2, WaitersUse DEF InOrder, Above
      <4>2. QED
        BY <2>3, <4>1, Numbers
    <3>2. prio'[h] >= prio'[t]
      BY <2>3, Numbers
    <3>3. QED
      BY <2>1, <2>2, <2>4, <3>1, <3>2 DEF Above
  <2>9. QED
    BY <2>6, <2>7, <2>8 DEF InOrder
<1>14. ASSUME NEW t \in Tasks, Expired(t) PROVE InOrder'
  <2>1. pc[t] = "expired" /\ UNCHANGED <<holder, waiters, prio>>
    BY <1>14 DEF Expired, At
  <2>2. \A u \in Tasks : pc[u] = "try" => want'[u] = want[u] /\ pc'[u] = "try"
    <3>1. CASE Return(t)
      BY <2>1, <3>1, Returns
    <3>2. CASE UNCHANGED frame
      BY <1>14, <2>1, <3>2 DEF Expired, Return, TypeOK, DataOK
    <3>3. QED
      BY <1>14, <3>1, <3>2 DEF Expired
  <2>3. QED
    BY <2>1, <2>2 DEF InOrder, Ordered, Above
<1>15. ASSUME NEW t \in Tasks, DisinheritLate(t) PROVE InOrder'
  <2>1. PICK m \in Mutexes : m = want[t]
    BY DEF TypeOK, DataOK
  <2>2. /\ UNCHANGED <<holder, waiters>> /\ pc[t] = "disinherit" /\ m \in Uses[t]
        /\ \A a \in Tasks : pc[a] = "try" => a # t /\ pc'[a] = "try" /\ want'[a] = want[a]
    <3>1. UNCHANGED <<holder, waiters>> /\ pc[t] = "disinherit"
      BY <1>15 DEF DisinheritLate, At
    <3>2. m \in Uses[t]
      BY <2>1, <3>1 DEF Using, Calling
    <3>3. \A a \in Tasks : pc[a] = "try" => a # t /\ pc'[a] = "try" /\ want'[a] = want[a]
      <4>1. CASE Return(t)
        BY <3>1, <4>1, Returns
      <4>2. CASE UNCHANGED frame /\ Goto(t, "fatal")
        BY <3>1, <4>2 DEF TypeOK, DataOK
      <4>3. QED
        BY <1>15, <4>1, <4>2 DEF DisinheritLate
    <3>4. QED
      BY <3>1, <3>2, <3>3
  <2>3. CASE prio' = prio
    BY <2>2, <2>3 DEF InOrder, Ordered, Above
  <2>4. CASE prio' # prio
    <3> DEFINE above == HighestWaiting(m)
    <3>1. PICK h \in Tasks :
            /\ h = holder[m] /\ h # NoTask /\ held[h] = 1
            /\ prio' = [prio EXCEPT ![h] = IF Base[h] < above THEN above ELSE Base[h]]
      BY <1>15, <2>1, <2>4 DEF DisinheritLate, TypeOK, DataOK
    <3>2. above \in Nat /\ (waiters[m] # <<>> => Head(waiters[m]) \in Tasks /\ above = prio[Head(waiters[m])])
      <4>1. waiters[m] # <<>> => Head(waiters[m]) \in Tasks
        BY DEF TypeOK, DataOK
      <4>2. QED
        BY <4>1, Numbers DEF HighestWaiting
    <3>3. prio' \in [Tasks -> Nat] /\ prio'[h] >= above /\ \A u \in Tasks \ {h} : prio'[u] = prio[u]
      BY <3>1, <3>2, Numbers
    <3> HIDE DEF above
    <3>4. ASSUME NEW n \in Mutexes \ {m} PROVE Ordered(n)' /\ Above(n)'
      <4>1. holder[n] # h
        BY <3>1, HoldsOne
      <4>2. h \notin ToSet(waiters[n])
        <5>1. CASE t = h
          BY <2>2, <5>1, WaitersUse
        <5>2. CASE t # h
          BY <2>2, <3>1, <4>1, <5>2, HolderIsFree
        <5>3. QED
          BY <5>1, <5>2
      <4>3. ASSUME NEW b \in ToSet(waiters[n]), holder[n] = NoTask, want[h] = n, pc[h] = "try"
            PROVE  FALSE
        <5>1. t # h
          BY <2>2, <4>3
        <5>2. QED
          BY <2>2, <3>1, <4>3, <5>1, HolderIsFree
      <4>4. Ordered(n)'
        BY <2>2, <3>3, <4>2, BeforeMembers DEF InOrder, Ordered
      <4>5. Above(n)'
        <5> SUFFICES ASSUME NEW b \in ToSet(waiters[n])
                     PROVE  \E a \in Tasks :
                              /\ a = holder[n] \/ (holder[n] = NoTask /\ want'[a] = n /\ pc'[a] = "try")
                              /\ prio'[a] >= prio'[b]
          BY <2>2 DEF Above
        <5>1. PICK a \in Tasks : /\ a = holder[n] \/ (holder[n] = NoTask /\ want[a] = n /\ pc[a] = "try")
                                 /\ prio[a] >= prio[b]
          BY DEF InOrder, Above
        <5>2. a # h /\ b # h /\ b \in Tasks
          BY <3>1, <4>1, <4>2, <4>3, <5>1, WaitersUse
        <5>3. prio'[a] >= prio'[b]
          BY <3>3, <5>1, <5>2
        <5>4. QED
          BY <2>2, <5>1, <5>3
      <4>6. QED
        BY <4>4, <4>5
    <3>5. Ordered(m)'
      BY <2>2, <3>1, <3>3 DEF InOrder, Ordered
    <3>6. Above(m)'
      <4>1. ASSUME NEW b \in ToSet(waiters[m]) PROVE prio'[h] >= prio'[b]
        <5> DEFINE f == Head(waiters[m])
        <5>1. b \in Tasks /\ prio[h] >= prio[b]
          BY <3>1, WaitersUse DEF InOrder, Above
        <5>2. f \in Tasks /\ above = prio[f] /\ (b = f \/ Before(waiters[m], f, b))
          BY <3>2, HeadFirst, SomeoneWaits DEF TypeOK, DataOK, Queued
        <5> HIDE DEF f
        <5>3. CASE b = h
          BY <3>3, <5>3
        <5>4. CASE b # h
          <6>1. prio[f] >= prio[b]
            <7>1. CASE f = h \/ f = b
              BY <5>1, <7>1, Numbers
            <7>2. CASE f # h /\ f # b
              BY <3>1, <5>1, <5>2, <5>4, <7>2 DEF InOrder, Ordered
            <7>3. QED
              BY <7>1, <7>2
          <6>2. QED
            BY <3>3, <5>1, <5>2, <5>4, <6>1, Numbers
        <5>5. QED
          BY <5>3, <5>4
      <4>2. QED
        BY <2>2, <3>1, <4>1 DEF Above
    <3>7. QED
      BY <3>4, <3>5, <3>6 DEF InOrder
  <2>5. QED
    BY <2>3, <2>4
<1>16. CASE UNCHANGED vars
  BY <1>16 DEF vars, InOrder, Ordered, Above, TypeOK, DataOK, Return, At
<1>17. QED
  BY <1>1, <1>2, <1>3, <1>4, <1>5, <1>6, <1>7, <1>8, <1>9, <1>10, <1>11,
    <1>12, <1>13, <1>14, <1>15, <1>16
    DEF Next, Step

(* Every step keeps those that wait below a task that runs on.             *)
LEMMA RunsStep == MutexInv /\ InOrder /\ RunsAbove /\ OneShared /\ [Next]_vars => RunsAbove'
<1> SUFFICES ASSUME MutexInv, InOrder, RunsAbove, OneShared, [Next]_vars,
                    NEW n \in Mutexes, NEW t \in Tasks, t = runs', n \in Uses[t],
                    holder'[n] = NoTask, NEW b \in ToSet(waiters'[n])
             PROVE  prio'[b] <= prio'[t]
  BY DEF RunsAbove
<1> USE MutexAssumption
<1>1. CASE Give(t)
  <2>1. /\ pc[t] = "idle" /\ prio' = [prio EXCEPT ![t] = IF held[t] = 1 THEN Base[t] ELSE prio[t]]
        /\ \A u \in Ready : t = runs \/ prio[u] <= prio[t]
    BY <1>1 DEF Give, At, Disinherit
  <2>2. PICK m \in Mutexes :
          /\ holder[m] = t /\ holder' = [holder EXCEPT ![m] = NoTask]
          /\ waiters' = IF waiters[m] = <<>> THEN waiters ELSE [waiters EXCEPT ![m] = Tail(waiters[m])]
          /\ ~Yields(t, m) /\ \E u \in Ready : prio[u] > prio'[t]
    BY <1>1 DEF Give, RunsOn
  <2>3. /\ waiters \in [Mutexes -> Seq(Tasks)] /\ holder \in [Mutexes -> Tasks \cup {NoTask}]
        /\ Injective(waiters[m])
    BY DEF MutexInv, TypeOK, DataOK, Queued
  <2>4. n # m => waiters'[n] = waiters[n] /\ holder[n] = NoTask
    BY <2>2, <2>3
  <2>5. CASE waiters[m] = <<>>
    <3>1. n # m
      <4>1. waiters' = waiters /\ ToSet(waiters[m]) = {}
        BY <2>2, <2>5, SomeoneWaits DEF MutexInv
      <4>2. QED
        BY <4>1
    <3>2. prio'[t] = prio[t]
      BY <2>2, <2>5 DEF Yields
    <3>3. prio' = prio
      BY <2>1, <3>2, Numbers DEF MutexInv
    <3>4. t = runs
      <4>1. PICK u \in Ready : prio[u] > prio[t]
        BY <2>2, <3>2
      <4>2. prio[u] \in Nat /\ prio[t] \in Nat
        BY Numbers DEF MutexInv, Ready
      <4>3. QED
        BY <2>1, <4>1, <4>2
    <3>5. QED
      BY <2>4, <3>1, <3>3, <3>4 DEF RunsAbove
  <2>6. CASE waiters[m] # <<>>
    <3> DEFINE u == Head(waiters[m])
    <3>1. /\ u \in Tasks /\ u \in ToSet(waiters[m])
          /\ ToSet(Tail(waiters[m])) = ToSet(waiters[m]) \ {u}
          /\ \A c \in ToSet(waiters[m]) \ {u} : Before(waiters[m], u, c)
      BY <2>3, <2>6, HeadFirst
    <3>2. u # t /\ m \in Uses[u] /\ m \in Uses[t]
      BY <2>1, <2>2, <3>1, WaitersUse
    <3>3. ~(prio[u] > prio'[t])
      BY <2>2, <2>6 DEF Yields
    <3> HIDE DEF u
    <3>4. n = m
      <4> SUFFICES ASSUME n # m PROVE FALSE
        OBVIOUS
      <4>1. b \in Tasks \ {t} /\ n \in Uses[b]
        BY <2>1, <2>4, WaitersUse
      <4>2. QED
        BY <3>1, <3>2, <4>1, Private
    <3>5. b \in ToSet(waiters[m]) \ {u}
      BY <2>2, <2>3, <2>6, <3>1, <3>4
    <3>6. b \in Tasks \ {t}
      BY <2>1, <3>5, WaitersUse
    <3>7. prio[u] >= prio[b]
      BY <2>2, <3>1, <3>2, <3>5, <3>6 DEF InOrder, Ordered
    <3>8. prio'[b] = prio[b] /\ prio[b] \in Nat /\ prio[u] \in Nat /\ prio'[t] \in Nat
      BY <2>1, <3>1, <3>6, Numbers DEF MutexInv
    <3>9. QED
      BY <3>3, <3>7, <3>8
  <2>7. QED
    BY <2>5, <2>6
<1>2. ASSUME t = runs, UNCHANGED <<holder, prio>>, ToSet(waiters'[n]) \subseteq ToSet(waiters[n])
      PROVE  prio'[b] <= prio'[t]
  BY <1>2 DEF RunsAbove
<1>3. ASSUME NEW x \in Tasks, Wake(x) \/ Elapse(x), Ticks(x) PROVE prio'[b] <= prio'[t]
  <2>1. t = runs
    BY <1>3 DEF Ticks
  <2>2. UNCHANGED <<holder, prio>>
    BY <1>3 DEF Wake, Elapse, mutexes, priorities
  <2>3. ToSet(waiters'[n]) \subseteq ToSet(waiters[n])
    BY <1>3, ElapseMoves DEF Wake, mutexes
  <2>4. QED
    BY <1>2, <2>1, <2>2, <2>3
<1>4. ASSUME Sleep(t) \/ Take(t) \/ TakeAgain(t) \/ GiveOne(t) \/ Step(t), Keeps(t)
      PROVE  prio'[b] <= prio'[t]
  <2>1. t = runs /\ pc'[t] \notin {"asleep", "blocked", "fatal"}
    BY <1>4 DEF Keeps
  <2>2. pc \in [Tasks -> Labels]
    BY DEF MutexInv, TypeOK, DataOK
  <2>3. ~Sleep(t) /\ ~Block(t)
    BY <2>1, <2>2 DEF Sleep, Block, Goto
  <2>4. CASE Take(t) \/ TakeAgain(t) \/ GiveOne(t) \/ Refuse(t) \/ Prepare(t) \/ GiveUp(t)
             \/ TryAgain(t) \/ Expired(t)
    <3>1. UNCHANGED <<holder, prio, waiters>>
      BY <2>4 DEF Take, TakeAgain, GiveOne, Refuse, Prepare, GiveUp, TryAgain, Expired,
                  mutexes, priorities
    <3>2. QED
      BY <1>2, <2>1, <3>1
  <2>5. CASE Obtain(t)
    <3>1. UNCHANGED <<prio, waiters>> /\ holder' = [holder EXCEPT ![want[t]] = t]
      BY <2>5 DEF Obtain
    <3>2. holder[n] = NoTask
      BY <3>1 DEF MutexInv, TypeOK, DataOK
    <3>3. QED
      BY <2>1, <3>1, <3>2 DEF RunsAbove
  <2>6. CASE DisinheritLate(t)
    <3>1. UNCHANGED <<holder, waiters>>
      BY <2>6 DEF DisinheritLate, mutexes
    <3>2. prio[b] <= prio[t] /\ b \in Tasks
      BY <2>1, <3>1, WaitersUse DEF RunsAbove
    <3>3. CASE prio' = prio
      BY <3>2, <3>3
    <3>4. CASE prio' # prio
      <4> DEFINE m == want[t]
                 h == holder[m]
                 above == HighestWaiting(m)
                 use == IF Base[h] < above THEN above ELSE Base[h]
      <4>1. m \in Mutexes /\ h \in Tasks /\ h # t /\ prio' = [prio EXCEPT ![h] = use]
        <5>1. h # NoTask /\ held[h] = 1 /\ prio' = [prio EXCEPT ![h] = use]
          BY <2>6, <3>4 DEF DisinheritLate
        <5>2. m \in Mutexes /\ h \in Tasks
          BY <5>1 DEF MutexInv, TypeOK, DataOK
        <5>3. h # t
          <6> SUFFICES ASSUME h = t PROVE FALSE
            OBVIOUS
          <6>1. prio[h] # use
            BY <3>4, <5>1, <5>2, Numbers DEF MutexInv
          <6>2. Goto(t, "fatal")
            BY <2>6, <5>1, <6>1 DEF DisinheritLate
          <6>3. QED
            BY <2>1, <2>2, <6>2 DEF Goto
        <5>4. QED
          BY <5>1, <5>2, <5>3
      <4>2. above \in Nat /\ above <= prio[h]
        <5>1. CASE waiters[m] = <<>>
          BY <4>1, <5>1, Numbers DEF HighestWaiting, MutexInv
        <5>2. CASE waiters[m] # <<>>
          <6>1. Head(waiters[m]) \in Tasks /\ Head(waiters[m]) \in ToSet(waiters[m])
            BY <4>1, <5>2, HeadFirst DEF MutexInv, TypeOK, DataOK, Queued
          <6>2. prio[h] >= prio[Head(waiters[m])]
            BY <4>1, <6>1 DEF InOrder, Above
          <6>3. QED
            BY <4>1, <5>2, <6>1, <6>2, Numbers DEF HighestWaiting, MutexInv
        <5>3. QED
          BY <5>1, <5>2
      <4>3. Base[h] \in Nat /\ Base[h] <= prio[h] /\ prio[h] \in Nat
        BY <4>1, Numbers DEF MutexInv, Owing
      <4>4. use \in Nat /\ use <= prio[h]
        BY <4>2, <4>3
      <4> HIDE DEF m, h, above, use
      <4>5. prio \in [Tasks -> Nat]
        BY Numbers DEF MutexInv
      <4>6. prio'[t] = prio[t] /\ prio'[b] \in Nat /\ prio'[b] <= prio[b]
        BY <3>2, <4>1, <4>4, <4>5
      <4>7. QED
        BY <3>2, <4>5, <4>6
    <3>5. QED
      BY <3>3, <3>4
  <2>7. QED
    BY <1>4, <2>3, <2>4, <2>5, <2>6 DEF Step
<1>5. CASE UNCHANGED vars
  BY <1>2, <1>5 DEF vars, mutexes, priorities
<1>6. QED
  <2>1. ASSUME NEW x \in Tasks, Give(x) PROVE x = t
    BY <2>1 DEF Give, RunsOn
  <2>2. ASSUME NEW x \in Tasks, Keeps(x) PROVE x = t
    BY <2>2 DEF Keeps
  <2>3. QED
    BY <1>1, <1>3, <1>4, <1>5, <2>1, <2>2 DEF Next

-----------------------------------------------------------------------------
(* The invariants hold at the start, *)
LEMMA InitInv == Init => MutexInv /\ FreeMutexIsOffered /\ InOrder /\ RunsAbove
<1> SUFFICES ASSUME Init PROVE MutexInv /\ FreeMutexIsOffered /\ InOrder /\ RunsAbove
  OBVIOUS
<1> USE MutexAssumption
<1>1. AnyMutex \in Mutexes
  BY DEF AnyMutex
<1>2. \A m \in Mutexes : waiters[m] = <<>> /\ ToSet(waiters[m]) = {} /\ holder[m] = NoTask
  BY DEF Init, ToSet
<1>3. TypeOK
  <2>1. waiters \in [Mutexes -> Seq(Tasks)]
    BY DEF Init
  <2>2. held = [t \in Tasks |-> Cardinality({m \in Mutexes : holder[m] = t})]
    <3>1. \A t \in Tasks : {m \in Mutexes : holder[m] = t} = {}
      BY <1>2
    <3>2. Cardinality({}) = 0
      BY FS_EmptySet
    <3>3. QED
      BY <3>1, <3>2 DEF Init
  <2>3. QED
    <3>1. /\ holder \in [Mutexes -> Tasks \cup {NoTask}] /\ depth \in [Mutexes -> 0 .. MaxDepth]
          /\ prio \in [Tasks -> Nat] /\ late \in [Tasks -> BOOLEAN] /\ inherited \in [Tasks -> BOOLEAN]
          /\ pc \in [Tasks -> Labels] /\ want \in [Tasks -> Mutexes] /\ wait \in [Tasks -> WaitKinds]
          /\ runs \in Tasks \cup {NoTask}
      BY <1>1 DEF Init, Labels, WaitKinds
    <3>2. \A m \in Mutexes : depth[m] = 0
      BY DEF Init
    <3>3. \A t \in Tasks : pc[t] = "idle"
      BY DEF Init
    <3>4. QED
      BY <1>2, <2>1, <2>2, <3>1, <3>2, <3>3 DEF TypeOK, DataOK
<1>4. Queued
  BY <1>2 DEF Queued, Injective
<1>5. Owing /\ Using
  BY <1>2 DEF Init, Owing, Using, Calling
<1>6. FreeMutexIsOffered
  BY <1>2 DEF FreeMutexIsOffered
<1>7. InOrder
  BY <1>2 DEF InOrder, Ordered, Above, Before
<1>8. RunsAbove
  BY <1>2 DEF RunsAbove
<1>9. QED
  BY <1>3, <1>4, <1>5, <1>6, <1>7, <1>8 DEF MutexInv

(* and every step keeps the one that all programs keep. *)
LEMMA InvStep == MutexInv /\ [Next]_vars => MutexInv'
BY TypeStep, QueuedStep, OwingStep, UsingStep DEF MutexInv

(* The inductive invariant of the mutexes *)
THEOREM InvariantCorrect == Spec => []MutexInv
BY InitInv, InvStep, PTL DEF Spec

(* The counts of held mutexes are right, no task without a mutex keeps a   *)
(* borrowed priority, and none runs below its own.                         *)
THEOREM PriorityIsPaidBackCorrect == Spec => []PriorityIsPaidBack
<1>1. MutexInv => PriorityIsPaidBack
  BY DEF MutexInv, Owing, PriorityIsPaidBack
<1>2. QED
  BY <1>1, InvariantCorrect, PTL

(* A free mutex that tasks wait for is about to be taken. *)
THEOREM FreeMutexIsOfferedCorrect == Spec => []FreeMutexIsOffered
BY InitInv, InvStep, OfferStep, PTL DEF Spec

(* A holder runs at the base priority of each task that waits, or above,   *)
(* in any program whose tasks share at most one mutex each.                *)
THEOREM HolderInheritsCorrect == ASSUME OneShared PROVE Spec => []HolderInherits
<1>1. OneShared /\ MutexInv /\ InOrder => HolderInherits
  <2> SUFFICES ASSUME MutexInv, InOrder, NEW m \in Mutexes, holder[m] # NoTask,
                      NEW b \in ToSet(waiters[m])
               PROVE  prio[holder[m]] >= Base[b]
    BY DEF HolderInherits
  <2>1. b \in Tasks /\ holder[m] \in Tasks
    BY WaitersUse
  <2>2. prio[holder[m]] >= prio[b]
    BY DEF InOrder, Above
  <2>3. prio[b] >= Base[b]
    BY <2>1 DEF MutexInv, Owing
  <2>4. prio[b] \in Nat /\ Base[b] \in Nat /\ prio[holder[m]] \in Nat
    BY <2>1, Numbers DEF MutexInv
  <2>5. QED
    BY <2>2, <2>3, <2>4
<1>2. OneShared /\ MutexInv /\ InOrder /\ RunsAbove /\ [Next]_vars
        => MutexInv' /\ InOrder' /\ RunsAbove'
  BY InvStep, OrderStep, RunsStep
<1>3. Init => MutexInv /\ InOrder /\ RunsAbove
  BY InitInv
<1>4. OneShared
  OBVIOUS
<1>5. QED
  BY <1>1, <1>2, <1>3, <1>4, PTL DEF Spec
=============================================================================
