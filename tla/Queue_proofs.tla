---------------------------- MODULE Queue_proofs ----------------------------
(***************************************************************************)
(* Theorems about Queue, for any number of tasks, priorities and items and *)
(* any length. That the ring is a bounded sequence (Base, Ringed) holds of *)
(* tasks on any number of cores, as each of their accesses to the ring is  *)
(* in a section that holds xCoreLock; handlers mask the interrupts of      *)
(* their own core only, and with them there is one core (QueueAssumption). *)
(* The others hold on one core (SingleCore): with two, a task of the other *)
(* core may lock the queue, or unlock it, while one is at work on its      *)
(* event lists.                                                            *)
(*                                                                         *)
(* QueueInv says what a task's place in its call, the locks, the event     *)
(* lists and the lists of the scheduler have to do with each other. No     *)
(* wake-up is lost because of Checked: between the look at the queue and   *)
(* the insertion into an event list the lock has counted what handlers     *)
(* did.                                                                    *)
(***************************************************************************)
EXTENDS Queue, FiniteSetTheorems, WellFoundedInduction, TLAPS

SingleCore == \A c, d \in Cores : c = d

Receivers == {"receive", "peek"}

(* What is so on any number of cores *)
Base ==
    /\ TypeOK /\ then \in [Tasks -> {"try", "empty", "idle"}]
    /\ \A t \in Tasks : call[t] = "overwrite" => Length = 1

(* The next item goes behind the last one. *)
Ringed == writeTo = (readFrom + messages + 1) % Length

(* Where the scheduler is suspended, and where the queue is locked *)
Busy == {"lock", "timeout", "check", "insert", "delay", "unlocktx", "unlockrx", "resume"}
Locking == {"timeout", "check", "insert", "delay", "unlocktx", "unlockrx"}

(* The scheduler is suspended by one task, the one that runs, *)
Exclusive ==
    \A c \in Cores :
        /\ suspended[c] <=> \E t \in Tasks : pc[t] \in Busy
        /\ \A t \in Tasks : pc[t] \in Busy => running[c] = t

(* and so is the queue locked. *)
Locked ==
    /\ rxLock # Unlocked <=> \E t \in Tasks : pc[t] \in Locking
    /\ txLock # Unlocked <=> \E t \in Tasks : pc[t] \in Locking \ {"unlockrx"}

(* A task is on one event list at most, and on none unless it sleeps or is *)
(* about to.                                                               *)
Injective(s) == \A i, j \in DOMAIN s : s[i] = s[j] => i = j
Listed(t) == t \in ToSet(toReceive) \cup ToSet(toSend)
Events ==
    /\ Injective(toReceive) /\ \A t \in ToSet(toReceive) : call[t] \in Receivers
    /\ Injective(toSend) /\ \A t \in ToSet(toSend) : call[t] \in Sends
    /\ \A c \in Cores, t \in Tasks :
         Listed(t) <=> pc[t] = "delay" \/ t \in delayed[c] \ pending[c]

(* The lists of the scheduler, and where a task sleeps *)
States ==
    \A c \in Cores :
        /\ pending[c] \subseteq delayed[c] /\ ready[c] = Tasks \ delayed[c]
        /\ ~suspended[c] => pending[c] = {}
        /\ \A t \in Tasks :
             /\ t \in delayed[c] => then[t] = "try" /\ pc[t] \in {"unlocktx", "unlockrx", "resume", "try"}
             /\ pc[t] \in {"insert", "delay"} => then[t] = "try" /\ t \notin delayed[c]

(* The locked queue remembers what handlers did since it was looked at.    *)
Checked ==
    \A t \in Tasks : pc[t] = "insert" =>
        IF call[t] \in Sends THEN Length - messages <= rxLock ELSE messages <= txLock

(* Only a receiver looks again when its block time has elapsed. *)
Looking ==
    \A t \in Tasks :
        /\ pc[t] = "idle" => then[t] = "try"
        /\ pc[t] = "empty" \/ then[t] = "empty" => call[t] \in Receivers

QueueInv == Base /\ Exclusive /\ Locked /\ Events /\ States /\ Checked /\ Looking

-----------------------------------------------------------------------------
(* Lists *)

(* Where a new item goes: behind all that are not below it, and before the *)
(* first that is, if there is one.                                         *)
LEMMA PlaceInList ==
    ASSUME NEW s \in Seq(Tasks), NEW t \in Tasks
    PROVE  LET k == PlaceIn(s, t) IN
           /\ k \in 1 .. Len(s) + 1
           /\ \A j \in 1 .. k - 1 : Prio[s[j]] >= Prio[t]
           /\ k <= Len(s) => Prio[s[k]] < Prio[t]
<1> DEFINE Below == {i \in DOMAIN s : Prio[s[i]] < Prio[t]}
           Fits(k) == /\ \A j \in 1 .. k - 1 : Prio[s[j]] >= Prio[t]
                      /\ k <= Len(s) => Prio[s[k]] < Prio[t]
<1>1. Prio \in [Tasks -> Nat]
  BY QueueAssumption
<1>2. \A i \in DOMAIN s : s[i] \in Tasks
  OBVIOUS
<1>3. \E k \in 1 .. Len(s) + 1 : Fits(k)
  <2>1. CASE Below = {}
    <3>1. Fits(Len(s) + 1)
      BY <1>1, <1>2, <2>1
    <3>2. QED
      BY <3>1
  <2>2. CASE Below # {}
    <3>1. PICK k \in Below : \A j \in Below : ~(j < k)
      <4>1. IsWellFoundedOn(OpToRel(<, Nat), Nat)
        BY NatLessThanWellFounded
      <4>2. Below \subseteq Nat
        OBVIOUS
      <4>3. \E k \in Below : \A j \in Below : <<j, k>> \notin OpToRel(<, Nat)
        BY <2>2, <4>1, <4>2, WFMin
      <4>4. QED
        BY <4>2, <4>3 DEF OpToRel
    <3>2. Fits(k)
      BY <1>1, <1>2, <3>1
    <3>3. QED
      BY <3>1, <3>2
  <2>3. QED
    BY <2>1, <2>2
<1>4. QED
  BY <1>3 DEF PlaceIn

(* Two lists end to end *)
LEMMA EndToEnd ==
    ASSUME NEW x \in Seq(Tasks), NEW y \in Seq(Tasks)
    PROVE  /\ x \o y \in Seq(Tasks) /\ Len(x \o y) = Len(x) + Len(y)
           /\ \A i \in 1 .. Len(x) : (x \o y)[i] = x[i]
           /\ \A i \in 1 .. Len(y) : (x \o y)[Len(x) + i] = y[i]
OBVIOUS

(* The order after an item has been inserted *)
LEMMA InsertOne ==
    ASSUME NEW s \in Seq(Tasks), NEW t \in Tasks \ ToSet(s), Injective(s)
    PROVE  LET r == Insert(s, t) IN
           /\ r \in Seq(Tasks) /\ Injective(r) /\ ToSet(r) = ToSet(s) \cup {t}
<1> DEFINE k == PlaceIn(s, t)
           r == Insert(s, t)
<1>1. k \in 1 .. Len(s) + 1
  BY PlaceInList
<1>2. r = SubSeq(s, 1, k - 1) \o <<t>> \o SubSeq(s, k, Len(s))
  BY DEF Insert, InsertAt
<1> HIDE DEF k, r
<1>3. /\ r \in Seq(Tasks) /\ Len(r) = Len(s) + 1
      /\ \A i \in 1 .. k - 1 : r[i] = s[i]
      /\ r[k] = t
      /\ \A i \in k + 1 .. Len(s) + 1 : r[i] = s[i - 1]
  <2> DEFINE x == SubSeq(s, 1, k - 1)
             y == SubSeq(s, k, Len(s))
  <2>1. x \in Seq(Tasks) /\ Len(x) = k - 1 /\ \A i \in 1 .. k - 1 : x[i] = s[i]
    BY <1>1
  <2>2. /\ y \in Seq(Tasks) /\ Len(y) = Len(s) + 1 - k
        /\ \A i \in 1 .. Len(s) + 1 - k : y[i] = s[i + k - 1]
    BY <1>1
  <2>3. r = x \o <<t>> \o y
    BY <1>2
  <2> HIDE DEF x, y
  <2>4. /\ r \in Seq(Tasks) /\ Len(r) = Len(s) + 1
        /\ \A i \in 1 .. k - 1 : r[i] = x[i]
        /\ r[k] = t
        /\ \A i \in k + 1 .. Len(s) + 1 : r[i] = y[i - k]
    <3> DEFINE z == x \o <<t>>
    <3>1. z \in Seq(Tasks) /\ Len(z) = k /\ z[k] = t /\ \A i \in 1 .. k - 1 : z[i] = x[i]
      BY <1>1, <2>1
    <3>2. r = z \o y
      BY <2>3
    <3> HIDE DEF z
    <3>3. /\ r \in Seq(Tasks) /\ Len(r) = k + (Len(s) + 1 - k)
          /\ \A i \in 1 .. k : r[i] = z[i]
          /\ \A i \in 1 .. Len(s) + 1 - k : r[k + i] = y[i]
      <4>1. /\ r \in Seq(Tasks) /\ Len(r) = Len(z) + Len(y)
            /\ \A i \in 1 .. Len(z) : r[i] = z[i]
            /\ \A i \in 1 .. Len(y) : r[Len(z) + i] = y[i]
        BY <2>2, <3>1, <3>2, EndToEnd, Zenon
      <4>2. QED
        BY <2>2, <3>1, <4>1
    <3>4. k + (Len(s) + 1 - k) = Len(s) + 1 /\ \A i \in 1 .. k - 1 : i \in 1 .. k
      BY <1>1
    <3>5. ASSUME NEW i \in k + 1 .. Len(s) + 1 PROVE r[i] = y[i - k]
      <4>1. i - k \in 1 .. Len(s) + 1 - k /\ k + (i - k) = i
        BY <1>1
      <4>2. QED
        BY <3>3, <4>1
    <3>6. k \in 1 .. k
      BY <1>1
    <3>7. QED
      BY <3>1, <3>3, <3>4, <3>5, <3>6
  <2>5. ASSUME NEW i \in k + 1 .. Len(s) + 1 PROVE r[i] = s[i - 1]
    <3>1. i - k \in 1 .. Len(s) + 1 - k /\ (i - k) + k - 1 = i - 1
      BY <1>1
    <3>2. QED
      BY <2>2, <2>4, <3>1
  <2>6. QED
    BY <2>1, <2>4, <2>5
<1>4. DOMAIN s = 1 .. Len(s) /\ DOMAIN r = 1 .. Len(s) + 1 /\ Len(s) \in Nat
  BY <1>3
<1>5. \A i \in DOMAIN s : s[i] \in Tasks /\ s[i] # t
  BY DEF ToSet
<1>6. ASSUME NEW x \in DOMAIN r, x # k
       PROVE  LET q == IF x < k THEN x ELSE x - 1 IN q \in DOMAIN s /\ r[x] = s[q]
  <2>1. CASE x < k
    BY <1>1, <1>3, <1>4, <2>1
  <2>2. CASE ~(x < k)
    <3>1. x \in k + 1 .. Len(s) + 1 /\ x - 1 \in 1 .. Len(s)
      BY <1>1, <1>4, <1>6, <2>2
    <3>2. QED
      BY <1>3, <1>4, <2>2, <3>1
  <2>3. QED
    BY <2>1, <2>2
<1>7. Injective(r)
  <2> SUFFICES ASSUME NEW i \in DOMAIN r, NEW j \in DOMAIN r, r[i] = r[j] PROVE i = j
    BY DEF Injective
  <2> DEFINE q(x) == IF x < k THEN x ELSE x - 1
  <2>1. \A x \in DOMAIN r : x # k => q(x) \in DOMAIN s /\ r[x] = s[q(x)]
    BY <1>6
  <2>2. i # k /\ j # k => q(i) = q(j)
    BY <2>1 DEF Injective
  <2>3. i = k <=> j = k
    BY <1>3, <1>5, <2>1
  <2>4. QED
    BY <1>1, <1>4, <2>2, <2>3
<1>8. ToSet(r) = ToSet(s) \cup {t}
  <2>1. \A i \in DOMAIN r : r[i] \in ToSet(s) \cup {t}
    <3> SUFFICES ASSUME NEW i \in DOMAIN r, i # k PROVE r[i] \in ToSet(s)
      BY <1>3
    <3>1. i < k => i \in DOMAIN s /\ r[i] = s[i]
      BY <1>1, <1>3, <1>4
    <3>2. ~(i < k) => i - 1 \in DOMAIN s /\ r[i] = s[i - 1]
      BY <1>1, <1>3, <1>4
    <3>3. QED
      BY <3>1, <3>2 DEF ToSet
  <2>2. \A i \in DOMAIN s : s[i] \in ToSet(r)
    <3> SUFFICES ASSUME NEW i \in DOMAIN s PROVE s[i] \in ToSet(r)
      OBVIOUS
    <3>1. i < k => i \in DOMAIN r /\ r[i] = s[i]
      BY <1>1, <1>3, <1>4
    <3>2. ~(i < k) => i + 1 \in DOMAIN r /\ r[i + 1] = s[i]
      BY <1>1, <1>3, <1>4
    <3>3. QED
      BY <3>1, <3>2 DEF ToSet
  <2>3. t \in ToSet(r)
    BY <1>1, <1>3, <1>4 DEF ToSet
  <2>4. QED
    BY <2>1, <2>2, <2>3 DEF ToSet
<1>9. QED
  BY <1>3, <1>7, <1>8 DEF r

(* and after one has been taken off *)
LEMMA UnlinkOne ==
    ASSUME NEW s \in Seq(Tasks), NEW t \in Tasks, Injective(s)
    PROVE  LET r == Unlink(s, t) IN
           /\ r \in Seq(Tasks) /\ Injective(r) /\ ToSet(r) = ToSet(s) \ {t}
<1> DEFINE r == Unlink(s, t)
<1>1. CASE ~\E i \in DOMAIN s : s[i] = t
  BY <1>1 DEF Unlink, ToSet
<1>2. CASE \E i \in DOMAIN s : s[i] = t
  <2> DEFINE k == CHOOSE i \in DOMAIN s : s[i] = t
             q(x) == IF x < k THEN x ELSE x + 1
  <2>1. k \in DOMAIN s /\ s[k] = t
    BY <1>2
  <2>2. r = SubSeq(s, 1, k - 1) \o SubSeq(s, k + 1, Len(s))
    BY <1>2 DEF Unlink, RemoveAt
  <2> HIDE DEF k, r
  <2>3. /\ r \in Seq(Tasks) /\ Len(r) = Len(s) - 1
        /\ \A i \in 1 .. k - 1 : r[i] = s[i]
        /\ \A i \in k .. Len(s) - 1 : r[i] = s[i + 1]
    <3> DEFINE x == SubSeq(s, 1, k - 1)
               y == SubSeq(s, k + 1, Len(s))
    <3>1. x \in Seq(Tasks) /\ Len(x) = k - 1 /\ \A i \in 1 .. k - 1 : x[i] = s[i]
      BY <2>1
    <3>2. /\ y \in Seq(Tasks) /\ Len(y) = Len(s) - k
          /\ \A i \in 1 .. Len(s) - k : y[i] = s[i + k]
      BY <2>1
    <3>3. r = x \o y
      BY <2>2
    <3> HIDE DEF x, y
    <3>4. /\ r \in Seq(Tasks) /\ Len(r) = Len(s) - 1
          /\ \A i \in 1 .. k - 1 : r[i] = x[i]
          /\ \A i \in k .. Len(s) - 1 : r[i] = y[i - k + 1]
      <4>1. /\ r \in Seq(Tasks) /\ Len(r) = (k - 1) + (Len(s) - k)
            /\ \A i \in 1 .. k - 1 : r[i] = x[i]
            /\ \A i \in 1 .. Len(s) - k : r[(k - 1) + i] = y[i]
        <5>1. /\ r \in Seq(Tasks) /\ Len(r) = Len(x) + Len(y)
              /\ \A i \in 1 .. Len(x) : r[i] = x[i]
              /\ \A i \in 1 .. Len(y) : r[Len(x) + i] = y[i]
          BY <3>1, <3>2, <3>3, EndToEnd, Zenon
        <5>2. QED
          BY <3>1, <3>2, <5>1
      <4>2. (k - 1) + (Len(s) - k) = Len(s) - 1
        BY <2>1
      <4>3. ASSUME NEW i \in k .. Len(s) - 1 PROVE r[i] = y[i - k + 1]
        <5>1. i - k + 1 \in 1 .. Len(s) - k /\ (k - 1) + (i - k + 1) = i
          BY <2>1
        <5>2. QED
          BY <4>1, <5>1
      <4>4. QED
        BY <4>1, <4>2, <4>3
    <3>5. ASSUME NEW i \in k .. Len(s) - 1 PROVE r[i] = s[i + 1]
      <4>1. i - k + 1 \in 1 .. Len(s) - k /\ (i - k + 1) + k = i + 1
        BY <2>1
      <4>2. QED
        BY <3>2, <3>4, <4>1
    <3>6. QED
      BY <3>1, <3>4, <3>5
  <2>4. DOMAIN s = 1 .. Len(s) /\ DOMAIN r = 1 .. Len(s) - 1 /\ Len(s) \in Nat
    BY <2>3
  <2>5. \A x \in DOMAIN r : q(x) \in DOMAIN s /\ q(x) # k /\ r[x] = s[q(x)]
    BY <2>1, <2>3, <2>4
  <2>6. \A x, y \in DOMAIN r : (q(x) = q(y) => x = y)
    BY <2>1, <2>4
  <2>7. \A i \in DOMAIN s : i # k => \E x \in DOMAIN r : q(x) = i
    <3> SUFFICES ASSUME NEW i \in DOMAIN s, i # k PROVE \E x \in DOMAIN r : q(x) = i
      OBVIOUS
    <3>1. i < k => i \in DOMAIN r /\ q(i) = i
      BY <2>1, <2>4
    <3>2. ~(i < k) => i - 1 \in DOMAIN r /\ q(i - 1) = i
      BY <2>1, <2>4
    <3>3. QED
      BY <3>1, <3>2
  <2> HIDE DEF q
  <2>8. Injective(r)
    BY <2>5, <2>6 DEF Injective
  <2>9. ToSet(r) = ToSet(s) \ {t}
    <3>1. \A x \in DOMAIN r : r[x] \in ToSet(s) /\ r[x] # t
      BY <2>1, <2>5 DEF ToSet, Injective
    <3>2. \A i \in DOMAIN s : s[i] # t => s[i] \in ToSet(r)
      BY <2>1, <2>5, <2>7 DEF ToSet
    <3>3. QED
      BY <3>1, <3>2 DEF ToSet
  <2>10. QED
    BY <2>3, <2>8, <2>9 DEF r
<1>3. QED
  BY <1>1, <1>2

(* The rest of a list *)
LEMMA Rest ==
    ASSUME NEW s \in Seq(Tasks), NEW m \in 0 .. Len(s)
    PROVE  LET r == SubSeq(s, m + 1, Len(s)) IN
           /\ r \in Seq(Tasks) /\ Len(r) = Len(s) - m /\ DOMAIN r = 1 .. Len(s) - m
           /\ \A i \in 1 .. Len(s) - m : r[i] = s[i + m]
<1> DEFINE r == SubSeq(s, m + 1, Len(s))
<1>1. r \in Seq(Tasks)
  OBVIOUS
<1>2. Len(r) = Len(s) - m
  <2>1. Len(r) = IF m + 1 <= Len(s) THEN Len(s) - (m + 1) + 1 ELSE 0
    OBVIOUS
  <2>2. QED
    BY <2>1
<1>3. \A i \in 1 .. Len(s) - m : r[i] = s[i + m]
  OBVIOUS
<1>4. QED
  BY <1>1, <1>2, <1>3

(* The first ones of a list, and the rest *)
LEMMA FirstOnes ==
    ASSUME NEW s \in Seq(Tasks), NEW n \in Nat
    PROVE  LET f == First(s, n)
               r == SubSeq(s, Len(f) + 1, Len(s))
           IN  /\ r \in Seq(Tasks) /\ ToSet(f) \in SUBSET Tasks
               /\ ToSet(f) \subseteq ToSet(s) /\ ToSet(s) = ToSet(f) \cup ToSet(r)
               /\ Injective(s) => /\ Injective(r) /\ ToSet(f) \cap ToSet(r) = {}
                                  /\ r # <<>> => Cardinality(ToSet(f)) >= n
<1> DEFINE f == First(s, n)
           m == IF n < Len(s) THEN n ELSE Len(s)
           r == SubSeq(s, Len(f) + 1, Len(s))
<1>1. m \in 0 .. Len(s) /\ Len(s) \in Nat /\ DOMAIN s = 1 .. Len(s) /\ (m < Len(s) => m = n)
  OBVIOUS
<1>2. f = SubSeq(s, 1, m)
  BY DEF First
<1> HIDE DEF m
<1>3. f \in Seq(Tasks) /\ Len(f) = m /\ DOMAIN f = 1 .. m /\ \A i \in 1 .. m : f[i] = s[i]
  BY <1>1, <1>2
<1>4. /\ r \in Seq(Tasks) /\ Len(r) = Len(s) - m /\ DOMAIN r = 1 .. Len(s) - m
      /\ \A i \in 1 .. Len(s) - m : r[i] = s[i + m]
  <2>1. r = SubSeq(s, m + 1, Len(s))
    BY <1>3
  <2>2. QED
    BY <1>1, <2>1, Rest
<1> HIDE DEF f, r
<1>5. ToSet(f) \in SUBSET Tasks /\ ToSet(f) \subseteq ToSet(s)
  BY <1>1, <1>3 DEF ToSet
<1>6. ToSet(s) = ToSet(f) \cup ToSet(r)
  <2>1. \A i \in 1 .. Len(s) - m : i + m \in DOMAIN s
    BY <1>1
  <2>2. ToSet(r) \subseteq ToSet(s)
    BY <1>4, <2>1 DEF ToSet
  <2>3. ASSUME NEW i \in DOMAIN s PROVE s[i] \in ToSet(f) \cup ToSet(r)
    <3>1. i <= m => i \in DOMAIN f /\ f[i] = s[i]
      BY <1>1, <1>3
    <3>2. ~(i <= m) => i - m \in DOMAIN r /\ r[i - m] = s[i]
      BY <1>1, <1>4
    <3>3. QED
      BY <3>1, <3>2 DEF ToSet
  <2>4. QED
    BY <1>5, <2>2, <2>3 DEF ToSet
<1>7. ASSUME Injective(s)
      PROVE  /\ Injective(r) /\ ToSet(f) \cap ToSet(r) = {}
             /\ r # <<>> => Cardinality(ToSet(f)) >= n
  <2>1. Injective(r)
    <3> SUFFICES ASSUME NEW i \in DOMAIN r, NEW j \in DOMAIN r, r[i] = r[j] PROVE i = j
      BY DEF Injective
    <3>1. i + m \in DOMAIN s /\ j + m \in DOMAIN s /\ s[i + m] = s[j + m]
      BY <1>1, <1>4
    <3>2. i + m = j + m
      BY <1>7, <3>1 DEF Injective
    <3>3. QED
      BY <1>1, <1>4, <3>2
  <2>2. ASSUME NEW i \in DOMAIN f, NEW j \in DOMAIN r PROVE f[i] # r[j]
    <3>1. i \in DOMAIN s /\ j + m \in DOMAIN s /\ i # j + m /\ f[i] = s[i] /\ r[j] = s[j + m]
      BY <1>1, <1>3, <1>4
    <3>2. QED
      BY <1>7, <3>1 DEF Injective
  <2>3. ASSUME r # <<>> PROVE Cardinality(ToSet(f)) >= n
    <3>1. m = n
      BY <1>1, <1>4, <2>3
    <3>2. f \in Injection(1 .. m, ToSet(f))
      <4>1. f \in [1 .. m -> ToSet(f)]
        BY <1>3 DEF ToSet
      <4>2. \A i, j \in 1 .. m : f[i] = f[j] => i = j
        BY <1>1, <1>3, <1>7 DEF Injective
      <4>3. QED
        BY <4>1, <4>2 DEF Injection, IsInjective
    <3>3. IsFiniteSet(ToSet(f))
      BY <1>5, QueueAssumption, FS_Subset
    <3>4. Cardinality(1 .. m) = m
      BY <1>1, FS_Interval
    <3>5. Cardinality(1 .. m) <= Cardinality(ToSet(f))
      BY <3>2, <3>3, FS_Injection
    <3>6. Cardinality(ToSet(f)) \in Nat
      BY <3>3, FS_CardinalityType
    <3>7. QED
      BY <3>1, <3>4, <3>5, <3>6
  <2>4. QED
    BY <2>1, <2>2, <2>3 DEF ToSet
<1>8. QED
  BY <1>4, <1>5, <1>6, <1>7 DEF f, r
-----------------------------------------------------------------------------
(* The types, and the ring, on any number of cores *)

(* What a step does to the lists stays among the tasks. *)
LEMMA ListTypes ==
    ASSUME NEW s \in Seq(Tasks), NEW t \in Tasks, NEW n \in Nat
    PROVE  /\ Insert(s, t) \in Seq(Tasks) /\ Unlink(s, t) \in Seq(Tasks)
           /\ SubSeq(s, Len(First(s, n)) + 1, Len(s)) \in Seq(Tasks)
           /\ ToSet(First(s, n)) \in SUBSET Tasks
<1>1. Insert(s, t) \in Seq(Tasks)
  <2> DEFINE k == PlaceIn(s, t)
  <2>1. k \in 1 .. Len(s) + 1
    BY PlaceInList
  <2>2. Insert(s, t) = SubSeq(s, 1, k - 1) \o <<t>> \o SubSeq(s, k, Len(s))
    BY DEF Insert, InsertAt
  <2> HIDE DEF k
  <2>3. SubSeq(s, 1, k - 1) \in Seq(Tasks) /\ SubSeq(s, k, Len(s)) \in Seq(Tasks)
    BY <2>1
  <2>4. QED
    BY <2>2, <2>3
<1>2. Unlink(s, t) \in Seq(Tasks)
  <2>1. CASE ~\E i \in DOMAIN s : s[i] = t
    BY <2>1 DEF Unlink
  <2>2. CASE \E i \in DOMAIN s : s[i] = t
    <3> DEFINE k == CHOOSE i \in DOMAIN s : s[i] = t
    <3>1. k \in 1 .. Len(s)
      BY <2>2
    <3>2. Unlink(s, t) = SubSeq(s, 1, k - 1) \o SubSeq(s, k + 1, Len(s))
      BY <2>2 DEF Unlink, RemoveAt
    <3> HIDE DEF k
    <3>3. SubSeq(s, 1, k - 1) \in Seq(Tasks) /\ SubSeq(s, k + 1, Len(s)) \in Seq(Tasks)
      BY <3>1
    <3>4. QED
      BY <3>2, <3>3
  <2>3. QED
    BY <2>1, <2>2
<1>3. QED
  BY <1>1, <1>2, FirstOnes

(* The types of a wake-up *)
LEMMA WakeTypes ==
    ASSUME Base, NEW c \in Cores, NEW n \in Nat,
           WakeReceivers(c, n) \/ WakeSenders(c, n)
    PROVE  /\ toReceive' \in Seq(Tasks) /\ toSend' \in Seq(Tasks)
           /\ ready' \in [Cores -> SUBSET Tasks] /\ delayed' \in [Cores -> SUBSET Tasks]
           /\ pending' \in [Cores -> SUBSET Tasks]
<1>1. /\ toReceive \in Seq(Tasks) /\ toSend \in Seq(Tasks)
      /\ ready \in [Cores -> SUBSET Tasks] /\ delayed \in [Cores -> SUBSET Tasks]
      /\ pending \in [Cores -> SUBSET Tasks]
  BY DEF Base, TypeOK
<1>2. ASSUME NEW W \in SUBSET Tasks, MakeReady(c, W)
      PROVE  /\ ready' \in [Cores -> SUBSET Tasks] /\ delayed' \in [Cores -> SUBSET Tasks]
             /\ pending' \in [Cores -> SUBSET Tasks]
  BY <1>1, <1>2 DEF MakeReady, AddReady
<1>3. CASE WakeReceivers(c, n)
  <2>1. ToSet(First(toReceive, n)) \in SUBSET Tasks /\ toReceive' \in Seq(Tasks) /\ toSend' \in Seq(Tasks)
    BY <1>1, <1>3, FirstOnes DEF WakeReceivers
  <2>2. QED
    BY <1>2, <1>3, <2>1 DEF WakeReceivers
<1>4. CASE WakeSenders(c, n)
  <2>1. ToSet(First(toSend, n)) \in SUBSET Tasks /\ toReceive' \in Seq(Tasks) /\ toSend' \in Seq(Tasks)
    BY <1>1, <1>4, FirstOnes DEF WakeSenders
  <2>2. QED
    BY <1>2, <1>4, <2>1 DEF WakeSenders
<1>5. QED
  BY <1>3, <1>4

(* The types of a copy into the ring *)
LEMMA CopyTypes ==
    ASSUME Base, NEW x \in Items, NEW position \in Sends, CopyIn(x, position),
           position = "overwrite" => Length = 1, position # "overwrite" => messages < Length
    PROVE  /\ storage' \in [Slots -> Items] /\ writeTo' \in Slots /\ readFrom' \in Slots
           /\ messages' \in 1 .. Length
<1> USE QueueAssumption
<1>1. /\ storage \in [Slots -> Items] /\ writeTo \in Slots /\ readFrom \in Slots
      /\ messages \in 0 .. Length
  BY DEF Base, TypeOK
<1>2. \A i \in Slots : Up(i) \in Slots /\ Down(i) \in Slots
  BY DEF Up, Down, Slots
<1>3. CASE position = "back"
  BY <1>1, <1>2, <1>3 DEF CopyIn
<1>4. CASE position # "back"
  BY <1>1, <1>2, <1>4 DEF CopyIn, Sends
<1>5. QED
  BY <1>3, <1>4

(* The types of the next state, part by part *)
LEMMA Assembled ==
    ASSUME /\ storage' \in [Slots -> Items] /\ writeTo' \in Slots /\ readFrom' \in Slots
           /\ messages' \in 0 .. Length,
           /\ rxLock' \in Unlocked .. MaxLock /\ txLock' \in Unlocked .. MaxLock,
           /\ toReceive' \in Seq(Tasks) /\ toSend' \in Seq(Tasks)
           /\ ready' \in [Cores -> SUBSET Tasks] /\ delayed' \in [Cores -> SUBSET Tasks]
           /\ pending' \in [Cores -> SUBSET Tasks],
           /\ suspended' \in [Cores -> BOOLEAN] /\ running' \in [Cores -> Tasks \cup {NoTask}],
           /\ pc' \in [Tasks -> Labels] /\ call' \in [Tasks -> Calls] /\ wait' \in [Tasks -> WaitKinds]
           /\ late' \in [Tasks -> BOOLEAN] /\ then' \in [Tasks -> {"try", "empty", "idle"}]
           /\ box' \in [Tasks -> Items] /\ \A u \in Tasks : call'[u] = "overwrite" => Length = 1
    PROVE  Base'
<1>1. \A u \in Tasks : then'[u] \in Labels
  BY DEF Labels
<1>2. QED
  BY <1>1 DEF Base, TypeOK

(* Every step keeps the types, on any number of cores.                     *)
LEMMA TypeStep == Base /\ [Next]_vars => Base'
<1> SUFFICES ASSUME Base, [Next]_vars PROVE Base'
  OBVIOUS
<1> USE DEF vars, ring, locks, lists, sched, frame
<1>1. ASSUME NEW c \in Cores, NEW t \in Tasks, Call(c, t) PROVE Base'
  <2>1. /\ pc' \in [Tasks -> Labels] /\ call' \in [Tasks -> Calls] /\ wait' \in [Tasks -> WaitKinds]
        /\ late' \in [Tasks -> BOOLEAN] /\ then' \in [Tasks -> {"try", "empty", "idle"}]
        /\ box' \in [Tasks -> Items] /\ \A u \in Tasks : call'[u] = "overwrite" => Length = 1
    <3>1. PICK k \in Does[t], w \in Waits : call' = [call EXCEPT ![t] = k] /\ wait' = [wait EXCEPT ![t] = w]
      BY <1>1 DEF Call
    <3>2. k \in Calls /\ w \in WaitKinds /\ (k = "overwrite" => Length = 1) /\ Nothing \in Items
      BY QueueAssumption DEF Nothing
    <3>3. QED
      BY <1>1, <3>1, <3>2 DEF Call, Base, TypeOK, Goto, Labels
  <2>2. /\ storage' \in [Slots -> Items] /\ writeTo' \in Slots /\ readFrom' \in Slots
        /\ messages' \in 0 .. Length
    BY <1>1 DEF Call, Base, TypeOK
  <2>3. /\ rxLock' \in Unlocked .. MaxLock /\ txLock' \in Unlocked .. MaxLock
    BY <1>1 DEF Call, Base, TypeOK
  <2>4. /\ toReceive' \in Seq(Tasks) /\ toSend' \in Seq(Tasks)
        /\ ready' \in [Cores -> SUBSET Tasks] /\ delayed' \in [Cores -> SUBSET Tasks]
        /\ pending' \in [Cores -> SUBSET Tasks]
    BY <1>1 DEF Call, Base, TypeOK
  <2>5. /\ suspended' \in [Cores -> BOOLEAN] /\ running' \in [Cores -> Tasks \cup {NoTask}]
    BY <1>1 DEF Call, Base, TypeOK
  <2>6. QED
    BY <2>1, <2>2, <2>3, <2>4, <2>5, Assembled
<1>2. ASSUME NEW c \in Cores, NEW t \in Tasks, Send(c, t) PROVE Base'
  <2>1. /\ storage' \in [Slots -> Items] /\ writeTo' \in Slots /\ readFrom' \in Slots
        /\ messages' \in 0 .. Length
    <3>1. PICK x \in Items : CopyIn(x, call[t])
      BY <1>2 DEF Send
    <3>2. /\ call[t] \in Sends /\ (call[t] = "overwrite" => Length = 1)
          /\ (call[t] # "overwrite" => messages < Length)
      BY <1>2 DEF Send, Possible, Base, Sends
    <3>3. QED
      BY <3>1, <3>2, CopyTypes, QueueAssumption
  <2>2. /\ toReceive' \in Seq(Tasks) /\ toSend' \in Seq(Tasks)
        /\ ready' \in [Cores -> SUBSET Tasks] /\ delayed' \in [Cores -> SUBSET Tasks]
        /\ pending' \in [Cores -> SUBSET Tasks]
    BY <1>2, WakeTypes DEF Send
  <2>3. /\ pc' \in [Tasks -> Labels] /\ call' \in [Tasks -> Calls] /\ wait' \in [Tasks -> WaitKinds]
        /\ late' \in [Tasks -> BOOLEAN] /\ then' \in [Tasks -> {"try", "empty", "idle"}]
        /\ box' \in [Tasks -> Items] /\ \A u \in Tasks : call'[u] = "overwrite" => Length = 1
    BY <1>2 DEF Send, Base, TypeOK, Goto, Return, Labels, WaitKinds
  <2>4. /\ rxLock' \in Unlocked .. MaxLock /\ txLock' \in Unlocked .. MaxLock
    BY <1>2 DEF Send, Base, TypeOK
  <2>5. /\ suspended' \in [Cores -> BOOLEAN] /\ running' \in [Cores -> Tasks \cup {NoTask}]
    BY <1>2 DEF Send, Base, TypeOK
  <2>6. QED
    BY <2>1, <2>2, <2>3, <2>4, <2>5, Assembled
<1>3. ASSUME NEW c \in Cores, NEW t \in Tasks, Receive(c, t) PROVE Base'
  <2>1. /\ storage' \in [Slots -> Items] /\ writeTo' \in Slots /\ readFrom' \in Slots
        /\ messages' \in 0 .. Length
    <3>1. /\ storage \in [Slots -> Items] /\ writeTo \in Slots /\ readFrom \in Slots
          /\ messages \in 0 .. Length /\ messages > 0
      BY <1>3 DEF Receive, Possible, Base, TypeOK
    <3>2. Up(readFrom) \in Slots /\ messages - 1 \in 0 .. Length
      BY <3>1, QueueAssumption DEF Up, Slots
    <3>3. QED
      BY <1>3, <3>1, <3>2 DEF Receive, CopyOut
  <2>2. /\ toReceive' \in Seq(Tasks) /\ toSend' \in Seq(Tasks)
        /\ ready' \in [Cores -> SUBSET Tasks] /\ delayed' \in [Cores -> SUBSET Tasks]
        /\ pending' \in [Cores -> SUBSET Tasks]
    BY <1>3, WakeTypes DEF Receive
  <2>3. /\ pc' \in [Tasks -> Labels] /\ call' \in [Tasks -> Calls] /\ wait' \in [Tasks -> WaitKinds]
        /\ late' \in [Tasks -> BOOLEAN] /\ then' \in [Tasks -> {"try", "empty", "idle"}]
        /\ box' \in [Tasks -> Items] /\ \A u \in Tasks : call'[u] = "overwrite" => Length = 1
    <3>1. Up(readFrom) \in Slots
      BY QueueAssumption DEF Up, Slots, Base, TypeOK
    <3>2. storage[Up(readFrom)] \in Items
      BY <3>1 DEF Base, TypeOK
    <3>3. QED
      BY <1>3, <3>2 DEF Receive, Base, TypeOK, Fill, Return, Labels, WaitKinds
  <2>4. /\ rxLock' \in Unlocked .. MaxLock /\ txLock' \in Unlocked .. MaxLock
    BY <1>3 DEF Receive, Base, TypeOK
  <2>5. /\ suspended' \in [Cores -> BOOLEAN] /\ running' \in [Cores -> Tasks \cup {NoTask}]
    BY <1>3 DEF Receive, Base, TypeOK
  <2>6. QED
    BY <2>1, <2>2, <2>3, <2>4, <2>5, Assembled
<1>4. ASSUME NEW c \in Cores, NEW t \in Tasks, Peek(c, t) PROVE Base'
  <2>1. /\ toReceive' \in Seq(Tasks) /\ toSend' \in Seq(Tasks)
        /\ ready' \in [Cores -> SUBSET Tasks] /\ delayed' \in [Cores -> SUBSET Tasks]
        /\ pending' \in [Cores -> SUBSET Tasks]
    BY <1>4, WakeTypes DEF Peek
  <2>2. /\ pc' \in [Tasks -> Labels] /\ call' \in [Tasks -> Calls] /\ wait' \in [Tasks -> WaitKinds]
        /\ late' \in [Tasks -> BOOLEAN] /\ then' \in [Tasks -> {"try", "empty", "idle"}]
        /\ box' \in [Tasks -> Items] /\ \A u \in Tasks : call'[u] = "overwrite" => Length = 1
    <3>1. Up(readFrom) \in Slots
      BY QueueAssumption DEF Up, Slots, Base, TypeOK
    <3>2. storage[Up(readFrom)] \in Items
      BY <3>1 DEF Base, TypeOK
    <3>3. QED
      BY <1>4, <3>2 DEF Peek, Base, TypeOK, Fill, Return, Labels, WaitKinds
  <2>3. /\ storage' \in [Slots -> Items] /\ writeTo' \in Slots /\ readFrom' \in Slots
        /\ messages' \in 0 .. Length
    BY <1>4 DEF Peek, Base, TypeOK
  <2>4. /\ rxLock' \in Unlocked .. MaxLock /\ txLock' \in Unlocked .. MaxLock
    BY <1>4 DEF Peek, Base, TypeOK
  <2>5. /\ suspended' \in [Cores -> BOOLEAN] /\ running' \in [Cores -> Tasks \cup {NoTask}]
    BY <1>4 DEF Peek, Base, TypeOK
  <2>6. QED
    BY <2>1, <2>2, <2>3, <2>4, <2>5, Assembled
<1>5. ASSUME NEW c \in Cores, NEW t \in Tasks, Refuse(c, t) PROVE Base'
  <2>1. /\ pc' \in [Tasks -> Labels] /\ call' \in [Tasks -> Calls] /\ wait' \in [Tasks -> WaitKinds]
        /\ late' \in [Tasks -> BOOLEAN] /\ then' \in [Tasks -> {"try", "empty", "idle"}]
        /\ box' \in [Tasks -> Items] /\ \A u \in Tasks : call'[u] = "overwrite" => Length = 1
    BY <1>5 DEF Refuse, Base, TypeOK, Goto, Return, Labels, WaitKinds
  <2>2. /\ storage' \in [Slots -> Items] /\ writeTo' \in Slots /\ readFrom' \in Slots
        /\ messages' \in 0 .. Length
    BY <1>5 DEF Refuse, Base, TypeOK
  <2>3. /\ rxLock' \in Unlocked .. MaxLock /\ txLock' \in Unlocked .. MaxLock
    BY <1>5 DEF Refuse, Base, TypeOK
  <2>4. /\ toReceive' \in Seq(Tasks) /\ toSend' \in Seq(Tasks)
        /\ ready' \in [Cores -> SUBSET Tasks] /\ delayed' \in [Cores -> SUBSET Tasks]
        /\ pending' \in [Cores -> SUBSET Tasks]
    BY <1>5 DEF Refuse, Base, TypeOK
  <2>5. /\ suspended' \in [Cores -> BOOLEAN] /\ running' \in [Cores -> Tasks \cup {NoTask}]
    BY <1>5 DEF Refuse, Base, TypeOK
  <2>6. QED
    BY <2>1, <2>2, <2>3, <2>4, <2>5, Assembled
<1>6. ASSUME NEW c \in Cores, NEW t \in Tasks, SetTimeOut(c, t) PROVE Base'
  <2>1. /\ pc' \in [Tasks -> Labels] /\ call' \in [Tasks -> Calls] /\ wait' \in [Tasks -> WaitKinds]
        /\ late' \in [Tasks -> BOOLEAN] /\ then' \in [Tasks -> {"try", "empty", "idle"}]
        /\ box' \in [Tasks -> Items] /\ \A u \in Tasks : call'[u] = "overwrite" => Length = 1
    BY <1>6 DEF SetTimeOut, Base, TypeOK, Goto, Return, Labels, WaitKinds
  <2>2. /\ storage' \in [Slots -> Items] /\ writeTo' \in Slots /\ readFrom' \in Slots
        /\ messages' \in 0 .. Length
    BY <1>6 DEF SetTimeOut, Base, TypeOK
  <2>3. /\ rxLock' \in Unlocked .. MaxLock /\ txLock' \in Unlocked .. MaxLock
    BY <1>6 DEF SetTimeOut, Base, TypeOK
  <2>4. /\ toReceive' \in Seq(Tasks) /\ toSend' \in Seq(Tasks)
        /\ ready' \in [Cores -> SUBSET Tasks] /\ delayed' \in [Cores -> SUBSET Tasks]
        /\ pending' \in [Cores -> SUBSET Tasks]
    BY <1>6 DEF SetTimeOut, Base, TypeOK
  <2>5. /\ suspended' \in [Cores -> BOOLEAN] /\ running' \in [Cores -> Tasks \cup {NoTask}]
    BY <1>6 DEF SetTimeOut, Base, TypeOK
  <2>6. QED
    BY <2>1, <2>2, <2>3, <2>4, <2>5, Assembled
<1>7. ASSUME NEW c \in Cores, NEW t \in Tasks, SuspendAll(c, t) PROVE Base'
  <2>1. /\ pc' \in [Tasks -> Labels] /\ call' \in [Tasks -> Calls] /\ wait' \in [Tasks -> WaitKinds]
        /\ late' \in [Tasks -> BOOLEAN] /\ then' \in [Tasks -> {"try", "empty", "idle"}]
        /\ box' \in [Tasks -> Items] /\ \A u \in Tasks : call'[u] = "overwrite" => Length = 1
    BY <1>7 DEF SuspendAll, Base, TypeOK, Goto, Return, Labels, WaitKinds
  <2>2. /\ storage' \in [Slots -> Items] /\ writeTo' \in Slots /\ readFrom' \in Slots
        /\ messages' \in 0 .. Length
    BY <1>7 DEF SuspendAll, Base, TypeOK
  <2>3. /\ rxLock' \in Unlocked .. MaxLock /\ txLock' \in Unlocked .. MaxLock
    BY <1>7 DEF SuspendAll, Base, TypeOK
  <2>4. /\ toReceive' \in Seq(Tasks) /\ toSend' \in Seq(Tasks)
        /\ ready' \in [Cores -> SUBSET Tasks] /\ delayed' \in [Cores -> SUBSET Tasks]
        /\ pending' \in [Cores -> SUBSET Tasks]
    BY <1>7 DEF SuspendAll, Base, TypeOK
  <2>5. /\ suspended' \in [Cores -> BOOLEAN] /\ running' \in [Cores -> Tasks \cup {NoTask}]
    BY <1>7 DEF SuspendAll, Base, TypeOK
  <2>6. QED
    BY <2>1, <2>2, <2>3, <2>4, <2>5, Assembled
<1>8. ASSUME NEW c \in Cores, NEW t \in Tasks, LockQueue(c, t) PROVE Base'
  <2>1. /\ rxLock' \in Unlocked .. MaxLock /\ txLock' \in Unlocked .. MaxLock
    BY <1>8, QueueAssumption DEF LockQueue, Base, TypeOK, Unlocked
  <2>2. /\ pc' \in [Tasks -> Labels] /\ call' \in [Tasks -> Calls] /\ wait' \in [Tasks -> WaitKinds]
        /\ late' \in [Tasks -> BOOLEAN] /\ then' \in [Tasks -> {"try", "empty", "idle"}]
        /\ box' \in [Tasks -> Items] /\ \A u \in Tasks : call'[u] = "overwrite" => Length = 1
    BY <1>8 DEF LockQueue, Base, TypeOK, Goto, Return, Labels, WaitKinds
  <2>3. /\ storage' \in [Slots -> Items] /\ writeTo' \in Slots /\ readFrom' \in Slots
        /\ messages' \in 0 .. Length
    BY <1>8 DEF LockQueue, Base, TypeOK
  <2>4. /\ toReceive' \in Seq(Tasks) /\ toSend' \in Seq(Tasks)
        /\ ready' \in [Cores -> SUBSET Tasks] /\ delayed' \in [Cores -> SUBSET Tasks]
        /\ pending' \in [Cores -> SUBSET Tasks]
    BY <1>8 DEF LockQueue, Base, TypeOK
  <2>5. /\ suspended' \in [Cores -> BOOLEAN] /\ running' \in [Cores -> Tasks \cup {NoTask}]
    BY <1>8 DEF LockQueue, Base, TypeOK
  <2>6. QED
    BY <2>1, <2>2, <2>3, <2>4, <2>5, Assembled
<1>9. ASSUME NEW c \in Cores, NEW t \in Tasks, CheckForTimeOut(c, t) PROVE Base'
  <2>1. /\ pc' \in [Tasks -> Labels] /\ call' \in [Tasks -> Calls] /\ wait' \in [Tasks -> WaitKinds]
        /\ late' \in [Tasks -> BOOLEAN] /\ then' \in [Tasks -> {"try", "empty", "idle"}]
        /\ box' \in [Tasks -> Items] /\ \A u \in Tasks : call'[u] = "overwrite" => Length = 1
    BY <1>9 DEF CheckForTimeOut, Base, TypeOK, Goto, Return, Labels, WaitKinds
  <2>2. /\ storage' \in [Slots -> Items] /\ writeTo' \in Slots /\ readFrom' \in Slots
        /\ messages' \in 0 .. Length
    BY <1>9 DEF CheckForTimeOut, Base, TypeOK
  <2>3. /\ rxLock' \in Unlocked .. MaxLock /\ txLock' \in Unlocked .. MaxLock
    BY <1>9 DEF CheckForTimeOut, Base, TypeOK
  <2>4. /\ toReceive' \in Seq(Tasks) /\ toSend' \in Seq(Tasks)
        /\ ready' \in [Cores -> SUBSET Tasks] /\ delayed' \in [Cores -> SUBSET Tasks]
        /\ pending' \in [Cores -> SUBSET Tasks]
    BY <1>9 DEF CheckForTimeOut, Base, TypeOK
  <2>5. /\ suspended' \in [Cores -> BOOLEAN] /\ running' \in [Cores -> Tasks \cup {NoTask}]
    BY <1>9 DEF CheckForTimeOut, Base, TypeOK
  <2>6. QED
    BY <2>1, <2>2, <2>3, <2>4, <2>5, Assembled
<1>10. ASSUME NEW c \in Cores, NEW t \in Tasks, CheckQueue(c, t) PROVE Base'
  <2>1. /\ pc' \in [Tasks -> Labels] /\ call' \in [Tasks -> Calls] /\ wait' \in [Tasks -> WaitKinds]
        /\ late' \in [Tasks -> BOOLEAN] /\ then' \in [Tasks -> {"try", "empty", "idle"}]
        /\ box' \in [Tasks -> Items] /\ \A u \in Tasks : call'[u] = "overwrite" => Length = 1
    BY <1>10 DEF CheckQueue, Base, TypeOK, Goto, Return, Labels, WaitKinds
  <2>2. /\ storage' \in [Slots -> Items] /\ writeTo' \in Slots /\ readFrom' \in Slots
        /\ messages' \in 0 .. Length
    BY <1>10 DEF CheckQueue, Base, TypeOK
  <2>3. /\ rxLock' \in Unlocked .. MaxLock /\ txLock' \in Unlocked .. MaxLock
    BY <1>10 DEF CheckQueue, Base, TypeOK
  <2>4. /\ toReceive' \in Seq(Tasks) /\ toSend' \in Seq(Tasks)
        /\ ready' \in [Cores -> SUBSET Tasks] /\ delayed' \in [Cores -> SUBSET Tasks]
        /\ pending' \in [Cores -> SUBSET Tasks]
    BY <1>10 DEF CheckQueue, Base, TypeOK
  <2>5. /\ suspended' \in [Cores -> BOOLEAN] /\ running' \in [Cores -> Tasks \cup {NoTask}]
    BY <1>10 DEF CheckQueue, Base, TypeOK
  <2>6. QED
    BY <2>1, <2>2, <2>3, <2>4, <2>5, Assembled
<1>11. ASSUME NEW c \in Cores, NEW t \in Tasks, InsertWaiting(c, t) PROVE Base'
  <2>1. /\ toReceive' \in Seq(Tasks) /\ toSend' \in Seq(Tasks)
        /\ ready' \in [Cores -> SUBSET Tasks] /\ delayed' \in [Cores -> SUBSET Tasks]
        /\ pending' \in [Cores -> SUBSET Tasks]
    <3>1. toReceive \in Seq(Tasks) /\ toSend \in Seq(Tasks)
      BY DEF Base, TypeOK
    <3>2. Insert(toReceive, t) \in Seq(Tasks) /\ Insert(toSend, t) \in Seq(Tasks)
      BY <3>1, ListTypes
    <3>3. QED
      BY <1>11, <3>1, <3>2 DEF InsertWaiting, Base, TypeOK
  <2>2. /\ pc' \in [Tasks -> Labels] /\ call' \in [Tasks -> Calls] /\ wait' \in [Tasks -> WaitKinds]
        /\ late' \in [Tasks -> BOOLEAN] /\ then' \in [Tasks -> {"try", "empty", "idle"}]
        /\ box' \in [Tasks -> Items] /\ \A u \in Tasks : call'[u] = "overwrite" => Length = 1
    BY <1>11 DEF InsertWaiting, Base, TypeOK, Goto, Return, Labels, WaitKinds
  <2>3. /\ storage' \in [Slots -> Items] /\ writeTo' \in Slots /\ readFrom' \in Slots
        /\ messages' \in 0 .. Length
    BY <1>11 DEF InsertWaiting, Base, TypeOK
  <2>4. /\ rxLock' \in Unlocked .. MaxLock /\ txLock' \in Unlocked .. MaxLock
    BY <1>11 DEF InsertWaiting, Base, TypeOK
  <2>5. /\ suspended' \in [Cores -> BOOLEAN] /\ running' \in [Cores -> Tasks \cup {NoTask}]
    BY <1>11 DEF InsertWaiting, Base, TypeOK
  <2>6. QED
    BY <2>1, <2>2, <2>3, <2>4, <2>5, Assembled
<1>12. ASSUME NEW c \in Cores, NEW t \in Tasks, Delay(c, t) PROVE Base'
  <2>1. /\ pc' \in [Tasks -> Labels] /\ call' \in [Tasks -> Calls] /\ wait' \in [Tasks -> WaitKinds]
        /\ late' \in [Tasks -> BOOLEAN] /\ then' \in [Tasks -> {"try", "empty", "idle"}]
        /\ box' \in [Tasks -> Items] /\ \A u \in Tasks : call'[u] = "overwrite" => Length = 1
    BY <1>12 DEF Delay, Base, TypeOK, Goto, Return, Labels, WaitKinds
  <2>2. /\ storage' \in [Slots -> Items] /\ writeTo' \in Slots /\ readFrom' \in Slots
        /\ messages' \in 0 .. Length
    BY <1>12 DEF Delay, Base, TypeOK
  <2>3. /\ rxLock' \in Unlocked .. MaxLock /\ txLock' \in Unlocked .. MaxLock
    BY <1>12 DEF Delay, Base, TypeOK
  <2>4. /\ toReceive' \in Seq(Tasks) /\ toSend' \in Seq(Tasks)
        /\ ready' \in [Cores -> SUBSET Tasks] /\ delayed' \in [Cores -> SUBSET Tasks]
        /\ pending' \in [Cores -> SUBSET Tasks]
    BY <1>12 DEF Delay, Base, TypeOK
  <2>5. /\ suspended' \in [Cores -> BOOLEAN] /\ running' \in [Cores -> Tasks \cup {NoTask}]
    BY <1>12 DEF Delay, Base, TypeOK
  <2>6. QED
    BY <2>1, <2>2, <2>3, <2>4, <2>5, Assembled
<1>13. ASSUME NEW c \in Cores, NEW t \in Tasks, UnlockTx(c, t) PROVE Base'
  <2>1. /\ rxLock' \in Unlocked .. MaxLock /\ txLock' \in Unlocked .. MaxLock
    BY <1>13, QueueAssumption DEF UnlockTx, Base, TypeOK, Unlocked
  <2>2. /\ toReceive' \in Seq(Tasks) /\ toSend' \in Seq(Tasks)
        /\ ready' \in [Cores -> SUBSET Tasks] /\ delayed' \in [Cores -> SUBSET Tasks]
        /\ pending' \in [Cores -> SUBSET Tasks]
    <3>1. (IF txLock > 0 THEN txLock ELSE 0) \in Nat
      BY QueueAssumption DEF Base, TypeOK, Unlocked
    <3>2. WakeReceivers(c, IF txLock > 0 THEN txLock ELSE 0)
      BY <1>13 DEF UnlockTx
    <3>3. QED
      BY <3>1, <3>2, WakeTypes
  <2>3. /\ pc' \in [Tasks -> Labels] /\ call' \in [Tasks -> Calls] /\ wait' \in [Tasks -> WaitKinds]
        /\ late' \in [Tasks -> BOOLEAN] /\ then' \in [Tasks -> {"try", "empty", "idle"}]
        /\ box' \in [Tasks -> Items] /\ \A u \in Tasks : call'[u] = "overwrite" => Length = 1
    BY <1>13 DEF UnlockTx, Base, TypeOK, Goto, Return, Labels, WaitKinds
  <2>4. /\ storage' \in [Slots -> Items] /\ writeTo' \in Slots /\ readFrom' \in Slots
        /\ messages' \in 0 .. Length
    BY <1>13 DEF UnlockTx, Base, TypeOK
  <2>5. /\ suspended' \in [Cores -> BOOLEAN] /\ running' \in [Cores -> Tasks \cup {NoTask}]
    BY <1>13 DEF UnlockTx, Base, TypeOK
  <2>6. QED
    BY <2>1, <2>2, <2>3, <2>4, <2>5, Assembled
<1>14. ASSUME NEW c \in Cores, NEW t \in Tasks, UnlockRx(c, t) PROVE Base'
  <2>1. /\ rxLock' \in Unlocked .. MaxLock /\ txLock' \in Unlocked .. MaxLock
    BY <1>14, QueueAssumption DEF UnlockRx, Base, TypeOK, Unlocked
  <2>2. /\ toReceive' \in Seq(Tasks) /\ toSend' \in Seq(Tasks)
        /\ ready' \in [Cores -> SUBSET Tasks] /\ delayed' \in [Cores -> SUBSET Tasks]
        /\ pending' \in [Cores -> SUBSET Tasks]
    <3>1. (IF rxLock > 0 THEN rxLock ELSE 0) \in Nat
      BY QueueAssumption DEF Base, TypeOK, Unlocked
    <3>2. WakeSenders(c, IF rxLock > 0 THEN rxLock ELSE 0)
      BY <1>14 DEF UnlockRx
    <3>3. QED
      BY <3>1, <3>2, WakeTypes
  <2>3. /\ pc' \in [Tasks -> Labels] /\ call' \in [Tasks -> Calls] /\ wait' \in [Tasks -> WaitKinds]
        /\ late' \in [Tasks -> BOOLEAN] /\ then' \in [Tasks -> {"try", "empty", "idle"}]
        /\ box' \in [Tasks -> Items] /\ \A u \in Tasks : call'[u] = "overwrite" => Length = 1
    BY <1>14 DEF UnlockRx, Base, TypeOK, Goto, Return, Labels, WaitKinds
  <2>4. /\ storage' \in [Slots -> Items] /\ writeTo' \in Slots /\ readFrom' \in Slots
        /\ messages' \in 0 .. Length
    BY <1>14 DEF UnlockRx, Base, TypeOK
  <2>5. /\ suspended' \in [Cores -> BOOLEAN] /\ running' \in [Cores -> Tasks \cup {NoTask}]
    BY <1>14 DEF UnlockRx, Base, TypeOK
  <2>6. QED
    BY <2>1, <2>2, <2>3, <2>4, <2>5, Assembled
<1>15. ASSUME NEW c \in Cores, NEW t \in Tasks, ResumeAll(c, t) PROVE Base'
  <2>1. /\ toReceive' \in Seq(Tasks) /\ toSend' \in Seq(Tasks)
        /\ ready' \in [Cores -> SUBSET Tasks] /\ delayed' \in [Cores -> SUBSET Tasks]
        /\ pending' \in [Cores -> SUBSET Tasks]
    BY <1>15 DEF ResumeAll, AddReady, Base, TypeOK
  <2>2. /\ pc' \in [Tasks -> Labels] /\ call' \in [Tasks -> Calls] /\ wait' \in [Tasks -> WaitKinds]
        /\ late' \in [Tasks -> BOOLEAN] /\ then' \in [Tasks -> {"try", "empty", "idle"}]
        /\ box' \in [Tasks -> Items] /\ \A u \in Tasks : call'[u] = "overwrite" => Length = 1
    BY <1>15 DEF ResumeAll, Base, TypeOK, Goto, Return, Labels, WaitKinds
  <2>3. /\ storage' \in [Slots -> Items] /\ writeTo' \in Slots /\ readFrom' \in Slots
        /\ messages' \in 0 .. Length
    BY <1>15 DEF ResumeAll, Base, TypeOK
  <2>4. /\ rxLock' \in Unlocked .. MaxLock /\ txLock' \in Unlocked .. MaxLock
    BY <1>15 DEF ResumeAll, Base, TypeOK
  <2>5. /\ suspended' \in [Cores -> BOOLEAN] /\ running' \in [Cores -> Tasks \cup {NoTask}]
    BY <1>15 DEF ResumeAll, Base, TypeOK
  <2>6. QED
    BY <2>1, <2>2, <2>3, <2>4, <2>5, Assembled
<1>16. ASSUME NEW c \in Cores, NEW t \in Tasks, LastLook(c, t) PROVE Base'
  <2>1. /\ pc' \in [Tasks -> Labels] /\ call' \in [Tasks -> Calls] /\ wait' \in [Tasks -> WaitKinds]
        /\ late' \in [Tasks -> BOOLEAN] /\ then' \in [Tasks -> {"try", "empty", "idle"}]
        /\ box' \in [Tasks -> Items] /\ \A u \in Tasks : call'[u] = "overwrite" => Length = 1
    BY <1>16 DEF LastLook, Base, TypeOK, Goto, Return, Labels, WaitKinds
  <2>2. /\ storage' \in [Slots -> Items] /\ writeTo' \in Slots /\ readFrom' \in Slots
        /\ messages' \in 0 .. Length
    BY <1>16 DEF LastLook, Base, TypeOK
  <2>3. /\ rxLock' \in Unlocked .. MaxLock /\ txLock' \in Unlocked .. MaxLock
    BY <1>16 DEF LastLook, Base, TypeOK
  <2>4. /\ toReceive' \in Seq(Tasks) /\ toSend' \in Seq(Tasks)
        /\ ready' \in [Cores -> SUBSET Tasks] /\ delayed' \in [Cores -> SUBSET Tasks]
        /\ pending' \in [Cores -> SUBSET Tasks]
    BY <1>16 DEF LastLook, Base, TypeOK
  <2>5. /\ suspended' \in [Cores -> BOOLEAN] /\ running' \in [Cores -> Tasks \cup {NoTask}]
    BY <1>16 DEF LastLook, Base, TypeOK
  <2>6. QED
    BY <2>1, <2>2, <2>3, <2>4, <2>5, Assembled
<1>17. ASSUME NEW c \in Cores, NEW t \in Tasks, Dispatch(c, t) PROVE Base'
  <2>1. /\ storage' \in [Slots -> Items] /\ writeTo' \in Slots /\ readFrom' \in Slots
        /\ messages' \in 0 .. Length
    BY <1>17 DEF Dispatch, Base, TypeOK
  <2>2. /\ rxLock' \in Unlocked .. MaxLock /\ txLock' \in Unlocked .. MaxLock
    BY <1>17 DEF Dispatch, Base, TypeOK
  <2>3. /\ toReceive' \in Seq(Tasks) /\ toSend' \in Seq(Tasks)
        /\ ready' \in [Cores -> SUBSET Tasks] /\ delayed' \in [Cores -> SUBSET Tasks]
        /\ pending' \in [Cores -> SUBSET Tasks]
    BY <1>17 DEF Dispatch, Base, TypeOK
  <2>4. /\ suspended' \in [Cores -> BOOLEAN] /\ running' \in [Cores -> Tasks \cup {NoTask}]
    BY <1>17 DEF Dispatch, Base, TypeOK
  <2>5. /\ pc' \in [Tasks -> Labels] /\ call' \in [Tasks -> Calls] /\ wait' \in [Tasks -> WaitKinds]
        /\ late' \in [Tasks -> BOOLEAN] /\ then' \in [Tasks -> {"try", "empty", "idle"}]
        /\ box' \in [Tasks -> Items] /\ \A u \in Tasks : call'[u] = "overwrite" => Length = 1
    BY <1>17 DEF Dispatch, Base, TypeOK
  <2>6. QED
    BY <2>1, <2>2, <2>3, <2>4, <2>5, Assembled
<1>18. ASSUME NEW c \in Cores, NEW t \in Tasks, Elapse(c, t) PROVE Base'
  <2>1. /\ pc' \in [Tasks -> Labels] /\ call' \in [Tasks -> Calls] /\ wait' \in [Tasks -> WaitKinds]
        /\ late' \in [Tasks -> BOOLEAN] /\ then' \in [Tasks -> {"try", "empty", "idle"}]
        /\ box' \in [Tasks -> Items] /\ \A u \in Tasks : call'[u] = "overwrite" => Length = 1
    BY <1>18 DEF Elapse, Base, TypeOK, Goto, Return, Labels, WaitKinds
  <2>2. /\ storage' \in [Slots -> Items] /\ writeTo' \in Slots /\ readFrom' \in Slots
        /\ messages' \in 0 .. Length
    BY <1>18 DEF Elapse, Base, TypeOK
  <2>3. /\ rxLock' \in Unlocked .. MaxLock /\ txLock' \in Unlocked .. MaxLock
    BY <1>18 DEF Elapse, Base, TypeOK
  <2>4. /\ toReceive' \in Seq(Tasks) /\ toSend' \in Seq(Tasks)
        /\ ready' \in [Cores -> SUBSET Tasks] /\ delayed' \in [Cores -> SUBSET Tasks]
        /\ pending' \in [Cores -> SUBSET Tasks]
    BY <1>18 DEF Elapse, Base, TypeOK
  <2>5. /\ suspended' \in [Cores -> BOOLEAN] /\ running' \in [Cores -> Tasks \cup {NoTask}]
    BY <1>18 DEF Elapse, Base, TypeOK
  <2>6. QED
    BY <2>1, <2>2, <2>3, <2>4, <2>5, Assembled
<1>19. ASSUME NEW c \in Cores, NEW t \in Tasks, Expire(c, t) PROVE Base'
  <2>1. /\ toReceive' \in Seq(Tasks) /\ toSend' \in Seq(Tasks)
        /\ ready' \in [Cores -> SUBSET Tasks] /\ delayed' \in [Cores -> SUBSET Tasks]
        /\ pending' \in [Cores -> SUBSET Tasks]
    <3>1. toReceive \in Seq(Tasks) /\ toSend \in Seq(Tasks)
      BY DEF Base, TypeOK
    <3>2. Unlink(toReceive, t) \in Seq(Tasks) /\ Unlink(toSend, t) \in Seq(Tasks)
      BY <3>1, ListTypes
    <3>3. QED
      BY <1>19, <3>2 DEF Expire, AddReady, Base, TypeOK
  <2>2. /\ pc' \in [Tasks -> Labels] /\ call' \in [Tasks -> Calls] /\ wait' \in [Tasks -> WaitKinds]
        /\ late' \in [Tasks -> BOOLEAN] /\ then' \in [Tasks -> {"try", "empty", "idle"}]
        /\ box' \in [Tasks -> Items] /\ \A u \in Tasks : call'[u] = "overwrite" => Length = 1
    BY <1>19 DEF Expire, Base, TypeOK, Goto, Return, Labels, WaitKinds
  <2>3. /\ storage' \in [Slots -> Items] /\ writeTo' \in Slots /\ readFrom' \in Slots
        /\ messages' \in 0 .. Length
    BY <1>19 DEF Expire, Base, TypeOK
  <2>4. /\ rxLock' \in Unlocked .. MaxLock /\ txLock' \in Unlocked .. MaxLock
    BY <1>19 DEF Expire, Base, TypeOK
  <2>5. /\ suspended' \in [Cores -> BOOLEAN] /\ running' \in [Cores -> Tasks \cup {NoTask}]
    BY <1>19 DEF Expire, Base, TypeOK
  <2>6. QED
    BY <2>1, <2>2, <2>3, <2>4, <2>5, Assembled
<1>20. ASSUME NEW c \in Cores, SendFromISR(c) PROVE Base'
  <2>1. /\ storage' \in [Slots -> Items] /\ writeTo' \in Slots /\ readFrom' \in Slots
        /\ messages' \in 0 .. Length
    <3>1. PICK x \in Items, position \in {"back", "front"} : CopyIn(x, position)
      BY <1>20 DEF SendFromISR
    <3>2. position \in Sends /\ messages < Length
      BY <1>20 DEF SendFromISR, Sends
    <3>3. QED
      BY <3>1, <3>2, CopyTypes, QueueAssumption
  <2>2. /\ rxLock' \in Unlocked .. MaxLock /\ txLock' \in Unlocked .. MaxLock
    BY <1>20, QueueAssumption DEF SendFromISR, Base, TypeOK, Unlocked
  <2>3. /\ toReceive' \in Seq(Tasks) /\ toSend' \in Seq(Tasks)
        /\ ready' \in [Cores -> SUBSET Tasks] /\ delayed' \in [Cores -> SUBSET Tasks]
        /\ pending' \in [Cores -> SUBSET Tasks]
    <3>1. CASE txLock = Unlocked
      BY <1>20, <3>1, WakeTypes DEF SendFromISR
    <3>2. CASE txLock # Unlocked
      BY <1>20, <3>2 DEF SendFromISR, Base, TypeOK
    <3>3. QED
      BY <3>1, <3>2
  <2>4. /\ pc' \in [Tasks -> Labels] /\ call' \in [Tasks -> Calls] /\ wait' \in [Tasks -> WaitKinds]
        /\ late' \in [Tasks -> BOOLEAN] /\ then' \in [Tasks -> {"try", "empty", "idle"}]
        /\ box' \in [Tasks -> Items] /\ \A u \in Tasks : call'[u] = "overwrite" => Length = 1
    BY <1>20 DEF SendFromISR, Base, TypeOK, Goto, Return, Labels, WaitKinds
  <2>5. /\ suspended' \in [Cores -> BOOLEAN] /\ running' \in [Cores -> Tasks \cup {NoTask}]
    BY <1>20 DEF SendFromISR, Base, TypeOK
  <2>6. QED
    BY <2>1, <2>2, <2>3, <2>4, <2>5, Assembled
<1>21. ASSUME NEW c \in Cores, ReceiveFromISR(c) PROVE Base'
  <2>1. /\ storage' \in [Slots -> Items] /\ writeTo' \in Slots /\ readFrom' \in Slots
        /\ messages' \in 0 .. Length
    <3>1. /\ storage \in [Slots -> Items] /\ writeTo \in Slots /\ readFrom \in Slots
          /\ messages \in 0 .. Length /\ messages > 0
      BY <1>21 DEF ReceiveFromISR, Base, TypeOK
    <3>2. Up(readFrom) \in Slots /\ messages - 1 \in 0 .. Length
      BY <3>1, QueueAssumption DEF Up, Slots
    <3>3. QED
      BY <1>21, <3>1, <3>2 DEF ReceiveFromISR, CopyOut
  <2>2. /\ rxLock' \in Unlocked .. MaxLock /\ txLock' \in Unlocked .. MaxLock
    BY <1>21, QueueAssumption DEF ReceiveFromISR, Base, TypeOK, Unlocked
  <2>3. /\ toReceive' \in Seq(Tasks) /\ toSend' \in Seq(Tasks)
        /\ ready' \in [Cores -> SUBSET Tasks] /\ delayed' \in [Cores -> SUBSET Tasks]
        /\ pending' \in [Cores -> SUBSET Tasks]
    <3>1. CASE rxLock = Unlocked
      BY <1>21, <3>1, WakeTypes DEF ReceiveFromISR
    <3>2. CASE rxLock # Unlocked
      BY <1>21, <3>2 DEF ReceiveFromISR, Base, TypeOK
    <3>3. QED
      BY <3>1, <3>2
  <2>4. /\ pc' \in [Tasks -> Labels] /\ call' \in [Tasks -> Calls] /\ wait' \in [Tasks -> WaitKinds]
        /\ late' \in [Tasks -> BOOLEAN] /\ then' \in [Tasks -> {"try", "empty", "idle"}]
        /\ box' \in [Tasks -> Items] /\ \A u \in Tasks : call'[u] = "overwrite" => Length = 1
    BY <1>21 DEF ReceiveFromISR, Base, TypeOK, Goto, Return, Labels, WaitKinds
  <2>5. /\ suspended' \in [Cores -> BOOLEAN] /\ running' \in [Cores -> Tasks \cup {NoTask}]
    BY <1>21 DEF ReceiveFromISR, Base, TypeOK
  <2>6. QED
    BY <2>1, <2>2, <2>3, <2>4, <2>5, Assembled
<1>22. CASE UNCHANGED vars
  BY <1>22 DEF Base, TypeOK
<1>23. QED
  BY <1>1, <1>2, <1>3, <1>4, <1>5, <1>6, <1>7, <1>8, <1>9, <1>10, <1>11,
    <1>12, <1>13, <1>14, <1>15, <1>16, <1>17, <1>18, <1>19, <1>20, <1>21,
    <1>22
    DEF Next, Step

(* Positions go round the ring. *)
LEMMA Rounds ==
    ASSUME NEW k \in 0 .. 3 * Length - 1
    PROVE  k % Length = IF k < Length THEN k
                        ELSE IF k < 2 * Length THEN k - Length ELSE k - 2 * Length
BY QueueAssumption

(* What the ring holds *)
LEMMA Held ==
    ASSUME NEW s \in [Slots -> Items], NEW r \in Slots, NEW m \in 0 .. Length
    PROVE  LET b == [i \in 1 .. m |-> s[(r + i) % Length]] IN
           /\ b \in Seq(Items) /\ Len(b) = m
           /\ \A i \in 1 .. m : b[i] = s[(r + i) % Length]
<1> USE QueueAssumption
<1> DEFINE b == [i \in 1 .. m |-> s[(r + i) % Length]]
<1>1. \A i \in 1 .. m : (r + i) % Length \in Slots
  BY DEF Slots
<1>2. \A i \in 1 .. m : s[(r + i) % Length] \in Items
  BY <1>1
<1>3. b \in [1 .. m -> Items]
  BY <1>2
<1>4. QED
  BY <1>3

LEMMA Contents ==
    /\ Base => /\ contents \in Seq(Items) /\ Len(contents) = messages
               /\ \A i \in 1 .. messages : contents[i] = storage[(readFrom + i) % Length]
    /\ Base' => /\ contents' \in Seq(Items) /\ Len(contents') = messages'
                /\ \A i \in 1 .. messages' : contents'[i] = storage'[(readFrom' + i) % Length]
<1>1. ASSUME Base
      PROVE  /\ contents \in Seq(Items) /\ Len(contents) = messages
             /\ \A i \in 1 .. messages : contents[i] = storage[(readFrom + i) % Length]
  <2>1. storage \in [Slots -> Items] /\ readFrom \in Slots /\ messages \in 0 .. Length
    BY <1>1 DEF Base, TypeOK
  <2>2. QED
    BY <2>1, Held DEF contents
<1>2. ASSUME Base'
      PROVE  /\ contents' \in Seq(Items) /\ Len(contents') = messages'
             /\ \A i \in 1 .. messages' : contents'[i] = storage'[(readFrom' + i) % Length]
  <2>1. storage' \in [Slots -> Items] /\ readFrom' \in Slots /\ messages' \in 0 .. Length
    BY <1>2 DEF Base, TypeOK
  <2>2. QED
    BY <2>1, Held DEF contents
<1>3. QED
  BY <1>1, <1>2

(* Two sequences with the same items are one. *)
LEMMA Same ==
    ASSUME NEW x \in Seq(Items), NEW y \in Seq(Items), Len(x) = Len(y),
           \A i \in 1 .. Len(x) : x[i] = y[i]
    PROVE  x = y
OBVIOUS

(* A copy into the ring puts the item where it is meant to go. *)
LEMMA CopyInMoves ==
    ASSUME Base, Ringed, Base', NEW x \in Items, NEW position \in Sends, CopyIn(x, position),
           position = "overwrite" => Length = 1, position # "overwrite" => messages < Length
    PROVE  /\ Ringed'
           /\ \/ messages < Length /\ contents' = Append(contents, x)
              \/ messages < Length /\ contents' = <<x>> \o contents
              \/ Length = 1 /\ contents' = <<x>>
<1> USE QueueAssumption
<1>1. /\ storage \in [Slots -> Items] /\ writeTo \in 0 .. Length - 1 /\ readFrom \in 0 .. Length - 1
      /\ messages \in 0 .. Length /\ Length \in Nat \ {0}
  BY DEF Base, TypeOK, Slots
<1>2. /\ contents \in Seq(Items) /\ Len(contents) = messages
      /\ \A i \in 1 .. messages : contents[i] = storage[(readFrom + i) % Length]
  BY Contents
<1>3. /\ contents' \in Seq(Items) /\ Len(contents') = messages'
      /\ \A i \in 1 .. messages' : contents'[i] = storage'[(readFrom' + i) % Length]
  BY Contents
<1>4. CASE position = "back"
  <2>1. /\ storage' = [storage EXCEPT ![writeTo] = x] /\ writeTo' = Up(writeTo)
        /\ messages' = messages + 1 /\ readFrom' = readFrom /\ messages < Length
    BY <1>4 DEF CopyIn
  <2>2. writeTo = (readFrom + messages + 1) % Length
    BY DEF Ringed
  <2>3. writeTo' = (readFrom' + messages' + 1) % Length
    <3>1. /\ (readFrom + messages + 1) \in 0 .. 3 * Length - 1
          /\ (readFrom + messages + 2) \in 0 .. 3 * Length - 1
      BY <1>1, <2>1
    <3>2. readFrom' + messages' + 1 = readFrom + messages + 2
      BY <1>1, <2>1
    <3>3. QED
      BY <1>1, <2>1, <2>2, <3>1, <3>2, Rounds DEF Up
  <2>4. \A i \in 1 .. messages :
          (readFrom + i) % Length \in 0 .. Length - 1 /\ (readFrom + i) % Length # writeTo
    <3>1. (readFrom + messages + 1) \in 0 .. 3 * Length - 1
      BY <1>1
    <3>2. \A i \in 1 .. messages : (readFrom + i) \in 0 .. 3 * Length - 1
      BY <1>1
    <3>3. QED
      BY SMTT(30), <1>1, <2>1, <2>2, <3>1, <3>2, Rounds
  <2>5. \A i \in 1 .. messages : contents'[i] = contents[i]
    BY <1>1, <1>2, <1>3, <2>1, <2>4 DEF Slots
  <2>6. contents'[messages + 1] = x
    <3>1. readFrom' + (messages + 1) = readFrom + messages + 1 /\ messages + 1 \in 1 .. messages'
      BY <1>1, <2>1
    <3>2. storage'[writeTo] = x
      BY <1>1, <2>1 DEF Slots
    <3>3. QED
      BY <1>3, <2>2, <3>1, <3>2
  <2> DEFINE y == Append(contents, x)
             z == contents'
  <2>7. y \in Seq(Items) /\ Len(y) = messages + 1 /\ y[messages + 1] = x
        /\ \A i \in 1 .. messages : y[i] = contents[i]
    BY <1>1, <1>2
  <2>8. /\ z \in Seq(Items) /\ Len(z) = messages + 1
        /\ \A i \in 1 .. messages : z[i] = contents[i]
        /\ z[messages + 1] = x
    BY <1>3, <2>1, <2>5, <2>6
  <2> HIDE DEF y, z
  <2>9. z = y
    <3>1. \A i \in 1 .. messages + 1 : z[i] = y[i]
      BY <1>1, <2>7, <2>8
    <3>2. QED
      BY <2>7, <2>8, <3>1, Same
  <2>10. QED
    BY <2>1, <2>3, <2>9 DEF Ringed, y, z
<1>5. CASE position # "back" /\ ~(position = "overwrite" /\ messages > 0)
  <2>1. /\ storage' = [storage EXCEPT ![readFrom] = x] /\ readFrom' = Down(readFrom)
        /\ messages' = messages + 1 /\ writeTo' = writeTo /\ messages < Length
    BY <1>1, <1>5 DEF CopyIn, Sends
  <2>2. readFrom' = IF readFrom = 0 THEN Length - 1 ELSE readFrom - 1
    BY <1>1, <2>1 DEF Down
  <2>3. writeTo' = (readFrom' + messages' + 1) % Length
    <3>1. /\ (readFrom + messages + 1) \in 0 .. 3 * Length - 1
          /\ (readFrom' + messages + 2) \in 0 .. 3 * Length - 1
      BY <1>1, <2>1, <2>2
    <3>2. readFrom' + messages' + 1 = readFrom' + messages + 2
      BY <1>1, <2>1, <2>2
    <3>3. writeTo = (readFrom + messages + 1) % Length
      BY DEF Ringed
    <3>4. (readFrom' + messages + 2) % Length = (readFrom + messages + 1) % Length
      BY <1>1, <2>1, <2>2, <3>1, Rounds
    <3>5. QED
      BY <2>1, <3>2, <3>3, <3>4
  <2>4. (readFrom' + 1) % Length = readFrom
    <3>1. readFrom' + 1 \in 0 .. 3 * Length - 1
      BY <1>1, <2>2
    <3>2. QED
      BY <1>1, <2>2, <3>1, Rounds
  <2>5. ASSUME NEW i \in 1 .. messages
        PROVE  /\ (readFrom' + (i + 1)) % Length = (readFrom + i) % Length
               /\ (readFrom + i) % Length \in 0 .. Length - 1 /\ (readFrom + i) % Length # readFrom
    <3>1. readFrom' + (i + 1) \in 0 .. 3 * Length - 1 /\ readFrom + i \in 0 .. 3 * Length - 1
      BY <1>1, <2>2
    <3>2. QED
      BY <1>1, <2>1, <2>2, <3>1, Rounds
  <2>6. ASSUME NEW i \in 1 .. messages PROVE contents'[i + 1] = contents[i]
    <3>1. i + 1 \in 1 .. messages'
      BY <1>1, <2>1
    <3>2. storage'[(readFrom + i) % Length] = storage[(readFrom + i) % Length]
      BY <1>1, <2>1, <2>5 DEF Slots
    <3>3. QED
      BY <1>2, <1>3, <2>5, <3>1, <3>2
  <2>7. contents'[1] = x
    <3>1. 1 \in 1 .. messages' /\ storage'[readFrom] = x
      BY <1>1, <2>1 DEF Slots
    <3>2. QED
      BY <1>3, <2>4, <3>1
  <2> DEFINE y == <<x>> \o contents
             z == contents'
  <2>8. /\ y \in Seq(Items) /\ Len(y) = messages + 1 /\ y[1] = x
        /\ \A i \in 1 .. messages : y[i + 1] = contents[i]
    BY <1>1, <1>2
  <2>9. /\ z \in Seq(Items) /\ Len(z) = messages + 1 /\ z[1] = x
        /\ \A i \in 1 .. messages : z[i + 1] = contents[i]
    BY <1>3, <2>1, <2>6, <2>7
  <2> HIDE DEF y, z
  <2>10. z = y
    <3>1. ASSUME NEW i \in 1 .. messages + 1, i # 1 PROVE z[i] = y[i]
      <4>1. i - 1 \in 1 .. messages /\ (i - 1) + 1 = i
        BY <1>1, <3>1
      <4>2. QED
        BY <2>8, <2>9, <4>1
    <3>2. \A i \in 1 .. messages + 1 : z[i] = y[i]
      BY <2>8, <2>9, <3>1
    <3>3. QED
      BY <2>8, <2>9, <3>2, Same
  <2>11. QED
    BY <2>1, <2>3, <2>10 DEF Ringed, y, z
<1>6. CASE position = "overwrite" /\ messages > 0
  <2>1. Length = 1 /\ messages = 1 /\ readFrom = 0 /\ writeTo = 0
    BY <1>1, <1>6
  <2>2. storage' = [storage EXCEPT ![0] = x] /\ readFrom' = 0 /\ messages' = 1 /\ writeTo' = 0
    BY <1>1, <1>6, <2>1 DEF CopyIn, Down
  <2>3. Ringed'
    BY <2>1, <2>2 DEF Ringed
  <2>4. storage'[0] = x /\ (readFrom' + 1) % Length = 0
    BY <1>1, <2>1, <2>2 DEF Slots
  <2>5. contents'[1] = x
    BY <1>3, <2>2, <2>4
  <2> DEFINE z == contents'
  <2>6. z \in Seq(Items) /\ Len(z) = 1 /\ z[1] = x
    BY <1>3, <2>2, <2>5
  <2> HIDE DEF z
  <2>7. z = <<x>>
    BY <2>6, Same
  <2>8. QED
    BY <2>1, <2>3, <2>7 DEF z
<1>7. QED
  BY <1>4, <1>5, <1>6

(* A copy out of the ring takes the first item. *)
LEMMA CopyOutMoves ==
    ASSUME Base, Base', Ringed, CopyOut, messages > 0
    PROVE  Ringed' /\ contents' = Tail(contents)
<1> USE QueueAssumption
<1>1. /\ writeTo \in 0 .. Length - 1 /\ readFrom \in 0 .. Length - 1
      /\ messages \in 0 .. Length /\ Length \in Nat \ {0}
  BY DEF Base, TypeOK, Slots
<1>2. /\ contents \in Seq(Items) /\ Len(contents) = messages
      /\ \A i \in 1 .. messages : contents[i] = storage[(readFrom + i) % Length]
  BY Contents
<1>3. /\ contents' \in Seq(Items) /\ Len(contents') = messages'
      /\ \A i \in 1 .. messages' : contents'[i] = storage'[(readFrom' + i) % Length]
  BY Contents
<1>4. /\ readFrom' = IF readFrom + 1 >= Length THEN 0 ELSE readFrom + 1
      /\ messages' = messages - 1 /\ storage' = storage /\ writeTo' = writeTo
  BY DEF CopyOut, Up
<1>5. ASSUME NEW i \in 0 .. Length
      PROVE  (readFrom' + i) % Length = (readFrom + (i + 1)) % Length
  <2>1. readFrom' + i \in 0 .. 3 * Length - 1 /\ readFrom + (i + 1) \in 0 .. 3 * Length - 1
    BY <1>1, <1>4
  <2>2. QED
    BY <1>1, <1>4, <2>1, Rounds
<1>6. Ringed'
  <2>1. writeTo = (readFrom + messages + 1) % Length
    BY DEF Ringed
  <2>2. /\ readFrom' + messages' + 1 = readFrom' + messages
        /\ readFrom + messages + 1 = readFrom + (messages + 1)
    BY <1>1, <1>4
  <2>3. QED
    BY <1>1, <1>4, <1>5, <2>1, <2>2 DEF Ringed
<1>7. ASSUME NEW i \in 1 .. messages - 1 PROVE contents'[i] = contents[i + 1]
  <2>1. i \in 1 .. messages' /\ i + 1 \in 1 .. messages /\ i \in 0 .. Length
    BY <1>1, <1>4
  <2>2. contents'[i] = storage[(readFrom' + i) % Length]
    BY <1>3, <1>4, <2>1
  <2>3. contents[i + 1] = storage[(readFrom + (i + 1)) % Length]
    BY <1>2, <2>1
  <2>4. QED
    BY <1>5, <2>1, <2>2, <2>3
<1> DEFINE y == Tail(contents)
           z == contents'
<1>8. /\ y \in Seq(Items) /\ Len(y) = messages - 1
      /\ \A i \in 1 .. messages - 1 : y[i] = contents[i + 1]
  BY <1>1, <1>2
<1>9. z \in Seq(Items) /\ Len(z) = messages - 1 /\ \A i \in 1 .. messages - 1 : z[i] = contents[i + 1]
  BY <1>3, <1>4, <1>7
<1> HIDE DEF y, z
<1>10. z = y
  BY <1>1, <1>8, <1>9, Same
<1>11. QED
  BY <1>6, <1>10 DEF y, z

(* The item a receiver is given is the first one. *)
LEMMA FirstItem ==
    ASSUME Base, messages > 0
    PROVE  contents # <<>> /\ Head(contents) = storage[Up(readFrom)]
<1>1. /\ readFrom \in 0 .. Length - 1 /\ messages \in 0 .. Length /\ Length \in Nat \ {0}
  BY QueueAssumption DEF Base, TypeOK, Slots
<1>2. /\ contents \in Seq(Items) /\ Len(contents) = messages
      /\ \A i \in 1 .. messages : contents[i] = storage[(readFrom + i) % Length]
  BY Contents
<1>3. (readFrom + 1) % Length = Up(readFrom)
  <2>1. readFrom + 1 \in 0 .. 3 * Length - 1
    BY <1>1
  <2>2. QED
    BY <1>1, <2>1, Rounds DEF Up
<1>4. 1 \in 1 .. messages
  BY <1>1
<1>5. Head(contents) = contents[1] /\ contents # <<>>
  BY <1>1, <1>2
<1>6. QED
  BY <1>2, <1>3, <1>4, <1>5

(* The ring is left alone. *)
LEMMA Stays ==
    ASSUME Ringed, UNCHANGED ring
    PROVE  /\ Ringed' /\ contents' = contents
           /\ UNCHANGED box => Ringed' /\ [Abstract!Next]_<<contents, box>>
BY DEF Ringed, contents, ring

(* The ring takes an item. *)
LEMMA Puts ==
    ASSUME Base, Ringed, Base', NEW x \in Items, NEW position \in Sends, CopyIn(x, position),
           position = "overwrite" => Length = 1, position # "overwrite" => messages < Length,
           UNCHANGED box
    PROVE  Ringed' /\ [Abstract!Next]_<<contents, box>>
<1>1. /\ Ringed'
      /\ \/ messages < Length /\ contents' = Append(contents, x)
         \/ messages < Length /\ contents' = <<x>> \o contents
         \/ Length = 1 /\ contents' = <<x>>
  BY CopyInMoves
<1>2. Len(contents) = messages
  BY Contents
<1>3. Abstract!Put(x)
  BY <1>1, <1>2 DEF Abstract!Put, Abstract!PutBack, Abstract!PutFront, Abstract!Overwrite
<1>4. QED
  BY <1>1, <1>3 DEF Abstract!Next

(* Every step of the queue is one step of the abstract queue, or none.     *)
LEMMA RefinesStep ==
    Base /\ Base' /\ Ringed /\ [Next]_vars => Ringed' /\ [Abstract!Next]_<<contents, box>>
<1> SUFFICES ASSUME Base, Base', Ringed, [Next]_vars PROVE Ringed' /\ [Abstract!Next]_<<contents, box>>
  OBVIOUS
<1> USE DEF locks, lists, sched, frame
<1>1. ASSUME NEW c \in Cores, NEW t \in Tasks, Call(c, t)
       PROVE  Ringed' /\ [Abstract!Next]_<<contents, box>>
  <2>1. UNCHANGED ring /\ box' = [box EXCEPT ![t] = Nothing] /\ Nothing \in Items
    BY <1>1, QueueAssumption DEF Call, Nothing
  <2>2. Ringed' /\ contents' = contents
    BY <2>1, Stays
  <2>3. Abstract!Reuse(t)
    BY <2>1, <2>2 DEF Abstract!Reuse
  <2>4. QED
    BY <2>2, <2>3 DEF Abstract!Next
<1>2. ASSUME NEW c \in Cores, NEW t \in Tasks, Send(c, t)
       PROVE  Ringed' /\ [Abstract!Next]_<<contents, box>>
  <2>1. PICK x \in Items : CopyIn(x, call[t])
    BY <1>2 DEF Send
  <2>2. /\ call[t] \in Sends /\ (call[t] = "overwrite" => Length = 1)
        /\ (call[t] # "overwrite" => messages < Length) /\ UNCHANGED box
    BY <1>2 DEF Send, Possible, Base, Sends
  <2>3. QED
    BY <2>1, <2>2, Puts
<1>3. ASSUME NEW c \in Cores, NEW t \in Tasks, Receive(c, t)
       PROVE  Ringed' /\ [Abstract!Next]_<<contents, box>>
  <2>1. messages > 0 /\ CopyOut /\ Fill(t)
    BY <1>3 DEF Receive, Possible
  <2>2. /\ Ringed' /\ contents' = Tail(contents)
        /\ contents # <<>> /\ box' = [box EXCEPT ![t] = Head(contents)]
    BY <2>1, CopyOutMoves, FirstItem DEF Fill
  <2>3. Abstract!Get(t)
    BY <2>2 DEF Abstract!Get, Abstract!Give
  <2>4. QED
    BY <2>2, <2>3 DEF Abstract!Next
<1>4. ASSUME NEW c \in Cores, NEW t \in Tasks, Peek(c, t)
       PROVE  Ringed' /\ [Abstract!Next]_<<contents, box>>
  <2>1. messages > 0 /\ UNCHANGED ring /\ Fill(t)
    BY <1>4 DEF Peek, Possible
  <2>2. /\ Ringed' /\ contents' = contents
        /\ contents # <<>> /\ box' = [box EXCEPT ![t] = Head(contents)]
    BY <2>1, Stays, FirstItem DEF Fill
  <2>3. Abstract!Peek(t)
    BY <2>2 DEF Abstract!Peek, Abstract!Give
  <2>4. QED
    BY <2>2, <2>3 DEF Abstract!Next
<1>5. ASSUME NEW c \in Cores, NEW t \in Tasks, Refuse(c, t)
       PROVE  Ringed' /\ [Abstract!Next]_<<contents, box>>
  <2>1. UNCHANGED <<ring, box>>
    BY <1>5 DEF Refuse
  <2>2. QED
    BY <2>1, Stays
<1>6. ASSUME NEW c \in Cores, NEW t \in Tasks, SetTimeOut(c, t)
       PROVE  Ringed' /\ [Abstract!Next]_<<contents, box>>
  <2>1. UNCHANGED <<ring, box>>
    BY <1>6 DEF SetTimeOut
  <2>2. QED
    BY <2>1, Stays
<1>7. ASSUME NEW c \in Cores, NEW t \in Tasks, SuspendAll(c, t)
       PROVE  Ringed' /\ [Abstract!Next]_<<contents, box>>
  <2>1. UNCHANGED <<ring, box>>
    BY <1>7 DEF SuspendAll
  <2>2. QED
    BY <2>1, Stays
<1>8. ASSUME NEW c \in Cores, NEW t \in Tasks, LockQueue(c, t)
       PROVE  Ringed' /\ [Abstract!Next]_<<contents, box>>
  <2>1. UNCHANGED <<ring, box>>
    BY <1>8 DEF LockQueue
  <2>2. QED
    BY <2>1, Stays
<1>9. ASSUME NEW c \in Cores, NEW t \in Tasks, CheckForTimeOut(c, t)
       PROVE  Ringed' /\ [Abstract!Next]_<<contents, box>>
  <2>1. UNCHANGED <<ring, box>>
    BY <1>9 DEF CheckForTimeOut
  <2>2. QED
    BY <2>1, Stays
<1>10. ASSUME NEW c \in Cores, NEW t \in Tasks, CheckQueue(c, t)
       PROVE  Ringed' /\ [Abstract!Next]_<<contents, box>>
  <2>1. UNCHANGED <<ring, box>>
    BY <1>10 DEF CheckQueue
  <2>2. QED
    BY <2>1, Stays
<1>11. ASSUME NEW c \in Cores, NEW t \in Tasks, InsertWaiting(c, t)
       PROVE  Ringed' /\ [Abstract!Next]_<<contents, box>>
  <2>1. UNCHANGED <<ring, box>>
    BY <1>11 DEF InsertWaiting
  <2>2. QED
    BY <2>1, Stays
<1>12. ASSUME NEW c \in Cores, NEW t \in Tasks, Delay(c, t)
       PROVE  Ringed' /\ [Abstract!Next]_<<contents, box>>
  <2>1. UNCHANGED <<ring, box>>
    BY <1>12 DEF Delay
  <2>2. QED
    BY <2>1, Stays
<1>13. ASSUME NEW c \in Cores, NEW t \in Tasks, UnlockTx(c, t)
       PROVE  Ringed' /\ [Abstract!Next]_<<contents, box>>
  <2>1. UNCHANGED <<ring, box>>
    BY <1>13 DEF UnlockTx
  <2>2. QED
    BY <2>1, Stays
<1>14. ASSUME NEW c \in Cores, NEW t \in Tasks, UnlockRx(c, t)
       PROVE  Ringed' /\ [Abstract!Next]_<<contents, box>>
  <2>1. UNCHANGED <<ring, box>>
    BY <1>14 DEF UnlockRx
  <2>2. QED
    BY <2>1, Stays
<1>15. ASSUME NEW c \in Cores, NEW t \in Tasks, ResumeAll(c, t)
       PROVE  Ringed' /\ [Abstract!Next]_<<contents, box>>
  <2>1. UNCHANGED <<ring, box>>
    BY <1>15 DEF ResumeAll
  <2>2. QED
    BY <2>1, Stays
<1>16. ASSUME NEW c \in Cores, NEW t \in Tasks, LastLook(c, t)
       PROVE  Ringed' /\ [Abstract!Next]_<<contents, box>>
  <2>1. UNCHANGED <<ring, box>>
    BY <1>16 DEF LastLook
  <2>2. QED
    BY <2>1, Stays
<1>17. ASSUME NEW c \in Cores, NEW t \in Tasks, Dispatch(c, t)
       PROVE  Ringed' /\ [Abstract!Next]_<<contents, box>>
  <2>1. UNCHANGED <<ring, box>>
    BY <1>17 DEF Dispatch
  <2>2. QED
    BY <2>1, Stays
<1>18. ASSUME NEW c \in Cores, NEW t \in Tasks, Elapse(c, t)
       PROVE  Ringed' /\ [Abstract!Next]_<<contents, box>>
  <2>1. UNCHANGED <<ring, box>>
    BY <1>18 DEF Elapse
  <2>2. QED
    BY <2>1, Stays
<1>19. ASSUME NEW c \in Cores, NEW t \in Tasks, Expire(c, t)
       PROVE  Ringed' /\ [Abstract!Next]_<<contents, box>>
  <2>1. UNCHANGED <<ring, box>>
    BY <1>19 DEF Expire
  <2>2. QED
    BY <2>1, Stays
<1>20. ASSUME NEW c \in Cores, SendFromISR(c)
       PROVE  Ringed' /\ [Abstract!Next]_<<contents, box>>
  <2>1. PICK x \in Items, position \in {"back", "front"} : CopyIn(x, position)
    BY <1>20 DEF SendFromISR
  <2>2. position \in Sends \ {"overwrite"} /\ messages < Length /\ UNCHANGED box
    BY <1>20 DEF SendFromISR, Sends
  <2>3. QED
    BY <2>1, <2>2, Puts
<1>21. ASSUME NEW c \in Cores, ReceiveFromISR(c)
       PROVE  Ringed' /\ [Abstract!Next]_<<contents, box>>
  <2>1. messages > 0 /\ CopyOut /\ UNCHANGED box
    BY <1>21 DEF ReceiveFromISR
  <2>2. Ringed' /\ contents' = Tail(contents) /\ contents # <<>>
    BY <2>1, CopyOutMoves, FirstItem
  <2>3. Abstract!Drop
    BY <2>1, <2>2 DEF Abstract!Drop
  <2>4. QED
    BY <2>2, <2>3 DEF Abstract!Next
<1>22. CASE UNCHANGED vars
  BY <1>22, Stays DEF vars
<1>23. QED
  BY <1>1, <1>2, <1>3, <1>4, <1>5, <1>6, <1>7, <1>8, <1>9, <1>10, <1>11,
    <1>12, <1>13, <1>14, <1>15, <1>16, <1>17, <1>18, <1>19, <1>20, <1>21,
    <1>22
    DEF Next, Step

(* The ring of queue.c, its indices and its count are a bounded first-in   *)
(* first-out sequence, with handlers on one core, or used by tasks alone   *)
(* on any number of them.                                                  *)
THEOREM RefinesBoundedQueueCorrect == Spec => RefinesBoundedQueue
<1>1. Init => Base /\ Ringed /\ Abstract!Init
  <2> SUFFICES ASSUME Init PROVE Base /\ Ringed /\ Abstract!Init
    OBVIOUS
  <2>1. Base
    <3>1. Nothing \in Items /\ 0 \in Slots /\ Length - 1 \in Slots /\ 0 \in 0 .. Length
      BY QueueAssumption DEF Nothing, Slots
    <3>2. Unlocked \in Unlocked .. MaxLock /\ <<>> \in Seq(Tasks)
      BY QueueAssumption DEF Unlocked
    <3>3. QED
      BY <3>1, <3>2 DEF Init, Base, TypeOK, Labels, WaitKinds, Calls
  <2>2. Ringed
    <3>1. Length \in 0 .. 3 * Length - 1 /\ Length - 1 + 0 + 1 = Length
      BY QueueAssumption
    <3>2. Length % Length = 0
      BY <3>1, QueueAssumption, Rounds
    <3>3. QED
      BY <3>1, <3>2 DEF Init, Ringed
  <2>3. contents = <<>> /\ box \in [Tasks -> Items]
    <3>1. Len(contents) = 0 /\ contents \in Seq(Items)
      BY <2>1, Contents DEF Init
    <3>2. QED
      BY <2>1, <3>1 DEF Base, TypeOK
  <2>4. QED
    BY <2>1, <2>2, <2>3 DEF Abstract!Init
<1>2. Base /\ Ringed /\ [Next]_vars => Base' /\ Ringed' /\ [Abstract!Next]_<<contents, box>>
  BY TypeStep, RefinesStep
<1>3. [Abstract!Next]_<<contents, box>> => [Abstract!Next]_Abstract!vars
  BY DEF Abstract!vars
<1>4. QED
  BY <1>1, <1>2, <1>3, PTL DEF Spec, RefinesBoundedQueue, Abstract!Spec

-----------------------------------------------------------------------------
(* One core from here on. Where a task is in its call says who else may be *)
(* in the middle of one, and what is locked.                               *)
LEMMA AtMoves ==
    ASSUME QueueInv, SingleCore, NEW c \in Cores, NEW t \in Tasks, NEW l, At(c, t, l)
    PROVE  /\ pc[t] = l /\ running[c] = t
           /\ l \in Busy => suspended[c] /\ \A u \in Tasks : pc[u] \in Busy => u = t
           /\ l \notin Busy => /\ ~suspended[c] /\ t \notin delayed[c] /\ pending[c] = {}
                               /\ \A u \in Tasks : pc[u] \notin Busy
                               /\ ~Listed(t) /\ rxLock = Unlocked /\ txLock = Unlocked
<1>1. pc[t] = l /\ running[c] = t /\ (suspended[c] \/ t \in ready[c])
  BY DEF At
<1>2. Exclusive /\ Locked /\ States /\ Events
  BY DEF QueueInv
<1>3. ASSUME l \in Busy PROVE suspended[c] /\ \A u \in Tasks : pc[u] \in Busy => u = t
  BY <1>1, <1>2, <1>3 DEF Exclusive
<1>4. ASSUME l \notin Busy
      PROVE  /\ ~suspended[c] /\ t \notin delayed[c] /\ pending[c] = {}
             /\ \A u \in Tasks : pc[u] \notin Busy
             /\ ~Listed(t) /\ rxLock = Unlocked /\ txLock = Unlocked
  <2>1. ~suspended[c] /\ \A u \in Tasks : pc[u] \notin Busy
    BY <1>1, <1>2, <1>4 DEF Exclusive
  <2>2. t \notin delayed[c] /\ pending[c] = {}
    BY <1>1, <1>2, <2>1 DEF States
  <2>3. ~Listed(t)
    BY <1>1, <1>2, <1>4, <2>2 DEF Events, Busy
  <2>4. rxLock = Unlocked /\ txLock = Unlocked
    BY <1>2, <2>1 DEF Locked, Locking, Busy
  <2>5. QED
    BY <2>1, <2>2, <2>3, <2>4
<1>5. QED
  BY <1>1, <1>3, <1>4

(* What a wake-up of the tasks of woken means for the lists of the         *)
(* scheduler: they are no longer delayed, or pending.                      *)
Wakes(c, woken) ==
    /\ pending'[c] \subseteq delayed'[c] /\ ready'[c] = Tasks \ delayed'[c]
    /\ delayed'[c] \subseteq delayed[c]
    /\ ~suspended[c] => pending'[c] = {}
    /\ delayed'[c] \ pending'[c] = (delayed[c] \ pending[c]) \ woken

LEMMA MakeReadyMoves ==
    ASSUME QueueInv, NEW c \in Cores, NEW W \in SUBSET Tasks, MakeReady(c, W),
           W \subseteq delayed[c] \ pending[c]
    PROVE  Wakes(c, W)
<1>1. /\ ready \in [Cores -> SUBSET Tasks] /\ delayed \in [Cores -> SUBSET Tasks]
      /\ pending \in [Cores -> SUBSET Tasks] /\ States
  BY DEF QueueInv, Base, TypeOK
<1>2. /\ pending[c] \subseteq delayed[c] /\ ready[c] = Tasks \ delayed[c]
      /\ (~suspended[c] => pending[c] = {})
  BY <1>1 DEF States
<1>3. CASE suspended[c]
  <2>1. pending'[c] = pending[c] \cup W /\ ready' = ready /\ delayed' = delayed
    BY <1>1, <1>3 DEF MakeReady
  <2>2. QED
    BY <1>2, <1>3, <2>1 DEF Wakes
<1>4. CASE ~suspended[c]
  <2>1. pending' = pending /\ ready'[c] = ready[c] \cup W /\ delayed'[c] = delayed[c] \ W
    BY <1>1, <1>4 DEF MakeReady, AddReady
  <2>2. QED
    BY <1>1, <1>2, <1>4, <2>1 DEF Wakes
<1>5. QED
  BY <1>3, <1>4

(* The first n waiting receivers wake up, or all, when none is between the *)
(* two lists,                                                              *)
LEMMA ReceiversWake ==
    ASSUME QueueInv, NEW c \in Cores, NEW n \in Nat, WakeReceivers(c, n),
           \A u \in Tasks : pc[u] # "delay"
    PROVE  \E W \in SUBSET Tasks :
             /\ Wakes(c, W) /\ W \subseteq ToSet(toReceive) /\ W \subseteq delayed[c] \ pending[c]
             /\ ToSet(toReceive') = ToSet(toReceive) \ W /\ Injective(toReceive')
             /\ toReceive' # <<>> => Cardinality(W) >= n
             /\ UNCHANGED toSend
<1>1. Events /\ toReceive \in Seq(Tasks)
  BY DEF QueueInv, Base, TypeOK
<1> DEFINE W == ToSet(First(toReceive, n))
<1>2. /\ toReceive' = SubSeq(toReceive, Len(First(toReceive, n)) + 1, Len(toReceive))
      /\ MakeReady(c, W) /\ UNCHANGED toSend
  BY DEF WakeReceivers
<1>3. /\ W \in SUBSET Tasks /\ W \subseteq ToSet(toReceive) /\ Injective(toReceive')
      /\ ToSet(toReceive) = W \cup ToSet(toReceive') /\ W \cap ToSet(toReceive') = {}
      /\ toReceive' # <<>> => Cardinality(W) >= n
  <2>1. Injective(toReceive)
    BY <1>1 DEF Events
  <2>2. QED
    BY <1>1, <1>2, <2>1, FirstOnes
<1> HIDE DEF W
<1>4. W \subseteq delayed[c] \ pending[c]
  BY <1>1, <1>3 DEF Events, Listed
<1>5. Wakes(c, W)
  BY <1>2, <1>3, <1>4, MakeReadyMoves
<1>6. QED
  BY <1>2, <1>3, <1>4, <1>5

(* and so do senders.                                                      *)
LEMMA SendersWake ==
    ASSUME QueueInv, NEW c \in Cores, NEW n \in Nat, WakeSenders(c, n),
           \A u \in Tasks : pc[u] # "delay"
    PROVE  \E W \in SUBSET Tasks :
             /\ Wakes(c, W) /\ W \subseteq ToSet(toSend) /\ W \subseteq delayed[c] \ pending[c]
             /\ ToSet(toSend') = ToSet(toSend) \ W /\ Injective(toSend')
             /\ toSend' # <<>> => Cardinality(W) >= n
             /\ UNCHANGED toReceive
<1>1. Events /\ toSend \in Seq(Tasks)
  BY DEF QueueInv, Base, TypeOK
<1> DEFINE W == ToSet(First(toSend, n))
<1>2. /\ toSend' = SubSeq(toSend, Len(First(toSend, n)) + 1, Len(toSend))
      /\ MakeReady(c, W) /\ UNCHANGED toReceive
  BY DEF WakeSenders
<1>3. /\ W \in SUBSET Tasks /\ W \subseteq ToSet(toSend) /\ Injective(toSend')
      /\ ToSet(toSend) = W \cup ToSet(toSend') /\ W \cap ToSet(toSend') = {}
      /\ toSend' # <<>> => Cardinality(W) >= n
  <2>1. Injective(toSend)
    BY <1>1 DEF Events
  <2>2. QED
    BY <1>1, <1>2, <2>1, FirstOnes
<1> HIDE DEF W
<1>4. W \subseteq delayed[c] \ pending[c]
  BY <1>1, <1>3 DEF Events, Listed
<1>5. Wakes(c, W)
  BY <1>2, <1>3, <1>4, MakeReadyMoves
<1>6. QED
  BY <1>2, <1>3, <1>4, <1>5

(* The types that most steps need *)
LEMMA Typed ==
    ASSUME QueueInv
    PROVE  /\ pc \in [Tasks -> Labels] /\ call \in [Tasks -> Calls]
           /\ then \in [Tasks -> {"try", "empty", "idle"}]
           /\ wait \in [Tasks -> WaitKinds] /\ late \in [Tasks -> BOOLEAN]
           /\ suspended \in [Cores -> BOOLEAN] /\ running \in [Cores -> Tasks \cup {NoTask}]
           /\ ready \in [Cores -> SUBSET Tasks] /\ delayed \in [Cores -> SUBSET Tasks]
           /\ pending \in [Cores -> SUBSET Tasks]
           /\ toReceive \in Seq(Tasks) /\ toSend \in Seq(Tasks)
           /\ rxLock \in Unlocked .. MaxLock /\ txLock \in Unlocked .. MaxLock
           /\ messages \in 0 .. Length /\ Length \in Nat \ {0} /\ Unlocked = -1
BY QueueAssumption DEF QueueInv, Base, TypeOK, Unlocked

(* The steps of a call: where each leads, what it does to the scheduler    *)
(* and to the locks                                                        *)
Leads(l, m) ==
    CASE l = "idle" -> m = "try"
      [] l = "try" -> m \in {"idle", "suspend"}
      [] l = "suspend" -> m = "lock"
      [] l = "lock" -> m = "timeout"
      [] l = "timeout" -> m \in {"check", "unlocktx"}
      [] l = "check" -> m \in {"insert", "unlocktx"}
      [] l = "insert" -> m = "delay"
      [] l = "delay" -> m = "unlocktx"
      [] l = "unlocktx" -> m = "unlockrx"
      [] l = "unlockrx" -> m = "resume"
      [] l = "resume" -> m \in {"idle", "try", "empty"}
      [] l = "empty" -> m \in {"idle", "try"}

Goes(c, t, l, m) ==
    /\ At(c, t, l) /\ Leads(l, m) /\ pc' = [pc EXCEPT ![t] = m] /\ UNCHANGED running
    /\ suspended' = CASE l = "suspend" -> [suspended EXCEPT ![c] = TRUE]
                      [] l = "resume" -> [suspended EXCEPT ![c] = FALSE]
                      [] OTHER -> suspended
    /\ CASE l = "lock" -> rxLock' # Unlocked
         [] l = "unlockrx" -> rxLock' = Unlocked
         [] OTHER -> rxLock' = rxLock
    /\ CASE l = "lock" -> txLock' # Unlocked
         [] l = "unlocktx" -> txLock' = Unlocked
         [] OTHER -> txLock' = txLock

LEMMA StepMoves ==
    ASSUME QueueInv, NEW c \in Cores, NEW t \in Tasks, Call(c, t) \/ Step(c, t)
    PROVE  \E l \in Labels, m \in Labels : Goes(c, t, l, m)
<1> USE Typed DEF Labels
<1>1. CASE Call(c, t)
  <2>1. Goes(c, t, "idle", "try")
    BY <1>1 DEF Call, Goes, Leads, locks, sched, frame, Goto, Return
  <2>2. QED
    BY <2>1
<1>2. CASE Send(c, t)
  <2>1. Goes(c, t, "try", "idle")
    BY <1>2 DEF Send, Goes, Leads, locks, sched, frame, Goto, Return
  <2>2. QED
    BY <2>1
<1>3. CASE Receive(c, t)
  <2>1. Goes(c, t, "try", "idle")
    BY <1>3 DEF Receive, Goes, Leads, locks, sched, frame, Goto, Return
  <2>2. QED
    BY <2>1
<1>4. CASE Peek(c, t)
  <2>1. Goes(c, t, "try", "idle")
    BY <1>4 DEF Peek, Goes, Leads, locks, sched, frame, Goto, Return
  <2>2. QED
    BY <2>1
<1>5. CASE Refuse(c, t)
  <2>1. Goes(c, t, "try", "idle")
    BY <1>5 DEF Refuse, Goes, Leads, locks, sched, frame, Goto, Return
  <2>2. QED
    BY <2>1
<1>6. CASE SetTimeOut(c, t)
  <2>1. Goes(c, t, "try", "suspend")
    BY <1>6 DEF SetTimeOut, Goes, Leads, locks, sched, frame, Goto, Return
  <2>2. QED
    BY <2>1
<1>7. CASE SuspendAll(c, t)
  <2>1. Goes(c, t, "suspend", "lock")
    BY <1>7 DEF SuspendAll, Goes, Leads, locks, sched, frame, Goto, Return
  <2>2. QED
    BY <2>1
<1>8. CASE LockQueue(c, t)
  <2>1. Goes(c, t, "lock", "timeout")
    BY <1>8 DEF LockQueue, Goes, Leads, locks, sched, frame, Goto, Return
  <2>2. QED
    BY <2>1
<1>9. CASE CheckForTimeOut(c, t)
  <2>1. Goes(c, t, "timeout", "unlocktx") \/ Goes(c, t, "timeout", "check")
    BY <1>9 DEF CheckForTimeOut, Goes, Leads, locks, sched, frame, Goto, Return
  <2>2. QED
    BY <2>1
<1>10. CASE CheckQueue(c, t)
  <2>1. Goes(c, t, "check", "insert") \/ Goes(c, t, "check", "unlocktx")
    BY <1>10 DEF CheckQueue, Goes, Leads, locks, sched, frame, Goto, Return
  <2>2. QED
    BY <2>1
<1>11. CASE InsertWaiting(c, t)
  <2>1. Goes(c, t, "insert", "delay")
    BY <1>11 DEF InsertWaiting, Goes, Leads, locks, sched, frame, Goto, Return
  <2>2. QED
    BY <2>1
<1>12. CASE Delay(c, t)
  <2>1. Goes(c, t, "delay", "unlocktx")
    BY <1>12 DEF Delay, Goes, Leads, locks, sched, frame, Goto, Return
  <2>2. QED
    BY <2>1
<1>13. CASE UnlockTx(c, t)
  <2>1. Goes(c, t, "unlocktx", "unlockrx")
    BY <1>13 DEF UnlockTx, Goes, Leads, locks, sched, frame, Goto, Return
  <2>2. QED
    BY <2>1
<1>14. CASE UnlockRx(c, t)
  <2>1. Goes(c, t, "unlockrx", "resume")
    BY <1>14 DEF UnlockRx, Goes, Leads, locks, sched, frame, Goto, Return
  <2>2. QED
    BY <2>1
<1>15. CASE ResumeAll(c, t)
  <2>1. then[t] \in {"try", "empty", "idle"} /\ pc' = [pc EXCEPT ![t] = then[t]]
    BY <1>15 DEF ResumeAll, Goto, Return
  <2>2. Goes(c, t, "resume", then[t])
    BY <1>15, <2>1 DEF ResumeAll, Goes, Leads, locks
  <2>3. QED
    BY <2>1, <2>2
<1>16. CASE LastLook(c, t)
  <2>1. Goes(c, t, "empty", "idle") \/ Goes(c, t, "empty", "try")
    BY <1>16 DEF LastLook, Goes, Leads, locks, sched, frame, Goto, Return
  <2>2. QED
    BY <2>1
<1>17. QED
  BY <1>1, <1>2, <1>3, <1>4, <1>5, <1>6, <1>7, <1>8, <1>9, <1>10, <1>11, <1>12, <1>13,
     <1>14, <1>15, <1>16 DEF Step

(* The scheduler is suspended for one task at a time, and so is the queue  *)
(* locked.                                                                 *)
LEMMA ExclusiveStep == QueueInv /\ SingleCore /\ [Next]_vars => Exclusive' /\ Locked'
<1> SUFFICES ASSUME QueueInv, SingleCore, [Next]_vars PROVE Exclusive' /\ Locked'
  OBVIOUS
<1>1. Exclusive /\ Locked
  BY DEF QueueInv
<1>2. ASSUME NEW c \in Cores, NEW t \in Tasks, Call(c, t) \/ Step(c, t) PROVE Exclusive' /\ Locked'
  <2>1. PICK l \in Labels, m \in Labels : Goes(c, t, l, m)
    BY <1>2, StepMoves
  <2>2. \A d \in Cores : d = c
    BY DEF SingleCore
  <2>3. /\ pc[t] = l /\ pc'[t] = m /\ \A u \in Tasks : u # t => pc'[u] = pc[u]
        /\ Leads(l, m) /\ running'[c] = t
    BY <2>1, AtMoves, Typed DEF Goes
  <2>4. CASE l \notin Busy
    <3>1. /\ \A u \in Tasks : pc[u] \notin Busy
          /\ ~suspended[c] /\ rxLock = Unlocked /\ txLock = Unlocked
      BY <2>1, <2>4, AtMoves DEF Goes
    <3>2. m \notin Busy \/ (l = "suspend" /\ m = "lock")
      BY <2>3, <2>4 DEF Leads, Busy, Labels
    <3>3. Exclusive'
      <4>1. suspended'[c] <=> m \in Busy
        BY <2>1, <2>3, <2>4, <3>1, <3>2, Typed DEF Goes, Leads, Busy
      <4>2. QED
        BY <2>2, <2>3, <3>1, <4>1 DEF Exclusive
    <3>4. rxLock' = Unlocked /\ txLock' = Unlocked /\ m \notin Locking
      BY <2>1, <2>4, <3>1, <3>2 DEF Goes, Busy, Locking
    <3>5. \A u \in Tasks : pc'[u] \notin Locking
      BY <2>3, <3>1, <3>4 DEF Busy, Locking
    <3>6. QED
      BY <3>3, <3>4, <3>5 DEF Locked
  <2>5. CASE l \in Busy
    <3>1. suspended[c] /\ \A u \in Tasks : u # t => pc[u] \notin Busy
      BY <2>1, <2>5, AtMoves DEF Goes
    <3>2. m \in Busy \/ l = "resume"
      BY <2>3, <2>5 DEF Leads, Busy
    <3>3. Exclusive'
      <4>1. suspended'[c] <=> m \in Busy
        BY <2>1, <2>3, <2>5, <3>1, <3>2, Typed DEF Goes, Leads, Busy
      <4>2. QED
        BY <2>2, <2>3, <3>1, <4>1 DEF Exclusive
    <3>4. (rxLock # Unlocked <=> l \in Locking) /\ (txLock # Unlocked <=> l \in Locking \ {"unlockrx"})
      BY <1>1, <2>3, <3>1 DEF Locked, Locking, Busy
    <3>5. (rxLock' # Unlocked <=> m \in Locking) /\ (txLock' # Unlocked <=> m \in Locking \ {"unlockrx"})
      BY <2>1, <2>3, <2>5, <3>4 DEF Goes, Leads, Busy, Locking
    <3>6. QED
      BY <2>3, <3>1, <3>3, <3>5 DEF Locked, Locking, Busy
  <2>6. QED
    BY <2>4, <2>5
<1>3. ASSUME NEW c \in Cores, NEW t \in Tasks, Dispatch(c, t) PROVE Exclusive' /\ Locked'
  <2>1. UNCHANGED <<pc, suspended, rxLock, txLock>> /\ ~suspended[c]
    BY <1>3 DEF Dispatch, locks, frame
  <2>2. \A u \in Tasks : pc[u] \notin Busy
    BY <1>1, <2>1 DEF Exclusive
  <2>3. QED
    BY <1>1, <2>1, <2>2 DEF Exclusive, Locked
<1>4. ASSUME NEW c \in Cores, NEW t \in Tasks, Elapse(c, t) \/ Expire(c, t) PROVE Exclusive' /\ Locked'
  BY <1>1, <1>4 DEF Elapse, Expire, Exclusive, Locked, locks, sched
<1>5. ASSUME NEW c \in Cores, SendFromISR(c) \/ ReceiveFromISR(c) PROVE Exclusive' /\ Locked'
  <2>1. UNCHANGED <<pc, suspended, running>>
    BY <1>5 DEF SendFromISR, ReceiveFromISR, frame
  <2>2. (rxLock' # Unlocked <=> rxLock # Unlocked) /\ (txLock' # Unlocked <=> txLock # Unlocked)
    <3>1. rxLock + 1 # -1 \/ rxLock = Unlocked
      BY Typed
    <3>2. txLock + 1 # -1 \/ txLock = Unlocked
      BY Typed
    <3>3. QED
      BY <1>5, <3>1, <3>2, Typed DEF SendFromISR, ReceiveFromISR
  <2>3. QED
    BY <1>1, <2>1, <2>2 DEF Exclusive, Locked
<1>6. CASE UNCHANGED vars
  BY <1>1, <1>6 DEF vars, locks, sched, frame, Exclusive, Locked
<1>7. QED
  BY <1>2, <1>3, <1>4, <1>5, <1>6 DEF Next

-----------------------------------------------------------------------------
(* Who wakes up leaves one event list and is no longer delayed, or is      *)
(* pending.                                                                *)
LEMMA WakeMoves ==
    ASSUME QueueInv, NEW c \in Cores, NEW n \in Nat, WakeReceivers(c, n) \/ WakeSenders(c, n),
           \A u \in Tasks : pc[u] # "delay"
    PROVE  \E W \in SUBSET Tasks :
             /\ Wakes(c, W)
             /\ ToSet(toReceive') = ToSet(toReceive) \ W /\ Injective(toReceive')
             /\ ToSet(toSend') = ToSet(toSend) \ W /\ Injective(toSend')
<1>1. Events
  BY DEF QueueInv
<1>2. /\ Injective(toReceive) /\ Injective(toSend)
      /\ ToSet(toReceive) \cap ToSet(toSend) = {}
  BY <1>1 DEF Events, Receivers, Sends
<1>3. CASE WakeReceivers(c, n)
  <2>1. PICK W \in SUBSET Tasks :
          /\ Wakes(c, W) /\ W \subseteq ToSet(toReceive)
          /\ ToSet(toReceive') = ToSet(toReceive) \ W /\ Injective(toReceive')
          /\ UNCHANGED toSend
    BY <1>3, ReceiversWake
  <2>2. QED
    BY <1>2, <2>1
<1>4. CASE WakeSenders(c, n)
  <2>1. PICK W \in SUBSET Tasks :
          /\ Wakes(c, W) /\ W \subseteq ToSet(toSend)
          /\ ToSet(toSend') = ToSet(toSend) \ W /\ Injective(toSend')
          /\ UNCHANGED toReceive
    BY <1>4, SendersWake
  <2>2. QED
    BY <1>2, <2>1
<1>5. QED
  BY <1>3, <1>4

(* The event lists after a wake-up *)
LEMMA WakeKeepsEvents ==
    ASSUME QueueInv, SingleCore, NEW c \in Cores, NEW n \in Nat,
           WakeReceivers(c, n) \/ WakeSenders(c, n),
           \A u \in Tasks : pc[u] # "delay" /\ pc'[u] # "delay", UNCHANGED call
    PROVE  Events'
<1>1. PICK W \in SUBSET Tasks :
        /\ Wakes(c, W)
        /\ ToSet(toReceive') = ToSet(toReceive) \ W /\ Injective(toReceive')
        /\ ToSet(toSend') = ToSet(toSend) \ W /\ Injective(toSend')
  BY WakeMoves
<1>2. Events
  BY DEF QueueInv
<1>3. ASSUME NEW d \in Cores, NEW u \in Tasks
      PROVE  Listed(u)' <=> pc'[u] = "delay" \/ u \in delayed'[d] \ pending'[d]
  <2>1. d = c
    BY DEF SingleCore
  <2>2. Listed(u)' <=> Listed(u) /\ u \notin W
    BY <1>1 DEF Listed
  <2>3. Listed(u) <=> u \in delayed[c] \ pending[c]
    BY <1>2 DEF Events
  <2>4. QED
    BY <1>1, <2>1, <2>2, <2>3 DEF Wakes
<1>4. QED
  BY <1>1, <1>2, <1>3 DEF Events

(* The event lists and the lists of the scheduler, left alone *)
LEMMA EventsStay ==
    ASSUME QueueInv, SingleCore, UNCHANGED <<lists, pending, delayed>>,
           \A u \in ToSet(toReceive) \cup ToSet(toSend) : call'[u] = call[u],
           \A u \in Tasks : pc'[u] = "delay" <=> pc[u] = "delay"
    PROVE  Events'
BY DEF QueueInv, Events, Listed, lists

(* The lists of the scheduler, when no task falls asleep *)
LEMMA StatesKept ==
    ASSUME QueueInv, SingleCore, NEW c \in Cores, NEW t \in Tasks,
           pending'[c] \subseteq delayed'[c], ready'[c] = Tasks \ delayed'[c],
           ~suspended'[c] => pending'[c] = {}, delayed'[c] \subseteq delayed[c],
           \A u \in Tasks : u # t => pc'[u] = pc[u] /\ then'[u] = then[u],
           t \in delayed'[c] => then'[t] = "try" /\ pc'[t] \in {"unlocktx", "unlockrx", "resume", "try"},
           pc'[t] \in {"insert", "delay"} => then'[t] = "try" /\ t \notin delayed'[c]
    PROVE  States'
<1>1. \A d \in Cores : d = c
  BY DEF SingleCore
<1>2. \A u \in Tasks :
        /\ u \in delayed[c] => then[u] = "try" /\ pc[u] \in {"unlocktx", "unlockrx", "resume", "try"}
        /\ pc[u] \in {"insert", "delay"} => then[u] = "try" /\ u \notin delayed[c]
  BY DEF QueueInv, States
<1>3. QED
  BY <1>1, <1>2 DEF States

LEMMA WakeKeepsStates ==
    ASSUME QueueInv, SingleCore, NEW c \in Cores, NEW n \in Nat, NEW t \in Tasks,
           WakeReceivers(c, n) \/ WakeSenders(c, n),
           \A u \in Tasks : pc[u] # "delay", suspended' = suspended,
           \A u \in Tasks : u # t => pc'[u] = pc[u] /\ then'[u] = then[u],
           t \in delayed[c] => then'[t] = "try" /\ pc'[t] \in {"unlocktx", "unlockrx", "resume", "try"},
           pc'[t] \in {"insert", "delay"} => then'[t] = "try" /\ t \notin delayed[c]
    PROVE  States'
<1>1. PICK W \in SUBSET Tasks : Wakes(c, W)
  BY WakeMoves
<1>2. QED
  BY <1>1, StatesKept DEF Wakes

LEMMA StatesStay ==
    ASSUME QueueInv, SingleCore, NEW c \in Cores, NEW t \in Tasks,
           UNCHANGED <<ready, pending, delayed>>, ~suspended'[c] => ~suspended[c],
           \A u \in Tasks : u # t => pc'[u] = pc[u] /\ then'[u] = then[u],
           t \in delayed[c] => then'[t] = "try" /\ pc'[t] \in {"unlocktx", "unlockrx", "resume", "try"},
           pc'[t] \in {"insert", "delay"} => then'[t] = "try" /\ t \notin delayed[c]
    PROVE  States'
<1>1. /\ pending[c] \subseteq delayed[c] /\ ready[c] = Tasks \ delayed[c]
      /\ ~suspended[c] => pending[c] = {}
  BY DEF QueueInv, States
<1>2. QED
  BY <1>1, StatesKept

(* Who is on an event list sleeps or is about to.                          *)
LEMMA EventsStep == QueueInv /\ SingleCore /\ [Next]_vars => Events'
<1> SUFFICES ASSUME QueueInv /\ SingleCore, [Next]_vars PROVE Events'
  OBVIOUS
<1> USE DEF vars
<1>1. ASSUME NEW c \in Cores, NEW t \in Tasks, Call(c, t) PROVE Events'
  <2>1. At(c, t, "idle")
    BY <1>1 DEF Call
  <2>2. UNCHANGED <<lists, pending, delayed>> /\ \A u \in Tasks : pc'[u] = "delay" <=> pc[u] = "delay"
    BY <1>1, <2>1, AtMoves, Typed DEF Call, Busy, Goto, Return, lists, locks, sched
  <2>3. \A u \in ToSet(toReceive) \cup ToSet(toSend) : call'[u] = call[u]
    BY <1>1, <2>1, AtMoves, Typed DEF Call, Busy, Listed
  <2>4. QED
    BY <2>2, <2>3, EventsStay
<1>2. ASSUME NEW c \in Cores, NEW t \in Tasks, Send(c, t) PROVE Events'
  <2>1. At(c, t, "try")
    BY <1>2 DEF Send
  <2>2. WakeReceivers(c, 1) /\ UNCHANGED call
        /\ \A u \in Tasks : pc[u] # "delay" /\ pc'[u] # "delay"
    BY SMTT(30), <1>2, <2>1, AtMoves, Typed DEF Send, Busy, Goto, Return, lists, locks, sched
  <2>3. QED
    BY <2>2, WakeKeepsEvents
<1>3. ASSUME NEW c \in Cores, NEW t \in Tasks, Receive(c, t) PROVE Events'
  <2>1. At(c, t, "try")
    BY <1>3 DEF Receive
  <2>2. WakeSenders(c, 1) /\ UNCHANGED call
        /\ \A u \in Tasks : pc[u] # "delay" /\ pc'[u] # "delay"
    BY ZenonT(40), <1>3, <2>1, AtMoves, Typed DEF Receive, Busy, Goto, Return, lists, locks, sched
  <2>3. QED
    BY <2>2, WakeKeepsEvents
<1>4. ASSUME NEW c \in Cores, NEW t \in Tasks, Peek(c, t) PROVE Events'
  <2>1. At(c, t, "try")
    BY <1>4 DEF Peek
  <2>2. WakeReceivers(c, 1) /\ UNCHANGED call
        /\ \A u \in Tasks : pc[u] # "delay" /\ pc'[u] # "delay"
    BY ZenonT(40), <1>4, <2>1, AtMoves, Typed DEF Peek, Busy, Goto, Return, lists, locks, sched
  <2>3. QED
    BY <2>2, WakeKeepsEvents
<1>5. ASSUME NEW c \in Cores, NEW t \in Tasks, Refuse(c, t) PROVE Events'
  <2>1. At(c, t, "try")
    BY <1>5 DEF Refuse
  <2>2. UNCHANGED <<lists, pending, delayed>> /\ \A u \in Tasks : pc'[u] = "delay" <=> pc[u] = "delay"
    BY <1>5, <2>1, AtMoves, Typed DEF Refuse, Busy, Goto, Return, lists, locks, sched
  <2>3. \A u \in ToSet(toReceive) \cup ToSet(toSend) : call'[u] = call[u]
    BY <1>5 DEF Refuse, Return
  <2>4. QED
    BY <2>2, <2>3, EventsStay
<1>6. ASSUME NEW c \in Cores, NEW t \in Tasks, SetTimeOut(c, t) PROVE Events'
  <2>1. At(c, t, "try")
    BY <1>6 DEF SetTimeOut
  <2>2. UNCHANGED <<lists, pending, delayed>> /\ \A u \in Tasks : pc'[u] = "delay" <=> pc[u] = "delay"
    BY <1>6, <2>1, AtMoves, Typed DEF SetTimeOut, Busy, Goto, Return, lists, locks, sched
  <2>3. \A u \in ToSet(toReceive) \cup ToSet(toSend) : call'[u] = call[u]
    BY <1>6 DEF SetTimeOut, Return
  <2>4. QED
    BY <2>2, <2>3, EventsStay
<1>7. ASSUME NEW c \in Cores, NEW t \in Tasks, SuspendAll(c, t) PROVE Events'
  <2>1. At(c, t, "suspend")
    BY <1>7 DEF SuspendAll
  <2>2. UNCHANGED <<lists, pending, delayed>> /\ \A u \in Tasks : pc'[u] = "delay" <=> pc[u] = "delay"
    BY <1>7, <2>1, AtMoves, Typed DEF SuspendAll, Busy, Goto, Return, lists, locks, sched
  <2>3. \A u \in ToSet(toReceive) \cup ToSet(toSend) : call'[u] = call[u]
    BY <1>7 DEF SuspendAll, Return
  <2>4. QED
    BY <2>2, <2>3, EventsStay
<1>8. ASSUME NEW c \in Cores, NEW t \in Tasks, LockQueue(c, t) PROVE Events'
  <2>1. At(c, t, "lock")
    BY <1>8 DEF LockQueue
  <2>2. UNCHANGED <<lists, pending, delayed>> /\ \A u \in Tasks : pc'[u] = "delay" <=> pc[u] = "delay"
    BY <1>8, <2>1, AtMoves, Typed DEF LockQueue, Busy, Goto, Return, lists, locks, sched
  <2>3. \A u \in ToSet(toReceive) \cup ToSet(toSend) : call'[u] = call[u]
    BY <1>8 DEF LockQueue, Return
  <2>4. QED
    BY <2>2, <2>3, EventsStay
<1>9. ASSUME NEW c \in Cores, NEW t \in Tasks, CheckForTimeOut(c, t) PROVE Events'
  <2>1. At(c, t, "timeout")
    BY <1>9 DEF CheckForTimeOut
  <2>2. UNCHANGED <<lists, pending, delayed>> /\ \A u \in Tasks : pc'[u] = "delay" <=> pc[u] = "delay"
    BY <1>9, <2>1, AtMoves, Typed DEF CheckForTimeOut, Busy, Goto, Return, lists, locks, sched
  <2>3. \A u \in ToSet(toReceive) \cup ToSet(toSend) : call'[u] = call[u]
    BY <1>9 DEF CheckForTimeOut, Return
  <2>4. QED
    BY <2>2, <2>3, EventsStay
<1>10. ASSUME NEW c \in Cores, NEW t \in Tasks, CheckQueue(c, t) PROVE Events'
  <2>1. At(c, t, "check")
    BY <1>10 DEF CheckQueue
  <2>2. UNCHANGED <<lists, pending, delayed>> /\ \A u \in Tasks : pc'[u] = "delay" <=> pc[u] = "delay"
    BY <1>10, <2>1, AtMoves, Typed DEF CheckQueue, Busy, Goto, Return, lists, locks, sched
  <2>3. \A u \in ToSet(toReceive) \cup ToSet(toSend) : call'[u] = call[u]
    BY <1>10 DEF CheckQueue, Return
  <2>4. QED
    BY <2>2, <2>3, EventsStay
<1>11. ASSUME NEW c \in Cores, NEW t \in Tasks, InsertWaiting(c, t) PROVE Events'
  <2>1. At(c, t, "insert") /\ UNCHANGED <<call, pending, delayed>> /\ pc' = [pc EXCEPT ![t] = "delay"]
    BY <1>11 DEF InsertWaiting, sched, Goto
  <2>2. Events /\ \A d \in Cores : t \notin delayed[d]
    BY <2>1, AtMoves DEF QueueInv, States
  <2>3. ~Listed(t)
    BY <2>1, <2>2, AtMoves DEF Events
  <2>4. /\ Injective(toReceive) /\ Injective(toSend) /\ t \notin ToSet(toReceive) /\ t \notin ToSet(toSend)
        /\ \A u \in ToSet(toReceive) : call[u] \in Receivers
        /\ \A u \in ToSet(toSend) : call[u] \in Sends
    BY <2>2, <2>3 DEF Events, Listed
  <2>5. /\ Injective(Insert(toReceive, t)) /\ ToSet(Insert(toReceive, t)) = ToSet(toReceive) \cup {t}
        /\ Injective(Insert(toSend, t)) /\ ToSet(Insert(toSend, t)) = ToSet(toSend) \cup {t}
    BY <2>4, InsertOne, Typed
  <2>6. /\ Injective(toReceive') /\ Injective(toSend')
        /\ \A u \in ToSet(toReceive') : call'[u] \in Receivers
        /\ \A u \in ToSet(toSend') : call'[u] \in Sends
        /\ ToSet(toReceive') \cup ToSet(toSend') = ToSet(toReceive) \cup ToSet(toSend) \cup {t}
    <3>1. CASE call[t] \in Sends
      <4>1. toSend' = Insert(toSend, t) /\ toReceive' = toReceive
        BY <1>11, <3>1 DEF InsertWaiting
      <4>2. QED
        BY <2>1, <2>4, <2>5, <3>1, <4>1
    <3>2. CASE call[t] \notin Sends
      <4>1. toReceive' = Insert(toReceive, t) /\ toSend' = toSend
        BY <1>11, <3>2 DEF InsertWaiting
      <4>2. call[t] \in Receivers
        BY <3>2, Typed DEF Calls, Sends, Receivers
      <4>3. QED
        BY <2>1, <2>4, <2>5, <4>1, <4>2
    <3>3. QED
      BY <3>1, <3>2
  <2>7. ASSUME NEW d \in Cores, NEW u \in Tasks
        PROVE  Listed(u)' <=> pc'[u] = "delay" \/ u \in delayed'[d] \ pending'[d]
    <3>1. Listed(u)' <=> Listed(u) \/ u = t
      BY <2>6 DEF Listed
    <3>2. Listed(u) <=> pc[u] = "delay" \/ u \in delayed[d] \ pending[d]
      BY <2>2 DEF Events
    <3>3. pc'[u] = "delay" <=> u = t \/ pc[u] = "delay"
      BY <2>1, Typed
    <3>4. QED
      BY <2>1, <3>1, <3>2, <3>3
  <2>8. QED
    BY <2>6, <2>7 DEF Events
<1>12. ASSUME NEW c \in Cores, NEW t \in Tasks, Delay(c, t) PROVE Events'
  <2>1. /\ At(c, t, "delay") /\ UNCHANGED <<call, pending, toReceive, toSend>>
        /\ pc' = [pc EXCEPT ![t] = "unlocktx"] /\ delayed' = [delayed EXCEPT ![c] = @ \cup {t}]
    BY <1>12 DEF Delay, lists, Goto
  <2>2. Events /\ t \notin delayed[c] /\ pending[c] \subseteq delayed[c]
    BY <2>1, AtMoves DEF QueueInv, States
  <2>3. Listed(t)
    BY <2>1, <2>2, AtMoves DEF Events
  <2>4. ASSUME NEW d \in Cores, NEW u \in Tasks
        PROVE  Listed(u)' <=> pc'[u] = "delay" \/ u \in delayed'[d] \ pending'[d]
    <3>1. Listed(u)' <=> Listed(u)
      BY <2>1 DEF Listed
    <3>2. d = c /\ (Listed(u) <=> pc[u] = "delay" \/ u \in delayed[c] \ pending[c])
      BY <2>2 DEF Events, SingleCore
    <3>3. delayed'[c] = delayed[c] \cup {t} /\ (u # t => pc'[u] = pc[u]) /\ pc'[t] = "unlocktx"
      BY <2>1, Typed
    <3>4. CASE u = t
      BY <2>1, <2>2, <2>3, <3>1, <3>2, <3>3, <3>4
    <3>5. CASE u # t
      BY <2>1, <3>1, <3>2, <3>3, <3>5
    <3>6. QED
      BY <3>4, <3>5
  <2>5. QED
    BY <2>1, <2>2, <2>4 DEF Events
<1>13. ASSUME NEW c \in Cores, NEW t \in Tasks, UnlockTx(c, t) PROVE Events'
  <2>1. At(c, t, "unlocktx")
    BY <1>13 DEF UnlockTx
  <2>2. WakeReceivers(c, IF txLock > 0 THEN txLock ELSE 0) /\ UNCHANGED call
        /\ \A u \in Tasks : pc[u] # "delay" /\ pc'[u] # "delay"
    BY <1>13, <2>1, AtMoves, Typed DEF UnlockTx, Busy, Goto, Return, lists, locks, sched
  <2>3. (IF txLock > 0 THEN txLock ELSE 0) \in Nat
    BY QueueAssumption, Typed
  <2>4. QED
    BY <2>2, <2>3, WakeKeepsEvents
<1>14. ASSUME NEW c \in Cores, NEW t \in Tasks, UnlockRx(c, t) PROVE Events'
  <2>1. At(c, t, "unlockrx")
    BY <1>14 DEF UnlockRx
  <2>2. WakeSenders(c, IF rxLock > 0 THEN rxLock ELSE 0) /\ UNCHANGED call
        /\ \A u \in Tasks : pc[u] # "delay" /\ pc'[u] # "delay"
    BY <1>14, <2>1, AtMoves, Typed DEF UnlockRx, Busy, Goto, Return, lists, locks, sched
  <2>3. (IF rxLock > 0 THEN rxLock ELSE 0) \in Nat
    BY QueueAssumption, Typed
  <2>4. QED
    BY <2>2, <2>3, WakeKeepsEvents
<1>15. ASSUME NEW c \in Cores, NEW t \in Tasks, ResumeAll(c, t) PROVE Events'
  <2>1. /\ At(c, t, "resume") /\ UNCHANGED <<call, toReceive, toSend>>
        /\ pending'[c] = {} /\ delayed'[c] = delayed[c] \ pending[c]
        /\ pc' = [pc EXCEPT ![t] = IF then[t] = "idle" THEN "idle" ELSE then[t]]
    BY <1>15, Typed DEF ResumeAll, AddReady, lists, Goto, Return
  <2>2. \A u \in Tasks : pc'[u] = "delay" <=> pc[u] = "delay"
    BY <2>1, AtMoves, Typed
  <2>3. Events
    BY DEF QueueInv
  <2>4. ASSUME NEW d \in Cores, NEW u \in Tasks
        PROVE  Listed(u)' <=> pc'[u] = "delay" \/ u \in delayed'[d] \ pending'[d]
    <3>1. Listed(u)' <=> Listed(u)
      BY <2>1 DEF Listed
    <3>2. d = c /\ (Listed(u) <=> pc[u] = "delay" \/ u \in delayed[c] \ pending[c])
      BY <2>3 DEF Events, SingleCore
    <3>3. QED
      BY <2>1, <2>2, <3>1, <3>2
  <2>5. QED
    BY <2>1, <2>3, <2>4 DEF Events
<1>16. ASSUME NEW c \in Cores, NEW t \in Tasks, LastLook(c, t) PROVE Events'
  <2>1. At(c, t, "empty")
    BY <1>16 DEF LastLook
  <2>2. UNCHANGED <<lists, pending, delayed>> /\ \A u \in Tasks : pc'[u] = "delay" <=> pc[u] = "delay"
    BY <1>16, <2>1, AtMoves, Typed DEF LastLook, Busy, Goto, Return, lists, locks, sched
  <2>3. \A u \in ToSet(toReceive) \cup ToSet(toSend) : call'[u] = call[u]
    BY <1>16 DEF LastLook, Return
  <2>4. QED
    BY <2>2, <2>3, EventsStay
<1>17. ASSUME NEW c \in Cores, NEW t \in Tasks, Dispatch(c, t) PROVE Events'
  <2>1. UNCHANGED <<lists, pending, delayed, call, pc>>
    BY <1>17 DEF Dispatch, sched, frame
  <2>2. QED
    BY <2>1, EventsStay
<1>18. ASSUME NEW c \in Cores, NEW t \in Tasks, Elapse(c, t) PROVE Events'
  <2>1. UNCHANGED <<lists, pending, delayed, call, pc>>
    BY <1>18 DEF Elapse, sched, frame
  <2>2. QED
    BY <2>1, EventsStay
<1>19. ASSUME NEW c \in Cores, NEW t \in Tasks, Expire(c, t) PROVE Events'
  <2>1. /\ UNCHANGED <<call, pc>> /\ t \in delayed[c] /\ ~suspended[c]
        /\ toReceive' = Unlink(toReceive, t) /\ toSend' = Unlink(toSend, t)
        /\ delayed'[c] = delayed[c] \ {t} /\ pending'[c] = pending[c] \ {t}
    BY <1>19, Typed DEF Expire, AddReady
  <2>2. Events /\ pc[t] # "delay"
    BY <2>1 DEF QueueInv, States
  <2>3. /\ Injective(toReceive') /\ ToSet(toReceive') = ToSet(toReceive) \ {t}
        /\ Injective(toSend') /\ ToSet(toSend') = ToSet(toSend) \ {t}
    BY <2>1, <2>2, UnlinkOne, Typed DEF Events
  <2>4. ASSUME NEW d \in Cores, NEW u \in Tasks
        PROVE  Listed(u)' <=> pc'[u] = "delay" \/ u \in delayed'[d] \ pending'[d]
    <3>1. Listed(u)' <=> Listed(u) /\ u # t
      BY <2>3 DEF Listed
    <3>2. d = c /\ (Listed(u) <=> pc[u] = "delay" \/ u \in delayed[c] \ pending[c])
      BY <2>2 DEF Events, SingleCore
    <3>3. QED
      BY <2>1, <2>2, <3>1, <3>2
  <2>5. QED
    BY <2>1, <2>2, <2>3, <2>4 DEF Events
<1>20. ASSUME NEW c \in Cores, SendFromISR(c) PROVE Events'
  <2>1. UNCHANGED <<pc, call>>
    BY <1>20 DEF SendFromISR, frame
  <2>2. CASE txLock = Unlocked
    <3>1. WakeReceivers(c, 1)
      BY <1>20, <2>2 DEF SendFromISR
    <3>2. \A u \in Tasks : pc[u] # "delay"
      BY <2>2 DEF QueueInv, Locked, Locking
    <3>3. QED
      BY <2>1, <3>1, <3>2, WakeKeepsEvents
  <2>3. CASE txLock # Unlocked
    <3>1. UNCHANGED <<lists, pending, delayed>>
      BY <1>20, <2>3 DEF SendFromISR
    <3>2. QED
      BY <2>1, <3>1, EventsStay
  <2>4. QED
    BY <2>2, <2>3
<1>21. ASSUME NEW c \in Cores, ReceiveFromISR(c) PROVE Events'
  <2>1. UNCHANGED <<pc, call>>
    BY <1>21 DEF ReceiveFromISR, frame
  <2>2. CASE rxLock = Unlocked
    <3>1. WakeSenders(c, 1)
      BY <1>21, <2>2 DEF ReceiveFromISR
    <3>2. \A u \in Tasks : pc[u] # "delay"
      BY <2>2 DEF QueueInv, Locked, Locking
    <3>3. QED
      BY <2>1, <3>1, <3>2, WakeKeepsEvents
  <2>3. CASE rxLock # Unlocked
    <3>1. UNCHANGED <<lists, pending, delayed>>
      BY <1>21, <2>3 DEF ReceiveFromISR
    <3>2. QED
      BY <2>1, <3>1, EventsStay
  <2>4. QED
    BY <2>2, <2>3
<1>22. CASE UNCHANGED vars
  <2>1. UNCHANGED <<lists, pending, delayed, call, pc>>
    BY <1>22 DEF vars, sched, frame
  <2>2. QED
    BY <2>1, EventsStay
<1>23. QED
  BY <1>1, <1>2, <1>3, <1>4, <1>5, <1>6, <1>7, <1>8, <1>9, <1>10, <1>11,
    <1>12, <1>13, <1>14, <1>15, <1>16, <1>17, <1>18, <1>19, <1>20, <1>21,
    <1>22
    DEF Next, Step

(* Who sleeps is on its way to look at the queue again.                    *)
LEMMA StatesStep == QueueInv /\ SingleCore /\ [Next]_vars => States'
<1> SUFFICES ASSUME QueueInv /\ SingleCore, [Next]_vars PROVE States'
  OBVIOUS
<1> USE DEF vars
<1>1. ASSUME NEW c \in Cores, NEW t \in Tasks, Call(c, t) PROVE States'
  <2>1. At(c, t, "idle")
    BY <1>1 DEF Call
  <2>2. /\ pc[t] = "idle"
        /\ (t \in delayed[c] => then[t] = "try" /\ pc[t] \in {"unlocktx", "unlockrx", "resume"})
        /\ (pc[t] \in {"insert", "delay"} => then[t] = "try" /\ t \notin delayed[c])
    BY <2>1, AtMoves DEF QueueInv, States, Busy
  <2>3. \A u \in Tasks : u # t => pc'[u] = pc[u] /\ then'[u] = then[u]
    BY <1>1, Typed DEF Call, Goto, Return
  <2>4. /\ t \in delayed[c] => then'[t] = "try" /\ pc'[t] \in {"unlocktx", "unlockrx", "resume", "try"}
        /\ pc'[t] \in {"insert", "delay"} => then'[t] = "try" /\ t \notin delayed[c]
    BY <1>1, <2>2, Typed DEF Call, Goto, Return
  <2>5. UNCHANGED <<ready, pending, delayed>> /\ (~suspended'[c] => ~suspended[c])
    BY <1>1, Typed DEF Call, sched
  <2>6. QED
    BY <2>3, <2>4, <2>5, StatesStay
<1>2. ASSUME NEW c \in Cores, NEW t \in Tasks, Send(c, t) PROVE States'
  <2>1. At(c, t, "try")
    BY <1>2 DEF Send
  <2>2. /\ pc[t] = "try"
        /\ (t \in delayed[c] => then[t] = "try" /\ pc[t] \in {"unlocktx", "unlockrx", "resume"})
        /\ (pc[t] \in {"insert", "delay"} => then[t] = "try" /\ t \notin delayed[c])
    BY <2>1, AtMoves DEF QueueInv, States, Busy
  <2>3. \A u \in Tasks : u # t => pc'[u] = pc[u] /\ then'[u] = then[u]
    BY <1>2, Typed DEF Send, Return
  <2>4. /\ t \in delayed[c] => then'[t] = "try" /\ pc'[t] \in {"unlocktx", "unlockrx", "resume", "try"}
        /\ pc'[t] \in {"insert", "delay"} => then'[t] = "try" /\ t \notin delayed[c]
    BY <1>2, <2>2, Typed DEF Send, Return
  <2>5. WakeReceivers(c, 1) /\ suspended' = suspended /\ \A u \in Tasks : pc[u] # "delay"
    BY <1>2, <2>1, AtMoves DEF Send, Busy
  <2>6. QED
    BY <2>3, <2>4, <2>5, WakeKeepsStates
<1>3. ASSUME NEW c \in Cores, NEW t \in Tasks, Receive(c, t) PROVE States'
  <2>1. At(c, t, "try")
    BY <1>3 DEF Receive
  <2>2. /\ pc[t] = "try"
        /\ (t \in delayed[c] => then[t] = "try" /\ pc[t] \in {"unlocktx", "unlockrx", "resume"})
        /\ (pc[t] \in {"insert", "delay"} => then[t] = "try" /\ t \notin delayed[c])
    BY <2>1, AtMoves DEF QueueInv, States, Busy
  <2>3. \A u \in Tasks : u # t => pc'[u] = pc[u] /\ then'[u] = then[u]
    BY <1>3, Typed DEF Receive, Return
  <2>4. /\ t \in delayed[c] => then'[t] = "try" /\ pc'[t] \in {"unlocktx", "unlockrx", "resume", "try"}
        /\ pc'[t] \in {"insert", "delay"} => then'[t] = "try" /\ t \notin delayed[c]
    BY <1>3, <2>2, Typed DEF Receive, Return
  <2>5. WakeSenders(c, 1) /\ suspended' = suspended /\ \A u \in Tasks : pc[u] # "delay"
    BY <1>3, <2>1, AtMoves DEF Receive, Busy
  <2>6. QED
    BY <2>3, <2>4, <2>5, WakeKeepsStates
<1>4. ASSUME NEW c \in Cores, NEW t \in Tasks, Peek(c, t) PROVE States'
  <2>1. At(c, t, "try")
    BY <1>4 DEF Peek
  <2>2. /\ pc[t] = "try"
        /\ (t \in delayed[c] => then[t] = "try" /\ pc[t] \in {"unlocktx", "unlockrx", "resume"})
        /\ (pc[t] \in {"insert", "delay"} => then[t] = "try" /\ t \notin delayed[c])
    BY <2>1, AtMoves DEF QueueInv, States, Busy
  <2>3. \A u \in Tasks : u # t => pc'[u] = pc[u] /\ then'[u] = then[u]
    BY <1>4, Typed DEF Peek, Return
  <2>4. /\ t \in delayed[c] => then'[t] = "try" /\ pc'[t] \in {"unlocktx", "unlockrx", "resume", "try"}
        /\ pc'[t] \in {"insert", "delay"} => then'[t] = "try" /\ t \notin delayed[c]
    BY <1>4, <2>2, Typed DEF Peek, Return
  <2>5. WakeReceivers(c, 1) /\ suspended' = suspended /\ \A u \in Tasks : pc[u] # "delay"
    BY <1>4, <2>1, AtMoves DEF Peek, Busy
  <2>6. QED
    BY <2>3, <2>4, <2>5, WakeKeepsStates
<1>5. ASSUME NEW c \in Cores, NEW t \in Tasks, Refuse(c, t) PROVE States'
  <2>1. At(c, t, "try")
    BY <1>5 DEF Refuse
  <2>2. /\ pc[t] = "try"
        /\ (t \in delayed[c] => then[t] = "try" /\ pc[t] \in {"unlocktx", "unlockrx", "resume"})
        /\ (pc[t] \in {"insert", "delay"} => then[t] = "try" /\ t \notin delayed[c])
    BY <2>1, AtMoves DEF QueueInv, States, Busy
  <2>3. \A u \in Tasks : u # t => pc'[u] = pc[u] /\ then'[u] = then[u]
    BY <1>5, Typed DEF Refuse, Goto, Return
  <2>4. /\ t \in delayed[c] => then'[t] = "try" /\ pc'[t] \in {"unlocktx", "unlockrx", "resume", "try"}
        /\ pc'[t] \in {"insert", "delay"} => then'[t] = "try" /\ t \notin delayed[c]
    BY <1>5, <2>2, Typed DEF Refuse, Goto, Return
  <2>5. UNCHANGED <<ready, pending, delayed>> /\ (~suspended'[c] => ~suspended[c])
    BY <1>5, Typed DEF Refuse, sched
  <2>6. QED
    BY <2>3, <2>4, <2>5, StatesStay
<1>6. ASSUME NEW c \in Cores, NEW t \in Tasks, SetTimeOut(c, t) PROVE States'
  <2>1. At(c, t, "try")
    BY <1>6 DEF SetTimeOut
  <2>2. /\ pc[t] = "try"
        /\ (t \in delayed[c] => then[t] = "try" /\ pc[t] \in {"unlocktx", "unlockrx", "resume"})
        /\ (pc[t] \in {"insert", "delay"} => then[t] = "try" /\ t \notin delayed[c])
    BY <2>1, AtMoves DEF QueueInv, States, Busy
  <2>3. \A u \in Tasks : u # t => pc'[u] = pc[u] /\ then'[u] = then[u]
    BY <1>6, Typed DEF SetTimeOut, Goto, Return
  <2>4. /\ t \in delayed[c] => then'[t] = "try" /\ pc'[t] \in {"unlocktx", "unlockrx", "resume", "try"}
        /\ pc'[t] \in {"insert", "delay"} => then'[t] = "try" /\ t \notin delayed[c]
    BY <1>6, <2>2, Typed DEF SetTimeOut, Goto, Return
  <2>5. UNCHANGED <<ready, pending, delayed>> /\ (~suspended'[c] => ~suspended[c])
    BY <1>6, Typed DEF SetTimeOut, sched
  <2>6. QED
    BY <2>3, <2>4, <2>5, StatesStay
<1>7. ASSUME NEW c \in Cores, NEW t \in Tasks, SuspendAll(c, t) PROVE States'
  <2>1. At(c, t, "suspend")
    BY <1>7 DEF SuspendAll
  <2>2. /\ pc[t] = "suspend"
        /\ (t \in delayed[c] => then[t] = "try" /\ pc[t] \in {"unlocktx", "unlockrx", "resume"})
        /\ (pc[t] \in {"insert", "delay"} => then[t] = "try" /\ t \notin delayed[c])
    BY <2>1, AtMoves DEF QueueInv, States, Busy
  <2>3. \A u \in Tasks : u # t => pc'[u] = pc[u] /\ then'[u] = then[u]
    BY <1>7, Typed DEF SuspendAll, Goto, Return
  <2>4. /\ t \in delayed[c] => then'[t] = "try" /\ pc'[t] \in {"unlocktx", "unlockrx", "resume", "try"}
        /\ pc'[t] \in {"insert", "delay"} => then'[t] = "try" /\ t \notin delayed[c]
    BY <1>7, <2>2, Typed DEF SuspendAll, Goto, Return
  <2>5. UNCHANGED <<ready, pending, delayed>> /\ (~suspended'[c] => ~suspended[c])
    BY <1>7, Typed DEF SuspendAll, sched
  <2>6. QED
    BY <2>3, <2>4, <2>5, StatesStay
<1>8. ASSUME NEW c \in Cores, NEW t \in Tasks, LockQueue(c, t) PROVE States'
  <2>1. At(c, t, "lock")
    BY <1>8 DEF LockQueue
  <2>2. /\ pc[t] = "lock"
        /\ (t \in delayed[c] => then[t] = "try" /\ pc[t] \in {"unlocktx", "unlockrx", "resume"})
        /\ (pc[t] \in {"insert", "delay"} => then[t] = "try" /\ t \notin delayed[c])
    BY <2>1, AtMoves DEF QueueInv, States, Busy
  <2>3. \A u \in Tasks : u # t => pc'[u] = pc[u] /\ then'[u] = then[u]
    BY <1>8, Typed DEF LockQueue, Goto, Return
  <2>4. /\ t \in delayed[c] => then'[t] = "try" /\ pc'[t] \in {"unlocktx", "unlockrx", "resume", "try"}
        /\ pc'[t] \in {"insert", "delay"} => then'[t] = "try" /\ t \notin delayed[c]
    BY <1>8, <2>2, Typed DEF LockQueue, Goto, Return
  <2>5. UNCHANGED <<ready, pending, delayed>> /\ (~suspended'[c] => ~suspended[c])
    BY <1>8, Typed DEF LockQueue, sched
  <2>6. QED
    BY <2>3, <2>4, <2>5, StatesStay
<1>9. ASSUME NEW c \in Cores, NEW t \in Tasks, CheckForTimeOut(c, t) PROVE States'
  <2>1. At(c, t, "timeout")
    BY <1>9 DEF CheckForTimeOut
  <2>2. /\ pc[t] = "timeout"
        /\ (t \in delayed[c] => then[t] = "try" /\ pc[t] \in {"unlocktx", "unlockrx", "resume"})
        /\ (pc[t] \in {"insert", "delay"} => then[t] = "try" /\ t \notin delayed[c])
    BY <2>1, AtMoves DEF QueueInv, States, Busy
  <2>3. \A u \in Tasks : u # t => pc'[u] = pc[u] /\ then'[u] = then[u]
    BY <1>9, Typed DEF CheckForTimeOut, Goto, Return
  <2>4. /\ t \in delayed[c] => then'[t] = "try" /\ pc'[t] \in {"unlocktx", "unlockrx", "resume", "try"}
        /\ pc'[t] \in {"insert", "delay"} => then'[t] = "try" /\ t \notin delayed[c]
    BY <1>9, <2>2, Typed DEF CheckForTimeOut, Goto, Return
  <2>5. UNCHANGED <<ready, pending, delayed>> /\ (~suspended'[c] => ~suspended[c])
    BY <1>9, Typed DEF CheckForTimeOut, sched
  <2>6. QED
    BY <2>3, <2>4, <2>5, StatesStay
<1>10. ASSUME NEW c \in Cores, NEW t \in Tasks, CheckQueue(c, t) PROVE States'
  <2>1. At(c, t, "check")
    BY <1>10 DEF CheckQueue
  <2>2. /\ pc[t] = "check"
        /\ (t \in delayed[c] => then[t] = "try" /\ pc[t] \in {"unlocktx", "unlockrx", "resume"})
        /\ (pc[t] \in {"insert", "delay"} => then[t] = "try" /\ t \notin delayed[c])
    BY <2>1, AtMoves DEF QueueInv, States, Busy
  <2>3. \A u \in Tasks : u # t => pc'[u] = pc[u] /\ then'[u] = then[u]
    BY <1>10, Typed DEF CheckQueue, Goto, Return
  <2>4. /\ t \in delayed[c] => then'[t] = "try" /\ pc'[t] \in {"unlocktx", "unlockrx", "resume", "try"}
        /\ pc'[t] \in {"insert", "delay"} => then'[t] = "try" /\ t \notin delayed[c]
    BY <1>10, <2>2, Typed DEF CheckQueue, Goto, Return
  <2>5. UNCHANGED <<ready, pending, delayed>> /\ (~suspended'[c] => ~suspended[c])
    BY <1>10, Typed DEF CheckQueue, sched
  <2>6. QED
    BY <2>3, <2>4, <2>5, StatesStay
<1>11. ASSUME NEW c \in Cores, NEW t \in Tasks, InsertWaiting(c, t) PROVE States'
  <2>1. At(c, t, "insert")
    BY <1>11 DEF InsertWaiting
  <2>2. /\ pc[t] = "insert"
        /\ (t \in delayed[c] => then[t] = "try" /\ pc[t] \in {"unlocktx", "unlockrx", "resume"})
        /\ (pc[t] \in {"insert", "delay"} => then[t] = "try" /\ t \notin delayed[c])
    BY <2>1, AtMoves DEF QueueInv, States, Busy
  <2>3. \A u \in Tasks : u # t => pc'[u] = pc[u] /\ then'[u] = then[u]
    BY <1>11, Typed DEF InsertWaiting, Goto, Return
  <2>4. /\ t \in delayed[c] => then'[t] = "try" /\ pc'[t] \in {"unlocktx", "unlockrx", "resume", "try"}
        /\ pc'[t] \in {"insert", "delay"} => then'[t] = "try" /\ t \notin delayed[c]
    BY <1>11, <2>2, Typed DEF InsertWaiting, Goto, Return
  <2>5. UNCHANGED <<ready, pending, delayed>> /\ (~suspended'[c] => ~suspended[c])
    BY <1>11, Typed DEF InsertWaiting, sched
  <2>6. QED
    BY <2>3, <2>4, <2>5, StatesStay
<1>12. ASSUME NEW c \in Cores, NEW t \in Tasks, Delay(c, t) PROVE States'
  <2>1. At(c, t, "delay")
    BY <1>12 DEF Delay
  <2>2. /\ pc[t] = "delay"
        /\ (t \in delayed[c] => then[t] = "try" /\ pc[t] \in {"unlocktx", "unlockrx", "resume"})
        /\ (pc[t] \in {"insert", "delay"} => then[t] = "try" /\ t \notin delayed[c])
    BY <2>1, AtMoves DEF QueueInv, States, Busy
  <2>3. /\ delayed'[c] = delayed[c] \cup {t} /\ ready'[c] = ready[c] \ {t}
        /\ UNCHANGED <<pending, suspended, then>> /\ pc' = [pc EXCEPT ![t] = "unlocktx"]
    BY <1>12, Typed DEF Delay, Goto
  <2>4. States /\ \A d \in Cores : d = c
    BY DEF QueueInv, SingleCore
  <2>5. QED
    BY <2>2, <2>3, <2>4, Typed DEF States
<1>13. ASSUME NEW c \in Cores, NEW t \in Tasks, UnlockTx(c, t) PROVE States'
  <2>1. At(c, t, "unlocktx")
    BY <1>13 DEF UnlockTx
  <2>2. /\ pc[t] = "unlocktx"
        /\ (t \in delayed[c] => then[t] = "try" /\ pc[t] \in {"unlocktx", "unlockrx", "resume"})
        /\ (pc[t] \in {"insert", "delay"} => then[t] = "try" /\ t \notin delayed[c])
    BY <2>1, AtMoves DEF QueueInv, States, Busy
  <2>3. \A u \in Tasks : u # t => pc'[u] = pc[u] /\ then'[u] = then[u]
    BY <1>13, Typed DEF UnlockTx, Goto
  <2>4. /\ t \in delayed[c] => then'[t] = "try" /\ pc'[t] \in {"unlocktx", "unlockrx", "resume", "try"}
        /\ pc'[t] \in {"insert", "delay"} => then'[t] = "try" /\ t \notin delayed[c]
    BY <1>13, <2>2, Typed DEF UnlockTx, Goto
  <2>5. /\ WakeReceivers(c, IF txLock > 0 THEN txLock ELSE 0) /\ suspended' = suspended
       /\ \A u \in Tasks : pc[u] # "delay"
    BY <1>13, <2>1, AtMoves DEF UnlockTx, Busy
  <2>6. (IF txLock > 0 THEN txLock ELSE 0) \in Nat
    BY QueueAssumption, Typed
  <2>7. QED
    BY <2>3, <2>4, <2>5, <2>6, WakeKeepsStates
<1>14. ASSUME NEW c \in Cores, NEW t \in Tasks, UnlockRx(c, t) PROVE States'
  <2>1. At(c, t, "unlockrx")
    BY <1>14 DEF UnlockRx
  <2>2. /\ pc[t] = "unlockrx"
        /\ (t \in delayed[c] => then[t] = "try" /\ pc[t] \in {"unlocktx", "unlockrx", "resume"})
        /\ (pc[t] \in {"insert", "delay"} => then[t] = "try" /\ t \notin delayed[c])
    BY <2>1, AtMoves DEF QueueInv, States, Busy
  <2>3. \A u \in Tasks : u # t => pc'[u] = pc[u] /\ then'[u] = then[u]
    BY <1>14, Typed DEF UnlockRx, Goto
  <2>4. /\ t \in delayed[c] => then'[t] = "try" /\ pc'[t] \in {"unlocktx", "unlockrx", "resume", "try"}
        /\ pc'[t] \in {"insert", "delay"} => then'[t] = "try" /\ t \notin delayed[c]
    BY <1>14, <2>2, Typed DEF UnlockRx, Goto
  <2>5. /\ WakeSenders(c, IF rxLock > 0 THEN rxLock ELSE 0) /\ suspended' = suspended
       /\ \A u \in Tasks : pc[u] # "delay"
    BY <1>14, <2>1, AtMoves DEF UnlockRx, Busy
  <2>6. (IF rxLock > 0 THEN rxLock ELSE 0) \in Nat
    BY QueueAssumption, Typed
  <2>7. QED
    BY <2>3, <2>4, <2>5, <2>6, WakeKeepsStates
<1>15. ASSUME NEW c \in Cores, NEW t \in Tasks, ResumeAll(c, t) PROVE States'
  <2>1. At(c, t, "resume")
    BY <1>15 DEF ResumeAll
  <2>2. /\ pc[t] = "resume"
        /\ (t \in delayed[c] => then[t] = "try" /\ pc[t] \in {"unlocktx", "unlockrx", "resume"})
        /\ (pc[t] \in {"insert", "delay"} => then[t] = "try" /\ t \notin delayed[c])
    BY <2>1, AtMoves DEF QueueInv, States, Busy
  <2>3. /\ delayed'[c] = delayed[c] \ pending[c] /\ pending'[c] = {}
        /\ ready'[c] = ready[c] \cup pending[c] /\ ready[c] = Tasks \ delayed[c]
        /\ pending[c] \in SUBSET Tasks
    BY <1>15, Typed DEF ResumeAll, AddReady, QueueInv, States
  <2>4. \A u \in Tasks : u # t => pc'[u] = pc[u] /\ then'[u] = then[u]
    BY <1>15, Typed DEF ResumeAll, Goto, Return
  <2>5. pc'[t] = then[t] /\ (then[t] = "try" => then'[t] = "try")
    BY <1>15, Typed DEF ResumeAll, Goto, Return
  <2>6. then[t] \in {"try", "empty", "idle"}
    BY Typed
  <2>7. QED
    BY <2>2, <2>3, <2>4, <2>5, <2>6, StatesKept
<1>16. ASSUME NEW c \in Cores, NEW t \in Tasks, LastLook(c, t) PROVE States'
  <2>1. At(c, t, "empty")
    BY <1>16 DEF LastLook
  <2>2. /\ pc[t] = "empty"
        /\ (t \in delayed[c] => then[t] = "try" /\ pc[t] \in {"unlocktx", "unlockrx", "resume"})
        /\ (pc[t] \in {"insert", "delay"} => then[t] = "try" /\ t \notin delayed[c])
    BY <2>1, AtMoves DEF QueueInv, States, Busy
  <2>3. \A u \in Tasks : u # t => pc'[u] = pc[u] /\ then'[u] = then[u]
    BY <1>16, Typed DEF LastLook, Goto, Return
  <2>4. /\ t \in delayed[c] => then'[t] = "try" /\ pc'[t] \in {"unlocktx", "unlockrx", "resume", "try"}
        /\ pc'[t] \in {"insert", "delay"} => then'[t] = "try" /\ t \notin delayed[c]
    BY <1>16, <2>2, Typed DEF LastLook, Goto, Return
  <2>5. UNCHANGED <<ready, pending, delayed>> /\ (~suspended'[c] => ~suspended[c])
    BY <1>16, Typed DEF LastLook, sched
  <2>6. QED
    BY <2>3, <2>4, <2>5, StatesStay
<1>17. ASSUME NEW c \in Cores, NEW t \in Tasks, Dispatch(c, t) PROVE States'
  BY <1>17 DEF Dispatch, frame, QueueInv, States
<1>18. ASSUME NEW c \in Cores, NEW t \in Tasks, Elapse(c, t) PROVE States'
  BY <1>18 DEF Elapse, sched, QueueInv, States
<1>19. ASSUME NEW c \in Cores, NEW t \in Tasks, Expire(c, t) PROVE States'
  <2>1. /\ UNCHANGED <<pc, then, suspended>> /\ ~suspended[c] /\ t \in delayed[c]
        /\ delayed'[c] = delayed[c] \ {t} /\ ready'[c] = ready[c] \cup {t}
        /\ pending'[c] = pending[c] \ {t}
    BY <1>19, Typed DEF Expire, AddReady
  <2>2. States /\ \A d \in Cores : d = c
    BY DEF QueueInv, SingleCore
  <2>3. QED
    BY <2>1, <2>2 DEF States
<1>20. ASSUME NEW c \in Cores, SendFromISR(c) PROVE States'
  <2>1. UNCHANGED <<pc, then, suspended>> /\ States
    BY <1>20 DEF SendFromISR, frame, QueueInv
  <2>2. CASE txLock = Unlocked
    <3>1. WakeReceivers(c, 1)
      BY <1>20, <2>2 DEF SendFromISR
    <3>2. \A u \in Tasks : pc[u] # "delay"
      BY <2>2 DEF QueueInv, Locked, Locking
    <3>3. PICK W \in SUBSET Tasks : Wakes(c, W)
      BY <3>1, <3>2, WakeMoves
    <3>4. QED
      BY <2>1, <3>3 DEF States, SingleCore, Wakes
  <2>3. CASE txLock # Unlocked
    <3>1. UNCHANGED <<ready, pending, delayed>>
      BY <1>20, <2>3 DEF SendFromISR
    <3>2. QED
      BY <2>1, <3>1 DEF States
  <2>4. QED
    BY <2>2, <2>3
<1>21. ASSUME NEW c \in Cores, ReceiveFromISR(c) PROVE States'
  <2>1. UNCHANGED <<pc, then, suspended>> /\ States
    BY <1>21 DEF ReceiveFromISR, frame, QueueInv
  <2>2. CASE rxLock = Unlocked
    <3>1. WakeSenders(c, 1)
      BY <1>21, <2>2 DEF ReceiveFromISR
    <3>2. \A u \in Tasks : pc[u] # "delay"
      BY <2>2 DEF QueueInv, Locked, Locking
    <3>3. PICK W \in SUBSET Tasks : Wakes(c, W)
      BY <3>1, <3>2, WakeMoves
    <3>4. QED
      BY <2>1, <3>3 DEF States, SingleCore, Wakes
  <2>3. CASE rxLock # Unlocked
    <3>1. UNCHANGED <<ready, pending, delayed>>
      BY <1>21, <2>3 DEF ReceiveFromISR
    <3>2. QED
      BY <2>1, <3>1 DEF States
  <2>4. QED
    BY <2>2, <2>3
<1>22. CASE UNCHANGED vars
  BY <1>22 DEF vars, sched, frame, QueueInv, States
<1>23. QED
  BY <1>1, <1>2, <1>3, <1>4, <1>5, <1>6, <1>7, <1>8, <1>9, <1>10, <1>11,
    <1>12, <1>13, <1>14, <1>15, <1>16, <1>17, <1>18, <1>19, <1>20, <1>21,
    <1>22
    DEF Next, Step

(* A task that goes to wait has looked at the queue; since then the lock   *)
(* counts what handlers did.                                               *)
LEMMA CheckedStep == QueueInv /\ SingleCore /\ [Next]_vars => Checked'
<1> SUFFICES ASSUME QueueInv /\ SingleCore, [Next]_vars PROVE Checked'
  OBVIOUS
<1> USE DEF vars
<1>1. ASSUME NEW c \in Cores, NEW t \in Tasks, Call(c, t) PROVE Checked'
  <2>1. At(c, t, "idle")
    BY <1>1 DEF Call
  <2>2. \A u \in Tasks : pc[u] # "insert"
    BY <2>1, AtMoves DEF Busy
  <2>3. \A u \in Tasks : pc'[u] # "insert"
    BY <1>1, <2>2, Typed DEF Call, Goto, Return
  <2>4. QED
    BY <2>3 DEF Checked
<1>2. ASSUME NEW c \in Cores, NEW t \in Tasks, Send(c, t) PROVE Checked'
  <2>1. At(c, t, "try")
    BY <1>2 DEF Send
  <2>2. \A u \in Tasks : pc[u] # "insert"
    BY <2>1, AtMoves DEF Busy
  <2>3. \A u \in Tasks : pc'[u] # "insert"
    BY <1>2, <2>2, Typed DEF Send, Goto, Return
  <2>4. QED
    BY <2>3 DEF Checked
<1>3. ASSUME NEW c \in Cores, NEW t \in Tasks, Receive(c, t) PROVE Checked'
  <2>1. At(c, t, "try")
    BY <1>3 DEF Receive
  <2>2. \A u \in Tasks : pc[u] # "insert"
    BY <2>1, AtMoves DEF Busy
  <2>3. \A u \in Tasks : pc'[u] # "insert"
    BY <1>3, <2>2, Typed DEF Receive, Goto, Return
  <2>4. QED
    BY <2>3 DEF Checked
<1>4. ASSUME NEW c \in Cores, NEW t \in Tasks, Peek(c, t) PROVE Checked'
  <2>1. At(c, t, "try")
    BY <1>4 DEF Peek
  <2>2. \A u \in Tasks : pc[u] # "insert"
    BY <2>1, AtMoves DEF Busy
  <2>3. \A u \in Tasks : pc'[u] # "insert"
    BY <1>4, <2>2, Typed DEF Peek, Goto, Return
  <2>4. QED
    BY <2>3 DEF Checked
<1>5. ASSUME NEW c \in Cores, NEW t \in Tasks, Refuse(c, t) PROVE Checked'
  <2>1. At(c, t, "try")
    BY <1>5 DEF Refuse
  <2>2. \A u \in Tasks : pc[u] # "insert"
    BY <2>1, AtMoves DEF Busy
  <2>3. \A u \in Tasks : pc'[u] # "insert"
    BY <1>5, <2>2, Typed DEF Refuse, Goto, Return
  <2>4. QED
    BY <2>3 DEF Checked
<1>6. ASSUME NEW c \in Cores, NEW t \in Tasks, SetTimeOut(c, t) PROVE Checked'
  <2>1. At(c, t, "try")
    BY <1>6 DEF SetTimeOut
  <2>2. \A u \in Tasks : pc[u] # "insert"
    BY <2>1, AtMoves DEF Busy
  <2>3. \A u \in Tasks : pc'[u] # "insert"
    BY <1>6, <2>2, Typed DEF SetTimeOut, Goto, Return
  <2>4. QED
    BY <2>3 DEF Checked
<1>7. ASSUME NEW c \in Cores, NEW t \in Tasks, SuspendAll(c, t) PROVE Checked'
  <2>1. At(c, t, "suspend")
    BY <1>7 DEF SuspendAll
  <2>2. \A u \in Tasks : pc[u] # "insert"
    BY <2>1, AtMoves DEF Busy
  <2>3. \A u \in Tasks : pc'[u] # "insert"
    BY <1>7, <2>2, Typed DEF SuspendAll, Goto, Return
  <2>4. QED
    BY <2>3 DEF Checked
<1>8. ASSUME NEW c \in Cores, NEW t \in Tasks, LockQueue(c, t) PROVE Checked'
  <2>1. At(c, t, "lock") /\ then[t] # "insert"
    BY <1>8, Typed DEF LockQueue
  <2>2. \A u \in Tasks : pc[u] # "insert"
    BY <2>1, AtMoves DEF Busy
  <2>3. \A u \in Tasks : pc'[u] # "insert"
    BY <1>8, <2>1, <2>2, Typed DEF LockQueue, Goto, Return
  <2>4. QED
    BY <2>3 DEF Checked
<1>9. ASSUME NEW c \in Cores, NEW t \in Tasks, CheckForTimeOut(c, t) PROVE Checked'
  <2>1. At(c, t, "timeout") /\ then[t] # "insert"
    BY <1>9, Typed DEF CheckForTimeOut
  <2>2. \A u \in Tasks : pc[u] # "insert"
    BY <2>1, AtMoves DEF Busy
  <2>3. \A u \in Tasks : pc'[u] # "insert"
    BY <1>9, <2>1, <2>2, Typed DEF CheckForTimeOut, Goto, Return
  <2>4. QED
    BY <2>3 DEF Checked
<1>10. ASSUME NEW c \in Cores, NEW t \in Tasks, CheckQueue(c, t) PROVE Checked'
  <2>1. /\ At(c, t, "check") /\ UNCHANGED <<messages, call, rxLock, txLock>>
        /\ pc' = [pc EXCEPT ![t] = IF StillImpossible(t) THEN "insert" ELSE "unlocktx"]
    BY <1>10 DEF CheckQueue, Goto, ring, locks
  <2>2. /\ pc[t] = "check" /\ \A u \in Tasks : u # t => pc'[u] # "insert"
        /\ pc'[t] = "insert" => StillImpossible(t)
    BY <2>1, AtMoves, Typed DEF Busy
  <2>3. rxLock # Unlocked /\ txLock # Unlocked
    BY <2>2 DEF QueueInv, Locked, Locking
  <2>4. rxLock >= 0 /\ txLock >= 0
    BY <2>3, Typed, QueueAssumption
  <2>5. QED
    BY <2>1, <2>2, <2>4, Typed DEF Checked, StillImpossible
<1>11. ASSUME NEW c \in Cores, NEW t \in Tasks, InsertWaiting(c, t) PROVE Checked'
  <2>1. At(c, t, "insert") /\ pc' = [pc EXCEPT ![t] = "delay"]
    BY <1>11 DEF InsertWaiting, Goto
  <2>2. \A u \in Tasks : u # t => pc[u] # "insert"
    BY <2>1, AtMoves DEF Busy
  <2>3. \A u \in Tasks : pc'[u] # "insert"
    BY <2>1, <2>2, Typed
  <2>4. QED
    BY <2>3 DEF Checked
<1>12. ASSUME NEW c \in Cores, NEW t \in Tasks, Delay(c, t) PROVE Checked'
  <2>1. At(c, t, "delay") /\ then[t] # "insert"
    BY <1>12, Typed DEF Delay
  <2>2. \A u \in Tasks : pc[u] # "insert"
    BY <2>1, AtMoves DEF Busy
  <2>3. \A u \in Tasks : pc'[u] # "insert"
    BY <1>12, <2>1, <2>2, Typed DEF Delay, Goto, Return
  <2>4. QED
    BY <2>3 DEF Checked
<1>13. ASSUME NEW c \in Cores, NEW t \in Tasks, UnlockTx(c, t) PROVE Checked'
  <2>1. At(c, t, "unlocktx") /\ then[t] # "insert"
    BY <1>13, Typed DEF UnlockTx
  <2>2. \A u \in Tasks : pc[u] # "insert"
    BY <2>1, AtMoves DEF Busy
  <2>3. \A u \in Tasks : pc'[u] # "insert"
    BY <1>13, <2>1, <2>2, Typed DEF UnlockTx, Goto, Return
  <2>4. QED
    BY <2>3 DEF Checked
<1>14. ASSUME NEW c \in Cores, NEW t \in Tasks, UnlockRx(c, t) PROVE Checked'
  <2>1. At(c, t, "unlockrx") /\ then[t] # "insert"
    BY <1>14, Typed DEF UnlockRx
  <2>2. \A u \in Tasks : pc[u] # "insert"
    BY <2>1, AtMoves DEF Busy
  <2>3. \A u \in Tasks : pc'[u] # "insert"
    BY <1>14, <2>1, <2>2, Typed DEF UnlockRx, Goto, Return
  <2>4. QED
    BY <2>3 DEF Checked
<1>15. ASSUME NEW c \in Cores, NEW t \in Tasks, ResumeAll(c, t) PROVE Checked'
  <2>1. At(c, t, "resume") /\ then[t] # "insert"
    BY <1>15, Typed DEF ResumeAll
  <2>2. \A u \in Tasks : pc[u] # "insert"
    BY <2>1, AtMoves DEF Busy
  <2>3. \A u \in Tasks : pc'[u] # "insert"
    BY <1>15, <2>1, <2>2, Typed DEF ResumeAll, Goto, Return
  <2>4. QED
    BY <2>3 DEF Checked
<1>16. ASSUME NEW c \in Cores, NEW t \in Tasks, LastLook(c, t) PROVE Checked'
  <2>1. At(c, t, "empty")
    BY <1>16 DEF LastLook
  <2>2. \A u \in Tasks : pc[u] # "insert"
    BY <2>1, AtMoves DEF Busy
  <2>3. \A u \in Tasks : pc'[u] # "insert"
    BY <1>16, <2>2, Typed DEF LastLook, Goto, Return
  <2>4. QED
    BY <2>3 DEF Checked
<1>17. ASSUME NEW c \in Cores, NEW t \in Tasks, Dispatch(c, t) PROVE Checked'
  BY <1>17 DEF Dispatch, ring, locks, frame, QueueInv, Checked
<1>18. ASSUME NEW c \in Cores, NEW t \in Tasks, Elapse(c, t) PROVE Checked'
  BY <1>18 DEF Elapse, ring, locks, QueueInv, Checked
<1>19. ASSUME NEW c \in Cores, NEW t \in Tasks, Expire(c, t) PROVE Checked'
  BY <1>19 DEF Expire, ring, locks, QueueInv, Checked
<1>20. ASSUME NEW c \in Cores, SendFromISR(c) PROVE Checked'
  <2>1. UNCHANGED <<pc, call, rxLock>>
    BY <1>20 DEF SendFromISR, frame
  <2>2. messages' = messages + 1
    <3>1. PICK x \in Items, position \in {"back", "front"} : CopyIn(x, position)
      BY <1>20 DEF SendFromISR
    <3>2. QED
      BY <3>1 DEF CopyIn
  <2>3. CASE txLock = Unlocked
    <3>1. \A u \in Tasks : pc[u] # "insert"
      BY <2>3 DEF QueueInv, Locked, Locking
    <3>2. QED
      BY <2>1, <3>1 DEF Checked
  <2>4. CASE txLock # Unlocked
    <3>1. txLock' = txLock + 1
      BY <1>20, <2>4 DEF SendFromISR
    <3>2. ASSUME NEW u \in Tasks, pc'[u] = "insert"
          PROVE  IF call'[u] \in Sends THEN Length - messages' <= rxLock' ELSE messages' <= txLock'
      <4>1. IF call[u] \in Sends THEN Length - messages <= rxLock ELSE messages <= txLock
        BY <2>1, <3>2 DEF QueueInv, Checked
      <4>2. QED
        BY <2>1, <2>2, <3>1, <4>1, Typed, QueueAssumption
    <3>3. QED
      BY <3>2 DEF Checked
  <2>5. QED
    BY <2>3, <2>4
<1>21. ASSUME NEW c \in Cores, ReceiveFromISR(c) PROVE Checked'
  <2>1. UNCHANGED <<pc, call, txLock>>
    BY <1>21 DEF ReceiveFromISR, frame
  <2>2. messages' = messages - 1
    BY <1>21 DEF ReceiveFromISR, CopyOut
  <2>3. CASE rxLock = Unlocked
    <3>1. \A u \in Tasks : pc[u] # "insert"
      BY <2>3 DEF QueueInv, Locked, Locking
    <3>2. QED
      BY <2>1, <3>1 DEF Checked
  <2>4. CASE rxLock # Unlocked
    <3>1. rxLock' = rxLock + 1
      BY <1>21, <2>4 DEF ReceiveFromISR
    <3>2. ASSUME NEW u \in Tasks, pc'[u] = "insert"
          PROVE  IF call'[u] \in Sends THEN Length - messages' <= rxLock' ELSE messages' <= txLock'
      <4>1. IF call[u] \in Sends THEN Length - messages <= rxLock ELSE messages <= txLock
        BY <2>1, <3>2 DEF QueueInv, Checked
      <4>2. QED
        BY <2>1, <2>2, <3>1, <4>1, Typed, QueueAssumption
    <3>3. QED
      BY <3>2 DEF Checked
  <2>5. QED
    BY <2>3, <2>4
<1>22. CASE UNCHANGED vars
  BY <1>22 DEF vars, ring, locks, frame, QueueInv, Checked
<1>23. QED
  BY <1>1, <1>2, <1>3, <1>4, <1>5, <1>6, <1>7, <1>8, <1>9, <1>10, <1>11,
    <1>12, <1>13, <1>14, <1>15, <1>16, <1>17, <1>18, <1>19, <1>20, <1>21,
    <1>22
    DEF Next, Step

(* Only receivers look again when their time is up.                        *)
LEMMA LookingStep == QueueInv /\ SingleCore /\ [Next]_vars => Looking'
<1> SUFFICES ASSUME QueueInv /\ SingleCore, [Next]_vars PROVE Looking'
  OBVIOUS
<1> USE DEF vars
<1>1. ASSUME NEW c \in Cores, NEW t \in Tasks, Call(c, t) PROVE Looking'
  <2>1. /\ then' = then /\ pc[t] = "idle" /\ pc' = [pc EXCEPT ![t] = "try"]
        /\ \A u \in Tasks : u # t => call'[u] = call[u]
    BY <1>1, Typed DEF Call, At, Goto
  <2>2. then[t] = "try"
    BY <2>1 DEF QueueInv, Looking
  <2>3. QED
    BY <2>1, <2>2, Typed DEF QueueInv, Looking
<1>2. ASSUME NEW c \in Cores, NEW t \in Tasks, Send(c, t) PROVE Looking'
  BY <1>2, Typed DEF Send, At, Goto, Return, QueueInv, Looking
<1>3. ASSUME NEW c \in Cores, NEW t \in Tasks, Receive(c, t) PROVE Looking'
  BY <1>3, Typed DEF Receive, At, Goto, Return, QueueInv, Looking
<1>4. ASSUME NEW c \in Cores, NEW t \in Tasks, Peek(c, t) PROVE Looking'
  BY <1>4, Typed DEF Peek, At, Goto, Return, QueueInv, Looking
<1>5. ASSUME NEW c \in Cores, NEW t \in Tasks, Refuse(c, t) PROVE Looking'
  BY <1>5, Typed DEF Refuse, At, Goto, Return, QueueInv, Looking
<1>6. ASSUME NEW c \in Cores, NEW t \in Tasks, SetTimeOut(c, t) PROVE Looking'
  BY <1>6, Typed DEF SetTimeOut, At, Goto, Return, QueueInv, Looking
<1>7. ASSUME NEW c \in Cores, NEW t \in Tasks, SuspendAll(c, t) PROVE Looking'
  BY <1>7, Typed DEF SuspendAll, At, Goto, Return, QueueInv, Looking
<1>8. ASSUME NEW c \in Cores, NEW t \in Tasks, LockQueue(c, t) PROVE Looking'
  BY <1>8, Typed DEF LockQueue, At, Goto, Return, QueueInv, Looking
<1>9. ASSUME NEW c \in Cores, NEW t \in Tasks, CheckForTimeOut(c, t) PROVE Looking'
  <2>1. call[t] \in Sends \/ call[t] \in Receivers
    BY Typed DEF Calls, Sends, Receivers
  <2>2. QED
    BY <1>9, <2>1, Typed DEF CheckForTimeOut, At, Goto, QueueInv, Looking
<1>10. ASSUME NEW c \in Cores, NEW t \in Tasks, CheckQueue(c, t) PROVE Looking'
  BY <1>10, Typed DEF CheckQueue, At, Goto, Return, QueueInv, Looking
<1>11. ASSUME NEW c \in Cores, NEW t \in Tasks, InsertWaiting(c, t) PROVE Looking'
  BY <1>11, Typed DEF InsertWaiting, At, Goto, Return, QueueInv, Looking
<1>12. ASSUME NEW c \in Cores, NEW t \in Tasks, Delay(c, t) PROVE Looking'
  BY <1>12, Typed DEF Delay, At, Goto, Return, QueueInv, Looking
<1>13. ASSUME NEW c \in Cores, NEW t \in Tasks, UnlockTx(c, t) PROVE Looking'
  BY <1>13, Typed DEF UnlockTx, At, Goto, Return, QueueInv, Looking
<1>14. ASSUME NEW c \in Cores, NEW t \in Tasks, UnlockRx(c, t) PROVE Looking'
  BY <1>14, Typed DEF UnlockRx, At, Goto, Return, QueueInv, Looking
<1>15. ASSUME NEW c \in Cores, NEW t \in Tasks, ResumeAll(c, t) PROVE Looking'
  BY <1>15, Typed DEF ResumeAll, At, Goto, Return, QueueInv, Looking
<1>16. ASSUME NEW c \in Cores, NEW t \in Tasks, LastLook(c, t) PROVE Looking'
  BY <1>16, Typed DEF LastLook, At, Goto, Return, QueueInv, Looking
<1>17. ASSUME NEW c \in Cores, NEW t \in Tasks, Dispatch(c, t) PROVE Looking'
  BY <1>17 DEF Dispatch, frame, QueueInv, Looking
<1>18. ASSUME NEW c \in Cores, NEW t \in Tasks, Elapse(c, t) PROVE Looking'
  BY <1>18 DEF Elapse, frame, QueueInv, Looking
<1>19. ASSUME NEW c \in Cores, NEW t \in Tasks, Expire(c, t) PROVE Looking'
  BY <1>19 DEF Expire, frame, QueueInv, Looking
<1>20. ASSUME NEW c \in Cores, SendFromISR(c) PROVE Looking'
  BY <1>20 DEF SendFromISR, frame, QueueInv, Looking
<1>21. ASSUME NEW c \in Cores, ReceiveFromISR(c) PROVE Looking'
  BY <1>21 DEF ReceiveFromISR, frame, QueueInv, Looking
<1>22. CASE UNCHANGED vars
  BY <1>22 DEF vars, frame, QueueInv, Looking
<1>23. QED
  BY <1>1, <1>2, <1>3, <1>4, <1>5, <1>6, <1>7, <1>8, <1>9, <1>10, <1>11,
    <1>12, <1>13, <1>14, <1>15, <1>16, <1>17, <1>18, <1>19, <1>20, <1>21,
    <1>22
    DEF Next, Step

-----------------------------------------------------------------------------
(* The inductive invariant holds at the start, *)
LEMMA InitInv == SingleCore /\ Init => QueueInv
<1> SUFFICES ASSUME SingleCore, Init PROVE QueueInv
  OBVIOUS
<1>1. Base
  <2>1. Nothing \in Items /\ 0 \in Slots /\ Length - 1 \in Slots /\ 0 \in 0 .. Length
    BY QueueAssumption DEF Nothing, Slots
  <2>2. Unlocked \in Unlocked .. MaxLock /\ <<>> \in Seq(Tasks)
    BY QueueAssumption DEF Unlocked
  <2>3. QED
    BY <2>1, <2>2 DEF Init, Base, TypeOK, Labels, WaitKinds, Calls
<1>2. /\ \A t \in Tasks : pc[t] = "idle"
      /\ \A c \in Cores : ~suspended[c] /\ delayed[c] = {} /\ pending[c] = {}
      /\ toReceive = <<>> /\ toSend = <<>> /\ rxLock = Unlocked /\ txLock = Unlocked
  BY DEF Init
<1>3. Exclusive /\ Locked /\ Checked
  BY <1>2 DEF Exclusive, Locked, Checked, Busy, Locking
<1>4. Events
  BY <1>2 DEF Events, Injective, Listed, ToSet
<1>5. States
  <2>1. \A c \in Cores : ready[c] = Tasks
    BY QueueAssumption DEF Init, SingleCore
  <2>2. QED
    BY <1>2, <2>1 DEF States
<1>6. Looking
  BY DEF Init, Looking
<1>7. QED
  BY <1>1, <1>3, <1>4, <1>5, <1>6 DEF QueueInv

(* and every step keeps it. *)
LEMMA InvStep == QueueInv /\ SingleCore /\ [Next]_vars => QueueInv'
<1> SUFFICES ASSUME QueueInv, SingleCore, [Next]_vars PROVE QueueInv'
  OBVIOUS
<1>1. Base'
  BY TypeStep DEF QueueInv
<1>2. QED
  BY <1>1, ExclusiveStep, EventsStep, StatesStep, CheckedStep, LookingStep DEF QueueInv

(* The inductive invariant of the queue: one task at a time has the        *)
(* scheduler suspended and the queue locked, and the event lists agree     *)
(* with the lists of the scheduler.                                        *)
THEOREM InvariantCorrect == ASSUME SingleCore PROVE Spec => []QueueInv
<1>1. QueueInv /\ [Next]_vars => QueueInv'
  BY InvStep
<1>2. Init => QueueInv
  BY InitInv
<1>3. QED
  BY <1>1, <1>2, PTL DEF Spec

(* While one task has the queue locked, no other takes a task off its event *)
(* lists.                                                                  *)
LEMMA AloneStep == QueueInv /\ SingleCore /\ [Next]_vars => LeaveAlone
<1> SUFFICES ASSUME QueueInv /\ SingleCore, [Next]_vars PROVE LeaveAlone
  OBVIOUS
<1> USE DEF vars
<1>1. ASSUME NEW c \in Cores, NEW t \in Tasks, Call(c, t) PROVE LeaveAlone
  BY <1>1 DEF Call, lists, LeaveAlone
<1>2. ASSUME NEW c \in Cores, NEW t \in Tasks, Send(c, t) PROVE LeaveAlone
  <2>1. At(c, t, "try")
    BY <1>2 DEF Send
  <2>2. rxLock = Unlocked /\ txLock = Unlocked
    BY <2>1, AtMoves DEF Busy
  <2>3. QED
    BY <2>2 DEF LeaveAlone
<1>3. ASSUME NEW c \in Cores, NEW t \in Tasks, Receive(c, t) PROVE LeaveAlone
  <2>1. At(c, t, "try")
    BY <1>3 DEF Receive
  <2>2. rxLock = Unlocked /\ txLock = Unlocked
    BY <2>1, AtMoves DEF Busy
  <2>3. QED
    BY <2>2 DEF LeaveAlone
<1>4. ASSUME NEW c \in Cores, NEW t \in Tasks, Peek(c, t) PROVE LeaveAlone
  <2>1. At(c, t, "try")
    BY <1>4 DEF Peek
  <2>2. rxLock = Unlocked /\ txLock = Unlocked
    BY <2>1, AtMoves DEF Busy
  <2>3. QED
    BY <2>2 DEF LeaveAlone
<1>5. ASSUME NEW c \in Cores, NEW t \in Tasks, Refuse(c, t) PROVE LeaveAlone
  BY <1>5 DEF Refuse, lists, LeaveAlone
<1>6. ASSUME NEW c \in Cores, NEW t \in Tasks, SetTimeOut(c, t) PROVE LeaveAlone
  BY <1>6 DEF SetTimeOut, lists, LeaveAlone
<1>7. ASSUME NEW c \in Cores, NEW t \in Tasks, SuspendAll(c, t) PROVE LeaveAlone
  BY <1>7 DEF SuspendAll, lists, LeaveAlone
<1>8. ASSUME NEW c \in Cores, NEW t \in Tasks, LockQueue(c, t) PROVE LeaveAlone
  BY <1>8 DEF LockQueue, lists, LeaveAlone
<1>9. ASSUME NEW c \in Cores, NEW t \in Tasks, CheckForTimeOut(c, t) PROVE LeaveAlone
  BY <1>9 DEF CheckForTimeOut, lists, LeaveAlone
<1>10. ASSUME NEW c \in Cores, NEW t \in Tasks, CheckQueue(c, t) PROVE LeaveAlone
  BY <1>10 DEF CheckQueue, lists, LeaveAlone
<1>11. ASSUME NEW c \in Cores, NEW t \in Tasks, InsertWaiting(c, t) PROVE LeaveAlone
  <2>1. At(c, t, "insert")
    BY <1>11 DEF InsertWaiting
  <2>2. ~Listed(t)
    <3>1. \A d \in Cores : t \notin delayed[d]
      BY <2>1, AtMoves DEF QueueInv, States
    <3>2. QED
      BY <2>1, <3>1, AtMoves DEF QueueInv, Events
  <2>3. /\ ToSet(Insert(toReceive, t)) = ToSet(toReceive) \cup {t}
        /\ ToSet(Insert(toSend, t)) = ToSet(toSend) \cup {t}
    BY <2>2, InsertOne, Typed DEF QueueInv, Events, Listed
  <2>4. QED
    BY <1>11, <2>3 DEF InsertWaiting, LeaveAlone
<1>12. ASSUME NEW c \in Cores, NEW t \in Tasks, Delay(c, t) PROVE LeaveAlone
  BY <1>12 DEF Delay, lists, LeaveAlone
<1>13. ASSUME NEW c \in Cores, NEW t \in Tasks, UnlockTx(c, t) PROVE LeaveAlone
  BY <1>13 DEF UnlockTx, WakeReceivers, LeaveAlone
<1>14. ASSUME NEW c \in Cores, NEW t \in Tasks, UnlockRx(c, t) PROVE LeaveAlone
  BY <1>14 DEF UnlockRx, WakeSenders, LeaveAlone
<1>15. ASSUME NEW c \in Cores, NEW t \in Tasks, ResumeAll(c, t) PROVE LeaveAlone
  BY <1>15 DEF ResumeAll, lists, LeaveAlone
<1>16. ASSUME NEW c \in Cores, NEW t \in Tasks, LastLook(c, t) PROVE LeaveAlone
  BY <1>16 DEF LastLook, lists, LeaveAlone
<1>17. ASSUME NEW c \in Cores, NEW t \in Tasks, Dispatch(c, t) PROVE LeaveAlone
  BY <1>17 DEF Dispatch, lists, LeaveAlone
<1>18. ASSUME NEW c \in Cores, NEW t \in Tasks, Elapse(c, t) PROVE LeaveAlone
  BY <1>18 DEF Elapse, lists, LeaveAlone
<1>19. ASSUME NEW c \in Cores, NEW t \in Tasks, Expire(c, t) PROVE LeaveAlone
  <2>1. ~suspended[c]
    BY <1>19 DEF Expire
  <2>2. rxLock = Unlocked /\ txLock = Unlocked
    BY <2>1 DEF QueueInv, Exclusive, Locked, Locking, Busy
  <2>3. QED
    BY <2>2 DEF LeaveAlone
<1>20. ASSUME NEW c \in Cores, SendFromISR(c) PROVE LeaveAlone
  BY <1>20 DEF SendFromISR, lists, WakeReceivers, LeaveAlone
<1>21. ASSUME NEW c \in Cores, ReceiveFromISR(c) PROVE LeaveAlone
  BY <1>21 DEF ReceiveFromISR, lists, WakeSenders, LeaveAlone
<1>22. CASE UNCHANGED vars
  BY <1>22 DEF vars, lists, LeaveAlone
<1>23. QED
  BY <1>1, <1>2, <1>3, <1>4, <1>5, <1>6, <1>7, <1>8, <1>9, <1>10, <1>11,
    <1>12, <1>13, <1>14, <1>15, <1>16, <1>17, <1>18, <1>19, <1>20, <1>21,
    <1>22
    DEF Next, Step

(* No task is lost between the event lists and the lists of the scheduler: *)
(* it is on one event list if it sleeps, and on none when it has been      *)
(* woken.                                                                  *)
THEOREM NoTaskForgottenCorrect == ASSUME SingleCore PROVE Spec => []NoTaskForgotten
<1>1. ASSUME NEW s \in Seq(Tasks), NEW t \in Tasks, Injective(s)
      PROVE  Cardinality({i \in DOMAIN s : s[i] = t}) = IF t \in ToSet(s) THEN 1 ELSE 0
  <2>1. CASE t \in ToSet(s)
    <3>1. PICK k \in DOMAIN s : s[k] = t
      BY <2>1 DEF ToSet
    <3>2. {i \in DOMAIN s : s[i] = t} = {k}
      BY <1>1, <3>1 DEF Injective
    <3>3. QED
      BY <2>1, <3>2, FS_Singleton
  <2>2. CASE t \notin ToSet(s)
    <3>1. {i \in DOMAIN s : s[i] = t} = {}
      BY <2>2 DEF ToSet
    <3>2. QED
      BY <2>2, <3>1, FS_EmptySet
  <2>3. QED
    BY <2>1, <2>2
<1>2. QueueInv => NoTaskForgotten
  <2> SUFFICES ASSUME QueueInv, NEW t \in Tasks
               PROVE  Cardinality({i \in DOMAIN toReceive : toReceive[i] = t})
                        + Cardinality({i \in DOMAIN toSend : toSend[i] = t})
                      = IF pc[t] = "delay" \/ \E d \in Cores : t \in delayed[d] \ pending[d]
                          THEN 1 ELSE 0
    BY DEF NoTaskForgotten, QueueInv, Base
  <2>1. /\ Injective(toReceive) /\ Injective(toSend)
        /\ ~(t \in ToSet(toReceive) /\ t \in ToSet(toSend))
    BY DEF QueueInv, Events, Receivers, Sends
  <2>2. Listed(t) <=> pc[t] = "delay" \/ \E d \in Cores : t \in delayed[d] \ pending[d]
    BY QueueAssumption DEF QueueInv, Events
  <2>3. /\ Cardinality({i \in DOMAIN toReceive : toReceive[i] = t})
             = IF t \in ToSet(toReceive) THEN 1 ELSE 0
        /\ Cardinality({i \in DOMAIN toSend : toSend[i] = t})
             = IF t \in ToSet(toSend) THEN 1 ELSE 0
    BY <1>1, <2>1, Typed
  <2>4. QED
    BY <2>1, <2>2, <2>3 DEF Listed
<1>3. QueueInv /\ [Next]_vars => QueueInv'
  BY InvStep
<1>4. Init => QueueInv
  BY InitInv
<1>5. QED
  BY <1>2, <1>3, <1>4, PTL DEF Spec

(* Suspending the scheduler of the one core gives the task that locks the  *)
(* queue the event lists for itself.                                       *)
THEOREM LockedListsAreLeftAloneCorrect ==
    ASSUME SingleCore PROVE Spec => LockedListsAreLeftAlone
<1>1. QueueInv /\ [Next]_vars => QueueInv' /\ [LeaveAlone]_vars
  BY InvStep, AloneStep
<1>2. Init => QueueInv
  BY InitInv
<1>3. QED
  BY <1>1, <1>2, PTL DEF Spec, LockedListsAreLeftAlone

-----------------------------------------------------------------------------
(* Of the tasks that are on their way to the queue, some may leave and      *)
(* others join.                                                            *)
LEMMA Counted ==
    ASSUME NEW A \in SUBSET Tasks, NEW B \in SUBSET Tasks, NEW L \in SUBSET Tasks,
           NEW W \in SUBSET Tasks, A \cap W = {}, (A \ L) \cup W \subseteq B
    PROVE  /\ Cardinality(A) \in Nat /\ Cardinality(B) \in Nat
           /\ Cardinality(L) \in Nat /\ Cardinality(W) \in Nat
           /\ Cardinality(A) + Cardinality(W) <= Cardinality(B) + Cardinality(L)
<1>1. \A S \in SUBSET Tasks : IsFiniteSet(S) /\ Cardinality(S) \in Nat
  BY QueueAssumption, FS_Subset, FS_CardinalityType
<1>2. Cardinality(A \ L) = Cardinality(A) - Cardinality(A \cap L)
  <2>1. A \cap L \in SUBSET Tasks /\ A \ L \in SUBSET Tasks /\ (A \ L) \cap (A \cap L) = {}
        /\ (A \ L) \cup (A \cap L) = A
    OBVIOUS
  <2>2. Cardinality(A) = Cardinality(A \ L) + Cardinality(A \cap L) - Cardinality((A \ L) \cap (A \cap L))
    BY <1>1, <2>1, FS_Union
  <2>3. QED
    BY <1>1, <2>1, <2>2, FS_EmptySet
<1>3. Cardinality(A \cap L) <= Cardinality(L)
  BY <1>1, FS_Subset
<1>4. Cardinality((A \ L) \cup W) = Cardinality(A \ L) + Cardinality(W)
  <2>1. (A \ L) \cap W = {} /\ A \ L \in SUBSET Tasks
    OBVIOUS
  <2>2. Cardinality((A \ L) \cup W) = Cardinality(A \ L) + Cardinality(W) - Cardinality((A \ L) \cap W)
    BY <1>1, <2>1, FS_Union
  <2>3. QED
    BY <1>1, <2>1, <2>2, FS_EmptySet
<1>5. Cardinality((A \ L) \cup W) <= Cardinality(B)
  BY <1>1, FS_Subset
<1>6. A \ L \in SUBSET Tasks /\ A \cap L \in SUBSET Tasks
  OBVIOUS
<1>7. QED
  BY <1>1, <1>2, <1>3, <1>4, <1>5, <1>6

(* A list is empty when nobody is on it. *)
LEMMA NobodyListed ==
    ASSUME NEW s \in Seq(Tasks)
    PROVE  s # <<>> <=> ToSet(s) # {}
<1>1. ToSet(s) = {s[i] : i \in 1 .. Len(s)}
  BY DEF ToSet
<1>2. QED
  BY <1>1

(* The tasks on their way to the queue *)
Lookers == Retrying({"receive", "peek"}, toReceive)
Putters == Retrying(Sends, toSend)

(* Enough receivers are on their way, when some have left, some have been       *)
(* woken, and items and the lock have changed by as much.                  *)
LEMMA ReceiversEnough ==
    ASSUME QueueInv, NoStrandedReceiver, Base', NEW L \in SUBSET Tasks, NEW W \in SUBSET Tasks,
           W \subseteq ToSet(toReceive), ToSet(toReceive') = ToSet(toReceive) \ W,
           \A u \in (Lookers \ L) \cup W : call'[u] = call[u] /\ Retries(u)',
           toReceive' # <<>> =>
               (messages') + Cardinality(L) + Noted(txLock)
                 <= (messages) + Cardinality(W) + Noted(txLock')
    PROVE  NoStrandedReceiver'
<1> SUFFICES ASSUME toReceive' # <<>> PROVE messages' <= Cardinality(Lookers') + Noted(txLock')
  BY DEF NoStrandedReceiver, Lookers
<1>1. toReceive \in Seq(Tasks) /\ toReceive' \in Seq(Tasks)
  BY DEF QueueInv, Base, TypeOK
<1>2. toReceive # <<>>
  BY <1>1, NobodyListed
<1>3. messages <= Cardinality(Lookers) + Noted(txLock)
  BY <1>2 DEF NoStrandedReceiver, Lookers
<1>4. \A u \in ToSet(toReceive) : call[u] \in {"receive", "peek"}
  BY DEF QueueInv, Events, Receivers
<1>5. Lookers \in SUBSET Tasks /\ Lookers' \in SUBSET Tasks /\ Lookers \cap W = {}
  BY DEF Lookers, Retrying
<1>6. (Lookers \ L) \cup W \subseteq Lookers'
  BY <1>4 DEF Lookers, Retrying
<1>7. /\ Cardinality(Lookers) \in Nat /\ Cardinality(Lookers') \in Nat /\ Cardinality(L) \in Nat
      /\ Cardinality(W) \in Nat
      /\ Cardinality(Lookers) + Cardinality(W) <= Cardinality(Lookers') + Cardinality(L)
  BY <1>5, <1>6, Counted
<1>8. /\ messages \in Int /\ messages' \in Int /\ Length \in Int
      /\ Noted(txLock) \in Int /\ Noted(txLock') \in Int
  BY QueueAssumption DEF QueueInv, Base, TypeOK, Noted, Unlocked
<1>9. QED
  BY <1>3, <1>7, <1>8

(* The same when none leaves and none is woken. *)
LEMMA ReceiversKept ==
    ASSUME QueueInv, NoStrandedReceiver, Base', UNCHANGED toReceive,
           \A u \in Lookers : call'[u] = call[u] /\ Retries(u)',
           (messages') + Noted(txLock) <= (messages) + Noted(txLock')
    PROVE  NoStrandedReceiver'
<1>1. Cardinality({}) = 0
  BY FS_EmptySet
<1>2. /\ messages \in Int /\ messages' \in Int /\ Length \in Int
      /\ Noted(txLock) \in Int /\ Noted(txLock') \in Int
  BY QueueAssumption DEF QueueInv, Base, TypeOK, Noted, Unlocked
<1>3. (messages') + Cardinality({}) + Noted(txLock)
        <= (messages) + Cardinality({}) + Noted(txLock')
  BY <1>1, <1>2
<1>4. QED
  BY <1>3, ReceiversEnough

(* Enough senders are on their way, when some have left, some have been       *)
(* woken, and places and the lock have changed by as much.                  *)
LEMMA SendersEnough ==
    ASSUME QueueInv, NoStrandedSender, Base', NEW L \in SUBSET Tasks, NEW W \in SUBSET Tasks,
           W \subseteq ToSet(toSend), ToSet(toSend') = ToSet(toSend) \ W,
           \A u \in (Putters \ L) \cup W : call'[u] = call[u] /\ Retries(u)',
           toSend' # <<>> =>
               (Length - messages') + Cardinality(L) + Noted(rxLock)
                 <= (Length - messages) + Cardinality(W) + Noted(rxLock')
    PROVE  NoStrandedSender'
<1> SUFFICES ASSUME toSend' # <<>> PROVE Length - messages' <= Cardinality(Putters') + Noted(rxLock')
  BY DEF NoStrandedSender, Putters
<1>1. toSend \in Seq(Tasks) /\ toSend' \in Seq(Tasks)
  BY DEF QueueInv, Base, TypeOK
<1>2. toSend # <<>>
  BY <1>1, NobodyListed
<1>3. Length - messages <= Cardinality(Putters) + Noted(rxLock)
  BY <1>2 DEF NoStrandedSender, Putters
<1>4. \A u \in ToSet(toSend) : call[u] \in Sends
  BY DEF QueueInv, Events, Receivers
<1>5. Putters \in SUBSET Tasks /\ Putters' \in SUBSET Tasks /\ Putters \cap W = {}
  BY DEF Putters, Retrying
<1>6. (Putters \ L) \cup W \subseteq Putters'
  BY <1>4 DEF Putters, Retrying
<1>7. /\ Cardinality(Putters) \in Nat /\ Cardinality(Putters') \in Nat /\ Cardinality(L) \in Nat
      /\ Cardinality(W) \in Nat
      /\ Cardinality(Putters) + Cardinality(W) <= Cardinality(Putters') + Cardinality(L)
  BY <1>5, <1>6, Counted
<1>8. /\ messages \in Int /\ messages' \in Int /\ Length \in Int
      /\ Noted(rxLock) \in Int /\ Noted(rxLock') \in Int
  BY QueueAssumption DEF QueueInv, Base, TypeOK, Noted, Unlocked
<1>9. QED
  BY SMTT(30), <1>3, <1>7, <1>8

(* The same when none leaves and none is woken. *)
LEMMA SendersKept ==
    ASSUME QueueInv, NoStrandedSender, Base', UNCHANGED toSend,
           \A u \in Putters : call'[u] = call[u] /\ Retries(u)',
           (Length - messages') + Noted(rxLock) <= (Length - messages) + Noted(rxLock')
    PROVE  NoStrandedSender'
<1>1. Cardinality({}) = 0
  BY FS_EmptySet
<1>2. /\ messages \in Int /\ messages' \in Int /\ Length \in Int
      /\ Noted(rxLock) \in Int /\ Noted(rxLock') \in Int
  BY QueueAssumption DEF QueueInv, Base, TypeOK, Noted, Unlocked
<1>3. (Length - messages') + Cardinality({}) + Noted(rxLock)
        <= (Length - messages) + Cardinality({}) + Noted(rxLock')
  BY <1>1, <1>2
<1>4. QED
  BY <1>3, SendersEnough

(* Nothing is left to wake anybody for. *)
LEMMA NoneLeft ==
    Base' => /\ messages' = 0 => NoStrandedReceiver'
             /\ Length - messages' = 0 => NoStrandedSender'
<1> SUFFICES ASSUME Base'
             PROVE  /\ messages' = 0 => NoStrandedReceiver'
                    /\ Length - messages' = 0 => NoStrandedSender'
  OBVIOUS
<1>1. Lookers' \in SUBSET Tasks /\ Putters' \in SUBSET Tasks
  BY DEF Lookers, Putters, Retrying
<1>2. Cardinality(Lookers') \in Nat /\ Cardinality(Putters') \in Nat
  BY <1>1, QueueAssumption, FS_Subset, FS_CardinalityType
<1>3. Noted(txLock') \in Nat /\ Noted(rxLock') \in Nat
  BY QueueAssumption DEF Base, TypeOK, Noted, Unlocked
<1>4. ASSUME messages' = 0 PROVE NoStrandedReceiver'
  BY <1>2, <1>3, <1>4 DEF NoStrandedReceiver, Lookers
<1>5. ASSUME Length - messages' = 0 PROVE NoStrandedSender'
  BY <1>2, <1>3, <1>5 DEF NoStrandedSender, Putters
<1>6. QED
  BY <1>4, <1>5

(* No step leaves receivers behind an item.                                *)
LEMMA ReceiverStep == QueueInv /\ SingleCore /\ NoStrandedReceiver /\ [Next]_vars => NoStrandedReceiver'
<1> SUFFICES ASSUME QueueInv /\ SingleCore /\ NoStrandedReceiver, [Next]_vars PROVE NoStrandedReceiver'
  OBVIOUS
<1> USE DEF vars
<1>0. Base'
  BY TypeStep DEF QueueInv
<1>1. ASSUME NEW c \in Cores, NEW t \in Tasks, Call(c, t) PROVE NoStrandedReceiver'
  <2>1. At(c, t, "idle") /\ UNCHANGED <<messages, toReceive>> /\ Noted(txLock') = Noted(txLock)
    BY <1>1 DEF Call, ring, locks, lists
  <2>2. \A u \in Lookers : call'[u] = call[u] /\ Retries(u)'
    BY <1>1, <2>1, AtMoves, Typed DEF Call, Goto, Return, Lookers, Retrying, Retries, Busy
  <2>3. QED
    BY <1>0, <2>1, <2>2, ReceiversKept, Typed DEF Noted
<1>2. ASSUME NEW c \in Cores, NEW t \in Tasks, Send(c, t) PROVE NoStrandedReceiver'
  <2>1. /\ At(c, t, "try") /\ WakeReceivers(c, 1) /\ UNCHANGED <<call, txLock>>
        /\ \A u \in Tasks : u # t => pc'[u] = pc[u] /\ then'[u] = then[u]
    BY <1>2, Typed DEF Send, Return, locks
  <2>2. t \notin delayed[c] /\ \A u \in Tasks : pc[u] # "delay"
    BY <2>1, AtMoves DEF Busy
  <2>3. messages' \in Int /\ messages' <= messages + 1
    <3>1. PICK x \in Items : CopyIn(x, call[t])
      BY <1>2 DEF Send
    <3>2. QED
      BY <3>1, Typed DEF CopyIn
  <2>4. PICK W \in SUBSET Tasks :
          /\ W \subseteq ToSet(toReceive) /\ W \subseteq delayed[c]
          /\ ToSet(toReceive') = ToSet(toReceive) \ W
          /\ toReceive' # <<>> => Cardinality(W) >= 1
    BY <2>1, <2>2, ReceiversWake
  <2>5. \A u \in W : u # t /\ Retries(u)
    BY <2>2, <2>4 DEF QueueInv, States, Retries
  <2>6. \A u \in (Lookers \ {}) \cup W : call'[u] = call[u] /\ Retries(u)'
    BY <1>2, <2>1, <2>5 DEF Send, Lookers, Retrying, Retries, Sends
  <2>7. Cardinality(W) \in Nat /\ Cardinality({}) = 0
    BY QueueAssumption, FS_Subset, FS_CardinalityType, FS_EmptySet
  <2>8. ASSUME toReceive' # <<>>
        PROVE  (messages') + Cardinality({}) + Noted(txLock)
                 <= (messages) + Cardinality(W) + Noted(txLock')
    BY <2>1, <2>3, <2>4, <2>7, <2>8, Typed DEF Noted
  <2>9. {} \in SUBSET Tasks
    OBVIOUS
  <2>10. QED
    BY <1>0, <2>4, <2>6, <2>8, <2>9, ReceiversEnough
<1>3. ASSUME NEW c \in Cores, NEW t \in Tasks, Receive(c, t) PROVE NoStrandedReceiver'
  <2>1. /\ At(c, t, "try") /\ UNCHANGED <<call, toReceive, txLock>>
        /\ \A u \in Tasks : u # t => pc'[u] = pc[u] /\ then'[u] = then[u]
    BY <1>3, Typed DEF Receive, Return, locks, WakeSenders, WakeReceivers
  <2>2. messages' = messages - 1
    BY <1>3 DEF Receive, CopyOut
  <2>3. \A u \in (Lookers \ {t}) \cup {} : call'[u] = call[u] /\ Retries(u)'
    BY <2>1 DEF Lookers, Retrying, Retries
  <2>4. Cardinality({t}) = 1 /\ Cardinality({}) = 0
    BY FS_Singleton, FS_EmptySet
  <2>5. (messages') + Cardinality({t}) + Noted(txLock)
          <= (messages) + Cardinality({}) + Noted(txLock')
    BY <2>1, <2>2, <2>4, Typed DEF Noted
  <2>6. QED
    BY <1>0, <2>1, <2>3, <2>5, ReceiversEnough
<1>4. ASSUME NEW c \in Cores, NEW t \in Tasks, Peek(c, t) PROVE NoStrandedReceiver'
  <2>1. /\ At(c, t, "try") /\ WakeReceivers(c, 1) /\ UNCHANGED <<call, txLock>>
        /\ \A u \in Tasks : u # t => pc'[u] = pc[u] /\ then'[u] = then[u]
    BY <1>4, Typed DEF Peek, Return, locks
  <2>2. t \notin delayed[c] /\ \A u \in Tasks : pc[u] # "delay"
    BY <2>1, AtMoves DEF Busy
  <2>3. messages' = messages
    BY <1>4 DEF Peek, ring
  <2>4. PICK W \in SUBSET Tasks :
          /\ W \subseteq ToSet(toReceive) /\ W \subseteq delayed[c]
          /\ ToSet(toReceive') = ToSet(toReceive) \ W
          /\ toReceive' # <<>> => Cardinality(W) >= 1
    BY <2>1, <2>2, ReceiversWake
  <2>5. \A u \in W : u # t /\ Retries(u)
    BY <2>2, <2>4 DEF QueueInv, States, Retries
  <2>6. \A u \in (Lookers \ {t}) \cup W : call'[u] = call[u] /\ Retries(u)'
    BY <1>4, <2>1, <2>5 DEF Peek, Lookers, Retrying, Retries, Sends
  <2>7. Cardinality(W) \in Nat /\ Cardinality({t}) = 1
    BY QueueAssumption, FS_Subset, FS_CardinalityType, FS_Singleton
  <2>8. ASSUME toReceive' # <<>>
        PROVE  (messages') + Cardinality({t}) + Noted(txLock)
                 <= (messages) + Cardinality(W) + Noted(txLock')
    BY <2>1, <2>3, <2>4, <2>7, <2>8, Typed DEF Noted
  <2>9. {t} \in SUBSET Tasks
    OBVIOUS
  <2>10. QED
    BY <1>0, <2>4, <2>6, <2>8, <2>9, ReceiversEnough
<1>5. ASSUME NEW c \in Cores, NEW t \in Tasks, Refuse(c, t) PROVE NoStrandedReceiver'
  <2>1. At(c, t, "try") /\ ~Possible(t) /\ UNCHANGED <<messages, toReceive, txLock>>
    BY <1>5 DEF Refuse, ring, locks, lists
  <2>2. CASE call[t] \in {"receive", "peek"}
    <3>1. messages = 0
      <4>1. Possible(t) <=> messages > 0
        BY <2>1, <2>2 DEF Possible, Sends
      <4>2. QED
        BY <2>1, <4>1, Typed
    <3>2. messages' = 0
      BY <2>1, <3>1, Typed
    <3>3. QED
      BY <1>0, <3>2, NoneLeft
  <2>3. CASE ~(call[t] \in {"receive", "peek"})
    <3>1. \A u \in Lookers : call'[u] = call[u] /\ Retries(u)'
      BY <1>5, <2>1, <2>3, Typed DEF Refuse, Goto, Return, Lookers, Retrying, Retries
    <3>2. QED
      BY <1>0, <2>1, <3>1, ReceiversKept, Typed DEF Noted
  <2>4. QED
    BY <2>2, <2>3
<1>6. ASSUME NEW c \in Cores, NEW t \in Tasks, SetTimeOut(c, t) PROVE NoStrandedReceiver'
  <2>1. At(c, t, "try") /\ ~Possible(t) /\ UNCHANGED <<messages, toReceive, txLock>>
    BY <1>6 DEF SetTimeOut, ring, locks, lists
  <2>2. CASE call[t] \in {"receive", "peek"}
    <3>1. messages = 0
      <4>1. Possible(t) <=> messages > 0
        BY <2>1, <2>2 DEF Possible, Sends
      <4>2. QED
        BY <2>1, <4>1, Typed
    <3>2. messages' = 0
      BY <2>1, <3>1, Typed
    <3>3. QED
      BY <1>0, <3>2, NoneLeft
  <2>3. CASE ~(call[t] \in {"receive", "peek"})
    <3>1. \A u \in Lookers : call'[u] = call[u] /\ Retries(u)'
      BY <1>6, <2>1, <2>3, Typed DEF SetTimeOut, Goto, Return, Lookers, Retrying, Retries
    <3>2. QED
      BY <1>0, <2>1, <3>1, ReceiversKept, Typed DEF Noted
  <2>4. QED
    BY <2>2, <2>3
<1>7. ASSUME NEW c \in Cores, NEW t \in Tasks, SuspendAll(c, t) PROVE NoStrandedReceiver'
  <2>1. At(c, t, "suspend") /\ UNCHANGED <<messages, toReceive>> /\ Noted(txLock') = Noted(txLock)
    BY <1>7 DEF SuspendAll, ring, locks, lists
  <2>2. \A u \in Lookers : call'[u] = call[u] /\ Retries(u)'
    BY <1>7, <2>1, AtMoves, Typed DEF SuspendAll, Goto, Return, Lookers, Retrying, Retries, Busy
  <2>3. QED
    BY <1>0, <2>1, <2>2, ReceiversKept, Typed DEF Noted
<1>8. ASSUME NEW c \in Cores, NEW t \in Tasks, LockQueue(c, t) PROVE NoStrandedReceiver'
  <2>1. At(c, t, "lock") /\ UNCHANGED <<messages, toReceive>> /\ Noted(txLock') = Noted(txLock)
    BY <1>8 DEF LockQueue, ring, locks, lists, Noted, Unlocked
  <2>2. \A u \in Lookers : call'[u] = call[u] /\ Retries(u)'
    BY <1>8, <2>1, AtMoves, Typed DEF LockQueue, Goto, Return, Lookers, Retrying, Retries, Busy
  <2>3. QED
    BY <1>0, <2>1, <2>2, ReceiversKept, Typed DEF Noted
<1>9. ASSUME NEW c \in Cores, NEW t \in Tasks, CheckForTimeOut(c, t) PROVE NoStrandedReceiver'
  <2>1. At(c, t, "timeout") /\ UNCHANGED <<messages, toReceive>> /\ Noted(txLock') = Noted(txLock)
    BY <1>9 DEF CheckForTimeOut, ring, locks, lists
  <2>2. \A u \in Lookers : call'[u] = call[u] /\ Retries(u)'
    BY <1>9, <2>1, AtMoves, Typed DEF CheckForTimeOut, Goto, Return, Lookers, Retrying, Retries, Busy
  <2>3. QED
    BY <1>0, <2>1, <2>2, ReceiversKept, Typed DEF Noted
<1>10. ASSUME NEW c \in Cores, NEW t \in Tasks, CheckQueue(c, t) PROVE NoStrandedReceiver'
  <2>1. At(c, t, "check") /\ UNCHANGED <<messages, toReceive>> /\ Noted(txLock') = Noted(txLock)
    BY <1>10 DEF CheckQueue, ring, locks, lists
  <2>2. \A u \in Lookers : call'[u] = call[u] /\ Retries(u)'
    BY <1>10, <2>1, AtMoves, Typed DEF CheckQueue, Goto, Return, Lookers, Retrying, Retries, Busy
  <2>3. QED
    BY <1>0, <2>1, <2>2, ReceiversKept, Typed DEF Noted
<1>11. ASSUME NEW c \in Cores, NEW t \in Tasks, InsertWaiting(c, t) PROVE NoStrandedReceiver'
  <2>1. At(c, t, "insert") /\ pc[t] = "insert" /\ UNCHANGED <<messages, txLock>>
    BY <1>11 DEF InsertWaiting, At, ring, locks
  <2>2. CASE call[t] \in {"receive", "peek"}
    <3>1. messages <= txLock /\ txLock # Unlocked
      BY <2>1, <2>2 DEF QueueInv, Checked, Locked, Locking, Sends
    <3>2. SUFFICES messages' <= Cardinality(Lookers') + Noted(txLock')
      BY DEF NoStrandedReceiver, Lookers
    <3>3. Cardinality(Lookers') \in Nat
      <4>1. Lookers' \in SUBSET Tasks
        BY DEF Lookers, Retrying
      <4>2. QED
        BY <4>1, QueueAssumption, FS_Subset, FS_CardinalityType
    <3>4. QED
      BY <2>1, <3>1, <3>3, Typed, QueueAssumption DEF Noted
  <2>3. CASE ~(call[t] \in {"receive", "peek"})
    <3>1. UNCHANGED toReceive
      BY <1>11, <2>3, Typed DEF InsertWaiting, Calls, Sends
    <3>2. \A u \in Lookers : call'[u] = call[u] /\ Retries(u)'
      BY <1>11, <2>1, Typed DEF InsertWaiting, Goto, Lookers, Retrying, Retries
    <3>3. QED
      BY <1>0, <2>1, <3>1, <3>2, ReceiversKept, Typed DEF Noted
  <2>4. QED
    BY <2>2, <2>3
<1>12. ASSUME NEW c \in Cores, NEW t \in Tasks, Delay(c, t) PROVE NoStrandedReceiver'
  <2>1. At(c, t, "delay") /\ UNCHANGED <<messages, toReceive>> /\ Noted(txLock') = Noted(txLock)
    BY <1>12 DEF Delay, ring, locks, lists
  <2>2. \A u \in Lookers : call'[u] = call[u] /\ Retries(u)'
    BY <1>12, <2>1, AtMoves, Typed DEF Delay, Goto, Return, Lookers, Retrying, Retries, Busy
  <2>3. QED
    BY <1>0, <2>1, <2>2, ReceiversKept, Typed DEF Noted
<1>13. ASSUME NEW c \in Cores, NEW t \in Tasks, UnlockTx(c, t) PROVE NoStrandedReceiver'
  <2>1. /\ At(c, t, "unlocktx") /\ WakeReceivers(c, Noted(txLock)) /\ UNCHANGED <<call, messages, then>>
        /\ txLock' = Unlocked /\ \A u \in Tasks : u # t => pc'[u] = pc[u]
        /\ pc'[t] \in {"unlockrx", "resume"}
    BY <1>13, Typed DEF UnlockTx, Goto, Noted, ring
  <2>2. pc[t] = "unlocktx" /\ \A u \in Tasks : pc[u] # "delay"
    BY <2>1, AtMoves DEF Busy
  <2>3. Noted(txLock) \in Nat /\ Noted(txLock') = 0
    BY <2>1, Typed, QueueAssumption DEF Noted
  <2>4. PICK W \in SUBSET Tasks :
          /\ W \subseteq ToSet(toReceive) /\ W \subseteq delayed[c]
          /\ ToSet(toReceive') = ToSet(toReceive) \ W
          /\ toReceive' # <<>> => Cardinality(W) >= Noted(txLock)
    BY <2>1, <2>2, <2>3, ReceiversWake
  <2>5. \A u \in W : Retries(u)
    BY <2>4 DEF QueueInv, States, Retries
  <2>6. \A u \in (Lookers \ {}) \cup W : call'[u] = call[u] /\ Retries(u)'
    BY <2>1, <2>2, <2>5 DEF Lookers, Retrying, Retries
  <2>7. Cardinality(W) \in Nat /\ Cardinality({}) = 0
    BY QueueAssumption, FS_Subset, FS_CardinalityType, FS_EmptySet
  <2>8. ASSUME toReceive' # <<>>
        PROVE  (messages') + Cardinality({}) + Noted(txLock)
                 <= (messages) + Cardinality(W) + Noted(txLock')
    BY <2>1, <2>3, <2>4, <2>7, <2>8, Typed
  <2>9. QED
    BY <1>0, <2>4, <2>6, <2>8, ReceiversEnough
<1>14. ASSUME NEW c \in Cores, NEW t \in Tasks, UnlockRx(c, t) PROVE NoStrandedReceiver'
  <2>1. At(c, t, "unlockrx") /\ UNCHANGED <<messages, toReceive>> /\ Noted(txLock') = Noted(txLock)
    BY <1>14 DEF UnlockRx, ring, locks, lists, WakeSenders, WakeReceivers
  <2>2. \A u \in Lookers : call'[u] = call[u] /\ Retries(u)'
    BY <1>14, <2>1, AtMoves, Typed DEF UnlockRx, Goto, Return, Lookers, Retrying, Retries, Busy
  <2>3. QED
    BY <1>0, <2>1, <2>2, ReceiversKept, Typed DEF Noted
<1>15. ASSUME NEW c \in Cores, NEW t \in Tasks, ResumeAll(c, t) PROVE NoStrandedReceiver'
  <2>1. At(c, t, "resume") /\ UNCHANGED <<messages, toReceive>> /\ Noted(txLock') = Noted(txLock)
    BY <1>15 DEF ResumeAll, ring, locks, lists
  <2>2. \A u \in Lookers : call'[u] = call[u] /\ Retries(u)'
    BY <1>15, <2>1, AtMoves, Typed DEF ResumeAll, Goto, Return, Lookers, Retrying, Retries, Busy
  <2>3. QED
    BY <1>0, <2>1, <2>2, ReceiversKept, Typed DEF Noted
<1>16. ASSUME NEW c \in Cores, NEW t \in Tasks, LastLook(c, t) PROVE NoStrandedReceiver'
  <2>1. /\ At(c, t, "empty") /\ UNCHANGED <<messages, toReceive, txLock>>
        /\ pc[t] = "empty"
    BY <1>16 DEF LastLook, At, ring, locks, lists
  <2>2. CASE messages = 0
    <3>1. messages' = 0
      BY <2>1, <2>2
    <3>2. QED
      BY <1>0, <3>1, NoneLeft
  <2>3. CASE messages # 0
    <3>1. \A u \in Lookers : call'[u] = call[u] /\ Retries(u)'
      BY <1>16, <2>1, <2>3, Typed DEF LastLook, Goto, Lookers, Retrying, Retries
    <3>2. QED
      BY <1>0, <2>1, <3>1, ReceiversKept, Typed DEF Noted
  <2>4. QED
    BY <2>2, <2>3
<1>17. ASSUME NEW c \in Cores, NEW t \in Tasks, Dispatch(c, t) PROVE NoStrandedReceiver'
  <2>1. UNCHANGED <<messages, toReceive, txLock, pc, then, call>>
    BY <1>17 DEF Dispatch, ring, locks, lists, frame
  <2>2. \A u \in Lookers : call'[u] = call[u] /\ Retries(u)'
    BY <2>1 DEF Lookers, Retrying, Retries
  <2>3. QED
    BY <1>0, <2>1, <2>2, ReceiversKept, Typed DEF Noted
<1>18. ASSUME NEW c \in Cores, NEW t \in Tasks, Elapse(c, t) PROVE NoStrandedReceiver'
  <2>1. UNCHANGED <<messages, toReceive, txLock, pc, then, call>>
    BY <1>18 DEF Elapse, ring, locks, lists
  <2>2. \A u \in Lookers : call'[u] = call[u] /\ Retries(u)'
    BY <2>1 DEF Lookers, Retrying, Retries
  <2>3. QED
    BY <1>0, <2>1, <2>2, ReceiversKept, Typed DEF Noted
<1>19. ASSUME NEW c \in Cores, NEW t \in Tasks, Expire(c, t) PROVE NoStrandedReceiver'
  <2>1. /\ t \in delayed[c] /\ UNCHANGED <<messages, txLock, pc, then, call>>
        /\ toReceive' = Unlink(toReceive, t)
    BY <1>19 DEF Expire, ring, locks
  <2> DEFINE W == ToSet(toReceive) \cap {t}
  <2>2. W \in SUBSET Tasks /\ W \subseteq ToSet(toReceive) /\ ToSet(toReceive') = ToSet(toReceive) \ W
    <3>1. ToSet(toReceive') = ToSet(toReceive) \ {t}
      BY <2>1, UnlinkOne, Typed DEF QueueInv, Events
    <3>2. QED
      BY <3>1
  <2>3. Retries(t)
    BY <2>1 DEF QueueInv, States, Retries
  <2>4. \A u \in (Lookers \ {}) \cup W : call'[u] = call[u] /\ Retries(u)'
    BY <2>1, <2>3 DEF Lookers, Retrying, Retries
  <2>5. Cardinality(W) \in Nat /\ Cardinality({}) = 0
    BY <2>2, QueueAssumption, FS_Subset, FS_CardinalityType, FS_EmptySet
  <2> HIDE DEF W
  <2>6. (messages') + Cardinality({}) + Noted(txLock)
          <= (messages) + Cardinality(W) + Noted(txLock')
    BY <2>1, <2>5, Typed DEF Noted
  <2>7. QED
    BY <1>0, <2>2, <2>4, <2>6, ReceiversEnough
<1>20. ASSUME NEW c \in Cores, SendFromISR(c) PROVE NoStrandedReceiver'
  <2>1. UNCHANGED <<pc, then, call>>
    BY <1>20 DEF SendFromISR, frame
  <2>2. messages' = messages + 1
    <3>1. PICK x \in Items, position \in {"back", "front"} : CopyIn(x, position)
      BY <1>20 DEF SendFromISR
    <3>2. QED
      BY <3>1 DEF CopyIn
  <2>3. CASE txLock = Unlocked
    <3>1. WakeReceivers(c, 1) /\ UNCHANGED txLock
      BY <1>20, <2>3 DEF SendFromISR
    <3>2. \A u \in Tasks : pc[u] # "delay"
      BY <2>3 DEF QueueInv, Locked, Locking
    <3>3. PICK W \in SUBSET Tasks :
            /\ W \subseteq ToSet(toReceive) /\ W \subseteq delayed[c]
            /\ ToSet(toReceive') = ToSet(toReceive) \ W
            /\ toReceive' # <<>> => Cardinality(W) >= 1
      BY <3>1, <3>2, ReceiversWake
    <3>4. \A u \in W : Retries(u)
      BY <3>3 DEF QueueInv, States, Retries
    <3>5. \A u \in (Lookers \ {}) \cup W : call'[u] = call[u] /\ Retries(u)'
      BY <2>1, <3>4 DEF Lookers, Retrying, Retries
    <3>6. Cardinality(W) \in Nat /\ Cardinality({}) = 0
      BY QueueAssumption, FS_Subset, FS_CardinalityType, FS_EmptySet
    <3>7. ASSUME toReceive' # <<>>
          PROVE  (messages') + Cardinality({}) + Noted(txLock)
                   <= (messages) + Cardinality(W) + Noted(txLock')
      BY <2>2, <3>1, <3>3, <3>6, <3>7, Typed DEF Noted
    <3>8. QED
      BY <1>0, <3>3, <3>5, <3>7, ReceiversEnough
  <2>4. CASE txLock # Unlocked
    <3>1. txLock' = txLock + 1 /\ UNCHANGED toReceive
      BY <1>20, <2>4 DEF SendFromISR, lists
    <3>2. Noted(txLock) = txLock /\ Noted(txLock') = txLock + 1
      BY <2>4, <3>1, Typed, QueueAssumption DEF Noted
    <3>3. \A u \in Lookers : call'[u] = call[u] /\ Retries(u)'
      BY <2>1 DEF Lookers, Retrying, Retries
    <3>4. QED
      BY <1>0, <2>2, <3>1, <3>2, <3>3, ReceiversKept, Typed
  <2>5. QED
    BY <2>3, <2>4
<1>21. ASSUME NEW c \in Cores, ReceiveFromISR(c) PROVE NoStrandedReceiver'
  <2>1. UNCHANGED <<pc, then, call, toReceive, txLock>>
    BY <1>21 DEF ReceiveFromISR, frame, lists, WakeReceivers, WakeSenders
  <2>2. messages' = messages - 1
    BY <1>21 DEF ReceiveFromISR, CopyOut
  <2>3. \A u \in Lookers : call'[u] = call[u] /\ Retries(u)'
    BY <2>1 DEF Lookers, Retrying, Retries
  <2>4. QED
    BY <1>0, <2>1, <2>2, <2>3, ReceiversKept, Typed DEF Noted
<1>22. CASE UNCHANGED vars
  <2>1. UNCHANGED <<messages, toReceive, txLock, pc, then, call>>
    BY <1>22 DEF vars, ring, locks, lists, frame
  <2>2. \A u \in Lookers : call'[u] = call[u] /\ Retries(u)'
    BY <2>1 DEF Lookers, Retrying, Retries
  <2>3. QED
    BY <1>0, <2>1, <2>2, ReceiversKept, Typed DEF Noted
<1>23. QED
  BY <1>1, <1>2, <1>3, <1>4, <1>5, <1>6, <1>7, <1>8, <1>9, <1>10, <1>11,
    <1>12, <1>13, <1>14, <1>15, <1>16, <1>17, <1>18, <1>19, <1>20, <1>21,
    <1>22
    DEF Next, Step

(* No step leaves senders behind a free place.                             *)
LEMMA SenderStep == QueueInv /\ SingleCore /\ NoStrandedSender /\ [Next]_vars => NoStrandedSender'
<1> SUFFICES ASSUME QueueInv /\ SingleCore /\ NoStrandedSender, [Next]_vars PROVE NoStrandedSender'
  OBVIOUS
<1> USE DEF vars
<1>0. Base'
  BY TypeStep DEF QueueInv
<1>1. ASSUME NEW c \in Cores, NEW t \in Tasks, Call(c, t) PROVE NoStrandedSender'
  <2>1. At(c, t, "idle") /\ UNCHANGED <<messages, toSend>> /\ Noted(rxLock') = Noted(rxLock)
    BY <1>1 DEF Call, ring, locks, lists
  <2>2. \A u \in Putters : call'[u] = call[u] /\ Retries(u)'
    BY <1>1, <2>1, AtMoves, Typed DEF Call, Goto, Return, Putters, Retrying, Retries, Busy
  <2>3. QED
    BY <1>0, <2>1, <2>2, SendersKept, Typed DEF Noted
<1>2. ASSUME NEW c \in Cores, NEW t \in Tasks, Send(c, t) PROVE NoStrandedSender'
  <2>1. PICK x \in Items : CopyIn(x, call[t])
    BY <1>2 DEF Send
  <2>2. CASE call[t] = "overwrite"
    <3>1. Length = 1 /\ messages' = 1
      BY <2>1, <2>2, Typed DEF CopyIn, QueueInv, Base
    <3>2. Length - messages' = 0
      BY <3>1
    <3>3. QED
      BY <1>0, <3>2, NoneLeft
  <2>3. CASE call[t] # "overwrite"
    <3>1. /\ At(c, t, "try") /\ UNCHANGED <<call, toSend, rxLock>>
          /\ \A u \in Tasks : u # t => pc'[u] = pc[u] /\ then'[u] = then[u]
      BY <1>2, Typed DEF Send, Return, locks, WakeSenders, WakeReceivers
    <3>2. messages' = messages + 1
      BY <2>1, <2>3 DEF CopyIn
    <3>3. \A u \in (Putters \ {t}) \cup {} : call'[u] = call[u] /\ Retries(u)'
      BY <3>1 DEF Putters, Retrying, Retries
    <3>4. Cardinality({t}) = 1 /\ Cardinality({}) = 0
      BY FS_Singleton, FS_EmptySet
    <3>5. (Length - messages') + Cardinality({t}) + Noted(rxLock)
            <= (Length - messages) + Cardinality({}) + Noted(rxLock')
      BY <3>1, <3>2, <3>4, Typed DEF Noted
    <3>6. QED
      BY <1>0, <3>1, <3>3, <3>5, SendersEnough
  <2>4. QED
    BY <2>2, <2>3
<1>3. ASSUME NEW c \in Cores, NEW t \in Tasks, Receive(c, t) PROVE NoStrandedSender'
  <2>1. /\ At(c, t, "try") /\ WakeSenders(c, 1) /\ UNCHANGED <<call, rxLock>>
        /\ \A u \in Tasks : u # t => pc'[u] = pc[u] /\ then'[u] = then[u]
    BY <1>3, Typed DEF Receive, Return, locks
  <2>2. t \notin delayed[c] /\ \A u \in Tasks : pc[u] # "delay"
    BY <2>1, AtMoves DEF Busy
  <2>3. messages' = messages - 1
    BY <1>3 DEF Receive, CopyOut
  <2>4. PICK W \in SUBSET Tasks :
          /\ W \subseteq ToSet(toSend) /\ W \subseteq delayed[c]
          /\ ToSet(toSend') = ToSet(toSend) \ W
          /\ toSend' # <<>> => Cardinality(W) >= 1
    BY <2>1, <2>2, SendersWake
  <2>5. \A u \in W : u # t /\ Retries(u)
    BY <2>2, <2>4 DEF QueueInv, States, Retries
  <2>6. \A u \in (Putters \ {}) \cup W : call'[u] = call[u] /\ Retries(u)'
    BY <1>3, <2>1, <2>5 DEF Receive, Putters, Retrying, Retries, Sends
  <2>7. Cardinality(W) \in Nat /\ Cardinality({}) = 0
    BY QueueAssumption, FS_Subset, FS_CardinalityType, FS_EmptySet
  <2>8. ASSUME toSend' # <<>>
        PROVE  (Length - messages') + Cardinality({}) + Noted(rxLock)
                 <= (Length - messages) + Cardinality(W) + Noted(rxLock')
    BY <2>1, <2>3, <2>4, <2>7, <2>8, Typed DEF Noted
  <2>9. {} \in SUBSET Tasks
    OBVIOUS
  <2>10. QED
    BY <1>0, <2>4, <2>6, <2>8, <2>9, SendersEnough
<1>4. ASSUME NEW c \in Cores, NEW t \in Tasks, Peek(c, t) PROVE NoStrandedSender'
  <2>1. At(c, t, "try") /\ call[t] = "peek" /\ UNCHANGED <<messages, toSend, rxLock, call>>
    BY <1>4 DEF Peek, ring, locks, WakeReceivers, Return
  <2>2. \A u \in Putters : call'[u] = call[u] /\ Retries(u)'
    BY <1>4, <2>1, Typed DEF Peek, Return, Putters, Retrying, Retries, Sends
  <2>3. QED
    BY <1>0, <2>1, <2>2, SendersKept, Typed DEF Noted
<1>5. ASSUME NEW c \in Cores, NEW t \in Tasks, Refuse(c, t) PROVE NoStrandedSender'
  <2>1. At(c, t, "try") /\ ~Possible(t) /\ UNCHANGED <<messages, toSend, rxLock>>
    BY <1>5 DEF Refuse, ring, locks, lists
  <2>2. CASE call[t] \in Sends
    <3>1. messages = Length
      <4>1. Possible(t) <=> messages < Length \/ call[t] = "overwrite"
        BY <2>1, <2>2 DEF Possible, Sends
      <4>2. QED
        BY <2>1, <4>1, Typed
    <3>2. Length - messages' = 0
      BY <2>1, <3>1, Typed
    <3>3. QED
      BY <1>0, <3>2, NoneLeft
  <2>3. CASE ~(call[t] \in Sends)
    <3>1. \A u \in Putters : call'[u] = call[u] /\ Retries(u)'
      BY <1>5, <2>1, <2>3, Typed DEF Refuse, Goto, Return, Putters, Retrying, Retries
    <3>2. QED
      BY <1>0, <2>1, <3>1, SendersKept, Typed DEF Noted
  <2>4. QED
    BY <2>2, <2>3
<1>6. ASSUME NEW c \in Cores, NEW t \in Tasks, SetTimeOut(c, t) PROVE NoStrandedSender'
  <2>1. At(c, t, "try") /\ ~Possible(t) /\ UNCHANGED <<messages, toSend, rxLock>>
    BY <1>6 DEF SetTimeOut, ring, locks, lists
  <2>2. CASE call[t] \in Sends
    <3>1. messages = Length
      <4>1. Possible(t) <=> messages < Length \/ call[t] = "overwrite"
        BY <2>1, <2>2 DEF Possible, Sends
      <4>2. QED
        BY <2>1, <4>1, Typed
    <3>2. Length - messages' = 0
      BY <2>1, <3>1, Typed
    <3>3. QED
      BY <1>0, <3>2, NoneLeft
  <2>3. CASE ~(call[t] \in Sends)
    <3>1. \A u \in Putters : call'[u] = call[u] /\ Retries(u)'
      BY <1>6, <2>1, <2>3, Typed DEF SetTimeOut, Goto, Return, Putters, Retrying, Retries
    <3>2. QED
      BY <1>0, <2>1, <3>1, SendersKept, Typed DEF Noted
  <2>4. QED
    BY <2>2, <2>3
<1>7. ASSUME NEW c \in Cores, NEW t \in Tasks, SuspendAll(c, t) PROVE NoStrandedSender'
  <2>1. At(c, t, "suspend") /\ UNCHANGED <<messages, toSend>> /\ Noted(rxLock') = Noted(rxLock)
    BY <1>7 DEF SuspendAll, ring, locks, lists
  <2>2. \A u \in Putters : call'[u] = call[u] /\ Retries(u)'
    BY <1>7, <2>1, AtMoves, Typed DEF SuspendAll, Goto, Return, Putters, Retrying, Retries, Busy
  <2>3. QED
    BY <1>0, <2>1, <2>2, SendersKept, Typed DEF Noted
<1>8. ASSUME NEW c \in Cores, NEW t \in Tasks, LockQueue(c, t) PROVE NoStrandedSender'
  <2>1. At(c, t, "lock") /\ UNCHANGED <<messages, toSend>> /\ Noted(rxLock') = Noted(rxLock)
    BY <1>8 DEF LockQueue, ring, locks, lists, Noted, Unlocked
  <2>2. \A u \in Putters : call'[u] = call[u] /\ Retries(u)'
    BY <1>8, <2>1, AtMoves, Typed DEF LockQueue, Goto, Return, Putters, Retrying, Retries, Busy
  <2>3. QED
    BY <1>0, <2>1, <2>2, SendersKept, Typed DEF Noted
<1>9. ASSUME NEW c \in Cores, NEW t \in Tasks, CheckForTimeOut(c, t) PROVE NoStrandedSender'
  <2>1. At(c, t, "timeout") /\ UNCHANGED <<messages, toSend>> /\ Noted(rxLock') = Noted(rxLock)
    BY <1>9 DEF CheckForTimeOut, ring, locks, lists
  <2>2. \A u \in Putters : call'[u] = call[u] /\ Retries(u)'
    BY <1>9, <2>1, AtMoves, Typed DEF CheckForTimeOut, Goto, Return, Putters, Retrying, Retries, Busy
  <2>3. QED
    BY <1>0, <2>1, <2>2, SendersKept, Typed DEF Noted
<1>10. ASSUME NEW c \in Cores, NEW t \in Tasks, CheckQueue(c, t) PROVE NoStrandedSender'
  <2>1. At(c, t, "check") /\ UNCHANGED <<messages, toSend>> /\ Noted(rxLock') = Noted(rxLock)
    BY <1>10 DEF CheckQueue, ring, locks, lists
  <2>2. \A u \in Putters : call'[u] = call[u] /\ Retries(u)'
    BY <1>10, <2>1, AtMoves, Typed DEF CheckQueue, Goto, Return, Putters, Retrying, Retries, Busy
  <2>3. QED
    BY <1>0, <2>1, <2>2, SendersKept, Typed DEF Noted
<1>11. ASSUME NEW c \in Cores, NEW t \in Tasks, InsertWaiting(c, t) PROVE NoStrandedSender'
  <2>1. At(c, t, "insert") /\ pc[t] = "insert" /\ UNCHANGED <<messages, rxLock>>
    BY <1>11 DEF InsertWaiting, At, ring, locks
  <2>2. CASE call[t] \in Sends
    <3>1. Length - messages <= rxLock /\ rxLock # Unlocked
      BY <2>1, <2>2 DEF QueueInv, Checked, Locked, Locking, Sends
    <3>2. SUFFICES Length - messages' <= Cardinality(Putters') + Noted(rxLock')
      BY DEF NoStrandedSender, Putters
    <3>3. Cardinality(Putters') \in Nat
      <4>1. Putters' \in SUBSET Tasks
        BY DEF Putters, Retrying
      <4>2. QED
        BY <4>1, QueueAssumption, FS_Subset, FS_CardinalityType
    <3>4. QED
      BY <2>1, <3>1, <3>3, Typed, QueueAssumption DEF Noted
  <2>3. CASE ~(call[t] \in Sends)
    <3>1. UNCHANGED toSend
      BY <1>11, <2>3, Typed DEF InsertWaiting, Calls, Sends
    <3>2. \A u \in Putters : call'[u] = call[u] /\ Retries(u)'
      BY <1>11, <2>1, Typed DEF InsertWaiting, Goto, Putters, Retrying, Retries
    <3>3. QED
      BY <1>0, <2>1, <3>1, <3>2, SendersKept, Typed DEF Noted
  <2>4. QED
    BY <2>2, <2>3
<1>12. ASSUME NEW c \in Cores, NEW t \in Tasks, Delay(c, t) PROVE NoStrandedSender'
  <2>1. At(c, t, "delay") /\ UNCHANGED <<messages, toSend>> /\ Noted(rxLock') = Noted(rxLock)
    BY <1>12 DEF Delay, ring, locks, lists
  <2>2. \A u \in Putters : call'[u] = call[u] /\ Retries(u)'
    BY <1>12, <2>1, AtMoves, Typed DEF Delay, Goto, Return, Putters, Retrying, Retries, Busy
  <2>3. QED
    BY <1>0, <2>1, <2>2, SendersKept, Typed DEF Noted
<1>13. ASSUME NEW c \in Cores, NEW t \in Tasks, UnlockTx(c, t) PROVE NoStrandedSender'
  <2>1. At(c, t, "unlocktx") /\ UNCHANGED <<messages, toSend>> /\ Noted(rxLock') = Noted(rxLock)
    BY <1>13 DEF UnlockTx, ring, locks, lists, WakeSenders, WakeReceivers
  <2>2. \A u \in Putters : call'[u] = call[u] /\ Retries(u)'
    BY <1>13, <2>1, AtMoves, Typed DEF UnlockTx, Goto, Return, Putters, Retrying, Retries, Busy
  <2>3. QED
    BY <1>0, <2>1, <2>2, SendersKept, Typed DEF Noted
<1>14. ASSUME NEW c \in Cores, NEW t \in Tasks, UnlockRx(c, t) PROVE NoStrandedSender'
  <2>1. /\ At(c, t, "unlockrx") /\ WakeSenders(c, Noted(rxLock)) /\ UNCHANGED <<call, messages, then>>
        /\ rxLock' = Unlocked /\ \A u \in Tasks : u # t => pc'[u] = pc[u]
        /\ pc'[t] \in {"unlockrx", "resume"}
    BY <1>14, Typed DEF UnlockRx, Goto, Noted, ring
  <2>2. pc[t] = "unlockrx" /\ \A u \in Tasks : pc[u] # "delay"
    BY <2>1, AtMoves DEF Busy
  <2>3. Noted(rxLock) \in Nat /\ Noted(rxLock') = 0
    BY <2>1, Typed, QueueAssumption DEF Noted
  <2>4. PICK W \in SUBSET Tasks :
          /\ W \subseteq ToSet(toSend) /\ W \subseteq delayed[c]
          /\ ToSet(toSend') = ToSet(toSend) \ W
          /\ toSend' # <<>> => Cardinality(W) >= Noted(rxLock)
    BY <2>1, <2>2, <2>3, SendersWake
  <2>5. \A u \in W : Retries(u)
    BY <2>4 DEF QueueInv, States, Retries
  <2>6. \A u \in (Putters \ {}) \cup W : call'[u] = call[u] /\ Retries(u)'
    BY <2>1, <2>2, <2>5 DEF Putters, Retrying, Retries
  <2>7. Cardinality(W) \in Nat /\ Cardinality({}) = 0
    BY QueueAssumption, FS_Subset, FS_CardinalityType, FS_EmptySet
  <2>8. ASSUME toSend' # <<>>
        PROVE  (Length - messages') + Cardinality({}) + Noted(rxLock)
                 <= (Length - messages) + Cardinality(W) + Noted(rxLock')
    BY <2>1, <2>3, <2>4, <2>7, <2>8, Typed
  <2>9. QED
    BY <1>0, <2>4, <2>6, <2>8, SendersEnough
<1>15. ASSUME NEW c \in Cores, NEW t \in Tasks, ResumeAll(c, t) PROVE NoStrandedSender'
  <2>1. At(c, t, "resume") /\ UNCHANGED <<messages, toSend>> /\ Noted(rxLock') = Noted(rxLock)
    BY <1>15 DEF ResumeAll, ring, locks, lists
  <2>2. \A u \in Putters : call'[u] = call[u] /\ Retries(u)'
    BY <1>15, <2>1, AtMoves, Typed DEF ResumeAll, Goto, Return, Putters, Retrying, Retries, Busy
  <2>3. QED
    BY <1>0, <2>1, <2>2, SendersKept, Typed DEF Noted
<1>16. ASSUME NEW c \in Cores, NEW t \in Tasks, LastLook(c, t) PROVE NoStrandedSender'
  <2>1. /\ At(c, t, "empty") /\ UNCHANGED <<messages, toSend, rxLock, call>>
        /\ pc[t] = "empty"
    BY <1>16 DEF LastLook, At, ring, locks, lists, Return
  <2>2. call[t] \notin Sends
    BY <2>1 DEF QueueInv, Looking, Receivers, Sends
  <2>3. \A u \in Putters : call'[u] = call[u] /\ Retries(u)'
    BY <1>16, <2>1, <2>2, Typed DEF LastLook, Goto, Return, Putters, Retrying, Retries
  <2>4. QED
    BY <1>0, <2>1, <2>3, SendersKept, Typed DEF Noted
<1>17. ASSUME NEW c \in Cores, NEW t \in Tasks, Dispatch(c, t) PROVE NoStrandedSender'
  <2>1. UNCHANGED <<messages, toSend, rxLock, pc, then, call>>
    BY <1>17 DEF Dispatch, ring, locks, lists, frame
  <2>2. \A u \in Putters : call'[u] = call[u] /\ Retries(u)'
    BY <2>1 DEF Putters, Retrying, Retries
  <2>3. QED
    BY <1>0, <2>1, <2>2, SendersKept, Typed DEF Noted
<1>18. ASSUME NEW c \in Cores, NEW t \in Tasks, Elapse(c, t) PROVE NoStrandedSender'
  <2>1. UNCHANGED <<messages, toSend, rxLock, pc, then, call>>
    BY <1>18 DEF Elapse, ring, locks, lists
  <2>2. \A u \in Putters : call'[u] = call[u] /\ Retries(u)'
    BY <2>1 DEF Putters, Retrying, Retries
  <2>3. QED
    BY <1>0, <2>1, <2>2, SendersKept, Typed DEF Noted
<1>19. ASSUME NEW c \in Cores, NEW t \in Tasks, Expire(c, t) PROVE NoStrandedSender'
  <2>1. /\ t \in delayed[c] /\ UNCHANGED <<messages, rxLock, pc, then, call>>
        /\ toSend' = Unlink(toSend, t)
    BY <1>19 DEF Expire, ring, locks
  <2> DEFINE W == ToSet(toSend) \cap {t}
  <2>2. W \in SUBSET Tasks /\ W \subseteq ToSet(toSend) /\ ToSet(toSend') = ToSet(toSend) \ W
    <3>1. ToSet(toSend') = ToSet(toSend) \ {t}
      BY <2>1, UnlinkOne, Typed DEF QueueInv, Events
    <3>2. QED
      BY <3>1
  <2>3. Retries(t)
    BY <2>1 DEF QueueInv, States, Retries
  <2>4. \A u \in (Putters \ {}) \cup W : call'[u] = call[u] /\ Retries(u)'
    BY <2>1, <2>3 DEF Putters, Retrying, Retries
  <2>5. Cardinality(W) \in Nat /\ Cardinality({}) = 0
    BY <2>2, QueueAssumption, FS_Subset, FS_CardinalityType, FS_EmptySet
  <2> HIDE DEF W
  <2>6. (Length - messages') + Cardinality({}) + Noted(rxLock)
          <= (Length - messages) + Cardinality(W) + Noted(rxLock')
    BY <2>1, <2>5, Typed DEF Noted
  <2>7. QED
    BY <1>0, <2>2, <2>4, <2>6, SendersEnough
<1>20. ASSUME NEW c \in Cores, SendFromISR(c) PROVE NoStrandedSender'
  <2>1. UNCHANGED <<pc, then, call, toSend, rxLock>>
    BY <1>20 DEF SendFromISR, frame, lists, WakeReceivers, WakeSenders
  <2>2. messages' = messages + 1
    <3>1. PICK x \in Items, position \in {"back", "front"} : CopyIn(x, position)
      BY <1>20 DEF SendFromISR
    <3>2. QED
      BY <3>1 DEF CopyIn
  <2>3. \A u \in Putters : call'[u] = call[u] /\ Retries(u)'
    BY <2>1 DEF Putters, Retrying, Retries
  <2>4. QED
    BY <1>0, <2>1, <2>2, <2>3, SendersKept, Typed DEF Noted
<1>21. ASSUME NEW c \in Cores, ReceiveFromISR(c) PROVE NoStrandedSender'
  <2>1. UNCHANGED <<pc, then, call>>
    BY <1>21 DEF ReceiveFromISR, frame
  <2>2. messages' = messages - 1
    BY <1>21 DEF ReceiveFromISR, CopyOut
  <2>3. CASE rxLock = Unlocked
    <3>1. WakeSenders(c, 1) /\ UNCHANGED rxLock
      BY <1>21, <2>3 DEF ReceiveFromISR
    <3>2. \A u \in Tasks : pc[u] # "delay"
      BY <2>3 DEF QueueInv, Locked, Locking
    <3>3. PICK W \in SUBSET Tasks :
            /\ W \subseteq ToSet(toSend) /\ W \subseteq delayed[c]
            /\ ToSet(toSend') = ToSet(toSend) \ W
            /\ toSend' # <<>> => Cardinality(W) >= 1
      BY <3>1, <3>2, SendersWake
    <3>4. \A u \in W : Retries(u)
      BY <3>3 DEF QueueInv, States, Retries
    <3>5. \A u \in (Putters \ {}) \cup W : call'[u] = call[u] /\ Retries(u)'
      BY <2>1, <3>4 DEF Putters, Retrying, Retries
    <3>6. Cardinality(W) \in Nat /\ Cardinality({}) = 0
      BY QueueAssumption, FS_Subset, FS_CardinalityType, FS_EmptySet
    <3>7. ASSUME toSend' # <<>>
          PROVE  (Length - messages') + Cardinality({}) + Noted(rxLock)
                   <= (Length - messages) + Cardinality(W) + Noted(rxLock')
      BY <2>2, <3>1, <3>3, <3>6, <3>7, Typed DEF Noted
    <3>8. QED
      BY <1>0, <3>3, <3>5, <3>7, SendersEnough
  <2>4. CASE rxLock # Unlocked
    <3>1. rxLock' = rxLock + 1 /\ UNCHANGED toSend
      BY <1>21, <2>4 DEF ReceiveFromISR, lists
    <3>2. Noted(rxLock) = rxLock /\ Noted(rxLock') = rxLock + 1
      BY <2>4, <3>1, Typed, QueueAssumption DEF Noted
    <3>3. \A u \in Putters : call'[u] = call[u] /\ Retries(u)'
      BY <2>1 DEF Putters, Retrying, Retries
    <3>4. QED
      BY <1>0, <2>2, <3>1, <3>2, <3>3, SendersKept, Typed
  <2>5. QED
    BY <2>3, <2>4
<1>22. CASE UNCHANGED vars
  <2>1. UNCHANGED <<messages, toSend, rxLock, pc, then, call>>
    BY <1>22 DEF vars, ring, locks, lists, frame
  <2>2. \A u \in Putters : call'[u] = call[u] /\ Retries(u)'
    BY <2>1 DEF Putters, Retrying, Retries
  <2>3. QED
    BY <1>0, <2>1, <2>2, SendersKept, Typed DEF Noted
<1>23. QED
  BY <1>1, <1>2, <1>3, <1>4, <1>5, <1>6, <1>7, <1>8, <1>9, <1>10, <1>11,
    <1>12, <1>13, <1>14, <1>15, <1>16, <1>17, <1>18, <1>19, <1>20, <1>21,
    <1>22
    DEF Next, Step

(* No wake-up is lost: no receiver is left on its list with more items in  *)
(* the queue than others are on their way to take, and no sender with free *)
(* places.                                                                 *)
THEOREM NoStrandedWaiterCorrect == ASSUME SingleCore PROVE Spec => []NoStrandedWaiter
<1>1. QueueInv /\ NoStrandedReceiver /\ [Next]_vars => QueueInv' /\ NoStrandedReceiver'
  BY InvStep, ReceiverStep
<1>2. QueueInv /\ NoStrandedSender /\ [Next]_vars => QueueInv' /\ NoStrandedSender'
  BY InvStep, SenderStep
<1>3. Init => QueueInv /\ NoStrandedReceiver /\ NoStrandedSender
  BY InitInv DEF Init, NoStrandedReceiver, NoStrandedSender
<1>4. NoStrandedReceiver /\ NoStrandedSender => NoStrandedWaiter
  BY DEF NoStrandedWaiter
<1>5. QED
  BY <1>1, <1>2, <1>3, <1>4, PTL DEF Spec
=============================================================================
