-------------------------- MODULE Scheduler_proofs --------------------------
(***************************************************************************)
(* Theorems about Scheduler, for any number of tasks and priorities, any   *)
(* width of the tick count and any number of pended ticks, and for an      *)
(* application that resumes no task but those it has suspended             *)
(* (~ResumesAny): one that does may resume a task that waits for a         *)
(* notification, and an assert of the kernel fails.                        *)
(*                                                                         *)
(* First what each operation does to the lists and the times, whatever the *)
(* state of the tasks: the lists stay Sound and Timely. Then SchedInv,     *)
(* what the lists have to do with where each task is in its call, and that *)
(* every step keeps it. The properties follow from it, and that every step *)
(* is one of Countdown.                                                    *)
(***************************************************************************)
EXTENDS Scheduler, FiniteSetTheorems, WellFoundedInduction, TLAPS

-----------------------------------------------------------------------------
(* Lists *)

(* The tasks of a delayed list are in the order of their wake times.       *)
InOrder(list, wake) ==
    \A i, j \in DOMAIN list : i < j => wake[list[i]] <= wake[list[j]]

(* Two lists end to end *)
LEMMA EndToEnd ==
    ASSUME NEW S, NEW x \in Seq(S), NEW y \in Seq(S)
    PROVE  /\ x \o y \in Seq(S) /\ Len(x \o y) = Len(x) + Len(y)
           /\ \A i \in 1 .. Len(x) : (x \o y)[i] = x[i]
           /\ \A i \in 1 .. Len(y) : (x \o y)[Len(x) + i] = y[i]
OBVIOUS

(* A list with an item inserted at a position *)
LEMMA Inserted ==
    ASSUME NEW S, NEW s \in Seq(S), NEW t \in S, NEW k \in 1 .. Len(s) + 1
    PROVE  LET r == InsertAt(s, k, t) IN
           /\ r \in Seq(S) /\ Len(r) = Len(s) + 1
           /\ \A i \in 1 .. k - 1 : r[i] = s[i]
           /\ r[k] = t
           /\ \A i \in k + 1 .. Len(s) + 1 : r[i] = s[i - 1]
<1> DEFINE r == InsertAt(s, k, t)
           x == SubSeq(s, 1, k - 1)
           y == SubSeq(s, k, Len(s))
           z == x \o <<t>>
<1>1. x \in Seq(S) /\ Len(x) = k - 1 /\ \A i \in 1 .. k - 1 : x[i] = s[i]
  OBVIOUS
<1>2. /\ y \in Seq(S) /\ Len(y) = Len(s) + 1 - k
      /\ \A i \in 1 .. Len(s) + 1 - k : y[i] = s[i + k - 1]
  OBVIOUS
<1>3. r = z \o y
  BY DEF InsertAt
<1> HIDE DEF r, x, y
<1>4. z \in Seq(S) /\ Len(z) = k /\ z[k] = t /\ \A i \in 1 .. k - 1 : z[i] = x[i]
  BY <1>1
<1> HIDE DEF z
<1>5. /\ r \in Seq(S) /\ Len(r) = Len(z) + Len(y)
      /\ \A i \in 1 .. Len(z) : r[i] = z[i]
      /\ \A i \in 1 .. Len(y) : r[Len(z) + i] = y[i]
  <2>1. z \in Seq(S) /\ y \in Seq(S)
    BY <1>2, <1>4
  <2>2. QED
    BY <1>3, <2>1, EndToEnd
<1>6. ASSUME NEW i \in k + 1 .. Len(s) + 1 PROVE r[i] = s[i - 1]
  <2>1. i - k \in 1 .. Len(y) /\ k + (i - k) = i /\ (i - k) + k - 1 = i - 1
    BY <1>2
  <2>2. r[i] = y[i - k]
    BY <1>4, <1>5, <2>1
  <2>3. QED
    BY <1>2, <2>1, <2>2
<1>7. k \in 1 .. Len(z) /\ \A i \in 1 .. k - 1 : i \in 1 .. Len(z)
  BY <1>4
<1>8. Len(r) = Len(s) + 1
  BY <1>2, <1>4, <1>5
<1>9. QED
  BY <1>1, <1>4, <1>5, <1>6, <1>7, <1>8 DEF r

(* It holds that item besides, and each once if the list did.              *)
LEMMA InsertedOnce ==
    ASSUME NEW S, NEW s \in Seq(S), NEW t \in S, NEW k \in 1 .. Len(s) + 1
    PROVE  LET r == InsertAt(s, k, t) IN
           /\ Range(r) = Range(s) \cup {t}
           /\ IsInjective(s) /\ t \notin Range(s) => IsInjective(r)
<1> DEFINE r == InsertAt(s, k, t)
           q(x) == IF x < k THEN x ELSE x - 1
           p(x) == IF x < k THEN x ELSE x + 1
<1>1. /\ r \in Seq(S) /\ Len(r) = Len(s) + 1
      /\ \A i \in 1 .. k - 1 : r[i] = s[i]
      /\ r[k] = t
      /\ \A i \in k + 1 .. Len(s) + 1 : r[i] = s[i - 1]
  BY Inserted
<1> HIDE DEF r
<1>2. DOMAIN s = 1 .. Len(s) /\ DOMAIN r = 1 .. Len(s) + 1 /\ Len(s) \in Nat /\ k \in DOMAIN r
  BY <1>1
<1>3. ASSUME NEW x \in DOMAIN r, x # k PROVE q(x) \in DOMAIN s /\ r[x] = s[q(x)]
  <2>1. CASE x < k
    BY <1>1, <1>2, <2>1
  <2>2. CASE ~(x < k)
    <3>1. x \in k + 1 .. Len(s) + 1 /\ x - 1 \in 1 .. Len(s)
      BY <1>2, <1>3, <2>2
    <3>2. QED
      BY <1>1, <1>2, <2>2, <3>1
  <2>3. QED
    BY <2>1, <2>2
<1>4. ASSUME NEW x \in DOMAIN s PROVE p(x) \in DOMAIN r /\ r[p(x)] = s[x]
  <2>1. CASE x < k
    BY <1>1, <1>2, <2>1
  <2>2. CASE ~(x < k)
    <3>1. x + 1 \in k + 1 .. Len(s) + 1 /\ (x + 1) - 1 = x
      BY <1>2, <2>2
    <3>2. QED
      BY <1>1, <1>2, <2>2, <3>1
  <2>3. QED
    BY <2>1, <2>2
<1>5. \A x, y \in DOMAIN r : x # k /\ y # k /\ q(x) = q(y) => x = y
  BY <1>2
<1> HIDE DEF q, p
<1>6. Range(r) = Range(s) \cup {t}
  <2>1. \A i \in DOMAIN r : r[i] \in Range(s) \cup {t}
    BY <1>1, <1>3 DEF Range
  <2>2. \A i \in DOMAIN s : s[i] \in Range(r)
    BY <1>4 DEF Range
  <2>3. t \in Range(r)
    BY <1>1, <1>2 DEF Range
  <2>4. QED
    BY <2>1, <2>2, <2>3 DEF Range
<1>7. ASSUME IsInjective(s), t \notin Range(s) PROVE IsInjective(r)
  <2>1. \A x \in DOMAIN r : x # k => r[x] # t
    BY <1>3, <1>7 DEF Range
  <2>2. \A x, y \in DOMAIN r : x # k /\ y # k /\ r[x] = r[y] => x = y
    BY <1>3, <1>5, <1>7 DEF IsInjective
  <2>3. QED
    BY <1>1, <2>1, <2>2 DEF IsInjective
<1>8. QED
  BY <1>6, <1>7 DEF r

(* A list with an item taken off *)
LEMMA Removed ==
    ASSUME NEW S, NEW s \in Seq(S), NEW t
    PROVE  LET r == Without(s, t) IN
           /\ r \in Seq(S)
           /\ Len(r) = IF t \in Range(s) THEN Len(s) - 1 ELSE Len(s)
           /\ IsInjective(s) => IsInjective(r) /\ Range(r) = Range(s) \ {t}
           /\ \A wake : InOrder(s, wake) => InOrder(r, wake)
<1> DEFINE r == Without(s, t)
<1>1. CASE t \notin Range(s)
  BY <1>1 DEF Without, Range
<1>2. CASE t \in Range(s)
  <2> DEFINE k == CHOOSE i \in DOMAIN s : s[i] = t
             q(x) == IF x < k THEN x ELSE x + 1
             x == SubSeq(s, 1, k - 1)
             y == SubSeq(s, k + 1, Len(s))
  <2>1. k \in DOMAIN s /\ s[k] = t
    BY <1>2 DEF Range
  <2>2. r = x \o y
    BY <1>2 DEF Without, RemoveAt, Range
  <2> HIDE DEF k, r
  <2>3. k \in 1 .. Len(s) /\ Len(s) \in Nat
    BY <2>1
  <2>4. x \in Seq(S) /\ Len(x) = k - 1 /\ \A i \in 1 .. k - 1 : x[i] = s[i]
    BY <2>3
  <2>5. /\ y \in Seq(S) /\ Len(y) = Len(s) - k
        /\ \A i \in 1 .. Len(s) - k : y[i] = s[i + k]
    BY <2>3
  <2> HIDE DEF x, y
  <2>6. /\ r \in Seq(S) /\ Len(r) = Len(x) + Len(y)
        /\ \A i \in 1 .. Len(x) : r[i] = x[i]
        /\ \A i \in 1 .. Len(y) : r[Len(x) + i] = y[i]
    <3>1. x \in Seq(S) /\ y \in Seq(S)
      BY <2>4, <2>5
    <3>2. QED
      BY <2>2, <3>1, EndToEnd
  <2>7. Len(r) = Len(s) - 1
    BY <2>3, <2>4, <2>5, <2>6
  <2>8. DOMAIN s = 1 .. Len(s) /\ DOMAIN r = 1 .. Len(s) - 1
    BY <2>6, <2>7
  <2>9. ASSUME NEW i \in DOMAIN r PROVE q(i) \in DOMAIN s /\ q(i) # k /\ r[i] = s[q(i)]
    <3>1. CASE i < k
      <4>1. i \in 1 .. Len(x) /\ i \in 1 .. k - 1 /\ i \in DOMAIN s
        BY <2>3, <2>4, <2>8, <3>1
      <4>2. QED
        BY <2>4, <2>6, <3>1, <4>1
    <3>2. CASE ~(i < k)
      <4>1. /\ i - (k - 1) \in 1 .. Len(y) /\ Len(x) + (i - (k - 1)) = i
            /\ i - (k - 1) \in 1 .. Len(s) - k /\ (i - (k - 1)) + k = i + 1
            /\ i + 1 \in DOMAIN s /\ i + 1 # k
        BY <2>3, <2>4, <2>5, <2>8, <3>2
      <4>2. r[i] = y[i - (k - 1)] /\ y[i - (k - 1)] = s[i + 1]
        BY <2>5, <2>6, <4>1
      <4>3. QED
        BY <3>2, <4>1, <4>2
    <3>3. QED
      BY <3>1, <3>2
  <2>10. \A i, j \in DOMAIN r : (q(i) = q(j) => i = j) /\ (i < j => q(i) < q(j))
    BY <2>3, <2>8
  <2>11. \A i \in DOMAIN s : i # k => \E j \in DOMAIN r : q(j) = i
    <3> SUFFICES ASSUME NEW i \in DOMAIN s, i # k PROVE \E j \in DOMAIN r : q(j) = i
      OBVIOUS
    <3>1. i < k => i \in DOMAIN r /\ q(i) = i
      BY <2>3, <2>8
    <3>2. ~(i < k) => i - 1 \in DOMAIN r /\ q(i - 1) = i
      BY <2>3, <2>8
    <3>3. QED
      BY <3>1, <3>2
  <2> HIDE DEF q
  <2>12. ASSUME IsInjective(s) PROVE IsInjective(r) /\ Range(r) = Range(s) \ {t}
    <3>1. IsInjective(r)
      BY <2>9, <2>10, <2>12 DEF IsInjective
    <3>2. \A i \in DOMAIN r : r[i] \in Range(s) /\ r[i] # t
      BY <2>1, <2>9, <2>12 DEF Range, IsInjective
    <3>3. \A i \in DOMAIN s : s[i] # t => s[i] \in Range(r)
      BY <2>1, <2>9, <2>11 DEF Range
    <3>4. QED
      BY <3>1, <3>2, <3>3 DEF Range
  <2>13. \A wake : InOrder(s, wake) => InOrder(r, wake)
    BY <2>9, <2>10 DEF InOrder
  <2>14. QED
    BY <1>2, <2>6, <2>7, <2>12, <2>13 DEF r
<1>3. QED
  BY <1>1, <1>2

(* How many tasks at the head of a list wake by then *)
LEMMA LeadingIs ==
    ASSUME NEW s \in Seq(Tasks), NEW wake \in [Tasks -> Ticks], NEW n \in Ticks
    PROVE  LET m == Leading(s, wake, n) IN
           /\ m \in 0 .. Len(s)
           /\ \A j \in 1 .. m : wake[s[j]] <= n
           /\ m < Len(s) => wake[s[m + 1]] > n
<1> DEFINE Later == {i \in DOMAIN s : wake[s[i]] > n}
           Fits(m) == /\ \A j \in 1 .. m : wake[s[j]] <= n
                      /\ m < Len(s) => wake[s[m + 1]] > n
<1>1. \A i \in DOMAIN s : s[i] \in Tasks /\ wake[s[i]] \in Nat
  BY DEF Ticks
<1>2. n \in Nat
  BY DEF Ticks
<1>3. \E m \in 0 .. Len(s) : Fits(m)
  <2>1. CASE Later = {}
    <3>1. Fits(Len(s))
      BY <1>1, <1>2, <2>1
    <3>2. QED
      BY <3>1
  <2>2. CASE Later # {}
    <3>1. PICK m \in Later : \A j \in Later : ~(j < m)
      <4>1. IsWellFoundedOn(OpToRel(<, Nat), Nat)
        BY NatLessThanWellFounded
      <4>2. Later \subseteq Nat
        OBVIOUS
      <4>3. \E m \in Later : \A j \in Later : <<j, m>> \notin OpToRel(<, Nat)
        BY <2>2, <4>1, <4>2, WFMin
      <4>4. QED
        BY <4>2, <4>3 DEF OpToRel
    <3>2. Fits(m - 1) /\ m - 1 \in 0 .. Len(s)
      BY <1>1, <1>2, <3>1
    <3>3. QED
      BY <3>2
  <2>3. QED
    BY <2>1, <2>2
<1>4. QED
  BY <1>3 DEF Leading

(* What vListInsert makes of a list in the order of wake times *)
LEMMA InsertedByTime ==
    ASSUME NEW s \in Seq(Tasks), NEW wake \in [Tasks -> Ticks], NEW t \in Tasks,
           IsInjective(s), t \notin Range(s), InOrder(s, wake)
    PROVE  LET r == InsertByTime(s, wake, t) IN
           /\ r \in Seq(Tasks) /\ IsInjective(r) /\ Range(r) = Range(s) \cup {t}
           /\ InOrder(r, wake)
<1> DEFINE m == Leading(s, wake, wake[t])
           k == m + 1
           r == InsertAt(s, k, t)
<1>1. /\ m \in 0 .. Len(s)
      /\ \A j \in 1 .. m : wake[s[j]] <= wake[t]
      /\ m < Len(s) => wake[s[m + 1]] > wake[t]
  BY LeadingIs
<1> HIDE DEF m
<1>2. k \in 1 .. Len(s) + 1 /\ k \in Nat /\ k = m + 1
  BY <1>1
<1> HIDE DEF k
<1>3. /\ r \in Seq(Tasks) /\ Len(r) = Len(s) + 1
      /\ \A i \in 1 .. k - 1 : r[i] = s[i]
      /\ r[k] = t
      /\ \A i \in k + 1 .. Len(s) + 1 : r[i] = s[i - 1]
  BY <1>2, Inserted
<1>4. Range(r) = Range(s) \cup {t} /\ IsInjective(r)
  BY <1>2, InsertedOnce
<1> HIDE DEF r
<1>5. DOMAIN s = 1 .. Len(s) /\ DOMAIN r = 1 .. Len(s) + 1 /\ Len(s) \in Nat
  BY <1>3
<1>6. \A i \in DOMAIN s : wake[s[i]] \in Nat /\ wake[t] \in Nat
  BY DEF Ticks
<1>7. \A i \in DOMAIN s : i < k => wake[s[i]] <= wake[t]
  BY <1>1, <1>2, <1>5
<1>8. \A i \in DOMAIN s : i >= k => wake[s[i]] >= wake[t]
  <2> SUFFICES ASSUME NEW i \in DOMAIN s, i >= k PROVE wake[s[i]] >= wake[t]
    OBVIOUS
  <2>1. m < Len(s) /\ k \in DOMAIN s
    BY <1>1, <1>2, <1>5
  <2>2. wake[s[k]] <= wake[s[i]]
    BY <1>6, <2>1 DEF InOrder
  <2>3. QED
    BY <1>1, <1>2, <1>6, <2>1, <2>2
<1> DEFINE q(x) == IF x < k THEN x ELSE x - 1
<1>9. \A x \in DOMAIN r : x # k => q(x) \in DOMAIN s /\ r[x] = s[q(x)]
  <2> SUFFICES ASSUME NEW x \in DOMAIN r, x # k PROVE q(x) \in DOMAIN s /\ r[x] = s[q(x)]
    OBVIOUS
  <2>1. CASE x < k
    BY <1>2, <1>3, <1>5, <2>1
  <2>2. CASE ~(x < k)
    <3>1. x \in k + 1 .. Len(s) + 1 /\ x - 1 \in 1 .. Len(s)
      BY <1>2, <1>5, <2>2
    <3>2. QED
      BY <1>3, <1>5, <2>2, <3>1
  <2>3. QED
    BY <2>1, <2>2
<1>10. InOrder(r, wake)
  <2> SUFFICES ASSUME NEW i \in DOMAIN r, NEW j \in DOMAIN r, i < j
               PROVE  wake[r[i]] <= wake[r[j]]
    BY DEF InOrder
  <2>1. CASE i = k
    <3>1. q(j) \in DOMAIN s /\ q(j) >= k /\ r[j] = s[q(j)]
      BY <1>5, <1>9, <1>2, <2>1
    <3>2. QED
      BY <1>3, <1>8, <2>1, <3>1
  <2>2. CASE j = k
    <3>1. q(i) \in DOMAIN s /\ q(i) < k /\ r[i] = s[q(i)]
      BY <1>5, <1>9, <1>2, <2>2
    <3>2. QED
      BY <1>3, <1>7, <2>2, <3>1
  <2>3. CASE i # k /\ j # k
    <3>1. q(i) < q(j)
      BY <1>2, <1>5, <2>3
    <3>2. /\ q(i) \in DOMAIN s /\ r[i] = s[q(i)]
          /\ q(j) \in DOMAIN s /\ r[j] = s[q(j)]
      BY <1>9, <2>3
    <3> HIDE DEF q
    <3>3. QED
      BY <3>1, <3>2 DEF InOrder
  <2>4. QED
    BY <2>1, <2>2, <2>3
<1>11. QED
  BY <1>3, <1>4, <1>10 DEF InsertByTime, r, k, m

(* A list whose first item has gone to its end *)
LEMMA Rotated ==
    ASSUME NEW S, NEW s \in Seq(S), s # <<>>
    PROVE  LET r == Append(Tail(s), Head(s)) IN
           /\ r \in Seq(S) /\ Len(r) = Len(s) /\ Range(r) = Range(s)
           /\ r[Len(s)] = s[1] /\ \A i \in 1 .. Len(s) - 1 : r[i] = s[i + 1]
           /\ IsInjective(s) => IsInjective(r)
<1> DEFINE r == Append(Tail(s), Head(s))
           q(x) == IF x = Len(s) THEN 1 ELSE x + 1
<1>1. /\ r \in Seq(S) /\ Len(r) = Len(s)
      /\ r[Len(s)] = s[1] /\ \A i \in 1 .. Len(s) - 1 : r[i] = s[i + 1]
  OBVIOUS
<1> HIDE DEF r
<1>2. DOMAIN s = 1 .. Len(s) /\ DOMAIN r = 1 .. Len(s) /\ Len(s) \in Nat \ {0}
  BY <1>1
<1>3. \A x \in DOMAIN r : q(x) \in DOMAIN s /\ r[x] = s[q(x)]
  BY <1>1, <1>2
<1>4. \A x, y \in DOMAIN r : q(x) = q(y) => x = y
  BY <1>2
<1>5. \A i \in DOMAIN s : \E x \in DOMAIN r : q(x) = i
  <2> SUFFICES ASSUME NEW i \in DOMAIN s PROVE \E x \in DOMAIN r : q(x) = i
    OBVIOUS
  <2>1. i = 1 => Len(s) \in DOMAIN r /\ q(Len(s)) = i
    BY <1>2
  <2>2. i # 1 => i - 1 \in DOMAIN r /\ q(i - 1) = i
    BY <1>2
  <2>3. QED
    BY <2>1, <2>2
<1> HIDE DEF q
<1>6. Range(r) = Range(s)
  BY <1>3, <1>5 DEF Range
<1>7. IsInjective(s) => IsInjective(r)
  BY <1>3, <1>4 DEF IsInjective
<1>8. QED
  BY <1>1, <1>6, <1>7 DEF r

(* A ready list after its next task has been taken *)
LEMMA Taken ==
    ASSUME NEW S, NEW s \in Seq(S), IsInjective(s), Len(s) >= 2
    PROVE  LET r == NextEntry(s) IN
           /\ r \in Seq(S) /\ Len(r) = Len(s) /\ Range(r) = Range(s) /\ IsInjective(r)
           /\ Last(r) \in Range(s) /\ Last(r) # End
<1> DEFINE l == IF Head(s) = End THEN Append(Tail(s), End) ELSE s
           r == Append(Tail(l), Head(l))
<1>1. r = NextEntry(s)
  BY DEF NextEntry
<1>2. s # <<>> /\ Head(s) = s[1]
  OBVIOUS
<1>3. /\ l \in Seq(S) /\ Len(l) = Len(s) /\ Range(l) = Range(s) /\ IsInjective(l)
      /\ l[1] # End
  <2>1. CASE Head(s) = End
    <3>1. l = Append(Tail(s), Head(s))
      BY <2>1
    <3>2. /\ l \in Seq(S) /\ Len(l) = Len(s) /\ Range(l) = Range(s) /\ IsInjective(l)
          /\ \A i \in 1 .. Len(s) - 1 : l[i] = s[i + 1]
      <4> HIDE DEF l
      <4>1. QED
        BY <1>2, <3>1, Rotated
    <3>3. l[1] = s[2] /\ s[2] # s[1]
      BY <3>2 DEF IsInjective
    <3>4. QED
      BY <1>2, <2>1, <3>2, <3>3
  <2>2. CASE Head(s) # End
    BY <1>2, <2>2
  <2>3. QED
    BY <2>1, <2>2
<1> HIDE DEF l
<1>4. l # <<>> /\ l[1] \in Range(l)
  BY <1>3 DEF Range
<1>5. /\ r \in Seq(S) /\ Len(r) = Len(l) /\ Range(r) = Range(l) /\ IsInjective(r)
      /\ r[Len(l)] = l[1]
  BY <1>3, <1>4, Rotated
<1> HIDE DEF r
<1>6. Last(r) = l[1]
  BY <1>5 DEF Last
<1>7. QED
  BY <1>1, <1>3, <1>4, <1>5, <1>6

(* A list with an item at its end *)
LEMMA Appended ==
    ASSUME NEW S, NEW s \in Seq(S), NEW t \in S
    PROVE  LET r == Append(s, t) IN
           /\ r \in Seq(S) /\ Len(r) = Len(s) + 1 /\ Range(r) = Range(s) \cup {t}
           /\ IsInjective(s) /\ t \notin Range(s) => IsInjective(r)
<1> DEFINE r == Append(s, t)
<1>1. /\ r \in Seq(S) /\ Len(r) = Len(s) + 1 /\ DOMAIN r = 1 .. Len(s) + 1
      /\ DOMAIN s = 1 .. Len(s) /\ Len(s) \in Nat
      /\ r[Len(s) + 1] = t /\ \A i \in 1 .. Len(s) : r[i] = s[i]
  OBVIOUS
<1> HIDE DEF r
<1>2. \A i \in DOMAIN r : i \in DOMAIN s \/ i = Len(s) + 1
  BY <1>1
<1>3. \A i \in DOMAIN s : i \in DOMAIN r /\ r[i] = s[i]
  BY <1>1
<1>4. Len(s) + 1 \in DOMAIN r
  BY <1>1
<1>5. Range(r) = Range(s) \cup {t}
  BY <1>1, <1>2, <1>3, <1>4 DEF Range
<1>6. IsInjective(s) /\ t \notin Range(s) => IsInjective(r)
  BY <1>1, <1>2, <1>3 DEF IsInjective, Range
<1>7. QED
  BY <1>1, <1>5, <1>6 DEF r

(* A ready list that has only its end mark holds nothing else.             *)
LEMMA OnlyEnd ==
    ASSUME NEW S, NEW s \in Seq(S), IsInjective(s), End \in Range(s)
    PROVE  /\ NoTasks(s) <=> Range(s) = {End}
           /\ ~NoTasks(s) => Len(s) >= 2
           /\ Len(s) > 0
<1>1. PICK i \in DOMAIN s : s[i] = End
  BY DEF Range
<1>2. DOMAIN s = 1 .. Len(s) /\ Len(s) \in Nat
  OBVIOUS
<1>3. NoTasks(s) => Range(s) = {End}
  BY <1>1, <1>2 DEF NoTasks, Range
<1>4. ASSUME Range(s) = {End} PROVE Len(s) = 1
  <2>1. \A j \in DOMAIN s : s[j] = End
    BY <1>4 DEF Range
  <2>2. \A j \in DOMAIN s : j = i
    BY <1>1, <2>1 DEF IsInjective
  <2>3. 1 \in DOMAIN s /\ Len(s) \in DOMAIN s
    BY <1>1, <1>2
  <2>4. QED
    BY <2>2, <2>3
<1>5. QED
  BY <1>1, <1>2, <1>3, <1>4 DEF NoTasks

(* The order of a list depends on the wake times of those in it only.      *)
LEMMA OrderKept ==
    ASSUME NEW s, NEW wake, NEW also, InOrder(s, wake),
           \A x \in Range(s) : also[x] = wake[x]
    PROVE  InOrder(s, also)
BY DEF InOrder, Range

(* A finite set as a list *)
LEMMA Listed ==
    ASSUME NEW S, IsFiniteSet(S)
    PROVE  LET s == SetToSeq(S) IN s \in Seq(S) /\ IsInjective(s) /\ Range(s) = S
<1> DEFINE n == Cardinality(S)
           s == SetToSeq(S)
<1>1. n \in Nat /\ ExistsBijection(1 .. n, S)
  BY FS_CardinalityType
<1>2. \E f \in [1 .. n -> S] : IsInjective(f)
  BY <1>1 DEF ExistsBijection, Bijection, Injection
<1>3. s \in [1 .. n -> S] /\ IsInjective(s)
  BY <1>2 DEF SetToSeq
<1> HIDE DEF s, n
<1>4. s \in Injection(1 .. n, S)
  BY <1>3 DEF Injection
<1>5. Cardinality(1 .. n) = n
  BY <1>1, FS_Interval
<1>6. s \in Surjection(1 .. n, S)
  BY <1>4, <1>5, FS_Injection DEF n
<1>7. Range(s) = S
  BY <1>3, <1>6 DEF Range, Surjection
<1>8. s \in Seq(S)
  BY <1>1, <1>3
<1>9. QED
  BY <1>3, <1>7, <1>8 DEF s

-----------------------------------------------------------------------------
(* The lists of the kernel *)

(* No list has an item twice, and a ready list has one end mark.           *)
Once(k) ==
    /\ IsInjective(k.delayed) /\ IsInjective(k.overflow) /\ IsInjective(k.suspended)
    /\ IsInjective(k.term) /\ IsInjective(k.pending)

(* No task is on two state lists.                                          *)
Apart(k) ==
    /\ Range(k.delayed) \cap Range(k.overflow) = {}
    /\ Asleep(k) \cap Range(k.suspended) = {}
    /\ (Asleep(k) \cup Range(k.suspended)) \cap Range(k.term) = {}
    /\ (Asleep(k) \cup Range(k.suspended) \cup Range(k.term)) \cap Ready(k) = {}

(* A ready list holds tasks of its priority, and the end mark.             *)
Queues(k) ==
    \A p \in Priorities :
        /\ IsInjective(k.ready[p]) /\ End \in Range(k.ready[p])
        /\ \A t \in All : t \in Range(k.ready[p]) => p = k.prio[t]

(* Both delayed lists are sorted.                                          *)
Sorted(k) == InOrder(k.delayed, k.wake) /\ InOrder(k.overflow, k.wake)

(* uxTopReadyPriority is not below a ready task.                           *)
Topped(k) == \A t \in Ready(k) : k.prio[t] <= k.top

(* The idle task is always ready.                                          *)
Resting(k) == k.prio[Idle] = 0 /\ Idle \in Ready(k)

(* The lists of k are as they should be, whatever the times.               *)
Sound(k) ==
    /\ k \in Kernels
    /\ Once(k) /\ Apart(k) /\ Queues(k) /\ Sorted(k) /\ Topped(k) /\ Resting(k)

(* The tasks on a state list                                               *)
On(k) == Asleep(k) \cup Range(k.suspended) \cup Range(k.term) \cup Ready(k)

(* What is assumed of the constants, and follows of the times              *)
LEMMA Constants ==
    /\ IsFiniteSet(Tasks) /\ Idle \notin Tasks /\ Tasks \subseteq All /\ Idle \in All
    /\ End \notin All
    /\ Priorities \subseteq Nat /\ IsFiniteSet(Priorities) /\ 0 \in Priorities
    /\ Wrap \in Nat \ {0, 1} /\ Ticks = 0 .. Wrap - 1 /\ 0 \in Ticks
    /\ MaxDelay = Wrap - 1 /\ MaxDelay \in Ticks /\ Ticks \subseteq Nat
    /\ MaxPended \in Nat
BY SchedulerAssumption DEF Ticks, All, MaxDelay

(* The types of the fields of the kernel's state                           *)
LEMMA KernelTypes ==
    ASSUME NEW k \in Kernels
    PROVE  /\ k.tick \in Ticks /\ k.pended \in 0 .. MaxPended /\ k.unblock \in Ticks
           /\ \A p \in Priorities : k.ready[p] \in Seq(All \cup {End})
           /\ k.top \in Priorities /\ k.current \in All
           /\ k.delayed \in Seq(Tasks) /\ k.overflow \in Seq(Tasks)
           /\ k.suspended \in Seq(Tasks) /\ k.pending \in Seq(Tasks) /\ k.term \in Seq(Tasks)
           /\ k.depth \in 0 .. 2 /\ k.yield \in BOOLEAN
           /\ k.wake \in [Tasks -> Ticks] /\ k.prio \in [All -> Priorities]
BY DEF Kernels

(* The lists hold tasks.                                                   *)
LEMMA ListsOfTasks ==
    ASSUME NEW k \in Kernels
    PROVE  /\ Range(k.delayed) \subseteq Tasks /\ Range(k.overflow) \subseteq Tasks
           /\ Range(k.suspended) \subseteq Tasks /\ Range(k.pending) \subseteq Tasks
           /\ Range(k.term) \subseteq Tasks /\ Asleep(k) \subseteq Tasks
           /\ Ready(k) \subseteq All /\ On(k) \subseteq All
<1>1. \A s \in Seq(Tasks) : Range(s) \subseteq Tasks
  BY DEF Range
<1>2. QED
  BY <1>1, KernelTypes, Constants DEF Asleep, Ready, On

(* What the lists hold depends on these fields only.                       *)
SameLists(k, l) ==
    /\ l.ready = k.ready /\ l.delayed = k.delayed /\ l.overflow = k.overflow
    /\ l.suspended = k.suspended /\ l.term = k.term
    /\ l.wake = k.wake /\ l.prio = k.prio

(* What is known of the lists depends on the lists only.                   *)
LEMMA SoundKept ==
    ASSUME NEW k, NEW l \in Kernels, Sound(k), SameLists(k, l), l.top = k.top,
           IsInjective(l.pending)
    PROVE  Sound(l) /\ Ready(l) = Ready(k) /\ Asleep(l) = Asleep(k) /\ On(l) = On(k)
<1>1. Ready(l) = Ready(k) /\ Asleep(l) = Asleep(k)
  BY DEF SameLists, Ready, Asleep
<1>2. On(l) = On(k)
  BY <1>1 DEF On, SameLists
<1>3. Once(l) /\ Queues(l) /\ Sorted(l)
  BY DEF Sound, Once, Queues, Sorted, SameLists
<1>4. Apart(l) /\ Topped(l) /\ Resting(l)
  BY <1>1 DEF Sound, Apart, Topped, Resting, SameLists
<1>5. QED
  BY <1>1, <1>2, <1>3, <1>4 DEF Sound

-----------------------------------------------------------------------------

(* The fields after uxListRemove of a state item                           *)
LEMMA UnlistFields ==
    ASSUME NEW k \in Kernels, NEW t \in Tasks
    PROVE  LET l == Unlist(k, t) IN
           /\ l \in Kernels
           /\ l.tick = k.tick /\ l.pended = k.pended /\ l.unblock = k.unblock
           /\ l.top = k.top /\ l.current = k.current /\ l.pending = k.pending
           /\ l.depth = k.depth /\ l.yield = k.yield /\ l.prio = k.prio
           /\ l.wake = [k.wake EXCEPT ![t] = 0]
           /\ l.delayed = Without(k.delayed, t) /\ l.overflow = Without(k.overflow, t)
           /\ l.suspended = Without(k.suspended, t) /\ l.term = Without(k.term, t)
           /\ \A p \in Priorities : l.ready[p] = Without(k.ready[p], t)
<1>1. \A S : \A s \in Seq(S) : Without(s, t) \in Seq(S)
  BY Removed
<1>2. QED
  BY <1>1, Constants DEF Unlist, Kernels

(* uxListRemove of a state item takes the task off its list.               *)
LEMMA Unlisting ==
    ASSUME NEW k, Sound(k), NEW t \in Tasks
    PROVE  LET l == Unlist(k, t) IN
           /\ Sound(l)
           /\ Ready(l) = Ready(k) \ {t} /\ Asleep(l) = Asleep(k) \ {t}
           /\ Range(l.delayed) = Range(k.delayed) \ {t}
           /\ Range(l.overflow) = Range(k.overflow) \ {t}
           /\ Range(l.suspended) = Range(k.suspended) \ {t}
           /\ Range(l.term) = Range(k.term) \ {t}
           /\ On(l) = On(k) \ {t}
<1> DEFINE l == Unlist(k, t)
<1>1. k \in Kernels
  BY DEF Sound
<1>2. /\ l \in Kernels
      /\ l.top = k.top /\ l.pending = k.pending /\ l.prio = k.prio
      /\ l.wake = [k.wake EXCEPT ![t] = 0]
      /\ l.delayed = Without(k.delayed, t) /\ l.overflow = Without(k.overflow, t)
      /\ l.suspended = Without(k.suspended, t) /\ l.term = Without(k.term, t)
      /\ \A p \in Priorities : l.ready[p] = Without(k.ready[p], t)
  BY <1>1, UnlistFields
<1> HIDE DEF l
<1>3. /\ IsInjective(l.delayed) /\ Range(l.delayed) = Range(k.delayed) \ {t}
      /\ IsInjective(l.overflow) /\ Range(l.overflow) = Range(k.overflow) \ {t}
      /\ IsInjective(l.suspended) /\ Range(l.suspended) = Range(k.suspended) \ {t}
      /\ IsInjective(l.term) /\ Range(l.term) = Range(k.term) \ {t}
  <2>1. \A s \in Seq(Tasks) : IsInjective(s) =>
            IsInjective(Without(s, t)) /\ Range(Without(s, t)) = Range(s) \ {t}
    BY Removed
  <2>2. QED
    BY <1>1, <1>2, <2>1, KernelTypes DEF Sound, Once
<1>4. \A p \in Priorities : IsInjective(l.ready[p]) /\ Range(l.ready[p]) = Range(k.ready[p]) \ {t}
  <2>1. \A s \in Seq(All \cup {End}) : IsInjective(s) =>
            IsInjective(Without(s, t)) /\ Range(Without(s, t)) = Range(s) \ {t}
    BY Removed
  <2>2. QED
    BY <1>1, <1>2, <2>1, KernelTypes DEF Sound, Queues
<1>5. \A u \in All : k.prio[u] \in Priorities
  BY <1>1, KernelTypes
<1>6. Ready(l) = Ready(k) \ {t}
  BY <1>2, <1>4, <1>5 DEF Ready
<1>7. Asleep(l) = Asleep(k) \ {t} /\ On(l) = On(k) \ {t}
  BY <1>3, <1>6 DEF Asleep, On
<1>8. Once(l)
  BY <1>2, <1>3 DEF Once, Sound
<1>9. Apart(l)
  BY <1>3, <1>6 DEF Apart, Asleep, Sound
<1>10. Queues(l)
  <2>1. t # End
    BY Constants
  <2>2. QED
    BY <1>2, <1>4, <2>1 DEF Queues, Sound
<1>11. Sorted(l)
  <2>1. InOrder(l.delayed, k.wake) /\ InOrder(l.overflow, k.wake)
    BY <1>1, <1>2, KernelTypes, Removed DEF Sound, Sorted
  <2>2. \A u \in Range(l.delayed) \cup Range(l.overflow) : l.wake[u] = k.wake[u]
    BY <1>1, <1>2, <1>3, KernelTypes, ListsOfTasks
  <2>3. QED
    BY <2>1, <2>2, OrderKept DEF Sorted
<1>12. Topped(l)
  BY <1>2, <1>6 DEF Topped, Sound
<1>13. Resting(l)
  BY <1>2, <1>6, Constants DEF Resting, Sound
<1>14. QED
  BY <1>2, <1>3, <1>6, <1>7, <1>8, <1>9, <1>10, <1>11, <1>12, <1>13 DEF Sound, l

(* uxListRemove of an event item takes the task off the pending list.      *)
LEMMA Unpending ==
    ASSUME NEW k, Sound(k), NEW t
    PROVE  LET l == Unpend(k, t) IN
           /\ Sound(l) /\ SameLists(k, l)
           /\ Ready(l) = Ready(k) /\ Asleep(l) = Asleep(k) /\ On(l) = On(k)
           /\ Range(l.pending) = Range(k.pending) \ {t}
           /\ l.tick = k.tick /\ l.pended = k.pended /\ l.unblock = k.unblock
           /\ l.top = k.top /\ l.current = k.current /\ l.depth = k.depth /\ l.yield = k.yield
<1> DEFINE l == Unpend(k, t)
<1>1. k \in Kernels /\ IsInjective(k.pending) /\ k.pending \in Seq(Tasks)
  BY KernelTypes DEF Sound, Once
<1>2. LET r == Without(k.pending, t) IN
      r \in Seq(Tasks) /\ IsInjective(r) /\ Range(r) = Range(k.pending) \ {t}
  BY <1>1, Removed
<1>3. /\ l \in Kernels /\ SameLists(k, l) /\ l.pending = Without(k.pending, t)
      /\ l.tick = k.tick /\ l.pended = k.pended /\ l.unblock = k.unblock
      /\ l.top = k.top /\ l.current = k.current /\ l.depth = k.depth /\ l.yield = k.yield
  BY <1>1, <1>2 DEF Unpend, Kernels, SameLists
<1> HIDE DEF l
<1>4. IsInjective(l.pending) /\ Range(l.pending) = Range(k.pending) \ {t}
  BY <1>2, <1>3
<1>5. Sound(l) /\ Ready(l) = Ready(k) /\ Asleep(l) = Asleep(k) /\ On(l) = On(k)
  BY <1>3, <1>4, SoundKept
<1>6. QED
  BY <1>3, <1>4, <1>5 DEF l

(* prvAddTaskToReadyList, of a task on no list, makes it ready.            *)
LEMMA Adding ==
    ASSUME NEW k, Sound(k), NEW t \in Tasks, t \notin On(k)
    PROVE  LET l == AddReady(k, t) IN
           /\ Sound(l)
           /\ Ready(l) = Ready(k) \cup {t} /\ On(l) = On(k) \cup {t}
           /\ l.delayed = k.delayed /\ l.overflow = k.overflow
           /\ l.suspended = k.suspended /\ l.term = k.term /\ l.pending = k.pending
           /\ l.tick = k.tick /\ l.pended = k.pended /\ l.unblock = k.unblock
           /\ l.current = k.current /\ l.depth = k.depth /\ l.yield = k.yield
           /\ l.wake = k.wake /\ l.prio = k.prio
           /\ l.top >= k.top /\ l.top >= k.prio[t]
<1> DEFINE l == AddReady(k, t)
           p == k.prio[t]
           list == k.ready[p]
           r == InsertEnd(list, t)
<1>1. k \in Kernels /\ t \in All
  BY Constants DEF Sound
<1>2. p \in Priorities /\ list \in Seq(All \cup {End}) /\ k.top \in Priorities
  BY <1>1, KernelTypes
<1>3. IsInjective(list) /\ End \in Range(list) /\ t \notin Range(list)
  BY <1>1, <1>2 DEF Sound, Queues, On, Ready
<1> HIDE DEF list
<1>4. Len(list) \in 1 .. Len(list) + 1
  <2>1. Len(list) > 0 /\ Len(list) \in Nat
    BY <1>2, <1>3, OnlyEnd
  <2>2. QED
    BY <2>1
<1>5. t \in All \cup {End}
  BY <1>1
<1>6. r \in Seq(All \cup {End}) /\ Range(r) = Range(list) \cup {t} /\ IsInjective(r)
  <2>1. r \in Seq(All \cup {End})
    BY <1>2, <1>4, <1>5, Inserted DEF InsertEnd
  <2>2. Range(r) = Range(list) \cup {t} /\ IsInjective(r)
    BY <1>2, <1>3, <1>4, <1>5, InsertedOnce DEF InsertEnd
  <2>3. QED
    BY <2>1, <2>2
<1>7. Greater(k.top, p) \in Priorities
  BY <1>2 DEF Greater
<1> HIDE DEF r
<1>8. /\ l \in Kernels
      /\ l.ready = [k.ready EXCEPT ![p] = r] /\ l.top = Greater(k.top, p)
      /\ l.delayed = k.delayed /\ l.overflow = k.overflow
      /\ l.suspended = k.suspended /\ l.term = k.term /\ l.pending = k.pending
      /\ l.tick = k.tick /\ l.pended = k.pended /\ l.unblock = k.unblock
      /\ l.current = k.current /\ l.depth = k.depth /\ l.yield = k.yield
      /\ l.wake = k.wake /\ l.prio = k.prio
  BY <1>1, <1>2, <1>6, <1>7 DEF AddReady, Kernels, r, list
<1>9. \A q \in Priorities : l.ready[q] = IF q = p THEN r ELSE k.ready[q]
  BY <1>1, <1>8 DEF Kernels
<1> HIDE DEF l
<1>10. Ready(l) = Ready(k) \cup {t}
  <2>1. \A u \in All : k.prio[u] \in Priorities
    BY <1>1, KernelTypes
  <2>2. \A u \in All : u \in Range(l.ready[l.prio[u]]) <=> u = t \/ u \in Range(k.ready[k.prio[u]])
    BY <1>6, <1>8, <1>9, <2>1 DEF list
  <2>3. QED
    BY <1>1, <2>2 DEF Ready
<1>11. On(l) = On(k) \cup {t} /\ Asleep(l) = Asleep(k)
  BY <1>8, <1>10 DEF On, Asleep
<1>12. Once(l) /\ Sorted(l)
  BY <1>8 DEF Sound, Once, Sorted
<1>13. Apart(l)
  BY <1>8, <1>10, <1>11 DEF Sound, Apart, On
<1>14. Queues(l)
  <2> SUFFICES ASSUME NEW q \in Priorities
               PROVE  /\ IsInjective(l.ready[q]) /\ End \in Range(l.ready[q])
                      /\ \A u \in All : u \in Range(l.ready[q]) => q = l.prio[u]
    BY DEF Queues
  <2>1. CASE q = p
    BY <1>2, <1>3, <1>6, <1>8, <1>9, <2>1 DEF Sound, Queues, list
  <2>2. CASE q # p
    BY <1>8, <1>9, <2>2 DEF Sound, Queues
  <2>3. QED
    BY <2>1, <2>2
<1>15. l.top >= k.top /\ l.top >= p
  <2>1. p \in Nat /\ k.top \in Nat
    BY <1>2, Constants
  <2> HIDE DEF p
  <2>2. QED
    BY <1>8, <2>1 DEF Greater
<1>16. Topped(l)
  <2> SUFFICES ASSUME NEW u \in Ready(l) PROVE l.prio[u] <= l.top
    BY DEF Topped
  <2>1. u = t \/ k.prio[u] <= k.top
    BY <1>10 DEF Sound, Topped
  <2>2. u \in All
    BY DEF Ready
  <2>3. k.prio[u] \in Nat /\ k.top \in Nat /\ l.top \in Nat
    BY <1>1, <1>2, <1>7, <1>8, <2>2, KernelTypes, Constants
  <2>4. QED
    BY <1>8, <1>15, <2>1, <2>3
<1>17. Resting(l)
  BY <1>8, <1>10 DEF Sound, Resting
<1>18. QED
  BY <1>8, <1>10, <1>11, <1>12, <1>13, <1>14, <1>15, <1>16, <1>17 DEF Sound, l

(* A task that is made ready is on no other list. *)
LEMMA MakingReady ==
    ASSUME NEW k, Sound(k), NEW t \in Tasks
    PROVE  LET l == MakeReady(k, t) IN
           /\ Sound(l)
           /\ Ready(l) = Ready(k) \cup {t} /\ On(l) = On(k) \cup {t}
           /\ Asleep(l) = Asleep(k) \ {t}
           /\ l.delayed = Without(k.delayed, t) /\ l.overflow = Without(k.overflow, t)
           /\ Range(l.delayed) = Range(k.delayed) \ {t}
           /\ Range(l.overflow) = Range(k.overflow) \ {t}
           /\ Range(l.suspended) = Range(k.suspended) \ {t}
           /\ Range(l.term) = Range(k.term) \ {t}
           /\ l.pending = k.pending
           /\ l.tick = k.tick /\ l.pended = k.pended /\ l.unblock = k.unblock
           /\ l.current = k.current /\ l.depth = k.depth /\ l.yield = k.yield
           /\ l.wake = [k.wake EXCEPT ![t] = 0] /\ l.prio = k.prio
           /\ l.top >= k.top /\ l.top >= k.prio[t]
<1> DEFINE u == Unlist(k, t)
           l == AddReady(u, t)
<1>1. l = MakeReady(k, t)
  BY DEF MakeReady
<1>2. k \in Kernels
  BY DEF Sound
<1>3. /\ u.tick = k.tick /\ u.pended = k.pended /\ u.unblock = k.unblock
      /\ u.top = k.top /\ u.current = k.current /\ u.pending = k.pending
      /\ u.depth = k.depth /\ u.yield = k.yield /\ u.prio = k.prio
      /\ u.wake = [k.wake EXCEPT ![t] = 0]
      /\ u.delayed = Without(k.delayed, t) /\ u.overflow = Without(k.overflow, t)
  BY <1>2, UnlistFields
<1>4. /\ Sound(u)
      /\ Ready(u) = Ready(k) \ {t} /\ Asleep(u) = Asleep(k) \ {t}
      /\ Range(u.delayed) = Range(k.delayed) \ {t}
      /\ Range(u.overflow) = Range(k.overflow) \ {t}
      /\ Range(u.suspended) = Range(k.suspended) \ {t}
      /\ Range(u.term) = Range(k.term) \ {t}
      /\ On(u) = On(k) \ {t}
  BY Unlisting, Zenon
<1> HIDE DEF u
<1>5. t \notin On(u)
  BY <1>4
<1>6. /\ Sound(l)
      /\ Ready(l) = Ready(u) \cup {t} /\ On(l) = On(u) \cup {t}
      /\ l.delayed = u.delayed /\ l.overflow = u.overflow
      /\ l.suspended = u.suspended /\ l.term = u.term /\ l.pending = u.pending
      /\ l.tick = u.tick /\ l.pended = u.pended /\ l.unblock = u.unblock
      /\ l.current = u.current /\ l.depth = u.depth /\ l.yield = u.yield
      /\ l.wake = u.wake /\ l.prio = u.prio
      /\ l.top >= u.top /\ l.top >= u.prio[t]
  BY <1>4, <1>5, Adding
<1> HIDE DEF l
<1>7. Asleep(l) = Asleep(k) \ {t}
  BY <1>4, <1>6 DEF Asleep
<1>8. Ready(l) = Ready(k) \cup {t} /\ On(l) = On(k) \cup {t}
  BY <1>4, <1>6
<1>9. QED
  BY <1>1, <1>3, <1>4, <1>6, <1>7, <1>8

(* Off both lists, and ready *)
LEMMA Rousing ==
    ASSUME NEW k, Sound(k), NEW t \in Tasks
    PROVE  LET l == Rouse(k, t) IN
           /\ Sound(l)
           /\ Ready(l) = Ready(k) \cup {t} /\ On(l) = On(k) \cup {t}
           /\ Range(l.delayed) = Range(k.delayed) \ {t}
           /\ Range(l.overflow) = Range(k.overflow) \ {t}
           /\ Range(l.suspended) = Range(k.suspended) \ {t}
           /\ Range(l.term) = Range(k.term) \ {t}
           /\ Range(l.pending) = Range(k.pending) \ {t}
           /\ l.tick = k.tick /\ l.pended = k.pended /\ l.unblock = k.unblock
           /\ l.current = k.current /\ l.depth = k.depth /\ l.yield = k.yield
           /\ l.wake = [k.wake EXCEPT ![t] = 0] /\ l.prio = k.prio
<1> DEFINE u == Unlist(k, t)
           v == Unpend(u, t)
           l == AddReady(v, t)
<1>1. l = Rouse(k, t)
  BY DEF Rouse
<1>2. k \in Kernels
  BY DEF Sound
<1>3. /\ u.tick = k.tick /\ u.pended = k.pended /\ u.unblock = k.unblock
      /\ u.current = k.current /\ u.pending = k.pending
      /\ u.depth = k.depth /\ u.yield = k.yield /\ u.prio = k.prio
      /\ u.wake = [k.wake EXCEPT ![t] = 0]
  BY <1>2, UnlistFields
<1>4. /\ Sound(u)
      /\ Ready(u) = Ready(k) \ {t} /\ Asleep(u) = Asleep(k) \ {t}
      /\ Range(u.delayed) = Range(k.delayed) \ {t}
      /\ Range(u.overflow) = Range(k.overflow) \ {t}
      /\ Range(u.suspended) = Range(k.suspended) \ {t}
      /\ Range(u.term) = Range(k.term) \ {t}
      /\ On(u) = On(k) \ {t}
  BY Unlisting, Zenon
<1> HIDE DEF u
<1>5. /\ Sound(v) /\ SameLists(u, v)
      /\ Ready(v) = Ready(u) /\ On(v) = On(u)
      /\ Range(v.pending) = Range(u.pending) \ {t}
      /\ v.tick = u.tick /\ v.pended = u.pended /\ v.unblock = u.unblock
      /\ v.current = u.current /\ v.depth = u.depth /\ v.yield = u.yield
  BY <1>4, Unpending
<1> HIDE DEF v
<1>6. t \notin On(v)
  BY <1>4, <1>5
<1>7. /\ Sound(l)
      /\ Ready(l) = Ready(v) \cup {t} /\ On(l) = On(v) \cup {t}
      /\ l.delayed = v.delayed /\ l.overflow = v.overflow
      /\ l.suspended = v.suspended /\ l.term = v.term /\ l.pending = v.pending
      /\ l.tick = v.tick /\ l.pended = v.pended /\ l.unblock = v.unblock
      /\ l.current = v.current /\ l.depth = v.depth /\ l.yield = v.yield
      /\ l.wake = v.wake /\ l.prio = v.prio
  BY <1>5, <1>6, Adding
<1> HIDE DEF l
<1>8. /\ v.delayed = u.delayed /\ v.overflow = u.overflow
      /\ v.suspended = u.suspended /\ v.term = u.term /\ v.wake = u.wake /\ v.prio = u.prio
  BY <1>5 DEF SameLists
<1>9. Ready(l) = Ready(k) \cup {t} /\ On(l) = On(k) \cup {t}
  BY <1>4, <1>5, <1>7
<1>10. QED
  BY <1>1, <1>3, <1>4, <1>5, <1>7, <1>8, <1>9

-----------------------------------------------------------------------------
(* Times *)

(* The delayed list holds what wakes in this lap of the tick count, and    *)
(* the overflow list what wakes in the next one.                           *)
Due(k) ==
    /\ \A t \in Range(k.delayed) : k.wake[t] > k.tick
    /\ \A t \in Range(k.overflow) : k.wake[t] < k.tick

(* xNextTaskUnblockTime has not passed, and is not late. *)
Announced(k) ==
    /\ k.unblock >= k.tick
    /\ \A t \in Range(k.delayed) : k.wake[t] >= k.unblock

(* The times of the delayed lists are right.                               *)
Timely(k) == Due(k) /\ Announced(k)

(* The times depend on these fields only. *)
LEMMA TimesKept ==
    ASSUME NEW k, NEW l, l.tick = k.tick, l.unblock = k.unblock,
           Range(l.delayed) \subseteq Range(k.delayed),
           Range(l.overflow) \subseteq Range(k.overflow),
           \A t \in Range(l.delayed) \cup Range(l.overflow) : l.wake[t] = k.wake[t]
    PROVE  /\ Due(k) => Due(l)
           /\ Timely(k) => Timely(l)
BY DEF Due, Announced, Timely

(* A wake time that is not looked at again *)
LEMMA WakeForgotten ==
    ASSUME NEW k \in Kernels, NEW t \in Tasks, NEW l,
           l.wake = [k.wake EXCEPT ![t] = 0],
           Range(l.delayed) = Range(k.delayed) \ {t},
           Range(l.overflow) = Range(k.overflow) \ {t}
    PROVE  \A u \in Range(l.delayed) \cup Range(l.overflow) : l.wake[u] = k.wake[u]
BY KernelTypes, ListsOfTasks

(* prvResetNextTaskUnblockTime makes xNextTaskUnblockTime right.           *)
LEMMA Resetting ==
    ASSUME NEW k, Sound(k)
    PROVE  LET l == ResetUnblock(k) IN
           /\ Sound(l) /\ SameLists(k, l)
           /\ Ready(l) = Ready(k) /\ Asleep(l) = Asleep(k) /\ On(l) = On(k)
           /\ l.tick = k.tick /\ l.pended = k.pended /\ l.pending = k.pending
           /\ l.top = k.top /\ l.current = k.current /\ l.depth = k.depth /\ l.yield = k.yield
           /\ \A t \in Range(l.delayed) : l.wake[t] >= l.unblock
           /\ Due(k) => Timely(l)
<1> DEFINE l == ResetUnblock(k)
           n == IF k.delayed = <<>> THEN MaxDelay ELSE k.wake[Head(k.delayed)]
<1>1. /\ k \in Kernels /\ k.delayed \in Seq(Tasks) /\ k.wake \in [Tasks -> Ticks]
      /\ k.tick \in Ticks
  BY KernelTypes DEF Sound
<1>2. n \in Ticks
  BY <1>1, Constants
<1>3. /\ l \in Kernels /\ SameLists(k, l) /\ l.unblock = n
      /\ l.tick = k.tick /\ l.pended = k.pended /\ l.pending = k.pending
      /\ l.top = k.top /\ l.current = k.current /\ l.depth = k.depth /\ l.yield = k.yield
  BY <1>1, <1>2 DEF ResetUnblock, Kernels, SameLists
<1> HIDE DEF l
<1>4. IsInjective(l.pending)
  BY <1>3 DEF Sound, Once
<1>5. Sound(l) /\ Ready(l) = Ready(k) /\ Asleep(l) = Asleep(k) /\ On(l) = On(k)
  BY <1>3, <1>4, SoundKept
<1>6. \A t \in Range(l.delayed) : l.wake[t] >= l.unblock
  <2>1. CASE k.delayed = <<>>
    BY <1>3, <2>1 DEF SameLists, Range
  <2>2. CASE k.delayed # <<>>
    <3> DEFINE h == k.delayed[1]
    <3>1. /\ 1 \in DOMAIN k.delayed /\ n = k.wake[h]
          /\ DOMAIN k.delayed = 1 .. Len(k.delayed)
      BY <1>1, <2>2
    <3>2. ASSUME NEW i \in DOMAIN k.delayed PROVE k.wake[k.delayed[i]] >= n
      <4>1. i = 1 \/ 1 < i
        BY <1>1
      <4>2. 1 < i => k.wake[h] <= k.wake[k.delayed[i]]
        BY <3>1 DEF Sound, Sorted, InOrder
      <4>3. k.wake[h] \in Nat /\ k.wake[k.delayed[i]] \in Nat
        BY <1>1, <3>1, Constants
      <4>4. QED
        BY <3>1, <4>1, <4>2, <4>3
    <3>3. QED
      BY <1>3, <3>2 DEF SameLists, Range
  <2>3. QED
    BY <2>1, <2>2
<1>7. ASSUME Due(k) PROVE Timely(l)
  <2>1. Due(l)
    BY <1>3, <1>7 DEF Due, SameLists
  <2>2. n >= k.tick
    <3>1. CASE k.delayed = <<>>
      BY <1>1, <3>1, Constants
    <3>2. CASE k.delayed # <<>>
      <4> DEFINE h == k.delayed[1]
      <4>1. 1 \in DOMAIN k.delayed /\ n = k.wake[h]
        BY <1>1, <3>2
      <4>2. h \in Range(k.delayed)
        BY <4>1 DEF Range
      <4>3. n > k.tick
        BY <1>7, <4>1, <4>2 DEF Due
      <4>4. QED
        BY <1>1, <1>2, <4>3, Constants
    <3>3. QED
      BY <3>1, <3>2
  <2>3. Announced(l)
    BY <1>3, <1>6, <2>2 DEF Announced
  <2>4. QED
    BY <2>1, <2>3 DEF Timely
<1>8. QED
  BY <1>3, <1>5, <1>6, <1>7 DEF l

(* A task is put on the delayed list that its wake time belongs to.        *)
LEMMA Placing ==
    ASSUME NEW k, Sound(k), NEW t \in Tasks, t \notin On(k)
    PROVE  LET l == Place(k, t) IN
           /\ Sound(l)
           /\ Ready(l) = Ready(k) /\ On(l) = On(k) \cup {t}
           /\ Range(l.delayed) = Range(k.delayed) \cup (IF k.wake[t] < k.tick THEN {} ELSE {t})
           /\ Range(l.overflow) = Range(k.overflow) \cup (IF k.wake[t] < k.tick THEN {t} ELSE {})
           /\ l.suspended = k.suspended /\ l.term = k.term /\ l.pending = k.pending
           /\ l.tick = k.tick /\ l.pended = k.pended
           /\ l.current = k.current /\ l.depth = k.depth /\ l.yield = k.yield
           /\ l.wake = k.wake /\ l.prio = k.prio /\ l.top = k.top
           /\ Timely(k) /\ k.wake[t] # k.tick => Timely(l)
<1> DEFINE l == Place(k, t)
<1>1. /\ k \in Kernels /\ k.delayed \in Seq(Tasks) /\ k.overflow \in Seq(Tasks)
      /\ k.wake \in [Tasks -> Ticks] /\ k.tick \in Ticks /\ k.unblock \in Ticks
      /\ IsInjective(k.delayed) /\ IsInjective(k.overflow)
      /\ InOrder(k.delayed, k.wake) /\ InOrder(k.overflow, k.wake)
      /\ t \notin Range(k.delayed) /\ t \notin Range(k.overflow)
  BY KernelTypes DEF Sound, Once, Sorted, On, Asleep
<1>2. /\ k.wake[t] \in Nat /\ k.tick \in Nat /\ k.unblock \in Nat
      /\ k.wake[t] \in Ticks
  BY <1>1, Constants
<1>3. CASE k.wake[t] < k.tick
  <2> DEFINE r == InsertByTime(k.overflow, k.wake, t)
  <2>1. r \in Seq(Tasks) /\ IsInjective(r) /\ Range(r) = Range(k.overflow) \cup {t} /\ InOrder(r, k.wake)
    BY <1>1, InsertedByTime
  <2> HIDE DEF r
  <2>2. /\ l \in Kernels /\ l.overflow = r /\ l.delayed = k.delayed
        /\ l.ready = k.ready /\ l.unblock = k.unblock
        /\ l.suspended = k.suspended /\ l.term = k.term /\ l.pending = k.pending
        /\ l.tick = k.tick /\ l.pended = k.pended
        /\ l.current = k.current /\ l.depth = k.depth /\ l.yield = k.yield
        /\ l.wake = k.wake /\ l.prio = k.prio /\ l.top = k.top
    BY <1>1, <1>3, <2>1 DEF Place, Kernels, r
  <2> HIDE DEF l
  <2>3. Ready(l) = Ready(k) /\ Asleep(l) = Asleep(k) \cup {t} /\ On(l) = On(k) \cup {t}
    BY <2>1, <2>2 DEF Ready, Asleep, On
  <2>4. Once(l) /\ Queues(l) /\ Sorted(l) /\ Topped(l) /\ Resting(l)
    BY <2>1, <2>2, <2>3 DEF Sound, Once, Queues, Sorted, Topped, Resting
  <2>5. Apart(l)
    BY <2>1, <2>2, <2>3 DEF Sound, Apart, On, Asleep
  <2>6. Timely(k) => Timely(l)
    BY <1>3, <2>1, <2>2 DEF Timely, Due, Announced
  <2>7. QED
    BY <1>3, <2>1, <2>2, <2>3, <2>4, <2>5, <2>6 DEF Sound, l
<1>4. CASE ~(k.wake[t] < k.tick)
  <2> DEFINE r == InsertByTime(k.delayed, k.wake, t)
             n == IF k.wake[t] < k.unblock THEN k.wake[t] ELSE k.unblock
  <2>1. r \in Seq(Tasks) /\ IsInjective(r) /\ Range(r) = Range(k.delayed) \cup {t} /\ InOrder(r, k.wake)
    BY <1>1, InsertedByTime
  <2> HIDE DEF r
  <2>2. n \in Ticks /\ n \in Nat
    BY <1>1, <1>2
  <2>3. /\ l \in Kernels /\ l.overflow = k.overflow /\ l.delayed = r
        /\ l.ready = k.ready /\ l.unblock = n
        /\ l.suspended = k.suspended /\ l.term = k.term /\ l.pending = k.pending
        /\ l.tick = k.tick /\ l.pended = k.pended
        /\ l.current = k.current /\ l.depth = k.depth /\ l.yield = k.yield
        /\ l.wake = k.wake /\ l.prio = k.prio /\ l.top = k.top
    BY <1>1, <1>4, <2>1, <2>2 DEF Place, Kernels, r
  <2> HIDE DEF l
  <2>4. Ready(l) = Ready(k) /\ Asleep(l) = Asleep(k) \cup {t} /\ On(l) = On(k) \cup {t}
    BY <2>1, <2>3 DEF Ready, Asleep, On
  <2>5. Once(l) /\ Queues(l) /\ Sorted(l) /\ Topped(l) /\ Resting(l)
    BY <2>1, <2>3, <2>4 DEF Sound, Once, Queues, Sorted, Topped, Resting
  <2>6. Apart(l)
    BY <2>1, <2>3, <2>4 DEF Sound, Apart, On, Asleep
  <2>7. ASSUME Timely(k), k.wake[t] # k.tick PROVE Timely(l)
    <3>1. Due(l)
      BY <1>2, <1>4, <2>1, <2>3, <2>7 DEF Timely, Due
    <3>2. n <= k.wake[t] /\ n <= k.unblock /\ n >= k.tick
      BY <1>2, <1>4, <2>7 DEF Timely, Announced
    <3> HIDE DEF n
    <3>3. \A u \in Range(k.delayed) : k.wake[u] >= n
      <4> SUFFICES ASSUME NEW u \in Range(k.delayed) PROVE k.wake[u] >= n
        OBVIOUS
      <4>1. u \in Tasks
        BY <1>1 DEF Range
      <4>2. k.wake[u] \in Nat
        BY <1>1, <4>1, Constants
      <4>3. k.wake[u] >= k.unblock
        BY <2>7 DEF Timely, Announced
      <4>4. QED
        BY <1>2, <2>2, <3>2, <4>2, <4>3
    <3>4. Announced(l)
      BY <2>1, <2>3, <3>2, <3>3 DEF Announced
    <3>5. QED
      BY <3>1, <3>4 DEF Timely
  <2>8. QED
    BY <1>4, <2>1, <2>3, <2>4, <2>5, <2>6, <2>7 DEF Sound, l
<1>5. QED
  BY <1>3, <1>4

(* A time that wraps once at most *)
LEMMA Wrapped ==
    ASSUME NEW m \in Ticks, NEW n \in 0 .. Wrap
    PROVE  (m + n) % Wrap = IF m + n < Wrap THEN m + n ELSE m + n - Wrap
BY Constants

(* The task that runs goes to sleep for n ticks, or with nothing to wake   *)
(* it.                                                                     *)
Blocked(k, n, forever, l) ==
    LET t == k.current
        stays == n = MaxDelay /\ forever
        at == (k.tick + n) % Wrap
    IN  /\ Sound(l)
        /\ Ready(l) = Ready(k) \ {t} /\ On(l) = On(k) \cup {t}
        /\ ~stays => l.wake = [k.wake EXCEPT ![t] = at]
        /\ stays => l.wake = [k.wake EXCEPT ![t] = 0]
        /\ Range(l.delayed) = (Range(k.delayed) \ {t})
                                  \cup (IF stays \/ at < k.tick THEN {} ELSE {t})
        /\ Range(l.overflow) = (Range(k.overflow) \ {t})
                                   \cup (IF ~stays /\ at < k.tick THEN {t} ELSE {})
        /\ Range(l.suspended) = (Range(k.suspended) \ {t}) \cup (IF stays THEN {t} ELSE {})
        /\ Range(l.term) = Range(k.term) \ {t}
        /\ l.pending = k.pending
        /\ l.tick = k.tick /\ l.pended = k.pended
        /\ l.current = k.current /\ l.depth = k.depth /\ l.yield = k.yield
        /\ l.prio = k.prio /\ l.top = k.top
        /\ Timely(k) /\ n # 0 => Timely(l)

(* prvAddCurrentTaskToDelayedList does as it should.                       *)
LEMMA Blocking ==
    ASSUME NEW k, Sound(k), NEW n \in Ticks, NEW forever \in BOOLEAN, k.current \in Tasks
    PROVE  Blocked(k, n, forever, Block(k, n, forever))
<1> DEFINE t == k.current
           at == (k.tick + n) % Wrap
           u == Unlist(k, t)
           l == Block(k, n, forever)
<1>1. k \in Kernels /\ k.tick \in Ticks /\ k.tick \in Nat /\ n \in Nat /\ n < Wrap /\ k.tick < Wrap
  BY KernelTypes, Constants DEF Sound
<1>2. /\ u.tick = k.tick /\ u.pended = k.pended /\ u.unblock = k.unblock
      /\ u.top = k.top /\ u.current = k.current /\ u.pending = k.pending
      /\ u.depth = k.depth /\ u.yield = k.yield /\ u.prio = k.prio
      /\ u.wake = [k.wake EXCEPT ![t] = 0]
  BY <1>1, UnlistFields
<1>3. /\ Sound(u)
      /\ Ready(u) = Ready(k) \ {t} /\ Asleep(u) = Asleep(k) \ {t}
      /\ Range(u.delayed) = Range(k.delayed) \ {t}
      /\ Range(u.overflow) = Range(k.overflow) \ {t}
      /\ Range(u.suspended) = Range(k.suspended) \ {t}
      /\ Range(u.term) = Range(k.term) \ {t}
      /\ On(u) = On(k) \ {t}
  BY Unlisting, Zenon
<1>4. u \in Kernels
  BY <1>3 DEF Sound
<1>5. Timely(k) => Timely(u)
  BY <1>1, <1>2, <1>3, WakeForgotten, TimesKept
<1>6. l = IF n = MaxDelay /\ forever THEN [u EXCEPT !.suspended = Append(@, t)]
          ELSE Place([u EXCEPT !.wake[t] = at], t)
  BY DEF Block
<1> HIDE DEF u
<1>7. CASE n = MaxDelay /\ forever
  <2> DEFINE r == Append(u.suspended, t)
  <2>1. r \in Seq(Tasks) /\ Range(r) = Range(u.suspended) \cup {t} /\ IsInjective(r)
    <3>1. u.suspended \in Seq(Tasks) /\ IsInjective(u.suspended) /\ t \notin Range(u.suspended)
      BY <1>3, <1>4, KernelTypes DEF Sound, Once
    <3>2. QED
      BY <3>1, Appended
  <2> HIDE DEF r
  <2>2. /\ l \in Kernels /\ l.suspended = r
        /\ l.ready = u.ready /\ l.unblock = u.unblock
        /\ l.delayed = u.delayed /\ l.overflow = u.overflow
        /\ l.term = u.term /\ l.pending = u.pending
        /\ l.tick = u.tick /\ l.pended = u.pended
        /\ l.current = u.current /\ l.depth = u.depth /\ l.yield = u.yield
        /\ l.wake = u.wake /\ l.prio = u.prio /\ l.top = u.top
    BY <1>4, <1>6, <1>7, <2>1 DEF Kernels, r
  <2> HIDE DEF l
  <2>3. Ready(l) = Ready(u) /\ Asleep(l) = Asleep(u) /\ On(l) = On(u) \cup {t}
    BY <2>1, <2>2 DEF Ready, Asleep, On
  <2>4. Once(l) /\ Queues(l) /\ Sorted(l) /\ Topped(l) /\ Resting(l)
    BY <1>3, <2>1, <2>2, <2>3 DEF Sound, Once, Queues, Sorted, Topped, Resting
  <2>5. t \notin On(u)
    BY <1>3
  <2>6. Apart(l)
    BY <1>3, <2>1, <2>2, <2>3, <2>5 DEF Sound, Apart, On
  <2>7. Sound(l)
    BY <2>2, <2>4, <2>6 DEF Sound
  <2>8. Timely(u) => Timely(l)
    BY <2>2 DEF Timely, Due, Announced
  <2>9. On(l) = On(k) \cup {t} /\ Ready(l) = Ready(k) \ {t}
    BY <1>3, <2>3
  <2>10. QED
    BY <1>2, <1>3, <1>5, <1>7, <2>1, <2>2, <2>7, <2>8, <2>9 DEF l, Blocked
<1>8. CASE ~(n = MaxDelay /\ forever)
  <2> DEFINE v == [u EXCEPT !.wake[t] = at]
  <2>1. at \in Ticks
    BY <1>1, Constants
  <2>2. n # 0 => at # k.tick
    <3>1. n \in 0 .. Wrap
      BY <1>1, Constants
    <3>2. at = IF k.tick + n < Wrap THEN k.tick + n ELSE k.tick + n - Wrap
      BY <1>1, <3>1, Wrapped
    <3>3. QED
      BY <1>1, <3>2, Constants
  <2> HIDE DEF at
  <2>3. /\ v \in Kernels /\ v.wake = [u.wake EXCEPT ![t] = at]
        /\ v.suspended = u.suspended /\ v.ready = u.ready /\ v.unblock = u.unblock
        /\ v.delayed = u.delayed /\ v.overflow = u.overflow
        /\ v.term = u.term /\ v.pending = u.pending
        /\ v.tick = u.tick /\ v.pended = u.pended
        /\ v.current = u.current /\ v.depth = u.depth /\ v.yield = u.yield
        /\ v.prio = u.prio /\ v.top = u.top
    BY <1>4, <2>1 DEF Kernels
  <2>4. l = Place(v, t)
    BY <1>6, <1>8
  <2> HIDE DEF v, l
  <2>5. u.wake \in [Tasks -> Ticks] /\ k.wake \in [Tasks -> Ticks]
    BY <1>1, <1>4, KernelTypes
  <2>6. /\ v.wake = [k.wake EXCEPT ![t] = at] /\ v.wake[t] = at
        /\ \A x \in Tasks \ {t} : v.wake[x] = u.wake[x]
    BY <1>2, <2>3, <2>5
  <2>7. Ready(v) = Ready(u) /\ Asleep(v) = Asleep(u) /\ On(v) = On(u)
    BY <2>3 DEF Ready, Asleep, On
  <2>8. \A x \in Range(v.delayed) \cup Range(v.overflow) : v.wake[x] = u.wake[x]
    BY <1>3, <1>4, <2>3, <2>6, ListsOfTasks
  <2>9. Sorted(v)
    <3>1. InOrder(v.delayed, u.wake) /\ InOrder(v.overflow, u.wake)
      BY <1>3, <2>3 DEF Sound, Sorted
    <3>2. QED
      BY <2>8, <3>1, OrderKept DEF Sorted
  <2>10. Sound(v)
    BY <1>3, <2>3, <2>7, <2>9 DEF Sound, Once, Apart, Queues, Topped, Resting
  <2>11. Timely(u) => Timely(v)
    BY <2>3, <2>8, TimesKept
  <2>12. t \notin On(v)
    BY <1>3, <2>7
  <2>13. /\ Sound(l)
         /\ Ready(l) = Ready(v) /\ On(l) = On(v) \cup {t}
         /\ Range(l.delayed) = Range(v.delayed) \cup (IF v.wake[t] < v.tick THEN {} ELSE {t})
         /\ Range(l.overflow) = Range(v.overflow) \cup (IF v.wake[t] < v.tick THEN {t} ELSE {})
         /\ l.suspended = v.suspended /\ l.term = v.term /\ l.pending = v.pending
         /\ l.tick = v.tick /\ l.pended = v.pended
         /\ l.current = v.current /\ l.depth = v.depth /\ l.yield = v.yield
         /\ l.wake = v.wake /\ l.prio = v.prio /\ l.top = v.top
         /\ Timely(v) /\ v.wake[t] # v.tick => Timely(l)
    BY <2>4, <2>10, <2>12, Placing
  <2>14. On(l) = On(k) \cup {t} /\ Ready(l) = Ready(k) \ {t}
    BY <1>3, <2>7, <2>13
  <2>15. /\ Range(l.delayed) = (Range(k.delayed) \ {t}) \cup (IF at < k.tick THEN {} ELSE {t})
         /\ Range(l.overflow) = (Range(k.overflow) \ {t}) \cup (IF at < k.tick THEN {t} ELSE {})
    BY <1>2, <1>3, <2>3, <2>6, <2>13
  <2>16. Timely(k) /\ n # 0 => Timely(l)
    BY <1>2, <1>5, <2>2, <2>3, <2>6, <2>11, <2>13
  <2>17. QED
    BY <1>2, <1>3, <1>8, <2>3, <2>6, <2>13, <2>14, <2>15, <2>16 DEF l, at, Blocked
<1>9. QED
  BY <1>7, <1>8

-----------------------------------------------------------------------------
(* Recursive functions *)

(* A set of numbers has a least.                                           *)
LEMMA NatMinimum ==
    ASSUME NEW S \in SUBSET Nat, S # {}
    PROVE  \E m \in S : \A i \in Nat : i < m => i \notin S
<1>1. IsWellFoundedOn(OpToRel(<, Nat), Nat)
  BY NatLessThanWellFounded
<1>2. \E m \in S : \A i \in Nat : <<i, m>> \in OpToRel(<, Nat) => i \notin S
  BY <1>1, WFMin
<1>3. QED
  BY <1>2 DEF OpToRel

(* The function of the rounds of xTaskIncrementTick exists.                *)
LEMMA RousedExists ==
    ASSUME NEW k, NEW m \in Nat
    PROVE  \E f : f = [n \in 0 .. m |-> IF n = 0 THEN k ELSE Rouse(f[n - 1], k.delayed[n])]
<1> DEFINE Next1(f, n) == IF n = 0 THEN k ELSE Rouse(f[n - 1], k.delayed[n])
           Solves(f, j) == f = [n \in 0 .. j |-> Next1(f, n)]
           Bad == {j \in Nat : ~ \E f : Solves(f, j)}
<1>1. ASSUME Bad # {} PROVE FALSE
  <2>1. PICK j \in Bad : \A i \in Nat : i < j => i \notin Bad
    <3>1. Bad \in SUBSET Nat
      OBVIOUS
    <3> HIDE DEF Bad
    <3>2. QED
      BY <1>1, <3>1, NatMinimum
  <2>2. j \in Nat /\ ~ \E f : Solves(f, j)
    BY <2>1
  <2>3. CASE j = 0
    <3> DEFINE f == [n \in 0 .. j |-> k]
    <3>1. \A n \in 0 .. j : n = 0
      BY <2>3
    <3> HIDE DEF Bad
    <3>2. Solves(f, j)
      BY <3>1
    <3>3. QED
      BY <2>2, <3>2
  <2>4. CASE j # 0
    <3>1. j - 1 \in Nat /\ j - 1 < j /\ j - 1 \notin Bad
      <4> HIDE DEF Bad
      <4>1. QED
        BY <2>1, <2>2, <2>4
    <3>2. PICK f : Solves(f, j - 1)
      BY <3>1
    <3> DEFINE g == [n \in 0 .. j |-> IF n = j THEN Next1(f, n) ELSE f[n]]
    <3> HIDE DEF Bad
    <3>3. ASSUME NEW n \in 0 .. j PROVE g[n] = Next1(g, n)
      <4>1. g[n] = Next1(f, n)
        <5>1. n # j => n \in 0 .. j - 1
          BY <2>2, <3>1
        <5>2. n # j => f[n] = Next1(f, n)
          <6> HIDE DEF Next1
          <6>1. QED
            BY <3>2, <5>1
        <5>3. QED
          BY <5>2
      <4>2. n # 0 => g[n - 1] = f[n - 1]
        BY <2>2, <3>1
      <4> HIDE DEF g
      <4>3. QED
        BY <4>1, <4>2
    <3>4. g = [n \in 0 .. j |-> g[n]]
      OBVIOUS
    <3> HIDE DEF g, Next1
    <3>5. Solves(g, j)
      BY <3>3, <3>4
    <3>6. QED
      BY <2>2, <3>5
  <2>5. QED
    BY <2>3, <2>4
<1>2. m \notin Bad
  <2> HIDE DEF Bad
  <2>1. QED
    BY <1>1
<1>3. QED
  BY <1>2

(* Roused is what its recursion says.                                      *)
LEMMA RousedRounds ==
    ASSUME NEW k, Len(k.delayed) \in Nat
    PROVE  \A n \in 0 .. Len(k.delayed) :
             Roused(k)[n] = IF n = 0 THEN k ELSE Rouse(Roused(k)[n - 1], k.delayed[n])
<1> DEFINE f == Roused(k)
<1>1. f = CHOOSE g : g = [n \in 0 .. Len(k.delayed) |->
                            IF n = 0 THEN k ELSE Rouse(g[n - 1], k.delayed[n])]
  BY DEF Roused
<1> HIDE DEF f
<1>2. f = [n \in 0 .. Len(k.delayed) |-> IF n = 0 THEN k ELSE Rouse(f[n - 1], k.delayed[n])]
  BY <1>1, RousedExists
<1>3. QED
  BY <1>2 DEF f

(* The function of the rounds over the pending list exists.                *)
LEMMA UnheldExists ==
    ASSUME NEW k, NEW m \in Nat
    PROVE  \E f : f = [n \in 0 .. m |-> IF n = 0 THEN k ELSE Unhold(f[n - 1], k.pending[n])]
<1> DEFINE Next1(f, n) == IF n = 0 THEN k ELSE Unhold(f[n - 1], k.pending[n])
           Solves(f, j) == f = [n \in 0 .. j |-> Next1(f, n)]
           Bad == {j \in Nat : ~ \E f : Solves(f, j)}
<1>1. ASSUME Bad # {} PROVE FALSE
  <2>1. PICK j \in Bad : \A i \in Nat : i < j => i \notin Bad
    <3>1. Bad \in SUBSET Nat
      OBVIOUS
    <3> HIDE DEF Bad
    <3>2. QED
      BY <1>1, <3>1, NatMinimum
  <2>2. j \in Nat /\ ~ \E f : Solves(f, j)
    BY <2>1
  <2>3. CASE j = 0
    <3> DEFINE f == [n \in 0 .. j |-> k]
    <3>1. \A n \in 0 .. j : n = 0
      BY <2>3
    <3> HIDE DEF Bad
    <3>2. Solves(f, j)
      BY <3>1
    <3>3. QED
      BY <2>2, <3>2
  <2>4. CASE j # 0
    <3>1. j - 1 \in Nat /\ j - 1 < j /\ j - 1 \notin Bad
      <4> HIDE DEF Bad
      <4>1. QED
        BY <2>1, <2>2, <2>4
    <3>2. PICK f : Solves(f, j - 1)
      BY <3>1
    <3> DEFINE g == [n \in 0 .. j |-> IF n = j THEN Next1(f, n) ELSE f[n]]
    <3> HIDE DEF Bad
    <3>3. ASSUME NEW n \in 0 .. j PROVE g[n] = Next1(g, n)
      <4>1. g[n] = Next1(f, n)
        <5>1. n # j => n \in 0 .. j - 1
          BY <2>2, <3>1
        <5>2. n # j => f[n] = Next1(f, n)
          <6> HIDE DEF Next1
          <6>1. QED
            BY <3>2, <5>1
        <5>3. QED
          BY <5>2
      <4>2. n # 0 => g[n - 1] = f[n - 1]
        BY <2>2, <3>1
      <4> HIDE DEF g
      <4>3. QED
        BY <4>1, <4>2
    <3>4. g = [n \in 0 .. j |-> g[n]]
      OBVIOUS
    <3> HIDE DEF g, Next1
    <3>5. Solves(g, j)
      BY <3>3, <3>4
    <3>6. QED
      BY <2>2, <3>5
  <2>5. QED
    BY <2>3, <2>4
<1>2. m \notin Bad
  <2> HIDE DEF Bad
  <2>1. QED
    BY <1>1
<1>3. QED
  BY <1>2

(* Unheld is what its recursion says.                                      *)
LEMMA UnheldRounds ==
    ASSUME NEW k, Len(k.pending) \in Nat
    PROVE  \A n \in 0 .. Len(k.pending) :
             Unheld(k)[n] = IF n = 0 THEN k ELSE Unhold(Unheld(k)[n - 1], k.pending[n])
<1> DEFINE f == Unheld(k)
<1>1. f = CHOOSE g : g = [n \in 0 .. Len(k.pending) |->
                            IF n = 0 THEN k ELSE Unhold(g[n - 1], k.pending[n])]
  BY DEF Unheld
<1> HIDE DEF f
<1>2. f = [n \in 0 .. Len(k.pending) |-> IF n = 0 THEN k ELSE Unhold(f[n - 1], k.pending[n])]
  BY <1>1, UnheldExists
<1>3. QED
  BY <1>2 DEF f

(* The function of the pended ticks exists.                                *)
LEMMA TickedExists ==
    ASSUME NEW k, NEW m \in Nat
    PROVE  \E f : f = [n \in 0 .. m |-> IF n = 0 THEN k ELSE TickOnce(f[n - 1])]
<1> DEFINE Next1(f, n) == IF n = 0 THEN k ELSE TickOnce(f[n - 1])
           Solves(f, j) == f = [n \in 0 .. j |-> Next1(f, n)]
           Bad == {j \in Nat : ~ \E f : Solves(f, j)}
<1>1. ASSUME Bad # {} PROVE FALSE
  <2>1. PICK j \in Bad : \A i \in Nat : i < j => i \notin Bad
    <3>1. Bad \in SUBSET Nat
      OBVIOUS
    <3> HIDE DEF Bad
    <3>2. QED
      BY <1>1, <3>1, NatMinimum
  <2>2. j \in Nat /\ ~ \E f : Solves(f, j)
    BY <2>1
  <2>3. CASE j = 0
    <3> DEFINE f == [n \in 0 .. j |-> k]
    <3>1. \A n \in 0 .. j : n = 0
      BY <2>3
    <3> HIDE DEF Bad
    <3>2. Solves(f, j)
      BY <3>1
    <3>3. QED
      BY <2>2, <3>2
  <2>4. CASE j # 0
    <3>1. j - 1 \in Nat /\ j - 1 < j /\ j - 1 \notin Bad
      <4> HIDE DEF Bad
      <4>1. QED
        BY <2>1, <2>2, <2>4
    <3>2. PICK f : Solves(f, j - 1)
      BY <3>1
    <3> DEFINE g == [n \in 0 .. j |-> IF n = j THEN Next1(f, n) ELSE f[n]]
    <3> HIDE DEF Bad
    <3>3. ASSUME NEW n \in 0 .. j PROVE g[n] = Next1(g, n)
      <4>1. g[n] = Next1(f, n)
        <5>1. n # j => n \in 0 .. j - 1
          BY <2>2, <3>1
        <5>2. n # j => f[n] = Next1(f, n)
          <6> HIDE DEF Next1
          <6>1. QED
            BY <3>2, <5>1
        <5>3. QED
          BY <5>2
      <4>2. n # 0 => g[n - 1] = f[n - 1]
        BY <2>2, <3>1
      <4> HIDE DEF g
      <4>3. QED
        BY <4>1, <4>2
    <3>4. g = [n \in 0 .. j |-> g[n]]
      OBVIOUS
    <3> HIDE DEF g, Next1
    <3>5. Solves(g, j)
      BY <3>3, <3>4
    <3>6. QED
      BY <2>2, <3>5
  <2>5. QED
    BY <2>3, <2>4
<1>2. m \notin Bad
  <2> HIDE DEF Bad
  <2>1. QED
    BY <1>1
<1>3. QED
  BY <1>2

(* Ticked is what its recursion says.                                      *)
LEMMA TickedRounds ==
    ASSUME NEW k, k.pended \in Nat
    PROVE  \A n \in 0 .. k.pended :
             Ticked(k)[n] = IF n = 0 THEN k ELSE TickOnce(Ticked(k)[n - 1])
<1> DEFINE f == Ticked(k)
<1>1. f = CHOOSE g : g = [n \in 0 .. k.pended |->
                            IF n = 0 THEN k ELSE TickOnce(g[n - 1])]
  BY DEF Ticked
<1> HIDE DEF f
<1>2. f = [n \in 0 .. k.pended |-> IF n = 0 THEN k ELSE TickOnce(f[n - 1])]
  BY <1>1, TickedExists
<1>3. QED
  BY <1>2 DEF f

-----------------------------------------------------------------------------
(* The loop of xTaskIncrementTick *)

(* The first n tasks of a list *)
Upto(list, n) == {list[i] : i \in 1 .. n}

(* A round of a loop takes the next task. *)
LEMMA UptoNext ==
    ASSUME NEW s \in Seq(Tasks), NEW n \in 1 .. Len(s)
    PROVE  /\ Upto(s, n) = Upto(s, n - 1) \cup {s[n]}
           /\ Upto(s, n) \subseteq Range(s) /\ s[n] \in Range(s) /\ s[n] \in Tasks
           /\ IsInjective(s) => s[n] \notin Upto(s, n - 1)
<1>1. n \in DOMAIN s /\ 1 .. n \subseteq DOMAIN s /\ 1 .. n - 1 \subseteq DOMAIN s /\ n \notin 1 .. n - 1
  OBVIOUS
<1>2. 1 .. n = 1 .. n - 1 \cup {n}
  OBVIOUS
<1>3. QED
  BY <1>1, <1>2 DEF Upto, Range, IsInjective

(* The whole of a list, and none of it                                     *)
LEMMA UptoWhole ==
    ASSUME NEW s \in Seq(Tasks)
    PROVE  Upto(s, Len(s)) = Range(s) /\ Upto(s, 0) = {}
BY DEF Upto, Range

(* What n rounds of the loop of xTaskIncrementTick have done: the first n  *)
(* tasks of the delayed list are ready.                                    *)
RousedTo(k, l, n) ==
    LET g == Upto(k.delayed, n) IN
    /\ Sound(l)
    /\ Ready(l) = Ready(k) \cup g /\ On(l) = On(k)
    /\ Range(l.delayed) = Range(k.delayed) \ g
    /\ Range(l.overflow) = Range(k.overflow)
    /\ Range(l.suspended) = Range(k.suspended)
    /\ Range(l.term) = Range(k.term)
    /\ Range(l.pending) = Range(k.pending) \ g
    /\ l.tick = k.tick /\ l.pended = k.pended /\ l.unblock = k.unblock
    /\ l.current = k.current /\ l.depth = k.depth /\ l.yield = k.yield
    /\ l.prio = k.prio
    /\ \A u \in Range(l.delayed) \cup Range(l.overflow) : l.wake[u] = k.wake[u]

(* One more round of the loop of xTaskIncrementTick                        *)
LEMMA RousedOne ==
    ASSUME NEW k, Sound(k), NEW n \in 1 .. Len(k.delayed), NEW l, RousedTo(k, l, n - 1)
    PROVE  RousedTo(k, Rouse(l, k.delayed[n]), n)
<1> DEFINE d == k.delayed
           t == d[n]
           m == Rouse(l, t)
<1>1. d \in Seq(Tasks) /\ IsInjective(d)
  BY KernelTypes DEF Sound, Once
<1>2. /\ Upto(d, n) = Upto(d, n - 1) \cup {t}
      /\ Upto(d, n) \subseteq Range(d) /\ t \in Range(d) /\ t \in Tasks
      /\ t \notin Upto(d, n - 1)
  BY <1>1, UptoNext
<1>3. Sound(l) /\ l \in Kernels
  BY DEF RousedTo, Sound
<1> HIDE DEF t
<1>4. /\ Sound(m)
      /\ Ready(m) = Ready(l) \cup {t} /\ On(m) = On(l) \cup {t}
      /\ Range(m.delayed) = Range(l.delayed) \ {t}
      /\ Range(m.overflow) = Range(l.overflow) \ {t}
      /\ Range(m.suspended) = Range(l.suspended) \ {t}
      /\ Range(m.term) = Range(l.term) \ {t}
      /\ Range(m.pending) = Range(l.pending) \ {t}
      /\ m.tick = l.tick /\ m.pended = l.pended /\ m.unblock = l.unblock
      /\ m.current = l.current /\ m.depth = l.depth /\ m.yield = l.yield
      /\ m.wake = [l.wake EXCEPT ![t] = 0] /\ m.prio = l.prio
  BY <1>2, <1>3, Rousing
<1> HIDE DEF m
<1>5. \A u \in Range(m.delayed) \cup Range(m.overflow) : m.wake[u] = l.wake[u]
  BY <1>2, <1>3, <1>4, WakeForgotten
<1>6. /\ t \in Range(k.delayed) /\ t \notin Range(k.overflow) /\ t \notin Range(k.suspended)
      /\ t \notin Range(k.term) /\ t \in On(k)
  BY <1>2 DEF Sound, Apart, Asleep, On
<1> HIDE DEF d
<1>7. RousedTo(k, m, n)
  BY <1>2, <1>4, <1>5, <1>6 DEF RousedTo, d
<1>8. QED
  BY <1>7 DEF m, t, d

(* All its rounds                                                          *)
LEMMA RousedAll ==
    ASSUME NEW k, Sound(k)
    PROVE  \A n \in 0 .. Len(k.delayed) : RousedTo(k, Roused(k)[n], n)
<1> DEFINE Bad == {n \in 0 .. Len(k.delayed) : ~RousedTo(k, Roused(k)[n], n)}
<1>1. k.delayed \in Seq(Tasks) /\ Len(k.delayed) \in Nat
  BY KernelTypes DEF Sound
<1>2. RousedTo(k, k, 0)
  BY <1>1, UptoWhole DEF RousedTo
<1>3. ASSUME Bad # {} PROVE FALSE
  <2>1. PICK n \in Bad : \A i \in Nat : i < n => i \notin Bad
    <3>1. Bad \in SUBSET Nat
      BY <1>1
    <3> HIDE DEF Bad
    <3>2. QED
      BY <1>3, <3>1, NatMinimum
  <2>2. n \in 0 .. Len(k.delayed) /\ ~RousedTo(k, Roused(k)[n], n)
    BY <2>1
  <2>3. Roused(k)[n] = IF n = 0 THEN k ELSE Rouse(Roused(k)[n - 1], k.delayed[n])
    BY <1>1, <2>2, RousedRounds
  <2>4. n # 0
    BY <1>2, <2>2, <2>3
  <2>5. n - 1 \in 0 .. Len(k.delayed) /\ n \in 1 .. Len(k.delayed) /\ n - 1 \notin Bad
    <3> HIDE DEF Bad
    <3>1. QED
      BY <1>1, <2>1, <2>2, <2>4
  <2>6. RousedTo(k, Roused(k)[n - 1], n - 1)
    BY <2>5
  <2>7. RousedTo(k, Rouse(Roused(k)[n - 1], k.delayed[n]), n)
    BY <2>5, <2>6, RousedOne
  <2>8. QED
    BY <2>2, <2>3, <2>4, <2>7
<1>4. QED
  BY <1>3

(* What has been woken by then *)
Over(k) == {t \in Range(k.delayed) : k.wake[t] <= k.tick}

(* The loop of xTaskIncrementTick makes ready what is over, and no more.   *)
LEMMA Expiring ==
    ASSUME NEW k, Sound(k), \A t \in Range(k.overflow) : k.wake[t] < k.tick
    PROVE  LET l == Expire(k) IN
           /\ Sound(l) /\ Timely(l)
           /\ Ready(l) = Ready(k) \cup Over(k) /\ On(l) = On(k)
           /\ Range(l.delayed) = Range(k.delayed) \ Over(k)
           /\ Range(l.overflow) = Range(k.overflow)
           /\ Range(l.suspended) = Range(k.suspended) /\ Range(l.term) = Range(k.term)
           /\ Range(l.pending) = Range(k.pending) \ Over(k)
           /\ l.tick = k.tick /\ l.pended = k.pended
           /\ l.current = k.current /\ l.depth = k.depth /\ l.yield = k.yield
           /\ l.prio = k.prio
           /\ \A u \in Asleep(l) : l.wake[u] = k.wake[u]
<1> DEFINE n == Leading(k.delayed, k.wake, k.tick)
           r == Roused(k)[n]
           l == ResetUnblock(r)
<1>1. /\ k \in Kernels /\ k.delayed \in Seq(Tasks) /\ k.wake \in [Tasks -> Ticks] /\ k.tick \in Ticks
      /\ InOrder(k.delayed, k.wake)
  BY KernelTypes DEF Sound, Sorted
<1>2. /\ n \in 0 .. Len(k.delayed)
      /\ \A j \in 1 .. n : k.wake[k.delayed[j]] <= k.tick
      /\ n < Len(k.delayed) => k.wake[k.delayed[n + 1]] > k.tick
  BY <1>1, LeadingIs
<1>3. l = Expire(k)
  BY DEF Expire
<1> HIDE DEF n
<1>4. RousedTo(k, r, n)
  BY <1>2, RousedAll
<1>5. Upto(k.delayed, n) = Over(k)
  <2>1. DOMAIN k.delayed = 1 .. Len(k.delayed) /\ Len(k.delayed) \in Nat
    BY <1>1
  <2>2. Upto(k.delayed, n) \subseteq Over(k)
    <3>1. \A j \in 1 .. n : j \in DOMAIN k.delayed
      BY <1>2, <2>1
    <3>2. QED
      BY <1>2, <3>1 DEF Upto, Over, Range
  <2>3. ASSUME NEW j \in DOMAIN k.delayed, k.wake[k.delayed[j]] <= k.tick PROVE j \in 1 .. n
    <3> SUFFICES ASSUME j > n PROVE FALSE
      BY <1>2, <2>1
    <3>1. n + 1 \in DOMAIN k.delayed /\ n < Len(k.delayed) /\ (j = n + 1 \/ n + 1 < j)
      BY <1>2, <2>1
    <3>2. n + 1 < j => k.wake[k.delayed[n + 1]] <= k.wake[k.delayed[j]]
      BY <1>1, <3>1 DEF InOrder
    <3>3. k.delayed[n + 1] \in Tasks /\ k.delayed[j] \in Tasks
      BY <1>1, <3>1
    <3>4. /\ k.wake[k.delayed[n + 1]] \in Nat /\ k.wake[k.delayed[j]] \in Nat /\ k.tick \in Nat
      BY <1>1, <3>3, Constants
    <3>5. QED
      BY <1>2, <2>3, <3>1, <3>2, <3>4
  <2>4. QED
    BY <2>2, <2>3 DEF Upto, Over, Range
<1> HIDE DEF r
<1>6. /\ Sound(r)
      /\ Ready(r) = Ready(k) \cup Over(k) /\ On(r) = On(k)
      /\ Range(r.delayed) = Range(k.delayed) \ Over(k)
      /\ Range(r.overflow) = Range(k.overflow)
      /\ Range(r.suspended) = Range(k.suspended) /\ Range(r.term) = Range(k.term)
      /\ Range(r.pending) = Range(k.pending) \ Over(k)
      /\ r.tick = k.tick /\ r.pended = k.pended
      /\ r.current = k.current /\ r.depth = k.depth /\ r.yield = k.yield
      /\ r.prio = k.prio
      /\ \A u \in Range(r.delayed) \cup Range(r.overflow) : r.wake[u] = k.wake[u]
  BY <1>4, <1>5 DEF RousedTo
<1>7. Due(r)
  <2>1. \A u \in Range(r.delayed) : r.wake[u] > r.tick
    <3> SUFFICES ASSUME NEW u \in Range(r.delayed) PROVE r.wake[u] > r.tick
      OBVIOUS
    <3>1. u \in Tasks /\ u \in Range(k.delayed) /\ u \notin Over(k)
      BY <1>1, <1>6, ListsOfTasks
    <3>2. k.wake[u] \in Nat /\ k.tick \in Nat
      BY <1>1, <3>1, Constants
    <3>3. QED
      BY <1>6, <3>1, <3>2 DEF Over
  <2>2. QED
    BY <1>6, <2>1 DEF Due
<1>8. /\ Sound(l) /\ SameLists(r, l)
      /\ Ready(l) = Ready(r) /\ Asleep(l) = Asleep(r) /\ On(l) = On(r)
      /\ l.tick = r.tick /\ l.pended = r.pended /\ l.pending = r.pending
      /\ l.current = r.current /\ l.depth = r.depth /\ l.yield = r.yield
      /\ Timely(l)
  BY <1>6, <1>7, Resetting
<1> HIDE DEF l
<1>9. \A u \in Asleep(l) : l.wake[u] = k.wake[u]
  BY <1>6, <1>8 DEF Asleep, SameLists
<1>10. QED
  BY <1>3, <1>6, <1>8, <1>9 DEF SameLists

-----------------------------------------------------------------------------
(* One tick *)

(* The tasks that the next tick wakes *)
Woken(k) == {t \in Asleep(k) : k.wake[t] = (k.tick + 1) % Wrap}

(* One tick: those that wake then are ready, and the times are right again. *)
OneTick(k, l) ==
    /\ Sound(l) /\ Timely(l)
    /\ l.tick = (k.tick + 1) % Wrap
    /\ Ready(l) = Ready(k) \cup Woken(k) /\ On(l) = On(k)
    /\ Asleep(l) = Asleep(k) \ Woken(k)
    /\ Range(l.suspended) = Range(k.suspended) /\ Range(l.term) = Range(k.term)
    /\ Range(l.pending) = Range(k.pending) \ Woken(k)
    /\ l.pended = k.pended
    /\ l.current = k.current /\ l.depth = k.depth
    /\ l.prio = k.prio
    /\ \A u \in Asleep(l) : l.wake[u] = k.wake[u]

(* The lists after the tick count has gone on, when the tasks that wake    *)
(* are those of the delayed list whose time is there                       *)
LEMMA TickOver ==
    ASSUME NEW k, Sound(k), NEW s, Sound(s),
           s.tick = (k.tick + 1) % Wrap,
           Ready(s) = Ready(k), On(s) = On(k), Asleep(s) = Asleep(k),
           Over(s) = Woken(k),
           \A t \in Range(s.overflow) : s.wake[t] < s.tick,
           \A t \in Range(s.delayed) : s.wake[t] >= s.unblock,
           s.suspended = k.suspended, s.term = k.term, s.pending = k.pending,
           s.pended = k.pended, s.current = k.current, s.depth = k.depth,
           s.yield = k.yield, s.prio = k.prio, s.wake = k.wake
    PROVE  LET l == IF s.tick >= s.unblock THEN Expire(s) ELSE s IN
           OneTick(k, l) /\ l.yield = k.yield
<1>1. /\ s \in Kernels /\ s.tick \in Nat /\ s.unblock \in Nat /\ s.wake \in [Tasks -> Ticks]
      /\ s.delayed \in Seq(Tasks)
  BY KernelTypes, Constants DEF Sound
<1>2. CASE s.tick >= s.unblock
  <2> DEFINE l == Expire(s)
  <2>1. /\ Sound(l) /\ Timely(l)
        /\ Ready(l) = Ready(s) \cup Over(s) /\ On(l) = On(s)
        /\ Range(l.delayed) = Range(s.delayed) \ Over(s)
        /\ Range(l.overflow) = Range(s.overflow)
        /\ Range(l.suspended) = Range(s.suspended) /\ Range(l.term) = Range(s.term)
        /\ Range(l.pending) = Range(s.pending) \ Over(s)
        /\ l.tick = s.tick /\ l.pended = s.pended
        /\ l.current = s.current /\ l.depth = s.depth /\ l.yield = s.yield
        /\ l.prio = s.prio
        /\ \A u \in Asleep(l) : l.wake[u] = s.wake[u]
    BY Expiring
  <2> HIDE DEF l
  <2>2. Over(s) \cap Range(s.overflow) = {}
    BY DEF Sound, Apart, Over
  <2>3. Asleep(l) = Asleep(k) \ Woken(k)
    BY <2>1, <2>2 DEF Asleep
  <2>4. OneTick(k, l) /\ l.yield = k.yield
    BY <2>1, <2>3 DEF OneTick
  <2>5. QED
    BY <1>2, <2>4 DEF l
<1>3. CASE ~(s.tick >= s.unblock)
  <2>1. \A t \in Range(s.delayed) : s.wake[t] > s.tick
    <3> SUFFICES ASSUME NEW t \in Range(s.delayed) PROVE s.wake[t] > s.tick
      OBVIOUS
    <3>1. s.wake[t] \in Nat /\ s.wake[t] >= s.unblock
      BY <1>1, ListsOfTasks, Constants
    <3>2. QED
      BY <1>1, <1>3, <3>1
  <2>2. \A t \in Range(s.delayed) : ~(s.wake[t] <= s.tick)
    <3> SUFFICES ASSUME NEW t \in Range(s.delayed) PROVE ~(s.wake[t] <= s.tick)
      OBVIOUS
    <3>1. s.wake[t] \in Nat /\ s.wake[t] > s.tick
      BY <1>1, <2>1, ListsOfTasks, Constants
    <3>2. QED
      BY <1>1, <3>1
  <2>3. Woken(k) = {}
    BY <2>2 DEF Over
  <2>4. Timely(s)
    <3>1. Due(s)
      BY <2>1 DEF Due
    <3>2. s.unblock >= s.tick
      BY <1>1, <1>3
    <3>3. QED
      BY <3>1, <3>2 DEF Timely, Announced
  <2>5. OneTick(k, s)
    BY <2>3, <2>4 DEF OneTick
  <2>6. QED
    BY <1>3, <2>5
<1>4. QED
  BY <1>2, <1>3

(* xTaskIncrementTick is one tick, also where the tick count wraps.        *)
LEMMA Incrementing ==
    ASSUME NEW k, Sound(k), Timely(k)
    PROVE  LET l == Increment(k) IN OneTick(k, l) /\ l.yield = k.yield
<1> DEFINE now == (k.tick + 1) % Wrap
           m == [k EXCEPT !.tick = now]
           s == IF now = 0 THEN SwitchLists(m) ELSE m
<1>1. /\ k \in Kernels /\ k.tick \in Nat /\ k.tick < Wrap /\ k.tick \in Ticks
      /\ k.wake \in [Tasks -> Ticks] /\ k.unblock \in Nat
  BY KernelTypes, Constants DEF Sound
<1>2. now = IF k.tick + 1 < Wrap THEN k.tick + 1 ELSE 0
  <2>1. 1 \in 0 .. Wrap /\ Wrap \in Nat
    BY Constants
  <2>2. now = IF k.tick + 1 < Wrap THEN k.tick + 1 ELSE k.tick + 1 - Wrap
    BY <1>1, <2>1, Wrapped
  <2> HIDE DEF now
  <2>3. QED
    BY <1>1, <2>1, <2>2
<1>3. now \in Ticks
  BY <1>1, <1>2, Constants
<1>4. Increment(k) = IF now >= s.unblock THEN Expire(s) ELSE s
  BY DEF Increment
<1>5. \A t \in Tasks : k.wake[t] \in Nat /\ k.wake[t] < Wrap
  BY <1>1, Constants
<1>6. /\ Range(k.delayed) \subseteq Tasks /\ Range(k.overflow) \subseteq Tasks
      /\ Asleep(k) = Range(k.delayed) \cup Range(k.overflow)
  BY <1>1, ListsOfTasks DEF Asleep
<1>7. \A t \in Range(k.delayed) : k.wake[t] > k.tick /\ k.wake[t] >= k.unblock
  BY DEF Timely, Due, Announced
<1>8. \A t \in Range(k.overflow) : k.wake[t] < k.tick
  BY DEF Timely, Due
<1> HIDE DEF now
<1>9. /\ m \in Kernels /\ SameLists(k, m) /\ m.tick = now /\ m.top = k.top
      /\ m.pending = k.pending /\ m.unblock = k.unblock /\ m.pended = k.pended
      /\ m.current = k.current /\ m.depth = k.depth /\ m.yield = k.yield
  BY <1>1, <1>3 DEF Kernels, SameLists
<1>10. IsInjective(k.pending)
  BY DEF Sound, Once
<1>11. CASE now # 0
  <2>1. s = m
    BY <1>11
  <2> HIDE DEF m, s
  <2>2. Sound(m) /\ Ready(m) = Ready(k) /\ Asleep(m) = Asleep(k) /\ On(m) = On(k)
    BY <1>9, <1>10, SoundKept
  <2>3. /\ m.delayed = k.delayed /\ m.overflow = k.overflow /\ m.wake = k.wake
        /\ m.suspended = k.suspended /\ m.term = k.term /\ m.prio = k.prio
    BY <1>9 DEF SameLists
  <2>4. now = k.tick + 1
    BY <1>2, <1>11
  <2>5. Over(m) = Woken(k)
    <3>1. ASSUME NEW t \in Range(k.delayed) PROVE k.wake[t] <= now <=> k.wake[t] = now
      <4>1. k.wake[t] \in Nat /\ k.wake[t] > k.tick
        BY <1>5, <1>6, <1>7
      <4>2. QED
        BY <1>1, <2>4, <4>1
    <3>2. ASSUME NEW t \in Range(k.overflow) PROVE k.wake[t] # now
      <4>1. k.wake[t] \in Nat /\ k.wake[t] < k.tick
        BY <1>5, <1>6, <1>8
      <4>2. QED
        BY <1>1, <2>4, <4>1
    <3>3. QED
      BY <1>6, <1>9, <2>3, <3>1, <3>2 DEF Over, Woken, now
  <2>6. \A t \in Range(m.overflow) : m.wake[t] < m.tick
    <3> SUFFICES ASSUME NEW t \in Range(k.overflow) PROVE k.wake[t] < now
      BY <1>9, <2>3
    <3>1. k.wake[t] \in Nat /\ k.wake[t] < k.tick
      BY <1>5, <1>6, <1>8
    <3>2. QED
      BY <1>1, <2>4, <3>1
  <2>7. \A t \in Range(m.delayed) : m.wake[t] >= m.unblock
    BY <1>7, <1>9, <2>3
  <2>8. m.tick = (k.tick + 1) % Wrap
    BY <1>9 DEF now
  <2> DEFINE l == IF m.tick >= m.unblock THEN Expire(m) ELSE m
  <2>9. OneTick(k, l) /\ l.yield = k.yield
    BY <1>9, <2>2, <2>3, <2>5, <2>6, <2>7, <2>8, TickOver
  <2>10. l = Increment(k)
    BY <1>4, <1>9, <2>1
  <2> HIDE DEF l
  <2>11. QED
    BY <2>9, <2>10
<1>12. CASE now = 0
  <2> DEFINE w == [m EXCEPT !.delayed = m.overflow, !.overflow = m.delayed]
  <2>1. s = ResetUnblock(w)
    BY <1>12 DEF SwitchLists
  <2>2. k.tick = Wrap - 1 /\ Wrap \in Nat
    BY <1>1, <1>2, <1>12, Constants
  <2>3. Range(k.delayed) = {}
    <3> SUFFICES ASSUME NEW t \in Range(k.delayed) PROVE FALSE
      OBVIOUS
    <3>1. k.wake[t] \in Nat /\ k.wake[t] < Wrap /\ k.wake[t] > k.tick
      BY <1>5, <1>6, <1>7
    <3>2. QED
      BY <2>2, <3>1
  <2>4. /\ w \in Kernels /\ w.delayed = k.overflow /\ w.overflow = k.delayed
        /\ w.tick = 0 /\ w.top = k.top
        /\ w.pending = k.pending /\ w.pended = k.pended
        /\ w.current = k.current /\ w.depth = k.depth /\ w.yield = k.yield
        /\ w.ready = k.ready /\ w.suspended = k.suspended /\ w.term = k.term
        /\ w.wake = k.wake /\ w.prio = k.prio
    BY <1>9, <1>12 DEF Kernels, SameLists
  <2> HIDE DEF w, m
  <2>5. Ready(w) = Ready(k) /\ Asleep(w) = Asleep(k) /\ On(w) = On(k)
    BY <2>4 DEF Ready, Asleep, On
  <2>6. Sound(w)
    BY <2>4, <2>5 DEF Sound, Once, Apart, Queues, Sorted, Topped, Resting
  <2> HIDE DEF s
  <2>7. /\ Sound(s) /\ SameLists(w, s)
        /\ Ready(s) = Ready(w) /\ Asleep(s) = Asleep(w) /\ On(s) = On(w)
        /\ s.tick = w.tick /\ s.pended = w.pended /\ s.pending = w.pending
        /\ s.top = w.top /\ s.current = w.current /\ s.depth = w.depth /\ s.yield = w.yield
        /\ \A t \in Range(s.delayed) : s.wake[t] >= s.unblock
    BY <2>1, <2>6, Resetting
  <2>8. /\ s.delayed = k.overflow /\ s.overflow = k.delayed /\ s.wake = k.wake
        /\ s.suspended = k.suspended /\ s.term = k.term /\ s.prio = k.prio
    BY <2>4, <2>7 DEF SameLists
  <2>9. Over(s) = Woken(k)
    <3>1. \A t \in Range(k.overflow) : k.wake[t] <= 0 <=> k.wake[t] = 0
      BY <1>5, <1>6
    <3>2. QED
      BY <1>6, <1>12, <2>3, <2>4, <2>7, <2>8, <3>1 DEF Over, Woken, now
  <2>10. \A t \in Range(s.overflow) : s.wake[t] < s.tick
    BY <2>3, <2>8
  <2>11. s.tick = (k.tick + 1) % Wrap /\ s.tick = now
    BY <1>12, <2>4, <2>7 DEF now
  <2> DEFINE l == IF s.tick >= s.unblock THEN Expire(s) ELSE s
  <2>12. Ready(s) = Ready(k) /\ Asleep(s) = Asleep(k) /\ On(s) = On(k)
    BY <2>5, <2>7
  <2>13. /\ s.pended = k.pended /\ s.pending = k.pending
         /\ s.current = k.current /\ s.depth = k.depth /\ s.yield = k.yield
    BY <2>4, <2>7
  <2>14. OneTick(k, l) /\ l.yield = k.yield
    BY <2>7, <2>8, <2>9, <2>10, <2>11, <2>12, <2>13, TickOver
  <2>15. l = Increment(k)
    BY <1>4, <2>11
  <2> HIDE DEF l
  <2>16. QED
    BY <2>14, <2>15
<1>13. QED
  BY <1>11, <1>12

-----------------------------------------------------------------------------
(* What is left of a delay *)

(* A task has ticks left if it is on a delayed list, fewer than a lap.     *)
LEMMA LeftIs ==
    ASSUME NEW k, Sound(k), Timely(k), NEW t \in Tasks
    PROVE  /\ Left(k, t) \in Nat
           /\ t \notin Asleep(k) => Left(k, t) = 0
           /\ t \in Asleep(k) =>
                /\ k.wake[t] # k.tick
                /\ k.wake[t] > k.tick <=> t \in Range(k.delayed)
                /\ Left(k, t) = k.wake[t] - k.tick + (IF k.wake[t] > k.tick THEN 0 ELSE Wrap)
                /\ Left(k, t) \in 1 .. Wrap - 1
<1>1. k.wake[t] \in 0 .. Wrap - 1 /\ k.tick \in 0 .. Wrap - 1 /\ Wrap \in Nat
  BY KernelTypes, Constants DEF Sound
<1>2. t \notin Asleep(k) => Left(k, t) = 0
  BY DEF Left
<1>3. ASSUME t \in Range(k.delayed) PROVE k.wake[t] > k.tick /\ Left(k, t) = k.wake[t] - k.tick
  <2>1. k.wake[t] > k.tick /\ t \in Asleep(k)
    BY <1>3 DEF Timely, Due, Asleep
  <2>2. Left(k, t) = k.wake[t] - k.tick + 0
    BY <1>3, <2>1 DEF Left
  <2>3. QED
    BY <1>1, <2>1, <2>2
<1>4. ASSUME t \in Range(k.overflow)
      PROVE  /\ k.wake[t] < k.tick /\ Left(k, t) = k.wake[t] - k.tick + Wrap
             /\ t \notin Range(k.delayed)
  <2>1. k.wake[t] < k.tick /\ t \in Asleep(k) /\ t \notin Range(k.delayed)
    BY <1>4 DEF Timely, Due, Asleep, Sound, Apart
  <2>2. QED
    BY <2>1 DEF Left
<1>5. QED
  BY <1>1, <1>2, <1>3, <1>4 DEF Asleep

(* A tick brings every task that sleeps one tick nearer. *)
LEMMA LeftAfterTick ==
    ASSUME NEW k, Sound(k), Timely(k), NEW l, OneTick(k, l), NEW t \in Tasks
    PROVE  Left(l, t) = IF Left(k, t) > 1 THEN Left(k, t) - 1 ELSE 0
<1>1. Sound(l) /\ Timely(l)
  BY DEF OneTick
<1>2. k.wake[t] \in 0 .. Wrap - 1 /\ k.tick \in 0 .. Wrap - 1 /\ Wrap \in Nat \ {0}
  BY KernelTypes, Constants DEF Sound
<1>3. l.tick = IF k.tick + 1 < Wrap THEN k.tick + 1 ELSE 0
  <2>1. k.tick \in Ticks /\ 1 \in 0 .. Wrap
    BY <1>2, Constants
  <2>2. (k.tick + 1) % Wrap = IF k.tick + 1 < Wrap THEN k.tick + 1 ELSE k.tick + 1 - Wrap
    BY <2>1, Wrapped
  <2>3. l.tick = (k.tick + 1) % Wrap
    BY DEF OneTick
  <2>4. QED
    BY <1>2, <2>2, <2>3
<1>4. CASE t \notin Asleep(k)
  <2>1. Left(k, t) = 0
    BY <1>4, LeftIs
  <2>2. t \notin Asleep(l)
    BY <1>4 DEF OneTick
  <2>3. Left(l, t) = 0
    BY <1>1, <2>2, LeftIs
  <2>4. QED
    BY <2>1, <2>3
<1>5. CASE t \in Asleep(k)
  <2>1. /\ k.wake[t] # k.tick
        /\ Left(k, t) = k.wake[t] - k.tick + (IF k.wake[t] > k.tick THEN 0 ELSE Wrap)
    BY <1>5, LeftIs
  <2>2. CASE k.wake[t] = l.tick
    <3>1. t \notin Asleep(l)
      BY <2>2 DEF OneTick, Woken
    <3>2. Left(l, t) = 0
      BY <1>1, <3>1, LeftIs
    <3>3. Left(k, t) = 1
      BY <1>2, <1>3, <2>1, <2>2
    <3>4. QED
      BY <3>2, <3>3
  <2>3. CASE k.wake[t] # l.tick
    <3>1. t \in Asleep(l) /\ l.wake[t] = k.wake[t]
      BY <1>5, <2>3 DEF OneTick, Woken
    <3>2. Left(l, t) = l.wake[t] - l.tick + (IF l.wake[t] > l.tick THEN 0 ELSE Wrap)
      BY <1>1, <3>1, LeftIs
    <3>3. QED
      BY <1>2, <1>3, <2>1, <2>3, <3>1, <3>2
  <2>4. QED
    BY <2>2, <2>3
<1>6. QED
  BY <1>4, <1>5

(* A switch is due, or no ready task is above the one that runs. *)
High(k) == k.yield \/ \A t \in Ready(k) : k.prio[t] <= k.prio[k.current]

(* A tick that asks for no switch leaves none to be made.                  *)
LEMMA Required ==
    ASSUME NEW k, Sound(k), Timely(k), High(k), ~SwitchRequired(k)
    PROVE  High(Increment(k))
<1> DEFINE l == Increment(k)
           p == k.prio[k.current]
<1>1. OneTick(k, l)
  BY Incrementing
<1>2. Ready(l) = Ready(k) \cup Woken(k) /\ Asleep(k) \ Asleep(l) = Woken(k)
      /\ l.prio = k.prio /\ l.current = k.current
  BY <1>1 DEF OneTick, Woken
<1>3. ~k.yield /\ \A t \in Asleep(k) \ Asleep(l) : ~(k.prio[t] >= p)
  BY DEF SwitchRequired
<1>4. k \in Kernels /\ \A t \in All : k.prio[t] \in Nat
  BY KernelTypes, Constants DEF Sound
<1>5. p \in Nat /\ Asleep(k) \subseteq All
  BY <1>4, KernelTypes, ListsOfTasks, Constants
<1> HIDE DEF l
<1>6. \A t \in Woken(k) : k.prio[t] <= p
  BY <1>2, <1>3, <1>4, <1>5
<1>7. \A t \in Ready(k) : k.prio[t] <= p
  BY <1>3 DEF High
<1>8. High(l)
  BY <1>2, <1>6, <1>7 DEF High
<1>9. QED
  BY <1>8 DEF l

(* A pended tick is one tick.                                              *)
LEMMA TickingOnce ==
    ASSUME NEW k, Sound(k), Timely(k)
    PROVE  LET l == TickOnce(k) IN OneTick(k, l) /\ (High(k) => High(l))
<1> DEFINE m == Increment(k)
           l == TickOnce(k)
<1>1. OneTick(k, m) /\ m.yield = k.yield
  BY Incrementing
<1>2. Sound(m) /\ m \in Kernels
  BY <1>1 DEF OneTick, Sound
<1>3. SwitchRequired(k) \in BOOLEAN
  BY DEF SwitchRequired
<1>4. High(k) /\ ~SwitchRequired(k) => High(m)
  BY Required
<1>5. l = [m EXCEPT !.yield = SwitchRequired(k)]
  BY DEF TickOnce
<1> HIDE DEF m, l
<1>6. /\ l \in Kernels /\ SameLists(m, l) /\ l.top = m.top /\ l.pending = m.pending
      /\ l.tick = m.tick /\ l.unblock = m.unblock /\ l.pended = m.pended
      /\ l.current = m.current /\ l.depth = m.depth /\ l.yield = SwitchRequired(k)
  BY <1>2, <1>3, <1>5 DEF Kernels, SameLists
<1>7. Sound(l) /\ Ready(l) = Ready(m) /\ Asleep(l) = Asleep(m) /\ On(l) = On(m)
  BY <1>2, <1>6, SoundKept DEF Sound, Once
<1>8. OneTick(k, l)
  <2>1. Timely(l)
    BY <1>1, <1>6 DEF OneTick, Timely, Due, Announced, SameLists
  <2>2. QED
    BY <1>1, <1>6, <1>7, <2>1 DEF OneTick, SameLists
<1>9. ASSUME High(k) PROVE High(l)
  <2>1. CASE SwitchRequired(k)
    BY <1>6, <2>1 DEF High
  <2>2. CASE ~SwitchRequired(k)
    <3>1. High(m) /\ m.yield = k.yield /\ ~k.yield
      BY <1>1, <1>4, <1>9, <2>2 DEF SwitchRequired
    <3>2. QED
      BY <1>6, <1>7, <3>1 DEF High, SameLists
  <2>3. QED
    BY <2>1, <2>2
<1>10. QED
  BY <1>8, <1>9 DEF l

-----------------------------------------------------------------------------
(* Times that wrap *)

(* What is congruent modulo Wrap, and in range, is the same. *)
LEMMA Remainder ==
    ASSUME NEW x \in Int, NEW q \in Int, NEW r \in 0 .. Wrap - 1, x = q * Wrap + r
    PROVE  x % Wrap = r
<1>1. Wrap \in Nat \ {0}
  BY Constants
<1> DEFINE d == x \div Wrap
           m == x % Wrap
<1>2. d \in Int /\ m \in 0 .. Wrap - 1 /\ x = Wrap * d + m
  BY <1>1
<1> HIDE DEF d, m
<1>3. (q - d) * Wrap = m - r
  BY <1>1, <1>2
<1>4. q - d >= 1 => (q - d) * Wrap >= Wrap
  BY <1>1, <1>2
<1>5. q - d <= -1 => (q - d) * Wrap <= -Wrap
  BY <1>1, <1>2
<1>6. q = d
  BY <1>1, <1>2, <1>3, <1>4, <1>5
<1>7. QED
  BY <1>1, <1>2, <1>6 DEF m

(* A sum that is wrapped twice is wrapped once.                            *)
LEMMA WrapSum ==
    ASSUME NEW x \in Int, NEW y \in Int
    PROVE  /\ x % Wrap \in Ticks
           /\ ((x % Wrap) + y) % Wrap = (x + y) % Wrap
<1>1. Wrap \in Nat \ {0}
  BY Constants
<1> DEFINE d == x \div Wrap
           m == x % Wrap
           e == (m + y) \div Wrap
           r == (m + y) % Wrap
<1>2. d \in Int /\ m \in 0 .. Wrap - 1 /\ x = Wrap * d + m
  BY <1>1
<1> HIDE DEF d, m
<1>3. e \in Int /\ r \in 0 .. Wrap - 1 /\ m + y = Wrap * e + r
  BY <1>1, <1>2
<1> HIDE DEF e, r
<1>4. x + y = (d + e) * Wrap + r
  BY <1>1, <1>2, <1>3
<1>5. (x + y) % Wrap = r
  BY <1>2, <1>3, <1>4, Remainder
<1>6. QED
  BY <1>2, <1>5, Constants DEF m, r

(* A remainder whose quotient is -1, 0 or 1 *)
LEMMA NearRemainder ==
    ASSUME NEW x \in Int
    PROVE  /\ x \in 0 .. Wrap - 1 => x % Wrap = x
           /\ x \in Wrap .. 2 * Wrap - 1 => x % Wrap = x - Wrap
           /\ x \in -Wrap .. -1 => x % Wrap = x + Wrap
<1>1. Wrap \in Nat \ {0, 1}
  BY Constants
<1>2. ASSUME x \in 0 .. Wrap - 1 PROVE x % Wrap = x
  <2> DEFINE q == 0
  <2>1. q \in Int /\ x = q * Wrap + x
    BY <1>1
  <2> HIDE DEF q
  <2>2. QED
    BY <1>2, <2>1, Remainder
<1>3. ASSUME x \in Wrap .. 2 * Wrap - 1 PROVE x % Wrap = x - Wrap
  <2> DEFINE q == 1
             r == x - Wrap
  <2>1. q \in Int /\ r \in 0 .. Wrap - 1 /\ x = q * Wrap + r
    BY <1>1, <1>3
  <2> HIDE DEF q, r
  <2>2. x % Wrap = r
    BY <2>1, Remainder
  <2>3. QED
    BY <2>2 DEF r
<1>4. ASSUME x \in -Wrap .. -1 PROVE x % Wrap = x + Wrap
  <2> DEFINE q == 0 - 1
             r == x + Wrap
  <2>1. q \in Int /\ r \in 0 .. Wrap - 1 /\ x = q * Wrap + r
    BY <1>1, <1>4
  <2> HIDE DEF q, r
  <2>2. x % Wrap = r
    BY <2>1, Remainder
  <2>3. QED
    BY <2>2 DEF r
<1>5. QED
  BY <1>2, <1>3, <1>4

-----------------------------------------------------------------------------
(* Pended ticks, and the pending list *)

(* n ticks after k *)
TickedTo(k, l, n) ==
    /\ Sound(l) /\ Timely(l)
    /\ l.tick = (k.tick + n) % Wrap
    /\ Ready(k) \subseteq Ready(l) /\ Ready(l) \subseteq Ready(k) \cup Asleep(k)
    /\ On(l) = On(k) /\ Asleep(l) \subseteq Asleep(k)
    /\ Range(l.suspended) = Range(k.suspended) /\ Range(l.term) = Range(k.term)
    /\ Range(l.pending) \subseteq Range(k.pending)
    /\ l.pended = k.pended /\ l.current = k.current /\ l.depth = k.depth
    /\ l.prio = k.prio
    /\ \A t \in Tasks : Left(l, t) = IF Left(k, t) > n THEN Left(k, t) - n ELSE 0
    /\ High(k) => High(l)

(* One more pended tick                                                    *)
LEMMA TickedOne ==
    ASSUME NEW k, Sound(k), Timely(k), NEW n \in Nat \ {0}, NEW l, TickedTo(k, l, n - 1)
    PROVE  TickedTo(k, TickOnce(l), n)
<1> DEFINE m == TickOnce(l)
<1>1. Sound(l) /\ Timely(l)
  BY DEF TickedTo
<1>2. OneTick(l, m) /\ (High(l) => High(m))
  BY <1>1, TickingOnce
<1> HIDE DEF m
<1>3. m.tick = (k.tick + n) % Wrap
  <2>1. m.tick = (l.tick + 1) % Wrap /\ l.tick = (k.tick + (n - 1)) % Wrap
    BY <1>2 DEF OneTick, TickedTo
  <2>2. k.tick \in Int /\ k.tick + (n - 1) \in Int /\ (k.tick + (n - 1)) + 1 = k.tick + n
    BY KernelTypes, Constants DEF Sound
  <2>3. (((k.tick + (n - 1)) % Wrap) + 1) % Wrap = ((k.tick + (n - 1)) + 1) % Wrap
    BY <2>2, WrapSum
  <2>4. QED
    BY <2>1, <2>2, <2>3
<1>4. ASSUME NEW t \in Tasks
      PROVE  Left(m, t) = IF Left(k, t) > n THEN Left(k, t) - n ELSE 0
  <2>1. Left(m, t) = IF Left(l, t) > 1 THEN Left(l, t) - 1 ELSE 0
    BY <1>1, <1>2, LeftAfterTick
  <2>2. Left(l, t) = IF Left(k, t) > n - 1 THEN Left(k, t) - (n - 1) ELSE 0
    BY DEF TickedTo
  <2>3. Left(k, t) \in Nat
    BY LeftIs
  <2>4. QED
    BY <2>1, <2>2, <2>3
<1>5. Sound(m) /\ Timely(m)
  BY <1>2 DEF OneTick
<1>6. /\ Ready(k) \subseteq Ready(m) /\ Ready(m) \subseteq Ready(k) \cup Asleep(k)
      /\ On(m) = On(k) /\ Asleep(m) \subseteq Asleep(k)
      /\ Range(m.suspended) = Range(k.suspended) /\ Range(m.term) = Range(k.term)
      /\ Range(m.pending) \subseteq Range(k.pending)
      /\ m.pended = k.pended /\ m.current = k.current /\ m.depth = k.depth
      /\ m.prio = k.prio
  BY <1>2 DEF OneTick, TickedTo, Woken
<1>7. High(k) => High(m)
  BY <1>2 DEF TickedTo
<1>8. TickedTo(k, m, n)
  BY <1>3, <1>4, <1>5, <1>6, <1>7 DEF TickedTo
<1>9. QED
  BY <1>8 DEF m

(* All pended ticks                                                        *)
LEMMA TickedAll ==
    ASSUME NEW k, Sound(k), Timely(k)
    PROVE  TickedTo(k, Ticked(k)[k.pended], k.pended)
<1> DEFINE Bad == {n \in 0 .. k.pended : ~TickedTo(k, Ticked(k)[n], n)}
<1>1. k.pended \in Nat /\ k.tick \in Ticks
  BY KernelTypes, Constants DEF Sound
<1>2. TickedTo(k, k, 0)
  <2>1. (k.tick + 0) % Wrap = k.tick
    BY <1>1, Constants
  <2>2. \A t \in Tasks : Left(k, t) = IF Left(k, t) > 0 THEN Left(k, t) - 0 ELSE 0
    <3> SUFFICES ASSUME NEW t \in Tasks
                 PROVE  Left(k, t) = IF Left(k, t) > 0 THEN Left(k, t) - 0 ELSE 0
      OBVIOUS
    <3>1. Left(k, t) \in Nat
      BY LeftIs
    <3>2. QED
      BY <3>1
  <2>3. QED
    BY <2>1, <2>2 DEF TickedTo
<1>3. ASSUME Bad # {} PROVE FALSE
  <2>1. PICK n \in Bad : \A i \in Nat : i < n => i \notin Bad
    <3>1. Bad \in SUBSET Nat
      BY <1>1
    <3> HIDE DEF Bad
    <3>2. QED
      BY <1>3, <3>1, NatMinimum
  <2>2. n \in 0 .. k.pended /\ ~TickedTo(k, Ticked(k)[n], n)
    BY <2>1
  <2>3. Ticked(k)[n] = IF n = 0 THEN k ELSE TickOnce(Ticked(k)[n - 1])
    BY <1>1, <2>2, TickedRounds
  <2>4. n # 0
    BY <1>2, <2>2, <2>3
  <2>5. n - 1 \in 0 .. k.pended /\ n \in Nat \ {0} /\ n - 1 \notin Bad
    <3> HIDE DEF Bad
    <3>1. QED
      BY <1>1, <2>1, <2>2, <2>4
  <2>6. TickedTo(k, Ticked(k)[n - 1], n - 1)
    BY <2>5
  <2>7. TickedTo(k, TickOnce(Ticked(k)[n - 1]), n)
    BY <2>5, <2>6, TickedOne
  <2>8. QED
    BY <2>2, <2>3, <2>4, <2>7
<1>4. k.pended \notin Bad
  <2> HIDE DEF Bad
  <2>1. QED
    BY <1>3
<1>5. QED
  BY <1>1, <1>4

-----------------------------------------------------------------------------
(* A round of the loop over the pending list *)
LEMMA Unholding ==
    ASSUME NEW k, Sound(k), NEW t \in Tasks
    PROVE  LET l == Unhold(k, t) IN
           /\ Sound(l)
           /\ Ready(l) = Ready(k) \cup {t} /\ On(l) = On(k) \cup {t}
           /\ Range(l.delayed) = Range(k.delayed) \ {t}
           /\ Range(l.overflow) = Range(k.overflow) \ {t}
           /\ Range(l.suspended) = Range(k.suspended) \ {t}
           /\ Range(l.term) = Range(k.term) \ {t}
           /\ Range(l.pending) = Range(k.pending) \ {t}
           /\ l.tick = k.tick /\ l.pended = k.pended /\ l.unblock = k.unblock
           /\ l.current = k.current /\ l.depth = k.depth
           /\ l.yield = (k.yield \/ k.prio[t] >= k.prio[k.current])
           /\ l.wake = [k.wake EXCEPT ![t] = 0] /\ l.prio = k.prio
<1> DEFINE u == Unpend(k, t)
           m == MakeReady(u, t)
           y == k.yield \/ k.prio[t] >= k.prio[k.current]
           l == Unhold(k, t)
<1>1. /\ Sound(u) /\ SameLists(k, u)
      /\ Ready(u) = Ready(k) /\ On(u) = On(k)
      /\ Range(u.pending) = Range(k.pending) \ {t}
      /\ u.tick = k.tick /\ u.pended = k.pended /\ u.unblock = k.unblock
      /\ u.current = k.current /\ u.depth = k.depth /\ u.yield = k.yield
  BY Unpending
<1> HIDE DEF u
<1>2. /\ Sound(m)
      /\ Ready(m) = Ready(u) \cup {t} /\ On(m) = On(u) \cup {t}
      /\ Asleep(m) = Asleep(u) \ {t}
      /\ m.delayed = Without(u.delayed, t) /\ m.overflow = Without(u.overflow, t)
      /\ Range(m.delayed) = Range(u.delayed) \ {t}
      /\ Range(m.overflow) = Range(u.overflow) \ {t}
      /\ Range(m.suspended) = Range(u.suspended) \ {t}
      /\ Range(m.term) = Range(u.term) \ {t}
      /\ m.pending = u.pending
      /\ m.tick = u.tick /\ m.pended = u.pended /\ m.unblock = u.unblock
      /\ m.current = u.current /\ m.depth = u.depth /\ m.yield = u.yield
      /\ m.wake = [u.wake EXCEPT ![t] = 0] /\ m.prio = u.prio
      /\ m.top >= u.top /\ m.top >= u.prio[t]
  BY <1>1, MakingReady, Zenon
<1>3. l = [m EXCEPT !.yield = y]
  <2>1. m \in Kernels
    BY <1>2 DEF Sound
  <2>2. l = [m EXCEPT !.yield = m.yield \/ k.prio[t] >= k.prio[k.current]]
    BY DEF Unhold, u
  <2>3. QED
    BY <1>1, <1>2, <2>2
<1>4. m \in Kernels /\ y \in BOOLEAN
  BY <1>2, KernelTypes DEF Sound
<1> HIDE DEF m, l, y
<1>5. /\ l \in Kernels /\ SameLists(m, l) /\ l.top = m.top /\ l.pending = m.pending
      /\ l.tick = m.tick /\ l.unblock = m.unblock /\ l.pended = m.pended
      /\ l.current = m.current /\ l.depth = m.depth /\ l.yield = y
  BY <1>3, <1>4 DEF Kernels, SameLists
<1>6. Sound(l) /\ Ready(l) = Ready(m) /\ Asleep(l) = Asleep(m) /\ On(l) = On(m)
  BY <1>2, <1>5, SoundKept DEF Sound, Once
<1>7. QED
  BY <1>1, <1>2, <1>5, <1>6 DEF SameLists, l, y

(* What n rounds of the loop over the pending list have done               *)
UnheldTo(k, l, n) ==
    LET g == Upto(k.pending, n) IN
    /\ Sound(l)
    /\ Ready(l) = Ready(k) \cup g /\ On(l) = On(k) \cup g
    /\ Range(l.delayed) = Range(k.delayed) \ g
    /\ Range(l.overflow) = Range(k.overflow) \ g
    /\ Range(l.suspended) = Range(k.suspended) \ g
    /\ Range(l.term) = Range(k.term) \ g
    /\ Range(l.pending) = Range(k.pending) \ g
    /\ l.tick = k.tick /\ l.pended = k.pended /\ l.unblock = k.unblock
    /\ l.current = k.current /\ l.depth = k.depth
    /\ l.prio = k.prio
    /\ High(k) => High(l)
    /\ \A u \in Range(l.delayed) \cup Range(l.overflow) : l.wake[u] = k.wake[u]

(* One more of these rounds                                                *)
LEMMA UnheldOne ==
    ASSUME NEW k, Sound(k), NEW n \in 1 .. Len(k.pending), NEW l, UnheldTo(k, l, n - 1)
    PROVE  UnheldTo(k, Unhold(l, k.pending[n]), n)
<1> DEFINE d == k.pending
           t == d[n]
           m == Unhold(l, t)
<1>1. d \in Seq(Tasks) /\ k \in Kernels
  BY KernelTypes DEF Sound
<1>2. Upto(d, n) = Upto(d, n - 1) \cup {t} /\ t \in Tasks
  BY <1>1, UptoNext
<1>3. Sound(l) /\ l \in Kernels
  BY DEF UnheldTo, Sound
<1> HIDE DEF t
<1>4. /\ Sound(m)
      /\ Ready(m) = Ready(l) \cup {t} /\ On(m) = On(l) \cup {t}
      /\ Range(m.delayed) = Range(l.delayed) \ {t}
      /\ Range(m.overflow) = Range(l.overflow) \ {t}
      /\ Range(m.suspended) = Range(l.suspended) \ {t}
      /\ Range(m.term) = Range(l.term) \ {t}
      /\ Range(m.pending) = Range(l.pending) \ {t}
      /\ m.tick = l.tick /\ m.pended = l.pended /\ m.unblock = l.unblock
      /\ m.current = l.current /\ m.depth = l.depth
      /\ m.yield = (l.yield \/ l.prio[t] >= l.prio[l.current])
      /\ m.wake = [l.wake EXCEPT ![t] = 0] /\ m.prio = l.prio
  BY <1>2, <1>3, Unholding
<1> HIDE DEF m
<1>5. \A u \in Range(m.delayed) \cup Range(m.overflow) : m.wake[u] = l.wake[u]
  BY <1>2, <1>3, <1>4, WakeForgotten
<1>6. High(l) => High(m)
  <2>1. l.prio[t] \in Nat /\ l.prio[l.current] \in Nat
    BY <1>2, <1>3, KernelTypes, Constants
  <2>2. l.prio[t] >= l.prio[l.current] \/ l.prio[t] <= l.prio[l.current]
    BY <2>1
  <2>3. QED
    BY <1>4, <2>2 DEF High
<1> HIDE DEF d
<1>7. UnheldTo(k, m, n)
  BY <1>2, <1>4, <1>5, <1>6 DEF UnheldTo, d
<1>8. QED
  BY <1>7 DEF m, t, d

(* All of them                                                             *)
LEMMA UnheldAll ==
    ASSUME NEW k, Sound(k)
    PROVE  UnheldTo(k, Unheld(k)[Len(k.pending)], Len(k.pending))
<1> DEFINE Bad == {n \in 0 .. Len(k.pending) : ~UnheldTo(k, Unheld(k)[n], n)}
<1>1. k.pending \in Seq(Tasks) /\ Len(k.pending) \in Nat
  BY KernelTypes DEF Sound
<1>2. UnheldTo(k, k, 0)
  BY <1>1, UptoWhole DEF UnheldTo
<1>3. ASSUME Bad # {} PROVE FALSE
  <2>1. PICK n \in Bad : \A i \in Nat : i < n => i \notin Bad
    <3>1. Bad \in SUBSET Nat
      BY <1>1
    <3> HIDE DEF Bad
    <3>2. QED
      BY <1>3, <3>1, NatMinimum
  <2>2. n \in 0 .. Len(k.pending) /\ ~UnheldTo(k, Unheld(k)[n], n)
    BY <2>1
  <2>3. Unheld(k)[n] = IF n = 0 THEN k ELSE Unhold(Unheld(k)[n - 1], k.pending[n])
    BY <1>1, <2>2, UnheldRounds
  <2>4. n # 0
    BY <1>2, <2>2, <2>3
  <2>5. n - 1 \in 0 .. Len(k.pending) /\ n \in 1 .. Len(k.pending) /\ n - 1 \notin Bad
    <3> HIDE DEF Bad
    <3>1. QED
      BY <1>1, <2>1, <2>2, <2>4
  <2>6. UnheldTo(k, Unheld(k)[n - 1], n - 1)
    BY <2>5
  <2>7. UnheldTo(k, Unhold(Unheld(k)[n - 1], k.pending[n]), n)
    BY <2>5, <2>6, UnheldOne
  <2>8. QED
    BY <2>2, <2>3, <2>4, <2>7
<1>4. Len(k.pending) \notin Bad
  <2> HIDE DEF Bad
  <2>1. QED
    BY <1>3
<1>5. QED
  BY <1>1, <1>4

-----------------------------------------------------------------------------
(* xTaskResumeAll *)

(* A list without items is empty.                                          *)
LEMMA EmptyList ==
    ASSUME NEW S, NEW s \in Seq(S)
    PROVE  Range(s) = {} <=> s = <<>>
<1>1. s # <<>> => 1 \in DOMAIN s
  OBVIOUS
<1>2. QED
  BY <1>1 DEF Range

(* The lists, once the pending tasks have been made ready *)
LEMMA Releasing ==
    ASSUME NEW k, Sound(k), Timely(k)
    PROVE  LET l == Release(k)
               g == Range(k.pending)
           IN  /\ Sound(l) /\ Timely(l)
               /\ Ready(l) = Ready(k) \cup g /\ On(l) = On(k) \cup g
               /\ Asleep(l) = Asleep(k) \ g
               /\ Range(l.suspended) = Range(k.suspended) \ g
               /\ Range(l.term) = Range(k.term) \ g
               /\ l.pending = <<>>
               /\ l.tick = k.tick /\ l.pended = k.pended
               /\ l.current = k.current /\ l.depth = k.depth /\ l.prio = k.prio
               /\ High(k) => High(l)
               /\ \A t \in Tasks : Left(l, t) = IF t \in g THEN 0 ELSE Left(k, t)
<1> DEFINE last == Unheld(k)[Len(k.pending)]
           g == Range(k.pending)
           l == Release(k)
<1>1. /\ k \in Kernels /\ k.pending \in Seq(Tasks)
  BY KernelTypes DEF Sound
<1>2. UnheldTo(k, last, Len(k.pending)) /\ Upto(k.pending, Len(k.pending)) = g
  BY <1>1, UnheldAll, UptoWhole
<1>3. l = IF k.pending = <<>> THEN last ELSE ResetUnblock(last)
  BY DEF Release
<1> HIDE DEF last, l
<1>4. /\ Sound(last)
      /\ Ready(last) = Ready(k) \cup g /\ On(last) = On(k) \cup g
      /\ Range(last.delayed) = Range(k.delayed) \ g
      /\ Range(last.overflow) = Range(k.overflow) \ g
      /\ Range(last.suspended) = Range(k.suspended) \ g
      /\ Range(last.term) = Range(k.term) \ g
      /\ Range(last.pending) = {}
      /\ last.tick = k.tick /\ last.pended = k.pended /\ last.unblock = k.unblock
      /\ last.current = k.current /\ last.depth = k.depth
      /\ last.prio = k.prio
      /\ High(k) => High(last)
      /\ \A u \in Range(last.delayed) \cup Range(last.overflow) : last.wake[u] = k.wake[u]
  BY <1>2 DEF UnheldTo
<1>5. Timely(last)
  BY <1>4, TimesKept
<1>6. last.pending = <<>>
  <2>1. last.pending \in Seq(Tasks)
    BY <1>4, KernelTypes DEF Sound
  <2>2. QED
    BY <1>4, <2>1, EmptyList
<1>7. /\ Sound(l) /\ Timely(l) /\ SameLists(last, l) /\ l.pending = last.pending
      /\ Ready(l) = Ready(last) /\ On(l) = On(last)
      /\ l.tick = last.tick /\ l.pended = last.pended
      /\ l.current = last.current /\ l.depth = last.depth /\ l.yield = last.yield
  <2>1. CASE k.pending = <<>>
    BY <1>3, <1>4, <1>5, <2>1 DEF SameLists
  <2>2. CASE k.pending # <<>>
    BY <1>3, <1>4, <1>5, <2>2, Resetting DEF Timely
  <2>3. QED
    BY <2>1, <2>2
<1>8. Asleep(l) = Asleep(k) \ g
  BY <1>4, <1>7 DEF Asleep, SameLists
<1>9. High(k) => High(l)
  BY <1>4, <1>7 DEF High, SameLists
<1>10. ASSUME NEW t \in Tasks PROVE Left(l, t) = IF t \in g THEN 0 ELSE Left(k, t)
  BY <1>4, <1>7, <1>8 DEF Left, SameLists, Asleep
<1>11. QED
  BY <1>4, <1>6, <1>7, <1>8, <1>9, <1>10 DEF SameLists, l

(* The scheduler goes on. *)
Resumed(k, l) ==
    LET g == Range(k.pending) IN
    /\ Sound(l) /\ Timely(l)
    /\ l.depth = 0 /\ l.pended = 0 /\ l.pending = <<>>
    /\ l.tick = (k.tick + k.pended) % Wrap
    /\ Ready(k) \cup g \subseteq Ready(l)
    /\ Ready(l) \subseteq Ready(k) \cup g \cup Asleep(k)
    /\ On(l) = On(k) \cup g
    /\ Asleep(l) \subseteq Asleep(k)
    /\ Range(l.suspended) = Range(k.suspended) \ g /\ Range(l.term) = Range(k.term) \ g
    /\ l.current = k.current /\ l.prio = k.prio
    /\ High(k) => High(l)
    /\ \A t \in Tasks :
         Left(l, t) = IF t \in g \/ Left(k, t) <= k.pended THEN 0 ELSE Left(k, t) - k.pended

(* A nesting depth changes nothing else.                                   *)
LEMMA DepthOnly ==
    ASSUME NEW k, Sound(k), NEW n \in 0 .. 2
    PROVE  LET l == [k EXCEPT !.depth = n] IN
           /\ Sound(l) /\ SameLists(k, l)
           /\ Ready(l) = Ready(k) /\ Asleep(l) = Asleep(k) /\ On(l) = On(k)
           /\ l.tick = k.tick /\ l.pended = k.pended /\ l.pending = k.pending
           /\ l.unblock = k.unblock /\ l.top = k.top
           /\ l.current = k.current /\ l.depth = n /\ l.yield = k.yield
           /\ Timely(k) => Timely(l)
           /\ High(k) <=> High(l)
           /\ \A t \in Tasks : Left(l, t) = Left(k, t)
<1> DEFINE l == [k EXCEPT !.depth = n]
<1>1. k \in Kernels /\ IsInjective(k.pending)
  BY DEF Sound, Once
<1>2. /\ l \in Kernels /\ SameLists(k, l)
      /\ l.tick = k.tick /\ l.pended = k.pended /\ l.pending = k.pending
      /\ l.unblock = k.unblock /\ l.top = k.top
      /\ l.current = k.current /\ l.depth = n /\ l.yield = k.yield
  BY <1>1 DEF Kernels, SameLists
<1> HIDE DEF l
<1>3. Sound(l) /\ Ready(l) = Ready(k) /\ Asleep(l) = Asleep(k) /\ On(l) = On(k)
  BY <1>1, <1>2, SoundKept
<1>4. Timely(k) => Timely(l)
  BY <1>2 DEF Timely, Due, Announced, SameLists
<1>5. High(k) <=> High(l)
  BY <1>2, <1>3 DEF High, SameLists
<1>6. \A t \in Tasks : Left(l, t) = Left(k, t)
  BY <1>2, <1>3 DEF Left, SameLists
<1>7. QED
  BY <1>2, <1>3, <1>4, <1>5, <1>6 DEF l

(* The outermost xTaskResumeAll: the pending tasks become ready and the    *)
(* pended ticks pass.                                                      *)
LEMMA Resuming ==
    ASSUME NEW k, Sound(k), Timely(k), k.depth = 1
    PROVE  Resumed(k, ResumeAll(k))
<1> DEFINE l == [k EXCEPT !.depth = 0]
           g == Range(k.pending)
           r == Release(l)
           s == Ticked(r)[k.pended]
           m == [s EXCEPT !.pended = 0]
<1>1. /\ Sound(l) /\ SameLists(k, l)
      /\ Ready(l) = Ready(k) /\ Asleep(l) = Asleep(k) /\ On(l) = On(k)
      /\ l.tick = k.tick /\ l.pended = k.pended /\ l.pending = k.pending
      /\ l.current = k.current /\ l.depth = 0 /\ l.yield = k.yield
      /\ Timely(l)
      /\ High(k) <=> High(l)
      /\ \A t \in Tasks : Left(l, t) = Left(k, t)
  <2>1. 0 \in 0 .. 2
    OBVIOUS
  <2>2. QED
    BY <2>1, DepthOnly, Zenon
<1>2. ResumeAll(k) = m
  <2>1. k \in Kernels
    BY DEF Sound
  <2>2. [k EXCEPT !.depth = k.depth - 1] = l
    BY <2>1
  <2>3. ResumeAll(k) = IF l.depth > 0 THEN l ELSE m
    BY <2>2 DEF ResumeAll
  <2>4. QED
    BY <1>1, <2>3
<1> HIDE DEF l
<1>3. /\ Sound(r) /\ Timely(r)
      /\ Ready(r) = Ready(l) \cup g /\ On(r) = On(l) \cup g
      /\ Asleep(r) = Asleep(l) \ g
      /\ Range(r.suspended) = Range(l.suspended) \ g
      /\ Range(r.term) = Range(l.term) \ g
      /\ r.pending = <<>>
      /\ r.tick = l.tick /\ r.pended = l.pended
      /\ r.current = l.current /\ r.depth = l.depth /\ r.prio = l.prio
      /\ High(l) => High(r)
      /\ \A t \in Tasks : Left(r, t) = IF t \in g THEN 0 ELSE Left(l, t)
  <2>1. Sound(l) /\ Timely(l) /\ Range(l.pending) = g
    BY <1>1
  <2>2. LET h == Range(l.pending) IN
        /\ Sound(r) /\ Timely(r)
        /\ Ready(r) = Ready(l) \cup h /\ On(r) = On(l) \cup h
        /\ Asleep(r) = Asleep(l) \ h
        /\ Range(r.suspended) = Range(l.suspended) \ h
        /\ Range(r.term) = Range(l.term) \ h
        /\ r.pending = <<>>
        /\ r.tick = l.tick /\ r.pended = l.pended
        /\ r.current = l.current /\ r.depth = l.depth /\ r.prio = l.prio
        /\ High(l) => High(r)
        /\ \A t \in Tasks : Left(r, t) = IF t \in h THEN 0 ELSE Left(l, t)
    BY <2>1, Releasing, Zenon
  <2> HIDE DEF r
  <2>3. QED
    BY <2>1, <2>2
<1> HIDE DEF r
<1>4. TickedTo(r, s, k.pended)
  BY <1>1, <1>3, TickedAll
<1> HIDE DEF s
<1>5. /\ Sound(s) /\ Timely(s) /\ s \in Kernels
      /\ s.tick = (k.tick + k.pended) % Wrap
      /\ Ready(r) \subseteq Ready(s) /\ Ready(s) \subseteq Ready(r) \cup Asleep(r)
      /\ On(s) = On(r) /\ Asleep(s) \subseteq Asleep(r)
      /\ Range(s.suspended) = Range(r.suspended) /\ Range(s.term) = Range(r.term)
      /\ Range(s.pending) \subseteq Range(r.pending)
      /\ s.current = k.current /\ s.depth = 0
      /\ s.prio = k.prio
      /\ \A t \in Tasks : Left(s, t) = IF Left(r, t) > k.pended THEN Left(r, t) - k.pended ELSE 0
      /\ High(r) => High(s)
  BY <1>1, <1>3, <1>4 DEF TickedTo, SameLists, Sound
<1>6. s.pending = <<>>
  <2>1. Range(r.pending) = {}
    BY <1>3 DEF Range
  <2>2. s.pending \in Seq(Tasks) /\ Range(s.pending) = {}
    BY <1>5, <2>1, KernelTypes
  <2>3. QED
    BY <2>2, EmptyList
<1>7. /\ m \in Kernels /\ SameLists(s, m) /\ m.pended = 0 /\ m.pending = s.pending
      /\ m.tick = s.tick /\ m.unblock = s.unblock /\ m.top = s.top
      /\ m.current = s.current /\ m.depth = s.depth /\ m.yield = s.yield
  <2>1. 0 \in 0 .. MaxPended
    BY Constants
  <2>2. QED
    BY <1>5, <2>1 DEF Kernels, SameLists
<1> HIDE DEF m
<1>8. Sound(m) /\ Ready(m) = Ready(s) /\ Asleep(m) = Asleep(s) /\ On(m) = On(s)
  BY <1>5, <1>7, SoundKept DEF Sound, Once
<1>9. Timely(m)
  BY <1>5, <1>7 DEF Timely, Due, Announced, SameLists
<1>10. High(k) => High(m)
  <2>1. High(s) => High(m)
    BY <1>7, <1>8 DEF High, SameLists
  <2>2. QED
    BY <1>1, <1>3, <1>5, <2>1
<1>11. ASSUME NEW t \in Tasks
       PROVE  Left(m, t) = IF t \in g \/ Left(k, t) <= k.pended THEN 0 ELSE Left(k, t) - k.pended
  <2>1. Left(m, t) = Left(s, t)
    BY <1>7, <1>8 DEF Left, SameLists
  <2>2. Left(s, t) = IF Left(r, t) > k.pended THEN Left(r, t) - k.pended ELSE 0
    BY <1>5
  <2>3. Left(r, t) = IF t \in g THEN 0 ELSE Left(k, t)
    BY <1>1, <1>3
  <2>4. Left(k, t) \in Nat /\ k.pended \in Nat
    BY LeftIs, KernelTypes, Constants DEF Sound
  <2>5. QED
    BY <2>1, <2>2, <2>3, <2>4
<1>12. /\ Ready(k) \cup g \subseteq Ready(m)
       /\ Ready(m) \subseteq Ready(k) \cup g \cup Asleep(k)
       /\ On(m) = On(k) \cup g
       /\ Asleep(m) \subseteq Asleep(k)
       /\ Range(m.suspended) = Range(k.suspended) \ g /\ Range(m.term) = Range(k.term) \ g
  BY <1>1, <1>3, <1>5, <1>7, <1>8 DEF SameLists
<1>13. /\ m.depth = 0 /\ m.pending = <<>> /\ m.tick = (k.tick + k.pended) % Wrap
       /\ m.current = k.current /\ m.prio = k.prio
  BY <1>5, <1>6, <1>7 DEF SameLists
<1>14. Resumed(k, m)
  BY <1>7, <1>8, <1>9, <1>10, <1>11, <1>12, <1>13 DEF Resumed
<1>15. QED
  BY <1>2, <1>14

(* An inner xTaskResumeAll only counts.                                    *)
LEMMA ResumingInner ==
    ASSUME NEW k, Sound(k), k.depth = 2
    PROVE  ResumeAll(k) = [k EXCEPT !.depth = 1]
<1>1. [k EXCEPT !.depth = k.depth - 1] = [k EXCEPT !.depth = 1]
  OBVIOUS
<1>2. k \in Kernels
  BY DEF Sound
<1>3. [k EXCEPT !.depth = 1].depth > 0
  BY <1>2 DEF Kernels
<1>4. QED
  BY <1>1, <1>3 DEF ResumeAll

-----------------------------------------------------------------------------
(* There is a highest priority with a ready task. *)
LEMMA HighestIs ==
    ASSUME NEW k, Sound(k)
    PROVE  LET p == Highest(k) IN
           /\ p \in Priorities /\ p <= k.top /\ ~NoTasks(k.ready[p])
           /\ \A q \in Priorities : q <= k.top /\ q > p => NoTasks(k.ready[q])
<1> DEFINE Used == {p \in Priorities : p <= k.top /\ ~NoTasks(k.ready[p])}
           Gaps == {n \in Nat : \E p \in Used : n = k.top - p}
<1>1. k \in Kernels /\ k.top \in Nat /\ Priorities \subseteq Nat /\ 0 \in Priorities
  BY KernelTypes, Constants DEF Sound
<1>2. 0 \in Used
  <2>1. Idle \in Range(k.ready[0])
    BY DEF Sound, Resting, Ready
  <2>2. k.ready[0] \in Seq(All \cup {End}) /\ IsInjective(k.ready[0]) /\ End \in Range(k.ready[0])
    BY <1>1, KernelTypes DEF Sound, Queues
  <2>3. ~NoTasks(k.ready[0])
    BY <2>1, <2>2, OnlyEnd, Constants
  <2>4. QED
    BY <1>1, <2>3
<1>3. Gaps # {}
  <2>1. k.top - 0 \in Gaps
    BY <1>1, <1>2
  <2>2. QED
    BY <2>1
<1>4. PICK n \in Gaps : \A i \in Nat : i < n => i \notin Gaps
  <2>1. Gaps \in SUBSET Nat
    OBVIOUS
  <2> HIDE DEF Gaps
  <2>2. QED
    BY <1>3, <2>1, NatMinimum
<1>5. PICK p \in Used : n = k.top - p
  BY <1>4
<1>6. ASSUME NEW q \in Priorities, q <= k.top, q > p PROVE NoTasks(k.ready[q])
  <2> SUFFICES ASSUME ~NoTasks(k.ready[q]) PROVE FALSE
    OBVIOUS
  <2>1. q \in Used /\ k.top - q \in Nat /\ k.top - q < n
    BY <1>1, <1>5, <1>6
  <2>2. k.top - q \in Gaps
    BY <2>1
  <2> HIDE DEF Gaps
  <2>3. QED
    BY <1>4, <2>1, <2>2
<1>7. QED
  BY <1>5, <1>6 DEF Highest

(* A switch picks a ready task of the highest priority. *)
LEMMA Switching ==
    ASSUME NEW k, Sound(k)
    PROVE  LET l == Switch(k) IN
           /\ Sound(l)
           /\ Ready(l) = Ready(k) /\ On(l) = On(k) /\ Asleep(l) = Asleep(k)
           /\ l.delayed = k.delayed /\ l.overflow = k.overflow
           /\ l.suspended = k.suspended /\ l.term = k.term /\ l.pending = k.pending
           /\ l.tick = k.tick /\ l.pended = k.pended /\ l.unblock = k.unblock
           /\ l.depth = k.depth /\ l.wake = k.wake /\ l.prio = k.prio
           /\ k.depth > 0 => l.current = k.current /\ l.yield
           /\ k.depth = 0 => l.current \in Ready(l)
           /\ High(l)
           /\ Timely(k) => Timely(l)
           /\ \A t \in Tasks : Left(l, t) = Left(k, t)
<1> DEFINE l == Switch(k)
           p == Highest(k)
           list == k.ready[p]
           r == NextEntry(list)
<1>1. /\ k \in Kernels /\ p \in Priorities /\ p <= k.top /\ ~NoTasks(list)
      /\ \A q \in Priorities : q <= k.top /\ q > p => NoTasks(k.ready[q])
  BY HighestIs DEF Sound
<1>2. k.depth \in 0 .. 2
  BY <1>1, KernelTypes
<1>3. CASE k.depth > 0
  <2>1. l = [k EXCEPT !.yield = TRUE]
    BY <1>3 DEF Switch
  <2> HIDE DEF p, l
  <2>2. /\ l \in Kernels /\ SameLists(k, l) /\ l.top = k.top /\ l.pending = k.pending
        /\ l.tick = k.tick /\ l.unblock = k.unblock /\ l.pended = k.pended
        /\ l.current = k.current /\ l.depth = k.depth /\ l.yield = TRUE
    BY <1>1, <2>1 DEF Kernels, SameLists
  <2>3. Sound(l) /\ Ready(l) = Ready(k) /\ Asleep(l) = Asleep(k) /\ On(l) = On(k)
    BY <2>2, SoundKept DEF Sound, Once
  <2>4. Timely(k) => Timely(l)
    BY <2>2 DEF Timely, Due, Announced, SameLists
  <2>5. \A t \in Tasks : Left(l, t) = Left(k, t)
    BY <2>2, <2>3 DEF Left, SameLists
  <2>6. QED
    BY <1>3, <2>2, <2>3, <2>4, <2>5 DEF High, SameLists, l
<1>4. CASE k.depth = 0
  <2>1. l = [k EXCEPT !.yield = FALSE, !.ready[p] = r, !.current = Last(r), !.top = p]
    BY <1>4 DEF Switch
  <2>2. list \in Seq(All \cup {End}) /\ IsInjective(list) /\ End \in Range(list)
    BY <1>1, KernelTypes DEF Sound, Queues
  <2> HIDE DEF list
  <2>3. Len(list) >= 2
    BY <1>1, <2>2, OnlyEnd
  <2>4. /\ r \in Seq(All \cup {End}) /\ Range(r) = Range(list) /\ IsInjective(r)
        /\ Last(r) \in Range(list) /\ Last(r) # End
    BY <2>2, <2>3, Taken
  <2> HIDE DEF r, p, l
  <2>5. Last(r) \in All
    BY <2>2, <2>4 DEF Range
  <2>6. /\ l \in Kernels /\ l.ready = [k.ready EXCEPT ![p] = r] /\ l.top = p
        /\ l.delayed = k.delayed /\ l.overflow = k.overflow
        /\ l.suspended = k.suspended /\ l.term = k.term /\ l.pending = k.pending
        /\ l.tick = k.tick /\ l.unblock = k.unblock /\ l.pended = k.pended
        /\ l.current = Last(r) /\ l.depth = k.depth /\ l.yield = FALSE
        /\ l.wake = k.wake /\ l.prio = k.prio
    BY <1>1, <2>1, <2>4, <2>5 DEF Kernels
  <2>7. \A q \in Priorities : l.ready[q] = IF q = p THEN r ELSE k.ready[q]
    BY <1>1, <2>6 DEF Kernels
  <2>8. \A q \in Priorities : Range(l.ready[q]) = Range(k.ready[q])
    BY <2>4, <2>7 DEF list
  <2>9. \A t \in All : k.prio[t] \in Priorities
    BY <1>1, KernelTypes
  <2>10. Ready(l) = Ready(k) /\ Asleep(l) = Asleep(k)
    BY <2>6, <2>8, <2>9 DEF Ready, Asleep
  <2>11. On(l) = On(k)
    BY <2>6, <2>10 DEF On
  <2>12. Queues(l)
    <3>1. \A q \in Priorities : IsInjective(l.ready[q])
      BY <2>4, <2>7 DEF Sound, Queues
    <3>2. QED
      BY <2>6, <2>8, <3>1 DEF Sound, Queues
  <2>13. \A t \in Ready(k) : k.prio[t] <= p
    <3> SUFFICES ASSUME NEW t \in Ready(k) PROVE k.prio[t] <= p
      OBVIOUS
    <3> DEFINE q == k.prio[t]
    <3>1. t \in All /\ t \in Range(k.ready[q]) /\ q <= k.top
      BY DEF Sound, Topped, Ready
    <3>2. q \in Priorities /\ q \in Nat /\ p \in Nat
      BY <1>1, <2>9, <3>1, Constants
    <3>3. k.ready[q] \in Seq(All \cup {End}) /\ IsInjective(k.ready[q]) /\ End \in Range(k.ready[q])
      BY <1>1, <3>2, KernelTypes DEF Sound, Queues
    <3>4. ~NoTasks(k.ready[q])
      BY <3>1, <3>3, OnlyEnd, Constants
    <3> HIDE DEF q
    <3>5. ~(q > p)
      BY <1>1, <3>1, <3>2, <3>4
    <3>6. q <= p
      BY <3>2, <3>5
    <3>7. QED
      BY <3>6 DEF q
  <2>14. Once(l) /\ Apart(l) /\ Sorted(l) /\ Topped(l) /\ Resting(l)
    BY <2>6, <2>10, <2>13 DEF Sound, Once, Apart, Sorted, Topped, Resting
  <2>15. Sound(l)
    BY <2>6, <2>12, <2>14 DEF Sound
  <2>16. l.current \in Ready(l) /\ l.prio[l.current] = p
    <3>1. p = k.prio[Last(r)]
      BY <1>1, <2>4, <2>5 DEF Sound, Queues, list
    <3>2. QED
      BY <2>4, <2>5, <2>6, <2>10, <3>1 DEF Ready, list
  <2>17. High(l)
    BY <2>6, <2>10, <2>13, <2>16 DEF High
  <2>18. Timely(k) => Timely(l)
    BY <2>6 DEF Timely, Due, Announced
  <2>19. \A t \in Tasks : Left(l, t) = Left(k, t)
    BY <2>6, <2>10 DEF Left
  <2>20. QED
    BY <1>4, <2>6, <2>10, <2>11, <2>15, <2>16, <2>17, <2>18, <2>19 DEF l
<1>5. QED
  BY <1>2, <1>3, <1>4

-----------------------------------------------------------------------------
(* What the calls do to the lists *)

(* A task is taken off all lists. *)
LEMMA Detaching ==
    ASSUME NEW k, Sound(k), NEW t \in Tasks
    PROVE  LET l == Unpend(Unlist(k, t), t) IN
           /\ Sound(l)
           /\ Ready(l) = Ready(k) \ {t} /\ On(l) = On(k) \ {t}
           /\ Asleep(l) = Asleep(k) \ {t}
           /\ Range(l.delayed) = Range(k.delayed) \ {t}
           /\ Range(l.overflow) = Range(k.overflow) \ {t}
           /\ Range(l.suspended) = Range(k.suspended) \ {t}
           /\ Range(l.term) = Range(k.term) \ {t}
           /\ Range(l.pending) = Range(k.pending) \ {t}
           /\ l.tick = k.tick /\ l.pended = k.pended /\ l.unblock = k.unblock
           /\ l.current = k.current /\ l.depth = k.depth /\ l.yield = k.yield
           /\ l.prio = k.prio
           /\ \A u \in Range(l.delayed) \cup Range(l.overflow) : l.wake[u] = k.wake[u]
           /\ Timely(k) => Timely(l)
           /\ High(k) => High(l)
           /\ \A u \in Tasks : Left(l, u) = IF u = t THEN 0 ELSE Left(k, u)
<1> DEFINE m == Unlist(k, t)
           l == Unpend(m, t)
<1>1. k \in Kernels
  BY DEF Sound
<1>2. /\ m.tick = k.tick /\ m.pended = k.pended /\ m.unblock = k.unblock
      /\ m.current = k.current /\ m.pending = k.pending
      /\ m.depth = k.depth /\ m.yield = k.yield /\ m.prio = k.prio
      /\ m.wake = [k.wake EXCEPT ![t] = 0]
  BY <1>1, UnlistFields
<1>3. /\ Sound(m)
      /\ Ready(m) = Ready(k) \ {t} /\ Asleep(m) = Asleep(k) \ {t}
      /\ Range(m.delayed) = Range(k.delayed) \ {t}
      /\ Range(m.overflow) = Range(k.overflow) \ {t}
      /\ Range(m.suspended) = Range(k.suspended) \ {t}
      /\ Range(m.term) = Range(k.term) \ {t}
      /\ On(m) = On(k) \ {t}
  BY Unlisting, Zenon
<1> HIDE DEF m
<1>4. /\ Sound(l) /\ SameLists(m, l)
      /\ Ready(l) = Ready(m) /\ Asleep(l) = Asleep(m) /\ On(l) = On(m)
      /\ Range(l.pending) = Range(m.pending) \ {t}
      /\ l.tick = m.tick /\ l.pended = m.pended /\ l.unblock = m.unblock
      /\ l.current = m.current /\ l.depth = m.depth /\ l.yield = m.yield
  BY <1>3, Unpending
<1> HIDE DEF l
<1>5. /\ l.delayed = m.delayed /\ l.overflow = m.overflow
      /\ l.suspended = m.suspended /\ l.term = m.term
      /\ l.wake = m.wake /\ l.prio = m.prio
  BY <1>4 DEF SameLists
<1>6. \A u \in Range(m.delayed) \cup Range(m.overflow) : m.wake[u] = k.wake[u]
  BY <1>1, <1>2, <1>3, WakeForgotten
<1>7. Timely(k) => Timely(l)
  BY <1>2, <1>3, <1>4, <1>5, <1>6, TimesKept
<1>8. High(k) => High(l)
  BY <1>2, <1>3, <1>4, <1>5 DEF High
<1>9. ASSUME NEW u \in Tasks PROVE Left(l, u) = IF u = t THEN 0 ELSE Left(k, u)
  <2>1. CASE u \in Asleep(l)
    <3>1. u # t /\ u \in Asleep(k) /\ l.wake[u] = k.wake[u]
      BY <1>3, <1>4, <1>5, <1>6, <2>1 DEF Asleep
    <3>2. QED
      BY <1>2, <1>3, <1>4, <1>5, <2>1, <3>1 DEF Left
  <2>2. CASE u \notin Asleep(l)
    BY <1>3, <1>4, <2>2 DEF Left
  <2>3. QED
    BY <2>1, <2>2
<1>10. QED
  BY <1>2, <1>3, <1>4, <1>5, <1>6, <1>7, <1>8, <1>9 DEF l, m

(* A task that is on no list goes to the suspended list, *)
LEMMA AppendSuspended ==
    ASSUME NEW k, Sound(k), NEW t \in Tasks, t \notin On(k)
    PROVE  LET l == [k EXCEPT !.suspended = Append(@, t)] IN
           /\ Sound(l)
           /\ Ready(l) = Ready(k) /\ On(l) = On(k) \cup {t} /\ Asleep(l) = Asleep(k)
           /\ l.delayed = k.delayed /\ l.overflow = k.overflow
           /\ Range(l.suspended) = Range(k.suspended) \cup {t}
           /\ l.term = k.term /\ l.pending = k.pending
           /\ l.tick = k.tick /\ l.pended = k.pended /\ l.unblock = k.unblock
           /\ l.current = k.current /\ l.depth = k.depth /\ l.yield = k.yield
           /\ l.wake = k.wake /\ l.prio = k.prio
<1> DEFINE l == [k EXCEPT !.suspended = Append(@, t)]
           r == Append(k.suspended, t)
<1>1. k \in Kernels /\ k.suspended \in Seq(Tasks) /\ IsInjective(k.suspended) /\ t \notin Range(k.suspended)
  BY KernelTypes DEF Sound, Once, On
<1>2. r \in Seq(Tasks) /\ Range(r) = Range(k.suspended) \cup {t} /\ IsInjective(r)
  BY <1>1, Appended
<1>3. l = [k EXCEPT !.suspended = r]
  BY <1>1
<1> HIDE DEF r, l
<1>4. /\ l \in Kernels /\ l.suspended = r
      /\ l.ready = k.ready /\ l.unblock = k.unblock
      /\ l.delayed = k.delayed /\ l.overflow = k.overflow
      /\ l.term = k.term /\ l.pending = k.pending
      /\ l.tick = k.tick /\ l.pended = k.pended
      /\ l.current = k.current /\ l.depth = k.depth /\ l.yield = k.yield
      /\ l.wake = k.wake /\ l.prio = k.prio /\ l.top = k.top
  BY <1>1, <1>2, <1>3 DEF Kernels
<1>5. Ready(l) = Ready(k) /\ Asleep(l) = Asleep(k) /\ On(l) = On(k) \cup {t}
  BY <1>2, <1>4 DEF Ready, Asleep, On
<1>6. Once(l) /\ Queues(l) /\ Sorted(l) /\ Topped(l) /\ Resting(l)
  BY <1>2, <1>4, <1>5 DEF Sound, Once, Queues, Sorted, Topped, Resting
<1>7. Apart(l)
  BY <1>2, <1>4, <1>5 DEF Sound, Apart, On
<1>8. QED
  BY <1>2, <1>4, <1>5, <1>6, <1>7 DEF Sound, l

(* or to the list of the deleted ones.                                     *)
LEMMA AppendTerm ==
    ASSUME NEW k, Sound(k), NEW t \in Tasks, t \notin On(k)
    PROVE  LET l == [k EXCEPT !.term = Append(@, t)] IN
           /\ Sound(l)
           /\ Ready(l) = Ready(k) /\ On(l) = On(k) \cup {t} /\ Asleep(l) = Asleep(k)
           /\ l.delayed = k.delayed /\ l.overflow = k.overflow
           /\ l.suspended = k.suspended
           /\ Range(l.term) = Range(k.term) \cup {t} /\ l.pending = k.pending
           /\ l.tick = k.tick /\ l.pended = k.pended /\ l.unblock = k.unblock
           /\ l.current = k.current /\ l.depth = k.depth /\ l.yield = k.yield
           /\ l.wake = k.wake /\ l.prio = k.prio
<1> DEFINE l == [k EXCEPT !.term = Append(@, t)]
           r == Append(k.term, t)
<1>1. k \in Kernels /\ k.term \in Seq(Tasks) /\ IsInjective(k.term) /\ t \notin Range(k.term)
  BY KernelTypes DEF Sound, Once, On
<1>2. r \in Seq(Tasks) /\ Range(r) = Range(k.term) \cup {t} /\ IsInjective(r)
  BY <1>1, Appended
<1>3. l = [k EXCEPT !.term = r]
  BY <1>1
<1> HIDE DEF r, l
<1>4. /\ l \in Kernels /\ l.term = r
      /\ l.ready = k.ready /\ l.unblock = k.unblock
      /\ l.delayed = k.delayed /\ l.overflow = k.overflow
      /\ l.suspended = k.suspended /\ l.pending = k.pending
      /\ l.tick = k.tick /\ l.pended = k.pended
      /\ l.current = k.current /\ l.depth = k.depth /\ l.yield = k.yield
      /\ l.wake = k.wake /\ l.prio = k.prio /\ l.top = k.top
  BY <1>1, <1>2, <1>3 DEF Kernels
<1>5. Ready(l) = Ready(k) /\ Asleep(l) = Asleep(k) /\ On(l) = On(k) \cup {t}
  BY <1>2, <1>4 DEF Ready, Asleep, On
<1>6. Once(l) /\ Queues(l) /\ Sorted(l) /\ Topped(l) /\ Resting(l)
  BY <1>2, <1>4, <1>5 DEF Sound, Once, Queues, Sorted, Topped, Resting
<1>7. Apart(l)
  BY <1>2, <1>4, <1>5 DEF Sound, Apart, On
<1>8. QED
  BY <1>2, <1>4, <1>5, <1>6, <1>7 DEF Sound, l

(* What a step leaves as it was, when it moves t between lists at most     *)
Moved(k, l, t) ==
    /\ Sound(l)
    /\ Ready(l) \ {t} = Ready(k) \ {t} /\ On(l) \ {t} = On(k) \ {t}
    /\ Asleep(l) \ {t} = Asleep(k) \ {t}
    /\ Range(l.suspended) \ {t} = Range(k.suspended) \ {t}
    /\ Range(l.term) \ {t} = Range(k.term) \ {t}
    /\ Range(l.pending) \ {t} = Range(k.pending) \ {t}
    /\ l.tick = k.tick /\ l.pended = k.pended
    /\ l.current = k.current /\ l.depth = k.depth
    /\ \A u \in All \ {t} : l.prio[u] = k.prio[u]
    /\ \A u \in Tasks \ {t} : Left(l, u) = Left(k, u)

(* What vTaskSuspend does to the lists                                     *)
LEMMA Suspending ==
    ASSUME NEW k, Sound(k), Timely(k), NEW t \in Tasks
    PROVE  LET l == [Unpend(Unlist(k, t), t) EXCEPT !.suspended = Append(@, t)] IN
           /\ Moved(k, l, t) /\ Timely(l) /\ (High(k) => High(l))
           /\ t \notin Ready(l) /\ t \in On(l) /\ t \in Range(l.suspended)
           /\ t \notin Range(l.term) /\ t \notin Range(l.pending)
           /\ Left(l, t) = 0
           /\ l.prio = k.prio /\ l.yield = k.yield
<1> DEFINE m == Unpend(Unlist(k, t), t)
           l == [m EXCEPT !.suspended = Append(@, t)]
<1>1. /\ Sound(m)
      /\ Ready(m) = Ready(k) \ {t} /\ On(m) = On(k) \ {t}
      /\ Asleep(m) = Asleep(k) \ {t}
      /\ Range(m.delayed) = Range(k.delayed) \ {t}
      /\ Range(m.overflow) = Range(k.overflow) \ {t}
      /\ Range(m.suspended) = Range(k.suspended) \ {t}
      /\ Range(m.term) = Range(k.term) \ {t}
      /\ Range(m.pending) = Range(k.pending) \ {t}
      /\ m.tick = k.tick /\ m.pended = k.pended /\ m.unblock = k.unblock
      /\ m.current = k.current /\ m.depth = k.depth /\ m.yield = k.yield
      /\ m.prio = k.prio
      /\ \A u \in Range(m.delayed) \cup Range(m.overflow) : m.wake[u] = k.wake[u]
      /\ Timely(k) => Timely(m)
      /\ High(k) => High(m)
      /\ \A u \in Tasks : Left(m, u) = IF u = t THEN 0 ELSE Left(k, u)
  BY Detaching, Zenon
<1> HIDE DEF m
<1>2. /\ Sound(l)
      /\ Ready(l) = Ready(m) /\ On(l) = On(m) \cup {t} /\ Asleep(l) = Asleep(m)
      /\ l.delayed = m.delayed /\ l.overflow = m.overflow
      /\ Range(l.suspended) = Range(m.suspended) \cup {t}
      /\ l.term = m.term /\ l.pending = m.pending
      /\ l.tick = m.tick /\ l.pended = m.pended /\ l.unblock = m.unblock
      /\ l.current = m.current /\ l.depth = m.depth /\ l.yield = m.yield
      /\ l.wake = m.wake /\ l.prio = m.prio
  BY <1>1, AppendSuspended
<1> HIDE DEF l
<1>3. Timely(l)
  BY <1>1, <1>2 DEF Timely, Due, Announced
<1>4. High(k) => High(l)
  BY <1>1, <1>2 DEF High
<1>5. Left(l, t) = 0 /\ \A u \in Tasks \ {t} : Left(l, u) = Left(k, u)
  BY <1>1, <1>2 DEF Left
<1>6. Moved(k, l, t)
  BY <1>1, <1>2, <1>5 DEF Moved
<1>7. QED
  BY <1>1, <1>2, <1>3, <1>4, <1>5, <1>6 DEF l, m

(* What vTaskDelete of the caller does to the lists                        *)
LEMMA Terminating ==
    ASSUME NEW k, Sound(k), Timely(k), NEW t \in Tasks
    PROVE  LET l == [Unpend(Unlist(k, t), t) EXCEPT !.term = Append(@, t)] IN
           /\ Moved(k, l, t) /\ Timely(l) /\ (High(k) => High(l))
           /\ t \notin Ready(l) /\ t \in On(l) /\ t \notin Range(l.suspended)
           /\ t \in Range(l.term) /\ t \notin Range(l.pending)
           /\ Left(l, t) = 0
           /\ l.prio = k.prio /\ l.yield = k.yield
<1> DEFINE m == Unpend(Unlist(k, t), t)
           l == [m EXCEPT !.term = Append(@, t)]
<1>1. /\ Sound(m)
      /\ Ready(m) = Ready(k) \ {t} /\ On(m) = On(k) \ {t}
      /\ Asleep(m) = Asleep(k) \ {t}
      /\ Range(m.delayed) = Range(k.delayed) \ {t}
      /\ Range(m.overflow) = Range(k.overflow) \ {t}
      /\ Range(m.suspended) = Range(k.suspended) \ {t}
      /\ Range(m.term) = Range(k.term) \ {t}
      /\ Range(m.pending) = Range(k.pending) \ {t}
      /\ m.tick = k.tick /\ m.pended = k.pended /\ m.unblock = k.unblock
      /\ m.current = k.current /\ m.depth = k.depth /\ m.yield = k.yield
      /\ m.prio = k.prio
      /\ \A u \in Range(m.delayed) \cup Range(m.overflow) : m.wake[u] = k.wake[u]
      /\ Timely(k) => Timely(m)
      /\ High(k) => High(m)
      /\ \A u \in Tasks : Left(m, u) = IF u = t THEN 0 ELSE Left(k, u)
  BY Detaching, Zenon
<1> HIDE DEF m
<1>2. /\ Sound(l)
      /\ Ready(l) = Ready(m) /\ On(l) = On(m) \cup {t} /\ Asleep(l) = Asleep(m)
      /\ l.delayed = m.delayed /\ l.overflow = m.overflow
      /\ l.suspended = m.suspended
      /\ Range(l.term) = Range(m.term) \cup {t} /\ l.pending = m.pending
      /\ l.tick = m.tick /\ l.pended = m.pended /\ l.unblock = m.unblock
      /\ l.current = m.current /\ l.depth = m.depth /\ l.yield = m.yield
      /\ l.wake = m.wake /\ l.prio = m.prio
  BY <1>1, AppendTerm
<1> HIDE DEF l
<1>3. Timely(l)
  BY <1>1, <1>2 DEF Timely, Due, Announced
<1>4. High(k) => High(l)
  BY <1>1, <1>2 DEF High
<1>5. Left(l, t) = 0 /\ \A u \in Tasks \ {t} : Left(l, u) = Left(k, u)
  BY <1>1, <1>2 DEF Left
<1>6. Moved(k, l, t)
  BY <1>1, <1>2, <1>5 DEF Moved
<1>7. QED
  BY <1>1, <1>2, <1>3, <1>4, <1>5, <1>6 DEF l, m

(* A task is made ready: the highest one still runs if it does not come    *)
(* before it.                                                              *)
LEMMA Readying ==
    ASSUME NEW k, Sound(k), Timely(k), NEW t \in Tasks
    PROVE  LET l == MakeReady(k, t) IN
           /\ Moved(k, l, t) /\ Timely(l)
           /\ Ready(l) = Ready(k) \cup {t} /\ On(l) = On(k) \cup {t}
           /\ t \notin Asleep(l) /\ t \notin Range(l.suspended) /\ t \notin Range(l.term)
           /\ l.pending = k.pending /\ l.prio = k.prio /\ l.yield = k.yield
           /\ Left(l, t) = 0
           /\ High(k) /\ k.prio[t] <= k.prio[k.current] => High(l)
<1> DEFINE l == MakeReady(k, t)
<1>1. k \in Kernels
  BY DEF Sound
<1>2. /\ Sound(l)
      /\ Ready(l) = Ready(k) \cup {t} /\ On(l) = On(k) \cup {t}
      /\ Asleep(l) = Asleep(k) \ {t}
      /\ Range(l.delayed) = Range(k.delayed) \ {t}
      /\ Range(l.overflow) = Range(k.overflow) \ {t}
      /\ Range(l.suspended) = Range(k.suspended) \ {t}
      /\ Range(l.term) = Range(k.term) \ {t}
      /\ l.pending = k.pending
      /\ l.tick = k.tick /\ l.pended = k.pended /\ l.unblock = k.unblock
      /\ l.current = k.current /\ l.depth = k.depth /\ l.yield = k.yield
      /\ l.wake = [k.wake EXCEPT ![t] = 0] /\ l.prio = k.prio
  <2>1. LET a == MakeReady(k, t) IN
        /\ Sound(a)
        /\ Ready(a) = Ready(k) \cup {t} /\ On(a) = On(k) \cup {t}
        /\ Asleep(a) = Asleep(k) \ {t}
        /\ a.delayed = Without(k.delayed, t) /\ a.overflow = Without(k.overflow, t)
        /\ Range(a.delayed) = Range(k.delayed) \ {t}
        /\ Range(a.overflow) = Range(k.overflow) \ {t}
        /\ Range(a.suspended) = Range(k.suspended) \ {t}
        /\ Range(a.term) = Range(k.term) \ {t}
        /\ a.pending = k.pending
        /\ a.tick = k.tick /\ a.pended = k.pended /\ a.unblock = k.unblock
        /\ a.current = k.current /\ a.depth = k.depth /\ a.yield = k.yield
        /\ a.wake = [k.wake EXCEPT ![t] = 0] /\ a.prio = k.prio
        /\ a.top >= k.top /\ a.top >= k.prio[t]
    BY MakingReady, Zenon
  <2>2. QED
    BY <2>1
<1> HIDE DEF l
<1>3. \A u \in Range(l.delayed) \cup Range(l.overflow) : l.wake[u] = k.wake[u]
  BY <1>1, <1>2, WakeForgotten
<1>4. Timely(l)
  BY <1>2, <1>3 DEF Timely, Due, Announced
<1>5. Left(l, t) = 0 /\ \A u \in Tasks \ {t} : Left(l, u) = Left(k, u)
  <2>1. \A u \in Asleep(l) : l.wake[u] = k.wake[u]
    BY <1>3 DEF Asleep
  <2>2. QED
    BY <1>2, <2>1 DEF Left
<1>6. High(k) /\ k.prio[t] <= k.prio[k.current] => High(l)
  BY <1>2 DEF High
<1>7. Moved(k, l, t)
  BY <1>2, <1>5 DEF Moved
<1>8. QED
  BY <1>2, <1>4, <1>5, <1>6, <1>7 DEF l

(* A task that is on no state list is made ready.                          *)
LEMMA Enlisting ==
    ASSUME NEW k, Sound(k), Timely(k), NEW t \in Tasks, t \notin On(k)
    PROVE  LET l == AddReady(k, t) IN
           /\ Moved(k, l, t) /\ Timely(l)
           /\ Ready(l) = Ready(k) \cup {t} /\ On(l) = On(k) \cup {t}
           /\ Asleep(l) = Asleep(k)
           /\ l.suspended = k.suspended /\ l.term = k.term
           /\ l.pending = k.pending /\ l.prio = k.prio /\ l.yield = k.yield
           /\ Left(l, t) = 0 /\ Left(k, t) = 0
           /\ High(k) /\ k.prio[t] <= k.prio[k.current] => High(l)
<1> DEFINE l == AddReady(k, t)
<1>1. /\ Sound(l)
      /\ Ready(l) = Ready(k) \cup {t} /\ On(l) = On(k) \cup {t}
      /\ l.delayed = k.delayed /\ l.overflow = k.overflow
      /\ l.suspended = k.suspended /\ l.term = k.term /\ l.pending = k.pending
      /\ l.tick = k.tick /\ l.pended = k.pended /\ l.unblock = k.unblock
      /\ l.current = k.current /\ l.depth = k.depth /\ l.yield = k.yield
      /\ l.wake = k.wake /\ l.prio = k.prio
  BY Adding, Zenon
<1> HIDE DEF l
<1>2. Asleep(l) = Asleep(k)
  BY <1>1 DEF Asleep
<1>3. Timely(l)
  BY <1>1, TimesKept
<1>4. Left(l, t) = 0 /\ Left(k, t) = 0 /\ \A u \in Tasks : Left(l, u) = Left(k, u)
  BY <1>1, <1>2 DEF Left, On
<1>5. High(k) /\ k.prio[t] <= k.prio[k.current] => High(l)
  BY <1>1 DEF High
<1>6. Moved(k, l, t)
  BY <1>1, <1>2, <1>4 DEF Moved
<1>7. QED
  BY <1>1, <1>2, <1>3, <1>4, <1>5, <1>6 DEF l

(* A task is taken off its state list.                                     *)
LEMMA Delisting ==
    ASSUME NEW k, Sound(k), Timely(k), NEW t \in Tasks
    PROVE  LET l == Unlist(k, t) IN
           /\ Moved(k, l, t) /\ Timely(l)
           /\ Ready(l) = Ready(k) \ {t} /\ On(l) = On(k) \ {t}
           /\ Asleep(l) = Asleep(k) \ {t}
           /\ Range(l.suspended) = Range(k.suspended) \ {t}
           /\ Range(l.term) = Range(k.term) \ {t}
           /\ l.pending = k.pending /\ l.prio = k.prio /\ l.yield = k.yield
           /\ Left(l, t) = 0
           /\ High(k) => High(l)
<1> DEFINE l == Unlist(k, t)
<1>1. k \in Kernels
  BY DEF Sound
<1>2. /\ l.tick = k.tick /\ l.pended = k.pended /\ l.unblock = k.unblock
      /\ l.current = k.current /\ l.pending = k.pending
      /\ l.depth = k.depth /\ l.yield = k.yield /\ l.prio = k.prio
      /\ l.wake = [k.wake EXCEPT ![t] = 0]
  BY <1>1, UnlistFields
<1>3. /\ Sound(l)
      /\ Ready(l) = Ready(k) \ {t} /\ Asleep(l) = Asleep(k) \ {t}
      /\ Range(l.delayed) = Range(k.delayed) \ {t}
      /\ Range(l.overflow) = Range(k.overflow) \ {t}
      /\ Range(l.suspended) = Range(k.suspended) \ {t}
      /\ Range(l.term) = Range(k.term) \ {t}
      /\ On(l) = On(k) \ {t}
  BY Unlisting, Zenon
<1> HIDE DEF l
<1>4. \A u \in Range(l.delayed) \cup Range(l.overflow) : l.wake[u] = k.wake[u]
  BY <1>1, <1>2, <1>3, WakeForgotten
<1>5. Timely(l)
  BY <1>2, <1>3, <1>4, TimesKept
<1>6. Left(l, t) = 0 /\ \A u \in Tasks \ {t} : Left(l, u) = Left(k, u)
  <2>1. \A u \in Asleep(l) : l.wake[u] = k.wake[u]
    BY <1>4 DEF Asleep
  <2>2. QED
    BY <1>2, <1>3, <2>1 DEF Left
<1>7. High(k) => High(l)
  BY <1>2, <1>3 DEF High
<1>8. Moved(k, l, t)
  BY <1>2, <1>3, <1>6 DEF Moved
<1>9. QED
  BY <1>2, <1>3, <1>5, <1>6, <1>7, <1>8 DEF l

(* An event item is taken off the pending list.                            *)
LEMMA Depending ==
    ASSUME NEW k, Sound(k), Timely(k), NEW t \in Tasks
    PROVE  LET l == Unpend(k, t) IN
           /\ Moved(k, l, t) /\ Timely(l)
           /\ Ready(l) = Ready(k) /\ On(l) = On(k) /\ Asleep(l) = Asleep(k)
           /\ l.suspended = k.suspended /\ l.term = k.term
           /\ Range(l.pending) = Range(k.pending) \ {t}
           /\ l.prio = k.prio /\ l.yield = k.yield
           /\ Left(l, t) = Left(k, t)
           /\ High(k) => High(l)
<1> DEFINE l == Unpend(k, t)
<1>1. /\ Sound(l) /\ SameLists(k, l)
      /\ Ready(l) = Ready(k) /\ Asleep(l) = Asleep(k) /\ On(l) = On(k)
      /\ Range(l.pending) = Range(k.pending) \ {t}
      /\ l.tick = k.tick /\ l.pended = k.pended /\ l.unblock = k.unblock
      /\ l.current = k.current /\ l.depth = k.depth /\ l.yield = k.yield
  BY Unpending
<1> HIDE DEF l
<1>2. /\ l.delayed = k.delayed /\ l.overflow = k.overflow /\ l.suspended = k.suspended
      /\ l.term = k.term /\ l.wake = k.wake /\ l.prio = k.prio
  BY <1>1 DEF SameLists
<1>3. Timely(l) /\ (High(k) => High(l))
  BY <1>1, <1>2 DEF Timely, Due, Announced, High
<1>4. \A u \in Tasks : Left(l, u) = Left(k, u)
  BY <1>1, <1>2 DEF Left
<1>5. Moved(k, l, t)
  BY <1>1, <1>2, <1>4 DEF Moved
<1>6. QED
  BY <1>1, <1>2, <1>3, <1>4, <1>5 DEF l

(* An event item goes to the pending list.                                 *)
LEMMA Holding ==
    ASSUME NEW k, Sound(k), Timely(k), NEW t \in Tasks, t \notin Range(k.pending)
    PROVE  LET l == Hold(k, t) IN
           /\ Moved(k, l, t) /\ Timely(l)
           /\ Ready(l) = Ready(k) /\ On(l) = On(k) /\ Asleep(l) = Asleep(k)
           /\ l.suspended = k.suspended /\ l.term = k.term
           /\ Range(l.pending) = Range(k.pending) \cup {t}
           /\ l.prio = k.prio /\ l.yield = k.yield
           /\ Left(l, t) = Left(k, t)
           /\ High(k) => High(l)
<1> DEFINE l == Hold(k, t)
           r == Append(k.pending, t)
<1>1. k \in Kernels /\ k.pending \in Seq(Tasks) /\ IsInjective(k.pending)
  BY KernelTypes DEF Sound, Once
<1>2. r \in Seq(Tasks) /\ Range(r) = Range(k.pending) \cup {t} /\ IsInjective(r)
  BY <1>1, Appended
<1>3. l = [k EXCEPT !.pending = r]
  BY <1>1 DEF Hold
<1> HIDE DEF r, l
<1>4. /\ l \in Kernels /\ SameLists(k, l) /\ l.top = k.top /\ l.pending = r
      /\ l.tick = k.tick /\ l.pended = k.pended /\ l.unblock = k.unblock
      /\ l.current = k.current /\ l.depth = k.depth /\ l.yield = k.yield
  BY <1>1, <1>2, <1>3 DEF Kernels, SameLists
<1>5. Sound(l) /\ Ready(l) = Ready(k) /\ Asleep(l) = Asleep(k) /\ On(l) = On(k)
  BY <1>2, <1>4, SoundKept
<1>6. /\ l.delayed = k.delayed /\ l.overflow = k.overflow /\ l.suspended = k.suspended
      /\ l.term = k.term /\ l.wake = k.wake /\ l.prio = k.prio
  BY <1>4 DEF SameLists
<1>7. Timely(l) /\ (High(k) => High(l))
  BY <1>4, <1>5, <1>6 DEF Timely, Due, Announced, High
<1>8. \A u \in Tasks : Left(l, u) = Left(k, u)
  BY <1>4, <1>5, <1>6 DEF Left
<1>9. Moved(k, l, t)
  BY <1>2, <1>4, <1>5, <1>6, <1>8 DEF Moved
<1>10. QED
  BY <1>2, <1>4, <1>5, <1>6, <1>7, <1>8, <1>9 DEF l

(* What a handler does to wake a task, in both cases                       *)
LEMMA Waking ==
    ASSUME NEW k, Sound(k), Timely(k), NEW t \in Tasks, t \notin Range(k.pending)
    PROVE  LET l == WakeFromISR(k, t) IN
           /\ Moved(k, l, t) /\ Timely(l)
           /\ l.prio = k.prio /\ l.yield = k.yield
           /\ k.depth = 0 =>
                /\ Ready(l) = Ready(k) \cup {t} /\ On(l) = On(k) \cup {t}
                /\ t \notin Range(l.suspended) /\ t \notin Range(l.term)
                /\ l.pending = k.pending /\ Left(l, t) = 0
           /\ k.depth # 0 =>
                /\ Ready(l) = Ready(k) /\ On(l) = On(k)
                /\ l.suspended = k.suspended /\ l.term = k.term
                /\ Range(l.pending) = Range(k.pending) \cup {t}
                /\ Left(l, t) = Left(k, t)
           /\ High(k) /\ (k.depth # 0 \/ k.prio[t] <= k.prio[k.current]) => High(l)
<1> DEFINE l == WakeFromISR(k, t)
<1>1. CASE k.depth = 0
  <2>1. l = MakeReady(k, t)
    BY <1>1 DEF WakeFromISR
  <2> HIDE DEF l
  <2>2. /\ Moved(k, l, t) /\ Timely(l)
        /\ Ready(l) = Ready(k) \cup {t} /\ On(l) = On(k) \cup {t}
        /\ t \notin Range(l.suspended) /\ t \notin Range(l.term)
        /\ l.pending = k.pending /\ l.prio = k.prio /\ l.yield = k.yield
        /\ Left(l, t) = 0
        /\ High(k) /\ k.prio[t] <= k.prio[k.current] => High(l)
    BY <2>1, Readying
  <2>3. QED
    BY <1>1, <2>2 DEF l
<1>2. CASE k.depth # 0
  <2>1. l = Hold(k, t)
    BY <1>2 DEF WakeFromISR
  <2> HIDE DEF l
  <2>2. /\ Moved(k, l, t) /\ Timely(l)
        /\ Ready(l) = Ready(k) /\ On(l) = On(k)
        /\ l.suspended = k.suspended /\ l.term = k.term
        /\ Range(l.pending) = Range(k.pending) \cup {t}
        /\ l.prio = k.prio /\ l.yield = k.yield
        /\ Left(l, t) = Left(k, t)
        /\ High(k) => High(l)
    BY <2>1, Holding
  <2>3. QED
    BY <1>2, <2>2 DEF l
<1>3. QED
  BY <1>1, <1>2

(* What a step leaves as it was, when it moves no task                     *)
Like(k, l) ==
    /\ Sound(l) /\ (Timely(k) => Timely(l))
    /\ Ready(l) = Ready(k) /\ On(l) = On(k) /\ Asleep(l) = Asleep(k)
    /\ Range(l.suspended) = Range(k.suspended) /\ Range(l.term) = Range(k.term)
    /\ Range(l.pending) = Range(k.pending)
    /\ l.tick = k.tick /\ l.prio = k.prio
    /\ \A t \in Tasks : Left(l, t) = Left(k, t)

(* prvResetNextTaskUnblockTime moves no task.                              *)
LEMMA LikeReset ==
    ASSUME NEW k, Sound(k)
    PROVE  LET l == ResetUnblock(k) IN
           /\ Like(k, l) /\ l.current = k.current /\ l.depth = k.depth
           /\ l.pended = k.pended /\ l.yield = k.yield
           /\ High(k) => High(l)
<1> DEFINE l == ResetUnblock(k)
<1>1. /\ Sound(l) /\ SameLists(k, l)
      /\ Ready(l) = Ready(k) /\ Asleep(l) = Asleep(k) /\ On(l) = On(k)
      /\ l.tick = k.tick /\ l.pended = k.pended /\ l.pending = k.pending
      /\ l.current = k.current /\ l.depth = k.depth /\ l.yield = k.yield
      /\ Due(k) => Timely(l)
  <2>1. l = ResetUnblock(k)
    OBVIOUS
  <2> HIDE DEF l
  <2>2. QED
    BY <2>1, Resetting
<1> HIDE DEF l
<1>2. /\ l.delayed = k.delayed /\ l.overflow = k.overflow /\ l.suspended = k.suspended
      /\ l.term = k.term /\ l.wake = k.wake /\ l.prio = k.prio
  BY <1>1 DEF SameLists
<1>3. \A t \in Tasks : Left(l, t) = Left(k, t)
  BY <1>1, <1>2 DEF Left
<1>4. Like(k, l) /\ (High(k) => High(l))
  BY <1>1, <1>2, <1>3 DEF Like, Timely, High
<1>5. QED
  BY <1>1, <1>4 DEF l

(* vTaskSwitchContext moves no task to another list, and a ready task of   *)
(* the highest priority runs after it.                                     *)
LEMMA LikeSwitch ==
    ASSUME NEW k, Sound(k)
    PROVE  LET l == Switch(k) IN
           /\ Like(k, l) /\ l.depth = k.depth /\ l.pended = k.pended
           /\ k.depth > 0 => l.current = k.current
           /\ k.depth = 0 => l.current \in Ready(l)
           /\ High(l)
<1> DEFINE l == Switch(k)
<1>1. l = Switch(k)
  OBVIOUS
<1> HIDE DEF l
<1>2. /\ Sound(l)
      /\ Ready(l) = Ready(k) /\ On(l) = On(k) /\ Asleep(l) = Asleep(k)
      /\ l.delayed = k.delayed /\ l.overflow = k.overflow
      /\ l.suspended = k.suspended /\ l.term = k.term /\ l.pending = k.pending
      /\ l.tick = k.tick /\ l.pended = k.pended
      /\ l.depth = k.depth /\ l.wake = k.wake /\ l.prio = k.prio
      /\ k.depth > 0 => l.current = k.current
      /\ k.depth = 0 => l.current \in Ready(l)
      /\ High(l)
      /\ Timely(k) => Timely(l)
      /\ \A t \in Tasks : Left(l, t) = Left(k, t)
  BY <1>1, Switching
<1>3. Like(k, l)
  BY <1>2 DEF Like
<1>4. QED
  BY <1>2, <1>3 DEF l

(* xYieldPending moves no task.                                            *)
LEMMA LikeYield ==
    ASSUME NEW k, Sound(k), NEW b \in BOOLEAN
    PROVE  LET l == [k EXCEPT !.yield = b] IN
           /\ Like(k, l) /\ l.current = k.current /\ l.depth = k.depth
           /\ l.pended = k.pended /\ l.yield = b
           /\ b => High(l)
<1> DEFINE l == [k EXCEPT !.yield = b]
<1>1. k \in Kernels
  BY DEF Sound
<1>2. /\ l \in Kernels /\ SameLists(k, l) /\ l.top = k.top /\ l.pending = k.pending
      /\ l.tick = k.tick /\ l.unblock = k.unblock /\ l.pended = k.pended
      /\ l.current = k.current /\ l.depth = k.depth /\ l.yield = b
  BY <1>1 DEF Kernels, SameLists
<1> HIDE DEF l
<1>3. Sound(l) /\ Ready(l) = Ready(k) /\ Asleep(l) = Asleep(k) /\ On(l) = On(k)
  BY <1>2, SoundKept DEF Sound, Once
<1>4. Timely(k) => Timely(l)
  BY <1>2 DEF Timely, Due, Announced, SameLists
<1>5. \A t \in Tasks : Left(l, t) = Left(k, t)
  BY <1>2, <1>3 DEF Left, SameLists
<1>6. Like(k, l)
  BY <1>2, <1>3, <1>4, <1>5 DEF Like, SameLists
<1>7. QED
  BY <1>2, <1>6 DEF High, l

(* uxPendedTicks moves no task.                                            *)
LEMMA LikePended ==
    ASSUME NEW k, Sound(k), NEW n \in 0 .. MaxPended
    PROVE  LET l == [k EXCEPT !.pended = n] IN
           /\ Like(k, l) /\ l.current = k.current /\ l.depth = k.depth
           /\ l.pended = n /\ l.yield = k.yield
           /\ High(k) => High(l)
<1> DEFINE l == [k EXCEPT !.pended = n]
<1>1. k \in Kernels
  BY DEF Sound
<1>2. /\ l \in Kernels /\ SameLists(k, l) /\ l.top = k.top /\ l.pending = k.pending
      /\ l.tick = k.tick /\ l.unblock = k.unblock /\ l.pended = n
      /\ l.current = k.current /\ l.depth = k.depth /\ l.yield = k.yield
  BY <1>1 DEF Kernels, SameLists
<1> HIDE DEF l
<1>3. Sound(l) /\ Ready(l) = Ready(k) /\ Asleep(l) = Asleep(k) /\ On(l) = On(k)
  BY <1>2, SoundKept DEF Sound, Once
<1>4. Timely(k) => Timely(l)
  BY <1>2 DEF Timely, Due, Announced, SameLists
<1>5. \A t \in Tasks : Left(l, t) = Left(k, t)
  BY <1>2, <1>3 DEF Left, SameLists
<1>6. Like(k, l) /\ (High(k) => High(l))
  BY <1>2, <1>3, <1>4, <1>5 DEF Like, SameLists, High
<1>7. QED
  BY <1>2, <1>6 DEF l

(* uxSchedulerSuspended moves no task.                                     *)
LEMMA LikeDepth ==
    ASSUME NEW k, Sound(k), NEW n \in 0 .. 2
    PROVE  LET l == [k EXCEPT !.depth = n] IN
           /\ Like(k, l) /\ l.current = k.current /\ l.depth = n
           /\ l.pended = k.pended /\ l.yield = k.yield
           /\ High(k) => High(l)
<1> DEFINE l == [k EXCEPT !.depth = n]
<1>1. l = [k EXCEPT !.depth = n]
  OBVIOUS
<1> HIDE DEF l
<1>2. /\ Sound(l) /\ SameLists(k, l)
      /\ Ready(l) = Ready(k) /\ Asleep(l) = Asleep(k) /\ On(l) = On(k)
      /\ l.tick = k.tick /\ l.pended = k.pended /\ l.pending = k.pending
      /\ l.current = k.current /\ l.depth = n /\ l.yield = k.yield
      /\ Timely(k) => Timely(l)
      /\ High(k) <=> High(l)
      /\ \A t \in Tasks : Left(l, t) = Left(k, t)
  BY <1>1, DepthOnly
<1>3. Like(k, l)
  BY <1>2 DEF Like, SameLists
<1>4. QED
  BY <1>2, <1>3 DEF l

(* vTaskSuspendAll moves no task.                                          *)
LEMMA Locking ==
    ASSUME NEW k, Sound(k), k.depth # 2
    PROVE  LET l == SuspendAll(k) IN
           /\ Like(k, l) /\ l.current = k.current /\ l.depth = k.depth + 1
           /\ l.pended = k.pended /\ l.yield = k.yield
           /\ High(k) => High(l)
<1> DEFINE n == k.depth + 1
<1>1. k.depth \in 0 .. 2
  BY KernelTypes DEF Sound
<1>2. n \in 0 .. 2
  BY <1>1
<1>3. SuspendAll(k) = [k EXCEPT !.depth = n]
  BY DEF SuspendAll
<1> DEFINE l == SuspendAll(k)
<1>3a. l = [k EXCEPT !.depth = n]
  BY <1>3
<1> HIDE DEF n, l
<1>4. /\ Like(k, l) /\ l.current = k.current /\ l.depth = n
      /\ l.pended = k.pended /\ l.yield = k.yield
      /\ High(k) => High(l)
  BY <1>2, <1>3a, LikeDepth
<1>5. QED
  BY <1>4 DEF l, n

(* The times of a task, and of the others, after it has gone to sleep      *)
LEMMA Sleeping ==
    ASSUME NEW k, Sound(k), Timely(k), NEW n \in Ticks, n # 0, NEW forever \in BOOLEAN,
           k.current \in Tasks
    PROVE  LET l == Block(k, n, forever)
               t == k.current
               stays == n = MaxDelay /\ forever
           IN  /\ Moved(k, l, t) /\ Timely(l)
               /\ Ready(l) = Ready(k) \ {t} /\ On(l) = On(k) \cup {t}
               /\ t \in Asleep(l) \cup Range(l.suspended)
               /\ t \in Range(l.suspended) => stays
               /\ t \notin Range(l.term)
               /\ l.pending = k.pending /\ l.prio = k.prio /\ l.yield = k.yield
               /\ Left(l, t) = IF stays THEN 0 ELSE n
               /\ High(k) => High(l)
<1> DEFINE t == k.current
           at == (k.tick + n) % Wrap
           stays == n = MaxDelay /\ forever
           l == Block(k, n, forever)
<1>0. stays \in BOOLEAN
  OBVIOUS
<1>1. /\ k \in Kernels /\ k.tick \in Ticks /\ k.wake \in [Tasks -> Ticks]
      /\ k.tick \in Nat /\ n \in Nat /\ n < Wrap /\ k.tick < Wrap
  BY KernelTypes, Constants DEF Sound
<1>2. /\ at = IF k.tick + n < Wrap THEN k.tick + n ELSE k.tick + n - Wrap
      /\ at \in Ticks
  <2>1. n \in 0 .. Wrap
    BY <1>1, Constants
  <2>2. at = IF k.tick + n < Wrap THEN k.tick + n ELSE k.tick + n - Wrap
    BY <1>1, <2>1, Wrapped
  <2> HIDE DEF at
  <2>3. at \in 0 .. Wrap - 1
    BY <1>1, <2>2, Constants
  <2>4. QED
    BY <2>2, <2>3 DEF Ticks
<1>3. Blocked(k, n, forever, l)
  BY Blocking
<1> HIDE DEF l
<1>4. /\ Sound(l)
      /\ Ready(l) = Ready(k) \ {t} /\ On(l) = On(k) \cup {t}
      /\ ~stays => l.wake = [k.wake EXCEPT ![t] = at]
      /\ stays => l.wake = [k.wake EXCEPT ![t] = 0]
      /\ Range(l.delayed) = (Range(k.delayed) \ {t})
                                \cup (IF stays \/ at < k.tick THEN {} ELSE {t})
      /\ Range(l.overflow) = (Range(k.overflow) \ {t})
                                 \cup (IF ~stays /\ at < k.tick THEN {t} ELSE {})
      /\ Range(l.suspended) = (Range(k.suspended) \ {t}) \cup (IF stays THEN {t} ELSE {})
      /\ Range(l.term) = Range(k.term) \ {t}
      /\ l.pending = k.pending
      /\ l.tick = k.tick /\ l.pended = k.pended
      /\ l.current = k.current /\ l.depth = k.depth /\ l.yield = k.yield
      /\ l.prio = k.prio /\ l.top = k.top
      /\ Timely(k) /\ n # 0 => Timely(l)
  BY <1>3 DEF Blocked
<1>4a. Timely(l)
  BY <1>4
<1> HIDE DEF at
<1>5. /\ t \in Tasks
      /\ \A u \in Tasks \ {t} : l.wake[u] = k.wake[u]
      /\ ~stays => l.wake[t] = at
  BY <1>1, <1>4
<1> HIDE DEF stays
<1>6. ASSUME NEW u \in Tasks \ {t} PROVE Left(l, u) = Left(k, u)
  BY <1>4, <1>5 DEF Left, Asleep
<1>7. Left(l, t) = IF stays THEN 0 ELSE n
  <2>1. CASE stays
    BY <1>4, <2>1 DEF Left, Asleep
  <2>2. CASE ~stays
    <3>1. t \in Asleep(l)
      BY <1>4, <2>2 DEF Asleep
    <3>2. Left(l, t) = at - k.tick + (IF at > k.tick THEN 0 ELSE Wrap)
      BY <1>4, <1>4a, <1>5, <2>2, <3>1, LeftIs
    <3>3. QED
      BY <1>1, <1>2, <2>2, <3>2, Constants
  <2>3. QED
    BY <2>1, <2>2
<1>8. t \in Asleep(l) \cup Range(l.suspended) /\ (t \in Range(l.suspended) => stays)
  BY <1>4 DEF Asleep
<1>9. Asleep(l) \ {t} = Asleep(k) \ {t}
  BY <1>4 DEF Asleep
<1>10. Moved(k, l, t)
  BY <1>4, <1>6, <1>9 DEF Moved
<1>11. High(k) => High(l)
  BY <1>4 DEF High
<1>12. QED
  BY <1>4, <1>4a, <1>7, <1>8, <1>10, <1>11 DEF l, stays

(* The priority of a task that is not ready changes.                       *)
LEMMA Pricing ==
    ASSUME NEW k, Sound(k), Timely(k), NEW t \in Tasks, t \notin Ready(k),
           NEW p \in Priorities
    PROVE  LET l == [k EXCEPT !.prio[t] = p] IN
           /\ Moved(k, l, t) /\ Timely(l)
           /\ Ready(l) = Ready(k) /\ On(l) = On(k) /\ Asleep(l) = Asleep(k)
           /\ l.suspended = k.suspended /\ l.term = k.term /\ l.pending = k.pending
           /\ l.prio = [k.prio EXCEPT ![t] = p] /\ l.yield = k.yield
           /\ Left(l, t) = Left(k, t)
           /\ High(k) /\ t # k.current => High(l)
<1> DEFINE l == [k EXCEPT !.prio[t] = p]
<1>1. k \in Kernels /\ t \in All /\ t # Idle /\ k.prio \in [All -> Priorities]
  BY KernelTypes, Constants DEF Sound
<1>2. /\ l \in Kernels /\ l.prio = [k.prio EXCEPT ![t] = p]
      /\ l.ready = k.ready /\ l.delayed = k.delayed /\ l.overflow = k.overflow
      /\ l.suspended = k.suspended /\ l.term = k.term /\ l.pending = k.pending
      /\ l.tick = k.tick /\ l.pended = k.pended /\ l.unblock = k.unblock
      /\ l.top = k.top /\ l.current = k.current /\ l.depth = k.depth
      /\ l.yield = k.yield /\ l.wake = k.wake
  BY <1>1 DEF Kernels
<1> HIDE DEF l
<1>3. \A u \in All : l.prio[u] = IF u = t THEN p ELSE k.prio[u]
  BY <1>1, <1>2
<1>4. \A q \in Priorities : t \notin Range(k.ready[q])
  BY <1>1 DEF Sound, Queues, Ready
<1>5. Ready(l) = Ready(k) /\ Asleep(l) = Asleep(k)
  <2>1. \A u \in All : k.prio[u] \in Priorities
    BY <1>1
  <2>2. \A u \in All : u \in Range(l.ready[l.prio[u]]) <=> u \in Range(k.ready[k.prio[u]])
    BY <1>2, <1>3, <1>4, <2>1
  <2>3. QED
    BY <1>2, <2>2 DEF Ready, Asleep
<1>6. On(l) = On(k) /\ Apart(l)
  BY <1>2, <1>5 DEF On, Apart, Sound
<1>7. Once(l) /\ Sorted(l)
  BY <1>2 DEF Once, Sorted, Sound
<1>8. Queues(l)
  BY <1>2, <1>3, <1>4 DEF Queues, Sound
<1>9. Topped(l) /\ Resting(l)
  <2>1. \A u \in Ready(k) : l.prio[u] = k.prio[u]
    BY <1>3 DEF Ready
  <2>2. l.prio[Idle] = k.prio[Idle]
    BY <1>1, <1>3, Constants
  <2>3. QED
    BY <1>2, <1>5, <2>1, <2>2 DEF Topped, Resting, Sound
<1>10. Timely(l) /\ \A u \in Tasks : Left(l, u) = Left(k, u)
  BY <1>2, <1>5 DEF Timely, Due, Announced, Left
<1>11. Sound(l)
  BY <1>2, <1>6, <1>7, <1>8, <1>9 DEF Sound
<1>12. High(k) /\ t # k.current => High(l)
  <2>1. \A u \in Ready(k) : l.prio[u] = k.prio[u]
    BY <1>3 DEF Ready
  <2>2. k.current \in All
    BY <1>1, KernelTypes
  <2>3. QED
    BY <1>2, <1>3, <1>5, <2>1, <2>2 DEF High
<1>13. Moved(k, l, t)
  BY <1>2, <1>3, <1>5, <1>6, <1>10, <1>11 DEF Moved
<1>14. QED
  BY <1>2, <1>5, <1>6, <1>10, <1>12, <1>13 DEF l

(* The priority of a ready task changes, and the task changes lists.       *)
LEMMA PricingReady ==
    ASSUME NEW k, Sound(k), Timely(k), NEW t \in Tasks, NEW p \in Priorities
    PROVE  LET l == MakeReady([k EXCEPT !.prio[t] = p], t) IN
           /\ Moved(k, l, t) /\ Timely(l)
           /\ Ready(l) = Ready(k) \cup {t} /\ On(l) = On(k) \cup {t}
           /\ t \notin Range(l.suspended) /\ t \notin Range(l.term)
           /\ l.pending = k.pending
           /\ l.prio = [k.prio EXCEPT ![t] = p] /\ l.yield = k.yield
           /\ Left(l, t) = 0
           /\ High(k) /\ t # k.current /\ p <= k.prio[k.current] => High(l)
           /\ High(k) /\ t = k.current /\ p >= k.prio[t] => High(l)
<1> DEFINE u == Unlist(k, t)
           v == [u EXCEPT !.prio[t] = p]
           l == AddReady(v, t)
<1>1. k \in Kernels /\ t \in All /\ k.prio \in [All -> Priorities] /\ k.current \in All
  BY KernelTypes, Constants DEF Sound
<1>2. MakeReady([k EXCEPT !.prio[t] = p], t) = l
  <2> DEFINE x == [k EXCEPT !.prio[t] = p]
  <2>1. Unlist(x, t) = v
    <3>1. /\ x.ready = k.ready /\ x.delayed = k.delayed /\ x.overflow = k.overflow
          /\ x.suspended = k.suspended /\ x.term = k.term /\ x.wake = k.wake
      BY <1>1 DEF Kernels
    <3> DEFINE r == [q \in Priorities |-> Without(k.ready[q], t)]
               w == [k.wake EXCEPT ![t] = 0]
               c == [k.prio EXCEPT ![t] = p]
    <3>2. Unlist(x, t) = [x EXCEPT !.ready = r, !.delayed = Without(k.delayed, t),
              !.overflow = Without(k.overflow, t), !.suspended = Without(k.suspended, t),
              !.term = Without(k.term, t), !.wake = w]
      BY <1>1, <3>1 DEF Unlist, Kernels
    <3>3. u = [k EXCEPT !.ready = r, !.delayed = Without(k.delayed, t),
              !.overflow = Without(k.overflow, t), !.suspended = Without(k.suspended, t),
              !.term = Without(k.term, t), !.wake = w]
      BY <1>1 DEF Unlist, Kernels
    <3>4. x = [k EXCEPT !.prio = c]
      BY <1>1 DEF Kernels
    <3>5. v = [u EXCEPT !.prio = c]
      BY <1>1 DEF Kernels, Unlist
    <3> HIDE DEF r, w, c, x, u, v
    <3>6. QED
      BY <1>1, <3>2, <3>3, <3>4, <3>5 DEF Kernels
  <2>2. QED
    BY <2>1 DEF MakeReady
<1>3. /\ Moved(k, u, t) /\ Timely(u)
      /\ Ready(u) = Ready(k) \ {t} /\ On(u) = On(k) \ {t}
      /\ Asleep(u) = Asleep(k) \ {t}
      /\ Range(u.suspended) = Range(k.suspended) \ {t}
      /\ Range(u.term) = Range(k.term) \ {t}
      /\ u.pending = k.pending /\ u.prio = k.prio /\ u.yield = k.yield
      /\ Left(u, t) = 0
  <2>1. u = Unlist(k, t)
    OBVIOUS
  <2> HIDE DEF u
  <2>2. QED
    BY <2>1, Delisting
<1> HIDE DEF u
<1>4. Sound(u) /\ t \notin Ready(u)
  BY <1>3 DEF Moved
<1>5. /\ Moved(u, v, t) /\ Timely(v)
      /\ Ready(v) = Ready(u) /\ On(v) = On(u) /\ Asleep(v) = Asleep(u)
      /\ v.suspended = u.suspended /\ v.term = u.term /\ v.pending = u.pending
      /\ v.prio = [u.prio EXCEPT ![t] = p] /\ v.yield = u.yield
  <2>1. v = [u EXCEPT !.prio[t] = p]
    OBVIOUS
  <2> HIDE DEF v
  <2>2. QED
    BY <1>3, <1>4, <2>1, Pricing
<1> HIDE DEF v
<1>6. Sound(v) /\ t \notin On(v)
  BY <1>3, <1>5 DEF Moved
<1>7. /\ Moved(v, l, t) /\ Timely(l)
      /\ Ready(l) = Ready(v) \cup {t} /\ On(l) = On(v) \cup {t}
      /\ Asleep(l) = Asleep(v)
      /\ l.suspended = v.suspended /\ l.term = v.term
      /\ l.pending = v.pending /\ l.prio = v.prio /\ l.yield = v.yield
      /\ Left(l, t) = 0
  <2>1. l = AddReady(v, t)
    OBVIOUS
  <2> HIDE DEF l
  <2>2. QED
    BY <1>5, <1>6, <2>1, Enlisting
<1> HIDE DEF l
<1>8. Moved(k, l, t)
  BY <1>3, <1>5, <1>7 DEF Moved
<1>9. l.prio = [k.prio EXCEPT ![t] = p]
  BY <1>3, <1>5, <1>7
<1>10. \A x \in All : l.prio[x] = IF x = t THEN p ELSE k.prio[x]
  BY <1>1, <1>9
<1>11. Ready(l) = Ready(k) \cup {t} /\ On(l) = On(k) \cup {t}
  BY <1>3, <1>5, <1>7
<1>12. l.yield = k.yield /\ l.current = k.current
  BY <1>3, <1>5, <1>7, <1>8 DEF Moved
<1>13. \A x \in All : k.prio[x] \in Nat /\ p \in Nat
  BY <1>1, Constants
<1>14. High(k) /\ t # k.current /\ p <= k.prio[k.current] => High(l)
  BY <1>1, <1>10, <1>11, <1>12 DEF High, Ready
<1>15. ASSUME High(k), t = k.current, p >= k.prio[t] PROVE High(l)
  <2>1. k.yield \/ \A x \in Ready(k) : k.prio[x] <= k.prio[t]
    BY <1>15 DEF High
  <2>2. CASE k.yield
    BY <1>12, <2>2 DEF High
  <2>3. CASE \A x \in Ready(k) : k.prio[x] <= k.prio[t]
    <3> SUFFICES ASSUME NEW x \in Ready(l) PROVE l.prio[x] <= l.prio[l.current]
      BY DEF High
    <3>1. x \in All
      BY DEF Ready
    <3>2. CASE x = t
      BY <1>12, <1>15, <1>10, <1>1, <1>13, <3>2
    <3>3. CASE x # t
      <4>1. k.prio[x] <= k.prio[t]
        BY <1>11, <2>3, <3>3
      <4>2. k.prio[x] \in Nat /\ k.prio[t] \in Nat /\ p \in Nat
        BY <1>1, <1>13, <3>1
      <4>3. l.prio[x] = k.prio[x] /\ l.prio[l.current] = p
        BY <1>1, <1>10, <1>12, <1>15, <3>1, <3>3
      <4>4. QED
        BY <1>15, <4>1, <4>2, <4>3
    <3>4. QED
      BY <3>2, <3>3
  <2>4. QED
    BY <2>1, <2>2, <2>3
<1>16. QED
  BY <1>2, <1>3, <1>5, <1>7, <1>8, <1>9, <1>11, <1>12, <1>14, <1>15

(* A task is created with priority p.                                      *)
LEMMA Creating ==
    ASSUME NEW k, Sound(k), Timely(k), NEW t \in Tasks, t \notin On(k), t # k.current,
           NEW p \in Priorities
    PROVE  LET l == AddReady([k EXCEPT !.prio[t] = p], t) IN
           /\ Moved(k, l, t) /\ Timely(l)
           /\ Ready(l) = Ready(k) \cup {t} /\ On(l) = On(k) \cup {t}
           /\ t \notin Range(l.suspended) /\ t \notin Range(l.term)
           /\ l.pending = k.pending
           /\ l.prio = [k.prio EXCEPT ![t] = p] /\ l.yield = k.yield
           /\ Left(l, t) = 0 /\ Left(k, t) = 0
           /\ High(k) /\ p <= k.prio[k.current] => High(l)
<1> DEFINE v == [k EXCEPT !.prio[t] = p]
           l == AddReady(v, t)
<1>1. k \in Kernels /\ t \in All /\ k.prio \in [All -> Priorities] /\ k.current \in All
  BY KernelTypes, Constants DEF Sound
<1>2. t \notin Ready(k)
  BY DEF On
<1>3. /\ Moved(k, v, t) /\ Timely(v)
      /\ Ready(v) = Ready(k) /\ On(v) = On(k) /\ Asleep(v) = Asleep(k)
      /\ v.suspended = k.suspended /\ v.term = k.term /\ v.pending = k.pending
      /\ v.prio = [k.prio EXCEPT ![t] = p] /\ v.yield = k.yield
      /\ Left(v, t) = Left(k, t)
      /\ High(k) => High(v)
  <2>1. v = [k EXCEPT !.prio[t] = p]
    OBVIOUS
  <2> HIDE DEF v
  <2>2. QED
    BY <1>2, <2>1, Pricing
<1> HIDE DEF v
<1>4. Sound(v) /\ t \notin On(v) /\ v.current = k.current
  BY <1>3 DEF Moved
<1>5. /\ Moved(v, l, t) /\ Timely(l)
      /\ Ready(l) = Ready(v) \cup {t} /\ On(l) = On(v) \cup {t}
      /\ Asleep(l) = Asleep(v)
      /\ l.suspended = v.suspended /\ l.term = v.term
      /\ l.pending = v.pending /\ l.prio = v.prio /\ l.yield = v.yield
      /\ Left(l, t) = 0 /\ Left(v, t) = 0
      /\ High(v) /\ v.prio[t] <= v.prio[v.current] => High(l)
  BY <1>3, <1>4, Enlisting, Zenon
<1> HIDE DEF l
<1>6. Moved(k, l, t)
  BY <1>3, <1>5 DEF Moved
<1>7. v.prio[t] = p /\ v.prio[v.current] = k.prio[k.current]
  BY <1>1, <1>3, <1>4
<1>8. t \notin Range(k.suspended) /\ t \notin Range(k.term)
  BY DEF On
<1>9. QED
  BY <1>3, <1>5, <1>6, <1>7, <1>8 DEF l, v

(* A task is deleted by another one.                                       *)
LEMMA Deleting ==
    ASSUME NEW k, Sound(k), Timely(k), NEW t \in Tasks
    PROVE  LET l == DeleteFrom(k, t) IN
           /\ Moved(k, l, t) /\ Timely(l)
           /\ Ready(l) = Ready(k) \ {t} /\ On(l) = On(k) \ {t}
           /\ Range(l.suspended) = Range(k.suspended) \ {t}
           /\ Range(l.term) = Range(k.term) \ {t}
           /\ Range(l.pending) = Range(k.pending) \ {t}
           /\ l.prio = k.prio /\ l.yield = k.yield
           /\ Left(l, t) = 0
           /\ High(k) => High(l)
<1> DEFINE m == Unpend(Unlist(k, t), t)
           l == ResetUnblock(m)
<1>1. /\ Sound(m)
      /\ Ready(m) = Ready(k) \ {t} /\ On(m) = On(k) \ {t}
      /\ Asleep(m) = Asleep(k) \ {t}
      /\ Range(m.suspended) = Range(k.suspended) \ {t}
      /\ Range(m.term) = Range(k.term) \ {t}
      /\ Range(m.pending) = Range(k.pending) \ {t}
      /\ m.tick = k.tick /\ m.pended = k.pended
      /\ m.current = k.current /\ m.depth = k.depth /\ m.yield = k.yield
      /\ m.prio = k.prio
      /\ Timely(k) => Timely(m)
      /\ High(k) => High(m)
      /\ \A u \in Tasks : Left(m, u) = IF u = t THEN 0 ELSE Left(k, u)
  <2>1. LET a == Unpend(Unlist(k, t), t) IN
        /\ Sound(a)
        /\ Ready(a) = Ready(k) \ {t} /\ On(a) = On(k) \ {t}
        /\ Asleep(a) = Asleep(k) \ {t}
        /\ Range(a.delayed) = Range(k.delayed) \ {t}
        /\ Range(a.overflow) = Range(k.overflow) \ {t}
        /\ Range(a.suspended) = Range(k.suspended) \ {t}
        /\ Range(a.term) = Range(k.term) \ {t}
        /\ Range(a.pending) = Range(k.pending) \ {t}
        /\ a.tick = k.tick /\ a.pended = k.pended /\ a.unblock = k.unblock
        /\ a.current = k.current /\ a.depth = k.depth /\ a.yield = k.yield
        /\ a.prio = k.prio
        /\ \A u \in Range(a.delayed) \cup Range(a.overflow) : a.wake[u] = k.wake[u]
        /\ Timely(k) => Timely(a)
        /\ High(k) => High(a)
        /\ \A u \in Tasks : Left(a, u) = IF u = t THEN 0 ELSE Left(k, u)
    BY Detaching, Zenon
  <2>2. QED
    BY <2>1
<1>2. l = DeleteFrom(k, t)
  BY DEF DeleteFrom
<1> HIDE DEF m
<1>3. /\ Like(m, l) /\ l.current = m.current /\ l.depth = m.depth
      /\ l.pended = m.pended /\ l.yield = m.yield
      /\ High(m) => High(l)
  <2>1. l = ResetUnblock(m)
    OBVIOUS
  <2> HIDE DEF l
  <2>2. QED
    BY <1>1, <2>1, LikeReset
<1> HIDE DEF l
<1>4. Moved(k, l, t)
  BY <1>1, <1>3 DEF Moved, Like
<1>5. QED
  BY <1>1, <1>2, <1>3, <1>4 DEF Like

-----------------------------------------------------------------------------
(* The inductive invariant *)

(* Where a task has the scheduler suspended                                *)
Locks == {"delay", "until", "resume", "resumeall", "state", "unlist", "event",
          "enlist", "sleep"}

(* Every task is on a state list, but for those in hand or freed.          *)
Placed ==
    /\ On(kernel) = {t \in All : ~InHand(t) /\ ~Unlisted(t)}
    /\ \A t \in Range(kernel.pending) : Exists(t)
    /\ \A t \in Range(kernel.term) : pc[t] = "deleted"

(* Only the task that runs may have the scheduler suspended; nothing is    *)
(* pending or pended while it is not.                                      *)
Depths ==
    LET c == kernel.current IN
    /\ \A t \in All : t # c => pc[t] \notin Locks
    /\ pc[c] \in {"delay", "until", "resume", "sleep"} => kernel.depth = 1
    /\ pc[c] \in {"state", "unlist", "event", "enlist", "resumeall"} => kernel.depth \in 1 .. 2
    /\ pc[c] \in {"app", "reset"} => kernel.depth \in 0 .. 1
    /\ pc[c] \in {"yield", "notified", "deleted", "reclaim"} => kernel.depth = 0
    /\ pc[c] = "reset" /\ target[c] = c => kernel.depth = 0
    /\ pc[c] # "freed"
    /\ \A t \in Tasks : pc[t] \notin {"sleep", "reclaim"}
    /\ pc[Idle] \in {"app", "sleep", "resumeall", "reclaim"}
    /\ kernel.depth = 0 => Range(kernel.pending) = {} /\ kernel.pended = 0
    /\ kernel.depth # 0 => ~msip \/ pc[c] = "app"

(* What xTaskAbortDelay and the idle task hold in their hands              *)
Hands ==
    /\ \A t \in Tasks : pc[t] \in {"state", "unlist", "event", "enlist"} =>
          target[t] \in Tasks /\ Exists(target[t])
    /\ \A t \in Tasks : pc[t] \in {"unlist", "event", "enlist"} =>
          target[t] # t /\ ~parked[target[t]]
    /\ pc[Idle] = "reclaim" => target[Idle] \in Tasks /\ pc[target[Idle]] = "deleted"

(* The task that runs is ready, or about to switch.                        *)
Runs ==
    LET c == kernel.current IN
    \/ c \in Ready(kernel)
    \/ pc[c] \in {"app", "notified"} /\ msip /\ kernel.depth = 0
    \/ pc[c] \in {"resume", "yield", "deleted"}
    \/ pc[c] = "reset" /\ target[c] = c

(* A task that someone suspended is on the suspended list, and waits for   *)
(* nothing else.                                                           *)
Parks ==
    \A t \in Tasks : parked[t] =>
        /\ t \in Range(kernel.suspended) /\ t \notin Range(kernel.pending)
        /\ notify[t] # "waiting" /\ Exists(t)

(* A task that waits for a notification is on no event list.               *)
Waiting ==
    \A t \in Tasks : notify[t] = "waiting" =>
        pc[t] = "notified" /\ t \notin Range(kernel.pending)

(* The highest ready task runs, or a switch is on its way.                 *)
Running == msip \/ High(kernel)

(* A task that has its notification is on its way.                         *)
Notices ==
    \A t \in Tasks : pc[t] = "notified" /\ ~parked[t] /\ notify[t] # "waiting" =>
        t \in Ready(kernel) \/ t \in Range(kernel.pending) \/ InHand(t)

(* ahead is how far the next period of a task is from the tick count.      *)
Periods ==
    \A t \in Tasks :
        /\ pc[t] \in {"delay", "until"} => ticks[t] \in 1 .. Wrap - 1
        /\ pc[t] = "until" => "until" \in Does[t] /\ ahead[t] + ticks[t] <= Wrap
        /\ "until" \in Does[t] /\ ahead[t] > -Wrap =>
              previous[t] = (kernel.tick + ahead[t]) % Wrap

(* The invariant                                                           *)
SchedInv ==
    /\ TypeOK /\ Sound(kernel) /\ Timely(kernel) /\ Placed /\ Depths /\ Hands /\ Runs
    /\ Parks /\ Waiting /\ Running /\ Notices /\ Periods

-----------------------------------------------------------------------------
(* What is known of a list and of the task that runs                       *)

(* The state lists, in a state of the invariant                            *)
LEMMA StatesOf ==
    ASSUME SchedInv
    PROVE  /\ kernel \in Kernels /\ kernel.depth \in 0 .. 2 /\ kernel.current \in All
           /\ kernel.depth = 0 => \A u \in All : pc[u] \notin Locks
           /\ \A u \in Range(kernel.term) : u \in Tasks
           /\ \A u \in All : u \in Range(kernel.suspended) \cup Range(kernel.term)
                                       \cup Asleep(kernel) => u \notin Ready(kernel)
           /\ \A u \in Range(kernel.suspended) : u \notin Range(kernel.term)
           /\ On(kernel) \subseteq All
<1>1. kernel \in Kernels
  BY DEF SchedInv, Sound
<1>2. kernel.depth \in 0 .. 2 /\ kernel.current \in All /\ On(kernel) \subseteq All
  BY <1>1, KernelTypes, ListsOfTasks
<1>3. kernel.depth = 0 => \A u \in All : pc[u] \notin Locks
  <2>1. pc \in [All -> Labels]
    BY DEF SchedInv, TypeOK
  <2>2. kernel.depth = 0 => pc[kernel.current] \notin Locks
    BY <1>2 DEF SchedInv, Depths, Locks
  <2>3. QED
    BY <1>2, <2>2 DEF SchedInv, Depths
<1>4. QED
  BY <1>1, <1>2, <1>3, ListsOfTasks DEF SchedInv, Sound, Apart

(* A task that takes a step runs; unless it has blocked, it is ready.      *)
LEMMA Caller ==
    ASSUME SchedInv, NEW t \in All, NEW l, At(t, l)
    PROVE  /\ kernel.current = t /\ ~msip /\ pc[t] = l /\ High(kernel)
           /\ l \notin {"resume", "yield", "deleted"} /\ ~(l = "reset" /\ target[t] = t) =>
                 /\ t \in Ready(kernel) /\ t \notin Asleep(kernel)
                 /\ t \notin Range(kernel.suspended) /\ t \notin Range(kernel.term)
                 /\ t \in On(kernel) /\ ~InHand(t) /\ ~Unlisted(t)
                 /\ t \in Tasks => ~parked[t]
           /\ l \notin Locks => \A u \in All : pc[u] \notin Locks /\ ~InHand(u)
<1>1. kernel.current = t /\ ~msip /\ pc[t] = l /\ High(kernel)
  BY DEF SchedInv, Running, At
<1>2. ASSUME l \notin {"resume", "yield", "deleted"}, ~(l = "reset" /\ target[t] = t)
      PROVE  /\ t \in Ready(kernel) /\ t \notin Asleep(kernel)
             /\ t \notin Range(kernel.suspended) /\ t \notin Range(kernel.term)
             /\ t \in On(kernel) /\ ~InHand(t) /\ ~Unlisted(t)
             /\ t \in Tasks => ~parked[t]
  <2>1. t \in Ready(kernel)
    BY <1>1, <1>2 DEF SchedInv, Runs
  <2>2. /\ t \notin Asleep(kernel) /\ t \notin Range(kernel.suspended)
        /\ t \notin Range(kernel.term) /\ t \in On(kernel)
    BY <2>1, StatesOf DEF On
  <2>3. ~InHand(t) /\ ~Unlisted(t)
    BY <2>2 DEF SchedInv, Placed
  <2>4. QED
    BY <2>1, <2>2, <2>3 DEF SchedInv, Parks
<1>3. ASSUME l \notin Locks PROVE \A u \in All : pc[u] \notin Locks /\ ~InHand(u)
  <2>1. \A u \in All : pc[u] \notin Locks
    BY <1>1, <1>3 DEF SchedInv, Depths
  <2>2. QED
    BY <2>1, Constants DEF InHand, Locks
<1>4. QED
  BY <1>1, <1>2, <1>3

(* A task that others act on                                               *)
LEMMA Present ==
    ASSUME SchedInv, NEW u \in Tasks
    PROVE  /\ u \in All /\ u # Idle
           /\ Exists(u) => ~Unlisted(u) /\ u \notin Range(kernel.term)
           /\ Exists(u) /\ ~InHand(u) => u \in On(kernel)
           /\ pc[u] = "freed" => u \notin On(kernel) /\ u \notin Range(kernel.pending)
           /\ u \in Range(kernel.pending) => Exists(u)
<1>1. u \in All /\ u # Idle
  BY Constants
<1>2. Exists(u) => ~Unlisted(u)
  BY DEF SchedInv, Hands, Exists, Unlisted
<1>3. Exists(u) => u \notin Range(kernel.term)
  BY DEF SchedInv, Placed, Exists
<1>4. pc[u] = "freed" => u \notin On(kernel) /\ u \notin Range(kernel.pending)
  BY DEF SchedInv, Placed, Unlisted, Exists
<1>5. QED
  BY <1>1, <1>2, <1>3, <1>4 DEF SchedInv, Placed

(* The arguments of the calls                                              *)
LEMMA WaitsAreTicks ==
    /\ \A t \in Tasks : Waits[t] \subseteq Ticks /\ Does[t] \subseteq Calls
    /\ Targets \subseteq Tasks /\ \A t \in Tasks : Prio[t] \in Priorities
BY SchedulerAssumption

(* What the types say of each value                                        *)
LEMMA Types ==
    ASSUME TypeOK
    PROVE  /\ kernel \in Kernels /\ msip \in BOOLEAN
           /\ \A t \in All : pc[t] \in Labels /\ ticks[t] \in Ticks /\ target[t] \in All
           /\ \A t \in Tasks : /\ notify[t] \in {"none", "waiting", "received"}
                               /\ previous[t] \in Ticks /\ ahead[t] \in -Wrap .. Wrap
                               /\ parked[t] \in BOOLEAN
BY DEF TypeOK

(* Ticks pass: each period is so much nearer.                              *)
LEMMA Drifting ==
    ASSUME SchedInv, NEW n \in Nat, Drift(n), kernel'.tick = (kernel.tick + n) % Wrap,
           previous' = previous
    PROVE  /\ ahead' \in [Tasks -> -Wrap .. Wrap]
           /\ \A t \in Tasks : "until" \in Does[t] /\ ahead'[t] > -Wrap =>
                 previous'[t] = (kernel'.tick + ahead'[t]) % Wrap
           /\ \A t \in Tasks : "until" \in Does[t] =>
                 \A m \in 1 .. Wrap - 1 : ahead[t] + m <= Wrap => ahead'[t] + m <= Wrap
<1>1. /\ ahead \in [Tasks -> -Wrap .. Wrap] /\ kernel.tick \in Nat /\ Wrap \in Nat \ {0, 1}
      /\ Periods
  BY KernelTypes, Constants DEF SchedInv, TypeOK
<1>2. \A t \in Tasks : ahead[t] \in Int /\ ahead[t] >= -Wrap /\ ahead[t] <= Wrap
  BY <1>1
<1>3. \A t \in Tasks :
          ahead'[t] = IF "until" \in Does[t] THEN Greater(-Wrap, ahead[t] - n) ELSE 0
  BY DEF Drift
<1>4. ASSUME NEW t \in Tasks
      PROVE  Greater(-Wrap, ahead[t] - n) = IF ahead[t] - n > -Wrap THEN ahead[t] - n ELSE -Wrap
  BY <1>1, <1>2 DEF Greater
<1>5. ahead' \in [Tasks -> -Wrap .. Wrap]
  <2>1. \A t \in Tasks : ahead'[t] \in -Wrap .. Wrap
    BY <1>1, <1>2, <1>3, <1>4
  <2>2. QED
    BY <2>1 DEF Drift
<1>6. ASSUME NEW t \in Tasks, "until" \in Does[t], ahead'[t] > -Wrap
      PROVE  previous'[t] = (kernel'.tick + ahead'[t]) % Wrap
  <2>1. ahead'[t] = ahead[t] - n /\ ahead[t] > -Wrap
    BY <1>1, <1>2, <1>3, <1>4, <1>6
  <2>2. previous[t] = (kernel.tick + ahead[t]) % Wrap
    BY <1>1, <1>6, <2>1 DEF Periods
  <2> DEFINE x == kernel.tick + n
             y == ahead[t] - n
  <2>3. /\ x \in Int /\ y \in Int /\ x + y = kernel.tick + ahead[t]
        /\ kernel'.tick = x % Wrap /\ ahead'[t] = y
    BY <1>1, <1>2, <2>1
  <2> HIDE DEF x, y
  <2>4. ((x % Wrap) + y) % Wrap = (x + y) % Wrap
    BY <2>3, WrapSum
  <2>5. QED
    BY <2>2, <2>3, <2>4
<1>7. ASSUME NEW t \in Tasks, "until" \in Does[t], NEW m \in 1 .. Wrap - 1, ahead[t] + m <= Wrap
      PROVE  ahead'[t] + m <= Wrap
  BY <1>1, <1>2, <1>3, <1>4, <1>7
<1>8. QED
  BY <1>5, <1>6, <1>7

(* The lists and the times after xTaskResumeAll                            *)
After(k, l) ==
    LET n == IF k.depth = 1 THEN k.pended ELSE 0
        g == IF k.depth = 1 THEN Range(k.pending) ELSE {}
    IN  /\ Sound(l) /\ Timely(l)
        /\ l.depth = k.depth - 1 /\ l.current = k.current /\ l.prio = k.prio
        /\ l.tick = (k.tick + n) % Wrap
        /\ l.pended = k.pended - n
        /\ Range(l.pending) = Range(k.pending) \ g
        /\ Ready(k) \cup g \subseteq Ready(l)
        /\ On(l) = On(k) \cup g
        /\ Range(l.suspended) = Range(k.suspended) \ g /\ Range(l.term) = Range(k.term) \ g
        /\ High(k) => High(l)
        /\ \A t \in Tasks : Left(l, t) = IF t \in g \/ Left(k, t) <= n THEN 0 ELSE Left(k, t) - n

(* xTaskResumeAll, outermost or not                                        *)
LEMMA ResumingAll ==
    ASSUME NEW k, Sound(k), Timely(k), k.depth \in 1 .. 2
    PROVE  After(k, ResumeAll(k))
<1> DEFINE l == ResumeAll(k)
<1>1. k \in Kernels /\ k.tick \in Ticks /\ k.pended \in Nat
  BY KernelTypes, Constants DEF Sound
<1>2. CASE k.depth = 1
  <2>1. Resumed(k, l)
    BY <1>2, Resuming
  <2> HIDE DEF l
  <2>2. Range(l.pending) = {}
    BY <2>1 DEF Resumed, Range
  <2>3. QED
    BY <1>1, <1>2, <2>1, <2>2 DEF Resumed, After, l
<1>3. CASE k.depth = 2
  <2>1. l = [k EXCEPT !.depth = 1]
    BY <1>3, ResumingInner
  <2> HIDE DEF l
  <2>2. 1 \in 0 .. 2
    OBVIOUS
  <2>3. /\ Like(k, l) /\ l.current = k.current /\ l.depth = 1
        /\ l.pended = k.pended /\ l.yield = k.yield
        /\ High(k) => High(l)
    BY <2>1, <2>2, LikeDepth
  <2>4. (k.tick + 0) % Wrap = k.tick
    BY <1>1, Constants
  <2>5. ASSUME NEW t \in Tasks
        PROVE  Left(l, t) = IF Left(k, t) <= 0 THEN 0 ELSE Left(k, t) - 0
    <3>1. Left(l, t) = Left(k, t) /\ Left(k, t) \in Nat
      BY <2>3, LeftIs DEF Like
    <3>2. QED
      BY <3>1
  <2>6. After(k, l)
    BY <1>1, <1>3, <2>3, <2>4, <2>5 DEF After, Like
  <2>7. QED
    BY <2>6 DEF l
<1>4. QED
  BY <1>2, <1>3

(* What a call of xTaskResumeAll changes                                   *)
LEMMA Resumption ==
    ASSUME SchedInv, NEW t \in All, Resumes(t), kernel.depth \in 1 .. 2,
           \A u \in All : ~InHand(u)
    PROVE  LET n == IF kernel.depth = 1 THEN kernel.pended ELSE 0 IN
           /\ After(kernel, kernel') /\ n \in Nat /\ Drift(n)
           /\ On(kernel') = On(kernel)
           /\ Range(kernel'.term) = Range(kernel.term)
           /\ Range(kernel'.pending) \subseteq Range(kernel.pending)
           /\ kernel'.depth = 0 => Range(kernel'.pending) = {} /\ kernel'.pended = 0
           /\ \A u \in Tasks : parked[u] => u \in Range(kernel'.suspended)
           /\ \A u \in Tasks : u \in Range(kernel.pending) =>
                 u \in Ready(kernel') \/ u \in Range(kernel'.pending)
           /\ msip' = (msip \/ (kernel'.depth = 0 /\ kernel'.yield))
           /\ kernel' = ResumeAll(kernel)
<1> DEFINE n == IF kernel.depth = 1 THEN kernel.pended ELSE 0
<1>1. kernel' = ResumeAll(kernel)
  BY DEF Resumes, Set
<1>2. After(kernel, kernel')
  BY <1>1, ResumingAll DEF SchedInv
<1>3. kernel \in Kernels /\ kernel.pended \in Nat /\ n \in Nat
  BY KernelTypes, Constants DEF SchedInv, Sound
<1>4. kernel'.depth = kernel.depth - 1 /\ kernel'.pended = kernel.pended - n
  BY <1>2 DEF After
<1>5. (kernel'.depth = 0) = (kernel.depth = 1)
  BY <1>4
<1>6. Drift(n) /\ msip' = (msip \/ (kernel'.depth = 0 /\ kernel'.yield))
  BY <1>1, <1>5 DEF Resumes, YieldIf
<1>7. \A u \in Range(kernel.pending) : u \in On(kernel) /\ u \notin Range(kernel.term)
  BY <1>3, Present, ListsOfTasks, Constants DEF SchedInv
<1>8. On(kernel') = On(kernel) /\ Range(kernel'.term) = Range(kernel.term)
  BY <1>2, <1>7 DEF After
<1>9. \A u \in Tasks : parked[u] => u \in Range(kernel'.suspended)
  BY <1>2 DEF After, SchedInv, Parks
<1>10. Range(kernel'.pending) \subseteq Range(kernel.pending)
  BY <1>2 DEF After
<1>11. kernel'.depth = 0 => Range(kernel'.pending) = {} /\ kernel'.pended = 0
  BY <1>2, <1>3, <1>5 DEF After
<1>12. \A u \in Tasks : u \in Range(kernel.pending) =>
           u \in Ready(kernel') \/ u \in Range(kernel'.pending)
  BY <1>2 DEF After
<1>13. QED
  BY <1>1, <1>2, <1>3, <1>6, <1>8, <1>9, <1>10, <1>11, <1>12

(* A step that moves t leaves the other tasks where they are.              *)
LEMMA MovedOthers ==
    ASSUME NEW k, NEW l, NEW t, Moved(k, l, t)
    PROVE  /\ Sound(l) /\ l \in Kernels
           /\ l.tick = k.tick /\ l.pended = k.pended
           /\ l.current = k.current /\ l.depth = k.depth
           /\ \A x : x # t =>
                /\ x \in Ready(l) <=> x \in Ready(k)
                /\ x \in On(l) <=> x \in On(k)
                /\ x \in Range(l.suspended) <=> x \in Range(k.suspended)
                /\ x \in Range(l.term) <=> x \in Range(k.term)
                /\ x \in Range(l.pending) <=> x \in Range(k.pending)
<1>1. \A S, V : S \ {t} = V \ {t} => \A x : x # t => (x \in S <=> x \in V)
  OBVIOUS
<1>2. /\ \A x : x # t => (x \in Ready(l) <=> x \in Ready(k))
      /\ \A x : x # t => (x \in On(l) <=> x \in On(k))
      /\ \A x : x # t => (x \in Range(l.suspended) <=> x \in Range(k.suspended))
      /\ \A x : x # t => (x \in Range(l.term) <=> x \in Range(k.term))
      /\ \A x : x # t => (x \in Range(l.pending) <=> x \in Range(k.pending))
  BY <1>1 DEF Moved
<1>3. /\ Sound(l) /\ l \in Kernels
      /\ l.tick = k.tick /\ l.pended = k.pended
      /\ l.current = k.current /\ l.depth = k.depth
  BY DEF Moved, Sound
<1>4. QED
  BY <1>2, <1>3

(* When vTaskDelayUntil blocks, it blocks for a number of ticks.           *)
LEMMA UntilTicks ==
    ASSUME SchedInv, NEW at \in Ticks, NEW last \in Ticks,
           ShouldDelay(kernel.tick, last, at)
    PROVE  (at - kernel.tick) % Wrap \in Ticks /\ (at - kernel.tick) % Wrap # 0
<1>1. Wrap \in Nat \ {0, 1} /\ kernel.tick \in Ticks /\ Ticks = 0 .. Wrap - 1
  BY KernelTypes, Constants DEF SchedInv, Sound
<1> DEFINE d == at - kernel.tick
<1>2. d \in Int /\ d # 0 /\ (d \in 0 .. Wrap - 1 \/ d \in -Wrap + 1 .. -1)
  BY <1>1 DEF ShouldDelay
<1> HIDE DEF d
<1>3. /\ d \in 0 .. Wrap - 1 => d % Wrap = d
      /\ d \in -Wrap .. -1 => d % Wrap = d + Wrap
  BY <1>2, NearRemainder
<1>4. d % Wrap \in Ticks /\ d % Wrap # 0
  BY <1>1, <1>2, <1>3
<1>5. QED
  BY <1>4 DEF d

-----------------------------------------------------------------------------
(* Every step keeps the invariant *)

(* vTaskDelay keeps the invariant.                                         *)
LEMMA DelayStep ==
    ASSUME SchedInv, NEW t \in Tasks, Delay(t)
    PROVE  SchedInv'
<1>1. /\ TypeOK /\ Sound(kernel) /\ Timely(kernel) /\ Placed /\ Depths /\ Hands
      /\ Runs /\ Parks /\ Waiting /\ Notices /\ Periods
  BY DEF SchedInv
<1>2. /\ Tasks \subseteq All /\ Idle \in All /\ Idle \notin Tasks
      /\ Range(kernel.pending) \subseteq Tasks /\ Range(kernel.term) \subseteq Tasks
  BY <1>1, Constants, ListsOfTasks DEF Sound
<1>3. /\ pc \in [All -> Labels] /\ ticks \in [All -> Ticks] /\ target \in [All -> All]
      /\ notify \in [Tasks -> {"none", "waiting", "received"}] /\ parked \in [Tasks -> BOOLEAN]
      /\ previous \in [Tasks -> Ticks] /\ ahead \in [Tasks -> -Wrap .. Wrap] /\ msip \in BOOLEAN
  BY <1>1 DEF TypeOK
<1>4. At(t, "app") /\ t \in All
  BY Constants DEF Delay, MayBlock
<1>5. /\ kernel.current = t /\ ~msip /\ pc[t] = "app" /\ High(kernel)
      /\ t \in Ready(kernel) /\ t \notin Range(kernel.suspended) /\ t \in On(kernel)
      /\ ~InHand(t) /\ ~Unlisted(t) /\ ~parked[t] /\ t \in All
      /\ \A x \in All : pc[x] \notin Locks /\ ~InHand(x)
  BY <1>4, Caller DEF Locks
<1>6. kernel.depth = 0
  BY DEF Delay, MayBlock
<1>7. PICK n \in Waits[t] :
         IF n = 0
           THEN Goto(t, "yield") /\ UNCHANGED <<kernel, ticks, target>>
           ELSE Set(SuspendAll(kernel)) /\ Enter(t, "delay", n)
  BY DEF Delay
<1>8. n \in Ticks /\ (n # 0 => n \in 1 .. Wrap - 1)
  BY WaitsAreTicks, Constants
<1>9. UNCHANGED <<msip, notify, previous, ahead, parked>>
  BY DEF Delay, Keep, periods
<1>10. CASE n = 0
  <2>1. UNCHANGED <<kernel, ticks, target>> /\ Sound(kernel') /\ Timely(kernel')
    BY <1>1, <1>7, <1>10
  <2>2. pc' = [pc EXCEPT ![t] = "yield"]
    BY <1>7, <1>10 DEF Goto
  <2>3. \A x \in All : pc'[x] = IF x = t THEN "yield" ELSE pc[x]
    BY <1>3, <2>2
  <2>4. TypeOK'
    BY <1>3, <2>1, <2>2, <1>9 DEF TypeOK, Labels, Sound
  <2>5. Placed'
    BY <1>1, <1>5, <1>6, <2>1, <2>3, <1>9, <1>2 DEF Placed, InHand, Unlisted, Exists
  <2>6. Depths'
    BY <1>1, <1>5, <1>6, <2>1, <2>3, <1>9, <1>2 DEF Depths, Locks
  <2>7. Hands'
    BY <1>1, <1>5, <1>6, <2>1, <2>3, <1>9, <1>2 DEF Hands, Exists, Locks
  <2>8. Runs'
    BY <1>1, <1>5, <1>6, <2>1, <2>3, <1>9, <1>2 DEF Runs
  <2>9. Parks'
    BY <1>1, <1>5, <1>6, <2>1, <2>3, <1>9, <1>2 DEF Parks, Exists
  <2>10. Waiting'
    BY <1>1, <1>5, <1>6, <2>1, <2>3, <1>9, <1>2 DEF Waiting
  <2>11. Running'
    BY <1>1, <1>5, <1>6, <2>1, <2>3, <1>9, <1>2 DEF Running
  <2>12. Notices'
    BY <1>1, <1>5, <1>6, <2>1, <2>3, <1>9, <1>2 DEF Notices, InHand, Locks
  <2>13. Periods'
    BY <1>1, <1>5, <1>6, <2>1, <2>3, <1>9, <1>2 DEF Periods
  <2>14. QED
    BY <2>1, <2>4, <2>5, <2>6, <2>7, <2>8, <2>9, <2>10, <2>11, <2>12, <2>13 DEF SchedInv
<1>11. CASE n # 0
  <2>1. /\ Like(kernel, kernel') /\ kernel'.current = kernel.current
        /\ kernel'.depth = 1 /\ kernel'.pended = kernel.pended
        /\ High(kernel')
    <3>1. kernel' = SuspendAll(kernel)
      BY <1>7, <1>11 DEF Set
    <3>2. QED
      BY <1>1, <1>5, <1>6, <3>1, Locking
  <2>2. /\ Sound(kernel') /\ Timely(kernel') /\ kernel' \in Kernels
        /\ Ready(kernel') = Ready(kernel) /\ On(kernel') = On(kernel)
        /\ Range(kernel'.suspended) = Range(kernel.suspended)
        /\ Range(kernel'.term) = Range(kernel.term)
        /\ Range(kernel'.pending) = Range(kernel.pending)
        /\ kernel'.tick = kernel.tick
    BY <1>1, <2>1 DEF Like, Sound
  <2>3. pc' = [pc EXCEPT ![t] = "delay"] /\ ticks' = [ticks EXCEPT ![t] = n] /\ target' = target
    BY <1>7, <1>11 DEF Enter, Goto
  <2>4. \A x \in All : pc'[x] = IF x = t THEN "delay" ELSE pc[x]
    BY <1>3, <2>3
  <2>5. \A x \in All : ticks'[x] = IF x = t THEN n ELSE ticks[x]
    BY <1>3, <2>3
  <2>6. TypeOK'
    BY <1>3, <1>8, <2>2, <2>3, <1>9 DEF TypeOK, Labels
  <2>7. Placed'
    BY <1>1, <1>5, <1>6, <1>8, <1>11, <2>1, <2>2, <2>3, <2>4, <2>5, <1>9, <1>2 DEF Placed,
       InHand, Unlisted, Exists
  <2>8. Depths'
    BY <1>1, <1>5, <1>6, <1>8, <1>11, <2>1, <2>2, <2>3, <2>4, <2>5, <1>9, <1>2 DEF Depths,
       Locks
  <2>9. Hands'
    BY <1>1, <1>5, <1>6, <1>8, <1>11, <2>1, <2>2, <2>3, <2>4, <2>5, <1>9, <1>2 DEF Hands,
       Exists, Locks
  <2>10. Runs'
    BY <1>1, <1>5, <1>6, <1>8, <1>11, <2>1, <2>2, <2>3, <2>4, <2>5, <1>9, <1>2 DEF Runs
  <2>11. Parks'
    BY <1>1, <1>5, <1>6, <1>8, <1>11, <2>1, <2>2, <2>3, <2>4, <2>5, <1>9, <1>2 DEF Parks,
       Exists
  <2>12. Waiting'
    BY <1>1, <1>5, <1>6, <1>8, <1>11, <2>1, <2>2, <2>3, <2>4, <2>5, <1>9, <1>2 DEF Waiting
  <2>13. Running'
    BY <1>1, <1>5, <1>6, <1>8, <1>11, <2>1, <2>2, <2>3, <2>4, <2>5, <1>9, <1>2 DEF Running
  <2>14. Notices'
    BY <1>1, <1>5, <1>6, <1>8, <1>11, <2>1, <2>2, <2>3, <2>4, <2>5, <1>9, <1>2 DEF Notices,
       InHand, Locks
  <2>15. Periods'
    BY <1>1, <1>5, <1>6, <1>8, <1>11, <2>1, <2>2, <2>3, <2>4, <2>5, <1>9, <1>2 DEF Periods
  <2>16. QED
    BY <2>2, <2>6, <2>7, <2>8, <2>9, <2>10, <2>11, <2>12, <2>13, <2>14, <2>15 DEF SchedInv
<1>12. QED
  BY <1>10, <1>11

(* The blocking of vTaskDelay keeps the invariant.                         *)
LEMMA AddDelayStep ==
    ASSUME SchedInv, NEW t \in Tasks, AddDelay(t)
    PROVE  SchedInv'
<1>1. /\ TypeOK /\ Sound(kernel) /\ Timely(kernel) /\ Placed /\ Depths /\ Hands
      /\ Runs /\ Parks /\ Waiting /\ Notices /\ Periods
  BY DEF SchedInv
<1>2. /\ Tasks \subseteq All /\ Idle \in All /\ Idle \notin Tasks
      /\ Range(kernel.pending) \subseteq Tasks /\ Range(kernel.term) \subseteq Tasks
  BY <1>1, Constants, ListsOfTasks DEF Sound
<1>3. /\ pc \in [All -> Labels] /\ ticks \in [All -> Ticks] /\ target \in [All -> All]
      /\ notify \in [Tasks -> {"none", "waiting", "received"}] /\ parked \in [Tasks -> BOOLEAN]
      /\ previous \in [Tasks -> Ticks] /\ ahead \in [Tasks -> -Wrap .. Wrap] /\ msip \in BOOLEAN
  BY <1>1 DEF TypeOK
<1>4. At(t, "delay") /\ t \in All
  BY Constants DEF AddDelay
<1>5. /\ kernel.current = t /\ ~msip /\ pc[t] = "delay" /\ High(kernel)
      /\ t \in Ready(kernel) /\ t \notin Range(kernel.suspended) /\ t \in On(kernel)
      /\ ~InHand(t) /\ ~Unlisted(t) /\ ~parked[t] /\ t \in All
  BY <1>4, Caller DEF Locks
<1>6. kernel.depth = 1 /\ ticks[t] \in Ticks /\ ticks[t] # 0 /\ 0 \in Ticks
  BY <1>1, <1>5, <1>3, Constants DEF Depths, Periods
<1>7. /\ Moved(kernel, kernel', t) /\ Timely(kernel')
      /\ Ready(kernel') = Ready(kernel) \ {t} /\ On(kernel') = On(kernel) \cup {t}
      /\ t \notin Range(kernel'.suspended) /\ t \notin Range(kernel'.term)
      /\ kernel'.pending = kernel.pending /\ High(kernel')
  <2>1. kernel' = Block(kernel, ticks[t], FALSE)
    BY DEF AddDelay, Set
  <2>2. QED
    BY <1>1, <1>5, <1>6, <2>1, Sleeping
<1>8. /\ Sound(kernel') /\ Timely(kernel') /\ kernel' \in Kernels
      /\ kernel'.tick = kernel.tick /\ kernel'.pended = kernel.pended
      /\ kernel'.current = kernel.current /\ kernel'.depth = kernel.depth
      /\ \A x : x # t =>
            /\ x \in Ready(kernel') <=> x \in Ready(kernel)
            /\ x \in On(kernel') <=> x \in On(kernel)
            /\ x \in Range(kernel'.suspended) <=> x \in Range(kernel.suspended)
            /\ x \in Range(kernel'.term) <=> x \in Range(kernel.term)
            /\ x \in Range(kernel'.pending) <=> x \in Range(kernel.pending)
  BY <1>7, MovedOthers
<1>9. /\ pc' = [pc EXCEPT ![t] = "resume"]
      /\ ticks' = [ticks EXCEPT ![t] = 0]
      /\ UNCHANGED <<target, msip, notify, previous, ahead, parked>>
  BY DEF AddDelay, Enter, Goto, Keep, periods
<1>10. \A x \in All : pc'[x] = IF x = t THEN "resume" ELSE pc[x]
  BY <1>3, <1>9
<1>11. \A x \in All : ticks'[x] = IF x = t THEN 0 ELSE ticks[x]
  BY <1>3, <1>9
<1>12. TypeOK'
  BY <1>3, <1>8, <1>6, <1>9 DEF TypeOK, Labels, Sound
<1>13. Placed'
  BY <1>1, <1>5, <1>6, <1>7, <1>8, <1>10, <1>11, <1>9, <1>2 DEF Placed, InHand, Unlisted,
     Exists
<1>14. Depths'
  BY <1>1, <1>5, <1>6, <1>7, <1>8, <1>10, <1>11, <1>9, <1>2 DEF Depths, Locks
<1>15. Hands'
  BY <1>1, <1>5, <1>6, <1>7, <1>8, <1>10, <1>11, <1>9, <1>2 DEF Hands, Exists, Locks
<1>16. Runs'
  BY <1>1, <1>5, <1>6, <1>7, <1>8, <1>10, <1>11, <1>9, <1>2 DEF Runs
<1>17. Parks'
  BY <1>1, <1>5, <1>6, <1>7, <1>8, <1>10, <1>11, <1>9, <1>2 DEF Parks, Exists
<1>18. Waiting'
  BY <1>1, <1>5, <1>6, <1>7, <1>8, <1>10, <1>11, <1>9, <1>2 DEF Waiting
<1>19. Running'
  BY <1>1, <1>5, <1>6, <1>7, <1>8, <1>10, <1>11, <1>9, <1>2 DEF Running
<1>20. Notices'
  BY <1>1, <1>5, <1>6, <1>7, <1>8, <1>10, <1>11, <1>9, <1>2 DEF Notices, InHand, Locks
<1>21. Periods'
  BY <1>1, <1>5, <1>6, <1>7, <1>8, <1>10, <1>11, <1>9, <1>2 DEF Periods
<1>22. QED
  BY <1>8, <1>12, <1>13, <1>14, <1>15, <1>16, <1>17, <1>18, <1>19, <1>20, <1>21 DEF SchedInv

(* vTaskDelayUntil keeps the invariant.                                    *)
LEMMA DelayUntilStep ==
    ASSUME SchedInv, NEW t \in Tasks, DelayUntil(t)
    PROVE  SchedInv'
<1>1. /\ TypeOK /\ Sound(kernel) /\ Timely(kernel) /\ Placed /\ Depths /\ Hands
      /\ Runs /\ Parks /\ Waiting /\ Notices /\ Periods
  BY DEF SchedInv
<1>2. /\ Tasks \subseteq All /\ Idle \in All /\ Idle \notin Tasks
      /\ Range(kernel.pending) \subseteq Tasks /\ Range(kernel.term) \subseteq Tasks
  BY <1>1, Constants, ListsOfTasks DEF Sound
<1>3. /\ pc \in [All -> Labels] /\ ticks \in [All -> Ticks] /\ target \in [All -> All]
      /\ notify \in [Tasks -> {"none", "waiting", "received"}] /\ parked \in [Tasks -> BOOLEAN]
      /\ previous \in [Tasks -> Ticks] /\ ahead \in [Tasks -> -Wrap .. Wrap] /\ msip \in BOOLEAN
  BY <1>1 DEF TypeOK
<1>4. At(t, "app") /\ t \in All
  BY Constants DEF DelayUntil, MayBlock
<1>5. /\ kernel.current = t /\ ~msip /\ pc[t] = "app" /\ High(kernel)
      /\ t \in Ready(kernel) /\ t \notin Range(kernel.suspended) /\ t \in On(kernel)
      /\ ~InHand(t) /\ ~Unlisted(t) /\ ~parked[t] /\ t \in All
      /\ \A x \in All : pc[x] \notin Locks /\ ~InHand(x)
  BY <1>4, Caller DEF Locks
<1>6. kernel.depth = 0 /\ "until" \in Does[t]
  BY DEF DelayUntil, MayBlock
<1>7. PICK n \in Waits[t] \ {0} : ahead[t] + n <= Wrap /\ Enter(t, "until", n)
  BY DEF DelayUntil
<1>8. n \in Ticks /\ n \in 1 .. Wrap - 1 /\ ahead[t] + n <= Wrap
  BY <1>7, WaitsAreTicks, Constants
<1>9. /\ Like(kernel, kernel') /\ kernel'.current = kernel.current
      /\ kernel'.depth = 1 /\ kernel'.pended = kernel.pended
      /\ High(kernel')
  <2>1. kernel' = SuspendAll(kernel)
    BY DEF DelayUntil, Set
  <2>2. QED
    BY <1>1, <1>5, <1>6, <2>1, Locking
<1>10. /\ Sound(kernel') /\ Timely(kernel') /\ kernel' \in Kernels
       /\ Ready(kernel') = Ready(kernel) /\ On(kernel') = On(kernel)
       /\ Range(kernel'.suspended) = Range(kernel.suspended)
       /\ Range(kernel'.term) = Range(kernel.term)
       /\ Range(kernel'.pending) = Range(kernel.pending)
       /\ kernel'.tick = kernel.tick
  BY <1>1, <1>9 DEF Like, Sound
<1>11. /\ pc' = [pc EXCEPT ![t] = "until"] /\ ticks' = [ticks EXCEPT ![t] = n]
       /\ UNCHANGED <<target, msip, notify, previous, ahead, parked>>
  BY <1>7 DEF DelayUntil, Enter, Goto, Keep, periods
<1>12. \A x \in All : pc'[x] = IF x = t THEN "until" ELSE pc[x]
  BY <1>3, <1>11
<1>13. \A x \in All : ticks'[x] = IF x = t THEN n ELSE ticks[x]
  BY <1>3, <1>11
<1>14. TypeOK'
  BY <1>3, <1>10, <1>8, <1>11 DEF TypeOK, Labels, Sound
<1>15. Placed'
  BY <1>1, <1>5, <1>6, <1>8, <1>9, <1>10, <1>12, <1>13, <1>11, <1>2 DEF Placed, InHand,
     Unlisted, Exists
<1>16. Depths'
  BY <1>1, <1>5, <1>6, <1>8, <1>9, <1>10, <1>12, <1>13, <1>11, <1>2 DEF Depths, Locks
<1>17. Hands'
  BY <1>1, <1>5, <1>6, <1>8, <1>9, <1>10, <1>12, <1>13, <1>11, <1>2 DEF Hands, Exists, Locks
<1>18. Runs'
  BY <1>1, <1>5, <1>6, <1>8, <1>9, <1>10, <1>12, <1>13, <1>11, <1>2 DEF Runs
<1>19. Parks'
  BY <1>1, <1>5, <1>6, <1>8, <1>9, <1>10, <1>12, <1>13, <1>11, <1>2 DEF Parks, Exists
<1>20. Waiting'
  BY <1>1, <1>5, <1>6, <1>8, <1>9, <1>10, <1>12, <1>13, <1>11, <1>2 DEF Waiting
<1>21. Running'
  BY <1>1, <1>5, <1>6, <1>8, <1>9, <1>10, <1>12, <1>13, <1>11, <1>2 DEF Running
<1>22. Notices'
  BY <1>1, <1>5, <1>6, <1>8, <1>9, <1>10, <1>12, <1>13, <1>11, <1>2 DEF Notices, InHand,
     Locks
<1>23. Periods'
  BY <1>1, <1>5, <1>6, <1>8, <1>9, <1>10, <1>12, <1>13, <1>11, <1>2 DEF Periods
<1>24. QED
  BY <1>10, <1>14, <1>15, <1>16, <1>17, <1>18, <1>19, <1>20, <1>21, <1>22, <1>23 DEF
     SchedInv

(* vTaskSuspendAll by the application keeps the invariant.                 *)
LEMMA LockStep ==
    ASSUME SchedInv, NEW t \in Tasks, Lock(t)
    PROVE  SchedInv'
<1>1. /\ TypeOK /\ Sound(kernel) /\ Timely(kernel) /\ Placed /\ Depths /\ Hands
      /\ Runs /\ Parks /\ Waiting /\ Notices /\ Periods
  BY DEF SchedInv
<1>2. /\ Tasks \subseteq All /\ Idle \in All /\ Idle \notin Tasks
      /\ Range(kernel.pending) \subseteq Tasks /\ Range(kernel.term) \subseteq Tasks
  BY <1>1, Constants, ListsOfTasks DEF Sound
<1>3. /\ pc \in [All -> Labels] /\ ticks \in [All -> Ticks] /\ target \in [All -> All]
      /\ notify \in [Tasks -> {"none", "waiting", "received"}] /\ parked \in [Tasks -> BOOLEAN]
      /\ previous \in [Tasks -> Ticks] /\ ahead \in [Tasks -> -Wrap .. Wrap] /\ msip \in BOOLEAN
  BY <1>1 DEF TypeOK
<1>4. At(t, "app") /\ t \in All
  BY Constants DEF Lock, MayBlock
<1>5. /\ kernel.current = t /\ ~msip /\ pc[t] = "app" /\ High(kernel)
      /\ t \in Ready(kernel) /\ t \notin Range(kernel.suspended) /\ t \in On(kernel)
      /\ ~InHand(t) /\ ~Unlisted(t) /\ ~parked[t] /\ t \in All
      /\ \A x \in All : pc[x] \notin Locks /\ ~InHand(x)
  BY <1>4, Caller DEF Locks
<1>6. kernel.depth = 0
  BY DEF Lock, MayBlock
<1>7. /\ Like(kernel, kernel') /\ kernel'.current = kernel.current
      /\ kernel'.depth = 1 /\ kernel'.pended = kernel.pended
      /\ High(kernel')
  <2>1. kernel' = SuspendAll(kernel)
    BY DEF Lock, Set
  <2>2. QED
    BY <1>1, <1>5, <1>6, <2>1, Locking
<1>8. /\ Sound(kernel') /\ Timely(kernel') /\ kernel' \in Kernels
      /\ Ready(kernel') = Ready(kernel) /\ On(kernel') = On(kernel)
      /\ Range(kernel'.suspended) = Range(kernel.suspended)
      /\ Range(kernel'.term) = Range(kernel.term)
      /\ Range(kernel'.pending) = Range(kernel.pending)
      /\ kernel'.tick = kernel.tick
  BY <1>1, <1>7 DEF Like, Sound
<1>9. UNCHANGED <<pc, ticks, target, msip, notify, previous, ahead, parked>>
  BY DEF Lock, Stay, Keep, frame, periods
<1>10. TypeOK'
  BY <1>3, <1>8, <1>9 DEF TypeOK, Labels, Sound
<1>11. Placed'
  BY <1>1, <1>5, <1>6, <1>7, <1>8, <1>9, <1>2 DEF Placed, InHand, Unlisted, Exists
<1>12. Depths'
  BY <1>1, <1>5, <1>6, <1>7, <1>8, <1>9, <1>2 DEF Depths, Locks
<1>13. Hands'
  BY <1>1, <1>5, <1>6, <1>7, <1>8, <1>9, <1>2 DEF Hands, Exists, Locks
<1>14. Runs'
  BY <1>1, <1>5, <1>6, <1>7, <1>8, <1>9, <1>2 DEF Runs
<1>15. Parks'
  BY <1>1, <1>5, <1>6, <1>7, <1>8, <1>9, <1>2 DEF Parks, Exists
<1>16. Waiting'
  BY <1>1, <1>5, <1>6, <1>7, <1>8, <1>9, <1>2 DEF Waiting
<1>17. Running'
  BY <1>1, <1>5, <1>6, <1>7, <1>8, <1>9, <1>2 DEF Running
<1>18. Notices'
  BY <1>1, <1>5, <1>6, <1>7, <1>8, <1>9, <1>2 DEF Notices, InHand, Locks
<1>19. Periods'
  BY <1>1, <1>5, <1>6, <1>7, <1>8, <1>9, <1>2 DEF Periods
<1>20. QED
  BY <1>8, <1>10, <1>11, <1>12, <1>13, <1>14, <1>15, <1>16, <1>17, <1>18, <1>19 DEF SchedInv

(* vTaskSuspendAll by the idle task keeps the invariant.                   *)
LEMMA IdleSuspendsStep ==
    ASSUME SchedInv, IdleSuspends
    PROVE  SchedInv'
<1>1. /\ TypeOK /\ Sound(kernel) /\ Timely(kernel) /\ Placed /\ Depths /\ Hands
      /\ Runs /\ Parks /\ Waiting /\ Notices /\ Periods
  BY DEF SchedInv
<1>2. /\ Tasks \subseteq All /\ Idle \in All /\ Idle \notin Tasks
      /\ Range(kernel.pending) \subseteq Tasks /\ Range(kernel.term) \subseteq Tasks
  BY <1>1, Constants, ListsOfTasks DEF Sound
<1>3. /\ pc \in [All -> Labels] /\ ticks \in [All -> Ticks] /\ target \in [All -> All]
      /\ notify \in [Tasks -> {"none", "waiting", "received"}] /\ parked \in [Tasks -> BOOLEAN]
      /\ previous \in [Tasks -> Ticks] /\ ahead \in [Tasks -> -Wrap .. Wrap] /\ msip \in BOOLEAN
  BY <1>1 DEF TypeOK
<1>4. At(Idle, "app") /\ kernel.depth = 0
  BY DEF IdleSuspends
<1>5. /\ kernel.current = Idle /\ ~msip /\ pc[Idle] = "app" /\ High(kernel)
      /\ Idle \in Ready(kernel) /\ Idle \in On(kernel)
      /\ \A x \in All : pc[x] \notin Locks /\ ~InHand(x)
  BY <1>4, <1>2, Caller DEF Locks
<1>6. /\ Like(kernel, kernel') /\ kernel'.current = kernel.current
      /\ kernel'.depth = 1 /\ kernel'.pended = kernel.pended
      /\ High(kernel')
  <2>1. kernel' = SuspendAll(kernel)
    BY DEF IdleSuspends, Set
  <2>2. QED
    BY <1>1, <1>5, <1>4, <2>1, Locking
<1>7. /\ Sound(kernel') /\ Timely(kernel') /\ kernel' \in Kernels
      /\ Ready(kernel') = Ready(kernel) /\ On(kernel') = On(kernel)
      /\ Range(kernel'.suspended) = Range(kernel.suspended)
      /\ Range(kernel'.term) = Range(kernel.term)
      /\ Range(kernel'.pending) = Range(kernel.pending)
      /\ kernel'.tick = kernel.tick
  BY <1>1, <1>6 DEF Like, Sound
<1>8. /\ pc' = [pc EXCEPT ![Idle] = "sleep"]
      /\ UNCHANGED <<ticks, target, msip, notify, previous, ahead, parked>>
  BY DEF IdleSuspends, Goto, Keep, periods
<1>9. \A x \in All : pc'[x] = IF x = Idle THEN "sleep" ELSE pc[x]
  BY <1>3, <1>2, <1>8
<1>10. TypeOK'
  BY <1>3, <1>7, <1>2, <1>8 DEF TypeOK, Labels, Sound
<1>11. Placed'
  BY <1>1, <1>5, <1>4, <1>6, <1>7, <1>9, <1>8, <1>2 DEF Placed, InHand, Unlisted, Exists
<1>12. Depths'
  BY <1>1, <1>5, <1>4, <1>6, <1>7, <1>9, <1>8, <1>2 DEF Depths, Locks
<1>13. Hands'
  BY <1>1, <1>5, <1>4, <1>6, <1>7, <1>9, <1>8, <1>2 DEF Hands, Exists, Locks
<1>14. Runs'
  BY <1>1, <1>5, <1>4, <1>6, <1>7, <1>9, <1>8, <1>2 DEF Runs
<1>15. Parks'
  BY <1>1, <1>5, <1>4, <1>6, <1>7, <1>9, <1>8, <1>2 DEF Parks, Exists
<1>16. Waiting'
  BY <1>1, <1>5, <1>4, <1>6, <1>7, <1>9, <1>8, <1>2 DEF Waiting
<1>17. Running'
  BY <1>1, <1>5, <1>4, <1>6, <1>7, <1>9, <1>8, <1>2 DEF Running
<1>18. Notices'
  BY <1>1, <1>5, <1>4, <1>6, <1>7, <1>9, <1>8, <1>2 DEF Notices, InHand, Locks
<1>19. Periods'
  BY <1>1, <1>5, <1>4, <1>6, <1>7, <1>9, <1>8, <1>2 DEF Periods
<1>20. QED
  BY <1>7, <1>10, <1>11, <1>12, <1>13, <1>14, <1>15, <1>16, <1>17, <1>18, <1>19 DEF SchedInv

(* The tickless idling of the idle task keeps the invariant.               *)
LEMMA IdleSleepsStep ==
    ASSUME SchedInv, IdleSleeps
    PROVE  SchedInv'
<1>1. /\ TypeOK /\ Sound(kernel) /\ Timely(kernel) /\ Placed /\ Depths /\ Hands
      /\ Runs /\ Parks /\ Waiting /\ Notices /\ Periods
  BY DEF SchedInv
<1>2. /\ Tasks \subseteq All /\ Idle \in All /\ Idle \notin Tasks
      /\ Range(kernel.pending) \subseteq Tasks /\ Range(kernel.term) \subseteq Tasks
  BY <1>1, Constants, ListsOfTasks DEF Sound
<1>3. /\ pc \in [All -> Labels] /\ ticks \in [All -> Ticks] /\ target \in [All -> All]
      /\ notify \in [Tasks -> {"none", "waiting", "received"}] /\ parked \in [Tasks -> BOOLEAN]
      /\ previous \in [Tasks -> Ticks] /\ ahead \in [Tasks -> -Wrap .. Wrap] /\ msip \in BOOLEAN
  BY <1>1 DEF TypeOK
<1>4. At(Idle, "sleep")
  BY DEF IdleSleeps
<1>5. /\ kernel.current = Idle /\ ~msip /\ pc[Idle] = "sleep" /\ High(kernel)
      /\ Idle \in Ready(kernel) /\ Idle \in On(kernel)
  BY <1>4, <1>2, Caller DEF Locks
<1>6. kernel' = kernel /\ Sound(kernel') /\ Timely(kernel')
  BY <1>1 DEF IdleSleeps
<1>7. /\ pc' = [pc EXCEPT ![Idle] = "resumeall"]
      /\ UNCHANGED <<ticks, target, msip, notify, previous, ahead, parked>>
  BY DEF IdleSleeps, Goto, Keep, periods
<1>8. \A x \in All : pc'[x] = IF x = Idle THEN "resumeall" ELSE pc[x]
  BY <1>3, <1>2, <1>7
<1>9. TypeOK'
  BY <1>3, <1>6, <1>2, <1>7 DEF TypeOK, Labels, Sound
<1>10. Placed'
  BY <1>1, <1>5, <1>4, <1>6, <1>8, <1>7, <1>2 DEF Placed, InHand, Unlisted, Exists
<1>11. Depths'
  BY <1>1, <1>5, <1>4, <1>6, <1>8, <1>7, <1>2 DEF Depths, Locks
<1>12. Hands'
  BY <1>1, <1>5, <1>4, <1>6, <1>8, <1>7, <1>2 DEF Hands, Exists, Locks
<1>13. Runs'
  BY <1>1, <1>5, <1>4, <1>6, <1>8, <1>7, <1>2 DEF Runs
<1>14. Parks'
  BY <1>1, <1>5, <1>4, <1>6, <1>8, <1>7, <1>2 DEF Parks, Exists
<1>15. Waiting'
  BY <1>1, <1>5, <1>4, <1>6, <1>8, <1>7, <1>2 DEF Waiting
<1>16. Running'
  BY <1>1, <1>5, <1>4, <1>6, <1>8, <1>7, <1>2 DEF Running
<1>17. Notices'
  BY <1>1, <1>5, <1>4, <1>6, <1>8, <1>7, <1>2 DEF Notices, InHand, Locks
<1>18. Periods'
  BY <1>1, <1>5, <1>4, <1>6, <1>8, <1>7, <1>2 DEF Periods
<1>19. QED
  BY <1>6, <1>9, <1>10, <1>11, <1>12, <1>13, <1>14, <1>15, <1>16, <1>17, <1>18 DEF SchedInv

(* A yield keeps the invariant.                                            *)
LEMMA YieldStep ==
    ASSUME SchedInv, NEW t \in Tasks, Yield(t)
    PROVE  SchedInv'
<1>1. /\ TypeOK /\ Sound(kernel) /\ Timely(kernel) /\ Placed /\ Depths /\ Hands
      /\ Runs /\ Parks /\ Waiting /\ Notices /\ Periods
  BY DEF SchedInv
<1>2. /\ Tasks \subseteq All /\ Idle \in All /\ Idle \notin Tasks
      /\ Range(kernel.pending) \subseteq Tasks /\ Range(kernel.term) \subseteq Tasks
  BY <1>1, Constants, ListsOfTasks DEF Sound
<1>3. /\ pc \in [All -> Labels] /\ ticks \in [All -> Ticks] /\ target \in [All -> All]
      /\ notify \in [Tasks -> {"none", "waiting", "received"}] /\ parked \in [Tasks -> BOOLEAN]
      /\ previous \in [Tasks -> Ticks] /\ ahead \in [Tasks -> -Wrap .. Wrap] /\ msip \in BOOLEAN
  BY <1>1 DEF TypeOK
<1>4. At(t, "yield") /\ t \in All
  BY Constants DEF Yield
<1>5. /\ kernel.current = t /\ ~msip /\ pc[t] = "yield" /\ High(kernel)
      /\ kernel.depth = 0
      /\ \A x \in All : pc[x] \notin Locks /\ ~InHand(x)
  BY <1>1, <1>4, Caller DEF Locks, Depths
<1>6. kernel' = kernel /\ Sound(kernel') /\ Timely(kernel')
  BY <1>1 DEF Yield
<1>7. /\ pc' = [pc EXCEPT ![t] = "app"] /\ msip' = TRUE
      /\ UNCHANGED <<ticks, target, notify, previous, ahead, parked>>
  BY DEF Yield, YieldIf, Goto, Keep, periods
<1>8. \A x \in All : pc'[x] = IF x = t THEN "app" ELSE pc[x]
  BY <1>3, <1>7
<1>9. TypeOK'
  BY <1>3, <1>6, <1>7 DEF TypeOK, Labels, Sound
<1>10. Placed'
  BY <1>1, <1>5, <1>4, <1>6, <1>8, <1>7, <1>2 DEF Placed, InHand, Unlisted, Exists
<1>11. Depths'
  BY <1>1, <1>5, <1>4, <1>6, <1>8, <1>7, <1>2 DEF Depths, Locks
<1>12. Hands'
  BY <1>1, <1>5, <1>4, <1>6, <1>8, <1>7, <1>2 DEF Hands, Exists, Locks
<1>13. Runs'
  BY <1>1, <1>5, <1>4, <1>6, <1>8, <1>7, <1>2 DEF Runs
<1>14. Parks'
  BY <1>1, <1>5, <1>4, <1>6, <1>8, <1>7, <1>2 DEF Parks, Exists
<1>15. Waiting'
  BY <1>1, <1>5, <1>4, <1>6, <1>8, <1>7, <1>2 DEF Waiting
<1>16. Running'
  BY <1>1, <1>5, <1>4, <1>6, <1>8, <1>7, <1>2 DEF Running
<1>17. Notices'
  BY <1>1, <1>5, <1>4, <1>6, <1>8, <1>7, <1>2 DEF Notices, InHand, Locks
<1>18. Periods'
  BY <1>1, <1>5, <1>4, <1>6, <1>8, <1>7, <1>2 DEF Periods
<1>19. QED
  BY <1>6, <1>9, <1>10, <1>11, <1>12, <1>13, <1>14, <1>15, <1>16, <1>17, <1>18 DEF SchedInv

(* The blocking of vTaskDelayUntil keeps the invariant.                    *)
LEMMA AddDelayUntilStep ==
    ASSUME SchedInv, NEW t \in Tasks, AddDelayUntil(t)
    PROVE  SchedInv'
<1>1. /\ TypeOK /\ Sound(kernel) /\ Timely(kernel) /\ Placed /\ Depths /\ Hands
      /\ Runs /\ Parks /\ Waiting /\ Notices /\ Periods
  BY DEF SchedInv
<1>2. /\ Tasks \subseteq All /\ Idle \in All /\ Idle \notin Tasks
      /\ Range(kernel.pending) \subseteq Tasks /\ Range(kernel.term) \subseteq Tasks
  BY <1>1, Constants, ListsOfTasks DEF Sound
<1>3. /\ pc \in [All -> Labels] /\ ticks \in [All -> Ticks] /\ target \in [All -> All]
      /\ notify \in [Tasks -> {"none", "waiting", "received"}] /\ parked \in [Tasks -> BOOLEAN]
      /\ previous \in [Tasks -> Ticks] /\ ahead \in [Tasks -> -Wrap .. Wrap] /\ msip \in BOOLEAN
  BY <1>1 DEF TypeOK
<1>4. At(t, "until") /\ t \in All
  BY Constants DEF AddDelayUntil
<1>5. /\ kernel.current = t /\ ~msip /\ pc[t] = "until" /\ High(kernel)
      /\ t \in Ready(kernel) /\ t \notin Range(kernel.suspended) /\ t \in On(kernel)
      /\ ~InHand(t) /\ ~Unlisted(t) /\ ~parked[t] /\ t \in All
  BY <1>4, Caller DEF Locks
<1> DEFINE at == (previous[t] + ticks[t]) % Wrap
           m == (at - kernel.tick) % Wrap
<1>6. /\ kernel.depth = 1 /\ ticks[t] \in 1 .. Wrap - 1 /\ 0 \in Ticks
      /\ ahead[t] + ticks[t] <= Wrap /\ "until" \in Does[t]
  BY <1>1, <1>5, Constants DEF Depths, Periods
<1>7. /\ Wrap \in Nat \ {0, 1} /\ kernel.tick \in 0 .. Wrap - 1 /\ previous[t] \in 0 .. Wrap - 1
      /\ at \in 0 .. Wrap - 1 /\ m \in 0 .. Wrap - 1
  <2>1. Wrap \in Nat \ {0, 1} /\ kernel.tick \in 0 .. Wrap - 1 /\ previous[t] \in 0 .. Wrap - 1
    BY <1>1, <1>3, KernelTypes, Constants DEF Sound
  <2>2. QED
    BY <1>6, <2>1
<1>8. /\ pc' = [pc EXCEPT ![t] = "resume"]
      /\ ticks' = [ticks EXCEPT ![t] = 0]
      /\ previous' = [previous EXCEPT ![t] = at]
      /\ ahead' = [ahead EXCEPT ![t] = IF @ = -Wrap THEN @ ELSE @ + ticks[t]]
      /\ UNCHANGED <<target, msip, notify, parked>>
  BY DEF AddDelayUntil, Enter, Goto
<1>9. \A x \in All : pc'[x] = IF x = t THEN "resume" ELSE pc[x]
  BY <1>3, <1>5, <1>8
<1>10. \A x \in All : ticks'[x] = IF x = t THEN 0 ELSE ticks[x]
  BY <1>3, <1>5, <1>8
<1>11. \A x \in Tasks : /\ previous'[x] = IF x = t THEN at ELSE previous[x]
                     /\ ahead'[x] = IF x = t /\ ahead[t] # -Wrap THEN ahead[t] + ticks[t] ELSE ahead[x]
  BY <1>3, <1>8
<1>12. /\ \A x \in Tasks : "until" \in Does[x] /\ ahead'[x] > -Wrap =>
             previous'[x] = (kernel.tick + ahead'[x]) % Wrap
       /\ ahead' \in [Tasks -> -Wrap .. Wrap] /\ previous' \in [Tasks -> Ticks]
       /\ \A x \in Tasks : x # t => ahead'[x] = ahead[x]
  <2>1. ahead[t] \in -Wrap .. Wrap /\ (ahead[t] > -Wrap => previous[t] = (kernel.tick + ahead[t]) % Wrap)
    BY <1>1, <1>3, <1>6 DEF Periods
  <2>2. ahead[t] # -Wrap => at = (kernel.tick + (ahead[t] + ticks[t])) % Wrap
    <3> DEFINE x == kernel.tick + ahead[t]
           y == ticks[t]
    <3>1. x \in Int /\ y \in Int /\ x + y = kernel.tick + (ahead[t] + ticks[t])
      BY <1>7, <1>6, <2>1
    <3>2. ahead[t] # -Wrap => at = ((x % Wrap) + y) % Wrap
      BY <2>1, <1>7, <1>6
    <3> HIDE DEF x, y, at
    <3>3. ((x % Wrap) + y) % Wrap = (x + y) % Wrap
      BY <3>1, WrapSum
    <3>4. QED
      BY <3>1, <3>2, <3>3
  <2> HIDE DEF at, m
  <2>3. ahead' \in [Tasks -> -Wrap .. Wrap]
    <3>1. ahead[t] # -Wrap => ahead[t] + ticks[t] \in -Wrap .. Wrap
      BY <2>1, <1>7, <1>6
    <3>2. ahead' = [ahead EXCEPT ![t] = IF ahead[t] = -Wrap THEN ahead[t] ELSE ahead[t] + ticks[t]]
      BY <1>8
    <3>3. QED
      BY <1>3, <3>2, <3>1, <2>1
  <2>4. previous' \in [Tasks -> Ticks]
    BY <1>3, <1>8, <1>7, Constants
  <2>5. \A x \in Tasks : "until" \in Does[x] /\ ahead'[x] > -Wrap =>
            previous'[x] = (kernel.tick + ahead'[x]) % Wrap
    <3>1. ASSUME NEW x \in Tasks, "until" \in Does[x], ahead'[x] > -Wrap
          PROVE  previous'[x] = (kernel.tick + ahead'[x]) % Wrap
      <4>1. CASE x = t
        <5>1. ahead[t] # -Wrap
          BY <3>1, <4>1, <1>11, <1>7
        <5>2. QED
          BY <4>1, <2>2, <5>1, <1>11
      <4>2. CASE x # t
        BY <1>1, <3>1, <4>2, <1>11 DEF Periods
      <4>3. QED
        BY <4>1, <4>2
    <3>2. QED
      BY <3>1
  <2>6. QED
    BY <2>3, <2>4, <2>5, <1>11
<1>13. ShouldDelay(kernel.tick, previous[t], at) => m # 0
  <2>1. at \in Ticks /\ previous[t] \in Ticks
    BY <1>7, Constants
  <2> HIDE DEF at
  <2>2. QED
    BY <2>1, UntilTicks, Zenon
<1>14. CASE ShouldDelay(kernel.tick, previous[t], at)
  <2>1. m \in Ticks /\ m # 0 /\ FALSE \in BOOLEAN
    BY <1>7, <1>13, <1>14, Constants
  <2>2. kernel' = Block(kernel, m, FALSE)
    BY <1>14 DEF AddDelayUntil, Set
  <2> HIDE DEF at, m
  <2>3. /\ Moved(kernel, kernel', t) /\ Timely(kernel')
        /\ Ready(kernel') = Ready(kernel) \ {t} /\ On(kernel') = On(kernel) \cup {t}
        /\ t \notin Range(kernel'.suspended) /\ t \notin Range(kernel'.term)
        /\ kernel'.pending = kernel.pending /\ High(kernel')
    BY <1>1, <1>5, <2>1, <2>2, Sleeping
  <2>4. /\ Sound(kernel') /\ Timely(kernel') /\ kernel' \in Kernels
        /\ kernel'.tick = kernel.tick /\ kernel'.pended = kernel.pended
        /\ kernel'.current = kernel.current /\ kernel'.depth = kernel.depth
        /\ \A x : x # t =>
              /\ x \in Ready(kernel') <=> x \in Ready(kernel)
              /\ x \in On(kernel') <=> x \in On(kernel)
              /\ x \in Range(kernel'.suspended) <=> x \in Range(kernel.suspended)
              /\ x \in Range(kernel'.term) <=> x \in Range(kernel.term)
              /\ x \in Range(kernel'.pending) <=> x \in Range(kernel.pending)
    BY <2>3, MovedOthers
  <2>5. TypeOK'
    BY <1>3, <1>2, <1>5, <2>4, <1>6, <1>12, <1>8 DEF TypeOK, Labels
  <2>6. Placed'
    BY <1>1, <1>5, <1>6, <1>12, <2>3, <2>4, <1>9, <1>10, <1>8, <1>2 DEF Placed, InHand,
       Unlisted, Exists
  <2>7. Depths'
    BY <1>1, <1>5, <1>6, <1>12, <2>3, <2>4, <1>9, <1>10, <1>8, <1>2 DEF Depths, Locks
  <2>8. Hands'
    BY <1>1, <1>5, <1>6, <1>12, <2>3, <2>4, <1>9, <1>10, <1>8, <1>2 DEF Hands, Exists, Locks
  <2>9. Runs'
    BY <1>1, <1>5, <1>6, <1>12, <2>3, <2>4, <1>9, <1>10, <1>8, <1>2 DEF Runs
  <2>10. Parks'
    BY <1>1, <1>5, <1>6, <1>12, <2>3, <2>4, <1>9, <1>10, <1>8, <1>2 DEF Parks, Exists
  <2>11. Waiting'
    BY <1>1, <1>5, <1>6, <1>12, <2>3, <2>4, <1>9, <1>10, <1>8, <1>2 DEF Waiting
  <2>12. Running'
    BY <1>1, <1>5, <1>6, <1>12, <2>3, <2>4, <1>9, <1>10, <1>8, <1>2 DEF Running
  <2>13. Notices'
    BY <1>1, <1>5, <1>6, <1>12, <2>3, <2>4, <1>9, <1>10, <1>8, <1>2 DEF Notices, InHand,
       Locks
  <2>14. Periods'
    BY <1>1, <1>5, <1>6, <1>12, <2>3, <2>4, <1>9, <1>10, <1>8, <1>2 DEF Periods
  <2>15. QED
    BY <2>4, <2>5, <2>6, <2>7, <2>8, <2>9, <2>10, <2>11, <2>12, <2>13, <2>14 DEF SchedInv
<1>15. CASE ~ShouldDelay(kernel.tick, previous[t], at)
  <2>1. kernel' = kernel /\ Sound(kernel') /\ Timely(kernel') /\ kernel' \in Kernels
    BY <1>1, <1>15 DEF AddDelayUntil, Set, Sound
  <2> HIDE DEF at, m
  <2>2. TypeOK'
    BY <1>3, <1>2, <1>5, <2>1, <1>6, <1>12, <1>8 DEF TypeOK, Labels
  <2>3. Placed'
    BY <1>1, <1>5, <1>6, <1>12, <2>1, <1>9, <1>10, <1>8, <1>2 DEF Placed, InHand, Unlisted,
       Exists
  <2>4. Depths'
    BY <1>1, <1>5, <1>6, <1>12, <2>1, <1>9, <1>10, <1>8, <1>2 DEF Depths, Locks
  <2>5. Hands'
    BY <1>1, <1>5, <1>6, <1>12, <2>1, <1>9, <1>10, <1>8, <1>2 DEF Hands, Exists, Locks
  <2>6. Runs'
    BY <1>1, <1>5, <1>6, <1>12, <2>1, <1>9, <1>10, <1>8, <1>2 DEF Runs
  <2>7. Parks'
    BY <1>1, <1>5, <1>6, <1>12, <2>1, <1>9, <1>10, <1>8, <1>2 DEF Parks, Exists
  <2>8. Waiting'
    BY <1>1, <1>5, <1>6, <1>12, <2>1, <1>9, <1>10, <1>8, <1>2 DEF Waiting
  <2>9. Running'
    BY <1>1, <1>5, <1>6, <1>12, <2>1, <1>9, <1>10, <1>8, <1>2 DEF Running
  <2>10. Notices'
    BY <1>1, <1>5, <1>6, <1>12, <2>1, <1>9, <1>10, <1>8, <1>2 DEF Notices, InHand, Locks
  <2>11. Periods'
    BY <1>1, <1>5, <1>6, <1>12, <2>1, <1>9, <1>10, <1>8, <1>2 DEF Periods
  <2>12. QED
    BY <2>1, <2>2, <2>3, <2>4, <2>5, <2>6, <2>7, <2>8, <2>9, <2>10, <2>11 DEF SchedInv
<1>16. QED
  BY <1>14, <1>15

(* xTaskResumeAll at the end of a call keeps the invariant.                *)
LEMMA ResumeStep ==
    ASSUME SchedInv, NEW t \in All, Resume(t)
    PROVE  SchedInv'
<1>1. /\ TypeOK /\ Sound(kernel) /\ Timely(kernel) /\ Placed /\ Depths /\ Hands
      /\ Runs /\ Parks /\ Waiting /\ Notices /\ Periods
  BY DEF SchedInv
<1>2. /\ Tasks \subseteq All /\ Idle \in All /\ Idle \notin Tasks
      /\ Range(kernel.pending) \subseteq Tasks /\ Range(kernel.term) \subseteq Tasks
  BY <1>1, Constants, ListsOfTasks DEF Sound
<1>3. /\ pc \in [All -> Labels] /\ ticks \in [All -> Ticks] /\ target \in [All -> All]
      /\ notify \in [Tasks -> {"none", "waiting", "received"}] /\ parked \in [Tasks -> BOOLEAN]
      /\ previous \in [Tasks -> Ticks] /\ ahead \in [Tasks -> -Wrap .. Wrap] /\ msip \in BOOLEAN
  BY <1>1 DEF TypeOK
<1>4. At(t, "resumeall")
  BY DEF Resume
<1>5. /\ kernel.current = t /\ ~msip /\ pc[t] = "resumeall" /\ High(kernel)
      /\ t \in Ready(kernel) /\ t \in On(kernel) /\ kernel.depth \in 1 .. 2
      /\ \A x \in All : ~InHand(x)
  <2>1. /\ kernel.current = t /\ ~msip /\ pc[t] = "resumeall" /\ High(kernel)
        /\ t \in Ready(kernel) /\ t \in On(kernel)
    BY <1>4, Caller
  <2>2. kernel.depth \in 1 .. 2
    BY <1>1, <2>1 DEF Depths
  <2>3. \A x \in All : ~InHand(x)
    BY <1>1, <1>2, <2>1 DEF Depths, InHand, Locks
  <2>4. QED
    BY <2>1, <2>2, <2>3
<1>6. Resumes(t) /\ previous' = previous
  BY DEF Resume, Resumes, Keep, periods
<1>7. LET n == IF kernel.depth = 1 THEN kernel.pended ELSE 0 IN
      /\ After(kernel, kernel') /\ n \in Nat /\ Drift(n)
      /\ On(kernel') = On(kernel)
      /\ Range(kernel'.term) = Range(kernel.term)
      /\ Range(kernel'.pending) \subseteq Range(kernel.pending)
      /\ kernel'.depth = 0 => Range(kernel'.pending) = {} /\ kernel'.pended = 0
      /\ \A u \in Tasks : parked[u] => u \in Range(kernel'.suspended)
      /\ \A u \in Tasks : u \in Range(kernel.pending) =>
            u \in Ready(kernel') \/ u \in Range(kernel'.pending)
      /\ msip' = (msip \/ (kernel'.depth = 0 /\ kernel'.yield))
      /\ kernel' = ResumeAll(kernel)
  BY <1>5, <1>6, Resumption
<1>8. /\ Sound(kernel') /\ Timely(kernel') /\ kernel' \in Kernels
      /\ kernel'.current = kernel.current /\ kernel'.depth = kernel.depth - 1
      /\ Ready(kernel) \subseteq Ready(kernel') /\ On(kernel') = On(kernel)
      /\ Range(kernel'.term) = Range(kernel.term)
      /\ Range(kernel'.pending) \subseteq Range(kernel.pending)
      /\ kernel'.depth = 0 => Range(kernel'.pending) = {} /\ kernel'.pended = 0
      /\ \A x \in Tasks : parked[x] => x \in Range(kernel'.suspended)
      /\ \A x \in Tasks : x \in Range(kernel.pending) =>
            x \in Ready(kernel') \/ x \in Range(kernel'.pending)
      /\ msip' = (msip \/ (kernel'.depth = 0 /\ kernel'.yield))
      /\ High(kernel) => High(kernel')
  BY <1>7 DEF After, Sound
<1>9. /\ ahead' \in [Tasks -> -Wrap .. Wrap]
      /\ \A x \in Tasks : "until" \in Does[x] /\ ahead'[x] > -Wrap =>
            previous'[x] = (kernel'.tick + ahead'[x]) % Wrap
      /\ \A x \in Tasks : "until" \in Does[x] =>
            \A m \in 1 .. Wrap - 1 : ahead[x] + m <= Wrap => ahead'[x] + m <= Wrap
  BY <1>1, <1>6, <1>7, Drifting DEF After
<1>10. /\ pc' = [pc EXCEPT ![t] = "app"]
       /\ UNCHANGED <<ticks, target, notify, previous, parked>>
  BY DEF Resume, Resumes, Goto
<1>11. \A x \in All : pc'[x] = IF x = t THEN "app" ELSE pc[x]
  BY <1>3, <1>10
<1>12. TypeOK'
  BY <1>3, <1>2, <1>5, <1>8, <1>9, <1>11, <1>10 DEF TypeOK, Labels
<1>13. Placed'
  BY <1>1, <1>5, <1>8, <1>9, <1>11, <1>10, <1>2 DEF Placed, InHand, Unlisted, Exists
<1>14. Depths'
  BY <1>1, <1>5, <1>8, <1>9, <1>11, <1>10, <1>2 DEF Depths, Locks
<1>15. Hands'
  BY <1>1, <1>5, <1>8, <1>9, <1>11, <1>10, <1>2 DEF Hands, Exists, Locks
<1>16. Runs'
  BY <1>1, <1>5, <1>8, <1>9, <1>11, <1>10, <1>2 DEF Runs
<1>17. Parks'
  BY <1>1, <1>5, <1>8, <1>9, <1>11, <1>10, <1>2 DEF Parks, Exists
<1>18. Waiting'
  BY <1>1, <1>5, <1>8, <1>9, <1>11, <1>10, <1>2 DEF Waiting
<1>19. Running'
  BY <1>1, <1>5, <1>8, <1>9, <1>11, <1>10, <1>2 DEF Running
<1>20. Notices'
  BY <1>1, <1>5, <1>8, <1>9, <1>11, <1>10, <1>2 DEF Notices, InHand, Locks
<1>21. Periods'
  BY <1>1, <1>2, <1>5, <1>8, <1>9, <1>11, <1>10 DEF Periods
<1>22. QED
  BY <1>8, <1>12, <1>13, <1>14, <1>15, <1>16, <1>17, <1>18, <1>19, <1>20, <1>21 DEF SchedInv

(* xTaskResumeAll by the application keeps the invariant.                  *)
LEMMA UnlockStep ==
    ASSUME SchedInv, NEW t \in Tasks, Unlock(t)
    PROVE  SchedInv'
<1>1. /\ TypeOK /\ Sound(kernel) /\ Timely(kernel) /\ Placed /\ Depths /\ Hands
      /\ Runs /\ Parks /\ Waiting /\ Notices /\ Periods
  BY DEF SchedInv
<1>2. /\ Tasks \subseteq All /\ Idle \in All /\ Idle \notin Tasks
      /\ Range(kernel.pending) \subseteq Tasks /\ Range(kernel.term) \subseteq Tasks
  BY <1>1, Constants, ListsOfTasks DEF Sound
<1>3. /\ pc \in [All -> Labels] /\ ticks \in [All -> Ticks] /\ target \in [All -> All]
      /\ notify \in [Tasks -> {"none", "waiting", "received"}] /\ parked \in [Tasks -> BOOLEAN]
      /\ previous \in [Tasks -> Ticks] /\ ahead \in [Tasks -> -Wrap .. Wrap] /\ msip \in BOOLEAN
  BY <1>1 DEF TypeOK
<1>4. At(t, "app") /\ t \in All
  BY Constants DEF Unlock, MayUnlock
<1>5. /\ kernel.current = t /\ ~msip /\ pc[t] = "app" /\ High(kernel)
      /\ t \in Ready(kernel) /\ t \in On(kernel) /\ t \in All
      /\ kernel.depth = 1 /\ kernel.depth \in 1 .. 2
      /\ \A x \in All : pc[x] \notin Locks /\ ~InHand(x)
  BY <1>4, Caller DEF Unlock, MayUnlock, Locks
<1>6. Resumes(t) /\ previous' = previous
  BY DEF Unlock, Resumes, Keep, periods
<1>7. LET n == IF kernel.depth = 1 THEN kernel.pended ELSE 0 IN
      /\ After(kernel, kernel') /\ n \in Nat /\ Drift(n)
      /\ On(kernel') = On(kernel)
      /\ Range(kernel'.term) = Range(kernel.term)
      /\ Range(kernel'.pending) \subseteq Range(kernel.pending)
      /\ kernel'.depth = 0 => Range(kernel'.pending) = {} /\ kernel'.pended = 0
      /\ \A u \in Tasks : parked[u] => u \in Range(kernel'.suspended)
      /\ \A u \in Tasks : u \in Range(kernel.pending) =>
            u \in Ready(kernel') \/ u \in Range(kernel'.pending)
      /\ msip' = (msip \/ (kernel'.depth = 0 /\ kernel'.yield))
      /\ kernel' = ResumeAll(kernel)
  BY <1>5, <1>6, Resumption
<1>8. /\ Sound(kernel') /\ Timely(kernel') /\ kernel' \in Kernels
      /\ kernel'.current = kernel.current /\ kernel'.depth = kernel.depth - 1
      /\ Ready(kernel) \subseteq Ready(kernel') /\ On(kernel') = On(kernel)
      /\ Range(kernel'.term) = Range(kernel.term)
      /\ Range(kernel'.pending) \subseteq Range(kernel.pending)
      /\ kernel'.depth = 0 => Range(kernel'.pending) = {} /\ kernel'.pended = 0
      /\ \A x \in Tasks : parked[x] => x \in Range(kernel'.suspended)
      /\ \A x \in Tasks : x \in Range(kernel.pending) =>
            x \in Ready(kernel') \/ x \in Range(kernel'.pending)
      /\ msip' = (msip \/ (kernel'.depth = 0 /\ kernel'.yield))
      /\ High(kernel) => High(kernel')
  BY <1>7 DEF After, Sound
<1>9. /\ ahead' \in [Tasks -> -Wrap .. Wrap]
      /\ \A x \in Tasks : "until" \in Does[x] /\ ahead'[x] > -Wrap =>
            previous'[x] = (kernel'.tick + ahead'[x]) % Wrap
      /\ \A x \in Tasks : "until" \in Does[x] =>
            \A m \in 1 .. Wrap - 1 : ahead[x] + m <= Wrap => ahead'[x] + m <= Wrap
  BY <1>1, <1>6, <1>7, Drifting DEF After
<1>10. UNCHANGED <<pc, ticks, target, notify, previous, parked>>
  BY DEF Unlock, Resumes, Stay, frame
<1>11. TypeOK'
  BY <1>3, <1>2, <1>5, <1>8, <1>9, <1>10 DEF TypeOK, Labels
<1>12. Placed'
  BY <1>1, <1>5, <1>8, <1>9, <1>10, <1>2 DEF Placed, InHand, Unlisted, Exists
<1>13. Depths'
  BY <1>1, <1>5, <1>8, <1>9, <1>10, <1>2 DEF Depths, Locks
<1>14. Hands'
  BY <1>1, <1>5, <1>8, <1>9, <1>10, <1>2 DEF Hands, Exists, Locks
<1>15. Runs'
  BY <1>1, <1>5, <1>8, <1>9, <1>10, <1>2 DEF Runs
<1>16. Parks'
  BY <1>1, <1>5, <1>8, <1>9, <1>10, <1>2 DEF Parks, Exists
<1>17. Waiting'
  BY <1>1, <1>5, <1>8, <1>9, <1>10, <1>2 DEF Waiting
<1>18. Running'
  BY <1>1, <1>5, <1>8, <1>9, <1>10, <1>2 DEF Running
<1>19. Notices'
  BY <1>1, <1>5, <1>8, <1>9, <1>10, <1>2 DEF Notices, InHand, Locks
<1>20. Periods'
  BY <1>1, <1>2, <1>5, <1>8, <1>9, <1>10 DEF Periods
<1>21. QED
  BY <1>8, <1>11, <1>12, <1>13, <1>14, <1>15, <1>16, <1>17, <1>18, <1>19, <1>20 DEF SchedInv

(* xTaskResumeAll at the end of a delay keeps the invariant.               *)
LEMMA ResumeAndYieldStep ==
    ASSUME SchedInv, NEW t \in Tasks, ResumeAndYield(t)
    PROVE  SchedInv'
<1>1. /\ TypeOK /\ Sound(kernel) /\ Timely(kernel) /\ Placed /\ Depths /\ Hands
      /\ Runs /\ Parks /\ Waiting /\ Notices /\ Periods
  BY DEF SchedInv
<1>2. /\ Tasks \subseteq All /\ Idle \in All /\ Idle \notin Tasks
      /\ Range(kernel.pending) \subseteq Tasks /\ Range(kernel.term) \subseteq Tasks
  BY <1>1, Constants, ListsOfTasks DEF Sound
<1>3. /\ pc \in [All -> Labels] /\ ticks \in [All -> Ticks] /\ target \in [All -> All]
      /\ notify \in [Tasks -> {"none", "waiting", "received"}] /\ parked \in [Tasks -> BOOLEAN]
      /\ previous \in [Tasks -> Ticks] /\ ahead \in [Tasks -> -Wrap .. Wrap] /\ msip \in BOOLEAN
  BY <1>1 DEF TypeOK
<1>4. At(t, "resume") /\ t \in All
  BY Constants DEF ResumeAndYield
<1>5. /\ kernel.current = t /\ ~msip /\ pc[t] = "resume" /\ High(kernel) /\ t \in All
      /\ kernel.depth = 1 /\ kernel.depth \in 1 .. 2
      /\ \A x \in All : ~InHand(x)
  <2>1. /\ kernel.current = t /\ ~msip /\ pc[t] = "resume" /\ High(kernel)
    BY <1>4, Caller
  <2>2. kernel.depth = 1
    BY <1>1, <2>1 DEF Depths
  <2>3. \A x \in All : ~InHand(x)
    BY <1>1, <1>2, <2>1 DEF Depths, InHand, Locks
  <2>4. QED
    BY <1>4, <2>1, <2>2, <2>3
<1>6. Resumes(t) /\ previous' = previous
  BY DEF ResumeAndYield, Resumes, Keep, periods
<1>7. LET n == IF kernel.depth = 1 THEN kernel.pended ELSE 0 IN
      /\ After(kernel, kernel') /\ n \in Nat /\ Drift(n)
      /\ On(kernel') = On(kernel)
      /\ Range(kernel'.term) = Range(kernel.term)
      /\ Range(kernel'.pending) \subseteq Range(kernel.pending)
      /\ kernel'.depth = 0 => Range(kernel'.pending) = {} /\ kernel'.pended = 0
      /\ \A u \in Tasks : parked[u] => u \in Range(kernel'.suspended)
      /\ \A u \in Tasks : u \in Range(kernel.pending) =>
            u \in Ready(kernel') \/ u \in Range(kernel'.pending)
      /\ msip' = (msip \/ (kernel'.depth = 0 /\ kernel'.yield))
      /\ kernel' = ResumeAll(kernel)
  BY <1>5, <1>6, Resumption
<1>8. /\ Sound(kernel') /\ Timely(kernel') /\ kernel' \in Kernels
      /\ kernel'.current = kernel.current /\ kernel'.depth = kernel.depth - 1
      /\ Ready(kernel) \subseteq Ready(kernel') /\ On(kernel') = On(kernel)
      /\ Range(kernel'.term) = Range(kernel.term)
      /\ Range(kernel'.pending) \subseteq Range(kernel.pending)
      /\ kernel'.depth = 0 => Range(kernel'.pending) = {} /\ kernel'.pended = 0
      /\ \A x \in Tasks : parked[x] => x \in Range(kernel'.suspended)
      /\ \A x \in Tasks : x \in Range(kernel.pending) =>
            x \in Ready(kernel') \/ x \in Range(kernel'.pending)
      /\ msip' = (msip \/ (kernel'.depth = 0 /\ kernel'.yield))
      /\ High(kernel) => High(kernel')
  BY <1>7 DEF After, Sound
<1>9. /\ ahead' \in [Tasks -> -Wrap .. Wrap]
      /\ \A x \in Tasks : "until" \in Does[x] /\ ahead'[x] > -Wrap =>
            previous'[x] = (kernel'.tick + ahead'[x]) % Wrap
      /\ \A x \in Tasks : "until" \in Does[x] =>
            \A m \in 1 .. Wrap - 1 : ahead[x] + m <= Wrap => ahead'[x] + m <= Wrap
  BY <1>1, <1>6, <1>7, Drifting DEF After
<1> DEFINE l == IF kernel'.yield THEN "app" ELSE "yield"
<1>10. /\ pc' = [pc EXCEPT ![t] = l]
       /\ UNCHANGED <<ticks, target, notify, previous, parked>>
  BY <1>7 DEF ResumeAndYield, Resumes, Goto
<1>11. /\ \A x \in All : pc'[x] = IF x = t THEN l ELSE pc[x]
       /\ l \in {"app", "yield"} /\ (l = "app" => kernel'.yield)
  BY <1>3, <1>10, <1>4
<1> HIDE DEF l
<1>12. kernel'.depth = 0
  BY <1>5, <1>8
<1>13. l = "app" => msip'
  BY <1>12, <1>8, <1>11, Zenon
<1>14. kernel'.depth = 0 /\ (l = "app" => msip')
  BY <1>12, <1>13
<1>15. TypeOK'
  BY <1>3, <1>2, <1>5, <1>8, <1>9, <1>11, <1>10 DEF TypeOK, Labels
<1>16. Placed'
  BY <1>1, <1>5, <1>8, <1>9, <1>11, <1>14, <1>10, <1>2 DEF Placed, InHand, Unlisted, Exists
<1>17. Depths'
  BY <1>1, <1>5, <1>8, <1>9, <1>11, <1>14, <1>10, <1>2 DEF Depths, Locks
<1>18. Hands'
  BY <1>1, <1>5, <1>8, <1>9, <1>11, <1>14, <1>10, <1>2 DEF Hands, Exists, Locks
<1>19. Runs'
  BY <1>1, <1>5, <1>8, <1>9, <1>11, <1>14, <1>10, <1>2 DEF Runs
<1>20. Parks'
  BY <1>1, <1>5, <1>8, <1>9, <1>11, <1>14, <1>10, <1>2 DEF Parks, Exists
<1>21. Waiting'
  BY <1>1, <1>5, <1>8, <1>9, <1>11, <1>14, <1>10, <1>2 DEF Waiting
<1>22. Running'
  BY <1>1, <1>5, <1>8, <1>9, <1>11, <1>14, <1>10, <1>2 DEF Running
<1>23. Notices'
  BY <1>1, <1>5, <1>8, <1>9, <1>11, <1>14, <1>10, <1>2 DEF Notices, InHand, Locks
<1>24. Periods'
  BY <1>1, <1>2, <1>5, <1>8, <1>9, <1>11, <1>10 DEF Periods
<1>25. QED
  BY <1>8, <1>15, <1>16, <1>17, <1>18, <1>19, <1>20, <1>21, <1>22, <1>23, <1>24 DEF SchedInv

(* vTaskSuspend keeps the invariant.                                       *)
LEMMA SuspendStep ==
    ASSUME SchedInv, NEW t \in Tasks, NEW u \in Targets, Suspend(t, u)
    PROVE  SchedInv'
<1>1. /\ TypeOK /\ Sound(kernel) /\ Timely(kernel) /\ Placed /\ Depths /\ Hands
      /\ Runs /\ Parks /\ Waiting /\ Notices /\ Periods
  BY DEF SchedInv
<1>2. /\ Tasks \subseteq All /\ Idle \in All /\ Idle \notin Tasks
      /\ Range(kernel.pending) \subseteq Tasks /\ Range(kernel.term) \subseteq Tasks
  BY <1>1, Constants, ListsOfTasks DEF Sound
<1>3. /\ pc \in [All -> Labels] /\ ticks \in [All -> Ticks] /\ target \in [All -> All]
      /\ notify \in [Tasks -> {"none", "waiting", "received"}] /\ parked \in [Tasks -> BOOLEAN]
      /\ previous \in [Tasks -> Ticks] /\ ahead \in [Tasks -> -Wrap .. Wrap] /\ msip \in BOOLEAN
  BY <1>1 DEF TypeOK
<1>4. At(t, "app") /\ t \in All
  BY Constants DEF Suspend, MayCall
<1>5. /\ kernel.current = t /\ ~msip /\ pc[t] = "app" /\ High(kernel)
      /\ t \in Ready(kernel) /\ t \notin Range(kernel.suspended) /\ t \in On(kernel)
      /\ ~InHand(t) /\ ~Unlisted(t) /\ ~parked[t] /\ t \in All
      /\ \A x \in All : pc[x] \notin Locks /\ ~InHand(x)
  BY <1>4, Caller DEF Locks
<1>6. /\ u \in Tasks /\ u \in All /\ u # Idle
      /\ Exists(u) => ~Unlisted(u) /\ u \notin Range(kernel.term)
      /\ Exists(u) /\ ~InHand(u) => u \in On(kernel)
      /\ pc[u] = "freed" => u \notin On(kernel) /\ u \notin Range(kernel.pending)
      /\ u \in Range(kernel.pending) => Exists(u)
  BY WaitsAreTicks, Present
<1>7. /\ Exists(u) /\ (u = t => kernel.depth = 0) /\ kernel.depth \in 0 .. 1
      /\ u \in On(kernel) /\ ~Unlisted(u)
  BY <1>1, <1>5, <1>6 DEF Suspend, Depths
<1>8. /\ Moved(kernel, kernel', u) /\ Timely(kernel')
      /\ u \notin Ready(kernel') /\ u \in On(kernel') /\ u \in Range(kernel'.suspended)
      /\ u \notin Range(kernel'.term) /\ u \notin Range(kernel'.pending) /\ High(kernel')
  <2>1. kernel' = [Unpend(Unlist(kernel, u), u) EXCEPT !.suspended = Append(@, u)]
    BY DEF Suspend, Set
  <2>2. QED
    BY <1>1, <1>5, <1>6, <2>1, Suspending
<1>9. /\ Sound(kernel') /\ Timely(kernel') /\ kernel' \in Kernels
      /\ kernel'.tick = kernel.tick /\ kernel'.pended = kernel.pended
      /\ kernel'.current = kernel.current /\ kernel'.depth = kernel.depth
      /\ \A x : x # u =>
            /\ x \in Ready(kernel') <=> x \in Ready(kernel)
            /\ x \in On(kernel') <=> x \in On(kernel)
            /\ x \in Range(kernel'.suspended) <=> x \in Range(kernel.suspended)
            /\ x \in Range(kernel'.term) <=> x \in Range(kernel.term)
            /\ x \in Range(kernel'.pending) <=> x \in Range(kernel.pending)
  BY <1>8, MovedOthers
<1>10. /\ pc' = [pc EXCEPT ![t] = "reset"] /\ target' = [target EXCEPT ![t] = u]
       /\ notify' = [notify EXCEPT ![u] = IF notify[u] = "waiting" THEN "none" ELSE notify[u]]
       /\ parked' = [parked EXCEPT ![u] = TRUE]
       /\ UNCHANGED <<msip, ticks, previous, ahead>>
  BY DEF Suspend, Aim, Goto, periods
<1>11. \A x \in All : pc'[x] = IF x = t THEN "reset" ELSE pc[x]
  BY <1>3, <1>2, <1>10
<1>12. \A x \in All : target'[x] = IF x = t THEN u ELSE target[x]
  BY <1>3, <1>2, <1>10
<1>13. \A x \in Tasks : notify'[x] = IF x = u THEN (IF notify[u] = "waiting" THEN "none" ELSE notify[u]) ELSE notify[x]
  BY <1>3, <1>2, <1>10
<1>14. \A x \in Tasks : parked'[x] = IF x = u THEN TRUE ELSE parked[x]
  BY <1>3, <1>2, <1>10
<1>15. TypeOK'
  BY <1>3, <1>9, <1>6, <1>10 DEF TypeOK, Labels, Sound
<1>16. Placed'
  BY <1>1, <1>5, <1>6, <1>7, <1>8, <1>9, <1>11, <1>12, <1>13, <1>14, <1>10, <1>2 DEF Placed,
     InHand, Unlisted, Exists
<1>17. Depths'
  BY <1>1, <1>5, <1>6, <1>7, <1>8, <1>9, <1>11, <1>12, <1>13, <1>14, <1>10, <1>2 DEF Depths,
     Locks
<1>18. Hands'
  BY <1>1, <1>5, <1>6, <1>7, <1>8, <1>9, <1>11, <1>12, <1>13, <1>14, <1>10, <1>2 DEF Hands,
     Exists, Locks
<1>19. Runs'
  BY <1>1, <1>5, <1>6, <1>7, <1>8, <1>9, <1>11, <1>12, <1>13, <1>14, <1>10, <1>2 DEF Runs
<1>20. Parks'
  BY <1>1, <1>5, <1>6, <1>7, <1>8, <1>9, <1>11, <1>12, <1>13, <1>14, <1>10, <1>2 DEF Parks,
     Exists
<1>21. Waiting'
  BY <1>1, <1>5, <1>6, <1>7, <1>8, <1>9, <1>11, <1>12, <1>13, <1>14, <1>10, <1>2 DEF Waiting
<1>22. Running'
  BY <1>1, <1>5, <1>6, <1>7, <1>8, <1>9, <1>11, <1>12, <1>13, <1>14, <1>10, <1>2 DEF Running
<1>23. Notices'
  <2>1. ASSUME NEW x \in Tasks, pc'[x] = "notified", ~parked'[x], notify'[x] # "waiting"
        PROVE  x \in Ready(kernel') \/ x \in Range(kernel'.pending) \/ InHand(x)'
    <3>1. x # t /\ x # u /\ pc[x] = "notified" /\ ~parked[x] /\ notify[x] # "waiting"
      BY <1>2, <2>1, <1>11, <1>14, <1>13
    <3>2. x \in Ready(kernel) \/ x \in Range(kernel.pending)
      BY <2>1, <1>2, <1>1, <1>5, <3>1 DEF Notices
    <3>3. QED
      BY <3>1, <3>2, <1>2, <1>9
  <2>2. QED
    BY <2>1 DEF Notices
<1>24. Periods'
  BY <1>1, <1>5, <1>6, <1>7, <1>8, <1>9, <1>11, <1>12, <1>13, <1>14, <1>10, <1>2 DEF Periods
<1>25. QED
  BY <1>9, <1>15, <1>16, <1>17, <1>18, <1>19, <1>20, <1>21, <1>22, <1>23, <1>24 DEF SchedInv

(* The end of vTaskSuspend keeps the invariant.                            *)
LEMMA SuspendResetsStep ==
    ASSUME SchedInv, NEW t \in Tasks, SuspendResets(t)
    PROVE  SchedInv'
<1>1. /\ TypeOK /\ Sound(kernel) /\ Timely(kernel) /\ Placed /\ Depths /\ Hands
      /\ Runs /\ Parks /\ Waiting /\ Notices /\ Periods
  BY DEF SchedInv
<1>2. /\ Tasks \subseteq All /\ Idle \in All /\ Idle \notin Tasks
      /\ Range(kernel.pending) \subseteq Tasks /\ Range(kernel.term) \subseteq Tasks
  BY <1>1, Constants, ListsOfTasks DEF Sound
<1>3. /\ pc \in [All -> Labels] /\ ticks \in [All -> Ticks] /\ target \in [All -> All]
      /\ notify \in [Tasks -> {"none", "waiting", "received"}] /\ parked \in [Tasks -> BOOLEAN]
      /\ previous \in [Tasks -> Ticks] /\ ahead \in [Tasks -> -Wrap .. Wrap] /\ msip \in BOOLEAN
  BY <1>1 DEF TypeOK
<1>4. At(t, "reset") /\ t \in All
  BY Constants DEF SuspendResets
<1>5. /\ kernel.current = t /\ ~msip /\ pc[t] = "reset" /\ High(kernel)
      /\ kernel.depth \in 0 .. 1 /\ (target[t] = t => kernel.depth = 0)
      /\ \A x \in All : pc[x] \notin Locks /\ ~InHand(x)
  BY <1>1, <1>4, Caller DEF Locks, Depths
<1>6. /\ Like(kernel, kernel') /\ kernel'.current = kernel.current
      /\ kernel'.depth = kernel.depth /\ kernel'.pended = kernel.pended /\ High(kernel')
  <2>1. kernel' = ResetUnblock(kernel)
    BY DEF SuspendResets, Set
  <2>2. QED
    BY <1>1, <1>5, <2>1, LikeReset
<1>7. /\ Sound(kernel') /\ Timely(kernel') /\ kernel' \in Kernels
      /\ Ready(kernel') = Ready(kernel) /\ On(kernel') = On(kernel)
      /\ Range(kernel'.suspended) = Range(kernel.suspended)
      /\ Range(kernel'.term) = Range(kernel.term)
      /\ Range(kernel'.pending) = Range(kernel.pending)
      /\ kernel'.tick = kernel.tick
  BY <1>1, <1>6 DEF Like, Sound
<1> DEFINE l == IF target[t] = t THEN "yield" ELSE "app"
<1>8. /\ pc' = [pc EXCEPT ![t] = l] /\ target' = [target EXCEPT ![t] = t]
      /\ UNCHANGED <<ticks, msip, notify, previous, ahead, parked>>
  BY DEF SuspendResets, Aim, Goto, Keep, periods
<1>9. \A x \in All : pc'[x] = IF x = t THEN l ELSE pc[x]
  BY <1>3, <1>2, <1>8
<1>10. \A x \in All : target'[x] = IF x = t THEN t ELSE target[x]
  BY <1>3, <1>2, <1>8
<1>11. l \in {"yield", "app"} /\ (l = "yield" <=> target[t] = t)
  OBVIOUS
<1> HIDE DEF l
<1>12. TypeOK'
  BY <1>3, <1>7, <1>4, <1>11, <1>8 DEF TypeOK, Labels, Sound
<1>13. Placed'
  BY <1>1, <1>5, <1>4, <1>6, <1>7, <1>9, <1>10, <1>11, <1>8, <1>2 DEF Placed, InHand,
     Unlisted, Exists
<1>14. Depths'
  BY <1>1, <1>5, <1>4, <1>6, <1>7, <1>9, <1>10, <1>11, <1>8, <1>2 DEF Depths, Locks
<1>15. Hands'
  BY <1>1, <1>5, <1>4, <1>6, <1>7, <1>9, <1>10, <1>11, <1>8, <1>2 DEF Hands, Exists, Locks
<1>16. Runs'
  BY <1>1, <1>5, <1>4, <1>6, <1>7, <1>9, <1>10, <1>11, <1>8, <1>2 DEF Runs
<1>17. Parks'
  BY <1>1, <1>5, <1>4, <1>6, <1>7, <1>9, <1>10, <1>11, <1>8, <1>2 DEF Parks, Exists
<1>18. Waiting'
  BY <1>1, <1>5, <1>4, <1>6, <1>7, <1>9, <1>10, <1>11, <1>8, <1>2 DEF Waiting
<1>19. Running'
  BY <1>1, <1>5, <1>4, <1>6, <1>7, <1>9, <1>10, <1>11, <1>8, <1>2 DEF Running
<1>20. Notices'
  BY <1>1, <1>5, <1>4, <1>6, <1>7, <1>9, <1>10, <1>11, <1>8, <1>2 DEF Notices, InHand, Locks
<1>21. Periods'
  BY <1>1, <1>5, <1>4, <1>6, <1>7, <1>9, <1>10, <1>11, <1>8, <1>2 DEF Periods
<1>22. QED
  BY <1>7, <1>12, <1>13, <1>14, <1>15, <1>16, <1>17, <1>18, <1>19, <1>20, <1>21 DEF SchedInv

(* vTaskResume keeps the invariant.                                        *)
LEMMA ResumeTaskStep ==
    ASSUME SchedInv, NEW t \in Tasks, NEW u \in Targets, ~ResumesAny, ResumeTask(t, u)
    PROVE  SchedInv'
<1>1. /\ TypeOK /\ Sound(kernel) /\ Timely(kernel) /\ Placed /\ Depths /\ Hands
      /\ Runs /\ Parks /\ Waiting /\ Notices /\ Periods
  BY DEF SchedInv
<1>2. /\ Tasks \subseteq All /\ Idle \in All /\ Idle \notin Tasks
      /\ Range(kernel.pending) \subseteq Tasks /\ Range(kernel.term) \subseteq Tasks
  BY <1>1, Constants, ListsOfTasks DEF Sound
<1>3. /\ pc \in [All -> Labels] /\ ticks \in [All -> Ticks] /\ target \in [All -> All]
      /\ notify \in [Tasks -> {"none", "waiting", "received"}] /\ parked \in [Tasks -> BOOLEAN]
      /\ previous \in [Tasks -> Ticks] /\ ahead \in [Tasks -> -Wrap .. Wrap] /\ msip \in BOOLEAN
  BY <1>1 DEF TypeOK
<1>4. At(t, "app") /\ t \in All
  BY Constants DEF ResumeTask, MayCall
<1>5. /\ kernel.current = t /\ ~msip /\ pc[t] = "app" /\ High(kernel)
      /\ t \in Ready(kernel) /\ t \notin Range(kernel.suspended) /\ t \in On(kernel)
      /\ ~InHand(t) /\ ~Unlisted(t) /\ ~parked[t] /\ t \in All
      /\ \A x \in All : pc[x] \notin Locks /\ ~InHand(x)
  BY <1>4, Caller DEF Locks
<1>6. /\ u \in Tasks /\ u \in All /\ u # Idle
      /\ Exists(u) => ~Unlisted(u) /\ u \notin Range(kernel.term)
      /\ Exists(u) /\ ~InHand(u) => u \in On(kernel)
      /\ pc[u] = "freed" => u \notin On(kernel) /\ u \notin Range(kernel.pending)
      /\ u \in Range(kernel.pending) => Exists(u)
  BY WaitsAreTicks, Present
<1>7. /\ parked[u] /\ u # t /\ u \notin Range(kernel.pending) /\ u \in Range(kernel.suspended)
      /\ kernel.depth \in 0 .. 1 /\ notify[u] # "waiting" /\ Exists(u)
  BY <1>1, <1>5, <1>6 DEF ResumeTask, MayResume, IsSuspended, Depths, Parks
<1>8. u \in On(kernel) /\ ~Unlisted(u) /\ ~InHand(u)
  BY <1>1, <1>5, <1>6, <1>7 DEF On, Placed
<1>9. /\ Moved(kernel, kernel', u) /\ Timely(kernel')
      /\ Ready(kernel') = Ready(kernel) \cup {u} /\ On(kernel') = On(kernel) \cup {u}
      /\ u \notin Range(kernel'.suspended) /\ u \notin Range(kernel'.term)
      /\ kernel'.pending = kernel.pending
      /\ kernel.prio[u] <= kernel.prio[kernel.current] => High(kernel')
  <2>1. kernel' = MakeReady(kernel, u)
    BY DEF ResumeTask, Set
  <2>2. QED
    BY <1>1, <1>5, <1>6, <2>1, Readying
<1>10. /\ Sound(kernel') /\ Timely(kernel') /\ kernel' \in Kernels
       /\ kernel'.tick = kernel.tick /\ kernel'.pended = kernel.pended
       /\ kernel'.current = kernel.current /\ kernel'.depth = kernel.depth
       /\ \A x : x # u =>
             /\ x \in Ready(kernel') <=> x \in Ready(kernel)
             /\ x \in On(kernel') <=> x \in On(kernel)
             /\ x \in Range(kernel'.suspended) <=> x \in Range(kernel.suspended)
             /\ x \in Range(kernel'.term) <=> x \in Range(kernel.term)
             /\ x \in Range(kernel'.pending) <=> x \in Range(kernel.pending)
  BY <1>9, MovedOthers
<1>11. /\ parked' = [parked EXCEPT ![u] = FALSE]
       /\ UNCHANGED <<pc, target, ticks, notify, previous, ahead>>
  BY DEF ResumeTask, Stay, frame, periods
<1>12. \A x \in Tasks : parked'[x] = IF x = u THEN FALSE ELSE parked[x]
  BY <1>3, <1>2, <1>11
<1>13. /\ kernel.prio[u] \in Nat /\ kernel.prio[t] \in Nat /\ msip' \in BOOLEAN
  <2>1. kernel.prio[u] \in Nat /\ kernel.prio[t] \in Nat
    BY <1>1, <1>2, <1>6, KernelTypes, Constants DEF Sound
  <2>2. msip' \in BOOLEAN
    BY <1>1, <2>1 DEF ResumeTask, YieldIf
  <2>3. QED
    BY <2>1, <2>2
<1>14. Running'
  <2>1. kernel.prio[u] >= kernel.prio[t] => msip'
    BY Zenon DEF ResumeTask, YieldIf
  <2>2. kernel.prio[u] < kernel.prio[t] => High(kernel')
    BY <1>9, <1>5, <1>13
  <2>3. QED
    BY <2>1, <2>2, <1>13 DEF Running
<1>15. kernel'.depth # 0 => (msip' => FALSE) \/ pc'[t] = "app"
  BY <1>11, <1>5
<1>16. TypeOK'
  BY <1>3, <1>10, <1>6, <1>13, <1>11 DEF TypeOK, Labels, Sound
<1>17. Placed'
  BY <1>1, <1>5, <1>6, <1>7, <1>8, <1>9, <1>10, <1>12, <1>13, <1>15, <1>11, <1>2 DEF Placed,
     InHand, Unlisted, Exists
<1>18. Depths'
  BY <1>1, <1>5, <1>6, <1>7, <1>8, <1>9, <1>10, <1>12, <1>13, <1>15, <1>11, <1>2 DEF Depths,
     Locks
<1>19. Hands'
  BY <1>1, <1>5, <1>6, <1>7, <1>8, <1>9, <1>10, <1>12, <1>13, <1>15, <1>11, <1>2 DEF Hands,
     Exists, Locks
<1>20. Runs'
  BY <1>1, <1>5, <1>6, <1>7, <1>8, <1>9, <1>10, <1>12, <1>13, <1>15, <1>11, <1>2 DEF Runs
<1>21. Parks'
  BY <1>1, <1>5, <1>6, <1>7, <1>8, <1>9, <1>10, <1>12, <1>13, <1>15, <1>11, <1>2 DEF Parks,
     Exists
<1>22. Waiting'
  BY <1>1, <1>5, <1>6, <1>7, <1>8, <1>9, <1>10, <1>12, <1>13, <1>15, <1>11, <1>2 DEF Waiting
<1>23. Running'
  BY <1>14
<1>24. Notices'
  BY <1>1, <1>5, <1>6, <1>7, <1>8, <1>9, <1>10, <1>12, <1>13, <1>15, <1>11, <1>2 DEF
     Notices, InHand, Locks
<1>25. Periods'
  BY <1>1, <1>5, <1>6, <1>7, <1>8, <1>9, <1>10, <1>12, <1>13, <1>15, <1>11, <1>2 DEF Periods
<1>26. QED
  BY <1>10, <1>16, <1>17, <1>18, <1>19, <1>20, <1>21, <1>22, <1>23, <1>24, <1>25 DEF
     SchedInv

(* xTaskAbortDelay keeps the invariant.                                    *)
LEMMA AbortDelayStep ==
    ASSUME SchedInv, NEW t \in Tasks, NEW u \in Targets, AbortDelay(t, u)
    PROVE  SchedInv'
<1>1. /\ TypeOK /\ Sound(kernel) /\ Timely(kernel) /\ Placed /\ Depths /\ Hands
      /\ Runs /\ Parks /\ Waiting /\ Notices /\ Periods
  BY DEF SchedInv
<1>2. /\ Tasks \subseteq All /\ Idle \in All /\ Idle \notin Tasks
      /\ Range(kernel.pending) \subseteq Tasks /\ Range(kernel.term) \subseteq Tasks
  BY <1>1, Constants, ListsOfTasks DEF Sound
<1>3. /\ pc \in [All -> Labels] /\ ticks \in [All -> Ticks] /\ target \in [All -> All]
      /\ notify \in [Tasks -> {"none", "waiting", "received"}] /\ parked \in [Tasks -> BOOLEAN]
      /\ previous \in [Tasks -> Ticks] /\ ahead \in [Tasks -> -Wrap .. Wrap] /\ msip \in BOOLEAN
  BY <1>1 DEF TypeOK
<1>4. At(t, "app") /\ t \in All
  BY Constants DEF AbortDelay, MayCall
<1>5. /\ kernel.current = t /\ ~msip /\ pc[t] = "app" /\ High(kernel)
      /\ t \in Ready(kernel) /\ t \notin Range(kernel.suspended) /\ t \in On(kernel)
      /\ ~InHand(t) /\ ~Unlisted(t) /\ ~parked[t] /\ t \in All
      /\ \A x \in All : pc[x] \notin Locks /\ ~InHand(x)
  BY <1>4, Caller DEF Locks
<1>6. /\ u \in Tasks /\ u \in All /\ u # Idle
      /\ Exists(u) => ~Unlisted(u) /\ u \notin Range(kernel.term)
      /\ Exists(u) /\ ~InHand(u) => u \in On(kernel)
      /\ pc[u] = "freed" => u \notin On(kernel) /\ u \notin Range(kernel.pending)
      /\ u \in Range(kernel.pending) => Exists(u)
  BY WaitsAreTicks, Present
<1>7. Exists(u) /\ kernel.depth \in 0 .. 1
  BY <1>1, <1>5 DEF AbortDelay, Depths
<1>8. /\ Like(kernel, kernel') /\ kernel'.current = kernel.current
      /\ kernel'.depth = kernel.depth + 1 /\ kernel'.pended = kernel.pended
      /\ High(kernel')
  <2>1. kernel' = SuspendAll(kernel)
    BY DEF AbortDelay, Set
  <2>2. QED
    BY <1>1, <1>5, <1>7, <2>1, Locking
<1>9. /\ Sound(kernel') /\ Timely(kernel') /\ kernel' \in Kernels
      /\ Ready(kernel') = Ready(kernel) /\ On(kernel') = On(kernel)
      /\ Range(kernel'.suspended) = Range(kernel.suspended)
      /\ Range(kernel'.term) = Range(kernel.term)
      /\ Range(kernel'.pending) = Range(kernel.pending)
      /\ kernel'.tick = kernel.tick
  BY <1>1, <1>8 DEF Like, Sound
<1>10. /\ pc' = [pc EXCEPT ![t] = "state"] /\ target' = [target EXCEPT ![t] = u]
       /\ UNCHANGED <<ticks, msip, notify, previous, ahead, parked>>
  BY DEF AbortDelay, Aim, Goto, Keep, periods
<1>11. \A x \in All : pc'[x] = IF x = t THEN "state" ELSE pc[x]
  BY <1>3, <1>2, <1>10
<1>12. \A x \in All : target'[x] = IF x = t THEN u ELSE target[x]
  BY <1>3, <1>2, <1>10
<1>13. TypeOK'
  BY <1>3, <1>9, <1>6, <1>10 DEF TypeOK, Labels, Sound
<1>14. Placed'
  BY <1>1, <1>5, <1>6, <1>7, <1>8, <1>9, <1>11, <1>12, <1>10, <1>2 DEF Placed, InHand,
     Unlisted, Exists
<1>15. Depths'
  BY <1>1, <1>5, <1>6, <1>7, <1>8, <1>9, <1>11, <1>12, <1>10, <1>2 DEF Depths, Locks
<1>16. Hands'
  BY <1>1, <1>5, <1>6, <1>7, <1>8, <1>9, <1>11, <1>12, <1>10, <1>2 DEF Hands, Exists, Locks
<1>17. Runs'
  BY <1>1, <1>5, <1>6, <1>7, <1>8, <1>9, <1>11, <1>12, <1>10, <1>2 DEF Runs
<1>18. Parks'
  BY <1>1, <1>5, <1>6, <1>7, <1>8, <1>9, <1>11, <1>12, <1>10, <1>2 DEF Parks, Exists
<1>19. Waiting'
  BY <1>1, <1>5, <1>6, <1>7, <1>8, <1>9, <1>11, <1>12, <1>10, <1>2 DEF Waiting
<1>20. Running'
  BY <1>1, <1>5, <1>6, <1>7, <1>8, <1>9, <1>11, <1>12, <1>10, <1>2 DEF Running
<1>21. Notices'
  BY <1>1, <1>5, <1>6, <1>7, <1>8, <1>9, <1>11, <1>12, <1>10, <1>2 DEF Notices, InHand,
     Locks
<1>22. Periods'
  BY <1>1, <1>5, <1>6, <1>7, <1>8, <1>9, <1>11, <1>12, <1>10, <1>2 DEF Periods
<1>23. QED
  BY <1>9, <1>13, <1>14, <1>15, <1>16, <1>17, <1>18, <1>19, <1>20, <1>21, <1>22 DEF SchedInv

(* Its look at the state of the task keeps the invariant.                  *)
LEMMA AbortStateStep ==
    ASSUME SchedInv, NEW t \in Tasks, AbortState(t)
    PROVE  SchedInv'
<1>1. /\ TypeOK /\ Sound(kernel) /\ Timely(kernel) /\ Placed /\ Depths /\ Hands
      /\ Runs /\ Parks /\ Waiting /\ Notices /\ Periods
  BY DEF SchedInv
<1>2. /\ Tasks \subseteq All /\ Idle \in All /\ Idle \notin Tasks
      /\ Range(kernel.pending) \subseteq Tasks /\ Range(kernel.term) \subseteq Tasks
  BY <1>1, Constants, ListsOfTasks DEF Sound
<1>3. /\ pc \in [All -> Labels] /\ ticks \in [All -> Ticks] /\ target \in [All -> All]
      /\ notify \in [Tasks -> {"none", "waiting", "received"}] /\ parked \in [Tasks -> BOOLEAN]
      /\ previous \in [Tasks -> Ticks] /\ ahead \in [Tasks -> -Wrap .. Wrap] /\ msip \in BOOLEAN
  BY <1>1 DEF TypeOK
<1>4. At(t, "state") /\ t \in All
  BY Constants DEF AbortState
<1>5. /\ kernel.current = t /\ ~msip /\ pc[t] = "state" /\ High(kernel)
      /\ t \in Ready(kernel) /\ t \notin Range(kernel.suspended) /\ t \in On(kernel)
      /\ ~InHand(t) /\ ~Unlisted(t) /\ ~parked[t] /\ t \in All
  BY <1>4, Caller DEF Locks
<1>6. /\ kernel.depth \in 1 .. 2 /\ \A x \in All : x # t => pc[x] \notin Locks
      /\ target[t] \in Tasks /\ target[t] \in All /\ Exists(target[t])
  BY <1>1, <1>2, <1>5 DEF Depths, Hands
<1>7. \A x : ~InHand(x)
  BY <1>2, <1>5, <1>6 DEF InHand, Locks
<1>8. UNCHANGED <<kernel, ticks, msip, notify, previous, ahead, parked>> /\ Sound(kernel') /\ Timely(kernel')
  BY <1>1 DEF AbortState, Keep, periods
<1>9. CASE target[t] # t /\ IsBlocked(target[t])
  <2>1. ~parked[target[t]]
    <3>1. parked[target[t]] => target[t] \in Range(kernel.suspended) /\ target[t] \notin Range(kernel.pending)
      BY <1>1, <1>6 DEF Parks
    <3>2. target[t] \in Range(kernel.suspended) => target[t] \notin Asleep(kernel)
      BY <1>1 DEF Sound, Apart
    <3>3. QED
      BY <1>9, <3>1, <3>2 DEF IsBlocked
  <2>2. pc' = [pc EXCEPT ![t] = "unlist"] /\ target' = target
    BY <1>9 DEF AbortState, Goto
  <2>3. \A x \in All : pc'[x] = IF x = t THEN "unlist" ELSE pc[x]
    BY <1>3, <1>2, <2>2
  <2>4. TypeOK'
    BY <1>3, <1>8, <2>2 DEF TypeOK, Labels, Sound
  <2>5. Placed'
    BY <1>1, <1>5, <1>6, <1>7, <1>8, <1>9, <2>1, <2>3, <2>2, <1>2 DEF Placed, InHand,
       Unlisted, Exists
  <2>6. Depths'
    BY <1>1, <1>5, <1>6, <1>7, <1>8, <1>9, <2>1, <2>3, <2>2, <1>2 DEF Depths, Locks
  <2>7. Hands'
    BY <1>1, <1>5, <1>6, <1>7, <1>8, <1>9, <2>1, <2>3, <2>2, <1>2 DEF Hands, Exists, Locks
  <2>8. Runs'
    BY <1>1, <1>5, <1>6, <1>7, <1>8, <1>9, <2>1, <2>3, <2>2, <1>2 DEF Runs
  <2>9. Parks'
    BY <1>1, <1>5, <1>6, <1>7, <1>8, <1>9, <2>1, <2>3, <2>2, <1>2 DEF Parks, Exists
  <2>10. Waiting'
    BY <1>1, <1>5, <1>6, <1>7, <1>8, <1>9, <2>1, <2>3, <2>2, <1>2 DEF Waiting
  <2>11. Running'
    BY <1>1, <1>5, <1>6, <1>7, <1>8, <1>9, <2>1, <2>3, <2>2, <1>2 DEF Running
  <2>12. Notices'
    BY <1>1, <1>5, <1>6, <1>7, <1>8, <1>9, <2>1, <2>3, <2>2, <1>2 DEF Notices, InHand, Locks
  <2>13. Periods'
    BY <1>1, <1>5, <1>6, <1>7, <1>8, <1>9, <2>1, <2>3, <2>2, <1>2 DEF Periods
  <2>14. QED
    BY <1>8, <2>4, <2>5, <2>6, <2>7, <2>8, <2>9, <2>10, <2>11, <2>12, <2>13 DEF SchedInv
<1>10. CASE ~(target[t] # t /\ IsBlocked(target[t]))
  <2>1. pc' = [pc EXCEPT ![t] = "resumeall"] /\ target' = [target EXCEPT ![t] = t]
    BY <1>10 DEF AbortState, Goto
  <2>2. \A x \in All : pc'[x] = IF x = t THEN "resumeall" ELSE pc[x]
    BY <1>3, <1>2, <2>1
  <2>3. \A x \in All : target'[x] = IF x = t THEN t ELSE target[x]
    BY <1>3, <1>2, <2>1
  <2>4. TypeOK'
    BY <1>3, <1>8, <1>5, <2>1 DEF TypeOK, Labels, Sound
  <2>5. Placed'
    BY <1>1, <1>5, <1>6, <1>7, <1>8, <2>2, <2>3, <2>1, <1>2 DEF Placed, InHand, Unlisted,
       Exists
  <2>6. Depths'
    BY <1>1, <1>5, <1>6, <1>7, <1>8, <2>2, <2>3, <2>1, <1>2 DEF Depths, Locks
  <2>7. Hands'
    BY <1>1, <1>5, <1>6, <1>7, <1>8, <2>2, <2>3, <2>1, <1>2 DEF Hands, Exists, Locks
  <2>8. Runs'
    BY <1>1, <1>5, <1>6, <1>7, <1>8, <2>2, <2>3, <2>1, <1>2 DEF Runs
  <2>9. Parks'
    BY <1>1, <1>5, <1>6, <1>7, <1>8, <2>2, <2>3, <2>1, <1>2 DEF Parks, Exists
  <2>10. Waiting'
    BY <1>1, <1>5, <1>6, <1>7, <1>8, <2>2, <2>3, <2>1, <1>2 DEF Waiting
  <2>11. Running'
    BY <1>1, <1>5, <1>6, <1>7, <1>8, <2>2, <2>3, <2>1, <1>2 DEF Running
  <2>12. Notices'
    BY <1>1, <1>5, <1>6, <1>7, <1>8, <2>2, <2>3, <2>1, <1>2 DEF Notices, InHand, Locks
  <2>13. Periods'
    BY <1>1, <1>5, <1>6, <1>7, <1>8, <2>2, <2>3, <2>1, <1>2 DEF Periods
  <2>14. QED
    BY <1>8, <2>4, <2>5, <2>6, <2>7, <2>8, <2>9, <2>10, <2>11, <2>12, <2>13 DEF SchedInv
<1>11. QED
  BY <1>9, <1>10

(* Its uxListRemove of the state item keeps the invariant.                 *)
LEMMA AbortUnlistStep ==
    ASSUME SchedInv, NEW t \in Tasks, AbortUnlist(t)
    PROVE  SchedInv'
<1>1. /\ TypeOK /\ Sound(kernel) /\ Timely(kernel) /\ Placed /\ Depths /\ Hands
      /\ Runs /\ Parks /\ Waiting /\ Notices /\ Periods
  BY DEF SchedInv
<1>2. /\ Tasks \subseteq All /\ Idle \in All /\ Idle \notin Tasks
      /\ Range(kernel.pending) \subseteq Tasks /\ Range(kernel.term) \subseteq Tasks
  BY <1>1, Constants, ListsOfTasks DEF Sound
<1>3. /\ pc \in [All -> Labels] /\ ticks \in [All -> Ticks] /\ target \in [All -> All]
      /\ notify \in [Tasks -> {"none", "waiting", "received"}] /\ parked \in [Tasks -> BOOLEAN]
      /\ previous \in [Tasks -> Ticks] /\ ahead \in [Tasks -> -Wrap .. Wrap] /\ msip \in BOOLEAN
  BY <1>1 DEF TypeOK
<1>4. At(t, "unlist") /\ t \in All
  BY Constants DEF AbortUnlist
<1>5. /\ kernel.current = t /\ ~msip /\ pc[t] = "unlist" /\ High(kernel)
      /\ t \in Ready(kernel) /\ t \notin Range(kernel.suspended) /\ t \in On(kernel)
      /\ ~InHand(t) /\ ~Unlisted(t) /\ ~parked[t] /\ t \in All
  BY <1>4, Caller DEF Locks
<1>6. /\ kernel.depth \in 1 .. 2 /\ \A x \in All : x # t => pc[x] \notin Locks
      /\ target[t] \in Tasks /\ target[t] \in All /\ Exists(target[t])
      /\ target[t] # t /\ ~parked[target[t]]
  BY <1>1, <1>2, <1>5 DEF Depths, Hands
<1>7. \A x : ~InHand(x)
  BY <1>2, <1>5, <1>6 DEF InHand, Locks
<1>8. ~Unlisted(target[t])
  BY <1>6, Present
<1>9. /\ Moved(kernel, kernel', target[t]) /\ Timely(kernel')
      /\ On(kernel') = On(kernel) \ {target[t]}
      /\ target[t] \notin Range(kernel'.suspended) /\ target[t] \notin Range(kernel'.term)
      /\ kernel'.pending = kernel.pending /\ High(kernel')
  <2>1. kernel' = Unlist(kernel, target[t])
    BY DEF AbortUnlist, Set
  <2>2. QED
    BY <1>1, <1>5, <1>6, <2>1, Delisting
<1>10. /\ Sound(kernel') /\ Timely(kernel') /\ kernel' \in Kernels
       /\ kernel'.tick = kernel.tick /\ kernel'.pended = kernel.pended
       /\ kernel'.current = kernel.current /\ kernel'.depth = kernel.depth
       /\ \A x : x # target[t] =>
             /\ x \in Ready(kernel') <=> x \in Ready(kernel)
             /\ x \in On(kernel') <=> x \in On(kernel)
             /\ x \in Range(kernel'.suspended) <=> x \in Range(kernel.suspended)
             /\ x \in Range(kernel'.term) <=> x \in Range(kernel.term)
             /\ x \in Range(kernel'.pending) <=> x \in Range(kernel.pending)
  BY <1>9, MovedOthers
<1>11. /\ pc' = [pc EXCEPT ![t] = "event"]
       /\ UNCHANGED <<ticks, target, msip, notify, previous, ahead, parked>>
  BY DEF AbortUnlist, Goto, Keep, periods
<1>12. \A x \in All : pc'[x] = IF x = t THEN "event" ELSE pc[x]
  BY <1>3, <1>2, <1>11
<1>13. \A x : InHand(x)' <=> x = target[t]
  BY <1>2, <1>5, <1>6, <1>12, <1>11 DEF InHand, Locks
<1>14. TypeOK'
  BY <1>3, <1>10, <1>11 DEF TypeOK, Labels, Sound
<1>15. Placed'
  BY <1>1, <1>2, <1>7, <1>8, <1>13, <1>9, <1>10, <1>12, <1>5, <1>11 DEF Placed, Unlisted,
     Exists
<1>16. Depths'
  BY <1>1, <1>5, <1>6, <1>7, <1>8, <1>9, <1>10, <1>12, <1>13, <1>11, <1>2 DEF Depths, Locks
<1>17. Hands'
  BY <1>1, <1>5, <1>6, <1>7, <1>8, <1>9, <1>10, <1>12, <1>13, <1>11, <1>2 DEF Hands, Exists,
     Locks
<1>18. Runs'
  BY <1>1, <1>5, <1>6, <1>7, <1>8, <1>9, <1>10, <1>12, <1>13, <1>11, <1>2 DEF Runs
<1>19. Parks'
  BY <1>1, <1>5, <1>6, <1>7, <1>8, <1>9, <1>10, <1>12, <1>13, <1>11, <1>2 DEF Parks, Exists
<1>20. Waiting'
  BY <1>1, <1>5, <1>6, <1>7, <1>8, <1>9, <1>10, <1>12, <1>13, <1>11, <1>2 DEF Waiting
<1>21. Running'
  BY <1>1, <1>5, <1>6, <1>7, <1>8, <1>9, <1>10, <1>12, <1>13, <1>11, <1>2 DEF Running
<1>22. Notices'
  <2>1. ASSUME NEW x \in Tasks, pc'[x] = "notified", ~parked'[x], notify'[x] # "waiting"
        PROVE  x \in Ready(kernel') \/ x \in Range(kernel'.pending) \/ InHand(x)'
    <3>1. x # t /\ pc[x] = "notified" /\ ~parked[x] /\ notify[x] # "waiting"
      BY <1>2, <2>1, <1>12, <1>11
    <3>2. x \in Ready(kernel) \/ x \in Range(kernel.pending)
      BY <2>1, <1>2, <1>1, <3>1, <1>7 DEF Notices
    <3>3. QED
      BY <3>1, <3>2, <1>2, <1>10, <1>13
  <2>2. QED
    BY <2>1 DEF Notices
<1>23. Periods'
  BY <1>1, <1>5, <1>6, <1>7, <1>8, <1>9, <1>10, <1>12, <1>13, <1>11, <1>2 DEF Periods
<1>24. QED
  BY <1>10, <1>14, <1>15, <1>16, <1>17, <1>18, <1>19, <1>20, <1>21, <1>22, <1>23 DEF
     SchedInv

(* Its uxListRemove of the event item keeps the invariant.                 *)
LEMMA AbortEventStep ==
    ASSUME SchedInv, NEW t \in Tasks, AbortEvent(t)
    PROVE  SchedInv'
<1>1. /\ TypeOK /\ Sound(kernel) /\ Timely(kernel) /\ Placed /\ Depths /\ Hands
      /\ Runs /\ Parks /\ Waiting /\ Notices /\ Periods
  BY DEF SchedInv
<1>2. /\ Tasks \subseteq All /\ Idle \in All /\ Idle \notin Tasks
      /\ Range(kernel.pending) \subseteq Tasks /\ Range(kernel.term) \subseteq Tasks
  BY <1>1, Constants, ListsOfTasks DEF Sound
<1>3. /\ pc \in [All -> Labels] /\ ticks \in [All -> Ticks] /\ target \in [All -> All]
      /\ notify \in [Tasks -> {"none", "waiting", "received"}] /\ parked \in [Tasks -> BOOLEAN]
      /\ previous \in [Tasks -> Ticks] /\ ahead \in [Tasks -> -Wrap .. Wrap] /\ msip \in BOOLEAN
  BY <1>1 DEF TypeOK
<1>4. At(t, "event") /\ t \in All
  BY Constants DEF AbortEvent
<1>5. /\ kernel.current = t /\ ~msip /\ pc[t] = "event" /\ High(kernel)
      /\ t \in Ready(kernel) /\ t \notin Range(kernel.suspended) /\ t \in On(kernel)
      /\ ~InHand(t) /\ ~Unlisted(t) /\ ~parked[t] /\ t \in All
  BY <1>4, Caller DEF Locks
<1>6. /\ kernel.depth \in 1 .. 2 /\ \A x \in All : x # t => pc[x] \notin Locks
      /\ target[t] \in Tasks /\ target[t] \in All /\ Exists(target[t])
      /\ target[t] # t /\ ~parked[target[t]]
  BY <1>1, <1>2, <1>5 DEF Depths, Hands
<1>7. \A x : InHand(x) <=> x = target[t]
  BY <1>2, <1>5, <1>6 DEF InHand, Locks
<1>8. ~Unlisted(target[t])
  BY <1>6, Present
<1>9. /\ Moved(kernel, kernel', target[t]) /\ Timely(kernel')
      /\ Ready(kernel') = Ready(kernel) /\ On(kernel') = On(kernel)
      /\ kernel'.suspended = kernel.suspended /\ kernel'.term = kernel.term
      /\ target[t] \notin Range(kernel'.pending) /\ High(kernel')
  <2>1. kernel' = Unpend(kernel, target[t])
    BY DEF AbortEvent, Set
  <2>2. QED
    BY <1>1, <1>5, <1>6, <2>1, Depending
<1>10. /\ Sound(kernel') /\ Timely(kernel') /\ kernel' \in Kernels
       /\ kernel'.tick = kernel.tick /\ kernel'.pended = kernel.pended
       /\ kernel'.current = kernel.current /\ kernel'.depth = kernel.depth
       /\ \A x : x # target[t] =>
             /\ x \in Ready(kernel') <=> x \in Ready(kernel)
             /\ x \in On(kernel') <=> x \in On(kernel)
             /\ x \in Range(kernel'.suspended) <=> x \in Range(kernel.suspended)
             /\ x \in Range(kernel'.term) <=> x \in Range(kernel.term)
             /\ x \in Range(kernel'.pending) <=> x \in Range(kernel.pending)
  BY <1>9, MovedOthers
<1>11. /\ pc' = [pc EXCEPT ![t] = "enlist"]
       /\ UNCHANGED <<ticks, target, msip, notify, previous, ahead, parked>>
  BY DEF AbortEvent, Goto, Keep, periods
<1>12. \A x \in All : pc'[x] = IF x = t THEN "enlist" ELSE pc[x]
  BY <1>3, <1>2, <1>11
<1>13. \A x : InHand(x)' <=> x = target[t]
  BY <1>2, <1>5, <1>6, <1>12, <1>11 DEF InHand, Locks
<1>14. TypeOK'
  BY <1>3, <1>10, <1>11 DEF TypeOK, Labels, Sound
<1>15. Placed'
  BY <1>1, <1>2, <1>7, <1>8, <1>13, <1>9, <1>10, <1>12, <1>5, <1>11 DEF Placed, Unlisted,
     Exists
<1>16. Depths'
  BY <1>1, <1>5, <1>6, <1>7, <1>8, <1>9, <1>10, <1>12, <1>13, <1>11, <1>2 DEF Depths, Locks
<1>17. Hands'
  BY <1>1, <1>5, <1>6, <1>7, <1>8, <1>9, <1>10, <1>12, <1>13, <1>11, <1>2 DEF Hands, Exists,
     Locks
<1>18. Runs'
  BY <1>1, <1>5, <1>6, <1>7, <1>8, <1>9, <1>10, <1>12, <1>13, <1>11, <1>2 DEF Runs
<1>19. Parks'
  BY <1>1, <1>5, <1>6, <1>7, <1>8, <1>9, <1>10, <1>12, <1>13, <1>11, <1>2 DEF Parks, Exists
<1>20. Waiting'
  BY <1>1, <1>5, <1>6, <1>7, <1>8, <1>9, <1>10, <1>12, <1>13, <1>11, <1>2 DEF Waiting
<1>21. Running'
  BY <1>1, <1>5, <1>6, <1>7, <1>8, <1>9, <1>10, <1>12, <1>13, <1>11, <1>2 DEF Running
<1>22. Notices'
  <2>1. ASSUME NEW x \in Tasks, pc'[x] = "notified", ~parked'[x], notify'[x] # "waiting"
        PROVE  x \in Ready(kernel') \/ x \in Range(kernel'.pending) \/ InHand(x)'
    <3>1. x # t /\ pc[x] = "notified" /\ ~parked[x] /\ notify[x] # "waiting"
      BY <1>2, <2>1, <1>12, <1>11
    <3>2. x \in Ready(kernel) \/ x \in Range(kernel.pending) \/ x = target[t]
      BY <2>1, <1>2, <1>1, <3>1, <1>7 DEF Notices
    <3>3. QED
      BY <3>1, <3>2, <1>2, <1>10, <1>13
  <2>2. QED
    BY <2>1 DEF Notices
<1>23. Periods'
  BY <1>1, <1>5, <1>6, <1>7, <1>8, <1>9, <1>10, <1>12, <1>13, <1>11, <1>2 DEF Periods
<1>24. QED
  BY <1>10, <1>14, <1>15, <1>16, <1>17, <1>18, <1>19, <1>20, <1>21, <1>22, <1>23 DEF
     SchedInv

(* Its insertion into a ready list keeps the invariant.                    *)
LEMMA AbortEnlistStep ==
    ASSUME SchedInv, NEW t \in Tasks, AbortEnlist(t)
    PROVE  SchedInv'
<1>1. /\ TypeOK /\ Sound(kernel) /\ Timely(kernel) /\ Placed /\ Depths /\ Hands
      /\ Runs /\ Parks /\ Waiting /\ Notices /\ Periods
  BY DEF SchedInv
<1>2. /\ Tasks \subseteq All /\ Idle \in All /\ Idle \notin Tasks
      /\ Range(kernel.pending) \subseteq Tasks /\ Range(kernel.term) \subseteq Tasks
  BY <1>1, Constants, ListsOfTasks DEF Sound
<1>3. /\ pc \in [All -> Labels] /\ ticks \in [All -> Ticks] /\ target \in [All -> All]
      /\ notify \in [Tasks -> {"none", "waiting", "received"}] /\ parked \in [Tasks -> BOOLEAN]
      /\ previous \in [Tasks -> Ticks] /\ ahead \in [Tasks -> -Wrap .. Wrap] /\ msip \in BOOLEAN
  BY <1>1 DEF TypeOK
<1>4. At(t, "enlist") /\ t \in All
  BY Constants DEF AbortEnlist
<1>5. /\ kernel.current = t /\ ~msip /\ pc[t] = "enlist" /\ High(kernel)
      /\ t \in Ready(kernel) /\ t \notin Range(kernel.suspended) /\ t \in On(kernel)
      /\ ~InHand(t) /\ ~Unlisted(t) /\ ~parked[t] /\ t \in All
  BY <1>4, Caller DEF Locks
<1>6. /\ kernel.depth \in 1 .. 2 /\ \A x \in All : x # t => pc[x] \notin Locks
      /\ target[t] \in Tasks /\ target[t] \in All /\ Exists(target[t])
      /\ target[t] # t /\ ~parked[target[t]]
  BY <1>1, <1>2, <1>5 DEF Depths, Hands
<1>7. \A x : InHand(x) <=> x = target[t]
  BY <1>2, <1>5, <1>6 DEF InHand, Locks
<1>8. ~Unlisted(target[t])
  BY <1>6, Present
<1> DEFINE h == target[t]
           k1 == AddReady(kernel, h)
           b == k1.yield \/ kernel.prio[h] > kernel.prio[t]
<1>9. h \notin On(kernel)
  BY <1>1, <1>7 DEF Placed
<1>10. /\ Moved(kernel, k1, h) /\ Timely(k1)
       /\ Ready(k1) = Ready(kernel) \cup {h} /\ On(k1) = On(kernel) \cup {h}
       /\ k1.suspended = kernel.suspended /\ k1.term = kernel.term
       /\ k1.pending = kernel.pending /\ k1.prio = kernel.prio /\ k1.yield = kernel.yield
       /\ kernel.prio[h] <= kernel.prio[t] => High(k1)
  <2>1. k1 = AddReady(kernel, h)
    OBVIOUS
  <2> HIDE DEF k1, h
  <2>2. h \in Tasks
    BY <1>6 DEF h
  <2>3. QED
    BY <2>1, <2>2, <1>1, <1>5, <1>9, Enlisting
<1>11. kernel' = [k1 EXCEPT !.yield = b]
  BY DEF AbortEnlist, Set
<1>12. kernel.prio[h] \in Nat /\ kernel.prio[t] \in Nat /\ b \in BOOLEAN
  BY <1>1, <1>5, <1>6, <1>10, KernelTypes, Constants DEF Sound
<1>13. ~b => kernel.prio[h] <= kernel.prio[t] /\ ~kernel.yield
  BY <1>12, <1>10
<1> HIDE DEF k1, b
<1>14. /\ Like(k1, kernel') /\ kernel'.current = k1.current /\ kernel'.depth = k1.depth
       /\ kernel'.pended = k1.pended /\ kernel'.yield = b /\ (b => High(kernel'))
  BY <1>11, <1>10, <1>12, LikeYield DEF Moved
<1>15. High(kernel')
  BY <1>10, <1>14, <1>13 DEF High, Like
<1>16. /\ Moved(kernel, kernel', h) /\ Timely(kernel')
       /\ On(kernel') = On(kernel) \cup {h} /\ h \in Ready(kernel')
       /\ h \notin Range(kernel'.suspended) /\ h \notin Range(kernel'.term)
       /\ Range(kernel'.pending) = Range(kernel.pending)
  <2>1. Moved(kernel, kernel', h)
    BY <1>10, <1>14, <1>2 DEF Moved, Like
  <2>2. h \notin Range(kernel.suspended) /\ h \notin Range(kernel.term)
    BY <1>9 DEF On
  <2>3. QED
    BY <2>1, <2>2, <1>10, <1>14 DEF Like
<1>17. /\ Sound(kernel') /\ Timely(kernel') /\ kernel' \in Kernels
       /\ kernel'.tick = kernel.tick /\ kernel'.pended = kernel.pended
       /\ kernel'.current = kernel.current /\ kernel'.depth = kernel.depth
       /\ \A x : x # h =>
             /\ x \in Ready(kernel') <=> x \in Ready(kernel)
             /\ x \in On(kernel') <=> x \in On(kernel)
             /\ x \in Range(kernel'.suspended) <=> x \in Range(kernel.suspended)
             /\ x \in Range(kernel'.term) <=> x \in Range(kernel.term)
             /\ x \in Range(kernel'.pending) <=> x \in Range(kernel.pending)
  BY <1>16, MovedOthers
<1>18. h = target[t]
  OBVIOUS
<1> HIDE DEF h
<1>19. /\ Sound(kernel') /\ Timely(kernel') /\ kernel' \in Kernels
       /\ kernel'.tick = kernel.tick /\ kernel'.pended = kernel.pended
       /\ kernel'.current = kernel.current /\ kernel'.depth = kernel.depth
       /\ \A x : x # target[t] =>
             /\ x \in Ready(kernel') <=> x \in Ready(kernel)
             /\ x \in On(kernel') <=> x \in On(kernel)
             /\ x \in Range(kernel'.suspended) <=> x \in Range(kernel.suspended)
             /\ x \in Range(kernel'.term) <=> x \in Range(kernel.term)
             /\ x \in Range(kernel'.pending) <=> x \in Range(kernel.pending)
  BY <1>17, <1>18
<1>20. /\ pc' = [pc EXCEPT ![t] = "resumeall"] /\ target' = [target EXCEPT ![t] = t]
       /\ UNCHANGED <<ticks, msip, notify, previous, ahead, parked>>
  BY DEF AbortEnlist, Aim, Goto, Keep, periods
<1>21. \A x \in All : pc'[x] = IF x = t THEN "resumeall" ELSE pc[x]
  BY <1>3, <1>2, <1>20
<1>22. \A x \in All : target'[x] = IF x = t THEN t ELSE target[x]
  BY <1>3, <1>2, <1>20
<1>23. \A x : ~InHand(x)'
  BY <1>2, <1>5, <1>6, <1>21, <1>22 DEF InHand, Locks
<1>24. TypeOK'
  BY <1>3, <1>19, <1>5, <1>20 DEF TypeOK, Labels, Sound
<1>25. Placed'
  <2>1. \A x \in All : Unlisted(x)' <=> Unlisted(x)
    BY <1>2, <1>5, <1>21, <1>22 DEF Unlisted
  <2>2. On(kernel) = {x \in All : ~InHand(x) /\ ~Unlisted(x)} /\ On(kernel') = On(kernel) \cup {target[t]}
    BY <1>1, <1>16, <1>18 DEF Placed
  <2>3. On(kernel') = {x \in All : ~InHand(x)' /\ ~Unlisted(x)'}
    BY <2>2, <2>1, <1>7, <1>23, <1>8, <1>6
  <2>4. \A x \in All : Exists(x) => Exists(x)'
    BY <1>21, <1>5 DEF Exists
  <2>5. \A x \in Range(kernel'.pending) : Exists(x)'
    BY <1>1, <1>2, <1>16, <2>4 DEF Placed
  <2>6. \A x \in Range(kernel'.term) : pc'[x] = "deleted"
    BY <1>1, <1>2, <1>16, <1>18, <1>19, <1>21, <1>5 DEF Placed
  <2>7. QED
    BY <2>3, <2>5, <2>6 DEF Placed
<1>26. Depths'
  BY <1>1, <1>5, <1>6, <1>7, <1>8, <1>16, <1>15, <1>18, <1>19, <1>21, <1>22, <1>23, <1>20,
     <1>2 DEF Depths, Locks
<1>27. Hands'
  BY <1>1, <1>5, <1>6, <1>7, <1>8, <1>16, <1>15, <1>18, <1>19, <1>21, <1>22, <1>23, <1>20,
     <1>2 DEF Hands, Exists, Locks
<1>28. Runs'
  BY <1>1, <1>5, <1>6, <1>7, <1>8, <1>16, <1>15, <1>18, <1>19, <1>21, <1>22, <1>23, <1>20,
     <1>2 DEF Runs
<1>29. Parks'
  BY <1>1, <1>5, <1>6, <1>7, <1>8, <1>16, <1>15, <1>18, <1>19, <1>21, <1>22, <1>23, <1>20,
     <1>2 DEF Parks, Exists
<1>30. Waiting'
  BY <1>1, <1>5, <1>6, <1>7, <1>8, <1>16, <1>15, <1>18, <1>19, <1>21, <1>22, <1>23, <1>20,
     <1>2 DEF Waiting
<1>31. Running'
  BY <1>1, <1>5, <1>6, <1>7, <1>8, <1>16, <1>15, <1>18, <1>19, <1>21, <1>22, <1>23, <1>20,
     <1>2 DEF Running
<1>32. Notices'
  <2>1. ASSUME NEW x \in Tasks, pc'[x] = "notified", ~parked'[x], notify'[x] # "waiting"
        PROVE  x \in Ready(kernel') \/ x \in Range(kernel'.pending) \/ InHand(x)'
    <3>1. x # t /\ pc[x] = "notified" /\ ~parked[x] /\ notify[x] # "waiting"
      BY <1>2, <2>1, <1>21, <1>20
    <3>2. x \in Ready(kernel) \/ x \in Range(kernel.pending) \/ x = target[t]
      BY <2>1, <1>2, <1>1, <3>1, <1>7 DEF Notices
    <3>3. QED
      BY <3>1, <3>2, <1>2, <1>19, <1>16, <1>18
  <2>2. QED
    BY <2>1 DEF Notices
<1>33. Periods'
  BY <1>1, <1>5, <1>6, <1>7, <1>8, <1>16, <1>15, <1>18, <1>19, <1>21, <1>22, <1>23, <1>20,
     <1>2 DEF Periods
<1>34. QED
  BY <1>19, <1>24, <1>25, <1>26, <1>27, <1>28, <1>29, <1>30, <1>31, <1>32, <1>33 DEF
     SchedInv

(* vTaskPrioritySet keeps the invariant.                                   *)
LEMMA PrioritySetStep ==
    ASSUME SchedInv, NEW t \in Tasks, NEW u \in Targets, NEW p \in Priorities, PrioritySet(t, u, p)
    PROVE  SchedInv'
<1>1. /\ TypeOK /\ Sound(kernel) /\ Timely(kernel) /\ Placed /\ Depths /\ Hands
      /\ Runs /\ Parks /\ Waiting /\ Notices /\ Periods
  BY DEF SchedInv
<1>2. /\ Tasks \subseteq All /\ Idle \in All /\ Idle \notin Tasks
      /\ Range(kernel.pending) \subseteq Tasks /\ Range(kernel.term) \subseteq Tasks
  BY <1>1, Constants, ListsOfTasks DEF Sound
<1>3. /\ pc \in [All -> Labels] /\ ticks \in [All -> Ticks] /\ target \in [All -> All]
      /\ notify \in [Tasks -> {"none", "waiting", "received"}] /\ parked \in [Tasks -> BOOLEAN]
      /\ previous \in [Tasks -> Ticks] /\ ahead \in [Tasks -> -Wrap .. Wrap] /\ msip \in BOOLEAN
  BY <1>1 DEF TypeOK
<1>4. At(t, "app") /\ t \in All
  BY Constants DEF PrioritySet, MayCall
<1>5. /\ kernel.current = t /\ ~msip /\ pc[t] = "app" /\ High(kernel)
      /\ t \in Ready(kernel) /\ t \notin Range(kernel.suspended) /\ t \in On(kernel)
      /\ ~InHand(t) /\ ~Unlisted(t) /\ ~parked[t] /\ t \in All
      /\ \A x \in All : pc[x] \notin Locks /\ ~InHand(x)
  BY <1>4, Caller DEF Locks
<1>6. /\ u \in Tasks /\ u \in All /\ u # Idle
      /\ Exists(u) => ~Unlisted(u) /\ u \notin Range(kernel.term)
      /\ Exists(u) /\ ~InHand(u) => u \in On(kernel)
      /\ pc[u] = "freed" => u \notin On(kernel) /\ u \notin Range(kernel.pending)
      /\ u \in Range(kernel.pending) => Exists(u)
  BY WaitsAreTicks, Present
<1>7. kernel.prio[u] \in Nat /\ kernel.prio[t] \in Nat
  BY <1>1, <1>2, <1>6, <1>5, KernelTypes, Constants DEF Sound
<1> DEFINE old == kernel.prio[u]
           c == IF p > old THEN u # t /\ p >= kernel.prio[t] ELSE u = t
<1>8. Exists(u) /\ kernel.depth \in 0 .. 1 /\ p \in Nat
  BY <1>1, <1>5, Constants DEF PrioritySet, Depths
<1>9. msip' = (msip \/ c) /\ p # old
  BY DEF PrioritySet, YieldIf
<1>10. c \in BOOLEAN
  BY <1>7, <1>8
<1>11. msip' \in BOOLEAN /\ (c => msip')
  BY <1>9, <1>10, <1>5
<1>12. u \in Range(kernel.ready[old]) <=> u \in Ready(kernel)
  BY <1>6 DEF Ready
<1>13. UNCHANGED <<pc, target, ticks, notify, previous, ahead, parked>>
  BY DEF PrioritySet, Stay, Keep, frame, periods
<1>14. /\ Moved(kernel, kernel', u) /\ Timely(kernel')
       /\ On(kernel') = On(kernel) /\ (u \in Ready(kernel) <=> u \in Ready(kernel'))
       /\ u \in Range(kernel'.suspended) <=> u \in Range(kernel.suspended)
       /\ u \in Range(kernel'.term) <=> u \in Range(kernel.term)
       /\ kernel'.pending = kernel.pending
       /\ c \/ High(kernel')
  <2>1. CASE u \in Ready(kernel)
    <3>1. kernel' = MakeReady([kernel EXCEPT !.prio[u] = p], u)
      BY <2>1, <1>12 DEF PrioritySet, Set
    <3>2. /\ Moved(kernel, kernel', u) /\ Timely(kernel')
          /\ Ready(kernel') = Ready(kernel) \cup {u} /\ On(kernel') = On(kernel) \cup {u}
          /\ u \notin Range(kernel'.suspended) /\ u \notin Range(kernel'.term)
          /\ kernel'.pending = kernel.pending
          /\ kernel'.prio = [kernel.prio EXCEPT ![u] = p] /\ kernel'.yield = kernel.yield
          /\ High(kernel) /\ u # kernel.current /\ p <= kernel.prio[kernel.current] => High(kernel')
          /\ High(kernel) /\ u = kernel.current /\ p >= kernel.prio[u] => High(kernel')
      BY <1>1, <1>6, <3>1, PricingReady
    <3>3. u \notin Range(kernel.suspended) /\ u \notin Range(kernel.term) /\ u \in On(kernel)
      BY <1>1, <2>1 DEF Sound, Apart, On
    <3>4. c \/ High(kernel')
      <4>1. CASE kernel.yield
        BY <4>1, <3>2 DEF High
      <4>2. CASE ~kernel.yield
        <5>1. old <= kernel.prio[t]
          BY <4>2, <2>1, <1>5 DEF High
        <5>2. QED
          BY <5>1, <3>2, <1>5, <1>7, <1>8, <1>9
      <4>3. QED
        BY <4>1, <4>2
    <3> HIDE DEF c, old
    <3>5. QED
      BY <2>1, <3>2, <3>3, <3>4
  <2>2. CASE u \notin Ready(kernel)
    <3>1. kernel' = [kernel EXCEPT !.prio[u] = p]
      BY <2>2, <1>12 DEF PrioritySet, Set
    <3> HIDE DEF c, old
    <3>2. /\ Moved(kernel, kernel', u) /\ Timely(kernel')
          /\ Ready(kernel') = Ready(kernel) /\ On(kernel') = On(kernel) /\ Asleep(kernel') = Asleep(kernel)
          /\ kernel'.suspended = kernel.suspended /\ kernel'.term = kernel.term /\ kernel'.pending = kernel.pending
          /\ High(kernel) /\ u # kernel.current => High(kernel')
      BY <1>1, <1>6, <2>2, <3>1, Pricing
    <3>3. QED
      BY <3>2, <1>5, <2>2
  <2>3. QED
    BY <2>1, <2>2
<1> HIDE DEF c, old
<1>15. /\ Sound(kernel') /\ Timely(kernel') /\ kernel' \in Kernels
       /\ kernel'.tick = kernel.tick /\ kernel'.pended = kernel.pended
       /\ kernel'.current = kernel.current /\ kernel'.depth = kernel.depth
       /\ \A x : x # u =>
             /\ x \in Ready(kernel') <=> x \in Ready(kernel)
             /\ x \in On(kernel') <=> x \in On(kernel)
             /\ x \in Range(kernel'.suspended) <=> x \in Range(kernel.suspended)
             /\ x \in Range(kernel'.term) <=> x \in Range(kernel.term)
             /\ x \in Range(kernel'.pending) <=> x \in Range(kernel.pending)
  BY <1>14, MovedOthers
<1>16. TypeOK'
  BY <1>3, <1>15, <1>11, <1>13 DEF TypeOK, Labels, Sound
<1>17. Placed'
  BY <1>1, <1>5, <1>6, <1>8, <1>11, <1>14, <1>15, <1>13, <1>2 DEF Placed, InHand, Unlisted,
     Exists
<1>18. Depths'
  BY <1>1, <1>5, <1>6, <1>8, <1>11, <1>14, <1>15, <1>13, <1>2 DEF Depths, Locks
<1>19. Hands'
  BY <1>1, <1>5, <1>6, <1>8, <1>11, <1>14, <1>15, <1>13, <1>2 DEF Hands, Exists, Locks
<1>20. Runs'
  BY <1>1, <1>5, <1>6, <1>8, <1>11, <1>14, <1>15, <1>13, <1>2 DEF Runs
<1>21. Parks'
  BY <1>1, <1>5, <1>6, <1>8, <1>11, <1>14, <1>15, <1>13, <1>2 DEF Parks, Exists
<1>22. Waiting'
  BY <1>1, <1>5, <1>6, <1>8, <1>11, <1>14, <1>15, <1>13, <1>2 DEF Waiting
<1>23. Running'
  BY <1>1, <1>5, <1>6, <1>8, <1>11, <1>14, <1>15, <1>13, <1>2 DEF Running
<1>24. Notices'
  BY <1>1, <1>5, <1>6, <1>8, <1>11, <1>14, <1>15, <1>13, <1>2 DEF Notices, InHand, Locks
<1>25. Periods'
  BY <1>1, <1>5, <1>6, <1>8, <1>11, <1>14, <1>15, <1>13, <1>2 DEF Periods
<1>26. QED
  BY <1>15, <1>16, <1>17, <1>18, <1>19, <1>20, <1>21, <1>22, <1>23, <1>24, <1>25 DEF
     SchedInv

(* xTaskNotifyWait keeps the invariant.                                    *)
LEMMA NotifyWaitStep ==
    ASSUME SchedInv, NEW t \in Tasks, NotifyWait(t)
    PROVE  SchedInv'
<1>1. /\ TypeOK /\ Sound(kernel) /\ Timely(kernel) /\ Placed /\ Depths /\ Hands
      /\ Runs /\ Parks /\ Waiting /\ Notices /\ Periods
  BY DEF SchedInv
<1>2. /\ Tasks \subseteq All /\ Idle \in All /\ Idle \notin Tasks
      /\ Range(kernel.pending) \subseteq Tasks /\ Range(kernel.term) \subseteq Tasks
  BY <1>1, Constants, ListsOfTasks DEF Sound
<1>3. /\ pc \in [All -> Labels] /\ ticks \in [All -> Ticks] /\ target \in [All -> All]
      /\ notify \in [Tasks -> {"none", "waiting", "received"}] /\ parked \in [Tasks -> BOOLEAN]
      /\ previous \in [Tasks -> Ticks] /\ ahead \in [Tasks -> -Wrap .. Wrap] /\ msip \in BOOLEAN
  BY <1>1 DEF TypeOK
<1>4. At(t, "app") /\ t \in All
  BY Constants DEF NotifyWait, MayBlock
<1>5. /\ kernel.current = t /\ ~msip /\ pc[t] = "app" /\ High(kernel)
      /\ t \in Ready(kernel) /\ t \notin Range(kernel.suspended) /\ t \in On(kernel)
      /\ ~InHand(t) /\ ~Unlisted(t) /\ ~parked[t] /\ t \in All
      /\ \A x \in All : pc[x] \notin Locks /\ ~InHand(x)
  BY <1>4, Caller DEF Locks
<1>6. kernel.depth = 0 /\ Range(kernel.pending) = {}
  BY <1>1 DEF NotifyWait, MayBlock, Depths
<1>7. /\ pc' = [pc EXCEPT ![t] = "notified"]
      /\ UNCHANGED <<ticks, target, previous, ahead, parked>>
  BY DEF NotifyWait, Goto, periods
<1>8. \A x \in All : pc'[x] = IF x = t THEN "notified" ELSE pc[x]
  BY <1>3, <1>5, <1>7
<1>9. CASE notify[t] = "received"
  <2>1. UNCHANGED <<kernel, msip, notify>> /\ Sound(kernel') /\ Timely(kernel')
    BY <1>1, <1>9 DEF NotifyWait
  <2>2. TypeOK'
    BY <1>3, <2>1, <1>7 DEF TypeOK, Labels, Sound
  <2>3. Placed'
    BY <1>1, <1>5, <1>6, <1>9, <2>1, <1>8, <1>7, <1>2 DEF Placed, InHand, Unlisted, Exists
  <2>4. Depths'
    BY <1>1, <1>5, <1>6, <1>9, <2>1, <1>8, <1>7, <1>2 DEF Depths, Locks
  <2>5. Hands'
    BY <1>1, <1>5, <1>6, <1>9, <2>1, <1>8, <1>7, <1>2 DEF Hands, Exists, Locks
  <2>6. Runs'
    BY <1>1, <1>5, <1>6, <1>9, <2>1, <1>8, <1>7, <1>2 DEF Runs
  <2>7. Parks'
    BY <1>1, <1>5, <1>6, <1>9, <2>1, <1>8, <1>7, <1>2 DEF Parks, Exists
  <2>8. Waiting'
    BY <1>1, <1>5, <1>6, <1>9, <2>1, <1>8, <1>7, <1>2 DEF Waiting
  <2>9. Running'
    BY <1>1, <1>5, <1>6, <1>9, <2>1, <1>8, <1>7, <1>2 DEF Running
  <2>10. Notices'
    <3>1. ASSUME NEW x \in Tasks, pc'[x] = "notified", ~parked'[x], notify'[x] # "waiting"
          PROVE  x \in Ready(kernel') \/ x \in Range(kernel'.pending) \/ InHand(x)'
      <4>1. x # t => pc[x] = "notified"
        BY <1>2, <3>1, <1>8
      <4>2. x \in Ready(kernel) \/ x \in Range(kernel.pending)
        BY <3>1, <1>2, <1>1, <1>5, <2>1, <1>7, <4>1 DEF Notices
      <4>3. QED
        BY <4>1, <4>2, <1>2, <2>1
    <3>2. QED
      BY <3>1 DEF Notices
  <2>11. Periods'
    BY <1>1, <1>5, <1>6, <1>9, <2>1, <1>8, <1>7, <1>2 DEF Periods
  <2>12. QED
    BY <2>1, <2>2, <2>3, <2>4, <2>5, <2>6, <2>7, <2>8, <2>9, <2>10, <2>11 DEF SchedInv
<1>10. CASE notify[t] # "received"
  <2>1. PICK n \in Waits[t] : /\ Set(IF n > 0 THEN Block(kernel, n, TRUE) ELSE kernel)
                               /\ YieldIf(n > 0)
    BY <1>10 DEF NotifyWait
  <2>2. notify' = [notify EXCEPT ![t] = "waiting"]
    BY <1>10 DEF NotifyWait
  <2>3. \A x \in Tasks : notify'[x] = IF x = t THEN "waiting" ELSE notify[x]
    BY <1>3, <2>2
  <2>4. n \in Ticks /\ n \in Nat /\ kernel.current \in Tasks /\ TRUE \in BOOLEAN
    BY <1>5, WaitsAreTicks, Constants
  <2>5. CASE n > 0
    <3>1. msip' = TRUE
      BY <2>1, <2>5, <1>5 DEF YieldIf
    <3>2. n # 0
      BY <2>5
    <3>3. /\ Moved(kernel, kernel', t) /\ Timely(kernel')
          /\ Ready(kernel') = Ready(kernel) \ {t} /\ On(kernel') = On(kernel) \cup {t}
          /\ t \notin Range(kernel'.term)
          /\ kernel'.pending = kernel.pending /\ High(kernel')
      <4>1. kernel' = Block(kernel, n, TRUE)
        BY <2>1, <2>5 DEF Set
      <4>2. QED
        BY <1>1, <1>5, <2>4, <3>2, <4>1, Sleeping
    <3>4. /\ Sound(kernel') /\ Timely(kernel') /\ kernel' \in Kernels
          /\ kernel'.tick = kernel.tick /\ kernel'.pended = kernel.pended
          /\ kernel'.current = kernel.current /\ kernel'.depth = kernel.depth
          /\ \A x : x # t =>
                /\ x \in Ready(kernel') <=> x \in Ready(kernel)
                /\ x \in On(kernel') <=> x \in On(kernel)
                /\ x \in Range(kernel'.suspended) <=> x \in Range(kernel.suspended)
                /\ x \in Range(kernel'.term) <=> x \in Range(kernel.term)
                /\ x \in Range(kernel'.pending) <=> x \in Range(kernel.pending)
      BY <3>3, MovedOthers
    <3>5. TypeOK'
      BY <1>3, <3>4, <1>7, <2>2, <3>1 DEF TypeOK, Labels, Sound
    <3>6. Placed'
      BY <1>1, <1>5, <1>6, <2>2, <2>3, <3>1, <3>3, <3>4, <1>8, <1>7, <1>2 DEF Placed,
         InHand, Unlisted, Exists
    <3>7. Depths'
      BY <1>1, <1>5, <1>6, <2>2, <2>3, <3>1, <3>3, <3>4, <1>8, <1>7, <1>2 DEF Depths, Locks
    <3>8. Hands'
      BY <1>1, <1>5, <1>6, <2>2, <2>3, <3>1, <3>3, <3>4, <1>8, <1>7, <1>2 DEF Hands, Exists,
         Locks
    <3>9. Runs'
      BY <1>1, <1>5, <1>6, <2>2, <2>3, <3>1, <3>3, <3>4, <1>8, <1>7, <1>2 DEF Runs
    <3>10. Parks'
      BY <1>1, <1>2, <1>5, <2>3, <3>4, <1>8, <1>7 DEF Parks, Exists
    <3>11. Waiting'
      BY <1>1, <1>5, <1>6, <2>2, <2>3, <3>1, <3>3, <3>4, <1>8, <1>7, <1>2 DEF Waiting
    <3>12. Running'
      BY <1>1, <1>5, <1>6, <2>2, <2>3, <3>1, <3>3, <3>4, <1>8, <1>7, <1>2 DEF Running
    <3>13. Notices'
      <4>1. ASSUME NEW x \in Tasks, pc'[x] = "notified", ~parked'[x], notify'[x] # "waiting"
            PROVE  x \in Ready(kernel') \/ x \in Range(kernel'.pending) \/ InHand(x)'
        <5>1. x # t /\ pc[x] = "notified" /\ notify[x] # "waiting" /\ ~parked[x]
          BY <1>2, <4>1, <1>8, <2>3, <1>7
        <5>2. x \in Ready(kernel) \/ x \in Range(kernel.pending)
          BY <4>1, <1>2, <1>1, <1>5, <5>1 DEF Notices
        <5>3. QED
          BY <5>1, <5>2, <1>2, <3>4
      <4>2. QED
        BY <4>1 DEF Notices
    <3>14. Periods'
      BY <1>1, <1>5, <1>6, <2>2, <2>3, <3>1, <3>3, <3>4, <1>8, <1>7, <1>2 DEF Periods
    <3>15. QED
      BY <3>4, <3>5, <3>6, <3>7, <3>8, <3>9, <3>10, <3>11, <3>12, <3>13, <3>14 DEF SchedInv
  <2>6. CASE n = 0
    <3>1. msip' = FALSE
      <4>1. msip' = (msip \/ n > 0)
        BY <2>1 DEF YieldIf
      <4>2. ~(n > 0)
        BY <2>6
      <4>3. QED
        BY <4>1, <4>2, <1>5
    <3>2. kernel' = kernel /\ Sound(kernel') /\ Timely(kernel')
      BY <1>1, <2>1, <2>6 DEF Set
    <3>3. TypeOK'
      BY <1>3, <3>2, <1>7, <2>2, <3>1 DEF TypeOK, Labels, Sound
    <3>4. Placed'
      BY <1>1, <1>5, <1>6, <2>2, <2>3, <3>1, <3>2, <1>8, <1>7, <1>2 DEF Placed, InHand,
         Unlisted, Exists
    <3>5. Depths'
      BY <1>1, <1>5, <1>6, <2>2, <2>3, <3>1, <3>2, <1>8, <1>7, <1>2 DEF Depths, Locks
    <3>6. Hands'
      BY <1>1, <1>5, <1>6, <2>2, <2>3, <3>1, <3>2, <1>8, <1>7, <1>2 DEF Hands, Exists, Locks
    <3>7. Runs'
      BY <1>1, <1>5, <1>6, <2>2, <2>3, <3>1, <3>2, <1>8, <1>7, <1>2 DEF Runs
    <3>8. Parks'
      BY <1>1, <1>5, <1>6, <2>2, <2>3, <3>1, <3>2, <1>8, <1>7, <1>2 DEF Parks, Exists
    <3>9. Waiting'
      BY <1>1, <1>5, <1>6, <2>2, <2>3, <3>1, <3>2, <1>8, <1>7, <1>2 DEF Waiting
    <3>10. Running'
      BY <1>1, <1>5, <1>6, <2>2, <2>3, <3>1, <3>2, <1>8, <1>7, <1>2 DEF Running
    <3>11. Notices'
      <4>1. ASSUME NEW x \in Tasks, pc'[x] = "notified", ~parked'[x], notify'[x] # "waiting"
            PROVE  x \in Ready(kernel') \/ x \in Range(kernel'.pending) \/ InHand(x)'
        <5>1. x # t /\ pc[x] = "notified" /\ notify[x] # "waiting" /\ ~parked[x]
          BY <1>2, <4>1, <1>8, <2>3, <1>7
        <5>2. x \in Ready(kernel) \/ x \in Range(kernel.pending)
          BY <4>1, <1>2, <1>1, <1>5, <5>1 DEF Notices
        <5>3. QED
          BY <5>1, <5>2, <1>2, <3>2
      <4>2. QED
        BY <4>1 DEF Notices
    <3>12. Periods'
      BY <1>1, <1>5, <1>6, <2>2, <2>3, <3>1, <3>2, <1>8, <1>7, <1>2 DEF Periods
    <3>13. QED
      BY <3>2, <3>3, <3>4, <3>5, <3>6, <3>7, <3>8, <3>9, <3>10, <3>11, <3>12 DEF SchedInv
  <2>7. QED
    BY <2>4, <2>5, <2>6
<1>11. QED
  BY <1>9, <1>10

(* The end of xTaskNotifyWait keeps the invariant.                         *)
LEMMA NotifiedStep ==
    ASSUME SchedInv, NEW t \in Tasks, Notified(t)
    PROVE  SchedInv'
<1>1. /\ TypeOK /\ Sound(kernel) /\ Timely(kernel) /\ Placed /\ Depths /\ Hands
      /\ Runs /\ Parks /\ Waiting /\ Notices /\ Periods
  BY DEF SchedInv
<1>2. /\ Tasks \subseteq All /\ Idle \in All /\ Idle \notin Tasks
      /\ Range(kernel.pending) \subseteq Tasks /\ Range(kernel.term) \subseteq Tasks
  BY <1>1, Constants, ListsOfTasks DEF Sound
<1>3. /\ pc \in [All -> Labels] /\ ticks \in [All -> Ticks] /\ target \in [All -> All]
      /\ notify \in [Tasks -> {"none", "waiting", "received"}] /\ parked \in [Tasks -> BOOLEAN]
      /\ previous \in [Tasks -> Ticks] /\ ahead \in [Tasks -> -Wrap .. Wrap] /\ msip \in BOOLEAN
  BY <1>1 DEF TypeOK
<1>4. At(t, "notified") /\ t \in All
  BY Constants DEF Notified
<1>5. /\ kernel.current = t /\ ~msip /\ pc[t] = "notified" /\ High(kernel)
      /\ t \in Ready(kernel) /\ t \notin Range(kernel.suspended) /\ t \in On(kernel)
      /\ ~InHand(t) /\ ~Unlisted(t) /\ ~parked[t] /\ t \in All
      /\ \A x \in All : pc[x] \notin Locks /\ ~InHand(x)
  BY <1>4, Caller DEF Locks
<1>6. kernel.depth = 0
  BY <1>1, <1>5 DEF Depths
<1>7. kernel' = kernel /\ Sound(kernel') /\ Timely(kernel')
  BY <1>1 DEF Notified
<1>8. /\ pc' = [pc EXCEPT ![t] = "app"] /\ notify' = [notify EXCEPT ![t] = "none"]
      /\ UNCHANGED <<msip, ticks, target, previous, ahead, parked>>
  BY DEF Notified, Goto, periods
<1>9. \A x \in All : pc'[x] = IF x = t THEN "app" ELSE pc[x]
  BY <1>3, <1>2, <1>8
<1>10. \A x \in Tasks : notify'[x] = IF x = t THEN "none" ELSE notify[x]
  BY <1>3, <1>2, <1>8
<1>11. TypeOK'
  BY <1>3, <1>7, <1>8 DEF TypeOK, Labels, Sound
<1>12. Placed'
  BY <1>1, <1>5, <1>6, <1>7, <1>9, <1>10, <1>8, <1>2 DEF Placed, InHand, Unlisted, Exists
<1>13. Depths'
  BY <1>1, <1>5, <1>6, <1>7, <1>9, <1>10, <1>8, <1>2 DEF Depths, Locks
<1>14. Hands'
  BY <1>1, <1>5, <1>6, <1>7, <1>9, <1>10, <1>8, <1>2 DEF Hands, Exists, Locks
<1>15. Runs'
  BY <1>1, <1>5, <1>6, <1>7, <1>9, <1>10, <1>8, <1>2 DEF Runs
<1>16. Parks'
  BY <1>1, <1>5, <1>6, <1>7, <1>9, <1>10, <1>8, <1>2 DEF Parks, Exists
<1>17. Waiting'
  BY <1>1, <1>5, <1>6, <1>7, <1>9, <1>10, <1>8, <1>2 DEF Waiting
<1>18. Running'
  BY <1>1, <1>5, <1>6, <1>7, <1>9, <1>10, <1>8, <1>2 DEF Running
<1>19. Notices'
  <2>1. ASSUME NEW x \in Tasks, pc'[x] = "notified", ~parked'[x], notify'[x] # "waiting"
        PROVE  x \in Ready(kernel') \/ x \in Range(kernel'.pending) \/ InHand(x)'
    <3>1. x # t /\ pc[x] = "notified" /\ notify[x] # "waiting" /\ ~parked[x]
      BY <1>2, <2>1, <1>9, <1>10, <1>8
    <3>2. x \in Ready(kernel) \/ x \in Range(kernel.pending)
      BY <2>1, <1>2, <1>1, <1>5, <3>1 DEF Notices
    <3>3. QED
      BY <3>1, <3>2, <1>2, <1>7
  <2>2. QED
    BY <2>1 DEF Notices
<1>20. Periods'
  BY <1>1, <1>5, <1>6, <1>7, <1>9, <1>10, <1>8, <1>2 DEF Periods
<1>21. QED
  BY <1>7, <1>11, <1>12, <1>13, <1>14, <1>15, <1>16, <1>17, <1>18, <1>19, <1>20 DEF SchedInv

(* xTaskGenericNotify keeps the invariant.                                 *)
LEMMA NotifyStep ==
    ASSUME SchedInv, NEW t \in Tasks, NEW u \in Targets, Notify(t, u)
    PROVE  SchedInv'
<1>1. /\ TypeOK /\ Sound(kernel) /\ Timely(kernel) /\ Placed /\ Depths /\ Hands
      /\ Runs /\ Parks /\ Waiting /\ Notices /\ Periods
  BY DEF SchedInv
<1>2. /\ Tasks \subseteq All /\ Idle \in All /\ Idle \notin Tasks
      /\ Range(kernel.pending) \subseteq Tasks /\ Range(kernel.term) \subseteq Tasks
  BY <1>1, Constants, ListsOfTasks DEF Sound
<1>3. /\ pc \in [All -> Labels] /\ ticks \in [All -> Ticks] /\ target \in [All -> All]
      /\ notify \in [Tasks -> {"none", "waiting", "received"}] /\ parked \in [Tasks -> BOOLEAN]
      /\ previous \in [Tasks -> Ticks] /\ ahead \in [Tasks -> -Wrap .. Wrap] /\ msip \in BOOLEAN
  BY <1>1 DEF TypeOK
<1>4. At(t, "app") /\ t \in All
  BY Constants DEF Notify, MayCall
<1>5. /\ kernel.current = t /\ ~msip /\ pc[t] = "app" /\ High(kernel)
      /\ t \in Ready(kernel) /\ t \notin Range(kernel.suspended) /\ t \in On(kernel)
      /\ ~InHand(t) /\ ~Unlisted(t) /\ ~parked[t] /\ t \in All
      /\ \A x \in All : pc[x] \notin Locks /\ ~InHand(x)
  BY <1>4, Caller DEF Locks
<1>6. /\ u \in Tasks /\ u \in All /\ u # Idle
      /\ Exists(u) => ~Unlisted(u) /\ u \notin Range(kernel.term)
      /\ Exists(u) /\ ~InHand(u) => u \in On(kernel)
      /\ pc[u] = "freed" => u \notin On(kernel) /\ u \notin Range(kernel.pending)
      /\ u \in Range(kernel.pending) => Exists(u)
  BY WaitsAreTicks, Present
<1>7. kernel.prio[u] \in Nat /\ kernel.prio[t] \in Nat
  BY <1>1, <1>2, <1>6, <1>5, KernelTypes, Constants DEF Sound
<1>8. Exists(u) /\ kernel.depth \in 0 .. 1
  BY <1>1, <1>5 DEF Notify, Depths
<1>9. /\ notify' = [notify EXCEPT ![u] = "received"]
      /\ UNCHANGED <<pc, ticks, target, previous, ahead, parked>>
  BY DEF Notify, Stay, frame, periods
<1>10. \A x \in Tasks : notify'[x] = IF x = u THEN "received" ELSE notify[x]
  BY <1>3, <1>2, <1>9
<1>11. CASE notify[u] = "waiting"
  <2>1. /\ pc[u] = "notified" /\ u # t /\ u \notin Range(kernel.pending) /\ u \in On(kernel)
        /\ ~parked[u]
    BY <1>1, <1>11, <1>5, <1>6, <1>8 DEF Waiting, Parks
  <2>2. /\ msip' \in BOOLEAN /\ (kernel.prio[u] > kernel.prio[t] => msip')
    <3>1. msip' = (msip \/ kernel.prio[u] > kernel.prio[t])
      BY <1>11 DEF Notify, YieldIf
    <3>2. QED
      BY <3>1, <1>7, <1>5
  <2> DEFINE k1 == MakeReady(kernel, u)
  <2>3. kernel' = ResetUnblock(k1)
    BY <1>11 DEF Notify, Set
  <2>4. /\ Moved(kernel, k1, u) /\ Timely(k1)
        /\ Ready(k1) = Ready(kernel) \cup {u} /\ On(k1) = On(kernel) \cup {u}
        /\ u \notin Range(k1.suspended) /\ u \notin Range(k1.term) /\ k1.pending = kernel.pending
        /\ kernel.prio[u] <= kernel.prio[t] => High(k1)
    <3>1. k1 = MakeReady(kernel, u)
      OBVIOUS
    <3> HIDE DEF k1
    <3>2. QED
      BY <3>1, <1>1, <1>6, <1>5, Readying
  <2> HIDE DEF k1
  <2>5. /\ Like(k1, kernel') /\ kernel'.current = k1.current /\ kernel'.depth = k1.depth
        /\ kernel'.pended = k1.pended /\ (High(k1) => High(kernel'))
    BY <2>3, <2>4, LikeReset DEF Moved
  <2>6. /\ Moved(kernel, kernel', u) /\ Timely(kernel')
        /\ On(kernel') = On(kernel) \cup {u} /\ Ready(kernel') = Ready(kernel) \cup {u}
        /\ u \notin Range(kernel'.suspended) /\ u \notin Range(kernel'.term)
        /\ Range(kernel'.pending) = Range(kernel.pending)
    <3>1. Moved(kernel, kernel', u)
      BY <2>4, <2>5, <1>2 DEF Moved, Like
    <3>2. QED
      BY <3>1, <2>4, <2>5 DEF Like
  <2>7. /\ Sound(kernel') /\ Timely(kernel') /\ kernel' \in Kernels
        /\ kernel'.tick = kernel.tick /\ kernel'.pended = kernel.pended
        /\ kernel'.current = kernel.current /\ kernel'.depth = kernel.depth
        /\ \A x : x # u =>
              /\ x \in Ready(kernel') <=> x \in Ready(kernel)
              /\ x \in On(kernel') <=> x \in On(kernel)
              /\ x \in Range(kernel'.suspended) <=> x \in Range(kernel.suspended)
              /\ x \in Range(kernel'.term) <=> x \in Range(kernel.term)
              /\ x \in Range(kernel'.pending) <=> x \in Range(kernel.pending)
    BY <2>6, MovedOthers
  <2>8. Running'
    BY <2>4, <2>5, <2>2, <1>7 DEF Running
  <2>9. TypeOK'
    BY <1>3, <2>7, <1>9, <2>2 DEF TypeOK, Labels, Sound
  <2>10. Placed'
    BY <1>1, <1>5, <1>6, <1>8, <2>1, <2>2, <2>6, <2>7, <1>10, <1>9, <1>2 DEF Placed, InHand,
       Unlisted, Exists
  <2>11. Depths'
    BY <1>1, <1>5, <1>6, <1>8, <2>1, <2>2, <2>6, <2>7, <1>10, <1>9, <1>2 DEF Depths, Locks
  <2>12. Hands'
    BY <1>1, <1>5, <1>6, <1>8, <2>1, <2>2, <2>6, <2>7, <1>10, <1>9, <1>2 DEF Hands, Exists,
       Locks
  <2>13. Runs'
    BY <1>1, <1>5, <1>6, <1>8, <2>1, <2>2, <2>6, <2>7, <1>10, <1>9, <1>2 DEF Runs
  <2>14. Parks'
    BY <1>1, <1>5, <1>6, <1>8, <2>1, <2>2, <2>6, <2>7, <1>10, <1>9, <1>2 DEF Parks, Exists
  <2>15. Waiting'
    BY <1>1, <1>5, <1>6, <1>8, <2>1, <2>2, <2>6, <2>7, <1>10, <1>9, <1>2 DEF Waiting
  <2>16. Running'
    BY <2>8
  <2>17. Notices'
    <3>1. ASSUME NEW x \in Tasks, pc'[x] = "notified", ~parked'[x], notify'[x] # "waiting"
          PROVE  x \in Ready(kernel') \/ x \in Range(kernel'.pending) \/ InHand(x)'
      <4>1. pc[x] = "notified" /\ (x # u => notify[x] # "waiting") /\ ~parked[x]
        BY <1>2, <3>1, <1>10, <1>9
      <4>2. x # u => x \in Ready(kernel) \/ x \in Range(kernel.pending)
        BY <3>1, <1>2, <1>1, <1>5, <4>1 DEF Notices
      <4>3. QED
        BY <4>1, <4>2, <1>2, <2>7, <2>6
    <3>2. QED
      BY <3>1 DEF Notices
  <2>18. Periods'
    BY <1>1, <1>5, <1>6, <1>8, <2>1, <2>2, <2>6, <2>7, <1>10, <1>9, <1>2 DEF Periods
  <2>19. QED
    BY <2>7, <2>9, <2>10, <2>11, <2>12, <2>13, <2>14, <2>15, <2>16, <2>17, <2>18 DEF
       SchedInv
<1>12. CASE notify[u] # "waiting"
  <2>1. msip' = FALSE
    <3>1. msip' = (msip \/ (notify[u] = "waiting" /\ kernel.prio[u] > kernel.prio[t]))
      BY DEF Notify, YieldIf
    <3>2. QED
      BY <3>1, <1>12, <1>5
  <2>2. kernel' = kernel /\ Sound(kernel') /\ Timely(kernel')
    BY <1>1, <1>12 DEF Notify, Set
  <2>3. TypeOK'
    BY <1>3, <2>2, <1>9, <2>1 DEF TypeOK, Labels, Sound
  <2>4. Placed'
    BY <1>1, <1>5, <1>6, <1>8, <2>1, <2>2, <1>10, <1>9, <1>2 DEF Placed, InHand, Unlisted,
       Exists
  <2>5. Depths'
    BY <1>1, <1>5, <1>6, <1>8, <2>1, <2>2, <1>10, <1>9, <1>2 DEF Depths, Locks
  <2>6. Hands'
    BY <1>1, <1>5, <1>6, <1>8, <2>1, <2>2, <1>10, <1>9, <1>2 DEF Hands, Exists, Locks
  <2>7. Runs'
    BY <1>1, <1>5, <1>6, <1>8, <2>1, <2>2, <1>10, <1>9, <1>2 DEF Runs
  <2>8. Parks'
    BY <1>1, <1>5, <1>6, <1>8, <2>1, <2>2, <1>10, <1>9, <1>2 DEF Parks, Exists
  <2>9. Waiting'
    BY <1>1, <1>5, <1>6, <1>8, <2>1, <2>2, <1>10, <1>9, <1>2 DEF Waiting
  <2>10. Running'
    BY <1>1, <1>5, <1>6, <1>8, <2>1, <2>2, <1>10, <1>9, <1>2 DEF Running
  <2>11. Notices'
    <3>1. ASSUME NEW x \in Tasks, pc'[x] = "notified", ~parked'[x], notify'[x] # "waiting"
          PROVE  x \in Ready(kernel') \/ x \in Range(kernel'.pending) \/ InHand(x)'
      <4>1. pc[x] = "notified" /\ notify[x] # "waiting" /\ ~parked[x]
        BY <1>2, <3>1, <1>10, <1>9, <1>12
      <4>2. x \in Ready(kernel) \/ x \in Range(kernel.pending)
        BY <3>1, <1>2, <1>1, <1>5, <4>1 DEF Notices
      <4>3. QED
        BY <4>1, <4>2, <1>2, <2>2
    <3>2. QED
      BY <3>1 DEF Notices
  <2>12. Periods'
    BY <1>1, <1>5, <1>6, <1>8, <2>1, <2>2, <1>10, <1>9, <1>2 DEF Periods
  <2>13. QED
    BY <2>2, <2>3, <2>4, <2>5, <2>6, <2>7, <2>8, <2>9, <2>10, <2>11, <2>12 DEF SchedInv
<1>13. QED
  BY <1>11, <1>12

(* vTaskDelete of the caller keeps the invariant.                          *)
LEMMA DeleteSelfStep ==
    ASSUME SchedInv, NEW t \in Tasks, DeleteSelf(t)
    PROVE  SchedInv'
<1>1. /\ TypeOK /\ Sound(kernel) /\ Timely(kernel) /\ Placed /\ Depths /\ Hands
      /\ Runs /\ Parks /\ Waiting /\ Notices /\ Periods
  BY DEF SchedInv
<1>2. /\ Tasks \subseteq All /\ Idle \in All /\ Idle \notin Tasks
      /\ Range(kernel.pending) \subseteq Tasks /\ Range(kernel.term) \subseteq Tasks
  BY <1>1, Constants, ListsOfTasks DEF Sound
<1>3. /\ pc \in [All -> Labels] /\ ticks \in [All -> Ticks] /\ target \in [All -> All]
      /\ notify \in [Tasks -> {"none", "waiting", "received"}] /\ parked \in [Tasks -> BOOLEAN]
      /\ previous \in [Tasks -> Ticks] /\ ahead \in [Tasks -> -Wrap .. Wrap] /\ msip \in BOOLEAN
  BY <1>1 DEF TypeOK
<1>4. At(t, "app") /\ t \in All
  BY Constants DEF DeleteSelf, MayBlock
<1>5. /\ kernel.current = t /\ ~msip /\ pc[t] = "app" /\ High(kernel)
      /\ t \in Ready(kernel) /\ t \notin Range(kernel.suspended) /\ t \in On(kernel)
      /\ ~InHand(t) /\ ~Unlisted(t) /\ ~parked[t] /\ t \in All
      /\ \A x \in All : pc[x] \notin Locks /\ ~InHand(x)
  BY <1>4, Caller DEF Locks
<1>6. kernel.depth = 0 /\ Range(kernel.pending) = {}
  BY <1>1 DEF DeleteSelf, MayBlock, Depths
<1>7. /\ Moved(kernel, kernel', t) /\ Timely(kernel')
      /\ t \notin Ready(kernel') /\ t \in On(kernel') /\ t \notin Range(kernel'.suspended)
      /\ t \in Range(kernel'.term) /\ t \notin Range(kernel'.pending) /\ High(kernel')
  <2>1. kernel' = [Unpend(Unlist(kernel, t), t) EXCEPT !.term = Append(@, t)]
    BY DEF DeleteSelf, Set
  <2>2. QED
    BY <1>1, <1>5, <2>1, Terminating
<1>8. /\ Sound(kernel') /\ Timely(kernel') /\ kernel' \in Kernels
      /\ kernel'.tick = kernel.tick /\ kernel'.pended = kernel.pended
      /\ kernel'.current = kernel.current /\ kernel'.depth = kernel.depth
      /\ \A x : x # t =>
            /\ x \in Ready(kernel') <=> x \in Ready(kernel)
            /\ x \in On(kernel') <=> x \in On(kernel)
            /\ x \in Range(kernel'.suspended) <=> x \in Range(kernel.suspended)
            /\ x \in Range(kernel'.term) <=> x \in Range(kernel.term)
            /\ x \in Range(kernel'.pending) <=> x \in Range(kernel.pending)
  BY <1>7, MovedOthers
<1>9. /\ pc' = [pc EXCEPT ![t] = "deleted"]
      /\ UNCHANGED <<msip, ticks, target, notify, previous, ahead, parked>>
  BY DEF DeleteSelf, Goto, Keep, periods
<1>10. \A x \in All : pc'[x] = IF x = t THEN "deleted" ELSE pc[x]
  BY <1>3, <1>2, <1>9
<1>11. TypeOK'
  BY <1>3, <1>8, <1>9 DEF TypeOK, Labels, Sound
<1>12. Placed'
  BY <1>1, <1>5, <1>6, <1>7, <1>8, <1>10, <1>9, <1>2 DEF Placed, InHand, Unlisted, Exists
<1>13. Depths'
  BY <1>1, <1>5, <1>6, <1>7, <1>8, <1>10, <1>9, <1>2 DEF Depths, Locks
<1>14. Hands'
  BY <1>1, <1>5, <1>6, <1>7, <1>8, <1>10, <1>9, <1>2 DEF Hands, Exists, Locks
<1>15. Runs'
  BY <1>1, <1>5, <1>6, <1>7, <1>8, <1>10, <1>9, <1>2 DEF Runs
<1>16. Parks'
  BY <1>1, <1>5, <1>6, <1>7, <1>8, <1>10, <1>9, <1>2 DEF Parks, Exists
<1>17. Waiting'
  BY <1>1, <1>5, <1>6, <1>7, <1>8, <1>10, <1>9, <1>2 DEF Waiting
<1>18. Running'
  BY <1>1, <1>5, <1>6, <1>7, <1>8, <1>10, <1>9, <1>2 DEF Running
<1>19. Notices'
  <2>1. ASSUME NEW x \in Tasks, pc'[x] = "notified", ~parked'[x], notify'[x] # "waiting"
        PROVE  x \in Ready(kernel') \/ x \in Range(kernel'.pending) \/ InHand(x)'
    <3>1. x # t /\ pc[x] = "notified" /\ notify[x] # "waiting" /\ ~parked[x]
      BY <1>2, <2>1, <1>10, <1>9
    <3>2. x \in Ready(kernel) \/ x \in Range(kernel.pending)
      BY <2>1, <1>2, <1>1, <1>5, <3>1 DEF Notices
    <3>3. QED
      BY <3>1, <3>2, <1>2, <1>8
  <2>2. QED
    BY <2>1 DEF Notices
<1>20. Periods'
  BY <1>1, <1>5, <1>6, <1>7, <1>8, <1>10, <1>9, <1>2 DEF Periods
<1>21. QED
  BY <1>8, <1>11, <1>12, <1>13, <1>14, <1>15, <1>16, <1>17, <1>18, <1>19, <1>20 DEF SchedInv

(* Its yield keeps the invariant.                                          *)
LEMMA DeletedYieldsStep ==
    ASSUME SchedInv, NEW t \in Tasks, DeletedYields(t)
    PROVE  SchedInv'
<1>1. /\ TypeOK /\ Sound(kernel) /\ Timely(kernel) /\ Placed /\ Depths /\ Hands
      /\ Runs /\ Parks /\ Waiting /\ Notices /\ Periods
  BY DEF SchedInv
<1>2. /\ Tasks \subseteq All /\ Idle \in All /\ Idle \notin Tasks
      /\ Range(kernel.pending) \subseteq Tasks /\ Range(kernel.term) \subseteq Tasks
  BY <1>1, Constants, ListsOfTasks DEF Sound
<1>3. /\ pc \in [All -> Labels] /\ ticks \in [All -> Ticks] /\ target \in [All -> All]
      /\ notify \in [Tasks -> {"none", "waiting", "received"}] /\ parked \in [Tasks -> BOOLEAN]
      /\ previous \in [Tasks -> Ticks] /\ ahead \in [Tasks -> -Wrap .. Wrap] /\ msip \in BOOLEAN
  BY <1>1 DEF TypeOK
<1>4. At(t, "deleted") /\ t \in All
  BY Constants DEF DeletedYields
<1>5. /\ kernel.current = t /\ ~msip /\ pc[t] = "deleted" /\ High(kernel)
      /\ kernel.depth = 0
      /\ \A x \in All : pc[x] \notin Locks /\ ~InHand(x)
  BY <1>1, <1>4, Caller DEF Locks, Depths
<1>6. kernel' = kernel /\ Sound(kernel') /\ Timely(kernel')
  BY <1>1 DEF DeletedYields
<1>7. msip' = TRUE /\ UNCHANGED <<pc, ticks, target, notify, previous, ahead, parked>>
  BY DEF DeletedYields, YieldIf, Stay, Keep, frame, periods
<1>8. TypeOK'
  BY <1>3, <1>6, <1>7 DEF TypeOK, Labels, Sound
<1>9. Placed'
  BY <1>1, <1>5, <1>4, <1>6, <1>7, <1>2 DEF Placed, InHand, Unlisted, Exists
<1>10. Depths'
  BY <1>1, <1>5, <1>4, <1>6, <1>7, <1>2 DEF Depths, Locks
<1>11. Hands'
  BY <1>1, <1>5, <1>4, <1>6, <1>7, <1>2 DEF Hands, Exists, Locks
<1>12. Runs'
  BY <1>1, <1>5, <1>4, <1>6, <1>7, <1>2 DEF Runs
<1>13. Parks'
  BY <1>1, <1>5, <1>4, <1>6, <1>7, <1>2 DEF Parks, Exists
<1>14. Waiting'
  BY <1>1, <1>5, <1>4, <1>6, <1>7, <1>2 DEF Waiting
<1>15. Running'
  BY <1>1, <1>5, <1>4, <1>6, <1>7, <1>2 DEF Running
<1>16. Notices'
  BY <1>1, <1>5, <1>4, <1>6, <1>7, <1>2 DEF Notices, InHand, Locks
<1>17. Periods'
  BY <1>1, <1>5, <1>4, <1>6, <1>7, <1>2 DEF Periods
<1>18. QED
  BY <1>6, <1>8, <1>9, <1>10, <1>11, <1>12, <1>13, <1>14, <1>15, <1>16, <1>17 DEF SchedInv

(* vTaskDelete of another task keeps the invariant.                        *)
LEMMA DeleteStep ==
    ASSUME SchedInv, NEW t \in Tasks, NEW u \in Targets, Delete(t, u)
    PROVE  SchedInv'
<1>1. /\ TypeOK /\ Sound(kernel) /\ Timely(kernel) /\ Placed /\ Depths /\ Hands
      /\ Runs /\ Parks /\ Waiting /\ Notices /\ Periods
  BY DEF SchedInv
<1>2. /\ Tasks \subseteq All /\ Idle \in All /\ Idle \notin Tasks
      /\ Range(kernel.pending) \subseteq Tasks /\ Range(kernel.term) \subseteq Tasks
  BY <1>1, Constants, ListsOfTasks DEF Sound
<1>3. /\ pc \in [All -> Labels] /\ ticks \in [All -> Ticks] /\ target \in [All -> All]
      /\ notify \in [Tasks -> {"none", "waiting", "received"}] /\ parked \in [Tasks -> BOOLEAN]
      /\ previous \in [Tasks -> Ticks] /\ ahead \in [Tasks -> -Wrap .. Wrap] /\ msip \in BOOLEAN
  BY <1>1 DEF TypeOK
<1>4. At(t, "app") /\ t \in All
  BY Constants DEF Delete, MayCall
<1>5. /\ kernel.current = t /\ ~msip /\ pc[t] = "app" /\ High(kernel)
      /\ t \in Ready(kernel) /\ t \notin Range(kernel.suspended) /\ t \in On(kernel)
      /\ ~InHand(t) /\ ~Unlisted(t) /\ ~parked[t] /\ t \in All
      /\ \A x \in All : pc[x] \notin Locks /\ ~InHand(x)
  BY <1>4, Caller DEF Locks
<1>6. /\ u \in Tasks /\ u \in All /\ u # Idle
      /\ Exists(u) => ~Unlisted(u) /\ u \notin Range(kernel.term)
      /\ Exists(u) /\ ~InHand(u) => u \in On(kernel)
      /\ pc[u] = "freed" => u \notin On(kernel) /\ u \notin Range(kernel.pending)
      /\ u \in Range(kernel.pending) => Exists(u)
  BY WaitsAreTicks, Present
<1>7. /\ Exists(u) /\ u # t /\ kernel.depth \in 0 .. 1 /\ 0 \in Ticks
      /\ u \in On(kernel) /\ ~Unlisted(u)
  BY <1>1, <1>5, <1>6, Constants DEF Delete, Depths
<1>8. /\ Moved(kernel, kernel', u) /\ Timely(kernel')
      /\ Ready(kernel') = Ready(kernel) \ {u} /\ On(kernel') = On(kernel) \ {u}
      /\ u \notin Range(kernel'.suspended) /\ u \notin Range(kernel'.term)
      /\ u \notin Range(kernel'.pending) /\ High(kernel')
  <2>1. kernel' = DeleteFrom(kernel, u)
    BY DEF Delete, Set
  <2>2. QED
    BY <1>1, <1>5, <1>6, <2>1, Deleting
<1>9. /\ Sound(kernel') /\ Timely(kernel') /\ kernel' \in Kernels
      /\ kernel'.tick = kernel.tick /\ kernel'.pended = kernel.pended
      /\ kernel'.current = kernel.current /\ kernel'.depth = kernel.depth
      /\ \A x : x # u =>
            /\ x \in Ready(kernel') <=> x \in Ready(kernel)
            /\ x \in On(kernel') <=> x \in On(kernel)
            /\ x \in Range(kernel'.suspended) <=> x \in Range(kernel.suspended)
            /\ x \in Range(kernel'.term) <=> x \in Range(kernel.term)
            /\ x \in Range(kernel'.pending) <=> x \in Range(kernel.pending)
  BY <1>8, MovedOthers
<1>10. /\ pc' = [pc EXCEPT ![u] = "freed"] /\ target' = [target EXCEPT ![u] = u]
       /\ ticks' = [ticks EXCEPT ![u] = 0]
       /\ notify' = [notify EXCEPT ![u] = "none"] /\ parked' = [parked EXCEPT ![u] = FALSE]
       /\ UNCHANGED <<msip, previous, ahead>>
  BY DEF Delete, Free, periods
<1>11. u \in All
  BY <1>6
<1>12. \A x \in All : pc'[x] = IF x = u THEN "freed" ELSE pc[x]
  BY <1>3, <1>2, <1>10, <1>11
<1>13. \A x \in All : target'[x] = IF x = u THEN u ELSE target[x]
  BY <1>3, <1>2, <1>10, <1>11
<1>14. \A x \in Tasks : notify'[x] = IF x = u THEN "none" ELSE notify[x]
  BY <1>3, <1>2, <1>10, <1>11
<1>15. \A x \in Tasks : parked'[x] = IF x = u THEN FALSE ELSE parked[x]
  BY <1>3, <1>2, <1>10, <1>11
<1>16. \A x \in All : ticks'[x] = IF x = u THEN 0 ELSE ticks[x]
  BY <1>3, <1>2, <1>10, <1>11
<1>17. TypeOK'
  BY <1>3, <1>9, <1>6, <1>7, <1>10 DEF TypeOK, Labels, Sound
<1>18. Placed'
  BY <1>1, <1>5, <1>6, <1>7, <1>8, <1>9, <1>12, <1>13, <1>14, <1>15, <1>16, <1>10, <1>2 DEF
     Placed, InHand, Unlisted, Exists
<1>19. Depths'
  BY <1>1, <1>5, <1>6, <1>7, <1>8, <1>9, <1>12, <1>13, <1>14, <1>15, <1>16, <1>10, <1>2 DEF
     Depths, Locks
<1>20. Hands'
  BY <1>1, <1>5, <1>6, <1>7, <1>8, <1>9, <1>12, <1>13, <1>14, <1>15, <1>16, <1>10, <1>2 DEF
     Hands, Exists, Locks
<1>21. Runs'
  BY <1>1, <1>5, <1>6, <1>7, <1>8, <1>9, <1>12, <1>13, <1>14, <1>15, <1>16, <1>10, <1>2 DEF
     Runs
<1>22. Parks'
  BY <1>1, <1>2, <1>9, <1>12, <1>14, <1>15 DEF Parks, Exists
<1>23. Waiting'
  BY <1>1, <1>2, <1>9, <1>12, <1>14 DEF Waiting
<1>24. Running'
  BY <1>1, <1>5, <1>6, <1>7, <1>8, <1>9, <1>12, <1>13, <1>14, <1>15, <1>16, <1>10, <1>2 DEF
     Running
<1>25. Notices'
  <2>1. ASSUME NEW x \in Tasks, pc'[x] = "notified", ~parked'[x], notify'[x] # "waiting"
        PROVE  x \in Ready(kernel') \/ x \in Range(kernel'.pending) \/ InHand(x)'
    <3>1. x # u /\ pc[x] = "notified" /\ notify[x] # "waiting" /\ ~parked[x]
      BY <1>2, <2>1, <1>12, <1>14, <1>15
    <3>2. x \in Ready(kernel) \/ x \in Range(kernel.pending)
      BY <2>1, <1>2, <1>1, <1>5, <3>1 DEF Notices
    <3>3. QED
      BY <3>1, <3>2, <1>2, <1>9
  <2>2. QED
    BY <2>1 DEF Notices
<1>26. Periods'
  BY <1>1, <1>5, <1>6, <1>7, <1>8, <1>9, <1>12, <1>13, <1>14, <1>15, <1>16, <1>10, <1>2 DEF
     Periods
<1>27. QED
  BY <1>9, <1>17, <1>18, <1>19, <1>20, <1>21, <1>22, <1>23, <1>24, <1>25, <1>26 DEF SchedInv

(* xTaskCreate keeps the invariant.                                        *)
LEMMA CreateStep ==
    ASSUME SchedInv, NEW t \in Tasks, NEW u \in Targets, Create(t, u)
    PROVE  SchedInv'
<1>1. /\ TypeOK /\ Sound(kernel) /\ Timely(kernel) /\ Placed /\ Depths /\ Hands
      /\ Runs /\ Parks /\ Waiting /\ Notices /\ Periods
  BY DEF SchedInv
<1>2. /\ Tasks \subseteq All /\ Idle \in All /\ Idle \notin Tasks
      /\ Range(kernel.pending) \subseteq Tasks /\ Range(kernel.term) \subseteq Tasks
  BY <1>1, Constants, ListsOfTasks DEF Sound
<1>3. /\ pc \in [All -> Labels] /\ ticks \in [All -> Ticks] /\ target \in [All -> All]
      /\ notify \in [Tasks -> {"none", "waiting", "received"}] /\ parked \in [Tasks -> BOOLEAN]
      /\ previous \in [Tasks -> Ticks] /\ ahead \in [Tasks -> -Wrap .. Wrap] /\ msip \in BOOLEAN
  BY <1>1 DEF TypeOK
<1>4. At(t, "app") /\ t \in All
  BY Constants DEF Create, MayCall
<1>5. /\ kernel.current = t /\ ~msip /\ pc[t] = "app" /\ High(kernel)
      /\ t \in Ready(kernel) /\ t \notin Range(kernel.suspended) /\ t \in On(kernel)
      /\ ~InHand(t) /\ ~Unlisted(t) /\ ~parked[t] /\ t \in All
      /\ \A x \in All : pc[x] \notin Locks /\ ~InHand(x)
  BY <1>4, Caller DEF Locks
<1>6. /\ u \in Tasks /\ u \in All /\ u # Idle
      /\ Exists(u) => ~Unlisted(u) /\ u \notin Range(kernel.term)
      /\ Exists(u) /\ ~InHand(u) => u \in On(kernel)
      /\ pc[u] = "freed" => u \notin On(kernel) /\ u \notin Range(kernel.pending)
      /\ u \in Range(kernel.pending) => Exists(u)
  BY WaitsAreTicks, Present
<1>7. /\ pc[u] = "freed" /\ u # t /\ kernel.depth \in 0 .. 1 /\ Prio[u] \in Priorities
      /\ u \notin On(kernel) /\ u # kernel.current /\ ~parked[u]
  BY <1>1, <1>5, <1>6, WaitsAreTicks DEF Create, Depths, Parks, Exists
<1>8. Prio[u] \in Nat /\ kernel.prio[t] \in Nat
  BY <1>1, <1>7, <1>5, KernelTypes, Constants DEF Sound
<1>9. /\ Moved(kernel, kernel', u) /\ Timely(kernel')
      /\ Ready(kernel') = Ready(kernel) \cup {u} /\ On(kernel') = On(kernel) \cup {u}
      /\ u \notin Range(kernel'.suspended) /\ u \notin Range(kernel'.term)
      /\ kernel'.pending = kernel.pending
      /\ kernel'.prio = [kernel.prio EXCEPT ![u] = Prio[u]]
      /\ Prio[u] <= kernel.prio[t] => High(kernel')
  <2>1. kernel' = AddReady([kernel EXCEPT !.prio[u] = Prio[u]], u)
    BY DEF Create, Set
  <2>2. QED
    BY <1>1, <1>5, <1>6, <1>7, <2>1, Creating
<1>10. /\ Sound(kernel') /\ Timely(kernel') /\ kernel' \in Kernels
       /\ kernel'.tick = kernel.tick /\ kernel'.pended = kernel.pended
       /\ kernel'.current = kernel.current /\ kernel'.depth = kernel.depth
       /\ \A x : x # u =>
             /\ x \in Ready(kernel') <=> x \in Ready(kernel)
             /\ x \in On(kernel') <=> x \in On(kernel)
             /\ x \in Range(kernel'.suspended) <=> x \in Range(kernel.suspended)
             /\ x \in Range(kernel'.term) <=> x \in Range(kernel.term)
             /\ x \in Range(kernel'.pending) <=> x \in Range(kernel.pending)
  BY <1>9, MovedOthers
<1>11. kernel'.prio[t] = kernel.prio[t] /\ kernel'.prio[u] = Prio[u]
  BY <1>1, <1>9, <1>7, <1>6, <1>5, KernelTypes DEF Sound
<1>12. msip' \in BOOLEAN /\ (kernel.prio[t] < Prio[u] => msip')
  <2>1. msip' = (msip \/ kernel'.prio[t] < kernel'.prio[u])
    BY DEF Create, YieldIf, Set
  <2>2. QED
    BY <2>1, <1>11, <1>8, <1>5
<1>13. Running'
  BY <1>9, <1>12, <1>8 DEF Running
<1>14. pc' = [pc EXCEPT ![u] = "app"] /\ UNCHANGED <<target, ticks, notify, previous, ahead, parked>>
  BY DEF Create, Goto, Keep, periods
<1>15. u \in All
  BY <1>6
<1>16. \A x \in All : pc'[x] = IF x = u THEN "app" ELSE pc[x]
  BY <1>3, <1>14, <1>15
<1>17. TypeOK'
  BY <1>3, <1>10, <1>6, <1>7, <1>14, <1>12 DEF TypeOK, Labels, Sound
<1>18. Placed'
  <2>1. ~(pc[Idle] = "reclaim" /\ target[Idle] = u)
    BY <1>1, <1>7 DEF Hands
  <2>2. \A x \in All : Unlisted(x)' <=> x # u /\ Unlisted(x)
    BY <1>2, <1>16, <1>14, <1>7, <2>1, <1>6 DEF Unlisted
  <2>3. \A x \in All : ~InHand(x)'
    BY <1>2, <1>5, <1>16, <1>14 DEF InHand, Locks
  <2>4. On(kernel') = {x \in All : ~InHand(x)' /\ ~Unlisted(x)'}
    BY <1>1, <2>2, <2>3, <1>5, <1>9, <1>6 DEF Placed
  <2>5. \A x \in All : Exists(x) => Exists(x)'
    BY <1>16, <1>6 DEF Exists
  <2>6. \A x \in Range(kernel'.pending) : Exists(x)'
    BY <1>1, <1>2, <1>9, <2>5 DEF Placed
  <2>7. \A x \in Range(kernel'.term) : pc'[x] = "deleted"
    BY <1>1, <1>2, <1>9, <1>10, <1>16 DEF Placed
  <2>8. QED
    BY <2>4, <2>6, <2>7 DEF Placed
<1>19. Depths'
  BY <1>1, <1>5, <1>6, <1>7, <1>12, <1>9, <1>10, <1>16, <1>14, <1>2 DEF Depths, Locks
<1>20. Hands'
  BY <1>1, <1>5, <1>6, <1>7, <1>12, <1>9, <1>10, <1>16, <1>14, <1>2 DEF Hands, Exists, Locks
<1>21. Runs'
  BY <1>1, <1>5, <1>6, <1>7, <1>12, <1>9, <1>10, <1>16, <1>14, <1>2 DEF Runs
<1>22. Parks'
  BY <1>1, <1>5, <1>6, <1>7, <1>12, <1>9, <1>10, <1>16, <1>14, <1>2 DEF Parks, Exists
<1>23. Waiting'
  BY <1>1, <1>5, <1>6, <1>7, <1>12, <1>9, <1>10, <1>16, <1>14, <1>2 DEF Waiting
<1>24. Running'
  BY <1>13
<1>25. Notices'
  <2>1. ASSUME NEW x \in Tasks, pc'[x] = "notified", ~parked'[x], notify'[x] # "waiting"
        PROVE  x \in Ready(kernel') \/ x \in Range(kernel'.pending) \/ InHand(x)'
    <3>1. x # u /\ pc[x] = "notified" /\ notify[x] # "waiting" /\ ~parked[x]
      BY <1>2, <2>1, <1>16, <1>14
    <3>2. x \in Ready(kernel) \/ x \in Range(kernel.pending)
      BY <2>1, <1>2, <1>1, <1>5, <3>1 DEF Notices
    <3>3. QED
      BY <3>1, <3>2, <1>2, <1>10
  <2>2. QED
    BY <2>1 DEF Notices
<1>26. Periods'
  BY <1>1, <1>5, <1>6, <1>7, <1>12, <1>9, <1>10, <1>16, <1>14, <1>2 DEF Periods
<1>27. QED
  BY <1>10, <1>17, <1>18, <1>19, <1>20, <1>21, <1>22, <1>23, <1>24, <1>25, <1>26 DEF
     SchedInv

(* The uxListRemove of prvCheckTasksWaitingTermination keeps the           *)
(* invariant.                                                              *)
LEMMA IdleUnlistsStep ==
    ASSUME SchedInv, IdleUnlists
    PROVE  SchedInv'
<1>1. /\ TypeOK /\ Sound(kernel) /\ Timely(kernel) /\ Placed /\ Depths /\ Hands
      /\ Runs /\ Parks /\ Waiting /\ Notices /\ Periods
  BY DEF SchedInv
<1>2. /\ Tasks \subseteq All /\ Idle \in All /\ Idle \notin Tasks
      /\ Range(kernel.pending) \subseteq Tasks /\ Range(kernel.term) \subseteq Tasks
  BY <1>1, Constants, ListsOfTasks DEF Sound
<1>3. /\ pc \in [All -> Labels] /\ ticks \in [All -> Ticks] /\ target \in [All -> All]
      /\ notify \in [Tasks -> {"none", "waiting", "received"}] /\ parked \in [Tasks -> BOOLEAN]
      /\ previous \in [Tasks -> Ticks] /\ ahead \in [Tasks -> -Wrap .. Wrap] /\ msip \in BOOLEAN
  BY <1>1 DEF TypeOK
<1>4. At(Idle, "app") /\ kernel.depth = 0 /\ kernel.term # <<>>
  BY DEF IdleUnlists
<1>5. /\ kernel.current = Idle /\ ~msip /\ pc[Idle] = "app" /\ High(kernel)
      /\ Idle \in Ready(kernel) /\ Idle \in On(kernel)
      /\ \A x \in All : pc[x] \notin Locks /\ ~InHand(x)
  BY <1>4, <1>2, Caller DEF Locks
<1> DEFINE h == Head(kernel.term)
<1>6. kernel.term \in Seq(Tasks) /\ h = Head(kernel.term)
  BY <1>1, KernelTypes DEF Sound
<1> HIDE DEF h
<1>7. h \in Tasks /\ h \in Range(kernel.term)
  <2>1. Len(kernel.term) \in Nat \ {0} /\ h = kernel.term[1]
    BY <1>6, <1>4
  <2>2. 1 \in DOMAIN kernel.term
    BY <1>6, <2>1
  <2>3. h \in Range(kernel.term)
    BY <2>1, <2>2 DEF Range
  <2>4. QED
    BY <2>3, <1>2
<1>8. /\ pc[h] = "deleted" /\ h # Idle /\ h \in All /\ h \in On(kernel) /\ h \notin Ready(kernel) /\ ~Exists(h)
  BY <1>1, <1>2, <1>7, StatesOf DEF Placed, On, Exists
<1>9. /\ Moved(kernel, kernel', h) /\ Timely(kernel')
      /\ Ready(kernel') = Ready(kernel) \ {h} /\ On(kernel') = On(kernel) \ {h}
      /\ h \notin Range(kernel'.suspended) /\ h \notin Range(kernel'.term)
      /\ kernel'.pending = kernel.pending /\ High(kernel')
  <2>1. kernel' = Unlist(kernel, h)
    BY <1>6 DEF IdleUnlists, Set
  <2>2. QED
    BY <1>1, <1>5, <1>7, <2>1, Delisting
<1>10. /\ Sound(kernel') /\ Timely(kernel') /\ kernel' \in Kernels
       /\ kernel'.tick = kernel.tick /\ kernel'.pended = kernel.pended
       /\ kernel'.current = kernel.current /\ kernel'.depth = kernel.depth
       /\ \A x : x # h =>
             /\ x \in Ready(kernel') <=> x \in Ready(kernel)
             /\ x \in On(kernel') <=> x \in On(kernel)
             /\ x \in Range(kernel'.suspended) <=> x \in Range(kernel.suspended)
             /\ x \in Range(kernel'.term) <=> x \in Range(kernel.term)
             /\ x \in Range(kernel'.pending) <=> x \in Range(kernel.pending)
  BY <1>9, MovedOthers
<1>11. /\ pc' = [pc EXCEPT ![Idle] = "reclaim"] /\ target' = [target EXCEPT ![Idle] = h]
       /\ UNCHANGED <<msip, ticks, notify, previous, ahead, parked>>
  BY <1>6 DEF IdleUnlists, Aim, Goto, Keep, periods
<1>12. \A x \in All : pc'[x] = IF x = Idle THEN "reclaim" ELSE pc[x]
  BY <1>3, <1>2, <1>11
<1>13. \A x \in All : target'[x] = IF x = Idle THEN h ELSE target[x]
  BY <1>3, <1>2, <1>11
<1>14. TypeOK'
  BY <1>3, <1>10, <1>2, <1>8, <1>11 DEF TypeOK, Labels, Sound
<1>15. Placed'
  BY <1>1, <1>5, <1>4, <1>7, <1>8, <1>9, <1>10, <1>12, <1>13, <1>11, <1>2 DEF Placed,
     InHand, Unlisted, Exists
<1>16. Depths'
  BY <1>1, <1>5, <1>4, <1>7, <1>8, <1>9, <1>10, <1>12, <1>13, <1>11, <1>2 DEF Depths, Locks
<1>17. Hands'
  BY <1>1, <1>5, <1>4, <1>7, <1>8, <1>9, <1>10, <1>12, <1>13, <1>11, <1>2 DEF Hands, Exists,
     Locks
<1>18. Runs'
  BY <1>1, <1>5, <1>4, <1>7, <1>8, <1>9, <1>10, <1>12, <1>13, <1>11, <1>2 DEF Runs
<1>19. Parks'
  BY <1>1, <1>5, <1>4, <1>7, <1>8, <1>9, <1>10, <1>12, <1>13, <1>11, <1>2 DEF Parks, Exists
<1>20. Waiting'
  BY <1>1, <1>5, <1>4, <1>7, <1>8, <1>9, <1>10, <1>12, <1>13, <1>11, <1>2 DEF Waiting
<1>21. Running'
  BY <1>1, <1>5, <1>4, <1>7, <1>8, <1>9, <1>10, <1>12, <1>13, <1>11, <1>2 DEF Running
<1>22. Notices'
  <2>1. ASSUME NEW x \in Tasks, pc'[x] = "notified", ~parked'[x], notify'[x] # "waiting"
        PROVE  x \in Ready(kernel') \/ x \in Range(kernel'.pending) \/ InHand(x)'
    <3>1. x # h /\ pc[x] = "notified" /\ notify[x] # "waiting" /\ ~parked[x]
      BY <1>2, <2>1, <1>12, <1>8, <1>11
    <3>2. x \in Ready(kernel) \/ x \in Range(kernel.pending)
      BY <2>1, <1>2, <1>1, <1>5, <3>1 DEF Notices
    <3>3. QED
      BY <3>1, <3>2, <1>2, <1>10
  <2>2. QED
    BY <2>1 DEF Notices
<1>23. Periods'
  BY <1>1, <1>5, <1>4, <1>7, <1>8, <1>9, <1>10, <1>12, <1>13, <1>11, <1>2 DEF Periods
<1>24. QED
  BY <1>10, <1>14, <1>15, <1>16, <1>17, <1>18, <1>19, <1>20, <1>21, <1>22, <1>23 DEF
     SchedInv

(* The end of prvDeleteTCB keeps the invariant.                            *)
LEMMA IdleReclaimsStep ==
    ASSUME SchedInv, IdleReclaims
    PROVE  SchedInv'
<1>1. /\ TypeOK /\ Sound(kernel) /\ Timely(kernel) /\ Placed /\ Depths /\ Hands
      /\ Runs /\ Parks /\ Waiting /\ Notices /\ Periods
  BY DEF SchedInv
<1>2. /\ Tasks \subseteq All /\ Idle \in All /\ Idle \notin Tasks
      /\ Range(kernel.pending) \subseteq Tasks /\ Range(kernel.term) \subseteq Tasks
  BY <1>1, Constants, ListsOfTasks DEF Sound
<1>3. /\ pc \in [All -> Labels] /\ ticks \in [All -> Ticks] /\ target \in [All -> All]
      /\ notify \in [Tasks -> {"none", "waiting", "received"}] /\ parked \in [Tasks -> BOOLEAN]
      /\ previous \in [Tasks -> Ticks] /\ ahead \in [Tasks -> -Wrap .. Wrap] /\ msip \in BOOLEAN
  BY <1>1 DEF TypeOK
<1>4. At(Idle, "reclaim")
  BY DEF IdleReclaims
<1>5. /\ kernel.current = Idle /\ ~msip /\ pc[Idle] = "reclaim" /\ High(kernel)
      /\ Idle \in Ready(kernel) /\ Idle \in On(kernel)
      /\ \A x \in All : pc[x] \notin Locks /\ ~InHand(x)
  BY <1>4, <1>2, Caller DEF Locks
<1> DEFINE h == target[Idle]
<1>6. h = target[Idle]
  OBVIOUS
<1> HIDE DEF h
<1>7. kernel.depth = 0
  BY <1>1, <1>5 DEF Depths
<1>8. /\ h \in Tasks /\ pc[h] = "deleted" /\ h # Idle /\ h \in All /\ ~Exists(h)
      /\ Unlisted(h) /\ h \notin On(kernel) /\ h \notin Range(kernel.pending) /\ ~parked[h]
  <2>1. h \in Tasks /\ pc[h] = "deleted" /\ h # Idle /\ h \in All
    BY <1>1, <1>2, <1>5, <1>6 DEF Hands
  <2>2. ~Exists(h) /\ Unlisted(h)
    BY <2>1, <1>6, <1>5 DEF Exists, Unlisted
  <2>3. QED
    BY <2>1, <2>2, <1>1 DEF Placed, Parks
<1>9. kernel' = kernel /\ Sound(kernel') /\ Timely(kernel')
  BY <1>1 DEF IdleReclaims
<1>10. /\ pc' = [pc EXCEPT ![h] = "freed", ![Idle] = "app"]
       /\ target' = [target EXCEPT ![Idle] = Idle]
       /\ notify' = [notify EXCEPT ![h] = "none"] /\ parked' = [parked EXCEPT ![h] = FALSE]
       /\ UNCHANGED <<msip, ticks, previous, ahead>>
  BY <1>6 DEF IdleReclaims, Free, periods
<1>11. UNCHANGED <<msip, ticks, previous, ahead>>
  BY <1>10
<1>12. \A x \in All : pc'[x] = IF x = h THEN "freed" ELSE IF x = Idle THEN "app" ELSE pc[x]
  BY <1>3, <1>2, <1>10, <1>8
<1>13. \A x \in All : target'[x] = IF x = Idle THEN Idle ELSE target[x]
  BY <1>3, <1>2, <1>10
<1>14. \A x \in Tasks : notify'[x] = IF x = h THEN "none" ELSE notify[x]
  BY <1>3, <1>2, <1>10
<1>15. \A x \in Tasks : parked'[x] = IF x = h THEN FALSE ELSE parked[x]
  BY <1>3, <1>2, <1>10
<1>16. \A x \in All : Unlisted(x)' <=> Unlisted(x)
  BY <1>2, <1>12, <1>13, <1>5, <1>8, <1>6 DEF Unlisted
<1>17. \A x \in All : ~InHand(x)'
  BY <1>2, <1>5, <1>12, <1>8 DEF InHand, Locks
<1>18. TypeOK'
  BY <1>3, <1>9, <1>2, <1>8, <1>10 DEF TypeOK, Labels, Sound
<1>19. Placed'
  <2>1. On(kernel') = {x \in All : ~InHand(x)' /\ ~Unlisted(x)'}
    BY <1>1, <1>16, <1>17, <1>5, <1>9 DEF Placed
  <2>2. \A x \in All : Exists(x) => Exists(x)'
    BY <1>12, <1>8, <1>5 DEF Exists
  <2>3. \A x \in Range(kernel'.pending) : Exists(x)'
    BY <1>1, <1>2, <1>9, <2>2 DEF Placed
  <2>4. h \notin Range(kernel.term)
    BY <1>8 DEF On
  <2>5. \A x \in Range(kernel'.term) : pc'[x] = "deleted"
    BY <1>1, <1>2, <2>4, <1>9, <1>12 DEF Placed
  <2>6. QED
    BY <2>1, <2>3, <2>5 DEF Placed
<1>20. Depths'
  BY <1>1, <1>5, <1>7, <1>8, <1>6, <1>9, <1>12, <1>13, <1>14, <1>15, <1>11, <1>2 DEF Depths,
     Locks
<1>21. Hands'
  BY <1>1, <1>5, <1>7, <1>8, <1>6, <1>9, <1>12, <1>13, <1>14, <1>15, <1>11, <1>2 DEF Hands,
     Exists, Locks
<1>22. Runs'
  BY <1>1, <1>5, <1>7, <1>8, <1>6, <1>9, <1>12, <1>13, <1>14, <1>15, <1>11, <1>2 DEF Runs
<1>23. Parks'
  BY <1>1, <1>5, <1>7, <1>8, <1>6, <1>9, <1>12, <1>13, <1>14, <1>15, <1>11, <1>2 DEF Parks,
     Exists
<1>24. Waiting'
  BY <1>1, <1>5, <1>7, <1>8, <1>6, <1>9, <1>12, <1>13, <1>14, <1>15, <1>11, <1>2 DEF Waiting
<1>25. Running'
  BY <1>1, <1>5, <1>7, <1>8, <1>6, <1>9, <1>12, <1>13, <1>14, <1>15, <1>11, <1>2 DEF Running
<1>26. Notices'
  <2>1. ASSUME NEW x \in Tasks, pc'[x] = "notified", ~parked'[x], notify'[x] # "waiting"
        PROVE  x \in Ready(kernel') \/ x \in Range(kernel'.pending) \/ InHand(x)'
    <3>1. x # h /\ pc[x] = "notified" /\ notify[x] # "waiting" /\ ~parked[x]
      BY <1>2, <2>1, <1>12, <1>14, <1>15, <1>8
    <3>2. x \in Ready(kernel) \/ x \in Range(kernel.pending)
      BY <2>1, <1>2, <1>1, <1>5, <3>1 DEF Notices
    <3>3. QED
      BY <3>1, <3>2, <1>2, <1>9
  <2>2. QED
    BY <2>1 DEF Notices
<1>27. Periods'
  BY <1>1, <1>5, <1>7, <1>8, <1>6, <1>9, <1>12, <1>13, <1>14, <1>15, <1>11, <1>2 DEF Periods
<1>28. QED
  BY <1>9, <1>18, <1>19, <1>20, <1>21, <1>22, <1>23, <1>24, <1>25, <1>26, <1>27 DEF SchedInv

(* A context switch keeps the invariant.                                   *)
LEMMA SwitchInterruptStep ==
    ASSUME SchedInv, SwitchInterrupt
    PROVE  SchedInv'
<1>1. /\ TypeOK /\ Sound(kernel) /\ Timely(kernel) /\ Placed /\ Depths /\ Hands
      /\ Runs /\ Parks /\ Waiting /\ Notices /\ Periods
  BY DEF SchedInv
<1>2. /\ Tasks \subseteq All /\ Idle \in All /\ Idle \notin Tasks
      /\ Range(kernel.pending) \subseteq Tasks /\ Range(kernel.term) \subseteq Tasks
  BY <1>1, Constants, ListsOfTasks DEF Sound
<1>3. /\ pc \in [All -> Labels] /\ ticks \in [All -> Ticks] /\ target \in [All -> All]
      /\ notify \in [Tasks -> {"none", "waiting", "received"}] /\ parked \in [Tasks -> BOOLEAN]
      /\ previous \in [Tasks -> Ticks] /\ ahead \in [Tasks -> -Wrap .. Wrap] /\ msip \in BOOLEAN
  BY <1>1 DEF TypeOK
<1>4. /\ kernel.depth = 0 => \A x \in All : pc[x] \notin Locks /\ ~InHand(x)
      /\ \A x \in All : x \in On(kernel) => pc[x] # "freed"
      /\ kernel.depth \in 0 .. 2 /\ kernel.current \in All /\ On(kernel) \subseteq All
  <2>1. kernel.depth = 0 => \A x \in All : pc[x] \notin Locks
    BY StatesOf
  <2>2. kernel.depth = 0 => \A x \in All : ~InHand(x)
    BY <2>1, <1>2 DEF InHand, Locks
  <2>3. \A x \in All : x \in On(kernel) => pc[x] # "freed"
    BY <1>1 DEF Placed, Unlisted
  <2>4. QED
    BY <2>1, <2>2, <2>3, StatesOf
<1>5. /\ Like(kernel, kernel') /\ kernel'.depth = kernel.depth /\ kernel'.pended = kernel.pended
      /\ kernel.depth > 0 => kernel'.current = kernel.current
      /\ kernel.depth = 0 => kernel'.current \in Ready(kernel')
      /\ High(kernel')
  <2>1. kernel' = Switch(kernel)
    BY DEF SwitchInterrupt, Set
  <2>2. QED
    BY <1>1, <2>1, LikeSwitch
<1>6. /\ Sound(kernel') /\ Timely(kernel') /\ kernel' \in Kernels
      /\ Ready(kernel') = Ready(kernel) /\ On(kernel') = On(kernel)
      /\ Range(kernel'.suspended) = Range(kernel.suspended)
      /\ Range(kernel'.term) = Range(kernel.term)
      /\ Range(kernel'.pending) = Range(kernel.pending)
      /\ kernel'.tick = kernel.tick
  BY <1>1, <1>5 DEF Like, Sound
<1>7. msip /\ msip' = FALSE /\ UNCHANGED <<pc, ticks, target, notify, previous, ahead, parked>>
  BY DEF SwitchInterrupt, Stay, Keep, frame, periods
<1>8. kernel'.current = kernel.current \/ (kernel.depth = 0 /\ kernel'.current \in Ready(kernel'))
  BY <1>5, <1>4
<1>9. TypeOK'
  BY <1>3, <1>6, <1>7 DEF TypeOK, Labels, Sound
<1>10. Placed'
  BY <1>1, <1>5, <1>6, <1>4, <1>8, <1>7, <1>2 DEF Placed, InHand, Unlisted, Exists
<1>11. Depths'
  <2>1. CASE kernel'.current = kernel.current
    BY <1>1, <1>2, <2>1, <1>4, <1>5, <1>6, <1>8, <1>7 DEF Depths, Locks
  <2>2. CASE kernel.depth = 0 /\ kernel'.current \in Ready(kernel')
    <3>1. kernel'.current \in All /\ pc[kernel'.current] \notin Locks /\ pc[kernel'.current] # "freed"
      BY <2>2, <1>4, <1>1, <1>5, <1>6, <1>8, <1>7 DEF On
    <3>2. kernel'.depth = 0 /\ Range(kernel'.pending) = {} /\ kernel'.pended = 0
      BY <1>1, <2>2, <1>5, <1>6, <1>8, <1>7 DEF Depths
    <3>3. QED
      BY <3>1, <3>2, <1>1, <1>2, <2>2, <1>4, <1>5, <1>6, <1>8, <1>7 DEF Depths, Locks
  <2>3. QED
    BY <2>1, <2>2, <1>5, <1>6, <1>8, <1>7
<1>12. Hands'
  BY <1>1, <1>5, <1>6, <1>4, <1>8, <1>7, <1>2 DEF Hands, Exists, Locks
<1>13. Runs'
  <2>1. CASE kernel.depth = 0
    BY <2>1, <1>5 DEF Runs
  <2>2. CASE kernel.depth > 0
    <3>1. pc[kernel.current] = "app"
      BY <2>2, <1>7, <1>1 DEF Depths
    <3>2. kernel.current \in Ready(kernel)
      BY <2>2, <3>1, <1>1 DEF Runs
    <3>3. QED
      BY <2>2, <3>2, <1>5, <1>6 DEF Runs
  <2>3. QED
    BY <2>1, <2>2, <1>4
<1>14. Parks'
  BY <1>1, <1>5, <1>6, <1>4, <1>8, <1>7, <1>2 DEF Parks, Exists
<1>15. Waiting'
  BY <1>1, <1>5, <1>6, <1>4, <1>8, <1>7, <1>2 DEF Waiting
<1>16. Running'
  BY <1>1, <1>5, <1>6, <1>4, <1>8, <1>7, <1>2 DEF Running
<1>17. Notices'
  BY <1>1, <1>5, <1>6, <1>4, <1>8, <1>7, <1>2 DEF Notices, InHand, Locks
<1>18. Periods'
  BY <1>1, <1>5, <1>6, <1>4, <1>8, <1>7, <1>2 DEF Periods
<1>19. QED
  BY <1>6, <1>9, <1>10, <1>11, <1>12, <1>13, <1>14, <1>15, <1>16, <1>17, <1>18 DEF SchedInv

(* A tick keeps the invariant.                                             *)
LEMMA TickInterruptStep ==
    ASSUME SchedInv, TickInterrupt
    PROVE  SchedInv'
<1>1. /\ TypeOK /\ Sound(kernel) /\ Timely(kernel) /\ Placed /\ Depths /\ Hands
      /\ Runs /\ Parks /\ Waiting /\ Notices /\ Periods
  BY DEF SchedInv
<1>2. /\ Tasks \subseteq All /\ Idle \in All /\ Idle \notin Tasks
      /\ Range(kernel.pending) \subseteq Tasks /\ Range(kernel.term) \subseteq Tasks
  BY <1>1, Constants, ListsOfTasks DEF Sound
<1>3. /\ pc \in [All -> Labels] /\ ticks \in [All -> Ticks] /\ target \in [All -> All]
      /\ notify \in [Tasks -> {"none", "waiting", "received"}] /\ parked \in [Tasks -> BOOLEAN]
      /\ previous \in [Tasks -> Ticks] /\ ahead \in [Tasks -> -Wrap .. Wrap] /\ msip \in BOOLEAN
  BY <1>1 DEF TypeOK
<1>4. /\ kernel.depth = 0 => \A x \in All : pc[x] \notin Locks /\ ~InHand(x)
      /\ \A x \in All : x \in On(kernel) => pc[x] # "freed"
      /\ kernel.depth \in 0 .. 2 /\ kernel.current \in All /\ On(kernel) \subseteq All
  <2>1. kernel.depth = 0 => \A x \in All : pc[x] \notin Locks
    BY StatesOf
  <2>2. kernel.depth = 0 => \A x \in All : ~InHand(x)
    BY <2>1, <1>2 DEF InHand, Locks
  <2>3. \A x \in All : x \in On(kernel) => pc[x] # "freed"
    BY <1>1 DEF Placed, Unlisted
  <2>4. QED
    BY <2>1, <2>2, <2>3, StatesOf
<1>5. kernel.depth = 0 /\ Range(kernel.pending) = {}
  BY <1>1 DEF TickInterrupt, Depths
<1> DEFINE i == Increment(kernel)
<1>6. kernel' = IF SwitchRequired(kernel) THEN Switch(i) ELSE i
  BY DEF TickInterrupt, SwitchIf, Set
<1>7. OneTick(kernel, i) /\ i.yield = kernel.yield /\ (High(kernel) /\ ~SwitchRequired(kernel) => High(i))
  <2>1. i = Increment(kernel)
    OBVIOUS
  <2> HIDE DEF i
  <2>2. OneTick(kernel, i) /\ i.yield = kernel.yield
    BY <2>1, <1>1, Incrementing
  <2>3. High(kernel) /\ ~SwitchRequired(kernel) => High(i)
    BY <2>1, <1>1, Required
  <2>4. QED
    BY <2>2, <2>3
<1> HIDE DEF i
<1>8. /\ Sound(kernel') /\ Timely(kernel') /\ kernel' \in Kernels
      /\ kernel'.depth = kernel.depth /\ kernel'.pended = kernel.pended
      /\ kernel'.tick = (kernel.tick + 1) % Wrap
      /\ Ready(kernel) \subseteq Ready(kernel') /\ On(kernel') = On(kernel)
      /\ Range(kernel'.suspended) = Range(kernel.suspended) /\ Range(kernel'.term) = Range(kernel.term)
      /\ Range(kernel'.pending) = Range(kernel.pending)
      /\ kernel'.current = kernel.current \/ (kernel.depth = 0 /\ kernel'.current \in Ready(kernel'))
      /\ msip \/ High(kernel')
  <2>1. CASE SwitchRequired(kernel)
    <3>1. Sound(i) /\ kernel' = Switch(i)
      BY <2>1, <1>6, <1>7 DEF OneTick
    <3>2. /\ Like(i, kernel') /\ kernel'.depth = i.depth /\ kernel'.pended = i.pended
          /\ i.depth = 0 => kernel'.current \in Ready(kernel')
          /\ High(kernel')
      BY <3>1, LikeSwitch
    <3>3. QED
      BY <3>2, <1>7, <1>5, <1>1 DEF OneTick, Like, Sound
  <2>2. CASE ~SwitchRequired(kernel)
    <3>1. kernel' = i
      BY <2>2, <1>6
    <3>2. msip \/ High(i)
      BY <2>2, <1>7 DEF SchedInv, Running
    <3>3. QED
      BY <3>1, <3>2, <1>7, <1>5 DEF OneTick, Sound
  <2>3. QED
    BY <2>1, <2>2
<1>9. Drift(1) /\ UNCHANGED <<pc, ticks, target, msip, notify, previous, parked>>
  BY DEF TickInterrupt, Stay, frame
<1>10. /\ ahead' \in [Tasks -> -Wrap .. Wrap]
       /\ \A x \in Tasks : "until" \in Does[x] /\ ahead'[x] > -Wrap =>
             previous'[x] = (kernel'.tick + ahead'[x]) % Wrap
       /\ \A x \in Tasks : "until" \in Does[x] =>
             \A m \in 1 .. Wrap - 1 : ahead[x] + m <= Wrap => ahead'[x] + m <= Wrap
  <2>1. 1 \in Nat
    OBVIOUS
  <2>2. QED
    BY <1>1, <1>9, <1>8, <2>1, Drifting
<1>11. TypeOK'
  BY <1>3, <1>2, <1>8, <1>10, <1>9 DEF TypeOK
<1>12. Placed'
  BY <1>1, <1>5, <1>4, <1>8, <1>10, <1>9, <1>2 DEF Placed, InHand, Unlisted, Exists
<1>13. Depths'
  <2>1. CASE kernel'.current = kernel.current
    BY <1>1, <1>2, <2>1, <1>4, <1>5, <1>8, <1>9 DEF Depths, Locks
  <2>2. CASE kernel.depth = 0 /\ kernel'.current \in Ready(kernel')
    <3>1. kernel'.current \in All /\ pc[kernel'.current] \notin Locks /\ pc[kernel'.current] # "freed"
      BY <2>2, <1>4, <1>1, <1>5, <1>8, <1>9 DEF On
    <3>2. kernel'.depth = 0 /\ Range(kernel'.pending) = {} /\ kernel'.pended = 0
      BY <1>1, <2>2, <1>5, <1>8, <1>9 DEF Depths
    <3>3. QED
      BY <3>1, <3>2, <1>1, <1>2, <2>2, <1>4, <1>5, <1>8, <1>9 DEF Depths, Locks
  <2>3. QED
    BY <2>1, <2>2, <1>5, <1>8, <1>9
<1>14. Hands'
  BY <1>1, <1>5, <1>4, <1>8, <1>10, <1>9, <1>2 DEF Hands, Exists, Locks
<1>15. Runs'
  BY <1>1, <1>5, <1>4, <1>8, <1>10, <1>9, <1>2 DEF Runs
<1>16. Parks'
  BY <1>1, <1>5, <1>4, <1>8, <1>10, <1>9, <1>2 DEF Parks, Exists
<1>17. Waiting'
  BY <1>1, <1>5, <1>4, <1>8, <1>10, <1>9, <1>2 DEF Waiting
<1>18. Running'
  BY <1>1, <1>5, <1>4, <1>8, <1>10, <1>9, <1>2 DEF Running
<1>19. Notices'
  BY <1>1, <1>5, <1>4, <1>8, <1>10, <1>9, <1>2 DEF Notices, InHand, Locks
<1>20. Periods'
  BY <1>1, <1>2, <1>8, <1>10, <1>9 DEF Periods
<1>21. QED
  BY <1>8, <1>11, <1>12, <1>13, <1>14, <1>15, <1>16, <1>17, <1>18, <1>19, <1>20 DEF SchedInv

(* A tick that is pended keeps the invariant.                              *)
LEMMA TickPendedStep ==
    ASSUME SchedInv, TickPended
    PROVE  SchedInv'
<1>1. /\ TypeOK /\ Sound(kernel) /\ Timely(kernel) /\ Placed /\ Depths /\ Hands
      /\ Runs /\ Parks /\ Waiting /\ Notices /\ Periods
  BY DEF SchedInv
<1>2. /\ Tasks \subseteq All /\ Idle \in All /\ Idle \notin Tasks
      /\ Range(kernel.pending) \subseteq Tasks /\ Range(kernel.term) \subseteq Tasks
  BY <1>1, Constants, ListsOfTasks DEF Sound
<1>3. /\ pc \in [All -> Labels] /\ ticks \in [All -> Ticks] /\ target \in [All -> All]
      /\ notify \in [Tasks -> {"none", "waiting", "received"}] /\ parked \in [Tasks -> BOOLEAN]
      /\ previous \in [Tasks -> Ticks] /\ ahead \in [Tasks -> -Wrap .. Wrap] /\ msip \in BOOLEAN
  BY <1>1 DEF TypeOK
<1>4. kernel.depth # 0 /\ kernel.pended + 1 \in 0 .. MaxPended
  BY <1>1, KernelTypes, Constants DEF TickPended, Sound
<1>5. /\ Like(kernel, kernel') /\ kernel'.current = kernel.current /\ kernel'.depth = kernel.depth
      /\ High(kernel) => High(kernel')
  <2>1. kernel' = [kernel EXCEPT !.pended = kernel.pended + 1]
    BY DEF TickPended, Set
  <2>2. QED
    BY <1>1, <1>4, <2>1, LikePended
<1>6. /\ Sound(kernel') /\ Timely(kernel') /\ kernel' \in Kernels
      /\ Ready(kernel') = Ready(kernel) /\ On(kernel') = On(kernel)
      /\ Range(kernel'.suspended) = Range(kernel.suspended)
      /\ Range(kernel'.term) = Range(kernel.term)
      /\ Range(kernel'.pending) = Range(kernel.pending)
      /\ kernel'.tick = kernel.tick
  BY <1>1, <1>5 DEF Like, Sound
<1>7. UNCHANGED <<pc, ticks, target, msip, notify, previous, ahead, parked>>
  BY DEF TickPended, Stay, Keep, frame, periods
<1>8. Running'
  BY <1>5, <1>7 DEF SchedInv, Running
<1>9. TypeOK'
  BY <1>3, <1>6, <1>7 DEF TypeOK, Labels, Sound
<1>10. Placed'
  BY <1>1, <1>4, <1>5, <1>6, <1>7, <1>2 DEF Placed, InHand, Unlisted, Exists
<1>11. Depths'
  BY <1>1, <1>4, <1>5, <1>6, <1>7, <1>2 DEF Depths, Locks
<1>12. Hands'
  BY <1>1, <1>4, <1>5, <1>6, <1>7, <1>2 DEF Hands, Exists, Locks
<1>13. Runs'
  BY <1>1, <1>4, <1>5, <1>6, <1>7, <1>2 DEF Runs
<1>14. Parks'
  BY <1>1, <1>4, <1>5, <1>6, <1>7, <1>2 DEF Parks, Exists
<1>15. Waiting'
  BY <1>1, <1>4, <1>5, <1>6, <1>7, <1>2 DEF Waiting
<1>16. Running'
  BY <1>8
<1>17. Notices'
  BY <1>1, <1>4, <1>5, <1>6, <1>7, <1>2 DEF Notices, InHand, Locks
<1>18. Periods'
  BY <1>1, <1>4, <1>5, <1>6, <1>7, <1>2 DEF Periods
<1>19. QED
  BY <1>6, <1>9, <1>10, <1>11, <1>12, <1>13, <1>14, <1>15, <1>16, <1>17, <1>18 DEF SchedInv

(* What a handler that wakes u leaves                                      *)
HandedOver(u, m) ==
    /\ Sound(m) /\ Timely(m) /\ m \in Kernels
    /\ m.tick = kernel.tick /\ m.pended = kernel.pended /\ m.depth = kernel.depth
    /\ m.current = kernel.current \/ (kernel.depth = 0 /\ m.current \in Ready(m))
    /\ \A x : x # u =>
          /\ x \in Ready(m) <=> x \in Ready(kernel)
          /\ x \in Range(m.suspended) <=> x \in Range(kernel.suspended)
          /\ x \in Range(m.term) <=> x \in Range(kernel.term)
          /\ x \in Range(m.pending) <=> x \in Range(kernel.pending)
    /\ On(m) = On(kernel)
    /\ kernel.depth = 0 => u \in Ready(m) /\ Range(m.pending) = {}
    /\ kernel.depth # 0 => /\ Ready(m) = Ready(kernel)
                           /\ Range(m.suspended) = Range(kernel.suspended)
                           /\ u \in Range(m.pending)
    /\ u \notin Range(m.term) /\ Ready(kernel) \subseteq Ready(m)
    /\ msip \/ High(m)

(* A handler wakes a task, and switches, asks for a switch, or does neither. *)
LEMMA HandlerWakes ==
    ASSUME SchedInv, NEW u \in Tasks, Exists(u), u \notin Range(kernel.pending),
           NEW l, l = WakeFromISR(kernel, u), NEW m,
           \/ m = Switch(l)
           \/ m = [l EXCEPT !.yield = TRUE]
           \/ m = l /\ (kernel.depth # 0 \/ kernel.prio[u] <= kernel.prio[kernel.current])
    PROVE  HandedOver(u, m)
<1>1. /\ TypeOK /\ Sound(kernel) /\ Timely(kernel) /\ Placed /\ Depths /\ Hands
      /\ Runs /\ Parks /\ Waiting /\ Notices /\ Periods
  BY DEF SchedInv
<1>2. /\ Tasks \subseteq All /\ Idle \in All /\ Idle \notin Tasks
      /\ Range(kernel.pending) \subseteq Tasks /\ Range(kernel.term) \subseteq Tasks
  BY <1>1, Constants, ListsOfTasks DEF Sound
<1>3. /\ pc \in [All -> Labels] /\ ticks \in [All -> Ticks] /\ target \in [All -> All]
      /\ notify \in [Tasks -> {"none", "waiting", "received"}] /\ parked \in [Tasks -> BOOLEAN]
      /\ previous \in [Tasks -> Ticks] /\ ahead \in [Tasks -> -Wrap .. Wrap] /\ msip \in BOOLEAN
  BY <1>1 DEF TypeOK
<1>4. u \in All /\ u \notin Range(kernel.term) /\ (~InHand(u) => u \in On(kernel))
  BY <1>2, Present
<1>5. /\ kernel.depth = 0 => \A x \in All : pc[x] \notin Locks /\ ~InHand(x)
      /\ \A x \in All : x \in On(kernel) => pc[x] # "freed"
      /\ kernel.depth \in 0 .. 2 /\ kernel.current \in All /\ On(kernel) \subseteq All
  <2>1. kernel.depth = 0 => \A x \in All : pc[x] \notin Locks
    BY StatesOf
  <2>2. kernel.depth = 0 => \A x \in All : ~InHand(x)
    BY <2>1, <1>2 DEF InHand, Locks
  <2>3. \A x \in All : x \in On(kernel) => pc[x] # "freed"
    BY <1>1 DEF Placed, Unlisted
  <2>4. QED
    BY <2>1, <2>2, <2>3, StatesOf
<1>6. kernel.depth = 0 => Range(kernel.pending) = {}
  BY <1>1 DEF Depths
<1>7. /\ Moved(kernel, l, u) /\ Timely(l) /\ Sound(l)
      /\ kernel.depth = 0 =>
           /\ Ready(l) = Ready(kernel) \cup {u} /\ On(l) = On(kernel) \cup {u}
           /\ u \notin Range(l.suspended) /\ u \notin Range(l.term)
           /\ l.pending = kernel.pending
      /\ kernel.depth # 0 =>
           /\ Ready(l) = Ready(kernel) /\ On(l) = On(kernel)
           /\ l.suspended = kernel.suspended /\ l.term = kernel.term
           /\ Range(l.pending) = Range(kernel.pending) \cup {u}
      /\ High(kernel) /\ (kernel.depth # 0 \/ kernel.prio[u] <= kernel.prio[kernel.current]) => High(l)
  <2>1. LET a == WakeFromISR(kernel, u) IN
        /\ Moved(kernel, a, u) /\ Timely(a)
        /\ a.prio = kernel.prio /\ a.yield = kernel.yield
        /\ kernel.depth = 0 =>
             /\ Ready(a) = Ready(kernel) \cup {u} /\ On(a) = On(kernel) \cup {u}
             /\ u \notin Range(a.suspended) /\ u \notin Range(a.term)
             /\ a.pending = kernel.pending /\ Left(a, u) = 0
        /\ kernel.depth # 0 =>
             /\ Ready(a) = Ready(kernel) /\ On(a) = On(kernel)
             /\ a.suspended = kernel.suspended /\ a.term = kernel.term
             /\ Range(a.pending) = Range(kernel.pending) \cup {u}
             /\ Left(a, u) = Left(kernel, u)
        /\ High(kernel) /\ (kernel.depth # 0 \/ kernel.prio[u] <= kernel.prio[kernel.current]) => High(a)
    BY <1>1, Waking, Zenon
  <2>2. Sound(l)
    BY <2>1 DEF Moved
  <2>3. QED
    BY <2>1, <2>2
<1>8. On(l) = On(kernel)
  BY <1>7, <1>4, <1>5
<1>9. /\ l.tick = kernel.tick /\ l.pended = kernel.pended
      /\ l.current = kernel.current /\ l.depth = kernel.depth
      /\ \A x : x # u =>
           /\ x \in Ready(l) <=> x \in Ready(kernel)
           /\ x \in Range(l.suspended) <=> x \in Range(kernel.suspended)
           /\ x \in Range(l.term) <=> x \in Range(kernel.term)
           /\ x \in Range(l.pending) <=> x \in Range(kernel.pending)
  BY <1>7, MovedOthers
<1>10. /\ Like(l, m) /\ m.depth = l.depth /\ m.pended = l.pended
       /\ m.current = l.current \/ (l.depth = 0 /\ m.current \in Ready(m))
       /\ msip \/ High(m)
  <2>1. CASE m = Switch(l)
    <3>1. /\ Like(l, m) /\ m.depth = l.depth /\ m.pended = l.pended
          /\ l.depth > 0 => m.current = l.current
          /\ l.depth = 0 => m.current \in Ready(m)
          /\ High(m)
      BY <2>1, <1>7, LikeSwitch
    <3>2. QED
      BY <3>1, <1>5, <1>9
  <2>2. CASE m = [l EXCEPT !.yield = TRUE]
    <3>1. TRUE \in BOOLEAN
      OBVIOUS
    <3>2. QED
      BY <2>2, <3>1, <1>7, LikeYield
  <2>3. CASE m = l /\ (kernel.depth # 0 \/ kernel.prio[u] <= kernel.prio[kernel.current])
    <3>1. Like(l, l)
      BY <1>7 DEF Like
    <3>2. QED
      BY <2>3, <3>1, <1>7 DEF SchedInv, Running
  <2>4. QED
    BY <2>1, <2>2, <2>3
<1>11. /\ Sound(m) /\ Timely(m) /\ m \in Kernels
  BY <1>10, <1>7 DEF Like, Sound
<1>12. /\ m.tick = kernel.tick /\ m.pended = kernel.pended /\ m.depth = kernel.depth
       /\ On(m) = On(kernel) /\ Ready(m) = Ready(l)
  BY <1>10, <1>9, <1>8 DEF Like
<1>13. m.current = kernel.current \/ (kernel.depth = 0 /\ m.current \in Ready(m))
  BY <1>10, <1>9
<1>14. \A x : x # u =>
             /\ x \in Ready(m) <=> x \in Ready(kernel)
             /\ x \in Range(m.suspended) <=> x \in Range(kernel.suspended)
             /\ x \in Range(m.term) <=> x \in Range(kernel.term)
             /\ x \in Range(m.pending) <=> x \in Range(kernel.pending)
  BY <1>10, <1>9 DEF Like
<1>15. /\ kernel.depth = 0 => u \in Ready(m) /\ Range(m.pending) = {}
       /\ u \notin Range(m.term) /\ Ready(kernel) \subseteq Ready(m)
       /\ kernel.depth # 0 => /\ Ready(m) = Ready(kernel)
                              /\ Range(m.suspended) = Range(kernel.suspended)
                              /\ u \in Range(m.pending)
  BY <1>10, <1>7, <1>4, <1>6 DEF Like
<1>16. QED
  BY <1>11, <1>12, <1>13, <1>14, <1>15, <1>10 DEF HandedOver

(* xTaskGenericNotifyFromISR keeps the invariant.                          *)
LEMMA NotifyFromISRStep ==
    ASSUME SchedInv, NEW u \in Targets, NotifyFromISR(u)
    PROVE  SchedInv'
<1>1. /\ TypeOK /\ Sound(kernel) /\ Timely(kernel) /\ Placed /\ Depths /\ Hands
      /\ Runs /\ Parks /\ Waiting /\ Notices /\ Periods
  BY DEF SchedInv
<1>2. /\ Tasks \subseteq All /\ Idle \in All /\ Idle \notin Tasks
      /\ Range(kernel.pending) \subseteq Tasks /\ Range(kernel.term) \subseteq Tasks
  BY <1>1, Constants, ListsOfTasks DEF Sound
<1>3. /\ pc \in [All -> Labels] /\ ticks \in [All -> Ticks] /\ target \in [All -> All]
      /\ notify \in [Tasks -> {"none", "waiting", "received"}] /\ parked \in [Tasks -> BOOLEAN]
      /\ previous \in [Tasks -> Ticks] /\ ahead \in [Tasks -> -Wrap .. Wrap] /\ msip \in BOOLEAN
  BY <1>1 DEF TypeOK
<1>4. /\ u \in Tasks /\ u \in All /\ u # Idle
      /\ Exists(u) => ~Unlisted(u) /\ u \notin Range(kernel.term)
      /\ Exists(u) /\ ~InHand(u) => u \in On(kernel)
      /\ pc[u] = "freed" => u \notin On(kernel) /\ u \notin Range(kernel.pending)
      /\ u \in Range(kernel.pending) => Exists(u)
  BY WaitsAreTicks, Present
<1>5. /\ kernel.depth = 0 => \A x \in All : pc[x] \notin Locks /\ ~InHand(x)
      /\ \A x \in All : x \in On(kernel) => pc[x] # "freed"
      /\ kernel.depth \in 0 .. 2 /\ kernel.current \in All /\ On(kernel) \subseteq All
  <2>1. kernel.depth = 0 => \A x \in All : pc[x] \notin Locks
    BY StatesOf
  <2>2. kernel.depth = 0 => \A x \in All : ~InHand(x)
    BY <2>1, <1>2 DEF InHand, Locks
  <2>3. \A x \in All : x \in On(kernel) => pc[x] # "freed"
    BY <1>1 DEF Placed, Unlisted
  <2>4. QED
    BY <2>1, <2>2, <2>3, StatesOf
<1>6. Exists(u) /\ notify[u] # "received"
  BY DEF NotifyFromISR
<1>7. /\ notify' = [notify EXCEPT ![u] = "received"]
      /\ UNCHANGED <<pc, ticks, target, msip, previous, ahead, parked>>
  BY DEF NotifyFromISR, Stay, frame, periods
<1>8. \A x \in Tasks : notify'[x] = IF x = u THEN "received" ELSE notify[x]
  BY <1>3, <1>7, <1>4
<1>9. CASE notify[u] = "waiting"
  <2>1. pc[u] = "notified" /\ u \notin Range(kernel.pending) /\ ~parked[u]
    BY <1>1, <1>9, <1>4 DEF Waiting, Parks
  <2>2. kernel.prio[u] \in Nat /\ kernel.prio[kernel.current] \in Nat
    BY <1>1, <1>2, <1>4, <1>5, KernelTypes, Constants DEF Sound
  <2> DEFINE l == WakeFromISR(kernel, u)
             higher == kernel.prio[u] > kernel.prio[kernel.current]
  <2>3. \/ kernel' = IF higher THEN Switch(l) ELSE l
        \/ kernel' = [l EXCEPT !.yield = TRUE]
    BY <1>9 DEF NotifyFromISR, SwitchIf, Set
  <2>4. l = WakeFromISR(kernel, u) /\ (~higher => kernel.prio[u] <= kernel.prio[kernel.current])
    BY <2>2
  <2> HIDE DEF l, higher
  <2>5. \/ kernel' = Switch(l)
        \/ kernel' = [l EXCEPT !.yield = TRUE]
        \/ kernel' = l /\ (kernel.depth # 0 \/ kernel.prio[u] <= kernel.prio[kernel.current])
    BY <2>3, <2>4
  <2>6. HandedOver(u, kernel')
    BY <2>5, <2>4, <2>1, <1>6, <1>4, HandlerWakes
  <2>7. /\ HandedOver(u, kernel') /\ kernel' \in Kernels
        /\ Sound(kernel') /\ Timely(kernel') /\ kernel' \in Kernels
        /\ kernel'.tick = kernel.tick /\ kernel'.pended = kernel.pended /\ kernel'.depth = kernel.depth
        /\ kernel'.current = kernel.current \/ (kernel.depth = 0 /\ kernel'.current \in Ready(kernel'))
        /\ \A x : x # u =>
              /\ x \in Ready(kernel') <=> x \in Ready(kernel)
              /\ x \in Range(kernel'.suspended) <=> x \in Range(kernel.suspended)
              /\ x \in Range(kernel'.term) <=> x \in Range(kernel.term)
              /\ x \in Range(kernel'.pending) <=> x \in Range(kernel.pending)
        /\ On(kernel') = On(kernel)
        /\ kernel.depth = 0 => u \in Ready(kernel') /\ Range(kernel'.pending) = {}
        /\ kernel.depth # 0 => /\ Ready(kernel') = Ready(kernel)
                               /\ Range(kernel'.suspended) = Range(kernel.suspended)
                               /\ u \in Range(kernel'.pending)
        /\ u \notin Range(kernel'.term) /\ Ready(kernel) \subseteq Ready(kernel')
        /\ msip \/ High(kernel')
    BY <2>6 DEF HandedOver
  <2>8. TypeOK'
    BY <1>3, <2>7, <1>7 DEF TypeOK, Labels, Sound
  <2>9. Placed'
    BY <1>1, <1>4, <1>6, <1>5, <2>1, <2>7, <1>8, <1>7, <1>2 DEF Placed, InHand, Unlisted,
       Exists
  <2>10. Depths'
    <3>1. CASE kernel'.current = kernel.current
      BY <1>1, <1>2, <3>1, <1>5, <2>7, <1>7 DEF Depths, Locks
    <3>2. CASE kernel.depth = 0 /\ kernel'.current \in Ready(kernel')
      <4>1. kernel'.current \in All /\ pc[kernel'.current] \notin Locks /\ pc[kernel'.current] # "freed"
        BY <3>2, <1>5, <1>1, <2>7, <1>7 DEF On
      <4>2. kernel'.depth = 0 /\ Range(kernel'.pending) = {} /\ kernel'.pended = 0
        BY <1>1, <3>2, <2>7, <1>7 DEF Depths
      <4>3. QED
        BY <4>1, <4>2, <1>1, <1>2, <3>2, <1>5, <2>7, <1>7 DEF Depths, Locks
    <3>3. QED
      BY <3>1, <3>2, <2>7, <1>7
  <2>11. Hands'
    BY <1>1, <1>4, <1>6, <1>5, <2>1, <2>7, <1>8, <1>7, <1>2 DEF Hands, Exists, Locks
  <2>12. Runs'
    BY <1>1, <1>4, <1>6, <1>5, <2>1, <2>7, <1>8, <1>7, <1>2 DEF Runs
  <2>13. Parks'
    BY <1>1, <1>4, <1>6, <1>5, <2>1, <2>7, <1>8, <1>7, <1>2 DEF Parks, Exists
  <2>14. Waiting'
    BY <1>1, <1>4, <1>6, <1>5, <2>1, <2>7, <1>8, <1>7, <1>2 DEF Waiting
  <2>15. Running'
    BY <1>1, <1>4, <1>6, <1>5, <2>1, <2>7, <1>8, <1>7, <1>2 DEF Running
  <2>16. Notices'
    <3>1. ASSUME NEW x \in Tasks, pc'[x] = "notified", ~parked'[x], notify'[x] # "waiting"
          PROVE  x \in Ready(kernel') \/ x \in Range(kernel'.pending) \/ InHand(x)'
      <4>1. pc[x] = "notified" /\ (x # u => notify[x] # "waiting") /\ ~parked[x]
        BY <1>2, <3>1, <1>8, <1>7
      <4>2. x # u => x \in Ready(kernel) \/ x \in Range(kernel.pending) \/ InHand(x)
        BY <3>1, <1>2, <1>1, <4>1 DEF Notices
      <4>3. QED
        BY <4>1, <4>2, <1>2, <2>7, <1>5, <1>7 DEF InHand, Locks
    <3>2. QED
      BY <3>1 DEF Notices
  <2>17. Periods'
    BY <1>1, <1>4, <1>6, <1>5, <2>1, <2>7, <1>8, <1>7, <1>2 DEF Periods
  <2>18. QED
    BY <2>7, <2>8, <2>9, <2>10, <2>11, <2>12, <2>13, <2>14, <2>15, <2>16, <2>17 DEF SchedInv
<1>10. CASE notify[u] # "waiting"
  <2>1. kernel' = kernel /\ Sound(kernel') /\ Timely(kernel')
    BY <1>1, <1>10 DEF NotifyFromISR, SwitchIf, Set
  <2>2. TypeOK'
    BY <1>3, <2>1, <1>7 DEF TypeOK, Labels, Sound
  <2>3. Placed'
    BY <1>1, <1>4, <1>6, <1>10, <2>1, <1>8, <1>7, <1>2 DEF Placed, InHand, Unlisted, Exists
  <2>4. Depths'
    BY <1>1, <1>4, <1>6, <1>10, <2>1, <1>8, <1>7, <1>2 DEF Depths, Locks
  <2>5. Hands'
    BY <1>1, <1>4, <1>6, <1>10, <2>1, <1>8, <1>7, <1>2 DEF Hands, Exists, Locks
  <2>6. Runs'
    BY <1>1, <1>4, <1>6, <1>10, <2>1, <1>8, <1>7, <1>2 DEF Runs
  <2>7. Parks'
    BY <1>1, <1>4, <1>6, <1>10, <2>1, <1>8, <1>7, <1>2 DEF Parks, Exists
  <2>8. Waiting'
    BY <1>1, <1>4, <1>6, <1>10, <2>1, <1>8, <1>7, <1>2 DEF Waiting
  <2>9. Running'
    BY <2>1, <1>7 DEF SchedInv, Running
  <2>10. Notices'
    <3>1. ASSUME NEW x \in Tasks, pc'[x] = "notified", ~parked'[x], notify'[x] # "waiting"
          PROVE  x \in Ready(kernel') \/ x \in Range(kernel'.pending) \/ InHand(x)'
      <4>1. pc[x] = "notified" /\ notify[x] # "waiting" /\ ~parked[x]
        BY <1>2, <3>1, <1>8, <1>7, <1>10
      <4>2. x \in Ready(kernel) \/ x \in Range(kernel.pending) \/ InHand(x)
        BY <3>1, <1>2, <1>1, <4>1 DEF Notices
      <4>3. QED
        BY <4>1, <4>2, <1>2, <2>1, <1>7 DEF InHand
    <3>2. QED
      BY <3>1 DEF Notices
  <2>11. Periods'
    BY <1>1, <1>4, <1>6, <1>10, <2>1, <1>8, <1>7, <1>2 DEF Periods
  <2>12. QED
    BY <2>1, <2>2, <2>3, <2>4, <2>5, <2>6, <2>7, <2>8, <2>9, <2>10, <2>11 DEF SchedInv
<1>11. QED
  BY <1>9, <1>10

(* xTaskResumeFromISR keeps the invariant.                                 *)
LEMMA ResumeFromISRStep ==
    ASSUME SchedInv, ~ResumesAny, NEW u \in Targets, ResumeFromISR(u)
    PROVE  SchedInv'
<1>1. /\ TypeOK /\ Sound(kernel) /\ Timely(kernel) /\ Placed /\ Depths /\ Hands
      /\ Runs /\ Parks /\ Waiting /\ Notices /\ Periods
  BY DEF SchedInv
<1>2. /\ Tasks \subseteq All /\ Idle \in All /\ Idle \notin Tasks
      /\ Range(kernel.pending) \subseteq Tasks /\ Range(kernel.term) \subseteq Tasks
  BY <1>1, Constants, ListsOfTasks DEF Sound
<1>3. /\ pc \in [All -> Labels] /\ ticks \in [All -> Ticks] /\ target \in [All -> All]
      /\ notify \in [Tasks -> {"none", "waiting", "received"}] /\ parked \in [Tasks -> BOOLEAN]
      /\ previous \in [Tasks -> Ticks] /\ ahead \in [Tasks -> -Wrap .. Wrap] /\ msip \in BOOLEAN
  BY <1>1 DEF TypeOK
<1>4. /\ u \in Tasks /\ u \in All /\ u # Idle
      /\ Exists(u) => ~Unlisted(u) /\ u \notin Range(kernel.term)
      /\ Exists(u) /\ ~InHand(u) => u \in On(kernel)
      /\ pc[u] = "freed" => u \notin On(kernel) /\ u \notin Range(kernel.pending)
      /\ u \in Range(kernel.pending) => Exists(u)
  BY WaitsAreTicks, Present
<1>5. /\ kernel.depth = 0 => \A x \in All : pc[x] \notin Locks /\ ~InHand(x)
      /\ \A x \in All : x \in On(kernel) => pc[x] # "freed"
      /\ kernel.depth \in 0 .. 2 /\ kernel.current \in All /\ On(kernel) \subseteq All
  <2>1. kernel.depth = 0 => \A x \in All : pc[x] \notin Locks
    BY StatesOf
  <2>2. kernel.depth = 0 => \A x \in All : ~InHand(x)
    BY <2>1, <1>2 DEF InHand, Locks
  <2>3. \A x \in All : x \in On(kernel) => pc[x] # "freed"
    BY <1>1 DEF Placed, Unlisted
  <2>4. QED
    BY <2>1, <2>2, <2>3, StatesOf
<1>6. /\ parked[u] /\ u \notin Range(kernel.pending) /\ u \in Range(kernel.suspended)
      /\ notify[u] # "waiting" /\ Exists(u)
  BY <1>1, <1>4 DEF ResumeFromISR, MayResume, IsSuspended, Parks
<1>7. /\ parked' = [parked EXCEPT ![u] = FALSE]
      /\ UNCHANGED <<pc, ticks, target, msip, previous, ahead, notify>>
  BY DEF ResumeFromISR, Stay, frame, periods
<1>8. \A x \in Tasks : parked'[x] = IF x = u THEN FALSE ELSE parked[x]
  BY <1>3, <1>7, <1>4
<1>9. kernel.prio[u] \in Nat /\ kernel.prio[kernel.current] \in Nat
  BY <1>1, <1>2, <1>4, <1>5, KernelTypes, Constants DEF Sound
<1> DEFINE l == WakeFromISR(kernel, u)
           c == kernel.depth = 0 /\ kernel.prio[u] >= kernel.prio[kernel.current]
<1>10. kernel' = IF c THEN Switch(l) ELSE l
  BY DEF ResumeFromISR, SwitchIf, Set
<1>11. l = WakeFromISR(kernel, u) /\ (~c => kernel.depth # 0 \/ kernel.prio[u] <= kernel.prio[kernel.current])
  BY <1>9
<1> HIDE DEF l, c
<1>12. \/ kernel' = Switch(l)
       \/ kernel' = [l EXCEPT !.yield = TRUE]
       \/ kernel' = l /\ (kernel.depth # 0 \/ kernel.prio[u] <= kernel.prio[kernel.current])
  BY <1>10, <1>11
<1>13. HandedOver(u, kernel')
  BY <1>12, <1>11, <1>6, <1>4, HandlerWakes
<1>14. /\ HandedOver(u, kernel') /\ kernel' \in Kernels
       /\ Sound(kernel') /\ Timely(kernel') /\ kernel' \in Kernels
       /\ kernel'.tick = kernel.tick /\ kernel'.pended = kernel.pended /\ kernel'.depth = kernel.depth
       /\ kernel'.current = kernel.current \/ (kernel.depth = 0 /\ kernel'.current \in Ready(kernel'))
       /\ \A x : x # u =>
             /\ x \in Ready(kernel') <=> x \in Ready(kernel)
             /\ x \in Range(kernel'.suspended) <=> x \in Range(kernel.suspended)
             /\ x \in Range(kernel'.term) <=> x \in Range(kernel.term)
             /\ x \in Range(kernel'.pending) <=> x \in Range(kernel.pending)
       /\ On(kernel') = On(kernel)
       /\ kernel.depth = 0 => u \in Ready(kernel') /\ Range(kernel'.pending) = {}
       /\ kernel.depth # 0 => /\ Ready(kernel') = Ready(kernel)
                              /\ Range(kernel'.suspended) = Range(kernel.suspended)
                              /\ u \in Range(kernel'.pending)
       /\ u \notin Range(kernel'.term) /\ Ready(kernel) \subseteq Ready(kernel')
       /\ msip \/ High(kernel')
  BY <1>13 DEF HandedOver
<1>15. TypeOK'
  BY <1>3, <1>14, <1>7 DEF TypeOK, Labels, Sound
<1>16. Placed'
  BY <1>1, <1>4, <1>6, <1>5, <1>14, <1>8, <1>7, <1>2 DEF Placed, InHand, Unlisted, Exists
<1>17. Depths'
  <2>1. CASE kernel'.current = kernel.current
    BY <1>1, <1>2, <2>1, <1>5, <1>14, <1>7 DEF Depths, Locks
  <2>2. CASE kernel.depth = 0 /\ kernel'.current \in Ready(kernel')
    <3>1. kernel'.current \in All /\ pc[kernel'.current] \notin Locks /\ pc[kernel'.current] # "freed"
      BY <2>2, <1>5, <1>1, <1>14, <1>7 DEF On
    <3>2. kernel'.depth = 0 /\ Range(kernel'.pending) = {} /\ kernel'.pended = 0
      BY <1>1, <2>2, <1>14, <1>7 DEF Depths
    <3>3. QED
      BY <3>1, <3>2, <1>1, <1>2, <2>2, <1>5, <1>14, <1>7 DEF Depths, Locks
  <2>3. QED
    BY <2>1, <2>2, <1>14, <1>7
<1>18. Hands'
  BY <1>1, <1>4, <1>6, <1>5, <1>14, <1>8, <1>7, <1>2 DEF Hands, Exists, Locks
<1>19. Runs'
  BY <1>1, <1>4, <1>6, <1>5, <1>14, <1>8, <1>7, <1>2 DEF Runs
<1>20. Parks'
  BY <1>1, <1>4, <1>6, <1>5, <1>14, <1>8, <1>7, <1>2 DEF Parks, Exists
<1>21. Waiting'
  BY <1>1, <1>4, <1>6, <1>5, <1>14, <1>8, <1>7, <1>2 DEF Waiting
<1>22. Running'
  BY <1>1, <1>4, <1>6, <1>5, <1>14, <1>8, <1>7, <1>2 DEF Running
<1>23. Notices'
  <2>1. ASSUME NEW x \in Tasks, pc'[x] = "notified", ~parked'[x], notify'[x] # "waiting"
        PROVE  x \in Ready(kernel') \/ x \in Range(kernel'.pending) \/ InHand(x)'
    <3>1. pc[x] = "notified" /\ notify[x] # "waiting" /\ (x # u => ~parked[x])
      BY <1>2, <2>1, <1>8, <1>7
    <3>2. x # u => x \in Ready(kernel) \/ x \in Range(kernel.pending) \/ InHand(x)
      BY <2>1, <1>2, <1>1, <3>1 DEF Notices
    <3>3. QED
      BY <3>1, <3>2, <1>2, <1>14, <1>5, <1>7 DEF InHand, Locks
  <2>2. QED
    BY <2>1 DEF Notices
<1>24. Periods'
  BY <1>1, <1>4, <1>6, <1>5, <1>14, <1>8, <1>7, <1>2 DEF Periods
<1>25. QED
  BY <1>14, <1>15, <1>16, <1>17, <1>18, <1>19, <1>20, <1>21, <1>22, <1>23, <1>24 DEF
     SchedInv

-----------------------------------------------------------------------------
(* The first state *)

(* A finite set of numbers has a greatest. *)
LEMMA Greatest ==
    ASSUME NEW S \in SUBSET Nat, IsFiniteSet(S), S # {}
    PROVE  \E p \in S : \A q \in S : q <= p
<1> DEFINE From(p) == {q \in S : q >= p}
           Sizes == {Cardinality(From(p)) : p \in S}
<1>1. \A p \in S : IsFiniteSet(From(p)) /\ Cardinality(From(p)) \in Nat
  BY FS_Subset, FS_CardinalityType
<1>2. PICK n \in Sizes : \A i \in Nat : i < n => i \notin Sizes
  <2>1. Sizes \in SUBSET Nat /\ Sizes # {}
    BY <1>1
  <2> HIDE DEF Sizes
  <2>2. QED
    BY <2>1, NatMinimum
<1>3. PICK p \in S : n = Cardinality(From(p))
  BY <1>2
<1>4. ASSUME NEW q \in S, ~(q <= p) PROVE FALSE
  <2>1. q > p /\ p \in Nat /\ q \in Nat
    BY <1>4
  <2>2. From(q) \subseteq From(p) /\ p \in From(p) /\ p \notin From(q)
    <3>1. \A x \in S : x >= q => x >= p
      BY <2>1
    <3>2. p >= p /\ ~(p >= q)
      BY <2>1
    <3>3. QED
      BY <3>1, <3>2
  <2>3. From(q) # From(p)
    BY <2>2
  <2> HIDE DEF From
  <2>4. Cardinality(From(q)) < Cardinality(From(p)) /\ Cardinality(From(q)) \in Nat
    <3>1. IsFiniteSet(From(p)) /\ IsFiniteSet(From(q)) /\ Cardinality(From(p)) \in Nat /\ Cardinality(From(q)) \in Nat
      BY <1>1
    <3>2. Cardinality(From(q)) <= Cardinality(From(p))
          /\ (Cardinality(From(q)) = Cardinality(From(p)) => From(q) = From(p))
      BY <2>2, <3>1, FS_Subset
    <3>3. QED
      BY <3>1, <3>2, <2>3
  <2>5. Cardinality(From(q)) \in Sizes
    OBVIOUS
  <2> HIDE DEF Sizes
  <2>6. QED
    BY <1>2, <1>3, <2>4, <2>5
<1>5. QED
  BY <1>4

(* The ready list of a priority when every task has been created *)
LEMMA CreatedList ==
    ASSUME NEW p \in Priorities
    PROVE  LET c == SetToSeq({t \in Tasks : Prio[t] = p}) \o (IF p = 0 THEN <<Idle>> ELSE <<>>)
           IN  /\ c \in Seq(All) /\ IsInjective(c)
               /\ Range(c) = {t \in All : (IF t = Idle THEN 0 ELSE Prio[t]) = p}
<1> DEFINE S == {t \in Tasks : Prio[t] = p}
           s == SetToSeq(S)
<1>1. s \in Seq(S) /\ IsInjective(s) /\ Range(s) = S
  <2>1. IsFiniteSet(S)
    BY Constants, FS_Subset
  <2> HIDE DEF S
  <2>2. QED
    BY <2>1, Listed
<1>2. s \in Seq(All) /\ Idle \notin Range(s)
  <2>1. S \subseteq All /\ Idle \notin S
    BY Constants
  <2> HIDE DEF S, s
  <2>2. QED
    BY <1>1, <2>1
<1>3. CASE p = 0
  <2>1. SetToSeq({t \in Tasks : Prio[t] = p}) \o (IF p = 0 THEN <<Idle>> ELSE <<>>) = Append(s, Idle)
    <3>1. s \in Seq(All) /\ Idle \in All
      BY <1>2, Constants
    <3> HIDE DEF s
    <3>2. s \o <<Idle>> = Append(s, Idle)
      BY <3>1
    <3>3. QED
      BY <3>2, <1>3 DEF s
  <2> HIDE DEF s
  <2>2. Append(s, Idle) \in Seq(All) /\ IsInjective(Append(s, Idle))
        /\ Range(Append(s, Idle)) = S \cup {Idle}
    BY <1>1, <1>2, Constants, Appended
  <2>3. S \cup {Idle} = {t \in All : (IF t = Idle THEN 0 ELSE Prio[t]) = p}
    BY <1>3, Constants DEF All
  <2>4. QED
    BY <2>1, <2>2, <2>3
<1>4. CASE p # 0
  <2>1. SetToSeq({t \in Tasks : Prio[t] = p}) \o (IF p = 0 THEN <<Idle>> ELSE <<>>) = s
    <3>1. s \in Seq(All)
      BY <1>2
    <3> HIDE DEF s
    <3>2. s \o <<>> = s
      BY <3>1
    <3>3. QED
      BY <3>2, <1>4 DEF s
  <2> HIDE DEF s
  <2>2. S = {t \in All : (IF t = Idle THEN 0 ELSE Prio[t]) = p}
    BY <1>4, Constants DEF All
  <2>3. QED
    BY <2>1, <2>2, <1>1, <1>2
<1>5. QED
  BY <1>3, <1>4

(* The first state satisfies the invariant. *)
LEMMA InitInv ==
    ASSUME Init
    PROVE  SchedInv
<1> DEFINE created(p) == SetToSeq({t \in Tasks : Prio[t] = p}) \o (IF p = 0 THEN <<Idle>> ELSE <<>>)
           used == {p \in Priorities : created(p) # <<>>}
           highest == CHOOSE p \in used : \A q \in used : q <= p
           price == [t \in All |-> IF t = Idle THEN 0 ELSE Prio[t]]
<1>1. /\ kernel = [tick |-> 0, pended |-> 0, unblock |-> MaxDelay,
                   ready |-> [p \in Priorities |-> Append(created(p), End)],
                   top |-> highest, current |-> Last(created(highest)),
                   delayed |-> <<>>, overflow |-> <<>>,
                   suspended |-> <<>>, pending |-> <<>>, term |-> <<>>,
                   depth |-> 0, yield |-> FALSE,
                   wake |-> [t \in Tasks |-> 0], prio |-> price]
      /\ notify = [t \in Tasks |-> "none"] /\ msip = FALSE
      /\ pc = [t \in All |-> "app"] /\ ticks = [t \in All |-> 0]
      /\ target = [t \in All |-> t]
      /\ previous = [t \in Tasks |-> 0] /\ ahead = [t \in Tasks |-> 0]
      /\ parked = [t \in Tasks |-> FALSE]
  BY DEF Init
<1>2. ASSUME NEW p \in Priorities
      PROVE  /\ created(p) \in Seq(All) /\ IsInjective(created(p))
             /\ Range(created(p)) = {t \in All : price[t] = p}
  <2>1. LET c == SetToSeq({t \in Tasks : Prio[t] = p}) \o (IF p = 0 THEN <<Idle>> ELSE <<>>)
        IN  /\ c \in Seq(All) /\ IsInjective(c)
            /\ Range(c) = {t \in All : (IF t = Idle THEN 0 ELSE Prio[t]) = p}
    BY CreatedList
  <2>2. {t \in All : price[t] = p} = {t \in All : (IF t = Idle THEN 0 ELSE Prio[t]) = p}
    OBVIOUS
  <2> HIDE DEF price
  <2>3. QED
    BY <2>1, <2>2
<1>3. price \in [All -> Priorities] /\ price[Idle] = 0
  BY Constants, WaitsAreTicks DEF All
<1> HIDE DEF created, price
<1>4. \A p \in Priorities : created(p) # <<>> <=> \E t \in All : price[t] = p
  <2>1. ASSUME NEW p \in Priorities PROVE created(p) # <<>> <=> \E t \in All : price[t] = p
    <3>1. Range(created(p)) = {} <=> created(p) = <<>>
      BY <1>2, EmptyList
    <3>2. QED
      BY <1>2, <3>1
  <2>2. QED
    BY <2>1
<1>5. highest \in used /\ \A q \in used : q <= highest
  <2>1. used \subseteq Priorities /\ 0 \in used
    BY <1>3, <1>4, Constants
  <2> HIDE DEF used
  <2>2. used \in SUBSET Nat /\ IsFiniteSet(used) /\ used # {}
    BY <2>1, Constants, FS_Subset
  <2>3. \E p \in used : \A q \in used : q <= p
    BY <2>2, Greatest
  <2>4. QED
    BY <2>3
<1>6. highest \in Priorities /\ created(highest) # <<>>
  BY <1>5
<1> HIDE DEF highest
<1>7. Last(created(highest)) \in All /\ price[Last(created(highest))] = highest
  <2>1. created(highest) \in Seq(All) /\ Len(created(highest)) \in Nat \ {0}
    BY <1>2, <1>6
  <2>2. Len(created(highest)) \in DOMAIN created(highest)
    BY <2>1
  <2>3. Last(created(highest)) \in Range(created(highest))
    BY <2>2 DEF Last, Range
  <2>4. QED
    BY <2>3, <1>2, <1>6
<1>8. ASSUME NEW p \in Priorities
      PROVE  /\ kernel.ready[p] \in Seq(All \cup {End}) /\ IsInjective(kernel.ready[p])
             /\ Range(kernel.ready[p]) = {t \in All : price[t] = p} \cup {End}
  <2>1. created(p) \in Seq(All \cup {End}) /\ End \notin Range(created(p)) /\ End \in All \cup {End}
    BY <1>2, Constants
  <2>2. kernel.ready[p] = Append(created(p), End)
    BY <1>1
  <2>3. QED
    BY <1>2, <2>1, <2>2, Appended
<1>9. kernel \in Kernels
  <2>1. kernel.ready \in [Priorities -> Seq(All \cup {End})]
    BY <1>1, <1>8
  <2>2. <<>> \in Seq(Tasks) /\ [t \in Tasks |-> 0] \in [Tasks -> Ticks]
    BY Constants
  <2>3. /\ 0 \in Ticks /\ MaxDelay \in Ticks /\ 0 \in 0 .. MaxPended /\ 0 \in 0 .. 2
        /\ FALSE \in BOOLEAN
    BY Constants
  <2>4. [p \in Priorities |-> Append(created(p), End)] \in [Priorities -> Seq(All \cup {End})]
    BY <1>1, <2>1
  <2> HIDE DEF used
  <2>5. QED
    BY <1>1, <1>3, <1>6, <1>7, <2>2, <2>3, <2>4 DEF Kernels
<1> HIDE DEF used
<1>10. Range(<<>>) = {}
  BY DEF Range
<1>11. /\ Range(kernel.delayed) = {} /\ Range(kernel.overflow) = {} /\ Asleep(kernel) = {}
       /\ Range(kernel.suspended) = {} /\ Range(kernel.pending) = {} /\ Range(kernel.term) = {}
  BY <1>1, <1>10 DEF Asleep
<1>12. Ready(kernel) = All
  <2>1. \A t \in All : kernel.prio[t] = price[t] /\ price[t] \in Priorities
    BY <1>1, <1>3
  <2>2. QED
    BY <2>1, <1>8 DEF Ready
<1>13. Once(kernel) /\ Apart(kernel) /\ Sorted(kernel)
  <2>1. IsInjective(<<>>) /\ \A wake : InOrder(<<>>, wake)
    BY DEF IsInjective, InOrder
  <2>2. /\ kernel.delayed = <<>> /\ kernel.overflow = <<>> /\ kernel.suspended = <<>>
        /\ kernel.pending = <<>> /\ kernel.term = <<>>
    BY <1>1
  <2>3. QED
    BY <2>1, <2>2, <1>11 DEF Once, Apart, Sorted
<1>14. \A t \in All : kernel.prio[t] = price[t] /\ price[t] <= highest /\ price[t] \in Nat
  <2>1. ASSUME NEW t \in All PROVE price[t] \in used /\ price[t] \in Priorities
    BY <1>3, <1>4 DEF used
  <2>2. QED
    BY <2>1, <1>1, <1>5, Constants
<1>15. Queues(kernel) /\ Topped(kernel) /\ Resting(kernel)
  <2>1. Queues(kernel)
    BY <1>8, <1>14, Constants DEF Queues
  <2>2. Topped(kernel)
    BY <1>1, <1>12, <1>14 DEF Topped
  <2>3. Resting(kernel)
    BY <1>1, <1>3, <1>12, Constants DEF Resting
  <2>4. QED
    BY <2>1, <2>2, <2>3
<1>16. Sound(kernel)
  BY <1>9, <1>13, <1>15 DEF Sound
<1>17. Timely(kernel)
  BY <1>1, <1>11, Constants DEF Timely, Due, Announced
<1>18. TypeOK
  <2>1. 0 \in -Wrap .. Wrap /\ 0 \in Ticks
    BY Constants
  <2>2. QED
    BY <1>1, <1>9, <2>1 DEF TypeOK, Labels
<1>19. Placed
  <2>1. On(kernel) = All
    BY <1>11, <1>12 DEF On
  <2>2. \A t \in All : ~InHand(t) /\ ~Unlisted(t)
    BY <1>1, Constants DEF InHand, Unlisted
  <2>3. QED
    BY <2>1, <2>2, <1>11 DEF Placed
<1>20. kernel.current \in All /\ kernel.depth = 0 /\ kernel.pended = 0 /\ pc[kernel.current] = "app"
  BY <1>1, <1>7
<1>21. Depths
  BY <1>1, <1>11, <1>20, Constants DEF Depths, Locks
<1>22. Hands
  BY <1>1, Constants DEF Hands
<1>23. Runs
  BY <1>12, <1>20 DEF Runs
<1>24. Parks /\ Waiting
  BY <1>1 DEF Parks, Waiting
<1>25. Running
  BY <1>1, <1>7, <1>14, <1>12 DEF Running, High
<1>26. Notices
  BY <1>1, Constants DEF Notices
<1>27. Periods
  <2>1. 0 = (0 + 0) % Wrap
    BY Constants
  <2>2. QED
    BY <1>1, <2>1, Constants DEF Periods
<1>28. QED
  BY <1>16, <1>17, <1>18, <1>19, <1>21, <1>22, <1>23, <1>24, <1>25, <1>26, <1>27 DEF SchedInv

-----------------------------------------------------------------------------
(* Nothing changes. *)
LEMMA Stutters ==
    ASSUME SchedInv, UNCHANGED vars
    PROVE  SchedInv'
<1>1. UNCHANGED <<kernel, notify, msip, pc, ticks, target, previous, ahead, parked>>
  BY DEF vars, frame, periods
<1>2. TypeOK' /\ Sound(kernel)' /\ Timely(kernel)'
  BY <1>1 DEF SchedInv, TypeOK
<1>3. Placed' /\ Depths' /\ Hands' /\ Runs'
  BY <1>1 DEF SchedInv, Placed, Depths, Hands, Runs, InHand, Unlisted, Exists
<1>4. Parks' /\ Waiting' /\ Running' /\ Notices' /\ Periods'
  BY <1>1 DEF SchedInv, Parks, Waiting, Running, Notices, Periods, InHand, Exists
<1>5. QED
  BY <1>1, <1>2, <1>3, <1>4 DEF SchedInv

(* A state item is on one state list, once.                                *)
LEMMA InvIsOneList ==
    ASSUME SchedInv
    PROVE  OneStateList
<1> DEFINE D == Range(kernel.delayed)
           O == Range(kernel.overflow)
           S == Range(kernel.suspended)
           M == Range(kernel.term)
           R == Ready(kernel)
<1>1. TypeOK /\ Once(kernel) /\ Apart(kernel) /\ Queues(kernel) /\ Placed
  BY DEF SchedInv, Sound
<1>2. States(kernel) = <<D, O, S, M, R>>
  BY DEF States
<1>3. /\ D \cap O = {} /\ D \cap S = {} /\ D \cap M = {} /\ D \cap R = {}
      /\ O \cap S = {} /\ O \cap M = {} /\ O \cap R = {}
      /\ S \cap M = {} /\ S \cap R = {} /\ M \cap R = {}
  BY <1>1 DEF Apart, Asleep
<1>4. On(kernel) = D \cup O \cup S \cup M \cup R
  BY DEF On, Asleep
<1> HIDE DEF D, O, S, M, R
<1>5. \A i, j \in 1 .. 5 : i # j => States(kernel)[i] \cap States(kernel)[j] = {}
  BY <1>2, <1>3
<1>6. UNION Range(States(kernel)) = On(kernel)
  <2>1. Range(States(kernel)) = {D, O, S, M, R}
    BY <1>2 DEF Range
  <2>2. QED
    BY <2>1, <1>4
<1>7. \A list \in {kernel.delayed, kernel.overflow, kernel.suspended,
                     kernel.term, kernel.pending} : IsInjective(list)
  BY <1>1 DEF Once
<1>8. QED
  BY <1>1, <1>5, <1>6, <1>7 DEF OneStateList, Queues, Placed

(* The asserts of the kernel hold. *)
LEMMA InvAsserts ==
    ASSUME SchedInv
    PROVE  AssertionsHold
<1>1. Sound(kernel) /\ Timely(kernel) /\ Waiting /\ kernel \in Kernels
  BY DEF SchedInv, Sound
<1>2. kernel.tick = MaxDelay => kernel.delayed = <<>>
  <2> SUFFICES ASSUME kernel.tick = MaxDelay PROVE Range(kernel.delayed) = {}
    BY <1>1, KernelTypes, EmptyList
  <2>1. ASSUME NEW t \in Range(kernel.delayed) PROVE FALSE
    <3>1. t \in Tasks /\ kernel.wake \in [Tasks -> Ticks]
      BY <1>1, <2>1, ListsOfTasks, KernelTypes
    <3>2. kernel.wake[t] \in 0 .. Wrap - 1 /\ kernel.wake[t] > MaxDelay
      BY <3>1, <2>1, <1>1, Constants DEF Timely, Due
    <3>3. QED
      BY <3>2, Constants
  <2>2. QED
    BY <2>1
<1>3. \E p \in Priorities : p <= kernel.top /\ ~NoTasks(kernel.ready[p])
  BY <1>1, HighestIs
<1>4. QED
  BY <1>1, <1>2, <1>3 DEF AssertionsHold, Timely, Announced, Waiting

(* The highest ready task runs, or a switch is on its way.                 *)
LEMMA InvHighest ==
    ASSUME SchedInv
    PROVE  HighestRuns
BY DEF SchedInv, Running, High, HighestRuns, InReady, Ready

(* A task that got its notification is on its way.                         *)
LEMMA InvNotices ==
    ASSUME SchedInv
    PROVE  NotificationWakes
<1>1. Notices /\ Tasks \subseteq All
  BY Constants DEF SchedInv
<1>2. QED
  BY <1>1 DEF Notices, NotificationWakes, InReady, Ready

-----------------------------------------------------------------------------
(* The theorems *)

(* Every step keeps the invariant, unless the application resumes tasks    *)
(* that it never suspended.                                                *)
LEMMA NextInv ==
    ASSUME ~ResumesAny, SchedInv, [Next]_vars
    PROVE  SchedInv'
<1>1. ASSUME NEW t \in Tasks, Step(t) PROVE SchedInv'
  BY <1>1, AddDelayStep, AddDelayUntilStep, ResumeAndYieldStep, ResumeStep, YieldStep,
     SuspendResetsStep, AbortStateStep, AbortUnlistStep, AbortEventStep, AbortEnlistStep,
     NotifiedStep, DeletedYieldsStep, Constants DEF Step
<1>2. ASSUME NEW t \in Tasks, Call(t) PROVE SchedInv'
  <2>1. ASSUME NEW u \in Targets,
               \/ Suspend(t, u) \/ ResumeTask(t, u) \/ AbortDelay(t, u) \/ Notify(t, u)
               \/ Delete(t, u) \/ Create(t, u)
        PROVE  SchedInv'
    BY <2>1, SuspendStep, ResumeTaskStep, AbortDelayStep, NotifyStep, DeleteStep, CreateStep
  <2>2. ASSUME NEW u \in Targets, NEW p \in Priorities, PrioritySet(t, u, p) PROVE SchedInv'
    BY <2>2, PrioritySetStep
  <2>3. CASE Delay(t) \/ DelayUntil(t) \/ NotifyWait(t) \/ Lock(t) \/ DeleteSelf(t)
    BY <2>3, DelayStep, DelayUntilStep, NotifyWaitStep, LockStep, DeleteSelfStep
  <2>4. QED
    BY <1>2, <2>1, <2>2, <2>3 DEF Call
<1>3. ASSUME NEW t \in Tasks, Unlock(t) PROVE SchedInv'
  BY <1>3, UnlockStep
<1>4. CASE \/ Resume(Idle) \/ IdleSuspends \/ IdleSleeps \/ IdleUnlists \/ IdleReclaims
           \/ SwitchInterrupt \/ Tick
  BY <1>4, ResumeStep, IdleSuspendsStep, IdleSleepsStep, IdleUnlistsStep, IdleReclaimsStep,
     SwitchInterruptStep, TickInterruptStep, TickPendedStep, Constants DEF Tick
<1>5. ASSUME NEW u \in Targets, NotifyFromISR(u) \/ ResumeFromISR(u) PROVE SchedInv'
  BY <1>5, NotifyFromISRStep, ResumeFromISRStep
<1>6. CASE UNCHANGED vars
  BY <1>6, Stutters
<1>7. QED
  BY <1>1, <1>2, <1>3, <1>4, <1>5, <1>6 DEF Next

(* The invariant holds always, unless the application resumes tasks that   *)
(* it never suspended.                                                     *)
THEOREM InvariantCorrect == ASSUME ~ResumesAny PROVE Spec => []SchedInv
<1>1. Init => SchedInv
  BY InitInv
<1>2. SchedInv /\ [Next]_vars => SchedInv'
  BY NextInv
<1>3. QED
  BY <1>1, <1>2, PTL DEF Spec

(* A state item is on one state list, once, that of a ready task on the    *)
(* list of its priority, and an event item is on the pending list once at  *)
(* most: uxListRemove and vListInsert are never called of an item that is  *)
(* elsewhere.                                                              *)
THEOREM OneStateListCorrect == ASSUME ~ResumesAny PROVE Spec => []OneStateList
<1>1. SchedInv => OneStateList
  BY InvIsOneList
<1>2. QED
  BY <1>1, InvariantCorrect, PTL

(* The asserts of tasks.c hold: the delayed list is empty when the tick    *)
(* count wraps, xNextTaskUnblockTime has not passed, a switch finds a      *)
(* task, and a task that waits for a notification is on no event list.     *)
THEOREM AssertionsHoldCorrect == ASSUME ~ResumesAny PROVE Spec => []AssertionsHold
<1>1. SchedInv => AssertionsHold
  BY InvAsserts
<1>2. QED
  BY <1>1, InvariantCorrect, PTL

(* Unless a switch is on its way, the task that runs has the highest       *)
(* priority of the ready ones: every path of tasks.c that makes a task     *)
(* ready, or changes a priority, asks for the switch it needs.             *)
THEOREM HighestRunsCorrect == ASSUME ~ResumesAny PROVE Spec => []HighestRuns
<1>1. SchedInv => HighestRuns
  BY InvHighest
<1>2. QED
  BY <1>1, InvariantCorrect, PTL

(* A task that waits for a notification and has got it is ready, pending,  *)
(* or in the hands of xTaskAbortDelay, unless it was suspended: no wake-up *)
(* of xTaskGenericNotify or its FromISR form is lost.                      *)
THEOREM NotificationWakesCorrect == ASSUME ~ResumesAny PROVE Spec => []NotificationWakes
<1>1. SchedInv => NotificationWakes
  BY InvNotices
<1>2. QED
  BY <1>1, InvariantCorrect, PTL

(* What vTaskDelayUntil computes from times that wrap, for a task that is  *)
(* less than a lap late: whether the next period is ahead, and how far.    *)
LEMMA PeriodIs ==
    ASSUME NEW now \in Ticks, NEW a \in 1 - Wrap .. 0, NEW n \in 1 .. Wrap - 1,
           NEW last, last = (now + a) % Wrap, NEW due, due = (last + n) % Wrap
    PROVE  /\ ShouldDelay(now, last, due) <=> a + n > 0
           /\ a + n > 0 => (due - now) % Wrap = a + n
<1>1. /\ Wrap \in Nat \ {0, 1} /\ now \in 0 .. Wrap - 1 /\ now + a \in Int
  BY Constants
<1>2. last = IF now + a >= 0 THEN now + a ELSE now + a + Wrap
  <2> DEFINE x == now + a
  <2>1. /\ x \in Int /\ (x >= 0 => x \in 0 .. Wrap - 1) /\ (~(x >= 0) => x \in -Wrap .. -1)
    BY <1>1
  <2>2. last = x % Wrap
    OBVIOUS
  <2> HIDE DEF x
  <2>3. last = IF x >= 0 THEN x ELSE x + Wrap
    BY <2>1, <2>2, NearRemainder
  <2>4. QED
    BY <2>3, Zenon DEF x
<1>3. last \in 0 .. Wrap - 1
  BY <1>1, <1>2
<1>4. due = IF last + n < Wrap THEN last + n ELSE last + n - Wrap
  <2>1. \A x \in 0 .. 2 * Wrap - 1 : x % Wrap = IF x < Wrap THEN x ELSE x - Wrap
    <3> SUFFICES ASSUME NEW x \in 0 .. 2 * Wrap - 1
                 PROVE  x % Wrap = IF x < Wrap THEN x ELSE x - Wrap
      OBVIOUS
    <3>1. /\ x \in Int /\ (x < Wrap => x \in 0 .. Wrap - 1)
          /\ (~(x < Wrap) => x \in Wrap .. 2 * Wrap - 1)
      BY <1>1
    <3>2. QED
      BY <3>1, NearRemainder
  <2>2. last + n \in 0 .. 2 * Wrap - 1
    BY <1>1, <1>3
  <2>3. due = IF last + n < Wrap THEN last + n ELSE (last + n) - Wrap
    BY <2>1, <2>2, Zenon
  <2>4. QED
    BY <1>1, <1>3, <2>3
<1>5. due \in 0 .. Wrap - 1
  BY <1>1, <1>3, <1>4
<1>6. ShouldDelay(now, last, due) <=> a + n > 0
  <2>1. CASE now + a >= 0 /\ last + n < Wrap
    BY <1>1, <1>2, <1>3, <1>4, <2>1 DEF ShouldDelay
  <2>2. CASE now + a >= 0 /\ ~(last + n < Wrap)
    BY <1>1, <1>2, <1>3, <1>4, <2>2 DEF ShouldDelay
  <2>3. CASE ~(now + a >= 0) /\ last + n < Wrap
    BY <1>1, <1>2, <1>3, <1>4, <2>3 DEF ShouldDelay
  <2>4. CASE ~(now + a >= 0) /\ ~(last + n < Wrap)
    BY <1>1, <1>2, <1>3, <1>4, <2>4 DEF ShouldDelay
  <2>5. QED
    BY <2>1, <2>2, <2>3, <2>4
<1>7. ASSUME a + n > 0 PROVE (due - now) % Wrap = a + n
  <2> DEFINE x == due - now
  <2>1. x \in Int /\ (x = a + n \/ x = a + n - Wrap) /\ a + n \in 1 .. Wrap - 1
    BY <1>1, <1>2, <1>3, <1>4, <1>7
  <2>2. /\ x = a + n => x \in 0 .. Wrap - 1
        /\ x = a + n - Wrap => x \in -Wrap .. -1 /\ x + Wrap = a + n
    BY <1>1, <2>1
  <2>3. x % Wrap = a + n
    <3> HIDE DEF x
    <3>1. QED
      BY <2>1, <2>2, NearRemainder
  <2>4. QED
    BY <2>3
<1>8. QED
  BY <1>6, <1>7

(* Only vTaskDelayUntil goes from its first critical section to its end.   *)
LEMMA OnlyUntil ==
    ASSUME SchedInv, Next, NEW t \in Tasks, pc[t] = "until", pc'[t] = "resume"
    PROVE  AddDelayUntil(t)
<1>1. /\ pc \in [All -> Labels] /\ t \in All /\ Idle \in All /\ t # Idle
      /\ Tasks \subseteq All /\ Targets \subseteq Tasks
  BY Constants, WaitsAreTicks DEF SchedInv, TypeOK
<1>2. pc' # pc
  OBVIOUS
<1>3. ASSUME NEW x \in All, NEW l, pc' = [pc EXCEPT ![x] = l] PROVE x = t /\ l = "resume"
  BY <1>1, <1>3
<1>4. ASSUME NEW x \in Tasks, Step(x) PROVE AddDelayUntil(t)
  <2>1. CASE AddDelayUntil(x)
    <3>1. pc' = [pc EXCEPT ![x] = "resume"]
      BY <2>1 DEF AddDelayUntil, Enter, Goto
    <3>2. QED
      BY <2>1, <3>1, <1>1, <1>3
  <2>2. CASE AddDelay(x)
    <3>1. pc' = [pc EXCEPT ![x] = "resume"] /\ pc[x] = "delay"
      BY <2>2 DEF AddDelay, Enter, Goto, At
    <3>2. QED
      BY <3>1, <1>1, <1>3
  <2>3. CASE \/ ResumeAndYield(x) \/ Resume(x) \/ Yield(x) \/ SuspendResets(x)
    <3>1. \E l \in {"app", "yield"} : pc' = [pc EXCEPT ![x] = l]
      BY <2>3 DEF ResumeAndYield, Resume, Yield, SuspendResets, Aim, Goto
    <3>2. QED
      BY <3>1, <1>1, <1>3
  <2>4. CASE \/ AbortState(x) \/ AbortUnlist(x) \/ AbortEvent(x) \/ AbortEnlist(x)
    <3>1. \E l \in {"unlist", "resumeall", "event", "enlist"} : pc' = [pc EXCEPT ![x] = l]
      BY <2>4 DEF AbortState, AbortUnlist, AbortEvent, AbortEnlist, Aim, Goto
    <3>2. QED
      BY <3>1, <1>1, <1>3
  <2>5. CASE Notified(x)
    BY <2>5, <1>1, <1>3 DEF Notified, Goto
  <2>6. CASE DeletedYields(x)
    BY <2>6, <1>2 DEF DeletedYields, Stay, frame
  <2>7. QED
    BY <1>4, <2>1, <2>2, <2>3, <2>4, <2>5, <2>6 DEF Step
<1>5. ASSUME NEW x \in Tasks, Call(x) PROVE FALSE
  <2>1. CASE Delay(x) \/ DelayUntil(x) \/ NotifyWait(x) \/ DeleteSelf(x)
    <3>1. \E l \in {"yield", "delay", "until", "notified", "deleted"} : pc' = [pc EXCEPT ![x] = l]
      BY <2>1 DEF Delay, DelayUntil, NotifyWait, DeleteSelf, Enter, Goto
    <3>2. QED
      BY <3>1, <1>1, <1>3
  <2>2. CASE Lock(x)
    BY <2>2, <1>2 DEF Lock, Stay, frame
  <2>3. ASSUME NEW u \in Targets, Suspend(x, u) \/ AbortDelay(x, u) \/ Delete(x, u) \/ Create(x, u)
        PROVE  FALSE
    <3>1. \E l \in {"reset", "state", "freed", "app"}, y \in {x, u} : pc' = [pc EXCEPT ![y] = l]
      BY <2>3 DEF Suspend, AbortDelay, Delete, Create, Aim, Goto
    <3>2. QED
      BY <3>1, <1>1, <1>3
  <2>4. ASSUME NEW u \in Targets, ResumeTask(x, u) \/ Notify(x, u) PROVE FALSE
    BY <2>4, <1>2 DEF ResumeTask, Notify, Stay, frame
  <2>5. ASSUME NEW u \in Targets, NEW p \in Priorities, PrioritySet(x, u, p) PROVE FALSE
    BY <2>5, <1>2 DEF PrioritySet, Stay, frame
  <2>6. QED
    BY <1>5, <2>1, <2>2, <2>3, <2>4, <2>5 DEF Call
<1>6. ASSUME NEW x \in Tasks, Unlock(x) PROVE FALSE
  BY <1>6, <1>2 DEF Unlock, Stay, frame
<1>7. CASE Resume(Idle) \/ IdleSuspends \/ IdleSleeps \/ IdleUnlists
  <2>1. \E l \in {"app", "sleep", "resumeall", "reclaim"} : pc' = [pc EXCEPT ![Idle] = l]
    BY <1>7 DEF Resume, IdleSuspends, IdleSleeps, IdleUnlists, Aim, Goto
  <2>2. QED
    BY <2>1, <1>1, <1>3
<1>8. CASE IdleReclaims
  <2>1. target[Idle] \in All
    BY <1>1 DEF SchedInv, TypeOK
  <2>2. QED
    BY <1>1, <1>8, <2>1 DEF IdleReclaims
<1>9. CASE SwitchInterrupt \/ Tick \/ \E u \in Targets : NotifyFromISR(u) \/ ResumeFromISR(u)
  BY <1>2, <1>9 DEF SwitchInterrupt, Tick, TickInterrupt, TickPended, NotifyFromISR,
     ResumeFromISR, Stay, frame
<1>10. QED
  BY <1>4, <1>5, <1>6, <1>7, <1>8, <1>9 DEF Next

(* vTaskDelayUntil blocks its caller until its next period exactly.        *)
LEMMA PeriodStep ==
    ASSUME SchedInv, NEW t \in Tasks, AddDelayUntil(t), ahead[t] \in 1 - Wrap .. 0
    PROVE  Remaining(t)' = Greater(0, ahead'[t])
<1> DEFINE at == (previous[t] + ticks[t]) % Wrap
           m == (at - kernel.tick) % Wrap
<1>1. At(t, "until") /\ t \in All
  BY Constants DEF AddDelayUntil
<1>2. /\ kernel.current = t /\ pc[t] = "until" /\ High(kernel) /\ t \notin Asleep(kernel)
  BY <1>1, Caller
<1>3. Sound(kernel) /\ Timely(kernel) /\ kernel \in Kernels /\ Periods
  BY DEF SchedInv, Sound
<1>4. /\ Wrap \in Nat \ {0, 1} /\ kernel.tick \in Ticks /\ ticks[t] \in 1 .. Wrap - 1
      /\ previous[t] = (kernel.tick + ahead[t]) % Wrap
  BY <1>2, <1>3, KernelTypes, Constants DEF Periods
<1>5. /\ ShouldDelay(kernel.tick, previous[t], at) <=> ahead[t] + ticks[t] > 0
      /\ ahead[t] + ticks[t] > 0 => m = ahead[t] + ticks[t]
  BY <1>4, PeriodIs
<1>6. ahead'[t] = ahead[t] + ticks[t]
  <2>1. ahead' = [ahead EXCEPT ![t] = IF ahead[t] = -Wrap THEN ahead[t] ELSE ahead[t] + ticks[t]]
    BY DEF AddDelayUntil
  <2>2. ahead \in [Tasks -> -Wrap .. Wrap] /\ ahead[t] # -Wrap
    BY <1>4 DEF SchedInv, TypeOK
  <2>3. QED
    BY <2>1, <2>2
<1>7. kernel' = IF ShouldDelay(kernel.tick, previous[t], at) THEN Block(kernel, m, FALSE) ELSE kernel
  BY DEF AddDelayUntil, Set
<1> HIDE DEF at, m
<1>8. CASE ahead[t] + ticks[t] > 0
  <2>1. m \in Ticks /\ m # 0 /\ FALSE \in BOOLEAN /\ kernel' = Block(kernel, m, FALSE)
    <3>1. kernel' = Block(kernel, m, FALSE)
      BY <1>5, <1>7, <1>8, Zenon
    <3>2. m = ahead[t] + ticks[t] /\ m \in 1 .. Wrap - 1
      BY <1>4, <1>5, <1>8
    <3>3. QED
      BY <3>1, <3>2, <1>4, Constants
  <2>2. Left(kernel', t) = m
    BY <1>2, <1>3, <2>1, Sleeping
  <2>3. QED
    BY <2>2, <1>4, <1>5, <1>6, <1>8 DEF Remaining, Greater
<1>9. CASE ~(ahead[t] + ticks[t] > 0)
  <2>1. kernel' = kernel
    BY <1>5, <1>7, <1>9
  <2>2. Left(kernel, t) = 0
    BY <1>2 DEF Left
  <2>3. QED
    BY <2>1, <2>2, <1>4, <1>6, <1>9 DEF Remaining, Greater
<1>10. QED
  BY <1>8, <1>9

(* A notification never finds the task that waits for it on the pending    *)
(* list: no handler inserts an event item twice.                           *)
THEOREM NotifiedIsUnlistedCorrect == ASSUME ~ResumesAny PROVE Spec => NotifiedIsUnlisted
<1> DEFINE A == \A t \in Tasks : notify[t] = "waiting" /\ notify'[t] = "received"
                    => t \notin Range(kernel.pending)
<1>1. SchedInv => [A]_vars
  BY DEF SchedInv, Waiting
<1>2. QED
  BY <1>1, InvariantCorrect, PTL DEF NotifiedIsUnlisted

(* vTaskDelayUntil of a task less than a lap late blocks it until its next *)
(* period exactly, or not at all if that has passed, wherever the tick     *)
(* count and the wake time have wrapped.                                   *)
THEOREM PeriodIsKeptCorrect == ASSUME ~ResumesAny PROVE Spec => PeriodIsKept
<1> DEFINE A == \A t \in Tasks :
                    pc[t] = "until" /\ pc'[t] = "resume" /\ ahead[t] \in 1 - Wrap .. 0
                        => Remaining(t)' = Greater(0, ahead'[t])
<1>1. SchedInv /\ [Next]_vars => [A]_vars
  <2> SUFFICES ASSUME SchedInv, Next PROVE A
    OBVIOUS
  <2>1. ASSUME NEW t \in Tasks, pc[t] = "until", pc'[t] = "resume", ahead[t] \in 1 - Wrap .. 0
        PROVE  Remaining(t)' = Greater(0, ahead'[t])
    <3>1. AddDelayUntil(t)
      BY <2>1, OnlyUntil
    <3>2. QED
      BY <2>1, <3>1, PeriodStep
  <2>2. QED
    BY <2>1
<1>2. QED
  BY <1>1, InvariantCorrect, PTL DEF Spec, PeriodIsKept

-----------------------------------------------------------------------------
(* The countdown *)

(* What a step is to Countdown                                             *)
Counts == [Delays!Next]_(Delays!vars)

(* Nothing *)
LEMMA CountNothing ==
    ASSUME \A t \in Tasks : Left(kernel', t) = Left(kernel, t),
           kernel'.pended = kernel.pended,
           Range(kernel'.pending) = Range(kernel.pending)
    PROVE  Counts
<1>1. [t \in Tasks |-> Remaining(t)]' = [t \in Tasks |-> Remaining(t)]
  BY DEF Remaining
<1>2. QED
  BY <1>1 DEF Counts, Delays!vars

(* A task wakes, or is off the lists already.                              *)
LEMMA CountWake ==
    ASSUME NEW u \in Tasks, Left(kernel', u) = 0,
           \A t \in Tasks : t # u => Left(kernel', t) = Left(kernel, t),
           kernel'.pended = kernel.pended,
           Range(kernel'.pending) \in {Range(kernel.pending), Range(kernel.pending) \ {u}}
    PROVE  Counts
<1>1. [t \in Tasks |-> Remaining(t)]' = [[t \in Tasks |-> Remaining(t)] EXCEPT ![u] = 0]
  BY DEF Remaining
<1>2. Delays!Wake(u)
  BY <1>1 DEF Delays!Wake
<1>3. QED
  BY <1>2 DEF Counts, Delays!Next

(* A task goes to sleep.                                                   *)
LEMMA CountSleep ==
    ASSUME NEW u \in Tasks, Left(kernel, u) = 0,
           NEW n \in 1 .. MaxDelay, Left(kernel', u) = n,
           \A t \in Tasks : t # u => Left(kernel', t) = Left(kernel, t),
           kernel'.pended = kernel.pended,
           Range(kernel'.pending) = Range(kernel.pending)
    PROVE  Counts
<1>1. [t \in Tasks |-> Remaining(t)]' = [[t \in Tasks |-> Remaining(t)] EXCEPT ![u] = n]
  BY DEF Remaining
<1>2. [t \in Tasks |-> Remaining(t)][u] = 0
  BY DEF Remaining
<1>3. Delays!Sleep(u, n)
  BY <1>1, <1>2 DEF Delays!Sleep
<1>4. QED
  BY <1>3 DEF Counts, Delays!Next

(* A task will wake when the clock is released.                            *)
LEMMA CountLater ==
    ASSUME NEW u \in Tasks,
           \A t \in Tasks : Left(kernel', t) = Left(kernel, t),
           kernel'.pended = kernel.pended,
           Range(kernel'.pending) = Range(kernel.pending) \cup {u}
    PROVE  Counts
<1>1. [t \in Tasks |-> Remaining(t)]' = [t \in Tasks |-> Remaining(t)]
  BY DEF Remaining
<1>2. Delays!WakeLater(u)
  BY <1>1 DEF Delays!WakeLater
<1>3. QED
  BY <1>2 DEF Counts, Delays!Next

(* A step that moves one task, and one that moves none after it            *)
LEMMA CountMoved ==
    ASSUME NEW u \in Tasks, NEW l, Moved(kernel, l, u), Left(l, u) = 0,
           Range(l.pending) \in {Range(kernel.pending), Range(kernel.pending) \ {u}},
           Like(l, kernel'), kernel'.pended = l.pended
    PROVE  Counts
<1>1. /\ kernel'.pended = kernel.pended /\ Range(kernel'.pending) = Range(l.pending)
      /\ Left(kernel', u) = 0
  BY DEF Moved, Like
<1>2. \A t \in Tasks : t # u => Left(kernel', t) = Left(kernel, t)
  BY Constants DEF Moved, Like
<1>3. QED
  BY <1>1, <1>2, CountWake

(* A step that moves one task                                              *)
LEMMA CountMovedOnly ==
    ASSUME NEW u \in Tasks, Moved(kernel, kernel', u), Left(kernel', u) = 0,
           Range(kernel'.pending) \in {Range(kernel.pending), Range(kernel.pending) \ {u}}
    PROVE  Counts
<1>1. Like(kernel', kernel')
  BY DEF Like, Moved
<1>2. QED
  BY <1>1, CountMoved

(* A step that moves none                                                  *)
LEMMA CountLike ==
    ASSUME Like(kernel, kernel'), kernel'.pended = kernel.pended
    PROVE  Counts
BY CountNothing DEF Like

(* What the times are of, and that a task on no delayed list has none left *)
LEMMA Kept ==
    ASSUME SchedInv
    PROVE  /\ Sound(kernel) /\ Timely(kernel) /\ kernel \in Kernels
           /\ \A t : t \notin Asleep(kernel) => Left(kernel, t) = 0
BY DEF SchedInv, Sound, Left

(* The task that runs goes to sleep, or waits for ever.                    *)
LEMMA CountBlock ==
    ASSUME SchedInv, NEW t \in Tasks, kernel.current = t, t \notin Asleep(kernel),
           NEW n \in Ticks, n # 0, NEW forever \in BOOLEAN,
           kernel' = Block(kernel, n, forever)
    PROVE  Counts
<1> DEFINE stays == n = MaxDelay /\ forever
<1>1. /\ Moved(kernel, kernel', t) /\ kernel'.pending = kernel.pending
      /\ Left(kernel', t) = IF stays THEN 0 ELSE n
  <2> DEFINE l == Block(kernel, n, forever)
             c == kernel.current
  <2>1. /\ Moved(kernel, l, c) /\ l.pending = kernel.pending
        /\ Left(l, c) = IF n = MaxDelay /\ forever THEN 0 ELSE n
    BY Kept, Sleeping
  <2>2. QED
    BY <2>1
<1>2. n \in 1 .. MaxDelay /\ Left(kernel, t) = 0
  BY Kept, Constants
<1>3. CASE stays
  BY <1>1, <1>3, CountMovedOnly
<1>4. CASE ~stays
  <2>1. /\ Left(kernel', t) = n /\ kernel'.pended = kernel.pended
        /\ \A u \in Tasks : u # t => Left(kernel', u) = Left(kernel, u)
    BY <1>1, <1>4, Constants DEF Moved
  <2>2. QED
    BY <1>1, <1>2, <2>1, CountSleep
<1>5. QED
  BY <1>3, <1>4

(* One tick                                                                *)
LEMMA CountTick ==
    ASSUME SchedInv, TickInterrupt
    PROVE  Counts
<1> DEFINE i == Increment(kernel)
<1>1. Sound(kernel) /\ Timely(kernel) /\ kernel.depth = 0
  BY Kept DEF TickInterrupt
<1>2. kernel.pended = 0 /\ Range(kernel.pending) = {}
  BY <1>1 DEF SchedInv, Depths
<1>3. OneTick(kernel, i)
  BY <1>1, Incrementing
<1>4. kernel' = IF SwitchRequired(kernel) THEN Switch(i) ELSE i
  BY DEF TickInterrupt, SwitchIf, Set
<1> HIDE DEF i
<1>5. Like(i, kernel') /\ kernel'.pended = i.pended
  <2>1. Sound(i) /\ Like(i, i)
    BY <1>3 DEF OneTick, Like
  <2>2. CASE SwitchRequired(kernel)
    <3>1. kernel' = Switch(i)
      BY <1>4, <2>2
    <3>2. QED
      BY <2>1, <3>1, LikeSwitch
  <2>3. CASE ~SwitchRequired(kernel)
    BY <1>4, <2>1, <2>3
  <2>4. QED
    BY <2>2, <2>3
<1>6. kernel'.pended = 0 /\ Range(kernel'.pending) = {}
  BY <1>2, <1>3, <1>5 DEF OneTick, Like
<1>7. \A t \in Tasks : Left(kernel', t) = IF Left(kernel, t) > 1 THEN Left(kernel, t) - 1 ELSE 0
  BY <1>1, <1>3, <1>5, LeftAfterTick DEF Like
<1>8. [t \in Tasks |-> Remaining(t)]' = Delays!After(1)
  BY <1>7 DEF Remaining, Delays!After
<1>9. Delays!Tick
  BY <1>2, <1>6, <1>8 DEF Delays!Tick
<1>10. QED
  BY <1>9 DEF Counts, Delays!Next

(* A tick is pended.                                                       *)
LEMMA CountPended ==
    ASSUME SchedInv, TickPended
    PROVE  Counts
<1>1. kernel.pended + 1 \in 0 .. MaxPended /\ Sound(kernel)
  BY Kept, KernelTypes, Constants DEF TickPended
<1>2. kernel' = [kernel EXCEPT !.pended = kernel.pended + 1]
  BY DEF TickPended, Set
<1>3. Like(kernel, kernel') /\ kernel'.pended = kernel.pended + 1
  BY <1>1, <1>2, LikePended
<1>4. [t \in Tasks |-> Remaining(t)]' = [t \in Tasks |-> Remaining(t)]
  BY <1>3 DEF Remaining, Like
<1>5. Delays!Hold
  BY <1>3, <1>4 DEF Delays!Hold, Like
<1>6. QED
  BY <1>5 DEF Counts, Delays!Next

(* xTaskResumeAll                                                          *)
LEMMA CountResume ==
    ASSUME SchedInv, NEW t \in All, Resumes(t), kernel.depth \in 1 .. 2
    PROVE  Counts
<1>1. Sound(kernel) /\ Timely(kernel) /\ kernel' = ResumeAll(kernel)
  BY Kept DEF Resumes, Set
<1>2. After(kernel, kernel')
  BY <1>1, ResumingAll
<1>3. CASE kernel.depth = 1
  <2>1. Resumed(kernel, kernel')
    BY <1>1, <1>3, Resuming
  <2>2. /\ kernel'.pended = 0 /\ Range(kernel'.pending) = {}
        /\ \A s \in Tasks : Left(kernel', s) =
             IF s \in Range(kernel.pending) \/ Left(kernel, s) <= kernel.pended THEN 0
             ELSE Left(kernel, s) - kernel.pended
    BY <2>1 DEF Resumed, Range
  <2>3. \A s \in Tasks : Left(kernel, s) \in Nat /\ kernel.pended \in Nat
    BY <1>1, LeftIs, KernelTypes, Constants DEF Sound
  <2>4. \A s \in Tasks : Left(kernel', s) =
             IF s \in Range(kernel.pending) THEN 0
             ELSE IF Left(kernel, s) > kernel.pended THEN Left(kernel, s) - kernel.pended ELSE 0
    BY <2>2, <2>3
  <2>5. [s \in Tasks |-> Remaining(s)]' =
           [s \in Tasks |-> IF s \in Range(kernel.pending) THEN 0
                            ELSE Delays!After(kernel.pended)[s]]
    BY <2>4 DEF Remaining, Delays!After
  <2>6. Delays!Release
    BY <2>2, <2>5 DEF Delays!Release
  <2>7. QED
    BY <2>6 DEF Counts, Delays!Next
<1>4. CASE kernel.depth = 2
  <2> DEFINE n == 1
  <2>1. kernel' = [kernel EXCEPT !.depth = n] /\ n \in 0 .. 2
    BY <1>1, <1>4, ResumingInner
  <2> HIDE DEF n
  <2>2. Like(kernel, kernel') /\ kernel'.pended = kernel.pended
    <3> DEFINE l == [kernel EXCEPT !.depth = n]
    <3>1. /\ Like(kernel, l) /\ l.current = kernel.current /\ l.depth = n
          /\ l.pended = kernel.pended /\ l.yield = kernel.yield
          /\ High(kernel) => High(l)
      BY <1>1, <2>1, LikeDepth, Zenon
    <3>2. kernel' = l
      BY <2>1
    <3> HIDE DEF l
    <3>3. QED
      BY <3>1, <3>2
  <2>3. QED
    BY <2>2, CountLike
<1>5. QED
  BY <1>3, <1>4

(* A handler that wakes a task                                             *)
LEMMA CountHandler ==
    ASSUME SchedInv, NEW u \in Tasks, u \notin Range(kernel.pending),
           NEW l, l = WakeFromISR(kernel, u),
           kernel' = Switch(l) \/ kernel' = [l EXCEPT !.yield = TRUE] \/ kernel' = l
    PROVE  Counts
<1>1. /\ Moved(kernel, l, u) /\ Sound(l)
      /\ kernel.depth = 0 => l.pending = kernel.pending /\ Left(l, u) = 0
      /\ kernel.depth # 0 => /\ Range(l.pending) = Range(kernel.pending) \cup {u}
                             /\ Left(l, u) = Left(kernel, u)
  <2>1. LET a == WakeFromISR(kernel, u) IN
        /\ Moved(kernel, a, u) /\ Timely(a)
        /\ a.prio = kernel.prio /\ a.yield = kernel.yield
        /\ kernel.depth = 0 =>
             /\ Ready(a) = Ready(kernel) \cup {u} /\ On(a) = On(kernel) \cup {u}
             /\ u \notin Range(a.suspended) /\ u \notin Range(a.term)
             /\ a.pending = kernel.pending /\ Left(a, u) = 0
        /\ kernel.depth # 0 =>
             /\ Ready(a) = Ready(kernel) /\ On(a) = On(kernel)
             /\ a.suspended = kernel.suspended /\ a.term = kernel.term
             /\ Range(a.pending) = Range(kernel.pending) \cup {u}
             /\ Left(a, u) = Left(kernel, u)
        /\ High(kernel) /\ (kernel.depth # 0 \/ kernel.prio[u] <= kernel.prio[kernel.current])
              => High(a)
    BY Kept, Waking, Zenon
  <2>2. Sound(l)
    BY <2>1 DEF Moved
  <2>3. QED
    BY <2>1, <2>2
<1>2. Like(l, kernel') /\ kernel'.pended = l.pended
  <2>1. CASE kernel' = Switch(l)
    BY <1>1, <2>1, LikeSwitch
  <2>2. CASE kernel' = [l EXCEPT !.yield = TRUE]
    <3>1. TRUE \in BOOLEAN
      OBVIOUS
    <3>2. QED
      BY <1>1, <2>2, <3>1, LikeYield
  <2>3. CASE kernel' = l
    BY <1>1, <2>3 DEF Like
  <2>4. QED
    BY <2>1, <2>2, <2>3
<1>3. CASE kernel.depth = 0
  BY <1>1, <1>2, <1>3, CountMoved
<1>4. CASE kernel.depth # 0
  <2>1. /\ kernel'.pended = kernel.pended
        /\ Range(kernel'.pending) = Range(kernel.pending) \cup {u}
        /\ \A t \in Tasks : Left(kernel', t) = Left(kernel, t)
    BY <1>1, <1>2, <1>4, Constants DEF Moved, Like
  <2>2. QED
    BY <2>1, CountLater
<1>5. QED
  BY <1>3, <1>4

-----------------------------------------------------------------------------
(* The steps, as steps of the countdown *)

(* A step that leaves the kernel alone                                     *)
LEMMA CountSame ==
    ASSUME kernel' = kernel
    PROVE  Counts
BY CountNothing

(* vTaskSuspendAll, by a task that runs                                    *)
LEMMA CountLock ==
    ASSUME SchedInv, NEW t \in All, NEW l \in {"app", "notified"}, At(t, l),
           kernel' = SuspendAll(kernel)
    PROVE  Counts
<1>1. Sound(kernel) /\ kernel.depth # 2
  <2>1. kernel.current = t /\ pc[t] = l
    BY Caller
  <2>2. kernel.depth \in 0 .. 1
    BY <2>1 DEF SchedInv, Depths
  <2>3. QED
    BY <2>2, Kept
<1>2. Like(kernel, kernel') /\ kernel'.pended = kernel.pended
  BY <1>1, Locking
<1>3. QED
  BY <1>2, CountLike

(* Calls that suspend the scheduler first                                  *)
LEMMA CountLocks ==
    ASSUME SchedInv, NEW t \in Tasks,
           \/ Delay(t) \/ DelayUntil(t) \/ Lock(t)
           \/ \E u \in Targets : AbortDelay(t, u)
    PROVE  Counts
<1>1. t \in All /\ At(t, "app")
  BY Constants DEF Delay, DelayUntil, Lock, AbortDelay, MayBlock, MayCall
<1>2. kernel' = kernel \/ kernel' = SuspendAll(kernel)
  BY DEF Delay, DelayUntil, Lock, AbortDelay, Set
<1>3. QED
  BY <1>1, <1>2, CountLock, CountSame

(* Steps of a task that change no kernel list                              *)
LEMMA CountIdleSteps ==
    ASSUME NEW t \in Tasks, Yield(t) \/ Notified(t) \/ AbortState(t) \/ DeletedYields(t)
    PROVE  Counts
BY CountSame DEF Yield, Notified, AbortState, DeletedYields

(* The task that runs blocks.                                              *)
LEMMA CountAddDelay ==
    ASSUME SchedInv, NEW t \in Tasks, AddDelay(t)
    PROVE  Counts
<1>1. t \in All /\ At(t, "delay")
  BY Constants DEF AddDelay
<1>2. kernel.current = t /\ pc[t] = "delay" /\ t \notin Asleep(kernel)
  BY <1>1, Caller
<1>3. ticks[t] \in Ticks /\ ticks[t] # 0 /\ FALSE \in BOOLEAN
  BY <1>1, <1>2, Types DEF SchedInv, Periods
<1>4. kernel' = Block(kernel, ticks[t], FALSE)
  BY DEF AddDelay, Set
<1>5. QED
  BY <1>2, <1>3, <1>4, CountBlock

(* vTaskDelayUntil puts its caller to sleep, or does nothing.              *)
LEMMA CountAddDelayUntil ==
    ASSUME SchedInv, NEW t \in Tasks, AddDelayUntil(t)
    PROVE  Counts
<1> DEFINE at == (previous[t] + ticks[t]) % Wrap
           m == (at - kernel.tick) % Wrap
<1>1. t \in All /\ At(t, "until")
  BY Constants DEF AddDelayUntil
<1>2. kernel.current = t /\ t \notin Asleep(kernel)
  BY <1>1, Caller
<1>3. previous[t] \in Ticks /\ at \in Ticks
  <2>1. previous[t] \in Ticks /\ ticks[t] \in Ticks /\ Wrap \in Nat \ {0, 1} /\ Ticks = 0 .. Wrap - 1
    BY <1>1, Types, Constants DEF SchedInv
  <2>2. QED
    BY <2>1
<1>4. kernel' = IF ShouldDelay(kernel.tick, previous[t], at) THEN Block(kernel, m, FALSE)
                ELSE kernel
  BY DEF AddDelayUntil, Set
<1>5. CASE ShouldDelay(kernel.tick, previous[t], at)
  <2> HIDE DEF at
  <2>1. m \in Ticks /\ m # 0 /\ FALSE \in BOOLEAN
    BY <1>3, <1>5, UntilTicks, Zenon
  <2>2. kernel' = Block(kernel, m, FALSE)
    BY <1>4, <1>5, Zenon
  <2> HIDE DEF m
  <2>3. QED
    BY <1>2, <2>1, <2>2, CountBlock
<1>6. CASE ~ShouldDelay(kernel.tick, previous[t], at)
  BY <1>4, <1>6, CountSame, Zenon
<1>7. QED
  BY <1>5, <1>6

(* xTaskNotifyWait puts its caller to sleep, or does nothing.              *)
LEMMA CountNotifyWait ==
    ASSUME SchedInv, NEW t \in Tasks, NotifyWait(t)
    PROVE  Counts
<1>1. t \in All /\ At(t, "app")
  BY Constants DEF NotifyWait, MayBlock
<1>2. kernel.current = t /\ t \notin Asleep(kernel)
  BY <1>1, Caller
<1>3. kernel' = kernel \/ \E n \in Waits[t] : n > 0 /\ kernel' = Block(kernel, n, TRUE)
  BY DEF NotifyWait, Set
<1>4. CASE kernel' = kernel
  BY <1>4, CountSame
<1>5. ASSUME NEW n \in Waits[t], n > 0, kernel' = Block(kernel, n, TRUE) PROVE Counts
  <2>1. n \in Ticks /\ n # 0 /\ TRUE \in BOOLEAN
    BY <1>5, WaitsAreTicks, Constants
  <2>2. QED
    BY <1>2, <1>5, <2>1, CountBlock
<1>6. QED
  BY <1>3, <1>4, <1>5

(* The end of a call that had the scheduler suspended                      *)
LEMMA CountResumes ==
    ASSUME SchedInv, NEW t \in All, ResumeAndYield(t) \/ Resume(t)
    PROVE  Counts
<1>1. PICK l \in {"resume", "resumeall"} : At(t, l) /\ Resumes(t)
  BY DEF ResumeAndYield, Resume
<1>2. kernel.current = t /\ pc[t] = l
  BY <1>1, Caller
<1>3. kernel.depth \in 1 .. 2
  BY <1>2 DEF SchedInv, Depths
<1>4. QED
  BY <1>1, <1>3, CountResume

(* The application resumes the scheduler.                                  *)
LEMMA CountUnlock ==
    ASSUME SchedInv, NEW t \in Tasks, Unlock(t)
    PROVE  Counts
<1>1. t \in All /\ Resumes(t) /\ kernel.depth \in 1 .. 2
  BY Constants DEF Unlock, MayUnlock
<1>2. QED
  BY <1>1, CountResume

(* The steps of vTaskSuspend                                               *)
LEMMA CountSuspend ==
    ASSUME SchedInv, NEW t \in Tasks, NEW u \in Targets, Suspend(t, u)
    PROVE  Counts
<1>1. u \in Tasks /\ Sound(kernel) /\ Timely(kernel)
  BY WaitsAreTicks, Kept
<1>2. kernel' = [Unpend(Unlist(kernel, u), u) EXCEPT !.suspended = Append(@, u)]
  BY DEF Suspend, Set
<1>3. Moved(kernel, kernel', u) /\ Left(kernel', u) = 0 /\ u \notin Range(kernel'.pending)
  BY <1>1, <1>2, Suspending
<1>4. Range(kernel'.pending) = Range(kernel.pending) \ {u}
  BY <1>3 DEF Moved
<1>5. QED
  BY <1>1, <1>3, <1>4, CountMovedOnly

(* vTaskSuspend computes xNextTaskUnblockTime anew.                        *)
LEMMA CountSuspendResets ==
    ASSUME SchedInv, NEW t \in Tasks, SuspendResets(t)
    PROVE  Counts
<1>1. Sound(kernel) /\ kernel' = ResetUnblock(kernel)
  BY Kept DEF SuspendResets, Set
<1>2. Like(kernel, kernel') /\ kernel'.pended = kernel.pended
  BY <1>1, LikeReset
<1>3. QED
  BY <1>2, CountLike

(* A task is made ready.                                                   *)
LEMMA CountResumeTask ==
    ASSUME SchedInv, NEW t \in Tasks, NEW u \in Targets, ResumeTask(t, u)
    PROVE  Counts
<1>1. u \in Tasks /\ Sound(kernel) /\ Timely(kernel) /\ kernel' = MakeReady(kernel, u)
  BY WaitsAreTicks, Kept DEF ResumeTask, Set
<1>2. Moved(kernel, kernel', u) /\ Left(kernel', u) = 0 /\ kernel'.pending = kernel.pending
  BY <1>1, Readying
<1>3. QED
  BY <1>1, <1>2, CountMovedOnly

(* A notification wakes a task, or none.                                   *)
LEMMA CountNotify ==
    ASSUME SchedInv, NEW t \in Tasks, NEW u \in Targets, Notify(t, u)
    PROVE  Counts
<1> DEFINE l == MakeReady(kernel, u)
<1>1. u \in Tasks /\ Sound(kernel) /\ Timely(kernel)
  BY WaitsAreTicks, Kept
<1>2. kernel' = kernel \/ kernel' = ResetUnblock(l)
  BY DEF Notify, Set
<1>3. Moved(kernel, l, u) /\ Left(l, u) = 0 /\ l.pending = kernel.pending
  BY <1>1, Readying
<1> HIDE DEF l
<1>4. CASE kernel' = kernel
  BY <1>4, CountSame
<1>5. CASE kernel' = ResetUnblock(l)
  <2>1. Sound(l)
    BY <1>3 DEF Moved
  <2>2. Like(l, kernel') /\ kernel'.pended = l.pended
    BY <1>5, <2>1, LikeReset
  <2>3. QED
    BY <1>1, <1>3, <2>2, CountMoved
<1>6. QED
  BY <1>2, <1>4, <1>5

(* The steps of xTaskAbortDelay                                            *)
LEMMA CountAbort ==
    ASSUME SchedInv, NEW t \in Tasks, AbortUnlist(t) \/ AbortEvent(t) \/ AbortEnlist(t)
    PROVE  Counts
<1> DEFINE u == target[t]
<1>1. Sound(kernel) /\ Timely(kernel) /\ t \in All /\ Placed /\ Hands
  BY Kept, Constants DEF SchedInv
<1>2. CASE AbortUnlist(t)
  <2>1. At(t, "unlist") /\ kernel' = Unlist(kernel, u)
    BY <1>2 DEF AbortUnlist, Set
  <2>2. u \in Tasks
    BY <1>1, <2>1, Caller DEF Hands
  <2> HIDE DEF u
  <2>3. Moved(kernel, kernel', u) /\ Left(kernel', u) = 0 /\ kernel'.pending = kernel.pending
    BY <1>1, <2>1, <2>2, Delisting
  <2>4. QED
    BY <2>2, <2>3, CountMovedOnly
<1>3. CASE AbortEvent(t) \/ AbortEnlist(t)
  <2>1. \E l \in {"event", "enlist"} : At(t, l)
    BY <1>3 DEF AbortEvent, AbortEnlist
  <2>2. pc[t] \in {"event", "enlist"}
    BY <1>1, <2>1, Caller
  <2>3. u \in Tasks /\ InHand(u)
    BY <1>1, <2>2 DEF Hands, InHand
  <2>4. u \notin On(kernel) /\ Left(kernel, u) = 0
    BY <1>1, <2>3, Kept DEF Placed, On
  <2>5. CASE AbortEvent(t)
    <3>1. kernel' = Unpend(kernel, u)
      BY <2>5 DEF AbortEvent, Set
    <3> HIDE DEF u
    <3>2. /\ Moved(kernel, kernel', u) /\ Left(kernel', u) = 0
          /\ Range(kernel'.pending) = Range(kernel.pending) \ {u}
      BY <1>1, <2>3, <2>4, <3>1, Depending
    <3>3. QED
      BY <2>3, <3>2, CountMovedOnly
  <2>6. CASE AbortEnlist(t)
    <3> DEFINE l == AddReady(kernel, u)
               b == kernel.yield \/ kernel.prio[u] > kernel.prio[t]
    <3>1. kernel' = [l EXCEPT !.yield = l.yield \/ kernel.prio[u] > kernel.prio[t]]
      BY <2>6 DEF AbortEnlist, Set
    <3> HIDE DEF u, l
    <3>2. /\ Moved(kernel, l, u) /\ Left(l, u) = 0 /\ l.pending = kernel.pending
          /\ l.yield = kernel.yield
      BY <1>1, <2>3, <2>4, Enlisting DEF l
    <3>3. kernel' = [l EXCEPT !.yield = b] /\ Sound(l)
      BY <3>1, <3>2 DEF Moved
    <3>4. b \in BOOLEAN
      <4>1. kernel.yield \in BOOLEAN
        BY Kept, KernelTypes
      <4>2. QED
        BY <4>1
    <3> HIDE DEF b
    <3>5. Like(l, kernel') /\ kernel'.pended = l.pended
      BY <3>3, <3>4, LikeYield
    <3>6. QED
      BY <2>3, <3>2, <3>5, CountMoved
  <2>7. QED
    BY <1>3, <2>5, <2>6
<1>4. QED
  BY <1>2, <1>3

(* vTaskPrioritySet                                                        *)
LEMMA CountPrioritySet ==
    ASSUME SchedInv, NEW t \in Tasks, NEW u \in Targets, NEW p \in Priorities,
           PrioritySet(t, u, p)
    PROVE  Counts
<1> DEFINE k == [kernel EXCEPT !.prio[u] = p]
<1>1. u \in Tasks /\ Sound(kernel) /\ Timely(kernel)
  BY WaitsAreTicks, Kept
<1>2. kernel' = IF u \in Ready(kernel) THEN MakeReady(k, u) ELSE k
  BY <1>1, Constants DEF PrioritySet, Set, Ready
<1>3. CASE u \in Ready(kernel)
  <2>1. kernel' = MakeReady(k, u)
    BY <1>2, <1>3
  <2> DEFINE l == MakeReady([kernel EXCEPT !.prio[u] = p], u)
  <2>2. /\ Moved(kernel, l, u) /\ Timely(l)
        /\ Ready(l) = Ready(kernel) \cup {u} /\ On(l) = On(kernel) \cup {u}
        /\ u \notin Range(l.suspended) /\ u \notin Range(l.term)
        /\ l.pending = kernel.pending
        /\ l.prio = [kernel.prio EXCEPT ![u] = p] /\ l.yield = kernel.yield
        /\ Left(l, u) = 0
        /\ High(kernel) /\ u # kernel.current /\ p <= kernel.prio[kernel.current] => High(l)
        /\ High(kernel) /\ u = kernel.current /\ p >= kernel.prio[u] => High(l)
    BY <1>1, PricingReady, Zenon
  <2>3. QED
    BY <1>1, <2>1, <2>2, CountMovedOnly
<1>4. CASE u \notin Ready(kernel)
  <2>1. kernel' = k
    BY <1>2, <1>4
  <2>2. /\ Moved(kernel, kernel', u) /\ Left(kernel', u) = Left(kernel, u)
        /\ kernel'.pending = kernel.pending
    BY <1>1, <1>4, <2>1, Pricing
  <2>3. /\ \A x \in Tasks : Left(kernel', x) = Left(kernel, x)
        /\ kernel'.pended = kernel.pended
    BY <2>2, Constants DEF Moved
  <2>4. QED
    BY <2>2, <2>3, CountNothing
<1>5. QED
  BY <1>3, <1>4

(* Deletion and creation                                                   *)
LEMMA CountDeleteSelf ==
    ASSUME SchedInv, NEW t \in Tasks, DeleteSelf(t)
    PROVE  Counts
<1>1. Sound(kernel) /\ Timely(kernel)
  BY Kept
<1>2. kernel' = [Unpend(Unlist(kernel, t), t) EXCEPT !.term = Append(@, t)]
  BY DEF DeleteSelf, Set
<1>3. Moved(kernel, kernel', t) /\ Left(kernel', t) = 0 /\ t \notin Range(kernel'.pending)
  BY <1>1, <1>2, Terminating
<1>4. Range(kernel'.pending) = Range(kernel.pending) \ {t}
  BY <1>3 DEF Moved
<1>5. QED
  BY <1>3, <1>4, CountMovedOnly

(* vTaskDelete of another task                                             *)
LEMMA CountDelete ==
    ASSUME SchedInv, NEW t \in Tasks, NEW u \in Targets, Delete(t, u)
    PROVE  Counts
<1>1. u \in Tasks /\ Sound(kernel) /\ Timely(kernel) /\ kernel' = DeleteFrom(kernel, u)
  BY WaitsAreTicks, Kept DEF Delete, Set
<1>2. /\ Moved(kernel, kernel', u) /\ Left(kernel', u) = 0
      /\ Range(kernel'.pending) = Range(kernel.pending) \ {u}
  BY <1>1, Deleting
<1>3. QED
  BY <1>1, <1>2, CountMovedOnly

(* xTaskCreate                                                             *)
LEMMA CountCreate ==
    ASSUME SchedInv, NEW t \in Tasks, NEW u \in Targets, Create(t, u)
    PROVE  Counts
<1> DEFINE p == Prio[u]
<1>1. u \in Tasks /\ Sound(kernel) /\ Timely(kernel) /\ p \in Priorities /\ pc[u] = "freed"
  BY WaitsAreTicks, Kept DEF Create
<1>2. kernel' = AddReady([kernel EXCEPT !.prio[u] = p], u)
  BY DEF Create, Set
<1>3. u \notin On(kernel) /\ u # kernel.current
  BY <1>1, Present DEF SchedInv, Depths
<1> HIDE DEF p
<1> DEFINE l == AddReady([kernel EXCEPT !.prio[u] = p], u)
<1>4. /\ Moved(kernel, l, u) /\ Timely(l)
      /\ Ready(l) = Ready(kernel) \cup {u} /\ On(l) = On(kernel) \cup {u}
      /\ u \notin Range(l.suspended) /\ u \notin Range(l.term)
      /\ l.pending = kernel.pending
      /\ l.prio = [kernel.prio EXCEPT ![u] = p] /\ l.yield = kernel.yield
      /\ Left(l, u) = 0 /\ Left(kernel, u) = 0
      /\ High(kernel) /\ p <= kernel.prio[kernel.current] => High(l)
  BY <1>1, <1>3, Creating, Zenon
<1> HIDE DEF l
<1>5. QED
  BY <1>1, <1>2, <1>4, CountMovedOnly DEF l

(* The idle task                                                           *)
LEMMA CountIdle ==
    ASSUME SchedInv, IdleSuspends \/ IdleSleeps \/ IdleUnlists \/ IdleReclaims
    PROVE  Counts
<1>1. CASE IdleSuspends
  <2>1. Idle \in All /\ At(Idle, "app") /\ kernel' = SuspendAll(kernel)
    BY <1>1, Constants DEF IdleSuspends, Set
  <2>2. QED
    BY <2>1, CountLock
<1>2. CASE IdleSleeps \/ IdleReclaims
  BY <1>2, CountSame DEF IdleSleeps, IdleReclaims
<1>3. CASE IdleUnlists
  <2> DEFINE u == Head(kernel.term)
  <2>1. Sound(kernel) /\ Timely(kernel) /\ kernel.term \in Seq(Tasks) /\ kernel.term # <<>>
    BY <1>3, Kept, KernelTypes DEF IdleUnlists
  <2>2. u \in Tasks
    BY <2>1
  <2>3. kernel' = Unlist(kernel, u)
    BY <1>3 DEF IdleUnlists, Set
  <2> HIDE DEF u
  <2>4. Moved(kernel, kernel', u) /\ Left(kernel', u) = 0 /\ kernel'.pending = kernel.pending
    BY <2>1, <2>2, <2>3, Delisting
  <2>5. QED
    BY <2>2, <2>4, CountMovedOnly
<1>4. QED
  BY <1>1, <1>2, <1>3

(* Handlers                                                                *)
LEMMA CountSwitchInterrupt ==
    ASSUME SchedInv, SwitchInterrupt
    PROVE  Counts
<1>1. Sound(kernel) /\ kernel' = Switch(kernel)
  BY Kept DEF SwitchInterrupt, Set
<1>2. Like(kernel, kernel') /\ kernel'.pended = kernel.pended
  BY <1>1, LikeSwitch
<1>3. QED
  BY <1>2, CountLike

(* A notification by a handler                                             *)
LEMMA CountNotifyFromISR ==
    ASSUME SchedInv, NEW u \in Targets, NotifyFromISR(u)
    PROVE  Counts
<1> DEFINE l == WakeFromISR(kernel, u)
<1>1. u \in Tasks
  BY WaitsAreTicks
<1>2. CASE notify[u] = "waiting"
  <2>1. kernel' = Switch(l) \/ kernel' = [l EXCEPT !.yield = TRUE] \/ kernel' = l
    BY <1>2 DEF NotifyFromISR, SwitchIf, Set
  <2>2. u \notin Range(kernel.pending)
    BY <1>1, <1>2 DEF SchedInv, Waiting
  <2>3. l = WakeFromISR(kernel, u)
    OBVIOUS
  <2> HIDE DEF l
  <2>4. QED
    BY <1>1, <2>1, <2>2, <2>3, CountHandler
<1>3. CASE notify[u] # "waiting"
  BY <1>3, CountSame DEF NotifyFromISR, SwitchIf, Set
<1>4. QED
  BY <1>2, <1>3

(* A task resumed by a handler                                             *)
LEMMA CountResumeFromISR ==
    ASSUME SchedInv, NEW u \in Targets, ResumeFromISR(u)
    PROVE  Counts
<1> DEFINE l == WakeFromISR(kernel, u)
<1>1. u \in Tasks
  BY WaitsAreTicks
<1>2. kernel' = Switch(l) \/ kernel' = [l EXCEPT !.yield = TRUE] \/ kernel' = l
  BY DEF ResumeFromISR, SwitchIf, Set
<1>3. u \notin Range(kernel.pending)
  BY DEF ResumeFromISR, IsSuspended
<1>4. l = WakeFromISR(kernel, u)
  OBVIOUS
<1> HIDE DEF l
<1>5. QED
  BY <1>1, <1>2, <1>3, <1>4, CountHandler

(* Every step of the scheduler is one of Countdown, or none.               *)
LEMMA NextCounts ==
    ASSUME SchedInv, [Next]_vars
    PROVE  Counts
<1>1. ASSUME NEW t \in Tasks, Step(t) PROVE Counts
  BY <1>1, CountAddDelay, CountAddDelayUntil, CountResumes, CountIdleSteps,
     CountSuspendResets, CountAbort, Constants DEF Step
<1>2. ASSUME NEW t \in Tasks, Call(t) PROVE Counts
  <2>1. ASSUME NEW u \in Targets,
               \/ Suspend(t, u) \/ ResumeTask(t, u) \/ AbortDelay(t, u) \/ Notify(t, u)
               \/ Delete(t, u) \/ Create(t, u)
        PROVE  Counts
    BY <2>1, CountSuspend, CountResumeTask, CountLocks, CountNotify, CountDelete, CountCreate
  <2>2. ASSUME NEW u \in Targets, NEW p \in Priorities, PrioritySet(t, u, p) PROVE Counts
    BY <2>2, CountPrioritySet
  <2>3. CASE Delay(t) \/ DelayUntil(t) \/ NotifyWait(t) \/ Lock(t) \/ DeleteSelf(t)
    BY <2>3, CountLocks, CountNotifyWait, CountDeleteSelf
  <2>4. QED
    BY <1>2, <2>1, <2>2, <2>3 DEF Call
<1>3. ASSUME NEW t \in Tasks, Unlock(t) PROVE Counts
  BY <1>3, CountUnlock
<1>4. CASE \/ Resume(Idle) \/ IdleSuspends \/ IdleSleeps \/ IdleUnlists \/ IdleReclaims
           \/ SwitchInterrupt \/ Tick
  BY <1>4, CountResumes, CountIdle, CountSwitchInterrupt, CountTick, CountPended,
     Constants DEF Tick
<1>5. ASSUME NEW u \in Targets, NotifyFromISR(u) \/ ResumeFromISR(u) PROVE Counts
  BY <1>5, CountNotifyFromISR, CountResumeFromISR
<1>6. CASE UNCHANGED vars
  BY <1>6, CountSame DEF vars
<1>7. QED
  BY <1>1, <1>2, <1>3, <1>4, <1>5, <1>6 DEF Next

(* The delayed lists, the tick count that wraps, xNextTaskUnblockTime and  *)
(* the pended ticks implement a countdown for each task: no task wakes     *)
(* early or late.                                                          *)
THEOREM RefinesCountdownCorrect == ASSUME ~ResumesAny PROVE Spec => RefinesCountdown
<1>1. Init => Delays!Init
  <2> SUFFICES ASSUME Init PROVE Delays!Init
    OBVIOUS
  <2>1. kernel.delayed = <<>> /\ kernel.overflow = <<>> /\ kernel.pending = <<>> /\ kernel.pended = 0
    BY DEF Init
  <2>2. Asleep(kernel) = {} /\ Range(kernel.pending) = {}
    BY <2>1 DEF Asleep, Range
  <2>3. \A t \in Tasks : Remaining(t) = 0
    BY <2>2 DEF Remaining, Left
  <2>4. QED
    BY <2>1, <2>2, <2>3 DEF Delays!Init
<1>2. SchedInv /\ [Next]_vars => [Delays!Next]_(Delays!vars)
  BY NextCounts DEF Counts
<1>3. QED
  BY <1>1, <1>2, InvariantCorrect, PTL DEF Spec, RefinesCountdown, Delays!Spec
=============================================================================
