------------------------- MODULE EventGroup_proofs -------------------------
(***************************************************************************)
(* Theorems about EventGroup, for any number of tasks, bits and calls, on  *)
(* one core (SingleCore). With two, suspending the scheduler of one leaves *)
(* the tasks of the other running: a task may look at a group that has     *)
(* been deleted, or pass a rendezvous alone.                               *)
(*                                                                         *)
(* EventInv says what a task's place in its call, its item and the bits    *)
(* have to do with each other. Each theorem adds what is left to say of    *)
(* the steps in the middle of a call: Settled and Cursor, which tasks the  *)
(* walk has yet to come to; Deleting, who may be left when a group goes;   *)
(* Rendezvous, for whom a bit is there that tasks meet at.                 *)
(***************************************************************************)
EXTENDS EventGroup, TLAPS

SingleCore == \A c, d \in Cores : c = d

(* The order of those that wait *)
Injective(s) == \A i, j \in DOMAIN s : s[i] = s[j] => i = j
Before(s, a, b) == \E i, j \in DOMAIN s : i < j /\ s[i] = a /\ s[j] = b

Items == [bits : SUBSET Bits, clear : BOOLEAN, all : BOOLEAN, told : BOOLEAN]

(* Where the scheduler is suspended *)
Suspended == {"set", "walk", "meet", "test", "delete", "resume"}

(* One task has suspended the scheduler, and it is where it may have.      *)
Excluding ==
    /\ Injective(waiting)
    /\ \A t \in Tasks : pc[t] \in Suspended <=> holder[core[t]] = t

(* A call is one of the task's own; the ticks of one that is answered are  *)
(* forgotten.                                                              *)
Own(t) ==
    pc[t] # "idle" =>
        /\ \E k \in Does[t] : call[t] \in {k, [k EXCEPT !.ticks = "zero"]}
        /\ pc[t] \notin {"resume", "reread", "late"} => call[t] \in Does[t]

(* Where a task is in its call *)
Placed(t) ==
    /\ pc[t] = "idle" => call[t] = NoCall
    /\ pc[t] = "clear" => call[t].op = "clear"
    /\ pc[t] = "suspend" => call[t].op # "clear"
    /\ pc[t] \in {"set", "walk"} => call[t].op \in {"set", "sync"}
    /\ pc[t] = "meet" => call[t].op = "sync"
    /\ pc[t] = "test" => call[t].op = "wait"
    /\ pc[t] = "delete" => call[t].op = "delete"
    /\ pc[t] = "resume" => call[t].op # "clear"
    /\ pc[t] \in {"woken", "late"} => call[t].op \in {"wait", "sync"} /\ call[t].ticks # "zero"
    /\ pc[t] # "walk" => toClear[t] = {} /\ next[t] = NoTask

(* What the item of a task that waits says *)
Waiter(t) ==
    /\ pc[t] \in {"resume", "woken"} /\ call[t].op \in {"wait", "sync"} /\ call[t].ticks # "zero"
    /\ item[t] = [bits |-> call[t].want, told |-> FALSE,
                  clear |-> call[t].op = "sync" \/ call[t].clear,
                  all |-> call[t].op = "sync" \/ call[t].all]
Waiters == \A t \in ToSet(waiting) : Waiter(t)

(* The bits in the middle of a change *)
Changing(t) ==
    /\ pc[t] = "set" => bits = original[t]
    /\ pc[t] = "walk" => bits = original[t] \cup call[t].mark
    /\ pc[t] = "meet" => bits \subseteq original[t] \cup call[t].mark

EventInv ==
    /\ TypeOK /\ Excluding /\ Waiters
    /\ \A t \in Tasks : Own(t) /\ Placed(t) /\ Changing(t)

(* Nobody waits for bits that are set, but for those the walk has to come  *)
(* to yet.                                                                 *)
Stranded(a) == Met(bits, item[a].bits, item[a].all)
Settled ==
    \A a \in ToSet(waiting) :
        Stranded(a) => \E t \in Tasks :
            /\ pc[t] = "walk" /\ next[t] \in ToSet(waiting)
            /\ ~Before(waiting, a, next[t])
Cursor == \A t \in Tasks : next[t] \in ToSet(waiting) \cup {NoTask}

(* A group that is being deleted or has been is left alone.                *)
LeftAlone(u) ==
    \/ pc[u] = "idle"
    \/ pc[u] = "woken" /\ (item[u].told \/ (u \in ToSet(waiting) /\ call[u].ticks = "max"))
Deleting ==
    /\ \A t \in Tasks : call[t].op = "delete" =>
         /\ pc[t] \in {"suspend", "delete", "resume"}
         /\ pc[t] = "resume" <=> deleted
         /\ \A u \in Tasks \ {t} : LeftAlone(u)
    /\ deleted =>
         /\ waiting = <<>>
         /\ \A u \in Tasks : call[u].op # "delete" => LeftAlone(u)

(* The bits that tasks meet at *)
MeetingBit(b) == Meeting({b})
Comes(u, b) == call[u].op = "sync" /\ b \in call[u].mark
Rendezvous ==
    (\A u \in Tasks : call[u].op # "delete") /\ ~deleted =>
    /\ \A b \in bits : MeetingBit(b) =>
         \E u \in Tasks :
           /\ Comes(u, b)
           /\ \/ u \in ToSet(waiting)
              \/ pc[u] \in {"walk", "meet"}
              \/ pc[u] = "woken" /\ \E t \in Tasks : pc[t] = "walk" /\ b \in toClear[t]
    /\ \A t \in Tasks : pc[t] \in {"set", "walk", "meet"} =>
         \A b \in original[t] : MeetingBit(b) =>
           \E u \in Tasks \ {t} : Comes(u, b) /\ pc[u] = "woken"

-----------------------------------------------------------------------------

(* Two lists end to end *)
LEMMA EndToEnd ==
    ASSUME NEW x \in Seq(Tasks), NEW y \in Seq(Tasks)
    PROVE  /\ x \o y \in Seq(Tasks) /\ Len(x \o y) = Len(x) + Len(y)
           /\ \A i \in 1 .. Len(x) : (x \o y)[i] = x[i]
           /\ \A i \in 1 .. Len(y) : (x \o y)[Len(x) + i] = y[i]
OBVIOUS

(* What taking one off leaves *)
LEMMA UnlinkOne ==
    ASSUME NEW s \in Seq(Tasks), Injective(s), NEW t \in ToSet(s)
    PROVE  LET r == Unlink(s, t) IN
           /\ r \in Seq(Tasks) /\ Injective(r) /\ ToSet(r) = ToSet(s) \ {t}
           /\ \A a, b \in Tasks : Before(r, a, b) => Before(s, a, b)
<1> DEFINE r == Unlink(s, t)
<1> DEFINE k == CHOOSE i \in DOMAIN s : s[i] = t
           q(x) == IF x < k THEN x ELSE x + 1
<1>1. k \in DOMAIN s /\ s[k] = t
  BY DEF ToSet
<1>2. r = SubSeq(s, 1, k - 1) \o SubSeq(s, k + 1, Len(s))
  BY DEF Unlink, RemoveAt
<1> HIDE DEF k, r
<1>3. /\ r \in Seq(Tasks) /\ Len(r) = Len(s) - 1
      /\ \A i \in 1 .. k - 1 : r[i] = s[i]
      /\ \A i \in k .. Len(s) - 1 : r[i] = s[i + 1]
  <2> DEFINE x == SubSeq(s, 1, k - 1)
             y == SubSeq(s, k + 1, Len(s))
  <2>1. x \in Seq(Tasks) /\ Len(x) = k - 1 /\ \A i \in 1 .. k - 1 : x[i] = s[i]
    BY <1>1
  <2>2. /\ y \in Seq(Tasks) /\ Len(y) = Len(s) - k
        /\ \A i \in 1 .. Len(s) - k : y[i] = s[i + k]
    BY <1>1
  <2>3. r = x \o y
    BY <1>2
  <2> HIDE DEF x, y
  <2>4. /\ r \in Seq(Tasks) /\ Len(r) = Len(s) - 1
        /\ \A i \in 1 .. k - 1 : r[i] = x[i]
        /\ \A i \in k .. Len(s) - 1 : r[i] = y[i - k + 1]
    <3>1. /\ r \in Seq(Tasks) /\ Len(r) = (k - 1) + (Len(s) - k)
          /\ \A i \in 1 .. k - 1 : r[i] = x[i]
          /\ \A i \in 1 .. Len(s) - k : r[(k - 1) + i] = y[i]
      <4>1. /\ r \in Seq(Tasks) /\ Len(r) = Len(x) + Len(y)
            /\ \A i \in 1 .. Len(x) : r[i] = x[i]
            /\ \A i \in 1 .. Len(y) : r[Len(x) + i] = y[i]
        BY <2>1, <2>2, <2>3, EndToEnd, Zenon
      <4>2. QED
        BY <2>1, <2>2, <4>1
    <3>2. (k - 1) + (Len(s) - k) = Len(s) - 1
      BY <1>1
    <3>3. ASSUME NEW i \in k .. Len(s) - 1 PROVE r[i] = y[i - k + 1]
      <4>1. i - k + 1 \in 1 .. Len(s) - k /\ (k - 1) + (i - k + 1) = i
        BY <1>1
      <4>2. QED
        BY <3>1, <4>1
    <3>4. QED
      BY <3>1, <3>2, <3>3
  <2>5. ASSUME NEW i \in k .. Len(s) - 1 PROVE r[i] = s[i + 1]
    <3>1. i - k + 1 \in 1 .. Len(s) - k /\ (i - k + 1) + k = i + 1
      BY <1>1
    <3>2. QED
      BY <2>2, <2>4, <3>1
  <2>6. QED
    BY <2>1, <2>4, <2>5
<1>4. DOMAIN s = 1 .. Len(s) /\ DOMAIN r = 1 .. Len(s) - 1 /\ Len(s) \in Nat
  BY <1>3
<1>5. \A x \in DOMAIN r : q(x) \in DOMAIN s /\ q(x) # k /\ r[x] = s[q(x)]
  BY <1>1, <1>3, <1>4
<1>6. \A x, y \in DOMAIN r : (q(x) = q(y) => x = y) /\ (x < y => q(x) < q(y))
  BY <1>1, <1>4
<1>7. \A i \in DOMAIN s : i # k => \E x \in DOMAIN r : q(x) = i
  <2> SUFFICES ASSUME NEW i \in DOMAIN s, i # k PROVE \E x \in DOMAIN r : q(x) = i
    OBVIOUS
  <2>1. i < k => i \in DOMAIN r /\ q(i) = i
    BY <1>1, <1>4
  <2>2. ~(i < k) => i - 1 \in DOMAIN r /\ q(i - 1) = i
    BY <1>1, <1>4
  <2>3. QED
    BY <2>1, <2>2
<1> HIDE DEF q
<1>8. Injective(r)
  BY <1>5, <1>6 DEF Injective
<1>9. ToSet(r) = ToSet(s) \ {t}
  <2>1. \A x \in DOMAIN r : r[x] \in ToSet(s) /\ r[x] # t
    BY <1>1, <1>5 DEF ToSet, Injective
  <2>2. \A i \in DOMAIN s : s[i] # t => s[i] \in ToSet(r)
    BY <1>1, <1>5, <1>7 DEF ToSet
  <2>3. QED
    BY <2>1, <2>2 DEF ToSet
<1>10. \A a, b \in Tasks : Before(r, a, b) => Before(s, a, b)
  BY <1>5, <1>6 DEF Before
<1>11. QED
  BY <1>3, <1>8, <1>9, <1>10 DEF r

(* One more at the end *)
LEMMA AppendOne ==
    ASSUME NEW s \in Seq(Tasks), Injective(s), NEW t \in Tasks \ ToSet(s)
    PROVE  LET r == Append(s, t) IN
           /\ r \in Seq(Tasks) /\ Injective(r) /\ ToSet(r) = ToSet(s) \cup {t}
<1> DEFINE r == Append(s, t)
<1>1. /\ r \in Seq(Tasks) /\ DOMAIN s = 1 .. Len(s) /\ DOMAIN r = 1 .. Len(s) + 1 /\ Len(s) \in Nat
      /\ r[Len(s) + 1] = t /\ \A i \in DOMAIN s : r[i] = s[i]
  OBVIOUS
<1>2. \A i \in DOMAIN s : s[i] # t /\ s[i] \in ToSet(s)
  BY DEF ToSet
<1> HIDE DEF r
<1>3. DOMAIN r = DOMAIN s \cup {Len(s) + 1} /\ Len(s) + 1 \notin DOMAIN s
  BY <1>1
<1>4. Injective(r)
  BY <1>1, <1>2, <1>3 DEF Injective
<1>5. ToSet(r) = ToSet(s) \cup {t}
  BY <1>1, <1>3 DEF ToSet
<1>6. QED
  BY <1>1, <1>4, <1>5 DEF r

(* Whoever comes before another one on a list is on it. *)
LEMMA BeforeMembers ==
    ASSUME NEW s, NEW a, NEW b, Before(s, a, b) PROVE a \in ToSet(s) /\ b \in ToSet(s)
BY DEF Before, ToSet

(* Nobody comes before the head, and there is one if anybody waits. *)
LEMMA HeadFirst ==
    ASSUME NEW s \in Seq(Tasks), Injective(s)
    PROVE  /\ s = <<>> <=> ToSet(s) = {}
           /\ s = <<>> => HeadOf(s) = NoTask
           /\ s # <<>> => /\ Head(s) \in ToSet(s) /\ Head(s) \in Tasks /\ HeadOf(s) = Head(s)
                          /\ \A a \in Tasks : ~Before(s, a, Head(s))
<1>1. CASE s = <<>>
  BY <1>1 DEF HeadOf, ToSet
<1>2. CASE s # <<>>
  <2>1. 1 \in DOMAIN s /\ DOMAIN s = 1 .. Len(s) /\ Len(s) \in Nat /\ Head(s) = s[1] /\ s[1] \in Tasks
    BY <1>2
  <2>2. \A a \in Tasks : ~Before(s, a, Head(s))
    BY <2>1 DEF Before, Injective
  <2>3. QED
    BY <1>2, <2>1, <2>2 DEF HeadOf, ToSet
<1>3. QED
  BY <1>1, <1>2

(* The one after u comes after all that come before u, and after u. *)
LEMMA AfterNext ==
    ASSUME waiting \in Seq(Tasks), Injective(waiting), NEW u \in ToSet(waiting)
    PROVE  /\ After(u) = NoTask => \A a \in ToSet(waiting) \ {u} : Before(waiting, a, u)
           /\ After(u) # NoTask =>
                /\ After(u) \in ToSet(waiting) \ {u}
                /\ \A a \in Tasks : Before(waiting, a, After(u)) => a = u \/ Before(waiting, a, u)
<1> DEFINE k == CHOOSE i \in DOMAIN waiting : waiting[i] = u
<1>1. k \in DOMAIN waiting /\ waiting[k] = u
  BY DEF ToSet
<1>2. After(u) = IF k < Len(waiting) THEN waiting[k + 1] ELSE NoTask
  BY DEF After
<1> HIDE DEF k
<1>3. DOMAIN waiting = 1 .. Len(waiting) /\ Len(waiting) \in Nat
      /\ \A i \in DOMAIN waiting : waiting[i] \in Tasks
  OBVIOUS
<1>4. CASE k < Len(waiting)
  <2>1. k + 1 \in DOMAIN waiting /\ After(u) = waiting[k + 1] /\ After(u) # NoTask /\ After(u) # u
    BY <1>1, <1>2, <1>3, <1>4, EventGroupAssumption DEF Injective
  <2>2. ASSUME NEW a \in Tasks, Before(waiting, a, After(u)) PROVE a = u \/ Before(waiting, a, u)
    <3>1. PICK i, j \in DOMAIN waiting : i < j /\ waiting[i] = a /\ waiting[j] = After(u)
      BY <2>2 DEF Before
    <3>2. j = k + 1
      BY <2>1, <3>1 DEF Injective
    <3>3. i = k \/ i < k
      BY <1>1, <1>3, <3>1, <3>2
    <3>4. QED
      BY <1>1, <3>1, <3>3 DEF Before
  <2>3. QED
    BY <2>1, <2>2 DEF ToSet
<1>5. CASE ~(k < Len(waiting))
  <2>1. After(u) = NoTask /\ \A i \in DOMAIN waiting : i = k \/ i < k
    BY <1>1, <1>2, <1>3, <1>5
  <2>2. QED
    BY <1>1, <2>1 DEF ToSet, Before
<1>6. QED
  BY <1>4, <1>5

-----------------------------------------------------------------------------
(* One task at most has suspended the scheduler, and no other one runs     *)
(* then.                                                                   *)
LEMMA Alone ==
    ASSUME EventInv, SingleCore, NEW t \in Tasks
    PROVE  /\ pc[t] \in Suspended => \A u \in Tasks : pc[u] \in Suspended => u = t
           /\ \A l : At(t, l) => /\ pc[t] = l /\ t \notin ToSet(waiting)
                                 /\ \A u \in Tasks : pc[u] \in Suspended => u = t
           /\ holder[core[t]] = NoTask => \A u \in Tasks : pc[u] \notin Suspended
<1>1. ToSet(waiting) = blocked /\ \A u \in Tasks : core[u] = core[t]
  BY DEF EventInv, TypeOK, SingleCore
<1>2. \A u \in Tasks : pc[u] \in Suspended <=> holder[core[t]] = u
  BY <1>1 DEF EventInv, Excluding
<1>3. QED
  BY <1>1, <1>2, EventGroupAssumption DEF At

(* The list when a task of it is woken *)
LEMMA WakeMoves ==
    ASSUME EventInv, SingleCore, NEW t \in Tasks, NEW u \in ToSet(waiting), NEW value \in SUBSET Bits,
           Wake(core[t], u, value)
    PROVE  /\ u \in Tasks /\ core' = core
           /\ waiting' \in Seq(Tasks) /\ Injective(waiting')
           /\ ToSet(waiting') = ToSet(waiting) \ {u} /\ blocked' = ToSet(waiting')
           /\ \A a, b \in Tasks : Before(waiting', a, b) => Before(waiting, a, b)
           /\ item' = [item EXCEPT ![u] = [item[u] EXCEPT !.bits = value, !.told = TRUE]]
<1>1. waiting \in Seq(Tasks) /\ Injective(waiting) /\ blocked = ToSet(waiting)
      /\ core \in [Tasks -> Cores]
  BY DEF EventInv, TypeOK, Excluding
<1>2. u \in Tasks
  BY <1>1 DEF ToSet
<1>3. core' = core
  BY <1>1, <1>2 DEF Wake, SingleCore
<1>4. waiting' = Unlink(waiting, u) /\ blocked' = blocked \ {u}
      /\ item' = [item EXCEPT ![u] = [item[u] EXCEPT !.bits = value, !.told = TRUE]]
  BY DEF Wake
<1>5. QED
  BY <1>1, <1>2, <1>3, <1>4, UnlinkOne

(* when a task's time is over, *)
LEMMA ExpireMoves ==
    ASSUME EventInv, NEW t \in Tasks, Expire(t)
    PROVE  /\ t \in ToSet(waiting)
           /\ waiting' \in Seq(Tasks) /\ Injective(waiting')
           /\ ToSet(waiting') = ToSet(waiting) \ {t} /\ blocked' = ToSet(waiting')
<1>1. waiting \in Seq(Tasks) /\ Injective(waiting) /\ blocked = ToSet(waiting)
  BY DEF EventInv, TypeOK, Excluding
<1>2. t \in blocked /\ waiting' = Unlink(waiting, t) /\ blocked' = blocked \ {t}
  BY DEF Expire
<1>3. QED
  BY <1>1, <1>2, UnlinkOne

(* and when it begins to wait *)
LEMMA PlaceMoves ==
    ASSUME EventInv, NEW t \in Tasks, t \notin ToSet(waiting),
           waiting' = Append(waiting, t), blocked' = blocked \cup {t}
    PROVE  /\ waiting' \in Seq(Tasks) /\ Injective(waiting')
           /\ ToSet(waiting') = ToSet(waiting) \cup {t} /\ blocked' = ToSet(waiting')
<1>1. waiting \in Seq(Tasks) /\ Injective(waiting) /\ blocked = ToSet(waiting)
  BY DEF EventInv, TypeOK, Excluding
<1>2. waiting' \in Seq(Tasks) /\ Injective(waiting') /\ ToSet(waiting') = ToSet(waiting) \cup {t}
  BY <1>1, AppendOne
<1>3. QED
  BY <1>1, <1>2

(* What the variables are *)
LEMMA Types ==
    ASSUME EventInv
    PROVE  /\ bits \in SUBSET Bits /\ deleted \in BOOLEAN
           /\ waiting \in Seq(Tasks) /\ Injective(waiting) /\ blocked = ToSet(waiting)
           /\ \A u \in ToSet(waiting) : u \in Tasks /\ Waiter(u) /\ pc[u] \in {"resume", "woken"}
           /\ item \in [Tasks -> Items] /\ Blank \in Items
           /\ \A u \in Tasks : /\ item[u].bits \in SUBSET Bits /\ item[u].told \in BOOLEAN
                               /\ item[u].clear \in BOOLEAN /\ item[u].all \in BOOLEAN
                               /\ \A value \in SUBSET Bits :
                                    [item[u] EXCEPT !.bits = value, !.told = TRUE] \in Items
           /\ next \in [Tasks -> Tasks \cup {NoTask}] /\ toClear \in [Tasks -> SUBSET Bits]
           /\ core \in [Tasks -> Cores] /\ holder \in [Cores -> Tasks \cup {NoTask}]
<1>1. /\ bits \in SUBSET Bits /\ deleted \in BOOLEAN
      /\ waiting \in Seq(Tasks) /\ Injective(waiting) /\ blocked = ToSet(waiting)
      /\ item \in [Tasks -> Items]
      /\ next \in [Tasks -> Tasks \cup {NoTask}] /\ toClear \in [Tasks -> SUBSET Bits]
      /\ core \in [Tasks -> Cores] /\ holder \in [Cores -> Tasks \cup {NoTask}]
  BY DEF EventInv, TypeOK, Items, Excluding
<1>2. \A u \in ToSet(waiting) : u \in Tasks
  BY <1>1 DEF ToSet
<1>3. \A u \in ToSet(waiting) : Waiter(u) /\ pc[u] \in {"resume", "woken"}
  BY DEF EventInv, Waiters, Waiter
<1>4. ASSUME NEW i \in Items
      PROVE  /\ i.bits \in SUBSET Bits /\ i.told \in BOOLEAN /\ i.clear \in BOOLEAN /\ i.all \in BOOLEAN
             /\ \A value \in SUBSET Bits : [i EXCEPT !.bits = value, !.told = TRUE] \in Items
  BY DEF Items
<1>5. Blank \in Items
  BY DEF Blank, Items
<1>6. QED
  BY <1>1, <1>2, <1>3, <1>4, <1>5

(* What a call is, *)
LEMMA Calls ==
    ASSUME EventInv
    PROVE  /\ NoCall \in Call /\ call \in [Tasks -> Call]
           /\ pc \in [Tasks -> Labels] /\ original \in [Tasks -> SUBSET Bits]
           /\ \A t \in Tasks : /\ call[t].op \in Ops /\ call[t].ticks \in {"zero", "some", "max"}
                               /\ call[t].want \in SUBSET Bits /\ call[t].mark \in SUBSET Bits
                               /\ call[t].clear \in BOOLEAN /\ call[t].all \in BOOLEAN
                               /\ [call[t] EXCEPT !.ticks = "zero"] \in Call
<1>1. NoCall \in Call
  BY DEF NoCall, Call, Ops
<1>2. call \in [Tasks -> Call] /\ pc \in [Tasks -> Labels] /\ original \in [Tasks -> SUBSET Bits]
  BY DEF EventInv, TypeOK
<1>3. ASSUME NEW k \in Call
      PROVE  /\ k.op \in Ops /\ k.ticks \in {"zero", "some", "max"}
             /\ k.want \in SUBSET Bits /\ k.mark \in SUBSET Bits
             /\ k.clear \in BOOLEAN /\ k.all \in BOOLEAN
             /\ [k EXCEPT !.ticks = "zero"] \in Call
  BY DEF Call, Ops
<1>4. QED
  BY <1>1, <1>2, <1>3

(* and what is left when it ends *)
LEMMA Returns ==
    ASSUME EventInv, NEW t \in Tasks, Return(t)
    PROVE  /\ pc' = [pc EXCEPT ![t] = "idle"] /\ pc' \in [Tasks -> Labels]
           /\ call' = [call EXCEPT ![t] = NoCall] /\ call' \in [Tasks -> Call]
           /\ original' = [original EXCEPT ![t] = {}] /\ original' \in [Tasks -> SUBSET Bits]
           /\ pc'[t] = "idle" /\ call'[t] = NoCall
           /\ \A u \in Tasks \ {t} :
                pc'[u] = pc[u] /\ call'[u] = call[u] /\ original'[u] = original[u]
           /\ UNCHANGED <<next, toClear>>
BY Calls DEF Return, Goto, Labels

(* One turn of the walk *)
LEMMA WalkMoves ==
    ASSUME EventInv, SingleCore, NEW t \in Tasks, Walk(t)
    PROVE  \E u \in ToSet(waiting) :
             /\ u \in Tasks /\ u = next[t] /\ u # t /\ pc[t] = "walk"
             /\ \A v \in Tasks : pc[v] \in Suspended => v = t
             /\ next' = [next EXCEPT ![t] = After(u)] /\ next' \in [Tasks -> Tasks \cup {NoTask}]
             /\ UNCHANGED <<bits, deleted, holder, pc, call, original, core>>
             /\ toClear' \in [Tasks -> SUBSET Bits] /\ item' \in [Tasks -> Items]
             /\ waiting' \in Seq(Tasks) /\ Injective(waiting') /\ blocked' = ToSet(waiting')
             /\ \A v \in Tasks \ {t} : toClear'[v] = toClear[v] /\ next'[v] = next[v]
             /\ \A v \in Tasks \ {u} : item'[v] = item[v]
             /\ \A a, b \in Tasks : Before(waiting', a, b) => Before(waiting, a, b)
             /\ toClear[t] \subseteq toClear'[t]
             /\ \/ /\ ~Met(bits, item[u].bits, item[u].all)
                   /\ UNCHANGED <<toClear, item, waiting, blocked>>
                \/ /\ Met(bits, item[u].bits, item[u].all) /\ item'[u].told
                   /\ ToSet(waiting') = ToSet(waiting) \ {u}
                   /\ item[u].clear => item[u].bits \subseteq toClear'[t]
<1> DEFINE u == next[t]
<1>1. /\ At(t, "walk") /\ u \in ToSet(waiting) /\ next' = [next EXCEPT ![t] = After(u)]
      /\ UNCHANGED <<bits, deleted, holder, pc, call, original>>
  BY DEF Walk
<1>2. t \notin ToSet(waiting) /\ pc[t] = "walk" /\ u # t /\ \A v \in Tasks : pc[v] \in Suspended => v = t
  BY <1>1, Alone
<1>3. u \in Tasks /\ After(u) \in Tasks \cup {NoTask}
  BY <1>1, Types, AfterNext
<1>4. next' \in [Tasks -> Tasks \cup {NoTask}] /\ \A v \in Tasks \ {t} : next'[v] = next[v]
  BY <1>1, <1>3, Types
<1>5. CASE Met(bits, item[u].bits, item[u].all)
  <2> DEFINE d == IF item[u].clear THEN item[u].bits ELSE {}
             i == [item[u] EXCEPT !.bits = bits, !.told = TRUE]
  <2>1. Wake(core[t], u, bits) /\ toClear' = [toClear EXCEPT ![t] = toClear[t] \cup d]
    BY <1>5 DEF Walk
  <2>2. /\ core' = core /\ waiting' \in Seq(Tasks) /\ Injective(waiting')
        /\ ToSet(waiting') = ToSet(waiting) \ {u} /\ blocked' = ToSet(waiting')
        /\ \A a, b \in Tasks : Before(waiting', a, b) => Before(waiting, a, b)
        /\ item' = [item EXCEPT ![u] = i]
    BY <1>1, <2>1, Types, WakeMoves
  <2>3. d \in SUBSET Bits /\ (item[u].clear => d = item[u].bits)
    BY <1>3, Types
  <2>4. i \in Items /\ i.told = TRUE
    BY <1>3, Types DEF Items
  <2> HIDE DEF d, i
  <2>5. /\ toClear' \in [Tasks -> SUBSET Bits] /\ toClear'[t] = toClear[t] \cup d
        /\ \A v \in Tasks \ {t} : toClear'[v] = toClear[v]
    BY <2>1, <2>3, Types
  <2>6. item' \in [Tasks -> Items] /\ item'[u] = i /\ \A v \in Tasks \ {u} : item'[v] = item[v]
    BY <1>3, <2>2, <2>4, Types
  <2>7. QED
    BY <1>1, <1>2, <1>3, <1>4, <1>5, <2>2, <2>3, <2>4, <2>5, <2>6
<1>6. CASE ~Met(bits, item[u].bits, item[u].all)
  <2>1. UNCHANGED <<toClear, item, waiting, blocked, core>>
    BY <1>6 DEF Walk
  <2>2. QED
    BY <1>1, <1>2, <1>3, <1>4, <1>6, <2>1, Types
<1>7. QED
  BY <1>5, <1>6

(* A task that looks whether it has to wait finds that it has not, or may  *)
(* not, or goes on the list.                                               *)
LEMMA DecideMoves ==
    ASSUME EventInv, SingleCore, NEW t \in Tasks, Meet(t) \/ Test(t)
    PROVE  /\ pc[t] \in {"meet", "test"} /\ t \notin ToSet(waiting)
           /\ \A u \in Tasks : pc[u] \in Suspended => u = t
           /\ pc' = [pc EXCEPT ![t] = "resume"]
           /\ call[t].op = (IF pc[t] = "meet" THEN "sync" ELSE "wait")
           /\ UNCHANGED <<deleted, holder, core, next, toClear, original>>
           /\ \/ /\ call' = [call EXCEPT ![t] = [call[t] EXCEPT !.ticks = "zero"]]
                 /\ bits' \subseteq bits
                 /\ pc[t] = "meet" => /\ bits' = bits \ call[t].want
                                      /\ call[t].want \subseteq original[t] \cup call[t].mark
                 /\ UNCHANGED <<item, waiting, blocked>>
              \/ call[t].ticks = "zero" /\ UNCHANGED <<bits, call, item, waiting, blocked>>
              \/ /\ call[t].ticks # "zero" /\ UNCHANGED <<bits, call>>
                 /\ waiting' \in Seq(Tasks) /\ Injective(waiting')
                 /\ ToSet(waiting') = ToSet(waiting) \cup {t} /\ blocked' = ToSet(waiting')
                 /\ item' = [item EXCEPT ![t] = [bits |-> call[t].want,
                                                clear |-> call[t].op = "sync" \/ call[t].clear,
                                                all |-> call[t].op = "sync" \/ call[t].all,
                                                told |-> FALSE]]
                 /\ ~Met(bits, call[t].want, call[t].op = "sync" \/ call[t].all)
<1> DEFINE k == call[t]
<1>1. CASE Meet(t)
  <2>1. /\ pc[t] = "meet" /\ t \notin ToSet(waiting) /\ k.op = "sync"
        /\ \A u \in Tasks : pc[u] \in Suspended => u = t
        /\ bits \subseteq original[t] \cup k.mark
    BY <1>1, Alone DEF Meet, EventInv, Placed, Changing
  <2>2. pc' = [pc EXCEPT ![t] = "resume"] /\ UNCHANGED <<deleted, holder, next, toClear, original>>
    BY <1>1 DEF Meet, Goto
  <2>3. CASE k.want \subseteq original[t] \cup k.mark
    <3>1. /\ call' = [call EXCEPT ![t] = [call[t] EXCEPT !.ticks = "zero"]]
          /\ bits' = bits \ k.want
          /\ UNCHANGED <<item, waiting, blocked, core>>
      BY <1>1, <2>3, Calls DEF Meet, Answered
    <3>2. QED
      BY <2>1, <2>2, <2>3, <3>1
  <2>4. CASE ~(k.want \subseteq original[t] \cup k.mark) /\ k.ticks = "zero"
    <3>1. UNCHANGED <<bits, call, item, waiting, blocked, core>>
      BY <1>1, <2>4 DEF Meet
    <3>2. QED
      BY <2>1, <2>2, <2>4, <3>1
  <2>5. CASE ~(k.want \subseteq original[t] \cup k.mark) /\ k.ticks # "zero"
    <3>1. /\ UNCHANGED <<bits, call, core>>
          /\ waiting' = Append(waiting, t) /\ blocked' = blocked \cup {t}
          /\ item' = [item EXCEPT ![t] = [bits |-> k.want, clear |-> TRUE, all |-> TRUE, told |-> FALSE]]
      BY <1>1, <2>5 DEF Meet, Place
    <3>2. ~Met(bits, k.want, TRUE)
      BY <2>1, <2>5 DEF Met
    <3>3. /\ waiting' \in Seq(Tasks) /\ Injective(waiting')
          /\ ToSet(waiting') = ToSet(waiting) \cup {t} /\ blocked' = ToSet(waiting')
      BY <2>1, <3>1, PlaceMoves
    <3>4. (k.op = "sync" \/ k.clear) = TRUE /\ (k.op = "sync" \/ k.all) = TRUE
      BY <2>1
    <3>5. QED
      BY <2>1, <2>2, <2>5, <3>1, <3>2, <3>3, <3>4
  <2>6. QED
    BY <2>3, <2>4, <2>5
<1>2. CASE Test(t)
  <2>1. /\ pc[t] = "test" /\ t \notin ToSet(waiting) /\ k.op = "wait"
        /\ \A u \in Tasks : pc[u] \in Suspended => u = t
    BY <1>2, Alone DEF Test, EventInv, Placed
  <2>2. pc' = [pc EXCEPT ![t] = "resume"] /\ UNCHANGED <<deleted, holder, next, toClear, original>>
    BY <1>2 DEF Test, Goto
  <2>3. CASE Met(bits, k.want, k.all)
    <3>1. /\ call' = [call EXCEPT ![t] = [call[t] EXCEPT !.ticks = "zero"]]
          /\ bits' \subseteq bits
          /\ UNCHANGED <<item, waiting, blocked, core>>
      BY <1>2, <2>3, Calls DEF Test, Answered
    <3>2. QED
      BY <2>1, <2>2, <3>1
  <2>4. CASE ~Met(bits, k.want, k.all) /\ k.ticks = "zero"
    <3>1. UNCHANGED <<bits, call, item, waiting, blocked, core>>
      BY <1>2, <2>4 DEF Test
    <3>2. QED
      BY <2>1, <2>2, <2>4, <3>1
  <2>5. CASE ~Met(bits, k.want, k.all) /\ k.ticks # "zero"
    <3>1. /\ UNCHANGED <<bits, call, core>>
          /\ waiting' = Append(waiting, t) /\ blocked' = blocked \cup {t}
          /\ item' = [item EXCEPT ![t] =
                [bits |-> k.want, clear |-> k.clear, all |-> k.all, told |-> FALSE]]
      BY <1>2, <2>5 DEF Test, Place
    <3>2. (k.op = "sync" \/ k.clear) = k.clear /\ (k.op = "sync" \/ k.all) = k.all
      BY <2>1, Calls
    <3>3. /\ waiting' \in Seq(Tasks) /\ Injective(waiting')
          /\ ToSet(waiting') = ToSet(waiting) \cup {t} /\ blocked' = ToSet(waiting')
      BY <2>1, <3>1, PlaceMoves
    <3>4. QED
      BY <2>1, <2>2, <2>5, <3>1, <3>2, <3>3
  <2>6. QED
    BY <2>3, <2>4, <2>5
<1>3. QED
  BY <1>1, <1>2

(* The deletion wakes those that wait, one by one, until nobody does.      *)
LEMMA DeleteMoves ==
    ASSUME EventInv, SingleCore, NEW t \in Tasks, Delete(t)
    PROVE  /\ pc[t] = "delete" /\ call[t].op = "delete" /\ t \notin ToSet(waiting)
           /\ \A u \in Tasks : pc[u] \in Suspended => u = t
           /\ UNCHANGED <<bits, holder, core, call, next, toClear, original>>
           /\ \/ /\ waiting = <<>> /\ deleted' = TRUE /\ pc' = [pc EXCEPT ![t] = "resume"]
                 /\ UNCHANGED <<item, waiting, blocked>>
              \/ \E u \in ToSet(waiting) :
                   /\ u \in Tasks /\ UNCHANGED <<deleted, pc>>
                   /\ waiting' \in Seq(Tasks) /\ Injective(waiting')
                   /\ ToSet(waiting') = ToSet(waiting) \ {u} /\ blocked' = ToSet(waiting')
                   /\ item' = [item EXCEPT ![u] = [item[u] EXCEPT !.bits = {}, !.told = TRUE]]
<1>1. /\ pc[t] = "delete" /\ call[t].op = "delete" /\ t \notin ToSet(waiting)
      /\ \A u \in Tasks : pc[u] \in Suspended => u = t
      /\ UNCHANGED <<bits, holder, call, next, toClear, original>>
  BY Alone DEF Delete, EventInv, Placed
<1>2. CASE waiting = <<>>
  BY <1>1, <1>2 DEF Delete, Goto
<1>3. CASE waiting # <<>>
  <2>1. waiting \in Seq(Tasks) /\ Injective(waiting)
    BY DEF EventInv, TypeOK, Excluding
  <2>2. Head(waiting) \in ToSet(waiting)
    BY <1>3, <2>1, HeadFirst
  <2>3. Wake(core[t], Head(waiting), {}) /\ UNCHANGED <<deleted, pc>>
    BY <1>3 DEF Delete
  <2>4. PICK u \in ToSet(waiting) : Wake(core[t], u, {})
    BY <2>2, <2>3
  <2>5. {} \in SUBSET Bits
    OBVIOUS
  <2>6. /\ u \in Tasks /\ core' = core
        /\ waiting' \in Seq(Tasks) /\ Injective(waiting')
        /\ ToSet(waiting') = ToSet(waiting) \ {u} /\ blocked' = ToSet(waiting')
        /\ item' = [item EXCEPT ![u] = [item[u] EXCEPT !.bits = {}, !.told = TRUE]]
    BY <2>4, <2>5, WakeMoves
  <2>7. QED
    BY <1>1, <2>3, <2>6
<1>4. QED
  BY <1>2, <1>3

-----------------------------------------------------------------------------
(* Every step keeps the types,                                             *)
LEMMA TypeStep == EventInv /\ SingleCore /\ [Next]_vars => TypeOK'
<1> SUFFICES ASSUME EventInv /\ SingleCore, [Next]_vars PROVE TypeOK'
  OBVIOUS
<1> USE EventGroupAssumption DEF group, sched, frame, Goto
<1>1. ASSUME NEW t \in Tasks, Begin(t) PROVE TypeOK'
  BY <1>1 DEF Begin, EventInv, TypeOK, Labels, Return, At
<1>2. ASSUME NEW t \in Tasks, ClearBits(t) PROVE TypeOK'
  <2>1. Return(t) /\ UNCHANGED <<waiting, item, deleted, sched>> /\ bits' \subseteq bits
    BY <1>2 DEF ClearBits
  <2>2. QED
    BY <2>1, Returns DEF EventInv, TypeOK
<1>3. ASSUME NEW t \in Tasks, Suspend(t) PROVE TypeOK'
  <2>1. pc' \in [Tasks -> Labels]
    <3>1. call[t].op \in {"set", "sync", "wait", "delete"}
      BY <1>3, Calls DEF Suspend, At, EventInv, Placed, Ops
    <3>2. QED
      BY <1>3, <3>1, Calls DEF Suspend, Labels
  <2>2. /\ holder' = [holder EXCEPT ![core[t]] = t] /\ original' = [original EXCEPT ![t] = bits]
        /\ UNCHANGED <<group, blocked, core, call, next, toClear>>
    BY <1>3 DEF Suspend
  <2>3. holder' \in [Cores -> Tasks \cup {NoTask}] /\ original' \in [Tasks -> SUBSET Bits]
    BY <2>2, Types, Calls
  <2>4. QED
    BY <2>1, <2>2, <2>3 DEF EventInv, TypeOK
<1>4. ASSUME NEW t \in Tasks, SetBits(t) PROVE TypeOK'
  <2>1. HeadOf(waiting) \in Tasks \cup {NoTask}
    BY HeadFirst DEF EventInv, TypeOK, Excluding
  <2>2. call[t].mark \in SUBSET Bits
    BY Calls
  <2>3. QED
    BY <1>4, <2>1, <2>2 DEF SetBits, EventInv, TypeOK, Labels
<1>5. ASSUME NEW t \in Tasks, Walk(t) PROVE TypeOK'
  <2>1. /\ UNCHANGED <<bits, deleted, holder, pc, call, original, core>>
        /\ next' \in [Tasks -> Tasks \cup {NoTask}] /\ toClear' \in [Tasks -> SUBSET Bits]
        /\ waiting' \in Seq(Tasks) /\ blocked' = ToSet(waiting') /\ item' \in [Tasks -> Items]
    BY <1>5, WalkMoves
  <2>2. QED
    BY <2>1 DEF EventInv, TypeOK, Items
<1>6. ASSUME NEW t \in Tasks, ClearMatched(t) PROVE TypeOK'
  BY <1>6 DEF ClearMatched, EventInv, TypeOK, Labels, Return, At
<1>7. ASSUME NEW t \in Tasks, Reread(t) PROVE TypeOK'
  <2>1. Return(t) /\ UNCHANGED <<waiting, item, deleted, sched>> /\ bits' \subseteq bits
    BY <1>7 DEF Reread
  <2>2. QED
    BY <2>1, Returns DEF EventInv, TypeOK
<1>8. ASSUME NEW t \in Tasks, Meet(t) PROVE TypeOK'
  <2>1. /\ pc' = [pc EXCEPT ![t] = "resume"]
        /\ UNCHANGED <<deleted, holder, core, next, toClear, original>>
        /\ bits' \subseteq bits
        /\ call' \in [Tasks -> Call]
        /\ \/ UNCHANGED <<item, waiting, blocked>>
           \/ /\ waiting' \in Seq(Tasks) /\ blocked' = ToSet(waiting')
              /\ item' = [item EXCEPT ![t] = [bits |-> call[t].want,
                                             clear |-> call[t].op = "sync" \/ call[t].clear,
                                             all |-> call[t].op = "sync" \/ call[t].all,
                                             told |-> FALSE]]
    BY <1>8, DecideMoves, Calls
  <2>2. item' \in [Tasks -> Items]
    <3>1. [bits |-> call[t].want, clear |-> call[t].op = "sync" \/ call[t].clear,
           all |-> call[t].op = "sync" \/ call[t].all, told |-> FALSE] \in Items
      BY Calls DEF Items
    <3>2. QED
      BY <2>1, <3>1, Types
  <2>3. pc' \in [Tasks -> Labels]
    BY <2>1, Calls DEF Labels
  <2>4. QED
    BY <2>1, <2>2, <2>3 DEF EventInv, TypeOK, Items
<1>9. ASSUME NEW t \in Tasks, Test(t) PROVE TypeOK'
  <2>1. /\ pc' = [pc EXCEPT ![t] = "resume"]
        /\ UNCHANGED <<deleted, holder, core, next, toClear, original>>
        /\ bits' \subseteq bits
        /\ call' \in [Tasks -> Call]
        /\ \/ UNCHANGED <<item, waiting, blocked>>
           \/ /\ waiting' \in Seq(Tasks) /\ blocked' = ToSet(waiting')
              /\ item' = [item EXCEPT ![t] = [bits |-> call[t].want,
                                             clear |-> call[t].op = "sync" \/ call[t].clear,
                                             all |-> call[t].op = "sync" \/ call[t].all,
                                             told |-> FALSE]]
    BY <1>9, DecideMoves, Calls
  <2>2. item' \in [Tasks -> Items]
    <3>1. [bits |-> call[t].want, clear |-> call[t].op = "sync" \/ call[t].clear,
           all |-> call[t].op = "sync" \/ call[t].all, told |-> FALSE] \in Items
      BY Calls DEF Items
    <3>2. QED
      BY <2>1, <3>1, Types
  <2>3. pc' \in [Tasks -> Labels]
    BY <2>1, Calls DEF Labels
  <2>4. QED
    BY <2>1, <2>2, <2>3 DEF EventInv, TypeOK, Items
<1>10. ASSUME NEW t \in Tasks, Resume(t) PROVE TypeOK'
  <2>1. /\ pc' \in [Tasks -> Labels] /\ call' \in [Tasks -> Call]
        /\ original' \in [Tasks -> SUBSET Bits] /\ UNCHANGED <<next, toClear>>
    <3>1. CASE Return(t)
      BY <3>1, Returns
    <3>2. CASE UNCHANGED <<call, next, toClear, original>>
      BY <1>10, <3>2, Calls DEF Resume, Labels, Return
    <3>3. QED
      BY <1>10, <3>1, <3>2 DEF Resume
  <2>2. holder' = [holder EXCEPT ![core[t]] = NoTask] /\ UNCHANGED <<group, blocked, core>>
    BY <1>10 DEF Resume
  <2>3. QED
    BY <2>1, <2>2 DEF EventInv, TypeOK
<1>11. ASSUME NEW t \in Tasks, Woken(t) PROVE TypeOK'
  <2>1. /\ pc' \in [Tasks -> Labels] /\ call' \in [Tasks -> Call]
        /\ original' \in [Tasks -> SUBSET Bits] /\ UNCHANGED <<next, toClear>>
    <3>1. CASE Return(t)
      BY <3>1, Returns
    <3>2. CASE UNCHANGED <<call, next, toClear, original>>
      BY <1>11, <3>2, Calls DEF Woken, Labels, Return
    <3>3. QED
      BY <1>11, <3>1, <3>2 DEF Woken
  <2>2. item' = [item EXCEPT ![t] = Blank] /\ UNCHANGED <<bits, waiting, deleted, sched>>
    BY <1>11 DEF Woken
  <2>3. Blank \in Items
    BY Types
  <2>4. QED
    BY <2>1, <2>2, <2>3 DEF EventInv, TypeOK, Items
<1>12. ASSUME NEW t \in Tasks, Late(t) PROVE TypeOK'
  <2>1. Return(t) /\ UNCHANGED <<waiting, item, deleted, sched>> /\ bits' \subseteq bits
    BY <1>12 DEF Late
  <2>2. QED
    BY <2>1, Returns DEF EventInv, TypeOK
<1>13. ASSUME NEW t \in Tasks, Delete(t) PROVE TypeOK'
  <2>1. /\ UNCHANGED <<bits, holder, core, call, next, toClear, original>>
        /\ deleted' \in BOOLEAN /\ pc' \in [Tasks -> Labels]
        /\ waiting' \in Seq(Tasks) /\ blocked' = ToSet(waiting')
        /\ item' \in [Tasks -> Items]
    <3>1. CASE pc' = [pc EXCEPT ![t] = "resume"] /\ deleted' = TRUE /\ UNCHANGED <<item, waiting, blocked>>
      BY <1>13, <3>1, Types, Calls, DeleteMoves DEF Labels
    <3>2. ASSUME NEW u \in Tasks, UNCHANGED <<deleted, pc>>,
                 waiting' \in Seq(Tasks), blocked' = ToSet(waiting'),
                 item' = [item EXCEPT ![u] = [item[u] EXCEPT !.bits = {}, !.told = TRUE]]
          PROVE  /\ deleted' \in BOOLEAN /\ pc' \in [Tasks -> Labels]
                 /\ waiting' \in Seq(Tasks) /\ blocked' = ToSet(waiting')
                 /\ item' \in [Tasks -> Items]
      BY <3>2, Types, Calls
    <3>3. QED
      BY <1>13, <3>1, <3>2, DeleteMoves
  <2>2. QED
    BY <2>1 DEF EventInv, TypeOK, Items
<1>14. ASSUME NEW t \in Tasks, Expire(t) PROVE TypeOK'
  BY <1>14, ExpireMoves DEF EventInv, TypeOK, Expire
<1>15. CASE Create
  <2>1. \A u \in Tasks : pc[u] = "idle" /\ pc[u] \notin {"resume", "woken"}
    BY <1>15 DEF Create
  <2>2. ToSet(waiting) = {}
    BY <2>1, Types
  <2>3. waiting' = <<>> /\ ToSet(<<>>) = {}
    BY <1>15 DEF Create, ToSet
  <2>4. UNCHANGED <<item, sched, frame>> /\ deleted' = FALSE /\ bits' = {}
    BY <1>15 DEF Create
  <2>5. blocked = {}
    BY <2>2, Types
  <2>6. waiting' \in Seq(Tasks) /\ ToSet(waiting') = blocked'
    BY <2>3, <2>4, <2>5
  <2>7. QED
    BY <2>4, <2>6, {} \in SUBSET Bits DEF EventInv, TypeOK
<1>16. CASE UNCHANGED vars
  BY <1>16 DEF vars, EventInv, TypeOK, Labels, Return, At
<1>17. QED
  BY <1>1, <1>2, <1>3, <1>4, <1>5, <1>6, <1>7, <1>8, <1>9, <1>10, <1>11,
    <1>12, <1>13, <1>14, <1>15, <1>16
    DEF Next, Step

(* suspends the scheduler for one task at a time,                          *)
LEMMA ExclStep == EventInv /\ SingleCore /\ [Next]_vars => Excluding'
<1> SUFFICES ASSUME EventInv /\ SingleCore, [Next]_vars PROVE Excluding'
  OBVIOUS
<1> USE EventGroupAssumption DEF group, sched, frame, Goto
<1>1. ASSUME NEW t \in Tasks, Begin(t) PROVE Excluding'
  BY <1>1 DEF Begin, EventInv, Excluding, TypeOK, Suspended, SingleCore,
    Return, At
<1>2. ASSUME NEW t \in Tasks, ClearBits(t) PROVE Excluding'
  BY <1>2 DEF ClearBits, EventInv, Excluding, TypeOK, Suspended, SingleCore,
    Return, At
<1>3. ASSUME NEW t \in Tasks, Suspend(t) PROVE Excluding'
  <2>1. pc[t] = "suspend" /\ holder[core[t]] \in {t, NoTask} /\ holder' = [holder EXCEPT ![core[t]] = t]
    BY <1>3 DEF Suspend, At
  <2>2. pc' = [pc EXCEPT ![t] = IF call[t].op \in {"set", "sync"} THEN "set"
                               ELSE IF call[t].op = "wait" THEN "test" ELSE "delete"]
    BY <1>3, <2>1, Calls DEF Suspend, EventInv, Placed, Ops
  <2>3. UNCHANGED <<waiting, core>>
    BY <1>3 DEF Suspend
  <2>4. \A u \in Tasks : core[u] = core[t] /\ core[u] \in Cores
    BY DEF SingleCore, EventInv, TypeOK
  <2>5. \A u \in Tasks \ {t} : pc[u] \notin Suspended
    BY <2>1, <2>4, EventGroupAssumption DEF EventInv, Excluding, Suspended
  <2>6. pc'[t] \in Suspended /\ \A u \in Tasks \ {t} : pc'[u] = pc[u]
    BY <2>2, Calls DEF Suspended
  <2>7. holder'[core[t]] = t
    BY <2>1, <2>4 DEF EventInv, TypeOK
  <2>8. QED
    BY <2>3, <2>4, <2>5, <2>6, <2>7 DEF EventInv, Excluding
<1>4. ASSUME NEW t \in Tasks, SetBits(t) PROVE Excluding'
  BY <1>4 DEF SetBits, EventInv, Excluding, TypeOK, Suspended, SingleCore,
    Return, At
<1>5. ASSUME NEW t \in Tasks, Walk(t) PROVE Excluding'
  <2>1. UNCHANGED <<holder, pc, core>> /\ (UNCHANGED waiting \/ Injective(waiting'))
    BY <1>5, WalkMoves
  <2>2. QED
    BY <2>1 DEF EventInv, Excluding
<1>6. ASSUME NEW t \in Tasks, ClearMatched(t) PROVE Excluding'
  BY <1>6 DEF ClearMatched, EventInv, Excluding, TypeOK, Suspended,
    SingleCore, Return, At
<1>7. ASSUME NEW t \in Tasks, Reread(t) PROVE Excluding'
  BY <1>7 DEF Reread, EventInv, Excluding, TypeOK, Suspended, SingleCore,
    Return, At
<1>8. ASSUME NEW t \in Tasks, Meet(t) PROVE Excluding'
  <2>1. /\ pc[t] \in {"meet", "test"} /\ pc' = [pc EXCEPT ![t] = "resume"]
        /\ UNCHANGED <<holder, core>> /\ (UNCHANGED waiting \/ Injective(waiting'))
    BY <1>8, DecideMoves
  <2>2. QED
    BY <2>1, Calls DEF EventInv, Excluding, Suspended
<1>9. ASSUME NEW t \in Tasks, Test(t) PROVE Excluding'
  <2>1. /\ pc[t] \in {"meet", "test"} /\ pc' = [pc EXCEPT ![t] = "resume"]
        /\ UNCHANGED <<holder, core>> /\ (UNCHANGED waiting \/ Injective(waiting'))
    BY <1>9, DecideMoves
  <2>2. QED
    BY <2>1, Calls DEF EventInv, Excluding, Suspended
<1>10. ASSUME NEW t \in Tasks, Resume(t) PROVE Excluding'
  BY <1>10 DEF Resume, EventInv, Excluding, TypeOK, Suspended, SingleCore,
    Return, At
<1>11. ASSUME NEW t \in Tasks, Woken(t) PROVE Excluding'
  BY <1>11 DEF Woken, EventInv, Excluding, TypeOK, Suspended, SingleCore,
    Return, At
<1>12. ASSUME NEW t \in Tasks, Late(t) PROVE Excluding'
  BY <1>12 DEF Late, EventInv, Excluding, TypeOK, Suspended, SingleCore,
    Return, At
<1>13. ASSUME NEW t \in Tasks, Delete(t) PROVE Excluding'
  <2>1. /\ pc[t] = "delete" /\ (pc' = pc \/ pc' = [pc EXCEPT ![t] = "resume"])
        /\ UNCHANGED <<holder, core>> /\ (UNCHANGED waiting \/ Injective(waiting'))
    BY <1>13, DeleteMoves
  <2>2. QED
    BY <2>1, Calls DEF EventInv, Excluding, Suspended
<1>14. ASSUME NEW t \in Tasks, Expire(t) PROVE Excluding'
  BY <1>14, ExpireMoves DEF EventInv, Excluding, TypeOK, Suspended, Expire
<1>15. CASE Create
  <2>1. waiting' = <<>> /\ UNCHANGED <<pc, core, holder>>
    BY <1>15 DEF Create
  <2>2. QED
    BY <2>1 DEF EventInv, Excluding, Injective
<1>16. CASE UNCHANGED vars
  BY <1>16 DEF vars, EventInv, Excluding, TypeOK, Suspended, SingleCore,
    Return, At
<1>17. QED
  BY <1>1, <1>2, <1>3, <1>4, <1>5, <1>6, <1>7, <1>8, <1>9, <1>10, <1>11,
    <1>12, <1>13, <1>14, <1>15, <1>16
    DEF Next, Step

(* begins none but the calls of the task                                   *)
LEMMA OwnStep == EventInv /\ SingleCore /\ [Next]_vars => (\A u \in Tasks : Own(u))'
<1> SUFFICES ASSUME EventInv /\ SingleCore, [Next]_vars PROVE (\A u \in Tasks : Own(u))'
  OBVIOUS
<1> USE EventGroupAssumption DEF group, sched, frame, Goto
<1>1. ASSUME NEW t \in Tasks, Begin(t) PROVE (\A u \in Tasks : Own(u))'
  BY <1>1 DEF Begin, EventInv, Own, TypeOK, Return, At
<1>2. ASSUME NEW t \in Tasks, ClearBits(t) PROVE (\A u \in Tasks : Own(u))'
  BY <1>2 DEF ClearBits, EventInv, Own, TypeOK, Return, At
<1>3. ASSUME NEW t \in Tasks, Suspend(t) PROVE (\A u \in Tasks : Own(u))'
  BY <1>3 DEF Suspend, EventInv, Own, TypeOK, Return, At
<1>4. ASSUME NEW t \in Tasks, SetBits(t) PROVE (\A u \in Tasks : Own(u))'
  BY <1>4 DEF SetBits, EventInv, Own, TypeOK, Return, At
<1>5. ASSUME NEW t \in Tasks, Walk(t) PROVE (\A u \in Tasks : Own(u))'
  BY <1>5, WalkMoves DEF EventInv, Own
<1>6. ASSUME NEW t \in Tasks, ClearMatched(t) PROVE (\A u \in Tasks : Own(u))'
  BY <1>6 DEF ClearMatched, EventInv, Own, TypeOK, Return, At
<1>7. ASSUME NEW t \in Tasks, Reread(t) PROVE (\A u \in Tasks : Own(u))'
  BY <1>7 DEF Reread, EventInv, Own, TypeOK, Return, At
<1>8. ASSUME NEW t \in Tasks, Meet(t) PROVE (\A u \in Tasks : Own(u))'
  <2>1. /\ pc[t] \in {"meet", "test"} /\ pc' = [pc EXCEPT ![t] = "resume"]
        /\ call' = call \/ call' = [call EXCEPT ![t] = [call[t] EXCEPT !.ticks = "zero"]]
    BY <1>8, DecideMoves
  <2>2. call[t] \in Does[t]
    BY <2>1 DEF EventInv, Own
  <2>3. call'[t] \in {call[t], [call[t] EXCEPT !.ticks = "zero"]} /\ pc'[t] = "resume"
    BY <2>1, Calls
  <2>4. Own(t)'
    BY <2>2, <2>3 DEF Own
  <2>5. \A u \in Tasks \ {t} : pc'[u] = pc[u] /\ call'[u] = call[u]
    BY <2>1, Calls
  <2>6. QED
    BY <2>4, <2>5 DEF EventInv, Own
<1>9. ASSUME NEW t \in Tasks, Test(t) PROVE (\A u \in Tasks : Own(u))'
  <2>1. /\ pc[t] \in {"meet", "test"} /\ pc' = [pc EXCEPT ![t] = "resume"]
        /\ call' = call \/ call' = [call EXCEPT ![t] = [call[t] EXCEPT !.ticks = "zero"]]
    BY <1>9, DecideMoves
  <2>2. call[t] \in Does[t]
    BY <2>1 DEF EventInv, Own
  <2>3. call'[t] \in {call[t], [call[t] EXCEPT !.ticks = "zero"]} /\ pc'[t] = "resume"
    BY <2>1, Calls
  <2>4. Own(t)'
    BY <2>2, <2>3 DEF Own
  <2>5. \A u \in Tasks \ {t} : pc'[u] = pc[u] /\ call'[u] = call[u]
    BY <2>1, Calls
  <2>6. QED
    BY <2>4, <2>5 DEF EventInv, Own
<1>10. ASSUME NEW t \in Tasks, Resume(t) PROVE (\A u \in Tasks : Own(u))'
  <2>1. \A u \in Tasks \ {t} : pc'[u] = pc[u] /\ call'[u] = call[u]
    BY <1>10, Calls DEF Resume, Return
  <2>2. Own(t)'
    <3>1. CASE Return(t)
      BY <3>1, Returns DEF Own
    <3>2. CASE call[t].op = "set" /\ Goto(t, "reread") /\ UNCHANGED call
      BY <1>10, <3>2, Calls DEF Resume, EventInv, Own
    <3>3. CASE call[t].op \in {"wait", "sync"} /\ call[t].ticks # "zero" /\ Goto(t, "woken") /\ UNCHANGED call
      <4>1. pc[t] = "resume" /\ pc'[t] = "woken" /\ call'[t] = call[t]
        BY <1>10, <3>3, Calls DEF Resume
      <4>2. PICK k \in Does[t] : call[t] \in {k, [k EXCEPT !.ticks = "zero"]}
        BY <4>1 DEF EventInv, Own
      <4>3. k \in Call
        OBVIOUS
      <4>4. call[t] = k
        BY <3>3, <4>2, <4>3 DEF Call
      <4>5. QED
        BY <4>1, <4>4 DEF Own
    <3>4. QED
      BY <1>10, <3>1, <3>2, <3>3 DEF Resume
  <2>3. QED
    BY <2>1, <2>2 DEF EventInv, Own
<1>11. ASSUME NEW t \in Tasks, Woken(t) PROVE (\A u \in Tasks : Own(u))'
  BY <1>11 DEF Woken, EventInv, Own, TypeOK, Return, At
<1>12. ASSUME NEW t \in Tasks, Late(t) PROVE (\A u \in Tasks : Own(u))'
  BY <1>12 DEF Late, EventInv, Own, TypeOK, Return, At
<1>13. ASSUME NEW t \in Tasks, Delete(t) PROVE (\A u \in Tasks : Own(u))'
  <2>1. /\ UNCHANGED call /\ pc[t] = "delete" /\ (pc' = pc \/ pc' = [pc EXCEPT ![t] = "resume"])
    BY <1>13, DeleteMoves
  <2>2. QED
    BY <2>1, Calls DEF EventInv, Own
<1>14. ASSUME NEW t \in Tasks, Expire(t) PROVE (\A u \in Tasks : Own(u))'
  BY <1>14, ExpireMoves DEF EventInv, Own, Expire
<1>15. CASE Create
  BY <1>15 DEF Create, EventInv, Own, TypeOK, Return, At
<1>16. CASE UNCHANGED vars
  BY <1>16 DEF vars, EventInv, Own, TypeOK, Return, At
<1>17. QED
  BY <1>1, <1>2, <1>3, <1>4, <1>5, <1>6, <1>7, <1>8, <1>9, <1>10, <1>11,
    <1>12, <1>13, <1>14, <1>15, <1>16
    DEF Next, Step

(* and goes on where the call does.                                        *)
LEMMA PlacedStep == EventInv /\ SingleCore /\ [Next]_vars => (\A u \in Tasks : Placed(u))'
<1> SUFFICES ASSUME EventInv /\ SingleCore, [Next]_vars PROVE (\A u \in Tasks : Placed(u))'
  OBVIOUS
<1> USE EventGroupAssumption DEF group, sched, frame, Goto
<1>1. ASSUME NEW t \in Tasks, Begin(t) PROVE (\A u \in Tasks : Placed(u))'
  BY <1>1 DEF Begin, EventInv, Placed, TypeOK, Return, At
<1>2. ASSUME NEW t \in Tasks, ClearBits(t) PROVE (\A u \in Tasks : Placed(u))'
  BY <1>2 DEF ClearBits, EventInv, Placed, TypeOK, Return, At
<1>3. ASSUME NEW t \in Tasks, Suspend(t) PROVE (\A u \in Tasks : Placed(u))'
  <2>1. pc[t] = "suspend"
    BY <1>3 DEF Suspend, At
  <2>2. pc' = [pc EXCEPT ![t] = IF call[t].op \in {"set", "sync"} THEN "set"
                               ELSE IF call[t].op = "wait" THEN "test" ELSE "delete"]
    BY <1>3, <2>1, Calls DEF Suspend, EventInv, Placed, Ops
  <2>3. UNCHANGED <<call, next, toClear>>
    BY <1>3 DEF Suspend
  <2>4. QED
    BY <2>1, <2>2, <2>3, Calls DEF EventInv, Placed, Ops
<1>4. ASSUME NEW t \in Tasks, SetBits(t) PROVE (\A u \in Tasks : Placed(u))'
  BY <1>4 DEF SetBits, EventInv, Placed, TypeOK, Return, At
<1>5. ASSUME NEW t \in Tasks, Walk(t) PROVE (\A u \in Tasks : Placed(u))'
  <2>1. /\ pc[t] = "walk" /\ UNCHANGED <<pc, call>>
        /\ \A u \in Tasks \ {t} : next'[u] = next[u] /\ toClear'[u] = toClear[u]
    BY <1>5, WalkMoves
  <2>2. QED
    BY <2>1 DEF EventInv, Placed
<1>6. ASSUME NEW t \in Tasks, ClearMatched(t) PROVE (\A u \in Tasks : Placed(u))'
  BY <1>6 DEF ClearMatched, EventInv, Placed, TypeOK, Return, At
<1>7. ASSUME NEW t \in Tasks, Reread(t) PROVE (\A u \in Tasks : Placed(u))'
  BY <1>7 DEF Reread, EventInv, Placed, TypeOK, Return, At
<1>8. ASSUME NEW t \in Tasks, Meet(t) PROVE (\A u \in Tasks : Placed(u))'
  <2>1. /\ pc[t] \in {"meet", "test"} /\ pc' = [pc EXCEPT ![t] = "resume"]
        /\ UNCHANGED <<next, toClear>>
        /\ call' = call \/ call' = [call EXCEPT ![t] = [call[t] EXCEPT !.ticks = "zero"]]
    BY <1>8, DecideMoves
  <2>2. call'[t].op = call[t].op /\ pc'[t] = "resume"
    BY <2>1, Calls DEF Call
  <2>3. \A u \in Tasks \ {t} : pc'[u] = pc[u] /\ call'[u] = call[u]
    BY <2>1, Calls
  <2>4. QED
    BY <2>1, <2>2, <2>3 DEF EventInv, Placed
<1>9. ASSUME NEW t \in Tasks, Test(t) PROVE (\A u \in Tasks : Placed(u))'
  <2>1. /\ pc[t] \in {"meet", "test"} /\ pc' = [pc EXCEPT ![t] = "resume"]
        /\ UNCHANGED <<next, toClear>>
        /\ call' = call \/ call' = [call EXCEPT ![t] = [call[t] EXCEPT !.ticks = "zero"]]
    BY <1>9, DecideMoves
  <2>2. call'[t].op = call[t].op /\ pc'[t] = "resume"
    BY <2>1, Calls DEF Call
  <2>3. \A u \in Tasks \ {t} : pc'[u] = pc[u] /\ call'[u] = call[u]
    BY <2>1, Calls
  <2>4. QED
    BY <2>1, <2>2, <2>3 DEF EventInv, Placed
<1>10. ASSUME NEW t \in Tasks, Resume(t) PROVE (\A u \in Tasks : Placed(u))'
  BY <1>10 DEF Resume, EventInv, Placed, TypeOK, Return, At
<1>11. ASSUME NEW t \in Tasks, Woken(t) PROVE (\A u \in Tasks : Placed(u))'
  BY <1>11 DEF Woken, EventInv, Placed, TypeOK, Return, At
<1>12. ASSUME NEW t \in Tasks, Late(t) PROVE (\A u \in Tasks : Placed(u))'
  BY <1>12 DEF Late, EventInv, Placed, TypeOK, Return, At
<1>13. ASSUME NEW t \in Tasks, Delete(t) PROVE (\A u \in Tasks : Placed(u))'
  BY <1>13 DEF Delete, EventInv, Placed, TypeOK, Return, At
<1>14. ASSUME NEW t \in Tasks, Expire(t) PROVE (\A u \in Tasks : Placed(u))'
  BY <1>14 DEF Expire, EventInv, Placed, TypeOK, Return, At
<1>15. CASE Create
  BY <1>15 DEF Create, EventInv, Placed, TypeOK, Return, At
<1>16. CASE UNCHANGED vars
  BY <1>16 DEF vars, EventInv, Placed, TypeOK, Return, At
<1>17. QED
  BY <1>1, <1>2, <1>3, <1>4, <1>5, <1>6, <1>7, <1>8, <1>9, <1>10, <1>11,
    <1>12, <1>13, <1>14, <1>15, <1>16
    DEF Next, Step

(* Who waits goes on waiting for what its call waits for.                  *)
LEMMA WaitersStep == EventInv /\ SingleCore /\ [Next]_vars => Waiters'
<1> SUFFICES ASSUME EventInv /\ SingleCore, [Next]_vars PROVE Waiters'
  OBVIOUS
<1> USE EventGroupAssumption DEF group, sched, frame, Goto
<1>1. ASSUME NEW t \in Tasks, Begin(t) PROVE Waiters'
  <2>1. t \notin ToSet(waiting) /\ UNCHANGED <<waiting, item>>
        /\ \A u \in Tasks \ {t} : pc'[u] = pc[u] /\ call'[u] = call[u]
    BY <1>1, Alone, Calls DEF Begin
  <2>2. QED
    BY ZenonT(40), <2>1, Types DEF Waiters, Waiter
<1>2. ASSUME NEW t \in Tasks, ClearBits(t) PROVE Waiters'
  <2>1. Return(t) /\ t \notin ToSet(waiting) /\ UNCHANGED <<waiting, item>>
    BY <1>2, Alone DEF ClearBits
  <2>2. \A u \in Tasks \ {t} : pc'[u] = pc[u] /\ call'[u] = call[u]
    BY <2>1, Returns
  <2>3. QED
    BY ZenonT(40), <2>1, <2>2, Types DEF Waiters, Waiter
<1>3. ASSUME NEW t \in Tasks, Suspend(t) PROVE Waiters'
  <2>1. t \notin ToSet(waiting) /\ UNCHANGED <<waiting, item>>
        /\ \A u \in Tasks \ {t} : pc'[u] = pc[u] /\ call'[u] = call[u]
    BY <1>3, Alone, Calls DEF Suspend
  <2>2. QED
    BY ZenonT(40), <2>1, Types DEF Waiters, Waiter
<1>4. ASSUME NEW t \in Tasks, SetBits(t) PROVE Waiters'
  <2>1. t \notin ToSet(waiting) /\ UNCHANGED <<waiting, item>>
        /\ \A u \in Tasks \ {t} : pc'[u] = pc[u] /\ call'[u] = call[u]
    BY <1>4, Alone, Calls DEF SetBits
  <2>2. QED
    BY ZenonT(40), <2>1, Types DEF Waiters, Waiter
<1>5. ASSUME NEW t \in Tasks, Walk(t) PROVE Waiters'
  <2>1. /\ UNCHANGED <<pc, call>> /\ \A u \in ToSet(waiting') : u \in ToSet(waiting) /\ item'[u] = item[u]
    <3>1. PICK v \in ToSet(waiting) :
            /\ UNCHANGED <<pc, call>> /\ \A u \in Tasks \ {v} : item'[u] = item[u]
            /\ UNCHANGED <<item, waiting>> \/ ToSet(waiting') = ToSet(waiting) \ {v}
      BY <1>5, WalkMoves
    <3>2. QED
      BY <3>1, Types
  <2>2. QED
    BY <2>1 DEF EventInv, Waiters, Waiter
<1>6. ASSUME NEW t \in Tasks, ClearMatched(t) PROVE Waiters'
  <2>1. t \notin ToSet(waiting) /\ UNCHANGED <<waiting, item>>
        /\ \A u \in Tasks \ {t} : pc'[u] = pc[u] /\ call'[u] = call[u]
    BY <1>6, Alone, Calls DEF ClearMatched
  <2>2. QED
    BY ZenonT(40), <2>1, Types DEF Waiters, Waiter
<1>7. ASSUME NEW t \in Tasks, Reread(t) PROVE Waiters'
  <2>1. Return(t) /\ t \notin ToSet(waiting) /\ UNCHANGED <<waiting, item>>
    BY <1>7, Alone DEF Reread
  <2>2. \A u \in Tasks \ {t} : pc'[u] = pc[u] /\ call'[u] = call[u]
    BY <2>1, Returns
  <2>3. QED
    BY ZenonT(40), <2>1, <2>2, Types DEF Waiters, Waiter
<1>8. ASSUME NEW t \in Tasks, Meet(t) PROVE Waiters'
  <2>1. /\ t \notin ToSet(waiting) /\ pc' = [pc EXCEPT ![t] = "resume"]
        /\ call[t].op \in {"sync", "wait"}
        /\ \/ UNCHANGED <<item, waiting>> /\ \A u \in Tasks \ {t} : call'[u] = call[u]
           \/ /\ UNCHANGED call /\ call[t].ticks # "zero"
              /\ ToSet(waiting') = ToSet(waiting) \cup {t}
              /\ item' = [item EXCEPT ![t] = [bits |-> call[t].want,
                                             clear |-> call[t].op = "sync" \/ call[t].clear,
                                             all |-> call[t].op = "sync" \/ call[t].all,
                                             told |-> FALSE]]
    BY <1>8, DecideMoves, Calls
  <2>2. \A u \in ToSet(waiting) : u \in Tasks \ {t} /\ pc'[u] = pc[u] /\ Waiter(u)
    BY <2>1, Types, Calls
  <2>3. CASE UNCHANGED <<item, waiting>> /\ \A u \in Tasks \ {t} : call'[u] = call[u]
    BY ZenonT(40), <2>2, <2>3 DEF Waiters, Waiter
  <2>4. CASE /\ UNCHANGED call /\ call[t].ticks # "zero"
             /\ ToSet(waiting') = ToSet(waiting) \cup {t}
             /\ item' = [item EXCEPT ![t] = [bits |-> call[t].want,
                                            clear |-> call[t].op = "sync" \/ call[t].clear,
                                            all |-> call[t].op = "sync" \/ call[t].all,
                                            told |-> FALSE]]
    <3>1. \A u \in ToSet(waiting) : Waiter(u)'
      BY <2>2, <2>4, Types DEF Waiter
    <3>2. pc'[t] = "resume"
      BY <2>1, Calls
    <3>3. Waiter(t)'
      BY <2>1, <2>4, <3>2, Types DEF Waiter
    <3>4. QED
      BY <2>4, <3>1, <3>3 DEF Waiters
  <2>5. QED
    BY <2>1, <2>3, <2>4
<1>9. ASSUME NEW t \in Tasks, Test(t) PROVE Waiters'
  <2>1. /\ t \notin ToSet(waiting) /\ pc' = [pc EXCEPT ![t] = "resume"]
        /\ call[t].op \in {"sync", "wait"}
        /\ \/ UNCHANGED <<item, waiting>> /\ \A u \in Tasks \ {t} : call'[u] = call[u]
           \/ /\ UNCHANGED call /\ call[t].ticks # "zero"
              /\ ToSet(waiting') = ToSet(waiting) \cup {t}
              /\ item' = [item EXCEPT ![t] = [bits |-> call[t].want,
                                             clear |-> call[t].op = "sync" \/ call[t].clear,
                                             all |-> call[t].op = "sync" \/ call[t].all,
                                             told |-> FALSE]]
    BY <1>9, DecideMoves, Calls
  <2>2. \A u \in ToSet(waiting) : u \in Tasks \ {t} /\ pc'[u] = pc[u] /\ Waiter(u)
    BY <2>1, Types, Calls
  <2>3. CASE UNCHANGED <<item, waiting>> /\ \A u \in Tasks \ {t} : call'[u] = call[u]
    BY ZenonT(40), <2>2, <2>3 DEF Waiters, Waiter
  <2>4. CASE /\ UNCHANGED call /\ call[t].ticks # "zero"
             /\ ToSet(waiting') = ToSet(waiting) \cup {t}
             /\ item' = [item EXCEPT ![t] = [bits |-> call[t].want,
                                            clear |-> call[t].op = "sync" \/ call[t].clear,
                                            all |-> call[t].op = "sync" \/ call[t].all,
                                            told |-> FALSE]]
    <3>1. \A u \in ToSet(waiting) : Waiter(u)'
      BY <2>2, <2>4, Types DEF Waiter
    <3>2. pc'[t] = "resume"
      BY <2>1, Calls
    <3>3. Waiter(t)'
      BY <2>1, <2>4, <3>2, Types DEF Waiter
    <3>4. QED
      BY <2>4, <3>1, <3>3 DEF Waiters
  <2>5. QED
    BY <2>1, <2>3, <2>4
<1>10. ASSUME NEW t \in Tasks, Resume(t) PROVE Waiters'
  <2>1. /\ UNCHANGED <<waiting, item>> /\ pc[t] = "resume"
        /\ \A u \in Tasks \ {t} : pc'[u] = pc[u] /\ call'[u] = call[u]
    BY <1>10, Returns, Calls DEF Resume
  <2>2. ASSUME t \in ToSet(waiting) PROVE Waiter(t)'
    <3>1. Waiter(t)
      BY <2>2, Types
    <3>2. call[t].op \in {"wait", "sync"} /\ call[t].ticks # "zero"
      BY <3>1 DEF Waiter
    <3>3. pc'[t] = "woken" /\ UNCHANGED call
      BY <1>10, <3>2, Calls DEF Resume
    <3>4. QED
      BY <2>1, <3>1, <3>3 DEF Waiter
  <2>3. \A u \in ToSet(waiting) \ {t} : Waiter(u)'
    BY ZenonT(40), <2>1, Types DEF Waiter
  <2>4. QED
    BY <2>1, <2>2, <2>3 DEF Waiters
<1>11. ASSUME NEW t \in Tasks, Woken(t) PROVE Waiters'
  <2>1. /\ t \notin ToSet(waiting) /\ UNCHANGED waiting /\ item' = [item EXCEPT ![t] = Blank]
        /\ \A u \in Tasks \ {t} : pc'[u] = pc[u] /\ call'[u] = call[u]
    BY <1>11, Alone, Returns, Calls DEF Woken
  <2>2. \A u \in ToSet(waiting) : u \in Tasks \ {t} /\ item'[u] = item[u]
    BY <2>1, Types
  <2>3. QED
    BY <2>1, <2>2 DEF EventInv, Waiters, Waiter
<1>12. ASSUME NEW t \in Tasks, Late(t) PROVE Waiters'
  <2>1. Return(t) /\ t \notin ToSet(waiting) /\ UNCHANGED <<waiting, item>>
    BY <1>12, Alone DEF Late
  <2>2. \A u \in Tasks \ {t} : pc'[u] = pc[u] /\ call'[u] = call[u]
    BY <2>1, Returns
  <2>3. QED
    BY ZenonT(40), <2>1, <2>2, Types DEF Waiters, Waiter
<1>13. ASSUME NEW t \in Tasks, Delete(t) PROVE Waiters'
  <2>1. /\ UNCHANGED call /\ t \notin ToSet(waiting) /\ (pc' = pc \/ pc' = [pc EXCEPT ![t] = "resume"])
        /\ \A u \in ToSet(waiting') : u \in ToSet(waiting) /\ item'[u] = item[u]
    BY <1>13, DeleteMoves, Types
  <2>2. \A u \in ToSet(waiting') : u \in Tasks \ {t} /\ pc'[u] = pc[u] /\ Waiter(u)
    BY <2>1, Types, Calls
  <2>3. QED
    BY <2>1, <2>2 DEF Waiters, Waiter
<1>14. ASSUME NEW t \in Tasks, Expire(t) PROVE Waiters'
  <2>1. ToSet(waiting') \subseteq ToSet(waiting) /\ UNCHANGED <<item, pc, call>>
    BY <1>14, ExpireMoves DEF Expire
  <2>2. QED
    BY <2>1 DEF EventInv, Waiters, Waiter
<1>15. CASE Create
  <2>1. ToSet(waiting') = {}
    BY <1>15 DEF Create, ToSet
  <2>2. QED
    BY <2>1 DEF Waiters
<1>16. CASE UNCHANGED vars
  BY <1>16 DEF vars, EventInv, Waiters, Waiter, TypeOK, Return, At
<1>17. QED
  BY <1>1, <1>2, <1>3, <1>4, <1>5, <1>6, <1>7, <1>8, <1>9, <1>10, <1>11,
    <1>12, <1>13, <1>14, <1>15, <1>16
    DEF Next, Step

(* The bits are what the call in the middle of a change has made of them.  *)
LEMMA ChangingStep == EventInv /\ SingleCore /\ [Next]_vars => (\A u \in Tasks : Changing(u))'
<1> SUFFICES ASSUME EventInv /\ SingleCore, [Next]_vars PROVE (\A u \in Tasks : Changing(u))'
  OBVIOUS
<1> USE EventGroupAssumption DEF group, sched, frame, Goto
<1>1. ASSUME NEW t \in Tasks, Begin(t) PROVE (\A u \in Tasks : Changing(u))'
  <2>1. pc[t] \notin {"set", "walk", "meet"} /\ pc'[t] \notin {"set", "walk", "meet"}
        /\ (\A u \in Tasks \ {t} : pc[u] \notin {"set", "walk", "meet"} /\ pc'[u] = pc[u])
    BY <1>1, Alone, Returns, Calls DEF Begin, Suspended
  <2>2. QED
    BY <2>1 DEF Changing
<1>2. ASSUME NEW t \in Tasks, ClearBits(t) PROVE (\A u \in Tasks : Changing(u))'
  <2>1. pc[t] \notin {"set", "walk", "meet"} /\ pc'[t] \notin {"set", "walk", "meet"}
        /\ (\A u \in Tasks \ {t} : pc[u] \notin {"set", "walk", "meet"} /\ pc'[u] = pc[u])
    BY <1>2, Alone, Returns, Calls DEF ClearBits, Suspended
  <2>2. QED
    BY <2>1 DEF Changing
<1>3. ASSUME NEW t \in Tasks, Suspend(t) PROVE (\A u \in Tasks : Changing(u))'
  <2>1. \A u \in Tasks \ {t} : pc[u] \notin Suspended /\ pc'[u] = pc[u]
    <3>1. At(t, "suspend")
      BY <1>3 DEF Suspend
    <3>2. \A u \in Tasks : pc[u] \in Suspended => u = t
      BY <3>1, Alone
    <3>3. QED
      BY <1>3, <3>2, Calls DEF Suspend
  <2>2. bits' = bits /\ original'[t] = bits /\ pc'[t] \notin {"walk", "meet"}
    <3>1. call[t].op \in {"set", "sync", "wait", "delete"}
      BY <1>3, Calls DEF Suspend, At, EventInv, Placed, Ops
    <3>2. QED
      BY <1>3, <3>1, Calls DEF Suspend
  <2>3. QED
    BY <2>1, <2>2 DEF Changing, Suspended
<1>4. ASSUME NEW t \in Tasks, SetBits(t) PROVE (\A u \in Tasks : Changing(u))'
  <2>1. /\ pc[t] = "set" /\ \A u \in Tasks \ {t} : pc[u] \notin Suspended /\ pc'[u] = pc[u]
        /\ pc'[t] = "walk" /\ bits' = bits \cup call[t].mark /\ UNCHANGED <<call, original>>
    BY <1>4, Alone, Calls DEF SetBits
  <2>2. QED
    BY <2>1 DEF EventInv, Changing, Suspended
<1>5. ASSUME NEW t \in Tasks, Walk(t) PROVE (\A u \in Tasks : Changing(u))'
  <2>1. UNCHANGED <<bits, pc, call, original>>
    BY <1>5, WalkMoves
  <2>2. QED
    BY <2>1 DEF EventInv, Changing
<1>6. ASSUME NEW t \in Tasks, ClearMatched(t) PROVE (\A u \in Tasks : Changing(u))'
  <2>1. /\ pc[t] = "walk" /\ \A u \in Tasks \ {t} : pc[u] \notin Suspended /\ pc'[u] = pc[u]
        /\ pc'[t] \in {"meet", "resume"} /\ bits' \subseteq bits /\ UNCHANGED <<call, original>>
    BY <1>6, Alone, Calls DEF ClearMatched
  <2>2. bits = original[t] \cup call[t].mark
    BY <2>1 DEF EventInv, Changing
  <2>3. QED
    BY <2>1, <2>2 DEF Changing, Suspended
<1>7. ASSUME NEW t \in Tasks, Reread(t) PROVE (\A u \in Tasks : Changing(u))'
  <2>1. pc[t] \notin {"set", "walk", "meet"} /\ pc'[t] \notin {"set", "walk", "meet"}
        /\ (\A u \in Tasks \ {t} : pc[u] \notin {"set", "walk", "meet"} /\ pc'[u] = pc[u])
    BY <1>7, Alone, Returns, Calls DEF Reread, Suspended
  <2>2. QED
    BY <2>1 DEF Changing
<1>8. ASSUME NEW t \in Tasks, Meet(t) PROVE (\A u \in Tasks : Changing(u))'
  <2>1. /\ pc[t] \in Suspended /\ pc' = [pc EXCEPT ![t] = "resume"]
        /\ \A u \in Tasks : pc[u] \in Suspended => u = t
    BY <1>8, DecideMoves DEF Suspended
  <2>2. QED
    BY <2>1, Calls DEF Changing, Suspended
<1>9. ASSUME NEW t \in Tasks, Test(t) PROVE (\A u \in Tasks : Changing(u))'
  <2>1. /\ pc[t] \in Suspended /\ pc' = [pc EXCEPT ![t] = "resume"]
        /\ \A u \in Tasks : pc[u] \in Suspended => u = t
    BY <1>9, DecideMoves DEF Suspended
  <2>2. QED
    BY <2>1, Calls DEF Changing, Suspended
<1>10. ASSUME NEW t \in Tasks, Resume(t) PROVE (\A u \in Tasks : Changing(u))'
  <2>1. \A u \in Tasks \ {t} : pc[u] \notin Suspended
    BY <1>10, Alone DEF Resume, Suspended
  <2>2. pc'[t] \notin {"set", "walk", "meet"} /\ \A u \in Tasks \ {t} : pc'[u] = pc[u]
    BY <1>10, Returns, Calls DEF Resume
  <2>3. QED
    BY <2>1, <2>2 DEF Changing, Suspended
<1>11. ASSUME NEW t \in Tasks, Woken(t) PROVE (\A u \in Tasks : Changing(u))'
  <2>1. pc[t] \notin {"set", "walk", "meet"} /\ pc'[t] \notin {"set", "walk", "meet"}
        /\ (\A u \in Tasks \ {t} : pc[u] \notin {"set", "walk", "meet"} /\ pc'[u] = pc[u])
    BY <1>11, Alone, Returns, Calls DEF Woken, Suspended
  <2>2. QED
    BY <2>1 DEF Changing
<1>12. ASSUME NEW t \in Tasks, Late(t) PROVE (\A u \in Tasks : Changing(u))'
  <2>1. pc[t] \notin {"set", "walk", "meet"} /\ pc'[t] \notin {"set", "walk", "meet"}
        /\ (\A u \in Tasks \ {t} : pc[u] \notin {"set", "walk", "meet"} /\ pc'[u] = pc[u])
    BY <1>12, Alone, Returns, Calls DEF Late, Suspended
  <2>2. QED
    BY <2>1 DEF Changing
<1>13. ASSUME NEW t \in Tasks, Delete(t) PROVE (\A u \in Tasks : Changing(u))'
  <2>1. /\ pc[t] = "delete" /\ (pc' = pc \/ pc' = [pc EXCEPT ![t] = "resume"])
        /\ \A u \in Tasks : pc[u] \in Suspended => u = t
    BY <1>13, DeleteMoves
  <2>2. QED
    BY <2>1, Calls DEF Changing, Suspended
<1>14. ASSUME NEW t \in Tasks, Expire(t) PROVE (\A u \in Tasks : Changing(u))'
  BY <1>14 DEF Expire, EventInv, Changing
<1>15. CASE Create
  <2>1. \A u \in Tasks : pc[u] = "idle" /\ UNCHANGED pc
    BY <1>15 DEF Create
  <2>2. QED
    BY <2>1 DEF Changing
<1>16. CASE UNCHANGED vars
  BY <1>16 DEF vars, EventInv, Changing, TypeOK, Return, At
<1>17. QED
  BY <1>1, <1>2, <1>3, <1>4, <1>5, <1>6, <1>7, <1>8, <1>9, <1>10, <1>11,
    <1>12, <1>13, <1>14, <1>15, <1>16
    DEF Next, Step

-----------------------------------------------------------------------------
(* Where nobody walks, or the walk is over, nobody is stranded. *)
LEMMA NobodyStranded ==
    ASSUME EventInv, Settled, \A u \in Tasks : pc[u] = "walk" => next[u] = NoTask
    PROVE  \A a \in ToSet(waiting) : ~Stranded(a)
BY Types, EventGroupAssumption DEF Settled

(* It stays so as long as no bit is set and nobody begins to wait. *)
LEMMA StaysSettled ==
    ASSUME EventInv, \A a \in ToSet(waiting) : ~Stranded(a), bits' \subseteq bits,
           \A a \in ToSet(waiting') : a \in ToSet(waiting) /\ item'[a] = item[a]
    PROVE  Settled'
<1>1. ASSUME NEW a \in ToSet(waiting') PROVE ~Stranded(a)'
  <2>1. ~Met(bits, item[a].bits, item[a].all) /\ item'[a] = item[a]
    BY <1>1 DEF Stranded
  <2>2. QED
    BY <2>1 DEF Stranded, Met
<1>2. QED
  BY <1>1 DEF Settled

(* No step leaves one behind whose bits are set.                           *)
LEMMA SettledStep == EventInv /\ SingleCore /\ Cursor /\ Settled /\ [Next]_vars => Settled'
<1> SUFFICES ASSUME EventInv /\ SingleCore /\ Cursor /\ Settled, [Next]_vars PROVE Settled'
  OBVIOUS
<1> USE EventGroupAssumption DEF group, sched, frame, Goto
<1>1. ASSUME NEW t \in Tasks, Begin(t) PROVE Settled'
  <2>1. /\ At(t, "idle") /\ UNCHANGED <<waiting, item, bits>>
    BY <1>1 DEF Begin
  <2>2. \A u \in Tasks : pc[u] # "walk"
    BY <2>1, Alone DEF Suspended
  <2>3. QED
    BY <2>1, <2>2, NobodyStranded, StaysSettled
<1>2. ASSUME NEW t \in Tasks, ClearBits(t) PROVE Settled'
  <2>1. /\ \A u \in Tasks : pc[u] # "walk"
        /\ UNCHANGED <<waiting, item>> /\ bits' \subseteq bits
    BY <1>2, Alone DEF ClearBits, Suspended
  <2>2. QED
    BY <2>1, NobodyStranded, StaysSettled
<1>3. ASSUME NEW t \in Tasks, Suspend(t) PROVE Settled'
  <2>1. /\ \A u \in Tasks : pc[u] # "walk"
        /\ UNCHANGED <<waiting, item>> /\ bits' \subseteq bits
    BY <1>3, Alone DEF Suspend, Suspended
  <2>2. QED
    BY <2>1, NobodyStranded, StaysSettled
<1>4. ASSUME NEW t \in Tasks, SetBits(t) PROVE Settled'
  <2>1. /\ At(t, "set") /\ next' = [next EXCEPT ![t] = HeadOf(waiting)]
        /\ UNCHANGED <<waiting, item>> /\ pc' = [pc EXCEPT ![t] = "walk"]
    BY <1>4 DEF SetBits
  <2>2. next'[t] = HeadOf(waiting) /\ pc'[t] = "walk"
    BY <2>1, Types, Calls
  <2>3. ASSUME NEW a \in ToSet(waiting)
        PROVE  HeadOf(waiting) \in ToSet(waiting) /\ ~Before(waiting, a, HeadOf(waiting))
    <3>1. waiting \in Seq(Tasks) /\ Injective(waiting) /\ a \in Tasks /\ ToSet(waiting) # {}
      BY Types
    <3>2. waiting # <<>>
      BY <3>1, HeadFirst
    <3>3. /\ HeadOf(waiting) = Head(waiting) /\ Head(waiting) \in ToSet(waiting)
          /\ \A b \in Tasks : ~Before(waiting, b, Head(waiting))
      BY <3>1, <3>2, HeadFirst
    <3>4. QED
      BY <3>1, <3>3
  <2>4. QED
    BY <2>1, <2>2, <2>3 DEF Settled
<1>5. ASSUME NEW t \in Tasks, Walk(t) PROVE Settled'
  <2>1. PICK u \in ToSet(waiting) :
          /\ u \in Tasks /\ u = next[t] /\ pc[t] = "walk" /\ \A v \in Tasks : pc[v] \in Suspended => v = t
          /\ next' = [next EXCEPT ![t] = After(u)]
          /\ UNCHANGED <<bits, pc>> /\ \A v \in Tasks \ {u} : item'[v] = item[v]
          /\ \A a, b \in Tasks : Before(waiting', a, b) => Before(waiting, a, b)
          /\ \/ ~Met(bits, item[u].bits, item[u].all) /\ UNCHANGED <<item, waiting>>
             \/ ToSet(waiting') = ToSet(waiting) \ {u}
    BY <1>5, WalkMoves
  <2>2. next'[t] = After(u)
    BY <2>1, Types
  <2>3. ASSUME NEW a \in ToSet(waiting'), Stranded(a)'
        PROVE  After(u) \in ToSet(waiting') /\ ~Before(waiting', a, After(u))
    <3>1. a \in ToSet(waiting) /\ a # u /\ Stranded(a)
      BY <2>1, <2>3, Types DEF Stranded
    <3>2. ~Before(waiting, a, u) /\ a \in Tasks
      BY <2>1, <3>1, Types DEF Settled, Suspended
    <3>3. After(u) # NoTask
      BY <3>1, <3>2, Types, AfterNext
    <3>4. /\ After(u) \in ToSet(waiting) \ {u}
          /\ \A b \in Tasks : Before(waiting, b, After(u)) => b = u \/ Before(waiting, b, u)
      BY <3>3, Types, AfterNext
    <3>5. After(u) \in ToSet(waiting') /\ After(u) \in Tasks
      BY <2>1, <3>4, Types
    <3>6. QED
      BY <2>1, <3>1, <3>2, <3>4, <3>5
  <2>4. QED
    BY <2>1, <2>2, <2>3 DEF Settled
<1>6. ASSUME NEW t \in Tasks, ClearMatched(t) PROVE Settled'
  <2>1. /\ At(t, "walk") /\ next[t] = NoTask /\ UNCHANGED <<waiting, item>> /\ bits' \subseteq bits
    BY <1>6 DEF ClearMatched
  <2>2. \A u \in Tasks : pc[u] = "walk" => next[u] = NoTask
    BY <2>1, Alone DEF Suspended
  <2>3. QED
    BY <2>1, <2>2, NobodyStranded, StaysSettled
<1>7. ASSUME NEW t \in Tasks, Reread(t) PROVE Settled'
  <2>1. /\ \A u \in Tasks : pc[u] # "walk"
        /\ UNCHANGED <<waiting, item>> /\ bits' \subseteq bits
    BY <1>7, Alone DEF Reread, Suspended
  <2>2. QED
    BY <2>1, NobodyStranded, StaysSettled
<1>8. ASSUME NEW t \in Tasks, Meet(t) PROVE Settled'
  <2>1. /\ pc[t] # "walk" /\ pc[t] \in Suspended /\ t \notin ToSet(waiting)
        /\ \A u \in Tasks : pc[u] \in Suspended => u = t
    BY <1>8, DecideMoves DEF Suspended
  <2>2. \A a \in ToSet(waiting) : ~Stranded(a)
    BY <2>1, NobodyStranded DEF Suspended
  <2>3. CASE UNCHANGED <<item, waiting>> /\ bits' \subseteq bits
    BY <2>2, <2>3, StaysSettled
  <2>4. CASE /\ UNCHANGED bits /\ ToSet(waiting') = ToSet(waiting) \cup {t}
             /\ item' = [item EXCEPT ![t] = [bits |-> call[t].want,
                                            clear |-> call[t].op = "sync" \/ call[t].clear,
                                            all |-> call[t].op = "sync" \/ call[t].all,
                                            told |-> FALSE]]
             /\ ~Met(bits, call[t].want, call[t].op = "sync" \/ call[t].all)
    <3>1. \A a \in ToSet(waiting) : ~Stranded(a)'
      BY <2>1, <2>2, <2>4, Types DEF Stranded
    <3>2. item'[t].bits = call[t].want /\ item'[t].all = (call[t].op = "sync" \/ call[t].all)
      BY <2>4, Types
    <3>3. ~Stranded(t)'
      BY <2>4, <3>2 DEF Stranded
    <3>4. QED
      BY <2>4, <3>1, <3>3 DEF Settled
  <2>5. QED
    BY <1>8, <2>3, <2>4, DecideMoves
<1>9. ASSUME NEW t \in Tasks, Test(t) PROVE Settled'
  <2>1. /\ pc[t] # "walk" /\ pc[t] \in Suspended /\ t \notin ToSet(waiting)
        /\ \A u \in Tasks : pc[u] \in Suspended => u = t
    BY <1>9, DecideMoves DEF Suspended
  <2>2. \A a \in ToSet(waiting) : ~Stranded(a)
    BY <2>1, NobodyStranded DEF Suspended
  <2>3. CASE UNCHANGED <<item, waiting>> /\ bits' \subseteq bits
    BY <2>2, <2>3, StaysSettled
  <2>4. CASE /\ UNCHANGED bits /\ ToSet(waiting') = ToSet(waiting) \cup {t}
             /\ item' = [item EXCEPT ![t] = [bits |-> call[t].want,
                                            clear |-> call[t].op = "sync" \/ call[t].clear,
                                            all |-> call[t].op = "sync" \/ call[t].all,
                                            told |-> FALSE]]
             /\ ~Met(bits, call[t].want, call[t].op = "sync" \/ call[t].all)
    <3>1. \A a \in ToSet(waiting) : ~Stranded(a)'
      BY <2>1, <2>2, <2>4, Types DEF Stranded
    <3>2. item'[t].bits = call[t].want /\ item'[t].all = (call[t].op = "sync" \/ call[t].all)
      BY <2>4, Types
    <3>3. ~Stranded(t)'
      BY <2>4, <3>2 DEF Stranded
    <3>4. QED
      BY <2>4, <3>1, <3>3 DEF Settled
  <2>5. QED
    BY <1>9, <2>3, <2>4, DecideMoves
<1>10. ASSUME NEW t \in Tasks, Resume(t) PROVE Settled'
  <2>1. UNCHANGED <<waiting, item, bits>> /\ pc[t] = "resume"
    BY <1>10 DEF Resume
  <2>2. \A u \in Tasks : pc[u] # "walk"
    BY <2>1, Alone DEF Suspended
  <2>3. QED
    BY <2>1, <2>2, NobodyStranded, StaysSettled
<1>11. ASSUME NEW t \in Tasks, Woken(t) PROVE Settled'
  <2>1. At(t, "woken") /\ UNCHANGED <<waiting, bits>> /\ item' = [item EXCEPT ![t] = Blank]
    BY <1>11 DEF Woken
  <2>2. t \notin ToSet(waiting) /\ \A u \in Tasks : pc[u] # "walk"
    BY <2>1, Alone DEF Suspended
  <2>3. \A a \in ToSet(waiting) : item'[a] = item[a]
    BY <2>1, <2>2, Types
  <2>4. QED
    BY <2>1, <2>2, <2>3, NobodyStranded, StaysSettled
<1>12. ASSUME NEW t \in Tasks, Late(t) PROVE Settled'
  <2>1. /\ \A u \in Tasks : pc[u] # "walk"
        /\ UNCHANGED <<waiting, item>> /\ bits' \subseteq bits
    BY <1>12, Alone DEF Late, Suspended
  <2>2. QED
    BY <2>1, NobodyStranded, StaysSettled
<1>13. ASSUME NEW t \in Tasks, Delete(t) PROVE Settled'
  <2>1. /\ pc[t] = "delete" /\ UNCHANGED bits
        /\ \A u \in Tasks : pc[u] \in Suspended => u = t
        /\ \A a \in ToSet(waiting') : a \in ToSet(waiting) /\ item'[a] = item[a]
    BY <1>13, DeleteMoves, Types
  <2>2. QED
    BY <2>1, NobodyStranded, StaysSettled DEF Suspended
<1>14. ASSUME NEW t \in Tasks, Expire(t) PROVE Settled'
  <2>1. /\ UNCHANGED <<bits, item>> /\ ToSet(waiting') = ToSet(waiting) \ {t} /\ holder[core[t]] = NoTask
    BY <1>14, ExpireMoves DEF Expire
  <2>2. \A u \in Tasks : pc[u] # "walk"
    BY <2>1, Alone DEF Suspended
  <2>3. QED
    BY <2>1, <2>2, NobodyStranded, StaysSettled
<1>15. CASE Create
  <2>1. ToSet(waiting') = {}
    BY <1>15 DEF Create, ToSet
  <2>2. QED
    BY <2>1 DEF Settled
<1>16. CASE UNCHANGED vars
  BY <1>16 DEF vars, EventInv, Settled, Stranded, Return, At
<1>17. QED
  BY <1>1, <1>2, <1>3, <1>4, <1>5, <1>6, <1>7, <1>8, <1>9, <1>10, <1>11,
    <1>12, <1>13, <1>14, <1>15, <1>16
    DEF Next, Step

(* The walk never stands on an item that has left the list.                *)
LEMMA CursorStep == EventInv /\ SingleCore /\ Cursor /\ Settled /\ [Next]_vars => Cursor'
<1> SUFFICES ASSUME EventInv /\ SingleCore /\ Cursor /\ Settled, [Next]_vars PROVE Cursor'
  OBVIOUS
<1> USE EventGroupAssumption DEF group, sched, frame, Goto
<1>1. ASSUME NEW t \in Tasks, Begin(t) PROVE Cursor'
  <2>1. UNCHANGED <<next, waiting>>
    BY <1>1 DEF Begin, Return
  <2>2. QED
    BY <2>1 DEF Cursor
<1>2. ASSUME NEW t \in Tasks, ClearBits(t) PROVE Cursor'
  <2>1. UNCHANGED <<next, waiting>>
    BY <1>2 DEF ClearBits, Return
  <2>2. QED
    BY <2>1 DEF Cursor
<1>3. ASSUME NEW t \in Tasks, Suspend(t) PROVE Cursor'
  <2>1. UNCHANGED <<next, waiting>>
    BY <1>3 DEF Suspend, Return
  <2>2. QED
    BY <2>1 DEF Cursor
<1>4. ASSUME NEW t \in Tasks, SetBits(t) PROVE Cursor'
  <2>1. next' = [next EXCEPT ![t] = HeadOf(waiting)] /\ UNCHANGED waiting
    BY <1>4 DEF SetBits
  <2>2. HeadOf(waiting) \in ToSet(waiting) \cup {NoTask}
    BY HeadFirst, Types
  <2>3. QED
    BY <2>1, <2>2, Types DEF Cursor
<1>5. ASSUME NEW t \in Tasks, Walk(t) PROVE Cursor'
  <2>1. PICK u \in ToSet(waiting) :
          /\ pc[t] = "walk" /\ \A v \in Tasks : pc[v] \in Suspended => v = t
          /\ next' = [next EXCEPT ![t] = After(u)]
          /\ UNCHANGED waiting \/ ToSet(waiting') = ToSet(waiting) \ {u}
    BY <1>5, WalkMoves
  <2>2. After(u) \in (ToSet(waiting) \ {u}) \cup {NoTask}
    BY Types, AfterNext
  <2>3. next'[t] \in ToSet(waiting') \cup {NoTask}
    BY <2>1, <2>2, Types
  <2>4. ASSUME NEW v \in Tasks \ {t} PROVE next'[v] = NoTask
    <3>1. next[v] = NoTask
      BY <2>1 DEF EventInv, Placed, Suspended
    <3>2. QED
      BY <2>1, <3>1, Types
  <2>5. QED
    BY <2>3, <2>4 DEF Cursor
<1>6. ASSUME NEW t \in Tasks, ClearMatched(t) PROVE Cursor'
  <2>1. UNCHANGED <<next, waiting>>
    BY <1>6 DEF ClearMatched, Return
  <2>2. QED
    BY <2>1 DEF Cursor
<1>7. ASSUME NEW t \in Tasks, Reread(t) PROVE Cursor'
  <2>1. UNCHANGED <<next, waiting>>
    BY <1>7 DEF Reread, Return
  <2>2. QED
    BY <2>1 DEF Cursor
<1>8. ASSUME NEW t \in Tasks, Meet(t) PROVE Cursor'
  <2>1. UNCHANGED next /\ \A u \in Tasks : pc[u] # "walk"
    BY <1>8, DecideMoves DEF Suspended
  <2>2. QED
    BY <2>1 DEF EventInv, Placed, Cursor
<1>9. ASSUME NEW t \in Tasks, Test(t) PROVE Cursor'
  <2>1. UNCHANGED next /\ \A u \in Tasks : pc[u] # "walk"
    BY <1>9, DecideMoves DEF Suspended
  <2>2. QED
    BY <2>1 DEF EventInv, Placed, Cursor
<1>10. ASSUME NEW t \in Tasks, Resume(t) PROVE Cursor'
  <2>1. UNCHANGED <<next, waiting>>
    BY <1>10 DEF Resume, Return
  <2>2. QED
    BY <2>1 DEF Cursor
<1>11. ASSUME NEW t \in Tasks, Woken(t) PROVE Cursor'
  <2>1. UNCHANGED <<next, waiting>>
    BY <1>11 DEF Woken, Return
  <2>2. QED
    BY <2>1 DEF Cursor
<1>12. ASSUME NEW t \in Tasks, Late(t) PROVE Cursor'
  <2>1. UNCHANGED <<next, waiting>>
    BY <1>12 DEF Late, Return
  <2>2. QED
    BY <2>1 DEF Cursor
<1>13. ASSUME NEW t \in Tasks, Delete(t) PROVE Cursor'
  <2>1. UNCHANGED next /\ \A u \in Tasks : pc[u] # "walk"
    BY <1>13, DeleteMoves DEF Suspended
  <2>2. QED
    BY <2>1 DEF EventInv, Placed, Cursor
<1>14. ASSUME NEW t \in Tasks, Expire(t) PROVE Cursor'
  <2>1. UNCHANGED next /\ \A u \in Tasks : pc[u] # "walk"
    BY <1>14, Alone DEF Expire, Suspended
  <2>2. QED
    BY <2>1 DEF EventInv, Placed, Cursor
<1>15. CASE Create
  <2>1. UNCHANGED next /\ \A u \in Tasks : pc[u] # "walk"
    BY <1>15, Alone DEF Create, Suspended
  <2>2. QED
    BY <2>1 DEF EventInv, Placed, Cursor
<1>16. CASE UNCHANGED vars
  BY <1>16 DEF vars, Cursor
<1>17. QED
  BY <1>1, <1>2, <1>3, <1>4, <1>5, <1>6, <1>7, <1>8, <1>9, <1>10, <1>11,
    <1>12, <1>13, <1>14, <1>15, <1>16
    DEF Next, Step

-----------------------------------------------------------------------------
(* While a task is busy with the group, nobody deletes it. *)
LEMMA KeepsAway ==
    ASSUME EventInv, Deleting, NEW t \in Tasks, pc[t] \notin {"idle", "woken"},
           call[t].op # "delete", call'[t].op # "delete",
           \A u \in Tasks \ {t} : call'[u] = call[u], deleted' = deleted
    PROVE  Deleting'
<1>1. ~LeftAlone(t)
  BY DEF LeftAlone
<1>2. ~deleted /\ \A u \in Tasks : call[u].op # "delete"
  BY <1>1 DEF Deleting
<1>3. QED
  BY <1>2 DEF Deleting

(* A task that is left alone is left alone as long as it has no say. *)
LEMMA StaysAlone ==
    ASSUME NEW u, LeftAlone(u), pc'[u] = pc[u], call'[u] = call[u],
           \/ item'[u] = item[u] /\ (u \in ToSet(waiting) => u \in ToSet(waiting'))
           \/ item'[u].told
    PROVE  LeftAlone(u)'
BY DEF LeftAlone

(* Nobody is inside a group that is being deleted.                         *)
LEMMA DeletingStep == EventInv /\ SingleCore /\ Deleting /\ [Next]_vars => Deleting'
<1> SUFFICES ASSUME EventInv /\ SingleCore /\ Deleting, [Next]_vars PROVE Deleting'
  OBVIOUS
<1> USE EventGroupAssumption DEF group, sched, frame, Goto
<1>1. ASSUME NEW t \in Tasks, Begin(t) PROVE Deleting'
  <2>1. PICK k \in Does[t] :
          /\ At(t, "idle") /\ ~deleted /\ (k.op = "delete" => Quiet(t))
          /\ \A u \in Tasks : call[u].op = "delete" => pc[u] = "idle"
          /\ call' = [call EXCEPT ![t] = k]
          /\ pc' = [pc EXCEPT ![t] = IF k.op = "clear" THEN "clear" ELSE "suspend"]
          /\ UNCHANGED <<waiting, item, deleted>>
    BY <1>1 DEF Begin
  <2>2. \A u \in Tasks : call[u].op # "delete"
    BY <2>1 DEF Deleting
  <2>3. /\ call'[t] = k /\ \A u \in Tasks \ {t} : call'[u] = call[u] /\ pc'[u] = pc[u]
        /\ k.op = "delete" => pc'[t] = "suspend"
    BY <2>1, Calls
  <2>4. ASSUME k.op = "delete", NEW u \in Tasks \ {t} PROVE LeftAlone(u)'
    <3>1. CASE pc[u] = "idle"
      BY <2>3, <3>1 DEF LeftAlone
    <3>2. CASE u \in ToSet(waiting) /\ call[u].ticks = "max"
      <4>1. pc[u] \in {"resume", "woken"} /\ (pc[u] \in Suspended => u = t)
        BY <2>1, <3>2, Types, Alone
      <4>2. pc[u] = "woken"
        BY <4>1 DEF Suspended
      <4>3. QED
        BY <2>1, <2>3, <3>2, <4>2 DEF LeftAlone
    <3>3. QED
      BY <2>1, <2>4, <3>1, <3>2 DEF Quiet
  <2>5. QED
    BY <2>1, <2>2, <2>3, <2>4 DEF Deleting
<1>2. ASSUME NEW t \in Tasks, ClearBits(t) PROVE Deleting'
  <2>1. /\ pc[t] = "clear" /\ call[t].op # "delete" /\ deleted' = deleted
    BY <1>2 DEF ClearBits, EventInv, Placed, At
  <2>2. call'[t].op # "delete" /\ \A u \in Tasks \ {t} : call'[u] = call[u]
    BY <1>2, <2>1, Calls, Returns DEF ClearBits, NoCall
  <2>3. QED
    BY <2>1, <2>2, KeepsAway
<1>3. ASSUME NEW t \in Tasks, Suspend(t) PROVE Deleting'
  <2>1. /\ pc[t] = "suspend" /\ UNCHANGED <<waiting, item, deleted, call>>
        /\ \A u \in Tasks \ {t} : pc'[u] = pc[u]
    BY <1>3, Calls DEF Suspend, At
  <2>2. CASE call[t].op = "delete"
    <3>1. pc'[t] = "delete"
      BY <1>3, <2>2, Calls DEF Suspend
    <3>2. ~deleted /\ \A u \in Tasks \ {t} : LeftAlone(u) /\ LeftAlone(u)'
      BY <2>1, <2>2, StaysAlone DEF Deleting
    <3>3. \A u \in Tasks \ {t} : call[u].op # "delete"
      BY <3>2, EventGroupAssumption DEF Deleting, LeftAlone
    <3>4. QED
      BY <2>1, <2>2, <3>1, <3>2, <3>3 DEF Deleting
  <2>3. CASE call[t].op # "delete"
    BY <2>1, <2>3, KeepsAway
  <2>4. QED
    BY <2>2, <2>3
<1>4. ASSUME NEW t \in Tasks, SetBits(t) PROVE Deleting'
  <2>1. /\ pc[t] = "set" /\ call[t].op # "delete" /\ deleted' = deleted
    BY <1>4 DEF SetBits, EventInv, Placed, At
  <2>2. call'[t].op # "delete" /\ \A u \in Tasks \ {t} : call'[u] = call[u]
    BY <1>4, <2>1, Calls, Returns DEF SetBits, NoCall
  <2>3. QED
    BY <2>1, <2>2, KeepsAway
<1>5. ASSUME NEW t \in Tasks, Walk(t) PROVE Deleting'
  <2>1. pc[t] = "walk" /\ UNCHANGED <<call, deleted>>
    BY <1>5, WalkMoves
  <2>2. call[t].op # "delete"
    BY <2>1 DEF Deleting
  <2>3. QED
    BY <2>1, <2>2, KeepsAway
<1>6. ASSUME NEW t \in Tasks, ClearMatched(t) PROVE Deleting'
  <2>1. /\ pc[t] = "walk" /\ call[t].op # "delete" /\ deleted' = deleted
    BY <1>6 DEF ClearMatched, EventInv, Placed, At
  <2>2. call'[t].op # "delete" /\ \A u \in Tasks \ {t} : call'[u] = call[u]
    BY <1>6, <2>1, Calls, Returns DEF ClearMatched, NoCall
  <2>3. QED
    BY <2>1, <2>2, KeepsAway
<1>7. ASSUME NEW t \in Tasks, Reread(t) PROVE Deleting'
  <2>1. /\ pc[t] = "reread" /\ deleted' = deleted /\ Return(t)
    BY <1>7 DEF Reread, At
  <2>2. call[t].op # "delete"
    BY <2>1 DEF Deleting
  <2>3. call'[t].op # "delete" /\ \A u \in Tasks \ {t} : call'[u] = call[u]
    BY <2>1, Returns DEF NoCall
  <2>4. QED
    BY <2>1, <2>2, <2>3, KeepsAway
<1>8. ASSUME NEW t \in Tasks, Meet(t) PROVE Deleting'
  <2>1. /\ pc[t] \in {"meet", "test"} /\ call[t].op \in {"sync", "wait"} /\ UNCHANGED deleted
        /\ call' = call \/ call' = [call EXCEPT ![t] = [call[t] EXCEPT !.ticks = "zero"]]
    BY <1>8, DecideMoves
  <2>2. call'[t].op = call[t].op /\ \A u \in Tasks \ {t} : call'[u] = call[u]
    BY <2>1, Calls DEF Call
  <2>3. QED
    BY <2>1, <2>2, KeepsAway
<1>9. ASSUME NEW t \in Tasks, Test(t) PROVE Deleting'
  <2>1. /\ pc[t] \in {"meet", "test"} /\ call[t].op \in {"sync", "wait"} /\ UNCHANGED deleted
        /\ call' = call \/ call' = [call EXCEPT ![t] = [call[t] EXCEPT !.ticks = "zero"]]
    BY <1>9, DecideMoves
  <2>2. call'[t].op = call[t].op /\ \A u \in Tasks \ {t} : call'[u] = call[u]
    BY <2>1, Calls DEF Call
  <2>3. QED
    BY <2>1, <2>2, KeepsAway
<1>10. ASSUME NEW t \in Tasks, Resume(t) PROVE Deleting'
  <2>1. /\ pc[t] = "resume" /\ UNCHANGED <<waiting, item, deleted>>
        /\ \A u \in Tasks \ {t} : pc'[u] = pc[u] /\ call'[u] = call[u]
    BY <1>10, Returns, Calls DEF Resume
  <2>2. CASE call[t].op = "delete"
    <3>1. Return(t)
      BY <1>10, <2>2 DEF Resume
    <3>2. pc'[t] = "idle" /\ call'[t] = NoCall
      BY <3>1, Returns
    <3>3. deleted /\ \A u \in Tasks \ {t} : LeftAlone(u) /\ LeftAlone(u)'
      BY <2>1, <2>2, StaysAlone DEF Deleting
    <3>4. \A u \in Tasks : call'[u].op # "delete"
      <4>1. \A u \in Tasks \ {t} : pc[u] \in {"idle", "woken"}
        BY <3>3 DEF LeftAlone
      <4>2. QED
        BY <2>1, <3>2, <4>1 DEF Deleting, NoCall
    <3>5. LeftAlone(t)'
      BY <3>2 DEF LeftAlone
    <3>6. QED
      BY <2>1, <3>3, <3>4, <3>5 DEF Deleting
  <2>3. CASE call[t].op # "delete"
    <3>1. call'[t].op # "delete"
      BY <1>10, <2>3, Returns DEF Resume, NoCall
    <3>2. QED
      BY <2>1, <2>3, <3>1, KeepsAway
  <2>4. QED
    BY <2>2, <2>3
<1>11. ASSUME NEW t \in Tasks, Woken(t) PROVE Deleting'
  <2>1. /\ At(t, "woken") /\ UNCHANGED <<waiting, deleted>> /\ item' = [item EXCEPT ![t] = Blank]
        /\ \A u \in Tasks \ {t} : pc'[u] = pc[u] /\ call'[u] = call[u]
    BY <1>11, Returns, Calls DEF Woken
  <2>2. \A u \in Tasks \ {t} : item'[u] = item[u]
    BY <2>1, Types
  <2>3. pc[t] = "woken" /\ t \notin ToSet(waiting) /\ call[t].op # "delete"
    BY <2>1, Alone DEF Deleting
  <2>4. CASE item[t].told
    <3>1. pc'[t] = "idle" /\ call'[t] = NoCall
      BY <1>11, <2>4, Returns DEF Woken
    <3>2. LeftAlone(t)' /\ call'[t].op # "delete"
      BY <3>1 DEF LeftAlone, NoCall
    <3>3. \A u \in Tasks \ {t} : LeftAlone(u) => LeftAlone(u)'
      BY <2>1, <2>2, StaysAlone
    <3>4. QED
      BY <2>1, <3>2, <3>3 DEF Deleting
  <2>5. CASE ~item[t].told
    <3>1. ~LeftAlone(t)
      BY <2>3, <2>5 DEF LeftAlone
    <3>2. ~deleted /\ \A u \in Tasks : call[u].op # "delete"
      BY <2>3, <3>1 DEF Deleting
    <3>3. call'[t].op # "delete"
      BY <1>11, <2>3, <2>5 DEF Woken
    <3>4. QED
      BY <2>1, <3>2, <3>3 DEF Deleting
  <2>6. QED
    BY <2>4, <2>5
<1>12. ASSUME NEW t \in Tasks, Late(t) PROVE Deleting'
  <2>1. /\ pc[t] = "late" /\ call[t].op # "delete" /\ deleted' = deleted
    BY <1>12 DEF Late, EventInv, Placed, At
  <2>2. call'[t].op # "delete" /\ \A u \in Tasks \ {t} : call'[u] = call[u]
    BY <1>12, <2>1, Calls, Returns DEF Late, NoCall
  <2>3. QED
    BY <2>1, <2>2, KeepsAway
<1>13. ASSUME NEW t \in Tasks, Delete(t) PROVE Deleting'
  <2>1. /\ pc[t] = "delete" /\ call[t].op = "delete" /\ UNCHANGED call
        /\ ~deleted /\ \A u \in Tasks \ {t} : LeftAlone(u)
    BY <1>13, DeleteMoves DEF Deleting
  <2>2. \A u \in Tasks \ {t} : call[u].op # "delete"
    <3>1. \A u \in Tasks \ {t} : pc[u] \in {"idle", "woken"}
      BY <2>1 DEF LeftAlone
    <3>2. QED
      BY <3>1 DEF Deleting
  <2>3. CASE waiting = <<>> /\ deleted' = TRUE /\ pc' = [pc EXCEPT ![t] = "resume"] /\ UNCHANGED <<item, waiting>>
    <3>1. pc'[t] = "resume" /\ \A u \in Tasks \ {t} : pc'[u] = pc[u]
      BY <2>3, Calls
    <3>2. \A u \in Tasks \ {t} : LeftAlone(u)'
      BY <2>1, <2>3, <3>1, StaysAlone
    <3>3. QED
      BY <2>1, <2>2, <2>3, <3>1, <3>2 DEF Deleting
  <2>4. ASSUME NEW u \in ToSet(waiting), UNCHANGED <<deleted, pc>>, u \in Tasks,
               ToSet(waiting') = ToSet(waiting) \ {u},
               item' = [item EXCEPT ![u] = [item[u] EXCEPT !.bits = {}, !.told = TRUE]]
        PROVE  Deleting'
    <3>1. item'[u].told
      BY <2>4, Types DEF Items
    <3>2. \A v \in Tasks \ {u} : item'[v] = item[v] /\ (v \in ToSet(waiting) => v \in ToSet(waiting'))
      BY <2>4, Types
    <3>3. \A v \in Tasks \ {t} : LeftAlone(v)'
      BY <2>1, <2>4, <3>1, <3>2, StaysAlone
    <3>4. QED
      BY <2>1, <2>2, <2>4, <3>3 DEF Deleting
  <2>5. QED
    BY <1>13, <2>3, <2>4, DeleteMoves
<1>14. ASSUME NEW t \in Tasks, Expire(t) PROVE Deleting'
  <2>1. /\ UNCHANGED <<item, deleted, pc, call>> /\ ToSet(waiting') = ToSet(waiting) \ {t}
        /\ t \in ToSet(waiting) /\ call[t].ticks = "some"
    BY <1>14, ExpireMoves DEF Expire
  <2>2. Waiter(t) /\ pc[t] \in {"resume", "woken"}
    BY <2>1, Types
  <2>3. ~LeftAlone(t) /\ call[t].op # "delete"
    BY <2>1, <2>2 DEF LeftAlone, Waiter
  <2>4. ~deleted /\ \A u \in Tasks : call[u].op # "delete"
    BY <2>3 DEF Deleting
  <2>5. QED
    BY <2>1, <2>4 DEF Deleting
<1>15. CASE Create
  <2>1. /\ \A u \in Tasks : pc[u] = "idle"
        /\ deleted' = FALSE /\ UNCHANGED <<pc, call>>
    BY <1>15 DEF Create
  <2>2. \A u \in Tasks : call[u].op # "delete"
    BY <2>1 DEF Deleting
  <2>3. QED
    BY <2>1, <2>2 DEF Deleting
<1>16. CASE UNCHANGED vars
  BY <1>16 DEF vars, EventInv, Deleting, LeftAlone
<1>17. QED
  BY <1>1, <1>2, <1>3, <1>4, <1>5, <1>6, <1>7, <1>8, <1>9, <1>10, <1>11,
    <1>12, <1>13, <1>14, <1>15, <1>16
    DEF Next, Step

-----------------------------------------------------------------------------
(* Who sets a bit that tasks meet at waits for it, and as long as it takes. *)
LEMMA MeetingCall ==
    ASSUME EventInv, NEW u \in Tasks, NEW b, MeetingBit(b), Comes(u, b)
    PROVE  /\ b \in call[u].want
           /\ call[u].ticks # "zero" => call[u].ticks = "max"
           /\ call[u] \in Does[u] => call[u].ticks = "max"
           /\ pc[u] # "idle"
<1>1. pc[u] # "idle"
  BY DEF EventInv, Placed, Comes, NoCall
<1>2. Does[u] \subseteq Call
  BY EventGroupAssumption
<1>3. PICK k \in Does[u] : call[u] \in {k, [k EXCEPT !.ticks = "zero"]}
  BY <1>1 DEF EventInv, Own
<1>4. k \in Call
  BY <1>2
<1>5. call[u].op = k.op /\ call[u].mark = k.mark /\ call[u].want = k.want
      /\ (call[u] = k \/ call[u].ticks = "zero")
  BY <1>3, <1>4 DEF Call
<1>6. ASSUME NEW m \in Does[u], m.op = "sync", b \in m.mark
      PROVE  m.ticks = "max" /\ m.mark \subseteq m.want
  BY <1>6 DEF MeetingBit, Meeting
<1>7. k.ticks = "max" /\ k.mark \subseteq k.want
  BY <1>5, <1>6 DEF Comes
<1>8. call[u] \in Does[u] => call[u].ticks = "max"
  BY <1>6 DEF Comes
<1>9. QED
  BY <1>1, <1>5, <1>7, <1>8 DEF Comes

(* Where nobody changes the bits, those that have come wait. *)
LEMMA StaysMet ==
    ASSUME Rendezvous, NEW t \in Tasks, call[t].op # "delete",
           \A u \in Tasks : pc[u] \notin {"set", "walk", "meet"},
           \A u \in Tasks \ {t} : pc'[u] = pc[u] /\ call'[u] = call[u],
           pc'[t] \notin {"set", "walk", "meet"}, t \in ToSet(waiting) => call'[t] = call[t],
           bits' \subseteq bits, waiting' = waiting, deleted' = deleted
    PROVE  Rendezvous'
<1> SUFFICES ASSUME \A u \in Tasks : call'[u].op # "delete", ~deleted'
             PROVE  \A b \in bits' : MeetingBit(b) =>
                      \E u \in Tasks : Comes(u, b)' /\ u \in ToSet(waiting')
  BY DEF Rendezvous, MeetingBit, Meeting
<1>1. \A u \in Tasks : call[u].op # "delete"
  OBVIOUS
<1>2. ASSUME NEW b \in bits', MeetingBit(b)
      PROVE  \E u \in Tasks : Comes(u, b)' /\ u \in ToSet(waiting')
  <2>1. PICK u \in Tasks : Comes(u, b) /\ u \in ToSet(waiting)
    BY <1>1, <1>2 DEF Rendezvous
  <2>2. Comes(u, b)' /\ u \in ToSet(waiting')
    BY <2>1 DEF Comes
  <2>3. QED
    BY <2>2
<1>3. QED
  BY <1>2

(* A bit that tasks meet at is there as long as one of them has come for it. *)
LEMMA RendezvousStep == EventInv /\ SingleCore /\ Deleting /\ Rendezvous /\ [Next]_vars => Rendezvous'
<1> SUFFICES ASSUME EventInv /\ SingleCore /\ Deleting /\ Rendezvous, [Next]_vars PROVE Rendezvous'
  OBVIOUS
<1> USE EventGroupAssumption DEF group, sched, frame, Goto
<1>1. ASSUME NEW t \in Tasks, Begin(t) PROVE Rendezvous'
  <2>1. PICK k \in Does[t] :
          /\ At(t, "idle") /\ call' = [call EXCEPT ![t] = k]
          /\ pc' = [pc EXCEPT ![t] = IF k.op = "clear" THEN "clear" ELSE "suspend"]
          /\ UNCHANGED <<waiting, bits, deleted>>
    BY <1>1 DEF Begin
  <2>2. pc[t] = "idle" /\ t \notin ToSet(waiting) /\ \A u \in Tasks : pc[u] \notin {"set", "walk", "meet"}
    BY <2>1, Alone DEF Suspended
  <2>3. /\ pc'[t] \in {"clear", "suspend"}
        /\ \A u \in Tasks \ {t} : call'[u] = call[u] /\ pc'[u] = pc[u]
    BY <2>1, Calls
  <2>4. call[t].op # "delete"
    BY <2>2 DEF Deleting
  <2>5. QED
    BY <2>1, <2>2, <2>3, <2>4, StaysMet
<1>2. ASSUME NEW t \in Tasks, ClearBits(t) PROVE Rendezvous'
  <2>1. /\ pc[t] = "clear" /\ \A u \in Tasks : pc[u] \notin {"set", "walk", "meet"}
        /\ t \notin ToSet(waiting) /\ bits' \subseteq bits /\ UNCHANGED <<waiting, deleted>> /\ Return(t)
    BY <1>2, Alone DEF ClearBits, Suspended
  <2>2. call[t].op # "delete"
    BY <2>1 DEF Deleting
  <2>3. pc'[t] = "idle" /\ \A u \in Tasks \ {t} : pc'[u] = pc[u] /\ call'[u] = call[u]
    BY <2>1, Returns
  <2>4. QED
    BY <2>1, <2>2, <2>3, StaysMet
<1>3. ASSUME NEW t \in Tasks, Suspend(t) PROVE Rendezvous'
  <2>1. /\ At(t, "suspend") /\ UNCHANGED <<bits, waiting, deleted, call>>
        /\ pc'[t] \in {"set", "test", "delete"} /\ original'[t] = bits
        /\ \A u \in Tasks \ {t} : pc'[u] = pc[u]
    BY <1>3, Calls DEF Suspend, Goto, EventInv, Placed, At, Ops
  <2>2. pc[t] = "suspend" /\ t \notin ToSet(waiting) /\ \A u \in Tasks : pc[u] \notin Suspended
    BY <2>1, Alone DEF Suspended
  <2>3. SUFFICES ASSUME \A u \in Tasks : call[u].op # "delete", ~deleted
                 PROVE  /\ \A b \in bits : MeetingBit(b) =>
                             \E u \in Tasks : Comes(u, b) /\ u \in ToSet(waiting)
                        /\ \A s \in Tasks : pc'[s] \in {"set", "walk", "meet"} =>
                             \A b \in original'[s] : MeetingBit(b) =>
                               \E u \in Tasks \ {s} : Comes(u, b) /\ pc'[u] = "woken"
    BY <2>1 DEF Rendezvous, MeetingBit, Meeting, Comes
  <2>4. ASSUME NEW b \in bits, MeetingBit(b)
        PROVE  \E u \in Tasks : Comes(u, b) /\ u \in ToSet(waiting) /\ u # t /\ pc'[u] = "woken"
    <3>1. PICK u \in Tasks : Comes(u, b) /\ u \in ToSet(waiting)
      BY <2>2, <2>3, <2>4 DEF Rendezvous, Suspended
    <3>2. u # t /\ pc[u] = "woken"
      BY <2>2, <3>1, Types DEF Suspended
    <3>3. QED
      BY <2>1, <3>1, <3>2
  <2>5. ASSUME NEW s \in Tasks, pc'[s] \in {"set", "walk", "meet"} PROVE s = t
    BY <2>1, <2>2, <2>5 DEF Suspended
  <2>6. QED
    BY <2>1, <2>4, <2>5
<1>4. ASSUME NEW t \in Tasks, SetBits(t) PROVE Rendezvous'
  <2>1. /\ pc[t] = "set" /\ t \notin ToSet(waiting) /\ \A u \in Tasks : pc[u] \in Suspended => u = t
        /\ bits' = bits \cup call[t].mark /\ UNCHANGED <<waiting, deleted, call, original, toClear>>
        /\ pc'[t] = "walk" /\ \A u \in Tasks \ {t} : pc'[u] = pc[u]
    BY <1>4, Alone, Calls DEF SetBits, Goto
  <2>2. SUFFICES ASSUME \A u \in Tasks : call[u].op # "delete", ~deleted
                 PROVE  /\ \A b \in bits' : MeetingBit(b) =>
                             \E u \in Tasks : Comes(u, b) /\ (u \in ToSet(waiting) \/ pc'[u] = "walk")
                        /\ \A s \in Tasks : pc'[s] \in {"set", "walk", "meet"} =>
                             \A b \in original[s] : MeetingBit(b) =>
                               \E u \in Tasks \ {s} : Comes(u, b) /\ pc'[u] = "woken"
    BY <2>1 DEF Rendezvous, MeetingBit, Meeting, Comes
  <2>3. ASSUME NEW b \in bits', MeetingBit(b)
        PROVE  \E u \in Tasks : Comes(u, b) /\ (u \in ToSet(waiting) \/ pc'[u] = "walk")
    <3>1. CASE b \in bits
      BY <2>1, <2>2, <2>3, <3>1 DEF Rendezvous, Suspended
    <3>2. CASE b \in call[t].mark
      <4>1. call[t] \in Does[t] /\ call[t].op # "clear"
        BY <2>1 DEF EventInv, Own, Placed
      <4>2. Comes(t, b)
        BY <2>3, <3>2, <4>1 DEF MeetingBit, Meeting, Comes
      <4>3. QED
        BY <2>1, <4>2
    <3>3. QED
      BY <2>1, <2>3, <3>1, <3>2
  <2>4. ASSUME NEW s \in Tasks, pc'[s] \in {"set", "walk", "meet"},
               NEW b \in original[s], MeetingBit(b)
        PROVE  \E u \in Tasks \ {s} : Comes(u, b) /\ pc'[u] = "woken"
    <3>1. s = t
      BY <2>1, <2>4 DEF Suspended
    <3>2. QED
      BY <2>1, <2>2, <2>4, <3>1 DEF Rendezvous
  <2>5. QED
    BY <2>3, <2>4
<1>5. ASSUME NEW t \in Tasks, Walk(t) PROVE Rendezvous'
  <2>1. PICK v \in ToSet(waiting) :
          /\ v \in Tasks /\ v # t /\ pc[t] = "walk" /\ \A u \in Tasks : pc[u] \in Suspended => u = t
          /\ UNCHANGED <<bits, deleted, pc, call, original>> /\ toClear[t] \subseteq toClear'[t]
          /\ \/ UNCHANGED waiting
             \/ /\ ToSet(waiting') = ToSet(waiting) \ {v}
                /\ item[v].clear => item[v].bits \subseteq toClear'[t]
    BY <1>5, WalkMoves
  <2>2. SUFFICES ASSUME \A u \in Tasks : call[u].op # "delete", ~deleted
                 PROVE  \A b \in bits : MeetingBit(b) =>
                          \E u \in Tasks :
                             /\ Comes(u, b)
                             /\ \/ u \in ToSet(waiting')
                                \/ pc[u] \in {"walk", "meet"}
                                \/ pc[u] = "woken" /\ pc[t] = "walk" /\ b \in toClear'[t]
    BY <2>1 DEF Rendezvous, MeetingBit, Meeting, Comes
  <2>3. ASSUME NEW b \in bits, MeetingBit(b), NEW u \in Tasks, Comes(u, b), u \in ToSet(waiting)
        PROVE  \/ u \in ToSet(waiting')
               \/ pc[u] = "woken" /\ b \in toClear'[t]
    <3>1. CASE u # v \/ waiting' = waiting
      BY <2>1, <2>3, <3>1
    <3>2. CASE u = v /\ (item[v].clear => item[v].bits \subseteq toClear'[t])
      <4>1. Waiter(u) /\ pc[u] \in {"resume", "woken"}
        BY <2>3, Types
      <4>2. item[u].clear /\ item[u].bits = call[u].want
        <5> DEFINE c == call[u].op = "sync" \/ call[u].clear
                   a == call[u].op = "sync" \/ call[u].all
        <5>1. item[u] = [bits |-> call[u].want, told |-> FALSE, clear |-> c, all |-> a]
          BY <4>1 DEF Waiter
        <5>2. c
          BY <2>3 DEF Comes
        <5> HIDE DEF c, a
        <5>3. item[u].clear = c /\ item[u].bits = call[u].want
          BY <5>1
        <5>4. QED
          BY <5>2, <5>3
      <4>3. b \in call[u].want
        BY <2>3, MeetingCall
      <4>4. pc[u] = "woken"
        BY <2>1, <3>2, <4>1 DEF Suspended
      <4>5. QED
        BY <3>2, <4>2, <4>3, <4>4
    <3>3. QED
      BY <2>1, <3>1, <3>2
  <2>4. ASSUME NEW b \in bits, MeetingBit(b)
        PROVE  \E u \in Tasks :
                  /\ Comes(u, b)
                  /\ \/ u \in ToSet(waiting')
                     \/ pc[u] \in {"walk", "meet"}
                     \/ pc[u] = "woken" /\ pc[t] = "walk" /\ b \in toClear'[t]
    <3>1. PICK u \in Tasks :
            /\ Comes(u, b)
            /\ \/ u \in ToSet(waiting)
               \/ pc[u] \in {"walk", "meet"}
               \/ pc[u] = "woken" /\ \E s \in Tasks : pc[s] = "walk" /\ b \in toClear[s]
      BY <2>2, <2>4 DEF Rendezvous
    <3>2. CASE u \in ToSet(waiting)
      BY <2>1, <2>3, <2>4, <3>1, <3>2
    <3>3. CASE pc[u] \in {"walk", "meet"}
      BY <3>1, <3>3
    <3>4. CASE pc[u] = "woken" /\ \E s \in Tasks : pc[s] = "walk" /\ b \in toClear[s]
      <4>1. b \in toClear[t]
        BY <2>1, <3>4 DEF Suspended
      <4>2. QED
        BY <2>1, <3>1, <3>4, <4>1
    <3>5. QED
      BY <3>1, <3>2, <3>3, <3>4
  <2>5. QED
    BY <2>4
<1>6. ASSUME NEW t \in Tasks, ClearMatched(t) PROVE Rendezvous'
  <2>1. /\ pc[t] = "walk" /\ t \notin ToSet(waiting) /\ \A u \in Tasks : pc[u] \in Suspended => u = t
        /\ bits' = bits \ toClear[t] /\ UNCHANGED <<waiting, deleted, call, original>>
        /\ pc'[t] = (IF call[t].op = "sync" THEN "meet" ELSE "resume")
        /\ \A u \in Tasks \ {t} : pc'[u] = pc[u]
    BY <1>6, Alone, Calls DEF ClearMatched, Goto
  <2>2. SUFFICES ASSUME \A u \in Tasks : call[u].op # "delete", ~deleted
                 PROVE  /\ \A b \in bits' : MeetingBit(b) =>
                             \E u \in Tasks : Comes(u, b) /\ (u \in ToSet(waiting) \/ pc'[u] = "meet")
                        /\ \A s \in Tasks : pc'[s] \in {"set", "walk", "meet"} =>
                             \A b \in original[s] : MeetingBit(b) =>
                               \E u \in Tasks \ {s} : Comes(u, b) /\ pc'[u] = "woken"
    BY <2>1 DEF Rendezvous, MeetingBit, Meeting, Comes
  <2>3. ASSUME NEW b \in bits', MeetingBit(b)
        PROVE  \E u \in Tasks : Comes(u, b) /\ (u \in ToSet(waiting) \/ pc'[u] = "meet")
    <3>1. b \in bits /\ b \notin toClear[t]
      BY <2>1, <2>3
    <3>2. PICK u \in Tasks :
            /\ Comes(u, b)
            /\ \/ u \in ToSet(waiting)
               \/ pc[u] \in {"walk", "meet"}
               \/ pc[u] = "woken" /\ \E s \in Tasks : pc[s] = "walk" /\ b \in toClear[s]
      BY <2>2, <2>3, <3>1 DEF Rendezvous
    <3>3. \A s \in Tasks : pc[s] = "walk" => s = t
      BY <2>1 DEF Suspended
    <3>4. u \in ToSet(waiting) \/ u = t
      BY <2>1, <3>1, <3>2, <3>3 DEF Suspended
    <3>5. QED
      BY <2>1, <3>2, <3>4 DEF Comes
  <2>4. ASSUME NEW s \in Tasks, pc'[s] \in {"set", "walk", "meet"},
               NEW b \in original[s], MeetingBit(b)
        PROVE  \E u \in Tasks \ {s} : Comes(u, b) /\ pc'[u] = "woken"
    <3>1. s = t
      BY <2>1, <2>4 DEF Suspended
    <3>2. QED
      BY <2>1, <2>2, <2>4, <3>1 DEF Rendezvous
  <2>5. QED
    BY <2>3, <2>4
<1>7. ASSUME NEW t \in Tasks, Reread(t) PROVE Rendezvous'
  <2>1. /\ pc[t] = "reread" /\ \A u \in Tasks : pc[u] \notin {"set", "walk", "meet"}
        /\ t \notin ToSet(waiting) /\ bits' \subseteq bits /\ UNCHANGED <<waiting, deleted>> /\ Return(t)
    BY <1>7, Alone DEF Reread, Suspended
  <2>2. call[t].op # "delete"
    BY <2>1 DEF Deleting
  <2>3. pc'[t] = "idle" /\ \A u \in Tasks \ {t} : pc'[u] = pc[u] /\ call'[u] = call[u]
    BY <2>1, Returns
  <2>4. QED
    BY <2>1, <2>2, <2>3, StaysMet
<1>8. ASSUME NEW t \in Tasks, Meet(t) PROVE Rendezvous'
  <2>1. /\ pc[t] \in {"meet", "test"} /\ t \notin ToSet(waiting)
        /\ \A u \in Tasks : pc[u] \in Suspended => u = t
        /\ pc' = [pc EXCEPT ![t] = "resume"] /\ UNCHANGED <<deleted, original>>
        /\ call[t].op = (IF pc[t] = "meet" THEN "sync" ELSE "wait")
        /\ \/ /\ call' = [call EXCEPT ![t] = [call[t] EXCEPT !.ticks = "zero"]]
              /\ bits' \subseteq bits /\ (pc[t] = "meet" => bits' = bits \ call[t].want)
              /\ UNCHANGED waiting
           \/ call[t].ticks = "zero" /\ UNCHANGED <<bits, call, waiting>>
           \/ UNCHANGED <<bits, call>> /\ ToSet(waiting') = ToSet(waiting) \cup {t}
    BY <1>8, DecideMoves
  <2>2. /\ pc'[t] = "resume" /\ \A u \in Tasks \ {t} : pc'[u] = pc[u]
        /\ \A u \in Tasks : call'[u].op = call[u].op /\ call'[u].mark = call[u].mark
        /\ bits' \subseteq bits /\ ToSet(waiting) \subseteq ToSet(waiting')
    <3>1. /\ pc'[t] = "resume" /\ \A u \in Tasks \ {t} : pc'[u] = pc[u]
          /\ bits' \subseteq bits /\ ToSet(waiting) \subseteq ToSet(waiting')
      BY <2>1, Calls
    <3>2. ASSUME call' = [call EXCEPT ![t] = [call[t] EXCEPT !.ticks = "zero"]]
          PROVE  /\ \A u \in Tasks \ {t} : call'[u] = call[u]
                 /\ call'[t].op = call[t].op /\ call'[t].mark = call[t].mark
      BY <3>2, Calls DEF Call
    <3>3. \A u \in Tasks : call'[u].op = call[u].op /\ call'[u].mark = call[u].mark
      BY <2>1, <3>2
    <3>4. QED
      BY <3>1, <3>3
  <2>3. \A u \in Tasks : pc'[u] \notin {"set", "walk", "meet"}
    BY <2>1, <2>2 DEF Suspended
  <2>4. SUFFICES ASSUME \A u \in Tasks : call[u].op # "delete", ~deleted
                 PROVE  \A b \in bits' : MeetingBit(b) =>
                          \E u \in Tasks : Comes(u, b) /\ u \in ToSet(waiting')
    BY <2>1, <2>2, <2>3 DEF Rendezvous, MeetingBit, Meeting, Comes
  <2>5. ASSUME NEW b \in bits', MeetingBit(b)
        PROVE  \E u \in Tasks : Comes(u, b) /\ u \in ToSet(waiting')
    <3>1. PICK u \in Tasks :
            /\ Comes(u, b)
            /\ \/ u \in ToSet(waiting)
               \/ pc[u] \in {"walk", "meet"}
               \/ pc[u] = "woken" /\ \E s \in Tasks : pc[s] = "walk" /\ b \in toClear[s]
      BY <2>2, <2>4, <2>5 DEF Rendezvous
    <3>2. u \in ToSet(waiting) \/ (u = t /\ pc[t] = "meet")
      BY <2>1, <3>1 DEF Suspended
    <3>3. CASE u \in ToSet(waiting)
      BY <2>2, <3>1, <3>3
    <3>4. CASE u = t /\ pc[t] = "meet"
      <4>1. call[t] \in Does[t]
        BY <3>4 DEF EventInv, Own
      <4>2. b \in call[t].want /\ call[t].ticks = "max"
        BY <2>5, <3>1, <3>4, <4>1, MeetingCall
      <4>3. t \in ToSet(waiting')
        BY <2>1, <2>5, <3>4, <4>2
      <4>4. QED
        BY <3>1, <3>4, <4>3
    <3>5. QED
      BY <3>2, <3>3, <3>4
  <2>6. QED
    BY <2>5
<1>9. ASSUME NEW t \in Tasks, Test(t) PROVE Rendezvous'
  <2>1. /\ pc[t] \in {"meet", "test"} /\ t \notin ToSet(waiting)
        /\ \A u \in Tasks : pc[u] \in Suspended => u = t
        /\ pc' = [pc EXCEPT ![t] = "resume"] /\ UNCHANGED <<deleted, original>>
        /\ call[t].op = (IF pc[t] = "meet" THEN "sync" ELSE "wait")
        /\ \/ /\ call' = [call EXCEPT ![t] = [call[t] EXCEPT !.ticks = "zero"]]
              /\ bits' \subseteq bits /\ (pc[t] = "meet" => bits' = bits \ call[t].want)
              /\ UNCHANGED waiting
           \/ call[t].ticks = "zero" /\ UNCHANGED <<bits, call, waiting>>
           \/ UNCHANGED <<bits, call>> /\ ToSet(waiting') = ToSet(waiting) \cup {t}
    BY <1>9, DecideMoves
  <2>2. /\ pc'[t] = "resume" /\ \A u \in Tasks \ {t} : pc'[u] = pc[u]
        /\ \A u \in Tasks : call'[u].op = call[u].op /\ call'[u].mark = call[u].mark
        /\ bits' \subseteq bits /\ ToSet(waiting) \subseteq ToSet(waiting')
    <3>1. /\ pc'[t] = "resume" /\ \A u \in Tasks \ {t} : pc'[u] = pc[u]
          /\ bits' \subseteq bits /\ ToSet(waiting) \subseteq ToSet(waiting')
      BY <2>1, Calls
    <3>2. ASSUME call' = [call EXCEPT ![t] = [call[t] EXCEPT !.ticks = "zero"]]
          PROVE  /\ \A u \in Tasks \ {t} : call'[u] = call[u]
                 /\ call'[t].op = call[t].op /\ call'[t].mark = call[t].mark
      BY <3>2, Calls DEF Call
    <3>3. \A u \in Tasks : call'[u].op = call[u].op /\ call'[u].mark = call[u].mark
      BY <2>1, <3>2
    <3>4. QED
      BY <3>1, <3>3
  <2>3. \A u \in Tasks : pc'[u] \notin {"set", "walk", "meet"}
    BY <2>1, <2>2 DEF Suspended
  <2>4. SUFFICES ASSUME \A u \in Tasks : call[u].op # "delete", ~deleted
                 PROVE  \A b \in bits' : MeetingBit(b) =>
                          \E u \in Tasks : Comes(u, b) /\ u \in ToSet(waiting')
    BY <2>1, <2>2, <2>3 DEF Rendezvous, MeetingBit, Meeting, Comes
  <2>5. ASSUME NEW b \in bits', MeetingBit(b)
        PROVE  \E u \in Tasks : Comes(u, b) /\ u \in ToSet(waiting')
    <3>1. PICK u \in Tasks :
            /\ Comes(u, b)
            /\ \/ u \in ToSet(waiting)
               \/ pc[u] \in {"walk", "meet"}
               \/ pc[u] = "woken" /\ \E s \in Tasks : pc[s] = "walk" /\ b \in toClear[s]
      BY <2>2, <2>4, <2>5 DEF Rendezvous
    <3>2. u \in ToSet(waiting) \/ (u = t /\ pc[t] = "meet")
      BY <2>1, <3>1 DEF Suspended
    <3>3. CASE u \in ToSet(waiting)
      BY <2>2, <3>1, <3>3
    <3>4. CASE u = t /\ pc[t] = "meet"
      <4>1. call[t] \in Does[t]
        BY <3>4 DEF EventInv, Own
      <4>2. b \in call[t].want /\ call[t].ticks = "max"
        BY <2>5, <3>1, <3>4, <4>1, MeetingCall
      <4>3. t \in ToSet(waiting')
        BY <2>1, <2>5, <3>4, <4>2
      <4>4. QED
        BY <3>1, <3>4, <4>3
    <3>5. QED
      BY <3>2, <3>3, <3>4
  <2>6. QED
    BY <2>5
<1>10. ASSUME NEW t \in Tasks, Resume(t) PROVE Rendezvous'
  <2>1. /\ pc[t] = "resume" /\ UNCHANGED <<waiting, bits, deleted>>
        /\ \A u \in Tasks \ {t} : pc'[u] = pc[u] /\ call'[u] = call[u]
        /\ pc'[t] \in {"idle", "woken", "reread"}
    BY <1>10, Returns, Calls DEF Resume, Goto
  <2>2. \A u \in Tasks : pc[u] \notin {"set", "walk", "meet"}
    BY <2>1, Alone DEF Suspended
  <2>3. CASE call[t].op = "delete"
    <3>1. deleted
      BY <2>1, <2>3 DEF Deleting
    <3>2. QED
      BY <2>1, <3>1 DEF Rendezvous
  <2>4. CASE call[t].op # "delete"
    <3>1. ASSUME t \in ToSet(waiting) PROVE call'[t] = call[t]
      <4>1. call[t].op \in {"wait", "sync"} /\ call[t].ticks # "zero"
        BY <3>1, Types DEF Waiter
      <4>2. QED
        BY <1>10, <4>1 DEF Resume
    <3>2. QED
      BY <2>1, <2>2, <2>4, <3>1, StaysMet
  <2>5. QED
    BY <2>3, <2>4
<1>11. ASSUME NEW t \in Tasks, Woken(t) PROVE Rendezvous'
  <2>1. /\ At(t, "woken") /\ UNCHANGED <<waiting, bits, deleted>>
        /\ pc'[t] \in {"idle", "late"}
        /\ \A u \in Tasks \ {t} : pc'[u] = pc[u] /\ call'[u] = call[u]
    BY <1>11, Returns, Calls DEF Woken, Goto
  <2>2. pc[t] = "woken" /\ t \notin ToSet(waiting) /\ \A u \in Tasks : pc[u] \notin {"set", "walk", "meet"}
    BY <2>1, Alone DEF Suspended
  <2>3. call[t].op # "delete"
    BY <2>2 DEF Deleting
  <2>4. QED
    BY <2>1, <2>2, <2>3, StaysMet
<1>12. ASSUME NEW t \in Tasks, Late(t) PROVE Rendezvous'
  <2>1. /\ pc[t] = "late" /\ \A u \in Tasks : pc[u] \notin {"set", "walk", "meet"}
        /\ t \notin ToSet(waiting) /\ bits' \subseteq bits /\ UNCHANGED <<waiting, deleted>> /\ Return(t)
    BY <1>12, Alone DEF Late, Suspended
  <2>2. call[t].op # "delete"
    BY <2>1 DEF Deleting
  <2>3. pc'[t] = "idle" /\ \A u \in Tasks \ {t} : pc'[u] = pc[u] /\ call'[u] = call[u]
    BY <2>1, Returns
  <2>4. QED
    BY <2>1, <2>2, <2>3, StaysMet
<1>13. ASSUME NEW t \in Tasks, Delete(t) PROVE Rendezvous'
  <2>1. call[t].op = "delete" /\ UNCHANGED call
    BY <1>13, DeleteMoves
  <2>2. QED
    BY <2>1 DEF Rendezvous
<1>14. ASSUME NEW t \in Tasks, Expire(t) PROVE Rendezvous'
  <2>1. /\ UNCHANGED <<bits, deleted, pc, call, original, toClear>>
        /\ ToSet(waiting') = ToSet(waiting) \ {t} /\ call[t].ticks = "some"
    BY <1>14, ExpireMoves DEF Expire
  <2>2. ASSUME NEW b, MeetingBit(b) PROVE ~Comes(t, b)
    BY <2>1, <2>2, MeetingCall
  <2>3. QED
    BY <2>1, <2>2 DEF Rendezvous, MeetingBit, Meeting, Comes
<1>15. CASE Create
  <2>1. bits' = {} /\ \A u \in Tasks : pc'[u] = "idle"
    BY <1>15 DEF Create
  <2>2. QED
    BY <2>1 DEF Rendezvous
<1>16. CASE UNCHANGED vars
  BY <1>16 DEF vars, EventInv, Rendezvous, MeetingBit, Meeting, Comes
<1>17. QED
  BY <1>1, <1>2, <1>3, <1>4, <1>5, <1>6, <1>7, <1>8, <1>9, <1>10, <1>11,
    <1>12, <1>13, <1>14, <1>15, <1>16
    DEF Next, Step

(* Only the walk tells a task that its bits are set, and they are. *)
LEMMA OnlyWalkTells ==
    ASSUME EventInv, SingleCore, [Next]_vars, NEW t \in Tasks, ~item[t].told, item'[t].told,
           \A u \in Tasks : call[u].op # "delete"
    PROVE  t \in ToSet(waiting) /\ Met(bits, item[t].bits, item[t].all)
<1>1. ASSUME NEW s \in Tasks, Walk(s)
      PROVE  t \in ToSet(waiting) /\ Met(bits, item[t].bits, item[t].all)
  <2>1. PICK u \in ToSet(waiting) :
          /\ \A v \in Tasks \ {u} : item'[v] = item[v]
          /\ UNCHANGED item \/ Met(bits, item[u].bits, item[u].all)
    BY <1>1, WalkMoves
  <2>2. u = t
    BY <2>1
  <2>3. QED
    BY <2>1, <2>2
<1>2. ASSUME NEW s \in Tasks, Meet(s) \/ Test(s) PROVE FALSE
  <2>1. \/ UNCHANGED item
        \/ \E i : item' = [item EXCEPT ![s] = i] /\ ~i.told
    <3>1. ASSUME item' = [item EXCEPT ![s] = [bits |-> call[s].want,
                                             clear |-> call[s].op = "sync" \/ call[s].clear,
                                             all |-> call[s].op = "sync" \/ call[s].all,
                                             told |-> FALSE]]
          PROVE  \E i : item' = [item EXCEPT ![s] = i] /\ ~i.told
      BY <3>1
    <3>2. QED
      BY <1>2, <3>1, DecideMoves
  <2>2. QED
    BY <2>1, Types
<1>3. ASSUME NEW s \in Tasks, Woken(s) PROVE FALSE
  <2>1. item' = [item EXCEPT ![s] = Blank]
    BY <1>3 DEF Woken
  <2>2. QED
    BY <2>1, Types DEF Blank
<1>4. ASSUME NEW s \in Tasks, Delete(s) PROVE FALSE
  BY <1>4, DeleteMoves
<1>5. ASSUME NEW s \in Tasks,
             \/ Begin(s) \/ ClearBits(s) \/ Suspend(s) \/ SetBits(s) \/ ClearMatched(s)
             \/ Reread(s) \/ Resume(s) \/ Late(s) \/ Expire(s)
      PROVE  FALSE
  <2>1. UNCHANGED item
    BY <1>5 DEF Begin, ClearBits, Suspend, SetBits, ClearMatched, Reread, Resume, Late, Expire, group
  <2>2. QED
    BY <2>1
<1>6. CASE Create \/ UNCHANGED vars
  BY <1>6 DEF Create, vars, group
<1>7. QED
  BY <1>1, <1>2, <1>3, <1>4, <1>5, <1>6 DEF Next, Step

(* A task leaves the test of its rendezvous by that test. *)
LEMMA OnlyMeetLeaves ==
    ASSUME EventInv, SingleCore, [Next]_vars, NEW t \in Tasks, pc[t] = "meet", pc'[t] # "meet"
    PROVE  Meet(t)
<1>1. \A s \in Tasks : s # t => pc[s] \notin Suspended
  BY Alone DEF Suspended
<1>2. pc \in [Tasks -> Labels]
  BY Calls
<1>3. ASSUME NEW s \in Tasks, Begin(s) \/ Step(s), ~Meet(t) PROVE pc'[t] = pc[t]
  <2>1. CASE s # t
    BY <1>2, <1>3, <2>1
    DEF Begin, Step, ClearBits, Suspend, SetBits, Walk, ClearMatched, Reread, Meet, Test, Resume,
        Woken, Late, Delete, Return, Goto
  <2>2. CASE s = t
    BY <1>3, <2>2
    DEF Begin, Step, At, ClearBits, Suspend, SetBits, Walk, ClearMatched, Reread, Test, Resume,
        Woken, Late, Delete
  <2>3. QED
    BY <2>1, <2>2
<1>4. ASSUME NEW s \in Tasks, Expire(s) PROVE pc'[t] = pc[t]
  BY <1>4 DEF Expire, frame
<1>5. CASE Create \/ UNCHANGED vars
  BY <1>5 DEF Create, vars, frame
<1>6. QED
  BY <1>3, <1>4, <1>5 DEF Next

(* For each bit a satisfied rendezvous waits for, there is one that comes. *)
LEMMA TogetherStep ==
    EventInv /\ SingleCore /\ Rendezvous /\ [Next]_vars => LeaveTogether
<1> SUFFICES ASSUME EventInv, SingleCore, Rendezvous, [Next]_vars, NEW t \in Tasks,
                    call[t].op = "sync", call[t].ticks = "max", Meeting(call[t].want),
                    Satisfied(t), ~deleted, \A u \in Tasks : call[u].op # "delete",
                    NEW b \in call[t].want
             PROVE  \E u \in Tasks : Comes(u, b) /\ pc[u] # "late"
  BY DEF LeaveTogether, Comes
<1>1. MeetingBit(b)
  BY DEF MeetingBit, Meeting
<1>2. CASE ~item[t].told /\ item'[t].told
  <2>1. t \in ToSet(waiting) /\ Met(bits, item[t].bits, item[t].all)
    BY <1>2, OnlyWalkTells
  <2>2. Waiter(t)
    BY <2>1, Types
  <2>3. item[t].bits = call[t].want /\ item[t].all
    <3> DEFINE c == call[t].op = "sync" \/ call[t].clear
               a == call[t].op = "sync" \/ call[t].all
    <3>1. item[t] = [bits |-> call[t].want, told |-> FALSE, clear |-> c, all |-> a]
      BY <2>2 DEF Waiter
    <3>2. a
      OBVIOUS
    <3> HIDE DEF c, a
    <3>3. item[t].all = a /\ item[t].bits = call[t].want
      BY <3>1
    <3>4. QED
      BY <3>2, <3>3
  <2>4. b \in bits
    BY <2>1, <2>3 DEF Met
  <2>5. PICK u \in Tasks :
          /\ Comes(u, b)
          /\ \/ u \in ToSet(waiting)
             \/ pc[u] \in {"walk", "meet"}
             \/ pc[u] = "woken"
    BY <1>1, <2>4 DEF Rendezvous
  <2>6. pc[u] # "late"
    BY <2>5, Types
  <2>7. QED
    BY <2>5, <2>6
<1>3. CASE pc[t] = "meet" /\ pc'[t] = "resume" /\ call'[t].ticks = "zero"
  <2>1. Meet(t)
    BY <1>3, OnlyMeetLeaves
  <2>2. call[t].want \subseteq original[t] \cup call[t].mark
    BY <1>3, <2>1, DecideMoves
  <2>3. CASE b \in call[t].mark
    BY <1>3, <2>3 DEF Comes
  <2>4. CASE b \in original[t]
    <3>1. PICK u \in Tasks : Comes(u, b) /\ pc[u] = "woken"
      BY <1>1, <1>3, <2>4 DEF Rendezvous
    <3>2. QED
      BY <3>1
  <2>5. QED
    BY <2>2, <2>3, <2>4
<1>4. QED
  BY <1>2, <1>3 DEF Satisfied

-----------------------------------------------------------------------------
(* The invariants hold at the start, *)
LEMMA InitInv ==
    ASSUME SingleCore
    PROVE  Init => EventInv /\ Cursor /\ Settled /\ Deleting /\ Rendezvous
<1> SUFFICES ASSUME Init PROVE EventInv /\ Cursor /\ Settled /\ Deleting /\ Rendezvous
  OBVIOUS
<1> USE EventGroupAssumption
<1>1. /\ waiting = <<>> /\ ToSet(waiting) = {} /\ bits = {} /\ deleted = FALSE
      /\ \A t \in Tasks : pc[t] = "idle" /\ call[t] = NoCall /\ next[t] = NoTask /\ toClear[t] = {}
  BY DEF Init, ToSet
<1>2. TypeOK
  <2>1. NoCall \in Call /\ waiting \in Seq(Tasks)
    BY <1>1 DEF NoCall, Call, Ops
  <2>2. item \in [Tasks -> [bits : SUBSET Bits, clear : BOOLEAN, all : BOOLEAN, told : BOOLEAN]]
    BY DEF Init, Blank
  <2>3. QED
    BY <1>1, <2>1, <2>2 DEF Init, TypeOK, Labels
<1>3. Excluding
  BY <1>1 DEF Init, Excluding, Injective, Suspended
<1>4. Waiters /\ Settled /\ Cursor
  BY <1>1 DEF Waiters, Settled, Cursor
<1>5. ASSUME NEW t \in Tasks PROVE Own(t) /\ Placed(t) /\ Changing(t)
  BY <1>1 DEF Own, Placed, Changing
<1>6. Deleting
  BY <1>1 DEF Deleting, NoCall
<1>7. Rendezvous
  BY <1>1 DEF Rendezvous
<1>8. QED
  BY <1>2, <1>3, <1>4, <1>5, <1>6, <1>7 DEF EventInv

(* and every step keeps the one they rest on. *)
LEMMA InvStep == EventInv /\ SingleCore /\ [Next]_vars => EventInv'
BY TypeStep, ExclStep, OwnStep, PlacedStep, WaitersStep, ChangingStep DEF EventInv

(* The inductive invariant of the group: each task is where its call goes, *)
(* alone in it, and an item says what the call of a waiting task asks for. *)
THEOREM InvariantCorrect == ASSUME SingleCore PROVE Spec => []EventInv
<1>1. EventInv /\ [Next]_vars => EventInv'
  BY InvStep
<1>2. Init => EventInv
  BY InitInv
<1>3. QED
  BY <1>1, <1>2, PTL DEF Spec

(* No task is left waiting for bits that are set, whatever is set, cleared *)
(* and timed out between the steps of a call.                              *)
THEOREM NoStrandedWaiterCorrect == ASSUME SingleCore PROVE Spec => []NoStrandedWaiter
<1>1. EventInv /\ Settled => NoStrandedWaiter
  <2> SUFFICES ASSUME EventInv, Settled, \A c \in Cores : holder[c] = NoTask
               PROVE  \A t \in ToSet(waiting) : ~Met(bits, item[t].bits, item[t].all)
    BY DEF NoStrandedWaiter, EventInv
  <2>1. \A t \in Tasks : pc[t] # "walk"
    <3>1. \A t \in Tasks : holder[core[t]] = NoTask
      BY Types
    <3>2. QED
      BY <3>1, EventGroupAssumption DEF EventInv, Excluding, Suspended
  <2>2. QED
    BY <2>1 DEF Settled, Stranded
<1>2. EventInv /\ Cursor /\ Settled /\ [Next]_vars => EventInv' /\ Cursor' /\ Settled'
  BY InvStep, CursorStep, SettledStep
<1>3. Init => EventInv /\ Cursor /\ Settled
  BY InitInv
<1>4. QED
  BY <1>1, <1>2, <1>3, PTL DEF Spec

(* A task that the deletion of the group unblocks leaves without another   *)
(* look at the group.                                                      *)
THEOREM DeletedIsUntouchedCorrect == ASSUME SingleCore PROVE Spec => []DeletedIsUntouched
<1>1. EventInv /\ Deleting => DeletedIsUntouched
  <2> SUFFICES ASSUME EventInv, Deleting, deleted PROVE DeletedIsUntouched
    BY DEF DeletedIsUntouched
  <2>1. waiting = <<>> /\ ToSet(waiting) = {}
    BY DEF Deleting, ToSet
  <2>2. ASSUME NEW t \in Tasks, call[t].op # "delete"
        PROVE  pc[t] = "idle" \/ (pc[t] = "woken" /\ item[t].told)
    BY <2>1, <2>2 DEF Deleting, LeftAlone
  <2>3. ASSUME NEW t \in Tasks, call[t].op = "delete" PROVE pc[t] = "resume"
    BY <2>3 DEF Deleting
  <2>4. QED
    BY <2>1, <2>2, <2>3 DEF DeletedIsUntouched
<1>2. EventInv /\ Deleting /\ [Next]_vars => EventInv' /\ Deleting'
  BY InvStep, DeletingStep
<1>3. Init => EventInv /\ Deleting
  BY InitInv
<1>4. QED
  BY <1>1, <1>2, <1>3, PTL DEF Spec

(* Tasks that meet leave together: when one is satisfied, for each bit it  *)
(* waits for a task is inside the call that sets it.                       *)
THEOREM RendezvousMeetsCorrect == ASSUME SingleCore PROVE Spec => RendezvousMeets
<1>1. /\ EventInv /\ Deleting /\ Rendezvous /\ [Next]_vars => EventInv' /\ Deleting' /\ Rendezvous'
      /\ EventInv /\ Rendezvous /\ [Next]_vars => LeaveTogether
  BY InvStep, DeletingStep, RendezvousStep, TogetherStep
<1>2. Init => EventInv /\ Deleting /\ Rendezvous
  BY InitInv
<1>3. QED
  BY <1>1, <1>2, PTL DEF Spec, RendezvousMeets
=============================================================================
