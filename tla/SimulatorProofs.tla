-------------------------- MODULE SimulatorProofs --------------------------
(***************************************************************************)
(* Proofs about Simulator, for queues of any size, any number of events,   *)
(* commands and reboots, and a network that goes wrong as often as it      *)
(* likes.                                                                  *)
(***************************************************************************)
EXTENDS Simulator, Integers, FiniteSetTheorems, WellFoundedInduction, TLAPS

-----------------------------------------------------------------------------
(* Dispatch, one command after the other.  The induction goes over sets of  *)
(* numbers, with the fact that < is well-founded.                           *)

Below == {p \in Nat \X Nat : p[1] < p[2]}

LEMMA BelowWellFounded == IsWellFoundedOn(Below, Nat)
<1>1. OpToRel(<, Nat) = Below
  BY DEF OpToRel, Below
<1>. QED  BY <1>1, NatLessThanWellFounded, Zenon

\* A set that has 0, and the successor of each of its numbers, has every number.
LEMMA SetInduction ==
  ASSUME NEW S \in SUBSET Nat, 0 \in S, \A n \in S : n + 1 \in S
  PROVE  S = Nat
<1> DEFINE T == Nat \ S
<1>1. SUFFICES ASSUME T # {} PROVE FALSE
  OBVIOUS
<1>2. PICK x \in T : \A y \in T : <<y, x>> \notin Below
  BY <1>1, BelowWellFounded, WFMin, Zenon
<1>3. x # 0 /\ x - 1 \in Nat
  OBVIOUS
<1>4. <<x - 1, x>> \in Below
  BY <1>3 DEF Below
<1>5. x - 1 \in S
  BY <1>2, <1>3, <1>4
<1>. QED  BY <1>3, <1>5

\* The greatest number of a set that has k and nothing above
LEMMA GreatestIs ==
  ASSUME NEW k \in Nat, NEW s \in SUBSET (1..k), k \in s
  PROVE  Max(s) = k
<1> DEFINE Greatest(x) == x \in s /\ \A y \in s : x >= y
<1>1. Greatest(k)
  OBVIOUS
<1>2. ASSUME NEW x, Greatest(x) PROVE x = k
  <2>1. x \in 1..k /\ x >= k
    BY <1>2
  <2>. QED  BY <2>1
<1>3. Max(s) = CHOOSE x : Greatest(x)
  BY DEF Max
<1>. HIDE DEF Greatest
<1>. QED  BY <1>1, <1>2, <1>3

\* g is what dispatch makes of any set of the commands, in order.
Folds(g, base, commands, n) ==
  g = [s \in SUBSET (1..n) |->
         IF s = {} THEN base ELSE Dispatch(g[s \ {Max(s)}], commands[Max(s)])]

LEMMA FoldUnfolds ==
  ASSUME NEW base, NEW commands, NEW n, DOMAIN commands = 1..n
  PROVE  FoldLeft(Dispatch, base, commands) = (CHOOSE g : Folds(g, base, commands, n))[1..n]
BY DEF FoldLeft, MapThenFoldSet, Folds

\* There is such a g.
LEMMA FoldExists ==
  ASSUME NEW base, NEW commands, NEW n \in Nat
  PROVE  \E g : Folds(g, base, commands, n)
<1> DEFINE S == {k \in Nat : \E g : Folds(g, base, commands, k)}
<1>1. 0 \in S
  <2> DEFINE g == [s \in SUBSET (1..0) |-> base]
  <2>1. \A s \in SUBSET (1..0) : s = {}
    OBVIOUS
  <2>2. Folds(g, base, commands, 0)
    BY <2>1 DEF Folds
  <2>. QED  BY <2>2
<1>2. ASSUME NEW k \in S PROVE k + 1 \in S
  <2>1. PICK g : Folds(g, base, commands, k)
    OBVIOUS
  <2> DEFINE h == [s \in SUBSET (1..(k + 1)) |->
                     IF k + 1 \in s THEN Dispatch(g[s \ {k + 1}], commands[k + 1]) ELSE g[s]]
  <2>2. ASSUME NEW s \in SUBSET (1..(k + 1))
        PROVE  h[s] = IF s = {} THEN base ELSE Dispatch(h[s \ {Max(s)}], commands[Max(s)])
    <3>1. CASE k + 1 \in s
      <4>1. Max(s) = k + 1
        BY <3>1, GreatestIs
      <4>2. s \ {k + 1} \in SUBSET (1..(k + 1)) /\ k + 1 \notin s \ {k + 1}
        OBVIOUS
      <4>3. h[s \ {k + 1}] = g[s \ {k + 1}]
        BY <4>2
      <4>4. h[s] = Dispatch(g[s \ {k + 1}], commands[k + 1])
        BY <3>1
      <4>. HIDE DEF h
      <4>. QED  BY <3>1, <4>1, <4>3, <4>4
    <3>2. CASE k + 1 \notin s
      <4>1. s \in SUBSET (1..k)
        BY <3>2
      <4>2. h[s] = g[s]
        BY <3>2
      <4>3. g[s] = IF s = {} THEN base ELSE Dispatch(g[s \ {Max(s)}], commands[Max(s)])
        BY <2>1, <4>1 DEF Folds
      <4>4. h[s \ {Max(s)}] = g[s \ {Max(s)}]
        BY <3>2
      <4>. HIDE DEF h
      <4>. QED  BY <4>2, <4>3, <4>4
    <3>. QED  BY <3>1, <3>2
  <2>3. Folds(h, base, commands, k + 1)
    <3>1. h = [s \in SUBSET (1..(k + 1)) |-> h[s]]
      OBVIOUS
    <3>. HIDE DEF h
    <3>. QED  BY <2>2, <3>1 DEF Folds
  <2>. QED  BY <2>3
<1>3. S = Nat
  <2>. HIDE DEF S
  <2>1. S \in SUBSET Nat
    BY DEF S
  <2>. QED  BY <1>1, <1>2, <2>1, SetInduction
<1>. QED  BY <1>3

\* What every dispatch of one of the commands keeps, dispatching them all keeps.
LEMMA DispatchAll ==
  ASSUME NEW D, NEW base \in D, NEW n \in Nat, NEW commands, DOMAIN commands = 1..n,
         \A d \in D, i \in 1..n : Dispatch(d, commands[i]) \in D
  PROVE  FoldLeft(Dispatch, base, commands) \in D
<1> DEFINE g == CHOOSE g : Folds(g, base, commands, n)
<1>1. Folds(g, base, commands, n)
  BY FoldExists
<1>2. FoldLeft(Dispatch, base, commands) = g[1..n]
  BY FoldUnfolds
<1>. HIDE DEF g
<1> DEFINE S == {k \in Nat : k <= n => \A s \in SUBSET (1..k) : g[s] \in D}
<1>3. 0 \in S
  <2>1. \A s \in SUBSET (1..0) : s = {} /\ s \in SUBSET (1..n)
    OBVIOUS
  <2>. QED  BY <1>1, <2>1 DEF Folds
<1>4. ASSUME NEW k \in S PROVE k + 1 \in S
  <2>1. SUFFICES ASSUME k + 1 <= n, NEW s \in SUBSET (1..(k + 1)) PROVE g[s] \in D
    OBVIOUS
  <2>2. \A r \in SUBSET (1..k) : g[r] \in D
    BY <2>1
  <2>3. CASE k + 1 \in s
    <3>1. Max(s) = k + 1 /\ s \in SUBSET (1..n) /\ s # {}
      BY <2>1, <2>3, GreatestIs
    <3>2. g[s] = Dispatch(g[s \ {k + 1}], commands[k + 1])
      BY <1>1, <3>1 DEF Folds
    <3>3. s \ {k + 1} \in SUBSET (1..k) /\ k + 1 \in 1..n
      BY <2>1
    <3>. QED  BY <2>2, <3>2, <3>3
  <2>4. CASE k + 1 \notin s
    <3>1. s \in SUBSET (1..k)
      BY <2>4
    <3>. QED  BY <2>2, <3>1
  <2>. QED  BY <2>3, <2>4
<1>5. S = Nat
  <2>. HIDE DEF S
  <2>1. S \in SUBSET Nat
    BY DEF S
  <2>. QED  BY <1>3, <1>4, <2>1, SetInduction
<1>6. g[1..n] \in D
  BY <1>5
<1>. QED  BY <1>2, <1>6

-----------------------------------------------------------------------------
(* The invariant.  S are the ids of the batch of the flight, fl those that    *)
(* updates have, b the boot and l what the server has.                         *)

Event == [id : Nat, ack : Commands \cup {NoCommand}]
Body == [boot : Nat, sent : Seq(Event), update : Nat]
Answers == {"none", "ok", "rejected", "pending", "denied", "allowed", "error"}
Flights == [body : Body, bearer : BOOLEAN, answer : Answers, commands : Seq(Commands)]

DeviceType ==
  {d \in [nextId : Nat \ {0}, queue : Seq(Event), dropped : Nat, seen : SUBSET Commands] :
     Len(d.queue) <= Capacity}

Types ==
  /\ Device \in DeviceType
  /\ boot \in Nat /\ paired \in BOOLEAN
  /\ flight \in Flights
  /\ lastBody \in Body
  /\ updates \in Seq(Nat) /\ IsFiniteSet(outstanding) /\ outstanding \subseteq Commands
  /\ log \subseteq Nat \X Nat /\ heard \subseteq Nat \X Nat

Ids(q) == {e.id : e \in ToSet(q)}
Rising(q) == \A i, j \in 1..Len(q) : i < j => q[i].id < q[j].id

Lost(d, fl, b, l) ==
  {i \in 1..(d.nextId - 1) : i \notin Ids(d.queue) \cup fl /\ <<b, i>> \notin l}

\* What is lost for good, and what was sent and is no longer queued, is counted: of
\* the latter either the batch fails and it is lost, or it arrives, and then as many
\* that were not sent go in its place.
Counted(d, S, fl, b, l) ==
  Cardinality(Lost(d, fl, b, l) \ S) + Cardinality(S \ Ids(d.queue)) <= d.dropped

Sound(d, S, fl, b, l) ==
  /\ Rising(d.queue)
  /\ Ids(d.queue) \cup S \cup fl \subseteq 1..(d.nextId - 1)
  /\ Ids(d.queue) \cap fl = {}
  /\ \A w \in Ids(d.queue) \ S, s \in S : s < w
  /\ Counted(d, S, fl, b, l)

Sent == Ids(flight.body.sent)

\* Nothing comes from a boot that is yet to come.
NoFuture ==
  /\ \A p \in log \cup heard : p[1] <= boot
  /\ flight.body.boot <= boot /\ lastBody.boot <= boot

\* A body of this boot has an id of its own for its update.
Ours(body) == body.boot = boot => body.update \in fleeting \cup {NoUpdate}

\* What a boot keeps that no older coroutine meddles with
Steady ==
  /\ Sound(Device, Sent, fleeting, boot, log)
  /\ Flying => flight.body.boot = boot
  /\ Ours(flight.body) /\ Ours(lastBody)
  /\ ToSet(updates) \subseteq fleeting
  /\ \A p \in heard : p[1] = boot => p[2] \in fleeting
  /\ Sent \cap fleeting = {}
  /\ Cardinality(Sent) = Len(flight.body.sent)
  /\ flight.answer = "ok" => \A i \in Sent : <<boot, i>> \in log

IInv == Types /\ NoFuture /\ (~raced => Steady)

-----------------------------------------------------------------------------
(* Sequences and cardinalities *)

LEMMA AppendedSet ==
  ASSUME NEW S, NEW q \in Seq(S), NEW e \in S
  PROVE  Append(q, e) \in Seq(S) /\ ToSet(Append(q, e)) = ToSet(q) \cup {e}
<1>1. Append(q, e) \in Seq(S) /\ Len(Append(q, e)) = Len(q) + 1
  OBVIOUS
<1>2. \A i \in 1..Len(q) : Append(q, e)[i] = q[i]
  OBVIOUS
<1>3. Append(q, e)[Len(q) + 1] = e
  OBVIOUS
<1>4. DOMAIN q = 1..Len(q) /\ DOMAIN Append(q, e) = 1..(Len(q) + 1) /\ Len(q) \in Nat
  BY <1>1
<1>. QED  BY <1>1, <1>2, <1>3, <1>4 DEF ToSet

LEMMA TailSet ==
  ASSUME NEW S, NEW q \in Seq(S), Len(q) # 0
  PROVE  /\ Tail(q) \in Seq(S) /\ q[1] \in S
         /\ ToSet(Tail(q)) \subseteq ToSet(q) /\ ToSet(q) \subseteq ToSet(Tail(q)) \cup {q[1]}
<1>1. Tail(q) \in Seq(S) /\ Len(Tail(q)) = Len(q) - 1 /\ Len(q) \in Nat \ {0}
  OBVIOUS
<1>2. \A i \in 1..(Len(q) - 1) : Tail(q)[i] = q[i + 1]
  OBVIOUS
<1>3. DOMAIN q = 1..Len(q) /\ DOMAIN Tail(q) = 1..(Len(q) - 1)
  BY <1>1
<1>4. ToSet(Tail(q)) \subseteq ToSet(q)
  BY <1>1, <1>2, <1>3 DEF ToSet
<1>5. ASSUME NEW i \in DOMAIN q PROVE q[i] \in ToSet(Tail(q)) \cup {q[1]}
  <2>1. CASE i = 1
    BY <2>1
  <2>2. CASE i # 1
    <3>1. i - 1 \in DOMAIN Tail(q) /\ Tail(q)[i - 1] = q[i]
      BY <1>1, <1>2, <1>3, <1>5, <2>2
    <3>. QED  BY <3>1 DEF ToSet
  <2>. QED  BY <2>1, <2>2
<1>6. ToSet(q) \subseteq ToSet(Tail(q)) \cup {q[1]}
  BY <1>5 DEF ToSet
<1>7. q[1] \in S
  BY <1>1
<1>. QED  BY <1>1, <1>4, <1>6, <1>7

\* A set with one element more at most
LEMMA OneMore ==
  ASSUME NEW S, IsFiniteSet(S), NEW x, NEW T \in SUBSET (S \cup {x})
  PROVE  IsFiniteSet(T) /\ Cardinality(T) <= Cardinality(S) + 1
<1>1. IsFiniteSet(S \cup {x}) /\ Cardinality(S \cup {x}) <= Cardinality(S) + 1
  <2>1. Cardinality(S) \in Nat
    BY FS_CardinalityType
  <2>2. /\ IsFiniteSet(S \cup {x})
        /\ Cardinality(S \cup {x}) = IF x \in S THEN Cardinality(S) ELSE Cardinality(S) + 1
    BY FS_AddElement, Zenon
  <2>. QED  BY <2>1, <2>2
<1>2. IsFiniteSet(T) /\ Cardinality(T) <= Cardinality(S \cup {x})
  BY <1>1, FS_Subset
<1>. QED  BY <1>1, <1>2, FS_CardinalityType

\* A union has no more elements than its parts together.
LEMMA NoMoreThan ==
  ASSUME NEW A, NEW B, IsFiniteSet(A), IsFiniteSet(B), NEW T, T \subseteq A \cup B
  PROVE  /\ IsFiniteSet(T) /\ Cardinality(T) \in Nat
         /\ Cardinality(T) <= Cardinality(A) + Cardinality(B)
<1>1. /\ IsFiniteSet(A \cup B) /\ IsFiniteSet(A \cap B)
      /\ Cardinality(A \cup B) = Cardinality(A) + Cardinality(B) - Cardinality(A \cap B)
      /\ Cardinality(A \cap B) \in Nat
  BY FS_Union, FS_Intersection, FS_CardinalityType
<1>2. Cardinality(A) \in Nat /\ Cardinality(B) \in Nat
  BY FS_CardinalityType
<1>3. IsFiniteSet(T) /\ Cardinality(T) <= Cardinality(A \cup B)
  BY <1>1, FS_Subset
<1>4. Cardinality(T) \in Nat /\ Cardinality(A \cup B) \in Nat
  BY <1>1, <1>3, FS_CardinalityType
<1>. QED  BY <1>1, <1>2, <1>3, <1>4

\* Rising ids are as many as there are events.
LEMMA RisingCount ==
  ASSUME NEW q \in Seq(Event), Rising(q)
  PROVE  Cardinality(Ids(q)) = Len(q)
<1> DEFINE n == Len(q)
           f == [i \in 1..n |-> q[i].id]
<1>0. n \in Nat
  OBVIOUS
<1>1. DOMAIN q = 1..n /\ \A i \in 1..n : q[i] \in Event
  OBVIOUS
<1>2. Ids(q) = {q[i].id : i \in 1..n}
  BY <1>1 DEF Ids, ToSet
<1>3. \A i \in 1..n : q[i].id \in Nat
  BY <1>1 DEF Event
<1>4. ASSUME NEW i \in 1..n, NEW j \in 1..n, f[i] = f[j] PROVE i = j
  <2>1. ~(i < j) /\ ~(j < i)
    BY <1>3, <1>4 DEF Rising
  <2>. QED  BY <1>1, <2>1
<1>5. f \in Bijection(1..n, Ids(q))
  <2>1. f \in Injection(1..n, Ids(q))
    BY <1>2, <1>4 DEF Injection, IsInjective
  <2>2. f \in Surjection(1..n, Ids(q))
    BY <1>2 DEF Surjection
  <2>. QED  BY <2>1, <2>2 DEF Bijection
<1>6. IsFiniteSet(1..n) /\ Cardinality(1..n) = n
  BY <1>0, FS_Interval
<1>. HIDE DEF n, f
<1>7. Cardinality(1..n) = Cardinality(Ids(q))
  <2>1. ExistsBijection(1..n, Ids(q))
    BY <1>5 DEF ExistsBijection
  <2>. QED  BY <1>6, <2>1, FS_Bijection
<1>. QED  BY <1>6, <1>7 DEF n

LEMMA AppendRising ==
  ASSUME NEW q \in Seq(Event), Rising(q), NEW e \in Event, \A i \in Ids(q) : i < e.id
  PROVE  Rising(Append(q, e))
<1> DEFINE r == Append(q, e)
<1>1. Len(r) = Len(q) + 1 /\ (\A i \in 1..Len(q) : r[i] = q[i]) /\ r[Len(q) + 1] = e /\ Len(q) \in Nat
  OBVIOUS
<1>2. \A i \in 1..Len(q) : q[i].id \in Ids(q)
  BY DEF Ids, ToSet
<1>. HIDE DEF r
<1>3. ASSUME NEW i \in 1..Len(r), NEW j \in 1..Len(r), i < j PROVE r[i].id < r[j].id
  <2>1. i \in 1..Len(q) /\ r[i] = q[i]
    BY <1>1, <1>3
  <2>2. CASE j = Len(q) + 1
    BY <1>1, <1>2, <2>1, <2>2
  <2>3. CASE j # Len(q) + 1
    <3>1. j \in 1..Len(q) /\ r[j] = q[j]
      BY <1>1, <2>3
    <3>. QED  BY <1>3, <2>1, <3>1 DEF Rising
  <2>. QED  BY <2>2, <2>3
<1>. QED  BY <1>3 DEF Rising, r

\* What is left of a queue after the first n, however many it has.
LEMMA WithoutIs ==
  ASSUME NEW q \in Seq(Event), NEW n \in Nat, NEW r, r = Without(q, n)
  PROVE  /\ r \in Seq(Event) /\ Len(r) <= Len(q) /\ Len(r) \in Nat
         /\ \A i \in 1..Len(r) : i + n \in 1..Len(q) /\ r[i] = q[i + n]
         /\ \A i \in 1..Len(q) : i > n => i - n \in 1..Len(r)
<1>1. Len(q) \in Nat /\ \A i \in 1..Len(q) : q[i] \in Event
  OBVIOUS
<1>2. r = [i \in 1..(Len(q) - n) |-> q[i + n]]
  BY <1>1 DEF Without
<1>3. CASE n <= Len(q)
  <2>1. r \in Seq(Event) /\ Len(r) = Len(q) - n
    BY <1>1, <1>2, <1>3
  <2>. QED  BY <1>1, <1>2, <1>3, <2>1
<1>4. CASE n > Len(q)
  <2>1. r = <<>>
    BY <1>1, <1>2, <1>4
  <2>. QED  BY <1>1, <1>4, <2>1
<1>. QED  BY <1>1, <1>3, <1>4
-----------------------------------------------------------------------------
(* What is done to a device *)

LEMMA DeviceParts ==
  ASSUME NEW d \in DeviceType
  PROVE  /\ d.nextId \in Nat \ {0} /\ d.queue \in Seq(Event) /\ d.dropped \in Nat
         /\ d.seen \in SUBSET Commands /\ Len(d.queue) \in Nat /\ Len(d.queue) <= Capacity
         /\ d = [nextId |-> d.nextId, queue |-> d.queue, dropped |-> d.dropped, seen |-> d.seen]
BY DEF DeviceType

LEMMA LostFinite ==
  ASSUME NEW d \in DeviceType, NEW fl, NEW b, NEW l
  PROVE  IsFiniteSet(Lost(d, fl, b, l)) /\ Cardinality(Lost(d, fl, b, l)) \in Nat
<1>1. IsFiniteSet(1..(d.nextId - 1))
  <2>1. d.nextId - 1 \in Int
    BY DeviceParts
  <2>. QED  BY <2>1, FS_Interval
<1>2. Lost(d, fl, b, l) \subseteq 1..(d.nextId - 1)
  BY DEF Lost
<1>3. IsFiniteSet(Lost(d, fl, b, l))
  BY <1>1, <1>2, FS_Subset
<1>. QED  BY <1>3, FS_CardinalityType

\* The two sets that are counted are finite.
LEMMA PartsFinite ==
  ASSUME NEW d \in DeviceType, NEW fl, NEW b, NEW l, NEW S \in SUBSET (1..(d.nextId - 1))
  PROVE  /\ IsFiniteSet(Lost(d, fl, b, l) \ S) /\ Cardinality(Lost(d, fl, b, l) \ S) \in Nat
         /\ IsFiniteSet(S \ Ids(d.queue)) /\ Cardinality(S \ Ids(d.queue)) \in Nat
         /\ IsFiniteSet(S)
<1>1. IsFiniteSet(1..(d.nextId - 1))
  <2>1. d.nextId - 1 \in Int
    BY DeviceParts
  <2>. QED  BY <2>1, FS_Interval
<1>2. Lost(d, fl, b, l) \ S \subseteq 1..(d.nextId - 1) /\ S \ Ids(d.queue) \subseteq 1..(d.nextId - 1)
  BY DEF Lost
<1>3. IsFiniteSet(Lost(d, fl, b, l) \ S) /\ IsFiniteSet(S \ Ids(d.queue)) /\ IsFiniteSet(S)
  BY <1>1, <1>2, FS_Subset
<1>. QED  BY <1>3, FS_CardinalityType

Queued(d, c) == [id |-> d.nextId, ack |-> c]
Longer(d, c) == Append(d.queue, Queued(d, c))

\* The device r is d with one event more, but for the first of them if it counts it.
Gains(r, d, e, longer) ==
  /\ r \in DeviceType /\ r.nextId = d.nextId + 1 /\ r.seen = d.seen
  /\ e \in Event /\ longer \in Seq(Event) /\ Len(longer) # 0
  /\ \/ r.queue = longer /\ r.dropped = d.dropped
     \/ r.queue = Tail(longer) /\ r.dropped = d.dropped + 1

\* enqueue: an event more, and if that is one too many the first goes and counts.
LEMMA EnqueueEffect ==
  ASSUME NEW d \in DeviceType, NEW c \in Commands \cup {NoCommand},
         NEW r, r = Enqueue(d, c), NEW e, e = Queued(d, c), NEW longer, longer = Longer(d, c)
  PROVE  Gains(r, d, e, longer)
<1> DEFINE full == Len(longer) > Capacity
           kept == IF full THEN Tail(longer) ELSE longer
           more == d.dropped + IF full THEN 1 ELSE 0
<1>1. /\ d.nextId \in Nat \ {0} /\ d.queue \in Seq(Event) /\ d.dropped \in Nat
      /\ d.seen \in SUBSET Commands /\ Len(d.queue) \in Nat /\ Len(d.queue) <= Capacity
      /\ d = [nextId |-> d.nextId, queue |-> d.queue, dropped |-> d.dropped, seen |-> d.seen]
  BY DeviceParts
<1>2. e \in Event
  BY <1>1 DEF Event, Queued
<1>3. longer \in Seq(Event) /\ Len(longer) = Len(d.queue) + 1
  BY <1>1, <1>2 DEF Longer
<1>4. kept \in Seq(Event) /\ Len(kept) <= Capacity
  <2>1. CASE full
    <3>1. Tail(longer) \in Seq(Event) /\ Len(Tail(longer)) = Len(longer) - 1
      BY <1>1, <1>3
    <3>. QED  BY <1>1, <1>3, <2>1, <3>1, SimulatorAssumption
  <2>2. CASE ~full
    BY <1>1, <1>3, <2>2, SimulatorAssumption
  <2>. QED  BY <2>1, <2>2
<1>5. r = [d EXCEPT !.nextId = @ + 1, !.queue = kept, !.dropped = more]
  BY DEF Enqueue, Longer, Queued
<1>6. more \in Nat /\ (full => more = d.dropped + 1) /\ (~full => more = d.dropped)
  BY <1>1
<1>7. (full => kept = Tail(longer)) /\ (~full => kept = longer)
  OBVIOUS
<1>. HIDE DEF kept, more, full
<1>8. /\ r.nextId = d.nextId + 1 /\ r.queue = kept /\ r.dropped = more /\ r.seen = d.seen
      /\ r = [nextId |-> d.nextId + 1, queue |-> kept, dropped |-> more, seen |-> d.seen]
  BY <1>1, <1>5
<1>9. r \in DeviceType
  BY <1>1, <1>4, <1>6, <1>8 DEF DeviceType
<1>. QED  BY <1>1, <1>2, <1>3, <1>6, <1>7, <1>8, <1>9 DEF Gains

\* What is sound stays so when another event is queued.
LEMMA EnqueueKeeps ==
  ASSUME NEW d \in DeviceType, NEW c \in Commands \cup {NoCommand},
         NEW S, NEW fl, NEW b, NEW l, Sound(d, S, fl, b, l)
  PROVE  Enqueue(d, c) \in DeviceType /\ Sound(Enqueue(d, c), S, fl, b, l)
<1> DEFINE r == Enqueue(d, c)
           e == Queued(d, c)
           longer == Longer(d, c)
           n == d.nextId
<1>0. r = Enqueue(d, c) /\ e = Queued(d, c) /\ longer = Longer(d, c)
  OBVIOUS
<1>00. longer = Append(d.queue, e) /\ e.id = n
  BY DEF Longer, Queued
<1>. HIDE DEF r, e, longer
<1>1. /\ r \in DeviceType /\ r.nextId = d.nextId + 1 /\ r.seen = d.seen
      /\ e \in Event /\ longer \in Seq(Event) /\ Len(longer) # 0
      /\ \/ r.queue = longer /\ r.dropped = d.dropped
         \/ r.queue = Tail(longer) /\ r.dropped = d.dropped + 1
  <2>1. Gains(r, d, e, longer)
    BY <1>0, EnqueueEffect
  <2>. QED  BY <2>1 DEF Gains
<1>2. n \in Nat \ {0} /\ d.queue \in Seq(Event) /\ d.dropped \in Nat
  BY DeviceParts
<1>3. /\ Rising(d.queue) /\ Ids(d.queue) \subseteq 1..(n - 1) /\ S \subseteq 1..(n - 1)
      /\ fl \subseteq 1..(n - 1) /\ Ids(d.queue) \cap fl = {}
      /\ \A w \in Ids(d.queue) \ S, s \in S : s < w
      /\ Counted(d, S, fl, b, l)
  BY DEF Sound
<1>4. Rising(longer)
  <2>1. \A i \in Ids(d.queue) : i < e.id
    BY <1>00, <1>2, <1>3
  <2>. QED  BY <1>00, <1>1, <1>2, <1>3, <2>1, AppendRising
<1>5. Ids(longer) = Ids(d.queue) \cup {n}
  <2>1. ToSet(longer) = ToSet(d.queue) \cup {e}
    BY <1>00, <1>1, <1>2, AppendedSet
  <2>. QED  BY <1>00, <2>1 DEF Ids
<1>7. /\ IsFiniteSet(Lost(d, fl, b, l) \ S) /\ Cardinality(Lost(d, fl, b, l) \ S) \in Nat
      /\ IsFiniteSet(S \ Ids(d.queue)) /\ Cardinality(S \ Ids(d.queue)) \in Nat
  <2>1. S \in SUBSET (1..(d.nextId - 1))
    BY <1>3
  <2>. QED  BY <2>1, PartsFinite
<1>8. Rising(r.queue) /\ Ids(r.queue) \subseteq Ids(longer)
  <2>1. CASE r.queue = longer
    BY <1>4, <2>1
  <2>2. CASE r.queue = Tail(longer)
    <3>1. /\ Len(Tail(longer)) = Len(longer) - 1 /\ Len(longer) \in Nat \ {0}
          /\ \A i \in 1..(Len(longer) - 1) : Tail(longer)[i] = longer[i + 1]
      BY <1>1
    <3>2. Rising(Tail(longer))
      BY <1>4, <3>1 DEF Rising
    <3>3. ToSet(Tail(longer)) \subseteq ToSet(longer)
      BY <1>1, TailSet
    <3>. QED  BY <2>2, <3>2, <3>3 DEF Ids
  <2>. QED  BY <1>1, <2>1, <2>2
<1>9. Counted(r, S, fl, b, l)
  <2>1. CASE r.queue = longer /\ r.dropped = d.dropped
    <3>1. Lost(r, fl, b, l) \subseteq Lost(d, fl, b, l)
      BY <1>1, <1>2, <1>5, <2>1 DEF Lost
    <3>2. Lost(r, fl, b, l) \ S \subseteq Lost(d, fl, b, l) \ S /\ S \ Ids(r.queue) \subseteq S \ Ids(d.queue)
      BY <1>5, <2>1, <3>1
    <3>3. /\ Cardinality(Lost(r, fl, b, l) \ S) <= Cardinality(Lost(d, fl, b, l) \ S)
          /\ Cardinality(S \ Ids(r.queue)) <= Cardinality(S \ Ids(d.queue))
          /\ IsFiniteSet(Lost(r, fl, b, l) \ S) /\ IsFiniteSet(S \ Ids(r.queue))
      BY <1>7, <3>2, FS_Subset
    <3>4. Cardinality(Lost(r, fl, b, l) \ S) \in Nat /\ Cardinality(S \ Ids(r.queue)) \in Nat
      BY <3>3, FS_CardinalityType
    <3>. QED  BY <1>2, <1>3, <1>7, <2>1, <3>3, <3>4 DEF Counted
  <2>2. CASE r.queue = Tail(longer) /\ r.dropped = d.dropped + 1
    <3> DEFINE h == longer[1].id
    <3>1. ToSet(longer) \subseteq ToSet(Tail(longer)) \cup {longer[1]}
      BY <1>1, TailSet
    <3>2. Ids(longer) \subseteq Ids(r.queue) \cup {h}
      BY <2>2, <3>1 DEF Ids
    <3>. HIDE DEF h
    <3>3. Lost(r, fl, b, l) \subseteq Lost(d, fl, b, l) \cup {h}
      BY <1>1, <1>2, <1>5, <3>2 DEF Lost
    <3>4. S \ Ids(r.queue) \subseteq (S \ Ids(d.queue)) \cup {h}
      BY <1>5, <3>2
    <3>5. CASE h \in S
      <4>1. Lost(r, fl, b, l) \ S \subseteq Lost(d, fl, b, l) \ S
        BY <3>3, <3>5
      <4>2. /\ Cardinality(Lost(r, fl, b, l) \ S) <= Cardinality(Lost(d, fl, b, l) \ S)
            /\ IsFiniteSet(Lost(r, fl, b, l) \ S)
        BY <1>7, <4>1, FS_Subset
      <4>3. IsFiniteSet(S \ Ids(r.queue)) /\ Cardinality(S \ Ids(r.queue)) <= Cardinality(S \ Ids(d.queue)) + 1
        BY <1>7, <3>4, OneMore
      <4>4. Cardinality(Lost(r, fl, b, l) \ S) \in Nat /\ Cardinality(S \ Ids(r.queue)) \in Nat
        BY <4>2, <4>3, FS_CardinalityType
      <4>. QED  BY <1>2, <1>3, <1>7, <2>2, <4>2, <4>3, <4>4 DEF Counted
    <3>6. CASE h \notin S
      <4>1. S \ Ids(r.queue) \subseteq S \ Ids(d.queue)
        BY <3>4, <3>6
      <4>2. /\ Cardinality(S \ Ids(r.queue)) <= Cardinality(S \ Ids(d.queue))
            /\ IsFiniteSet(S \ Ids(r.queue))
        BY <1>7, <4>1, FS_Subset
      <4>3. /\ IsFiniteSet(Lost(r, fl, b, l) \ S)
            /\ Cardinality(Lost(r, fl, b, l) \ S) <= Cardinality(Lost(d, fl, b, l) \ S) + 1
        <5>1. Lost(r, fl, b, l) \ S \subseteq (Lost(d, fl, b, l) \ S) \cup {h}
          BY <3>3
        <5>. QED  BY <1>7, <5>1, OneMore
      <4>4. Cardinality(Lost(r, fl, b, l) \ S) \in Nat /\ Cardinality(S \ Ids(r.queue)) \in Nat
        BY <4>2, <4>3, FS_CardinalityType
      <4>. QED  BY <1>2, <1>3, <1>7, <2>2, <4>2, <4>3, <4>4 DEF Counted
    <3>. QED  BY <3>5, <3>6
  <2>. QED  BY <1>1, <2>1, <2>2
<1>10. Ids(r.queue) \cup S \cup fl \subseteq 1..(r.nextId - 1)
  <2>1. n - 1 < n /\ r.nextId - 1 = n
    BY <1>1, <1>2
  <2>2. 1..(n - 1) \subseteq 1..n /\ n \in 1..n
    BY <1>2
  <2>3. Ids(r.queue) \cup S \cup fl \subseteq 1..n
    <3>. HIDE DEF n
    <3>. QED  BY <1>3, <1>5, <1>8, <2>2
  <2>. QED  BY <2>1, <2>3
<1>11. Ids(r.queue) \cap fl = {}
  BY <1>2, <1>3, <1>5, <1>8
<1>12. \A w \in Ids(r.queue) \ S, s \in S : s < w
  BY <1>2, <1>3, <1>5, <1>8
<1>13. r \in DeviceType /\ Sound(r, S, fl, b, l)
  BY <1>1, <1>8, <1>9, <1>10, <1>11, <1>12 DEF Sound
<1>. QED  BY <1>13 DEF r

LEMMA EnqueueTyped ==
  ASSUME NEW d \in DeviceType, NEW c \in Commands \cup {NoCommand}
  PROVE  Enqueue(d, c) \in DeviceType
<1> DEFINE r == Enqueue(d, c)
           e == Queued(d, c)
           longer == Longer(d, c)
<1>1. r = Enqueue(d, c) /\ e = Queued(d, c) /\ longer = Longer(d, c)
  OBVIOUS
<1>. HIDE DEF r, e, longer
<1>2. Gains(r, d, e, longer)
  BY <1>1, EnqueueEffect
<1>. QED  BY <1>1, <1>2 DEF Gains

\* Remembering a command changes nothing else.
LEMMA SeenKeeps ==
  ASSUME NEW d \in DeviceType, NEW c \in Commands, NEW r, r = [d EXCEPT !.seen = @ \cup {c}]
  PROVE  r \in DeviceType /\ \A S, fl, b, l : Sound(d, S, fl, b, l) => Sound(r, S, fl, b, l)
<1>1. /\ d.nextId \in Nat \ {0} /\ d.queue \in Seq(Event) /\ d.dropped \in Nat
      /\ d.seen \in SUBSET Commands /\ Len(d.queue) \in Nat /\ Len(d.queue) <= Capacity
      /\ d = [nextId |-> d.nextId, queue |-> d.queue, dropped |-> d.dropped, seen |-> d.seen]
  BY DeviceParts
<1>2. /\ r.nextId = d.nextId /\ r.queue = d.queue /\ r.dropped = d.dropped
      /\ r = [nextId |-> d.nextId, queue |-> d.queue, dropped |-> d.dropped, seen |-> d.seen \cup {c}]
  BY <1>1
<1>3. r \in DeviceType
  BY <1>1, <1>2 DEF DeviceType
<1>4. \A fl, b, l : Lost(r, fl, b, l) = Lost(d, fl, b, l)
  BY <1>2 DEF Lost
<1>5. \A S, fl, b, l : Sound(d, S, fl, b, l) => Sound(r, S, fl, b, l)
  BY <1>2, <1>4 DEF Sound, Counted
<1>. QED  BY <1>3, <1>5

\* _handle_commands keeps a device well-formed and sound.
LEMMA DispatchKeeps ==
  ASSUME NEW d \in DeviceType, NEW c \in Commands
  PROVE  /\ Dispatch(d, c) \in DeviceType
         /\ \A S, fl, b, l : Sound(d, S, fl, b, l) => Sound(Dispatch(d, c), S, fl, b, l)
<1> DEFINE e == IF c \in Ending THEN Enqueue(d, NoCommand) ELSE d
           a == [e EXCEPT !.seen = @ \cup {c}]
           f == IF Known(d, c) THEN d ELSE a
<1>1. /\ e \in DeviceType
      /\ \A S, fl, b, l : Sound(d, S, fl, b, l) => Sound(e, S, fl, b, l)
  <2>1. Enqueue(d, NoCommand) \in DeviceType
    BY EnqueueTyped
  <2>2. \A S, fl, b, l : Sound(d, S, fl, b, l) => Sound(Enqueue(d, NoCommand), S, fl, b, l)
    BY EnqueueKeeps
  <2>. QED  BY <2>1, <2>2
<1>2. f = IF Known(d, c) THEN d ELSE a
  OBVIOUS
<1>3. a = [e EXCEPT !.seen = @ \cup {c}]
  OBVIOUS
<1>4. Dispatch(d, c) = Enqueue(f, c)
  BY DEF Dispatch, Apply
<1>. HIDE DEF e, a, f
<1>5. a \in DeviceType /\ \A S, fl, b, l : Sound(e, S, fl, b, l) => Sound(a, S, fl, b, l)
  BY <1>1, <1>3, SeenKeeps
<1>6. f \in DeviceType /\ \A S, fl, b, l : Sound(d, S, fl, b, l) => Sound(f, S, fl, b, l)
  <2>1. CASE Known(d, c)
    BY <1>2, <2>1
  <2>2. CASE ~Known(d, c)
    BY <1>1, <1>2, <1>5, <2>2
  <2>. QED  BY <2>1, <2>2
<1>7. Enqueue(f, c) \in DeviceType
  BY <1>6, EnqueueTyped
<1>8. \A S, fl, b, l : Sound(f, S, fl, b, l) => Sound(Enqueue(f, c), S, fl, b, l)
  BY <1>6, EnqueueKeeps
<1>. QED  BY <1>4, <1>6, <1>7, <1>8

LEMMA CommandsKeep ==
  ASSUME NEW d \in DeviceType, NEW commands \in Seq(Commands)
  PROVE  /\ FoldLeft(Dispatch, d, commands) \in DeviceType
         /\ \A S, fl, b, l : Sound(d, S, fl, b, l) => Sound(FoldLeft(Dispatch, d, commands), S, fl, b, l)
<1> DEFINE n == Len(commands)
<1>1. n \in Nat /\ DOMAIN commands = 1..n
  OBVIOUS
<1>2. \A i \in 1..n : commands[i] \in Commands
  OBVIOUS
<1>. HIDE DEF n
<1>3. FoldLeft(Dispatch, d, commands) \in DeviceType
  <2>1. \A e \in DeviceType, i \in 1..n : Dispatch(e, commands[i]) \in DeviceType
    BY <1>2, DispatchKeeps
  <2>. QED  BY <1>1, <2>1, DispatchAll
<1>4. ASSUME NEW S, NEW fl, NEW b, NEW l, Sound(d, S, fl, b, l)
      PROVE  Sound(FoldLeft(Dispatch, d, commands), S, fl, b, l)
  <2> DEFINE D == {e \in DeviceType : Sound(e, S, fl, b, l)}
  <2>1. d \in D
    BY <1>4
  <2>2. \A e \in D, i \in 1..n : Dispatch(e, commands[i]) \in D
    BY <1>2, DispatchKeeps
  <2>3. FoldLeft(Dispatch, d, commands) \in D
    <3>. HIDE DEF D
    <3>. QED  BY <1>1, <2>1, <2>2, DispatchAll
  <2>. QED  BY <2>3
<1>. QED  BY <1>3, <1>4

\* A flight ends and its batch stays: what was sent and is not queued is lost at worst.
LEMMA EndKeeps ==
  ASSUME NEW d \in DeviceType, NEW S, NEW fl, NEW b, NEW l, Sound(d, S, fl, b, l)
  PROVE  Sound(d, {}, fl, b, l)
<1>1. S \in SUBSET (1..(d.nextId - 1))
  BY DEF Sound
<1>2. /\ IsFiniteSet(Lost(d, fl, b, l) \ S) /\ Cardinality(Lost(d, fl, b, l) \ S) \in Nat
      /\ IsFiniteSet(S \ Ids(d.queue)) /\ Cardinality(S \ Ids(d.queue)) \in Nat
  BY <1>1, PartsFinite
<1>3. Lost(d, fl, b, l) \subseteq (Lost(d, fl, b, l) \ S) \cup (S \ Ids(d.queue))
  BY DEF Lost
<1> DEFINE T == Lost(d, fl, b, l)
           A == T \ S
           B == S \ Ids(d.queue)
<1>4. IsFiniteSet(A) /\ IsFiniteSet(B) /\ T \subseteq A \cup B /\ Cardinality(A) + Cardinality(B) <= d.dropped
  BY <1>2, <1>3 DEF Sound, Counted
<1>5. Cardinality(A) \in Nat /\ Cardinality(B) \in Nat /\ d.dropped \in Nat
  BY <1>2, DeviceParts
<1>. HIDE DEF A, B
<1>6. Cardinality(T) \in Nat /\ Cardinality(T) <= Cardinality(A) + Cardinality(B)
  BY <1>4, NoMoreThan
<1>7. Cardinality(T) <= d.dropped
  BY <1>4, <1>5, <1>6
<1>8. T \ {} = T /\ {} \ Ids(d.queue) = {} /\ Cardinality({}) = 0
  BY FS_EmptySet
<1>9. Counted(d, {}, fl, b, l)
  BY <1>6, <1>7, <1>8 DEF Counted
<1>. QED  BY <1>9 DEF Sound

\* A flight begins, with all that is queued.
LEMMA PostKeeps ==
  ASSUME NEW d \in DeviceType, NEW fl, NEW b, NEW l, Sound(d, {}, fl, b, l)
  PROVE  Sound(d, Ids(d.queue), fl, b, l) /\ Ids(d.queue) \cap fl = {}
<1> DEFINE S == Ids(d.queue)
<1>1. Lost(d, fl, b, l) \ S = Lost(d, fl, b, l) \ {} /\ S \ Ids(d.queue) = {} \ S
  BY DEF Lost
<1>2. Counted(d, S, fl, b, l)
  BY <1>1 DEF Sound, Counted
<1>. QED  BY <1>2 DEF Sound

\* The server gets events.
LEMMA LogKeeps ==
  ASSUME NEW d \in DeviceType, NEW S, NEW fl, NEW b, NEW l, NEW m, Sound(d, S, fl, b, l), l \subseteq m
  PROVE  Sound(d, S, fl, b, m)
<1>1. S \in SUBSET (1..(d.nextId - 1))
  BY DEF Sound
<1>2. /\ IsFiniteSet(Lost(d, fl, b, l) \ S) /\ Cardinality(Lost(d, fl, b, l) \ S) \in Nat
      /\ Cardinality(S \ Ids(d.queue)) \in Nat /\ Cardinality(Lost(d, fl, b, m) \ S) \in Nat
  BY <1>1, PartsFinite
<1>3. Lost(d, fl, b, m) \ S \subseteq Lost(d, fl, b, l) \ S
  BY DEF Lost
<1>4. Cardinality(Lost(d, fl, b, m) \ S) <= Cardinality(Lost(d, fl, b, l) \ S)
  BY <1>2, <1>3, FS_Subset
<1>5. Counted(d, S, fl, b, m)
  BY <1>2, <1>4, DeviceParts DEF Sound, Counted
<1>. QED  BY <1>5 DEF Sound

\* An update takes an id of its own.
LEMMA UpdateKeeps ==
  ASSUME NEW d \in DeviceType, NEW S, NEW fl, NEW b, NEW l, Sound(d, S, fl, b, l),
         NEW r, r = [d EXCEPT !.nextId = @ + 1]
  PROVE  r \in DeviceType /\ Sound(r, S, fl \cup {d.nextId}, b, l)
<1>1. /\ d.nextId \in Nat \ {0} /\ d.queue \in Seq(Event) /\ d.dropped \in Nat
      /\ d.seen \in SUBSET Commands /\ Len(d.queue) \in Nat /\ Len(d.queue) <= Capacity
      /\ d = [nextId |-> d.nextId, queue |-> d.queue, dropped |-> d.dropped, seen |-> d.seen]
  BY DeviceParts
<1>2. /\ r.nextId = d.nextId + 1 /\ r.queue = d.queue /\ r.dropped = d.dropped
      /\ r = [nextId |-> d.nextId + 1, queue |-> d.queue, dropped |-> d.dropped, seen |-> d.seen]
  BY <1>1
<1>3. r \in DeviceType
  BY <1>1, <1>2 DEF DeviceType
<1>4. Lost(r, fl \cup {d.nextId}, b, l) = Lost(d, fl, b, l)
  BY <1>1, <1>2 DEF Sound, Lost
<1>5. Counted(r, S, fl \cup {d.nextId}, b, l)
  BY <1>2, <1>4 DEF Sound, Counted
<1>6. Ids(r.queue) \cup S \cup (fl \cup {d.nextId}) \subseteq 1..(r.nextId - 1)
  <2>1. r.nextId - 1 = d.nextId /\ 1..(d.nextId - 1) \subseteq 1..d.nextId /\ d.nextId \in 1..d.nextId
    BY <1>1, <1>2
  <2>2. Ids(d.queue) \cup S \cup fl \subseteq 1..(d.nextId - 1)
    BY DEF Sound
  <2>. QED  BY <1>2, <2>1, <2>2
<1>7. Ids(r.queue) \cap (fl \cup {d.nextId}) = {}
  <2>1. d.nextId \notin Ids(d.queue)
    BY <1>1 DEF Sound
  <2>. QED  BY <1>2, <2>1 DEF Sound
<1>. QED  BY <1>2, <1>3, <1>5, <1>6, <1>7 DEF Sound

-----------------------------------------------------------------------------
(* The deletion by position *)

\* The device after del queue[:n] and k events dropped
Cut(d, n, k) == [nextId |-> d.nextId, queue |-> Without(d.queue, n), dropped |-> d.dropped + k, seen |-> d.seen]

LEMMA CutIs ==
  ASSUME NEW d \in DeviceType, NEW n, NEW r, r = [d EXCEPT !.queue = Without(@, n), !.dropped = @ + n]
  PROVE  r = Cut(d, n, n)
<1> DEFINE q == Without(d.queue, n)
           more == d.dropped + n
<1>1. /\ r = [d EXCEPT !.queue = q, !.dropped = more]
      /\ Cut(d, n, n) = [nextId |-> d.nextId, queue |-> q, dropped |-> more, seen |-> d.seen]
  BY DEF Cut
<1>2. d = [nextId |-> d.nextId, queue |-> d.queue, dropped |-> d.dropped, seen |-> d.seen]
  BY DeviceParts
<1>. HIDE DEF q, more
<1>3. r = [nextId |-> d.nextId, queue |-> q, dropped |-> more, seen |-> d.seen]
  BY <1>1, <1>2
<1>. QED  BY <1>1, <1>3

\* The ids that the deletion takes
Deleted(d, n) == {d.queue[i].id : i \in {j \in 1..Len(d.queue) : j <= n}}

LEMMA CutTyped ==
  ASSUME NEW d \in DeviceType, NEW n \in Nat, NEW k \in Nat
  PROVE  Cut(d, n, k) \in DeviceType
<1> DEFINE q == Without(d.queue, n)
           more == d.dropped + k
<1>1. q = Without(d.queue, n) /\ more \in Nat
  BY DeviceParts
<1>2. Cut(d, n, k) = [nextId |-> d.nextId, queue |-> q, dropped |-> more, seen |-> d.seen]
  BY DEF Cut
<1>. HIDE DEF q, more
<1>3. q \in Seq(Event) /\ Len(q) <= Len(d.queue) /\ Len(q) \in Nat
  BY <1>1, DeviceParts, WithoutIs
<1>. QED  BY <1>1, <1>2, <1>3, DeviceParts, SimulatorAssumption DEF DeviceType

\* No more than n go, and those before one that goes go too.
LEMMA DeletedIs ==
  ASSUME NEW d \in DeviceType, NEW n \in Nat, Rising(d.queue),
         NEW q, q = Without(d.queue, n), NEW D, D = Deleted(d, n)
  PROVE  /\ Rising(q)
         /\ Ids(q) \subseteq Ids(d.queue) /\ Ids(d.queue) \subseteq D \cup Ids(q)
         /\ IsFiniteSet(D) /\ Cardinality(D) \in Nat /\ Cardinality(D) <= n
         /\ \A w \in D, s \in Ids(d.queue) : s < w => s \in D
<1>1. /\ q \in Seq(Event) /\ Len(q) <= Len(d.queue) /\ Len(q) \in Nat
      /\ \A i \in 1..Len(q) : i + n \in 1..Len(d.queue) /\ q[i] = d.queue[i + n]
      /\ \A i \in 1..Len(d.queue) : i > n => i - n \in 1..Len(q)
  <2> DEFINE p == d.queue
  <2>1. p \in Seq(Event) /\ q = Without(p, n)
    BY DeviceParts
  <2>. HIDE DEF p
  <2>2. /\ q \in Seq(Event) /\ Len(q) <= Len(p) /\ Len(q) \in Nat
        /\ \A i \in 1..Len(q) : i + n \in 1..Len(p) /\ q[i] = p[i + n]
        /\ \A i \in 1..Len(p) : i > n => i - n \in 1..Len(q)
    BY <2>1, WithoutIs
  <2>. QED  BY <2>2 DEF p
<1>2. /\ DOMAIN q = 1..Len(q) /\ DOMAIN d.queue = 1..Len(d.queue) /\ Len(d.queue) \in Nat
      /\ \A i \in 1..Len(d.queue) : d.queue[i] \in Event
  BY <1>1, DeviceParts
<1>3. /\ Ids(q) = {q[i].id : i \in 1..Len(q)}
      /\ Ids(d.queue) = {d.queue[i].id : i \in 1..Len(d.queue)}
  BY <1>2 DEF Ids, ToSet
<1>4. Rising(q)
  <2>1. SUFFICES ASSUME NEW i \in 1..Len(q), NEW j \in 1..Len(q), i < j PROVE q[i].id < q[j].id
    BY DEF Rising
  <2>2. i + n \in 1..Len(d.queue) /\ j + n \in 1..Len(d.queue) /\ i + n < j + n
    BY <1>1, <2>1
  <2>. QED  BY <1>1, <2>2 DEF Rising
<1>5. Ids(q) \subseteq Ids(d.queue)
  BY <1>1, <1>3
<1>6. Ids(d.queue) \subseteq D \cup Ids(q)
  <2>1. SUFFICES ASSUME NEW i \in 1..Len(d.queue) PROVE d.queue[i].id \in D \cup Ids(q)
    BY <1>3
  <2>2. CASE i <= n
    BY <2>2 DEF Deleted
  <2>3. CASE i > n
    <3>1. i - n \in 1..Len(q) /\ (i - n) + n = i
      BY <1>1, <2>3
    <3>2. q[i - n] = d.queue[i]
      BY <1>1, <3>1
    <3>. QED  BY <1>3, <3>1, <3>2
  <2>. QED  BY <2>2, <2>3
<1>7. IsFiniteSet(D) /\ Cardinality(D) \in Nat /\ Cardinality(D) <= n
  <2> DEFINE P == {j \in 1..Len(d.queue) : j <= n}
             f == [i \in P |-> d.queue[i].id]
  <2>1. f \in Surjection(P, D)
    BY DEF Surjection, Deleted
  <2>2. IsFiniteSet(1..n) /\ Cardinality(1..n) = n
    BY FS_Interval
  <2>3. P \subseteq 1..n
    OBVIOUS
  <2>. HIDE DEF P, f
  <2>4. IsFiniteSet(P) /\ Cardinality(P) <= n
    BY <2>2, <2>3, FS_Subset
  <2>5. IsFiniteSet(D) /\ Cardinality(D) <= Cardinality(P)
    BY <2>1, <2>4, FS_Surjection
  <2>. QED  BY <2>4, <2>5, FS_CardinalityType
<1>8. ASSUME NEW w \in D, NEW s \in Ids(d.queue), s < w PROVE s \in D
  <2>1. PICK i \in 1..Len(d.queue) : i <= n /\ w = d.queue[i].id
    BY DEF Deleted
  <2>2. PICK j \in 1..Len(d.queue) : s = d.queue[j].id
    BY <1>3
  <2>3. s \in Nat /\ w \in Nat
    BY <1>2, <2>1, <2>2 DEF Event
  <2>4. ~(i < j) /\ i # j
    BY <1>8, <2>1, <2>2, <2>3 DEF Rising
  <2>5. j <= n
    BY <2>1, <2>4
  <2>. QED  BY <2>2, <2>5 DEF Deleted
<1>. QED  BY <1>4, <1>5, <1>6, <1>7, <1>8

\* The shape of what is left
LEMMA CutKeeps ==
  ASSUME NEW d \in DeviceType, NEW S, NEW fl, NEW b, NEW l, Sound(d, S, fl, b, l),
         NEW n \in Nat, NEW k \in Nat, Cardinality(Lost(Cut(d, n, k), fl, b, l)) <= d.dropped + k
  PROVE  Sound(Cut(d, n, k), {}, fl, b, l)
<1> DEFINE r == Cut(d, n, k)
           q == Without(d.queue, n)
           D == Deleted(d, n)
<1>1. q = Without(d.queue, n) /\ D = Deleted(d, n) /\ r = Cut(d, n, k)
  OBVIOUS
<1>2. r.queue = q /\ r.nextId = d.nextId /\ r.dropped = d.dropped + k
  BY DEF Cut
<1>. HIDE DEF q, D, r
<1>3. Rising(d.queue)
  BY DEF Sound
<1>4. Rising(q) /\ Ids(q) \subseteq Ids(d.queue)
  BY <1>1, <1>3, DeletedIs
<1>5. /\ Ids(r.queue) \cup {} \cup fl \subseteq 1..(r.nextId - 1) /\ Ids(r.queue) \cap fl = {}
      /\ Rising(r.queue)
  BY <1>2, <1>4 DEF Sound
<1>6. Counted(r, {}, fl, b, l)
  <2>1. Cardinality(Lost(r, fl, b, l)) <= d.dropped + k
    BY <1>1
  <2>2. Lost(r, fl, b, l) \ {} = Lost(r, fl, b, l) /\ {} \ Ids(r.queue) = {} /\ Cardinality({}) = 0
    BY FS_EmptySet
  <2>3. Cardinality(Lost(r, fl, b, l)) \in Nat
    BY <1>1, CutTyped, LostFinite
  <2>. QED  BY <1>2, <2>1, <2>2, <2>3 DEF Counted
<1>7. Sound(r, {}, fl, b, l)
  BY <1>5, <1>6 DEF Sound
<1>. QED  BY <1>1, <1>7

\* A batch is rejected: as many as it had go and are counted.
LEMMA RejectedKeeps ==
  ASSUME NEW d \in DeviceType, NEW S, NEW fl, NEW b, NEW l, Sound(d, S, fl, b, l), NEW n \in Nat
  PROVE  Sound(Cut(d, n, n), {}, fl, b, l)
<1> DEFINE r == Cut(d, n, n)
           q == Without(d.queue, n)
           D == Deleted(d, n)
           T == Lost(d, fl, b, l)
<1>1. q = Without(d.queue, n) /\ D = Deleted(d, n)
  OBVIOUS
<1>2. r.queue = q /\ r.nextId = d.nextId
  BY DEF Cut
<1>3. Rising(d.queue)
  BY DEF Sound
<1>. HIDE DEF q, D
<1>4. /\ Ids(d.queue) \subseteq D \cup Ids(q)
      /\ IsFiniteSet(D) /\ Cardinality(D) \in Nat /\ Cardinality(D) <= n
  BY <1>1, <1>3, DeletedIs
<1>5. IsFiniteSet(T) /\ Cardinality(T) \in Nat
  BY LostFinite
<1>6. Lost(r, fl, b, l) \subseteq T \cup D
  <2>. HIDE DEF r
  <2>. QED  BY <1>2, <1>4 DEF Lost
<1>7. Cardinality(T) <= d.dropped
  <2>1. Counted(d, {}, fl, b, l)
    BY EndKeeps DEF Sound
  <2>2. T \ {} = T /\ {} \ Ids(d.queue) = {} /\ Cardinality({}) = 0
    BY FS_EmptySet
  <2>. HIDE DEF T
  <2>3. Lost(d, fl, b, l) = T
    BY DEF T
  <2>. QED  BY <1>5, <2>1, <2>2, <2>3 DEF Counted
<1> DEFINE L == Lost(r, fl, b, l)
<1>8. L \subseteq T \cup D
  BY <1>6
<1>. HIDE DEF L, T
<1>9. Cardinality(L) \in Nat /\ Cardinality(L) <= Cardinality(T) + Cardinality(D)
  BY <1>4, <1>5, <1>8, NoMoreThan
<1>10. Cardinality(L) <= d.dropped + n
  BY <1>4, <1>5, <1>7, <1>9, DeviceParts
<1>. QED  BY <1>10, CutKeeps DEF L

\* A batch is accepted, with S for its ids.  If one goes that was not sent, all those
\* sent go that are still queued: so no more go unsent than were sent and are not
\* queued any more.
LEMMA AcceptedKeeps ==
  ASSUME NEW d \in DeviceType, NEW S, NEW fl, NEW b, NEW l, Sound(d, S, fl, b, l),
         \A i \in S : <<b, i>> \in l,
         NEW n \in Nat, n = Cardinality(S)
  PROVE  Sound(Cut(d, n, 0), {}, fl, b, l)
<1> DEFINE r == Cut(d, n, 0)
           q == Without(d.queue, n)
           D == Deleted(d, n)
           A == Lost(d, fl, b, l) \ S
           B == S \ Ids(d.queue)
           L == Lost(r, fl, b, l)
<1>1. q = Without(d.queue, n) /\ D = Deleted(d, n)
  OBVIOUS
<1>2. r.queue = q /\ r.nextId = d.nextId
  BY DEF Cut
<1>3. Rising(d.queue) /\ S \in SUBSET (1..(d.nextId - 1))
  BY DEF Sound
<1>4. /\ IsFiniteSet(A) /\ Cardinality(A) \in Nat /\ IsFiniteSet(B) /\ Cardinality(B) \in Nat
      /\ IsFiniteSet(S)
  BY <1>3, PartsFinite
<1>5. Cardinality(A) + Cardinality(B) <= d.dropped
  BY DEF Sound, Counted
<1>6. L \subseteq A \cup (D \ S)
  <2>1. Ids(d.queue) \subseteq D \cup Ids(q)
    <3>. HIDE DEF q, D, r, L, A, B
    <3>. QED  BY <1>1, <1>3, DeletedIs
  <2>. HIDE DEF r, q, D
  <2>. QED  BY <1>2, <2>1 DEF Lost
<1>. HIDE DEF q, D, r, L, A
<1>7. /\ IsFiniteSet(D) /\ Cardinality(D) \in Nat /\ Cardinality(D) <= n
      /\ \A w \in D, s \in Ids(d.queue) : s < w => s \in D
      /\ D \subseteq Ids(d.queue)
  <2>1. D \subseteq Ids(d.queue)
    <3>1. DOMAIN d.queue = 1..Len(d.queue)
      BY DeviceParts
    <3>. QED  BY <1>1, <3>1 DEF Deleted, Ids, ToSet
  <2>. QED  BY <1>1, <1>3, <2>1, DeletedIs
<1>8. /\ IsFiniteSet(D \ S) /\ Cardinality(D \ S) \in Nat
      /\ IsFiniteSet(D \cap S) /\ Cardinality(D \cap S) \in Nat
      /\ Cardinality(D \ S) = Cardinality(D) - Cardinality(D \cap S)
  BY <1>7, FS_Difference, FS_Intersection, FS_CardinalityType
<1>9. Cardinality(D \ S) <= Cardinality(B)
  <2>1. CASE D \ S = {}
    BY <1>4, <2>1, FS_EmptySet
  <2>2. CASE D \ S # {}
    <3>1. PICK w \in D \ S : TRUE
      BY <2>2
    <3>2. \A s \in S : s < w
      BY <1>7, <3>1 DEF Sound
    <3>3. S \cap Ids(d.queue) \subseteq D \cap S
      BY <1>7, <3>1, <3>2
    <3>4. S \subseteq (D \cap S) \cup B
      BY <3>3
    <3>5. Cardinality(S) <= Cardinality(D \cap S) + Cardinality(B)
      <4>. HIDE DEF B
      <4>. QED  BY <1>4, <1>8, <3>4, NoMoreThan
    <3>. QED  BY <1>4, <1>7, <1>8, <3>5
  <2>. QED  BY <2>1, <2>2
<1>. HIDE DEF B
<1>10. Cardinality(L) \in Nat /\ Cardinality(L) <= Cardinality(A) + Cardinality(D \ S)
  BY <1>4, <1>6, <1>8, NoMoreThan
<1>11. Cardinality(L) <= d.dropped + 0
  BY <1>4, <1>5, <1>8, <1>9, <1>10, DeviceParts
<1>. QED  BY <1>11, CutKeeps DEF L, r

-----------------------------------------------------------------------------
(* The steps keep the invariant. *)

LEMMA DeviceFields ==
  /\ Device.nextId = nextId /\ Device.queue = queue /\ Device.dropped = dropped /\ Device.seen = seen
  /\ Device = [nextId |-> nextId, queue |-> queue, dropped |-> dropped, seen |-> seen]
BY DEF Device

LEMMA SetDeviceIs ==
  ASSUME NEW d \in DeviceType, SetDevice(d)
  PROVE  Device' = d /\ boot' = boot /\ fleeting' = fleeting /\ raced' = raced
<1>1. d = [nextId |-> d.nextId, queue |-> d.queue, dropped |-> d.dropped, seen |-> d.seen]
  BY DeviceParts
<1>. QED  BY <1>1 DEF SetDevice, Device

LEMMA IdleIs ==
  /\ NoBody \in Body /\ NoBody.boot = 0 /\ NoBody.update = NoUpdate
  /\ Idle \in Flights /\ Idle.body = NoBody /\ Idle.answer = "none"
  /\ Ids(Idle.body.sent) = {} /\ Len(Idle.body.sent) = 0
<1>1. <<>> \in Seq(Event) /\ <<>> \in Seq(Commands) /\ Len(<<>>) = 0
  OBVIOUS
<1>2. NoBody \in Body /\ NoBody.boot = 0 /\ NoBody.update = NoUpdate /\ NoBody.sent = <<>>
  BY <1>1 DEF NoBody, Body, NoUpdate
<1>3. Idle \in Flights /\ Idle.body = NoBody /\ Idle.answer = "none"
  BY <1>1, <1>2 DEF Idle, Flights, Answers
<1>4. Ids(<<>>) = {}
  BY DEF Ids, ToSet
<1>. QED  BY <1>1, <1>2, <1>3, <1>4

\* A boot begins with its status event, whatever the server has.
FirstEvent == [id |-> 1, ack |-> NoCommand]
Fresh == [nextId |-> 2, queue |-> <<FirstEvent>>, dropped |-> 0, seen |-> {}]

LEMMA FreshSound ==
  Fresh \in DeviceType /\ \A b, l : Sound(Fresh, {}, {}, b, l)
<1>1. /\ Fresh.nextId = 2 /\ Fresh.queue = <<FirstEvent>> /\ Fresh.dropped = 0 /\ Fresh.seen = {}
      /\ FirstEvent \in Event /\ FirstEvent.id = 1
  BY DEF Fresh, FirstEvent, Event
<1>2. <<FirstEvent>> \in Seq(Event) /\ Len(<<FirstEvent>>) = 1 /\ <<FirstEvent>>[1] = FirstEvent
  BY <1>1
<1>3. Fresh \in DeviceType
  <2> DEFINE q == <<FirstEvent>>
             none == {}
  <2>1. Fresh = [nextId |-> 2, queue |-> q, dropped |-> 0, seen |-> none]
    BY DEF Fresh
  <2>2. q \in Seq(Event) /\ Len(q) = 1 /\ none \in SUBSET Commands
    BY <1>2
  <2>. HIDE DEF q, none
  <2>3. Fresh \in [nextId : Nat \ {0}, queue : Seq(Event), dropped : Nat, seen : SUBSET Commands]
    BY <2>1, <2>2
  <2>4. Len(Fresh.queue) <= Capacity
    <3>1. 1 <= Capacity
      BY SimulatorAssumption
    <3>2. Fresh.queue = q
      BY <2>1
    <3>. QED  BY <2>2, <3>1, <3>2
  <2>. QED  BY <2>3, <2>4 DEF DeviceType
<1>4. ToSet(<<FirstEvent>>) = {FirstEvent}
  BY DEF ToSet
<1>5. Ids(Fresh.queue) = {1}
  BY <1>1, <1>4 DEF Ids
<1>6. Rising(Fresh.queue)
  BY <1>1, <1>2 DEF Rising
<1>7. ASSUME NEW b, NEW l PROVE Sound(Fresh, {}, {}, b, l)
  <2>1. Lost(Fresh, {}, b, l) = {}
    BY <1>1, <1>5 DEF Lost
  <2>2. Lost(Fresh, {}, b, l) \ {} = {} /\ {} \ Ids(Fresh.queue) = {} /\ Cardinality({}) = 0
    BY <2>1, FS_EmptySet
  <2>3. Counted(Fresh, {}, {}, b, l)
    BY <1>1, <2>2 DEF Counted
  <2>. QED  BY <1>1, <1>5, <1>6, <2>3 DEF Sound
<1>. QED  BY <1>3, <1>7

LEMMA InitIInv == Init => IInv
<1>. SUFFICES ASSUME Init PROVE IInv
  OBVIOUS
<1>1. Device = Fresh
  BY DEF Init, Device, Fresh, FirstEvent
<1>2. /\ flight = Idle /\ lastBody = NoBody /\ updates = <<>> /\ outstanding = {}
      /\ boot = 0 /\ paired \in BOOLEAN /\ log = {} /\ heard = {} /\ fleeting = {}
  BY DEF Init
<1>3. Types
  BY <1>1, <1>2, FreshSound, IdleIs, FS_EmptySet DEF Types
<1>4. NoFuture
  BY <1>2, IdleIs DEF NoFuture
<1>5. Sent = {} /\ Cardinality(Sent) = Len(flight.body.sent)
  BY <1>2, IdleIs, FS_EmptySet DEF Sent
<1>6. Sound(Device, Sent, fleeting, boot, log)
  BY <1>1, <1>2, <1>5, FreshSound
<1>7. ToSet(updates) \subseteq fleeting
  BY <1>2 DEF ToSet
<1>8. Steady
  BY <1>2, <1>5, <1>6, <1>7, IdleIs DEF Steady, Flying, Ours
<1>. QED  BY <1>3, <1>4, <1>8 DEF IInv

\* An event is queued, whoever made it.
LEMMA QueueKeeps ==
  ASSUME IInv, SetDevice(Enqueue(Device, NoCommand)), UNCHANGED <<link, server>>
  PROVE  IInv'
<1> DEFINE d == Enqueue(Device, NoCommand)
<1>1. d \in DeviceType /\ (\A S, fl, b, l : Sound(Device, S, fl, b, l) => Sound(d, S, fl, b, l))
  BY EnqueueTyped, EnqueueKeeps DEF IInv, Types
<1>2. SetDevice(d)
  OBVIOUS
<1>. HIDE DEF d
<1>3. Device' = d /\ boot' = boot /\ fleeting' = fleeting /\ raced' = raced
  BY <1>1, <1>2, SetDeviceIs
<1>4. /\ flight' = flight /\ lastBody' = lastBody /\ updates' = updates /\ paired' = paired
      /\ outstanding' = outstanding /\ log' = log /\ heard' = heard
  BY DEF link, server
<1>5. Types'
  BY <1>1, <1>3, <1>4 DEF IInv, Types
<1>6. NoFuture'
  BY <1>3, <1>4 DEF IInv, NoFuture
<1>7. ASSUME Steady PROVE Steady'
  <2>1. Sound(d, Sent, fleeting, boot, log)
    BY <1>1, <1>7 DEF Steady
  <2>2. Sent' = Sent
    BY <1>4 DEF Sent
  <2>. QED  BY <1>3, <1>4, <1>7, <2>1, <2>2 DEF Steady, Flying, Ours
<1>. QED  BY <1>3, <1>5, <1>6, <1>7 DEF IInv

\* What is posted is the queue, whole.
LEMMA PostsIs ==
  ASSUME IInv, NEW update \in Nat, Posts(update)
  PROVE  /\ flight' \in Flights /\ flight'.answer = "none"
         /\ flight'.body.boot = boot /\ flight'.body.sent = queue
         /\ flight'.body.update \in {update, NoUpdate}
<1>1. Device \in DeviceType /\ boot \in Nat /\ paired \in BOOLEAN
  BY DEF IInv, Types
<1>2. queue \in Seq(Event) /\ Len(queue) \in Nat /\ Len(queue) <= Capacity
  BY <1>1, DeviceParts, DeviceFields
<1>3. Snapshot = queue
  <2>1. SubSeq(queue, 1, Len(queue)) = queue
    BY <1>2
  <2>2. CASE Len(queue) < Capacity
    BY <2>1, <2>2 DEF Snapshot
  <2>3. CASE ~(Len(queue) < Capacity)
    <3>1. Len(queue) = Capacity
      BY <1>2, <2>3, SimulatorAssumption
    <3>. QED  BY <2>1, <2>3, <3>1 DEF Snapshot
  <2>. QED  BY <2>2, <2>3
<1> DEFINE u == IF Len(queue) < Capacity THEN update ELSE NoUpdate
           body == [boot |-> boot, sent |-> queue, update |-> u]
<1>4. u \in {update, NoUpdate} /\ u \in Nat
  BY DEF NoUpdate
<1>5. flight' = [Idle EXCEPT !.body = body, !.bearer = paired]
  BY <1>3 DEF Posts
<1>. HIDE DEF u
<1>6. body \in Body /\ body.boot = boot /\ body.sent = queue /\ body.update = u
  BY <1>1, <1>2, <1>4 DEF Body
<1>. HIDE DEF body
<1>7. flight' = [body |-> body, bearer |-> paired, answer |-> "none", commands |-> <<>>]
  BY <1>5 DEF Idle
<1>8. flight' \in Flights
  <2> DEFINE none == <<>>
  <2>1. none \in Seq(Commands)
    OBVIOUS
  <2>2. flight' = [body |-> body, bearer |-> paired, answer |-> "none", commands |-> none]
    BY <1>7
  <2>. HIDE DEF none
  <2>. QED  BY <1>1, <1>6, <2>1, <2>2 DEF Flights, Answers
<1>. QED  BY <1>4, <1>6, <1>7, <1>8

\* A flight begins.
LEMMA PostingKeeps ==
  ASSUME IInv, ~Flying, NEW update \in Nat, Posts(update),
         Device' \in DeviceType, queue' = queue, boot' = boot, raced' = raced, paired' = paired,
         lastBody' = lastBody, updates' \in Seq(Nat), UNCHANGED server,
         fleeting \subseteq fleeting',
         Steady => /\ ToSet(updates') \subseteq fleeting' /\ update \in fleeting' \cup {NoUpdate}
                   /\ Sound(Device', {}, fleeting', boot, log)
  PROVE  IInv'
<1>1. /\ flight' \in Flights /\ flight'.answer = "none"
      /\ flight'.body.boot = boot /\ flight'.body.sent = queue
      /\ flight'.body.update \in {update, NoUpdate}
  BY PostsIs
<1>2. outstanding' = outstanding /\ log' = log /\ heard' = heard
  BY DEF server
<1>3. Types'
  BY <1>1, <1>2 DEF IInv, Types
<1>4. NoFuture'
  BY <1>1, <1>2 DEF IInv, NoFuture, Types
<1>5. ASSUME Steady PROVE Steady'
  <2>1. Sent' = Ids(queue)
    BY <1>1 DEF Sent
  <2>2. Device'.queue = queue
    BY DeviceFields DEF Device
  <2>3. Sound(Device', {}, fleeting', boot, log)
    BY <1>5
  <2>4. Sound(Device', Sent', fleeting', boot, log) /\ Sent' \cap fleeting' = {}
    BY <2>1, <2>2, <2>3, PostKeeps
  <2>5. Cardinality(Sent') = Len(queue)
    <3>1. Rising(queue) /\ queue \in Seq(Event)
      BY <2>2, <2>3, DeviceParts DEF Sound
    <3>. QED  BY <2>1, <3>1, RisingCount
  <2>6. Ours(flight.body)' /\ Ours(lastBody)'
    BY <1>1, <1>5 DEF Steady, Ours
  <2>. QED  BY <1>1, <1>2, <1>5, <2>4, <2>5, <2>6 DEF Steady
<1>. QED  BY <1>3, <1>4, <1>5 DEF IInv

\* Between flights nothing is sent.
LEMMA IdleSound ==
  ASSUME IInv, ~Flying, Steady
  PROVE  Sound(Device, {}, fleeting, boot, log)
<1>1. Sent = {}
  BY IdleIs DEF Sent, Flying
<1>. QED  BY <1>1 DEF Steady

LEMMA SendKeeps == IInv /\ Send => IInv'
<1>. SUFFICES ASSUME IInv, Send PROVE IInv'
  OBVIOUS
<1>1. /\ ~Flying /\ Posts(NoUpdate) /\ Device' = Device /\ queue' = queue /\ boot' = boot /\ raced' = raced
      /\ paired' = paired /\ lastBody' = lastBody /\ updates' = updates /\ fleeting' = fleeting
      /\ UNCHANGED server /\ NoUpdate \in Nat
  BY DEF Send, buffer, Device, NoUpdate
<1>2. Device' \in DeviceType /\ updates' \in Seq(Nat)
  BY <1>1 DEF IInv, Types
<1>3. ASSUME Steady
      PROVE  /\ ToSet(updates') \subseteq fleeting' /\ NoUpdate \in fleeting' \cup {NoUpdate}
             /\ Sound(Device', {}, fleeting', boot, log)
  BY <1>1, <1>3, IdleSound DEF Steady
<1>. QED  BY <1>1, <1>2, <1>3, PostingKeeps

LEMMA SendUpdateKeeps == IInv /\ SendUpdate => IInv'
<1>. SUFFICES ASSUME IInv, SendUpdate PROVE IInv'
  OBVIOUS
<1>1. /\ ~Flying /\ updates # <<>> /\ updates' = Tail(updates)
      /\ Device' = Device /\ queue' = queue /\ boot' = boot /\ raced' = raced
      /\ paired' = paired /\ lastBody' = lastBody /\ fleeting' = fleeting /\ UNCHANGED server
  BY DEF SendUpdate, buffer, Device
<1>2. Device' \in DeviceType /\ updates \in Seq(Nat)
  BY <1>1 DEF IInv, Types
<1>3. /\ Tail(updates) \in Seq(Nat) /\ updates[1] \in Nat
      /\ ToSet(Tail(updates)) \subseteq ToSet(updates) /\ updates[1] \in ToSet(updates)
      /\ Head(updates) = updates[1]
  <2>1. Len(updates) # 0 /\ Len(updates) \in Nat /\ DOMAIN updates = 1..Len(updates)
    BY <1>1, <1>2
  <2>2. 1 \in DOMAIN updates
    BY <2>1
  <2>. QED  BY <1>2, <2>1, <2>2, TailSet DEF ToSet
<1>4. CASE Posts(Head(updates))
  <2> DEFINE u == Head(updates)
  <2>1. u \in Nat /\ Posts(u)
    BY <1>3, <1>4
  <2>2. ASSUME Steady
        PROVE  /\ ToSet(updates') \subseteq fleeting' /\ u \in fleeting' \cup {NoUpdate}
               /\ Sound(Device', {}, fleeting', boot, log)
    BY <1>1, <1>3, <2>2, IdleSound DEF Steady
  <2>3. updates' \in Seq(Nat)
    BY <1>1, <1>3
  <2>. HIDE DEF u
  <2>. QED  BY <1>1, <1>2, <2>1, <2>2, <2>3, PostingKeeps
<1>5. CASE UNCHANGED flight
  <2>1. outstanding' = outstanding /\ log' = log /\ heard' = heard
    BY <1>1 DEF server
  <2>2. Types'
    BY <1>1, <1>2, <1>3, <1>5, <2>1 DEF IInv, Types
  <2>3. NoFuture'
    BY <1>1, <1>5, <2>1 DEF IInv, NoFuture
  <2>4. ASSUME Steady PROVE Steady'
    <3>1. Sent' = Sent
      BY <1>5 DEF Sent
    <3>. QED  BY <1>1, <1>3, <1>5, <2>1, <2>4, <3>1 DEF Steady, Flying, Ours
  <2>. QED  BY <1>1, <2>2, <2>3, <2>4 DEF IInv
<1>. QED  BY <1>4, <1>5 DEF SendUpdate

LEMMA MakeUpdateKeeps == IInv /\ MakeUpdate => IInv'
<1>. SUFFICES ASSUME IInv, MakeUpdate PROVE IInv'
  OBVIOUS
<1> DEFINE d == [Device EXCEPT !.nextId = @ + 1]
<1>1. /\ nextId' = nextId + 1 /\ fleeting' = fleeting \cup {nextId}
      /\ boot' = boot /\ queue' = queue /\ dropped' = dropped /\ seen' = seen /\ raced' = raced
      /\ paired' = paired /\ lastBody' = lastBody /\ UNCHANGED server
  BY DEF MakeUpdate
<1>2. Device' = d
  BY <1>1 DEF Device
<1>3. d = [Device EXCEPT !.nextId = @ + 1] /\ Device \in DeviceType
  BY DEF IInv, Types
<1>. HIDE DEF d
<1>4. d \in DeviceType /\ \A S, b, l, fl : Sound(Device, S, fl, b, l) => Sound(d, S, fl \cup {nextId}, b, l)
  <2>1. ASSUME NEW S, NEW b, NEW l, NEW fl, Sound(Device, S, fl, b, l)
        PROVE  Sound(d, S, fl \cup {nextId}, b, l)
    BY <1>3, <2>1, UpdateKeeps, DeviceFields
  <2>2. d = [nextId |-> nextId + 1, queue |-> queue, dropped |-> dropped, seen |-> seen]
    BY <1>3 DEF Device
  <2>3. d \in DeviceType
    BY <1>3, <2>2, DeviceParts, DeviceFields DEF DeviceType
  <2>. QED  BY <2>1, <2>3
<1>5. nextId \in Nat /\ updates \in Seq(Nat) /\ ToSet(Append(updates, nextId)) = ToSet(updates) \cup {nextId}
      /\ Append(updates, nextId) \in Seq(Nat)
  <2>1. nextId \in Nat /\ updates \in Seq(Nat)
    BY <1>3, DeviceParts, DeviceFields DEF IInv, Types
  <2>. QED  BY <2>1, AppendedSet
<1>6. CASE ~Flying /\ updates = <<>> /\ Posts(nextId) /\ updates' = updates
  <2>1. ASSUME Steady
        PROVE  /\ ToSet(updates') \subseteq fleeting' /\ nextId \in fleeting' \cup {NoUpdate}
               /\ Sound(Device', {}, fleeting', boot, log)
    BY <1>1, <1>2, <1>4, <1>6, <2>1, IdleSound DEF Steady
  <2>2. Device' \in DeviceType /\ fleeting \subseteq fleeting' /\ updates' \in Seq(Nat)
    BY <1>1, <1>2, <1>4, <1>5, <1>6
  <2>. QED  BY <1>1, <1>5, <1>6, <2>1, <2>2, PostingKeeps
<1>7. CASE updates' = Append(updates, nextId) /\ UNCHANGED flight
  <2>1. outstanding' = outstanding /\ log' = log /\ heard' = heard
    BY <1>1 DEF server
  <2>2. Types'
    BY <1>1, <1>2, <1>4, <1>5, <1>7, <2>1 DEF IInv, Types
  <2>3. NoFuture'
    BY <1>1, <1>7, <2>1 DEF IInv, NoFuture
  <2>4. ASSUME Steady PROVE Steady'
    <3>1. Sent' = Sent
      BY <1>7 DEF Sent
    <3>2. Sound(d, Sent, fleeting \cup {nextId}, boot, log)
      BY <1>4, <2>4 DEF Steady
    <3>3. Sent \cap fleeting' = {}
      <4>1. nextId \notin Sent
        <5>1. Sent \subseteq 1..(nextId - 1)
          BY <2>4, DeviceFields DEF Steady, Sound
        <5>. QED  BY <1>5, <5>1
      <4>. QED  BY <1>1, <2>4, <4>1 DEF Steady
    <3>4. ToSet(updates') \subseteq fleeting'
      BY <1>1, <1>5, <1>7, <2>4 DEF Steady
    <3>. QED  BY <1>1, <1>2, <1>7, <2>1, <2>4, <3>1, <3>2, <3>3, <3>4 DEF Steady, Flying, Ours
  <2>. QED  BY <1>1, <2>2, <2>3, <2>4 DEF IInv
<1>. QED  BY <1>6, <1>7 DEF MakeUpdate

\* What the server makes of a body
LEMMA TakesIs ==
  ASSUME IInv, NEW body \in Body, ServerTakes(body)
  PROVE  /\ log' \subseteq Nat \X Nat /\ heard' \subseteq Nat \X Nat /\ log \subseteq log'
         /\ IsFiniteSet(outstanding') /\ outstanding' \subseteq Commands
         /\ \A p \in log' \cup heard' : p \in log \cup heard \/ p[1] = body.boot
         /\ \A p \in heard' : p \in heard \/ (p[1] = body.boot /\ p[2] = body.update /\ body.update # NoUpdate)
         /\ \A i \in Ids(body.sent) : <<body.boot, i>> \in log' \cup heard
<1> DEFINE fresh == {e \in ToSet(body.sent) : <<body.boot, e.id>> \notin heard}
           gained == {<<body.boot, e.id>> : e \in fresh}
           news == IF body.update = NoUpdate THEN {} ELSE {<<body.boot, body.update>>} \ log
<1>1. log' = log \cup gained /\ heard' = heard \cup news /\ outstanding' = outstanding \ {e.ack : e \in fresh}
  BY DEF ServerTakes
<1>2. log \subseteq Nat \X Nat /\ heard \subseteq Nat \X Nat /\ IsFiniteSet(outstanding) /\ outstanding \subseteq Commands
  BY DEF IInv, Types
<1>3. body.boot \in Nat /\ body.update \in Nat /\ body.sent \in Seq(Event)
  BY DEF Body
<1>4. ToSet(body.sent) \subseteq Event
  BY <1>3 DEF ToSet
<1>5. gained \subseteq Nat \X Nat /\ \A p \in gained : p[1] = body.boot
  <2>1. \A e \in fresh : e.id \in Nat
    BY <1>4 DEF Event
  <2>. HIDE DEF fresh
  <2>. QED  BY <1>3, <2>1
<1>6. news \subseteq Nat \X Nat /\ \A p \in news : p[1] = body.boot /\ p[2] = body.update /\ body.update # NoUpdate
  BY <1>3
<1>7. ASSUME NEW i \in Ids(body.sent) PROVE <<body.boot, i>> \in log' \cup heard
  <2>1. PICK e \in ToSet(body.sent) : e.id = i
    BY DEF Ids
  <2>. QED  BY <1>1, <2>1
<1>. HIDE DEF gained, news, fresh
<1>8. IsFiniteSet(outstanding') /\ outstanding' \subseteq Commands
  BY <1>1, <1>2, FS_Subset
<1>. QED  BY <1>1, <1>2, <1>5, <1>6, <1>7, <1>8

\* An answer comes, after which the server has what it has.
LEMMA AnswerKeeps ==
  ASSUME IInv, NEW answer \in Answers, NEW commands \in Seq(Commands), Answer(answer, commands),
         log' \subseteq Nat \X Nat, heard' \subseteq Nat \X Nat, log \subseteq log',
         IsFiniteSet(outstanding'), outstanding' \subseteq Commands,
         \A p \in log' \cup heard' : p[1] <= boot,
         Steady => /\ \A p \in heard' : p[1] = boot => p[2] \in fleeting
                   /\ answer = "ok" => \A i \in Sent : <<boot, i>> \in log'
  PROVE  IInv'
<1>1. /\ Flying /\ flight' = [flight EXCEPT !.answer = answer, !.commands = commands]
      /\ Device' = Device /\ boot' = boot /\ fleeting' = fleeting /\ raced' = raced
      /\ paired' = paired /\ updates' = updates /\ lastBody' = lastBody
  BY DEF Answer, buffer, Device
<1>2. flight \in Flights
  BY DEF IInv, Types
<1>3. /\ flight' \in Flights /\ flight'.body = flight.body /\ flight'.answer = answer
  BY <1>1, <1>2 DEF Flights
<1>4. Types'
  BY <1>1, <1>3 DEF IInv, Types
<1>5. NoFuture'
  BY <1>1, <1>3 DEF IInv, NoFuture
<1>6. ASSUME Steady PROVE Steady'
  <2>1. Sent' = Sent
    BY <1>3 DEF Sent
  <2>2. Sound(Device, Sent, fleeting, boot, log')
    BY <1>6, LogKeeps DEF Steady, IInv, Types
  <2>. QED  BY <1>1, <1>3, <1>6, <2>1, <2>2 DEF Steady, Ours
<1>. QED  BY <1>1, <1>4, <1>5, <1>6 DEF IInv

LEMMA NoCommands == <<>> \in Seq(Commands)
OBVIOUS

\* The server takes the batch of the flight, whatever becomes of the answer.
LEMMA AcceptKeeps ==
  ASSUME IInv, NEW answer \in Answers, NEW commands, Answer(answer, commands),
         ServerTakes(flight.body), commands \in Seq(Commands)
  PROVE  IInv'
<1>1. flight.body \in Body /\ Flying
  BY DEF IInv, Types, Flights, Answer
<1> DEFINE body == flight.body
<1>2. body \in Body /\ ServerTakes(body)
  BY <1>1
<1>. HIDE DEF body
<1>3. /\ log' \subseteq Nat \X Nat /\ heard' \subseteq Nat \X Nat /\ log \subseteq log'
      /\ IsFiniteSet(outstanding') /\ outstanding' \subseteq Commands
      /\ \A p \in log' \cup heard' : p \in log \cup heard \/ p[1] = body.boot
      /\ \A p \in heard' : p \in heard \/ (p[1] = body.boot /\ p[2] = body.update /\ body.update # NoUpdate)
      /\ \A i \in Ids(body.sent) : <<body.boot, i>> \in log' \cup heard
  BY <1>2, TakesIs
<1>4. body.boot <= boot
  BY DEF IInv, NoFuture, body
<1>5. \A p \in log' \cup heard' : p[1] <= boot
  BY <1>3, <1>4 DEF IInv, NoFuture
<1>6. ASSUME Steady
      PROVE  /\ \A p \in heard' : p[1] = boot => p[2] \in fleeting
             /\ answer = "ok" => \A i \in Sent : <<boot, i>> \in log'
  <2>1. body.boot = boot /\ (body.update # NoUpdate => body.update \in fleeting)
    BY <1>1, <1>6 DEF Steady, body, Ours
  <2>2. \A p \in heard : p[1] = boot => p[2] \in fleeting
    BY <1>6 DEF Steady
  <2>3. \A p \in heard' : p[1] = boot => p[2] \in fleeting
    BY <1>3, <2>1, <2>2
  <2>4. ASSUME NEW i \in Sent PROVE <<boot, i>> \in log'
    <3>1. <<boot, i>> \in log' \cup heard
      BY <1>3, <2>1, <2>4 DEF Sent, body
    <3>2. i \notin fleeting
      BY <1>6, <2>4 DEF Steady
    <3>3. <<boot, i>> \notin heard
      BY <2>2, <3>2
    <3>. QED  BY <3>1, <3>3
  <2>. QED  BY <2>3, <2>4
<1>. QED  BY <1>3, <1>5, <1>6, AnswerKeeps

LEMMA ServerKeeps == IInv /\ (Accepts \/ AcceptsUnheard \/ Allows \/ Refuses) => IInv'
<1>. SUFFICES ASSUME IInv, Accepts \/ AcceptsUnheard \/ Allows \/ Refuses PROVE IInv'
  OBVIOUS
<1>0. "ok" \in Answers /\ "error" \in Answers /\ "allowed" \in Answers
  BY DEF Answers
<1>1. CASE Accepts
  <2>1. ServerTakes(flight.body) /\ flight.body \in Body
    BY <1>1 DEF Accepts, IInv, Types, Flights
  <2>2. IsFiniteSet(outstanding') /\ outstanding' \subseteq Commands
    BY <2>1, TakesIs
  <2>3. PICK commands \in SetToSeqs(outstanding') : Answer("ok", commands)
    BY <1>1 DEF Accepts
  <2>4. commands \in Seq(Commands)
    <3>1. Cardinality(outstanding') \in Nat /\ commands \in [1..Cardinality(outstanding') -> outstanding']
      BY <2>2, <2>3, FS_CardinalityType DEF SetToSeqs
    <3>. QED  BY <2>2, <3>1
  <2>. QED  BY <1>0, <2>1, <2>3, <2>4, AcceptKeeps
<1>2. CASE AcceptsUnheard
  <2>1. ServerTakes(flight.body)
    BY <1>2 DEF AcceptsUnheard
  <2>2. PICK answer \in {"ok", "error"} : Answer(answer, <<>>)
    BY <1>2 DEF AcceptsUnheard
  <2>3. answer \in Answers
    BY <1>0
  <2>. QED  BY <2>1, <2>2, <2>3, NoCommands, AcceptKeeps
<1>3. CASE Allows \/ Refuses
  <2>1. UNCHANGED server /\ \E answer \in Answers : answer # "ok" /\ Answer(answer, <<>>)
    BY <1>0, <1>3 DEF Allows, Refuses, Answers
  <2>2. PICK answer \in Answers : answer # "ok" /\ Answer(answer, <<>>)
    BY <2>1
  <2>3. outstanding' = outstanding /\ log' = log /\ heard' = heard
    BY <2>1 DEF server
  <2>4. /\ log' \subseteq Nat \X Nat /\ heard' \subseteq Nat \X Nat /\ log \subseteq log'
        /\ IsFiniteSet(outstanding') /\ outstanding' \subseteq Commands
        /\ \A p \in log' \cup heard' : p[1] <= boot
    BY <2>3 DEF IInv, Types, NoFuture
  <2>5. Steady => \A p \in heard' : p[1] = boot => p[2] \in fleeting
    BY <2>3 DEF Steady
  <2>. QED  BY <2>2, <2>4, <2>5, NoCommands, AnswerKeeps
<1>. QED  BY <1>1, <1>2, <1>3

\* Steps that touch neither the device, its exchange nor what the server has
LEMMA AsideKeeps ==
  ASSUME IInv, UNCHANGED <<buffer, updates, lastBody, flight, log, heard>>, paired' \in BOOLEAN,
         IsFiniteSet(outstanding'), outstanding' \subseteq Commands
  PROVE  IInv'
<1>1. /\ Device' = Device /\ boot' = boot /\ fleeting' = fleeting /\ raced' = raced
      /\ updates' = updates /\ lastBody' = lastBody /\ flight' = flight /\ log' = log /\ heard' = heard
  BY DEF buffer, Device
<1>2. Types'
  BY <1>1 DEF IInv, Types
<1>3. NoFuture'
  BY <1>1 DEF IInv, NoFuture
<1>4. Steady => Steady'
  BY <1>1 DEF Steady, Sent, Flying, Ours
<1>. QED  BY <1>1, <1>2, <1>3, <1>4 DEF IInv

LEMMA IssuesKeeps == IInv /\ ServerIssues => IInv'
<1>. SUFFICES ASSUME IInv, NEW c \in Commands, ServerIssues, outstanding' = outstanding \cup {c} PROVE IInv'
  BY DEF ServerIssues
<1>1. UNCHANGED <<buffer, updates, lastBody, flight, log, heard>> /\ paired' = paired
  BY DEF ServerIssues, link
<1>2. IsFiniteSet(outstanding) /\ outstanding \subseteq Commands /\ paired \in BOOLEAN
  BY DEF IInv, Types
<1>3. IsFiniteSet(outstanding')
  BY <1>2, FS_AddElement, Zenon
<1>. QED  BY <1>1, <1>2, <1>3, AsideKeeps

LEMMA ToggleKeeps == IInv /\ ((\E s \in {"offline", "heartbeat", "temperature"} : Toggle(s)) \/ ForgetPairing) => IInv'
<1>. SUFFICES ASSUME IInv, (\E s \in {"offline", "heartbeat", "temperature"} : Toggle(s)) \/ ForgetPairing
              PROVE  IInv'
  OBVIOUS
<1>1. UNCHANGED <<buffer, updates, lastBody, flight, log, heard, outstanding>> /\ paired' \in {paired, FALSE}
  BY DEF Toggle, ForgetPairing, link, server
<1>2. IsFiniteSet(outstanding) /\ outstanding \subseteq Commands /\ paired \in BOOLEAN
  BY DEF IInv, Types
<1>. QED  BY <1>1, <1>2, AsideKeeps

LEMMA ReplayKeeps == IInv /\ Replay => IInv'
<1>. SUFFICES ASSUME IInv, Replay PROVE IInv'
  OBVIOUS
<1>1. /\ ServerTakes(lastBody) /\ Device' = Device /\ boot' = boot /\ fleeting' = fleeting /\ raced' = raced
      /\ flight' = flight /\ updates' = updates /\ lastBody' = lastBody /\ paired' = paired
  BY DEF Replay, buffer, link, Device
<1>2. lastBody \in Body /\ lastBody.boot <= boot
  BY DEF IInv, Types, NoFuture
<1>3. /\ log' \subseteq Nat \X Nat /\ heard' \subseteq Nat \X Nat /\ log \subseteq log'
      /\ IsFiniteSet(outstanding') /\ outstanding' \subseteq Commands
      /\ \A p \in log' \cup heard' : p \in log \cup heard \/ p[1] = lastBody.boot
      /\ \A p \in heard' : p \in heard \/ (p[1] = lastBody.boot /\ p[2] = lastBody.update /\ lastBody.update # NoUpdate)
  BY <1>1, <1>2, TakesIs
<1>4. Types'
  BY <1>1, <1>3 DEF IInv, Types
<1>5. NoFuture'
  BY <1>1, <1>2, <1>3 DEF IInv, NoFuture
<1>6. ASSUME Steady PROVE Steady'
  <2>1. Sent' = Sent
    BY <1>1 DEF Sent
  <2>2. Sound(Device, Sent, fleeting, boot, log')
    BY <1>3, <1>6, LogKeeps DEF Steady, IInv, Types
  <2>3. \A p \in heard' : p[1] = boot => p[2] \in fleeting
    BY <1>3, <1>6 DEF Steady, Ours
  <2>4. flight.answer = "ok" => \A i \in Sent : <<boot, i>> \in log'
    BY <1>3, <1>6 DEF Steady
  <2>. QED  BY <1>1, <1>6, <2>1, <2>2, <2>3, <2>4 DEF Steady, Flying, Ours
<1>. QED  BY <1>1, <1>4, <1>5, <1>6 DEF IInv

\* The flight is over; the device is d, sound with nothing on its way.
LEMMA ReturnKeeps ==
  ASSUME IInv, NEW answers, Answered(answers), paired' \in BOOLEAN,
         Device' \in DeviceType, boot' = boot, fleeting' = fleeting, raced' = raced,
         Steady => Sound(Device', {}, fleeting, boot, log)
  PROVE  IInv'
<1>1. /\ flight' = Idle /\ lastBody' \in {lastBody, flight.body} /\ updates' = updates
      /\ outstanding' = outstanding /\ log' = log /\ heard' = heard
  BY DEF Answered, server
<1>2. lastBody' \in Body
  BY <1>1 DEF IInv, Types, Flights
<1>3. Types'
  BY <1>1, <1>2, IdleIs DEF IInv, Types
<1>4. NoFuture'
  BY <1>1, IdleIs DEF IInv, NoFuture, Types
<1>5. ASSUME Steady PROVE Steady'
  <2>1. Sent' = {} /\ Cardinality(Sent') = Len(flight'.body.sent)
    BY <1>1, IdleIs, FS_EmptySet DEF Sent
  <2>2. Ours(flight.body)' /\ Ours(lastBody)'
    BY <1>1, <1>5, IdleIs DEF Steady, Ours
  <2>. QED  BY <1>1, <1>5, <2>1, <2>2, IdleIs DEF Steady, Flying
<1>. QED  BY <1>3, <1>4, <1>5 DEF IInv

\* The length of a batch
LEMMA BatchIs ==
  ASSUME IInv
  PROVE  /\ Device \in DeviceType /\ Len(flight.body.sent) \in Nat /\ flight.commands \in Seq(Commands)
         /\ paired \in BOOLEAN
BY DEF IInv, Types, Flights, Body

LEMMA ReturnAcceptedKeeps == IInv /\ ReturnAccepted => IInv'
<1>. SUFFICES ASSUME IInv, ReturnAccepted PROVE IInv'
  OBVIOUS
<1> DEFINE n == Len(flight.body.sent)
           cut == [Device EXCEPT !.queue = Without(@, n)]
           d == FoldLeft(Dispatch, cut, flight.commands)
<1>1. Answered({"ok"}) /\ SetDevice(d) /\ paired' = paired /\ flight.answer = "ok"
  BY DEF ReturnAccepted, Answered
<1>2. n \in Nat /\ Device \in DeviceType /\ flight.commands \in Seq(Commands) /\ paired \in BOOLEAN
  BY BatchIs
<1>. HIDE DEF n
<1>3. cut = Cut(Device, n, 0)
  <2>1. dropped \in Nat
    BY <1>2, DeviceParts, DeviceFields
  <2>. QED  BY <2>1, DeviceFields DEF Cut
<1>4. cut \in DeviceType
  BY <1>2, <1>3, CutTyped
<1>5. d = FoldLeft(Dispatch, cut, flight.commands)
  OBVIOUS
<1>. HIDE DEF cut, d
<1>6. d \in DeviceType /\ \A S, fl, b, l : Sound(cut, S, fl, b, l) => Sound(d, S, fl, b, l)
  BY <1>2, <1>4, <1>5, CommandsKeep
<1>7. Device' = d /\ boot' = boot /\ fleeting' = fleeting /\ raced' = raced
  BY <1>1, <1>6, SetDeviceIs
<1>8. ASSUME Steady PROVE Sound(d, {}, fleeting, boot, log)
  <2>1. /\ Sound(Device, Sent, fleeting, boot, log) /\ n = Cardinality(Sent)
        /\ \A i \in Sent : <<boot, i>> \in log
    BY <1>1, <1>8 DEF Steady, n
  <2>2. Sound(cut, {}, fleeting, boot, log)
    BY <1>2, <1>3, <2>1, AcceptedKeeps
  <2>. QED  BY <1>6, <2>2
<1>. QED  BY <1>1, <1>2, <1>6, <1>7, <1>8, ReturnKeeps

LEMMA ReturnRejectedKeeps == IInv /\ ReturnRejected => IInv'
<1>. SUFFICES ASSUME IInv, ReturnRejected PROVE IInv'
  OBVIOUS
<1> DEFINE n == Len(flight.body.sent)
           d == [Device EXCEPT !.queue = Without(@, n), !.dropped = @ + n]
<1>1. Answered({"rejected"}) /\ SetDevice(d) /\ paired' = paired
  BY DEF ReturnRejected
<1>2. n \in Nat /\ Device \in DeviceType /\ paired \in BOOLEAN
  BY BatchIs
<1>. HIDE DEF n
<1>3. d = Cut(Device, n, n)
  <2>1. d = [Device EXCEPT !.queue = Without(@, n), !.dropped = @ + n]
    OBVIOUS
  <2>. HIDE DEF d
  <2>. QED  BY <1>2, <2>1, CutIs
<1>. HIDE DEF d
<1>4. d \in DeviceType
  BY <1>2, <1>3, CutTyped
<1>5. Device' = d /\ boot' = boot /\ fleeting' = fleeting /\ raced' = raced
  BY <1>1, <1>4, SetDeviceIs
<1>6. ASSUME Steady PROVE Sound(d, {}, fleeting, boot, log)
  BY <1>2, <1>3, <1>6, RejectedKeeps DEF Steady
<1>. QED  BY <1>1, <1>2, <1>4, <1>5, <1>6, ReturnKeeps

LEMMA ReturnStayKeeps == IInv /\ (ReturnUnpaired \/ ReturnError) => IInv'
<1>. SUFFICES ASSUME IInv, ReturnUnpaired \/ ReturnError PROVE IInv'
  OBVIOUS
<1>1. PICK answers : Answered(answers)
  BY DEF ReturnUnpaired, ReturnError
<1>2. UNCHANGED buffer /\ paired' \in BOOLEAN
  BY BatchIs DEF ReturnUnpaired, ReturnError
<1>3. Device' = Device /\ boot' = boot /\ fleeting' = fleeting /\ raced' = raced
  BY <1>2 DEF buffer, Device
<1>4. ASSUME Steady PROVE Sound(Device, {}, fleeting, boot, log)
  BY <1>4, BatchIs, EndKeeps DEF Steady
<1>. QED  BY <1>1, <1>2, <1>3, <1>4, BatchIs, ReturnKeeps

LEMMA RebootKeeps == IInv /\ (Reboot \/ Restart) => IInv'
<1>. SUFFICES ASSUME IInv, Reboot \/ Restart PROVE IInv'
  OBVIOUS
<1>1. /\ boot' = boot + 1 /\ fleeting' = {} /\ paired' = paired
      /\ outstanding' = outstanding /\ log' = log /\ heard' = heard
  BY DEF Reboot, Restart, NewBoot, server
<1>2. Device' = Fresh
  BY DEF Reboot, Restart, NewBoot, Device, Fresh, FirstEvent
<1>3. /\ flight' \in {flight, Idle} /\ lastBody' \in {lastBody, NoBody} /\ updates' \in {updates, <<>>}
      /\ ~raced' => flight' = Idle /\ updates' = <<>>
  BY DEF Reboot, Restart, Flying
<1>4. boot \in Nat /\ flight \in Flights /\ lastBody \in Body /\ updates \in Seq(Nat)
  BY DEF IInv, Types
<1>5. flight' \in Flights /\ lastBody' \in Body
  BY <1>3, <1>4, IdleIs
<1>6. Types'
  <2>1. <<>> \in Seq(Nat)
    OBVIOUS
  <2>2. updates' \in Seq(Nat)
    BY <1>3, <1>4, <2>1
  <2>3. boot' \in Nat /\ Device' \in DeviceType
    BY <1>1, <1>2, <1>4, FreshSound
  <2>. QED  BY <1>1, <1>5, <2>2, <2>3 DEF IInv, Types
<1>7. NoFuture /\ (\A p \in log \cup heard : p[1] \in Nat) /\ flight.body.boot \in Nat /\ lastBody.boot \in Nat
  BY <1>4 DEF IInv, Types, Flights, Body
<1>8. /\ \A p \in log' \cup heard' : p[1] <= boot' /\ p[1] # boot'
      /\ flight'.body.boot <= boot' /\ lastBody'.boot <= boot' /\ lastBody'.boot # boot'
      /\ flight'.body.boot # boot'
  BY <1>1, <1>3, <1>4, <1>7, IdleIs DEF NoFuture
<1>9. NoFuture'
  BY <1>8 DEF NoFuture
<1>10. ASSUME ~raced' PROVE Steady'
  <2>1. flight' = Idle /\ updates' = <<>>
    BY <1>3, <1>10
  <2>2. Sent' = {} /\ Cardinality(Sent') = Len(flight'.body.sent)
    BY <2>1, IdleIs, FS_EmptySet DEF Sent
  <2>3. Sound(Device', Sent', fleeting', boot', log')
    BY <1>1, <1>2, <2>2, FreshSound
  <2>4. ToSet(updates') = {}
    BY <2>1 DEF ToSet
  <2>. QED  BY <1>1, <1>8, <2>1, <2>2, <2>3, <2>4, IdleIs DEF Steady, Flying, Ours
<1>. QED  BY <1>6, <1>9, <1>10 DEF IInv

LEMMA NextIInv == IInv /\ [Next]_vars => IInv'
<1>. SUFFICES ASSUME IInv, [Next]_vars PROVE IInv'
  OBVIOUS
<1>1. CASE QueueEvent \/ Temperature \/ Heartbeat
  <2>1. SetDevice(Enqueue(Device, NoCommand)) /\ UNCHANGED <<link, server>>
    BY <1>1 DEF QueueEvent, Temperature, Heartbeat
  <2>. QED  BY <2>1, QueueKeeps
<1>2. CASE UNCHANGED vars
  <2>1. UNCHANGED <<buffer, updates, lastBody, flight, log, heard, outstanding>> /\ paired' = paired
    BY <1>2 DEF vars, link, server
  <2>2. IsFiniteSet(outstanding) /\ outstanding \subseteq Commands /\ paired \in BOOLEAN
    BY DEF IInv, Types
  <2>. QED  BY <2>1, <2>2, AsideKeeps
<1>3. CASE Next /\ ~(QueueEvent \/ Temperature \/ Heartbeat)
  BY <1>3, MakeUpdateKeeps, SendKeeps, SendUpdateKeeps, ServerKeeps, IssuesKeeps,
     ReturnAcceptedKeeps, ReturnRejectedKeeps, ReturnStayKeeps, ReplayKeeps, ToggleKeeps, RebootKeeps
     DEF Next
<1>. QED  BY <1>1, <1>2, <1>3

-----------------------------------------------------------------------------
(* The theorems *)

\* The inductive invariant holds in every state of the simulator.
THEOREM Invariant == Spec => []IInv
BY InitIInv, NextIInv, PTL DEF Spec

\* The queue of the simulator never has more events than QUEUE_CAPACITY, so every batch
\* is the whole queue.
THEOREM QueueBounded == Spec => [](Len(queue) <= Capacity)
<1>1. IInv => Len(queue) <= Capacity
  BY BatchIs, DeviceParts, DeviceFields
<1>. QED  BY <1>1, Invariant, PTL

\* In a boot that began while nothing of an older one was under way, the events that
\* are neither queued nor with the server are no more than the count of the dropped,
\* although flush deletes by position what a queue that changed meanwhile has there.
THEOREM LossIsCountedUnlessRacedHolds == Spec => []LossIsCountedUnlessRaced
<1>1. IInv => LossIsCountedUnlessRaced
  <2>1. SUFFICES ASSUME IInv, ~raced PROVE Cardinality(Missing) <= dropped
    BY DEF LossIsCountedUnlessRaced
  <2>2. Sound(Device, {}, fleeting, boot, log)
    BY <2>1, BatchIs, EndKeeps DEF IInv, Steady
  <2>3. Missing = Lost(Device, fleeting, boot, log)
    BY DeviceFields DEF Missing, Lost, Ids
  <2> DEFINE T == Missing
  <2>4. T \ {} = T /\ {} \ Ids(queue) = {} /\ Cardinality({}) = 0
    BY FS_EmptySet
  <2>. HIDE DEF T
  <2>5. Cardinality(T) \in Nat /\ Cardinality(T \ {}) + Cardinality({} \ Ids(queue)) <= dropped
    <3>1. T = Lost(Device, fleeting, boot, log)
      BY <2>3 DEF T
    <3>2. Cardinality(T) \in Nat
      <4>1. Cardinality(Lost(Device, fleeting, boot, log)) \in Nat
        BY <2>1, BatchIs, LostFinite
      <4>. QED  BY <3>1, <4>1
    <3>. QED  BY <2>2, <3>1, <3>2, DeviceFields DEF Sound, Counted
  <2>6. Cardinality(T) <= dropped
    BY <2>4, <2>5
  <2>. QED  BY <2>6 DEF T
<1>. QED  BY <1>1, Invariant, PTL
=============================================================================
