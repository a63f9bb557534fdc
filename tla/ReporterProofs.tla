--------------------------- MODULE ReporterProofs ---------------------------
(***************************************************************************)
(* Proofs about Reporter, for queues of any size, any number of events and *)
(* commands, and a network that goes wrong as often as it likes.           *)
(***************************************************************************)
EXTENDS Reporter, Integers, FiniteSetTheorems, WellFoundedInduction, TLAPS

-----------------------------------------------------------------------------
(* Dispatch, one command after the other.  The induction goes over sets of  *)
(* numbers, with the fact that < is well-founded.                           *)

Below == {p \in Nat \X Nat : p[1] < p[2]}

LEMMA BelowWellFounded == IsWellFoundedOn(Below, Nat)
<1>1. OpToRel(<, Nat) = Below
  BY DEF OpToRel, Below
<1>. QED  BY <1>1, NatLessThanWellFounded, Zenon

\* A set that has 0, and the successor of each of its numbers, has every number.
LEMMA SetInduction ==
  ASSUME NEW S \in SUBSET Nat, 0 \in S, \A n \in S : n + 1 \in S
  PROVE  S = Nat
<1> DEFINE T == Nat \ S
<1>1. SUFFICES ASSUME T # {} PROVE FALSE
  OBVIOUS
<1>2. PICK x \in T : \A y \in T : <<y, x>> \notin Below
  BY <1>1, BelowWellFounded, WFMin, Zenon
<1>3. x # 0 /\ x - 1 \in Nat
  OBVIOUS
<1>4. <<x - 1, x>> \in Below
  BY <1>3 DEF Below
<1>5. x - 1 \in S
  BY <1>2, <1>3, <1>4
<1>. QED  BY <1>3, <1>5

\* The greatest number of a set that has k and nothing above
LEMMA GreatestIs ==
  ASSUME NEW k \in Nat, NEW s \in SUBSET (1..k), k \in s
  PROVE  Max(s) = k
<1> DEFINE Greatest(x) == x \in s /\ \A y \in s : x >= y
<1>1. Greatest(k)
  OBVIOUS
<1>2. ASSUME NEW x, Greatest(x) PROVE x = k
  <2>1. x \in 1..k /\ x >= k
    BY <1>2
  <2>. QED  BY <2>1
<1>3. Max(s) = CHOOSE x : Greatest(x)
  BY DEF Max
<1>. HIDE DEF Greatest
<1>. QED  BY <1>1, <1>2, <1>3

\* g is what dispatch makes of any set of the commands, in order.
Folds(g, base, commands, n) ==
  g = [s \in SUBSET (1..n) |->
         IF s = {} THEN base ELSE Dispatch(g[s \ {Max(s)}], commands[Max(s)])]

LEMMA FoldUnfolds ==
  ASSUME NEW base, NEW commands, NEW n, DOMAIN commands = 1..n
  PROVE  FoldLeft(Dispatch, base, commands) = (CHOOSE g : Folds(g, base, commands, n))[1..n]
BY DEF FoldLeft, MapThenFoldSet, Folds

\* There is such a g.
LEMMA FoldExists ==
  ASSUME NEW base, NEW commands, NEW n \in Nat
  PROVE  \E g : Folds(g, base, commands, n)
<1> DEFINE S == {k \in Nat : \E g : Folds(g, base, commands, k)}
<1>1. 0 \in S
  <2> DEFINE g == [s \in SUBSET (1..0) |-> base]
  <2>1. \A s \in SUBSET (1..0) : s = {}
    OBVIOUS
  <2>2. Folds(g, base, commands, 0)
    BY <2>1 DEF Folds
  <2>. QED  BY <2>2
<1>2. ASSUME NEW k \in S PROVE k + 1 \in S
  <2>1. PICK g : Folds(g, base, commands, k)
    OBVIOUS
  <2> DEFINE h == [s \in SUBSET (1..(k + 1)) |->
                     IF k + 1 \in s THEN Dispatch(g[s \ {k + 1}], commands[k + 1]) ELSE g[s]]
  <2>2. ASSUME NEW s \in SUBSET (1..(k + 1))
        PROVE  h[s] = IF s = {} THEN base ELSE Dispatch(h[s \ {Max(s)}], commands[Max(s)])
    <3>1. CASE k + 1 \in s
      <4>1. Max(s) = k + 1
        BY <3>1, GreatestIs
      <4>2. s \ {k + 1} \in SUBSET (1..(k + 1)) /\ k + 1 \notin s \ {k + 1}
        OBVIOUS
      <4>3. h[s \ {k + 1}] = g[s \ {k + 1}]
        BY <4>2
      <4>4. h[s] = Dispatch(g[s \ {k + 1}], commands[k + 1])
        BY <3>1
      <4>. HIDE DEF h
      <4>. QED  BY <3>1, <4>1, <4>3, <4>4
    <3>2. CASE k + 1 \notin s
      <4>1. s \in SUBSET (1..k)
        BY <3>2
      <4>2. h[s] = g[s]
        BY <3>2
      <4>3. g[s] = IF s = {} THEN base ELSE Dispatch(g[s \ {Max(s)}], commands[Max(s)])
        BY <2>1, <4>1 DEF Folds
      <4>4. h[s \ {Max(s)}] = g[s \ {Max(s)}]
        BY <3>2
      <4>. HIDE DEF h
      <4>. QED  BY <4>2, <4>3, <4>4
    <3>. QED  BY <3>1, <3>2
  <2>3. Folds(h, base, commands, k + 1)
    <3>1. h = [s \in SUBSET (1..(k + 1)) |-> h[s]]
      OBVIOUS
    <3>. HIDE DEF h
    <3>. QED  BY <2>2, <3>1 DEF Folds
  <2>. QED  BY <2>3
<1>3. S = Nat
  <2>. HIDE DEF S
  <2>1. S \in SUBSET Nat
    BY DEF S
  <2>. QED  BY <1>1, <1>2, <2>1, SetInduction
<1>. QED  BY <1>3

\* What every dispatch of one of the commands keeps, dispatching them all keeps.
LEMMA DispatchAll ==
  ASSUME NEW D, NEW base \in D, NEW n \in Nat, NEW commands, DOMAIN commands = 1..n,
         \A d \in D, i \in 1..n : Dispatch(d, commands[i]) \in D
  PROVE  FoldLeft(Dispatch, base, commands) \in D
<1> DEFINE g == CHOOSE g : Folds(g, base, commands, n)
<1>1. Folds(g, base, commands, n)
  BY FoldExists
<1>2. FoldLeft(Dispatch, base, commands) = g[1..n]
  BY FoldUnfolds
<1>. HIDE DEF g
<1> DEFINE S == {k \in Nat : k <= n => \A s \in SUBSET (1..k) : g[s] \in D}
<1>3. 0 \in S
  <2>1. \A s \in SUBSET (1..0) : s = {} /\ s \in SUBSET (1..n)
    OBVIOUS
  <2>. QED  BY <1>1, <2>1 DEF Folds
<1>4. ASSUME NEW k \in S PROVE k + 1 \in S
  <2>1. SUFFICES ASSUME k + 1 <= n, NEW s \in SUBSET (1..(k + 1)) PROVE g[s] \in D
    OBVIOUS
  <2>2. \A r \in SUBSET (1..k) : g[r] \in D
    BY <2>1
  <2>3. CASE k + 1 \in s
    <3>1. Max(s) = k + 1 /\ s \in SUBSET (1..n) /\ s # {}
      BY <2>1, <2>3, GreatestIs
    <3>2. g[s] = Dispatch(g[s \ {k + 1}], commands[k + 1])
      BY <1>1, <3>1 DEF Folds
    <3>3. s \ {k + 1} \in SUBSET (1..k) /\ k + 1 \in 1..n
      BY <2>1
    <3>. QED  BY <2>2, <3>2, <3>3
  <2>4. CASE k + 1 \notin s
    <3>1. s \in SUBSET (1..k)
      BY <2>4
    <3>. QED  BY <2>2, <3>1
  <2>. QED  BY <2>3, <2>4
<1>5. S = Nat
  <2>. HIDE DEF S
  <2>1. S \in SUBSET Nat
    BY DEF S
  <2>. QED  BY <1>3, <1>4, <2>1, SetInduction
<1>6. g[1..n] \in D
  BY <1>5
<1>. QED  BY <1>2, <1>6

-----------------------------------------------------------------------------
(* The invariant *)

Event == [boot : Nat, id : Nat, ack : Commands \cup {NoCommand}]

DeviceType ==
  [nextId : Nat \ {0}, queue : Seq(Event), dropped : Nat, ledger : Seq(Commands),
   applied : Seq(Commands)]

\* The ids of boot b that wait in the device, that the server has, and that a late
\* batch carries
Waiting(d) == {e.id : e \in ToSet(d.queue)}
Has(b, l) == {i \in Nat : <<b, i>> \in l}
Carries(b, batch) == {e.id : e \in {f \in ToSet(batch) : f.boot = b}}

\* Whatever overtook a waiting event has taken it along, or the server had it.
InOrder(waiting, ahead, had) == \A w \in waiting, i \in ahead : i > w => w \in ahead \cup had

Missing(d, b, l) == (1..(d.nextId - 1)) \ (Waiting(d) \cup Has(b, l))

\* What holds of the device d in boot b before and after everything it does, with a
\* server that has l while the batches t are on their way.
Sound(d, b, l, t) ==
  /\ \A e \in ToSet(d.queue) : e.boot = b
  /\ Waiting(d) \cup Has(b, l) \subseteq 0..(d.nextId - 1)
  /\ \A batch \in t : Carries(b, batch) \subseteq 0..(d.nextId - 1)
  /\ InOrder(Waiting(d), Has(b, l), Has(b, l))
  /\ \A batch \in t : InOrder(Waiting(d), Carries(b, batch), Has(b, l))
  /\ Cardinality(Missing(d, b, l)) <= d.dropped

\* Nothing comes from a boot that is yet to come.
NoFuture ==
  \A b \in Nat : b > boot => Has(b, log) = {} /\ \A batch \in late : Carries(b, batch) = {}

Types ==
  /\ Device \in DeviceType
  /\ boot \in Nat /\ late \subseteq Seq(Event)
  /\ IsFiniteSet(outstanding) /\ outstanding \subseteq Commands

IInv == Types /\ NoFuture /\ Sound(Device, boot, log, late)

-----------------------------------------------------------------------------
(* What the handlers do to a device *)

LEMMA AppendedSet ==
  ASSUME NEW S, NEW q \in Seq(S), NEW e \in S
  PROVE  Append(q, e) \in Seq(S) /\ ToSet(Append(q, e)) = ToSet(q) \cup {e}
<1>1. Append(q, e) \in Seq(S) /\ Len(Append(q, e)) = Len(q) + 1
  OBVIOUS
<1>2. \A i \in 1..Len(q) : Append(q, e)[i] = q[i]
  OBVIOUS
<1>3. Append(q, e)[Len(q) + 1] = e
  OBVIOUS
<1>4. DOMAIN q = 1..Len(q) /\ DOMAIN Append(q, e) = 1..(Len(q) + 1) /\ Len(q) \in Nat
  BY <1>1
<1>. QED  BY <1>1, <1>2, <1>3, <1>4 DEF ToSet

LEMMA AppendedAt ==
  ASSUME NEW S, NEW q \in Seq(S), NEW e \in S
  PROVE  /\ Len(Append(q, e)) = Len(q) + 1 /\ Append(q, e)[Len(q) + 1] = e
         /\ \A i \in 1..Len(q) : Append(q, e)[i] = q[i]
OBVIOUS

LEMMA TailSet ==
  ASSUME NEW S, NEW q \in Seq(S), Len(q) # 0
  PROVE  /\ Tail(q) \in Seq(S) /\ q[1] \in S
         /\ ToSet(Tail(q)) \subseteq ToSet(q) /\ ToSet(q) \subseteq ToSet(Tail(q)) \cup {q[1]}
<1>1. Tail(q) \in Seq(S) /\ Len(Tail(q)) = Len(q) - 1 /\ Len(q) \in Nat \ {0}
  OBVIOUS
<1>2. \A i \in 1..(Len(q) - 1) : Tail(q)[i] = q[i + 1]
  OBVIOUS
<1>3. DOMAIN q = 1..Len(q) /\ DOMAIN Tail(q) = 1..(Len(q) - 1)
  BY <1>1
<1>4. ToSet(Tail(q)) \subseteq ToSet(q)
  BY <1>1, <1>2, <1>3 DEF ToSet
<1>5. ASSUME NEW i \in DOMAIN q PROVE q[i] \in ToSet(Tail(q)) \cup {q[1]}
  <2>1. CASE i = 1
    BY <2>1
  <2>2. CASE i # 1
    <3>1. i - 1 \in DOMAIN Tail(q) /\ Tail(q)[i - 1] = q[i]
      BY <1>1, <1>2, <1>3, <1>5, <2>2
    <3>. QED  BY <3>1 DEF ToSet
  <2>. QED  BY <2>1, <2>2
<1>6. ToSet(q) \subseteq ToSet(Tail(q)) \cup {q[1]}
  BY <1>5 DEF ToSet
<1>7. q[1] \in S
  BY <1>1
<1>. QED  BY <1>1, <1>4, <1>6, <1>7

\* A set with one element more at most
LEMMA OneMore ==
  ASSUME NEW S, IsFiniteSet(S), NEW x, NEW T \in SUBSET (S \cup {x})
  PROVE  IsFiniteSet(T) /\ Cardinality(T) <= Cardinality(S) + 1
<1>1. IsFiniteSet(S \cup {x}) /\ Cardinality(S \cup {x}) <= Cardinality(S) + 1
  <2>1. Cardinality(S) \in Nat
    BY FS_CardinalityType
  <2>2. /\ IsFiniteSet(S \cup {x})
        /\ Cardinality(S \cup {x}) = IF x \in S THEN Cardinality(S) ELSE Cardinality(S) + 1
    BY FS_AddElement, Zenon
  <2>. QED  BY <2>1, <2>2
<1>2. IsFiniteSet(T) /\ Cardinality(T) <= Cardinality(S \cup {x})
  BY <1>1, FS_Subset
<1>. QED  BY <1>1, <1>2, FS_CardinalityType

LEMMA MissingFinite ==
  ASSUME NEW d \in DeviceType, NEW b, NEW l
  PROVE  IsFiniteSet(Missing(d, b, l)) /\ Cardinality(Missing(d, b, l)) \in Nat
<1>1. IsFiniteSet(1..(d.nextId - 1))
  BY FS_Interval DEF DeviceType
<1>2. Missing(d, b, l) \subseteq 1..(d.nextId - 1)
  BY DEF Missing
<1>3. IsFiniteSet(Missing(d, b, l))
  BY <1>1, <1>2, FS_Subset
<1>. QED  BY <1>3, FS_CardinalityType

Queued(d, b, c) == [boot |-> b, id |-> d.nextId, ack |-> c]

\* The device r has d's events and e, but for one at most, which it counts.
Gains(r, d, e) ==
  /\ ToSet(r.queue) \subseteq ToSet(d.queue) \cup {e}
  /\ \/ r.dropped = d.dropped /\ ToSet(d.queue) \cup {e} \subseteq ToSet(r.queue)
     \/ /\ r.dropped = d.dropped + 1
        /\ \E h : ToSet(d.queue) \cup {e} \subseteq ToSet(r.queue) \cup {h}

\* What enqueue_ does to each field
LEMMA EnqueueEffect ==
  ASSUME NEW d \in DeviceType, NEW b \in Nat, NEW c \in Commands \cup {NoCommand},
         NEW r, r = Enqueue(d, b, c), NEW e, e = Queued(d, b, c)
  PROVE  /\ r \in DeviceType /\ r.nextId = d.nextId + 1
         /\ r.ledger = d.ledger /\ r.applied = d.applied
         /\ Gains(r, d, e)
<1> DEFINE full == Len(d.queue) = Capacity
           kept == IF full THEN Tail(d.queue) ELSE d.queue
           more == d.dropped + IF full THEN 1 ELSE 0
<1>1. /\ d.nextId \in Nat \ {0} /\ d.queue \in Seq(Event) /\ d.dropped \in Nat
      /\ d = [nextId |-> d.nextId, queue |-> d.queue, dropped |-> d.dropped,
              ledger |-> d.ledger, applied |-> d.applied]
      /\ d.ledger \in Seq(Commands) /\ d.applied \in Seq(Commands)
  BY DEF DeviceType
<1>2. e \in Event
  BY <1>1 DEF Event, Queued
<1>3. kept \in Seq(Event) /\ ToSet(kept) \subseteq ToSet(d.queue)
  <2>1. CASE full
    BY <1>1, <2>1, TailSet, ReporterAssumption
  <2>2. CASE ~full
    BY <1>1, <2>2
  <2>. QED  BY <2>1, <2>2
<1>4. Append(kept, e) \in Seq(Event) /\ ToSet(Append(kept, e)) = ToSet(kept) \cup {e}
  <2>. HIDE DEF kept
  <2>. QED  BY <1>2, <1>3, AppendedSet
<1>5. r = [d EXCEPT !.nextId = @ + 1, !.queue = Append(kept, e), !.dropped = more]
  BY DEF Enqueue, Queued
<1>6. /\ full => more = d.dropped + 1 /\ \E h : ToSet(d.queue) \subseteq ToSet(kept) \cup {h}
      /\ ~full => more = d.dropped /\ kept = d.queue
  <2>1. CASE full
    BY <1>1, <2>1, TailSet, ReporterAssumption
  <2>2. CASE ~full
    BY <1>1, <2>2
  <2>. QED  BY <2>1, <2>2
<1>. HIDE DEF kept, more, full
<1>7. /\ r.nextId = d.nextId + 1 /\ r.queue = Append(kept, e) /\ r.dropped = more
      /\ r.ledger = d.ledger /\ r.applied = d.applied
      /\ r = [nextId |-> d.nextId + 1, queue |-> Append(kept, e), dropped |-> more,
              ledger |-> d.ledger, applied |-> d.applied]
  BY <1>1, <1>5
<1>8. more \in Nat
  BY <1>1, <1>6
<1>9. r \in DeviceType
  BY <1>1, <1>4, <1>7, <1>8 DEF DeviceType
<1>10. ToSet(r.queue) \subseteq ToSet(d.queue) \cup {e}
  BY <1>3, <1>4, <1>7
<1>11. \/ r.dropped = d.dropped /\ ToSet(d.queue) \cup {e} \subseteq ToSet(r.queue)
       \/ /\ r.dropped = d.dropped + 1
          /\ \E h : ToSet(d.queue) \cup {e} \subseteq ToSet(r.queue) \cup {h}
  BY <1>4, <1>6, <1>7
<1>. QED  BY <1>7, <1>9, <1>10, <1>11 DEF Gains

\* What is sound stays so when the device queues another event.
LEMMA EnqueueKeeps ==
  ASSUME NEW d \in DeviceType, NEW b \in Nat, NEW c \in Commands \cup {NoCommand},
         NEW l, NEW t, Sound(d, b, l, t)
  PROVE  Enqueue(d, b, c) \in DeviceType /\ Sound(Enqueue(d, b, c), b, l, t)
<1> DEFINE r == Enqueue(d, b, c)
           e == Queued(d, b, c)
<1>0. r = Enqueue(d, b, c) /\ e = Queued(d, b, c)
  OBVIOUS
<1>. HIDE DEF r, e
<1>1. r \in DeviceType /\ r.nextId = d.nextId + 1 /\ Gains(r, d, e)
  BY <1>0, EnqueueEffect
<1>2. e.boot = b /\ e.id = d.nextId /\ d.nextId \in Nat \ {0} /\ d.dropped \in Nat
  BY <1>0 DEF DeviceType, Queued
<1>3. /\ \A f \in ToSet(d.queue) : f.boot = b
      /\ Waiting(d) \cup Has(b, l) \subseteq 0..(d.nextId - 1)
      /\ \A batch \in t : Carries(b, batch) \subseteq 0..(d.nextId - 1)
      /\ InOrder(Waiting(d), Has(b, l), Has(b, l))
      /\ \A batch \in t : InOrder(Waiting(d), Carries(b, batch), Has(b, l))
      /\ Cardinality(Missing(d, b, l)) <= d.dropped
  BY DEF Sound
<1>4. \A f \in ToSet(r.queue) : f.boot = b
  BY <1>1, <1>2, <1>3 DEF Gains
<1>5. Waiting(r) \subseteq Waiting(d) \cup {d.nextId}
  BY <1>1, <1>2 DEF Waiting, Gains
<1>6. Waiting(r) \cup Has(b, l) \subseteq 0..(r.nextId - 1)
  BY <1>1, <1>2, <1>3, <1>5
<1>7. \A batch \in t : Carries(b, batch) \subseteq 0..(r.nextId - 1)
  BY <1>1, <1>2, <1>3
<1>8. ASSUME NEW ahead, ahead \subseteq 0..(d.nextId - 1), NEW had, InOrder(Waiting(d), ahead, had)
      PROVE  InOrder(Waiting(r), ahead, had)
  BY <1>2, <1>5, <1>8 DEF InOrder
<1>9. InOrder(Waiting(r), Has(b, l), Has(b, l))
  BY <1>3, <1>8
<1>10. \A batch \in t : InOrder(Waiting(r), Carries(b, batch), Has(b, l))
  BY <1>3, <1>8
<1>11. Cardinality(Missing(r, b, l)) <= r.dropped
  <2>1. IsFiniteSet(Missing(d, b, l)) /\ Cardinality(Missing(d, b, l)) \in Nat
    BY MissingFinite
  <2>2. CASE r.dropped = d.dropped /\ ToSet(d.queue) \cup {e} \subseteq ToSet(r.queue)
    <3>1. Waiting(d) \cup {d.nextId} \subseteq Waiting(r)
      BY <1>2, <2>2 DEF Waiting
    <3>2. Missing(r, b, l) \subseteq Missing(d, b, l)
      BY <1>1, <1>2, <3>1 DEF Missing
    <3>3. Cardinality(Missing(r, b, l)) <= Cardinality(Missing(d, b, l))
      BY <2>1, <3>2, FS_Subset
    <3>4. Cardinality(Missing(r, b, l)) \in Nat
      BY <1>1, MissingFinite
    <3>. QED  BY <1>2, <1>3, <2>1, <2>2, <3>3, <3>4
  <2>3. ASSUME NEW h, r.dropped = d.dropped + 1, ToSet(d.queue) \cup {e} \subseteq ToSet(r.queue) \cup {h}
        PROVE  Cardinality(Missing(r, b, l)) <= r.dropped
    <3>1. Waiting(d) \cup {d.nextId} \subseteq Waiting(r) \cup {h.id}
      BY <1>2, <2>3 DEF Waiting
    <3>2. Missing(r, b, l) \subseteq Missing(d, b, l) \cup {h.id}
      BY <1>1, <1>2, <3>1 DEF Missing
    <3>3. Cardinality(Missing(r, b, l)) <= Cardinality(Missing(d, b, l)) + 1
      BY <2>1, <3>2, OneMore
    <3>4. Cardinality(Missing(r, b, l)) \in Nat
      BY <1>1, MissingFinite
    <3>. QED  BY <1>2, <1>3, <2>1, <2>3, <3>3, <3>4
  <2>. QED  BY <1>1, <2>2, <2>3 DEF Gains
<1>12. Sound(r, b, l, t)
  BY <1>4, <1>6, <1>7, <1>9, <1>10, <1>11 DEF Sound
<1>. QED  BY <1>1, <1>12 DEF r

\* Soundness is a matter of the queue and its counters alone.
LEMMA SameQueueSound ==
  ASSUME NEW d, NEW r, NEW b, NEW l, NEW t, Sound(d, b, l, t),
         r.nextId = d.nextId, r.queue = d.queue, r.dropped = d.dropped
  PROVE  Sound(r, b, l, t)
BY DEF Sound, Waiting, Missing

\* A command recorded is in the ledger, which holds on to the others or forgets one.
LEMMA RecordEffect ==
  ASSUME NEW d \in DeviceType, NEW c \in Commands
  PROVE  LET r == Record(d, c)
         IN /\ r \in DeviceType
            /\ r.nextId = d.nextId /\ r.queue = d.queue /\ r.dropped = d.dropped
            /\ r.applied = d.applied
            /\ r.ledger = IF Len(d.ledger) = Window THEN Append(Tail(d.ledger), c) ELSE Append(d.ledger, c)
<1> DEFINE noted == IF Len(d.ledger) = Window THEN Append(Tail(d.ledger), c) ELSE Append(d.ledger, c)
           r == Record(d, c)
<1>1. /\ d = [nextId |-> d.nextId, queue |-> d.queue, dropped |-> d.dropped,
              ledger |-> d.ledger, applied |-> d.applied]
      /\ d.nextId \in Nat \ {0} /\ d.queue \in Seq(Event) /\ d.dropped \in Nat
      /\ d.ledger \in Seq(Commands) /\ d.applied \in Seq(Commands)
  BY DEF DeviceType
<1>2. noted \in Seq(Commands)
  <2>1. CASE Len(d.ledger) = Window
    <3>1. Tail(d.ledger) \in Seq(Commands)
      BY <1>1, <2>1, TailSet, ReporterAssumption
    <3>. QED  BY <2>1, <3>1
  <2>2. CASE Len(d.ledger) # Window
    BY <1>1, <2>2
  <2>. QED  BY <2>1, <2>2
<1>3. r = [d EXCEPT !.ledger = noted]
  BY DEF Record
<1>4. noted = IF Len(d.ledger) = Window THEN Append(Tail(d.ledger), c) ELSE Append(d.ledger, c)
  OBVIOUS
<1>. HIDE DEF noted, r
<1>5. r = [nextId |-> d.nextId, queue |-> d.queue, dropped |-> d.dropped, ledger |-> noted,
           applied |-> d.applied]
  BY <1>1, <1>3
<1>6. r \in DeviceType
  BY <1>1, <1>2, <1>5 DEF DeviceType
<1>7. /\ r.nextId = d.nextId /\ r.queue = d.queue /\ r.dropped = d.dropped
      /\ r.applied = d.applied /\ r.ledger = noted
  BY <1>5
<1>. QED  BY <1>4, <1>6, <1>7 DEF r

\* Applying a command counts it, queues an event or none, and leaves the ledger.
LEMMA ApplyEffect ==
  ASSUME NEW d \in DeviceType, NEW c \in Commands, boot \in Nat
  PROVE  LET r == Apply(d, c)
         IN /\ r \in DeviceType /\ r.ledger = d.ledger
            /\ r.applied = Append(d.applied, c)
            /\ \A l, t : Sound(d, boot, l, t) => Sound(r, boot, l, t)
<1> DEFINE e == IF c \in Ending THEN Enqueue(d, boot, NoCommand) ELSE d
           r == Apply(d, c)
<1>1. /\ e \in DeviceType /\ e.ledger = d.ledger /\ e.applied = d.applied
      /\ \A l, t : Sound(d, boot, l, t) => Sound(e, boot, l, t)
  <2>1. CASE c \in Ending
    <3> DEFINE x == Enqueue(d, boot, NoCommand)
               q == Queued(d, boot, NoCommand)
    <3>0. x = Enqueue(d, boot, NoCommand) /\ q = Queued(d, boot, NoCommand)
      OBVIOUS
    <3>. HIDE DEF x, q
    <3>1. x \in DeviceType /\ x.ledger = d.ledger /\ x.applied = d.applied
      BY <3>0, EnqueueEffect
    <3>2. \A l, t : Sound(d, boot, l, t) => Sound(x, boot, l, t)
      BY <3>0, EnqueueKeeps
    <3>3. e = x
      BY <2>1, <3>0
    <3>. QED  BY <3>1, <3>2, <3>3
  <2>2. CASE c \notin Ending
    BY <2>2
  <2>. QED  BY <2>1, <2>2
<1>2. r = [e EXCEPT !.applied = Append(@, c)]
  BY DEF Apply
<1>. HIDE DEF e, r
<1>3. /\ e = [nextId |-> e.nextId, queue |-> e.queue, dropped |-> e.dropped,
              ledger |-> e.ledger, applied |-> e.applied]
      /\ e.nextId \in Nat \ {0} /\ e.queue \in Seq(Event) /\ e.dropped \in Nat
      /\ e.ledger \in Seq(Commands) /\ e.applied \in Seq(Commands)
  BY <1>1 DEF DeviceType
<1>4. r = [nextId |-> e.nextId, queue |-> e.queue, dropped |-> e.dropped,
           ledger |-> e.ledger, applied |-> Append(e.applied, c)]
  BY <1>2, <1>3
<1>5. Append(e.applied, c) \in Seq(Commands)
  BY <1>3
<1>6. r \in DeviceType
  BY <1>3, <1>4, <1>5 DEF DeviceType
<1>7. /\ r.ledger = d.ledger /\ r.applied = Append(d.applied, c)
      /\ r.nextId = e.nextId /\ r.queue = e.queue /\ r.dropped = e.dropped
  BY <1>1, <1>4
<1>8. \A l, t : Sound(d, boot, l, t) => Sound(r, boot, l, t)
  BY <1>1, <1>7, SameQueueSound
<1>. QED  BY <1>6, <1>7, <1>8 DEF r

\* One turn of the dispatch loop keeps the device sound.
LEMMA DispatchKeeps ==
  ASSUME NEW d \in DeviceType, NEW c \in Commands, boot \in Nat, NEW l, NEW t, Sound(d, boot, l, t)
  PROVE  Dispatch(d, c) \in DeviceType /\ Sound(Dispatch(d, c), boot, l, t)
<1>1. CASE Known(d, c)
  BY <1>1, EnqueueKeeps DEF Dispatch
<1>2. CASE ~Known(d, c)
  <2> DEFINE a == Apply(d, c)
             r == Record(a, c)
  <2>1. a \in DeviceType /\ Sound(a, boot, l, t)
    BY ApplyEffect
  <2>. HIDE DEF a
  <2>2. /\ r \in DeviceType
        /\ r.nextId = a.nextId /\ r.queue = a.queue /\ r.dropped = a.dropped
    BY <2>1, RecordEffect
  <2>. HIDE DEF r
  <2>3. Sound(r, boot, l, t)
    BY <2>1, <2>2, SameQueueSound
  <2>4. Enqueue(r, boot, c) \in DeviceType /\ Sound(Enqueue(r, boot, c), boot, l, t)
    BY <2>2, <2>3, EnqueueKeeps
  <2>5. Dispatch(d, c) = Enqueue(r, boot, c)
    BY <1>2 DEF Dispatch, r, a
  <2>. QED  BY <2>4, <2>5
<1>. QED  BY <1>1, <1>2

\* The batch that is sent may as well be on its way: it carries all that waits.
LEMMA QueueIsABatch ==
  ASSUME NEW d \in DeviceType, NEW b, NEW l, NEW t, Sound(d, b, l, t)
  PROVE  Carries(b, d.queue) = Waiting(d) /\ Sound(d, b, l, t \cup {d.queue})
<1>1. Carries(b, d.queue) = Waiting(d)
  BY DEF Sound, Carries, Waiting
<1>2. InOrder(Waiting(d), Carries(b, d.queue), Has(b, l))
  BY <1>1 DEF InOrder
<1>3. Carries(b, d.queue) \subseteq 0..(d.nextId - 1)
  BY <1>1 DEF Sound
<1>. QED  BY <1>1, <1>2, <1>3 DEF Sound

\* A batch reaches the server, first or late.
LEMMA LogGrows ==
  ASSUME NEW d \in DeviceType, NEW b, NEW l, NEW t, Sound(d, b, l, t),
         NEW batch \in t, NEW m, Has(b, m) = Has(b, l) \cup Carries(b, batch),
         NEW u \in SUBSET t
  PROVE  Sound(d, b, m, u)
<1>1. \A e \in ToSet(d.queue) : e.boot = b
  BY DEF Sound
<1>2. Waiting(d) \cup Has(b, m) \subseteq 0..(d.nextId - 1)
  BY DEF Sound
<1>3. \A x \in u : Carries(b, x) \subseteq 0..(d.nextId - 1)
  BY DEF Sound
<1>4. InOrder(Waiting(d), Has(b, l), Has(b, l)) /\ \A x \in t : InOrder(Waiting(d), Carries(b, x), Has(b, l))
  BY DEF Sound
<1>5. InOrder(Waiting(d), Has(b, m), Has(b, m))
  BY <1>4 DEF InOrder
<1>6. \A x \in u : InOrder(Waiting(d), Carries(b, x), Has(b, m))
  BY <1>4 DEF InOrder
<1>7. Cardinality(Missing(d, b, m)) <= d.dropped
  <2>1. Missing(d, b, m) \subseteq Missing(d, b, l)
    BY DEF Missing
  <2>2. Cardinality(Missing(d, b, m)) <= Cardinality(Missing(d, b, l))
    BY <2>1, MissingFinite, FS_Subset
  <2>3. Cardinality(Missing(d, b, m)) \in Nat /\ Cardinality(Missing(d, b, l)) \in Nat /\ d.dropped \in Nat
    BY MissingFinite DEF DeviceType
  <2>4. Cardinality(Missing(d, b, l)) <= d.dropped
    BY DEF Sound
  <2>. QED  BY <2>2, <2>3, <2>4
<1>. QED  BY <1>1, <1>2, <1>3, <1>5, <1>6, <1>7 DEF Sound

\* pop, and with it the count of what was given up
GivenUp(d, k) == [Popped(d) EXCEPT !.dropped = @ + k]

LEMMA PopEffect ==
  ASSUME NEW d \in DeviceType, NEW k \in Nat, NEW r, r = GivenUp(d, k)
  PROVE  /\ r \in DeviceType /\ ToSet(r.queue) = {} /\ r.nextId = d.nextId
         /\ r.dropped = d.dropped + k /\ r.ledger = d.ledger /\ r.applied = d.applied
         /\ k = 0 => r = Popped(d)
<1>1. PICK n \in Nat \ {0}, q \in Seq(Event), p \in Nat, known \in Seq(Commands), done \in Seq(Commands) :
        d = [nextId |-> n, queue |-> q, dropped |-> p, ledger |-> known, applied |-> done]
  BY DEF DeviceType
<1> DEFINE popped == Popped(d)
<1>2. popped = [nextId |-> n, queue |-> <<>>, dropped |-> p, ledger |-> known, applied |-> done]
  BY <1>1 DEF Popped
<1>. HIDE DEF popped
<1>3. r = [nextId |-> n, queue |-> <<>>, dropped |-> p + k, ledger |-> known, applied |-> done]
  BY <1>2 DEF popped, GivenUp
<1>4. <<>> \in Seq(Event) /\ p + k \in Nat
  OBVIOUS
<1>5. r \in DeviceType
  <2> DEFINE none == <<>>
             more == p + k
  <2>1. none \in Seq(Event) /\ more \in Nat
    BY <1>4
  <2>2. r = [nextId |-> n, queue |-> none, dropped |-> more, ledger |-> known, applied |-> done]
    BY <1>3
  <2>. HIDE DEF none, more
  <2>. QED  BY <2>1, <2>2 DEF DeviceType
<1>6. ToSet(r.queue) = {}
  BY <1>3 DEF ToSet
<1>7. r.nextId = d.nextId /\ r.dropped = d.dropped + k /\ r.ledger = d.ledger /\ r.applied = d.applied
  BY <1>1, <1>3
<1>8. k = 0 => r = popped
  BY <1>2, <1>3
<1>. QED  BY <1>5, <1>6, <1>7, <1>8 DEF popped

\* An empty queue is sound if the missing are counted.
LEMMA EmptySound ==
  ASSUME NEW d \in DeviceType, NEW b, NEW l, NEW t, Sound(d, b, l, t),
         NEW r \in DeviceType, ToSet(r.queue) = {}, r.nextId = d.nextId,
         Cardinality(Missing(r, b, l)) <= r.dropped
  PROVE  Sound(r, b, l, t)
<1>1. Waiting(r) = {}
  BY DEF Waiting
<1>2. \A ahead, had : InOrder(Waiting(r), ahead, had)
  BY <1>1 DEF InOrder
<1>. QED  BY <1>1, <1>2 DEF Sound

\* What the server has may leave the queue.
LEMMA PopKeeps ==
  ASSUME NEW d \in DeviceType, NEW b, NEW l, NEW t, Sound(d, b, l, t), Waiting(d) \subseteq Has(b, l)
  PROVE  Popped(d) \in DeviceType /\ Sound(Popped(d), b, l, t)
<1> DEFINE r == GivenUp(d, 0)
<1>1. r = GivenUp(d, 0)
  OBVIOUS
<1>. HIDE DEF r
<1>2. /\ r \in DeviceType /\ ToSet(r.queue) = {} /\ r.nextId = d.nextId
      /\ r.dropped = d.dropped + 0 /\ r = Popped(d)
  BY <1>1, PopEffect
<1>3. Missing(r, b, l) = Missing(d, b, l)
  BY <1>2 DEF Missing, Waiting
<1>4. r.dropped = d.dropped
  BY <1>2 DEF DeviceType
<1>5. Sound(r, b, l, t)
  BY <1>2, <1>3, <1>4, EmptySound DEF Sound
<1>. QED  BY <1>2, <1>5

\* A sequence has no more elements than it is long.
LEMMA FewElements ==
  ASSUME NEW d \in DeviceType
  PROVE  /\ IsFiniteSet(Waiting(d)) /\ Cardinality(Waiting(d)) \in Nat /\ Len(d.queue) \in Nat
         /\ Cardinality(Waiting(d)) <= Len(d.queue)
<1> DEFINE n == Len(d.queue)
           f == [i \in 1..n |-> d.queue[i].id]
<1>1. n \in Nat /\ DOMAIN d.queue = 1..n
  BY DEF DeviceType
<1>2. Waiting(d) = {d.queue[i].id : i \in 1..n}
  BY <1>1 DEF Waiting, ToSet
<1>3. f \in Surjection(1..n, Waiting(d))
  BY <1>2 DEF Surjection
<1>4. IsFiniteSet(1..n) /\ Cardinality(1..n) = n
  BY <1>1, FS_Interval
<1>. HIDE DEF n, f
<1>5. IsFiniteSet(Waiting(d)) /\ Cardinality(Waiting(d)) <= n
  BY <1>3, <1>4, FS_Surjection
<1>. QED  BY <1>1, <1>5, FS_CardinalityType DEF n

\* What is given up is counted: every event of the batch.
LEMMA GiveUpKeeps ==
  ASSUME NEW d \in DeviceType, NEW b, NEW l, NEW t, Sound(d, b, l, t),
         NEW r, r = GivenUp(d, Len(d.queue))
  PROVE  r \in DeviceType /\ Sound(r, b, l, t)
<1>1. /\ IsFiniteSet(Waiting(d)) /\ Cardinality(Waiting(d)) \in Nat /\ Len(d.queue) \in Nat
      /\ Cardinality(Waiting(d)) <= Len(d.queue)
  BY FewElements
<1>2. /\ r \in DeviceType /\ ToSet(r.queue) = {} /\ r.nextId = d.nextId
      /\ r.dropped = d.dropped + Len(d.queue)
  BY <1>1, PopEffect
<1>3. Missing(r, b, l) \subseteq Missing(d, b, l) \cup Waiting(d)
  BY <1>2 DEF Missing
<1> DEFINE S == Missing(d, b, l)
           T == Waiting(d)
<1>4. IsFiniteSet(S) /\ Cardinality(S) \in Nat /\ IsFiniteSet(T) /\ Cardinality(T) \in Nat
  BY <1>1, MissingFinite
<1>. HIDE DEF S, T
<1>5. /\ IsFiniteSet(S \cup T) /\ IsFiniteSet(S \cap T)
      /\ Cardinality(S \cup T) = Cardinality(S) + Cardinality(T) - Cardinality(S \cap T)
      /\ Cardinality(S \cap T) \in Nat
  BY <1>4, FS_Union, FS_Intersection, FS_CardinalityType
<1>6. Cardinality(S \cup T) <= Cardinality(S) + Cardinality(T)
  BY <1>4, <1>5
<1>7. Cardinality(Missing(r, b, l)) <= Cardinality(S \cup T)
  BY <1>3, <1>5, FS_Subset DEF S, T
<1>8. Cardinality(S) <= d.dropped /\ d.dropped \in Nat
  BY DEF S, Sound, DeviceType
<1>9. Cardinality(Missing(r, b, l)) \in Nat /\ Cardinality(S \cup T) \in Nat
  BY <1>2, <1>5, MissingFinite, FS_CardinalityType
<1>10. Cardinality(T) <= Len(d.queue)
  BY <1>1 DEF T
<1>11. Cardinality(Missing(r, b, l)) <= r.dropped
  BY <1>1, <1>2, <1>4, <1>6, <1>7, <1>8, <1>9, <1>10
<1>. QED  BY <1>2, <1>11, EmptySound

-----------------------------------------------------------------------------
(* The steps keep the invariant. *)

LEMMA DeviceFields ==
  /\ Device.nextId = nextId /\ Device.queue = queue /\ Device.dropped = dropped
  /\ Device.ledger = ledger /\ Device.applied = applied
BY DEF Device

LEMMA SetDeviceIs ==
  ASSUME NEW d \in DeviceType, SetDevice(d)
  PROVE  Device' = d
<1>1. d = [nextId |-> d.nextId, queue |-> d.queue, dropped |-> d.dropped,
           ledger |-> d.ledger, applied |-> d.applied]
  BY DEF DeviceType
<1>. QED  BY <1>1 DEF SetDevice, Device

\* What the server takes is sound, whether the batch is the queue or a late one.
LEMMA TakesKeeps ==
  ASSUME IInv, NEW batch \in late \cup {queue}, ServerTakes(batch), boot' = boot, late' \subseteq late
  PROVE  /\ Sound(Device, boot, log', late') /\ NoFuture'
         /\ late' \subseteq Seq(Event)
         /\ IsFiniteSet(outstanding') /\ outstanding' \subseteq Commands
         /\ Has(boot, log') = Has(boot, log) \cup Carries(boot, batch)
<1>1. Device \in DeviceType /\ boot \in Nat /\ late \subseteq Seq(Event) /\ NoFuture /\ Sound(Device, boot, log, late)
      /\ IsFiniteSet(outstanding) /\ outstanding \subseteq Commands
  BY DEF IInv, Types
<1>2. batch \in Seq(Event)
  BY <1>1, DeviceFields DEF DeviceType
<1>3. \A e \in ToSet(batch) : e.id \in Nat /\ e.boot \in Nat
  <2>1. \A i \in DOMAIN batch : batch[i] \in Event
    BY <1>2
  <2>2. \A e \in Event : e.id \in Nat /\ e.boot \in Nat
    BY DEF Event
  <2>. QED  BY <2>1, <2>2 DEF ToSet
<1>4. ASSUME NEW b \in Nat PROVE Has(b, log') = Has(b, log) \cup Carries(b, batch)
  BY <1>3 DEF ServerTakes, Has, Carries
<1>5. Sound(Device, boot, log, late \cup {queue})
  BY <1>1, QueueIsABatch, DeviceFields
<1>6. Sound(Device, boot, log', late')
  BY <1>1, <1>4, <1>5, LogGrows
<1>7. ASSUME NEW b \in Nat, b > boot PROVE Carries(b, batch) = {}
  <2>1. CASE batch \in late
    BY <1>1, <1>7, <2>1 DEF NoFuture
  <2>2. CASE batch = queue
    <3>1. \A e \in ToSet(queue) : e.boot = boot
      BY <1>1, DeviceFields DEF Sound
    <3>. QED  BY <1>1, <1>7, <2>2, <3>1 DEF Carries
  <2>. QED  BY <2>1, <2>2
<1>8. NoFuture'
  <2>1. ASSUME NEW b \in Nat, b > boot
        PROVE  Has(b, log') = {} /\ \A x \in late' : Carries(b, x) = {}
    <3>1. Has(b, log) = {} /\ \A x \in late' : Carries(b, x) = {}
      BY <1>1, <2>1 DEF NoFuture
    <3>. QED  BY <1>4, <1>7, <2>1, <3>1
  <2>. QED  BY <2>1 DEF NoFuture
<1>9. outstanding' \subseteq outstanding
  BY DEF ServerTakes
<1>10. IsFiniteSet(outstanding') /\ outstanding' \subseteq Commands
  BY <1>1, <1>9, FS_Subset
<1>. QED  BY <1>1, <1>4, <1>6, <1>8, <1>10

LEMMA QueueingIInv ==
  ASSUME IInv, SetDevice(Enqueue(Device, boot, NoCommand)), UNCHANGED <<boot, server, late>>
  PROVE  IInv'
<1>1. Device \in DeviceType /\ boot \in Nat /\ Sound(Device, boot, log, late)
  BY DEF IInv, Types
<1> DEFINE d == Enqueue(Device, boot, NoCommand)
<1>2. d \in DeviceType /\ Sound(d, boot, log, late)
  BY <1>1, EnqueueKeeps
<1>. HIDE DEF d
<1>3. Device' = d
  BY <1>2, SetDeviceIs DEF d
<1>. QED  BY <1>2, <1>3 DEF IInv, Types, NoFuture, server

LEMMA AcceptedIInv == ASSUME IInv, PostAccepted PROVE IInv'
<1>1. Device \in DeviceType /\ boot \in Nat /\ Sound(Device, boot, log, late)
  BY DEF IInv, Types
<1>2. ServerTakes(queue) /\ boot' = boot /\ late' = late
  BY DEF PostAccepted, Batch
<1>3. /\ Sound(Device, boot, log', late') /\ NoFuture' /\ late' \subseteq Seq(Event)
      /\ IsFiniteSet(outstanding') /\ outstanding' \subseteq Commands
      /\ Has(boot, log') = Has(boot, log) \cup Carries(boot, queue)
  BY <1>2, TakesKeeps
<1>4. Waiting(Device) \subseteq Has(boot, log')
  BY <1>1, <1>3, QueueIsABatch, DeviceFields
<1> DEFINE D == {d \in DeviceType : Sound(d, boot, log', late')}
<1>5. Popped(Device) \in D
  BY <1>1, <1>3, <1>4, PopKeeps
<1>6. PICK commands \in SetToSeqs(outstanding') :
        SetDevice(FoldLeft(Dispatch, Popped(Device), commands))
  BY DEF PostAccepted
<1> DEFINE n == Cardinality(outstanding')
<1>7. n \in Nat /\ commands \in [1..n -> outstanding']
  BY <1>3, <1>6, FS_CardinalityType DEF SetToSeqs
<1>8. \A d \in D, i \in 1..n : Dispatch(d, commands[i]) \in D
  BY <1>1, <1>3, <1>7, DispatchKeeps
<1> DEFINE after == FoldLeft(Dispatch, Popped(Device), commands)
<1>9. after \in D
  <2>. HIDE DEF D, n
  <2>. QED  BY <1>5, <1>7, <1>8, DispatchAll
<1>. HIDE DEF after
<1>10. Device' = after
  BY <1>6, <1>9, SetDeviceIs DEF after
<1>. QED  BY <1>1, <1>2, <1>3, <1>9, <1>10 DEF IInv, Types

LEMMA TruncatedIInv == ASSUME IInv, PostTruncated PROVE IInv'
<1>1. Device \in DeviceType /\ boot \in Nat /\ Sound(Device, boot, log, late)
  BY DEF IInv, Types
<1>2. ServerTakes(queue) /\ boot' = boot /\ late' = late /\ SetDevice(Popped(Device))
  BY DEF PostTruncated, Batch
<1>3. /\ Sound(Device, boot, log', late') /\ NoFuture' /\ late' \subseteq Seq(Event)
      /\ IsFiniteSet(outstanding') /\ outstanding' \subseteq Commands
      /\ Has(boot, log') = Has(boot, log) \cup Carries(boot, queue)
  BY <1>2, TakesKeeps
<1>4. Waiting(Device) \subseteq Has(boot, log')
  BY <1>1, <1>3, QueueIsABatch, DeviceFields
<1>5. Popped(Device) \in DeviceType /\ Sound(Popped(Device), boot, log', late')
  BY <1>1, <1>3, <1>4, PopKeeps
<1>6. Device' = Popped(Device)
  BY <1>2, <1>5, SetDeviceIs
<1>. QED  BY <1>1, <1>2, <1>3, <1>5, <1>6 DEF IInv, Types

LEMMA RejectedIInv == ASSUME IInv, PostRejected PROVE IInv'
<1>1. Device \in DeviceType /\ Sound(Device, boot, log, late)
  BY DEF IInv, Types
<1> DEFINE d == GivenUp(Device, Len(Device.queue))
<1>2. d = GivenUp(Device, Len(Device.queue))
  OBVIOUS
<1>3. SetDevice(d) /\ UNCHANGED <<boot, server, late>>
  BY DeviceFields DEF PostRejected, GivenUp
<1>. HIDE DEF d
<1>4. d \in DeviceType /\ Sound(d, boot, log, late)
  BY <1>1, <1>2, GiveUpKeeps
<1>5. Device' = d
  BY <1>3, <1>4, SetDeviceIs
<1>. QED  BY <1>3, <1>4, <1>5 DEF IInv, Types, NoFuture, server

LEMMA DelayedIInv == ASSUME IInv, PostDelayed PROVE IInv'
<1>1. Device \in DeviceType /\ boot \in Nat /\ Sound(Device, boot, log, late)
  BY DEF IInv, Types
<1>2. late' = late \cup {queue} /\ UNCHANGED <<device, server>>
  BY DEF PostDelayed, Batch
<1>3. Device' = Device /\ boot' = boot /\ log' = log /\ outstanding' = outstanding
  BY <1>2 DEF Device, device, server
<1>4. Sound(Device, boot, log, late')
  BY <1>1, <1>2, QueueIsABatch, DeviceFields
<1>5. queue \in Seq(Event) /\ \A e \in ToSet(queue) : e.boot = boot
  BY <1>1, DeviceFields DEF DeviceType, Sound
<1>6. \A b \in Nat : b > boot => Carries(b, queue) = {}
  BY <1>1, <1>5 DEF Carries
<1>. QED  BY <1>2, <1>3, <1>4, <1>5, <1>6 DEF IInv, Types, NoFuture

LEMMA RebootIInv == ASSUME IInv, Reboot PROVE IInv'
<1> DEFINE fresh == [nextId |-> 1, queue |-> <<>>, dropped |-> 0, ledger |-> <<>>,
                     applied |-> <<>>]
           b == boot + 1
           d == Enqueue(fresh, b, NoCommand)
<1>1. boot \in Nat /\ b \in Nat /\ b > boot
  BY DEF IInv, Types
<1>2. fresh \in DeviceType /\ fresh.queue = <<>> /\ fresh.nextId = 1 /\ fresh.dropped = 0
  BY DEF DeviceType
<1>3. boot' = b /\ SetDevice(d) /\ UNCHANGED <<server, late>>
  BY DEF Reboot
<1>. HIDE DEF fresh, b
<1>4. Has(b, log) = {} /\ \A batch \in late : Carries(b, batch) = {}
  BY <1>1 DEF IInv, NoFuture
<1>5. Sound(fresh, b, log, late)
  <2>1. ToSet(fresh.queue) = {} /\ Waiting(fresh) = {}
    BY <1>2 DEF ToSet, Waiting
  <2>2. Missing(fresh, b, log) = {}
    BY <1>2 DEF Missing
  <2>3. Cardinality(Missing(fresh, b, log)) <= fresh.dropped
    BY <1>2, <2>2, FS_EmptySet
  <2>. QED  BY <1>4, <2>1, <2>3 DEF Sound, InOrder
<1>6. d \in DeviceType /\ Sound(d, b, log, late)
  BY <1>1, <1>2, <1>5, EnqueueKeeps
<1>. HIDE DEF d
<1>7. Device' = d
  BY <1>3, <1>6, SetDeviceIs
<1>8. NoFuture'
  BY <1>1, <1>3 DEF IInv, NoFuture, server
<1>. QED  BY <1>1, <1>3, <1>6, <1>7, <1>8 DEF IInv, Types, server

LEMMA InitIInv == Init => IInv
<1> SUFFICES ASSUME Init PROVE IInv
  OBVIOUS
<1>1. /\ boot = 0 /\ late = {} /\ log = {} /\ outstanding = {} /\ nextId = 2 /\ dropped = 0
      /\ ledger = <<>> /\ queue = <<[boot |-> 0, id |-> 1, ack |-> NoCommand]>>
      /\ applied = <<>>
  BY DEF Init
<1>2. [boot |-> 0, id |-> 1, ack |-> NoCommand] \in Event
  BY DEF Event
<1>3. queue \in Seq(Event) /\ ToSet(queue) = {[boot |-> 0, id |-> 1, ack |-> NoCommand]}
  BY <1>1, <1>2 DEF ToSet
<1>4. Device \in DeviceType
  <2>1. nextId \in Nat \ {0} /\ dropped \in Nat /\ ledger \in Seq(Commands) /\ applied \in Seq(Commands)
    BY <1>1
  <2>. QED  BY <1>3, <2>1 DEF Device, DeviceType
<1>5. Types /\ NoFuture
  BY <1>1, <1>4, FS_EmptySet DEF Types, NoFuture, Has
<1>6. Waiting(Device) = {1} /\ Has(0, {}) = {}
  <2> DEFINE e == [boot |-> 0, id |-> 1, ack |-> NoCommand]
  <2>1. e.id = 1 /\ ToSet(queue) = {e}
    BY <1>3
  <2>. HIDE DEF e
  <2>. QED  BY <2>1, DeviceFields DEF Waiting, Has
<1>7. Missing(Device, 0, {}) = {}
  BY <1>1, <1>6, DeviceFields DEF Missing
<1>8. Cardinality(Missing(Device, 0, {})) <= 0
  BY <1>7, FS_EmptySet
<1>9. \A e \in ToSet(queue) : e.boot = 0
  BY <1>3
<1>10. Sound(Device, 0, {}, {})
  BY <1>1, <1>6, <1>8, <1>9, DeviceFields DEF Sound, InOrder
<1>. QED  BY <1>1, <1>5, <1>10 DEF IInv

LEMMA NextIInv == IInv /\ [Next]_vars => IInv'
<1> SUFFICES ASSUME IInv, [Next]_vars PROVE IInv'
  OBVIOUS
<1>1. CASE QueueEvent
  BY <1>1, QueueingIInv DEF QueueEvent
<1>2. CASE Heartbeat
  BY <1>2, QueueingIInv DEF Heartbeat
<1>3. CASE PostAccepted
  BY <1>3, AcceptedIInv
<1>4. CASE PostTruncated
  BY <1>4, TruncatedIInv
<1>5. CASE PostUnanswered
  <2>1. ServerTakes(queue) /\ UNCHANGED <<device, late>>
    BY <1>5 DEF PostUnanswered, Batch
  <2>2. Device' = Device /\ boot' = boot /\ late' = late
    BY <2>1 DEF Device, device
  <2>3. /\ Sound(Device, boot, log', late') /\ NoFuture' /\ late' \subseteq Seq(Event)
        /\ IsFiniteSet(outstanding') /\ outstanding' \subseteq Commands
    BY <2>1, <2>2, TakesKeeps
  <2>. QED  BY <2>2, <2>3 DEF IInv, Types
<1>6. CASE LateArrival
  <2>1. PICK batch \in late : ServerTakes(batch) /\ late' = late \ {batch} /\ UNCHANGED device
    BY <1>6 DEF LateArrival
  <2>2. Device' = Device /\ boot' = boot
    BY <2>1 DEF Device, device
  <2>3. /\ Sound(Device, boot, log', late') /\ NoFuture' /\ late' \subseteq Seq(Event)
        /\ IsFiniteSet(outstanding') /\ outstanding' \subseteq Commands
    BY <2>1, <2>2, TakesKeeps
  <2>. QED  BY <2>2, <2>3 DEF IInv, Types
<1>7. CASE PostDelayed
  BY <1>7, DelayedIInv
<1>8. CASE PostRejected
  BY <1>8, RejectedIInv
<1>9. CASE Reboot
  BY <1>9, RebootIInv
<1>10. CASE ServerIssues
  <2>1. PICK c \in Commands : outstanding' = outstanding \cup {c}
    BY <1>10 DEF ServerIssues
  <2>2. Device' = Device /\ boot' = boot /\ late' = late /\ log' = log
    BY <1>10 DEF ServerIssues, Device, device
  <2>3. IsFiniteSet(outstanding') /\ outstanding' \subseteq Commands
    BY <2>1, FS_AddElement DEF IInv, Types
  <2>. QED  BY <2>2, <2>3 DEF IInv, Types, NoFuture
<1>11. CASE PostLost \/ PostUnauthorized \/ UNCHANGED vars
  <2>1. /\ Device' = Device /\ boot' = boot /\ late' = late /\ log' = log
        /\ outstanding' = outstanding
    BY <1>11 DEF PostLost, PostUnauthorized, vars, Device, device, server
  <2>. QED  BY <2>1 DEF IInv, Types, NoFuture
<1>. QED  BY <1>1, <1>2, <1>3, <1>4, <1>5, <1>6, <1>7, <1>8, <1>9, <1>10, <1>11 DEF Next

\* The inductive invariant holds in every state of the device and its server.
THEOREM Invariant == Spec => []IInv
BY InitIInv, NextIInv, PTL DEF Spec

-----------------------------------------------------------------------------
(* What the invariant shows *)

\* However requests, responses and late arrivals go wrong, and whatever is evicted
\* or rejected on the way, the count of dropped events covers every event of this
\* boot that neither waits nor reached the server.
THEOREM LossIsCountedHolds == Spec => []LossIsCounted
<1>1. IInv => LossIsCounted
  <2> SUFFICES ASSUME IInv PROVE LossIsCounted
    OBVIOUS
  <2> DEFINE missing == {i \in 1..(nextId - 1) : i \notin {e.id : e \in ToSet(queue)} /\ <<boot, i>> \notin log}
  <2>1. nextId \in Nat \ {0} /\ Cardinality(Missing(Device, boot, log)) <= dropped
    BY DeviceFields DEF IInv, Types, Sound, DeviceType
  <2>2. missing = Missing(Device, boot, log)
    BY <2>1, DeviceFields DEF Missing, Waiting, Has
  <2>. QED  BY <2>1, <2>2 DEF LossIsCounted
<1>. QED  BY <1>1, Invariant, PTL

\* Events of a boot reach the server in their order: none that still waits is
\* overtaken, though requests that timed out arrive after later ones.
THEOREM NoOvertakingHolds == Spec => []NoOvertaking
<1>1. IInv => NoOvertaking
  <2> SUFFICES ASSUME IInv, NEW e \in ToSet(queue), NEW i \in (e.id + 1)..nextId, <<boot, i>> \in log
               PROVE  <<boot, e.id>> \in log
    BY DEF NoOvertaking
  <2>1. /\ InOrder(Waiting(Device), Has(boot, log), Has(boot, log))
        /\ Waiting(Device) \cup Has(boot, log) \subseteq 0..(nextId - 1) /\ nextId \in Nat
    BY DeviceFields DEF IInv, Types, Sound, DeviceType
  <2>2. e.id \in Waiting(Device) /\ e.id \in Nat
    BY <2>1, DeviceFields DEF Waiting
  <2>3. i \in Has(boot, log) /\ i > e.id
    BY <2>1, <2>2 DEF Has
  <2>. QED  BY <2>1, <2>2, <2>3 DEF InOrder, Has
<1>. QED  BY <1>1, Invariant, PTL

-----------------------------------------------------------------------------
(* No command takes effect again while the ledger remembers it. *)

\* The ledger names the commands that took effect last, as many as it holds, and
\* each of those was none that it held.
Accounted(d) ==
  LET n == Len(d.ledger)
      m == Len(d.applied)
  IN /\ n <= Window /\ n <= m /\ (n < Window => n = m)
     /\ \A i \in 1..n : d.ledger[i] = d.applied[(m - n) + i]
     /\ \A i, j \in 1..m : i < j /\ j - i <= Window => d.applied[i] # d.applied[j]

\* Only what concerns the ledger matters.
LEMMA SameLedgerAccounted ==
  ASSUME NEW d, NEW r, Accounted(d), r.ledger = d.ledger, r.applied = d.applied
  PROVE  Accounted(r)
BY DEF Accounted

\* A command the ledger does not name takes effect and is noted, in the place of the
\* oldest if the ledger is full.
LEMMA NotedAccounted ==
  ASSUME NEW d \in DeviceType, Accounted(d), NEW c \in Commands \ ToSet(d.ledger),
         NEW r \in DeviceType, r.applied = Append(d.applied, c),
         r.ledger = IF Len(d.ledger) = Window THEN Append(Tail(d.ledger), c) ELSE Append(d.ledger, c)
  PROVE  Accounted(r)
<1> DEFINE n == Len(d.ledger)
           m == Len(d.applied)
           k == Len(r.ledger)
<1>1. d.ledger \in Seq(Commands) /\ d.applied \in Seq(Commands) /\ n \in Nat /\ m \in Nat
  BY DEF DeviceType
<1>2. /\ n <= Window /\ n <= m /\ (n < Window => n = m)
      /\ \A i \in 1..n : d.ledger[i] = d.applied[(m - n) + i]
      /\ \A i, j \in 1..m : i < j /\ j - i <= Window => d.applied[i] # d.applied[j]
  BY DEF Accounted
<1>3. \A i \in 1..n : d.ledger[i] # c
  BY <1>1 DEF ToSet
<1>4. c \in Commands
  OBVIOUS
<1>5. Len(r.applied) = m + 1 /\ r.applied[m + 1] = c /\ \A i \in 1..m : r.applied[i] = d.applied[i]
  BY <1>1
<1>6. /\ k = IF n = Window THEN n ELSE n + 1
      /\ r.ledger[k] = c
      /\ \A i \in 1..(k - 1) : r.ledger[i] = IF n = Window THEN d.ledger[i + 1] ELSE d.ledger[i]
  <2>1. CASE n = Window
    <3> DEFINE rest == Tail(d.ledger)
    <3>1. n # 0 /\ rest \in Seq(Commands) /\ Len(rest) = n - 1
          /\ \A i \in 1..(n - 1) : rest[i] = d.ledger[i + 1]
      BY <1>1, <2>1, ReporterAssumption
    <3>2. r.ledger = Append(rest, c)
      BY <2>1
    <3>. HIDE DEF rest
    <3>3. k = n /\ r.ledger[n] = c /\ \A i \in 1..(n - 1) : r.ledger[i] = rest[i]
      <4> DEFINE noted == Append(rest, c)
      <4>1. Len(noted) = Len(rest) + 1 /\ noted[Len(rest) + 1] = c
            /\ \A i \in 1..Len(rest) : noted[i] = rest[i]
        BY <1>4, <3>1, AppendedAt
      <4>2. r.ledger = noted
        BY <3>2
      <4>. HIDE DEF noted, n
      <4>3. Len(rest) = n - 1 /\ Len(rest) + 1 = n
        BY <1>1, <3>1
      <4>. QED  BY <4>1, <4>2, <4>3
    <3>. QED  BY <2>1, <3>1, <3>3
  <2>2. CASE n # Window
    <3>1. r.ledger = Append(d.ledger, c)
      BY <2>2
    <3>2. Len(r.ledger) = n + 1 /\ r.ledger[n + 1] = c /\ \A i \in 1..n : r.ledger[i] = d.ledger[i]
      <4> DEFINE noted == Append(d.ledger, c)
      <4>1. Len(noted) = n + 1 /\ noted[n + 1] = c /\ \A i \in 1..n : noted[i] = d.ledger[i]
        BY <1>1, <1>4, AppendedAt
      <4>2. r.ledger = noted
        BY <3>1
      <4>. HIDE DEF noted
      <4>. QED  BY <4>1, <4>2
    <3>. QED  BY <1>1, <2>2, <3>2
  <2>. QED  BY <2>1, <2>2
<1>. HIDE DEF n, m, k
<1>7. k \in Nat \ {0} /\ k <= Window /\ k <= m + 1 /\ (k < Window => k = m + 1)
  BY <1>1, <1>2, <1>6, ReporterAssumption
<1>8. ASSUME NEW i \in 1..k PROVE r.ledger[i] = r.applied[((m + 1) - k) + i]
  <2>1. CASE i = k
    <3>1. ((m + 1) - k) + i = m + 1
      BY <1>1, <1>7, <2>1
    <3>. QED  BY <1>5, <1>6, <2>1, <3>1
  <2>2. CASE i # k
    <3>1. i \in 1..(k - 1)
      BY <1>7, <2>2
    <3>2. CASE n = Window
      <4>1. i + 1 \in 1..n /\ (m - n) + (i + 1) \in 1..m /\ (m - n) + (i + 1) = ((m + 1) - k) + i
        <5>1. k = n /\ i \in 1..(n - 1)
          BY <1>6, <3>1, <3>2
        <5>. QED  BY <1>1, <1>2, <5>1
      <4>2. r.ledger[i] = d.ledger[i + 1]
        BY <1>6, <3>1, <3>2
      <4>3. d.ledger[i + 1] = d.applied[(m - n) + (i + 1)]
        BY <1>2, <4>1
      <4>. QED  BY <1>5, <4>1, <4>2, <4>3
    <3>3. CASE n # Window
      <4>1. i \in 1..n /\ (m - n) + i \in 1..m /\ (m - n) + i = ((m + 1) - k) + i
        BY <1>1, <1>2, <1>6, <3>1, <3>3
      <4>. QED  BY <1>2, <1>5, <1>6, <3>1, <3>3, <4>1
    <3>. QED  BY <3>2, <3>3
  <2>. QED  BY <2>1, <2>2
<1>9. ASSUME NEW i \in 1..(m + 1), NEW j \in 1..(m + 1), i < j, j - i <= Window
      PROVE  r.applied[i] # r.applied[j]
  <2>1. i \in 1..m
    BY <1>1, <1>9
  <2>2. CASE j \in 1..m
    <3>1. d.applied[i] # d.applied[j]
      BY <1>2, <1>9, <2>1, <2>2
    <3>. QED  BY <1>5, <2>1, <2>2, <3>1
  <2>3. CASE j = m + 1
    <3>1. i - (m - n) \in 1..n /\ (m - n) + (i - (m - n)) = i
      BY <1>1, <1>2, <1>9, <2>1, <2>3, ReporterAssumption
    <3>2. d.ledger[i - (m - n)] = d.applied[i]
      BY <1>2, <3>1
    <3>3. d.ledger[i - (m - n)] # c
      BY <1>3, <3>1
    <3>4. r.applied[i] = d.applied[i] /\ r.applied[j] = c
      BY <1>5, <2>1, <2>3
    <3>. QED  BY <3>2, <3>3, <3>4
  <2>4. j \in 1..m \/ j = m + 1
    BY <1>1, <1>9
  <2>. QED  BY <2>2, <2>3, <2>4
<1>. QED  BY <1>5, <1>7, <1>8, <1>9 DEF Accounted, k

\* One turn of the dispatch loop applies only what the ledger does not name.
LEMMA DispatchAccounted ==
  ASSUME NEW d \in DeviceType, Accounted(d), NEW c \in Commands, boot \in Nat
  PROVE  Dispatch(d, c) \in DeviceType /\ Accounted(Dispatch(d, c))
<1>1. ASSUME NEW r \in DeviceType, Accounted(r)
      PROVE  Enqueue(r, boot, c) \in DeviceType /\ Accounted(Enqueue(r, boot, c))
  <2> DEFINE x == Enqueue(r, boot, c)
             q == Queued(r, boot, c)
  <2>1. x = Enqueue(r, boot, c) /\ q = Queued(r, boot, c)
    OBVIOUS
  <2>. HIDE DEF x, q
  <2>2. x \in DeviceType /\ x.ledger = r.ledger /\ x.applied = r.applied
    BY <2>1, EnqueueEffect
  <2>3. Accounted(x)
    BY <1>1, <2>2, SameLedgerAccounted
  <2>. QED  BY <2>1, <2>2, <2>3
<1>2. CASE Known(d, c)
  BY <1>1, <1>2 DEF Dispatch
<1>3. CASE ~Known(d, c)
  <2> DEFINE a == Apply(d, c)
             r == Record(a, c)
  <2>1. a \in DeviceType /\ a.ledger = d.ledger /\ a.applied = Append(d.applied, c)
    BY ApplyEffect
  <2>2. c \notin ToSet(d.ledger)
    BY <1>3 DEF Known
  <2>. HIDE DEF a
  <2>3. /\ r \in DeviceType /\ r.applied = a.applied
        /\ r.ledger = IF Len(a.ledger) = Window THEN Append(Tail(a.ledger), c) ELSE Append(a.ledger, c)
    BY <2>1, RecordEffect
  <2>. HIDE DEF r
  <2>4. Accounted(r)
    BY <2>1, <2>2, <2>3, NotedAccounted
  <2>. QED  BY <1>1, <1>3, <2>3, <2>4 DEF Dispatch, r, a
<1>. QED  BY <1>2, <1>3

LEMMA InitAccounted == Init => Accounted(Device)
<1> SUFFICES ASSUME Init PROVE Accounted(Device)
  OBVIOUS
<1>1. Device.ledger = <<>> /\ Device.applied = <<>>
  BY DeviceFields DEF Init
<1>2. Len(Device.ledger) = 0 /\ Len(Device.applied) = 0
  BY <1>1
<1>. QED  BY <1>2, ReporterAssumption DEF Accounted

LEMMA NextAccounted ==
  ASSUME IInv, Accounted(Device), [Next]_vars
  PROVE  Accounted(Device)'
<1>1. Device \in DeviceType /\ boot \in Nat
  BY DEF IInv, Types
<1>2. ASSUME NEW d \in DeviceType, SetDevice(d), Accounted(d) PROVE Accounted(Device)'
  <2>1. Device' = d
    BY <1>2, SetDeviceIs
  <2>. QED  BY <1>2, <2>1
<1>3. ASSUME ledger' = ledger, applied' = applied PROVE Accounted(Device)'
  BY <1>3, DeviceFields DEF Accounted, Device
<1>4. CASE QueueEvent \/ Heartbeat
  <2> DEFINE d == Enqueue(Device, boot, NoCommand)
             q == Queued(Device, boot, NoCommand)
  <2>1. d = Enqueue(Device, boot, NoCommand) /\ q = Queued(Device, boot, NoCommand)
    OBVIOUS
  <2>. HIDE DEF d, q
  <2>2. SetDevice(d)
    BY <1>4, <2>1 DEF QueueEvent, Heartbeat
  <2>3. d \in DeviceType /\ d.ledger = Device.ledger /\ d.applied = Device.applied
    BY <1>1, <2>1, EnqueueEffect
  <2>. QED  BY <1>2, <2>2, <2>3, SameLedgerAccounted
<1>5. CASE PostAccepted
  <2>1. ServerTakes(queue) /\ boot' = boot /\ late' = late
    BY <1>5 DEF PostAccepted, Batch
  <2>2. IsFiniteSet(outstanding') /\ outstanding' \subseteq Commands
    BY <2>1, TakesKeeps
  <2> DEFINE D == {d \in DeviceType : Accounted(d)}
             n == Cardinality(outstanding')
             popped == GivenUp(Device, 0)
  <2>3. popped = GivenUp(Device, 0)
    OBVIOUS
  <2>. HIDE DEF popped
  <2>4. popped \in DeviceType /\ popped.ledger = Device.ledger /\ popped.applied = Device.applied
        /\ popped = Popped(Device)
    BY <1>1, <2>3, PopEffect
  <2>5. Popped(Device) \in D
    BY <2>4, SameLedgerAccounted
  <2>6. PICK commands \in SetToSeqs(outstanding') :
          SetDevice(FoldLeft(Dispatch, Popped(Device), commands))
    BY <1>5 DEF PostAccepted
  <2>7. n \in Nat /\ commands \in [1..n -> outstanding']
    BY <2>2, <2>6, FS_CardinalityType DEF SetToSeqs
  <2>8. \A d \in D, i \in 1..n : Dispatch(d, commands[i]) \in D
    BY <1>1, <2>2, <2>7, DispatchAccounted
  <2> DEFINE after == FoldLeft(Dispatch, Popped(Device), commands)
  <2>9. after \in D
    <3>. HIDE DEF D, n
    <3>. QED  BY <2>5, <2>7, <2>8, DispatchAll
  <2>. HIDE DEF after
  <2>10. SetDevice(after)
    BY <2>6 DEF after
  <2>. QED  BY <1>2, <2>9, <2>10
<1>6. CASE PostTruncated \/ PostRejected
  <2>1. PICK k \in Nat : SetDevice(GivenUp(Device, k)) \/ SetDevice(Popped(Device))
    <3>1. CASE PostTruncated
      BY <1>6, <3>1 DEF PostTruncated
    <3>2. CASE PostRejected
      <4>1. Len(Device.queue) \in Nat
        BY <1>1 DEF DeviceType
      <4>. QED  BY <3>2, <4>1, DeviceFields DEF PostRejected, GivenUp
    <3>. QED  BY <1>6, <3>1, <3>2
  <2>2. ASSUME NEW m \in Nat, NEW r, r = GivenUp(Device, m)
        PROVE  r \in DeviceType /\ Accounted(r) /\ (m = 0 => r = Popped(Device))
    <3>1. r \in DeviceType /\ r.ledger = Device.ledger /\ r.applied = Device.applied
          /\ (m = 0 => r = Popped(Device))
      BY <1>1, <2>2, PopEffect
    <3>. QED  BY <3>1, SameLedgerAccounted
  <2>. QED  BY <1>2, <2>1, <2>2
<1>7. CASE Reboot
  <2> DEFINE fresh == [nextId |-> 1, queue |-> <<>>, dropped |-> 0, ledger |-> <<>>,
                       applied |-> <<>>]
             b == boot + 1
             d == Enqueue(fresh, b, NoCommand)
             q == Queued(fresh, b, NoCommand)
  <2>1. SetDevice(d) /\ b \in Nat
    BY <1>1, <1>7 DEF Reboot
  <2>2. fresh \in DeviceType
    BY DEF DeviceType
  <2>3. Accounted(fresh)
    <3>1. fresh.ledger = <<>> /\ fresh.applied = <<>>
      OBVIOUS
    <3>. HIDE DEF fresh
    <3>2. Len(fresh.ledger) = 0 /\ Len(fresh.applied) = 0
      BY <3>1
    <3>. QED  BY <3>2, ReporterAssumption DEF Accounted
  <2>4. d = Enqueue(fresh, b, NoCommand) /\ q = Queued(fresh, b, NoCommand)
    OBVIOUS
  <2>. HIDE DEF fresh, b, d, q
  <2>5. d \in DeviceType /\ d.ledger = fresh.ledger /\ d.applied = fresh.applied
    BY <2>1, <2>2, <2>4, EnqueueEffect
  <2>. QED  BY <1>2, <2>1, <2>3, <2>5, SameLedgerAccounted
<1>8. CASE \/ PostLost \/ PostUnanswered \/ PostDelayed \/ LateArrival \/ PostUnauthorized
           \/ ServerIssues \/ UNCHANGED vars
  <2>1. ledger' = ledger /\ applied' = applied
    BY <1>8 DEF PostLost, PostUnanswered, PostDelayed, LateArrival, PostUnauthorized, ServerIssues, vars, device
  <2>. QED  BY <1>3, <2>1
<1>. QED  BY <1>4, <1>5, <1>6, <1>7, <1>8 DEF Next

\* Within a boot no command takes effect again before Window others have, however
\* often and in whatever order the server sends it again, and though the ledger
\* forgets: no bound on the commands is assumed.
THEOREM NotReappliedInWindowHolds == Spec => []NotReappliedInWindow
<1>1. Init => Accounted(Device)
  BY InitAccounted
<1>2. IInv /\ Accounted(Device) /\ [Next]_vars => Accounted(Device)'
  BY NextAccounted
<1>3. IInv /\ Accounted(Device) => NotReappliedInWindow
  <2>1. SUFFICES ASSUME IInv, Accounted(Device) PROVE NotReappliedInWindow
    OBVIOUS
  <2>2. applied \in Seq(Commands)
    <3>1. Device.applied \in Seq(Commands)
      BY <2>1 DEF IInv, Types, DeviceType
    <3>. QED  BY <3>1, DeviceFields
  <2>3. DOMAIN applied = 1..Len(applied)
    BY <2>2
  <2>. QED  BY <2>1, <2>3, DeviceFields DEF Accounted, NotReappliedInWindow
<1>. QED  BY <1>1, <1>2, <1>3, Invariant, PTL DEF Spec
=============================================================================
