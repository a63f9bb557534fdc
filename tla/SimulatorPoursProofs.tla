----------------------- MODULE SimulatorPoursProofs -----------------------
(***************************************************************************)
(* Proofs about SimulatorPours, for any finite set of meters, any glasses, *)
(* any grants a server may send and any volumes.  What the coroutines do   *)
(* to a device between two awaits is followed call by call: finishing a    *)
(* pour, ending one grant, ending several, filling a glass.                *)
(***************************************************************************)
EXTENDS SimulatorPours, Integers, FiniteSetTheorems, WellFoundedInduction, TLAPS

-----------------------------------------------------------------------------
(* The invariant *)

Segments == [glass : Glasses \cup {0}, grant : 0..MaxGrants, poured : Nat]
Dicts == [id : GrantIds, token : {s.token : s \in Specs}, maxVolume : Nat, poured : Nat]
PourEvents == [type : {"pour"}, meter : Meters, grant : 0..MaxGrants, volume : Nat]
GrantEnds == [type : {"grant_end"}, grant : 0..MaxGrants, meters : SUBSET Meters]

Devices ==
  [grants : [Meters -> 0..MaxGrants], made : Seq(Dicts), pours : [Meters -> Segments],
   told : [Meters -> Nat], toldFor : [0..MaxGrants -> Nat], out : Seq(PourEvents \cup GrantEnds)]

\* Grants are dicts of this boot.
Made(d) == Len(d.made) <= MaxGrants /\ \A m \in Meters : d.grants[m] <= Len(d.made)

\* A segment is a guest's, or the grant's that covers its meter.
Attributed(d) == \A m \in Meters : d.pours[m].grant \in {Guest, d.grants[m]}

\* No two dicts in use have the same id.
OneEach(d) ==
  \A m, n \in Meters :
    d.grants[m] # Guest /\ d.grants[n] # Guest /\ d.made[d.grants[m]].id = d.made[d.grants[n]].id =>
      d.grants[m] = d.grants[n]

Sane(d) == d \in Devices /\ Made(d) /\ Attributed(d) /\ OneEach(d)

\* What is in flight for a grant
InFlight(p, o) == SumFunctionOnSet([m \in Meters |-> p[m].poured], {m \in Meters : p[m].grant = o})

Charged(d) == \A o \in DOMAIN d.made : d.made[o].poured <= d.toldFor[o] + InFlight(d.pours, o)

TypeOK ==
  /\ glass \in [Glasses -> [at : {"new", "asleep", "sending", "done"}, meter : Meters \cup {Guest}, step : Nat]]
  /\ \A c \in Glasses : glass[c].at # "new" => glass[c].meter \in Meters
  /\ drawn \in [Meters -> Nat] /\ spilt \in [Meters -> Nat]

\* The glass that is filled is the only one at its meter, and the segment there its own.
Own ==
  \A m \in Meters \ contested : \A c \in Filling(m) :
    Filling(m) = {c} /\ (pours[m] = NoPour \/ pours[m].glass = c)

IInv ==
  /\ TypeOK /\ Sane(Device) /\ Own
  /\ PouredIsReported
  /\ contested = {} => Charged(Device)

-----------------------------------------------------------------------------
(* Sums over a finite set, by induction over its subsets *)

\* A family of subsets of a finite set that has every one of which it has all smaller
\* ones has them all.
LEMMA SubsetInduction ==
  ASSUME NEW S, IsFiniteSet(S), NEW C \in SUBSET (SUBSET S),
         \A T \in SUBSET S : (\A x \in T : T \ {x} \in C) => T \in C
  PROVE  C = SUBSET S
<1> DEFINE D == (SUBSET S) \ C
<1>1. SUFFICES ASSUME D # {} PROVE FALSE
  OBVIOUS
<1>2. D \in SUBSET FiniteSubsetsOf(S)
  BY FS_Subset DEF FiniteSubsetsOf
<1>3. PICK T \in D : \A U \in D : <<U, T>> \notin StrictSubsetOrdering(S)
  BY <1>1, <1>2, FS_StrictSubsetOrderingWellFounded, WFMin, Zenon
<1>4. ASSUME NEW x \in T PROVE T \ {x} \in C
  <2>1. <<T \ {x}, T>> \in StrictSubsetOrdering(S)
    BY DEF StrictSubsetOrdering
  <2>. QED  BY <1>3, <2>1
<1>. QED  BY <1>4

\* The cells of a bar chart of f over S
Cells(f, S) == {p \in S \X Nat : p[2] \in 1..f[p[1]]}

\* One more column adds its height to the chart.
LEMMA CellsGrow ==
  ASSUME NEW f, NEW S, NEW x, x \notin S, f[x] \in Nat, IsFiniteSet(Cells(f, S))
  PROVE  /\ IsFiniteSet(Cells(f, S \cup {x}))
         /\ Cardinality(Cells(f, S \cup {x})) = Cardinality(Cells(f, S)) + f[x]
<1> DEFINE new == {x} \X (1..f[x])
           number == [j \in 1..f[x] |-> <<x, j>>]
<1>1. number \in Bijection(1..f[x], new)
  <2>1. number \in [1..f[x] -> new]
    OBVIOUS
  <2>2. \A i, j \in 1..f[x] : number[i] = number[j] => i = j
    OBVIOUS
  <2>3. \A p \in new : \E j \in 1..f[x] : number[j] = p
    OBVIOUS
  <2>. HIDE DEF number, new
  <2>. QED  BY <2>1, <2>2, <2>3 DEF Bijection, Injection, IsInjective, Surjection
<1>2. IsFiniteSet(1..f[x]) /\ Cardinality(1..f[x]) = f[x]
  BY FS_Interval
<1>3. IsFiniteSet(new) /\ Cardinality(new) = f[x]
  BY <1>1, <1>2, FS_Bijection DEF ExistsBijection
<1>4. Cells(f, S \cup {x}) = Cells(f, S) \cup new
  BY DEF Cells
<1>5. Cells(f, S) \cap new = {}
  BY DEF Cells
<1>6. Cardinality(Cells(f, S)) \in Nat
  BY FS_CardinalityType
<1>. HIDE DEF new
<1>7. Cardinality({}) = 0
  BY FS_EmptySet
<1>8. /\ IsFiniteSet(Cells(f, S) \cup new)
      /\ Cardinality(Cells(f, S) \cup new)
           = Cardinality(Cells(f, S)) + Cardinality(new) - Cardinality(Cells(f, S) \cap new)
  BY <1>3, FS_Union, Zenon
<1>9. Cardinality(Cells(f, S) \cup new) = Cardinality(Cells(f, S)) + f[x] - 0
  BY <1>3, <1>5, <1>7, <1>8
<1>10. /\ IsFiniteSet(Cells(f, S \cup {x}))
       /\ Cardinality(Cells(f, S \cup {x})) = Cardinality(Cells(f, S) \cup new)
  BY <1>4, <1>8, Zenon
<1>. QED  BY <1>6, <1>9, <1>10

\* A chart over a finite set is finite.
LEMMA CellsFinite ==
  ASSUME NEW S, IsFiniteSet(S), NEW f, \A x \in S : f[x] \in Nat, NEW T \in SUBSET S
  PROVE  IsFiniteSet(Cells(f, T)) /\ Cardinality(Cells(f, T)) \in Nat
<1> DEFINE C == {s \in SUBSET S : IsFiniteSet(Cells(f, s))}
<1>1. {} \in C
  <2>1. Cells(f, {}) = {}
    BY DEF Cells
  <2>. QED  BY <2>1, FS_EmptySet
<1>2. ASSUME NEW s \in SUBSET S, \A x \in s : s \ {x} \in C PROVE s \in C
  <2>1. CASE s = {}
    BY <1>1, <2>1
  <2>2. CASE s # {}
    <3>1. PICK x \in s : TRUE
      BY <2>2
    <3>2. x \notin s \ {x} /\ s = (s \ {x}) \cup {x} /\ f[x] \in Nat /\ IsFiniteSet(Cells(f, s \ {x}))
      BY <1>2, <3>1
    <3>3. IsFiniteSet(Cells(f, (s \ {x}) \cup {x}))
      BY <3>2, CellsGrow
    <3>. QED  BY <3>2, <3>3
  <2>. QED  BY <2>1, <2>2
<1>3. C \in SUBSET (SUBSET S)
  OBVIOUS
<1>. HIDE DEF C
<1>4. C = SUBSET S
  BY <1>1, <1>2, <1>3, SubsetInduction
<1>. QED  BY <1>4, FS_CardinalityType DEF C

\* g sums f over any set of indices.
SumsUp(g, f, S) ==
  g = [s \in SUBSET S |-> IF s = {} THEN 0 ELSE f[CHOOSE x \in s : TRUE] + g[s \ {CHOOSE x \in s : TRUE}]]

\* SumFunctionOnSet picks and drops one index after the other.
LEMMA SumUnfolds ==
  ASSUME NEW f, NEW S
  PROVE  SumFunctionOnSet(f, S) = (CHOOSE g : SumsUp(g, f, S))[S]
BY DEF SumFunctionOnSet, FoldFunctionOnSet, MapThenFoldSet, SumsUp

\* The cells of f in any set of indices are a sum.
LEMMA CellsSumUp ==
  ASSUME NEW S, IsFiniteSet(S), NEW f, \A x \in S : f[x] \in Nat
  PROVE  SumsUp([s \in SUBSET S |-> Cardinality(Cells(f, s))], f, S)
<1> DEFINE c == [s \in SUBSET S |-> Cardinality(Cells(f, s))]
<1>1. ASSUME NEW s \in SUBSET S
      PROVE  c[s] = IF s = {} THEN 0 ELSE f[CHOOSE x \in s : TRUE] + c[s \ {CHOOSE x \in s : TRUE}]
  <2>1. CASE s = {}
    <3>1. Cells(f, {}) = {}
      BY DEF Cells
    <3>. QED  BY <2>1, <3>1, FS_EmptySet
  <2>2. CASE s # {}
    <3> DEFINE x == CHOOSE x \in s : TRUE
    <3>1. x \in s
      BY <2>2
    <3>. HIDE DEF x
    <3>2. s \ {x} \in SUBSET S /\ s = (s \ {x}) \cup {x} /\ x \notin s \ {x} /\ f[x] \in Nat
      BY <3>1
    <3>3. IsFiniteSet(Cells(f, s \ {x})) /\ Cardinality(Cells(f, s \ {x})) \in Nat
      BY <3>2, CellsFinite
    <3>4. Cardinality(Cells(f, s)) = Cardinality(Cells(f, s \ {x})) + f[x]
      BY <3>2, <3>3, CellsGrow
    <3>5. c[s] = f[x] + c[s \ {x}]
      BY <3>2, <3>3, <3>4
    <3>. QED  BY <2>2, <3>5 DEF x
  <2>. QED  BY <2>1, <2>2
<1>2. c = [s \in SUBSET S |-> c[s]]
  OBVIOUS
<1>. HIDE DEF c
<1>3. SumsUp(c, f, S)
  BY <1>1, <1>2 DEF SumsUp
<1>. QED  BY <1>3 DEF c

\* So a sum counts the cells.
LEMMA SumIsCells ==
  ASSUME NEW S, IsFiniteSet(S), NEW f, \A x \in S : f[x] \in Nat
  PROVE  SumFunctionOnSet(f, S) = Cardinality(Cells(f, S))
<1> DEFINE g == CHOOSE g : SumsUp(g, f, S)
           c == [s \in SUBSET S |-> Cardinality(Cells(f, s))]
           C == {s \in SUBSET S : g[s] = c[s]}
<1>1. SumsUp(g, f, S) /\ SumsUp(c, f, S)
  BY CellsSumUp
<1>2. SumFunctionOnSet(f, S) = g[S]
  BY SumUnfolds
<1>3. c[S] = Cardinality(Cells(f, S))
  OBVIOUS
<1>. HIDE DEF g, c
<1>4. ASSUME NEW s \in SUBSET S, \A x \in s : s \ {x} \in C PROVE s \in C
  <2>1. CASE s = {}
    BY <1>1, <2>1 DEF SumsUp
  <2>2. CASE s # {}
    <3> DEFINE y == CHOOSE y \in s : TRUE
    <3>1. y \in s
      BY <2>2
    <3>2. g[s] = f[y] + g[s \ {y}] /\ c[s] = f[y] + c[s \ {y}]
      BY <1>1, <2>2, <3>1 DEF SumsUp
    <3>. HIDE DEF y
    <3>. QED  BY <1>4, <3>1, <3>2
  <2>. QED  BY <2>1, <2>2
<1>5. C \in SUBSET (SUBSET S)
  OBVIOUS
<1>. HIDE DEF C
<1>6. C = SUBSET S
  BY <1>4, <1>5, SubsetInduction
<1>. QED  BY <1>2, <1>3, <1>6 DEF C

-----------------------------------------------------------------------------
(* What is in flight for a grant *)

\* The part of a segment that is in flight for o
Part(p, o) == IF p.grant = o THEN p.poured ELSE 0

\* A meter's segment is a part of what is in flight; the other meters' do not depend on it.
LEMMA InFlightSplit ==
  ASSUME IsFiniteSet(Meters), NEW p \in [Meters -> Segments], NEW q \in [Meters -> Segments],
         NEW m \in Meters, \A n \in Meters \ {m} : q[n] = p[n], NEW o
  PROVE  \E rest \in Nat : InFlight(p, o) = rest + Part(p[m], o) /\ InFlight(q, o) = rest + Part(q[m], o)
<1> DEFINE Others == {n \in Meters \ {m} : p[n].grant = o}
           f == [n \in Meters |-> p[n].poured]
           g == [n \in Meters |-> q[n].poured]
<1>1. /\ \A n \in Meters : f[n] = p[n].poured /\ f[n] \in Nat /\ g[n] = q[n].poured /\ g[n] \in Nat
      /\ Others \subseteq Meters /\ m \notin Others
  BY DEF Segments
<1>2. IsFiniteSet(Cells(f, Others)) /\ Cardinality(Cells(f, Others)) \in Nat
  BY <1>1, CellsFinite
<1>3. \A n \in Others : g[n] = f[n]
  BY <1>1
<1>4. ASSUME NEW r \in [Meters -> Segments], NEW h, h = [n \in Meters |-> r[n].poured],
             \A n \in Others : h[n] = f[n], Others = {n \in Meters \ {m} : r[n].grant = o}
      PROVE  InFlight(r, o) = Cardinality(Cells(f, Others)) + Part(r[m], o)
  <2> DEFINE T == {n \in Meters : r[n].grant = o}
  <2>1. T \subseteq Meters /\ (\A n \in Meters : h[n] \in Nat /\ h[n] = r[n].poured)
    BY <1>4 DEF Segments
  <2>2. InFlight(r, o) = Cardinality(Cells(h, T))
    <3>1. IsFiniteSet(T)
      BY <2>1, FS_Subset, Zenon
    <3>2. SumFunctionOnSet(h, T) = Cardinality(Cells(h, T))
      BY <2>1, <3>1, SumIsCells
    <3>. QED  BY <1>4, <3>2 DEF InFlight
  <2>3. Cells(h, Others) = Cells(f, Others)
    BY <1>4 DEF Cells
  <2>4. CASE r[m].grant = o
    <3>1. T = Others \cup {m} /\ h[m] \in Nat
      BY <1>4, <2>1, <2>4
    <3>. HIDE DEF T, Others, f
    <3>2. IsFiniteSet(Cells(h, Others)) /\ m \notin Others
      BY <1>1, <1>2, <2>3
    <3>3. Cardinality(Cells(h, Others \cup {m})) = Cardinality(Cells(h, Others)) + h[m]
      BY <3>1, <3>2, CellsGrow, Zenon
    <3>. QED  BY <2>1, <2>2, <2>3, <2>4, <3>1, <3>3 DEF Part
  <2>5. CASE r[m].grant # o
    <3>1. T = Others
      BY <1>4, <2>5
    <3>. HIDE DEF T, Others, f
    <3>. QED  BY <1>2, <2>2, <2>3, <2>5, <3>1 DEF Part
  <2>. QED  BY <2>4, <2>5
<1>5. Others = {n \in Meters \ {m} : q[n].grant = o}
  OBVIOUS
<1>6. InFlight(p, o) = Cardinality(Cells(f, Others)) + Part(p[m], o)
  <2>1. \A n \in Others : f[n] = f[n]
    OBVIOUS
  <2>. QED  BY <1>4, <2>1
<1>7. InFlight(q, o) = Cardinality(Cells(f, Others)) + Part(q[m], o)
  BY <1>3, <1>4, <1>5
<1>. QED  BY <1>2, <1>6, <1>7

-----------------------------------------------------------------------------
(* Folds over a finite set: one is defined when its step stays in a set *)

\* The order of the natural numbers
Below == {p \in Nat \X Nat : p[1] < p[2]}

LEMMA BelowWellFounded == IsWellFoundedOn(Below, Nat)
<1>1. OpToRel(<, Nat) = Below
  BY DEF OpToRel, Below
<1>. QED  BY <1>1, NatLessThanWellFounded, Zenon

\* A set that has 0, and the successor of each of its numbers, has every number.
LEMMA SetInduction ==
  ASSUME NEW S \in SUBSET Nat, 0 \in S, \A n \in S : n + 1 \in S
  PROVE  S = Nat
<1> DEFINE T == Nat \ S
<1>1. SUFFICES ASSUME T # {} PROVE FALSE
  OBVIOUS
<1>2. PICK x \in T : \A y \in T : <<y, x>> \notin Below
  BY <1>1, BelowWellFounded, WFMin, Zenon
<1>3. x # 0 /\ x - 1 \in Nat
  OBVIOUS
<1>4. <<x - 1, x>> \in Below
  BY <1>3 DEF Below
<1>5. x - 1 \in S
  BY <1>2, <1>3, <1>4
<1>. QED  BY <1>3, <1>5

\* g folds step over any subset of S, from base.
FoldsUp(g, step, base, S) ==
  g = [s \in SUBSET S |-> IF s = {} THEN base
                          ELSE step[<<CHOOSE x \in s : TRUE, g[s \ {CHOOSE x \in s : TRUE}]>>]]

\* Its values on the sets of up to n elements are those of a fold.
FoldsUpTo(g, step, base, S, n) ==
  \A s \in SUBSET S : Cardinality(s) <= n =>
    g[s] = IF s = {} THEN base
           ELSE step[<<CHOOSE x \in s : TRUE, g[s \ {CHOOSE x \in s : TRUE}]>>]

\* Sets of one more element are folded next.
LEMMA FoldExtends ==
  ASSUME NEW S, IsFiniteSet(S), NEW D, NEW base \in D, NEW step \in [S \X D -> D],
         NEW n \in Nat, NEW g \in [SUBSET S -> D], FoldsUpTo(g, step, base, S, n)
  PROVE  \E h \in [SUBSET S -> D] : FoldsUpTo(h, step, base, S, n + 1)
<1> DEFINE h == [s \in SUBSET S |->
                   IF Cardinality(s) <= n THEN g[s]
                   ELSE step[<<CHOOSE x \in s : TRUE, g[s \ {CHOOSE x \in s : TRUE}]>>]]
<1>1. ASSUME NEW s \in SUBSET S
      PROVE  IsFiniteSet(s) /\ Cardinality(s) \in Nat /\ (s = {} <=> Cardinality(s) = 0)
  BY FS_Subset, FS_CardinalityType, FS_EmptySet
<1>2. ASSUME NEW s \in SUBSET S, s # {}
      PROVE  LET x == CHOOSE x \in s : TRUE
             IN x \in s /\ x \in S /\ s \ {x} \in SUBSET S /\ Cardinality(s \ {x}) = Cardinality(s) - 1
  <2> DEFINE x == CHOOSE x \in s : TRUE
  <2>1. x \in s
    BY <1>2
  <2>. HIDE DEF x
  <2>2. Cardinality(s \ {x}) = Cardinality(s) - 1
    BY <1>1, <2>1, FS_RemoveElement, Zenon
  <2>. QED  BY <2>1, <2>2 DEF x
<1>3. h \in [SUBSET S -> D]
  <2>1. ASSUME NEW s \in SUBSET S PROVE h[s] \in D
    <3>1. CASE Cardinality(s) <= n
      BY <3>1
    <3>2. CASE ~(Cardinality(s) <= n)
      <4> DEFINE x == CHOOSE x \in s : TRUE
      <4>1. s # {}
        BY <1>1, <3>2
      <4>2. x \in S /\ s \ {x} \in SUBSET S
        BY <1>2, <4>1
      <4>3. h[s] = step[<<x, g[s \ {x}]>>]
        BY <3>2
      <4>. HIDE DEF x
      <4>. QED  BY <4>2, <4>3
    <3>. QED  BY <3>1, <3>2
  <2>. QED  BY <2>1
<1>4. ASSUME NEW s \in SUBSET S, Cardinality(s) <= n + 1
      PROVE  h[s] = IF s = {} THEN base
                    ELSE step[<<CHOOSE x \in s : TRUE, h[s \ {CHOOSE x \in s : TRUE}]>>]
  <2> DEFINE x == CHOOSE x \in s : TRUE
  <2>1. CASE s = {}
    <3>1. h[s] = g[s] /\ Cardinality(s) <= n
      BY <1>1, <2>1
    <3>. QED  BY <2>1, <3>1 DEF FoldsUpTo
  <2>2. CASE s # {}
    <3>1. x \in s /\ s \ {x} \in SUBSET S /\ Cardinality(s \ {x}) = Cardinality(s) - 1
      BY <1>2, <2>2
    <3>2. Cardinality(s \ {x}) <= n
      BY <1>1, <1>4, <3>1
    <3>3. h[s \ {x}] = g[s \ {x}]
      BY <3>1, <3>2
    <3>4. h[s] = step[<<x, g[s \ {x}]>>]
      <4>1. CASE Cardinality(s) <= n
        <5>1. h[s] = g[s]
          BY <4>1
        <5>. QED  BY <2>2, <4>1, <5>1 DEF FoldsUpTo
      <4>2. CASE ~(Cardinality(s) <= n)
        BY <4>2
      <4>. QED  BY <4>1, <4>2
    <3>. HIDE DEF h
    <3>. QED  BY <2>2, <3>3, <3>4
  <2>. QED  BY <2>1, <2>2
<1>. HIDE DEF h
<1>5. FoldsUpTo(h, step, base, S, n + 1)
  BY <1>4 DEF FoldsUpTo
<1>. QED  BY <1>3, <1>5

\* A fold whose step stays in a set exists, with its values in that set.
LEMMA FoldExists ==
  ASSUME NEW S, IsFiniteSet(S), NEW D, NEW base \in D, NEW step \in [S \X D -> D]
  PROVE  \E g \in [SUBSET S -> D] : FoldsUp(g, step, base, S)
<1> DEFINE Reached == {n \in Nat : \E g \in [SUBSET S -> D] : FoldsUpTo(g, step, base, S, n)}
<1>1. ASSUME NEW s \in SUBSET S
      PROVE  IsFiniteSet(s) /\ Cardinality(s) \in Nat /\ (s = {} <=> Cardinality(s) = 0)
  BY FS_Subset, FS_CardinalityType, FS_EmptySet
<1>2. 0 \in Reached
  <2> DEFINE g == [s \in SUBSET S |-> base]
  <2>1. g \in [SUBSET S -> D]
    OBVIOUS
  <2>2. \A s \in SUBSET S : Cardinality(s) <= 0 => s = {}
    BY <1>1
  <2>3. FoldsUpTo(g, step, base, S, 0)
    BY <2>2 DEF FoldsUpTo
  <2>. QED  BY <2>1, <2>3
<1>3. ASSUME NEW n \in Reached PROVE n + 1 \in Reached
  <2>1. PICK g \in [SUBSET S -> D] : FoldsUpTo(g, step, base, S, n)
    BY <1>3
  <2>2. \E h \in [SUBSET S -> D] : FoldsUpTo(h, step, base, S, n + 1)
    BY <2>1, FoldExtends
  <2>. QED  BY <2>2
<1>4. Reached = Nat
  <2>. HIDE DEF Reached
  <2>1. Reached \in SUBSET Nat
    BY DEF Reached
  <2>. QED  BY <1>2, <1>3, <2>1, SetInduction
<1>5. Cardinality(S) \in Nat
  BY FS_CardinalityType
<1>6. PICK g \in [SUBSET S -> D] : FoldsUpTo(g, step, base, S, Cardinality(S))
  BY <1>4, <1>5
<1>7. \A s \in SUBSET S : Cardinality(s) <= Cardinality(S)
  BY FS_Subset, FS_CardinalityType
<1>8. g = [s \in SUBSET S |-> g[s]]
  OBVIOUS
<1>9. FoldsUp(g, step, base, S)
  BY <1>6, <1>7, <1>8 DEF FoldsUpTo, FoldsUp
<1>. QED  BY <1>9

-----------------------------------------------------------------------------
(* Finishing pours *)

\* No pour that a grant_end releases the meter of comes after it.
Ordered(events) ==
  \A i, j \in DOMAIN events :
    events[i].type = "grant_end" /\ events[j].type = "pour" /\ events[j].meter \in events[i].meters => j < i

\* ... or can still come
Closed(d) ==
  \A i \in DOMAIN d.out : d.out[i].type = "grant_end" => \A m \in d.out[i].meters : d.pours[m].poured = 0

Orderly(d) == Ordered(d.out) /\ Closed(d)

\* What finishing pours makes of d: what was in flight is told, and what is not finished stays.
Leads(d, e) ==
  /\ e \in Devices /\ Orderly(e)
  /\ e.grants = d.grants /\ e.made = d.made
  /\ \A m \in Meters : /\ e.pours[m] \in {d.pours[m], NoPour}
                       /\ e.told[m] + e.pours[m].poured = d.told[m] + d.pours[m].poured
  /\ \A o \in 0..MaxGrants :
       e.toldFor[o] + InFlight(e.pours, o) = d.toldFor[o] + InFlight(d.pours, o)

LEMMA NoPourIsSegment == NoPour \in Segments /\ NoPour.grant = Guest /\ NoPour.poured = 0 /\ NoPour.glass = 0
BY PoursAssumption DEF NoPour, Segments, Guest

\* What the fields of a device are
LEMMA DeviceFields ==
  ASSUME NEW d \in Devices
  PROVE  /\ d.grants \in [Meters -> 0..MaxGrants] /\ d.made \in Seq(Dicts) /\ d.pours \in [Meters -> Segments]
         /\ d.told \in [Meters -> Nat] /\ d.toldFor \in [0..MaxGrants -> Nat]
         /\ d.out \in Seq(PourEvents \cup GrantEnds)
         /\ d = [grants |-> d.grants, made |-> d.made, pours |-> d.pours, told |-> d.told,
                 toldFor |-> d.toldFor, out |-> d.out]
BY DEF Devices

LEMMA DeviceWithPours ==
  ASSUME NEW d \in Devices, NEW P, NEW r, r = [d EXCEPT !.pours = P]
  PROVE  r = [grants |-> d.grants, made |-> d.made, pours |-> P, told |-> d.told,
              toldFor |-> d.toldFor, out |-> d.out]
BY DEF Devices

\* One more of something that is counted
LEMMA AddTo ==
  ASSUME NEW S, NEW f \in [S -> Nat], NEW x \in S, NEW k \in Nat
  PROVE  /\ [f EXCEPT ![x] = @ + k] \in [S -> Nat]
         /\ \A y \in S : [f EXCEPT ![x] = @ + k][y] = IF x = y THEN f[y] + k ELSE f[y]
OBVIOUS

\* What is in flight is a number.
LEMMA InFlightNat ==
  ASSUME NEW p \in [Meters -> Segments], NEW o
  PROVE  InFlight(p, o) \in Nat
<1> DEFINE f == [m \in Meters |-> p[m].poured]
           T == {m \in Meters : p[m].grant = o}
<1>1. IsFiniteSet(T)
  BY PoursAssumption, FS_Subset, Zenon
<1>2. \A m \in T : f[m] \in Nat
  BY DEF Segments
<1>3. InFlight(p, o) = SumFunctionOnSet(f, T)
  BY DEF InFlight
<1>. HIDE DEF f, T
<1>4. SumFunctionOnSet(f, T) = Cardinality(Cells(f, T)) /\ Cardinality(Cells(f, T)) \in Nat
  BY <1>1, <1>2, SumIsCells, CellsFinite
<1>. QED  BY <1>3, <1>4

\* Nothing in flight on a meter changes nothing of what is.
LEMMA InFlightChange ==
  ASSUME NEW p \in [Meters -> Segments], NEW q \in [Meters -> Segments],
         NEW m \in Meters, \A n \in Meters \ {m} : q[n] = p[n], NEW o
  PROVE  /\ InFlight(p, o) \in Nat /\ InFlight(q, o) \in Nat
         /\ InFlight(q, o) + Part(p[m], o) = InFlight(p, o) + Part(q[m], o)
<1>1. PICK rest \in Nat : InFlight(p, o) = rest + Part(p[m], o) /\ InFlight(q, o) = rest + Part(q[m], o)
  BY PoursAssumption, InFlightSplit
<1>2. Part(p[m], o) \in Nat /\ Part(q[m], o) \in Nat
  BY DEF Part, Segments
<1>. QED  BY <1>1, <1>2

\* The two ways a pour finishes
LEMMA FinishPourFields ==
  ASSUME NEW d \in Devices, NEW m \in Meters, NEW r, r = FinishPour(m, d), NEW p, p = d.pours[m]
  PROVE  /\ r \in Devices
         /\ r.grants = d.grants /\ r.made = d.made /\ r.pours = [d.pours EXCEPT ![m] = NoPour]
         /\ p.poured = 0 => r.told = d.told /\ r.toldFor = d.toldFor /\ r.out = d.out
         /\ p.poured # 0 => /\ r.told = [d.told EXCEPT ![m] = @ + p.poured]
                            /\ r.toldFor = [d.toldFor EXCEPT ![p.grant] = @ + p.poured]
                            /\ r.out = Append(d.out, PourEvent(m, p))
<1>1. p \in Segments /\ p.poured \in Nat /\ p.grant \in 0..MaxGrants
  BY DEF Devices, Segments
<1> DEFINE over == [d EXCEPT !.pours[m] = NoPour]
           P == [d.pours EXCEPT ![m] = NoPour]
           T == [d.told EXCEPT ![m] = @ + p.poured]
           F == [d.toldFor EXCEPT ![p.grant] = @ + p.poured]
           O == Append(d.out, PourEvent(m, p))
<1>2. over = [grants |-> d.grants, made |-> d.made, pours |-> P, told |-> d.told,
              toldFor |-> d.toldFor, out |-> d.out]
  <2>1. over = [d EXCEPT !.pours = P]
    OBVIOUS
  <2>. HIDE DEF over, P
  <2>. QED  BY <2>1, DeviceWithPours
<1>3. P \in [Meters -> Segments] /\ T \in [Meters -> Nat] /\ F \in [0..MaxGrants -> Nat]
  <2>1. d.pours \in [Meters -> Segments] /\ d.told \in [Meters -> Nat] /\ d.toldFor \in [0..MaxGrants -> Nat]
    BY DeviceFields
  <2>2. P \in [Meters -> Segments]
    BY <2>1, NoPourIsSegment
  <2>3. T \in [Meters -> Nat]
    BY <1>1, <2>1
  <2>4. F \in [0..MaxGrants -> Nat]
    BY <1>1, <2>1, AddTo
  <2>. QED  BY <2>2, <2>3, <2>4
<1>4. O \in Seq(PourEvents \cup GrantEnds)
  <2>1. PourEvent(m, p) \in PourEvents
    BY <1>1 DEF PourEvent, PourEvents
  <2>. QED  BY <2>1, DeviceFields
<1>5. CASE p.poured = 0
  <2>1. r = over
    BY <1>5 DEF FinishPour
  <2>. HIDE DEF P, T, F, O, over
  <2>. QED  BY <1>2, <1>3, <1>5, <2>1, DeviceFields DEF Devices, P
<1>6. CASE p.poured # 0
  <2>1. r = [over EXCEPT !.told[m] = @ + p.poured, !.toldFor[p.grant] = @ + p.poured,
                         !.out = Append(@, PourEvent(m, p))]
    BY <1>6 DEF FinishPour
  <2>. HIDE DEF over
  <2>2. r = [grants |-> d.grants, made |-> d.made, pours |-> P, told |-> T, toldFor |-> F, out |-> O]
    <3>. HIDE DEF P
    <3>. QED  BY <1>2, <2>1
  <2>. HIDE DEF P, T, F, O
  <2>. QED  BY <1>3, <1>4, <1>6, <2>2, DeviceFields DEF Devices, P, T, F, O
<1>. QED  BY <1>1, <1>5, <1>6

LEMMA OrderedAppend ==
  ASSUME NEW events \in Seq(PourEvents \cup GrantEnds), Ordered(events), NEW e \in PourEvents,
         \A i \in DOMAIN events : events[i].type = "grant_end" => e.meter \notin events[i].meters
  PROVE  Ordered(Append(events, e))
<1> DEFINE longer == Append(events, e)
<1>1. /\ DOMAIN longer = DOMAIN events \cup {Len(events) + 1} /\ DOMAIN events = 1..Len(events)
      /\ Len(events) \in Nat
      /\ \A i \in DOMAIN events : longer[i] = events[i]
      /\ longer[Len(events) + 1] = e
  OBVIOUS
<1>2. e.type # "grant_end"
  BY DEF PourEvents
<1>. HIDE DEF longer
<1>. QED  BY <1>1, <1>2 DEF Ordered

\* A finished pour is told, to the grant it names, and no grant_end had its meter.
LEMMA FinishPourLeads ==
  ASSUME NEW d \in Devices, Orderly(d), NEW m \in Meters, NEW r, r = FinishPour(m, d)
  PROVE  Leads(d, r) /\ r.pours[m] = NoPour
<1> DEFINE p == d.pours[m]
<1>1. p \in Segments /\ p.poured \in Nat /\ p.grant \in 0..MaxGrants
  BY DEF Devices, Segments
<1>2. /\ r \in Devices
      /\ r.grants = d.grants /\ r.made = d.made /\ r.pours = [d.pours EXCEPT ![m] = NoPour]
      /\ p.poured = 0 => r.told = d.told /\ r.toldFor = d.toldFor /\ r.out = d.out
      /\ p.poured # 0 => /\ r.told = [d.told EXCEPT ![m] = @ + p.poured]
                         /\ r.toldFor = [d.toldFor EXCEPT ![p.grant] = @ + p.poured]
                         /\ r.out = Append(d.out, PourEvent(m, p))
  BY FinishPourFields
<1>3. /\ d.pours \in [Meters -> Segments] /\ d.told \in [Meters -> Nat] /\ d.toldFor \in [0..MaxGrants -> Nat]
      /\ d.out \in Seq(PourEvents \cup GrantEnds)
      /\ r.pours \in [Meters -> Segments]
  BY <1>2, DeviceFields
<1>4. p = d.pours[m] /\ r.pours[m] = NoPour /\ \A n \in Meters \ {m} : r.pours[n] = d.pours[n]
  BY <1>2, <1>3
<1>. HIDE DEF p
<1>5. ASSUME NEW n \in Meters
      PROVE  /\ r.pours[n] \in {d.pours[n], NoPour}
             /\ r.told[n] + r.pours[n].poured = d.told[n] + d.pours[n].poured
  <2>1. d.told[n] \in Nat
    BY <1>3
  <2>2. CASE n = m
    <3>1. r.told[m] = d.told[m] + p.poured
      BY <1>1, <1>2, <1>3, <2>1, <2>2
    <3>. QED  BY <1>1, <1>4, <2>1, <2>2, <3>1, NoPourIsSegment
  <2>3. CASE n # m
    <3>1. r.told[n] = d.told[n]
      BY <1>2, <1>3, <2>3
    <3>. QED  BY <1>4, <2>3, <3>1
  <2>. QED  BY <2>2, <2>3
<1>6. ASSUME NEW o \in 0..MaxGrants
      PROVE  r.toldFor[o] + InFlight(r.pours, o) = d.toldFor[o] + InFlight(d.pours, o)
  <2>1. /\ InFlight(d.pours, o) \in Nat /\ InFlight(r.pours, o) \in Nat
        /\ InFlight(r.pours, o) + Part(p, o) = InFlight(d.pours, o) + Part(NoPour, o)
    BY <1>3, <1>4, InFlightChange
  <2>2. Part(NoPour, o) = 0 /\ Part(p, o) \in Nat
    BY <1>1, NoPourIsSegment DEF Part
  <2>3. d.toldFor[o] \in Nat
    BY <1>3
  <2>4. r.toldFor[o] = d.toldFor[o] + Part(p, o)
    <3>1. CASE p.poured = 0
      BY <1>2, <2>3, <3>1 DEF Part
    <3>2. CASE p.poured # 0
      <4>1. r.toldFor[o] = IF p.grant = o THEN d.toldFor[o] + p.poured ELSE d.toldFor[o]
        <5> DEFINE S == 0..MaxGrants
                   f == d.toldFor
                   x == p.grant
                   k == p.poured
        <5>1. f \in [S -> Nat] /\ x \in S /\ k \in Nat /\ o \in S /\ r.toldFor = [f EXCEPT ![x] = @ + k]
          BY <1>1, <1>2, <1>3, <3>2
        <5>2. r.toldFor[o] = IF x = o THEN f[o] + k ELSE f[o]
          <6>. HIDE DEF S, f, x, k
          <6>. QED  BY <5>1, AddTo
        <5>. QED  BY <5>2
      <4>. QED  BY <2>3, <4>1 DEF Part
    <3>. QED  BY <3>1, <3>2
  <2>. QED  BY <2>1, <2>2, <2>3, <2>4
<1>7. Closed(r) /\ Ordered(r.out)
  <2>1. CASE p.poured = 0
    <3>1. r.out = d.out /\ \A n \in Meters : d.pours[n].poured = 0 => r.pours[n].poured = 0
      BY <1>2, <1>4, <2>1, NoPourIsSegment
    <3>2. \A i \in DOMAIN d.out : d.out[i].type = "grant_end" => d.out[i].meters \subseteq Meters
      BY <1>3 DEF PourEvents, GrantEnds
    <3>. QED  BY <3>1, <3>2 DEF Closed, Orderly
  <2>2. CASE p.poured # 0
    <3> DEFINE e == PourEvent(m, p)
    <3>1. r.out = Append(d.out, e)
      BY <1>2, <2>2
    <3>2. e \in PourEvents /\ e.meter = m /\ e.type = "pour"
      BY <1>1 DEF PourEvent, PourEvents
    <3>. HIDE DEF e
    <3>3. \A i \in DOMAIN d.out : d.out[i].type = "grant_end" => d.out[i].meters \subseteq Meters
      BY <1>3 DEF PourEvents, GrantEnds
    <3>4. \A i \in DOMAIN d.out : d.out[i].type = "grant_end" => m \notin d.out[i].meters
      BY <1>4, <2>2 DEF Closed, Orderly
    <3>5. Ordered(r.out)
      BY <1>3, <3>1, <3>2, <3>4, OrderedAppend DEF Orderly
    <3>6. ASSUME NEW i \in DOMAIN r.out, r.out[i].type = "grant_end", NEW n \in r.out[i].meters
          PROVE  r.pours[n].poured = 0
      <4>1. i \in DOMAIN d.out /\ r.out[i] = d.out[i]
        BY <1>3, <3>1, <3>2, <3>6
      <4>2. n \in Meters \ {m} /\ d.pours[n].poured = 0
        BY <3>3, <3>4, <3>6, <4>1 DEF Closed, Orderly
      <4>. QED  BY <1>4, <4>2
    <3>. QED  BY <3>5, <3>6 DEF Closed
  <2>. QED  BY <2>1, <2>2
<1>. QED  BY <1>2, <1>4, <1>5, <1>6, <1>7 DEF Leads, Orderly

LEMMA LeadsRefl ==
  ASSUME NEW d \in Devices, Orderly(d)
  PROVE  Leads(d, d)
BY DEF Leads

LEMMA LeadsTrans ==
  ASSUME NEW d, NEW e, NEW r, Leads(d, e), Leads(e, r)
  PROVE  Leads(d, r)
<1>1. /\ r \in Devices /\ Orderly(r)
      /\ r.grants = d.grants /\ r.made = d.made
      /\ \A m \in Meters : r.told[m] + r.pours[m].poured = d.told[m] + d.pours[m].poured
      /\ \A o \in 0..MaxGrants :
           r.toldFor[o] + InFlight(r.pours, o) = d.toldFor[o] + InFlight(d.pours, o)
  BY DEF Leads
<1>2. \A m \in Meters : r.pours[m] \in {d.pours[m], NoPour}
  BY DEF Leads
<1>. QED  BY <1>1, <1>2 DEF Leads

\* g finishes the pours on any set of meters, one after the other.
FinishesUp(g, d, S) ==
  g = [s \in SUBSET S |-> IF s = {} THEN d
                          ELSE FinishPour(CHOOSE m \in s : TRUE, g[s \ {CHOOSE m \in s : TRUE}])]

LEMMA FinishUnfolds ==
  ASSUME NEW d, NEW S
  PROVE  FoldSet(FinishPour, d, S) = (CHOOSE g : FinishesUp(g, d, S))[S]
BY DEF FoldSet, MapThenFoldSet, FinishesUp

LEMMA FinishExists ==
  ASSUME NEW d \in Devices, NEW S \in SUBSET Meters, IsFiniteSet(S)
  PROVE  \E g : FinishesUp(g, d, S)
<1> DEFINE step == [p \in S \X Devices |-> FinishPour(p[1], p[2])]
<1>1. \A p \in S \X Devices : FinishPour(p[1], p[2]) \in Devices
  BY FinishPourFields
<1>2. step \in [S \X Devices -> Devices]
  BY <1>1
<1>3. \A m \in S, e \in Devices : step[<<m, e>>] = FinishPour(m, e)
  OBVIOUS
<1>. HIDE DEF step
<1>4. PICK g \in [SUBSET S -> Devices] : FoldsUp(g, step, d, S)
  BY <1>2, FoldExists
<1>5. ASSUME NEW s \in SUBSET S
      PROVE  g[s] = IF s = {} THEN d
                    ELSE FinishPour(CHOOSE m \in s : TRUE, g[s \ {CHOOSE m \in s : TRUE}])
  <2>1. CASE s = {}
    BY <1>4, <2>1 DEF FoldsUp
  <2>2. CASE s # {}
    <3> DEFINE m == CHOOSE m \in s : TRUE
    <3>1. m \in s
      BY <2>2
    <3>2. g[s] = step[<<m, g[s \ {m}]>>]
      BY <1>4, <2>2 DEF FoldsUp
    <3>3. m \in S /\ g[s \ {m}] \in Devices
      BY <3>1
    <3>4. g[s] = FinishPour(m, g[s \ {m}])
      <4>. HIDE DEF m
      <4>. QED  BY <1>3, <3>2, <3>3
    <3>. QED  BY <2>2, <3>4
  <2>. QED  BY <2>1, <2>2
<1>6. g = [s \in SUBSET S |-> g[s]]
  OBVIOUS
<1>7. FinishesUp(g, d, S)
  BY <1>5, <1>6 DEF FinishesUp
<1>. QED  BY <1>7

\* Finishing the pours of some meters, whatever the order
LEMMA FinishAll ==
  ASSUME NEW d \in Devices, Orderly(d), NEW S \in SUBSET Meters, NEW r, r = FoldSet(FinishPour, d, S)
  PROVE  Leads(d, r) /\ \A m \in S : r.pours[m] = NoPour
<1> DEFINE g == CHOOSE g : FinishesUp(g, d, S)
           C == {s \in SUBSET S : Leads(d, g[s]) /\ \A m \in s : g[s].pours[m] = NoPour}
<1>1. IsFiniteSet(S)
  BY PoursAssumption, FS_Subset, Zenon
<1>2. FinishesUp(g, d, S)
  BY <1>1, FinishExists
<1>3. r = g[S]
  BY FinishUnfolds
<1>. HIDE DEF g
<1>4. ASSUME NEW s \in SUBSET S, \A x \in s : s \ {x} \in C PROVE s \in C
  <2>1. CASE s = {}
    <3>1. g[s] = d
      BY <1>2, <2>1 DEF FinishesUp
    <3>. QED  BY <2>1, <3>1, LeadsRefl
  <2>2. CASE s # {}
    <3> DEFINE y == CHOOSE m \in s : TRUE
    <3>1. y \in s
      BY <2>2
    <3>2. g[s] = FinishPour(y, g[s \ {y}])
      BY <1>2, <2>2 DEF FinishesUp
    <3>. HIDE DEF y
    <3> DEFINE e == g[s \ {y}]
               q == g[s]
    <3>3. Leads(d, e) /\ (\A m \in s \ {y} : e.pours[m] = NoPour) /\ q = FinishPour(y, e) /\ y \in Meters
      BY <1>4, <3>1, <3>2
    <3>. HIDE DEF e, q
    <3>4. e \in Devices /\ Orderly(e)
      BY <3>3 DEF Leads
    <3>5. Leads(e, q) /\ q.pours[y] = NoPour
      BY <3>3, <3>4, FinishPourLeads
    <3>6. Leads(d, q)
      BY <3>3, <3>5, LeadsTrans
    <3>7. \A m \in s : q.pours[m] = NoPour
      BY <3>3, <3>5 DEF Leads
    <3>. QED  BY <3>6, <3>7 DEF q
  <2>. QED  BY <2>1, <2>2
<1>5. C \in SUBSET (SUBSET S)
  OBVIOUS
<1>6. ASSUME S \in C PROVE Leads(d, r) /\ \A m \in S : r.pours[m] = NoPour
  BY <1>3, <1>6
<1>. HIDE DEF C
<1>7. C = SUBSET S
  BY <1>1, <1>4, <1>5, SubsetInduction
<1>. QED  BY <1>6, <1>7

-----------------------------------------------------------------------------
(* Ending grants *)

LEMMA DeviceWithOut ==
  ASSUME NEW d \in Devices, NEW O, NEW r, r = [d EXCEPT !.out = O]
  PROVE  r = [grants |-> d.grants, made |-> d.made, pours |-> d.pours, told |-> d.told,
              toldFor |-> d.toldFor, out |-> O]
BY DEF Devices

LEMMA DeviceWithGrants ==
  ASSUME NEW d \in Devices, NEW G, NEW r, r = [d EXCEPT !.grants = G]
  PROVE  r = [grants |-> G, made |-> d.made, pours |-> d.pours, told |-> d.told,
              toldFor |-> d.toldFor, out |-> d.out]
BY DEF Devices

\* A grant ends on some meters: their pours come first.
LEMMA EndingLeads ==
  ASSUME NEW d \in Devices, Orderly(d), NEW o \in 0..MaxGrants, NEW S \in SUBSET Meters,
         NEW r, r = Ending(d, o, S)
  PROVE  Leads(d, r) /\ \A m \in S : r.pours[m] = NoPour
<1> DEFINE e == FoldSet(FinishPour, d, S)
           x == GrantEndEvent(o, S)
           O == Append(e.out, x)
<1>1. Leads(d, e) /\ \A m \in S : e.pours[m] = NoPour
  BY FinishAll
<1>2. r = [e EXCEPT !.out = O]
  BY DEF Ending
<1>3. x \in GrantEnds /\ x.type # "pour" /\ x.meters = S
  BY DEF GrantEndEvent, GrantEnds
<1>. HIDE DEF e, x
<1>4. e \in Devices /\ Orderly(e) /\ e.out \in Seq(PourEvents \cup GrantEnds)
  BY <1>1, DeviceFields DEF Leads
<1>5. /\ O \in Seq(PourEvents \cup GrantEnds)
      /\ DOMAIN O = DOMAIN e.out \cup {Len(e.out) + 1} /\ DOMAIN e.out = 1..Len(e.out) /\ Len(e.out) \in Nat
      /\ \A i \in DOMAIN e.out : O[i] = e.out[i]
      /\ O[Len(e.out) + 1] = x
  BY <1>3, <1>4
<1>. HIDE DEF O
<1>6. r = [grants |-> e.grants, made |-> e.made, pours |-> e.pours, told |-> e.told,
           toldFor |-> e.toldFor, out |-> O]
  BY <1>2, <1>4, DeviceWithOut
<1>7. r \in Devices
  BY <1>4, <1>5, <1>6, DeviceFields DEF Devices
<1>8. Ordered(O)
  BY <1>3, <1>4, <1>5 DEF Ordered, Orderly
<1>9. Closed(r)
  <2>1. SUFFICES ASSUME NEW i \in DOMAIN O, O[i].type = "grant_end", NEW m \in O[i].meters
                 PROVE  e.pours[m].poured = 0
    BY <1>6 DEF Closed
  <2>2. CASE i \in DOMAIN e.out
    BY <1>4, <1>5, <2>1, <2>2 DEF Closed, Orderly
  <2>3. CASE i = Len(e.out) + 1
    BY <1>1, <1>3, <1>5, <2>1, <2>3, NoPourIsSegment
  <2>. QED  BY <1>5, <2>2, <2>3
<1>. QED  BY <1>1, <1>6, <1>7, <1>8, <1>9 DEF Leads, Orderly

\* g ends any set of grants, one after the other, on those of the meters that d has them on.
EndsUp(g, b, d, S, os) ==
  g = [s \in SUBSET os |->
         IF s = {} THEN b
         ELSE Ending(g[s \ {CHOOSE o \in s : TRUE}], CHOOSE o \in s : TRUE,
                     {m \in S : d.grants[m] = CHOOSE o \in s : TRUE})]

Ungranted(d, S) == [d EXCEPT !.grants = [m \in Meters |-> IF m \in S THEN Guest ELSE @[m]]]
GrantsOn(d, S) == {d.grants[m] : m \in S} \ {Guest}

LEMMA EndUnfolds ==
  ASSUME NEW d, NEW S
  PROVE  EndGrants(d, S) = (CHOOSE g : EndsUp(g, Ungranted(d, S), d, S, GrantsOn(d, S)))[GrantsOn(d, S)]
BY DEF EndGrants, FoldSet, MapThenFoldSet, EndsUp, Ungranted, GrantsOn

LEMMA UngrantedFields ==
  ASSUME NEW d \in Devices, NEW S, NEW b, b = Ungranted(d, S)
  PROVE  /\ b \in Devices
         /\ b.grants = [m \in Meters |-> IF m \in S THEN Guest ELSE d.grants[m]]
         /\ b.made = d.made
         /\ b.pours = d.pours
         /\ b.told = d.told
         /\ b.toldFor = d.toldFor
         /\ b.out = d.out
<1> DEFINE G == [m \in Meters |-> IF m \in S THEN Guest ELSE d.grants[m]]
<1>1. b = [d EXCEPT !.grants = G]
  BY DEF Ungranted
<1>2. G \in [Meters -> 0..MaxGrants]
  BY PoursAssumption, DeviceFields DEF Guest
<1>. HIDE DEF G
<1>3. b = [grants |-> G, made |-> d.made, pours |-> d.pours, told |-> d.told,
           toldFor |-> d.toldFor, out |-> d.out]
  BY <1>1, DeviceWithGrants
<1>. QED  BY <1>2, <1>3, DeviceFields DEF Devices, G

LEMMA UngrantedOrderly ==
  ASSUME NEW d \in Devices, Orderly(d), NEW S
  PROVE  Ungranted(d, S) \in Devices /\ Orderly(Ungranted(d, S))
<1> DEFINE b == Ungranted(d, S)
<1>0. b = Ungranted(d, S)
  OBVIOUS
<1>. HIDE DEF b
<1>1. b \in Devices /\ b.pours = d.pours /\ b.out = d.out
  <2>1. /\ b \in Devices
        /\ b.grants = [m \in Meters |-> IF m \in S THEN Guest ELSE d.grants[m]]
        /\ b.made = d.made
        /\ b.pours = d.pours
        /\ b.told = d.told
        /\ b.toldFor = d.toldFor
        /\ b.out = d.out
    BY <1>0, UngrantedFields
  <2>. QED  BY <2>1
<1>2. Orderly(b)
  BY <1>1 DEF Orderly, Closed
<1>. QED  BY <1>1, <1>2 DEF b

LEMMA EndsExist ==
  ASSUME NEW b \in Devices, Orderly(b), NEW d \in Devices, NEW S \in SUBSET Meters,
         NEW os \in SUBSET (0..MaxGrants), IsFiniteSet(os)
  PROVE  \E g : EndsUp(g, b, d, S, os)
<1> DEFINE D == {e \in Devices : Orderly(e)}
           On(o) == {m \in S : d.grants[m] = o}
           step == [p \in os \X D |-> Ending(p[2], p[1], On(p[1]))]
<1>1. ASSUME NEW p \in os \X D PROVE Ending(p[2], p[1], On(p[1])) \in D
  <2>1. p[1] \in 0..MaxGrants /\ p[2] \in Devices /\ Orderly(p[2]) /\ On(p[1]) \in SUBSET Meters
    OBVIOUS
  <2>2. Leads(p[2], Ending(p[2], p[1], On(p[1])))
    <3>. HIDE DEF On
    <3>. QED  BY <2>1, EndingLeads
  <2>. QED  BY <2>2 DEF Leads
<1>2. step \in [os \X D -> D]
  BY <1>1
<1>3. \A o \in os, e \in D : step[<<o, e>>] = Ending(e, o, On(o))
  OBVIOUS
<1>4. b \in D
  OBVIOUS
<1>. HIDE DEF step, D
<1>5. PICK g \in [SUBSET os -> D] : FoldsUp(g, step, b, os)
  BY <1>2, <1>4, FoldExists
<1>6. ASSUME NEW s \in SUBSET os
      PROVE  g[s] = IF s = {} THEN b
                    ELSE Ending(g[s \ {CHOOSE o \in s : TRUE}], CHOOSE o \in s : TRUE,
                                {m \in S : d.grants[m] = CHOOSE o \in s : TRUE})
  <2>1. CASE s = {}
    BY <1>5, <2>1 DEF FoldsUp
  <2>2. CASE s # {}
    <3> DEFINE x == CHOOSE o \in s : TRUE
    <3>1. x \in s
      BY <2>2
    <3>2. g[s] = step[<<x, g[s \ {x}]>>]
      BY <1>5, <2>2 DEF FoldsUp
    <3>3. x \in os /\ g[s \ {x}] \in D
      BY <3>1
    <3>4. g[s] = Ending(g[s \ {x}], x, On(x))
      <4>. HIDE DEF x, On
      <4>. QED  BY <1>3, <3>2, <3>3
    <3>. QED  BY <2>2, <3>4
  <2>. QED  BY <2>1, <2>2
<1>7. g = [s \in SUBSET os |-> g[s]]
  OBVIOUS
<1>8. EndsUp(g, b, d, S, os)
  BY <1>6, <1>7 DEF EndsUp
<1>. QED  BY <1>8

\* Ending the grants on some meters, whatever the order
LEMMA EndGrantsLeads ==
  ASSUME NEW d \in Devices, Orderly(d), NEW S \in SUBSET Meters, NEW r, r = EndGrants(d, S)
  PROVE  Leads(Ungranted(d, S), r) /\ \A m \in S : d.grants[m] # Guest => r.pours[m] = NoPour
<1> DEFINE b == Ungranted(d, S)
           os == GrantsOn(d, S)
           On(o) == {m \in S : d.grants[m] = o}
           g == CHOOSE g : EndsUp(g, b, d, S, os)
           C == {s \in SUBSET os : Leads(b, g[s]) /\ \A m \in S : d.grants[m] \in s => g[s].pours[m] = NoPour}
<1>1. os \in SUBSET (0..MaxGrants) /\ IsFiniteSet(os)
  <2>1. os \in SUBSET (0..MaxGrants)
    BY DeviceFields DEF GrantsOn
  <2>2. 0 \in Int /\ MaxGrants \in Int
    BY PoursAssumption
  <2>3. IsFiniteSet(0..MaxGrants)
    BY <2>2, FS_Interval
  <2>. HIDE DEF os
  <2>. QED  BY <2>1, <2>3, FS_Subset, Zenon
<1>2. b \in Devices /\ Orderly(b)
  BY UngrantedOrderly
<1>3. EndsUp(g, b, d, S, os)
  <2>. HIDE DEF os
  <2>. QED  BY <1>1, <1>2, EndsExist
<1>4. r = g[os]
  BY EndUnfolds
<1>5. \A m \in S : d.grants[m] # Guest => d.grants[m] \in os
  BY DEF GrantsOn
<1>. HIDE DEF b, g, os
<1>6. ASSUME NEW s \in SUBSET os, \A x \in s : s \ {x} \in C PROVE s \in C
  <2>1. CASE s = {}
    <3>1. g[s] = b
      BY <1>3, <2>1 DEF EndsUp
    <3>. QED  BY <1>2, <2>1, <3>1, LeadsRefl
  <2>2. CASE s # {}
    <3> DEFINE y == CHOOSE o \in s : TRUE
    <3>1. y \in s
      BY <2>2
    <3>2. g[s] = Ending(g[s \ {y}], y, On(y))
      BY <1>3, <2>2 DEF EndsUp
    <3>. HIDE DEF y
    <3> DEFINE e == g[s \ {y}]
               q == g[s]
    <3>3. /\ Leads(b, e) /\ (\A m \in S : d.grants[m] \in s \ {y} => e.pours[m] = NoPour)
          /\ q = Ending(e, y, On(y)) /\ y \in 0..MaxGrants /\ On(y) \in SUBSET Meters
      BY <1>1, <1>6, <3>1, <3>2
    <3>. HIDE DEF e, q
    <3>4. e \in Devices /\ Orderly(e)
      BY <3>3 DEF Leads
    <3>5. Leads(e, q) /\ \A m \in On(y) : q.pours[m] = NoPour
      <4>. HIDE DEF On
      <4>. QED  BY <3>3, <3>4, EndingLeads
    <3>6. Leads(b, q)
      BY <3>3, <3>5, LeadsTrans
    <3>7. ASSUME NEW m \in S, d.grants[m] \in s PROVE q.pours[m] = NoPour
      <4>1. CASE d.grants[m] = y
        BY <3>5, <4>1
      <4>2. CASE d.grants[m] # y
        <5>1. e.pours[m] = NoPour /\ q.pours[m] \in {e.pours[m], NoPour}
          BY <3>3, <3>5, <3>7, <4>2 DEF Leads
        <5>. QED  BY <5>1
      <4>. QED  BY <4>1, <4>2
    <3>. QED  BY <3>6, <3>7 DEF q
  <2>. QED  BY <2>1, <2>2
<1>7. C \in SUBSET (SUBSET os)
  OBVIOUS
<1>8. ASSUME os \in C PROVE Leads(b, r) /\ \A m \in S : d.grants[m] # Guest => r.pours[m] = NoPour
  BY <1>4, <1>5, <1>8
<1>. HIDE DEF C
<1>9. C = SUBSET os
  BY <1>1, <1>6, <1>7, SubsetInduction
<1>. QED  BY <1>8, <1>9 DEF b

-----------------------------------------------------------------------------
(* What ending pours and grants keeps of the invariant *)

Keeps(d, e) ==
  /\ Sane(e) /\ Orderly(e) /\ e.made = d.made
  /\ \A m \in Meters : /\ e.pours[m] \in {d.pours[m], NoPour}
                       /\ e.told[m] + e.pours[m].poured = d.told[m] + d.pours[m].poured
  /\ Charged(d) => Charged(e)

LEMMA ChargedLeads ==
  ASSUME NEW d, Made(d), d.made \in Seq(Dicts), Charged(d), NEW e, Leads(d, e)
  PROVE  Charged(e)
<1>1. SUFFICES ASSUME NEW o \in DOMAIN e.made
               PROVE  e.made[o].poured <= e.toldFor[o] + InFlight(e.pours, o)
  BY DEF Charged
<1>2. e.made = d.made /\ o \in 1..Len(d.made) /\ Len(d.made) \in Nat
  BY <1>1 DEF Leads
<1>3. o \in 0..MaxGrants
  BY <1>2, PoursAssumption DEF Made
<1>4. e.toldFor[o] + InFlight(e.pours, o) = d.toldFor[o] + InFlight(d.pours, o)
  BY <1>3 DEF Leads
<1>. QED  BY <1>1, <1>2, <1>4 DEF Charged

LEMMA FinishPourKeeps ==
  ASSUME NEW d, Sane(d), Orderly(d), NEW m \in Meters, NEW r, r = FinishPour(m, d)
  PROVE  Keeps(d, r) /\ r.grants = d.grants /\ r.pours[m] = NoPour
<1>1. Leads(d, r) /\ r.pours[m] = NoPour
  BY FinishPourLeads DEF Sane
<1>2. Made(r) /\ OneEach(r) /\ r \in Devices
  BY <1>1 DEF Leads, Sane, Made, OneEach
<1>3. Attributed(r)
  <2>1. ASSUME NEW n \in Meters PROVE r.pours[n].grant \in {Guest, r.grants[n]}
    <3>1. r.pours[n] \in {d.pours[n], NoPour} /\ r.grants = d.grants /\ d.pours[n].grant \in {Guest, d.grants[n]}
      BY <1>1 DEF Leads, Sane, Attributed
    <3>. QED  BY <3>1, NoPourIsSegment
  <2>. QED  BY <2>1 DEF Attributed
<1>4. Charged(d) => Charged(r)
  BY <1>1, ChargedLeads, DeviceFields DEF Sane
<1>. QED  BY <1>1, <1>2, <1>3, <1>4 DEF Leads, Keeps, Sane

LEMMA EndGrantsKeeps ==
  ASSUME NEW d, Sane(d), Orderly(d), NEW S \in SUBSET Meters, NEW r, r = EndGrants(d, S)
  PROVE  /\ Keeps(d, r)
         /\ r.grants = [m \in Meters |-> IF m \in S THEN Guest ELSE d.grants[m]]
         /\ \A m \in S : d.grants[m] # Guest => r.pours[m] = NoPour
<1> DEFINE b == Ungranted(d, S)
<1>1. /\ b \in Devices
      /\ b.grants = [m \in Meters |-> IF m \in S THEN Guest ELSE d.grants[m]]
      /\ b.made = d.made /\ b.pours = d.pours /\ b.told = d.told /\ b.toldFor = d.toldFor
  BY UngrantedFields DEF Sane
<1>2. Leads(b, r) /\ \A m \in S : d.grants[m] # Guest => r.pours[m] = NoPour
  BY EndGrantsLeads DEF Sane
<1>. HIDE DEF b
<1>3. r \in Devices /\ Orderly(r) /\ r.made = d.made /\ r.grants = b.grants
  BY <1>1, <1>2 DEF Leads
<1>4. \A m \in Meters : r.grants[m] = IF m \in S THEN Guest ELSE d.grants[m]
  BY <1>1, <1>3
<1>5. \A m \in Meters : /\ r.pours[m] \in {d.pours[m], NoPour}
                        /\ r.told[m] + r.pours[m].poured = d.told[m] + d.pours[m].poured
  BY <1>1, <1>2 DEF Leads
<1>6. Made(r) /\ OneEach(r) /\ Made(b)
  <2>1. Len(d.made) \in Nat /\ Made(d) /\ OneEach(d)
    BY DeviceFields DEF Sane
  <2>2. Made(r)
    BY <1>3, <1>4, <2>1 DEF Made, Guest
  <2>3. OneEach(r)
    BY <1>3, <1>4, <2>1 DEF OneEach
  <2>. QED  BY <1>1, <1>3, <2>2, <2>3 DEF Made
<1>7. Attributed(r)
  <2>1. ASSUME NEW n \in Meters PROVE r.pours[n].grant \in {Guest, r.grants[n]}
    <3>1. r.pours[n] \in {d.pours[n], NoPour} /\ d.pours[n].grant \in {Guest, d.grants[n]}
      BY <1>5 DEF Sane, Attributed
    <3>2. CASE n \in S /\ d.grants[n] # Guest
      BY <1>2, <3>2, NoPourIsSegment
    <3>3. CASE n \in S /\ d.grants[n] = Guest
      BY <3>1, <3>3, NoPourIsSegment
    <3>4. CASE n \notin S
      BY <1>4, <3>1, <3>4, NoPourIsSegment
    <3>. QED  BY <3>2, <3>3, <3>4
  <2>. QED  BY <2>1 DEF Attributed
<1>8. ASSUME Charged(d) PROVE Charged(r)
  <2>1. Charged(b)
    BY <1>1, <1>8 DEF Charged
  <2>. QED  BY <1>1, <1>2, <1>6, <2>1, ChargedLeads, DeviceFields
<1>. QED  BY <1>1, <1>2, <1>3, <1>5, <1>6, <1>7, <1>8 DEF Keeps, Sane

-----------------------------------------------------------------------------
(* Filling a glass *)

\* The segment of a glass after k more flowed in
After(d, c, m, k) ==
  [glass |-> c, grant |-> IF d.grants[m] = Guest THEN Current(d, c, m).grant ELSE d.grants[m],
   poured |-> Current(d, c, m).poured + k]

\* The dict of a grant after it was charged k
ChargedBy(dicts, o, k) == [dicts EXCEPT ![o].poured = @ + k]

LEMMA DictCharged ==
  ASSUME NEW x \in Dicts, NEW k \in Nat, NEW e, e = [x EXCEPT !.poured = @ + k]
  PROVE  e \in Dicts /\ e.id = x.id /\ e.poured = x.poured + k /\ x.poured \in Nat
<1> DEFINE Tokens == {s.token : s \in Specs}
<1>1. x \in [id : GrantIds, token : Tokens, maxVolume : Nat, poured : Nat]
  BY DEF Dicts
<1>. HIDE DEF Tokens
<1>2. e \in [id : GrantIds, token : Tokens, maxVolume : Nat, poured : Nat]
  BY <1>1
<1>3. e.id = x.id /\ e.poured = x.poured + k /\ x.poured \in Nat
  BY <1>1
<1>. QED  BY <1>2, <1>3 DEF Dicts, Tokens

LEMMA SegmentWith ==
  ASSUME NEW p, NEW g, NEW o, NEW n, p = [glass |-> g, grant |-> o, poured |-> n]
  PROVE  /\ \A k : [p EXCEPT !.poured = @ + k] = [glass |-> g, grant |-> o, poured |-> n + k]
         /\ \A x : [p EXCEPT !.grant = x] = [glass |-> g, grant |-> x, poured |-> n]
OBVIOUS

LEMMA CurrentIs ==
  ASSUME NEW d, Sane(d), NEW c \in Glasses, NEW m \in Meters, NEW p, p = Current(d, c, m)
  PROVE  /\ p \in Segments /\ p.glass = c /\ p.grant \in {Guest, d.grants[m]} /\ p.grant \in 0..MaxGrants
         /\ p.poured = IF d.pours[m].glass = c THEN d.pours[m].poured ELSE 0
         /\ p = [glass |-> c, grant |-> p.grant, poured |-> p.poured]
<1>1. d.pours[m] \in Segments /\ d.grants[m] \in 0..MaxGrants /\ d.pours[m].grant \in {Guest, d.grants[m]}
  BY DeviceFields DEF Sane, Attributed
<1>2. CASE d.pours[m].glass = c
  <2>1. p = d.pours[m]
    BY <1>2 DEF Current
  <2>. QED  BY <1>1, <1>2, <2>1 DEF Segments
<1>3. CASE d.pours[m].glass # c
  <2>1. p = [glass |-> c, grant |-> d.grants[m], poured |-> 0]
    BY <1>3 DEF Current, Segment
  <2>. QED  BY <1>1, <1>3, <2>1 DEF Segments
<1>. QED  BY <1>2, <1>3

LEMMA AfterIs ==
  ASSUME NEW d, Sane(d), NEW c \in Glasses, NEW m \in Meters, NEW k \in Nat, NEW q, q = After(d, c, m, k)
  PROVE  /\ q \in Segments /\ q.glass = c
         /\ q.grant \in {Guest, d.grants[m]}
         /\ d.grants[m] # Guest => q.grant = d.grants[m]
         /\ q.poured = (IF d.pours[m].glass = c THEN d.pours[m].poured ELSE 0) + k
<1> DEFINE p == Current(d, c, m)
<1>1. /\ p \in Segments /\ p.grant \in {Guest, d.grants[m]} /\ p.grant \in 0..MaxGrants
      /\ p.poured = IF d.pours[m].glass = c THEN d.pours[m].poured ELSE 0
  BY CurrentIs
<1>2. q = [glass |-> c, grant |-> IF d.grants[m] = Guest THEN p.grant ELSE d.grants[m], poured |-> p.poured + k]
  BY DEF After
<1>. HIDE DEF p
<1>3. d.grants[m] \in 0..MaxGrants /\ p.poured \in Nat
  BY <1>1, DeviceFields DEF Sane, Segments
<1>. QED  BY <1>1, <1>2, <1>3 DEF Segments

LEMMA ChargedByIs ==
  ASSUME NEW s \in Seq(Dicts), NEW o \in DOMAIN s, NEW k \in Nat, NEW t, t = ChargedBy(s, o, k)
  PROVE  /\ t \in Seq(Dicts) /\ Len(t) = Len(s) /\ DOMAIN t = DOMAIN s
         /\ \A x \in DOMAIN s : t[x].id = s[x].id /\ t[x].poured = s[x].poured + (IF x = o THEN k ELSE 0)
<1> DEFINE e == [s[o] EXCEPT !.poured = @ + k]
<1>1. s[o] \in Dicts /\ \A x \in DOMAIN s : s[x] \in Dicts
  OBVIOUS
<1>2. e \in Dicts /\ e.id = s[o].id /\ e.poured = s[o].poured + k
  BY <1>1, DictCharged
<1>3. t = [s EXCEPT ![o] = e]
  BY DEF ChargedBy
<1>. HIDE DEF e
<1>4. t \in Seq(Dicts) /\ Len(t) = Len(s) /\ DOMAIN t = DOMAIN s
  BY <1>2, <1>3
<1>5. \A x \in DOMAIN s : t[x] = IF x = o THEN e ELSE s[x]
  BY <1>3
<1>6. \A x \in DOMAIN s : s[x].poured \in Nat
  BY <1>1 DEF Dicts
<1>. QED  BY <1>2, <1>4, <1>5, <1>6

\* What flows goes to the meter's segment, and is charged to the grant there.
LEMMA FilledFields ==
  ASSUME NEW d, Sane(d), NEW c \in Glasses, NEW m \in Meters, NEW k \in Nat, NEW r, r = Filled(d, c, m, k)
  PROVE  /\ r \in Devices
         /\ r.grants = d.grants /\ r.told = d.told /\ r.toldFor = d.toldFor /\ r.out = d.out
         /\ r.pours = [d.pours EXCEPT ![m] = After(d, c, m, k)]
         /\ r.made = IF d.grants[m] = Guest THEN d.made ELSE ChargedBy(d.made, d.grants[m], k)
<1> DEFINE o == d.grants[m]
           p == Current(d, c, m)
           q == After(d, c, m, k)
           P == [d.pours EXCEPT ![m] = q]
           M == ChargedBy(d.made, o, k)
           p1 == [p EXCEPT !.poured = @ + k]
<1>1. d \in Devices /\ o \in 0..MaxGrants /\ o <= Len(d.made) /\ d.made \in Seq(Dicts)
  BY DeviceFields DEF Sane, Made
<1>2. /\ p \in Segments /\ p.poured \in Nat
      /\ p = [glass |-> c, grant |-> p.grant, poured |-> p.poured]
  BY CurrentIs DEF Segments
<1>3. q \in Segments /\ P \in [Meters -> Segments]
  <2>1. q \in Segments
    BY AfterIs
  <2>. HIDE DEF q
  <2>. QED  BY <1>1, <2>1, DeviceFields
<1>4. q = [glass |-> c, grant |-> IF o = Guest THEN p.grant ELSE o, poured |-> p.poured + k]
  BY DEF After
<1>5. CASE o = Guest
  <2>1. p1 = q
    <3>. HIDE DEF p, q, o
    <3>. QED  BY <1>2, <1>4, <1>5
  <2>2. r = [d EXCEPT !.pours[m] = p1]
    BY <1>5 DEF Filled
  <2>. HIDE DEF p1, q
  <2>3. r = [d EXCEPT !.pours = P]
    BY <2>1, <2>2
  <2>. HIDE DEF P
  <2>4. r = [grants |-> d.grants, made |-> d.made, pours |-> P, told |-> d.told,
             toldFor |-> d.toldFor, out |-> d.out]
    BY <1>1, <2>3, DeviceWithPours
  <2>. QED  BY <1>1, <1>3, <1>5, <2>4, DeviceFields DEF Devices, P, q
<1>6. CASE o # Guest
  <2>1. [p1 EXCEPT !.grant = o] = q
    <3>1. p1 = [glass |-> c, grant |-> p.grant, poured |-> p.poured + k]
      <4>. HIDE DEF p
      <4>. QED  BY <1>2, SegmentWith
    <3>. HIDE DEF p1, p, q, o
    <3>. QED  BY <1>4, <1>6, <3>1, SegmentWith
  <2>2. r = [d EXCEPT !.pours[m] = [p1 EXCEPT !.grant = o], !.made[o].poured = @ + k]
    BY <1>6 DEF Filled, Charge
  <2>3. M \in Seq(Dicts)
    <3>1. o \in DOMAIN d.made
      BY <1>1, <1>6 DEF Guest
    <3>. HIDE DEF o, M
    <3>. QED  BY <1>1, <3>1, ChargedByIs DEF M
  <2>. HIDE DEF p1, q, o
  <2>4. r = [d EXCEPT !.pours[m] = q, !.made[o].poured = @ + k]
    BY <2>1, <2>2
  <2>5. r = [grants |-> d.grants, made |-> M, pours |-> P, told |-> d.told,
             toldFor |-> d.toldFor, out |-> d.out]
    <3>1. r = [grants |-> d.grants, made |-> [d.made EXCEPT ![o].poured = @ + k],
               pours |-> [d.pours EXCEPT ![m] = q], told |-> d.told, toldFor |-> d.toldFor, out |-> d.out]
      BY <1>1, <2>4 DEF Devices
    <3>2. M = [d.made EXCEPT ![o].poured = @ + k]
      BY DEF ChargedBy
    <3>. QED  BY <3>1, <3>2
  <2>. HIDE DEF P, M
  <2>. QED  BY <1>1, <1>3, <1>6, <2>3, <2>5, DeviceFields DEF Devices, P, q, M, o
<1>. QED  BY <1>5, <1>6

\* A glass that owns its meter's segment, or finds none there, loses nothing.
LEMMA FilledKeeps ==
  ASSUME NEW d, Sane(d), d.out = <<>>, NEW c \in Glasses, NEW m \in Meters, NEW k \in Nat,
         NEW r, r = Filled(d, c, m, k)
  PROVE  /\ Sane(r) /\ Orderly(r) /\ r.told = d.told /\ r.grants = d.grants
         /\ r.pours[m].glass = c
         /\ \A n \in Meters \ {m} : r.pours[n] = d.pours[n]
         /\ (d.pours[m] = NoPour \/ d.pours[m].glass = c) =>
              /\ r.pours[m].poured = d.pours[m].poured + k
              /\ Charged(d) => Charged(r)
<1> DEFINE o == d.grants[m]
           q == After(d, c, m, k)
<1>1. /\ r \in Devices
      /\ r.grants = d.grants /\ r.told = d.told /\ r.toldFor = d.toldFor /\ r.out = d.out
      /\ r.pours = [d.pours EXCEPT ![m] = q]
      /\ r.made = IF o = Guest THEN d.made ELSE ChargedBy(d.made, o, k)
  BY FilledFields
<1>2. /\ q \in Segments /\ q.glass = c
      /\ q.grant \in {Guest, o}
      /\ o # Guest => q.grant = o
      /\ q.poured = (IF d.pours[m].glass = c THEN d.pours[m].poured ELSE 0) + k
  BY AfterIs
<1>3. /\ d \in Devices /\ d.grants \in [Meters -> 0..MaxGrants] /\ d.made \in Seq(Dicts)
      /\ d.pours \in [Meters -> Segments] /\ d.toldFor \in [0..MaxGrants -> Nat]
      /\ Made(d) /\ Attributed(d) /\ OneEach(d)
  BY DeviceFields DEF Sane
<1>4. o \in Nat /\ o <= Len(d.made) /\ Len(d.made) \in Nat /\ Len(d.made) <= MaxGrants
      /\ (o # Guest => o \in DOMAIN d.made) /\ d.pours[m].grant \in {Guest, o}
      /\ d.pours[m] \in Segments /\ d.pours[m].poured \in Nat
  BY <1>3 DEF Made, Attributed, Guest, Segments
<1>. HIDE DEF q
<1>5. r.pours \in [Meters -> Segments] /\ r.pours[m] = q /\ \A n \in Meters \ {m} : r.pours[n] = d.pours[n]
  BY <1>1, <1>2, <1>3
<1> DEFINE more(x) == IF x = o THEN k ELSE 0
<1>6. /\ Len(r.made) = Len(d.made) /\ DOMAIN r.made = DOMAIN d.made
      /\ \A x \in DOMAIN d.made : r.made[x].id = d.made[x].id /\ r.made[x].poured = d.made[x].poured + more(x)
  <2>1. \A x \in DOMAIN d.made : d.made[x].poured \in Nat /\ x # 0
    <3>1. \A x \in DOMAIN d.made : d.made[x] \in Dicts /\ x \in 1..Len(d.made)
      BY <1>3
    <3>. QED  BY <1>4, <3>1 DEF Dicts
  <2>2. CASE o = Guest
    BY <1>1, <2>1, <2>2 DEF Guest
  <2>3. CASE o # Guest
    <3>1. r.made = ChargedBy(d.made, o, k) /\ o \in DOMAIN d.made
      BY <1>1, <1>4, <2>3
    <3>. HIDE DEF o
    <3>. QED  BY <1>3, <3>1, ChargedByIs
  <2>. QED  BY <2>2, <2>3
<1>7. Orderly(r)
  BY <1>1 DEF Orderly, Ordered, Closed
<1>8. Made(r)
  BY <1>1, <1>3, <1>6 DEF Made
<1>9. Attributed(r)
  BY <1>1, <1>2, <1>3, <1>5 DEF Attributed
<1>10. OneEach(r)
  <2>1. \A n \in Meters : d.grants[n] # Guest => d.grants[n] \in DOMAIN d.made
    BY <1>3, <1>4 DEF Made, Guest
  <2>. QED  BY <1>1, <1>3, <1>6, <2>1 DEF OneEach
<1>11. ASSUME d.pours[m] = NoPour \/ d.pours[m].glass = c
       PROVE  q.poured = d.pours[m].poured + k
  BY <1>2, <1>4, <1>11, NoPourIsSegment
<1>12. ASSUME d.pours[m] = NoPour \/ d.pours[m].glass = c, Charged(d), NEW x \in DOMAIN r.made
       PROVE  r.made[x].poured <= r.toldFor[x] + InFlight(r.pours, x)
  <2>1. /\ x \in DOMAIN d.made /\ x # Guest /\ x \in 0..MaxGrants
        /\ d.made[x].poured <= d.toldFor[x] + InFlight(d.pours, x)
        /\ d.made[x].poured \in Nat
        /\ r.made[x].poured = d.made[x].poured + more(x)
    <3>1. x \in DOMAIN d.made
      BY <1>6, <1>12
    <3>2. d.made[x] \in Dicts /\ x \in 1..Len(d.made)
      BY <1>3, <3>1
    <3>. QED  BY <1>4, <1>6, <1>12, <3>1, <3>2, PoursAssumption DEF Charged, Dicts, Guest
  <2>2. /\ InFlight(d.pours, x) \in Nat /\ InFlight(r.pours, x) \in Nat
        /\ InFlight(r.pours, x) + Part(d.pours[m], x) = InFlight(d.pours, x) + Part(q, x)
    <3> DEFINE P == d.pours
               R == r.pours
    <3>1. P \in [Meters -> Segments] /\ R \in [Meters -> Segments] /\ \A n \in Meters \ {m} : R[n] = P[n]
      BY <1>3, <1>5
    <3>2. /\ InFlight(P, x) \in Nat /\ InFlight(R, x) \in Nat
          /\ InFlight(R, x) + Part(P[m], x) = InFlight(P, x) + Part(R[m], x)
      <4>. HIDE DEF P, R
      <4>. QED  BY <3>1, InFlightChange
    <3>. QED  BY <1>5, <3>2
  <2>3. Part(q, x) >= Part(d.pours[m], x) + more(x)
    <3>1. CASE x = o
      <4>1. Part(q, x) = d.pours[m].poured + k /\ more(x) = k
        BY <1>2, <1>11, <1>12, <2>1, <3>1 DEF Part
      <4>2. Part(d.pours[m], x) \in Nat /\ Part(d.pours[m], x) <= d.pours[m].poured
        BY <1>4 DEF Part
      <4>. QED  BY <1>4, <4>1, <4>2
    <3>2. CASE x # o
      <4>1. Part(q, x) = 0 /\ Part(d.pours[m], x) = 0 /\ more(x) = 0
        BY <1>2, <1>4, <2>1, <3>2 DEF Part
      <4>. QED  BY <4>1
    <3>. QED  BY <3>1, <3>2
  <2>4. Part(q, x) \in Nat /\ Part(d.pours[m], x) \in Nat /\ more(x) \in Nat
    BY <1>2, <1>4 DEF Part, Segments
  <2>5. r.toldFor[x] = d.toldFor[x] /\ d.toldFor[x] \in Nat
    BY <1>1, <1>3, <2>1
  <2> DEFINE a == d.made[x].poured
             f == InFlight(d.pours, x)
             g == InFlight(r.pours, x)
             s == Part(d.pours[m], x)
             t == Part(q, x)
             u == d.toldFor[x]
             v == more(x)
  <2>6. /\ a \in Nat /\ f \in Nat /\ g \in Nat /\ s \in Nat /\ t \in Nat /\ u \in Nat /\ v \in Nat
        /\ a <= u + f /\ g + s = f + t /\ t >= s + v
    BY <2>1, <2>2, <2>3, <2>4, <2>5
  <2>7. r.made[x].poured = a + v /\ r.toldFor[x] = u /\ InFlight(r.pours, x) = g
    BY <2>1, <2>5
  <2>8. a + v <= u + g
    <3>. HIDE DEF a, f, g, s, t, u, v
    <3>. QED  BY <2>6
  <2>. HIDE DEF a, u, v, g
  <2>. QED  BY <2>7, <2>8
<1>13. ASSUME d.pours[m] = NoPour \/ d.pours[m].glass = c, Charged(d) PROVE Charged(r)
  BY <1>12, <1>13 DEF Charged
<1>. QED  BY <1>1, <1>2, <1>5, <1>7, <1>8, <1>9, <1>10, <1>11, <1>13 DEF Sane

-----------------------------------------------------------------------------
(* Granting *)

LEMMA DeviceWithMadeGrants ==
  ASSUME NEW d \in Devices, NEW M, NEW G, NEW r, r = [d EXCEPT !.made = M, !.grants = G]
  PROVE  r = [grants |-> G, made |-> M, pours |-> d.pours, told |-> d.told,
              toldFor |-> d.toldFor, out |-> d.out]
BY DEF Devices

\* The dict s is in, and what it becomes
Target(d, s) == IF Existing(s) = {} THEN Len(d.made) + 1 ELSE CHOOSE x \in Existing(s) : TRUE
Terms(d, s) ==
  [id |-> s.id, token |-> s.token, maxVolume |-> s.maxVolume,
   poured |-> IF Existing(s) = {} THEN 0 ELSE d.made[Target(d, s)].poured]

LEMMA TermsAreADict ==
  ASSUME NEW s \in Specs, NEW n \in Nat, NEW x,
         x = [id |-> s.id, token |-> s.token, maxVolume |-> s.maxVolume, poured |-> n]
  PROVE  x \in Dicts /\ x.id = s.id /\ x.poured = n
<1> DEFINE Tokens == {z.token : z \in Specs}
<1>1. s.id \in GrantIds /\ s.token \in Tokens /\ s.maxVolume \in Nat
  BY PoursAssumption
<1>. HIDE DEF Tokens
<1>2. x \in [id : GrantIds, token : Tokens, maxVolume : Nat, poured : Nat]
  BY <1>1
<1>. QED  BY <1>2 DEF Dicts, Tokens

LEMMA GrantedFields ==
  ASSUME NEW d \in Devices, NEW s \in Specs, Acceptable(s), NEW r, r = Granted(d, s),
         NEW o, o = Target(d, s), o \in 0..MaxGrants,
         Existing(s) # {} => o \in DOMAIN d.made
  PROVE  /\ r \in Devices
         /\ r.grants = [m \in Meters |-> IF m \in s.meters THEN o ELSE d.grants[m]]
         /\ r.pours = d.pours /\ r.told = d.told /\ r.toldFor = d.toldFor /\ r.out = d.out
         /\ Terms(d, s).id = s.id
         /\ Existing(s) = {} => r.made = Append(d.made, Terms(d, s)) /\ Terms(d, s).poured = 0
         /\ Existing(s) # {} => /\ r.made = [d.made EXCEPT ![o] = Terms(d, s)]
                                /\ Terms(d, s).poured = d.made[o].poured
<1> DEFINE x == Terms(d, s)
           n == IF Existing(s) = {} THEN 0 ELSE d.made[o].poured
           M == IF Existing(s) = {} THEN Append(d.made, x) ELSE [d.made EXCEPT ![o] = x]
           G == [m \in Meters |-> IF m \in s.meters THEN o ELSE d.grants[m]]
<1>1. r = [d EXCEPT !.made = M, !.grants = G]
  BY DEF Granted, Target, Terms
<1>2. d.grants \in [Meters -> 0..MaxGrants] /\ d.made \in Seq(Dicts)
  BY DeviceFields
<1>3. n \in Nat
  <2>1. CASE Existing(s) = {}
    BY <2>1
  <2>2. CASE Existing(s) # {}
    <3>1. d.made[o] \in Dicts
      BY <1>2, <2>2
    <3>. QED  BY <2>2, <3>1 DEF Dicts
  <2>. QED  BY <2>1, <2>2
<1>4. x = [id |-> s.id, token |-> s.token, maxVolume |-> s.maxVolume, poured |-> n]
  BY DEF Terms
<1>. HIDE DEF n, x
<1>5. x \in Dicts /\ x.id = s.id /\ x.poured = n
  BY <1>3, <1>4, TermsAreADict
<1>6. M \in Seq(Dicts)
  <2>1. CASE Existing(s) = {}
    BY <1>2, <1>5, <2>1
  <2>2. CASE Existing(s) # {}
    BY <1>2, <1>5, <2>2
  <2>. QED  BY <2>1, <2>2
<1>7. G \in [Meters -> 0..MaxGrants]
  BY <1>2
<1>. HIDE DEF M, G
<1>8. r = [grants |-> G, made |-> M, pours |-> d.pours, told |-> d.told,
           toldFor |-> d.toldFor, out |-> d.out]
  BY <1>1, DeviceWithMadeGrants
<1>9. r \in Devices
  BY <1>6, <1>7, <1>8, DeviceFields DEF Devices
<1>. QED  BY <1>5, <1>8, <1>9 DEF M, G, x, n

LEMMA DeviceIs ==
  /\ Device.grants = grants /\ Device.made = made /\ Device.pours = pours /\ Device.told = told
  /\ Device.toldFor = toldFor /\ Device.out = <<>>
BY DEF Device

\* What Sane says of the variables
LEMMA SaneDevice ==
  ASSUME Sane(Device)
  PROVE  /\ Device \in Devices /\ Orderly(Device)
         /\ grants \in [Meters -> 0..MaxGrants] /\ made \in Seq(Dicts) /\ pours \in [Meters -> Segments]
         /\ told \in [Meters -> Nat] /\ toldFor \in [0..MaxGrants -> Nat]
         /\ Len(made) \in Nat /\ Len(made) <= MaxGrants
         /\ \A m \in Meters : grants[m] # Guest => grants[m] \in DOMAIN made
         /\ \A m \in Meters : pours[m].grant \in {Guest, grants[m]}
         /\ \A m, n \in Meters :
              grants[m] # Guest /\ grants[n] # Guest /\ made[grants[m]].id = made[grants[n]].id =>
                grants[m] = grants[n]
<1>1. /\ grants \in [Meters -> 0..MaxGrants] /\ made \in Seq(Dicts) /\ pours \in [Meters -> Segments]
      /\ told \in [Meters -> Nat] /\ toldFor \in [0..MaxGrants -> Nat]
  BY DeviceIs, DeviceFields DEF Sane
<1>2. Orderly(Device)
  BY DeviceIs DEF Orderly, Ordered, Closed
<1>3. Len(made) \in Nat /\ Len(made) <= MaxGrants /\ \A m \in Meters : grants[m] <= Len(made)
  BY <1>1, DeviceIs DEF Sane, Made
<1>4. \A m \in Meters : grants[m] # Guest => grants[m] \in DOMAIN made
  BY <1>1, <1>3 DEF Guest
<1>5. \A m \in Meters : pours[m].grant \in {Guest, grants[m]}
  BY DeviceIs DEF Sane, Attributed
<1>6. \A m, n \in Meters :
        grants[m] # Guest /\ grants[n] # Guest /\ made[grants[m]].id = made[grants[n]].id =>
          grants[m] = grants[n]
  BY DeviceIs DEF Sane, OneEach
<1>. QED  BY <1>1, <1>2, <1>3, <1>4, <1>5, <1>6 DEF Sane

\* Of the dicts in use, at most one has the id of s.
LEMMA ExistingIs ==
  ASSUME Sane(Device), NEW s
  PROVE  /\ \A m \in Meters : grants[m] \in Existing(s) <=> grants[m] # Guest /\ made[grants[m]].id = s.id
         /\ \A x \in Existing(s) : x \in DOMAIN made /\ x # Guest /\ made[x].id = s.id
         /\ \A x, y \in Existing(s) : x = y
<1>1. \A m \in Meters : grants[m] \in Existing(s) => grants[m] # Guest /\ made[grants[m]].id = s.id
  BY SaneDevice DEF Existing, Guest
<1>2. ASSUME NEW m \in Meters, grants[m] # Guest, made[grants[m]].id = s.id PROVE grants[m] \in Existing(s)
  <2>1. grants[m] \in DOMAIN made /\ m \in HeldBy(grants[m])
    BY <1>2, SaneDevice DEF HeldBy
  <2>. QED  BY <1>2, <2>1 DEF Existing
<1>3. \A x \in Existing(s) : x \in DOMAIN made /\ x # Guest /\ made[x].id = s.id /\ \E m \in Meters : grants[m] = x
  BY SaneDevice DEF Existing, HeldBy, Guest
<1>4. ASSUME NEW x \in Existing(s), NEW y \in Existing(s) PROVE x = y
  <2>1. PICK m \in Meters : grants[m] = x
    BY <1>3
  <2>2. PICK n \in Meters : grants[n] = y
    BY <1>3
  <2>3. x # Guest /\ y # Guest /\ made[x].id = made[y].id
    BY <1>3
  <2>. QED  BY <2>1, <2>2, <2>3, SaneDevice
<1>. QED  BY <1>1, <1>2, <1>3, <1>4

\* An authorize that is applied: its meters left other grants, with their pours.
LEMMA GrantedKeeps ==
  ASSUME Sane(Device), NEW s \in Specs, Acceptable(s), Existing(s) # {} \/ Len(made) < MaxGrants,
         NEW d, Keeps(Device, d),
         d.grants = [m \in Meters |-> IF m \in Losing(s) THEN Guest ELSE grants[m]],
         \A m \in Losing(s) : grants[m] # Guest => d.pours[m] = NoPour,
         NEW r, r = Granted(d, s)
  PROVE  /\ Sane(r) /\ Orderly(r) /\ r.pours = d.pours /\ r.told = d.told
         /\ Charged(d) => Charged(r)
<1> DEFINE o == Target(d, s)
           x == Terms(d, s)
<1>1. /\ d \in Devices /\ d.made = made /\ Orderly(d) /\ Attributed(d) /\ d.made \in Seq(Dicts)
      /\ d.pours \in [Meters -> Segments] /\ d.toldFor \in [0..MaxGrants -> Nat]
      /\ \A m \in Meters : d.pours[m] \in {pours[m], NoPour}
  BY DeviceFields, DeviceIs DEF Keeps, Sane
<1>2. /\ o \in 0..MaxGrants /\ o # Guest
      /\ Existing(s) # {} => o \in Existing(s) /\ o \in DOMAIN made /\ made[o].id = s.id
      /\ Existing(s) = {} => o = Len(made) + 1
  <2>1. CASE Existing(s) = {}
    <3>1. o = Len(made) + 1
      BY <1>1, <2>1 DEF Target
    <3>2. Len(made) \in Nat /\ Len(made) < MaxGrants /\ MaxGrants \in Nat
      BY <2>1, SaneDevice, PoursAssumption
    <3>. HIDE DEF o
    <3>. QED  BY <2>1, <3>1, <3>2 DEF Guest
  <2>2. CASE Existing(s) # {}
    <3>1. o \in Existing(s)
      BY <2>2 DEF Target
    <3>. HIDE DEF o
    <3>2. o \in DOMAIN made /\ o # Guest /\ made[o].id = s.id
      BY <3>1, ExistingIs
    <3>. QED  BY <2>2, <3>1, <3>2, SaneDevice, PoursAssumption
  <2>. QED  BY <2>1, <2>2
<1>3. o = Target(d, s)
  OBVIOUS
<1>. HIDE DEF o
<1>4. /\ r \in Devices
      /\ r.grants = [m \in Meters |-> IF m \in s.meters THEN o ELSE d.grants[m]]
      /\ r.pours = d.pours /\ r.told = d.told /\ r.toldFor = d.toldFor /\ r.out = d.out
      /\ x.id = s.id
      /\ Existing(s) = {} => r.made = Append(d.made, x) /\ x.poured = 0
      /\ Existing(s) # {} => /\ r.made = [d.made EXCEPT ![o] = x]
                             /\ x.poured = d.made[o].poured
  <2>1. Existing(s) # {} => o \in DOMAIN d.made
    BY <1>1, <1>2
  <2>. QED  BY <1>1, <1>2, <1>3, <2>1, GrantedFields
<1>. HIDE DEF x
<1>5. /\ Len(r.made) \in Nat /\ Len(r.made) <= MaxGrants /\ o <= Len(r.made) /\ Len(made) <= Len(r.made)
      /\ DOMAIN r.made = DOMAIN made \cup {o} /\ r.made[o].id = s.id
      /\ \A y \in DOMAIN made : r.made[y].id = made[y].id /\ r.made[y].poured = made[y].poured
      /\ o \notin DOMAIN made => r.made[o].poured = 0
  <2>1. made \in Seq(Dicts) /\ Len(made) \in Nat /\ Len(made) <= MaxGrants /\ DOMAIN made = 1..Len(made)
    BY SaneDevice
  <2>2. CASE Existing(s) = {}
    <3>1. r.made = Append(made, x) /\ o = Len(made) + 1 /\ x.poured = 0
      BY <1>1, <1>2, <1>4, <2>2
    <3>2. Len(r.made) = Len(made) + 1 /\ r.made[o] = x /\ \A y \in DOMAIN made : r.made[y] = made[y]
      BY <2>1, <3>1
    <3>3. DOMAIN r.made = 1..(Len(made) + 1)
      BY <2>1, <3>1
    <3>4. o \notin DOMAIN made /\ DOMAIN r.made = DOMAIN made \cup {o}
      BY <2>1, <3>1, <3>3
    <3>5. Len(r.made) \in Nat /\ o <= Len(r.made) /\ Len(made) <= Len(r.made) /\ Len(r.made) <= MaxGrants
      BY <1>2, <2>1, <3>1, <3>2
    <3>6. r.made[o].id = s.id /\ r.made[o].poured = 0
      BY <1>4, <3>1, <3>2
    <3>. QED  BY <3>2, <3>4, <3>5, <3>6
  <2>3. CASE Existing(s) # {}
    <3>1. r.made = [made EXCEPT ![o] = x] /\ o \in DOMAIN made /\ made[o].id = s.id /\ x.poured = made[o].poured
      BY <1>1, <1>2, <1>4, <2>3
    <3>2. DOMAIN r.made = DOMAIN made /\ Len(r.made) = Len(made)
      BY <2>1, <3>1
    <3>3. \A y \in DOMAIN made : r.made[y] = IF y = o THEN x ELSE made[y]
      BY <3>1
    <3>4. Len(r.made) \in Nat /\ o <= Len(r.made) /\ Len(made) <= Len(r.made) /\ Len(r.made) <= MaxGrants
      BY <2>1, <3>1, <3>2
    <3>. QED  BY <1>4, <3>1, <3>2, <3>3, <3>4
  <2>. QED  BY <2>2, <2>3
<1>6. ASSUME NEW m \in Meters
      PROVE  \/ r.grants[m] = o /\ m \in s.meters
             \/ r.grants[m] = Guest /\ m \notin s.meters
             \/ r.grants[m] = grants[m] /\ grants[m] # Guest /\ m \notin s.meters /\ m \notin Losing(s)
  BY <1>4
<1>7. Made(r)
  <2>1. ASSUME NEW m \in Meters PROVE r.grants[m] <= Len(r.made)
    <3>1. grants[m] # Guest => grants[m] \in 1..Len(made) /\ Len(made) \in Nat
      BY SaneDevice
    <3>. QED  BY <1>5, <1>6, <3>1 DEF Guest
  <2>. QED  BY <1>5, <2>1 DEF Made
<1>8. Attributed(r)
  <2>1. ASSUME NEW m \in Meters PROVE d.pours[m].grant \in {Guest, r.grants[m]}
    <3>1. d.pours[m].grant \in {Guest, d.grants[m]}
      BY <1>1 DEF Attributed
    <3>2. CASE m \notin s.meters
      BY <1>4, <3>1, <3>2
    <3>3. CASE m \in s.meters
      <4>1. r.grants[m] = o
        BY <1>4, <3>3
      <4>2. CASE grants[m] = Guest
        BY <3>1, <4>2
      <4>3. CASE grants[m] # Guest /\ grants[m] \notin Existing(s)
        <5>1. m \in Losing(s)
          BY <3>3, <4>3 DEF Losing
        <5>2. d.pours[m] = NoPour
          BY <4>3, <5>1
        <5>. QED  BY <5>2, NoPourIsSegment
      <4>4. CASE grants[m] \in Existing(s)
        <5>1. grants[m] = o
          BY <1>2, <4>4, ExistingIs
        <5>2. m \notin Losing(s)
          BY <3>3, <4>4 DEF Losing
        <5>. QED  BY <3>1, <4>1, <5>1, <5>2
      <4>. QED  BY <4>2, <4>3, <4>4
    <3>. QED  BY <3>2, <3>3
  <2>. QED  BY <1>4, <2>1 DEF Attributed
<1>9. OneEach(r)
  <2>1. ASSUME NEW m \in Meters, r.grants[m] # Guest
        PROVE  \/ r.grants[m] = o
               \/ /\ r.grants[m] = grants[m] /\ grants[m] # Guest
                  /\ r.made[r.grants[m]].id = made[grants[m]].id /\ made[grants[m]].id # s.id
    <3>1. CASE r.grants[m] = o
      BY <3>1
    <3>2. CASE r.grants[m] # o
      <4>1. r.grants[m] = grants[m] /\ grants[m] # Guest /\ grants[m] \in DOMAIN made
        BY <1>6, <2>1, <3>2, SaneDevice
      <4>2. r.made[grants[m]].id = made[grants[m]].id
        BY <1>5, <4>1
      <4>3. ASSUME made[grants[m]].id = s.id PROVE FALSE
        <5>1. grants[m] \in Existing(s)
          BY <4>1, <4>3, ExistingIs
        <5>2. grants[m] = o
          BY <1>2, <5>1, ExistingIs
        <5>. QED  BY <3>2, <4>1, <5>2
      <4>. QED  BY <4>1, <4>2, <4>3
    <3>. QED  BY <3>1, <3>2
  <2>2. ASSUME NEW m \in Meters, NEW n \in Meters, r.grants[m] # Guest, r.grants[n] # Guest,
               r.made[r.grants[m]].id = r.made[r.grants[n]].id
        PROVE  r.grants[m] = r.grants[n]
    <3>1. CASE r.grants[m] = o /\ r.grants[n] = o
      BY <3>1
    <3>2. CASE r.grants[m] = o /\ r.grants[n] # o
      BY <1>5, <2>1, <2>2, <3>2
    <3>3. CASE r.grants[m] # o /\ r.grants[n] = o
      BY <1>5, <2>1, <2>2, <3>3
    <3>4. CASE r.grants[m] # o /\ r.grants[n] # o
      <4>1. /\ r.grants[m] = grants[m] /\ grants[m] # Guest /\ r.grants[n] = grants[n] /\ grants[n] # Guest
            /\ made[grants[m]].id = made[grants[n]].id
        BY <2>1, <2>2, <3>4
      <4>. QED  BY <4>1, SaneDevice
    <3>. QED  BY <3>1, <3>2, <3>3, <3>4
  <2>. QED  BY <2>2 DEF OneEach
<1>10. ASSUME Charged(d) PROVE Charged(r)
  <2>1. SUFFICES ASSUME NEW y \in DOMAIN r.made
                 PROVE  r.made[y].poured <= r.toldFor[y] + InFlight(r.pours, y)
    BY DEF Charged
  <2>2. CASE y \in DOMAIN made
    <3>1. r.made[y].poured = d.made[y].poured /\ y \in DOMAIN d.made
      BY <1>1, <1>5, <2>2
    <3>. QED  BY <1>4, <1>10, <3>1 DEF Charged
  <2>3. CASE y = o /\ o \notin DOMAIN made
    <3>1. r.made[y].poured = 0 /\ r.toldFor[y] = d.toldFor[o] /\ d.toldFor[o] \in Nat
      BY <1>1, <1>2, <1>4, <1>5, <2>3
    <3>2. InFlight(r.pours, y) \in Nat
      BY <1>1, <1>4, InFlightNat
    <3>. QED  BY <3>1, <3>2
  <2>. QED  BY <1>5, <2>1, <2>2, <2>3
<1>11. Orderly(r)
  BY <1>1, <1>4 DEF Orderly, Closed
<1>. QED  BY <1>4, <1>7, <1>8, <1>9, <1>10, <1>11 DEF Sane

-----------------------------------------------------------------------------
(* The coroutines' steps *)

\* Between two steps the device is what the last one left, with no events.
LEMMA SetDeviceSane ==
  ASSUME NEW STATE e, Sane(e), SetDevice(e)
  PROVE  Sane(Device)' /\ (Charged(e) => Charged(Device)')
<1> DEFINE q == Device'
<1>1. q = [grants |-> e.grants, made |-> e.made, pours |-> e.pours, told |-> e.told,
           toldFor |-> e.toldFor, out |-> <<>>]
  BY DEF SetDevice, Device
<1>2. q \in Devices
  <2>1. e \in Devices
    BY DEF Sane
  <2>2. <<>> \in Seq(PourEvents \cup GrantEnds)
    OBVIOUS
  <2>. HIDE DEF q
  <2>. QED  BY <1>1, <2>1, <2>2, DeviceFields DEF Devices
<1>. HIDE DEF q
<1>3. q.grants = e.grants /\ q.made = e.made /\ q.pours = e.pours /\ q.told = e.told /\ q.toldFor = e.toldFor
  BY <1>1
<1>4. Made(q) /\ Attributed(q) /\ OneEach(q)
  BY <1>3 DEF Sane, Made, Attributed, OneEach
<1>5. Charged(e) => Charged(q)
  BY <1>3 DEF Charged
<1>6. Sane(q)
  BY <1>2, <1>4 DEF Sane
<1>. QED  BY <1>5, <1>6 DEF q

\* A step that sets the device, and may end a glass
LEMMA Settles ==
  ASSUME IInv, NEW STATE e, Sane(e), Orderly(e), SetDevice(e),
         glass' \in [Glasses -> [at : {"new", "asleep", "sending", "done"}, meter : Meters \cup {Guest}, step : Nat]],
         \A c \in Glasses : glass'[c].at # "new" => glass'[c].meter \in Meters,
         \A n \in Meters : Filling(n)' \subseteq Filling(n),
         drawn' \in [Meters -> Nat], spilt' = spilt, contested' = contested,
         \A n \in Meters \ contested : \A c \in Filling(n) : e.pours[n] = NoPour \/ e.pours[n].glass = c,
         \A n \in Meters \ contested : drawn'[n] = e.told[n] + e.pours[n].poured + spilt[n],
         contested = {} => Charged(e)
  PROVE  IInv' /\ Ordered(out')
<1>1. pours' = e.pours /\ told' = e.told /\ out' = e.out
  BY DEF SetDevice
<1>2. Sane(Device)' /\ (contested = {} => Charged(Device)')
  BY SetDeviceSane
<1>3. TypeOK'
  BY DEF IInv, TypeOK
<1>4. Own'
  <2>1. ASSUME NEW m \in Meters \ contested, NEW c \in Filling(m)'
        PROVE  Filling(m)' = {c} /\ (e.pours[m] = NoPour \/ e.pours[m].glass = c)
    <3>1. c \in Filling(m) /\ Filling(m)' \subseteq Filling(m)
      BY <2>1
    <3>2. Filling(m) = {c}
      BY <2>1, <3>1 DEF IInv, Own
    <3>. QED  BY <2>1, <3>1, <3>2
  <2>. QED  BY <1>1, <2>1 DEF Own
<1>5. PouredIsReported'
  BY <1>1 DEF PouredIsReported
<1>6. Ordered(out')
  BY <1>1 DEF Orderly
<1>. QED  BY <1>2, <1>3, <1>4, <1>5, <1>6 DEF IInv

\* What the invariant says of a meter that is not contested
LEMMA OwnMeter ==
  ASSUME IInv, NEW n \in Meters \ contested
  PROVE  /\ drawn[n] = told[n] + pours[n].poured + spilt[n]
         /\ \A c \in Filling(n) : Filling(n) = {c} /\ (pours[n] = NoPour \/ pours[n].glass = c)
BY DEF IInv, PouredIsReported, Own

\* Commands, limits and tokens: whatever they end, no glass notices yet.
LEMMA DeviceStep ==
  ASSUME IInv, NEW STATE e, Sane(e), Orderly(e), SetDevice(e), UNCHANGED <<glass, drawn, spilt, contested>>,
         \A m \in Meters : /\ e.pours[m] \in {pours[m], NoPour}
                           /\ e.told[m] + e.pours[m].poured = told[m] + pours[m].poured,
         contested = {} => Charged(e)
  PROVE  IInv' /\ Ordered(out')
<1>1. \A n \in Meters : Filling(n)' = Filling(n)
  BY DEF Filling
<1>2. \A n \in Meters \ contested : \A c \in Filling(n) : e.pours[n] = NoPour \/ e.pours[n].glass = c
  BY OwnMeter
<1>3. \A n \in Meters \ contested : drawn'[n] = e.told[n] + e.pours[n].poured + spilt[n]
  BY OwnMeter
<1>4. /\ glass' \in [Glasses -> [at : {"new", "asleep", "sending", "done"}, meter : Meters \cup {Guest}, step : Nat]]
      /\ \A c \in Glasses : glass'[c].at # "new" => glass'[c].meter \in Meters
      /\ drawn' \in [Meters -> Nat] /\ spilt' = spilt /\ contested' = contested
  BY DEF IInv, TypeOK
<1>. QED  BY <1>1, <1>2, <1>3, <1>4, Settles

LEMMA EndGrantsStep ==
  ASSUME IInv, NEW STATE S, S \in SUBSET Meters, SetDevice(EndGrants(Device, S)),
         UNCHANGED <<glass, drawn, spilt, contested>>
  PROVE  IInv' /\ Ordered(out')
<1> DEFINE e == EndGrants(Device, S)
<1>1. Sane(Device) /\ Orderly(Device) /\ (contested = {} => Charged(Device))
  BY SaneDevice DEF IInv
<1>2. Keeps(Device, e)
  BY <1>1, EndGrantsKeeps
<1>. HIDE DEF e
<1>3. /\ Sane(e) /\ Orderly(e)
      /\ \A m \in Meters : /\ e.pours[m] \in {pours[m], NoPour}
                           /\ e.told[m] + e.pours[m].poured = told[m] + pours[m].poured
      /\ contested = {} => Charged(e)
  BY <1>1, <1>2, DeviceIs DEF Keeps
<1>4. SetDevice(e)
  BY DEF e
<1>. QED  BY <1>3, <1>4, DeviceStep

LEMMA AuthorizeStep ==
  ASSUME IInv, NEW s \in Specs, Authorize(s)
  PROVE  IInv' /\ Ordered(out')
<1> DEFINE S == Losing(s)
           d == EndGrants(Device, S)
           e == Granted(d, s)
<1>1. Sane(Device) /\ Orderly(Device) /\ (contested = {} => Charged(Device))
  BY SaneDevice DEF IInv
<1>2. S \in SUBSET Meters
  BY DEF Losing
<1>3. /\ Keeps(Device, d)
      /\ d.grants = [m \in Meters |-> IF m \in S THEN Guest ELSE grants[m]]
      /\ \A m \in S : grants[m] # Guest => d.pours[m] = NoPour
  <2>. HIDE DEF S
  <2>. QED  BY <1>1, <1>2, EndGrantsKeeps, DeviceIs
<1>4. Acceptable(s) /\ (Existing(s) # {} \/ Len(made) < MaxGrants) /\ SetDevice(e)
      /\ UNCHANGED <<glass, drawn, spilt, contested>>
  BY DEF Authorize
<1>. HIDE DEF d
<1>5. /\ Sane(e) /\ Orderly(e) /\ e.pours = d.pours /\ e.told = d.told
      /\ Charged(d) => Charged(e)
  BY <1>1, <1>3, <1>4, GrantedKeeps
<1>. HIDE DEF e
<1>6. \A m \in Meters : /\ e.pours[m] \in {pours[m], NoPour}
                        /\ e.told[m] + e.pours[m].poured = told[m] + pours[m].poured
  BY <1>3, <1>5, DeviceIs DEF Keeps
<1>7. contested = {} => Charged(e)
  BY <1>1, <1>3, <1>5 DEF Keeps
<1>. QED  BY <1>4, <1>5, <1>6, <1>7, DeviceStep

LEMMA DeclineStep ==
  ASSUME IInv, Decline
  PROVE  IInv' /\ Ordered(out')
<1> DEFINE e == Device
<1>1. Sane(e) /\ Orderly(e) /\ (contested = {} => Charged(e))
  BY SaneDevice DEF IInv
<1>2. SetDevice(e) /\ UNCHANGED <<glass, drawn, spilt, contested>>
  BY DEF Decline
<1>3. e.pours = pours /\ e.told = told
  BY DeviceIs
<1>. HIDE DEF e
<1>. QED  BY <1>1, <1>2, <1>3, DeviceStep

LEMMA DeauthorizeStep ==
  ASSUME IInv, NEW ids \in SUBSET GrantIds, Deauthorize(ids)
  PROVE  IInv' /\ Ordered(out')
<1> DEFINE S == {m \in Meters : grants[m] # Guest /\ made[grants[m]].id \in ids}
<1>1. /\ S \in SUBSET Meters /\ SetDevice(EndGrants(Device, S))
      /\ UNCHANGED <<glass, drawn, spilt, contested>>
  BY DEF Deauthorize
<1>. HIDE DEF S
<1>. QED  BY <1>1, EndGrantsStep

LEMMA WatchGrantStep ==
  ASSUME IInv, NEW o, WatchGrant(o)
  PROVE  IInv' /\ Ordered(out')
<1> DEFINE S == HeldBy(o)
<1>1. /\ S \in SUBSET Meters /\ SetDevice(EndGrants(Device, S))
      /\ UNCHANGED <<glass, drawn, spilt, contested>>
  BY DEF WatchGrant, HeldBy
<1>. HIDE DEF S
<1>. QED  BY <1>1, EndGrantsStep

LEMMA DetachTokenStep ==
  ASSUME IInv, DetachToken
  PROVE  IInv' /\ Ordered(out')
<1> DEFINE S == {m \in Meters : grants[m] # Guest /\ made[grants[m]].token = Button}
<1>1. /\ S \in SUBSET Meters /\ SetDevice(EndGrants(Device, S))
      /\ UNCHANGED <<glass, drawn, spilt, contested>>
  BY DEF DetachToken
<1>. HIDE DEF S
<1>. QED  BY <1>1, EndGrantsStep

\* Nothing that the invariant is about changes.
LEMMA StutterStep ==
  ASSUME IInv, UNCHANGED <<grants, made, pours, glass, drawn, told, toldFor, spilt, contested>>
  PROVE  IInv'
<1>1. Device' = Device
  BY DEF Device
<1>2. Sane(Device)' /\ (contested' = {} => Charged(Device)')
  BY <1>1 DEF IInv
<1>3. TypeOK' /\ Own' /\ PouredIsReported'
  BY DEF IInv, TypeOK, Own, Filling, PouredIsReported
<1>. QED  BY <1>2, <1>3 DEF IInv

LEMMA NothingOrdered == Ordered(<<>>)
BY DEF Ordered

LEMMA TurnEndsStep ==
  ASSUME IInv, NEW c \in Glasses, NEW m, m = glass[c].meter, glass[c].at \in {"asleep", "sending"},
         NEW STATE d, Sane(d), Orderly(d), TurnEnds(c, d), drawn' \in [Meters -> Nat], UNCHANGED <<spilt, contested>>,
         \A n \in Meters \ {m} : d.pours[n] \in {pours[n], NoPour},
         m \notin contested => d.pours[m] = NoPour \/ d.pours[m].glass = c,
         \A n \in Meters \ contested : drawn'[n] = d.told[n] + d.pours[n].poured + spilt[n],
         contested = {} => Charged(d)
  PROVE  IInv' /\ Ordered(out')
<1> DEFINE over == glass[c].step + 1 = Steps
           e == IF over THEN FinishPour(m, d) ELSE d
<1>1. m \in Meters /\ c \in Filling(m) /\ glass[c].step \in Nat
  BY DEF IInv, TypeOK, Filling
<1>2. SetDevice(e) /\ glass' = [glass EXCEPT ![c].at = IF over THEN "done" ELSE "asleep", ![c].step = @ + 1]
  BY DEF TurnEnds
<1>3. /\ Sane(e) /\ Orderly(e)
      /\ \A n \in Meters : /\ e.pours[n] \in {d.pours[n], NoPour}
                           /\ e.told[n] + e.pours[n].poured = d.told[n] + d.pours[n].poured
      /\ Charged(d) => Charged(e)
  <2>1. CASE over
    <3> DEFINE r == FinishPour(m, d)
    <3>1. Keeps(d, r)
      BY <1>1, FinishPourKeeps
    <3>2. e = r
      BY <2>1
    <3>. HIDE DEF r, e
    <3>. QED  BY <3>1, <3>2 DEF Keeps
  <2>2. CASE ~over
    BY <2>2
  <2>. QED  BY <2>1, <2>2
<1>. HIDE DEF e, over
<1>4. \A n \in Meters \ contested : \A x \in Filling(n) : e.pours[n] = NoPour \/ e.pours[n].glass = x
  <2>1. SUFFICES ASSUME NEW n \in Meters \ contested, NEW x \in Filling(n)
                 PROVE  e.pours[n] = NoPour \/ e.pours[n].glass = x
    OBVIOUS
  <2>2. Filling(n) = {x} /\ (pours[n] = NoPour \/ pours[n].glass = x)
    BY <2>1, OwnMeter
  <2>3. CASE n = m
    <3>1. x = c
      BY <1>1, <2>2, <2>3
    <3>. QED  BY <1>3, <2>1, <2>3, <3>1
  <2>4. CASE n # m
    <3>1. e.pours[n] \in {d.pours[n], NoPour} /\ d.pours[n] \in {pours[n], NoPour}
      BY <1>3, <2>1, <2>4
    <3>. QED  BY <2>2, <3>1
  <2>. QED  BY <2>3, <2>4
<1>5. /\ glass' \in [Glasses -> [at : {"new", "asleep", "sending", "done"}, meter : Meters \cup {Guest}, step : Nat]]
      /\ \A x \in Glasses : /\ glass'[x].meter = glass[x].meter
                            /\ x # c => glass'[x].at = glass[x].at
      /\ glass'[c].at # "new"
  BY <1>1, <1>2 DEF IInv, TypeOK
<1>6. \A x \in Glasses : glass'[x].at # "new" => glass'[x].meter \in Meters
  BY <1>1, <1>5 DEF IInv, TypeOK
<1>7. \A n \in Meters : Filling(n)' \subseteq Filling(n)
  BY <1>1, <1>5 DEF Filling
<1>8. \A n \in Meters \ contested : drawn'[n] = e.told[n] + e.pours[n].poured + spilt[n]
  BY <1>3
<1>. QED  BY <1>2, <1>3, <1>4, <1>5, <1>6, <1>7, <1>8, Settles

\* A new glass finds no segment: nothing more is in flight.
LEMMA PourStep ==
  ASSUME IInv, NEW c \in Glasses, NEW m \in Meters, Pour(c, m)
  PROVE  IInv' /\ Ordered(out')
<1> DEFINE p == Segment(Device, c, m)
           d == Device
           q == Device'
<1>1. /\ glass[c].at = "new" /\ pours[m] = NoPour
      /\ pours' = [pours EXCEPT ![m] = p]
      /\ glass' = [glass EXCEPT ![c] = [at |-> "asleep", meter |-> m, step |-> 0]]
      /\ contested' = contested \cup (IF Filling(m) = {} THEN {} ELSE {m})
      /\ out' = <<>>
      /\ UNCHANGED <<grants, made, drawn, told, toldFor, spilt>>
  BY DEF Pour
<1>2. p = [glass |-> c, grant |-> grants[m], poured |-> 0]
  BY DeviceIs DEF Segment
<1>3. Sane(Device)
  BY DEF IInv
<1>4. grants \in [Meters -> 0..MaxGrants] /\ pours \in [Meters -> Segments] /\ grants[m] \in 0..MaxGrants
  BY <1>3, SaneDevice
<1>. HIDE DEF p
<1>5. p \in Segments /\ p.poured = 0 /\ p.glass = c /\ p.grant = grants[m]
  BY <1>2, <1>4 DEF Segments
<1>6. pours' \in [Meters -> Segments] /\ pours'[m] = p /\ \A n \in Meters \ {m} : pours'[n] = pours[n]
  BY <1>1, <1>4, <1>5
<1>7. q = [grants |-> grants, made |-> made, pours |-> pours', told |-> told, toldFor |-> toldFor, out |-> <<>>]
  BY <1>1 DEF Device
<1>8. d = [grants |-> grants, made |-> made, pours |-> pours, told |-> told, toldFor |-> toldFor, out |-> <<>>]
  BY DEF Device
<1>9. Sane(d) /\ d \in Devices
  BY <1>3 DEF Sane
<1>. HIDE DEF d, q
<1>10. Sane(q)
  <2>1. q \in Devices
    BY <1>6, <1>7, <1>8, <1>9 DEF Devices
  <2>2. Made(q) /\ OneEach(q)
    BY <1>7, <1>8, <1>9 DEF Sane, Made, OneEach
  <2>3. Attributed(q)
    BY <1>5, <1>6, <1>7, <1>8, <1>9 DEF Sane, Attributed
  <2>. QED  BY <2>1, <2>2, <2>3 DEF Sane
<1>11. ASSUME Charged(d) PROVE Charged(q)
  <2>1. SUFFICES ASSUME NEW o \in DOMAIN made
                 PROVE  made[o].poured <= toldFor[o] + InFlight(pours', o)
    BY <1>7 DEF Charged
  <2>2. /\ InFlight(pours, o) \in Nat /\ InFlight(pours', o) \in Nat
        /\ InFlight(pours', o) + Part(pours[m], o) = InFlight(pours, o) + Part(pours'[m], o)
    <3> DEFINE P == pours'
    <3>1. P \in [Meters -> Segments] /\ \A n \in Meters \ {m} : P[n] = pours[n]
      BY <1>6
    <3>2. /\ InFlight(pours, o) \in Nat /\ InFlight(P, o) \in Nat
          /\ InFlight(P, o) + Part(pours[m], o) = InFlight(pours, o) + Part(P[m], o)
      <4>. HIDE DEF P
      <4>. QED  BY <1>4, <3>1, InFlightChange
    <3>. QED  BY <3>2
  <2>3. Part(pours[m], o) = 0 /\ Part(pours'[m], o) = 0
    BY <1>1, <1>5, <1>6, NoPourIsSegment DEF Part
  <2>4. InFlight(pours', o) = InFlight(pours, o)
    BY <2>2, <2>3
  <2>. QED  BY <1>8, <1>11, <2>1, <2>4 DEF Charged
<1>12. Sane(Device)' /\ (contested' = {} => Charged(Device)')
  <2>1. contested' = {} => contested = {}
    BY <1>1
  <2>. QED  BY <1>10, <1>11, <2>1 DEF q, d, IInv
<1>13. TypeOK'
  <2>1. glass' \in [Glasses -> [at : {"new", "asleep", "sending", "done"}, meter : Meters \cup {Guest}, step : Nat]]
    BY <1>1 DEF IInv, TypeOK
  <2>2. \A x \in Glasses : glass'[x].at # "new" => glass'[x].meter \in Meters
    BY <1>1 DEF IInv, TypeOK
  <2>. QED  BY <1>1, <2>1, <2>2 DEF IInv, TypeOK
<1>14. Own'
  <2>1. SUFFICES ASSUME NEW n \in Meters \ contested', NEW x \in Filling(n)'
                 PROVE  Filling(n)' = {x} /\ (pours'[n] = NoPour \/ pours'[n].glass = x)
    BY DEF Own
  <2>2. Filling(n)' = Filling(n) \cup IF n = m THEN {c} ELSE {}
    BY <1>1 DEF Filling, IInv, TypeOK
  <2>3. n \in Meters \ contested
    BY <1>1, <2>1
  <2>4. CASE n = m
    <3>1. Filling(n) = {}
      BY <1>1, <2>1, <2>4
    <3>2. Filling(n)' = {c} /\ x = c
      BY <2>1, <2>2, <2>4, <3>1
    <3>. QED  BY <1>5, <1>6, <2>4, <3>2
  <2>5. CASE n # m
    BY <1>6, <2>1, <2>2, <2>3, <2>5, OwnMeter
  <2>. QED  BY <2>4, <2>5
<1>15. PouredIsReported'
  <2>1. \A n \in Meters : pours'[n].poured = pours[n].poured
    BY <1>1, <1>5, <1>6, NoPourIsSegment
  <2>. QED  BY <1>1, <2>1 DEF IInv, PouredIsReported
<1>. QED  BY <1>1, <1>12, <1>13, <1>14, <1>15, NothingOrdered DEF IInv

\* A reboot forgets the grants and what is in flight.
LEMMA RebootStep ==
  ASSUME IInv, Reboot
  PROVE  IInv' /\ Ordered(out')
<1> DEFINE q == Device'
<1>1. /\ grants' = [m \in Meters |-> Guest] /\ made' = <<>>
      /\ pours' = [m \in Meters |-> NoPour]
      /\ out' = <<>>
      /\ toldFor' = [o \in 0..MaxGrants |-> 0]
      /\ spilt' = [m \in Meters |-> spilt[m] + pours[m].poured]
      /\ UNCHANGED <<glass, drawn, told, contested>>
  BY DEF Reboot
<1>2. told \in [Meters -> Nat] /\ pours \in [Meters -> Segments]
  BY SaneDevice DEF IInv
<1>3. q = [grants |-> grants', made |-> <<>>, pours |-> pours', told |-> told, toldFor |-> toldFor', out |-> <<>>]
  BY <1>1 DEF Device
<1>. HIDE DEF q
<1>4. Sane(q)
  <2>1. /\ grants' \in [Meters -> 0..MaxGrants] /\ pours' \in [Meters -> Segments]
        /\ toldFor' \in [0..MaxGrants -> Nat] /\ <<>> \in Seq(Dicts) /\ <<>> \in Seq(PourEvents \cup GrantEnds)
    BY <1>1, NoPourIsSegment, PoursAssumption DEF Guest
  <2>2. q \in Devices
    BY <1>2, <1>3, <2>1 DEF Devices
  <2>3. Made(q) /\ Attributed(q) /\ OneEach(q)
    BY <1>1, <1>3, NoPourIsSegment, PoursAssumption DEF Made, Attributed, OneEach, Guest
  <2>. QED  BY <2>2, <2>3 DEF Sane
<1>5. Charged(q)
  BY <1>3 DEF Charged
<1>6. \A m \in Meters : pours[m].poured \in Nat /\ told[m] \in Nat /\ spilt[m] \in Nat
  BY <1>2 DEF Segments, IInv, TypeOK
<1>7. TypeOK'
  BY <1>1, <1>6 DEF IInv, TypeOK
<1>8. Own'
  BY <1>1 DEF IInv, Own, Filling
<1>9. PouredIsReported'
  <2>1. SUFFICES ASSUME NEW m \in Meters \ contested
                 PROVE  drawn[m] = told[m] + NoPour.poured + (spilt[m] + pours[m].poured)
    BY <1>1 DEF PouredIsReported
  <2>2. drawn[m] = told[m] + pours[m].poured + spilt[m]
    BY OwnMeter
  <2>. QED  BY <1>6, <2>2, NoPourIsSegment
<1>10. Sane(Device)' /\ Charged(Device)'
  BY <1>4, <1>5 DEF q
<1>. QED  BY <1>1, <1>7, <1>8, <1>9, <1>10, NothingOrdered DEF IInv

LEMMA SentStep ==
  ASSUME IInv, NEW c \in Glasses, Sent(c)
  PROVE  IInv' /\ Ordered(out')
<1> DEFINE m == glass[c].meter
           d == Device
<1>1. glass[c].at = "sending" /\ TurnEnds(c, d) /\ UNCHANGED <<drawn, spilt, contested>>
  BY DEF Sent
<1>2. m \in Meters /\ c \in Filling(m)
  BY <1>1 DEF IInv, TypeOK, Filling
<1>3. Sane(d) /\ Orderly(d) /\ d.pours = pours /\ d.told = told /\ (contested = {} => Charged(d))
  BY SaneDevice, DeviceIs DEF IInv
<1>4. m = glass[c].meter
  OBVIOUS
<1>. HIDE DEF d, m
<1>5. m \notin contested => d.pours[m] = NoPour \/ d.pours[m].glass = c
  BY <1>2, <1>3, OwnMeter
<1>6. drawn' \in [Meters -> Nat]
  BY <1>1 DEF IInv, TypeOK
<1>7. \A n \in Meters \ contested : drawn'[n] = d.told[n] + d.pours[n].poured + spilt[n]
  BY <1>1, <1>3, OwnMeter
<1>. QED  BY <1>1, <1>3, <1>4, <1>5, <1>6, <1>7, TurnEndsStep

\* Some beer flows: it is in flight, and charged if a grant is on the meter; if
\* that reaches the limit, the grant ends on all its meters.
LEMMA FlowStep ==
  ASSUME IInv, NEW c \in Glasses, NEW k \in 1..MaxFlow, Flow(c, k)
  PROVE  IInv' /\ Ordered(out')
<1> DEFINE m == glass[c].meter
           d == Filled(Device, c, m, k)
           S == HeldBy(grants[m])
           e == EndGrants(d, S)
<1>1. /\ glass[c].at = "asleep" /\ drawn' = [drawn EXCEPT ![m] = @ + k]
      /\ \/ TurnEnds(c, e)
         \/ TurnEnds(c, d)
         \/ SetDevice(d) /\ glass' = [glass EXCEPT ![c].at = "sending"]
      /\ UNCHANGED <<spilt, contested>>
  BY DEF Flow
<1>2. m \in Meters /\ c \in Filling(m) /\ k \in Nat
  BY <1>1, PoursAssumption DEF IInv, TypeOK, Filling
<1>3. Sane(Device) /\ (contested = {} => Charged(Device)) /\ Device.out = <<>>
      /\ Device.pours = pours /\ Device.told = told
  BY DeviceIs DEF IInv
<1>4. m = glass[c].meter /\ d = Filled(Device, c, m, k)
  OBVIOUS
<1>. HIDE DEF m
<1>5. /\ Sane(d) /\ Orderly(d) /\ d.told = told
      /\ d.pours[m].glass = c
      /\ \A n \in Meters \ {m} : d.pours[n] = pours[n]
      /\ (pours[m] = NoPour \/ pours[m].glass = c) =>
           /\ d.pours[m].poured = pours[m].poured + k
           /\ Charged(Device) => Charged(d)
  BY <1>2, <1>3, <1>4, FilledKeeps
<1>6. S \in SUBSET Meters
  BY DEF HeldBy
<1>. HIDE DEF d, S
<1>7. /\ Sane(e) /\ Orderly(e)
      /\ \A n \in Meters : /\ e.pours[n] \in {d.pours[n], NoPour}
                           /\ e.told[n] + e.pours[n].poured = d.told[n] + d.pours[n].poured
      /\ Charged(d) => Charged(e)
  <2>1. Keeps(d, e)
    BY <1>5, <1>6, EndGrantsKeeps
  <2>. HIDE DEF e
  <2>. QED  BY <2>1 DEF Keeps
<1>. HIDE DEF e
<1>8. m \notin contested => pours[m] = NoPour \/ pours[m].glass = c
  BY <1>2, OwnMeter
<1>9. contested = {} => Charged(d)
  BY <1>2, <1>3, <1>5, <1>8
<1>10. drawn \in [Meters -> Nat] /\ drawn' \in [Meters -> Nat]
       /\ \A n \in Meters : drawn'[n] = IF n = m THEN drawn[n] + k ELSE drawn[n]
  BY <1>1, <1>2 DEF IInv, TypeOK
<1>11. ASSUME NEW n \in Meters \ contested PROVE drawn'[n] = d.told[n] + d.pours[n].poured + spilt[n]
  <2>1. drawn[n] = told[n] + pours[n].poured + spilt[n]
    BY OwnMeter
  <2>2. told[n] \in Nat /\ pours[n].poured \in Nat /\ spilt[n] \in Nat /\ drawn[n] \in Nat
    BY SaneDevice DEF IInv, TypeOK, Segments
  <2>3. CASE n = m
    <3>1. d.pours[n].poured = pours[n].poured + k
      BY <1>5, <1>8, <2>3
    <3>. QED  BY <1>2, <1>5, <1>10, <2>1, <2>2, <2>3, <3>1
  <2>4. CASE n # m
    BY <1>5, <1>10, <2>1, <2>4
  <2>. QED  BY <2>3, <2>4
<1>12. CASE TurnEnds(c, e)
  <2>1. \A n \in Meters \ {m} : e.pours[n] \in {pours[n], NoPour}
    BY <1>5, <1>7
  <2>2. m \notin contested => e.pours[m] = NoPour \/ e.pours[m].glass = c
    BY <1>2, <1>5, <1>7
  <2>3. \A n \in Meters \ contested : drawn'[n] = e.told[n] + e.pours[n].poured + spilt[n]
    BY <1>7, <1>11
  <2>4. contested = {} => Charged(e)
    BY <1>7, <1>9
  <2>. QED  BY <1>1, <1>4, <1>7, <1>10, <1>12, <2>1, <2>2, <2>3, <2>4, TurnEndsStep
<1>13. CASE TurnEnds(c, d)
  <2>1. \A n \in Meters \ {m} : d.pours[n] \in {pours[n], NoPour}
    BY <1>5
  <2>. QED  BY <1>1, <1>4, <1>5, <1>9, <1>10, <1>11, <1>13, <2>1, TurnEndsStep
<1>14. CASE SetDevice(d) /\ glass' = [glass EXCEPT ![c].at = "sending"]
  <2>1. \A n \in Meters \ contested : \A x \in Filling(n) : d.pours[n] = NoPour \/ d.pours[n].glass = x
    <3>1. SUFFICES ASSUME NEW n \in Meters \ contested, NEW x \in Filling(n)
                   PROVE  d.pours[n] = NoPour \/ d.pours[n].glass = x
      OBVIOUS
    <3>2. Filling(n) = {x} /\ (pours[n] = NoPour \/ pours[n].glass = x)
      BY <3>1, OwnMeter
    <3>3. CASE n = m
      BY <1>2, <1>5, <3>2, <3>3
    <3>4. CASE n # m
      BY <1>5, <3>2, <3>4
    <3>. QED  BY <3>3, <3>4
  <2>2. /\ glass' \in [Glasses -> [at : {"new", "asleep", "sending", "done"}, meter : Meters \cup {Guest}, step : Nat]]
        /\ \A x \in Glasses : glass'[x].meter = glass[x].meter /\ (x # c => glass'[x].at = glass[x].at)
    BY <1>14 DEF IInv, TypeOK
  <2>3. \A x \in Glasses : glass'[x].at # "new" => glass'[x].meter \in Meters
    BY <1>2, <1>4, <2>2 DEF IInv, TypeOK
  <2>4. \A n \in Meters : Filling(n)' \subseteq Filling(n)
    BY <1>1, <1>2, <1>4, <2>2 DEF Filling
  <2>. QED  BY <1>1, <1>5, <1>9, <1>10, <1>11, <1>14, <2>1, <2>2, <2>3, <2>4, Settles
<1>. QED  BY <1>1, <1>12, <1>13, <1>14

-----------------------------------------------------------------------------
(* The theorems *)

LEMMA InitIInv == Init => IInv
<1> SUFFICES ASSUME Init PROVE IInv
  OBVIOUS
<1> DEFINE d == Device
<1>1. /\ grants = [m \in Meters |-> Guest] /\ made = <<>>
      /\ pours = [m \in Meters |-> NoPour]
      /\ glass = [c \in Glasses |-> [at |-> "new", meter |-> Guest, step |-> 0]]
      /\ drawn = [m \in Meters |-> 0] /\ told = drawn /\ spilt = drawn
      /\ toldFor = [o \in 0..MaxGrants |-> 0]
      /\ contested = {}
  BY DEF Init
<1>2. d = [grants |-> grants, made |-> <<>>, pours |-> pours, told |-> told, toldFor |-> toldFor, out |-> <<>>]
  BY <1>1 DEF Device
<1>. HIDE DEF d
<1>3. Sane(d)
  <2>1. /\ grants \in [Meters -> 0..MaxGrants] /\ pours \in [Meters -> Segments] /\ told \in [Meters -> Nat]
        /\ toldFor \in [0..MaxGrants -> Nat] /\ <<>> \in Seq(Dicts) /\ <<>> \in Seq(PourEvents \cup GrantEnds)
    BY <1>1, NoPourIsSegment, PoursAssumption DEF Guest
  <2>2. d \in Devices
    BY <1>2, <2>1 DEF Devices
  <2>3. Made(d) /\ Attributed(d) /\ OneEach(d)
    BY <1>1, <1>2, NoPourIsSegment, PoursAssumption DEF Made, Attributed, OneEach, Guest
  <2>. QED  BY <2>2, <2>3 DEF Sane
<1>4. Charged(d)
  BY <1>2 DEF Charged
<1>5. TypeOK
  BY <1>1 DEF TypeOK
<1>6. Own
  BY <1>1 DEF Own, Filling
<1>7. PouredIsReported
  BY <1>1, NoPourIsSegment DEF PouredIsReported
<1>. QED  BY <1>3, <1>4, <1>5, <1>6, <1>7 DEF IInv, d

LEMMA NextIInv == IInv /\ [Next]_vars => IInv' /\ (Ordered(out') \/ UNCHANGED vars)
<1> SUFFICES ASSUME IInv, [Next]_vars PROVE IInv' /\ (Ordered(out') \/ UNCHANGED vars)
  OBVIOUS
<1>1. CASE \E c \in Glasses, m \in Meters : Pour(c, m)
  BY <1>1, PourStep
<1>2. CASE \E c \in Glasses, k \in 1..MaxFlow : Flow(c, k)
  BY <1>2, FlowStep
<1>3. CASE \E c \in Glasses : Sent(c)
  BY <1>3, SentStep
<1>4. CASE \E s \in Specs : Authorize(s)
  BY <1>4, AuthorizeStep
<1>5. CASE Decline
  BY <1>5, DeclineStep
<1>6. CASE \E ids \in SUBSET GrantIds : Deauthorize(ids)
  BY <1>6, DeauthorizeStep
<1>7. CASE \E o \in 1..MaxGrants : WatchGrant(o)
  BY <1>7, WatchGrantStep
<1>8. CASE PresentToken
  <2>1. IInv'
    BY <1>8, StutterStep DEF PresentToken
  <2>. QED  BY <1>8, <2>1, NothingOrdered DEF PresentToken
<1>9. CASE DetachToken
  BY <1>9, DetachTokenStep
<1>10. CASE Reboot
  BY <1>10, RebootStep
<1>11. CASE UNCHANGED vars
  <2>1. IInv'
    BY <1>11, StutterStep DEF vars
  <2>. QED  BY <1>11, <2>1
<1>. QED  BY <1>1, <1>2, <1>3, <1>4, <1>5, <1>6, <1>7, <1>8, <1>9, <1>10, <1>11 DEF Next

\* The inductive invariant holds in every state of the simulator.
THEOREM Invariant == Spec => []IInv
<1>1. IInv /\ [Next]_vars => IInv'
  BY NextIInv
<1>. QED  BY InitIInv, <1>1, PTL DEF Spec

\* All that flows through a meter is in one pour event sooner or later, or was
\* forgotten by a reboot: whoever ends grants while glasses are filled.
THEOREM PouredIsReportedHolds == Spec => []PouredIsReported
<1>1. IInv => PouredIsReported
  BY DEF IInv
<1>. QED  BY <1>1, Invariant, PTL

\* A grant is charged no more than what pours that name it reported, and what is in flight
\* under it.
THEOREM ChargedIsReportedHolds == Spec => []ChargedIsReported
<1>1. IInv => ChargedIsReported
  BY DeviceIs DEF IInv, ChargedIsReported, Charged, InFlight
<1>. QED  BY <1>1, Invariant, PTL

\* The pours of a grant are queued before the grant_end that releases their meters.
THEOREM PourPrecedesGrantEndHolds == Spec => PourPrecedesGrantEnd
<1> DEFINE Earlier == \A i, j \in DOMAIN out' :
                        out'[i].type = "grant_end" /\ out'[j].type = "pour" /\ out'[j].meter \in out'[i].meters => j < i
<1>1. IInv /\ [Next]_vars => [Earlier]_vars
  BY NextIInv DEF Ordered
<1>. HIDE DEF Earlier
<1>2. Spec => [][Earlier]_vars
  BY <1>1, Invariant, PTL DEF Spec
<1>. QED  BY <1>2 DEF PourPrecedesGrantEnd, Earlier
=============================================================================
