-------------------------- MODULE GrantTableProofs --------------------------
(***************************************************************************)
(* Proofs about GrantTable, for any grants, any limits, any clamp and any  *)
(* even range of the clock that is more than twice the clamp and a stall;  *)
(* and, at the end, about OneWire, on whose word a button's grants end,    *)
(* about the two composed (Presence), and about the valves (Valves).       *)
(***************************************************************************)
EXTENDS Presence, Valves, TLAPS

-----------------------------------------------------------------------------
(* The invariant *)

Clock == 0..(ClockRange - 1)

TypeOK ==
  /\ grants \in [GrantIds -> GrantSpec \cup {NoGrant}]
  /\ created \in [GrantIds -> Clock] /\ lastFlow \in [GrantIds -> Clock]
  /\ lifetime \in [GrantIds -> Nat] /\ poured \in [GrantIds -> Nat]
  /\ now \in Clock
  /\ age \in [GrantIds -> Nat] /\ idle \in [GrantIds -> Nat]
  /\ lag \in 0..MaxLag

\* The wrapped clocks of a live grant tell its true times, its lifetime is what
\* its spec asks for within the clamp, and a poll is the latest it can go on to.
ClocksTell ==
  \A g \in Live(grants) :
    /\ (now - created[g]) % ClockRange = age[g]
    /\ (now - lastFlow[g]) % ClockRange = idle[g]
    /\ idle[g] <= age[g]
    /\ age[g] <= Clamp + lag
    /\ lifetime[g] = EffectiveMaxDuration(grants[g].maxDuration)

\* A new grant starts from nothing.
DeadAreAgeless == \A g \in GrantIds \ Live(grants) : age[g] = 0 /\ idle[g] = 0

IInv == TypeOK /\ ClocksTell /\ DeadAreAgeless
-----------------------------------------------------------------------------
(* The clock *)

LEMMA ClockIsPositive == ClockRange \in Nat \ {0}
BY ClockAssumption

\* A span of the clock, read modulo its range
LEMMA Wrapped ==
  ASSUME NEW x \in Int, -ClockRange <= x, x < ClockRange
  PROVE  x % ClockRange = IF x >= 0 THEN x ELSE x + ClockRange
BY ClockIsPositive

\* A step of the clock, and the time between two of its readings
LEMMA ClockStep ==
  ASSUME NEW a \in Clock
  PROVE  /\ (a + 1) % ClockRange = IF a + 1 = ClockRange THEN 0 ELSE a + 1
         /\ (a + 1) % ClockRange \in Clock
BY ClockIsPositive DEF Clock

LEMMA ClockDifference ==
  ASSUME NEW a \in Clock, NEW b \in Clock
  PROVE  (a - b) % ClockRange = IF a >= b THEN a - b ELSE a - b + ClockRange
BY ClockIsPositive DEF Clock

\* A span that fits the clock gets no wider than it is measured as it grows.
LEMMA SpanGrows ==
  ASSUME NEW a \in Clock, NEW b \in Clock, NEW span \in Nat,
         (a - b) % ClockRange = span, span + 1 < ClockRange
  PROVE  (((a + 1) % ClockRange) - b) % ClockRange = span + 1
<1>1. span = IF a >= b THEN a - b ELSE a - b + ClockRange
  BY ClockDifference
<1> DEFINE next == (a + 1) % ClockRange
<1>2. next \in Clock /\ next = IF a + 1 = ClockRange THEN 0 ELSE a + 1
  BY ClockStep
<1> HIDE DEF next
<1>3. (next - b) % ClockRange = IF next >= b THEN next - b ELSE next - b + ClockRange
  BY <1>2, ClockDifference
<1>4. (next - b) % ClockRange = span + 1
  BY <1>1, <1>2, <1>3, ClockIsPositive DEF Clock
<1>. QED  BY <1>4 DEF next

\* A deadline that lies less than half the clock's range back is due, and one
\* at most half the range ahead is not.
LEMMA DueMeansReached ==
  ASSUME now \in Clock, NEW stamp \in Clock, NEW span \in Nat, NEW limit \in Nat,
         (now - stamp) % ClockRange = span
  PROVE  /\ span >= limit /\ 2 * span < ClockRange => Due(stamp + limit)
         /\ Due(stamp + limit) /\ 2 * limit <= ClockRange => span >= limit
<1> DEFINE half == ClockRange \div 2
           gap  == now - (stamp + limit)
<1>1. half \in Nat /\ ClockRange = 2 * half
  BY ClockAssumption
<1>2. /\ gap \in Int /\ span < ClockRange
      /\ gap = span - limit \/ gap = span - limit - ClockRange
  BY ClockDifference, ClockIsPositive DEF Clock
<1>3. ASSUME span >= limit, 2 * span < ClockRange PROVE gap % ClockRange = span - limit
  BY <1>2, <1>3, Wrapped, ClockIsPositive
<1>4. ASSUME span < limit, 2 * limit <= ClockRange PROVE gap % ClockRange = span - limit + ClockRange
  <2>1. CASE gap = span - limit
    BY <1>2, <1>4, <2>1, Wrapped, ClockIsPositive
  <2>2. CASE gap = span - limit - ClockRange
    <3>1. gap % ClockRange = gap + 2 * ClockRange
      BY <1>2, <1>4, <2>2, ClockIsPositive
    <3>. QED  BY <3>1, <2>2, ClockIsPositive
  <2>. QED  BY <1>2, <2>1, <2>2
<1>. HIDE DEF half, gap
<1>5. Due(stamp + limit) <=> gap % ClockRange < half
  BY DEF Due, half, gap
<1>6. ASSUME span >= limit, 2 * span < ClockRange PROVE gap % ClockRange < half
  BY <1>1, <1>3, <1>6
<1>7. ASSUME span < limit, 2 * limit <= ClockRange PROVE ~(gap % ClockRange < half)
  BY <1>1, <1>4, <1>7
<1>. QED  BY <1>5, <1>6, <1>7

-----------------------------------------------------------------------------
(* The invariant is inductive *)

LEMMA InitIInv == Init => IInv
<1>. SUFFICES ASSUME Init PROVE IInv
  OBVIOUS
<1>1. Live(grants) = {}
  BY DEF Init, Live
<1>2. 0 \in Clock /\ 0 \in 0..MaxLag /\ 0 \in Nat
  BY ClockIsPositive, ClockAssumption DEF Clock
<1>3. TypeOK
  BY <1>2 DEF Init, Nothing, TypeOK
<1>. QED  BY <1>1, <1>3 DEF Init, Nothing, IInv, ClocksTell, DeadAreAgeless

\* A grant's lifetime never exceeds the clamp, whatever is requested.
LEMMA ClampHolds ==
  ASSUME NEW requested \in Nat
  PROVE  EffectiveMaxDuration(requested) \in Nat /\ EffectiveMaxDuration(requested) <= Clamp
BY ClockAssumption DEF EffectiveMaxDuration

\* What the invariant says of one grant
LEMMA LiveGrant ==
  ASSUME IInv, NEW g \in Live(grants)
  PROVE  /\ g \in GrantIds /\ grants[g] \in GrantSpec /\ grants[g] # NoGrant
         /\ grants[g].maxDuration \in Nat /\ grants[g].maxIdle \in Nat
         /\ created[g] \in Clock /\ lastFlow[g] \in Clock
         /\ age[g] \in Nat /\ idle[g] \in Nat /\ poured[g] \in Nat
         /\ (now - created[g]) % ClockRange = age[g] /\ (now - lastFlow[g]) % ClockRange = idle[g]
         /\ idle[g] <= age[g] /\ age[g] <= Clamp + MaxLag /\ 2 * age[g] < ClockRange
         /\ lifetime[g] = EffectiveMaxDuration(grants[g].maxDuration)
         /\ lifetime[g] \in Nat /\ lifetime[g] <= Clamp
<1>1. g \in GrantIds /\ grants[g] \in GrantSpec /\ grants[g] # NoGrant
  BY DEF IInv, TypeOK, Live
<1>2. grants[g].maxDuration \in Nat /\ grants[g].maxIdle \in Nat
  BY <1>1 DEF GrantSpec
<1>3. /\ created[g] \in Clock /\ lastFlow[g] \in Clock
      /\ age[g] \in Nat /\ idle[g] \in Nat /\ poured[g] \in Nat
      /\ lag \in Nat /\ lag <= MaxLag
  BY <1>1, ClockAssumption DEF IInv, TypeOK
<1>4. /\ (now - created[g]) % ClockRange = age[g] /\ (now - lastFlow[g]) % ClockRange = idle[g]
      /\ idle[g] <= age[g] /\ age[g] <= Clamp + lag
      /\ lifetime[g] = EffectiveMaxDuration(grants[g].maxDuration)
  BY DEF IInv, ClocksTell
<1>5. age[g] <= Clamp + MaxLag /\ 2 * age[g] < ClockRange
  BY <1>3, <1>4, ClockAssumption
<1>. QED  BY <1>1, <1>2, <1>3, <1>4, <1>5, ClampHolds

\* The live grants after some ended are the others, as they were.
LEMMA EndedTable ==
  ASSUME NEW tbl \in [GrantIds -> GrantSpec \cup {NoGrant}], NEW G
  PROVE  /\ Ended(tbl, G) \in [GrantIds -> GrantSpec \cup {NoGrant}]
         /\ Live(Ended(tbl, G)) = Live(tbl) \ G
         /\ \A g \in Live(tbl) \ G : Ended(tbl, G)[g] = tbl[g]
BY DEF Ended, Live

LEMMA ZeroedCount ==
  ASSUME NEW S, 0 \in S, NEW count \in [GrantIds -> S], NEW G
  PROVE  Zeroed(count, G) \in [GrantIds -> S]
BY DEF Zeroed

\* The grants that stay when G end keep all they count; nothing else changes.
LEMMA EndGrantsKeeps ==
  ASSUME IInv, NEW G, EndGrants(G), poured' = Zeroed(poured, G), now' = now, lag' \in 0..MaxLag,
         \A g \in Live(grants) \ G : age[g] <= Clamp + lag'
  PROVE  IInv'
<1>1. /\ grants \in [GrantIds -> GrantSpec \cup {NoGrant}]
      /\ created \in [GrantIds -> Clock] /\ lastFlow \in [GrantIds -> Clock]
      /\ lifetime \in [GrantIds -> Nat] /\ poured \in [GrantIds -> Nat]
      /\ age \in [GrantIds -> Nat] /\ idle \in [GrantIds -> Nat]
      /\ 0 \in Clock /\ 0 \in Nat
  BY ClockIsPositive DEF IInv, TypeOK, Clock
<1>2. /\ grants' = Ended(grants, G) /\ created' = Zeroed(created, G) /\ lastFlow' = Zeroed(lastFlow, G)
      /\ lifetime' = Zeroed(lifetime, G) /\ age' = Zeroed(age, G) /\ idle' = Zeroed(idle, G)
  BY DEF EndGrants
<1>3. /\ grants' \in [GrantIds -> GrantSpec \cup {NoGrant}]
      /\ Live(grants') = Live(grants) \ G
      /\ \A g \in Live(grants') : grants'[g] = grants[g]
  BY <1>1, <1>2, EndedTable
<1>4. /\ created' \in [GrantIds -> Clock] /\ lastFlow' \in [GrantIds -> Clock]
      /\ lifetime' \in [GrantIds -> Nat] /\ poured' \in [GrantIds -> Nat]
      /\ age' \in [GrantIds -> Nat] /\ idle' \in [GrantIds -> Nat]
  BY <1>1, <1>2, ZeroedCount
<1>5. TypeOK'
  BY <1>3, <1>4 DEF IInv, TypeOK
<1>6. \A g \in GrantIds :
        /\ created'[g] = IF g \in G THEN 0 ELSE created[g]
        /\ lastFlow'[g] = IF g \in G THEN 0 ELSE lastFlow[g]
        /\ lifetime'[g] = IF g \in G THEN 0 ELSE lifetime[g]
        /\ age'[g] = IF g \in G THEN 0 ELSE age[g]
        /\ idle'[g] = IF g \in G THEN 0 ELSE idle[g]
  BY <1>2 DEF Zeroed
<1>7. Live(grants) \subseteq GrantIds
  BY DEF Live
<1>8. ClocksTell'
  BY <1>3, <1>6, <1>7 DEF IInv, ClocksTell
<1>9. DeadAreAgeless'
  BY <1>3, <1>6, <1>7 DEF IInv, DeadAreAgeless
<1>. QED  BY <1>5, <1>8, <1>9 DEF IInv

\* What the invariant says of the table as a whole
LEMMA Types ==
  ASSUME IInv
  PROVE  /\ grants \in [GrantIds -> GrantSpec \cup {NoGrant}]
         /\ created \in [GrantIds -> Clock] /\ lastFlow \in [GrantIds -> Clock]
         /\ lifetime \in [GrantIds -> Nat] /\ poured \in [GrantIds -> Nat]
         /\ age \in [GrantIds -> Nat] /\ idle \in [GrantIds -> Nat]
         /\ now \in Clock /\ lag \in Nat /\ lag <= MaxLag
         /\ 0 \in Clock /\ Live(grants) \subseteq GrantIds
BY ClockIsPositive, ClockAssumption DEF IInv, TypeOK, Clock, Live

\* A spec applied is a live grant; every other live grant is one that was, on no
\* more meters and with the same limits.
LEMMA AuthorizedTable ==
  ASSUME NEW tbl \in [GrantIds -> GrantSpec \cup {NoGrant}], NEW s \in Specs
  PROVE  /\ Authorized(tbl, s) \in [GrantIds -> GrantSpec \cup {NoGrant}]
         /\ s.id \in GrantIds /\ s.maxDuration \in Nat
         /\ Authorized(tbl, s)[s.id] = s /\ s.id \notin Displaced(tbl, s)
         /\ Live(Authorized(tbl, s)) = (Live(tbl) \ Displaced(tbl, s)) \cup {s.id}
         /\ \A g \in Live(tbl) \ (Displaced(tbl, s) \cup {s.id}) :
              /\ Authorized(tbl, s)[g].maxDuration = tbl[g].maxDuration
              /\ Authorized(tbl, s)[g].maxIdle = tbl[g].maxIdle
<1> DEFINE new == Authorized(tbl, s)
<1>1. s \in GrantSpec /\ NoGrant \notin GrantSpec
  BY SpecsAssumption
<1>2. s.id \in GrantIds /\ s.maxDuration \in Nat /\ s.id \notin Displaced(tbl, s)
  BY <1>1 DEF GrantSpec, Displaced
<1>3. new[s.id] = s
  BY <1>2 DEF Authorized
<1>4. ASSUME NEW g \in Live(tbl) \ (Displaced(tbl, s) \cup {s.id})
      PROVE  /\ new[g] \in GrantSpec
             /\ new[g].maxDuration = tbl[g].maxDuration /\ new[g].maxIdle = tbl[g].maxIdle
  <2>1. g \in GrantIds /\ g # s.id /\ tbl[g] \in GrantSpec
    BY <1>4 DEF Live
  <2>2. new[g] = [tbl[g] EXCEPT !.meters = @ \ s.meters]
    BY <1>4, <2>1 DEF Authorized
  <2>. QED  BY <2>1, <2>2 DEF GrantSpec
<1>5. ASSUME NEW g \in GrantIds \ {s.id}, g \notin Live(tbl) \ Displaced(tbl, s)
      PROVE  new[g] = NoGrant
  BY <1>5 DEF Authorized
<1>6. \A g \in GrantIds : new[g] \in GrantSpec \cup {NoGrant}
  BY <1>1, <1>3, <1>4, <1>5
<1>7. new \in [GrantIds -> GrantSpec \cup {NoGrant}]
  BY <1>6 DEF Authorized
<1>8. Live(new) = (Live(tbl) \ Displaced(tbl, s)) \cup {s.id}
  BY <1>1, <1>2, <1>3, <1>4, <1>5 DEF Live
<1>. QED  BY <1>2, <1>3, <1>4, <1>7, <1>8

LEMMA AuthorizeKeeps ==
  ASSUME IInv, NEW s \in Specs, Authorize(s)
  PROVE  IInv'
<1> DEFINE gone == Displaced(grants, s)
           fresh == s.id \notin Live(grants)
<1>1. /\ grants' = Authorized(grants, s)
      /\ created' = Stamped(created, s) /\ lastFlow' = Stamped(lastFlow, s)
      /\ lifetime' = [Zeroed(lifetime, gone) EXCEPT ![s.id] = EffectiveMaxDuration(s.maxDuration)]
      /\ poured' = Zeroed(poured, gone) /\ age' = Zeroed(age, gone) /\ idle' = Zeroed(idle, gone)
      /\ now' = now /\ lag' = lag
  BY DEF Authorize
<1>2. /\ grants' \in [GrantIds -> GrantSpec \cup {NoGrant}]
      /\ s.id \in GrantIds /\ s.maxDuration \in Nat
      /\ grants'[s.id] = s /\ s.id \notin gone
      /\ Live(grants') = (Live(grants) \ gone) \cup {s.id}
      /\ \A g \in Live(grants) \ (gone \cup {s.id}) : grants'[g].maxDuration = grants[g].maxDuration
  BY <1>1, Types, AuthorizedTable
<1>3. \A g \in GrantIds :
        /\ age'[g] = IF g \in gone THEN 0 ELSE age[g]
        /\ idle'[g] = IF g \in gone THEN 0 ELSE idle[g]
        /\ created'[g] = IF g = s.id /\ fresh THEN now ELSE IF g \in gone THEN 0 ELSE created[g]
        /\ lastFlow'[g] = IF g = s.id /\ fresh THEN now ELSE IF g \in gone THEN 0 ELSE lastFlow[g]
        /\ lifetime'[g] = IF g = s.id THEN EffectiveMaxDuration(s.maxDuration)
                          ELSE IF g \in gone THEN 0 ELSE lifetime[g]
  BY <1>1, <1>2 DEF Stamped, Zeroed
<1>4. TypeOK'
  <2>1. EffectiveMaxDuration(s.maxDuration) \in Nat
    BY <1>2, ClampHolds
  <2>2. /\ poured' \in [GrantIds -> Nat] /\ age' \in [GrantIds -> Nat] /\ idle' \in [GrantIds -> Nat]
        /\ Zeroed(lifetime, gone) \in [GrantIds -> Nat]
        /\ Zeroed(created, gone) \in [GrantIds -> Clock] /\ Zeroed(lastFlow, gone) \in [GrantIds -> Clock]
    BY <1>1, Types, ZeroedCount
  <2>3. lifetime' \in [GrantIds -> Nat]
    BY <1>1, <2>1, <2>2
  <2>4. created' \in [GrantIds -> Clock] /\ lastFlow' \in [GrantIds -> Clock]
    BY <1>1, <1>2, <2>2, Types DEF Stamped
  <2>. QED  BY <1>1, <1>2, <2>2, <2>3, <2>4 DEF IInv, TypeOK
<1>5. ClocksTell'
  <2>1. ASSUME NEW g \in Live(grants')
        PROVE  /\ (now - created'[g]) % ClockRange = age'[g]
               /\ (now - lastFlow'[g]) % ClockRange = idle'[g]
               /\ idle'[g] <= age'[g] /\ age'[g] <= Clamp + lag
               /\ lifetime'[g] = EffectiveMaxDuration(grants'[g].maxDuration)
    <3>1. CASE g = s.id /\ fresh
      <4>1. age'[g] = 0 /\ idle'[g] = 0
        BY <1>2, <1>3, <3>1 DEF IInv, DeadAreAgeless
      <4>2. (now - now) % ClockRange = 0
        BY Types, ClockDifference DEF Clock
      <4>. QED  BY <1>2, <1>3, <3>1, <4>1, <4>2, Types, ClockAssumption
    <3>2. CASE g # s.id \/ ~fresh
      <4>1. g \in Live(grants) \ gone
        BY <1>2, <3>2
      <4>2. /\ (now - created[g]) % ClockRange = age[g]
            /\ (now - lastFlow[g]) % ClockRange = idle[g]
            /\ idle[g] <= age[g] /\ age[g] <= Clamp + lag
            /\ lifetime[g] = EffectiveMaxDuration(grants[g].maxDuration)
        BY <4>1 DEF IInv, ClocksTell
      <4>3. lifetime'[g] = EffectiveMaxDuration(grants'[g].maxDuration)
        BY <1>2, <1>3, <4>1, <4>2, Types
      <4>. QED  BY <1>3, <3>2, <4>1, <4>2, <4>3, Types
    <3>. QED  BY <3>1, <3>2
  <2>. QED  BY <1>1, <2>1 DEF ClocksTell
<1>6. DeadAreAgeless'
  BY <1>2, <1>3 DEF IInv, DeadAreAgeless
<1>. QED  BY <1>4, <1>5, <1>6 DEF IInv

LEMMA RecordFlowKeeps ==
  ASSUME IInv, NEW m \in Meters, RecordFlow(m, 1)
  PROVE  IInv'
<1>1. PICK f \in Holders(grants, m) :
        LET volume  == poured[f] + 1
            G       == IF OverLimit(f, volume) THEN {f} ELSE {}
        IN /\ grants' = Ended(grants, G)
           /\ created' = Zeroed(created, G)
           /\ lastFlow' = Zeroed([lastFlow EXCEPT ![f] = now], G)
           /\ lifetime' = Zeroed(lifetime, G)
           /\ poured' = Zeroed([poured EXCEPT ![f] = volume], G)
           /\ age' = Zeroed(age, G)
           /\ idle' = Zeroed([idle EXCEPT ![f] = 0], G)
           /\ now' = now /\ lag' = lag
  BY DEF RecordFlow
<1> DEFINE G == IF OverLimit(f, poured[f] + 1) THEN {f} ELSE {}
<1>2. f \in GrantIds /\ poured[f] + 1 \in Nat
  BY Types DEF Holders, Live
<1>3. /\ grants' \in [GrantIds -> GrantSpec \cup {NoGrant}]
      /\ Live(grants') = Live(grants) \ G
      /\ \A g \in Live(grants') : grants'[g] = grants[g]
  BY <1>1, Types, EndedTable
<1>4. \A g \in GrantIds :
        /\ created'[g] = IF g \in G THEN 0 ELSE created[g]
        /\ lastFlow'[g] = IF g \in G THEN 0 ELSE IF g = f THEN now ELSE lastFlow[g]
        /\ lifetime'[g] = IF g \in G THEN 0 ELSE lifetime[g]
        /\ age'[g] = IF g \in G THEN 0 ELSE age[g]
        /\ idle'[g] = IF g \in G THEN 0 ELSE IF g = f THEN 0 ELSE idle[g]
  BY <1>1, <1>2, Types DEF Zeroed
<1>5. TypeOK'
  <2>1. /\ [lastFlow EXCEPT ![f] = now] \in [GrantIds -> Clock]
        /\ [poured EXCEPT ![f] = poured[f] + 1] \in [GrantIds -> Nat]
        /\ [idle EXCEPT ![f] = 0] \in [GrantIds -> Nat]
    BY <1>2, Types
  <2>2. created' \in [GrantIds -> Clock] /\ lastFlow' \in [GrantIds -> Clock]
    BY <1>1, <2>1, Types, ZeroedCount
  <2>3. /\ lifetime' \in [GrantIds -> Nat] /\ poured' \in [GrantIds -> Nat]
        /\ age' \in [GrantIds -> Nat] /\ idle' \in [GrantIds -> Nat]
    BY <1>1, <2>1, Types, ZeroedCount
  <2>. QED  BY <1>1, <1>3, <2>2, <2>3 DEF IInv, TypeOK
<1>6. ClocksTell'
  <2>1. ASSUME NEW g \in Live(grants')
        PROVE  /\ (now - created'[g]) % ClockRange = age'[g]
               /\ (now - lastFlow'[g]) % ClockRange = idle'[g]
               /\ idle'[g] <= age'[g] /\ age'[g] <= Clamp + lag
               /\ lifetime'[g] = EffectiveMaxDuration(grants'[g].maxDuration)
    <3>1. g \in Live(grants) /\ g \in GrantIds /\ g \notin G /\ grants'[g] = grants[g] /\ age[g] \in Nat
      BY <1>3, Types
    <3>2. /\ (now - created[g]) % ClockRange = age[g]
          /\ (now - lastFlow[g]) % ClockRange = idle[g]
          /\ idle[g] <= age[g] /\ age[g] <= Clamp + lag
          /\ lifetime[g] = EffectiveMaxDuration(grants[g].maxDuration)
      BY <3>1 DEF IInv, ClocksTell
    <3>3. (now - now) % ClockRange = 0
      BY Types, ClockDifference DEF Clock
    <3>. QED  BY <1>4, <3>1, <3>2, <3>3
  <2>. QED  BY <1>1, <2>1 DEF ClocksTell
<1>7. DeadAreAgeless'
  BY <1>3, <1>4, Types DEF IInv, DeadAreAgeless
<1>. QED  BY <1>5, <1>6, <1>7 DEF IInv

\* A poll leaves no grant at its lifetime, nor, if it has an idle limit, at that.
LEMMA PollSpares ==
  ASSUME IInv, NEW g \in Live(grants), ~TooOld(g)
  PROVE  age[g] < lifetime[g]
<1>1. ~Due(created[g] + lifetime[g])
  BY DEF TooOld
<1>. QED  BY <1>1, LiveGrant, Types, DueMeansReached

LEMMA PollKeeps ==
  ASSUME IInv, Poll
  PROVE  IInv'
<1> DEFINE old == {g \in Live(grants) : TooOld(g)}
           idlers == {g \in Live(grants) \ old : TooIdle(g)}
<1>1. /\ EndGrants(old \cup idlers) /\ poured' = Zeroed(poured, old \cup idlers)
      /\ lag' = 0 /\ now' = now
  BY DEF Poll
<1>2. \A g \in Live(grants) \ (old \cup idlers) : age[g] <= Clamp + 0
  BY PollSpares, LiveGrant, ClockAssumption
<1>. HIDE DEF old, idlers
<1>. QED  BY <1>1, <1>2, EndGrantsKeeps, ClockAssumption

LEMMA PassKeeps ==
  ASSUME IInv, Pass
  PROVE  IInv'
<1>1. /\ lag < MaxLag /\ lag' = lag + 1 /\ now' = (now + 1) % ClockRange
      /\ age' = [g \in GrantIds |-> IF g \in Live(grants) THEN age[g] + 1 ELSE 0]
      /\ idle' = [g \in GrantIds |-> IF g \in Live(grants) THEN idle[g] + 1 ELSE 0]
      /\ UNCHANGED <<grants, created, lastFlow, lifetime, poured>>
  BY DEF Pass
<1>2. lag' \in 0..MaxLag /\ now' \in Clock
  BY <1>1, Types, ClockStep, ClockAssumption
<1>3. age' \in [GrantIds -> Nat] /\ idle' \in [GrantIds -> Nat]
  BY <1>1, Types
<1>4. TypeOK'
  BY <1>1, <1>2, <1>3 DEF IInv, TypeOK
<1>5. ClocksTell'
  <2>1. ASSUME NEW g \in Live(grants)
        PROVE  /\ (now' - created[g]) % ClockRange = age[g] + 1
               /\ (now' - lastFlow[g]) % ClockRange = idle[g] + 1
               /\ idle[g] + 1 <= age[g] + 1 /\ age[g] + 1 <= Clamp + (lag + 1)
               /\ lifetime[g] = EffectiveMaxDuration(grants[g].maxDuration)
    <3>1. age[g] <= Clamp + lag
      BY DEF IInv, ClocksTell
    <3>2. age[g] + 1 < ClockRange /\ idle[g] + 1 < ClockRange
      BY <1>1, <3>1, LiveGrant, Types, ClockAssumption
    <3>3. (now' - created[g]) % ClockRange = age[g] + 1
      BY <1>1, <3>2, LiveGrant, Types, SpanGrows
    <3>4. (now' - lastFlow[g]) % ClockRange = idle[g] + 1
      BY <1>1, <3>2, LiveGrant, Types, SpanGrows
    <3>. QED  BY <3>1, <3>3, <3>4, LiveGrant, Types, ClockAssumption
  <2>. QED  BY <1>1, <2>1, Types DEF ClocksTell
<1>6. DeadAreAgeless'
  BY <1>1 DEF DeadAreAgeless
<1>. QED  BY <1>4, <1>5, <1>6 DEF IInv

LEMMA NextIInv == IInv /\ [Next]_vars => IInv'
<1>. SUFFICES ASSUME IInv, [Next]_vars PROVE IInv'
  OBVIOUS
<1>1. ASSUME NEW G, EndGrants(G), poured' = Zeroed(poured, G), now' = now, lag' = lag PROVE IInv'
  <2>1. lag' \in 0..MaxLag /\ \A g \in Live(grants) : age[g] <= Clamp + lag'
    BY <1>1 DEF IInv, TypeOK, ClocksTell
  <2>. QED  BY <1>1, <2>1, EndGrantsKeeps
<1>2. CASE \E s \in Specs : Authorize(s)
  BY <1>2, AuthorizeKeeps
<1>3. ASSUME NEW ids \in SUBSET GrantIds, Deauthorize(ids) PROVE IInv'
  <2>1. /\ EndGrants(ids \cap Live(grants)) /\ poured' = Zeroed(poured, ids \cap Live(grants))
        /\ now' = now /\ lag' = lag
    BY <1>3 DEF Deauthorize
  <2>. QED  BY <1>1, <2>1
<1>4. ASSUME NEW gone \in SUBSET Detachments, DetachAll(gone) PROVE IInv'
  <2> DEFINE G == UNION {Presented(grants, p[1], p[2]) : p \in gone}
  <2>1. EndGrants(G) /\ poured' = Zeroed(poured, G) /\ now' = now /\ lag' = lag
    BY <1>4 DEF DetachAll
  <2> HIDE DEF G
  <2>. QED  BY <1>1, <2>1
<1>5. CASE \E m \in Meters : RecordFlow(m, 1)
  BY <1>5, RecordFlowKeeps
<1>6. CASE Poll
  BY <1>6, PollKeeps
<1>7. CASE Pass
  BY <1>7, PassKeeps
<1>8. CASE UNCHANGED vars
  BY <1>8 DEF vars, IInv, TypeOK, ClocksTell, DeadAreAgeless
<1>. QED  BY <1>2, <1>3, <1>4, <1>5, <1>6, <1>7, <1>8 DEF Next

\* The inductive invariant holds in every state of the table.
THEOREM Invariant == Spec => []IInv
BY InitIInv, NextIInv, PTL DEF Spec

-----------------------------------------------------------------------------
(* What the invariant shows *)

\* Every variable of the table has its type, in every state.
THEOREM TypeCorrect == Spec => []TypeOK
<1>1. IInv => TypeOK
  BY DEF IInv
<1>. QED  BY <1>1, Invariant, PTL

\* No grant outlives the clamp by more than one stall of the main loop, whatever
\* updates the server sends and wherever the clock wraps.
THEOREM ClampBoundsLifetimeHolds == Spec => []ClampBoundsLifetime
<1>1. IInv => ClampBoundsLifetime
  BY LiveGrant DEF ClampBoundsLifetime
<1>. QED  BY <1>1, Invariant, PTL

\* A poll ends every grant at its duration or its idle limit, wherever the clock
\* wrapped since the grant began.
THEOREM PollEndsTheDueHolds == Spec => PollEndsTheDue
<1> DEFINE Truly ==
      lag' = 0 /\ lag > 0 =>
        \A g \in Live(grants') :
          /\ age'[g] < EffectiveMaxDuration(grants'[g].maxDuration)
          /\ grants'[g].maxIdle = 0 \/ idle'[g] < grants'[g].maxIdle
<1>1. IInv /\ [Next]_vars => [Truly]_vars
  <2>1. SUFFICES ASSUME IInv, Next, lag' = 0, lag > 0, NEW g \in Live(grants')
                 PROVE  /\ age'[g] < EffectiveMaxDuration(grants'[g].maxDuration)
                        /\ grants'[g].maxIdle = 0 \/ idle'[g] < grants'[g].maxIdle
    BY DEF vars
  <2>2. Poll
    <3>1. lag \in Nat /\ lag' # lag /\ lag' # lag + 1
      BY <2>1, Types
    <3>2. ~(\E s \in Specs : Authorize(s)) /\ ~(\E ids \in SUBSET GrantIds : Deauthorize(ids))
      BY <3>1 DEF Authorize, Deauthorize
    <3>3. ~(\E gone \in SUBSET Detachments : DetachAll(gone)) /\ ~(\E m \in Meters : RecordFlow(m, 1))
      BY <3>1 DEF DetachAll, RecordFlow
    <3>. QED  BY <2>1, <3>1, <3>2, <3>3 DEF Next, Pass
  <2> DEFINE old == {h \in Live(grants) : TooOld(h)}
             idlers == {h \in Live(grants) \ old : TooIdle(h)}
  <2>3. EndGrants(old \cup idlers)
    BY <2>2 DEF Poll
  <2>4. /\ g \in Live(grants) /\ ~TooOld(g) /\ ~TooIdle(g) /\ grants'[g] = grants[g]
        /\ age'[g] = age[g] /\ idle'[g] = idle[g]
    <3>1. grants' = Ended(grants, old \cup idlers)
      BY <2>3 DEF EndGrants
    <3>2. g \in Live(grants) \ (old \cup idlers) /\ grants'[g] = grants[g]
      BY <2>1, <3>1, Types, EndedTable
    <3>3. g \in GrantIds /\ age'[g] = age[g] /\ idle'[g] = idle[g]
      BY <2>1, <2>3, <3>2, Types DEF EndGrants, Zeroed
    <3>. QED  BY <3>2, <3>3
  <2>5. age[g] < lifetime[g]
    BY <2>1, <2>4, PollSpares
  <2>6. ASSUME grants[g].maxIdle # 0 PROVE idle[g] < grants[g].maxIdle
    <3>1. ~Due(lastFlow[g] + grants[g].maxIdle)
      BY <2>1, <2>4, <2>6, LiveGrant DEF TooIdle
    <3>2. 2 * idle[g] < ClockRange
      BY <2>1, <2>4, LiveGrant, ClockAssumption
    <3>. QED  BY <2>1, <2>4, <3>1, <3>2, LiveGrant, Types, DueMeansReached
  <2>. QED  BY <2>1, <2>4, <2>5, <2>6, LiveGrant
<1>2. Spec => [][Truly]_vars
  BY <1>1, Invariant, PTL DEF Spec
<1>. QED  BY <1>2 DEF PollEndsTheDue

\* No idle limit is more than half the clock's range away.
IdleLimitsFit == \A s \in Specs : 2 * s.maxIdle <= ClockRange

\* The live grants keep to it.
IdleLimitsKept == \A g \in Live(grants) : 2 * grants[g].maxIdle <= ClockRange

LEMMA IdleLimitsStep ==
  ASSUME IdleLimitsFit, IInv, IdleLimitsKept, [Next]_vars
  PROVE  IdleLimitsKept'
<1>1. ASSUME NEW s \in Specs, Authorize(s) PROVE IdleLimitsKept'
  BY <1>1, Types, AuthorizedTable DEF Authorize, IdleLimitsFit, IdleLimitsKept
<1>2. ASSUME NEW G, grants' = Ended(grants, G) PROVE IdleLimitsKept'
  BY <1>2, Types, EndedTable DEF IdleLimitsKept
<1>3. ASSUME NEW ids \in SUBSET GrantIds, Deauthorize(ids) PROVE IdleLimitsKept'
  BY <1>2, <1>3 DEF Deauthorize, EndGrants
<1>4. ASSUME NEW gone \in SUBSET Detachments, DetachAll(gone) PROVE IdleLimitsKept'
  BY <1>2, <1>4 DEF DetachAll, EndGrants
<1>5. ASSUME NEW m \in Meters, RecordFlow(m, 1) PROVE IdleLimitsKept'
  BY <1>2, <1>5 DEF RecordFlow
<1>6. CASE Poll
  BY <1>2, <1>6 DEF Poll, EndGrants
<1>7. CASE Pass
  BY <1>7 DEF Pass, IdleLimitsKept
<1>8. CASE UNCHANGED vars
  BY <1>8 DEF vars, IdleLimitsKept
<1>. QED  BY <1>1, <1>3, <1>4, <1>5, <1>6, <1>7, <1>8 DEF Next

\* What an ending says of its grant
Told(e, reason, volume) ==
  /\ e.grant \in Live(grants) /\ e.reason = reason /\ e.volume = volume
  /\ e.duration = age[e.grant]

LEMMA EndOfTells ==
  ASSUME IInv, NEW g \in Live(grants), NEW released, NEW reason, NEW volume
  PROVE  EndOf(g, released, reason, volume).grant = g /\ Told(EndOf(g, released, reason, volume), reason, volume)
BY LiveGrant DEF EndOf, Told

\* Every ending a step returns tells of a grant that was live, why it ended, how
\* old it was and what it had poured.
LEMMA Endings ==
  ASSUME IInv, Next, NEW e \in ends'
  PROVE  \/ /\ e.reason \in {"replaced", "command", "detach"}
            /\ Told(e, e.reason, poured[e.grant])
         \/ Told(e, "max_volume", poured[e.grant] + 1)
         \/ Poll /\ TooOld(e.grant) /\ Told(e, "max_duration", poured[e.grant])
         \/ Poll /\ TooIdle(e.grant) /\ Told(e, "max_idle", poured[e.grant])
<1>1. ASSUME NEW s \in Specs, Authorize(s)
      PROVE  e.reason = "replaced" /\ Told(e, "replaced", poured[e.grant])
  <2>1. PICK g \in Losers(grants, s) : e = EndOf(g, Lost(grants, s, g), "replaced", poured[g])
    BY <1>1 DEF Authorize
  <2>. QED  BY <2>1, EndOfTells DEF Losers, Told
<1>2. ASSUME NEW ids \in SUBSET GrantIds, Deauthorize(ids)
      PROVE  e.reason = "command" /\ Told(e, "command", poured[e.grant])
  <2>1. PICK g \in ids \cap Live(grants) : e = EndOf(g, grants[g].meters, "command", poured[g])
    BY <1>2 DEF Deauthorize
  <2>. QED  BY <2>1, EndOfTells DEF Told
<1>3. ASSUME NEW gone \in SUBSET Detachments, DetachAll(gone)
      PROVE  e.reason = "detach" /\ Told(e, "detach", poured[e.grant])
  <2>1. PICK g \in UNION {Presented(grants, p[1], p[2]) : p \in gone} : e = EndOf(g, grants[g].meters, "detach", poured[g])
    BY <1>3 DEF DetachAll
  <2>. QED  BY <2>1, EndOfTells DEF Presented, Told
<1>4. ASSUME NEW m \in Meters, RecordFlow(m, 1)
      PROVE  Told(e, "max_volume", poured[e.grant] + 1)
  <2>1. PICK g \in Holders(grants, m) : e = EndOf(g, grants[g].meters, "max_volume", poured[g] + 1)
    BY <1>4 DEF RecordFlow
  <2>. QED  BY <2>1, EndOfTells DEF Holders
<1>5. ASSUME Poll
      PROVE  \/ TooOld(e.grant) /\ Told(e, "max_duration", poured[e.grant])
             \/ TooIdle(e.grant) /\ Told(e, "max_idle", poured[e.grant])
  <2> DEFINE old == {h \in Live(grants) : TooOld(h)}
             idlers == {h \in Live(grants) \ old : TooIdle(h)}
  <2>1. \/ \E g \in old : e = EndOf(g, grants[g].meters, "max_duration", poured[g])
        \/ \E g \in idlers : e = EndOf(g, grants[g].meters, "max_idle", poured[g])
    BY <1>5 DEF Poll
  <2>2. CASE \E g \in old : e = EndOf(g, grants[g].meters, "max_duration", poured[g])
    BY <2>2, EndOfTells
  <2>3. CASE \E g \in idlers : e = EndOf(g, grants[g].meters, "max_idle", poured[g])
    BY <2>3, EndOfTells
  <2>. QED  BY <2>1, <2>2, <2>3
<1>6. ~Pass
  BY DEF Pass
<1>. QED  BY <1>1, <1>2, <1>3, <1>4, <1>5, <1>6 DEF Next

\* No grant is ended before it is as old as its lifetime, nor, if no idle limit is
\* beyond half the clock's range, before it idled as long as its limit.
THEOREM NoEarlyExpiryHolds == IdleLimitsFit => (Spec => NoEarlyExpiry)
<1> DEFINE Truly ==
      \A e \in ends' :
        /\ e.reason = "max_duration" => age[e.grant] >= EffectiveMaxDuration(grants[e.grant].maxDuration)
        /\ e.reason = "max_idle" => idle[e.grant] >= grants[e.grant].maxIdle
<1>. SUFFICES ASSUME IdleLimitsFit PROVE Spec => NoEarlyExpiry
  OBVIOUS
<1>1. Init => IdleLimitsKept
  BY DEF Init, Live, IdleLimitsKept
<1>2. IInv /\ IdleLimitsKept /\ [Next]_vars => IdleLimitsKept'
  BY IdleLimitsStep
<1>3. IInv /\ IdleLimitsKept /\ [Next]_vars => [Truly]_vars
  <2>1. SUFFICES ASSUME IInv, IdleLimitsKept, Next, NEW e \in ends'
                 PROVE  /\ e.reason = "max_duration" =>
                              age[e.grant] >= EffectiveMaxDuration(grants[e.grant].maxDuration)
                        /\ e.reason = "max_idle" => idle[e.grant] >= grants[e.grant].maxIdle
    BY DEF vars
  <2> DEFINE g == e.grant
  <2>2. ASSUME e.reason = "max_duration"
        PROVE  age[g] >= EffectiveMaxDuration(grants[g].maxDuration)
    <3>1. g \in Live(grants) /\ Due(created[g] + lifetime[g])
      BY <2>1, <2>2, Endings DEF Told, TooOld
    <3>2. 2 * lifetime[g] <= ClockRange
      BY <2>1, <3>1, LiveGrant, ClockAssumption
    <3>3. age[g] >= lifetime[g]
      BY <2>1, <3>1, <3>2, LiveGrant, Types, DueMeansReached
    <3>. QED  BY <2>1, <3>1, <3>3, LiveGrant
  <2>3. ASSUME e.reason = "max_idle" PROVE idle[g] >= grants[g].maxIdle
    <3>1. g \in Live(grants) /\ Due(lastFlow[g] + grants[g].maxIdle)
      BY <2>1, <2>3, Endings DEF Told, TooIdle
    <3>2. 2 * grants[g].maxIdle <= ClockRange
      BY <2>1, <3>1 DEF IdleLimitsKept
    <3>. QED  BY <2>1, <3>1, <3>2, LiveGrant, Types, DueMeansReached
  <2>. QED  BY <2>2, <2>3
<1>4. Spec => []IdleLimitsKept
  BY <1>1, <1>2, Invariant, PTL DEF Spec
<1>5. Spec => [][Truly]_vars
  BY <1>3, <1>4, Invariant, PTL DEF Spec
<1>. QED  BY <1>5 DEF NoEarlyExpiry

\* The grant_end tells how long the grant lived and what it poured.
THEOREM EndTellsTheTruthHolds == Spec => EndTellsTheTruth
<1> DEFINE Truly ==
      \A e \in ends' :
        /\ e.duration = age[e.grant]
        /\ e.volume = poured[e.grant] + IF e.reason = "max_volume" THEN 1 ELSE 0
<1>1. IInv /\ [Next]_vars => [Truly]_vars
  <2>1. SUFFICES ASSUME IInv, Next, NEW e \in ends'
                 PROVE  /\ e.duration = age[e.grant]
                        /\ e.volume = poured[e.grant] + IF e.reason = "max_volume" THEN 1 ELSE 0
    BY DEF vars
  <2>2. e.grant \in Live(grants) => poured[e.grant] + 0 = poured[e.grant]
    BY <2>1, Types
  <2>. QED  BY <2>1, <2>2, Endings DEF Told
<1>2. Spec => [][Truly]_vars
  BY <1>1, Invariant, PTL DEF Spec
<1>. QED  BY <1>2 DEF EndTellsTheTruth

\* While a grant lives its creation stands, what it poured is never taken back, and
\* only flow restarts its idle clock.
THEOREM CountersCarryOverHolds == Spec => CountersCarryOver
<1> DEFINE Carried(g) == /\ poured'[g] >= poured[g] /\ created'[g] = created[g]
                         /\ lastFlow'[g] # lastFlow[g] => poured'[g] > poured[g]
           Truly == \A g \in Live(grants) \cap Live(grants') : Carried(g)
<1>1. ASSUME IInv, NEW G, EndGrants(G), poured' = Zeroed(poured, G), NEW g \in Live(grants) \cap Live(grants')
      PROVE  Carried(g)
  <2>1. g \in GrantIds /\ g \notin G /\ poured[g] \in Nat
    BY <1>1, Types, EndedTable DEF EndGrants
  <2>. QED  BY <1>1, <2>1 DEF EndGrants, Zeroed
<1>2. IInv /\ [Next]_vars => [Truly]_vars
  <2>1. SUFFICES ASSUME IInv, Next, NEW g \in Live(grants) \cap Live(grants') PROVE Carried(g)
    BY DEF vars
  <2>2. g \in GrantIds /\ poured[g] \in Nat
    BY <2>1, Types
  <2>3. ASSUME NEW s \in Specs, Authorize(s) PROVE Carried(g)
    <3>1. g \notin Displaced(grants, s) /\ s.id \in GrantIds
      BY <2>1, <2>3, Types, AuthorizedTable DEF Authorize
    <3>2. created'[g] = created[g] /\ lastFlow'[g] = lastFlow[g]
      BY <2>1, <2>2, <2>3, <3>1 DEF Authorize, Stamped, Zeroed
    <3>3. poured'[g] = poured[g]
      BY <2>2, <2>3, <3>1 DEF Authorize, Zeroed
    <3>. QED  BY <2>2, <3>2, <3>3
  <2>4. ASSUME NEW ids \in SUBSET GrantIds, Deauthorize(ids) PROVE Carried(g)
    BY <1>1, <2>1, <2>4 DEF Deauthorize
  <2>5. ASSUME NEW gone \in SUBSET Detachments, DetachAll(gone) PROVE Carried(g)
    BY <1>1, <2>1, <2>5 DEF DetachAll
  <2>6. ASSUME NEW m \in Meters, RecordFlow(m, 1) PROVE Carried(g)
    <3>1. PICK f \in Holders(grants, m) :
            LET G == IF OverLimit(f, poured[f] + 1) THEN {f} ELSE {}
            IN /\ grants' = Ended(grants, G)
               /\ created' = Zeroed(created, G)
               /\ lastFlow' = Zeroed([lastFlow EXCEPT ![f] = now], G)
               /\ poured' = Zeroed([poured EXCEPT ![f] = poured[f] + 1], G)
      BY <2>6 DEF RecordFlow
    <3> DEFINE G == IF OverLimit(f, poured[f] + 1) THEN {f} ELSE {}
    <3>2. g \notin G /\ f \in GrantIds
      BY <2>1, <3>1, Types, EndedTable DEF Holders, Live
    <3>3. /\ created'[g] = created[g]
          /\ lastFlow'[g] = IF g = f THEN now ELSE lastFlow[g]
          /\ poured'[g] = IF g = f THEN poured[g] + 1 ELSE poured[g]
      BY <2>1, <2>2, <3>1, <3>2, Types DEF Zeroed
    <3>. QED  BY <2>2, <3>3
  <2>7. CASE Poll
    BY <1>1, <2>1, <2>7 DEF Poll
  <2>8. CASE Pass
    BY <2>2, <2>8 DEF Pass
  <2>. QED  BY <2>1, <2>3, <2>4, <2>5, <2>6, <2>7, <2>8 DEF Next
<1>3. Spec => [][Truly]_vars
  BY <1>2, Invariant, PTL DEF Spec
<1>. QED  BY <1>3 DEF CountersCarryOver

-----------------------------------------------------------------------------
(* The button reader, whose detached triggers end grants: for any buttons and *)
(* any tolerance the miss counter can exceed.  With 255 tolerated misses it   *)
(* wraps before it does.                                                      *)

\* An entry counts the true misses, none more than tolerated.
Counted ==
  \A b \in Buttons : misses[b] # Unknown => misses[b] = missed[b] /\ missed[b] <= MaxMissed

ReaderInv == ReaderTypeOK /\ Counted

LEMMA InitReaderInv == ReaderInit => ReaderInv
BY OneWireAssumption DEF ReaderInit, ReaderInv, ReaderTypeOK, Counted, Unknown

\* A counter that may still grow grows by one, or goes when it is over the tolerance.
LEMMA AgedValue ==
  ASSUME MaxMissed + 1 < ByteRange, NEW count \in 0..MaxMissed
  PROVE  Aged(count) = IF count + 1 <= MaxMissed THEN count + 1 ELSE Unknown
<1>1. (count + 1) % ByteRange = count + 1
  BY OneWireAssumption
<1>. QED  BY <1>1 DEF Aged

\* One search, for one button
LEMMA SearchOne ==
  ASSUME MaxMissed + 1 < ByteRange, ReaderInv,
         NEW found \in SUBSET Buttons, Update(found), NEW b \in Buttons
  PROVE  /\ misses'[b] \in 0..ByteRange /\ missed'[b] \in 0..MaxSearches
         /\ misses'[b] # Unknown => misses'[b] = missed'[b] /\ missed'[b] <= MaxMissed
         /\ misses[b] # Unknown /\ misses'[b] = Unknown => missed'[b] > MaxMissed
<1>1. /\ misses[b] \in 0..ByteRange /\ missed[b] \in 0..MaxSearches
      /\ misses[b] # Unknown => misses[b] = missed[b] /\ missed[b] <= MaxMissed
  BY DEF ReaderInv, ReaderTypeOK, Counted
<1>2. /\ misses'[b] = Searched(b, found)
      /\ missed'[b] = IF b \in found THEN 0
                      ELSE IF missed[b] < MaxSearches THEN missed[b] + 1 ELSE missed[b]
  BY DEF Update
<1>3. CASE b \in found
  <2>1. misses'[b] = 0 /\ missed'[b] = 0
    BY <1>2, <1>3 DEF Searched
  <2>. QED  BY <2>1, OneWireAssumption DEF Unknown
<1>4. CASE b \notin found /\ misses[b] = Unknown
  <2>1. misses'[b] = Unknown
    BY <1>2, <1>4 DEF Searched
  <2>2. missed'[b] = IF missed[b] < MaxSearches THEN missed[b] + 1 ELSE missed[b]
    BY <1>2, <1>4
  <2>. QED  BY <1>1, <1>4, <2>1, <2>2, OneWireAssumption DEF Unknown
<1>5. CASE b \notin found /\ misses[b] # Unknown
  <2>1. misses'[b] = Aged(missed[b])
    BY <1>1, <1>2, <1>5 DEF Searched
  <2>2. missed[b] \in 0..MaxMissed
    BY <1>1, <1>5, OneWireAssumption
  <2>3. missed'[b] = missed[b] + 1
    BY <1>2, <1>5, <2>2, OneWireAssumption
  <2>4. misses'[b] = IF missed[b] + 1 <= MaxMissed THEN missed[b] + 1 ELSE Unknown
    BY <2>1, <2>2, AgedValue
  <2>. QED  BY <2>2, <2>3, <2>4, OneWireAssumption DEF Unknown
<1>. QED  BY <1>3, <1>4, <1>5

LEMMA NextReaderInv ==
  ASSUME MaxMissed + 1 < ByteRange
  PROVE  ReaderInv /\ [ReaderNext]_ReaderVars => ReaderInv'
<1>. SUFFICES ASSUME ReaderInv, [ReaderNext]_ReaderVars PROVE ReaderInv'
  OBVIOUS
<1>1. ASSUME NEW found \in SUBSET Buttons, Update(found) PROVE ReaderInv'
  <2>1. \A b \in Buttons :
          /\ misses'[b] \in 0..ByteRange /\ missed'[b] \in 0..MaxSearches
          /\ misses'[b] # Unknown => misses'[b] = missed'[b] /\ missed'[b] <= MaxMissed
    BY <1>1, SearchOne
  <2>2. misses' \in [Buttons -> 0..ByteRange] /\ missed' \in [Buttons -> 0..MaxSearches]
    BY <1>1, <2>1 DEF Update
  <2>3. attached' \subseteq Buttons /\ detached' \subseteq Buttons
    BY <1>1 DEF Update
  <2>. QED  BY <2>1, <2>2, <2>3 DEF ReaderInv, ReaderTypeOK, Counted
<1>2. CASE UNCHANGED ReaderVars
  BY <1>2 DEF ReaderVars, ReaderInv, ReaderTypeOK, Counted
<1>. QED  BY <1>1, <1>2 DEF ReaderNext

\* The inductive invariant holds in every state of the reader.
THEOREM ReaderInvariant ==
  ASSUME MaxMissed + 1 < ByteRange
  PROVE  ReaderSpec => []ReaderInv
BY InitReaderInv, NextReaderInv, PTL DEF ReaderSpec

\* A button that was missed more often than tolerated is not kept present, so
\* the grant it opened does not outlive it.
THEOREM AbsenceNoticedHolds ==
  ASSUME MaxMissed + 1 < ByteRange
  PROVE  ReaderSpec => []AbsenceNoticed
<1>1. ReaderInv => AbsenceNoticed
  <2>1. SUFFICES ASSUME ReaderInv, NEW b \in Buttons, missed[b] > MaxMissed, misses[b] # Unknown
                 PROVE  FALSE
    BY DEF AbsenceNoticed
  <2>2. missed[b] <= MaxMissed /\ missed[b] \in Nat /\ MaxMissed \in Nat
    BY <2>1, OneWireAssumption DEF ReaderInv, ReaderTypeOK, Counted
  <2>. QED  BY <2>1, <2>2
<1>. QED  BY <1>1, ReaderInvariant, PTL

\* A button in intermittent contact is not reported detached before it was
\* missed more often in a row than tolerated.
THEOREM NoFlappingHolds ==
  ASSUME MaxMissed + 1 < ByteRange
  PROVE  ReaderSpec => NoFlapping
<1> DEFINE Missed == \A b \in detached' : missed'[b] > MaxMissed
<1>1. ReaderInv /\ [ReaderNext]_ReaderVars => [Missed]_ReaderVars
  <2>1. SUFFICES ASSUME ReaderInv, NEW found \in SUBSET Buttons, Update(found), NEW b \in detached'
                 PROVE  missed'[b] > MaxMissed
    BY DEF ReaderNext
  <2>2. b \in Buttons /\ misses[b] # Unknown /\ misses'[b] = Unknown
    BY <2>1 DEF Update
  <2>. QED  BY <2>1, <2>2, SearchOne
<1>2. ReaderSpec => [][Missed]_ReaderVars
  BY <1>1, ReaderInvariant, PTL DEF ReaderSpec
<1>. QED  BY <1>2 DEF NoFlapping

-----------------------------------------------------------------------------
(* Table and reader together *)

\* The table and the reader, composed, each behave as they do alone: what is shown
\* of either holds of the two.
THEOREM PresenceImplementsBoth == PresenceSpec => Spec /\ ReaderSpec
<1>1. PresenceInit => Init /\ ReaderInit
  BY DEF PresenceInit
<1>2. [PresenceNext]_PresenceVars => [Next]_vars /\ [ReaderNext]_ReaderVars
  <2>1. ASSUME TableStep PROVE Next /\ UNCHANGED ReaderVars
    BY <2>1 DEF TableStep
  <2>2. ASSUME NEW found \in SUBSET Buttons, Search(found) PROVE Next /\ ReaderNext
    <3>1. detached' \subseteq Buttons
      BY <2>2 DEF Search, Update
    <3>2. {<<Reader, TokenOf[b]>> : b \in detached'} \subseteq Detachments
      BY <3>1, PresenceAssumption
    <3>3. \E gone \in SUBSET Detachments : DetachAll(gone)
      BY <2>2, <3>2 DEF Search
    <3>. QED  BY <2>2, <3>3 DEF Search, Next, ReaderNext
  <2>3. CASE UNCHANGED PresenceVars
    BY <2>3 DEF PresenceVars
  <2>. QED  BY <2>1, <2>2, <2>3 DEF PresenceNext
<1>. QED  BY <1>1, <1>2, PTL DEF PresenceSpec, Spec, ReaderSpec

-----------------------------------------------------------------------------
(* The valves and their watchdogs *)

ValvesOK ==
  /\ relay \in [Relays -> BOOLEAN] /\ onFor \in [Relays -> Nat]

\* The valves follow the table and never hold it back, a late watchdog aside.
LEMMA ValvesStep == [ValvesNext]_<<vars, ValveVars>> => [Next]_vars
<1>1. ASSUME NEW s \in Specs, Apply(s) PROVE Next
  BY <1>1 DEF Apply, Next
<1>2. CASE End
  BY <1>2 DEF End, Next
<1>3. CASE Wait
  BY <1>3 DEF Wait, Next
<1>4. ASSUME NEW r \in Relays, Expire(r) PROVE UNCHANGED vars
  BY <1>4 DEF Expire
<1>. QED  BY <1>1, <1>2, <1>3, <1>4 DEF ValvesNext

LEMMA ValvesOKKept == ValvesOK /\ [ValvesNext]_<<vars, ValveVars>> => ValvesOK'
<1>. SUFFICES ASSUME ValvesOK, [ValvesNext]_<<vars, ValveVars>> PROVE ValvesOK'
  OBVIOUS
<1>1. ASSUME NEW opened, Follow(opened) PROVE ValvesOK'
  BY <1>1 DEF ValvesOK, Follow
<1>2. CASE Wait
  BY <1>2 DEF ValvesOK, Wait
<1>3. ASSUME NEW r \in Relays, Expire(r) PROVE ValvesOK'
  BY <1>3 DEF ValvesOK, Expire
<1>4. CASE UNCHANGED ValveVars
  BY <1>4 DEF ValvesOK, ValveVars
<1>. QED  BY <1>1, <1>2, <1>3, <1>4 DEF ValvesNext, Apply, End

\* With a timeout longer than the clamp and a stall, a grant whose valve the
\* watchdog closes is younger than the valve was open: the grant that opened the
\* valve is never cut.  NeverCutMidGrant fails only for those that found it open.
THEOREM OwnValveNotCutHolds ==
  ASSUME Timeout \in Nat, Timeout > Clamp + MaxLag
  PROVE  ValvesSpec => OwnValveNotCut
<1> DEFINE Inv == IInv /\ ValvesOK
           Own == \A r \in Relays, g \in Live(grants') :
                    relay[r] /\ ~relay'[r] /\ r \in grants'[g].relays => onFor[r] > age[g]
<1>1. ValvesInit => Inv
  BY InitIInv DEF ValvesInit, ValvesOK
<1>2. Inv /\ [ValvesNext]_<<vars, ValveVars>> => Inv'
  BY ValvesStep, NextIInv, ValvesOKKept
<1>3. Inv /\ [ValvesNext]_<<vars, ValveVars>> => [Own]_<<vars, ValveVars>>
  <2>1. SUFFICES ASSUME Inv, ValvesNext, NEW r \in Relays, NEW g \in Live(grants'),
                        relay[r], ~relay'[r], r \in grants'[g].relays
                 PROVE  onFor[r] > age[g]
    OBVIOUS
  <2>2. ASSUME NEW opened, Follow(opened) PROVE FALSE
    <3>1. Covered(grants', r)
      BY <2>1 DEF Covered
    <3>. QED  BY <2>1, <2>2, <3>1 DEF Follow
  <2>3. ~Wait
    BY <2>1 DEF Wait
  <2>4. PICK q \in Relays : Expire(q)
    BY <2>1, <2>2, <2>3 DEF ValvesNext, Apply, End
  <2>5. q = r /\ grants' = grants /\ onFor[r] >= Timeout
    BY <2>1, <2>4 DEF Expire, ValvesOK, vars
  <2>6. age[g] <= Clamp + lag /\ lag <= MaxLag /\ age[g] \in Nat /\ lag \in Nat
    BY <2>1, <2>5 DEF IInv, ClocksTell, TypeOK, Live
  <2>. QED  BY <2>1, <2>5, <2>6, ClockAssumption DEF ValvesOK
<1>. HIDE DEF Inv, Own
<1>4. ValvesSpec => [][Own]_<<vars, ValveVars>>
  BY <1>1, <1>2, <1>3, PTL DEF ValvesSpec
<1>. QED  BY <1>4 DEF Own, OwnValveNotCut
=============================================================================
