-------------------------- MODULE AuthEngineProofs --------------------------
(***************************************************************************)
(* Proofs about AuthEngine, for any device, any grants and any bounds.     *)
(***************************************************************************)
EXTENDS AuthEngine, FiniteSetTheorems, WellFoundedInduction, TLAPS

-----------------------------------------------------------------------------
(* The grant table as a value *)

\* A table whose slots hold well-formed grants of their own id, on disjoint meters
TableOK(tbl) ==
  /\ tbl \in [GrantIds -> GrantSpec \cup {NoGrant}]
  /\ \A g \in Live(tbl) : tbl[g].id = g
  /\ \A g, h \in Live(tbl) : g # h => tbl[g].meters \cap tbl[h].meters = {}

\* A live slot holds a grant.
LEMMA LiveGrant ==
  ASSUME NEW tbl, TableOK(tbl), NEW g \in Live(tbl)
  PROVE  g \in GrantIds /\ tbl[g] \in GrantSpec
BY DEF TableOK, Live

\* Ending grants leaves the others as they are.
LEMMA EndedTable ==
  ASSUME NEW tbl, TableOK(tbl), NEW G
  PROVE  /\ Live(Ended(tbl, G)) = Live(tbl) \ G
         /\ \A g \in Live(tbl) \ G : Ended(tbl, G)[g] = tbl[g]
         /\ \A m : Holders(Ended(tbl, G), m) = Holders(tbl, m) \ G
         /\ TableOK(Ended(tbl, G))
<1>1. Live(Ended(tbl, G)) = Live(tbl) \ G
  BY DEF Live, Ended
<1>2. \A g \in Live(tbl) \ G : Ended(tbl, G)[g] = tbl[g]
  BY DEF Live, Ended
<1>3. \A m : Holders(Ended(tbl, G), m) = Holders(tbl, m) \ G
  BY <1>1, <1>2 DEF Holders
<1>4. TableOK(Ended(tbl, G))
  <2>1. Ended(tbl, G) \in [GrantIds -> GrantSpec \cup {NoGrant}]
    BY DEF Ended, TableOK
  <2>. QED  BY <2>1, <1>1, <1>2 DEF TableOK
<1>. QED  BY <1>1, <1>2, <1>3, <1>4

\* A spec the engine accepts is a grant.
LEMMA AcceptableSpec ==
  ASSUME NEW s \in Specs, Acceptable(s)
  PROVE  s \in GrantSpec /\ s.id \in GrantIds
<1>1. s = [id |-> s.id, meters |-> s.meters, relays |-> s.relays, device |-> s.device,
           token |-> s.token, maxVolume |-> s.maxVolume]
  BY SpecsAssumption
<1>2. /\ s.id \in GrantIds /\ s.meters \in (SUBSET Meters) \ {{}} /\ s.relays \in SUBSET Relays
      /\ s.device \in Devices /\ s.token \in Tokens /\ s.maxVolume \in Nat
  BY SpecsAssumption DEF Acceptable
<1>. QED  BY <1>1, <1>2, SpecsAssumption DEF GrantSpec

\* What authorize leaves of another grant is that grant on the rest of its meters.
LEMMA Remainder ==
  ASSUME NEW tbl, TableOK(tbl), NEW s \in GrantSpec, NEW g \in Live(tbl) \ Displaced(tbl, s), g # s.id
  PROVE  LET left == [tbl[g] EXCEPT !.meters = @ \ s.meters]
         IN /\ left \in GrantSpec /\ left.id = g
            /\ left.meters = tbl[g].meters \ s.meters /\ left.relays = tbl[g].relays
            /\ left.device = tbl[g].device /\ left.token = tbl[g].token
<1>1. tbl[g] \in GrantSpec /\ tbl[g].id = g
  BY LiveGrant DEF TableOK
<1>2. tbl[g].meters \ s.meters # {}
  <2>1. CASE tbl[g].meters \cap s.meters = {}
    BY <1>1, <2>1 DEF GrantSpec
  <2>2. CASE tbl[g].meters \cap s.meters # {}
    BY <1>1, <2>2 DEF Displaced, Losers, Lost
  <2>. QED  BY <2>1, <2>2
<1>. QED  BY <1>1, <1>2 DEF GrantSpec

\* The table after authorize: the spec in its slot, and every other grant that is
\* left on the meters the spec does not take.
LEMMA AuthorizedTable ==
  ASSUME NEW tbl, TableOK(tbl), NEW s \in GrantSpec
  PROVE  LET new == Authorized(tbl, s)
         IN /\ Live(new) = (Live(tbl) \ Displaced(tbl, s)) \cup {s.id}
            /\ new[s.id] = s
            /\ \A g \in Live(tbl) \ Displaced(tbl, s) :
                 g # s.id => /\ new[g].meters = tbl[g].meters \ s.meters /\ new[g].relays = tbl[g].relays
                             /\ new[g].id = g
                             /\ new[g].device = tbl[g].device /\ new[g].token = tbl[g].token
            /\ \A m : Holders(new, m) = IF m \in s.meters THEN {s.id} ELSE Holders(tbl, m) \ {s.id}
            /\ TableOK(new)
<1> DEFINE new == Authorized(tbl, s)
           rest == Live(tbl) \ Displaced(tbl, s)
<1>0. s.id \in GrantIds
  BY DEF GrantSpec
<1>1. new[s.id] = s
  BY <1>0 DEF Authorized
<1>2. \A g \in rest : g # s.id =>
        /\ new[g] \in GrantSpec /\ new[g].id = g
        /\ new[g].meters = tbl[g].meters \ s.meters /\ new[g].relays = tbl[g].relays
        /\ new[g].device = tbl[g].device /\ new[g].token = tbl[g].token
  <2>1. TAKE g \in rest
  <2>2. HAVE g # s.id
  <2>3. new[g] = [tbl[g] EXCEPT !.meters = @ \ s.meters]
    BY <2>2 DEF Authorized, Live
  <2>. QED  BY <2>2, <2>3, Remainder
<1>3. \A g \in GrantIds : g # s.id /\ g \notin rest => new[g] = NoGrant
  BY DEF Authorized
<1>4. Live(new) = rest \cup {s.id}
  BY <1>0, <1>1, <1>2, <1>3, SpecsAssumption DEF Live
<1>5. \A m : Holders(new, m) = IF m \in s.meters THEN {s.id} ELSE Holders(tbl, m) \ {s.id}
  <2>1. TAKE m
  <2>2. CASE m \in s.meters
    BY <2>2, <1>1, <1>2, <1>4 DEF Holders
  <2>3. CASE m \notin s.meters
    <3>1. \A g \in Live(tbl) : g # s.id /\ m \in tbl[g].meters => g \in rest
      BY <2>3 DEF Displaced, Losers, Lost
    <3>. QED  BY <2>3, <3>1, <1>1, <1>2, <1>4 DEF Holders
  <2>. QED  BY <2>2, <2>3
<1>6. TableOK(new)
  <2>1. new \in [GrantIds -> GrantSpec \cup {NoGrant}]
    <3>1. new = [g \in GrantIds |-> new[g]]
      BY DEF Authorized
    <3>2. \A g \in GrantIds : new[g] \in GrantSpec \cup {NoGrant}
      BY <1>1, <1>2, <1>3
    <3>. HIDE DEF new
    <3>. QED  BY <3>1, <3>2
  <2>2. \A g \in Live(new) : new[g].id = g
    BY <1>1, <1>2, <1>4
  <2>3. \A g, h \in Live(new) : g # h => new[g].meters \cap new[h].meters = {}
    BY <1>1, <1>2, <1>4 DEF TableOK
  <2>. QED  BY <2>1, <2>2, <2>3 DEF TableOK
<1>. QED  BY <1>1, <1>2, <1>4, <1>5, <1>6

\* Two grants that cover one meter are the same.
LEMMA SoleHolder ==
  ASSUME NEW tbl, TableOK(tbl), NEW m, NEW g \in Holders(tbl, m), NEW h \in Holders(tbl, m)
  PROVE  g = h
BY DEF TableOK, Holders

-----------------------------------------------------------------------------
(* The inductive invariant *)

\* The variables beside the table have their types.
VarsOK ==
  /\ charged \in [GrantIds -> [Meters -> Nat]] /\ owed \in [GrantIds -> [Meters -> Nat]]
  /\ session \in [Meters -> Nat] /\ seen \in [Meters -> Nat]
  /\ attr \in [Meters -> {NoAuth} \cup [grant : GrantIds, device : Devices, token : Tokens]]
  /\ relay \in [Relays -> BOOLEAN]
  /\ due \in SUBSET Meters
  /\ drinkers \in [Meters -> SUBSET GrantIds]

\* Who drank from the pour in flight holds the meter still.
DrinkersHold == \A m \in Meters : drinkers[m] \subseteq Holders(grants, m)

\* NoOvercharge in the form that is inductive: also for ids without a live grant,
\* whose counts a grant that is created finds.
Covers ==
  /\ \A g \in GrantIds, m \in Meters : charged[g][m] <= owed[g][m]
  /\ \A m \in Meters : \A g \in Holders(grants, m) :
       session[m] > 0 => charged[g][m] + session[m] <= owed[g][m] + seen[m]

IInv ==
  /\ TableOK(grants) /\ VarsOK
  /\ AttributionFollowsGrants
  /\ DrinkersHold /\ Covers

\* A meter is released by the ending of G when a grant of G covers it, and then
\* no other does.
LEMMA ReleasedMeters ==
  ASSUME TableOK(grants), NEW G, G \subseteq Live(grants), NEW m
  PROVE  /\ m \in MetersOf(G) => Holders(grants, m) \ G = {}
         /\ m \notin MetersOf(G) => Holders(grants, m) \ G = Holders(grants, m)
<1>1. m \in MetersOf(G) => Holders(grants, m) \cap G # {}
  BY DEF MetersOf, Holders
<1>2. m \notin MetersOf(G) => Holders(grants, m) \cap G = {}
  BY DEF MetersOf, Holders
<1>. QED  BY <1>1, <1>2, SoleHolder

\* Ending grants keeps the invariant, given that what the handler made of the
\* state before is consistent with the table as it was.
LEMMA EndGrantsKeeps ==
  ASSUME IInv, NEW G, G \subseteq Live(grants),
         NEW sess \in [Meters -> Nat], NEW base \in [Meters -> Nat],
         NEW drink \in [Meters -> SUBSET GrantIds],
         NEW count \in [GrantIds -> [Meters -> Nat]], NEW ran \in [GrantIds -> [Meters -> Nat]],
         \A m \in Meters : sess[m] > 0 => drink[m] \subseteq Holders(grants, m),
         \A g \in GrantIds, m \in Meters : count[g][m] <= ran[g][m],
         \A m \in Meters : \A g \in Holders(grants, m) :
           sess[m] > 0 => count[g][m] + sess[m] <= ran[g][m] + base[m],
         EndGrants(G, sess, base, drink, count, ran),
         due' \in SUBSET Meters
  PROVE  IInv'
<1>1. /\ Live(grants') = Live(grants) \ G
      /\ \A g \in Live(grants) \ G : grants'[g] = grants[g]
      /\ \A m : Holders(grants', m) = Holders(grants, m) \ G
      /\ TableOK(grants')
  BY EndedTable DEF EndGrants, IInv
<1>2. /\ session' = [m \in Meters |-> IF m \in MetersOf(G) THEN 0 ELSE sess[m]]
      /\ attr' = [m \in Meters |-> IF m \in MetersOf(G) THEN NoAuth ELSE attr[m]]
      /\ drinkers' = [m \in Meters |-> IF session'[m] = 0 THEN {} ELSE drink[m]]
      /\ charged' = [g \in GrantIds |-> IF g \in G THEN None ELSE count[g]]
      /\ owed' = [g \in GrantIds |-> IF g \in G THEN None ELSE ran[g]]
      /\ relay' = [r \in Relays |-> relay[r] /\ ~(r \in RelaysOf(G) /\ ~Covered(grants', r))]
  BY DEF EndGrants, SessionAfterEnds, AttrAfterEnds, DrinkersOf, Cleared, RelayAfterEnds
<1>3. /\ seen' \in [Meters -> Nat]
      /\ \A m \in Meters : m \notin MetersOf(G) => seen'[m] = base[m]
  BY DEF EndGrants, SeenAfterEnds, Baseline
<1>4. None \in [Meters -> Nat] /\ \A m \in Meters : None[m] = 0
  BY DEF None
<1>5. \A m : /\ m \in MetersOf(G) => Holders(grants', m) = {}
             /\ m \notin MetersOf(G) => Holders(grants', m) = Holders(grants, m)
  BY <1>1, ReleasedMeters DEF IInv
<1>6. VarsOK'
  BY <1>2, <1>3, <1>4 DEF IInv, VarsOK
<1>7. AttributionFollowsGrants'
  <2>1. SUFFICES ASSUME NEW m \in Meters
                 PROVE  /\ \A g \in Holders(grants', m) : attr'[m] = Attribution(grants'[g])
                        /\ Holders(grants', m) = {} => attr'[m] = NoAuth
    BY DEF AttributionFollowsGrants
  <2>2. CASE m \in MetersOf(G)
    BY <2>2, <1>2, <1>5
  <2>3. CASE m \notin MetersOf(G)
    <3>1. Holders(grants', m) = Holders(grants, m) /\ attr'[m] = attr[m]
      BY <2>3, <1>2, <1>5
    <3>2. \A g \in Holders(grants', m) : grants'[g] = grants[g]
      BY <1>1 DEF Holders
    <3>. QED  BY <3>1, <3>2 DEF IInv, AttributionFollowsGrants
  <2>. QED  BY <2>2, <2>3
<1>10. DrinkersHold'
  <2>1. SUFFICES ASSUME NEW m \in Meters, session'[m] # 0
                 PROVE  drinkers'[m] \subseteq Holders(grants', m)
    BY <1>2 DEF DrinkersHold
  <2>2. m \notin MetersOf(G) /\ session'[m] = sess[m]
    BY <2>1, <1>2
  <2>3. drinkers'[m] = drink[m] /\ Holders(grants', m) = Holders(grants, m)
    BY <2>1, <2>2, <1>2, <1>5
  <2>. QED  BY <2>1, <2>2, <2>3
<1>11. Covers'
  <2>1. \A g \in GrantIds, m \in Meters : charged'[g][m] <= owed'[g][m]
    BY <1>2, <1>4
  <2>2. ASSUME NEW m \in Meters, NEW g \in Holders(grants', m), session'[m] > 0
        PROVE  charged'[g][m] + session'[m] <= owed'[g][m] + seen'[m]
    <3>1. m \notin MetersOf(G) /\ g \in Holders(grants, m) /\ g \notin G /\ g \in GrantIds
      BY <2>2, <1>1, <1>5 DEF Holders, Live
    <3>. QED  BY <2>2, <3>1, <1>2, <1>3
  <2>. QED  BY <2>1, <2>2 DEF Covers
<1>. QED  BY <1>1, <1>6, <1>7, <1>10, <1>11 DEF IInv
-----------------------------------------------------------------------------
(* Every step keeps the invariant *)

\* The device starts without grants, pours or open valves.
LEMMA InitIInv == Init => IInv
<1>. SUFFICES ASSUME Init PROVE IInv
  OBVIOUS
<1>1. Live(grants) = {} /\ \A m : Holders(grants, m) = {}
  BY DEF Init, Live, Holders
<1>2. TableOK(grants)
  BY <1>1 DEF TableOK, Init
<1>3. None \in [Meters -> Nat] /\ \A m \in Meters : None[m] = 0
  BY DEF None
<1>4. VarsOK
  BY <1>3 DEF VarsOK, Init
<1>5. AttributionFollowsGrants /\ DrinkersHold
  BY <1>1 DEF AttributionFollowsGrants, DrinkersHold, Init
<1>7. Covers
  BY <1>1, <1>3 DEF Covers, Init
<1>. QED  BY <1>2, <1>4, <1>5, <1>7 DEF IInv

\* deauthorize and a token's removal
LEMMA EndNowKeeps ==
  ASSUME IInv, NEW G, G \subseteq Live(grants),
         EndGrants(G, session, seen, drinkers, charged, owed), UNCHANGED due
  PROVE  IInv'
BY EndGrantsKeeps DEF IInv, VarsOK, DrinkersHold, Covers

\* What record_flow adds, by grant and meter
LEMMA RecordedValues ==
  ASSUME VarsOK, NEW delta \in [Meters -> Nat]
  PROVE  /\ Recorded(delta) \in [GrantIds -> [Meters -> Nat]]
         /\ \A g \in GrantIds, m \in Meters :
              Recorded(delta)[g][m] = charged[g][m] + IF g \in Holders(grants, m) THEN delta[m] ELSE 0
BY DEF VarsOK, Recorded

\* A poll charges a grant only what ran under it.
LEMMA PollKeeps ==
  ASSUME IInv, NEW expired \in SUBSET GrantIds, Poll(expired)
  PROVE  IInv'
<1> DEFINE base  == [m \in Meters |-> IF session[m] = 0 THEN 0 ELSE seen[m]]
           delta == Unseen(base)
           after == [m \in Meters |-> base[m] + delta[m]]
           G     == Tripped(delta) \cup expired
<1>1. VarsOK /\ Covers /\ DrinkersHold
  BY DEF IInv
<1>2. /\ session \in [Meters -> Nat] /\ seen \in [Meters -> Nat]
      /\ charged \in [GrantIds -> [Meters -> Nat]] /\ owed \in [GrantIds -> [Meters -> Nat]]
      /\ drinkers \in [Meters -> SUBSET GrantIds]
  BY <1>1 DEF VarsOK
<1>3. \A m \in Meters :
        /\ base[m] \in Nat /\ delta[m] \in Nat
        /\ session[m] > 0 => base[m] = seen[m]
        /\ delta[m] > 0 => session[m] > 0 /\ delta[m] = session[m] - base[m]
  BY <1>2 DEF Unseen
<1>4. delta \in [Meters -> Nat] /\ after \in [Meters -> Nat]
  <2>1. delta \in [Meters -> Nat]
    BY <1>3 DEF Unseen
  <2>. QED  BY <2>1, <1>3
<1>5. /\ G \subseteq Live(grants)
      /\ EndGrants(G, session, after, drinkers, Recorded(delta), owed)
      /\ due' \in SUBSET Meters
  BY DEF Poll, Tripped
<1> HIDE DEF base, delta, G
<1>6. /\ Recorded(delta) \in [GrantIds -> [Meters -> Nat]]
      /\ \A g \in GrantIds, m \in Meters :
           Recorded(delta)[g][m] = charged[g][m] + IF g \in Holders(grants, m) THEN delta[m] ELSE 0
  BY <1>1, <1>4, RecordedValues
<1>7. \A g \in GrantIds, m \in Meters : Recorded(delta)[g][m] <= owed[g][m]
  <2>1. TAKE g \in GrantIds, m \in Meters
  <2>2. /\ charged[g][m] \in Nat /\ owed[g][m] \in Nat /\ charged[g][m] <= owed[g][m]
        /\ session[m] \in Nat /\ seen[m] \in Nat
    BY <1>1, <1>2 DEF Covers
  <2>3. CASE g \in Holders(grants, m) /\ delta[m] > 0
    <3>1. charged[g][m] + session[m] <= owed[g][m] + seen[m]
      BY <2>3, <1>1, <1>3 DEF Covers
    <3>2. delta[m] = session[m] - seen[m]
      BY <2>3, <1>3
    <3>3. Recorded(delta)[g][m] = charged[g][m] + delta[m]
      BY <2>3, <1>6
    <3>. QED  BY <2>2, <3>1, <3>2, <3>3
  <2>4. CASE ~(g \in Holders(grants, m) /\ delta[m] > 0)
    BY <2>2, <2>4, <1>3, <1>6
  <2>. QED  BY <2>3, <2>4
<1>8. \A m \in Meters : \A g \in Holders(grants, m) :
        session[m] > 0 => Recorded(delta)[g][m] + session[m] <= owed[g][m] + after[m]
  <2>1. SUFFICES ASSUME NEW m \in Meters, NEW g \in Holders(grants, m), session[m] > 0
                 PROVE  Recorded(delta)[g][m] + session[m] <= owed[g][m] + after[m]
    OBVIOUS
  <2>2. g \in GrantIds
    BY DEF Holders, Live
  <2>3. /\ charged[g][m] \in Nat /\ owed[g][m] \in Nat /\ session[m] \in Nat /\ seen[m] \in Nat
        /\ delta[m] \in Nat
    BY <2>2, <1>2, <1>3
  <2>4. charged[g][m] + session[m] <= owed[g][m] + seen[m]
    BY <2>1, <1>1 DEF Covers
  <2>5. after[m] = seen[m] + delta[m] /\ Recorded(delta)[g][m] = charged[g][m] + delta[m]
    BY <2>1, <2>2, <1>3, <1>6
  <2>. QED  BY <2>3, <2>4, <2>5
<1>9. \A m \in Meters : session[m] > 0 => drinkers[m] \subseteq Holders(grants, m)
  BY <1>1 DEF DrinkersHold
<1> DEFINE count == Recorded(delta)
<1>10. /\ count \in [GrantIds -> [Meters -> Nat]]
       /\ EndGrants(G, session, after, drinkers, count, owed)
       /\ \A g \in GrantIds, m \in Meters : count[g][m] <= owed[g][m]
       /\ \A m \in Meters : \A g \in Holders(grants, m) :
            session[m] > 0 => count[g][m] + session[m] <= owed[g][m] + after[m]
  BY <1>5, <1>6, <1>7, <1>8
<1>11. G \subseteq Live(grants) /\ due' \in SUBSET Meters /\ after \in [Meters -> Nat]
  BY <1>4, <1>5
<1> HIDE DEF after, count
<1>. QED  BY <1>2, <1>9, <1>10, <1>11, EndGrantsKeeps
\* An engine without grants has nothing to record.
LEMMA PollIdleEngineKeeps ==
  ASSUME IInv, PollIdleEngine
  PROVE  IInv'
<1>1. /\ None \in [Meters -> Nat]
      /\ \A m : Holders(grants, m) = {}
  BY DEF PollIdleEngine, None, Holders
<1>2. grants' = grants /\ charged' = charged /\ session' = session /\ attr' = attr
      /\ relay' = relay /\ owed' = owed /\ drinkers' = drinkers /\ seen' = None /\ due' = Meters
  BY DEF PollIdleEngine
<1>3. TableOK(grants') /\ VarsOK'
  BY <1>1, <1>2 DEF IInv, VarsOK
<1>4. AttributionFollowsGrants' /\ DrinkersHold'
  BY <1>2 DEF IInv, AttributionFollowsGrants, DrinkersHold
<1>5. Covers'
  BY <1>1, <1>2 DEF IInv, Covers
<1>. QED  BY <1>3, <1>4, <1>5 DEF IInv

\* What ran is added for the grant that covers the meter, and nowhere else.
LEMMA RanValues ==
  ASSUME VarsOK, NEW m \in Meters, NEW k \in Nat
  PROVE  /\ Ran(m, k) \in [GrantIds -> [Meters -> Nat]]
         /\ \A g \in GrantIds, n \in Meters :
              Ran(m, k)[g][n] = owed[g][n] + IF n = m /\ g \in Holders(grants, n) THEN k ELSE 0
<1>1. owed \in [GrantIds -> [Meters -> Nat]]
  BY DEF VarsOK
<1>2. \A g \in GrantIds :
        /\ Ran(m, k)[g] \in [Meters -> Nat]
        /\ \A n \in Meters :
             Ran(m, k)[g][n] = owed[g][n] + IF n = m /\ g \in Holders(grants, n) THEN k ELSE 0
  <2>1. TAKE g \in GrantIds
  <2>2. Ran(m, k)[g] = IF g \in Holders(grants, m) THEN [owed[g] EXCEPT ![m] = @ + k] ELSE owed[g]
    BY DEF Ran
  <2>. QED  BY <1>1, <2>2
<1>. QED  BY <1>1, <1>2 DEF Ran

\* A pour that goes on runs under the grant that covers its meter.
LEMMA PourRunsKeeps ==
  ASSUME IInv, NEW m \in Meters, NEW k \in Nat, PourRuns(m, k), due' \in SUBSET Meters
  PROVE  IInv'
<1>1. VarsOK /\ Covers /\ DrinkersHold
  BY DEF IInv
<1>2. /\ session \in [Meters -> Nat] /\ seen \in [Meters -> Nat]
      /\ charged \in [GrantIds -> [Meters -> Nat]] /\ owed \in [GrantIds -> [Meters -> Nat]]
      /\ drinkers \in [Meters -> SUBSET GrantIds]
  BY <1>1 DEF VarsOK
<1>3. /\ grants' = grants /\ charged' = charged /\ seen' = seen /\ attr' = attr /\ relay' = relay
      /\ session' = [session EXCEPT ![m] = @ + k]
      /\ drinkers' = [drinkers EXCEPT ![m] = IF k > 0 THEN @ \cup Holders(grants, m) ELSE @]
      /\ owed' = Ran(m, k)
  BY DEF PourRuns
<1>4. /\ owed' \in [GrantIds -> [Meters -> Nat]]
      /\ \A g \in GrantIds, n \in Meters :
           owed'[g][n] = owed[g][n] + IF n = m /\ g \in Holders(grants, n) THEN k ELSE 0
  BY <1>1, <1>3, RanValues
<1>5. /\ session' \in [Meters -> Nat]
      /\ \A n \in Meters : session'[n] = IF n = m THEN session[m] + k ELSE session[n]
  BY <1>2, <1>3
<1>6. /\ drinkers' \in [Meters -> SUBSET GrantIds]
      /\ DrinkersHold'
  <2>1. Holders(grants, m) \subseteq GrantIds
    BY DEF Holders, Live
  <2>. QED  BY <2>1, <1>1, <1>2, <1>3 DEF DrinkersHold
<1>7. TableOK(grants') /\ VarsOK'
  BY <1>1, <1>3, <1>4, <1>5, <1>6 DEF IInv, VarsOK
<1>8. AttributionFollowsGrants'
  BY <1>3 DEF IInv, AttributionFollowsGrants
<1>9. Covers'
  <2>1. \A g \in GrantIds, n \in Meters : charged'[g][n] <= owed'[g][n]
    <3>1. TAKE g \in GrantIds, n \in Meters
    <3>2. charged[g][n] \in Nat /\ owed[g][n] \in Nat /\ charged[g][n] <= owed[g][n]
      BY <1>1, <1>2 DEF Covers
    <3>. QED  BY <3>2, <1>3, <1>4
  <2>2. ASSUME NEW n \in Meters, NEW g \in Holders(grants', n), session'[n] > 0
        PROVE  charged'[g][n] + session'[n] <= owed'[g][n] + seen'[n]
    <3>1. g \in Holders(grants, n) /\ g \in GrantIds
      BY <1>3 DEF Holders, Live
    <3>2. /\ charged[g][n] \in Nat /\ owed[g][n] \in Nat /\ session[n] \in Nat /\ seen[n] \in Nat
          /\ charged[g][n] <= owed[g][n]
          /\ session[n] > 0 => charged[g][n] + session[n] <= owed[g][n] + seen[n]
      BY <3>1, <1>1, <1>2 DEF Covers
    <3>3. CASE n = m
      <4>1. session'[n] = session[n] + k /\ owed'[g][n] = owed[g][n] + k
        BY <3>1, <3>3, <1>4, <1>5
      <4>2. charged'[g][n] = charged[g][n] /\ seen'[n] = seen[n]
        BY <1>3
      <4>. QED  BY <3>2, <4>1, <4>2
    <3>4. CASE n # m
      <4>1. session'[n] = session[n] /\ owed'[g][n] = owed[g][n]
        BY <3>1, <3>2, <3>4, <1>4, <1>5
      <4>2. charged'[g][n] = charged[g][n] /\ seen'[n] = seen[n]
        BY <1>3
      <4>. QED  BY <2>2, <3>2, <4>1, <4>2
    <3>. QED  BY <3>3, <3>4
  <2>. QED  BY <2>1, <2>2 DEF Covers
<1>. QED  BY <1>6, <1>7, <1>8, <1>9 DEF IInv

\* A drip is forgotten; what ran counts against nobody.
LEMMA DiscardDripKeeps ==
  ASSUME IInv, NEW m \in Meters, NEW k \in Nat, DiscardDrip(m, k), due' \in SUBSET Meters
  PROVE  IInv'
<1>1. VarsOK /\ Covers /\ DrinkersHold
  BY DEF IInv
<1>2. /\ session \in [Meters -> Nat] /\ seen \in [Meters -> Nat]
      /\ charged \in [GrantIds -> [Meters -> Nat]] /\ owed \in [GrantIds -> [Meters -> Nat]]
      /\ drinkers \in [Meters -> SUBSET GrantIds]
  BY <1>1 DEF VarsOK
<1>3. /\ grants' = grants /\ charged' = charged /\ seen' = seen /\ attr' = attr /\ relay' = relay
      /\ session' = [session EXCEPT ![m] = 0]
      /\ drinkers' = [n \in Meters |-> IF session'[n] = 0 THEN {} ELSE drinkers[n]]
      /\ owed' = Ran(m, k)
  BY DEF DiscardDrip, DrinkersOf
<1>4. /\ owed' \in [GrantIds -> [Meters -> Nat]]
      /\ \A g \in GrantIds, n \in Meters : owed'[g][n] >= owed[g][n]
  <2>1. /\ owed' \in [GrantIds -> [Meters -> Nat]]
        /\ \A g \in GrantIds, n \in Meters :
             owed'[g][n] = owed[g][n] + IF n = m /\ g \in Holders(grants, n) THEN k ELSE 0
    BY <1>1, <1>3, RanValues
  <2>2. \A g \in GrantIds, n \in Meters : owed[g][n] \in Nat
    BY <1>2
  <2>. QED  BY <2>1, <2>2
<1>5. /\ session' \in [Meters -> Nat]
      /\ \A n \in Meters : session'[n] > 0 => session'[n] = session[n]
  BY <1>2, <1>3
<1>6. /\ drinkers' \in [Meters -> SUBSET GrantIds]
      /\ DrinkersHold'
  <2>1. \A n \in Meters : drinkers'[n] = {} \/ drinkers'[n] = drinkers[n]
    BY <1>3
  <2>2. \A n \in Meters : drinkers[n] \subseteq Holders(grants, n) /\ drinkers[n] \subseteq GrantIds
    BY <1>1, <1>2 DEF DrinkersHold
  <2>3. DrinkersHold'
    BY <2>1, <2>2, <1>3 DEF DrinkersHold
  <2>. QED  BY <2>1, <2>2, <2>3, <1>3
<1>7. TableOK(grants') /\ VarsOK'
  BY <1>1, <1>3, <1>4, <1>5, <1>6 DEF IInv, VarsOK
<1>8. AttributionFollowsGrants'
  BY <1>3 DEF IInv, AttributionFollowsGrants
<1>9. Covers'
  <2>1. \A g \in GrantIds, n \in Meters : charged'[g][n] <= owed'[g][n]
    BY <1>1, <1>2, <1>3, <1>4 DEF Covers
  <2>2. ASSUME NEW n \in Meters, NEW g \in Holders(grants', n), session'[n] > 0
        PROVE  charged'[g][n] + session'[n] <= owed'[g][n] + seen'[n]
    <3>1. g \in Holders(grants, n) /\ g \in GrantIds
      BY <1>3 DEF Holders, Live
    <3>2. charged[g][n] + session[n] <= owed[g][n] + seen[n] /\ session'[n] = session[n]
      BY <2>2, <3>1, <1>1, <1>5 DEF Covers
    <3>3. /\ charged[g][n] \in Nat /\ owed[g][n] \in Nat /\ owed'[g][n] \in Nat
          /\ session[n] \in Nat /\ seen[n] \in Nat /\ owed'[g][n] >= owed[g][n]
      BY <3>1, <1>2, <1>4
    <3>. QED  BY <3>2, <3>3, <1>3
  <2>. QED  BY <2>1, <2>2 DEF Covers
<1>. QED  BY <1>6, <1>7, <1>8, <1>9 DEF IInv
\* A pour that is reported charges what accrued since the last poll, which
\* may end the grant.
LEMMA ReportPourKeeps ==
  ASSUME IInv, NEW m \in Meters, NEW k \in Nat, ReportPour(m, k), due' \in SUBSET Meters
  PROVE  IInv'
<1> DEFINE ticks == session[m] + k
           idle  == [session EXCEPT ![m] = 0]
           delta == [None EXCEPT ![m] = IF ticks > seen[m] THEN ticks - seen[m] ELSE 0]
           G     == Tripped(delta)
           base  == Reset(seen, m)
           count == Recorded(delta)
           ran   == Ran(m, k)
<1>1. VarsOK /\ Covers /\ DrinkersHold
  BY DEF IInv
<1>2. /\ session \in [Meters -> Nat] /\ seen \in [Meters -> Nat]
      /\ charged \in [GrantIds -> [Meters -> Nat]] /\ owed \in [GrantIds -> [Meters -> Nat]]
      /\ drinkers \in [Meters -> SUBSET GrantIds]
  BY <1>1 DEF VarsOK
<1>3. /\ G \subseteq Live(grants)
      /\ EndGrants(G, idle, base, drinkers, count, ran)
  BY DEF ReportPour, Tripped
<1>4. /\ idle \in [Meters -> Nat]
      /\ \A n \in Meters : idle[n] > 0 => n # m /\ idle[n] = session[n]
  BY <1>2
<1>5. /\ base \in [Meters -> Nat]
      /\ \A n \in Meters : n # m => base[n] = seen[n]
  BY <1>2 DEF Reset
<1>6. /\ delta \in [Meters -> Nat]
      /\ \A n \in Meters : n # m => delta[n] = 0
      /\ delta[m] = IF ticks > seen[m] THEN ticks - seen[m] ELSE 0
  <2>1. /\ ticks \in Nat /\ seen[m] \in Nat
        /\ ticks > seen[m] => ticks - seen[m] \in Nat
    BY <1>2
  <2>2. None \in [Meters -> Nat] /\ \A n \in Meters : None[n] = 0
    BY DEF None
  <2>. QED  BY <2>1, <2>2
<1> HIDE DEF idle, delta, G, base
<1>7. /\ count \in [GrantIds -> [Meters -> Nat]]
      /\ \A g \in GrantIds, n \in Meters :
           count[g][n] = charged[g][n] + IF g \in Holders(grants, n) THEN delta[n] ELSE 0
  BY <1>1, <1>6, RecordedValues
<1>8. /\ ran \in [GrantIds -> [Meters -> Nat]]
      /\ \A g \in GrantIds, n \in Meters :
           ran[g][n] = owed[g][n] + IF n = m /\ g \in Holders(grants, n) THEN k ELSE 0
  BY <1>1, RanValues
<1> HIDE DEF count, ran
<1>9. \A g \in GrantIds, n \in Meters : count[g][n] <= ran[g][n]
  <2>1. TAKE g \in GrantIds, n \in Meters
  <2>2. /\ charged[g][n] \in Nat /\ owed[g][n] \in Nat /\ charged[g][n] <= owed[g][n]
        /\ session[n] \in Nat /\ seen[n] \in Nat /\ delta[n] \in Nat
    BY <1>1, <1>2, <1>6 DEF Covers
  <2>3. CASE n = m /\ g \in Holders(grants, n)
    <3>1. session[n] > 0 => charged[g][n] + session[n] <= owed[g][n] + seen[n]
      BY <2>3, <1>1 DEF Covers
    <3>2. count[g][n] = charged[g][n] + delta[n] /\ ran[g][n] = owed[g][n] + k
      BY <2>3, <1>7, <1>8
    <3>3. delta[n] = IF session[n] + k > seen[n] THEN session[n] + k - seen[n] ELSE 0
      BY <2>2, <2>3, <1>6
    <3>. QED  BY <2>2, <3>1, <3>2, <3>3
  <2>4. CASE n # m
    BY <2>2, <2>4, <1>6, <1>7, <1>8
  <2>5. CASE g \notin Holders(grants, n)
    BY <2>2, <2>5, <1>7, <1>8
  <2>. QED  BY <2>3, <2>4, <2>5
<1>10. \A n \in Meters : \A g \in Holders(grants, n) :
         idle[n] > 0 => count[g][n] + idle[n] <= ran[g][n] + base[n]
  <2>1. SUFFICES ASSUME NEW n \in Meters, NEW g \in Holders(grants, n), idle[n] > 0
                 PROVE  count[g][n] + idle[n] <= ran[g][n] + base[n]
    OBVIOUS
  <2>2. n # m /\ idle[n] = session[n] /\ g \in GrantIds
    BY <2>1, <1>4 DEF Holders, Live
  <2>3. charged[g][n] + session[n] <= owed[g][n] + seen[n]
    BY <2>1, <2>2, <1>1 DEF Covers
  <2>4. charged[g][n] \in Nat /\ owed[g][n] \in Nat
    BY <2>2, <1>2
  <2>5. delta[n] = 0 /\ base[n] = seen[n]
    BY <2>2, <1>5, <1>6
  <2>6. count[g][n] = charged[g][n] /\ ran[g][n] = owed[g][n]
    BY <2>2, <2>4, <2>5, <1>7, <1>8
  <2>. QED  BY <2>2, <2>3, <2>5, <2>6
<1>11. \A n \in Meters : idle[n] > 0 => drinkers[n] \subseteq Holders(grants, n)
  BY <1>1 DEF DrinkersHold
<1>. QED  BY <1>2, <1>3, <1>4, <1>5, <1>7, <1>8, <1>9, <1>10, <1>11, EndGrantsKeeps

\* A watchdog and a switch from outside touch nothing but their relay.
LEMMA SwitchKeeps ==
  ASSUME IInv, NEW r \in Relays, Watchdog(r) \/ Switch(r)
  PROVE  IInv'
<1>1. /\ UNCHANGED <<grants, charged, session, seen, attr, due, owed, drinkers>>
      /\ relay' = [relay EXCEPT ![r] = FALSE] \/ relay' = [relay EXCEPT ![r] = ~@]
  BY DEF Watchdog, Switch
<1>2. relay' \in [Relays -> BOOLEAN]
  BY <1>1 DEF IInv, VarsOK
<1>3. TableOK(grants') /\ VarsOK'
  BY <1>1, <1>2 DEF IInv, VarsOK
<1>4. AttributionFollowsGrants' /\ DrinkersHold' /\ Covers'
  BY <1>1 DEF IInv, AttributionFollowsGrants, DrinkersHold, Covers
<1>. QED  BY <1>3, <1>4 DEF IInv

\* Applying a spec releases what the spec takes from other grants and what it
\* drops of its own; every other meter keeps its holder.
LEMMA ReleasedBySpec ==
  ASSUME NEW s \in GrantSpec, TableOK(grants), NEW m
  PROVE  LET released == UNION {Lost(grants, s, g) : g \in Losers(grants, s)}
             new      == Authorized(grants, s)
         IN /\ m \notin released => Holders(grants, m) \subseteq Holders(new, m)
            /\ m \notin released /\ m \notin s.meters => Holders(new, m) = Holders(grants, m)
            /\ m \in released /\ m \notin s.meters => Holders(new, m) = {}
<1> DEFINE released == UNION {Lost(grants, s, g) : g \in Losers(grants, s)}
           new      == Authorized(grants, s)
<1>1. Holders(new, m) = IF m \in s.meters THEN {s.id} ELSE Holders(grants, m) \ {s.id}
  BY AuthorizedTable
<1>2. \A g \in Live(grants) : m \in Lost(grants, s, g) => m \in released
  BY DEF Losers
<1>3. m \in released => \E g \in Live(grants) : m \in Lost(grants, s, g)
  BY DEF Losers
<1>4. CASE m \in s.meters
  <2>1. m \notin released => \A g \in Holders(grants, m) : g = s.id
    BY <1>2, <1>4 DEF Lost, Holders
  <2>. QED  BY <2>1, <1>1, <1>4
<1>5. CASE m \notin s.meters
  <2>1. m \notin released => s.id \notin Holders(grants, m)
    BY <1>2, <1>5 DEF Lost, Holders
  <2>2. m \in released => s.id \in Holders(grants, m)
    BY <1>3, <1>5 DEF Lost, Holders
  <2>3. s.id \in Holders(grants, m) => Holders(grants, m) \ {s.id} = {}
    BY SoleHolder
  <2>. QED  BY <2>1, <2>2, <2>3, <1>1, <1>5
<1>. QED  BY <1>4, <1>5

\* A grant that is applied takes over its meters, and only them.
LEMMA AuthorizeKeeps ==
  ASSUME IInv, NEW s \in Specs, Authorize(s)
  PROVE  IInv'
<1> DEFINE tbl      == Authorized(grants, s)
           released == UNION {Lost(grants, s, g) : g \in Losers(grants, s)}
           gone     == Displaced(grants, s)
           freed    == RelaysOf(gone \cup (Live(grants) \cap {s.id}))
<1>1. s \in GrantSpec /\ s.id \in GrantIds
  BY AcceptableSpec DEF Authorize
<1>2. /\ Live(tbl) = (Live(grants) \ gone) \cup {s.id}
      /\ tbl[s.id] = s
      /\ \A g \in Live(grants) \ gone :
           g # s.id => /\ tbl[g].relays = grants[g].relays /\ tbl[g].id = g
                       /\ tbl[g].device = grants[g].device /\ tbl[g].token = grants[g].token
      /\ \A m : Holders(tbl, m) = IF m \in s.meters THEN {s.id} ELSE Holders(grants, m) \ {s.id}
      /\ TableOK(tbl)
  BY <1>1, AuthorizedTable DEF IInv
<1>3. \A m : /\ m \notin released => Holders(grants, m) \subseteq Holders(tbl, m)
             /\ m \notin released /\ m \notin s.meters => Holders(tbl, m) = Holders(grants, m)
             /\ m \in released /\ m \notin s.meters => Holders(tbl, m) = {}
  BY <1>1, ReleasedBySpec DEF IInv
<1>4. /\ session \in [Meters -> Nat] /\ seen \in [Meters -> Nat]
      /\ charged \in [GrantIds -> [Meters -> Nat]] /\ owed \in [GrantIds -> [Meters -> Nat]]
      /\ drinkers \in [Meters -> SUBSET GrantIds]
      /\ attr \in [Meters -> {NoAuth} \cup [grant : GrantIds, device : Devices, token : Tokens]]
      /\ relay \in [Relays -> BOOLEAN] /\ due \in SUBSET Meters
  BY DEF IInv, VarsOK
<1>5. None \in [Meters -> Nat] /\ \A m \in Meters : None[m] = 0
  BY DEF None
<1>6. \A m \in Meters : PourTail(session, released, m) = 0
  BY <1>4 DEF PourTail, Baseline
<1>7. UNION {[x \in Losers(grants, s) |-> Lost(grants, s, x)][g] : g \in Losers(grants, s)} = released
  OBVIOUS
<1>8. /\ grants' = tbl /\ due' = due
      /\ owed' = Cleared(owed, gone)
      /\ charged' = [Cleared(charged, gone) EXCEPT ![s.id] =
                       [m \in Meters |-> @[m] + IF m \in s.meters THEN PourTail(session, released, m) ELSE 0]]
      /\ session' = SessionAfterEnds(session, released)
      /\ seen' = Adopted(s, session', SeenAfterEnds(session, seen, released))
      /\ drinkers' = DrinkersOf(session', drinkers)
      /\ attr' = [m \in Meters |-> IF m \in s.meters THEN Attribution(s) ELSE AttrAfterEnds(released)[m]]
      /\ relay' = [r \in Relays |-> r \in s.relays \/ RelayAfterEnds(tbl, freed)[r]]
  BY <1>7 DEF Authorize
<1>9. gone \subseteq Live(grants) /\ s.id \notin gone
  BY DEF Displaced, Losers
<1> HIDE DEF tbl, released, gone
<1>10. Cleared(charged, gone) \in [GrantIds -> [Meters -> Nat]]
       /\ \A g \in GrantIds : g \notin gone => Cleared(charged, gone)[g] = charged[g]
  BY <1>4, <1>5 DEF Cleared
<1>11. owed' \in [GrantIds -> [Meters -> Nat]]
       /\ \A g \in GrantIds : g \notin gone => owed'[g] = owed[g]
  BY <1>4, <1>5, <1>8 DEF Cleared
<1>12. charged' = Cleared(charged, gone)
  <2>1. Cleared(charged, gone)[s.id] \in [Meters -> Nat]
    BY <1>1, <1>10
  <2>2. [m \in Meters |-> Cleared(charged, gone)[s.id][m] +
            IF m \in s.meters THEN PourTail(session, released, m) ELSE 0] = Cleared(charged, gone)[s.id]
    BY <2>1, <1>6
  <2>. QED  BY <2>2, <1>1, <1>8, <1>10
<1>13. session' = [m \in Meters |-> IF m \in released THEN 0 ELSE session[m]]
  BY <1>8 DEF SessionAfterEnds
<1>14. /\ session' \in [Meters -> Nat]
       /\ \A m \in Meters : session'[m] # 0 => m \notin released /\ session'[m] = session[m]
  BY <1>4, <1>13
<1>15. /\ seen' \in [Meters -> Nat]
       /\ \A m \in Meters : session'[m] # 0 => seen'[m] = IF m \in s.meters THEN session'[m] ELSE seen[m]
  BY <1>4, <1>8, <1>14 DEF Adopted, SeenAfterEnds, Baseline
<1>16. /\ drinkers' \in [Meters -> SUBSET GrantIds]
       /\ DrinkersHold'
  <2>1. drinkers' = [m \in Meters |-> IF session'[m] = 0 THEN {} ELSE drinkers[m]]
    BY <1>8 DEF DrinkersOf
  <2>2. \A m \in Meters : session'[m] # 0 => drinkers[m] \subseteq Holders(grants', m)
    BY <1>3, <1>8, <1>14 DEF IInv, DrinkersHold
  <2>3. \A m \in Meters : drinkers'[m] \subseteq Holders(grants', m)
    BY <2>1, <2>2
  <2>. QED  BY <2>1, <2>3, <1>4 DEF DrinkersHold
<1>17. attr' = [m \in Meters |-> IF m \in s.meters THEN Attribution(s)
                                 ELSE IF m \in released THEN NoAuth ELSE attr[m]]
  BY <1>8 DEF AttrAfterEnds
<1>18. attr' \in [Meters -> {NoAuth} \cup [grant : GrantIds, device : Devices, token : Tokens]]
  BY <1>1, <1>4, <1>17 DEF Attribution, GrantSpec
<1>19. relay' = [r \in Relays |-> r \in s.relays \/ (relay[r] /\ ~(r \in freed /\ ~Covered(tbl, r)))]
  BY <1>8 DEF RelayAfterEnds
<1> HIDE DEF freed
<1>20. relay' \in [Relays -> BOOLEAN]
  BY <1>19
<1>21. TableOK(grants') /\ VarsOK'
  BY <1>2, <1>4, <1>8, <1>10, <1>11, <1>12, <1>14, <1>15, <1>16, <1>18, <1>20 DEF VarsOK
<1>22. AttributionFollowsGrants'
  <2>1. SUFFICES ASSUME NEW m \in Meters
                 PROVE  /\ \A g \in Holders(tbl, m) : attr'[m] = Attribution(tbl[g])
                        /\ Holders(tbl, m) = {} => attr'[m] = NoAuth
    BY <1>8 DEF AttributionFollowsGrants
  <2>2. CASE m \in s.meters
    BY <2>2, <1>2, <1>17
  <2>3. CASE m \notin s.meters /\ m \in released
    BY <2>3, <1>3, <1>17
  <2>4. CASE m \notin s.meters /\ m \notin released
    <3>1. Holders(tbl, m) = Holders(grants, m) /\ attr'[m] = attr[m] /\ s.id \notin Holders(tbl, m)
      BY <2>4, <1>2, <1>3, <1>17
    <3>2. \A g \in Holders(tbl, m) : Attribution(tbl[g]) = Attribution(grants[g])
      <4>1. TAKE g \in Holders(tbl, m)
      <4>2. g # s.id /\ g \in Live(grants) \ gone
        BY <3>1, <1>2 DEF Holders
      <4>3. grants[g].id = g
        BY <4>2 DEF IInv, TableOK
      <4>. QED  BY <4>2, <4>3, <1>2 DEF Attribution
    <3>. QED  BY <3>1, <3>2 DEF IInv, AttributionFollowsGrants
  <2>. QED  BY <2>2, <2>3, <2>4
<1>25. Covers'
  <2>1. \A g \in GrantIds, m \in Meters : charged'[g][m] <= owed'[g][m]
    <3>1. TAKE g \in GrantIds, m \in Meters
    <3>2. CASE g \in gone
      <4>1. charged'[g] = None /\ owed'[g] = None
        BY <3>2, <1>8, <1>12 DEF Cleared
      <4>. QED  BY <4>1, <1>5
    <3>3. CASE g \notin gone
      BY <3>3, <1>10, <1>11, <1>12 DEF IInv, Covers
    <3>. QED  BY <3>2, <3>3
  <2>2. ASSUME NEW m \in Meters, NEW g \in Holders(tbl, m), session'[m] > 0
        PROVE  charged'[g][m] + session'[m] <= owed'[g][m] + seen'[m]
    <3>1. g \in GrantIds /\ g \in Live(tbl) /\ g \notin gone
      BY <1>2, <1>9 DEF Holders, Live
    <3>2. session'[m] = session[m] /\ session'[m] # 0 /\ m \notin released
      BY <2>2, <1>14
    <3>3. charged'[g] = charged[g] /\ owed'[g] = owed[g]
      BY <3>1, <1>10, <1>11, <1>12
    <3>4. /\ charged[g][m] \in Nat /\ owed[g][m] \in Nat /\ session[m] \in Nat
          /\ charged[g][m] <= owed[g][m]
      BY <3>1, <1>4 DEF IInv, Covers
    <3>5. CASE m \in s.meters
      BY <3>2, <3>3, <3>4, <3>5, <1>15
    <3>6. CASE m \notin s.meters
      <4>1. g \in Holders(grants, m) /\ seen'[m] = seen[m]
        BY <3>2, <3>6, <1>3, <1>15
      <4>2. charged[g][m] + session[m] <= owed[g][m] + seen[m]
        BY <4>1, <2>2, <3>2 DEF IInv, Covers
      <4>. QED  BY <4>1, <4>2, <3>2, <3>3
    <3>. QED  BY <3>5, <3>6
  <2>. QED  BY <2>1, <2>2, <1>8 DEF Covers
<1>. QED  BY <1>16, <1>21, <1>22, <1>25 DEF IInv
\* Every step of the main loop, and every command between two of them
LEMMA NextIInv == IInv /\ [Next]_vars => IInv'
<1>. SUFFICES ASSUME IInv, [Next]_vars PROVE IInv'
  OBVIOUS
<1>1. ASSUME NEW s \in Specs, Authorize(s) PROVE IInv'
  BY <1>1, AuthorizeKeeps
<1>2. ASSUME UNCHANGED <<grants, charged, session, seen, attr, relay, due, owed, drinkers>> PROVE IInv'
  BY <1>2 DEF IInv, VarsOK, AttributionFollowsGrants, DrinkersHold, Covers
<1>3. ASSUME NEW s \in Specs, RejectAuthorize(s) PROVE IInv'
  BY <1>2, <1>3 DEF RejectAuthorize
<1>4. ASSUME NEW ids \in SUBSET GrantIds, Deauthorize(ids) PROVE IInv'
  BY <1>4, EndNowKeeps DEF Deauthorize
<1>5. ASSUME NEW d \in Devices, NEW t \in Tokens, Detach(d, t) PROVE IInv'
  <2>1. Presented(grants, d, t) \subseteq Live(grants)
    BY DEF Presented
  <2>. QED  BY <1>5, <2>1, EndNowKeeps DEF Detach
<1>6. ASSUME PollIdleEngine PROVE IInv'
  BY <1>6, PollIdleEngineKeeps
<1>7. ASSUME NEW expired \in SUBSET GrantIds, Poll(expired) PROVE IInv'
  BY <1>7, PollKeeps
<1>8. ASSUME NEW m \in Meters, NEW k \in 0..MaxBurst, MeterLoop(m, k) PROVE IInv'
  <2>1. k \in Nat /\ due' \in SUBSET Meters
    BY <1>8 DEF MeterLoop, IInv, VarsOK
  <2>. QED  BY <1>8, <2>1, PourRunsKeeps, DiscardDripKeeps, ReportPourKeeps DEF MeterLoop
<1>9. ASSUME NEW m \in Meters, EndPour(m) PROVE IInv'
  <2>1. 0 \in Nat /\ due' \in SUBSET Meters
    BY <1>9 DEF EndPour, IInv, VarsOK
  <2>. QED  BY <1>9, <2>1, DiscardDripKeeps, ReportPourKeeps DEF EndPour
<1>10. ASSUME \/ \E r \in Relays : Watchdog(r)
              \/ \E r \in Manual : Switch(r)
       PROVE  IInv'
  BY <1>10, ManualAssumption, SwitchKeeps
<1>11. CASE UNCHANGED vars
  BY <1>2, <1>11 DEF vars
<1>. QED  BY <1>1, <1>3, <1>4, <1>5, <1>6, <1>7, <1>8, <1>9, <1>10, <1>11 DEF Next

\* The inductive invariant holds in every state the engine reaches.
THEOREM Invariant == Spec => []IInv
BY InitIInv, NextIInv, PTL DEF Spec

-----------------------------------------------------------------------------
(* What the invariant shows *)

\* Every variable of the engine has its type, in every state.
THEOREM TypeCorrect == Spec => []TypeOK
<1>1. IInv => TypeOK
  BY DEF IInv, TableOK, VarsOK, TypeOK
<1>. QED  BY <1>1, Invariant, PTL

\* No two live grants ever cover one meter, however takeovers, updates,
\* removals and endings interleave: grant_for has one answer.
THEOREM OneGrantPerMeterHolds == Spec => []OneGrantPerMeter
<1>1. IInv => OneGrantPerMeter
  BY DEF IInv, TableOK, OneGrantPerMeter
<1>. QED  BY <1>1, Invariant, PTL

\* The presentment a meter stamps on its pours is always that of the grant that
\* covers it, and nobody's without one.
THEOREM AttributionFollowsGrantsHolds == Spec => []AttributionFollowsGrants
<1>1. IInv => AttributionFollowsGrants
  BY DEF IInv
<1>. QED  BY <1>1, Invariant, PTL

\* What the engine's own steps do to the valve of relay r
ValveFollows(r) ==
  /\ Covered(grants, r) /\ ~Covered(grants', r) => ~relay'[r]
  /\ ~relay[r] /\ relay'[r] => Covered(grants', r)
  /\ \A g \in Live(grants') :
       r \in grants'[g].relays /\ ~(g \in Live(grants) /\ r \in grants[g].relays) => relay'[r]
  /\ Covered(grants', r) /\ relay[r] => relay'[r]

\* The grants that end close the valves only they named.
LEMMA EndGrantsValves ==
  ASSUME NEW G, G \subseteq Live(grants), NEW sess, NEW base, NEW drink, NEW count, NEW ran,
         EndGrants(G, sess, base, drink, count, ran), NEW r \in Relays
  PROVE  ValveFollows(r)
<1>1. /\ Live(grants') = Live(grants) \ G
      /\ \A g \in Live(grants) \ G : grants'[g] = grants[g]
  BY DEF EndGrants, Live, Ended
<1>2. relay'[r] <=> relay[r] /\ ~(r \in RelaysOf(G) /\ ~Covered(grants', r))
  BY DEF EndGrants, RelayAfterEnds
<1>3. Covered(grants, r) /\ ~Covered(grants', r) => r \in RelaysOf(G)
  BY <1>1 DEF Covered, RelaysOf
<1>4. ~relay[r] => ~relay'[r]
  BY <1>2
<1>. QED  BY <1>1, <1>2, <1>3, <1>4 DEF ValveFollows

\* A grant that is applied opens the valves it names, and closes those that only
\* the grants it displaces or its own earlier form named.
LEMMA AuthorizeValves ==
  ASSUME IInv, NEW s \in Specs, Authorize(s), NEW r \in Relays
  PROVE  ValveFollows(r)
<1> DEFINE tbl   == Authorized(grants, s)
           gone  == Displaced(grants, s)
           freed == RelaysOf(gone \cup (Live(grants) \cap {s.id}))
<1>1. s \in GrantSpec /\ s.id \in GrantIds
  BY AcceptableSpec DEF Authorize
<1>2. /\ Live(tbl) = (Live(grants) \ gone) \cup {s.id}
      /\ tbl[s.id] = s
      /\ \A g \in Live(grants) \ gone : g # s.id => tbl[g].relays = grants[g].relays
  BY <1>1, AuthorizedTable DEF IInv
<1>3. grants' = tbl /\ (relay'[r] <=> r \in s.relays \/ (relay[r] /\ ~(r \in freed /\ ~Covered(tbl, r))))
  BY DEF Authorize, RelayAfterEnds
<1> HIDE DEF tbl, gone
<1>4. r \in s.relays => Covered(tbl, r)
  BY <1>2 DEF Covered
<1>5. Covered(grants, r) /\ ~Covered(tbl, r) => r \in freed
  BY <1>2 DEF Covered, RelaysOf
<1>6. ASSUME NEW g \in Live(tbl), r \in tbl[g].relays, ~(g \in Live(grants) /\ r \in grants[g].relays)
      PROVE  r \in s.relays
  BY <1>2, <1>6
<1>. QED  BY <1>3, <1>4, <1>5, <1>6 DEF ValveFollows

\* Whatever happens to a valve, the engine, the watchdog or a switch did it.
LEMMA NextValves ==
  ASSUME IInv, [Next]_vars, NEW r \in Relays
  PROVE  ValveFollows(r) \/ (grants' = grants /\ (Watchdog(r) \/ Switched(r)))
<1>1. ASSUME grants' = grants, relay'[r] = relay[r] PROVE ValveFollows(r)
  BY <1>1 DEF ValveFollows
<1>2. ASSUME NEW s \in Specs, Authorize(s) PROVE ValveFollows(r)
  BY <1>2, AuthorizeValves
<1>3. ASSUME NEW ids, Deauthorize(ids) PROVE ValveFollows(r)
  BY <1>3, EndGrantsValves DEF Deauthorize
<1>4. ASSUME NEW d, NEW t, Detach(d, t) PROVE ValveFollows(r)
  <2>1. Presented(grants, d, t) \subseteq Live(grants)
    BY DEF Presented
  <2>. QED  BY <1>4, <2>1, EndGrantsValves DEF Detach
<1>5. ASSUME NEW expired, Poll(expired) PROVE ValveFollows(r)
  <2> DEFINE base  == [m \in Meters |-> IF session[m] = 0 THEN 0 ELSE seen[m]]
             delta == Unseen(base)
             G     == Tripped(delta) \cup expired
  <2>1. G \subseteq Live(grants)
    BY <1>5 DEF Poll, Tripped
  <2>2. EndGrants(G, session, [m \in Meters |-> base[m] + delta[m]], drinkers, Recorded(delta), owed)
    BY <1>5 DEF Poll
  <2>. QED  BY <2>1, <2>2, EndGrantsValves
<1>6. ASSUME NEW n, NEW k, ReportPour(n, k) PROVE ValveFollows(r)
  <2> DEFINE ticks == session[n] + k
             delta == [None EXCEPT ![n] = IF ticks > seen[n] THEN ticks - seen[n] ELSE 0]
  <2>1. Tripped(delta) \subseteq Live(grants)
    BY DEF Tripped
  <2>2. EndGrants(Tripped(delta), [session EXCEPT ![n] = 0], Reset(seen, n), drinkers,
                  Recorded(delta), Ran(n, k))
    BY <1>6 DEF ReportPour
  <2>. QED  BY <2>1, <2>2, EndGrantsValves
<1>7. ASSUME NEW n, NEW k, PourRuns(n, k) \/ DiscardDrip(n, k) PROVE ValveFollows(r)
  BY <1>1, <1>7 DEF PourRuns, DiscardDrip
<1>8. ASSUME \/ \E s \in Specs : RejectAuthorize(s)
             \/ PollIdleEngine
             \/ UNCHANGED vars
      PROVE  ValveFollows(r)
  BY <1>1, <1>8 DEF RejectAuthorize, PollIdleEngine, vars
<1>9. ASSUME NEW q \in Relays, Watchdog(q) \/ (q \in Manual /\ Switch(q))
      PROVE  ValveFollows(r) \/ (grants' = grants /\ (Watchdog(r) \/ Switched(r)))
  <2>1. grants' = grants /\ (q # r => relay'[r] = relay[r])
    BY <1>9 DEF Watchdog, Switch, IInv, VarsOK
  <2>. QED  BY <2>1, <1>1, <1>9 DEF Switched
<1>. QED  BY <1>2, <1>3, <1>4, <1>5, <1>6, <1>7, <1>8, <1>9, ManualAssumption DEF Next, MeterLoop, EndPour

\* When the last grant that names a valve's relay goes the valve is closed, and the
\* engine opens it only for such a grant.
THEOREM ValveNeedsGrantHolds == Spec => ValveNeedsGrant
<1> DEFINE Needs == \A r \in Relays :
                      /\ Covered(grants, r) /\ ~Covered(grants', r) => ~relay'[r]
                      /\ ~relay[r] /\ relay'[r] => Covered(grants', r) \/ Switched(r)
<1>1. IInv /\ [Next]_vars => [Needs]_vars
  <2>1. SUFFICES ASSUME IInv, [Next]_vars, NEW r \in Relays
                 PROVE  /\ Covered(grants, r) /\ ~Covered(grants', r) => ~relay'[r]
                        /\ ~relay[r] /\ relay'[r] => Covered(grants', r) \/ Switched(r)
    OBVIOUS
  <2>2. CASE ValveFollows(r)
    BY <2>2 DEF ValveFollows
  <2>3. CASE grants' = grants /\ (Watchdog(r) \/ Switched(r))
    <3>1. Watchdog(r) => ~relay'[r]
      BY <2>1 DEF Watchdog, IInv, VarsOK
    <3>. QED  BY <2>3, <3>1
  <2>. QED  BY <2>1, <2>2, <2>3, NextValves
<1>. HIDE DEF Needs
<1>2. Spec => [][Needs]_vars
  BY <1>1, Invariant, PTL DEF Spec
<1>. QED  BY <1>2 DEF ValveNeedsGrant, Needs

\* A grant's valve is opened when the grant begins to name it, and as long as some
\* live grant names it only its watchdog or a switch from outside closes it.
THEOREM ValveHeldOpenHolds == Spec => ValveHeldOpen
<1> DEFINE Opens(r) == \A g \in Live(grants') :
             r \in grants'[g].relays /\ ~(g \in Live(grants) /\ r \in grants[g].relays) => relay'[r]
           Held == \A r \in Relays :
                     /\ Opens(r)
                     /\ Covered(grants', r) /\ relay[r] /\ ~relay'[r] => Watchdog(r) \/ Switched(r)
<1>1. IInv /\ [Next]_vars => [Held]_vars
  <2>1. SUFFICES ASSUME IInv, [Next]_vars, NEW r \in Relays
                 PROVE  /\ Opens(r)
                        /\ Covered(grants', r) /\ relay[r] /\ ~relay'[r] => Watchdog(r) \/ Switched(r)
    OBVIOUS
  <2>2. CASE ValveFollows(r)
    BY <2>2 DEF ValveFollows
  <2>3. CASE grants' = grants /\ (Watchdog(r) \/ Switched(r))
    BY <2>3
  <2>. QED  BY <2>1, <2>2, <2>3, NextValves
<1>. HIDE DEF Held
<1>2. Spec => [][Held]_vars
  BY <1>1, Invariant, PTL DEF Spec
<1>. QED  BY <1>2 DEF ValveHeldOpen, Held

\* A pour never runs under two grants, and the one it runs under still holds
\* its meter.
THEOREM PourHasOneDrinkerHolds == Spec => []PourHasOneDrinker
<1>1. IInv => PourHasOneDrinker
  <2>1. SUFFICES ASSUME IInv, NEW m \in Meters
                 PROVE  drinkers[m] \subseteq Holders(grants, m) /\ Cardinality(drinkers[m]) <= 1
    BY DEF PourHasOneDrinker
  <2>2. drinkers[m] \subseteq Holders(grants, m)
    BY <2>1 DEF IInv, DrinkersHold
  <2>3. CASE drinkers[m] = {}
    BY <2>2, <2>3, FS_EmptySet
  <2>4. CASE drinkers[m] # {}
    <3>1. PICK g : g \in drinkers[m]
      BY <2>4
    <3>2. drinkers[m] = {g}
      BY <2>1, <2>2, <3>1, SoleHolder DEF IInv
    <3>3. Cardinality(drinkers[m]) = 1
      BY <3>2, FS_Singleton
    <3>. QED  BY <2>2, <3>3
  <2>. QED  BY <2>3, <2>4
<1>. QED  BY <1>1, Invariant, PTL

\* A grant is never charged, now or by the next poll, for more than ran through
\* its meters while it held them.
THEOREM NoOverchargeHolds == Spec => []NoOvercharge
<1>1. IInv => NoOvercharge
  <2>1. SUFFICES ASSUME IInv, NEW g \in Live(grants), NEW m \in Meters
                 PROVE  /\ charged[g][m] <= owed[g][m]
                        /\ m \in grants[g].meters /\ session[m] > 0 =>
                             charged[g][m] + session[m] <= owed[g][m] + seen[m]
    BY DEF NoOvercharge
  <2>2. g \in GrantIds
    BY DEF Live
  <2>. QED  BY <2>1, <2>2 DEF IInv, Covers, Holders
<1>. QED  BY <1>1, Invariant, PTL

-----------------------------------------------------------------------------
(* Sums over a finite set, by induction over its subsets *)

\* A family of subsets of a finite set that has every one of which it has all smaller
\* ones has them all.
LEMMA SubsetInduction ==
  ASSUME NEW S, IsFiniteSet(S), NEW C \in SUBSET (SUBSET S),
         \A T \in SUBSET S : (\A x \in T : T \ {x} \in C) => T \in C
  PROVE  C = SUBSET S
<1> DEFINE D == (SUBSET S) \ C
<1>1. SUFFICES ASSUME D # {} PROVE FALSE
  OBVIOUS
<1>2. D \in SUBSET FiniteSubsetsOf(S)
  BY FS_Subset DEF FiniteSubsetsOf
<1>3. PICK T \in D : \A U \in D : <<U, T>> \notin StrictSubsetOrdering(S)
  BY <1>1, <1>2, FS_StrictSubsetOrderingWellFounded, WFMin, Zenon
<1>4. ASSUME NEW x \in T PROVE T \ {x} \in C
  <2>1. <<T \ {x}, T>> \in StrictSubsetOrdering(S)
    BY DEF StrictSubsetOrdering
  <2>. QED  BY <1>3, <2>1
<1>. QED  BY <1>4

\* The cells of a bar chart of f over S
Cells(f, S) == {p \in S \X Nat : p[2] \in 1..f[p[1]]}

\* One more column adds its height to the chart.
LEMMA CellsGrow ==
  ASSUME NEW f, NEW S, NEW x, x \notin S, f[x] \in Nat, IsFiniteSet(Cells(f, S))
  PROVE  /\ IsFiniteSet(Cells(f, S \cup {x}))
         /\ Cardinality(Cells(f, S \cup {x})) = Cardinality(Cells(f, S)) + f[x]
<1> DEFINE new == {x} \X (1..f[x])
           number == [j \in 1..f[x] |-> <<x, j>>]
<1>1. number \in Bijection(1..f[x], new)
  <2>1. number \in [1..f[x] -> new]
    OBVIOUS
  <2>2. \A i, j \in 1..f[x] : number[i] = number[j] => i = j
    OBVIOUS
  <2>3. \A p \in new : \E j \in 1..f[x] : number[j] = p
    OBVIOUS
  <2>. HIDE DEF number, new
  <2>. QED  BY <2>1, <2>2, <2>3 DEF Bijection, Injection, IsInjective, Surjection
<1>2. IsFiniteSet(1..f[x]) /\ Cardinality(1..f[x]) = f[x]
  BY FS_Interval
<1>3. IsFiniteSet(new) /\ Cardinality(new) = f[x]
  BY <1>1, <1>2, FS_Bijection DEF ExistsBijection
<1>4. Cells(f, S \cup {x}) = Cells(f, S) \cup new
  BY DEF Cells
<1>5. Cells(f, S) \cap new = {}
  BY DEF Cells
<1>6. Cardinality(Cells(f, S)) \in Nat
  BY FS_CardinalityType
<1>. HIDE DEF new
<1>7. Cardinality({}) = 0
  BY FS_EmptySet
<1>8. /\ IsFiniteSet(Cells(f, S) \cup new)
      /\ Cardinality(Cells(f, S) \cup new)
           = Cardinality(Cells(f, S)) + Cardinality(new) - Cardinality(Cells(f, S) \cap new)
  BY <1>3, FS_Union, Zenon
<1>9. Cardinality(Cells(f, S) \cup new) = Cardinality(Cells(f, S)) + f[x] - 0
  BY <1>3, <1>5, <1>7, <1>8
<1>10. /\ IsFiniteSet(Cells(f, S \cup {x}))
       /\ Cardinality(Cells(f, S \cup {x})) = Cardinality(Cells(f, S) \cup new)
  BY <1>4, <1>8, Zenon
<1>. QED  BY <1>6, <1>9, <1>10

\* A chart over a finite set is finite.
LEMMA CellsFinite ==
  ASSUME NEW S, IsFiniteSet(S), NEW f \in [S -> Nat], NEW T \in SUBSET S
  PROVE  IsFiniteSet(Cells(f, T)) /\ Cardinality(Cells(f, T)) \in Nat
<1> DEFINE C == {s \in SUBSET S : IsFiniteSet(Cells(f, s))}
<1>1. {} \in C
  <2>1. Cells(f, {}) = {}
    BY DEF Cells
  <2>. QED  BY <2>1, FS_EmptySet
<1>2. ASSUME NEW s \in SUBSET S, \A x \in s : s \ {x} \in C PROVE s \in C
  <2>1. CASE s = {}
    BY <1>1, <2>1
  <2>2. CASE s # {}
    <3>1. PICK x \in s : TRUE
      BY <2>2
    <3>2. x \notin s \ {x} /\ s = (s \ {x}) \cup {x} /\ f[x] \in Nat /\ IsFiniteSet(Cells(f, s \ {x}))
      BY <1>2, <3>1
    <3>3. IsFiniteSet(Cells(f, (s \ {x}) \cup {x}))
      BY <3>2, CellsGrow
    <3>. QED  BY <3>2, <3>3
  <2>. QED  BY <2>1, <2>2
<1>3. C \in SUBSET (SUBSET S)
  OBVIOUS
<1>. HIDE DEF C
<1>4. C = SUBSET S
  BY <1>1, <1>2, <1>3, SubsetInduction
<1>. QED  BY <1>4, FS_CardinalityType DEF C

\* g sums f over any set of indices.
SumsUp(g, f, S) ==
  g = [s \in SUBSET S |-> IF s = {} THEN 0 ELSE f[CHOOSE x \in s : TRUE] + g[s \ {CHOOSE x \in s : TRUE}]]

\* SumFunction picks and drops one index after the other.
LEMMA SumUnfolds ==
  ASSUME NEW f, NEW S, DOMAIN f = S
  PROVE  SumFunction(f) = (CHOOSE g : SumsUp(g, f, S))[S]
BY DEF SumFunction, SumFunctionOnSet, FoldFunctionOnSet, MapThenFoldSet, SumsUp

\* The cells of f in any set of indices are a sum.
LEMMA CellsSumUp ==
  ASSUME NEW S, IsFiniteSet(S), NEW f \in [S -> Nat]
  PROVE  SumsUp([s \in SUBSET S |-> Cardinality(Cells(f, s))], f, S)
<1> DEFINE c == [s \in SUBSET S |-> Cardinality(Cells(f, s))]
<1>1. ASSUME NEW s \in SUBSET S
      PROVE  c[s] = IF s = {} THEN 0 ELSE f[CHOOSE x \in s : TRUE] + c[s \ {CHOOSE x \in s : TRUE}]
  <2>1. CASE s = {}
    <3>1. Cells(f, {}) = {}
      BY DEF Cells
    <3>. QED  BY <2>1, <3>1, FS_EmptySet
  <2>2. CASE s # {}
    <3> DEFINE x == CHOOSE x \in s : TRUE
    <3>1. x \in s
      BY <2>2
    <3>. HIDE DEF x
    <3>2. s \ {x} \in SUBSET S /\ s = (s \ {x}) \cup {x} /\ x \notin s \ {x} /\ f[x] \in Nat
      BY <3>1
    <3>3. IsFiniteSet(Cells(f, s \ {x})) /\ Cardinality(Cells(f, s \ {x})) \in Nat
      BY <3>2, CellsFinite
    <3>4. Cardinality(Cells(f, s)) = Cardinality(Cells(f, s \ {x})) + f[x]
      BY <3>2, <3>3, CellsGrow
    <3>5. c[s] = f[x] + c[s \ {x}]
      BY <3>2, <3>3, <3>4
    <3>. QED  BY <2>2, <3>5 DEF x
  <2>. QED  BY <2>1, <2>2
<1>2. c = [s \in SUBSET S |-> c[s]]
  OBVIOUS
<1>. HIDE DEF c
<1>3. SumsUp(c, f, S)
  BY <1>1, <1>2 DEF SumsUp
<1>. QED  BY <1>3 DEF c

\* A sum of natural numbers is one.
LEMMA SumIsNatural ==
  ASSUME NEW S, IsFiniteSet(S), NEW f \in [S -> Nat]
  PROVE  SumFunction(f) \in Nat
<1> DEFINE g == CHOOSE g : SumsUp(g, f, S)
           C == {s \in SUBSET S : g[s] \in Nat}
<1>1. SumsUp(g, f, S)
  BY CellsSumUp
<1>2. SumFunction(f) = g[S]
  BY SumUnfolds
<1>. HIDE DEF g
<1>3. ASSUME NEW s \in SUBSET S, \A x \in s : s \ {x} \in C PROVE s \in C
  <2>1. CASE s = {}
    BY <1>1, <2>1 DEF SumsUp
  <2>2. CASE s # {}
    <3> DEFINE y == CHOOSE y \in s : TRUE
    <3>1. y \in s
      BY <2>2
    <3>2. g[s] = f[y] + g[s \ {y}] /\ f[y] \in Nat
      BY <1>1, <2>2, <3>1 DEF SumsUp
    <3>. HIDE DEF y
    <3>. QED  BY <1>3, <3>1, <3>2
  <2>. QED  BY <2>1, <2>2
<1>4. C \in SUBSET (SUBSET S)
  OBVIOUS
<1>. HIDE DEF C
<1>5. C = SUBSET S
  BY <1>3, <1>4, SubsetInduction
<1>. QED  BY <1>2, <1>5 DEF C

-----------------------------------------------------------------------------
(* What is not billed yet *)

\* Without drips no baseline is ahead of the pour it belongs to.
Settled == \A m \in Meters : seen[m] <= session[m]

\* A grant that outlives the ending of G keeps its meters and what the handler
\* recorded for it.
Spared(G, sess, base, count, ran) ==
  \A g \in Live(grants) : g \in Live(grants') =>
    /\ g \notin G /\ grants'[g] = grants[g]
    /\ charged'[g] = count[g] /\ owed'[g] = ran[g]
    /\ \A m \in Meters : m \in grants[g].meters => session'[m] = sess[m] /\ seen'[m] = base[m]

\* Ending G touches no other grant.
LEMMA OthersSpared ==
  ASSUME IInv, NEW G, G \subseteq Live(grants), NEW sess, NEW base, NEW drink, NEW count, NEW ran,
         EndGrants(G, sess, base, drink, count, ran)
  PROVE  Spared(G, sess, base, count, ran)
<1>. SUFFICES ASSUME NEW g \in Live(grants), g \in Live(grants')
              PROVE  /\ g \notin G /\ grants'[g] = grants[g]
                     /\ charged'[g] = count[g] /\ owed'[g] = ran[g]
                     /\ \A m \in Meters : m \in grants[g].meters => session'[m] = sess[m] /\ seen'[m] = base[m]
  BY DEF Spared
<1>1. /\ Live(grants') = Live(grants) \ G
      /\ \A h \in Live(grants) \ G : grants'[h] = grants[h]
  BY EndedTable DEF EndGrants, IInv
<1>2. g \in GrantIds
  BY DEF Live
<1>3. charged'[g] = count[g] /\ owed'[g] = ran[g]
  BY <1>1, <1>2 DEF EndGrants, Cleared
<1>4. \A m \in grants[g].meters : m \notin MetersOf(G)
  BY <1>1 DEF MetersOf, IInv, TableOK
<1>5. \A m \in Meters : m \in grants[g].meters => session'[m] = sess[m] /\ seen'[m] = base[m]
  BY <1>4 DEF EndGrants, SessionAfterEnds, SeenAfterEnds
<1>. QED  BY <1>1, <1>3, <1>5

\* The pours that endings stop leave no baseline.
LEMMA EndGrantsSettles ==
  ASSUME MinPourTicks <= 1, NEW G,
         NEW sess \in [Meters -> Nat], NEW base \in [Meters -> Nat],
         NEW drink, NEW count, NEW ran,
         \A m \in Meters : base[m] <= sess[m],
         EndGrants(G, sess, base, drink, count, ran)
  PROVE  Settled'
<1>. SUFFICES ASSUME NEW m \in Meters PROVE seen'[m] <= session'[m]
  BY DEF Settled
<1>1. /\ session'[m] = IF m \in MetersOf(G) THEN 0 ELSE sess[m]
      /\ seen'[m] = IF m \in MetersOf(G) /\ sess[m] > 0
                    THEN IF sess[m] >= MinPourTicks THEN 0 ELSE sess[m] ELSE base[m]
  BY DEF EndGrants, SessionAfterEnds, SeenAfterEnds, Baseline
<1>2. sess[m] \in Nat /\ base[m] \in Nat /\ base[m] <= sess[m] /\ MinPourTicks \in Nat
  BY BoundsAssumption
<1>. QED  BY <1>1, <1>2

\* What a poll finds and records
LEMMA PollRecords ==
  ASSUME IInv, NEW base, base = [m \in Meters |-> IF session[m] = 0 THEN 0 ELSE seen[m]]
  PROVE  /\ base \in [Meters -> Nat]
         /\ Unseen(base) \in [Meters -> Nat]
         /\ \A m \in Meters : Unseen(base)[m] = IF Holders(grants, m) # {} /\ session[m] > base[m]
                                                THEN session[m] - base[m] ELSE 0
<1>1. session \in [Meters -> Nat] /\ seen \in [Meters -> Nat]
  BY DEF IInv, VarsOK
<1>2. base \in [Meters -> Nat]
  BY <1>1
<1>3. \A m \in Meters : Unseen(base)[m] = IF Holders(grants, m) # {} /\ session[m] > base[m]
                                          THEN session[m] - base[m] ELSE 0
  BY DEF Unseen
<1>4. \A m \in Meters : Unseen(base)[m] \in Nat
  BY <1>1, <1>2, <1>3
<1>. QED  BY <1>2, <1>3, <1>4 DEF Unseen

\* No step puts a baseline ahead of its pour.
LEMMA NextSettled == MinPourTicks <= 1 /\ IInv /\ Settled /\ [Next]_vars => Settled'
<1>. SUFFICES ASSUME MinPourTicks <= 1, IInv, Settled, [Next]_vars PROVE Settled'
  OBVIOUS
<1>1. /\ session \in [Meters -> Nat] /\ seen \in [Meters -> Nat]
      /\ \A m \in Meters : seen[m] <= session[m]
      /\ MinPourTicks \in Nat
  BY BoundsAssumption DEF IInv, VarsOK, Settled
<1>2. ASSUME UNCHANGED <<session, seen>> PROVE Settled'
  BY <1>1, <1>2 DEF Settled
<1>3. ASSUME NEW G, EndGrants(G, session, seen, drinkers, charged, owed) PROVE Settled'
  BY <1>1, <1>3, EndGrantsSettles
<1>4. ASSUME NEW s \in Specs, Authorize(s) PROVE Settled'
  <2> DEFINE released == UNION {Lost(grants, s, g) : g \in Losers(grants, s)}
             sess == SessionAfterEnds(session, released)
             base == SeenAfterEnds(session, seen, released)
  <2>1. session' = sess /\ seen' = Adopted(s, sess, base)
    BY <1>4 DEF Authorize
  <2>2. SUFFICES ASSUME NEW m \in Meters PROVE seen'[m] <= session'[m]
    BY DEF Settled
  <2>3. sess[m] = IF m \in released THEN 0 ELSE session[m]
    BY DEF SessionAfterEnds
  <2>4. base[m] = IF m \in released /\ session[m] > 0
                  THEN IF session[m] >= MinPourTicks THEN 0 ELSE session[m] ELSE seen[m]
    BY DEF SeenAfterEnds, Baseline
  <2>5. seen'[m] = IF m \in s.meters /\ sess[m] > 0 THEN sess[m] ELSE base[m]
    BY <2>1 DEF Adopted
  <2>6. session[m] \in Nat /\ seen[m] \in Nat /\ seen[m] <= session[m]
    BY <1>1
  <2>. HIDE DEF sess, base
  <2>. QED  BY <1>1, <2>1, <2>3, <2>4, <2>5, <2>6
<1>5. ASSUME NEW expired \in SUBSET GrantIds, Poll(expired) PROVE Settled'
  <2> DEFINE base  == [m \in Meters |-> IF session[m] = 0 THEN 0 ELSE seen[m]]
             delta == Unseen(base)
             after == [m \in Meters |-> base[m] + delta[m]]
             G     == Tripped(delta) \cup expired
  <2>1. EndGrants(G, session, after, drinkers, Recorded(delta), owed)
    BY <1>5 DEF Poll
  <2>2. /\ base \in [Meters -> Nat] /\ delta \in [Meters -> Nat]
        /\ \A m \in Meters : delta[m] = IF Holders(grants, m) # {} /\ session[m] > base[m]
                                        THEN session[m] - base[m] ELSE 0
    BY PollRecords
  <2>3. \A m \in Meters : base[m] <= session[m]
    BY <1>1
  <2>. HIDE DEF base, delta
  <2>4. after \in [Meters -> Nat] /\ \A m \in Meters : after[m] <= session[m]
    BY <1>1, <2>2, <2>3
  <2>. HIDE DEF after, G
  <2>. QED  BY <1>1, <2>1, <2>4, EndGrantsSettles
<1>6. ASSUME NEW m \in Meters, NEW k \in Nat, PourRuns(m, k) PROVE Settled'
  <2>1. session' = [session EXCEPT ![m] = @ + k] /\ seen' = seen
    BY <1>6 DEF PourRuns
  <2>. QED  BY <1>1, <2>1 DEF Settled
<1>7. ASSUME NEW m \in Meters, NEW k \in Nat, DiscardDrip(m, k) PROVE Settled'
  BY <1>1, <1>7 DEF DiscardDrip
<1>8. ASSUME NEW m \in Meters, NEW k \in Nat, ReportPour(m, k) PROVE Settled'
  <2> DEFINE ticks == session[m] + k
             idle  == [session EXCEPT ![m] = 0]
             delta == [None EXCEPT ![m] = IF ticks > seen[m] THEN ticks - seen[m] ELSE 0]
             base  == Reset(seen, m)
  <2>1. EndGrants(Tripped(delta), idle, base, drinkers, Recorded(delta), Ran(m, k))
    BY <1>8 DEF ReportPour
  <2>2. /\ idle \in [Meters -> Nat] /\ base \in [Meters -> Nat]
        /\ \A n \in Meters : base[n] <= idle[n]
    BY <1>1 DEF Reset
  <2>. HIDE DEF idle, delta, base
  <2>. QED  BY <2>1, <2>2, EndGrantsSettles
<1>9. ASSUME PollIdleEngine PROVE Settled'
  BY <1>1, <1>9 DEF PollIdleEngine, None, Settled
<1>10. ASSUME NEW m \in Meters, NEW k \in 0..MaxBurst, MeterLoop(m, k) PROVE Settled'
  <2>1. k \in Nat
    OBVIOUS
  <2>. QED  BY <1>6, <1>7, <1>8, <1>10, <2>1 DEF MeterLoop
<1>11. ASSUME NEW m \in Meters, EndPour(m) PROVE Settled'
  <2>1. 0 \in Nat
    OBVIOUS
  <2>. QED  BY <1>7, <1>8, <1>11, <2>1 DEF EndPour
<1>12. ASSUME \/ \E s \in Specs : RejectAuthorize(s)
              \/ \E r \in Relays : Watchdog(r)
              \/ \E r \in Manual : Switch(r)
              \/ UNCHANGED vars
       PROVE  Settled'
  BY <1>2, <1>12 DEF RejectAuthorize, Watchdog, Switch, vars
<1>13. ASSUME \/ \E ids \in SUBSET GrantIds : Deauthorize(ids)
              \/ \E d \in Devices, t \in Tokens : Detach(d, t)
       PROVE  Settled'
  BY <1>3, <1>13 DEF Deauthorize, Detach
<1>. QED  BY <1>4, <1>5, <1>9, <1>10, <1>11, <1>12, <1>13 DEF Next


\* A grant that is kept on a meter
Kept(g, m) == g \in Live(grants) \cap Live(grants') /\ m \in Meters /\ m \in grants[g].meters \cap grants'[g].meters

\* The values that the account of grant g on meter m is about
LEMMA AccountTyped ==
  ASSUME IInv, NEW g \in Live(grants), NEW m \in Meters
  PROVE  /\ session[m] \in Nat /\ seen[m] \in Nat
         /\ charged[g][m] \in Nat /\ owed[g][m] \in Nat
         /\ g \in GrantIds
BY DEF IInv, VarsOK, Live

\* A poll charges what it finds: what is not billed stays as it is.
LEMMA PollBills ==
  ASSUME IInv, Settled, NEW expired \in SUBSET GrantIds, Poll(expired), NEW g, NEW m, Kept(g, m)
  PROVE  Unbilled(g, m)' = Unbilled(g, m)
<1> DEFINE base  == [n \in Meters |-> IF session[n] = 0 THEN 0 ELSE seen[n]]
           delta == Unseen(base)
           after == [n \in Meters |-> base[n] + delta[n]]
           G     == Tripped(delta) \cup expired
<1>1. /\ G \subseteq Live(grants)
      /\ EndGrants(G, session, after, drinkers, Recorded(delta), owed)
  BY DEF Poll, Tripped
<1>2. /\ base \in [Meters -> Nat] /\ delta \in [Meters -> Nat]
      /\ \A n \in Meters : delta[n] = IF Holders(grants, n) # {} /\ session[n] > base[n]
                                      THEN session[n] - base[n] ELSE 0
  BY PollRecords
<1>3. g \in Holders(grants, m) /\ g \in Live(grants) /\ m \in Meters /\ g \in GrantIds
  BY DEF Kept, Holders, Live
<1>4. base[m] = IF session[m] = 0 THEN 0 ELSE seen[m]
  BY <1>3
<1>5. after[m] = base[m] + delta[m]
  BY <1>3
<1>. HIDE DEF base, delta, after, G
<1>6. /\ charged'[g][m] = Recorded(delta)[g][m] /\ owed'[g][m] = owed[g][m]
      /\ session'[m] = session[m] /\ seen'[m] = after[m]
  <2>1. g \in Live(grants) /\ g \in Live(grants') /\ m \in Meters /\ m \in grants[g].meters
    BY DEF Kept
  <2>2. Spared(G, session, after, Recorded(delta), owed)
    BY <1>1, OthersSpared
  <2>. QED  BY <2>1, <2>2 DEF Spared
<1>7. Recorded(delta)[g][m] = charged[g][m] + delta[m]
  BY <1>2, <1>3, RecordedValues DEF IInv
<1>8. delta[m] = IF session[m] > base[m] THEN session[m] - base[m] ELSE 0
  BY <1>2, <1>3
<1>9. /\ session[m] \in Nat /\ seen[m] \in Nat /\ charged[g][m] \in Nat /\ owed[g][m] \in Nat
      /\ seen[m] <= session[m]
  BY <1>3, AccountTyped DEF Settled
<1>10. Unbilled(g, m)' = owed[g][m] - (charged[g][m] + delta[m])
                           - IF session[m] > 0 THEN session[m] - (base[m] + delta[m]) ELSE 0
  BY <1>5, <1>6, <1>7 DEF Unbilled
<1>. QED  BY <1>4, <1>8, <1>9, <1>10 DEF Unbilled

\* The end of a pour charges what no poll has seen of it.
LEMMA ReportPourBills ==
  ASSUME IInv, Settled, NEW n \in Meters, NEW k \in Nat, ReportPour(n, k), NEW g, NEW m, Kept(g, m)
  PROVE  Unbilled(g, m)' = Unbilled(g, m)
<1> DEFINE ticks == session[n] + k
           idle  == [session EXCEPT ![n] = 0]
           delta == [None EXCEPT ![n] = IF ticks > seen[n] THEN ticks - seen[n] ELSE 0]
           base  == Reset(seen, n)
           G     == Tripped(delta)
<1>1. /\ G \subseteq Live(grants)
      /\ EndGrants(G, idle, base, drinkers, Recorded(delta), Ran(n, k))
  BY DEF ReportPour, Tripped
<1>2. /\ delta \in [Meters -> Nat]
      /\ \A p \in Meters : p # n => delta[p] = 0
      /\ delta[n] = IF ticks > seen[n] THEN ticks - seen[n] ELSE 0
  <2>1. ticks \in Nat
    BY DEF IInv, VarsOK
  <2>2. seen[n] \in Nat /\ (ticks > seen[n] => ticks - seen[n] \in Nat)
    BY <2>1 DEF IInv, VarsOK
  <2>3. None \in [Meters -> Nat] /\ \A p \in Meters : None[p] = 0
    BY DEF None
  <2>. HIDE DEF ticks
  <2>. QED  BY <2>1, <2>2, <2>3
<1>3. g \in Holders(grants, m) /\ g \in Live(grants) /\ m \in Meters /\ g \in GrantIds
  BY DEF Kept, Holders, Live
<1>4. /\ idle[m] = IF m = n THEN 0 ELSE session[m]
      /\ base[m] = IF m = n THEN 0 ELSE seen[m]
  BY <1>3 DEF Reset, IInv, VarsOK
<1>. HIDE DEF base, delta, idle, G
<1>5. /\ charged'[g][m] = Recorded(delta)[g][m] /\ owed'[g][m] = Ran(n, k)[g][m]
      /\ session'[m] = idle[m] /\ seen'[m] = base[m]
  <2>1. g \in Live(grants) /\ g \in Live(grants') /\ m \in Meters /\ m \in grants[g].meters
    BY DEF Kept
  <2>2. Spared(G, idle, base, Recorded(delta), Ran(n, k))
    BY <1>1, OthersSpared
  <2>. QED  BY <2>1, <2>2 DEF Spared
<1>6. Recorded(delta)[g][m] = charged[g][m] + delta[m]
  BY <1>2, <1>3, RecordedValues DEF IInv
<1>7. Ran(n, k)[g][m] = owed[g][m] + IF m = n THEN k ELSE 0
  BY <1>3, RanValues DEF IInv
<1>9. /\ session[m] \in Nat /\ seen[m] \in Nat /\ charged[g][m] \in Nat /\ owed[g][m] \in Nat
      /\ seen[m] <= session[m]
  BY <1>3, AccountTyped DEF Settled
<1>10. Unbilled(g, m)' = (owed[g][m] + IF m = n THEN k ELSE 0) - (charged[g][m] + delta[m])
                           - IF idle[m] > 0 THEN idle[m] - base[m] ELSE 0
  BY <1>5, <1>6, <1>7 DEF Unbilled
<1>11. CASE m = n
  <2>1. Unbilled(g, m)' = (owed[g][m] + k) - (charged[g][m] + delta[m])
    <3>1. idle[m] = 0 /\ (IF m = n THEN k ELSE 0) = k
      BY <1>4, <1>11
    <3>2. delta[m] \in Nat
      BY <1>2, <1>3
    <3>. QED  BY <1>9, <1>10, <3>1, <3>2
  <2>2. delta[m] = session[m] + k - seen[m]
    BY <1>2, <1>9, <1>11
  <2>3. Unbilled(g, m) = owed[g][m] - charged[g][m] - (session[m] - seen[m])
    BY <1>9 DEF Unbilled
  <2>. QED  BY <1>9, <2>1, <2>2, <2>3
<1>12. CASE m # n
  <2>1. delta[m] = 0 /\ session'[m] = session[m] /\ seen'[m] = seen[m]
    BY <1>2, <1>3, <1>4, <1>5, <1>12
  <2>2. owed'[g][m] = owed[g][m]
    BY <1>5, <1>7, <1>9, <1>12
  <2>3. charged'[g][m] = charged[g][m]
    BY <1>5, <1>6, <1>9, <2>1
  <2>. QED  BY <2>1, <2>2, <2>3 DEF Unbilled
<1>. QED  BY <1>11, <1>12

\* A running pour is not charged yet, and is not lost either.
LEMMA PourRunsBills ==
  ASSUME IInv, Settled, NEW n \in Meters, NEW k \in Nat, PourRuns(n, k), NEW g, NEW m, Kept(g, m)
  PROVE  Unbilled(g, m)' = Unbilled(g, m)
<1>1. g \in Holders(grants, m) /\ g \in Live(grants) /\ m \in Meters /\ g \in GrantIds
  BY DEF Kept, Holders, Live
<1>2. /\ session[m] \in Nat /\ seen[m] \in Nat /\ charged[g][m] \in Nat /\ owed[g][m] \in Nat
      /\ seen[m] <= session[m]
  BY <1>1, AccountTyped DEF Settled
<1>3. session' = [session EXCEPT ![n] = @ + k] /\ charged' = charged /\ seen' = seen /\ owed' = Ran(n, k)
  BY DEF PourRuns
<1>4. owed'[g][m] = owed[g][m] + IF m = n THEN k ELSE 0
  BY <1>1, <1>3, RanValues DEF IInv
<1>5. session'[m] = session[m] + IF m = n THEN k ELSE 0
  BY <1>1, <1>2, <1>3 DEF IInv, VarsOK
<1>6. charged'[g][m] = charged[g][m] /\ seen'[m] = seen[m]
  BY <1>3
<1>7. Unbilled(g, m)' = owed'[g][m] - charged[g][m] - IF session'[m] > 0 THEN session'[m] - seen[m] ELSE 0
  BY <1>6 DEF Unbilled
<1>8. CASE m = n
  <2>1. owed'[g][m] = owed[g][m] + k /\ session'[m] = session[m] + k
    BY <1>4, <1>5, <1>8
  <2>. QED  BY <1>2, <1>7, <2>1 DEF Unbilled
<1>9. CASE m # n
  <2>1. owed'[g][m] = owed[g][m] /\ session'[m] = session[m]
    BY <1>2, <1>4, <1>5, <1>9
  <2>. QED  BY <1>2, <1>7, <2>1 DEF Unbilled
<1>. QED  BY <1>8, <1>9

\* A grant that another takes some meters from is not affected on the rest.
LEMMA AuthorizeBills ==
  ASSUME IInv, NEW s \in Specs, Authorize(s), NEW g, NEW m, Kept(g, m), g # s.id
  PROVE  Unbilled(g, m)' = Unbilled(g, m)
<1> DEFINE released == UNION {Lost(grants, s, h) : h \in Losers(grants, s)}
           gone     == Displaced(grants, s)
<1>1. s \in GrantSpec /\ s.id \in GrantIds
  BY AcceptableSpec DEF Authorize
<1>2. /\ Live(grants') = (Live(grants) \ gone) \cup {s.id}
      /\ \A n : Holders(grants', n) = IF n \in s.meters THEN {s.id} ELSE Holders(grants, n) \ {s.id}
  BY <1>1, AuthorizedTable DEF IInv, Authorize
<1>3. /\ g \in Holders(grants, m) /\ g \in Holders(grants', m)
      /\ g \in GrantIds /\ m \in Meters /\ g \notin gone
  BY <1>2 DEF Kept, Holders, Live
<1>4. m \notin s.meters
  BY <1>2, <1>3
<1>5. m \notin released
  <2>1. SUFFICES ASSUME NEW h \in Losers(grants, s), m \in Lost(grants, s, h) PROVE FALSE
    OBVIOUS
  <2>2. h = s.id /\ h \in Holders(grants, m)
    BY <2>1, <1>4 DEF Lost, Losers, Holders
  <2>. QED  BY <2>2, <1>3, SoleHolder DEF IInv
<1>. HIDE DEF released, gone
<1>6. /\ charged'[g] = charged[g] /\ owed'[g] = owed[g]
  <2>1. /\ owed' = Cleared(owed, gone)
        /\ charged' = [Cleared(charged, gone) EXCEPT ![s.id] =
                         [n \in Meters |-> @[n] + IF n \in s.meters
                            THEN PourTail(session, UNION {[x \in Losers(grants, s) |-> Lost(grants, s, x)][h] : h \in Losers(grants, s)}, n)
                            ELSE 0]]
    BY DEF Authorize, gone
  <2>. QED  BY <1>3, <2>1 DEF Cleared
<1>7. session'[m] = session[m] /\ seen'[m] = seen[m]
  <2>1. UNION {[x \in Losers(grants, s) |-> Lost(grants, s, x)][h] : h \in Losers(grants, s)} = released
    BY DEF released
  <2>2. /\ session' = SessionAfterEnds(session, released)
        /\ seen' = Adopted(s, session', SeenAfterEnds(session, seen, released))
    BY <2>1 DEF Authorize
  <2>. QED  BY <1>3, <1>4, <1>5, <2>2 DEF SessionAfterEnds, Adopted, SeenAfterEnds
<1>. QED  BY <1>6, <1>7 DEF Unbilled

\* Endings of other grants change no account.
LEMMA EndNowBills ==
  ASSUME IInv, NEW G, G \subseteq Live(grants), EndGrants(G, session, seen, drinkers, charged, owed),
         NEW g, NEW m, Kept(g, m)
  PROVE  Unbilled(g, m)' = Unbilled(g, m)
<1>1. Spared(G, session, seen, charged, owed)
  BY OthersSpared
<1>2. charged'[g] = charged[g] /\ owed'[g] = owed[g] /\ session'[m] = session[m] /\ seen'[m] = seen[m]
  BY <1>1 DEF Spared, Kept
<1>. QED  BY <1>2 DEF Unbilled

\* Without drips, every step but an update bills what ran under a grant, or leaves it
\* for the next.
LEMMA NextBills ==
  ASSUME MinPourTicks <= 1, IInv, Settled, [Next]_vars, NEW g, NEW m, Kept(g, m)
  PROVE  Unbilled(g, m)' = Unbilled(g, m) \/ Updates(g)
<1> DEFINE Billed == Unbilled(g, m)' = Unbilled(g, m)
<1>1. ASSUME NEW s \in Specs, Authorize(s) PROVE Billed \/ Updates(g)
  <2>1. CASE g = s.id
    BY <1>1, <2>1 DEF Updates
  <2>2. CASE g # s.id
    BY <1>1, <2>2, AuthorizeBills
  <2>. QED  BY <2>1, <2>2
<1>2. ASSUME UNCHANGED <<charged, owed, session, seen>> PROVE Billed
  BY <1>2 DEF Unbilled
<1>3. ASSUME NEW ids \in SUBSET GrantIds, Deauthorize(ids) PROVE Billed
  BY <1>3, EndNowBills DEF Deauthorize
<1>4. ASSUME NEW d \in Devices, NEW t \in Tokens, Detach(d, t) PROVE Billed
  <2>1. Presented(grants, d, t) \subseteq Live(grants)
    BY DEF Presented
  <2>. QED  BY <1>4, <2>1, EndNowBills DEF Detach
<1>5. ~PollIdleEngine
  BY DEF PollIdleEngine, Kept
<1>6. ASSUME NEW expired \in SUBSET GrantIds, Poll(expired) PROVE Billed
  BY <1>6, PollBills
<1>7. ASSUME NEW n \in Meters, NEW k \in Nat PROVE ~DiscardDrip(n, k)
  <2>1. 1..(MinPourTicks - 1) = {}
    BY BoundsAssumption
  <2>. QED  BY <2>1 DEF DiscardDrip
<1>8. ASSUME NEW n \in Meters, NEW k \in 0..MaxBurst, MeterLoop(n, k) PROVE Billed
  <2>1. k \in Nat
    OBVIOUS
  <2>. QED  BY <1>7, <1>8, <2>1, PourRunsBills, ReportPourBills DEF MeterLoop
<1>9. ASSUME NEW n \in Meters, EndPour(n) PROVE Billed
  <2>1. 0 \in Nat
    OBVIOUS
  <2>. QED  BY <1>7, <1>9, <2>1, ReportPourBills DEF EndPour
<1>10. ASSUME \/ \E s \in Specs : RejectAuthorize(s)
              \/ \E r \in Relays : Watchdog(r)
              \/ \E r \in Manual : Switch(r)
              \/ UNCHANGED vars
       PROVE  Billed
  BY <1>2, <1>10 DEF RejectAuthorize, Watchdog, Switch, vars
<1>. HIDE DEF Billed
<1>11. Billed \/ Updates(g)
  BY <1>1, <1>3, <1>4, <1>5, <1>6, <1>8, <1>9, <1>10 DEF Next
<1>. QED  BY <1>11 DEF Billed

\* Without drips, the baseline of a tap is never ahead of its pour.
LEMMA SettledAlways == MinPourTicks <= 1 => (Spec => []Settled)
<1>. SUFFICES ASSUME MinPourTicks <= 1 PROVE Spec => []Settled
  OBVIOUS
<1>1. Init => Settled
  BY DEF Init, Settled, None
<1>2. IInv /\ Settled /\ [Next]_vars => Settled'
  BY NextSettled
<1>. QED  BY <1>1, <1>2, Invariant, PTL DEF Spec

\* Where no pour is too short to report, every tick that runs through a tap a grant
\* keeps is charged to it sooner or later, through polls, pour ends, takeovers of its
\* other taps and endings of others; only an update of the grant lets flow go.
THEOREM EveryTickChargedHolds == MinPourTicks <= 1 => (Spec => EveryTickCharged)
<1>. SUFFICES ASSUME MinPourTicks <= 1 PROVE Spec => EveryTickCharged
  OBVIOUS
<1> DEFINE Charges == \A g \in Live(grants) \cap Live(grants') : \A m \in grants[g].meters \cap grants'[g].meters :
                        Unbilled(g, m)' = Unbilled(g, m) \/ Updates(g)
<1>1. IInv /\ Settled /\ [Next]_vars => [Charges]_vars
  <2>1. SUFFICES ASSUME IInv, Settled, [Next]_vars PROVE Charges
    OBVIOUS
  <2>2. SUFFICES ASSUME NEW g \in Live(grants) \cap Live(grants'),
                        NEW m \in grants[g].meters \cap grants'[g].meters
                 PROVE  Unbilled(g, m)' = Unbilled(g, m) \/ Updates(g)
    OBVIOUS
  <2>3. grants[g] \in GrantSpec
    BY <2>1, LiveGrant DEF IInv
  <2>4. Kept(g, m)
    BY <2>3 DEF Kept, GrantSpec
  <2>. QED  BY <2>1, <2>4, NextBills
<1>. HIDE DEF Charges
<1>2. Spec => [][Charges]_vars
  BY <1>1, Invariant, SettledAlways, PTL DEF Spec
<1>. QED  BY <1>2 DEF EveryTickCharged, Charges

\* Where no pour is too short to report, a pour starts uncounted: a drip is the only
\* thing that leaves a baseline behind.
THEOREM PourStartsUncountedHolds == MinPourTicks <= 1 => (Spec => PourStartsUncounted)
<1>. SUFFICES ASSUME MinPourTicks <= 1 PROVE Spec => PourStartsUncounted
  OBVIOUS
<1> DEFINE Clean == \A m \in Meters : session[m] = 0 /\ session'[m] > 0 /\ Holders(grants, m) # {} => seen[m] = 0
<1>1. IInv /\ Settled /\ [Next]_vars => [Clean]_vars
  BY DEF IInv, VarsOK, Settled
<1>. HIDE DEF Clean
<1>2. Spec => [][Clean]_vars
  BY <1>1, Invariant, SettledAlways, PTL DEF Spec
<1>. QED  BY <1>2 DEF PourStartsUncounted, Clean

-----------------------------------------------------------------------------
(* Flow ends the grant it takes to its limit *)

\* A grant that a flow does not trip is not touched by it, or has volume left.
LEMMA Untripped ==
  ASSUME IInv, NEW delta \in [Meters -> Nat], NEW g \in Live(grants), g \notin Tripped(delta)
  PROVE  Recorded(delta)[g] = charged[g] \/ ~Exhausted(grants[g], Recorded(delta)[g])
<1>1. g \in GrantIds /\ charged[g] \in [Meters -> Nat]
  BY DEF Live, IInv, VarsOK
<1>2. CASE \E m \in grants[g].meters : delta[m] > 0
  BY <1>2 DEF Tripped
<1>3. CASE ~\E m \in grants[g].meters : delta[m] > 0
  <2>1. grants[g].meters \subseteq Meters
    BY LiveGrant DEF IInv, GrantSpec
  <2>2. \A m \in Meters : g \in Holders(grants, m) => delta[m] = 0
    BY <1>3, <2>1 DEF Holders
  <2>3. Recorded(delta)[g] = [m \in Meters |-> charged[g][m] + IF g \in Holders(grants, m) THEN delta[m] ELSE 0]
    BY <1>1 DEF Recorded
  <2>4. \A m \in Meters : charged[g][m] + (IF g \in Holders(grants, m) THEN delta[m] ELSE 0) = charged[g][m]
    BY <1>1, <2>2
  <2>5. Recorded(delta)[g] = [m \in Meters |-> charged[g][m]]
    BY <2>3, <2>4
  <2>. QED  BY <1>1, <2>5
<1>. QED  BY <1>2, <1>3

\* A grant is charged by an authorize neither when it is updated nor when it loses
\* some meters.
LEMMA AuthorizeCharges ==
  ASSUME IInv, NEW s \in Specs, Authorize(s), NEW g \in Live(grants) \cap Live(grants')
  PROVE  charged'[g] = charged[g]
<1> DEFINE gone == Displaced(grants, s)
           released == UNION {[x \in Losers(grants, s) |-> Lost(grants, s, x)][h] : h \in Losers(grants, s)}
<1>1. s \in GrantSpec /\ s.id \in GrantIds
  BY AcceptableSpec DEF Authorize
<1>2. Live(grants') = (Live(grants) \ gone) \cup {s.id}
  BY <1>1, AuthorizedTable DEF IInv, Authorize
<1>3. g \in GrantIds /\ g \notin gone
  BY <1>2 DEF Live, Displaced
<1>4. charged[g] \in [Meters -> Nat] /\ session \in [Meters -> Nat]
  BY <1>3 DEF IInv, VarsOK
<1>5. charged' = [Cleared(charged, gone) EXCEPT ![s.id] =
                    [m \in Meters |-> @[m] + IF m \in s.meters THEN PourTail(session, released, m) ELSE 0]]
  BY DEF Authorize
<1>. HIDE DEF gone, released
<1>6. Cleared(charged, gone)[g] = charged[g]
  BY <1>3 DEF Cleared
<1>7. CASE g # s.id
  BY <1>3, <1>5, <1>6, <1>7 DEF Cleared
<1>8. CASE g = s.id
  <2>1. \A m \in Meters : PourTail(session, released, m) = 0
    BY <1>4 DEF PourTail, Baseline
  <2>2. charged'[g] = [m \in Meters |-> charged[g][m] + IF m \in s.meters THEN PourTail(session, released, m) ELSE 0]
    BY <1>3, <1>5, <1>6, <1>8 DEF Cleared
  <2>3. charged'[g] = [m \in Meters |-> charged[g][m]]
    BY <1>4, <2>1, <2>2
  <2>. QED  BY <1>4, <2>3
<1>. QED  BY <1>7, <1>8

\* What a step does to the account of a grant it keeps: nothing, or it leaves volume.
LEMMA NextSpends ==
  ASSUME IInv, [Next]_vars, NEW g \in Live(grants) \cap Live(grants')
  PROVE  charged'[g] = charged[g] \/ ~Exhausted(grants'[g], charged'[g])
<1> DEFINE Same == charged'[g] = charged[g]
           Open == ~Exhausted(grants'[g], charged'[g])
<1>1. ASSUME NEW G, G \subseteq Live(grants), EndGrants(G, session, seen, drinkers, charged, owed) PROVE Same
  <2>1. Spared(G, session, seen, charged, owed)
    BY <1>1, OthersSpared
  <2>. QED  BY <2>1 DEF Spared
<1>2. ASSUME NEW delta \in [Meters -> Nat], NEW G, G \subseteq Live(grants), Tripped(delta) \subseteq G,
             NEW sess, NEW base, NEW ran, EndGrants(G, sess, base, drinkers, Recorded(delta), ran)
      PROVE  Same \/ Open
  <2>1. Spared(G, sess, base, Recorded(delta), ran)
    BY <1>2, OthersSpared
  <2>2. g \notin G /\ grants'[g] = grants[g] /\ charged'[g] = Recorded(delta)[g]
    BY <2>1 DEF Spared
  <2>3. Recorded(delta)[g] = charged[g] \/ ~Exhausted(grants[g], Recorded(delta)[g])
    BY <1>2, <2>2, Untripped
  <2>. QED  BY <2>2, <2>3
<1>3. ASSUME NEW expired \in SUBSET GrantIds, Poll(expired) PROVE Same \/ Open
  <2> DEFINE base  == [m \in Meters |-> IF session[m] = 0 THEN 0 ELSE seen[m]]
             delta == Unseen(base)
             after == [m \in Meters |-> base[m] + delta[m]]
             G     == Tripped(delta) \cup expired
  <2>1. /\ G \subseteq Live(grants) /\ Tripped(delta) \subseteq G
        /\ EndGrants(G, session, after, drinkers, Recorded(delta), owed)
    BY <1>3 DEF Poll, Tripped
  <2>2. delta \in [Meters -> Nat]
    BY PollRecords
  <2>. HIDE DEF base, delta, after, G
  <2>. QED  BY <1>2, <2>1, <2>2
<1>4. ASSUME NEW n \in Meters, NEW k \in Nat, ReportPour(n, k) PROVE Same \/ Open
  <2> DEFINE ticks == session[n] + k
             idle  == [session EXCEPT ![n] = 0]
             delta == [None EXCEPT ![n] = IF ticks > seen[n] THEN ticks - seen[n] ELSE 0]
             base  == Reset(seen, n)
             G     == Tripped(delta)
  <2>1. /\ G \subseteq Live(grants) /\ Tripped(delta) \subseteq G
        /\ EndGrants(G, idle, base, drinkers, Recorded(delta), Ran(n, k))
    BY <1>4 DEF ReportPour, Tripped
  <2>2. ticks \in Nat /\ seen[n] \in Nat
    BY DEF IInv, VarsOK
  <2>3. None \in [Meters -> Nat]
    BY DEF None
  <2>4. delta \in [Meters -> Nat]
    <3>. HIDE DEF ticks
    <3>. QED  BY <2>2, <2>3
  <2>. HIDE DEF idle, delta, base, G
  <2> DEFINE ran == Ran(n, k)
  <2>5. EndGrants(G, idle, base, drinkers, Recorded(delta), ran)
    BY <2>1
  <2>. HIDE DEF ran
  <2>. QED  BY <1>2, <2>1, <2>4, <2>5
<1>5. ASSUME NEW ids \in SUBSET GrantIds, Deauthorize(ids) PROVE Same
  BY <1>1, <1>5 DEF Deauthorize
<1>6. ASSUME NEW d \in Devices, NEW t \in Tokens, Detach(d, t) PROVE Same
  <2>1. Presented(grants, d, t) \subseteq Live(grants)
    BY DEF Presented
  <2>. QED  BY <1>1, <1>6, <2>1 DEF Detach
<1>7. ASSUME NEW n \in Meters, NEW k \in 0..MaxBurst, MeterLoop(n, k) PROVE Same \/ Open
  <2>1. k \in Nat
    OBVIOUS
  <2>. QED  BY <1>4, <1>7, <2>1 DEF MeterLoop, PourRuns, DiscardDrip
<1>8. ASSUME NEW n \in Meters, EndPour(n) PROVE Same \/ Open
  <2>1. 0 \in Nat
    OBVIOUS
  <2>. QED  BY <1>4, <1>8, <2>1 DEF EndPour, DiscardDrip
<1>9. ASSUME \/ \E s \in Specs : RejectAuthorize(s)
             \/ PollIdleEngine
             \/ \E r \in Relays : Watchdog(r)
             \/ \E r \in Manual : Switch(r)
             \/ UNCHANGED vars
      PROVE  Same
  BY <1>9 DEF RejectAuthorize, PollIdleEngine, Watchdog, Switch, vars
<1>10. ASSUME NEW s \in Specs, Authorize(s) PROVE Same
  BY <1>10, AuthorizeCharges
<1>. HIDE DEF Same, Open
<1>11. Same \/ Open
  BY <1>3, <1>5, <1>6, <1>7, <1>8, <1>9, <1>10 DEF Next
<1>. QED  BY <1>11 DEF Same, Open

\* A grant that flow takes to its volume limit, on one tap or summed over several, is
\* ended in that very step: what is left of it after a charge is below the limit.
THEOREM FlowEndsExhaustedHolds == Spec => FlowEndsExhausted
<1> DEFINE Spends == \A g \in Live(grants) \cap Live(grants') :
                       PouredMl(charged'[g]) > PouredMl(charged[g]) => ~Exhausted(grants'[g], charged'[g])
<1>1. IInv /\ [Next]_vars => [Spends]_vars
  <2>1. SUFFICES ASSUME IInv, [Next]_vars, NEW g \in Live(grants) \cap Live(grants'),
                        PouredMl(charged'[g]) > PouredMl(charged[g])
                 PROVE  ~Exhausted(grants'[g], charged'[g])
    OBVIOUS
  <2>2. g \in GrantIds /\ charged[g] \in [Meters -> Nat]
    BY <2>1 DEF Live, IInv, VarsOK
  <2>3. PouredMl(charged[g]) \in Nat
    BY <2>2, MetersAssumption, SumIsNatural DEF PouredMl
  <2>4. charged'[g] # charged[g]
    BY <2>1, <2>3
  <2>. QED  BY <2>1, <2>4, NextSpends
<1>. HIDE DEF Spends
<1>2. Spec => [][Spends]_vars
  BY <1>1, Invariant, PTL DEF Spec
<1>. QED  BY <1>2 DEF FlowEndsExhausted, Spends

-----------------------------------------------------------------------------
(* Finite sets and sequences in order *)

\* A finite set in some order
LEMMA Ordered ==
  ASSUME NEW S, IsFiniteSet(S)
  PROVE  /\ Cardinality(S) \in Nat
         /\ SetToSeq(S) \in [1..Cardinality(S) -> S]
         /\ \A i, j \in 1..Cardinality(S) : SetToSeq(S)[i] = SetToSeq(S)[j] => i = j
         /\ \A x \in S : \E i \in 1..Cardinality(S) : SetToSeq(S)[i] = x
<1> DEFINE n == Cardinality(S)
<1>1. n \in Nat /\ ExistsBijection(1..n, S)
  BY FS_CardinalityType
<1>2. IsFiniteSet(1..n) /\ Cardinality(1..n) = n
  BY <1>1, FS_Interval
<1>. HIDE DEF n
<1>3. \E f \in [1..n -> S] : IsInjective(f)
  BY <1>1 DEF ExistsBijection, Bijection, Injection
<1>4. SetToSeq(S) \in [1..n -> S] /\ IsInjective(SetToSeq(S))
  BY <1>3 DEF SetToSeq, n
<1>5. SetToSeq(S) \in Injection(1..n, S)
  BY <1>4 DEF Injection
<1>6. SetToSeq(S) \in Surjection(1..n, S)
  BY <1>2, <1>5, FS_Injection DEF n
<1>7. DOMAIN SetToSeq(S) = 1..n
  BY <1>4
<1>8. \A i, j \in 1..n : SetToSeq(S)[i] = SetToSeq(S)[j] => i = j
  BY <1>4, <1>7 DEF IsInjective
<1>9. \A x \in S : \E i \in 1..n : SetToSeq(S)[i] = x
  BY <1>6 DEF Surjection
<1>. QED  BY <1>1, <1>4, <1>8, <1>9 DEF n

\* The pairs of a number and a larger one
Below == {p \in Nat \X Nat : p[1] < p[2]}

\* Every set of numbers has a least one.
LEMMA BelowWellFounded == IsWellFoundedOn(Below, Nat)
<1>1. OpToRel(<, Nat) = Below
  BY DEF OpToRel, Below
<1>. QED  BY <1>1, NatLessThanWellFounded, Zenon

\* A set that has 0, and the successor of each of its numbers, has every number.
LEMMA SetInduction ==
  ASSUME NEW S \in SUBSET Nat, 0 \in S, \A n \in S : n + 1 \in S
  PROVE  S = Nat
<1> DEFINE T == Nat \ S
<1>1. SUFFICES ASSUME T # {} PROVE FALSE
  OBVIOUS
<1>2. PICK x \in T : \A y \in T : <<y, x>> \notin Below
  BY <1>1, BelowWellFounded, WFMin, Zenon
<1>3. x # 0 /\ x - 1 \in Nat
  OBVIOUS
<1>4. <<x - 1, x>> \in Below
  BY <1>3 DEF Below
<1>5. x - 1 \in S
  BY <1>2, <1>3, <1>4
<1>. QED  BY <1>3, <1>5

\* f joins the first of the sequences in seqs, for every number of them up to n.
Joins(f, seqs, n) == f = [i \in 1..n |-> IF i = 1 THEN seqs[i] ELSE f[i - 1] \o seqs[i]]

\* Some function joins them.
LEMMA JoinsExist ==
  ASSUME NEW seqs, NEW n \in Nat
  PROVE  \E f : Joins(f, seqs, n)
<1> DEFINE S == {k \in Nat : \E f : Joins(f, seqs, k)}
<1>1. 0 \in S
  <2> DEFINE f == [i \in 1..0 |-> <<>>]
  <2>1. f = [i \in 1..0 |-> IF i = 1 THEN seqs[i] ELSE f[i - 1] \o seqs[i]]
    OBVIOUS
  <2>. HIDE DEF f
  <2>2. Joins(f, seqs, 0)
    BY <2>1 DEF Joins
  <2>. QED  BY <2>2
<1>2. ASSUME NEW k \in S PROVE k + 1 \in S
  <2>1. PICK f : Joins(f, seqs, k)
    OBVIOUS
  <2> DEFINE last == IF k + 1 = 1 THEN seqs[k + 1] ELSE f[k] \o seqs[k + 1]
             h == [i \in 1..(k + 1) |-> IF i = k + 1 THEN last ELSE f[i]]
  <2>2. ASSUME NEW i \in 1..(k + 1)
        PROVE  h[i] = IF i = 1 THEN seqs[i] ELSE h[i - 1] \o seqs[i]
    <3>1. CASE i = k + 1
      <4>1. i # 1 => h[i - 1] = f[k]
        BY <3>1
      <4>2. h[i] = last
        BY <3>1
      <4>. HIDE DEF h
      <4>. QED  BY <3>1, <4>1, <4>2
    <3>2. CASE i # k + 1
      <4>1. i \in 1..k /\ h[i] = f[i] /\ (i # 1 => i - 1 \in 1..k /\ h[i - 1] = f[i - 1])
        BY <3>2
      <4>. HIDE DEF h, last
      <4>2. f[i] = IF i = 1 THEN seqs[i] ELSE f[i - 1] \o seqs[i]
        BY <2>1, <4>1 DEF Joins
      <4>. QED  BY <4>1, <4>2
    <3>. QED  BY <3>1, <3>2
  <2>3. h = [i \in 1..(k + 1) |-> h[i]]
    OBVIOUS
  <2>. HIDE DEF h
  <2>4. Joins(h, seqs, k + 1)
    BY <2>2, <2>3 DEF Joins
  <2>. QED  BY <2>4
<1>3. S \in SUBSET Nat
  OBVIOUS
<1>4. S = Nat
  <2>. HIDE DEF S
  <2>. QED  BY <1>1, <1>2, <1>3, SetInduction
<1>. QED  BY <1>4

\* What the engine queues
Event == {PourEvent(m) : m \in Meters} \cup {GrantEndEvent(g, R) : g \in GrantIds, R \in SUBSET Meters}

\* Sequences of events are joined one by one.
LEMMA JoinedInSteps ==
  ASSUME NEW n \in Nat \ {0}, NEW seqs, seqs \in [1..n -> Seq(Event)]
  PROVE  \E f : /\ f[1] = seqs[1] /\ f[n] = FlattenSeq(seqs)
                /\ \A k \in 1..(n - 1) : f[k + 1] = f[k] \o seqs[k + 1]
<1> DEFINE f == CHOOSE f : Joins(f, seqs, n)
<1>1. Joins(f, seqs, n)
  BY JoinsExist
<1>2. seqs \in Seq(Seq(Event)) /\ Len(seqs) = n
  OBVIOUS
<1>3. FlattenSeq(seqs) = f[n]
  BY <1>2 DEF FlattenSeq, Joins
<1>. HIDE DEF f
<1>4. f[1] = seqs[1]
  BY <1>1 DEF Joins
<1>5. ASSUME NEW k \in 1..(n - 1) PROVE f[k + 1] = f[k] \o seqs[k + 1]
  <2>1. k + 1 \in 1..n /\ k + 1 # 1 /\ (k + 1) - 1 = k
    OBVIOUS
  <2>2. f[k + 1] = IF k + 1 = 1 THEN seqs[k + 1] ELSE f[(k + 1) - 1] \o seqs[k + 1]
    BY <1>1, <2>1 DEF Joins
  <2>. QED  BY <2>1, <2>2
<1>. QED  BY <1>3, <1>4, <1>5

-----------------------------------------------------------------------------
(* The events that endings queue *)

\* What can be read off an event
LEMMA EventsAre ==
  ASSUME NEW m, NEW g, NEW R
  PROVE  /\ PourEvent(m).type = "pour" /\ PourEvent(m).meter = m /\ PourEvent(m).auth = attr[m]
         /\ GrantEndEvent(g, R).type = "grant_end"
         /\ GrantEndEvent(g, R).grant = g /\ GrantEndEvent(g, R).meters = R
BY DEF PourEvent, GrantEndEvent

\* s tells of the endings of the grants H: one report of each, with the meters it
\* releases, after whatever it says of the pours on those meters.
Told(s, H, lost) ==
  /\ s \in Seq(Event)
  /\ \A i \in 1..Len(s) : \/ \E m \in Meters : s[i] = PourEvent(m)
                          \/ \E g \in H : s[i] = GrantEndEvent(g, lost[g])
  /\ \A g \in H : \E j \in 1..Len(s) :
       /\ s[j] = GrantEndEvent(g, lost[g])
       /\ \A i \in 1..Len(s) : s[i] = GrantEndEvent(g, lost[g]) => i = j
       /\ \A i \in 1..Len(s) : \A m \in lost[g] : s[i] = PourEvent(m) => i < j

\* The events of one ending
Ending(e, g, R) ==
  /\ e \in Seq(Event) /\ Len(e) \in Nat \ {0}
  /\ e[Len(e)] = GrantEndEvent(g, R)
  /\ \A i \in 1..(Len(e) - 1) : \E m \in R : e[i] = PourEvent(m)

\* The engine queues an ending so.
LEMMA EndingIs ==
  ASSUME NEW sess, NEW g \in GrantIds, NEW R \in SUBSET Meters
  PROVE  Ending(EndingEvents(sess, g, R), g, R)
<1> DEFINE P == {PourEvent(m) : m \in ReportedPours(sess, R)}
           p == SetToSeq(P)
           n == Cardinality(P)
           last == GrantEndEvent(g, R)
<1>1. IsFiniteSet(P)
  <2>1. IsFiniteSet(ReportedPours(sess, R))
    BY MetersAssumption, FS_Subset DEF ReportedPours
  <2> DEFINE f == [m \in ReportedPours(sess, R) |-> PourEvent(m)]
  <2>2. f \in Surjection(ReportedPours(sess, R), P)
    BY DEF Surjection
  <2>. HIDE DEF f, P
  <2>. QED  BY <2>1, <2>2, FS_Surjection
<1>2. \A x \in P : x \in Event /\ \E m \in R : x = PourEvent(m)
  BY DEF ReportedPours, Event
<1>3. last \in Event
  BY DEF Event
<1>4. EndingEvents(sess, g, R) = p \o <<last>>
  BY DEF EndingEvents
<1>. HIDE DEF P, last
<1>5. n \in Nat /\ p \in [1..n -> P]
  BY <1>1, Ordered
<1>. HIDE DEF p, n
<1>6. p \in Seq(Event) /\ Len(p) = n /\ \A i \in 1..n : p[i] \in P
  <2>1. p \in [1..n -> Event]
    BY <1>2, <1>5
  <2>. QED  BY <1>5, <2>1
<1>7. /\ p \o <<last>> \in Seq(Event) /\ Len(p \o <<last>>) = n + 1
      /\ (p \o <<last>>)[n + 1] = last
      /\ \A i \in 1..n : (p \o <<last>>)[i] = p[i]
  BY <1>3, <1>5, <1>6
<1>8. (n + 1) - 1 = n /\ n + 1 \in Nat \ {0}
  BY <1>5
<1>. QED  BY <1>2, <1>4, <1>6, <1>7, <1>8 DEF Ending, last

\* One more ending
LEMMA TellMore ==
  ASSUME NEW H, NEW lost, NEW s, Told(s, H, lost),
         NEW g, g \notin H, NEW e, Ending(e, g, lost[g]),
         lost[g] \in SUBSET Meters, \A h \in H : lost[h] \cap lost[g] = {}
  PROVE  Told(s \o e, H \cup {g}, lost)
<1> DEFINE t == s \o e
           a == Len(s)
           b == Len(e)
<1>1. /\ s \in Seq(Event) /\ e \in Seq(Event) /\ a \in Nat /\ b \in Nat \ {0}
  BY DEF Told, Ending
<1>2. /\ t \in Seq(Event) /\ Len(t) = a + b
      /\ \A i \in 1..a : t[i] = s[i]
      /\ \A i \in 1..b : t[a + i] = e[i]
  BY <1>1
<1>3. /\ e[b] = GrantEndEvent(g, lost[g])
      /\ \A i \in 1..(b - 1) : \E m \in lost[g] : e[i] = PourEvent(m)
  BY DEF Ending
<1>. HIDE DEF t, a, b
<1>4. /\ \A i \in 1..(a + b) : i \in 1..a \/ i = a + b \/ i \in (a + 1)..(a + b - 1)
      /\ \A i \in 1..a : i \in 1..(a + b) /\ i < a + b
      /\ a + b \in 1..(a + b)
      /\ \A i \in (a + 1)..(a + b - 1) : i - a \in 1..(b - 1) /\ i - a \in 1..b /\ a + (i - a) = i /\ i < a + b
      /\ b \in 1..b
  BY <1>1
<1>5. t[a + b] = GrantEndEvent(g, lost[g])
  BY <1>2, <1>3, <1>4
<1>6. \A i \in (a + 1)..(a + b - 1) : \E m \in lost[g] : t[i] = PourEvent(m)
  BY <1>2, <1>3, <1>4
<1>7. /\ \A i \in 1..a : \/ \E m \in Meters : t[i] = PourEvent(m)
                        \/ \E h \in H : t[i] = GrantEndEvent(h, lost[h])
      /\ \A h \in H : \E j \in 1..a :
           /\ t[j] = GrantEndEvent(h, lost[h])
           /\ \A i \in 1..a : t[i] = GrantEndEvent(h, lost[h]) => i = j
           /\ \A i \in 1..a : \A m \in lost[h] : t[i] = PourEvent(m) => i < j
  BY <1>2 DEF Told, a
<1>8. ASSUME NEW i \in 1..(a + b)
      PROVE  \/ \E m \in Meters : t[i] = PourEvent(m)
             \/ \E h \in H \cup {g} : t[i] = GrantEndEvent(h, lost[h])
  <2>1. CASE i \in 1..a
    BY <1>7, <2>1
  <2>2. CASE i = a + b
    BY <1>5, <2>2
  <2>3. CASE i \in (a + 1)..(a + b - 1)
    BY <1>6, <2>3
  <2>. QED  BY <1>4, <2>1, <2>2, <2>3
<1>9. ASSUME NEW h \in H
      PROVE  \E j \in 1..(a + b) :
               /\ t[j] = GrantEndEvent(h, lost[h])
               /\ \A i \in 1..(a + b) : t[i] = GrantEndEvent(h, lost[h]) => i = j
               /\ \A i \in 1..(a + b) : \A m \in lost[h] : t[i] = PourEvent(m) => i < j
  <2>1. PICK j \in 1..a :
           /\ t[j] = GrantEndEvent(h, lost[h])
           /\ \A i \in 1..a : t[i] = GrantEndEvent(h, lost[h]) => i = j
           /\ \A i \in 1..a : \A m \in lost[h] : t[i] = PourEvent(m) => i < j
    BY <1>7
  <2>2. ASSUME NEW i \in 1..(a + b), t[i] = GrantEndEvent(h, lost[h]) PROVE i = j
    <3>1. i # a + b
      BY <1>5, <2>2, EventsAre
    <3>2. i \notin (a + 1)..(a + b - 1)
      BY <1>6, <2>2, EventsAre
    <3>. QED  BY <1>4, <2>1, <2>2, <3>1, <3>2
  <2>3. ASSUME NEW i \in 1..(a + b), NEW m \in lost[h], t[i] = PourEvent(m) PROVE i < j
    <3>1. i # a + b
      BY <1>5, <2>3, EventsAre
    <3>2. i \notin (a + 1)..(a + b - 1)
      <4>1. m \notin lost[g]
        OBVIOUS
      <4>. QED  BY <1>6, <2>3, <4>1, EventsAre
    <3>. QED  BY <1>4, <2>1, <2>3, <3>1, <3>2
  <2>4. j \in 1..(a + b)
    BY <1>4
  <2>. QED  BY <2>1, <2>2, <2>3, <2>4
<1>10. /\ \A i \in 1..(a + b) : t[i] = GrantEndEvent(g, lost[g]) => i = a + b
       /\ \A i \in 1..(a + b) : \A m \in lost[g] : t[i] = PourEvent(m) => i < a + b
  <2>1. ASSUME NEW i \in 1..a PROVE t[i] # GrantEndEvent(g, lost[g])
    BY <1>7, EventsAre
  <2>2. ASSUME NEW i \in (a + 1)..(a + b - 1) PROVE t[i] # GrantEndEvent(g, lost[g])
    BY <1>6, EventsAre
  <2>3. \A m : t[a + b] # PourEvent(m)
    BY <1>5, EventsAre
  <2>. QED  BY <1>4, <2>1, <2>2, <2>3
<1>11. \A h \in H \cup {g} : \E j \in 1..(a + b) :
               /\ t[j] = GrantEndEvent(h, lost[h])
               /\ \A i \in 1..(a + b) : t[i] = GrantEndEvent(h, lost[h]) => i = j
               /\ \A i \in 1..(a + b) : \A m \in lost[h] : t[i] = PourEvent(m) => i < j
  BY <1>4, <1>5, <1>9, <1>10
<1>12. Told(t, H \cup {g}, lost)
  BY <1>2, <1>8, <1>11 DEF Told
<1>. QED  BY <1>12 DEF t

\* A handler that ends nothing says nothing.
LEMMA TellNone == ASSUME NEW lost PROVE Told(<<>>, {}, lost)
BY DEF Told

\* A pour that is reported before the endings
LEMMA TellFirst ==
  ASSUME NEW H, NEW lost, NEW s, Told(s, H, lost), NEW m \in Meters
  PROVE  Told(<<PourEvent(m)>> \o s, H, lost)
<1> DEFINE t == <<PourEvent(m)>> \o s
           a == Len(s)
<1>1. s \in Seq(Event) /\ a \in Nat /\ PourEvent(m) \in Event
  BY DEF Told, Event
<1>2. /\ t \in Seq(Event) /\ Len(t) = a + 1
      /\ t[1] = PourEvent(m)
      /\ \A i \in 1..a : t[i + 1] = s[i]
  BY <1>1
<1>3. /\ \A i \in 1..a : \/ \E n \in Meters : t[i + 1] = PourEvent(n)
                        \/ \E h \in H : t[i + 1] = GrantEndEvent(h, lost[h])
      /\ \A h \in H : \E j \in 1..a :
           /\ t[j + 1] = GrantEndEvent(h, lost[h])
           /\ \A i \in 1..a : t[i + 1] = GrantEndEvent(h, lost[h]) => i = j
           /\ \A i \in 1..a : \A n \in lost[h] : t[i + 1] = PourEvent(n) => i < j
  <2>1. /\ \A i \in 1..a : \/ \E n \in Meters : s[i] = PourEvent(n)
                           \/ \E h \in H : s[i] = GrantEndEvent(h, lost[h])
        /\ \A h \in H : \E j \in 1..a :
             /\ s[j] = GrantEndEvent(h, lost[h])
             /\ \A i \in 1..a : s[i] = GrantEndEvent(h, lost[h]) => i = j
             /\ \A i \in 1..a : \A n \in lost[h] : s[i] = PourEvent(n) => i < j
    BY DEF Told, a
  <2>. HIDE DEF t, a
  <2>2. \A i \in 1..a : \/ \E n \in Meters : t[i + 1] = PourEvent(n)
                       \/ \E h \in H : t[i + 1] = GrantEndEvent(h, lost[h])
    BY <1>2, <2>1
  <2>3. ASSUME NEW h \in H
        PROVE  \E j \in 1..a :
                 /\ t[j + 1] = GrantEndEvent(h, lost[h])
                 /\ \A i \in 1..a : t[i + 1] = GrantEndEvent(h, lost[h]) => i = j
                 /\ \A i \in 1..a : \A n \in lost[h] : t[i + 1] = PourEvent(n) => i < j
    <3>1. PICK j \in 1..a :
             /\ s[j] = GrantEndEvent(h, lost[h])
             /\ \A i \in 1..a : s[i] = GrantEndEvent(h, lost[h]) => i = j
             /\ \A i \in 1..a : \A n \in lost[h] : s[i] = PourEvent(n) => i < j
      BY <2>1
    <3>. QED  BY <1>2, <3>1
  <2>. QED  BY <2>2, <2>3
<1>. HIDE DEF t, a
<1>4. \A i \in 1..(a + 1) : i = 1 \/ (i - 1 \in 1..a /\ (i - 1) + 1 = i)
  BY <1>1
<1>5. ASSUME NEW i \in 1..(a + 1)
      PROVE  \/ \E n \in Meters : t[i] = PourEvent(n)
             \/ \E h \in H : t[i] = GrantEndEvent(h, lost[h])
  BY <1>2, <1>3, <1>4
<1>6. ASSUME NEW h \in H
      PROVE  \E j \in 1..(a + 1) :
               /\ t[j] = GrantEndEvent(h, lost[h])
               /\ \A i \in 1..(a + 1) : t[i] = GrantEndEvent(h, lost[h]) => i = j
               /\ \A i \in 1..(a + 1) : \A n \in lost[h] : t[i] = PourEvent(n) => i < j
  <2>1. PICK j \in 1..a :
           /\ t[j + 1] = GrantEndEvent(h, lost[h])
           /\ \A i \in 1..a : t[i + 1] = GrantEndEvent(h, lost[h]) => i = j
           /\ \A i \in 1..a : \A n \in lost[h] : t[i + 1] = PourEvent(n) => i < j
    BY <1>3
  <2>2. j + 1 \in 1..(a + 1) /\ j \in Nat /\ 1 < j + 1
    BY <1>1
  <2>3. ASSUME NEW i \in 1..(a + 1), t[i] = GrantEndEvent(h, lost[h]) PROVE i = j + 1
    <3>1. i # 1
      BY <1>2, <2>3, EventsAre
    <3>2. i - 1 = j
      BY <1>4, <2>1, <2>3, <3>1
    <3>. QED  BY <3>2
  <2>4. ASSUME NEW i \in 1..(a + 1), NEW n \in lost[h], t[i] = PourEvent(n) PROVE i < j + 1
    <3>1. CASE i = 1
      BY <2>2, <3>1
    <3>2. CASE i # 1
      <4>1. i - 1 < j
        BY <1>4, <2>1, <2>4, <3>2
      <4>. QED  BY <2>2, <4>1
    <3>. QED  BY <3>1, <3>2
  <2>. QED  BY <2>1, <2>2, <2>3, <2>4
<1>7. Told(t, H, lost)
  BY <1>2, <1>5, <1>6 DEF Told
<1>. QED  BY <1>7 DEF t

\* A handler that ends the grants G says so of each.
LEMMA AllTold ==
  ASSUME NEW sess, NEW G, IsFiniteSet(G), G \subseteq GrantIds, NEW lost,
         \A g \in G : lost[g] \in SUBSET Meters,
         \A g, h \in G : g # h => lost[g] \cap lost[h] = {}
  PROVE  Told(EndEvents(sess, G, lost), G, lost)
<1> DEFINE n == Cardinality(G)
           q == SetToSeq(G)
           e(i) == EndingEvents(sess, q[i], lost[q[i]])
           seqs == [i \in 1..n |-> e(i)]
<1>1. /\ n \in Nat /\ q \in [1..n -> G]
      /\ \A i, j \in 1..n : q[i] = q[j] => i = j
      /\ \A g \in G : \E i \in 1..n : q[i] = g
  BY Ordered
<1>2. EndEvents(sess, G, lost) = FlattenSeq(seqs)
  BY DEF EndEvents
<1>. HIDE DEF n, q
<1>3. \A i \in 1..n : Ending(e(i), q[i], lost[q[i]])
  <2>1. TAKE i \in 1..n
  <2>2. q[i] \in GrantIds /\ lost[q[i]] \in SUBSET Meters
    BY <1>1
  <2>. QED  BY <2>2, EndingIs
<1>4. seqs \in [1..n -> Seq(Event)] /\ \A i \in 1..n : seqs[i] = e(i)
  BY <1>3 DEF Ending
<1>. HIDE DEF seqs, e
<1>5. CASE n = 0
  <2>1. G = {}
    BY <1>1, <1>5
  <2>2. seqs = <<>>
    BY <1>4, <1>5
  <2>3. FlattenSeq(seqs) = <<>>
    BY <2>2 DEF FlattenSeq
  <2>. QED  BY <1>2, <2>1, <2>3, TellNone
<1>6. CASE n # 0
  <2>1. PICK f : /\ f[1] = seqs[1] /\ f[n] = FlattenSeq(seqs)
                 /\ \A k \in 1..(n - 1) : f[k + 1] = f[k] \o seqs[k + 1]
    <3>1. n \in Nat \ {0}
      BY <1>1, <1>6
    <3>2. seqs \in [1..n -> Seq(Event)]
      BY <1>4
    <3>. QED  BY <3>1, <3>2, JoinedInSteps
  <2> DEFINE First(k) == {q[i] : i \in 1..k}
             D == {k \in Nat : k < n => Told(f[k + 1], First(k + 1), lost)}
  <2>2. ASSUME NEW k \in Nat, k < n, NEW s, Told(s, First(k), lost)
        PROVE  Told(s \o seqs[k + 1], First(k + 1), lost)
    <3>1. k + 1 \in 1..n /\ 1..k \subseteq 1..n /\ k + 1 \notin 1..k /\ 1..(k + 1) = (1..k) \cup {k + 1}
      BY <1>1, <2>2
    <3>2. q[k + 1] \notin First(k) /\ First(k + 1) = First(k) \cup {q[k + 1]}
      BY <1>1, <3>1
    <3>3. \A h \in First(k) : lost[h] \cap lost[q[k + 1]] = {}
      BY <1>1, <3>1, <3>2
    <3>4. Ending(seqs[k + 1], q[k + 1], lost[q[k + 1]]) /\ lost[q[k + 1]] \in SUBSET Meters
      BY <1>1, <1>3, <1>4, <3>1
    <3>. HIDE DEF First
    <3>. QED  BY <2>2, <3>2, <3>3, <3>4, TellMore
  <2>3. 0 \in D
    <3>1. First(0) = {} /\ 0 + 1 = 1 /\ 0 < n
      BY <1>1, <1>6
    <3>2. Told(<<>> \o seqs[1], First(1), lost)
      BY <2>2, <3>1, TellNone
    <3>3. 1 \in 1..n
      BY <1>1, <1>6
    <3>4. <<>> \o seqs[1] = seqs[1]
      BY <1>4, <3>3
    <3>. QED  BY <2>1, <3>1, <3>2, <3>4
  <2>4. ASSUME NEW k \in D PROVE k + 1 \in D
    <3>1. SUFFICES ASSUME k + 1 < n PROVE Told(f[(k + 1) + 1], First((k + 1) + 1), lost)
      OBVIOUS
    <3>2. k \in Nat /\ k + 1 \in Nat /\ k + 1 \in 1..(n - 1) /\ k < n
      BY <1>1, <3>1
    <3>3. Told(f[k + 1], First(k + 1), lost)
      BY <3>2
    <3>4. f[(k + 1) + 1] = f[k + 1] \o seqs[(k + 1) + 1]
      BY <2>1, <3>2
    <3>. HIDE DEF First, D
    <3>. QED  BY <2>2, <3>1, <3>2, <3>3, <3>4
  <2>5. D \in SUBSET Nat
    OBVIOUS
  <2>6. D = Nat
    <3>. HIDE DEF D
    <3>. QED  BY <2>3, <2>4, <2>5, SetInduction
  <2>7. n - 1 \in Nat /\ n - 1 < n /\ (n - 1) + 1 = n
    BY <1>1, <1>6
  <2>8. Told(f[n], First(n), lost)
    BY <2>6, <2>7
  <2>9. First(n) = G
    BY <1>1
  <2>. QED  BY <1>2, <2>1, <2>8, <2>9
<1>. QED  BY <1>5, <1>6

-----------------------------------------------------------------------------
(* What a step releases, and what it tells of it *)

\* lost is what the step takes from the grants in H, and no other grant loses a meter.
Matches(H, lost) ==
  \A g \in GrantIds, m \in Meters :
    (g \in H /\ m \in lost[g]) <=> (g \in Holders(grants, m) /\ g \notin Holders(grants', m))

\* The bodies of EveryReleaseReported and PourPrecedesGrantEnd
Reports(g, m) ==
  {i \in DOMAIN out' : out'[i].type = "grant_end" /\ out'[i].grant = g /\ m \in out'[i].meters}

ReleasesReported ==
  \A g \in GrantIds, m \in Meters :
    Cardinality(Reports(g, m)) = IF g \in Holders(grants, m) /\ g \notin Holders(grants', m) THEN 1 ELSE 0

PoursPrecede ==
  \A i \in DOMAIN out' :
    out'[i].type = "pour" =>
      /\ \A g \in Holders(grants, out'[i].meter) : out'[i].auth = Attribution(grants[g])
      /\ Holders(grants, out'[i].meter) = {} => out'[i].auth = NoAuth
      /\ \A j \in DOMAIN out' : out'[j].type = "grant_end" /\ out'[j].grant = out'[i].auth.grant
                                  /\ out'[i].meter \in out'[j].meters => i < j

\* What a report is: the one of a grant in H
LEMMA ReportIs ==
  ASSUME NEW H, NEW lost, Told(out', H, lost), NEW i \in DOMAIN out'
  PROVE  /\ out'[i].type = "grant_end" => \E h \in H : out'[i] = GrantEndEvent(h, lost[h])
         /\ out'[i].type = "pour" => \E m \in Meters : out'[i] = PourEvent(m)
<1>1. i \in 1..Len(out')
  BY DEF Told
<1>2. \/ \E m \in Meters : out'[i] = PourEvent(m)
      \/ \E h \in H : out'[i] = GrantEndEvent(h, lost[h])
  BY <1>1 DEF Told
<1>. QED  BY <1>2, EventsAre

\* A step that tells of exactly what it releases reports every release once ...
LEMMA ToldIsReported ==
  ASSUME NEW H, NEW lost, Told(out', H, lost), Matches(H, lost)
  PROVE  ReleasesReported
<1>1. SUFFICES ASSUME NEW g \in GrantIds, NEW m \in Meters
               PROVE  Cardinality(Reports(g, m)) =
                        IF g \in Holders(grants, m) /\ g \notin Holders(grants', m) THEN 1 ELSE 0
  BY DEF ReleasesReported
<1>2. ASSUME NEW i \in Reports(g, m)
      PROVE  i \in DOMAIN out' /\ g \in H /\ m \in lost[g] /\ out'[i] = GrantEndEvent(g, lost[g])
  <2>1. i \in DOMAIN out' /\ out'[i].type = "grant_end" /\ out'[i].grant = g /\ m \in out'[i].meters
    BY DEF Reports
  <2>2. PICK h \in H : out'[i] = GrantEndEvent(h, lost[h])
    BY <2>1, ReportIs
  <2>3. h = g /\ m \in lost[h]
    BY <2>1, <2>2, EventsAre
  <2>. QED  BY <2>1, <2>2, <2>3
<1>3. CASE g \in H /\ m \in lost[g]
  <2>1. DOMAIN out' = 1..Len(out')
    BY DEF Told
  <2>2. PICK j \in 1..Len(out') :
           /\ out'[j] = GrantEndEvent(g, lost[g])
           /\ \A i \in 1..Len(out') : out'[i] = GrantEndEvent(g, lost[g]) => i = j
    BY <1>3 DEF Told
  <2>3. j \in Reports(g, m)
    BY <1>3, <2>1, <2>2, EventsAre DEF Reports
  <2>4. Reports(g, m) = {j}
    BY <1>2, <2>1, <2>2, <2>3
  <2>5. Cardinality(Reports(g, m)) = 1
    BY <2>4, FS_Singleton, Zenon
  <2>. QED  BY <1>3, <2>5 DEF Matches
<1>4. CASE ~(g \in H /\ m \in lost[g])
  <2>1. Reports(g, m) = {}
    BY <1>2, <1>4
  <2>2. Cardinality(Reports(g, m)) = 0
    BY <2>1, FS_EmptySet, Zenon
  <2>. QED  BY <1>4, <2>2 DEF Matches
<1>. QED  BY <1>3, <1>4

\* ... and the pours on a released meter before it, under the presentment they ran under.
LEMMA ToldInOrder ==
  ASSUME IInv, NEW H, NEW lost, Told(out', H, lost)
  PROVE  PoursPrecede
<1>1. SUFFICES ASSUME NEW i \in DOMAIN out', out'[i].type = "pour"
               PROVE  /\ \A g \in Holders(grants, out'[i].meter) : out'[i].auth = Attribution(grants[g])
                      /\ Holders(grants, out'[i].meter) = {} => out'[i].auth = NoAuth
                      /\ \A j \in DOMAIN out' :
                           out'[j].type = "grant_end" /\ out'[i].meter \in out'[j].meters => i < j
  BY DEF PoursPrecede
<1>2. PICK m \in Meters : out'[i] = PourEvent(m)
  BY <1>1, ReportIs
<1>3. out'[i].meter = m /\ out'[i].auth = attr[m]
  BY <1>2, EventsAre
<1>4. DOMAIN out' = 1..Len(out')
  BY DEF Told
<1>5. ASSUME NEW j \in DOMAIN out', out'[j].type = "grant_end", m \in out'[j].meters PROVE i < j
  <2>1. PICK h \in H : out'[j] = GrantEndEvent(h, lost[h])
    BY <1>5, ReportIs
  <2>2. m \in lost[h]
    BY <1>5, <2>1, EventsAre
  <2>3. PICK l \in 1..Len(out') :
           /\ \A n \in 1..Len(out') : out'[n] = GrantEndEvent(h, lost[h]) => n = l
           /\ \A n \in 1..Len(out') : \A x \in lost[h] : out'[n] = PourEvent(x) => n < l
    BY DEF Told
  <2>4. j = l
    BY <1>4, <2>1, <2>3
  <2>5. i < l
    BY <1>2, <1>4, <2>2, <2>3
  <2>. QED  BY <2>4, <2>5
<1>6. /\ \A g \in Holders(grants, m) : attr[m] = Attribution(grants[g])
      /\ Holders(grants, m) = {} => attr[m] = NoAuth
  BY DEF IInv, AttributionFollowsGrants
<1>. QED  BY <1>3, <1>5, <1>6

-----------------------------------------------------------------------------
(* Every handler tells of what it releases *)

\* Grants that end as a whole
LEMMA WholeEndsTold ==
  ASSUME IInv, IsFiniteSet(Live(grants)), NEW G, G \subseteq Live(grants), NEW sess,
         grants' = Ended(grants, G)
  PROVE  \E lost : Told(WholeEndEvents(G, sess), G, lost) /\ Matches(G, lost)
<1> DEFINE lost == [g \in G |-> grants[g].meters]
<1>1. IsFiniteSet(G) /\ G \subseteq GrantIds
  BY FS_Subset DEF Live
<1>2. \A g \in G : lost[g] = grants[g].meters /\ lost[g] \in SUBSET Meters
  BY LiveGrant DEF IInv, GrantSpec
<1>3. \A g, h \in G : g # h => lost[g] \cap lost[h] = {}
  BY <1>2 DEF IInv, TableOK
<1>4. WholeEndEvents(G, sess) = EndEvents(sess, G, lost)
  BY DEF WholeEndEvents
<1>5. \A m : Holders(grants', m) = Holders(grants, m) \ G
  BY EndedTable DEF IInv
<1>. HIDE DEF lost
<1>6. Told(WholeEndEvents(G, sess), G, lost)
  BY <1>1, <1>2, <1>3, <1>4, AllTold
<1>7. Matches(G, lost)
  BY <1>2, <1>5 DEF Matches, Holders
<1>. QED  BY <1>6, <1>7

\* A spec that takes meters from others, or sheds its own
LEMMA AuthorizeTold ==
  ASSUME IInv, IsFiniteSet(Live(grants)), NEW s \in Specs, Authorize(s)
  PROVE  \E H, lost : Told(out', H, lost) /\ Matches(H, lost)
<1> DEFINE G    == Losers(grants, s)
           lost == [g \in G |-> Lost(grants, s, g)]
<1>1. s \in GrantSpec /\ TableOK(grants)
  BY AcceptableSpec DEF Authorize, IInv
<1>2. out' = EndEvents(session, G, lost)
  BY DEF Authorize
<1>3. IsFiniteSet(G) /\ G \subseteq Live(grants) /\ G \subseteq GrantIds
  <2>1. G \subseteq Live(grants) /\ G \subseteq GrantIds
    BY DEF Losers, Live
  <2>. QED  BY <2>1, FS_Subset
<1>4. \A g \in Live(grants) :
        /\ Lost(grants, s, g) \subseteq grants[g].meters /\ grants[g].meters \subseteq Meters
        /\ \A m : m \in Lost(grants, s, g) <=> m \in grants[g].meters /\ ((g = s.id) <=> m \notin s.meters)
  BY <1>1, LiveGrant DEF Lost, GrantSpec
<1>5. \A g \in G : lost[g] = Lost(grants, s, g) /\ lost[g] \in SUBSET Meters
  BY <1>3, <1>4
<1>6. \A g, h \in G : g # h => lost[g] \cap lost[h] = {}
  <2>1. \A g, h \in Live(grants) : g # h => grants[g].meters \cap grants[h].meters = {}
    BY <1>1 DEF TableOK
  <2>. QED  BY <1>3, <1>4, <1>5, <2>1
<1>7. \A g \in GrantIds : \A m : g \in G /\ m \in lost[g] <=> g \in Live(grants) /\ m \in Lost(grants, s, g)
  BY <1>3, <1>5 DEF Losers
<1>. HIDE DEF lost, G
<1>8. Told(out', G, lost)
  BY <1>2, <1>3, <1>5, <1>6, AllTold
<1>9. \A m : Holders(grants', m) = IF m \in s.meters THEN {s.id} ELSE Holders(grants, m) \ {s.id}
  BY <1>1, AuthorizedTable DEF Authorize
<1>10. Matches(G, lost)
  BY <1>4, <1>7, <1>9 DEF Matches, Holders
<1>. QED  BY <1>8, <1>10

\* A pour's end is reported before the endings it brings about.
LEMMA ReportPourTold ==
  ASSUME IInv, IsFiniteSet(Live(grants)), NEW n \in Meters, NEW k, ReportPour(n, k)
  PROVE  \E H, lost : Told(out', H, lost) /\ Matches(H, lost)
<1> DEFINE ticks == session[n] + k
           idle  == [session EXCEPT ![n] = 0]
           delta == [None EXCEPT ![n] = IF ticks > seen[n] THEN ticks - seen[n] ELSE 0]
           G     == Tripped(delta)
<1>1. /\ G \subseteq Live(grants) /\ grants' = Ended(grants, G)
      /\ out' = <<PourEvent(n)>> \o WholeEndEvents(G, idle)
  BY DEF ReportPour, Tripped, EndGrants
<1>. HIDE DEF idle, G
<1>2. PICK lost : Told(WholeEndEvents(G, idle), G, lost) /\ Matches(G, lost)
  BY <1>1, WholeEndsTold
<1>3. Told(out', G, lost)
  BY <1>1, <1>2, TellFirst
<1>. QED  BY <1>2, <1>3

\* Whatever the step, some grants lose some meters, and the queue tells of just those.
LEMMA NextTells ==
  ASSUME IInv, IsFiniteSet(Live(grants)), Next
  PROVE  \E H, lost : Told(out', H, lost) /\ Matches(H, lost)
<1> DEFINE Tells == \E H, lost : Told(out', H, lost) /\ Matches(H, lost)
<1>1. ASSUME NEW G, G \subseteq Live(grants), NEW sess, grants' = Ended(grants, G),
             out' = WholeEndEvents(G, sess)
      PROVE  Tells
  BY <1>1, WholeEndsTold
<1>2. ASSUME out' = <<>>, grants' = grants PROVE Tells
  <2> DEFINE lost == [g \in {} |-> {}]
  <2>1. Told(out', {}, lost)
    BY <1>2, TellNone
  <2>2. Matches({}, lost)
    BY <1>2 DEF Matches
  <2>. QED  BY <2>1, <2>2
<1>3. ASSUME NEW s \in Specs, Authorize(s) PROVE Tells
  BY <1>3, AuthorizeTold
<1>4. ASSUME NEW n \in Meters, NEW k, ReportPour(n, k) PROVE Tells
  BY <1>4, ReportPourTold
<1>. HIDE DEF Tells
<1>5. ASSUME NEW ids \in SUBSET GrantIds, Deauthorize(ids) PROVE Tells
  BY <1>1, <1>5 DEF Deauthorize, EndGrants
<1>6. ASSUME NEW d \in Devices, NEW t \in Tokens, Detach(d, t) PROVE Tells
  <2>1. Presented(grants, d, t) \subseteq Live(grants)
    BY DEF Presented
  <2>. QED  BY <1>1, <1>6, <2>1 DEF Detach, EndGrants
<1>7. ASSUME NEW expired \in SUBSET GrantIds, Poll(expired) PROVE Tells
  <2> DEFINE base  == [m \in Meters |-> IF session[m] = 0 THEN 0 ELSE seen[m]]
             G     == Tripped(Unseen(base)) \cup expired
  <2>1. G \subseteq Live(grants) /\ grants' = Ended(grants, G) /\ out' = WholeEndEvents(G, session)
    BY <1>7 DEF Poll, Tripped, EndGrants
  <2>. HIDE DEF G
  <2>. QED  BY <1>1, <2>1
<1>8. ASSUME NEW n \in Meters, NEW k \in 0..MaxBurst, MeterLoop(n, k) PROVE Tells
  BY <1>2, <1>4, <1>8 DEF MeterLoop, PourRuns, DiscardDrip
<1>9. ASSUME NEW n \in Meters, EndPour(n) PROVE Tells
  BY <1>2, <1>4, <1>9 DEF EndPour, DiscardDrip
<1>10. ASSUME \/ \E s \in Specs : RejectAuthorize(s)
              \/ PollIdleEngine
              \/ \E r \in Relays : Watchdog(r)
              \/ \E r \in Manual : Switch(r)
       PROVE  Tells
  BY <1>2, <1>10 DEF RejectAuthorize, PollIdleEngine, Watchdog, Switch
<1>11. Tells
  BY <1>3, <1>5, <1>6, <1>7, <1>8, <1>9, <1>10 DEF Next
<1>. QED  BY <1>11 DEF Tells

-----------------------------------------------------------------------------
(* The table is finite, whatever ids servers draw from *)

\* A step adds at most one grant.
LEMMA NextAdds ==
  ASSUME IInv, [Next]_vars
  PROVE  \E x : Live(grants') \subseteq Live(grants) \cup {x}
<1> DEFINE Adds == \E x : Live(grants') \subseteq Live(grants) \cup {x}
<1>1. ASSUME NEW G, grants' = Ended(grants, G) PROVE Adds
  BY <1>1, EndedTable DEF IInv
<1>2. ASSUME grants' = grants PROVE Adds
  BY <1>2
<1>3. ASSUME NEW s \in Specs, Authorize(s) PROVE Adds
  <2>1. s \in GrantSpec
    BY <1>3, AcceptableSpec DEF Authorize
  <2>2. Live(grants') = (Live(grants) \ Displaced(grants, s)) \cup {s.id}
    BY <1>3, <2>1, AuthorizedTable DEF Authorize, IInv
  <2>. QED  BY <2>2
<1>. HIDE DEF Adds
<1>4. ASSUME NEW n, NEW k, ReportPour(n, k) PROVE Adds
  BY <1>1, <1>4 DEF ReportPour, EndGrants
<1>5. ASSUME NEW n, NEW k, MeterLoop(n, k) PROVE Adds
  BY <1>2, <1>4, <1>5, Zenon DEF MeterLoop, PourRuns, DiscardDrip
<1>6. ASSUME NEW n, EndPour(n) PROVE Adds
  BY <1>2, <1>4, <1>6 DEF EndPour, DiscardDrip
<1>7. ASSUME NEW ids, Deauthorize(ids) PROVE Adds
  BY <1>1, <1>7 DEF Deauthorize, EndGrants
<1>8. ASSUME NEW d, NEW t, Detach(d, t) PROVE Adds
  BY <1>1, <1>8 DEF Detach, EndGrants
<1>9. ASSUME NEW expired, Poll(expired) PROVE Adds
  BY <1>1, <1>9 DEF Poll, EndGrants
<1>10. ASSUME \/ \E s \in Specs : RejectAuthorize(s)
              \/ PollIdleEngine
              \/ \E r \in Relays : Watchdog(r)
              \/ \E r \in Manual : Switch(r)
              \/ UNCHANGED vars
       PROVE  Adds
  BY <1>2, <1>10 DEF RejectAuthorize, PollIdleEngine, Watchdog, Switch, vars
<1>11. Adds
  BY <1>3, <1>5, <1>6, <1>7, <1>8, <1>9, <1>10 DEF Next
<1>. QED  BY <1>11 DEF Adds

\* The ids come from any set, but there are finitely many grants at a time.
LiveIsFinite == IsFiniteSet(Live(grants))

\* That is so in every state.
LEMMA FiniteAlways == Spec => []LiveIsFinite
<1>1. Init => LiveIsFinite
  <2>1. Init => Live(grants) = {}
    BY DEF Init, Live
  <2>. QED  BY <2>1, FS_EmptySet DEF LiveIsFinite
<1>2. IInv /\ LiveIsFinite /\ [Next]_vars => LiveIsFinite'
  <2>1. SUFFICES ASSUME IInv, LiveIsFinite, [Next]_vars PROVE IsFiniteSet(Live(grants'))
    BY DEF LiveIsFinite
  <2>2. PICK x : Live(grants') \subseteq Live(grants) \cup {x}
    BY <2>1, NextAdds
  <2>3. IsFiniteSet(Live(grants) \cup {x})
    BY <2>1, FS_AddElement DEF LiveIsFinite
  <2>. QED  BY <2>2, <2>3, FS_Subset
<1>. QED  BY <1>1, <1>2, Invariant, PTL DEF Spec

\* Every meter that a grant loses - to a takeover, a shed scope, a removed token, a limit
\* or a command - is reported by exactly one grant_end of that very step, and no grant_end
\* names a meter that its grant keeps.
THEOREM EveryReleaseReportedHolds == Spec => EveryReleaseReported
<1> DEFINE Once ==
      \A g \in GrantIds, m \in Meters :
        LET reports == {i \in DOMAIN out' : /\ out'[i].type = "grant_end"
                                            /\ out'[i].grant = g /\ m \in out'[i].meters}
        IN Cardinality(reports) = IF g \in Holders(grants, m) /\ g \notin Holders(grants', m) THEN 1 ELSE 0
<1>1. IInv /\ LiveIsFinite /\ [Next]_vars => [Once]_vars
  <2>1. ReleasesReported => Once
    BY DEF ReleasesReported, Reports
  <2>. HIDE DEF Once
  <2>. QED  BY <2>1, NextTells, ToldIsReported DEF LiveIsFinite
<1>. HIDE DEF Once
<1>2. Spec => [][Once]_vars
  BY <1>1, Invariant, FiniteAlways, PTL DEF Spec
<1>. QED  BY <1>2, PTL DEF EveryReleaseReported, Once

\* No pour is reported after the grant_end that releases its meter, and every pour is
\* reported under the presentment of the grant that held its meter, or under none.
THEOREM PourPrecedesGrantEndHolds == Spec => PourPrecedesGrantEnd
<1>1. IInv /\ LiveIsFinite /\ [Next]_vars => [PoursPrecede]_vars
  BY NextTells, ToldInOrder DEF LiveIsFinite
<1>2. Spec => [][PoursPrecede]_vars
  BY <1>1, Invariant, FiniteAlways, PTL DEF Spec
<1>. QED  BY <1>2 DEF PourPrecedesGrantEnd, PoursPrecede

-----------------------------------------------------------------------------
(* AuthEngine implements Taps: initial states map to initial states, and   *)
(* every step maps to a step of Taps or to a stutter.                      *)

\* The attribution of a meter names the grant that covers it.
LEMMA HolderCovers ==
  ASSUME IInv, NEW m \in Meters
  PROVE  /\ Holders(grants, m) = {} => HolderOf(m) = NoGrant
         /\ \A g \in Holders(grants, m) : HolderOf(m) = g
         /\ \A g \in GrantIds : g \in Holders(grants, m) <=> HolderOf(m) = g
<1>1. /\ \A g \in Holders(grants, m) : attr[m] = Attribution(grants[g])
      /\ Holders(grants, m) = {} => attr[m] = NoAuth
  BY DEF IInv, AttributionFollowsGrants
<1>2. Holders(grants, m) = {} => HolderOf(m) = NoGrant
  BY <1>1 DEF NoAuth, HolderOf
<1>3. \A g \in Holders(grants, m) : HolderOf(m) = g
  <2>1. TAKE g \in Holders(grants, m)
  <2>2. grants[g].id = g
    BY DEF Holders, IInv, TableOK
  <2>3. attr[m] = Attribution(grants[g])
    BY <1>1
  <2>. QED  BY <2>2, <2>3 DEF Attribution, HolderOf
<1>. QED  BY <1>2, <1>3, NoGrantIsNotAnId

\* The meters the ending of G releases are those whose holder is in G.
LEMMA ReleasedAreHeld ==
  ASSUME IInv, NEW G, G \subseteq Live(grants), NEW m \in Meters
  PROVE  m \in MetersOf(G) <=> HolderOf(m) \in G
<1>1. m \in MetersOf(G) <=> \E g \in G : g \in Holders(grants, m)
  BY DEF MetersOf, Holders
<1>2. G \subseteq GrantIds
  BY DEF Live
<1>. QED  BY <1>1, <1>2, HolderCovers

\* What the ending of grants does to the taps
LEMMA EndsOnTaps ==
  ASSUME IInv, NEW G, G \subseteq Live(grants),
         NEW sess, NEW base, NEW drink, NEW count, NEW ran,
         EndGrants(G, sess, base, drink, count, ran)
  PROVE  /\ [m \in Meters |-> HolderOf(m)]' = [m \in Meters |-> IF HolderOf(m) \in G THEN NoGrant ELSE HolderOf(m)]
         /\ [m \in Meters |-> Pouring(m)]' = [m \in Meters |-> sess[m] > 0 /\ HolderOf(m) \notin G]
<1>1. /\ attr' = [m \in Meters |-> IF m \in MetersOf(G) THEN NoAuth ELSE attr[m]]
      /\ session' = [m \in Meters |-> IF m \in MetersOf(G) THEN 0 ELSE sess[m]]
  BY DEF EndGrants, AttrAfterEnds, SessionAfterEnds
<1>2. \A m \in Meters : HolderOf(m)' = IF HolderOf(m) \in G THEN NoGrant ELSE HolderOf(m)
  BY <1>1, ReleasedAreHeld DEF HolderOf, NoAuth
<1>3. \A m \in Meters : Pouring(m)' <=> sess[m] > 0 /\ HolderOf(m) \notin G
  <2>1. TAKE m \in Meters
  <2>2. CASE HolderOf(m) \in G
    <3>1. session'[m] = 0
      BY <2>2, <1>1, ReleasedAreHeld
    <3>. QED  BY <2>2, <3>1 DEF Pouring
  <2>3. CASE HolderOf(m) \notin G
    <3>1. session'[m] = sess[m]
      BY <2>3, <1>1, ReleasedAreHeld
    <3>. QED  BY <2>3, <3>1 DEF Pouring
  <2>. QED  BY <2>2, <2>3
<1>4. [m \in Meters |-> Pouring(m)'] = [m \in Meters |-> sess[m] > 0 /\ HolderOf(m) \notin G]
  <2>1. \A m \in Meters : Pouring(m)' = (sess[m] > 0 /\ HolderOf(m) \notin G)
    BY <1>3 DEF Pouring
  <2>. QED  BY <2>1, Zenon
<1>. QED  BY <1>2, <1>4

\* The engine starts with free, dry taps.
LEMMA InitTaps == Init => Promise!Init
<1>. SUFFICES ASSUME Init PROVE Promise!Init
  OBVIOUS
<1>1. \A m \in Meters : HolderOf(m) = NoGrant
  BY DEF Init, HolderOf, NoAuth
<1>2. \A m \in Meters : Pouring(m) = FALSE
  BY DEF Init, Pouring, None
<1>3. [m \in Meters |-> Pouring(m)] = [m \in Meters |-> FALSE]
  BY <1>2, Zenon
<1>. QED  BY <1>1, <1>3 DEF Promise!Init

\* deauthorize, the removal of a token and a poll end grants.
LEMMA EndTaps ==
  ASSUME IInv, NEW G, G \subseteq Live(grants),
         NEW base, NEW drink, NEW count, NEW ran,
         EndGrants(G, session, base, drink, count, ran)
  PROVE  Promise!End(G)
<1>1. /\ [m \in Meters |-> HolderOf(m)]' = [m \in Meters |-> IF HolderOf(m) \in G THEN NoGrant ELSE HolderOf(m)]
      /\ [m \in Meters |-> Pouring(m)]' = [m \in Meters |-> session[m] > 0 /\ HolderOf(m) \notin G]
  BY EndsOnTaps
<1>. QED  BY <1>1, Zenon DEF Promise!End, Promise!Free, Pouring

\* A spec releases what it takes from another grant, and what it drops of its own.
LEMMA ReleasedByHolder ==
  ASSUME IInv, NEW s \in GrantSpec, NEW m \in Meters
  PROVE  m \in UNION {Lost(grants, s, g) : g \in Losers(grants, s)}
           <=> IF m \in s.meters THEN HolderOf(m) \notin {NoGrant, s.id} ELSE HolderOf(m) = s.id
<1> DEFINE released == UNION {Lost(grants, s, g) : g \in Losers(grants, s)}
<1>0. s.id \in GrantIds
  BY DEF GrantSpec
<1>1. m \in released <=> \E g \in Live(grants) : m \in Lost(grants, s, g)
  BY DEF Losers
<1>2. CASE m \in s.meters
  <2>1. m \in released <=> \E g \in Holders(grants, m) : g # s.id
    BY <1>1, <1>2 DEF Lost, Holders
  <2>2. \A g \in Holders(grants, m) : HolderOf(m) = g /\ g # NoGrant
    BY HolderCovers, NoGrantIsNotAnId DEF Holders, Live
  <2>3. Holders(grants, m) = {} => HolderOf(m) = NoGrant
    BY HolderCovers
  <2>. QED  BY <1>2, <2>1, <2>2, <2>3
<1>3. CASE m \notin s.meters
  <2>1. m \in released <=> s.id \in Holders(grants, m)
    BY <1>0, <1>1, <1>3 DEF Lost, Holders
  <2>. QED  BY <1>0, <1>3, <2>1, HolderCovers
<1>. QED  BY <1>2, <1>3

\* authorize gives the grant its taps.
LEMMA AuthorizeTaps ==
  ASSUME IInv, NEW s \in Specs, Authorize(s)
  PROVE  Promise!Grant(s.id, s.meters)
<1> DEFINE released == UNION {Lost(grants, s, g) : g \in Losers(grants, s)}
<1>1. s \in GrantSpec /\ s.id \in GrantIds
  BY AcceptableSpec DEF Authorize
<1>2. UNION {[h \in Losers(grants, s) |-> Lost(grants, s, h)][g] : g \in Losers(grants, s)} = released
  OBVIOUS
<1>3. /\ attr' = [m \in Meters |-> IF m \in s.meters THEN Attribution(s)
                                   ELSE IF m \in released THEN NoAuth ELSE attr[m]]
      /\ session' = [m \in Meters |-> IF m \in released THEN 0 ELSE session[m]]
  BY <1>2 DEF Authorize, AttrAfterEnds, SessionAfterEnds
<1>4. \A m \in Meters : m \in released
                          <=> IF m \in s.meters THEN HolderOf(m) \notin {NoGrant, s.id} ELSE HolderOf(m) = s.id
  BY <1>1, ReleasedByHolder
<1> HIDE DEF released
<1>5. \A m \in Meters : HolderOf(m)' = IF m \in s.meters THEN s.id
                                        ELSE IF HolderOf(m) = s.id THEN NoGrant ELSE HolderOf(m)
  BY <1>3, <1>4 DEF HolderOf, Attribution, NoAuth
<1>6. \A m \in Meters : Pouring(m)' = (Pouring(m) /\ HolderOf(m) \in {NoGrant, HolderOf(m)'})
  <2>1. TAKE m \in Meters
  <2>2. m \in released <=> HolderOf(m) \notin {NoGrant, HolderOf(m)'}
    BY <1>1, <1>4, <1>5, NoGrantIsNotAnId
  <2>3. session'[m] = IF m \in released THEN 0 ELSE session[m]
    BY <1>3
  <2>. QED  BY <2>2, <2>3 DEF Pouring
<1>7. [m \in Meters |-> Pouring(m)]' = [m \in Meters |-> Pouring(m) /\ HolderOf(m) \in {NoGrant, HolderOf(m)'}]
  BY <1>6, Zenon
<1>8. [m \in Meters |-> HolderOf(m)]' = [m \in Meters |-> IF m \in s.meters THEN s.id
                                        ELSE IF HolderOf(m) = s.id THEN NoGrant ELSE HolderOf(m)]
  BY <1>5, Zenon
<1>9. [m \in Meters |-> Pouring(m)]' =
        [m \in Meters |-> [n \in Meters |-> Pouring(n)][m]
                            /\ [n \in Meters |-> HolderOf(n)][m] \in {NoGrant, [n \in Meters |-> HolderOf(n)]'[m]}]
  BY <1>7, Zenon
<1>. QED  BY <1>8, <1>9, Zenon DEF Promise!Grant

\* A tick of a pour leaves the holders as they are; it may start the pour.
LEMMA PourRunsTaps ==
  ASSUME IInv, NEW m \in Meters, NEW k \in Nat, PourRuns(m, k)
  PROVE  Promise!Pour(m) \/ UNCHANGED <<attr, session>>
<1>1. attr' = attr /\ session' = [session EXCEPT ![m] = @ + k] /\ session \in [Meters -> Nat]
  BY DEF PourRuns, IInv, VarsOK
<1>2. CASE session[m] + k = 0
  BY <1>1, <1>2
<1>3. CASE session[m] + k # 0
  <2>1. \A n \in Meters : Pouring(n)' = IF n = m THEN TRUE ELSE Pouring(n)
    <3>1. TAKE n \in Meters
    <3>2. session'[n] = IF n = m THEN session[n] + k ELSE session[n]
      BY <1>1
    <3>3. session[n] \in Nat
      BY <1>1
    <3>4. CASE n = m
      <4>1. session'[n] > 0
        BY <3>2, <3>3, <3>4, <1>3
      <4>. QED  BY <3>4, <4>1 DEF Pouring
    <3>5. CASE n # m
      BY <3>2, <3>5 DEF Pouring
    <3>. QED  BY <3>4, <3>5
  <2>2. [n \in Meters |-> Pouring(n)]' = [[n \in Meters |-> Pouring(n)] EXCEPT ![m] = TRUE]
    BY <2>1, Zenon
  <2>3. [n \in Meters |-> HolderOf(n)]' = [n \in Meters |-> HolderOf(n)]
    BY <1>1 DEF HolderOf
  <2>. QED  BY <2>2, <2>3 DEF Promise!Pour
<1>. QED  BY <1>2, <1>3

\* A drip stops pouring and ends nothing.
LEMMA DiscardDripTaps ==
  ASSUME IInv, NEW m \in Meters, NEW k \in Nat, DiscardDrip(m, k)
  PROVE  Promise!Stop(m, {})
<1>1. attr' = attr /\ session' = [session EXCEPT ![m] = 0] /\ session \in [Meters -> Nat]
  BY DEF DiscardDrip, IInv, VarsOK
<1>2. \A n \in Meters : Pouring(n)' = (n # m /\ Pouring(n))
  <2>1. TAKE n \in Meters
  <2>2. CASE n = m
    BY <2>2, <1>1 DEF Pouring
  <2>3. CASE n # m
    BY <2>3, <1>1 DEF Pouring
  <2>. QED  BY <2>2, <2>3
<1>3. [n \in Meters |-> Pouring(n)]' = [n \in Meters |-> n # m /\ Pouring(n) /\ HolderOf(n) \notin {}]
  BY <1>2, Zenon
<1>4. [n \in Meters |-> HolderOf(n)]' = [n \in Meters |-> HolderOf(n)]
  BY <1>1 DEF HolderOf
<1>. QED  BY <1>3, <1>4, Zenon DEF Promise!Stop, Promise!Free

\* A flow on meter m alone can exhaust none but the grant that covers m.
LEMMA TrippedIsHolder ==
  ASSUME IInv, NEW m \in Meters, NEW v
  PROVE  Tripped([None EXCEPT ![m] = v]) \subseteq Live(grants) \cap {HolderOf(m)}
<1>1. SUFFICES ASSUME NEW g \in Tripped([None EXCEPT ![m] = v])
               PROVE  g \in Live(grants) /\ g = HolderOf(m)
  OBVIOUS
<1>2. PICK n \in grants[g].meters : g \in Live(grants) /\ [None EXCEPT ![m] = v][n] > 0
  BY <1>1 DEF Tripped
<1>3. n \in Meters
  BY <1>2, LiveGrant DEF IInv, GrantSpec
<1>4. n = m
  BY <1>2, <1>3 DEF None
<1>. QED  BY <1>2, <1>4, HolderCovers DEF Holders

\* A pour that ends is over, and so may be the grant of its tap.
LEMMA ReportPourTaps ==
  ASSUME IInv, NEW m \in Meters, NEW k \in Nat, ReportPour(m, k)
  PROVE  \E G \in SUBSET GrantIds : Promise!Stop(m, G)
<1> DEFINE ticks == session[m] + k
           idle  == [session EXCEPT ![m] = 0]
           delta == [None EXCEPT ![m] = IF ticks > seen[m] THEN ticks - seen[m] ELSE 0]
           G     == Tripped(delta)
<1>1. EndGrants(G, idle, Reset(seen, m), drinkers, Recorded(delta), Ran(m, k))
  BY DEF ReportPour
<1>2. G \subseteq Live(grants) \cap {HolderOf(m)} /\ G \in SUBSET GrantIds
  BY TrippedIsHolder DEF Live
<1>3. \A n \in Meters : idle[n] > 0 <=> n # m /\ session[n] > 0
  BY DEF IInv, VarsOK
<1> HIDE DEF idle, delta, G
<1>4. /\ [n \in Meters |-> HolderOf(n)]' = [n \in Meters |-> IF HolderOf(n) \in G THEN NoGrant ELSE HolderOf(n)]
      /\ [n \in Meters |-> Pouring(n)]' = [n \in Meters |-> idle[n] > 0 /\ HolderOf(n) \notin G]
  BY <1>1, <1>2, EndsOnTaps
<1>5. [n \in Meters |-> idle[n] > 0 /\ HolderOf(n) \notin G] =
        [n \in Meters |-> n # m /\ Pouring(n) /\ HolderOf(n) \notin G]
  BY <1>3, Zenon DEF Pouring
<1>6. Promise!Stop(m, G)
  BY <1>2, <1>4, <1>5, Zenon DEF Promise!Stop, Promise!Free
<1>. QED  BY <1>2, <1>6

\* The state that Taps sees
TapVars == <<attr, session>>

LEMMA TapStutter ==
  ASSUME UNCHANGED TapVars
  PROVE  UNCHANGED Promise!vars
BY DEF TapVars, Promise!vars, HolderOf, Pouring

\* Every step of the engine is a step of Taps, or nothing it sees.
LEMMA NextTaps == IInv /\ [Next]_vars => [Promise!Next]_(Promise!vars)
<1>. SUFFICES ASSUME IInv, [Next]_vars PROVE Promise!Next \/ UNCHANGED TapVars
  BY TapStutter
<1>1. ASSUME NEW s \in Specs, Authorize(s) PROVE Promise!Next
  <2>1. s.id \in GrantIds /\ s.meters \in SUBSET Meters
    BY <1>1, SpecsAssumption DEF Authorize, Acceptable
  <2>. QED  BY <1>1, <2>1, AuthorizeTaps DEF Promise!Next
<1>2. ASSUME NEW s \in Specs, RejectAuthorize(s) PROVE UNCHANGED TapVars
  BY <1>2 DEF RejectAuthorize, TapVars
<1>3. ASSUME NEW G, G \subseteq Live(grants), NEW base, NEW drink, NEW count, NEW ran,
             EndGrants(G, session, base, drink, count, ran)
      PROVE  Promise!Next
  <2>1. G \in SUBSET GrantIds
    BY <1>3 DEF Live
  <2>. QED  BY <1>3, <2>1, EndTaps DEF Promise!Next
<1>4. ASSUME NEW ids \in SUBSET GrantIds, Deauthorize(ids) PROVE Promise!Next
  BY <1>3, <1>4 DEF Deauthorize
<1>5. ASSUME NEW d \in Devices, NEW t \in Tokens, Detach(d, t) PROVE Promise!Next
  <2>1. Presented(grants, d, t) \subseteq Live(grants)
    BY DEF Presented
  <2>. QED  BY <1>3, <1>5, <2>1 DEF Detach
<1>6. ASSUME PollIdleEngine PROVE UNCHANGED TapVars
  BY <1>6 DEF PollIdleEngine, TapVars
<1>7. ASSUME NEW expired \in SUBSET GrantIds, Poll(expired) PROVE Promise!Next
  BY <1>3, <1>7 DEF Poll, Tripped
<1>8. ASSUME NEW m \in Meters, NEW k \in Nat, DiscardDrip(m, k) \/ ReportPour(m, k) PROVE Promise!Next
  BY <1>8, DiscardDripTaps, ReportPourTaps DEF Promise!Next
<1>9. ASSUME NEW m \in Meters, NEW k \in 0..MaxBurst, MeterLoop(m, k)
      PROVE  Promise!Next \/ UNCHANGED TapVars
  <2>1. k \in Nat
    OBVIOUS
  <2>2. CASE PourRuns(m, k)
    BY <2>1, <2>2, PourRunsTaps DEF Promise!Next, TapVars
  <2>3. CASE DiscardDrip(m, k) \/ ReportPour(m, k)
    BY <2>1, <2>3, <1>8
  <2>. QED  BY <1>9, <2>2, <2>3 DEF MeterLoop
<1>10. ASSUME NEW m \in Meters, EndPour(m) PROVE Promise!Next
  BY <1>8, <1>10 DEF EndPour
<1>11. ASSUME NEW r, Watchdog(r) \/ Switch(r) PROVE UNCHANGED TapVars
  BY <1>11 DEF Watchdog, Switch, TapVars
<1>12. CASE UNCHANGED vars
  BY <1>12 DEF vars, TapVars
<1>. QED  BY <1>1, <1>2, <1>4, <1>5, <1>6, <1>7, <1>9, <1>10, <1>11, <1>12 DEF Next

\* The authorization engine, its callbacks and meters included, keeps the
\* promise of Taps: a tap is given, taken over and freed in one step, and a
\* pour in progress never goes on under another grant.
THEOREM Implementation == Spec => ImplementsTaps
BY InitTaps, NextTaps, Invariant, PTL DEF Spec, ImplementsTaps, Promise!Spec

\* So with the engine as with the promise, no pour changes hands.
THEOREM NoPourChangesHandsHolds == Spec => Promise!NoPourChangesHands
<1> DEFINE held    == [m \in Meters |-> HolderOf(m)]
           flowing == [m \in Meters |-> Pouring(m)]
           kept    == \A m \in Meters : flowing[m] /\ flowing'[m] => held[m] \in {NoGrant, held'[m]}
<1>1. Promise!Next => kept
  BY DEF Promise!Next, Promise!Grant, Promise!End, Promise!Stop, Promise!Pour, Promise!Free
<1>2. [Promise!Next]_(Promise!vars) => [kept]_(Promise!vars)
  BY <1>1
<1>3. Spec => [][kept]_(Promise!vars)
  BY <1>2, Implementation, PTL DEF ImplementsTaps, Promise!Spec
<1>. QED  BY <1>3 DEF Promise!NoPourChangesHands
=============================================================================
