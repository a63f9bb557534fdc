----------------------------- MODULE AuthEngine -----------------------------
(***************************************************************************)
(* The authorization engine on top of the meters it steers: auth_engine.*, *)
(* the meter half it calls back into (PourSession, KegboardMeter) and the  *)
(* callbacks KegboardAuth::setup wires between them.                       *)
(*                                                                         *)
(* A handler runs to completion, so it is one action, callbacks included.  *)
(* The main loop lets every meter loop once, then polls the engine; server *)
(* commands, token events and YAML actions come in between any two of      *)
(* those.  Volume is counted in ticks.  Clocks are left to GrantTable and  *)
(* Meter: here a poll may find any live grant past its duration or idle    *)
(* limit, and a pour may end in any loop of its meter.                     *)
(*                                                                         *)
(* The volume a grant has poured (poured_ml) is kept per meter, in         *)
(* `charged`; the code's counter is its sum.                               *)
(***************************************************************************)
EXTENDS GrantOps, Naturals, FiniteSets, Sequences, SequencesExt

CONSTANTS
  Meters, Relays,   \* the device's inventory
  Manual,           \* the relays that Home Assistant, YAML or a user switches too
  Specs,            \* what authorize commands carry: a set of grant specs
  Devices, Tokens,  \* what presentments name; Anyone stands for the empty string
  MinPourTicks,     \* pours below this are discarded as drips
  MaxBurst,         \* bound: ticks one loop of a meter takes from its ISR
  MaxSession,       \* bound: ticks of one pour
  MaxOwed           \* bound: ticks one grant sees through one meter

NoAuth == [grant |-> NoGrant, device |-> Anyone, token |-> Anyone]

GrantSpec ==
  [id : GrantIds, meters : (SUBSET Meters) \ {{}}, relays : SUBSET Relays,
   device : Devices, token : Tokens, maxVolume : Nat]

ASSUME BoundsAssumption == MinPourTicks \in Nat /\ MaxBurst \in Nat /\ MaxSession \in Nat /\ MaxOwed \in Nat

\* No grant is no spec.  The meters and relays of a command may be none the device has.
ASSUME SpecsAssumption ==
  /\ NoGrant \notin GrantSpec
  /\ \A s \in Specs :
       /\ s = [id |-> s.id, meters |-> s.meters, relays |-> s.relays, device |-> s.device,
               token |-> s.token, maxVolume |-> s.maxVolume]
       /\ s.id \in GrantIds /\ s.device \in Devices /\ s.token \in Tokens /\ s.maxVolume \in Nat

\* The meters of a device are a list in its configuration.
ASSUME MetersAssumption == IsFiniteSet(Meters)

ASSUME ManualAssumption == Manual \subseteq Relays

VARIABLES
  grants,    \* GrantTable::grants_, by id
  charged,   \* poured_ml of each grant, per meter it was recorded on
  session,   \* ticks of the pour in flight on each meter, 0 when idle
  seen,      \* pour_seen_ml_: what of the pour the engine has recorded
  attr,      \* the attribution each meter stamps on its next pour event
  relay,     \* which relays are energized
  due,       \* meters that have not looped yet in this turn of the main loop
  out,       \* events the last handler queued, in order
  owed,      \* checking only: ticks each grant's meter ran while the grant held it
  drinkers   \* checking only: the grants under which the pour in flight ran

vars == <<grants, charged, session, seen, attr, relay, due, out, owed, drinkers>>

-----------------------------------------------------------------------------
(* Helpers *)

None == [m \in Meters |-> 0]

Attribution(s) == [grant |-> s.id, device |-> s.device, token |-> s.token]

\* record_flow's test of max_volume_ml; 0 is unlimited
PouredMl(count) == SumFunction(count)
Exhausted(s, count) == s.maxVolume > 0 /\ PouredMl(count) >= s.maxVolume

PourEvent(m) == [type |-> "pour", meter |-> m, auth |-> attr[m]]
GrantEndEvent(g, released) == [type |-> "grant_end", grant |-> g, meters |-> released]

\* process_ends_ for one ending: the pours of the released meters that are
\* long enough to report, then the grant_end.  Mutant: the other way round.
ReportedPours(sess, released) == {m \in released : sess[m] > 0 /\ sess[m] >= MinPourTicks}

EndingEvents_EndFirst(sess, g, released) ==
  <<GrantEndEvent(g, released)>> \o SetToSeq({PourEvent(m) : m \in ReportedPours(sess, released)})

EndingEvents(sess, g, released) ==
  SetToSeq({PourEvent(m) : m \in ReportedPours(sess, released)}) \o <<GrantEndEvent(g, released)>>

\* ... and for several; lost[g] are the meters the ending of g releases
EndEvents(sess, G, lost) ==
  FlattenSeq([i \in 1..Cardinality(G) |->
                LET g == SetToSeq(G)[i] IN EndingEvents(sess, g, lost[g])])

\* process_ends_ on the meters it releases.  The baseline of a pour in flight is
\* settled first, end_pour then runs on_pour_end, which takes it back to 0,
\* unless the pour was a drip: on_pour_end does not hear of it.
\* Mutant: the baseline is not settled.
Baseline_Unsettled(sess, m) == seen[m]

Baseline(sess, m) == sess[m]

SeenAfterEnds(sess, base, released) ==
  [m \in Meters |->
     IF m \in released /\ sess[m] > 0
     THEN IF sess[m] >= MinPourTicks THEN 0 ELSE Baseline(sess, m)
     ELSE base[m]]

\* What on_pour_end still records of a pour that process_ends_ stopped
PourTail(sess, released, m) ==
  IF m \in released /\ sess[m] >= MinPourTicks THEN sess[m] - Baseline(sess, m) ELSE 0

\* Mutants: end_pour is not called; clear_attribution is not called.
SessionAfterEnds_Kept(sess, released) == sess
AttrAfterEnds_Kept(released) == attr

SessionAfterEnds(sess, released) == [m \in Meters |-> IF m \in released THEN 0 ELSE sess[m]]

AttrAfterEnds(released) == [m \in Meters |-> IF m \in released THEN NoAuth ELSE attr[m]]

\* A pour that is over has no drinkers any more.
DrinkersOf(sess, drink) == [m \in Meters |-> IF sess[m] = 0 THEN {} ELSE drink[m]]

\* A relay stays energized while any grant left in tbl names it.
\* Mutants: no relay is ever released; a shared one is.
RelayAfterEnds_Stuck(tbl, freed) == relay
RelayAfterEnds_Shared(tbl, freed) == [r \in Relays |-> relay[r] /\ r \notin freed]

RelayAfterEnds(tbl, freed) ==
  [r \in Relays |-> relay[r] /\ ~(r \in freed /\ ~Covered(tbl, r))]

MetersOf(G) == UNION {grants[g].meters : g \in G}
RelaysOf(G) == UNION {grants[g].relays : g \in G}

Cleared(count, G) == [g \in GrantIds |-> IF g \in G THEN None ELSE count[g]]

\* The grants G end as a whole: the table drops them, then process_ends_ runs.
\* sess, base, drink and the counts are what the handler made of the state so far.
EndGrants(G, sess, base, drink, count, ran) ==
  /\ grants' = Ended(grants, G)
  /\ charged' = Cleared(count, G)
  /\ owed' = Cleared(ran, G)
  /\ session' = SessionAfterEnds(sess, MetersOf(G))
  /\ seen' = SeenAfterEnds(sess, base, MetersOf(G))
  /\ drinkers' = DrinkersOf(session', drink)
  /\ attr' = AttrAfterEnds(MetersOf(G))
  /\ relay' = RelayAfterEnds(Ended(grants, G), RelaysOf(G))

WholeEndEvents(G, sess) == EndEvents(sess, G, [g \in G |-> grants[g].meters])

-----------------------------------------------------------------------------
(* The engine's operations *)

Init ==
  /\ grants = [g \in GrantIds |-> NoGrant]
  /\ charged = [g \in GrantIds |-> None]
  /\ session = None
  /\ seen = None
  /\ attr = [m \in Meters |-> NoAuth]
  /\ relay = [r \in Relays |-> FALSE]
  /\ due = Meters
  /\ out = <<>>
  /\ owed = [g \in GrantIds |-> None]
  /\ drinkers = [m \in Meters |-> {}]

\* A grant that names a meter or relay the device does not have, or no meter at
\* all, is rejected in whole.
Acceptable(s) == s.meters # {} /\ s.meters \subseteq Meters /\ s.relays \subseteq Relays

\* adopt_in_flight_pour_: what a pour in flight has poured so far is not charged.
Adopted(s, sess, base) ==
  [m \in Meters |-> IF m \in s.meters /\ sess[m] > 0 THEN sess[m] ELSE base[m]]

\* The branch "grant ended while being applied" is not here: it needs a tail
\* that process_ends_ records against the new grant, and PourTail is always 0.
Authorize(s) ==
  LET tbl      == Authorized(grants, s)
      lost     == [g \in Losers(grants, s) |-> Lost(grants, s, g)]
      released == UNION {lost[g] : g \in Losers(grants, s)}
      gone     == Displaced(grants, s)
      freed    == RelaysOf(gone \cup (Live(grants) \cap {s.id}))
  IN /\ Acceptable(s)
     /\ grants' = tbl
     /\ charged' = [Cleared(charged, gone) EXCEPT ![s.id] =
                      [m \in Meters |-> @[m] + IF m \in s.meters THEN PourTail(session, released, m) ELSE 0]]
     /\ owed' = Cleared(owed, gone)
     /\ session' = SessionAfterEnds(session, released)
     /\ seen' = Adopted(s, SessionAfterEnds(session, released), SeenAfterEnds(session, seen, released))
     /\ drinkers' = DrinkersOf(session', drinkers)
     /\ attr' = [m \in Meters |-> IF m \in s.meters THEN Attribution(s) ELSE AttrAfterEnds(released)[m]]
     /\ relay' = [r \in Relays |-> r \in s.relays \/ RelayAfterEnds(tbl, freed)[r]]
     /\ out' = EndEvents(session, Losers(grants, s), lost)
     /\ UNCHANGED due

RejectAuthorize(s) ==
  /\ ~Acceptable(s)
  /\ out' = <<>>
  /\ UNCHANGED <<grants, charged, session, seen, attr, relay, due, owed, drinkers>>

\* deauthorize of a list of ids, unknown ones ignored; without a list, and for
\* revoke_all, every id.
Deauthorize(ids) ==
  LET G == ids \cap Live(grants)
  IN /\ EndGrants(G, session, seen, drinkers, charged, owed)
     /\ out' = WholeEndEvents(G, session)
     /\ UNCHANGED due

\* token_detached: an empty token would match the grants issued without an echo.
Detach(d, t) ==
  LET G == Presented(grants, d, t)
  IN /\ t # Anyone
     /\ EndGrants(G, session, seen, drinkers, charged, owed)
     /\ out' = WholeEndEvents(G, session)
     /\ UNCHANGED due

\* record_flow of several meters: a meter's delta goes to the grant that covers it
Recorded(delta) ==
  [g \in GrantIds |->
     [m \in Meters |-> charged[g][m] + IF g \in Holders(grants, m) THEN delta[m] ELSE 0]]

\* The grants a flow of delta takes to their volume limit; without flow on one
\* of its meters a grant is not looked at.  Mutant: the flow itself is left out.
Tripped_BeforeFlow(delta) ==
  {g \in Live(grants) : /\ \E m \in grants[g].meters : delta[m] > 0
                        /\ Exhausted(grants[g], charged[g])}

Tripped(delta) ==
  {g \in Live(grants) : /\ \E m \in grants[g].meters : delta[m] > 0
                        /\ Exhausted(grants[g], Recorded(delta)[g])}

\* AuthEngine::poll.  Baselines of idle meters are dropped, the flow since the
\* last poll is recorded, then the grants in `expired` are past a time limit.
PollIdleEngine ==
  /\ due = {} /\ due' = Meters
  /\ Live(grants) = {}
  /\ seen' = None
  /\ out' = <<>>
  /\ UNCHANGED <<grants, charged, session, attr, relay, owed, drinkers>>

Unseen(base) ==
  [m \in Meters |-> IF Holders(grants, m) # {} /\ session[m] > base[m] THEN session[m] - base[m] ELSE 0]

Poll(expired) ==
  LET base  == [m \in Meters |-> IF session[m] = 0 THEN 0 ELSE seen[m]]
      delta == Unseen(base)
      G     == Tripped(delta) \cup expired
  IN /\ due = {} /\ due' = Meters
     /\ Live(grants) # {}
     /\ expired \subseteq Live(grants) \ Tripped(delta)
     /\ EndGrants(G, session, [m \in Meters |-> base[m] + delta[m]], drinkers, Recorded(delta), owed)
     /\ out' = WholeEndEvents(G, session)

-----------------------------------------------------------------------------
(* The meters: KegboardMeter::loop and end_pour, on_pour_end behind them *)

Ran(m, k) ==
  [g \in GrantIds |-> IF g \in Holders(grants, m) THEN [owed[g] EXCEPT ![m] = @ + k] ELSE owed[g]]

PourRuns(m, k) ==
  /\ session' = [session EXCEPT ![m] = @ + k]
  /\ owed' = Ran(m, k)
  /\ drinkers' = [drinkers EXCEPT ![m] = IF k > 0 THEN @ \cup Holders(grants, m) ELSE @]
  /\ out' = <<>>
  /\ UNCHANGED <<grants, charged, seen, attr, relay>>

\* finish_ below min_pour_ticks: nobody hears of the pour
DiscardDrip(m, k) ==
  /\ session[m] + k \in 1..(MinPourTicks - 1)
  /\ session' = [session EXCEPT ![m] = 0]
  /\ owed' = Ran(m, k)
  /\ drinkers' = DrinkersOf(session', drinkers)
  /\ out' = <<>>
  /\ UNCHANGED <<grants, charged, seen, attr, relay>>

\* on_pour_end takes the baseline back to 0.  Mutant: it leaves it.
Reset_Left(base, m) == base

Reset(base, m) == [base EXCEPT ![m] = 0]

\* finish_, then handle_pour_end_: the reporter queues the pour, on_pour_end
\* records what accrued since the last poll, which may end the grant.
ReportPour(m, k) ==
  LET ticks == session[m] + k
      idle  == [session EXCEPT ![m] = 0]
      delta == [None EXCEPT ![m] = IF ticks > seen[m] THEN ticks - seen[m] ELSE 0]
      G     == Tripped(delta)
  IN /\ ticks > 0 /\ ticks >= MinPourTicks
     /\ EndGrants(G, idle, Reset(seen, m), drinkers, Recorded(delta), Ran(m, k))
     /\ out' = <<PourEvent(m)>> \o WholeEndEvents(G, idle)

\* loop() takes k ticks from the ISR, and poll() may find the pour over.
MeterLoop(m, k) ==
  /\ m \in due /\ due' = due \ {m}
  /\ session[m] + k <= MaxSession
  /\ \A g \in Holders(grants, m) : owed[g][m] + k <= MaxOwed
  /\ PourRuns(m, k) \/ DiscardDrip(m, k) \/ ReportPour(m, k)

\* The YAML action kegboard_meter.end_pour
EndPour(m) ==
  /\ session[m] > 0
  /\ DiscardDrip(m, 0) \/ ReportPour(m, 0)
  /\ UNCHANGED due

\* packages/relays.yaml: the watchdog script turns a relay off.  Its timer runs from
\* the moment the relay went on, whichever grants came and went since, so it may run
\* out under any grant that did not open the relay itself; Valves has the timer.
Watchdog(r) ==
  /\ relay[r]
  /\ relay' = [relay EXCEPT ![r] = FALSE]
  /\ out' = <<>>
  /\ UNCHANGED <<grants, charged, session, seen, attr, due, owed, drinkers>>

\* A relay is a switch of the device: it is turned on and off past the engine.
Switch(r) ==
  /\ relay' = [relay EXCEPT ![r] = ~@]
  /\ out' = <<>>
  /\ UNCHANGED <<grants, charged, session, seen, attr, due, owed, drinkers>>

Next ==
  \/ \E s \in Specs : Authorize(s)
  \/ \E s \in Specs : RejectAuthorize(s)
  \/ \E ids \in SUBSET GrantIds : Deauthorize(ids)
  \/ \E d \in Devices, t \in Tokens : Detach(d, t)
  \/ PollIdleEngine
  \/ \E expired \in SUBSET GrantIds : Poll(expired)
  \/ \E m \in Meters, k \in 0..MaxBurst : MeterLoop(m, k)
  \/ \E m \in Meters : EndPour(m)
  \/ \E r \in Relays : Watchdog(r)
  \/ \E r \in Manual : Switch(r)

Spec == Init /\ [][Next]_vars

-----------------------------------------------------------------------------
(* Properties *)

\* Every variable has its type: a table slot holds a well-formed grant of that
\* very id, on at least one meter the device has.
TypeOK ==
  /\ grants \in [GrantIds -> GrantSpec \cup {NoGrant}]
  /\ \A g \in Live(grants) : grants[g].id = g
  /\ charged \in [GrantIds -> [Meters -> Nat]] /\ owed \in [GrantIds -> [Meters -> Nat]]
  /\ session \in [Meters -> Nat] /\ seen \in [Meters -> Nat]
  /\ attr \in [Meters -> {NoAuth} \cup [grant : GrantIds, device : Devices, token : Tokens]]
  /\ relay \in [Relays -> BOOLEAN]
  /\ due \in SUBSET Meters
  /\ drinkers \in [Meters -> SUBSET GrantIds]

\* A meter is never covered by two grants, whatever mix of takeovers, updates
\* and endings led here: grant_for and record_flow stop at the first they find.
OneGrantPerMeter ==
  \A g, h \in Live(grants) : g # h => grants[g].meters \cap grants[h].meters = {}

\* What a meter would stamp on its next pour event is the presentment of the
\* grant that covers it now, and nobody's when no grant does (process_ends_
\* and authorize keep the meters' attribution in step with the table).
AttributionFollowsGrants ==
  \A m \in Meters :
    /\ \A g \in Holders(grants, m) : attr[m] = Attribution(grants[g])
    /\ Holders(grants, m) = {} => attr[m] = NoAuth

Switched(r) == r \in Manual /\ Switch(r)

\* The engine opens a valve only for a grant that names its relay, and when the
\* last such grant goes the valve is closed in the same step, whoever opened it:
\* only a switch from outside leaves a valve open with no grant.
ValveNeedsGrant ==
  [][\A r \in Relays :
       /\ Covered(grants, r) /\ ~Covered(grants', r) => ~relay'[r]
       /\ ~relay[r] /\ relay'[r] => Covered(grants', r) \/ Switched(r)]_vars

\* A grant that begins to name a relay has its valve open, and no grant that ends,
\* sheds or takes over closes the valve of another that shares it: under a grant
\* only the watchdog or a switch from outside does.
ValveHeldOpen ==
  [][\A r \in Relays :
       /\ \A g \in Live(grants') :
            r \in grants'[g].relays /\ ~(g \in Live(grants) /\ r \in grants[g].relays) => relay'[r]
       /\ Covered(grants', r) /\ relay[r] /\ ~relay'[r] => Watchdog(r) \/ Switched(r)]_vars

\* A pour never runs under two grants: a takeover mid-pour splits it, and only a
\* pour begun by a guest is adopted.  All of the pour is then the holder's.
PourHasOneDrinker ==
  \A m \in Meters : drinkers[m] \subseteq Holders(grants, m) /\ Cardinality(drinkers[m]) <= 1

\* What a grant is charged on a meter, with what poll() would add now, never
\* exceeds what ran through that meter while the grant held it: neither the
\* guest's part of an adopted pour nor a predecessor's dribble is charged.
NoOvercharge ==
  \A g \in Live(grants), m \in Meters :
    /\ charged[g][m] <= owed[g][m]
    /\ m \in grants[g].meters /\ session[m] > 0 => charged[g][m] + session[m] <= owed[g][m] + seen[m]

\* Each meter that leaves a grant in a step is reported by exactly one grant_end
\* of that step, and no grant_end reports a meter its grant keeps.
EveryReleaseReported ==
  [][\A g \in GrantIds, m \in Meters :
       LET reports == {i \in DOMAIN out' : /\ out'[i].type = "grant_end"
                                           /\ out'[i].grant = g /\ m \in out'[i].meters}
       IN Cardinality(reports) = IF g \in Holders(grants, m) /\ g \notin Holders(grants', m) THEN 1 ELSE 0]_vars

\* The server sees the pour of a grant before the grant_end that releases the
\* meter, so a drink is never reported for a grant that is already closed; and
\* the pour names the grant that held the meter when it ended.
PourPrecedesGrantEnd ==
  [][\A i \in DOMAIN out' :
       out'[i].type = "pour" =>
         /\ \A g \in Holders(grants, out'[i].meter) : out'[i].auth = Attribution(grants[g])
         /\ Holders(grants, out'[i].meter) = {} => out'[i].auth = NoAuth
         /\ \A j \in DOMAIN out' : out'[j].type = "grant_end" /\ out'[j].grant = out'[i].auth.grant
                                     /\ out'[i].meter \in out'[j].meters => i < j]_vars

\* The engine keeps the promise of Taps: whatever the server, the readers, the
\* clocks and the meters do, each tap has one holder, who is given or loses it in
\* one step, and a pour in progress ends before its tap changes hands
\* (auth_engine.h's contract on replacement, adoption and ending).
HolderOf(m) == attr[m].grant
Pouring(m)  == session[m] > 0

Promise == INSTANCE Taps WITH
  Nobody <- NoGrant,
  holder <- [m \in Meters |-> HolderOf(m)],
  pouring <- [m \in Meters |-> Pouring(m)]

ImplementsTaps == Promise!Spec

\* A grant that flow is charged to and that is at its volume limit is ended in
\* the same step: the valve closes the moment the limit trips.
FlowEndsExhausted ==
  [][\A g \in Live(grants) \cap Live(grants') :
       PouredMl(charged'[g]) > PouredMl(charged[g]) => ~Exhausted(grants'[g], charged'[g])]_vars

Updates(g) == \E s \in Specs : s.id = g /\ Authorize(s)

\* Ticks that ran through meter m while g held it and that no poll or pour end
\* will charge any more
Unbilled(g, m) ==
  owed[g][m] - charged[g][m] - IF session[m] > 0 THEN session[m] - seen[m] ELSE 0

\* With no drip to discard, every tick that runs through a meter a grant keeps
\* is charged to it sooner or later; only an update of the grant lets flow go.
EveryTickCharged ==
  [][\A g \in Live(grants) \cap Live(grants') : \A m \in grants[g].meters \cap grants'[g].meters :
       Unbilled(g, m)' = Unbilled(g, m) \/ Updates(g)]_vars

\* auth_engine.cpp:103: a pour that ended without settling its counter must not
\* poison the next pour's deltas: a pour that starts under a grant starts uncounted.
PourStartsUncounted ==
  [][\A m \in Meters : session[m] = 0 /\ session'[m] > 0 /\ Holders(grants, m) # {} => seen[m] = 0]_vars

\* docs/authenticated-pouring.md:214: an update mid-pour leaves the counters
\* intact: what ran since the last poll is still charged to the grant.
UpdateKeepsCounters ==
  [][\A g \in Live(grants) \cap Live(grants') : \A m \in grants[g].meters \cap grants'[g].meters :
       Updates(g) => Unbilled(g, m)' = Unbilled(g, m)]_vars
=============================================================================
