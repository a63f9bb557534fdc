----------------------------- MODULE GrantTable -----------------------------
(***************************************************************************)
(* The grant table with its clocks: grant_table.* as AuthEngine drives it. *)
(* Every operation stamps what it does with a millisecond clock that wraps *)
(* (2^32 in the code, ClockRange here), and deadlines are compared as      *)
(* signed differences.  The main loop polls the table in every turn, but a *)
(* blocking HTTP request may hold a turn for up to MaxLag; commands, token *)
(* events and flow come at any time.  True ages and idle times are kept    *)
(* beside the wrapped clocks, for the properties to compare with.          *)
(***************************************************************************)
EXTENDS GrantOps, Integers, FiniteSets

CONSTANTS
  Meters,        \* the meters grants may cover
  Specs,         \* the specs the engine lets through
  Detachments,   \* the <<auth_device, token>> pairs readers report gone
  Clamp,         \* max_duration_ms_: the device's bound on any grant's lifetime
  ClockRange,    \* the clock counts modulo this
  MaxLag,        \* longest time between two polls
  MaxPoured      \* bound: volume one grant pours

\* The range is a power of two in the code; that it is even is all it takes.
ASSUME ClockAssumption ==
  /\ ClockRange \in Nat /\ Clamp \in Nat /\ MaxLag \in Nat \ {0}
  /\ ClockRange % 2 = 0 /\ 2 * (Clamp + MaxLag) < ClockRange

\* A spec as the table keeps it, on whatever meters other grants left it
GrantSpec ==
  [id : GrantIds, meters : SUBSET Meters, relays : {s.relays : s \in Specs},
   device : {s.device : s \in Specs}, token : {s.token : s \in Specs},
   maxVolume : Nat, maxDuration : Nat, maxIdle : Nat]

ASSUME SpecsAssumption == Specs \subseteq GrantSpec /\ NoGrant \notin GrantSpec

VARIABLES
  grants,     \* the specs of grants_, by id
  created,    \* created_ms
  lastFlow,   \* last_flow_ms
  lifetime,   \* effective_max_duration_ms
  poured,     \* poured_ml
  now,        \* millis()
  ends,       \* the endings the last operation returned
  age, idle,  \* checking only: true time since creation, since the last flow
  lag         \* checking only: true time since the last poll

vars == <<grants, created, lastFlow, lifetime, poured, now, ends, age, idle, lag>>

-----------------------------------------------------------------------------
(* Helpers *)

\* effective_max_duration_.  Mutant: a request is taken at its word.
EffectiveMaxDuration_Unclamped(requested) == IF requested = 0 THEN Clamp ELSE requested

EffectiveMaxDuration(requested) == IF requested = 0 \/ requested > Clamp THEN Clamp ELSE requested

\* int32_t(now - deadline) >= 0: not more than half the clock's range away.
\* Mutant: the clock and the deadline are compared as they are.
Due_Unsigned(deadline) == now >= deadline % ClockRange

Due(deadline) == (now - deadline) % ClockRange < ClockRange \div 2

\* make_end_: a snapshot of the whole grant, whatever meters it releases.
\* Mutant: the duration is counted from the last flow.
EndOf_SinceFlow(g, released, reason, volume) ==
  [grant |-> g, meters |-> released, reason |-> reason, volume |-> volume,
   duration |-> (now - lastFlow[g]) % ClockRange]

EndOf(g, released, reason, volume) ==
  [grant |-> g, meters |-> released, reason |-> reason, volume |-> volume,
   duration |-> (now - created[g]) % ClockRange]

\* end_grant_ on the grants G: the slots and all they count are gone.
Zeroed(count, G) == [g \in GrantIds |-> IF g \in G THEN 0 ELSE count[g]]

EndGrants(G) ==
  /\ grants' = Ended(grants, G)
  /\ created' = Zeroed(created, G)
  /\ lastFlow' = Zeroed(lastFlow, G)
  /\ lifetime' = Zeroed(lifetime, G)
  /\ age' = Zeroed(age, G)
  /\ idle' = Zeroed(idle, G)

-----------------------------------------------------------------------------
(* Operations *)

Nothing == [g \in GrantIds |-> 0]

Init ==
  /\ grants = [g \in GrantIds |-> NoGrant]
  /\ created = Nothing /\ lastFlow = Nothing /\ lifetime = Nothing /\ poured = Nothing
  /\ now = 0
  /\ ends = {}
  /\ age = Nothing /\ idle = Nothing /\ lag = 0

\* What authorize(s) makes of a clock: a new grant is stamped, an update keeps its
\* stamp.  Mutant: every authorize stamps.
Stamped_Always(clock, s) == [Zeroed(clock, Displaced(grants, s)) EXCEPT ![s.id] = now]

Stamped(clock, s) ==
  [Zeroed(clock, Displaced(grants, s)) EXCEPT ![s.id] = IF s.id \in Live(grants) THEN @ ELSE now]

\* Takeover and shedding first, then an update in place or a new grant: an update
\* replaces sets and limits, and carries creation, flow and volume over.
Authorize(s) ==
  LET gone == Displaced(grants, s)
  IN /\ ends' = {EndOf(g, Lost(grants, s, g), "replaced", poured[g]) : g \in Losers(grants, s)}
     /\ grants' = Authorized(grants, s)
     /\ created' = Stamped(created, s)
     /\ lastFlow' = Stamped(lastFlow, s)
     /\ lifetime' = [Zeroed(lifetime, gone) EXCEPT ![s.id] = EffectiveMaxDuration(s.maxDuration)]
     /\ poured' = Zeroed(poured, gone)
     /\ age' = Zeroed(age, gone)
     /\ idle' = Zeroed(idle, gone)
     /\ UNCHANGED <<now, lag>>

\* deauthorize, and deauthorize_all when ids are all there are
Deauthorize(ids) ==
  LET G == ids \cap Live(grants)
  IN /\ ends' = {EndOf(g, grants[g].meters, "command", poured[g]) : g \in G}
     /\ EndGrants(G)
     /\ poured' = Zeroed(poured, G)
     /\ UNCHANGED <<now, lag>>

\* detach, for a set of <<auth_device, token>> pairs that leave at once
DetachAll(gone) ==
  LET G == UNION {Presented(grants, p[1], p[2]) : p \in gone}
  IN /\ ends' = {EndOf(g, grants[g].meters, "detach", poured[g]) : g \in G}
     /\ EndGrants(G)
     /\ poured' = Zeroed(poured, G)
     /\ UNCHANGED <<now, lag>>

OverLimit(g, volume) == grants[g].maxVolume > 0 /\ volume >= grants[g].maxVolume

\* record_flow: restarts the idle clock, accrues, and ends the grant at its limit
RecordFlow(m, delta) ==
  \E g \in Holders(grants, m) :
    LET volume  == poured[g] + delta
        stamped == [lastFlow EXCEPT ![g] = now]
        G       == IF OverLimit(g, volume) THEN {g} ELSE {}
    IN /\ volume <= MaxPoured
       /\ ends' = {EndOf(h, grants[h].meters, "max_volume", volume) : h \in G}
       /\ grants' = Ended(grants, G)
       /\ created' = Zeroed(created, G)
       /\ lastFlow' = Zeroed(stamped, G)
       /\ lifetime' = Zeroed(lifetime, G)
       /\ poured' = Zeroed([poured EXCEPT ![g] = volume], G)
       /\ age' = Zeroed(age, G)
       /\ idle' = Zeroed([idle EXCEPT ![g] = 0], G)
       /\ UNCHANGED <<now, lag>>

\* poll: the lifetime is looked at before the idle limit.
\* Mutant: it is counted from the last flow.
TooOld_SinceFlow(g) == Due(lastFlow[g] + lifetime[g])

TooOld(g) == Due(created[g] + lifetime[g])
TooIdle(g) == grants[g].maxIdle > 0 /\ Due(lastFlow[g] + grants[g].maxIdle)

Poll ==
  LET old  == {g \in Live(grants) : TooOld(g)}
      idlers == {g \in Live(grants) \ old : TooIdle(g)}
  IN /\ ends' = {EndOf(g, grants[g].meters, "max_duration", poured[g]) : g \in old}
                  \cup {EndOf(g, grants[g].meters, "max_idle", poured[g]) : g \in idlers}
     /\ EndGrants(old \cup idlers)
     /\ poured' = Zeroed(poured, old \cup idlers)
     /\ lag' = 0
     /\ UNCHANGED now

\* A millisecond goes by; the next poll is never further away than MaxLag.
Pass ==
  /\ lag < MaxLag
  /\ lag' = lag + 1
  /\ now' = (now + 1) % ClockRange
  /\ age' = [g \in GrantIds |-> IF g \in Live(grants) THEN age[g] + 1 ELSE 0]
  /\ idle' = [g \in GrantIds |-> IF g \in Live(grants) THEN idle[g] + 1 ELSE 0]
  /\ ends' = {}
  /\ UNCHANGED <<grants, created, lastFlow, lifetime, poured>>

Next ==
  \/ \E s \in Specs : Authorize(s)
  \/ \E ids \in SUBSET GrantIds : Deauthorize(ids)
  \/ \E gone \in SUBSET Detachments : DetachAll(gone)
  \/ \E m \in Meters : RecordFlow(m, 1)
  \/ Poll
  \/ Pass

Spec == Init /\ [][Next]_vars

-----------------------------------------------------------------------------
(* Properties *)

\* No grant outlives the device's clamp by more than one stall of the main loop,
\* whatever updates the server sends and wherever the clock wraps.
ClampBoundsLifetime == \A g \in Live(grants) : age[g] <= Clamp + MaxLag

\* A poll leaves no grant alive that is at its (clamped) duration or idle limit:
\* a limit is never missed because of where the clock wrapped.
PollEndsTheDue ==
  [][lag' = 0 /\ lag > 0 =>
       \A g \in Live(grants') :
         /\ age'[g] < EffectiveMaxDuration(grants'[g].maxDuration)
         /\ grants'[g].maxIdle = 0 \/ idle'[g] < grants'[g].maxIdle]_vars

\* No grant is ended early: for its age only when it is that old, for idling only
\* after the longest stretch with no flow that docs/kegboard-event-protocol.md
\* lets it have.
NoEarlyExpiry ==
  [][\A e \in ends' :
       /\ e.reason = "max_duration" => age[e.grant] >= EffectiveMaxDuration(grants[e.grant].maxDuration)
       /\ e.reason = "max_idle" => idle[e.grant] >= grants[e.grant].maxIdle]_vars

\* While a grant lives nothing takes back what it poured or its creation: an
\* update is a top-up, never a fresh start, and only flow restarts the idle clock.
CountersCarryOver ==
  [][\A g \in Live(grants) \cap Live(grants') :
       /\ poured'[g] >= poured[g] /\ created'[g] = created[g]
       /\ lastFlow'[g] # lastFlow[g] => poured'[g] > poured[g]]_vars

\* The grant_end says how long the grant lived and what it poured, the flow that
\* tripped its limit included.
EndTellsTheTruth ==
  [][\A e \in ends' :
       /\ e.duration = age[e.grant]
       /\ e.volume = poured[e.grant] + IF e.reason = "max_volume" THEN 1 ELSE 0]_vars
=============================================================================
