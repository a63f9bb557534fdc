--------------------------- MODULE SimulatorPours ---------------------------
(***************************************************************************)
(* Pours and grants in tools/kegboard-sim.py.  Every glass is a coroutine  *)
(* that sleeps, lets some beer flow and reports it, and the same goes for  *)
(* whoever applies a command, watches a grant or reboots the device: they  *)
(* take turns at each await.  A grant is a dict shared by its meters, and  *)
(* a coroutine tells its segment of a pour from another's by identity; so  *)
(* grants are numbered as they are made, and a segment knows its glass.    *)
(* Left out: clocks (a limit may be reached at any time, a flush may take  *)
(* any time) and delivery, which is Simulator's.                           *)
(***************************************************************************)
EXTENDS Naturals, FiniteSets, Sequences, SequencesExt

CONSTANTS
  Meters,       \* the keys of self.totals, the inventory of meters and of relays
  GrantIds,     \* what a server may call its grants
  Specs,        \* what authorize commands carry
  Button,       \* the token of the iButton, the one that can be detached
  Glasses,      \* bound: the pours a user starts
  Steps,        \* updates in a pour
  MaxFlow,      \* bound: volume in a step
  MaxGrants,    \* bound: grants made in one boot
  MaxReboots    \* bound: reboots

ASSUME PoursAssumption ==
  /\ IsFiniteSet(Meters)
  /\ Steps \in Nat \ {0} /\ MaxFlow \in Nat \ {0} /\ MaxGrants \in Nat /\ MaxReboots \in Nat
  /\ \A s \in Specs : s.id \in GrantIds /\ s.maxVolume \in Nat

Guest == 0
NoPour == [glass |-> 0, grant |-> Guest, poured |-> 0]

VARIABLES
  grants,     \* self.grants: the grant that covers each meter, or Guest
  made,       \* the grant dicts of this boot, by number
  pours,      \* self.pours: the segment in flight on each meter
  glass,      \* where each pour coroutine stands
  presence,   \* presented_presence: the iButton is on its reader
  boots,      \* bound: reboots so far
  out,        \* events the last step queued, in order
  drawn,      \* checking only: what flowed through each meter
  told,       \* checking only: what pour events reported of it
  toldFor,    \* checking only: ... by the grant they name
  spilt,      \* checking only: what reboots forgot of it
  contested   \* checking only: meters on which two glasses were filled at once

vars == <<grants, made, pours, glass, presence, boots, out, drawn, told, toldFor, spilt, contested>>

-----------------------------------------------------------------------------
(* Helpers.  What a coroutine changes between two awaits is a record d. *)

Device == [grants |-> grants, made |-> made, pours |-> pours, told |-> told,
           toldFor |-> toldFor, out |-> <<>>]

SetDevice(d) ==
  /\ grants' = d.grants /\ made' = d.made /\ pours' = d.pours
  /\ told' = d.told /\ toldFor' = d.toldFor /\ out' = d.out

HeldBy(o) == {m \in Meters : grants[m] = o}

\* begin_segment: it starts under the grant that covers the meter now.
Segment(d, c, m) == [glass |-> c, grant |-> d.grants[m], poured |-> 0]

PourEvent(m, p) == [type |-> "pour", meter |-> m, grant |-> p.grant, volume |-> p.poured]
GrantEndEvent(o, released) == [type |-> "grant_end", grant |-> o, meters |-> released]

\* _finish_pour: one that nothing flowed in is dropped.
FinishPour(m, d) ==
  LET p == d.pours[m]
      over == [d EXCEPT !.pours[m] = NoPour]
  IN IF p.poured = 0 THEN over
     ELSE [over EXCEPT !.told[m] = @ + p.poured,
                       !.toldFor[p.grant] = @ + p.poured,
                       !.out = Append(@, PourEvent(m, p))]

\* _end_grants: the grants leave these meters; of each the pours end first.
\* Mutant: grant_end goes first.
Ending_EndFirst(d, o, released) ==
  FoldSet(FinishPour, [d EXCEPT !.out = Append(@, GrantEndEvent(o, released))], released)

Ending(d, o, released) ==
  LET e == FoldSet(FinishPour, d, released)
  IN [e EXCEPT !.out = Append(@, GrantEndEvent(o, released))]

EndGrants(d, meters) ==
  FoldSet(LAMBDA o, e : Ending(e, o, {m \in meters : d.grants[m] = o}),
          [d EXCEPT !.grants = [m \in Meters |-> IF m \in meters THEN Guest ELSE @[m]]],
          {d.grants[m] : m \in meters} \ {Guest})

-----------------------------------------------------------------------------
Init ==
  /\ grants = [m \in Meters |-> Guest] /\ made = <<>>
  /\ pours = [m \in Meters |-> NoPour]
  /\ glass = [c \in Glasses |-> [at |-> "new", meter |-> Guest, step |-> 0]]
  /\ presence = FALSE /\ boots = 0 /\ out = <<>>
  /\ drawn = [m \in Meters |-> 0] /\ told = drawn /\ spilt = drawn
  /\ toldFor = [o \in 0..MaxGrants |-> 0]
  /\ contested = {}

Filling(m) == {c \in Glasses : glass[c].at \in {"asleep", "sending"} /\ glass[c].meter = m}

\* pour, up to its first await: refused while a segment is in flight.  After a grant
\* boundary none is, though a glass may still be filling.
Pour(c, m) ==
  /\ glass[c].at = "new" /\ pours[m] = NoPour
  /\ pours' = [pours EXCEPT ![m] = Segment(Device, c, m)]
  /\ glass' = [glass EXCEPT ![c] = [at |-> "asleep", meter |-> m, step |-> 0]]
  /\ contested' = contested \cup IF Filling(m) = {} THEN {} ELSE {m}
  /\ out' = <<>>
  /\ UNCHANGED <<grants, made, presence, boots, drawn, told, toldFor, spilt>>

\* The coroutine wakes: a segment that is no longer its own was ended by a grant
\* boundary, and a new one opens.  k flows, which a grant on the meter adopts.
\* Mutant: one opens at every step, and forgets the last.
Current_Fresh(d, c, m) == Segment(d, c, m)

Current(d, c, m) == IF d.pours[m].glass = c THEN d.pours[m] ELSE Segment(d, c, m)

\* Mutant: the grant's part of a glass is what was poured since its start.
Charge_FromStart(d, c, m, k) == Current(d, c, m).poured + k
Charge(d, c, m, k) == k

Filled(d, c, m, k) ==
  LET o == d.grants[m]
      p == [Current(d, c, m) EXCEPT !.poured = @ + k]
  IN IF o = Guest
     THEN [d EXCEPT !.pours[m] = p]
     ELSE [d EXCEPT !.pours[m] = [p EXCEPT !.grant = o],
                    !.made[o].poured = @ + Charge(d, c, m, k)]

Exhausted(d, o) == o # Guest /\ d.made[o].maxVolume > 0 /\ d.made[o].poured >= d.made[o].maxVolume

\* The turn of the loop of pour that ends at d: the next one sleeps; after the last
\* the pour ends, whosever the segment.
TurnEnds(c, d) ==
  LET m == glass[c].meter
      over == glass[c].step + 1 = Steps
  IN /\ SetDevice(IF over THEN FinishPour(m, d) ELSE d)
     /\ glass' = [glass EXCEPT ![c].at = IF over THEN "done" ELSE "asleep", ![c].step = @ + 1]

\* A volume limit ends the grant on all its meters, and no update is sent; nor is
\* one when the connection is bad.
Flow(c, k) ==
  LET m == glass[c].meter
      d == Filled(Device, c, m, k)
  IN /\ glass[c].at = "asleep"
     /\ drawn' = [drawn EXCEPT ![m] = @ + k]
     /\ IF Exhausted(d, grants[m])
        THEN TurnEnds(c, EndGrants(d, HeldBy(grants[m])))
        ELSE \/ TurnEnds(c, d)
             \/ SetDevice(d) /\ glass' = [glass EXCEPT ![c].at = "sending"]
     /\ UNCHANGED <<presence, boots, spilt, contested>>

\* flush of the update returns; commands and other coroutines ran meanwhile.
Sent(c) ==
  /\ glass[c].at = "sending"
  /\ TurnEnds(c, Device)
  /\ UNCHANGED <<presence, boots, drawn, spilt, contested>>

-----------------------------------------------------------------------------
(* Commands *)

\* The checks of authorize: meters and relays are of one inventory.
Acceptable(s) == s.meters # {} /\ s.meters \subseteq Meters /\ s.relays \subseteq Meters

Existing(s) == {o \in DOMAIN made : HeldBy(o) # {} /\ made[o].id = s.id}

\* The meters s takes from other grants, and those its update sheds.
Losing(s) ==
  {m \in Meters : grants[m] # Guest /\ (grants[m] \in Existing(s)) # (m \in s.meters)}

\* The dict is made, or updated in place; what was poured stays.
Granted(d, s) ==
  LET o == IF Existing(s) = {} THEN Len(d.made) + 1 ELSE CHOOSE x \in Existing(s) : TRUE
      dict == [id |-> s.id, token |-> s.token, maxVolume |-> s.maxVolume,
               poured |-> IF Existing(s) = {} THEN 0 ELSE d.made[o].poured]
  IN [d EXCEPT !.made = IF Existing(s) = {} THEN Append(@, dict) ELSE [@ EXCEPT ![o] = dict],
               !.grants = [m \in Meters |-> IF m \in s.meters THEN o ELSE @[m]]]

Authorize(s) ==
  /\ Acceptable(s)
  /\ Existing(s) # {} \/ Len(made) < MaxGrants
  /\ SetDevice(Granted(EndGrants(Device, Losing(s)), s))
  /\ UNCHANGED <<glass, presence, boots, drawn, spilt, contested>>

\* An authorize that is not applied, a deny, or an unknown command
Decline ==
  /\ \E s \in Specs : ~Acceptable(s)
  /\ SetDevice(Device)
  /\ UNCHANGED <<glass, presence, boots, drawn, spilt, contested>>

Deauthorize(ids) ==
  /\ SetDevice(EndGrants(Device, {m \in Meters : grants[m] # Guest /\ made[grants[m]].id \in ids}))
  /\ UNCHANGED <<glass, presence, boots, drawn, spilt, contested>>

-----------------------------------------------------------------------------
(* Everything else that ends grants *)

\* _watch_grant finds the duration or the idle limit reached.
WatchGrant(o) ==
  /\ HeldBy(o) # {}
  /\ SetDevice(EndGrants(Device, HeldBy(o)))
  /\ UNCHANGED <<glass, presence, boots, drawn, spilt, contested>>

PresentToken ==
  /\ presence' = TRUE
  /\ out' = <<>>
  /\ UNCHANGED <<grants, made, pours, glass, boots, drawn, told, toldFor, spilt, contested>>

DetachToken ==
  /\ presence /\ presence' = FALSE
  /\ SetDevice(EndGrants(Device, {m \in Meters : grants[m] # Guest /\ made[grants[m]].token = Button}))
  /\ UNCHANGED <<glass, boots, drawn, spilt, contested>>

\* The dicts are cleared; the pour coroutines do not notice.
Reboot ==
  /\ boots < MaxReboots /\ boots' = boots + 1
  /\ grants' = [m \in Meters |-> Guest] /\ made' = <<>>
  /\ pours' = [m \in Meters |-> NoPour]
  /\ presence' = FALSE
  /\ out' = <<>>
  /\ toldFor' = [o \in 0..MaxGrants |-> 0]
  /\ spilt' = [m \in Meters |-> spilt[m] + pours[m].poured]
  /\ UNCHANGED <<glass, drawn, told, contested>>

Next ==
  \/ \E c \in Glasses, m \in Meters : Pour(c, m)
  \/ \E c \in Glasses, k \in 1..MaxFlow : Flow(c, k)
  \/ \E c \in Glasses : Sent(c)
  \/ \E s \in Specs : Authorize(s)
  \/ Decline
  \/ \E ids \in SUBSET GrantIds : Deauthorize(ids)
  \/ \E o \in 1..MaxGrants : WatchGrant(o)
  \/ PresentToken \/ DetachToken \/ Reboot

Spec == Init /\ [][Next]_vars

-----------------------------------------------------------------------------
(* Properties *)

\* docs/kegboard-event-protocol.md:159: a pour is recorded once, when it ends.  All
\* that flows through a meter is in one pour event sooner or later, however
\* often grants come and go while a glass is filled, and whichever limit, command
\* or token ends them; only a reboot forgets what is in flight.  Two glasses on
\* one meter each take the other's segment for a grant boundary and lose it.
PouredIsReported ==
  \A m \in Meters \ contested : drawn[m] = told[m] + pours[m].poured + spilt[m]

\* What a grant is charged was or will be reported by pours that name it, so that
\* the volume of its grant_end can be checked against them.
ChargedIsReported ==
  contested = {} =>
    \A o \in DOMAIN made :
      LET filled == {m \in Meters : pours[m].grant = o}
      IN made[o].poured <= toldFor[o] + SumFunctionOnSet([m \in Meters |-> pours[m].poured], filled)

\* A pour that was charged to a grant is queued before the grant_end that
\* releases its meter.
PourPrecedesGrantEnd ==
  [][\A i, j \in DOMAIN out' :
       out'[i].type = "grant_end" /\ out'[j].type = "pour" /\ out'[j].meter \in out'[i].meters => j < i]_vars
=============================================================================
