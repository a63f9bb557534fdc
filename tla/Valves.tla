------------------------------- MODULE Valves -------------------------------
(***************************************************************************)
(* The grant table with the relays it holds and the watchdog script of each*)
(* (packages/relays.yaml).  A relay goes on when a grant that names it is  *)
(* applied and off when the last such grant ends; the watchdog's timer runs*)
(* from the moment the relay went on, and turning on a relay that is on    *)
(* does not start it again.  Only grants turn relays on here.              *)
(***************************************************************************)
EXTENDS GrantTable

CONSTANTS
  Relays,
  Timeout     \* relay_watchdog_timeout

VARIABLES
  relay,      \* which relays are energized
  onFor       \* the timer: how long each has been, 0 while it is off

ValveVars == <<relay, onFor>>

ValvesInit ==
  /\ Init
  /\ relay = [r \in Relays |-> FALSE]
  /\ onFor = [r \in Relays |-> 0]

\* The relays after a step of the table that opens the valves of `opened`
Follow(opened) ==
  /\ relay' = [r \in Relays |->
                  r \in opened \/ (relay[r] /\ (Covered(grants, r) => Covered(grants', r)))]
  /\ onFor' = [r \in Relays |-> IF relay[r] /\ relay'[r] THEN onFor[r] ELSE 0]

Apply(s) == Authorize(s) /\ Follow(s.relays)

\* A command, a token that leaves, flow, a poll
End ==
  /\ \/ \E ids \in SUBSET GrantIds : Deauthorize(ids)
     \/ \E gone \in SUBSET Detachments : DetachAll(gone)
     \/ \E m \in Meters : RecordFlow(m, 1)
     \/ Poll
  /\ Follow({})

\* A timer that ran out is seen in the next turn of the main loop.
Wait ==
  /\ \A r \in Relays : onFor[r] < Timeout + MaxLag
  /\ Pass
  /\ onFor' = [r \in Relays |-> IF relay[r] THEN onFor[r] + 1 ELSE 0]
  /\ UNCHANGED relay

\* The watchdog script turns the relay off.
Expire(r) ==
  /\ relay[r] /\ onFor[r] >= Timeout
  /\ relay' = [relay EXCEPT ![r] = FALSE]
  /\ onFor' = [onFor EXCEPT ![r] = 0]
  /\ UNCHANGED vars

ValvesNext ==
  \/ \E s \in Specs : Apply(s)
  \/ End
  \/ Wait
  \/ \E r \in Relays : Expire(r)

ValvesSpec == ValvesInit /\ [][ValvesNext]_<<vars, ValveVars>>

-----------------------------------------------------------------------------
(* Properties *)

\* examples/kegbot-full.yaml:11: with a timeout longer than the clamp on grants
\* the watchdog never closes a granted valve mid-grant.
NeverCutMidGrant ==
  [][\A r \in Relays : relay[r] /\ ~relay'[r] => ~Covered(grants', r)]_<<vars, ValveVars>>

\* What is true of it: the watchdog never closes a valve under the grant that
\* opened it, only under one that found the valve open when it began.
OwnValveNotCut ==
  [][\A r \in Relays, g \in Live(grants') :
       relay[r] /\ ~relay'[r] /\ r \in grants'[g].relays => onFor[r] > age[g]]_<<vars, ValveVars>>
=============================================================================
