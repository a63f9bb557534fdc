# A TLA+ model of Kegboard

Kegboard v4 is the firmware of a networked kegerator controller: C++ components
on ESPHome under `src/components/`, and a simulator of the same device in Python,
`src/tools/kegboard-sim.py`. It meters pours, authorizes them with grants that a
server issues, drives valves, and reports what happened over HTTP. This directory
models the part of it that keeps state and makes decisions, checks the models
with TLC and proves their central invariants with TLAPS.

Contents: [the system](#1-the-system) · [modules](#2-the-modules) ·
[model and code](#3-model-and-code) · [runs](#4-the-runs) ·
[fairness](#5-fairness) · [proofs](#6-the-proofs) ·
[where code and documents differ](#7-where-the-code-and-what-is-said-of-it-differ) ·
[not modelled](#8-what-is-not-modelled) · [plan](#9-the-plan)

## 1. The system

### 1.1 Components

| Component | State it keeps | Operations |
|---|---|---|
| **GrantTable** (`grant_table.*`) | the live grants: scope, limits, `created_ms`, `last_flow_ms`, `poured_ml`, the clamped lifetime | `authorize`, `deauthorize`, `deauthorize_all`, `detach`, `record_flow`, `poll`; each returns the endings it caused |
| **AuthEngine** (`auth_engine.*`) | `pour_seen_ml_`, per meter the volume of the pour in flight already recorded against a grant | `authorize`, `deauthorize`, `revoke_all`, `detach`, `on_pour_end`, `poll`, and `process_ends_` behind all of them |
| **KegboardAuth** (`kegboard_auth.*`) | the engine and its wiring: which callback ends a pour, sets an attribution, switches a relay | command handler, token attached and detached, the main loop's poll |
| **KegboardMeter** (`kegboard_meter.*`) | `isr_ticks_`, shared with the interrupt handler; the attribution of the next pour event | `gpio_intr`, `loop`, `end_pour`, `reset_total`, attribution setters |
| **PourSession** (`pour_session.*`) | the pour in flight: ticks, start, last tick; the lifetime total | `add_ticks`, `poll`, `end`, `finish_` |
| **TickSeries** (`tick_series.*`) | up to 64 time buckets of the pour in flight | `reset`, `add`, `coarsen_` |
| **KegboardReporter**, **RingQueue** (`kegboard_reporter.*`, `ring_queue.h`) | the event queue, the drop counts, heartbeat and update clocks, the bearer token (the only state in flash) | `enqueue_`, `loop`, `send_batch_`, `handle_response_`, `dispatch_commands_`, `send_token_ask` |
| **Delivery** (`delivery.*`) | the attempt clock, consecutive failures, pairing state, the ledger of recent command ids | `on_accepted`, `on_transient`, `on_pairing_*`, `command_result`, `record_command` |
| **KegboardOneWire** (`kegboard_onewire.*`) | per button a miss counter | `update`, one search of the bus |
| **Relays** (`packages/relays.yaml`) | on or off, and a watchdog script whose timer starts at the on-edge | turn on, turn off, by the engine or from outside (Home Assistant, YAML); watchdog |
| **Simulator** (`tools/kegboard-sim.py`) | the same device as asyncio coroutines: queue, token, switches; grants as dicts shared by their meters, segments of pours | `flush`, `enqueue`, commands, pairing, `replay_last`, `reboot`; `pour`, `_end_grants`, `_watch_grant`, tokens |
| **Configuration** (`__init__.py` of every component) | what a file declares, and the statements generated from it | schemas, two final validations, `to_code` coroutines |
| Hub, event serialization, packages, scripts | none that changes while the device runs | see [section 8](#8-what-is-not-modelled) |

### 1.2 How they interact

* **The main loop** calls every component's `loop()` in turn and never preempts
  one. A meter's loop may end its pour, which calls `handle_pour_end_`, the
  reporter's `enqueue_` and, through the trigger, `AuthEngine::on_pour_end`, which
  may end a grant, which ends pours on its other meters: a callback chain that
  comes back to where it started, inside one turn.
* **The interrupt handler** `gpio_intr` is the only real preemption on the board.
  It shares one counter with the loop, under an `InterruptLock`.
* **The server** only ever answers. Commands (`authorize`, `deauthorize`, ...) ride
  on the response to a batch of events and are acknowledged by an event of a later
  batch. The HTTP request blocks the main loop.
* **Token readers** ask the server from inside the handler of a token event, and
  end grants when a token is removed.
* **The watchdog** of a relay turns it off on its own clock, and Home Assistant or YAML
  may turn it on and off past the engine.
* **A search** for buttons ends the grants of the buttons it gives up, through the
  `on_token_detached` trigger, in the middle of the reader's loop.
* **The simulator** has no blocking request: its coroutines interleave at every
  `await`, in particular between the snapshot of the queue and the deletion of
  what was sent, and between two steps of a glass that is being filled.
* **ESPHome** reads the YAML file, runs every component's schema and final
  validation, then all `to_code` coroutines at once; one that asks for a variable
  waits for the one that declares it.

### 1.3 What is hard here, and what must hold

| Component | Hard behaviour | Properties |
|---|---|---|
| GrantTable | scopes taken over in part, updates in place, three limits on a clock that wraps, a main loop that stalls in a request | `ClampBoundsLifetime`, `PollEndsTheDue`, `NoEarlyExpiry`, `CountersCarryOver`, `EndTellsTheTruth` |
| AuthEngine and the wiring | the order of events, attribution and relays inside the callback chain; baselines that outlive the pour they belong to; relays shared by grants | `OneGrantPerMeter`, `AttributionFollowsGrants`, `PourHasOneDrinker`, `NoOvercharge`, `EveryTickCharged`, `FlowEndsExhausted`, `EveryReleaseReported`, `PourPrecedesGrantEnd`, `ValveNeedsGrant`, `ValveHeldOpen`, `ImplementsTaps` |
| Relays and their watchdog | a timer that runs from the on-edge, under grants that take over or overlap | `NeverCutMidGrant` (which the code does not keep), `OwnValveNotCut` |
| Meter and PourSession | the interrupt between any two instructions; timeouts on a wrapping clock; forced ends and discarded drips | `TicksConserved`, `TotalCountsAll`, `PourBounded`, `EndsOnlyWhenOver`, `RecordTellsTheTruth` |
| TickSeries, in the pours of a meter | repeated coarsening, odd last bucket, sparse pours, drips | `RecordCarriesSeries`, `OffsetsAligned` |
| Reporter | lost, truncated and late exchanges, rejection, a full queue, restarts | `LossIsCounted`, `NoOvertaking`, `NotReappliedInWindow`, `CommandsAnswered` |
| Delivery | backoff, pairing cadence, urgent events and updates that bypass the attempt clock, the wrap | `NeverStarves`, `HeartbeatBoundsLatency`, `BackoffHonoured`, `PairingPaced` |
| OneWire | intermittent contact, a counter of one byte | `AbsenceNoticed`, `NoFlapping` |
| Simulator: delivery | evictions, new events, updates that wait for the lock, revoked pairings and reboots during an exchange | `LossIsCountedUnlessRaced`, `CommandsAnswered` |
| Simulator: pours | grants that come, go and run out between two steps of a glass, two glasses at once | `PouredIsReported`, `ChargedIsReported`, `PourPrecedesGrantEnd` |
| Configuration | defaults that collide, lists that repeat or leave out, coroutines that wait for each other | `NumbersIdentifyPorts`, `GenerationEnds` |

## 2. The modules

| Module | Models | Built on |
|---|---|---|
| `GrantOps` | the grant table as a value: who holds a meter, what a spec takes, what is left | |
| `GrantTable` | the table with clocks, limits and counters | `GrantOps` |
| `Taps` | the abstract promise of the engine: who holds a tap and whether it pours | |
| `AuthEngine` | the engine, the pours it steers, attribution, relays, watchdog; an implementation of `Taps` | `GrantOps`, `Taps` |
| `Meter` | one meter: interrupt, loop, pour session | |
| `TickSeries` | the tick buckets of a pour, as a value | |
| `PourSeries` | a meter whose pour session keeps a tick series | `Meter`, `TickSeries` |
| `Reporter` | the queue, batches, responses, command ledger, with network and server | |
| `Delivery` | when the reporter sends | |
| `OneWire` | button presence | |
| `Presence` | searches that end the grants of buttons that left, between the table's own steps | `GrantTable`, `OneWire` |
| `Valves` | the relays that grants hold and the timer of their watchdog | `GrantTable` |
| `Simulator` | the simulator's delivery, await by await | |
| `SimulatorPours` | the simulator's pours and grants, await by await | |
| `BoardConfig` | validation and code generation, up to the tables of the running board | |
| `MCAuthEngine`, `MCPresence`, `MCValves`, `MCReporter`, `MCSimulator`, `MCSimulatorPours`, `MCBoardConfig` | the model values, grant specs and files of the small instances | |
| `AuthEngineProofs`, `GrantTableProofs`, `MeterProofs`, `ReporterProofs`, `DeliveryProofs`, `BoardConfigProofs`, `SimulatorProofs`, `SimulatorPoursProofs` | theorems and their proofs | the component's module; `MeterProofs` extends `PourSeries`, which extends `Meter`; `AuthEngineProofs` also proves that `AuthEngine` implements `Taps`, and `GrantTableProofs` extends `Presence` and `Valves`, with the theorems about `OneWire`, `Presence` and `Valves` at its end |

`AuthEngine` is a composition: engine, grant table, all meters, all relays and the
reporter's view of the events. `PourSeries` composes the meter with its series, `Presence` the
table with the reader, `Valves` the table with the relays. `GrantTable`, `Meter` and
`Valves` model what `AuthEngine` leaves out, the clocks; there a poll may find any grant
due, a pour may end in any loop and a watchdog may fire at any time, which covers every
timing. In the same way `Reporter` leaves to `Delivery` when an
attempt is due: it may be at any time. The simulator's delivery and its pours meet
only in the queue, which each sees through the events it adds: `Simulator` lets
another coroutine queue an event at any time, `SimulatorPours` lets a flush take
any time.

Definitions whose name ends in an underscore and a word (`Tripped_BeforeFlow`)
are mutants: the definition before a plausible mistake. They stand beside the one
they spoil, and each property is known to fail when its mutant takes the place of
the original.

## 3. Model and code

`PROJECT.json` maps every definition to the lines it models. What follows is the
correspondence of state and steps, and what is abstracted.

**GrantOps / GrantTable.** `grants` is `grants_`, indexed by id instead of
scanned; lists of meters and relays are sets. `created`, `lastFlow`, `lifetime`,
`poured` are the fields of `Grant`. `Authorize` is takeover, shedding, then update
in place or creation, in one step, because the code does it in one call. `Due` is
the `int32_t` comparison: a deadline is due when it lies less than half the clock's
range back. `age` and `idle` are true times that only the properties read.

**AuthEngine.** One action is one handler with all callbacks. `session` is the
ticks of each meter's pour (volume is counted in ticks), `seen` is `pour_seen_ml_`,
`attr` and `relay` what the callbacks set, `out` the events the handler queued, in
order. `EndGrants` is `process_ends_` for endings of whole grants; `Authorize` has
its own form since it releases part of a scope. `due` is the set of meters that
have not looped in this turn: a poll comes after every meter, anything else comes
in between. `charged` splits `poured_ml` by meter, so that properties can speak of
one meter; `owed` and `drinkers` record what really ran under whom. `Watchdog(r)` turns
off any relay at any time; the relays of `Manual` are also switched from outside
(`Switch`). So whether a relay is on is not a matter of the table alone, and the two
valve properties are about steps: what opens it, and what closes it under a grant.

**Presence, Valves.** `Search(found)` is one search with what its triggers do: all
grants of all buttons given up (`DetachAll`) end in that step, since nothing else runs
in between. In `Valves` the operations of the table move the relays as the engine
does: `Apply` opens those of the spec, whatever ends the last grant of a relay closes
it. `onFor` is the timer of the watchdog script: it starts when a relay goes from off to
on and runs on while it stays on, whichever grants come and go. Here only grants turn
relays on.

**Taps.** `holder` is, under the mapping `HolderOf` and `Pouring` of `AuthEngine`, the
grant that a meter's attribution names, and `pouring` whether its session has
ticks. Table, baselines, counts, relays and events are forgotten. `Grant` is what
`authorize` promises, `End` what every other handler that ends grants does, `Stop`
the end of a pour with the grant it exhausts, `Pour` beer that flows.

**Meter.** `LoopTake` is the locked read-and-clear, `LoopRest` the rest of `loop()`
with `PourSession::add_ticks`, `poll` and `finish_`; `GpioIntr` is enabled before,
between and after. Edges are those that pass the debounce filter.

**TickSeries, PourSeries.** The buffer is a sequence of the buckets in use, `Fresh` is
`reset`, `Added` is `add`; `Coarsened` is the pairwise merge followed by the merge of
equal offsets. Each action of `PourSeries` is one of `Meter` together with what the
same handler does to `series_`: `Fed` in `add_ticks`, `Handed` in `finish_`; `sent` is
the series of the record. Series times are the differences on the wrapped clock,
as in the code.

**Reporter.** An event is its boot, its id and the command it acknowledges; the
body is left out; `applied` is the commands that took effect in this boot, in order.
Each outcome of `send_batch_` is an action: accepted, accepted
with a truncated body, accepted with a lost response, lost, rejected,
unauthorized, or timed out with the request still on its way (`LateArrival`).
Server and network are external: they do what the protocol lets them, and a response
carries the `outstanding` commands in any order, which is more than the protocol's
oldest first.

**Delivery.** `LoopSends` and `LoopWaits` are the two ways through
`KegboardReporter::loop`, the answer to an exchange comes with the step that asks.
`Exchange` is `handle_response_` with `Delivery`'s reaction to each answer.
`QueueUrgent` stands for the events whose `enqueue_` resets the backoff,
`QueueQuiet` for those whose does not.

**OneWire.** `Update(found)` is one search; `ByteRange` is 256 in the code. Its
specification is `ReaderSpec`.

**Simulator.** `Send` runs `flush` up to its `await`, the `Return...` actions run
the rest; everything else may come in between. `flight` is the exchange that holds
`_send_lock`. A `pour_update` is made, with its id, before its `flush` waits for the
lock: `updates` are those that wait. As in `Reporter`, a response carries the
`outstanding` commands in any order. The server may ask for a token or for none.
`switches` are the three that the user can turn, `Restart` is a new process that finds only its token in the state file.

**SimulatorPours.** A segment of `pours` is told from another by its glass, as the
code tells dicts by identity; grants are numbered as they are made, so `made[o]` is
the dict and `grants` the references to it. `Flow` is one turn of the loop of `pour`
from its `sleep` to its next `await`, with the limit that it may trip; `Sent` is the
return of the update's `flush`. `WatchGrant` may find a limit reached at any time.
`drawn`, `told`, `toldFor`, `spilt` and `contested` are what the properties compare.

**BoardConfig.** A file is a record of the references and numbers in it, and of
whether the settings that refer to nothing pass their check. Each `to_code` is a
sequence of steps, a step its next `get_variable` with the statements up to the
one after; `Generate(c)` lets any coroutine go on whose variables are declared.
`Boot` is `KegboardAuth::setup`, which copies the reporter's list.

## 4. The runs

Each cfg bears the name of its run. Deadlock is checked except in
`ReporterDelivery` and `SimulatorDelivery`, where the bounds on events, failures and
reboots may be used up with the queue empty and nothing left to do, and in
`BoardConfig`, where a file that is rejected or running is the end.

| Run | Shows | Bounds, and why they suffice |
|---|---|---|
| `AuthEngineTakeover` | ownership, attribution, charging, valves, the order of reports, and that every step is one of `Taps`, under every interleaving of takeovers, updates, partial releases, endings, detaches, drips, forced pour ends, a watchdog and outside switching | two meters, one relay that both grants name, two ids, five specs of which one names an unknown meter; pours of up to two ticks with one tick a drip. Every property relates at most two grants on one meter, or one grant on two |
| `AuthEngineBudget` | every tick is charged once and the limit trips in the step that reaches it, with no drips and bursts of two ticks, so a limit may be jumped over | one id with two budgets, so that it is raised and lowered mid-pour, and a rival |
| `GrantTablePresence` | the time limits, the clamp and the counters, in true time, and that a button that left is noticed and one in bad contact is not, whose departure ends its grants | clamp 2, stalls up to 2, a clock of 10: the smallest that satisfies `ClockAssumption`, so it wraps within a grant's life, once at most. Specs with and without each limit, one beyond the clamp. One button (buttons do not touch each other's counters), one miss tolerated, a two-bit counter. 461 000 states |
| `MeterPour` | ticks, pour ends, and the series each record carries | six edges, clock of 10, stalls of 2: the pour is longer than its cutoff, and its timeout straddles the wrap. A series of 3 buckets (odd, unlike the code's 64, so that the odd bucket occurs), which a pour fills and coarsens; recording on and off |
| `ReporterDelivery` | at-least-once delivery or owned-up loss, order, one application, and that commands are answered | queue of 2, two commands (one with an event of its own), a ledger of one, two failures, one reboot: eviction from the queue during dispatch, eviction from the ledger of a command that is sent again, a loss after a reboot and a late batch all occur |
| `DeliveryTiming` | backoff, latency under heartbeats and pairing cadence | clock of 10, intervals 2 and 3, the heartbeat shorter than the fast poll, which the schema admits, stalls of 1; failures are told apart up to the cap. A million states |
| `SimulatorDelivery` | the delivery promises of `ReporterDelivery` when exchanges are interrupted, and that commands are answered | queue of 2; one command that queues an event of its own; one event or update, one failure, one switch turned once, one reboot or restart: boot event, grant end and acknowledgement overfill the queue, and each of the four meets every stage of an exchange |
| `SimulatorPours` | what flows is reported once, what is charged is reported under its grant and before its end | two meters, two glasses of two steps, on one meter or on both; a limited grant on both meters that an update moves to one and lowers, a rival with an iButton, a grant that names an unknown relay; one reboot. 1.1 million states |
| `BoardConfig` | numbers identify ports, generation ends | 960 files: two meters with default or distinct numbers and triggers that act on the auth component, reporters that list them in any way, relays with distinct or equal numbers, an auth component with and without a reporter, and smaller boards with each mistake a schema finds; every order of the coroutines |
| `AuthEngineDrip`, `AuthEngineUpdate`, `ValvesWatchdog` | a comment or document that the code does not live up to, see [section 7](#7-where-the-code-and-what-is-said-of-it-differ) | as small as the counterexample needs |

Every run's constants are bounds on behaviour except the timeouts, which keep the
code's order of magnitudes (a stall is shorter than a timeout, a timeout shorter
than half the clock).

## 5. Fairness

`ReporterDelivery` has the liveness property `CommandsAnswered`: every command
the server issues is answered, unless the device is denied. `FairSpec` of `Reporter`
asks for

* weak fairness of `Heartbeat`: the main loop never stops, and
  `KegboardReporter::loop` queues a status event whenever the heartbeat is due,
  whatever failed before (`HeartbeatBoundsLatency` of `Delivery` is the timing side
  of this);
* weak fairness of `PostAccepted`: while there is something to send an attempt is
  made again and again (`NeverStarves`), and it succeeds in the end because
  exchanges go wrong only `MaxFailures` times. That is the assumption: an outage ends.

Nothing is assumed of the network's late deliveries, of reboots, or of the
components that queue events.

`CommandsAnswered` of `Simulator` says the same of the simulator, unless the user
takes it offline or turns its heartbeat off. Its `FairSpec` has weak fairness of
`Heartbeat` and `Send` (`background_loop` never ends), of `SendUpdate` (an asyncio lock
is fair), of the `Return...` actions together (every `await post` returns or times
out), and of `Accepts` and `Allows`: a server takes what a paired device sends and a
user approves a device that asks. These two again rest on `MaxFailures`: an outage, or
a server that will not pair, ends. Nothing is assumed of the user's switches.

`GenerationEnds` of `BoardConfig` needs only that ESPHome resumes some coroutine that
can go on, weak fairness of `Next`; it fails if they can all be waiting.

`NeverStarves` and `HeartbeatBoundsLatency` of `Delivery` are stated as bounds in time
and need no fairness.

## 6. The proofs

The theorems hold for every value of the constants that satisfies the module's
assumptions.

**AuthEngineProofs.** From `SpecsAssumption` (a command is parsed into a record of
the right shape, whatever meters and relays it names), `MetersAssumption` (a device has
finitely many meters), `ManualAssumption` (what is switched from outside is a relay) and
`BoundsAssumption`. The invariants are not inductive one by one: that attribution
follows the table needs that one grant holds a meter; that an ending charges no
more than what ran needs the baseline to be consistent with the session.
`IInv` is their conjunction, with

* `TableOK`: slots hold well-formed grants of their own id, on disjoint meters;
* `VarsOK`: the types of the other variables;
* `DrinkersHold`: who drank from the pour in flight still holds the meter;
* `Covers`: `NoOvercharge` for all ids, live or not, because a grant that is
  created finds the counts of its slot.

The lemmas on the table (`EndedTable`, `AuthorizedTable`, `ReleasedBySpec`) say who
holds a meter afterwards. `EndGrantsKeeps` is the heart: whatever a handler made of
session, baseline and counts, if it is consistent with the table as it was, then
ending a set of grants restores `IInv`. `Deauthorize`, `Detach`, `Poll` and
`ReportPour` reduce to it; `Authorize`, the pour that runs, the drip and the
watchdog have a lemma each. Theorems: `TypeCorrect`, `OneGrantPerMeterHolds`,
`AttributionFollowsGrantsHolds`, `PourHasOneDrinkerHolds`, `NoOverchargeHolds`.

The action properties rest on `IInv` too, each with an argument of its own:

* What is *charged*. `OthersSpared` says that a grant that outlives a handler has just
  what the handler recorded for it, and one lemma per kind of step follows ticks from
  session to account. `EveryTickChargedHolds` also needs `Settled`, that no baseline is
  ahead of its pour. That is inductive as long as there are no drips, which is the
  theorem's hypothesis, `MinPourTicks <= 1`, and it is necessary: `AuthEngineDrip` is the
  counterexample with drips. `PourStartsUncountedHolds` has the same hypothesis: drips
  are all that breaks `auth_engine.cpp:103`.
* What is *open*. `EndGrantsValves` says what endings do to the relays, whatever state
  a watchdog or a switch left them in, `AuthorizeValves` what a takeover or an update
  does; `NextValves` puts the steps together. `ValveNeedsGrantHolds` and
  `ValveHeldOpenHolds` follow, and `ValveHeldOpenHolds` leaves it to the watchdog to
  close any valve under any grant, which it really does (section 7).
* What is *spent*. The volume of a grant is a fold over its meters.
  `FlowEndsExhaustedHolds` needs of it that it is a number: `SumIsNatural`, by
  induction over the subsets of a finite set.
* What is *told*. `Told` says of a sequence of events that it tells of the endings of
  some grants: one report of each, after the pours on the meters it releases.
  `TellMore` appends one ending; `AllTold` carries that over the concatenation a handler
  queues, for any number of endings, since no two of them release the same meter.
  `NextTells` shows that every step tells of exactly what it takes from grants, of which
  `EveryReleaseReportedHolds` and `PourPrecedesGrantEndHolds` are corollaries. The ids
  may come from an infinite set: `FiniteAlways`, that only finitely many are live, is an
  invariant.

**Taps, in AuthEngineProofs.** `Implementation` is `Spec => ImplementsTaps`, from the same assumptions.
`InitTaps` maps the initial states; `NextTaps` maps each step under `IInv`, with one
lemma per kind of step: an authorize is one `Grant` although the code ends other
grants' pours, feeds flow back through `on_pour_end` and only then sets
attributions; every ending is an `End`, a pour that stops is a `Stop`, whose grant, if
any ends, is the one that held that very meter; the watchdog, a poll that ends nothing
and a settled baseline are stutters. `IInv` is needed since `holder` is read off the
attributions: a step that ends what the table says must end what they say.
`NoPourChangesHandsHolds` then follows from `Taps` alone.

**GrantTableProofs.** From `ClockAssumption` (the clamp plus a stall lie within half
the clock's range, which is even as every power of two) and `SpecsAssumption`. The
properties compare the code's wrapped clock with true times, so the strengthening says
how they correspond: `ClocksTell`, that for a live grant `now - created` and
`now - lastFlow` modulo the range are its true `age` and `idle`, that its age is at most
the clamp plus the lag since the last poll, and that its lifetime is the clamped one;
`DeadAreAgeless`, that a slot that a new grant takes starts from nothing. `DueMeansReached`
is then the one fact about the signed comparison: within half the range a deadline is
due exactly when it is reached. Theorems: `TypeCorrect`, `ClampBoundsLifetimeHolds`,
`PollEndsTheDueHolds`, `EndTellsTheTruthHolds`, `CountersCarryOverHolds`, and
`NoEarlyExpiryHolds` under `IdleLimitsFit`: no idle limit above half the range, without
which it is false, see section 7. `PresenceImplementsBoth`: a search that gives
buttons up is a step of the table as well as of the reader, so all of these hold of the
two together, and so do the theorems about `OneWire`.

**Valves, in GrantTableProofs.** The same assumptions and a timeout longer than the clamp
and a stall, which is what the packages advise. That is not enough for
`NeverCutMidGrant`. What it does give is `OwnValveNotCutHolds`: when the watchdog cuts a
valve, the timer has run for longer than any grant lives, so longer than this one has,
and the valve was open before the grant began.

**DeliveryProofs.** From `DeliveryAssumption`. `IInv` has `AttemptTells`: the next
attempt, on the wrapped clock, lies a wait away from the last exchange, and that wait
is the one the last answer calls for unless something urgent came up; `BeatTells`, the
same for the heartbeat; and `Tries`, that with something queued the device has waited no
longer than its wait. The delay doubles with each failure: `DelayIsCapped` shows
that it is a number and never above the cap, where that 2^n is a number comes from the
cardinality of the subsets of a set of n elements. Theorems: `TypeCorrect`,
`NeverStarvesHolds`, `HeartbeatBoundsLatencyHolds`, `BackoffHonouredHolds`,
`PairingPacedHolds`. They hold for any heartbeat, retry and update interval, a heartbeat
shorter than the fast poll and a retry interval of 0 included; besides
the bound on counted failures `DeliveryAssumption` asks only that the clock's half
range exceeds the longest of them and a stall.

**BoardConfigProofs.** For every family `Files` of which `FilesAssumption` holds: each is
`WellFormed`, which says of ids, lists and blocks what YAML sees to. `Buildable` is what
the validations establish (`BoundFile`): every reference is declared and numbers
differ. The rest of `IInv` is that every coroutine, wherever it waits, adds nothing to
the tables but meters and relays of the file (`CodeSteps`, `StepEffect`). Theorem:
`NumbersIdentifyPortsHolds`.

**ReporterProofs.** From `ReporterAssumption`: positive capacities. `IInv` says of the
device's queue, the server's log and the requests still under way, all by their ids:
they are ids already given (`NoFuture` for boots to come); the log and what may join
it late leave no gap behind an event that waits (`InOrder`); and the ids of this boot
that neither wait nor arrived are no more than `dropped` (`Sound`). A response makes
the device dispatch any number of commands, each of which may queue and evict events, so
its effect is a fold: `DispatchAll` is proved by induction over the set of what is left
to do (`SetInduction`, from the well-foundedness of the naturals), for the steps that
`Enqueue` and `Apply` are. A second invariant, `Accounted`, says that the ledger is the
end of the sequence of commands applied in this boot: all of it, or the last `Window`.
So a command that the last `Window` have is in the ledger and is not applied. Nothing bounds how
many commands the server issues or sends again. Theorems: `LossIsCountedHolds`,
`NoOvertakingHolds`, `NotReappliedInWindowHolds`.

**MeterProofs.** From `MeterAssumption`: a timeout plus a stall fits the clock.
`ClocksTell` is the strengthening: while a pour runs, the differences the code
takes on the wrapped clock equal the true times and are bounded by the time since
the last loop. `SpanGrows` is the only arithmetic of the clock it needs; that a pour
is silent for no longer than it runs (`QuietWithinAge`) gives the duration of a record by
`SpanBetween`. Theorems: `TicksConservedHolds`, `TotalCountsAllHolds`,
`PourBoundedHolds`, `EndsOnlyWhenOverHolds`, `TypeCorrect`, and
`RecordTellsTheTruthHolds` for a meter with a cutoff: without one a pour may outlast the
clock (49 days), and then the code's difference is short of the truth.

The second half is about `PourSeries`, with `CapacityAssumption` and
`ResolutionsAssumption`. `SeriesImplementsMeter` carries all of the above over. The
invariant `SeriesIInv` says that the series of the pour in flight has its ticks, none
after the last that came (`age - quiet`), in buckets that are aligned, strictly
increasing and within the buffer (`Proper`). Two things make it provable. The sum over
the buckets, a fold, is the number of cells of a finite set (`SumCounts`), so adding,
merging and reordering are facts about cardinality. Coarsening is a fold too, and
`CoarsenedInSteps` makes it a function of the number of buckets merged so far, over
which the argument goes by least counterexample. `SeriesInvariant`,
`RecordCarriesSeriesHolds` and `OffsetsAlignedHolds` have the same hypothesis, a
cutoff, and it is necessary for the same reason: past the range of the clock, offsets
go back.

**OneWire, in GrantTableProofs.** Under `MaxMissed + 1 < ByteRange`: the counter of a present
button is the number of true misses, so it is dropped exactly when those exceed the
tolerance. Without that hypothesis `AbsenceNoticed` is false, see section 7.
Theorems: `ReaderInvariant`, `AbsenceNoticedHolds`, `NoFlappingHolds`.

**SimulatorProofs.** From `SimulatorAssumption`: a positive capacity. What may
interleave with an exchange is the matter here, so `IInv` follows the exchange. `Sound`
says of the device, with what the exchange in flight sent: ids in the queue rise,
updates share none with it, what was sent and still waits comes before what was not
sent, and (`Counted`) the ids of this boot that are lost for good, together with what
was sent and no longer waits, are no more than `dropped`. The last is what makes
deletion by position harmless: `flush` deletes as many events as it sent from the
front, so if evictions made it delete some it did not send, each of them makes up for
one that was evicted and counted (`DeletedIs`, `AcceptedKeeps`). `Steady` adds that the
flight, the body to replay and the updates that wait are of this boot, which is true
until a reboot happens in flight: `raced`, which the property excepts. One
lemma for each operation on the queue (`EnqueueKeeps`, `EndKeeps`, `PostKeeps`, `CutKeeps`,
`RejectedKeeps`), one for the commands of a response (`CommandsKeep`, by induction like
`DispatchAll` of `ReporterProofs`), then one per action. Theorems: `Invariant`,
`QueueBounded`, `LossIsCountedUnlessRacedHolds`.

**SimulatorPoursProofs.** From `PoursAssumption`: finitely many meters, well-formed
grant specs, and the bounds. Nothing bounds glasses, specs or ids. The conserved quantities are
sums over meters, and what ends grants does so in a loop that finishes pours in a loop:

* `SumIsCells`: a sum over meters is the number of cells of a finite set, so that what is
  in flight under a grant may be split by meter (`InFlightSplit`, `InFlightChange`);
* `FoldExists`: a fold whose step stays within a set has a value in that set, whatever
  property that set stands for. It is the induction for `FinishAll` and `EndGrantsLeads`;
* `Leads(d, e)`: what finishing pours and ending grants makes of a device. What is told
  and in flight is kept per meter and per grant, and the events stay in order
  (`Ordered`: no pour after the `grant_end` that releases its meter; `Closed`: a meter
  whose grant ended has no pour left in flight). It is transitive, so it carries over
  both loops;
* `Keeps`, for what a step then does to grants and volumes: `FilledKeeps` (a glass
  fills, its segment begins or goes on, its grant is charged), `GrantedKeeps` (takeover,
  partial release, update in place or creation, adoption of the pour in flight).

`IInv` is `TypeOK`, `Sane` (a segment is attributed to the guest or to the grant on its
meter; no two live dicts have one id; every grant on a meter was made), `Own` (on a
meter that is not contested, only one glass is filled, and the segment is its own), `PouredIsReported`,
and, until two glasses have met, `Charged`. `Own` is why the exception is just `contested`: a
coroutine that finds another's segment has a rival. Theorems: `Invariant`,
`PouredIsReportedHolds`, `ChargedIsReportedHolds`, `PourPrecedesGrantEndHolds`.

**Model-checked only.** Liveness, which the prover does not reach: `CommandsAnswered` of
`Reporter` and of `Simulator`, `GenerationEnds`. Every other property that a passing
run checks is a theorem, some under the hypotheses named above.

## 7. Where the code and what is said of it differ

With a run that exhibits it:

* **A drip poisons the next pour** (`AuthEngineDrip`). `process_ends_` settles the
  baseline of the pour it ends; a drip is discarded without `on_pour_end`, so the
  baseline stays until the next poll, and a pour that starts before starts with it.
  `auth_engine.cpp:103` says this must not happen.
* **An update forgives what was not yet recorded** (`AuthEngineUpdate`).
  `authorize` adopts the pour in flight even when the same grant is updated, while
  `docs/authenticated-pouring.md:214` keeps counters intact.

* **A watchdog cuts a valve mid-grant** (`ValvesWatchdog`). The timer of a relay's
  watchdog starts with the on-edge (`relays.yaml:16-18`, `:36-37`). A grant that takes
  the tap over, or overlaps another on the same relay, finds the relay on, so there is no
  new edge, and the valve is closed under it although the timeout is longer than
  `max_grant_duration`. `relays.yaml:20-23` and `examples/kegbot-full.yaml:11-12` say
  that it then never is. `OwnValveNotCut` is what holds.

Found while modelling, and not held by a run of their own:

* `relays.yaml:22` offers a watchdog timeout of `0s` "to disable" it; the script has
  no case for it, and a delay of nothing turns the relay off at once
  (`relays.yaml:52-59`).
* "`heartbeat_interval` ... also bounds worst-case command latency"
  (`docs/configuration.md:63`): not in backoff, whose cap is 5 minutes, nor while
  pairing is pending with a heartbeat shorter than the fast poll.
  `HeartbeatBoundsLatency` states when it does.
* The command ledger is bounded (`delivery.cpp:56`) and the server's outstanding
  commands are not: a re-sent command is applied again once as many others as the ledger
  holds were applied in between, while `kegboard-event-protocol.md:396` says a duplicate
  is not re-applied. `NotReappliedInWindow` states what holds.
* A `max_volume_ml` lowered by an update to below what was poured does not end the
  grant; it ends with the next flow (`grant_table.cpp:85-93`), though "when any limit
  is reached the device deauthorizes the grant itself"
  (`kegboard-event-protocol.md:473`).
* An idle limit above 2^31 ms makes the signed comparison of `grant_table.cpp:163`
  true at once, so the grant ends at the first poll instead of after that time
  (`kegboard-event-protocol.md:445`). The duration is clamped and not affected.
* While pairing is pending, a running pour sends its updates, and the queue with
  them, at the update interval (`kegboard_reporter.cpp:238`), past the pairing
  cadence of `kegboard-event-protocol.md:563`. `PairingPaced` states the exception; it
  covers the fast polls and the slow ones after them.
* The minute of fast polls is counted from boot, not from when pairing became
  pending, unless a token was dropped (`kegboard_reporter.cpp:41,331`). It is told by the clock's
  difference, so it opens again for a minute whenever the clock has wrapped, 49 days later.
* With 255 tolerated misses the miss counter of a button wraps before it exceeds
  them, and a button that left stays present (`kegboard_onewire.cpp:33`).
* In a sparse pour coarsening merges buckets that are neighbours in the buffer but
  not in time, so ticks are reported earlier than the new resolution
  (`tick_series.h:18-22`, `tick_series.cpp:41-51`). `RecordCarriesSeries` states what
  does hold: none is lost, and none is put after the end of the pour.
* The simulator deletes what it sent by position: a reboot in flight lets it delete
  the new boot's status event unsent and uncounted (`kegboard-sim.py:222`).
  `LossIsCountedUnlessRaced` states the exception. It is also made by a `pour_update`
  that waited for the lock across a reboot: it is sent under the new boot's id with
  an id that the new boot gives again.
* A grant that arrives while the simulator sends the last `pour_update` of a glass does
  not adopt the pour: the segment's grant was read at the last step
  (`kegboard-sim.py:562-564`), though attribution is said to be read at pour end
  (`kegboard-sim.py:558-559`).
* A second glass may be started on a meter after a grant boundary ended the first
  glass's segment (`kegboard-sim.py:513`, `:537`); each coroutine then takes the other's
  segment for a boundary, overwrites it, and its volume is reported by nobody.
  `PouredIsReported` and `ChargedIsReported` except it.
* The simulator ends a pour before it reports a detached token; the board reports the
  token first (`kegboard_auth.cpp:226`, `kegboard-sim.py:641-656`).
* A reporter may list a meter twice, whose pours are then queued twice, or leave one
  out (`kegboard_reporter/__init__.py:92`), though the status inventory is called
  exhaustive (`kegboard-event-protocol.md:256,290`).

## 8. What is not modelled

* **Hub** (`kegboard.*`): a name and the wall clock; nothing changes after setup.
* **Event serialization** (`events.*`, `json_writer.*`): pure formatting, covered by
  unit tests and the schemas.
* **Settings** that refer to nothing (debounce, timeouts, sensors, pins, melodies):
  `BoardConfig` has only whether a schema admits them. The **packages** and board files
  are input to ESPHome; the relays and watchdogs in them are in `AuthEngine` and
  `Valves`. In `Valves` no relay is switched from outside.
* **Scripts**: one-shot checks of the repository, and `bump.py`, whose only hazard is
  to stop half-way.
* **Debounce** in `gpio_intr` and **calibration** (`set_ml_per_tick`): volumes are ticks
  throughout, edges those that pass. **`token_attached`** of `KegboardAuth`, which asks
  the server from inside its handler; the token's storage in flash; what events
  carry. The simulator's schema validation, its layout, and the shape of a response.
* **Batches and responses.** `Batch` of `Reporter` has no `pour_update`, which is sent
  once and never queued, and goes out with an empty queue too
  (`kegboard_reporter.cpp:217,238,256`); `Delivery` has when they are due. A response is
  delivered or truncated whole: that its body is read up to 8192 bytes
  (`kegboard_reporter.cpp:288`) is one cause of truncation among others,
  and one that is always longer, so that its commands are never read, is left out.
* **Intervals** of more than half the millisecond clock, about 24.8 days, which the schema
  admits and `DeliveryAssumption` excludes.
* **Late requests of the simulator**: a request that timed out is answered or lost, it
  does not arrive after later ones, as `Reporter` lets it. A switch of the simulator is
  turned once in its run, so that one that is turned off and on again is not explored.
* In the simulator's pours, a step in which nothing flows (the glasses its keys offer
  have too few steps for one) and the rounding of volume to ticks.

## 9. The plan

Built, in this order: `GrantOps` and `AuthEngine` (the core: who may pour and who
pays), `GrantTable`, `Meter`, `Reporter`, `Delivery`, `OneWire`, `TickSeries`,
`Simulator`; proofs of `AuthEngine`, `Meter`, `OneWire`; then `Taps` and its
refinement, `PourSeries`, the pairing and updates of `Simulator`, `SimulatorPours`,
`BoardConfig`, `Presence`, `Valves`.

Proved since: the accounts and reports of `AuthEngine`, the clocks of `GrantTable` and
`Delivery`, delivery and application of `Reporter`, the tables of `BoardConfig`, the
record of a `Meter` and the series it carries, the simulator's delivery and its pours.

Next:

1. `EventChannel`, the abstract promise of delivery: a sequence of events of which
   the server sees a subsequence in order, with a count that bounds the gaps.
   `Reporter` refines it, and `Simulator` does but for the reboot in flight.
2. `Tokens`: `token_attached`, `Presence` and the delivery of commands together, for the hazard that an authorize arrives after its token left.
3. The debounce filter and calibration changes in `Meter` and `AuthEngine`.
