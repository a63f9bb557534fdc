----------------------------- MODULE Simulator -----------------------------
(***************************************************************************)
(* Delivery in tools/kegboard-sim.py, a device in asyncio.  Unlike on the  *)
(* board an exchange is not one step: between flush's snapshot of the      *)
(* queue and its response other coroutines queue events, evict them,       *)
(* reboot the device or flip its switches, and flush then deletes by       *)
(* position what it sent.  A pour_update is not queued: its flush waits    *)
(* for _send_lock with an id it was given before.  Clocks are left out:    *)
(* any time may pass between two steps.                                    *)
(***************************************************************************)
EXTENDS Naturals, FiniteSets, Sequences, SequencesExt

CONSTANTS
  Capacity,      \* QUEUE_CAPACITY
  Commands,      \* the commands the server may issue
  Ending,        \* those whose application queues a grant_end
  NoCommand,
  MaxEvents,     \* bound: events and updates the other coroutines make
  MaxFailures,   \* bound: exchanges that go wrong
  MaxSwitches,   \* bound: times the user flips a switch or forgets the pairing
  MaxReboots     \* bound: reboots, and restarts of the program

ASSUME SimulatorAssumption ==
  /\ Capacity \in Nat \ {0}
  /\ Ending \subseteq Commands /\ NoCommand \notin Commands

VARIABLES
  boot,         \* boot_id, by its number
  nextId,       \* next_id
  queue,        \* queue
  dropped,      \* dropped
  seen,         \* seen_command_ids, never trimmed
  paired,       \* a token is held, here and in STATE_FILE
  denied,       \* denied
  healthy,      \* healthy
  switches,     \* those that are on, of "offline", "heartbeat" and "temperature"
  updates,      \* the ids of pour_updates whose flush waits for _send_lock
  lastBody,     \* last_body: what `replay` sends again
  flight,       \* the exchange that holds _send_lock, and its answer so far
  log,          \* server: the queued events it has
  heard,        \* server: the updates it has
  outstanding,  \* server: commands not answered
  issued,       \* server: commands it has issued
  made, failed, flipped, \* checking only, bounds
  fleeting,     \* checking only: ids of this boot that updates have
  raced         \* checking only: this boot began while an exchange or an update was under way

buffer == <<boot, nextId, queue, dropped, seen, fleeting, raced>>
link == <<paired, denied, healthy, updates, lastBody, flight>>
server == <<log, heard, outstanding, issued>>
bounds == <<made, failed, flipped>>
vars == <<buffer, link, switches, server, bounds>>

NoUpdate == 0
NoBody == [boot |-> 0, sent |-> <<>>, update |-> NoUpdate]
Idle == [body |-> NoBody, bearer |-> FALSE, answer |-> "none", commands |-> <<>>]

Flying == flight # Idle
Silent == denied \/ "offline" \in switches

-----------------------------------------------------------------------------
(* Helpers.  What a coroutine changes between two awaits is a record d. *)

Device == [nextId |-> nextId, queue |-> queue, dropped |-> dropped, seen |-> seen]

SetDevice(d) ==
  /\ nextId' = d.nextId /\ queue' = d.queue /\ dropped' = d.dropped /\ seen' = d.seen
  /\ UNCHANGED <<boot, fleeting, raced>>

\* enqueue(make_event(..)): one too many evicts the oldest.
\* Mutant: the eviction is not counted.
Enqueue_Uncounted(d, command) ==
  LET longer == Append(d.queue, [id |-> d.nextId, ack |-> command])
  IN [d EXCEPT !.nextId = @ + 1, !.queue = IF Len(longer) > Capacity THEN Tail(longer) ELSE longer]

Enqueue(d, command) ==
  LET longer == Append(d.queue, [id |-> d.nextId, ack |-> command])
      full == Len(longer) > Capacity
  IN [d EXCEPT !.nextId = @ + 1,
               !.queue = IF full THEN Tail(longer) ELSE longer,
               !.dropped = @ + IF full THEN 1 ELSE 0]

\* del queue[:n], however the queue has changed meanwhile
Without(s, n) == SubSeq(s, n + 1, Len(s))

\* One turn of _handle_commands
Known(d, c) == c \in d.seen

Apply(d, c) ==
  LET e == IF c \in Ending THEN Enqueue(d, NoCommand) ELSE d
  IN [e EXCEPT !.seen = @ \cup {c}]

Dispatch(d, c) == Enqueue(IF Known(d, c) THEN d ELSE Apply(d, c), c)

\* The server keeps what is new by boot and id, of whatever type it is.
ServerTakes(body) ==
  LET fresh == {e \in ToSet(body.sent) : <<body.boot, e.id>> \notin heard}
  IN /\ log' = log \cup {<<body.boot, e.id>> : e \in fresh}
     /\ heard' = heard \cup IF body.update = NoUpdate THEN {} ELSE {<<body.boot, body.update>>} \ log
     /\ outstanding' = outstanding \ {e.ack : e \in fresh}
     /\ UNCHANGED issued

-----------------------------------------------------------------------------
\* A fresh process with the token of an earlier one; on_mount queues a status event.
Init ==
  /\ boot = 0 /\ nextId = 2 /\ dropped = 0 /\ seen = {}
  /\ queue = <<[id |-> 1, ack |-> NoCommand]>>
  /\ paired \in BOOLEAN /\ denied = FALSE /\ healthy = TRUE /\ switches = {"heartbeat"}
  /\ updates = <<>> /\ lastBody = NoBody /\ flight = Idle
  /\ log = {} /\ heard = {} /\ outstanding = {} /\ issued = {}
  /\ made = 0 /\ failed = 0 /\ flipped = 0
  /\ fleeting = {} /\ raced = FALSE

Makes == made < MaxEvents /\ made' = made + 1

\* A pour, a token, a grant that ends or the user's future_widget queues an event,
\* also during a flight.
QueueEvent ==
  /\ Makes
  /\ SetDevice(Enqueue(Device, NoCommand))
  /\ UNCHANGED <<link, switches, server, failed, flipped>>

\* background_loop's sensor
Temperature ==
  /\ "temperature" \in switches /\ Makes
  /\ SetDevice(Enqueue(Device, NoCommand))
  /\ UNCHANGED <<link, switches, server, failed, flipped>>

\* background_loop's heartbeat.  One that finds events queued, or no command to
\* fetch, is like any other event; this one is what keeps an idle device asking.
\* Mutant: none while the connection is bad.
Heartbeat_Healthy ==
  /\ "heartbeat" \in switches /\ queue = <<>> /\ outstanding # {} /\ healthy
  /\ SetDevice(Enqueue(Device, NoCommand))
  /\ UNCHANGED <<link, switches, server, bounds>>

Heartbeat ==
  /\ "heartbeat" \in switches /\ queue = <<>> /\ outstanding # {}
  /\ SetDevice(Enqueue(Device, NoCommand))
  /\ UNCHANGED <<link, switches, server, bounds>>

\* flush, up to `await post`: the lock is taken, the queue copied.
Snapshot == SubSeq(queue, 1, IF Len(queue) < Capacity THEN Len(queue) ELSE Capacity)

Posts(update) ==
  LET body == [boot |-> boot, sent |-> Snapshot,
               update |-> IF Len(Snapshot) < Capacity THEN update ELSE NoUpdate]
  IN flight' = [Idle EXCEPT !.body = body, !.bearer = paired]

\* A pour makes an update, which goes out last in a batch, unless that is full; while
\* another flush has the lock it waits.
MakeUpdate ==
  /\ healthy /\ ~Silent /\ Makes
  /\ nextId' = nextId + 1 /\ fleeting' = fleeting \cup {nextId}
  /\ \/ /\ Flying \/ updates # <<>>
        /\ updates' = Append(updates, nextId)
        /\ UNCHANGED flight
     \/ /\ ~Flying /\ updates = <<>>
        /\ Posts(nextId)
        /\ UNCHANGED updates
  /\ UNCHANGED <<boot, queue, dropped, seen, raced, paired, denied, healthy, lastBody,
                 switches, server, failed, flipped>>

\* An update that waited has the lock; it is dropped if the device is silent by now.
SendUpdate ==
  /\ ~Flying /\ updates # <<>>
  /\ updates' = Tail(updates)
  /\ IF Silent THEN UNCHANGED flight ELSE Posts(Head(updates))
  /\ UNCHANGED <<buffer, paired, denied, healthy, lastBody, switches, server, bounds>>

\* background_loop with events queued, or whatever else calls flush
Send ==
  /\ ~Flying /\ ~Silent /\ queue # <<>>
  /\ Posts(NoUpdate)
  /\ UNCHANGED <<buffer, paired, denied, healthy, updates, lastBody, switches, server, bounds>>

-----------------------------------------------------------------------------
(* The server and the network *)

Answer(answer, commands) ==
  /\ Flying /\ flight.answer = "none"
  /\ flight' = [flight EXCEPT !.answer = answer, !.commands = commands]
  /\ UNCHANGED <<buffer, paired, denied, healthy, updates, lastBody, switches, made, flipped>>

Fails == failed < MaxFailures /\ failed' = failed + 1

\* The server accepts the batch, without a token if it asks for none; its answer
\* carries all its commands, in any order.
Accepts ==
  /\ ServerTakes(flight.body)
  /\ \E commands \in SetToSeqs(outstanding') : Answer("ok", commands)
  /\ UNCHANGED failed

\* ... but the answer, or its commands, are lost.
AcceptsUnheard ==
  /\ Fails
  /\ ServerTakes(flight.body)
  /\ \E answer \in {"ok", "error"} : Answer(answer, <<>>)

\* The server asks for a token: 401 with one, for the user has approved the device.
Allows ==
  /\ ~flight.bearer
  /\ Answer("allowed", <<>>)
  /\ UNCHANGED <<server, failed>>

\* The request is lost, or the server does not take it; a 401 also revokes a token.
Refuses ==
  /\ Fails
  /\ \E answer \in {"rejected", "pending", "denied", "error"} : Answer(answer, <<>>)
  /\ UNCHANGED server

ServerIssues ==
  \E c \in Commands \ issued :
    /\ issued' = issued \cup {c}
    /\ outstanding' = outstanding \cup {c}
    /\ UNCHANGED <<buffer, link, switches, log, heard, bounds>>

-----------------------------------------------------------------------------
(* flush, after the await *)

Answered(answers) ==
  /\ flight.answer \in answers
  /\ flight' = Idle
  /\ lastBody' \in IF flight.answer = "error" THEN {lastBody, flight.body} ELSE {flight.body}
  /\ UNCHANGED <<updates, switches, server, bounds>>

\* 2xx.  No await separates the deletion from the commands.
ReturnAccepted ==
  /\ Answered({"ok"})
  /\ healthy' = TRUE
  /\ SetDevice(FoldLeft(Dispatch, [Device EXCEPT !.queue = Without(@, Len(flight.body.sent))],
                        flight.commands))
  /\ UNCHANGED <<paired, denied>>

\* A 4xx but 401: dropped and counted.
ReturnRejected ==
  /\ Answered({"rejected"})
  /\ SetDevice([Device EXCEPT !.queue = Without(@, Len(flight.body.sent)),
                              !.dropped = @ + Len(flight.body.sent)])
  /\ UNCHANGED <<paired, denied, healthy>>

\* 401, _handle_pairing: the events stay, the token goes, unless a new one came; a
\* denied device is silent until it reboots.
ReturnUnpaired ==
  /\ Answered({"pending", "allowed", "denied"})
  /\ healthy' = TRUE
  /\ paired' = (flight.answer = "allowed")
  /\ denied' = (denied \/ flight.answer = "denied")
  /\ UNCHANGED buffer

\* No answer, or a 5xx: everything stays, though a 5xx has set last_body.
ReturnError ==
  /\ Answered({"error"})
  /\ healthy' = FALSE
  /\ UNCHANGED <<buffer, paired, denied>>

-----------------------------------------------------------------------------
(* The user *)

\* replay_last takes no lock and ignores the answer, a 401 too
Replay ==
  /\ lastBody # NoBody
  /\ ServerTakes(lastBody)
  /\ UNCHANGED <<buffer, link, switches, bounds>>

Flips == flipped < MaxSwitches /\ flipped' = flipped + 1

\* action_toggle_offline, _heartbeat and _temp; going online also flushes.
Toggle(switch) ==
  /\ Flips
  /\ switches' = IF switch \in switches THEN switches \ {switch} ELSE switches \cup {switch}
  /\ UNCHANGED <<buffer, link, server, made, failed>>

ForgetPairing ==
  /\ Flips
  /\ paired' = FALSE
  /\ UNCHANGED <<buffer, denied, healthy, updates, lastBody, flight, switches, server, made, failed>>

\* What reboot and a new process have in common: a boot that queues its status event
NewBoot ==
  /\ boot < MaxReboots /\ boot' = boot + 1
  /\ nextId' = 2 /\ queue' = <<[id |-> 1, ack |-> NoCommand]>>
  /\ dropped' = 0 /\ seen' = {} /\ denied' = FALSE /\ fleeting' = {}
  /\ UNCHANGED <<paired, server, bounds>>

\* The coroutines of an exchange and of an update go on.
Reboot ==
  /\ NewBoot
  /\ raced' = (Flying \/ updates # <<>>)
  /\ UNCHANGED <<healthy, updates, lastBody, flight, switches>>

\* The user quits and starts the simulator again: only the token is kept.
Restart ==
  /\ NewBoot
  /\ raced' = FALSE /\ healthy' = TRUE /\ switches' = {"heartbeat"}
  /\ updates' = <<>> /\ lastBody' = NoBody /\ flight' = Idle

Next ==
  \/ QueueEvent \/ Temperature \/ Heartbeat \/ MakeUpdate \/ Send \/ SendUpdate
  \/ Accepts \/ AcceptsUnheard \/ Allows \/ Refuses \/ ServerIssues
  \/ ReturnAccepted \/ ReturnRejected \/ ReturnUnpaired \/ ReturnError
  \/ Replay \/ \E s \in {"offline", "heartbeat", "temperature"} : Toggle(s)
  \/ ForgetPairing \/ Reboot \/ Restart

Spec == Init /\ [][Next]_vars

\* background_loop runs on and every await returns; a server takes what is
\* sent or, without a token, the user approves the device, failures apart (MaxFailures).
FairSpec ==
  /\ Spec
  /\ WF_vars(Heartbeat) /\ WF_vars(Send) /\ WF_vars(SendUpdate)
  /\ WF_vars(Accepts) /\ WF_vars(Allows)
  /\ WF_vars(ReturnAccepted \/ ReturnRejected \/ ReturnUnpaired \/ ReturnError)

-----------------------------------------------------------------------------
(* Properties *)

\* Events of this boot that were queued and are neither queued nor with the server
Missing ==
  LET waiting == {e.id : e \in ToSet(queue)}
  IN {i \in 1..(nextId - 1) : i \notin waiting \cup fleeting /\ <<boot, i>> \notin log}

\* docs/kegboard-event-protocol.md:288: events_dropped counts the events evicted
\* before delivery, so what is lost shows in it.  Evictions between the snapshot of
\* the queue and the deletion by position do no harm to the count: what is deleted
\* unsent makes up for what was counted though it was sent.  Only a boot that began
\* during an exchange, or while an update waited whose id it then gives again, may
\* lose events uncounted.
LossIsCountedUnlessRaced == raced \/ Cardinality(Missing) <= dropped

\* docs/kegboard-event-protocol.md:395: commands ride on responses.  Each is answered
\* in the end, through lost answers, evicted results, revoked pairings, reboots and
\* restarts, unless the device is denied or the user takes it offline or turns the
\* heartbeat off.
CommandsAnswered ==
  \A c \in Commands :
    c \in issued ~> (c \notin outstanding \/ Silent \/ "heartbeat" \notin switches)
=============================================================================
