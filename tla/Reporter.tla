------------------------------ MODULE Reporter ------------------------------
(***************************************************************************)
(* Delivery of events and commands between the device and its server:      *)
(* KegboardReporter with its RingQueue and the command ledger of Delivery, *)
(* and the server and network it talks to, which the protocol document     *)
(* describes and src/ only uses.  When an attempt is due is left to        *)
(* Delivery; here one may come at any time.                                *)
(*                                                                         *)
(* http_->post blocks the main loop, so for the device an exchange is one  *)
(* step.  The network may lose the request, lose or truncate the response, *)
(* or let a request that timed out arrive after later ones.  An event is   *)
(* its boot and id; an acknowledgement also names its command.             *)
(***************************************************************************)
EXTENDS Naturals, FiniteSets, Sequences, SequencesExt

CONSTANTS
  Capacity,      \* MAX_BATCH_EVENTS, the size of the queue and of a batch
  Window,        \* COMMAND_DEDUP_WINDOW
  Commands,      \* the commands the server may issue
  Ending,        \* those whose application queues an event of its own (a grant_end)
  NoCommand,
  MaxEvents,     \* bound: events the components queue
  MaxFailures,   \* bound: exchanges that go wrong
  MaxReboots     \* bound: restarts of the device

ASSUME ReporterAssumption ==
  /\ Capacity \in Nat \ {0} /\ Window \in Nat \ {0}
  /\ Ending \subseteq Commands /\ NoCommand \notin Commands

VARIABLES
  boot,         \* boot_id_, by its number
  nextId,       \* next_event_id_
  queue,        \* queue_: the events not yet accepted, oldest first
  dropped,      \* queue_.dropped() + extra_dropped_: what status events report
  ledger,       \* recent_commands_
  denied,       \* Delivery::denied_
  log,          \* server: the events it has, by boot and id
  outstanding,  \* server: commands issued and not answered
  issued,       \* server: commands it has issued
  late,         \* network: batches of requests that timed out on their way
  made,         \* checking only, bound: events the components queued
  failed,       \* checking only, bound: exchanges that went wrong
  applied       \* checking only: the commands that took effect in this boot, in order

device == <<boot, nextId, queue, dropped, ledger, denied, applied>>
server == <<log, outstanding, issued>>
vars == <<device, server, late, made, failed>>

-----------------------------------------------------------------------------
(* Helpers.  What a handler changes while it runs is a record d. *)

Device == [nextId |-> nextId, queue |-> queue, dropped |-> dropped, ledger |-> ledger, applied |-> applied]

SetDevice(d) ==
  /\ nextId' = d.nextId /\ queue' = d.queue /\ dropped' = d.dropped
  /\ ledger' = d.ledger /\ applied' = d.applied

\* enqueue_(make_event_(..)): a full queue evicts its oldest event.
\* Mutant: the eviction is not counted.
Enqueue_Uncounted(d, b, command) ==
  [d EXCEPT !.nextId = @ + 1,
            !.queue = Append(IF Len(@) = Capacity THEN Tail(@) ELSE @,
                             [boot |-> b, id |-> d.nextId, ack |-> command])]

Enqueue(d, b, command) ==
  LET e == [boot |-> b, id |-> d.nextId, ack |-> command]
      full == Len(d.queue) = Capacity
  IN [d EXCEPT !.nextId = @ + 1,
               !.queue = Append(IF full THEN Tail(@) ELSE @, e),
               !.dropped = @ + IF full THEN 1 ELSE 0]

\* record_command forgets the oldest beyond the window.  Mutant: one command early.
Record_Early(d, c) ==
  LET noted == Append(d.ledger, c)
  IN [d EXCEPT !.ledger = IF Len(noted) = Window THEN Tail(noted) ELSE noted]

Record(d, c) ==
  [d EXCEPT !.ledger = IF Len(@) = Window THEN Append(Tail(@), c) ELSE Append(@, c)]

Known(d, c) == c \in ToSet(d.ledger)

\* The command handler's effect: the grant it changes, the event that queues
Apply(d, c) ==
  LET e == IF c \in Ending THEN Enqueue(d, boot, NoCommand) ELSE d
  IN [e EXCEPT !.applied = Append(@, c)]

\* One turn of dispatch_commands_: a command in the ledger is acknowledged again,
\* any other is applied, recorded and acknowledged.
Dispatch(d, c) ==
  IF Known(d, c) THEN Enqueue(d, boot, c) ELSE Enqueue(Record(Apply(d, c), c), boot, c)

\* pop of the events that were in the batch
Popped(d) == [d EXCEPT !.queue = <<>>]

\* What a server does with a batch: keep what is new, take note of the answers.
ServerTakes(batch) ==
  /\ log' = log \cup {<<e.boot, e.id>> : e \in ToSet(batch)}
  /\ outstanding' = outstanding \ {e.ack : e \in ToSet(batch)}
  /\ UNCHANGED issued

-----------------------------------------------------------------------------
(* The device's actions *)

Init ==
  /\ boot = 0 /\ nextId = 2 /\ dropped = 0 /\ ledger = <<>>
  /\ queue = <<[boot |-> 0, id |-> 1, ack |-> NoCommand]>>   \* setup() queues a status event
  /\ denied = FALSE
  /\ log = {} /\ outstanding = {} /\ issued = {}
  /\ late = {} /\ made = 0 /\ failed = 0
  /\ applied = <<>>

\* A meter, a sensor, the auth component or the heartbeat queues an event.
QueueEvent ==
  /\ made < MaxEvents /\ made' = made + 1
  /\ SetDevice(Enqueue(Device, boot, NoCommand))
  /\ UNCHANGED <<boot, denied, server, late, failed>>

\* send_batch_ sends the whole queue, which is never longer than a batch.
\* Mutant: the latest event goes first, alone.
Batch_LatestFirst == <<Last(queue)>>

Batch == queue

Sends == ~denied /\ queue # <<>>

Fails == failed < MaxFailures /\ failed' = failed + 1

\* 2xx with its body: the batch leaves the queue, the commands are dispatched.  The
\* device takes them in whatever order they come.
PostAccepted ==
  /\ Sends
  /\ ServerTakes(Batch)
  /\ \E commands \in SetToSeqs(outstanding') :
       SetDevice(FoldLeft(Dispatch, Popped(Device), commands))
  /\ UNCHANGED <<boot, denied, late, made, failed>>

\* 2xx, but reading the body timed out: a truncated body is never parsed.
PostTruncated ==
  /\ Sends /\ Fails
  /\ ServerTakes(Batch)
  /\ SetDevice(Popped(Device))
  /\ UNCHANGED <<boot, denied, late, made>>

\* The request is lost, or answered 5xx: everything stays queued.
PostLost ==
  /\ Sends /\ Fails
  /\ UNCHANGED <<device, server, late, made>>

\* The response is lost after the server has processed the batch.
PostUnanswered ==
  /\ Sends /\ Fails
  /\ ServerTakes(Batch)
  /\ UNCHANGED <<device, late, made>>

\* The request times out and is still on its way.
PostDelayed ==
  /\ Sends /\ Fails
  /\ late' = late \cup {Batch}
  /\ UNCHANGED <<device, server, made>>

LateArrival ==
  \E batch \in late :
    /\ ServerTakes(batch)
    /\ late' = late \ {batch}
    /\ UNCHANGED <<device, made, failed>>

\* Another 4xx: the batch can never succeed; it is dropped and counted.
PostRejected ==
  /\ Sends /\ Fails
  /\ SetDevice([Popped(Device) EXCEPT !.dropped = @ + Len(queue)])
  /\ UNCHANGED <<boot, denied, server, late, made>>

\* 401: the events stay, whatever the body says of pairing; a device that was
\* denied sends nothing more until it restarts.
PostUnauthorized ==
  /\ Sends /\ Fails
  /\ denied' \in BOOLEAN
  /\ UNCHANGED <<boot, nextId, queue, dropped, ledger, applied, server, late, made>>

\* The queue, the ledger and the denial are RAM.
Reboot ==
  /\ boot < MaxReboots /\ boot' = boot + 1
  /\ SetDevice(Enqueue([nextId |-> 1, queue |-> <<>>, dropped |-> 0, ledger |-> <<>>,
                        applied |-> <<>>], boot + 1, NoCommand))
  /\ denied' = FALSE
  /\ UNCHANGED <<server, late, made, failed>>

ServerIssues ==
  \E c \in Commands \ issued :
    /\ issued' = issued \cup {c}
    /\ outstanding' = outstanding \cup {c}
    /\ UNCHANGED <<device, log, late, made, failed>>

\* The heartbeat queues a status event.  One that finds events queued, or no
\* command to fetch, is like any other event; this one is what keeps an idle
\* device asking for commands.  Mutant: none once a request has failed.
Heartbeat_Healthy ==
  /\ ~denied /\ queue = <<>> /\ outstanding # {} /\ failed = 0
  /\ SetDevice(Enqueue(Device, boot, NoCommand))
  /\ UNCHANGED <<boot, denied, server, late, made, failed>>

Heartbeat ==
  /\ ~denied /\ queue = <<>> /\ outstanding # {}
  /\ SetDevice(Enqueue(Device, boot, NoCommand))
  /\ UNCHANGED <<boot, denied, server, late, made, failed>>

Next ==
  \/ QueueEvent \/ Heartbeat \/ PostAccepted \/ PostTruncated \/ PostLost \/ PostUnanswered
  \/ PostDelayed \/ LateArrival \/ PostRejected \/ PostUnauthorized \/ Reboot \/ ServerIssues

Spec == Init /\ [][Next]_vars

\* The main loop never stops, and exchanges go wrong only so often (MaxFailures).
FairSpec == Spec /\ WF_vars(Heartbeat) /\ WF_vars(PostAccepted)

-----------------------------------------------------------------------------
(* Properties *)

\* At least once, or owned up to: of the events this boot has queued, the number
\* that are neither still queued nor with the server is covered by the count the
\* device reports as dropped, whatever was lost, rejected, evicted or truncated.
LossIsCounted ==
  LET waiting == {e.id : e \in ToSet(queue)}
      missing == {i \in 1..(nextId - 1) : i \notin waiting /\ <<boot, i>> \notin log}
  IN Cardinality(missing) <= dropped

\* No overtaking: if the server has an event, it has every older one of that boot
\* that the device would still send; late and repeated requests included.
NoOvertaking ==
  \A e \in ToSet(queue) :
    (\E i \in (e.id + 1)..nextId : <<boot, i>> \in log) => <<boot, e.id>> \in log

\* docs/kegboard-event-protocol.md:396 and delivery.h:73: a re-sent command is
\* acknowledged again and never re-applied.  The ledger makes good on that for as
\* many commands as it holds: within a boot a command takes effect again only once
\* Window others have, however they are re-sent and re-ordered.
NotReappliedInWindow ==
  \A i, j \in DOMAIN applied : i < j /\ j - i <= Window => applied[i] # applied[j]

\* Every command the server issues is answered in the end, though responses are
\* truncated, acknowledgements evicted or rejected and the device restarts; only
\* a device that was denied stays silent.
CommandsAnswered == \A c \in Commands : c \in issued ~> (c \notin outstanding \/ denied)
=============================================================================
