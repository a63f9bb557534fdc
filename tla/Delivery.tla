------------------------------ MODULE Delivery ------------------------------
(***************************************************************************)
(* When the device talks to its server: Delivery's attempt timing, backoff *)
(* and pairing cadence, driven by the turns of KegboardReporter::loop, by  *)
(* token events that are sent at once, and by events that merely queue.    *)
(* Of the queue only matters whether it is empty; what is in it is         *)
(* Reporter's.  An answer comes in the step that asks: the request blocks  *)
(* the loop, and the time it takes is part of MaxLag.  Clocks wrap (2^32   *)
(* in the code, ClockRange here) and deadlines are compared as signed      *)
(* differences.  True times are kept beside them, for the properties.      *)
(***************************************************************************)
EXTENDS Integers

CONSTANTS
  RetryInterval,   \* retry_interval_ms_
  MaxRetry,        \* MAX_RETRY_INTERVAL_MS
  FastPoll,        \* PAIRING_FAST_POLL_MS
  FastWindow,      \* PAIRING_FAST_WINDOW_MS
  HeartbeatMs,     \* heartbeat_ms_
  UpdateMs,        \* pour_update_ms_; 0 sends no updates
  ClockRange,      \* millis() counts modulo this
  MaxLag,          \* longest time between two turns of the reporter's loop
  FailuresCounted  \* bound: consecutive failures told apart; the delay is at its cap by then

Longest == IF MaxRetry > HeartbeatMs THEN MaxRetry ELSE HeartbeatMs

ASSUME DeliveryAssumption ==
  /\ {RetryInterval, MaxRetry, FastPoll, FastWindow, HeartbeatMs, UpdateMs, ClockRange, MaxLag,
      FailuresCounted} \subseteq Nat
  /\ FailuresCounted > 0
  /\ RetryInterval = 0 \/ RetryInterval * 2^(FailuresCounted - 1) >= MaxRetry
  /\ FastPoll <= MaxRetry       \* both are constants of the code
  /\ HeartbeatMs > 0            \* the schema asks for a second at least
  /\ ClockRange % 2 = 0 /\ 2 * (Longest + MaxLag) < ClockRange   \* it is a power of two

VARIABLES
  now,             \* millis()
  nextAttempt,     \* next_attempt_ms_
  failures,        \* consecutive_failures_
  pairingStarted,  \* pairing_started_ms_
  denied,          \* denied_
  paired,          \* bearer_token_ is set
  nextBeat,        \* next_heartbeat_ms_
  queued,          \* queue_ has an event
  pouring,         \* some meter is pouring
  updated,         \* last_update_pour_id is that pour's id
  lastUpdate,      \* last_update_ms while updated, which is when it is read; else 0
  sent,            \* the last step's exchange, if any, was the loop's or a token event's
  last,            \* checking only: the answer to the last exchange
  urgent,          \* checking only: a pour or token event queued since then
  since,           \* checking only: true time since then
  beat,            \* checking only: true time since the last heartbeat
  lag              \* checking only: true time since the last turn of the loop

timing == <<nextAttempt, failures, pairingStarted, denied, paired>>
truth == <<last, urgent, since>>
updates == <<pouring, updated, lastUpdate>>
vars == <<now, timing, nextBeat, queued, updates, sent, truth, beat, lag>>

Answers == {"accepted", "rejected", "transient", "pending", "allowed", "denied"}

-----------------------------------------------------------------------------
(* Helpers *)

After(ms) == (now + ms) % ClockRange

\* int32_t(now - deadline) >= 0.  Mutant: compared as they are.
Due_Unsigned(deadline) == now >= deadline

Due(deadline) == (now - deadline) % ClockRange < ClockRange \div 2

Elapsed(from) == (now - from) % ClockRange

\* on_transient: doubled with every consecutive failure, up to the cap
Delay(n) == LET doubled == RetryInterval * 2^(n - 1) IN IF doubled < MaxRetry THEN doubled ELSE MaxRetry

Healthy == ~denied /\ failures = 0

\* handle_response_.  A 401 on an authenticated request drops the token and
\* anchors the fast-poll window; so does only setup() otherwise.
Anchor(answer) ==
  IF answer \in {"pending", "allowed", "denied"} /\ paired THEN now ELSE pairingStarted

\* on_pairing_pending.  Mutant: a pending pairing is polled at once.
PendingInterval_AtOnce(anchor) == 0

PendingInterval(anchor) == IF Elapsed(anchor) < FastWindow THEN FastPoll ELSE HeartbeatMs

\* A batch goes out, the queue being q, and the server answers.
Exchange(q, answer) ==
  /\ failures' = CASE answer = "accepted"  -> 0
                   [] answer = "transient" -> IF failures < FailuresCounted THEN failures + 1 ELSE failures
                   [] OTHER                -> failures
  /\ pairingStarted' = Anchor(answer)
  /\ nextAttempt' = CASE answer \in {"accepted", "rejected", "allowed"} -> now
                      [] answer = "transient" -> After(Delay(failures'))
                      [] answer = "pending"   -> After(PendingInterval(pairingStarted'))
                      [] OTHER                -> nextAttempt
  /\ denied' = (answer = "denied")
  /\ paired' = CASE answer = "allowed"               -> TRUE
                 [] answer \in {"pending", "denied"} -> FALSE
                 [] OTHER                            -> paired
  /\ queued' \in CASE answer = "accepted" -> BOOLEAN      \* it may bring commands to acknowledge
                   [] answer = "rejected" -> {FALSE}
                   [] OTHER               -> {q}
  /\ last' = answer /\ urgent' = FALSE /\ since' = 0

-----------------------------------------------------------------------------
(* Actions *)

Init ==
  /\ now = 0 /\ nextAttempt = 0 /\ failures = 0 /\ pairingStarted = 0
  /\ denied = FALSE /\ paired \in BOOLEAN       \* the token may be in flash
  /\ nextBeat = HeartbeatMs /\ queued = TRUE    \* setup() queues a status event
  /\ pouring = FALSE /\ updated = FALSE /\ lastUpdate = 0
  /\ sent = "nothing"
  /\ last = "accepted" /\ urgent = TRUE /\ since = 0 /\ beat = 0
  /\ lag = 0

\* collect_pour_updates_: the pour is new to it, or its last update is old enough.
UpdateDue ==
  UpdateMs # 0 /\ Healthy /\ pouring /\ (~updated \/ Elapsed(lastUpdate) >= UpdateMs)

Collect ==
  IF UpdateDue THEN updated' = TRUE /\ lastUpdate' = now /\ UNCHANGED pouring ELSE UNCHANGED updates

\* The heartbeat queues a status event, and does not reset the backoff.
\* Mutant: none while requests fail.
BeatDue_Healthy == Healthy /\ Due(nextBeat)

BeatDue == Due(nextBeat)

Beats ==
  IF BeatDue THEN nextBeat' = After(HeartbeatMs) /\ beat' = 0 ELSE UNCHANGED <<nextBeat, beat>>

\* KegboardReporter::loop with something to send: updates, or a queue that is due
LoopSends(answer) ==
  LET q == queued \/ BeatDue
  IN /\ ~denied /\ lag' = 0
     /\ Beats /\ Collect
     /\ UpdateDue \/ (Due(nextAttempt) /\ q)
     /\ Exchange(q, answer)
     /\ sent' = "loop"
     /\ UNCHANGED now

LoopWaits ==
  LET q == queued \/ BeatDue
  IN /\ ~denied /\ lag' = 0
     /\ Beats
     /\ ~UpdateDue /\ ~(Due(nextAttempt) /\ q)
     /\ queued' = q
     /\ sent' = "nothing"
     /\ UNCHANGED <<now, timing, updates, truth>>

\* Denied: the loop returns at once.
LoopDenied ==
  /\ denied /\ lag' = 0
  /\ sent' = "nothing"
  /\ UNCHANGED <<now, timing, nextBeat, queued, updates, truth, beat>>

\* send_token_ask queues the token event, which resets the backoff, and sends.
TokenAsk(answer) ==
  /\ ~denied
  /\ Exchange(TRUE, answer)
  /\ sent' = "token"
  /\ UNCHANGED <<now, nextBeat, updates, beat, lag>>

\* enqueue_ of a pour or a token's removal resets the backoff ...
QueueUrgent ==
  /\ queued' = TRUE
  /\ nextAttempt' = now /\ urgent' = TRUE
  /\ sent' = "nothing"
  /\ UNCHANGED <<now, failures, pairingStarted, denied, paired, nextBeat, updates, last, since, beat, lag>>

\* ... that of a reading or of a grant's end does not.  Mutant: it does.
QueueQuiet_AtOnce ==
  /\ queued' = TRUE
  /\ nextAttempt' = now
  /\ sent' = "nothing"
  /\ UNCHANGED <<now, failures, pairingStarted, denied, paired, nextBeat, updates, truth, beat, lag>>

QueueQuiet ==
  /\ queued' = TRUE
  /\ sent' = "nothing"
  /\ UNCHANGED <<now, timing, nextBeat, updates, truth, beat, lag>>

\* A meter starts or stops pouring; the pour's own event is a QueueUrgent.
PourToggles ==
  /\ UpdateMs # 0
  /\ pouring' = ~pouring /\ updated' = FALSE /\ lastUpdate' = 0
  /\ sent' = "nothing"
  /\ UNCHANGED <<now, timing, nextBeat, queued, truth, beat, lag>>

Pass ==
  /\ lag < MaxLag /\ lag' = lag + 1
  /\ now' = (now + 1) % ClockRange
  /\ since' = IF denied THEN 0 ELSE since + 1
  /\ beat' = IF denied THEN 0 ELSE beat + 1
  /\ sent' = "nothing"
  /\ UNCHANGED <<timing, nextBeat, queued, updates, last, urgent>>

Next ==
  \/ \E answer \in Answers : LoopSends(answer)
  \/ LoopWaits \/ LoopDenied
  \/ \E answer \in Answers : TokenAsk(answer)
  \/ QueueUrgent \/ QueueQuiet \/ PourToggles \/ Pass

Spec == Init /\ [][Next]_vars

-----------------------------------------------------------------------------
(* Properties *)

\* After a failure the loop waits out the delay that this many failures call for,
\* wherever the clock wraps; only a pour or a token event cuts the wait short.
BackoffHonoured ==
  [][sent' = "loop" /\ last = "transient" /\ ~urgent => since >= Delay(failures)]_vars

\* A device that was not denied never stops trying for longer than the backoff cap
\* or a heartbeat, plus a stall: no mix of backoff, pairing, empty queues and the
\* clock's wrap leaves it stuck.
NeverStarves == ~denied => since <= Longest + MaxLag

\* docs/configuration.md:63: the heartbeat bounds how long a command may have to
\* wait, whatever happened before the last answer: after one that calls for no wait
\* the server hears from the device again within a heartbeat's interval, a stall
\* aside.  While requests fail or pairing is pending only NeverStarves holds.
NoWait == {"accepted", "rejected", "allowed"}

HeartbeatBoundsLatency == ~denied /\ last \in NoWait => since <= HeartbeatMs + MaxLag

\* docs/kegboard-event-protocol.md:563: while pairing is pending the device keeps
\* its events and polls at the fast cadence for a window that starts with pairing,
\* then at the heartbeat interval, however the clock wraps, unless a pour or a token
\* event comes up, or a meter is pouring: a pour's updates take the queue along.
Cadence == IF (now - since - pairingStarted) % ClockRange < FastWindow THEN FastPoll ELSE HeartbeatMs

PairingPaced ==
  [][sent' = "loop" /\ last = "pending" /\ ~urgent /\ ~UpdateDue => since >= Cadence]_vars
=============================================================================
