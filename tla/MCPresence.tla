----------------------------- MODULE MCPresence -----------------------------
(* Small instances of Presence: two meters, two grants, a clock that wraps,   *)
(* and a reader with one button, whose miss counter has two bits.             *)
EXTENDS Presence, TLC

CONSTANTS g1, g2, m1, m2, reader, b1, alice, bob

ButtonTokens == (b1 :> alice)

TimedGrant(id, meters, token, maxVolume, maxDuration, maxIdle) ==
  [id |-> id, meters |-> meters, relays |-> {}, device |-> Anyone, token |-> token,
   maxVolume |-> maxVolume, maxDuration |-> maxDuration, maxIdle |-> maxIdle]

\* Unlimited, an idle limit, a volume limit with a request beyond the clamp, and a
\* duration below it, over scopes that take meters from each other
LimitSpecs == {
  TimedGrant(g1, {m1, m2}, alice, 0, 0, 0),
  TimedGrant(g1, {m1},     alice, 0, 2, 1),
  TimedGrant(g2, {m2},     bob,   2, Clamp + 2, 2),
  TimedGrant(g2, {m1, m2}, bob,   0, 1, 0)}

\* A token that leaves a reader no grant names, which still matches, and one that
\* leaves from an unknown reader
Removals == {<<reader, alice>>, <<Anyone, bob>>}
=============================================================================
