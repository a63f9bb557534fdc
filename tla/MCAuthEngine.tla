---------------------------- MODULE MCAuthEngine ----------------------------
(* Small instances of AuthEngine: two meters, a relay, two grant ids. *)
EXTENDS AuthEngine

CONSTANTS g1, g2, m1, m2, mx, r1, reader, alice, bob

Grant(id, meters, relays, device, token, maxVolume) ==
  [id |-> id, meters |-> meters, relays |-> relays, device |-> device, token |-> token,
   maxVolume |-> maxVolume]

\* Two drinkers over the two taps: one tap each, both for one, a shared relay,
\* volume limits, updates that add, shed and move taps and the relay, and a grant on
\* a meter the device does not have.
TakeoverSpecs == {
  Grant(g1, {m1},     {r1},     reader, alice, 2),
  Grant(g2, {m2},     {r1},     Anyone, bob,   0),
  Grant(g2, {m1, m2}, {},       reader, bob,   3),
  Grant(g2, {m1},     {r1},     reader, bob,   0),
  Grant(g2, {m1, mx}, {},       reader, bob,   0)}

\* One drinker on both taps, whose volume budget is lowered and raised, and
\* another who takes one of them over; no valves, the run is about volume
BudgetSpecs == {
  Grant(g1, {m1, m2}, {}, reader, alice, 1),
  Grant(g1, {m1, m2}, {}, reader, alice, 3),
  Grant(g2, {m1},     {}, Anyone, bob,   2)}
=============================================================================
