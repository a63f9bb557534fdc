-------------------------- MODULE MCSimulatorPours --------------------------
(* A small instance of SimulatorPours: two meters, two drinkers. *)
EXTENDS SimulatorPours

CONSTANTS g1, g2, m1, m2, fob

Grant(id, meters, relays, token, maxVolume) ==
  [id |-> id, meters |-> meters, relays |-> relays, token |-> token, maxVolume |-> maxVolume]

\* A limited grant on both meters, which an update moves to one, a rival with an
\* iButton and no limit, and one that names a relay the device does not have
PourSpecs == {
  Grant(g1, {m1, m2}, {m1}, fob, 2),
  Grant(g1, {m1}, {}, fob, 1),
  Grant(g2, {m1}, {m1}, Button, 0),
  Grant(g2, {m2}, {fob}, Button, 0)}
=============================================================================
