------------------------------ MODULE MCValves ------------------------------
(* Small instances of Valves: one tap with one valve, and two drinkers in turn. *)
EXTENDS Valves

CONSTANTS g1, g2, m1, r1, alice, bob

Turn(id, token) ==
  [id |-> id, meters |-> {m1}, relays |-> {r1}, device |-> Anyone, token |-> token,
   maxVolume |-> 0, maxDuration |-> 0, maxIdle |-> 0]

TurnSpecs == {Turn(g1, alice), Turn(g2, bob)}
=============================================================================
