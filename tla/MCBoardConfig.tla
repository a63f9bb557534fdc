--------------------------- MODULE MCBoardConfig ---------------------------
(* Files for BoardConfig: boards of one or two meters and relays, as the   *)
(* examples have them and with what a user may get wrong.                  *)
EXTENDS BoardConfig, TLC

CONSTANTS hub, auth, reporter, reader, http, clock, m1, m2, s1, s2, bus

\* The triggers of m1 may revoke the grant; the calibration of m2 may be 0.
Meter1 == [number : {0, 1}, calibrated : {TRUE}, acts : {{}, {auth}}]
Meter2 == [number : {0}, calibrated : BOOLEAN, acts : {{}}]

SomeReporters ==
  [meters : {<<>>, <<m1>>, <<m2, m1>>, <<m1, m1>>},
   relays : {<<>>, <<[number |-> 0, switch |-> s1], [number |-> 1, switch |-> s2]>>,
             <<[number |-> 1, switch |-> s1], [number |-> 1, switch |-> s2]>>},
   sane : {TRUE}]

SomeAuths == [reporter : {None, reporter}, hours : {24, 25}, acts : {{}, {m1, s1}}]

\* Every combination of a reporter and an authenticator on two meters, smaller
\* boards, and the mistakes that a schema finds by itself
BoardFiles ==
  [serial : {TRUE}, meters : {m1 :> a @@ m2 :> b : a \in Meter1, b \in Meter2}, others : {{s1, s2, http, clock}}, reporter : SomeReporters,
   auth : SomeAuths, reader : {None}]
  \cup
  [serial : BOOLEAN, meters : {m1 :> a : a \in Meter1}, others : {{bus, http, clock}, {bus, http}},
   reporter : {None, [meters |-> <<m1>>, relays |-> <<>>, sane |-> TRUE],
               [meters |-> <<m1>>, relays |-> <<>>, sane |-> FALSE]},
   auth : {None, [reporter |-> None, hours |-> 1, acts |-> {}]},
   reader : {None, [bus |-> bus, acts |-> {auth}]}]
=============================================================================
