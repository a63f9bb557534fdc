------------------------------ MODULE GrantOps ------------------------------
(***************************************************************************)
(* The grant table as a pure value.  A table maps every grant id to the    *)
(* spec of the live grant of that id (grant_table.h, struct GrantSpec), or *)
(* to NoGrant.  The lists of meters and relays in a spec are sets: the     *)
(* code only asks what they contain and how many they are.  GrantTable     *)
(* adds the clocks and counters, AuthEngine the device; both take what an  *)
(* operation does to the table from here.                                  *)
(***************************************************************************)
CONSTANTS
  GrantIds,     \* the ids a server may give a grant
  NoGrant,      \* the table has no live grant of this id
  Anyone        \* the empty string, where a spec or a detach names no reader or token

ASSUME NoGrantIsNotAnId == NoGrant \notin GrantIds

Live(tbl) == {g \in GrantIds : tbl[g] # NoGrant}

\* grant_for: the grants that cover meter m; at most one, as OneGrantPerMeter says
Holders(tbl, m) == {g \in Live(tbl) : m \in tbl[g].meters}

\* covers_relay
Covered(tbl, r) == \E g \in Live(tbl) : r \in tbl[g].relays

\* The meters grant g loses when spec s is applied: an update sheds what left
\* its scope, every other grant loses what the new scope takes.
Lost(tbl, s, g) ==
  IF g = s.id THEN tbl[g].meters \ s.meters ELSE tbl[g].meters \cap s.meters

\* The live grants that lose some meter to s, and those that lose them all.
\* Mutant: an update's own sheds are forgotten.
Losers_OthersOnly(tbl, s) == {g \in Live(tbl) \ {s.id} : Lost(tbl, s, g) # {}}

Losers(tbl, s)    == {g \in Live(tbl) : Lost(tbl, s, g) # {}}
Displaced(tbl, s) == {g \in Losers(tbl, s) : g # s.id /\ Lost(tbl, s, g) = tbl[g].meters}

\* The table after authorize(s).  Mutant: a takeover in part takes nothing.
Authorized_AllOrNothing(tbl, s) ==
  [g \in GrantIds |-> IF g = s.id THEN s ELSE IF g \in Displaced(tbl, s) THEN NoGrant ELSE tbl[g]]

Authorized(tbl, s) ==
  [g \in GrantIds |->
     IF g = s.id THEN s
     ELSE IF g \in Live(tbl) \ Displaced(tbl, s)
          THEN [tbl[g] EXCEPT !.meters = @ \ s.meters]
          ELSE NoGrant]

\* The table after the grants G ended
Ended(tbl, G) == [g \in GrantIds |-> IF g \in G THEN NoGrant ELSE tbl[g]]

\* The grants the removal of token t from reader d ends: the reader counts only
\* when both sides name one.
Presented(tbl, d, t) ==
  {g \in Live(tbl) : tbl[g].token = t /\ (Anyone \in {tbl[g].device, d} \/ tbl[g].device = d)}

=============================================================================
