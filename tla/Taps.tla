-------------------------------- MODULE Taps --------------------------------
(***************************************************************************)
(* What the authorization engine promises whoever stands at the taps       *)
(* (auth_engine.h, grant_table.h): each tap has one holder or none, a      *)
(* grant takes taps over whole, and a pour in progress never goes on under *)
(* another grant than the one it ran under.  A guest's pour alone is       *)
(* adopted.  AuthEngine implements this.                                   *)
(***************************************************************************)
CONSTANTS
  Meters,     \* one meter per tap
  GrantIds,   \* who may hold a tap
  Nobody      \* the holder of a tap that is free

VARIABLES
  holder,     \* the grant that holds each tap, or Nobody
  pouring     \* whether a pour is in progress on it

vars == <<holder, pouring>>

Init ==
  /\ holder = [m \in Meters |-> Nobody]
  /\ pouring = [m \in Meters |-> FALSE]

\* Grant g is given the taps T: it sheds the others, and what it takes from
\* another grant, or sheds, stops pouring.
Grant(g, T) ==
  /\ holder' = [m \in Meters |->
                  IF m \in T THEN g ELSE IF holder[m] = g THEN Nobody ELSE holder[m]]
  /\ pouring' = [m \in Meters |-> pouring[m] /\ holder[m] \in {Nobody, holder'[m]}]

\* The grants G end: their taps are free, and dry.
Free(G) == [m \in Meters |-> IF holder[m] \in G THEN Nobody ELSE holder[m]]

End(G) ==
  /\ holder' = Free(G)
  /\ pouring' = [m \in Meters |-> pouring[m] /\ holder[m] \notin G]

\* The pour on tap m ends, and with it the grant in G that it exhausted.
Stop(m, G) ==
  /\ G \subseteq {holder[m]}
  /\ holder' = Free(G)
  /\ pouring' = [n \in Meters |-> n # m /\ pouring[n] /\ holder[n] \notin G]

\* Beer flows at tap m, for its holder or for a guest.
Pour(m) ==
  /\ pouring' = [pouring EXCEPT ![m] = TRUE]
  /\ UNCHANGED holder

Next ==
  \/ \E g \in GrantIds, T \in SUBSET Meters : Grant(g, T)
  \/ \E G \in SUBSET GrantIds : End(G)
  \/ \E m \in Meters, G \in SUBSET GrantIds : Stop(m, G)
  \/ \E m \in Meters : Pour(m)

Spec == Init /\ [][Next]_vars

\* A pour that goes on is its holder's to the end: whoever else comes, takes
\* over or leaves, it does not change hands, unless a guest began it.
NoPourChangesHands ==
  [][\A m \in Meters :
       pouring[m] /\ pouring'[m] => holder[m] \in {Nobody, holder'[m]}]_vars
=============================================================================
