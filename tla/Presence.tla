------------------------------ MODULE Presence ------------------------------
(***************************************************************************)
(* Buttons and grants together: the reader's search (OneWire) ends, through*)
(* its on_token_detached trigger and kegboard_auth.token_detached, the     *)
(* grants (GrantTable) of the buttons it gives up, in the middle of its own*)
(* loop.  Everything else the table does goes on between two searches.     *)
(***************************************************************************)
EXTENDS GrantTable, OneWire

CONSTANTS
  Reader,   \* the auth_device that the configuration gives the reader's tokens
  TokenOf   \* format_token_: the token of each button

ASSUME PresenceAssumption == \A b \in Buttons : <<Reader, TokenOf[b]>> \in Detachments

PresenceVars == <<vars, ReaderVars>>

PresenceInit == Init /\ ReaderInit

\* One search of the bus, with what its detached triggers do
Search(found) ==
  /\ Update(found)
  /\ DetachAll({<<Reader, TokenOf[b]>> : b \in detached'})

TableStep == Next /\ UNCHANGED ReaderVars

PresenceNext == TableStep \/ \E found \in SUBSET Buttons : Search(found)

PresenceSpec == PresenceInit /\ [][PresenceNext]_PresenceVars
=============================================================================
