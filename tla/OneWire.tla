------------------------------ MODULE OneWire ------------------------------
(***************************************************************************)
(* iButton presence on a 1-Wire bus: kegboard_onewire.cpp.  A search finds *)
(* any of the buttons; one that is new is reported attached, one that was  *)
(* missed too often in a row is reported detached.  The miss counter is a  *)
(* uint8_t, ByteRange stands for 256.                                      *)
(***************************************************************************)
EXTENDS Naturals

CONSTANTS
  Buttons,      \* the addresses a search may find; address 0 is skipped
  MaxMissed,    \* max_missed_searches_
  ByteRange,    \* the miss counter counts modulo this
  MaxSearches   \* bound: true misses in a row that are told apart

ASSUME OneWireAssumption ==
  /\ ByteRange \in Nat \ {0} /\ MaxMissed \in 0..(ByteRange - 1)
  /\ MaxSearches \in Nat /\ MaxSearches > MaxMissed

Unknown == ByteRange   \* no entry for the button

VARIABLES
  misses,              \* present_: the entries' counters, Unknown where there is none
  attached, detached,  \* the buttons whose triggers the last search fired
  missed               \* checking only: searches in a row that did not find the button

ReaderVars == <<misses, attached, detached, missed>>

\* One entry of present_ after a search.
\* Mutant: it goes one miss late.
Aged_Late(count) == IF count <= MaxMissed THEN (count + 1) % ByteRange ELSE Unknown

Aged(count) == IF (count + 1) % ByteRange <= MaxMissed THEN (count + 1) % ByteRange ELSE Unknown

\* ... that did not find it, or did.  Mutant: finding it does not clear its counter.
Searched_Uncleared(b, found) ==
  IF misses[b] # Unknown THEN Aged(misses[b]) ELSE IF b \in found THEN 0 ELSE Unknown

Searched(b, found) ==
  IF b \in found THEN 0 ELSE IF misses[b] = Unknown THEN Unknown ELSE Aged(misses[b])

ReaderInit ==
  /\ misses = [b \in Buttons |-> Unknown]
  /\ attached = {} /\ detached = {}
  /\ missed = [b \in Buttons |-> 0]

Update(found) ==
  /\ misses' = [b \in Buttons |-> Searched(b, found)]
  /\ attached' = {b \in found : misses[b] = Unknown}
  /\ detached' = {b \in Buttons : misses[b] # Unknown /\ misses'[b] = Unknown}
  /\ missed' = [b \in Buttons |->
                  IF b \in found THEN 0
                  ELSE IF missed[b] < MaxSearches THEN missed[b] + 1 ELSE missed[b]]

ReaderNext == \E found \in SUBSET Buttons : Update(found)

ReaderSpec == ReaderInit /\ [][ReaderNext]_ReaderVars

-----------------------------------------------------------------------------
(* Properties *)

\* Every variable has its type.
ReaderTypeOK ==
  /\ misses \in [Buttons -> 0..ByteRange]
  /\ attached \subseteq Buttons /\ detached \subseteq Buttons
  /\ missed \in [Buttons -> 0..MaxSearches]

\* A held button makes intermittent contact: it is not reported detached, which
\* would end its grant, before it was missed more often than tolerated in a row.
NoFlapping == [][\A b \in detached' : missed'[b] > MaxMissed]_ReaderVars

\* kegboard_onewire.h:20: a disappearance is reported after several consecutive
\* misses: a button that was missed more often than tolerated is not kept present.
AbsenceNoticed == \A b \in Buttons : missed[b] > MaxMissed => misses[b] = Unknown
=============================================================================
