---------------------------- MODULE BoardConfig ----------------------------
(***************************************************************************)
(* From a YAML file to a running board: the schemas and final validations  *)
(* of the Kegboard components (src/components/*/__init__.py), their        *)
(* to_code coroutines, and the tables that the reporter and the auth       *)
(* component then look numbers up in.  ESPHome runs the coroutines in any  *)
(* order; get_variable waits for the one that declares the variable.       *)
(* Abstracted: sensors and triggers, which refer to nothing else, and      *)
(* settings, to whether a schema admits their value.                       *)
(***************************************************************************)
EXTENDS Naturals, FiniteSets, Sequences, SequencesExt

CONSTANTS
  Files,       \* the YAML files considered
  Hub, Auth, Reporter, Reader,   \* the variables of the single components
  Http, Clock,                   \* those of ESPHome's http_request and time
  None         \* a block, or a key, that a file does not have

(* A file is a record:                                                      *)
(*   serial    is the serial number free of whitespace and not empty       *)
(*   meters    meter id -> [number, calibrated, acts]; acts is the set of  *)
(*             ids that the actions of its triggers name                   *)
(*   others    ids of ESPHome's own: relays' switches, buses, Http, Clock  *)
(*   reporter  None or [meters, relays, sane]: ids; [number, switch]; does *)
(*             every other setting pass its check                          *)
(*   auth      None or [reporter, hours, acts]: an id or None; the clamp   *)
(*   reader    None or [bus, acts]                                         *)

VARIABLES
  file,      \* what was read; binding the reporter changes it
  stage,     \* "read", "valid", "bound", "rejected", "running"
  done,      \* how many of its steps the to_code of each component has run
  declared,  \* variables of the program generated so far
  reported,  \* KegboardReporter.meters_, as the generated program fills it
  relays,    \* KegboardReporter.relays_
  covered    \* KegboardAuth.meters_

\* What YAML and ESPHome see to: an id is one thing, lists are lists, and a block
\* that is there is not None.
WellFormed(f) ==
  /\ f = [serial |-> f.serial, meters |-> f.meters, others |-> f.others,
          reporter |-> f.reporter, auth |-> f.auth, reader |-> f.reader]
  /\ {Hub, Reporter, Auth, Reader} \cap (DOMAIN f.meters \cup f.others) = {}
  /\ \A m \in DOMAIN f.meters : IsFiniteSet(f.meters[m].acts)
  /\ f.reporter # None => /\ f.reporter.meters \in Seq(ToSet(f.reporter.meters))
                          /\ f.reporter.relays \in Seq(ToSet(f.reporter.relays))
  /\ f.auth # None => /\ f.auth = [reporter |-> f.auth.reporter, hours |-> f.auth.hours, acts |-> f.auth.acts]
                      /\ IsFiniteSet(f.auth.acts)
                      /\ [f.auth EXCEPT !.reporter = Reporter] # None
  /\ f.reader # None => IsFiniteSet(f.reader.acts)

ASSUME FilesAssumption ==
  /\ \A f \in Files : WellFormed(f)
  /\ Hub \notin {Reporter, Auth, Reader} /\ Reporter \notin {Auth, Reader} /\ Auth # Reader

vars == <<file, stage, done, declared, reported, relays, covered>>

-----------------------------------------------------------------------------
(* Schemas *)

Ids(f) ==
  {Hub} \cup DOMAIN f.meters \cup f.others
  \cup (IF f.reporter = None THEN {} ELSE {Reporter})
  \cup (IF f.auth = None THEN {} ELSE {Auth})
  \cup (IF f.reader = None THEN {} ELSE {Reader})

\* validate_serial_number
ValidHub(f) == f.serial

\* kegboard_meter's CONFIG_SCHEMA; whom actions name must exist.
ValidMeter(f, m) == f.meters[m].calibrated /\ f.meters[m].acts \subseteq Ids(f)

UniqueRelayNumbers(list) ==
  \A i, j \in DOMAIN list : list[i].number = list[j].number => i = j

\* kegboard_reporter's CONFIG_SCHEMA: a meter may be listed twice, or not at all.
ValidReporter(f) ==
  f.reporter # None =>
    /\ f.reporter.sane /\ {Http, Clock} \subseteq f.others
    /\ ToSet(f.reporter.meters) \subseteq DOMAIN f.meters
    /\ \A i \in DOMAIN f.reporter.relays : f.reporter.relays[i].switch \in f.others
    /\ UniqueRelayNumbers(f.reporter.relays)

MaxHours == 24

\* kegboard_auth's CONFIG_SCHEMA
ValidAuth(f) ==
  f.auth # None =>
    /\ f.auth.hours <= MaxHours
    /\ f.auth.reporter # None => f.auth.reporter = Reporter /\ f.reporter # None
    /\ f.auth.acts \subseteq Ids(f)

ValidReader(f) == f.reader # None => f.reader.bus \in f.others /\ f.reader.acts \subseteq Ids(f)

-----------------------------------------------------------------------------
Init ==
  /\ file \in Files
  /\ stage = "read"
  /\ done = <<>> /\ declared = {}
  /\ reported = <<>> /\ relays = <<>> /\ covered = <<>>

Program == <<done, declared, reported, relays, covered>>

Validate ==
  /\ stage = "read"
  /\ stage' = IF /\ ValidHub(file) /\ ValidReporter(file) /\ ValidAuth(file) /\ ValidReader(file)
                 /\ \A m \in DOMAIN file.meters : ValidMeter(file, m)
              THEN "valid" ELSE "rejected"
  /\ UNCHANGED <<file, Program>>

\* kegboard_meter's _final_validate.  Mutant: numbers left at their default pass.
NumbersDiffer_Explicit(f) ==
  \A m, n \in DOMAIN f.meters : f.meters[m].number = f.meters[n].number => m = n \/ f.meters[m].number = 0

NumbersDiffer(f) ==
  \A m, n \in DOMAIN f.meters : f.meters[m].number = f.meters[n].number => m = n

\* kegboard_auth's _final_validate
Bound(f) ==
  IF f.auth = None \/ f.auth.reporter # None THEN f ELSE [f EXCEPT !.auth.reporter = Reporter]

FinalValidate ==
  /\ stage = "valid"
  /\ IF NumbersDiffer(file) /\ (file.auth # None => file.reporter # None)
     THEN /\ stage' = "bound" /\ file' = Bound(file)
          /\ done' = [c \in Ids(file) |-> 0]
     ELSE stage' = "rejected" /\ UNCHANGED <<file, done>>
  /\ UNCHANGED <<declared, reported, relays, covered>>

-----------------------------------------------------------------------------
(* Code generation.  A step of a to_code runs up to its next get_variable:  *)
(* it waits for the variables it names, then adds its statements.           *)

Step(call, needs) == [call |-> call, needs |-> needs, entry |-> None]
AddRelay(r) == [call |-> "add_relay", needs |-> {r.switch}, entry |-> r]
New == Step("new", {})

\* register_parented: an action waits for the variable it is about.
Action(a) == Step("act", {a})

\* build_automation, for every trigger of a component
Automations(acts) == SetToSeq({Action(a) : a \in acts})

\* Every to_code declares its variable before it waits for any other.
\* Mutant: it resolves what it refers to first.
Declaring_Last(steps) == Append(steps, New)

Declaring(steps) == <<New>> \o steps

MeterCode(f, m) == Declaring(<<Step("set_hub", {Hub})>> \o Automations(f.meters[m].acts))

ReporterCode(f) ==
  Declaring(
    <<Step("set_hub", {Hub}), Step("set_http_request", {Http}), Step("set_time", {Clock})>>
    \o [i \in DOMAIN f.reporter.meters |-> Step("add_meter", {f.reporter.meters[i]})]
    \o [i \in DOMAIN f.reporter.relays |-> AddRelay(f.reporter.relays[i])])

AuthCode(f) ==
  Declaring(<<Step("set_reporter", {f.auth.reporter})>> \o Automations(f.auth.acts))

ReaderCode(f) == Declaring(<<Step("set_bus", {f.reader.bus})>> \o Automations(f.reader.acts))

\* The hub's and ESPHome's own refer to nothing here.
ToCode(c) ==
  CASE c \in DOMAIN file.meters -> MeterCode(file, c)
    [] c = Reporter -> ReporterCode(file)
    [] c = Auth -> AuthCode(file)
    [] c = Reader -> ReaderCode(file)
    [] OTHER -> Declaring(<<>>)

Generate(c) ==
  /\ stage = "bound" /\ done[c] < Len(ToCode(c))
  /\ LET step == ToCode(c)[done[c] + 1]
     IN /\ step.needs \subseteq declared
        /\ done' = [done EXCEPT ![c] = @ + 1]
        /\ declared' = declared \cup IF step.call = "new" THEN {c} ELSE {}
        /\ reported' = reported \o IF step.call = "add_meter" THEN SetToSeq(step.needs) ELSE <<>>
        /\ relays' = relays \o IF step.call = "add_relay" THEN <<step.entry>> ELSE <<>>
  /\ UNCHANGED <<file, stage, covered>>

\* The program is complete, and the board boots: KegboardAuth::setup asks the
\* reporter for its meters.
Boot ==
  /\ stage = "bound" /\ \A c \in DOMAIN done : done[c] = Len(ToCode(c))
  /\ stage' = "running"
  /\ covered' = IF Auth \in declared THEN reported ELSE <<>>
  /\ UNCHANGED <<file, done, declared, reported, relays>>

Next == Validate \/ FinalValidate \/ (\E c \in DOMAIN done : Generate(c)) \/ Boot

Spec == Init /\ [][Next]_vars

\* ESPHome's event loop resumes every coroutine that can go on.
FairSpec == Spec /\ WF_vars(Next)

-----------------------------------------------------------------------------
(* Properties *)

\* On a board that runs, a number is one port: whatever list is searched, and
\* however its meters and relays were ordered or repeated in the file, meter_by_number
\* of the auth component finds the one meter whose pours bear the number, and
\* relay_by_number the one valve.
NumbersIdentifyPorts ==
  stage = "running" =>
    /\ \A i \in DOMAIN covered, j \in DOMAIN reported :
         file.meters[covered[i]].number = file.meters[reported[j]].number => covered[i] = reported[j]
    /\ \A i, j \in DOMAIN relays : relays[i].number = relays[j].number => relays[i].switch = relays[j].switch

\* Code generation never gets stuck: though a meter's trigger may act on the auth
\* component, which waits for the reporter, which waits for the meter, every file
\* that is not rejected becomes a program.
GenerationEnds == stage = "read" ~> stage \in {"rejected", "running"}
=============================================================================
