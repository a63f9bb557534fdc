------------------------- MODULE BoardConfigProofs -------------------------
(***************************************************************************)
(* Proofs about BoardConfig, for any files with any number of meters and   *)
(* relays, and any order in which code generation runs.                    *)
(***************************************************************************)
EXTENDS BoardConfig, FiniteSetTheorems, TLAPS

-----------------------------------------------------------------------------
(* The invariant *)

\* What the schemas let through
Valid(f) ==
  /\ ValidReporter(f) /\ ValidAuth(f) /\ ValidReader(f)
  /\ \A m \in DOMAIN f.meters : ValidMeter(f, m)

\* The relay entries of a file
Entries(f) == IF f.reporter = None THEN {} ELSE ToSet(f.reporter.relays)

\* A file that code is generated for: whatever refers to something refers to what
\* there is, and numbers differ.
Buildable(f) ==
  /\ {Hub, Reporter, Auth, Reader} \cap (DOMAIN f.meters \cup f.others) = {}
  /\ \A m \in DOMAIN f.meters : IsFiniteSet(f.meters[m].acts) /\ f.meters[m].acts \subseteq Ids(f)
  /\ f.reporter # None =>
       /\ f.reporter.meters \in Seq(DOMAIN f.meters)
       /\ f.reporter.relays \in Seq(Entries(f))
       /\ {Http, Clock} \subseteq Ids(f)
       /\ \A r \in Entries(f) : r.switch \in Ids(f)
       /\ UniqueRelayNumbers(f.reporter.relays)
  /\ f.auth # None => /\ f.auth.reporter \in Ids(f)
                      /\ IsFiniteSet(f.auth.acts) /\ f.auth.acts \subseteq Ids(f)
  /\ f.reader # None => /\ f.reader.bus \in Ids(f)
                        /\ IsFiniteSet(f.reader.acts) /\ f.reader.acts \subseteq Ids(f)
  /\ NumbersDiffer(f)

Stages == {"read", "valid", "bound", "rejected", "running"}

IInv ==
  /\ stage \in Stages
  /\ stage \in {"read", "valid"} => file \in Files
  /\ stage = "valid" => Valid(file)
  /\ stage \in {"bound", "running"} => Buildable(file) /\ done \in [Ids(file) -> Nat]
  /\ stage \in {"read", "valid"} => reported = <<>> /\ relays = <<>> /\ covered = <<>>
  /\ stage \in {"bound", "running"} =>
       /\ reported \in Seq(DOMAIN file.meters) /\ covered \in Seq(DOMAIN file.meters)
       /\ relays \in Seq(Entries(file))

LEMMA InitIInv == Init => IInv
BY DEF Init, IInv, Stages

\* Binding the authenticator to the reporter changes no id, no meter and no list.
LEMMA BoundFile ==
  ASSUME NEW f, WellFormed(f), Valid(f), NumbersDiffer(f), f.auth # None => f.reporter # None
  PROVE  Buildable(Bound(f)) /\ Ids(Bound(f)) = Ids(f)
<1> DEFINE b == Bound(f)
<1>1. /\ b.meters = f.meters /\ b.others = f.others /\ b.reporter = f.reporter /\ b.reader = f.reader
      /\ f.auth = None => b.auth = None
      /\ f.auth # None => b.auth # None /\ b.auth.acts = f.auth.acts /\ b.auth.reporter = Reporter
  <2>1. CASE f.auth = None
    BY <2>1 DEF Bound
  <2>2. CASE f.auth # None /\ f.auth.reporter # None
    BY <2>2 DEF Bound, Valid, ValidAuth
  <2>3. CASE f.auth # None /\ f.auth.reporter = None
    <3> DEFINE a == [f.auth EXCEPT !.reporter = Reporter]
    <3>1. b = [f EXCEPT !.auth = a]
      BY <2>3 DEF Bound
    <3>2. f = [serial |-> f.serial, meters |-> f.meters, others |-> f.others,
               reporter |-> f.reporter, auth |-> f.auth, reader |-> f.reader]
      BY DEF WellFormed
    <3>3. a # None /\ a.acts = f.auth.acts /\ a.reporter = Reporter
      BY <2>3 DEF WellFormed
    <3>. HIDE DEF a, b
    <3>4. /\ b.meters = f.meters /\ b.others = f.others /\ b.reporter = f.reporter /\ b.reader = f.reader
          /\ b.auth = a
      BY <3>1, <3>2
    <3>. QED  BY <2>3, <3>3, <3>4
  <2>. QED  BY <2>1, <2>2, <2>3
<1>. HIDE DEF b
<1>2. Ids(b) = Ids(f)
  BY <1>1 DEF Ids
<1>3. Entries(b) = Entries(f) /\ f.others \subseteq Ids(f) /\ (f.reporter # None => Reporter \in Ids(f))
  BY <1>1 DEF Entries, Ids
<1>4. ASSUME f.reporter # None
      PROVE  /\ f.reporter.meters \in Seq(DOMAIN f.meters)
             /\ f.reporter.relays \in Seq(Entries(f))
             /\ {Http, Clock} \subseteq Ids(f)
             /\ \A r \in Entries(f) : r.switch \in Ids(f)
             /\ UniqueRelayNumbers(f.reporter.relays)
  <2>1. ToSet(f.reporter.meters) \subseteq DOMAIN f.meters /\ {Http, Clock} \subseteq f.others
        /\ UniqueRelayNumbers(f.reporter.relays)
    BY <1>4 DEF Valid, ValidReporter
  <2>2. f.reporter.meters \in Seq(DOMAIN f.meters)
    BY <1>4, <2>1 DEF WellFormed
  <2>3. f.reporter.relays \in Seq(Entries(f))
    BY <1>4 DEF WellFormed, Entries
  <2>4. \A r \in Entries(f) : r.switch \in f.others
    BY <1>4 DEF Valid, ValidReporter, Entries, ToSet
  <2>. QED  BY <1>3, <2>1, <2>2, <2>3, <2>4
<1>5. \A m \in DOMAIN f.meters : IsFiniteSet(f.meters[m].acts) /\ f.meters[m].acts \subseteq Ids(f)
  BY DEF WellFormed, Valid, ValidMeter
<1>6. f.auth # None => /\ b.auth.reporter \in Ids(f)
                       /\ IsFiniteSet(b.auth.acts) /\ b.auth.acts \subseteq Ids(f)
  BY <1>1, <1>3 DEF WellFormed, Valid, ValidAuth
<1>7. f.reader # None => /\ f.reader.bus \in Ids(f)
                         /\ IsFiniteSet(f.reader.acts) /\ f.reader.acts \subseteq Ids(f)
  BY <1>3 DEF WellFormed, Valid, ValidReader
<1>8. NumbersDiffer(b)
  BY <1>1 DEF NumbersDiffer
<1>9. {Hub, Reporter, Auth, Reader} \cap (DOMAIN f.meters \cup f.others) = {}
  BY DEF WellFormed
<1>10. Buildable(b)
  BY <1>1, <1>2, <1>3, <1>4, <1>5, <1>6, <1>7, <1>8, <1>9 DEF Buildable
<1>. QED  BY <1>2, <1>10 DEF b

-----------------------------------------------------------------------------
(* Code generation *)

PlainCalls == {"new", "act", "set_hub", "set_http_request", "set_time", "set_reporter", "set_bus"}

\* The steps a file gives rise to: each waits for what the file has, adding a
\* meter names one meter, and adding a relay hands over an entry of the list.
Steps(f) ==
  {Step(call, needs) : call \in PlainCalls, needs \in SUBSET Ids(f)}
  \cup {Step("add_meter", {m}) : m \in DOMAIN f.meters}
  \cup {AddRelay(r) : r \in Entries(f)}

\* What a step of a file does to the tables of the reporter.
LEMMA StepEffect ==
  ASSUME NEW f, NEW s \in Steps(f)
  PROVE  /\ s.call = "add_meter" => \E m \in DOMAIN f.meters : s.needs = {m}
         /\ s.call = "add_relay" => s.entry \in Entries(f)
<1>1. CASE s \in {Step(call, needs) : call \in PlainCalls, needs \in SUBSET Ids(f)}
  <2>1. PICK call \in PlainCalls, needs \in SUBSET Ids(f) : s = Step(call, needs)
    BY <1>1
  <2>2. s.call = call
    BY <2>1 DEF Step
  <2>. QED  BY <2>2 DEF PlainCalls
<1>2. CASE s \in {Step("add_meter", {m}) : m \in DOMAIN f.meters}
  BY <1>2 DEF Step
<1>3. CASE s \in {AddRelay(r) : r \in Entries(f)}
  BY <1>3 DEF AddRelay
<1>. QED  BY <1>1, <1>2, <1>3 DEF Steps

\* A finite set listed is a list of its members.
LEMMA SetListed ==
  ASSUME NEW S, IsFiniteSet(S)
  PROVE  SetToSeq(S) \in Seq(S)
<1> DEFINE n == Cardinality(S)
<1>1. n \in Nat /\ ExistsBijection(1..n, S)
  BY FS_CardinalityType
<1>2. \E f \in [1..n -> S] : IsInjective(f)
  BY <1>1 DEF ExistsBijection, Bijection, Injection
<1>3. SetToSeq(S) \in [1..n -> S]
  BY <1>2 DEF SetToSeq
<1>. QED  BY <1>1, <1>3

\* A plain call before other steps
LEMMA PlainFirst ==
  ASSUME NEW f, NEW call \in PlainCalls, NEW needs \in SUBSET Ids(f), NEW rest \in Seq(Steps(f))
  PROVE  <<Step(call, needs)>> \o rest \in Seq(Steps(f))
<1>1. Step(call, needs) \in Steps(f)
  BY DEF Steps
<1>. HIDE DEF Step, Steps
<1>. QED  BY <1>1

\* The automations of a component are steps, in whatever order they are built.
LEMMA AutomationSteps ==
  ASSUME NEW f, NEW acts \in SUBSET Ids(f), IsFiniteSet(acts)
  PROVE  Automations(acts) \in Seq(Steps(f))
<1> DEFINE S == {Action(a) : a \in acts}
<1>1. IsFiniteSet(S)
  <2>1. [a \in acts |-> Action(a)] \in Surjection(acts, S)
    BY DEF Surjection
  <2>. HIDE DEF S
  <2>. QED  BY <2>1, FS_Surjection DEF ExistsSurjection
<1>2. S \subseteq Steps(f)
  <2>1. ASSUME NEW a \in acts PROVE Action(a) \in Steps(f)
    <3>1. {a} \in SUBSET Ids(f)
      OBVIOUS
    <3>. QED  BY <3>1 DEF Action, PlainCalls, Steps
  <2>. QED  BY <2>1
<1>. HIDE DEF S
<1>3. SetToSeq(S) \in Seq(S)
  BY <1>1, SetListed
<1>4. SetToSeq(S) \in Seq(Steps(f))
  BY <1>2, <1>3
<1>. QED  BY <1>4 DEF Automations, S

\* Every to_code declares first, and that is a step too.
LEMMA DeclaringSteps ==
  ASSUME NEW f, NEW rest \in Seq(Steps(f))
  PROVE  Declaring(rest) \in Seq(Steps(f))
<1>1. <<Step("new", {})>> \o rest \in Seq(Steps(f))
  BY PlainFirst DEF PlainCalls
<1>. QED  BY <1>1 DEF Declaring, New

\* The meter's to_code
LEMMA MeterSteps ==
  ASSUME NEW f, Buildable(f), NEW m \in DOMAIN f.meters
  PROVE  MeterCode(f, m) \in Seq(Steps(f))
<1>1. Automations(f.meters[m].acts) \in Seq(Steps(f))
  BY AutomationSteps DEF Buildable
<1>2. <<Step("set_hub", {Hub})>> \o Automations(f.meters[m].acts) \in Seq(Steps(f))
  BY <1>1, PlainFirst DEF PlainCalls, Ids
<1>. QED  BY <1>2, DeclaringSteps DEF MeterCode

\* The authenticator's
LEMMA AuthSteps ==
  ASSUME NEW f, Buildable(f), f.auth # None
  PROVE  AuthCode(f) \in Seq(Steps(f))
<1>1. Automations(f.auth.acts) \in Seq(Steps(f)) /\ {f.auth.reporter} \subseteq Ids(f)
  BY AutomationSteps DEF Buildable
<1>2. <<Step("set_reporter", {f.auth.reporter})>> \o Automations(f.auth.acts) \in Seq(Steps(f))
  BY <1>1, PlainFirst DEF PlainCalls
<1>. QED  BY <1>2, DeclaringSteps DEF AuthCode

\* The token reader's
LEMMA ReaderSteps ==
  ASSUME NEW f, Buildable(f), f.reader # None
  PROVE  ReaderCode(f) \in Seq(Steps(f))
<1>1. Automations(f.reader.acts) \in Seq(Steps(f)) /\ {f.reader.bus} \subseteq Ids(f)
  BY AutomationSteps DEF Buildable
<1>2. <<Step("set_bus", {f.reader.bus})>> \o Automations(f.reader.acts) \in Seq(Steps(f))
  BY <1>1, PlainFirst DEF PlainCalls
<1>. QED  BY <1>2, DeclaringSteps DEF ReaderCode

\* The reporter's: its lists become the steps that add meters and relays.
LEMMA ReporterSteps ==
  ASSUME NEW f, Buildable(f), f.reporter # None
  PROVE  ReporterCode(f) \in Seq(Steps(f))
<1> DEFINE M == [i \in DOMAIN f.reporter.meters |-> Step("add_meter", {f.reporter.meters[i]})]
           R == [i \in DOMAIN f.reporter.relays |-> AddRelay(f.reporter.relays[i])]
<1>1. f.reporter.meters \in Seq(DOMAIN f.meters) /\ f.reporter.relays \in Seq(Entries(f))
  BY DEF Buildable
<1>2. M \in Seq(Steps(f))
  <2>. DEFINE D == DOMAIN f.reporter.meters
             L(i) == Step("add_meter", {f.reporter.meters[i]})
  <2>1. ASSUME NEW i \in D PROVE L(i) \in Steps(f)
    <3>1. PICK m \in DOMAIN f.meters : m = f.reporter.meters[i]
      BY <1>1
    <3>2. L(i) = Step("add_meter", {m})
      BY <3>1
    <3>3. Step("add_meter", {m}) \in Steps(f)
      BY DEF Steps
    <3>. QED  BY <3>2, <3>3
  <2>2. D = 1..Len(f.reporter.meters) /\ Len(f.reporter.meters) \in Nat
    BY <1>1
  <2>. HIDE DEF L, D
  <2>3. [i \in D |-> L(i)] \in Seq(Steps(f))
    BY <2>1, <2>2
  <2>. QED  BY <2>3 DEF L, D
<1>3. R \in Seq(Steps(f))
  <2>1. \A i \in DOMAIN f.reporter.relays : AddRelay(f.reporter.relays[i]) \in Steps(f)
    BY <1>1 DEF Steps
  <2>. QED  BY <1>1, <2>1
<1>4. {Hub, Http, Clock} \subseteq Ids(f)
  BY DEF Buildable, Ids
<1>. DEFINE A == Step("set_hub", {Hub})
            B == Step("set_http_request", {Http})
            C == Step("set_time", {Clock})
<1>5. A \in Steps(f) /\ B \in Steps(f) /\ C \in Steps(f)
  BY <1>4 DEF Steps, PlainCalls
<1>. HIDE DEF A, B, C, M, R
<1>6. <<A, B, C>> \o M \o R \in Seq(Steps(f))
  BY <1>2, <1>3, <1>5
<1>7. Declaring(<<A, B, C>> \o M \o R) \in Seq(Steps(f))
  BY <1>6, DeclaringSteps
<1>. QED  BY <1>7 DEF ReporterCode, A, B, C, M, R

\* Whatever component code is generated for, its to_code is made of such steps.
LEMMA CodeSteps ==
  ASSUME Buildable(file), NEW c \in Ids(file)
  PROVE  ToCode(c) \in Seq(Steps(file))
<1>1. {Hub, Reporter, Auth, Reader} \cap (DOMAIN file.meters \cup file.others) = {}
  BY DEF Buildable
<1>2. CASE c \in DOMAIN file.meters
  <2>1. ToCode(c) = MeterCode(file, c)
    BY <1>1, <1>2, FilesAssumption DEF ToCode
  <2>. QED  BY <1>2, <2>1, MeterSteps
<1>3. CASE c = Reporter
  <2>1. ToCode(c) = ReporterCode(file) /\ file.reporter # None
    BY <1>1, <1>3, FilesAssumption DEF ToCode, Ids
  <2>. QED  BY <2>1, ReporterSteps
<1>4. CASE c = Auth
  <2>1. ToCode(c) = AuthCode(file) /\ file.auth # None
    BY <1>1, <1>4, FilesAssumption DEF ToCode, Ids
  <2>. QED  BY <2>1, AuthSteps
<1>5. CASE c = Reader
  <2>1. ToCode(c) = ReaderCode(file) /\ file.reader # None
    BY <1>1, <1>5, FilesAssumption DEF ToCode, Ids
  <2>. QED  BY <2>1, ReaderSteps
<1>6. CASE c \notin DOMAIN file.meters /\ c # Reporter /\ c # Auth /\ c # Reader
  <2>1. ToCode(c) = Declaring(<<>>)
    BY <1>6 DEF ToCode
  <2>2. <<>> \in Seq(Steps(file))
    OBVIOUS
  <2>. QED  BY <2>1, <2>2, DeclaringSteps
<1>. QED  BY <1>2, <1>3, <1>4, <1>5, <1>6

-----------------------------------------------------------------------------
(* The steps keep the invariant. *)

LEMMA ValidateIInv == IInv /\ Validate => IInv'
BY DEF IInv, Validate, Valid, Stages, Program

LEMMA FinalValidateIInv == IInv /\ FinalValidate => IInv'
<1> SUFFICES ASSUME IInv, FinalValidate PROVE IInv'
  OBVIOUS
<1>1. file \in Files /\ Valid(file) /\ reported = <<>> /\ relays = <<>> /\ covered = <<>>
  BY DEF IInv, FinalValidate
<1>2. UNCHANGED <<reported, relays, covered>>
  BY DEF FinalValidate
<1>3. CASE NumbersDiffer(file) /\ (file.auth # None => file.reporter # None)
  <2>1. stage' = "bound" /\ file' = Bound(file) /\ done' = [c \in Ids(file) |-> 0]
    BY <1>3 DEF FinalValidate
  <2>2. Buildable(file') /\ Ids(file') = Ids(file)
    BY <1>1, <1>3, <2>1, BoundFile, FilesAssumption
  <2>3. done' \in [Ids(file') -> Nat]
    BY <2>1, <2>2
  <2>. QED  BY <1>1, <1>2, <2>1, <2>2, <2>3 DEF IInv, Stages
<1>4. CASE ~(NumbersDiffer(file) /\ (file.auth # None => file.reporter # None))
  <2>1. stage' = "rejected"
    BY <1>4 DEF FinalValidate
  <2>. QED  BY <2>1 DEF IInv, Stages
<1>. QED  BY <1>3, <1>4

LEMMA GenerateIInv == ASSUME IInv, NEW c \in DOMAIN done, Generate(c) PROVE IInv'
<1> DEFINE step == ToCode(c)[done[c] + 1]
           more == IF step.call = "add_meter" THEN SetToSeq(step.needs) ELSE <<>>
           valve == IF step.call = "add_relay" THEN <<step.entry>> ELSE <<>>
<1>1. /\ stage = "bound" /\ stage' = stage /\ file' = file /\ covered' = covered
      /\ done[c] < Len(ToCode(c))
      /\ done' = [done EXCEPT ![c] = @ + 1]
      /\ reported' = reported \o more /\ relays' = relays \o valve
  BY DEF Generate
<1>2. /\ Buildable(file) /\ done \in [Ids(file) -> Nat]
      /\ reported \in Seq(DOMAIN file.meters) /\ covered \in Seq(DOMAIN file.meters)
      /\ relays \in Seq(Entries(file))
  BY <1>1 DEF IInv
<1>3. step \in Steps(file)
  <2>1. ToCode(c) \in Seq(Steps(file)) /\ done[c] \in Nat
    BY <1>2, CodeSteps
  <2>. QED  BY <1>1, <2>1
<1>4. more \in Seq(DOMAIN file.meters)
  <2>1. CASE step.call = "add_meter"
    <3>1. PICK m \in DOMAIN file.meters : step.needs = {m}
      BY <1>3, <2>1, StepEffect
    <3>2. SetToSeq({m}) \in Seq({m})
      BY SetListed, FS_Singleton
    <3>3. more = SetToSeq({m})
      BY <2>1, <3>1
    <3>. HIDE DEF more
    <3>. QED  BY <3>1, <3>2, <3>3
  <2>2. CASE step.call # "add_meter"
    <3>1. more = <<>> /\ <<>> \in Seq(DOMAIN file.meters)
      BY <2>2
    <3>. HIDE DEF more
    <3>. QED  BY <3>1
  <2>. QED  BY <2>1, <2>2
<1>5. valve \in Seq(Entries(file))
  BY <1>3, StepEffect
<1>. HIDE DEF more, valve, step
<1>6. reported' \in Seq(DOMAIN file.meters) /\ relays' \in Seq(Entries(file))
  BY <1>1, <1>2, <1>4, <1>5
<1>7. done' \in [Ids(file) -> Nat]
  BY <1>1, <1>2
<1>. QED  BY <1>1, <1>2, <1>6, <1>7 DEF IInv, Stages

LEMMA BootIInv == IInv /\ Boot => IInv'
<1> SUFFICES ASSUME IInv, Boot PROVE IInv'
  OBVIOUS
<1>1. /\ stage = "bound" /\ stage' = "running" /\ (covered' = reported \/ covered' = <<>>)
      /\ file' = file /\ done' = done /\ reported' = reported /\ relays' = relays
  BY DEF Boot
<1>2. /\ Buildable(file) /\ done \in [Ids(file) -> Nat]
      /\ reported \in Seq(DOMAIN file.meters) /\ relays \in Seq(Entries(file))
  BY <1>1 DEF IInv
<1>3. covered' \in Seq(DOMAIN file.meters)
  <2>1. <<>> \in Seq(DOMAIN file.meters)
    OBVIOUS
  <2>. QED  BY <1>1, <1>2, <2>1
<1>. QED  BY <1>1, <1>2, <1>3 DEF IInv, Stages

LEMMA NextIInv == IInv /\ [Next]_vars => IInv'
<1> SUFFICES ASSUME IInv, [Next]_vars PROVE IInv'
  OBVIOUS
<1>1. CASE UNCHANGED vars
  BY <1>1 DEF IInv, vars
<1>2. ASSUME NEW c \in DOMAIN done, Generate(c) PROVE IInv'
  BY <1>2, GenerateIInv
<1>. QED  BY <1>1, <1>2, ValidateIInv, FinalValidateIInv, BootIInv DEF Next

\* Whatever the files, and in whatever order code is generated: what has passed the
\* validations refers only to what is there, no two of its meters share a number, and
\* the tables the program fills hold the file's own meters and relays.
THEOREM Invariant == Spec => []IInv
BY InitIInv, NextIInv, PTL DEF Spec

\* meter_by_number and relay_by_number of a board that runs find at most one port.
THEOREM NumbersIdentifyPortsHolds == Spec => []NumbersIdentifyPorts
<1>1. IInv => NumbersIdentifyPorts
  <2> SUFFICES ASSUME IInv, stage = "running"
               PROVE  /\ \A i \in DOMAIN covered, j \in DOMAIN reported :
                           file.meters[covered[i]].number = file.meters[reported[j]].number
                             => covered[i] = reported[j]
                      /\ \A i, j \in DOMAIN relays :
                           relays[i].number = relays[j].number => relays[i].switch = relays[j].switch
    BY DEF NumbersIdentifyPorts
  <2>1. /\ Buildable(file)
        /\ reported \in Seq(DOMAIN file.meters) /\ covered \in Seq(DOMAIN file.meters)
        /\ relays \in Seq(Entries(file))
    BY DEF IInv
  <2>2. \A i \in DOMAIN covered, j \in DOMAIN reported :
          file.meters[covered[i]].number = file.meters[reported[j]].number => covered[i] = reported[j]
    BY <2>1 DEF Buildable, NumbersDiffer
  <2>3. ASSUME NEW i \in DOMAIN relays, NEW j \in DOMAIN relays, relays[i].number = relays[j].number
        PROVE  relays[i].switch = relays[j].switch
    <3>1. relays[i] \in Entries(file) /\ relays[j] \in Entries(file)
      BY <2>1
    <3>2. file.reporter # None
      BY <3>1 DEF Entries
    <3>3. PICK k, l \in DOMAIN file.reporter.relays :
            relays[i] = file.reporter.relays[k] /\ relays[j] = file.reporter.relays[l]
      BY <3>1, <3>2 DEF Entries, ToSet
    <3>4. k = l
      BY <2>1, <2>3, <3>2, <3>3 DEF Buildable, UniqueRelayNumbers
    <3>. QED  BY <3>3, <3>4
  <2>. QED  BY <2>2, <2>3
<1>. QED  BY <1>1, Invariant, PTL
=============================================================================
