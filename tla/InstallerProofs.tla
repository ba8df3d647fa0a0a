--------------------------- MODULE InstallerProofs ---------------------------
(* Proofs about Installer, for any number of versions and invocations.      *)
EXTENDS Installer, TLAPS

\* What the script knows by the time it starts the service: the rule is there,
\* and a process can only be one of the exe it has put in place.
ProgressInv ==
    /\ pc \in {"create", "start"} => rules > 0
    /\ placed /\ pc \in {"query", "stop", "remove", "rule", "create", "start"}
         => disk = run.version
    /\ placed /\ pc = "start" => image \in {0, run.version}

IInv == TypeOK /\ ProgressInv

-----------------------------------------------------------------------------
\* A machine on which nothing was ever installed.
LEMMA InitInv == Init => IInv
<1> SUFFICES ASSUME Init PROVE IInv  OBVIOUS
<1> USE DEF Init
<1>1. 0 \in 0..Releases /\ 0 \in 0..MaxRules  BY ReleasesAssumption, RulesAssumption
<1>2. TypeOK  BY <1>1 DEF TypeOK
<1>3. ProgressInv  BY DEF ProgressInv
<1> QED  BY <1>2, <1>3 DEF IInv

\* A new invocation forgets what the last one had placed.
LEMMA BeginInv == ASSUME IInv, NEW r \in Runs, Begin(r) PROVE IInv'
<1> USE DEF IInv, Begin, Goto, machine
<1>1. TypeOK'  BY DEF TypeOK
<1>2. ProgressInv'  BY DEF ProgressInv
<1> QED  BY <1>1, <1>2

\* Each step of the script keeps the invariant.
LEMMA ScriptInv == IInv /\ Script => IInv'
<1> SUFFICES ASSUME IInv, Script PROVE IInv'  OBVIOUS
<1> USE DEF IInv, Goto, End, machine
<1>1. CASE Refuse \/ AddRuleFails \/ NewServiceFails \/ StartServiceFails
  <2> USE <1>1 DEF Refuse, AddRuleFails, NewServiceFails, StartServiceFails
  <2>1. TypeOK'  BY DEF TypeOK
  <2>2. ProgressInv'  BY DEF ProgressInv
  <2> QED  BY <2>1, <2>2
<1>2. CASE CopyFiles \/ CopyFails
  <2> USE <1>2 DEF CopyFiles, CopyFails, Files
  <2>1. run.version \in 0..Releases  BY DEF TypeOK, Runs
  <2>2. TypeOK'  BY <2>1 DEF TypeOK
  <2>3. ProgressInv'  BY DEF ProgressInv
  <2> QED  BY <2>2, <2>3
<1>3. CASE GetService
  <2> USE <1>3 DEF GetService
  <2>1. TypeOK'  BY DEF TypeOK
  <2>2. ProgressInv'  BY DEF ProgressInv
  <2> QED  BY <2>1, <2>2
<1>4. CASE StopService
  <2> USE <1>4 DEF StopService
  <2>1. 0 \in 0..Releases  BY ReleasesAssumption
  <2>2. TypeOK'
    <3>1. CASE UNCHANGED <<service, image>>  BY <3>1 DEF TypeOK
    <3>2. CASE ~UNCHANGED <<service, image>>  BY <3>2, <2>1 DEF TypeOK
    <3> QED  BY <3>1, <3>2
  <2>3. ProgressInv'  BY DEF ProgressInv
  <2> QED  BY <2>2, <2>3
<1>5. CASE RemoveService
  <2> USE <1>5 DEF RemoveService
  <2>1. TypeOK'  BY DEF TypeOK
  <2>2. ProgressInv'  BY DEF ProgressInv
  <2> QED  BY <2>1, <2>2
<1>6. CASE AddRule
  <2> USE <1>6 DEF AddRule
  <2>1. rules' \in 1..MaxRules  BY RulesAssumption DEF TypeOK
  <2>2. TypeOK'  BY <2>1 DEF TypeOK
  <2>3. ProgressInv'  BY <2>1 DEF ProgressInv
  <2> QED  BY <2>2, <2>3
<1>7. CASE NewService
  <2> USE <1>7 DEF NewService
  <2>1. TypeOK'  BY DEF TypeOK
  <2>2. ProgressInv'  BY DEF ProgressInv, TypeOK
  <2> QED  BY <2>1, <2>2
<1>8. CASE StartService
  <2> USE <1>8 DEF StartService
  <2>1. TypeOK'  BY DEF TypeOK
  <2>2. ProgressInv'  BY DEF ProgressInv
  <2> QED  BY <2>1, <2>2
<1> QED  BY <1>1, <1>2, <1>3, <1>4, <1>5, <1>6, <1>7, <1>8 DEF Script

\* Nothing else that happens to the service puts an older process behind a
\* script that has placed its exe.
LEMMA MachineInv ==
    IInv /\ (ServiceStops \/ ServiceStarts \/ DeletionEnds \/ Restart) => IInv'
<1> SUFFICES ASSUME IInv, ServiceStops \/ ServiceStarts \/ DeletionEnds \/ Restart
             PROVE  IInv'
  OBVIOUS
<1> USE DEF IInv
<1>1. CASE ServiceStops \/ ServiceStarts \/ DeletionEnds
  <2> USE <1>1 DEF ServiceStops, ServiceStarts, DeletionEnds
  <2>1. 0 \in 0..Releases  BY ReleasesAssumption
  <2>2. TypeOK'  BY <2>1 DEF TypeOK
  <2>3. ProgressInv'  BY DEF ProgressInv, TypeOK
  <2> QED  BY <2>2, <2>3
<1>2. CASE Restart
  <2> USE <1>2 DEF Restart
  <2>1. 0 \in 0..Releases  BY ReleasesAssumption
  <2>2. TypeOK'
    <3>1. disk' \in 0..Releases  BY <2>1 DEF TypeOK, Runs
    <3> QED  BY <2>1, <3>1 DEF TypeOK
  <2>3. ProgressInv'  BY DEF ProgressInv
  <2> QED  BY <2>2, <2>3
<1> QED  BY <1>1, <1>2

LEMMA StepInv == IInv /\ [Next]_vars => IInv'
<1> SUFFICES ASSUME IInv, [Next]_vars PROVE IInv'  OBVIOUS
<1>1. CASE UNCHANGED vars  BY <1>1 DEF vars, IInv, TypeOK, ProgressInv
<1>2. CASE Next  BY <1>2, BeginInv, ScriptInv, MachineInv DEF Next
<1> QED  BY <1>1, <1>2

\* The invariant is one of the specification.
THEOREM Invariance == Spec => []IInv
BY InitInv, StepInv, PTL DEF Spec

-----------------------------------------------------------------------------
\* The control manager never has a running service without a process, nor a
\* process without an entry (install.ps1, and what else happens to a service).
THEOREM TypeCorrect == Spec => []TypeOK
<1>1. IInv => TypeOK  BY DEF IInv
<1> QED  BY <1>1, Invariance, PTL

\* "service install success" means a running service behind a firewall rule,
\* of the new version if the copy succeeded (install.ps1).
THEOREM SuccessHolds == Spec => SuccessIsHonest
<1>1. IInv /\ [Next]_vars =>
        [Succeeds => /\ service' = "running" /\ rules' > 0
                     /\ placed => image' = run.version]_vars
  <2> SUFFICES ASSUME IInv, Next, Succeeds
               PROVE  /\ service' = "running" /\ rules' > 0
                      /\ placed => image' = run.version
    OBVIOUS
  <2>1. StartService
    <3>1. ASSUME NEW r \in Runs, Begin(r) PROVE FALSE  BY <3>1 DEF Begin, Succeeds
    <3>2. CASE Restart  BY <3>2 DEF Restart, Succeeds
    <3>3. CASE ServiceStops \/ ServiceStarts \/ DeletionEnds
      BY <3>3 DEF ServiceStops, ServiceStarts, DeletionEnds, Succeeds
    <3>4. CASE Script
      BY <3>4 DEF Script, Refuse, CopyFiles, CopyFails, Files, GetService, StopService,
         RemoveService, AddRule, AddRuleFails, NewService, NewServiceFails,
         StartServiceFails, Goto, End, Succeeds
    <3> QED  BY <3>1, <3>2, <3>3, <3>4 DEF Next
  <2> QED  BY <2>1 DEF StartService, IInv, TypeOK, ProgressInv
<1> QED  BY <1>1, Invariance, PTL DEF Spec, SuccessIsHonest
=============================================================================
