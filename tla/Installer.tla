------------------------------ MODULE Installer ------------------------------
(***************************************************************************)
(* install.ps1, run by the MSI or by hand from an unpacked archive, on a   *)
(* machine that may already run the service.  An error of a cmdlet does    *)
(* not end the script unless the script looks at it, and the script looks  *)
(* only at the last three.                                                 *)
(*                                                                         *)
(* A version of the program is a number, 0 for none.                       *)
(***************************************************************************)
EXTENDS Naturals

CONSTANTS
    Releases,       \* the versions there are: 1..Releases
    MaxRules        \* the number of firewall rules at which counting stops

ASSUME ReleasesAssumption == Releases \in Nat \ {0}
ASSUME RulesAssumption == MaxRules \in Nat \ {0}

VARIABLES
    pc,         \* the next step of the script, or "idle"
    run,        \* this invocation: the version it brings, who started it, and
                \* whether Remove-Service exists (PowerShell 6 and later)
    disk,       \* the version of HardwareExporterWindows.exe in $TargetPath
    service,    \* the service HardwareExporter, as the control manager sees it
    image,      \* the version its process runs
    found,      \* $service: Get-Service returned one
    placed,     \* the invocation's own exe is in $TargetPath
    rules,      \* firewall rules called HardwareExporter
    outcome     \* how the last invocation ended

vars == <<pc, run, disk, service, image, found, placed, rules, outcome>>

Runs == [version : 1..Releases, by : {"msi", "hand"}, canRemove : BOOLEAN]

\* Script, service and files are in states they can have; in particular a
\* service that runs has a process, and a process has an entry.
TypeOK ==
    /\ pc \in {"idle", "copy", "query", "stop", "remove", "rule", "create", "start"}
    /\ run \in Runs
    /\ disk \in 0..Releases
    /\ service \in {"absent", "stopped", "running", "deleting"}
    /\ image \in 0..Releases
    /\ found \in BOOLEAN
    /\ placed \in BOOLEAN
    /\ rules \in 0..MaxRules
    /\ outcome \in {"none", "success", "gaveUp", "interrupted"}
    /\ service = "running" => image # 0
    /\ image # 0 => service \in {"running", "deleting"}

Init ==
    /\ pc = "idle"
    /\ run \in Runs /\ run.version = 1 /\ run.by = "hand"
    /\ disk = 0
    /\ service = "absent"
    /\ image = 0
    /\ found = FALSE
    /\ placed = FALSE
    /\ rules = 0
    /\ outcome = "none"

machine == <<disk, service, image, rules>>

-----------------------------------------------------------------------------
(* The script.                                                             *)

Goto(step) == pc' = step /\ UNCHANGED outcome
End(how) == pc' = "idle" /\ outcome' = how

\* powershell.exe, which the MSI runs, is Windows PowerShell 5.1.
Begin(r) ==
    /\ pc = "idle"
    /\ r.version \in {run.version, run.version + 1}
    /\ r.by = "msi" => ~r.canRemove
    /\ run' = r
    /\ placed' = FALSE
    /\ found' = FALSE
    /\ Goto("copy")
    /\ UNCHANGED machine

\* Not run as administrator, as the MSI always is.
Refuse ==
    /\ pc = "copy"
    /\ run.by = "hand"
    /\ End("gaveUp")
    /\ UNCHANGED <<run, machine, found, placed>>

Files(version, ok) ==
    /\ disk' = version
    /\ placed' = ok
    /\ Goto("query")
    /\ UNCHANGED <<run, service, image, found, rules>>

\* Copy-Item, which cannot overwrite the exe of a running process; or the
\* MSI's own InstallFiles, before the script.
CopyFiles ==
    /\ pc = "copy"
    /\ run.by = "msi" \/ image = 0
    /\ Files(run.version, TRUE)

\* The script goes on without.  The MSI may leave a file in use for later.
CopyFails == pc = "copy" /\ Files(disk, disk = run.version)

\* (mutant: a service that is there already is left there)
GetServiceOnly ==
    /\ pc = "query"
    /\ found' = (service # "absent")
    /\ Goto("rule")
    /\ UNCHANGED <<run, machine, placed>>

GetService ==
    /\ pc = "query"
    /\ found' = (service # "absent")
    /\ Goto(IF service # "absent" THEN "stop" ELSE "rule")
    /\ UNCHANGED <<run, machine, placed>>

\* Stop-Service, which may fail.
StopService ==
    /\ pc = "stop"
    /\ \/ UNCHANGED <<service, image>>
       \/ /\ image' = 0
          /\ service' = IF service = "running" THEN "stopped" ELSE service
    /\ Goto("remove")
    /\ UNCHANGED <<run, disk, found, placed, rules>>

\* (mutant: the entry of a running service is removed under it)
RemoveServiceRunning ==
    /\ pc = "remove"
    /\ service' \in {service} \union
                    (IF run.canRemove THEN {"absent", "deleting"} ELSE {})
    /\ Goto("rule")
    /\ UNCHANGED <<run, disk, image, found, placed, rules>>

\* Remove-Service, where there is one.  A service that still runs, or that
\* some other program has open, is only marked for deletion.
RemoveService ==
    /\ pc = "remove"
    /\ service' \in {service} \union
                    (IF ~run.canRemove THEN {}
                     ELSE IF image = 0 THEN {"absent", "deleting"} ELSE {"deleting"})
    /\ Goto("rule")
    /\ UNCHANGED <<run, disk, image, found, placed, rules>>

\* (mutant: a failed New-NetFirewallRule is not looked at)
AddRuleFailsUnseen ==
    /\ pc = "rule"
    /\ Goto("create")
    /\ UNCHANGED <<run, machine, found, placed>>

AddRuleFails ==
    /\ pc = "rule"
    /\ End("gaveUp")
    /\ UNCHANGED <<run, machine, found, placed>>

\* Each invocation adds a rule, whether or not there is one.
AddRule ==
    /\ pc = "rule"
    /\ rules' = IF rules = MaxRules THEN rules ELSE rules + 1
    /\ Goto("create")
    /\ UNCHANGED <<run, disk, service, image, found, placed>>

NewService ==
    /\ pc = "create"
    /\ service = "absent"
    /\ service' = "stopped"
    /\ Goto("start")
    /\ UNCHANGED <<run, disk, image, found, placed, rules>>

\* Always, when there still is a service of the name.
NewServiceFails ==
    /\ pc = "create"
    /\ End("gaveUp")
    /\ UNCHANGED <<run, machine, found, placed>>

StartService ==
    /\ pc = "start"
    /\ disk # 0
    /\ service \in {"stopped", "running"}
    /\ service' = "running"
    /\ image' = IF service = "running" THEN image ELSE disk
    /\ End("success")
    /\ UNCHANGED <<run, disk, found, placed, rules>>

StartServiceFails ==
    /\ pc = "start"
    /\ End("gaveUp")
    /\ UNCHANGED <<run, machine, found, placed>>

-----------------------------------------------------------------------------
(* The machine.                                                            *)

\* An administrator stops the service, or it ends by itself.
ServiceStops ==
    /\ image # 0
    /\ image' = 0
    /\ service' = IF service = "running" THEN "stopped" ELSE service
    /\ UNCHANGED <<pc, run, disk, found, placed, rules, outcome>>

\* An administrator starts it; the start type is automatic for restarts only.
ServiceStarts ==
    /\ service = "stopped"
    /\ disk # 0
    /\ service' = "running"
    /\ image' = disk
    /\ UNCHANGED <<pc, run, disk, found, placed, rules, outcome>>

\* The last handle to a service marked for deletion is closed.
DeletionEnds ==
    /\ service = "deleting"
    /\ image = 0
    /\ service' = "absent"
    /\ UNCHANGED <<pc, run, disk, image, found, placed, rules, outcome>>

\* A restart of Windows in any step: what is left of the script is not run,
\* what was marked for deletion is gone, a file that the MSI left for later is
\* in place, what is registered starts.
Restart ==
    LET left == IF service \in {"absent", "deleting"} THEN "absent"
                ELSE IF disk' = 0 THEN "stopped" ELSE "running"
        later == IF run.by = "msi" /\ pc # "copy" THEN run.version ELSE disk
    IN  /\ disk' \in {disk, later}
        /\ service' = left
        /\ image' = IF left = "running" THEN disk' ELSE 0
        /\ pc' = "idle"
        /\ outcome' = IF pc = "idle" THEN outcome ELSE "interrupted"
        /\ UNCHANGED <<run, found, placed, rules>>

-----------------------------------------------------------------------------
Script ==
    \/ Refuse \/ CopyFiles \/ CopyFails \/ GetService \/ StopService \/ RemoveService
    \/ AddRule \/ AddRuleFails \/ NewService \/ NewServiceFails
    \/ StartService \/ StartServiceFails

Next ==
    \/ \E r \in Runs : Begin(r)
    \/ Script
    \/ ServiceStops \/ ServiceStarts \/ DeletionEnds \/ Restart

Spec == Init /\ [][Next]_vars

\* A script that has begun goes on, and handles to a service get closed.
Fairness == WF_vars(Script) /\ WF_vars(DeletionEnds)

FairSpec == Spec /\ Fairness

-----------------------------------------------------------------------------
(* What the script promises.                                               *)

Succeeds == pc # "idle" /\ pc' = "idle" /\ outcome' = "success"

\* When the script reports success the service runs behind a firewall rule,
\* and if the new exe got into place it is the new exe that runs, whatever
\* others did to the service meanwhile.
SuccessIsHonest ==
    [][Succeeds =>
        /\ service' = "running" /\ rules' > 0
        /\ placed => image' = run.version]_vars

\* Steps in which no cmdlet fails for a reason of its own and nobody interferes.
Flawless ==
    \/ \E r \in Runs : r.canRemove /\ Begin(r)
    \/ CopyFiles \/ CopyFails \/ GetService
    \/ StopService /\ image' = 0
    \/ RemoveService /\ (service' = "absent" \/ service = "deleting")
    \/ AddRule \/ NewService
    \/ NewServiceFails /\ service # "absent"
    \/ StartService
    \/ DeletionEnds

\* Whatever an earlier run left behind (no service, a stopped one, one marked
\* for deletion), running the script again and again under PowerShell 7 leads
\* to a service that runs after every run.
RetriesRecover ==
    []<>(pc = "copy") /\ <>[][Flawless]_vars
        => <>[](pc = "idle" => outcome = "success" /\ service = "running")
=============================================================================
