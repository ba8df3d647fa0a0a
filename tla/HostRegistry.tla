---------------------------- MODULE HostRegistry ----------------------------
(***************************************************************************)
(* The host table of HardwareExporterWeb: HostInfoManager over one SQLite  *)
(* table, and the pages that list, insert, update and delete hosts, each   *)
(* open in a Blazor circuit (a browser tab) of its own.                    *)
(*                                                                         *)
(* Every method of HostInfoManager is one SQL statement, hence one step,   *)
(* and circuits interleave between any two of them: what a page lists or   *)
(* edits is a copy the table can move away from.                           *)
(***************************************************************************)
CONSTANTS
    IPs,        \* values of the UNIQUE column HostIP
    Infos,      \* what else a form holds: the host's name and two ports
    Blank,      \* the Info of a new HostInfo()
    NoRow,      \* the table has no such host
    Circuits

ASSUME BlankAssumption == Blank \in Infos
ASSUME NoRowAssumption == NoRow \notin Infos

VARIABLES
    rows,       \* the table
    page,       \* what each circuit is at
    hosts,      \* the hosts its list shows
    target,     \* the host its dialog or form is about
    form        \* what its form holds

vars == <<rows, page, hosts, target, form>>

Pages == {"list", "confirm", "agreed", "refused", "insert", "update", "success", "reading",
          "broken"}

Stored == {ip \in IPs : rows[ip] # NoRow}

\* The columns hold values of their type and every circuit is at a page.
TypeOK ==
    /\ rows \in [IPs -> Infos \union {NoRow}]
    /\ page \in [Circuits -> Pages]
    /\ hosts \in [Circuits -> SUBSET IPs]
    /\ target \in [Circuits -> IPs]
    /\ form \in [Circuits -> Infos]

\* The table outlives the process, so it starts with any content.
Init ==
    /\ rows \in [IPs -> Infos \union {NoRow}]
    /\ page = [c \in Circuits |-> "reading"]
    /\ hosts = [c \in Circuits |-> {}]
    /\ target \in [Circuits -> IPs]
    /\ form = [c \in Circuits |-> Blank]

-----------------------------------------------------------------------------
(* HostInfoManager.                                                        *)

\* (mutant: UPDATE became INSERT OR REPLACE)
UpsertHostInfo(ip, info) == [rows EXCEPT ![ip] = info]

\* UPDATE .. WHERE HostIP: a host that is not in the table changes nothing.
\* (The page passes every field, so no argument is ever null.)
UpdateHostInfo(ip, info) ==
    IF rows[ip] = NoRow THEN rows ELSE [rows EXCEPT ![ip] = info]

DeleteHostInfo(ip) == [rows EXCEPT ![ip] = NoRow]

-----------------------------------------------------------------------------
(* The pages.                                                              *)

GoTo(c, p) == page' = [page EXCEPT ![c] = p]

\* An exception in a handler ends the circuit; the user loads the list again.
Break(c) == GoTo(c, "broken") /\ UNCHANGED <<rows, hosts, target, form>>

\* The user leaves for the list, or a handler navigates there (after an
\* insert or an acknowledged update).
LeaveForList(c) ==
    /\ page[c] \in {"list", "insert", "update", "success", "broken"}
    /\ GoTo(c, "reading")
    /\ UNCHANGED <<rows, hosts, target, form>>

\* GetHostInfos, as the list opens and after a delete.
FetchHosts(c) ==
    /\ page[c] = "reading"
    /\ hosts' = [hosts EXCEPT ![c] = Stored]
    /\ GoTo(c, "list")
    /\ UNCHANGED <<rows, target, form>>

\* The Delete button opens a dialog in the browser and awaits the answer.
AskDelete(c, ip) ==
    /\ page[c] = "list"
    /\ ip \in hosts[c]
    /\ GoTo(c, "confirm")
    /\ target' = [target EXCEPT ![c] = ip]
    /\ UNCHANGED <<rows, hosts, form>>

\* The user answers; the answer is on its way back to the circuit.
AnswerDialog(c) ==
    /\ page[c] = "confirm"
    /\ GoTo(c, "agreed") \/ GoTo(c, "refused")
    /\ UNCHANGED <<rows, hosts, target, form>>

ConfirmDelete(c) ==
    /\ page[c] = "agreed"
    /\ rows' = DeleteHostInfo(target[c])
    /\ GoTo(c, "reading")
    /\ UNCHANGED <<hosts, target, form>>

\* (mutant: the dialog's answer is not looked at)
CancelDeleteIgnored(c) ==
    /\ page[c] = "refused"
    /\ rows' = DeleteHostInfo(target[c])
    /\ GoTo(c, "reading")
    /\ UNCHANGED <<hosts, target, form>>

CancelDelete(c) ==
    /\ page[c] = "refused"
    /\ GoTo(c, "list")
    /\ UNCHANGED <<rows, hosts, target, form>>

\* (mutant: GetHostInfoEntity ends in FirstOrDefault)
OpenUpdateOrDefault(c, ip) ==
    /\ page[c] = "list"
    /\ ip \in hosts[c]
    /\ GoTo(c, "update")
    /\ target' = [target EXCEPT ![c] = ip]
    /\ form' = [form EXCEPT ![c] = rows[ip]]
    /\ UNCHANGED <<rows, hosts>>

\* The Update link: the page reads the host into its form.
OpenUpdate(c, ip) ==
    /\ page[c] = "list"
    /\ ip \in hosts[c]
    /\ rows[ip] # NoRow
    /\ GoTo(c, "update")
    /\ target' = [target EXCEPT ![c] = ip]
    /\ form' = [form EXCEPT ![c] = rows[ip]]
    /\ UNCHANGED <<rows, hosts>>

\* First() throws when the host was deleted after it was listed.
OpenUpdateThrows(c, ip) ==
    /\ page[c] = "list"
    /\ ip \in hosts[c]
    /\ rows[ip] = NoRow
    /\ Break(c)

OpenInsert(c) ==
    /\ page[c] = "list"
    /\ GoTo(c, "insert")
    /\ form' = [form EXCEPT ![c] = Blank]
    /\ UNCHANGED <<rows, hosts, target>>

\* An update goes to the page's own address, whatever its HostIP field holds;
\* an insert goes to the address in that field.
EditForm(c) ==
    /\ \/ page[c] = "insert" /\ \E ip \in IPs : target' = [target EXCEPT ![c] = ip]
       \/ page[c] = "update" /\ UNCHANGED target
    /\ \E info \in Infos : form' = [form EXCEPT ![c] = info]
    /\ UNCHANGED <<rows, page, hosts>>

\* The row count of the UPDATE is not looked at: success is reported always.
SubmitUpdate(c) ==
    /\ page[c] = "update"
    /\ rows' = UpdateHostInfo(target[c], form[c])
    /\ GoTo(c, "success")
    /\ UNCHANGED <<hosts, target, form>>

\* (mutant: INSERT became INSERT OR REPLACE)
SubmitInsertUnchecked(c) ==
    /\ page[c] = "insert"
    /\ rows' = [rows EXCEPT ![target[c]] = form[c]]
    /\ GoTo(c, "reading")
    /\ UNCHANGED <<hosts, target, form>>

SubmitInsert(c) ==
    /\ page[c] = "insert"
    /\ rows[target[c]] = NoRow
    /\ rows' = [rows EXCEPT ![target[c]] = form[c]]
    /\ GoTo(c, "reading")
    /\ UNCHANGED <<hosts, target, form>>

\* The UNIQUE constraint of HostIP: another circuit inserted it first.
SubmitInsertThrows(c) ==
    /\ page[c] = "insert"
    /\ rows[target[c]] # NoRow
    /\ Break(c)

\* SQLite cannot be opened or is locked: no handler catches that, nor does the
\* update page as it reads its host on the way from the list.
DatabaseFails(c) ==
    /\ \/ page[c] \in {"reading", "agreed", "insert", "update"}
       \/ page[c] = "list" /\ hosts[c] # {}
    /\ Break(c)

Next == \E c \in Circuits :
    \/ LeaveForList(c)
    \/ FetchHosts(c)
    \/ AnswerDialog(c)
    \/ ConfirmDelete(c)
    \/ CancelDelete(c)
    \/ OpenInsert(c)
    \/ EditForm(c)
    \/ SubmitUpdate(c)
    \/ SubmitInsert(c)
    \/ SubmitInsertThrows(c)
    \/ DatabaseFails(c)
    \/ \E ip \in IPs : AskDelete(c, ip) \/ OpenUpdate(c, ip) \/ OpenUpdateThrows(c, ip)

Spec == Init /\ [][Next]_vars

-----------------------------------------------------------------------------
(* Properties.                                                             *)

\* A host that is not in the table enters it only through an insert form for
\* its address: an update form opened before another circuit deleted the host
\* does not bring it back.
NoResurrection == [][\A ip \in IPs :
    (rows[ip] = NoRow /\ rows'[ip] # NoRow) =>
        \E c \in Circuits : page[c] = "insert" /\ target[c] = ip /\ rows'[ip] = form[c]]_vars

\* A host that is in the table is changed only from an update form opened for
\* it: of two circuits that insert the same address, the second fails and the
\* first one's host stays as it is.
InsertNeverOverwrites == [][\A ip \in IPs :
    (rows[ip] # NoRow /\ rows'[ip] \notin {rows[ip], NoRow}) =>
        \E c \in Circuits : page[c] = "update" /\ target[c] = ip /\ rows'[ip] = form[c]]_vars

\* A host leaves the table only when a user agreed in the dialog about that very
\* host, whatever else was asked, answered or changed in other circuits meanwhile,
\* and the circuit that deletes it reads its list again before it shows one.
DeleteOnlyConfirmed == [][\A ip \in IPs :
    (rows[ip] # NoRow /\ rows'[ip] = NoRow) =>
        \E c \in Circuits : page[c] = "agreed" /\ target[c] = ip /\ page'[c] = "reading"]_vars
=============================================================================
