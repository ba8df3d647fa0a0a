-------------------------- MODULE ServiceDiscovery --------------------------
(***************************************************************************)
(* The other reader of the host table: Prometheus asks                     *)
(* ServiceDiscoveryController for its targets again and again, beside the  *)
(* pages of HostRegistry.  The answer is a copy, and the table may change  *)
(* while it is on its way.  The two endpoints differ in the port only.     *)
(***************************************************************************)
EXTENDS HostRegistry

VARIABLES
    answers,    \* the answer on its way, a set of hosts, if there is one
    targets     \* the hosts Prometheus scrapes

all == <<vars, answers, targets>>

\* Prometheus outlives the web application, so it starts with any targets.
DiscoveryInit == Init /\ answers = {} /\ targets \in SUBSET IPs

\* (mutant: the answer is what was answered before, if anything was)
GetExportersCached ==
    /\ answers = {}
    /\ answers' = {IF targets = {} THEN Stored ELSE targets}
    /\ UNCHANGED <<vars, targets>>

\* Prometheus asks when it has no answer on its way.
GetExporters ==
    /\ answers = {}
    /\ answers' = {Stored}
    /\ UNCHANGED <<vars, targets>>

\* When the table cannot be read, the list is empty and the status 200.
GetExportersFails ==
    /\ answers = {}
    /\ answers' = {{}}
    /\ UNCHANGED <<vars, targets>>

\* Prometheus takes an answer of status 200 for all the targets there are.
Refresh ==
    /\ targets' \in answers
    /\ answers' = {}
    /\ UNCHANGED vars

Discovery == GetExporters \/ GetExportersFails \/ Refresh

DiscoveryNext == (Next /\ UNCHANGED <<answers, targets>>) \/ Discovery

\* Prometheus asks once per refresh interval, whether or not the table can be
\* read; nobody has to open or leave a page.
DiscoverySpec == DiscoveryInit /\ [][DiscoveryNext]_all /\ WF_all(Discovery)

-----------------------------------------------------------------------------
\* Whatever was answered while the table changed or could not be read: once it
\* is left alone and read without failure, what Prometheus scrapes comes to be
\* the table and stays so (GetExporters keeps nothing between two questions).
TargetsFollow ==
    <>[][UNCHANGED rows /\ (GetExportersFails => Stored = {})]_all
        => <>[](targets = Stored)
=============================================================================
