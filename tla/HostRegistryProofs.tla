------------------------- MODULE HostRegistryProofs -------------------------
(***************************************************************************)
(* Proofs about the host table.  The three action properties hold of every *)
(* step, once the type invariant is known; RowStep says for each step what *)
(* it does to one host, and they follow from it.  Service discovery only   *)
(* reads, so all of it holds beside service discovery too.                 *)
(***************************************************************************)
EXTENDS ServiceDiscovery, TLAPS

\* Typing: the first page of a circuit and any table content are well formed.
LEMMA InitTypeOK == Init => TypeOK
  BY BlankAssumption DEF Init, TypeOK, Pages

\* Typing: every handler of every page keeps it.
LEMMA StepTypeOK == TypeOK /\ [Next]_vars => TypeOK'
<1> SUFFICES ASSUME TypeOK, [Next]_vars PROVE TypeOK'
  OBVIOUS
<1>1. CASE UNCHANGED vars
  BY <1>1 DEF vars, TypeOK
<1>2. ASSUME NEW c \in Circuits, LeaveForList(c) \/ FetchHosts(c) \/ AnswerDialog(c)
                                  \/ CancelDelete(c)
      PROVE TypeOK'
  BY <1>2 DEF TypeOK, Pages, LeaveForList, FetchHosts, AnswerDialog, CancelDelete,
              GoTo, Stored
<1>3. ASSUME NEW c \in Circuits, ConfirmDelete(c)
      PROVE TypeOK'
  BY <1>3 DEF TypeOK, Pages, ConfirmDelete, DeleteHostInfo, GoTo
<1>4. ASSUME NEW c \in Circuits, OpenInsert(c) \/ EditForm(c)
      PROVE TypeOK'
  BY <1>4, BlankAssumption DEF TypeOK, Pages, OpenInsert, EditForm, GoTo
<1>5. ASSUME NEW c \in Circuits, SubmitUpdate(c) \/ SubmitInsert(c)
      PROVE TypeOK'
  BY <1>5 DEF TypeOK, Pages, SubmitUpdate, UpdateHostInfo, SubmitInsert, GoTo
<1>6. ASSUME NEW c \in Circuits, SubmitInsertThrows(c) \/ DatabaseFails(c)
      PROVE TypeOK'
  BY <1>6 DEF TypeOK, Pages, SubmitInsertThrows, DatabaseFails, Break, GoTo
<1>7. ASSUME NEW c \in Circuits, NEW ip \in IPs,
             AskDelete(c, ip) \/ OpenUpdate(c, ip) \/ OpenUpdateThrows(c, ip)
      PROVE TypeOK'
  BY <1>7 DEF TypeOK, Pages, AskDelete, OpenUpdate, OpenUpdateThrows, Break, GoTo
<1> QED
  BY <1>1, <1>2, <1>3, <1>4, <1>5, <1>6, <1>7 DEF Next

\* The columns of the table and the state of the pages keep their types, for
\* any addresses, host data and number of open tabs (HostInfoManager).
THEOREM TypeCorrect == Spec => []TypeOK
<1>1. Init => TypeOK  BY InitTypeOK
<1>2. TypeOK /\ [Next]_vars => TypeOK'  BY StepTypeOK
<1> QED  BY <1>1, <1>2, PTL DEF Spec

\* A step that is not one of the three statements leaves the table alone.
LEMMA TableStep ==
  ASSUME TypeOK, Next
  PROVE  \/ UNCHANGED rows
         \/ \E c \in Circuits : ConfirmDelete(c) \/ SubmitUpdate(c) \/ SubmitInsert(c)
BY DEF Next, LeaveForList, FetchHosts, AnswerDialog, CancelDelete, OpenInsert, EditForm,
       SubmitInsertThrows, DatabaseFails, AskDelete, OpenUpdate, OpenUpdateThrows, Break

\* What each of the three does to the host at one address.
LEMMA RowStep ==
  ASSUME TypeOK, Next, NEW ip \in IPs, rows'[ip] # rows[ip]
  PROVE  \E c \in Circuits :
           /\ target[c] = ip
           /\ \/ page[c] = "agreed" /\ page'[c] = "reading" /\ rows'[ip] = NoRow
              \/ page[c] = "update" /\ rows[ip] # NoRow /\ rows'[ip] = form[c]
              \/ page[c] = "insert" /\ rows[ip] = NoRow /\ rows'[ip] = form[c]
<1>1. PICK c \in Circuits : ConfirmDelete(c) \/ SubmitUpdate(c) \/ SubmitInsert(c)
  BY TableStep
<1>2. CASE ConfirmDelete(c)
  BY <1>2 DEF ConfirmDelete, DeleteHostInfo, GoTo, TypeOK
<1>3. CASE SubmitUpdate(c)
  BY <1>3 DEF SubmitUpdate, UpdateHostInfo, TypeOK
<1>4. CASE SubmitInsert(c)
  BY <1>4 DEF SubmitInsert, TypeOK
<1> QED  BY <1>1, <1>2, <1>3, <1>4

\* A host deleted meanwhile is not brought back by a form that was opened
\* before (SubmitUpdate of UpdateHost.razor is an UPDATE, not an upsert).
THEOREM DeletedStaysDeleted == Spec => NoResurrection
<1> DEFINE A == \A ip \in IPs :
      (rows[ip] = NoRow /\ rows'[ip] # NoRow) =>
          \E c \in Circuits : page[c] = "insert" /\ target[c] = ip /\ rows'[ip] = form[c]
<1>1. TypeOK /\ [Next]_vars => [A]_vars
  BY RowStep
<1> QED  BY <1>1, TypeCorrect, PTL DEF Spec, NoResurrection

\* The second of two inserts of an address fails and changes nothing (the
\* UNIQUE column of HostInfoManager's table).
THEOREM InsertsKeepHosts == Spec => InsertNeverOverwrites
<1> DEFINE A == \A ip \in IPs :
      (rows[ip] # NoRow /\ rows'[ip] \notin {rows[ip], NoRow}) =>
          \E c \in Circuits : page[c] = "update" /\ target[c] = ip /\ rows'[ip] = form[c]
<1>1. TypeOK /\ [Next]_vars => [A]_vars
  BY RowStep
<1> QED  BY <1>1, TypeCorrect, PTL DEF Spec, InsertNeverOverwrites

\* Nothing but a dialog about the host that was agreed to deletes it (DeleteAsync of
\* FetchHost.razor).
THEOREM DeletesAreConfirmed == Spec => DeleteOnlyConfirmed
<1> DEFINE A == \A ip \in IPs :
      (rows[ip] # NoRow /\ rows'[ip] = NoRow) =>
          \E c \in Circuits : page[c] = "agreed" /\ target[c] = ip /\ page'[c] = "reading"
<1>1. TypeOK /\ [Next]_vars => [A]_vars
  <2> SUFFICES ASSUME TypeOK, Next, NEW ip \in IPs, rows[ip] # NoRow, rows'[ip] = NoRow
               PROVE  \E c \in Circuits : page[c] = "agreed" /\ target[c] = ip
                                          /\ page'[c] = "reading"
    OBVIOUS
  <2>1. \A c \in Circuits : form[c] # NoRow
    BY NoRowAssumption DEF TypeOK
  <2> QED  BY <2>1, RowStep
<1> QED  BY <1>1, TypeCorrect, PTL DEF Spec, DeleteOnlyConfirmed

-----------------------------------------------------------------------------
\* Discovery is a reader: the table and the pages behave beside it as they do
\* alone, so every theorem above holds of both (ServiceDiscoveryController).
THEOREM DiscoveryOnlyReads == DiscoverySpec => Spec
<1>1. DiscoveryInit => Init  BY DEF DiscoveryInit
<1>2. [DiscoveryNext]_all => [Next]_vars
  BY DEF DiscoveryNext, Discovery, GetExporters, GetExportersFails, Refresh, all
<1> QED  BY <1>1, <1>2, PTL DEF DiscoverySpec, Spec
=============================================================================
