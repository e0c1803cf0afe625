--------------------------- MODULE GuardianProofs ---------------------------
(* Proofs about Guardian, for every value of its constants. *)
EXTENDS Guardian, SequenceTheorems, TLAPS

-----------------------------------------------------------------------------
(* Facts about the tables.                                                 *)

LEMMA TableFacts ==
    ASSUME TypeOK
    PROVE  /\ Len(rows) \in Nat /\ Len(alerts) \in Nat /\ Len(clicks) \in Nat
           /\ \A r \in RowIds : rows[r] \in Row
           /\ \A i \in AlertIds : alerts[i] \in Alert
           /\ \A i \in 1..Len(clicks) : clicks[i] \in Press
BY LenProperties, ElementOfSeq
   DEF TypeOK, TablesOK, ListenerOK, RowIds, AlertIds

(* An INSERT: the rows there were keep their ids. *)
LEMMA RowsAppend ==
    ASSUME TypeOK, NEW row \in Row, rows' = Append(rows, row)
    PROVE  /\ rows' \in Seq(Row) /\ rows' # <<>>
           /\ RowIds' = RowIds \cup {Len(rows) + 1} /\ Len(rows) + 1 \notin RowIds
           /\ Len(rows') = Len(rows) + 1
           /\ \A r \in RowIds : rows'[r] = rows[r]
           /\ rows'[Len(rows) + 1] = row
<1>1. Len(rows) \in Nat /\ rows \in Seq(Row)
  BY TableFacts DEF TypeOK, TablesOK
<1>2. /\ Append(rows, row) \in Seq(Row) /\ Append(rows, row) # <<>>
      /\ Len(Append(rows, row)) = Len(rows) + 1
      /\ \A r \in RowIds : Append(rows, row)[r] = rows[r]
      /\ Append(rows, row)[Len(rows) + 1] = row
  BY <1>1, AppendProperties DEF RowIds
<1> QED
  BY <1>1, <1>2 DEF RowIds

(* An UPDATE of one row. *)
LEMMA RowUpdate ==
    ASSUME TypeOK, NEW r \in RowIds, NEW row \in Row, rows' = [rows EXCEPT ![r] = row]
    PROVE  /\ rows' \in Seq(Row) /\ Len(rows') = Len(rows) /\ RowIds' = RowIds
           /\ \A q \in RowIds : rows'[q] = IF q = r THEN row ELSE rows[q]
           /\ rows # <<>> => rows' # <<>>
<1>1. Len(rows) \in Nat /\ rows \in Seq(Row)
  BY TableFacts DEF TypeOK, TablesOK
<1>2. /\ [rows EXCEPT ![r] = row] \in Seq(Row)
      /\ Len([rows EXCEPT ![r] = row]) = Len(rows)
      /\ \A q \in RowIds : [rows EXCEPT ![r] = row][q] = IF q = r THEN row ELSE rows[q]
  BY <1>1, ExceptSeq DEF RowIds
<1> QED
  BY <1>1, <1>2, EmptySeq DEF RowIds

(* The alerts table changes only by new and newly visible rows. *)
LEMMA AlertUpdate ==
    ASSUME TypeOK, NEW i \in AlertIds, alerts' = [alerts EXCEPT ![i].visible = TRUE]
    PROVE  /\ alerts' \in Seq(Alert) /\ AlertIds' = AlertIds
           /\ \A j \in AlertIds : /\ alerts'[j].ip = alerts[j].ip
                                  /\ Eligible(alerts[j]) => Eligible(alerts'[j])
                                  /\ alerts[j].visible => alerts'[j].visible
<1> DEFINE new == [alerts[i] EXCEPT !.visible = TRUE]
<1>1. alerts[i] \in Alert /\ alerts \in Seq(Alert)
  BY TableFacts DEF TypeOK, TablesOK
<1>2. /\ new \in Alert /\ new.ip = alerts[i].ip /\ new.visible
      /\ Eligible(alerts[i]) => Eligible(new)
  BY <1>1 DEF Alert, Eligible
<1>3. alerts' = [alerts EXCEPT ![i] = new]
  OBVIOUS
<1> HIDE DEF new
<1>4. /\ [alerts EXCEPT ![i] = new] \in Seq(Alert)
      /\ Len([alerts EXCEPT ![i] = new]) = Len(alerts)
      /\ \A j \in AlertIds : [alerts EXCEPT ![i] = new][j] = IF j = i THEN new ELSE alerts[j]
  BY <1>1, <1>2, ExceptSeq DEF AlertIds
<1> QED
  BY <1>2, <1>3, <1>4 DEF AlertIds

LEMMA AlertInsert ==
    ASSUME TypeOK, NEW ip \in IPs \cup {NoIP}, NEW kind \in AlertKinds, RaiseAlert(ip, kind)
    PROVE  /\ alerts' \in Seq(Alert) /\ AlertIds \subseteq AlertIds'
           /\ \A j \in AlertIds : alerts'[j] = alerts[j]
<1> DEFINE new == [ip |-> ip, severity |-> kind.severity, source |-> kind.source,
                   visible |-> FALSE]
<1>1. alerts' = Append(alerts, new)
  BY DEF RaiseAlert
<1>2. new \in Alert
  BY GuardianAssumption DEF GuardianAssumption, Alert
<1> HIDE DEF new
<1>3. Len(alerts) \in Nat /\ alerts \in Seq(Alert)
  BY TableFacts DEF TypeOK, TablesOK
<1>4. /\ Append(alerts, new) \in Seq(Alert)
      /\ Len(Append(alerts, new)) = Len(alerts) + 1
      /\ \A i \in AlertIds : Append(alerts, new)[i] = alerts[i]
  BY <1>2, <1>3, AppendProperties DEF AlertIds
<1> QED
  BY <1>1, <1>3, <1>4 DEF AlertIds

-----------------------------------------------------------------------------
(* A step that leaves a task's variables alone keeps the task well typed,  *)
(* as long as the tables only grow.                                        *)

LEMMA LoopFrame ==
    ASSUME LoopOK, UNCHANGED gVars, AlertIds \subseteq AlertIds',
           gCur \in AlertIds => (Eligible(alerts[gCur]) => Eligible(alerts'[gCur])),
           rows # <<>> => rows' # <<>>
    PROVE  LoopOK'
BY DEF LoopOK, gVars, Eligible

LEMMA ExpiryFrame ==
    ASSUME ExpiryOK, UNCHANGED eVars, RowIds \subseteq RowIds'
    PROVE  ExpiryOK'
BY DEF ExpiryOK, eVars

LEMMA ListenerFrame ==
    ASSUME ListenerOK, UNCHANGED tVars, RowIds \subseteq RowIds'
    PROVE  ListenerOK'
BY DEF ListenerOK, tVars

LEMMA TypeInit == Init => TypeOK
<1> SUFFICES ASSUME Init PROVE TypeOK
  OBVIOUS
<1>1. /\ alerts \in Seq(Alert) /\ Len(alerts) = 0
      /\ rows \in Seq(Row) /\ Len(rows) = 0
      /\ clicks \in Seq(Press) /\ Len(clicks) = 0
  BY EmptySeq DEF Init
<1>2. TablesOK
  BY <1>1, GuardianAssumption DEF GuardianAssumption, Init, TablesOK
<1>3. LoopOK
  BY DEF Init, InitTasks, LoopOK
<1>4. ExpiryOK
  BY DEF Init, InitTasks, ExpiryOK
<1>5. ListenerOK
  BY <1>1 DEF Init, InitTasks, ListenerOK
<1> QED
  BY <1>2, <1>3, <1>4, <1>5 DEF TypeOK

LEMMA TypeEnvironment == ASSUME TypeOK, Environment PROVE TypeOK'
<1> USE DEF TypeOK
<1>1. ASSUME NEW ip \in IPs \cup {NoIP}, NEW kind \in AlertKinds, RaiseAlert(ip, kind)
      PROVE  TypeOK'
  <2>1. TablesOK' /\ RowIds' = RowIds
    BY <1>1, AlertInsert DEF RaiseAlert, TablesOK, RowIds
  <2>2. LoopOK'
    BY <1>1, AlertInsert, LoopFrame DEF RaiseAlert
  <2> QED
    BY <1>1, <2>1, <2>2, ExpiryFrame, ListenerFrame DEF RaiseAlert
<1>2. ASSUME NEW i \in AlertIds, CommitAlert(i) PROVE TypeOK'
  <2> USE <1>2 DEF CommitAlert
  <2>1. TablesOK' /\ RowIds' = RowIds
    BY AlertUpdate DEF TablesOK, RowIds
  <2>2. LoopOK'
    BY AlertUpdate, LoopFrame
  <2> QED
    BY <2>1, <2>2, ExpiryFrame, ListenerFrame
<1>3. ASSUME NEW r \in RowIds, BlockElapses(r) \/ WindowElapses(r) PROVE TypeOK'
  <2>1. \E row \in Row : rows' = [rows EXCEPT ![r] = row]
    <3>1. CASE BlockElapses(r)
      <4>1. [rows[r] EXCEPT !.due = TRUE] \in Row
        BY TableFacts DEF Row
      <4> QED
        BY <3>1, <4>1 DEF BlockElapses
    <3>2. CASE WindowElapses(r)
      <4>1. [rows[r] EXCEPT !.recent = FALSE] \in Row
        BY TableFacts DEF Row
      <4> QED
        BY <3>2, <4>1 DEF WindowElapses
    <3> QED
      BY <1>3, <3>1, <3>2
  <2>2. rows' \in Seq(Row) /\ RowIds' = RowIds /\ (rows # <<>> => rows' # <<>>)
    BY <2>1, RowUpdate
  <2>3. UNCHANGED <<alerts, adguard, gVars, eVars, tVars, noticed, crashes>>
    BY <1>3 DEF BlockElapses, WindowElapses
  <2>4. TablesOK' /\ AlertIds' = AlertIds
    BY <2>2, <2>3 DEF TablesOK, AlertIds
  <2> QED
    BY <2>2, <2>3, <2>4, LoopFrame, ExpiryFrame, ListenerFrame
<1>4. ASSUME NEW op \in {"confirm", "undo"}, NEW r \in RowIds, NEW user \in Users,
             Click(op, r, user)
      PROVE  TypeOK'
  <2> DEFINE new == [op |-> op, row |-> r, by |-> user]
  <2>1. new \in Press /\ new.row \in RowIds /\ clicks' = Append(clicks, new)
    BY <1>4 DEF Press, RowIds, Click
  <2> HIDE DEF new
  <2>2. /\ clicks' \in Seq(Press) /\ Len(clicks') = Len(clicks) + 1
        /\ \A i \in 1..Len(clicks) : clicks'[i] = clicks[i]
        /\ clicks'[Len(clicks) + 1] = new
    BY <2>1, AppendProperties DEF ListenerOK
  <2>3. UNCHANGED <<tables, adguard, gVars, eVars, tpc, offset, acked, tSnap, noticed, crashes>>
    BY <1>4 DEF Click
  <2>4. TablesOK' /\ AlertIds' = AlertIds /\ RowIds' = RowIds
    BY <2>3 DEF TablesOK, AlertIds, RowIds, tables
  <2>5. LoopOK'
    BY <2>3, <2>4, LoopFrame DEF tables
  <2>6. ListenerOK'
    BY <2>1, <2>2, <2>3, <2>4, TableFacts DEF ListenerOK
  <2> QED
    BY <2>3, <2>4, <2>5, <2>6, ExpiryFrame
<1>5. ASSUME Crash PROVE TypeOK'
  <2> USE <1>5 DEF Crash, tables
  <2>1. TablesOK' /\ AlertIds' = AlertIds /\ RowIds' = RowIds
    BY DEF TablesOK, AlertIds, RowIds
  <2>2. LoopOK'
    BY DEF LoopOK
  <2>3. ExpiryOK'
    BY DEF ExpiryOK
  <2>4. ListenerOK'
    BY <2>1, TableFacts DEF ListenerOK
  <2> QED
    BY <2>1, <2>2, <2>3, <2>4
<1> QED
  BY <1>1, <1>2, <1>3, <1>4, <1>5 DEF Environment

LEMMA TypeGuardianLoop == ASSUME TypeOK, GuardianLoop PROVE TypeOK'
<1> USE DEF TypeOK
<1>1. CASE GInit \/ GInitFails \/ GPoll \/ GBreaker \/ GLoopError \/ GBatchDone
           \/ (\E a \in batch : GSkip(a) \/ GDecide(a)) \/ GGet \/ GPost \/ GBlockFails \/ GNotice
  <2>1. /\ UNCHANGED <<rows, gRest>> /\ adguard' \subseteq IPs /\ noticed' \subseteq RowIds
    <3>1. gpc = "post" => Offender \in IPs
      BY TableFacts DEF LoopOK, Offender, Eligible, Alert
    <3>2. gpc = "notice" => Len(rows) \in RowIds
      BY TableFacts, EmptySeq DEF LoopOK, TablesOK, RowIds
    <3> QED
      BY <1>1, <3>1, <3>2
      DEF GInit, GInitFails, GPoll, GBreaker, GLoopError, GBatchDone, GSkip, GDecide,
          GGet, GPost, GBlockFails, GNotice, TablesOK, LoopOK
  <2>2. AlertIds' = AlertIds /\ RowIds' = RowIds
    BY <2>1 DEF AlertIds, RowIds, gRest
  <2>3. TablesOK'
    BY <2>1, <2>2 DEF TablesOK, gRest
  <2>4. LoopOK'
    <3> USE <2>1, <2>2 DEF LoopOK, gRest
    <3>1. VisibleIds \subseteq AlertIds /\ NewIds \subseteq AlertIds /\ AlertIds \subseteq Nat
      BY TableFacts DEF VisibleIds, NewIds, AlertIds
    <3>2. CASE GInit \/ GInitFails \/ GPoll
      <4>1. lastSeen' \in Nat
        <5>1. VisibleIds \cup {0} \subseteq Nat /\ NewIds \subseteq Nat
          BY <3>1
        <5>2. lastSeen' \in VisibleIds \cup {0} \/ lastSeen' \in NewIds \/ lastSeen' = lastSeen
          BY <3>2, Zenon DEF GInit, GInitFails, GPoll
        <5> QED
          BY <5>1, <5>2
      <4>2. batch' \subseteq AlertIds
        BY <3>1, <3>2 DEF GInit, GInitFails, GPoll
      <4> QED
        BY <3>2, <4>1, <4>2 DEF GInit, GInitFails, GPoll
    <3>3. CASE GBreaker \/ GLoopError \/ GBatchDone
      <4>1. Tripped \in BOOLEAN
        BY DEF Tripped
      <4> QED
        BY <3>3, <4>1 DEF GBreaker, GLoopError, GBatchDone
    <3>4. CASE \E a \in batch : GSkip(a) \/ GDecide(a)
      BY <3>4 DEF GSkip, GDecide, Eligible
    <3>5. CASE GGet \/ GPost \/ GBlockFails \/ GNotice
      BY <3>5 DEF GGet, GPost, GBlockFails, GNotice, Eligible, TablesOK
    <3> QED
      BY <1>1, <3>2, <3>3, <3>4, <3>5
  <2> QED
    BY <2>1, <2>2, <2>3, <2>4, ExpiryFrame, ListenerFrame DEF gRest
<1>2. CASE GRecord
  <2>1. NewRow \in Row
    BY <1>2, TableFacts
    DEF GRecord, LoopOK, NewRow, Row, Offender, Eligible, Alert, Status, Pending, AlertIds
  <2>2. rows' \in Seq(Row) /\ RowIds \subseteq RowIds' /\ rows' # <<>>
    BY <1>2, <2>1, RowsAppend DEF GRecord
  <2>3. TablesOK'
    BY <1>2, <2>2 DEF GRecord, TablesOK, gRest
  <2>4. LoopOK'
    BY <1>2, <2>2 DEF GRecord, LoopOK, gRest, AlertIds
  <2> QED
    BY <1>2, <2>2, <2>3, <2>4, ExpiryFrame, ListenerFrame DEF GRecord, gRest
<1> QED
  BY <1>1, <1>2 DEF GuardianLoop

(* What the expiry loop and the listener do to the table: statuses change. *)
LEMMA CommitUpdate ==
    ASSUME TypeOK, ECommit
    PROVE  /\ rows' \in Seq(Row) /\ RowIds' = RowIds /\ (rows # <<>> => rows' # <<>>)
           /\ \A r \in RowIds : /\ rows'[r].ip = rows[r].ip /\ rows'[r].alert = rows[r].alert
                                /\ rows'[r].status = IF r \in eDone THEN Expired
                                                                  ELSE rows[r].status
<1> DEFINE new(r) == IF r \in eDone THEN [rows[r] EXCEPT !.status = Expired] ELSE rows[r]
<1>1. \A r \in RowIds : /\ new(r) \in Row /\ new(r).ip = rows[r].ip /\ new(r).alert = rows[r].alert
                        /\ new(r).status = IF r \in eDone THEN Expired ELSE rows[r].status
  BY TableFacts DEF Row, Status, Expired
<1>2. rows' = [r \in RowIds |-> new(r)]
  BY DEF ECommit
<1> HIDE DEF new
<1>3. rows' \in [1..Len(rows) -> Row] /\ Len(rows) \in Nat
  BY <1>1, <1>2, TableFacts DEF RowIds
<1>4. rows' \in Seq(Row) /\ Len(rows') = Len(rows)
  BY <1>3
<1>5. rows # <<>> => rows' # <<>>
  BY <1>4, EmptySeq DEF TypeOK, TablesOK
<1> QED
  BY <1>1, <1>2, <1>4, <1>5 DEF RowIds

LEMMA TypeExpiryLoop == ASSUME TypeOK, ExpiryLoop PROVE TypeOK'
<1> USE DEF TypeOK
<1>1. CASE ECommit
  <2>1. RowIds' = RowIds /\ AlertIds' = AlertIds /\ TablesOK'
    BY <1>1, CommitUpdate DEF ECommit, eRest, AlertIds, TablesOK
  <2>2. LoopOK'
    BY <1>1, <2>1, CommitUpdate, LoopFrame DEF ECommit, eRest
  <2>3. ExpiryOK'
    BY <1>1, <2>1 DEF ECommit, ExpiryOK
  <2> QED
    BY <1>1, <2>1, <2>2, <2>3, ListenerFrame DEF ECommit, eRest
<1>2. CASE ESelect \/ (\E r \in eTodo : EGet(r)) \/ EPost \/ EUnblockFails \/ ECommitFails
  <2>1. UNCHANGED <<rows, eRest>> /\ adguard' \subseteq IPs
    BY <1>2 DEF ESelect, EGet, EPost, EUnblockFails, ECommitFails, TablesOK, ExpiryOK
  <2>2. RowIds' = RowIds /\ AlertIds' = AlertIds /\ TablesOK'
    BY <2>1 DEF eRest, RowIds, AlertIds, TablesOK
  <2>3. LoopOK'
    BY <2>1, <2>2, LoopFrame DEF eRest
  <2>4. ExpiryOK'
    BY <1>2, <2>2 DEF ESelect, EGet, EPost, EUnblockFails, ECommitFails, ExpiryOK, TablesOK, DueRows
  <2> QED
    BY <2>1, <2>2, <2>3, <2>4, ListenerFrame DEF eRest
<1> QED
  BY <1>1, <1>2 DEF ExpiryLoop

LEMMA ButtonRow ==
    ASSUME TypeOK, tpc # "idle"
    PROVE  Button \in Press /\ Button.row \in RowIds
BY TableFacts DEF TypeOK, ListenerOK, Button

LEMMA ResolveUpdate ==
    ASSUME TypeOK, TConfirm \/ TResolve
    PROVE  /\ rows' \in Seq(Row) /\ RowIds' = RowIds /\ (rows # <<>> => rows' # <<>>)
           /\ Button.row \in RowIds
           /\ \A r \in RowIds :
                 /\ rows'[r].ip = rows[r].ip /\ rows'[r].alert = rows[r].alert
                 /\ r # Button.row => rows'[r].status = rows[r].status
                 /\ r = Button.row => rows'[r].status = IF tpc = "confirm" THEN Confirmed
                                                                           ELSE Undone
<1> DEFINE b == Button.row
           confirmed == [[rows[b] EXCEPT !.status = Confirmed] EXCEPT !.due = FALSE]
           undone == [rows[b] EXCEPT !.status = Undone]
<1>1. b \in RowIds
  BY ButtonRow DEF TConfirm, TResolve
<1>2. /\ confirmed \in Row /\ confirmed.ip = rows[b].ip /\ confirmed.alert = rows[b].alert
      /\ confirmed.status = Confirmed
      /\ undone \in Row /\ undone.ip = rows[b].ip /\ undone.alert = rows[b].alert
      /\ undone.status = Undone
  BY <1>1, TableFacts DEF Row, Status, Confirmed, Undone
<1>3. \/ tpc = "confirm" /\ rows' = [rows EXCEPT ![b] = confirmed]
      \/ tpc # "confirm" /\ rows' = [rows EXCEPT ![b] = undone]
  <2>1. CASE TConfirm
    BY <1>1, <2>1 DEF TConfirm, RowIds
  <2>2. CASE TResolve
    BY <1>1, <2>2 DEF TResolve
  <2> QED
    BY <2>1, <2>2
<1> HIDE DEF b, confirmed, undone
<1> QED
  BY <1>1, <1>2, <1>3, RowUpdate DEF b

LEMMA TypeTelegramListener == ASSUME TypeOK, TelegramListener PROVE TypeOK'
<1> USE DEF TypeOK
<1>1. CASE TConfirm \/ TResolve
  <2>1. UNCHANGED <<adguard, offset, acked, tRest>> /\ tpc' = "idle" /\ tSnap' \subseteq IPs
    BY <1>1 DEF TConfirm, TResolve, ListenerOK
  <2>2. RowIds' = RowIds /\ AlertIds' = AlertIds /\ TablesOK'
    BY <1>1, <2>1, ResolveUpdate DEF tRest, AlertIds, TablesOK
  <2>3. LoopOK'
    BY <1>1, <2>1, <2>2, ResolveUpdate, LoopFrame DEF tRest
  <2>4. ListenerOK'
    BY <2>1, <2>2 DEF ListenerOK, tRest
  <2> QED
    BY <2>1, <2>2, <2>3, <2>4, ExpiryFrame DEF tRest
<1>2. CASE TTake \/ TRefused \/ TNoLongerPending \/ TStillPending \/ TGet \/ TPost \/ TFails
  <2>1. UNCHANGED <<rows, tRest>> /\ adguard' \subseteq IPs
    BY <1>2
    DEF TTake, TRefused, TNoLongerPending, TStillPending, TGet, TPost, TFails, TablesOK, ListenerOK
  <2>2. RowIds' = RowIds /\ AlertIds' = AlertIds /\ TablesOK'
    BY <2>1 DEF tRest, RowIds, AlertIds, TablesOK
  <2>3. LoopOK'
    BY <2>1, <2>2, LoopFrame DEF tRest
  <2>4. ListenerOK'
    <3>1. CASE TTake
      BY <2>1, <2>2, <3>1, TableFacts DEF TTake, ListenerOK, tRest
    <3>2. CASE TRefused \/ TNoLongerPending \/ TStillPending \/ TGet \/ TPost \/ TFails
      BY <2>1, <2>2, <3>2
      DEF TRefused, TNoLongerPending, TStillPending, TGet, TPost, TFails, ListenerOK, TablesOK, tRest
    <3> QED
      BY <1>2, <3>1, <3>2
  <2> QED
    BY <2>1, <2>2, <2>3, <2>4, ExpiryFrame DEF tRest
<1> QED
  BY <1>1, <1>2 DEF TelegramListener

LEMMA TypeStep == TypeOK /\ [Next]_vars => TypeOK'
<1>1. TypeOK /\ UNCHANGED vars => TypeOK'
  BY LoopFrame, ExpiryFrame, ListenerFrame
  DEF TypeOK, TablesOK, vars, tables, AlertIds, RowIds
<1> QED
  BY <1>1, TypeEnvironment, TypeGuardianLoop, TypeExpiryLoop, TypeTelegramListener DEF Next

(* The tables and the three tasks keep their types, and the ids the tasks   *)
(* carry over an await still name alerts and rows when they are used.       *)
THEOREM TypeCorrect == Spec => []TypeOK
BY TypeInit, TypeStep, PTL DEF Spec

-----------------------------------------------------------------------------
(* How a step may change the tables: alerts stay, rows keep their address   *)
(* and their alert, no row becomes pending again, and only guardian_loop    *)
(* adds one.                                                                *)

LEMMA AlertsEvolve ==
    ASSUME TypeOK, [Next]_vars
    PROVE  /\ AlertIds \subseteq AlertIds'
           /\ \A i \in AlertIds : alerts'[i].ip = alerts[i].ip
           /\ VisibleIds \subseteq VisibleIds'
<1>1. CASE \E ip \in IPs \cup {NoIP}, kind \in AlertKinds : RaiseAlert(ip, kind)
  BY <1>1, AlertInsert DEF VisibleIds
<1>2. CASE \E i \in AlertIds : CommitAlert(i)
  BY <1>2, AlertUpdate DEF VisibleIds, CommitAlert
<1>3. CASE UNCHANGED alerts
  BY <1>3 DEF AlertIds, VisibleIds
<1> QED
  BY <1>1, <1>2, <1>3
  DEF Next, Environment, GuardianLoop, ExpiryLoop, TelegramListener, vars, tables, gRest, eRest,
      tRest, BlockElapses, WindowElapses, Click, Crash, GInit, GInitFails, GPoll, GBreaker,
      GLoopError, GBatchDone, GSkip, GDecide, GGet, GPost, GBlockFails, GRecord, GNotice, ESelect,
      EGet, EPost, ECommit, EUnblockFails, ECommitFails, TTake, TRefused, TNoLongerPending,
      TStillPending, TConfirm, TGet, TPost, TResolve, TFails

LEMMA RowsEvolve ==
    ASSUME TypeOK, [Next]_vars
    PROVE  /\ \A r \in RowIds : /\ r \in RowIds'
                                /\ rows'[r].ip = rows[r].ip /\ rows'[r].alert = rows[r].alert
                                /\ rows'[r].status = Pending => rows[r].status = Pending
                                /\ \/ rows'[r].status \in {rows[r].status, Expired}
                                   \/ (TConfirm \/ TResolve) /\ r = Button.row
           /\ \/ RowIds' = RowIds
              \/ GRecord /\ RowIds' = RowIds \cup {Len(rows) + 1}
                         /\ rows'[Len(rows) + 1].status = Pending
<1>1. CASE GRecord
  <2>1. NewRow \in Row
    BY <1>1, TableFacts
    DEF TypeOK, GRecord, LoopOK, NewRow, Row, Offender, Eligible, Alert, Status, Pending, AlertIds
  <2>2. NewRow.status = Pending
    BY DEF NewRow
  <2> HIDE DEF NewRow
  <2>3. /\ RowIds' = RowIds \cup {Len(rows) + 1}
        /\ \A r \in RowIds : rows'[r] = rows[r]
        /\ rows'[Len(rows) + 1] = NewRow
    BY <1>1, <2>1, RowsAppend DEF GRecord
  <2> QED
    BY <1>1, <2>2, <2>3
<1>2. CASE ECommit
  BY <1>2, CommitUpdate DEF Expired, Pending
<1>3. CASE TConfirm \/ TResolve
  BY <1>3, ResolveUpdate DEF Confirmed, Undone, Pending
<1>4. CASE \E r \in RowIds : BlockElapses(r) \/ WindowElapses(r)
  <2>1. PICK r \in RowIds : BlockElapses(r) \/ WindowElapses(r)
    BY <1>4
  <2>2. PICK row \in Row : /\ rows' = [rows EXCEPT ![r] = row]
                           /\ row.ip = rows[r].ip /\ row.alert = rows[r].alert
                           /\ row.status = rows[r].status
    <3>1. CASE BlockElapses(r)
      <4>1. [rows[r] EXCEPT !.due = TRUE] \in Row
        BY TableFacts DEF Row
      <4> QED
        BY <3>1, <4>1, TableFacts DEF BlockElapses, Row
    <3>2. CASE WindowElapses(r)
      <4>1. [rows[r] EXCEPT !.recent = FALSE] \in Row
        BY TableFacts DEF Row
      <4> QED
        BY <3>2, <4>1, TableFacts DEF WindowElapses, Row
    <3> QED
      BY <2>1, <3>1, <3>2
  <2>3. RowIds' = RowIds /\ \A q \in RowIds : rows'[q] = IF q = r THEN row ELSE rows[q]
    BY <2>2, RowUpdate, Zenon
  <2> QED
    BY <2>2, <2>3
<1>5. CASE UNCHANGED rows
  BY <1>5 DEF RowIds
<1> QED
  BY <1>1, <1>2, <1>3, <1>4, <1>5
  DEF Next, Environment, GuardianLoop, ExpiryLoop, TelegramListener, vars, tables, gRest, eRest,
      tRest, RaiseAlert, CommitAlert, Click, Crash, GInit, GInitFails, GPoll, GBreaker,
      GLoopError, GBatchDone, GSkip, GDecide, GGet, GPost, GBlockFails, GNotice, ESelect,
      EGet, EPost, EUnblockFails, ECommitFails, TTake, TRefused, TNoLongerPending,
      TStillPending, TGet, TPost, TFails

(* Apart from a restart only guardian_loop itself writes its variables.     *)
LEMMA OnlyGuardianLoop ==
    ASSUME [Next]_vars
    PROVE  GuardianLoop \/ Crash \/ UNCHANGED gVars
BY DEF Next, Environment, ExpiryLoop, TelegramListener, vars, eRest, tRest, RaiseAlert,
       CommitAlert, BlockElapses, WindowElapses, Click, ESelect, EGet, EPost, ECommit,
       EUnblockFails, ECommitFails, TTake, TRefused, TNoLongerPending, TStillPending, TConfirm,
       TGet, TPost, TResolve, TFails

-----------------------------------------------------------------------------
(* One pending action per address.  The strengthening: while block() is     *)
(* under way the address has no pending action, for nobody else adds one.   *)

Blocking == gpc \in {"get", "post", "record"}

LEMMA BlockingEvolves ==
    ASSUME [Next]_vars, Blocking'
    PROVE  (\E a \in batch : GDecide(a)) \/ (Blocking /\ gCur' = gCur)
<1> USE DEF Blocking
<1>1. CASE UNCHANGED gVars
  BY <1>1 DEF gVars
<1>2. CASE Crash
  BY <1>2 DEF Crash
<1>3. CASE GuardianLoop
  BY <1>3
  DEF GuardianLoop, GInit, GInitFails, GPoll, GBreaker, GLoopError, GBatchDone, GSkip, GGet,
      GPost, GBlockFails, GRecord, GNotice
<1> QED
  BY <1>1, <1>2, <1>3, OnlyGuardianLoop

PendingInv ==
    /\ UniquePending
    /\ Blocking => ~HasActiveAction(Offender)

LEMMA PendingStep ==
    ASSUME TypeOK, PendingInv, [Next]_vars
    PROVE  PendingInv'
<1>1. \A r \in RowIds : /\ r \in RowIds'
                        /\ rows'[r].ip = rows[r].ip
                        /\ rows'[r].status = Pending => rows[r].status = Pending
  BY RowsEvolve
<1>2. CASE GRecord
  <2>1. /\ RowIds' = RowIds \cup {Len(rows) + 1}
        /\ rows'[Len(rows) + 1] = NewRow
    <3>1. NewRow \in Row
      BY <1>2, TableFacts
      DEF TypeOK, GRecord, LoopOK, NewRow, Row, Offender, Eligible, Alert, Status, Pending, AlertIds
    <3> QED
      BY <1>2, <3>1, RowsAppend DEF GRecord
  <2>2. \A r \in RowIds : rows[r].status = Pending => rows[r].ip # NewRow.ip
    BY <1>2 DEF GRecord, PendingInv, Blocking, HasActiveAction, NewRow
  <2>3. UniquePending'
    BY <1>1, <2>1, <2>2 DEF PendingInv, UniquePending
  <2> QED
    BY <1>2, <2>3 DEF GRecord, PendingInv, Blocking
<1>3. CASE ~GRecord
  <2>1. RowIds' = RowIds
    BY <1>3, RowsEvolve
  <2>2. UniquePending'
    BY <1>1, <2>1 DEF PendingInv, UniquePending
  <2>3. ASSUME Blocking' PROVE ~HasActiveAction(Offender)'
    <3>1. CASE \E a \in batch : GDecide(a)
      BY <1>1, <2>1, <3>1 DEF GDecide, gRest, HasActiveAction, Offender, TypeOK, LoopOK
    <3>2. CASE Blocking /\ gCur' = gCur
      <4>1. gCur \in AlertIds
        BY <3>2 DEF Blocking, TypeOK, LoopOK
      <4>2. Offender' = Offender
        BY <3>2, <4>1, AlertsEvolve DEF Offender
      <4> QED
        BY <1>1, <2>1, <3>2, <4>2 DEF PendingInv, HasActiveAction
    <3> QED
      BY <2>3, <3>1, <3>2, BlockingEvolves
  <2> QED
    BY <2>2, <2>3 DEF PendingInv
<1> QED
  BY <1>2, <1>3

(* However the three tasks, failures and restarts interleave, an address    *)
(* never has two pending actions.                                           *)
THEOREM OnePendingPerAddress == Spec => []UniquePending
<1>1. Init => PendingInv
  BY DEF Init, InitTasks, PendingInv, UniquePending, RowIds, Blocking
<1>2. TypeOK /\ PendingInv /\ [Next]_vars => PendingInv'
  BY PendingStep
<1>3. PendingInv => UniquePending
  BY DEF PendingInv
<1> QED
  BY <1>1, <1>2, <1>3, TypeCorrect, PTL DEF Spec

-----------------------------------------------------------------------------
(* One action per alert.  The strengthening: what is acted on has been read *)
(* below _last_seen_alert_id, and what is still to be looked at has no row. *)

AlertInv ==
    /\ OneActionPerAlert
    /\ \A r \in RowIds : /\ rows[r].alert \in VisibleIds
                         /\ gpc \notin {"init", "dead"} => rows[r].alert <= lastSeen
                         /\ rows[r].alert \notin batch
                         /\ Blocking => rows[r].alert # gCur
    /\ Blocking => gCur \notin batch /\ gCur <= lastSeen /\ gCur \in VisibleIds
    /\ \A b \in batch : b <= lastSeen /\ b \in VisibleIds
    /\ gpc = "init" => batch = {}

LEMMA AlertStepRecord ==
    ASSUME TypeOK, AlertInv, GRecord
    PROVE  AlertInv'
<1>1. /\ RowIds' = RowIds \cup {Len(rows) + 1} /\ Len(rows) + 1 \notin RowIds
      /\ rows'[Len(rows) + 1] = NewRow
      /\ \A r \in RowIds : rows'[r] = rows[r]
  <2>1. NewRow \in Row
    BY TableFacts
    DEF TypeOK, GRecord, LoopOK, NewRow, Row, Offender, Eligible, Alert, Status, Pending, AlertIds
  <2> QED
    BY <2>1, RowsAppend DEF GRecord
<1>2. NewRow.alert = gCur /\ Blocking
  BY DEF NewRow, GRecord, Blocking
<1>3. OneActionPerAlert'
  BY <1>1, <1>2 DEF AlertInv, OneActionPerAlert
<1>4. VisibleIds' = VisibleIds
  BY DEF GRecord, gRest, VisibleIds, AlertIds
<1> QED
  BY <1>1, <1>2, <1>3, <1>4 DEF AlertInv, GRecord, Blocking

LEMMA AlertStep ==
    ASSUME TypeOK, AlertInv, [Next]_vars
    PROVE  AlertInv'
<1>1. CASE GRecord
  BY <1>1, AlertStepRecord
<1>2. CASE ~GRecord
  <2>1. RowIds' = RowIds /\ \A r \in RowIds : rows'[r].alert = rows[r].alert
    BY <1>2, RowsEvolve
  <2>2. OneActionPerAlert'
    BY <2>1 DEF AlertInv, OneActionPerAlert
  <2>3. VisibleIds \subseteq VisibleIds'
    BY AlertsEvolve
  <2>4. lastSeen \in Nat /\ gCur \in Nat /\ VisibleIds \subseteq Nat /\ batch \subseteq Nat
    BY TableFacts DEF TypeOK, LoopOK, AlertIds, VisibleIds
  <2>5. CASE UNCHANGED gVars
    BY <2>1, <2>2, <2>3, <2>5 DEF AlertInv, gVars, Blocking
  <2>6. CASE Crash
    BY <2>1, <2>2, <2>3, <2>6 DEF AlertInv, Crash, Blocking
  <2>7. CASE GInit
    BY <2>1, <2>2, <2>3, <2>4, <2>7 DEF AlertInv, GInit, Blocking
  <2>8. CASE GPoll
    <3>1. lastSeen' \in NewIds /\ batch' = NewIds /\ gpc' = "breaker" /\ gpc = "idle"
          /\ \A i \in NewIds : i <= lastSeen'
      BY <2>8 DEF GPoll
    <3>2. NewIds \subseteq VisibleIds /\ \A i \in NewIds : i > lastSeen
      BY DEF NewIds
    <3>3. lastSeen' \in Nat /\ lastSeen < lastSeen'
      BY <2>4, <3>1, <3>2
    <3>4. \A r \in RowIds : /\ rows[r].alert \in VisibleIds' /\ rows[r].alert <= lastSeen'
                            /\ rows[r].alert \notin NewIds
      <4>1. \A r \in RowIds : rows[r].alert \in VisibleIds /\ rows[r].alert <= lastSeen
        BY <3>1 DEF AlertInv
      <4>2. \A n \in VisibleIds : n <= lastSeen => n <= lastSeen' /\ n \notin NewIds
        BY <2>4, <3>2, <3>3
      <4> QED
        BY <2>3, <4>1, <4>2
    <3>5. \A b \in batch' : b <= lastSeen' /\ b \in VisibleIds'
      BY <2>3, <3>1, <3>2
    <3>6. ~Blocking' /\ gpc' # "init"
      BY <3>1 DEF Blocking
    <3>7. \A r \in RowIds' : rows'[r].alert = rows[r].alert /\ r \in RowIds
      BY <2>1
    <3> QED
      BY <2>2, <3>1, <3>4, <3>5, <3>6, <3>7 DEF AlertInv
  <2>9. CASE \E a \in batch : GSkip(a) \/ GDecide(a)
    BY <2>1, <2>2, <2>3, <2>4, <2>9 DEF AlertInv, GSkip, GDecide, Blocking
  <2>10. CASE \/ GInitFails \/ GBreaker \/ GLoopError \/ GBatchDone
              \/ GGet \/ GPost \/ GBlockFails \/ GNotice
    BY <2>1, <2>2, <2>3, <2>10
    DEF AlertInv, Blocking, GInitFails, GBreaker, GLoopError, GBatchDone, GGet, GPost,
        GBlockFails, GNotice
  <2> QED
    BY <1>2, <2>5, <2>6, <2>7, <2>8, <2>9, <2>10, OnlyGuardianLoop DEF GuardianLoop
<1> QED
  BY <1>1, <1>2

(* An alert never leads to two actions: not when the loop's try swallows an *)
(* error half way through a batch, not when the process is restarted.       *)
THEOREM OneActionPerAlertHolds == Spec => []OneActionPerAlert
<1>1. Init => AlertInv
  BY DEF Init, InitTasks, AlertInv, OneActionPerAlert, RowIds, Blocking
<1>2. TypeOK /\ AlertInv /\ [Next]_vars => AlertInv'
  BY AlertStep
<1>3. AlertInv => OneActionPerAlert
  BY DEF AlertInv
<1> QED
  BY <1>1, <1>2, <1>3, TypeCorrect, PTL DEF Spec

-----------------------------------------------------------------------------
(* AdGuard's list.  The strengthening: what holds of the list held of every *)
(* copy of it that a task will write back.                                  *)

ListOK(list) == list \cap Whitelist = {} /\ OperatorEntries \subseteq list \cup RowIps

ListInv ==
    /\ ListOK(adguard)
    /\ gpc = "post" => ListOK(gSnap)
    /\ epc = "post" => ListOK(eSnap)
    /\ tpc = "post" => ListOK(tSnap)

LEMMA ListOKGrows ==
    ASSUME NEW list, ListOK(list), RowIps \subseteq RowIps'
    PROVE  list \cap Whitelist = {} /\ OperatorEntries \subseteq list \cup RowIps'
BY DEF ListOK

LEMMA RowIpsGrow ==
    ASSUME TypeOK, [Next]_vars
    PROVE  RowIps \subseteq RowIps'
BY RowsEvolve DEF RowIps

LEMMA ListStep ==
    ASSUME TypeOK, ListInv, [Next]_vars
    PROVE  ListInv'
<1>1. RowIps \subseteq RowIps'
  BY RowIpsGrow
<1>2. \A r \in RowIds : rows[r].ip \in RowIps
  BY DEF RowIps
<1>3. CASE UNCHANGED <<adguard, gVars, eVars, tVars>>
  BY <1>1, <1>3 DEF ListInv, ListOK, gVars, eVars, tVars
<1>4. CASE Crash
  BY <1>1, <1>4 DEF ListInv, ListOK, Crash
<1>5. CASE GuardianLoop
  <2>1. gpc \in {"get", "post", "record"} => Offender \notin Whitelist
    BY DEF TypeOK, LoopOK, Offender, Eligible
  <2>2. UNCHANGED <<eVars, tVars>>
    BY <1>5
    DEF GuardianLoop, GInit, GInitFails, GPoll, GBreaker, GLoopError, GBatchDone, GSkip, GDecide,
        GGet, GPost, GBlockFails, GRecord, GNotice, gRest
  <2>3. \/ adguard' = adguard
        \/ gpc = "post" /\ adguard' = gSnap \cup {Offender}
    BY <1>5
    DEF GuardianLoop, GInit, GInitFails, GPoll, GBreaker, GLoopError, GBatchDone, GSkip, GDecide,
        GGet, GPost, GBlockFails, GRecord, GNotice
  <2>4. gpc' = "post" => gpc = "get" /\ gSnap' = adguard
    BY <1>5
    DEF GuardianLoop, GInit, GInitFails, GPoll, GBreaker, GLoopError, GBatchDone, GSkip, GDecide,
        GGet, GPost, GBlockFails, GRecord, GNotice
  <2>5. ListOK(adguard)'
    BY <1>1, <2>1, <2>3 DEF ListInv, ListOK
  <2>6. gpc' = "post" => ListOK(gSnap)'
    BY <1>1, <2>4 DEF ListInv, ListOK
  <2> QED
    BY <1>1, <2>2, <2>5, <2>6 DEF ListInv, ListOK, eVars, tVars
<1>6. CASE ExpiryLoop
  <2>1. UNCHANGED <<gVars, tVars>>
    BY <1>6 DEF ExpiryLoop, ESelect, EGet, EPost, ECommit, EUnblockFails, ECommitFails, eRest
  <2>2. \/ adguard' = adguard
        \/ epc = "post" /\ adguard' = eSnap \ {rows[eCur].ip}
    BY <1>6 DEF ExpiryLoop, ESelect, EGet, EPost, ECommit, EUnblockFails, ECommitFails
  <2>3. epc' = "post" => eSnap' = adguard \/ (epc = "post" /\ eSnap' = eSnap)
    BY <1>6 DEF ExpiryLoop, ESelect, EGet, EPost, ECommit, EUnblockFails, ECommitFails
  <2>4. epc = "post" => rows[eCur].ip \in RowIps
    BY <1>2 DEF TypeOK, ExpiryOK
  <2>5. ListOK(adguard)'
    BY <1>1, <2>2, <2>4 DEF ListInv, ListOK
  <2>6. epc' = "post" => ListOK(eSnap)'
    BY <1>1, <2>3 DEF ListInv, ListOK
  <2> QED
    BY <1>1, <2>1, <2>5, <2>6 DEF ListInv, ListOK, gVars, tVars
<1>7. CASE TelegramListener
  <2>1. UNCHANGED <<gVars, eVars>>
    BY <1>7
    DEF TelegramListener, TTake, TRefused, TNoLongerPending, TStillPending, TConfirm, TGet, TPost,
        TResolve, TFails, tRest
  <2>2. \/ adguard' = adguard
        \/ tpc = "post" /\ adguard' = tSnap \ {rows[Button.row].ip}
    BY <1>7
    DEF TelegramListener, TTake, TRefused, TNoLongerPending, TStillPending, TConfirm, TGet, TPost,
        TResolve, TFails
  <2>3. tpc' = "post" => tSnap' = adguard
    BY <1>7
    DEF TelegramListener, TTake, TRefused, TNoLongerPending, TStillPending, TConfirm, TGet, TPost,
        TResolve, TFails
  <2>4. tpc = "post" => rows[Button.row].ip \in RowIps
    BY <1>2, ButtonRow
  <2>5. ListOK(adguard)'
    BY <1>1, <2>2, <2>4 DEF ListInv, ListOK
  <2>6. tpc' = "post" => ListOK(tSnap)'
    BY <1>1, <2>3 DEF ListInv, ListOK
  <2> QED
    BY <1>1, <2>1, <2>5, <2>6 DEF ListInv, ListOK, gVars, eVars
<1>8. CASE \E op \in {"confirm", "undo"}, r \in RowIds, user \in Users : Click(op, r, user)
  BY <1>1, <1>8 DEF ListInv, ListOK, Click, gVars, eVars
<1> QED
  BY <1>3, <1>4, <1>5, <1>6, <1>7, <1>8
  DEF Next, Environment, vars, RaiseAlert, CommitAlert, BlockElapses, WindowElapses

LEMMA ListInvariant == Spec => []ListInv
<1>1. Init => ListInv
  BY GuardianAssumption DEF GuardianAssumption, Init, InitTasks, ListInv, ListOK
<1>2. TypeOK /\ ListInv /\ [Next]_vars => ListInv'
  BY ListStep
<1> QED
  BY <1>1, <1>2, TypeCorrect, PTL DEF Spec

(* No interleaving of the list rewrites, no lost update and no resurrected  *)
(* entry ever puts a whitelisted address on AdGuard's list.                 *)
THEOREM WhitelistHolds == Spec => []WhitelistNeverBlocked
<1>1. ListInv => WhitelistNeverBlocked
  BY DEF ListInv, ListOK, WhitelistNeverBlocked
<1> QED
  BY <1>1, ListInvariant, PTL

(* The operator's own entries survive all rewrites of the list, unless the  *)
(* Guardian took an action on the same address.                             *)
THEOREM OperatorEntriesHold == Spec => []OperatorEntriesKept
<1>1. ListInv => OperatorEntriesKept
  BY DEF ListInv, ListOK, OperatorEntriesKept
<1> QED
  BY <1>1, ListInvariant, PTL

-----------------------------------------------------------------------------
(* Who resolves an action.  The strengthening: past its checks the listener *)
(* is working on a press of the right button by an allowed user.            *)

ResolvedInv ==
    /\ ResolvedByAllowedUser
    /\ tpc = "confirm" => Authorized /\ Button.op = "confirm"
    /\ tpc \in {"get", "post", "resolve"} => Authorized /\ Button.op = "undo"

LEMMA PressesStay ==
    ASSUME TypeOK, [Next]_vars
    PROVE  /\ Len(clicks) \in Nat /\ Len(clicks') \in Nat /\ Len(clicks) <= Len(clicks')
           /\ \A i \in 1..Len(clicks) : clicks'[i] = clicks[i]
<1>1. CASE \E op \in {"confirm", "undo"}, r \in RowIds, user \in Users : Click(op, r, user)
  <2>1. PICK op \in {"confirm", "undo"}, r \in RowIds, user \in Users : Click(op, r, user)
    BY <1>1
  <2> DEFINE new == [op |-> op, row |-> r, by |-> user]
  <2>2. new \in Press /\ clicks' = Append(clicks, new) /\ clicks \in Seq(Press)
    BY <2>1 DEF Press, RowIds, Click, TypeOK, ListenerOK
  <2> HIDE DEF new
  <2>3. /\ Len(clicks') = Len(clicks) + 1
        /\ \A i \in 1..Len(clicks) : clicks'[i] = clicks[i]
    BY <2>2, AppendProperties
  <2> QED
    BY <2>3, TableFacts
<1>2. CASE UNCHANGED clicks
  BY <1>2, TableFacts
<1> QED
  BY <1>1, <1>2
  DEF Next, Environment, GuardianLoop, ExpiryLoop, TelegramListener, vars, tVars, gRest, eRest,
      tRest, RaiseAlert, CommitAlert, BlockElapses, WindowElapses, Crash, GInit, GInitFails,
      GPoll, GBreaker, GLoopError, GBatchDone, GSkip, GDecide, GGet, GPost, GBlockFails, GRecord,
      GNotice, ESelect, EGet, EPost, ECommit, EUnblockFails, ECommitFails, TTake, TRefused,
      TNoLongerPending, TStillPending, TConfirm, TGet, TPost, TResolve, TFails

LEMMA ListenerEvolves ==
    ASSUME [Next]_vars
    PROVE  \/ tpc' \in {"idle", "read"}
           \/ tpc' = tpc /\ offset' = offset
           \/ TStillPending
           \/ tpc = "get" /\ tpc' \in {"post", "resolve"} /\ offset' = offset
           \/ tpc = "post" /\ tpc' = "resolve" /\ offset' = offset
<1>1. CASE TelegramListener
  BY <1>1
  DEF TelegramListener, TTake, TRefused, TNoLongerPending, TConfirm, TGet, TPost, TResolve, TFails
<1>2. CASE ~TelegramListener
  BY <1>2
  DEF Next, Environment, GuardianLoop, ExpiryLoop, vars, tVars, gRest, eRest, RaiseAlert,
      CommitAlert, BlockElapses, WindowElapses, Click, Crash, GInit, GInitFails, GPoll, GBreaker,
      GLoopError, GBatchDone, GSkip, GDecide, GGet, GPost, GBlockFails, GRecord, GNotice, ESelect,
      EGet, EPost, ECommit, EUnblockFails, ECommitFails
<1> QED
  BY <1>1, <1>2

LEMMA ResolvedStep ==
    ASSUME TypeOK, ResolvedInv, [Next]_vars
    PROVE  ResolvedInv'
<1>1. tpc # "idle" => offset \in 1..Len(clicks)
  BY TableFacts DEF TypeOK, ListenerOK
<1>2. \A op, r : PressedBy(op, r) => PressedBy(op, r)'
  BY PressesStay DEF PressedBy
<1>3. tpc # "idle" /\ offset' = offset => Button' = Button
  BY <1>1, PressesStay DEF Button
<1>4. TConfirm => PressedBy("confirm", Button.row) /\ tpc = "confirm"
  BY <1>1 DEF TConfirm, ResolvedInv, PressedBy, Authorized, Button
<1>5. TResolve => PressedBy("undo", Button.row) /\ tpc = "resolve"
  BY <1>1 DEF TResolve, ResolvedInv, PressedBy, Authorized, Button
<1>6. ResolvedByAllowedUser'
  <2>1. ASSUME NEW r \in RowIds'
        PROVE  /\ rows'[r].status = Confirmed => PressedBy("confirm", r)
               /\ rows'[r].status = Undone => PressedBy("undo", r)
    <3>1. CASE r \notin RowIds
      BY <2>1, <3>1, RowsEvolve DEF Pending, Confirmed, Undone
    <3>2. CASE r \in RowIds /\ rows'[r].status \in {rows[r].status, Expired}
      BY <3>2 DEF ResolvedInv, ResolvedByAllowedUser, Expired, Confirmed, Undone
    <3>3. CASE r \in RowIds /\ (TConfirm \/ TResolve) /\ r = Button.row
      BY <1>4, <1>5, <3>3, ResolveUpdate DEF Confirmed, Undone
    <3> QED
      BY <2>1, <3>1, <3>2, <3>3, RowsEvolve
  <2> QED
    BY <1>2, <2>1 DEF ResolvedByAllowedUser
<1>7. CASE TStillPending
  <2>1. Button' = Button /\ Button.op \in {"confirm", "undo"} /\ Authorized
    BY <1>3, <1>7, ButtonRow DEF TStillPending, Press
  <2> QED
    BY <1>6, <1>7, <2>1 DEF TStillPending, ResolvedInv, Authorized
<1>8. CASE ~TStillPending
  BY <1>3, <1>6, <1>8, ListenerEvolves DEF ResolvedInv, Authorized
<1> QED
  BY <1>7, <1>8

(* A confirmed action was confirmed, and an undone action undone, by a      *)
(* press of that button on that row by an allowed user.                     *)
THEOREM ResolvedByAllowedUserHolds == Spec => []ResolvedByAllowedUser
<1>1. Init => ResolvedInv
  BY EmptySeq DEF Init, InitTasks, ResolvedInv, ResolvedByAllowedUser, RowIds
<1>2. TypeOK /\ ResolvedInv /\ [Next]_vars => ResolvedInv'
  BY ResolvedStep
<1>3. ResolvedInv => ResolvedByAllowedUser
  BY DEF ResolvedInv
<1> QED
  BY <1>1, <1>2, <1>3, TypeCorrect, PTL DEF Spec

-----------------------------------------------------------------------------
(* The circuit breaker.  The invariant behind the action property: a batch  *)
(* is worked only after the breaker was seen open.                          *)

PausedInv == paused = TRUE => gpc \notin {"scan", "get", "post", "record", "notice"}

(* While the breaker has tripped, and no later poll has seen it open, no    *)
(* action is recorded.                                                      *)
THEOREM PausedMeansNoAction == Spec => NoActionWhilePaused
<1>1. Init => PausedInv
  BY DEF Init, InitTasks, PausedInv
<1>2. ASSUME PausedInv, [Next]_vars PROVE PausedInv'
  <2>1. CASE UNCHANGED gVars
    BY <1>2, <2>1 DEF PausedInv, gVars
  <2>2. CASE Crash
    BY <1>2, <2>2 DEF PausedInv, Crash
  <2>3. CASE GBreaker
    <3>1. Tripped \in BOOLEAN
      BY DEF Tripped
    <3> QED
      BY <1>2, <2>3, <3>1 DEF PausedInv, GBreaker
  <2>4. CASE GuardianLoop /\ ~GBreaker
    BY <1>2, <2>4
    DEF PausedInv, GuardianLoop, GInit, GInitFails, GPoll, GLoopError, GBatchDone, GSkip,
        GDecide, GGet, GPost, GBlockFails, GRecord, GNotice
  <2> QED
    BY <1>2, <2>1, <2>2, <2>3, <2>4, OnlyGuardianLoop
<1>3. ASSUME TypeOK, PausedInv, [Next]_vars
      PROVE  [paused => Len(rows') = Len(rows)]_vars
  <2> SUFFICES ASSUME paused = TRUE PROVE Len(rows') = Len(rows)
    BY <1>3 DEF TypeOK, LoopOK
  <2>1. ~GRecord
    BY <1>3 DEF PausedInv, GRecord
  <2>2. RowIds' = RowIds
    BY <1>3, <2>1, RowsEvolve
  <2>3. Len(rows) \in Nat /\ Len(rows') \in Nat
    BY <1>3, TypeStep, LenProperties DEF TypeOK, TablesOK
  <2> QED
    BY <2>2, <2>3 DEF RowIds
<1> QED
  BY <1>1, <1>2, <1>3, TypeCorrect, PTL DEF Spec, NoActionWhilePaused

-----------------------------------------------------------------------------
(* What becomes visible is still ahead of the loop, unless a later id overtook *)
(* it.  The strengthening: the loop has seen nothing but visible alerts.       *)

SeenInv == lastSeen = 0 \/ lastSeen \in VisibleIds

LEMMA SeenLast ==
    ASSUME [Next]_vars
    PROVE  lastSeen' \in {0, lastSeen} \cup VisibleIds
<1>1. CASE UNCHANGED gVars \/ Crash
  BY <1>1 DEF gVars, Crash
<1>2. CASE GInit \/ GPoll
  BY <1>2 DEF GInit, GPoll, NewIds
<1>3. CASE GuardianLoop /\ ~GInit /\ ~GPoll
  BY <1>3 DEF GuardianLoop, GInitFails, GBreaker, GLoopError, GBatchDone, GSkip, GDecide, GGet, GPost,
              GBlockFails, GRecord, GNotice
<1> QED
  BY <1>1, <1>2, <1>3, OnlyGuardianLoop

(* Whatever the order of the commits, an alert that becomes visible before any  *)
(* later id is has an id above _last_seen_alert_id, so a poll reads it: across   *)
(* restarts, failing queries and tripped breakers.                               *)
THEOREM NewAlertIsAheadHolds == Spec => NewAlertIsAhead
<1>1. Init => SeenInv
  BY DEF Init, InitTasks, SeenInv
<1>2. TypeOK /\ SeenInv /\ [Next]_vars => SeenInv'
  <2> SUFFICES ASSUME TypeOK, SeenInv, [Next]_vars PROVE SeenInv'
    OBVIOUS
  <2>1. VisibleIds \subseteq VisibleIds'
    BY AlertsEvolve
  <2> QED
    BY <2>1, SeenLast DEF SeenInv
<1>3. ASSUME TypeOK, SeenInv
      PROVE  \A i \in AlertIds :
                 /\ ~alerts[i].visible /\ alerts'[i].visible
                 /\ \A j \in AlertIds : j > i => ~alerts[j].visible
                 => i > lastSeen
  <2> SUFFICES ASSUME NEW i \in AlertIds, ~alerts[i].visible,
                      \A j \in AlertIds : j > i => ~alerts[j].visible
               PROVE  i > lastSeen
    OBVIOUS
  <2>1. Len(alerts) \in Nat /\ AlertIds = 1..Len(alerts)
    BY <1>3, TableFacts DEF AlertIds
  <2>2. CASE lastSeen = 0
    BY <1>3, <2>1, <2>2
  <2>3. CASE lastSeen \in VisibleIds
    <3>1. lastSeen \in AlertIds /\ alerts[lastSeen].visible
      BY <2>3 DEF VisibleIds
    <3>2. lastSeen # i /\ ~(lastSeen > i)
      BY <3>1
    <3> QED
      BY <2>1, <3>1, <3>2
  <2> QED
    BY <1>3, <2>2, <2>3 DEF SeenInv
<1> QED
  BY <1>1, <1>2, <1>3, TypeCorrect, PTL DEF Spec, NewAlertIsAhead
=============================================================================
