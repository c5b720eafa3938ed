----------------------- MODULE AuthoringQueue_proofs -----------------------
(* Theorems about AuthoringQueue, for every number of cases, sessions,   *)
(* devices, request threads and guidance turns.                          *)
EXTENDS AuthoringQueue, FiniteSetTheorems, TLAPS

SpecRow == [status: SpecStatus, code: BOOLEAN]

-----------------------------------------------------------------------------
(* Type correctness. The records are typed once, here, so that the steps *)
(* below need not look into them.                                        *)

LEMMA NoRowType == NoRow \in Row
  BY DEF Row

LEMMA IdleReqType == IdleReq \in Req
  BY DEF IdleReq, Req, ReqPC, SpecStatus

LEMMA IdleDevType == IdleDev \in Dev
  BY DEF Dev

LEMMA RowFields ==
  ASSUME NEW x \in Row
  PROVE  /\ x.cost \in Nat /\ x.resumes \in Nat
         /\ x.guidance \in SUBSET Turns /\ x.history \in SUBSET Turns
         /\ x.takers \in SUBSET Devices
<1>1. CASE x = NoRow
  BY <1>1 DEF NoRow
<1>2. CASE x \in LiveRow
  BY <1>2 DEF LiveRow
<1> QED BY <1>1, <1>2 DEF Row

\* A row whose status is one of the queue's is about a case.
LEMMA LiveType ==
  ASSUME NEW x \in Row, x.status /= "none"
  PROVE  x \in LiveRow /\ x.case \in Cases
  BY DEF Row, NoRow, LiveRow

LEMMA ReqFields ==
  ASSUME NEW x \in Req
  PROVE  /\ x.case \in Cases \cup {NoCase} /\ x.sid \in Sids \cup {NoSid}
         /\ x.seen \in SpecStatus
         /\ x.guidance \in SUBSET Turns /\ x.history \in SUBSET Turns
  BY DEF Req

LEMMA DevFields ==
  ASSUME NEW x \in Dev
  PROVE  /\ x.cost \in Nat /\ x.budget \in Nat /\ x.resumes \in Nat
         /\ x.guidance \in SUBSET Turns /\ x.seen \in SpecStatus
         /\ x.seenCode \in BOOLEAN
<1>1. CASE x = IdleDev
  BY <1>1 DEF IdleDev, SpecStatus
<1>2. CASE x \in BusyDev
  BY <1>2 DEF BusyDev
<1> QED BY <1>1, <1>2 DEF Dev

\* Only an idle device has no session.
LEMMA BusyType ==
  ASSUME TypeOK, NEW d \in Devices, dev[d].pc /= "idle"
  PROVE  dev[d] \in BusyDev /\ dev[d].sid \in Sids
  BY DEF TypeOK, Dev, IdleDev, BusyDev

\* A step that replaces one thread's record, or one device's, by a typed one
\* and leaves the tables typed keeps the types.
LEMMA ReqStepType ==
  ASSUME TypeOK, NEW r \in Requests, NEW x \in Req,
         req' = [req EXCEPT ![r] = x], dev' = dev,
         row' \in [Sids -> Row], spec' \in [Cases -> SpecRow]
  PROVE  TypeOK'
  BY DEF TypeOK, SpecRow

LEMMA DevStepType ==
  ASSUME TypeOK, NEW d \in Devices, NEW x \in Dev,
         dev' = [dev EXCEPT ![d] = x], req' = req,
         row' \in [Sids -> Row], spec' \in [Cases -> SpecRow]
  PROVE  TypeOK'
  BY DEF TypeOK, SpecRow

LEMMA RowUpdateType ==
  ASSUME TypeOK, NEW s, NEW x, s \in Sids => x \in Row
  PROVE  [row EXCEPT ![s] = x] \in [Sids -> Row]
  BY DEF TypeOK

LEMMA SpecUpdateType ==
  ASSUME TypeOK, NEW c, NEW x, c \in Cases => x \in SpecRow
  PROVE  [spec EXCEPT ![c] = x] \in [Cases -> SpecRow]
  BY DEF TypeOK, SpecRow

LEMMA Typed ==
  ASSUME TypeOK
  PROVE  /\ row \in [Sids -> Row] /\ spec \in [Cases -> SpecRow]
         /\ req \in [Requests -> Req] /\ dev \in [Devices -> Dev]
  BY DEF TypeOK, SpecRow

LEMMA TypeInit == Init => TypeOK
<1> SUFFICES ASSUME Init PROVE TypeOK
  OBVIOUS
<1>1. spec \in [Cases -> SpecRow]
  <2>1. {[status |-> "none", code |-> FALSE], [status |-> "draft", code |-> TRUE]}
          \subseteq SpecRow
    BY DEF SpecRow, SpecStatus
  <2> QED BY <2>1 DEF Init
<1>2. row \in [Sids -> Row] /\ req \in [Requests -> Req] /\ dev \in [Devices -> Dev]
  BY NoRowType, IdleReqType, IdleDevType DEF Init
<1> QED BY <1>1, <1>2 DEF TypeOK, SpecRow

LEMMA TypeEnqueueStart ==
  ASSUME TypeOK, NEW r \in Requests, NEW c \in Cases, NEW s \in Sids, EnqueueStart(r, c, s)
  PROVE  TypeOK'
<1>1. spec[c].status \in SpecStatus
  BY DEF TypeOK
<1>2. [IdleReq EXCEPT !.pc = "planning", !.case = c, !.sid = s, !.seen = spec[c].status] \in Req
  BY <1>1 DEF IdleReq, Req, ReqPC
<1> QED BY <1>2, ReqStepType, Typed DEF EnqueueStart

LEMMA TypeMarking ==
  ASSUME TypeOK, NEW r \in Requests, req[r].pc \in {"planning", "inserting"}
  PROVE  [req[r] EXCEPT !.pc = "marking", !.sid = NoSid] \in Req
<1>1. req[r] \in Req
  BY DEF TypeOK
<1> QED BY <1>1 DEF Req, ReqPC

LEMMA RequeuedType ==
  ASSUME NEW x \in Row, x.status /= "none"
  PROVE  Requeued(x) \in Row
  BY LiveType DEF Requeued, Row, LiveRow, RowStatus

LEMMA TypeRequestAuthoringExisting ==
  ASSUME TypeOK, NEW r \in Requests, RequestAuthoringExisting(r)
  PROVE  TypeOK'
<1>1. row' \in [Sids -> Row]
  BY RequeuedType, RowUpdateType, Typed DEF RequestAuthoringExisting, Live
<1> QED BY <1>1, TypeMarking, ReqStepType, Typed DEF RequestAuthoringExisting

LEMMA TypeRequestAuthoringNew ==
  ASSUME TypeOK, NEW r \in Requests, RequestAuthoringNew(r)
  PROVE  TypeOK'
<1>1. [req[r] EXCEPT !.pc = "inserting"] \in Req
  BY Typed DEF RequestAuthoringNew, Req, ReqPC
<1> QED BY <1>1, ReqStepType, Typed DEF RequestAuthoringNew

LEMMA TypeInsertSession ==
  ASSUME TypeOK, NEW r \in Requests, InsertSession(r)
  PROVE  TypeOK'
<1>1. req[r].case \in Cases
  BY Typed DEF InsertSession, Req
<1>2. [NoRow EXCEPT !.status = "queued", !.case = req[r].case, !.claimOld = TRUE] \in Row
  BY <1>1 DEF NoRow, Row, LiveRow, RowStatus
<1>3. row' \in [Sids -> Row]
  BY <1>2, RowUpdateType, Typed DEF InsertSession
<1> QED BY <1>3, TypeMarking, ReqStepType, Typed DEF InsertSession

LEMMA TypeMarkSpecRunning ==
  ASSUME TypeOK, NEW r \in Requests, MarkSpecRunning(r)
  PROVE  TypeOK'
<1>1. ASSUME NEW c \in Cases PROVE [spec[c] EXCEPT !.status = "running"] \in SpecRow
  BY Typed DEF SpecRow, SpecStatus
<1>2. spec' \in [Cases -> SpecRow]
  BY <1>1, SpecUpdateType, Typed DEF MarkSpecRunning
<1> QED BY <1>2, IdleReqType, ReqStepType, Typed DEF MarkSpecRunning

\* The thread's snapshot of the guidance columns, with one turn added.
LEMMA SnapshotType ==
  ASSUME TypeOK, NEW s \in Sids, NEW t \in Turns,
         NEW pc \in {"chatting", "banking"}
  PROVE  [IdleReq EXCEPT !.pc = pc, !.sid = s, !.guidance = row[s].guidance \cup {t},
                         !.history = row[s].history \cup {t}] \in Req
<1>1. /\ row[s].guidance \cup {t} \in SUBSET Turns
      /\ row[s].history \cup {t} \in SUBSET Turns
  BY Typed, RowFields
<1> QED BY <1>1 DEF IdleReq, Req, ReqPC, SpecStatus

LEMMA WriteGuidanceType ==
  ASSUME TypeOK, NEW r \in Requests
  PROVE  WriteGuidance(r) \in [Sids -> Row]
<1> DEFINE s == req[r].sid
           x == [row[s] EXCEPT !.guidance = req[r].guidance, !.history = req[r].history]
<1>1. s \in Sids /\ Live(s) => x \in Row
  <2> SUFFICES ASSUME s \in Sids, Live(s) PROVE x \in Row
    OBVIOUS
  <2>1. req[r].guidance \in SUBSET Turns /\ req[r].history \in SUBSET Turns
    BY Typed, ReqFields
  <2>2. row[s] \in LiveRow
    BY Typed, LiveType DEF Live
  <2> HIDE DEF s
  <2> QED BY <2>1, <2>2 DEF Row, LiveRow
<1>2. Live(s) => [row EXCEPT ![s] = x] \in [Sids -> Row]
  BY <1>1, RowUpdateType
<1> QED BY <1>2, Typed DEF WriteGuidance

LEMMA TypeGuidance ==
  ASSUME TypeOK, NEW r \in Requests,
         \/ \E s \in Sids, t \in Turns : AddGuidanceRead(r, s, t)
         \/ AddGuidanceWrite(r)
         \/ \E s \in Sids, t \in Turns : ContinueWithGuidance(r, s, t)
         \/ BankGuidance(r)
  PROVE  TypeOK'
<1> USE Typed, ReqStepType
<1>1. CASE \E s \in Sids, t \in Turns : AddGuidanceRead(r, s, t)
  BY <1>1, SnapshotType DEF AddGuidanceRead
<1>2. CASE AddGuidanceWrite(r)
  BY <1>2, WriteGuidanceType, IdleReqType DEF AddGuidanceWrite
<1>3. CASE \E s \in Sids, t \in Turns : ContinueWithGuidance(r, s, t)
  BY <1>3, SnapshotType DEF ContinueWithGuidance
<1>4. CASE BankGuidance(r)
  <2>1. [IdleReq EXCEPT !.pc = "flipping", !.sid = req[r].sid] \in Req
    BY ReqFields DEF IdleReq, Req, ReqPC, SpecStatus
  <2> QED BY <1>4, <2>1, WriteGuidanceType, IdleReqType DEF BankGuidance
<1> QED BY <1>1, <1>2, <1>3, <1>4

LEMMA TypeContinue ==
  ASSUME TypeOK, NEW r \in Requests,
         (\E s \in Sids : ContinueSilently(r, s)) \/ FlipResuming(r)
  PROVE  TypeOK'
<1> USE Typed, ReqStepType
<1>1. CASE \E s \in Sids : ContinueSilently(r, s)
  <2>1. PICK s \in Sids : ContinueSilently(r, s)
    BY <1>1
  <2>2. [IdleReq EXCEPT !.pc = "flipping", !.sid = s] \in Req
    BY DEF IdleReq, Req, ReqPC, SpecStatus
  <2> QED BY <2>1, <2>2 DEF ContinueSilently
<1>2. CASE FlipResuming(r)
  <2>1. ASSUME NEW s \in Sids, row[s].status = "paused"
        PROVE  [row[s] EXCEPT !.status = "resuming", !.takers = {}] \in Row
    <3>1. row[s] \in LiveRow
      BY <2>1, LiveType
    <3> QED BY <3>1 DEF Row, LiveRow, RowStatus, OnDevice
  <2>2. row' \in [Sids -> Row]
    BY <1>2, <2>1, RowUpdateType DEF FlipResuming
  <2> QED BY <1>2, <2>2, IdleReqType DEF FlipResuming
<1> QED BY <1>1, <1>2

LEMMA ResetType == ASSUME NEW x \in SpecRow PROVE Reset(x) \in SpecRow
  BY DEF Reset, SpecRow, SpecStatus

LEMMA TypeCancelStop ==
  ASSUME TypeOK, NEW r \in Requests,
         \/ \E c \in Cases : CancelDelete(r, c)
         \/ CancelMarkSpec(r) \/ StopReset(r) \/ StopPurge(r)
  PROVE  TypeOK'
<1> USE Typed, ReqStepType, IdleReqType
<1>1. CASE \E c \in Cases : CancelDelete(r, c)
  <2>1. PICK c \in Cases : CancelDelete(r, c)
    BY <1>1
  <2>2. [IdleReq EXCEPT !.pc = "cancelling", !.case = c] \in Req
    BY DEF IdleReq, Req, ReqPC, SpecStatus
  <2>3. row' \in [Sids -> Row]
    BY <2>1, NoRowType, RowUpdateType DEF CancelDelete
  <2> QED BY <2>1, <2>2, <2>3 DEF CancelDelete
<1>2. CASE CancelMarkSpec(r)
  <2>1. ASSUME NEW c \in Cases PROVE [spec[c] EXCEPT !.status = "failed"] \in SpecRow
    BY DEF SpecRow, SpecStatus
  <2>2. spec' \in [Cases -> SpecRow]
    BY <1>2, <2>1, SpecUpdateType DEF CancelMarkSpec
  <2> QED BY <1>2, <2>2 DEF CancelMarkSpec
<1>3. CASE StopReset(r)
  <2>1. [IdleReq EXCEPT !.pc = "purging"] \in Req
    BY DEF IdleReq, Req, ReqPC, SpecStatus
  <2> QED BY <1>3, <2>1, ResetType DEF StopReset
<1>4. CASE StopPurge(r)
  BY <1>4, NoRowType DEF StopPurge
<1> QED BY <1>1, <1>2, <1>3, <1>4

LEMMA TypeRequestStep ==
  ASSUME TypeOK, NEW r \in Requests, RequestStep(r)
  PROVE  TypeOK'
  BY TypeEnqueueStart, TypeRequestAuthoringExisting, TypeRequestAuthoringNew,
     TypeInsertSession, TypeMarkSpecRunning, TypeGuidance, TypeContinue, TypeCancelStop
  DEF RequestStep

LEMMA TypeClaim ==
  ASSUME TypeOK, NEW d \in Devices, (\E s \in Sids : ClaimSelect(d, s)) \/ ClaimFlip(d)
  PROVE  TypeOK'
<1> USE Typed, DevStepType, IdleDevType
<1>1. CASE \E s \in Sids : ClaimSelect(d, s)
  <2>1. PICK s \in Sids : ClaimSelect(d, s)
    BY <1>1
  <2>2. [IdleDev EXCEPT !.pc = "selected", !.sid = s] \in Dev
    BY DEF IdleDev, Dev, BusyDev, DevPC, SpecStatus
  <2> QED BY <2>1, <2>2 DEF ClaimSelect
<1>2. CASE ClaimFlip(d)
  <2>1. ASSUME NEW x \in Row, x.status = "queued" PROVE Claimed(x, d) \in Row
    BY <2>1, LiveType DEF Claimed, Row, LiveRow, RowStatus, OnDevice
  <2>2. row' \in [Sids -> Row]
    BY <1>2, <2>1, RowUpdateType DEF ClaimFlip
  <2>3. [dev[d] EXCEPT !.pc = "authoring", !.budget = Ceiling] \in Dev
    BY <1>2, BusyType, BoundsAssumption DEF ClaimFlip, Dev, BusyDev, DevPC
  <2> QED BY <1>2, <2>2, <2>3 DEF ClaimFlip
<1> QED BY <1>1, <1>2

\* A busy device that only moves on keeps its type.
LEMMA MoveType ==
  ASSUME TypeOK, NEW d \in Devices, dev[d].pc /= "idle", NEW pc \in DevPC
  PROVE  [dev[d] EXCEPT !.pc = pc] \in Dev
  BY BusyType DEF Dev, BusyDev

LEMMA TypePause ==
  ASSUME TypeOK, NEW d \in Devices, PauseHeard(d) \/ ReportPaused(d)
  PROVE  TypeOK'
<1> USE Typed, DevStepType
<1>1. CASE PauseHeard(d)
  <2>1. PICK spent \in 0..dev[d].budget :
          dev' = [dev EXCEPT ![d] = [@ EXCEPT !.pc = "parking", !.cost = dev[d].cost + spent]]
    BY <1>1 DEF PauseHeard
  <2>2. dev[d].cost + spent \in Nat
    BY DevFields
  <2>3. [dev[d] EXCEPT !.pc = "parking", !.cost = dev[d].cost + spent] \in Dev
    BY <1>1, <2>2, BusyType DEF PauseHeard, Dev, BusyDev, DevPC
  <2> QED BY <1>1, <2>1, <2>3 DEF PauseHeard
<1>2. CASE ReportPaused(d)
  <2>1. ASSUME NEW x \in Row, x.status /= "none", NEW cost \in Nat
        PROVE  Paused(x, cost) \in Row
    BY <2>1, LiveType DEF Paused, Row, LiveRow, RowStatus, OnDevice
  <2>2. row' \in [Sids -> Row]
    BY <1>2, <2>1, RowUpdateType, DevFields DEF ReportPaused, Live
  <2>3. [dev[d] EXCEPT !.pc = "parked"] \in Dev
    BY <1>2, MoveType DEF ReportPaused, DevPC
  <2> QED BY <1>2, <2>2, <2>3 DEF ReportPaused
<1> QED BY <1>1, <1>2

LEMMA WaitingType ==
  ASSUME NEW x \in BusyDev
  PROVE  Waiting(x) \in BusyDev
  BY DEF Waiting, BusyDev, DevPC

LEMMA TypePoll ==
  ASSUME TypeOK, NEW d \in Devices, PollAbort(d) \/ PollRead(d) \/ PollFlip(d)
  PROVE  TypeOK'
<1> USE Typed, DevStepType
<1>1. CASE PollAbort(d)
  BY <1>1, MoveType DEF PollAbort, DevPC
<1>2. CASE PollRead(d)
  <2> DEFINE x == row[dev[d].sid]
  <2>1. dev[d] \in BusyDev /\ dev[d].sid \in Sids
    BY <1>2, BusyType DEF PollRead
  <2>2. x \in Row
    BY <2>1
  <2>3. x.cost < Ceiling
    BY <1>2 DEF PollRead, Resumable
  <2>4. x.guidance \in SUBSET Turns /\ x.resumes \in Nat /\ Ceiling - x.cost \in Nat
    BY <2>2, <2>3, RowFields, BoundsAssumption
  <2> HIDE DEF x
  <2>5. [dev[d] EXCEPT !.pc = "polled", !.guidance = x.guidance, !.resumes = x.resumes,
                       !.budget = Ceiling - x.cost] \in Dev
    BY <2>1, <2>4 DEF Dev, BusyDev, DevPC
  <2> QED BY <1>2, <2>5 DEF PollRead, x
<1>3. CASE PollFlip(d)
  <2>1. ASSUME NEW x \in Row, x.status = "resuming" PROVE Resumed(x, d) \in Row
    <3>1. dev[d].resumes + 1 \in Nat /\ dev[d].guidance \in SUBSET Turns
      BY DevFields
    <3> QED BY <2>1, <3>1, LiveType DEF Resumed, Row, LiveRow, RowStatus, OnDevice
  <2>2. row' \in [Sids -> Row]
    BY <1>3, <2>1, RowUpdateType DEF PollFlip
  <2>3. dev[d] \in BusyDev
    BY <1>3, BusyType DEF PollFlip
  <2>4. [dev[d] EXCEPT !.pc = "authoring", !.guidance = {}, !.resumes = 0] \in Dev
    BY <2>3 DEF Dev, BusyDev, DevPC
  <2>5. Waiting(dev[d]) \in Dev
    BY <2>3, WaitingType DEF Dev
  <2> QED BY <1>3, <2>2, <2>4, <2>5 DEF PollFlip
<1> QED BY <1>1, <1>2, <1>3

LEMMA TypeFinalize ==
  ASSUME TypeOK, NEW d \in Devices,
         FinalizeBegin(d) \/ FinalizePersist(d) \/ FinalizeDrop(d)
  PROVE  TypeOK'
<1> USE Typed, DevStepType, IdleDevType
<1>1. CASE FinalizeBegin(d)
  <2> DEFINE s == dev[d].sid
             c == row[s].case
             x == [IdleDev EXCEPT !.pc = "gating", !.sid = s, !.case = c,
                                  !.seen = spec[c].status, !.seenCode = spec[c].code]
  <2>1. s \in Sids
    BY <1>1, BusyType DEF FinalizeBegin
  <2>2. CASE Live(s)
    <3>1. c \in Cases
      BY <2>1, <2>2, LiveType DEF Live
    <3>2. spec[c].status \in SpecStatus /\ spec[c].code \in BOOLEAN
      BY <3>1 DEF SpecRow
    <3>3. x \in Dev
      <4> HIDE DEF s, c
      <4> QED BY <2>1, <3>1, <3>2 DEF Dev, BusyDev, IdleDev, DevPC
    <3> QED BY <1>1, <2>2, <3>3 DEF FinalizeBegin
  <2>3. CASE ~Live(s)
    BY <1>1, <2>3 DEF FinalizeBegin
  <2> QED BY <2>2, <2>3
<1>2. CASE FinalizePersist(d)
  <2>1. ASSUME NEW x \in SpecRow, NEW seen, NEW seenCode, NEW code \in BOOLEAN, NEW outcome
        PROVE  Finalized(x, seen, seenCode, code, outcome) \in SpecRow
    BY DEF Finalized, SpecRow, SpecStatus
  <2>2. spec' \in [Cases -> SpecRow]
    BY <1>2, <2>1, SpecUpdateType DEF FinalizePersist
  <2>3. [IdleDev EXCEPT !.pc = "dropping", !.sid = dev[d].sid] \in Dev
    BY <1>2, BusyType DEF FinalizePersist, Dev, BusyDev, IdleDev, DevPC, SpecStatus
  <2> QED BY <1>2, <2>2, <2>3 DEF FinalizePersist
<1>3. CASE FinalizeDrop(d)
  <2>1. row' \in [Sids -> Row]
    BY <1>3, NoRowType, RowUpdateType DEF FinalizeDrop
  <2> QED BY <1>3, <2>1 DEF FinalizeDrop
<1> QED BY <1>1, <1>2, <1>3

LEMMA TypeDeviceStep ==
  ASSUME TypeOK, NEW d \in Devices, DeviceStep(d)
  PROVE  TypeOK'
<1> USE Typed, DevStepType, IdleDevType
<1>1. CASE GiveUp(d) \/ AuthoringDone(d)
  BY <1>1, MoveType DEF GiveUp, AuthoringDone, DevPC
<1>2. CASE FinalizeLost(d) \/ DeviceCrash(d)
  BY <1>2 DEF FinalizeLost, DeviceCrash
<1> QED BY <1>1, <1>2, TypeClaim, TypePause, TypePoll, TypeFinalize DEF DeviceStep

\* Pausing, the passing of time and eviction change rows only; a restart drops
\* rows, resets specs and idles threads and devices.
LEMMA TypeOtherStep ==
  ASSUME TypeOK,
         \/ \E s \in Sids : RequestPause(s) \/ AgeClaim(s) \/ AgePause(s)
         \/ DropQueuedCases \/ Restart
  PROVE  TypeOK'
<1> USE Typed
<1>1. CASE \E s \in Sids : RequestPause(s) \/ AgeClaim(s) \/ AgePause(s)
  <2>1. PICK s \in Sids : RequestPause(s) \/ AgeClaim(s) \/ AgePause(s)
    BY <1>1
  <2>2. row[s] \in LiveRow
    BY <2>1, LiveType DEF RequestPause, AgeClaim, AgePause, OnDevice
  <2>3. /\ [row[s] EXCEPT !.pauseReq = TRUE] \in Row
        /\ [row[s] EXCEPT !.claimOld = TRUE] \in Row
        /\ [row[s] EXCEPT !.pauseOld = TRUE] \in Row
    BY <2>2 DEF Row, LiveRow
  <2>4. row' \in [Sids -> Row]
    BY <2>1, <2>3, RowUpdateType DEF RequestPause, AgeClaim, AgePause
  <2> QED BY <2>1, <2>4 DEF RequestPause, AgeClaim, AgePause, TypeOK, SpecRow
<1>2. CASE DropQueuedCases
  BY <1>2, NoRowType DEF DropQueuedCases, TypeOK, SpecRow
<1>3. CASE Restart
  <2>1. row' \in [Sids -> Row] /\ spec' \in [Cases -> SpecRow]
    BY <1>3, NoRowType, ResetType DEF Restart, BootSweep
  <2>2. ASSUME NEW d \in Devices, dev[d].pc = "polled" PROVE Waiting(dev[d]) \in Dev
    BY <2>2, BusyType, WaitingType DEF Dev
  <2>3. dev' \in [Devices -> Dev]
    BY <1>3, <2>2, IdleDevType DEF Restart
  <2> QED BY <1>3, <2>1, <2>3, IdleReqType DEF Restart, TypeOK, SpecRow
<1> QED BY <1>1, <1>2, <1>3

LEMMA TypeStep == TypeOK /\ [Next]_vars => TypeOK'
<1> SUFFICES ASSUME TypeOK, [Next]_vars PROVE TypeOK'
  OBVIOUS
<1>1. CASE UNCHANGED vars
  BY <1>1 DEF vars, TypeOK
<1>2. CASE Next
  BY <1>2, TypeRequestStep, TypeDeviceStep, TypeOtherStep DEF Next
<1> QED BY <1>1, <1>2

\* Every reachable state of the queue, the specs, the threads and the devices
\* is well typed.
THEOREM Typing == Spec => []TypeOK
  BY TypeInit, TypeStep, PTL DEF Spec

-----------------------------------------------------------------------------
(* What a step does to one row: the theorems below look at rows only     *)
(* through this operator.                                                *)

NewRow(c) == [NoRow EXCEPT !.status = "queued", !.case = c, !.claimOld = TRUE]

\* The updates that touch one flag, or the guidance columns.
SmallUpdate(x, y) ==
  \/ y = [x EXCEPT !.pauseReq = TRUE]
  \/ y = [x EXCEPT !.claimOld = TRUE]
  \/ y = [x EXCEPT !.pauseOld = TRUE]
  \/ \E g, h \in SUBSET Turns : y = [x EXCEPT !.guidance = g, !.history = h]

Offered(x) == [x EXCEPT !.status = "resuming", !.takers = {}]

RowStep(s) ==
  \/ row'[s] = row[s]
  \/ row'[s] = NoRow
  \/ \E r \in Requests : /\ InsertSession(r) /\ req[r].pc = "inserting"
                         /\ req[r].sid = s /\ row'[s] = NewRow(req[r].case)
  \/ Live(s) /\ SmallUpdate(row[s], row'[s])
  \/ Live(s) /\ ~LeftAlone(row[s]) /\ row'[s] = Requeued(row[s])
  \/ Live(s) /\ row[s].status = "paused" /\ row'[s] = Offered(row[s])
  \/ \E d \in Devices : /\ Live(s) /\ row[s].status = "queued"
                        /\ row'[s] = Claimed(row[s], d)
  \/ \E d \in Devices : /\ ReportPaused(d) /\ Live(s)
                        /\ dev[d].pc = "parking" /\ dev[d].sid = s
                        /\ row'[s] = Paused(row[s], dev[d].cost)
  \/ \E d \in Devices : /\ Live(s) /\ row[s].status = "resuming" /\ dev[d].pc = "polled"
                        /\ row'[s] = Resumed(row[s], d)

LEMMA RowStepOfRequest ==
  ASSUME TypeOK, NEW r \in Requests, RequestStep(r), NEW s \in Sids
  PROVE  RowStep(s)
<1> USE Typed DEF RowStep, SmallUpdate, Live
<1>1. CASE RequestAuthoringExisting(r)
  BY <1>1 DEF RequestAuthoringExisting
<1>2. CASE InsertSession(r)
  BY <1>2 DEF InsertSession, NewRow
<1>3. CASE AddGuidanceWrite(r) \/ BankGuidance(r)
  <2>1. req[r].guidance \in SUBSET Turns /\ req[r].history \in SUBSET Turns
    BY ReqFields
  <2>2. row' = WriteGuidance(r)
    BY <1>3 DEF AddGuidanceWrite, BankGuidance
  <2> QED BY <2>1, <2>2 DEF WriteGuidance
<1>4. CASE FlipResuming(r)
  BY <1>4 DEF FlipResuming, Offered
<1>5. CASE \E c \in Cases : CancelDelete(r, c)
  BY <1>5 DEF CancelDelete
<1>6. CASE StopPurge(r)
  BY <1>6 DEF StopPurge
<1>7. CASE UNCHANGED row
  BY <1>7
<1> QED
  BY <1>1, <1>2, <1>3, <1>4, <1>5, <1>6, <1>7
  DEF RequestStep, EnqueueStart, RequestAuthoringNew, MarkSpecRunning, AddGuidanceRead,
      ContinueSilently, ContinueWithGuidance, CancelMarkSpec, StopReset

LEMMA RowStepOfDevice ==
  ASSUME TypeOK, NEW d \in Devices, DeviceStep(d), NEW s \in Sids
  PROVE  RowStep(s)
<1> USE Typed DEF RowStep, SmallUpdate, Live
<1>1. CASE ClaimFlip(d)
  BY <1>1 DEF ClaimFlip
<1>2. CASE ReportPaused(d)
  BY <1>2 DEF ReportPaused
<1>3. CASE PollFlip(d)
  BY <1>3 DEF PollFlip
<1>4. CASE FinalizeDrop(d)
  BY <1>4 DEF FinalizeDrop
<1>5. CASE UNCHANGED row
  BY <1>5
<1> QED
  BY <1>1, <1>2, <1>3, <1>4, <1>5
  DEF DeviceStep, ClaimSelect, PauseHeard, PollAbort, PollRead, GiveUp, AuthoringDone,
      FinalizeBegin, FinalizePersist, FinalizeLost, DeviceCrash

LEMMA RowStepOfNext ==
  ASSUME TypeOK, [Next]_vars, NEW s \in Sids
  PROVE  RowStep(s)
<1>1. CASE \E t \in Sids : RequestPause(t) \/ AgeClaim(t) \/ AgePause(t)
  BY <1>1, Typed DEF RowStep, SmallUpdate, RequestPause, AgeClaim, AgePause, Live, OnDevice
<1>2. CASE DropQueuedCases \/ Restart
  BY <1>2 DEF RowStep, DropQueuedCases, Restart, BootSweep
<1>3. CASE UNCHANGED vars
  BY <1>3 DEF RowStep, vars
<1> QED BY <1>1, <1>2, <1>3, RowStepOfRequest, RowStepOfDevice DEF Next

-----------------------------------------------------------------------------
(* The fields of a row or of a device after each kind of update.         *)

LEMMA RequeuedFields ==
  ASSUME NEW x \in LiveRow
  PROVE  Requeued(x).case = x.case /\ Requeued(x).resumes = 0 /\ Requeued(x).takers = {}
  BY DEF LiveRow, Requeued

LEMMA ClaimedFields ==
  ASSUME NEW x \in LiveRow, NEW d
  PROVE  /\ Claimed(x, d).case = x.case /\ Claimed(x, d).resumes = 0
         /\ Claimed(x, d).takers = x.takers \cup {d} /\ Claimed(x, d).status = "running"
  BY DEF LiveRow, Claimed

LEMMA PausedFields ==
  ASSUME NEW x \in LiveRow, NEW c
  PROVE  /\ Paused(x, c).case = x.case /\ Paused(x, c).resumes = x.resumes
         /\ Paused(x, c).takers = x.takers /\ Paused(x, c).status = "paused"
  BY DEF LiveRow, Paused

LEMMA ResumedFields ==
  ASSUME NEW x \in LiveRow, NEW d
  PROVE  /\ Resumed(x, d).case = x.case /\ Resumed(x, d).resumes = dev[d].resumes + 1
         /\ Resumed(x, d).takers = x.takers \cup {d} /\ Resumed(x, d).status = "running"
  BY DEF LiveRow, Resumed

LEMMA NewRowFields ==
  ASSUME NEW c
  PROVE  NewRow(c).case = c /\ NewRow(c).resumes = 0 /\ NewRow(c).takers = {}
  BY DEF NewRow, NoRow

LEMMA OfferedFields ==
  ASSUME NEW x \in LiveRow
  PROVE  /\ Offered(x).case = x.case /\ Offered(x).resumes = x.resumes
         /\ Offered(x).takers = {} /\ Offered(x).status = "resuming"
  BY DEF LiveRow, Offered

LEMMA SmallUpdateFields ==
  ASSUME NEW x \in LiveRow, NEW y, SmallUpdate(x, y)
  PROVE  y.case = x.case /\ y.resumes = x.resumes /\ y.takers = x.takers
         /\ y.status = x.status
  BY DEF SmallUpdate, LiveRow

LEMMA DevUpdateFields ==
  ASSUME NEW x \in BusyDev
  PROVE  /\ Waiting(x).pc = "parked"
         /\ \A p : [x EXCEPT !.pc = p].pc = p
         /\ \A p, b : [x EXCEPT !.pc = p, !.budget = b].pc = p
         /\ \A p, n : [x EXCEPT !.pc = p, !.cost = n].pc = p
         /\ \A p, g, n : [x EXCEPT !.pc = p, !.guidance = g, !.resumes = n].pc = p
         /\ \A p, g, n, b :
              [x EXCEPT !.pc = p, !.guidance = g, !.resumes = n, !.budget = b].resumes = n
  BY DEF BusyDev, Waiting

LEMMA IdleDevPC ==
  /\ IdleDev.pc = "idle"
  /\ \A p, s : [IdleDev EXCEPT !.pc = p, !.sid = s].pc = p
  /\ \A p, s, c, t, b :
       [IdleDev EXCEPT !.pc = p, !.sid = s, !.case = c, !.seen = t, !.seenCode = b].pc = p
  BY DEF IdleDev

-----------------------------------------------------------------------------
(* One session per case. A row appears only when the UNIQUE index finds no *)
(* other row of its case, and no step gives a row another case.            *)

\* Only an insertion makes a row live, and no other step gives it another case.
LEMMA RowsKeepCases ==
  ASSUME TypeOK, [Next]_vars, ~\E r \in Requests : InsertSession(r),
         NEW s \in Sids, Live(s)'
  PROVE  Live(s) /\ row'[s].case = row[s].case
<1>1. RowStep(s)
  BY RowStepOfNext
<1>2. Live(s) => row[s] \in LiveRow
  BY LiveType DEF TypeOK, Live
<1>3. CASE row'[s] = row[s]
  BY <1>3 DEF Live
<1>4. CASE row'[s] = NoRow
  BY <1>4 DEF Live, NoRow
<1>5. CASE Live(s) /\ SmallUpdate(row[s], row'[s])
  BY <1>2, <1>5, SmallUpdateFields
<1> QED
  BY <1>1, <1>2, <1>3, <1>4, <1>5,
     RequeuedFields, OfferedFields, ClaimedFields, PausedFields, ResumedFields
  DEF RowStep

\* An insertion adds one row, of a case that has none.
LEMMA InsertionAddsOne ==
  ASSUME TypeOK, NEW r \in Requests, InsertSession(r), NEW s \in Sids
  PROVE  \/ row'[s] = row[s]
         \/ s = req[r].sid /\ ~HasRow(req[r].case) /\ row'[s].case = req[r].case
<1>1. row \in [Sids -> Row]
  BY DEF TypeOK
<1> QED BY <1>1 DEF InsertSession, NoRow

\* A case has at most one session, in every reachable state.
THEOREM OneSessionPerCase == Spec => []OneRowPerCase
<1>1. Init => OneRowPerCase
  BY DEF Init, OneRowPerCase, Live, NoRow
<1>2. ASSUME TypeOK, OneRowPerCase, [Next]_vars PROVE OneRowPerCase'
  <2>1. CASE \E r \in Requests : InsertSession(r)
    <3>1. PICK r \in Requests : InsertSession(r)
      BY <2>1
    <3> QED BY <1>2, <3>1, InsertionAddsOne DEF OneRowPerCase, HasRow, Live
  <2>2. CASE ~\E r \in Requests : InsertSession(r)
    BY <1>2, <2>2, RowsKeepCases DEF OneRowPerCase
  <2> QED BY <2>1, <2>2
<1> QED BY <1>1, <1>2, Typing, PTL DEF Spec

-----------------------------------------------------------------------------
(* The resume cap. The counter that PollFlip writes was read by PollRead, *)
(* so the snapshot has to stay below the cap too.                         *)

SnapshotBelowCap == \A d \in Devices : dev[d].pc = "polled" => dev[d].resumes < MaxResumes

\* Only a poll that found the session resumable takes a snapshot.
LEMMA SnapshotStep ==
  ASSUME TypeOK, [Next]_vars, NEW d \in Devices, dev'[d].pc = "polled"
  PROVE  dev'[d] = dev[d] \/ dev'[d].resumes < MaxResumes
<1> USE DEF TypeOK
<1>1. CASE \E r \in Requests : RequestStep(r)
  BY <1>1 DEF RequestStep, EnqueueStart, RequestAuthoringExisting, RequestAuthoringNew,
      InsertSession, MarkSpecRunning, AddGuidanceRead, AddGuidanceWrite, ContinueSilently,
      ContinueWithGuidance, BankGuidance, FlipResuming, CancelDelete, CancelMarkSpec,
      StopReset, StopPurge
<1>2. CASE \E e \in Devices : DeviceStep(e)
  <2>1. PICK e \in Devices : DeviceStep(e)
    BY <1>2
  <2>2. dev[e].pc /= "idle" => dev[e] \in BusyDev
    BY BusyType
  <2>3. CASE PollRead(e)
    BY <2>2, <2>3, DevUpdateFields DEF PollRead, Resumable
  <2>4. CASE FinalizeBegin(e)
    BY <2>4, IdleDevPC DEF FinalizeBegin
  <2>5. CASE FinalizePersist(e)
    BY <2>5, IdleDevPC DEF FinalizePersist
  <2>6. CASE FinalizeDrop(e) \/ FinalizeLost(e) \/ DeviceCrash(e)
    BY <2>6, IdleDevPC DEF FinalizeDrop, FinalizeLost, DeviceCrash
  <2>7. CASE PauseHeard(e)
    BY <2>2, <2>7, DevUpdateFields DEF PauseHeard
  <2>8. CASE ReportPaused(e)
    BY <2>2, <2>8, DevUpdateFields DEF ReportPaused
  <2>9. CASE PollFlip(e)
    <3> DEFINE y == [dev[e] EXCEPT !.pc = "authoring", !.guidance = {}, !.resumes = 0]
               z == Waiting(dev[e])
    <3>1. dev' = [dev EXCEPT ![e] = y] \/ dev' = [dev EXCEPT ![e] = z]
      BY <2>9 DEF PollFlip
    <3>2. y.pc = "authoring" /\ z.pc = "parked"
      BY <2>2, <2>9, DevUpdateFields DEF PollFlip
    <3> HIDE DEF y, z
    <3> QED BY <3>1, <3>2
  <2>10. CASE PollAbort(e) \/ GiveUp(e) \/ AuthoringDone(e)
    <3> DEFINE y == [dev[e] EXCEPT !.pc = "finishing"]
    <3>1. dev' = [dev EXCEPT ![e] = y]
      BY <2>10 DEF PollAbort, GiveUp, AuthoringDone
    <3>2. y.pc = "finishing"
      BY <2>2, <2>10, DevUpdateFields DEF PollAbort, GiveUp, AuthoringDone
    <3> HIDE DEF y
    <3> QED BY <3>1, <3>2
  <2>11. CASE \E s \in Sids : ClaimSelect(e, s)
    BY <2>11, IdleDevPC DEF ClaimSelect
  <2>12. CASE ClaimFlip(e)
    <3> DEFINE y == [dev[e] EXCEPT !.pc = "authoring", !.budget = Ceiling]
    <3>1. dev' = [dev EXCEPT ![e] = y] \/ dev' = [dev EXCEPT ![e] = IdleDev]
      BY <2>12 DEF ClaimFlip
    <3>2. y.pc = "authoring"
      BY <2>2, <2>12, DevUpdateFields DEF ClaimFlip
    <3> HIDE DEF y
    <3> QED BY <3>1, <3>2, IdleDevPC
  <2> QED BY <2>1, <2>3, <2>4, <2>5, <2>6, <2>7, <2>8, <2>9, <2>10, <2>11, <2>12
          DEF DeviceStep
<1>3. CASE Restart
  <2>1. dev[d].pc = "polled" => Waiting(dev[d]).pc = "parked"
    BY BusyType, DevUpdateFields
  <2> QED BY <1>3, <2>1, IdleDevPC DEF Restart
<1>4. CASE UNCHANGED dev
  BY <1>4
<1> QED BY <1>1, <1>2, <1>3, <1>4
        DEF Next, vars, RequestPause, AgeClaim, AgePause, DropQueuedCases

\* No session is ever resumed more than MaxResumes times within one claim.
THEOREM ResumesCapped == Spec => []ResumeCap
<1> DEFINE IInv == ResumeCap /\ SnapshotBelowCap
<1>1. Init => IInv
  BY BoundsAssumption DEF Init, ResumeCap, SnapshotBelowCap, NoRow, IdleDev
<1>2. ASSUME TypeOK, IInv, [Next]_vars PROVE IInv'
  <2>1. ASSUME NEW s \in Sids PROVE row'[s].resumes <= MaxResumes
    <3>1. RowStep(s)
      BY <1>2, RowStepOfNext
    <3>2. Live(s) => row[s] \in LiveRow
      BY <1>2, LiveType DEF TypeOK, Live
    <3>3. row[s].resumes <= MaxResumes
      BY <1>2 DEF ResumeCap
    <3>4. ASSUME NEW d \in Devices, dev[d].pc = "polled"
          PROVE  dev[d].resumes + 1 <= MaxResumes
      <4>1. dev[d].resumes \in Nat
        BY DevFields, <1>2 DEF TypeOK
      <4> QED BY <1>2, <3>4, <4>1, BoundsAssumption DEF SnapshotBelowCap
    <3>5. CASE Live(s) /\ SmallUpdate(row[s], row'[s])
      BY <3>2, <3>3, <3>5, SmallUpdateFields
    <3>6. NoRow.resumes = 0 /\ 0 <= MaxResumes
      BY BoundsAssumption DEF NoRow
    <3> QED
      BY <3>1, <3>2, <3>3, <3>4, <3>5, <3>6, RequeuedFields, OfferedFields,
         ClaimedFields, PausedFields, ResumedFields, NewRowFields
      DEF RowStep
  <2>2. SnapshotBelowCap'
    BY <1>2, SnapshotStep DEF SnapshotBelowCap
  <2> QED BY <2>1, <2>2 DEF ResumeCap
<1> QED BY <1>1, <1>2, Typing, PTL DEF Spec

-----------------------------------------------------------------------------
(* An offer is taken once. Only a conditional UPDATE hands a session to a   *)
(* device, and it moves the row out of the statuses in which it is offered. *)

OfferedUntaken == \A s \in Sids : row[s].status \in {"queued", "resuming"} => row[s].takers = {}

LEMMA TakersStep ==
  ASSUME TypeOK, OfferedUntaken, [Next]_vars, NEW s \in Sids
  PROVE  /\ \/ row'[s].takers = row[s].takers \/ row'[s].takers = {}
            \/ \E d \in Devices : row'[s].takers = {d}
         /\ row'[s].status \in {"queued", "resuming"} => row'[s].takers = {}
<1>1. RowStep(s)
  BY RowStepOfNext
<1>2. Live(s) => row[s] \in LiveRow
  BY LiveType DEF TypeOK, Live
<1>3. CASE row'[s] = row[s]
  BY <1>3 DEF OfferedUntaken
<1>4. CASE Live(s) /\ SmallUpdate(row[s], row'[s])
  BY <1>2, <1>4, SmallUpdateFields DEF OfferedUntaken
<1>5. CASE \E d \in Devices : \/ Live(s) /\ row[s].status = "queued"
                                 /\ row'[s] = Claimed(row[s], d)
                              \/ Live(s) /\ row[s].status = "resuming"
                                 /\ row'[s] = Resumed(row[s], d)
  <2>1. PICK d \in Devices : row'[s].takers = row[s].takers \cup {d}
    BY <1>2, <1>5, ClaimedFields, ResumedFields
  <2>2. row[s].takers = {} /\ row'[s].status = "running"
    BY <1>2, <1>5, ClaimedFields, ResumedFields DEF OfferedUntaken
  <2> QED BY <2>1, <2>2
<1>6. NoRow.takers = {} /\ NoRow.status = "none"
  BY DEF NoRow
<1> QED
  BY <1>1, <1>2, <1>3, <1>4, <1>5, <1>6,
     RequeuedFields, OfferedFields, PausedFields, NewRowFields
  DEF RowStep

\* A session that was offered is given to one device only, in every reachable
\* state and however many devices poll.
THEOREM SessionTakenOnce == Spec => []TakenOnce
<1> DEFINE Small == \A s \in Sids : row[s].takers = {} \/ \E d \in Devices : row[s].takers = {d}
           IInv == OfferedUntaken /\ Small
<1>1. Init => IInv
  BY DEF Init, OfferedUntaken, NoRow
<1>2. TypeOK /\ IInv /\ [Next]_vars => IInv'
  <2> SUFFICES ASSUME TypeOK, OfferedUntaken, Small, [Next]_vars
               PROVE  OfferedUntaken' /\ Small'
    OBVIOUS
  <2> QED BY TakersStep DEF OfferedUntaken
<1>3. IInv => TakenOnce
  <2>1. Cardinality({}) = 0 /\ \A d \in Devices : Cardinality({d}) = 1
    BY FS_EmptySet, FS_Singleton
  <2> SUFFICES ASSUME Small, NEW s \in Sids PROVE Cardinality(row[s].takers) <= 1
    BY DEF TakenOnce
  <2>2. Cardinality(row[s].takers) \in {0, 1}
    BY <2>1
  <2> QED BY <2>2
<1> QED BY <1>1, <1>2, <1>3, Typing, PTL DEF Spec

-----------------------------------------------------------------------------
(* A pause that may still be continued. The queue takes a row back only     *)
(* past LeftAlone; what has to be shown is that an insertion, which writes  *)
(* the row of the id its thread drew, does not write over a session.        *)

Enqueueing == {"planning", "inserting"}

\* The ids threads hold to insert are nobody else's: no row is there yet, and
\* no two threads hold one id.
DrawnFresh ==
  \A r \in Requests : req[r].pc \in Enqueueing =>
    /\ req[r].sid \in Sids /\ ~Live(req[r].sid)
    /\ \A q \in Requests : req[q].pc \in Enqueueing /\ req[q].sid = req[r].sid => q = r

\* A thread comes to hold an id by drawing it, and keeps it until it inserts.
LEMMA DrawnStep ==
  ASSUME TypeOK, [Next]_vars, NEW r \in Requests, req'[r].pc \in Enqueueing
  PROVE  \/ req[r].pc \in Enqueueing /\ req'[r].sid = req[r].sid /\ ~InsertSession(r)
         \/ \E c \in Cases, s \in Sids :
              /\ EnqueueStart(r, c, s) /\ req'[r].sid = s
              /\ \A q \in Requests : q # r => req'[q] = req[q]
<1> USE Typed DEF Enqueueing
<1>0. req[r] \in [pc: ReqPC, case: Cases \cup {NoCase}, sid: Sids \cup {NoSid},
                  seen: SpecStatus, guidance: SUBSET Turns, history: SUBSET Turns]
  BY DEF Req
<1>1. IdleReq.pc = "idle"
  BY DEF IdleReq
<1>2. /\ \A p, s : [IdleReq EXCEPT !.pc = p, !.sid = s].pc = p
      /\ \A p, s, g, h :
           [IdleReq EXCEPT !.pc = p, !.sid = s, !.guidance = g, !.history = h].pc = p
      /\ \A p, c : [IdleReq EXCEPT !.pc = p, !.case = c].pc = p
      /\ \A p : [IdleReq EXCEPT !.pc = p].pc = p
      /\ \A p, c, s, t : [IdleReq EXCEPT !.pc = p, !.case = c, !.sid = s, !.seen = t].sid = s
  BY DEF IdleReq
<1>3. /\ \A p, s : [req[r] EXCEPT !.pc = p, !.sid = s].pc = p
      /\ \A p : [req[r] EXCEPT !.pc = p].sid = req[r].sid
  BY <1>0
<1> DEFINE marked == [req[r] EXCEPT !.pc = "marking", !.sid = NoSid]
<1>m. marked.pc = "marking"
  BY <1>3
<1> HIDE DEF marked
<1>n. ~InsertSession(r)
  <2> SUFFICES ASSUME InsertSession(r) PROVE FALSE
    OBVIOUS
  <2>1. req' = [req EXCEPT ![r] = marked]
    BY DEF InsertSession, marked
  <2> QED BY <2>1, <1>m
<1>4. CASE \E q \in Requests : RequestStep(q)
  <2>1. PICK q \in Requests : RequestStep(q)
    BY <1>4
  <2>2. CASE q # r
    <3>1. req'[r] = req[r]
      BY <2>1, <2>2
      DEF RequestStep, EnqueueStart, RequestAuthoringExisting, RequestAuthoringNew,
          InsertSession, MarkSpecRunning, AddGuidanceRead, AddGuidanceWrite, ContinueSilently,
          ContinueWithGuidance, BankGuidance, FlipResuming, CancelDelete, CancelMarkSpec,
          StopReset, StopPurge
    <3> QED BY <3>1, <1>n
  <2>3. CASE q = r
    <3>1. CASE \E c \in Cases, s \in Sids : EnqueueStart(r, c, s)
      <4>1. PICK c \in Cases, s \in Sids : EnqueueStart(r, c, s)
        BY <3>1
      <4>2. req'[r].sid = s /\ \A p \in Requests : p # r => req'[p] = req[p]
        BY <1>2, <4>1 DEF EnqueueStart
      <4> QED BY <4>1, <4>2
    <3>2. CASE RequestAuthoringNew(r)
      <4> DEFINE y == [req[r] EXCEPT !.pc = "inserting"]
      <4>1. req' = [req EXCEPT ![r] = y] /\ req[r].pc = "planning"
        BY <3>2 DEF RequestAuthoringNew
      <4>2. y.sid = req[r].sid
        BY <1>3
      <4> HIDE DEF y
      <4>3. req'[r].sid = req[r].sid
        BY <4>1, <4>2
      <4> QED BY <4>1, <4>3, <1>n
    <3>3. CASE RequestAuthoringExisting(r)
      <4>1. req' = [req EXCEPT ![r] = marked]
        BY <3>3 DEF RequestAuthoringExisting, marked
      <4> QED BY <4>1, <1>m
    <3>4. CASE \/ MarkSpecRunning(r) \/ AddGuidanceWrite(r) \/ FlipResuming(r)
               \/ CancelMarkSpec(r) \/ StopPurge(r)
      BY <1>1, <3>4
      DEF MarkSpecRunning, AddGuidanceWrite, FlipResuming, CancelMarkSpec, StopPurge
    <3>5. CASE \/ \E s \in Sids, t \in Turns : AddGuidanceRead(r, s, t)
               \/ \E s \in Sids, t \in Turns : ContinueWithGuidance(r, s, t)
      <4>0. PICK p \in {"chatting", "banking"} :
              \E s, g, h : req' = [req EXCEPT ![r] =
                        [IdleReq EXCEPT !.pc = p, !.sid = s, !.guidance = g, !.history = h]]
        BY <3>5 DEF AddGuidanceRead, ContinueWithGuidance
      <4>1. PICK s, g, h :
              req' = [req EXCEPT ![r] =
                        [IdleReq EXCEPT !.pc = p, !.sid = s, !.guidance = g, !.history = h]]
        BY <4>0
      <4> DEFINE y == [IdleReq EXCEPT !.pc = p, !.sid = s, !.guidance = g, !.history = h]
      <4>2. y.pc = p
        BY <1>2
      <4> HIDE DEF y
      <4> QED BY <4>1, <4>2 DEF y
    <3>6. CASE BankGuidance(r) \/ \E s \in Sids : ContinueSilently(r, s)
      <4>1. PICK s : \/ req' = [req EXCEPT ![r] = [IdleReq EXCEPT !.pc = "flipping", !.sid = s]]
                     \/ req' = [req EXCEPT ![r] = IdleReq]
        BY <3>6 DEF BankGuidance, ContinueSilently
      <4> DEFINE y == [IdleReq EXCEPT !.pc = "flipping", !.sid = s]
      <4>2. y.pc = "flipping"
        BY <1>2
      <4> HIDE DEF y
      <4> QED BY <1>1, <4>1, <4>2 DEF y
    <3>7. CASE (\E c \in Cases : CancelDelete(r, c)) \/ StopReset(r)
      <4>1. PICK c : \/ req' = [req EXCEPT ![r] = [IdleReq EXCEPT !.pc = "cancelling", !.case = c]]
                     \/ req' = [req EXCEPT ![r] = [IdleReq EXCEPT !.pc = "purging"]]
        BY <3>7 DEF CancelDelete, StopReset
      <4> DEFINE y == [IdleReq EXCEPT !.pc = "cancelling", !.case = c]
                 z == [IdleReq EXCEPT !.pc = "purging"]
      <4>2. y.pc = "cancelling" /\ z.pc = "purging"
        BY <1>2
      <4>3. req' = [req EXCEPT ![r] = y] \/ req' = [req EXCEPT ![r] = z]
        BY <4>1
      <4> HIDE DEF y, z
      <4> QED BY <4>2, <4>3
    <3>8. RequestStep(r)
      BY <2>1, <2>3
    <3> QED BY <3>8, <1>n, <3>1, <3>2, <3>3, <3>4, <3>5, <3>6, <3>7 DEF RequestStep
  <2> QED BY <2>2, <2>3
<1>5. CASE Restart
  BY <1>1, <1>5 DEF Restart
<1>6. CASE UNCHANGED req
  BY <1>6, <1>n
<1> QED
  BY <1>4, <1>5, <1>6
  DEF Next, vars, DeviceStep, RequestPause, AgeClaim, AgePause, DropQueuedCases, ClaimSelect,
      ClaimFlip, PauseHeard, ReportPaused, PollAbort, PollRead, PollFlip, GiveUp,
      AuthoringDone, FinalizeBegin, FinalizePersist, FinalizeDrop, FinalizeLost, DeviceCrash

LEMMA DrawnKept ==
  ASSUME TypeOK, DrawnFresh, [Next]_vars
  PROVE  DrawnFresh'
<1> SUFFICES ASSUME NEW r \in Requests, NEW s, s = req'[r].sid, req'[r].pc \in Enqueueing
             PROVE  /\ s \in Sids /\ ~Live(s)'
                    /\ \A q \in Requests : req'[q].pc \in Enqueueing /\ req'[q].sid = s => q = r
  BY DEF DrawnFresh, Live
\* The id the thread holds now was nobody else's before the step.
<1>1. /\ s \in Sids /\ ~Live(s)
      /\ \A q \in Requests : q # r /\ req[q].pc \in Enqueueing => req[q].sid # s
  BY DrawnStep DEF DrawnFresh, EnqueueStart, Fresh
<1>2. ~Live(s)'
  <2> SUFFICES ASSUME Live(s)' PROVE FALSE
    OBVIOUS
  <2>1. PICK q \in Requests : InsertSession(q)
    BY <1>1, RowsKeepCases
  <2>2. req[q].sid = s
    BY <1>1, <2>1, InsertionAddsOne DEF Live
  <2>3. q = r
    BY <1>1, <2>1, <2>2 DEF InsertSession, Enqueueing
  <2>4. ~\E c \in Cases, t \in Sids : EnqueueStart(r, c, t)
    BY <2>1, <2>3 DEF InsertSession, EnqueueStart
  <2> QED BY <2>1, <2>3, <2>4, DrawnStep
<1>3. ASSUME NEW q \in Requests, req'[q].pc \in Enqueueing, req'[q].sid = s, q # r
      PROVE  FALSE
  <2>1. \/ req[q].pc \in Enqueueing /\ req[q].sid = req'[q].sid
        \/ \E c \in Cases, t \in Sids :
              /\ EnqueueStart(q, c, t) /\ req'[q].sid = t
              /\ \A p \in Requests : p # q => req'[p] = req[p]
    BY <1>3, DrawnStep
  <2>2. CASE \E c \in Cases, t \in Sids :
               /\ EnqueueStart(q, c, t) /\ req'[q].sid = t
               /\ \A p \in Requests : p # q => req'[p] = req[p]
    BY <1>3, <2>2 DEF EnqueueStart, Fresh
  <2> QED BY <1>1, <1>3, <2>1, <2>2
<1> QED BY <1>1, <1>2, <1>3

\* A row goes back to the queue only by request_authoring, and not while its
\* pause may be continued.
LEMMA PauseStep ==
  ASSUME TypeOK, DrawnFresh, [Next]_vars, NEW s \in Sids,
         row[s].status \in {"paused", "resuming"}, ~row[s].pauseOld
  PROVE  row'[s].status # "queued"
<1>1. row[s] \in LiveRow /\ Live(s)
  BY LiveType DEF TypeOK, Live
<1>2. LeftAlone(row[s]) /\ row[s].status # "queued"
  BY DEF LeftAlone
<1>3. ~\E r \in Requests : req[r].pc = "inserting" /\ req[r].sid = s
  BY <1>1 DEF DrawnFresh, Enqueueing
<1>4. \/ row'[s] = row[s] \/ row'[s] = NoRow
      \/ SmallUpdate(row[s], row'[s]) \/ row'[s] = Offered(row[s])
      \/ \E d \in Devices : \/ row'[s] = Paused(row[s], dev[d].cost)
                            \/ row'[s] = Resumed(row[s], d)
  BY <1>2, <1>3, RowStepOfNext DEF RowStep
<1>5. NoRow.status = "none"
  BY DEF NoRow
<1> QED BY <1>1, <1>4, <1>5, SmallUpdateFields, OfferedFields, PausedFields, ResumedFields

\* A pause the user may still continue is never given back to the queue,
\* whatever threads, devices and restarts do (request_authoring).
THEOREM PausesKept == Spec => LivePauseKept
<1>1. Init => DrawnFresh
  BY DEF Init, DrawnFresh, Enqueueing, IdleReq
<1>2. TypeOK /\ DrawnFresh /\ [Next]_vars
        => \A s \in Sids : row[s].status \in {"paused", "resuming"} /\ ~row[s].pauseOld
                             => row'[s].status /= "queued"
  BY PauseStep
<1>3. TypeOK /\ DrawnFresh /\ [Next]_vars => DrawnFresh'
  BY DrawnKept
<1> QED BY <1>1, <1>2, <1>3, Typing, PTL DEF Spec, LivePauseKept

-----------------------------------------------------------------------------
(* The boot sweep. Rows and specs are decided from the same reading of     *)
(* which sessions survive.                                                 *)

\* After a restart a spec is "running" exactly when a session is there to
\* finish it, and no forgotten pause is left (recover_orphaned_authoring).
THEOREM RestartReconciles == Spec => BootReconciles
<1>1. ASSUME TypeOK, Restart
      PROVE  /\ \A c \in Cases : (spec'[c].status = "running") <=> HasRow(c)'
             /\ \A s \in Sids : ~Expired(s)'
  <2>1. /\ row' = [s \in Sids |-> IF Survives(s) THEN row[s] ELSE NoRow]
        /\ \A s \in Sids : Live(s)' <=> Survives(s)
        /\ \A s \in Sids : Survives(s) => row'[s] = row[s]
    BY <1>1 DEF Restart, BootSweep, Live, NoRow, Survives
  <2>2. ASSUME NEW c \in Cases PROVE Reset(spec[c]).status # "running"
    BY <1>1 DEF Reset, TypeOK
  <2>3. ASSUME NEW c \in Cases
        PROVE  (spec'[c].status = "running") <=> \E s \in Sids : Survives(s) /\ row[s].case = c
    BY <1>1, <2>2 DEF Restart, BootSweep, Survives, TypeOK
  <2>4. ASSUME NEW c \in Cases
        PROVE  HasRow(c)' <=> \E s \in Sids : Survives(s) /\ row[s].case = c
    BY <2>1 DEF HasRow
  <2>5. ASSUME NEW s \in Sids PROVE ~Expired(s)'
    <3>1. CASE Survives(s)
      BY <2>1, <3>1 DEF Expired, Survives
    <3>2. CASE ~Survives(s)
      BY <2>1, <3>2 DEF Expired, NoRow
    <3> QED BY <3>1, <3>2
  <2> QED BY <2>3, <2>4, <2>5
<1>2. TypeOK /\ [Next]_vars
        => (Restart => /\ \A c \in Cases : (spec'[c].status = "running") <=> HasRow(c)'
                       /\ \A s \in Sids : ~Expired(s)')
  BY <1>1
<1> QED BY <1>2, Typing, PTL DEF Spec, BootReconciles

-----------------------------------------------------------------------------
(* The budget of a session. mark_paused keeps the largest spend reported to *)
(* a row, and every pass is given what that leaves; but the spend belongs   *)
(* to the device that reports it, and a session that is presumed dead and   *)
(* claimed again has two. What holds for every number of devices is that    *)
(* the budget is exceeded only if two of them worked on one session.        *)

Working == {"authoring", "parking", "parked", "polled"}
Suspended == {"paused", "resuming"}

AloneOnSession ==
  \A d, e \in Devices :
    dev[d].pc \in Working /\ dev[e].pc \in Working /\ dev[d].sid = dev[e].sid => d = e

\* What a device has spent is within the ceiling together with what it may
\* still spend, and is on record when its session is suspended; before its
\* report the session cannot be.
BudgetOf(d) ==
  /\ dev[d].pc = "selected" => dev[d].cost = 0
  /\ dev[d].pc \in {"authoring", "polled"} => dev[d].cost + dev[d].budget <= Ceiling
  /\ dev[d].pc \in {"authoring", "parking"} => row[dev[d].sid].status \notin Suspended
  /\ dev[d].pc \in {"parked", "polled"} /\ row[dev[d].sid].status \in Suspended
       => dev[d].cost <= row[dev[d].sid].cost

BudgetInv == \A d \in Devices : BudgetOf(d)

LEMMA SuspendedFields ==
  ASSUME NEW x \in LiveRow
  PROVE  /\ Requeued(x).status = "queued"
         /\ Offered(x).cost = x.cost
         /\ \A y : SmallUpdate(x, y) => y.cost = x.cost
         /\ \A c \in Nat : c <= Paused(x, c).cost
<1>1. Requeued(x).status = "queued" /\ Offered(x).cost = x.cost
  BY DEF LiveRow, Requeued, Offered
<1>2. \A y : SmallUpdate(x, y) => y.cost = x.cost
  BY DEF LiveRow, SmallUpdate
<1>3. ASSUME NEW c \in Nat PROVE c <= Paused(x, c).cost
  BY DEF LiveRow, Paused
<1> QED BY <1>1, <1>2, <1>3

\* A session is suspended only by the report of a device that worked on it,
\* and keeps its recorded spend while it is.
LEMMA SuspendedStep ==
  ASSUME TypeOK, [Next]_vars, NEW s \in Sids, row'[s].status \in Suspended
  PROVE  \/ row[s].status \in Suspended /\ row'[s].cost = row[s].cost
         \/ \E e \in Devices : /\ ReportPaused(e) /\ dev[e].sid = s
                               /\ dev[e].cost <= row'[s].cost
<1> USE DEF Suspended
<1>1. RowStep(s)
  BY RowStepOfNext
<1>2. Live(s) => row[s] \in LiveRow
  BY LiveType DEF TypeOK, Live
<1>3. NoRow.status = "none" /\ \A c : NewRow(c).status = "queued"
  BY DEF NoRow, NewRow
<1>4. \A d \in Devices : dev[d].cost \in Nat
  BY DevFields DEF TypeOK
<1>5. CASE row'[s] = row[s]
  BY <1>5
<1>6. CASE Live(s) /\ SmallUpdate(row[s], row'[s])
  BY <1>2, <1>6, SuspendedFields, SmallUpdateFields
<1>7. CASE Live(s) /\ row[s].status = "paused" /\ row'[s] = Offered(row[s])
  BY <1>2, <1>7, SuspendedFields
<1>8. CASE \E d \in Devices : /\ ReportPaused(d) /\ Live(s) /\ dev[d].sid = s
                              /\ row'[s] = Paused(row[s], dev[d].cost)
  BY <1>2, <1>4, <1>8, SuspendedFields
<1>9. \A d : /\ Live(s) => Claimed(row[s], d).status = "running"
             /\ Live(s) => Resumed(row[s], d).status = "running"
             /\ Live(s) => Requeued(row[s]).status = "queued"
  BY <1>2, ClaimedFields, ResumedFields, SuspendedFields
<1> QED BY <1>1, <1>3, <1>5, <1>6, <1>7, <1>8, <1>9 DEF RowStep

\* A step that leaves a device as it was leaves its session's budget kept:
\* another device's report would be about another session.
LEMMA BudgetOfOther ==
  ASSUME TypeOK, AloneOnSession, BudgetInv, [Next]_vars,
         NEW d \in Devices, dev'[d] = dev[d]
  PROVE  BudgetOf(d)'
<1> USE DEF Working, Suspended
<1>1. BudgetOf(d)
  BY DEF BudgetInv
<1>2. CASE dev[d].pc \notin Working
  BY <1>1, <1>2 DEF BudgetOf
<1>3. CASE dev[d].pc \in Working
  <2> DEFINE s == dev[d].sid
  <2>1. s \in Sids
    BY <1>3, BusyType
  <2>2. ~\E e \in Devices : ReportPaused(e) /\ dev[e].sid = s
    <3> SUFFICES ASSUME NEW e \in Devices, ReportPaused(e), dev[e].sid = s PROVE FALSE
      OBVIOUS
    <3>1. dev[e].pc = "parking"
      BY DEF ReportPaused
    <3>2. e = d
      BY <1>3, <3>1 DEF AloneOnSession
    <3> DEFINE y == [dev[e] EXCEPT !.pc = "parked"]
    <3>3. y.pc = "parked"
      BY <3>1, BusyType, DevUpdateFields
    <3>4. dev' = [dev EXCEPT ![e] = y]
      BY DEF ReportPaused
    <3> HIDE DEF y
    <3> QED BY <3>1, <3>2, <3>3, <3>4 DEF TypeOK
  <2>3. row'[s].status \in Suspended => row[s].status \in Suspended /\ row'[s].cost = row[s].cost
    BY <2>1, <2>2, SuspendedStep
  <2> QED BY <1>1, <2>3 DEF BudgetOf
<1> QED BY <1>2, <1>3

LEMMA DevBudgetFields ==
  ASSUME NEW x \in BusyDev
  PROVE  /\ \A p, c : /\ [x EXCEPT !.pc = p, !.cost = c].cost = c
                      /\ [x EXCEPT !.pc = p, !.cost = c].sid = x.sid
         /\ \A p, b : /\ [x EXCEPT !.pc = p, !.budget = b].cost = x.cost
                      /\ [x EXCEPT !.pc = p, !.budget = b].budget = b
                      /\ [x EXCEPT !.pc = p, !.budget = b].sid = x.sid
         /\ \A p : [x EXCEPT !.pc = p].cost = x.cost /\ [x EXCEPT !.pc = p].sid = x.sid
         /\ \A p, g, n, b :
              LET y == [x EXCEPT !.pc = p, !.guidance = g, !.resumes = n, !.budget = b]
              IN  y.pc = p /\ y.cost = x.cost /\ y.budget = b /\ y.sid = x.sid
         /\ \A p, g, n :
              LET y == [x EXCEPT !.pc = p, !.guidance = g, !.resumes = n]
              IN  y.pc = p /\ y.cost = x.cost /\ y.budget = x.budget /\ y.sid = x.sid
         /\ Waiting(x).cost = x.cost /\ Waiting(x).sid = x.sid
  BY DEF BusyDev, Waiting

\* A step of the device itself. A report that is lost leaves a session that is
\* not suspended, and a poll is told what is left after the recorded spend.
LEMMA BudgetOfActor ==
  ASSUME TypeOK, NEW d \in Devices, BudgetOf(d), DeviceStep(d)
  PROVE  BudgetOf(d)'
<1> USE DEF Suspended
<1> DEFINE s == dev[d].sid
<1>1. row \in [Sids -> Row] /\ dev \in [Devices -> Dev]
  BY DEF TypeOK
<1>2. ASSUME dev[d].pc # "idle"
      PROVE  dev[d] \in BusyDev /\ s \in Sids
  BY <1>2, BusyType
<1>3. CASE \E t \in Sids : ClaimSelect(d, t)
  <2>1. PICK t \in Sids : ClaimSelect(d, t)
    BY <1>3
  <2> DEFINE y == [IdleDev EXCEPT !.pc = "selected", !.sid = t]
  <2>2. y.pc = "selected" /\ y.cost = 0
    BY DEF IdleDev
  <2>3. dev' = [dev EXCEPT ![d] = y]
    BY <2>1 DEF ClaimSelect
  <2> HIDE DEF y
  <2> QED BY <1>1, <2>2, <2>3 DEF BudgetOf
<1>4. CASE ClaimFlip(d)
  <2> DEFINE y == [dev[d] EXCEPT !.pc = "authoring", !.budget = Ceiling]
  <2>1. dev[d].pc = "selected" /\ dev[d].cost = 0
    BY <1>4 DEF ClaimFlip, BudgetOf
  <2>2. y.pc = "authoring" /\ y.cost = 0 /\ y.budget = Ceiling /\ y.sid = s
    BY <1>2, <2>1, DevUpdateFields, DevBudgetFields
  <2>3. \/ dev' = [dev EXCEPT ![d] = IdleDev]
        \/ /\ dev' = [dev EXCEPT ![d] = y]
           /\ row[s].status = "queued" /\ row' = [row EXCEPT ![s] = Claimed(row[s], d)]
    BY <1>4 DEF ClaimFlip
  <2>4. row[s].status = "queued" => Claimed(row[s], d).status = "running"
    BY <1>1, <1>2, <2>1, LiveType, ClaimedFields
  <2>5. s \in Sids
    BY <1>2, <2>1
  <2> HIDE DEF y, s
  <2> QED BY <1>1, <2>2, <2>3, <2>4, <2>5, IdleDevPC, BoundsAssumption DEF BudgetOf
<1>5. CASE PauseHeard(d)
  <2>1. PICK n \in 0 .. dev[d].budget :
          dev' = [dev EXCEPT ![d] = [@ EXCEPT !.pc = "parking", !.cost = dev[d].cost + n]]
    BY <1>5 DEF PauseHeard
  <2> DEFINE y == [dev[d] EXCEPT !.pc = "parking", !.cost = dev[d].cost + n]
  <2>2. dev[d].pc = "authoring" /\ UNCHANGED row
    BY <1>5 DEF PauseHeard
  <2>3. y.pc = "parking" /\ y.sid = s
    BY <1>2, <2>2, DevUpdateFields, DevBudgetFields
  <2>4. dev' = [dev EXCEPT ![d] = y]
    BY <2>1
  <2> HIDE DEF y
  <2> QED BY <1>1, <2>2, <2>3, <2>4 DEF BudgetOf
<1>6. CASE ReportPaused(d)
  <2> DEFINE y == [dev[d] EXCEPT !.pc = "parked"]
  <2>1. dev[d].pc = "parking" /\ dev' = [dev EXCEPT ![d] = y]
    BY <1>6 DEF ReportPaused
  <2>2. y.pc = "parked" /\ y.cost = dev[d].cost /\ y.sid = s
    BY <1>2, <2>1, DevUpdateFields, DevBudgetFields
  <2>3. \/ Live(s) /\ row' = [row EXCEPT ![s] = Paused(row[s], dev[d].cost)]
        \/ row' = row
    BY <1>6 DEF ReportPaused
  <2>4. Live(s) => dev[d].cost <= Paused(row[s], dev[d].cost).cost
    <3>1. dev[d].cost \in Nat
      BY <1>1, DevFields
    <3>2. Live(s) => row[s] \in LiveRow
      BY <1>1, <1>2, <2>1, LiveType DEF Live
    <3> QED BY <3>1, <3>2, SuspendedFields
  <2>5. row[s].status \notin Suspended /\ s \in Sids
    BY <1>2, <2>1 DEF BudgetOf
  <2> HIDE DEF y, s
  <2> QED BY <1>1, <2>1, <2>2, <2>3, <2>4, <2>5 DEF BudgetOf
<1>7. CASE PollRead(d)
  <2> DEFINE x == row[s]
             y == [dev[d] EXCEPT !.pc = "polled", !.guidance = x.guidance,
                                 !.resumes = x.resumes, !.budget = Ceiling - x.cost]
  <2>1. /\ dev[d].pc = "parked" /\ x.status = "resuming" /\ x.cost < Ceiling
        /\ dev' = [dev EXCEPT ![d] = y] /\ row' = row
    BY <1>7 DEF PollRead, Resumable
  <2>2. y.pc = "polled" /\ y.cost = dev[d].cost /\ y.budget = Ceiling - x.cost /\ y.sid = s
    BY <1>2, <2>1, DevBudgetFields
  <2>3. dev[d].cost <= x.cost
    BY <2>1 DEF BudgetOf
  <2>4. dev[d].cost \in Nat /\ x.cost \in Nat /\ Ceiling \in Nat
    BY <1>1, <1>2, <2>1, DevFields, RowFields, BoundsAssumption
  <2>5. y.cost + y.budget <= Ceiling
    <3> HIDE DEF x, y
    <3> QED BY <2>2, <2>3, <2>4
  <2> HIDE DEF y, s
  <2> QED BY <1>1, <2>1, <2>2, <2>3, <2>5 DEF BudgetOf
<1>8. CASE PollFlip(d)
  <2> DEFINE y == [dev[d] EXCEPT !.pc = "authoring", !.guidance = {}, !.resumes = 0]
             z == Waiting(dev[d])
  <2>1. dev[d].pc = "polled"
    BY <1>8 DEF PollFlip
  <2>2. /\ y.pc = "authoring" /\ y.cost = dev[d].cost /\ y.budget = dev[d].budget /\ y.sid = s
        /\ z.pc = "parked" /\ z.cost = dev[d].cost /\ z.sid = s
    BY <1>2, <2>1, DevUpdateFields, DevBudgetFields
  <2>3. \/ /\ dev' = [dev EXCEPT ![d] = y] \/ dev' = [dev EXCEPT ![d] = z]
           /\ row[s].status = "resuming" /\ row' = [row EXCEPT ![s] = Resumed(row[s], d)]
        \/ dev' = [dev EXCEPT ![d] = z] /\ row' = row
    BY <1>8 DEF PollFlip
  <2>4. row[s].status = "resuming" => Resumed(row[s], d).status = "running"
    BY <1>1, <1>2, <2>1, LiveType, ResumedFields
  <2>5. s \in Sids
    BY <1>2, <2>1
  <2> HIDE DEF y, z, s
  <2> QED BY <1>1, <2>1, <2>2, <2>3, <2>4, <2>5 DEF BudgetOf, s
<1>9. CASE dev'[d].pc \in {"idle", "finishing", "gating", "dropping"}
  BY <1>9 DEF BudgetOf
<1>10. ASSUME \/ PollAbort(d) \/ GiveUp(d) \/ AuthoringDone(d) \/ FinalizeBegin(d)
              \/ FinalizePersist(d) \/ FinalizeDrop(d) \/ FinalizeLost(d) \/ DeviceCrash(d)
       PROVE  dev'[d].pc \in {"idle", "finishing", "gating", "dropping"}
  <2>1. PollAbort(d) \/ GiveUp(d) \/ AuthoringDone(d) => dev'[d].pc = "finishing"
    <3> DEFINE y == [dev[d] EXCEPT !.pc = "finishing"]
    <3> SUFFICES ASSUME PollAbort(d) \/ GiveUp(d) \/ AuthoringDone(d)
                 PROVE  dev'[d].pc = "finishing"
      OBVIOUS
    <3>1. dev' = [dev EXCEPT ![d] = y] /\ dev[d].pc # "idle"
      BY DEF PollAbort, GiveUp, AuthoringDone
    <3>2. y.pc = "finishing"
      BY <1>2, <3>1, DevUpdateFields
    <3> HIDE DEF y
    <3> QED BY <1>1, <3>1, <3>2
  <2>2. FinalizeBegin(d) => dev'[d].pc \in {"idle", "gating"}
    BY <1>1, IdleDevPC DEF FinalizeBegin
  <2>3. FinalizePersist(d) => dev'[d].pc = "dropping"
    BY <1>1, IdleDevPC DEF FinalizePersist
  <2>4. FinalizeDrop(d) \/ FinalizeLost(d) \/ DeviceCrash(d) => dev'[d].pc = "idle"
    BY <1>1, IdleDevPC DEF FinalizeDrop, FinalizeLost, DeviceCrash
  <2> QED BY <1>10, <2>1, <2>2, <2>3, <2>4
<1> QED BY <1>3, <1>4, <1>5, <1>6, <1>7, <1>8, <1>9, <1>10 DEF DeviceStep

LEMMA BudgetStep ==
  ASSUME TypeOK, AloneOnSession, BudgetInv, [Next]_vars
  PROVE  BudgetInv'
<1> SUFFICES ASSUME NEW d \in Devices PROVE BudgetOf(d)'
  BY DEF BudgetInv
<1>0. BudgetOf(d) /\ dev \in [Devices -> Dev]
  BY DEF BudgetInv, TypeOK
<1>1. CASE DeviceStep(d)
  BY <1>0, <1>1, BudgetOfActor
<1>2. CASE \E e \in Devices : e # d /\ DeviceStep(e)
  <2>1. dev'[d] = dev[d]
    BY <1>0, <1>2
    DEF DeviceStep, ClaimSelect, ClaimFlip, PauseHeard, ReportPaused, PollAbort, PollRead,
        PollFlip, GiveUp, AuthoringDone, FinalizeBegin, FinalizePersist, FinalizeDrop,
        FinalizeLost, DeviceCrash
  <2> QED BY <2>1, BudgetOfOther
<1>3. CASE UNCHANGED dev
  BY <1>3, BudgetOfOther
\* A restart makes a device wait again, or forgets its session.
<1>4. CASE Restart
  <2>1. CASE dev'[d] = dev[d]
    BY <2>1, BudgetOfOther
  <2>2. CASE dev'[d] = IdleDev
    BY <2>2, IdleDevPC DEF BudgetOf
  <2>3. CASE dev[d].pc = "polled" /\ dev'[d] = Waiting(dev[d])
    <3>1. dev[d] \in BusyDev /\ dev[d].sid \in Sids
      BY <2>3, BusyType
    <3>2. dev'[d].pc = "parked" /\ dev'[d].cost = dev[d].cost /\ dev'[d].sid = dev[d].sid
      BY <2>3, <3>1, DevUpdateFields, DevBudgetFields
    <3>3. row'[dev[d].sid] = row[dev[d].sid] \/ row'[dev[d].sid] = NoRow
      BY <1>4, <3>1 DEF Restart, BootSweep
    <3>4. NoRow.status = "none"
      BY DEF NoRow
    <3> QED BY <1>0, <2>3, <3>2, <3>3, <3>4 DEF BudgetOf, Suspended
  <2> QED BY <1>4, <2>1, <2>2, <2>3 DEF Restart
<1>5. (\E r \in Requests : RequestStep(r)) => UNCHANGED dev
  BY DEF RequestStep, EnqueueStart, RequestAuthoringExisting, RequestAuthoringNew,
      InsertSession, MarkSpecRunning, AddGuidanceRead, AddGuidanceWrite, ContinueSilently,
      ContinueWithGuidance, BankGuidance, FlipResuming, CancelDelete, CancelMarkSpec,
      StopReset, StopPurge
<1> QED BY <1>1, <1>2, <1>3, <1>4, <1>5
        DEF Next, vars, RequestPause, AgeClaim, AgePause, DropQueuedCases

\* However often a session is paused, continued, reclaimed and restarted, what
\* its device has spent and may still spend stays within the ceiling, as long
\* as no second device works on that session (remaining_budget, mark_paused).
THEOREM BudgetHeld == Spec /\ []AloneOnSession => []SessionBudget
<1>1. Init => BudgetInv
  BY IdleDevPC DEF Init, BudgetInv, BudgetOf
<1>2. TypeOK /\ AloneOnSession /\ BudgetInv /\ [Next]_vars => BudgetInv'
  BY BudgetStep
<1>3. BudgetInv => SessionBudget
  BY DEF BudgetInv, BudgetOf, SessionBudget
<1> QED BY <1>1, <1>2, <1>3, Typing, PTL DEF Spec

\* One paired device is never two.
COROLLARY OneDeviceBudget ==
  ASSUME \A d, e \in Devices : d = e
  PROVE  Spec => []SessionBudget
<1>1. AloneOnSession
  BY DEF AloneOnSession
<1> QED BY <1>1, BudgetHeld, PTL
=====
