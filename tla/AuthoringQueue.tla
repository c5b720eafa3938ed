--------------------------- MODULE AuthoringQueue ---------------------------
(***************************************************************************)
(* The durable queue of live-authoring sessions: the rows of               *)
(* agent_authoring_sessions, the spec rows they are about, the request     *)
(* threads of the API that touch both, and the paired devices that claim,  *)
(* author, park, resume and finalize a session.                            *)
(*                                                                         *)
(* Each action is one committed transaction of the API (a request thread   *)
(* may be interrupted between two of them), or one local step of a device. *)
(* A handler that reads in one statement and writes in another is split    *)
(* where another thread's commit in between changes what it does.          *)
(***************************************************************************)
EXTENDS Naturals, FiniteSets

CONSTANTS
  Cases,      \* test cases of one run
  Sids,       \* session ids (uuid4): one may be drawn again once forgotten
  Devices,    \* agent processes polling for one owner
  Requests,   \* threads of the API serving users and generation workers
  Turns,      \* guidance turns a user types
  Ceiling,    \* max_budget_usd, in units of reported spend
  MaxResumes, \* MAX_RESUMES_PER_SESSION
  CostBound,  \* a bound of the model: the spend one device ever reports
  NoCase, NoSid

ASSUME BoundsAssumption == Ceiling \in Nat /\ MaxResumes \in Nat /\ CostBound \in Nat
ASSUME NullAssumption == NoCase \notin Cases /\ NoSid \notin Sids

VARIABLES
  row,   \* session id -> its queue row; status "none" when there is no row
  spec,  \* case -> status of its AutomationSpec and whether it has code
  req,   \* request thread -> what it read and where it stands
  dev    \* device -> the session it works on and where it stands

vars == <<row, spec, req, dev>>

OnDevice == {"running", "paused", "resuming"}   \* LIVE_ON_DEVICE
RowStatus == {"queued"} \cup OnDevice
SpecStatus == {"none", "running", "draft", "blocked", "failed"}

\* claimOld: claimed more than STALE_CLAIM_AFTER ago, or never claimed.
\* pauseOld: paused more than PAUSE_EXPIRES_AFTER ago.
\* takers is history: the devices the session was given to since it was last
\* queued or set resuming.
LiveRow == [status: RowStatus, case: Cases, pauseReq: BOOLEAN,
            claimOld: BOOLEAN, pauseOld: BOOLEAN, cost: Nat, resumes: Nat,
            guidance: SUBSET Turns, history: SUBSET Turns, takers: SUBSET Devices]
NoRow == [status |-> "none", case |-> NoCase, pauseReq |-> FALSE,
          claimOld |-> FALSE, pauseOld |-> FALSE, cost |-> 0, resumes |-> 0,
          guidance |-> {}, history |-> {}, takers |-> {}]
Row == {NoRow} \cup LiveRow

ReqPC == {"idle", "planning", "inserting", "marking", "chatting", "banking",
          "flipping", "cancelling", "purging"}
Req == {q \in [pc: ReqPC, case: Cases \cup {NoCase}, sid: Sids \cup {NoSid},
               seen: SpecStatus, guidance: SUBSET Turns, history: SUBSET Turns] :
          q.pc \in {"planning", "inserting", "marking", "cancelling"} => q.case \in Cases}
IdleReq == [pc |-> "idle", case |-> NoCase, sid |-> NoSid, seen |-> "none",
            guidance |-> {}, history |-> {}]

DevPC == {"selected", "authoring", "parking", "parked", "polled", "finishing",
          "gating", "dropping"}
BusyDev == [pc: DevPC, sid: Sids, case: Cases \cup {NoCase}, cost: Nat, budget: Nat,
            guidance: SUBSET Turns, resumes: Nat, seen: SpecStatus, seenCode: BOOLEAN]
IdleDev == [pc |-> "idle", sid |-> NoSid, case |-> NoCase, cost |-> 0, budget |-> 0,
            guidance |-> {}, resumes |-> 0, seen |-> "none", seenCode |-> FALSE]
Dev == {IdleDev} \cup BusyDev

TypeOK ==
  /\ row \in [Sids -> Row]
  /\ spec \in [Cases -> [status: SpecStatus, code: BOOLEAN]]
  /\ req \in [Requests -> Req]
  /\ dev \in [Devices -> Dev]

\* A case may have a runnable spec from an earlier pass, or none.
Init ==
  /\ row = [s \in Sids |-> NoRow]
  /\ spec \in [Cases -> {[status |-> "none", code |-> FALSE],
                         [status |-> "draft", code |-> TRUE]}]
  /\ req = [r \in Requests |-> IdleReq]
  /\ dev = [d \in Devices |-> IdleDev]

Live(s) == row[s].status /= "none"
HasRow(c) == \E s \in Sids : Live(s) /\ row[s].case = c

\* A uuid nobody remembers: no row, thread or device mentions it.
Fresh(s) == /\ ~Live(s)
            /\ \A r \in Requests : req[r].sid /= s
            /\ \A d \in Devices : dev[d].sid /= s

\* A message no row and no thread holds yet.
Untyped(t) == /\ \A s \in Sids : t \notin row[s].history
              /\ \A r \in Requests : t \notin req[r].history

-----------------------------------------------------------------------------
(* Enqueueing: _generate_one's local-agent branch, for one case.         *)

\* The worker loads the case's spec before planning (minutes of Claude calls)
\* and draws the session id.
EnqueueStart(r, c, s) ==
  /\ req[r].pc = "idle"
  /\ Fresh(s)
  /\ req' = [req EXCEPT ![r] = [IdleReq EXCEPT !.pc = "planning", !.case = c,
                                  !.sid = s, !.seen = spec[c].status]]
  /\ UNCHANGED <<row, spec, dev>>

\* Mutant: every pause is recycled, not only an expired one.
LeftAlone_Recycle(x) == x.status = "running" /\ ~x.claimOld

\* A row request_authoring leaves alone: a pause the user may still continue,
\* or a recent claim.
LeftAlone(x) == \/ x.status \in {"paused", "resuming"} /\ ~x.pauseOld
                \/ x.status = "running" /\ ~x.claimOld

Requeued(x) == [x EXCEPT !.status = "queued", !.claimOld = TRUE, !.pauseOld = FALSE,
                         !.pauseReq = FALSE, !.guidance = {}, !.cost = 0,
                         !.resumes = 0, !.takers = {}]

RequestAuthoringExisting(r) ==
  /\ req[r].pc = "planning"
  /\ \E s \in Sids :
       /\ Live(s) /\ row[s].case = req[r].case
       /\ row' = IF row[s].status = "queued" \/ LeftAlone(row[s]) THEN row
                 ELSE [row EXCEPT ![s] = Requeued(row[s])]
  /\ req' = [req EXCEPT ![r] = [@ EXCEPT !.pc = "marking", !.sid = NoSid]]
  /\ UNCHANGED <<spec, dev>>

RequestAuthoringNew(r) ==
  /\ req[r].pc = "planning"
  /\ ~HasRow(req[r].case)
  /\ req' = [req EXCEPT ![r] = [@ EXCEPT !.pc = "inserting"]]
  /\ UNCHANGED <<row, spec, dev>>

\* Mutant: no UNIQUE index, the earlier read is trusted.
InsertSession_NoIndex(r) ==
  /\ req[r].pc = "inserting"
  /\ row' = [row EXCEPT ![req[r].sid] =
               [NoRow EXCEPT !.status = "queued", !.case = req[r].case, !.claimOld = TRUE]]
  /\ req' = [req EXCEPT ![r] = [@ EXCEPT !.pc = "marking", !.sid = NoSid]]
  /\ UNCHANGED <<spec, dev>>

\* The UNIQUE index on case_id arbitrates: the loser's IntegrityError is
\* swallowed and its caller goes on as if it had enqueued.
InsertSession(r) ==
  /\ req[r].pc = "inserting"
  /\ row' = IF HasRow(req[r].case) THEN row
            ELSE [row EXCEPT ![req[r].sid] =
                    [NoRow EXCEPT !.status = "queued", !.case = req[r].case,
                                  !.claimOld = TRUE]]
  /\ req' = [req EXCEPT ![r] = [@ EXCEPT !.pc = "marking", !.sid = NoSid]]
  /\ UNCHANGED <<spec, dev>>

\* The ORM writes only a column whose value differs from what was loaded, so a
\* spec loaded as "running" is not written again.
MarkSpecRunning(r) ==
  /\ req[r].pc = "marking"
  /\ spec' = IF req[r].seen = "running" THEN spec
             ELSE [spec EXCEPT ![req[r].case] = [@ EXCEPT !.status = "running"]]
  /\ req' = [req EXCEPT ![r] = IdleReq]
  /\ UNCHANGED <<row, dev>>

\* A pass without force evicts the unclaimed sessions of cases with code.
DropQueuedCases ==
  /\ \E s \in Sids : row[s].status = "queued" /\ spec[row[s].case].code
  /\ row' = [s \in Sids |-> IF row[s].status = "queued" /\ spec[row[s].case].code
                            THEN NoRow ELSE row[s]]
  /\ UNCHANGED <<spec, req, dev>>

-----------------------------------------------------------------------------
(* The user's controls.                                                  *)

RequestPause(s) ==
  /\ row[s].status = "running" /\ ~row[s].pauseReq
  /\ row' = [row EXCEPT ![s] = [@ EXCEPT !.pauseReq = TRUE]]
  /\ UNCHANGED <<spec, req, dev>>

\* add_guidance reads both columns, appends in Python and commits: the commit
\* overwrites whatever another thread committed in between.
AddGuidanceRead(r, s, t) ==
  /\ req[r].pc = "idle" /\ Live(s) /\ Untyped(t)
  /\ req' = [req EXCEPT ![r] = [IdleReq EXCEPT !.pc = "chatting", !.sid = s,
                                  !.guidance = row[s].guidance \cup {t},
                                  !.history = row[s].history \cup {t}]]
  /\ UNCHANGED <<row, spec, dev>>

\* The write-back of the two guidance columns; a row deleted meanwhile makes
\* the UPDATE match nothing and the request fail.
WriteGuidance(r) ==
  LET s == req[r].sid IN
  IF Live(s) THEN [row EXCEPT ![s] = [@ EXCEPT !.guidance = req[r].guidance,
                                               !.history = req[r].history]]
             ELSE row

AddGuidanceWrite(r) ==
  /\ req[r].pc = "chatting"
  /\ row' = WriteGuidance(r)
  /\ req' = [req EXCEPT ![r] = IdleReq]
  /\ UNCHANGED <<spec, dev>>

\* Continue: the checks of request_resume, then the guidance typed with it (if
\* any) is banked in one commit and the status flipped in the next.
MayResume(x) == /\ x.status = "paused" /\ ~x.pauseOld
                /\ x.cost < Ceiling /\ x.resumes < MaxResumes

ContinueSilently(r, s) ==
  /\ req[r].pc = "idle" /\ MayResume(row[s])
  /\ req' = [req EXCEPT ![r] = [IdleReq EXCEPT !.pc = "flipping", !.sid = s]]
  /\ UNCHANGED <<row, spec, dev>>

ContinueWithGuidance(r, s, t) ==
  /\ req[r].pc = "idle" /\ MayResume(row[s]) /\ Untyped(t)
  /\ req' = [req EXCEPT ![r] = [IdleReq EXCEPT !.pc = "banking", !.sid = s,
                                  !.guidance = row[s].guidance \cup {t},
                                  !.history = row[s].history \cup {t}]]
  /\ UNCHANGED <<row, spec, dev>>

BankGuidance(r) ==
  /\ req[r].pc = "banking"
  /\ row' = WriteGuidance(r)
  /\ req' = [req EXCEPT ![r] = IF Live(req[r].sid)
                               THEN [IdleReq EXCEPT !.pc = "flipping", !.sid = req[r].sid]
                               ELSE IdleReq]
  /\ UNCHANGED <<spec, dev>>

FlipResuming(r) ==
  /\ req[r].pc = "flipping"
  /\ row' = IF row[req[r].sid].status = "paused"
            THEN [row EXCEPT ![req[r].sid] = [@ EXCEPT !.status = "resuming",
                                                       !.takers = {}]]
            ELSE row
  /\ req' = [req EXCEPT ![r] = IdleReq]
  /\ UNCHANGED <<spec, dev>>

CancelDelete(r, c) ==
  /\ req[r].pc = "idle"
  /\ \E s \in Sids : /\ Live(s) /\ row[s].case = c
                     /\ row' = [row EXCEPT ![s] = NoRow]
  /\ req' = [req EXCEPT ![r] = [IdleReq EXCEPT !.pc = "cancelling", !.case = c]]
  /\ UNCHANGED <<spec, dev>>

CancelMarkSpec(r) ==
  LET c == req[r].case IN
  /\ req[r].pc = "cancelling"
  /\ spec' = IF spec[c].status /= "none" /\ ~spec[c].code
             THEN [spec EXCEPT ![c] = [@ EXCEPT !.status = "failed"]] ELSE spec
  /\ req' = [req EXCEPT ![r] = IdleReq]
  /\ UNCHANGED <<row, dev>>

\* reset_stuck_specs: what was authored is kept, an empty spec is blocked.
Reset(x) == [x EXCEPT !.status = IF x.code THEN "draft" ELSE "blocked"]

StopReset(r) ==
  /\ req[r].pc = "idle"
  /\ spec' = [c \in Cases |-> IF spec[c].status = "running" THEN Reset(spec[c])
                              ELSE spec[c]]
  /\ req' = [req EXCEPT ![r] = [IdleReq EXCEPT !.pc = "purging"]]
  /\ UNCHANGED <<row, dev>>

StopPurge(r) ==
  /\ req[r].pc = "purging"
  /\ row' = [s \in Sids |-> NoRow]
  /\ req' = [req EXCEPT ![r] = IdleReq]
  /\ UNCHANGED <<spec, dev>>

-----------------------------------------------------------------------------
(* The device: claim, author, park, resume, finalize.                    *)

\* claim_next picks a queued row, then flips it with a conditional UPDATE.
ClaimSelect(d, s) ==
  /\ dev[d].pc = "idle" /\ row[s].status = "queued"
  /\ dev' = [dev EXCEPT ![d] = [IdleDev EXCEPT !.pc = "selected", !.sid = s]]
  /\ UNCHANGED <<row, spec, req>>

Claimed(x, d) == [x EXCEPT !.status = "running", !.claimOld = FALSE, !.pauseOld = FALSE,
                           !.pauseReq = FALSE, !.cost = 0, !.resumes = 0,
                           !.takers = x.takers \cup {d}]

\* Mutant: the claim is an unconditional UPDATE of the row selected before.
ClaimFlip_Unconditional(d) ==
  LET s == dev[d].sid IN
  /\ dev[d].pc = "selected"
  /\ IF Live(s)
     THEN /\ row' = [row EXCEPT ![s] = Claimed(row[s], d)]
          /\ dev' = [dev EXCEPT ![d] = [@ EXCEPT !.pc = "authoring", !.budget = Ceiling]]
     ELSE dev' = [dev EXCEPT ![d] = IdleDev] /\ UNCHANGED row
  /\ UNCHANGED <<spec, req>>

\* The loser of the race looks for another row; a winner whose reply is lost
\* leaves a claim nobody works on.
ClaimFlip(d) ==
  LET s == dev[d].sid IN
  /\ dev[d].pc = "selected"
  /\ IF row[s].status = "queued"
     THEN /\ row' = [row EXCEPT ![s] = Claimed(row[s], d)]
          /\ \/ dev' = [dev EXCEPT ![d] = [@ EXCEPT !.pc = "authoring", !.budget = Ceiling]]
             \/ dev' = [dev EXCEPT ![d] = IdleDev]
     ELSE dev' = [dev EXCEPT ![d] = IdleDev] /\ UNCHANGED row
  /\ UNCHANGED <<spec, req>>

\* The reply to a progress event carries the pause: Claude is killed, the
\* pass's spend is added (none, if the envelope with the cost was cut off).
PauseHeard(d) ==
  /\ dev[d].pc = "authoring"
  /\ row[dev[d].sid].status = "running" /\ row[dev[d].sid].pauseReq
  /\ \E spent \in 0..dev[d].budget :
       /\ dev[d].cost + spent <= CostBound
       /\ dev' = [dev EXCEPT ![d] = [@ EXCEPT !.pc = "parking", !.cost = dev[d].cost + spent]]
  /\ UNCHANGED <<row, spec, req>>

\* Mutant: the pass's spend is not kept with the row.
Paused_Unpaid(x, cost) == [x EXCEPT !.status = "paused", !.pauseReq = FALSE,
                                    !.pauseOld = FALSE]

\* mark_paused does not look at the row's status.
Paused(x, cost) == [x EXCEPT !.status = "paused", !.pauseReq = FALSE, !.pauseOld = FALSE,
                             !.cost = IF cost > x.cost THEN cost ELSE x.cost]

\* The device parks whether or not its report arrives.
ReportPaused(d) ==
  LET s == dev[d].sid IN
  /\ dev[d].pc = "parking"
  /\ \/ Live(s) /\ row' = [row EXCEPT ![s] = Paused(row[s], dev[d].cost)]
     \/ UNCHANGED row
  /\ dev' = [dev EXCEPT ![d] = [@ EXCEPT !.pc = "parked"]]
  /\ UNCHANGED <<spec, req>>

\* Mutant: the poll trusts the cap that Continue has checked.
Resumable_Uncapped(x) == x.status = "resuming" /\ x.cost < Ceiling

Resumable(x) == x.status = "resuming" /\ x.resumes < MaxResumes /\ x.cost < Ceiling

\* Mutant: the server never expires a pause.
PollAbort_NoExpiry(d) ==
  LET x == row[dev[d].sid] IN
  /\ dev[d].pc = "parked" /\ x.status /= "paused" /\ ~Resumable(x)
  /\ dev' = [dev EXCEPT ![d] = [@ EXCEPT !.pc = "finishing"]]
  /\ UNCHANGED <<row, spec, req>>

\* The poll of a parked device: told to tear down ...
PollAbort(d) ==
  LET x == row[dev[d].sid] IN
  /\ dev[d].pc = "parked"
  /\ \/ x.status = "paused" /\ x.pauseOld
     \/ x.status /= "paused" /\ ~Resumable(x)
  /\ dev' = [dev EXCEPT ![d] = [@ EXCEPT !.pc = "finishing"]]
  /\ UNCHANGED <<row, spec, req>>

\* ... or the row read as resuming, then flipped by a conditional UPDATE.
PollRead(d) ==
  LET x == row[dev[d].sid] IN
  /\ dev[d].pc = "parked" /\ Resumable(x)
  /\ dev' = [dev EXCEPT ![d] = [@ EXCEPT !.pc = "polled", !.guidance = x.guidance,
                             !.resumes = x.resumes, !.budget = Ceiling - x.cost]]
  /\ UNCHANGED <<row, spec, req>>

Resumed(x, d) == [x EXCEPT !.status = "running", !.guidance = {}, !.pauseOld = FALSE,
                           !.pauseReq = FALSE, !.resumes = dev[d].resumes + 1,
                           !.takers = x.takers \cup {d}]
Waiting(x) == [x EXCEPT !.pc = "parked", !.guidance = {}, !.resumes = 0, !.budget = 0]

PollFlip(d) ==
  LET s == dev[d].sid IN
  /\ dev[d].pc = "polled"
  /\ IF row[s].status = "resuming"
     THEN /\ row' = [row EXCEPT ![s] = Resumed(row[s], d)]
          /\ \/ dev' = [dev EXCEPT ![d] = [@ EXCEPT !.pc = "authoring",
                                                    !.guidance = {}, !.resumes = 0]]
             \/ dev' = [dev EXCEPT ![d] = Waiting(@)]
     ELSE dev' = [dev EXCEPT ![d] = Waiting(@)] /\ UNCHANGED row
  /\ UNCHANGED <<spec, req>>

\* The browser was closed, or the device's own cap on a pause was reached.
GiveUp(d) ==
  /\ dev[d].pc = "parked"
  /\ dev' = [dev EXCEPT ![d] = [@ EXCEPT !.pc = "finishing"]]
  /\ UNCHANGED <<row, spec, req>>

AuthoringDone(d) ==
  /\ dev[d].pc = "authoring"
  /\ dev' = [dev EXCEPT ![d] = [@ EXCEPT !.pc = "finishing"]]
  /\ UNCHANGED <<row, spec, req>>

\* The finalize handler finds the session and loads the spec, runs the gates,
\* commits the spec, and only then (network calls later) drops the row.
FinalizeBegin(d) ==
  LET s == dev[d].sid IN
  /\ dev[d].pc = "finishing"
  /\ dev' = IF Live(s)
            THEN LET c == row[s].case IN
                 [dev EXCEPT ![d] = [IdleDev EXCEPT !.pc = "gating", !.sid = s, !.case = c,
                                       !.seen = spec[c].status, !.seenCode = spec[c].code]]
            ELSE [dev EXCEPT ![d] = IdleDev]
  /\ UNCHANGED <<row, spec, req>>

\* What _generate_one makes of the posted code: written unless it was rejected
\* and a runnable spec is there to keep. Status and code are written only when
\* they differ from what the handler loaded.
Finalized(x, seen, seenCode, code, outcome) ==
  IF outcome = "rejected" /\ seenCode /\ seen /= "blocked" THEN x
  ELSE LET status == IF outcome = "passed" THEN "draft" ELSE "blocked" IN
       [status |-> IF seen = status THEN x.status ELSE status,
        code |-> IF ~code /\ ~seenCode THEN x.code ELSE code]

FinalizePersist(d) ==
  LET c == dev[d].case
      \* a row the handler did not find at first is looked up again
      seen == IF dev[d].seen = "none" THEN spec[c].status ELSE dev[d].seen
      seenCode == IF dev[d].seen = "none" THEN spec[c].code ELSE dev[d].seenCode
  IN
  /\ dev[d].pc = "gating"
  /\ \E code \in BOOLEAN, outcome \in {"passed", "blocked", "rejected"} :
       spec' = [spec EXCEPT ![c] = Finalized(@, seen, seenCode, code, outcome)]
  /\ dev' = [dev EXCEPT ![d] = [IdleDev EXCEPT !.pc = "dropping", !.sid = dev[d].sid]]
  /\ UNCHANGED <<row, req>>

FinalizeDrop(d) ==
  /\ dev[d].pc = "dropping"
  /\ row' = [row EXCEPT ![dev[d].sid] = NoRow]
  /\ dev' = [dev EXCEPT ![d] = IdleDev]
  /\ UNCHANGED <<spec, req>>

\* Posted once: a lost finalize, or one whose gates raise, is only logged.
FinalizeLost(d) ==
  /\ dev[d].pc \in {"finishing", "gating"}
  /\ dev' = [dev EXCEPT ![d] = IdleDev]
  /\ UNCHANGED <<row, spec, req>>

DeviceCrash(d) ==
  /\ dev[d].pc \in {"authoring", "parking", "parked", "finishing"}
  /\ dev' = [dev EXCEPT ![d] = IdleDev]
  /\ UNCHANGED <<row, spec, req>>

-----------------------------------------------------------------------------
(* Time, and the restart of the API.                                     *)

AgeClaim(s) ==
  /\ row[s].status \in OnDevice /\ ~row[s].claimOld
  /\ row' = [row EXCEPT ![s] = [@ EXCEPT !.claimOld = TRUE]]
  /\ UNCHANGED <<spec, req, dev>>

AgePause(s) ==
  /\ row[s].status \in {"paused", "resuming"} /\ ~row[s].pauseOld
  /\ row' = [row EXCEPT ![s] = [@ EXCEPT !.pauseOld = TRUE]]
  /\ UNCHANGED <<spec, req, dev>>

Expired(s) == row[s].status \in {"paused", "resuming"} /\ row[s].pauseOld

\* recover_orphaned_authoring: expired pauses and sessions no spec awaits are
\* dropped, and a running spec with no session left is reset.
Survives(s) == Live(s) /\ ~Expired(s) /\ spec[row[s].case].status = "running"
\* Mutant: the expired rows are deleted without a flush, so that they still
\* answer which cases have a session.
BootSweep_NoFlush ==
  /\ row' = [s \in Sids |-> IF Survives(s) THEN row[s] ELSE NoRow]
  /\ spec' = [c \in Cases |-> IF spec[c].status = "running" /\ ~HasRow(c)
                              THEN Reset(spec[c]) ELSE spec[c]]

BootSweep ==
  /\ row' = [s \in Sids |-> IF Survives(s) THEN row[s] ELSE NoRow]
  /\ spec' = [c \in Cases |->
                IF /\ spec[c].status = "running"
                   /\ ~\E s \in Sids : Survives(s) /\ row[s].case = c
                THEN Reset(spec[c]) ELSE spec[c]]

\* Threads die with the process; a device waiting for a reply gets an error:
\* it claims again, keeps polling, or forgets the finalize it has posted.
Restart ==
  /\ BootSweep
  /\ req' = [r \in Requests |-> IdleReq]
  /\ dev' = [d \in Devices |->
               IF dev[d].pc \in {"selected", "gating", "dropping"} THEN IdleDev
               ELSE IF dev[d].pc = "polled" THEN Waiting(dev[d]) ELSE dev[d]]

-----------------------------------------------------------------------------
RequestStep(r) ==
  \/ \E c \in Cases, s \in Sids : EnqueueStart(r, c, s)
  \/ RequestAuthoringExisting(r) \/ RequestAuthoringNew(r)
  \/ InsertSession(r) \/ MarkSpecRunning(r)
  \/ \E s \in Sids, t \in Turns : AddGuidanceRead(r, s, t)
  \/ AddGuidanceWrite(r)
  \/ \E s \in Sids : ContinueSilently(r, s)
  \/ \E s \in Sids, t \in Turns : ContinueWithGuidance(r, s, t)
  \/ BankGuidance(r) \/ FlipResuming(r)
  \/ \E c \in Cases : CancelDelete(r, c)
  \/ CancelMarkSpec(r) \/ StopReset(r) \/ StopPurge(r)

DeviceStep(d) ==
  \/ \E s \in Sids : ClaimSelect(d, s)
  \/ ClaimFlip(d) \/ PauseHeard(d) \/ ReportPaused(d)
  \/ PollAbort(d) \/ PollRead(d) \/ PollFlip(d) \/ GiveUp(d) \/ AuthoringDone(d)
  \/ FinalizeBegin(d) \/ FinalizePersist(d) \/ FinalizeDrop(d) \/ FinalizeLost(d)
  \/ DeviceCrash(d)

Next ==
  \/ \E r \in Requests : RequestStep(r)
  \/ \E d \in Devices : DeviceStep(d)
  \/ \E s \in Sids : RequestPause(s) \/ AgeClaim(s) \/ AgePause(s)
  \/ DropQueuedCases
  \/ Restart

Spec == Init /\ [][Next]_vars

-----------------------------------------------------------------------------
(* Properties.                                                           *)

\* However enqueuers race, a case has at most one session (#419).
OneRowPerCase ==
  \A s1, s2 \in Sids :
    Live(s1) /\ Live(s2) /\ row[s1].case = row[s2].case => s1 = s2

\* A session offered once - queued, or set resuming by Continue - is given to
\* one device only, whatever polls race or are repeated.
TakenOnce == \A s \in Sids : Cardinality(row[s].takers) <= 1

\* The resume cap bounds the resumes a session was ever granted, although the
\* check, the counter's read and its write are three statements.
ResumeCap == \A s \in Sids : row[s].resumes <= MaxResumes

\* The budget is one of the session: what a device has reported over all its
\* passes and what it may still spend in this one stay within the ceiling.
SessionBudget ==
  \A d \in Devices : dev[d].pc = "authoring" => dev[d].cost + dev[d].budget <= Ceiling

\* A pause the user may still continue is never given back to the queue; only
\* its own end (finalize, cancel, stop, the boot sweep) removes it.
LivePauseKept ==
  [][\A s \in Sids :
       row[s].status \in {"paused", "resuming"} /\ ~row[s].pauseOld
         => row'[s].status /= "queued"]_vars

\* After a restart a spec is "running" exactly when a session is there to
\* finish it, and no forgotten pause is left.
BootReconciles ==
  [][Restart => /\ \A c \in Cases : (spec'[c].status = "running") <=> HasRow(c)'
                /\ \A s \in Sids : ~Expired(s)']_vars

-----------------------------------------------------------------------------
(* Liveness: time passes, and a device keeps polling and gets an answer. *)

Poll(d) == PollAbort(d) \/ PollRead(d)

FairSpec ==
  /\ Spec
  /\ \A s \in Sids : WF_vars(AgePause(s))
  /\ \A d \in Devices : WF_vars(Poll(d)) /\ SF_vars(PollFlip(d))

\* A parked device, which holds a browser open on somebody's desktop, does not
\* stay parked: it is resumed or told to tear down.
ParkedEnds == \A d \in Devices : dev[d].pc = "parked" ~> dev[d].pc \notin {"parked", "polled"}
=============================================================================
