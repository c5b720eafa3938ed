---------------------------- MODULE LoginCapture ---------------------------
(***************************************************************************)
(* Manual logins of one project, and the devices that capture them: the    *)
(* headed browser of the server (playwright_runner), the queue of          *)
(* agent_capture_service, the pairing codes and devices of                 *)
(* agent_device_service, the endpoints of routers/projects.py and          *)
(* routers/agent.py, and the Local Agent's loop and window (runner.ts,     *)
(* ui.ts).                                                                 *)
(*                                                                         *)
(* Time is abstracted to the windows the code compares with: a claim is    *)
(* recent or stale (30 minutes), a request young or old (12 hours).  A     *)
(* capture lasts five minutes at most, so a claim turns stale only when no *)
(* device works on it any more.                                            *)
(* Names that MCSafety would meet twice begin with Login.                  *)
(***************************************************************************)
EXTENDS Naturals, FiniteSets

CONSTANTS
  Agents, Workers,   \* Local Agent processes; capture threads of the server
  Origins,            \* origins the project's base URL may have
  None,
  FailMax,            \* failed redemptions before redemption is throttled
  MaxClicks, MaxEdits, MaxRestarts, MaxLosses

CaptureRows ==
  [status : {"queued", "running"}, origin : Origins,
   claim : {"none", "recent", "stale"}, age : {"young", "old"}]
ASSUME LoginAssumption == FailMax \in Nat /\ None \notin CaptureRows

VARIABLES
  base, target,       \* the base URL's origin; settings.executionTarget
  marker,             \* agentAuthOrigin of the project's config, or None
  row,                \* the row of the capture queue, or None
  code, failures,     \* a pending pairing code; recent failed redemptions
  device,             \* what each device holds and does
  late,               \* ghost: a device held a request past its twelve hours
  file,               \* the server has a saved session
  capturing,          \* _capturing holds the project
  guarded,            \* requests past the check of _capturing
  worker, lock, cooldown,
  used

queue  == <<base, target, marker, row, late>>
agents == <<code, failures, device>>
server == <<file, capturing, guarded, worker, lock, cooldown>>
loginVars   == <<queue, agents, server, used>>

Limit == [clicks |-> MaxClicks, edits |-> MaxEdits, restarts |-> MaxRestarts, faults |-> MaxLosses]
Spends(w) == used[w] < Limit[w] /\ used' = [used EXCEPT ![w] = @ + 1]

Request(o) == [status |-> "queued", origin |-> o, claim |-> "none", age |-> "young"]
NoJob      == [at |-> "idle", origin |-> None, ok |-> FALSE]
Fresh      == [config |-> FALSE, valid |-> FALSE, job |-> NoJob, sessions |-> {}]

LoginInit ==
  /\ base \in Origins /\ target \in {"server", "local-agent"}
  /\ marker = None /\ row = None /\ late = FALSE
  /\ code = FALSE /\ failures = 0 /\ device = [d \in Agents |-> Fresh]
  /\ file = FALSE /\ capturing = FALSE /\ guarded = 0
  /\ worker = [w \in Workers |-> "none"] /\ lock = FALSE /\ cooldown = FALSE
  /\ used = [w \in DOMAIN Limit |-> 0]

Open(d)   == device[d].job.at = "browser"
Busy(d)   == device[d].job # NoJob
Paired(d) == device[d].config /\ device[d].valid      \* requests authenticate
Job(d, job) == device' = [device EXCEPT ![d].job = job]

(* ------------------------------ the project ---------------------------- *)
SetBaseUrl(o) == base' = o /\ o # base /\ Spends("edits") /\ UNCHANGED <<target, marker, row, late, agents, server>>
SetTarget(t)  == target' = t /\ t # target /\ Spends("edits") /\ UNCHANGED <<base, marker, row, late, agents, server>>

(* ---------------------- the queue of the Local Agent ------------------- *)
(* _is_live                                                                *)
IsLive(r) == r.age = "young" /\ (r.status = "running" => r.claim = "recent")

(* mutant: a click re-queues whatever is there                           *)
RequestCapture_Requeue(r, o) == Request(o)

(* request_capture on an existing row: the origin is refreshed in any case *)
RequestCapture(r, o) == IF IsLive(r) THEN [r EXCEPT !.origin = o] ELSE Request(o)

CaptureOnAgent ==
  /\ target = "local-agent"
  /\ \E d \in Agents : device[d].valid               \* else a 409
  /\ row' = IF row = None THEN Request(base) ELSE RequestCapture(row, base)
  /\ Spends("clicks")
  /\ UNCHANGED <<base, target, marker, late, agents, server>>

(* claim_next: the oldest queued row, then an UPDATE conditional on queued *)
SelectCapture(d) ==
  /\ Paired(d) /\ ~Busy(d)
  /\ row # None /\ row.status = "queued"
  /\ Job(d, [device[d].job EXCEPT !.at = "selected"])
  /\ UNCHANGED <<queue, code, failures, server, used>>

FlipCapture(d) ==
  /\ device[d].job.at = "selected"
  /\ IF row # None /\ row.status = "queued"
     THEN /\ row' = [row EXCEPT !.status = "running", !.claim = "recent"]
          /\ late' = (late \/ row.age = "old")
          /\ \/ device' = [device EXCEPT
                   ![d].job = [at |-> "browser", origin |-> row.origin, ok |-> FALSE],
                   ![d].sessions = @ \ {row.origin}]
                /\ UNCHANGED used
             \/ Job(d, NoJob) /\ Spends("faults")     \* the reply is lost
     ELSE Job(d, NoJob) /\ UNCHANGED <<row, late, used>>
  /\ UNCHANGED <<base, target, marker, code, failures, server>>

(* processCapture removes the session of the origin before the browser opens *)
(* (above); the window closes with a session saved, or without               *)
BrowserCloses(d) ==
  /\ Open(d)
  /\ \E ok \in BOOLEAN :
       device' = [device EXCEPT
         ![d].job = [@ EXCEPT !.at = "report", !.ok = ok],
         ![d].sessions = @ \cup (IF ok THEN {device[d].job.origin} ELSE {})]
  /\ UNCHANGED <<queue, code, failures, server, used>>

(* complete_auth_capture: finish deletes the row whatever its status, and *)
(* the marker names the row's origin                                      *)
PostComplete(d) ==
  /\ device[d].job.at = "report"
  /\ IF device[d].valid /\ row # None
     THEN row' = None /\ marker' = IF device[d].job.ok THEN row.origin ELSE marker
     ELSE UNCHANGED <<row, marker>>
  /\ Job(d, NoJob)
  /\ UNCHANGED <<base, target, late, code, failures, server, used>>

PostLost(d) ==
  /\ device[d].job.at = "report"
  /\ Job(d, NoJob) /\ Spends("faults")
  /\ UNCHANGED <<queue, code, failures, server>>

(* time passes: thirty minutes after a claim, twelve hours after a request *)
ClaimTurnsStale ==
  /\ row # None /\ row.claim = "recent" /\ \A d \in Agents : ~Busy(d)
  /\ row' = [row EXCEPT !.claim = "stale"]
  /\ UNCHANGED <<base, target, marker, late, agents, server, used>>

RequestTurnsOld ==
  /\ row # None /\ row.age = "young"
  /\ row' = [row EXCEPT !.age = "old"]
  /\ late' = (late \/ \E d \in Agents : Busy(d))
  /\ UNCHANGED <<base, target, marker, agents, server, used>>

(* sweep_stranded: an old row is dropped, a stale claim re-queued        *)
SweepStranded(r) ==
  IF r = None \/ r.age = "old" THEN None
  ELSE IF r.status = "running" /\ r.claim # "recent"
       THEN [r EXCEPT !.status = "queued", !.claim = "none"] ELSE r

(* ------------------------- the server's browser ------------------------ *)
CaptureOnServer ==
  /\ target = "server" /\ ~capturing
  /\ guarded' = guarded + 1
  /\ Spends("clicks")
  /\ UNCHANGED <<queue, agents, file, capturing, worker, lock, cooldown>>

(* start_capture, after its own test of the set                          *)
StartCapture(w) ==
  /\ guarded > 0 /\ worker[w] = "none"
  /\ guarded' = guarded - 1 /\ capturing' = TRUE
  /\ worker' = [worker EXCEPT ![w] = "start"]
  /\ UNCHANGED <<queue, agents, file, lock, cooldown, used>>

(* an execution whose project has no saved session opens the window itself *)
RunCaptures(w) ==
  /\ worker[w] = "none" /\ ~file
  /\ worker' = [worker EXCEPT ![w] = "run"]
  /\ Spends("clicks")
  /\ UNCHANGED <<queue, agents, file, capturing, guarded, lock, cooldown>>

(* capture_storage_state: on a cooldown or without the lock nothing opens *)
OpensWindow == ~cooldown /\ ~lock
CaptureStorageState(w) ==
  /\ worker[w] \in {"start", "run"}
  /\ IF OpensWindow
     THEN /\ lock' = TRUE
          /\ worker' = [worker EXCEPT ![w] = IF @ = "run" THEN "run window" ELSE "window"]
          /\ UNCHANGED capturing
     ELSE /\ worker' = [worker EXCEPT ![w] = "none"]
          /\ capturing' = (worker[w] = "run" /\ capturing)
          /\ UNCHANGED lock
  /\ UNCHANGED <<queue, agents, file, guarded, cooldown, used>>

(* _capture_once looks at the file, not at whether this window wrote it; a *)
(* window that closes at once without one starts the cooldown              *)
CaptureOnce(w) ==
  /\ worker[w] \in {"window", "run window"}
  /\ lock' = FALSE
  /\ worker' = [worker EXCEPT ![w] = "none"]
  /\ capturing' = (worker[w] = "run window" /\ capturing)
  /\ \/ file' = TRUE /\ UNCHANGED cooldown
     \/ UNCHANGED <<file, cooldown>>
     \/ ~file /\ cooldown' = TRUE /\ UNCHANGED file
  /\ UNCHANGED <<queue, agents, guarded, used>>

CooldownEnds == cooldown /\ cooldown' = FALSE /\ UNCHANGED <<queue, agents, file, capturing, guarded, worker, lock, used>>

(* clear_project_auth: the session file and the marker go                *)
ClearAuth ==
  /\ file \/ marker # None
  /\ file' = FALSE /\ marker' = None
  /\ Spends("edits")
  /\ UNCHANGED <<base, target, row, late, agents, capturing, guarded, worker, lock, cooldown>>

(* ------------------------------- pairing ------------------------------- *)
CreatePairingCode ==
  /\ ~code /\ code' = TRUE
  /\ UNCHANGED <<queue, failures, device, server, used>>

(* redeem_pairing_code pops the code; the device stores its token and starts *)
(* its loop                                                                  *)
Redeem(d) ==
  /\ failures < FailMax /\ ~device[d].config
  /\ code /\ code' = FALSE
  /\ device' = [device EXCEPT ![d].config = TRUE, ![d].valid = TRUE]
  /\ UNCHANGED <<queue, failures, server, used>>

RedeemWrong ==
  /\ failures < FailMax /\ failures' = failures + 1
  /\ Spends("faults")
  /\ UNCHANGED <<queue, code, device, server>>

CodeExpires == code /\ code' = FALSE /\ UNCHANGED <<queue, failures, device, server, used>>
WindowPasses == failures > 0 /\ failures' = 0 /\ UNCHANGED <<queue, code, device, server, used>>

(* revoke_device, by the owner; the device learns of it as refused requests *)
RevokeDevice(d) ==
  /\ device[d].valid
  /\ device' = [device EXCEPT ![d].valid = FALSE]
  /\ Spends("edits")
  /\ UNCHANGED <<queue, code, failures, server>>

(* Disconnect in the agent's window: the server is told, or not; the browser *)
(* is killed and its capture reports, in vain once the token is revoked; the *)
(* configuration goes                                                        *)
Disconnect(d) ==
  /\ device[d].config
  /\ \E told \in BOOLEAN :
       LET valid == device[d].valid /\ ~told
       IN  device' = [device EXCEPT
             ![d].config = FALSE, ![d].valid = valid,
             ![d].job = IF @.at \notin {"browser", "report"} THEN @
                        ELSE IF valid THEN [@ EXCEPT !.at = "report"] ELSE NoJob]
  /\ Spends("edits")
  /\ UNCHANGED <<queue, code, failures, server>>

(* the agent process dies with whatever it was doing, and starts again   *)
DeviceDies(d) ==
  /\ Busy(d) /\ Job(d, NoJob) /\ Spends("faults")
  /\ UNCHANGED <<queue, code, failures, server>>

(* The server stops and starts: threads, locks and codes are gone, and   *)
(* recover_orphaned_captures looks at the queue.                         *)
LoginRestart ==
  /\ row' = SweepStranded(row)
  /\ code' = FALSE /\ failures' = 0
  /\ capturing' = FALSE /\ guarded' = 0 /\ lock' = FALSE /\ cooldown' = FALSE
  /\ worker' = [w \in Workers |-> "none"]
  /\ device' = [d \in Agents |-> IF device[d].job.at = "selected" THEN [device[d] EXCEPT !.job = NoJob] ELSE device[d]]
  /\ Spends("restarts")
  /\ UNCHANGED <<base, target, marker, late, file>>

LoginNext ==
  \/ \E o \in Origins : SetBaseUrl(o)
  \/ \E t \in {"server", "local-agent"} : SetTarget(t)
  \/ CaptureOnAgent \/ ClaimTurnsStale \/ RequestTurnsOld
  \/ \E d \in Agents :
       \/ SelectCapture(d) \/ FlipCapture(d) \/ BrowserCloses(d) \/ PostComplete(d) \/ PostLost(d)
       \/ Redeem(d) \/ RevokeDevice(d) \/ Disconnect(d) \/ DeviceDies(d)
  \/ CaptureOnServer \/ CooldownEnds \/ ClearAuth
  \/ \E w \in Workers : StartCapture(w) \/ RunCaptures(w) \/ CaptureStorageState(w) \/ CaptureOnce(w)
  \/ CreatePairingCode \/ RedeemWrong \/ CodeExpires \/ WindowPasses
  \/ LoginRestart

LoginSpec == LoginInit /\ [][LoginNext]_loginVars

(* ------------------------------ properties ----------------------------- *)
(* Every variable keeps its shape.                                         *)
LoginTypeOK ==
  /\ base \in Origins /\ target \in {"server", "local-agent"} /\ marker \in Origins \cup {None}
  /\ row \in CaptureRows \cup {None}
  /\ code \in BOOLEAN /\ failures \in 0..FailMax
  /\ device \in [Agents -> [config : BOOLEAN, valid : BOOLEAN, sessions : SUBSET Origins,
                            job : [at : {"idle", "selected", "browser", "report"},
                                   origin : Origins \cup {None}, ok : BOOLEAN]]]
  /\ late \in BOOLEAN /\ file \in BOOLEAN /\ capturing \in BOOLEAN /\ guarded \in Nat
  /\ lock \in BOOLEAN /\ cooldown \in BOOLEAN /\ used \in [DOMAIN Limit -> Nat]
  /\ worker \in [Workers -> {"none", "start", "run", "window", "run window"}]

(* At most one login window of the project is open on the server and at most *)
(* one on the operator's devices, whatever is clicked, restarted, lost or    *)
(* revoked.  A request older than twelve hours is the exception: claim_next  *)
(* still hands it out, and request_capture and the boot sweep then treat the *)
(* claim as dead, so nothing is claimed of a history with such a claim.      *)
OneLoginWindow ==
  /\ Cardinality({w \in Workers : worker[w] \in {"window", "run window"}}) <= 1
  /\ late \/ Cardinality({d \in Agents : Open(d)}) <= 1
=============================================================================
