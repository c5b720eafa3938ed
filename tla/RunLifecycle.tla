---------------------------- MODULE RunLifecycle ----------------------------
(***************************************************************************)
(* The lifecycle of one run: its row, the cancel registry of run_control,  *)
(* the in-memory guards of the generation and link passes, the background  *)
(* threads that carry the run from stage to stage, and the request threads *)
(* that create, cancel, stop, retry, regenerate, publish and delete it.    *)
(*                                                                         *)
(* A database session keeps the row as it loaded it: a commit writes only  *)
(* the columns whose value differs from the loaded one, and a guard reads  *)
(* the loaded value until something expires the row (a rollback, or an     *)
(* explicit expire_all). "seen" and "was" are those loaded values. Every   *)
(* action is one commit, one read of the database, or one operation on the *)
(* registry; threads interleave between any two of them.                   *)
(***************************************************************************)
EXTENDS Naturals, Sequences

CONSTANTS
  Workers,   \* slots for background threads (and agent executions)
  Handlers,  \* request threads that act on the run
  Commands,  \* the requests users make, a subset of AllCommands
  Items,     \* tickets of the run, or cases of a generation or link pass
  Dry        \* what the run may have been created with in link_dry_run

AllCommands == {"cancel", "stop", "retry", "regenerate", "delete", "link",
                "generate", "execute", "prepare", "publish"}

ASSUME CommandsAssumption == Commands \subseteq AllCommands
ASSUME ItemsAssumption == Items \in Nat \ {0}
ASSUME DryAssumption == Dry \subseteq BOOLEAN

VARIABLES
  run,        \* the row: status, failed_stage, cancel_requested, link_dry_run
  event,      \* the in-memory cancel event of run_control is set
  generating, \* the run is in automation._generating
  linking,    \* the run is in link_service._running
  approved,   \* some of its test cases are approved (and automatable)
  output,     \* "none", "executed" (an execution exists), or "drafted" (comments too)
  worker,     \* slot -> the thread in it
  handler     \* request thread -> the steps it still has to take

vars == <<run, event, generating, linking, approved, output, worker, handler>>

InProgress == {"processing", "review", "sync", "automation", "executing",
               "evidence", "comment"}
Terminal == {"done", "cancelled", "failed"}   \* TERMINAL_RUN_STATUSES
Status == InProgress \cup Terminal            \* RUN_STATUSES

\* "gone" is the row after a hard delete.
RunRow == [status: Status \cup {"gone"}, failedStage: Status \cup {"none"},
           flag: BOOLEAN, dry: BOOLEAN]

\* remote: an execution claimed by a paired device, which outlives the API.
\* prepare: the request thread of prepare_comments, minutes long.
Kinds == {"pipeline", "link", "localLink", "generation", "execution",
          "remote", "prepare"}
WorkerPC == {"load", "open", "clear", "check", "begin", "register", "work",
             "recheck", "settle", "advance", "fail", "crashing", "crashed"}
Seen == Status \cup {"gone", "expired"}

\* seen is only kept while the thread may still use it: a pipeline reloads the
\* row at its end, a link pass uses what it loaded once.
\* proc is the subprocess of the current item: "alive" is one run_control has
\* no handle on. late is history: items begun since cancel_requested was set.
Thread == [kind: Kinds, pc: WorkerPC, seen: Seen, left: 0..Items,
           proc: {"none", "alive", "tracked"}, late: Nat]
IdleWorker == [kind |-> "none", pc |-> "idle", seen |-> "expired", left |-> 0,
               proc |-> "none", late |-> 0]

Steps == {"flag", "event", "kill", "cancel", "cleanup", "clear", "unflag",
          "force", "reopen", "credential", "blame", "refuse", "dispatch",
          "launch", "delete", "wipe"}
Stages == {"processing", "sync", "automation", "executing", "comment",
           "drafting"}
Unread == [status |-> "gone", failedStage |-> "none", flag |-> FALSE, dry |-> FALSE]
IdleHandler == [cmd |-> "none", todo |-> <<>>, stage |-> "none", was |-> Unread]
\* cmd "create" is create_run after the commit of the row.
Serving == [cmd: AllCommands \cup {"create"}, todo: Seq(Steps), stage: Stages,
            was: RunRow]

-----------------------------------------------------------------------------
(* The session semantics shared by every thread.                         *)

\* A commit of the row as "new" by a session that loaded it as "old".
Flushed(old, new) ==
  IF run.status = "gone" THEN run
  ELSE [c \in DOMAIN run |-> IF new[c] # old[c] THEN new[c] ELSE run[c]]

\* set_run_status(db, run, new) by a session whose row says "seen".
StatusSet(seen, new) ==
  IF seen \in Terminal \/ run.status = "gone" \/ new = seen THEN run
  ELSE [run EXCEPT !.status = new]

\* failed_stage = stage, then set_run_status(db, run, "failed").
FailedAt(seen, stage) ==
  IF seen \in Terminal \/ run.status = "gone" THEN run
  ELSE [run EXCEPT !.status = "failed", !.failedStage = stage]

\* Mutant: is_cancelled without the fallback to the durable flag.
IsCancelled_EventOnly == event

\* run_control.is_cancelled: the event, or a fresh read of the flag.
IsCancelled == event \/ (run.status # "gone" /\ run.flag)

\* run_control.clear drops the handles of live processes with the event.
Untracked(ws) ==
  [w \in Workers |->
     [ws[w] EXCEPT !.proc = IF @ = "tracked" THEN "alive" ELSE @]]

\* run_control.kill_processes: an untracked process is out of its reach.
Killed(ws) ==
  [w \in Workers |->
     [ws[w] EXCEPT !.proc = IF @ = "tracked" THEN "none" ELSE @]]

-----------------------------------------------------------------------------
(* Background threads.                                                   *)

Dispatched(kind) ==
  [kind |-> kind, pc |-> IF kind = "remote" THEN "work" ELSE "load",
   seen |-> "expired",
   left |-> IF kind \in {"execution", "remote", "prepare"} THEN 1 ELSE Items,
   proc |-> "none", late |-> 0]

Start(w, kind) ==
  /\ worker[w].pc = "idle"
  /\ worker' = [worker EXCEPT ![w] = Dispatched(kind)]

\* Mutant: the guards are dropped on the normal path only.
Leave_KeepsGuard(w) ==
  /\ worker' = [worker EXCEPT ![w] = IdleWorker]
  /\ UNCHANGED <<generating, linking>>

\* The thread ends; its finally block drops the guard it was started under.
Leave(w) ==
  /\ worker' = [worker EXCEPT ![w] = IdleWorker]
  /\ generating' = (generating /\ worker[w].kind # "generation")
  /\ linking' = (linking /\ worker[w].kind \notin {"link", "localLink"})

Goto(w, pc) == worker' = [worker EXCEPT ![w].pc = pc]

KeepGuards == UNCHANGED <<generating, linking>>

\* A generation pass may find no case left to generate.
WorkerLoad(w) ==
  LET k == worker[w].kind
      next(left) == CASE k \in {"link", "localLink"} -> "open"
                       [] k = "prepare" -> "clear"
                       [] k = "generation" /\ left = 0 -> "advance"
                       [] OTHER -> "check"
  IN /\ worker[w].pc = "load"
     /\ \/ /\ run.status = "gone" /\ Leave(w)
        \/ \E left \in {worker[w].left} \cup (IF k = "generation" THEN {0} ELSE {}) :
             /\ run.status # "gone" /\ KeepGuards
             /\ k = "generation" /\ left > 0 => approved
             /\ worker' = [worker EXCEPT ![w].pc = next(left), ![w].left = left,
                  ![w].seen = IF k = "pipeline" THEN "expired" ELSE run.status]
     /\ UNCHANGED <<run, event, approved, output, handler>>

\* link_service._worker moves the run to sync before its first ticket.
OpenSync(w) ==
  /\ worker[w].pc = "open"
  /\ run' = StatusSet(worker[w].seen, "sync")
  /\ \/ (worker[w].seen \in Terminal \/ ~approved) /\ Leave(w)
     \/ /\ worker[w].seen \notin Terminal /\ approved /\ KeepGuards
        /\ worker' = [worker EXCEPT ![w].pc = "check", ![w].seen = "expired"]
  /\ UNCHANGED <<event, approved, output, handler>>

\* prepare_comments drops the registry entries of the whole run.
PrepareClears(w) ==
  /\ worker[w].pc = "clear"
  /\ event' = FALSE
  /\ worker' = [Untracked(worker) EXCEPT ![w].pc = "begin"]
  /\ UNCHANGED <<run, generating, linking, approved, output, handler>>

CheckCancelled(w) ==
  /\ worker[w].pc = "check"
  /\ \/ IsCancelled /\ Leave(w)
     \/ ~IsCancelled /\ Goto(w, "begin") /\ KeepGuards
  /\ UNCHANGED <<run, event, approved, output, handler>>

\* The next ticket or case: a subprocess is spawned, except by a link pass.
\* A generation pass reads the run here if the last case rolled it back; an
\* item that first commits to its own row fails if the run was deleted.
BeginItem(w) ==
  LET links == worker[w].kind \in {"link", "localLink"} IN
  /\ worker[w].pc = "begin"
  /\ \/ run.status = "gone" /\ Leave(w)
     \/ /\ worker' = [worker EXCEPT
              ![w].pc = IF links THEN "work" ELSE "register",
              ![w].proc = IF links THEN "none" ELSE "alive",
              ![w].seen = IF worker[w].kind = "generation" /\ @ = "expired"
                          THEN run.status ELSE @,
              ![w].late = IF run.flag /\ run.status # "gone" THEN @ + 1 ELSE @]
        /\ KeepGuards
  /\ UNCHANGED <<run, event, approved, output, handler>>

\* Mutant: register_process tracks without looking at the event.
RegisterProcess_Unguarded(w) ==
  /\ worker[w].pc = "register"
  /\ worker' = [worker EXCEPT ![w].pc = "work", ![w].proc = "tracked"]
  /\ UNCHANGED <<run, event, generating, linking, approved, output, handler>>

\* run_control.register_process.
RegisterProcess(w) ==
  /\ worker[w].pc = "register"
  /\ worker' = [worker EXCEPT ![w].pc = "work",
                              ![w].proc = IF event THEN "none" ELSE "tracked"]
  /\ UNCHANGED <<run, event, generating, linking, approved, output, handler>>

\* Where a thread goes when an item ends; a rolled-back session must reload.
AfterItem(k, left, seen) ==
  CASE k = "execution" -> "recheck"
    [] k = "remote" -> "settle"
    [] k = "prepare" -> "advance"
    [] k \notin {"execution", "remote", "prepare"} /\ left > 0 -> "check"
    [] k = "pipeline" /\ left = 0 -> "settle"
    [] k = "generation" /\ left = 0 ->
         IF seen = "expired" THEN "settle" ELSE "advance"
    [] OTHER -> "leave"

ItemEnded(w, seen) ==
  LET left == worker[w].left - 1
      next == AfterItem(worker[w].kind, left, seen)
  IN IF next = "leave" THEN Leave(w)
     ELSE /\ worker' = [worker EXCEPT ![w].pc = next, ![w].left = left,
                                      ![w].proc = "none", ![w].seen = seen]
          /\ KeepGuards

EndItem(w) ==
  /\ worker[w].pc = "work"
  /\ \/ ItemEnded(w, worker[w].seen)
     \/ worker[w].kind = "generation" /\ ItemEnded(w, "expired") \* rolled back
  /\ output' \in {output} \cup IF worker[w].kind = "prepare" /\ output = "executed"
                              THEN {"drafted"} ELSE {}
  /\ UNCHANGED <<run, event, approved, handler>>

\* run_execution discards a run that was cancelled under it.
RecheckCancelled(w) ==
  /\ worker[w].pc = "recheck"
  /\ \/ IsCancelled /\ Leave(w)
     \/ ~IsCancelled /\ Goto(w, "advance") /\ KeepGuards
  /\ UNCHANGED <<run, event, approved, output, handler>>

\* A fresh load before the stage is finished; the pipeline has failed if no
\* ticket succeeded, and ends quietly if it was cancelled in its pool.
Settle(w) ==
  /\ worker[w].pc = "settle"
  /\ \/ worker[w].kind = "pipeline" /\ IsCancelled /\ Leave(w)
     \/ \E next \in {"advance", "fail"} :
          /\ next = "fail" => worker[w].kind = "pipeline"
          /\ worker' = [worker EXCEPT ![w].pc = next, ![w].seen = run.status]
          /\ KeepGuards
  /\ UNCHANGED <<run, event, approved, output, handler>>

StageDone(k) ==
  CASE k = "pipeline" -> "review"
    [] k = "generation" -> "automation"
    [] k \in {"execution", "remote"} -> "evidence"
    [] OTHER -> "comment"

Advance(w) ==
  /\ worker[w].pc = "advance"
  /\ run' = StatusSet(worker[w].seen, StageDone(worker[w].kind))
  /\ Leave(w)
  /\ UNCHANGED <<event, approved, output, handler>>

AllTicketsFailed(w) ==
  /\ worker[w].pc = "fail"
  /\ run' = FailedAt(worker[w].seen, "processing")
  /\ Leave(w)
  /\ UNCHANGED <<event, approved, output, handler>>

\* An exception in a thread's body: rollback, reload, then failed. A request
\* thread or a device just goes away.
Crash(w) ==
  /\ worker[w].pc \in {"check", "work", "advance"}
  /\ \/ /\ worker[w].kind \in {"prepare", "remote"} /\ Leave(w)
     \/ /\ worker[w].kind \notin {"prepare", "remote"} /\ KeepGuards
        /\ worker' = [worker EXCEPT ![w].pc = "crashing", ![w].proc = "none",
                                    ![w].seen = "expired"]
  /\ UNCHANGED <<run, event, approved, output, handler>>

CrashReload(w) ==
  /\ worker[w].pc = "crashing"
  /\ worker' = [worker EXCEPT ![w].pc = "crashed", ![w].seen = run.status]
  /\ UNCHANGED <<run, event, generating, linking, approved, output, handler>>

CrashFails(w) ==
  /\ worker[w].pc = "crashed"
  /\ run' = FailedAt(worker[w].seen, worker[w].seen)
  /\ Leave(w)
  /\ UNCHANGED <<event, approved, output, handler>>

WorkerStep(w) ==
  \/ WorkerLoad(w) \/ OpenSync(w) \/ PrepareClears(w) \/ CheckCancelled(w)
  \/ BeginItem(w) \/ RegisterProcess(w) \/ EndItem(w) \/ RecheckCancelled(w)
  \/ Settle(w) \/ Advance(w) \/ AllTicketsFailed(w) \/ CrashReload(w)
  \/ CrashFails(w)

-----------------------------------------------------------------------------
(* Request threads.                                                      *)

\* _RETRY_RESUME_STAGE, with processing for an unknown or missing stage.
ResumeStage(failedStage) ==
  CASE failedStage \in {"sync", "automation", "executing", "comment"} -> failedStage
    [] failedStage = "evidence" -> "executing"
    [] OTHER -> "processing"

\* The steps a request takes, given the row it loaded.
Script(cmd, r) ==
  CASE cmd = "cancel" -> <<"flag", "event", "kill", "cancel", "cleanup">>
    [] cmd = "stop" ->
         IF r.status \in Terminal THEN <<"event", "kill", "cleanup">>
         ELSE <<"flag", "cancel", "event", "kill", "cleanup">>
    [] cmd = "retry" ->
         IF ResumeStage(r.failedStage) = "processing"
         THEN <<"clear", "unflag", "force", "credential", "wipe", "dispatch">>
         ELSE <<"clear", "unflag", "force", "credential", "dispatch">>
    [] cmd = "regenerate" -> <<"wipe", "reopen", "credential", "dispatch">>
    [] cmd = "delete" -> <<"delete", "clear">>
    [] OTHER -> <<"dispatch">>

\* What a request dispatches: a stage of the pipeline, or the comment draft.
Target(cmd, r) ==
  CASE cmd = "retry" -> ResumeStage(r.failedStage)
    [] cmd = "link" -> "sync"
    [] cmd = "generate" -> "automation"
    [] cmd = "execute" -> "executing"
    [] cmd = "publish" -> "comment"
    [] cmd = "prepare" -> "drafting"
    [] OTHER -> "processing"

Accepted(cmd) ==
  /\ run.status # "gone"
  /\ cmd = "cancel" => run.status \notin Terminal
  /\ cmd \in {"retry", "delete"} => run.status \in Terminal
  /\ cmd = "link" => approved
  /\ cmd = "publish" => output = "drafted"

Request(h, cmd) ==
  /\ handler[h].todo = <<>> /\ Accepted(cmd)
  /\ handler' = [handler EXCEPT ![h] =
        [cmd |-> cmd, todo |-> Script(cmd, run), stage |-> Target(cmd, run),
         was |-> run]]
  /\ UNCHANGED <<run, event, generating, linking, approved, output, worker>>

At(h, step) == handler[h].todo # <<>> /\ Head(handler[h].todo) = step

\* Thread h goes on with "rest", its session now holding the row "now".
Resume(h, rest, now) ==
  handler' = [handler EXCEPT ![h] =
    IF rest = <<>> THEN IdleHandler
    ELSE [handler[h] EXCEPT !.todo = rest, !.was = now]]

StepDone(h) == Resume(h, Tail(handler[h].todo), handler[h].was)

\* A commit that finds no row to update ends the request.
Saves(h, new) ==
  LET lost == run.status = "gone" /\ new # handler[h].was IN
  /\ run' = Flushed(handler[h].was, new)
  /\ Resume(h, IF lost THEN <<>> ELSE Tail(handler[h].todo), new)

SetFlag(h) ==
  /\ At(h, "flag")
  /\ Saves(h, [handler[h].was EXCEPT !.flag = TRUE])
  /\ UNCHANGED <<event, generating, linking, approved, output, worker>>

RequestCancel(h) ==
  /\ At(h, "event")
  /\ event' = TRUE /\ StepDone(h)
  /\ UNCHANGED <<run, generating, linking, approved, output, worker>>

KillProcesses(h) ==
  /\ At(h, "kill")
  /\ worker' = Killed(worker) /\ StepDone(h)
  /\ UNCHANGED <<run, event, generating, linking, approved, output>>

SetCancelled(h) ==
  /\ At(h, "cancel")
  /\ Saves(h, [handler[h].was EXCEPT !.status = "cancelled"])
  /\ UNCHANGED <<event, generating, linking, approved, output, worker>>

\* _stop_run_work: forget_run and forget_generating (the queues and rows it
\* also resets belong to other modules).
StopRunWork(h) ==
  /\ At(h, "cleanup")
  /\ generating' = FALSE /\ linking' = FALSE /\ StepDone(h)
  /\ UNCHANGED <<run, event, approved, output, worker>>

ClearRegistry(h) ==
  /\ At(h, "clear")
  /\ event' = FALSE /\ worker' = Untracked(worker) /\ StepDone(h)
  /\ UNCHANGED <<run, generating, linking, approved, output>>

\* Mutant: a retry forgets to reset cancel_requested.
ResetCancel_KeepsFlag(h) ==
  /\ At(h, "unflag")
  /\ Saves(h, [handler[h].was EXCEPT !.failedStage = "none"])
  /\ UNCHANGED <<event, generating, linking, approved, output, worker>>

\* The cancel bookkeeping of the run is reset, for the threads still running
\* as much as for the one a retry is about to start.
ResetCancel(h) ==
  /\ At(h, "unflag")
  /\ Saves(h, [handler[h].was EXCEPT !.flag = FALSE, !.failedStage = "none"])
  /\ worker' = [w \in Workers |->
                  IF run'.flag THEN worker[w] ELSE [worker[w] EXCEPT !.late = 0]]
  /\ UNCHANGED <<event, generating, linking, approved, output>>

ForceStatus(h) ==
  /\ At(h, "force")
  /\ Saves(h, [handler[h].was EXCEPT !.status = handler[h].stage])
  /\ UNCHANGED <<event, generating, linking, approved, output, worker>>

\* regenerate_run: set_run_status(db, run, "processing"), result ignored.
Reopen(h) ==
  /\ At(h, "reopen")
  /\ \/ handler[h].was.status \in Terminal /\ StepDone(h) /\ UNCHANGED run
     \/ /\ handler[h].was.status \notin Terminal
        /\ Saves(h, [handler[h].was EXCEPT !.status = "processing"])
  /\ UNCHANGED <<event, generating, linking, approved, output, worker>>

\* _prepare_claude_credential: the hub may refuse the run a credential.
PrepareCredential(h) ==
  /\ At(h, "credential")
  /\ \/ StepDone(h)
     \/ Resume(h, <<"blame", "refuse">>, handler[h].was)
  /\ UNCHANGED <<run, event, generating, linking, approved, output, worker>>

BlameProcessing(h) ==
  /\ At(h, "blame")
  /\ Saves(h, [handler[h].was EXCEPT !.failedStage = "processing"])
  /\ UNCHANGED <<event, generating, linking, approved, output, worker>>

Refuse(h) ==
  /\ At(h, "refuse")
  /\ Saves(h, [handler[h].was EXCEPT !.status = "failed"])
  /\ UNCHANGED <<event, generating, linking, approved, output, worker>>

\* The AI output of the run is deleted before it is generated again.
WipeCases(h) ==
  /\ At(h, "wipe")
  /\ approved' = FALSE /\ StepDone(h)
  /\ UNCHANGED <<run, event, generating, linking, output, worker>>

DispatchPipeline(h) ==
  /\ At(h, "dispatch") /\ handler[h].stage = "processing"
  /\ \E w \in Workers : Start(w, "pipeline")
  /\ StepDone(h)
  /\ UNCHANGED <<run, event, generating, linking, approved, output>>

DispatchDraft(h) ==
  /\ At(h, "dispatch") /\ handler[h].stage = "drafting"
  /\ \E w \in Workers : Start(w, "prepare")
  /\ StepDone(h)
  /\ UNCHANGED <<run, event, generating, linking, approved, output>>

\* start_create_link. The endpoint only ever tightens the run's dry-run
\* choice; retry_run passes none, so its pass contacts the provider.
LinkKinds(h) ==
  CASE handler[h].cmd = "retry" -> {"link"}
    [] handler[h].cmd # "retry" /\ handler[h].was.dry -> {"localLink"}
    [] OTHER -> {"link", "localLink"}

StartCreateLink(h) ==
  /\ At(h, "dispatch") /\ handler[h].stage = "sync"
  /\ \/ linking /\ UNCHANGED <<linking, worker>>
     \/ ~linking /\ linking' = TRUE
        /\ \E w \in Workers, k \in LinkKinds(h) : Start(w, k)
  /\ StepDone(h)
  /\ UNCHANGED <<run, event, generating, approved, output>>

GenerateAutomation(h) ==
  /\ At(h, "dispatch") /\ handler[h].stage = "automation"
  /\ \/ generating /\ UNCHANGED <<generating, worker>>
     \/ ~generating /\ generating' = TRUE
        /\ \E w \in Workers : Start(w, "generation")
     \/ UNCHANGED <<generating, worker>>   \* the hub refuses a credential
  /\ StepDone(h)
  /\ UNCHANGED <<run, event, linking, approved, output>>

\* start_execution and run_single_spec, which may find nothing to run or no
\* paired device.
StartExecution(h) ==
  LET was == handler[h].was IN
  /\ At(h, "dispatch") /\ handler[h].stage = "executing"
  /\ \/ StepDone(h) /\ UNCHANGED <<run, output>>
     \/ /\ approved
        /\ output' = IF output = "none" THEN "executed" ELSE output
        /\ run' = StatusSet(was.status, "executing")
        /\ Resume(h, <<"launch">>, was)
  /\ UNCHANGED <<event, generating, linking, approved, worker>>

\* The server's thread, or the device that claims the queued execution.
LaunchExecution(h) ==
  /\ At(h, "launch")
  /\ \E w \in Workers, k \in {"execution", "remote"} : Start(w, k)
  /\ StepDone(h)
  /\ UNCHANGED <<run, event, generating, linking, approved, output>>

\* publish_comment(s) and retry_comments end in _maybe_finish_run, which
\* completes the run once every comment is settled and one is published.
CompleteRun(h) ==
  LET was == handler[h].was IN
  /\ At(h, "dispatch") /\ handler[h].stage = "comment"
  /\ \/ UNCHANGED run
     \/ /\ output = "drafted" /\ was.status \notin {"cancelled", "done"}
        /\ run' = Flushed(was, [was EXCEPT !.status = "done", !.failedStage = "none"])
  /\ StepDone(h)
  /\ UNCHANGED <<event, generating, linking, approved, output, worker>>

DeleteRow(h) ==
  /\ At(h, "delete")
  /\ run' = [run EXCEPT !.status = "gone"]
  /\ StepDone(h)
  /\ UNCHANGED <<event, generating, linking, approved, output, worker>>

HandlerStep(h) ==
  \/ SetFlag(h) \/ RequestCancel(h) \/ KillProcesses(h) \/ SetCancelled(h)
  \/ StopRunWork(h) \/ ClearRegistry(h) \/ ResetCancel(h) \/ ForceStatus(h)
  \/ Reopen(h) \/ WipeCases(h) \/ PrepareCredential(h) \/ BlameProcessing(h) \/ Refuse(h)
  \/ DispatchPipeline(h) \/ DispatchDraft(h) \/ StartCreateLink(h)
  \/ GenerateAutomation(h) \/ StartExecution(h) \/ LaunchExecution(h)
  \/ CompleteRun(h) \/ DeleteRow(h)

-----------------------------------------------------------------------------
\* A reviewer approves a generated test case, or one written by hand.
Approve ==
  /\ ~approved /\ approved' = TRUE
  /\ UNCHANGED <<run, event, generating, linking, output, worker, handler>>

\* The API goes down and comes back: its threads are gone, the device is not,
\* and recover_orphaned_runs fails a run whose work was abandoned.
Restart ==
  /\ worker' = [w \in Workers |->
                  IF worker[w].kind = "remote" THEN worker[w] ELSE IdleWorker]
  /\ handler' = [h \in Handlers |-> IdleHandler]
  /\ event' = FALSE /\ generating' = FALSE /\ linking' = FALSE
  /\ run' = IF run.status \in InProgress \ {"review"}
            THEN FailedAt(run.status, run.status) ELSE run
  /\ UNCHANGED <<approved, output>>

\* create_run has committed the row; its request goes on to the pipeline.
Init ==
  /\ run \in [status: {"processing"}, failedStage: {"none"}, flag: {FALSE}, dry: Dry]
  /\ event = FALSE /\ generating = FALSE /\ linking = FALSE
  /\ approved = FALSE /\ output = "none"
  /\ worker = [w \in Workers |-> IdleWorker]
  /\ \E creator \in Handlers :
       handler = [h \in Handlers |->
         IF h = creator
         THEN [cmd |-> "create", todo |-> <<"credential", "dispatch">>,
               stage |-> "processing", was |-> run]
         ELSE IdleHandler]

Next ==
  \/ \E w \in Workers : WorkerStep(w) \/ Crash(w)
  \/ \E h \in Handlers : HandlerStep(h)
  \/ \E h \in Handlers, cmd \in Commands : Request(h, cmd)
  \/ Approve
  \/ Restart

Spec == Init /\ [][Next]_vars

\* Threads of the API are scheduled and every external call they wait for has
\* a timeout. Nothing is assumed of users, devices, crashes or restarts.
Fairness ==
  /\ \A w \in Workers : WF_vars(worker[w].kind # "remote" /\ WorkerStep(w))
  /\ \A h \in Handlers : WF_vars(HandlerStep(h))

FairSpec == Spec /\ Fairness

-----------------------------------------------------------------------------
(* Properties.                                                           *)

\* Every variable stays in its type; in particular a retry always resumes at
\* a stage that has a worker, whatever failed_stage says.
TypeOK ==
  /\ run \in RunRow
  /\ event \in BOOLEAN /\ generating \in BOOLEAN /\ linking \in BOOLEAN
  /\ approved \in BOOLEAN /\ output \in {"none", "executed", "drafted"}
  /\ worker \in [Workers -> Thread \cup {IdleWorker}]
  /\ handler \in [Handlers -> Serving \cup {IdleHandler}]

\* Once cancel_requested is committed, a thread that was already running
\* begins at most the one item it had passed the checkpoint for: the ticket
\* loop of the pipeline and the passes over cases stop there (run_control.
\* is_cancelled), even when the event is set later, was cleared by
\* prepare_comments or was lost.
BoundedOverrun == \A w \in Workers : worker[w].late <= 1

\* Once a cancel or stop has killed what it found, and as long as its event
\* stands, no subprocess of the run is alive beyond the moment between its
\* spawn and its registration (run_control.register_process): none escapes
\* by being spawned around the kill.
NoEscape ==
  event /\ (\A h \in Handlers : ~At(h, "kill"))
    => \A w \in Workers : worker[w].proc # "none" => worker[w].pc = "register"

\* A guard against a second pass never outlives the pass: a run marked
\* generating or linking has a thread that will drop the mark, however the
\* pass ends (finally blocks of automation._run_generation and
\* link_service._worker) and whoever else dropped and took it meanwhile.
GuardBacked ==
  /\ generating => \E w \in Workers : worker[w].kind = "generation"
  /\ linking => \E w \in Workers : worker[w].kind \in {"link", "localLink"}

\* A run never sits in processing for ever: it reaches review or a terminal
\* status, through refused credentials, crashes, cancels, stops, retries and
\* restarts.
ProcessingEnds == run.status = "processing" ~> run.status # "processing"

\* ADR 0005: a terminal run is never advanced by a worker, so a thread that
\* ends a stage after a cancel cannot resurrect the run; only requests do.
TerminalStands ==
  [][run.status \in Terminal /\ run'.status \in InProgress => handler' # handler]_vars
=============================================================================
