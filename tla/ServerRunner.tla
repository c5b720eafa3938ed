---------------------------- MODULE ServerRunner ----------------------------
(**************************************************************************)
(* Playwright on the server (playwright_runner): the execution of a run's *)
(* specs and the self-heal of one of them.  Both are background threads   *)
(* that work in the same staged directory of the run, spawn Playwright    *)
(* there and read what it left in report.json; nothing deletes that file  *)
(* before a spawn.  A run has one execution at a time: starting another   *)
(* deletes the rows of the one before, whose thread finds them gone.      *)
(* What the repair of a spec does is HealLoop's; the lifecycle of the run *)
(* with its sessions is RunLifecycle's: here a status is read fresh.      *)
(* Names MCSafety would meet twice say Runner.                            *)
(**************************************************************************)
EXTENDS Integers, FiniteSets

CONSTANTS
  RunCases,     \* the automated test cases of the run
  Slots,        \* slots for background threads
  MaxStarts,    \* bound: executions and heals started
  HealAttempts, \* settings.heal_max_attempts
  MaxStops      \* bound: stops of the run

ASSUME RunnerAssumption == IsFiniteSet(RunCases)

VARIABLES
  status,   \* run.status
  cancel,   \* the cancel event (and cancel_requested)
  exec,     \* the latest Execution: number, status, counts
  results,  \* its ExecutionResult by case
  specs,    \* AutomationSpec.status by case
  report,   \* report.json in the run's directory: verdicts by case
  healing,  \* playwright_runner._healing
  thread,   \* slot -> the thread in it
  begun     \* bounds: starts and stops so far
runnerVars == <<status, cancel, exec, results, specs, report, healing, thread, begun>>

-----------------------------------------------------------------------------
RunEnded == {"cancelled", "failed"}
RunStatuses == {"automation", "executing", "evidence"} \cup RunEnded
RowStatuses == {"none", "pending", "running", "pass", "fail", "skipped"}
SpecStatuses == {"draft", "running", "passed", "failed", "blocked", "product_defect"}
NoReport == [c \in {} |-> "fail"]
CaseVerdicts == {"pass", "fail"}
PCs == {"load", "mark", "stage", "login", "checkpoint", "playing", "played", "apply", "reflect",
        "finalize", "rehearse", "settle", "recount"}
NoThread == [pc |-> "idle"]

IdleSlot(s) == thread[s].pc = "idle"
ThreadAt(s, pc) == thread[s].pc = pc
IsHeal(s) == thread[s].heal
Only(s) == CHOOSE c \in thread[s].cases : TRUE
Moves(s, pc) == thread' = [thread EXCEPT ![s].pc = pc]
EndsThread(s) == thread' = [thread EXCEPT ![s] = NoThread]
Tally(r, v) == Cardinality({c \in RunCases : r[c] = v})

\* set_run_status: a run that has ended keeps its status.
Becomes(new) == status' = IF status \in RunEnded THEN status ELSE new

\* The rows a thread loaded: pruned once another execution was started.
Pruned(s) == thread[s].no # exec.no

-----------------------------------------------------------------------------
(* Starting.                                                             *)

Spawned(s, cases, heal) ==
  /\ IdleSlot(s) /\ begun.starts < MaxStarts
  /\ begun' = [begun EXCEPT !.starts = @ + 1]
  /\ thread' = [thread EXCEPT ![s] =
       [pc |-> "load", heal |-> heal, cases |-> cases, attempt |-> 1,
        no |-> IF heal THEN 0 ELSE exec.no + 1, error |-> FALSE, read |-> NoReport,
        done |-> {}, passed |-> 0, failed |-> 0, outcome |-> "fail"]]

\* The new execution supersedes all others; it starts in any status of the
\* run, with a heal under way or with another execution under way.
Execute(s, cases) ==
  /\ cases # {} /\ Spawned(s, cases, FALSE)
  /\ exec' = [no |-> exec.no + 1, status |-> "running", passed |-> 0, failed |-> 0]
  /\ results' = [c \in RunCases |-> IF c \in cases THEN "pending" ELSE "none"]
  /\ Becomes("executing")
  /\ UNCHANGED <<cancel, specs, report, healing>>

\* start_execution: every case that is neither blocked nor a product defect.
StartExecution(s) ==
  Execute(s, {c \in RunCases : specs[c] \notin {"blocked", "product_defect"}})

\* run_single_spec ("run anyway"): a blocked spec too.
RunSingleSpec(s, c) == specs[c] # "product_defect" /\ Execute(s, {c})

\* heal_case_spec with start_heal: not while the run executes, one per run.
StartHeal(s, c) ==
  /\ status # "executing" /\ healing = {}
  /\ Spawned(s, {c}, TRUE) /\ healing' = {c}
  /\ UNCHANGED <<status, cancel, exec, results, specs, report>>

-----------------------------------------------------------------------------
(* run_execution.                                                        *)

\* The execution or the run is cancelled before the thread begins: nothing is
\* written, and the execution stays as it is.
SkipCancelled(s) ==
  /\ ThreadAt(s, "load") /\ ~IsHeal(s) /\ (cancel \/ Pruned(s)) /\ EndsThread(s)
  /\ UNCHANGED <<status, cancel, exec, results, specs, report, healing, begun>>

LoadResults(s) ==
  /\ ThreadAt(s, "load") /\ ~IsHeal(s) /\ ~cancel /\ ~Pruned(s) /\ Moves(s, "mark")
  /\ UNCHANGED <<status, cancel, exec, results, specs, report, healing, begun>>

MarkRunning(s) ==
  /\ ThreadAt(s, "mark") /\ ~Pruned(s)
  /\ results' = [c \in RunCases |-> IF c \in thread[s].cases THEN "running" ELSE results[c]]
  /\ Moves(s, "stage")
  /\ UNCHANGED <<status, cancel, exec, specs, report, healing, begun>>

\* _fail_all_results: every case failed for one reason, and the execution done.
FailAllResults(s) ==
  /\ results' = [c \in RunCases |-> IF c \in thread[s].cases THEN "fail" ELSE results[c]]
  /\ exec' = [exec EXCEPT !.status = "done", !.passed = 0,
                          !.failed = Cardinality(thread[s].cases)]
  /\ Becomes("evidence") /\ EndsThread(s)
  /\ UNCHANGED <<cancel, specs, report, healing, begun>>

\* The cases' specs are of more than one automation project.
RefuseMultiProject(s) == ThreadAt(s, "stage") /\ ~Pruned(s) /\ FailAllResults(s)

\* The library and the run's own specs are copied into the directory.
StageSpecs(s) ==
  /\ ThreadAt(s, "stage") /\ Moves(s, "login")
  /\ UNCHANGED <<status, cancel, exec, results, specs, report, healing, begun>>

\* A manual login is wanted: the project has no base URL, or the login window
\* was closed, timed out or is on its cooldown.
RefuseLogin(s) == ThreadAt(s, "login") /\ ~Pruned(s) /\ FailAllResults(s)

\* No login is wanted, one is saved, or one was captured; the config and the
\* fixtures are written.
LoginReady(s) ==
  /\ ThreadAt(s, "login") /\ Moves(s, "checkpoint")
  /\ UNCHANGED <<status, cancel, exec, results, specs, report, healing, begun>>

\* The checkpoints before the spawn and after it: the thread leaves the rows
\* to whoever cancelled.
BailOut(s) ==
  /\ cancel /\ EndsThread(s)
  /\ \/ ThreadAt(s, "checkpoint")
     \/ (ThreadAt(s, "played") /\ ~IsHeal(s))
  /\ healing' = IF IsHeal(s) THEN healing \ thread[s].cases ELSE healing
  /\ UNCHANGED <<status, cancel, exec, results, specs, report, begun>>

InvokePlaywright(s) ==
  /\ ThreadAt(s, "checkpoint") /\ ~cancel
  /\ thread' = [thread EXCEPT ![s].pc = "playing", ![s].read = NoReport]
  /\ UNCHANGED <<status, cancel, exec, results, specs, report, healing, begun>>

\* Playwright ends: with a report on the files it ran, without one (a config
\* that does not load, a kill), or with the timeout or a missing binary.
PlaywrightReports(s) ==
  /\ ThreadAt(s, "playing")
  /\ \E ran \in SUBSET thread[s].cases : \E verdict \in [ran -> CaseVerdicts] :
       report' = verdict
  /\ Moves(s, "played")
  /\ UNCHANGED <<status, cancel, exec, results, specs, healing, begun>>

PlaywrightFails(s) ==
  /\ ThreadAt(s, "playing")
  /\ \E error \in BOOLEAN :
       thread' = [thread EXCEPT ![s].pc = "played", ![s].error = error]
  /\ UNCHANGED <<status, cancel, exec, results, specs, report, healing, begun>>

\* What report.json says of the thread's cases; nothing after a run_error.
Said(s) == IF thread[s].error THEN NoReport ELSE report
VerdictsOf(s) ==
  [c \in DOMAIN thread[s].read \cap thread[s].cases |-> thread[s].read[c]]

ReadReport(s) ==
  /\ ThreadAt(s, "played") /\ ~IsHeal(s) /\ ~cancel
  /\ thread' = [thread EXCEPT ![s].pc = "apply", ![s].read = Said(s)]
  /\ UNCHANGED <<status, cancel, exec, results, specs, report, healing, begun>>

\* Mutant: the cases the report does not name are left as they are.
ApplyResult_OnlyReported(s) ==
  /\ ThreadAt(s, "apply") /\ ~Pruned(s)
  /\ \/ \E c \in DOMAIN VerdictsOf(s) \ thread[s].done :
          /\ results' = [results EXCEPT ![c] = VerdictsOf(s)[c]]
          /\ thread' = [thread EXCEPT ![s].done = @ \cup {c}]
          /\ UNCHANGED exec
     \/ /\ DOMAIN VerdictsOf(s) \subseteq thread[s].done
        /\ Moves(s, "reflect") /\ UNCHANGED <<results, exec>>
  /\ UNCHANGED <<status, cancel, specs, report, healing, begun>>

\* One commit per result: those of the report first, then every other as failed.
ApplyResult(s) ==
  /\ ThreadAt(s, "apply") /\ ~Pruned(s)
  /\ LET said == VerdictsOf(s)
         open == thread[s].cases \ thread[s].done
         due == IF DOMAIN said \cap open # {} THEN DOMAIN said \cap open ELSE open
     IN \/ \E c \in due :
             LET v == IF c \in DOMAIN said THEN said[c] ELSE "fail"
                 p == thread[s].passed + (IF v = "pass" THEN 1 ELSE 0)
                 f == thread[s].failed + (IF v = "fail" THEN 1 ELSE 0)
             IN /\ results' = [results EXCEPT ![c] = v]
                /\ thread' = [thread EXCEPT ![s].done = @ \cup {c},
                                            ![s].passed = p, ![s].failed = f]
                /\ exec' = IF c \in DOMAIN said
                           THEN [exec EXCEPT !.passed = p, !.failed = f] ELSE exec
        \/ open = {} /\ Moves(s, "reflect") /\ UNCHANGED <<results, exec>>
  /\ UNCHANGED <<status, cancel, specs, report, healing, begun>>

\* Each row's outcome, as it now is, becomes its spec's.
ReflectSpecs(s) ==
  /\ ThreadAt(s, "reflect") /\ ~Pruned(s)
  /\ specs' = [c \in RunCases |->
       IF c \notin thread[s].cases THEN specs[c]
       ELSE IF results[c] = "pass" THEN "passed" ELSE IF results[c] = "fail" THEN "failed" ELSE specs[c]]
  /\ Moves(s, "finalize")
  /\ UNCHANGED <<status, cancel, exec, results, report, healing, begun>>

Finalize(s) ==
  /\ ThreadAt(s, "finalize") /\ ~Pruned(s)
  /\ exec' = [exec EXCEPT !.status = "done", !.passed = thread[s].passed,
                          !.failed = thread[s].failed]
  /\ Becomes("evidence") /\ EndsThread(s)
  /\ UNCHANGED <<cancel, results, specs, report, healing, begun>>

\* Any error, a row that is gone among them: only the run is marked.
ExecutionCrashes(s) ==
  /\ thread[s].pc \in {"mark", "stage", "login", "apply", "reflect", "finalize"} /\ ~IsHeal(s)
  /\ Pruned(s) \/ thread[s].pc \in {"stage", "login"}
  /\ Becomes("failed") /\ EndsThread(s)
  /\ UNCHANGED <<cancel, exec, results, specs, report, healing, begun>>

-----------------------------------------------------------------------------
(* heal_spec.                                                            *)

HealBegins(s) ==
  /\ ThreadAt(s, "load") /\ IsHeal(s)
  /\ specs' = [specs EXCEPT ![Only(s)] = "running"] /\ Moves(s, "checkpoint")
  /\ UNCHANGED <<status, cancel, exec, results, report, healing, begun>>

\* A report on the case is believed, whichever spawn wrote it; after a run
\* that left no report the one from before is read.
HealReads(s) ==
  /\ ThreadAt(s, "played") /\ IsHeal(s)
  /\ LET r == Said(s)
         passes == Only(s) \in DOMAIN r /\ r[Only(s)] = "pass"
     IN thread' = [thread EXCEPT ![s].read = r,
                                 ![s].pc = IF passes THEN "settle" ELSE "rehearse",
                                 ![s].outcome = IF passes THEN "pass" ELSE "fail"]
  /\ UNCHANGED <<status, cancel, exec, results, specs, report, healing, begun>>

\* The failure is classified and repaired (HealLoop), minutes of model calls:
\* a fix is accepted and run, or the pass ends blocked, as a defect or failed.
HealRepairs(s) ==
  /\ ThreadAt(s, "rehearse")
  /\ \/ /\ thread[s].attempt < HealAttempts
        /\ thread' = [thread EXCEPT ![s].pc = "checkpoint", ![s].attempt = @ + 1,
                                    ![s].error = FALSE]
        /\ UNCHANGED specs
     \/ /\ \E end \in {specs[Only(s)], "blocked", "product_defect"} :
             specs' = [specs EXCEPT ![Only(s)] = end]
        /\ Moves(s, "settle")
  /\ UNCHANGED <<status, cancel, exec, results, report, healing, begun>>

\* Blocked and product_defect stand; the latest result of the case, of
\* whichever execution, takes the outcome.
HealSettles(s) ==
  /\ ThreadAt(s, "settle")
  /\ specs' = IF specs[Only(s)] \in {"blocked", "product_defect"} THEN specs
              ELSE [specs EXCEPT ![Only(s)] =
                      IF thread[s].outcome = "pass" THEN "passed" ELSE "failed"]
  /\ results' = IF results[Only(s)] = "none" THEN results ELSE [results EXCEPT ![Only(s)] = thread[s].outcome]
  /\ Moves(s, "recount")
  /\ UNCHANGED <<status, cancel, exec, report, healing, begun>>

\* The counts of the execution are taken again from its rows; the finally
\* block forgets the heal.
HealRecounts(s) ==
  /\ ThreadAt(s, "recount")
  /\ exec' = [exec EXCEPT !.passed = Tally(results, "pass"), !.failed = Tally(results, "fail")]
  /\ EndsThread(s) /\ healing' = healing \ thread[s].cases
  /\ UNCHANGED <<status, cancel, results, specs, report, begun>>

-----------------------------------------------------------------------------
(* Requests on the run.                                                  *)

\* cancel_run and stop_run, with _stop_run_work: what Playwright runs is
\* killed, what is in flight is reset, the heal registry is purged.
Stop ==
  /\ begun.stops < MaxStops /\ begun' = [begun EXCEPT !.stops = @ + 1]
  /\ cancel' = TRUE /\ Becomes("cancelled")
  /\ thread' = [s \in Slots |-> IF ThreadAt(s, "playing") THEN [thread[s] EXCEPT !.pc = "played"]
                                ELSE thread[s]]
  /\ specs' = [c \in RunCases |-> IF specs[c] = "running" THEN "draft" ELSE specs[c]]
  /\ results' = [c \in RunCases |-> IF exec.status = "running" /\ results[c] \in {"pending", "running"}
                                THEN "skipped" ELSE results[c]]
  /\ exec' = IF exec.status = "running" THEN [exec EXCEPT !.status = "failed"] ELSE exec
  /\ healing' = {}
  /\ UNCHANGED report

\* retry_run of an ended run that failed while executing.
Retry(s) ==
  /\ status \in RunEnded /\ cancel' = FALSE /\ status' = "executing"
  /\ LET cases == {c \in RunCases : specs[c] \notin {"blocked", "product_defect"}}
     IN /\ cases # {} /\ Spawned(s, cases, FALSE)
        /\ results' = [c \in RunCases |-> IF c \in cases THEN "pending" ELSE "none"]
  /\ exec' = [no |-> exec.no + 1, status |-> "running", passed |-> 0, failed |-> 0]
  /\ UNCHANGED <<specs, report, healing>>

-----------------------------------------------------------------------------
RunnerInit ==
  /\ status = "automation" /\ cancel = FALSE /\ report = NoReport /\ healing = {}
  /\ exec = [no |-> 0, status |-> "none", passed |-> 0, failed |-> 0]
  /\ results = [c \in RunCases |-> "none"]
  /\ specs = [c \in RunCases |-> "draft"]
  /\ thread = [s \in Slots |-> NoThread]
  /\ begun = [starts |-> 0, stops |-> 0]

ExecutionStep(s) ==
  \/ SkipCancelled(s) \/ LoadResults(s) \/ MarkRunning(s) \/ RefuseMultiProject(s) \/ StageSpecs(s)
  \/ RefuseLogin(s) \/ LoginReady(s)
  \/ BailOut(s) \/ InvokePlaywright(s) \/ PlaywrightReports(s) \/ PlaywrightFails(s)
  \/ ReadReport(s) \/ ApplyResult(s) \/ ReflectSpecs(s) \/ Finalize(s) \/ ExecutionCrashes(s)
HealStep(s) ==
  HealBegins(s) \/ HealReads(s) \/ HealRepairs(s) \/ HealSettles(s) \/ HealRecounts(s)

RunnerNext ==
  \/ \E s \in Slots : \/ ExecutionStep(s) \/ HealStep(s) \/ StartExecution(s) \/ Retry(s)
                      \/ \E c \in RunCases : RunSingleSpec(s, c) \/ StartHeal(s, c)
  \/ Stop

RunnerSpec == RunnerInit /\ [][RunnerNext]_runnerVars

-----------------------------------------------------------------------------
Reports == UNION {[ran -> CaseVerdicts] : ran \in SUBSET RunCases}
Threads ==
  [pc : PCs, heal : BOOLEAN, cases : SUBSET RunCases, attempt : Nat, no : Nat, error : BOOLEAN,
   read : Reports, done : SUBSET RunCases, passed : Nat, failed : Nat, outcome : CaseVerdicts]

\* Every variable keeps its shape; a heal is of one case.
RunnerTypeOK ==
  /\ status \in RunStatuses /\ cancel \in BOOLEAN
  /\ exec \in [no : Nat, status : {"none", "running", "failed", "done"}, passed : Nat, failed : Nat]
  /\ results \in [RunCases -> RowStatuses] /\ specs \in [RunCases -> SpecStatuses]
  /\ report \in Reports /\ healing \subseteq RunCases
  /\ thread \in [Slots -> Threads \cup {NoThread}]
  /\ \A s \in Slots : ~IdleSlot(s) /\ IsHeal(s) => \E c \in RunCases : thread[s].cases = {c}
  /\ begun \in [starts : Nat, stops : Nat]

\* run_execution: an execution that is done leaves no case pending or running,
\* whatever the report left out and whatever was stopped, healed or superseded
\* while its thread worked.
DoneIsFinal ==
  exec.status = "done" => \A c \in RunCases : results[c] \notin {"pending", "running"}
=============================================================================
