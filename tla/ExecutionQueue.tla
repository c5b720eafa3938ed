--------------------------- MODULE ExecutionQueue ---------------------------
(***************************************************************************)
(* Executions of one run handed to Local Agents (routers/execution,        *)
(* routers/agent, execution_service, execution_pruning, evidence_service;  *)
(* device side: runner.ts).  A request creates an execution with a pending *)
(* result per case, the suite replacing every earlier execution of the     *)
(* run; a device claims the oldest queued one, is refused or runs it, and  *)
(* posts results, a completion and, detached, the evidence.  Results and   *)
(* evidence travel as messages that arrive in any order or not at all.     *)
(* A pruned row keeps its place in ex, as gone: ids are never reused here. *)
(* The run's status, which a start and a completion also write, is         *)
(* RunLifecycle's.                                                         *)
(***************************************************************************)
EXTENDS Integers, Sequences, FiniteSets

CONSTANTS
  Cases,      \* runnable cases of the run; the specs of a project selection
  NoSpec,     \* those among them that have no AutomationSpec row
  Requests,   \* API requests that may start the suite
  Devices,    \* paired devices of the owner
  Mortal,     \* those that may be switched off for good
  NoDevice,
  MaxExecs,   \* bound: executions ever created
  MaxFaults   \* bound: lost calls, lost devices, stops and restarts

VARIABLES
  ex,      \* the executions table with its results, by id
  ev,      \* evidence rows: <<execution, case>>
  files,   \* artifacts on disk
  req,     \* start_execution requests under way
  stop,    \* the stop request
  dev,     \* the devices
  msg,     \* result and evidence posts not yet handled
  faults   \* how many of MaxFaults have happened
vars == <<ex, ev, files, req, stop, dev, msg, faults>>

-----------------------------------------------------------------------------
Kinds == {"suite", "single", "project"}
Verdicts == {"pass", "fail"}
ResultStatus == Verdicts \cup {"pending", "skipped"}
Live == {"queued", "running"}
Ids == 1 .. MaxExecs

\* result is defined on the cases that have a row.  lost, early and stopped
\* are history: a call about it was lost, it was claimed before it had rows,
\* a stop has met it.
Execution(kind, result) ==
  [kind |-> kind, status |-> "queued", taker |-> NoDevice, result |-> result,
   passed |-> 0, failed |-> 0, gone |-> FALSE,
   lost |-> FALSE, early |-> FALSE, stopped |-> FALSE]

Pending(cs) == [c \in cs |-> "pending"]
Rows(i) == DOMAIN ex[i].result
Count(f, v) == Cardinality({c \in DOMAIN f : f[c] = v})
RunScoped(i) == ex[i].kind # "project"
Here == {i \in DOMAIN ex : ~ex[i].gone}

\* evidence_service._destination_dir: run-scoped artifacts of a case share a
\* path, whatever execution they come from.
File(i, c) == IF RunScoped(i) THEN <<0, c>> ELSE <<i, c>>

Idle == [pc |-> "idle"]

-----------------------------------------------------------------------------
(* Creation.                                                             *)

\* Mutant: a bulk DELETE, which cascades to no evidence row.
StartInsert_BulkDelete(q) ==
  /\ req[q].pc = "idle" /\ Len(ex) < MaxExecs
  /\ LET old == {i \in Here : RunScoped(i)}
         n == Len(ex) + 1
     IN IF old = {}
        THEN /\ req' = [req EXCEPT ![q] = [pc |-> "alone"]]
             /\ UNCHANGED <<ex, ev, files>>
        ELSE /\ ex' = Append([i \in DOMAIN ex |-> IF i \in old THEN [ex[i] EXCEPT !.gone = TRUE]
                                                  ELSE ex[i]],
                             Execution("suite", Pending({})))
             /\ ev' = ev
             /\ files' = files \ {File(e[1], e[2]) : e \in {x \in ev : x[1] \in old}}
             /\ req' = [req EXCEPT ![q] = [pc |-> "pruned", id |-> n]]
  /\ UNCHANGED <<stop, dev, msg>>

\* start_execution up to prune_superseded: the new execution is flushed, and
\* if there is anything to supersede the prune commits it, before any result
\* row is added.  The prune's own select, commit and unlink are one step.
StartInsert(q) ==
  /\ req[q].pc = "idle" /\ Len(ex) < MaxExecs
  /\ LET old == {i \in Here : RunScoped(i)}
         n == Len(ex) + 1
     IN IF old = {}
        THEN /\ req' = [req EXCEPT ![q] = [pc |-> "alone"]]
             /\ UNCHANGED <<ex, ev, files>>
        ELSE /\ ex' = Append([i \in DOMAIN ex |-> IF i \in old THEN [ex[i] EXCEPT !.gone = TRUE]
                                                  ELSE ex[i]],
                             Execution("suite", Pending({})))
             /\ ev' = {e \in ev : e[1] \notin old}
             /\ files' = files \ {File(e[1], e[2]) : e \in {x \in ev : x[1] \in old}}
             /\ req' = [req EXCEPT ![q] = [pc |-> "pruned", id |-> n]]
  /\ UNCHANGED <<stop, dev, msg>>

\* The result rows.  If another start has pruned the
\* execution meanwhile the rows have no parent: the commit fails, or without
\* foreign keys leaves rows nobody finds.
StartCommit(q) ==
  /\ \/ /\ req[q].pc = "alone" /\ Len(ex) < MaxExecs
        /\ ex' = Append(ex, Execution("suite", Pending(Cases)))
     \/ /\ req[q].pc = "pruned"
        /\ ex' = IF ex[req[q].id].gone THEN ex
                 ELSE [ex EXCEPT ![req[q].id].result = Pending(Cases)]
  /\ req' = [req EXCEPT ![q] = Idle]
  /\ UNCHANGED <<ev, files, stop, dev, msg>>

\* run_single_spec, which prunes nothing; trigger_self_heal for a device makes
\* the same row, with a heal_case_id, and does not look for one already queued.
CreateOne(c) ==
  /\ Len(ex) < MaxExecs
  /\ ex' = Append(ex, Execution("single", Pending({c})))
  /\ UNCHANGED <<ev, files, req, stop, dev, msg>>

\* project_execution.create.
CreateProject ==
  /\ Len(ex) < MaxExecs
  /\ ex' = Append(ex, Execution("project", Pending(Cases)))
  /\ UNCHANGED <<ev, files, req, stop, dev, msg>>

-----------------------------------------------------------------------------
(* The claim.                                                            *)

Queued == {i \in Here : ex[i].status = "queued"}
Oldest(s) == CHOOSE i \in s : \A j \in s : i <= j

\* Mutant: the select does not ask for the status.
ClaimSelect_AnyLive(d) ==
  /\ dev[d].pc = "idle" /\ {i \in Here : ex[i].status \in Live} # {}
  /\ dev' = [dev EXCEPT ![d] =
       [pc |-> "selected", ex |-> Oldest({i \in Here : ex[i].status \in Live})]]
  /\ UNCHANGED <<ex, ev, files, req, stop, msg>>

ClaimSelect(d) ==
  /\ dev[d].pc = "idle" /\ Queued # {}
  /\ dev' = [dev EXCEPT ![d] = [pc |-> "selected", ex |-> Oldest(Queued)]]
  /\ UNCHANGED <<ex, ev, files, req, stop, msg>>

\* Mutant: the UPDATE is by id alone.
ClaimFlip_Unconditional(d) ==
  /\ dev[d].pc = "selected"
  /\ ex' = [ex EXCEPT ![dev[d].ex].status = "running", ![dev[d].ex].taker = d,
                      ![dev[d].ex].early = (Rows(dev[d].ex) = {})]
  /\ dev' = [dev EXCEPT ![d].pc = "claimed"]
  /\ UNCHANGED <<ev, files, req, stop, msg>>

\* The conditional UPDATE; who lost the race gets a 204.
ClaimFlip(d) ==
  /\ dev[d].pc = "selected"
  /\ LET i == dev[d].ex
     IN IF i \in Queued
        THEN /\ ex' = [ex EXCEPT ![i].status = "running", ![i].taker = d,
                                 ![i].early = (Rows(i) = {})]
             /\ dev' = [dev EXCEPT ![d].pc = "claimed"]
        ELSE /\ dev' = [dev EXCEPT ![d] = Idle]
             /\ UNCHANGED ex
  /\ UNCHANGED <<ev, files, req, stop, msg>>

\* The payload is built from the rows there are by now, less the cases that
\* have no spec.
ClaimReply(d) ==
  /\ dev[d].pc = "claimed"
  /\ LET i == dev[d].ex
         specs == IF ex[i].gone THEN {} ELSE Rows(i) \ (IF RunScoped(i) THEN NoSpec ELSE {})
     IN dev' = [dev EXCEPT ![d] =
          IF ex[i].gone THEN Idle   \* the handler fails
          ELSE [pc |-> "running", ex |-> i, specs |-> specs,
                verdict |-> [c \in {} |-> "fail"], quiet |-> FALSE]]
  /\ UNCHANGED <<ex, ev, files, req, stop, msg>>

ReplyLost(d) ==
  /\ dev[d].pc = "claimed"
  /\ dev' = [dev EXCEPT ![d] = Idle]
  /\ ex' = [ex EXCEPT ![dev[d].ex].lost = TRUE]
  /\ UNCHANGED <<ev, files, req, stop, msg>>

\* Mutant: the counts are left as they were.
ClaimRefused_NoCounts(d) ==
  /\ dev[d].pc = "claimed" /\ ~ex[dev[d].ex].gone
  /\ ex' = [ex EXCEPT ![dev[d].ex].result = [c \in Rows(dev[d].ex) |-> "fail"]]
  /\ dev' = [dev EXCEPT ![d].pc = "refusing"]
  /\ UNCHANGED <<ev, files, req, stop, msg>>

\* Version skew, an oversize bundle or two projects: every result fails and
\* the counts say so, then finalize, in two transactions.
ClaimRefused(d) ==
  /\ dev[d].pc = "claimed" /\ ~ex[dev[d].ex].gone
  /\ LET i == dev[d].ex
     IN ex' = [ex EXCEPT ![i].result = [c \in Rows(i) |-> "fail"],
                         ![i].passed = 0, ![i].failed = Cardinality(Rows(i))]
  /\ dev' = [dev EXCEPT ![d].pc = "refusing"]
  /\ UNCHANGED <<ev, files, req, stop, msg>>

\* Mutant: the claim is refused and the execution left as it is.
RefuseFinalize_Skipped(d) ==
  /\ dev[d].pc = "refusing"
  /\ dev' = [dev EXCEPT ![d] = Idle]
  /\ UNCHANGED <<ex, ev, files, req, stop, msg>>

RefuseFinalize(d) ==
  /\ dev[d].pc = "refusing"
  /\ LET i == dev[d].ex
     IN ex' = IF ex[i].gone THEN ex ELSE [ex EXCEPT ![i].status = "done"]
  /\ dev' = [dev EXCEPT ![d] = Idle]
  /\ UNCHANGED <<ev, files, req, stop, msg>>

-----------------------------------------------------------------------------
(* The device: processJob.                                               *)

\* The verdict of an upload means nothing.
Message(kind, i, c, v) == [kind |-> kind, ex |-> i, case |-> c, verdict |-> v]

\* A case ends, streamed live or reconciled from the report: counted at once,
\* its post under way.
CaseEnds(d, c, v) ==
  /\ dev[d].pc = "running" /\ c \in dev[d].specs \ DOMAIN dev[d].verdict
  /\ dev' = [dev EXCEPT ![d].verdict =
       [x \in DOMAIN @ \cup {c} |-> IF x = c THEN v ELSE @[x]]]
  /\ msg' = msg \cup {Message("result", dev[d].ex, c, v)}
  /\ UNCHANGED <<ex, ev, files, req, stop>>

\* The tree cannot be staged or there is no login: failAllResults, which
\* swallows the failure of its completion too.
CannotRun(d) ==
  /\ dev[d].pc = "running" /\ DOMAIN dev[d].verdict = {} /\ ~dev[d].quiet
  /\ dev' = [dev EXCEPT ![d].verdict = [c \in dev[d].specs |-> "fail"], ![d].quiet = TRUE]
  /\ msg' = msg \cup {Message("result", dev[d].ex, c, "fail") : c \in dev[d].specs}
  /\ UNCHANGED <<ex, ev, files, req, stop>>

\* complete_job, whatever the status of the execution: 404 if it is gone.
Completed(i, p, f) == [ex EXCEPT ![i].passed = p, ![i].failed = f, ![i].status = "done"]

Uploads(d) == {Message("evidence", dev[d].ex, c, "pass") : c \in DOMAIN dev[d].verdict}

\* 404 raises in the device: see CompleteLost.
Complete(d) ==
  /\ dev[d].pc = "running" /\ DOMAIN dev[d].verdict = dev[d].specs /\ ~ex[dev[d].ex].gone
  /\ ex' = Completed(dev[d].ex, Count(dev[d].verdict, "pass"), Count(dev[d].verdict, "fail"))
  /\ dev' = [dev EXCEPT ![d] = Idle]
  /\ msg' = IF dev[d].quiet THEN msg ELSE msg \cup Uploads(d)
  /\ UNCHANGED <<ev, files, req, stop>>

\* runAgentLoop catches a failed completion and posts another one, unless
\* processJob swallowed it.
Caught(d) == IF dev[d].quiet THEN Idle ELSE [dev[d] EXCEPT !.pc = "crashed"]

CompleteGone(d) ==
  /\ dev[d].pc = "running" /\ DOMAIN dev[d].verdict = dev[d].specs /\ ex[dev[d].ex].gone
  /\ dev' = [dev EXCEPT ![d] = Caught(d)]
  /\ UNCHANGED <<ex, ev, files, req, stop, msg>>

\* The completion or its reply is lost.
CompleteLost(d) ==
  /\ dev[d].pc = "running" /\ DOMAIN dev[d].verdict = dev[d].specs
  /\ LET i == dev[d].ex
         p == Count(dev[d].verdict, "pass")
         f == Count(dev[d].verdict, "fail")
     IN \/ ~ex[i].gone /\ ex' = [Completed(i, p, f) EXCEPT ![i].lost = TRUE]
        \/ ex' = [ex EXCEPT ![i].lost = TRUE]
  /\ dev' = [dev EXCEPT ![d] = Caught(d)]
  /\ UNCHANGED <<ev, files, req, stop, msg>>

CompleteAgain(d) ==
  /\ dev[d].pc = "crashed"
  /\ LET i == dev[d].ex
     IN ex' = IF ex[i].gone THEN ex ELSE Completed(i, 0, Cardinality(dev[d].specs))
  /\ dev' = [dev EXCEPT ![d] = Idle]
  /\ UNCHANGED <<ev, files, req, stop, msg>>

CompleteAgainLost(d) ==
  /\ dev[d].pc = "crashed"
  /\ dev' = [dev EXCEPT ![d] = Idle]
  /\ UNCHANGED <<ex, ev, files, req, stop, msg>>

\* The device is switched off; its posts under way are lost with it.
DeviceLost(d) ==
  /\ d \in Mortal /\ dev[d].pc # "off"
  /\ dev' = [dev EXCEPT ![d] = [pc |-> "off"]]
  /\ ex' = [i \in DOMAIN ex |->
       [ex[i] EXCEPT !.lost = @ \/ ex[i].taker = d]]
  /\ msg' = {m \in msg : ex[m.ex].taker # d}
  /\ UNCHANGED <<ev, files, req, stop>>

-----------------------------------------------------------------------------
(* The posts arrive.                                                     *)

\* push_job_result: applied whatever the status of the execution.
ResultArrives(m) ==
  /\ m.kind = "result"
  /\ ex' = IF ex[m.ex].gone \/ m.case \notin Rows(m.ex) THEN ex
           ELSE [ex EXCEPT ![m.ex].result[m.case] = m.verdict]
  /\ msg' = msg \ {m}
  /\ UNCHANGED <<ev, files, req, stop, dev>>

\* store_uploaded_evidence writes over whatever is at the path.
Stored(i, c) == files \cup {File(i, c)}

\* push_job_evidence: 404 once the result is gone, else the file and its row.
EvidenceArrives(m) ==
  /\ m.kind = "evidence"
  /\ IF ex[m.ex].gone \/ m.case \notin Rows(m.ex) THEN UNCHANGED <<ev, files>>
     ELSE /\ ev' = ev \cup {<<m.ex, m.case>>}
          /\ files' = Stored(m.ex, m.case)
  /\ msg' = msg \ {m}
  /\ UNCHANGED <<ex, req, stop, dev>>

Lose(m) ==
  /\ ex' = [ex EXCEPT ![m.ex].lost = @ \/ m.kind = "result"]
  /\ msg' = msg \ {m}
  /\ UNCHANGED <<ev, files, req, stop, dev>>

-----------------------------------------------------------------------------
(* Stop and restart.                                                     *)

LiveOfRun == {i \in Here : RunScoped(i) /\ ex[i].status \in Live}

\* _stop_run_work loads what is in flight.
StopSelect ==
  /\ stop.pc = "idle"
  /\ stop' = [pc |-> "stopping", pending |->
       [i \in LiveOfRun |-> {c \in Rows(i) : ex[i].result[c] = "pending"}]]
  /\ ex' = [i \in DOMAIN ex |-> [ex[i] EXCEPT !.stopped = @ \/ i \in LiveOfRun]]
  /\ UNCHANGED <<ev, files, req, dev, msg>>

\* and writes it back, whatever it has become.
StopCommit ==
  /\ stop.pc = "stopping"
  /\ ex' = [i \in DOMAIN ex |->
       IF i \in DOMAIN stop.pending /\ ~ex[i].gone
       THEN [ex[i] EXCEPT !.status = "failed",
               !.result = [c \in DOMAIN @ |-> IF c \in stop.pending[i] THEN "skipped" ELSE @[c]]]
       ELSE ex[i]]
  /\ stop' = Idle
  /\ UNCHANGED <<ev, files, req, dev, msg>>

\* The API restarts: requests die where they are and no sweep looks at
\* executions.  Bound: while a request is under way.
Restart ==
  LET dying == {d \in Devices : dev[d].pc \in {"selected", "claimed", "refusing"}}
  IN /\ \/ dying # {} \/ stop.pc # "idle" \/ \E q \in Requests : req[q].pc # "idle"
     /\ req' = [q \in Requests |-> Idle]
     /\ stop' = Idle
     /\ dev' = [d \in Devices |-> IF d \in dying THEN Idle ELSE dev[d]]
     /\ ex' = [i \in DOMAIN ex |->
          [ex[i] EXCEPT !.lost = @ \/ \E d \in dying : dev[d].ex = i /\ dev[d].pc # "selected"]]
     /\ UNCHANGED <<ev, files, msg>>

-----------------------------------------------------------------------------
Init ==
  /\ ex = <<>> /\ ev = {} /\ files = {}
  /\ req = [q \in Requests |-> Idle] /\ stop = Idle
  /\ dev = [d \in Devices |-> Idle] /\ msg = {} /\ faults = 0

Create == \/ \E q \in Requests : StartInsert(q) \/ StartCommit(q)
          \/ \E c \in Cases : CreateOne(c)
          \/ CreateProject

Claim(d) == ClaimSelect(d) \/ ClaimFlip(d) \/ ClaimReply(d) \/ ClaimRefused(d) \/ RefuseFinalize(d)

Work(d) == \/ \E c \in Cases, v \in Verdicts : CaseEnds(d, c, v)
           \/ CannotRun(d) \/ Complete(d) \/ CompleteGone(d) \/ CompleteAgain(d)

Arrive(m) == ResultArrives(m) \/ EvidenceArrives(m)

Fault == \/ \E d \in Devices : ReplyLost(d) \/ CompleteLost(d) \/ CompleteAgainLost(d)
                               \/ DeviceLost(d)
         \/ \E m \in msg : Lose(m)
         \/ StopSelect \/ Restart

Step == \/ Create \/ StopCommit
        \/ \E d \in Devices : Claim(d) \/ Work(d)
        \/ \E m \in msg : Arrive(m)

Next == \/ Step /\ UNCHANGED faults
        \/ Fault /\ faults < MaxFaults /\ faults' = faults + 1

\* A device that is on polls, and runs what it is given to the end.
Fairness == \A d \in Devices \ Mortal : /\ WF_vars(Claim(d) /\ UNCHANGED faults)
                                          /\ WF_vars(Work(d) /\ UNCHANGED faults)

Spec == Init /\ [][Next]_vars /\ Fairness

-----------------------------------------------------------------------------
TypeOK ==
  /\ \A i \in DOMAIN ex :
       /\ ex[i].kind \in Kinds /\ ex[i].status \in Live \cup {"done", "failed"}
       /\ ex[i].taker \in Devices \cup {NoDevice}
       /\ Rows(i) \subseteq Cases /\ \A c \in Rows(i) : ex[i].result[c] \in ResultStatus
       /\ {ex[i].passed, ex[i].failed} \subseteq 0 .. Cardinality(Cases)
  /\ ev \subseteq (DOMAIN ex) \X Cases
  /\ \A m \in msg : m.ex \in DOMAIN ex /\ m.case \in Cases /\ m.verdict \in Verdicts

\* The claims of executions are a one-shot offer.
JobOf(i) == IF i \notin DOMAIN ex THEN "unused"
            ELSE IF ex[i].gone \/ ex[i].status \in {"done", "failed"} THEN "over"
            ELSE IF ex[i].status = "queued" THEN "open" ELSE "taken"
Offers == INSTANCE OneShotOffer WITH
  Jobs <- Ids, Takers <- Devices, NoTaker <- NoDevice,
  job <- [i \in Ids |-> JobOf(i)],
  taker <- [i \in Ids |-> IF i \in DOMAIN ex THEN ex[i].taker ELSE NoDevice]

\* The execution queue implements OneShotOffer: a device gets an execution
\* nobody else got, and one that was stopped, superseded or completed is never
\* handed out again, however claims, stops, prunes and late completions
\* interleave (claim_next_job's conditional UPDATE).
ExecutionClaimedOnce == Offers!Spec

Holds(d, i) == dev[d].pc \in {"claimed", "refusing", "running", "crashed"} /\ dev[d].ex = i

\* A running execution has somebody who will end it, unless a device was lost
\* or a call about it was (no lease and no sweep ends it then).
RunningIsHeld ==
  \A i \in Here : ex[i].status = "running" => ex[i].lost \/ \E d \in Devices : Holds(d, i)

Quiet(i) == ~ex[i].lost /\ ~ex[i].early /\ ~ex[i].stopped /\ \A m \in msg : m.ex # i

\* The counts of a finished execution are those of its rows, and only a case
\* that had no spec to ship is left pending, once every post has arrived and
\* unless one was lost, a stop met it or it was claimed before it had rows
\* (complete_job takes the device's counts; results are stored on their own).
CountsMatchRows ==
  \A i \in Here : ex[i].status = "done" /\ Quiet(i) =>
    /\ ex[i].passed = Count(ex[i].result, "pass")
    /\ ex[i].failed = Count(ex[i].result, "fail")
    /\ \A c \in Rows(i) : ex[i].result[c] = "pending" => c \in NoSpec /\ RunScoped(i)

\* Every evidence row has its file, although executions of a run write to the
\* same paths and superseded ones are deleted with their files while devices
\* still upload (execution_pruning: "Deleting files while keeping rows would
\* leave the Evidence screen offering artifacts that 404").
EvidenceServed == \A e \in ev : File(e[1], e[2]) \in files

\* An execution does not stay queued while a device polls: older executions
\* that are stuck running do not stand in its way (claim_next_job's select).
QueuedEnds == \A i \in Ids : (i \in Queued) ~> (i \notin Queued)
=============================================================================
