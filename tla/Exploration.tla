----------------------------- MODULE Exploration -----------------------------
(***************************************************************************)
(* DOM exploration: observe, decide, act, until a stop condition, and then *)
(* merge what was found into the knowledge base.  A session runs either in *)
(* a thread of the API (exploration_agent, started by routers/projects) or *)
(* on a device that asks the API for each decision (runner.ts, the queue   *)
(* and the decide jobs of agent_explore_service).  All sessions here are   *)
(* of one run and one repository, which is how they share spend and queue. *)
(***************************************************************************)
EXTENDS Integers, Sequences, SequencesExt, FiniteSets

CONSTANTS
  Sessions,    \* exploration sessions
  Pages,       \* of the application
  Locators,    \* what an action may name
  NoSession,
  MaxSteps,    \* explore_max_steps, clamped
  Budget,      \* explore_cost_budget_usd, in units
  MaxCost,     \* bound: the cost of one decide call
  MaxSpend,    \* bound: what the run spends outside its sessions
  MaxMishaps   \* bound: driver timeouts and spend reads that fail

VARIABLES
  pending,    \* agent_explore_service._pending, oldest first
  loop,       \* the loops, of threads and of devices
  job,        \* _decide_jobs: the decide job a device waits for
  wire,       \* commands the device's driver has not answered
  exploring,  \* routers/projects._exploring
  spend,      \* ClaudeUsage of the run
  kb,         \* runtime-verified entries of the knowledge base
  mishaps,    \* mishaps so far
  paid,       \* history: what the decide calls of a session cost
  slips,      \* history: calls a session was charged on wrong grounds
  worked,     \* history: what actions of a session really resolved
  tardy        \* history: sessions one of whose commands timed out
exploreVars ==
  <<pending, loop, job, wire, exploring, spend, kb, mishaps, paid, slips, worked, tardy>>
ghosts == <<paid, slips, worked, tardy>>

-----------------------------------------------------------------------------
Unread == "none"                \* the page of a reply that was no observation
Facts == Pages \cup Locators    \* routes and selectors
ASSUME ExploreAssumption ==
  /\ "observe" \notin Facts
  /\ MaxSteps \in Nat /\ Budget \in Nat /\ MaxCost \in Nat \ {0}
NoCall == [pc |-> "none"]
NoDecide == [is |-> "none"]

Started(place, base) ==
  [pc |-> "top", at |-> place, steps |-> 0, seen |-> {}, found |-> {}, base |-> base,
   act |-> NoSession, waits |-> FALSE, reason |-> "step_cap"]

Is(s, place, pc) == loop[s].pc = pc /\ loop[s].at = place
LoopGoes(s, pc) == loop' = [loop EXCEPT ![s].pc = pc]
LoopEnds(s, reason) == loop' = [loop EXCEPT ![s].pc = "ended", ![s].reason = reason]

Tracked(s) == \E i \in DOMAIN pending : pending[i].id = s
Place(s) == CHOOSE i \in DOMAIN pending : pending[i].id = s
Without(s) == RemoveAt(pending, Place(s))

\* _session_spend reads the run's usage; a failed read counts as nothing.
SpendRead(s, read) ==
  \/ read = spend /\ UNCHANGED <<mishaps, slips>>
  \/ /\ mishaps < MaxMishaps /\ mishaps' = mishaps + 1 /\ read = 0
     /\ slips' = [slips EXCEPT ![s] = @ + 1]

Larger(a, b) == IF a >= b THEN a ELSE b

\* decide_next_action: over budget no call is made; else one call is paid for
\* and names an action or ends the loop (done, or malformed).
Decisions == Facts \cup {"done", "malformed"}
Call(s) ==
  \E cost \in 1 .. MaxCost :
    spend' = spend + cost /\ paid' = [paid EXCEPT ![s] = @ + cost]

-----------------------------------------------------------------------------
\* start_exploration on the server: registered over any session under way.
StartServer(s) ==
  /\ loop[s] = NoCall /\ ~Tracked(s)
  /\ \E base \in {0, spend} :
       SpendRead(s, base) /\ loop' = [loop EXCEPT ![s] = Started("server", base)]
  /\ exploring' = s
  /\ UNCHANGED <<pending, job, wire, spend, kb, paid, worked, tardy>>

\* The top of the loop: step cap, budget, observation, repeat detection.
ServerTop(s) ==
  /\ Is(s, "server", "top")
  /\ \/ loop[s].steps >= MaxSteps /\ LoopEnds(s, "step_cap") /\ UNCHANGED <<mishaps, slips, worked>>
     \/ /\ loop[s].steps < MaxSteps
        /\ \E read \in {0, spend} :
             /\ SpendRead(s, read)
             /\ \/ read - loop[s].base >= Budget /\ LoopEnds(s, "budget") /\ UNCHANGED worked
                \/ /\ read - loop[s].base < Budget
                   /\ \E page \in Pages :
                        /\ worked' = [worked EXCEPT ![s] = @ \cup {page}]
                        /\ IF page \in loop[s].seen THEN LoopEnds(s, "repeat")
                           ELSE loop' = [loop EXCEPT ![s].pc = "decide", ![s].seen = @ \cup {page},
                                                     ![s].found = @ \cup {page}]
  /\ UNCHANGED <<pending, job, wire, exploring, spend, kb, paid, tardy>>

\* The decide step of the server's loop.  It passes no baseline, so the budget
\* is compared with all the run has spent.
ServerDecide(s) ==
  /\ Is(s, "server", "decide")
  /\ \E read \in {0, spend} :
       /\ SpendRead(s, read)
       /\ \/ read >= Budget /\ LoopEnds(s, "budget") /\ UNCHANGED <<spend, paid>>
          \/ /\ read < Budget /\ Call(s)
             /\ \E d \in Decisions :
                  IF d \in Facts THEN loop' = [loop EXCEPT ![s].pc = "act", ![s].act = d]
                  ELSE LoopEnds(s, d)
  /\ UNCHANGED <<pending, job, wire, exploring, kb, worked, tardy>>

\* observer.act waits for the reply to its own command.
ServerAct(s) ==
  /\ Is(s, "server", "act")
  /\ \E ok \in BOOLEAN :
       /\ worked' = IF ok THEN [worked EXCEPT ![s] = @ \cup {loop[s].act}] ELSE worked
       /\ loop' = [loop EXCEPT ![s].pc = "top", ![s].steps = @ + 1,
                               ![s].found = IF ok THEN @ \cup {loop[s].act} ELSE @]
  /\ UNCHANGED <<pending, job, wire, exploring, spend, kb, mishaps, paid, slips, tardy>>

\* A crash of the driver or of the model call ends the thread with nothing merged.
ServerFails(s) ==
  /\ loop[s].pc \in {"top", "decide", "act"} /\ loop[s].at = "server"
  /\ loop' = [loop EXCEPT ![s].pc = "ended", ![s].reason = "error", ![s].found = {}]
  /\ UNCHANGED <<pending, job, wire, exploring, spend, kb, mishaps>> /\ UNCHANGED ghosts

\* merge_verified_discovery, the result for the status, and the guard if it is ours.
ServerEnds(s) ==
  /\ Is(s, "server", "ended")
  /\ kb' = kb \cup loop[s].found
  /\ LoopGoes(s, "over")
  /\ exploring' = IF exploring = s THEN NoSession ELSE exploring
  /\ UNCHANGED <<pending, job, wire, spend, mishaps>> /\ UNCHANGED ghosts

-----------------------------------------------------------------------------
\* start_exploration for a paired device, and its claim, oldest first.
RequestSession(s) ==
  /\ loop[s] = NoCall /\ ~Tracked(s)
  /\ pending' = Append(pending, [id |-> s, status |-> "queued", base |-> -1])
  /\ UNCHANGED <<loop, job, wire, exploring, spend, kb, mishaps>> /\ UNCHANGED ghosts

ClaimSession(s) ==
  /\ \E i \in DOMAIN pending :
       /\ pending[i].id = s /\ pending[i].status = "queued"
       /\ \A j \in 1 .. i - 1 : pending[j].status # "queued"
       /\ pending' = [pending EXCEPT ![i].status = "running"]
  /\ loop' = [loop EXCEPT ![s] = Started("device", 0)]
  /\ UNCHANGED <<job, wire, exploring, spend, kb, mishaps>> /\ UNCHANGED ghosts

\* Each step of the device begins with an observation, up to the step cap.
Observe(s) ==
  /\ Is(s, "device", "top")
  /\ IF loop[s].steps >= MaxSteps THEN LoopEnds(s, "step_cap") /\ UNCHANGED wire
     ELSE /\ loop' = [loop EXCEPT ![s].pc = "observe", ![s].waits = TRUE]
          /\ wire' = [wire EXCEPT ![s] = Append(@, "observe")]
  /\ UNCHANGED <<pending, job, exploring, spend, kb, mishaps>> /\ UNCHANGED ghosts

\* What the loop does with the reply it takes for its observation.
Observed(l, page, ok) ==
  IF ~ok THEN [l EXCEPT !.pc = "ended", !.waits = FALSE, !.reason = "observe-error"]
  ELSE IF page \in l.seen THEN [l EXCEPT !.pc = "ended", !.waits = FALSE, !.reason = "repeat"]
  ELSE [l EXCEPT !.pc = "ask", !.waits = FALSE, !.seen = @ \cup {page}]

\* Mutant: what the action named is recorded whether or not it worked.
Recorded_Always(l, ok) == l.found \cup {l.act}

\* A route or selector is recorded when the action worked.
Recorded(l, ok) == IF ok THEN l.found \cup {l.act} ELSE l.found

Acted(l, ok) ==
  [l EXCEPT !.pc = "top", !.steps = @ + 1, !.waits = FALSE, !.found = Recorded(l, ok)]

\* A reply goes to whichever command the device waits for, or to none.
Answered(l, read, ok) ==
  IF l.pc = "observe" /\ l.waits THEN Observed(l, read, ok)
  ELSE IF l.pc = "acting" /\ l.waits THEN Acted(l, ok) ELSE l

\* The driver answers its commands in order.
Reply(s) ==
  /\ wire[s] # <<>>
  /\ LET cmd == Head(wire[s]) IN
     \E page \in Pages, ok \in BOOLEAN :
       /\ worked' = IF ok /\ cmd # "observe" THEN [worked EXCEPT ![s] = @ \cup {cmd}] ELSE worked
       /\ LET read == IF cmd = "observe" THEN page ELSE Unread
          IN loop' = [loop EXCEPT ![s] = Answered(@, read, ok)]
  /\ wire' = [wire EXCEPT ![s] = Tail(@)]
  /\ UNCHANGED <<pending, job, exploring, spend, kb, mishaps, paid, slips, tardy>>

\* EXPLORE_CMD_TIMEOUT_MS: the loop goes on with an error in place of the reply.
CommandTimesOut(s) ==
  /\ loop[s].pc \in {"observe", "acting"} /\ loop[s].waits /\ mishaps < MaxMishaps
  /\ mishaps' = mishaps + 1 /\ tardy' = tardy \cup {s}
  /\ loop' = [loop EXCEPT ![s] =
       IF @.pc = "observe" THEN Observed(@, Unread, FALSE) ELSE Acted(@, FALSE)]
  /\ UNCHANGED <<pending, job, wire, exploring, spend, kb, paid, slips, worked>>

\* agent_explore_decide: the session is found, and its spend so far read.
AskDecide(s) ==
  /\ Is(s, "device", "ask")
  /\ IF Tracked(s)
     THEN /\ LoopGoes(s, "wait")
          /\ \E read \in {0, spend} :
               SpendRead(s, read) /\ job' = [job EXCEPT ![s] = [is |-> "asked", base |-> read]]
     ELSE LoopEnds(s, "decide-error") /\ UNCHANGED <<job, mishaps, slips>>
  /\ UNCHANGED <<pending, wire, exploring, spend, kb, paid, worked, tardy>>

\* Mutant: every decide takes the spend it has just read for the baseline.
EnsureBaseline_Always(s, read) == read

\* ensure_baseline: the first one stands.
EnsureBaseline(s, read) ==
  IF Tracked(s) /\ pending[Place(s)].base >= 0 THEN pending[Place(s)].base ELSE read

\* ... then the baseline, under the lock, and the job is started.  A purge in
\* between leaves the job without the baseline of its session.
StartDecide(s) ==
  /\ job[s].is = "asked"
  /\ LET base == EnsureBaseline(s, job[s].base) IN
     /\ job' = [job EXCEPT ![s] = [is |-> "running", base |-> base]]
     /\ pending' = IF Tracked(s) THEN [pending EXCEPT ![Place(s)].base = base] ELSE pending
  /\ slips' = IF Tracked(s) THEN slips ELSE [slips EXCEPT ![s] = @ + 1]
  /\ UNCHANGED <<loop, wire, exploring, spend, kb, mishaps, paid, worked, tardy>>

\* _run_explore_decide_job: decide_next_action off the request thread.
Decide(s) ==
  /\ job[s].is = "running"
  /\ \E read \in {0, spend} :
       /\ SpendRead(s, read)
       /\ \/ /\ Larger(0, read - job[s].base) >= Budget
             /\ job' = [job EXCEPT ![s] = [is |-> "done", act |-> "budget"]]
             /\ UNCHANGED <<spend, paid>>
          \/ /\ Larger(0, read - job[s].base) < Budget /\ Call(s)
             /\ \E d \in Decisions : job' = [job EXCEPT ![s] = [is |-> "done", act |-> d]]
  /\ UNCHANGED <<pending, loop, wire, exploring, kb, worked, tardy>>

\* take_decide_job: a finished job is removed by the poll that reads it.
\* A gated action is skipped, but counts as a step.
Decided(s) ==
  /\ job[s].is = "done" /\ job' = [job EXCEPT ![s] = NoDecide]
  /\ \/ Is(s, "device", "wait") /\
        \/ job[s].act \notin Facts /\ LoopEnds(s, job[s].act) /\ UNCHANGED wire
        \/ /\ job[s].act \in Facts
           /\ \/ loop' = [loop EXCEPT ![s].pc = "top", ![s].steps = @ + 1] /\ UNCHANGED wire
              \/ /\ loop' = [loop EXCEPT ![s].pc = "acting", ![s].waits = TRUE, ![s].act = job[s].act]
                 /\ wire' = [wire EXCEPT ![s] = Append(@, job[s].act)]
     \/ ~Is(s, "device", "wait") /\ UNCHANGED <<loop, wire>>
  /\ UNCHANGED <<pending, exploring, spend, kb, mishaps>> /\ UNCHANGED ghosts

\* The start or a poll fails (its reply lost, an error, a 404 after a restart,
\* the deadline); the job, if there is one, runs on.
DecideError(s) ==
  /\ Is(s, "device", "wait") /\ LoopEnds(s, "decide-error")
  /\ UNCHANGED <<pending, job, wire, exploring, spend, kb, mishaps>> /\ UNCHANGED ghosts

\* agent_explore_finalize: merged and dropped if the session is still tracked.
\* The post may be lost, and is not repeated.
FinalizeSession(s) ==
  /\ Is(s, "device", "ended") /\ LoopGoes(s, "over")
  /\ wire' = [wire EXCEPT ![s] = <<>>]
  /\ \/ Tracked(s) /\ kb' = kb \cup loop[s].found /\ pending' = Without(s)
     \/ UNCHANGED <<pending, kb>>
  /\ UNCHANGED <<job, exploring, spend, mishaps>> /\ UNCHANGED ghosts

\* The driver fails to start, or the device goes away; nothing is merged.
DriverError(s) ==
  /\ Is(s, "device", "top") /\ loop[s].steps = 0 /\ LoopEnds(s, "driver-error")
  /\ UNCHANGED <<pending, job, wire, exploring, spend, kb, mishaps>> /\ UNCHANGED ghosts

DeviceGone(s) ==
  /\ loop[s].pc \notin {"none", "over"} /\ loop[s].at = "device"
  /\ LoopGoes(s, "over") /\ wire' = [wire EXCEPT ![s] = <<>>]
  /\ UNCHANGED <<pending, job, exploring, spend, kb, mishaps>> /\ UNCHANGED ghosts

-----------------------------------------------------------------------------
\* agent_explore_service.purge_run, by a stop of the run.
Purge ==
  /\ pending # <<>> /\ pending' = <<>>
  /\ UNCHANGED <<loop, job, wire, exploring, spend, kb, mishaps>> /\ UNCHANGED ghosts

ExploreRestart ==
  /\ pending' = <<>> /\ exploring' = NoSession
  /\ job' = [s \in Sessions |-> NoDecide]
  /\ loop' = [s \in Sessions |->
       IF loop[s].pc # "none" /\ loop[s].at = "server"
       THEN [loop[s] EXCEPT !.pc = "over"] ELSE loop[s]]
  /\ UNCHANGED <<wire, spend, kb, mishaps>> /\ UNCHANGED ghosts

\* Other calls of the run: analysis, generation, another exploration.
RunSpends ==
  /\ spend < MaxSpend /\ spend' = spend + 1
  /\ UNCHANGED <<pending, loop, job, wire, exploring, kb, mishaps>> /\ UNCHANGED ghosts

-----------------------------------------------------------------------------
ExploreInit ==
  /\ pending = <<>> /\ exploring = NoSession /\ kb = {} /\ mishaps = 0 /\ tardy = {}
  /\ spend \in 0 .. MaxSpend
  /\ loop = [s \in Sessions |-> NoCall] /\ job = [s \in Sessions |-> NoDecide]
  /\ wire = [s \in Sessions |-> <<>>] /\ worked = [s \in Sessions |-> {}]
  /\ paid = [s \in Sessions |-> 0] /\ slips = [s \in Sessions |-> 0]

SessionStep(s) ==
  \/ StartServer(s) \/ ServerTop(s) \/ ServerDecide(s) \/ ServerAct(s)
  \/ ServerFails(s) \/ ServerEnds(s)
  \/ RequestSession(s) \/ ClaimSession(s) \/ Observe(s) \/ Reply(s) \/ CommandTimesOut(s)
  \/ AskDecide(s) \/ StartDecide(s) \/ Decide(s) \/ Decided(s) \/ DecideError(s)
  \/ FinalizeSession(s) \/ DriverError(s) \/ DeviceGone(s)

ExploreNext == (\E s \in Sessions : SessionStep(s)) \/ Purge \/ ExploreRestart \/ RunSpends

ExploreSpec == ExploreInit /\ [][ExploreNext]_exploreVars

-----------------------------------------------------------------------------
LoopSteps == {"top", "decide", "act", "observe", "ask", "wait", "acting", "ended", "over"}
Reasons == {"step_cap", "budget", "repeat", "error", "observe-error", "decide-error",
            "driver-error", "done", "malformed"}
QueueEntries == [id : Sessions, status : {"queued", "running"}, base : Nat \cup {-1}]
Loops ==
  [pc : LoopSteps, at : {"server", "device"}, steps : 0 .. MaxSteps,
   seen : SUBSET (Pages \cup {Unread}), found : SUBSET Facts, base : Nat,
   act : Facts \cup {NoSession}, waits : BOOLEAN, reason : Reasons]
DecideJobs ==
  [is : {"asked", "running"}, base : Nat] \cup [is : {"done"}, act : Decisions \cup {"budget"}]

\* Every variable keeps its shape, and no loop makes more steps than the cap.
ExploreTypeOK ==
  /\ pending \in Seq(QueueEntries) /\ exploring \in Sessions \cup {NoSession}
  /\ loop \in [Sessions -> Loops \cup {NoCall}] /\ job \in [Sessions -> DecideJobs \cup {NoDecide}]
  /\ wire \in [Sessions -> Seq(Facts \cup {"observe"})]
  /\ spend \in Nat /\ kb \subseteq Facts /\ mishaps \in Nat
  /\ paid \in [Sessions -> Nat] /\ slips \in [Sessions -> Nat]
  /\ worked \in [Sessions -> SUBSET Facts] /\ tardy \subseteq Sessions

\* A session pays for at most one call past its budget, whatever else the run
\* spends, however often it is stopped or restarted: plus one call for each
\* spend read that failed, and for a stop inside its decide request
\* (decide_next_action; ensure_baseline; _session_spend).
BudgetKept ==
  \A s \in Sessions : paid[s] <= Budget - 1 + MaxCost * (1 + slips[s])

\* Nothing is merged as runtime-verified that no action or observation of a
\* session resolved, unless a driver command of a device timed out.
VerifiedWorked == kb \subseteq UNION {worked[s] : s \in Sessions} \/ tardy # {}
=============================================================================
