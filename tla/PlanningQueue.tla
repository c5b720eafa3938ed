--------------------------- MODULE PlanningQueue ----------------------------
(**************************************************************************)
(* The durable queue of live-planning sessions (agent_planning_service,   *)
(* #900): a generation pass over a ticket inserts a session and blocks on *)
(* its row, a device of the owner claims it over /agent/planning/next,    *)
(* plans, learns from the replies to its events whether the session still *)
(* runs, and finalizes.  A newer pass over the ticket, a deadline and a   *)
(* stop expire the row.  Each operation that selects rows and writes them *)
(* back in a later statement is two actions: the ORM writes what it       *)
(* decided on what it had read, whatever the row has become.              *)
(* Of one owner and one run; row ids are positions in the table.          *)
(**************************************************************************)
EXTENDS Integers, Sequences

CONSTANTS
  Tickets,      \* tickets of the run
  Passes,       \* worker threads of the generation pipeline
  Devices,      \* paired devices of the run's owner
  NoDevice,
  MaxSessions   \* bound: sessions ever inserted

ASSUME SessionBound == MaxSessions \in Nat
ASSUME NoDeviceIsNone == NoDevice \notin Devices

VARIABLES
  row,    \* the table, by id
  pass,   \* the worker threads
  dev,    \* the devices
  purge   \* the stop request: the ids it has selected
vars == <<row, pass, dev, purge>>

-----------------------------------------------------------------------------
Status == {"queued", "running", "done", "failed", "expired"}
LiveStatus == {"queued", "running"}
Ids == 1 .. MaxSessions

\* taker and orphan are history: the device that claimed the row, and whether
\* the thread that waited for it died with the API.
Session == [ticket: Tickets, status: Status, taker: Devices \cup {NoDevice}, orphan: BOOLEAN]

LiveIds == {i \in DOMAIN row : row[i].status \in LiveStatus}

\* waited: 0 within CLAIM_DEADLINE, 1 past it, 2 past RUN_DEADLINE.
IdlePass == [pc |-> "idle"]
Requesting == [pc: {"superseding"}, ticket: Tickets, stale: SUBSET Ids]
Awaiting == [pc: {"waiting", "expiring"}, session: Ids, waited: 0 .. 2]

IdleDev == [pc |-> "idle"]
OnSession == [pc: {"selected", "planning", "aborting", "finalizing"}, session: Ids]

IdlePurge == [pc |-> "idle"]
Purging == [pc: {"purging"}, rows: SUBSET Ids]

AwaitedBy(p, i) == pass[p].pc \in {"waiting", "expiring"} /\ pass[p].session = i

\* Commit of rows loaded as live and set expired: the UPDATE names the ids.
Expired(ids) == [i \in DOMAIN row |->
                   IF i \in ids THEN [row[i] EXCEPT !.status = "expired"] ELSE row[i]]

-----------------------------------------------------------------------------
(* The generation pass: request_planning, then await_result.             *)

RequestSelect(p, t) ==
  /\ pass[p].pc = "idle" /\ Len(row) < MaxSessions
  /\ pass' = [pass EXCEPT ![p] =
       [pc |-> "superseding", ticket |-> t, stale |-> {i \in LiveIds : row[i].ticket = t}]]
  /\ UNCHANGED <<row, dev, purge>>

\* Stale sessions of the ticket and the new one in one transaction.
RequestCommit(p) ==
  /\ pass[p].pc = "superseding" /\ Len(row) < MaxSessions
  /\ row' = Append(Expired(pass[p].stale),
                   [ticket |-> pass[p].ticket, status |-> "queued",
                    taker |-> NoDevice, orphan |-> FALSE])
  /\ pass' = [pass EXCEPT ![p] =
       [pc |-> "waiting", session |-> Len(row) + 1, waited |-> 0]]
  /\ UNCHANGED <<dev, purge>>

\* Time passes between two polls of the row.
Tick(p) ==
  /\ pass[p].pc = "waiting" /\ pass[p].waited < 2
  /\ pass' = [pass EXCEPT ![p].waited = @ + 1]
  /\ UNCHANGED <<row, dev, purge>>

\* A poll that finds the row terminal: a plan, or text only.
PollEnds(p) ==
  /\ pass[p].pc = "waiting" /\ row[pass[p].session].status \notin LiveStatus
  /\ pass' = [pass EXCEPT ![p] = IdlePass]
  /\ UNCHANGED <<row, dev, purge>>

\* Mutant: only the claim has a deadline.
Overdue_ClaimOnly(status, waited) == status = "queued" /\ waited >= 1

\* Nobody claimed it within CLAIM_DEADLINE, or RUN_DEADLINE passed.
Overdue(status, waited) == \/ status = "queued" /\ waited >= 1
                           \/ waited = 2

\* Mutant: the thread gives up and leaves the row as it is.
PollOverdue_Leaves(p) ==
  /\ pass[p].pc = "waiting"
  /\ row[pass[p].session].status \in LiveStatus
  /\ Overdue(row[pass[p].session].status, pass[p].waited)
  /\ pass' = [pass EXCEPT ![p] = IdlePass]
  /\ UNCHANGED <<row, dev, purge>>

\* A poll that finds it overdue calls _expire, whose own read of the row may
\* find it terminal by then.
PollOverdue(p) ==
  /\ pass[p].pc = "waiting"
  /\ row[pass[p].session].status \in LiveStatus
  /\ Overdue(row[pass[p].session].status, pass[p].waited)
  /\ pass' = [pass EXCEPT ![p].pc = "expiring"]
  /\ UNCHANGED <<row, dev, purge>>

\* _expire commits; or its select no longer found the row live.
ExpireCommit(p) ==
  /\ pass[p].pc = "expiring"
  /\ \/ row' = Expired({pass[p].session})
     \/ row[pass[p].session].status \notin LiveStatus /\ UNCHANGED row
  /\ pass' = [pass EXCEPT ![p] = IdlePass]
  /\ UNCHANGED <<dev, purge>>

-----------------------------------------------------------------------------
(* The device.                                                           *)

\* claim_next reads the oldest queued session ...
ClaimSelect(d) ==
  /\ dev[d].pc = "idle"
  /\ \E i \in DOMAIN row :
       /\ row[i].status = "queued"
       /\ \A j \in 1 .. i - 1 : row[j].status # "queued"
       /\ dev' = [dev EXCEPT ![d] = [pc |-> "selected", session |-> i]]
  /\ UNCHANGED <<row, pass, purge>>

\* Mutant: the claim writes the row it has read.
ClaimFlip_Unconditional(d) ==
  /\ dev[d].pc = "selected"
  /\ row' = [row EXCEPT ![dev[d].session].status = "running", ![dev[d].session].taker = d]
  /\ dev' = [dev EXCEPT ![d].pc = "planning"]
  /\ UNCHANGED <<pass, purge>>

\* ... and flips it where it is still queued; a claim lost to another poll is
\* tried again from the start.
ClaimFlip(d) ==
  /\ dev[d].pc = "selected"
  /\ LET i == dev[d].session IN
     IF row[i].status = "queued"
     THEN /\ row' = [row EXCEPT ![i].status = "running", ![i].taker = d]
          /\ dev' = [dev EXCEPT ![d].pc = "planning"]
     ELSE dev' = [dev EXCEPT ![d] = IdleDev] /\ UNCHANGED row
  /\ UNCHANGED <<pass, purge>>

\* The reply to an event says alive = FALSE: the device kills its Claude.
EventNotAlive(d) ==
  /\ dev[d].pc = "planning" /\ row[dev[d].session].status # "running"
  /\ dev' = [dev EXCEPT ![d].pc = "aborting"]
  /\ UNCHANGED <<row, pass, purge>>

\* An abandoned plan is posted too, with whatever sidecar was written.
FinalizeRead(d) ==
  /\ dev[d].pc \in {"planning", "aborting"}
  /\ dev' = [dev EXCEPT ![d].pc = "finalizing"]
  /\ UNCHANGED <<row, pass, purge>>

\* set_result: whatever the status; ok when the device says so and the plan
\* has a usable scenario.
FinalizeWrite(d) ==
  /\ dev[d].pc = "finalizing"
  /\ \E status \in {"done", "failed"} : row' = [row EXCEPT ![dev[d].session].status = status]
  /\ dev' = [dev EXCEPT ![d] = IdleDev]
  /\ UNCHANGED <<pass, purge>>

\* The reply to a claim is lost, the device dies, or its finalize never
\* arrives: it is not posted again.
DeviceLost(d) ==
  /\ dev[d].pc \in {"planning", "aborting"}
  /\ dev' = [dev EXCEPT ![d] = IdleDev]
  /\ UNCHANGED <<row, pass, purge>>

-----------------------------------------------------------------------------
(* A stop of the run, and a restart of the API.                          *)

PurgeSelect ==
  /\ purge.pc = "idle"
  /\ purge' = [pc |-> "purging", rows |-> LiveIds]
  /\ UNCHANGED <<row, pass, dev>>

PurgeCommit ==
  /\ purge.pc = "purging"
  /\ row' = Expired(purge.rows)
  /\ purge' = IdlePurge
  /\ UNCHANGED <<pass, dev>>

\* Threads and requests in flight die; no boot sweep knows this table.
Restart ==
  /\ pass' = [p \in Passes |-> IdlePass]
  /\ row' = [i \in DOMAIN row |->
               [row[i] EXCEPT !.orphan = @ \/ \E p \in Passes : AwaitedBy(p, i)]]
  /\ dev' = [d \in Devices |->
               IF dev[d].pc \in {"selected", "finalizing"} THEN IdleDev ELSE dev[d]]
  /\ purge' = IdlePurge

-----------------------------------------------------------------------------
Init == /\ row = <<>>
        /\ pass = [p \in Passes |-> IdlePass]
        /\ dev = [d \in Devices |-> IdleDev]
        /\ purge = IdlePurge

Await(p) == PollEnds(p) \/ PollOverdue(p) \/ ExpireCommit(p)

PassStep(p) == \/ \E t \in Tickets : RequestSelect(p, t)
               \/ RequestCommit(p) \/ Tick(p) \/ Await(p)

DeviceStep(d) == \/ ClaimSelect(d) \/ ClaimFlip(d) \/ EventNotAlive(d)
                 \/ FinalizeRead(d) \/ FinalizeWrite(d) \/ DeviceLost(d)

Next == \/ \E p \in Passes : PassStep(p)
        \/ \E d \in Devices : DeviceStep(d)
        \/ PurgeSelect \/ PurgeCommit
        \/ Restart

Spec == Init /\ [][Next]_vars

\* The API schedules its threads and its clock runs; devices owe nothing.
FairSpec == /\ Spec
            /\ \A p \in Passes : WF_vars(Tick(p)) /\ WF_vars(Await(p))

-----------------------------------------------------------------------------
(* Properties.                                                           *)

\* Every variable stays in its type; a pass waits for a session of the table,
\* and what a device holds was there to be claimed.
TypeOK ==
  /\ row \in Seq(Session) /\ Len(row) <= MaxSessions
  /\ pass \in [Passes -> {IdlePass} \cup Requesting \cup Awaiting]
  /\ dev \in [Devices -> {IdleDev} \cup OnSession]
  /\ purge \in {IdlePurge} \cup Purging
  /\ \A p \in Passes : pass[p].pc \in {"waiting", "expiring"} => pass[p].session \in DOMAIN row
  /\ \A p \in Passes : pass[p].pc = "superseding" => pass[p].stale \subseteq DOMAIN row
  /\ \A d \in Devices : dev[d].pc # "idle" => dev[d].session \in DOMAIN row
  /\ purge.pc = "purging" => purge.rows \subseteq DOMAIN row

\* A session that a device may claim or works on has a thread waiting for its
\* plan: whoever gave up on it expired it first, and neither a late claim nor
\* a late write brings it back.  (A restart of the API is the one exception,
\* which orphan records.)
LiveIsAwaited ==
  \A i \in DOMAIN row : row[i].status \in LiveStatus /\ ~row[i].orphan =>
    \E p \in Passes : AwaitedBy(p, i)

\* The queue is a one-shot offer of each session: claimed once, by one device,
\* only while queued, and never again once it is over - although requests,
\* deadlines, stops and late finalizes write rows they read earlier.
JobState == [queued |-> "open", running |-> "taken",
             done |-> "over", failed |-> "over", expired |-> "over"]

Offered == INSTANCE OneShotOffer WITH
  Jobs <- Ids, Takers <- Devices, NoTaker <- NoDevice,
  job <- [i \in Ids |-> IF i \in DOMAIN row THEN JobState[row[i].status] ELSE "unused"],
  taker <- [i \in Ids |-> IF i \in DOMAIN row THEN row[i].taker ELSE NoDevice]

OneShot == Offered!Spec

\* A pass never waits for ever: a device that is missing, slow or dead costs
\* it its plan and no more.
PassEnds == \A p \in Passes : pass[p].pc = "waiting" ~> pass[p].pc = "idle"
=============================================================================
