------------------------ MODULE PlanningQueue_proofs ------------------------
(***************************************************************************)
(* Proofs about PlanningQueue for any number of tickets, passes, devices   *)
(* and sessions: its type invariant, that a live session is always awaited *)
(* and that the queue implements OneShotOffer.                             *)
(***************************************************************************)
EXTENDS PlanningQueue, SequenceTheorems, TLAPS

-----------------------------------------------------------------------------
(* The table.                                                            *)

\* A function over the ids of the table with session values is a table of the
\* same length.
LEMMA SameTable ==
  ASSUME row \in Seq(Session), NEW f \in [DOMAIN row -> Session]
  PROVE  f \in Seq(Session) /\ Len(f) = Len(row) /\ DOMAIN f = DOMAIN row
<1>1. DOMAIN row = 1 .. Len(row) /\ Len(row) \in Nat
  BY DEF Session
<1>2. f \in [1 .. Len(row) -> Session]
  BY <1>1
<1>3. f \in Seq(Session)
  BY <1>1, <1>2, SeqDef
<1>4. DOMAIN f = 1 .. Len(row)
  BY <1>2
<1>5. Len(f) = Len(row)
  BY <1>1, <1>3, <1>4
<1> QED BY <1>1, <1>3, <1>4, <1>5

\* Writing expired keeps the length of the table and every other column.
LEMMA ExpiredTable ==
  ASSUME row \in Seq(Session), NEW ids
  PROVE  /\ Expired(ids) \in Seq(Session)
         /\ Len(Expired(ids)) = Len(row) /\ DOMAIN Expired(ids) = DOMAIN row
         /\ \A i \in DOMAIN row :
              Expired(ids)[i] = IF i \in ids THEN [row[i] EXCEPT !.status = "expired"] ELSE row[i]
<1>1. \A i \in DOMAIN row : row[i] \in Session
  OBVIOUS
<1>2. Expired(ids) \in [DOMAIN row -> Session]
  BY <1>1 DEF Expired, Session, Status
<1> QED BY <1>2, SameTable DEF Expired

\* One row is written.
LEMMA WrittenTable ==
  ASSUME row \in Seq(Session), NEW i \in DOMAIN row, NEW x \in Session
  PROVE  LET t == [row EXCEPT ![i] = x] IN
         t \in Seq(Session) /\ Len(t) = Len(row) /\ DOMAIN t = DOMAIN row
<1>1. [row EXCEPT ![i] = x] \in [DOMAIN row -> Session]
  OBVIOUS
<1> QED BY <1>1, SameTable

\* A row is appended.
LEMMA AppendedTable ==
  ASSUME NEW t \in Seq(Session), NEW x \in Session
  PROVE  /\ Append(t, x) \in Seq(Session) /\ Len(Append(t, x)) = Len(t) + 1
         /\ DOMAIN Append(t, x) = 1 .. Len(t) + 1
         /\ \A i \in DOMAIN t : Append(t, x)[i] = t[i]
         /\ Append(t, x)[Len(t) + 1] = x
  BY AppendProperties

-----------------------------------------------------------------------------
(* Types.  A step that leaves ids of the table in place keeps what passes, *)
(* devices and the stop refer to.                                          *)

LEMMA RequestTyped ==
  ASSUME TypeOK, NEW p \in Passes,
         (\E t \in Tickets : RequestSelect(p, t)) \/ RequestCommit(p)
  PROVE  TypeOK'
<1>1. CASE \E t \in Tickets : RequestSelect(p, t)
  <2>1. PICK t \in Tickets : RequestSelect(p, t)
    BY <1>1
  <2>2. DOMAIN row \subseteq Ids
    BY SessionBound DEF TypeOK, Ids
  <2> DEFINE x == [pc |-> "superseding", ticket |-> t,
                   stale |-> {i \in LiveIds : row[i].ticket = t}]
  <2>3. x \in Requesting /\ x.stale \subseteq DOMAIN row
    BY <2>2 DEF Requesting, LiveIds
  <2>4. pass' = [pass EXCEPT ![p] = x] /\ UNCHANGED <<row, dev, purge>>
    BY <2>1 DEF RequestSelect
  <2> QED BY <2>3, <2>4 DEF TypeOK
<1>2. CASE RequestCommit(p)
  <2> DEFINE t == Expired(pass[p].stale)
             x == [ticket |-> pass[p].ticket, status |-> "queued",
                   taker |-> NoDevice, orphan |-> FALSE]
             w == [pc |-> "waiting", session |-> Len(row) + 1, waited |-> 0]
  <2>1. pass[p] \in Requesting
    BY <1>2 DEF TypeOK, RequestCommit, IdlePass, Awaiting
  <2>2. x \in Session
    BY <2>1 DEF Session, Status, Requesting
  <2>3. t \in Seq(Session) /\ Len(t) = Len(row) /\ DOMAIN t = DOMAIN row
    BY ExpiredTable DEF TypeOK
  <2>4. row' = Append(t, x) /\ pass' = [pass EXCEPT ![p] = w] /\ UNCHANGED <<dev, purge>>
        /\ Len(row) < MaxSessions
    BY <1>2 DEF RequestCommit
  <2>5. row' \in Seq(Session) /\ Len(row') = Len(row) + 1 /\ DOMAIN row' = 1 .. Len(row) + 1
    BY <2>2, <2>3, <2>4, AppendedTable
  <2>6. DOMAIN row \subseteq DOMAIN row' /\ Len(row) \in Nat /\ Len(row) + 1 \in DOMAIN row'
    BY <2>5 DEF TypeOK
  <2>7. w \in Awaiting
    BY <2>4, <2>6, SessionBound DEF Awaiting, Ids
  <2> HIDE DEF x, t
  <2>8. row' \in Seq(Session) /\ Len(row') <= MaxSessions
    BY <2>4, <2>5, <2>6, SessionBound
  <2>9. pass' \in [Passes -> {IdlePass} \cup Requesting \cup Awaiting]
    BY <2>4, <2>7 DEF TypeOK
  <2>10. \A q \in Passes : pass'[q] = IF q = p THEN w ELSE pass[q]
    BY <2>4 DEF TypeOK
  <2> QED BY <2>4, <2>6, <2>8, <2>9, <2>10 DEF TypeOK
<1> QED BY <1>1, <1>2

LEMMA AwaitTyped ==
  ASSUME TypeOK, NEW p \in Passes, Tick(p) \/ Await(p)
  PROVE  TypeOK'
<1> USE DEF TypeOK
<1>1. ASSUME pass[p].pc \in {"waiting", "expiring"}
      PROVE  pass[p] \in Awaiting /\ pass[p].session \in DOMAIN row
  BY <1>1 DEF IdlePass, Requesting
<1>2. CASE Tick(p)
  <2> DEFINE w == [pass[p] EXCEPT !.waited = @ + 1]
  <2>1. w \in Awaiting /\ w.session = pass[p].session /\ w.pc = "waiting"
    BY <1>1, <1>2 DEF Tick, Awaiting
  <2>2. pass' = [pass EXCEPT ![p] = w] /\ UNCHANGED <<row, dev, purge>>
    BY <1>2 DEF Tick
  <2> HIDE DEF w
  <2> QED BY <1>1, <1>2, <2>1, <2>2 DEF Tick
<1>3. CASE PollEnds(p)
  BY <1>3 DEF PollEnds, IdlePass
<1>4. CASE PollOverdue(p)
  <2> DEFINE w == [pass[p] EXCEPT !.pc = "expiring"]
  <2>1. w \in Awaiting /\ w.session = pass[p].session /\ w.pc = "expiring"
    BY <1>1, <1>4 DEF PollOverdue, Awaiting
  <2>2. pass' = [pass EXCEPT ![p] = w] /\ UNCHANGED <<row, dev, purge>>
    BY <1>4 DEF PollOverdue
  <2> HIDE DEF w
  <2> QED BY <1>1, <1>4, <2>1, <2>2 DEF PollOverdue
<1>5. CASE ExpireCommit(p)
  <2>1. /\ row' \in Seq(Session) /\ Len(row') = Len(row) /\ DOMAIN row' = DOMAIN row
        /\ pass' = [pass EXCEPT ![p] = IdlePass] /\ UNCHANGED <<dev, purge>>
    BY <1>5, ExpiredTable DEF ExpireCommit
  <2> QED BY <2>1 DEF IdlePass
<1> QED BY <1>2, <1>3, <1>4, <1>5 DEF Await

LEMMA DeviceTyped ==
  ASSUME TypeOK, NEW d \in Devices, DeviceStep(d)
  PROVE  TypeOK'
<1> USE DEF TypeOK
<1>1. DOMAIN row = 1 .. Len(row) /\ Len(row) \in Nat /\ DOMAIN row \subseteq Ids
  BY SessionBound DEF Ids
<1>2. ASSUME dev[d].pc # "idle"
      PROVE  dev[d] \in OnSession /\ dev[d].session \in DOMAIN row
             /\ row[dev[d].session] \in Session
  BY <1>2 DEF IdleDev
<1>3. ASSUME dev' = [dev EXCEPT ![d] = IdleDev], UNCHANGED <<pass, purge>>,
             row' \in Seq(Session), Len(row') = Len(row), DOMAIN row' = DOMAIN row
      PROVE  TypeOK'
  BY <1>3 DEF IdleDev
<1>4. ASSUME NEW x \in OnSession, x.session \in DOMAIN row, dev' = [dev EXCEPT ![d] = x],
             UNCHANGED <<pass, purge>>,
             row' \in Seq(Session), Len(row') = Len(row), DOMAIN row' = DOMAIN row
      PROVE  TypeOK'
  BY <1>4
<1>5. CASE ClaimSelect(d)
  <2>1. PICK i \in DOMAIN row : dev' = [dev EXCEPT ![d] = [pc |-> "selected", session |-> i]]
    BY <1>5 DEF ClaimSelect
  <2>2. [pc |-> "selected", session |-> i] \in OnSession
    BY <1>1 DEF OnSession
  <2>3. UNCHANGED <<row, pass, purge>>
    BY <1>5 DEF ClaimSelect
  <2> QED BY <1>4, <2>1, <2>2, <2>3
<1>6. CASE ClaimFlip(d)
  <2> DEFINE i == dev[d].session
             x == [[row[i] EXCEPT !.status = "running"] EXCEPT !.taker = d]
             y == [dev[d] EXCEPT !.pc = "planning"]
  <2>1. i \in DOMAIN row /\ row[i] \in Session /\ dev[d] \in OnSession
    BY <1>2, <1>6 DEF ClaimFlip
  <2>2. CASE row[i].status = "queued"
    <3>1. x \in Session
      BY <2>1 DEF Session, Status
    <3>2. row' = [row EXCEPT ![i] = x]
      BY <1>6, <2>1, <2>2 DEF ClaimFlip
    <3>3. y \in OnSession /\ y.session \in DOMAIN row
      BY <2>1 DEF OnSession
    <3>4. dev' = [dev EXCEPT ![d] = y] /\ UNCHANGED <<pass, purge>>
      BY <1>6, <2>2 DEF ClaimFlip
    <3> HIDE DEF x, y
    <3>5. row' \in Seq(Session) /\ Len(row') = Len(row) /\ DOMAIN row' = DOMAIN row
      BY <2>1, <3>1, <3>2, WrittenTable
    <3> QED BY <1>4, <3>3, <3>4, <3>5
  <2>3. CASE row[i].status # "queued"
    BY <1>3, <1>6, <2>3 DEF ClaimFlip
  <2> QED BY <2>2, <2>3
<1>7. CASE EventNotAlive(d)
  <2> DEFINE y == [dev[d] EXCEPT !.pc = "aborting"]
  <2>1. y \in OnSession /\ y.session \in DOMAIN row
    BY <1>2, <1>7 DEF EventNotAlive, OnSession
  <2>2. dev' = [dev EXCEPT ![d] = y] /\ UNCHANGED <<row, pass, purge>>
    BY <1>7 DEF EventNotAlive
  <2> QED BY <1>4, <2>1, <2>2
<1>8. CASE FinalizeRead(d)
  <2> DEFINE y == [dev[d] EXCEPT !.pc = "finalizing"]
  <2>1. y \in OnSession /\ y.session \in DOMAIN row
    BY <1>2, <1>8 DEF FinalizeRead, OnSession
  <2>2. dev' = [dev EXCEPT ![d] = y] /\ UNCHANGED <<row, pass, purge>>
    BY <1>8 DEF FinalizeRead
  <2> QED BY <1>4, <2>1, <2>2
<1>9. CASE FinalizeWrite(d)
  <2> DEFINE i == dev[d].session
  <2>1. PICK status \in {"done", "failed"} : row' = [row EXCEPT ![i].status = status]
    BY <1>9 DEF FinalizeWrite
  <2> DEFINE x == [row[i] EXCEPT !.status = status]
  <2>2. i \in DOMAIN row /\ row[i] \in Session
    BY <1>2, <1>9 DEF FinalizeWrite
  <2>3. x \in Session
    BY <2>2 DEF Session, Status
  <2>4. row' = [row EXCEPT ![i] = x]
    BY <2>1
  <2> HIDE DEF x
  <2>5. row' \in Seq(Session) /\ Len(row') = Len(row) /\ DOMAIN row' = DOMAIN row
    BY <2>2, <2>3, <2>4, WrittenTable
  <2>6. dev' = [dev EXCEPT ![d] = IdleDev] /\ UNCHANGED <<pass, purge>>
    BY <1>9 DEF FinalizeWrite
  <2> QED BY <1>3, <2>5, <2>6
<1>10. CASE DeviceLost(d)
  BY <1>3, <1>10 DEF DeviceLost
<1> QED BY <1>5, <1>6, <1>7, <1>8, <1>9, <1>10 DEF DeviceStep

LEMMA PurgeTyped ==
  ASSUME TypeOK, PurgeSelect \/ PurgeCommit
  PROVE  TypeOK'
<1>1. CASE PurgeSelect
  <2>1. DOMAIN row \subseteq Ids
    BY SessionBound DEF TypeOK, Ids
  <2>2. purge' \in Purging /\ purge'.rows \subseteq DOMAIN row /\ UNCHANGED <<row, pass, dev>>
    BY <1>1, <2>1 DEF PurgeSelect, Purging, LiveIds
  <2> QED BY <2>2 DEF TypeOK
<1>2. CASE PurgeCommit
  <2>1. /\ row' \in Seq(Session) /\ Len(row') = Len(row) /\ DOMAIN row' = DOMAIN row
        /\ purge' = IdlePurge /\ UNCHANGED <<pass, dev>>
    BY <1>2, ExpiredTable DEF PurgeCommit, TypeOK
  <2> QED BY <2>1 DEF TypeOK, IdlePurge
<1> QED BY <1>1, <1>2

\* A restart only records the threads that died.
LEMMA RestartTable ==
  ASSUME TypeOK, Restart
  PROVE  /\ row' \in Seq(Session) /\ Len(row') = Len(row) /\ DOMAIN row' = DOMAIN row
         /\ \A i \in DOMAIN row :
              /\ row'[i].status = row[i].status /\ row'[i].taker = row[i].taker
              /\ ~row'[i].orphan => ~\E p \in Passes : AwaitedBy(p, i)
              /\ ~row'[i].orphan => ~row[i].orphan
<1>1. \A i \in DOMAIN row : row[i] \in Session
  BY DEF TypeOK
<1>2. \A i \in DOMAIN row : row[i].orphan \in BOOLEAN
  BY <1>1 DEF Session
<1> DEFINE awaited(i) == \E p \in Passes : AwaitedBy(p, i)
<1>3. row' = [i \in DOMAIN row |-> [row[i] EXCEPT !.orphan = @ \/ awaited(i)]]
  BY DEF Restart
<1> HIDE DEF awaited
<1>4. \A i \in DOMAIN row : [row[i] EXCEPT !.orphan = @ \/ awaited(i)] \in Session
  BY <1>1, <1>2 DEF Session
<1>5. row' \in [DOMAIN row -> Session]
  BY <1>3, <1>4
<1>6. row' \in Seq(Session) /\ Len(row') = Len(row) /\ DOMAIN row' = DOMAIN row
  BY <1>5, SameTable DEF TypeOK
<1>7. ASSUME NEW i \in DOMAIN row
      PROVE  /\ row'[i].status = row[i].status /\ row'[i].taker = row[i].taker
             /\ row'[i].orphan = (row[i].orphan \/ awaited(i))
  BY <1>1, <1>3 DEF Session
<1> QED BY <1>6, <1>7 DEF awaited

LEMMA RestartTyped ==
  ASSUME TypeOK, Restart
  PROVE  TypeOK'
<1>1. /\ row' \in Seq(Session) /\ Len(row') = Len(row) /\ DOMAIN row' = DOMAIN row
  BY RestartTable
<1>2. \A p \in Passes : pass'[p] = IdlePass
  BY DEF Restart
<1>3. \A d \in Devices : dev'[d] \in {dev[d], IdleDev}
  BY DEF Restart
<1>4. pass' \in [Passes -> {IdlePass}] /\ dev' \in [Devices -> {IdleDev} \cup OnSession]
      /\ purge' = IdlePurge
  BY DEF Restart, TypeOK
<1> QED BY <1>1, <1>2, <1>3, <1>4 DEF TypeOK, IdlePass, IdleDev, IdlePurge

LEMMA NextTyped == TypeOK /\ [Next]_vars => TypeOK'
<1> SUFFICES ASSUME TypeOK, [Next]_vars PROVE TypeOK'
  OBVIOUS
<1>1. ASSUME NEW p \in Passes, PassStep(p) PROVE TypeOK'
  BY <1>1, RequestTyped, AwaitTyped DEF PassStep
<1>2. ASSUME NEW d \in Devices, DeviceStep(d) PROVE TypeOK'
  BY <1>2, DeviceTyped
<1>3. CASE PurgeSelect \/ PurgeCommit
  BY <1>3, PurgeTyped
<1>4. CASE Restart
  BY <1>4, RestartTyped
<1>5. CASE UNCHANGED vars
  BY <1>5 DEF vars, TypeOK
<1> QED BY <1>1, <1>2, <1>3, <1>4, <1>5 DEF Next

\* Every reachable state is well typed; what a pass, a device or a stop has
\* read stays in the table.
THEOREM Typing == Spec => []TypeOK
<1>1. Init => TypeOK
  BY SessionBound DEF Init, TypeOK, IdlePass, IdleDev, IdlePurge
<1> QED BY <1>1, NextTyped, PTL DEF Spec

-----------------------------------------------------------------------------
(* Live sessions are awaited.                                            *)

\* A step that moves no thread off its session and makes no row live.
LEMMA AwaitedKept ==
  ASSUME LiveIsAwaited,
         DOMAIN row' = DOMAIN row,
         \A i \in DOMAIN row : row'[i].status \in LiveStatus /\ ~row'[i].orphan
                               => row[i].status \in LiveStatus /\ ~row[i].orphan,
         \A q \in Passes, i \in DOMAIN row : AwaitedBy(q, i) => AwaitedBy(q, i)'
  PROVE  LiveIsAwaited'
  BY DEF LiveIsAwaited

LEMMA RequestAwaited ==
  ASSUME TypeOK, LiveIsAwaited, NEW p \in Passes,
         (\E t \in Tickets : RequestSelect(p, t)) \/ RequestCommit(p)
  PROVE  LiveIsAwaited'
<1>1. CASE \E t \in Tickets : RequestSelect(p, t)
  <2>1. \A q \in Passes, i \in DOMAIN row : AwaitedBy(q, i) => AwaitedBy(q, i)'
    BY <1>1 DEF RequestSelect, AwaitedBy, TypeOK
  <2>2. row' = row
    BY <1>1 DEF RequestSelect
  <2> QED BY <2>1, <2>2, AwaitedKept
<1>2. CASE RequestCommit(p)
  <2> DEFINE t == Expired(pass[p].stale)
             x == [ticket |-> pass[p].ticket, status |-> "queued",
                   taker |-> NoDevice, orphan |-> FALSE]
             w == [pc |-> "waiting", session |-> Len(row) + 1, waited |-> 0]
  <2>1. row' = Append(t, x) /\ pass' = [pass EXCEPT ![p] = w]
    BY <1>2 DEF RequestCommit
  <2>2. pass[p] \in Requesting /\ \A i \in DOMAIN row : row[i] \in Session
    BY <1>2 DEF TypeOK, RequestCommit, IdlePass, Awaiting
  <2>3. x \in Session
    BY <2>2 DEF Session, Status, Requesting
  <2>4. t \in Seq(Session) /\ Len(t) = Len(row) /\ DOMAIN t = DOMAIN row
        /\ \A i \in DOMAIN row :
             t[i] = IF i \in pass[p].stale THEN [row[i] EXCEPT !.status = "expired"] ELSE row[i]
    BY ExpiredTable DEF TypeOK
  <2> HIDE DEF t, x
  <2> PICK n \in Nat : n = Len(row) + 1
    BY DEF TypeOK
  <2>5. DOMAIN row' = DOMAIN row \cup {n} /\ \A i \in DOMAIN row : row'[i] = t[i]
    BY <2>1, <2>3, <2>4, AppendedTable DEF TypeOK
  <2>6. ASSUME NEW i \in DOMAIN row, row'[i].status \in LiveStatus, ~row'[i].orphan
        PROVE  row[i].status \in LiveStatus /\ ~row[i].orphan
    BY <2>2, <2>4, <2>5, <2>6 DEF Session, LiveStatus
  <2>7. ASSUME NEW q \in Passes, NEW i \in DOMAIN row, AwaitedBy(q, i)
        PROVE  AwaitedBy(q, i)'
    BY <1>2, <2>1, <2>7 DEF AwaitedBy, RequestCommit, TypeOK
  <2>8. AwaitedBy(p, n)'
    BY <2>1 DEF AwaitedBy, TypeOK
  <2>9. ASSUME NEW i \in DOMAIN row', row'[i].status \in LiveStatus, ~row'[i].orphan
        PROVE  \E q \in Passes : AwaitedBy(q, i)'
    BY <2>5, <2>6, <2>7, <2>8, <2>9 DEF LiveIsAwaited
  <2> QED BY <2>9 DEF LiveIsAwaited
<1> QED BY <1>1, <1>2

LEMMA AwaitAwaited ==
  ASSUME TypeOK, LiveIsAwaited, NEW p \in Passes, Tick(p) \/ Await(p)
  PROVE  LiveIsAwaited'
<1>1. pass[p].pc \in {"waiting", "expiring"}
      => pass[p] \in Awaiting /\ pass[p].session \in DOMAIN row
  BY DEF TypeOK, IdlePass, Requesting
<1>2. \A i \in DOMAIN row : row[i] \in Session
  BY DEF TypeOK
<1>3. ASSUME row' = row, pass' = [pass EXCEPT ![p] = IdlePass],
             row[pass[p].session].status \notin LiveStatus
      PROVE  LiveIsAwaited'
  BY <1>3 DEF LiveIsAwaited, AwaitedBy, TypeOK
<1>4. CASE Tick(p)
  <2>1. \A q \in Passes, i \in DOMAIN row : AwaitedBy(q, i) => AwaitedBy(q, i)'
    BY <1>1, <1>4 DEF Tick, AwaitedBy, Awaiting, TypeOK
  <2>2. row' = row
    BY <1>4 DEF Tick
  <2> QED BY <2>1, <2>2, AwaitedKept
<1>5. CASE PollEnds(p)
  BY <1>3, <1>5 DEF PollEnds
<1>6. CASE PollOverdue(p)
  <2>1. \A q \in Passes, i \in DOMAIN row : AwaitedBy(q, i) => AwaitedBy(q, i)'
    BY <1>1, <1>6 DEF PollOverdue, AwaitedBy, Awaiting, TypeOK
  <2>2. row' = row
    BY <1>6 DEF PollOverdue
  <2> QED BY <2>1, <2>2, AwaitedKept
<1>7. CASE ExpireCommit(p)
  <2>1. CASE row' = Expired({pass[p].session})
    <3>1. DOMAIN row' = DOMAIN row
          /\ \A i \in DOMAIN row :
               row'[i] = IF i \in {pass[p].session}
                         THEN [row[i] EXCEPT !.status = "expired"] ELSE row[i]
      <4> DEFINE ids == {pass[p].session}
      <4>1. row' = Expired(ids)
        BY <2>1
      <4> HIDE DEF ids
      <4>2. DOMAIN row' = DOMAIN row
            /\ \A i \in DOMAIN row :
                 row'[i] = IF i \in ids THEN [row[i] EXCEPT !.status = "expired"] ELSE row[i]
        BY <4>1, ExpiredTable DEF TypeOK
      <4> QED BY <4>2 DEF ids
    <3>2. \A i \in DOMAIN row : row'[i].status \in LiveStatus => i # pass[p].session
      BY <1>2, <3>1 DEF Session, LiveStatus
    <3>3. \A q \in Passes, i \in DOMAIN row :
            i # pass[p].session /\ AwaitedBy(q, i) => AwaitedBy(q, i)'
      BY <1>7 DEF ExpireCommit, AwaitedBy, TypeOK
    <3> QED BY <3>1, <3>2, <3>3 DEF LiveIsAwaited
  <2>2. CASE row[pass[p].session].status \notin LiveStatus /\ UNCHANGED row
    BY <1>3, <1>7, <2>2 DEF ExpireCommit
  <2> QED BY <1>7, <2>1, <2>2 DEF ExpireCommit
<1> QED BY <1>4, <1>5, <1>6, <1>7 DEF Await

\* A device changes one row of the table: a claim keeps it live, a finalize
\* ends it.
LEMMA DeviceRow ==
  ASSUME TypeOK, NEW d \in Devices, DeviceStep(d)
  PROVE  /\ UNCHANGED pass /\ DOMAIN row' = DOMAIN row
         /\ \/ row' = row
            \/ \E i \in DOMAIN row :
                 /\ row[i].status = "queued" /\ row'[i].status = "running"
                 /\ row'[i].taker = d /\ row'[i].orphan = row[i].orphan
                 /\ \A j \in DOMAIN row \ {i} : row'[j] = row[j]
            \/ \E i \in DOMAIN row :
                 /\ row'[i].status \in {"done", "failed"} /\ row'[i].taker = row[i].taker
                 /\ \A j \in DOMAIN row \ {i} : row'[j] = row[j]
<1>1. dev[d].pc # "idle" => dev[d].session \in DOMAIN row /\ row[dev[d].session] \in Session
  BY DEF TypeOK
<1>2. CASE ClaimFlip(d)
  <2> PICK i \in DOMAIN row : i = dev[d].session
    BY <1>1, <1>2 DEF ClaimFlip
  <2>1. CASE row[i].status = "queued"
    <3>1. row' = [row EXCEPT ![i].status = "running", ![i].taker = d] /\ UNCHANGED pass
      BY <1>2, <2>1 DEF ClaimFlip
    <3>2. row[i] \in Session
      BY <1>1, <1>2 DEF ClaimFlip
    <3>3. row'[i] = [[row[i] EXCEPT !.status = "running"] EXCEPT !.taker = d]
      BY <3>1
    <3>4. row'[i].status = "running" /\ row'[i].taker = d /\ row'[i].orphan = row[i].orphan
      BY <3>2, <3>3 DEF Session
    <3> QED BY <2>1, <3>1, <3>4
  <2>2. CASE row[i].status # "queued"
    BY <1>2, <2>2 DEF ClaimFlip
  <2> QED BY <2>1, <2>2
<1>3. CASE FinalizeWrite(d)
  BY <1>1, <1>3 DEF FinalizeWrite, Session
<1>4. CASE ClaimSelect(d) \/ EventNotAlive(d) \/ FinalizeRead(d) \/ DeviceLost(d)
  BY <1>4 DEF ClaimSelect, EventNotAlive, FinalizeRead, DeviceLost
<1> QED BY <1>2, <1>3, <1>4 DEF DeviceStep

LEMMA NextAwaited == TypeOK /\ LiveIsAwaited /\ [Next]_vars => LiveIsAwaited'
<1> SUFFICES ASSUME TypeOK, LiveIsAwaited, [Next]_vars PROVE LiveIsAwaited'
  OBVIOUS
<1>1. ASSUME NEW p \in Passes, PassStep(p) PROVE LiveIsAwaited'
  BY <1>1, RequestAwaited, AwaitAwaited DEF PassStep
<1>2. ASSUME NEW d \in Devices, DeviceStep(d) PROVE LiveIsAwaited'
  <2>1. \A i \in DOMAIN row : row'[i].status \in LiveStatus /\ ~row'[i].orphan
                              => row[i].status \in LiveStatus /\ ~row[i].orphan
    BY <1>2, DeviceRow DEF LiveStatus
  <2> QED BY <1>2, <2>1, DeviceRow, AwaitedKept DEF AwaitedBy
<1>3. CASE PurgeSelect
  BY <1>3, AwaitedKept DEF PurgeSelect, AwaitedBy
<1>4. CASE PurgeCommit
  <2>1. DOMAIN row' = DOMAIN row /\ UNCHANGED pass
        /\ \A i \in DOMAIN row :
             row'[i] = IF i \in purge.rows THEN [row[i] EXCEPT !.status = "expired"] ELSE row[i]
    BY <1>4, ExpiredTable DEF PurgeCommit, TypeOK
  <2>2. \A i \in DOMAIN row : row[i] \in Session
    BY DEF TypeOK
  <2>3. ASSUME NEW i \in DOMAIN row, row'[i].status \in LiveStatus, ~row'[i].orphan
        PROVE  row[i].status \in LiveStatus /\ ~row[i].orphan
    BY <2>1, <2>2, <2>3 DEF Session, LiveStatus
  <2> QED BY <2>1, <2>3, AwaitedKept DEF AwaitedBy
<1>5. CASE Restart
  BY <1>5, RestartTable DEF LiveIsAwaited
<1>6. CASE UNCHANGED vars
  BY <1>6 DEF vars, LiveIsAwaited, AwaitedBy
<1> QED BY <1>1, <1>2, <1>3, <1>4, <1>5, <1>6 DEF Next

\* Unless the API went down under its thread, a session that a device may
\* claim or works on has a thread waiting for it.
THEOREM LiveAwaited == Spec => []LiveIsAwaited
<1>1. Init => LiveIsAwaited
  BY DEF Init, LiveIsAwaited
<1> QED BY <1>1, NextAwaited, Typing, PTL DEF Spec

-----------------------------------------------------------------------------
(* The queue is a one-shot offer.                                        *)

Job == [i \in Ids |-> IF i \in DOMAIN row THEN JobState[row[i].status] ELSE "unused"]
Taker == [i \in Ids |-> IF i \in DOMAIN row THEN row[i].taker ELSE NoDevice]

\* Rows that only end, in any number, close their offers.
LEMMA Closing ==
  ASSUME TypeOK, TypeOK', DOMAIN row' = DOMAIN row,
         \A i \in DOMAIN row :
           /\ row'[i].taker = row[i].taker
           /\ row'[i].status = row[i].status \/ row'[i].status \notin LiveStatus
  PROVE  Offered!Next
<1> DEFINE ended == {i \in DOMAIN row : row[i].status \in LiveStatus
                                       /\ row'[i].status \notin LiveStatus}
<1>1. DOMAIN row \subseteq Ids
  BY SessionBound DEF TypeOK, Ids
<1>2. \A i \in DOMAIN row : row[i].status \in Status /\ row'[i].status \in Status
  <2>1. row \in Seq(Session) /\ row' \in Seq(Session)
    BY DEF TypeOK, Session, Status
  <2>2. \A i \in DOMAIN row : row[i] \in Session /\ row'[i] \in Session
    BY <2>1
  <2> QED BY <2>2 DEF Session
<1>3. ended \subseteq {i \in Ids : Job[i] \in {"open", "taken"}}
  BY <1>1, <1>2 DEF Job, JobState, LiveStatus
<1>4. Taker' = Taker
  BY <1>1 DEF Taker
<1>5. Job' = [i \in Ids |-> IF i \in ended THEN "over" ELSE Job[i]]
  <2> SUFFICES ASSUME NEW i \in Ids PROVE Job'[i] = IF i \in ended THEN "over" ELSE Job[i]
    BY DEF Job
  <2> QED BY <1>2 DEF Job, JobState, LiveStatus, Status
<1> PICK old : old = ended
  OBVIOUS
<1>6. Offered!Close(old)
  BY <1>3, <1>4, <1>5 DEF Offered!Close, Offered!Closable, Job, Taker
<1>7. old \in SUBSET Ids
  BY <1>1
<1> HIDE DEF ended
<1> QED BY <1>6, <1>7 DEF Offered!Next

\* A claim takes the offer.
LEMMA Taking ==
  ASSUME TypeOK, DOMAIN row' = DOMAIN row, NEW d \in Devices, NEW i \in DOMAIN row,
         row[i].status = "queued", row'[i].status = "running", row'[i].taker = d,
         \A j \in DOMAIN row \ {i} : row'[j] = row[j]
  PROVE  Offered!Next
<1>1. i \in Ids
  BY SessionBound DEF TypeOK, Ids
<1>2. Job[i] = "open"
  BY <1>1 DEF Job, JobState
<1>3. Job' = [Job EXCEPT ![i] = "taken"]
  <2> SUFFICES ASSUME NEW j \in Ids
               PROVE  Job'[j] = IF j = i THEN "taken" ELSE Job[j]
    BY <1>1 DEF Job
  <2> QED BY DEF Job, JobState
<1>4. Taker' = [Taker EXCEPT ![i] = d]
  <2> SUFFICES ASSUME NEW j \in Ids
               PROVE  Taker'[j] = IF j = i THEN d ELSE Taker[j]
    BY <1>1 DEF Taker
  <2> QED BY DEF Taker
<1>5. Offered!Take(i, d)
  BY <1>2, <1>3, <1>4 DEF Offered!Take, Job, Taker
<1> QED BY <1>1, <1>5 DEF Offered!Next

\* A request puts its session on offer and closes those it replaces.
LEMMA Offering ==
  ASSUME TypeOK, NEW p \in Passes, RequestCommit(p)
  PROVE  Offered!Next
<1> DEFINE t == Expired(pass[p].stale)
           x == [ticket |-> pass[p].ticket, status |-> "queued",
                 taker |-> NoDevice, orphan |-> FALSE]
           n == Len(row) + 1
           old == {i \in LiveIds : i \in pass[p].stale}
<1>1. row' = Append(t, x) /\ Len(row) < MaxSessions
  BY DEF RequestCommit
<1>2. pass[p] \in Requesting /\ \A i \in DOMAIN row : row[i] \in Session
  BY DEF TypeOK, RequestCommit, IdlePass, Awaiting
<1>3. x \in Session /\ x.status = "queued" /\ x.taker = NoDevice
  BY <1>2 DEF Session, Status, Requesting
<1>4. t \in Seq(Session) /\ Len(t) = Len(row) /\ DOMAIN t = DOMAIN row
      /\ \A i \in DOMAIN row :
           t[i] = IF i \in pass[p].stale THEN [row[i] EXCEPT !.status = "expired"] ELSE row[i]
  BY ExpiredTable DEF TypeOK
<1> HIDE DEF t, x
<1>5. DOMAIN row' = DOMAIN row \cup {n} /\ (\A i \in DOMAIN row : row'[i] = t[i]) /\ row'[n] = x
      /\ n \in Ids /\ DOMAIN row \subseteq Ids /\ n \notin DOMAIN row
  BY <1>1, <1>3, <1>4, AppendedTable, SessionBound DEF TypeOK, Ids
<1>6. \A i \in DOMAIN row :
        /\ row'[i].taker = row[i].taker
        /\ row'[i].status = IF i \in pass[p].stale THEN "expired" ELSE row[i].status
        /\ row[i].status \in Status
  BY <1>2, <1>4, <1>5 DEF Session
<1>7. Job[n] = "unused" /\ old \subseteq {i \in Ids : Job[i] \in {"open", "taken"}}
  BY <1>5 DEF Job, JobState, LiveIds, LiveStatus
<1>8. Taker' = Taker
  BY <1>3, <1>5, <1>6 DEF Taker
<1> HIDE DEF n
<1>9. Job' = [i \in Ids |-> IF i = n THEN "open" ELSE IF i \in old THEN "over" ELSE Job[i]]
  <2> SUFFICES ASSUME NEW i \in Ids
               PROVE  Job'[i] = IF i = n THEN "open" ELSE IF i \in old THEN "over" ELSE Job[i]
    BY DEF Job
  <2>1. CASE i = n
    BY <1>3, <1>5, <2>1 DEF Job, JobState
  <2>2. CASE i \in DOMAIN row
    BY <1>5, <1>6, <2>2 DEF Job, JobState, LiveIds, LiveStatus, Status
  <2>3. CASE i # n /\ i \notin DOMAIN row
    BY <1>5, <2>3 DEF Job, LiveIds
  <2> QED BY <2>1, <2>2, <2>3
<1> PICK j, closed : j = n /\ closed = old
  OBVIOUS
<1>10. Offered!Offer(j, closed)
  BY <1>7, <1>8, <1>9 DEF Offered!Offer, Offered!Closable, Job, Taker
<1>11. j \in Ids /\ closed \in SUBSET Ids
  BY <1>5 DEF LiveIds
<1> HIDE DEF old
<1> QED BY <1>10, <1>11 DEF Offered!Next

LEMMA NextOneShot == TypeOK /\ TypeOK' /\ [Next]_vars => [Offered!Next]_(Offered!vars)
<1> SUFFICES ASSUME TypeOK, TypeOK', [Next]_vars PROVE [Offered!Next]_(Offered!vars)
  OBVIOUS
<1>1. ASSUME row' = row PROVE UNCHANGED Offered!vars
  BY <1>1 DEF Offered!vars
<1>2. ASSUME NEW ids, row' = Expired(ids) PROVE Offered!Next
  <2>1. DOMAIN row' = DOMAIN row
        /\ \A i \in DOMAIN row :
             row'[i] = IF i \in ids THEN [row[i] EXCEPT !.status = "expired"] ELSE row[i]
    BY <1>2, ExpiredTable DEF TypeOK
  <2>2. \A i \in DOMAIN row : row[i] \in Session
    BY DEF TypeOK
  <2>3. \A i \in DOMAIN row :
          /\ row'[i].taker = row[i].taker
          /\ row'[i].status = row[i].status \/ row'[i].status \notin LiveStatus
    BY <2>1, <2>2 DEF Session, LiveStatus
  <2> QED BY <2>1, <2>3, Closing
<1>3. ASSUME NEW p \in Passes, PassStep(p) PROVE [Offered!Next]_(Offered!vars)
  <2>1. CASE (\E t \in Tickets : RequestSelect(p, t)) \/ Tick(p) \/ PollEnds(p) \/ PollOverdue(p)
    BY <1>1, <2>1 DEF RequestSelect, Tick, PollEnds, PollOverdue
  <2>2. CASE RequestCommit(p)
    BY <2>2, Offering
  <2>3. CASE ExpireCommit(p)
    BY <1>1, <1>2, <2>3 DEF ExpireCommit
  <2> QED BY <1>3, <2>1, <2>2, <2>3 DEF PassStep, Await
<1>4. ASSUME NEW d \in Devices, DeviceStep(d) PROVE [Offered!Next]_(Offered!vars)
  <2>1. CASE row' = row
    BY <1>1, <2>1
  <2>2. CASE \E i \in DOMAIN row :
               /\ row[i].status = "queued" /\ row'[i].status = "running" /\ row'[i].taker = d
               /\ \A j \in DOMAIN row \ {i} : row'[j] = row[j]
    BY <1>4, <2>2, DeviceRow, Taking
  <2>3. CASE \E i \in DOMAIN row :
               /\ row'[i].status \in {"done", "failed"} /\ row'[i].taker = row[i].taker
               /\ \A j \in DOMAIN row \ {i} : row'[j] = row[j]
    BY <1>4, <2>3, DeviceRow, Closing DEF LiveStatus
  <2> QED BY <1>4, <2>1, <2>2, <2>3, DeviceRow
<1>5. CASE PurgeSelect
  BY <1>1, <1>5 DEF PurgeSelect
<1>6. CASE PurgeCommit
  BY <1>2, <1>6 DEF PurgeCommit
<1>7. CASE Restart
  BY <1>7, RestartTable, Closing
<1>8. CASE UNCHANGED vars
  BY <1>1, <1>8 DEF vars
<1> QED BY <1>3, <1>4, <1>5, <1>6, <1>7, <1>8 DEF Next

\* The planning queue implements the one-shot offer of each of its sessions.
THEOREM Implements == Spec => OneShot
<1>1. Init => Offered!Init
  BY DEF Init, Offered!Init
<1> QED BY <1>1, NextOneShot, Typing, PTL DEF Spec, OneShot, Offered!Spec
-----------------------------------------------------------------------------
(* What the promise is worth.                                            *)

JobNow == [i \in Ids |-> IF i \in DOMAIN row THEN JobState[row[i].status] ELSE "unused"]
TakerNow == [i \in Ids |-> IF i \in DOMAIN row THEN row[i].taker ELSE NoDevice]

\* A session that was not taken has no taker.
Untaken == \A i \in Ids : JobNow[i] \in {"unused", "open"} => TakerNow[i] = NoDevice

LEMMA OfferTyped == Offered!Spec => [](Offered!TypeOK /\ Untaken)
<1>1. Offered!Init => Offered!TypeOK /\ Untaken
  BY DEF Offered!Init, Offered!TypeOK, Untaken, JobNow, TakerNow
<1>2. Offered!TypeOK /\ [Offered!Next]_(Offered!vars) => Offered!TypeOK'
  BY DEF Offered!TypeOK, Offered!Next, Offered!Offer, Offered!Take, Offered!Close, Offered!vars
<1>3. Offered!TypeOK /\ Untaken /\ [Offered!Next]_(Offered!vars) => Untaken'
  BY DEF Offered!TypeOK, Untaken, JobNow, TakerNow, Offered!Next, Offered!Offer, Offered!Take,
         Offered!Close, Offered!Closable, Offered!vars
<1> QED BY <1>1, <1>2, <1>3, PTL DEF Offered!Spec

\* A session keeps the device that took it, and one that is over is not
\* offered or taken again: it follows from OneShotOffer, and so holds of the
\* executions too, which implement it as well.
THEOREM TakenForGood == Spec => Offered!TakerStands /\ Offered!OverStands
<1>1. Offered!TypeOK /\ Untaken /\ [Offered!Next]_(Offered!vars)
      => [Offered!KeepsTaker]_(Offered!vars)
  BY DEF Offered!TypeOK, Untaken, JobNow, TakerNow, Offered!Next, Offered!Offer, Offered!Take,
         Offered!Close, Offered!KeepsTaker
<1>2. Offered!TypeOK /\ [Offered!Next]_(Offered!vars) => [Offered!KeepsOver]_(Offered!vars)
  BY DEF Offered!TypeOK, JobNow, TakerNow, Offered!Next, Offered!Offer, Offered!Take,
         Offered!Close, Offered!Closable, Offered!KeepsOver
<1> QED BY <1>1, <1>2, Implements, OfferTyped, PTL
        DEF Offered!Spec, Offered!TakerStands, Offered!OverStands, OneShot
=============================================================================
