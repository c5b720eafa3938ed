----------------------- MODULE BrowserSessions_proofs -----------------------
(***************************************************************************)
(* Theorems about the browser and what runs one of its own: LoginCapture   *)
(* and Exploration, on the server or on a device, and the Session and the  *)
(* LiveView of the single-page application; for any number of devices,     *)
(* threads, origins, sessions, pages, people, tabs and queries, and        *)
(* whatever the bounds.                                                    *)
(*                                                                         *)
(*   LoginTyping          every reachable state is well typed              *)
(*   OneWindowAtMost      one login window on the server, one on devices   *)
(*   ExploreTyping        every reachable state is well typed              *)
(*   SessionWithinBudget  one decide call past the budget, at most         *)
(*   MergedWasSeen        what is merged as verified was seen to work      *)
(*   SignTyping           every reachable state is well typed              *)
(*   NobodySignedOut      no outage signs a tab out                        *)
(*   OlderNeverStands     an older answer on a screen is asked for again   *)
(*                                                                         *)
(* A login window on the server is kept alone by a lock.  On the devices   *)
(* nothing does: what keeps the second away is that the row of the request *)
(* stays running, its claim recent and the request young, for as long as a *)
(* device works on it.                                                     *)
(*                                                                         *)
(* An exploration pays out of sight of the budget check: the device's call *)
(* is made by a job that compares the run's spend with a baseline taken    *)
(* earlier, under a lock the payment does not hold.  What keeps it to one  *)
(* call is that the baseline is from before all the session has paid       *)
(* (Baselines, JobBases).  That what is merged was seen rests on a device  *)
(* never having more than one command on its wire (WireMatches), so that   *)
(* the reply it takes for an action's is that action's.                    *)
(*                                                                         *)
(* A tab is cleared by its ladder's outcome, and only a booting tab by one *)
(* that was not reached: what has to hold throughout is that a tab that is *)
(* signed in has no ladder that boots it (AwaitsOwn).  An older answer     *)
(* comes by way of a gesture only: nothing a query has in flight is older  *)
(* than what it shows (Behind), and the hooks drop what they write         *)
(* (SeedThenDrop).                                                         *)
(***************************************************************************)
EXTENDS LoginCapture, Exploration, Session, LiveView, FiniteSetTheorems, SequenceTheorems, TLAPS

(* ---------------------------- Login capture ---------------------------- *)

Windows == {w \in Workers : worker[w] \in {"window", "run window"}}

\* A thread with a window open has the lock.
LockHeld ==
  /\ \A w \in Windows : lock
  /\ \A v, w \in Windows : v = w

\* The device is in its browser, or about to tell how it ended.
OnDevice(d) == device[d].job.at \in {"browser", "report"}

\* What makes claim_next, request_capture and the sweep leave a request alone.
RowTaken == row # None /\ row.status = "running" /\ row.claim = "recent" /\ row.age = "young"

WorkerHasRow ==
  ~late =>
    /\ \A d \in Agents : OnDevice(d) => RowTaken
    /\ \A d, e \in Agents : OnDevice(d) /\ OnDevice(e) => d = e

\* A device that has claimed a request knows its origin.
JobShape ==
  {j \in [at : {"idle", "selected", "browser", "report"}, origin : Origins \cup {None}, ok : BOOLEAN] :
     j.at \in {"browser", "report"} => j.origin \in Origins}
DeviceShape ==
  [config : BOOLEAN, valid : BOOLEAN, sessions : SUBSET Origins, job : JobShape]

\* The type invariant, by what changes together.
ProjectTyped ==
  /\ base \in Origins /\ target \in {"server", "local-agent"} /\ marker \in Origins \cup {None}
RowTyped == row \in CaptureRows \cup {None} /\ late \in BOOLEAN
CodeTyped == code \in BOOLEAN /\ failures \in 0 .. FailMax
DevicesTyped == device \in [Agents -> DeviceShape]
WindowTyped ==
  /\ file \in BOOLEAN /\ lock \in BOOLEAN /\ cooldown \in BOOLEAN
  /\ worker \in [Workers -> {"none", "start", "run", "window", "run window"}]
ClicksTyped == capturing \in BOOLEAN /\ guarded \in Nat
UsedTyped == used \in [DOMAIN Limit -> Nat]
Typed ==
  /\ ProjectTyped /\ RowTyped /\ CodeTyped /\ DevicesTyped /\ WindowTyped /\ ClicksTyped
  /\ UsedTyped

-----------------------------------------------------------------------------
LEMMA AtMostOne ==
  ASSUME NEW S, \A x, y \in S : x = y
  PROVE  Cardinality(S) <= 1
<1>1. CASE S = {} BY <1>1, FS_EmptySet
<1>2. ASSUME NEW x \in S PROVE Cardinality(S) <= 1
  <2>1. S = {x} BY <1>2
  <2> QED BY <2>1, FS_Singleton
<1> QED BY <1>1, <1>2

LEMMA Kinds == {"clicks", "edits", "restarts", "faults"} = DOMAIN Limit
BY DEF Limit

\* A count of requests, clicks and the like only grows.
LEMMA SpendsType ==
  ASSUME UsedTyped, NEW w \in {"clicks", "edits", "restarts", "faults"}, Spends(w)
  PROVE  UsedTyped'
BY Kinds DEF Spends, UsedTyped

LEMMA RequestShape ==
  ASSUME NEW o \in Origins
  PROVE  Request(o) \in CaptureRows
BY DEF Request, CaptureRows

-----------------------------------------------------------------------------
LEMMA NoJobShape == NoJob \in JobShape
BY DEF NoJob, JobShape

LEMMA JobTyped ==
  ASSUME DevicesTyped, NEW d \in Agents, NEW work \in JobShape, Job(d, work)
  PROVE  DevicesTyped'
BY DEF DevicesTyped, DeviceShape, Job

LEMMA TypedIsTypeOK == Typed => LoginTypeOK
BY DEF Typed, ProjectTyped, RowTyped, CaptureRows, CodeTyped, DevicesTyped, DeviceShape, JobShape,
       WindowTyped, ClicksTyped, UsedTyped, LoginTypeOK

LEMMA NoneFailed == 0 \in 0 .. FailMax
BY LoginAssumption

LEMMA LoginInitHolds ==
  ASSUME LoginInit
  PROVE  Typed /\ LockHeld /\ WorkerHasRow
<1>1. ProjectTyped /\ RowTyped /\ WindowTyped /\ ClicksTyped
  BY DEF LoginInit, ProjectTyped, RowTyped, WindowTyped, ClicksTyped
<1>5. CodeTyped
  BY NoneFailed DEF LoginInit, CodeTyped
<1>2. DevicesTyped
  BY NoJobShape DEF LoginInit, DevicesTyped, DeviceShape, Fresh
<1>3. UsedTyped
  BY DEF LoginInit, UsedTyped
<1>4. LockHeld /\ WorkerHasRow
  BY DEF LoginInit, LockHeld, Windows, WorkerHasRow, OnDevice, Fresh, NoJob
<1> QED BY <1>1, <1>2, <1>3, <1>4, <1>5 DEF Typed

LEMMA LoginTypeStep ==
  ASSUME Typed, [LoginNext]_loginVars
  PROVE  Typed'
<1> USE DEF Typed, queue, agents, server
<1>1. ASSUME NEW o \in Origins, SetBaseUrl(o) PROVE Typed'
  <2>1. ProjectTyped' BY <1>1 DEF SetBaseUrl, ProjectTyped
  <2>2. UsedTyped' BY <1>1, SpendsType DEF SetBaseUrl
  <2> QED BY <1>1, <2>1, <2>2
         DEF SetBaseUrl, RowTyped, CodeTyped, DevicesTyped, WindowTyped, ClicksTyped
<1>2. ASSUME NEW t \in {"server", "local-agent"}, SetTarget(t) PROVE Typed'
  <2>1. ProjectTyped' BY <1>2 DEF SetTarget, ProjectTyped
  <2>2. UsedTyped' BY <1>2, SpendsType DEF SetTarget
  <2> QED BY <1>2, <2>1, <2>2
         DEF SetTarget, RowTyped, CodeTyped, DevicesTyped, WindowTyped, ClicksTyped
<1>3. CASE CaptureOnAgent
  <2>1. RowTyped' BY <1>3, RequestShape DEF CaptureOnAgent, RequestCapture, RowTyped, CaptureRows, ProjectTyped
  <2>2. UsedTyped' BY <1>3, SpendsType DEF CaptureOnAgent
  <2> QED BY <1>3, <2>1, <2>2
         DEF CaptureOnAgent, ProjectTyped, CodeTyped, DevicesTyped, WindowTyped, ClicksTyped
<1>4. CASE ClaimTurnsStale
  <2>1. RowTyped' BY <1>4 DEF ClaimTurnsStale, RowTyped, CaptureRows
  <2> QED BY <1>4, <2>1
         DEF ClaimTurnsStale, ProjectTyped, CodeTyped, DevicesTyped, WindowTyped, ClicksTyped, UsedTyped
<1>5. CASE RequestTurnsOld
  <2>1. RowTyped' BY <1>5 DEF RequestTurnsOld, RowTyped, CaptureRows
  <2> QED BY <1>5, <2>1
         DEF RequestTurnsOld, ProjectTyped, CodeTyped, DevicesTyped, WindowTyped, ClicksTyped, UsedTyped
<1>6. ASSUME NEW d \in Agents, SelectCapture(d) PROVE Typed'
  <2>1. [device[d].job EXCEPT !.at = "selected"] \in JobShape BY DEF DevicesTyped, DeviceShape, JobShape
  <2>2. DevicesTyped' BY <1>6, <2>1, JobTyped DEF SelectCapture
  <2> QED BY <1>6, <2>2
         DEF SelectCapture, ProjectTyped, RowTyped, CodeTyped, WindowTyped, ClicksTyped, UsedTyped
<1>7. ASSUME NEW d \in Agents, FlipCapture(d) PROVE Typed'
  <2>1. RowTyped' BY <1>7 DEF FlipCapture, RowTyped, CaptureRows
  <2>2. DevicesTyped'
    <3>1. CASE Job(d, NoJob) BY <3>1, JobTyped, NoJobShape
    <3>2. CASE /\ row # None
               /\ device' = [device EXCEPT
                    ![d].job = [at |-> "browser", origin |-> row.origin, ok |-> FALSE],
                    ![d].sessions = @ \ {row.origin}]
      <4> DEFINE work == [at |-> "browser", origin |-> row.origin, ok |-> FALSE]
                 kept == device[d].sessions \ {row.origin}
      <4>1. work \in JobShape BY <3>2 DEF RowTyped, CaptureRows, JobShape
      <4>2. kept \in SUBSET Origins BY DEF DevicesTyped, DeviceShape
      <4>3. device' = [device EXCEPT ![d].job = work, ![d].sessions = kept]
        BY <3>2 DEF DevicesTyped, DeviceShape
      <4> HIDE DEF work, kept
      <4> QED BY <4>1, <4>2, <4>3 DEF DevicesTyped, DeviceShape
    <3> QED BY <1>7, <3>1, <3>2 DEF FlipCapture
  <2>3. UsedTyped' BY <1>7, SpendsType DEF FlipCapture, UsedTyped
  <2> QED BY <1>7, <2>1, <2>2, <2>3
         DEF FlipCapture, ProjectTyped, CodeTyped, WindowTyped, ClicksTyped
<1>8. ASSUME NEW d \in Agents, BrowserCloses(d) PROVE Typed'
  <2>1. DevicesTyped'
    <3>1. device[d] \in DeviceShape BY DEF DevicesTyped
    <3>2. PICK ok \in BOOLEAN :
            device' = [device EXCEPT
              ![d].job = [@ EXCEPT !.at = "report", !.ok = ok],
              ![d].sessions = @ \cup (IF ok THEN {device[d].job.origin} ELSE {})]
      BY <1>8 DEF BrowserCloses
    <3> DEFINE work == [device[d].job EXCEPT !.at = "report", !.ok = ok]
               kept == device[d].sessions \cup (IF ok THEN {device[d].job.origin} ELSE {})
    <3>3. work \in JobShape
      <4>1. device[d].job.origin \in Origins
        BY <1>8, <3>1 DEF BrowserCloses, Open, DeviceShape, JobShape
      <4> QED BY <3>1, <4>1 DEF DeviceShape, JobShape
    <3>4. kept \in SUBSET Origins
      <4>1. device[d].job.origin \in Origins
        BY <1>8, <3>1 DEF BrowserCloses, Open, DeviceShape, JobShape
      <4> QED BY <3>1, <4>1 DEF DeviceShape
    <3>5. device' = [device EXCEPT ![d].job = work, ![d].sessions = kept]
      BY <3>1, <3>2 DEF DevicesTyped, DeviceShape
    <3> HIDE DEF work, kept
    <3> QED BY <3>3, <3>4, <3>5 DEF DevicesTyped, DeviceShape
  <2> QED BY <1>8, <2>1
         DEF BrowserCloses, ProjectTyped, RowTyped, CodeTyped, WindowTyped, ClicksTyped, UsedTyped
<1>9. ASSUME NEW d \in Agents, PostComplete(d) PROVE Typed'
  <2>1. ProjectTyped' BY <1>9 DEF PostComplete, ProjectTyped, RowTyped, CaptureRows
  <2>2. RowTyped' BY <1>9 DEF PostComplete, RowTyped
  <2>3. DevicesTyped' BY <1>9, JobTyped, NoJobShape DEF PostComplete
  <2> QED BY <1>9, <2>1, <2>2, <2>3
         DEF PostComplete, CodeTyped, WindowTyped, ClicksTyped, UsedTyped
<1>10. ASSUME NEW d \in Agents, PostLost(d) PROVE Typed'
  <2>1. DevicesTyped' BY <1>10, JobTyped, NoJobShape DEF PostLost
  <2>2. UsedTyped' BY <1>10, SpendsType DEF PostLost
  <2> QED BY <1>10, <2>1, <2>2
         DEF PostLost, ProjectTyped, RowTyped, CodeTyped, WindowTyped, ClicksTyped
<1>11. ASSUME NEW d \in Agents, Redeem(d) PROVE Typed'
  <2>1. CodeTyped' BY <1>11 DEF Redeem, CodeTyped
  <2>2. DevicesTyped' BY <1>11 DEF Redeem, DevicesTyped, DeviceShape
  <2> QED BY <1>11, <2>1, <2>2
         DEF Redeem, ProjectTyped, RowTyped, WindowTyped, ClicksTyped, UsedTyped
<1>12. ASSUME NEW d \in Agents, RevokeDevice(d) PROVE Typed'
  <2>1. DevicesTyped' BY <1>12 DEF RevokeDevice, DevicesTyped, DeviceShape
  <2>2. UsedTyped' BY <1>12, SpendsType DEF RevokeDevice
  <2> QED BY <1>12, <2>1, <2>2
         DEF RevokeDevice, ProjectTyped, RowTyped, CodeTyped, WindowTyped, ClicksTyped
<1>13. ASSUME NEW d \in Agents, Disconnect(d) PROVE Typed'
  <2>1. DevicesTyped'
    <3>1. device[d] \in DeviceShape BY DEF DevicesTyped
    <3>2. PICK told \in BOOLEAN :
            LET valid == device[d].valid /\ ~told
            IN  device' = [device EXCEPT
                  ![d].config = FALSE, ![d].valid = valid,
                  ![d].job = IF @.at \notin {"browser", "report"} THEN @
                             ELSE IF valid THEN [@ EXCEPT !.at = "report"] ELSE NoJob]
      BY <1>13 DEF Disconnect
    <3> DEFINE valid == device[d].valid /\ ~told
               work == IF device[d].job.at \notin {"browser", "report"} THEN device[d].job
                      ELSE IF valid THEN [device[d].job EXCEPT !.at = "report"] ELSE NoJob
    <3>3. valid \in BOOLEAN OBVIOUS
    <3>4. work \in JobShape BY <3>1, NoJobShape DEF DeviceShape, JobShape
    <3>5. device' = [device EXCEPT ![d].config = FALSE, ![d].valid = valid, ![d].job = work]
      BY <3>1, <3>2 DEF DevicesTyped, DeviceShape
    <3> HIDE DEF valid, work
    <3> QED BY <3>3, <3>4, <3>5 DEF DevicesTyped, DeviceShape
  <2>2. UsedTyped' BY <1>13, SpendsType DEF Disconnect
  <2> QED BY <1>13, <2>1, <2>2
         DEF Disconnect, ProjectTyped, RowTyped, CodeTyped, WindowTyped, ClicksTyped
<1>14. ASSUME NEW d \in Agents, DeviceDies(d) PROVE Typed'
  <2>1. DevicesTyped' BY <1>14, JobTyped, NoJobShape DEF DeviceDies
  <2>2. UsedTyped' BY <1>14, SpendsType DEF DeviceDies
  <2> QED BY <1>14, <2>1, <2>2
         DEF DeviceDies, ProjectTyped, RowTyped, CodeTyped, WindowTyped, ClicksTyped
<1>15. CASE CaptureOnServer
  <2>1. ClicksTyped' BY <1>15 DEF CaptureOnServer, ClicksTyped
  <2>2. UsedTyped' BY <1>15, SpendsType DEF CaptureOnServer
  <2> QED BY <1>15, <2>1, <2>2
         DEF CaptureOnServer, ProjectTyped, RowTyped, CodeTyped, DevicesTyped, WindowTyped
<1>16. CASE CooldownEnds
  <2>1. WindowTyped' BY <1>16 DEF CooldownEnds, WindowTyped
  <2> QED BY <1>16, <2>1
         DEF CooldownEnds, ProjectTyped, RowTyped, CodeTyped, DevicesTyped, ClicksTyped, UsedTyped
<1>17. CASE ClearAuth
  <2>1. ProjectTyped' BY <1>17 DEF ClearAuth, ProjectTyped
  <2>2. WindowTyped' BY <1>17 DEF ClearAuth, WindowTyped
  <2>3. UsedTyped' BY <1>17, SpendsType DEF ClearAuth
  <2> QED BY <1>17, <2>1, <2>2, <2>3
         DEF ClearAuth, RowTyped, CodeTyped, DevicesTyped, ClicksTyped
<1>18. ASSUME NEW w \in Workers, StartCapture(w) PROVE Typed'
  <2>1. WindowTyped' BY <1>18 DEF StartCapture, WindowTyped
  <2>2. ClicksTyped' BY <1>18 DEF StartCapture, ClicksTyped
  <2> QED BY <1>18, <2>1, <2>2
         DEF StartCapture, ProjectTyped, RowTyped, CodeTyped, DevicesTyped, UsedTyped
<1>19. ASSUME NEW w \in Workers, RunCaptures(w) PROVE Typed'
  <2>1. WindowTyped' BY <1>19 DEF RunCaptures, WindowTyped
  <2>2. UsedTyped' BY <1>19, SpendsType DEF RunCaptures
  <2> QED BY <1>19, <2>1, <2>2
         DEF RunCaptures, ProjectTyped, RowTyped, CodeTyped, DevicesTyped, ClicksTyped
<1>20. ASSUME NEW w \in Workers, CaptureStorageState(w) PROVE Typed'
  <2>1. WindowTyped' BY <1>20 DEF CaptureStorageState, WindowTyped
  <2>2. ClicksTyped' BY <1>20 DEF CaptureStorageState, ClicksTyped
  <2> QED BY <1>20, <2>1, <2>2
         DEF CaptureStorageState, ProjectTyped, RowTyped, CodeTyped, DevicesTyped, UsedTyped
<1>21. ASSUME NEW w \in Workers, CaptureOnce(w) PROVE Typed'
  <2>1. WindowTyped' BY <1>21 DEF CaptureOnce, WindowTyped
  <2>2. ClicksTyped' BY <1>21 DEF CaptureOnce, ClicksTyped
  <2> QED BY <1>21, <2>1, <2>2
         DEF CaptureOnce, ProjectTyped, RowTyped, CodeTyped, DevicesTyped, UsedTyped
<1>22. CASE CreatePairingCode
  <2>1. CodeTyped' BY <1>22 DEF CreatePairingCode, CodeTyped
  <2> QED BY <1>22, <2>1
         DEF CreatePairingCode, ProjectTyped, RowTyped, DevicesTyped, WindowTyped, ClicksTyped, UsedTyped
<1>23. CASE CodeExpires
  <2>1. CodeTyped' BY <1>23 DEF CodeExpires, CodeTyped
  <2> QED BY <1>23, <2>1
         DEF CodeExpires, ProjectTyped, RowTyped, DevicesTyped, WindowTyped, ClicksTyped, UsedTyped
<1>24. CASE RedeemWrong
  <2>1. CodeTyped' BY <1>24, LoginAssumption DEF RedeemWrong, CodeTyped
  <2>2. UsedTyped' BY <1>24, SpendsType DEF RedeemWrong
  <2> QED BY <1>24, <2>1, <2>2
         DEF RedeemWrong, ProjectTyped, RowTyped, DevicesTyped, WindowTyped, ClicksTyped
<1>25. CASE WindowPasses
  <2>1. CodeTyped' BY <1>25, NoneFailed DEF WindowPasses, CodeTyped
  <2> QED BY <1>25, <2>1
         DEF WindowPasses, ProjectTyped, RowTyped, DevicesTyped, WindowTyped, ClicksTyped, UsedTyped
<1>26. CASE LoginRestart
  <2>1. RowTyped' BY <1>26 DEF LoginRestart, SweepStranded, RowTyped, CaptureRows
  <2>2. CodeTyped' BY <1>26, NoneFailed DEF LoginRestart, CodeTyped
  <2>3. DevicesTyped' BY <1>26, NoJobShape DEF LoginRestart, DevicesTyped, DeviceShape
  <2>4. WindowTyped' BY <1>26 DEF LoginRestart, WindowTyped
  <2>5. ClicksTyped' BY <1>26 DEF LoginRestart, ClicksTyped
  <2>6. UsedTyped' BY <1>26, SpendsType DEF LoginRestart
  <2> QED BY <1>26, <2>1, <2>2, <2>3, <2>4, <2>5, <2>6
         DEF LoginRestart, ProjectTyped
<1>27. CASE UNCHANGED loginVars BY <1>27 DEF loginVars, ProjectTyped, RowTyped, CodeTyped, DevicesTyped, WindowTyped, ClicksTyped, UsedTyped
<1> QED BY <1>1, <1>2, <1>3, <1>4, <1>5, <1>6, <1>7, <1>8, <1>9, <1>10, <1>11, <1>12, <1>13, <1>14, <1>15, <1>16, <1>17, <1>18, <1>19, <1>20, <1>21, <1>22, <1>23, <1>24, <1>25, <1>26, <1>27 DEF LoginNext
-----------------------------------------------------------------------------
(* One window on the server.                                             *)

LEMMA LockStep ==
  ASSUME Typed, LockHeld, [LoginNext]_loginVars
  PROVE  LockHeld'
<1> USE DEF LockHeld, Windows, queue, agents, server
<1>0. ASSUME UNCHANGED <<worker, lock>> PROVE LockHeld' BY <1>0
<1>1. ASSUME NEW w \in Workers, CaptureStorageState(w) PROVE LockHeld'
  <2>1. CASE OpensWindow
    <3>1. \A v \in Workers : worker[v] \notin {"window", "run window"}
      BY <2>1 DEF OpensWindow
    <3>2. lock' = TRUE /\ \A v \in Workers : v # w => worker'[v] = worker[v]
      BY <1>1, <2>1 DEF CaptureStorageState, Typed, WindowTyped
    <3> QED BY <3>1, <3>2
  <2>2. CASE ~OpensWindow
    <3>1. /\ lock' = lock /\ worker'[w] = "none"
          /\ \A v \in Workers : v # w => worker'[v] = worker[v]
      BY <1>1, <2>2 DEF CaptureStorageState, Typed, WindowTyped
    <3> QED BY <3>1
  <2> QED BY <2>1, <2>2
<1>2. ASSUME NEW w \in Workers, CaptureOnce(w) PROVE LockHeld'
  <2>1. w \in Windows BY <1>2 DEF CaptureOnce
  <2>2. worker'[w] = "none" /\ \A v \in Workers : v # w => worker'[v] = worker[v]
    BY <1>2 DEF CaptureOnce, Typed, WindowTyped
  <2>3. Windows' = {} BY <2>1, <2>2
  <2> QED BY <2>3
<1>3. ASSUME NEW w \in Workers, StartCapture(w) \/ RunCaptures(w) PROVE LockHeld'
  <2>1. /\ lock' = lock /\ worker'[w] \in {"start", "run"}
        /\ \A v \in Workers : v # w => worker'[v] = worker[v]
    BY <1>3 DEF StartCapture, RunCaptures, Typed, WindowTyped
  <2> QED BY <2>1
<1>4. CASE LoginRestart
  <2>1. Windows' = {} BY <1>4 DEF LoginRestart
  <2> QED BY <2>1
<1>5. ASSUME NEW o \in Origins, SetBaseUrl(o) PROVE LockHeld'
  BY <1>0, <1>5 DEF SetBaseUrl
<1>6. ASSUME NEW t \in {"server", "local-agent"}, SetTarget(t) PROVE LockHeld'
  BY <1>0, <1>6 DEF SetTarget
<1>7. ASSUME NEW d \in Agents,
             \/ SelectCapture(d) \/ FlipCapture(d) \/ BrowserCloses(d) \/ PostComplete(d)
             \/ PostLost(d) \/ Redeem(d) \/ RevokeDevice(d) \/ Disconnect(d) \/ DeviceDies(d)
      PROVE  LockHeld'
  <2>1. UNCHANGED <<worker, lock>>
    BY <1>7 DEF SelectCapture, FlipCapture, BrowserCloses, PostComplete, PostLost, Redeem,
           RevokeDevice, Disconnect, DeviceDies
  <2> QED BY <1>0, <2>1
<1>8. CASE \/ CaptureOnAgent \/ ClaimTurnsStale \/ RequestTurnsOld \/ CaptureOnServer
           \/ CooldownEnds \/ ClearAuth \/ CreatePairingCode \/ RedeemWrong \/ CodeExpires
           \/ WindowPasses \/ UNCHANGED loginVars
  <2>1. UNCHANGED <<worker, lock>>
    BY <1>8 DEF CaptureOnAgent, ClaimTurnsStale, RequestTurnsOld, CaptureOnServer, CooldownEnds,
           ClearAuth, CreatePairingCode, RedeemWrong, CodeExpires, WindowPasses, loginVars
  <2> QED BY <1>0, <2>1
<1> QED BY <1>1, <1>2, <1>3, <1>4, <1>5, <1>6, <1>7, <1>8 DEF LoginNext

-----------------------------------------------------------------------------
(* One window on the devices.                                            *)

LEMMA RowStep ==
  ASSUME Typed, WorkerHasRow, [LoginNext]_loginVars
  PROVE  WorkerHasRow'
<1> USE DEF queue, agents, server
<1>0. ASSUME UNCHANGED <<row, late>>, \A d \in Agents : OnDevice(d)' => OnDevice(d)
      PROVE  WorkerHasRow'
  BY <1>0 DEF WorkerHasRow, RowTaken
<1>1. CASE CaptureOnAgent
  <2>1. UNCHANGED <<late, device>> BY <1>1 DEF CaptureOnAgent
  <2>2. RowTaken => RowTaken'
    <3>1. ASSUME RowTaken PROVE RowTaken'
      <4>1. row \in CaptureRows /\ IsLive(row)
        BY <3>1 DEF RowTaken, Typed, RowTyped, IsLive
      <4>2. row' = [row EXCEPT !.origin = base]
        BY <1>1, <3>1, <4>1 DEF CaptureOnAgent, RequestCapture, RowTaken
      <4>3. row' \in CaptureRows BY <4>1, <4>2 DEF CaptureRows, Typed, ProjectTyped
      <4> QED BY <3>1, <4>1, <4>2, <4>3, LoginAssumption DEF RowTaken, CaptureRows
    <3> QED BY <3>1
  <2> QED BY <2>1, <2>2 DEF WorkerHasRow, OnDevice
<1>2. CASE ClaimTurnsStale
  <2>1. \A d \in Agents : ~OnDevice(d)' BY <1>2 DEF ClaimTurnsStale, Busy, OnDevice, NoJob
  <2> QED BY <2>1 DEF WorkerHasRow
<1>3. CASE RequestTurnsOld
  <2>1. ~late' => \A d \in Agents : ~OnDevice(d)'
    <3>1. device' = device /\ (~late' => \A d \in Agents : ~Busy(d))
      BY <1>3 DEF RequestTurnsOld
    <3> QED BY <3>1 DEF Busy, OnDevice, NoJob
  <2> QED BY <2>1 DEF WorkerHasRow
<1>4. ASSUME NEW d \in Agents, FlipCapture(d) PROVE WorkerHasRow'
  <2>1. \A e \in Agents : e # d => (OnDevice(e)' <=> OnDevice(e))
    BY <1>4 DEF FlipCapture, Job, OnDevice, Typed, DevicesTyped
  <2>2. CASE row # None /\ row.status = "queued"
    <3>1. ASSUME ~late' PROVE RowTaken' /\ \A e \in Agents : e # d => ~OnDevice(e)'
      <4>1. ~late /\ row.age = "young" /\ row \in CaptureRows
        BY <1>4, <2>2, <3>1 DEF FlipCapture, Typed, RowTyped, CaptureRows
      <4>2. \A e \in Agents : ~OnDevice(e) BY <2>2, <4>1 DEF WorkerHasRow, RowTaken
      <4>3. row' = [row EXCEPT !.status = "running", !.claim = "recent"]
        BY <1>4, <2>2 DEF FlipCapture
      <4>4. row'.status = "running" /\ row'.claim = "recent" /\ row'.age = "young"
        BY <4>1, <4>3 DEF CaptureRows
      <4>5. row' \in CaptureRows BY <4>1, <4>3 DEF CaptureRows
      <4> QED BY <2>1, <4>2, <4>4, <4>5, LoginAssumption DEF RowTaken
    <3> QED BY <3>1 DEF WorkerHasRow
  <2>3. CASE ~(row # None /\ row.status = "queued")
    <3>1. UNCHANGED <<row, late>> /\ Job(d, NoJob) BY <1>4, <2>3 DEF FlipCapture
    <3>2. ~OnDevice(d)' BY <3>1 DEF Job, NoJob, OnDevice, Typed, DevicesTyped
    <3> QED BY <1>0, <2>1, <3>1, <3>2
  <2> QED BY <2>2, <2>3
<1>5. ASSUME NEW d \in Agents, PostComplete(d) PROVE WorkerHasRow'
  <2>1. OnDevice(d) /\ ~OnDevice(d)' /\ \A e \in Agents : e # d => (OnDevice(e)' <=> OnDevice(e))
    BY <1>5 DEF PostComplete, Job, NoJob, OnDevice, Typed, DevicesTyped
  <2>2. late' = late BY <1>5 DEF PostComplete
  <2> QED BY <2>1, <2>2 DEF WorkerHasRow
<1>6. ASSUME NEW d \in Agents, SelectCapture(d) \/ BrowserCloses(d) PROVE WorkerHasRow'
  <2>1. CASE SelectCapture(d)
    <3>1. device[d] \in DeviceShape BY DEF Typed, DevicesTyped
    <3>2. [device[d].job EXCEPT !.at = "selected"].at = "selected" BY <3>1 DEF DeviceShape, JobShape
    <3>3. ~OnDevice(d)' BY <2>1, <3>2 DEF SelectCapture, Job, OnDevice, Typed, DevicesTyped
    <3>4. \A e \in Agents : e # d => (OnDevice(e)' <=> OnDevice(e))
      BY <2>1 DEF SelectCapture, Job, OnDevice, Typed, DevicesTyped
    <3> QED BY <1>0, <2>1, <3>3, <3>4 DEF SelectCapture
  <2>2. CASE BrowserCloses(d)
    <3>1. OnDevice(d) BY <2>2 DEF BrowserCloses, Open, OnDevice
    <3>2. \A e \in Agents : e # d => (OnDevice(e)' <=> OnDevice(e))
      BY <2>2 DEF BrowserCloses, OnDevice, Typed, DevicesTyped
    <3> QED BY <1>0, <2>2, <3>1, <3>2 DEF BrowserCloses
  <2> QED BY <1>6, <2>1, <2>2
<1>7. ASSUME NEW d \in Agents, PostLost(d) \/ DeviceDies(d) PROVE WorkerHasRow'
  <2>1. \A e \in Agents : OnDevice(e)' => OnDevice(e)
    <3>1. Job(d, NoJob) BY <1>7 DEF PostLost, DeviceDies
    <3> QED BY <3>1 DEF Job, NoJob, OnDevice, Typed, DevicesTyped
  <2> QED BY <1>0, <1>7, <2>1 DEF PostLost, DeviceDies
<1>8. ASSUME NEW d \in Agents, Redeem(d) \/ RevokeDevice(d) PROVE WorkerHasRow'
  <2>1. \A e \in Agents : OnDevice(e)' => OnDevice(e)
    BY <1>8 DEF Redeem, RevokeDevice, OnDevice, Typed, DevicesTyped, DeviceShape
  <2> QED BY <1>0, <1>8, <2>1 DEF Redeem, RevokeDevice
<1>9. ASSUME NEW d \in Agents, Disconnect(d) PROVE WorkerHasRow'
  <2>1. \A e \in Agents : OnDevice(e)' => OnDevice(e)
    BY <1>9 DEF Disconnect, NoJob, OnDevice, Typed, DevicesTyped, DeviceShape, JobShape
  <2> QED BY <1>0, <1>9, <2>1 DEF Disconnect
<1>10. CASE LoginRestart
  <2>1. \A d \in Agents : OnDevice(d)' => OnDevice(d)
    BY <1>10 DEF LoginRestart, OnDevice, NoJob
  <2>2. RowTaken => row' = row
    BY <1>10 DEF LoginRestart, SweepStranded, RowTaken
  <2>3. late' = late BY <1>10 DEF LoginRestart
  <2> QED BY <2>1, <2>2, <2>3 DEF WorkerHasRow, RowTaken
<1>11. ASSUME NEW w \in Workers,
              \/ StartCapture(w) \/ RunCaptures(w) \/ CaptureStorageState(w) \/ CaptureOnce(w)
       PROVE  WorkerHasRow'
  <2>1. UNCHANGED <<row, late, device>>
    BY <1>11 DEF StartCapture, RunCaptures, CaptureStorageState, CaptureOnce
  <2> QED BY <1>0, <2>1 DEF OnDevice
<1>12. ASSUME NEW o \in Origins, SetBaseUrl(o) PROVE WorkerHasRow'
  BY <1>0, <1>12 DEF SetBaseUrl, OnDevice
<1>13. ASSUME NEW t \in {"server", "local-agent"}, SetTarget(t) PROVE WorkerHasRow'
  BY <1>0, <1>13 DEF SetTarget, OnDevice
<1>14. CASE \/ CaptureOnServer \/ CooldownEnds \/ ClearAuth \/ CreatePairingCode
            \/ RedeemWrong \/ CodeExpires \/ WindowPasses \/ UNCHANGED loginVars
  <2>1. UNCHANGED <<row, late, device>>
    BY <1>14 DEF CaptureOnServer, CooldownEnds, ClearAuth, CreatePairingCode, RedeemWrong,
           CodeExpires, WindowPasses, loginVars
  <2> QED BY <1>0, <2>1 DEF OnDevice
<1> QED BY <1>1, <1>2, <1>3, <1>4, <1>5, <1>6, <1>7, <1>8, <1>9, <1>10, <1>11, <1>12, <1>13,
           <1>14 DEF LoginNext

-----------------------------------------------------------------------------
LoginInv == Typed /\ LockHeld /\ WorkerHasRow

LEMMA LoginInductive == LoginSpec => []LoginInv
<1>1. LoginInit => LoginInv
  BY LoginInitHolds DEF LoginInv
<1>2. LoginInv /\ [LoginNext]_loginVars => LoginInv'
  BY LoginTypeStep, LockStep, RowStep DEF LoginInv
<1> QED BY <1>1, <1>2, PTL DEF LoginSpec

\* Every variable keeps its shape, for any number of devices and threads.
THEOREM LoginTyping == LoginSpec => []LoginTypeOK
<1>1. LoginInv => LoginTypeOK
  BY TypedIsTypeOK DEF LoginInv
<1> QED BY <1>1, LoginInductive, PTL

\* At most one login window of the project is open on the server and, as long
\* as no request was handed out after its twelve hours, at most one on the
\* operator's devices, however many there are and whatever is clicked,
\* restarted, lost or revoked (capture_storage_state's lock; claim_next,
\* request_capture and sweep_stranded, which all leave a live claim alone).
THEOREM OneWindowAtMost == LoginSpec => []OneLoginWindow
<1>1. LoginInv => OneLoginWindow
  <2> SUFFICES ASSUME LoginInv PROVE OneLoginWindow OBVIOUS
  <2>1. Cardinality(Windows) <= 1
    BY AtMostOne DEF LoginInv, LockHeld
  <2>2. ~late => Cardinality({d \in Agents : Open(d)}) <= 1
    <3> SUFFICES ASSUME ~late PROVE \A d, e \in {a \in Agents : Open(a)} : d = e
      BY AtMostOne
    <3> QED BY DEF LoginInv, WorkerHasRow, Open, OnDevice
  <2> QED BY <2>1, <2>2 DEF OneLoginWindow, Windows
<1> QED BY <1>1, LoginInductive, PTL

-----------------------------------------------------------------------------
(* ----------------------------- Exploration ----------------------------- *)

\* What holds of every loop: a step is left where one is about to be made, the
\* stages of the server and of a device do not mix, a device waits for a reply
\* exactly where it has sent a command, and an action names a fact.
LoopOK(l) ==
  /\ l.pc \in {"decide", "act", "observe", "ask", "wait", "acting"} => l.steps < MaxSteps
  /\ l.pc \in {"decide", "act"} => l.at = "server"
  /\ l.pc \in {"observe", "ask", "wait", "acting"} => l.at = "device"
  /\ l.pc \in {"observe", "acting"} => l.waits
  /\ l.pc \in {"act", "acting"} => l.act \in Facts
Sound == \A s \in Sessions : LoopOK(loop[s])

\* The queue names a session once: while it is queued nothing has begun and no
\* baseline is taken, afterwards its loop is a device's.
PendingOnce ==
  /\ \A i, j \in DOMAIN pending : pending[i].id = pending[j].id => i = j
  /\ \A i \in DOMAIN pending :
       IF pending[i].status = "queued" THEN pending[i].base = -1 /\ loop[pending[i].id] = NoCall
       ELSE loop[pending[i].id] # NoCall /\ loop[pending[i].id].at = "device"

\* A decide job is of a session that runs on a device; what has begun on none
\* has paid nothing.
JobOnDevice == \A s \in Sessions : job[s] # NoDecide => loop[s] # NoCall /\ loop[s].at = "device"
Unpaid == \A s \in Sessions : loop[s] = NoCall => paid[s] = 0

LoopsHeld == loop \in [Sessions -> Loops \cup {NoCall}] /\ Sound

-----------------------------------------------------------------------------
LEMMA LoopKinds ==
  ASSUME ExploreTypeOK, NEW s \in Sessions
  PROVE  /\ loop[s] = NoCall <=> loop[s].pc = "none"
         /\ loop[s] # NoCall => loop[s] \in Loops
BY DEF ExploreTypeOK, NoCall, Loops, LoopSteps

LEMMA JobKinds ==
  ASSUME ExploreTypeOK, NEW s \in Sessions
  PROVE  /\ job[s] = NoDecide <=> job[s].is = "none"
         /\ job[s].is \in {"none", "asked", "running", "done"}
         /\ job[s].is \in {"asked", "running"} => job[s] = [is |-> job[s].is, base |-> job[s].base]
                                                  /\ job[s].base \in Nat
         /\ job[s].is = "done" => job[s].act \in Decisions \cup {"budget"}
BY DEF ExploreTypeOK, DecideJobs, NoDecide

\* A loop is set to one that is well formed; what that leaves of the others.
LEMMA LoopSet ==
  ASSUME ExploreTypeOK, Sound, NEW s \in Sessions, NEW l \in Loops, LoopOK(l),
         loop' = [loop EXCEPT ![s] = l]
  PROVE  /\ LoopsHeld' /\ loop'[s] = l
         /\ \A t \in Sessions : t # s => loop'[t] = loop[t]
<1>1. loop' \in [Sessions -> Loops \cup {NoCall}] BY DEF ExploreTypeOK
<1>2. loop'[s] = l /\ \A t \in Sessions : t # s => loop'[t] = loop[t] BY DEF ExploreTypeOK
<1>3. \A t \in Sessions : LoopOK(loop'[t]) BY <1>2 DEF Sound
<1> QED BY <1>1, <1>2, <1>3 DEF LoopsHeld, Sound, LoopOK

\* One step of a session leaves every loop well formed, no loop but its own
\* changed, and its own begun and where it was.
LoopKept(s) ==
  /\ LoopsHeld'
  /\ \A t \in Sessions : t # s => loop'[t] = loop[t]
  /\ loop[s] # NoCall => loop'[s] # NoCall /\ loop'[s].at = loop[s].at

LEMMA LoopGoesOn ==
  ASSUME ExploreTypeOK, Sound, NEW s \in Sessions, loop[s] # NoCall, NEW l \in Loops, LoopOK(l),
         l.at = loop[s].at, loop' = [loop EXCEPT ![s] = l]
  PROVE  LoopKept(s)
<1>1. l # NoCall BY DEF Loops, LoopSteps, NoCall
<1> QED BY <1>1, LoopSet DEF LoopKept

\* The step of a loop changes: where it goes asks nothing, or only of the place.
LEMMA LoopGoesTo ==
  ASSUME ExploreTypeOK, Sound, NEW s \in Sessions, loop[s] # NoCall, NEW pc \in LoopSteps, LoopGoes(s, pc),
         LoopOK([loop[s] EXCEPT !.pc = pc])
  PROVE  LoopKept(s)
<1> DEFINE l == [loop[s] EXCEPT !.pc = pc]
<1>1. loop[s] \in Loops BY LoopKinds
<1>2. l \in Loops /\ l.at = loop[s].at BY <1>1 DEF Loops
<1>3. loop' = [loop EXCEPT ![s] = l] BY DEF LoopGoes
<1>4. LoopOK(l) OBVIOUS
<1> HIDE DEF l
<1> QED BY <1>2, <1>3, <1>4, LoopGoesOn

LEMMA LoopGoesOver ==
  ASSUME ExploreTypeOK, Sound, NEW s \in Sessions, loop[s] # NoCall, LoopGoes(s, "over")
  PROVE  LoopKept(s)
<1>1. loop[s] \in Loops BY LoopKinds
<1>2. LoopOK([loop[s] EXCEPT !.pc = "over"]) BY <1>1 DEF Loops, LoopOK
<1> QED BY <1>2, LoopGoesTo DEF LoopSteps

LEMMA LoopEndsWell ==
  ASSUME ExploreTypeOK, Sound, NEW s \in Sessions, loop[s] # NoCall, NEW reason \in Reasons,
         LoopEnds(s, reason)
  PROVE  LoopKept(s)
<1> DEFINE l == [loop[s] EXCEPT !.pc = "ended", !.reason = reason]
<1>1. loop[s] \in Loops BY LoopKinds
<1>2. l \in Loops /\ l.at = loop[s].at /\ l.pc = "ended" BY <1>1 DEF Loops, LoopSteps
<1>3. loop' = [loop EXCEPT ![s] = l] BY DEF LoopEnds
<1> HIDE DEF l
<1>4. LoopOK(l) BY <1>2 DEF LoopOK
<1> QED BY <1>2, <1>3, <1>4, LoopGoesOn

\* A session begins.
LEMMA LoopStarts ==
  ASSUME ExploreTypeOK, Sound, NEW s \in Sessions, loop[s] = NoCall,
         NEW place \in {"server", "device"}, NEW floor \in Nat,
         loop' = [loop EXCEPT ![s] = Started(place, floor)]
  PROVE  LoopKept(s) /\ loop'[s] = Started(place, floor)
<1> DEFINE l == Started(place, floor)
<1>1. l \in Loops /\ l.pc = "top"
  BY ExploreAssumption DEF Started, Loops, LoopSteps, Reasons
<1> HIDE DEF l
<1>2. LoopOK(l) BY <1>1 DEF LoopOK
<1> QED BY <1>1, <1>2, LoopSet DEF LoopKept, l

LEMMA ObservedWell ==
  ASSUME NEW l \in Loops, LoopOK(l), NEW read \in Pages \cup {Unread}, NEW ok \in BOOLEAN,
         l.pc = "observe"
  PROVE  /\ Observed(l, read, ok) \in Loops /\ LoopOK(Observed(l, read, ok))
         /\ Observed(l, read, ok).at = l.at /\ Observed(l, read, ok).found = l.found
         /\ Observed(l, read, ok).pc \in {"ended", "ask"}
<1> DEFINE seen == l.seen \cup {read}
<1>1. seen \in SUBSET (Pages \cup {Unread}) BY DEF Loops
<1>2. Observed(l, read, ok) =
        IF ~ok THEN [l EXCEPT !.pc = "ended", !.waits = FALSE, !.reason = "observe-error"]
        ELSE IF read \in l.seen THEN [l EXCEPT !.pc = "ended", !.waits = FALSE, !.reason = "repeat"]
        ELSE [l EXCEPT !.pc = "ask", !.waits = FALSE, !.seen = seen]
  BY DEF Observed
<1> HIDE DEF seen
<1>3. ASSUME NEW reason \in {"observe-error", "repeat"},
             Observed(l, read, ok) = [l EXCEPT !.pc = "ended", !.waits = FALSE, !.reason = reason]
      PROVE  /\ Observed(l, read, ok) \in Loops /\ LoopOK(Observed(l, read, ok))
             /\ Observed(l, read, ok).at = l.at /\ Observed(l, read, ok).found = l.found
             /\ Observed(l, read, ok).pc = "ended"
  <2>1. /\ Observed(l, read, ok) \in Loops /\ Observed(l, read, ok).at = l.at
        /\ Observed(l, read, ok).found = l.found /\ Observed(l, read, ok).pc = "ended"
    BY <1>3 DEF Loops, LoopSteps, Reasons
  <2>2. LoopOK(Observed(l, read, ok)) BY <2>1 DEF LoopOK
  <2> QED BY <2>1, <2>2
<1>4. CASE ~ok \/ read \in l.seen
  <2>1. \E reason \in {"observe-error", "repeat"} :
          Observed(l, read, ok) = [l EXCEPT !.pc = "ended", !.waits = FALSE, !.reason = reason]
    BY <1>2, <1>4
  <2> QED BY <1>3, <2>1
<1>5. CASE ok /\ read \notin l.seen BY <1>1, <1>2, <1>5 DEF Loops, LoopSteps, LoopOK
<1> QED BY <1>4, <1>5

LEMMA ActedWell ==
  ASSUME NEW l \in Loops, LoopOK(l), NEW ok \in BOOLEAN, l.pc = "acting"
  PROVE  /\ Acted(l, ok) \in Loops /\ LoopOK(Acted(l, ok))
         /\ Acted(l, ok).at = l.at
         /\ Acted(l, ok).found = (IF ok THEN l.found \cup {l.act} ELSE l.found)
         /\ Acted(l, ok).pc = "top"
<1> DEFINE found == IF ok THEN l.found \cup {l.act} ELSE l.found
           steps == l.steps + 1
<1>1. found \in SUBSET Facts BY DEF Loops, LoopOK
<1>2. steps \in 0 .. MaxSteps BY ExploreAssumption DEF Loops, LoopOK
<1>3. Acted(l, ok) = [l EXCEPT !.pc = "top", !.steps = steps, !.waits = FALSE, !.found = found]
  BY DEF Acted, Recorded
<1> HIDE DEF found, steps
<1>4. /\ Acted(l, ok) \in Loops /\ Acted(l, ok).at = l.at /\ Acted(l, ok).found = found
      /\ Acted(l, ok).pc = "top"
  BY <1>1, <1>2, <1>3 DEF Loops, LoopSteps
<1>5. LoopOK(Acted(l, ok)) BY <1>4 DEF LoopOK
<1> QED BY <1>4, <1>5 DEF found

-----------------------------------------------------------------------------
(* What the reads and the payments do.                                   *)

LEMMA SpendReadType ==
  ASSUME ExploreTypeOK, NEW s \in Sessions, NEW read, SpendRead(s, read)
  PROVE  /\ mishaps' \in Nat /\ slips' \in [Sessions -> Nat] /\ read \in Nat /\ read <= spend
         /\ \A t \in Sessions : t # s => slips'[t] = slips[t]
         /\ \/ read = spend /\ slips'[s] = slips[s]
            \/ slips'[s] = slips[s] + 1
BY DEF ExploreTypeOK, SpendRead

LEMMA CallType ==
  ASSUME ExploreTypeOK, NEW s \in Sessions, Call(s)
  PROVE  \E cost \in 1 .. MaxCost :
           /\ spend' = spend + cost /\ paid'[s] = paid[s] + cost
           /\ spend' \in Nat /\ paid' \in [Sessions -> Nat]
           /\ \A t \in Sessions : t # s => paid'[t] = paid[t]
<1>1. PICK cost \in 1 .. MaxCost : spend' = spend + cost /\ paid' = [paid EXCEPT ![s] = @ + cost]
  BY DEF Call
<1>2. cost \in Nat BY ExploreAssumption
<1>3. spend' \in Nat /\ paid' \in [Sessions -> Nat] /\ paid'[s] = paid[s] + cost
  BY <1>1, <1>2 DEF ExploreTypeOK
<1>4. \A t \in Sessions : t # s => paid'[t] = paid[t] BY <1>1 DEF ExploreTypeOK
<1> QED BY <1>1, <1>3, <1>4

-----------------------------------------------------------------------------
(* A step of a session and its loop.                                     *)

LEMMA ServerLoops ==
  ASSUME ExploreTypeOK, Sound, NEW s \in Sessions,
         StartServer(s) \/ ServerTop(s) \/ ServerDecide(s) \/ ServerAct(s) \/ ServerFails(s) \/ ServerEnds(s)
  PROVE  LoopKept(s)
<1>1. CASE StartServer(s)
  <2>1. PICK floor \in {0, spend} : loop' = [loop EXCEPT ![s] = Started("server", floor)]
    BY <1>1 DEF StartServer
  <2>2. floor \in Nat /\ loop[s] = NoCall BY <1>1, <2>1 DEF StartServer, ExploreTypeOK
  <2> QED BY <2>1, <2>2, LoopStarts
<1>2. ASSUME loop[s].pc # "none" PROVE loop[s] # NoCall /\ loop[s] \in Loops
  BY <1>2, LoopKinds
<1>3. CASE ServerTop(s)
  <2>1. /\ loop[s] # NoCall /\ loop[s] \in Loops /\ loop[s].at = "server"
    BY <1>2, <1>3 DEF ServerTop, Is
  <2>2. ASSUME NEW reason \in Reasons, LoopEnds(s, reason) PROVE LoopKept(s)
    BY <2>1, <2>2, LoopEndsWell
  <2>3. ASSUME loop[s].steps < MaxSteps, NEW page \in Pages,
               loop' = [loop EXCEPT ![s].pc = "decide", ![s].seen = @ \cup {page}, ![s].found = @ \cup {page}]
        PROVE  LoopKept(s)
    <3> DEFINE seen == loop[s].seen \cup {page}
               found == loop[s].found \cup {page}
               l == [loop[s] EXCEPT !.pc = "decide", !.seen = seen, !.found = found]
    <3>1. seen \in SUBSET (Pages \cup {Unread}) /\ found \in SUBSET Facts BY <2>1 DEF Loops, Facts
    <3>2. loop' = [loop EXCEPT ![s] = l] BY <2>3
    <3>3. l \in Loops /\ l.at = "server" /\ l.pc = "decide" /\ l.steps < MaxSteps
      <4> HIDE DEF seen, found
      <4> QED BY <2>1, <2>3, <3>1 DEF Loops, LoopSteps
    <3> HIDE DEF l
    <3>4. LoopOK(l) BY <3>3 DEF LoopOK
    <3> QED BY <2>1, <3>2, <3>3, <3>4, LoopGoesOn
  <2> QED BY <1>3, <2>2, <2>3 DEF ServerTop, Reasons
<1>4. CASE ServerDecide(s)
  <2>1. /\ loop[s] # NoCall /\ loop[s] \in Loops /\ loop[s].at = "server" /\ loop[s].pc = "decide"
    BY <1>2, <1>4 DEF ServerDecide, Is
  <2>2. \/ LoopEnds(s, "budget")
        \/ \E d \in Decisions :
             IF d \in Facts THEN loop' = [loop EXCEPT ![s].pc = "act", ![s].act = d] ELSE LoopEnds(s, d)
    BY <1>4 DEF ServerDecide
  <2>3. ASSUME NEW reason \in Reasons, LoopEnds(s, reason) PROVE LoopKept(s)
    BY <2>1, <2>3, LoopEndsWell
  <2>4. ASSUME NEW d \in Facts, loop' = [loop EXCEPT ![s].pc = "act", ![s].act = d] PROVE LoopKept(s)
    <3> DEFINE l == [loop[s] EXCEPT !.pc = "act", !.act = d]
    <3>1. loop' = [loop EXCEPT ![s] = l] BY <2>4
    <3>2. l \in Loops /\ l.at = "server" /\ l.pc = "act" /\ l.act = d /\ l.steps = loop[s].steps
      BY <2>1 DEF Loops, LoopSteps
    <3> HIDE DEF l
    <3>3. loop[s].steps < MaxSteps BY <2>1 DEF Sound, LoopOK
    <3>4. LoopOK(l) BY <3>2, <3>3 DEF LoopOK
    <3> QED BY <2>1, <3>1, <3>2, <3>4, LoopGoesOn
  <2> QED BY <2>2, <2>3, <2>4 DEF Decisions, Reasons
<1>5. CASE ServerAct(s)
  <2>1. /\ loop[s] # NoCall /\ loop[s] \in Loops /\ loop[s].at = "server" /\ loop[s].pc = "act"
    BY <1>2, <1>5 DEF ServerAct, Is
  <2>2. loop[s].steps < MaxSteps /\ loop[s].act \in Facts BY <2>1 DEF Sound, LoopOK
  <2>3. PICK ok \in BOOLEAN :
          loop' = [loop EXCEPT ![s].pc = "top", ![s].steps = @ + 1,
                               ![s].found = IF ok THEN @ \cup {loop[s].act} ELSE @]
    BY <1>5 DEF ServerAct
  <2> DEFINE found == IF ok THEN loop[s].found \cup {loop[s].act} ELSE loop[s].found
             steps == loop[s].steps + 1
             l == [loop[s] EXCEPT !.pc = "top", !.steps = steps, !.found = found]
  <2>4. found \in SUBSET Facts /\ steps \in 0 .. MaxSteps BY <2>1, <2>2, ExploreAssumption DEF Loops
  <2>5. loop' = [loop EXCEPT ![s] = l] BY <2>3
  <2>6. l \in Loops /\ l.at = "server" /\ l.pc = "top"
    <3> HIDE DEF found, steps
    <3> QED BY <2>1, <2>4 DEF Loops, LoopSteps
  <2> HIDE DEF l
  <2>7. LoopOK(l) BY <2>6 DEF LoopOK
  <2> QED BY <2>1, <2>5, <2>6, <2>7, LoopGoesOn
<1>6. CASE ServerFails(s)
  <2>1. loop[s] # NoCall /\ loop[s] \in Loops BY <1>2, <1>6 DEF ServerFails
  <2> DEFINE l == [loop[s] EXCEPT !.pc = "ended", !.reason = "error", !.found = {}]
  <2>2. loop' = [loop EXCEPT ![s] = l] BY <1>6 DEF ServerFails
  <2>3. l \in Loops /\ l.at = loop[s].at /\ l.pc = "ended" BY <2>1 DEF Loops, LoopSteps, Reasons
  <2> HIDE DEF l
  <2>4. LoopOK(l) BY <2>3 DEF LoopOK
  <2> QED BY <2>1, <2>2, <2>3, <2>4, LoopGoesOn
<1>7. CASE ServerEnds(s)
  BY <1>2, <1>7, LoopGoesOver DEF ServerEnds, Is
<1> QED BY <1>1, <1>3, <1>4, <1>5, <1>6, <1>7

\* What the queue holds, entry by entry.
LEMMA QueueTyped ==
  ASSUME ExploreTypeOK
  PROVE  /\ Len(pending) \in Nat /\ DOMAIN pending = 1 .. Len(pending)
         /\ \A i \in DOMAIN pending :
              /\ pending[i] \in QueueEntries /\ pending[i].id \in Sessions
              /\ pending[i].status \in {"queued", "running"} /\ pending[i].base \in Nat \cup {-1}
<1>1. pending \in Seq(QueueEntries) BY DEF ExploreTypeOK
<1>2. Len(pending) \in Nat /\ DOMAIN pending = 1 .. Len(pending) BY <1>1
<1>3. \A i \in DOMAIN pending : pending[i] \in QueueEntries BY <1>1
<1> QED BY <1>2, <1>3 DEF QueueEntries

LEMMA DeviceLoops ==
  ASSUME ExploreTypeOK, Sound, PendingOnce, NEW s \in Sessions,
         \/ ClaimSession(s) \/ Observe(s) \/ Reply(s) \/ CommandTimesOut(s) \/ AskDecide(s)
         \/ Decided(s) \/ DecideError(s) \/ FinalizeSession(s) \/ DriverError(s) \/ DeviceGone(s)
  PROVE  LoopKept(s)
<1>1. ASSUME loop[s].pc # "none" PROVE loop[s] # NoCall /\ loop[s] \in Loops
  BY <1>1, LoopKinds
<1>2. ASSUME NEW reason \in Reasons, loop[s].pc # "none", LoopEnds(s, reason) PROVE LoopKept(s)
  BY <1>1, <1>2, LoopEndsWell
<1>3. ASSUME loop' = loop PROVE LoopKept(s)
  BY <1>3 DEF LoopKept, LoopsHeld, Sound, LoopOK, ExploreTypeOK
<1>4. CASE ClaimSession(s)
  <2>1. loop[s] = NoCall BY <1>4, QueueTyped DEF ClaimSession, PendingOnce
  <2> QED BY <1>4, <2>1, LoopStarts DEF ClaimSession
<1>5. CASE Observe(s)
  <2>1. /\ loop[s] # NoCall /\ loop[s] \in Loops /\ loop[s].at = "device" /\ loop[s].pc = "top"
    BY <1>1, <1>5 DEF Observe, Is
  <2>2. CASE loop[s].steps >= MaxSteps BY <1>2, <1>5, <2>1, <2>2 DEF Observe, Reasons
  <2>3. CASE ~(loop[s].steps >= MaxSteps)
    <3> DEFINE l == [loop[s] EXCEPT !.pc = "observe", !.waits = TRUE]
    <3>1. loop' = [loop EXCEPT ![s] = l] BY <1>5, <2>3 DEF Observe
    <3>2. /\ l \in Loops /\ l.at = "device" /\ l.pc = "observe" /\ l.waits /\ l.steps = loop[s].steps
      BY <2>1 DEF Loops, LoopSteps
    <3> HIDE DEF l
    <3>3. loop[s].steps < MaxSteps BY <2>1, <2>3, ExploreAssumption DEF Loops
    <3>4. LoopOK(l) BY <3>2, <3>3 DEF LoopOK
    <3> QED BY <2>1, <3>1, <3>2, <3>4, LoopGoesOn
  <2> QED BY <2>2, <2>3
<1>6. CASE Reply(s)
  <2>1. PICK read \in Pages \cup {Unread}, ok \in BOOLEAN :
          loop' = [loop EXCEPT ![s] = Answered(loop[s], read, ok)]
    <3>1. PICK page \in Pages, ok \in BOOLEAN :
            loop' = [loop EXCEPT ![s] =
              Answered(loop[s], IF Head(wire[s]) = "observe" THEN page ELSE Unread, ok)]
      BY <1>6 DEF Reply
    <3> QED BY <3>1
  <2>2. CASE loop[s].pc \notin {"observe", "acting"}
    <3>1. Answered(loop[s], read, ok) = loop[s] BY <2>2 DEF Answered
    <3>2. loop' = loop BY <2>1, <3>1 DEF ExploreTypeOK
    <3> QED BY <1>3, <3>2
  <2>3. CASE loop[s].pc \in {"observe", "acting"}
    <3>1. loop[s] # NoCall /\ loop[s] \in Loops /\ LoopOK(loop[s]) BY <1>1, <2>3 DEF Sound
    <3>2. loop[s].waits BY <2>3, <3>1 DEF LoopOK
    <3>3. Answered(loop[s], read, ok) =
            IF loop[s].pc = "observe" THEN Observed(loop[s], read, ok) ELSE Acted(loop[s], ok)
      BY <2>3, <3>2 DEF Answered
    <3> DEFINE l == Answered(loop[s], read, ok)
    <3>4. l \in Loops /\ LoopOK(l) /\ l.at = loop[s].at
      <4>1. CASE loop[s].pc = "observe"
        <5>1. l = Observed(loop[s], read, ok) BY <3>3, <4>1
        <5> HIDE DEF l
        <5> QED BY <3>1, <4>1, <5>1, ObservedWell
      <4>2. CASE loop[s].pc = "acting"
        <5>1. l = Acted(loop[s], ok) BY <3>3, <4>2
        <5> HIDE DEF l
        <5> QED BY <3>1, <4>2, <5>1, ActedWell
      <4> QED BY <2>3, <4>1, <4>2
    <3>5. loop' = [loop EXCEPT ![s] = l] BY <2>1
    <3> HIDE DEF l
    <3> QED BY <3>1, <3>4, <3>5, LoopGoesOn
  <2> QED BY <2>2, <2>3
<1>7. CASE CommandTimesOut(s)
  <2>1. loop[s].pc \in {"observe", "acting"} BY <1>7 DEF CommandTimesOut
  <2>2. loop[s] # NoCall /\ loop[s] \in Loops /\ LoopOK(loop[s]) BY <1>1, <2>1 DEF Sound
  <2> DEFINE l == IF loop[s].pc = "observe" THEN Observed(loop[s], Unread, FALSE) ELSE Acted(loop[s], FALSE)
  <2>3. l \in Loops /\ LoopOK(l) /\ l.at = loop[s].at
    <3>1. CASE loop[s].pc = "observe"
      <4>1. l = Observed(loop[s], Unread, FALSE) BY <3>1
      <4> HIDE DEF l
      <4> QED BY <2>2, <3>1, <4>1, ObservedWell
    <3>2. CASE loop[s].pc = "acting"
      <4>1. l = Acted(loop[s], FALSE) BY <3>2
      <4> HIDE DEF l
      <4> QED BY <2>2, <3>2, <4>1, ActedWell
    <3> QED BY <2>1, <3>1, <3>2
  <2>4. loop' = [loop EXCEPT ![s] = l] BY <1>7 DEF CommandTimesOut
  <2> HIDE DEF l
  <2> QED BY <2>2, <2>3, <2>4, LoopGoesOn
<1>8. CASE AskDecide(s)
  <2>1. /\ loop[s] # NoCall /\ loop[s] \in Loops /\ loop[s].at = "device" /\ loop[s].pc = "ask"
        /\ LoopOK(loop[s])
    BY <1>1, <1>8 DEF AskDecide, Is, Sound
  <2>2. CASE LoopGoes(s, "wait")
    <3>1. LoopOK([loop[s] EXCEPT !.pc = "wait"]) BY <2>1 DEF Loops, LoopOK
    <3> QED BY <2>1, <2>2, <3>1, LoopGoesTo DEF LoopSteps
  <2>3. CASE LoopEnds(s, "decide-error") BY <1>2, <2>1, <2>3 DEF Reasons
  <2> QED BY <1>8, <2>2, <2>3 DEF AskDecide
<1>9. CASE Decided(s)
  <2>1. CASE ~Is(s, "device", "wait") BY <1>3, <1>9, <2>1 DEF Decided
  <2>2. CASE Is(s, "device", "wait")
    <3>1. /\ loop[s] # NoCall /\ loop[s] \in Loops /\ loop[s].at = "device" /\ loop[s].pc = "wait"
          /\ LoopOK(loop[s])
      BY <1>1, <2>2 DEF Is, Sound
    <3>2. job[s].act \in Decisions \cup {"budget"} BY <1>9, JobKinds DEF Decided
    <3>3. CASE job[s].act \notin Facts /\ LoopEnds(s, job[s].act)
      BY <1>2, <3>1, <3>2, <3>3 DEF Decisions, Reasons
    <3>4. CASE loop' = [loop EXCEPT ![s].pc = "top", ![s].steps = @ + 1]
      <4> DEFINE steps == loop[s].steps + 1
                 l == [loop[s] EXCEPT !.pc = "top", !.steps = steps]
      <4>1. steps \in 0 .. MaxSteps BY <3>1, ExploreAssumption DEF Loops, LoopOK
      <4>2. loop' = [loop EXCEPT ![s] = l] BY <3>4
      <4>3. l \in Loops /\ l.at = "device" /\ l.pc = "top"
        <5> HIDE DEF steps
        <5> QED BY <3>1, <4>1 DEF Loops, LoopSteps
      <4> HIDE DEF l
      <4>4. LoopOK(l) BY <4>3 DEF LoopOK
      <4> QED BY <3>1, <4>2, <4>3, <4>4, LoopGoesOn
    <3>5. CASE /\ job[s].act \in Facts
               /\ loop' = [loop EXCEPT ![s].pc = "acting", ![s].waits = TRUE, ![s].act = job[s].act]
      <4> DEFINE a == job[s].act
                 l == [loop[s] EXCEPT !.pc = "acting", !.waits = TRUE, !.act = a]
      <4>1. loop' = [loop EXCEPT ![s] = l] BY <3>5
      <4>2. /\ l \in Loops /\ l.at = "device" /\ l.pc = "acting" /\ l.waits /\ l.act \in Facts
            /\ l.steps = loop[s].steps
        <5>1. a \in Facts BY <3>5
        <5> HIDE DEF a
        <5> QED BY <3>1, <5>1 DEF Loops, LoopSteps
      <4> HIDE DEF l
      <4>3. LoopOK(l) BY <3>1, <4>2 DEF LoopOK
      <4> QED BY <3>1, <4>1, <4>2, <4>3, LoopGoesOn
    <3> QED BY <1>9, <2>2, <3>3, <3>4, <3>5 DEF Decided
  <2> QED BY <2>1, <2>2
<1>10. CASE DecideError(s)
  BY <1>2, <1>10 DEF DecideError, Is, Reasons
<1>11. CASE FinalizeSession(s)
  BY <1>1, <1>11, LoopGoesOver DEF FinalizeSession, Is
<1>12. CASE DriverError(s)
  BY <1>2, <1>12 DEF DriverError, Is, Reasons
<1>13. CASE DeviceGone(s)
  BY <1>1, <1>13, LoopGoesOver DEF DeviceGone
<1> QED BY <1>4, <1>5, <1>6, <1>7, <1>8, <1>9, <1>10, <1>11, <1>12, <1>13

LEMMA SessionLoops ==
  ASSUME ExploreTypeOK, Sound, PendingOnce, NEW s \in Sessions, SessionStep(s)
  PROVE  LoopKept(s)
<1>1. ASSUME loop' = loop PROVE LoopKept(s)
  BY <1>1 DEF LoopKept, LoopsHeld, Sound, LoopOK, ExploreTypeOK
<1>2. RequestSession(s) \/ StartDecide(s) \/ Decide(s) => loop' = loop
  BY DEF RequestSession, StartDecide, Decide
<1> QED BY <1>1, <1>2, ServerLoops, DeviceLoops DEF SessionStep

-----------------------------------------------------------------------------
(* The queue.                                                            *)

LEMMA NotBegun ==
  ASSUME ExploreTypeOK, PendingOnce, NEW s \in Sessions, SessionStep(s), loop[s] = NoCall
  PROVE  StartServer(s) \/ ClaimSession(s) \/ loop' = loop
<1>1. loop[s].pc = "none" BY DEF NoCall
<1>2. CASE Reply(s)
  <2>1. \A read, ok : Answered(loop[s], read, ok) = loop[s] BY <1>1 DEF Answered
  <2>2. PICK read, ok : loop' = [loop EXCEPT ![s] = Answered(loop[s], read, ok)]
    BY <1>2 DEF Reply
  <2> QED BY <2>1, <2>2 DEF ExploreTypeOK
<1>3. CASE Decided(s) BY <1>1, <1>3 DEF Decided, Is
<1> QED BY <1>1, <1>2, <1>3 DEF SessionStep, ServerTop, ServerDecide, ServerAct, ServerFails, ServerEnds,
          RequestSession, Observe, CommandTimesOut, AskDecide, StartDecide, Decide, DecideError,
          FinalizeSession, DriverError, DeviceGone, Is

LEMMA Removed ==
  ASSUME NEW S, NEW q \in Seq(S), NEW i \in 1 .. Len(q)
  PROVE  /\ RemoveAt(q, i) \in Seq(S) /\ Len(RemoveAt(q, i)) = Len(q) - 1
         /\ \A k \in 1 .. Len(q) - 1 : RemoveAt(q, i)[k] = q[IF k < i THEN k ELSE k + 1]
<1> DEFINE a == SubSeq(q, 1, i - 1)
           b == SubSeq(q, i + 1, Len(q))
<1>1. a \in Seq(S) /\ Len(a) = i - 1 /\ \A k \in 1 .. i - 1 : a[k] = q[k]
  BY SubSeqProperties
<1>2. b \in Seq(S) /\ Len(b) = Len(q) - i /\ \A k \in 1 .. Len(q) - i : b[k] = q[k + i]
  BY SubSeqProperties
<1>3. RemoveAt(q, i) = a \o b BY DEF RemoveAt
<1> HIDE DEF a, b
<1>4. /\ a \o b \in Seq(S) /\ Len(a \o b) = Len(a) + Len(b)
      /\ \A k \in 1 .. Len(a) + Len(b) : (a \o b)[k] = IF k <= Len(a) THEN a[k] ELSE b[k - Len(a)]
  BY <1>1, <1>2, ConcatProperties
<1>5. Len(q) \in Nat /\ i \in Int /\ 1 <= i /\ i <= Len(q) OBVIOUS
<1>6. Len(a) + Len(b) = Len(q) - 1 BY <1>1, <1>2, <1>5
<1>7. ASSUME NEW k \in 1 .. Len(q) - 1 PROVE (a \o b)[k] = q[IF k < i THEN k ELSE k + 1]
  <2>1. (a \o b)[k] = IF k <= Len(a) THEN a[k] ELSE b[k - Len(a)] BY <1>4, <1>6
  <2>2. CASE k < i
    <3>1. k \in 1 .. i - 1 /\ k <= Len(a) BY <1>1, <1>5, <2>2
    <3> QED BY <1>1, <2>1, <2>2, <3>1
  <2>3. CASE ~(k < i)
    <3>1. k - Len(a) \in 1 .. Len(q) - i /\ ~(k <= Len(a)) /\ (k - Len(a)) + i = k + 1
      BY <1>1, <1>5, <2>3
    <3>2. b[k - Len(a)] = q[(k - Len(a)) + i] BY <1>2, <3>1
    <3> QED BY <2>1, <2>3, <3>1, <3>2
  <2> QED BY <2>2, <2>3
<1> QED BY <1>3, <1>4, <1>6, <1>7

LEMMA Placed ==
  ASSUME NEW s \in Sessions, Tracked(s)
  PROVE  Place(s) \in DOMAIN pending /\ pending[Place(s)].id = s
BY DEF Tracked, Place

\* The queue stays and a loop of it that has not begun stays where it is.
LEMMA QueueStays ==
  ASSUME ExploreTypeOK, PendingOnce, NEW s \in Sessions, LoopKept(s), pending' = pending,
         Tracked(s) /\ loop[s] = NoCall => loop' = loop
  PROVE  PendingOnce'
<1>1. ASSUME NEW i \in DOMAIN pending
      PROVE  IF pending[i].status = "queued"
             THEN pending[i].base = -1 /\ loop'[pending[i].id] = NoCall
             ELSE loop'[pending[i].id] # NoCall /\ loop'[pending[i].id].at = "device"
  <2>1. pending[i].id \in Sessions BY QueueTyped
  <2>2. CASE pending[i].id # s BY <2>1, <2>2 DEF LoopKept, PendingOnce
  <2>3. CASE pending[i].id = s BY <2>3 DEF LoopKept, PendingOnce, Tracked
  <2> QED BY <2>2, <2>3
<1> QED BY <1>1 DEF PendingOnce

LEMMA QueueStep ==
  ASSUME ExploreTypeOK, PendingOnce, JobOnDevice, NEW s \in Sessions, SessionStep(s), LoopKept(s)
  PROVE  pending' \in Seq(QueueEntries) /\ PendingOnce'
<1>1. CASE RequestSession(s)
  <2> DEFINE e == [id |-> s, status |-> "queued", base |-> -1]
  <2>1. e \in QueueEntries /\ pending \in Seq(QueueEntries) BY DEF QueueEntries, ExploreTypeOK
  <2>2. pending' = Append(pending, e) /\ loop' = loop /\ loop[s] = NoCall /\ ~Tracked(s)
    BY <1>1 DEF RequestSession
  <2>3. e.id = s /\ e.status = "queued" /\ e.base = -1 OBVIOUS
  <2> HIDE DEF e
  <2>4. /\ pending' \in Seq(QueueEntries) /\ Len(pending') = Len(pending) + 1
        /\ \A i \in 1 .. Len(pending) : pending'[i] = pending[i]
        /\ pending'[Len(pending) + 1] = e
    BY <2>1, <2>2, AppendProperties
  <2>5. DOMAIN pending = 1 .. Len(pending) /\ DOMAIN pending' = 1 .. Len(pending) + 1 /\ Len(pending) \in Nat
    BY <2>1, <2>4
  <2>6. \A i \in DOMAIN pending' : i \in DOMAIN pending \/ i = Len(pending) + 1 BY <2>5
  <2>7. \A i \in DOMAIN pending : pending'[i] = pending[i] /\ pending[i].id # s
    BY <2>2, <2>4, <2>5 DEF Tracked
  <2>8. PendingOnce' BY <2>2, <2>3, <2>4, <2>6, <2>7 DEF PendingOnce
  <2> QED BY <2>4, <2>8
<1>2. CASE ClaimSession(s)
  <2>1. PICK i \in DOMAIN pending : /\ pending[i].id = s /\ pending[i].status = "queued"
                                    /\ pending' = [pending EXCEPT ![i].status = "running"]
    BY <1>2 DEF ClaimSession
  <2>2. pending[i] \in QueueEntries /\ pending \in Seq(QueueEntries) BY QueueTyped DEF ExploreTypeOK
  <2> DEFINE e == [pending[i] EXCEPT !.status = "running"]
  <2>3. e \in QueueEntries /\ e.id = s /\ e.status = "running" BY <2>1, <2>2 DEF QueueEntries
  <2>4. pending' = [pending EXCEPT ![i] = e] BY <2>1
  <2> HIDE DEF e
  <2>5. /\ pending' \in Seq(QueueEntries) /\ DOMAIN pending' = DOMAIN pending
        /\ \A j \in DOMAIN pending : pending'[j] = IF j = i THEN e ELSE pending[j]
    BY <2>2, <2>3, <2>4
  <2>6. \A j \in DOMAIN pending : j # i => pending[j].id \in Sessions \ {s}
    BY <2>1, QueueTyped DEF PendingOnce
  <2>7. loop'[s] # NoCall /\ loop'[s].at = "device"
    BY <1>2 DEF ClaimSession, ExploreTypeOK, Started, NoCall
  <2>8. PendingOnce' BY <2>1, <2>3, <2>5, <2>6, <2>7 DEF PendingOnce, LoopKept
  <2> QED BY <2>5, <2>8
<1>3. CASE StartDecide(s)
  <2>1. loop' = loop /\ job[s].is = "asked" /\ loop[s] # NoCall
    BY <1>3, JobKinds DEF StartDecide, JobOnDevice
  <2>2. CASE ~Tracked(s)
    BY <1>3, <2>1, <2>2, QueueStays DEF StartDecide, ExploreTypeOK
  <2>3. CASE Tracked(s)
    <3> DEFINE i == Place(s)
               floor == EnsureBaseline(s, job[s].base)
               e == [pending[i] EXCEPT !.base = floor]
    <3>1. i \in DOMAIN pending /\ pending[i].id = s BY <2>3, Placed
    <3>2. pending[i] \in QueueEntries /\ pending \in Seq(QueueEntries) BY <3>1, QueueTyped DEF ExploreTypeOK
    <3>3. floor \in Nat
      <4>1. job[s].base \in Nat BY <2>1, JobKinds
      <4>2. pending[i].base \in Nat \cup {-1} BY <3>1, QueueTyped
      <4>3. floor = IF pending[i].base >= 0 THEN pending[i].base ELSE job[s].base
        BY <2>3 DEF EnsureBaseline
      <4> QED BY <4>1, <4>2, <4>3
    <3>4. pending' = [pending EXCEPT ![i] = e] BY <1>3, <2>3 DEF StartDecide
    <3>5. e \in QueueEntries /\ e.id = s /\ e.status = pending[i].status
      <4> HIDE DEF floor, i
      <4> QED BY <3>1, <3>2, <3>3 DEF QueueEntries
    <3> HIDE DEF e, floor, i
    <3>6. /\ pending' \in Seq(QueueEntries) /\ DOMAIN pending' = DOMAIN pending
          /\ \A j \in DOMAIN pending : pending'[j] = IF j = i THEN e ELSE pending[j]
      BY <3>1, <3>2, <3>4, <3>5
    <3>7. pending[i].status # "queued" BY <2>1, <3>1 DEF PendingOnce
    <3>8. PendingOnce' BY <2>1, <3>1, <3>5, <3>6, <3>7 DEF PendingOnce
    <3> QED BY <3>6, <3>8
  <2> QED BY <2>2, <2>3
<1>4. CASE FinalizeSession(s)
  <2>1. loop[s] # NoCall BY <1>4 DEF FinalizeSession, Is, NoCall
  <2>2. CASE pending' = pending BY <2>1, <2>2, QueueStays DEF ExploreTypeOK
  <2>3. CASE Tracked(s) /\ pending' = Without(s)
    <3> DEFINE i == Place(s)
    <3>1. i \in DOMAIN pending /\ pending[i].id = s BY <2>3, Placed
    <3>2. pending \in Seq(QueueEntries) /\ DOMAIN pending = 1 .. Len(pending) /\ Len(pending) \in Nat
      BY QueueTyped DEF ExploreTypeOK
    <3>3. pending' = RemoveAt(pending, i) BY <2>3 DEF Without
    <3> HIDE DEF i
    <3>4. /\ pending' \in Seq(QueueEntries) /\ Len(pending') = Len(pending) - 1
          /\ \A k \in 1 .. Len(pending) - 1 : pending'[k] = pending[IF k < i THEN k ELSE k + 1]
      BY <3>1, <3>2, <3>3, Removed
    <3>5. DOMAIN pending' = 1 .. Len(pending) - 1 BY <3>4
    <3> DEFINE From(k) == IF k < i THEN k ELSE k + 1
    <3>6. \A k \in DOMAIN pending' : From(k) \in DOMAIN pending \ {i} /\ pending'[k] = pending[From(k)]
      BY <3>1, <3>2, <3>4, <3>5
    <3>7. \A k, m \in DOMAIN pending' : From(k) = From(m) => k = m
      BY <3>1, <3>2, <3>5
    <3> HIDE DEF From
    <3>8. \A j \in DOMAIN pending \ {i} : pending[j].id \in Sessions \ {s}
      BY <3>1, QueueTyped DEF PendingOnce
    <3>9. \A j \in DOMAIN pending \ {i} : loop'[pending[j].id] = loop[pending[j].id]
      BY <3>8 DEF LoopKept
    <3>10. PendingOnce' BY <3>6, <3>7, <3>9 DEF PendingOnce
    <3> QED BY <3>4, <3>10
  <2> QED BY <1>4, <2>2, <2>3 DEF FinalizeSession
<1>5. CASE StartServer(s)
  BY <1>5, QueueStays DEF StartServer, ExploreTypeOK
<1>6. CASE ~(RequestSession(s) \/ ClaimSession(s) \/ StartDecide(s) \/ FinalizeSession(s) \/ StartServer(s))
  <2>1. pending' = pending
    BY <1>6 DEF SessionStep, ServerTop, ServerDecide, ServerAct, ServerFails, ServerEnds, Observe, Reply,
         CommandTimesOut, AskDecide, Decide, Decided, DecideError, DriverError, DeviceGone
  <2> QED BY <1>6, <2>1, NotBegun, QueueStays DEF ExploreTypeOK
<1> QED BY <1>1, <1>2, <1>3, <1>4, <1>5, <1>6

-----------------------------------------------------------------------------
(* The decide jobs, the wire, and what is found.                         *)

JobsTyped == job \in [Sessions -> DecideJobs \cup {NoDecide}]
LEMMA JobPasses ==
  ASSUME ExploreTypeOK, Sound, JobOnDevice, NEW s \in Sessions, SessionStep(s), LoopKept(s)
  PROVE  JobsTyped' /\ JobOnDevice'
<1>1. ASSUME NEW j \in DecideJobs \cup {NoDecide}, job' = [job EXCEPT ![s] = j],
             j # NoDecide => loop[s] # NoCall /\ loop[s].at = "device"
      PROVE  JobsTyped' /\ JobOnDevice'
  <2>1. JobsTyped' BY <1>1 DEF ExploreTypeOK, JobsTyped
  <2>2. \A t \in Sessions : job'[t] = IF t = s THEN j ELSE job[t] BY <1>1 DEF ExploreTypeOK
  <2>3. ASSUME NEW t \in Sessions, job'[t] # NoDecide PROVE loop'[t] # NoCall /\ loop'[t].at = "device"
    BY <1>1, <2>2, <2>3 DEF JobOnDevice, LoopKept
  <2> QED BY <2>1, <2>3 DEF JobOnDevice
<1>2. ASSUME job' = job PROVE JobsTyped' /\ JobOnDevice'
  BY <1>2 DEF ExploreTypeOK, JobsTyped, JobOnDevice, LoopKept
<1>3. CASE AskDecide(s)
  <2>1. loop[s] # NoCall /\ loop[s].at = "device" BY <1>3 DEF AskDecide, Is, NoCall
  <2>2. CASE job' = job BY <1>2, <2>2
  <2>3. CASE \E read \in {0, spend} : job' = [job EXCEPT ![s] = [is |-> "asked", base |-> read]]
    <3>1. PICK read \in {0, spend} : job' = [job EXCEPT ![s] = [is |-> "asked", base |-> read]]
      BY <2>3
    <3>2. [is |-> "asked", base |-> read] \in DecideJobs BY <3>1 DEF DecideJobs, ExploreTypeOK
    <3> QED BY <1>1, <2>1, <3>1, <3>2
  <2> QED BY <1>3, <2>2, <2>3 DEF AskDecide
<1>4. CASE StartDecide(s)
  <2>1. job[s].is = "asked" /\ job[s] # NoDecide BY <1>4 DEF StartDecide, NoDecide
  <2>2. loop[s] # NoCall /\ loop[s].at = "device" BY <2>1 DEF JobOnDevice
  <2> DEFINE floor == EnsureBaseline(s, job[s].base)
  <2>3. job' = [job EXCEPT ![s] = [is |-> "running", base |-> floor]] BY <1>4 DEF StartDecide
  <2>4. floor \in Nat
    <3>1. job[s].base \in Nat BY <2>1, JobKinds
    <3>2. Tracked(s) => pending[Place(s)].base \in Nat \cup {-1} BY Placed, QueueTyped
    <3>3. floor = IF Tracked(s) /\ pending[Place(s)].base >= 0 THEN pending[Place(s)].base ELSE job[s].base
      BY DEF EnsureBaseline
    <3> HIDE DEF floor
    <3> QED BY <3>1, <3>2, <3>3
  <2> HIDE DEF floor
  <2>5. [is |-> "running", base |-> floor] \in DecideJobs BY <2>4 DEF DecideJobs
  <2> QED BY <1>1, <2>2, <2>3, <2>5
<1>5. CASE Decide(s)
  <2>1. job[s] # NoDecide BY <1>5 DEF Decide, NoDecide
  <2>2. loop[s] # NoCall /\ loop[s].at = "device" BY <2>1 DEF JobOnDevice
  <2>3. PICK d \in Decisions \cup {"budget"} : job' = [job EXCEPT ![s] = [is |-> "done", act |-> d]]
    BY <1>5 DEF Decide
  <2>4. [is |-> "done", act |-> d] \in DecideJobs BY DEF DecideJobs
  <2> QED BY <1>1, <2>2, <2>3, <2>4
<1>6. CASE Decided(s)
  <2>1. job' = [job EXCEPT ![s] = NoDecide] BY <1>6 DEF Decided
  <2> QED BY <1>1, <2>1
<1>7. CASE ~(AskDecide(s) \/ StartDecide(s) \/ Decide(s) \/ Decided(s))
  <2>1. job' = job
    BY <1>7 DEF SessionStep, StartServer, ServerTop, ServerDecide, ServerAct, ServerFails, ServerEnds,
         RequestSession, ClaimSession, Observe, Reply, CommandTimesOut, DecideError, FinalizeSession,
         DriverError, DeviceGone
  <2> QED BY <1>2, <2>1
<1> QED BY <1>3, <1>4, <1>5, <1>6, <1>7

\* What a device waits for is all that is on its wire, until one of its
\* commands times out; what it has found, it has seen work.
Waits(l) == IF l.pc = "observe" THEN <<"observe">> ELSE IF l.pc = "acting" THEN <<l.act>> ELSE <<>>
WireMatches == \A s \in Sessions \ tardy : wire[s] = Waits(loop[s])
FoundWorked == \A s \in Sessions \ tardy : loop[s] # NoCall => loop[s].found \subseteq worked[s]

WireTyped == wire \in [Sessions -> Seq(Facts \cup {"observe"})]
FindsTyped ==
  /\ kb \subseteq Facts /\ worked \in [Sessions -> SUBSET Facts] /\ tardy \subseteq Sessions
  /\ exploring \in Sessions \cup {NoSession}

LEMMA WireTypeStep ==
  ASSUME ExploreTypeOK, NEW s \in Sessions, SessionStep(s)
  PROVE  WireTyped'
<1> DEFINE Cmds == Facts \cup {"observe"}
<1>1. ASSUME NEW q \in Seq(Cmds), wire' = [wire EXCEPT ![s] = q] PROVE WireTyped'
  BY <1>1 DEF ExploreTypeOK, WireTyped
<1>2. wire[s] \in Seq(Cmds) BY DEF ExploreTypeOK
<1>3. ASSUME wire' = wire PROVE WireTyped' BY <1>3 DEF ExploreTypeOK, WireTyped
<1>4. CASE Observe(s)
  <2>1. wire' = wire \/ wire' = [wire EXCEPT ![s] = Append(wire[s], "observe")] BY <1>4 DEF Observe
  <2>2. Append(wire[s], "observe") \in Seq(Cmds) BY <1>2, AppendProperties
  <2> HIDE DEF Cmds
  <2> QED BY <1>1, <1>3, <2>1, <2>2
<1>5. CASE Reply(s)
  <2>1. wire' = [wire EXCEPT ![s] = Tail(wire[s])] /\ wire[s] # <<>> BY <1>5 DEF Reply
  <2>2. Tail(wire[s]) \in Seq(Cmds) BY <1>2, <2>1, HeadTailProperties
  <2> HIDE DEF Cmds
  <2> QED BY <1>1, <2>1, <2>2
<1>6. CASE Decided(s)
  <2>1. \/ wire' = wire
        \/ job[s].act \in Facts /\ wire' = [wire EXCEPT ![s] = Append(wire[s], job[s].act)]
    BY <1>6 DEF Decided
  <2>2. job[s].act \in Facts => Append(wire[s], job[s].act) \in Seq(Cmds) BY <1>2, AppendProperties
  <2> HIDE DEF Cmds
  <2> QED BY <1>1, <1>3, <2>1, <2>2
<1>7. CASE FinalizeSession(s) \/ DeviceGone(s)
  <2>1. wire' = [wire EXCEPT ![s] = <<>>] BY <1>7 DEF FinalizeSession, DeviceGone
  <2>2. <<>> \in Seq(Cmds) OBVIOUS
  <2> HIDE DEF Cmds
  <2> QED BY <1>1, <2>1, <2>2
<1>8. CASE ~(Observe(s) \/ Reply(s) \/ Decided(s) \/ FinalizeSession(s) \/ DeviceGone(s))
  <2>1. wire' = wire
    BY <1>8 DEF SessionStep, StartServer, ServerTop, ServerDecide, ServerAct, ServerFails, ServerEnds,
         RequestSession, ClaimSession, CommandTimesOut, AskDecide, StartDecide, Decide, DecideError,
         DriverError
  <2> QED BY <1>3, <2>1
<1> QED BY <1>4, <1>5, <1>6, <1>7, <1>8

LEMMA TardyGrows ==
  ASSUME NEW s \in Sessions, SessionStep(s)
  PROVE  tardy' = tardy \/ (CommandTimesOut(s) /\ tardy' = tardy \cup {s})
BY DEF SessionStep, StartServer, ServerTop, ServerDecide, ServerAct, ServerFails, ServerEnds,
       RequestSession, ClaimSession, Observe, Reply, CommandTimesOut, AskDecide, StartDecide, Decide,
       Decided, DecideError, FinalizeSession, DriverError, DeviceGone, ghosts

LEMMA SentFirst ==
  ASSUME NEW cmd, NEW q, q = <<>>
  PROVE  Append(q, cmd) = <<cmd>>
OBVIOUS

LEMMA WireSet ==
  ASSUME ExploreTypeOK, WireMatches, NEW s \in Sessions, LoopKept(s), tardy \subseteq tardy',
         \A t \in Sessions : t # s => wire'[t] = wire[t],
         s \notin tardy' => wire'[s] = Waits(loop'[s])
  PROVE  WireMatches'
<1> SUFFICES ASSUME NEW t \in Sessions \ tardy' PROVE wire'[t] = Waits(loop'[t])
  BY DEF WireMatches, Waits
<1> QED BY DEF WireMatches, LoopKept

\* Where the loop of a session is after a step that sends nothing and reads
\* no reply.
LEMMA WireIdle ==
  ASSUME ExploreTypeOK, Sound, PendingOnce, NEW s \in Sessions, SessionStep(s), LoopKept(s),
         ~(Observe(s) \/ Reply(s) \/ CommandTimesOut(s) \/ Decided(s) \/ FinalizeSession(s) \/ DeviceGone(s))
  PROVE  /\ wire' = wire
         /\ loop' = loop \/ (loop[s].pc \notin {"observe", "acting"} /\ loop'[s].pc \notin {"observe", "acting"})
<1>1. wire' = wire
  BY DEF SessionStep, StartServer, ServerTop, ServerDecide, ServerAct, ServerFails, ServerEnds,
         RequestSession, ClaimSession, AskDecide, StartDecide, Decide, DecideError, DriverError
<1>2. ASSUME loop[s] # NoCall PROVE loop[s] \in Loops BY <1>2, LoopKinds
<1>3. CASE RequestSession(s) \/ StartDecide(s) \/ Decide(s)
  BY <1>1, <1>3 DEF RequestSession, StartDecide, Decide
<1>4. CASE StartServer(s)
  <2>1. PICK floor : loop' = [loop EXCEPT ![s] = Started("server", floor)] /\ loop[s] = NoCall
    BY <1>4 DEF StartServer
  <2>2. loop'[s].pc = "top" BY <2>1 DEF ExploreTypeOK, Started
  <2> QED BY <1>1, <2>1, <2>2 DEF NoCall
<1>5. CASE ClaimSession(s)
  <2>1. loop'[s].pc = "top" BY <1>5 DEF ClaimSession, ExploreTypeOK, Started
  <2>2. loop[s] = NoCall BY <1>5 DEF ClaimSession, PendingOnce
  <2> QED BY <1>1, <2>1, <2>2 DEF NoCall
<1>6. CASE ServerTop(s) \/ ServerDecide(s) \/ ServerAct(s) \/ ServerFails(s) \/ ServerEnds(s)
  <2>1. loop[s].pc \in {"top", "decide", "act", "ended"} /\ loop[s].at = "server"
    BY <1>6 DEF ServerTop, ServerDecide, ServerAct, ServerFails, ServerEnds, Is
  <2>2. loop[s] # NoCall BY <2>1 DEF NoCall
  <2>3. loop'[s].at = "server" BY <2>1, <2>2 DEF LoopKept
  <2>4. LoopOK(loop'[s]) BY DEF LoopKept, LoopsHeld, Sound, LoopOK
  <2> QED BY <1>1, <2>1, <2>3, <2>4 DEF LoopOK
<1>7. CASE AskDecide(s) \/ DecideError(s) \/ DriverError(s)
  <2>1. loop[s].pc \in {"ask", "wait", "top"}
    BY <1>7 DEF AskDecide, DecideError, DriverError, Is
  <2>2. loop[s] \in Loops BY <1>2, <2>1 DEF NoCall
  <2>3. \E pc \in {"wait", "ended"} : loop'[s].pc = pc
    BY <1>7, <2>2 DEF AskDecide, DecideError, DriverError, LoopGoes, LoopEnds, ExploreTypeOK, Loops
  <2> QED BY <1>1, <2>1, <2>3
<1> QED BY <1>3, <1>4, <1>5, <1>6, <1>7 DEF SessionStep

LEMMA WireStep ==
  ASSUME ExploreTypeOK, Sound, PendingOnce, WireMatches, NEW s \in Sessions, SessionStep(s), LoopKept(s)
  PROVE  WireMatches'
<1>1. tardy \subseteq tardy' BY TardyGrows
<1>2. ASSUME loop[s].pc # "none" PROVE loop[s] # NoCall /\ loop[s] \in Loops /\ LoopOK(loop[s])
  BY <1>2, LoopKinds DEF Sound
<1>3. ASSUME NEW q, wire' = [wire EXCEPT ![s] = q], s \notin tardy' => q = Waits(loop'[s])
      PROVE  WireMatches'
  BY <1>1, <1>3, WireSet DEF ExploreTypeOK
<1>4. ASSUME wire' = wire, s \notin tardy' => wire[s] = Waits(loop'[s]) PROVE WireMatches'
  BY <1>1, <1>4, WireSet
<1>5. s \notin tardy' => wire[s] = Waits(loop[s]) BY <1>1 DEF WireMatches
<1>6. CASE Observe(s)
  <2>1. loop[s].pc = "top" /\ loop[s] \in Loops BY <1>2, <1>6 DEF Observe, Is
  <2>2. CASE LoopEnds(s, "step_cap") /\ UNCHANGED wire
    <3>1. loop'[s].pc = "ended" BY <2>1, <2>2 DEF LoopEnds, ExploreTypeOK, Loops
    <3> QED BY <1>4, <1>5, <2>1, <2>2, <3>1 DEF Waits
  <2>3. CASE /\ loop' = [loop EXCEPT ![s].pc = "observe", ![s].waits = TRUE]
             /\ wire' = [wire EXCEPT ![s] = Append(@, "observe")]
    <3>1. loop'[s].pc = "observe" BY <2>1, <2>3 DEF ExploreTypeOK, Loops
    <3>2. s \notin tardy' => wire[s] = <<>> BY <1>5, <2>1 DEF Waits
    <3>3. Waits(loop'[s]) = <<"observe">> BY <3>1 DEF Waits
    <3>4. s \notin tardy' => Append(wire[s], "observe") = Waits(loop'[s])
      BY <3>2, <3>3, SentFirst
    <3> QED BY <1>3, <2>3, <3>4
  <2> QED BY <1>6, <2>2, <2>3 DEF Observe
<1>7. CASE Reply(s)
  <2>1. wire' = [wire EXCEPT ![s] = Tail(wire[s])] /\ wire[s] # <<>> BY <1>7 DEF Reply
  <2>2. PICK read \in Pages \cup {Unread}, ok \in BOOLEAN :
          loop' = [loop EXCEPT ![s] = Answered(loop[s], read, ok)]
    <3>1. PICK page \in Pages, ok \in BOOLEAN :
            loop' = [loop EXCEPT ![s] =
              Answered(loop[s], IF Head(wire[s]) = "observe" THEN page ELSE Unread, ok)]
      BY <1>7 DEF Reply
    <3> QED BY <3>1
  <2>3. loop'[s] = Answered(loop[s], read, ok) BY <2>2 DEF ExploreTypeOK
  <2>4. ASSUME s \notin tardy' PROVE Tail(wire[s]) = Waits(loop'[s])
    <3>1. wire[s] = Waits(loop[s]) BY <1>5, <2>4
    <3>2. loop[s].pc \in {"observe", "acting"} BY <2>1, <3>1 DEF Waits
    <3>3. loop[s] \in Loops /\ LoopOK(loop[s]) /\ loop[s].waits BY <1>2, <3>2 DEF LoopOK
    <3>4. loop'[s] = IF loop[s].pc = "observe" THEN Observed(loop[s], read, ok) ELSE Acted(loop[s], ok)
      BY <2>3, <3>2, <3>3 DEF Answered
    <3>5. loop'[s].pc \in {"ended", "ask", "top"}
      <4>1. CASE loop[s].pc = "observe" BY <3>3, <3>4, <4>1, ObservedWell
      <4>2. CASE loop[s].pc = "acting"
        <5>1. loop'[s] = Acted(loop[s], ok) BY <3>4, <4>2
        <5>2. Acted(loop[s], ok).pc = "top" BY <3>3, <4>2 DEF Acted, Loops
        <5> QED BY <5>1, <5>2
      <4> QED BY <3>2, <4>1, <4>2
    <3>6. Tail(wire[s]) = <<>> BY <3>1, <3>2 DEF Waits
    <3> QED BY <3>5, <3>6 DEF Waits
  <2> QED BY <1>3, <2>1, <2>4
<1>8. CASE CommandTimesOut(s)
  <2>1. wire' = wire /\ tardy' = tardy \cup {s} BY <1>8 DEF CommandTimesOut
  <2> QED BY <1>4, <2>1
<1>9. CASE Decided(s)
  <2>1. CASE UNCHANGED <<loop, wire>> BY <1>4, <1>5, <2>1
  <2>2. CASE Is(s, "device", "wait")
    <3>1. loop[s].pc = "wait" /\ loop[s] \in Loops BY <1>2, <2>2 DEF Is
    <3>2. CASE LoopEnds(s, job[s].act) /\ UNCHANGED wire
      <4>1. loop'[s].pc = "ended" BY <3>1, <3>2 DEF LoopEnds, ExploreTypeOK, Loops
      <4> QED BY <1>4, <1>5, <3>1, <3>2, <4>1 DEF Waits
    <3>3. CASE loop' = [loop EXCEPT ![s].pc = "top", ![s].steps = @ + 1] /\ UNCHANGED wire
      <4>1. loop'[s].pc = "top" BY <3>1, <3>3 DEF ExploreTypeOK, Loops
      <4> QED BY <1>4, <1>5, <3>1, <3>3, <4>1 DEF Waits
    <3>4. CASE /\ loop' = [loop EXCEPT ![s].pc = "acting", ![s].waits = TRUE, ![s].act = job[s].act]
               /\ wire' = [wire EXCEPT ![s] = Append(@, job[s].act)]
      <4>1. loop'[s].pc = "acting" /\ loop'[s].act = job[s].act
        BY <3>1, <3>4 DEF ExploreTypeOK, Loops
      <4>2. s \notin tardy' => wire[s] = <<>> BY <1>5, <3>1 DEF Waits
      <4>3. Waits(loop'[s]) = <<job[s].act>> BY <4>1 DEF Waits
      <4>4. s \notin tardy' => Append(wire[s], job[s].act) = Waits(loop'[s])
        BY <4>2, <4>3, SentFirst
      <4> QED BY <1>3, <3>4, <4>4
    <3> QED BY <1>9, <2>2, <3>2, <3>3, <3>4 DEF Decided
  <2> QED BY <1>9, <2>1, <2>2 DEF Decided
<1>10. CASE FinalizeSession(s) \/ DeviceGone(s)
  <2>1. wire' = [wire EXCEPT ![s] = <<>>] /\ LoopGoes(s, "over") /\ loop[s].pc # "none"
    BY <1>10 DEF FinalizeSession, DeviceGone, Is
  <2>2. loop'[s].pc = "over" BY <1>2, <2>1 DEF LoopGoes, ExploreTypeOK, Loops
  <2> QED BY <1>3, <2>1, <2>2 DEF Waits
<1>11. CASE ~(Observe(s) \/ Reply(s) \/ CommandTimesOut(s) \/ Decided(s) \/ FinalizeSession(s) \/ DeviceGone(s))
  <2>1. /\ wire' = wire
        /\ \/ loop' = loop
           \/ loop[s].pc \notin {"observe", "acting"} /\ loop'[s].pc \notin {"observe", "acting"}
    BY <1>11, WireIdle
  <2> QED BY <1>4, <1>5, <2>1 DEF Waits
<1> QED BY <1>6, <1>7, <1>8, <1>9, <1>10, <1>11

-----------------------------------------------------------------------------
(* What is found, and what of it is merged.                              *)

\* What has worked stays so, and only the session of the step adds to it.
LEMMA WorkedGrows ==
  ASSUME ExploreTypeOK, Sound, NEW s \in Sessions, SessionStep(s)
  PROVE  /\ worked' \in [Sessions -> SUBSET Facts] /\ worked[s] \subseteq worked'[s]
         /\ \A t \in Sessions : t # s => worked'[t] = worked[t]
<1>1. ASSUME NEW new \in SUBSET Facts, worked' = [worked EXCEPT ![s] = worked[s] \cup new]
      PROVE  /\ worked' \in [Sessions -> SUBSET Facts] /\ worked[s] \subseteq worked'[s]
             /\ \A t \in Sessions : t # s => worked'[t] = worked[t]
  BY <1>1 DEF ExploreTypeOK
<1>2. ASSUME worked' = worked
      PROVE  /\ worked' \in [Sessions -> SUBSET Facts] /\ worked[s] \subseteq worked'[s]
             /\ \A t \in Sessions : t # s => worked'[t] = worked[t]
  BY <1>2 DEF ExploreTypeOK
<1>3. CASE ServerTop(s)
  <2>1. CASE worked' = worked BY <1>2, <2>1
  <2>2. CASE \E page \in Pages : worked' = [worked EXCEPT ![s] = @ \cup {page}]
    <3>1. PICK page \in Pages : worked' = [worked EXCEPT ![s] = worked[s] \cup {page}] BY <2>2
    <3>2. {page} \in SUBSET Facts BY DEF Facts
    <3> QED BY <1>1, <3>1, <3>2
  <2> QED BY <1>3, <2>1, <2>2 DEF ServerTop
<1>4. CASE ServerAct(s)
  <2>1. CASE worked' = worked BY <1>2, <2>1
  <2>2. CASE worked' = [worked EXCEPT ![s] = worked[s] \cup {loop[s].act}]
    <3>1. {loop[s].act} \in SUBSET Facts BY <1>4 DEF ServerAct, Is, Sound, LoopOK
    <3> QED BY <1>1, <2>2, <3>1
  <2> QED BY <1>4, <2>1, <2>2 DEF ServerAct
<1>5. CASE Reply(s)
  <2>1. CASE worked' = worked BY <1>2, <2>1
  <2>2. CASE worked' = [worked EXCEPT ![s] = worked[s] \cup {Head(wire[s])}] /\ Head(wire[s]) # "observe"
    <3>1. wire[s] \in Seq(Facts \cup {"observe"}) /\ wire[s] # <<>>
      BY <1>5 DEF ExploreTypeOK, Reply
    <3>2. Head(wire[s]) \in Facts \cup {"observe"} BY <3>1, HeadTailProperties
    <3>3. {Head(wire[s])} \in SUBSET Facts BY <2>2, <3>2
    <3> QED BY <1>1, <2>2, <3>3
  <2> QED BY <1>5, <2>1, <2>2 DEF Reply
<1>6. CASE ~(ServerTop(s) \/ ServerAct(s) \/ Reply(s))
  <2>1. worked' = worked
    BY <1>6 DEF SessionStep, StartServer, ServerDecide, ServerFails, ServerEnds, RequestSession,
         ClaimSession, Observe, CommandTimesOut, AskDecide, StartDecide, Decide, Decided, DecideError,
         FinalizeSession, DriverError, DeviceGone, ghosts
  <2> QED BY <1>2, <2>1
<1> QED BY <1>3, <1>4, <1>5, <1>6

\* A step that finds nothing new.
LEMMA FindsNothing ==
  ASSUME ExploreTypeOK, NEW s \in Sessions, SessionStep(s), LoopKept(s), loop[s] # NoCall,
         ~(ServerTop(s) \/ ServerAct(s) \/ Reply(s) \/ CommandTimesOut(s))
  PROVE  loop'[s].found \subseteq loop[s].found
<1>1. loop[s] \in Loops BY LoopKinds
<1>2. ASSUME NEW pc, LoopGoes(s, pc) PROVE loop'[s].found = loop[s].found
  BY <1>1, <1>2 DEF LoopGoes, ExploreTypeOK, Loops
<1>3. ASSUME NEW reason, LoopEnds(s, reason) PROVE loop'[s].found = loop[s].found
  BY <1>1, <1>3 DEF LoopEnds, ExploreTypeOK, Loops
<1>4. CASE ServerDecide(s)
  <2>1. CASE \E d : loop' = [loop EXCEPT ![s].pc = "act", ![s].act = d]
    BY <1>1, <2>1 DEF ExploreTypeOK, Loops
  <2> QED BY <1>3, <1>4, <2>1 DEF ServerDecide
<1>5. CASE ServerFails(s) BY <1>1, <1>5 DEF ServerFails, ExploreTypeOK, Loops
<1>6. CASE ClaimSession(s) BY <1>6 DEF ClaimSession, ExploreTypeOK, Started
<1>7. CASE Observe(s)
  <2>1. CASE loop' = [loop EXCEPT ![s].pc = "observe", ![s].waits = TRUE]
    BY <1>1, <2>1 DEF ExploreTypeOK, Loops
  <2> QED BY <1>3, <1>7, <2>1 DEF Observe
<1>8. CASE Decided(s)
  <2>1. CASE loop' = [loop EXCEPT ![s].pc = "top", ![s].steps = @ + 1]
    BY <1>1, <2>1 DEF ExploreTypeOK, Loops
  <2>2. CASE loop' = [loop EXCEPT ![s].pc = "acting", ![s].waits = TRUE, ![s].act = job[s].act]
    BY <1>1, <2>2 DEF ExploreTypeOK, Loops
  <2> QED BY <1>3, <1>8, <2>1, <2>2 DEF Decided
<1>9. CASE ServerEnds(s) \/ AskDecide(s) \/ DecideError(s) \/ FinalizeSession(s) \/ DriverError(s) \/ DeviceGone(s)
  BY <1>2, <1>3, <1>9
     DEF ServerEnds, AskDecide, DecideError, FinalizeSession, DriverError, DeviceGone
<1>10. CASE StartServer(s) BY <1>10 DEF StartServer
<1>11. CASE RequestSession(s) \/ StartDecide(s) \/ Decide(s)
  BY <1>11 DEF RequestSession, StartDecide, Decide
<1> QED BY <1>4, <1>5, <1>6, <1>7, <1>8, <1>9, <1>10, <1>11 DEF SessionStep

LEMMA FoundSet ==
  ASSUME ExploreTypeOK, Sound, FoundWorked, NEW s \in Sessions, SessionStep(s), LoopKept(s),
         s \notin tardy' => loop'[s] = NoCall \/ loop'[s].found \subseteq worked'[s]
  PROVE  FoundWorked'
<1>1. tardy \subseteq tardy' BY TardyGrows
<1>2. \A t \in Sessions : t # s => worked'[t] = worked[t] /\ loop'[t] = loop[t]
  BY WorkedGrows DEF LoopKept
<1> QED BY <1>1, <1>2 DEF FoundWorked

LEMMA FoundStep ==
  ASSUME ExploreTypeOK, Sound, WireMatches, FoundWorked, NEW s \in Sessions, SessionStep(s), LoopKept(s)
  PROVE  FoundWorked'
<1>1. tardy \subseteq tardy' BY TardyGrows
<1>2. ASSUME loop[s].pc # "none" PROVE loop[s] # NoCall /\ loop[s] \in Loops /\ LoopOK(loop[s])
  BY <1>2, LoopKinds DEF Sound
<1>3. s \notin tardy' /\ loop[s] # NoCall => loop[s].found \subseteq worked'[s]
  BY <1>1, WorkedGrows DEF FoundWorked
<1>4. CASE ServerTop(s)
  <2>1. loop[s] # NoCall /\ loop[s] \in Loops BY <1>2, <1>4 DEF ServerTop, Is
  <2>2. CASE \E reason : LoopEnds(s, reason)
    <3>1. loop'[s].found = loop[s].found BY <2>1, <2>2 DEF LoopEnds, ExploreTypeOK, Loops
    <3> QED BY <1>3, <2>1, <3>1, FoundSet
  <2>3. CASE \E page \in Pages :
               /\ worked' = [worked EXCEPT ![s] = @ \cup {page}]
               /\ loop' = [loop EXCEPT ![s].pc = "decide", ![s].seen = @ \cup {page}, ![s].found = @ \cup {page}]
    <3>1. PICK page \in Pages :
               /\ worked' = [worked EXCEPT ![s] = @ \cup {page}]
               /\ loop' = [loop EXCEPT ![s].pc = "decide", ![s].seen = @ \cup {page}, ![s].found = @ \cup {page}]
      BY <2>3
    <3>2. loop'[s].found = loop[s].found \cup {page} BY <2>1, <3>1 DEF ExploreTypeOK, Loops
    <3>3. worked'[s] = worked[s] \cup {page} BY <3>1 DEF ExploreTypeOK
    <3>4. s \notin tardy' => loop'[s].found \subseteq worked'[s]
      BY <1>3, <2>1, <3>2, <3>3
    <3> QED BY <3>4, FoundSet
  <2> QED BY <1>4, <2>2, <2>3 DEF ServerTop
<1>5. CASE ServerAct(s)
  <2>1. loop[s] # NoCall /\ loop[s] \in Loops BY <1>2, <1>5 DEF ServerAct, Is
  <2>2. PICK ok \in BOOLEAN :
          /\ worked' = IF ok THEN [worked EXCEPT ![s] = @ \cup {loop[s].act}] ELSE worked
          /\ loop' = [loop EXCEPT ![s].pc = "top", ![s].steps = @ + 1,
                                  ![s].found = IF ok THEN @ \cup {loop[s].act} ELSE @]
    BY <1>5 DEF ServerAct
  <2>3. loop'[s].found = IF ok THEN loop[s].found \cup {loop[s].act} ELSE loop[s].found
    BY <2>1, <2>2 DEF ExploreTypeOK, Loops
  <2>4. ok => loop[s].act \in worked'[s] BY <2>2 DEF ExploreTypeOK
  <2>5. s \notin tardy' => loop'[s].found \subseteq worked'[s] BY <1>3, <2>1, <2>3, <2>4
  <2> QED BY <2>5, FoundSet
<1>6. CASE Reply(s)
  <2>1. PICK page \in Pages, ok \in BOOLEAN :
          /\ worked' = IF ok /\ Head(wire[s]) # "observe"
                       THEN [worked EXCEPT ![s] = @ \cup {Head(wire[s])}] ELSE worked
          /\ loop' = [loop EXCEPT ![s] =
               Answered(loop[s], IF Head(wire[s]) = "observe" THEN page ELSE Unread, ok)]
    BY <1>6 DEF Reply
  <2> DEFINE read == IF Head(wire[s]) = "observe" THEN page ELSE Unread
  <2>2. loop'[s] = Answered(loop[s], read, ok) BY <2>1 DEF ExploreTypeOK
  <2>3. read \in Pages \cup {Unread} OBVIOUS
  <2> HIDE DEF read
  <2>4. ASSUME s \notin tardy', loop[s] # NoCall PROVE loop'[s].found \subseteq worked'[s]
    <3>1. loop[s] \in Loops /\ LoopOK(loop[s]) BY <2>4, LoopKinds DEF Sound
    <3>2. wire[s] = Waits(loop[s]) BY <1>1, <2>4 DEF WireMatches
    <3>3. CASE loop[s].pc = "observe"
      <4>1. loop'[s] = Observed(loop[s], read, ok)
        BY <2>2, <3>1, <3>3 DEF Answered, LoopOK
      <4>2. loop'[s].found = loop[s].found BY <2>3, <3>1, <3>3, <4>1, ObservedWell
      <4> QED BY <1>3, <2>4, <4>2
    <3>4. CASE loop[s].pc = "acting"
      <4>1. loop'[s] = Acted(loop[s], ok)
        BY <2>2, <3>1, <3>4 DEF Answered, LoopOK
      <4>2. loop'[s].found = IF ok THEN loop[s].found \cup {loop[s].act} ELSE loop[s].found
        BY <3>1, <3>4, <4>1, ActedWell
      <4>3. wire[s] = <<loop[s].act>> /\ loop[s].act \in Facts BY <3>1, <3>2, <3>4 DEF Waits, LoopOK
      <4>4. Head(wire[s]) = loop[s].act BY <4>3
      <4>5. Head(wire[s]) # "observe" BY <4>3, <4>4, ExploreAssumption
      <4>6. ok => loop[s].act \in worked'[s] BY <2>1, <4>4, <4>5 DEF ExploreTypeOK
      <4> QED BY <1>3, <2>4, <4>2, <4>6
    <3>5. CASE loop[s].pc \notin {"observe", "acting"}
      <4>1. loop'[s] = loop[s] BY <2>2, <3>5 DEF Answered
      <4> QED BY <1>3, <2>4, <4>1
    <3> QED BY <3>3, <3>4, <3>5
  <2>5. ASSUME loop[s] = NoCall PROVE loop'[s] = NoCall
    BY <2>2, <2>5 DEF Answered, NoCall
  <2> QED BY <2>4, <2>5, FoundSet
<1>7. CASE CommandTimesOut(s)
  BY <1>7, FoundSet DEF CommandTimesOut
<1>8. CASE StartServer(s) \/ ClaimSession(s)
  <2>1. loop'[s].found = {} BY <1>8 DEF StartServer, ClaimSession, ExploreTypeOK, Started
  <2> QED BY <2>1, FoundSet
<1>9. CASE loop' = loop
  <2>1. loop'[s] = loop[s] BY <1>9
  <2> QED BY <1>3, <2>1, FoundSet
<1>10. CASE /\ ~(ServerTop(s) \/ ServerAct(s) \/ Reply(s) \/ CommandTimesOut(s))
            /\ loop[s] # NoCall
  BY <1>3, <1>10, FindsNothing, FoundSet
<1>11. CASE /\ ~(ServerTop(s) \/ ServerAct(s) \/ Reply(s) \/ CommandTimesOut(s) \/ StartServer(s) \/ ClaimSession(s))
            /\ loop[s] = NoCall /\ loop' # loop
  <2>1. loop[s].pc = "none" BY <1>11 DEF NoCall
  <2> QED BY <1>11, <2>1 DEF SessionStep, ServerDecide, ServerFails, ServerEnds, RequestSession, Observe,
          AskDecide, StartDecide, Decide, Decided, DecideError, FinalizeSession, DriverError, DeviceGone, Is
<1> QED BY <1>4, <1>5, <1>6, <1>7, <1>8, <1>9, <1>10, <1>11

\* What a step merges its session has found, and no command of any timed out.
LEMMA MergeStep ==
  ASSUME ExploreTypeOK, Sound, FoundWorked, VerifiedWorked, NEW s \in Sessions, SessionStep(s)
  PROVE  kb' \subseteq Facts /\ VerifiedWorked'
<1>1. tardy \subseteq tardy' BY TardyGrows
<1>2. ASSUME NEW t \in Sessions PROVE worked[t] \subseteq worked'[t]
  BY WorkedGrows
<1>3. UNION {worked[t] : t \in Sessions} \subseteq UNION {worked'[t] : t \in Sessions} BY <1>2
<1>4. CASE kb' = kb
  BY <1>1, <1>3, <1>4 DEF VerifiedWorked, ExploreTypeOK
<1>5. CASE kb' = kb \cup loop[s].found /\ loop[s] # NoCall
  <2>1. loop[s] \in Loops BY <1>5, LoopKinds
  <2>2. kb' \subseteq Facts BY <1>5, <2>1 DEF ExploreTypeOK, Loops
  <2>3. CASE tardy' = {}
    <3>1. tardy = {} BY <1>1, <2>3
    <3>2. loop[s].found \subseteq worked[s] BY <1>5, <3>1 DEF FoundWorked
    <3>3. kb' \subseteq UNION {worked[t] : t \in Sessions} BY <1>5, <3>1, <3>2 DEF VerifiedWorked
    <3> QED BY <1>3, <2>2, <3>3 DEF VerifiedWorked
  <2>4. CASE tardy' # {} BY <2>2, <2>4 DEF VerifiedWorked
  <2> QED BY <2>3, <2>4
<1>6. CASE ServerEnds(s) \/ FinalizeSession(s)
  <2>1. loop[s] # NoCall BY <1>6 DEF ServerEnds, FinalizeSession, Is, NoCall
  <2> QED BY <1>4, <1>5, <1>6, <2>1 DEF ServerEnds, FinalizeSession
<1>7. CASE ~(ServerEnds(s) \/ FinalizeSession(s))
  <2>1. kb' = kb
    BY <1>7 DEF SessionStep, StartServer, ServerTop, ServerDecide, ServerAct, ServerFails, RequestSession,
         ClaimSession, Observe, Reply, CommandTimesOut, AskDecide, StartDecide, Decide, Decided,
         DecideError, DriverError, DeviceGone
  <2> QED BY <1>4, <2>1
<1> QED BY <1>6, <1>7

-----------------------------------------------------------------------------
(* What a session pays.                                                  *)

\* What BudgetKept allows a session, by the calls it was charged wrongly.
Cap(n) == Budget - 1 + MaxCost * (1 + n)
Slack(s) == paid[s] + MaxCost <= Cap(slips[s])

\* A queued session's baseline is from before all it has paid, and while it
\* has none it has paid nothing and no call for it is under way.
EntryPays(e) ==
  IF e.base = -1 THEN paid[e.id] = 0 /\ job[e.id].is # "running" ELSE paid[e.id] <= spend - e.base

Spent == \A s \in Sessions : paid[s] <= spend
Baselines == \A i \in DOMAIN pending : EntryPays(pending[i])

\* The baseline a call is made with is from before all the session has paid,
\* or a purge has left the session one call more.
JobBases == \A s \in Sessions :
  /\ job[s].is = "asked" => job[s].base <= spend
  /\ job[s].is = "running" => paid[s] <= spend - job[s].base \/ Slack(s)

LEMMA CapStep ==
  ASSUME NEW n \in Nat
  PROVE  /\ Cap(n) \in Int /\ Cap(n + 1) = Cap(n) + MaxCost /\ Budget - 1 + MaxCost <= Cap(n)
         /\ MaxCost \in Nat /\ Cap(n) <= Cap(n + 1)
<1>1. MaxCost \in Nat /\ Budget \in Nat BY ExploreAssumption
<1>2. MaxCost * (1 + n) \in Int /\ MaxCost * (1 + (n + 1)) = MaxCost * (1 + n) + MaxCost BY <1>1
<1>3. MaxCost * (1 + n) = MaxCost + MaxCost * n /\ MaxCost * n \in Nat BY <1>1
<1> QED BY <1>1, <1>2, <1>3 DEF Cap

\* What a step of a session does to the sums: it pays no more than is added
\* to the run's usage, and pays only in a decide call.
Moved(s) ==
  /\ spend' \in Nat /\ mishaps' \in Nat /\ paid' \in [Sessions -> Nat] /\ slips' \in [Sessions -> Nat]
  /\ spend <= spend' /\ slips'[s] \in {slips[s], slips[s] + 1}
  /\ \A t \in Sessions : t # s => paid'[t] = paid[t] /\ slips'[t] = slips[t]
  /\ paid'[s] - paid[s] <= spend' - spend
  /\ paid'[s] = paid[s] \/ ServerDecide(s) \/ Decide(s)

LEMMA MovedOne ==
  ASSUME ExploreTypeOK, NEW s \in Sessions, SessionStep(s)
  PROVE  Moved(s)
<1> DEFINE Reads == \E read : SpendRead(s, read)
           Pays == Call(s) /\ (ServerDecide(s) \/ Decide(s))
<1>1. Reads \/ (mishaps' \in {mishaps, mishaps + 1} /\ slips' = slips)
           \/ (mishaps' = mishaps /\ slips' = [slips EXCEPT ![s] = @ + 1])
  BY DEF SessionStep, StartServer, ServerTop, ServerDecide, ServerAct, ServerFails, ServerEnds,
       RequestSession, ClaimSession, Observe, Reply, CommandTimesOut, AskDecide, StartDecide, Decide,
       Decided, DecideError, FinalizeSession, DriverError, DeviceGone, ghosts
<1>2. Pays \/ (spend' = spend /\ paid' = paid)
  BY DEF SessionStep, StartServer, ServerTop, ServerDecide, ServerAct, ServerFails, ServerEnds,
       RequestSession, ClaimSession, Observe, Reply, CommandTimesOut, AskDecide, StartDecide, Decide,
       Decided, DecideError, FinalizeSession, DriverError, DeviceGone, ghosts
<1>3. /\ mishaps' \in Nat /\ slips' \in [Sessions -> Nat] /\ slips'[s] \in {slips[s], slips[s] + 1}
      /\ \A t \in Sessions : t # s => slips'[t] = slips[t]
  <2>1. CASE Reads BY <2>1, SpendReadType
  <2>2. CASE mishaps' \in {mishaps, mishaps + 1} /\ slips' = slips BY <2>2 DEF ExploreTypeOK
  <2>3. CASE mishaps' = mishaps /\ slips' = [slips EXCEPT ![s] = @ + 1] BY <2>3 DEF ExploreTypeOK
  <2> QED BY <1>1, <2>1, <2>2, <2>3
<1>4. /\ spend' \in Nat /\ paid' \in [Sessions -> Nat] /\ spend <= spend'
      /\ \A t \in Sessions : t # s => paid'[t] = paid[t]
      /\ paid'[s] - paid[s] <= spend' - spend
      /\ paid'[s] = paid[s] \/ ServerDecide(s) \/ Decide(s)
  <2>1. CASE Pays
    <3>1. PICK cost \in 1 .. MaxCost :
            /\ spend' = spend + cost /\ paid'[s] = paid[s] + cost
            /\ spend' \in Nat /\ paid' \in [Sessions -> Nat]
            /\ \A t \in Sessions : t # s => paid'[t] = paid[t]
      BY <2>1, CallType
    <3>2. spend \in Nat /\ paid[s] \in Nat /\ cost \in Nat BY ExploreAssumption DEF ExploreTypeOK
    <3> QED BY <2>1, <3>1, <3>2
  <2>2. CASE spend' = spend /\ paid' = paid BY <2>2 DEF ExploreTypeOK
  <2> QED BY <1>2, <2>1, <2>2
<1> QED BY <1>3, <1>4 DEF Moved

LEMMA Sums ==
  ASSUME ExploreTypeOK, NEW s \in Sessions
  PROVE  spend \in Nat /\ paid[s] \in Nat /\ slips[s] \in Nat
BY DEF ExploreTypeOK

\* Who pays is neither idle nor on the server with a job or a place in the queue.
LEMMA Payers ==
  ASSUME ExploreTypeOK, JobOnDevice, NEW s \in Sessions
  PROVE  /\ ServerDecide(s) => loop[s] # NoCall /\ loop[s].at = "server" /\ job[s].is = "none"
         /\ Decide(s) => loop[s] # NoCall /\ loop[s].at = "device" /\ job[s].is = "running"
<1>1. CASE ServerDecide(s)
  <2>1. loop[s] # NoCall /\ loop[s].at = "server" BY <1>1 DEF ServerDecide, Is, NoCall
  <2>2. job[s] = NoDecide BY <2>1 DEF JobOnDevice
  <2> QED BY <1>1, <2>1, <2>2 DEF NoDecide, Decide
<1>2. CASE Decide(s)
  <2>1. job[s].is = "running" /\ job[s] # NoDecide BY <1>2 DEF Decide, NoDecide
  <2>2. loop[s] # NoCall /\ loop[s].at = "device" BY <2>1 DEF JobOnDevice
  <2> QED BY <2>1, <2>2 DEF ServerDecide, Is
<1> QED BY <1>1, <1>2

LEMMA SpentStep ==
  ASSUME ExploreTypeOK, Spent, Unpaid, JobOnDevice, NEW s \in Sessions, Moved(s), LoopKept(s)
  PROVE  Spent' /\ Unpaid'
<1>1. ASSUME NEW t \in Sessions PROVE paid'[t] <= spend'
  <2>1. spend \in Nat /\ paid[t] \in Nat /\ spend' \in Nat /\ paid'[t] \in Nat BY Sums DEF Moved
  <2>2. paid[t] <= spend BY DEF Spent
  <2>3. spend <= spend' /\ (paid'[t] = paid[t] \/ paid'[t] - paid[t] <= spend' - spend) BY DEF Moved
  <2> QED BY <2>1, <2>2, <2>3
<1>2. ASSUME NEW t \in Sessions, loop'[t] = NoCall PROVE paid'[t] = 0
  <2>1. loop[t] = NoCall BY <1>2 DEF LoopKept
  <2>2. paid[t] = 0 BY <2>1 DEF Unpaid
  <2>3. paid'[t] = paid[t] BY <2>1, Payers DEF Moved
  <2> QED BY <2>2, <2>3
<1> QED BY <1>1, <1>2 DEF Spent, Unpaid

LEMMA BudgetStep ==
  ASSUME ExploreTypeOK, Spent, JobBases, BudgetKept, NEW s \in Sessions, Moved(s)
  PROVE  BudgetKept'
<1>1. ASSUME NEW t \in Sessions PROVE paid[t] <= Cap(slips[t]) BY DEF BudgetKept, Cap
<1> SUFFICES ASSUME NEW t \in Sessions PROVE paid'[t] <= Cap(slips'[t])
  BY DEF BudgetKept, Cap
<1>2. CASE t # s BY <1>1, <1>2 DEF Moved
<1>3. CASE t = s
  <2>1. paid[s] \in Nat /\ slips[s] \in Nat /\ spend \in Nat /\ paid'[s] \in Nat BY Sums DEF Moved
  <2>2. /\ Cap(slips[s]) \in Int /\ Cap(slips[s] + 1) = Cap(slips[s]) + MaxCost
        /\ Budget - 1 + MaxCost <= Cap(slips[s]) /\ MaxCost \in Nat
    BY <2>1, CapStep
  <2>3. slips'[s] = slips[s] \/ slips'[s] = slips[s] + 1 BY DEF Moved
  <2>4. Cap(slips'[s]) = Cap(slips[s]) \/ Cap(slips'[s]) = Cap(slips[s]) + MaxCost BY <2>2, <2>3
  <2>5. CASE paid'[s] = paid[s] BY <1>1, <2>1, <2>2, <2>4, <2>5, <1>3
  <2>6. ASSUME Call(s), NEW read, SpendRead(s, read),
               read = spend => paid[s] <= Budget - 1 \/ paid[s] + MaxCost <= Cap(slips[s])
        PROVE  paid'[s] <= Cap(slips'[s])
    <3>1. PICK cost \in 1 .. MaxCost : paid'[s] = paid[s] + cost BY <2>6, CallType
    <3>2. cost \in Nat /\ cost <= MaxCost BY <2>2, <3>1
    <3>3. CASE read = spend /\ slips'[s] = slips[s]
      <4>1. Cap(slips'[s]) = Cap(slips[s]) BY <3>3
      <4>2. Budget \in Nat BY ExploreAssumption
      <4> QED BY <2>1, <2>2, <2>6, <3>1, <3>2, <3>3, <4>1, <4>2
    <3>4. CASE slips'[s] = slips[s] + 1
      <4>1. Cap(slips'[s]) = Cap(slips[s]) + MaxCost BY <2>2, <3>4
      <4> QED BY <1>1, <2>1, <2>2, <3>1, <3>2, <4>1
    <3> QED BY <2>6, <3>3, <3>4, SpendReadType
  <2>7. CASE ServerDecide(s) /\ paid'[s] # paid[s]
    <3>1. PICK read \in {0, spend} : SpendRead(s, read) /\ read < Budget /\ Call(s)
      BY <2>7 DEF ServerDecide
    <3>2. read = spend => paid[s] <= Budget - 1
      BY <2>1, <3>1, ExploreAssumption DEF Spent
    <3> QED BY <2>6, <3>1, <3>2, <1>3
  <2>8. CASE Decide(s) /\ paid'[s] # paid[s]
    <3>1. PICK read \in {0, spend} :
            SpendRead(s, read) /\ Larger(0, read - job[s].base) < Budget /\ Call(s)
      BY <2>8 DEF Decide
    <3>2. job[s].is = "running" BY <2>8 DEF Decide
    <3>3. job[s].base \in Nat BY <3>2, JobKinds
    <3>4. paid[s] <= spend - job[s].base \/ paid[s] + MaxCost <= Cap(slips[s])
      BY <3>2 DEF JobBases, Slack
    <3>5. read \in Int BY <2>1, <3>1
    <3>6. read - job[s].base < Budget BY <3>1, <3>3, <3>5, ExploreAssumption DEF Larger
    <3>7. read = spend => paid[s] <= Budget - 1 \/ paid[s] + MaxCost <= Cap(slips[s])
      BY <2>1, <3>3, <3>4, <3>6, ExploreAssumption
    <3> QED BY <2>6, <3>1, <3>7, <1>3
  <2> QED BY <1>3, <2>5, <2>7, <2>8 DEF Moved
<1> QED BY <1>2, <1>3

\* What a step does to the decide jobs.
LEMMA JobMoves ==
  ASSUME ExploreTypeOK, NEW s \in Sessions, SessionStep(s)
  PROVE  /\ \A t \in Sessions : t # s => job'[t] = job[t]
         /\ job' = job \/ AskDecide(s) \/ StartDecide(s) \/ Decide(s) \/ Decided(s)
<1>1. job' = job \/ AskDecide(s) \/ StartDecide(s) \/ Decide(s) \/ Decided(s)
  BY DEF SessionStep, StartServer, ServerTop, ServerDecide, ServerAct, ServerFails, ServerEnds,
       RequestSession, ClaimSession, Observe, Reply, CommandTimesOut, DecideError, FinalizeSession,
       DriverError, DeviceGone
<1>2. job' = job \/ \E j : job' = [job EXCEPT ![s] = j]
  BY <1>1 DEF AskDecide, StartDecide, Decide, Decided
<1>3. \A t \in Sessions : t # s => job'[t] = job[t] BY <1>2 DEF ExploreTypeOK
<1> QED BY <1>1, <1>3

LEMMA JobBasesStep ==
  ASSUME ExploreTypeOK, JobOnDevice, Spent, Baselines, JobBases, BudgetKept,
         NEW s \in Sessions, SessionStep(s), Moved(s)
  PROVE  JobBases'
<1> SUFFICES ASSUME NEW t \in Sessions
             PROVE  /\ job'[t].is = "asked" => job'[t].base <= spend'
                    /\ job'[t].is = "running" =>
                         paid'[t] <= spend' - job'[t].base \/ paid'[t] + MaxCost <= Cap(slips'[t])
  BY DEF JobBases, Slack, Cap
<1>1. /\ spend \in Nat /\ spend' \in Nat /\ paid[t] \in Nat /\ paid'[t] \in Nat /\ spend <= spend'
      /\ slips[t] \in Nat /\ MaxCost \in Nat /\ Cap(slips[t]) \in Int
  BY Sums, CapStep DEF Moved
<1>2. ASSUME job'[t] = job[t], paid'[t] = paid[t]
      PROVE  /\ job'[t].is = "asked" => job'[t].base <= spend'
             /\ job'[t].is = "running" =>
                  paid'[t] <= spend' - job'[t].base \/ paid'[t] + MaxCost <= Cap(slips'[t])
  <2>1. job[t].is \in {"asked", "running"} => job[t].base \in Nat BY JobKinds
  <2>2. Cap(slips[t]) <= Cap(slips'[t]) /\ Cap(slips'[t]) \in Int
    <3>1. slips'[t] = slips[t] \/ slips'[t] = slips[t] + 1 BY DEF Moved
    <3>2. Cap(slips[t]) <= Cap(slips[t] + 1) /\ Cap(slips[t] + 1) \in Int BY <1>1, CapStep
    <3> QED BY <1>1, <3>1, <3>2
  <2>3. /\ job[t].is = "asked" => job[t].base <= spend
        /\ job[t].is = "running" => paid[t] <= spend - job[t].base \/ paid[t] + MaxCost <= Cap(slips[t])
    BY DEF JobBases, Slack
  <2> QED BY <1>1, <1>2, <2>1, <2>2, <2>3
<1>3. CASE t # s BY <1>2, <1>3, JobMoves DEF Moved
<1>4. CASE t = s /\ job' = job
  <2>1. ASSUME Decide(s) PROVE FALSE
    <3>1. job[s].is = "running" BY <2>1 DEF Decide
    <3>2. job'[s].is = "done" BY <2>1 DEF Decide, ExploreTypeOK
    <3> QED BY <1>4, <3>1, <3>2
  <2>2. CASE paid'[s] = paid[s] BY <1>2, <1>4, <2>2
  <2>3. CASE ServerDecide(s)
    <3>1. job[s].is = "none" BY <2>3, Payers
    <3> QED BY <1>4, <3>1
  <2> QED BY <2>1, <2>2, <2>3 DEF Moved
<1>5. CASE t = s /\ job' # job /\ AskDecide(s)
  <2>1. PICK read \in {0, spend} : SpendRead(s, read) /\ job' = [job EXCEPT ![s] = [is |-> "asked", base |-> read]]
    BY <1>5 DEF AskDecide
  <2>2. job'[s].is = "asked" /\ job'[s].base = read BY <2>1 DEF ExploreTypeOK
  <2>3. read <= spend' BY <1>1, <2>1
  <2> QED BY <1>5, <2>2, <2>3
<1>6. CASE t = s /\ StartDecide(s)
  <2> DEFINE floor == EnsureBaseline(s, job[s].base)
  <2>1. job'[s] = [is |-> "running", base |-> floor] BY <1>6 DEF StartDecide, ExploreTypeOK
  <2>2. job'[s].is = "running" /\ job'[s].base = floor BY <2>1
  <2>3. paid' = paid /\ spend' = spend /\ job[s].is = "asked" BY <1>6 DEF StartDecide
  <2>4. job[s].base \in Nat /\ job[s].base <= spend BY <2>3, JobKinds DEF JobBases
  <2>5. CASE Tracked(s)
    <3>1. Place(s) \in DOMAIN pending /\ pending[Place(s)].id = s BY <2>5, Placed
    <3>2. pending[Place(s)].base \in Nat \cup {-1} BY <3>1, QueueTyped
    <3>3. EntryPays(pending[Place(s)]) BY <3>1 DEF Baselines
    <3>4. paid[s] <= spend - floor
      <4>1. CASE pending[Place(s)].base = -1
        <5>1. floor = job[s].base BY <4>1 DEF EnsureBaseline
        <5>2. paid[s] = 0 BY <3>1, <3>3, <4>1 DEF EntryPays
        <5> HIDE DEF floor
        <5> QED BY <1>1, <2>4, <5>1, <5>2
      <4>2. CASE pending[Place(s)].base # -1
        <5>1. floor = pending[Place(s)].base BY <2>5, <3>2, <4>2 DEF EnsureBaseline
        <5>2. paid[s] <= spend - pending[Place(s)].base BY <3>1, <3>3, <4>2 DEF EntryPays
        <5> HIDE DEF floor
        <5> QED BY <5>1, <5>2
      <4> QED BY <4>1, <4>2
    <3> HIDE DEF floor
    <3> QED BY <1>6, <2>2, <2>3, <3>4
  <2>6. CASE ~Tracked(s)
    <3>1. slips'[s] = slips[s] + 1 BY <1>6, <2>6 DEF StartDecide, ExploreTypeOK
    <3>2. Cap(slips'[s]) = Cap(slips[s]) + MaxCost BY <1>1, <1>6, <3>1, CapStep
    <3>3. paid[s] <= Cap(slips[s]) BY DEF BudgetKept, Cap
    <3>4. paid'[s] + MaxCost <= Cap(slips'[s]) BY <1>1, <1>6, <2>3, <3>2, <3>3
    <3> HIDE DEF floor
    <3> QED BY <1>6, <2>2, <3>4
  <2> QED BY <2>5, <2>6
<1>7. CASE t = s /\ (Decide(s) \/ Decided(s))
  <2>1. job'[s].is \in {"done", "none"} BY <1>7 DEF Decide, Decided, ExploreTypeOK, NoDecide
  <2> QED BY <1>7, <2>1
<1> QED BY <1>3, <1>4, <1>5, <1>6, <1>7, JobMoves

\* EntryPays after a step, of an entry taken before it or after it.
PaysAfter(e) ==
  IF e.base = -1 THEN paid'[e.id] = 0 /\ job'[e.id].is # "running" ELSE paid'[e.id] <= spend' - e.base

\* An entry with the id and the baseline of an old one.
LEMMA EntryStays ==
  ASSUME ExploreTypeOK, JobOnDevice, NEW s \in Sessions, SessionStep(s), Moved(s),
         NEW e, NEW f, e \in QueueEntries, EntryPays(e), f.id = e.id, f.base = e.base,
         e.id = s => ~StartDecide(s) /\ (loop[s] = NoCall \/ loop[s].at = "device")
  PROVE  PaysAfter(f)
<1>1. e.id \in Sessions /\ e.base \in Nat \cup {-1} BY DEF QueueEntries
<1>2. /\ spend \in Nat /\ spend' \in Nat /\ paid[e.id] \in Nat /\ paid'[e.id] \in Nat
      /\ spend <= spend' /\ (e.id # s \/ paid'[e.id] - paid[e.id] <= spend' - spend)
      /\ e.id # s => paid'[e.id] = paid[e.id]
  BY <1>1, Sums DEF Moved
<1>3. CASE e.base # -1
  <2>1. paid[e.id] <= spend - e.base BY <1>3 DEF EntryPays
  <2>2. paid'[e.id] <= spend' - e.base BY <1>1, <1>2, <1>3, <2>1
  <2> QED BY <1>3, <2>2 DEF PaysAfter
<1>4. CASE e.base = -1
  <2>1. paid[e.id] = 0 /\ job[e.id].is # "running" BY <1>4 DEF EntryPays
  <2>2. CASE e.id # s
    <3>1. job'[e.id] = job[e.id] BY <1>1, <2>2, JobMoves
    <3> QED BY <1>2, <1>4, <2>1, <2>2, <3>1 DEF PaysAfter
  <2>3. CASE e.id = s
    <3>1. ~ServerDecide(s) /\ ~Decide(s) BY <2>1, <2>3, Payers
    <3>2. paid'[s] = 0 BY <2>1, <2>3, <3>1 DEF Moved
    <3>3. job' = job \/ AskDecide(s) \/ Decided(s) BY <2>3, <3>1, JobMoves
    <3>4. job'[s].is # "running"
      <4>1. CASE job' = job BY <2>1, <2>3, <4>1
      <4>2. CASE job' # job /\ AskDecide(s)
        <5>1. \E read : job' = [job EXCEPT ![s] = [is |-> "asked", base |-> read]]
          BY <4>2 DEF AskDecide
        <5>2. job'[s].is = "asked" BY <5>1 DEF ExploreTypeOK
        <5> QED BY <5>2
      <4>3. CASE Decided(s)
        <5>1. job'[s].is = "none" BY <4>3 DEF Decided, ExploreTypeOK, NoDecide
        <5> QED BY <5>1
      <4> QED BY <3>3, <4>1, <4>2, <4>3
    <3> QED BY <1>4, <2>3, <3>2, <3>4 DEF PaysAfter
  <2> QED BY <2>2, <2>3
<1> QED BY <1>3, <1>4

LEMMA BaselinesStep ==
  ASSUME ExploreTypeOK, PendingOnce, JobOnDevice, Unpaid, Spent, Baselines, JobBases,
         NEW s \in Sessions, SessionStep(s), LoopKept(s), Moved(s), pending' \in Seq(QueueEntries)
  PROVE  Baselines'
<1>1. ASSUME NEW i \in DOMAIN pending PROVE pending[i] \in QueueEntries /\ EntryPays(pending[i])
  BY <1>1, QueueTyped DEF Baselines
<1>2. ASSUME NEW i \in DOMAIN pending, pending[i].id = s
      PROVE  loop[s] = NoCall \/ loop[s].at = "device"
  BY <1>2 DEF PendingOnce
<1>3. ASSUME NEW j \in DOMAIN pending' PROVE pending'[j] \in QueueEntries
  BY <1>3
\* Every entry but one that is asked for, or that takes its baseline, was there.
<1>4. ASSUME NEW j \in DOMAIN pending', NEW i \in DOMAIN pending,
             pending'[j].id = pending[i].id, pending'[j].base = pending[i].base,
             pending[i].id = s => ~StartDecide(s)
      PROVE  PaysAfter(pending'[j])
  BY <1>1, <1>2, <1>4, EntryStays
<1>5. ASSUME \A j \in DOMAIN pending' : PaysAfter(pending'[j]) PROVE Baselines'
  BY <1>5 DEF Baselines, EntryPays, PaysAfter
<1>6. CASE RequestSession(s)
  <2> DEFINE e == [id |-> s, status |-> "queued", base |-> -1]
  <2>1. pending' = Append(pending, e) /\ loop[s] = NoCall /\ paid' = paid /\ job' = job /\ ~StartDecide(s)
    BY <1>6, JobKinds DEF RequestSession, ghosts, StartDecide, JobOnDevice, NoDecide
  <2>2. PaysAfter(e)
    <3>1. job[s].is = "none" BY <2>1, JobKinds DEF JobOnDevice
    <3> QED BY <2>1, <3>1 DEF PaysAfter, Unpaid
  <2>3. pending \in Seq(QueueEntries) /\ e \in QueueEntries BY DEF ExploreTypeOK, QueueEntries
  <2> HIDE DEF e
  <2>4. /\ Len(pending') = Len(pending) + 1 /\ pending'[Len(pending) + 1] = e
        /\ \A i \in 1 .. Len(pending) : pending'[i] = pending[i]
    BY <2>1, <2>3, AppendProperties
  <2>5. /\ DOMAIN pending = 1 .. Len(pending) /\ DOMAIN pending' = 1 .. Len(pending) + 1
        /\ Len(pending) \in Nat
    BY <2>3, <2>4
  <2>6. ASSUME NEW j \in DOMAIN pending' PROVE PaysAfter(pending'[j])
    <3>1. CASE j \in DOMAIN pending BY <1>4, <2>1, <2>4, <2>5, <3>1
    <3>2. CASE j = Len(pending) + 1 BY <2>2, <2>4, <3>2
    <3> QED BY <2>5, <3>1, <3>2
  <2> QED BY <1>5, <2>6
<1>7. CASE ClaimSession(s)
  <2>1. PICK i \in DOMAIN pending : pending' = [pending EXCEPT ![i].status = "running"] /\ pending[i].id = s
    BY <1>7 DEF ClaimSession
  <2>2. loop[s] = NoCall /\ ~StartDecide(s)
    <3>1. loop[s] = NoCall BY <1>7 DEF ClaimSession, PendingOnce
    <3> QED BY <3>1 DEF StartDecide, JobOnDevice, NoDecide
  <2>3. DOMAIN pending' = DOMAIN pending BY <2>1
  <2>4. ASSUME NEW j \in DOMAIN pending'
        PROVE  pending'[j].id = pending[j].id /\ pending'[j].base = pending[j].base
    <3>1. pending[j] \in QueueEntries BY <1>1, <2>3
    <3> QED BY <2>1, <2>3, <3>1 DEF QueueEntries
  <2>5. \A j \in DOMAIN pending' : PaysAfter(pending'[j]) BY <1>4, <2>2, <2>3, <2>4
  <2> QED BY <1>5, <2>5
<1>8. CASE StartDecide(s)
  <2>1. CASE ~Tracked(s)
    <3>1. pending' = pending BY <1>8, <2>1 DEF StartDecide
    <3>2. \A j \in DOMAIN pending' : PaysAfter(pending'[j]) BY <1>4, <2>1, <3>1 DEF Tracked
    <3> QED BY <1>5, <3>2
  <2>2. CASE Tracked(s)
    <3> DEFINE i == Place(s)
               floor == EnsureBaseline(s, job[s].base)
    <3>1. i \in DOMAIN pending /\ pending[i].id = s BY <2>2, Placed
    <3>2. pending' = [pending EXCEPT ![i].base = floor] /\ job'[s] = [is |-> "running", base |-> floor]
      BY <1>8, <2>2 DEF StartDecide, ExploreTypeOK
    <3>3. paid' = paid /\ spend' = spend /\ job[s].is = "asked" BY <1>8 DEF StartDecide
    <3>4. job[s].base \in Nat /\ job[s].base <= spend BY <3>3, JobKinds DEF JobBases
    <3>5. pending[i] \in QueueEntries /\ pending[i].base \in Nat \cup {-1} /\ EntryPays(pending[i])
      BY <1>1, <3>1, QueueTyped
    <3>6. floor = IF pending[i].base >= 0 THEN pending[i].base ELSE job[s].base
      BY <2>2 DEF EnsureBaseline
    <3> HIDE DEF i, floor
    <3>7. floor \in Nat /\ paid[s] <= spend - floor
      <4>1. spend \in Nat /\ paid[s] \in Nat BY Sums
      <4>2. CASE pending[i].base = -1
        <5>1. floor = job[s].base BY <3>6, <4>2
        <5>2. paid[s] = 0 BY <3>1, <3>5, <4>2 DEF EntryPays
        <5> QED BY <3>4, <4>1, <5>1, <5>2
      <4>3. CASE pending[i].base # -1
        <5>1. floor = pending[i].base /\ floor \in Nat BY <3>5, <3>6, <4>3
        <5> QED BY <3>1, <3>5, <4>3, <5>1 DEF EntryPays
      <4> QED BY <4>2, <4>3
    <3>8. DOMAIN pending' = DOMAIN pending /\ pending'[i].id = s /\ pending'[i].base = floor
      BY <3>1, <3>2, <3>5 DEF QueueEntries
    <3>9. PaysAfter(pending'[i]) BY <3>3, <3>7, <3>8 DEF PaysAfter
    <3>10. ASSUME NEW j \in DOMAIN pending', j # i PROVE PaysAfter(pending'[j])
      <4>1. pending'[j] = pending[j] BY <3>2, <3>8, <3>10
      <4>2. pending[j].id # s BY <3>1, <3>8, <3>10 DEF PendingOnce
      <4> QED BY <1>4, <3>8, <4>1, <4>2
    <3> QED BY <1>5, <3>9, <3>10
  <2> QED BY <2>1, <2>2
<1>9. CASE FinalizeSession(s) /\ ~StartDecide(s)
  <2>2. CASE pending' = pending
    <3>1. \A j \in DOMAIN pending' : PaysAfter(pending'[j])
      BY <1>4, <1>9, <2>2
    <3> QED BY <1>5, <3>1
  <2>3. CASE Tracked(s) /\ pending' = Without(s)
    <3> DEFINE i == Place(s)
    <3>1. i \in DOMAIN pending /\ pending[i].id = s BY <2>3, Placed
    <3>2. pending \in Seq(QueueEntries) /\ DOMAIN pending = 1 .. Len(pending) /\ Len(pending) \in Nat
      BY QueueTyped DEF ExploreTypeOK
    <3>3. pending' = RemoveAt(pending, i) BY <2>3 DEF Without
    <3> HIDE DEF i
    <3>4. /\ Len(pending') = Len(pending) - 1
          /\ \A k \in 1 .. Len(pending) - 1 : pending'[k] = pending[IF k < i THEN k ELSE k + 1]
      BY <3>1, <3>2, <3>3, Removed
    <3>5. DOMAIN pending' = 1 .. Len(pending) - 1 BY <3>4
    <3>6. ASSUME NEW j \in DOMAIN pending' PROVE PaysAfter(pending'[j])
      <4> DEFINE k == IF j < i THEN j ELSE j + 1
      <4>1. k \in DOMAIN pending /\ k # i /\ pending'[j] = pending[k] BY <3>1, <3>2, <3>4, <3>5
      <4> HIDE DEF k
      <4>2. pending[k].id # s BY <3>1, <4>1 DEF PendingOnce
      <4> QED BY <1>4, <4>1, <4>2
    <3> QED BY <1>5, <3>6
  <2> QED BY <1>9, <2>2, <2>3 DEF FinalizeSession
<1>10. CASE ~(RequestSession(s) \/ ClaimSession(s) \/ StartDecide(s) \/ FinalizeSession(s))
  <2>1. pending' = pending
    BY <1>10 DEF SessionStep, StartServer, ServerTop, ServerDecide, ServerAct, ServerFails, ServerEnds,
         Observe, Reply, CommandTimesOut, AskDecide, Decide, Decided, DecideError, DriverError, DeviceGone
  <2>2. \A j \in DOMAIN pending' : PaysAfter(pending'[j]) BY <1>4, <1>10, <2>1
  <2> QED BY <1>5, <2>2
<1> QED BY <1>6, <1>7, <1>8, <1>9, <1>10

-----------------------------------------------------------------------------
(* The invariant.                                                        *)

ExploreInv ==
  /\ ExploreTypeOK /\ Sound /\ PendingOnce /\ JobOnDevice
  /\ WireMatches /\ FoundWorked /\ VerifiedWorked
  /\ Unpaid /\ Spent /\ Baselines /\ JobBases /\ BudgetKept

LEMMA ExploreStarts == ExploreInit => ExploreInv
<1> SUFFICES ASSUME ExploreInit PROVE ExploreInv OBVIOUS
<1>1. /\ pending = <<>> /\ exploring = NoSession /\ kb = {} /\ mishaps = 0 /\ tardy = {} /\ spend \in 0 .. MaxSpend
      /\ loop = [s \in Sessions |-> NoCall] /\ job = [s \in Sessions |-> NoDecide]
      /\ wire = [s \in Sessions |-> <<>>] /\ worked = [s \in Sessions |-> {}]
      /\ paid = [s \in Sessions |-> 0] /\ slips = [s \in Sessions |-> 0]
  BY DEF ExploreInit
<1>2. DOMAIN pending = {} /\ pending \in Seq(QueueEntries) /\ spend \in Nat BY <1>1
<1>3. ExploreTypeOK BY <1>1, <1>2 DEF ExploreTypeOK
<1>4. Sound /\ WireMatches /\ FoundWorked /\ VerifiedWorked
  <2>1. \A s \in Sessions : loop[s].pc = "none" /\ loop[s] = NoCall BY <1>1 DEF NoCall
  <2> QED BY <1>1, <2>1 DEF Sound, LoopOK, WireMatches, Waits, FoundWorked, VerifiedWorked
<1>5. PendingOnce /\ Baselines BY <1>2 DEF PendingOnce, Baselines
<1>6. JobOnDevice /\ JobBases /\ Unpaid /\ Spent
  <2>1. \A s \in Sessions : job[s].is = "none" /\ job[s] = NoDecide BY <1>1 DEF NoDecide
  <2> QED BY <1>1, <1>2, <2>1 DEF JobOnDevice, JobBases, Unpaid, Spent
<1>7. BudgetKept
  <2> SUFFICES ASSUME NEW s \in Sessions PROVE paid[s] <= Cap(slips[s]) BY DEF BudgetKept, Cap
  <2>1. paid[s] = 0 /\ slips[s] = 0 BY <1>1
  <2>2. Budget - 1 + MaxCost <= Cap(0) /\ Cap(0) \in Int BY CapStep
  <2> QED BY <2>1, <2>2, ExploreAssumption
<1> QED BY <1>3, <1>4, <1>5, <1>6, <1>7 DEF ExploreInv

LEMMA SessionStepKeeps ==
  ASSUME ExploreInv, NEW s \in Sessions, SessionStep(s)
  PROVE  ExploreInv'
<1> USE DEF ExploreInv
<1>1. LoopKept(s) BY SessionLoops
<1>2. Moved(s) BY MovedOne
<1>3. pending' \in Seq(QueueEntries) /\ PendingOnce' BY <1>1, QueueStep
<1>4. JobsTyped' /\ JobOnDevice' BY <1>1, JobPasses
<1>5. WireTyped' /\ WireMatches' BY <1>1, WireTypeStep, WireStep
<1>6. FoundWorked' BY <1>1, FoundStep
<1>7. kb' \subseteq Facts /\ VerifiedWorked' BY MergeStep
<1>8. worked' \in [Sessions -> SUBSET Facts] BY WorkedGrows
<1>9. tardy' \subseteq Sessions BY TardyGrows DEF ExploreTypeOK
<1>10. exploring' \in Sessions \cup {NoSession}
  BY DEF ExploreTypeOK, SessionStep, StartServer, ServerTop, ServerDecide, ServerAct, ServerFails,
       ServerEnds, RequestSession, ClaimSession, Observe, Reply, CommandTimesOut, AskDecide, StartDecide,
       Decide, Decided, DecideError, FinalizeSession, DriverError, DeviceGone
<1>11. LoopsHeld' BY <1>1 DEF LoopKept
<1>12. ExploreTypeOK'
  BY <1>2, <1>3, <1>4, <1>5, <1>7, <1>8, <1>9, <1>10, <1>11
     DEF ExploreTypeOK, LoopsHeld, JobsTyped, WireTyped, Moved
<1>13. Spent' /\ Unpaid' BY <1>1, <1>2, SpentStep
<1>14. BudgetKept' BY <1>2, BudgetStep
<1>15. JobBases' BY <1>2, JobBasesStep
<1>16. Baselines' BY <1>1, <1>2, <1>3, BaselinesStep
<1> QED BY <1>3, <1>4, <1>5, <1>6, <1>7, <1>11, <1>12, <1>13, <1>14, <1>15, <1>16 DEF LoopsHeld

LEMMA PurgeKeeps ==
  ASSUME ExploreInv, Purge
  PROVE  ExploreInv'
<1> USE DEF ExploreInv
<1>1. /\ pending' = <<>> /\ UNCHANGED <<loop, job, wire, exploring, spend, kb, mishaps, paid, slips, worked, tardy>>
  BY DEF Purge, ghosts
<1>2. pending' \in Seq(QueueEntries) /\ DOMAIN pending' = {} BY <1>1
<1>3. PendingOnce' /\ Baselines' BY <1>2 DEF PendingOnce, Baselines
<1>4. ExploreTypeOK' BY <1>1, <1>2 DEF ExploreTypeOK
<1>5. Sound' /\ JobOnDevice' /\ WireMatches' /\ FoundWorked' /\ VerifiedWorked'
  BY <1>1 DEF Sound, LoopOK, JobOnDevice, WireMatches, Waits, FoundWorked, VerifiedWorked
<1>6. Unpaid' /\ Spent' /\ JobBases' /\ BudgetKept'
  BY <1>1 DEF Unpaid, Spent, JobBases, Slack, Cap, BudgetKept
<1> QED BY <1>3, <1>4, <1>5, <1>6

LEMMA RestartKeeps ==
  ASSUME ExploreInv, ExploreRestart
  PROVE  ExploreInv'
<1> USE DEF ExploreInv
<1>1. /\ pending' = <<>> /\ exploring' = NoSession /\ job' = [s \in Sessions |-> NoDecide]
      /\ UNCHANGED <<wire, spend, kb, mishaps, paid, slips, worked, tardy>>
  BY DEF ExploreRestart, ghosts
<1>2. pending' \in Seq(QueueEntries) /\ DOMAIN pending' = {} BY <1>1
<1>3. PendingOnce' /\ Baselines' BY <1>2 DEF PendingOnce, Baselines
<1>4. ASSUME NEW s \in Sessions
      PROVE  /\ loop'[s] \in Loops \cup {NoCall} /\ LoopOK(loop'[s]) /\ Waits(loop'[s]) = Waits(loop[s])
             /\ loop'[s] = NoCall => loop[s] = NoCall
             /\ loop'[s] # NoCall => loop[s] # NoCall /\ loop'[s].found = loop[s].found
  <2>1. CASE loop[s].pc # "none" /\ loop[s].at = "server"
    <3>1. loop'[s] = [loop[s] EXCEPT !.pc = "over"] BY <2>1 DEF ExploreRestart
    <3>2. loop[s] # NoCall /\ loop[s] \in Loops /\ LoopOK(loop[s]) BY <2>1, LoopKinds DEF Sound
    <3>3. loop'[s] \in Loops /\ loop'[s].pc = "over" /\ loop'[s].found = loop[s].found
      BY <3>1, <3>2 DEF Loops, LoopSteps
    <3>4. loop[s].pc \notin {"observe", "acting"} BY <2>1, <3>2 DEF LoopOK
    <3>5. LoopOK(loop'[s]) BY <3>3 DEF LoopOK
    <3>6. Waits(loop'[s]) = Waits(loop[s]) BY <3>3, <3>4 DEF Waits
    <3>7. loop'[s] # NoCall BY <3>3 DEF NoCall
    <3> QED BY <3>2, <3>3, <3>5, <3>6, <3>7
  <2>2. CASE ~(loop[s].pc # "none" /\ loop[s].at = "server")
    <3>1. loop'[s] = loop[s] BY <2>2 DEF ExploreRestart
    <3>2. loop[s] \in Loops \cup {NoCall} /\ LoopOK(loop[s]) BY DEF ExploreTypeOK, Sound
    <3> QED BY <3>1, <3>2
  <2> QED BY <2>1, <2>2
<1>5. loop' \in [Sessions -> Loops \cup {NoCall}]
  <2>1. loop' = [s \in Sessions |-> loop'[s]] BY DEF ExploreRestart
  <2> QED BY <1>4, <2>1
<1>6. ExploreTypeOK' BY <1>1, <1>2, <1>5 DEF ExploreTypeOK
<1>7. Sound' BY <1>4 DEF Sound, LoopOK
<1>8. WireMatches' BY <1>1, <1>4 DEF WireMatches, Waits
<1>9. FoundWorked' /\ VerifiedWorked' BY <1>1, <1>4 DEF FoundWorked, VerifiedWorked
<1>10. \A s \in Sessions : job'[s] = NoDecide /\ job'[s].is = "none" BY <1>1 DEF NoDecide
<1>11. JobOnDevice' /\ JobBases' BY <1>10 DEF JobOnDevice, JobBases
<1>12. Unpaid' /\ Spent' /\ BudgetKept' BY <1>1, <1>4 DEF Unpaid, Spent, BudgetKept
<1> QED BY <1>3, <1>6, <1>7, <1>8, <1>9, <1>11, <1>12

LEMMA RunSpendsKeeps ==
  ASSUME ExploreInv, RunSpends
  PROVE  ExploreInv'
<1> USE DEF ExploreInv
<1>1. spend' = spend + 1 /\ UNCHANGED <<pending, loop, job, wire, exploring, kb, mishaps, paid, slips, worked, tardy>>
  BY DEF RunSpends, ghosts
<1>2. spend \in Nat /\ spend' \in Nat BY <1>1 DEF ExploreTypeOK
<1>3. ExploreTypeOK' BY <1>1, <1>2 DEF ExploreTypeOK
<1>4. Sound' /\ PendingOnce' /\ JobOnDevice' /\ WireMatches' /\ FoundWorked' /\ VerifiedWorked'
  BY <1>1 DEF Sound, LoopOK, PendingOnce, JobOnDevice, WireMatches, Waits, FoundWorked, VerifiedWorked
<1>5. Unpaid' /\ BudgetKept' BY <1>1 DEF Unpaid, BudgetKept
<1>6. ASSUME NEW s \in Sessions PROVE paid'[s] <= spend'
  <2>1. paid[s] <= spend /\ paid[s] \in Nat BY Sums DEF Spent
  <2> QED BY <1>1, <1>2, <2>1
<1>7. ASSUME NEW i \in DOMAIN pending PROVE PaysAfter(pending[i])
  <2>1. EntryPays(pending[i]) /\ pending[i].id \in Sessions /\ pending[i].base \in Nat \cup {-1}
    BY QueueTyped DEF Baselines
  <2>2. paid[pending[i].id] \in Nat BY <2>1, Sums
  <2> QED BY <1>1, <1>2, <2>1, <2>2 DEF EntryPays, PaysAfter
<1>8. Baselines'
  <2>1. \A i \in DOMAIN pending' : PaysAfter(pending'[i]) BY <1>1, <1>7
  <2> QED BY <2>1 DEF Baselines, EntryPays, PaysAfter
<1>9. ASSUME NEW s \in Sessions
      PROVE  /\ job'[s].is = "asked" => job'[s].base <= spend'
             /\ job'[s].is = "running" =>
                  paid'[s] <= spend' - job'[s].base \/ paid'[s] + MaxCost <= Cap(slips'[s])
  <2>1. job[s].is \in {"asked", "running"} => job[s].base \in Nat BY JobKinds
  <2>2. /\ job[s].is = "asked" => job[s].base <= spend
        /\ job[s].is = "running" => paid[s] <= spend - job[s].base \/ paid[s] + MaxCost <= Cap(slips[s])
    BY DEF JobBases, Slack
  <2>3. paid[s] \in Nat BY Sums
  <2> QED BY <1>1, <1>2, <2>1, <2>2, <2>3
<1>10. JobBases' BY <1>9 DEF JobBases, Slack, Cap
<1>11. Spent' BY <1>6 DEF Spent
<1> QED BY <1>3, <1>4, <1>5, <1>8, <1>10, <1>11

LEMMA ExploreInductive == ExploreInv /\ [ExploreNext]_exploreVars => ExploreInv'
<1> SUFFICES ASSUME ExploreInv, [ExploreNext]_exploreVars PROVE ExploreInv' OBVIOUS
<1>1. CASE \E s \in Sessions : SessionStep(s) BY <1>1, SessionStepKeeps
<1>2. CASE Purge BY <1>2, PurgeKeeps
<1>3. CASE ExploreRestart BY <1>3, RestartKeeps
<1>4. CASE RunSpends BY <1>4, RunSpendsKeeps
<1>5. CASE UNCHANGED exploreVars
  <2> USE DEF ExploreInv, exploreVars
  <2>1. ExploreTypeOK' BY <1>5 DEF ExploreTypeOK
  <2>2. Sound' /\ PendingOnce' /\ JobOnDevice' /\ WireMatches' /\ FoundWorked' /\ VerifiedWorked'
    BY <1>5 DEF Sound, LoopOK, PendingOnce, JobOnDevice, WireMatches, Waits, FoundWorked, VerifiedWorked
  <2>3. Unpaid' /\ Spent' /\ Baselines' /\ JobBases' /\ BudgetKept'
    BY <1>5 DEF Unpaid, Spent, Baselines, EntryPays, JobBases, Slack, Cap, BudgetKept
  <2> QED BY <2>1, <2>2, <2>3
<1> QED BY <1>1, <1>2, <1>3, <1>4, <1>5 DEF ExploreNext

THEOREM ExploreHeld == ExploreSpec => []ExploreInv
BY ExploreStarts, ExploreInductive, PTL DEF ExploreSpec

\* Every variable keeps its shape and no session makes more steps than the
\* cap: the loops of exploration_agent.py and runner.ts.
THEOREM ExploreTyping == ExploreSpec => []ExploreTypeOK
<1>1. ExploreInv => ExploreTypeOK BY DEF ExploreInv
<1> QED BY <1>1, ExploreHeld, PTL

\* A session pays for at most one decide call past its budget, whatever else
\* the run spends and however its sessions are stopped or restarted
\* (decide_next_action, ensure_baseline, _session_spend).
THEOREM SessionWithinBudget == ExploreSpec => []BudgetKept
<1>1. ExploreInv => BudgetKept BY DEF ExploreInv
<1> QED BY <1>1, ExploreHeld, PTL

\* What is merged as runtime-verified some session saw work, unless a command
\* of a device timed out (merge_verified_discovery, runner.ts's act).
THEOREM MergedWasSeen == ExploreSpec => []VerifiedWorked
<1>1. ExploreInv => VerifiedWorked BY DEF ExploreInv
<1> QED BY <1>1, ExploreHeld, PTL

(* --------------------------- Signing in -------------------------------- *)
SessionRow == [user : Users, state : {"live", "revoked", "gone"}, generation : Nat, local : BOOLEAN]
CookieShape == [sid : Nat, generation : Nat] \cup {NoCookie}

TabShape ==
  [status : {"idle", "loading", "authed", "anon"}, user : Users \cup {NoUser}, sid : Nat, fresh : BOOLEAN]
LadderShape ==
  [at : {"none", "sent", "checked", "rotated", "refused", "hub"}, cookie : CookieShape, sid : Nat,
   for : SUBSET {"boot", "call"}]
AskingShape ==
  [at : {"none", "asked", "minted", "vouched"}, user : Users \cup {NoUser}, sid : Nat,
   for : SUBSET {"focus", "arrive", "ladder"}]

TabsTyped == tabs \in [Tabs -> TabShape]
LaddersTyped ==
  /\ ladder \in [Tabs -> LadderShape]
  /\ \A t \in Tabs : ladder[t].at \in {"checked", "rotated"} => ladder[t].sid \in DOMAIN rows
AskingTyped ==
  /\ asking \in [Tabs -> AskingShape]
  /\ \A t \in Tabs : asking[t].at \in {"minted", "vouched"} => asking[t].user \in Users
ServerTyped ==
  /\ rows \in Seq(SessionRow)
  /\ jar \in CookieShape
  /\ accounts \in [Users -> [role : {"admin", "member"}, state : {"active", "inactive", "gone"}]]
  /\ hub \in Users \cup {NoUser}
SignShape == TabsTyped /\ LaddersTyped /\ AskingTyped /\ ServerTyped

\* Who waits for what: the ladder a loading page waits for is its own, and the
\* renewal that ladder waits for is asked for by nobody else.
AwaitsOwn(t) ==
  /\ ladder[t].at = "none" => ladder[t].for = {}
  /\ asking[t].at = "none" => asking[t].for = {}
  /\ ladder[t].at = "hub" <=> "ladder" \in asking[t].for
  /\ "boot" \in ladder[t].for => tabs[t].status = "loading"
  /\ tabs[t].status = "idle" => ladder[t].at = "none" /\ asking[t].at = "none"
  /\ tabs[t].status = "loading" /\ asking[t].at # "none" => asking[t].for = {"ladder"}
SignInv == SignShape /\ \A t \in Tabs : AwaitsOwn(t)

LEMMA SignStart == SignInit => SignInv
  BY DEF SignInit, SignInv, SignShape, TabsTyped, LaddersTyped, AskingTyped, ServerTyped, AwaitsOwn,
         TabShape, LadderShape, AskingShape, NewTab, NoLadder, NoAsking, SessionRow, CookieShape

\* What only the waiting of one tab may change.
TabStep(t) ==
  /\ \A u \in Tabs \ {t} : tabs'[u] = tabs[u] /\ ladder'[u] = ladder[u] /\ asking'[u] = asking[u]

LEMMA WaitsElsewhere ==
  ASSUME SignInv, NEW t \in Tabs, TabStep(t), AwaitsOwn(t)'
  PROVE  \A u \in Tabs : AwaitsOwn(u)'
<1> SUFFICES ASSUME NEW u \in Tabs, u # t PROVE AwaitsOwn(u)'
  BY DEF TabStep
<1>1. AwaitsOwn(u) BY DEF SignInv
<1>2. tabs'[u] = tabs[u] /\ ladder'[u] = ladder[u] /\ asking'[u] = asking[u]
  BY DEF TabStep
<1> QED BY <1>1, <1>2 DEF AwaitsOwn

LEMMA RevokedTyped ==
  ASSUME rows \in Seq(SessionRow), NEW sids
  PROVE  Revoked(sids) \in Seq(SessionRow) /\ DOMAIN Revoked(sids) = DOMAIN rows
<1>1. DOMAIN rows = 1 .. Len(rows) /\ Len(rows) \in Nat
  OBVIOUS
<1>2. ASSUME NEW s \in DOMAIN rows
      PROVE  Revoked(sids)[s] \in SessionRow
  <2>1. rows[s] \in SessionRow BY <1>1
  <2>2. [rows[s] EXCEPT !.state = "revoked"] \in SessionRow BY <2>1 DEF SessionRow
  <2> QED BY <2>1, <2>2 DEF Revoked
<1>3. Revoked(sids) \in [1 .. Len(rows) -> SessionRow]
  BY <1>1, <1>2 DEF Revoked
<1> QED BY <1>1, <1>3, SeqDef

LEMMA ConcludesTyped ==
  ASSUME SignShape, NEW t \in Tabs, NEW tab, NEW outcome,
         tab \in TabShape,
         Concludes(t, tab, outcome)
  PROVE  /\ TabsTyped'
         /\ ladder' \in [Tabs -> LadderShape]
         /\ \A u \in Tabs : ladder'[u].at \in {"checked", "rotated"} => ladder'[u] = ladder[u]
         /\ AskingTyped'
  BY DEF SignShape, TabsTyped, LaddersTyped, AskingTyped, Concludes, AfterLadder, NoLadder, NoAsking, CookieShape,
         TabShape, LadderShape, AskingShape

LEMMA ConcludesWaits ==
  ASSUME SignInv, NEW t \in Tabs, NEW tab, NEW outcome,
         tab \in TabShape,
         tab = tabs[t] \/ tab.status = "authed",
         asking[t].at # "none",
         Concludes(t, tab, outcome)
  PROVE  TabStep(t) /\ AwaitsOwn(t)'
<1>1. AwaitsOwn(t) BY DEF SignInv
<1>2. SignShape BY DEF SignInv
<1> QED BY <1>1, <1>2 DEF SignShape, TabsTyped, LaddersTyped, AskingTyped, Concludes, AfterLadder, NoLadder, NoAsking, AwaitsOwn, TabStep,
             TabShape, LadderShape, AskingShape

\* The steps of one tab.
TabActs(t) ==
  \/ LogOut(t) \/ Boot(t) \/ Reload(t) \/ RefusedCall(t) \/ RefreshChecks(t) \/ RefreshRotates(t)
  \/ RefreshAnswers(t) \/ RefreshRefused(t) \/ RefreshUnanswered(t) \/ Focus(t) \/ ArriveAtHub(t)
  \/ HubAnswers(t) \/ SsoComplete(t) \/ SsoInstalls(t) \/ HubUnanswered(t) \/ Age(t)

LEMMA TabActsShape ==
  ASSUME SignAssumption, SignShape, NEW t \in Tabs, TabActs(t)
  PROVE  SignShape'
<1>0. /\ tabs[t] \in TabShape /\ ladder[t] \in LadderShape /\ asking[t] \in AskingShape
      /\ tabs \in [Tabs -> TabShape] /\ ladder \in [Tabs -> LadderShape] /\ asking \in [Tabs -> AskingShape]
  BY DEF SignShape, TabsTyped, LaddersTyped, AskingTyped
<1>a. ASSUME NEW x \in TabShape PROVE [tabs EXCEPT ![t] = x] \in [Tabs -> TabShape]
  BY <1>0
<1>b. ASSUME NEW x \in LadderShape, x.at \in {"checked", "rotated"} => x.sid \in DOMAIN rows',
             DOMAIN rows \subseteq DOMAIN rows', ladder' = [ladder EXCEPT ![t] = x]
      PROVE  LaddersTyped'
  BY <1>0, <1>b DEF SignShape, LaddersTyped
<1>c. ASSUME NEW x \in AskingShape, x.at \in {"minted", "vouched"} => x.user \in Users,
             asking' = [asking EXCEPT ![t] = x]
      PROVE  AskingTyped'
  BY <1>0, <1>c DEF SignShape, AskingTyped
<1>d. ASSUME UNCHANGED <<ladder, rows>> PROVE LaddersTyped'
  BY <1>d DEF SignShape, LaddersTyped
<1>e. ASSUME UNCHANGED asking PROVE AskingTyped'
  BY <1>e DEF SignShape, AskingTyped
<1>f. ASSUME UNCHANGED <<rows, jar, accounts, hub>> PROVE ServerTyped'
  BY <1>f DEF SignShape, ServerTyped
<1>g. ASSUME UNCHANGED tabs PROVE TabsTyped'
  BY <1>g DEF SignShape, TabsTyped
<1>1. CASE LogOut(t)
  <2>1. Cleared(t) \in TabShape BY <1>0 DEF Cleared, TabShape
  <2>2. TabsTyped' BY <1>1, <1>a, <2>1 DEF LogOut, TabsTyped
  <2>3. ServerTyped' /\ DOMAIN rows' = DOMAIN rows
    BY <1>1, RevokedTyped DEF LogOut, SignShape, ServerTyped, CookieShape
  <2> QED BY <1>1, <1>e, <2>2, <2>3 DEF LogOut, SignShape, LaddersTyped
<1>2. ASSUME NEW caller \in {"boot", "call"}, Climbs(t, caller), UNCHANGED rows PROVE LaddersTyped'
  <2> DEFINE x == IF ladder[t].at = "none"
                  THEN [at |-> "sent", cookie |-> jar, sid |-> 0, for |-> {caller}]
                  ELSE [ladder[t] EXCEPT !.for = ladder[t].for \cup {caller}]
  <2>1. x \in LadderShape
    BY <1>0 DEF LadderShape, SignShape, ServerTyped
  <2>2. x.at \in {"checked", "rotated"} => x.sid \in DOMAIN rows'
    BY <1>0, <1>2 DEF LadderShape, SignShape, LaddersTyped
  <2>3. ladder' = [ladder EXCEPT ![t] = x]
    BY <1>2 DEF Climbs
  <2> QED BY <1>2, <1>b, <2>1, <2>2, <2>3
<1>3. CASE Boot(t)
  <2>1. [tabs[t] EXCEPT !.status = "loading"] \in TabShape BY <1>0 DEF TabShape
  <2>2. TabsTyped' BY <1>3, <1>a, <2>1 DEF Boot, TabsTyped
  <2> QED BY <1>3, <1>2, <1>e, <1>f, <2>2 DEF Boot, SignShape
<1>4. CASE Reload(t)
  <2>1. NewTab \in TabShape BY DEF NewTab, TabShape
  <2>2. TabsTyped' BY <1>4, <1>a, <2>1 DEF Reload, TabsTyped
  <2> QED BY <1>4, <1>d, <1>e, <1>f, <2>2 DEF Reload, SignShape
<1>5. CASE RefusedCall(t)
  BY <1>5, <1>2, <1>e, <1>f, <1>g DEF RefusedCall, SignShape
<1>6. CASE RefreshChecks(t)
  <2> DEFINE x == IF Matches(ladder[t].cookie) /\ Active(rows[ladder[t].cookie.sid].user)
                  THEN [ladder[t] EXCEPT !.at = "checked", !.sid = ladder[t].cookie.sid]
                  ELSE [ladder[t] EXCEPT !.at = "refused"]
  <2>1. ladder[t].cookie \in CookieShape BY <1>0 DEF LadderShape
  <2>2. Matches(ladder[t].cookie) => ladder[t].cookie.sid \in DOMAIN rows /\ ladder[t].cookie.sid \in Nat
    BY <2>1 DEF Matches, Valid, CookieShape
  <2>3. x \in LadderShape /\ (x.at \in {"checked", "rotated"} => x.sid \in DOMAIN rows)
    BY <1>0, <2>2 DEF LadderShape
  <2>4. ladder' = [ladder EXCEPT ![t] = x] /\ UNCHANGED <<rows, jar, accounts, tabs, asking, hub>>
    BY <1>6 DEF RefreshChecks
  <2>5. LaddersTyped' BY <1>b, <2>3, <2>4
  <2> QED BY <1>e, <1>f, <1>g, <2>4, <2>5 DEF SignShape
<1>7. CASE RefreshRotates(t)
  <2> DEFINE s == ladder[t].sid
  <2>1. s \in DOMAIN rows /\ rows[s] \in SessionRow /\ s \in Nat
    BY <1>0, <1>7 DEF RefreshRotates, SignShape, LaddersTyped, ServerTyped, LadderShape
  <2>2. CASE rows[s].state = "gone"
    <3>1. [ladder[t] EXCEPT !.at = "refused"] \in LadderShape BY <1>0 DEF LadderShape
    <3>2. ladder' = [ladder EXCEPT ![t] = [ladder[t] EXCEPT !.at = "refused"]]
      BY <1>7, <2>2 DEF RefreshRotates
    <3>3. UNCHANGED <<rows, jar, accounts, tabs, asking, hub>> BY <1>7, <2>2 DEF RefreshRotates
    <3>4. [ladder[t] EXCEPT !.at = "refused"].at = "refused" BY <1>0 DEF LadderShape
    <3>5. LaddersTyped' BY <1>b, <3>1, <3>2, <3>3, <3>4
    <3> QED BY <1>e, <1>f, <1>g, <3>3, <3>5 DEF SignShape
  <2>3. CASE rows[s].state # "gone"
    <3> DEFINE c == [sid |-> s, generation |-> rows'[s].generation]
    <3>1. /\ rows' = [rows EXCEPT ![s].generation = @ + 1]
          /\ ladder' = [ladder EXCEPT ![t].at = "rotated", ![t].cookie = c]
      BY <1>7, <2>3 DEF RefreshRotates
    <3>2. [rows[s] EXCEPT !.generation = @ + 1] \in SessionRow
      BY <2>1 DEF SessionRow
    <3>3. rows' \in Seq(SessionRow) /\ DOMAIN rows' = DOMAIN rows /\ rows'[s] \in SessionRow
      BY <2>1, <3>1, <3>2 DEF SignShape, ServerTyped
    <3>4. c \in CookieShape
      BY <2>1, <3>3 DEF SessionRow, CookieShape
    <3>5. [ladder[t] EXCEPT !.at = "rotated", !.cookie = c] \in LadderShape
      BY <1>0, <3>4 DEF LadderShape
    <3>6. ladder' = [ladder EXCEPT ![t] = [ladder[t] EXCEPT !.at = "rotated", !.cookie = c]]
      BY <1>0, <3>1
    <3>7. [ladder[t] EXCEPT !.at = "rotated", !.cookie = c].sid = s
      BY <1>0 DEF LadderShape
    <3>8. LaddersTyped' BY <1>b, <2>1, <3>3, <3>5, <3>6, <3>7
    <3> QED BY <1>7, <1>e, <1>g, <3>3, <3>8 DEF RefreshRotates, SignShape, ServerTyped
  <2> QED BY <2>2, <2>3
<1>8. NoLadder \in LadderShape /\ NoLadder.at = "none"
  BY DEF NoLadder, LadderShape, CookieShape
<1>9. CASE RefreshAnswers(t)
  <2>1. ladder[t].sid \in DOMAIN rows /\ rows[ladder[t].sid] \in SessionRow /\ ladder[t].sid \in Nat
    BY <1>0, <1>9 DEF RefreshAnswers, SignShape, LaddersTyped, ServerTyped, LadderShape
  <2>2. Installed(t, rows[ladder[t].sid].user, ladder[t].sid) \in TabShape
    BY <1>0, <2>1 DEF Installed, TabShape, SessionRow
  <2>3. TabsTyped' BY <1>9, <1>a, <2>2 DEF RefreshAnswers, TabsTyped
  <2>4. LaddersTyped' BY <1>9, <1>b, <1>8 DEF RefreshAnswers
  <2>5. ladder[t].cookie \in CookieShape BY <1>0 DEF LadderShape
  <2> QED BY <1>9, <1>e, <2>3, <2>4, <2>5 DEF RefreshAnswers, SignShape, ServerTyped
<1>10. ASSUME NEW caller \in {"focus", "arrive", "ladder"}, AsksHub(t, caller) PROVE AskingTyped'
  <2> DEFINE x == IF asking[t].at = "none" THEN [NoAsking EXCEPT !.at = "asked", !.for = {caller}]
                  ELSE [asking[t] EXCEPT !.for = asking[t].for \cup {caller}]
  <2>1. x \in AskingShape BY <1>0 DEF NoAsking, AskingShape
  <2>2. x.at \in {"minted", "vouched"} => x.user \in Users
    BY <1>0 DEF NoAsking, AskingShape, SignShape, AskingTyped
  <2>3. asking' = [asking EXCEPT ![t] = x] BY <1>10 DEF AsksHub
  <2> QED BY <1>c, <2>1, <2>2, <2>3
<1>11. CASE RefreshRefused(t)
  <2>1. [ladder[t] EXCEPT !.at = "hub"] \in LadderShape /\ [ladder[t] EXCEPT !.at = "hub"].at = "hub"
    BY <1>0 DEF LadderShape
  <2>2. LaddersTyped' BY <1>11, <1>b, <2>1 DEF RefreshRefused
  <2> QED BY <1>11, <1>10, <1>f, <1>g, <2>2 DEF RefreshRefused, SignShape
<1>12. CASE RefreshUnanswered(t)
  <2>1. AfterLadder(tabs[t], Cleared(t), Unanswered, ladder[t].for) \in TabShape
    BY <1>0 DEF AfterLadder, Cleared, TabShape
  <2>2. TabsTyped' BY <1>12, <1>a, <2>1 DEF RefreshUnanswered, TabsTyped
  <2>3. LaddersTyped' BY <1>12, <1>b, <1>8 DEF RefreshUnanswered
  <2> QED BY <1>12, <1>e, <1>f, <2>2, <2>3 DEF RefreshUnanswered, SignShape
<1>13. CASE Focus(t)
  BY <1>13, <1>10, <1>d, <1>f, <1>g DEF Focus, SignShape
<1>14. CASE ArriveAtHub(t)
  BY <1>14, <1>10, <1>d, <1>f, <1>g DEF ArriveAtHub, SignShape
<1>15. ASSUME NEW tab \in TabShape, NEW outcome, Concludes(t, tab, outcome), UNCHANGED <<rows, hub>>,
              jar' \in CookieShape,
              accounts' \in [Users -> [role : {"admin", "member"}, state : {"active", "inactive", "gone"}]]
       PROVE  SignShape'
  <2>1. /\ TabsTyped' /\ AskingTyped' /\ ladder' \in [Tabs -> LadderShape]
        /\ \A u \in Tabs : ladder'[u].at \in {"checked", "rotated"} => ladder'[u] = ladder[u]
    BY <1>15, ConcludesTyped
  <2> QED BY <1>15, <2>1 DEF SignShape, LaddersTyped, ServerTyped
<1>16. CASE HubAnswers(t)
  <2>1. CASE ~Sso \/ hub = NoUser
    BY <1>0, <1>15, <1>16, <2>1 DEF HubAnswers, SignShape, ServerTyped
  <2>2. CASE Sso /\ hub # NoUser
    <3> DEFINE x == [asking[t] EXCEPT !.at = "minted", !.user = hub]
    <3>1. hub \in Users BY <2>2 DEF SignShape, ServerTyped
    <3>2. x \in AskingShape /\ x.user = hub BY <1>0, <3>1 DEF AskingShape
    <3>3. asking' = [asking EXCEPT ![t] = x] /\ UNCHANGED <<tabs, ladder, rows, jar, accounts, hub>>
      BY <1>0, <1>16, <2>2 DEF HubAnswers
    <3>4. AskingTyped' BY <1>c, <3>1, <3>2, <3>3
    <3> QED BY <1>d, <1>f, <1>g, <3>3, <3>4 DEF SignShape
  <2> QED BY <2>1, <2>2
<1>17. CASE SsoComplete(t)
  <2> DEFINE u == asking[t].user
  <2>1. u \in Users /\ accounts[u] \in [role : {"admin", "member"}, state : {"active", "inactive", "gone"}]
    BY <1>17 DEF SsoComplete, SignShape, AskingTyped, ServerTyped
  <2>2. CASE accounts[u].state = "inactive"
    BY <1>0, <1>15, <1>17, <2>2 DEF SsoComplete, SignShape, ServerTyped
  <2>3. CASE accounts[u].state # "inactive"
    <3> DEFINE x == [asking[t] EXCEPT !.at = "vouched", !.sid = 0]
    <3>1. /\ accounts' = [accounts EXCEPT ![u] = Resolved(u)]
          /\ UNCHANGED <<rows, tabs, ladder, jar, hub>>
          /\ asking' = [asking EXCEPT ![t].at = "vouched", ![t].sid = 0]
      BY <1>17, <2>3 DEF SsoComplete, PersistRefresh
    <3>2. asking' = [asking EXCEPT ![t] = x] BY <1>0, <3>1
    <3>3. x \in AskingShape /\ x.user = u BY <1>0 DEF AskingShape
    <3>4. AskingTyped' BY <1>c, <2>1, <3>2, <3>3
    <3>5. Resolved(u) \in [role : {"admin", "member"}, state : {"active", "inactive", "gone"}]
      BY <2>1 DEF Resolved
    <3>6. ServerTyped' BY <3>1, <3>5 DEF SignShape, ServerTyped
    <3> QED BY <1>d, <1>g, <3>1, <3>4, <3>6 DEF SignShape
  <2> QED BY <2>2, <2>3
<1>18. CASE SsoInstalls(t)
  <2>1. Installed(t, asking[t].user, asking[t].sid) \in TabShape
    BY <1>0 DEF Installed, TabShape, AskingShape
  <2>2. jar' \in CookieShape BY <1>18 DEF SsoInstalls, PersistRefresh, CookieShape
  <2> QED BY <1>15, <1>18, <2>1, <2>2 DEF SsoInstalls, SignShape, ServerTyped
<1>19. CASE HubUnanswered(t)
  BY <1>0, <1>15, <1>19 DEF HubUnanswered, SignShape, ServerTyped
<1>20. CASE Age(t)
  <2>1. [tabs[t] EXCEPT !.fresh = FALSE] \in TabShape BY <1>0 DEF TabShape
  <2>2. TabsTyped' BY <1>20, <1>a, <2>1 DEF Age, TabsTyped
  <2> QED BY <1>20, <1>d, <1>e, <1>f, <2>2 DEF Age, SignShape
<1> QED BY <1>1, <1>3, <1>4, <1>5, <1>6, <1>7, <1>9, <1>11, <1>12, <1>13, <1>14, <1>16, <1>17, <1>18,
           <1>19, <1>20 DEF TabActs

LEMMA TabActsWaits ==
  ASSUME SignAssumption, SignInv, NEW t \in Tabs, TabActs(t)
  PROVE  TabStep(t) /\ AwaitsOwn(t)'
<1>0. /\ tabs[t] \in TabShape /\ ladder[t] \in LadderShape /\ asking[t] \in AskingShape
      /\ AwaitsOwn(t)
      /\ tabs \in [Tabs -> TabShape] /\ ladder \in [Tabs -> LadderShape] /\ asking \in [Tabs -> AskingShape]
  BY DEF SignInv, SignShape, TabsTyped, LaddersTyped, AskingTyped
<1>a. ASSUME NEW x, tabs' = [tabs EXCEPT ![t] = x]
      PROVE  tabs'[t] = x /\ \A u \in Tabs \ {t} : tabs'[u] = tabs[u]
  BY <1>0, <1>a
<1>b. ASSUME NEW x, ladder' = [ladder EXCEPT ![t] = x]
      PROVE  ladder'[t] = x /\ \A u \in Tabs \ {t} : ladder'[u] = ladder[u]
  BY <1>0, <1>b
<1>c. ASSUME NEW x, asking' = [asking EXCEPT ![t] = x]
      PROVE  asking'[t] = x /\ \A u \in Tabs \ {t} : asking'[u] = asking[u]
  BY <1>0, <1>c
<1>l. NoLadder.at = "none" /\ NoLadder.for = {} BY DEF NoLadder
<1>1. CASE LogOut(t)
  <2>1. Cleared(t).status = "anon" BY <1>0 DEF Cleared, TabShape
  <2> QED BY <1>0, <1>1, <1>a, <2>1 DEF LogOut, AwaitsOwn, TabStep
<1>2. ASSUME NEW caller, Climbs(t, caller)
      PROVE  /\ ladder'[t].for \subseteq ladder[t].for \cup {caller} /\ ladder'[t].at # "none"
             /\ ladder'[t].at = "hub" <=> ladder[t].at = "hub"
             /\ \A u \in Tabs \ {t} : ladder'[u] = ladder[u]
  <2> DEFINE x == IF ladder[t].at = "none"
                  THEN [at |-> "sent", cookie |-> jar, sid |-> 0, for |-> {caller}]
                  ELSE [ladder[t] EXCEPT !.for = ladder[t].for \cup {caller}]
  <2>1. x.for \subseteq ladder[t].for \cup {caller} /\ x.at # "none" /\ (x.at = "hub" <=> ladder[t].at = "hub")
    BY <1>0 DEF LadderShape
  <2>2. ladder' = [ladder EXCEPT ![t] = x] BY <1>2 DEF Climbs
  <2> HIDE DEF x
  <2> QED BY <1>b, <2>1, <2>2
<1>3. CASE Boot(t)
  <2>1. [tabs[t] EXCEPT !.status = "loading"].status = "loading" BY <1>0 DEF TabShape
  <2>2. tabs' = [tabs EXCEPT ![t] = [tabs[t] EXCEPT !.status = "loading"]] BY <1>3 DEF Boot
  <2>3. tabs'[t].status = "loading" /\ \A u \in Tabs \ {t} : tabs'[u] = tabs[u] BY <1>a, <2>1, <2>2
  <2>4. Climbs(t, "boot") /\ asking' = asking /\ tabs[t].status = "idle" BY <1>3 DEF Boot
  <2> QED BY <1>0, <1>2, <2>3, <2>4 DEF AwaitsOwn, TabStep
<1>4. CASE Reload(t)
  <2>1. tabs'[t] = NewTab /\ \A u \in Tabs \ {t} : tabs'[u] = tabs[u] BY <1>4, <1>a DEF Reload
  <2>2. NewTab.status = "idle" BY DEF NewTab
  <2> QED BY <1>0, <1>4, <2>1, <2>2 DEF Reload, AwaitsOwn, TabStep
<1>5. CASE RefusedCall(t)
  <2>1. Climbs(t, "call") /\ UNCHANGED <<tabs, asking>> /\ tabs[t].status = "authed" BY <1>5 DEF RefusedCall
  <2> QED BY <1>0, <1>2, <2>1 DEF AwaitsOwn, TabStep
<1>6. ASSUME NEW climb, ladder' = [ladder EXCEPT ![t] = climb], UNCHANGED <<tabs, asking>>,
             climb.at \in {"checked", "refused", "rotated"}, climb.for = ladder[t].for,
             ladder[t].at \in {"sent", "checked"}
      PROVE  TabStep(t) /\ AwaitsOwn(t)'
  <2>1. ladder'[t] = climb /\ \A u \in Tabs \ {t} : ladder'[u] = ladder[u] BY <1>6, <1>b
  <2> QED BY <1>0, <1>6, <2>1 DEF AwaitsOwn, TabStep
<1>7. CASE RefreshChecks(t)
  <2> DEFINE x == IF Matches(ladder[t].cookie) /\ Active(rows[ladder[t].cookie.sid].user)
                  THEN [ladder[t] EXCEPT !.at = "checked", !.sid = ladder[t].cookie.sid]
                  ELSE [ladder[t] EXCEPT !.at = "refused"]
  <2>1. x.at \in {"checked", "refused"} /\ x.for = ladder[t].for BY <1>0 DEF LadderShape
  <2>2. ladder' = [ladder EXCEPT ![t] = x] /\ UNCHANGED <<tabs, asking>> /\ ladder[t].at = "sent"
    BY <1>7 DEF RefreshChecks
  <2> HIDE DEF x
  <2> QED BY <1>6, <2>1, <2>2
<1>8. CASE RefreshRotates(t)
  <2> DEFINE c == [sid |-> ladder[t].sid, generation |-> rows'[ladder[t].sid].generation]
             a == [ladder[t] EXCEPT !.at = "refused"]
             b == [ladder[t] EXCEPT !.at = "rotated", !.cookie = c]
  <2>1. ladder' = [ladder EXCEPT ![t].at = "refused"] \/ ladder' = [ladder EXCEPT ![t].at = "rotated", ![t].cookie = c]
    BY <1>8 DEF RefreshRotates
  <2>2. ladder' = [ladder EXCEPT ![t] = a] \/ ladder' = [ladder EXCEPT ![t] = b]
    BY <1>0, <2>1
  <2>3. a.at = "refused" /\ a.for = ladder[t].for /\ b.at = "rotated" /\ b.for = ladder[t].for
    BY <1>0 DEF LadderShape
  <2>4. UNCHANGED <<tabs, asking>> /\ ladder[t].at = "checked" BY <1>8 DEF RefreshRotates
  <2> HIDE DEF a, b
  <2> QED BY <1>6, <2>2, <2>3, <2>4
<1>9. CASE RefreshAnswers(t)
  <2> DEFINE x == Installed(t, rows[ladder[t].sid].user, ladder[t].sid)
  <2>1. x.status = "authed" BY <1>0 DEF Installed, TabShape
  <2>2. /\ tabs' = [tabs EXCEPT ![t] = x] /\ ladder' = [ladder EXCEPT ![t] = NoLadder]
        /\ asking' = asking /\ ladder[t].at = "rotated"
    BY <1>9 DEF RefreshAnswers
  <2> HIDE DEF x
  <2>3. tabs'[t] = x /\ ladder'[t] = NoLadder /\ \A u \in Tabs \ {t} : tabs'[u] = tabs[u] /\ ladder'[u] = ladder[u]
    BY <1>a, <1>b, <2>2
  <2> QED BY <1>0, <1>l, <2>1, <2>2, <2>3 DEF AwaitsOwn, TabStep
<1>10. ASSUME NEW caller, AsksHub(t, caller)
       PROVE  /\ asking'[t].at # "none" /\ asking'[t].for = asking[t].for \cup {caller}
              /\ \A u \in Tabs \ {t} : asking'[u] = asking[u]
  <2> DEFINE x == IF asking[t].at = "none" THEN [NoAsking EXCEPT !.at = "asked", !.for = {caller}]
                  ELSE [asking[t] EXCEPT !.for = asking[t].for \cup {caller}]
  <2>1. x.at # "none" /\ x.for = asking[t].for \cup {caller}
    BY <1>0 DEF AskingShape, NoAsking, AwaitsOwn
  <2>2. asking' = [asking EXCEPT ![t] = x] BY <1>10 DEF AsksHub
  <2> HIDE DEF x
  <2> QED BY <1>c, <2>1, <2>2
<1>11. CASE RefreshRefused(t)
  <2> DEFINE x == [ladder[t] EXCEPT !.at = "hub"]
  <2>1. x.at = "hub" /\ x.for = ladder[t].for BY <1>0 DEF LadderShape
  <2>2. ladder' = [ladder EXCEPT ![t] = x] /\ AsksHub(t, "ladder") /\ tabs' = tabs /\ ladder[t].at = "refused"
    BY <1>11 DEF RefreshRefused
  <2> HIDE DEF x
  <2>3. ladder'[t] = x /\ \A u \in Tabs \ {t} : ladder'[u] = ladder[u] BY <1>b, <2>2
  <2> QED BY <1>0, <1>10, <2>1, <2>2, <2>3 DEF AwaitsOwn, TabStep
<1>12. CASE RefreshUnanswered(t)
  <2> DEFINE x == AfterLadder(tabs[t], Cleared(t), Unanswered, ladder[t].for)
  <2>1. x.status = "anon" \/ (x = tabs[t] /\ tabs[t].status # "idle")
    BY <1>0, <1>12 DEF RefreshUnanswered, AfterLadder, Cleared, TabShape, AwaitsOwn
  <2>2. /\ tabs' = [tabs EXCEPT ![t] = x] /\ ladder' = [ladder EXCEPT ![t] = NoLadder] /\ asking' = asking
        /\ ladder[t].at \notin {"hub", "none"}
    BY <1>12 DEF RefreshUnanswered
  <2> HIDE DEF x
  <2>3. tabs'[t] = x /\ ladder'[t] = NoLadder /\ \A u \in Tabs \ {t} : tabs'[u] = tabs[u] /\ ladder'[u] = ladder[u]
    BY <1>a, <1>b, <2>2
  <2> QED BY <1>0, <1>l, <2>1, <2>2, <2>3 DEF AwaitsOwn, TabStep
<1>13. ASSUME NEW caller \in {"focus", "arrive"}, AsksHub(t, caller), UNCHANGED <<tabs, ladder>>,
              tabs[t].status \in {"authed", "anon"}
       PROVE  TabStep(t) /\ AwaitsOwn(t)'
  BY <1>0, <1>10, <1>13 DEF AwaitsOwn, TabStep
<1>14. CASE Focus(t)
  BY <1>14, <1>13 DEF Focus
<1>15. CASE ArriveAtHub(t)
  BY <1>15, <1>13 DEF ArriveAtHub
<1>16. ASSUME NEW x, asking' = [asking EXCEPT ![t] = x], UNCHANGED <<tabs, ladder>>,
              asking[t].at # "none", x.at # "none", x.for = asking[t].for
       PROVE  TabStep(t) /\ AwaitsOwn(t)'
  <2>1. asking'[t] = x /\ \A u \in Tabs \ {t} : asking'[u] = asking[u] BY <1>16, <1>c
  <2> QED BY <1>0, <1>16, <2>1 DEF AwaitsOwn, TabStep
<1>17. CASE HubAnswers(t)
  <2>1. CASE ~Sso \/ hub = NoUser
    BY <1>0, <1>17, <2>1, ConcludesWaits DEF HubAnswers
  <2>2. CASE Sso /\ hub # NoUser
    <3> DEFINE x == [asking[t] EXCEPT !.at = "minted", !.user = hub]
    <3>1. x.at = "minted" /\ x.for = asking[t].for BY <1>0 DEF AskingShape
    <3>2. asking' = [asking EXCEPT ![t] = x] /\ UNCHANGED <<tabs, ladder>> /\ asking[t].at = "asked"
      BY <1>0, <1>17, <2>2 DEF HubAnswers
    <3> HIDE DEF x
    <3> QED BY <1>16, <3>1, <3>2
  <2> QED BY <2>1, <2>2
<1>18. CASE SsoComplete(t)
  <2>1. CASE accounts[asking[t].user].state = "inactive"
    BY <1>0, <1>18, <2>1, ConcludesWaits DEF SsoComplete
  <2>2. CASE accounts[asking[t].user].state # "inactive"
    <3> DEFINE x == [asking[t] EXCEPT !.at = "vouched", !.sid = 0]
    <3>1. x.at = "vouched" /\ x.for = asking[t].for BY <1>0 DEF AskingShape
    <3>2. asking' = [asking EXCEPT ![t].at = "vouched", ![t].sid = 0] /\ UNCHANGED <<tabs, ladder>>
          /\ asking[t].at = "minted"
      BY <1>18, <2>2 DEF SsoComplete, PersistRefresh
    <3>3. asking' = [asking EXCEPT ![t] = x]
      BY <1>0, <3>2
    <3> HIDE DEF x
    <3> QED BY <1>16, <3>1, <3>2, <3>3
  <2> QED BY <2>1, <2>2
<1>19. CASE SsoInstalls(t)
  <2>1. /\ Installed(t, asking[t].user, asking[t].sid) \in TabShape
        /\ Installed(t, asking[t].user, asking[t].sid).status = "authed"
    BY <1>0 DEF Installed, TabShape, AskingShape
  <2> QED BY <1>19, <2>1, ConcludesWaits DEF SsoInstalls
<1>20. CASE HubUnanswered(t)
  BY <1>0, <1>20, ConcludesWaits DEF HubUnanswered
<1>21. CASE Age(t)
  <2> DEFINE x == [tabs[t] EXCEPT !.fresh = FALSE]
  <2>1. x.status = tabs[t].status BY <1>0 DEF TabShape
  <2>2. tabs' = [tabs EXCEPT ![t] = x] /\ UNCHANGED <<ladder, asking>> BY <1>21 DEF Age
  <2> HIDE DEF x
  <2>3. tabs'[t] = x /\ \A u \in Tabs \ {t} : tabs'[u] = tabs[u] BY <1>a, <2>2
  <2> QED BY <1>0, <2>1, <2>2, <2>3 DEF AwaitsOwn, TabStep
<1> QED BY <1>1, <1>3, <1>4, <1>5, <1>7, <1>8, <1>9, <1>11, <1>12, <1>14, <1>15, <1>17, <1>18, <1>19,
           <1>20, <1>21 DEF TabActs

\* The other steps: sign-ins, and what edits sessions and accounts.
LEMMA OthersShape ==
  ASSUME SignAssumption, SignInv,
         \/ \E t \in Tabs : DeleteMe(t) \/ \E u \in Users : DeleteUser(t, u)
         \/ \E t \in Tabs, u \in Users, r \in {"admin", "member"}, s \in {"active", "inactive"} : UpdateUser(t, u, r, s)
         \/ \E s \in Sids : RevokeSession(s)
         \/ \E u \in Users, keep \in Sids \cup {0} : RevokeOthers(u, keep)
         \/ \E u \in Users \cup {NoUser} : HubChanges(u)
  PROVE  /\ SignShape'
         /\ UNCHANGED <<tabs, ladder, asking>>
<1>0. /\ rows \in Seq(SessionRow) /\ jar \in CookieShape /\ SignShape
      /\ accounts \in [Users -> [role : {"admin", "member"}, state : {"active", "inactive", "gone"}]]
  BY DEF SignInv, SignShape, ServerTyped
<1>1. ASSUME rows' \in Seq(SessionRow), DOMAIN rows' = DOMAIN rows, jar' \in CookieShape,
             accounts' \in [Users -> [role : {"admin", "member"}, state : {"active", "inactive", "gone"}]],
             hub' \in Users \cup {NoUser}, UNCHANGED <<tabs, ladder, asking>>
      PROVE  SignShape'
  BY <1>0, <1>1 DEF SignShape, ServerTyped, TabsTyped, LaddersTyped, AskingTyped
<1>2. ASSUME NEW u \in Users, Deletes(u), jar' \in {jar, NoCookie}
      PROVE  SignShape' /\ UNCHANGED <<tabs, ladder, asking>>
  <2>1. rows' \in Seq(SessionRow) /\ DOMAIN rows' = DOMAIN rows
    <3> DEFINE New(s) == IF rows[s].user = u THEN [rows[s] EXCEPT !.state = "gone"] ELSE rows[s]
    <3>1. DOMAIN rows = 1 .. Len(rows) /\ Len(rows) \in Nat BY <1>0
    <3>2. ASSUME NEW s \in DOMAIN rows PROVE New(s) \in SessionRow
      <4>1. rows[s] \in SessionRow BY <1>0
      <4>2. [rows[s] EXCEPT !.state = "gone"] \in SessionRow BY <4>1 DEF SessionRow
      <4> QED BY <4>1, <4>2
    <3>3. rows' = [s \in DOMAIN rows |-> New(s)] BY <1>2 DEF Deletes
    <3> HIDE DEF New
    <3>4. rows' \in [1 .. Len(rows) -> SessionRow] BY <3>1, <3>2, <3>3
    <3> QED BY <3>1, <3>4, SeqDef
  <2>2. accounts' \in [Users -> [role : {"admin", "member"}, state : {"active", "inactive", "gone"}]]
    <3>1. accounts[u] \in [role : {"admin", "member"}, state : {"active", "inactive", "gone"}] BY <1>0
    <3>2. [accounts[u] EXCEPT !.state = "gone"] \in [role : {"admin", "member"}, state : {"active", "inactive", "gone"}]
      BY <3>1
    <3>3. accounts' = [accounts EXCEPT ![u] = [accounts[u] EXCEPT !.state = "gone"]] BY <1>2 DEF Deletes
    <3> QED BY <1>0, <3>2, <3>3
  <2>3. hub' = hub /\ UNCHANGED <<tabs, ladder, asking>> BY <1>2 DEF Deletes
  <2>4. jar' \in CookieShape BY <1>0, <1>2 DEF CookieShape
  <2> QED BY <1>1, <2>1, <2>2, <2>3, <2>4, <1>0 DEF SignShape, ServerTyped
<1>3. ASSUME NEW t \in Tabs, DeleteMe(t) PROVE SignShape' /\ UNCHANGED <<tabs, ladder, asking>>
  <2>1. tabs[t].user \in Users
    BY <1>0, <1>3 DEF DeleteMe, By, Active, SignShape, TabsTyped, TabShape
  <2> QED BY <1>2, <1>3, <2>1 DEF DeleteMe
<1>4. ASSUME NEW t \in Tabs, NEW u \in Users, DeleteUser(t, u) PROVE SignShape' /\ UNCHANGED <<tabs, ladder, asking>>
  BY <1>2, <1>4 DEF DeleteUser
<1>5. ASSUME NEW t \in Tabs, NEW u \in Users, NEW r \in {"admin", "member"}, NEW s \in {"active", "inactive"},
             UpdateUser(t, u, r, s)
      PROVE  SignShape' /\ UNCHANGED <<tabs, ladder, asking>>
  <2>1. accounts' = [accounts EXCEPT ![u] = [role |-> r, state |-> s]] /\ UNCHANGED <<rows, jar, hub, tabs, ladder, asking>>
    BY <1>5 DEF UpdateUser
  <2> QED BY <1>0, <1>1, <2>1 DEF SignShape, ServerTyped
<1>6. ASSUME NEW sids, rows' = Revoked(sids), UNCHANGED <<jar, accounts, hub, tabs, ladder, asking>>
      PROVE  SignShape' /\ UNCHANGED <<tabs, ladder, asking>>
  BY <1>0, <1>1, <1>6, RevokedTyped DEF SignShape, ServerTyped
<1>7. ASSUME NEW s, RevokeSession(s) PROVE SignShape' /\ UNCHANGED <<tabs, ladder, asking>>
  BY <1>6, <1>7 DEF RevokeSession
<1>8. ASSUME NEW u, NEW keep, RevokeOthers(u, keep) PROVE SignShape' /\ UNCHANGED <<tabs, ladder, asking>>
  BY <1>6, <1>8 DEF RevokeOthers
<1>9. ASSUME NEW u \in Users \cup {NoUser}, HubChanges(u) PROVE SignShape' /\ UNCHANGED <<tabs, ladder, asking>>
  BY <1>0, <1>1, <1>9 DEF HubChanges
<1> QED BY <1>3, <1>4, <1>5, <1>7, <1>8, <1>9

LEMMA SignInShape ==
  ASSUME SignAssumption, SignInv, NEW t \in Tabs, NEW u \in Users, SignIn(t, u)
  PROVE  SignShape' /\ TabStep(t) /\ AwaitsOwn(t)'
<1>0. /\ rows \in Seq(SessionRow) /\ SignShape /\ Len(rows) \in Nat
      /\ tabs[t] \in TabShape /\ tabs \in [Tabs -> TabShape] /\ AwaitsOwn(t)
  BY DEF SignInv, SignShape, ServerTyped, TabsTyped
<1> DEFINE r == [user |-> u, state |-> "live", generation |-> 1, local |-> TRUE]
           x == Installed(t, u, Len(rows'))
<1>1. /\ rows' = Append(rows, r) /\ jar' = [sid |-> Len(rows'), generation |-> 1]
      /\ tabs' = [tabs EXCEPT ![t] = x] /\ UNCHANGED <<accounts, ladder, asking, hub>>
      /\ tabs[t].status = "anon" /\ asking[t].at = "none"
  BY DEF SignIn, CreateSession
<1>2. r \in SessionRow BY DEF SessionRow
<1>3. /\ rows' \in Seq(SessionRow) /\ Len(rows') \in Nat /\ DOMAIN rows \subseteq DOMAIN rows'
  BY <1>0, <1>1, <1>2
<1>4. x \in TabShape /\ x.status = "authed" BY <1>0, <1>3 DEF Installed, TabShape
<1>5. jar' \in CookieShape BY <1>1, <1>3 DEF CookieShape
<1> HIDE DEF x, r
<1>6. SignShape'
  BY <1>0, <1>1, <1>3, <1>4, <1>5 DEF SignShape, TabsTyped, LaddersTyped, AskingTyped, ServerTyped
<1>7. tabs'[t] = x /\ \A v \in Tabs \ {t} : tabs'[v] = tabs[v] BY <1>0, <1>1
<1> QED BY <1>0, <1>1, <1>4, <1>6, <1>7 DEF TabStep, AwaitsOwn

LEMMA SignStep == SignAssumption /\ SignInv /\ [SignNext]_signVars => SignInv'
<1> SUFFICES ASSUME SignAssumption, SignInv, [SignNext]_signVars PROVE SignInv'
  OBVIOUS
<1>0. SignShape BY DEF SignInv
<1>1. ASSUME SignShape', UNCHANGED <<tabs, ladder, asking>> PROVE SignInv'
  BY <1>1 DEF SignInv, AwaitsOwn
<1>2. ASSUME NEW t \in Tabs, TabActs(t) PROVE SignInv'
  BY <1>0, <1>2, TabActsShape, TabActsWaits, WaitsElsewhere DEF SignInv
<1>3. ASSUME NEW t \in Tabs, NEW u \in Users, SignIn(t, u) PROVE SignInv'
  BY <1>3, SignInShape, WaitsElsewhere DEF SignInv
<1>4. CASE UNCHANGED signVars
  BY <1>0, <1>1, <1>4 DEF signVars, SignShape, TabsTyped, LaddersTyped, AskingTyped, ServerTyped
<1>5. CASE SignNext
  BY <1>1, <1>2, <1>3, <1>5, OthersShape DEF SignNext, TabActs
<1> QED BY <1>4, <1>5

(* The generations of a session row: each is a refresh that checked the row,  *)
(* and two tabs may both have checked it before either rotates.               *)
CookieKnown(c) == c # NoCookie => c.sid \in DOMAIN rows /\ c.generation \in 1..MaxRotations

\* A ladder that may yet move row s to its next generation, and all of them.
Rotating(t, s) ==
  \/ ladder[t].at = "sent" /\ ladder[t].cookie # NoCookie /\ ladder[t].cookie.sid = s
  \/ ladder[t].at = "checked" /\ ladder[t].sid = s
Rotates(s) == {t \in Tabs : Rotating(t, s)}

RowBounded(s) ==
  rows[s].generation \in 1..MaxRotations /\ rows[s].generation + Cardinality(Rotates(s)) <= MaxRotations
CookiesKnown == CookieKnown(jar) /\ \A t \in Tabs : CookieKnown(ladder[t].cookie)
ShownTogether == \A t \in Tabs : tabs[t].status = "authed" <=> tabs[t].user # NoUser
RotationsBounded ==
  /\ Len(rows) <= MaxSessions
  /\ CookiesKnown
  /\ \A s \in DOMAIN rows : RowBounded(s)

LEMMA RotationsStart == SignBounds /\ SignInit => RotationsBounded /\ ShownTogether
  BY DEF SignBounds, SignInit, RotationsBounded, CookiesKnown, CookieKnown, ShownTogether, NoLadder, NewTab

LEMMA RotatesFinite ==
  ASSUME SignBounds, NEW s
  PROVE  /\ IsFiniteSet(Rotates(s)) /\ Cardinality(Rotates(s)) \in Nat
         /\ IsFiniteSet(Rotates(s)') /\ Cardinality(Rotates(s)') \in Nat
<1>1. Rotates(s) \subseteq Tabs /\ Rotates(s)' \subseteq Tabs BY DEF Rotates
<1> QED BY <1>1, FS_Subset, FS_CardinalityType DEF SignBounds

\* A row nothing new may rotate keeps its bound.
LEMMA RowEases ==
  ASSUME SignBounds, NEW s, RowBounded(s), rows'[s].generation = rows[s].generation,
         \A t \in Tabs : Rotating(t, s)' => Rotating(t, s)
  PROVE  RowBounded(s)'
<1>1. Rotates(s)' \subseteq Rotates(s) BY DEF Rotates
<1>2. Cardinality(Rotates(s)') <= Cardinality(Rotates(s)) BY <1>1, RotatesFinite, FS_Subset
<1>3. Cardinality(Rotates(s)') + rows[s].generation <= MaxRotations
  BY <1>2, RotatesFinite DEF RowBounded, SignBounds
<1>4. Cardinality(Rotates(s))' = Cardinality(Rotates(s)') OBVIOUS
<1> QED BY <1>3, RotatesFinite DEF RowBounded

\* Rows that are only revoked, or gone.
SameGenerations ==
  /\ DOMAIN rows' = DOMAIN rows /\ Len(rows') = Len(rows)
  /\ \A s \in DOMAIN rows : rows'[s].generation = rows[s].generation

LEMMA RotationsEase ==
  ASSUME SignBounds, RotationsBounded, SameGenerations,
         \A t \in Tabs, s \in DOMAIN rows : Rotating(t, s)' => Rotating(t, s),
         CookiesKnown'
  PROVE  RotationsBounded'
  BY RowEases DEF RotationsBounded, SameGenerations

LEMMA RevokedGenerations ==
  ASSUME rows \in Seq(SessionRow), NEW sids, rows' = Revoked(sids)
  PROVE  SameGenerations
<1>1. rows' \in Seq(SessionRow) /\ DOMAIN rows' = DOMAIN rows BY RevokedTyped
<1>2. Len(rows') = Len(rows) BY <1>1
<1>3. ASSUME NEW s \in DOMAIN rows PROVE rows'[s].generation = rows[s].generation
  <2>1. rows[s] \in SessionRow OBVIOUS
  <2>2. [rows[s] EXCEPT !.state = "revoked"].generation = rows[s].generation BY <2>1 DEF SessionRow
  <2>3. rows'[s] = rows[s] \/ rows'[s] = [rows[s] EXCEPT !.state = "revoked"] BY DEF Revoked
  <2> QED BY <2>2, <2>3
<1> QED BY <1>1, <1>2, <1>3 DEF SameGenerations

\* A step of a tab that leaves the rows and puts its ladder in a state that
\* rotates nothing it did not rotate before.
LEMMA LadderEases ==
  ASSUME SignBounds, SignShape, RotationsBounded, NEW t \in Tabs, NEW x,
         ladder' = [ladder EXCEPT ![t] = x], SameGenerations,
         CookieKnown(x.cookie), jar' \in {jar, ladder[t].cookie, NoCookie},
         \/ x.at \notin {"sent", "checked"}
         \/ x.at = ladder[t].at /\ x.cookie = ladder[t].cookie /\ x.sid = ladder[t].sid
         \/ /\ x.at = "checked" /\ ladder[t].at = "sent" /\ ladder[t].cookie # NoCookie
            /\ x.sid = ladder[t].cookie.sid
  PROVE  RotationsBounded'
<1>1. ladder'[t] = x /\ \A u \in Tabs \ {t} : ladder'[u] = ladder[u]
  BY DEF SignShape, LaddersTyped
<1>2. ASSUME NEW u \in Tabs, NEW s \in DOMAIN rows PROVE Rotating(u, s)' => Rotating(u, s)
  BY <1>1 DEF Rotating
<1>3. ASSUME NEW c, CookieKnown(c) PROVE c # NoCookie => c.sid \in DOMAIN rows' /\ c.generation \in 1..MaxRotations
  BY <1>3 DEF CookieKnown, SameGenerations
<1>4. CookiesKnown'
  <2>1. CookieKnown(jar)' BY <1>3 DEF CookieKnown, RotationsBounded, CookiesKnown
  <2>2. \A u \in Tabs : CookieKnown(ladder[u].cookie)'
    BY <1>1, <1>3 DEF CookieKnown, RotationsBounded, CookiesKnown
  <2> QED BY <2>1, <2>2 DEF CookiesKnown
<1> QED BY <1>2, <1>4, RotationsEase

LEMMA NothingClimbs ==
  ASSUME SignBounds, RotationsBounded, UNCHANGED ladder, SameGenerations, jar' \in {jar, NoCookie}
  PROVE  RotationsBounded'
<1>1. \A t \in Tabs, s \in DOMAIN rows : Rotating(t, s)' => Rotating(t, s) BY DEF Rotating
<1>2. CookiesKnown' BY DEF CookieKnown, RotationsBounded, CookiesKnown, SameGenerations
<1> QED BY <1>1, <1>2, RotationsEase

LEMMA SameRows == UNCHANGED rows => SameGenerations
  BY DEF SameGenerations

\* A new ladder: Rotatable leaves a generation for it.
LEMMA ClimbBounded ==
  ASSUME SignBounds, SignShape, RotationsBounded, NEW t \in Tabs, NEW caller, Rotatable, Climbs(t, caller),
         UNCHANGED <<rows, jar>>
  PROVE  RotationsBounded'
<1>0. ladder \in [Tabs -> LadderShape] /\ ladder[t] \in LadderShape /\ rows \in Seq(SessionRow)
  BY DEF SignShape, LaddersTyped, ServerTyped
<1>1. CASE ladder[t].at # "none"
  <2> DEFINE x == [ladder[t] EXCEPT !.for = ladder[t].for \cup {caller}]
  <2>1. ladder' = [ladder EXCEPT ![t] = x] BY <1>1 DEF Climbs
  <2>2. x.at = ladder[t].at /\ x.cookie = ladder[t].cookie /\ x.sid = ladder[t].sid
    BY <1>0 DEF LadderShape
  <2>3. CookieKnown(x.cookie) BY <2>2 DEF RotationsBounded, CookiesKnown
  <2> HIDE DEF x
  <2> QED BY <2>1, <2>2, <2>3, SameRows, LadderEases
<1>2. CASE ladder[t].at = "none"
  <2> DEFINE x == [at |-> "sent", cookie |-> jar, sid |-> 0, for |-> {caller}]
             Climbing == {u \in Tabs : ladder[u].at # "none"}
  <2>1. ladder'[t] = x /\ \A u \in Tabs \ {t} : ladder'[u] = ladder[u]
    BY <1>0, <1>2 DEF Climbs
  <2>2. CookiesKnown'
    BY <2>1 DEF RotationsBounded, CookiesKnown, CookieKnown
  <2>3. ASSUME NEW s \in DOMAIN rows, ~(jar # NoCookie /\ jar.sid = s) PROVE RowBounded(s)'
    <3>1. \A u \in Tabs : Rotating(u, s)' => Rotating(u, s) BY <2>1, <2>3 DEF Rotating
    <3>2. RowBounded(s) BY DEF RotationsBounded
    <3> QED BY <3>1, <3>2, RowEases
  <2>4. ASSUME NEW s \in DOMAIN rows, jar # NoCookie, jar.sid = s PROVE RowBounded(s)'
    <3>1. IsFiniteSet(Climbing) /\ Cardinality(Climbing) \in Nat
      BY FS_Subset, FS_CardinalityType DEF SignBounds
    <3>2. IsFiniteSet(Climbing \cup {t}) /\ Cardinality(Climbing \cup {t}) = Cardinality(Climbing) + 1
      BY <1>2, <3>1, FS_AddElement
    <3>3. Rotates(s)' \subseteq Climbing \cup {t}
      BY <2>1 DEF Rotates, Rotating
    <3>4. Cardinality(Rotates(s)') <= Cardinality(Climbing) + 1
      BY <3>2, <3>3, FS_Subset
    <3>5. rows[s].generation + Cardinality(Climbing) < MaxRotations
      BY <2>4 DEF Rotatable
    <3>6. rows[s].generation \in 1..MaxRotations BY DEF RotationsBounded, RowBounded
    <3>7. rows[s].generation + Cardinality(Rotates(s)') <= MaxRotations
      BY <3>1, <3>4, <3>5, <3>6, RotatesFinite DEF SignBounds
    <3> QED BY <3>6, <3>7 DEF RowBounded
  <2> QED BY <2>2, <2>3, <2>4 DEF RotationsBounded
<1> QED BY <1>1, <1>2

\* The rotation itself takes one from what may still rotate the row.
LEMMA RotatesBounded ==
  ASSUME SignBounds, SignShape, SignShape', RotationsBounded, NEW t \in Tabs, RefreshRotates(t)
  PROVE  RotationsBounded'
<1>s. PICK s : s = ladder[t].sid OBVIOUS
<1>0. /\ ladder \in [Tabs -> LadderShape] /\ ladder[t] \in LadderShape /\ rows \in Seq(SessionRow)
      /\ s \in DOMAIN rows /\ rows[s] \in SessionRow /\ CookieKnown(ladder[t].cookie) /\ ladder[t].at = "checked"
  BY <1>s DEF SignShape, LaddersTyped, ServerTyped, RefreshRotates, RotationsBounded, CookiesKnown
<1>1. CASE rows[s].state = "gone"
  <2> DEFINE x == [ladder[t] EXCEPT !.at = "refused"]
  <2>1. ladder' = [ladder EXCEPT ![t] = x] /\ UNCHANGED <<rows, jar>>
    BY <1>s, <1>1 DEF RefreshRotates
  <2>2. x.at = "refused" /\ x.cookie = ladder[t].cookie BY <1>0 DEF LadderShape
  <2> HIDE DEF x
  <2> QED BY <1>0, <2>1, <2>2, SameRows, LadderEases
<1>2. CASE rows[s].state # "gone"
  <2> DEFINE c == [sid |-> s, generation |-> rows'[s].generation]
             x == [ladder[t] EXCEPT !.at = "rotated", !.cookie = c]
  <2>1. /\ rows' = [rows EXCEPT ![s].generation = @ + 1] /\ UNCHANGED jar
        /\ ladder' = [ladder EXCEPT ![t].at = "rotated", ![t].cookie = c]
    BY <1>s, <1>2 DEF RefreshRotates
  <2>2. ladder' = [ladder EXCEPT ![t] = x] BY <1>0, <2>1
  <2>3. x.at = "rotated" /\ x.cookie = c BY <1>0 DEF LadderShape
  <2>4. /\ DOMAIN rows' = DOMAIN rows /\ Len(rows') = Len(rows)
        /\ \A r \in DOMAIN rows \ {s} : rows'[r] = rows[r]
    BY <1>0, <2>1
  <2>5. rows'[s].generation = rows[s].generation + 1
    BY <1>0, <2>1 DEF SessionRow
  <2> HIDE DEF x
  <2>6. ladder'[t] = x /\ \A u \in Tabs \ {t} : ladder'[u] = ladder[u] BY <1>0, <2>2
  <2>7. RowBounded(s)'
    <3>1. t \in Rotates(s) BY <1>s, <1>0 DEF Rotates, Rotating
    <3>2. Rotates(s)' \subseteq Rotates(s) \ {t} BY <2>3, <2>6 DEF Rotates, Rotating
    <3>3. /\ IsFiniteSet(Rotates(s) \ {t})
          /\ Cardinality(Rotates(s) \ {t}) = Cardinality(Rotates(s)) - 1
      BY <3>1, RotatesFinite, FS_RemoveElement
    <3>4. Cardinality(Rotates(s)') <= Cardinality(Rotates(s)) - 1
      BY <3>2, <3>3, FS_Subset
    <3>5. RowBounded(s) BY <1>0 DEF RotationsBounded
    <3> DEFINE m == Cardinality(Rotates(s)) 
               n == Cardinality(Rotates(s)')
    <3>6. m \in Nat /\ n \in Nat BY RotatesFinite
    <3>7. rows[s].generation \in Nat /\ rows[s].generation >= 1 /\ rows[s].generation + m <= MaxRotations
      BY <3>5 DEF RowBounded, SignBounds
    <3> HIDE DEF m, n
    <3>8. n <= m - 1 BY <3>4 DEF m, n
    <3>9. rows[s].generation + 1 \in 1..MaxRotations /\ rows[s].generation + 1 + n <= MaxRotations
      BY <3>6, <3>7, <3>8 DEF SignBounds
    <3> QED BY <2>5, <3>9 DEF RowBounded, n
  <2>8. ASSUME NEW r \in DOMAIN rows, r # s PROVE RowBounded(r)'
    <3>1. \A u \in Tabs : Rotating(u, r)' => Rotating(u, r) BY <2>3, <2>6 DEF Rotating
    <3>2. RowBounded(r) BY DEF RotationsBounded
    <3> QED BY <2>4, <2>8, <3>1, <3>2, RowEases
  <2>9. CookiesKnown'
    <3>1. CookieKnown(jar)' BY <2>1, <2>4 DEF RotationsBounded, CookiesKnown, CookieKnown
    <3>2. c.sid \in DOMAIN rows' /\ c.generation \in 1..MaxRotations BY <1>0, <2>4, <2>7 DEF RowBounded
    <3>3. ASSUME NEW u \in Tabs PROVE CookieKnown(ladder[u].cookie)'
      <4>1. CASE u = t BY <2>3, <2>6, <3>2, <4>1 DEF CookieKnown
      <4>2. CASE u # t BY <2>4, <2>6, <4>2 DEF RotationsBounded, CookiesKnown, CookieKnown
      <4> QED BY <4>1, <4>2
    <3> QED BY <3>1, <3>3 DEF CookiesKnown
  <2> QED BY <2>4, <2>7, <2>8, <2>9 DEF RotationsBounded
<1> QED BY <1>1, <1>2

LEMMA SignInBounded ==
  ASSUME SignBounds, SignShape, RotationsBounded, NEW t \in Tabs, NEW u \in Users, SignIn(t, u)
  PROVE  RotationsBounded'
<1> DEFINE r == [user |-> u, state |-> "live", generation |-> 1, local |-> TRUE]
<1>n. PICK n : n = Len(rows) + 1 OBVIOUS
<1>0. rows \in Seq(SessionRow) /\ Len(rows) \in Nat /\ DOMAIN rows = 1 .. Len(rows)
  BY DEF SignShape, ServerTyped
<1>1. rows' = Append(rows, r) /\ Len(rows) < MaxSessions /\ UNCHANGED ladder
      /\ jar' = [sid |-> Len(rows'), generation |-> 1]
  BY DEF SignIn, CreateSession
<1>2. r \in SessionRow BY DEF SessionRow
<1>3. /\ Len(rows') = n /\ DOMAIN rows' = 1 .. n /\ rows'[n] = r
      /\ \A s \in DOMAIN rows : rows'[s] = rows[s]
  BY <1>n, <1>0, <1>1, <1>2
<1>4. ASSUME NEW s \in DOMAIN rows PROVE RowBounded(s)'
  <2>1. \A v \in Tabs : Rotating(v, s)' => Rotating(v, s) BY <1>1 DEF Rotating
  <2>2. RowBounded(s) BY DEF RotationsBounded
  <2> QED BY <1>3, <2>1, <2>2, RowEases
<1>5. RowBounded(n)'
  <2>1. n \notin DOMAIN rows BY <1>n, <1>0
  <2>2. ASSUME NEW v \in Tabs PROVE ~Rotating(v, n)'
    <3>1. ladder'[v] = ladder[v] BY <1>1
    <3>2. ~Rotating(v, n)
      BY <2>1 DEF Rotating, RotationsBounded, CookiesKnown, CookieKnown, SignShape, LaddersTyped
    <3> QED BY <3>1, <3>2 DEF Rotating
  <2>3. Rotates(n)' = {} BY <2>2 DEF Rotates
  <2>4. Cardinality(Rotates(n)') = 0 BY <2>3, FS_EmptySet
  <2>5. rows'[n].generation = 1 BY <1>3
  <2> QED BY <2>4, <2>5 DEF RowBounded, SignBounds
<1>6. CookiesKnown'
  <2>1. CookieKnown(jar)' BY <1>n, <1>0, <1>1, <1>3 DEF CookieKnown, SignBounds
  <2>2. ASSUME NEW v \in Tabs PROVE CookieKnown(ladder[v].cookie)'
    <3>1. ladder'[v] = ladder[v] /\ DOMAIN rows \subseteq DOMAIN rows' BY <1>n, <1>0, <1>1, <1>3
    <3> QED BY <3>1 DEF RotationsBounded, CookiesKnown, CookieKnown
  <2> QED BY <2>1, <2>2 DEF CookiesKnown
<1>7. DOMAIN rows' = DOMAIN rows \cup {n} BY <1>n, <1>0, <1>3
<1>8. Len(rows') <= MaxSessions BY <1>n, <1>0, <1>1, <1>3 DEF SignBounds
<1> QED BY <1>4, <1>5, <1>6, <1>7, <1>8 DEF RotationsBounded

\* The steps of one tab, on the bounds.
LEMMA TabActsBounded ==
  ASSUME SignBounds, SignAssumption, SignInv, RotationsBounded, NEW t \in Tabs, TabActs(t)
  PROVE  RotationsBounded'
<1>0. /\ SignShape /\ SignShape' /\ rows \in Seq(SessionRow)
      /\ ladder \in [Tabs -> LadderShape] /\ ladder[t] \in LadderShape /\ CookieKnown(ladder[t].cookie)
  BY TabActsShape DEF SignInv, SignShape, LaddersTyped, ServerTyped, RotationsBounded, CookiesKnown
<1>1. CASE LogOut(t)
  <2>1. SameGenerations BY <1>0, <1>1, RevokedGenerations, SameRows DEF LogOut
  <2> QED BY <1>1, <2>1, NothingClimbs DEF LogOut
<1>2. CASE Boot(t) \/ RefusedCall(t)
  BY <1>0, <1>2, ClimbBounded DEF Boot, RefusedCall
<1>3. CASE Reload(t) \/ Focus(t) \/ ArriveAtHub(t) \/ Age(t)
  BY <1>3, NothingClimbs, SameRows DEF Reload, Focus, ArriveAtHub, Age
<1>4. CASE RefreshChecks(t)
  <2> DEFINE a == [ladder[t] EXCEPT !.at = "checked", !.sid = ladder[t].cookie.sid]
             b == [ladder[t] EXCEPT !.at = "refused"]
  <2>1. /\ ladder' = [ladder EXCEPT ![t] = a] /\ ladder[t].cookie # NoCookie
        \/ ladder' = [ladder EXCEPT ![t] = b]
    BY <1>4 DEF RefreshChecks, Matches
  <2>2. /\ a.at = "checked" /\ a.cookie = ladder[t].cookie /\ a.sid = ladder[t].cookie.sid
        /\ b.at = "refused" /\ b.cookie = ladder[t].cookie
    BY <1>0 DEF LadderShape
  <2>3. SameGenerations /\ jar' = jar /\ ladder[t].at = "sent" BY <1>4, SameRows DEF RefreshChecks
  <2> HIDE DEF a, b
  <2>4. CASE ladder' = [ladder EXCEPT ![t] = a] /\ ladder[t].cookie # NoCookie
    BY <1>0, <2>2, <2>3, <2>4, LadderEases
  <2>5. CASE ladder' = [ladder EXCEPT ![t] = b]
    BY <1>0, <2>2, <2>3, <2>5, LadderEases
  <2> QED BY <2>1, <2>4, <2>5
<1>5. CASE RefreshRotates(t) BY <1>0, <1>5, RotatesBounded
<1>6. NoLadder.at = "none" /\ CookieKnown(NoLadder.cookie) BY DEF NoLadder, CookieKnown
<1>7. CASE RefreshAnswers(t) \/ RefreshUnanswered(t)
  BY <1>0, <1>6, <1>7, SameRows, LadderEases DEF RefreshAnswers, RefreshUnanswered
<1>8. CASE RefreshRefused(t)
  <2> DEFINE x == [ladder[t] EXCEPT !.at = "hub"]
  <2>1. ladder' = [ladder EXCEPT ![t] = x] /\ SameGenerations /\ jar' = jar
    BY <1>8, SameRows DEF RefreshRefused
  <2>2. x.at = "hub" /\ x.cookie = ladder[t].cookie BY <1>0 DEF LadderShape
  <2> HIDE DEF x
  <2> QED BY <1>0, <2>1, <2>2, LadderEases
<1>9. ASSUME NEW tab, NEW outcome, Concludes(t, tab, outcome), UNCHANGED rows, jar' \in {jar, NoCookie}
      PROVE  RotationsBounded'
  <2>1. ladder' = [ladder EXCEPT ![t] = NoLadder] \/ ladder' = ladder
    BY <1>0, <1>9 DEF Concludes
  <2> QED BY <1>0, <1>6, <1>9, <2>1, SameRows, LadderEases, NothingClimbs
<1>10. CASE HubAnswers(t)
  BY <1>9, <1>10, NothingClimbs, SameRows DEF HubAnswers
<1>11. CASE SsoComplete(t)
  BY <1>9, <1>11, NothingClimbs, SameRows DEF SsoComplete, PersistRefresh
<1>12. CASE SsoInstalls(t)
  BY <1>9, <1>12 DEF SsoInstalls, PersistRefresh
<1>13. CASE HubUnanswered(t)
  BY <1>9, <1>13 DEF HubUnanswered
<1> QED BY <1>1, <1>2, <1>3, <1>4, <1>5, <1>7, <1>8, <1>10, <1>11, <1>12, <1>13 DEF TabActs

LEMMA OthersBounded ==
  ASSUME SignBounds, SignInv, RotationsBounded,
         \/ \E t \in Tabs : DeleteMe(t) \/ \E u \in Users : DeleteUser(t, u)
         \/ \E t \in Tabs, u \in Users, r \in {"admin", "member"}, s \in {"active", "inactive"} : UpdateUser(t, u, r, s)
         \/ \E s \in Sids : RevokeSession(s)
         \/ \E u \in Users, keep \in Sids \cup {0} : RevokeOthers(u, keep)
         \/ \E u \in Users \cup {NoUser} : HubChanges(u)
  PROVE  RotationsBounded'
<1>0. rows \in Seq(SessionRow) BY DEF SignInv, SignShape, ServerTyped
<1>1. ASSUME NEW u, Deletes(u) PROVE SameGenerations
  <2> DEFINE New(s) == IF rows[s].user = u THEN [rows[s] EXCEPT !.state = "gone"] ELSE rows[s]
  <2>1. DOMAIN rows = 1 .. Len(rows) /\ Len(rows) \in Nat BY <1>0
  <2>2. ASSUME NEW s \in DOMAIN rows PROVE New(s) \in SessionRow /\ New(s).generation = rows[s].generation
    <3>1. rows[s] \in SessionRow BY <1>0
    <3>2. LET gone == [rows[s] EXCEPT !.state = "gone"]
          IN  gone \in SessionRow /\ gone.generation = rows[s].generation
      BY <3>1 DEF SessionRow
    <3> QED BY <3>1, <3>2
  <2>3. rows' = [s \in DOMAIN rows |-> New(s)] BY <1>1 DEF Deletes
  <2> HIDE DEF New
  <2>4. rows' \in [1 .. Len(rows) -> SessionRow] BY <2>1, <2>2, <2>3
  <2>5. rows' \in Seq(SessionRow) BY <2>1, <2>4, SeqDef
  <2>6. Len(rows') = Len(rows) BY <2>1, <2>4, <2>5
  <2> QED BY <2>2, <2>3, <2>6 DEF SameGenerations
<1>2. SameGenerations /\ UNCHANGED ladder /\ jar' \in {jar, NoCookie}
  <2> DEFINE Kept == SameGenerations /\ UNCHANGED ladder /\ jar' \in {jar, NoCookie}
  <2>1. ASSUME NEW t, DeleteMe(t) PROVE Kept BY <1>1, <2>1 DEF DeleteMe, Deletes
  <2>2. ASSUME NEW t, NEW u, DeleteUser(t, u) PROVE Kept BY <1>1, <2>2 DEF DeleteUser, Deletes
  <2>3. ASSUME NEW t, NEW u, NEW r, NEW s, UpdateUser(t, u, r, s) PROVE Kept BY <2>3, SameRows DEF UpdateUser
  <2>4. ASSUME NEW s, RevokeSession(s) PROVE Kept BY <1>0, <2>4, RevokedGenerations DEF RevokeSession
  <2>5. ASSUME NEW u, NEW keep, RevokeOthers(u, keep) PROVE Kept
    BY <1>0, <2>5, RevokedGenerations DEF RevokeOthers
  <2>6. ASSUME NEW u, HubChanges(u) PROVE Kept BY <2>6, SameRows DEF HubChanges
  <2> HIDE DEF Kept
  <2>7. Kept BY <2>1, <2>2, <2>3, <2>4, <2>5, <2>6
  <2> QED BY <2>7 DEF Kept
<1> QED BY <1>2, NothingClimbs

\* A tab shows somebody exactly while it is signed in.
LEMMA TabActsShown ==
  ASSUME SignAssumption, SignShape, ShownTogether, NEW t \in Tabs, TabActs(t)
  PROVE  ShownTogether'
<1>0. /\ tabs \in [Tabs -> TabShape] /\ tabs[t] \in TabShape /\ asking[t] \in AskingShape
      /\ tabs[t].status = "authed" <=> tabs[t].user # NoUser
  BY DEF SignShape, TabsTyped, AskingTyped, ShownTogether
<1>1. ASSUME NEW x, tabs' = [tabs EXCEPT ![t] = x], x.status = "authed" <=> x.user # NoUser
      PROVE  ShownTogether'
  BY <1>0, <1>1 DEF ShownTogether
<1>2. ASSUME UNCHANGED tabs PROVE ShownTogether' BY <1>2 DEF ShownTogether
<1>3. Cleared(t).status = "anon" /\ Cleared(t).user = NoUser BY <1>0 DEF Cleared, TabShape
<1>4. ASSUME NEW u \in Users, NEW s
      PROVE  Installed(t, u, s).status = "authed" /\ Installed(t, u, s).user # NoUser
  BY <1>0 DEF Installed, TabShape, SignAssumption
<1>5. CASE LogOut(t) BY <1>1, <1>3, <1>5 DEF LogOut
<1>6. CASE Boot(t)
  <2>1. /\ [tabs[t] EXCEPT !.status = "loading"].status = "loading"
        /\ [tabs[t] EXCEPT !.status = "loading"].user = tabs[t].user
    BY <1>0 DEF TabShape
  <2> QED BY <1>0, <1>1, <1>6, <2>1 DEF Boot
<1>7. CASE Reload(t)
  <2>1. NewTab.status = "idle" /\ NewTab.user = NoUser BY DEF NewTab
  <2> QED BY <1>1, <1>7, <2>1 DEF Reload
<1>8. CASE RefreshAnswers(t)
  <2>1. ladder[t].sid \in DOMAIN rows BY <1>8 DEF RefreshAnswers, SignShape, LaddersTyped
  <2>2. rows[ladder[t].sid] \in SessionRow BY <2>1 DEF SignShape, ServerTyped
  <2>3. rows[ladder[t].sid].user \in Users BY <2>2 DEF SessionRow
  <2> QED BY <1>1, <1>4, <1>8, <2>3 DEF RefreshAnswers
<1>9. CASE RefreshUnanswered(t)
  <2>1. AfterLadder(tabs[t], Cleared(t), Unanswered, ladder[t].for) \in {tabs[t], Cleared(t)}
    BY DEF AfterLadder
  <2> QED BY <1>0, <1>1, <1>3, <1>9, <2>1 DEF RefreshUnanswered
<1>10. ASSUME NEW tab \in TabShape, NEW outcome, Concludes(t, tab, outcome), tab.status = "authed" <=> tab.user # NoUser
       PROVE  ShownTogether'
  <2> DEFINE cleared == [tab EXCEPT !.status = "anon", !.user = NoUser, !.sid = 0, !.fresh = FALSE]
  <2>1. cleared.status = "anon" /\ cleared.user = NoUser BY DEF TabShape
  <2>2. tabs' = [tabs EXCEPT ![t] = tab] \/ tabs' = [tabs EXCEPT ![t] = cleared]
    BY <1>10 DEF Concludes, AfterLadder
  <2> HIDE DEF cleared
  <2> QED BY <1>1, <1>10, <2>1, <2>2
<1>11. CASE HubAnswers(t) BY <1>0, <1>2, <1>10, <1>11 DEF HubAnswers
<1>12. CASE SsoComplete(t) BY <1>0, <1>2, <1>10, <1>12 DEF SsoComplete
<1>13. CASE SsoInstalls(t)
  <2> DEFINE x == Installed(t, asking[t].user, asking[t].sid)
  <2>1. asking[t].user \in Users BY <1>13 DEF SsoInstalls, SignShape, AskingTyped
  <2>2. x \in TabShape BY <1>0 DEF Installed, TabShape, AskingShape
  <2>3. x.status = "authed" /\ x.user # NoUser BY <1>4, <2>1
  <2>4. Concludes(t, x, "refreshed") BY <1>13 DEF SsoInstalls
  <2> HIDE DEF x
  <2> QED BY <1>10, <2>2, <2>3, <2>4
<1>14. CASE HubUnanswered(t) BY <1>0, <1>10, <1>14 DEF HubUnanswered
<1>15. CASE Age(t)
  <2>1. /\ [tabs[t] EXCEPT !.fresh = FALSE].status = tabs[t].status
        /\ [tabs[t] EXCEPT !.fresh = FALSE].user = tabs[t].user
    BY <1>0 DEF TabShape
  <2> QED BY <1>0, <1>1, <1>15, <2>1 DEF Age
<1>16. CASE \/ RefusedCall(t) \/ RefreshChecks(t) \/ RefreshRotates(t) \/ RefreshRefused(t)
            \/ Focus(t) \/ ArriveAtHub(t)
  BY <1>2, <1>16 DEF RefusedCall, RefreshChecks, RefreshRotates, RefreshRefused, Focus, ArriveAtHub
<1> QED BY <1>5, <1>6, <1>7, <1>8, <1>9, <1>11, <1>12, <1>13, <1>14, <1>15, <1>16 DEF TabActs

LEMMA RotationsStep ==
  ASSUME SignBounds, SignAssumption, SignInv, RotationsBounded, ShownTogether, [SignNext]_signVars
  PROVE  RotationsBounded' /\ ShownTogether'
<1>0. SignShape BY DEF SignInv
<1>1. ASSUME NEW t \in Tabs, NEW u \in Users, SignIn(t, u) PROVE RotationsBounded' /\ ShownTogether'
  <2> DEFINE x == Installed(t, u, Len(rows'))
  <2>1. tabs \in [Tabs -> TabShape] /\ tabs[t] \in TabShape BY <1>0 DEF SignShape, TabsTyped
  <2>2. x.status = "authed" /\ x.user # NoUser BY <2>1 DEF Installed, TabShape, SignAssumption
  <2>3. tabs' = [tabs EXCEPT ![t] = x] BY <1>1 DEF SignIn
  <2> HIDE DEF x
  <2>4. ShownTogether' BY <2>1, <2>2, <2>3 DEF ShownTogether
  <2> QED BY <1>0, <1>1, <2>4, SignInBounded
<1>2. ASSUME UNCHANGED tabs PROVE ShownTogether' BY <1>2 DEF ShownTogether
<1>3. CASE UNCHANGED signVars
  BY <1>2, <1>3, NothingClimbs, SameRows DEF signVars
<1>4. ASSUME NEW t \in Tabs, TabActs(t) PROVE RotationsBounded' /\ ShownTogether'
  BY <1>0, <1>4, TabActsBounded, TabActsShown
<1>5. CASE SignNext
  BY <1>1, <1>2, <1>4, <1>5, OthersShape, OthersBounded DEF SignNext, TabActs
<1> QED BY <1>3, <1>5

\* Every variable of a browser and its sessions keeps its shape: a cookie names
\* a row that exists, and no row is rotated past the bound although a ladder
\* that checked it looks at nothing again before it rotates (refresh, rotate).
THEOREM SignTyping == SignSpec => []SignTypeOK
<1> DEFINE I == SignInv /\ RotationsBounded /\ ShownTogether
<1>1. SignInit => I BY SignStart, RotationsStart, SignBounds
<1>2. I /\ [SignNext]_signVars => I' BY SignStep, RotationsStep, SignBounds, SignAssumption
<1>3. I => SignTypeOK
  <2> SUFFICES ASSUME I PROVE SignTypeOK OBVIOUS
  <2>1. SignShape BY DEF SignInv
  <2>2. rows \in Seq(SessionRow) /\ Len(rows) \in Nat /\ DOMAIN rows = 1 .. Len(rows)
    BY <2>1 DEF SignShape, ServerTyped
  <2>3. \A s \in DOMAIN rows : rows[s].state \in {"live", "revoked", "gone"} /\ rows[s].generation \in 1..MaxRotations
    <3>1. \A s \in DOMAIN rows : rows[s] \in SessionRow BY <2>2
    <3> QED BY <3>1 DEF SessionRow, RotationsBounded, RowBounded
  <2>4. jar \in Cookies
    <3>1. jar # NoCookie => jar \in [sid : Nat, generation : Nat]
      BY <2>1 DEF SignShape, ServerTyped, CookieShape
    <3>2. DOMAIN rows \subseteq Sids BY <2>2, SignBounds DEF Sids, RotationsBounded, SignBounds
    <3>3. jar # NoCookie => jar.sid \in Sids /\ jar.generation \in 1..MaxRotations
      BY <3>2 DEF RotationsBounded, CookiesKnown, CookieKnown
    <3> QED BY <3>1, <3>3 DEF Cookies
  <2>5. ASSUME NEW t \in Tabs
        PROVE  /\ tabs[t] \in TabShape /\ ladder[t] \in LadderShape /\ asking[t] \in AskingShape
               /\ (tabs[t].status = "authed") = (tabs[t].user # NoUser)
               /\ ladder[t].at = "hub" => "ladder" \in asking[t].for
    BY <2>1 DEF SignShape, TabsTyped, LaddersTyped, AskingTyped, ShownTogether, SignInv, AwaitsOwn
  <2> QED BY <2>3, <2>4, <2>5 DEF SignTypeOK, TabShape, LadderShape, AskingShape
<1> HIDE DEF I
<1> QED BY <1>1, <1>2, <1>3, PTL DEF SignSpec

\* No outage of the hub, lost reply, ended row or second tab that refreshes the
\* same cookie signs a tab out while the hub has somebody signed in: what can be
\* lost is answered "unreachable", and that clears a tab only while it boots.
THEOREM NobodySignedOut == SignSpec => OutageSignsNobodyOut
<1> DEFINE Out(t) == changes = 0 /\ hub # NoUser /\ tabs[t].status = "authed" /\ tabs'[t].status = "anon" => LogOut(t)
<1>1. ASSUME SignAssumption, SignInv, SignNext, NEW t \in Tabs PROVE Out(t)
  <2> SUFFICES ASSUME hub # NoUser, tabs[t].status = "authed", tabs'[t].status = "anon" PROVE LogOut(t)
    OBVIOUS
  <2>1. AwaitsOwn(t) /\ tabs[t] \in TabShape /\ tabs \in [Tabs -> TabShape] /\ ladder[t] \in LadderShape
    BY <1>1 DEF SignInv, SignShape, TabsTyped, LaddersTyped
  <2>2. "boot" \notin ladder[t].for BY <2>1 DEF AwaitsOwn
  <2>3. ASSUME NEW u \in Tabs, TabStep(u) PROVE u = t
    BY <2>3 DEF TabStep
  <2>4. ASSUME NEW u \in Tabs, NEW v \in Users, SignIn(u, v) PROVE FALSE
    <3>1. u = t BY <1>1, <2>3, <2>4, SignInShape
    <3> QED BY <2>4, <3>1 DEF SignIn
  <2>5. tabs' # tabs BY <2>1
  <2>6. PICK u \in Tabs : TabActs(u)
    BY <1>1, <2>4, <2>5, OthersShape DEF SignNext, TabActs
  <2>7. TabActs(t) BY <1>1, <2>3, <2>6, TabActsWaits
  <2>8. ASSUME NEW tab, NEW outcome, tab.status = "authed", Concludes(t, tab, outcome), outcome # "expired"
        PROVE  FALSE
    <3>1. tabs'[t] = tab BY <2>1, <2>2, <2>8 DEF Concludes, AfterLadder
    <3> QED BY <2>8, <3>1
  <2>9. ~RefreshUnanswered(t)
    <3>1. AfterLadder(tabs[t], Cleared(t), Unanswered, ladder[t].for) = tabs[t]
      BY <2>2 DEF AfterLadder, Unanswered
    <3> QED BY <2>1, <3>1 DEF RefreshUnanswered
  <2>10. ~HubAnswers(t) /\ ~HubUnanswered(t) /\ ~SsoComplete(t)
    BY <2>5, <2>8 DEF HubAnswers, HubUnanswered, SsoComplete, Unknown
  <2>11. ~SsoInstalls(t)
    <3>1. Installed(t, asking[t].user, asking[t].sid).status = "authed" BY <2>1 DEF Installed, TabShape
    <3> QED BY <2>8, <3>1 DEF SsoInstalls
  <2>12. ~RefreshAnswers(t)
    <3>1. Installed(t, rows[ladder[t].sid].user, ladder[t].sid).status = "authed" BY <2>1 DEF Installed, TabShape
    <3> QED BY <2>1, <3>1 DEF RefreshAnswers
  <2>13. ~Boot(t) /\ ~Reload(t) /\ ~Age(t)
    <3>1. NewTab.status = "idle" BY DEF NewTab
    <3>2. [tabs[t] EXCEPT !.fresh = FALSE].status = "authed" BY <2>1 DEF TabShape
    <3> QED BY <2>1, <3>1, <3>2 DEF Boot, Reload, Age
  <2>14. ~RefusedCall(t) /\ ~RefreshChecks(t) /\ ~RefreshRotates(t) /\ ~RefreshRefused(t) /\ ~Focus(t) /\ ~ArriveAtHub(t)
    BY <2>5 DEF RefusedCall, RefreshChecks, RefreshRotates, RefreshRefused, Focus, ArriveAtHub
  <2> QED BY <2>7, <2>9, <2>10, <2>11, <2>12, <2>13, <2>14 DEF TabActs
<1>2. SignAssumption /\ SignInv /\ [SignNext]_signVars => [\A t \in Tabs : Out(t)]_signVars
  BY <1>1
<1>3. SignSpec => []SignInv
  BY SignStart, SignStep, SignAssumption, PTL DEF SignSpec
<1> QED BY <1>2, <1>3, SignAssumption, PTL DEF SignSpec, OutageSignsNobodyOut

(* ------------------------------ Screens -------------------------------- *)
\* Every status a query may show, whatever the tables say.
Words ==
  Statuses \cup {First[q] : q \in Screen} \cup {step.to : step \in Steps}
  \cup {GestureRequests[m][i].sets[q] : m \in Gestures, i \in Nat, q \in Screen}
Answer == [n : Nat, s : Words]
Partial == UNION {[A -> Answer] : A \in SUBSET Screen}
CallShape ==
  {Ready, Over} \cup [at : {"sent"}, stage : Nat, prev : Partial]
  \cup [at : {"answered"}, ok : BOOLEAN, data : Partial, prev : Partial]
FetchShape == {NoFetch, Asked} \cup [at : {"answered"}, data : Answer]
ViewShape ==
  /\ srv \in [Screen -> Answer] /\ shown \in [Screen -> Answer]
  /\ fetch \in [Screen -> FetchShape] /\ call \in [Gestures -> CallShape]

\* Nothing that is shown, or on its way to be, is newer than the server; an
\* answer on its way is at least as new as what is shown.
NotAhead(f) == \A q \in DOMAIN f : f[q].n <= srv[q].n
FetchFits(q) ==
  fetch[q].at = "answered" => shown[q].n <= fetch[q].data.n /\ fetch[q].data.n <= srv[q].n
PrevFits(m, prev) ==
  /\ NotAhead(prev) /\ DOMAIN prev \subseteq Written(m)
  /\ m \notin Optimistic => DOMAIN prev = {}
CallFits(m) ==
  /\ call[m].at = "sent" => PrevFits(m, call[m].prev)
  /\ call[m].at = "answered" =>
       PrevFits(m, call[m].prev) /\ NotAhead(call[m].data) /\ DOMAIN call[m].data \subseteq Written(m)
Behind ==
  /\ NotAhead(shown)
  /\ \A q \in Screen : FetchFits(q)
  /\ \A m \in Gestures : CallFits(m)
ViewInv == ViewShape /\ Behind

LEMMA ViewStart == ViewInit => ViewInv
<1> SUFFICES ASSUME ViewInit PROVE ViewInv
  OBVIOUS
<1>1. srv \in [Screen -> Answer]
  BY DEF ViewInit, Answer, Words
<1> QED BY <1>1 DEF ViewInit, ViewInv, ViewShape, Behind, FetchFits, CallFits, NotAhead, FetchShape, CallShape, NoFetch, Asked, Ready, Answer

LEMMA ServerMoves ==
  ASSUME ViewShape, NEW sets, Changes(sets), \A q \in Screen : q \in DOMAIN sets => sets[q] \in Words
  PROVE  srv' \in [Screen -> Answer] /\ \A q \in Screen : srv[q].n <= srv'[q].n
<1>1. ASSUME NEW q \in Screen
      PROVE  /\ (IF q \in DOMAIN sets THEN [n |-> srv[q].n + 1, s |-> sets[q]] ELSE srv[q]) \in Answer
             /\ srv[q].n <= (IF q \in DOMAIN sets THEN [n |-> srv[q].n + 1, s |-> sets[q]] ELSE srv[q]).n
  BY DEF ViewShape, Answer
<1> QED BY <1>1 DEF Changes

\* What was not ahead of the server is not ahead of a later one.
LEMMA LaterServer ==
  ASSUME ViewShape, srv' \in [Screen -> Answer], \A q \in Screen : srv[q].n <= srv'[q].n,
         NEW f \in Partial, NotAhead(f)
  PROVE  \A q \in DOMAIN f : f[q].n <= srv'[q].n
<1>1. PICK A \in SUBSET Screen : f \in [A -> Answer] BY DEF Partial
<1>2. ASSUME NEW q \in A PROVE f[q].n <= srv'[q].n
  <2>1. f[q].n \in Nat /\ srv[q].n \in Nat /\ srv'[q].n \in Nat BY <1>1 DEF Answer, ViewShape
  <2>2. f[q].n <= srv[q].n /\ srv[q].n <= srv'[q].n BY <1>1 DEF NotAhead
  <2> QED BY <2>1, <2>2
<1> QED BY <1>1, <1>2

LEMMA ShownPartial == ViewShape => shown \in Partial /\ srv \in Partial
  BY DEF ViewShape, Partial

\* A later server leaves what the browser holds where it was.
LEMMA BrowserStands ==
  ASSUME ViewInv, srv' \in [Screen -> Answer], \A q \in Screen : srv[q].n <= srv'[q].n,
         UNCHANGED <<shown, fetch>>
  PROVE  NotAhead(shown)' /\ \A q \in Screen : FetchFits(q)'
<1>1. NotAhead(shown)' BY LaterServer, ShownPartial DEF ViewInv, Behind, NotAhead
<1>2. ASSUME NEW q \in Screen PROVE FetchFits(q)'
  <2> SUFFICES ASSUME fetch[q].at = "answered"
               PROVE  shown[q].n <= fetch[q].data.n /\ fetch[q].data.n <= srv'[q].n
    BY DEF FetchFits
  <2>1. fetch[q].data \in Answer BY DEF ViewInv, ViewShape, FetchShape, NoFetch, Asked
  <2>2. fetch[q].data.n \in Nat /\ srv[q].n \in Nat /\ srv'[q].n \in Nat /\ shown[q].n \in Nat
    BY <2>1 DEF Answer, ViewInv, ViewShape
  <2>3. shown[q].n <= fetch[q].data.n /\ fetch[q].data.n <= srv[q].n /\ srv[q].n <= srv'[q].n
    BY DEF ViewInv, Behind, FetchFits
  <2> QED BY <2>2, <2>3
<1> QED BY <1>1, <1>2

LEMMA SentShape ==
  ASSUME NEW c \in CallShape, c.at = "sent"
  PROVE  c \in [at : {"sent"}, stage : Nat, prev : Partial]
BY DEF CallShape, Ready, Over

LEMMA AnsweredShape ==
  ASSUME NEW c \in CallShape, c.at = "answered"
  PROVE  c \in [at : {"answered"}, ok : BOOLEAN, data : Partial, prev : Partial]
BY DEF CallShape, Ready, Over

LEMMA PrevStands ==
  ASSUME ViewShape, srv' \in [Screen -> Answer], \A q \in Screen : srv[q].n <= srv'[q].n,
         NEW m \in Gestures, NEW prev \in Partial, PrevFits(m, prev)
  PROVE  /\ \A q \in DOMAIN prev : prev[q].n <= srv'[q].n
         /\ DOMAIN prev \subseteq Written(m) /\ (m \notin Optimistic => DOMAIN prev = {})
BY LaterServer DEF PrevFits

LEMMA CallStands ==
  ASSUME ViewInv, srv' \in [Screen -> Answer], \A q \in Screen : srv[q].n <= srv'[q].n,
         NEW m \in Gestures, call'[m] = call[m]
  PROVE  CallFits(m)'
<1>1. call[m] \in CallShape BY DEF ViewInv, ViewShape
<1>2. CASE call[m].at = "sent"
  <2>1. call[m].prev \in Partial BY <1>1, <1>2, SentShape
  <2>2. PrevFits(m, call[m].prev) BY <1>2 DEF ViewInv, Behind, CallFits
  <2> QED BY <1>2, <2>1, <2>2, PrevStands DEF ViewInv, CallFits, PrevFits, NotAhead
<1>3. CASE call[m].at = "answered"
  <2>1. call[m].prev \in Partial /\ call[m].data \in Partial BY <1>1, <1>3, AnsweredShape
  <2>2. PrevFits(m, call[m].prev) /\ NotAhead(call[m].data) /\ DOMAIN call[m].data \subseteq Written(m)
    BY <1>3 DEF ViewInv, Behind, CallFits
  <2>3. \A q \in DOMAIN call[m].data : call[m].data[q].n <= srv'[q].n BY <2>1, <2>2, LaterServer DEF ViewInv
  <2> QED BY <1>3, <2>1, <2>2, <2>3, PrevStands DEF ViewInv, CallFits, PrevFits, NotAhead
<1> QED BY <1>2, <1>3 DEF CallFits

\* What the step owes besides the invariant: no query of the screen goes back
\* to an older answer and stays there.
NoneOlder == \A q \in Screen : shown'[q].n >= shown[q].n \/ fetch'[q] = Asked

LEMMA ShownStays == ASSUME ViewShape, UNCHANGED shown PROVE NoneOlder
<1>1. ASSUME NEW q \in Screen PROVE shown[q].n >= shown[q].n BY DEF ViewShape, Answer
<1> QED BY <1>1 DEF NoneOlder

LEMMA ServerStays ==
  ASSUME ViewShape, UNCHANGED srv
  PROVE  srv' \in [Screen -> Answer] /\ \A q \in Screen : srv[q].n <= srv'[q].n
<1>1. ASSUME NEW q \in Screen PROVE srv[q].n <= srv[q].n BY DEF ViewShape, Answer
<1> QED BY <1>1 DEF ViewShape

\* A step that touches only requests in flight, and starts none's answer.
LEMMA FetchStep ==
  ASSUME ViewInv, UNCHANGED <<srv, shown, call>>, fetch' \in [Screen -> FetchShape],
         \A q \in Screen : fetch'[q] = fetch[q] \/ fetch'[q].at # "answered"
                           \/ (fetch'[q].at = "answered" /\ fetch'[q].data = srv[q])
  PROVE  ViewInv' /\ NoneOlder
<1>1. ViewShape' BY DEF ViewInv, ViewShape
<1>2. ASSUME NEW q \in Screen PROVE FetchFits(q)'
  <2>1. FetchFits(q) /\ shown[q].n <= srv[q].n /\ srv[q].n \in Nat
    BY DEF ViewInv, Behind, NotAhead, ViewShape, Answer
  <2>2. CASE fetch'[q] = fetch[q] BY <2>1, <2>2 DEF FetchFits
  <2>3. CASE fetch'[q].at # "answered" BY <2>3 DEF FetchFits
  <2>4. CASE fetch'[q].data = srv[q] BY <2>1, <2>4 DEF FetchFits
  <2> QED BY <2>2, <2>3, <2>4
<1>3. Behind' BY <1>2, CallStands, ServerStays DEF ViewInv, Behind, NotAhead
<1> QED BY <1>1, <1>3, ShownStays DEF ViewInv

\* What a seeding hook remembers or is answered, is part of what was seen.
LEMMA Pieces ==
  ASSUME NEW f \in [Screen -> Answer], NEW A \in SUBSET Screen
  PROVE  [q \in A |-> f[q]] \in Partial
BY DEF Partial

LEMMA BodyFits ==
  ASSUME NEW now \in [Screen -> Answer], NEW m \in Gestures
  PROVE  /\ Body(m, now) \in Partial /\ DOMAIN Body(m, now) \subseteq Written(m)
         /\ \A q \in DOMAIN Body(m, now) : Body(m, now)[q].n <= now[q].n
<1>1. ASSUME NEW q \in Screen PROVE now[q].n <= now[q].n BY DEF Answer
<1> QED BY <1>1, Pieces DEF Body, Written

LEMMA RememberedFits ==
  ASSUME ViewInv, NEW m \in Gestures
  PROVE  /\ Remembered(m) \in Partial /\ PrevFits(m, Remembered(m))
<1>1. Remembered(m) \in Partial BY Pieces DEF Remembered, ViewInv, ViewShape
<1>2. NotAhead(Remembered(m)) BY DEF Remembered, NotAhead, ViewInv, Behind, ViewShape
<1> QED BY <1>1, <1>2 DEF PrevFits, Remembered, Written

\* A step on one request: the others stand by CallStands.
LEMMA OneCall ==
  ASSUME ViewInv, srv' \in [Screen -> Answer], \A q \in Screen : srv[q].n <= srv'[q].n,
         NEW m \in Gestures, NEW c \in CallShape, call' = [call EXCEPT ![m] = c],
         CallFits(m)'
  PROVE  call' \in [Gestures -> CallShape] /\ \A g \in Gestures : CallFits(g)'
<1>1. ASSUME NEW g \in Gestures, g # m PROVE CallFits(g)'
  BY <1>1, CallStands DEF ViewInv, ViewShape
<1> QED BY <1>1 DEF ViewInv, ViewShape

LEMMA CallsStep == ASSUME ViewInv, NEW m \in Gestures, Calls(m) PROVE ViewInv' /\ NoneOlder
<1> DEFINE c == [at |-> "sent", stage |-> 1, prev |-> Remembered(m)]
<1>0. srv' = srv /\ call' = [call EXCEPT ![m] = c] BY DEF Calls
<1>1. c \in CallShape BY RememberedFits DEF CallShape
<1>2. call'[m] = c BY <1>0 DEF ViewInv, ViewShape
<1>3. CallFits(m)' BY <1>0, <1>2, RememberedFits DEF CallFits, PrevFits, NotAhead
<1>4. call' \in [Gestures -> CallShape] /\ \A g \in Gestures : CallFits(g)'
  <2> HIDE DEF c
  <2> QED BY <1>0, <1>1, <1>3, OneCall, ServerStays DEF ViewInv
<1>5. ASSUME NEW q \in Screen
      PROVE  /\ shown'[q].n = shown[q].n /\ shown'[q] \in Answer
             /\ fetch'[q] = fetch[q] \/ fetch'[q] = NoFetch
  <2>1. shown[q] \in Answer BY DEF ViewInv, ViewShape
  <2>2. [shown[q] EXCEPT !.s = "hoped"] \in Answer /\ [shown[q] EXCEPT !.s = "hoped"].n = shown[q].n
    BY <2>1 DEF Answer, Words, Statuses
  <2> QED BY <2>1, <2>2 DEF Calls
<1>6. shown' \in [Screen -> Answer] /\ fetch' \in [Screen -> FetchShape]
  <2>1. shown' = [q \in Screen |-> shown'[q]] /\ fetch' = [q \in Screen |-> fetch'[q]]
    BY DEF Calls, ViewInv, ViewShape
  <2>2. ASSUME NEW q \in Screen PROVE shown'[q] \in Answer /\ fetch'[q] \in FetchShape
    BY <1>5 DEF ViewInv, ViewShape, FetchShape
  <2> QED BY <2>1, <2>2
<1>7. Behind'
  <2>1. NotAhead(shown)' BY <1>0, <1>5, <1>6 DEF NotAhead, ViewInv, Behind, ViewShape
  <2>2. ASSUME NEW q \in Screen PROVE FetchFits(q)'
    BY <1>0, <1>5 DEF FetchFits, ViewInv, Behind, NoFetch
  <2> QED BY <1>4, <2>1, <2>2 DEF Behind
<1>8. NoneOlder
  <2>1. ASSUME NEW q \in Screen PROVE shown'[q].n >= shown[q].n BY <1>5 DEF ViewInv, ViewShape, Answer
  <2> QED BY <2>1 DEF NoneOlder
<1> QED BY <1>0, <1>4, <1>6, <1>7, <1>8 DEF ViewInv, ViewShape

\* A step of the server that leaves the browser's requests alone, but one call.
LEMMA ServedStep ==
  ASSUME ViewInv, NEW sets, Changes(sets), \A q \in Screen : q \in DOMAIN sets => sets[q] \in Words,
         UNCHANGED <<shown, fetch>>, call' \in [Gestures -> CallShape], \A g \in Gestures : CallFits(g)'
  PROVE  ViewInv' /\ NoneOlder
<1>1. srv' \in [Screen -> Answer] /\ \A q \in Screen : srv[q].n <= srv'[q].n BY ServerMoves DEF ViewInv
<1> QED BY <1>1, BrowserStands, ShownStays DEF ViewInv, ViewShape, Behind

LEMMA ServesStep == ASSUME ViewInv, NEW m \in Gestures, Serves(m) PROVE ViewInv' /\ NoneOlder
<1> DEFINE sets == GestureRequests[m][call[m].stage].sets
<1>1. call[m] \in [at : {"sent"}, stage : Nat, prev : Partial]
  BY SentShape DEF Serves, ViewInv, ViewShape
<1>2. Changes(sets) /\ UNCHANGED <<shown, fetch>> BY DEF Serves
<1>3. \A q \in Screen : q \in DOMAIN sets => sets[q] \in Words
  <2>1. call[m].stage \in Nat BY <1>1
  <2> QED BY <2>1 DEF Words
<1>4. srv' \in [Screen -> Answer] /\ \A q \in Screen : srv[q].n <= srv'[q].n
  <2> HIDE DEF sets
  <2> QED BY <1>2, <1>3, ServerMoves DEF ViewInv
<1>5. PICK c : /\ call' = [call EXCEPT ![m] = c]
               /\ \/ c = [call[m] EXCEPT !.stage = call[m].stage + 1]
                  \/ c = [at |-> "answered", ok |-> TRUE, data |-> Body(m, srv'), prev |-> call[m].prev]
  BY DEF Serves, ViewInv, ViewShape
<1>6. call'[m] = c BY <1>5 DEF ViewInv, ViewShape
<1>7. /\ PrevFits(m, call[m].prev) BY <1>1 DEF ViewInv, Behind, CallFits
<1>8. /\ \A q \in DOMAIN call[m].prev : call[m].prev[q].n <= srv'[q].n
      /\ DOMAIN call[m].prev \subseteq Written(m) /\ (m \notin Optimistic => DOMAIN call[m].prev = {})
  BY <1>1, <1>4, <1>7, PrevStands DEF ViewInv
<1>9. c \in CallShape /\ CallFits(m)'
  <2>1. CASE c = [call[m] EXCEPT !.stage = call[m].stage + 1]
    <3>1. c \in [at : {"sent"}, stage : Nat, prev : Partial] /\ c.prev = call[m].prev /\ c.at = "sent"
      BY <1>1, <2>1
    <3> QED BY <1>6, <1>8, <3>1 DEF CallFits, PrevFits, NotAhead, CallShape
  <2>2. CASE c = [at |-> "answered", ok |-> TRUE, data |-> Body(m, srv'), prev |-> call[m].prev]
    <3>1. /\ Body(m, srv') \in Partial /\ DOMAIN Body(m, srv') \subseteq Written(m)
          /\ \A q \in DOMAIN Body(m, srv') : Body(m, srv')[q].n <= srv'[q].n
      BY <1>4, BodyFits
    <3>2. c \in CallShape BY <1>1, <2>2, <3>1 DEF CallShape
    <3>3. c.at = "answered" /\ c.data = Body(m, srv') /\ c.prev = call[m].prev BY <2>2
    <3> QED BY <1>6, <1>8, <3>1, <3>2, <3>3 DEF CallFits, PrevFits, NotAhead
  <2> QED BY <1>5, <2>1, <2>2
<1>10. call' \in [Gestures -> CallShape] /\ \A g \in Gestures : CallFits(g)'
  BY <1>4, <1>5, <1>9, OneCall
<1> HIDE DEF sets
<1> QED BY <1>2, <1>3, <1>10, ServedStep

LEMMA RefusesStep == ASSUME ViewInv, NEW m \in Gestures, Refuses(m) PROVE ViewInv' /\ NoneOlder
<1> DEFINE c == [at |-> "answered", ok |-> FALSE, data |-> Body(m, srv), prev |-> call[m].prev]
<1>1. call[m].prev \in Partial /\ PrevFits(m, call[m].prev)
  BY SentShape DEF Refuses, ViewInv, ViewShape, Behind, CallFits
<1>2. call' = [call EXCEPT ![m] = c] /\ UNCHANGED <<srv, shown, fetch>> BY DEF Refuses
<1>3. call'[m] = c BY <1>2 DEF ViewInv, ViewShape
<1>4. /\ Body(m, srv) \in Partial /\ DOMAIN Body(m, srv) \subseteq Written(m)
      /\ \A q \in DOMAIN Body(m, srv) : Body(m, srv)[q].n <= srv[q].n
  BY BodyFits DEF ViewInv, ViewShape
<1>5. c \in CallShape BY <1>1, <1>4 DEF CallShape
<1>6. CallFits(m)' BY <1>1, <1>2, <1>3, <1>4 DEF CallFits, PrevFits, NotAhead
<1>7. call' \in [Gestures -> CallShape] /\ \A g \in Gestures : CallFits(g)'
  <2> HIDE DEF c
  <2> QED BY <1>2, <1>5, <1>6, OneCall, ServerStays DEF ViewInv
<1>8. NotAhead(shown)' /\ \A q \in Screen : FetchFits(q)' BY <1>2, BrowserStands, ServerStays DEF ViewInv
<1> QED BY <1>2, <1>7, <1>8, ShownStays DEF ViewInv, ViewShape, Behind

\* The answer is heard.  What the hook writes, or puts back, may be older than
\* what is shown; the discipline of the hooks makes it ask again.
LEMMA HearsStep ==
  ASSUME SeedThenDrop, ViewInv, NEW m \in Gestures, Hears(m)
  PROVE  ViewInv' /\ NoneOlder
<1> DEFINE written == IF call[m].ok THEN call[m].data ELSE call[m].prev
<1>1. call[m] \in [at : {"answered"}, ok : BOOLEAN, data : Partial, prev : Partial]
  BY AnsweredShape DEF Hears, ViewInv, ViewShape
<1>2. call' = [call EXCEPT ![m] = Over] /\ srv' = srv BY DEF Hears
<1>3. call'[m] = Over BY <1>2 DEF ViewInv, ViewShape
<1>4. call' \in [Gestures -> CallShape] /\ \A g \in Gestures : CallFits(g)'
  <2>1. CallFits(m)' BY <1>3 DEF CallFits, Over
  <2>2. Over \in CallShape BY DEF CallShape
  <2> QED BY <1>2, <2>1, <2>2, OneCall, ServerStays DEF ViewInv
<1>5. CASE m \in Elsewhere
  <2>1. UNCHANGED <<shown, fetch>> BY <1>5 DEF Hears
  <2>2. NotAhead(shown)' /\ \A q \in Screen : FetchFits(q)' BY <1>2, <2>1, BrowserStands, ServerStays DEF ViewInv
  <2> QED BY <1>2, <1>4, <2>1, <2>2, ShownStays DEF ViewInv, ViewShape, Behind
<1>6. CASE m \notin Elsewhere
  <2>1. /\ written \in Partial /\ NotAhead(written) /\ DOMAIN written \subseteq Written(m)
        /\ DOMAIN written = {} \/ call[m].ok \/ m \in Settled
    BY <1>1 DEF ViewInv, Behind, CallFits, PrevFits, Settled
  <2>2. /\ shown' = [q \in Screen |-> IF q \in DOMAIN written THEN written[q] ELSE shown[q]]
        /\ fetch' = IF call[m].ok \/ m \in Settled
                    THEN [q \in Screen |-> IF Below(q, Hooks[m].drops) THEN Asked ELSE fetch[q]] ELSE fetch
    BY <1>6 DEF Hears, Seeded, Dropped
  <2>3. PICK A \in SUBSET Screen : written \in [A -> Answer] BY <2>1 DEF Partial
  <2> HIDE DEF written
  <2>4. ASSUME NEW q \in Screen
        PROVE  /\ shown'[q] \in Answer /\ shown'[q].n <= srv[q].n
               /\ fetch'[q] = Asked \/ (fetch'[q] = fetch[q] /\ shown'[q] = shown[q])
    <3>1. CASE q \in DOMAIN written
      <4>1. Below(q, Hooks[m].drops) BY <1>6, <2>1, <3>1 DEF SeedThenDrop
      <4>2. fetch'[q] = Asked BY <2>1, <2>2, <3>1, <4>1
      <4> QED BY <2>1, <2>2, <2>3, <3>1, <4>2 DEF NotAhead
    <3>2. CASE q \notin DOMAIN written
      <4>1. shown'[q] = shown[q] BY <2>2, <3>2
      <4>2. fetch'[q] = Asked \/ fetch'[q] = fetch[q] BY <2>2
      <4> QED BY <4>1, <4>2 DEF ViewInv, ViewShape, Behind, NotAhead
    <3> QED BY <3>1, <3>2
  <2>5. shown' \in [Screen -> Answer] /\ fetch' \in [Screen -> FetchShape]
    <3>1. shown' \in [Screen -> Answer] BY <2>2, <2>4
    <3>2. fetch' \in [Screen -> FetchShape] BY <2>2 DEF ViewInv, ViewShape, FetchShape
    <3> QED BY <3>1, <3>2
  <2>6. NotAhead(shown)' BY <1>2, <2>4, <2>5 DEF NotAhead
  <2>7. ASSUME NEW q \in Screen PROVE FetchFits(q)'
    BY <1>2, <2>4 DEF FetchFits, Asked, ViewInv, Behind
  <2>8. NoneOlder
    <3>1. ASSUME NEW q \in Screen PROVE shown'[q].n >= shown[q].n \/ fetch'[q] = Asked
      BY <2>4 DEF ViewInv, ViewShape, Answer
    <3> QED BY <3>1 DEF NoneOlder
  <2> QED BY <1>2, <1>4, <2>5, <2>6, <2>7, <2>8 DEF ViewInv, ViewShape, Behind
<1> QED BY <1>5, <1>6

LEMMA WorksStep == ASSUME ViewInv, NEW step \in Steps, Works(step) PROVE ViewInv' /\ NoneOlder
<1> DEFINE sets == [q \in {step.q} |-> step.to]
<1>1. Changes(sets) /\ UNCHANGED <<shown, fetch, call>> BY DEF Works
<1>2. \A q \in Screen : q \in DOMAIN sets => sets[q] \in Words
  <2>1. step.to \in Words BY DEF Words
  <2>2. \A q \in DOMAIN sets : sets[q] = step.to OBVIOUS
  <2> QED BY <2>1, <2>2
<1> HIDE DEF sets
<1>3. srv' \in [Screen -> Answer] /\ \A q \in Screen : srv[q].n <= srv'[q].n BY <1>1, <1>2, ServerMoves DEF ViewInv
<1>4. \A g \in Gestures : CallFits(g)' BY <1>1, <1>3, CallStands
<1> QED BY <1>1, <1>2, <1>4, ServedStep DEF ViewInv, ViewShape

LEMMA ReceivesStep == ASSUME ViewInv, NEW q \in Screen, Receives(q) PROVE ViewInv' /\ NoneOlder
<1>1. fetch[q] \in [at : {"answered"}, data : Answer]
  BY DEF Receives, ViewInv, ViewShape, FetchShape, NoFetch, Asked
<1>2. /\ shown' = [shown EXCEPT ![q] = fetch[q].data] /\ fetch' = [fetch EXCEPT ![q] = NoFetch]
      /\ srv' = srv /\ call' = call
  BY DEF Receives
<1>3. FetchFits(q) /\ fetch[q].at = "answered" BY DEF ViewInv, Behind, Receives
<1>4. ASSUME NEW p \in Screen
      PROVE  /\ shown'[p] \in Answer /\ shown'[p].n <= srv[p].n /\ shown'[p].n >= shown[p].n
             /\ fetch'[p] = NoFetch \/ (fetch'[p] = fetch[p] /\ shown'[p] = shown[p])
  <2>1. CASE p = q
    <3>1. shown'[p] = fetch[q].data /\ fetch'[p] = NoFetch BY <1>2, <2>1 DEF ViewInv, ViewShape
    <3>2. fetch[q].data \in Answer /\ shown[q] \in Answer BY <1>1 DEF ViewInv, ViewShape
    <3>3. shown[q].n <= fetch[q].data.n /\ fetch[q].data.n <= srv[q].n BY <1>3 DEF FetchFits
    <3> QED BY <2>1, <3>1, <3>2, <3>3 DEF Answer
  <2>2. CASE p # q
    <3>1. shown'[p] = shown[p] /\ fetch'[p] = fetch[p] BY <1>2, <2>2 DEF ViewInv, ViewShape
    <3>2. shown[p] \in Answer BY DEF ViewInv, ViewShape
    <3>3. shown[p].n <= srv[p].n BY DEF ViewInv, ViewShape, Behind, NotAhead
    <3> QED BY <3>1, <3>2, <3>3 DEF Answer
  <2> QED BY <2>1, <2>2
<1>5. shown' \in [Screen -> Answer] /\ fetch' \in [Screen -> FetchShape]
  BY <1>1, <1>2 DEF ViewInv, ViewShape, FetchShape
<1>6. NotAhead(shown)' BY <1>2, <1>4, <1>5 DEF NotAhead
<1>7. ASSUME NEW p \in Screen PROVE FetchFits(p)' BY <1>2, <1>4 DEF FetchFits, NoFetch, ViewInv, Behind
<1>8. \A g \in Gestures : CallFits(g)' BY <1>2, CallStands, ServerStays DEF ViewInv
<1> QED BY <1>2, <1>4, <1>5, <1>6, <1>7, <1>8 DEF ViewInv, ViewShape, Behind, NoneOlder

LEMMA AsksStep == ASSUME ViewInv, NEW q \in Screen, Polled(q) \/ Answers(q) PROVE ViewInv' /\ NoneOlder
<1>1. UNCHANGED <<srv, shown, call>> BY DEF Polled, Answers
<1>2. PICK f : /\ fetch' = [fetch EXCEPT ![q] = f]
               /\ f = Asked \/ f = [at |-> "answered", data |-> srv[q]]
  BY DEF Polled, Answers
<1>3. f \in FetchShape BY <1>2 DEF FetchShape, ViewInv, ViewShape
<1>4. fetch' \in [Screen -> FetchShape] BY <1>2, <1>3 DEF ViewInv, ViewShape
<1>5. \A p \in Screen : fetch'[p] = fetch[p] \/ fetch'[p].at # "answered"
                        \/ (fetch'[p].at = "answered" /\ fetch'[p].data = srv[p])
  BY <1>2 DEF ViewInv, ViewShape, Asked
<1> QED BY <1>1, <1>4, <1>5, FetchStep

LEMMA SocketStep ==
  ASSUME ViewInv, NEW c \in Channels, Delivers(c) \/ Disconnects(c) \/ Connects(c)
  PROVE  ViewInv' /\ NoneOlder
<1>1. UNCHANGED <<srv, shown, call>> BY DEF Delivers, Disconnects, Connects
<1>2. fetch' = fetch \/ fetch' = [q \in Screen |-> IF Below(q, SocketDrops(c)) THEN Asked ELSE fetch[q]]
  BY DEF Delivers, Disconnects, Connects, Dropped
<1>3. fetch' \in [Screen -> FetchShape] BY <1>2 DEF ViewInv, ViewShape, FetchShape
<1>4. \A q \in Screen : fetch'[q] = fetch[q] \/ fetch'[q].at # "answered"
                        \/ (fetch'[q].at = "answered" /\ fetch'[q].data = srv[q])
  BY <1>2 DEF ViewInv, ViewShape, Asked
<1> QED BY <1>1, <1>3, <1>4, FetchStep

LEMMA ViewStep == ASSUME SeedThenDrop, ViewInv, [ViewNext]_view PROVE ViewInv' /\ NoneOlder
<1>1. CASE \E m \in Gestures : Calls(m) \/ Serves(m) \/ Refuses(m) \/ Hears(m)
  BY <1>1, CallsStep, ServesStep, RefusesStep, HearsStep
<1>2. CASE \E step \in Steps : Works(step)
  BY <1>2, WorksStep
<1>3. CASE \E q \in Screen : Polled(q) \/ Answers(q) \/ Receives(q)
  BY <1>3, AsksStep, ReceivesStep
<1>4. CASE \E c \in Channels : Delivers(c) \/ Disconnects(c) \/ Connects(c)
  BY <1>4, SocketStep
<1>5. CASE UNCHANGED view
  <2>1. UNCHANGED <<srv, shown, fetch, call>> BY <1>5 DEF view
  <2>2. \A m \in Gestures : CallFits(m)' BY <2>1, CallStands, ServerStays DEF ViewInv
  <2>3. NotAhead(shown)' /\ \A q \in Screen : FetchFits(q)' BY <2>1, BrowserStands, ServerStays DEF ViewInv
  <2> QED BY <2>1, <2>2, <2>3, ShownStays DEF ViewInv, ViewShape, Behind
<1> QED BY <1>1, <1>2, <1>3, <1>4, <1>5 DEF ViewNext

\* On a screen whose gestures all drop what their hooks write, an older answer
\* never stands (hooks/queries.ts: seed, then drop; onError and onSettled of the
\* approvals).
THEOREM OlderNeverStands == SeedThenDrop => (ViewSpec => OlderAsksAgain)
<1> SUFFICES ASSUME SeedThenDrop PROVE ViewSpec => OlderAsksAgain
  OBVIOUS
<1>1. ViewInit => ViewInv BY ViewStart
<1>2. ViewInv /\ [ViewNext]_view => ViewInv' BY ViewStep
<1>3. ViewInv /\ [ViewNext]_view => [\A q \in Screen : shown'[q].n >= shown[q].n \/ fetch'[q] = Asked]_view
  BY ViewStep DEF NoneOlder
<1> QED BY <1>1, <1>2, <1>3, PTL DEF ViewSpec, OlderAsksAgain
=============================================================================
