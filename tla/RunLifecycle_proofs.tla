------------------------ MODULE RunLifecycle_proofs ------------------------
(**************************************************************************)
(* Theorems about RunLifecycle, for any number of threads and requests.   *)
(*                                                                        *)
(* Typing needs to know that a thread at work has an item left, that a    *)
(* thread about to fail a run has read a status, that a deleted run stays *)
(* deleted, and that a request that forces a status has a stage to force. *)
(*                                                                        *)
(* On top of typing: what a step does to the threads, how many items they *)
(* may still begin after a stop, which guards have a thread behind them,  *)
(* and which threads still have their subprocess in the registry.         *)
(**************************************************************************)
EXTENDS RunLifecycle, SequenceTheorems, TLAPS

Working == {"load", "open", "clear", "check", "begin", "register", "work"}

\* What typing rests on, besides itself.
HasItem == \A w \in Workers : worker[w].pc \in Working => worker[w].left > 0
HasRead == \A w \in Workers :
             worker[w].pc = "crashed" => worker[w].seen \in Status \/ run.status = "gone"
ForcesStage == \A h \in Handlers : \A i \in 1..Len(handler[h].todo) :
                 handler[h].todo[i] = "force" => handler[h].stage # "drafting"

TypeInv == TypeOK /\ HasItem /\ HasRead /\ ForcesStage

-----------------------------------------------------------------------------
(* Types of the operators.                                               *)

\* A commit keeps the row a row, and a deleted run deleted.
LEMMA FlushedType ==
  ASSUME run \in RunRow, NEW old \in RunRow, NEW new \in RunRow
  PROVE  /\ Flushed(old, new) \in RunRow
         /\ run.status = "gone" => Flushed(old, new) = run
BY DEF Flushed, RunRow

LEMMA StatusSetType ==
  ASSUME run \in RunRow, NEW seen, NEW new \in Status
  PROVE  /\ StatusSet(seen, new) \in RunRow
         /\ run.status = "gone" => StatusSet(seen, new) = run
BY DEF StatusSet, RunRow

LEMMA FailedAtType ==
  ASSUME run \in RunRow, NEW seen, NEW stage \in Status
  PROVE  /\ FailedAt(seen, stage) \in RunRow
         /\ run.status = "gone" => FailedAt(seen, stage) = run
BY DEF FailedAt, RunRow, Status, Terminal

LEMMA TailType ==
  ASSUME NEW s \in Seq(Steps), s # <<>>
  PROVE  /\ Tail(s) \in Seq(Steps)
         /\ Len(Tail(s)) = Len(s) - 1 /\ Len(s) > 0
         /\ \A i \in 1..Len(Tail(s)) : Tail(s)[i] = s[i + 1]
BY HeadTailProperties

\* A thread that ends, or starts, keeps every slot well formed.
LEMMA LeaveType ==
  ASSUME TypeInv, NEW w \in Workers, Leave(w)
  PROVE  /\ worker' \in [Workers -> Thread \cup {IdleWorker}]
         /\ generating' \in BOOLEAN /\ linking' \in BOOLEAN
         /\ \A v \in Workers : worker'[v] = worker[v] \/ worker'[v] = IdleWorker
BY DEF TypeInv, TypeOK, Leave

LEMMA StartType ==
  ASSUME TypeInv, NEW w \in Workers, NEW kind \in Kinds, Start(w, kind)
  PROVE  /\ worker' \in [Workers -> Thread \cup {IdleWorker}]
         /\ \A v \in Workers : worker'[v] = worker[v]
                \/ (worker'[v].left > 0 /\ worker'[v].pc \in {"load", "work"})
<1>1. Dispatched(kind) \in Thread /\ Dispatched(kind).left > 0
      /\ Dispatched(kind).pc \in {"load", "work"}
  BY ItemsAssumption DEF Dispatched, Thread, WorkerPC, Seen
<1>2. QED  BY <1>1 DEF TypeInv, TypeOK, Start

\* A request at a step has steps left; a request that goes on is well formed.
LEMMA AtType ==
  ASSUME TypeInv, NEW h \in Handlers, NEW step, At(h, step)
  PROVE  /\ handler[h] \in Serving /\ handler[h].todo # <<>>
         /\ handler[h].todo \in Seq(Steps) /\ handler[h].was \in RunRow
         /\ handler[h].todo[1] = step /\ 1 \in 1..Len(handler[h].todo)
<1>1. handler[h] \in Serving \cup {IdleHandler}
  BY DEF TypeInv, TypeOK
<1>2. handler[h].todo # <<>>
  BY DEF At
<1>3. handler[h] \in Serving
  BY <1>1, <1>2 DEF IdleHandler
<1>4. handler[h].todo \in Seq(Steps) /\ handler[h].was \in RunRow
  BY <1>3 DEF Serving
<1>5. Len(handler[h].todo) > 0 /\ Head(handler[h].todo) = handler[h].todo[1]
  BY <1>2, <1>4, HeadTailProperties
<1>6. QED  BY <1>2, <1>3, <1>4, <1>5 DEF At

LEMMA ResumeType ==
  ASSUME TypeInv, NEW h \in Handlers, handler[h] \in Serving,
         NEW rest \in Seq(Steps), NEW now \in RunRow, Resume(h, rest, now),
         \A i \in 1..Len(rest) : rest[i] = "force" => handler[h].stage # "drafting"
  PROVE  /\ handler' \in [Handlers -> Serving \cup {IdleHandler}]
         /\ ForcesStage'
<1> DEFINE next == IF rest = <<>> THEN IdleHandler
                   ELSE [handler[h] EXCEPT !.todo = rest, !.was = now]
<1>1. handler' = [handler EXCEPT ![h] = next]
  BY DEF Resume
<1>2. next \in Serving \cup {IdleHandler}
  BY DEF Serving
<1>3. \A i \in 1..Len(next.todo) : next.todo[i] = "force" => next.stage # "drafting"
  BY DEF Serving, IdleHandler
<1> HIDE DEF next
<1>4. handler' \in [Handlers -> Serving \cup {IdleHandler}]
  BY <1>1, <1>2 DEF TypeInv, TypeOK
<1>5. \A g \in Handlers : handler'[g] = handler[g] \/ handler'[g] = next
  BY <1>1 DEF TypeInv, TypeOK
<1>6. ForcesStage'
  BY <1>3, <1>5 DEF TypeInv, ForcesStage
<1>7. QED  BY <1>4, <1>6

LEMMA StepDoneType ==
  ASSUME TypeInv, NEW h \in Handlers, NEW step, At(h, step), StepDone(h)
  PROVE  /\ handler' \in [Handlers -> Serving \cup {IdleHandler}]
         /\ ForcesStage'
<1> DEFINE rest == Tail(handler[h].todo)
<1>1. /\ handler[h] \in Serving /\ handler[h].todo # <<>>
      /\ handler[h].todo \in Seq(Steps) /\ handler[h].was \in RunRow
  BY AtType
<1>2. /\ rest \in Seq(Steps) /\ Len(rest) = Len(handler[h].todo) - 1
      /\ \A i \in 1..Len(rest) : rest[i] = handler[h].todo[i + 1]
  BY <1>1, TailType
<1>3. Len(handler[h].todo) \in Nat
  BY <1>1, LenProperties
<1>4. \A i \in 1..Len(rest) : rest[i] = "force" => handler[h].stage # "drafting"
  <2> SUFFICES ASSUME NEW i \in 1..Len(rest), rest[i] = "force"
               PROVE  handler[h].stage # "drafting"
    OBVIOUS
  <2>1. i + 1 \in 1..Len(handler[h].todo) /\ handler[h].todo[i + 1] = "force"
    BY <1>2, <1>3
  <2>2. QED  BY <2>1 DEF TypeInv, ForcesStage
<1>5. Resume(h, rest, handler[h].was)
  BY DEF StepDone
<1> HIDE DEF rest
<1>6. QED  BY <1>1, <1>2, <1>4, <1>5, ResumeType

LEMMA SavesType ==
  ASSUME TypeInv, NEW h \in Handlers, NEW step, At(h, step),
         NEW new \in RunRow, Saves(h, new)
  PROVE  /\ run' \in RunRow /\ (run.status = "gone" => run' = run)
         /\ handler' \in [Handlers -> Serving \cup {IdleHandler}]
         /\ ForcesStage'
<1> DEFINE lost == run.status = "gone" /\ new # handler[h].was
           rest == Tail(handler[h].todo)
<1>1. /\ handler[h] \in Serving /\ handler[h].todo # <<>>
      /\ handler[h].todo \in Seq(Steps) /\ handler[h].was \in RunRow
  BY AtType
<1>2. /\ rest \in Seq(Steps) /\ Len(rest) = Len(handler[h].todo) - 1
      /\ \A i \in 1..Len(rest) : rest[i] = handler[h].todo[i + 1]
  BY <1>1, TailType
<1>3. Len(handler[h].todo) \in Nat
  BY <1>1, LenProperties
<1>4. \A i \in 1..Len(rest) : rest[i] = "force" => handler[h].stage # "drafting"
  <2> SUFFICES ASSUME NEW i \in 1..Len(rest), rest[i] = "force"
               PROVE  handler[h].stage # "drafting"
    OBVIOUS
  <2>1. i + 1 \in 1..Len(handler[h].todo) /\ handler[h].todo[i + 1] = "force"
    BY <1>2, <1>3
  <2>2. QED  BY <2>1 DEF TypeInv, ForcesStage
<1>5. run' = Flushed(handler[h].was, new)
  BY DEF Saves
<1>6. run' \in RunRow /\ (run.status = "gone" => run' = run)
  BY <1>1, <1>5, FlushedType DEF TypeInv, TypeOK
<1>7. CASE lost
  <2>1. Resume(h, <<>>, new)
    BY <1>7 DEF Saves
  <2>2. <<>> \in Seq(Steps) /\ \A i \in 1..Len(<<>>) : FALSE
    BY EmptySeq
  <2>3. QED  BY <1>1, <1>6, <2>1, <2>2, ResumeType
<1>8. CASE ~lost
  <2>1. Resume(h, rest, new)
    BY <1>8 DEF Saves
  <2> HIDE DEF rest
  <2>2. QED  BY <1>1, <1>2, <1>4, <1>6, <2>1, ResumeType
<1>9. QED  BY <1>7, <1>8

\* What a step of a request leaves to a thread.
LEMMA KeepsThreads ==
  ASSUME TypeInv, run.status = "gone" => run'.status = "gone",
         \A w \in Workers : /\ worker'[w].pc = worker[w].pc
                            /\ worker'[w].left = worker[w].left
                            /\ worker'[w].seen = worker[w].seen
  PROVE  HasItem' /\ HasRead'
BY DEF TypeInv, HasItem, HasRead

LEMMA RegistryType ==
  ASSUME TypeInv
  PROVE  /\ Untracked(worker) \in [Workers -> Thread \cup {IdleWorker}]
         /\ Killed(worker) \in [Workers -> Thread \cup {IdleWorker}]
         /\ \A w \in Workers :
              /\ Untracked(worker)[w].pc = worker[w].pc
              /\ Untracked(worker)[w].left = worker[w].left
              /\ Untracked(worker)[w].seen = worker[w].seen
              /\ Killed(worker)[w].pc = worker[w].pc
              /\ Killed(worker)[w].left = worker[w].left
              /\ Killed(worker)[w].seen = worker[w].seen
              /\ Untracked(worker)[w].late = worker[w].late
              /\ Untracked(worker)[w].kind = worker[w].kind
              /\ Killed(worker)[w].late = worker[w].late
              /\ Killed(worker)[w].kind = worker[w].kind
              /\ Killed(worker)[w].proc =
                   IF worker[w].proc = "tracked" THEN "none" ELSE worker[w].proc
<1>1. \A w \in Workers : worker[w] \in Thread \cup {IdleWorker}
  BY DEF TypeInv, TypeOK
<1> DEFINE R(x, p) == [x EXCEPT !.proc = p]
           U(x) == [x EXCEPT !.proc = IF @ = "tracked" THEN "alive" ELSE @]
           K(x) == [x EXCEPT !.proc = IF @ = "tracked" THEN "none" ELSE @]
<1>2. ASSUME NEW x \in Thread \cup {IdleWorker}, NEW p \in {"none", "alive", "tracked"}
      PROVE  /\ x.proc # "none" \/ x.proc = p => R(x, p) \in Thread \cup {IdleWorker}
             /\ x.proc \in {"none", "alive", "tracked"}
             /\ R(x, p).pc = x.pc /\ R(x, p).left = x.left /\ R(x, p).seen = x.seen
             /\ R(x, p).late = x.late /\ R(x, p).kind = x.kind /\ R(x, p).proc = p
  <2>1. CASE x \in Thread
    BY <2>1 DEF Thread
  <2>2. CASE x = IdleWorker
    BY <2>2 DEF IdleWorker
  <2>3. QED  BY <2>1, <2>2
<1>3. ASSUME NEW x \in Thread \cup {IdleWorker}
      PROVE  /\ U(x) \in Thread \cup {IdleWorker} /\ K(x) \in Thread \cup {IdleWorker}
             /\ U(x).pc = x.pc /\ U(x).left = x.left /\ U(x).seen = x.seen
             /\ K(x).pc = x.pc /\ K(x).left = x.left /\ K(x).seen = x.seen
             /\ U(x).late = x.late /\ U(x).kind = x.kind
             /\ K(x).late = x.late /\ K(x).kind = x.kind
             /\ K(x).proc = IF x.proc = "tracked" THEN "none" ELSE x.proc
  <2> DEFINE u == IF x.proc = "tracked" THEN "alive" ELSE x.proc
             k == IF x.proc = "tracked" THEN "none" ELSE x.proc
  <2>1. U(x) = R(x, u) /\ K(x) = R(x, k)
    OBVIOUS
  <2> HIDE DEF U, K, R
  <2>2. x.proc \in {"none", "alive", "tracked"}
    BY <1>2
  <2>3. /\ u \in {"none", "alive", "tracked"} /\ (x.proc # "none" \/ x.proc = u)
        /\ k \in {"none", "alive", "tracked"} /\ (x.proc # "none" \/ x.proc = k)
    BY <2>2
  <2>4. k = IF x.proc = "tracked" THEN "none" ELSE x.proc
    OBVIOUS
  <2> HIDE DEF u, k
  <2>5. QED  BY <1>2, <2>1, <2>3, <2>4
<1>4. /\ Untracked(worker) = [w \in Workers |-> U(worker[w])]
      /\ Killed(worker) = [w \in Workers |-> K(worker[w])]
  BY DEF Untracked, Killed
<1> HIDE DEF U, K, R
<1>5. QED  BY <1>1, <1>3, <1>4

-----------------------------------------------------------------------------
(* Type correctness, thread by thread.                                   *)

LEMMA InitTyped == Init => TypeInv
<1> SUFFICES ASSUME Init PROVE TypeInv
  OBVIOUS
<1>1. run \in RunRow /\ event = FALSE /\ generating = FALSE /\ linking = FALSE
      /\ approved = FALSE /\ output = "none"
      /\ worker = [w \in Workers |-> IdleWorker]
  BY DryAssumption DEF Init, RunRow, Status, InProgress
<1>2. PICK creator \in Handlers :
        handler = [h \in Handlers |->
          IF h = creator
          THEN [cmd |-> "create", todo |-> <<"credential", "dispatch">>,
                stage |-> "processing", was |-> run]
          ELSE IdleHandler]
  BY DEF Init
<1>3. handler \in [Handlers -> Serving \cup {IdleHandler}]
  BY <1>1, <1>2 DEF Serving, Steps, Stages
<1>4. ForcesStage
  BY <1>2 DEF ForcesStage, IdleHandler
<1>5. HasItem /\ HasRead
  BY <1>1 DEF HasItem, HasRead, IdleWorker, Working
<1>6. QED  BY <1>1, <1>3, <1>4, <1>5 DEF TypeInv, TypeOK

\* The steps a request can still have to take when it is accepted.
LEMMA ScriptType ==
  ASSUME NEW cmd \in AllCommands, NEW r \in RunRow
  PROVE  /\ Script(cmd, r) \in Seq(Steps) /\ Target(cmd, r) \in Stages
         /\ \A i \in 1..Len(Script(cmd, r)) :
              Script(cmd, r)[i] = "force" => Target(cmd, r) # "drafting"
<1>1. ResumeStage(r.failedStage) \in Stages \ {"drafting"}
  BY DEF ResumeStage, Stages
<1>2. Target(cmd, r) \in Stages /\ (cmd = "retry" => Target(cmd, r) # "drafting")
  BY <1>1 DEF Target, Stages
<1>3. Script(cmd, r) \in Seq(Steps)
  <2>1. /\ <<"flag", "event", "kill", "cancel", "cleanup">> \in Seq(Steps)
        /\ <<"event", "kill", "cleanup">> \in Seq(Steps)
        /\ <<"flag", "cancel", "event", "kill", "cleanup">> \in Seq(Steps)
    BY DEF Steps
  <2>2. /\ <<"clear", "unflag", "force", "credential", "wipe", "dispatch">> \in Seq(Steps)
        /\ <<"clear", "unflag", "force", "credential", "dispatch">> \in Seq(Steps)
    BY DEF Steps
  <2>3. /\ <<"wipe", "reopen", "credential", "dispatch">> \in Seq(Steps)
        /\ <<"delete", "clear">> \in Seq(Steps) /\ <<"dispatch">> \in Seq(Steps)
    BY DEF Steps
  <2>4. QED  BY <2>1, <2>2, <2>3, Zenon DEF Script
<1>4. cmd # "retry" => \A i \in 1..Len(Script(cmd, r)) : Script(cmd, r)[i] # "force"
  BY DEF Script, AllCommands
<1>5. QED  BY <1>2, <1>3, <1>4

LEMMA RequestTyped ==
  ASSUME TypeInv, NEW h \in Handlers, NEW cmd \in Commands, Request(h, cmd)
  PROVE  TypeInv'
<1> DEFINE new == [cmd |-> cmd, todo |-> Script(cmd, run),
                   stage |-> Target(cmd, run), was |-> run]
<1>1. cmd \in AllCommands /\ run \in RunRow
  BY CommandsAssumption DEF TypeInv, TypeOK
<1>2. new \in Serving
  BY <1>1, ScriptType DEF Serving
<1>3. \A i \in 1..Len(new.todo) : new.todo[i] = "force" => new.stage # "drafting"
  BY <1>1, ScriptType
<1>4. handler' = [handler EXCEPT ![h] = new]
  BY DEF Request
<1> HIDE DEF new
<1>5. handler' \in [Handlers -> Serving \cup {IdleHandler}]
  BY <1>2, <1>4 DEF TypeInv, TypeOK
<1>6. \A g \in Handlers : handler'[g] = handler[g] \/ handler'[g] = new
  BY <1>4 DEF TypeInv, TypeOK
<1>7. ForcesStage'
  BY <1>3, <1>6 DEF TypeInv, ForcesStage
<1>8. UNCHANGED <<run, event, generating, linking, approved, output, worker>>
  BY DEF Request
<1>9. HasItem' /\ HasRead'
  BY <1>8, KeepsThreads
<1>10. QED  BY <1>5, <1>7, <1>8, <1>9 DEF TypeInv, TypeOK

LEMMA HandlerTyped ==
  ASSUME TypeInv, NEW h \in Handlers, HandlerStep(h)
  PROVE  TypeInv'
<1> USE DEF TypeInv
<1>1. CASE SetFlag(h)
  <2>1. [handler[h].was EXCEPT !.flag = TRUE] \in RunRow
    BY <1>1, AtType DEF SetFlag, RunRow
  <2>2. QED  BY <1>1, <2>1, SavesType, KeepsThreads DEF SetFlag, TypeOK
<1>2. CASE RequestCancel(h)
  BY <1>2, StepDoneType, KeepsThreads DEF RequestCancel, TypeOK
<1>3. CASE StopRunWork(h)
  BY <1>3, StepDoneType, KeepsThreads DEF StopRunWork, TypeOK
<1>4. CASE SetCancelled(h)
  <2>1. [handler[h].was EXCEPT !.status = "cancelled"] \in RunRow
    BY <1>4, AtType DEF SetCancelled, RunRow, Status, Terminal, InProgress, Stages
  <2>2. QED  BY <1>4, <2>1, SavesType, KeepsThreads DEF SetCancelled, TypeOK
<1>5. CASE BlameProcessing(h)
  <2>1. [handler[h].was EXCEPT !.failedStage = "processing"] \in RunRow
    BY <1>5, AtType DEF BlameProcessing, RunRow, Status, Terminal, InProgress, Stages
  <2>2. QED  BY <1>5, <2>1, SavesType, KeepsThreads DEF BlameProcessing, TypeOK
<1>6. CASE Refuse(h)
  <2>1. [handler[h].was EXCEPT !.status = "failed"] \in RunRow
    BY <1>6, AtType DEF Refuse, RunRow, Status, Terminal, InProgress, Stages
  <2>2. QED  BY <1>6, <2>1, SavesType, KeepsThreads DEF Refuse, TypeOK
<1>7. CASE KillProcesses(h)
  BY <1>7, StepDoneType, RegistryType, KeepsThreads DEF KillProcesses, TypeOK
<1>8. CASE ClearRegistry(h)
  BY <1>8, StepDoneType, RegistryType, KeepsThreads DEF ClearRegistry, TypeOK
<1>9. CASE ResetCancel(h)
  <2>1. [handler[h].was EXCEPT !.flag = FALSE, !.failedStage = "none"] \in RunRow
    BY <1>9, AtType DEF ResetCancel, RunRow
  <2>2. /\ run' \in RunRow /\ (run.status = "gone" => run' = run)
        /\ handler' \in [Handlers -> Serving \cup {IdleHandler}] /\ ForcesStage'
    BY <1>9, <2>1, SavesType DEF ResetCancel
  <2>3. /\ worker' \in [Workers -> Thread \cup {IdleWorker}]
        /\ \A w \in Workers : /\ worker'[w].pc = worker[w].pc
                              /\ worker'[w].left = worker[w].left
                              /\ worker'[w].seen = worker[w].seen
    <3>1. \A w \in Workers : worker[w] \in Thread \cup {IdleWorker}
      BY DEF TypeOK
    <3>2. \A x \in Thread \cup {IdleWorker} :
            /\ [x EXCEPT !.late = 0] \in Thread \cup {IdleWorker}
            /\ [x EXCEPT !.late = 0].pc = x.pc /\ [x EXCEPT !.late = 0].left = x.left
            /\ [x EXCEPT !.late = 0].seen = x.seen
      BY DEF Thread, IdleWorker
    <3>3. worker' = [w \in Workers |->
             IF run'.flag THEN worker[w] ELSE [worker[w] EXCEPT !.late = 0]]
      BY <1>9 DEF ResetCancel
    <3>4. QED  BY <3>1, <3>2, <3>3
  <2>4. HasItem' /\ HasRead'
    BY <2>2, <2>3, KeepsThreads
  <2>5. QED  BY <1>9, <2>2, <2>3, <2>4 DEF ResetCancel, TypeOK
<1>10. CASE ForceStatus(h)
  <2>1. handler[h].stage \in Stages \ {"drafting"}
    <3>1. At(h, "force")
      BY <1>10 DEF ForceStatus
    <3>2. handler[h] \in Serving /\ handler[h].todo[1] = "force"
          /\ 1 \in 1..Len(handler[h].todo)
      BY <3>1, AtType
    <3>3. QED  BY <3>2 DEF ForcesStage, Serving
  <2>2. [handler[h].was EXCEPT !.status = handler[h].stage] \in RunRow
    BY <1>10, <2>1, AtType DEF ForceStatus, RunRow, Status, InProgress, Stages
  <2>3. QED  BY <1>10, <2>2, SavesType, KeepsThreads DEF ForceStatus, TypeOK
<1>11. CASE Reopen(h)
  <2>1. [handler[h].was EXCEPT !.status = "processing"] \in RunRow
    BY <1>11, AtType DEF Reopen, RunRow, Status, InProgress
  <2>2. CASE StepDone(h) /\ UNCHANGED run
    BY <1>11, <2>2, StepDoneType, KeepsThreads DEF Reopen, TypeOK
  <2>3. CASE Saves(h, [handler[h].was EXCEPT !.status = "processing"])
    BY <1>11, <2>1, <2>3, SavesType, KeepsThreads DEF Reopen, TypeOK
  <2>4. QED  BY <1>11, <2>2, <2>3 DEF Reopen
<1>12. CASE WipeCases(h)
  BY <1>12, StepDoneType, KeepsThreads DEF WipeCases, TypeOK
<1>13. CASE PrepareCredential(h)
  <2>1. At(h, "credential")
    BY <1>13 DEF PrepareCredential
  <2>2. CASE StepDone(h)
    BY <1>13, <2>1, <2>2, StepDoneType, KeepsThreads DEF PrepareCredential, TypeOK
  <2>3. CASE Resume(h, <<"blame", "refuse">>, handler[h].was)
    <3>1. <<"blame", "refuse">> \in Seq(Steps)
      BY DEF Steps
    <3>2. \A i \in 1..Len(<<"blame", "refuse">>) : <<"blame", "refuse">>[i] # "force"
      OBVIOUS
    <3>3. handler' \in [Handlers -> Serving \cup {IdleHandler}] /\ ForcesStage'
      BY <2>1, <2>3, <3>1, <3>2, AtType, ResumeType
    <3>4. QED  BY <1>13, <3>3, KeepsThreads DEF PrepareCredential, TypeOK
  <2>4. QED  BY <1>13, <2>2, <2>3 DEF PrepareCredential
<1>14. CASE DispatchPipeline(h)
  <2>1. PICK w \in Workers, k \in Kinds : Start(w, k)
    BY <1>14 DEF DispatchPipeline, Kinds
  <2>2. /\ worker' \in [Workers -> Thread \cup {IdleWorker}] /\ HasItem' /\ HasRead'
    BY <1>14, <2>1, StartType DEF DispatchPipeline, HasItem, HasRead
  <2>3. QED  BY <1>14, <2>2, StepDoneType DEF DispatchPipeline, TypeOK
<1>15. CASE DispatchDraft(h)
  <2>1. PICK w \in Workers, k \in Kinds : Start(w, k)
    BY <1>15 DEF DispatchDraft, Kinds
  <2>2. /\ worker' \in [Workers -> Thread \cup {IdleWorker}] /\ HasItem' /\ HasRead'
    BY <1>15, <2>1, StartType DEF DispatchDraft, HasItem, HasRead
  <2>3. QED  BY <1>15, <2>2, StepDoneType DEF DispatchDraft, TypeOK
<1>16. CASE LaunchExecution(h)
  <2>1. PICK w \in Workers, k \in Kinds : Start(w, k)
    BY <1>16 DEF LaunchExecution, Kinds
  <2>2. /\ worker' \in [Workers -> Thread \cup {IdleWorker}] /\ HasItem' /\ HasRead'
    BY <1>16, <2>1, StartType DEF LaunchExecution, HasItem, HasRead
  <2>3. QED  BY <1>16, <2>2, StepDoneType DEF LaunchExecution, TypeOK
<1>17. CASE StartCreateLink(h)
  <2>1. linking' \in BOOLEAN /\ (UNCHANGED worker \/ \E w \in Workers, k \in Kinds : Start(w, k))
    BY <1>17 DEF StartCreateLink, LinkKinds, Kinds, TypeOK
  <2>2. /\ worker' \in [Workers -> Thread \cup {IdleWorker}] /\ HasItem' /\ HasRead'
    <3>1. CASE UNCHANGED worker
      BY <1>17, <3>1, KeepsThreads DEF StartCreateLink, TypeOK
    <3>2. ASSUME NEW w \in Workers, NEW k \in Kinds, Start(w, k)
          PROVE  /\ worker' \in [Workers -> Thread \cup {IdleWorker}]
                 /\ HasItem' /\ HasRead'
      BY <1>17, <3>2, StartType DEF StartCreateLink, HasItem, HasRead
    <3>3. QED  BY <2>1, <3>1, <3>2
  <2>3. QED  BY <1>17, <2>1, <2>2, StepDoneType DEF StartCreateLink, TypeOK
<1>18. CASE GenerateAutomation(h)
  <2>1. generating' \in BOOLEAN /\ (UNCHANGED worker \/ \E w \in Workers, k \in Kinds : Start(w, k))
    BY <1>18 DEF GenerateAutomation, Kinds, TypeOK
  <2>2. /\ worker' \in [Workers -> Thread \cup {IdleWorker}] /\ HasItem' /\ HasRead'
    <3>1. CASE UNCHANGED worker
      BY <1>18, <3>1, KeepsThreads DEF GenerateAutomation, TypeOK
    <3>2. ASSUME NEW w \in Workers, NEW k \in Kinds, Start(w, k)
          PROVE  /\ worker' \in [Workers -> Thread \cup {IdleWorker}]
                 /\ HasItem' /\ HasRead'
      BY <1>18, <3>2, StartType DEF GenerateAutomation, HasItem, HasRead
    <3>3. QED  BY <2>1, <3>1, <3>2
  <2>3. QED  BY <1>18, <2>1, <2>2, StepDoneType DEF GenerateAutomation, TypeOK
<1>19. CASE StartExecution(h)
  <2>1. At(h, "dispatch")
    BY <1>19 DEF StartExecution
  <2>2. CASE StepDone(h) /\ UNCHANGED <<run, output>>
    BY <1>19, <2>1, <2>2, StepDoneType, KeepsThreads DEF StartExecution, TypeOK
  <2>3. CASE /\ run' = StatusSet(handler[h].was.status, "executing")
             /\ output' = IF output = "none" THEN "executed" ELSE output
             /\ Resume(h, <<"launch">>, handler[h].was)
    <3>1. <<"launch">> \in Seq(Steps) /\ \A i \in 1..Len(<<"launch">>) : <<"launch">>[i] # "force"
      BY DEF Steps
    <3>2. handler' \in [Handlers -> Serving \cup {IdleHandler}] /\ ForcesStage'
      BY <2>1, <2>3, <3>1, AtType, ResumeType
    <3>3. run' \in RunRow /\ (run.status = "gone" => run' = run)
      BY <2>3, StatusSetType DEF TypeOK, Status, InProgress
    <3>4. output' \in {"none", "executed", "drafted"}
      BY <2>3 DEF TypeOK
    <3>5. QED  BY <1>19, <3>2, <3>3, <3>4, KeepsThreads DEF StartExecution, TypeOK
  <2>4. QED  BY <1>19, <2>2, <2>3 DEF StartExecution
<1>20. CASE CompleteRun(h)
  <2>1. At(h, "dispatch") /\ StepDone(h)
    BY <1>20 DEF CompleteRun
  <2>2. [handler[h].was EXCEPT !.status = "done", !.failedStage = "none"] \in RunRow
    BY <2>1, AtType DEF RunRow, Status, Terminal
  <2>3. run' \in RunRow /\ (run.status = "gone" => run' = run)
    BY <1>20, <2>1, <2>2, AtType, FlushedType DEF CompleteRun, TypeOK
  <2>4. QED  BY <1>20, <2>1, <2>3, StepDoneType, KeepsThreads DEF CompleteRun, TypeOK
<1>21. CASE DeleteRow(h)
  <2>1. run' \in RunRow /\ run'.status = "gone"
    BY <1>21 DEF DeleteRow, TypeOK, RunRow
  <2>2. QED  BY <1>21, <2>1, StepDoneType, KeepsThreads DEF DeleteRow, TypeOK
<1>22. QED  BY <1>1, <1>2, <1>3, <1>4, <1>5, <1>6, <1>7, <1>8, <1>9, <1>10, <1>11, <1>12, <1>13, <1>14, <1>15, <1>16, <1>17, <1>18, <1>19, <1>20, <1>21 DEF HandlerStep

\* What becomes of the thread in one slot while it runs, and when it ends.
LEMMA MovesTyped ==
  ASSUME TypeInv, run.status = "gone" => run'.status = "gone",
         NEW w \in Workers, NEW x \in Thread, worker' = [worker EXCEPT ![w] = x],
         x.pc \in Working => x.left > 0,
         x.pc = "crashed" => x.seen \in Status \/ run'.status = "gone"
  PROVE  worker' \in [Workers -> Thread \cup {IdleWorker}] /\ HasItem' /\ HasRead'
<1>1. \A v \in Workers : worker'[v] = worker[v] \/ worker'[v] = x
  BY DEF TypeInv, TypeOK
<1>2. worker' \in [Workers -> Thread \cup {IdleWorker}]
  BY DEF TypeInv, TypeOK
<1>3. QED  BY <1>1, <1>2 DEF TypeInv, HasItem, HasRead

LEMMA LeaveTyped ==
  ASSUME TypeInv, run.status = "gone" => run'.status = "gone",
         NEW w \in Workers, Leave(w)
  PROVE  /\ worker' \in [Workers -> Thread \cup {IdleWorker}]
         /\ generating' \in BOOLEAN /\ linking' \in BOOLEAN
         /\ HasItem' /\ HasRead'
BY LeaveType DEF TypeInv, HasItem, HasRead, IdleWorker, Working

\* A thread at one of its own steps is not an empty slot.
LEMMA ThreadAt ==
  ASSUME TypeInv, NEW w \in Workers, worker[w].pc # "idle"
  PROVE  worker[w] \in Thread
BY DEF TypeInv, TypeOK, IdleWorker

LEMMA ItemEndedType ==
  ASSUME TypeInv, NEW w \in Workers, worker[w].pc = "work",
         run.status = "gone" => run'.status = "gone",
         NEW seen \in Seen, ItemEnded(w, seen)
  PROVE  /\ worker' \in [Workers -> Thread \cup {IdleWorker}]
         /\ generating' \in BOOLEAN /\ linking' \in BOOLEAN
         /\ HasItem' /\ HasRead'
<1> DEFINE left == worker[w].left - 1
           next == AfterItem(worker[w].kind, left, seen)
<1>1. worker[w] \in Thread /\ worker[w].left > 0
  BY ThreadAt DEF TypeInv, HasItem, Working
<1>2. left \in 0..Items /\ (next = "check" => left > 0)
  BY <1>1, ItemsAssumption DEF Thread, AfterItem
<1>3. next \in {"recheck", "settle", "advance", "check", "leave"}
  BY DEF AfterItem
<1>4. CASE next = "leave"
  BY <1>4, LeaveTyped DEF ItemEnded
<1>5. CASE next # "leave"
  <2> DEFINE x == [worker[w] EXCEPT !.pc = next, !.left = left, !.proc = "none",
                                    !.seen = seen]
  <2>1. x \in Thread /\ x.pc = next /\ x.left = left
    BY <1>1, <1>2, <1>3, <1>5 DEF Thread, WorkerPC
  <2>2. worker' = [worker EXCEPT ![w] = x] /\ KeepGuards
    BY <1>5 DEF ItemEnded
  <2>3. x.pc \in Working => x.left > 0
    BY <1>2, <1>3, <2>1 DEF Working
  <2>4. x.pc # "crashed"
    BY <1>3, <2>1
  <2> HIDE DEF x, next, left
  <2>5. QED  BY <2>1, <2>2, <2>3, <2>4, MovesTyped DEF TypeInv, TypeOK, KeepGuards
<1>6. QED  BY <1>4, <1>5

LEMMA WorkerTyped ==
  ASSUME TypeInv, NEW w \in Workers, WorkerStep(w) \/ Crash(w)
  PROVE  TypeInv'
<1> USE DEF TypeInv
<1>1. ASSUME run' \in RunRow, run.status = "gone" => run'.status = "gone",
             worker' \in [Workers -> Thread \cup {IdleWorker}],
             generating' \in BOOLEAN, linking' \in BOOLEAN, event' \in BOOLEAN,
             HasItem', HasRead', output' \in {"none", "executed", "drafted"},
             UNCHANGED <<approved, handler>>
      PROVE  TypeInv'
  BY <1>1 DEF TypeOK, ForcesStage
<1>2. CASE WorkerLoad(w)
  <2>1. worker[w] \in Thread /\ worker[w].left > 0 /\ run.status \in Seen
    BY <1>2, ThreadAt DEF WorkerLoad, HasItem, Working, TypeOK, RunRow, Seen
  <2>2. CASE Leave(w)
    BY <1>1, <1>2, <2>2, LeaveTyped DEF WorkerLoad, TypeOK
  <2>3. ASSUME NEW left \in {worker[w].left, 0}, NEW pc \in {"open", "clear", "advance", "check"},
               pc = "advance" \/ left > 0, KeepGuards,
               NEW seen \in Seen,
               worker' = [worker EXCEPT ![w].pc = pc, ![w].left = left, ![w].seen = seen]
        PROVE  TypeInv'
    <3> DEFINE x == [worker[w] EXCEPT !.pc = pc, !.left = left, !.seen = seen]
    <3>1. x \in Thread /\ x.pc = pc /\ x.left = left
      <4>1. left \in 0..Items
        BY <2>1, <2>3, ItemsAssumption DEF Thread
      <4>2. pc \in WorkerPC
        BY <2>3 DEF WorkerPC
      <4>3. QED  BY <2>1, <2>3, <4>1, <4>2 DEF Thread
    <3>2. worker' = [worker EXCEPT ![w] = x]
      BY <2>3
    <3>3. x.pc \in Working => x.left > 0
      BY <2>3, <3>1 DEF Working
    <3>4. x.pc # "crashed"
      BY <3>1
    <3>5. UNCHANGED <<run, event, approved, output, handler>>
      BY <1>2 DEF WorkerLoad
    <3> HIDE DEF x
    <3>6. worker' \in [Workers -> Thread \cup {IdleWorker}] /\ HasItem' /\ HasRead'
      BY <3>1, <3>2, <3>3, <3>4, <3>5, MovesTyped
    <3>7. QED  BY <1>1, <2>3, <3>5, <3>6 DEF KeepGuards, TypeOK
  <2>4. CASE ~Leave(w)
    <3> DEFINE k == worker[w].kind
               next(left) == CASE k \in {"link", "localLink"} -> "open"
                               [] k = "prepare" -> "clear"
                               [] k = "generation" /\ left = 0 -> "advance"
                               [] OTHER -> "check"
    <3>1. PICK left \in {worker[w].left} \cup (IF k = "generation" THEN {0} ELSE {}) :
            /\ KeepGuards
            /\ worker' = [worker EXCEPT ![w].pc = next(left), ![w].left = left,
                 ![w].seen = IF k = "pipeline" THEN "expired" ELSE run.status]
      BY <1>2, <2>4 DEF WorkerLoad
    <3>2. /\ next(left) \in {"open", "clear", "advance", "check"}
          /\ next(left) = "advance" \/ left > 0
      BY <2>1
    <3>3. (IF k = "pipeline" THEN "expired" ELSE run.status) \in Seen
      BY <2>1 DEF Seen
    <3>4. left \in {worker[w].left, 0}
      OBVIOUS
    <3> HIDE DEF next
    <3>5. QED  BY <2>3, <3>1, <3>2, <3>3, <3>4
  <2>5. QED  BY <2>2, <2>4
<1>3. CASE OpenSync(w)
  <2>1. worker[w] \in Thread /\ worker[w].left > 0
    BY <1>3, ThreadAt DEF OpenSync, HasItem, Working
  <2>2. run' \in RunRow /\ (run.status = "gone" => run' = run)
    BY <1>3, StatusSetType DEF OpenSync, TypeOK, Status, InProgress
  <2>3. CASE Leave(w)
    BY <1>1, <1>3, <2>2, <2>3, LeaveTyped DEF OpenSync, TypeOK
  <2>4. CASE ~Leave(w)
    <3> DEFINE x == [worker[w] EXCEPT !.pc = "check", !.seen = "expired"]
    <3>1. x \in Thread /\ x.pc = "check" /\ x.left > 0
      BY <2>1 DEF Thread, WorkerPC, Seen
    <3>2. worker' = [worker EXCEPT ![w] = x] /\ KeepGuards
      BY <1>3, <2>4 DEF OpenSync
    <3> HIDE DEF x
    <3>3. worker' \in [Workers -> Thread \cup {IdleWorker}] /\ HasItem' /\ HasRead'
      BY <2>2, <3>1, <3>2, MovesTyped
    <3>4. QED  BY <1>1, <1>3, <2>2, <3>2, <3>3 DEF OpenSync, KeepGuards, TypeOK
  <2>5. QED  BY <2>3, <2>4
<1>4. CASE PrepareClears(w)
  <2>1. worker[w] \in Thread /\ worker[w].left > 0
    BY <1>4, ThreadAt DEF PrepareClears, HasItem, Working
  <2> DEFINE u == Untracked(worker)
             x == [u[w] EXCEPT !.pc = "begin"]
  <2>2. /\ u \in [Workers -> Thread \cup {IdleWorker}]
        /\ \A v \in Workers : /\ u[v].pc = worker[v].pc /\ u[v].left = worker[v].left
                              /\ u[v].seen = worker[v].seen
    BY RegistryType
  <2> HIDE DEF u
  <2>3. u[w] \in Thread
    BY <1>4, <2>2 DEF PrepareClears, IdleWorker
  <2>4. x \in Thread /\ x.pc = "begin" /\ x.left > 0
    BY <2>1, <2>2, <2>3 DEF Thread, WorkerPC
  <2>5. worker' = [u EXCEPT ![w] = x]
    BY <1>4 DEF PrepareClears, u
  <2> HIDE DEF x
  <2>6. /\ worker' \in [Workers -> Thread \cup {IdleWorker}]
        /\ \A v \in Workers : worker'[v] = u[v] \/ worker'[v] = x
    BY <2>2, <2>4, <2>5
  <2>7. UNCHANGED <<run, generating, linking, approved, output, handler>> /\ event' = FALSE
    BY <1>4 DEF PrepareClears
  <2>8. HasItem' /\ HasRead'
    BY <2>2, <2>4, <2>6, <2>7 DEF HasItem, HasRead
  <2>9. QED  BY <1>1, <2>6, <2>7, <2>8 DEF TypeOK
<1>5. ASSUME NEW pc \in WorkerPC, worker[w].pc # "idle", KeepGuards,
             worker' = [worker EXCEPT ![w].pc = pc],
             pc \in Working => worker[w].left > 0, pc # "crashed",
             UNCHANGED <<run, event, approved, output, handler>>
      PROVE  TypeInv'
  <2> DEFINE x == [worker[w] EXCEPT !.pc = pc]
  <2>1. x \in Thread /\ x.pc = pc /\ x.left = worker[w].left
    BY <1>5, ThreadAt DEF Thread
  <2>2. worker' = [worker EXCEPT ![w] = x]
    BY <1>5
  <2> HIDE DEF x
  <2>3. worker' \in [Workers -> Thread \cup {IdleWorker}] /\ HasItem' /\ HasRead'
    BY <1>5, <2>1, <2>2, MovesTyped
  <2>4. QED  BY <1>1, <1>5, <2>3 DEF KeepGuards, TypeOK
<1>6. CASE CheckCancelled(w)
  <2>1. worker[w].left > 0 /\ "begin" \in WorkerPC
    BY <1>6 DEF CheckCancelled, HasItem, Working, WorkerPC
  <2>2. CASE Leave(w)
    BY <1>1, <1>6, <2>2, LeaveTyped DEF CheckCancelled, TypeOK
  <2>3. CASE Goto(w, "begin") /\ KeepGuards
    BY <1>5, <1>6, <2>1, <2>3 DEF CheckCancelled, Goto
  <2>4. QED  BY <1>6, <2>2, <2>3 DEF CheckCancelled
<1>7. CASE BeginItem(w)
  <2>1. worker[w] \in Thread /\ worker[w].left > 0 /\ run.status \in Seen
    BY <1>7, ThreadAt DEF BeginItem, HasItem, Working, TypeOK, RunRow, Seen
  <2>2. CASE Leave(w)
    BY <1>1, <1>7, <2>2, LeaveTyped DEF BeginItem, TypeOK
  <2>3. CASE ~Leave(w)
    <3> DEFINE links == worker[w].kind \in {"link", "localLink"}
               x == [worker[w] EXCEPT
                       !.pc = IF links THEN "work" ELSE "register",
                       !.proc = IF links THEN "none" ELSE "alive",
                       !.seen = IF worker[w].kind = "generation" /\ @ = "expired"
                                THEN run.status ELSE @,
                       !.late = IF run.flag /\ run.status # "gone" THEN @ + 1 ELSE @]
    <3>1. worker' = [worker EXCEPT ![w] = x] /\ KeepGuards
      BY <1>7, <2>3 DEF BeginItem
    <3>2. x \in Thread /\ x.left > 0 /\ x.pc # "crashed"
      <4>1. PICK pc \in {"work", "register"}, proc \in {"none", "alive"},
                 seen \in Seen, late \in Nat :
              x = [worker[w] EXCEPT !.pc = pc, !.proc = proc, !.seen = seen,
                                    !.late = late]
        <5>1. worker[w].seen \in Seen /\ worker[w].late \in Nat
              /\ worker[w].late + 1 \in Nat
          BY <2>1 DEF Thread
        <5>2. QED  BY <2>1, <5>1
      <4>2. pc \in WorkerPC
        BY DEF WorkerPC
      <4> HIDE DEF x
      <4>3. QED  BY <2>1, <4>1, <4>2 DEF Thread
    <3>3. UNCHANGED <<run, event, approved, output, handler>>
      BY <1>7 DEF BeginItem
    <3> HIDE DEF x
    <3>4. worker' \in [Workers -> Thread \cup {IdleWorker}] /\ HasItem' /\ HasRead'
      BY <3>1, <3>2, <3>3, MovesTyped
    <3>5. QED  BY <1>1, <3>1, <3>3, <3>4 DEF KeepGuards, TypeOK
  <2>4. QED  BY <2>2, <2>3
<1>8. CASE RegisterProcess(w)
  <2> DEFINE x == [worker[w] EXCEPT !.pc = "work",
                                    !.proc = IF event THEN "none" ELSE "tracked"]
  <2>1. worker[w] \in Thread /\ worker[w].left > 0
    BY <1>8, ThreadAt DEF RegisterProcess, HasItem, Working
  <2>2. x \in Thread /\ x.left > 0 /\ x.pc # "crashed"
    BY <2>1 DEF Thread, WorkerPC
  <2>3. worker' = [worker EXCEPT ![w] = x]
        /\ UNCHANGED <<run, event, generating, linking, approved, output, handler>>
    BY <1>8 DEF RegisterProcess
  <2> HIDE DEF x
  <2>4. worker' \in [Workers -> Thread \cup {IdleWorker}] /\ HasItem' /\ HasRead'
    BY <2>2, <2>3, MovesTyped
  <2>5. QED  BY <1>1, <2>3, <2>4 DEF TypeOK
<1>9. CASE EndItem(w)
  <2>1. PICK seen \in Seen : ItemEnded(w, seen)
    <3>1. worker[w] \in Thread
      BY <1>9, ThreadAt DEF EndItem
    <3>2. worker[w].seen \in Seen /\ "expired" \in Seen
      BY <3>1 DEF Thread, Seen
    <3>3. QED  BY <1>9, <3>2 DEF EndItem
  <2>2. UNCHANGED <<run, event, approved, handler>> /\ worker[w].pc = "work"
        /\ output' \in {"none", "executed", "drafted"}
    BY <1>9 DEF EndItem, TypeOK
  <2>3. QED  BY <1>1, <2>1, <2>2, ItemEndedType DEF TypeOK
<1>10. CASE RecheckCancelled(w)
  <2>1. CASE Leave(w)
    BY <1>1, <1>10, <2>1, LeaveTyped DEF RecheckCancelled, TypeOK
  <2>2. CASE Goto(w, "advance") /\ KeepGuards
    BY <1>5, <1>10, <2>2 DEF RecheckCancelled, Goto, Working, WorkerPC
  <2>3. QED  BY <1>10, <2>1, <2>2 DEF RecheckCancelled
<1>11. CASE Settle(w)
  <2>1. CASE Leave(w)
    BY <1>1, <1>11, <2>1, LeaveTyped DEF Settle, TypeOK
  <2>2. CASE ~Leave(w)
    <3>1. PICK pc \in {"advance", "fail"} :
            /\ worker' = [worker EXCEPT ![w].pc = pc, ![w].seen = run.status]
            /\ KeepGuards
      BY <1>11, <2>2 DEF Settle
    <3> DEFINE x == [worker[w] EXCEPT !.pc = pc, !.seen = run.status]
    <3>2. worker[w] \in Thread /\ run.status \in Seen
      BY <1>11, ThreadAt DEF Settle, TypeOK, RunRow, Seen
    <3>3. x \in Thread /\ x.pc \notin Working /\ x.pc # "crashed"
      BY <3>2 DEF Thread, WorkerPC, Working
    <3>4. worker' = [worker EXCEPT ![w] = x]
          /\ UNCHANGED <<run, event, approved, output, handler>>
      BY <1>11, <3>1 DEF Settle
    <3> HIDE DEF x
    <3>5. worker' \in [Workers -> Thread \cup {IdleWorker}] /\ HasItem' /\ HasRead'
      BY <3>3, <3>4, MovesTyped
    <3>6. QED  BY <1>1, <3>1, <3>4, <3>5 DEF KeepGuards, TypeOK
  <2>3. QED  BY <2>1, <2>2
<1>12. CASE Advance(w)
  <2>1. StageDone(worker[w].kind) \in Status
    BY DEF StageDone, Status, InProgress
  <2>2. run' \in RunRow /\ (run.status = "gone" => run' = run)
    BY <1>12, <2>1, StatusSetType DEF Advance, TypeOK
  <2>3. QED  BY <1>1, <1>12, <2>2, LeaveTyped DEF Advance, TypeOK
<1>13. CASE AllTicketsFailed(w)
  <2>1. run' \in RunRow /\ (run.status = "gone" => run' = run)
    BY <1>13, FailedAtType DEF AllTicketsFailed, TypeOK, Status, InProgress
  <2>2. QED  BY <1>1, <1>13, <2>1, LeaveTyped DEF AllTicketsFailed, TypeOK
<1>14. CASE Crash(w)
  <2>1. CASE Leave(w)
    BY <1>1, <1>14, <2>1, LeaveTyped DEF Crash, TypeOK
  <2>2. CASE ~Leave(w)
    <3> DEFINE x == [worker[w] EXCEPT !.pc = "crashing", !.proc = "none",
                                      !.seen = "expired"]
    <3>1. worker' = [worker EXCEPT ![w] = x] /\ KeepGuards
          /\ UNCHANGED <<run, event, approved, output, handler>>
      BY <1>14, <2>2 DEF Crash
    <3>2. worker[w] \in Thread
      BY <1>14, ThreadAt DEF Crash
    <3>3. x \in Thread /\ x.pc \notin Working /\ x.pc # "crashed"
      BY <3>2 DEF Thread, WorkerPC, Working, Seen
    <3> HIDE DEF x
    <3>4. worker' \in [Workers -> Thread \cup {IdleWorker}] /\ HasItem' /\ HasRead'
      BY <3>1, <3>3, MovesTyped
    <3>5. QED  BY <1>1, <3>1, <3>4 DEF KeepGuards, TypeOK
  <2>3. QED  BY <2>1, <2>2
<1>15. CASE CrashReload(w)
  <2> DEFINE x == [worker[w] EXCEPT !.pc = "crashed", !.seen = run.status]
  <2>1. worker' = [worker EXCEPT ![w] = x]
        /\ UNCHANGED <<run, event, generating, linking, approved, output, handler>>
    BY <1>15 DEF CrashReload
  <2>2. worker[w] \in Thread /\ run.status \in Status \cup {"gone"}
    BY <1>15, ThreadAt DEF CrashReload, TypeOK, RunRow
  <2>3. x \in Thread /\ x.pc = "crashed" /\ (x.seen \in Status \/ run.status = "gone")
    BY <2>2 DEF Thread, WorkerPC, Seen
  <2> HIDE DEF x
  <2>4. worker' \in [Workers -> Thread \cup {IdleWorker}] /\ HasItem' /\ HasRead'
    BY <2>1, <2>3, MovesTyped DEF Working
  <2>5. QED  BY <1>1, <2>1, <2>4 DEF TypeOK
<1>16. CASE CrashFails(w)
  <2>1. worker[w].seen \in Status \/ run.status = "gone"
    BY <1>16 DEF CrashFails, HasRead
  <2>2. run' \in RunRow /\ (run.status = "gone" => run' = run)
    BY <1>16, <2>1, FailedAtType DEF CrashFails, TypeOK, FailedAt
  <2>3. QED  BY <1>1, <1>16, <2>2, LeaveTyped DEF CrashFails, TypeOK
<1>17. QED
  BY <1>2, <1>3, <1>4, <1>6, <1>7, <1>8, <1>9, <1>10, <1>11, <1>12, <1>13, <1>14,
     <1>15, <1>16 DEF WorkerStep

LEMMA RestartTyped == TypeInv /\ Restart => TypeInv'
<1> SUFFICES ASSUME TypeInv, Restart PROVE TypeInv'
  OBVIOUS
<1>1. run' \in RunRow /\ (run.status = "gone" => run' = run)
  BY FailedAtType DEF TypeInv, TypeOK, Restart, InProgress, Status
<1>2. /\ worker' \in [Workers -> Thread \cup {IdleWorker}]
      /\ \A w \in Workers : worker'[w] = worker[w] \/ worker'[w] = IdleWorker
  BY DEF TypeInv, TypeOK, Restart
<1>3. HasItem' /\ HasRead'
  BY <1>1, <1>2 DEF TypeInv, HasItem, HasRead, IdleWorker, Working
<1>4. handler' = [h \in Handlers |-> IdleHandler]
      /\ event' = FALSE /\ generating' = FALSE /\ linking' = FALSE
      /\ UNCHANGED <<approved, output>>
  BY DEF Restart
<1>5. ForcesStage'
  BY <1>4 DEF ForcesStage, IdleHandler
<1>6. QED  BY <1>1, <1>2, <1>3, <1>4, <1>5 DEF TypeInv, TypeOK

LEMMA StepTyped == TypeInv /\ [Next]_vars => TypeInv'
<1> SUFFICES ASSUME TypeInv, [Next]_vars PROVE TypeInv'
  OBVIOUS
<1>1. CASE \E w \in Workers : WorkerStep(w) \/ Crash(w)
  BY <1>1, WorkerTyped
<1>2. CASE \E h \in Handlers : HandlerStep(h)
  BY <1>2, HandlerTyped
<1>3. CASE \E h \in Handlers, cmd \in Commands : Request(h, cmd)
  BY <1>3, RequestTyped
<1>4. CASE Approve
  BY <1>4 DEF Approve, TypeInv, TypeOK, HasItem, HasRead, ForcesStage
<1>5. CASE Restart
  BY <1>5, RestartTyped
<1>6. CASE UNCHANGED vars
  BY <1>6 DEF vars, TypeInv, TypeOK, HasItem, HasRead, ForcesStage
<1>7. QED  BY <1>1, <1>2, <1>3, <1>4, <1>5, <1>6 DEF Next

\* The inductive invariant typing rests on.
THEOREM TypingInductive == Spec => []TypeInv
<1>1. QED  BY InitTyped, StepTyped, PTL DEF Spec

\* For any number of threads, requests and items, the row, the registry, the
\* threads and the requests stay in their types: in particular retry_run only
\* ever forces a status that has a worker to resume it (run_status.
\* force_status), whatever failed_stage says.
THEOREM Typing == Spec => []TypeOK
<1>1. TypeInv => TypeOK
  BY DEF TypeInv
<1>2. QED  BY <1>1, TypingInductive, PTL

-----------------------------------------------------------------------------
(* What one step does to the threads, whatever else it does.             *)

\* A request leaves the threads alone, starts one, or goes through them all.
LEMMA RequestEffect ==
  ASSUME NEW h \in Handlers, HandlerStep(h)
  PROVE  \/ UNCHANGED worker
         \/ \E w \in Workers, kind \in Kinds :
              Start(w, kind) /\ (kind = "prepare" => handler[h].stage = "drafting")
         \/ KillProcesses(h) \/ ClearRegistry(h) \/ ResetCancel(h)
<1>1. CASE DispatchPipeline(h) \/ DispatchDraft(h) \/ LaunchExecution(h)
  BY <1>1 DEF DispatchPipeline, DispatchDraft, LaunchExecution, Kinds
<1>2. CASE StartCreateLink(h) \/ GenerateAutomation(h)
  BY <1>2 DEF StartCreateLink, GenerateAutomation, LinkKinds, Kinds
<1>3. CASE \/ SetFlag(h) \/ RequestCancel(h) \/ SetCancelled(h) \/ StopRunWork(h)
           \/ ForceStatus(h) \/ Reopen(h) \/ WipeCases(h) \/ PrepareCredential(h)
           \/ BlameProcessing(h) \/ Refuse(h) \/ StartExecution(h)
           \/ CompleteRun(h) \/ DeleteRow(h)
  BY <1>3 DEF SetFlag, RequestCancel, SetCancelled, StopRunWork, ForceStatus, Reopen,
              WipeCases, PrepareCredential, BlameProcessing, Refuse, StartExecution,
              CompleteRun, DeleteRow
<1>4. QED  BY <1>1, <1>2, <1>3 DEF HandlerStep

\* The fields of the threads a request does not touch.
LEMMA RequestKeeps ==
  ASSUME TypeInv, NEW h \in Handlers, HandlerStep(h), NEW v \in Workers
  PROVE  \/ /\ worker'[v].kind = worker[v].kind /\ worker'[v].pc = worker[v].pc
            /\ worker'[v].late = worker[v].late \/ worker'[v].late = 0
         \/ worker[v] = IdleWorker /\ \E kind \in Kinds : worker'[v] = Dispatched(kind)
<1>1. CASE UNCHANGED worker
  BY <1>1
<1>2. ASSUME NEW w \in Workers, NEW kind \in Kinds, Start(w, kind)
      PROVE  \/ worker'[v] = worker[v]
             \/ worker[v] = IdleWorker /\ worker'[v] = Dispatched(kind)
  <2>1. worker[w] = IdleWorker
    BY <1>2 DEF TypeInv, TypeOK, Start, Thread, WorkerPC
  <2> HIDE DEF TypeInv
  <2>2. worker' = [worker EXCEPT ![w] = Dispatched(kind)]
    BY <1>2 DEF Start
  <2>3. QED  BY <2>1, <2>2 DEF TypeInv, TypeOK
<1>3. CASE KillProcesses(h) \/ ClearRegistry(h)
  BY <1>3, RegistryType DEF KillProcesses, ClearRegistry
<1>4. CASE ResetCancel(h)
  <2>1. worker[v] \in Thread \cup {IdleWorker}
    BY DEF TypeInv, TypeOK
  <2>2. worker'[v] = IF run'.flag THEN worker[v] ELSE [worker[v] EXCEPT !.late = 0]
    BY <1>4 DEF ResetCancel
  <2>3. \A x \in Thread \cup {IdleWorker} :
          LET y == [x EXCEPT !.late = 0] IN y.kind = x.kind /\ y.pc = x.pc /\ y.late = 0
    BY DEF Thread, IdleWorker
  <2>4. QED  BY <2>1, <2>2, <2>3
<1>5. QED  BY <1>1, <1>2, <1>3, <1>4, RequestEffect

LEMMA LoadMoves ==
  ASSUME NEW w \in Workers, WorkerLoad(w), ~Leave(w)
  PROVE  /\ KeepGuards
         /\ \E pc \in {"open", "clear", "advance", "check"} : \E left, seen :
              /\ pc = "clear" => worker[w].kind = "prepare"
              /\ worker' = [worker EXCEPT ![w].pc = pc, ![w].left = left, ![w].seen = seen]
<1> DEFINE k == worker[w].kind
           next(left) == CASE k \in {"link", "localLink"} -> "open"
                           [] k = "prepare" -> "clear"
                           [] k = "generation" /\ left = 0 -> "advance"
                           [] OTHER -> "check"
<1>1. PICK left : /\ KeepGuards
                  /\ worker' = [worker EXCEPT ![w].pc = next(left), ![w].left = left,
                        ![w].seen = IF k = "pipeline" THEN "expired" ELSE run.status]
  BY DEF WorkerLoad
<1>2. next(left) \in {"open", "clear", "advance", "check"}
      /\ (next(left) = "clear" => k = "prepare")
  OBVIOUS
<1> HIDE DEF next
<1>3. QED  BY <1>1, <1>2

-----------------------------------------------------------------------------
(* BoundedOverrun.                                                       *)

\* A thread that has begun an item since the stop has the flag before it, so
\* that the checkpoint it comes to next turns it away. A thread between its
\* checkpoint and its next item has begun none since.
NotBegun == {"load", "open", "clear", "begin"}
LateOnce == \A w \in Workers :
  /\ worker[w].late <= 1
  /\ worker[w].late # 0 /\ run.status # "gone"
       => run.flag /\ worker[w].pc \notin NotBegun

\* cancel_requested goes down in one place, the reset of a retry.
LEMMA FlagKept ==
  ASSUME TypeInv, NEW h \in Handlers, HandlerStep(h), ~ResetCancel(h)
  PROVE  /\ run.flag => run'.flag
         /\ run.status = "gone" => run'.status = "gone"
<1>1. ASSUME NEW old \in RunRow, NEW new \in RunRow, run' = Flushed(old, new),
             new.flag = old.flag \/ new.flag
      PROVE  /\ run.flag => run'.flag
             /\ run.status = "gone" => run'.status = "gone"
  BY <1>1 DEF Flushed, TypeInv, TypeOK, RunRow
<1>2. \A step : At(h, step) => handler[h].was \in RunRow
  BY AtType
<1>3. CASE UNCHANGED run
  BY <1>3
<1>4. CASE SetFlag(h)
  <2>1. handler[h].was \in RunRow
    BY <1>2, <1>4 DEF SetFlag
  <2>2. [handler[h].was EXCEPT !.flag = TRUE] \in RunRow
        /\ [handler[h].was EXCEPT !.flag = TRUE].flag = TRUE
    BY <2>1 DEF RunRow
  <2>3. QED  BY <1>1, <1>4, <2>1, <2>2 DEF SetFlag, Saves
<1>5. ASSUME NEW s \in Status, NEW f \in Status \cup {"none"}, handler[h].was \in RunRow,
             \/ run' = Flushed(handler[h].was, [handler[h].was EXCEPT !.status = s])
             \/ run' = Flushed(handler[h].was, [handler[h].was EXCEPT !.failedStage = f])
             \/ run' = Flushed(handler[h].was, [handler[h].was EXCEPT !.status = s,
                                                                      !.failedStage = f])
      PROVE  /\ run.flag => run'.flag
             /\ run.status = "gone" => run'.status = "gone"
  <2>1. ASSUME NEW new \in {[handler[h].was EXCEPT !.status = s],
                            [handler[h].was EXCEPT !.failedStage = f],
                            [handler[h].was EXCEPT !.status = s, !.failedStage = f]}
        PROVE  new \in RunRow /\ new.flag = handler[h].was.flag
    BY <1>5 DEF RunRow
  <2>2. QED  BY <1>1, <1>5, <2>1
<1>6. CASE SetCancelled(h) \/ Refuse(h)
  BY <1>2, <1>5, <1>6 DEF SetCancelled, Refuse, Saves, Status, Terminal
<1>7. CASE BlameProcessing(h)
  BY <1>2, <1>5, <1>7 DEF BlameProcessing, Saves, Status, InProgress
<1>8. CASE ForceStatus(h)
  <2>1. At(h, "force")
    BY <1>8 DEF ForceStatus
  <2>2. handler[h].stage \in Status
    BY <2>1, AtType DEF TypeInv, ForcesStage, Serving, Stages, Status, InProgress
  <2>3. QED  BY <1>2, <1>5, <1>8, <2>1, <2>2 DEF ForceStatus, Saves
<1>9. CASE Reopen(h)
  BY <1>2, <1>3, <1>5, <1>9 DEF Reopen, Saves, Status, InProgress
<1>10. CASE CompleteRun(h)
  <2>1. handler[h].was \in RunRow
    BY <1>2, <1>10 DEF CompleteRun
  <2>2. \/ UNCHANGED run
        \/ run' = Flushed(handler[h].was,
                    [handler[h].was EXCEPT !.status = "done", !.failedStage = "none"])
    BY <1>10 DEF CompleteRun
  <2>3. QED  BY <1>3, <1>5, <2>1, <2>2 DEF Status, Terminal
<1>11. CASE StartExecution(h)
  BY <1>11 DEF StartExecution, StatusSet, TypeInv, TypeOK, RunRow
<1>12. CASE DeleteRow(h)
  BY <1>12 DEF DeleteRow, TypeInv, TypeOK, RunRow
<1>13. CASE \/ RequestCancel(h) \/ KillProcesses(h) \/ StopRunWork(h) \/ ClearRegistry(h)
            \/ WipeCases(h) \/ PrepareCredential(h) \/ DispatchPipeline(h)
            \/ DispatchDraft(h) \/ StartCreateLink(h) \/ GenerateAutomation(h)
            \/ LaunchExecution(h)
  BY <1>3, <1>13 DEF RequestCancel, KillProcesses, StopRunWork, ClearRegistry, WipeCases,
       PrepareCredential, DispatchPipeline, DispatchDraft, StartCreateLink,
       GenerateAutomation, LaunchExecution
<1>14. QED  BY <1>4, <1>6, <1>7, <1>8, <1>9, <1>10, <1>11, <1>12, <1>13 DEF HandlerStep

LEMMA RequestOverrun ==
  ASSUME TypeInv, LateOnce, NEW h \in Handlers, HandlerStep(h)
  PROVE  LateOnce'
<1>1. CASE ResetCancel(h)
  <2>1. /\ run' = Flushed(handler[h].was,
                    [handler[h].was EXCEPT !.flag = FALSE, !.failedStage = "none"])
        /\ worker' = [w \in Workers |->
             IF run'.flag THEN worker[w] ELSE [worker[w] EXCEPT !.late = 0]]
    BY <1>1 DEF ResetCancel, Saves
  <2>2. run.status = "gone" => run'.status = "gone"
    BY <2>1 DEF Flushed
  <2>3. \A w \in Workers : worker[w] \in Thread \cup {IdleWorker}
    BY DEF TypeInv, TypeOK
  <2>4. \A x \in Thread \cup {IdleWorker} : [x EXCEPT !.late = 0].late = 0
    BY DEF Thread, IdleWorker
  <2>5. \A w \in Workers : worker'[w].late = 0 \/ (worker'[w] = worker[w] /\ run'.flag)
    BY <2>1, <2>3, <2>4
  <2>6. QED  BY <2>2, <2>5 DEF LateOnce
<1>2. CASE ~ResetCancel(h)
  <2>1. /\ run.flag => run'.flag
        /\ run.status = "gone" => run'.status = "gone"
    BY <1>2, FlagKept
  <2>2. \A v \in Workers :
          \/ worker'[v].late = 0
          \/ worker'[v].late = worker[v].late /\ worker'[v].pc = worker[v].pc
    <3> SUFFICES ASSUME NEW v \in Workers
                 PROVE  \/ worker'[v].late = 0
                        \/ worker'[v].late = worker[v].late /\ worker'[v].pc = worker[v].pc
      OBVIOUS
    <3>1. \A kind \in Kinds : Dispatched(kind).late = 0
      BY DEF Dispatched
    <3>2. QED  BY <3>1, RequestKeeps
  <2>3. QED  BY <2>1, <2>2 DEF LateOnce
<1>3. QED  BY <1>1, <1>2

\* A step of the thread in slot w that moves it to x.
LEMMA MovesOverrun ==
  ASSUME TypeInv, LateOnce, NEW w \in Workers, NEW x,
         worker' = [worker EXCEPT ![w] = x],
         run.flag => run'.flag, run.status = "gone" => run'.status = "gone",
         x.late <= 1,
         x.late # 0 /\ run.status # "gone" => run.flag /\ x.pc \notin NotBegun
  PROVE  LateOnce'
<1>1. \A v \in Workers : worker'[v] = worker[v] \/ worker'[v] = x
  BY DEF TypeInv, TypeOK
<1>2. QED  BY <1>1 DEF LateOnce

LEMMA LeaveOverrun ==
  ASSUME TypeInv, LateOnce, NEW w \in Workers, Leave(w),
         run.flag => run'.flag, run.status = "gone" => run'.status = "gone"
  PROVE  LateOnce'
<1>1. \A v \in Workers : worker'[v] = worker[v] \/ worker'[v] = IdleWorker
  BY LeaveType
<1>2. QED  BY <1>1 DEF LateOnce, IdleWorker

\* Threads never touch cancel_requested, and never bring a deleted run back.
LEMMA ThreadKeepsFlag ==
  ASSUME TypeInv, NEW w \in Workers, WorkerStep(w) \/ Crash(w)
  PROVE  /\ run'.flag = run.flag
         /\ run.status = "gone" => run'.status = "gone"
<1>1. \A seen, new : LET r == StatusSet(seen, new) IN
        r.flag = run.flag /\ (run.status = "gone" => r.status = "gone")
  BY DEF StatusSet, TypeInv, TypeOK, RunRow
<1>2. \A seen, stage : LET r == FailedAt(seen, stage) IN
        r.flag = run.flag /\ (run.status = "gone" => r.status = "gone")
  BY DEF FailedAt, TypeInv, TypeOK, RunRow
<1>3. \/ UNCHANGED run
      \/ \E seen, new : run' = StatusSet(seen, new)
      \/ \E seen, stage : run' = FailedAt(seen, stage)
  BY DEF WorkerStep, WorkerLoad, OpenSync, PrepareClears, CheckCancelled, BeginItem,
         RegisterProcess, EndItem, RecheckCancelled, Settle, Advance, AllTicketsFailed,
         Crash, CrashReload, CrashFails
<1>4. QED  BY <1>1, <1>2, <1>3

LEMMA ThreadOverrun ==
  ASSUME TypeInv, LateOnce, NEW w \in Workers, WorkerStep(w) \/ Crash(w)
  PROVE  LateOnce'
<1>1. /\ worker[w].late <= 1
      /\ worker[w].late # 0 /\ run.status # "gone"
           => run.flag /\ worker[w].pc \notin NotBegun
  BY DEF LateOnce
<1>2. /\ run.flag => run'.flag
      /\ run.status = "gone" => run'.status = "gone"
  BY ThreadKeepsFlag
<1>3. CASE Leave(w)
  BY <1>2, <1>3, LeaveOverrun
<1>4. ASSUME NEW x, worker' = [worker EXCEPT ![w] = x], x.late = worker[w].late,
             x.pc \notin NotBegun \/ worker[w].late = 0 \/ run.status = "gone"
      PROVE  LateOnce'
  BY <1>1, <1>2, <1>4, MovesOverrun
<1>5. worker[w].pc # "idle" => worker[w] \in Thread
  BY ThreadAt
<1>6. CASE WorkerLoad(w) /\ ~Leave(w)
  <2>1. PICK pc \in {"open", "clear", "advance", "check"} : \E left, seen :
          /\ pc = "clear" => worker[w].kind = "prepare"
          /\ worker' = [worker EXCEPT ![w].pc = pc, ![w].left = left, ![w].seen = seen]
    BY <1>6, LoadMoves
  <2>2. PICK left, seen :
          /\ pc = "clear" => worker[w].kind = "prepare"
          /\ worker' = [worker EXCEPT ![w].pc = pc, ![w].left = left, ![w].seen = seen]
    BY <2>1
  <2>3. worker[w] \in Thread /\ (worker[w].late = 0 \/ run.status = "gone")
    BY <1>1, <1>5, <1>6 DEF WorkerLoad, NotBegun
  <2>4. [worker[w] EXCEPT !.pc = pc, !.left = left, !.seen = seen].late = worker[w].late
    BY <2>3 DEF Thread
  <2>5. QED  BY <1>4, <2>2, <2>3, <2>4
<1>7. CASE OpenSync(w) /\ ~Leave(w)
  <2>1. worker' = [worker EXCEPT ![w] = [worker[w] EXCEPT !.pc = "check",
                                                          !.seen = "expired"]]
    BY <1>7 DEF OpenSync
  <2>2. worker[w] \in Thread /\ (worker[w].late = 0 \/ run.status = "gone")
    BY <1>1, <1>5, <1>7 DEF OpenSync, NotBegun
  <2>3. [worker[w] EXCEPT !.pc = "check", !.seen = "expired"].late = worker[w].late
    BY <2>2 DEF Thread
  <2>4. QED  BY <1>4, <2>1, <2>2, <2>3
<1>8. CASE PrepareClears(w)
  <2>1. worker' = [Untracked(worker) EXCEPT ![w].pc = "begin"] /\ UNCHANGED run
    BY <1>8 DEF PrepareClears
  <2>2. \A v \in Workers : /\ Untracked(worker)[v].pc = worker[v].pc
                           /\ Untracked(worker)[v].late = worker[v].late
                           /\ Untracked(worker)[v] \in Thread \cup {IdleWorker}
    BY RegistryType
  <2>3. Untracked(worker)[w] \in Thread
    BY <1>8, <2>2 DEF PrepareClears, IdleWorker
  <2>4. [Untracked(worker)[w] EXCEPT !.pc = "begin"].late = worker[w].late
    BY <2>2, <2>3 DEF Thread
  <2>5. DOMAIN Untracked(worker) = Workers
    BY DEF Untracked
  <2>6. \A v \in Workers : /\ worker'[v].late = worker[v].late
                           /\ v # w => worker'[v].pc = worker[v].pc
    BY <2>1, <2>2, <2>4, <2>5
  <2>7. worker[w].late = 0 \/ run.status = "gone"
    BY <1>1, <1>8 DEF PrepareClears, NotBegun
  <2>8. QED  BY <2>1, <2>6, <2>7 DEF LateOnce
<1>9. ASSUME NEW pc, worker[w].pc # "idle", worker' = [worker EXCEPT ![w].pc = pc],
             pc \notin NotBegun \/ worker[w].late = 0 \/ run.status = "gone"
      PROVE  LateOnce'
  <2>1. [worker[w] EXCEPT !.pc = pc].late = worker[w].late
        /\ [worker[w] EXCEPT !.pc = pc].pc = pc
    BY <1>5, <1>9 DEF Thread
  <2>2. worker' = [worker EXCEPT ![w] = [worker[w] EXCEPT !.pc = pc]]
    BY <1>9
  <2>3. QED  BY <1>4, <1>9, <2>1, <2>2
<1>10. CASE CheckCancelled(w) /\ ~Leave(w)
  <2>1. worker[w].late = 0 \/ run.status = "gone"
    BY <1>1, <1>10 DEF CheckCancelled, IsCancelled
  <2>2. QED  BY <1>9, <1>10, <2>1 DEF CheckCancelled, Goto
<1>11. CASE BeginItem(w) /\ ~Leave(w)
  <2> DEFINE links == worker[w].kind \in {"link", "localLink"}
             x == [worker[w] EXCEPT
                     !.pc = IF links THEN "work" ELSE "register",
                     !.proc = IF links THEN "none" ELSE "alive",
                     !.seen = IF worker[w].kind = "generation" /\ @ = "expired"
                              THEN run.status ELSE @,
                     !.late = IF run.flag /\ run.status # "gone" THEN @ + 1 ELSE @]
  <2>1. worker' = [worker EXCEPT ![w] = x]
    BY <1>11 DEF BeginItem
  <2>2. worker[w] \in Thread /\ (worker[w].late = 0 \/ run.status = "gone")
    BY <1>1, <1>5, <1>11 DEF BeginItem, NotBegun
  <2>3. /\ x.pc \in {"work", "register"}
        /\ x.late = IF run.flag /\ run.status # "gone" THEN worker[w].late + 1
                    ELSE worker[w].late
    BY <2>2 DEF Thread
  <2> HIDE DEF x
  <2>4. x.late <= 1
    BY <1>1, <2>2, <2>3
  <2>5. x.late # 0 /\ run.status # "gone" => run.flag /\ x.pc \notin NotBegun
    BY <2>2, <2>3 DEF NotBegun
  <2>6. QED  BY <1>2, <2>1, <2>4, <2>5, MovesOverrun
<1>12. CASE RegisterProcess(w)
  <2> DEFINE x == [worker[w] EXCEPT !.pc = "work",
                                    !.proc = IF event THEN "none" ELSE "tracked"]
  <2>1. worker' = [worker EXCEPT ![w] = x] /\ worker[w] \in Thread
    BY <1>5, <1>12 DEF RegisterProcess
  <2>2. x.pc \notin NotBegun /\ x.late = worker[w].late
    BY <2>1 DEF Thread, NotBegun
  <2> HIDE DEF x
  <2>3. QED  BY <1>4, <2>1, <2>2
<1>13. CASE EndItem(w) /\ ~Leave(w)
  <2>1. PICK seen : ItemEnded(w, seen)
    BY <1>13 DEF EndItem
  <2> DEFINE left == worker[w].left - 1
             next == AfterItem(worker[w].kind, left, seen)
             x == [worker[w] EXCEPT !.pc = next, !.left = left, !.proc = "none",
                                    !.seen = seen]
  <2>2. worker' = [worker EXCEPT ![w] = x] /\ worker[w] \in Thread
    BY <1>5, <1>13, <2>1 DEF ItemEnded, EndItem
  <2>3. next \notin NotBegun
    BY DEF AfterItem, NotBegun
  <2>4. x.pc = next /\ x.late = worker[w].late
    BY <2>2 DEF Thread
  <2> HIDE DEF x, next
  <2>5. QED  BY <1>4, <2>2, <2>3, <2>4
<1>14. CASE RecheckCancelled(w) /\ ~Leave(w)
  BY <1>9, <1>14 DEF RecheckCancelled, Goto, NotBegun
<1>15. ASSUME NEW pc \in {"advance", "fail", "crashing", "crashed"}, NEW proc, NEW seen,
              worker[w].pc # "idle",
              worker' = [worker EXCEPT ![w] = [worker[w] EXCEPT !.pc = pc, !.proc = proc,
                                                                !.seen = seen]]
       PROVE  LateOnce'
  <2> DEFINE x == [worker[w] EXCEPT !.pc = pc, !.proc = proc, !.seen = seen]
  <2>1. worker[w] \in Thread
    BY <1>5, <1>15
  <2>2. x.pc \notin NotBegun /\ x.late = worker[w].late
    BY <2>1 DEF Thread, NotBegun
  <2>3. worker' = [worker EXCEPT ![w] = x]
    BY <1>15
  <2> HIDE DEF x
  <2>4. QED  BY <1>4, <2>2, <2>3
<1>16. CASE Settle(w) /\ ~Leave(w)
  <2>1. PICK pc \in {"advance", "fail"} :
          worker' = [worker EXCEPT ![w].pc = pc, ![w].seen = run.status]
    BY <1>16 DEF Settle
  <2>2. [worker[w] EXCEPT !.pc = pc, !.proc = worker[w].proc, !.seen = run.status]
          = [worker[w] EXCEPT !.pc = pc, !.seen = run.status]
    BY <1>5, <1>16 DEF Settle, Thread
  <2>3. worker' = [worker EXCEPT ![w] =
          [worker[w] EXCEPT !.pc = pc, !.proc = worker[w].proc, !.seen = run.status]]
    BY <2>1, <2>2
  <2>4. worker[w].pc # "idle"
    BY <1>16 DEF Settle
  <2>5. QED  BY <1>15, <2>3, <2>4
<1>17. CASE Crash(w) /\ ~Leave(w)
  <2>1. worker' = [worker EXCEPT ![w] =
          [worker[w] EXCEPT !.pc = "crashing", !.proc = "none", !.seen = "expired"]]
    BY <1>17 DEF Crash
  <2>2. worker[w].pc # "idle"
    BY <1>17 DEF Crash
  <2>3. QED  BY <1>15, <2>1, <2>2
<1>18. CASE CrashReload(w)
  <2>1. worker' = [worker EXCEPT ![w].pc = "crashed", ![w].seen = run.status]
    BY <1>18 DEF CrashReload
  <2>2. [worker[w] EXCEPT !.pc = "crashed", !.proc = worker[w].proc, !.seen = run.status]
          = [worker[w] EXCEPT !.pc = "crashed", !.seen = run.status]
    BY <1>5, <1>18 DEF CrashReload, Thread
  <2>3. worker' = [worker EXCEPT ![w] =
          [worker[w] EXCEPT !.pc = "crashed", !.proc = worker[w].proc, !.seen = run.status]]
    BY <2>1, <2>2
  <2>4. worker[w].pc # "idle"
    BY <1>18 DEF CrashReload
  <2>5. QED  BY <1>15, <2>3, <2>4
<1>19. CASE Advance(w) \/ AllTicketsFailed(w) \/ CrashFails(w)
  BY <1>3, <1>19 DEF Advance, AllTicketsFailed, CrashFails
<1>20. QED
  BY <1>3, <1>6, <1>7, <1>8, <1>10, <1>11, <1>12, <1>13, <1>14, <1>16,
     <1>17, <1>18, <1>19 DEF WorkerStep

LEMMA StepOverrun == TypeInv /\ LateOnce /\ [Next]_vars => LateOnce'
<1> SUFFICES ASSUME TypeInv, LateOnce, [Next]_vars PROVE LateOnce'
  OBVIOUS
<1>1. CASE \E w \in Workers : WorkerStep(w) \/ Crash(w)
  BY <1>1, ThreadOverrun
<1>2. CASE \E h \in Handlers : HandlerStep(h)
  BY <1>2, RequestOverrun
<1>3. CASE Restart
  <2>1. \A w \in Workers : worker'[w] = worker[w] \/ worker'[w] = IdleWorker
    BY <1>3 DEF Restart
  <2>2. run'.flag = run.flag /\ (run.status = "gone" => run'.status = "gone")
    BY <1>3 DEF Restart, FailedAt, InProgress, TypeInv, TypeOK, RunRow
  <2>3. QED  BY <2>1, <2>2 DEF LateOnce, IdleWorker
<1>4. CASE UNCHANGED <<run, worker>>
  BY <1>4 DEF LateOnce
<1>5. QED  BY <1>1, <1>2, <1>3, <1>4 DEF Next, Request, Approve, vars

\* However many threads work on a run and whoever drops its cancel event, each
\* begins at most one item after a cancel or a stop committed its flag.
THEOREM OverrunIsBounded == Spec => []BoundedOverrun
<1>1. Init => LateOnce
  <2> SUFFICES ASSUME Init PROVE LateOnce
    OBVIOUS
  <2>1. \A w \in Workers : worker[w] = IdleWorker
    BY DEF Init
  <2>2. IdleWorker.late = 0 /\ IdleWorker.late <= 1
    BY DEF IdleWorker
  <2> HIDE DEF IdleWorker
  <2>3. \A w \in Workers : worker[w].late = 0 /\ worker[w].late <= 1
    BY <2>1, <2>2
  <2>4. QED  BY <2>3 DEF LateOnce
<1>2. LateOnce => BoundedOverrun
  BY DEF LateOnce, BoundedOverrun
<1>3. QED  BY <1>1, <1>2, StepOverrun, TypingInductive, PTL DEF Spec

-----------------------------------------------------------------------------
(* GuardBacked.                                                          *)

\* A thread that does not end keeps its kind, and the guards.
LEMMA KindKept ==
  ASSUME TypeInv, NEW w \in Workers, WorkerStep(w) \/ Crash(w), ~Leave(w)
  PROVE  KeepGuards /\ \A v \in Workers : worker'[v].kind = worker[v].kind
<1>1. worker[w].pc # "idle" => worker[w] \in Thread
  BY ThreadAt
<1>2. DOMAIN worker = Workers
  BY DEF TypeInv, TypeOK
<1>3. CASE WorkerLoad(w)
  <2>1. PICK pc \in {"open", "clear", "advance", "check"} : \E left, seen :
          /\ pc = "clear" => worker[w].kind = "prepare"
          /\ worker' = [worker EXCEPT ![w].pc = pc, ![w].left = left, ![w].seen = seen]
    BY <1>3, LoadMoves
  <2>2. PICK left, seen :
          /\ pc = "clear" => worker[w].kind = "prepare"
          /\ worker' = [worker EXCEPT ![w].pc = pc, ![w].left = left, ![w].seen = seen]
    BY <2>1
  <2>3. QED  BY <1>1, <1>2, <1>3, <2>2, LoadMoves DEF WorkerLoad, Thread
<1>4. CASE OpenSync(w)
  BY <1>1, <1>2, <1>4 DEF OpenSync, Thread
<1>5. CASE PrepareClears(w)
  <2>1. /\ \A v \in Workers : Untracked(worker)[v].kind = worker[v].kind
        /\ Untracked(worker)[w] \in Thread \cup {IdleWorker}
        /\ Untracked(worker)[w].pc = worker[w].pc
        /\ DOMAIN Untracked(worker) = Workers
    BY RegistryType DEF Untracked
  <2>2. Untracked(worker)[w] \in Thread
    BY <1>5, <2>1 DEF PrepareClears, IdleWorker
  <2>3. [Untracked(worker)[w] EXCEPT !.pc = "begin"].kind = Untracked(worker)[w].kind
    BY <2>2 DEF Thread
  <2>4. QED  BY <1>5, <2>1, <2>3 DEF PrepareClears, KeepGuards
<1>6. CASE CheckCancelled(w) \/ RecheckCancelled(w)
  BY <1>1, <1>2, <1>6 DEF CheckCancelled, RecheckCancelled, Goto, Thread
<1>7. CASE BeginItem(w)
  BY <1>1, <1>2, <1>7 DEF BeginItem, Thread
<1>8. CASE RegisterProcess(w)
  BY <1>1, <1>2, <1>8 DEF RegisterProcess, KeepGuards, Thread
<1>9. CASE EndItem(w)
  BY <1>1, <1>2, <1>9 DEF EndItem, ItemEnded, Thread
<1>10. CASE Settle(w)
  BY <1>1, <1>2, <1>10 DEF Settle, Thread
<1>11. CASE Crash(w)
  BY <1>1, <1>2, <1>11 DEF Crash, Thread
<1>12. CASE CrashReload(w)
  BY <1>1, <1>2, <1>12 DEF CrashReload, KeepGuards, Thread
<1>13. QED
  BY <1>3, <1>4, <1>5, <1>6, <1>7, <1>8, <1>9, <1>10, <1>11, <1>12
     DEF WorkerStep, Advance, AllTicketsFailed, CrashFails

\* A request takes a guard together with the thread that will drop it.
LEMMA GuardTaken ==
  ASSUME TypeInv, NEW h \in Handlers, HandlerStep(h)
  PROVE  /\ generating' => generating \/ \E w \in Workers : Start(w, "generation")
         /\ linking' => linking \/ \E w \in Workers, k \in {"link", "localLink"} : Start(w, k)
<1>1. CASE StartCreateLink(h)
  BY <1>1 DEF StartCreateLink, LinkKinds
<1>2. CASE GenerateAutomation(h)
  BY <1>2 DEF GenerateAutomation
<1>3. CASE StopRunWork(h)
  BY <1>3 DEF StopRunWork
<1>4. CASE UNCHANGED <<generating, linking>>
  BY <1>4
<1>5. QED
  BY <1>1, <1>2, <1>3, <1>4
     DEF HandlerStep, SetFlag, RequestCancel, KillProcesses, SetCancelled, ClearRegistry,
         ResetCancel, ForceStatus, Reopen, WipeCases, PrepareCredential, BlameProcessing,
         Refuse, DispatchPipeline, DispatchDraft, StartExecution, LaunchExecution,
         CompleteRun, DeleteRow

LEMMA StepGuards == TypeInv /\ GuardBacked /\ [Next]_vars => GuardBacked'
<1> SUFFICES ASSUME TypeInv, GuardBacked, [Next]_vars PROVE GuardBacked'
  OBVIOUS
<1>1. ASSUME NEW w \in Workers, WorkerStep(w) \/ Crash(w)
      PROVE  GuardBacked'
  <2>1. CASE Leave(w)
    <3>1. \A v \in Workers : v # w => worker'[v] = worker[v]
      BY <2>1 DEF Leave, TypeInv, TypeOK
    <3>2. QED  BY <2>1, <3>1 DEF GuardBacked, Leave
  <2>2. CASE ~Leave(w)
    BY <1>1, <2>2, KindKept DEF GuardBacked, KeepGuards
  <2>3. QED  BY <2>1, <2>2
<1>2. ASSUME NEW h \in Handlers, HandlerStep(h)
      PROVE  GuardBacked'
  <2>1. \A v \in Workers : worker'[v].kind = worker[v].kind \/ worker[v].kind = "none"
    BY <1>2, RequestKeeps DEF IdleWorker
  <2>2. \A w \in Workers, k \in Kinds : Start(w, k) => worker'[w].kind = k
    BY DEF Start, Dispatched, TypeInv, TypeOK
  <2>3. /\ generating' => generating \/ \E w \in Workers : worker'[w].kind = "generation"
        /\ linking' => linking \/ \E w \in Workers : worker'[w].kind \in {"link", "localLink"}
    BY <1>2, <2>2, GuardTaken DEF Kinds
  <2>4. QED  BY <2>1, <2>3 DEF GuardBacked
<1>3. CASE Restart
  BY <1>3 DEF Restart, GuardBacked
<1>4. CASE UNCHANGED <<generating, linking, worker>>
  BY <1>4 DEF GuardBacked
<1>5. QED  BY <1>1, <1>2, <1>3, <1>4 DEF Next, Request, Approve, vars

\* However passes end, and whoever drops a guard meanwhile: a run marked as
\* generating or linking has a thread that will drop the mark.
THEOREM GuardsAreBacked == Spec => []GuardBacked
<1>1. Init => GuardBacked
  BY DEF Init, GuardBacked
<1>2. QED  BY <1>1, StepGuards, TypingInductive, PTL DEF Spec

-----------------------------------------------------------------------------
(* NoEscape, where nothing drops the handles of live processes: clear() is *)
(* called by retry_run, prepare_comments and delete_run.                   *)

Untracking == {"retry", "prepare", "delete"}

\* A subprocess without a handle is one that is about to be registered.
OwnedIn(x) ==
  /\ x.proc # "none" => x.pc \in {"register", "work"}
  /\ x.proc = "alive" => x.pc = "register"
  /\ x.kind = "remote" => x.proc = "none" /\ x.pc \in {"work", "settle", "advance"}
  /\ x.kind # "prepare" /\ x.pc # "clear"
Owned == \A w \in Workers : OwnedIn(worker[w])

\* One that was registered before the event was set is about to be killed.
KillPending ==
  event => \/ \E h \in Handlers : At(h, "kill")
           \/ \A w \in Workers : worker[w].proc # "tracked"

\* The order of the steps of a cancel and of a stop.
KillFollows == \A h \in Handlers :
  /\ handler[h].stage # "drafting"
  /\ \A i \in 1..Len(handler[h].todo) :
       /\ handler[h].todo[i] = "event"
            => i < Len(handler[h].todo) /\ handler[h].todo[i + 1] = "kill"
       /\ handler[h].todo[i] # "clear"

EscapeInv == Owned /\ KillPending /\ KillFollows

LEMMA EscapeSuffices == TypeInv /\ EscapeInv => NoEscape
BY DEF TypeInv, TypeOK, EscapeInv, Owned, OwnedIn, KillPending, NoEscape, Thread, IdleWorker

LEMMA MovesOwned ==
  ASSUME TypeInv, EscapeInv, NEW w \in Workers, NEW x,
         worker' = [worker EXCEPT ![w] = x], UNCHANGED <<event, handler>>,
         OwnedIn(x), x.proc = "tracked" => worker[w].proc = "tracked" \/ ~event
  PROVE  EscapeInv'
<1>1. \A v \in Workers : worker'[v] = worker[v] \/ (v = w /\ worker'[v] = x)
  BY DEF TypeInv, TypeOK
<1>2. Owned'
  BY <1>1 DEF EscapeInv, Owned, OwnedIn
<1>3. KillPending'
  BY <1>1 DEF EscapeInv, KillPending, At
<1>4. QED  BY <1>2, <1>3 DEF EscapeInv, KillFollows

LEMMA ThreadEscape ==
  ASSUME TypeInv, EscapeInv, NEW w \in Workers, WorkerStep(w) \/ Crash(w)
  PROVE  EscapeInv'
<1> DEFINE x == worker[w]
<1>1. OwnedIn(x) /\ x.kind # "prepare" /\ x.pc # "clear"
  BY DEF EscapeInv, Owned, OwnedIn
<1>2. x.pc # "idle" => x \in Thread
  BY ThreadAt
<1>3. CASE Leave(w)
  <2>1. worker' = [worker EXCEPT ![w] = IdleWorker] /\ OwnedIn(IdleWorker)
        /\ IdleWorker.proc = "none"
    BY <1>3 DEF Leave, OwnedIn, IdleWorker
  <2>2. CASE UNCHANGED <<event, handler>>
    BY <2>1, <2>2, MovesOwned
  <2>3. QED
    BY <1>1, <2>2 DEF WorkerStep, WorkerLoad, OpenSync, PrepareClears, CheckCancelled,
       BeginItem, RegisterProcess, EndItem, RecheckCancelled, Settle, Advance,
       AllTicketsFailed, Crash, CrashReload, CrashFails
<1>4. CASE WorkerLoad(w) /\ ~Leave(w)
  <2>1. PICK pc \in {"open", "clear", "advance", "check"} : \E left, seen :
          /\ pc = "clear" => x.kind = "prepare"
          /\ worker' = [worker EXCEPT ![w].pc = pc, ![w].left = left, ![w].seen = seen]
    BY <1>4, LoadMoves
  <2>2. PICK left, seen :
          /\ pc = "clear" => worker[w].kind = "prepare"
          /\ worker' = [worker EXCEPT ![w].pc = pc, ![w].left = left, ![w].seen = seen]
    BY <2>1
  <2> DEFINE y == [x EXCEPT !.pc = pc, !.left = left, !.seen = seen]
  <2>3. y.kind = x.kind /\ y.proc = x.proc /\ y.pc = pc /\ x.pc = "load"
    BY <1>2, <1>4 DEF WorkerLoad, Thread
  <2>4. worker' = [worker EXCEPT ![w] = y] /\ UNCHANGED <<event, handler>>
    BY <1>4, <2>2 DEF WorkerLoad
  <2>5. OwnedIn(y) /\ y.proc # "tracked"
    <3> HIDE DEF y
    <3>1. QED  BY <1>1, <2>2, <2>3 DEF OwnedIn
  <2> HIDE DEF y
  <2>6. QED  BY <2>4, <2>5, MovesOwned
<1>5. CASE OpenSync(w) /\ ~Leave(w)
  <2> DEFINE y == [x EXCEPT !.pc = "check", !.seen = "expired"]
  <2>1. y.kind = x.kind /\ y.proc = x.proc /\ y.pc = "check" /\ x.pc = "open"
    BY <1>2, <1>5 DEF OpenSync, Thread
  <2>2. worker' = [worker EXCEPT ![w] = y] /\ UNCHANGED <<event, handler>>
    BY <1>5 DEF OpenSync
  <2> HIDE DEF y
  <2>3. OwnedIn(y) /\ y.proc # "tracked"
    BY <1>1, <2>1 DEF OwnedIn
  <2>4. QED  BY <2>2, <2>3, MovesOwned
<1>6. CASE (CheckCancelled(w) \/ RecheckCancelled(w)) /\ ~Leave(w)
  <2>1. PICK pc \in {"begin", "advance"} : worker' = [worker EXCEPT ![w].pc = pc]
    BY <1>6 DEF CheckCancelled, RecheckCancelled, Goto
  <2> DEFINE y == [x EXCEPT !.pc = pc]
  <2>2. y.kind = x.kind /\ y.proc = x.proc /\ y.pc = pc /\ x.pc \in {"check", "recheck"}
    BY <1>2, <1>6 DEF CheckCancelled, RecheckCancelled, Thread
  <2>3. worker' = [worker EXCEPT ![w] = y] /\ UNCHANGED <<event, handler>>
    BY <1>6, <2>1 DEF CheckCancelled, RecheckCancelled
  <2> HIDE DEF y
  <2>4. OwnedIn(y) /\ y.proc # "tracked"
    BY <1>1, <2>2 DEF OwnedIn
  <2>5. QED  BY <2>3, <2>4, MovesOwned
<1>7. CASE BeginItem(w) /\ ~Leave(w)
  <2> DEFINE links == x.kind \in {"link", "localLink"}
             y == [x EXCEPT !.pc = IF links THEN "work" ELSE "register",
                            !.proc = IF links THEN "none" ELSE "alive",
                            !.seen = IF x.kind = "generation" /\ @ = "expired"
                                     THEN run.status ELSE @,
                            !.late = IF run.flag /\ run.status # "gone" THEN @ + 1 ELSE @]
  <2>1. worker' = [worker EXCEPT ![w] = y] /\ UNCHANGED <<event, handler>>
    BY <1>7 DEF BeginItem
  <2>2. /\ y.kind = x.kind /\ x.pc = "begin"
        /\ \/ y.pc = "work" /\ y.proc = "none"
           \/ y.pc = "register" /\ y.proc = "alive"
    BY <1>2, <1>7 DEF BeginItem, Thread
  <2> HIDE DEF y
  <2>3. OwnedIn(y) /\ y.proc # "tracked"
    BY <1>1, <2>2 DEF OwnedIn
  <2>4. QED  BY <2>1, <2>3, MovesOwned
<1>8. CASE RegisterProcess(w)
  <2> DEFINE proc == IF event THEN "none" ELSE "tracked"
             y == [x EXCEPT !.pc = "work", !.proc = proc]
  <2>1. y.kind = x.kind /\ y.proc = proc /\ y.pc = "work" /\ x.pc = "register"
    BY <1>2, <1>8 DEF RegisterProcess, Thread
  <2>2. worker' = [worker EXCEPT ![w] = y] /\ UNCHANGED <<event, handler>>
    BY <1>8 DEF RegisterProcess
  <2> HIDE DEF y
  <2>3. OwnedIn(y) /\ (y.proc = "tracked" => ~event)
    BY <1>1, <2>1 DEF OwnedIn
  <2>4. QED  BY <2>2, <2>3, MovesOwned
<1>9. CASE EndItem(w) /\ ~Leave(w)
  <2>1. PICK seen : ItemEnded(w, seen)
    BY <1>9 DEF EndItem
  <2> DEFINE left == x.left - 1
             next == AfterItem(x.kind, left, seen)
             y == [x EXCEPT !.pc = next, !.left = left, !.proc = "none", !.seen = seen]
  <2>2. y.kind = x.kind /\ y.proc = "none" /\ y.pc = next
    BY <1>2, <1>9 DEF EndItem, Thread
  <2>3. worker' = [worker EXCEPT ![w] = y] /\ UNCHANGED <<event, handler>>
    BY <1>9, <2>1 DEF ItemEnded, EndItem
  <2>4. next # "clear" /\ (x.kind = "remote" => next = "settle")
    BY DEF AfterItem
  <2> HIDE DEF y, next
  <2>5. OwnedIn(y) /\ y.proc # "tracked"
    BY <1>1, <2>2, <2>4 DEF OwnedIn
  <2>6. QED  BY <2>3, <2>5, MovesOwned
<1>10. CASE Settle(w) /\ ~Leave(w)
  <2>1. PICK pc \in {"advance", "fail"} :
          /\ pc = "fail" => x.kind = "pipeline"
          /\ worker' = [worker EXCEPT ![w].pc = pc, ![w].seen = run.status]
    BY <1>10 DEF Settle
  <2> DEFINE y == [x EXCEPT !.pc = pc, !.seen = run.status]
  <2>2. y.kind = x.kind /\ y.proc = x.proc /\ y.pc = pc /\ x.pc = "settle"
    BY <1>2, <1>10 DEF Settle, Thread
  <2>3. worker' = [worker EXCEPT ![w] = y] /\ UNCHANGED <<event, handler>>
    BY <1>10, <2>1 DEF Settle
  <2> HIDE DEF y
  <2>4. OwnedIn(y) /\ y.proc # "tracked"
    BY <1>1, <2>1, <2>2 DEF OwnedIn
  <2>5. QED  BY <2>3, <2>4, MovesOwned
<1>11. CASE Crash(w) /\ ~Leave(w)
  <2> DEFINE y == [x EXCEPT !.pc = "crashing", !.proc = "none", !.seen = "expired"]
  <2>1. y.kind = x.kind /\ y.proc = "none" /\ y.pc = "crashing" /\ x.kind # "remote"
    BY <1>2, <1>11 DEF Crash, Thread
  <2>2. worker' = [worker EXCEPT ![w] = y] /\ UNCHANGED <<event, handler>>
    BY <1>11 DEF Crash
  <2> HIDE DEF y
  <2>3. OwnedIn(y) /\ y.proc # "tracked"
    BY <1>1, <2>1 DEF OwnedIn
  <2>4. QED  BY <2>2, <2>3, MovesOwned
<1>12. CASE CrashReload(w)
  <2> DEFINE y == [x EXCEPT !.pc = "crashed", !.seen = run.status]
  <2>1. y.kind = x.kind /\ y.proc = x.proc /\ y.pc = "crashed" /\ x.pc = "crashing"
    BY <1>2, <1>12 DEF CrashReload, Thread
  <2>2. worker' = [worker EXCEPT ![w] = y] /\ UNCHANGED <<event, handler>>
    BY <1>12 DEF CrashReload
  <2> HIDE DEF y
  <2>3. OwnedIn(y) /\ y.proc # "tracked"
    BY <1>1, <2>1 DEF OwnedIn
  <2>4. QED  BY <2>2, <2>3, MovesOwned
<1>13. ~PrepareClears(w)
  BY <1>1 DEF PrepareClears
<1>14. CASE Advance(w) \/ AllTicketsFailed(w) \/ CrashFails(w)
  BY <1>3, <1>14 DEF Advance, AllTicketsFailed, CrashFails
<1>15. QED
  BY <1>3, <1>4, <1>5, <1>6, <1>7, <1>8, <1>9, <1>10, <1>11, <1>12, <1>13, <1>14
     DEF WorkerStep

\* What a request still has to do after one of its steps.
LEMMA RequestGoesOn ==
  ASSUME TypeInv, NEW h \in Handlers, HandlerStep(h)
  PROVE  /\ handler[h].todo # <<>>
         /\ \E rest \in {Tail(handler[h].todo), <<>>, <<"blame", "refuse">>, <<"launch">>} :
              \E now : Resume(h, rest, now)
<1>1. ASSUME NEW new, Saves(h, new)
      PROVE  \E rest \in {Tail(handler[h].todo), <<>>, <<"blame", "refuse">>, <<"launch">>} :
               \E now : Resume(h, rest, now)
  BY <1>1 DEF Saves
<1>2. CASE StepDone(h)
  BY <1>2 DEF StepDone, HandlerStep, At, SetFlag, RequestCancel, KillProcesses,
     SetCancelled, StopRunWork, ClearRegistry, ResetCancel, ForceStatus, Reopen,
     WipeCases, PrepareCredential, BlameProcessing, Refuse, DispatchPipeline,
     DispatchDraft, StartCreateLink, GenerateAutomation, StartExecution,
     LaunchExecution, CompleteRun, DeleteRow
<1>3. CASE SetFlag(h) \/ SetCancelled(h) \/ ResetCancel(h) \/ ForceStatus(h)
           \/ BlameProcessing(h) \/ Refuse(h) \/ (Reopen(h) /\ ~StepDone(h))
  BY <1>1, <1>3 DEF At, SetFlag, SetCancelled, ResetCancel, ForceStatus, BlameProcessing,
                    Refuse, Reopen
<1>4. CASE (PrepareCredential(h) \/ StartExecution(h)) /\ ~StepDone(h)
  BY <1>4 DEF At, PrepareCredential, StartExecution
<1>5. QED
  BY <1>2, <1>3, <1>4 DEF HandlerStep, RequestCancel, KillProcesses, StopRunWork,
     ClearRegistry, WipeCases, DispatchPipeline, DispatchDraft, StartCreateLink,
     GenerateAutomation, LaunchExecution, CompleteRun, DeleteRow, Reopen,
     PrepareCredential, StartExecution

\* The steps of the registry are the only ones of their names.
LEMMA RegistryStep ==
  ASSUME NEW h \in Handlers, HandlerStep(h)
  PROVE  /\ At(h, "kill") => KillProcesses(h)
         /\ event' => event \/ RequestCancel(h)
BY DEF At, HandlerStep, SetFlag, RequestCancel, KillProcesses, SetCancelled, StopRunWork,
     ClearRegistry, ResetCancel, ForceStatus, Reopen, WipeCases, PrepareCredential,
     BlameProcessing, Refuse, DispatchPipeline, DispatchDraft, StartCreateLink,
     GenerateAutomation, StartExecution, LaunchExecution, CompleteRun, DeleteRow

LEMMA RequestOrder ==
  ASSUME TypeInv, KillFollows, NEW h \in Handlers, HandlerStep(h)
  PROVE  /\ KillFollows'
         /\ RequestCancel(h) => At(h, "kill")'
         /\ \A g \in Handlers : g # h => handler'[g] = handler[g]
<1> DEFINE todo == handler[h].todo
<1>1. PICK rest \in {Tail(todo), <<>>, <<"blame", "refuse">>, <<"launch">>} :
        \E now : Resume(h, rest, now)
  BY RequestGoesOn
<1>2. todo # <<>> /\ handler[h] \in Serving /\ todo \in Seq(Steps)
  BY RequestGoesOn DEF TypeInv, TypeOK, IdleHandler, Serving
<1>3. /\ Tail(todo) \in Seq(Steps) /\ Len(Tail(todo)) = Len(todo) - 1
      /\ Len(todo) \in Nat /\ Len(todo) > 0
      /\ \A i \in 1..Len(Tail(todo)) : Tail(todo)[i] = todo[i + 1]
      /\ Head(todo) = todo[1]
  BY <1>2, TailType, LenProperties, HeadTailProperties
<1>4. PICK now : Resume(h, rest, now)
  BY <1>1
<1> DEFINE next == IF rest = <<>> THEN IdleHandler
                   ELSE [handler[h] EXCEPT !.todo = rest, !.was = now]
<1>5. next.todo = rest /\ (next.stage = handler[h].stage \/ next.stage = "none")
  BY <1>2 DEF Serving, IdleHandler
<1>6. /\ handler'[h] = next
      /\ \A g \in Handlers : g # h => handler'[g] = handler[g]
  BY <1>4 DEF Resume, TypeInv, TypeOK
<1> HIDE DEF next
<1>7. \A i \in 1..Len(todo) : /\ todo[i] = "event" => i < Len(todo) /\ todo[i + 1] = "kill"
                              /\ todo[i] # "clear"
  BY DEF KillFollows
<1>8. \A i \in 1..Len(rest) : /\ rest[i] = "event" => i < Len(rest) /\ rest[i + 1] = "kill"
                              /\ rest[i] # "clear"
  <2>1. CASE rest = Tail(todo)
    <3> SUFFICES ASSUME NEW i \in 1..Len(Tail(todo))
                 PROVE  /\ Tail(todo)[i] = "event"
                             => i < Len(Tail(todo)) /\ Tail(todo)[i + 1] = "kill"
                        /\ Tail(todo)[i] # "clear"
      BY <2>1
    <3>1. i + 1 \in 1..Len(todo) /\ Tail(todo)[i] = todo[i + 1]
      BY <1>3
    <3>2. CASE todo[i + 1] = "event"
      <4>1. i + 1 < Len(todo) /\ todo[(i + 1) + 1] = "kill"
        BY <1>7, <3>1, <3>2
      <4>2. i + 1 \in 1..Len(Tail(todo))
        BY <1>3, <4>1
      <4>3. QED  BY <1>3, <3>1, <3>2, <4>1, <4>2
    <3>3. CASE todo[i + 1] # "event"
      BY <1>7, <3>1, <3>3
    <3>4. QED  BY <3>2, <3>3
  <2>2. CASE rest # Tail(todo)
    <3>1. rest \in {<<>>, <<"blame", "refuse">>, <<"launch">>}
      BY <2>2
    <3>2. \A i \in 1..Len(rest) : rest[i] \notin {"event", "clear"}
      BY <3>1
    <3>3. QED  BY <3>2
  <2>3. QED  BY <2>1, <2>2
<1>9. KillFollows'
  BY <1>5, <1>6, <1>8 DEF KillFollows
<1>10. ASSUME RequestCancel(h) PROVE At(h, "kill")'
  <2>1. At(h, "event") /\ Resume(h, Tail(todo), handler[h].was)
    BY <1>10 DEF RequestCancel, StepDone
  <2>2. 1 < Len(todo) /\ todo[2] = "kill"
    BY <1>3, <1>7, <2>1 DEF At
  <2>3. Tail(todo) # <<>> /\ Head(Tail(todo)) = "kill"
    <3>1. 1 \in 1..Len(Tail(todo))
      BY <1>3, <2>2
    <3>2. Tail(todo)[1] = "kill" /\ Tail(todo) # <<>>
      BY <1>3, <2>2, <3>1
    <3>3. QED  BY <1>3, <3>2, HeadTailProperties
  <2>4. handler'[h].todo = Tail(todo)
    <3>1. handler' = [handler EXCEPT ![h] =
                        [handler[h] EXCEPT !.todo = Tail(todo), !.was = handler[h].was]]
      BY <2>1, <2>3 DEF Resume
    <3>2. [handler[h] EXCEPT !.todo = Tail(todo), !.was = handler[h].was].todo = Tail(todo)
      BY <1>2 DEF Serving
    <3>3. QED  BY <3>1, <3>2 DEF TypeInv, TypeOK
  <2>5. QED  BY <2>3, <2>4 DEF At
<1>11. QED  BY <1>6, <1>9, <1>10

LEMMA RequestEscape ==
  ASSUME TypeInv, EscapeInv, NEW h \in Handlers, HandlerStep(h)
  PROVE  EscapeInv'
<1>1. /\ KillFollows'
      /\ RequestCancel(h) => At(h, "kill")'
      /\ \A g \in Handlers : g # h => handler'[g] = handler[g]
  BY RequestOrder DEF EscapeInv
<1>2. ~ClearRegistry(h)
  BY AtType DEF EscapeInv, KillFollows, ClearRegistry
<1>3. \A v \in Workers : worker[v] \in Thread \cup {IdleWorker} /\ OwnedIn(worker[v])
  BY DEF EscapeInv, Owned, TypeInv, TypeOK
<1>4. /\ \A v \in Workers : /\ OwnedIn(worker'[v])
                            /\ worker'[v].proc = "tracked" => worker[v].proc = "tracked"
      /\ KillProcesses(h) => \A v \in Workers : worker'[v].proc # "tracked"
  <2>1. CASE UNCHANGED worker /\ ~KillProcesses(h)
    BY <1>3, <2>1
  <2>2. ASSUME NEW w \in Workers, NEW kind \in Kinds, Start(w, kind),
               kind = "prepare" => handler[h].stage = "drafting", ~KillProcesses(h)
        PROVE  <1>4!1
    <3>1. kind # "prepare"
      BY <2>2 DEF EscapeInv, KillFollows
    <3>2. OwnedIn(Dispatched(kind)) /\ Dispatched(kind).proc = "none"
      BY <3>1 DEF OwnedIn, Dispatched
    <3>3. \A v \in Workers : worker'[v] = worker[v] \/ worker'[v] = Dispatched(kind)
      BY <2>2 DEF Start, TypeInv, TypeOK
    <3>4. QED  BY <1>3, <2>2, <3>2, <3>3
  <2>3. CASE KillProcesses(h)
    <3>1. \A v \in Workers :
            /\ worker'[v].kind = worker[v].kind /\ worker'[v].pc = worker[v].pc
            /\ worker'[v].proc = IF worker[v].proc = "tracked" THEN "none" ELSE worker[v].proc
      BY <2>3, RegistryType DEF KillProcesses
    <3>2. QED  BY <1>3, <3>1 DEF OwnedIn
  <2>4. CASE ResetCancel(h)
    <3>1. \A v \in Workers : worker'[v] = IF run'.flag THEN worker[v]
                                          ELSE [worker[v] EXCEPT !.late = 0]
      BY <2>4 DEF ResetCancel
    <3>2. \A x \in Thread \cup {IdleWorker} :
            LET y == [x EXCEPT !.late = 0]
            IN  y.kind = x.kind /\ y.pc = x.pc /\ y.proc = x.proc
      BY DEF Thread, IdleWorker
    <3>3. \A v \in Workers : /\ worker'[v].kind = worker[v].kind
                             /\ worker'[v].pc = worker[v].pc
                             /\ worker'[v].proc = worker[v].proc
      BY <1>3, <3>1, <3>2
    <3>4. ~KillProcesses(h)
      BY <2>4 DEF ResetCancel, KillProcesses, At
    <3>5. QED  BY <1>3, <3>3, <3>4 DEF OwnedIn
  <2>5. QED  BY <1>2, <2>1, <2>2, <2>3, <2>4, RequestEffect
<1>5. Owned'
  BY <1>4 DEF Owned, OwnedIn
<1>6. KillPending'
  <2>1. CASE KillProcesses(h)
    BY <1>4, <2>1 DEF KillPending
  <2>2. CASE RequestCancel(h)
    BY <1>1, <2>2 DEF KillPending
  <2>3. CASE ~KillProcesses(h) /\ ~RequestCancel(h)
    <3>1. event' => event
      BY <2>3, RegistryStep
    <3>2. \A g \in Handlers : At(g, "kill") => At(g, "kill")'
      BY <1>1, <2>3, RegistryStep DEF At
    <3>3. QED  BY <1>4, <3>1, <3>2 DEF EscapeInv, KillPending
  <2>4. QED  BY <2>1, <2>2, <2>3
<1>7. QED  BY <1>1, <1>5, <1>6 DEF EscapeInv

LEMMA AcceptedEscape ==
  ASSUME TypeInv, EscapeInv, NEW h \in Handlers, NEW cmd \in Commands \ Untracking,
         Request(h, cmd)
  PROVE  EscapeInv'
<1> DEFINE new == [cmd |-> cmd, todo |-> Script(cmd, run), stage |-> Target(cmd, run),
                   was |-> run]
<1>1. Target(cmd, run) # "drafting"
  BY DEF Target, Untracking, ResumeStage
<1>2. \A i \in 1..Len(Script(cmd, run)) :
        /\ Script(cmd, run)[i] = "event"
             => i < Len(Script(cmd, run)) /\ Script(cmd, run)[i + 1] = "kill"
        /\ Script(cmd, run)[i] # "clear"
  BY DEF Script, Untracking
<1>3. handler' = [handler EXCEPT ![h] = new] /\ handler[h].todo = <<>>
      /\ UNCHANGED <<event, worker>>
  BY DEF Request
<1>4. \A g \in Handlers : handler'[g] = IF g = h THEN new ELSE handler[g]
  BY <1>3 DEF TypeInv, TypeOK
<1>5. KillFollows'
  BY <1>1, <1>2, <1>4 DEF EscapeInv, KillFollows
<1>6. \A g \in Handlers : At(g, "kill") => At(g, "kill")'
  BY <1>3, <1>4 DEF At
<1>7. QED  BY <1>3, <1>5, <1>6 DEF EscapeInv, Owned, OwnedIn, KillPending

LEMMA StepEscape ==
  ASSUME Commands \cap Untracking = {}
  PROVE  TypeInv /\ EscapeInv /\ [Next]_vars => EscapeInv'
<1> SUFFICES ASSUME TypeInv, EscapeInv, [Next]_vars PROVE EscapeInv'
  OBVIOUS
<1>1. CASE \E w \in Workers : WorkerStep(w) \/ Crash(w)
  BY <1>1, ThreadEscape
<1>2. CASE \E h \in Handlers : HandlerStep(h)
  BY <1>2, RequestEscape
<1>3. CASE \E h \in Handlers, cmd \in Commands : Request(h, cmd)
  BY <1>3, AcceptedEscape
<1>4. CASE Restart
  <2>1. \A w \in Workers : worker'[w] = worker[w] \/ worker'[w] = IdleWorker
    BY <1>4 DEF Restart
  <2>2. OwnedIn(IdleWorker)
    BY DEF OwnedIn, IdleWorker
  <2>3. Owned'
    BY <2>1, <2>2 DEF EscapeInv, Owned, OwnedIn
  <2>4. KillPending' /\ KillFollows'
    BY <1>4 DEF Restart, KillPending, KillFollows, IdleHandler
  <2>5. QED  BY <2>3, <2>4 DEF EscapeInv
<1>5. CASE UNCHANGED <<event, worker, handler>>
  BY <1>5 DEF EscapeInv, Owned, OwnedIn, KillPending, KillFollows, At
<1>6. QED  BY <1>1, <1>2, <1>3, <1>4, <1>5 DEF Next, Approve, vars

\* Where no request drops the handles of live processes, a subprocess spawned
\* around a cancel or a stop never outlives it, however many threads spawn
\* and however many requests cancel.
THEOREM NothingEscapes ==
  ASSUME Commands \cap Untracking = {}
  PROVE  Spec => []NoEscape
<1>1. Init => EscapeInv
  <2> SUFFICES ASSUME Init PROVE EscapeInv
    OBVIOUS
  <2>1. \A w \in Workers : OwnedIn(worker[w])
    BY DEF Init, OwnedIn, IdleWorker
  <2>2. KillPending
    BY DEF Init, KillPending
  <2>3. KillFollows
    BY DEF Init, KillFollows, IdleHandler
  <2>4. QED  BY <2>1, <2>2, <2>3 DEF EscapeInv, Owned
<1>2. TypeInv /\ EscapeInv /\ [Next]_vars => EscapeInv'
  BY StepEscape
<1>3. QED  BY <1>1, <1>2, EscapeSuffices, TypingInductive, PTL DEF Spec
=============================================================================
