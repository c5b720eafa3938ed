----------------------- MODULE ExecutionQueue_proofs -----------------------
(***************************************************************************)
(* Proofs about ExecutionQueue for any number of cases, devices, requests, *)
(* executions and faults: its types, that it implements OneShotOffer, that *)
(* a running execution has somebody who will end it, that every evidence   *)
(* row has its file, and that the counts of an execution match its rows:   *)
(* the invariant of the last says of every clean execution what its rows   *)
(* will be once the result posts on their way have arrived.                *)
(***************************************************************************)
EXTENDS ExecutionQueue, SequenceTheorems, FiniteSetTheorems,
        WellFoundedInduction, TLAPS

-----------------------------------------------------------------------------
(* Types.                                                                *)

\* Values of the cases of a subset of Cases.
Partial(values) == UNION {[s -> values] : s \in SUBSET Cases}
Counts == 0 .. Cardinality(Cases)

ExecutionRow ==
  [kind : Kinds, status : Live \cup {"done", "failed"}, taker : Devices \cup {NoDevice},
   result : Partial(ResultStatus), passed : Counts, failed : Counts,
   gone : BOOLEAN, lost : BOOLEAN, early : BOOLEAN, stopped : BOOLEAN]

Claiming == [pc : {"selected", "claimed", "refusing"}, ex : DOMAIN ex]
Running == [pc : {"running", "crashed"}, ex : DOMAIN ex, specs : SUBSET Cases,
            verdict : Partial(Verdicts), quiet : BOOLEAN]
Posts == [kind : {"result", "evidence"}, ex : DOMAIN ex, case : Cases, verdict : Verdicts]

ExTyped == ex \in Seq(ExecutionRow) /\ Len(ex) <= MaxExecs
DevTyped == dev \in [Devices -> {Idle, [pc |-> "off"]} \cup Claiming \cup Running]
ReqTyped == req \in [Requests -> {Idle, [pc |-> "alone"]} \cup [pc : {"pruned"}, id : DOMAIN ex]]
TypeInv == /\ ExTyped /\ DevTyped /\ ReqTyped
           /\ msg \subseteq Posts /\ ev \subseteq (DOMAIN ex) \X Cases

\* The bounds are as the configurations choose them.
Bounded == MaxExecs \in Nat /\ IsFiniteSet(Cases)

LEMMA PartialMaps ==
  ASSUME NEW values, NEW f
  PROVE  f \in Partial(values) <=> DOMAIN f \subseteq Cases /\ f \in [DOMAIN f -> values]
<1>1. ASSUME f \in Partial(values) PROVE DOMAIN f \subseteq Cases /\ f \in [DOMAIN f -> values]
  <2>1. PICK s \in SUBSET Cases : f \in [s -> values]
    BY <1>1 DEF Partial
  <2> QED BY <2>1
<1>2. ASSUME DOMAIN f \subseteq Cases, f \in [DOMAIN f -> values] PROVE f \in Partial(values)
  BY <1>2 DEF Partial
<1> QED BY <1>1, <1>2

\* How many of the cases of a partial map have a value.
LEMMA CountBound ==
  ASSUME IsFiniteSet(Cases), NEW f, NEW v, DOMAIN f \subseteq Cases
  PROVE  Count(f, v) \in Counts
<1> DEFINE s == {c \in DOMAIN f : f[c] = v}
<1>1. IsFiniteSet(s) /\ Cardinality(s) <= Cardinality(Cases)
  BY FS_Subset
<1>2. Cardinality(s) \in Nat /\ Cardinality(Cases) \in Nat
  BY <1>1, FS_CardinalityType
<1> QED BY <1>1, <1>2 DEF Count, Counts

LEMMA SetBound ==
  ASSUME IsFiniteSet(Cases), NEW s, s \subseteq Cases
  PROVE  Cardinality(s) \in Counts /\ 0 \in Counts
<1>1. IsFiniteSet(s) /\ Cardinality(s) <= Cardinality(Cases)
  BY FS_Subset
<1>2. Cardinality(s) \in Nat /\ Cardinality(Cases) \in Nat
  BY <1>1, FS_CardinalityType
<1> QED BY <1>1, <1>2 DEF Counts

LEMMA RowTyped ==
  ASSUME ExTyped, NEW i \in DOMAIN ex
  PROVE  /\ ex[i] \in ExecutionRow
         /\ Rows(i) \subseteq Cases /\ ex[i].result \in [Rows(i) -> ResultStatus]
<1>1. ex[i] \in ExecutionRow
  BY DEF ExTyped
<1>2. ex[i].result \in Partial(ResultStatus)
  BY <1>1 DEF ExecutionRow
<1> QED BY <1>1, <1>2, PartialMaps DEF Rows

\* A step that writes rows of the table and keeps its length.
LEMMA TableKept ==
  ASSUME TypeInv, ex' \in [DOMAIN ex -> ExecutionRow],
         dev' \in [Devices -> {Idle, [pc |-> "off"]} \cup Claiming \cup Running],
         req' \in [Requests -> {Idle, [pc |-> "alone"]} \cup [pc : {"pruned"}, id : DOMAIN ex]],
         msg' \subseteq Posts, ev' \subseteq (DOMAIN ex) \X Cases
  PROVE  TypeInv' /\ DOMAIN ex' = DOMAIN ex
<1>1. DOMAIN ex = 1 .. Len(ex) /\ Len(ex) \in Nat
  BY DEF TypeInv, ExTyped
<1>2. ex' \in Seq(ExecutionRow)
  BY <1>1, SeqDef
<1>3. Len(ex') = Len(ex) /\ DOMAIN ex' = DOMAIN ex
  BY <1>1, <1>2
<1>4. ExTyped'
  BY <1>2, <1>3 DEF TypeInv, ExTyped
<1>5. DevTyped'
  BY <1>3 DEF DevTyped, Claiming, Running
<1>6. ReqTyped'
  BY <1>3 DEF ReqTyped
<1>7. msg' \subseteq Posts' /\ ev' \subseteq (DOMAIN ex') \X Cases
  BY <1>3 DEF Posts
<1> QED BY <1>3, <1>4, <1>5, <1>6, <1>7 DEF TypeInv

\* A step that appends a row and may write others.
LEMMA TableGrown ==
  ASSUME TypeInv, Bounded, Len(ex) < MaxExecs,
         NEW x \in ExecutionRow, NEW t \in [DOMAIN ex -> ExecutionRow],
         ex' = Append(t, x), UNCHANGED <<dev, msg>>, ev' \subseteq ev,
         req' \in [Requests -> {Idle, [pc |-> "alone"]}
                                 \cup [pc : {"pruned"}, id : DOMAIN ex \cup {Len(ex) + 1}]]
  PROVE  /\ TypeInv' /\ DOMAIN ex' = DOMAIN ex \cup {Len(ex) + 1}
         /\ Len(ex) + 1 \in Ids \ DOMAIN ex
         /\ ex'[Len(ex) + 1] = x /\ \A i \in DOMAIN ex : ex'[i] = t[i]
<1>1. DOMAIN ex = 1 .. Len(ex) /\ Len(ex) \in Nat
  BY DEF TypeInv, ExTyped
<1>2. t \in Seq(ExecutionRow)
  BY <1>1, SeqDef
<1>3. Len(t) = Len(ex) /\ DOMAIN t = DOMAIN ex
  BY <1>1, <1>2
<1>4. /\ ex' \in Seq(ExecutionRow) /\ Len(ex') = Len(ex) + 1 /\ DOMAIN ex' = 1 .. Len(ex) + 1
      /\ ex'[Len(ex) + 1] = x /\ \A i \in 1 .. Len(ex) : ex'[i] = t[i]
  BY <1>1, <1>2, <1>3, AppendProperties
<1>5. DOMAIN ex' = DOMAIN ex \cup {Len(ex) + 1}
  BY <1>1, <1>4
<1>6. ExTyped'
  BY <1>1, <1>4 DEF ExTyped, Bounded
<1>7. DevTyped'
  BY <1>5 DEF TypeInv, DevTyped, Claiming, Running
<1>8. ReqTyped'
  BY <1>5 DEF ReqTyped
<1>9. msg' \subseteq Posts' /\ ev' \subseteq (DOMAIN ex') \X Cases
  BY <1>5 DEF TypeInv, Posts
<1>10. Len(ex) + 1 \in Ids \ DOMAIN ex
  BY <1>1 DEF Ids, Bounded
<1> QED BY <1>1, <1>4, <1>5, <1>6, <1>7, <1>8, <1>9, <1>10 DEF TypeInv

-----------------------------------------------------------------------------
(* What a step does to the table: it adds a queued row, gives one to a     *)
(* device, or settles rows, which are at most ended.                       *)

Settles ==
  /\ DOMAIN ex' = DOMAIN ex
  /\ \A i \in DOMAIN ex :
       /\ ex'[i].taker = ex[i].taker /\ ex'[i].gone = ex[i].gone
       /\ ex[i].lost => ex'[i].lost
       /\ ex'[i].status = ex[i].status \/ ex'[i].status \in {"done", "failed"}

Gives(i, d) ==
  /\ i \in Queued /\ DOMAIN ex' = DOMAIN ex
  /\ ex'[i].taker = d /\ ex'[i].gone = ex[i].gone /\ ex'[i].status = "running"
  /\ \A j \in DOMAIN ex \ {i} : ex'[j] = ex[j]

Adds ==
  LET n == Len(ex) + 1 IN
  /\ DOMAIN ex' = DOMAIN ex \cup {n} /\ n \in Ids \ DOMAIN ex
  /\ ex'[n].status = "queued" /\ ~ex'[n].gone /\ ex'[n].taker = NoDevice
  /\ \A i \in DOMAIN ex : /\ ex'[i].taker = ex[i].taker /\ ex'[i].status = ex[i].status
                          /\ ex'[i].lost = ex[i].lost /\ (ex[i].gone => ex'[i].gone)

\* A new row is well typed.
LEMMA NewRow ==
  ASSUME Bounded, NEW kind \in Kinds, NEW cs \in SUBSET Cases
  PROVE  Execution(kind, Pending(cs)) \in ExecutionRow
<1>1. Pending(cs) \in Partial(ResultStatus)
  BY PartialMaps DEF Pending, ResultStatus
<1>2. 0 \in Counts
  BY SetBound DEF Bounded
<1> QED BY <1>1, <1>2 DEF Execution, ExecutionRow, Live

LEMMA StartInsertAdds ==
  ASSUME TypeInv, Bounded, NEW q \in Requests, StartInsert(q)
  PROVE  TypeInv' /\ (Adds \/ Settles)
<1> DEFINE old == {i \in Here : RunScoped(i)}
           t == [i \in DOMAIN ex |-> IF i \in old THEN [ex[i] EXCEPT !.gone = TRUE] ELSE ex[i]]
           x == Execution("suite", Pending({}))
<1>1. CASE old = {}
  <2>1. /\ req' = [req EXCEPT ![q] = [pc |-> "alone"]] /\ UNCHANGED <<ex, ev, files>>
        /\ UNCHANGED <<stop, dev, msg>>
    BY <1>1 DEF StartInsert
  <2>2. ex' \in [DOMAIN ex -> ExecutionRow]
    BY <2>1, RowTyped DEF TypeInv, ExTyped
  <2>3. TypeInv'
    BY <2>1, <2>2, TableKept DEF TypeInv, DevTyped, ReqTyped
  <2> QED BY <2>1, <2>3 DEF Settles
<1>2. CASE old # {}
  <2>1. /\ ex' = Append(t, x) /\ ev' = {e \in ev : e[1] \notin old}
        /\ req' = [req EXCEPT ![q] = [pc |-> "pruned", id |-> Len(ex) + 1]]
        /\ UNCHANGED <<stop, dev, msg>> /\ Len(ex) < MaxExecs
    BY <1>2 DEF StartInsert
  <2>2. x \in ExecutionRow
    BY NewRow DEF Kinds
  <2>3. t \in [DOMAIN ex -> ExecutionRow]
    BY RowTyped DEF TypeInv, ExecutionRow
  <2>4. x.status = "queued" /\ x.gone = FALSE /\ x.taker = NoDevice
    BY DEF Execution
  <2>5. \A i \in DOMAIN ex : /\ t[i].taker = ex[i].taker /\ t[i].status = ex[i].status
                             /\ t[i].lost = ex[i].lost /\ (ex[i].gone => t[i].gone)
    BY RowTyped DEF TypeInv, ExecutionRow
  <2> HIDE DEF t, x, old
  <2>6. req' \in [Requests -> {Idle, [pc |-> "alone"]}
                              \cup [pc : {"pruned"}, id : DOMAIN ex \cup {Len(ex) + 1}]]
    BY <2>1 DEF TypeInv, ReqTyped
  <2>7. ev' \subseteq ev
    BY <2>1
  <2>8. /\ TypeInv' /\ DOMAIN ex' = DOMAIN ex \cup {Len(ex) + 1}
        /\ Len(ex) + 1 \in Ids \ DOMAIN ex
        /\ ex'[Len(ex) + 1] = x /\ \A i \in DOMAIN ex : ex'[i] = t[i]
    BY <2>1, <2>2, <2>3, <2>6, <2>7, TableGrown
  <2> QED BY <2>4, <2>5, <2>8 DEF Adds
<1> QED BY <1>1, <1>2

\* A row is appended to the table as it is.
LEMMA AppendAdds ==
  ASSUME TypeInv, Bounded, Len(ex) < MaxExecs,
         NEW kind \in Kinds, NEW cs \in SUBSET Cases,
         ex' = Append(ex, Execution(kind, Pending(cs))), UNCHANGED <<ev, dev, msg>>,
         req' \in [Requests -> {Idle, [pc |-> "alone"]} \cup [pc : {"pruned"}, id : DOMAIN ex]]
  PROVE  TypeInv' /\ Adds
<1> DEFINE x == Execution(kind, Pending(cs))
<1>1. x \in ExecutionRow
  BY NewRow
<1>2. x.status = "queued" /\ x.gone = FALSE /\ x.taker = NoDevice
  BY DEF Execution
<1>3. ex \in [DOMAIN ex -> ExecutionRow]
  BY RowTyped DEF TypeInv, ExTyped
<1> HIDE DEF x
<1>4. ex' = Append(ex, x)
  BY DEF x
<1>5. req' \in [Requests -> {Idle, [pc |-> "alone"]}
                            \cup [pc : {"pruned"}, id : DOMAIN ex \cup {Len(ex) + 1}]]
  OBVIOUS
<1>6. /\ TypeInv' /\ DOMAIN ex' = DOMAIN ex \cup {Len(ex) + 1}
      /\ Len(ex) + 1 \in Ids \ DOMAIN ex
      /\ ex'[Len(ex) + 1] = x /\ \A i \in DOMAIN ex : ex'[i] = ex[i]
  BY <1>1, <1>3, <1>4, <1>5, TableGrown
<1> QED BY <1>2, <1>6 DEF Adds

LEMMA CreationTyped ==
  ASSUME TypeInv, Bounded, Create
  PROVE  TypeInv' /\ (Adds \/ Settles)
<1>1. ASSUME NEW q \in Requests, StartCommit(q) PROVE TypeInv' /\ (Adds \/ Settles)
  <2>1. req' = [req EXCEPT ![q] = Idle] /\ UNCHANGED <<ev, files, stop, dev, msg>>
    BY <1>1 DEF StartCommit
  <2>2. req' \in [Requests -> {Idle, [pc |-> "alone"]} \cup [pc : {"pruned"}, id : DOMAIN ex]]
    BY <2>1 DEF TypeInv, ReqTyped
  <2>3. CASE req[q].pc = "alone"
    <3>1. ex' = Append(ex, Execution("suite", Pending(Cases))) /\ Len(ex) < MaxExecs
      BY <1>1, <2>3 DEF StartCommit
    <3> QED BY <2>1, <2>2, <3>1, AppendAdds DEF Kinds
  <2>4. CASE req[q].pc = "pruned"
    <3> DEFINE n == req[q].id
    <3>1. n \in DOMAIN ex
      BY <2>4 DEF TypeInv, ReqTyped, Idle
    <3>2. ex' = IF ex[n].gone THEN ex ELSE [ex EXCEPT ![n].result = Pending(Cases)]
      BY <1>1, <2>4 DEF StartCommit
    <3>3. Pending(Cases) \in Partial(ResultStatus)
      BY PartialMaps DEF Pending, ResultStatus
    <3> HIDE DEF n
    <3>4. ex' \in [DOMAIN ex -> ExecutionRow] /\ Settles
      BY <3>1, <3>2, <3>3, RowTyped DEF TypeInv, ExTyped, ExecutionRow, Settles
    <3> QED BY <2>1, <2>2, <3>4, TableKept DEF TypeInv, DevTyped
  <2> QED BY <1>1, <2>3, <2>4 DEF StartCommit
<1>2. ASSUME NEW c \in Cases, CreateOne(c) PROVE TypeInv' /\ Adds
  BY <1>2, AppendAdds DEF CreateOne, Kinds, TypeInv, ReqTyped
<1>3. ASSUME CreateProject PROVE TypeInv' /\ Adds
  BY <1>3, AppendAdds DEF CreateProject, Kinds, TypeInv, ReqTyped
<1> QED BY <1>1, <1>2, <1>3, StartInsertAdds DEF Create

\* A device changes and nothing else does, but for the posts.
LEMMA DeviceOnly ==
  ASSUME TypeInv, NEW d \in Devices,
         NEW x \in {Idle, [pc |-> "off"]} \cup Claiming \cup Running,
         dev' = [dev EXCEPT ![d] = x], UNCHANGED <<ex, ev, req>>, msg' \subseteq Posts
  PROVE  TypeInv' /\ Settles
<1>1. ex' \in [DOMAIN ex -> ExecutionRow]
  BY RowTyped DEF TypeInv, ExTyped
<1>2. dev' \in [Devices -> {Idle, [pc |-> "off"]} \cup Claiming \cup Running]
  BY DEF TypeInv, DevTyped
<1> QED BY <1>1, <1>2, TableKept DEF TypeInv, ReqTyped, Settles

\* One row changes within its columns and a device goes idle or to x.
LEMMA RowAndDevice ==
  ASSUME TypeInv, NEW d \in Devices, NEW i \in DOMAIN ex, NEW r \in ExecutionRow,
         NEW x \in {Idle, [pc |-> "off"]} \cup Claiming \cup Running,
         ex' = [ex EXCEPT ![i] = r], dev' = [dev EXCEPT ![d] = x],
         UNCHANGED <<ev, req>>, msg' \subseteq Posts
  PROVE  /\ TypeInv' /\ DOMAIN ex' = DOMAIN ex /\ ex'[i] = r
         /\ \A j \in DOMAIN ex \ {i} : ex'[j] = ex[j]
<1>1. ex' \in [DOMAIN ex -> ExecutionRow]
  BY RowTyped DEF TypeInv, ExTyped
<1>2. dev' \in [Devices -> {Idle, [pc |-> "off"]} \cup Claiming \cup Running]
  BY DEF TypeInv, DevTyped
<1> QED BY <1>1, <1>2, TableKept DEF TypeInv, ReqTyped, Settles

\* What a device that claims or runs refers to.
LEMMA DeviceAt ==
  ASSUME TypeInv, NEW d \in Devices
  PROVE  /\ dev[d].pc \in {"selected", "claimed", "refusing"} => dev[d] \in Claiming
         /\ dev[d].pc \in {"running", "crashed"} => dev[d] \in Running
         /\ dev[d].pc \in {"selected", "claimed", "refusing", "running", "crashed"}
            => dev[d].ex \in DOMAIN ex
<1>1. dev[d] \in {Idle, [pc |-> "off"]} \cup Claiming \cup Running
  BY DEF TypeInv, DevTyped
<1> QED BY <1>1 DEF Idle, Claiming, Running

\* The oldest of the queued executions is one of them.
LEMMA OldestQueued ==
  ASSUME TypeInv, Queued # {}
  PROVE  Oldest(Queued) \in Queued
<1>1. Queued \subseteq Nat
  BY DEF TypeInv, ExTyped, Queued, Here
<1>2. PICK n \in Queued : \A m \in Queued : ~(<<m, n>> \in OpToRel(<, Nat))
  BY <1>1, WFMin, NatLessThanWellFounded, Zenon
<1>3. \A m \in Queued : ~(m < n)
  BY <1>1, <1>2, Zenon DEF OpToRel
<1>4. \A m \in Queued : n <= m
  BY <1>1, <1>3
<1> QED BY <1>4 DEF Oldest

\* A device claims: only the flip gives it a row.
LEMMA ClaimTyped ==
  ASSUME TypeInv, Bounded, NEW d \in Devices, Claim(d)
  PROVE  TypeInv' /\ (Settles \/ \E i \in DOMAIN ex : Gives(i, d))
<1>1. CASE ClaimSelect(d)
  <2> DEFINE x == [pc |-> "selected", ex |-> Oldest(Queued)]
  <2>1. Oldest(Queued) \in DOMAIN ex
    BY <1>1, OldestQueued DEF ClaimSelect, Queued, Here
  <2>2. x \in Claiming
    BY <2>1 DEF Claiming
  <2>3. dev' = [dev EXCEPT ![d] = x] /\ UNCHANGED <<ex, ev, req, msg>>
    BY <1>1 DEF ClaimSelect
  <2> HIDE DEF x
  <2> QED BY <2>2, <2>3, DeviceOnly DEF TypeInv
<1>2. CASE ClaimFlip(d)
  <2> DEFINE i == dev[d].ex
             x == [pc |-> "claimed", ex |-> i]
             r == [ex[i] EXCEPT !.status = "running", !.taker = d, !.early = (Rows(i) = {})]
  <2>1. dev[d] \in Claiming /\ i \in DOMAIN ex
    BY <1>2, DeviceAt DEF ClaimFlip
  <2>2. CASE i \in Queued
    <3>1. x \in Claiming /\ [dev[d] EXCEPT !.pc = "claimed"] = x
      BY <2>1 DEF Claiming
    <3>2. r \in ExecutionRow /\ r.status = "running" /\ r.taker = d /\ r.gone = ex[i].gone
      BY <2>1, RowTyped DEF TypeInv, ExecutionRow, Live
    <3>3. ex' = [ex EXCEPT ![i] = r] /\ dev' = [dev EXCEPT ![d] = x] /\ UNCHANGED <<ev, req, msg>>
      BY <1>2, <2>1, <2>2, <3>1 DEF ClaimFlip, TypeInv, DevTyped
    <3> HIDE DEF i, x, r
    <3> QED BY <2>1, <2>2, <3>1, <3>2, <3>3, RowAndDevice DEF Gives, TypeInv
  <2>3. CASE i \notin Queued
    BY <1>2, <2>3, DeviceOnly DEF ClaimFlip, TypeInv
  <2> QED BY <2>2, <2>3
<1>3. CASE ClaimReply(d)
  <2> DEFINE i == dev[d].ex
             specs == IF ex[i].gone THEN {} ELSE Rows(i) \ (IF RunScoped(i) THEN NoSpec ELSE {})
             none == [c \in {} |-> "fail"]
             x == [pc |-> "running", ex |-> i, specs |-> specs, verdict |-> none, quiet |-> FALSE]
  <2>1. i \in DOMAIN ex
    BY <1>3, DeviceAt DEF ClaimReply
  <2>2. specs \subseteq Cases
    BY <2>1, RowTyped DEF TypeInv
  <2>3. none \in Partial(Verdicts)
    BY PartialMaps
  <2>4. dev' = [dev EXCEPT ![d] = IF ex[i].gone THEN Idle ELSE x] /\ UNCHANGED <<ex, ev, req, msg>>
    BY <1>3 DEF ClaimReply
  <2>5. x \in Running
    BY <2>1, <2>2, <2>3 DEF Running
  <2> HIDE DEF i, x
  <2> QED BY <2>4, <2>5, DeviceOnly DEF TypeInv
<1>4. CASE ClaimRefused(d)
  <2> DEFINE i == dev[d].ex
             x == [pc |-> "refusing", ex |-> i]
             r == [ex[i] EXCEPT !.result = [c \in Rows(i) |-> "fail"],
                                !.passed = 0, !.failed = Cardinality(Rows(i))]
  <2>1. dev[d] \in Claiming /\ i \in DOMAIN ex
    BY <1>4, DeviceAt DEF ClaimRefused
  <2>2. x \in Claiming /\ [dev[d] EXCEPT !.pc = "refusing"] = x
    BY <2>1 DEF Claiming
  <2>3. Rows(i) \subseteq Cases
    BY <2>1, RowTyped DEF TypeInv
  <2>4. [c \in Rows(i) |-> "fail"] \in Partial(ResultStatus)
    BY <2>3, PartialMaps DEF ResultStatus, Verdicts
  <2>5. 0 \in Counts /\ Cardinality(Rows(i)) \in Counts
    BY <2>3, SetBound DEF Bounded
  <2>6. /\ r \in ExecutionRow /\ r.status = ex[i].status /\ r.taker = ex[i].taker
        /\ r.gone = ex[i].gone /\ r.lost = ex[i].lost
    BY <2>1, <2>4, <2>5, RowTyped DEF TypeInv, ExecutionRow
  <2>7. ex' = [ex EXCEPT ![i] = r] /\ dev' = [dev EXCEPT ![d] = x] /\ UNCHANGED <<ev, req, msg>>
    BY <1>4, <2>1, <2>2 DEF ClaimRefused, TypeInv, DevTyped
  <2> HIDE DEF i, x, r
  <2> QED BY <2>1, <2>2, <2>6, <2>7, RowAndDevice DEF Settles, TypeInv
<1>5. CASE RefuseFinalize(d)
  <2> DEFINE i == dev[d].ex
             r == IF ex[i].gone THEN ex[i] ELSE [ex[i] EXCEPT !.status = "done"]
  <2>1. i \in DOMAIN ex
    BY <1>5, DeviceAt DEF RefuseFinalize
  <2>2. /\ r \in ExecutionRow /\ r.status \in {ex[i].status, "done"} /\ r.taker = ex[i].taker
        /\ r.gone = ex[i].gone /\ r.lost = ex[i].lost
    BY <2>1, RowTyped DEF TypeInv, ExecutionRow
  <2>3. /\ ex' = IF ex[i].gone THEN ex ELSE [ex EXCEPT ![i].status = "done"]
        /\ dev' = [dev EXCEPT ![d] = Idle] /\ UNCHANGED <<ev, req, msg>>
    BY <1>5 DEF RefuseFinalize
  <2> HIDE DEF i
  <2>4. ex' = [ex EXCEPT ![i] = r]
    <3>1. ex = [ex EXCEPT ![i] = ex[i]]
      BY <2>1 DEF TypeInv, ExTyped
    <3> QED BY <2>3, <3>1
  <2> HIDE DEF r
  <2> QED BY <2>1, <2>2, <2>3, <2>4, RowAndDevice DEF Settles, TypeInv
<1> QED BY <1>1, <1>2, <1>3, <1>4, <1>5 DEF Claim

\* A completion keeps the row but for its counts and its end.
LEMMA CompletedRow ==
  ASSUME TypeInv, NEW i \in DOMAIN ex, NEW p \in Counts, NEW f \in Counts
  PROVE  LET r == [ex[i] EXCEPT !.passed = p, !.failed = f, !.status = "done"] IN
         /\ Completed(i, p, f) = [ex EXCEPT ![i] = r] /\ r \in ExecutionRow
         /\ r.taker = ex[i].taker /\ r.gone = ex[i].gone /\ r.lost = ex[i].lost
         /\ r.status = "done"
<1>1. ex[i] \in ExecutionRow
  BY RowTyped DEF TypeInv
<1> QED BY <1>1 DEF Completed, ExecutionRow, TypeInv, ExTyped

LEMMA WorkTyped ==
  ASSUME TypeInv, Bounded, NEW d \in Devices, Work(d)
  PROVE  TypeInv' /\ Settles
<1>1. ASSUME NEW c \in Cases, NEW v \in Verdicts, CaseEnds(d, c, v) PROVE TypeInv' /\ Settles
  <2> DEFINE f == [y \in DOMAIN dev[d].verdict \cup {c} |-> IF y = c THEN v ELSE dev[d].verdict[y]]
             x == [dev[d] EXCEPT !.verdict = f]
             m == Message("result", dev[d].ex, c, v)
  <2>1. dev[d] \in Running /\ dev[d].ex \in DOMAIN ex
    BY <1>1, DeviceAt DEF CaseEnds
  <2>2. DOMAIN dev[d].verdict \subseteq Cases /\ dev[d].verdict \in [DOMAIN dev[d].verdict -> Verdicts]
    BY <2>1, PartialMaps DEF Running
  <2>3. f \in Partial(Verdicts)
    BY <2>2, PartialMaps
  <2> HIDE DEF f
  <2>4. x \in Running
    BY <2>1, <2>3 DEF Running
  <2>5. m \in Posts
    BY <2>1 DEF Message, Posts
  <2>6. dev' = [dev EXCEPT ![d] = x] /\ msg' = msg \cup {m} /\ UNCHANGED <<ex, ev, req>>
    BY <1>1 DEF CaseEnds, f, TypeInv, DevTyped
  <2> HIDE DEF x, m
  <2> QED BY <2>4, <2>5, <2>6, DeviceOnly DEF TypeInv
<1>2. CASE CannotRun(d)
  <2> DEFINE f == [c \in dev[d].specs |-> "fail"]
             x == [dev[d] EXCEPT !.verdict = f, !.quiet = TRUE]
             ms == {Message("result", dev[d].ex, c, "fail") : c \in dev[d].specs}
  <2>1. dev[d] \in Running /\ dev[d].ex \in DOMAIN ex /\ dev[d].specs \subseteq Cases
    BY <1>2, DeviceAt DEF CannotRun, Running
  <2>2. f \in Partial(Verdicts)
    BY <2>1, PartialMaps DEF Verdicts
  <2> HIDE DEF f
  <2>3. x \in Running
    BY <2>1, <2>2 DEF Running
  <2>4. ms \subseteq Posts
    BY <2>1 DEF Message, Posts, Verdicts
  <2>5. dev' = [dev EXCEPT ![d] = x] /\ msg' = msg \cup ms /\ UNCHANGED <<ex, ev, req>>
    BY <1>2 DEF CannotRun, f, TypeInv, DevTyped
  <2> HIDE DEF x, ms
  <2> QED BY <2>3, <2>4, <2>5, DeviceOnly DEF TypeInv
<1>3. CASE Complete(d)
  <2> DEFINE i == dev[d].ex
             p == Count(dev[d].verdict, "pass")
             f == Count(dev[d].verdict, "fail")
             r == [ex[i] EXCEPT !.passed = p, !.failed = f, !.status = "done"]
  <2>1. dev[d] \in Running /\ i \in DOMAIN ex /\ DOMAIN dev[d].verdict \subseteq Cases
    BY <1>3, DeviceAt, PartialMaps DEF Complete, Running
  <2>2. p \in Counts /\ f \in Counts
    BY <2>1, CountBound DEF Bounded
  <2>3. Uploads(d) \subseteq Posts
    BY <2>1 DEF Uploads, Message, Posts, Verdicts
  <2>4. /\ ex' = Completed(i, p, f) /\ dev' = [dev EXCEPT ![d] = Idle]
        /\ msg' \subseteq msg \cup Uploads(d) /\ UNCHANGED <<ev, req>>
    BY <1>3 DEF Complete
  <2> HIDE DEF i, p, f
  <2>5. /\ Completed(i, p, f) = [ex EXCEPT ![i] = r] /\ r \in ExecutionRow
        /\ r.taker = ex[i].taker /\ r.gone = ex[i].gone /\ r.lost = ex[i].lost
        /\ r.status = "done"
    BY <2>1, <2>2, CompletedRow
  <2> HIDE DEF r
  <2>6. msg' \subseteq Posts
    BY <2>3, <2>4 DEF TypeInv
  <2> QED BY <2>1, <2>4, <2>5, <2>6, RowAndDevice DEF Settles
<1>4. CASE CompleteGone(d)
  <2>1. dev[d] \in Running
    BY <1>4, DeviceAt DEF CompleteGone
  <2>2. Caught(d) \in {Idle} \cup Running
    BY <2>1 DEF Caught, Running
  <2> QED BY <1>4, <2>2, DeviceOnly DEF CompleteGone, TypeInv
<1>5. CASE CompleteAgain(d)
  <2> DEFINE i == dev[d].ex
             f == Cardinality(dev[d].specs)
             r == [ex[i] EXCEPT !.passed = 0, !.failed = f, !.status = "done"]
  <2>1. i \in DOMAIN ex /\ dev[d].specs \subseteq Cases
    BY <1>5, DeviceAt DEF CompleteAgain, Running
  <2>2. 0 \in Counts /\ f \in Counts
    BY <2>1, SetBound DEF Bounded
  <2>3. /\ ex' = IF ex[i].gone THEN ex ELSE Completed(i, 0, f)
        /\ dev' = [dev EXCEPT ![d] = Idle] /\ UNCHANGED <<ev, req, msg>>
    BY <1>5 DEF CompleteAgain
  <2> HIDE DEF i, f
  <2>4. /\ Completed(i, 0, f) = [ex EXCEPT ![i] = r] /\ r \in ExecutionRow
        /\ r.taker = ex[i].taker /\ r.gone = ex[i].gone /\ r.lost = ex[i].lost
        /\ r.status = "done"
    BY <2>1, <2>2, CompletedRow
  <2> HIDE DEF r
  <2>5. CASE ex[i].gone
    BY <2>3, <2>5, DeviceOnly DEF TypeInv
  <2>6. CASE ~ex[i].gone
    BY <2>1, <2>3, <2>4, <2>6, RowAndDevice DEF Settles, TypeInv
  <2> QED BY <2>5, <2>6
<1> QED BY <1>1, <1>2, <1>3, <1>4, <1>5 DEF Work

LEMMA ArriveTyped ==
  ASSUME TypeInv, NEW m \in msg, Arrive(m)
  PROVE  TypeInv' /\ Settles
<1> DEFINE i == m.ex
<1>1. m \in Posts /\ i \in DOMAIN ex /\ m.case \in Cases /\ m.verdict \in Verdicts
  BY DEF TypeInv, Posts
<1>2. CASE ResultArrives(m)
  <2> DEFINE f == [ex[i].result EXCEPT ![m.case] = m.verdict]
             r == [ex[i] EXCEPT !.result = f]
  <2>1. /\ ex' = IF ex[i].gone \/ m.case \notin Rows(i) THEN ex ELSE [ex EXCEPT ![i] = r]
        /\ msg' = msg \ {m} /\ UNCHANGED <<ev, req, dev>>
    BY <1>1, <1>2, RowTyped DEF ResultArrives, TypeInv, ExTyped, ExecutionRow
  <2>2. ASSUME m.case \in Rows(i) PROVE f \in Partial(ResultStatus)
    BY <1>1, <2>2, RowTyped, PartialMaps DEF TypeInv, ResultStatus
  <2> HIDE DEF f
  <2>3. ASSUME m.case \in Rows(i)
        PROVE  /\ r \in ExecutionRow /\ r.status = ex[i].status /\ r.taker = ex[i].taker
               /\ r.gone = ex[i].gone /\ r.lost = ex[i].lost
    BY <1>1, <2>2, <2>3, RowTyped DEF TypeInv, ExecutionRow
  <2> HIDE DEF i, r
  <2>4. ex' \in [DOMAIN ex -> ExecutionRow] /\ Settles
    BY <1>1, <2>1, <2>3, RowTyped DEF TypeInv, ExTyped, Settles
  <2> QED BY <2>1, <2>4, TableKept DEF TypeInv, DevTyped, ReqTyped
<1>3. CASE EvidenceArrives(m)
  <2>1. ex' \in [DOMAIN ex -> ExecutionRow] /\ Settles
    BY <1>3, RowTyped DEF EvidenceArrives, TypeInv, ExTyped, Settles
  <2>2. ev' \subseteq (DOMAIN ex) \X Cases
    BY <1>1, <1>3 DEF EvidenceArrives, TypeInv
  <2>3. msg' \subseteq Posts
    BY <1>3 DEF EvidenceArrives, TypeInv
  <2>4. UNCHANGED <<req, dev>>
    BY <1>3 DEF EvidenceArrives
  <2> QED BY <2>1, <2>2, <2>3, <2>4, TableKept DEF TypeInv, DevTyped, ReqTyped
<1> QED BY <1>2, <1>3 DEF Arrive

\* A step that rewrites every row to one with the same offer.
LEMMA RowsSettle ==
  ASSUME TypeInv, NEW t \in [DOMAIN ex -> ExecutionRow], ex' = t,
         \A i \in DOMAIN ex :
           /\ t[i].taker = ex[i].taker /\ t[i].gone = ex[i].gone
           /\ ex[i].lost => t[i].lost
           /\ t[i].status = ex[i].status \/ t[i].status \in {"done", "failed"},
         dev' \in [Devices -> {Idle, [pc |-> "off"]} \cup Claiming \cup Running],
         req' \in [Requests -> {Idle, [pc |-> "alone"]} \cup [pc : {"pruned"}, id : DOMAIN ex]],
         msg' \subseteq Posts, UNCHANGED ev
  PROVE  TypeInv' /\ Settles
<1>1. TypeInv' /\ DOMAIN ex' = DOMAIN ex
  BY TableKept DEF TypeInv
<1> QED BY <1>1 DEF Settles

LEMMA StopCommitTyped ==
  ASSUME TypeInv, StopCommit
  PROVE  TypeInv' /\ Settles
<1> DEFINE g(i) == [c \in Rows(i) |-> IF c \in stop.pending[i] THEN "skipped" ELSE ex[i].result[c]]
           x(i) == IF i \in DOMAIN stop.pending /\ ~ex[i].gone
                   THEN [ex[i] EXCEPT !.status = "failed", !.result = g(i)] ELSE ex[i]
           t == [i \in DOMAIN ex |-> x(i)]
<1>1. ASSUME NEW i \in DOMAIN ex PROVE g(i) \in Partial(ResultStatus)
  BY RowTyped, PartialMaps DEF TypeInv, ResultStatus
<1>2. ex' = t /\ UNCHANGED <<ev, req, dev, msg>>
  BY DEF StopCommit, Rows
<1> HIDE DEF g
<1>3. ASSUME NEW i \in DOMAIN ex
      PROVE  /\ x(i) \in ExecutionRow /\ x(i).taker = ex[i].taker /\ x(i).gone = ex[i].gone
             /\ x(i).lost = ex[i].lost /\ x(i).status \in {ex[i].status, "failed"}
  BY <1>1, RowTyped DEF TypeInv, ExecutionRow
<1> HIDE DEF x
<1> QED BY <1>2, <1>3, RowsSettle DEF TypeInv, DevTyped, ReqTyped

LEMMA FaultTyped ==
  ASSUME TypeInv, Bounded, Fault
  PROVE  TypeInv' /\ Settles
<1>1. ASSUME NEW d \in Devices, ReplyLost(d) PROVE TypeInv' /\ Settles
  <2> DEFINE i == dev[d].ex
             r == [ex[i] EXCEPT !.lost = TRUE]
  <2>1. i \in DOMAIN ex
    BY <1>1, DeviceAt DEF ReplyLost
  <2>2. /\ r \in ExecutionRow /\ r.taker = ex[i].taker /\ r.gone = ex[i].gone /\ r.lost
        /\ r.status = ex[i].status
    BY <2>1, RowTyped DEF TypeInv, ExecutionRow
  <2>3. ex' = [ex EXCEPT ![i] = r] /\ dev' = [dev EXCEPT ![d] = Idle] /\ UNCHANGED <<ev, req, msg>>
    BY <1>1 DEF ReplyLost
  <2> HIDE DEF i, r
  <2> QED BY <2>1, <2>2, <2>3, RowAndDevice DEF Settles, TypeInv
<1>2. ASSUME NEW d \in Devices, CompleteLost(d) PROVE TypeInv' /\ Settles
  <2> DEFINE i == dev[d].ex
             p == Count(dev[d].verdict, "pass")
             f == Count(dev[d].verdict, "fail")
             r == [ex[i] EXCEPT !.passed = p, !.failed = f, !.status = "done"]
             y == [r EXCEPT !.lost = TRUE]
             z == [ex[i] EXCEPT !.lost = TRUE]
  <2>1. dev[d] \in Running /\ i \in DOMAIN ex /\ DOMAIN dev[d].verdict \subseteq Cases
    BY <1>2, DeviceAt, PartialMaps DEF CompleteLost, Running
  <2>2. p \in Counts /\ f \in Counts
    BY <2>1, CountBound DEF Bounded
  <2>3. Caught(d) \in {Idle} \cup Running
    BY <2>1 DEF Caught, Running
  <2>4. /\ ex' = [Completed(i, p, f) EXCEPT ![i].lost = TRUE] \/ ex' = [ex EXCEPT ![i].lost = TRUE]
        /\ dev' = [dev EXCEPT ![d] = Caught(d)] /\ UNCHANGED <<ev, req, msg>>
    BY <1>2 DEF CompleteLost
  <2> HIDE DEF i, p, f
  <2>5. /\ Completed(i, p, f) = [ex EXCEPT ![i] = r] /\ r \in ExecutionRow
        /\ r.taker = ex[i].taker /\ r.gone = ex[i].gone /\ r.lost = ex[i].lost
        /\ r.status = "done"
    BY <2>1, <2>2, CompletedRow
  <2> HIDE DEF r
  <2>6. /\ y \in ExecutionRow /\ y.taker = ex[i].taker /\ y.gone = ex[i].gone /\ y.lost
        /\ y.status = "done"
    BY <2>5 DEF ExecutionRow
  <2>7. /\ z \in ExecutionRow /\ z.taker = ex[i].taker /\ z.gone = ex[i].gone /\ z.lost
        /\ z.status = ex[i].status
    BY <2>1, RowTyped DEF TypeInv, ExecutionRow
  <2>8. ex' = [ex EXCEPT ![i] = y] \/ ex' = [ex EXCEPT ![i] = z]
    BY <2>1, <2>4, <2>5 DEF TypeInv, ExTyped
  <2> HIDE DEF y, z
  <2>9. CASE ex' = [ex EXCEPT ![i] = y]
    BY <2>1, <2>3, <2>4, <2>6, <2>9, RowAndDevice DEF Settles, TypeInv
  <2>10. CASE ex' = [ex EXCEPT ![i] = z]
    BY <2>1, <2>3, <2>4, <2>7, <2>10, RowAndDevice DEF Settles, TypeInv
  <2> QED BY <2>8, <2>9, <2>10
<1>3. ASSUME NEW d \in Devices, CompleteAgainLost(d) PROVE TypeInv' /\ Settles
  BY <1>3, DeviceOnly DEF CompleteAgainLost, TypeInv
<1>4. ASSUME NEW d \in Devices, DeviceLost(d) PROVE TypeInv' /\ Settles
  <2> DEFINE t == [i \in DOMAIN ex |-> [ex[i] EXCEPT !.lost = @ \/ ex[i].taker = d]]
  <2>1. ASSUME NEW i \in DOMAIN ex
        PROVE  /\ t[i] \in ExecutionRow /\ t[i].taker = ex[i].taker /\ t[i].gone = ex[i].gone
               /\ (ex[i].lost => t[i].lost) /\ t[i].status = ex[i].status
    BY RowTyped DEF TypeInv, ExecutionRow
  <2>2. /\ ex' = t /\ dev' = [dev EXCEPT ![d] = [pc |-> "off"]] /\ UNCHANGED <<ev, req>>
        /\ msg' \subseteq msg /\ t \in [DOMAIN ex -> ExecutionRow]
    BY <1>4, <2>1 DEF DeviceLost
  <2> HIDE DEF t
  <2> QED BY <2>1, <2>2, RowsSettle DEF TypeInv, DevTyped, ReqTyped
<1>5. ASSUME NEW m \in msg, Lose(m) PROVE TypeInv' /\ Settles
  <2> DEFINE i == m.ex
             r == [ex[i] EXCEPT !.lost = @ \/ m.kind = "result"]
             t == [ex EXCEPT ![i] = r]
  <2>1. i \in DOMAIN ex
    BY DEF TypeInv, Posts
  <2>2. /\ r \in ExecutionRow /\ r.taker = ex[i].taker /\ r.gone = ex[i].gone
        /\ (ex[i].lost => r.lost) /\ r.status = ex[i].status
    BY <2>1, RowTyped DEF TypeInv, ExecutionRow
  <2>3. ex' = t /\ UNCHANGED <<ev, req, dev>> /\ msg' \subseteq msg
    BY <1>5 DEF Lose
  <2> HIDE DEF r, i
  <2>4. t \in [DOMAIN ex -> ExecutionRow]
    BY <2>1, <2>2, RowTyped DEF TypeInv, ExTyped
  <2> QED BY <2>1, <2>2, <2>3, <2>4, RowsSettle DEF TypeInv, DevTyped, ReqTyped, ExTyped
<1>6. ASSUME StopSelect PROVE TypeInv' /\ Settles
  <2> DEFINE t == [i \in DOMAIN ex |-> [ex[i] EXCEPT !.stopped = @ \/ i \in LiveOfRun]]
  <2>1. ASSUME NEW i \in DOMAIN ex
        PROVE  /\ t[i] \in ExecutionRow /\ t[i].taker = ex[i].taker /\ t[i].gone = ex[i].gone
               /\ t[i].lost = ex[i].lost /\ t[i].status = ex[i].status
    BY RowTyped DEF TypeInv, ExecutionRow
  <2>2. ex' = t /\ UNCHANGED <<ev, req, dev, msg>> /\ t \in [DOMAIN ex -> ExecutionRow]
    BY <1>6, <2>1 DEF StopSelect
  <2> HIDE DEF t
  <2> QED BY <2>1, <2>2, RowsSettle DEF TypeInv, DevTyped, ReqTyped
<1>7. ASSUME Restart PROVE TypeInv' /\ Settles
  <2> DEFINE dying == {d \in Devices : dev[d].pc \in {"selected", "claimed", "refusing"}}
             t == [i \in DOMAIN ex |->
                    [ex[i] EXCEPT !.lost = @ \/ \E d \in dying : dev[d].ex = i /\ dev[d].pc # "selected"]]
  <2>1. ASSUME NEW i \in DOMAIN ex
        PROVE  /\ t[i] \in ExecutionRow /\ t[i].taker = ex[i].taker /\ t[i].gone = ex[i].gone
               /\ (ex[i].lost => t[i].lost) /\ t[i].status = ex[i].status
    BY RowTyped DEF TypeInv, ExecutionRow
  <2>2. /\ ex' = t /\ UNCHANGED <<ev, msg>> /\ t \in [DOMAIN ex -> ExecutionRow]
        /\ req' = [q \in Requests |-> Idle]
        /\ dev' = [d \in Devices |-> IF d \in dying THEN Idle ELSE dev[d]]
    BY <1>7, <2>1 DEF Restart
  <2> HIDE DEF t, dying
  <2>3. dev' \in [Devices -> {Idle, [pc |-> "off"]} \cup Claiming \cup Running]
    BY <2>2 DEF TypeInv, DevTyped
  <2> QED BY <2>1, <2>2, <2>3, RowsSettle DEF TypeInv, ReqTyped
<1> QED BY <1>1, <1>2, <1>3, <1>4, <1>5, <1>6, <1>7 DEF Fault

\* Every step adds a row, gives one to a device, settles rows or only counts a
\* fault.
LEMMA StepTyped ==
  ASSUME TypeInv, Bounded, [Next]_vars
  PROVE  TypeInv' /\ (Adds \/ Settles \/ \E i \in DOMAIN ex, d \in Devices : Gives(i, d))
<1>1. CASE Step
  BY <1>1, CreationTyped, StopCommitTyped, ClaimTyped, WorkTyped, ArriveTyped DEF Step
<1>2. CASE Fault
  BY <1>2, FaultTyped
<1>3. CASE UNCHANGED vars
  <2>1. UNCHANGED <<ex, dev, req, msg, ev>>
    BY <1>3 DEF vars
  <2>2. ex' \in [DOMAIN ex -> ExecutionRow] /\ Settles
    BY <2>1, RowTyped DEF TypeInv, ExTyped, Settles
  <2> QED BY <2>1, <2>2, TableKept DEF TypeInv, DevTyped, ReqTyped
<1> QED BY <1>1, <1>2, <1>3 DEF Next

LEMMA InitTyped == ASSUME Bounded, Init PROVE TypeInv
<1>1. ex = <<>> /\ dev = [d \in Devices |-> Idle] /\ req = [q \in Requests |-> Idle]
      /\ msg = {} /\ ev = {}
  BY DEF Init
<1> QED BY <1>1 DEF TypeInv, ExTyped, DevTyped, ReqTyped, Bounded

LEMMA AlwaysTyped == ASSUME Bounded PROVE Spec => []TypeInv
<1>1. Init => TypeInv
  BY InitTyped
<1>2. TypeInv /\ [Next]_vars => TypeInv'
  BY StepTyped
<1> QED BY <1>1, <1>2, PTL DEF Spec

\* Every reachable state is well typed (the rows of executions and results, what
\* devices hold of them, and the posts on their way).
THEOREM Typing == ASSUME Bounded PROVE Spec => []TypeOK
<1>1. TypeInv => TypeOK
  <2> SUFFICES ASSUME TypeInv PROVE TypeOK
    OBVIOUS
  <2>1. ASSUME NEW i \in DOMAIN ex
        PROVE  /\ ex[i].kind \in Kinds /\ ex[i].status \in Live \cup {"done", "failed"}
               /\ ex[i].taker \in Devices \cup {NoDevice}
               /\ Rows(i) \subseteq Cases /\ \A c \in Rows(i) : ex[i].result[c] \in ResultStatus
               /\ {ex[i].passed, ex[i].failed} \subseteq 0 .. Cardinality(Cases)
    <3>1. ex[i] \in ExecutionRow /\ Rows(i) \subseteq Cases /\ ex[i].result \in [Rows(i) -> ResultStatus]
      BY RowTyped DEF TypeInv
    <3> QED BY <3>1 DEF ExecutionRow, Counts
  <2>2. \A m \in msg : m.ex \in DOMAIN ex /\ m.case \in Cases /\ m.verdict \in Verdicts
    BY DEF TypeInv, Posts
  <2> QED BY <2>1, <2>2 DEF TypeOK, TypeInv
<1> QED BY <1>1, AlwaysTyped, PTL

-----------------------------------------------------------------------------
(* The queue implements OneShotOffer.                                    *)

LEMMA AddsOffer ==
  ASSUME TypeInv, Bounded, Adds
  PROVE  [Offers!Next]_(Offers!vars)
<1> DEFINE n == Len(ex) + 1
           J == [i \in Ids |-> JobOf(i)]
           T == [i \in Ids |-> IF i \in DOMAIN ex THEN ex[i].taker ELSE NoDevice]
           old == {i \in DOMAIN ex : JobOf(i) \in {"open", "taken"} /\ ex'[i].gone}
<1>1. DOMAIN ex \subseteq Ids
  BY DEF TypeInv, ExTyped, Ids, Bounded
<1>2. n \in Ids /\ n \notin DOMAIN ex /\ old \subseteq Ids
  BY <1>1 DEF Adds
<1>3. J[n] = "unused" /\ old \in SUBSET Offers!Closable
  BY <1>1, <1>2 DEF JobOf, Offers!Closable
<1>4. ASSUME NEW i \in Ids
      PROVE  JobOf(i)' = IF i = n THEN "open" ELSE IF i \in old THEN "over" ELSE JobOf(i)
  BY <1>2, RowTyped DEF Adds, JobOf, TypeInv, ExecutionRow, Live
<1>5. T' = T
  BY <1>1, <1>2 DEF Adds
<1>6. J' = [i \in Ids |-> IF i = n THEN "open" ELSE IF i \in old THEN "over" ELSE J[i]]
  BY <1>4
<1>7. Offers!Offer(n, old)
  BY <1>3, <1>5, <1>6 DEF Offers!Offer
<1> QED BY <1>2, <1>7 DEF Offers!Next

LEMMA GivesTake ==
  ASSUME TypeInv, Bounded, NEW i \in DOMAIN ex, NEW d \in Devices, Gives(i, d)
  PROVE  [Offers!Next]_(Offers!vars)
<1> DEFINE J == [j \in Ids |-> JobOf(j)]
           T == [j \in Ids |-> IF j \in DOMAIN ex THEN ex[j].taker ELSE NoDevice]
<1>1. i \in Ids
  BY DEF TypeInv, ExTyped, Ids, Bounded
<1>2. J[i] = "open" /\ JobOf(i)' = "taken"
  BY <1>1 DEF Gives, JobOf, Queued, Here
<1>3. \A j \in Ids \ {i} : JobOf(j)' = JobOf(j)
  BY DEF Gives, JobOf
<1>4. J' = [J EXCEPT ![i] = "taken"]
  BY <1>1, <1>2, <1>3
<1>5. T' = [T EXCEPT ![i] = d]
  BY <1>1 DEF Gives
<1>6. Offers!Take(i, d)
  BY <1>2, <1>4, <1>5 DEF Offers!Take
<1> QED BY <1>1, <1>6 DEF Offers!Next

LEMMA SettlesClose ==
  ASSUME TypeInv, Bounded, Settles
  PROVE  [Offers!Next]_(Offers!vars)
<1> DEFINE J == [i \in Ids |-> JobOf(i)]
           T == [i \in Ids |-> IF i \in DOMAIN ex THEN ex[i].taker ELSE NoDevice]
           old == {i \in Ids : JobOf(i) \in {"open", "taken"} /\ JobOf(i)' = "over"}
<1>1. old \in SUBSET Offers!Closable /\ old \in SUBSET Ids
  BY DEF Offers!Closable
<1>2. ASSUME NEW i \in Ids PROVE JobOf(i)' = IF i \in old THEN "over" ELSE JobOf(i)
  BY RowTyped DEF Settles, JobOf, TypeInv, ExecutionRow, Live
<1>3. J' = [i \in Ids |-> IF i \in old THEN "over" ELSE J[i]]
  BY <1>2
<1>4. T' = T
  BY DEF Settles
<1>5. Offers!Close(old)
  BY <1>1, <1>3, <1>4 DEF Offers!Close
<1> QED BY <1>1, <1>5 DEF Offers!Next

\* A device gets an execution nobody else got, and one that was stopped,
\* superseded or completed is never handed out again (claim_next_job): the queue
\* implements OneShotOffer.
THEOREM Implements == ASSUME Bounded PROVE Spec => ExecutionClaimedOnce
<1>1. Init => Offers!Init
  BY DEF Init, Offers!Init, JobOf
<1>2. TypeInv /\ [Next]_vars => [Offers!Next]_(Offers!vars)
  BY StepTyped, AddsOffer, GivesTake, SettlesClose
<1> QED BY <1>1, <1>2, AlwaysTyped, PTL DEF Spec, ExecutionClaimedOnce, Offers!Spec

-----------------------------------------------------------------------------
(* A running execution is held.                                          *)

Holding == {"claimed", "refusing", "running", "crashed"}

\* A device holds only what it took, which is no longer on offer; one whose
\* completion failed holds what a call was lost about, or what is gone.
HoldsWell ==
  \A d \in Devices : dev[d].pc \in Holding =>
    /\ ex[dev[d].ex].taker = d /\ ex[dev[d].ex].status # "queued"
    /\ dev[d].pc = "crashed" => ex[dev[d].ex].lost \/ ex[dev[d].ex].gone

\* Nobody has to end the execution i any more.
Released(i) == ex'[i].lost \/ ex'[i].gone \/ ex'[i].status # "running"

\* The device d goes on with what it holds, or lets go of what is released.
Keeps(d) ==
  \/ /\ dev[d].pc \in Holding /\ dev'[d].pc \in Holding /\ dev'[d].ex = dev[d].ex
     /\ dev'[d].pc = "crashed" /\ dev[d].pc # "crashed"
        => ex'[dev[d].ex].lost \/ ex'[dev[d].ex].gone
  \/ /\ dev'[d].pc \notin Holding
     /\ dev[d].pc \in Holding => Released(dev[d].ex)

HeldInv == TypeInv /\ HoldsWell /\ RunningIsHeld

LEMMA KeepsHeld ==
  ASSUME HeldInv, TypeInv', Adds \/ Settles, \A d \in Devices : Keeps(d)
  PROVE  HoldsWell' /\ RunningIsHeld'
<1>1. ASSUME NEW i \in DOMAIN ex
      PROVE  /\ i \in DOMAIN ex' /\ ex'[i].taker = ex[i].taker
             /\ ex[i].lost => ex'[i].lost
             /\ ex[i].gone => ex'[i].gone
             /\ ex'[i].status = ex[i].status \/ ex'[i].status \in {"done", "failed"}
  BY DEF Adds, Settles
<1>2. ASSUME NEW i \in DOMAIN ex', ex'[i].status = "running"
      PROVE  i \in DOMAIN ex
  BY <1>2 DEF Adds, Settles
<1>3. ASSUME NEW d \in Devices, dev'[d].pc \in Holding
      PROVE  /\ dev[d].pc \in Holding /\ dev'[d].ex = dev[d].ex /\ dev[d].ex \in DOMAIN ex
             /\ dev'[d].pc = "crashed" /\ dev[d].pc # "crashed"
                => ex'[dev[d].ex].lost \/ ex'[dev[d].ex].gone
  BY <1>3, DeviceAt DEF HeldInv, Keeps, Holding
<1>4. HoldsWell'
  <2> SUFFICES ASSUME NEW d \in Devices, dev'[d].pc \in Holding
               PROVE  /\ ex'[dev'[d].ex].taker = d /\ ex'[dev'[d].ex].status # "queued"
                      /\ dev'[d].pc = "crashed" => ex'[dev'[d].ex].lost \/ ex'[dev'[d].ex].gone
    BY DEF HoldsWell
  <2> QED BY <1>1, <1>3 DEF HeldInv, HoldsWell
<1>5. RunningIsHeld'
  <2> SUFFICES ASSUME NEW i \in DOMAIN ex', ~ex'[i].gone, ex'[i].status = "running", ~ex'[i].lost
               PROVE  \E d \in Devices : Holds(d, i)'
    BY DEF RunningIsHeld, Here
  <2>1. i \in Here /\ ex[i].status = "running" /\ ~ex[i].lost
    BY <1>1, <1>2 DEF Here
  <2>2. PICK d \in Devices : Holds(d, i)
    BY <2>1 DEF HeldInv, RunningIsHeld
  <2>3. dev'[d].pc \in Holding /\ dev'[d].ex = i
    BY <2>2 DEF Holds, Holding, Keeps, Released
  <2> QED BY <2>3 DEF Holds, Holding
<1> QED BY <1>4, <1>5

\* A device that was handed a row holds it.
LEMMA FlipHeld ==
  ASSUME HeldInv, TypeInv', NEW d \in Devices, ClaimFlip(d)
  PROVE  HoldsWell' /\ RunningIsHeld'
<1> DEFINE i == dev[d].ex
<1>1. dev[d] \in Claiming /\ i \in DOMAIN ex /\ dev[d].pc = "selected"
  BY DeviceAt DEF HeldInv, ClaimFlip
<1>2. CASE i \in Queued
  <2>1. /\ ex' = [ex EXCEPT ![i].status = "running", ![i].taker = d, ![i].early = (Rows(i) = {})]
        /\ dev' = [dev EXCEPT ![d].pc = "claimed"]
    BY <1>2 DEF ClaimFlip
  <2>2. dev'[d].pc = "claimed" /\ dev'[d].ex = i
    BY <1>1, <2>1 DEF HeldInv, TypeInv, DevTyped, Claiming
  <2>3. /\ ex'[i].taker = d /\ ex'[i].status = "running" /\ DOMAIN ex' = DOMAIN ex
        /\ \A j \in DOMAIN ex \ {i} : ex'[j] = ex[j]
    BY <1>1, <2>1, RowTyped DEF HeldInv, TypeInv, ExTyped, ExecutionRow
  <2>4. \A e \in Devices \ {d} : dev'[e] = dev[e]
    BY <2>1 DEF HeldInv, TypeInv, DevTyped
  <2>5. \A e \in Devices : dev[e].pc \in Holding => dev[e].ex \in DOMAIN ex /\ dev[e].ex # i
    BY <1>2, DeviceAt DEF HeldInv, HoldsWell, Queued, Holding
  <2> HIDE DEF i
  <2>6. HoldsWell'
    <3> SUFFICES ASSUME NEW e \in Devices, dev'[e].pc \in Holding
                 PROVE  /\ ex'[dev'[e].ex].taker = e /\ ex'[dev'[e].ex].status # "queued"
                        /\ dev'[e].pc = "crashed" => ex'[dev'[e].ex].lost \/ ex'[dev'[e].ex].gone
      BY DEF HoldsWell
    <3>1. CASE e = d
      BY <2>2, <2>3, <3>1
    <3>2. CASE e # d
      BY <2>3, <2>4, <2>5, <3>2 DEF HeldInv, HoldsWell
    <3> QED BY <3>1, <3>2
  <2>7. RunningIsHeld'
    <3> SUFFICES ASSUME NEW j \in DOMAIN ex', ~ex'[j].gone, ex'[j].status = "running", ~ex'[j].lost
                 PROVE  \E e \in Devices : Holds(e, j)'
      BY DEF RunningIsHeld, Here
    <3>1. CASE j = i
      BY <2>2, <3>1 DEF Holds
    <3>2. CASE j # i
      <4>1. j \in Here /\ ex[j].status = "running" /\ ~ex[j].lost
        BY <2>3, <3>2 DEF Here
      <4>2. PICK e \in Devices : Holds(e, j)
        BY <4>1 DEF HeldInv, RunningIsHeld
      <4>3. e # d
        BY <1>1, <4>2 DEF Holds
      <4> QED BY <2>4, <4>2, <4>3 DEF Holds
    <3> QED BY <3>1, <3>2
  <2> QED BY <2>6, <2>7
<1>3. CASE i \notin Queued
  <2>1. UNCHANGED ex /\ dev' = [dev EXCEPT ![d] = Idle]
    BY <1>3 DEF ClaimFlip
  <2>2. \A e \in Devices : Keeps(e)
    BY <1>1, <2>1 DEF HeldInv, TypeInv, DevTyped, Keeps, Holding, Idle
  <2> QED BY <2>1, <2>2, KeepsHeld DEF Settles
<1> QED BY <1>2, <1>3

LEMMA OneDevice ==
  ASSUME TypeInv, NEW d \in Devices, NEW x, dev' = [dev EXCEPT ![d] = x], Keeps(d)
  PROVE  \A e \in Devices : Keeps(e)
  BY DEF TypeInv, DevTyped, Keeps

LEMMA SameDevices ==
  ASSUME UNCHANGED dev
  PROVE  \A e \in Devices : Keeps(e)
  BY DEF Keeps

\* A device's own steps, but for the flip: it lets go of an execution only when
\* it has ended, is gone or a call about it was lost.
LEMMA DeviceKeeps ==
  ASSUME HeldInv, NEW d \in Devices,
         \/ Claim(d) /\ ~ClaimFlip(d)
         \/ Work(d) \/ ReplyLost(d) \/ CompleteLost(d) \/ CompleteAgainLost(d) \/ DeviceLost(d)
  PROVE  \A e \in Devices : Keeps(e)
<1> USE DEF Holding, Idle
<1>1. dev[d].pc \in Holding => dev[d].ex \in DOMAIN ex
  BY DeviceAt DEF HeldInv
<1>2. DevTyped /\ TypeInv /\ ex \in [DOMAIN ex -> ExecutionRow]
  BY RowTyped DEF HeldInv, TypeInv, ExTyped
<1>3. CASE ClaimSelect(d) \/ ClaimReply(d)
  <2>1. /\ dev'[d].pc \in Holding => dev[d].pc \in Holding /\ dev'[d].ex = dev[d].ex
        /\ dev'[d].pc # "crashed" /\ UNCHANGED ex
        /\ dev[d].pc \in Holding /\ dev'[d].pc \notin Holding => ex[dev[d].ex].gone
    BY <1>2, <1>3 DEF ClaimSelect, ClaimReply, DevTyped
  <2>2. Keeps(d)
    BY <2>1 DEF Keeps, Released
  <2> QED BY <1>2, <1>3, <2>2, OneDevice DEF ClaimSelect, ClaimReply
<1>4. CASE ClaimRefused(d)
  <2>1. dev' = [dev EXCEPT ![d] = [dev[d] EXCEPT !.pc = "refusing"]] /\ dev[d] \in Claiming
    BY <1>2, <1>4, DeviceAt DEF ClaimRefused, DevTyped
  <2>2. Keeps(d)
    BY <1>2, <1>4, <2>1 DEF ClaimRefused, Keeps, DevTyped, Claiming
  <2> QED BY <1>2, <2>1, <2>2, OneDevice
<1>5. CASE RefuseFinalize(d)
  <2>1. ex'[dev[d].ex].status = "done" \/ ex'[dev[d].ex].gone
    BY <1>1, <1>2, <1>5 DEF RefuseFinalize, ExecutionRow
  <2>2. dev' = [dev EXCEPT ![d] = Idle]
    BY <1>5 DEF RefuseFinalize
  <2>3. Keeps(d)
    BY <1>2, <2>1, <2>2 DEF Keeps, Released, DevTyped
  <2> QED BY <1>2, <2>2, <2>3, OneDevice
<1>6. CASE (\E c \in Cases, v \in Verdicts : CaseEnds(d, c, v)) \/ CannotRun(d)
  <2>1. PICK f, b : dev' = [dev EXCEPT ![d] = [dev[d] EXCEPT !.verdict = f, !.quiet = b]]
    <3>1. CASE \E c \in Cases, v \in Verdicts : CaseEnds(d, c, v)
      <4>1. PICK f : dev' = [dev EXCEPT ![d] = [dev[d] EXCEPT !.verdict = f]]
        BY <1>2, <3>1 DEF CaseEnds, DevTyped
      <4>2. dev[d] \in Running
        BY <1>2, <3>1, DeviceAt DEF CaseEnds
      <4>3. [dev[d] EXCEPT !.verdict = f] = [dev[d] EXCEPT !.verdict = f, !.quiet = dev[d].quiet]
        BY <4>2 DEF Running
      <4> QED BY <4>1, <4>3
    <3>2. CASE CannotRun(d)
      BY <1>2, <3>2 DEF CannotRun, DevTyped
    <3> QED BY <1>6, <3>1, <3>2
  <2>2. dev[d] \in Running /\ dev[d].pc = "running"
    BY <1>2, <1>6, DeviceAt DEF CaseEnds, CannotRun
  <2>3. dev'[d].pc = "running" /\ dev'[d].ex = dev[d].ex
    BY <1>2, <2>1, <2>2 DEF DevTyped, Running
  <2>4. Keeps(d)
    BY <2>2, <2>3 DEF Keeps
  <2> QED BY <1>2, <2>1, <2>4, OneDevice
<1>7. CASE Complete(d)
  <2>1. ex'[dev[d].ex].status = "done"
    BY <1>1, <1>2, <1>7 DEF Complete, Completed, ExecutionRow
  <2>2. dev' = [dev EXCEPT ![d] = Idle]
    BY <1>7 DEF Complete
  <2>3. Keeps(d)
    BY <1>2, <2>1, <2>2 DEF Keeps, Released, DevTyped
  <2> QED BY <1>2, <2>2, <2>3, OneDevice
<1>8. CASE CompleteGone(d) \/ CompleteLost(d)
  <2>1. dev' = [dev EXCEPT ![d] = Caught(d)] /\ dev[d] \in Running
    BY <1>2, <1>8, DeviceAt DEF CompleteGone, CompleteLost
  <2>2. ex'[dev[d].ex].lost \/ ex'[dev[d].ex].gone
    <3>1. CASE CompleteGone(d)
      BY <3>1 DEF CompleteGone
    <3>2. CASE CompleteLost(d)
      <4> DEFINE p == Count(dev[d].verdict, "pass")
                 f == Count(dev[d].verdict, "fail")
      <4>1. \/ ex' = [Completed(dev[d].ex, p, f) EXCEPT ![dev[d].ex].lost = TRUE]
            \/ ex' = [ex EXCEPT ![dev[d].ex].lost = TRUE]
        BY <3>2 DEF CompleteLost
      <4> HIDE DEF p, f
      <4>2. dev[d].ex \in DOMAIN ex
        BY <2>1 DEF Running
      <4>3. DOMAIN Completed(dev[d].ex, p, f) = DOMAIN ex
            /\ "lost" \in DOMAIN Completed(dev[d].ex, p, f)[dev[d].ex]
        BY <1>2, <4>2 DEF Completed, ExecutionRow
      <4> QED BY <1>2, <4>1, <4>2, <4>3 DEF ExecutionRow
    <3> QED BY <1>8, <3>1, <3>2
  <2>3. /\ dev'[d].pc \in Holding => dev'[d].ex = dev[d].ex
        /\ dev[d].pc \in Holding
    BY <1>2, <2>1 DEF Caught, Running, DevTyped
  <2>4. Keeps(d)
    BY <2>2, <2>3 DEF Keeps, Released
  <2> QED BY <1>2, <2>1, <2>4, OneDevice
<1>9. CASE CompleteAgain(d) \/ CompleteAgainLost(d)
  <2>1. ex[dev[d].ex].lost \/ ex[dev[d].ex].gone
    BY <1>9 DEF CompleteAgain, CompleteAgainLost, HeldInv, HoldsWell
  <2>2. ex'[dev[d].ex].lost \/ ex'[dev[d].ex].gone
    <3>1. dev[d].ex \in DOMAIN ex
      BY <1>1, <1>9 DEF CompleteAgain, CompleteAgainLost
    <3> DEFINE f == Cardinality(dev[d].specs)
    <3>2. UNCHANGED ex \/ ex' = Completed(dev[d].ex, 0, f)
      BY <1>9 DEF CompleteAgain, CompleteAgainLost
    <3> HIDE DEF f
    <3> QED BY <1>2, <2>1, <3>1, <3>2 DEF Completed, ExecutionRow
  <2>3. dev' = [dev EXCEPT ![d] = Idle]
    BY <1>9 DEF CompleteAgain, CompleteAgainLost
  <2>4. Keeps(d)
    BY <1>2, <2>2, <2>3 DEF Keeps, Released, DevTyped
  <2> QED BY <1>2, <2>3, <2>4, OneDevice
<1>10. CASE ReplyLost(d)
  <2>1. ex'[dev[d].ex].lost /\ dev' = [dev EXCEPT ![d] = Idle]
    BY <1>1, <1>2, <1>10 DEF ReplyLost, ExecutionRow
  <2>2. Keeps(d)
    BY <1>2, <2>1 DEF Keeps, Released, DevTyped
  <2> QED BY <1>2, <2>1, <2>2, OneDevice
<1>11. CASE DeviceLost(d)
  <2>1. dev' = [dev EXCEPT ![d] = [pc |-> "off"]]
    BY <1>11 DEF DeviceLost
  <2>2. dev[d].pc \in Holding => ex'[dev[d].ex].lost
    <3> SUFFICES ASSUME dev[d].pc \in Holding PROVE ex'[dev[d].ex].lost
      OBVIOUS
    <3> DEFINE i == dev[d].ex
    <3>1. i \in DOMAIN ex /\ ex[i].taker = d /\ ex[i] \in ExecutionRow
      BY <1>1, <1>2 DEF HeldInv, HoldsWell
    <3>2. ex'[i] = [ex[i] EXCEPT !.lost = @ \/ ex[i].taker = d]
      BY <1>11, <3>1 DEF DeviceLost
    <3> HIDE DEF i
    <3>3. ex'[i].lost
      BY <3>1, <3>2 DEF ExecutionRow
    <3> QED BY <3>3 DEF i
  <2>3. Keeps(d)
    BY <1>2, <2>1, <2>2 DEF Keeps, Released, DevTyped
  <2> QED BY <1>2, <2>1, <2>3, OneDevice
<1> QED BY <1>3, <1>4, <1>5, <1>6, <1>7, <1>8, <1>9, <1>10, <1>11 DEF Claim, Work

\* A restart ends the claims under way, and marks what they had taken as lost.
LEMMA RestartKeeps ==
  ASSUME HeldInv, Restart
  PROVE  \A e \in Devices : Keeps(e)
<1> SUFFICES ASSUME NEW e \in Devices PROVE Keeps(e)
  OBVIOUS
<1> DEFINE dying == {d \in Devices : dev[d].pc \in {"selected", "claimed", "refusing"}}
<1>1. dev'[e] = IF e \in dying THEN Idle ELSE dev[e]
  BY DEF Restart
<1>2. CASE e \in dying /\ dev[e].pc # "selected"
  <2>1. dev[e].ex \in DOMAIN ex /\ ex[dev[e].ex] \in ExecutionRow
    BY <1>2, DeviceAt, RowTyped DEF HeldInv, TypeInv
  <2>2. ex'[dev[e].ex] = [ex[dev[e].ex] EXCEPT
          !.lost = @ \/ \E d \in dying : dev[d].ex = dev[e].ex /\ dev[d].pc # "selected"]
    BY <2>1 DEF Restart
  <2>3. ex'[dev[e].ex].lost
    BY <1>2, <2>1, <2>2 DEF ExecutionRow
  <2> QED BY <1>1, <1>2, <2>3 DEF Keeps, Released, Idle, Holding
<1>3. CASE e \in dying /\ dev[e].pc = "selected"
  BY <1>1, <1>3 DEF Keeps, Idle, Holding
<1>4. CASE e \notin dying
  BY <1>1, <1>4 DEF Keeps
<1> QED BY <1>2, <1>3, <1>4

LEMMA HeldPreserved ==
  ASSUME HeldInv, Bounded, [Next]_vars
  PROVE  HeldInv'
<1>1. TypeInv' /\ TypeInv
  BY StepTyped DEF HeldInv
<1>2. CASE \E d \in Devices : ClaimFlip(d)
  BY <1>1, <1>2, FlipHeld DEF HeldInv
<1>3. CASE ~\E d \in Devices : ClaimFlip(d)
  <2>1. CASE Step
    <3>1. \A e \in Devices : Keeps(e)
      <4>1. CASE Create \/ StopCommit \/ \E m \in msg : Arrive(m)
        <5>1. UNCHANGED dev
          BY <4>1 DEF Create, StartInsert, StartCommit, CreateOne, CreateProject,
                      StopCommit, Arrive, ResultArrives, EvidenceArrives
        <5> QED BY <5>1, SameDevices
      <4>2. CASE \E d \in Devices : Claim(d) \/ Work(d)
        BY <1>3, <4>2, DeviceKeeps
      <4> QED BY <2>1, <4>1, <4>2 DEF Step
    <3>2. Adds \/ Settles
      <4>1. ASSUME NEW d \in Devices, NEW i \in DOMAIN ex, Claim(d), ~ClaimFlip(d), Gives(i, d)
            PROVE  FALSE
        <5>1. ex'[i].status = "running" /\ ex[i].status = "queued" /\ ex[i] \in ExecutionRow
          BY <1>1, <4>1, RowTyped DEF Gives, Queued, TypeInv
        <5>2. CASE ClaimSelect(d) \/ ClaimReply(d)
          BY <5>1, <5>2 DEF ClaimSelect, ClaimReply
        <5>3. CASE ClaimRefused(d)
          BY <1>1, <5>1, <5>3, RowTyped DEF ClaimRefused, TypeInv, ExecutionRow
        <5>4. CASE RefuseFinalize(d)
          BY <1>1, <5>1, <5>4, RowTyped DEF RefuseFinalize, TypeInv, ExecutionRow
        <5> QED BY <4>1, <5>2, <5>3, <5>4 DEF Claim
      <4> QED BY <1>1, <1>3, <2>1, <4>1, CreationTyped, StopCommitTyped, ClaimTyped, WorkTyped,
                 ArriveTyped DEF Step
    <3> QED BY <1>1, <3>1, <3>2, KeepsHeld DEF HeldInv
  <2>2. CASE Fault
    <3>1. \A e \in Devices : Keeps(e)
      <4>1. CASE StopSelect \/ \E m \in msg : Lose(m)
        BY <4>1, SameDevices DEF StopSelect, Lose
      <4> QED BY <2>2, <4>1, DeviceKeeps, RestartKeeps DEF Fault
    <3> QED BY <1>1, <2>2, <3>1, FaultTyped, KeepsHeld DEF HeldInv
  <2>3. CASE UNCHANGED vars
    <3>1. Settles /\ \A e \in Devices : Keeps(e)
      BY <2>3, SameDevices DEF vars, Settles
    <3> QED BY <1>1, <3>1, KeepsHeld DEF HeldInv
  <2> QED BY <2>1, <2>2, <2>3 DEF Next
<1> QED BY <1>2, <1>3

LEMMA AlwaysHeld == ASSUME Bounded PROVE Spec => []HeldInv
<1>1. Init => HeldInv
  <2> SUFFICES ASSUME Init PROVE HoldsWell /\ RunningIsHeld
    BY InitTyped DEF HeldInv
  <2> QED BY DEF Init, HoldsWell, RunningIsHeld, Here, Idle, Holding
<1>2. HeldInv /\ [Next]_vars => HeldInv'
  BY HeldPreserved
<1> QED BY <1>1, <1>2, PTL DEF Spec

\* A running execution has a device or a request that will end it, unless a
\* device or a call about it was lost (no lease and no sweep ends it then).
THEOREM RunningHeld == ASSUME Bounded PROVE Spec => []RunningIsHeld
<1>1. HeldInv => RunningIsHeld
  BY DEF HeldInv
<1> QED BY <1>1, AlwaysHeld, PTL

-----------------------------------------------------------------------------
(* The files of the evidence.                                            *)

\* An evidence row is of an execution that is there, and its file is.
EvidenceInv ==
  /\ TypeInv
  /\ \A e \in ev : ~ex[e[1]].gone /\ File(e[1], e[2]) \in files

\* No row is deleted, and none changes its kind.
SameRuns ==
  /\ DOMAIN ex \subseteq DOMAIN ex'
  /\ \A i \in DOMAIN ex : ex'[i].kind = ex[i].kind /\ ex'[i].gone = ex[i].gone

LEMMA EvidenceAt ==
  ASSUME TypeInv, NEW e \in ev
  PROVE  e[1] \in DOMAIN ex /\ e[2] \in Cases
  BY DEF TypeInv

LEMMA EvidenceFrame ==
  ASSUME EvidenceInv, TypeInv', SameRuns, UNCHANGED <<ev, files>>
  PROVE  EvidenceInv'
<1> SUFFICES ASSUME NEW e \in ev PROVE ~ex'[e[1]].gone /\ File(e[1], e[2])' \in files
  BY DEF EvidenceInv
<1>1. PICK i \in DOMAIN ex : i = e[1]
  BY EvidenceAt DEF EvidenceInv
<1>2. PICK c : c = e[2]
  OBVIOUS
<1>3. File(i, c)' = File(i, c)
  BY DEF SameRuns, File, RunScoped
<1> QED BY <1>1, <1>2, <1>3 DEF EvidenceInv, SameRuns

\* Rows of the table are written, kinds and marks of deletion apart.
LEMMA RowsWritten ==
  ASSUME DOMAIN ex' = DOMAIN ex,
         \A i \in DOMAIN ex : ex'[i].kind = ex[i].kind /\ ex'[i].gone = ex[i].gone
  PROVE  SameRuns
  BY DEF SameRuns

LEMMA RowAppended ==
  ASSUME TypeInv, Bounded, NEW kind \in Kinds, NEW cs \in SUBSET Cases,
         ex' = Append(ex, Execution(kind, Pending(cs)))
  PROVE  SameRuns
<1>1. ex \in Seq(ExecutionRow) /\ Execution(kind, Pending(cs)) \in ExecutionRow
  BY NewRow DEF TypeInv, ExTyped
<1>2. /\ Len(ex') = Len(ex) + 1 /\ DOMAIN ex' = 1 .. Len(ex) + 1
      /\ \A i \in 1 .. Len(ex) : ex'[i] = ex[i]
  BY <1>1, AppendProperties
<1>3. DOMAIN ex = 1 .. Len(ex) /\ Len(ex) \in Nat
  BY <1>1
<1> QED BY <1>2, <1>3 DEF SameRuns

\* A start deletes what it supersedes with its rows and files, which are the
\* files of the run: those of a project selection are elsewhere.
LEMMA PruneEvidence ==
  ASSUME EvidenceInv, TypeInv', Bounded, NEW q \in Requests, StartInsert(q)
  PROVE  EvidenceInv'
<1> DEFINE old == {i \in Here : RunScoped(i)}
           t == [i \in DOMAIN ex |-> IF i \in old THEN [ex[i] EXCEPT !.gone = TRUE] ELSE ex[i]]
<1>1. CASE old = {}
  BY <1>1, EvidenceFrame, RowsWritten DEF StartInsert
<1>2. CASE old # {}
  <2>1. /\ ex' = Append(t, Execution("suite", Pending({}))) /\ ev' = {e \in ev : e[1] \notin old}
        /\ files' = files \ {File(e[1], e[2]) : e \in {x \in ev : x[1] \in old}}
    BY <1>2 DEF StartInsert
  <2>2. ex \in Seq(ExecutionRow) /\ DOMAIN ex = 1 .. Len(ex) /\ Len(ex) \in Nat
    BY DEF EvidenceInv, TypeInv, ExTyped
  <2>3. t \in [1 .. Len(ex) -> ExecutionRow]
    <3>1. \A i \in DOMAIN ex : ex[i] \in ExecutionRow
      BY RowTyped DEF EvidenceInv, TypeInv
    <3>2. \A i \in DOMAIN ex : t[i] \in ExecutionRow
      BY <3>1 DEF ExecutionRow
    <3> QED BY <2>2, <3>2
  <2>4. Execution("suite", Pending({})) \in ExecutionRow
    BY NewRow DEF Kinds
  <2>5. \A i \in DOMAIN ex \ old : t[i] = ex[i]
    OBVIOUS
  <2> HIDE DEF t
  <2>6. t \in Seq(ExecutionRow) /\ Len(t) = Len(ex)
    <3>1. t \in Seq(ExecutionRow)
      BY <2>2, <2>3, SeqDef
    <3> QED BY <2>2, <2>3, <3>1
  <2>7. \A i \in DOMAIN ex : ex'[i] = t[i]
    BY <2>1, <2>2, <2>4, <2>6, AppendProperties
  <2>8. ASSUME NEW e \in ev'
        PROVE  ~ex'[e[1]].gone /\ File(e[1], e[2])' \in files'
    <3>1. e \in ev /\ e[1] \notin old
      BY <2>1, <2>8
    <3>2. PICK i \in DOMAIN ex : i = e[1]
      BY <3>1, EvidenceAt DEF EvidenceInv
    <3>3. PICK c : c = e[2]
      OBVIOUS
    <3>4. ex'[i] = ex[i] /\ ~ex[i].gone /\ ~RunScoped(i) /\ File(i, c) \in files
      BY <2>5, <2>7, <3>1, <3>2, <3>3 DEF EvidenceInv, Here
    <3>5. File(i, c) = <<i, c>> /\ File(i, c)' = <<i, c>> /\ i # 0
      BY <2>2, <3>4 DEF File, RunScoped
    <3>6. ASSUME NEW x \in ev, x[1] \in old PROVE File(x[1], x[2]) # <<i, c>>
      <4>1. File(x[1], x[2]) = <<0, x[2]>>
        BY <3>6 DEF File
      <4> QED BY <3>5, <4>1
    <3> QED BY <2>1, <3>2, <3>3, <3>4, <3>5, <3>6
  <2> QED BY <2>8 DEF EvidenceInv
<1> QED BY <1>1, <1>2

\* An upload writes its file and its row together.
LEMMA UploadEvidence ==
  ASSUME EvidenceInv, TypeInv', NEW m \in msg, EvidenceArrives(m)
  PROVE  EvidenceInv'
<1>1. CASE ex[m.ex].gone \/ m.case \notin Rows(m.ex)
  BY <1>1, EvidenceFrame, RowsWritten DEF EvidenceArrives
<1>2. CASE ~ex[m.ex].gone /\ m.case \in Rows(m.ex)
  <2>1. /\ ex' = ex /\ ev' = ev \cup {<<m.ex, m.case>>}
        /\ files' = files \cup {File(m.ex, m.case)}
    BY <1>2 DEF EvidenceArrives, Stored
  <2>2. \A i, c : File(i, c)' = File(i, c)
    BY <2>1 DEF File, RunScoped
  <2>3. ASSUME NEW e \in ev' PROVE ~ex'[e[1]].gone /\ File(e[1], e[2])' \in files'
    <3>1. PICK i, c : i = e[1] /\ c = e[2]
      OBVIOUS
    <3>2. ~ex[i].gone /\ File(i, c) \in files'
      BY <1>2, <2>1, <2>3, <3>1 DEF EvidenceInv
    <3> QED BY <2>1, <2>2, <3>1, <3>2
  <2> QED BY <2>3 DEF EvidenceInv
<1> QED BY <1>1, <1>2

\* Everything else leaves the kinds, the evidence and the files alone.
LEMMA OthersKeepRuns ==
  ASSUME TypeInv, Bounded, [Next]_vars,
         \A q \in Requests : ~StartInsert(q), \A m \in msg : ~EvidenceArrives(m)
  PROVE  SameRuns /\ UNCHANGED <<ev, files>>
<1>1. ex \in [DOMAIN ex -> ExecutionRow] /\ DevTyped
  BY RowTyped DEF TypeInv, ExTyped
<1>2. ASSUME NEW q \in Requests, StartCommit(q) PROVE SameRuns /\ UNCHANGED <<ev, files>>
  <2>1. CASE req[q].pc = "alone"
    <3>1. ex' = Append(ex, Execution("suite", Pending(Cases)))
      BY <1>2, <2>1 DEF StartCommit
    <3> QED BY <1>2, <3>1, RowAppended DEF StartCommit, Kinds
  <2>2. CASE req[q].pc = "pruned"
    <3>1. PICK n : n = req[q].id
      OBVIOUS
    <3>2. ex' = IF ex[n].gone THEN ex ELSE [ex EXCEPT ![n].result = Pending(Cases)]
      BY <1>2, <2>2, <3>1 DEF StartCommit
    <3> QED BY <1>1, <1>2, <3>2, RowsWritten DEF StartCommit, ExecutionRow
  <2> QED BY <1>2, <2>1, <2>2 DEF StartCommit
<1>3. ASSUME Create PROVE SameRuns /\ UNCHANGED <<ev, files>>
  <2>1. ASSUME NEW c \in Cases, CreateOne(c) PROVE SameRuns /\ UNCHANGED <<ev, files>>
    BY <2>1, RowAppended DEF CreateOne, Kinds
  <2>2. ASSUME CreateProject PROVE SameRuns /\ UNCHANGED <<ev, files>>
    BY <2>2, RowAppended DEF CreateProject, Kinds
  <2> QED BY <1>2, <1>3, <2>1, <2>2 DEF Create
<1>4. ASSUME NEW d \in Devices, Claim(d) PROVE SameRuns /\ UNCHANGED <<ev, files>>
  <2>1. PICK i : i = dev[d].ex
    OBVIOUS
  <2>2. CASE ClaimSelect(d) \/ ClaimReply(d)
    BY <2>2, RowsWritten DEF ClaimSelect, ClaimReply
  <2>3. CASE ClaimFlip(d)
    <3>1. \/ ex' = ex
          \/ ex' = [ex EXCEPT ![i].status = "running", ![i].taker = d, ![i].early = (Rows(i) = {})]
      BY <2>1, <2>3 DEF ClaimFlip
    <3> QED BY <1>1, <2>3, <3>1, RowsWritten DEF ClaimFlip, ExecutionRow
  <2>4. CASE ClaimRefused(d)
    <3>1. PICK r, n : ex' = [ex EXCEPT ![i].result = r, ![i].passed = 0, ![i].failed = n]
      BY <2>1, <2>4 DEF ClaimRefused
    <3> QED BY <1>1, <2>4, <3>1, RowsWritten DEF ClaimRefused, ExecutionRow
  <2>5. CASE RefuseFinalize(d)
    <3>1. ex' = ex \/ ex' = [ex EXCEPT ![i].status = "done"]
      BY <2>1, <2>5 DEF RefuseFinalize
    <3> QED BY <1>1, <2>5, <3>1, RowsWritten DEF RefuseFinalize, ExecutionRow
  <2> QED BY <1>4, <2>2, <2>3, <2>4, <2>5 DEF Claim
<1>5. ASSUME NEW i, NEW p, NEW f, ex' = Completed(i, p, f) PROVE SameRuns
  BY <1>1, <1>5, RowsWritten DEF Completed, ExecutionRow
<1>6. ASSUME NEW d \in Devices, Work(d) PROVE SameRuns /\ UNCHANGED <<ev, files>>
  <2>1. CASE (\E c \in Cases, v \in Verdicts : CaseEnds(d, c, v)) \/ CannotRun(d) \/ CompleteGone(d)
    BY <2>1, RowsWritten DEF CaseEnds, CannotRun, CompleteGone
  <2>2. CASE Complete(d)
    BY <1>5, <2>2 DEF Complete
  <2>3. CASE CompleteAgain(d)
    <3>1. ex' = ex \/ \E i, f : ex' = Completed(i, 0, f)
      BY <2>3 DEF CompleteAgain
    <3> QED BY <1>5, <2>3, <3>1, RowsWritten DEF CompleteAgain
  <2> QED BY <1>6, <2>1, <2>2, <2>3 DEF Work
<1>7. ASSUME NEW m \in msg, ResultArrives(m) PROVE SameRuns /\ UNCHANGED <<ev, files>>
  <2>1. PICK i, c, v : ex' = ex \/ ex' = [ex EXCEPT ![i].result[c] = v]
    BY <1>7 DEF ResultArrives
  <2> QED BY <1>1, <1>7, <2>1, RowsWritten DEF ResultArrives, ExecutionRow
<1>8. ASSUME StopCommit PROVE SameRuns /\ UNCHANGED <<ev, files>>
  BY <1>1, <1>8, RowsWritten DEF StopCommit, ExecutionRow
<1>9. ASSUME Fault PROVE SameRuns /\ UNCHANGED <<ev, files>>
  <2>1. ASSUME NEW d \in Devices, ReplyLost(d) PROVE SameRuns /\ UNCHANGED <<ev, files>>
    <3>1. PICK i : ex' = [ex EXCEPT ![i].lost = TRUE]
      BY <2>1 DEF ReplyLost
    <3> QED BY <1>1, <2>1, <3>1, RowsWritten DEF ReplyLost, ExecutionRow
  <2>2. ASSUME NEW d \in Devices, CompleteLost(d) PROVE SameRuns /\ UNCHANGED <<ev, files>>
    <3>1. PICK i, p, f : \/ ex' = [Completed(i, p, f) EXCEPT ![i].lost = TRUE]
                         \/ ex' = [ex EXCEPT ![i].lost = TRUE]
      BY <2>2 DEF CompleteLost
    <3>2. CASE ex' = [ex EXCEPT ![i].lost = TRUE]
      BY <1>1, <2>2, <3>2, RowsWritten DEF CompleteLost, ExecutionRow
    <3>3. CASE ex' = [Completed(i, p, f) EXCEPT ![i].lost = TRUE]
      <4> DEFINE t == Completed(i, p, f)
      <4>1. DOMAIN t = DOMAIN ex /\ \A j \in DOMAIN ex :
              /\ t[j].kind = ex[j].kind /\ t[j].gone = ex[j].gone
              /\ DOMAIN t[j] = DOMAIN ex[j]
        BY <1>1 DEF Completed, ExecutionRow
      <4>2. \A j \in DOMAIN ex : {"kind", "gone", "lost"} \subseteq DOMAIN t[j]
        BY <1>1, <4>1 DEF ExecutionRow
      <4>3. ex' = [t EXCEPT ![i].lost = TRUE]
        BY <3>3
      <4> HIDE DEF t
      <4> QED BY <2>2, <4>1, <4>2, <4>3, RowsWritten DEF CompleteLost
    <3> QED BY <3>1, <3>2, <3>3
  <2>3. ASSUME NEW d \in Devices, CompleteAgainLost(d) PROVE SameRuns /\ UNCHANGED <<ev, files>>
    BY <2>3, RowsWritten DEF CompleteAgainLost
  <2>4. ASSUME NEW d \in Devices, DeviceLost(d) PROVE SameRuns /\ UNCHANGED <<ev, files>>
    BY <1>1, <2>4, RowsWritten DEF DeviceLost, ExecutionRow
  <2>5. ASSUME NEW m \in msg, Lose(m) PROVE SameRuns /\ UNCHANGED <<ev, files>>
    BY <1>1, <2>5, RowsWritten DEF Lose, ExecutionRow
  <2>6. ASSUME StopSelect PROVE SameRuns /\ UNCHANGED <<ev, files>>
    BY <1>1, <2>6, RowsWritten DEF StopSelect, ExecutionRow
  <2>7. ASSUME Restart PROVE SameRuns /\ UNCHANGED <<ev, files>>
    BY <1>1, <2>7, RowsWritten DEF Restart, ExecutionRow
  <2> QED BY <1>9, <2>1, <2>2, <2>3, <2>4, <2>5, <2>6, <2>7 DEF Fault
<1>10. CASE Step
  BY <1>3, <1>4, <1>6, <1>7, <1>8, <1>10 DEF Step, Arrive
<1>11. CASE UNCHANGED vars
  BY <1>11, RowsWritten DEF vars
<1> QED BY <1>9, <1>10, <1>11 DEF Next

\* Every evidence row has its file, however many executions of a run write to the
\* same paths and are deleted with their files while devices still upload
\* (prune_superseded, store_uploaded_evidence): a row is deleted with its
\* execution, and what remains is of another execution of the project's.
THEOREM EvidenceKept == ASSUME Bounded PROVE Spec => []EvidenceServed
<1>1. Init => EvidenceInv
  BY InitTyped DEF EvidenceInv, Init
<1>2. EvidenceInv /\ [Next]_vars => EvidenceInv'
  <2> SUFFICES ASSUME EvidenceInv, [Next]_vars PROVE EvidenceInv'
    OBVIOUS
  <2>1. TypeInv'
    BY StepTyped DEF EvidenceInv
  <2>2. CASE \E q \in Requests : StartInsert(q)
    BY <2>1, <2>2, PruneEvidence
  <2>3. CASE \E m \in msg : EvidenceArrives(m)
    BY <2>1, <2>3, UploadEvidence
  <2>4. CASE ~(\E q \in Requests : StartInsert(q)) /\ ~(\E m \in msg : EvidenceArrives(m))
    BY <2>1, <2>4, OthersKeepRuns, EvidenceFrame DEF EvidenceInv
  <2> QED BY <2>2, <2>3, <2>4
<1>3. EvidenceInv => EvidenceServed
  BY DEF EvidenceInv, EvidenceServed
<1> QED BY <1>1, <1>2, <1>3, PTL DEF Spec

-----------------------------------------------------------------------------
(* Counts that match rows: the invariant.                                *)

Clean(i) == ~ex[i].gone /\ ~ex[i].lost /\ ~ex[i].early /\ ~ex[i].stopped
ResultPosts(i) == {m \in msg : m.kind = "result" /\ m.ex = i}
Shipped(i) == Rows(i) \ (IF RunScoped(i) THEN NoSpec ELSE {})

\* Once the posts have arrived, the results r will be f, and pending elsewhere.
Tally(r, posts, f) ==
  /\ DOMAIN f \subseteq DOMAIN r
  /\ \A c \in DOMAIN f : /\ \A m \in posts : m.case = c => m.verdict = f[c]
                         /\ r[c] = f[c] \/ \E m \in posts : m.case = c
  /\ \A c \in DOMAIN r \ DOMAIN f : r[c] = "pending" /\ \A m \in posts : m.case # c

Tallied(i, f) == Tally(ex[i].result, ResultPosts(i), f)

\* Nothing has been reported yet.
Fresh(i) == ResultPosts(i) = {} /\ \A c \in Rows(i) : ex[i].result[c] = "pending"

\* The counts are those of the rows to be, and every shipped case has a verdict.
Counted(i) ==
  \E f \in Partial(Verdicts) :
    /\ Tallied(i, f) /\ Shipped(i) \subseteq DOMAIN f
    /\ ex[i].passed = Count(f, "pass") /\ ex[i].failed = Count(f, "fail")

RowOk(i) ==
  Clean(i) => /\ ex[i].status = "queued" => Fresh(i)
              /\ ex[i].status = "done" => Counted(i)
              /\ ex[i].status # "failed"

PhaseOk(d) ==
  LET i == dev[d].ex IN
  dev[d].pc \in Holding /\ Clean(i) =>
    /\ ex[i].status = "running"
    /\ dev[d].pc = "claimed" => Fresh(i)
    /\ dev[d].pc = "refusing" => Counted(i)
    /\ dev[d].pc = "running" => dev[d].specs = Shipped(i) /\ Tallied(i, dev[d].verdict)

\* A request between its two commits: the execution is its own, and has no row.
ReqOk(q) ==
  req[q].pc = "pruned" =>
    /\ Rows(req[q].id) = {} /\ (Clean(req[q].id) => ex[req[q].id].status = "queued")
    /\ \A p \in Requests \ {q} : req[p].pc = "pruned" => req[p].id # req[q].id

\* What a stop will write back is marked.
StopOk == stop.pc = "stopping" => /\ DOMAIN stop.pending \subseteq DOMAIN ex
                                  /\ \A i \in DOMAIN stop.pending : ex[i].stopped

CountInv ==
  /\ HeldInv
  /\ \A i \in DOMAIN ex : RowOk(i)
  /\ \A d \in Devices : PhaseOk(d)
  /\ \A q \in Requests : ReqOk(q)
  /\ StopOk
  /\ \A i \in DOMAIN ex : ex[i].status = "queued" => ~ex[i].early

-----------------------------------------------------------------------------
(* Frames.                                                               *)

\* The step leaves what the invariant says of the execution i as it was, or
\* the execution is not clean after it.
Undisturbed(i) ==
  Clean(i)' => /\ Clean(i) /\ ex'[i].status = ex[i].status /\ ex'[i].result = ex[i].result
               /\ ex'[i].passed = ex[i].passed /\ ex'[i].failed = ex[i].failed
               /\ ex'[i].kind = ex[i].kind /\ ResultPosts(i)' = ResultPosts(i)

\* What requests and stops rely on: rows are not added, marks stay, only an
\* execution with rows is taken and stays clean, and nothing is queued again.
Continues(i) ==
  /\ Rows(i)' = Rows(i) /\ (ex[i].stopped => ex'[i].stopped)
  /\ Clean(i)' => /\ Clean(i)
                  /\ ex[i].status = "queued" => ex'[i].status = "queued" \/ Rows(i) # {}
  /\ ex'[i].status = "queued" => ex[i].status = "queued" /\ ex'[i].early = ex[i].early

LEMMA KeptRow ==
  ASSUME NEW i, ex'[i] = ex[i]
  PROVE  Continues(i) /\ (ResultPosts(i)' = ResultPosts(i) => Undisturbed(i))
  BY DEF Continues, Undisturbed, Clean, Rows

LEMMA FrameRow ==
  ASSUME NEW i, Undisturbed(i), RowOk(i)
  PROVE  RowOk(i)'
<1> SUFFICES ASSUME Clean(i)'
             PROVE  /\ ex'[i].status = "queued" => Fresh(i)'
                    /\ ex'[i].status = "done" => Counted(i)'
                    /\ ex'[i].status # "failed"
  BY DEF RowOk
<1>1. /\ Clean(i) /\ ex'[i].status = ex[i].status /\ ex'[i].result = ex[i].result
      /\ ex'[i].passed = ex[i].passed /\ ex'[i].failed = ex[i].failed
      /\ ex'[i].kind = ex[i].kind /\ ResultPosts(i)' = ResultPosts(i)
  BY DEF Undisturbed
<1>2. Rows(i)' = Rows(i) /\ Shipped(i)' = Shipped(i)
  BY <1>1 DEF Rows, Shipped, RunScoped
<1>3. \A f : Tallied(i, f)' = Tallied(i, f)
  BY <1>1 DEF Tallied
<1>4. Fresh(i) => Fresh(i)'
  BY <1>1, <1>2 DEF Fresh
<1>5. Counted(i) => Counted(i)'
  BY <1>1, <1>2, <1>3 DEF Counted
<1> QED BY <1>1, <1>4, <1>5 DEF RowOk

LEMMA FramePhase ==
  ASSUME NEW d, NEW i, i = dev[d].ex, dev'[d] = dev[d], Undisturbed(i), PhaseOk(d)
  PROVE  PhaseOk(d)'
<1> SUFFICES ASSUME dev[d].pc \in Holding, Clean(i)'
             PROVE  /\ ex'[i].status = "running"
                    /\ dev[d].pc = "claimed" => Fresh(i)'
                    /\ dev[d].pc = "refusing" => Counted(i)'
                    /\ dev[d].pc = "running" => dev[d].specs = Shipped(i)' /\ Tallied(i, dev[d].verdict)'
  BY DEF PhaseOk
<1>1. /\ Clean(i) /\ ex'[i].status = ex[i].status /\ ex'[i].result = ex[i].result
      /\ ex'[i].passed = ex[i].passed /\ ex'[i].failed = ex[i].failed
      /\ ex'[i].kind = ex[i].kind /\ ResultPosts(i)' = ResultPosts(i)
  BY DEF Undisturbed
<1>2. Rows(i)' = Rows(i) /\ Shipped(i)' = Shipped(i)
  BY <1>1 DEF Rows, Shipped, RunScoped
<1>3. \A f : Tally(ex'[i].result, ResultPosts(i)', f) = Tallied(i, f)
  BY <1>1 DEF Tallied
<1>4. Fresh(i) => Fresh(i)'
  BY <1>1, <1>2 DEF Fresh
<1>5. Counted(i) => Counted(i)'
  BY <1>1, <1>2, <1>3 DEF Counted, Tallied
<1> QED BY <1>1, <1>2, <1>3, <1>4, <1>5 DEF PhaseOk, Tallied

\* The pieces of a step that adds no execution.
LEMMA CountFrame ==
  ASSUME CountInv, HeldInv', DOMAIN ex' = DOMAIN ex,
         \A i \in DOMAIN ex : Continues(i) /\ (Undisturbed(i) \/ RowOk(i)'),
         \A d \in Devices :
           \/ dev'[d] = dev[d]
              /\ (dev[d].pc \in Holding => \E i \in DOMAIN ex : i = dev[d].ex /\ Undisturbed(i))
           \/ PhaseOk(d)',
         req' = req \/ req' = [q \in Requests |-> Idle],
         StopOk'
  PROVE  CountInv'
<1>1. \A i \in DOMAIN ex' : RowOk(i)'
  BY FrameRow DEF CountInv
<1>2. ASSUME NEW d \in Devices PROVE PhaseOk(d)'
  <2>1. CASE dev'[d] = dev[d] /\ dev[d].pc \notin Holding
    BY <2>1 DEF PhaseOk
  <2>2. CASE dev'[d] = dev[d] /\ \E i \in DOMAIN ex : i = dev[d].ex /\ Undisturbed(i)
    BY <2>2, FramePhase DEF CountInv
  <2> QED BY <2>1, <2>2
<1>3. ASSUME NEW q \in Requests PROVE ReqOk(q)'
  <2>1. CASE req' = req
    <3>1. req[q].pc = "pruned" => req[q].id \in DOMAIN ex
      BY DEF CountInv, HeldInv, TypeInv, ReqTyped, Idle
    <3> QED BY <2>1, <3>1 DEF CountInv, ReqOk, Continues
  <2>2. CASE req' = [p \in Requests |-> Idle]
    BY <2>2 DEF ReqOk, Idle
  <2> QED BY <2>1, <2>2
<1>4. \A i \in DOMAIN ex' : ex'[i].status = "queued" => ~ex'[i].early
  BY DEF CountInv, Continues
<1> QED BY <1>1, <1>2, <1>3, <1>4 DEF CountInv

\* A step that leaves every execution undisturbed.
LEMMA Undisturbing ==
  ASSUME CountInv, HeldInv', DOMAIN ex' = DOMAIN ex,
         \A i \in DOMAIN ex : Undisturbed(i) /\ Continues(i),
         \A d \in Devices : dev'[d] = dev[d] \/ PhaseOk(d)',
         req' = req \/ req' = [q \in Requests |-> Idle],
         stop' = stop \/ stop' = Idle \/ StopOk'
  PROVE  CountInv'
<1>1. \A d \in Devices : dev[d].pc \in Holding => \E i \in DOMAIN ex : i = dev[d].ex /\ Undisturbed(i)
  BY DeviceAt DEF CountInv, HeldInv, Holding
<1>2. StopOk'
  BY DEF CountInv, StopOk, Continues, Idle
<1> QED BY <1>1, <1>2, CountFrame

\* What a step that only marks a row leaves alone.
LEMMA MarkedRow ==
  ASSUME NEW i,
         /\ ex'[i].status = ex[i].status /\ ex'[i].result = ex[i].result
         /\ ex'[i].passed = ex[i].passed /\ ex'[i].failed = ex[i].failed
         /\ ex'[i].kind = ex[i].kind /\ ex'[i].gone = ex[i].gone /\ ex'[i].early = ex[i].early
         /\ (ex[i].lost => ex'[i].lost) /\ (ex[i].stopped => ex'[i].stopped),
         ResultPosts(i)' = ResultPosts(i) \/ ~Clean(i)'
  PROVE  Undisturbed(i) /\ Continues(i)
  BY DEF Undisturbed, Continues, Clean, Rows

LEMMA UncleanRow ==
  ASSUME NEW i, ~Clean(i)', Rows(i)' = Rows(i), ex[i].stopped => ex'[i].stopped,
         ex'[i].status \in {ex[i].status, "done", "failed"}, ex'[i].early = ex[i].early
  PROVE  Undisturbed(i) /\ Continues(i)
  BY DEF Undisturbed, Continues

\* Faults mark, and what they let go of is marked.
LEMMA FaultCounts ==
  ASSUME CountInv, HeldInv', Bounded, Fault
  PROVE  CountInv'
<1> DEFINE Marks(i) ==
      /\ ex'[i].status = ex[i].status /\ ex'[i].result = ex[i].result
      /\ ex'[i].passed = ex[i].passed /\ ex'[i].failed = ex[i].failed
      /\ ex'[i].kind = ex[i].kind /\ ex'[i].gone = ex[i].gone /\ ex'[i].early = ex[i].early
      /\ (ex[i].lost => ex'[i].lost) /\ (ex[i].stopped => ex'[i].stopped)
<1>1. HeldInv /\ TypeInv /\ DevTyped /\ ex \in [DOMAIN ex -> ExecutionRow]
  BY RowTyped DEF CountInv, HeldInv, TypeInv, ExTyped
<1>2. DOMAIN ex' = DOMAIN ex
  BY <1>1, FaultTyped DEF Settles
<1>3. ASSUME NEW d \in Devices, dev'[d].pc \notin Holding PROVE PhaseOk(d)'
  BY <1>3 DEF PhaseOk
<1>4. ASSUME UNCHANGED msg PROVE \A i : ResultPosts(i)' = ResultPosts(i)
  BY <1>4 DEF ResultPosts
<1>5. ASSUME NEW d \in Devices, ReplyLost(d) PROVE CountInv'
  <2>1. dev[d].ex \in DOMAIN ex
    BY <1>1, <1>5, DeviceAt DEF ReplyLost
  <2>2. \A i \in DOMAIN ex : Marks(i)
    BY <1>1, <1>5, <2>1 DEF ReplyLost, ExecutionRow
  <2>3. \A e \in Devices : dev'[e] = dev[e] \/ dev'[e].pc \notin Holding
    BY <1>1, <1>5 DEF ReplyLost, DevTyped, Idle, Holding
  <2>4. UNCHANGED <<req, stop, msg>>
    BY <1>5 DEF ReplyLost
  <2>5. \A i \in DOMAIN ex : Undisturbed(i) /\ Continues(i)
    BY <1>4, <2>2, <2>4, MarkedRow
  <2> QED BY <1>2, <1>3, <2>3, <2>4, <2>5, Undisturbing
<1>6. ASSUME NEW d \in Devices, CompleteLost(d) PROVE CountInv'
  <2>1. dev[d].ex \in DOMAIN ex /\ dev[d] \in Running
    BY <1>1, <1>6, DeviceAt DEF CompleteLost
  <2>2. PICK k \in DOMAIN ex : k = dev[d].ex
    BY <2>1
  <2>3. PICK p, f : \/ ex' = [Completed(k, p, f) EXCEPT ![k].lost = TRUE]
                    \/ ex' = [ex EXCEPT ![k].lost = TRUE]
    BY <1>6, <2>2 DEF CompleteLost
  <2>4. /\ dev' = [dev EXCEPT ![d] = Caught(d)] /\ UNCHANGED <<req, stop, msg>>
    BY <1>6 DEF CompleteLost
  <2>5. dev'[d] = Caught(d) /\ \A e \in Devices \ {d} : dev'[e] = dev[e]
    BY <1>1, <2>4 DEF DevTyped
  <2>6. dev'[d].pc \in Holding => dev'[d].ex = k
    BY <2>1, <2>2, <2>5 DEF Caught, Idle, Holding, Running
  <2>7. ex[k] \in ExecutionRow
    BY <1>1
  <2>8. /\ ex'[k].lost /\ ex'[k].result = ex[k].result /\ ex'[k].stopped = ex[k].stopped
        /\ ex'[k].status \in {ex[k].status, "done"} /\ ex'[k].early = ex[k].early
        /\ \A i \in DOMAIN ex \ {k} : ex'[i] = ex[i]
    <3>1. CASE ex' = [ex EXCEPT ![k].lost = TRUE]
      <4>1. ex'[k] = [ex[k] EXCEPT !.lost = TRUE] /\ \A i \in DOMAIN ex \ {k} : ex'[i] = ex[i]
        BY <1>1, <2>2, <3>1
      <4> QED BY <2>7, <4>1 DEF ExecutionRow
    <3>2. CASE ex' = [Completed(k, p, f) EXCEPT ![k].lost = TRUE]
      <4> DEFINE r == [ex[k] EXCEPT !.passed = p, !.failed = f, !.status = "done"]
      <4>1. Completed(k, p, f) = [ex EXCEPT ![k] = r]
        BY <1>1, <2>2 DEF Completed
      <4>2. "lost" \in DOMAIN r /\ r.result = ex[k].result /\ r.stopped = ex[k].stopped
            /\ {"result", "stopped", "status", "early"} \subseteq DOMAIN r
            /\ r.status = "done" /\ r.early = ex[k].early
        BY <2>7 DEF ExecutionRow
      <4> HIDE DEF r
      <4>3. ex'[k] = [r EXCEPT !.lost = TRUE] /\ \A i \in DOMAIN ex \ {k} : ex'[i] = ex[i]
        BY <1>1, <2>2, <3>2, <4>1
      <4> QED BY <4>2, <4>3
    <3> QED BY <2>3, <3>1, <3>2
  <2>9. \A i \in DOMAIN ex \ {k} : Undisturbed(i) /\ Continues(i)
    BY <1>4, <2>4, <2>8, KeptRow
  <2>10. ~Clean(k)' /\ Undisturbed(k) /\ Continues(k)
    BY <2>8, UncleanRow DEF Clean, Rows
  <2>11. PhaseOk(d)'
    BY <2>6, <2>10 DEF PhaseOk
  <2> QED BY <1>2, <2>4, <2>5, <2>9, <2>10, <2>11, Undisturbing
<1>7. ASSUME NEW d \in Devices, CompleteAgainLost(d) PROVE CountInv'
  <2>1. UNCHANGED <<ex, req, stop, msg>>
    BY <1>7 DEF CompleteAgainLost
  <2>2. \A e \in Devices : dev'[e] = dev[e] \/ dev'[e].pc \notin Holding
    BY <1>1, <1>7 DEF CompleteAgainLost, DevTyped, Idle, Holding
  <2>3. \A i \in DOMAIN ex : Undisturbed(i) /\ Continues(i)
    BY <1>4, <2>1, KeptRow
  <2> QED BY <1>2, <1>3, <2>1, <2>2, <2>3, Undisturbing
<1>8. ASSUME NEW d \in Devices, DeviceLost(d) PROVE CountInv'
  <2>1. \A i \in DOMAIN ex : ex'[i] = [ex[i] EXCEPT !.lost = @ \/ ex[i].taker = d]
    BY <1>8 DEF DeviceLost
  <2>2. \A i \in DOMAIN ex : Marks(i) /\ (ex[i].taker = d => ex'[i].lost)
    BY <1>1, <2>1 DEF ExecutionRow
  <2>3. \A i \in DOMAIN ex : ex[i].taker # d => ResultPosts(i)' = ResultPosts(i)
    BY <1>8 DEF DeviceLost, ResultPosts
  <2>4. \A i \in DOMAIN ex : Undisturbed(i) /\ Continues(i)
    BY <2>2, <2>3, MarkedRow DEF Clean
  <2>5. \A e \in Devices : dev'[e] = dev[e] \/ dev'[e].pc \notin Holding
    BY <1>1, <1>8 DEF DeviceLost, DevTyped, Holding
  <2>6. UNCHANGED <<req, stop>>
    BY <1>8 DEF DeviceLost
  <2> QED BY <1>2, <1>3, <2>4, <2>5, <2>6, Undisturbing
<1>9. ASSUME NEW m \in msg, Lose(m) PROVE CountInv'
  <2> DEFINE k == m.ex
  <2>1. k \in DOMAIN ex /\ m \in Posts
    BY <1>1 DEF TypeInv, Posts
  <2>2. /\ ex' = [ex EXCEPT ![k].lost = @ \/ m.kind = "result"] /\ msg' = msg \ {m}
        /\ UNCHANGED <<req, stop, dev>>
    BY <1>9 DEF Lose
  <2>3. \A i \in DOMAIN ex : Marks(i)
    BY <1>1, <2>1, <2>2 DEF ExecutionRow
  <2>4. m.kind = "result" => ex'[k].lost
    BY <1>1, <2>1, <2>2 DEF ExecutionRow
  <2>5. \A i \in DOMAIN ex : i # k \/ m.kind # "result" => ResultPosts(i)' = ResultPosts(i)
    BY <2>2 DEF ResultPosts
  <2>6. \A i \in DOMAIN ex : Undisturbed(i) /\ Continues(i)
    BY <2>3, <2>4, <2>5, MarkedRow DEF Clean
  <2> QED BY <1>2, <2>2, <2>6, Undisturbing
<1>10. ASSUME StopSelect PROVE CountInv'
  <2>1. \A i \in DOMAIN ex : ex'[i] = [ex[i] EXCEPT !.stopped = @ \/ i \in LiveOfRun]
    BY <1>10 DEF StopSelect
  <2>2. \A i \in DOMAIN ex : Marks(i) /\ (i \in LiveOfRun => ex'[i].stopped)
    BY <1>1, <2>1 DEF ExecutionRow
  <2>3. UNCHANGED <<req, dev, msg>>
    BY <1>10 DEF StopSelect
  <2>4. \A i \in DOMAIN ex : Undisturbed(i) /\ Continues(i)
    BY <1>4, <2>2, <2>3, MarkedRow
  <2>5. DOMAIN stop'.pending = LiveOfRun /\ LiveOfRun \subseteq DOMAIN ex
    BY <1>10 DEF StopSelect, LiveOfRun, Here
  <2>6. StopOk'
    BY <1>2, <2>2, <2>5 DEF StopOk
  <2> QED BY <1>2, <2>3, <2>4, <2>6, Undisturbing
<1>11. ASSUME Restart PROVE CountInv'
  <2> DEFINE dying == {d \in Devices : dev[d].pc \in {"selected", "claimed", "refusing"}}
             b(i) == \E d \in dying : dev[d].ex = i /\ dev[d].pc # "selected"
  <2>1. \A i \in DOMAIN ex : ex'[i] = [ex[i] EXCEPT !.lost = @ \/ b(i)]
    BY <1>11 DEF Restart
  <2>2. ASSUME NEW i \in DOMAIN ex PROVE Marks(i)
    <3>1. PICK x : ex'[i] = [ex[i] EXCEPT !.lost = ex[i].lost \/ x]
      BY <2>1
    <3>2. ex[i] \in ExecutionRow
      BY <1>1
    <3> QED BY <3>1, <3>2 DEF ExecutionRow
  <2>3. /\ req' = [q \in Requests |-> Idle] /\ stop' = Idle /\ UNCHANGED msg
        /\ dev' = [d \in Devices |-> IF d \in dying THEN Idle ELSE dev[d]]
    BY <1>11 DEF Restart
  <2>4. \A e \in Devices : dev'[e] = dev[e] \/ dev'[e].pc \notin Holding
    BY <2>3 DEF Idle, Holding
  <2>5. \A i \in DOMAIN ex : Undisturbed(i) /\ Continues(i)
    BY <1>4, <2>2, <2>3, MarkedRow
  <2> QED BY <1>2, <1>3, <2>3, <2>4, <2>5, Undisturbing
<1> QED BY <1>5, <1>6, <1>7, <1>8, <1>9, <1>10, <1>11 DEF Fault

\* A stop writes only what it has marked.
LEMMA StopCommitCounts ==
  ASSUME CountInv, HeldInv', StopCommit
  PROVE  CountInv'
<1>1. ex \in [DOMAIN ex -> ExecutionRow] /\ TypeInv
  BY RowTyped DEF CountInv, HeldInv, TypeInv, ExTyped
<1>2. DOMAIN ex' = DOMAIN ex /\ UNCHANGED <<req, dev, msg>> /\ stop' = Idle
  BY DEF StopCommit
<1>3. ASSUME NEW i \in DOMAIN ex PROVE Undisturbed(i) /\ Continues(i)
  <2>1. CASE i \in DOMAIN stop.pending /\ ~ex[i].gone
    <3> DEFINE g == [c \in Rows(i) |-> IF c \in stop.pending[i] THEN "skipped" ELSE ex[i].result[c]]
    <3>1. ex[i].stopped
      BY <2>1 DEF StopCommit, CountInv, StopOk
    <3>2. ex'[i] = [ex[i] EXCEPT !.status = "failed", !.result = g]
      BY <2>1 DEF StopCommit, Rows
    <3>3. DOMAIN g = Rows(i)
      OBVIOUS
    <3> HIDE DEF g
    <3>4. /\ ex'[i].result = g /\ ex'[i].stopped = ex[i].stopped
          /\ ex'[i].status = "failed" /\ ex'[i].early = ex[i].early
      BY <1>1, <3>2 DEF ExecutionRow
    <3> QED BY <3>1, <3>3, <3>4, UncleanRow DEF Clean, Rows
  <2>2. CASE ~(i \in DOMAIN stop.pending /\ ~ex[i].gone)
    BY <1>2, <2>2, KeptRow DEF StopCommit, ResultPosts
  <2> QED BY <2>1, <2>2
<1> QED BY <1>2, <1>3, Undisturbing

-----------------------------------------------------------------------------
(* Tallies.                                                              *)

LEMMA TallyNothing ==
  ASSUME NEW r, \A c \in DOMAIN r : r[c] = "pending"
  PROVE  Tally(r, {}, [c \in {} |-> "fail"])
  BY DEF Tally

\* A post arrives.
LEMMA TallyDeliver ==
  ASSUME NEW r, NEW posts, NEW f, Tally(r, posts, f), NEW m \in posts
  PROVE  Tally(IF m.case \in DOMAIN r THEN [r EXCEPT ![m.case] = m.verdict] ELSE r, posts \ {m}, f)
<1> DEFINE s == IF m.case \in DOMAIN r THEN [r EXCEPT ![m.case] = m.verdict] ELSE r
<1>1. DOMAIN s = DOMAIN r
  OBVIOUS
<1>2. \A c \in DOMAIN r : s[c] = IF c = m.case THEN m.verdict ELSE r[c]
  OBVIOUS
<1> HIDE DEF s
<1>3. Tally(s, posts \ {m}, f)
  <2>1. ASSUME NEW c \in DOMAIN f
        PROVE  /\ \A x \in posts \ {m} : x.case = c => x.verdict = f[c]
               /\ s[c] = f[c] \/ \E x \in posts \ {m} : x.case = c
    <3>1. CASE m.case = c
      BY <1>2, <3>1 DEF Tally
    <3>2. CASE m.case # c
      BY <1>2, <3>2 DEF Tally
    <3> QED BY <3>1, <3>2
  <2>2. ASSUME NEW c \in DOMAIN s \ DOMAIN f
        PROVE  s[c] = "pending" /\ \A x \in posts \ {m} : x.case # c
    BY <1>1, <1>2 DEF Tally
  <2> QED BY <1>1, <2>1, <2>2 DEF Tally
<1> QED BY <1>3 DEF s

\* A device reports a case.
LEMMA TallyReport ==
  ASSUME NEW r, NEW posts, NEW f, Tally(r, posts, f),
         NEW c \in DOMAIN r \ DOMAIN f, NEW m, m.case = c
  PROVE  Tally(r, posts \cup {m},
               [x \in DOMAIN f \cup {c} |-> IF x = c THEN m.verdict ELSE f[x]])
<1> DEFINE g == [x \in DOMAIN f \cup {c} |-> IF x = c THEN m.verdict ELSE f[x]]
<1>1. DOMAIN g = DOMAIN f \cup {c} /\ g[c] = m.verdict /\ \A x \in DOMAIN f : x # c => g[x] = f[x]
  OBVIOUS
<1> HIDE DEF g
<1>2. Tally(r, posts \cup {m}, g)
  BY <1>1 DEF Tally
<1> QED BY <1>2 DEF g

\* A device reports all its cases as failed.
LEMMA TallyFailAll ==
  ASSUME NEW r, NEW posts, NEW f, Tally(r, posts, f), DOMAIN f = {},
         NEW ms, NEW g, DOMAIN g \subseteq DOMAIN r, \A c \in DOMAIN g : g[c] = "fail",
         \A m \in ms : m.case \in DOMAIN g /\ m.verdict = "fail",
         \A c \in DOMAIN g : \E m \in ms : m.case = c
  PROVE  Tally(r, posts \cup ms, g)
  BY DEF Tally

-----------------------------------------------------------------------------
(* Steps that leave the table alone.                                     *)

LEMMA PassiveCounts ==
  ASSUME CountInv, HeldInv', NEW d \in Devices,
         \/ ClaimSelect(d) \/ ClaimReply(d) \/ CompleteGone(d) \/ CompleteAgain(d)
  PROVE  CountInv'
<1>1. HeldInv /\ TypeInv /\ DevTyped /\ ex \in [DOMAIN ex -> ExecutionRow]
  BY RowTyped DEF CountInv, HeldInv, TypeInv, ExTyped
<1>2. UNCHANGED <<msg, req, stop>> /\ \A i : ResultPosts(i)' = ResultPosts(i)
  BY DEF ClaimSelect, ClaimReply, CompleteGone, CompleteAgain, ResultPosts
<1>3. ASSUME UNCHANGED ex, PhaseOk(d)', \A e \in Devices \ {d} : dev'[e] = dev[e] PROVE CountInv'
  <2>1. \A i \in DOMAIN ex : Undisturbed(i) /\ Continues(i)
    BY <1>2, <1>3, KeptRow
  <2> QED BY <1>2, <1>3, <2>1, Undisturbing
<1>4. CASE ClaimSelect(d)
  <2>1. dev'[d].pc = "selected" /\ UNCHANGED ex /\ \A e \in Devices \ {d} : dev'[e] = dev[e]
    BY <1>1, <1>4 DEF ClaimSelect, DevTyped
  <2>2. PhaseOk(d)'
    BY <2>1 DEF PhaseOk, Holding
  <2> QED BY <1>3, <2>1, <2>2
<1>5. CASE ClaimReply(d)
  <2>1. dev[d].ex \in DOMAIN ex /\ dev[d].pc = "claimed"
    BY <1>1, <1>5, DeviceAt DEF ClaimReply
  <2>2. PICK i \in DOMAIN ex : i = dev[d].ex
    BY <2>1
  <2> DEFINE x == [pc |-> "running", ex |-> i, specs |-> IF ex[i].gone THEN {} ELSE Shipped(i),
                   verdict |-> [c \in {} |-> "fail"], quiet |-> FALSE]
  <2>3. /\ UNCHANGED ex /\ \A e \in Devices \ {d} : dev'[e] = dev[e]
        /\ dev'[d] = IF ex[i].gone THEN Idle ELSE x
    BY <1>1, <1>5, <2>2 DEF ClaimReply, DevTyped, Shipped
  <2>4. PhaseOk(d)'
    <3>1. CASE ex[i].gone
      BY <2>3, <3>1 DEF PhaseOk, Idle, Holding
    <3>2. CASE ~ex[i].gone
      <4>1. dev'[d].pc = "running" /\ dev'[d].ex = i /\ dev'[d].specs = Shipped(i)
            /\ dev'[d].verdict = [c \in {} |-> "fail"]
        BY <2>3, <3>2
      <4>2. Clean(i)' = Clean(i) /\ Shipped(i)' = Shipped(i)
            /\ \A f : Tally(ex'[i].result, ResultPosts(i)', f) = Tallied(i, f)
        BY <1>2, <2>3 DEF Clean, Shipped, Rows, RunScoped, Tallied
      <4>3. Clean(i) => ex[i].status = "running" /\ Fresh(i)
        BY <2>1, <2>2 DEF CountInv, PhaseOk, Holding
      <4>4. Fresh(i) => Tallied(i, [c \in {} |-> "fail"])
        BY TallyNothing DEF Fresh, Tallied, Rows
      <4> QED BY <2>3, <4>1, <4>2, <4>3, <4>4 DEF PhaseOk, Tallied
    <3> QED BY <3>1, <3>2
  <2> QED BY <1>3, <2>3, <2>4
<1>6. CASE CompleteGone(d)
  <2>1. dev[d].ex \in DOMAIN ex /\ dev[d] \in Running
    BY <1>1, <1>6, DeviceAt DEF CompleteGone
  <2>2. PICK i \in DOMAIN ex : i = dev[d].ex
    BY <2>1
  <2>3. /\ UNCHANGED ex /\ \A e \in Devices \ {d} : dev'[e] = dev[e]
        /\ dev'[d] = Caught(d) /\ ex[i].gone
    BY <1>1, <1>6, <2>2 DEF CompleteGone, DevTyped
  <2>4. (dev'[d].pc \in Holding => dev'[d].ex = i) /\ ~Clean(i)'
    BY <2>1, <2>2, <2>3 DEF Caught, Idle, Holding, Running, Clean
  <2>5. PhaseOk(d)'
    BY <2>4 DEF PhaseOk
  <2> QED BY <1>3, <2>3, <2>5
<1>7. CASE CompleteAgain(d)
  <2>1. dev[d].ex \in DOMAIN ex /\ dev[d].pc = "crashed"
    BY <1>1, <1>7, DeviceAt DEF CompleteAgain
  <2>2. PICK k \in DOMAIN ex : k = dev[d].ex
    BY <2>1
  <2>3. ex[k].lost \/ ex[k].gone
    BY <1>1, <2>1, <2>2 DEF HeldInv, HoldsWell, Holding
  <2>4. PICK f : ex' = IF ex[k].gone THEN ex ELSE Completed(k, 0, f)
    BY <1>7, <2>2 DEF CompleteAgain
  <2>5. ex[k] \in ExecutionRow
    BY <1>1
  <2>6. /\ ex'[k].lost = ex[k].lost /\ ex'[k].gone = ex[k].gone /\ ex'[k].result = ex[k].result
        /\ ex'[k].stopped = ex[k].stopped /\ DOMAIN ex' = DOMAIN ex
        /\ ex'[k].status \in {ex[k].status, "done"} /\ ex'[k].early = ex[k].early
        /\ \A i \in DOMAIN ex \ {k} : ex'[i] = ex[i]
    BY <1>1, <2>4, <2>5 DEF Completed, ExecutionRow
  <2>7. \A i \in DOMAIN ex \ {k} : Undisturbed(i) /\ Continues(i)
    BY <1>2, <2>6, KeptRow
  <2>8. Undisturbed(k) /\ Continues(k)
    BY <2>3, <2>6, UncleanRow DEF Clean, Rows
  <2>9. dev'[d] = Idle /\ \A e \in Devices \ {d} : dev'[e] = dev[e]
    BY <1>1, <1>7 DEF CompleteAgain, DevTyped
  <2>10. PhaseOk(d)'
    BY <2>9 DEF PhaseOk, Idle, Holding
  <2> QED BY <1>2, <2>6, <2>7, <2>8, <2>9, <2>10, Undisturbing
<1> QED BY <1>4, <1>5, <1>6, <1>7

-----------------------------------------------------------------------------
(* Steps of a device on the execution it holds.                          *)

LEMMA OneRow ==
  ASSUME CountInv, HeldInv', NEW d \in Devices, NEW k \in DOMAIN ex, DOMAIN ex' = DOMAIN ex,
         \A i \in DOMAIN ex \ {k} : ex'[i] = ex[i] /\ ResultPosts(i)' = ResultPosts(i),
         Continues(k), RowOk(k)', PhaseOk(d)',
         \A e \in Devices \ {d} : dev'[e] = dev[e] /\ (dev[e].pc \in Holding => dev[e].ex # k),
         UNCHANGED <<req, stop>>
  PROVE  CountInv'
<1>1. \A i \in DOMAIN ex \ {k} : Undisturbed(i) /\ Continues(i)
  BY KeptRow
<1>2. ASSUME NEW e \in Devices \ {d}, dev[e].pc \in Holding
      PROVE  \E i \in DOMAIN ex : i = dev[e].ex /\ Undisturbed(i)
  <2>1. dev[e].ex \in DOMAIN ex
    BY <1>2, DeviceAt DEF CountInv, HeldInv, Holding
  <2>2. PICK i \in DOMAIN ex : i = dev[e].ex
    BY <2>1
  <2>3. i # k
    BY <1>2, <2>2
  <2> QED BY <1>1, <2>2, <2>3
<1>3. StopOk'
  BY <1>1 DEF CountInv, StopOk, Continues
<1> QED BY <1>1, <1>2, <1>3, CountFrame

\* An execution has one holder.
LEMMA OneHolder ==
  ASSUME HoldsWell, NEW d \in Devices, dev[d].pc \in Holding
  PROVE  \A e \in Devices \ {d} : dev[e].pc \in Holding => dev[e].ex # dev[d].ex
  BY DEF HoldsWell

LEMMA FlipCounts ==
  ASSUME CountInv, HeldInv', NEW d \in Devices, ClaimFlip(d)
  PROVE  CountInv'
<1>1. HeldInv /\ TypeInv /\ DevTyped /\ ex \in [DOMAIN ex -> ExecutionRow]
  BY RowTyped DEF CountInv, HeldInv, TypeInv, ExTyped
<1>2. UNCHANGED <<msg, req, stop>> /\ \A i : ResultPosts(i)' = ResultPosts(i)
  BY DEF ClaimFlip, ResultPosts
<1>3. dev[d].ex \in DOMAIN ex /\ dev[d] \in Claiming
  BY <1>1, DeviceAt DEF ClaimFlip
<1>4. PICK k \in DOMAIN ex : k = dev[d].ex
  BY <1>3
<1>5. CASE k \in Queued
  <2>1. /\ ex' = [ex EXCEPT ![k].status = "running", ![k].taker = d, ![k].early = (Rows(k) = {})]
        /\ dev' = [dev EXCEPT ![d].pc = "claimed"]
    BY <1>4, <1>5 DEF ClaimFlip
  <2>2. /\ DOMAIN ex' = DOMAIN ex /\ \A i \in DOMAIN ex \ {k} : ex'[i] = ex[i]
        /\ ex'[k].status = "running" /\ ex'[k].early = (Rows(k) = {})
        /\ ex'[k].result = ex[k].result /\ ex'[k].stopped = ex[k].stopped
        /\ ex'[k].gone = ex[k].gone /\ ex'[k].lost = ex[k].lost
    <3>1. ex[k] \in ExecutionRow
      BY <1>1
    <3>2. /\ ex'[k] = [ex[k] EXCEPT !.status = "running", !.taker = d, !.early = (Rows(k) = {})]
          /\ DOMAIN ex' = DOMAIN ex /\ \A i \in DOMAIN ex \ {k} : ex'[i] = ex[i]
      BY <1>1, <2>1
    <3> QED BY <3>1, <3>2 DEF ExecutionRow
  <2>3. dev'[d].pc = "claimed" /\ dev'[d].ex = k /\ \A e \in Devices \ {d} : dev'[e] = dev[e]
    BY <1>1, <1>3, <1>4, <2>1 DEF DevTyped, Claiming
  <2>4. ex[k].status = "queued" /\ ~ex[k].gone
    BY <1>5 DEF Queued, Here
  <2>5. \A e \in Devices : dev[e].pc \in Holding => dev[e].ex # k
    BY <1>1, <2>4 DEF HeldInv, HoldsWell
  <2>6. Clean(k)' => Rows(k) # {} /\ ~ex[k].lost /\ ~ex[k].stopped
    BY <2>2 DEF Clean
  <2>7. Clean(k)' => Clean(k)
    BY <2>4, <2>6 DEF CountInv, Clean
  <2>8. Continues(k) /\ RowOk(k)'
    BY <2>2, <2>6, <2>7 DEF Continues, RowOk, Rows
  <2>9. PhaseOk(d)'
    <3>1. Clean(k)' => Fresh(k)'
      BY <1>2, <2>2, <2>4, <2>7 DEF CountInv, RowOk, Fresh, Rows
    <3> QED BY <2>2, <2>3, <3>1 DEF PhaseOk
  <2> QED BY <1>2, <2>2, <2>3, <2>5, <2>8, <2>9, OneRow
<1>6. CASE k \notin Queued
  <2>1. UNCHANGED ex /\ dev' = [dev EXCEPT ![d] = Idle]
    BY <1>4, <1>6 DEF ClaimFlip
  <2>2. \A i \in DOMAIN ex : Undisturbed(i) /\ Continues(i)
    BY <1>2, <2>1, KeptRow
  <2>3. dev'[d] = Idle /\ \A e \in Devices \ {d} : dev'[e] = dev[e]
    BY <1>1, <2>1 DEF DevTyped
  <2>4. PhaseOk(d)'
    BY <2>3 DEF PhaseOk, Idle, Holding
  <2> QED BY <1>2, <2>1, <2>2, <2>3, <2>4, Undisturbing
<1> QED BY <1>5, <1>6

\* The refusal fails every row and counts them, then ends the execution.
LEMMA RefusalCounts ==
  ASSUME CountInv, HeldInv', NEW d \in Devices, ClaimRefused(d) \/ RefuseFinalize(d)
  PROVE  CountInv'
<1>1. HeldInv /\ TypeInv /\ DevTyped /\ ex \in [DOMAIN ex -> ExecutionRow]
  BY RowTyped DEF CountInv, HeldInv, TypeInv, ExTyped
<1>2. UNCHANGED <<msg, req, stop>> /\ \A i : ResultPosts(i)' = ResultPosts(i)
  BY DEF ClaimRefused, RefuseFinalize, ResultPosts
<1>3. dev[d].ex \in DOMAIN ex /\ dev[d] \in Claiming /\ dev[d].pc \in Holding
  BY <1>1, DeviceAt DEF ClaimRefused, RefuseFinalize, Holding
<1>4. PICK k \in DOMAIN ex : k = dev[d].ex
  BY <1>3
<1>5. ex[k] \in ExecutionRow /\ Rows(k) \subseteq Cases
  BY <1>1, RowTyped DEF TypeInv
<1>6. \A e \in Devices \ {d} : dev[e].pc \in Holding => dev[e].ex # k
  BY <1>1, <1>3, <1>4, OneHolder DEF HeldInv
<1>7. ex[k].status # "queued"
  BY <1>1, <1>3, <1>4 DEF HeldInv, HoldsWell
<1>8. CASE ClaimRefused(d)
  <2>0. PICK g : g = [c \in Rows(k) |-> "fail"]
    OBVIOUS
  <2>1. DOMAIN g = Rows(k) /\ (\A c \in Rows(k) : g[c] = "fail") /\ g \in Partial(Verdicts)
    BY <1>5, <2>0, PartialMaps DEF Verdicts
  <2>2. Count(g, "pass") = 0 /\ Count(g, "fail") = Cardinality(Rows(k))
    <3>1. {c \in DOMAIN g : g[c] = "pass"} = {} /\ {c \in DOMAIN g : g[c] = "fail"} = Rows(k)
      BY <2>1
    <3> QED BY <3>1, FS_EmptySet DEF Count
  <2>3. ex' = [ex EXCEPT ![k].result = g, ![k].passed = 0, ![k].failed = Cardinality(Rows(k))]
    BY <1>4, <1>8, <2>0 DEF ClaimRefused
  <2>4. /\ DOMAIN ex' = DOMAIN ex /\ \A i \in DOMAIN ex \ {k} : ex'[i] = ex[i]
        /\ ex'[k].result = g /\ ex'[k].passed = 0 /\ ex'[k].failed = Cardinality(Rows(k))
        /\ ex'[k].status = ex[k].status /\ ex'[k].gone = ex[k].gone /\ ex'[k].lost = ex[k].lost
        /\ ex'[k].early = ex[k].early /\ ex'[k].stopped = ex[k].stopped
        /\ ex'[k].kind = ex[k].kind
    <3>1. /\ DOMAIN ex' = DOMAIN ex /\ \A i \in DOMAIN ex \ {k} : ex'[i] = ex[i]
          /\ ex'[k] = [ex[k] EXCEPT !.result = g, !.passed = 0, !.failed = Cardinality(Rows(k))]
      BY <1>1, <2>3
    <3> QED BY <1>5, <3>1 DEF ExecutionRow
  <2>5. Rows(k)' = Rows(k) /\ Clean(k)' = Clean(k) /\ Shipped(k)' = Shipped(k)
    BY <2>1, <2>4 DEF Rows, Clean, Shipped, RunScoped
  <2>6. Clean(k) => ex[k].status = "running" /\ Fresh(k)
    BY <1>3, <1>4, <1>8 DEF CountInv, PhaseOk, ClaimRefused
  <2>7. Clean(k) => Counted(k)'
    <3>1. ASSUME Clean(k) PROVE Tallied(k, g)'
      <4>1. ResultPosts(k)' = {}
        BY <1>2, <2>6, <3>1 DEF Fresh
      <4>2. Tally(g, {}, g)
        BY DEF Tally
      <4> QED BY <2>4, <4>1, <4>2 DEF Tallied
    <3>2. Shipped(k)' \subseteq DOMAIN g
      BY <2>1, <2>5 DEF Shipped
    <3> SUFFICES ASSUME Clean(k) PROVE Counted(k)'
      OBVIOUS
    <3>3. Tallied(k, g)' /\ ex'[k].passed = Count(g, "pass") /\ ex'[k].failed = Count(g, "fail")
      BY <2>2, <2>4, <3>1
    <3> QED BY <2>1, <3>2, <3>3 DEF Counted
  <2>8. dev'[d].pc = "refusing" /\ dev'[d].ex = k /\ \A e \in Devices \ {d} : dev'[e] = dev[e]
    BY <1>1, <1>3, <1>4, <1>8 DEF ClaimRefused, DevTyped, Claiming
  <2>9. Continues(k) /\ RowOk(k)' /\ PhaseOk(d)'
    BY <1>7, <2>4, <2>5, <2>6, <2>7, <2>8 DEF Continues, RowOk, PhaseOk
  <2> QED BY <1>2, <1>6, <2>4, <2>8, <2>9, OneRow
<1>9. CASE RefuseFinalize(d)
  <2>1. ex' = IF ex[k].gone THEN ex ELSE [ex EXCEPT ![k].status = "done"]
    BY <1>4, <1>9 DEF RefuseFinalize
  <2>2. dev'[d] = Idle /\ \A e \in Devices \ {d} : dev'[e] = dev[e]
    BY <1>1, <1>9 DEF RefuseFinalize, DevTyped
  <2>3. PhaseOk(d)'
    BY <2>2 DEF PhaseOk, Idle, Holding
  <2>4. CASE ex[k].gone
    BY <1>2, <1>6, <2>1, <2>2, <2>3, <2>4, OneRow, KeptRow DEF CountInv, RowOk, Clean
  <2>5. CASE ~ex[k].gone
    <3>1. /\ DOMAIN ex' = DOMAIN ex /\ \A i \in DOMAIN ex \ {k} : ex'[i] = ex[i]
          /\ ex'[k] = [ex[k] EXCEPT !.status = "done"]
      BY <1>1, <2>1, <2>5
    <3>2. /\ ex'[k].status = "done" /\ ex'[k].result = ex[k].result
          /\ ex'[k].passed = ex[k].passed /\ ex'[k].failed = ex[k].failed
          /\ ex'[k].kind = ex[k].kind /\ ex'[k].gone = ex[k].gone /\ ex'[k].lost = ex[k].lost
          /\ ex'[k].early = ex[k].early /\ ex'[k].stopped = ex[k].stopped
      BY <1>5, <3>1 DEF ExecutionRow
    <3>3. Rows(k)' = Rows(k) /\ Clean(k)' = Clean(k) /\ Shipped(k)' = Shipped(k)
      BY <3>2 DEF Rows, Clean, Shipped, RunScoped
    <3>4. Counted(k) => Counted(k)'
      BY <1>2, <3>2, <3>3 DEF Counted, Tallied
    <3>5. Clean(k) => Counted(k)
      BY <1>3, <1>4, <1>9 DEF CountInv, PhaseOk, RefuseFinalize
    <3>6. Continues(k) /\ RowOk(k)'
      BY <1>7, <3>2, <3>3, <3>4, <3>5 DEF Continues, RowOk
    <3> QED BY <1>2, <1>6, <2>2, <2>3, <3>1, <3>6, OneRow
  <2> QED BY <2>4, <2>5
<1> QED BY <1>8, <1>9

\* A case ends, or the device fails them all: the posts carry the verdicts.
LEMMA ReportCounts ==
  ASSUME CountInv, HeldInv', NEW d \in Devices,
         (\E c \in Cases, v \in Verdicts : CaseEnds(d, c, v)) \/ CannotRun(d)
  PROVE  CountInv'
<1>1. HeldInv /\ TypeInv /\ DevTyped /\ ex \in [DOMAIN ex -> ExecutionRow]
  BY RowTyped DEF CountInv, HeldInv, TypeInv, ExTyped
<1>2. UNCHANGED <<ex, req, stop>>
  BY DEF CaseEnds, CannotRun
<1>3. dev[d].ex \in DOMAIN ex /\ dev[d] \in Running /\ dev[d].pc = "running"
  BY <1>1, DeviceAt DEF CaseEnds, CannotRun
<1>4. PICK k \in DOMAIN ex : k = dev[d].ex
  BY <1>3
<1>5. \A e \in Devices \ {d} : dev[e].pc \in Holding => dev[e].ex # k
  BY <1>1, <1>3, <1>4, OneHolder DEF HeldInv, Holding
<1>6. Rows(k)' = Rows(k) /\ Clean(k)' = Clean(k) /\ Shipped(k)' = Shipped(k) /\ Continues(k)
  BY <1>2, KeptRow DEF Rows, Clean, Shipped, RunScoped
<1>7. Clean(k) => /\ ex[k].status = "running" /\ dev[d].specs = Shipped(k)
                  /\ Tally(ex[k].result, ResultPosts(k), dev[d].verdict)
  BY <1>3, <1>4 DEF CountInv, PhaseOk, Holding, Tallied
<1>8. RowOk(k)'
  BY <1>2, <1>6, <1>7 DEF RowOk
<1>9. Shipped(k) \subseteq DOMAIN ex[k].result
  BY DEF Shipped, Rows
<1>10. CASE \E c \in Cases, v \in Verdicts : CaseEnds(d, c, v)
  <2>1. PICK c \in Cases, v \in Verdicts : CaseEnds(d, c, v)
    BY <1>10
  <2> DEFINE m == Message("result", k, c, v)
             g == [x \in DOMAIN dev[d].verdict \cup {c} |-> IF x = c THEN v ELSE dev[d].verdict[x]]
  <2>2. /\ msg' = msg \cup {m} /\ c \in dev[d].specs \ DOMAIN dev[d].verdict
        /\ dev' = [dev EXCEPT ![d] = [dev[d] EXCEPT !.verdict = g]]
    BY <1>1, <1>4, <2>1 DEF CaseEnds, DevTyped
  <2>3. m.kind = "result" /\ m.ex = k /\ m.case = c /\ m.verdict = v
    BY DEF Message
  <2>4. ASSUME Clean(k) PROVE Tally(ex[k].result, ResultPosts(k) \cup {m}, g)
    <3>1. c \in DOMAIN ex[k].result \ DOMAIN dev[d].verdict
      BY <1>7, <1>9, <2>2, <2>4
    <3>2. g = [x \in DOMAIN dev[d].verdict \cup {c} |-> IF x = c THEN m.verdict ELSE dev[d].verdict[x]]
      BY <2>3
    <3> HIDE DEF m, g
    <3> QED BY <1>7, <2>3, <2>4, <3>1, <3>2, TallyReport
  <2> HIDE DEF m, g
  <2>5. /\ ResultPosts(k)' = ResultPosts(k) \cup {m}
        /\ \A i \in DOMAIN ex \ {k} : ResultPosts(i)' = ResultPosts(i)
    BY <2>2, <2>3 DEF ResultPosts
  <2>6. /\ dev'[d].pc = "running" /\ dev'[d].ex = k /\ dev'[d].specs = dev[d].specs
        /\ dev'[d].verdict = g /\ \A e \in Devices \ {d} : dev'[e] = dev[e]
    BY <1>1, <1>3, <1>4, <2>2 DEF DevTyped, Running
  <2>7. PhaseOk(d)'
    BY <1>2, <1>6, <1>7, <2>4, <2>5, <2>6 DEF PhaseOk, Tallied
  <2> QED BY <1>2, <1>5, <1>6, <1>8, <2>5, <2>6, <2>7, OneRow
<1>11. CASE CannotRun(d)
  <2> DEFINE s == dev[d].specs
             ms == {Message("result", k, c, "fail") : c \in s}
             g == [c \in s |-> "fail"]
  <2>1. /\ msg' = msg \cup ms /\ DOMAIN dev[d].verdict = {}
        /\ dev' = [dev EXCEPT ![d] = [dev[d] EXCEPT !.verdict = g, !.quiet = TRUE]]
    BY <1>1, <1>4, <1>11 DEF CannotRun, DevTyped
  <2>2. \A m \in ms : m.kind = "result" /\ m.ex = k
    BY DEF Message
  <2>3. ASSUME Clean(k) PROVE Tally(ex[k].result, ResultPosts(k) \cup ms, g)
    <3>1. DOMAIN g \subseteq DOMAIN ex[k].result /\ \A c \in DOMAIN g : g[c] = "fail"
      BY <1>7, <1>9, <2>3
    <3>2. \A m \in ms : m.case \in DOMAIN g /\ m.verdict = "fail"
      BY DEF Message
    <3>3. ASSUME NEW c \in DOMAIN g PROVE \E m \in ms : m.case = c
      <4>1. Message("result", k, c, "fail") \in ms /\ Message("result", k, c, "fail").case = c
        BY DEF Message
      <4> QED BY <4>1
    <3> HIDE DEF ms, g
    <3> QED BY <1>7, <2>1, <2>3, <3>1, <3>2, <3>3, TallyFailAll
  <2> HIDE DEF ms, g
  <2>4. /\ ResultPosts(k)' = ResultPosts(k) \cup ms
        /\ \A i \in DOMAIN ex \ {k} : ResultPosts(i)' = ResultPosts(i)
    BY <2>1, <2>2 DEF ResultPosts
  <2>5. /\ dev'[d].pc = "running" /\ dev'[d].ex = k /\ dev'[d].specs = s
        /\ dev'[d].verdict = g /\ \A e \in Devices \ {d} : dev'[e] = dev[e]
    BY <1>1, <1>3, <1>4, <2>1 DEF DevTyped, Running
  <2>6. PhaseOk(d)'
    BY <1>2, <1>6, <1>7, <2>3, <2>4, <2>5 DEF PhaseOk, Tallied
  <2> QED BY <1>2, <1>5, <1>6, <1>8, <2>4, <2>5, <2>6, OneRow
<1> QED BY <1>10, <1>11

\* The completion carries the counts of the verdicts, for all that was shipped.
LEMMA CompletionCounts ==
  ASSUME CountInv, HeldInv', NEW d \in Devices, Complete(d)
  PROVE  CountInv'
<1>1. HeldInv /\ TypeInv /\ DevTyped /\ ex \in [DOMAIN ex -> ExecutionRow]
  BY RowTyped DEF CountInv, HeldInv, TypeInv, ExTyped
<1>2. dev[d].ex \in DOMAIN ex /\ dev[d] \in Running /\ dev[d].pc = "running"
  BY <1>1, DeviceAt DEF Complete
<1>3. PICK k \in DOMAIN ex : k = dev[d].ex
  BY <1>2
<1>4. \A e \in Devices \ {d} : dev[e].pc \in Holding => dev[e].ex # k
  BY <1>1, <1>2, <1>3, OneHolder DEF HeldInv, Holding
<1>5. PICK f : f = dev[d].verdict
  OBVIOUS
<1>6. PICK p, n : p = Count(f, "pass") /\ n = Count(f, "fail")
  OBVIOUS
<1>7. /\ ex' = Completed(k, p, n) /\ UNCHANGED <<req, stop>>
      /\ DOMAIN f = dev[d].specs /\ f \in Partial(Verdicts)
      /\ msg' \subseteq msg \cup Uploads(d) /\ msg \subseteq msg'
  BY <1>2, <1>3, <1>5, <1>6 DEF Complete, Running
<1>8. \A i : ResultPosts(i)' = ResultPosts(i)
  <2>1. \A m \in Uploads(d) : m.kind = "evidence"
    BY DEF Uploads, Message
  <2> QED BY <1>7, <2>1 DEF ResultPosts
<1>9. /\ DOMAIN ex' = DOMAIN ex /\ \A i \in DOMAIN ex \ {k} : ex'[i] = ex[i]
      /\ ex'[k].status = "done" /\ ex'[k].result = ex[k].result
      /\ ex'[k].passed = p /\ ex'[k].failed = n
      /\ ex'[k].kind = ex[k].kind /\ ex'[k].gone = ex[k].gone /\ ex'[k].lost = ex[k].lost
      /\ ex'[k].early = ex[k].early /\ ex'[k].stopped = ex[k].stopped
  <2>1. ex[k] \in ExecutionRow
    BY <1>1
  <2>2. /\ DOMAIN ex' = DOMAIN ex /\ \A i \in DOMAIN ex \ {k} : ex'[i] = ex[i]
        /\ ex'[k] = [ex[k] EXCEPT !.passed = p, !.failed = n, !.status = "done"]
    BY <1>1, <1>7 DEF Completed
  <2> QED BY <2>1, <2>2 DEF ExecutionRow
<1>10. Rows(k)' = Rows(k) /\ Clean(k)' = Clean(k) /\ Shipped(k)' = Shipped(k)
  BY <1>9 DEF Rows, Clean, Shipped, RunScoped
<1>11. Clean(k) => Tallied(k, f) /\ Shipped(k) = DOMAIN f
  BY <1>2, <1>3, <1>5, <1>7 DEF CountInv, PhaseOk, Holding
<1>12. Clean(k) => Counted(k)'
  BY <1>6, <1>7, <1>8, <1>9, <1>10, <1>11 DEF Counted, Tallied
<1>13. ex[k].status # "queued"
  BY <1>1, <1>2, <1>3 DEF HeldInv, HoldsWell, Holding
<1>14. Continues(k) /\ RowOk(k)'
  BY <1>9, <1>10, <1>12, <1>13 DEF Continues, RowOk
<1>15. dev'[d] = Idle /\ \A e \in Devices \ {d} : dev'[e] = dev[e]
  BY <1>1 DEF Complete, DevTyped
<1>16. PhaseOk(d)'
  BY <1>15 DEF PhaseOk, Idle, Holding
<1> QED BY <1>4, <1>7, <1>8, <1>9, <1>14, <1>15, <1>16, OneRow

\* A result reaches its row, or evidence its place.
LEMMA ArrivalCounts ==
  ASSUME CountInv, HeldInv', NEW m \in msg, Arrive(m)
  PROVE  CountInv'
<1>1. HeldInv /\ TypeInv /\ DevTyped /\ ex \in [DOMAIN ex -> ExecutionRow]
  BY RowTyped DEF CountInv, HeldInv, TypeInv, ExTyped
<1>2. PICK k \in DOMAIN ex : k = m.ex
  BY <1>1 DEF TypeInv, Posts
<1>3. UNCHANGED <<req, stop, dev>> /\ msg' = msg \ {m}
  BY DEF Arrive, ResultArrives, EvidenceArrives
<1>4. CASE EvidenceArrives(m)
  <2>1. UNCHANGED ex /\ \A i : ResultPosts(i)' = ResultPosts(i)
    BY <1>3, <1>4 DEF EvidenceArrives, ResultPosts
  <2>2. \A i \in DOMAIN ex : Undisturbed(i) /\ Continues(i)
    BY <2>1, KeptRow
  <2> QED BY <1>3, <2>1, <2>2, Undisturbing
<1>5. CASE ResultArrives(m)
  <2>1. ex' = IF ex[k].gone \/ m.case \notin Rows(k) THEN ex
              ELSE [ex EXCEPT ![k].result[m.case] = m.verdict]
    BY <1>2, <1>5 DEF ResultArrives
  <2>2. /\ m \in ResultPosts(k) /\ ResultPosts(k)' = ResultPosts(k) \ {m}
        /\ \A i \in DOMAIN ex \ {k} : ResultPosts(i)' = ResultPosts(i)
    BY <1>2, <1>3, <1>5 DEF ResultPosts, ResultArrives
  <2> DEFINE r == IF m.case \in Rows(k) THEN [ex[k].result EXCEPT ![m.case] = m.verdict]
                  ELSE ex[k].result
  <2>3. /\ DOMAIN ex' = DOMAIN ex /\ \A i \in DOMAIN ex \ {k} : ex'[i] = ex[i]
        /\ ~ex[k].gone => ex'[k] = [ex[k] EXCEPT !.result = r]
        /\ ex[k].gone => ex'[k] = ex[k]
    <3>1. ex[k] = [ex[k] EXCEPT !.result = ex[k].result]
      <4>1. ex[k] \in ExecutionRow
        BY <1>1
      <4> QED BY <4>1 DEF ExecutionRow
    <3> QED BY <1>1, <2>1, <3>1
  <2>4. DOMAIN r = Rows(k)
    BY DEF Rows
  <2>5. \A f : Tallied(k, f) => Tally(r, ResultPosts(k) \ {m}, f)
    BY <2>2, TallyDeliver DEF Tallied, Rows
  <2> HIDE DEF r
  <2>6. /\ ex'[k].status = ex[k].status /\ ex'[k].passed = ex[k].passed
        /\ ex'[k].failed = ex[k].failed /\ ex'[k].kind = ex[k].kind /\ ex'[k].gone = ex[k].gone
        /\ ex'[k].lost = ex[k].lost /\ ex'[k].early = ex[k].early
        /\ ex'[k].stopped = ex[k].stopped /\ Rows(k)' = Rows(k)
        /\ ~ex[k].gone => ex'[k].result = r
    <3>1. ex[k] \in ExecutionRow
      BY <1>1
    <3> QED BY <2>3, <2>4, <3>1 DEF ExecutionRow, Rows
  <2>7. Clean(k)' = Clean(k) /\ Shipped(k)' = Shipped(k) /\ Continues(k)
    BY <2>6 DEF Clean, Shipped, RunScoped, Continues
  <2>8. ASSUME Clean(k), NEW f, Tallied(k, f) PROVE Tallied(k, f)'
    BY <2>2, <2>5, <2>6, <2>8 DEF Tallied, Clean
  <2>9. Clean(k) /\ Counted(k) => Counted(k)'
    BY <2>6, <2>7, <2>8 DEF Counted
  <2>10. ~Fresh(k)
    BY <2>2 DEF Fresh
  <2>11. RowOk(k)'
    BY <2>6, <2>7, <2>9, <2>10 DEF CountInv, RowOk
  <2>12. ASSUME NEW d \in Devices, dev[d].pc \in Holding, dev[d].ex = k PROVE PhaseOk(d)'
    <3>1. dev'[d] = dev[d] /\ dev'[d].ex = k
      BY <1>3, <2>12
    <3>2. ASSUME Clean(k)
          PROVE  /\ ex'[k].status = "running" /\ dev[d].pc # "claimed"
                 /\ dev[d].pc = "refusing" => Counted(k)'
                 /\ dev[d].pc = "running" => /\ dev[d].specs = Shipped(k)'
                                             /\ Tally(ex'[k].result, ResultPosts(k)', dev[d].verdict)
      <4>1. /\ ex[k].status = "running" /\ dev[d].pc # "claimed"
            /\ dev[d].pc = "refusing" => Counted(k)
            /\ dev[d].pc = "running" => dev[d].specs = Shipped(k) /\ Tallied(k, dev[d].verdict)
        BY <2>10, <2>12, <3>2 DEF CountInv, PhaseOk
      <4> QED BY <2>2, <2>5, <2>6, <2>7, <2>9, <3>2, <4>1 DEF Clean
    <3> QED BY <2>7, <3>1, <3>2 DEF PhaseOk, Tallied
  <2>13. \A i \in DOMAIN ex \ {k} : Undisturbed(i) /\ Continues(i)
    BY <2>2, <2>3, KeptRow
  <2>14. ASSUME NEW d \in Devices, dev[d].pc \in Holding
         PROVE  PhaseOk(d)' \/ \E i \in DOMAIN ex : i = dev[d].ex /\ Undisturbed(i)
    <3>1. dev[d].ex \in DOMAIN ex
      BY <1>1, <2>14, DeviceAt DEF Holding
    <3>2. PICK i \in DOMAIN ex : i = dev[d].ex
      BY <3>1
    <3> QED BY <2>12, <2>13, <2>14, <3>2
  <2>15. StopOk'
    BY <1>3, <2>3, <2>7, <2>13 DEF CountInv, StopOk, Continues
  <2> QED BY <1>3, <2>3, <2>7, <2>11, <2>13, <2>14, <2>15, CountFrame
<1> QED BY <1>4, <1>5 DEF Arrive

-----------------------------------------------------------------------------
(* Creation.                                                             *)

\* The rows of t are those of the table, some of them deleted.
Retired(t) == \A i \in DOMAIN ex : t[i] = ex[i] \/ t[i] = [ex[i] EXCEPT !.gone = TRUE]

\* Requests go on as they were, but for one that has made the execution n.
Asked(n, cs) ==
  \A q \in Requests : \/ req'[q] = req[q] \/ req'[q].pc \in {"idle", "alone"}
                      \/ /\ req'[q] = [pc |-> "pruned", id |-> n] /\ cs = {}
                         /\ \A p \in Requests \ {q} : req'[p] = req[p]

\* A row is appended, and others may be deleted.
LEMMA AppendCounts ==
  ASSUME CountInv, HeldInv', NEW kind \in Kinds, NEW cs \in SUBSET Cases,
         NEW t \in [DOMAIN ex -> ExecutionRow], NEW n, n = Len(ex) + 1,
         ex' = Append(t, Execution(kind, Pending(cs))), Retired(t), Asked(n, cs),
         UNCHANGED <<stop, dev, msg>>, Bounded
  PROVE  CountInv'
<1> DEFINE x == Execution(kind, Pending(cs))
<1>1. /\ x.status = "queued" /\ x.early = FALSE /\ x.result = Pending(cs) /\ x \in ExecutionRow
  BY NewRow DEF Execution
<1> HIDE DEF x
<1>2. DOMAIN ex = 1 .. Len(ex) /\ Len(ex) \in Nat /\ TypeInv
  BY DEF CountInv, HeldInv, TypeInv, ExTyped
<1>3. t \in Seq(ExecutionRow) /\ Len(t) = Len(ex)
  <2>1. t \in Seq(ExecutionRow)
    BY <1>2, SeqDef
  <2> QED BY <1>2, <2>1
<1>4. ex' = Append(t, x)
  BY DEF x
<1>5. /\ DOMAIN ex' = DOMAIN ex \cup {n} /\ n \notin DOMAIN ex
      /\ ex'[n] = x /\ \A i \in DOMAIN ex : ex'[i] = t[i]
  <2>1. /\ Len(Append(t, x)) = Len(t) + 1 /\ DOMAIN Append(t, x) = 1 .. Len(t) + 1
        /\ Append(t, x)[Len(t) + 1] = x /\ \A i \in 1 .. Len(t) : Append(t, x)[i] = t[i]
    BY <1>1, <1>3, AppendProperties
  <2> QED BY <1>2, <1>3, <1>4, <2>1
<1>6. \A i : ResultPosts(i)' = ResultPosts(i)
  BY DEF ResultPosts
<1>7. ASSUME NEW i \in DOMAIN ex PROVE Undisturbed(i) /\ Continues(i)
  <2>1. CASE ex'[i] = ex[i]
    BY <1>6, <2>1, KeptRow
  <2>2. CASE ex'[i] = [ex[i] EXCEPT !.gone = TRUE]
    <3>1. ex[i] \in ExecutionRow
      BY <1>2, RowTyped DEF TypeInv
    <3>2. /\ ex'[i].gone /\ ex'[i].result = ex[i].result /\ ex'[i].stopped = ex[i].stopped
          /\ ex'[i].status = ex[i].status /\ ex'[i].early = ex[i].early
      BY <2>2, <3>1 DEF ExecutionRow
    <3> QED BY <3>2, UncleanRow DEF Clean, Rows
  <2> QED BY <1>5, <2>1, <2>2 DEF Retired
<1>8. RowOk(n)'
  <2>1. ResultPosts(n) = {}
    BY <1>2, <1>5 DEF TypeInv, Posts, ResultPosts
  <2>2. Fresh(n)'
    BY <1>1, <1>5, <1>6, <2>1 DEF Fresh, Rows, Pending
  <2> QED BY <1>1, <1>5, <2>2 DEF RowOk
<1>9. \A i \in DOMAIN ex' : RowOk(i)'
  BY <1>5, <1>7, <1>8, FrameRow DEF CountInv
<1>10. ASSUME NEW d \in Devices PROVE PhaseOk(d)'
  <2>1. CASE dev[d].pc \notin Holding
    BY <2>1 DEF PhaseOk
  <2>2. CASE dev[d].pc \in Holding
    <3>1. dev[d].ex \in DOMAIN ex
      BY <1>2, <2>2, DeviceAt DEF Holding
    <3>2. PICK i \in DOMAIN ex : i = dev[d].ex
      BY <3>1
    <3> QED BY <1>7, <3>2, FramePhase DEF CountInv
  <2> QED BY <2>1, <2>2
<1>11. ASSUME NEW q \in Requests PROVE ReqOk(q)'
  <2>1. \A p \in Requests : req[p].pc = "pruned" => req[p].id \in DOMAIN ex
    BY <1>2 DEF TypeInv, ReqTyped, Idle
  <2>2. CASE req'[q] = req[q]
    <3>1. SUFFICES ASSUME req[q].pc = "pruned"
                   PROVE  /\ Rows(req[q].id)' = {}
                          /\ Clean(req[q].id)' => ex'[req[q].id].status = "queued"
                          /\ \A p \in Requests \ {q} : req'[p].pc = "pruned" => req'[p].id # req[q].id
      BY <2>2 DEF ReqOk, Rows, Clean
    <3>2. PICK i \in DOMAIN ex : i = req[q].id
      BY <2>1, <3>1
    <3>3. Rows(i) = {} /\ (Clean(i) => ex[i].status = "queued")
      BY <3>1, <3>2 DEF CountInv, ReqOk
    <3>4. Rows(i)' = {} /\ (Clean(i)' => ex'[i].status = "queued")
      BY <1>7, <3>3 DEF Continues
    <3>5. \A p \in Requests \ {q} : req'[p].pc = "pruned" => req'[p].id # i
      BY <1>5, <3>1, <3>2 DEF CountInv, ReqOk, Asked
    <3> QED BY <2>2, <3>2, <3>4, <3>5 DEF Rows, Clean
  <2>3. CASE req'[q].pc \in {"idle", "alone"}
    BY <2>3 DEF ReqOk
  <2>4. CASE /\ req'[q] = [pc |-> "pruned", id |-> n] /\ cs = {}
             /\ \A p \in Requests \ {q} : req'[p] = req[p]
    <3>1. Rows(n)' = {} /\ ex'[n].status = "queued"
      BY <1>1, <1>5, <2>4 DEF Rows, Pending
    <3>2. \A p \in Requests \ {q} : req'[p].pc = "pruned" => req'[p].id # n
      BY <1>5, <2>1, <2>4
    <3>3. req'[q].id = n
      BY <2>4
    <3> QED BY <3>1, <3>2, <3>3 DEF ReqOk, Rows
  <2> QED BY <2>2, <2>3, <2>4 DEF Asked
<1>12. StopOk'
  BY <1>5, <1>7 DEF CountInv, StopOk, Continues
<1>13. \A i \in DOMAIN ex' : ex'[i].status = "queued" => ~ex'[i].early
  BY <1>1, <1>5, <1>7 DEF CountInv, Continues
<1> QED BY <1>9, <1>10, <1>11, <1>12, <1>13 DEF CountInv

\* The result rows of a suite come second.
LEMMA PrunedCounts ==
  ASSUME CountInv, HeldInv', NEW q \in Requests, req[q].pc = "pruned", StartCommit(q)
  PROVE  CountInv'
<1>1. HeldInv /\ TypeInv /\ ex \in [DOMAIN ex -> ExecutionRow]
  BY RowTyped DEF CountInv, HeldInv, TypeInv, ExTyped
<1>2. req[q].id \in DOMAIN ex
  BY <1>1 DEF TypeInv, ReqTyped, Idle
<1>3. PICK k \in DOMAIN ex : k = req[q].id
  BY <1>2
<1>4. /\ ex' = IF ex[k].gone THEN ex ELSE [ex EXCEPT ![k].result = Pending(Cases)]
      /\ UNCHANGED <<stop, dev, msg>> /\ \A i : ResultPosts(i)' = ResultPosts(i)
  BY <1>3 DEF StartCommit, ResultPosts
<1>5. /\ DOMAIN ex' = DOMAIN ex /\ \A i \in DOMAIN ex \ {k} : ex'[i] = ex[i]
      /\ ex'[k].status = ex[k].status /\ ex'[k].gone = ex[k].gone
      /\ ex'[k].lost = ex[k].lost /\ ex'[k].early = ex[k].early /\ ex'[k].stopped = ex[k].stopped
      /\ ~ex[k].gone => ex'[k].result = Pending(Cases)
  <2>1. ex[k] \in ExecutionRow
    BY <1>1
  <2>2. /\ DOMAIN ex' = DOMAIN ex /\ \A i \in DOMAIN ex \ {k} : ex'[i] = ex[i]
        /\ ~ex[k].gone => ex'[k] = [ex[k] EXCEPT !.result = Pending(Cases)]
        /\ ex[k].gone => ex'[k] = ex[k]
    BY <1>1, <1>4
  <2> QED BY <2>1, <2>2 DEF ExecutionRow
<1>6. \A i \in DOMAIN ex \ {k} : Undisturbed(i) /\ Continues(i)
  BY <1>4, <1>5, KeptRow
<1>7. Clean(k)' = Clean(k)
  BY <1>5 DEF Clean
<1>8. Clean(k) => ex[k].status = "queued"
  BY <1>3 DEF CountInv, ReqOk
<1>9. RowOk(k)'
  <2>1. Clean(k) => ResultPosts(k) = {}
    BY <1>8 DEF CountInv, RowOk, Fresh
  <2>2. Clean(k) => Fresh(k)'
    BY <1>4, <1>5, <2>1 DEF Fresh, Rows, Clean, Pending
  <2> QED BY <1>5, <1>7, <1>8, <2>2 DEF RowOk
<1>10. ASSUME NEW d \in Devices PROVE PhaseOk(d)'
  <2>1. CASE dev[d].pc \notin Holding
    BY <1>4, <2>1 DEF PhaseOk
  <2>2. CASE dev[d].pc \in Holding /\ dev[d].ex = k
    <3>1. ex[k].status # "queued"
      BY <1>1, <2>2 DEF HeldInv, HoldsWell
    <3>2. ~Clean(k)'
      BY <1>7, <1>8, <3>1
    <3>3. dev'[d].ex = k
      BY <1>4, <2>2
    <3> QED BY <3>2, <3>3 DEF PhaseOk
  <2>3. CASE dev[d].pc \in Holding /\ dev[d].ex # k
    <3>1. dev[d].ex \in DOMAIN ex
      BY <1>1, <2>3, DeviceAt DEF Holding
    <3>2. PICK i \in DOMAIN ex \ {k} : i = dev[d].ex
      BY <2>3, <3>1
    <3> QED BY <1>4, <1>6, <3>2, FramePhase DEF CountInv
  <2> QED BY <2>1, <2>2, <2>3
<1>11. req' = [req EXCEPT ![q] = Idle] /\ req \in [Requests -> {Idle, [pc |-> "alone"]}
                                                  \cup [pc : {"pruned"}, id : DOMAIN ex]]
  BY <1>1 DEF StartCommit, TypeInv, ReqTyped
<1>12. ASSUME NEW p \in Requests PROVE ReqOk(p)'
  <2>1. CASE p = q
    BY <1>11, <2>1 DEF ReqOk, Idle
  <2>2. CASE p # q
    <3>1. SUFFICES ASSUME req[p].pc = "pruned"
                   PROVE  /\ Rows(req[p].id)' = {}
                          /\ Clean(req[p].id)' => ex'[req[p].id].status = "queued"
                          /\ \A o \in Requests \ {p} : req'[o].pc = "pruned" => req'[o].id # req[p].id
      BY <1>11, <2>2 DEF ReqOk, Rows, Clean
    <3>2. req[p].id \in DOMAIN ex
      BY <1>11, <3>1 DEF Idle
    <3>3. req[p].id # k
      BY <1>3, <2>2, <3>1 DEF CountInv, ReqOk
    <3>4. PICK i \in DOMAIN ex \ {k} : i = req[p].id
      BY <3>2, <3>3
    <3>5. Rows(i)' = {} /\ (Clean(i)' => ex'[i].status = "queued")
      BY <1>6, <3>1, <3>4 DEF CountInv, ReqOk, Continues, Undisturbed
    <3>6. \A o \in Requests \ {p} : req'[o].pc = "pruned" => req'[o].id # i
      BY <1>11, <3>1, <3>4 DEF CountInv, ReqOk, Idle
    <3>7. req'[p] = req[p]
      BY <1>11, <2>2
    <3> QED BY <3>4, <3>5, <3>6, <3>7 DEF Rows, Clean
  <2> QED BY <2>1, <2>2
<1>13. \A i \in DOMAIN ex' : RowOk(i)'
  BY <1>5, <1>6, <1>9, FrameRow DEF CountInv
<1>14. StopOk' /\ \A i \in DOMAIN ex' : ex'[i].status = "queued" => ~ex'[i].early
  <2>1. \A i \in DOMAIN ex : ex[i].stopped => ex'[i].stopped
    BY <1>5, <1>6 DEF Continues
  <2>2. \A i \in DOMAIN ex : ex'[i].status = "queued" => ex[i].status = "queued" /\ ex'[i].early = ex[i].early
    BY <1>5, <1>6 DEF Continues
  <2> QED BY <1>4, <1>5, <2>1, <2>2 DEF CountInv, StopOk
<1> QED BY <1>10, <1>12, <1>13, <1>14 DEF CountInv

\* A start that supersedes nothing only moves on.
LEMMA AloneCounts ==
  ASSUME CountInv, HeldInv', NEW q \in Requests,
         req' = [req EXCEPT ![q] = [pc |-> "alone"]], UNCHANGED <<ex, stop, dev, msg>>
  PROVE  CountInv'
<1>1. \A i : ResultPosts(i)' = ResultPosts(i)
  BY DEF ResultPosts
<1>2. \A i \in DOMAIN ex : Undisturbed(i) /\ Continues(i)
  BY <1>1, KeptRow
<1>3. \A i \in DOMAIN ex' : RowOk(i)'
  BY <1>2, FrameRow DEF CountInv
<1>4. ASSUME NEW d \in Devices PROVE PhaseOk(d)'
  <2>1. CASE dev[d].pc \notin Holding
    BY <2>1 DEF PhaseOk
  <2>2. CASE dev[d].pc \in Holding
    <3>1. PICK i \in DOMAIN ex : i = dev[d].ex
      BY <2>2, DeviceAt DEF CountInv, HeldInv, Holding
    <3> QED BY <1>2, <3>1, FramePhase DEF CountInv
  <2> QED BY <2>1, <2>2
<1>5. ASSUME NEW p \in Requests PROVE ReqOk(p)'
  <2>1. \A o \in Requests : req'[o] = req[o] \/ req'[o].pc = "alone"
    BY DEF CountInv, HeldInv, TypeInv, ReqTyped
  <2>2. CASE req'[p] = req[p]
    <3>1. SUFFICES ASSUME req[p].pc = "pruned"
                   PROVE  /\ Rows(req[p].id)' = {}
                          /\ Clean(req[p].id)' => ex'[req[p].id].status = "queued"
                          /\ \A o \in Requests \ {p} : req'[o].pc = "pruned" => req'[o].id # req[p].id
      BY <2>2 DEF ReqOk, Rows, Clean
    <3>2. PICK i : i = req[p].id
      OBVIOUS
    <3>3. Rows(i)' = {} /\ (Clean(i)' => ex'[i].status = "queued")
      BY <3>1, <3>2 DEF CountInv, ReqOk, Rows, Clean
    <3>4. \A o \in Requests \ {p} : req'[o].pc = "pruned" => req'[o].id # i
      BY <2>1, <3>1, <3>2 DEF CountInv, ReqOk
    <3> QED BY <2>2, <3>2, <3>3, <3>4 DEF Rows, Clean
  <2>3. CASE req'[p].pc = "alone"
    BY <2>3 DEF ReqOk
  <2> QED BY <2>1, <2>2, <2>3
<1>6. StopOk' /\ \A i \in DOMAIN ex' : ex'[i].status = "queued" => ~ex'[i].early
  BY DEF CountInv, StopOk
<1> QED BY <1>3, <1>4, <1>5, <1>6 DEF CountInv

LEMMA CreationCounts ==
  ASSUME CountInv, HeldInv', Bounded, Create
  PROVE  CountInv'
<1>1. TypeInv /\ ex \in [DOMAIN ex -> ExecutionRow]
  BY RowTyped DEF CountInv, HeldInv, TypeInv, ExTyped
<1>2. PICK n : n = Len(ex) + 1
  OBVIOUS
<1>3. ASSUME NEW q \in Requests, StartInsert(q) PROVE CountInv'
  <2> DEFINE old == {i \in Here : RunScoped(i)}
             t == [i \in DOMAIN ex |-> IF i \in old THEN [ex[i] EXCEPT !.gone = TRUE] ELSE ex[i]]
  <2>1. CASE old = {}
    <3>1. /\ req' = [req EXCEPT ![q] = [pc |-> "alone"]] /\ UNCHANGED <<ex, stop, dev, msg>>
      BY <1>3, <2>1 DEF StartInsert
    <3> QED BY <3>1, AloneCounts
  <2>2. CASE old # {}
    <3>1. /\ ex' = Append(t, Execution("suite", Pending({})))
          /\ req' = [req EXCEPT ![q] = [pc |-> "pruned", id |-> n]]
          /\ UNCHANGED <<stop, dev, msg>>
      BY <1>2, <1>3, <2>2 DEF StartInsert
    <3>2. t \in [DOMAIN ex -> ExecutionRow]
      BY <1>1 DEF ExecutionRow
    <3>3. \A i \in DOMAIN ex : t[i] = ex[i] \/ t[i] = [ex[i] EXCEPT !.gone = TRUE]
      OBVIOUS
    <3>4. /\ req'[q] = [pc |-> "pruned", id |-> n]
          /\ \A p \in Requests \ {q} : req'[p] = req[p]
      BY <1>1, <3>1 DEF TypeInv, ReqTyped
    <3>5. "suite" \in Kinds /\ {} \in SUBSET Cases
      BY DEF Kinds
    <3>6. \A p \in Requests :
            \/ req'[p] = req[p] \/ req'[p].pc \in {"idle", "alone"}
            \/ /\ req'[p] = [pc |-> "pruned", id |-> n] /\ {} = {}
               /\ \A o \in Requests \ {p} : req'[o] = req[o]
      BY <3>4
    <3> HIDE DEF t, old
    <3>7. PICK u \in [DOMAIN ex -> ExecutionRow] : u = t
      BY <3>2
    <3>8. PICK cs \in SUBSET Cases : cs = {}
      OBVIOUS
    <3>9. ex' = Append(u, Execution("suite", Pending(cs))) /\ Retired(u) /\ Asked(n, cs)
      BY <3>1, <3>3, <3>6, <3>7, <3>8 DEF Retired, Asked
    <3> QED BY <1>2, <3>1, <3>5, <3>9, AppendCounts
  <2> QED BY <2>1, <2>2
<1>4. ASSUME NEW kind \in Kinds, NEW cs \in SUBSET Cases,
             ex' = Append(ex, Execution(kind, Pending(cs))), UNCHANGED <<stop, dev, msg>>,
             \A p \in Requests : req'[p] = req[p] \/ req'[p].pc \in {"idle", "alone"}
      PROVE  CountInv'
  <2>1. PICK t \in [DOMAIN ex -> ExecutionRow] : t = ex
    BY <1>1
  <2>2. Retired(t) /\ Asked(n, cs) /\ ex' = Append(t, Execution(kind, Pending(cs)))
    BY <1>4, <2>1 DEF Retired, Asked
  <2> QED BY <1>2, <1>4, <2>2, AppendCounts
<1>5. ASSUME NEW q \in Requests, StartCommit(q) PROVE CountInv'
  <2>1. CASE req[q].pc = "pruned"
    BY <1>5, <2>1, PrunedCounts
  <2>2. CASE req[q].pc = "alone"
    <3>1. /\ ex' = Append(ex, Execution("suite", Pending(Cases))) /\ UNCHANGED <<stop, dev, msg>>
          /\ req' = [req EXCEPT ![q] = Idle]
      BY <1>5, <2>2 DEF StartCommit
    <3>2. \A p \in Requests : req'[p] = req[p] \/ req'[p].pc \in {"idle", "alone"}
      BY <1>1, <3>1 DEF TypeInv, ReqTyped, Idle
    <3>3. "suite" \in Kinds /\ Cases \in SUBSET Cases
      BY DEF Kinds
    <3> QED BY <1>4, <3>1, <3>2, <3>3
  <2> QED BY <1>5, <2>1, <2>2 DEF StartCommit
<1>6. ASSUME NEW c \in Cases, CreateOne(c) PROVE CountInv'
  <2>1. "single" \in Kinds /\ {c} \in SUBSET Cases
    BY DEF Kinds
  <2> QED BY <1>4, <1>6, <2>1 DEF CreateOne
<1>7. ASSUME CreateProject PROVE CountInv'
  <2>1. "project" \in Kinds /\ Cases \in SUBSET Cases
    BY DEF Kinds
  <2> QED BY <1>4, <1>7, <2>1 DEF CreateProject
<1> QED BY <1>3, <1>5, <1>6, <1>7 DEF Create

-----------------------------------------------------------------------------
(* The theorem.                                                          *)

LEMMA CountPreserved ==
  ASSUME CountInv, Bounded, [Next]_vars
  PROVE  CountInv'
<1>1. HeldInv'
  BY HeldPreserved DEF CountInv
<1>2. CASE Step
  <2>1. ASSUME NEW d \in Devices, Claim(d) PROVE CountInv'
    BY <1>1, <2>1, PassiveCounts, FlipCounts, RefusalCounts DEF Claim
  <2>2. ASSUME NEW d \in Devices, Work(d) PROVE CountInv'
    BY <1>1, <2>2, ReportCounts, CompletionCounts, PassiveCounts DEF Work
  <2> QED BY <1>1, <1>2, <2>1, <2>2, CreationCounts, StopCommitCounts, ArrivalCounts DEF Step
<1>3. CASE Fault
  BY <1>1, <1>3, FaultCounts
<1>4. CASE UNCHANGED vars
  <2>1. UNCHANGED <<ex, req, stop, dev, msg>>
    BY <1>4 DEF vars
  <2>2. \A i \in DOMAIN ex : Undisturbed(i) /\ Continues(i)
    BY <2>1, KeptRow DEF ResultPosts
  <2> QED BY <1>1, <2>1, <2>2, Undisturbing
<1> QED BY <1>2, <1>3, <1>4 DEF Next

\* Of an execution that is done and quiet, the rows are the verdicts counted.
LEMMA CountsFollow ==
  ASSUME CountInv
  PROVE  CountsMatchRows
<1> SUFFICES ASSUME NEW i \in Here, ex[i].status = "done", Quiet(i)
             PROVE  /\ ex[i].passed = Count(ex[i].result, "pass")
                    /\ ex[i].failed = Count(ex[i].result, "fail")
                    /\ \A c \in Rows(i) : ex[i].result[c] = "pending" => c \in NoSpec /\ RunScoped(i)
  BY DEF CountsMatchRows
<1>1. Clean(i) /\ i \in DOMAIN ex /\ ResultPosts(i) = {}
  BY DEF Quiet, Clean, Here, ResultPosts
<1>2. PICK f \in Partial(Verdicts) :
        /\ Tallied(i, f) /\ Shipped(i) \subseteq DOMAIN f
        /\ ex[i].passed = Count(f, "pass") /\ ex[i].failed = Count(f, "fail")
  BY <1>1 DEF CountInv, RowOk, Counted
<1>3. DOMAIN f \subseteq Rows(i) /\ \A c \in Rows(i) :
        ex[i].result[c] = IF c \in DOMAIN f THEN f[c] ELSE "pending"
  BY <1>1, <1>2 DEF Tallied, Tally, Rows
<1>4. ASSUME NEW v \in Verdicts PROVE Count(ex[i].result, v) = Count(f, v)
  <2>1. {c \in DOMAIN ex[i].result : ex[i].result[c] = v} = {c \in DOMAIN f : f[c] = v}
    BY <1>3 DEF Rows, Verdicts
  <2> QED BY <2>1 DEF Count
<1>5. \A c \in DOMAIN f : f[c] \in Verdicts
  BY PartialMaps
<1>6. \A c \in Rows(i) : ex[i].result[c] = "pending" => c \in NoSpec /\ RunScoped(i)
  BY <1>2, <1>3, <1>5 DEF Shipped, Verdicts
<1> QED BY <1>2, <1>4, <1>6 DEF Verdicts

\* The counts of a finished execution are those of its rows, and only a case that
\* had no spec to ship is left pending, once every post has arrived and unless one
\* was lost, a stop met it or it was claimed before it had rows: complete_job and
\* push_job_result write the same verdicts, in whatever order they come.
THEOREM CountsMatch == ASSUME Bounded PROVE Spec => []CountsMatchRows
<1>1. Init => CountInv
  <2> SUFFICES ASSUME Init PROVE CountInv
    OBVIOUS
  <2>1. HeldInv
    BY InitTyped DEF HeldInv, Init, HoldsWell, RunningIsHeld, Here, Idle, Holding
  <2>2. DOMAIN ex = {} /\ stop = Idle /\ \A d \in Devices : dev[d] = Idle
    BY DEF Init
  <2>3. \A q \in Requests : req[q] = Idle
    BY DEF Init
  <2> QED BY <2>1, <2>2, <2>3 DEF CountInv, PhaseOk, ReqOk, StopOk, Idle, Holding
<1>2. CountInv /\ [Next]_vars => CountInv'
  BY CountPreserved
<1>3. CountInv => CountsMatchRows
  BY CountsFollow
<1> QED BY <1>1, <1>2, <1>3, PTL DEF Spec
=============================================================================
