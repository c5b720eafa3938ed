---------------------------- MODULE OneShotOffer ----------------------------
(***************************************************************************)
(* What a one-shot job queue of the API promises the devices that poll it: *)
(* a job is offered once, at most one device takes it, only while it is on *)
(* offer, and a job that is over is neither offered nor taken again.       *)
(* The API may close jobs at any time, several at once, and offers a new   *)
(* job together with closing the ones it replaces.                         *)
(***************************************************************************)
CONSTANTS Jobs, Takers, NoTaker

VARIABLES job, taker
vars == <<job, taker>>

TypeOK == /\ job \in [Jobs -> {"unused", "open", "taken", "over"}]
          /\ taker \in [Jobs -> Takers \cup {NoTaker}]

Init == /\ job = [j \in Jobs |-> "unused"]
        /\ taker = [j \in Jobs |-> NoTaker]

Closable == {j \in Jobs : job[j] \in {"open", "taken"}}

\* The jobs of old are closed and the job j is put on offer.
Offer(j, old) ==
  /\ job[j] = "unused" /\ old \subseteq Closable
  /\ job' = [i \in Jobs |-> IF i = j THEN "open" ELSE IF i \in old THEN "over" ELSE job[i]]
  /\ UNCHANGED taker

Take(j, d) ==
  /\ job[j] = "open"
  /\ job' = [job EXCEPT ![j] = "taken"]
  /\ taker' = [taker EXCEPT ![j] = d]

Close(old) ==
  /\ old \subseteq Closable
  /\ job' = [i \in Jobs |-> IF i \in old THEN "over" ELSE job[i]]
  /\ UNCHANGED taker

Next == \/ \E j \in Jobs, old \in SUBSET Jobs : Offer(j, old)
        \/ \E j \in Jobs, d \in Takers : Take(j, d)
        \/ \E old \in SUBSET Jobs : Close(old)

Spec == Init /\ [][Next]_vars

-----------------------------------------------------------------------------
\* A job keeps the device that took it: nobody takes it again.
KeepsTaker == \A j \in Jobs : taker[j] # NoTaker => taker'[j] = taker[j]
TakerStands == [][KeepsTaker]_vars

\* What is over stays over.
KeepsOver == \A j \in Jobs : job[j] = "over" => job'[j] = "over"
OverStands == [][KeepsOver]_vars
=============================================================================
