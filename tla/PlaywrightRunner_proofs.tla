------------------------ MODULE PlaywrightRunner_proofs ------------------------
(***************************************************************************)
(* Theorems about what playwright_runner does on the server and a device   *)
(* repeats, and about the project its specs are part of: HealLoop, for any *)
(* library of files, any bound on the assertions and any number of         *)
(* attempts; ServerRunner, for any cases and any number of threads;        *)
(* AutomationProject, for any cases, methods, bodies and threads.          *)
(*                                                                         *)
(*   HealTyping     every reachable state of HealLoop is well typed        *)
(*   ScopeHeld      a heal never ends up checking less than it found       *)
(*   StatusHeld     the status of a spec says what is so                   *)
(*   RunnerTyping   every reachable state of ServerRunner is well typed    *)
(*   DoneHeld       an execution that is done has an outcome for every row *)
(*   ProjectTyping  every reachable state of AutomationProject is typed    *)
(*   LibraryServed  no commit takes away what a committed spec imports     *)
(*   SpecsAreGated  a spec changes in the project only by its own pass     *)
(*                                                                         *)
(* The first rests on how many attempts are left at each stage, the second *)
(* on what the floor still guarantees there, the third on whose code is in *)
(* the row while a pass runs; the fifth on there being one thread at most  *)
(* on the latest execution, and on what that thread knows of the rows; the *)
(* last two on who is at work on the tree having the lock, and on the      *)
(* commit it would go back to being the tip.                               *)
(***************************************************************************)
EXTENDS HealLoop, ServerRunner, AutomationProject, FiniteSetTheorems, TLAPS


Stages == {"run", "classify", "library", "fix", "check", "ended"}
Passes ==
  [pc : Stages, where : {"server", "device"}, attempt : 1 .. MaxAttempts, tried : BOOLEAN,
   code : Codes, prop : Codes, scope : Nat, outcome : Outcomes]
SpecRows == [status : SpecStatus, code : Codes, lost : BOOLEAN]

Shaped ==
  /\ lib \in [Files -> Counts] /\ floor \in Int /\ proven \in Codes
  /\ spec \in SpecRows /\ pass \in Passes \cup {NoPass}

\* Where a further attempt may follow, one is left: the server's loop looks
\* after it has classified, a device before it asks for a fix.
AttemptsLeft ==
  pass.pc \in {"library", "fix", "check"} \/ (At("classify") /\ ~OnServer)
    => pass.attempt < MaxAttempts

\* What the anti-cheat is about to compare with covers what the pass began
\* with: always on the server, for a device from the moment its first fix has
\* taken the floor, unless the floor is gone, which the next fix sees.
FloorCovers ==
  /\ ~At("idle") => Scope(lib, pass.code) >= pass.scope
  /\ \/ pass.pc \in {"library", "fix", "check"}
     \/ pass.pc \in {"run", "classify"} /\ (OnServer \/ (pass.attempt > 1 /\ floor # NoFloor))
     => pass.code.n + floor >= pass.scope

\* While a pass runs the row is marked running and, on the server, holds the
\* code the pass works with; a pass that ended well ended on the proven code.
RowFollows ==
  /\ ~At("idle") => spec.status = "running"
  /\ ~At("idle") /\ OnServer => spec.code = pass.code
  /\ At("ended") /\ pass.outcome = "pass" => proven = pass.code
  /\ spec.status = "passed" => spec.code = proven
  /\ spec.status = "running" => ~At("idle") \/ spec.lost

-----------------------------------------------------------------------------
(* What the operators on the library return.                             *)

\* The assertions a spec reaches through the files it imports are finitely many.
LEMMA AssertionsFinite ==
  ASSUME NEW l \in [Files -> Counts], NEW code \in Codes
  PROVE  IsFiniteSet(Assertions(l, code))
<1>1. IsFiniteSet(1 .. MaxCount)
  BY FS_Interval, HealAssumption
<1>2. IsFiniteSet(Files \X (1 .. MaxCount))
  BY <1>1, FS_Product, HealAssumption
<1>3. Assertions(l, code) \subseteq Files \X (1 .. MaxCount)
  BY HealAssumption DEF Assertions, Codes, Counts
<1> QED BY <1>2, <1>3, FS_Subset

LEMMA LibraryCountType ==
  ASSUME NEW l \in [Files -> Counts], NEW code \in Codes
  PROVE  LibraryCount(l, code) \in Nat
BY AssertionsFinite, FS_CardinalityType DEF LibraryCount

LEMMA ScopeType ==
  ASSUME NEW l \in [Files -> Counts], NEW code \in Codes
  PROVE  /\ code.n \in Nat /\ Scope(l, code) \in Nat
         /\ Scope(l, code) = code.n + LibraryCount(l, code)
BY LibraryCountType, HealAssumption DEF Scope, Codes, Counts

\* A library in which no file has fewer assertions counts for no less.
LEMMA ScopeGrows ==
  ASSUME NEW l \in [Files -> Counts], NEW m \in [Files -> Counts], NEW code \in Codes,
         \A f \in Files : l[f] <= m[f]
  PROVE  Scope(l, code) <= Scope(m, code)
<1>1. Assertions(l, code) \subseteq Assertions(m, code)
  BY HealAssumption DEF Assertions, Codes, Counts
<1>2. LibraryCount(l, code) <= LibraryCount(m, code)
  BY <1>1, AssertionsFinite, FS_Subset DEF LibraryCount
<1> QED BY <1>2, ScopeType, LibraryCountType

-----------------------------------------------------------------------------
LEMMA HealInitShaped == HealInit => Shaped /\ AttemptsLeft /\ FloorCovers /\ RowFollows
BY DEF HealInit, Shaped, AttemptsLeft, FloorCovers, RowFollows, SpecRows, SpecStatus, NoPass,
       NoFloor, At

\* A pass that is under way is a record of its own; At tells the two apart.
LEMMA PassKinds ==
  ASSUME Shaped
  PROVE  /\ NoPass.pc = "idle"
         /\ At("idle") => pass = NoPass
         /\ ~At("idle") => pass \in Passes
BY DEF Shaped, NoPass, Passes, Stages, At

LEMMA HealStepTyped ==
  ASSUME Shaped, AttemptsLeft, [HealNext]_healVars
  PROVE  Shaped' /\ AttemptsLeft'
<1> USE DEF Shaped, AttemptsLeft, SpecRows, SpecStatus, At, OnServer, Ends, Goto, Stages, Outcomes
<1>1. ASSUME NEW where \in {"server", "device"}, Begin(where) PROVE Shaped' /\ AttemptsLeft'
  <2>1. pass' \in Passes
    BY <1>1, ScopeType, HealAssumption DEF Begin, Passes
  <2> QED BY <1>1, <2>1, LibraryCountType DEF Begin
<1>2. CASE RunPasses BY <1>2, PassKinds DEF RunPasses, Passes
<1>3. CASE RunFails BY <1>3, PassKinds DEF RunFails, Passes
<1>4. CASE LastRunFails BY <1>4, PassKinds DEF LastRunFails, Passes
<1>5. CASE Classify BY <1>5, PassKinds DEF Classify, Passes
<1>6. CASE ClassifyForDevice
  <2>1. pass \in Passes BY <1>6, PassKinds DEF ClassifyForDevice
  <2>2. floor' \in Int BY <1>6, <2>1, LibraryCountType DEF ClassifyForDevice, Passes
  <2> QED BY <1>6, <2>1, <2>2 DEF ClassifyForDevice, Passes
<1>7. CASE LibraryHeal
  <2>1. pass \in Passes /\ pass.attempt < MaxAttempts BY <1>7, PassKinds DEF LibraryHeal
  <2>2. pass.attempt + 1 \in 1 .. MaxAttempts BY <2>1, HealAssumption DEF Passes
  <2>3. (pass.tried \/ LibraryTurn) \in BOOLEAN OBVIOUS
  <2>4. pass' \in Passes /\ AttemptsLeft'
    <3>1. CASE pass' = [pass EXCEPT !.pc = "fix", !.tried = @ \/ LibraryTurn]
      <4> DEFINE t == pass.tried \/ LibraryTurn
      <4>1. t \in BOOLEAN BY <2>3
      <4>2. pass' = [pass EXCEPT !.pc = "fix", !.tried = t] BY <3>1
      <4> HIDE DEF t
      <4> QED BY <4>1, <4>2, <2>1 DEF Passes
    <3>2. CASE pass' = [pass EXCEPT !.pc = "run", !.attempt = @ + 1, !.tried = TRUE]
      BY <3>2, <2>1, <2>2 DEF Passes
    <3> QED BY <1>7, <3>1, <3>2 DEF LibraryHeal
  <2>5. lib' \in [Files -> Counts]
    BY <1>7 DEF LibraryHeal
  <2> QED BY <1>7, <2>4, <2>5 DEF LibraryHeal
<1>8. CASE LiveGivesUp BY <1>8, PassKinds DEF LiveGivesUp, Passes
<1>9. CASE FixerFails BY <1>9, PassKinds DEF FixerFails, Passes
<1>10. CASE Rewrite BY <1>10, PassKinds DEF Rewrite, Passes
<1>11. CASE RejectWeakened BY <1>11, PassKinds DEF RejectWeakened, Passes
<1>12. CASE Gated BY <1>12, PassKinds DEF Gated, Passes
<1>13. CASE Accept
  <2>1. pass \in Passes /\ pass.attempt < MaxAttempts BY <1>13, PassKinds DEF Accept
  <2>2. pass.attempt + 1 \in 1 .. MaxAttempts BY <2>1, HealAssumption DEF Passes
  <2>3. pass' \in Passes /\ AttemptsLeft'
    BY <1>13, <2>1, <2>2 DEF Accept, NextAttempt, Passes
  <2> QED BY <1>13, <2>1, <2>3, LibraryCountType DEF Accept, Passes
<1>14. CASE AcceptOnDevice
  <2>1. pass \in Passes /\ pass.attempt < MaxAttempts BY <1>14, PassKinds DEF AcceptOnDevice
  <2>2. pass.attempt + 1 \in 1 .. MaxAttempts BY <2>1, HealAssumption DEF Passes
  <2>3. pass' \in Passes /\ AttemptsLeft'
    BY <1>14, <2>1, <2>2 DEF AcceptOnDevice, NextAttempt, Passes
  <2> QED BY <1>14, <2>1, <2>3, LibraryCountType DEF AcceptOnDevice, Passes
<1>15. CASE FinishServer BY <1>15, PassKinds DEF FinishServer, Passes, StatusOf, NoFloor
<1>16. CASE FinalizeDevice
  <2>1. pass \in Passes BY <1>16, PassKinds DEF FinalizeDevice
  <2>2. StatusOf(pass.outcome) \in SpecStatus /\ pass.code \in Codes BY <2>1 DEF Passes, StatusOf
  <2>3. spec' \in SpecRows BY <1>16, <2>2 DEF FinalizeDevice
  <2> QED BY <1>16, <2>3, PassKinds DEF FinalizeDevice, NoFloor
<1>17. CASE PassLost
  <2>1. floor' \in Int BY <1>17 DEF PassLost, NoFloor
  <2> QED BY <1>17, <2>1, PassKinds DEF PassLost
<1>18. CASE Cancelled BY <1>18, PassKinds DEF Cancelled, NoFloor
<1>19. CASE FloorForgotten BY <1>19 DEF FloorForgotten, NoFloor
<1>20. CASE FixLost
  <2>1. pass \in Passes BY <1>20, PassKinds DEF FixLost
  <2>2. pass' \in Passes /\ AttemptsLeft' BY <1>20, <2>1 DEF FixLost, Passes
  <2>3. floor' \in Int BY <1>20 DEF FixLost, NoFloor
  <2> QED BY <1>20, <2>2, <2>3 DEF FixLost
<1>21. ASSUME NEW f \in Files, OthersAdd(f) PROVE Shaped' /\ AttemptsLeft'
  BY <1>21, HealAssumption DEF OthersAdd, Counts
<1>22. CASE UNCHANGED healVars BY <1>22 DEF healVars
<1> QED BY <1>1, <1>2, <1>3, <1>4, <1>5, <1>6, <1>7, <1>8, <1>9, <1>10, <1>11, <1>12, <1>13,
           <1>14, <1>15, <1>16, <1>17, <1>18, <1>19, <1>20, <1>21, <1>22 DEF HealNext
-----------------------------------------------------------------------------
(* What the library half of a scope can do between two comparisons.      *)

LEMMA FloorStep ==
  ASSUME Shaped, AttemptsLeft, FloorCovers, [HealNext]_healVars, Shaped'
  PROVE  FloorCovers'
<1> USE DEF At, OnServer, Ends, Goto
<1> DEFINE Same(p) == /\ p.code = pass.code /\ p.scope = pass.scope /\ p.where = pass.where
                      /\ p.attempt = pass.attempt
\* the pass ends, or goes on with the floor it has
<1>0. ASSUME ~At("idle"), lib' = lib, Same(pass'),
             \/ pass'.pc = "ended"
             \/ /\ floor' = floor
                /\ \/ pass.pc \in {"library", "fix", "check"}
                   \/ OnServer /\ pass.pc \in {"run", "classify"}
                   \/ pass.pc = "run" /\ pass'.pc = "classify"
      PROVE  FloorCovers'
  <2>1. Scope(lib', pass'.code) >= pass'.scope BY <1>0 DEF FloorCovers
  <2>2. pass'.code = pass.code /\ pass'.scope = pass.scope BY <1>0
  <2>3. CASE pass'.pc = "ended" BY <2>1, <2>3 DEF FloorCovers
  <2>4. CASE floor' = floor /\ pass.pc \in {"library", "fix", "check"}
    BY <2>1, <2>2, <2>4 DEF FloorCovers
  <2>5. CASE floor' = floor /\ OnServer /\ pass.pc \in {"run", "classify"}
    BY <2>1, <2>2, <2>5 DEF FloorCovers
  <2>6. CASE floor' = floor /\ pass.pc = "run" /\ pass'.pc = "classify"
    BY <1>0, <2>1, <2>2, <2>6 DEF FloorCovers
  <2> QED BY <1>0, <2>3, <2>4, <2>5, <2>6
<1>1. ASSUME NEW where \in {"server", "device"}, Begin(where) PROVE FloorCovers'
  <2>1. spec.code \in Codes /\ lib \in [Files -> Counts] BY DEF Shaped, SpecRows
  <2>2. /\ pass' = [pc |-> "run", where |-> where, attempt |-> 1, tried |-> FALSE,
                    code |-> spec.code, prop |-> spec.code, scope |-> Scope(lib, spec.code),
                    outcome |-> "fail"]
        /\ lib' = lib
        /\ where = "server" => floor' = LibraryCount(lib, spec.code)
    BY <1>1 DEF Begin
  <2> HIDE DEF At, OnServer
  <2>3. /\ pass'.pc = "run" /\ pass'.where = where /\ pass'.attempt = 1
        /\ pass'.code = spec.code /\ pass'.scope = Scope(lib, spec.code)
    BY <2>2
  <2>4. Scope(lib', pass'.code) = pass'.scope BY <2>2, <2>3
  <2>5. where = "server" => pass'.code.n + floor' = pass'.scope BY <2>2, <2>3 DEF Scope
  <2>6. pass'.scope \in Nat BY <2>1, <2>3, ScopeType
  <2> QED BY <2>3, <2>4, <2>5, <2>6 DEF FloorCovers, At, OnServer
<1>2. CASE RunPasses
  <2>1. pass \in Passes /\ ~At("idle") BY <1>2, PassKinds DEF RunPasses
  <2>2. Same(pass') BY <1>2, <2>1 DEF RunPasses, Passes
  <2>3. pass'.pc = "ended" /\ lib' = lib BY <1>2, <2>1 DEF RunPasses, Passes
  <2> QED BY <1>0, <2>1, <2>2, <2>3
<1>3. CASE RunFails BY <1>0, <1>3, PassKinds DEF RunFails, Passes
<1>4. CASE LastRunFails
  <2>1. pass \in Passes /\ ~At("idle") BY <1>4, PassKinds DEF LastRunFails
  <2>2. Same(pass') BY <1>4, <2>1 DEF LastRunFails, Passes
  <2>3. pass'.pc = "ended" /\ lib' = lib BY <1>4, <2>1 DEF LastRunFails, Passes
  <2> QED BY <1>0, <2>1, <2>2, <2>3
<1>5. CASE Classify BY <1>0, <1>5, PassKinds DEF Classify, Passes
<1>6. CASE ClassifyForDevice
  <2>1. pass \in Passes /\ pass.pc = "classify" BY <1>6, PassKinds DEF ClassifyForDevice
  <2>2. CASE Ends("product_defect") /\ floor' = floor
    <3>1. Same(pass') /\ pass'.pc = "ended" /\ lib' = lib
      BY <1>6, <2>1, <2>2 DEF ClassifyForDevice, Passes
    <3> QED BY <1>0, <2>1, <3>1
  <2>3. CASE /\ Goto("library")
             /\ floor' = IF pass.attempt > 1 /\ floor # NoFloor THEN floor
                         ELSE LibraryCount(lib, pass.code)
    <3>1. /\ lib' = lib /\ pass'.pc = "library" /\ pass'.code = pass.code
          /\ pass'.scope = pass.scope
      BY <1>6, <2>1, <2>3 DEF ClassifyForDevice, Passes
    <3>2. Scope(lib, pass.code) >= pass.scope BY <2>1 DEF FloorCovers
    <3>3. pass.code.n + floor' >= pass.scope
      BY <2>1, <2>3, <3>2 DEF FloorCovers, Scope
    <3> QED BY <3>1, <3>2, <3>3 DEF FloorCovers
  <2> QED BY <1>6, <2>2, <2>3 DEF ClassifyForDevice
<1>7. CASE LibraryHeal
  <2>1. pass \in Passes /\ pass.pc = "library" BY <1>7, PassKinds DEF LibraryHeal
  <2>2. /\ pass'.code = pass.code /\ pass'.scope = pass.scope /\ floor' = floor
        /\ pass'.pc \in {"fix", "run"}
    BY <1>7, <2>1 DEF LibraryHeal, Passes
  <2>3. Scope(lib', pass.code) >= Scope(lib, pass.code)
    <3>1. Scope(lib, pass.code) \in Nat BY <2>1, ScopeType DEF Shaped, Passes
    <3>2. CASE lib' = lib BY <3>1, <3>2
    <3>3. CASE LibraryKept(lib') BY <3>3 DEF LibraryKept
    <3> QED BY <1>7, <3>2, <3>3 DEF LibraryHeal
  <2>4. Scope(lib, pass.code) >= pass.scope /\ pass.code.n + floor >= pass.scope
    BY <2>1 DEF FloorCovers
  <2>5. /\ Scope(lib, pass.code) \in Nat /\ Scope(lib', pass.code) \in Nat /\ pass.scope \in Nat
    BY <2>1, ScopeType DEF Shaped, Passes
  <2>6. Scope(lib', pass.code) >= pass.scope BY <2>3, <2>4, <2>5
  <2> QED BY <2>2, <2>4, <2>6 DEF FloorCovers
<1>8. CASE LiveGivesUp
  <2>1. pass \in Passes /\ ~At("idle") BY <1>8, PassKinds DEF LiveGivesUp
  <2>2. Same(pass') BY <1>8, <2>1 DEF LiveGivesUp, Passes
  <2>3. pass'.pc = "ended" /\ lib' = lib BY <1>8, <2>1 DEF LiveGivesUp, Passes
  <2> QED BY <1>0, <2>1, <2>2, <2>3
<1>9. CASE FixerFails
  <2>1. pass \in Passes /\ ~At("idle") BY <1>9, PassKinds DEF FixerFails
  <2>2. Same(pass') BY <1>9, <2>1 DEF FixerFails, Passes
  <2>3. pass'.pc = "ended" /\ lib' = lib BY <1>9, <2>1 DEF FixerFails, Passes
  <2> QED BY <1>0, <2>1, <2>2, <2>3
<1>10. CASE Rewrite
  <2>1. pass \in Passes BY <1>10, PassKinds DEF Rewrite
  <2>2. PICK code \in Codes : pass' = [pass EXCEPT !.pc = "check", !.prop = code]
    BY <1>10 DEF Rewrite
  <2>3. Same(pass') BY <2>1, <2>2 DEF Passes
  <2>4. pass.pc = "fix" /\ floor' = floor /\ lib' = lib BY <1>10 DEF Rewrite
  <2> QED BY <1>0, <2>3, <2>4
<1>11. CASE RejectWeakened
  <2>1. pass \in Passes /\ ~At("idle") BY <1>11, PassKinds DEF RejectWeakened
  <2>2. Same(pass') BY <1>11, <2>1 DEF RejectWeakened, Passes
  <2>3. pass'.pc = "ended" /\ lib' = lib BY <1>11, <2>1 DEF RejectWeakened, Passes
  <2> QED BY <1>0, <2>1, <2>2, <2>3
<1>12. CASE Gated
  <2>1. pass \in Passes /\ ~At("idle") BY <1>12, PassKinds DEF Gated
  <2>2. Same(pass') BY <1>12, <2>1 DEF Gated, Passes
  <2>3. pass'.pc = "ended" /\ lib' = lib BY <1>12, <2>1 DEF Gated, Passes
  <2> QED BY <1>0, <2>1, <2>2, <2>3
<1>13. CASE Accept \/ AcceptOnDevice
  <2>1. pass \in Passes /\ pass.pc = "check" BY <1>13, PassKinds DEF Accept, AcceptOnDevice
  <2>2. /\ NextAttempt(pass.prop) /\ lib' = lib /\ ~Weakened
        /\ floor' = LibraryCount(lib, pass.prop)
    BY <1>13 DEF Accept, AcceptOnDevice
  <2>3. pass'.code = pass.prop /\ pass'.scope = pass.scope /\ pass'.pc = "run"
    BY <2>1, <2>2 DEF NextAttempt, Passes
  <2>4. /\ Scope(lib, pass.prop) \in Nat /\ pass.scope \in Nat
        /\ pass.code.n \in Nat /\ floor \in Int
    BY <2>1, ScopeType DEF Shaped, Passes
  <2>5. Scope(lib, pass.prop) >= pass.scope
    BY <2>1, <2>2, <2>4 DEF Weakened, FloorCovers
  <2>6. pass.prop.n + floor' = Scope(lib, pass.prop)
    BY <2>2 DEF Scope
  <2> QED BY <2>2, <2>3, <2>5, <2>6 DEF FloorCovers
<1>14. CASE FinishServer \/ FinalizeDevice \/ PassLost \/ Cancelled
  BY <1>14, PassKinds DEF FinishServer, FinalizeDevice, PassLost, Cancelled, FloorCovers
<1>15. CASE FloorForgotten
  <2>1. pass \in Passes /\ pass.pc = "run" /\ pass' = pass /\ lib' = lib
    BY <1>15, PassKinds DEF FloorForgotten
  <2> QED BY <1>15, <2>1 DEF FloorForgotten, FloorCovers, NoFloor, Passes
<1>16. CASE FixLost
  <2>1. pass \in Passes /\ lib' = lib BY <1>16, PassKinds DEF FixLost
  <2>2. pass'.pc = "ended" /\ pass'.code = pass.code /\ pass'.scope = pass.scope
    BY <1>16, <2>1 DEF FixLost, Passes
  <2>3. Scope(lib, pass.code) >= pass.scope BY <1>16 DEF FixLost, FloorCovers
  <2> QED BY <2>1, <2>2, <2>3 DEF FloorCovers
<1>17. ASSUME NEW f \in Files, OthersAdd(f) PROVE FloorCovers'
  <2>1. pass' = pass /\ floor' = floor BY <1>17 DEF OthersAdd
  <2>2. \A g \in Files : lib[g] <= lib'[g]
    BY <1>17, HealAssumption DEF OthersAdd, Shaped, Counts
  <2>3. ASSUME ~At("idle") PROVE Scope(lib', pass.code) >= pass.scope
    <3>1. pass.code \in Codes /\ pass.scope \in Nat BY <2>3, PassKinds DEF Passes
    <3>2. Scope(lib, pass.code) <= Scope(lib', pass.code)
      BY <2>2, <3>1, ScopeGrows DEF Shaped
    <3>3. Scope(lib, pass.code) \in Nat /\ Scope(lib', pass.code) \in Nat
      BY <3>1, ScopeType DEF Shaped
    <3> QED BY <2>3, <3>1, <3>2, <3>3 DEF FloorCovers
  <2> QED BY <2>1, <2>3 DEF FloorCovers
<1>18. CASE UNCHANGED healVars
  BY <1>18 DEF healVars, FloorCovers, Scope, LibraryCount, Assertions
<1> QED BY <1>1, <1>2, <1>3, <1>4, <1>5, <1>6, <1>7, <1>8, <1>9, <1>10, <1>11, <1>12, <1>13,
           <1>14, <1>15, <1>16, <1>17, <1>18 DEF HealNext

-----------------------------------------------------------------------------
(* The row of the spec and the pass that works on it.                    *)

LEMMA RowStep ==
  ASSUME Shaped, RowFollows, [HealNext]_healVars, Shaped'
  PROVE  RowFollows'
<1> USE DEF At, OnServer, Ends, Goto
<1> DEFINE Same(p) == p.code = pass.code /\ p.where = pass.where
\* neither the row nor what is proven changes, and the code stays
<1>0. ASSUME ~At("idle"), UNCHANGED <<spec, proven>>, pass' \in Passes, Same(pass'),
             pass'.pc # "ended" \/ pass'.outcome # "pass"
      PROVE  RowFollows'
  BY <1>0 DEF RowFollows, Passes, Stages
<1>1. ASSUME NEW where \in {"server", "device"}, Begin(where) PROVE RowFollows'
  <2>1. /\ spec'.status = "running" /\ spec'.code = spec.code /\ proven' = proven
        /\ pass'.pc = "run" /\ pass'.code = spec.code
    BY <1>1 DEF Begin, Shaped, SpecRows
  <2> QED BY <2>1 DEF RowFollows
<1>2. CASE RunPasses
  <2>1. pass \in Passes BY <1>2, PassKinds DEF RunPasses
  <2>2. /\ pass'.pc = "ended" /\ pass'.code = pass.code /\ pass'.where = pass.where
        /\ spec' = spec /\ proven' = pass.code
    BY <1>2, <2>1 DEF RunPasses, Passes
  <2>3. spec.status = "running" BY <1>2 DEF RunPasses, RowFollows
  <2> QED BY <2>2, <2>3, <1>2 DEF RunPasses, RowFollows
<1>3. CASE \/ RunFails \/ LastRunFails \/ Classify \/ ClassifyForDevice \/ LibraryHeal
           \/ LiveGivesUp \/ FixerFails \/ RejectWeakened \/ Gated \/ FixLost
  <2>1. /\ ~At("idle") /\ UNCHANGED <<spec, proven>> /\ pass' # NoPass
        /\ pass \in Passes
    <3>1. ~At("idle") /\ UNCHANGED <<spec, proven>> /\ pass \in Passes
      BY <1>3, PassKinds DEF RunFails, LastRunFails, Classify, ClassifyForDevice, LibraryHeal,
             LiveGivesUp, FixerFails, RejectWeakened, Gated, FixLost
    <3>2. pass'.pc # "idle"
      BY <1>3, <3>1 DEF RunFails, LastRunFails, Classify, ClassifyForDevice, LibraryHeal,
             LiveGivesUp, FixerFails, RejectWeakened, Gated, FixLost, Passes
    <3> QED BY <3>1, <3>2 DEF NoPass
  <2>2. Same(pass') /\ (pass'.pc # "ended" \/ pass'.outcome # "pass")
    BY <1>3, <2>1 DEF RunFails, LastRunFails, Classify, ClassifyForDevice, LibraryHeal,
           LiveGivesUp, FixerFails, RejectWeakened, Gated, FixLost, Passes
  <2>3. pass' \in Passes BY <2>1 DEF Shaped
  <2> QED BY <1>0, <2>1, <2>2, <2>3
<1>4. CASE Rewrite
  <2>1. pass \in Passes /\ ~At("idle") /\ UNCHANGED <<spec, proven>> BY <1>4, PassKinds DEF Rewrite
  <2>2. PICK code \in Codes : pass' = [pass EXCEPT !.pc = "check", !.prop = code]
    BY <1>4 DEF Rewrite
  <2>3. pass'.pc = "check" /\ Same(pass') BY <2>1, <2>2 DEF Passes
  <2>4. pass' \in Passes BY <2>3 DEF Shaped, NoPass
  <2> QED BY <1>0, <2>1, <2>3, <2>4
<1>5. CASE Accept
  <2>1. pass \in Passes /\ proven' = proven BY <1>5, PassKinds DEF Accept
  <2>2. pass'.pc = "run" /\ pass'.code = pass.prop BY <1>5, <2>1 DEF Accept, NextAttempt, Passes
  <2>3. spec'.code = pass.prop /\ spec'.status = spec.status BY <1>5 DEF Accept, Shaped, SpecRows
  <2>4. spec.status = "running" BY <1>5 DEF Accept, RowFollows
  <2> QED BY <2>1, <2>2, <2>3, <2>4 DEF RowFollows
<1>6. CASE AcceptOnDevice
  <2>1. pass \in Passes /\ proven' = proven /\ spec' = spec BY <1>6, PassKinds DEF AcceptOnDevice
  <2>2. pass'.pc = "run" /\ pass'.where # "server"
    BY <1>6, <2>1 DEF AcceptOnDevice, NextAttempt, Passes
  <2>3. spec.status = "running" BY <1>6 DEF AcceptOnDevice, RowFollows
  <2> QED BY <2>1, <2>2, <2>3 DEF RowFollows
<1>7. CASE FinishServer \/ FinalizeDevice
  <2>1. pass \in Passes /\ pass.pc = "ended" /\ pass' = NoPass /\ proven' = proven
    BY <1>7, PassKinds DEF FinishServer, FinalizeDevice
  <2>2. spec'.status = StatusOf(pass.outcome) /\ spec'.code = pass.code
    BY <1>7, <2>1 DEF FinishServer, FinalizeDevice, Shaped, SpecRows, RowFollows
  <2>3. spec'.status # "running" /\ (spec'.status = "passed" => pass.outcome = "pass")
    BY <2>1, <2>2 DEF StatusOf, Passes, Outcomes
  <2>4. spec'.status = "passed" => spec'.code = proven BY <2>1, <2>2, <2>3 DEF RowFollows
  <2> QED BY <2>1, <2>3, <2>4, PassKinds DEF RowFollows, NoPass
<1>8. CASE PassLost
  <2>1. /\ spec'.status = "running" /\ spec'.lost = TRUE
    BY <1>8 DEF PassLost, Shaped, SpecRows, RowFollows
  <2>2. pass' = NoPass BY <1>8 DEF PassLost
  <2> QED BY <2>1, <2>2, PassKinds DEF RowFollows
<1>9. CASE Cancelled
  <2>1. spec'.status = "draft" /\ pass' = NoPass
    BY <1>9 DEF Cancelled, Shaped, SpecRows
  <2> QED BY <2>1, PassKinds DEF RowFollows
<1>10. CASE FloorForgotten BY <1>10 DEF FloorForgotten, RowFollows
<1>11. ASSUME NEW f \in Files, OthersAdd(f) PROVE RowFollows'
  BY <1>11 DEF OthersAdd, RowFollows
<1>12. CASE UNCHANGED healVars BY <1>12 DEF healVars, RowFollows
<1> QED BY <1>1, <1>2, <1>3, <1>4, <1>5, <1>6, <1>7, <1>8, <1>9, <1>10, <1>11, <1>12 DEF HealNext

-----------------------------------------------------------------------------
HealInv == Shaped /\ AttemptsLeft /\ FloorCovers /\ RowFollows

LEMMA HealInductive == HealSpec => []HealInv
<1>1. HealInit => HealInv
  BY HealInitShaped DEF HealInv
<1>2. HealInv /\ [HealNext]_healVars => HealInv'
  BY HealStepTyped, FloorStep, RowStep DEF HealInv
<1> QED BY <1>1, <1>2, PTL DEF HealSpec

\* Every variable keeps its shape, and no pass makes more attempts than the
\* setting allows, whoever counts them: the server's loop or the device's.
THEOREM HealTyping == HealSpec => []HealTypeOK
<1>1. HealInv => HealTypeOK
  BY DEF HealInv, Shaped, SpecRows, HealTypeOK, Passes, NoPass, At
<1> QED BY <1>1, HealInductive, PTL

\* The code a pass works with never reaches fewer assertions than the pass
\* began with, over any number of repairs of the library, rewrites, additions
\* by others and lost floors: heal_spec's library_floor and plan_fix's
\* _library_floor are enough.
THEOREM ScopeHeld == HealSpec => []ScopeKept
<1>1. HealInv => ScopeKept
  BY DEF HealInv, FloorCovers, ScopeKept
<1> QED BY <1>1, HealInductive, PTL

\* A spec marked passed has the code that passed and one marked running a pass
\* that runs or whose end was lost, wherever its passes ran and however they
\* ended (heal_spec, finalize_agent_heal, reset_stuck_specs).
THEOREM StatusHeld == HealSpec => []StatusIsTrue
<1>1. HealInv => StatusIsTrue
  BY DEF HealInv, RowFollows, StatusIsTrue
<1> QED BY <1>1, HealInductive, PTL

-----------------------------------------------------------------------------
(* ServerRunner: the shape of every variable, in parts.                  *)
ThreadsOK ==
  /\ thread \in [Slots -> Threads \cup {NoThread}]
  /\ \A s \in Slots : ~IdleSlot(s) /\ IsHeal(s) => \E c \in RunCases : thread[s].cases = {c}
RowsOK ==
  /\ exec \in [no : Nat, status : {"none", "running", "failed", "done"}, passed : Nat, failed : Nat]
  /\ results \in [RunCases -> RowStatuses]
RestOK ==
  /\ status \in RunStatuses /\ cancel \in BOOLEAN
  /\ specs \in [RunCases -> SpecStatuses]
  /\ report \in Reports /\ healing \subseteq RunCases
  /\ begun \in [starts : Nat, stops : Nat]

\* The step a thread is at is one of its kind of work.
RoleOf(t) ==
  /\ t.pc \in {"rehearse", "settle", "recount"} => t.heal
  /\ t.pc \in {"mark", "stage", "login", "apply", "reflect", "finalize"} => ~t.heal
RolesHeld == \A s \in Slots : ~IdleSlot(s) => RoleOf(thread[s])

\* A thread of an execution, and the one whose execution is the latest.
Own(s) == ~IdleSlot(s) /\ ~IsHeal(s)
Current(s) == Own(s) /\ thread[s].no = exec.no

\* No two threads work on one execution, and none on one yet to come.
OneCurrent ==
  /\ \A s \in Slots : Own(s) => thread[s].no <= exec.no
  /\ \A s, t \in Slots : Own(s) /\ Own(t) /\ thread[s].no = thread[t].no => s = t

\* What the thread of the latest execution knows of the rows: they are those
\* of its cases, and the ones it has applied are final.
Final(c) == results[c] \notin {"pending", "running"}
Answers(t) ==
  /\ {c \in RunCases : results[c] # "none"} \subseteq t.cases
  /\ t.done \subseteq t.cases
  /\ \A c \in t.done : Final(c)
  /\ t.pc \in {"reflect", "finalize"} => t.done = t.cases
  /\ t.pc \notin {"apply", "reflect", "finalize"} => t.done = {}
RowsFollow == \A s \in Slots : Current(s) => exec.status # "done" /\ Answers(thread[s])

RunnerInv == RolesHeld /\ OneCurrent /\ RowsFollow /\ DoneIsFinal

-----------------------------------------------------------------------------
LEMMA TypeParts ==
  /\ RunnerTypeOK <=> ThreadsOK /\ RowsOK /\ RestOK
  /\ RunnerTypeOK' <=> ThreadsOK' /\ RowsOK' /\ RestOK'
BY DEF RunnerTypeOK, ThreadsOK, RowsOK, RestOK

LEMMA SlotKinds ==
  ASSUME ThreadsOK, NEW s \in Slots
  PROVE  /\ IdleSlot(s) <=> thread[s] = NoThread
         /\ ~IdleSlot(s) <=> thread[s] \in Threads
BY DEF ThreadsOK, IdleSlot, Threads, NoThread, PCs

\* A thread goes on: what it works on stays.
LEMMA GoesOn ==
  ASSUME ThreadsOK, NEW s \in Slots, ~IdleSlot(s), NEW t \in Threads,
         t.heal = thread[s].heal, t.cases = thread[s].cases,
         thread' = [thread EXCEPT ![s] = t]
  PROVE  ThreadsOK'
<1>1. thread' \in [Slots -> Threads \cup {NoThread}]
  BY DEF ThreadsOK
<1>2. ASSUME NEW u \in Slots, ~IdleSlot(u)', IsHeal(u)' PROVE \E c \in RunCases : thread'[u].cases = {c}
  BY <1>2 DEF ThreadsOK, IdleSlot, IsHeal
<1> QED BY <1>1, <1>2 DEF ThreadsOK, IdleSlot, IsHeal

LEMMA MovesOn ==
  ASSUME ThreadsOK, NEW s \in Slots, ~IdleSlot(s), NEW pc \in PCs, Moves(s, pc)
  PROVE  ThreadsOK'
<1> DEFINE t == [thread[s] EXCEPT !.pc = pc]
<1>1. thread[s] \in Threads BY SlotKinds
<1>2. t \in Threads /\ t.heal = thread[s].heal /\ t.cases = thread[s].cases
  BY <1>1 DEF Threads
<1>3. thread' = [thread EXCEPT ![s] = t]
  BY DEF Moves
<1> HIDE DEF t
<1> QED BY <1>2, <1>3, GoesOn

LEMMA EndsWell ==
  ASSUME ThreadsOK, NEW s \in Slots, EndsThread(s)
  PROVE  ThreadsOK'
<1>1. thread' \in [Slots -> Threads \cup {NoThread}]
  BY DEF ThreadsOK, EndsThread
<1>2. ASSUME NEW u \in Slots, ~IdleSlot(u)', IsHeal(u)' PROVE \E c \in RunCases : thread'[u].cases = {c}
  BY <1>2 DEF ThreadsOK, IdleSlot, IsHeal, EndsThread, NoThread
<1> QED BY <1>1, <1>2 DEF ThreadsOK, IdleSlot, IsHeal

LEMMA NoReportType == NoReport \in Reports
<1>1. NoReport \in [{} -> CaseVerdicts] BY DEF NoReport, CaseVerdicts
<1> QED BY <1>1 DEF Reports

LEMMA SpawnedWell ==
  ASSUME ThreadsOK, RowsOK, NEW s \in Slots, NEW cases \in SUBSET RunCases, NEW heal \in BOOLEAN,
         Spawned(s, cases, heal), heal => \E c \in RunCases : cases = {c}, RestOK
  PROVE  ThreadsOK' /\ begun' \in [starts : Nat, stops : Nat]
<1> DEFINE t == [pc |-> "load", heal |-> heal, cases |-> cases, attempt |-> 1,
        no |-> IF heal THEN 0 ELSE exec.no + 1, error |-> FALSE, read |-> NoReport,
        done |-> {}, passed |-> 0, failed |-> 0, outcome |-> "fail"]
<1>1. t \in Threads
  <2>1. (IF heal THEN 0 ELSE exec.no + 1) \in Nat BY DEF RowsOK
  <2> QED BY <2>1, NoReportType DEF Threads, PCs, CaseVerdicts
<1>2. thread' = [thread EXCEPT ![s] = t] BY DEF Spawned
<1>3. t.heal = heal /\ t.cases = cases OBVIOUS
<1> HIDE DEF t
<1>4. thread' \in [Slots -> Threads \cup {NoThread}]
  BY <1>1, <1>2 DEF ThreadsOK
<1>5. ASSUME NEW u \in Slots, ~IdleSlot(u)', IsHeal(u)' PROVE \E c \in RunCases : thread'[u].cases = {c}
  BY <1>2, <1>3, <1>5 DEF ThreadsOK, IdleSlot, IsHeal
<1>6. ThreadsOK' BY <1>4, <1>5 DEF ThreadsOK, IdleSlot, IsHeal
<1>7. begun' \in [starts : Nat, stops : Nat] BY DEF Spawned, RestOK
<1> QED BY <1>6, <1>7

LEMMA TallyType ==
  ASSUME NEW r, NEW v PROVE Tally(r, v) \in Nat
BY FS_Subset, FS_CardinalityType, RunnerAssumption DEF Tally

LEMMA BecomesType ==
  ASSUME status \in RunStatuses, NEW new \in RunStatuses, Becomes(new) PROVE status' \in RunStatuses
BY DEF Becomes

LEMMA OnlyType ==
  ASSUME ThreadsOK, NEW s \in Slots, ~IdleSlot(s), IsHeal(s) PROVE Only(s) \in RunCases
<1>1. PICK c \in RunCases : thread[s].cases = {c} BY DEF ThreadsOK
<1> QED BY <1>1 DEF Only

-----------------------------------------------------------------------------
LEMMA ExecuteTyped ==
  ASSUME RunnerTypeOK, NEW s \in Slots, NEW cases \in SUBSET RunCases, Spawned(s, cases, FALSE),
         exec' = [no |-> exec.no + 1, status |-> "running", passed |-> 0, failed |-> 0],
         results' = [c \in RunCases |-> IF c \in cases THEN "pending" ELSE "none"]
  PROVE  ThreadsOK' /\ RowsOK' /\ begun' \in [starts : Nat, stops : Nat]
<1>1. ThreadsOK /\ RowsOK /\ RestOK BY TypeParts
<1>2. ThreadsOK' /\ begun' \in [starts : Nat, stops : Nat] BY <1>1, SpawnedWell
<1>3. RowsOK' BY <1>1 DEF RowsOK, RowStatuses
<1> QED BY <1>2, <1>3

LEMMA StartTyped ==
  ASSUME RunnerTypeOK, NEW s \in Slots,
         \/ StartExecution(s) \/ Retry(s)
         \/ \E c \in RunCases : RunSingleSpec(s, c) \/ StartHeal(s, c)
  PROVE  RunnerTypeOK'
<1>1. ThreadsOK /\ RowsOK /\ RestOK BY TypeParts
<1>2. ASSUME NEW cases \in SUBSET RunCases, Execute(s, cases) PROVE RunnerTypeOK'
  <2>1. ThreadsOK' /\ RowsOK' /\ begun' \in [starts : Nat, stops : Nat]
    BY <1>2, ExecuteTyped DEF Execute
  <2>2. status' \in RunStatuses
    BY <1>1, <1>2 DEF Execute, Becomes, RestOK, RunStatuses
  <2> QED BY <1>1, <1>2, <2>1, <2>2, TypeParts DEF Execute, RestOK
<1>3. CASE StartExecution(s) BY <1>2, <1>3 DEF StartExecution
<1>4. CASE Retry(s)
  <2> DEFINE cases == {c \in RunCases : specs[c] \notin {"blocked", "product_defect"}}
  <2>1. ThreadsOK' /\ RowsOK' /\ begun' \in [starts : Nat, stops : Nat]
    BY <1>4, ExecuteTyped DEF Retry
  <2> QED BY <1>1, <1>4, <2>1, TypeParts DEF Retry, RestOK, RunStatuses
<1>5. ASSUME NEW c \in RunCases, RunSingleSpec(s, c) PROVE RunnerTypeOK'
  BY <1>2, <1>5 DEF RunSingleSpec
<1>6. ASSUME NEW c \in RunCases, StartHeal(s, c) PROVE RunnerTypeOK'
  <2>1. ThreadsOK' /\ begun' \in [starts : Nat, stops : Nat]
    BY <1>1, <1>6, SpawnedWell DEF StartHeal
  <2>2. RowsOK' /\ RestOK' BY <1>1, <1>6, <2>1 DEF StartHeal, RowsOK, RestOK
  <2> QED BY <2>1, <2>2, TypeParts
<1> QED BY <1>3, <1>4, <1>5, <1>6

LEMMA FailAllTyped ==
  ASSUME RunnerTypeOK, NEW s \in Slots, ~IdleSlot(s), FailAllResults(s)
  PROVE  RunnerTypeOK'
<1>1. ThreadsOK /\ RowsOK /\ RestOK BY TypeParts
<1>2. ThreadsOK' BY <1>1, EndsWell DEF FailAllResults
<1>3. Cardinality(thread[s].cases) \in Nat
  <2>1. thread[s].cases \subseteq RunCases BY <1>1, SlotKinds DEF Threads
  <2> QED BY <2>1, RunnerAssumption, FS_Subset, FS_CardinalityType
<1>4. RowsOK' BY <1>1, <1>3 DEF FailAllResults, RowsOK, RowStatuses
<1>5. RestOK' BY <1>1 DEF FailAllResults, RestOK, Becomes, RunStatuses
<1> QED BY <1>2, <1>4, <1>5, TypeParts

LEMMA SaidTypes ==
  ASSUME ThreadsOK, NEW s \in Slots, ~IdleSlot(s), NEW c \in DOMAIN VerdictsOf(s)
  PROVE  VerdictsOf(s)[c] \in CaseVerdicts /\ c \in thread[s].cases
<1>1. thread[s].read \in Reports BY SlotKinds DEF Threads
<1>2. PICK ran \in SUBSET RunCases : thread[s].read \in [ran -> CaseVerdicts] BY <1>1 DEF Reports
<1> QED BY <1>2 DEF VerdictsOf

\* One result applied: the row, the thread's tally, the counts as they go.
Applies(s, c, v) ==
  \E p, f \in Nat :
    /\ results' = [results EXCEPT ![c] = v]
    /\ thread' = [thread EXCEPT ![s].done = @ \cup {c}, ![s].passed = p, ![s].failed = f]
    /\ exec' = [exec EXCEPT !.passed = p, !.failed = f] \/ exec' = exec

LEMMA ApplyParts ==
  ASSUME ThreadsOK, NEW s \in Slots, ApplyResult(s)
  PROVE  /\ ~IdleSlot(s) /\ ~Pruned(s) /\ thread[s].pc = "apply"
         /\ \/ \E c \in thread[s].cases, v \in CaseVerdicts : Applies(s, c, v)
            \/ /\ thread[s].cases \subseteq thread[s].done
               /\ Moves(s, "reflect") /\ UNCHANGED <<results, exec>>
<1> DEFINE said == VerdictsOf(s)
           open == thread[s].cases \ thread[s].done
           due == IF DOMAIN said \cap open # {} THEN DOMAIN said \cap open ELSE open
           V(c) == IF c \in DOMAIN said THEN said[c] ELSE "fail"
           p(c) == thread[s].passed + (IF V(c) = "pass" THEN 1 ELSE 0)
           f(c) == thread[s].failed + (IF V(c) = "fail" THEN 1 ELSE 0)
<1>1. ~IdleSlot(s) /\ ~Pruned(s) /\ thread[s].pc = "apply"
  BY DEF ApplyResult, ThreadAt, IdleSlot
<1>2. thread[s] \in Threads BY <1>1, SlotKinds
<1>3. ASSUME NEW c \in due,
             results' = [results EXCEPT ![c] = V(c)],
             thread' = [thread EXCEPT ![s].done = @ \cup {c},
                                      ![s].passed = p(c), ![s].failed = f(c)],
             exec' = IF c \in DOMAIN said
                     THEN [exec EXCEPT !.passed = p(c), !.failed = f(c)] ELSE exec
      PROVE  \E x \in thread[s].cases, v \in CaseVerdicts : Applies(s, x, v)
  <2>1. c \in thread[s].cases BY <1>3
  <2>2. V(c) \in CaseVerdicts BY <1>1, SaidTypes DEF CaseVerdicts
  <2>3. p(c) \in Nat /\ f(c) \in Nat BY <1>2 DEF Threads
  <2> HIDE DEF V, p, f, said
  <2>4. Applies(s, c, V(c)) BY <1>3, <2>3 DEF Applies
  <2> QED BY <2>1, <2>2, <2>4
<1>4. \/ \E c \in due :
           /\ results' = [results EXCEPT ![c] = V(c)]
           /\ thread' = [thread EXCEPT ![s].done = @ \cup {c},
                                       ![s].passed = p(c), ![s].failed = f(c)]
           /\ exec' = IF c \in DOMAIN said
                      THEN [exec EXCEPT !.passed = p(c), !.failed = f(c)] ELSE exec
      \/ open = {} /\ Moves(s, "reflect") /\ UNCHANGED <<results, exec>>
  BY DEF ApplyResult
<1> QED BY <1>1, <1>3, <1>4

LEMMA ApplyTyped ==
  ASSUME RunnerTypeOK, NEW s \in Slots, ApplyResult(s)
  PROVE  RunnerTypeOK'
<1>1. ThreadsOK /\ RowsOK /\ RestOK BY TypeParts
<1>2. ~IdleSlot(s) /\ thread[s] \in Threads BY <1>1, ApplyParts, SlotKinds
<1>3. RestOK' BY <1>1 DEF ApplyResult, RestOK
<1>4. ASSUME NEW c \in thread[s].cases, NEW v \in CaseVerdicts, Applies(s, c, v)
      PROVE  ThreadsOK' /\ RowsOK'
  <2>2. PICK p \in Nat, f \in Nat :
          /\ results' = [results EXCEPT ![c] = v]
          /\ thread' = [thread EXCEPT ![s].done = @ \cup {c}, ![s].passed = p, ![s].failed = f]
          /\ exec' = [exec EXCEPT !.passed = p, !.failed = f] \/ exec' = exec
    BY <1>4 DEF Applies
  <2> DEFINE t == [thread[s] EXCEPT !.done = @ \cup {c}, !.passed = p, !.failed = f]
  <2>3. c \in RunCases BY <1>2, <1>4 DEF Threads
  <2>4. t \in Threads /\ t.heal = thread[s].heal /\ t.cases = thread[s].cases
    <3> DEFINE d == thread[s].done \cup {c}
    <3>1. d \in SUBSET RunCases BY <1>2, <2>3 DEF Threads
    <3>2. t = [thread[s] EXCEPT !.done = d, !.passed = p, !.failed = f] OBVIOUS
    <3> HIDE DEF d, t
    <3> QED BY <3>1, <3>2, <1>2 DEF Threads
  <2>5. thread' = [thread EXCEPT ![s] = t] BY <2>2
  <2> HIDE DEF t
  <2>6. ThreadsOK' BY <1>1, <1>2, <2>4, <2>5, GoesOn
  <2>7. RowsOK' BY <1>1, <2>2, <2>3 DEF RowsOK, RowStatuses, CaseVerdicts
  <2> QED BY <2>6, <2>7
<1>5. ASSUME Moves(s, "reflect"), UNCHANGED <<results, exec>> PROVE ThreadsOK' /\ RowsOK'
  BY <1>1, <1>2, <1>5, MovesOn DEF PCs, RowsOK
<1>6. ThreadsOK' /\ RowsOK' BY <1>1, <1>4, <1>5, ApplyParts
<1> QED BY <1>3, <1>6, TypeParts

LEMMA ExecutionTyped ==
  ASSUME RunnerTypeOK, NEW s \in Slots, ExecutionStep(s)
  PROVE  RunnerTypeOK'
<1>1. ThreadsOK /\ RowsOK /\ RestOK BY TypeParts
<1>2. ~IdleSlot(s) => thread[s] \in Threads BY <1>1, SlotKinds
<1>3. ASSUME EndsThread(s) PROVE ThreadsOK' BY <1>1, <1>3, EndsWell
<1>4. ASSUME NEW pc \in PCs, Moves(s, pc), ~IdleSlot(s) PROVE ThreadsOK' BY <1>1, <1>4, MovesOn
<1>5. ASSUME NEW new \in RunStatuses, Becomes(new) PROVE status' \in RunStatuses
  BY <1>1, <1>5 DEF RestOK, Becomes
<1>6. CASE SkipCancelled(s) BY <1>1, <1>3, <1>6, TypeParts DEF SkipCancelled, RowsOK, RestOK
<1>7. CASE LoadResults(s)
  BY <1>1, <1>4, <1>7, TypeParts DEF LoadResults, ThreadAt, IdleSlot, PCs, RowsOK, RestOK
<1>8. CASE MarkRunning(s)
  <2>1. ThreadsOK' BY <1>4, <1>8 DEF MarkRunning, ThreadAt, IdleSlot, PCs
  <2>2. RowsOK' BY <1>1, <1>8 DEF MarkRunning, RowsOK, RowStatuses
  <2> QED BY <1>1, <1>8, <2>1, <2>2, TypeParts DEF MarkRunning, RestOK
<1>9. CASE RefuseMultiProject(s)
  BY <1>9, FailAllTyped DEF RefuseMultiProject, ThreadAt, IdleSlot
<1>10. CASE StageSpecs(s)
  BY <1>1, <1>4, <1>10, TypeParts DEF StageSpecs, ThreadAt, IdleSlot, PCs, RowsOK, RestOK
<1>11. CASE RefuseLogin(s)
  BY <1>11, FailAllTyped DEF RefuseLogin, ThreadAt, IdleSlot
<1>12. CASE LoginReady(s)
  BY <1>1, <1>4, <1>12, TypeParts DEF LoginReady, ThreadAt, IdleSlot, PCs, RowsOK, RestOK
<1>13. CASE BailOut(s) BY <1>1, <1>3, <1>13, TypeParts DEF BailOut, RowsOK, RestOK
<1>14. CASE InvokePlaywright(s)
  <2> DEFINE t == [thread[s] EXCEPT !.pc = "playing", !.read = NoReport]
  <2>1. ~IdleSlot(s) /\ thread[s] \in Threads
    BY <1>2, <1>14 DEF InvokePlaywright, ThreadAt, IdleSlot
  <2>2. t \in Threads /\ t.heal = thread[s].heal /\ t.cases = thread[s].cases
    BY <2>1, NoReportType DEF Threads, PCs
  <2>3. thread' = [thread EXCEPT ![s] = t] BY <1>14 DEF InvokePlaywright
  <2> HIDE DEF t
  <2>4. ThreadsOK' BY <1>1, <2>1, <2>2, <2>3, GoesOn
  <2> QED BY <1>1, <1>14, <2>4, TypeParts DEF InvokePlaywright, RowsOK, RestOK
<1>15. CASE PlaywrightReports(s)
  <2>1. ~IdleSlot(s) /\ thread[s] \in Threads
    BY <1>2, <1>15 DEF PlaywrightReports, ThreadAt, IdleSlot
  <2>2. ThreadsOK' BY <1>4, <1>15, <2>1 DEF PlaywrightReports, PCs
  <2>3. PICK ran \in SUBSET thread[s].cases : \E verdict \in [ran -> CaseVerdicts] : report' = verdict
    BY <1>15 DEF PlaywrightReports
  <2>4. ran \in SUBSET RunCases BY <2>1, <2>3 DEF Threads
  <2>5. report' \in Reports BY <2>3, <2>4 DEF Reports
  <2> QED BY <1>1, <1>15, <2>2, <2>5, TypeParts DEF PlaywrightReports, RowsOK, RestOK
<1>16. CASE PlaywrightFails(s)
  <2>1. ~IdleSlot(s) /\ thread[s] \in Threads
    BY <1>2, <1>16 DEF PlaywrightFails, ThreadAt, IdleSlot
  <2>2. PICK error \in BOOLEAN :
          thread' = [thread EXCEPT ![s].pc = "played", ![s].error = error]
    BY <1>16 DEF PlaywrightFails
  <2> DEFINE t == [thread[s] EXCEPT !.pc = "played", !.error = error]
  <2>3. t \in Threads /\ t.heal = thread[s].heal /\ t.cases = thread[s].cases
    BY <2>1 DEF Threads, PCs
  <2>4. thread' = [thread EXCEPT ![s] = t] BY <2>2
  <2> HIDE DEF t
  <2>5. ThreadsOK' BY <1>1, <2>1, <2>3, <2>4, GoesOn
  <2> QED BY <1>1, <1>16, <2>5, TypeParts DEF PlaywrightFails, RowsOK, RestOK
<1>17. CASE ReadReport(s)
  <2> DEFINE t == [thread[s] EXCEPT !.pc = "apply", !.read = Said(s)]
  <2>1. ~IdleSlot(s) /\ thread[s] \in Threads
    BY <1>2, <1>17 DEF ReadReport, ThreadAt, IdleSlot
  <2>2. Said(s) \in Reports BY <1>1, NoReportType DEF Said, RestOK
  <2>3. t \in Threads /\ t.heal = thread[s].heal /\ t.cases = thread[s].cases
    BY <2>1, <2>2 DEF Threads, PCs
  <2>4. thread' = [thread EXCEPT ![s] = t] BY <1>17 DEF ReadReport
  <2> HIDE DEF t
  <2>5. ThreadsOK' BY <1>1, <2>1, <2>3, <2>4, GoesOn
  <2> QED BY <1>1, <1>17, <2>5, TypeParts DEF ReadReport, RowsOK, RestOK
<1>18. CASE ApplyResult(s) BY <1>18, ApplyTyped
<1>19. CASE ReflectSpecs(s)
  <2>1. ThreadsOK' BY <1>4, <1>19 DEF ReflectSpecs, ThreadAt, IdleSlot, PCs
  <2>2. specs' \in [RunCases -> SpecStatuses] BY <1>1, <1>19 DEF ReflectSpecs, RestOK, SpecStatuses
  <2> QED BY <1>1, <1>19, <2>1, <2>2, TypeParts DEF ReflectSpecs, RowsOK, RestOK
<1>20. CASE Finalize(s)
  <2>1. thread[s].passed \in Nat /\ thread[s].failed \in Nat
    BY <1>2, <1>20 DEF Finalize, ThreadAt, IdleSlot, Threads
  <2>2. ThreadsOK' BY <1>3, <1>20 DEF Finalize
  <2>3. RowsOK' BY <1>1, <1>20, <2>1 DEF Finalize, RowsOK
  <2>4. status' \in RunStatuses BY <1>5, <1>20 DEF Finalize, RunStatuses
  <2> QED BY <1>1, <1>20, <2>2, <2>3, <2>4, TypeParts DEF Finalize, RestOK
<1>21. CASE ExecutionCrashes(s)
  <2>1. status' \in RunStatuses BY <1>5, <1>21 DEF ExecutionCrashes, RunStatuses, RunEnded
  <2> QED BY <1>1, <1>3, <1>21, <2>1, TypeParts DEF ExecutionCrashes, RowsOK, RestOK
<1> QED BY <1>6, <1>7, <1>8, <1>9, <1>10, <1>11, <1>12, <1>13, <1>14, <1>15, <1>16, <1>17, <1>18,
           <1>19, <1>20, <1>21 DEF ExecutionStep

LEMMA HealTyped ==
  ASSUME RunnerTypeOK, RolesHeld, NEW s \in Slots, HealStep(s)
  PROVE  RunnerTypeOK'
<1>1. ThreadsOK /\ RowsOK /\ RestOK BY TypeParts
<1>2. ~IdleSlot(s) /\ IsHeal(s)
  BY DEF HealStep, HealBegins, HealReads, HealRepairs, HealSettles, HealRecounts, ThreadAt, IdleSlot,
         RolesHeld, RoleOf, IsHeal
<1>3. thread[s] \in Threads BY <1>1, <1>2, SlotKinds
<1>4. Only(s) \in RunCases BY <1>1, <1>2, OnlyType
<1>5. CASE HealBegins(s)
  <2>1. ThreadsOK' BY <1>1, <1>2, <1>5, MovesOn DEF HealBegins, PCs
  <2>2. specs' \in [RunCases -> SpecStatuses] BY <1>1, <1>5 DEF HealBegins, RestOK, SpecStatuses
  <2> QED BY <1>1, <1>5, <2>1, <2>2, TypeParts DEF HealBegins, RowsOK, RestOK
<1>6. CASE HealReads(s)
  <2> DEFINE r == Said(s)
             green == Only(s) \in DOMAIN r /\ r[Only(s)] = "pass"
             next == IF green THEN "settle" ELSE "rehearse"
             out == IF green THEN "pass" ELSE "fail"
             t == [thread[s] EXCEPT !.read = r, !.pc = next, !.outcome = out]
  <2>1. r \in Reports BY <1>1, NoReportType DEF Said, RestOK
  <2>2. next \in PCs /\ out \in CaseVerdicts BY DEF PCs, CaseVerdicts
  <2>3. thread' = [thread EXCEPT ![s] = t] BY <1>6 DEF HealReads
  <2>4. t \in Threads /\ t.heal = thread[s].heal /\ t.cases = thread[s].cases
    <3> HIDE DEF r, next, out
    <3> QED BY <1>3, <2>1, <2>2 DEF Threads
  <2> HIDE DEF t
  <2>5. ThreadsOK' BY <1>1, <1>2, <2>3, <2>4, GoesOn
  <2> QED BY <1>1, <1>6, <2>5, TypeParts DEF HealReads, RowsOK, RestOK
<1>7. CASE HealRepairs(s)
  <2>1. ThreadsOK' /\ specs' \in [RunCases -> SpecStatuses]
    <3>1. CASE /\ thread' = [thread EXCEPT ![s].pc = "checkpoint", ![s].attempt = @ + 1,
                                           ![s].error = FALSE]
               /\ UNCHANGED specs
      <4> DEFINE a == thread[s].attempt + 1
                 t == [thread[s] EXCEPT !.pc = "checkpoint", !.attempt = a, !.error = FALSE]
      <4>1. t \in Threads /\ t.heal = thread[s].heal /\ t.cases = thread[s].cases
        <5>1. a \in Nat BY <1>3 DEF Threads
        <5> HIDE DEF a
        <5> QED BY <1>3, <5>1 DEF Threads, PCs
      <4>2. thread' = [thread EXCEPT ![s] = t] BY <3>1
      <4> HIDE DEF t
      <4>3. ThreadsOK' BY <1>1, <1>2, <4>1, <4>2, GoesOn
      <4> QED BY <1>1, <3>1, <4>3 DEF RestOK
    <3>2. CASE /\ \E end \in {specs[Only(s)], "blocked", "product_defect"} :
                    specs' = [specs EXCEPT ![Only(s)] = end]
               /\ Moves(s, "settle")
      <4>1. ThreadsOK' BY <1>1, <1>2, <3>2, MovesOn DEF PCs
      <4> QED BY <1>1, <1>4, <3>2, <4>1 DEF RestOK, SpecStatuses
    <3> QED BY <1>7, <3>1, <3>2 DEF HealRepairs
  <2> QED BY <1>1, <1>7, <2>1, TypeParts DEF HealRepairs, RowsOK, RestOK
<1>8. CASE HealSettles(s)
  <2>1. ThreadsOK' BY <1>1, <1>2, <1>8, MovesOn DEF HealSettles, PCs
  <2>2. specs' \in [RunCases -> SpecStatuses] BY <1>1, <1>8 DEF HealSettles, RestOK, SpecStatuses
  <2>3. RowsOK' BY <1>1, <1>3, <1>8 DEF HealSettles, RowsOK, RowStatuses, Threads, CaseVerdicts
  <2> QED BY <1>1, <1>8, <2>1, <2>2, <2>3, TypeParts DEF HealSettles, RestOK
<1>9. CASE HealRecounts(s)
  <2>1. ThreadsOK' BY <1>1, <1>9, EndsWell DEF HealRecounts
  <2>2. RowsOK' BY <1>1, <1>9, TallyType DEF HealRecounts, RowsOK
  <2> QED BY <1>1, <1>9, <2>1, <2>2, TypeParts DEF HealRecounts, RestOK
<1> QED BY <1>5, <1>6, <1>7, <1>8, <1>9 DEF HealStep

LEMMA StopTyped ==
  ASSUME RunnerTypeOK, Stop
  PROVE  RunnerTypeOK'
<1>1. ThreadsOK /\ RowsOK /\ RestOK BY TypeParts
<1>2. ASSUME NEW s \in Slots
      PROVE  /\ thread'[s] \in Threads \cup {NoThread}
             /\ ~IdleSlot(s)' => ~IdleSlot(s) /\ thread'[s].heal = thread[s].heal
                                 /\ thread'[s].cases = thread[s].cases
  <2>1. CASE ThreadAt(s, "playing")
    <3>1. ~IdleSlot(s) /\ thread[s] \in Threads BY <1>1, <2>1, SlotKinds DEF ThreadAt, IdleSlot
    <3> QED BY <2>1, <3>1 DEF Stop, Threads, PCs
  <2>2. CASE ~ThreadAt(s, "playing")
    BY <1>1, <2>2 DEF Stop, ThreadsOK, IdleSlot
  <2> QED BY <2>1, <2>2
<1>3. ThreadsOK' BY <1>1, <1>2 DEF ThreadsOK, IdleSlot, IsHeal, Stop
<1>4. RowsOK' BY <1>1 DEF Stop, RowsOK, RowStatuses
<1>5. RestOK' BY <1>1 DEF Stop, RestOK, Becomes, RunStatuses, RunEnded, SpecStatuses
<1> QED BY <1>3, <1>4, <1>5, TypeParts

LEMMA RunnerStepTyped ==
  ASSUME RunnerTypeOK, RolesHeld, [RunnerNext]_runnerVars
  PROVE  RunnerTypeOK'
<1>1. CASE RunnerNext
  BY <1>1, ExecutionTyped, HealTyped, StartTyped, StopTyped DEF RunnerNext
<1>2. CASE UNCHANGED runnerVars
  BY <1>2 DEF runnerVars, RunnerTypeOK, IdleSlot, IsHeal
<1> QED BY <1>1, <1>2

LEMMA RunnerInitTyped == RunnerInit => RunnerTypeOK
<1> SUFFICES ASSUME RunnerInit PROVE RunnerTypeOK OBVIOUS
<1> QED BY NoReportType DEF RunnerInit, RunnerTypeOK, RunStatuses, RowStatuses, SpecStatuses, IdleSlot, NoThread

-----------------------------------------------------------------------------
LEMMA InvParts ==
  /\ RunnerInv <=> RolesHeld /\ OneCurrent /\ RowsFollow /\ DoneIsFinal
  /\ RunnerInv' <=> RolesHeld' /\ OneCurrent' /\ RowsFollow' /\ DoneIsFinal'
BY DEF RunnerInv

\* A thread goes on and neither the execution nor its rows change.
LEMMA KeepsWorking ==
  ASSUME ThreadsOK, RunnerInv, NEW s \in Slots, ~IdleSlot(s), NEW t \in Threads,
         thread' = [thread EXCEPT ![s] = t], UNCHANGED <<exec, results>>,
         t.heal = thread[s].heal, t.no = thread[s].no, RoleOf(t),
         Current(s) => Answers(t)
  PROVE  RunnerInv'
<1>1. \A u \in Slots : thread'[u] = IF u = s THEN t ELSE thread[u] BY DEF ThreadsOK
<1>2. RolesHeld' BY <1>1 DEF RunnerInv, RolesHeld, RoleOf, IdleSlot
<1>3. \A u \in Slots : Own(u)' => Own(u) /\ thread'[u].no = thread[u].no
  BY <1>1 DEF Own, IdleSlot, IsHeal
<1>4. OneCurrent' BY <1>3 DEF RunnerInv, OneCurrent
<1>5. RowsFollow'
  <2> SUFFICES ASSUME NEW u \in Slots, Current(u)' PROVE exec'.status # "done" /\ Answers(thread[u])'
    BY DEF RowsFollow
  <2>1. Current(u) BY <1>3 DEF Current
  <2>2. exec.status # "done" /\ Answers(thread[u]) BY <2>1 DEF RunnerInv, RowsFollow
  <2>3. Answers(thread'[u]) BY <1>1, <2>1, <2>2
  <2> QED BY <2>2, <2>3 DEF Answers, Final
<1>6. DoneIsFinal' BY DEF RunnerInv, DoneIsFinal
<1> QED BY <1>2, <1>4, <1>5, <1>6, InvParts

\* A thread ends and its execution, if it was the latest, is as it was or done.
LEMMA EndsWorking ==
  ASSUME ThreadsOK, RunnerInv, NEW s \in Slots, ~IdleSlot(s), EndsThread(s), exec'.no = exec.no,
         \/ exec'.status = exec.status /\ results' = results
         \/ Current(s) /\ DoneIsFinal'
  PROVE  RunnerInv'
<1>1. \A u \in Slots : thread'[u] = IF u = s THEN NoThread ELSE thread[u]
  BY DEF ThreadsOK, EndsThread
<1>2. RolesHeld' BY <1>1 DEF RunnerInv, RolesHeld, RoleOf, IdleSlot, NoThread
<1>3. \A u \in Slots : Own(u)' => u # s /\ Own(u) /\ thread'[u].no = thread[u].no
  BY <1>1 DEF Own, IdleSlot, IsHeal, NoThread
<1>4. OneCurrent' BY <1>3 DEF RunnerInv, OneCurrent
<1>5. RowsFollow'
  <2> SUFFICES ASSUME NEW u \in Slots, Current(u)' PROVE exec'.status # "done" /\ Answers(thread[u])'
    BY DEF RowsFollow
  <2>1. u # s /\ Current(u) BY <1>3 DEF Current
  <2>2. ~Current(s) BY <2>1 DEF Current, RunnerInv, OneCurrent
  <2>3. exec.status # "done" /\ Answers(thread[u]) BY <2>1 DEF RunnerInv, RowsFollow
  <2>4. Answers(thread'[u]) BY <1>1, <2>1, <2>3
  <2> QED BY <2>2, <2>3, <2>4 DEF Answers, Final
<1>6. DoneIsFinal' BY DEF RunnerInv, DoneIsFinal
<1> QED BY <1>2, <1>4, <1>5, <1>6, InvParts

\* A new execution: every thread there is works on one before it.
LEMMA ExecuteKeeps ==
  ASSUME RunnerTypeOK, RunnerInv, NEW s \in Slots, NEW cases \in SUBSET RunCases,
         Spawned(s, cases, FALSE),
         exec' = [no |-> exec.no + 1, status |-> "running", passed |-> 0, failed |-> 0],
         results' = [c \in RunCases |-> IF c \in cases THEN "pending" ELSE "none"]
  PROVE  RunnerInv'
<1>1. ThreadsOK /\ RowsOK BY TypeParts
<1>2. \A u \in Slots : u # s => thread'[u] = thread[u] BY <1>1 DEF ThreadsOK, Spawned
<1>3. /\ thread'[s].pc = "load" /\ ~thread'[s].heal /\ thread'[s].cases = cases
      /\ thread'[s].no = exec.no + 1 /\ thread'[s].done = {}
  BY <1>1 DEF ThreadsOK, Spawned
<1>4. exec.no \in Nat /\ exec'.no = exec.no + 1 /\ exec'.status = "running" BY <1>1 DEF RowsOK
<1>5. RolesHeld' BY <1>2, <1>3 DEF RunnerInv, RolesHeld, RoleOf, IdleSlot
<1>6. \A u \in Slots : u # s /\ Own(u)' =>
         Own(u) /\ thread'[u].no = thread[u].no /\ thread[u] \in Threads /\ thread[u].no <= exec.no
  BY <1>1, <1>2, SlotKinds DEF Own, IdleSlot, IsHeal, RunnerInv, OneCurrent
<1>7. \A u \in Slots : u # s /\ Own(u)' => thread'[u].no < exec'.no
  BY <1>4, <1>6 DEF Threads
<1>8. OneCurrent'
  <2>1. ASSUME NEW u \in Slots, Own(u)' PROVE thread'[u].no <= exec'.no
    BY <1>3, <1>4, <1>6, <1>7, <2>1 DEF Threads
  <2>2. ASSUME NEW u \in Slots, NEW v \in Slots, Own(u)', Own(v)', thread'[u].no = thread'[v].no
        PROVE  u = v
    BY <1>2, <1>3, <1>4, <1>6, <1>7, <2>2 DEF RunnerInv, OneCurrent, Threads
  <2> QED BY <2>1, <2>2 DEF OneCurrent
<1>9. RowsFollow'
  <2> SUFFICES ASSUME NEW u \in Slots, Current(u)' PROVE exec'.status # "done" /\ Answers(thread[u])'
    BY DEF RowsFollow
  <2>1. u = s BY <1>4, <1>6, <1>7 DEF Current, Threads
  <2> QED BY <1>3, <1>4, <2>1 DEF Answers
<1>10. DoneIsFinal' BY <1>4 DEF DoneIsFinal
<1> QED BY <1>5, <1>8, <1>9, <1>10, InvParts

LEMMA StartKeeps ==
  ASSUME RunnerTypeOK, RunnerInv, NEW s \in Slots,
         \/ StartExecution(s) \/ Retry(s)
         \/ \E c \in RunCases : RunSingleSpec(s, c) \/ StartHeal(s, c)
  PROVE  RunnerInv'
<1>1. ThreadsOK BY TypeParts
<1>2. ASSUME NEW cases \in SUBSET RunCases, Execute(s, cases) PROVE RunnerInv'
  BY <1>2, ExecuteKeeps DEF Execute
<1>3. CASE StartExecution(s) BY <1>2, <1>3 DEF StartExecution
<1>4. CASE Retry(s)
  <2> DEFINE cases == {c \in RunCases : specs[c] \notin {"blocked", "product_defect"}}
  <2> QED BY <1>4, ExecuteKeeps DEF Retry
<1>5. ASSUME NEW c \in RunCases, RunSingleSpec(s, c) PROVE RunnerInv'
  BY <1>2, <1>5 DEF RunSingleSpec
<1>6. ASSUME NEW c \in RunCases, StartHeal(s, c) PROVE RunnerInv'
  <2>1. Spawned(s, {c}, TRUE) /\ UNCHANGED <<exec, results>> BY <1>6 DEF StartHeal
  <2>2. \A u \in Slots : u # s => thread'[u] = thread[u] BY <1>1, <2>1 DEF ThreadsOK, Spawned
  <2>3. thread'[s].pc = "load" /\ thread'[s].heal BY <1>1, <2>1 DEF ThreadsOK, Spawned
  <2>4. \A u \in Slots : Own(u)' => Own(u) /\ thread'[u] = thread[u]
    BY <2>2, <2>3 DEF Own, IdleSlot, IsHeal
  <2>5. RolesHeld' BY <2>2, <2>3 DEF RunnerInv, RolesHeld, RoleOf, IdleSlot
  <2>6. OneCurrent' BY <2>1, <2>4 DEF RunnerInv, OneCurrent
  <2>7. RowsFollow'
    <3> SUFFICES ASSUME NEW u \in Slots, Current(u)' PROVE exec'.status # "done" /\ Answers(thread[u])'
      BY DEF RowsFollow
    <3>1. Current(u) /\ thread'[u] = thread[u] BY <2>1, <2>4 DEF Current
    <3>2. exec.status # "done" /\ Answers(thread[u]) BY <3>1 DEF RunnerInv, RowsFollow
    <3> QED BY <2>1, <3>1, <3>2 DEF Answers, Final
  <2>8. DoneIsFinal' BY <2>1 DEF RunnerInv, DoneIsFinal
  <2> QED BY <2>5, <2>6, <2>7, <2>8, InvParts
<1> QED BY <1>3, <1>4, <1>5, <1>6

\* Every case of the execution fails at once.
LEMMA FailAllKeeps ==
  ASSUME RunnerTypeOK, RunnerInv, NEW s \in Slots, Own(s), ~Pruned(s), FailAllResults(s)
  PROVE  RunnerInv'
<1>1. ThreadsOK /\ RowsOK BY TypeParts
<1>2. Current(s) BY DEF Pruned, Current
<1>3. Answers(thread[s]) BY <1>2 DEF RunnerInv, RowsFollow
<1>4. DoneIsFinal'
  <2> SUFFICES ASSUME NEW c \in RunCases PROVE results'[c] \notin {"pending", "running"}
    BY DEF DoneIsFinal
  <2> QED BY <1>3 DEF FailAllResults, Answers
<1>5. exec'.no = exec.no BY <1>1 DEF FailAllResults, RowsOK
<1> QED BY <1>1, <1>2, <1>4, <1>5, EndsWorking DEF FailAllResults, Own

\* A thread passes from one step to another without touching the rows.
LEMMA MovesKeeps ==
  ASSUME ThreadsOK, RunnerInv, NEW s \in Slots, ~IdleSlot(s), NEW pc \in PCs, Moves(s, pc),
         UNCHANGED <<exec, results>>, RoleOf([thread[s] EXCEPT !.pc = pc]),
         Current(s) => Answers([thread[s] EXCEPT !.pc = pc])
  PROVE  RunnerInv'
<1> DEFINE t == [thread[s] EXCEPT !.pc = pc]
<1>1. thread[s] \in Threads BY SlotKinds
<1>2. t \in Threads /\ t.heal = thread[s].heal /\ t.no = thread[s].no BY <1>1 DEF Threads
<1>3. thread' = [thread EXCEPT ![s] = t] BY DEF Moves
<1>4. RoleOf(t) /\ (Current(s) => Answers(t)) OBVIOUS
<1> HIDE DEF t
<1> QED BY <1>2, <1>3, <1>4, KeepsWorking

LEMMA MarkKeeps ==
  ASSUME RunnerTypeOK, RunnerInv, NEW s \in Slots, MarkRunning(s)
  PROVE  RunnerInv'
<1>1. ThreadsOK /\ RowsOK BY TypeParts
<1>2. ~IdleSlot(s) /\ thread[s].pc = "mark" BY DEF MarkRunning, ThreadAt, IdleSlot
<1>3. Own(s) /\ Current(s) BY <1>2 DEF RunnerInv, RolesHeld, RoleOf, Own, IsHeal, Current, MarkRunning, Pruned
<1>4. thread[s] \in Threads /\ exec.status # "done" /\ Answers(thread[s])
  BY <1>1, <1>2, <1>3, SlotKinds DEF RunnerInv, RowsFollow
<1>5. /\ \A u \in Slots : u # s => thread'[u] = thread[u]
      /\ thread'[s] = [thread[s] EXCEPT !.pc = "stage"] /\ exec' = exec
  BY <1>1 DEF ThreadsOK, MarkRunning, Moves
<1>6. /\ thread'[s].pc = "stage" /\ thread'[s].heal = thread[s].heal /\ thread'[s].no = thread[s].no
      /\ thread'[s].cases = thread[s].cases /\ thread'[s].done = thread[s].done
  BY <1>4, <1>5 DEF Threads
<1>7. RolesHeld' BY <1>3, <1>5, <1>6 DEF RunnerInv, RolesHeld, RoleOf, IdleSlot, Own, IsHeal
<1>8. \A u \in Slots : Own(u)' => Own(u) /\ thread'[u].no = thread[u].no
  BY <1>2, <1>5, <1>6 DEF Own, IdleSlot, IsHeal
<1>9. OneCurrent' BY <1>5, <1>8 DEF RunnerInv, OneCurrent
<1>10. RowsFollow'
  <2> SUFFICES ASSUME NEW u \in Slots, Current(u)' PROVE exec'.status # "done" /\ Answers(thread[u])'
    BY DEF RowsFollow
  <2>1. u = s BY <1>3, <1>5, <1>8 DEF Current, RunnerInv, OneCurrent
  <2>2. thread[s].done = {} BY <1>2, <1>4 DEF Answers
  <2>3. {c \in RunCases : results'[c] # "none"} \subseteq thread[s].cases
    BY <1>4 DEF MarkRunning, Answers
  <2> QED BY <1>4, <1>5, <1>6, <2>1, <2>2, <2>3 DEF Answers
<1>11. DoneIsFinal' BY <1>4, <1>5 DEF DoneIsFinal
<1> QED BY <1>7, <1>9, <1>10, <1>11, InvParts

LEMMA ApplyKeeps ==
  ASSUME RunnerTypeOK, RunnerInv, NEW s \in Slots, ApplyResult(s)
  PROVE  RunnerInv'
<1>1. ThreadsOK /\ RowsOK BY TypeParts
<1>2. ~IdleSlot(s) /\ ~Pruned(s) /\ thread[s].pc = "apply" BY <1>1, ApplyParts
<1>3. Own(s) /\ Current(s) BY <1>2 DEF RunnerInv, RolesHeld, RoleOf, Own, IsHeal, Current, Pruned
<1>4. thread[s] \in Threads /\ exec.status # "done" /\ Answers(thread[s])
  BY <1>1, <1>2, <1>3, SlotKinds DEF RunnerInv, RowsFollow
<1>5. ASSUME NEW c \in thread[s].cases, NEW v \in CaseVerdicts, Applies(s, c, v) PROVE RunnerInv'
  <2>1. /\ results' = [results EXCEPT ![c] = v]
        /\ exec'.no = exec.no /\ exec'.status = exec.status
        /\ \A u \in Slots : u # s => thread'[u] = thread[u]
        /\ thread'[s].pc = "apply" /\ thread'[s].heal = thread[s].heal
        /\ thread'[s].no = thread[s].no /\ thread'[s].cases = thread[s].cases
        /\ thread'[s].done = thread[s].done \cup {c}
    <3>1. PICK p \in Nat, f \in Nat :
            /\ results' = [results EXCEPT ![c] = v]
            /\ thread' = [thread EXCEPT ![s].done = @ \cup {c}, ![s].passed = p, ![s].failed = f]
            /\ exec' = [exec EXCEPT !.passed = p, !.failed = f] \/ exec' = exec
      BY <1>5 DEF Applies
    <3>2. exec'.no = exec.no /\ exec'.status = exec.status BY <1>1, <3>1 DEF RowsOK
    <3> DEFINE d == thread[s].done \cup {c}
    <3>3. /\ \A u \in Slots : u # s => thread'[u] = thread[u]
          /\ thread'[s] = [thread[s] EXCEPT !.done = d, !.passed = p, !.failed = f]
      BY <1>1, <3>1 DEF ThreadsOK
    <3> HIDE DEF d
    <3>4. /\ thread'[s].pc = thread[s].pc /\ thread'[s].heal = thread[s].heal
          /\ thread'[s].no = thread[s].no /\ thread'[s].cases = thread[s].cases
          /\ thread'[s].done = d
      BY <1>4, <3>3 DEF Threads
    <3> QED BY <1>2, <3>1, <3>2, <3>3, <3>4 DEF d
  <2>2. c \in RunCases /\ results' \in [RunCases -> RowStatuses] /\ results'[c] = v
    BY <1>1, <1>4, <2>1 DEF Threads, RowsOK, RowStatuses, CaseVerdicts
  <2>3. RolesHeld' BY <1>3, <2>1 DEF RunnerInv, RolesHeld, RoleOf, IdleSlot, Own, IsHeal
  <2>4. \A u \in Slots : Own(u)' => Own(u) /\ thread'[u].no = thread[u].no
    BY <1>2, <2>1 DEF Own, IdleSlot, IsHeal
  <2>5. OneCurrent' BY <2>1, <2>4 DEF RunnerInv, OneCurrent
  <2>6. RowsFollow'
    <3> SUFFICES ASSUME NEW u \in Slots, Current(u)' PROVE exec'.status # "done" /\ Answers(thread[u])'
      BY DEF RowsFollow
    <3>1. u = s BY <1>3, <2>1, <2>4 DEF Current, RunnerInv, OneCurrent
    <3>2. {x \in RunCases : results'[x] # "none"} \subseteq thread[s].cases
      BY <1>1, <1>4, <2>1 DEF Answers, RowsOK
    <3>3. \A x \in thread[s].done \cup {c} : results'[x] \notin {"pending", "running"}
      BY <1>1, <1>4, <2>1, <2>2 DEF Answers, Final, RowsOK, Threads, CaseVerdicts
    <3> QED BY <1>4, <2>1, <3>1, <3>2, <3>3 DEF Answers, Final
  <2>7. DoneIsFinal' BY <1>4, <2>1 DEF DoneIsFinal
  <2> QED BY <2>3, <2>5, <2>6, <2>7, InvParts
<1>6. ASSUME thread[s].cases \subseteq thread[s].done, Moves(s, "reflect"), UNCHANGED <<results, exec>>
      PROVE  RunnerInv'
  <2>1. RoleOf([thread[s] EXCEPT !.pc = "reflect"])
    BY <1>3, <1>4 DEF RoleOf, Own, IsHeal, Threads
  <2>2. Answers([thread[s] EXCEPT !.pc = "reflect"])
    BY <1>4, <1>6 DEF Answers, Threads
  <2> QED BY <1>1, <1>2, <1>6, <2>1, <2>2, MovesKeeps DEF PCs
<1> QED BY <1>1, <1>5, <1>6, ApplyParts

LEMMA ExecutionKeeps ==
  ASSUME RunnerTypeOK, RunnerInv, NEW s \in Slots, ExecutionStep(s)
  PROVE  RunnerInv'
<1>1. ThreadsOK /\ RowsOK /\ RolesHeld BY TypeParts DEF RunnerInv
<1>2. ~IdleSlot(s)
  BY DEF ExecutionStep, SkipCancelled, LoadResults, MarkRunning, RefuseMultiProject, StageSpecs, RefuseLogin,
         LoginReady, BailOut, InvokePlaywright, PlaywrightReports, PlaywrightFails, ReadReport,
         ApplyResult, ReflectSpecs, Finalize, ExecutionCrashes, ThreadAt, IdleSlot
<1>3. thread[s] \in Threads /\ RoleOf(thread[s]) BY <1>1, <1>2, SlotKinds DEF RolesHeld
<1>4. Current(s) => exec.status # "done" /\ Answers(thread[s]) BY DEF RunnerInv, RowsFollow
\* A step that only moves the thread, to no step of an opposite kind.
<1>5. ASSUME NEW from \in PCs \ {"apply"}, NEW pc \in PCs, thread[s].pc = from, Moves(s, pc),
             UNCHANGED <<exec, results>>,
             pc \in {"mark", "stage", "login"} => ~IsHeal(s),
             pc \notin {"rehearse", "settle", "recount", "apply"},
             (pc \in {"reflect", "finalize"} <=> from \in {"reflect", "finalize"}),
             pc \in {"reflect", "finalize"} => ~IsHeal(s)
      PROVE  RunnerInv'
  <2> DEFINE t == [thread[s] EXCEPT !.pc = pc]
  <2>1. /\ t.pc = pc /\ t.heal = thread[s].heal /\ t.cases = thread[s].cases /\ t.done = thread[s].done
    BY <1>3 DEF Threads
  <2> HIDE DEF t
  <2>2. RoleOf(t) BY <1>5, <2>1 DEF RoleOf, IsHeal
  <2>3. Current(s) => Answers(t) BY <1>4, <1>5, <2>1 DEF Answers
  <2> QED BY <1>1, <1>2, <1>5, <2>2, <2>3, MovesKeeps DEF t
<1>6. ASSUME EndsThread(s), UNCHANGED <<exec, results>> PROVE RunnerInv'
  BY <1>1, <1>2, <1>6, EndsWorking
<1>7. CASE SkipCancelled(s) BY <1>6, <1>7 DEF SkipCancelled
<1>8. CASE LoadResults(s) BY <1>5, <1>8 DEF LoadResults, ThreadAt, PCs
<1>9. CASE MarkRunning(s) BY <1>9, MarkKeeps
<1>10. CASE RefuseMultiProject(s)
  BY <1>2, <1>3, <1>10, FailAllKeeps DEF RefuseMultiProject, ThreadAt, RoleOf, Own, IsHeal
<1>11. CASE StageSpecs(s)
  BY <1>3, <1>5, <1>11 DEF StageSpecs, ThreadAt, PCs, RoleOf, IsHeal
<1>12. CASE RefuseLogin(s)
  BY <1>2, <1>3, <1>12, FailAllKeeps DEF RefuseLogin, ThreadAt, RoleOf, Own, IsHeal
<1>13. CASE LoginReady(s) BY <1>5, <1>13 DEF LoginReady, ThreadAt, PCs
<1>14. CASE BailOut(s) BY <1>6, <1>14 DEF BailOut
<1>15. CASE InvokePlaywright(s)
  <2> DEFINE t == [thread[s] EXCEPT !.pc = "playing", !.read = NoReport]
  <2>1. thread[s].pc = "checkpoint" BY <1>15 DEF InvokePlaywright, ThreadAt
  <2>2. /\ t \in Threads /\ t.pc = "playing" /\ t.heal = thread[s].heal /\ t.no = thread[s].no
        /\ t.cases = thread[s].cases /\ t.done = thread[s].done
    <3>1. NoReport \in Reports BY NoReportType
    <3> QED BY <1>3, <3>1 DEF Threads, PCs
  <2>3. thread' = [thread EXCEPT ![s] = t] /\ UNCHANGED <<exec, results>> BY <1>15 DEF InvokePlaywright
  <2> HIDE DEF t
  <2>4. RoleOf(t) BY <2>2 DEF RoleOf
  <2>5. Current(s) => Answers(t) BY <1>4, <2>1, <2>2 DEF Answers
  <2> QED BY <1>1, <1>2, <2>2, <2>3, <2>4, <2>5, KeepsWorking
<1>16. CASE PlaywrightReports(s) BY <1>5, <1>16 DEF PlaywrightReports, ThreadAt, PCs
<1>17. CASE PlaywrightFails(s)
  <2>1. PICK error \in BOOLEAN :
          thread' = [thread EXCEPT ![s].pc = "played", ![s].error = error]
    BY <1>17 DEF PlaywrightFails
  <2> DEFINE t == [thread[s] EXCEPT !.pc = "played", !.error = error]
  <2>2. thread[s].pc = "playing" BY <1>17 DEF PlaywrightFails, ThreadAt
  <2>3. /\ t \in Threads /\ t.pc = "played" /\ t.heal = thread[s].heal /\ t.no = thread[s].no
        /\ t.cases = thread[s].cases /\ t.done = thread[s].done
    BY <1>3 DEF Threads, PCs
  <2>4. thread' = [thread EXCEPT ![s] = t] /\ UNCHANGED <<exec, results>>
    BY <1>17, <2>1 DEF PlaywrightFails
  <2> HIDE DEF t
  <2>5. RoleOf(t) BY <2>3 DEF RoleOf
  <2>6. Current(s) => Answers(t) BY <1>4, <2>2, <2>3 DEF Answers
  <2> QED BY <1>1, <1>2, <2>3, <2>4, <2>5, <2>6, KeepsWorking
<1>18. CASE ReadReport(s)
  <2> DEFINE r == Said(s)
             t == [thread[s] EXCEPT !.pc = "apply", !.read = r]
  <2>1. thread[s].pc = "played" /\ ~IsHeal(s) BY <1>18 DEF ReadReport, ThreadAt
  <2>2. r \in Reports BY TypeParts, NoReportType DEF Said, RestOK
  <2>3. /\ t \in Threads /\ t.pc = "apply" /\ t.heal = thread[s].heal /\ t.no = thread[s].no
        /\ t.cases = thread[s].cases /\ t.done = thread[s].done
    <3> HIDE DEF r
    <3> QED BY <1>3, <2>2 DEF Threads, PCs
  <2>4. thread' = [thread EXCEPT ![s] = t] /\ UNCHANGED <<exec, results>> BY <1>18 DEF ReadReport
  <2> HIDE DEF t
  <2>5. RoleOf(t) BY <2>1, <2>3 DEF RoleOf, IsHeal
  <2>6. Current(s) => Answers(t) BY <1>4, <2>1, <2>3 DEF Answers
  <2> QED BY <1>1, <1>2, <2>3, <2>4, <2>5, <2>6, KeepsWorking
<1>19. CASE ApplyResult(s) BY <1>19, ApplyKeeps
<1>20. CASE ReflectSpecs(s)
  BY <1>3, <1>5, <1>20 DEF ReflectSpecs, ThreadAt, PCs, RoleOf, IsHeal
<1>21. CASE Finalize(s)
  <2>1. thread[s].pc = "finalize" /\ ~Pruned(s) BY <1>21 DEF Finalize, ThreadAt
  <2>2. Current(s) BY <1>2, <1>3, <2>1 DEF Current, Own, IsHeal, RoleOf, Pruned
  <2>3. thread[s].done = thread[s].cases /\ Answers(thread[s]) BY <1>4, <2>1, <2>2 DEF Answers
  <2>4. DoneIsFinal' BY <1>21, <2>3 DEF DoneIsFinal, Finalize, Answers, Final
  <2>5. exec'.no = exec.no BY <1>1, <1>21 DEF Finalize, RowsOK
  <2> QED BY <1>1, <1>2, <1>21, <2>2, <2>4, <2>5, EndsWorking DEF Finalize
<1>22. CASE ExecutionCrashes(s) BY <1>6, <1>22 DEF ExecutionCrashes
<1> QED BY <1>7, <1>8, <1>9, <1>10, <1>11, <1>12, <1>13, <1>14, <1>15, <1>16, <1>17, <1>18, <1>19,
           <1>20, <1>21, <1>22 DEF ExecutionStep

LEMMA HealKeeps ==
  ASSUME RunnerTypeOK, RunnerInv, NEW s \in Slots, HealStep(s)
  PROVE  RunnerInv'
<1>1. ThreadsOK /\ RowsOK /\ RestOK /\ RolesHeld BY TypeParts DEF RunnerInv
<1>2. ~IdleSlot(s) /\ IsHeal(s)
  BY DEF HealStep, HealBegins, HealReads, HealRepairs, HealSettles, HealRecounts, ThreadAt, IdleSlot,
         RunnerInv, RolesHeld, RoleOf, IsHeal
<1>3. thread[s] \in Threads /\ ~Current(s) BY <1>1, <1>2, SlotKinds DEF Current, Own
<1>4. ASSUME NEW pc \in {"checkpoint", "settle", "recount"}, Moves(s, pc), UNCHANGED <<exec, results>>
      PROVE  RunnerInv'
  <2> DEFINE t == [thread[s] EXCEPT !.pc = pc]
  <2>1. t.pc = pc /\ t.heal BY <1>2, <1>3 DEF Threads, IsHeal
  <2> HIDE DEF t
  <2>2. RoleOf(t) BY <2>1 DEF RoleOf
  <2> QED BY <1>1, <1>2, <1>3, <1>4, <2>2, MovesKeeps DEF PCs, t
<1>5. CASE HealBegins(s) BY <1>4, <1>5 DEF HealBegins
<1>6. CASE HealReads(s)
  <2> DEFINE r == Said(s)
             green == Only(s) \in DOMAIN r /\ r[Only(s)] = "pass"
             next == IF green THEN "settle" ELSE "rehearse"
             out == IF green THEN "pass" ELSE "fail"
             t == [thread[s] EXCEPT !.read = r, !.pc = next, !.outcome = out]
  <2>1. r \in Reports BY <1>1, NoReportType DEF Said, RestOK
  <2>2. next \in {"settle", "rehearse"} /\ out \in CaseVerdicts BY DEF CaseVerdicts
  <2>3. thread' = [thread EXCEPT ![s] = t] /\ UNCHANGED <<exec, results>> BY <1>6 DEF HealReads
  <2>4. /\ t \in Threads /\ t.heal = thread[s].heal /\ t.no = thread[s].no
        /\ t.pc \in {"settle", "rehearse"}
    <3> HIDE DEF r, next, out
    <3> QED BY <1>3, <2>1, <2>2 DEF Threads, PCs
  <2> HIDE DEF t
  <2>5. RoleOf(t) BY <1>2, <2>4 DEF RoleOf, IsHeal
  <2> QED BY <1>1, <1>2, <1>3, <2>3, <2>4, <2>5, KeepsWorking
<1>7. CASE HealRepairs(s)
  <2>1. UNCHANGED <<exec, results>> BY <1>7 DEF HealRepairs
  <2>2. CASE thread' = [thread EXCEPT ![s].pc = "checkpoint", ![s].attempt = @ + 1,
                                      ![s].error = FALSE]
    <3> DEFINE a == thread[s].attempt + 1
               t == [thread[s] EXCEPT !.pc = "checkpoint", !.attempt = a, !.error = FALSE]
    <3>1. /\ t \in Threads /\ t.heal = thread[s].heal /\ t.no = thread[s].no
          /\ t.pc = "checkpoint"
      <4>1. a \in Nat BY <1>3 DEF Threads
      <4> HIDE DEF a
      <4> QED BY <1>3, <4>1 DEF Threads, PCs
    <3>2. thread' = [thread EXCEPT ![s] = t] BY <2>2
    <3> HIDE DEF t
    <3>3. RoleOf(t) BY <3>1 DEF RoleOf
    <3> QED BY <1>1, <1>2, <1>3, <2>1, <3>1, <3>2, <3>3, KeepsWorking
  <2>3. CASE Moves(s, "settle") BY <1>4, <2>1, <2>3
  <2> QED BY <1>7, <2>2, <2>3 DEF HealRepairs
<1>8. CASE HealSettles(s)
  <2>1. Only(s) \in RunCases /\ thread[s].outcome \in CaseVerdicts
    BY <1>1, <1>2, <1>3, OnlyType DEF Threads
  <2>2. \A c \in RunCases : /\ (results'[c] = "none") <=> (results[c] = "none")
                            /\ results[c] \notin {"pending", "running"}
                                 => results'[c] \notin {"pending", "running"}
    BY <1>1, <1>8, <2>1 DEF HealSettles, RowsOK, CaseVerdicts
  <2>3. /\ \A u \in Slots : u # s => thread'[u] = thread[u]
        /\ thread'[s].pc = "recount" /\ thread'[s].heal /\ exec' = exec
    BY <1>1, <1>2, <1>3, <1>8 DEF HealSettles, Moves, ThreadsOK, Threads, IsHeal
  <2>4. RolesHeld' BY <1>1, <2>3 DEF RolesHeld, RoleOf, IdleSlot
  <2>5. \A u \in Slots : Own(u)' => Own(u) /\ thread'[u] = thread[u]
    BY <2>3 DEF Own, IdleSlot, IsHeal
  <2>6. OneCurrent' BY <2>3, <2>5 DEF RunnerInv, OneCurrent
  <2>7. RowsFollow'
    <3> SUFFICES ASSUME NEW u \in Slots, Current(u)' PROVE exec'.status # "done" /\ Answers(thread[u])'
      BY DEF RowsFollow
    <3>1. Current(u) /\ thread'[u] = thread[u] BY <2>3, <2>5 DEF Current
    <3>2. exec.status # "done" /\ Answers(thread[u]) /\ thread[u] \in Threads
      BY <1>1, <3>1, SlotKinds DEF RunnerInv, RowsFollow, Current, Own
    <3>3. thread[u].done \subseteq RunCases BY <3>2 DEF Threads
    <3>4. \A c \in thread[u].done : results'[c] \notin {"pending", "running"}
      BY <2>2, <3>2, <3>3 DEF Answers, Final
    <3>5. {c \in RunCases : results'[c] # "none"} \subseteq thread[u].cases
      BY <2>2, <3>2 DEF Answers
    <3> QED BY <2>3, <3>1, <3>2, <3>4, <3>5 DEF Answers, Final
  <2>8. DoneIsFinal' BY <2>2, <2>3 DEF RunnerInv, DoneIsFinal
  <2> QED BY <2>4, <2>6, <2>7, <2>8, InvParts
<1>9. CASE HealRecounts(s)
  <2>1. exec'.no = exec.no /\ exec'.status = exec.status /\ results' = results
    BY <1>1, <1>9 DEF HealRecounts, RowsOK
  <2> QED BY <1>1, <1>2, <1>9, <2>1, EndsWorking DEF HealRecounts
<1> QED BY <1>5, <1>6, <1>7, <1>8, <1>9 DEF HealStep

\* A stop takes no execution to done, and makes no row run.
LEMMA StopKeeps ==
  ASSUME RunnerTypeOK, RunnerInv, Stop
  PROVE  RunnerInv'
<1>1. ThreadsOK /\ RowsOK /\ RolesHeld BY TypeParts DEF RunnerInv
<1>2. ASSUME NEW s \in Slots
      PROVE  /\ IdleSlot(s)' => IdleSlot(s)
             /\ ~IdleSlot(s)' => /\ ~IdleSlot(s) /\ thread[s] \in Threads
                                 /\ thread'[s].heal = thread[s].heal /\ thread'[s].no = thread[s].no
                                 /\ thread'[s].cases = thread[s].cases
                                 /\ thread'[s].done = thread[s].done
                                 /\ \/ thread'[s].pc = thread[s].pc
                                    \/ thread[s].pc = "playing" /\ thread'[s].pc = "played"
  <2>1. CASE ThreadAt(s, "playing")
    <3>1. ~IdleSlot(s) /\ thread[s] \in Threads BY <1>1, <2>1, SlotKinds DEF ThreadAt, IdleSlot
    <3>2. thread'[s] = [thread[s] EXCEPT !.pc = "played"] BY <2>1 DEF Stop
    <3> QED BY <2>1, <3>1, <3>2 DEF Threads, ThreadAt, IdleSlot
  <2>2. CASE ~ThreadAt(s, "playing")
    <3>1. thread'[s] = thread[s] BY <2>2 DEF Stop
    <3> QED BY <1>1, <3>1, SlotKinds DEF IdleSlot
  <2> QED BY <2>1, <2>2
<1>3. RolesHeld' BY <1>1, <1>2 DEF RolesHeld, RoleOf
<1>4. \A s \in Slots : Own(s)' => Own(s) /\ thread'[s].no = thread[s].no
  BY <1>2 DEF Own, IsHeal
<1>5. exec'.no = exec.no /\ (exec'.status = "done" <=> exec.status = "done")
  BY <1>1 DEF Stop, RowsOK
<1>6. \A c \in RunCases : /\ results[c] = "none" => results'[c] = "none"
                          /\ results'[c] \in {"pending", "running"} => results'[c] = results[c]
  BY DEF Stop
<1>7. OneCurrent' BY <1>4, <1>5 DEF RunnerInv, OneCurrent
<1>8. RowsFollow'
  <2> SUFFICES ASSUME NEW s \in Slots, Current(s)' PROVE exec'.status # "done" /\ Answers(thread[s])'
    BY DEF RowsFollow
  <2>1. Current(s) BY <1>4, <1>5 DEF Current
  <2>2. exec.status # "done" /\ Answers(thread[s]) BY <2>1 DEF RunnerInv, RowsFollow
  <2>3. ~IdleSlot(s)' BY DEF Current, Own
  <2>4. thread[s].done \subseteq RunCases BY <1>2, <2>3 DEF Threads
  <2>5. \A c \in thread[s].done : results'[c] \notin {"pending", "running"}
    BY <1>6, <2>2, <2>4 DEF Answers, Final
  <2>6. {c \in RunCases : results'[c] # "none"} \subseteq thread[s].cases
    BY <1>6, <2>2 DEF Answers
  <2> QED BY <1>2, <1>5, <2>2, <2>3, <2>5, <2>6 DEF Answers, Final
<1>9. DoneIsFinal' BY <1>5, <1>6 DEF RunnerInv, DoneIsFinal
<1> QED BY <1>3, <1>7, <1>8, <1>9, InvParts

LEMMA RunnerStepKeeps ==
  ASSUME RunnerTypeOK, RunnerInv, [RunnerNext]_runnerVars
  PROVE  RunnerInv'
<1>1. CASE RunnerNext
  BY <1>1, ExecutionKeeps, HealKeeps, StartKeeps, StopKeeps DEF RunnerNext
<1>2. CASE UNCHANGED runnerVars
  BY <1>2 DEF runnerVars, RunnerInv, RolesHeld, OneCurrent, RowsFollow, DoneIsFinal, Current, Own, IdleSlot,
              IsHeal, Answers, Final
<1> QED BY <1>1, <1>2

LEMMA RunnerInitKeeps == RunnerInit => RunnerInv
BY DEF RunnerInit, RunnerInv, RolesHeld, OneCurrent, RowsFollow, DoneIsFinal, Current, Own, IdleSlot, NoThread

LEMMA RunnerInvariant == RunnerSpec => [](RunnerTypeOK /\ RunnerInv)
<1>1. RunnerInit => RunnerTypeOK /\ RunnerInv BY RunnerInitTyped, RunnerInitKeeps
<1>2. RunnerTypeOK /\ RunnerInv /\ [RunnerNext]_runnerVars => RunnerTypeOK' /\ RunnerInv'
  BY RunnerStepTyped, RunnerStepKeeps, InvParts
<1> QED BY <1>1, <1>2, PTL DEF RunnerSpec

\* RunnerTypeOK: whatever the threads of executions and heals do, the rows keep
\* their shape.
THEOREM RunnerTyping == RunnerSpec => []RunnerTypeOK
BY RunnerInvariant, PTL

\* DoneIsFinal: an execution is done only once every one of its rows has an
\* outcome, and no thread of an execution it superseded, no heal and no stop
\* takes one back (run_execution).
THEOREM DoneHeld == RunnerSpec => []DoneIsFinal
<1>1. RunnerInv => DoneIsFinal BY DEF RunnerInv
<1> QED BY <1>1, RunnerInvariant, PTL

-----------------------------------------------------------------------------
(***************************************************************************)
(* The project: its tree, its commits and the passes over them.            *)
(***************************************************************************)

Places == {"idle", "resolve", "plan", "author", "authoring", "authored", "generate", "write", "gating",
           "heal", "healing", "healed", "fix", "row", "export", "push", "leave"}
\* Where a pass has the lock, where it has a commit to go back to, and where it
\* has a case.
Locked == {"authoring", "authored", "healing", "healed", "gating", "push", "leave"}
Opened == {"authoring", "authored", "healing", "healed", "gating"}
Stints == [at : Places, kind : {"", "generate", "edit", "heal", "export"}, case : TestCases \cup {NoFile, ""},
           plan : Plans \cup {NoPlan}, cand : Specs, pre : Nat, outcome : {"", "passed", "blocked", "rejected"}]
CasePlaces == Places \ {"idle", "export", "push", "leave"}
Rows == [code : Specs \cup {NoFile}, status : {"none", "draft", "blocked"}]

ProjectShape ==
  /\ tree \in Trees /\ repo \in Seq(Trees) /\ Len(repo) # 0
  /\ doing \in [Crew -> Stints] /\ treeLock \in Crew \cup {Free}
  /\ \A t \in Crew : doing[t].at \in CasePlaces => doing[t].case \in TestCases
  /\ \A t \in Crew : doing[t].at \in {"authoring", "authored"} => doing[t].plan \in Plans
  /\ specRow \in [TestCases -> Rows]

\* Who is at work on the tree has the lock, and would go back to the tip.
LockKept ==
  /\ \A t \in Crew : doing[t].at \in Locked => treeLock = t
  /\ \A t \in Crew : doing[t].at \in Opened => doing[t].pre = Len(repo)
\* The library of the tree is that of the tip but for an editor that has edited,
\* and so are its specs but for the case of a gate.
LibraryFits == tree.lib = Tip.lib \/ \E t \in Crew : doing[t].at \in {"authored", "healed"}
SpecsFit ==
  \/ tree.spec = Tip.spec
  \/ \E t \in Crew : /\ doing[t].at = "gating"
                     /\ \A c \in TestCases : c # doing[t].case => tree.spec[c] = Tip.spec[c]
ProjectInv == ProjectShape /\ LockKept /\ LibraryFits /\ SpecsFit

-----------------------------------------------------------------------------
\* The operators.

LEMMA TipTyped == ASSUME ProjectShape PROVE Tip \in Trees /\ Tip = repo[Len(repo)] /\ Len(repo) \in Nat
  BY DEF ProjectShape, Tip, Last

LEMMA CommittedTip ==
  ASSUME ProjectShape, NEW u \in Trees, NEW r, r = Committed(u)
  PROVE  r \in Seq(Trees) /\ Len(r) # 0 /\ Last(r) = u
<1>1. CASE u = Tip BY <1>1, TipTyped DEF Committed, ProjectShape, Tip
<1>2. CASE u # Tip
  <2>1. r = Append(repo, u) BY <1>2 DEF Committed
  <2>2. r \in Seq(Trees) /\ Len(r) = Len(repo) + 1 /\ r[Len(repo) + 1] = u BY <2>1, TipTyped DEF ProjectShape
  <2> QED BY <2>2, TipTyped DEF Last
<1> QED BY <1>1, <1>2

LEMMA NormalizeTyped ==
  ASSUME NEW wants \in SUBSET Methods, NEW there, NEW stamp \in {"", "ok", "error"}
  PROVE  Normalize(wants, there, stamp) \in Plans
<1> DEFINE kept == (wants \ Demoted(wants, there)) \cup UNION {DuplicateOwner(m, there) : m \in Demoted(wants, there)}
<1>1. \A m : DuplicateOwner(m, there) \subseteq Methods BY DEF DuplicateOwner, Has
<1>2. kept \subseteq Methods BY <1>1
<1>3. Normalize(wants, there, stamp) = [wants |-> kept, importable |-> kept \cap Has(there), stamp |-> stamp]
  BY DEF Normalize
<1> DEFINE ready == kept \cap Has(there)
<1>4. kept \in SUBSET Methods /\ ready \in SUBSET Methods BY <1>2
<1>5. Normalize(wants, there, stamp) = [wants |-> kept, importable |-> ready, stamp |-> stamp] BY <1>3
<1> HIDE DEF kept, ready
<1>6. stamp \in {"", "ok", "error"} OBVIOUS
<1>7. [wants |-> kept, importable |-> ready, stamp |-> stamp] \in Plans BY <1>4, <1>6 DEF Plans
<1> QED BY <1>5, <1>7

LEMMA PlanWritten ==
  ASSUME NEW u \in Trees, NEW c \in TestCases, NEW p \in Plans
  PROVE  /\ [u EXCEPT !.plan[c] = p] \in Trees
         /\ [u EXCEPT !.plan[c] = p].lib = u.lib /\ [u EXCEPT !.plan[c] = p].spec = u.spec
BY DEF Trees

LEMMA SpecWritten ==
  ASSUME NEW u \in Trees, NEW c \in TestCases, NEW code \in Specs
  PROVE  /\ [u EXCEPT !.spec[c] = code] \in Trees
         /\ [u EXCEPT !.spec[c] = code].lib = u.lib
         /\ \A d \in TestCases : d # c => [u EXCEPT !.spec[c] = code].spec[d] = u.spec[d]
BY DEF Trees

\* Nobody else is at work where the lock is free or one's own.
LEMMA Alone ==
  ASSUME ProjectInv, NEW t \in Crew, treeLock = Free \/ doing[t].at \in Locked
  PROVE  /\ \A u \in Crew \ {t} : doing[u].at \notin Locked
         /\ treeLock = Free => doing[t].at \notin Locked
BY ProjectAssumption DEF ProjectInv, LockKept

-----------------------------------------------------------------------------
\* What no step may do to the tip: take a method out of its library, or change a
\* spec but by the pass of its case that its gate let through.
LibraryGrows == Has(Tip.lib) \subseteq Has(Tip'.lib)
SpecsByPass ==
  \A c \in TestCases : Tip'.spec[c] # Tip.spec[c] =>
    \E t \in Crew : /\ CaseOf(t) = c /\ doing'[t].outcome = "passed"
                    /\ doing[t].at \in {"gating", "fix"} /\ doing'[t].at = "row"

LEMMA TipStands == ASSUME repo' = repo PROVE LibraryGrows /\ SpecsByPass
BY DEF LibraryGrows, SpecsByPass, Tip

\* A step of a pass beside the lock: it commits nothing, and leaves the library
\* and the specs of the tree alone.
LEMMA BesideStep ==
  ASSUME ProjectInv, NEW t \in Crew, NEW r \in Stints, NowDoes(t, r),
         doing[t].at \notin Locked, r.at \notin Locked, r.at \in CasePlaces => r.case \in TestCases,
         tree' \in Trees, tree'.lib = tree.lib, tree'.spec = tree.spec,
         specRow' \in [TestCases -> Rows], UNCHANGED <<repo, treeLock>>
  PROVE  ProjectInv' /\ LibraryGrows /\ SpecsByPass
<1>1. doing' = [doing EXCEPT ![t] = r] /\ doing \in [Crew -> Stints] BY DEF NowDoes, ProjectInv, ProjectShape
<1>2. doing'[t] = r /\ \A u \in Crew \ {t} : doing'[u] = doing[u] BY <1>1
<1>3. ProjectShape' BY <1>1, <1>2 DEF ProjectInv, ProjectShape, Locked
<1>4. LockKept' BY <1>2 DEF ProjectInv, LockKept, Locked, Opened
<1>5. Tip' = Tip BY DEF Tip
<1>6. LibraryFits'
  <2>1. ASSUME NEW u \in Crew, doing[u].at \in {"authored", "healed"} PROVE doing'[u].at \in {"authored", "healed"}
    BY <1>2, <2>1 DEF Locked
  <2> QED BY <1>5, <2>1 DEF ProjectInv, LibraryFits
<1>7. SpecsFit'
  <2>1. ASSUME NEW u \in Crew, doing[u].at = "gating" PROVE doing'[u] = doing[u]
    BY <1>2, <2>1 DEF Locked
  <2> QED BY <1>5, <2>1 DEF ProjectInv, SpecsFit
<1> QED BY <1>3, <1>4, <1>6, <1>7, TipStands DEF ProjectInv

\* A step of the one pass at work, or of one while nobody is.
LEMMA AloneStep ==
  ASSUME ProjectInv, NEW t \in Crew, NEW r \in Stints, NowDoes(t, r), treeLock = Free \/ doing[t].at \in Locked,
         r.at \in CasePlaces => r.case \in TestCases, r.at \in {"authoring", "authored"} => r.plan \in Plans,
         treeLock' \in Crew \cup {Free}, r.at \in Locked => treeLock' = t,
         tree' \in Trees, repo' \in Seq(Trees), Len(repo') # 0, specRow' = specRow,
         r.at \in Opened => r.pre = Len(repo'),
         tree'.lib = Tip'.lib \/ r.at \in {"authored", "healed"},
         tree'.spec = Tip'.spec
           \/ (r.at = "gating" /\ \A c \in TestCases : c # r.case => tree'.spec[c] = Tip'.spec[c])
  PROVE  ProjectInv'
<1>1. doing' = [doing EXCEPT ![t] = r] /\ doing \in [Crew -> Stints] BY DEF NowDoes, ProjectInv, ProjectShape
<1>2. doing'[t] = r /\ \A u \in Crew \ {t} : doing'[u] = doing[u] /\ doing[u].at \notin Locked
  BY <1>1, Alone
<1>3. ProjectShape' BY <1>1, <1>2 DEF ProjectInv, ProjectShape
<1>4. LockKept' BY <1>2 DEF LockKept, Locked, Opened
<1>5. LibraryFits' /\ SpecsFit' BY <1>2 DEF LibraryFits, SpecsFit
<1> QED BY <1>3, <1>4, <1>5 DEF ProjectInv

\* Outside an edit the tree has the library of the tip; outside a gate its specs.
LEMMA Between ==
  ASSUME ProjectInv, NEW t \in Crew, treeLock = Free \/ doing[t].at \in Locked
  PROVE  /\ doing[t].at \notin {"authored", "healed"} => tree.lib = Tip.lib
         /\ doing[t].at # "gating" => tree.spec = Tip.spec
         /\ \A c \in TestCases : c # doing[t].case => tree.spec[c] = Tip.spec[c]
         /\ doing[t].at \in Opened => RolledBack(t) = Tip
<1>1. \A u \in Crew : u = t \/ doing[u].at \notin {"authored", "healed", "gating"} BY Alone DEF Locked
<1>2. doing[t].at \in Opened => RolledBack(t) = Tip BY TipTyped DEF ProjectInv, LockKept, RolledBack
<1> QED BY <1>1, <1>2 DEF ProjectInv, LibraryFits, SpecsFit

-----------------------------------------------------------------------------
LEMMA ProjectStart == ProjectInit => ProjectInv
<1> SUFFICES ASSUME ProjectInit PROVE ProjectInv
  OBVIOUS
<1>1. tree = Scaffold /\ repo = <<tree>> /\ doing = [t \in Crew |-> IdlePass] /\ treeLock = Free
      /\ specRow = [c \in TestCases |-> [code |-> NoFile, status |-> "none"]]
  BY DEF ProjectInit
<1>2. Scaffold \in Trees BY DEF Scaffold, Trees, Bodies
<1>3. repo \in Seq(Trees) /\ Len(repo) = 1 /\ repo[1] = tree BY <1>1, <1>2
<1>4. IdlePass \in Stints BY DEF IdlePass, Stints, Places, Specs
<1>5. specRow \in [TestCases -> Rows] BY <1>1 DEF Rows
<1>6. \A t \in Crew : doing[t].at = "idle" BY <1>1 DEF IdlePass
<1>7. ProjectShape BY <1>1, <1>2, <1>3, <1>4, <1>5, <1>6 DEF ProjectShape, CasePlaces
<1>8. Tip = tree BY <1>3 DEF Tip, Last
<1> QED BY <1>6, <1>7, <1>8 DEF ProjectInv, LockKept, Locked, Opened, LibraryFits, SpecsFit

-----------------------------------------------------------------------------
\* The passes, step by step.

LEMMA PassTyped ==
  ASSUME ProjectShape, NEW t \in Crew
  PROVE  doing[t] \in Stints /\ (doing[t].at \in CasePlaces => CaseOf(t) \in TestCases)
BY DEF ProjectShape, CaseOf

\* What every step keeps.
StepFits == ProjectInv' /\ LibraryGrows /\ SpecsByPass

LEMMA BeginsStep ==
  ASSUME ProjectInv, NEW t \in Crew,
         \/ \E c \in TestCases : BeginGenerate(t, c) \/ BeginHeal(t, c)
         \/ BeginExport(t)
         \/ \E c \in TestCases, code \in Imports : BeginEdit(t, c, code)
  PROVE  StepFits
<1>1. doing[t].at = "idle" /\ UNCHANGED <<tree, repo, specRow, treeLock>>
  BY DEF BeginGenerate, BeginHeal, BeginExport, BeginEdit, BeginPass, IsAt
<1>2. ASSUME NEW r \in Stints, NowDoes(t, r), r.at \in {"resolve", "heal", "export", "write"},
             r.at # "export" => r.case \in TestCases
      PROVE  StepFits
  <2>1. r.at \notin Locked /\ (r.at \in CasePlaces => r.case \in TestCases) BY <1>2 DEF Locked, CasePlaces
  <2>2. tree' \in Trees /\ specRow' \in [TestCases -> Rows] BY <1>1 DEF ProjectInv, ProjectShape
  <2>3. doing[t].at \notin Locked BY <1>1 DEF Locked
  <2> QED BY <1>1, <1>2, <2>1, <2>2, <2>3, BesideStep DEF StepFits
<1>3. IdlePass \in Stints BY DEF IdlePass, Stints, Places, Specs
<1>4. ASSUME NEW c \in TestCases \cup {NoFile}, NEW where \in {"resolve", "heal", "export"},
             where # "export" => c \in TestCases, NEW kind \in {"generate", "heal", "export"},
             BeginPass(t, c, kind, where)
      PROVE  StepFits
  <2> DEFINE r == [IdlePass EXCEPT !.at = where, !.case = c, !.kind = kind]
  <2>1. r \in Stints /\ r.at = where /\ r.case = c BY <1>3 DEF Stints, Places
  <2>2. NowDoes(t, r) BY <1>4 DEF BeginPass
  <2> HIDE DEF r
  <2> QED BY <1>2, <1>4, <2>1, <2>2
<1>5. CASE \E c \in TestCases : BeginGenerate(t, c) \/ BeginHeal(t, c)
  BY <1>4, <1>5 DEF BeginGenerate, BeginHeal
<1>6. CASE BeginExport(t) BY <1>4, <1>6 DEF BeginExport
<1>7. CASE \E c \in TestCases, code \in Imports : BeginEdit(t, c, code)
  <2>1. PICK c \in TestCases, code \in Imports : BeginEdit(t, c, code) BY <1>7
  <2> DEFINE r == [IdlePass EXCEPT !.at = "write", !.case = c, !.kind = "edit", !.cand = code]
  <2>2. code \in Specs BY ProjectAssumption DEF Specs
  <2>3. r \in Stints /\ r.at = "write" /\ r.case = c BY <1>3, <2>2 DEF Stints, Places
  <2>4. NowDoes(t, r) BY <2>1 DEF BeginEdit
  <2> HIDE DEF r
  <2> QED BY <1>2, <2>3, <2>4
<1> QED BY <1>5, <1>6, <1>7

\* What is left when a migration has been through the tree.
LEMMA Migrating ==
  ASSUME NEW u \in Trees
  PROVE  Migrated(u) \in Trees /\ Migrated(u).lib = u.lib /\ Migrated(u).spec = u.spec
BY DEF Migrated, Trees

\* Walking on, with or without something written in the record of the pass.
LEMMA WalksOn ==
  ASSUME ProjectInv, NEW t \in Crew, NEW where \in CasePlaces \ Locked, doing[t].at \in CasePlaces,
         NEW p \in Plans \cup {NoPlan}, NEW code \in Specs
  PROVE  /\ [doing[t] EXCEPT !.at = where] \in Stints /\ [doing[t] EXCEPT !.at = where].case \in TestCases
         /\ [doing[t] EXCEPT !.at = where, !.plan = p] \in Stints
         /\ [doing[t] EXCEPT !.at = where, !.plan = p].case \in TestCases
         /\ [doing[t] EXCEPT !.at = where, !.cand = code] \in Stints
         /\ [doing[t] EXCEPT !.at = where, !.cand = code].case \in TestCases
BY PassTyped DEF ProjectInv, Stints, CaseOf, CasePlaces

LEMMA PlansStep ==
  ASSUME ProjectInv, NEW t \in Crew,
         ResolveProject(t) \/ \E wants \in Imports \cup {{}} : PlanForTicket(t, wants)
  PROVE  StepFits
<1>1. /\ doing[t].at \in {"resolve", "plan"} /\ UNCHANGED <<repo, specRow, treeLock>>
  BY DEF ResolveProject, PlanForTicket, IsAt
<1>2. doing[t].at \in CasePlaces /\ doing[t].at \notin Locked /\ tree \in Trees
      /\ specRow' \in [TestCases -> Rows]
  BY <1>1 DEF CasePlaces, Places, Locked, ProjectInv, ProjectShape
<1>3. {"plan", "author"} \subseteq CasePlaces \ Locked BY DEF CasePlaces, Places, Locked
<1>4. CASE ResolveProject(t)
  <2> DEFINE r == [doing[t] EXCEPT !.at = "plan"]
  <2>1. NowDoes(t, r) /\ tree' = Migrated(tree) BY <1>4 DEF ResolveProject, Proceeds
  <2>2. r \in Stints /\ r.case \in TestCases
    <3>1. NoPlan \in Plans \cup {NoPlan} /\ {} \in Specs BY DEF Specs
    <3> QED BY <1>2, <1>3, <3>1, WalksOn
  <2>3. r.at = "plan" BY PassTyped DEF ProjectInv, Stints
  <2> HIDE DEF r
  <2>4. r.at \notin Locked BY <2>3 DEF Locked
  <2> QED BY <1>1, <1>2, <2>1, <2>2, <2>4, Migrating, BesideStep DEF StepFits
<1>5. CASE \E wants \in Imports \cup {{}} : PlanForTicket(t, wants)
  <2>1. PICK wants \in Imports \cup {{}} : PlanForTicket(t, wants) BY <1>5
  <2> DEFINE c == CaseOf(t)
             fresh == Normalize(wants, tree.lib, "")
  <2>2. c \in TestCases BY <1>2, PassTyped DEF ProjectInv
  <2>3. fresh \in Plans BY ProjectAssumption, NormalizeTyped
  <2>4. tree.plan[c] \in Plans \cup {NoPlan} BY <1>2, <2>2 DEF Trees
  <2>5. \E p \in Plans \cup {NoPlan} :
          /\ NowDoes(t, [doing[t] EXCEPT !.at = "author", !.plan = p])
          /\ tree' = tree \/ tree' = [tree EXCEPT !.plan[c] = fresh]
    <3> HIDE DEF fresh
    <3>1. CASE tree.plan[c] # NoPlan BY <2>1, <2>4, <3>1 DEF PlanForTicket
    <3>2. CASE tree.plan[c] = NoPlan BY <2>1, <2>3, <3>2 DEF PlanForTicket, fresh
    <3> QED BY <3>1, <3>2
  <2>6. PICK p \in Plans \cup {NoPlan} :
          /\ NowDoes(t, [doing[t] EXCEPT !.at = "author", !.plan = p])
          /\ tree' = tree \/ tree' = [tree EXCEPT !.plan[c] = fresh]
    BY <2>5
  <2> DEFINE r == [doing[t] EXCEPT !.at = "author", !.plan = p]
  <2> HIDE DEF c, fresh
  <2>7. tree' \in Trees /\ tree'.lib = tree.lib /\ tree'.spec = tree.spec
    <3>1. tree \in Trees BY <1>2
    <3>2. CASE tree' = tree BY <3>1, <3>2
    <3>3. CASE tree' = [tree EXCEPT !.plan[c] = fresh]
      <4>1. /\ [tree EXCEPT !.plan[c] = fresh] \in Trees
            /\ [tree EXCEPT !.plan[c] = fresh].lib = tree.lib /\ [tree EXCEPT !.plan[c] = fresh].spec = tree.spec
        BY <2>2, <2>3, <3>1, PlanWritten
      <4> QED BY <3>3, <4>1
    <3> QED BY <2>6, <3>2, <3>3
  <2>8. r \in Stints /\ r.case \in TestCases
    <3>1. {} \in Specs BY DEF Specs
    <3> QED BY <1>2, <1>3, <3>1, WalksOn
  <2>9. r.at \notin Locked BY PassTyped DEF ProjectInv, Stints, Locked
  <2>10. NowDoes(t, r) BY <2>6
  <2> HIDE DEF r
  <2> QED BY <1>1, <1>2, <2>7, <2>8, <2>9, <2>10, BesideStep DEF StepFits
<1> QED BY <1>4, <1>5

LEMMA WalksStep ==
  ASSUME ProjectInv, NEW t \in Crew,
         AuthorSkips(t) \/ HealSkips(t) \/ \E code \in Imports : GenerateSpecCode(t, code)
  PROVE  StepFits
<1>1. /\ doing[t].at \in {"author", "heal", "generate"} /\ UNCHANGED <<tree, repo, specRow, treeLock>>
  BY DEF AuthorSkips, HealSkips, GenerateSpecCode, IsAt
<1>2. doing[t].at \in CasePlaces /\ doing[t].at \notin Locked /\ tree' \in Trees
      /\ specRow' \in [TestCases -> Rows]
  BY <1>1 DEF CasePlaces, Places, Locked, ProjectInv, ProjectShape
<1>3. PICK where \in {"generate", "fix", "write"}, code \in Specs :
        \/ NowDoes(t, [doing[t] EXCEPT !.at = where])
        \/ NowDoes(t, [doing[t] EXCEPT !.at = where, !.cand = code])
  <2>1. {} \in Specs /\ Imports \subseteq Specs BY ProjectAssumption DEF Specs
  <2> QED BY <2>1 DEF AuthorSkips, HealSkips, GenerateSpecCode, Proceeds
<1>4. where \in CasePlaces \ Locked BY DEF CasePlaces, Places, Locked
<1>5. PICK r : NowDoes(t, r) /\ (r = [doing[t] EXCEPT !.at = where] \/ r = [doing[t] EXCEPT !.at = where, !.cand = code])
  BY <1>3
<1>6. r \in Stints /\ r.case \in TestCases
  <2>1. NoPlan \in Plans \cup {NoPlan} OBVIOUS
  <2>2. /\ [doing[t] EXCEPT !.at = where] \in Stints /\ [doing[t] EXCEPT !.at = where].case \in TestCases
        /\ [doing[t] EXCEPT !.at = where, !.cand = code] \in Stints
        /\ [doing[t] EXCEPT !.at = where, !.cand = code].case \in TestCases
    BY <1>2, <1>4, <2>1, WalksOn
  <2> QED BY <1>5, <2>2
<1>7. r.at = where BY <1>5, PassTyped DEF ProjectInv, Stints
<1> QED BY <1>1, <1>2, <1>4, <1>5, <1>6, <1>7, BesideStep DEF StepFits

LEMMA SavesStep == ASSUME ProjectInv, NEW t \in Crew, SaveRow(t) PROVE StepFits
<1>1. doing[t].at = "row" /\ UNCHANGED <<tree, repo, treeLock>> /\ NowDoes(t, IdlePass) BY DEF SaveRow, IsAt
<1>2. IdlePass \in Stints /\ IdlePass.at = "idle" BY DEF IdlePass, Stints, Places, Specs
<1>3. doing[t] \in Stints /\ CaseOf(t) \in TestCases BY <1>1, PassTyped DEF ProjectInv, CasePlaces, Places
<1>4. specRow' \in [TestCases -> Rows]
  <2>1. specRow \in [TestCases -> Rows] /\ doing[t].cand \in Specs
    BY <1>3 DEF ProjectInv, ProjectShape, Stints
  <2>2. Saved(specRow[CaseOf(t)], doing[t].kind, doing[t].cand, doing[t].outcome) \in Rows
    <3>1. [code |-> doing[t].cand, status |-> "draft"] \in Rows /\ [code |-> doing[t].cand, status |-> "blocked"] \in Rows
      BY <2>1 DEF Rows
    <3>2. specRow[CaseOf(t)] \in Rows BY <1>3, <2>1
    <3> QED BY <3>1, <3>2 DEF Saved
  <2> QED BY <2>1, <2>2 DEF SaveRow
<1>5. tree' \in Trees BY <1>1 DEF ProjectInv, ProjectShape
<1>6. doing[t].at \notin Locked /\ IdlePass.at \notin Locked /\ IdlePass.at \notin CasePlaces
  BY <1>1, <1>2 DEF Locked, CasePlaces
<1> QED BY <1>1, <1>2, <1>4, <1>5, <1>6, BesideStep DEF StepFits

\* The lock is taken: what lies in the tree is committed, and a pass that will
\* edit or gate keeps the number of that commit.
LEMMA OpensStep ==
  ASSUME ProjectInv, NEW t \in Crew, AuthorOpens(t) \/ HealOpens(t) \/ GateOpens(t) \/ ExportChecks(t)
  PROVE  StepFits
<1>1. /\ treeLock = Free /\ treeLock' = t /\ repo' = Committed(tree) /\ specRow' = specRow
      /\ doing[t].at \in {"author", "heal", "write", "export"}
  BY DEF AuthorOpens, HealOpens, GateOpens, ExportChecks, Takes, PreState, IsAt
<1>2. tree \in Trees /\ doing[t] \in Stints BY PassTyped DEF ProjectInv, ProjectShape
<1>3. repo' \in Seq(Trees) /\ Len(repo') # 0 /\ Len(repo') \in Nat /\ Tip' = tree
  BY <1>1, <1>2, CommittedTip DEF ProjectInv, Tip
<1>4. tree.lib = Tip.lib /\ tree.spec = Tip.spec BY <1>1, Between
<1>5. LibraryGrows /\ SpecsByPass BY <1>3, <1>4 DEF LibraryGrows, SpecsByPass
<1>6. doing[t].at # "export" => CaseOf(t) \in TestCases
  BY <1>1, PassTyped DEF ProjectInv, CasePlaces, Places
<1>7. ASSUME NEW where \in {"authoring", "healing", "gating"}, doing[t].at # "export",
             NowDoes(t, [doing[t] EXCEPT !.at = where, !.pre = Len(repo')]),
             tree' = tree \/ (where = "gating" /\ tree' = [tree EXCEPT !.spec[CaseOf(t)] = doing[t].cand]),
             where = "authoring" => doing[t].plan \in Plans
      PROVE  ProjectInv'
  <2> DEFINE r == [doing[t] EXCEPT !.at = where, !.pre = Len(repo')]
  <2>1. NowDoes(t, r) BY <1>7
  <2>2. /\ r \in Stints /\ r.at = where /\ r.pre = Len(repo') /\ r.case = CaseOf(t) /\ r.plan = doing[t].plan
    BY <1>2, <1>3 DEF Stints, Places, CaseOf
  <2>3. doing[t].cand \in Specs BY <1>2 DEF Stints
  <2>4. /\ tree' \in Trees /\ tree'.lib = tree.lib
        /\ tree'.spec = tree.spec
             \/ (where = "gating" /\ \A c \in TestCases : c # CaseOf(t) => tree'.spec[c] = tree.spec[c])
    <3>1. CASE tree' = tree BY <1>2, <3>1
    <3>2. CASE where = "gating" /\ tree' = [tree EXCEPT !.spec[CaseOf(t)] = doing[t].cand]
      <4>1. CaseOf(t) \in TestCases BY <1>6, <1>7
      <4> QED BY <1>2, <2>3, <3>2, <4>1, SpecWritten
    <3> QED BY <1>7, <3>1, <3>2
  <2> HIDE DEF r
  <2>5. r.at \in CasePlaces => r.case \in TestCases BY <1>6, <1>7, <2>2
  <2>6. r.at \notin {"authored", "healed"} /\ (r.at \in {"authoring", "authored"} => r.plan \in Plans)
    BY <1>7, <2>2
  <2> QED BY <1>1, <1>3, <2>1, <2>2, <2>4, <2>5, <2>6, AloneStep
<1>8. ASSUME NEW where \in {"push", "leave"}, NowDoes(t, [doing[t] EXCEPT !.at = where]), tree' = tree
      PROVE  ProjectInv'
  <2> DEFINE r == [doing[t] EXCEPT !.at = where]
  <2>1. NowDoes(t, r) BY <1>8
  <2>2. r \in Stints /\ r.at = where BY <1>2 DEF Stints, Places
  <2> HIDE DEF r
  <2>3. r.at \notin CasePlaces /\ r.at \notin Opened /\ r.at \notin {"authoring", "authored"}
    BY <2>2 DEF CasePlaces, Opened
  <2> QED BY <1>1, <1>2, <1>3, <1>8, <2>1, <2>2, <2>3, AloneStep
<1>9. CASE AuthorOpens(t)
  <2>1. doing[t].plan \in Plans BY <1>2, <1>9 DEF AuthorOpens, PendingActions, IsActionable, Stints
  <2>2. /\ NowDoes(t, [doing[t] EXCEPT !.at = "authoring", !.pre = Len(repo')])
        /\ tree' = tree /\ doing[t].at # "export"
    BY <1>9 DEF AuthorOpens, IsAt
  <2> QED BY <1>5, <1>7, <2>1, <2>2 DEF StepFits
<1>10. CASE HealOpens(t)
  <2>1. /\ NowDoes(t, [doing[t] EXCEPT !.at = "healing", !.pre = Len(repo')])
        /\ tree' = tree /\ doing[t].at # "export"
    BY <1>10 DEF HealOpens, IsAt
  <2> QED BY <1>5, <1>7, <2>1 DEF StepFits
<1>11. CASE GateOpens(t)
  <2>1. /\ NowDoes(t, [doing[t] EXCEPT !.at = "gating", !.pre = Len(repo')])
        /\ tree' = [tree EXCEPT !.spec[CaseOf(t)] = doing[t].cand] /\ doing[t].at # "export"
    BY <1>11 DEF GateOpens, IsAt
  <2> QED BY <1>5, <1>7, <2>1 DEF StepFits
<1>12. CASE ExportChecks(t)
  <2>1. (\E where \in {"push", "leave"} : NowDoes(t, [doing[t] EXCEPT !.at = where])) /\ tree' = tree
    BY <1>12 DEF ExportChecks, Proceeds
  <2> QED BY <1>5, <1>8, <2>1 DEF StepFits
<1> QED BY <1>9, <1>10, <1>11, <1>12

LEMMA EditsStep ==
  ASSUME ProjectInv, NEW t \in Crew, NEW after \in Edited, EditsLibrary(t, after)
  PROVE  StepFits
<1>1. /\ doing[t].at \in {"authoring", "healing"} /\ tree' = [tree EXCEPT !.lib = after]
      /\ UNCHANGED <<repo, specRow, treeLock>>
  BY DEF EditsLibrary
<1>2. tree \in Trees /\ doing[t] \in Stints /\ CaseOf(t) \in TestCases
  BY <1>1, PassTyped DEF ProjectInv, ProjectShape, CasePlaces, Places
<1>3. after \in [Methods -> Bodies] BY <1>2 DEF Edited, Trees
<1>4. tree' \in Trees /\ tree'.spec = tree.spec BY <1>1, <1>2, <1>3 DEF Trees
<1>5. tree.spec = Tip.spec /\ treeLock = t BY <1>1, Between DEF Locked, ProjectInv, LockKept
<1>6. PICK where \in {"authored", "healed"} :
        NowDoes(t, [doing[t] EXCEPT !.at = where]) /\ (where = "authored" => doing[t].at = "authoring")
  BY DEF EditsLibrary, Proceeds, IsAt
<1> DEFINE r == [doing[t] EXCEPT !.at = where]
<1>7. r \in Stints /\ r.at = where /\ r.case = CaseOf(t) /\ r.pre = doing[t].pre /\ r.plan = doing[t].plan
  BY <1>2 DEF Stints, Places, CaseOf
<1>8. r.pre = Len(repo') BY <1>1, <1>7 DEF ProjectInv, LockKept, Opened
<1>9. NowDoes(t, r) BY <1>6
<1>10. repo' \in Seq(Trees) /\ Len(repo') # 0 /\ treeLock' \in Crew \cup {Free} /\ Tip' = Tip
  BY <1>1 DEF ProjectInv, ProjectShape, Tip
<1> HIDE DEF r
<1>11. doing[t].at \in Locked BY <1>1 DEF Locked
<1>12. r.at \in {"authoring", "authored"} => r.plan \in Plans
  BY <1>6, <1>7 DEF ProjectInv, ProjectShape
<1>13. ProjectInv'
  BY <1>12, <1>1, <1>2, <1>4, <1>5, <1>7, <1>8, <1>9, <1>10, <1>11, AloneStep
<1> QED BY <1>1, <1>13, TipStands DEF StepFits

\* The lock is given up, over a tree that has the library and the specs of the
\* tip.
LEMMA ClosesStep ==
  ASSUME ProjectInv, NEW t \in Crew, treeLock = Free \/ doing[t].at \in Locked,
         NEW r \in Stints, NowDoes(t, r), r.at \notin Locked, r.at \in CasePlaces => r.case \in TestCases,
         treeLock' = Free, specRow' = specRow, repo' \in Seq(Trees), Len(repo') # 0,
         tree' \in Trees, tree'.lib = Tip'.lib, tree'.spec = Tip'.spec
  PROVE  ProjectInv'
<1>1. r.at \notin Opened /\ r.at \notin {"authoring", "authored"} /\ treeLock' \in Crew \cup {Free}
  BY DEF Opened, Locked
<1> QED BY <1>1, AloneStep

\* The two ends of an authoring: its plan is written again, over the tree as it is
\* or as it was.
LEMMA AuthorEnds ==
  ASSUME ProjectInv, NEW t \in Crew, NEW tools \in BOOLEAN,
         AuthorAccepted(t, tools) \/ AuthorRejected(t, tools) \/ AuthorFails(t)
  PROVE  StepFits
<1>1. /\ doing[t].at = "authored" /\ treeLock' = Free /\ specRow' = specRow
  BY DEF AuthorAccepted, AuthorRejected, AuthorFails, Releases, IsAt
<1>2. /\ doing[t] \in Stints /\ doing[t].plan \in Plans /\ CaseOf(t) \in TestCases /\ tree \in Trees
      /\ repo \in Seq(Trees) /\ Len(repo) # 0
  BY <1>1, PassTyped DEF ProjectInv, ProjectShape, CasePlaces, Places
<1>3. tree.spec = Tip.spec /\ RolledBack(t) = Tip BY <1>1, Between DEF Locked, Opened
<1>4. PICK u \in {tree, RolledBack(t)}, stamp \in {"ok", "error"} :
        /\ tree' = [u EXCEPT !.plan[CaseOf(t)] = Normalize(doing[t].plan.wants, u.lib, stamp)]
        /\ NowDoes(t, [doing[t] EXCEPT !.at = "generate",
                                       !.plan = Normalize(doing[t].plan.wants, u.lib, stamp)])
        /\ \/ u = tree /\ repo' = Committed(tree) /\ AuthorOk(t, tools)
           \/ u = RolledBack(t) /\ repo' = repo
  <2>1. CASE AuthorAccepted(t, tools) BY <2>1 DEF AuthorAccepted
  <2>2. CASE AuthorRejected(t, tools) BY <2>2 DEF AuthorRejected
  <2>3. CASE AuthorFails(t) BY <2>3 DEF AuthorFails
  <2> QED BY <2>1, <2>2, <2>3
<1> DEFINE p == Normalize(doing[t].plan.wants, u.lib, stamp)
           r == [doing[t] EXCEPT !.at = "generate", !.plan = p]
<1>5. u \in Trees BY <1>2, <1>3, TipTyped DEF ProjectInv
<1>6. p \in Plans
  <2>1. doing[t].plan.wants \in SUBSET Methods BY <1>2 DEF Plans
  <2> QED BY <2>1, NormalizeTyped
<1>7. tree' = [u EXCEPT !.plan[CaseOf(t)] = p] /\ NowDoes(t, r) BY <1>4
<1> HIDE DEF p
<1>8. tree' \in Trees /\ tree'.lib = u.lib /\ tree'.spec = u.spec BY <1>2, <1>5, <1>6, <1>7, PlanWritten
<1>9. r \in Stints /\ r.at = "generate" /\ r.case = CaseOf(t) BY <1>2, <1>6 DEF Stints, Places, CaseOf
<1> HIDE DEF r
<1>10. repo' \in Seq(Trees) /\ Len(repo') # 0 /\ Tip'.lib = u.lib /\ Tip'.spec = u.spec
       /\ Tip'.spec = Tip.spec /\ LibraryGrows
  <2>1. CASE u = tree /\ repo' = Committed(tree) /\ AuthorOk(t, tools)
    <3>1. repo' \in Seq(Trees) /\ Len(repo') # 0 /\ Tip' = tree
      BY <1>2, <2>1, CommittedTip DEF ProjectInv, Tip
    <3>2. DiffIsAdditive(Tip.lib, tree.lib, FALSE)
      BY <1>3, <2>1 DEF AuthorOk, RolledBack
    <3>3. LibraryGrows BY <3>1, <3>2 DEF LibraryGrows, DiffIsAdditive, Has
    <3> QED BY <1>3, <2>1, <3>1, <3>3
  <2>2. CASE u = RolledBack(t) /\ repo' = repo
    <3>1. Tip' = Tip BY <2>2 DEF Tip
    <3> QED BY <1>2, <1>3, <2>2, <3>1, TipStands
  <2> QED BY <1>4, <2>1, <2>2
<1>11. ProjectInv'
  <2>1. doing[t].at \in Locked /\ r.at \notin Locked BY <1>1, <1>9 DEF Locked
  <2> QED BY <1>1, <1>2, <1>7, <1>8, <1>9, <1>10, <2>1, ClosesStep
<1>12. SpecsByPass BY <1>10 DEF SpecsByPass
<1> QED BY <1>10, <1>11, <1>12 DEF StepFits

LEMMA HealEnds ==
  ASSUME ProjectInv, NEW t \in Crew, NEW tools \in BOOLEAN, HealAccepted(t, tools) \/ HealRejected(t, tools)
  PROVE  StepFits
<1>1. /\ doing[t].at = "healed" /\ treeLock' = Free /\ specRow' = specRow
  BY DEF HealAccepted, HealRejected, Releases, IsAt
<1>2. /\ doing[t] \in Stints /\ CaseOf(t) \in TestCases /\ tree \in Trees /\ Tip \in Trees
      /\ repo \in Seq(Trees) /\ Len(repo) # 0
  BY <1>1, PassTyped, TipTyped DEF ProjectInv, ProjectShape, CasePlaces, Places
<1>3. tree.spec = Tip.spec /\ RolledBack(t) = Tip /\ doing[t].at \in Locked BY <1>1, Between DEF Locked, Opened
<1>4. CASE HealAccepted(t, tools)
  <2>1. repo' = Committed(tree) /\ tree' = tree /\ NowDoes(t, IdlePass) /\ HealOk(t, tools)
    BY <1>4 DEF HealAccepted
  <2>2. repo' \in Seq(Trees) /\ Len(repo') # 0 /\ Tip' = tree BY <1>2, <2>1, CommittedTip DEF ProjectInv, Tip
  <2>3. LibraryGrows
    <3>1. DiffIsAdditive(Tip.lib, tree.lib, TRUE) BY <1>3, <2>1 DEF HealOk, RolledBack
    <3> QED BY <2>2, <3>1 DEF LibraryGrows, DiffIsAdditive, Has
  <2>4. IdlePass \in Stints /\ IdlePass.at \notin Locked /\ IdlePass.at \notin CasePlaces
    BY DEF IdlePass, Stints, Places, Specs, Locked, CasePlaces
  <2>5. ProjectInv' BY <1>1, <1>2, <1>3, <2>1, <2>2, <2>4, ClosesStep
  <2>6. SpecsByPass BY <1>3, <2>2 DEF SpecsByPass
  <2> QED BY <2>3, <2>5, <2>6 DEF StepFits
<1>5. CASE HealRejected(t, tools)
  <2> DEFINE r == [doing[t] EXCEPT !.at = "fix"]
  <2>1. repo' = repo /\ tree' = Tip /\ NowDoes(t, r) BY <1>3, <1>5 DEF HealRejected, Proceeds
  <2>2. r \in Stints /\ r.at = "fix" /\ r.case = CaseOf(t) BY <1>2 DEF Stints, Places, CaseOf
  <2> HIDE DEF r
  <2>3. r.at \notin Locked /\ Tip' = Tip BY <2>1, <2>2 DEF Locked, Tip
  <2>4. ProjectInv' BY <1>1, <1>2, <1>3, <2>1, <2>2, <2>3, ClosesStep
  <2> QED BY <2>1, <2>4, TipStands DEF StepFits
<1> QED BY <1>4, <1>5

\* A spec is committed by the pass of its case: through its gate, or as a fix.
LEMMA SpecPasses ==
  ASSUME ProjectInv, NEW t \in Crew,
         \/ \E tools \in BOOLEAN : GatePasses(t, tools)
         \/ \E code \in Imports : PersistSpecCode(t, code)
  PROVE  StepFits
<1>1. /\ doing[t].at \in {"gating", "fix"} /\ treeLock' = Free /\ specRow' = specRow
      /\ treeLock = Free \/ doing[t].at \in Locked
  BY DEF GatePasses, PersistSpecCode, IsAt, Locked
<1>2. /\ doing[t] \in Stints /\ CaseOf(t) \in TestCases /\ tree \in Trees
  BY <1>1, PassTyped DEF ProjectInv, ProjectShape, CasePlaces, Places
<1>3. tree.lib = Tip.lib /\ \A c \in TestCases : c # CaseOf(t) => tree.spec[c] = Tip.spec[c]
  BY <1>1, Between DEF CaseOf
<1>4. PICK r \in Stints : /\ NowDoes(t, r) /\ r.at = "row" /\ r.outcome = "passed" /\ r.case = CaseOf(t)
                          /\ repo' = Committed(tree')
                          /\ tree' = tree \/ \E code \in Imports : tree' = [tree EXCEPT !.spec[CaseOf(t)] = code]
  <2>1. CASE \E tools \in BOOLEAN : GatePasses(t, tools)
    <3> DEFINE r == [doing[t] EXCEPT !.at = "row", !.outcome = "passed"]
    <3>1. NowDoes(t, r) /\ repo' = Committed(tree') /\ tree' = tree BY <2>1 DEF GatePasses
    <3>2. r \in Stints /\ r.at = "row" /\ r.outcome = "passed" /\ r.case = CaseOf(t)
      BY <1>2 DEF Stints, Places, CaseOf
    <3> HIDE DEF r
    <3> QED BY <3>1, <3>2
  <2>2. CASE \E code \in Imports : PersistSpecCode(t, code)
    <3>1. PICK code \in Imports : PersistSpecCode(t, code) BY <2>2
    <3> DEFINE r == [doing[t] EXCEPT !.at = "row", !.cand = code, !.outcome = "passed"]
    <3>2. NowDoes(t, r) /\ repo' = Committed(tree') /\ tree' = [tree EXCEPT !.spec[CaseOf(t)] = code]
      BY <3>1 DEF PersistSpecCode
    <3>3. r \in Stints /\ r.at = "row" /\ r.outcome = "passed" /\ r.case = CaseOf(t)
      <4>1. code \in Specs BY ProjectAssumption DEF Specs
      <4> QED BY <1>2, <4>1 DEF Stints, Places, CaseOf
    <3> HIDE DEF r
    <3> QED BY <3>2, <3>3
  <2> QED BY <2>1, <2>2
<1>5. /\ tree' \in Trees /\ tree'.lib = tree.lib
      /\ \A c \in TestCases : c # CaseOf(t) => tree'.spec[c] = tree.spec[c]
  <2>1. CASE tree' = tree BY <1>2, <2>1
  <2>2. CASE \E code \in Imports : tree' = [tree EXCEPT !.spec[CaseOf(t)] = code]
    <3>1. PICK code \in Imports : tree' = [tree EXCEPT !.spec[CaseOf(t)] = code] BY <2>2
    <3>2. code \in Specs BY ProjectAssumption DEF Specs
    <3> QED BY <1>2, <3>1, <3>2, SpecWritten
  <2> QED BY <1>4, <2>1, <2>2
<1>6. repo' \in Seq(Trees) /\ Len(repo') # 0 /\ Tip' = tree'
  BY <1>4, <1>5, CommittedTip DEF ProjectInv, Tip
<1>7. LibraryGrows BY <1>3, <1>5, <1>6 DEF LibraryGrows
<1>8. SpecsByPass
  <2>1. doing'[t] = r BY <1>4 DEF NowDoes, ProjectInv, ProjectShape
  <2> QED BY <1>1, <1>3, <1>4, <1>5, <1>6, <2>1 DEF SpecsByPass
<1>9. ProjectInv'
  <2>1. r.at \notin Locked /\ r.case \in TestCases BY <1>2, <1>4 DEF Locked
  <2> QED BY <1>1, <1>4, <1>5, <1>6, <2>1, ClosesStep
<1> QED BY <1>7, <1>8, <1>9 DEF StepFits

LEMMA RefusesSpec ==
  ASSUME ProjectInv, NEW t \in Crew, NEW outcome \in {"blocked", "rejected"}, GateRefuses(t, outcome)
  PROVE  StepFits
<1>1. /\ doing[t].at = "gating" /\ treeLock' = Free /\ specRow' = specRow /\ repo' = repo /\ tree' = RolledBack(t)
  BY DEF GateRefuses, IsAt
<1>2. /\ doing[t] \in Stints /\ CaseOf(t) \in TestCases /\ Tip \in Trees /\ repo \in Seq(Trees) /\ Len(repo) # 0
  BY <1>1, PassTyped, TipTyped DEF ProjectInv, ProjectShape, CasePlaces, Places
<1>3. tree' = Tip /\ doing[t].at \in Locked BY <1>1, Between DEF Locked, Opened
<1> DEFINE r == [doing[t] EXCEPT !.at = "row", !.outcome = outcome]
<1>4. NowDoes(t, r) BY DEF GateRefuses
<1>5. r \in Stints /\ r.at = "row" /\ r.case = CaseOf(t) BY <1>2 DEF Stints, Places, CaseOf
<1> HIDE DEF r
<1>6. r.at \notin Locked /\ Tip' = Tip BY <1>1, <1>5 DEF Locked, Tip
<1>7. ProjectInv' BY <1>1, <1>2, <1>3, <1>4, <1>5, <1>6, ClosesStep
<1> QED BY <1>1, <1>7, TipStands DEF StepFits

LEMMA ExportEnds == ASSUME ProjectInv, NEW t \in Crew, ExportPushes(t) \/ ExportLeaves(t) PROVE StepFits
<1>1. /\ doing[t].at \in {"push", "leave"} /\ treeLock' = Free /\ NowDoes(t, IdlePass)
      /\ UNCHANGED <<tree, repo, specRow>>
  BY DEF ExportPushes, ExportLeaves, Releases, IsAt
<1>2. doing[t].at \in Locked BY <1>1 DEF Locked
<1>3. tree.lib = Tip.lib /\ tree.spec = Tip.spec /\ Tip' = Tip BY <1>1, <1>2, Between DEF Tip
<1>4. IdlePass \in Stints /\ IdlePass.at \notin Locked /\ IdlePass.at \notin CasePlaces
  BY DEF IdlePass, Stints, Places, Specs, Locked, CasePlaces
<1>5. repo' \in Seq(Trees) /\ Len(repo') # 0 /\ tree' \in Trees BY <1>1 DEF ProjectInv, ProjectShape
<1>6. ProjectInv' BY <1>1, <1>2, <1>3, <1>4, <1>5, ClosesStep
<1> QED BY <1>1, <1>6, TipStands DEF StepFits

LEMMA ProjectStep == ASSUME ProjectInv, [ProjectNext]_projectVars PROVE StepFits
<1>1. CASE UNCHANGED <<tree, repo, specRow, treeLock, doing>>
  <2>1. ProjectInv'
    BY <1>1 DEF ProjectInv, ProjectShape, LockKept, LibraryFits, SpecsFit, Tip
  <2> QED BY <1>1, <2>1, TipStands DEF StepFits
<1>2. CASE ForeignPush BY <1>1, <1>2 DEF ForeignPush
<1>3. CASE UNCHANGED projectVars BY <1>1, <1>3 DEF projectVars
<1>4. CASE \E t \in Crew, c \in TestCases, code \in Imports : BeginEdit(t, c, code)
  BY <1>4, BeginsStep
<1>5. CASE \E t \in Crew : AuthorFails(t) BY <1>5, AuthorEnds
<1> QED BY <1>2, <1>3, <1>4, <1>5, BeginsStep, PlansStep, WalksStep, SavesStep, OpensStep, EditsStep,
           AuthorEnds, HealEnds, SpecPasses, RefusesSpec, ExportEnds DEF ProjectNext

LEMMA ProjectHolds == ProjectSpec => []ProjectInv
<1>1. ProjectInv /\ [ProjectNext]_projectVars => ProjectInv' BY ProjectStep DEF StepFits
<1> QED BY <1>1, ProjectStart, PTL DEF ProjectSpec

\* Every reachable state of the project is well typed.
THEOREM ProjectTyping == ProjectSpec => []ProjectTypeOK
<1>1. ProjectInv => ProjectTypeOK
  BY DEF ProjectInv, ProjectShape, ProjectTypeOK, Rows
<1> QED BY <1>1, ProjectHolds, PTL

\* A spec that could be collected stays so for as long as its code stays: no pass
\* commits a library that has lost a method, whatever its toolchain let through.
THEOREM LibraryServed == ProjectSpec => LibraryServesSpecs
<1>1. ProjectInv /\ [ProjectNext]_projectVars =>
        [\A c \in TestCases :
           (Tip.spec[c] # NoFile /\ Tip.spec[c] \subseteq Has(Tip.lib) /\ Tip'.spec[c] = Tip.spec[c])
             => Tip'.spec[c] \subseteq Has(Tip'.lib)]_projectVars
  BY ProjectStep DEF StepFits, LibraryGrows
<1> QED BY <1>1, ProjectHolds, PTL DEF ProjectSpec, LibraryServesSpecs

\* The committed spec of a case is changed only by a pass of that case that its
\* gate let through, or by its accepted fix.
THEOREM SpecsAreGated == ProjectSpec => AcceptedByItsPass
<1>1. ProjectInv /\ [ProjectNext]_projectVars => [SpecsByPass]_projectVars
  BY ProjectStep DEF StepFits
<1> QED BY <1>1, ProjectHolds, PTL DEF ProjectSpec, AcceptedByItsPass, SpecsByPass
=============================================================================
