------------------------------ MODULE HealLoop ------------------------------
(***************************************************************************)
(* Self-heal of one case's spec: run it, and while it fails classify the   *)
(* failure, repair the imported page objects once, else have the spec      *)
(* rewritten, and accept the rewrite only past the anti-cheat and the      *)
(* placeholder gate.  A pass runs on the server (playwright_runner         *)
(* .heal_spec) or on a device that asks the server for each fix (runner.ts *)
(* processHealJob, heal_service.plan_fix); the two differ in the order of  *)
(* their tests and in where the working copy lives.                        *)
(* Code is abstracted to what the anti-cheat reads: how many assertions    *)
(* the spec has and which library files it imports.                        *)
(* Names that MCSafety would meet twice begin with Heal.                   *)
(***************************************************************************)
EXTENDS Integers, FiniteSets

CONSTANTS
  Files,        \* files of the project's shared library
  MaxCount,     \* bound: assertions in a file or a spec
  MaxAttempts   \* settings.heal_max_attempts
ASSUME HealAssumption ==
  IsFiniteSet(Files) /\ MaxCount \in Nat /\ MaxAttempts \in Nat \ {0}

VARIABLES
  lib,     \* the library on the server: assertions by file
  spec,    \* the AutomationSpec row
  pass,    \* the heal pass under way
  floor,   \* library_floor (server loop), _library_floor (plan_fix)
  proven   \* history: the code that last passed
healVars == <<lib, spec, pass, floor, proven>>

-----------------------------------------------------------------------------
Counts == 0 .. MaxCount
Codes == [n: Counts, imports: SUBSET Files]
SpecStatus == {"draft", "running", "passed", "failed", "blocked", "product_defect"}
Outcomes == {"pass", "fail", "blocked", "product_defect"}
NoFloor == -1
NoPass == [pc |-> "idle"]

\* library_assertion_count and assertion_scope_count.
Assertions(l, code) == UNION {{f} \X (1 .. l[f]) : f \in code.imports}
LibraryCount(l, code) == Cardinality(Assertions(l, code))
Scope(l, code) == code.n + LibraryCount(l, code)

At(pc) == pass.pc = pc
OnServer == pass.where = "server"

Goto(pc) == pass' = [pass EXCEPT !.pc = pc]
Ends(outcome) == pass' = [pass EXCEPT !.pc = "ended", !.outcome = outcome]
NextAttempt(code) ==
  pass' = [pass EXCEPT !.pc = "run", !.attempt = @ + 1, !.code = code]

-----------------------------------------------------------------------------
\* heal_spec, or the claim of a heal execution whose enqueueing marked the
\* spec: running from the code in the row.
Begin(where) ==
  /\ At("idle") /\ spec.status # "product_defect"
  /\ spec' = [spec EXCEPT !.status = "running"]
  /\ pass' = [pc |-> "run", where |-> where, attempt |-> 1, tried |-> FALSE,
              code |-> spec.code, prop |-> spec.code, scope |-> Scope(lib, spec.code),
              outcome |-> "fail"]
  /\ floor' = IF where = "server" THEN LibraryCount(lib, spec.code) ELSE floor
  /\ UNCHANGED <<lib, proven>>

\* An attempt: the spec passes, or it fails in any way (timeout, no report).
RunPasses ==
  /\ At("run") /\ Ends("pass") /\ proven' = pass.code
  /\ UNCHANGED <<lib, spec, floor>>

RunFails ==
  /\ At("run") /\ (OnServer \/ pass.attempt < MaxAttempts) /\ Goto("classify")
  /\ UNCHANGED <<lib, spec, floor, proven>>

\* A device asks for no fix of its last attempt.
LastRunFails ==
  /\ At("run") /\ ~OnServer /\ pass.attempt >= MaxAttempts /\ Ends("fail")
  /\ UNCHANGED <<lib, spec, floor, proven>>

\* Mutant: one attempt too many.
Classify_OneMore ==
  /\ At("classify") /\ OnServer
  /\ \/ Ends("product_defect")
     \/ pass.attempt > MaxAttempts /\ Ends("fail")
     \/ pass.attempt <= MaxAttempts /\ Goto("library")
  /\ UNCHANGED <<lib, spec, floor, proven>>

\* A product defect is terminal.  The server classifies the last attempt too.
Classify ==
  /\ At("classify") /\ OnServer
  /\ \/ Ends("product_defect")
     \/ pass.attempt >= MaxAttempts /\ Ends("fail")
     \/ pass.attempt < MaxAttempts /\ Goto("library")
  /\ UNCHANGED <<lib, spec, floor, proven>>

\* _plan_fix: the floor is taken on the first attempt, or when it is gone.
ClassifyForDevice ==
  /\ At("classify") /\ ~OnServer
  /\ \/ Ends("product_defect") /\ UNCHANGED floor
     \/ /\ Goto("library")
        /\ floor' = IF pass.attempt > 1 /\ floor # NoFloor THEN floor
                    ELSE LibraryCount(lib, pass.code)
  /\ UNCHANGED <<lib, spec, proven>>

\* heal_spec: once per pass; plan_fix: on the first attempt.  Nothing to do
\* when the spec imports nothing of the library.
LibraryTurn == pass.code.imports # {} /\ (IF OnServer THEN ~pass.tried ELSE pass.attempt <= 1)

\* _rejection: the scope of the failing spec may not shrink.
LibraryKept(l) == Scope(l, pass.code) >= Scope(lib, pass.code)

\* heal_library, under the project's lock: budget spent, nothing found, or
\* rejected and reset; else committed, and the spec is run again as it is.
LibraryHeal ==
  /\ At("library")
  /\ \/ /\ pass' = [pass EXCEPT !.pc = "fix", !.tried = @ \/ LibraryTurn] /\ UNCHANGED lib
     \/ /\ LibraryTurn
        /\ \E l \in [pass.code.imports -> Counts] :
             LET healed == [f \in Files |-> IF f \in pass.code.imports THEN l[f] ELSE lib[f]]
             IN LibraryKept(healed) /\ lib' = healed
        /\ pass' = [pass EXCEPT !.pc = "run", !.attempt = @ + 1, !.tried = TRUE]
  /\ UNCHANGED <<spec, floor, proven>>

\* Live rehearsal that reproduces nothing: blocked for manual review.
LiveGivesUp ==
  /\ At("fix") /\ OnServer /\ Ends("blocked")
  /\ UNCHANGED <<lib, spec, floor, proven>>

\* The model call of the static fixer fails.
FixerFails ==
  /\ At("fix") /\ Ends("fail")
  /\ UNCHANGED <<lib, spec, floor, proven>>

\* The rehearsal or the fixer rewrites the spec, in any way.
Rewrite ==
  /\ At("fix")
  /\ \E code \in Codes : pass' = [pass EXCEPT !.pc = "check", !.prop = code]
  /\ UNCHANGED <<lib, spec, floor, proven>>

\* The anti-cheat: the rewrite with the library as it is, against the code it
\* replaces with the library as it was at the last rebase.
Weakened == Scope(lib, pass.prop) < pass.code.n + floor

RejectWeakened ==
  /\ At("check") /\ Weakened /\ Ends("fail")
  /\ UNCHANGED <<lib, spec, floor, proven>>

\* The placeholder gate; its report is stored, the code is not.
Gated ==
  /\ At("check") /\ ~Weakened /\ (Ends("blocked") \/ Ends("fail"))
  /\ UNCHANGED <<lib, spec, floor, proven>>

\* Mutant: the headroom of a library gain is not taken back.
Accept_NoRebase ==
  /\ At("check") /\ OnServer /\ ~Weakened
  /\ NextAttempt(pass.prop) /\ spec' = [spec EXCEPT !.code = pass.prop]
  /\ UNCHANGED <<lib, floor, proven>>

\* The rewrite replaces the code in the row, and the floor is rebased.
Accept ==
  /\ At("check") /\ OnServer /\ ~Weakened
  /\ NextAttempt(pass.prop) /\ spec' = [spec EXCEPT !.code = pass.prop]
  /\ floor' = LibraryCount(lib, pass.prop)
  /\ UNCHANGED <<lib, proven>>

\* A device keeps it to itself.
AcceptOnDevice ==
  /\ At("check") /\ ~OnServer /\ ~Weakened
  /\ NextAttempt(pass.prop)
  /\ floor' = LibraryCount(lib, pass.prop)
  /\ UNCHANGED <<lib, spec, proven>>

StatusOf(outcome) ==
  CASE outcome = "pass" -> "passed" [] outcome = "fail" -> "failed" [] OTHER -> outcome

\* heal_spec past its loop.
FinishServer ==
  /\ At("ended") /\ OnServer
  /\ spec' = [spec EXCEPT !.status = StatusOf(pass.outcome)]
  /\ pass' = NoPass /\ floor' = NoFloor
  /\ UNCHANGED <<lib, proven>>

\* Mutant: the row's own code wins over what the device ended on.
FinalizeDevice_KeepsRow ==
  /\ At("ended") /\ ~OnServer
  /\ spec' = [spec EXCEPT !.status = StatusOf(pass.outcome)]
  /\ pass' = NoPass /\ floor' = NoFloor
  /\ UNCHANGED <<lib, proven>>

\* finalize_agent_heal: the code the loop ended on, whatever the outcome.
FinalizeDevice ==
  /\ At("ended") /\ ~OnServer
  /\ spec' = [spec EXCEPT !.status = StatusOf(pass.outcome), !.code = pass.code]
  /\ pass' = NoPass /\ floor' = NoFloor
  /\ UNCHANGED <<lib, proven>>

-----------------------------------------------------------------------------
\* The post of the outcome is lost, the device is, or the API restarts: the
\* floor of a device's pass stays behind unless the API went down.
PassLost ==
  /\ ~At("idle") /\ pass' = NoPass
  /\ spec' = [spec EXCEPT !.lost = TRUE]
  /\ floor' \in IF OnServer THEN {NoFloor} ELSE {floor, NoFloor}
  /\ UNCHANGED <<lib, proven>>

\* A stop has reset the spec (reset_stuck_specs); the server loop sees it
\* before its next attempt and leaves.
Cancelled ==
  /\ At("run") /\ OnServer
  /\ spec' = [spec EXCEPT !.status = "draft"]
  /\ pass' = NoPass /\ floor' = NoFloor
  /\ UNCHANGED <<lib, proven>>

\* The API restarts while the device runs an attempt: only the floor goes.
FloorForgotten ==
  /\ At("run") /\ ~OnServer /\ floor # NoFloor /\ floor' = NoFloor
  /\ UNCHANGED <<lib, spec, pass, proven>>

\* A fix job dies with the API, or the reply that pops its result from memory
\* (_heal_fix_jobs) is lost: the device gives up.
FixLost ==
  /\ pass.pc \in {"classify", "library", "fix", "check"} /\ ~OnServer
  /\ Ends("fail") /\ floor' \in {floor, NoFloor}
  /\ UNCHANGED <<lib, spec, proven>>

\* Another case's authoring adds to the shared library.
OthersAdd(f) ==
  /\ lib[f] < MaxCount /\ lib' = [lib EXCEPT ![f] = @ + 1]
  /\ UNCHANGED <<spec, pass, floor, proven>>

-----------------------------------------------------------------------------
HealInit ==
  /\ lib \in [Files -> Counts]
  /\ \E code \in Codes :
       /\ spec = [status |-> "draft", code |-> code, lost |-> FALSE]
       /\ proven = code
  /\ pass = NoPass /\ floor = NoFloor

HealNext ==
  \/ \E where \in {"server", "device"} : Begin(where)
  \/ RunPasses \/ RunFails \/ LastRunFails
  \/ Classify \/ ClassifyForDevice \/ LibraryHeal
  \/ LiveGivesUp \/ FixerFails \/ Rewrite
  \/ RejectWeakened \/ Gated \/ Accept \/ AcceptOnDevice
  \/ FinishServer \/ FinalizeDevice
  \/ PassLost \/ Cancelled \/ FloorForgotten \/ FixLost
  \/ \E f \in Files : OthersAdd(f)

HealSpec == HealInit /\ [][HealNext]_healVars

-----------------------------------------------------------------------------
HealTypeOK ==
  /\ lib \in [Files -> Counts] /\ floor \in Int /\ proven \in Codes
  /\ spec.status \in SpecStatus /\ spec.code \in Codes
  /\ At("idle") \/ /\ pass.code \in Codes /\ pass.prop \in Codes
                   /\ pass.attempt \in 1 .. MaxAttempts /\ pass.outcome \in Outcomes

\* A heal never ends up checking less than it found: over the spec and the
\* library files it imports, the code a pass works with has at least the
\* assertions the pass began with, although the library half is measured
\* against a floor that library repairs and other cases overtake
\* (heal_spec's library_floor; plan_fix's _library_floor).
ScopeKept == ~At("idle") => Scope(lib, pass.code) >= pass.scope

\* The status of a spec says what is so: one marked passed has the code that
\* passed, wherever the pass ran and whatever became of the passes before it,
\* and one marked running has a pass that runs, unless the pass's end was lost.
StatusIsTrue ==
  /\ spec.status = "passed" => spec.code = proven
  /\ spec.status = "running" => ~At("idle") \/ spec.lost
=============================================================================
