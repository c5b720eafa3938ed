------------------------- MODULE AutomationProject -------------------------
(***************************************************************************)
(* The git-backed automation project that every run of a repository writes *)
(* into: automation_project_service (the tree, its commits, its mirror and *)
(* its lock), automation_planner_service (the plan of a ticket),           *)
(* page_object_author_service and page_object_healer_service (the two      *)
(* editors of the shared library), the spec gates of routers/automation.py *)
(* and the push of automation_export_service.                              *)
(*                                                                         *)
(* A library file is abstracted to its exported methods, a method to the   *)
(* revision of its body, a spec to the methods it imports, and a ticket to *)
(* its one case.  What is left is who may write the tree when, what each   *)
(* gate looks at, and what a rollback takes away.                          *)
(***************************************************************************)
EXTENDS Naturals, Sequences, FiniteSets, SequencesExt

CONSTANTS
  TestCases,  \* test cases whose spec lives in this project
  Methods,    \* exported methods the library may hold
  Imports,    \* sets of methods a plan asks for or a spec imports
  Twins,      \* pairs of methods whose names duplicate detection equates
  Crew,       \* generation, regeneration, edit, heal and export threads
  NoFile,     \* a case with no spec file
  NoPlan,     \* a ticket with no plan file
  Free,       \* nobody holds the project lock
  MaxPasses,  \* passes started
  MaxForeign  \* commits somebody else pushes to the export branch

ASSUME ProjectAssumption == Free \notin Crew /\ Imports \subseteq SUBSET Methods

VARIABLES
  tree,      \* the working tree
  repo,      \* the commits, oldest first: each is a tree
  mirror,    \* the automation_files rows: library and specs
  specRow,   \* the AutomationSpec row of each case
  treeLock,  \* project_lock
  doing,     \* what each thread is doing
  remote,    \* the export branch: numbers of our commits, 0 for a foreign one
  passes, foreign

projectVars == <<tree, repo, mirror, specRow, treeLock, doing, remote, passes, foreign>>

Bodies  == 0..2                        \* absent, as first written, rewritten
Plans   == [wants : SUBSET Methods, importable : SUBSET Methods, stamp : {"", "ok", "error"}]
Specs   == SUBSET Methods
Trees   == [lib : [Methods -> Bodies], spec : [TestCases -> Specs \cup {NoFile}],
            plan : [TestCases -> Plans \cup {NoPlan}], old : BOOLEAN]
IdlePass    == [at |-> "idle", kind |-> "", case |-> "", plan |-> NoPlan, cand |-> {}, pre |-> 0, outcome |-> ""]

(* ------------------------------ the tree ------------------------------- *)
Has(lib)      == {m \in Methods : lib[m] > 0}
Tip          == Last(repo)
Collects(t)   == \A c \in {d \in TestCases : t.spec[d] # NoFile} : t.spec[c] \subseteq Has(t.lib)
Mirrored(t)   == [lib |-> t.lib, spec |-> t.spec]
Committed(t)  == IF t = Tip THEN repo ELSE Append(repo, t)

(* git_changed_paths: everything that differs from HEAD, whoever wrote it *)
ChangedMethods(t) == {m \in Methods : t.lib[m] # Tip.lib[m]}
ChangedElsewhere(t) == t.plan # Tip.plan \/ t.old # Tip.old \/ t.spec # Tip.spec

(* diff_is_additive: no signature of before may go, and unless bodies are *)
(* free no body may change                                                *)
DiffIsAdditive(before, after, bodies) ==
  \A m \in Has(before) : after[m] > 0 /\ (bodies \/ after[m] = before[m])

(* ------------------------------ the plan ------------------------------- *)
(* the existing asset that already owns a planned one, with its own name   *)
DuplicateOwner(m, lib) == {o \in Has(lib) \ {m} : {m, o} \in Twins}
Demoted(wants, lib) == {m \in wants : lib[m] = 0 /\ DuplicateOwner(m, lib) # {}}
Normalize(wants, lib, stamp) ==
  LET kept == (wants \ Demoted(wants, lib)) \cup UNION {DuplicateOwner(m, lib) : m \in Demoted(wants, lib)}
  IN  [wants |-> kept, importable |-> kept \cap Has(lib), stamp |-> stamp]
EmptyPlan       == [wants |-> {}, importable |-> {}, stamp |-> ""]
IsActionable(p) == p # NoPlan /\ p.wants # {}
PendingActions(p) == IF IsActionable(p) THEN p.wants \ p.importable ELSE {}
ImportViolations(code, p) == IF IsActionable(p) THEN code \ p.importable ELSE {}

(* ------------------------------- threads ------------------------------- *)
NowDoes(t, pass) == doing' = [doing EXCEPT ![t] = pass]
Proceeds(t, where) == NowDoes(t, [doing[t] EXCEPT !.at = where])
IsAt(t, where)      == doing[t].at = where
CaseOf(t)         == doing[t].case
Takes(t)          == treeLock = Free /\ treeLock' = t
Releases(t)       == treeLock = t /\ treeLock' = Free

(* every editor first commits whatever is in the tree, and rolls back to that *)
PreState(t)       == Committed(tree)

BeginPass(t, c, kind, where) ==
  /\ IsAt(t, "idle") /\ passes < MaxPasses
  /\ passes' = passes + 1
  /\ UNCHANGED <<tree, repo, mirror, specRow, treeLock, remote, foreign>>
  /\ NowDoes(t, [IdlePass EXCEPT !.at = where, !.case = c, !.kind = kind])

BeginGenerate(t, c) == BeginPass(t, c, "generate", "resolve")
BeginHeal(t, c)     == specRow[c].status = "draft" /\ BeginPass(t, c, "heal", "heal")
BeginExport(t)      == BeginPass(t, NoFile, "export", "export")
(* update_case_spec and the chat worker: any new code for a case that has a spec *)
BeginEdit(t, c, code) ==
  /\ specRow[c].status # "none" /\ IsAt(t, "idle") /\ passes < MaxPasses
  /\ passes' = passes + 1
  /\ NowDoes(t, [IdlePass EXCEPT !.at = "write", !.case = c, !.kind = "edit", !.cand = code])
  /\ UNCHANGED <<tree, repo, mirror, specRow, treeLock, remote, foreign>>

(* _resolve_automation_project: ensure_project rewrites an outdated          *)
(* tsconfig, .gitignore or base pin in the tree, under the identity lock and *)
(* not under this one                                                        *)
Migrated(t) == [t EXCEPT !.old = FALSE]
ResolveProject(t) ==
  /\ IsAt(t, "resolve")
  /\ Proceeds(t, "plan") /\ tree' = Migrated(tree)
  /\ UNCHANGED <<repo, mirror, specRow, treeLock, remote, passes, foreign>>

(* plan_for_ticket: the file of an earlier pass, or a call whose answer is *)
(* normalized against the tree as it is and saved, with no lock held; a    *)
(* failed call plans nothing and saves nothing                             *)
PlanForTicket(t, wants) ==
  LET c == CaseOf(t)
      fresh == Normalize(wants, tree.lib, "")
  IN  /\ IsAt(t, "plan")
      /\ IF tree.plan[c] # NoPlan
         THEN NowDoes(t, [doing[t] EXCEPT !.at = "author", !.plan = tree.plan[c]]) /\ UNCHANGED tree
         ELSE /\ NowDoes(t, [doing[t] EXCEPT !.at = "author", !.plan = fresh])
              /\ tree' = IF IsActionable(fresh) THEN [tree EXCEPT !.plan[c] = fresh] ELSE tree
      /\ UNCHANGED <<repo, mirror, specRow, treeLock, remote, passes, foreign>>

(* ------------------------- authoring the library ----------------------- *)
AuthorSkips(t) ==
  /\ IsAt(t, "author")
  /\ \/ PendingActions(doing[t].plan) = {}
     \/ doing[t].plan.stamp = "ok"
     \/ TRUE                                     \* the run spent its budget
  /\ Proceeds(t, "generate")
  /\ UNCHANGED <<tree, repo, mirror, specRow, treeLock, remote, passes, foreign>>

AuthorOpens(t) ==
  /\ IsAt(t, "author") /\ PendingActions(doing[t].plan) # {} /\ doing[t].plan.stamp # "ok"
  /\ Takes(t)
  /\ repo' = PreState(t)
  /\ NowDoes(t, [doing[t] EXCEPT !.at = "authoring", !.pre = Len(repo')])
  /\ UNCHANGED <<tree, mirror, specRow, remote, passes, foreign>>

HealOpens(t) ==
  /\ IsAt(t, "heal") /\ specRow[CaseOf(t)].code # {}   \* it imports something of the library
  /\ Takes(t)
  /\ repo' = PreState(t)
  /\ NowDoes(t, [doing[t] EXCEPT !.at = "healing", !.pre = Len(repo')])
  /\ UNCHANGED <<tree, mirror, specRow, remote, passes, foreign>>

(* the agent edits real files: it may add, rewrite or remove any method  *)
EditsLibrary(t, lib) ==
  /\ doing[t].at \in {"authoring", "healing"}
  /\ tree' = [tree EXCEPT !.lib = lib]
  /\ Proceeds(t, IF IsAt(t, "authoring") THEN "authored" ELSE "healed")
  /\ UNCHANGED <<repo, mirror, specRow, treeLock, remote, passes, foreign>>

(* _rejection: the first defence that refuses; --list and tsc only count *)
(* when the toolchain is there                                           *)
AuthorOk_AnyDiff(t, tools) ==
  /\ ChangedMethods(tree) # {} /\ ~ChangedElsewhere(tree)
  /\ ChangedMethods(tree) \subseteq doing[t].plan.wants
  /\ tools => Collects(tree)
AuthorOk(t, tools) ==
  LET pre == repo[doing[t].pre] IN
  /\ ChangedMethods(tree) # {} /\ ~ChangedElsewhere(tree)
  /\ ChangedMethods(tree) \subseteq doing[t].plan.wants
  /\ DiffIsAdditive(pre.lib, tree.lib, FALSE)
  /\ tools => Collects(tree)
HealOk(t, tools) ==
  LET pre == repo[doing[t].pre] IN
  /\ ChangedMethods(tree) # {} /\ ~ChangedElsewhere(tree)
  /\ ChangedMethods(tree) \subseteq specRow[CaseOf(t)].code
  /\ DiffIsAdditive(pre.lib, tree.lib, TRUE)
  /\ tools => Collects(tree)

(* git_reset_hard: reset --hard and clean, which also takes the plan files *)
(* other tickets wrote meanwhile and the migrations                        *)
RolledBack(t) == repo[doing[t].pre]

AuthorAccepted(t, tools) ==
  LET plan == Normalize(doing[t].plan.wants, tree.lib, "ok") IN
  /\ IsAt(t, "authored") /\ AuthorOk(t, tools) /\ Releases(t)
  /\ repo' = Committed(tree) /\ mirror' = Mirrored(tree)
  /\ tree' = [tree EXCEPT !.plan[CaseOf(t)] = plan]
  /\ NowDoes(t, [doing[t] EXCEPT !.at = "generate", !.plan = plan])
  /\ UNCHANGED <<specRow, remote, passes, foreign>>

AuthorRejected(t, tools) ==
  LET plan == Normalize(doing[t].plan.wants, RolledBack(t).lib, "error") IN
  /\ IsAt(t, "authored") /\ ~AuthorOk(t, tools) /\ Releases(t)
  /\ tree' = [RolledBack(t) EXCEPT !.plan[CaseOf(t)] = plan] /\ mirror' = Mirrored(tree')
  /\ NowDoes(t, [doing[t] EXCEPT !.at = "generate", !.plan = plan])
  /\ UNCHANGED <<repo, specRow, remote, passes, foreign>>

(* the call itself failed: rolled back, stamped, not mirrored            *)
AuthorFails(t) ==
  LET plan == Normalize(doing[t].plan.wants, RolledBack(t).lib, "error") IN
  /\ IsAt(t, "authored") /\ Releases(t)
  /\ tree' = [RolledBack(t) EXCEPT !.plan[CaseOf(t)] = plan]
  /\ NowDoes(t, [doing[t] EXCEPT !.at = "generate", !.plan = plan])
  /\ UNCHANGED <<repo, mirror, specRow, remote, passes, foreign>>

HealAccepted(t, tools) ==
  /\ IsAt(t, "healed") /\ HealOk(t, tools) /\ Releases(t)
  /\ repo' = Committed(tree) /\ mirror' = Mirrored(tree)
  /\ NowDoes(t, IdlePass)
  /\ UNCHANGED <<tree, specRow, remote, passes, foreign>>

HealRejected(t, tools) ==
  /\ IsAt(t, "healed") /\ ~HealOk(t, tools) /\ Releases(t)
  /\ tree' = RolledBack(t) /\ mirror' = Mirrored(tree')
  /\ Proceeds(t, "fix")
  /\ UNCHANGED <<repo, specRow, remote, passes, foreign>>

HealSkips(t) ==
  /\ IsAt(t, "heal") /\ Proceeds(t, "fix")
  /\ UNCHANGED <<tree, repo, mirror, specRow, treeLock, remote, passes, foreign>>

(* _persist_spec_code: an accepted fix is written and committed under the *)
(* lock, with whatever else is in the tree, and not gated again           *)
PersistSpecCode(t, code) ==
  LET c == CaseOf(t)
      fixed == [tree EXCEPT !.spec[c] = code]
  IN  /\ IsAt(t, "fix") /\ treeLock = Free /\ UNCHANGED treeLock
      /\ tree' = fixed /\ repo' = Committed(fixed) /\ mirror' = Mirrored(fixed)
      /\ NowDoes(t, [doing[t] EXCEPT !.at = "row", !.cand = code, !.outcome = "passed"])
      /\ UNCHANGED <<specRow, remote, passes, foreign>>

(* --------------------------- gating a spec ----------------------------- *)
(* the generated code: the prompt names the importable files, the answer   *)
(* may import anything                                                     *)
GenerateSpecCode(t, code) ==
  /\ IsAt(t, "generate") /\ NowDoes(t, [doing[t] EXCEPT !.at = "write", !.cand = code])
  /\ UNCHANGED <<tree, repo, mirror, specRow, treeLock, remote, passes, foreign>>

(* the candidate is written first, because the gate collects what is on disk *)
GateOpens_Unlocked(t) ==
  /\ IsAt(t, "write") /\ UNCHANGED treeLock
  /\ repo' = PreState(t)
  /\ tree' = [tree EXCEPT !.spec[CaseOf(t)] = doing[t].cand]
  /\ NowDoes(t, [doing[t] EXCEPT !.at = "gating", !.pre = Len(repo')])
  /\ UNCHANGED <<mirror, specRow, remote, passes, foreign>>
GateOpens(t) ==
  /\ IsAt(t, "write") /\ Takes(t)
  /\ repo' = PreState(t)
  /\ tree' = [tree EXCEPT !.spec[CaseOf(t)] = doing[t].cand]
  /\ NowDoes(t, [doing[t] EXCEPT !.at = "gating", !.pre = Len(repo')])
  /\ UNCHANGED <<mirror, specRow, remote, passes, foreign>>

(* collection and types of the whole project, when the toolchain is there; *)
(* switched off, the gate lets anything through                            *)
GateAllows(tools) == tools => Collects(tree)
(* the reviewer may refuse; the plan has the last word on the imports    *)
PlanAllows(t) == doing[t].kind = "generate" => ImportViolations(doing[t].cand, doing[t].plan) = {}
GatePasses(t, tools) ==
  /\ IsAt(t, "gating") /\ treeLock' = Free
  /\ GateAllows(tools) /\ PlanAllows(t)
  /\ repo' = Committed(tree) /\ mirror' = Mirrored(tree)
  /\ NowDoes(t, [doing[t] EXCEPT !.at = "row", !.outcome = "passed"])
  /\ UNCHANGED <<tree, specRow, remote, passes, foreign>>

GateRefuses(t, outcome) ==
  /\ IsAt(t, "gating") /\ treeLock' = Free
  /\ tree' = RolledBack(t) /\ mirror' = Mirrored(tree')
  /\ NowDoes(t, [doing[t] EXCEPT !.at = "row", !.outcome = outcome])
  /\ UNCHANGED <<repo, specRow, remote, passes, foreign>>

(* the row is written after the lock is gone.  A refused generation keeps a *)
(* previous good spec; a refused edit keeps the new code and blocks it      *)
HasPreviousGood(r) == r.code # NoFile /\ r.status # "blocked"
Saved(r, kind, code, outcome) ==
  CASE outcome = "passed" -> [code |-> code, status |-> "draft"]
    [] outcome = "rejected" /\ kind # "edit" /\ HasPreviousGood(r) -> r
    [] OTHER -> [code |-> code, status |-> "blocked"]
SaveRow(t) ==
  /\ IsAt(t, "row")
  /\ specRow' = [specRow EXCEPT ![CaseOf(t)] = Saved(@, doing[t].kind, doing[t].cand, doing[t].outcome)]
  /\ NowDoes(t, IdlePass)
  /\ UNCHANGED <<tree, repo, mirror, treeLock, remote, passes, foreign>>

(* ------------------------------- export -------------------------------- *)
Ours == {n \in 1..Len(repo) : TRUE}
IsAncestor(r) == \A i \in 1..Len(r) : r[i] \in Ours

(* a dirty tree is committed; a branch with foreign commits is refused   *)
ExportChecks(t) ==
  /\ IsAt(t, "export") /\ Takes(t)
  /\ repo' = Committed(tree)
  /\ Proceeds(t, IF IsAncestor(remote) /\ (remote = <<>> \/ Last(remote) # Len(repo')) THEN "push" ELSE "leave")
  /\ UNCHANGED <<tree, mirror, specRow, remote, passes, foreign>>
(* the push is not forced: the remote refuses one that is not a fast-forward *)
ExportPushes(t) ==
  /\ IsAt(t, "push") /\ Releases(t)
  /\ remote' = IF IsAncestor(remote) THEN [i \in 1..Len(repo) |-> i] ELSE remote
  /\ NowDoes(t, IdlePass)
  /\ UNCHANGED <<tree, repo, mirror, specRow, passes, foreign>>
ExportLeaves(t) ==
  /\ IsAt(t, "leave") /\ Releases(t) /\ NowDoes(t, IdlePass)
  /\ UNCHANGED <<tree, repo, mirror, specRow, remote, passes, foreign>>
ForeignPush ==
  /\ foreign < MaxForeign /\ foreign' = foreign + 1
  /\ remote' = Append(remote, 0)
  /\ UNCHANGED <<tree, repo, mirror, specRow, treeLock, doing, passes>>

(* ---------------------------- specification ---------------------------- *)
Scaffold == [lib |-> [m \in Methods |-> 0], spec |-> [c \in TestCases |-> NoFile],
             plan |-> [c \in TestCases |-> NoPlan], old |-> TRUE]
ProjectInit ==
  /\ tree = Scaffold
  /\ repo = <<tree>> /\ mirror = Mirrored(tree)
  /\ specRow = [c \in TestCases |-> [code |-> NoFile, status |-> "none"]]
  /\ treeLock = Free /\ doing = [t \in Crew |-> IdlePass]
  /\ remote = <<>> /\ passes = 0 /\ foreign = 0

Edited == {[tree.lib EXCEPT ![m] = b] : m \in Methods, b \in Bodies} \cup {tree.lib}

ProjectNext ==
  \/ \E t \in Crew, c \in TestCases : BeginGenerate(t, c) \/ BeginHeal(t, c)
  \/ \E t \in Crew : BeginExport(t)
  \/ \E t \in Crew, c \in TestCases, code \in Imports : BeginEdit(t, c, code)
  \/ \E t \in Crew : ResolveProject(t)
  \/ \E t \in Crew, wants \in Imports \cup {{}} : PlanForTicket(t, wants)
  \/ \E t \in Crew : AuthorSkips(t) \/ AuthorOpens(t) \/ AuthorFails(t)
  \/ \E t \in Crew : HealOpens(t) \/ HealSkips(t)
  \/ \E t \in Crew, lib \in Edited : EditsLibrary(t, lib)
  \/ \E t \in Crew, tools \in BOOLEAN : AuthorAccepted(t, tools) \/ AuthorRejected(t, tools)
  \/ \E t \in Crew, tools \in BOOLEAN : HealAccepted(t, tools) \/ HealRejected(t, tools)
  \/ \E t \in Crew, code \in Imports : PersistSpecCode(t, code) \/ GenerateSpecCode(t, code)
  \/ \E t \in Crew : GateOpens(t)
  \/ \E t \in Crew, tools \in BOOLEAN : GatePasses(t, tools)
  \/ \E t \in Crew, outcome \in {"blocked", "rejected"} : GateRefuses(t, outcome)
  \/ \E t \in Crew : SaveRow(t)
  \/ \E t \in Crew : ExportChecks(t) \/ ExportPushes(t) \/ ExportLeaves(t)
  \/ ForeignPush

ProjectSpec == ProjectInit /\ [][ProjectNext]_projectVars

(* ------------------------------ properties ----------------------------- *)
ProjectTypeOK ==
  /\ tree \in Trees /\ \A i \in 1..Len(repo) : repo[i] \in Trees
  /\ treeLock \in Crew \cup {Free}
  /\ \A c \in TestCases : specRow[c].status \in {"none", "draft", "blocked"}

(* A spec that could be collected stays so for as long as its code stays:     *)
(* no edit of the shared library, by any ticket, with or without a Playwright *)
(* toolchain, takes away what a committed spec imports (diff_is_additive and  *)
(* the rollbacks of author_assets and heal_library).                          *)
LibraryServesSpecs ==
  [][\A c \in TestCases :
       (Tip.spec[c] # NoFile /\ Tip.spec[c] \subseteq Has(Tip.lib) /\ Tip'.spec[c] = Tip.spec[c])
         => Tip'.spec[c] \subseteq Has(Tip'.lib)]_projectVars

(* The committed spec of a case is replaced only by a pass of that case that   *)
(* its gate let through: no commit or rollback of another pass carries,        *)
(* overwrites or drops it (project_lock around write, gate, commit and reset). *)
AcceptedByItsPass ==
  [][\A c \in TestCases : Tip'.spec[c] # Tip.spec[c] =>
       \E t \in Crew : /\ CaseOf(t) = c /\ doing'[t].outcome = "passed"
                       /\ doing[t].at \in {"gating", "fix"} /\ doing'[t].at = "row"]_projectVars
=============================================================================
