----------------------------- MODULE Knowledge -----------------------------
(***************************************************************************)
(* The knowledge base of one repository of one project: a row of           *)
(* project_knowledge per owner, the shared one included, holding one JSON  *)
(* blob that a background build replaces, a human corrects, a heal and an  *)
(* exploration merge into, the hub mirror overwrites and a clone copies.     *)
(* The code is knowledge_service, the endpoints of routers/projects.py and *)
(* routers/workspace.py, clone_service, repo_service and the mirror of     *)
(* hub_workspace.                                                          *)
(*                                                                         *)
(* The blob is its selectors: each is a value and where it comes from (the *)
(* source, the running application, a human).  Two of them may name the    *)
(* same value.  docs stands for knowledge.json and knowledge.md.           *)
(***************************************************************************)
EXTENDS Naturals, FiniteSets

CONSTANTS
  SharedScope,  \* the owner of the shared namespace (owner_id NULL)
  ScopeOwners,  \* users with a scope of their own
  Sels,         \* selector values
  Scans,        \* the sets of selectors a scan of the source may find
  NoRow, NoWork,
  HubOn,        \* whether hub_client is enabled
  MaxBuilds, MaxPatches, MaxMerges, MaxMirrors, MaxBuildRestarts

ASSUME LearnAssumption == Scans \subseteq SUBSET Sels

VARIABLES
  scopes,     \* the row of each owner, or NoRow
  docs,       \* the artifacts of each owner's scope, or NoWork
  checkouts,  \* the owners whose scope holds a checkout of the repository
  building,   \* _building holds the key
  build,      \* the build thread
  edit,       \* a PATCH between its read and its commit
  merge,      \* a heal's or an exploration's merge, likewise
  cloning,    \* a clone request between its guards and its commit
  spent       \* how much of each bound is spent

learnVars == <<scopes, docs, checkouts, building, build, edit, merge, cloning, spent>>

Scopes  == {SharedScope} \cup ScopeOwners
Marks   == {"source", "verified", "pinned"}
Entries == [sel : Sels, mark : Marks]
Row(status, built, blob) == [status |-> status, built |-> built, blob |-> blob]
ScopeRows == [status : {"not_indexed", "indexing", "indexed", "error"}, built : BOOLEAN,
              blob : SUBSET Entries]
WorkKinds == {"builds", "edits", "merges", "mirrors", "restarts"}
Limits == [builds |-> MaxBuilds, edits |-> MaxPatches, merges |-> MaxMerges,
           mirrors |-> MaxMirrors, restarts |-> MaxBuildRestarts]
Charges(w) == spent[w] < Limits[w] /\ spent' = [spent EXCEPT ![w] = @ + 1]

Held        == {o \in Scopes : scopes[o] # NoRow}
Pins(blob)  == {e \in blob : e.mark = "pinned"}
Named(blob) == {e.sel : e \in blob}
Entry(s, m) == [sel |-> s, mark |-> m]

(* A lookup by key alone returns whichever row the database reaches first; *)
(* check_owned_or_404 lets a row of nobody through.                        *)
FirstByKey      == Held
Accessible(o, m) == o \in {SharedScope, m}

LearnInit ==
  /\ scopes = [o \in Scopes |-> NoRow] /\ docs = [o \in Scopes |-> NoWork] /\ checkouts = {}
  /\ building = FALSE /\ build = NoWork
  /\ edit = NoWork /\ merge = NoWork /\ cloning = NoWork
  /\ spent = [w \in WorkKinds |-> 0]

BuildThread == <<building, build>>
Writes(o, r)    == scopes' = [scopes EXCEPT ![o] = r]
Emits(o, blob)  == docs' = [docs EXCEPT ![o] = blob]

(* SQLAlchemy writes the columns that changed since the row was loaded, and *)
(* compares a JSON column by value                                          *)
FlushedRow(o, was, status, built, blob) ==
  Row(IF status = was.status THEN scopes[o].status ELSE status,
      IF built = was.built THEN scopes[o].built ELSE built,
      IF blob = was.blob THEN scopes[o].blob ELSE blob)

(* ------------------------------ the build ------------------------------ *)
StartBuild ==
  IF building THEN UNCHANGED BuildThread
  ELSE building' = TRUE /\ build' = [at |-> "start", row |-> NoWork, was |-> NoWork]

MarkIndexing(o, fresh) ==
  /\ ~fresh => scopes[o].status # "indexing"
  /\ Writes(o, IF fresh THEN Row("indexing", FALSE, {}) ELSE [scopes[o] EXCEPT !.status = "indexing"])
  /\ StartBuild
  /\ Charges("builds")
  /\ UNCHANGED <<checkouts, docs, edit, merge, cloning>>

(* build_repo_knowledge: the row may be the shared one                   *)
BuildRepoKnowledge(m) ==
  \/ Held = {} /\ MarkIndexing(m, TRUE)
  \/ \E o \in FirstByKey : Accessible(o, m) /\ MarkIndexing(o, FALSE)

(* build_shared_repo_knowledge, an administrator's: exactly the shared row *)
BuildSharedKnowledge == MarkIndexing(SharedScope, scopes[SharedScope] = NoRow)

(* resolve_one_repo: a local path needs nothing; a checkout that cannot be *)
(* pulled is removed and cloned again, and a clone that fails is removed     *)
MaterializeRemote(o) == {checkouts, checkouts \cup {o}, checkouts \ {o}}

(* _run_build looks the row up by key alone, resolves a checkout and keeps *)
(* what it loaded                                                          *)
RunBuild ==
  /\ build # NoWork /\ build.at = "start"
  /\ \E o \in FirstByKey :
       /\ build' = [at |-> "scan", row |-> o, was |-> scopes[o]]
       /\ checkouts' \in MaterializeRemote(o)
  /\ UNCHANGED <<scopes, docs, building, edit, merge, cloning, spent>>

(* mutant: a pinned entry is appended only when the build did not find it *)
CarryPinnedForward_AppendOnly(previous, rebuilt) ==
  rebuilt \cup {e \in Pins(previous) : e.sel \notin Named(rebuilt)}

(* carry_pinned_forward and carry_pinned_fields: pinned entries replace what *)
(* they collide with; a first index has nothing to carry                     *)
CarryPinnedForward(previous, rebuilt) ==
  {e \in rebuilt : e.sel \notin Named(Pins(previous))} \cup Pins(previous)

Rebuilt(was, payload) ==
  IF was.built THEN CarryPinnedForward(was.blob, payload) ELSE payload

(* build_knowledge_payload: what a model found, reading the checkout     *)
Payloads == {{Entry(s, "source") : s \in found} : found \in Scans}

(* apply_build emits the artifacts and then the row is committed         *)
ApplyBuild ==
  /\ build # NoWork /\ build.at = "scan"
  /\ \E payload \in Payloads :
       LET blob == Rebuilt(build.was, payload)
       IN  /\ Writes(build.row, FlushedRow(build.row, build.was, "indexed", TRUE, blob))
           /\ Emits(build.row, blob)
  /\ build' = [build EXCEPT !.at = "end"]
  /\ UNCHANGED <<checkouts, building, edit, merge, cloning, spent>>

BuildFails ==
  /\ build # NoWork /\ build.at = "scan"
  /\ Writes(build.row, [scopes[build.row] EXCEPT !.status = "error"])
  /\ build' = [build EXCEPT !.at = "end"]
  /\ UNCHANGED <<checkouts, docs, building, edit, merge, cloning, spent>>

(* the finally clause, after the commit and the audit record             *)
BuildEnds ==
  /\ build # NoWork /\ build.at = "end"
  /\ building' = FALSE /\ build' = NoWork
  /\ UNCHANGED <<checkouts, scopes, docs, edit, merge, cloning, spent>>

(* ---------------------------- a human's edit --------------------------- *)
(* patch_repo_knowledge, up to its 409                                     *)
PatchReads(m) ==
  /\ edit = NoWork /\ ~building
  /\ \E o \in FirstByKey :
       /\ Accessible(o, m) /\ scopes[o].status # "indexing"
       /\ edit' = [row |-> o, was |-> scopes[o]]
  /\ Charges("edits")
  /\ UNCHANGED <<checkouts, scopes, docs, building, build, merge, cloning>>

(* apply_manual_edits: upsert s under the identity it replaces           *)
ManualEdits(blob, s, replaces) ==
  LET named == {e \in blob : e.sel = replaces}
  IN  IF named = {} THEN {blob \cup {Entry(s, "pinned")}}
      ELSE {(blob \ {e}) \cup {Entry(s, "pinned")} : e \in named}

PatchCommits ==
  /\ edit # NoWork
  /\ \E s, old \in Sels : \E blob \in ManualEdits(edit.was.blob, s, old) :
       /\ Emits(edit.row, blob)
       /\ Writes(edit.row, FlushedRow(edit.row, edit.was, edit.was.status, edit.was.built, blob))
  /\ edit' = NoWork
  /\ UNCHANGED <<checkouts, building, build, merge, cloning, spent>>

(* -------------------------- machine merges ----------------------------- *)
(* each opens its own session and finds the row by key and owner           *)
MergeReads(o) ==
  /\ merge = NoWork
  /\ merge' = [row |-> o, was |-> scopes[o]]
  /\ Charges("merges")
  /\ UNCHANGED <<checkouts, scopes, docs, building, build, edit, cloning>>

MergeWrites(blob) ==
  /\ IF blob = merge.was.blob THEN UNCHANGED <<scopes, docs>>
     ELSE /\ Writes(merge.row, [scopes[merge.row] EXCEPT !.blob = blob])
          /\ Emits(merge.row, blob)
  /\ merge' = NoWork
  /\ UNCHANGED <<checkouts, building, build, edit, cloning, spent>>

(* a heal that passed renames the selector it replaced                   *)
ProposedFix(blob, old, new) ==
  {IF e.sel = old /\ e.mark # "pinned" THEN [e EXCEPT !.sel = new] ELSE e : e \in blob}
ProposeSelectorFix ==
  /\ merge # NoWork
  /\ \E old, new \in Sels : old # new /\ MergeWrites(ProposedFix(merge.was.blob, old, new))

(* a heal grounded on the live page only adds                            *)
DiscoveredDom(blob, s) == IF s \in Named(blob) THEN blob ELSE blob \cup {Entry(s, "source")}
MergeDiscoveredDom == merge # NoWork /\ \E s \in Sels : MergeWrites(DiscoveredDom(merge.was.blob, s))

(* an exploration upgrades what nobody verified or pinned                *)
VerifiedDiscovery(blob, s) ==
  LET colliding == {e \in blob : e.sel = s}
  IN  IF colliding = {} THEN {blob \cup {Entry(s, "verified")}}
      ELSE {IF e.mark # "source" THEN blob ELSE (blob \ {e}) \cup {Entry(s, "verified")} : e \in colliding}
MergeVerifiedDiscovery ==
  /\ merge # NoWork
  /\ \E s \in Sels : \E blob \in VerifiedDiscovery(merge.was.blob, s) : MergeWrites(blob)

(* ------------------------------ the hub -------------------------------- *)
(* _hub_supersedes_local; newer is the comparison of the two timestamps    *)
HubSupersedesLocal(status, stamped, newer, r) ==
  /\ status = "indexed" \/ r.status # "indexed"
  /\ IF ~stamped THEN ~r.built /\ r.status \notin {"indexed", "indexing"}
     ELSE r.built => newer

(* _mirror_knowledge, on any read of the row                             *)
MirrorKnowledge(m) ==
  /\ HubOn
  /\ \E status \in {"not_indexed", "indexed", "error"}, stamped, newer \in BOOLEAN, found \in Scans :
       LET blob == {Entry(s, "source") : s \in found}
       IN  /\ IF m \in Held THEN HubSupersedesLocal(status, stamped, newer, scopes[m])
              ELSE status = "indexed" \/ blob # {}
           /\ Writes(m, Row(status, stamped, blob))
           /\ Emits(m, blob)
  /\ Charges("mirrors")
  /\ UNCHANGED <<checkouts, building, build, edit, merge, cloning>>

(* ------------------------------ a clone -------------------------------- *)
(* clone_shared_project: the rows, the 409 and the 422                     *)
CloneGuards(m) ==
  /\ cloning = NoWork
  /\ scopes[SharedScope] # NoRow /\ scopes[SharedScope].status = "indexed"
  /\ scopes[m] = NoRow
  /\ cloning' = [by |-> m, was |-> scopes[SharedScope], copied |-> FALSE]
  /\ UNCHANGED <<checkouts, scopes, docs, building, build, edit, merge, spent>>

(* _copy_scope_subtree, before any row                                   *)
CloneCopies ==
  /\ cloning # NoWork /\ ~cloning.copied
  /\ cloning' = [cloning EXCEPT !.copied = TRUE]
  /\ docs' = [docs EXCEPT ![cloning.by] = IF docs[SharedScope] = NoWork THEN @ ELSE docs[SharedScope]]
  /\ checkouts' = IF SharedScope \in checkouts THEN checkouts \cup {cloning.by} ELSE checkouts
  /\ UNCHANGED <<scopes, building, build, edit, merge, spent>>

(* uq_project_knowledge_key_owner refuses the rows of a second writer      *)
CloneInserts ==
  /\ cloning # NoWork /\ cloning.copied
  /\ IF scopes[cloning.by] = NoRow THEN Writes(cloning.by, cloning.was) ELSE UNCHANGED scopes
  /\ cloning' = NoWork
  /\ UNCHANGED <<checkouts, docs, building, build, edit, merge, spent>>

(* The server stops and starts: threads and requests end where they are, and *)
(* nothing at start-up looks at a row that says indexing.                    *)
BuildRestart ==
  /\ building' = FALSE /\ build' = NoWork
  /\ edit' = NoWork /\ merge' = NoWork /\ cloning' = NoWork
  /\ Charges("restarts")
  /\ UNCHANGED <<checkouts, scopes, docs>>

LearnNext ==
  \/ \E m \in ScopeOwners :
       BuildRepoKnowledge(m) \/ PatchReads(m) \/ MirrorKnowledge(m) \/ CloneGuards(m)
  \/ BuildSharedKnowledge \/ RunBuild \/ ApplyBuild \/ BuildFails \/ BuildEnds
  \/ PatchCommits
  \/ \E o \in Held : MergeReads(o)
  \/ ProposeSelectorFix \/ MergeDiscoveredDom \/ MergeVerifiedDiscovery
  \/ CloneCopies \/ CloneInserts \/ BuildRestart

LearnSpec == LearnInit /\ [][LearnNext]_learnVars

(* ------------------------------ properties ----------------------------- *)
(* Every variable keeps its shape.                                         *)
LearnTypeOK ==
  /\ scopes \in [Scopes -> ScopeRows \cup {NoRow}]
  /\ docs \in [Scopes -> (SUBSET Entries) \cup {NoWork}]
  /\ checkouts \subseteq Scopes /\ building \in BOOLEAN
  /\ build = NoWork \/ build.at \in {"start", "scan", "end"}
  /\ edit = NoWork \/ edit.was \in ScopeRows
  /\ merge = NoWork \/ merge.was \in ScopeRows
  /\ cloning = NoWork \/ cloning.was \in ScopeRows

Built  == build # NoWork /\ build.at = "scan" /\ build' # build /\ scopes' # scopes
Merged == merge # NoWork /\ merge' = NoWork /\ scopes' # scopes
Kept(o, was) == Pins(scopes[o].blob) \cap Pins(was.blob) \subseteq scopes'[o].blob

(* What a machine writer read pinned, it writes back as it was: a rebuild    *)
(* minutes later, a heal's renaming and an exploration's merge never take    *)
(* away a correction made before they read the row, whatever was merged into *)
(* it, mirrored over it or built meanwhile, by whichever owner's thread.     *)
MachineKeepsPins ==
  [][ /\ Built /\ build.was.built => Kept(build.row, build.was)
      /\ Merged => Kept(merge.row, merge.was) ]_learnVars
=============================================================================
