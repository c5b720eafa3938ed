-------------------------- MODULE BusinessKnowledge -------------------------
(***************************************************************************)
(* The business knowledge of one project: the documents that ground it     *)
(* (business_source), their snapshots on disk, the probe that says whether *)
(* one has gone stale, the facts distilled from them and the facts and     *)
(* corrections of humans (business_fact), the brief, what of all that      *)
(* reaches a prompt, and the clone of the shared namespace.  The code is   *)
(* the package business_ingest, business_source_service,                   *)
(* business_fact_service, the routers business_*, clone_service and        *)
(* project_config_service.business_context.                                *)
(*                                                                         *)
(* Each owner has one document.  Its content is its version, 0 when there  *)
(* is none.  No router calls start_distil yet: the package offers it.      *)
(* Names MCSafety would meet twice say Business.                           *)
(***************************************************************************)
EXTENDS Naturals, FiniteSets

CONSTANTS
  Shared, Members,    \* the shared namespace; users with rows of their own
  Terms,              \* what facts are about: a category and a term
  Nothing,
  MaxVersion,         \* versions the upstream document goes through
  MaxFacts, MaxSyncs, MaxProbes, MaxDistils, MaxClones, MaxHumanEdits, MaxBusinessRestarts,
  MaxInAll            \* bound: of all of these together

FactIds  == 1..MaxFacts
Versions == 1..MaxVersion
Owners   == {Shared} \cup Members

\* What the rows of the two tables hold.
SourceRows ==
  [kind : {"url", "wiki", "upload"}, status : {"pending", "syncing", "synced", "error"},
   version : 0..MaxVersion, rev : 0..MaxVersion, stale : BOOLEAN,
   probed : {"never", "answered", "failed"}, excluded : BOOLEAN]
FactTable ==
  [owner : Owners, term : Terms, origin : {"manual", "ingested"}, pinned : BOOLEAN,
   said : {"human", "edited", "distilled"}, excluded : BOOLEAN, superseded_by : 0..MaxFacts]

\* A model names finitely many terms, the shared namespace is nobody's, and
\* Nothing is no row.
ASSUME BusinessAssumption ==
  /\ Shared \notin Members /\ IsFiniteSet(Terms)
  /\ MaxFacts \in Nat /\ MaxVersion \in Nat \ {0}
  /\ Nothing \notin SourceRows /\ Nothing \notin FactTable

VARIABLES
  upstream,     \* the version of the linked document now
  source,       \* the source row of each owner, or Nothing
  disk,         \* the snapshot directory of each owner's source
  recorded,     \* ghost: the versions each row has recorded
  sync,         \* the ingestion of each owner's source: _syncing, and its thread
  probe,        \* a probe between its read and its commit
  facts,        \* the rows of business_fact, by id
  brief,        \* business_brief of each owner's config: status, has a text
  distil,       \* the distillation in flight
  clone,        \* a clone between its reads and its commit
  asked

documents == <<upstream, source, disk, recorded, sync, probe>>
knowledge == <<facts, brief, distil, clone>>
businessVars == <<documents, knowledge, asked>>

BusinessLimit ==
  [syncs |-> MaxSyncs, probes |-> MaxProbes, distils |-> MaxDistils,
   clones |-> MaxClones, edits |-> MaxHumanEdits, restarts |-> MaxBusinessRestarts]
Total   == asked.syncs + asked.probes + asked.distils + asked.clones + asked.edits + asked.restarts
Asks(w) == Total < MaxInAll /\ asked[w] < BusinessLimit[w] /\ asked' = [asked EXCEPT ![w] = @ + 1]

Source(kind, status) == [kind |-> kind, status |-> status, version |-> 0, rev |-> 0,
                         stale |-> FALSE, probed |-> "never", excluded |-> FALSE]
Empty  == [normalized |-> 0, archive |-> {}]
Fact(o, t, origin, pinned, said) ==
  [owner |-> o, term |-> t, origin |-> origin, pinned |-> pinned, said |-> said,
   excluded |-> FALSE, superseded_by |-> 0]

FactRows == {i \in FactIds : facts[i] # Nothing}
Of(o)    == {i \in FactRows : facts[i].owner = o}
Next1(n) == Cardinality(FactRows) + n                     \* ids in order

BusinessInit ==
  /\ upstream = 1
  /\ source = [o \in Owners |-> Nothing] /\ disk = [o \in Owners |-> Empty]
  /\ recorded = [o \in Owners |-> {}] /\ sync = [o \in Owners |-> Nothing] /\ probe = Nothing
  /\ facts = [i \in FactIds |-> Nothing] /\ brief = [o \in Owners |-> [status |-> "pending", text |-> FALSE]]
  /\ distil = Nothing /\ clone = Nothing
  /\ asked = [w \in DOMAIN BusinessLimit |-> 0]

Sets(o, row) == source' = [source EXCEPT ![o] = row]
UpstreamChanges ==
  /\ upstream < MaxVersion /\ upstream' = upstream + 1
  /\ UNCHANGED <<source, disk, recorded, sync, probe, knowledge, asked>>

(* ---------------------------- the registry ----------------------------- *)
(* SQLite gives a new row the id of the last one deleted: its directory and *)
(* its place in _syncing are then the old one's; a new id is left out while *)
(* a clone is copying the old one's directory                               *)
Registers(o, row) ==
  /\ source[o] = Nothing /\ Sets(o, row)
  /\ \/ UNCHANGED <<disk, sync>>
     \/ clone = Nothing /\ disk' = [disk EXCEPT ![o] = Empty] /\ sync' = [sync EXCEPT ![o] = Nothing]

CreateSource(o) ==
  /\ \E kind \in {"url", "wiki"} : Registers(o, Source(kind, "pending"))
  /\ Asks("edits")
  /\ UNCHANGED <<upstream, recorded, probe, knowledge>>

ExcludeSource(o) ==
  /\ source[o] # Nothing
  /\ Sets(o, [source[o] EXCEPT !.excluded = ~@])
  /\ Asks("edits")
  /\ UNCHANGED <<upstream, disk, recorded, sync, probe, knowledge>>

(* delete_source unlinks files, and both stored paths are directories: the *)
(* snapshot stays                                                          *)
DeleteSource(o) ==
  /\ source[o] # Nothing /\ Sets(o, Nothing)
  /\ recorded' = [recorded EXCEPT ![o] = {}]
  /\ Asks("edits")
  /\ UNCHANGED <<upstream, disk, sync, probe, knowledge>>

(* ---------------------------- an ingestion ----------------------------- *)
Ingests(o, at, version, row) == sync' = [sync EXCEPT ![o] = [at |-> at, version |-> version, was |-> row]]

(* resolve_credential: a wiki needs a token, its own or a connection's   *)
ResolveCredential(kind) == IF kind = "wiki" THEN BOOLEAN ELSE {TRUE}

(* sync_business_source, up to its thread                                *)
StartSync(o) ==
  /\ source[o] # Nothing /\ source[o].kind # "upload" /\ sync[o] = Nothing
  /\ LET row == [source[o] EXCEPT !.status = "syncing"]
     IN  Sets(o, row) /\ Ingests(o, "fetch", 0, row)
  /\ Asks("syncs")
  /\ UNCHANGED <<upstream, disk, recorded, probe, knowledge>>

(* ingest_upload: the bytes are there; one upload runs at a time, as the *)
(* handler never yields                                                  *)
IngestUpload(o) ==
  /\ sync[o] = Nothing
  /\ LET row == IF source[o] = Nothing THEN Source("upload", "syncing") ELSE [source[o] EXCEPT !.status = "syncing"]
     IN  /\ row.kind = "upload" /\ Sets(o, row)
         /\ \E v \in 1..upstream : Ingests(o, "archive", v, row)
  /\ IF source[o] = Nothing
     THEN disk' = disk \/ (clone = Nothing /\ disk' = [disk EXCEPT ![o] = Empty]) ELSE UNCHANGED disk
  /\ Asks("syncs")
  /\ UNCHANGED <<upstream, recorded, probe, knowledge>>

(* The thread's session writes the columns it changed.                   *)
Flushed(now, was, will) == [c \in DOMAIN now |-> IF will[c] = was[c] THEN now[c] ELSE will[c]]
Commits(o, will) ==
  source' = [source EXCEPT ![o] = IF @ = Nothing THEN Nothing ELSE Flushed(@, sync[o].was, will)]

(* the adapter's fetch, and a document that normalizes to nothing        *)
Fetch(o) ==
  /\ sync[o] # Nothing /\ sync[o].at = "fetch"
  /\ \E allowed \in ResolveCredential(sync[o].was.kind) :
       \/ allowed /\ Ingests(o, "archive", upstream, sync[o].was) /\ UNCHANGED source
       \/ Commits(o, [sync[o].was EXCEPT !.status = "error"]) /\ sync' = [sync EXCEPT ![o] = Nothing]
  /\ UNCHANGED <<upstream, disk, recorded, probe, knowledge, asked>>

(* mutant: only the version being replaced is kept                       *)
ArchivePreviousNormalized_Last(d) == [d EXCEPT !.archive = {d.normalized} \ {0}]

(* archive_previous_normalized: a file per content hash                  *)
ArchivePreviousNormalized(d) == [d EXCEPT !.archive = @ \cup ({d.normalized} \ {0})]

(* persist_snapshot: archive, remove, write                              *)
PersistSnapshot(o) ==
  /\ sync[o] # Nothing /\ sync[o].at \in {"archive", "clear", "write"}
  /\ disk' = [disk EXCEPT ![o] =
       CASE sync[o].at = "archive" -> ArchivePreviousNormalized(@)
         [] sync[o].at = "clear"   -> [@ EXCEPT !.normalized = 0]
         [] sync[o].at = "write"   -> [@ EXCEPT !.normalized = sync[o].version]]
  /\ sync' = [sync EXCEPT ![o].at = CASE @ = "archive" -> "clear" [] @ = "clear" -> "write" [] @ = "write" -> "commit"]
  /\ UNCHANGED <<upstream, source, recorded, probe, knowledge, asked>>

(* record_revision asks upstream again, after the fetch; then the commit *)
IngestDocuments(o) ==
  /\ sync[o] # Nothing /\ sync[o].at = "commit"
  /\ \E answered \in IF sync[o].was.kind = "upload" THEN {FALSE} ELSE BOOLEAN :
       Commits(o, [sync[o].was EXCEPT !.status = "synced", !.version = sync[o].version, !.stale = FALSE,
                                      !.rev = IF answered THEN upstream ELSE 0,
                                      !.probed = IF answered THEN "answered" ELSE "failed"])
  /\ recorded' = [recorded EXCEPT ![o] = IF source[o] = Nothing THEN @ ELSE @ \cup {sync[o].version}]
  /\ sync' = [sync EXCEPT ![o] = Nothing]
  /\ UNCHANGED <<upstream, disk, probe, knowledge, asked>>

(* ------------------------------- a probe ------------------------------- *)
ProbeReads(o) ==
  /\ probe = Nothing /\ source[o] # Nothing
  /\ probe' = [owner |-> o, was |-> source[o]]
  /\ Asks("probes")
  /\ UNCHANGED <<upstream, source, disk, recorded, sync, knowledge>>

(* refresh_staleness: the revision it compares with is the one it read   *)
RefreshStaleness ==
  /\ probe # Nothing /\ probe' = Nothing
  /\ LET o == probe.owner
         was == probe.was
     IN  \E answered \in IF was.kind = "upload" THEN {FALSE} ELSE BOOLEAN :
           LET will == IF answered
                       THEN [was EXCEPT !.probed = "answered", !.stale = was.rev # 0 /\ upstream # was.rev]
                       ELSE [was EXCEPT !.probed = "failed"]
           IN  source' = [source EXCEPT ![o] = IF @ = Nothing THEN Nothing ELSE Flushed(@, was, will)]
  /\ UNCHANGED <<upstream, disk, recorded, sync, knowledge, asked>>

(* ------------------------- facts, by a human --------------------------- *)
AddFact(o, t) ==
  /\ Cardinality(FactRows) < MaxFacts
  /\ facts' = [facts EXCEPT ![Next1(1)] = Fact(o, t, "manual", FALSE, "human")]
  /\ Asks("edits")
  /\ UNCHANGED <<documents, brief, distil, clone>>

(* correct_fact: a row already superseded is a 409                       *)
CorrectFact(i) ==
  /\ i \in FactRows /\ facts[i].superseded_by = 0 /\ Cardinality(FactRows) < MaxFacts
  /\ facts' = [facts EXCEPT ![Next1(1)] = Fact(facts[i].owner, facts[i].term, "manual", TRUE, "human"),
                            ![i].superseded_by = Next1(1)]
  /\ Asks("edits")
  /\ UNCHANGED <<documents, brief, distil, clone>>

UpdateFact(i) ==
  /\ i \in FactRows
  /\ \/ facts[i].origin = "manual" /\ facts' = [facts EXCEPT ![i].said = "edited"]
     \/ facts' = [facts EXCEPT ![i].excluded = ~@]
  /\ Asks("edits")
  /\ UNCHANGED <<documents, brief, distil, clone>>

(* ---------------------------- distillation ----------------------------- *)
(* collect_corpus: a source being synced again, or whose last sync failed, *)
(* contributes nothing                                                     *)
CollectCorpus(o) ==
  IF source[o] # Nothing /\ source[o].status = "synced" /\ ~source[o].excluded THEN disk[o].normalized ELSE 0

StartDistil(o) ==
  /\ distil = Nothing
  /\ distil' = [owner |-> o, corpus |-> CollectCorpus(o), existing |-> {}, found |-> {}, at |-> "claude"]
  /\ brief' = [brief EXCEPT ![o].status = "building"]
  /\ Asks("distils")
  /\ UNCHANGED <<documents, facts, clone>>

(* an empty corpus is ready with an empty brief; a model that fails keeps *)
(* the text there was; else merge_facts reads the rows there are          *)
BuildDistillation ==
  /\ distil # Nothing /\ distil.at = "claude"
  /\ \/ /\ distil.corpus = 0
        /\ brief' = [brief EXCEPT ![distil.owner] = [status |-> "ready", text |-> FALSE]] /\ distil' = Nothing
     \/ /\ distil.corpus # 0
        /\ brief' = [brief EXCEPT ![distil.owner].status = "error"] /\ distil' = Nothing
     \/ /\ distil.corpus # 0
        /\ \E found \in SUBSET Terms :
             distil' = [distil EXCEPT !.at = "merge", !.found = found, !.existing = Of(distil.owner)]
        /\ UNCHANGED brief
  /\ UNCHANGED <<documents, facts, clone, asked>>

(* mutant: only a pinned row is a human's                                *)
Overwrites_Unpinned(f) == ~f.pinned

(* no-clobber: a correction or an addition stands                        *)
Overwrites(f) == ~f.pinned /\ f.origin # "manual"

(* the row a distilled fact collides with: an ingested one first, then an *)
(* unpinned one, then the oldest                                          *)
Beats(i, j) ==
  LET rank(k) == (IF facts[k].origin = "manual" THEN 2 ELSE 0) + (IF facts[k].pinned THEN 1 ELSE 0)
  IN  rank(i) < rank(j) \/ (rank(i) = rank(j) /\ i <= j)
Collides(t) == {i \in distil.existing : facts[i].term = t /\ \A j \in distil.existing : facts[j].term = t => Beats(i, j)}

(* merge_facts and the brief                                             *)
MergeFacts ==
  /\ distil # Nothing /\ distil.at = "merge"
  /\ LET refreshed == {i \in UNION {Collides(t) : t \in distil.found} : Overwrites(facts[i])}
         new       == {t \in distil.found : Collides(t) = {}}
     IN  /\ Cardinality(FactRows) + Cardinality(new) <= MaxFacts
         /\ \E order \in {f \in [new -> 1..Cardinality(new)] : \A s, t \in new : f[s] = f[t] => s = t} :
              facts' = [i \in FactIds |->
                IF i \in refreshed THEN [facts[i] EXCEPT !.said = "distilled"]
                ELSE IF \E t \in new : Next1(order[t]) = i
                THEN Fact(distil.owner, CHOOSE t \in new : Next1(order[t]) = i, "ingested", FALSE, "distilled")
                ELSE facts[i]]
  /\ brief' = [brief EXCEPT ![distil.owner] = [status |-> "ready", text |-> TRUE]]
  /\ distil' = Nothing
  /\ UNCHANGED <<documents, clone, asked>>

(* ------------------------------- a clone ------------------------------- *)
CloneReads(m) ==
  /\ clone = Nothing /\ Asks("clones")
  /\ clone' = [by |-> m, source |-> source[Shared], 
               rows |-> [i \in Of(Shared) |-> facts[i]], brief |-> brief[Shared]]
  /\ UNCHANGED <<documents, facts, brief, distil>>

(* a source the member already has is skipped; superseded_by is remapped;    *)
(* the snapshot is copied over what the new id's directory holds.  Left out: *)
(* the id of a deleted row whose thread still runs, given to the clone       *)
Overlays(new, old) == [normalized |-> IF new.normalized # 0 THEN new.normalized ELSE old.normalized,
                       archive    |-> new.archive \cup old.archive]
CloneId(i)       == Cardinality(FactRows) + Cardinality({j \in DOMAIN clone.rows : j <= i})
CopiedFact(f)    == [f EXCEPT !.owner = clone.by,
                              !.superseded_by = IF @ \in DOMAIN clone.rows THEN CloneId(@) ELSE 0]
CopiedSource(row) == [row EXCEPT !.rev = 0, !.stale = FALSE, !.probed = "never"]
CloneSkips == clone.source = Nothing \/ source[clone.by] # Nothing

CloneCommits ==
  /\ clone # Nothing /\ clone' = Nothing
  /\ Cardinality(FactRows) + Cardinality(DOMAIN clone.rows) <= MaxFacts
  /\ LET m == clone.by
     IN  /\ source'   = [source EXCEPT ![m] = IF CloneSkips THEN @ ELSE CopiedSource(clone.source)]
         /\ \E old \in {Empty} \cup (IF sync[m] = Nothing THEN {disk[m]} ELSE {}) :
              disk' = [disk EXCEPT ![m] = IF CloneSkips THEN @ ELSE Overlays(disk[Shared], old)]
         /\ sync'     = [sync EXCEPT ![m] = IF CloneSkips THEN @ ELSE Nothing]
         /\ recorded' = [recorded EXCEPT ![m] = IF CloneSkips THEN @ ELSE {clone.source.version} \ {0}]
         /\ facts'    = [k \in FactIds |->
              IF \E i \in DOMAIN clone.rows : CloneId(i) = k
              THEN CopiedFact(clone.rows[CHOOSE i \in DOMAIN clone.rows : CloneId(i) = k]) ELSE facts[k]]
         /\ brief'    = [brief EXCEPT ![m] = clone.brief]
  /\ UNCHANGED <<upstream, probe, distil, asked>>

(* The server stops and starts: threads and requests end where they are; a *)
(* row left syncing or a brief left building stays so.                     *)
BusinessRestart ==
  /\ sync' = [o \in Owners |-> Nothing] /\ probe' = Nothing /\ distil' = Nothing /\ clone' = Nothing
  /\ Asks("restarts")
  /\ UNCHANGED <<upstream, source, disk, recorded, facts, brief>>

BusinessNext ==
  \/ UpstreamChanges
  \/ \E o \in Owners :
       \/ CreateSource(o) \/ ExcludeSource(o) \/ DeleteSource(o)
       \/ StartSync(o) \/ IngestUpload(o) \/ Fetch(o) \/ PersistSnapshot(o) \/ IngestDocuments(o)
       \/ ProbeReads(o) \/ StartDistil(o)
       \/ \E t \in Terms : AddFact(o, t)
  \/ RefreshStaleness
  \/ \E i \in FactIds : CorrectFact(i) \/ UpdateFact(i)
  \/ BuildDistillation \/ MergeFacts
  \/ \E m \in Members : CloneReads(m)
  \/ CloneCommits \/ BusinessRestart

BusinessSpec == BusinessInit /\ [][BusinessNext]_businessVars

(* ------------------------------ properties ----------------------------- *)
Briefs == [status : {"pending", "building", "ready", "error"}, text : BOOLEAN]
Ingestions ==
       [at : {"fetch"}, version : {0}, was : SourceRows]
  \cup [at : {"archive", "clear", "write", "commit"}, version : Versions, was : SourceRows]

(* Every variable keeps its shape, and the ids of facts are given in order.  *)
BusinessTypeOK ==
  /\ upstream \in Versions
  /\ source \in [Owners -> SourceRows \cup {Nothing}]
  /\ disk \in [Owners -> [normalized : 0..MaxVersion, archive : SUBSET Versions]]
  /\ recorded \in [Owners -> SUBSET Versions]
  /\ sync \in [Owners -> Ingestions \cup {Nothing}]
  /\ probe \in [owner : Owners, was : SourceRows] \cup {Nothing}
  /\ facts \in [FactIds -> FactTable \cup {Nothing}] /\ FactRows = 1..Cardinality(FactRows)
  /\ brief \in [Owners -> Briefs]
  /\ distil \in [owner : Owners, corpus : 0..MaxVersion, existing : SUBSET FactRows,
                 found : SUBSET Terms, at : {"claude", "merge"}] \cup {Nothing}
  /\ clone \in [by : Members, source : SourceRows \cup {Nothing}, brief : Briefs,
                rows : UNION {[read -> FactTable] : read \in SUBSET FactRows}] \cup {Nothing}
  /\ asked \in [DOMAIN BusinessLimit -> Nat]

(* Whatever version a source has ever recorded, so that a test case may be   *)
(* attributed to it, stays readable on disk, as the snapshot or in the       *)
(* archive: across syncs, crashes in the middle of one, uploads that replace *)
(* a file, deleted rows whose id is asked again, and in a member's clone.     *)
SnapshotKept ==
  \A o \in Owners : recorded[o] \subseteq disk[o].archive \cup {disk[o].normalized}

(* Nothing but a human's own request changes what a human decided: the words *)
(* of a manual fact, an exclusion, and which row a correction supersedes.  A *)
(* distillation merges minutes after it read the corpus, and a clone, a sync *)
(* or a deleted source runs beside it.                                       *)
HumanDecisionsStand ==
  [][asked'.edits = asked.edits =>
       \A i \in FactRows :
         /\ facts'[i].excluded = facts[i].excluded
         /\ facts'[i].superseded_by = facts[i].superseded_by
         /\ facts[i].origin = "manual" => facts'[i].said = facts[i].said]_businessVars

(* ------------------------- what a prompt is given ---------------------- *)
(* business_context: the owner's rows, or the shared ones when the owner has *)
(* neither brief nor facts; and none that a row it loaded points at          *)
InContext(o) ==
  LET loaded(p) == {i \in Of(p) : ~facts[i].excluded}
      scope     == IF o # Shared /\ loaded(o) = {} /\ ~brief[o].text THEN Shared ELSE o
  IN  loaded(scope) \ {facts[i].superseded_by : i \in loaded(scope)}

(* business_context: "override is an overlay, never a mutation), so the     *)
(* overridden row must not also reach the prompt."  correct_fact points the *)
(* overridden row at its correction, so it is the correction that is left   *)
(* out and the overridden row that is kept.                                 *)
OverriddenStaysOut == \A o \in Owners : \A i \in InContext(o) : facts[i].superseded_by = 0
=============================================================================
