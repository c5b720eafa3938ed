------------------------------ MODULE LiveView ------------------------------
(***************************************************************************)
(* What the single-page application shows of the server: the query cache   *)
(* its screens read (hooks/queries.ts), the keys it is addressed by        *)
(* (lib/queryKeys.ts), the requests it stands on (lib/api.ts) and the      *)
(* WebSocket that tells it something has changed (app/ws.py and            *)
(* hooks/useRunSocket.ts).  Three things bring a change on the server to   *)
(* the screen: the hook of the gesture that made it drops what it knows to *)
(* be stale, an event of the socket drops everything of the run, and a     *)
(* query that says a job is under way asks again until it is not.          *)
(* A query stands for its answers by a count of the changes they include   *)
(* and by the status a polling rule looks at.  The screen has been loaded  *)
(* when the model begins and stays open; an answer that never comes is     *)
(* outside it.  Names that MCLiveness would meet twice begin with View.    *)
(***************************************************************************)
EXTENDS Integers, Sequences, SequencesExt, FiniteSets

CONSTANTS
  Screen,    \* the queries of the screen that is open
  First,     \* query -> the status it shows when the screen opens
  Gestures,  \* what the user does, each at most once
  Elsewhere, \* those of them made in another browser
  MaxDrops   \* bound: connections lost

VARIABLES
  srv,   \* query -> what the server would answer now
  shown, \* query -> what the cache holds
  fetch, \* query -> the request in flight
  call,  \* gesture -> how far its request has come
  sock,  \* channel -> is its WebSocket open
  mail,  \* channel -> events broadcast to the socket and not handled yet
  last,  \* channel -> has hub._last an event to replay
  drops  \* bound: connections lost so far
view == <<srv, shown, fetch, call, sock, mail, last, drops>>

-----------------------------------------------------------------------------
(* The queries: their keys, and while which status they ask again.       *)

Always == {"held", "none", "queued", "running", "ending", "done", "ended"}
Never == {}
Query(key, polls) == [key |-> key, polls |-> polls]
Run == <<"runs", "R">>
Project == <<"projects", "P">>

AccountQueries ==
  "readiness" :> Query(<<"readiness">>, Always) @@ "aiStats" :> Query(<<"aiStats">>, Always)
  @@ "claudeCredentialsStatus" :> Query(<<"claudeCredentials", "status">>, Never)
  @@ "providers" :> Query(<<"providers">>, Never) @@ "settings" :> Query(<<"settings">>, Never)
ProjectQueries ==
  "projects" :> Query(<<"projects">>, Never) @@ "knowledgeList" :> Query(<<"projects", "knowledge">>, Never)
  @@ "sharedProjects" :> Query(<<"shared", "projects">>, {"running"})
  @@ "sharedProjectAuth" :> Query(<<"shared", "projects", "P", "auth">>, {"running"})
  @@ "projectConfig" :> Query(Project \o <<"config">>, Never)
  @@ "projectAuth" :> Query(Project \o <<"auth">>, {"running"})
  @@ "projectRepos" :> Query(Project \o <<"repos">>, {"running"})
  @@ "repoKnowledge" :> Query(Project \o <<"repos", "N", "knowledge">>, Never)
  @@ "projectKnowledge" :> Query(Project \o <<"knowledge">>, Never)
TicketQueries ==
  "tickets" :> Query(<<"tickets", "F">>, Never) @@ "ticket" :> Query(<<"tickets", "detail", "T">>, Never)
RunQueries ==
  "runs" :> Query(<<"runs", "list", "all">>, Never) @@ "run" :> Query(Run, {"running", "ending"})
  @@ "runRepos" :> Query(Run \o <<"repos">>, Never) @@ "runAiUsage" :> Query(Run \o <<"ai-usage">>, Always)
  @@ "runCases" :> Query(Run \o <<"cases">>, Never)
AutomationQueries ==
  "linkStatus" :> Query(Run \o <<"linked">>, {"running", "ending"})
  @@ "specs" :> Query(Run \o <<"automation">>, Never)
  @@ "automationStatus" :> Query(Run \o <<"automation", "status">>, {"running", "ending"})
  @@ "automationExport" :> Query(Run \o <<"automation", "export", "A">>, Never)
  @@ "authoringState" :> Query(<<"cases", "C", "authoring">>, Always)
JobQueries ==
  "healStatus" :> Query(<<"cases", "C", "heal", "status">>, {"running", "ending"})
  @@ "healReport" :> Query(<<"cases", "C", "heal", "report">>, Never)
  @@ "exploreStatus" :> Query(Project \o <<"repos", "N", "explore", "status">>, {"running", "ending"})
BusinessQueries ==
  "businessSources" :> Query(Project \o <<"business", "sources">>, {"running"})
  @@ "businessFacts" :> Query(Project \o <<"business", "facts">>, Never)
RepoQueries ==
  "automationRepos" :> Query(Project \o <<"automation", "repos">>, Never)
  @@ "automationTree" :> Query(Project \o <<"automation", "repos", "A", "files">>, Never)
  @@ "projectExecution" :> Query(<<"executions", "E">>, {"queued", "running"})
  @@ "executionReport" :> Query(<<"executions", "E", "report">>, Never)
\* A queued execution is not asked about again: only one that runs is.
ExecutionQueries ==
  "execution" :> Query(Run \o <<"execution">>, {"running"})
DeviceQueries == "agentDevices" :> Query(<<"agentDevices">>, Always)
ReportQueries ==
  "evidence" :> Query(Run \o <<"evidence">>, Never) @@
  "report" :> Query(Run \o <<"report">>, Never) @@ "reports" :> Query(<<"reports", "all">>, Never)
  @@ "auditEvents" :> Query(<<"audit", "events", "F">>, Never) @@ "auditStats" :> Query(<<"audit", "stats">>, Never)
  @@ "comments" :> Query(Run \o <<"comments">>, Never)

Queries == AccountQueries @@ ProjectQueries @@ TicketQueries @@ RunQueries @@ AutomationQueries @@ JobQueries
           @@ BusinessQueries @@ RepoQueries @@ ExecutionQueries @@ DeviceQueries @@ ReportQueries
Key(q) == Queries[q].key
Polls(q, v) == v.s \in Queries[q].polls

-----------------------------------------------------------------------------
(* The requests: what each changes on the server, stage by stage; a stage *)
(* is told to the subscribers of a channel or to nobody.                  *)

Stage(sets, tells) == [sets |-> sets, tells |-> tells]
Plain(sets) == <<Stage(sets, {})>>
Told(sets) == <<Stage(sets, {"run"})>>
Held(qs) == [q \in qs |-> "held"]

AccountRequests ==
  [m \in {"testCredentials", "uploadOwn", "setMode", "deleteOwn"} |-> Plain(Held({"claudeCredentialsStatus"}))]
  @@ [m \in {"createConnection", "updateConnection", "deleteConnection", "testConnection"} |->
        Plain(Held({"providers", "readiness"}))]
  @@ "updateSettings" :> Plain(Held({"settings", "readiness"})) @@ "refreshAiStats" :> Plain(Held({"aiStats"}))
ProjectRequests ==
  "refreshProjects" :> Plain(Held({"projects"})) @@ "cloneSharedProject" :> Plain(Held({"projects", "knowledgeList"}))
  @@ "buildSharedKnowledge" :> Plain("sharedProjects" :> "running")
  @@ "captureSharedProjectAuth" :> Plain("sharedProjectAuth" :> "running")
  @@ "clearSharedProjectAuth" :> Plain("sharedProjectAuth" :> "none")
  @@ "buildKnowledge" :> Plain(Held({"projectKnowledge", "knowledgeList"}))
  @@ "saveProjectConfig" :> Plain(Held({"projectConfig", "projectRepos"}))
  @@ "captureProjectAuth" :> Plain("projectAuth" :> "running") @@ "clearProjectAuth" :> Plain("projectAuth" :> "none")
  @@ "buildRepoKnowledge" :> Plain("repoKnowledge" :> "running" @@ "projectRepos" :> "running")
  @@ "patchRepoKnowledge" :> Plain(Held({"repoKnowledge"}))
\* A cancel is told of as soon as the run's status is written; what it stops
\* is written after that, and of that nobody is told.
RunRequests ==
  [m \in {"syncTickets", "deleteTicket", "deleteTickets"} |-> Plain(Held({"tickets", "ticket"}))]
  @@ "createRun" :> Told("run" :> "running" @@ "runs" :> "held")
  @@ [m \in {"regenerateRun", "retryRun"} |-> Told("run" :> "running" @@ "runs" :> "held")]
  @@ [m \in {"cancelRun", "stopRun"} |->
        <<Stage("run" :> "ended" @@ "runs" :> "held", {"run"}),
          Stage("execution" :> "ended" @@ "automationStatus" :> "none" @@ "specs" :> "held", {})>>]
  @@ "setRunTicketRepo" :> Plain(Held({"run", "runRepos"}))
  @@ [m \in {"addCase", "updateCase", "regenerateCase", "setApproval", "approveAll", "approveTicket"} |->
        Plain(Held({"runCases"}))]
AutomationRequests ==
  "createAndLink" :> Plain("linkStatus" :> "running")
  @@ "generateAutomation" :> Plain("automationStatus" :> "running")
  @@ [m \in {"pauseAuthoring", "continueAuthoring"} |-> Plain(Held({"authoringState"}))]
  @@ "cancelAuthoring" :> Told(Held({"authoringState", "specs"}))
  @@ "updateSpec" :> Plain(Held({"specs"})) @@ "healSpec" :> Plain("healStatus" :> "running")
  @@ "exploreSpec" :> Plain("exploreStatus" :> "running")
  @@ "exportAutomationProject" :> Told(Held({"automationExport"}))
ProjectScopeRequests ==
  [m \in {"createBusinessSource", "updateBusinessSource", "deleteBusinessSource", "probeBusinessSource",
          "uploadBusinessDocument", "setBusinessAdoCredential"} |-> Plain(Held({"businessSources"}))]
  @@ "syncBusinessSource" :> Plain("businessSources" :> "running")
  @@ [m \in {"createBusinessFact", "correctBusinessFact", "updateBusinessFact"} |-> Plain(Held({"businessFacts"}))]
  @@ "startProjectExecution" :> Plain("projectExecution" :> "queued")
ExecutionRequests ==
  "startExecution" :> Told("execution" :> "queued" @@ "run" :> "running")
  @@ "runSpec" :> Plain("execution" :> "queued") @@ "revokeDevice" :> Plain(Held({"agentDevices"}))
  @@ [m \in {"annotate", "autoAnnotate"} |-> Plain(Held({"evidence"}))] @@ "buildReport" :> Plain(Held({"report", "reports"}))
  @@ [m \in {"prepareComments", "editComment", "regenerateComment", "publishComment", "publishAll"} |->
        Plain(Held({"comments"}))]
  @@ "clearAuditEvents" :> Plain(Held({"auditEvents", "auditStats"}))

GestureRequests == AccountRequests @@ ProjectRequests @@ RunRequests @@ AutomationRequests
                   @@ ProjectScopeRequests @@ ExecutionRequests

-----------------------------------------------------------------------------
(* The hooks: what an answered gesture writes into the cache and which   *)
(* keys it drops, with everything below them.                            *)

Hook(seeds, drops_) == [seeds |-> seeds, drops |-> drops_]
Drop(keys) == Hook({}, keys)

AccountHooks ==
  [m \in {"testCredentials", "uploadOwn", "setMode", "deleteOwn"} |-> Drop({Key("claudeCredentialsStatus")})]
  @@ [m \in {"createConnection", "updateConnection", "deleteConnection", "testConnection"} |-> Drop({Key("providers")})]
  @@ "updateSettings" :> Hook({"settings"}, {}) @@ "refreshAiStats" :> Hook({"aiStats"}, {})
ProjectHooks ==
  "refreshProjects" :> Hook({"projects"}, {})
  @@ "cloneSharedProject" :> Drop({Key("projects"), Key("knowledgeList"), Key("sharedProjects")})
  @@ "buildSharedKnowledge" :> Drop({Key("sharedProjects")})
  @@ [m \in {"captureSharedProjectAuth", "clearSharedProjectAuth"} |-> Hook({"sharedProjectAuth"}, {})]
KnowledgeHooks ==
  "buildKnowledge" :> Hook({"projectKnowledge"}, {Key("knowledgeList")})
  @@ "saveProjectConfig" :> Hook({"projectConfig"}, {Key("projectRepos")})
  @@ [m \in {"captureProjectAuth", "clearProjectAuth"} |-> Hook({"projectAuth"}, {Key("projectAuth")})]
  @@ "buildRepoKnowledge" :> Hook({"repoKnowledge"}, {Key("projectRepos")})
  @@ "patchRepoKnowledge" :> Hook({"repoKnowledge"}, {})
TicketHooks == [m \in {"syncTickets", "deleteTicket", "deleteTickets"} |-> Drop({<<"tickets">>})]
RunHooks ==
  "createRun" :> Hook({"run"}, {<<"runs">>}) @@ "regenerateRun" :> Drop({Run})
  @@ [m \in {"cancelRun", "retryRun"} |-> Drop({<<"runs">>, Run})]
  @@ "stopRun" :> Drop({<<"runs">>, Run, Key("specs"), Key("execution")})
  @@ "setRunTicketRepo" :> Drop({Run, Key("runRepos")})
CaseHooks == [m \in {"addCase", "updateCase", "regenerateCase", "setApproval", "approveAll", "approveTicket"} |->
                Drop({Key("runCases"), Run})]
AutomationHooks ==
  "createAndLink" :> Drop({Key("linkStatus"), Run})
  @@ "generateAutomation" :> Drop({Key("specs"), Run, Key("automationStatus")})
  @@ [m \in {"pauseAuthoring", "continueAuthoring"} |-> Drop({Key("authoringState")})]
  @@ "cancelAuthoring" :> Drop({Key("authoringState"), <<"runs">>})
  @@ "updateSpec" :> Hook({"specs"}, {Key("specs")}) @@ "exportAutomationProject" :> Drop({Key("automationExport")})
\* The two that Automation.tsx adds where it calls them.
ScreenHooks == "healSpec" :> Drop({Key("healStatus"), Key("specs")}) @@ "exploreSpec" :> Drop({Key("exploreStatus")})
BusinessHooks ==
  [m \in {"createBusinessSource", "updateBusinessSource", "deleteBusinessSource", "syncBusinessSource",
          "probeBusinessSource", "uploadBusinessDocument", "setBusinessAdoCredential"} |-> Drop({Key("businessSources")})]
  @@ [m \in {"createBusinessFact", "correctBusinessFact", "updateBusinessFact"} |-> Drop({Key("businessFacts")})]
ExecutionHooks ==
  "startProjectExecution" :> Hook({"projectExecution"}, {}) @@ "runSpec" :> Drop({Key("execution")})
  @@ "startExecution" :> Drop({Key("execution"), Run}) @@ "revokeDevice" :> Drop({Key("agentDevices")})
ReportHooks ==
  [m \in {"annotate", "autoAnnotate"} |-> Drop({Key("evidence")})] @@ "buildReport" :> Hook({"report"}, {})
  @@ "clearAuditEvents" :> Drop({<<"audit", "events">>, Key("auditStats")})
CommentHooks == [m \in {"prepareComments", "editComment", "regenerateComment", "publishComment", "publishAll"} |->
                   Drop({Key("comments")})]

Hooks == AccountHooks @@ ProjectHooks @@ KnowledgeHooks @@ TicketHooks @@ RunHooks @@ CaseHooks @@ AutomationHooks
         @@ ScreenHooks @@ BusinessHooks @@ ExecutionHooks @@ ReportHooks @@ CommentHooks

\* The gestures that write what they hope for before the server has answered,
\* and those whose hook drops its keys whatever the answer was.
Optimistic == {"setApproval", "approveAll", "approveTicket"}
Settled == Optimistic \cup {"testCredentials"}

\* The discipline of the hooks that seed, then drop: what an answered or refused
\* gesture writes into the cache, its hook makes ask again.
Below(q, keys) == \E k \in keys : IsPrefix(k, Key(q))
Written(m) == Screen \cap (Hooks[m].seeds \cup (IF m \in Optimistic THEN {"runCases"} ELSE {}))
SeedThenDrop == \A m \in Gestures \ Elsewhere : \A q \in Written(m) : Below(q, Hooks[m].drops)

-----------------------------------------------------------------------------
(* The channels of the hub, and the jobs that run behind a status.       *)

Channels == {"run", "project"}
RunSocketDrops == {Run}
ProjectSocketDrops == {Key("projectExecution")}
SocketDrops(c) == IF c = "run" THEN RunSocketDrops ELSE ProjectSocketDrops

\* The statuses a job passes through; "ending": it has told that it is over
\* and the registry that says it runs still holds it.
JobStep(q, from, to, tells) == [q |-> q, from |-> from, to |-> to, tells |-> tells]
ClaimSteps == {JobStep("execution", "queued", "running", {}), JobStep("projectExecution", "queued", "running", {})}
FinishSteps == {JobStep("execution", "running", "done", {"run"}), JobStep("projectExecution", "running", "done", {"project"})}
RunSteps == {JobStep("run", "running", "held", {"run"})}
LinkSteps == {JobStep("linkStatus", "running", "ending", {"run"}), JobStep("linkStatus", "ending", "done", {})}
GenerationSteps == {JobStep("automationStatus", "running", "ending", {"run"}), JobStep("automationStatus", "ending", "none", {})}
HealSteps == {JobStep("healStatus", "running", "ending", {"run"}), JobStep("healStatus", "ending", "none", {})}
ExploreSteps == {JobStep("exploreStatus", "running", "ending", {"run"}), JobStep("exploreStatus", "ending", "none", {})}
QuietSteps == {JobStep(q, "running", "done", {}) :
                    q \in {"projectAuth", "sharedProjectAuth", "projectRepos", "sharedProjects", "businessSources"}}
Steps == ClaimSteps \cup FinishSteps \cup RunSteps \cup LinkSteps \cup GenerationSteps \cup HealSteps
         \cup ExploreSteps \cup QuietSteps

NoFetch == [at |-> "idle"]
Asked == [at |-> "asked"]
Ready == [at |-> "ready"]
Over == [at |-> "over"]

\* A stage of the server: the answers change and the channel is told.
Changes(sets) == srv' = [q \in Screen |-> IF q \in DOMAIN sets THEN [n |-> srv[q].n + 1, s |-> sets[q]] ELSE srv[q]]
Publishes(channels) ==
  /\ last' = [c \in Channels |-> last[c] \/ c \in channels]
  /\ mail' = [c \in Channels |-> IF c \in channels /\ sock[c] THEN mail[c] + 1 ELSE mail[c]]

\* invalidateQueries: every query on the screen below one of the keys asks
\* again, and forgets the request it had in flight.
Dropped_KeepsFlight(f, keys) == [q \in Screen |-> IF Below(q, keys) /\ f[q] = NoFetch THEN Asked ELSE f[q]]
Dropped(f, keys) == [q \in Screen |-> IF Below(q, keys) THEN Asked ELSE f[q]]

-----------------------------------------------------------------------------
ViewInit ==
  /\ srv = [q \in Screen |-> [n |-> 0, s |-> First[q]]]
  /\ shown = srv
  /\ fetch = [q \in Screen |-> NoFetch]
  /\ call = [m \in Gestures |-> Ready]
  /\ sock = [c \in Channels |-> TRUE]
  /\ mail = [c \in Channels |-> 0]
  /\ last = [c \in Channels |-> FALSE]
  /\ drops = 0

Remembered(m) == [q \in {p \in Screen : p = "runCases" /\ m \in Optimistic} |-> shown[q]]
Body(m, now) == [q \in Hooks[m].seeds \cap Screen |-> now[q]]

\* useMutation: the request leaves.  An optimistic one cancels the request in
\* flight for the cases, remembers what the cache holds and writes its hope.
Calls(m) ==
  /\ call[m] = Ready
  /\ call' = [call EXCEPT ![m] = [at |-> "sent", stage |-> 1, prev |-> Remembered(m)]]
  /\ IF m \in Optimistic \ Elsewhere
     THEN /\ fetch' = [q \in Screen |-> IF Below(q, {Key("runCases")}) THEN NoFetch ELSE fetch[q]]
          /\ shown' = [q \in Screen |-> IF q = "runCases" THEN [shown[q] EXCEPT !.s = "hoped"] ELSE shown[q]]
     ELSE UNCHANGED <<fetch, shown>>
  /\ UNCHANGED <<srv, sock, mail, last, drops>>

\* The server works off the request, stage by stage.
Serves(m) ==
  /\ call[m].at = "sent"
  /\ LET stage == GestureRequests[m][call[m].stage] IN
     /\ Changes(stage.sets)
     /\ Publishes(stage.tells)
  /\ call' = [call EXCEPT ![m] = IF @.stage < Len(GestureRequests[m]) THEN [@ EXCEPT !.stage = call[m].stage + 1]
                                 ELSE [at |-> "answered", ok |-> TRUE, data |-> Body(m, srv'), prev |-> @.prev]]
  /\ UNCHANGED <<shown, fetch, sock, drops>>

\* The server refuses it and changes nothing.
Refuses(m) ==
  /\ call[m].at = "sent" /\ call[m].stage = 1
  /\ call' = [call EXCEPT ![m] = [at |-> "answered", ok |-> FALSE, data |-> Body(m, srv), prev |-> @.prev]]
  /\ UNCHANGED <<srv, shown, fetch, sock, mail, last, drops>>

\* onSuccess: the answer is written where the hook writes it, and its keys are
\* dropped.  onError of an optimistic one puts back what it remembered.
Seeded(m, old) ==
  LET written == IF call[m].ok THEN call[m].data ELSE call[m].prev
  IN [q \in Screen |-> IF q \in DOMAIN written THEN written[q] ELSE old[q]]
Hears(m) ==
  /\ call[m].at = "answered"
  /\ call' = [call EXCEPT ![m] = Over]
  /\ IF m \in Elsewhere THEN UNCHANGED <<shown, fetch>>
     ELSE /\ shown' = Seeded(m, shown)
          /\ fetch' = IF call[m].ok \/ m \in Settled THEN Dropped(fetch, Hooks[m].drops) ELSE fetch
  /\ UNCHANGED <<srv, sock, mail, last, drops>>

\* A job behind a status goes on.
Works(step) ==
  /\ step.q \in Screen
  /\ srv[step.q].s = step.from
  /\ Changes([q \in {step.q} |-> step.to])
  /\ Publishes(step.tells)
  /\ UNCHANGED <<shown, fetch, call, sock, drops>>

\* refetchInterval: the query asks again while what it shows says so.
Polled(q) ==
  /\ fetch[q] = NoFetch
  /\ Polls(q, shown[q])
  /\ fetch' = [fetch EXCEPT ![q] = Asked]
  /\ UNCHANGED <<srv, shown, call, sock, mail, last, drops>>

Answers(q) ==
  /\ fetch[q] = Asked
  /\ fetch' = [fetch EXCEPT ![q] = [at |-> "answered", data |-> srv[q]]]
  /\ UNCHANGED <<srv, shown, call, sock, mail, last, drops>>

Receives(q) ==
  /\ fetch[q].at = "answered"
  /\ shown' = [shown EXCEPT ![q] = fetch[q].data]
  /\ fetch' = [fetch EXCEPT ![q] = NoFetch]
  /\ UNCHANGED <<srv, call, sock, mail, last, drops>>

\* ws.onmessage: any event of the channel drops all that is below its key.
Delivers(c) ==
  /\ mail[c] > 0
  /\ mail' = [mail EXCEPT ![c] = @ - 1]
  /\ fetch' = Dropped(fetch, SocketDrops(c))
  /\ UNCHANGED <<srv, shown, call, sock, last, drops>>

\* The connection is lost with what was on its way.
Disconnects(c) ==
  /\ sock[c] /\ drops < MaxDrops
  /\ drops' = drops + 1
  /\ sock' = [sock EXCEPT ![c] = FALSE]
  /\ mail' = [mail EXCEPT ![c] = 0]
  /\ UNCHANGED <<srv, shown, fetch, call, last>>

\* hub.connect: the last event of the channel is sent to who comes back.
Replayed_Never(c) == 0
Replayed(c) == IF last[c] THEN 1 ELSE 0
Connects(c) ==
  /\ ~sock[c]
  /\ sock' = [sock EXCEPT ![c] = TRUE]
  /\ mail' = [mail EXCEPT ![c] = Replayed(c)]
  /\ UNCHANGED <<srv, shown, fetch, call, last, drops>>

-----------------------------------------------------------------------------
ViewNext ==
  \/ \E m \in Gestures : Calls(m) \/ Serves(m) \/ Refuses(m) \/ Hears(m)
  \/ \E step \in Steps : Works(step)
  \/ \E q \in Screen : Polled(q) \/ Answers(q) \/ Receives(q)
  \/ \E c \in Channels : Delivers(c) \/ Disconnects(c) \/ Connects(c)

\* A request is served and answered, a job goes on, a browser fetches, polls,
\* reads its socket and comes back; nobody has to make a gesture.
ViewFairness ==
  /\ \A m \in Gestures : WF_view(Serves(m)) /\ WF_view(Hears(m))
  /\ \A step \in Steps : WF_view(Works(step))
  /\ \A q \in Screen : WF_view(Polled(q)) /\ WF_view(Answers(q)) /\ WF_view(Receives(q))
  /\ \A c \in Channels : WF_view(Delivers(c)) /\ WF_view(Connects(c))

ViewSpec == ViewInit /\ [][ViewNext]_view /\ ViewFairness

-----------------------------------------------------------------------------
Statuses == Always \cup {"hoped"}
Value == [n : Nat, s : Statuses]
ViewTypeOK ==
  /\ srv \in [Screen -> Value] /\ shown \in [Screen -> Value]
  /\ \A q \in Screen : fetch[q] \in {NoFetch, Asked} \/ fetch[q].data \in Value
  /\ \A m \in Gestures : call[m].at \in {"ready", "sent", "answered", "over"}
  /\ sock \in [Channels -> BOOLEAN] /\ mail \in [Channels -> Nat] /\ last \in [Channels -> BOOLEAN]
  /\ drops \in 0..MaxDrops

\* Whatever connection is lost and whatever event with it, the screen comes to
\* show what the server holds (useRunSocket with the replay of ProgressHub and
\* the polling of hooks/queries.ts): no query of it stays behind for ever.
ScreenCatchesUp == \A q \in Screen : []<>(shown[q] = srv[q])

\* An older answer never stands.  Two answers of gestures may come in the wrong
\* order, and a refused approval puts back what it remembered: where the cache
\* goes back to an older answer, the query asks again at once.  A poll under way
\* while a hook writes the answer of its gesture does not bring the older one
\* back (useClearProjectAuth, useCaptureProjectAuth: seed, then drop).
OlderAsksAgain == [][\A q \in Screen : shown'[q].n >= shown[q].n \/ fetch'[q] = Asked]_view
=============================================================================
