------------------------------ MODULE MCSafety ------------------------------
(**************************************************************************)
(* One small instance of each component of which something must never     *)
(* happen.  The components do not interact here: a behaviour is one       *)
(* component's, the one `focus` names, and the others stay as they start. *)
(* The components are extended: their properties are checked as they      *)
(* stand, and hold of the behaviours of the others trivially.             *)
(**************************************************************************)
EXTENDS ExecutionQueue, HealLoop, ServerRunner, LoginCapture, Exploration, BusinessKnowledge,
        Session, Knowledge, AutomationProject, Publishing, Tickets,
        Credentials, FiniteSets, TLC

VARIABLE focus

executions == <<ex, ev, files, req, stop, dev, msg, faults>>
allVars == <<focus, executions, healVars, exploreVars, runnerVars, projectVars, signVars, learnVars,
             loginVars, businessVars, commentVars, ticketVars, credentialVars>>

-----------------------------------------------------------------------------
\* Two passes over a library of three methods, two of them twins, or one pass
\* and somebody who pushes to the export branch.
CalmExport == passes + foreign < 3
Answers == {{"m", "n"}, {"k"}}
Duplicates == {{"m", "k"}}

\* A build and a pin, and two of a repair's merge, a mirror and a restart.
OneScan == {{"a"}}
CalmLearning == spent.merges + spent.mirrors + spent.restarts < 3

\* Two devices and two server threads, clicked twice; a lost call, a restart or
\* an edit of the project, not two of these.
CalmLogin == used.edits + used.restarts + used.faults < 2

\* One document, three syncs of two versions; four requests in all, of which one
\* edit at most and of a probe, a clone and a restart one, or three with two edits.
CalmBusiness ==
  /\ asked.probes + asked.clones + asked.restarts < 2
  /\ Total > 3 => asked.edits < 2

\* One work item; three requests, or two and a break.
CalmPublishing == publishing.requests + publishing.breaks <= MaxPublishing

\* Three tickets, two of which fit the pages a walk may read: the Hub first lists
\* two or all of them, in this order; at most one connection of one's own, and
\* one ticket in a provider's answer.
FirstListings == {<<"a1", "a2">>, <<"a1", "a2", "a3">>}
CalmTickets ==
  /\ \A c, d \in Usable("local") : c = d
  /\ \A v \in Visitors : \A i, j \in visit[v].got : i = j

\* Two logins put in two places and a refresh in all; of what people, time and
\* crashes do three around a device, two around a call, one around two calls that
\* overlap, of one person and run.
Calling == {c \in Callers : caller[c].at # "away"}
CalmCredentials ==
  /\ Cardinality(uses.put) <= 2
  /\ Calling # {} => gestures + Cardinality(Calling) <= 3
  /\ \A h \in Hosts : host[h].busy => Calling = {}
  /\ \A c, d \in Calling : caller[c].who = caller[d].who /\ caller[c].run = caller[d].run

\* No definition tells one thread from another; those of the components are the same two.
Symmetry == Permutations(Crew)

-----------------------------------------------------------------------------
OneInit ==
  /\ focus \in {"executions", "heal", "explore", "runner", "automation", "session",
                "knowledge", "login", "business", "publishing", "tickets", "credentials"}
  /\ Init
  /\ HealInit /\ (focus # "heal" => spec.code = [n |-> 0, imports |-> {}] /\ lib["f1"] = 0)
  /\ ExploreInit /\ (focus # "explore" => spend = 0)
  /\ RunnerInit
  /\ ProjectInit
  /\ SignInit /\ (focus # "session" => hub = "u1")
  /\ LearnInit
  /\ LoginInit /\ (focus # "login" => target = "server")
  /\ BusinessInit
  /\ PublishInit /\ (focus # "publishing" => course = "failed" /\ ~dryRun)
  /\ TicketsInit /\ listing \in (IF focus = "tickets" THEN FirstListings ELSE {<<>>})
  /\ CredentialsInit /\ (focus # "credentials" => hubOn)

OneNext ==
  \/ focus = "executions" /\ UNCHANGED <<focus, healVars, exploreVars, runnerVars, projectVars, signVars, learnVars, loginVars, businessVars, commentVars, ticketVars, credentialVars>>
     /\ Next
  \/ focus = "heal" /\ UNCHANGED <<focus, executions, exploreVars, runnerVars, projectVars, signVars, learnVars, loginVars, businessVars, commentVars, ticketVars, credentialVars>>
     /\ HealNext
  \/ focus = "explore" /\ UNCHANGED <<focus, executions, healVars, runnerVars, projectVars, signVars, learnVars, loginVars, businessVars, commentVars, ticketVars, credentialVars>>
     /\ ExploreNext
  \/ focus = "runner" /\ UNCHANGED <<focus, executions, healVars, exploreVars, projectVars, signVars, learnVars, loginVars, businessVars, commentVars, ticketVars, credentialVars>>
     /\ RunnerNext
  \/ focus = "automation" /\ UNCHANGED <<focus, executions, healVars, exploreVars, runnerVars, signVars, learnVars, loginVars, businessVars, commentVars, ticketVars, credentialVars>>
     /\ ProjectNext /\ CalmExport'
  \/ focus = "session" /\ UNCHANGED <<focus, executions, healVars, exploreVars, runnerVars, projectVars, learnVars, loginVars, businessVars, commentVars, ticketVars, credentialVars>>
     /\ SignNext
  \/ focus = "knowledge" /\ UNCHANGED <<focus, executions, healVars, exploreVars, runnerVars, projectVars, signVars, loginVars, businessVars, commentVars, ticketVars, credentialVars>>
     /\ LearnNext /\ CalmLearning'
  \/ focus = "login" /\ UNCHANGED <<focus, executions, healVars, exploreVars, runnerVars, projectVars, signVars, learnVars, businessVars, commentVars, ticketVars, credentialVars>>
     /\ LoginNext /\ CalmLogin'
  \/ focus = "business" /\ UNCHANGED <<focus, executions, healVars, exploreVars, runnerVars, projectVars, signVars, learnVars, loginVars, commentVars, ticketVars, credentialVars>>
     /\ BusinessNext /\ CalmBusiness'
  \/ focus = "publishing" /\ UNCHANGED <<focus, executions, healVars, exploreVars, runnerVars, projectVars, signVars, learnVars, loginVars, businessVars, ticketVars, credentialVars>>
     /\ PublishNext /\ CalmPublishing'
  \/ focus = "tickets" /\ UNCHANGED <<focus, executions, healVars, exploreVars, runnerVars, projectVars, signVars, learnVars, loginVars, businessVars, commentVars, credentialVars>>
     /\ TicketsNext /\ CalmTickets'
  \/ focus = "credentials" /\ UNCHANGED <<focus, executions, healVars, exploreVars, runnerVars, projectVars, signVars, learnVars, loginVars, businessVars, commentVars, ticketVars>>
     /\ CredentialsNext /\ CalmCredentials'

OneSpec == OneInit /\ [][OneNext]_allVars

-----------------------------------------------------------------------------
\* Every variable keeps its shape.
TypesOK ==
  /\ focus = "executions" => TypeOK
  /\ focus = "heal" => HealTypeOK
  /\ focus = "explore" => ExploreTypeOK
  /\ focus = "runner" => RunnerTypeOK
  /\ focus = "automation" => ProjectTypeOK
  /\ focus = "session" => SignTypeOK
  /\ focus = "knowledge" => LearnTypeOK
  /\ focus = "login" => LoginTypeOK
  /\ focus = "business" => BusinessTypeOK
  /\ focus = "publishing" => PublishTypeOK
  /\ focus = "tickets" => TicketsTypeOK
  /\ focus = "credentials" => CredentialsTypeOK
=============================================================================
