----------------------------- MODULE MCLiveness -----------------------------
(**************************************************************************)
(* One small instance of each component that promises something will      *)
(* happen at last: the execution queue, the screens, the session of the   *)
(* browser.  The components do not interact here: a behaviour is one      *)
(* component's, the one `focus` names, and the others stay as they start. *)
(* The components are extended: their properties are checked as they      *)
(* stand, and hold of the behaviours of the others trivially.             *)
(**************************************************************************)
EXTENDS ExecutionQueue, LiveView, Session

VARIABLE focus

queue   == <<ex, ev, files, req, stop, dev, msg, faults>>
allVars == <<focus, queue, view, signVars>>

\* An execution watched while the login of the project is captured and cleared.
Opened == [q \in {"execution", "projectAuth"} |-> IF q = "execution" THEN "held" ELSE "none"]

\* One person of two, one tab, single sign-on; a request that is never answered
\* or somebody who ends a session or edits an account, not both.
Bounded == outages + edits < 2

\* The hooks of this screen drop what they write, as OlderNeverStands asks.
ASSUME HooksOfTheScreen == SeedThenDrop

-----------------------------------------------------------------------------
OneInit ==
  /\ focus \in {"claims", "screen", "session"}
  /\ Init
  /\ ViewInit
  /\ SignInit /\ (focus # "session" => hub = CHOOSE u \in Users : TRUE)

OneNext ==
  \/ focus = "claims" /\ Next /\ UNCHANGED <<focus, view, signVars>>
  \/ focus = "screen" /\ ViewNext /\ UNCHANGED <<focus, queue, signVars>>
  \/ focus = "session" /\ SignNext /\ Bounded' /\ UNCHANGED <<focus, queue, view>>

\* Each component's own fairness, while the behaviour is its own.
OneFairness ==
  /\ \A d \in Devices \ Mortal :
       /\ WF_vars(focus = "claims" /\ Claim(d) /\ UNCHANGED faults)
       /\ WF_vars(focus = "claims" /\ Work(d) /\ UNCHANGED faults)
  /\ \A m \in Gestures :
       /\ WF_view(focus = "screen" /\ Serves(m))
       /\ WF_view(focus = "screen" /\ Hears(m))
  /\ \A step \in Steps : WF_view(focus = "screen" /\ Works(step))
  /\ \A q \in Screen :
       /\ WF_view(focus = "screen" /\ Polled(q))
       /\ WF_view(focus = "screen" /\ Answers(q))
       /\ WF_view(focus = "screen" /\ Receives(q))
  /\ \A c \in Channels :
       /\ WF_view(focus = "screen" /\ Delivers(c))
       /\ WF_view(focus = "screen" /\ Connects(c))
  /\ \A t \in Tabs :
       /\ WF_signVars(focus = "session" /\ Boot(t))
       /\ WF_signVars(focus = "session" /\ RefusedCall(t))
       /\ WF_signVars(focus = "session" /\ Age(t))
       /\ WF_signVars(focus = "session" /\ Refreshes(t))
       /\ WF_signVars(focus = "session" /\ Vouches(t))

OneSpec == OneInit /\ [][OneNext]_allVars /\ OneFairness

=============================================================================
