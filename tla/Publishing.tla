----------------------------- MODULE Publishing -----------------------------
(**************************************************************************)
(* The comments of a run (routers/comments, publish_service): prepared    *)
(* and regenerated by requests that wait for Claude, edited, and posted   *)
(* to the work items one by one.  A request works on copies it loaded     *)
(* earlier, and a commit writes only the columns it changed on its copy   *)
(* (sessions expire nothing).  Nothing keeps two requests off one row:    *)
(* no lock, no unique index on (run, work item), no sweep at start-up.    *)
(* A body is not told from another; the status of the run is moved by     *)
(* others too (RunLifecycle), of which a cancel is kept here.             *)
(**************************************************************************)
EXTENDS Integers

CONSTANTS
  Items,       \* work items the run's report covers
  Clerks,      \* threads that serve requests
  NoComment,
  MaxPublishing, \* bound: requests
  MaxBreaks    \* bound: restarts, and requests that die of their database

VARIABLES
  comments,  \* ticket_comments: a row by the item and the request thread that made it
  clerk,     \* what each thread is doing
  posted,    \* how many comments the provider holds, by work item
  course,    \* run.status
  dryRun,    \* settings.dryRun
  recordedDry, \* history: items whose comment a dry run recorded
  publishing \* bounds: requests and breaks so far
commentVars == <<comments, clerk, posted, course, dryRun, recordedDry, publishing>>

-----------------------------------------------------------------------------
CommentIds == Items \X Clerks
CourseEnded == {"done", "failed", "cancelled"}
Courses == {"evidence", "comment"} \cup CourseEnded
Comment == [status : {"draft", "publishing", "published", "failed"}, ext : Nat, target : BOOLEAN]

ASSUME PublishingAssumption ==
  /\ NoComment \notin CommentIds \cup Comment
  /\ MaxPublishing \in Nat /\ MaxBreaks \in Nat

Underway == {"marked", "cleared", "moving", "landed", "erred"}
Settled == {"published", "failed"}
Existing == {r \in CommentIds : comments[r] # NoComment}
NoCopies == [r \in CommentIds |-> NoComment]

\* A thread: the rows it has still to post or will save, the copies it loaded,
\* the items it has still to draft, the row it is on and the id the provider gave.
Clerk == [at : {"idle", "drafting", "staging", "turn", "finishing"} \cup Underway,
          todo : SUBSET CommentIds, mine : [CommentIds -> Comment \cup {NoComment}],
          left : SUBSET Items, on : CommentIds \cup {NoComment}, got : Nat,
          course : Courses, whole : BOOLEAN]
Resting == [at |-> "idle", todo |-> {}, mine |-> NoCopies, left |-> {}, on |-> NoComment,
            got |-> 0, course |-> "evidence", whole |-> FALSE]
Doing(w, at) == clerk[w].at = at

\* What a commit writes of the row: the columns that differ from the copy.
Written(r, was, will) ==
  [f \in DOMAIN will |-> IF will[f] = was[f] THEN comments[r][f] ELSE will[f]]

-----------------------------------------------------------------------------
PublishInit ==
  /\ comments = NoCopies
  /\ clerk = [w \in Clerks |-> Resting]
  /\ posted = [i \in Items |-> 0]
  /\ course \in {"evidence", "failed"}
  /\ dryRun \in BOOLEAN
  /\ recordedDry = {}
  /\ publishing = [requests |-> 0, breaks |-> 0]

\* A thread takes a request.
TakesRequest(w, state) ==
  /\ Doing(w, "idle")
  /\ publishing.requests < MaxPublishing
  /\ publishing' = [publishing EXCEPT !.requests = @ + 1]
  /\ clerk' = [clerk EXCEPT ![w] = state]
  /\ UNCHANGED <<comments, posted, course, dryRun, recordedDry>>

PrepareComments(w) ==
  TakesRequest(w, [Resting EXCEPT !.at = "drafting", !.left = Items, !.course = course, !.whole = TRUE])

\* One row; a published comment is refused.
RegenerateComment(w, r) ==
  /\ r \in Existing /\ comments[r].status # "published"
  /\ TakesRequest(w, [Resting EXCEPT !.at = "drafting", !.left = {r[1]}, !.mine[r] = comments[r]])

\* Claude answered for an item; then the row of the item is looked up: some row
\* of the item, as this request loaded it if it did.
BuildComment(w, i) ==
  /\ Doing(w, "drafting") /\ i \in clerk[w].left
  /\ LET old == {r \in Existing : r[1] = i}
     IN  \E r \in IF old = {} THEN {<<i, w>>} ELSE old :
           clerk' = [clerk EXCEPT ![w].left = @ \ {i}, ![w].todo = @ \cup {r},
                                  ![w].mine[r] = IF @ = NoComment THEN comments[r] ELSE @]
  /\ UNCHANGED <<comments, posted, course, dryRun, recordedDry, publishing>>

\* Claude failed for one: the request ends and nothing of it was saved.
SummarizeFails(w) ==
  /\ Doing(w, "drafting") /\ clerk[w].left # {}
  /\ clerk' = [clerk EXCEPT ![w] = Resting]
  /\ UNCHANGED <<comments, posted, course, dryRun, recordedDry, publishing>>

Drafted(copy) == [copy EXCEPT !.status = "draft", !.target = TRUE]
NewDraft == [status |-> "draft", ext |-> 0, target |-> TRUE]

\* The one commit of prepare_comments and regenerate_comment.
SaveDrafts(w) ==
  /\ Doing(w, "drafting") /\ clerk[w].left = {}
  /\ comments' = [r \in CommentIds |->
       IF r \notin clerk[w].todo THEN comments[r]
       ELSE LET was == clerk[w].mine[r]
            IN  IF was = NoComment THEN NewDraft ELSE Written(r, was, Drafted(was))]
  /\ clerk' = [clerk EXCEPT ![w] = IF @.whole THEN [Resting EXCEPT !.at = "staging", !.course = clerk[w].course]
                                              ELSE Resting]
  /\ UNCHANGED <<posted, course, dryRun, recordedDry, publishing>>

\* set_run_status on the copy loaded before the drafting.
EntersComment(w) ==
  /\ Doing(w, "staging")
  /\ course' = IF clerk[w].course \in CourseEnded \cup {"comment"} THEN course ELSE "comment"
  /\ clerk' = [clerk EXCEPT ![w] = Resting]
  /\ UNCHANGED <<comments, posted, dryRun, recordedDry, publishing>>

\* PATCH of a comment: the target status (the body is not told from another).
EditComment(r, target) ==
  /\ r \in Existing
  /\ comments' = [comments EXCEPT ![r].target = target]
  /\ UNCHANGED <<clerk, posted, course, dryRun, recordedDry, publishing>>

-----------------------------------------------------------------------------
\* The rows are loaded when the request begins; whatever their status is, each
\* is posted.
Publishes(w, rows) ==
  TakesRequest(w, [Resting EXCEPT !.at = "turn", !.todo = rows,
                           !.mine = [r \in CommentIds |-> IF r \in rows THEN comments[r] ELSE NoComment]])
PublishComment(w) == \E r \in Existing : Publishes(w, {r})
PublishComments(w) == \E chosen \in (SUBSET Items) \ {{}} : Publishes(w, {r \in Existing : r[1] \in chosen})
RetryComments(w) == Publishes(w, {r \in Existing : comments[r].status = "failed"})

\* A commit of the row the thread is on, or turns to.
CommitsRow(w, r, will, at) ==
  /\ comments' = [comments EXCEPT ![r] = Written(r, clerk[w].mine[r], will)]
  /\ clerk' = [clerk EXCEPT ![w].at = at, ![w].on = r, ![w].todo = @ \ {r}, ![w].mine[r] = will]

MarkPublishing(w, r) ==
  /\ Doing(w, "turn") /\ r \in clerk[w].todo
  /\ CommitsRow(w, r, [clerk[w].mine[r] EXCEPT !.status = "publishing"], "marked")
  /\ UNCHANGED <<posted, course, dryRun, recordedDry, publishing>>

\* Mutant: the request ends with an error it does not expect.
Concluded_Uncaught(w, outcome) ==
  LET r == clerk[w].on
      new == Written(r, clerk[w].mine[r], outcome)
  IN  IF outcome.status = "failed"
      THEN comments' = comments /\ clerk' = [clerk EXCEPT ![w] = Resting]
      ELSE /\ comments' = [comments EXCEPT ![r] = new]
           /\ clerk' = [clerk EXCEPT ![w].at = "turn", ![w].on = NoComment, ![w].got = 0, ![w].mine[r] = new]

\* The last commit for a row, and the refresh of the copy.
Concluded(w, outcome) ==
  LET r == clerk[w].on
      new == Written(r, clerk[w].mine[r], outcome)
  IN  /\ comments' = [comments EXCEPT ![r] = new]
      /\ clerk' = [clerk EXCEPT ![w].at = "turn", ![w].on = NoComment, ![w].got = 0, ![w].mine[r] = new]
OnHand(w) == clerk[w].mine[clerk[w].on]

\* A dry run: recorded as published, and the provider is not contacted.
RecordDry(w) ==
  /\ Doing(w, "marked") /\ dryRun
  /\ Concluded(w, [OnHand(w) EXCEPT !.status = "published", !.ext = 0])
  /\ recordedDry' = recordedDry \cup {clerk[w].on[1]}
  /\ UNCHANGED <<posted, course, dryRun, publishing>>

GoesLive(w) ==
  /\ Doing(w, "marked") /\ ~dryRun
  /\ clerk' = [clerk EXCEPT ![w].at = "cleared"]
  /\ UNCHANGED <<comments, posted, course, dryRun, recordedDry, publishing>>

\* adapter.publish_comment: the comment may be there although the call failed.
PostComment(w, there, answered) ==
  LET i == clerk[w].on[1]
  IN  /\ Doing(w, "cleared") /\ (answered => there)
      /\ posted' = IF there THEN [posted EXCEPT ![i] = @ + 1] ELSE posted
      /\ clerk' = [clerk EXCEPT
           ![w].at = IF ~answered THEN "erred" ELSE IF OnHand(w).target THEN "moving" ELSE "landed",
           ![w].got = IF answered THEN posted[i] + 1 ELSE 0]
      /\ UNCHANGED <<comments, course, dryRun, recordedDry, publishing>>

\* adapter.update_status
MoveItem(w) ==
  /\ Doing(w, "moving")
  /\ \E at \in {"landed", "erred"} : clerk' = [clerk EXCEPT ![w].at = at]
  /\ UNCHANGED <<comments, posted, course, dryRun, recordedDry, publishing>>

LandComment(w) ==
  /\ Doing(w, "landed")
  /\ Concluded(w, [OnHand(w) EXCEPT !.status = "published", !.ext = clerk[w].got])
  /\ UNCHANGED <<posted, course, dryRun, recordedDry, publishing>>

FailComment(w) ==
  /\ Doing(w, "erred")
  /\ Concluded(w, [OnHand(w) EXCEPT !.status = "failed"])
  /\ UNCHANGED <<posted, course, dryRun, recordedDry, publishing>>

-----------------------------------------------------------------------------
\* The rows as the request sees them at its end: its own copies, the others fresh.
Seen(w) == [r \in Existing |-> IF clerk[w].mine[r] = NoComment THEN comments[r] ELSE clerk[w].mine[r]]
\* Mutant: done once every comment came to an end, whatever the end.
AllTold_Terminal(seen) ==
  /\ DOMAIN seen # {}
  /\ \A r \in DOMAIN seen : seen[r].status \in Settled
AllTold(seen) ==
  /\ \A r \in DOMAIN seen : seen[r].status \in Settled
  /\ \E r \in DOMAIN seen : seen[r].status = "published"

\* _maybe_finish_run reads the run again, then the rows; complete_run writes it.
MaybeFinishRun(w) ==
  /\ Doing(w, "turn") /\ clerk[w].todo = {}
  /\ clerk' = [clerk EXCEPT ![w] = IF AllTold(Seen(w))
                                   THEN [Resting EXCEPT !.at = "finishing", !.course = course]
                                   ELSE Resting]
  /\ UNCHANGED <<comments, posted, course, dryRun, recordedDry, publishing>>

FinishRun(w) ==
  /\ Doing(w, "finishing")
  /\ course' = IF clerk[w].course \in {"cancelled", "done"} THEN course ELSE "done"
  /\ clerk' = [clerk EXCEPT ![w] = Resting]
  /\ UNCHANGED <<comments, posted, dryRun, recordedDry, publishing>>

-----------------------------------------------------------------------------
CancelCourse ==
  /\ course \notin CourseEnded
  /\ course' = "cancelled"
  /\ UNCHANGED <<comments, clerk, posted, dryRun, recordedDry, publishing>>

SwitchDryRun ==
  /\ dryRun' = ~dryRun
  /\ UNCHANGED <<comments, clerk, posted, course, recordedDry, publishing>>

\* The server restarts, or a request dies of its database; nothing looks after the rows.
Breaks(some) ==
  /\ publishing.breaks < MaxBreaks
  /\ \E w \in some : ~Doing(w, "idle")
  /\ clerk' = [w \in Clerks |-> IF w \in some THEN Resting ELSE clerk[w]]
  /\ publishing' = [publishing EXCEPT !.breaks = @ + 1]
  /\ UNCHANGED <<comments, posted, course, dryRun, recordedDry>>
ServerRestarts == Breaks(Clerks)
RequestDies(w) == Breaks({w})

ClerkStep(w) ==
  \/ PrepareComments(w) \/ SummarizeFails(w) \/ SaveDrafts(w) \/ EntersComment(w)
  \/ PublishComment(w) \/ PublishComments(w) \/ RetryComments(w)
  \/ RecordDry(w) \/ GoesLive(w) \/ MoveItem(w) \/ LandComment(w) \/ FailComment(w)
  \/ MaybeFinishRun(w) \/ FinishRun(w) \/ RequestDies(w)
  \/ \E r \in CommentIds : RegenerateComment(w, r) \/ MarkPublishing(w, r)
  \/ \E i \in Items : BuildComment(w, i)
  \/ \E there, answered \in BOOLEAN : PostComment(w, there, answered)

PublishNext ==
  \/ \E w \in Clerks : ClerkStep(w)
  \/ \E r \in CommentIds, target \in BOOLEAN : EditComment(r, target)
  \/ CancelCourse \/ SwitchDryRun \/ ServerRestarts

PublishSpec == PublishInit /\ [][PublishNext]_commentVars

-----------------------------------------------------------------------------
\* Every variable keeps its shape.
PublishTypeOK ==
  /\ comments \in [CommentIds -> Comment \cup {NoComment}]
  /\ clerk \in [Clerks -> Clerk]
  /\ posted \in [Items -> Nat]
  /\ course \in Courses /\ dryRun \in BOOLEAN /\ recordedDry \subseteq Items
  /\ publishing \in [requests : 0..MaxPublishing, breaks : 0..MaxBreaks]

\* A row says "publishing" only while a request is at it, or after a restart or
\* a broken request, which leave it so for good.
PublishingIsHeld ==
  \A r \in Existing : comments[r].status = "publishing" =>
    \/ publishing.breaks > 0
    \/ \E w \in Clerks : clerk[w].on = r /\ clerk[w].at \in Underway

\* A row says "published" only of a work item that a comment reached or a dry
\* run recorded, the id it shows is of a comment the provider holds, and
\* publishing ends the run only after such a one (_maybe_finish_run): a run of
\* failed posts alone is not done, however retries, regenerates and a switch of
\* the dry run come between.
Reached(i) == posted[i] > 0 \/ i \in recordedDry
DoneAfterReached ==
  /\ \A r \in Existing : comments[r].status = "published" => Reached(r[1])
  /\ \A r \in Existing : comments[r].ext <= posted[r[1]]
  /\ course = "done" => \E i \in Items : Reached(i)

=============================================================================
