-------------------------- MODULE Provider_proofs --------------------------
(**************************************************************************)
(* Proofs about what is exchanged with the provider and the Hub: the      *)
(* comments of a run (Publishing), the tickets of a person (Tickets) and  *)
(* the tokens of Claude (Credentials), for any work items, persons and    *)
(* runs, any number of threads and devices and any bounds.                *)
(**************************************************************************)
EXTENDS Publishing, Tickets, Credentials, SequenceTheorems, TLAPS

-----------------------------------------------------------------------------
(* Publishing: the invariant.                                             *)

LEMMA WrittenTyped ==
  ASSUME NEW r \in CommentIds, comments[r] \in Comment, NEW was \in Comment, NEW will \in Comment
  PROVE  /\ Written(r, was, will) \in Comment
         /\ Written(r, was, will).status \in {comments[r].status, will.status}
         /\ Written(r, was, will).ext \in {comments[r].ext, will.ext}
         /\ will.status # was.status => Written(r, was, will).status = will.status
  BY DEF Written, Comment

\* What a thread goes on with it has a copy of, of a row that is there; and the
\* row it posts it has marked.
Copying(s) ==
  /\ \A r \in CommentIds : s.mine[r] # NoComment => comments[r] # NoComment
  /\ s.at \in {"turn"} \cup Underway => \A r \in s.todo : s.mine[r] # NoComment
  /\ s.at \in Underway =>
       /\ s.on \in CommentIds
       /\ s.mine[s.on] # NoComment
       /\ s.mine[s.on].status = "publishing"

\* What a thread says of the provider is so.
Told(c, i) == (c.status = "published" => Reached(i)) /\ c.ext <= posted[i]
Informed(s) ==
  /\ \A r \in CommentIds : s.mine[r] # NoComment => Told(s.mine[r], r[1])
  /\ s.at \in {"moving", "landed"} => s.got <= posted[s.on[1]] /\ posted[s.on[1]] > 0
  /\ s.at = "finishing" => \E i \in Items : Reached(i)

Holds(s, r) == s.on = r /\ s.at \in Underway

PublishInv ==
  /\ PublishTypeOK
  /\ \A w \in Clerks : Copying(clerk[w]) /\ Informed(clerk[w])
  /\ PublishingIsHeld /\ DoneAfterReached

\* Rows are not deleted, and the provider keeps what it was given.
Grows ==
  /\ \A r \in CommentIds : comments[r] # NoComment => comments'[r] # NoComment
  /\ \A i \in Items : posted[i] <= posted'[i]
  /\ recordedDry \subseteq recordedDry'

LEMMA StaysInformed ==
  ASSUME PublishTypeOK, PublishTypeOK', Grows, NEW s \in Clerk, Copying(s), Informed(s)
  PROVE  Copying(s)' /\ Informed(s)'
<1>1. \A i \in Items : posted[i] \in Nat /\ posted'[i] \in Nat /\ (Reached(i) => Reached(i)')
  BY DEF PublishTypeOK, Grows, Reached
<1>2. Copying(s)'
  BY DEF Copying, Grows
<1>3. \A r \in CommentIds : s.mine[r] # NoComment => Told(s.mine[r], r[1])'
  <2> SUFFICES ASSUME NEW r \in CommentIds, s.mine[r] # NoComment
               PROVE  Told(s.mine[r], r[1])'
    OBVIOUS
  <2>1. r[1] \in Items /\ s.mine[r].ext \in Nat
    BY DEF CommentIds, Clerk, Comment
  <2>2. Told(s.mine[r], r[1])
    BY DEF Informed
  <2> QED BY <1>1, <2>1, <2>2 DEF Told, Grows
<1>4. s.at \in Underway => s.on[1] \in Items
  BY DEF Copying, CommentIds
<1>5. s.got \in Nat
  BY DEF Clerk
<1>6. s.at \in {"moving", "landed"} => s.at \in Underway
  BY DEF Underway
<1> QED BY <1>1, <1>2, <1>3, <1>4, <1>5, <1>6 DEF Informed, Grows

\* A step of one thread that changes nothing else but the count of requests.
LEMMA ThreadOnly ==
  ASSUME PublishInv, NEW w \in Clerks, NEW s \in Clerk,
         clerk' = [clerk EXCEPT ![w] = s],
         UNCHANGED <<comments, posted, course, dryRun, recordedDry>>,
         publishing' \in [requests : 0..MaxPublishing, breaks : 0..MaxBreaks],
         publishing'.breaks = publishing.breaks,
         \A r \in CommentIds : Holds(clerk[w], r) => Holds(s, r),
         Copying(s), Informed(s)
  PROVE  PublishInv'
<1>1. PublishTypeOK'
  BY DEF PublishInv, PublishTypeOK
<1>2. Grows
  BY DEF Grows, PublishInv, PublishTypeOK
<1>3. \A v \in Clerks : Copying(clerk[v])' /\ Informed(clerk[v])'
  <2> TAKE v \in Clerks
  <2>1. clerk'[v] \in {s, clerk[v]} /\ clerk'[v] \in Clerk
    BY DEF PublishInv, PublishTypeOK
  <2>2. Copying(clerk'[v]) /\ Informed(clerk'[v])
    BY <2>1 DEF PublishInv
  <2> QED BY <2>2 DEF Copying, Informed, Told, Reached
<1>4. PublishingIsHeld'
  BY DEF PublishInv, PublishTypeOK, PublishingIsHeld, Existing, Holds
<1>5. DoneAfterReached'
  BY DEF PublishInv, DoneAfterReached, Existing, Reached
<1> QED BY <1>1, <1>3, <1>4, <1>5 DEF PublishInv

\* A commit of one thread.
LEMMA Commit ==
  ASSUME PublishInv, NEW w \in Clerks, NEW s \in Clerk,
         clerk' = [clerk EXCEPT ![w] = s],
         comments' \in [CommentIds -> Comment \cup {NoComment}],
         recordedDry' \subseteq Items,
         Grows, UNCHANGED <<posted, course, dryRun, publishing>>,
         Copying(s)', Informed(s)',
         \A r \in CommentIds : comments'[r] # NoComment =>
           comments'[r] = comments[r] \/ Told(comments[r], r[1])',
         \A r \in CommentIds : comments'[r] # NoComment /\ comments'[r].status = "publishing" =>
           \/ Holds(s, r)
           \/ /\ comments[r] # NoComment /\ comments[r].status = "publishing"
              /\ ~Holds(clerk[w], r)
  PROVE  PublishInv'
<1>1. PublishTypeOK'
  BY DEF PublishInv, PublishTypeOK
<1>2. \A v \in Clerks : Copying(clerk[v])' /\ Informed(clerk[v])'
  <2> TAKE v \in Clerks
  <2>1. CASE v = w
    <3>1. clerk'[v] = s
      BY <2>1 DEF PublishInv, PublishTypeOK
    <3> QED BY <3>1 DEF Copying, Informed, Told, Reached
  <2>2. CASE v # w
    <3>1. clerk'[v] = clerk[v] /\ clerk[v] \in Clerk
      BY <2>2 DEF PublishInv, PublishTypeOK
    <3>2. /\ Copying(clerk[v]) /\ Informed(clerk[v]) /\ PublishTypeOK
      BY DEF PublishInv
    <3> DEFINE c == clerk[v]
    <3>3. c \in Clerk /\ Copying(c) /\ Informed(c) /\ clerk'[v] = c
      BY <3>1, <3>2
    <3> HIDE DEF c
    <3>4. \A x \in Clerk : Copying(x) /\ Informed(x) => Copying(x)' /\ Informed(x)'
      BY <1>1, <3>2, StaysInformed
    <3> QED BY <3>3, <3>4 DEF Copying, Informed, Told, Reached
  <2> QED BY <2>1, <2>2
<1>3. PublishingIsHeld'
  <2> SUFFICES ASSUME NEW r \in CommentIds, comments'[r] # NoComment,
                      comments'[r].status = "publishing", ~(publishing.breaks > 0)
               PROVE  \E v \in Clerks : clerk'[v].on = r /\ clerk'[v].at \in Underway
    BY DEF PublishingIsHeld, Existing
  <2>1. CASE Holds(s, r)
    BY <2>1 DEF Holds, PublishInv, PublishTypeOK
  <2>2. CASE /\ comments[r] # NoComment /\ comments[r].status = "publishing"
             /\ ~Holds(clerk[w], r)
    <3>1. PICK v \in Clerks : Holds(clerk[v], r)
      BY <2>2 DEF PublishInv, PublishingIsHeld, Existing, Holds
    <3>2. v # w /\ clerk'[v] = clerk[v]
      BY <2>2, <3>1 DEF PublishInv, PublishTypeOK
    <3> QED BY <3>1, <3>2 DEF Holds
  <2> QED BY <2>1, <2>2
<1>4. DoneAfterReached'
  <2>1. \A i \in Items : Reached(i) => Reached(i)'
    BY DEF Reached, Grows
  <2>2. \A r \in CommentIds : r[1] \in Items
    BY DEF CommentIds
  <2>3. \A r \in Existing' : Told(comments[r], r[1])'
    <3> TAKE r \in Existing'
    <3>1. r \in CommentIds /\ comments'[r] # NoComment
      BY DEF Existing
    <3>2. CASE comments'[r] = comments[r]
      <4>1. Told(comments[r], r[1])
        BY <3>1, <3>2 DEF PublishInv, DoneAfterReached, Told, Existing
      <4> QED BY <2>1, <2>2, <3>1, <3>2, <4>1 DEF Told, Grows
    <3> QED BY <3>1, <3>2
  <2>4. course' = "done" => \E i \in Items : Reached(i)'
    BY <2>1 DEF PublishInv, DoneAfterReached
  <2> QED BY <2>3, <2>4 DEF DoneAfterReached, Told
<1> QED BY <1>1, <1>2, <1>3, <1>4 DEF PublishInv

LEMMA RestingSound == Resting \in Clerk /\ Copying(Resting) /\ Informed(Resting)
  BY DEF Resting, NoCopies, Clerk, Courses, CourseEnded, Copying, Informed, Underway, CommentIds

\* Threads that end, what is switched, and what a run becomes.
LEMMA EndsOnly ==
  ASSUME PublishInv,
         clerk' \in [Clerks -> Clerk],
         \A v \in Clerks : clerk'[v] \in {clerk[v], Resting},
         UNCHANGED <<comments, posted, recordedDry>>,
         course' \in Courses, dryRun' \in BOOLEAN,
         course' = "done" => course = "done" \/ \E i \in Items : Reached(i),
         publishing' \in [requests : 0..MaxPublishing, breaks : 0..MaxBreaks],
         \/ publishing'.breaks > 0
         \/ /\ publishing' = publishing
            /\ \A v \in Clerks : clerk[v].at \in Underway => clerk'[v] = clerk[v]
  PROVE  PublishInv'
<1>1. PublishTypeOK'
  BY DEF PublishInv, PublishTypeOK
<1>2. \A v \in Clerks : Copying(clerk[v])' /\ Informed(clerk[v])'
  <2> TAKE v \in Clerks
  <2>1. Copying(clerk'[v]) /\ Informed(clerk'[v])
    BY RestingSound DEF PublishInv
  <2> QED BY <2>1 DEF Copying, Informed, Told, Reached
<1>3. PublishingIsHeld'
  <2> SUFFICES ASSUME NEW r \in CommentIds, comments[r] # NoComment,
                      comments[r].status = "publishing", ~(publishing'.breaks > 0)
               PROVE  \E v \in Clerks : clerk'[v].on = r /\ clerk'[v].at \in Underway
    BY DEF PublishingIsHeld, Existing
  <2> QED BY DEF PublishInv, PublishingIsHeld, Existing
<1>4. DoneAfterReached'
  BY DEF PublishInv, DoneAfterReached, Existing, Reached
<1> QED BY <1>1, <1>2, <1>3, <1>4 DEF PublishInv

-----------------------------------------------------------------------------
(* Publishing: every action keeps the invariant.                          *)

LEMMA TakesKeeps ==
  ASSUME PublishInv, NEW w \in Clerks, NEW s \in Clerk, TakesRequest(w, s), Copying(s), Informed(s)
  PROVE  PublishInv'
<1>1. publishing' \in [requests : 0..MaxPublishing, breaks : 0..MaxBreaks]
      /\ publishing'.breaks = publishing.breaks
  BY PublishingAssumption DEF TakesRequest, PublishInv, PublishTypeOK
<1>2. \A r \in CommentIds : ~Holds(clerk[w], r)
  BY DEF TakesRequest, Doing, Holds, Underway
<1> QED BY <1>1, <1>2, ThreadOnly DEF TakesRequest

\* A row a thread loads is told as it is.
LEMMA LoadedTold ==
  ASSUME PublishInv, NEW r \in Existing
  PROVE  r \in CommentIds /\ comments[r] \in Comment /\ comments[r] # NoComment /\ Told(comments[r], r[1])
  BY DEF PublishInv, PublishTypeOK, DoneAfterReached, Existing, Told

LEMMA PrepareKeeps ==
  ASSUME PublishInv, NEW w \in Clerks, PrepareComments(w)
  PROVE  PublishInv'
<1> DEFINE s == [Resting EXCEPT !.at = "drafting", !.left = Items, !.course = course, !.whole = TRUE]
<1>1. s \in Clerk
  BY RestingSound DEF Clerk, PublishInv, PublishTypeOK
<1>2. Copying(s) /\ Informed(s)
  BY DEF Copying, Informed, Resting, NoCopies, Underway
<1> QED BY <1>1, <1>2, TakesKeeps DEF PrepareComments

LEMMA RegenerateKeeps ==
  ASSUME PublishInv, NEW w \in Clerks, NEW r \in CommentIds, RegenerateComment(w, r)
  PROVE  PublishInv'
<1> DEFINE s == [Resting EXCEPT !.at = "drafting", !.left = {r[1]}, !.mine[r] = comments[r]]
<1>1. r \in Existing /\ r[1] \in Items
  BY DEF RegenerateComment, CommentIds
<1>2. comments[r] \in Comment /\ comments[r] # NoComment /\ Told(comments[r], r[1])
  BY <1>1, LoadedTold
<1>3. s \in Clerk
  BY <1>1, <1>2, RestingSound DEF Clerk
<1>4. Copying(s) /\ Informed(s)
  BY <1>2 DEF Copying, Informed, Resting, NoCopies, Underway
<1> QED BY <1>3, <1>4, TakesKeeps DEF RegenerateComment

LEMMA PublishesKeeps ==
  ASSUME PublishInv, NEW w \in Clerks, NEW rows \in SUBSET Existing, Publishes(w, rows)
  PROVE  PublishInv'
<1> DEFINE s == [Resting EXCEPT !.at = "turn", !.todo = rows,
                   !.mine = [r \in CommentIds |-> IF r \in rows THEN comments[r] ELSE NoComment]]
<1>1. \A r \in rows : r \in CommentIds /\ comments[r] \in Comment /\ comments[r] # NoComment /\ Told(comments[r], r[1])
  BY LoadedTold
<1>2. s \in Clerk
  BY <1>1, RestingSound DEF Clerk
<1>3. Copying(s) /\ Informed(s)
  BY <1>1 DEF Copying, Informed, Resting, Underway
<1> QED BY <1>2, <1>3, TakesKeeps DEF Publishes

LEMMA BuildKeeps ==
  ASSUME PublishInv, NEW w \in Clerks, NEW i \in Items, BuildComment(w, i)
  PROVE  PublishInv'
<1>1. PICK r \in CommentIds :
        clerk' = [clerk EXCEPT ![w].left = @ \ {i}, ![w].todo = @ \cup {r},
                               ![w].mine[r] = IF @ = NoComment THEN comments[r] ELSE @]
  BY DEF BuildComment, CommentIds, Existing
<1> DEFINE s == [clerk[w] EXCEPT !.left = @ \ {i}, !.todo = @ \cup {r},
                                 !.mine[r] = IF @ = NoComment THEN comments[r] ELSE @]
<1>2. clerk[w] \in Clerk /\ comments[r] \in Comment \cup {NoComment} /\ Copying(clerk[w])
      /\ Informed(clerk[w]) /\ clerk[w].at = "drafting"
  BY DEF PublishInv, PublishTypeOK, BuildComment, Doing
<1>3. s \in Clerk /\ s.at = "drafting"
  BY <1>2 DEF Clerk
<1>4. clerk' = [clerk EXCEPT ![w] = s]
  BY <1>1, <1>2 DEF PublishInv, PublishTypeOK, Clerk
<1>5. \A x \in CommentIds : s.mine[x] \in {clerk[w].mine[x], comments[x]}
  BY <1>2 DEF Clerk
<1>6. comments[r] # NoComment => Told(comments[r], r[1])
  BY LoadedTold DEF Existing
<1>7. \A x \in CommentIds : x # r => s.mine[x] = clerk[w].mine[x]
  BY <1>2 DEF Clerk
<1>8. Copying(s) /\ Informed(s)
  BY <1>2, <1>3, <1>5, <1>6, <1>7 DEF Copying, Informed, Underway
<1>9. \A x \in CommentIds : ~Holds(clerk[w], x)
  BY <1>2 DEF Holds, Underway
<1> QED BY <1>3, <1>4, <1>8, <1>9, ThreadOnly DEF BuildComment, PublishInv, PublishTypeOK

LEMMA SummarizeFailsKeeps ==
  ASSUME PublishInv, NEW w \in Clerks, SummarizeFails(w)
  PROVE  PublishInv'
<1>1. \A x \in CommentIds : ~Holds(clerk[w], x)
  BY DEF SummarizeFails, Doing, Holds, Underway
<1> QED BY <1>1, RestingSound, ThreadOnly DEF SummarizeFails, PublishInv, PublishTypeOK

LEMMA SaveKeeps ==
  ASSUME PublishInv, NEW w \in Clerks, SaveDrafts(w)
  PROVE  PublishInv'
<1> PICK s : s = IF clerk[w].whole THEN [Resting EXCEPT !.at = "staging", !.course = clerk[w].course] ELSE Resting
  OBVIOUS
<1>1. clerk[w] \in Clerk /\ clerk[w].at = "drafting" /\ Copying(clerk[w]) /\ Informed(clerk[w])
      /\ clerk' = [clerk EXCEPT ![w] = s]
  BY DEF PublishInv, PublishTypeOK, SaveDrafts, Doing
<1>2. s \in Clerk
  BY <1>1, RestingSound DEF Clerk
<1>3. Copying(s)' /\ Informed(s)'
  BY DEF Copying, Informed, Resting, NoCopies, Underway
<1>4. \A r \in CommentIds : comments'[r] = comments[r] \/
        /\ comments'[r] \in Comment /\ comments'[r] # NoComment /\ Told(comments'[r], r[1])
        /\ comments'[r].status = "publishing" =>
             comments[r] # NoComment /\ comments[r].status = "publishing"
  <2> SUFFICES ASSUME NEW r \in CommentIds, r \in clerk[w].todo
               PROVE  /\ comments'[r] \in Comment /\ comments'[r] # NoComment
                      /\ Told(comments'[r], r[1])
                      /\ comments'[r].status = "publishing" =>
                           comments[r] # NoComment /\ comments[r].status = "publishing"
    BY DEF SaveDrafts
  <2> DEFINE was == clerk[w].mine[r]
  <2>1. was \in Comment \cup {NoComment} /\ r[1] \in Items /\ posted[r[1]] \in Nat
    BY <1>1 DEF Clerk, CommentIds, PublishInv, PublishTypeOK
  <2>2. CASE was = NoComment
    <3>1. comments'[r] = NewDraft
      BY <2>2 DEF SaveDrafts
    <3>2. NewDraft \in Comment /\ NewDraft.status = "draft" /\ NewDraft.ext = 0
      BY DEF NewDraft, Comment
    <3> QED BY <2>1, <3>1, <3>2, PublishingAssumption DEF Told
  <2>3. CASE was # NoComment
    <3>1. comments'[r] = Written(r, was, Drafted(was))
      BY <2>3 DEF SaveDrafts
    <3>2. was \in Comment /\ comments[r] # NoComment /\ Told(was, r[1])
      BY <1>1, <2>1, <2>3 DEF Copying, Informed
    <3>3. comments[r] \in Comment /\ Told(comments[r], r[1])
      BY <3>2, LoadedTold DEF Existing
    <3>4. Drafted(was) \in Comment /\ Drafted(was).status = "draft" /\ Drafted(was).ext = was.ext
      BY <3>2 DEF Drafted, Comment
    <3>5. /\ Written(r, was, Drafted(was)) \in Comment
          /\ Written(r, was, Drafted(was)).status \in {comments[r].status, "draft"}
          /\ Written(r, was, Drafted(was)).ext \in {comments[r].ext, was.ext}
      BY <3>2, <3>3, <3>4, WrittenTyped
    <3> QED BY <3>1, <3>2, <3>3, <3>5, PublishingAssumption DEF Told
  <2> QED BY <2>2, <2>3
<1>5. comments' \in [CommentIds -> Comment \cup {NoComment}]
  <2>1. DOMAIN comments' = CommentIds /\ comments' = [r \in CommentIds |-> comments'[r]]
    BY DEF SaveDrafts
  <2>2. \A r \in CommentIds : comments[r] \in Comment \cup {NoComment}
    BY DEF PublishInv, PublishTypeOK
  <2> QED BY <1>4, <2>1, <2>2
<1>6. Grows
  BY <1>4 DEF Grows, SaveDrafts, PublishInv, PublishTypeOK
<1>7. UNCHANGED <<posted, recordedDry>> /\ recordedDry' \subseteq Items
  BY DEF SaveDrafts, PublishInv, PublishTypeOK
<1>8. \A r \in CommentIds : comments'[r] # NoComment =>
        comments'[r] = comments[r] \/ Told(comments[r], r[1])'
  BY <1>4, <1>7 DEF Told, Reached
<1>9. \A r \in CommentIds : ~Holds(clerk[w], r)
  BY <1>1 DEF Holds, Underway
<1>10. \A r \in CommentIds : comments'[r] # NoComment /\ comments'[r].status = "publishing" =>
        comments[r] # NoComment /\ comments[r].status = "publishing" /\ ~Holds(clerk[w], r)
  BY <1>4, <1>9
<1>11. UNCHANGED <<posted, course, dryRun, publishing>>
  BY DEF SaveDrafts
<1> QED BY <1>1, <1>2, <1>3, <1>5, <1>6, <1>7, <1>8, <1>10, <1>11, Commit

\* A request writes the columns of one row, and does not hold it afterwards, or
\* holds it as publishing.
LEMMA RowKeeps ==
  ASSUME PublishInv, NEW w \in Clerks, NEW s \in Clerk, NEW r \in CommentIds,
         clerk' = [clerk EXCEPT ![w] = s],
         comments[r] # NoComment, NEW was \in Comment, NEW will \in Comment,
         comments' = [comments EXCEPT ![r] = Written(r, was, will)],
         recordedDry \subseteq recordedDry', recordedDry' \subseteq Items,
         UNCHANGED <<posted, course, dryRun, publishing>>,
         Copying(s), Informed(s)', Told(will, r[1])',
         \A x \in CommentIds \ {r} : ~Holds(clerk[w], x),
         Holds(s, r) \/ (Written(r, was, will).status = "publishing"
                         => comments[r].status = "publishing" /\ ~Holds(clerk[w], r))
  PROVE  PublishInv'
<1> DEFINE new == Written(r, was, will)
<1>1. comments[r] \in Comment /\ Told(comments[r], r[1]) /\ r[1] \in Items
  BY LoadedTold DEF Existing, CommentIds
<1>2. new \in Comment /\ new.status \in {comments[r].status, will.status}
      /\ new.ext \in {comments[r].ext, will.ext}
  BY <1>1, WrittenTyped
<1> HIDE DEF new
<1>3. new # NoComment /\ comments' = [comments EXCEPT ![r] = new]
  BY <1>2, PublishingAssumption DEF new
<1>4. comments' \in [CommentIds -> Comment \cup {NoComment}]
  BY <1>2, <1>3 DEF PublishInv, PublishTypeOK
<1>5. Grows
  BY <1>3 DEF Grows, PublishInv, PublishTypeOK
<1>6. Copying(s)'
  BY <1>5 DEF Copying, Grows
<1>7. Told(comments[r], r[1])'
  <2>1. comments'[r] = new
    BY <1>3 DEF PublishInv, PublishTypeOK
  <2> QED BY <1>1, <1>2, <2>1 DEF Told, Reached
<1>8. \A x \in CommentIds : comments'[x] # NoComment => comments'[x] = comments[x] \/ Told(comments[x], x[1])'
  BY <1>3, <1>7 DEF PublishInv, PublishTypeOK
<1>9. \A x \in CommentIds : comments'[x] # NoComment /\ comments'[x].status = "publishing" =>
        \/ Holds(s, x)
        \/ /\ comments[x] # NoComment /\ comments[x].status = "publishing" /\ ~Holds(clerk[w], x)
  <2> TAKE x \in CommentIds
  <2>1. CASE x # r
    BY <1>3, <2>1 DEF PublishInv, PublishTypeOK
  <2>2. CASE x = r
    BY <1>3, <2>2 DEF PublishInv, PublishTypeOK, new
  <2> QED BY <2>1, <2>2
<1> QED BY <1>4, <1>5, <1>6, <1>8, <1>9, Commit

LEMMA EditKeeps ==
  ASSUME PublishInv, NEW r \in CommentIds, NEW target \in BOOLEAN, EditComment(r, target)
  PROVE  PublishInv'
<1>1. PICK w \in Clerks : r[2] = w
  BY DEF CommentIds
<1> PICK s : s = clerk[w]
  OBVIOUS
<1>2. s \in Clerk /\ clerk' = [clerk EXCEPT ![w] = s] /\ Copying(s) /\ Informed(s) /\ PublishTypeOK
  BY DEF PublishInv, PublishTypeOK, EditComment
<1>3. comments[r] \in Comment /\ comments[r] # NoComment /\ Told(comments[r], r[1])
  BY LoadedTold DEF EditComment
<1> DEFINE new == [comments[r] EXCEPT !.target = target]
<1>4. new \in Comment /\ new.status = comments[r].status /\ new.ext = comments[r].ext /\ new # NoComment
  BY <1>3, PublishingAssumption DEF Comment
<1>5. comments' = [comments EXCEPT ![r] = new] /\ comments' \in [CommentIds -> Comment \cup {NoComment}]
  BY <1>4 DEF EditComment, PublishInv, PublishTypeOK
<1>6. Grows /\ recordedDry' \subseteq Items /\ UNCHANGED <<posted, course, dryRun, publishing, recordedDry>>
  BY <1>4 DEF EditComment, Grows, PublishInv, PublishTypeOK
<1>7. Copying(s)' /\ Informed(s)'
  <2>1. Copying(s)'
    BY <1>2, <1>6 DEF Copying, Grows
  <2> QED BY <1>2, <1>6, <2>1 DEF Informed, Told, Reached
<1>8. comments'[r] = new /\ \A x \in CommentIds : x # r => comments'[x] = comments[x]
  BY <1>5 DEF PublishInv, PublishTypeOK
<1>9. \A x \in CommentIds : comments'[x] # NoComment =>
        comments'[x] = comments[x] \/ Told(comments[x], x[1])'
  BY <1>3, <1>4, <1>6, <1>8 DEF Told, Reached
<1>10. \A x \in CommentIds : comments'[x] # NoComment /\ comments'[x].status = "publishing" =>
         \/ Holds(s, x)
         \/ /\ comments[x] # NoComment /\ comments[x].status = "publishing" /\ ~Holds(clerk[w], x)
  BY <1>3, <1>4, <1>8
<1> QED BY <1>2, <1>5, <1>6, <1>7, <1>9, <1>10, Commit

LEMMA MarkKeeps ==
  ASSUME PublishInv, NEW w \in Clerks, NEW r \in CommentIds, MarkPublishing(w, r)
  PROVE  PublishInv'
<1> PICK was : was = clerk[w].mine[r]
  OBVIOUS
<1> DEFINE will == [was EXCEPT !.status = "publishing"]
<1> PICK s : s = [clerk[w] EXCEPT !.at = "marked", !.on = r, !.todo = @ \ {r}, !.mine[r] = will]
  OBVIOUS
<1>1. clerk[w] \in Clerk /\ clerk[w].at = "turn" /\ r \in clerk[w].todo
      /\ Copying(clerk[w]) /\ Informed(clerk[w])
  BY DEF PublishInv, PublishTypeOK, MarkPublishing, Doing
<1>2. was \in Comment /\ comments[r] # NoComment /\ Told(was, r[1])
  BY <1>1 DEF Copying, Informed, Clerk
<1>3. will \in Comment /\ will.status = "publishing" /\ will.ext = was.ext /\ will # NoComment
  BY <1>2, PublishingAssumption DEF Comment
<1> HIDE DEF will
<1>4. s \in Clerk /\ s.at = "marked" /\ s.on = r /\ s.todo \subseteq clerk[w].todo /\ s.got = clerk[w].got
      /\ s.mine[r] = will /\ \A x \in CommentIds : x # r => s.mine[x] = clerk[w].mine[x]
  BY <1>1, <1>3 DEF Clerk, Underway
<1>5. clerk' = [clerk EXCEPT ![w] = s]
  BY <1>1 DEF MarkPublishing, CommitsRow, PublishInv, PublishTypeOK, Clerk, will
<1>6. comments' = [comments EXCEPT ![r] = Written(r, was, will)]
  BY DEF MarkPublishing, CommitsRow, will
<1>7. UNCHANGED <<posted, course, dryRun, recordedDry, publishing>> /\ recordedDry \subseteq Items
  BY DEF MarkPublishing, PublishInv, PublishTypeOK
<1>8. Copying(s)
  BY <1>1, <1>2, <1>3, <1>4 DEF Copying, Underway
<1>9. Told(will, r[1])'
  BY <1>2, <1>3, <1>7 DEF Told, Reached
<1>10. Informed(s)'
  BY <1>1, <1>2, <1>3, <1>4, <1>7 DEF Informed, Told, Reached, Underway
<1>11. Holds(s, r) /\ \A x \in CommentIds : ~Holds(clerk[w], x)
  BY <1>1, <1>4 DEF Holds, Underway
<1> QED BY <1>2, <1>3, <1>4, <1>5, <1>6, <1>7, <1>8, <1>9, <1>10, <1>11, RowKeeps

\* The last commit of a row: what it says of the provider is so.
LEMMA ConcludedKeeps ==
  ASSUME PublishInv, NEW w \in Clerks, NEW outcome \in Comment, clerk[w].at \in Underway,
         NEW i \in Items, i = clerk[w].on[1],
         Concluded(w, outcome), outcome.status \in Settled, Told(outcome, i)',
         recordedDry \subseteq recordedDry', recordedDry' \subseteq Items,
         UNCHANGED <<posted, course, dryRun, publishing>>
  PROVE  PublishInv'
<1> PICK r : r = clerk[w].on
  OBVIOUS
<1> PICK was : was = clerk[w].mine[r]
  OBVIOUS
<1> PICK new : new = Written(r, was, outcome)
  OBVIOUS
<1> PICK s : s = [clerk[w] EXCEPT !.at = "turn", !.on = NoComment, !.got = 0, !.mine[r] = new]
  OBVIOUS
<1>1. clerk[w] \in Clerk /\ Copying(clerk[w]) /\ Informed(clerk[w])
  BY DEF PublishInv, PublishTypeOK
<1>2. r \in CommentIds /\ was \in Comment /\ was.status = "publishing" /\ comments[r] # NoComment
  BY <1>1 DEF Copying, Clerk
<1>3. comments[r] \in Comment /\ Told(comments[r], r[1]) /\ r[1] \in Items
  BY <1>2, LoadedTold DEF Existing, CommentIds
<1>4. new \in Comment /\ new.status = outcome.status /\ new.ext \in {comments[r].ext, outcome.ext}
  BY <1>2, <1>3, WrittenTyped DEF Settled
<1>5. new # NoComment /\ new.status # "publishing"
  BY <1>4, PublishingAssumption DEF Settled
<1>6. s \in Clerk /\ s.at = "turn" /\ s.todo = clerk[w].todo /\ s.mine[r] = new
      /\ \A x \in CommentIds : x # r => s.mine[x] = clerk[w].mine[x]
  BY <1>1, <1>2, <1>4 DEF Clerk
<1>7. clerk' = [clerk EXCEPT ![w] = s]
  BY <1>1, <1>2 DEF Concluded, PublishInv, PublishTypeOK, Clerk
<1>8. comments' = [comments EXCEPT ![r] = Written(r, was, outcome)]
  BY DEF Concluded
<1>9. Copying(s)
  BY <1>1, <1>2, <1>5, <1>6 DEF Copying, Underway
<1>10. Told(outcome, r[1])'
  BY DEF Told, Reached
<1>11. Told(new, r[1])'
  BY <1>3, <1>4, <1>10 DEF Told, Reached
<1>12. Informed(s)'
  <2>1. \A x \in CommentIds : s.mine[x] # NoComment => Told(s.mine[x], x[1])'
    BY <1>1, <1>6, <1>11 DEF Informed, Told, Reached
  <2> QED BY <1>6, <2>1 DEF Informed
<1>13. \A x \in CommentIds \ {r} : ~Holds(clerk[w], x)
  BY DEF Holds
<1> QED BY <1>2, <1>4, <1>5, <1>6, <1>7, <1>8, <1>9, <1>10, <1>12, <1>13, RowKeeps

LEMMA OnHandTyped ==
  ASSUME PublishInv, NEW w \in Clerks, clerk[w].at \in Underway
  PROVE  /\ OnHand(w) \in Comment /\ clerk[w].on[1] \in Items /\ clerk[w].got \in Nat
         /\ Told(OnHand(w), clerk[w].on[1])
         /\ clerk[w].at = "landed" => clerk[w].got <= posted[clerk[w].on[1]] /\ posted[clerk[w].on[1]] > 0
  BY DEF PublishInv, PublishTypeOK, Copying, Informed, OnHand, Clerk, CommentIds

LEMMA RecordDryKeeps ==
  ASSUME PublishInv, NEW w \in Clerks, RecordDry(w)
  PROVE  PublishInv'
<1> PICK outcome : outcome = [OnHand(w) EXCEPT !.status = "published", !.ext = 0]
  OBVIOUS
<1>1. clerk[w].at \in Underway
  BY DEF RecordDry, Doing, Underway
<1>2. outcome \in Comment /\ outcome.status = "published" /\ outcome.ext = 0 /\ clerk[w].on[1] \in Items
  BY <1>1, OnHandTyped DEF Comment
<1> PICK i : i = clerk[w].on[1]
  OBVIOUS
<1>3. recordedDry' = recordedDry \cup {i} /\ recordedDry' \subseteq Items
      /\ posted' = posted /\ posted[i] \in Nat
  BY <1>2 DEF RecordDry, PublishInv, PublishTypeOK
<1>4. Told(outcome, i)'
  BY <1>2, <1>3 DEF Told, Reached
<1>5. Concluded(w, outcome) /\ UNCHANGED <<posted, course, dryRun, publishing>>
  BY DEF RecordDry
<1> QED BY <1>1, <1>2, <1>3, <1>4, <1>5, ConcludedKeeps DEF Settled

LEMMA LandKeeps ==
  ASSUME PublishInv, NEW w \in Clerks, LandComment(w)
  PROVE  PublishInv'
<1> PICK outcome : outcome = [OnHand(w) EXCEPT !.status = "published", !.ext = clerk[w].got]
  OBVIOUS
<1> PICK i : i = clerk[w].on[1]
  OBVIOUS
<1>1. clerk[w].at \in Underway /\ clerk[w].at = "landed"
  BY DEF LandComment, Doing, Underway
<1>2. outcome \in Comment /\ outcome.status = "published" /\ outcome.ext <= posted[i] /\ posted[i] > 0
      /\ i \in Items
  BY <1>1, OnHandTyped DEF Comment
<1>3. UNCHANGED <<posted, recordedDry>> /\ recordedDry \subseteq Items
  BY DEF LandComment, PublishInv, PublishTypeOK
<1>4. Told(outcome, i)'
  BY <1>2, <1>3 DEF Told, Reached
<1>5. Concluded(w, outcome) /\ UNCHANGED <<posted, course, dryRun, publishing>>
  BY DEF LandComment
<1> QED BY <1>1, <1>2, <1>3, <1>4, <1>5, ConcludedKeeps DEF Settled

LEMMA FailKeeps ==
  ASSUME PublishInv, NEW w \in Clerks, FailComment(w)
  PROVE  PublishInv'
<1> PICK outcome : outcome = [OnHand(w) EXCEPT !.status = "failed"]
  OBVIOUS
<1> PICK i : i = clerk[w].on[1]
  OBVIOUS
<1>1. clerk[w].at \in Underway
  BY DEF FailComment, Doing, Underway
<1>2. outcome \in Comment /\ outcome.status = "failed" /\ outcome.ext <= posted[i] /\ i \in Items
  BY <1>1, OnHandTyped DEF Comment, Told
<1>3. UNCHANGED <<posted, recordedDry>> /\ recordedDry \subseteq Items
  BY DEF FailComment, PublishInv, PublishTypeOK
<1>4. Told(outcome, i)'
  BY <1>2, <1>3 DEF Told
<1>5. Concluded(w, outcome) /\ UNCHANGED <<posted, course, dryRun, publishing>>
  BY DEF FailComment
<1> QED BY <1>1, <1>2, <1>3, <1>4, <1>5, ConcludedKeeps DEF Settled

LEMMA GoesLiveKeeps ==
  ASSUME PublishInv, NEW w \in Clerks, GoesLive(w)
  PROVE  PublishInv'
<1> PICK s : s = [clerk[w] EXCEPT !.at = "cleared"]
  OBVIOUS
<1>1. clerk[w] \in Clerk /\ Copying(clerk[w]) /\ Informed(clerk[w]) /\ clerk[w].at = "marked"
  BY DEF PublishInv, PublishTypeOK, GoesLive, Doing
<1>2. s \in Clerk /\ s.at = "cleared" /\ s.mine = clerk[w].mine /\ s.todo = clerk[w].todo
      /\ s.on = clerk[w].on
  BY <1>1 DEF Clerk, Underway
<1>3. Copying(s) /\ Informed(s)
  BY <1>1, <1>2 DEF Copying, Informed, Underway
<1>4. clerk' = [clerk EXCEPT ![w] = s]
  BY <1>1 DEF GoesLive, PublishInv, PublishTypeOK, Clerk
<1>5. \A r \in CommentIds : Holds(clerk[w], r) => Holds(s, r)
  BY <1>2 DEF Holds, Underway
<1> QED BY <1>2, <1>3, <1>4, <1>5, ThreadOnly DEF GoesLive, PublishInv, PublishTypeOK

LEMMA MoveKeeps ==
  ASSUME PublishInv, NEW w \in Clerks, MoveItem(w)
  PROVE  PublishInv'
<1>1. PICK at \in {"landed", "erred"} : clerk' = [clerk EXCEPT ![w].at = at]
  BY DEF MoveItem
<1> PICK s : s = [clerk[w] EXCEPT !.at = at]
  OBVIOUS
<1>2. clerk[w] \in Clerk /\ Copying(clerk[w]) /\ Informed(clerk[w]) /\ clerk[w].at = "moving"
  BY DEF PublishInv, PublishTypeOK, MoveItem, Doing
<1>3. s \in Clerk /\ s.at = at /\ s.mine = clerk[w].mine /\ s.todo = clerk[w].todo
      /\ s.on = clerk[w].on /\ s.got = clerk[w].got
  BY <1>2 DEF Clerk, Underway
<1>4. Copying(s) /\ Informed(s)
  BY <1>2, <1>3 DEF Copying, Informed, Underway
<1>5. clerk' = [clerk EXCEPT ![w] = s]
  BY <1>1, <1>2 DEF PublishInv, PublishTypeOK, Clerk
<1>6. \A r \in CommentIds : Holds(clerk[w], r) => Holds(s, r)
  BY <1>3 DEF Holds, Underway
<1> QED BY <1>3, <1>4, <1>5, <1>6, ThreadOnly DEF MoveItem, PublishInv, PublishTypeOK

LEMMA FinishingKeeps ==
  ASSUME PublishInv, NEW w \in Clerks, MaybeFinishRun(w)
  PROVE  PublishInv'
<1> PICK s : s = IF AllTold(Seen(w)) THEN [Resting EXCEPT !.at = "finishing", !.course = course] ELSE Resting
  OBVIOUS
<1>1. clerk[w] \in Clerk /\ Informed(clerk[w]) /\ clerk[w].at = "turn" /\ clerk' = [clerk EXCEPT ![w] = s]
  BY DEF PublishInv, PublishTypeOK, MaybeFinishRun, Doing
<1>2. s \in Clerk
  BY RestingSound DEF Clerk, PublishInv, PublishTypeOK
<1>3. AllTold(Seen(w)) => \E i \in Items : Reached(i)
  <2> SUFFICES ASSUME AllTold(Seen(w)) PROVE \E i \in Items : Reached(i)
    OBVIOUS
  <2>1. PICK r \in Existing : Seen(w)[r].status = "published"
    BY DEF AllTold, Seen
  <2>2. Seen(w)[r] = IF clerk[w].mine[r] = NoComment THEN comments[r] ELSE clerk[w].mine[r]
    BY DEF Seen
  <2>3. Told(Seen(w)[r], r[1]) /\ r[1] \in Items
    BY <1>1, <2>2, LoadedTold DEF Informed, Existing, CommentIds
  <2> QED BY <2>1, <2>3 DEF Told
<1>4. Copying(s) /\ Informed(s)
  BY <1>3, RestingSound DEF Copying, Informed, Resting, NoCopies, Underway
<1>5. \A r \in CommentIds : ~Holds(clerk[w], r)
  BY <1>1 DEF Holds, Underway
<1> QED BY <1>1, <1>2, <1>4, <1>5, ThreadOnly DEF MaybeFinishRun, PublishInv, PublishTypeOK

LEMMA PostKeeps ==
  ASSUME PublishInv, NEW w \in Clerks, NEW there \in BOOLEAN, NEW answered \in BOOLEAN,
         PostComment(w, there, answered)
  PROVE  PublishInv'
<1> PICK i : i = clerk[w].on[1]
  OBVIOUS
<1>1. clerk[w] \in Clerk /\ Copying(clerk[w]) /\ Informed(clerk[w]) /\ clerk[w].at = "cleared" /\ PublishTypeOK
  BY DEF PublishInv, PublishTypeOK, PostComment, Doing
<1>2. i \in Items /\ posted[i] \in Nat /\ clerk[w].on \in CommentIds
  BY <1>1 DEF Copying, Underway, CommentIds, PublishTypeOK
<1> PICK at : at = IF ~answered THEN "erred" ELSE IF OnHand(w).target THEN "moving" ELSE "landed"
  OBVIOUS
<1> PICK got : got = IF answered THEN posted[i] + 1 ELSE 0
  OBVIOUS
<1> PICK s : s = [clerk[w] EXCEPT !.at = at, !.got = got]
  OBVIOUS
<1>a. at \in {"erred", "moving", "landed"}
  OBVIOUS
<1>b. got \in Nat
  BY <1>2
<1>3. s \in Clerk /\ s.at = at /\ s.mine = clerk[w].mine /\ s.todo = clerk[w].todo
      /\ s.on = clerk[w].on /\ s.got = got
  BY <1>1, <1>2, <1>a, <1>b DEF Clerk, Underway
<1>4. clerk' = [clerk EXCEPT ![w] = s]
  BY <1>1 DEF PostComment, PublishTypeOK, Clerk
<1>5. posted' = (IF there THEN [posted EXCEPT ![i] = @ + 1] ELSE posted) /\ (answered => there)
      /\ UNCHANGED <<comments, course, dryRun, recordedDry, publishing>>
  BY DEF PostComment
<1>6. PublishTypeOK' /\ Grows
  BY <1>1, <1>2, <1>3, <1>4, <1>5 DEF PublishTypeOK, Grows
<1>7. Copying(s)'
  BY <1>1, <1>3, <1>5 DEF Copying, Underway
<1>8. Informed(s)'
  <2>1. \A x \in Clerk : Copying(x) /\ Informed(x) => Copying(x)' /\ Informed(x)'
    BY <1>1, <1>6, StaysInformed
  <2>2. \A r \in CommentIds : s.mine[r] # NoComment => Told(s.mine[r], r[1])'
    <3> PICK c : c = clerk[w]
      OBVIOUS
    <3>1. Informed(c)'
      BY <1>1, <2>1
    <3> QED BY <1>3, <3>1 DEF Informed
  <2>3. at \in {"moving", "landed"} => answered
    OBVIOUS
  <2>4. answered => posted'[i] = posted[i] + 1
    BY <1>2, <1>5 DEF PublishTypeOK, PublishInv
  <2>5. at # "finishing"
    OBVIOUS
  <2> QED BY <1>2, <1>3, <2>2, <2>3, <2>4, <2>5 DEF Informed
<1>9. \A v \in Clerks : Copying(clerk[v])' /\ Informed(clerk[v])'
  <2> TAKE v \in Clerks
  <2> PICK c : c = clerk'[v]
    OBVIOUS
  <2>1. c = s \/ (c = clerk[v] /\ c \in Clerk /\ Copying(c) /\ Informed(c))
    BY <1>1, <1>4 DEF PublishInv, PublishTypeOK
  <2>2. \A x \in Clerk : Copying(x) /\ Informed(x) => Copying(x)' /\ Informed(x)'
    BY <1>1, <1>6, StaysInformed
  <2>3. Copying(c)' /\ Informed(c)'
    BY <1>7, <1>8, <2>1, <2>2
  <2> QED BY <2>3 DEF Copying, Informed, Told, Reached
<1>10. PublishingIsHeld'
  <2>1. \A v \in Clerks, r \in CommentIds : Holds(clerk[v], r) => Holds(clerk'[v], r)
    BY <1>1, <1>3, <1>4 DEF Holds, Underway, PublishTypeOK
  <2> QED BY <1>5, <2>1 DEF PublishInv, PublishingIsHeld, Existing, Holds
<1>11. DoneAfterReached'
  <2>1. \A x \in Items : posted[x] \in Nat /\ posted'[x] \in Nat /\ posted[x] <= posted'[x]
    BY <1>1, <1>6 DEF PublishTypeOK, Grows
  <2>2. \A x \in Items : Reached(x) => Reached(x)'
    BY <1>5, <2>1 DEF Reached
  <2>3. \A r \in Existing : comments[r].ext \in Nat /\ r[1] \in Items
    BY LoadedTold DEF Comment, CommentIds
  <2>4. Existing' = Existing
    BY <1>5 DEF Existing
  <2> QED BY <1>5, <2>1, <2>2, <2>3, <2>4 DEF PublishInv, DoneAfterReached
<1> QED BY <1>6, <1>9, <1>10, <1>11 DEF PublishInv

LEMMA EndsKeep ==
  ASSUME PublishInv,
         \/ \E w \in Clerks : EntersComment(w) \/ FinishRun(w) \/ RequestDies(w)
         \/ CancelCourse \/ SwitchDryRun \/ ServerRestarts
  PROVE  PublishInv'
<1> USE DEF PublishInv, PublishTypeOK
<1>1. ASSUME NEW w \in Clerks, EntersComment(w) PROVE PublishInv'
  <2>1. clerk[w].at = "staging" /\ clerk' = [clerk EXCEPT ![w] = Resting]
    BY <1>1 DEF EntersComment, Doing
  <2>2. course' \in Courses /\ (course' = "done" => course = "done")
    BY <1>1 DEF EntersComment, Courses
  <2> QED BY <1>1, <2>1, <2>2, EndsOnly, RestingSound DEF EntersComment, Underway
<1>2. ASSUME NEW w \in Clerks, FinishRun(w) PROVE PublishInv'
  <2>1. clerk[w].at = "finishing" /\ clerk' = [clerk EXCEPT ![w] = Resting]
    BY <1>2 DEF FinishRun, Doing
  <2>2. \E i \in Items : Reached(i)
    BY <2>1 DEF Informed
  <2>3. course' \in Courses
    BY <1>2 DEF FinishRun, Courses, CourseEnded
  <2> QED BY <1>2, <2>1, <2>2, <2>3, EndsOnly, RestingSound DEF FinishRun, Underway
<1>3. CASE CancelCourse
  BY <1>3, EndsOnly DEF CancelCourse, Courses, CourseEnded
<1>4. CASE SwitchDryRun
  BY <1>4, EndsOnly DEF SwitchDryRun
<1>5. ASSUME NEW some \in SUBSET Clerks, Breaks(some) PROVE PublishInv'
  <2>1. clerk' \in [Clerks -> Clerk] /\ \A v \in Clerks : clerk'[v] \in {clerk[v], Resting}
    BY <1>5, RestingSound DEF Breaks
  <2>2. publishing' \in [requests : 0..MaxPublishing, breaks : 0..MaxBreaks] /\ publishing'.breaks > 0
    BY <1>5, PublishingAssumption DEF Breaks
  <2> QED BY <1>5, <2>1, <2>2, EndsOnly DEF Breaks
<1> QED BY <1>1, <1>2, <1>3, <1>4, <1>5 DEF RequestDies, ServerRestarts

LEMMA ClerkStepKeeps ==
  ASSUME PublishInv, NEW w \in Clerks, ClerkStep(w)
  PROVE  PublishInv'
<1>1. CASE PrepareComments(w) \/ SummarizeFails(w) \/ SaveDrafts(w) \/ EntersComment(w)
  BY <1>1, PrepareKeeps, SummarizeFailsKeeps, SaveKeeps, EndsKeep
<1>2. CASE PublishComment(w) \/ PublishComments(w) \/ RetryComments(w)
  <2>1. PICK rows \in SUBSET Existing : Publishes(w, rows)
    BY <1>2 DEF PublishComment, PublishComments, RetryComments
  <2> QED BY <2>1, PublishesKeeps
<1>3. CASE RecordDry(w) \/ GoesLive(w) \/ MoveItem(w) \/ LandComment(w) \/ FailComment(w)
  BY <1>3, RecordDryKeeps, GoesLiveKeeps, MoveKeeps, LandKeeps, FailKeeps
<1>4. CASE MaybeFinishRun(w) \/ FinishRun(w) \/ RequestDies(w)
  BY <1>4, FinishingKeeps, EndsKeep
<1>5. CASE \E r \in CommentIds : RegenerateComment(w, r) \/ MarkPublishing(w, r)
  BY <1>5, RegenerateKeeps, MarkKeeps
<1>6. CASE \E i \in Items : BuildComment(w, i)
  BY <1>6, BuildKeeps
<1>7. CASE \E there, answered \in BOOLEAN : PostComment(w, there, answered)
  BY <1>7, PostKeeps
<1> QED BY <1>1, <1>2, <1>3, <1>4, <1>5, <1>6, <1>7 DEF ClerkStep

LEMMA PublishInductive == PublishSpec => []PublishInv
<1>1. PublishInit => PublishInv
  <2> SUFFICES ASSUME PublishInit PROVE PublishInv
    OBVIOUS
  <2>1. PublishTypeOK
    BY RestingSound, PublishingAssumption DEF PublishInit, PublishTypeOK, NoCopies, Courses, CourseEnded
  <2>2. \A w \in Clerks : Copying(clerk[w]) /\ Informed(clerk[w])
    BY RestingSound DEF PublishInit
  <2>3. Existing = {}
    BY DEF Existing, PublishInit, NoCopies
  <2> QED BY <2>1, <2>2, <2>3 DEF PublishInv, PublishingIsHeld, DoneAfterReached, PublishInit
<1>2. PublishInv /\ [PublishNext]_commentVars => PublishInv'
  <2> SUFFICES ASSUME PublishInv, [PublishNext]_commentVars PROVE PublishInv'
    OBVIOUS
  <2>1. CASE \E w \in Clerks : ClerkStep(w)
    BY <2>1, ClerkStepKeeps
  <2>2. CASE \E r \in CommentIds, target \in BOOLEAN : EditComment(r, target)
    BY <2>2, EditKeeps
  <2>3. CASE CancelCourse \/ SwitchDryRun \/ ServerRestarts
    BY <2>3, EndsKeep
  <2>4. CASE UNCHANGED commentVars
    BY <2>4 DEF commentVars, PublishInv, PublishTypeOK, Copying, Informed, Told, Reached,
                PublishingIsHeld, DoneAfterReached, Existing
  <2> QED BY <2>1, <2>2, <2>3, <2>4 DEF PublishNext
<1> QED BY <1>1, <1>2, PTL DEF PublishSpec

\* Every reachable state of the publishing is well typed.
THEOREM PublishTyping == PublishSpec => []PublishTypeOK
<1>1. PublishInv => PublishTypeOK
  BY DEF PublishInv
<1> QED BY <1>1, PublishInductive, PTL

\* A row says "publishing" only under a request, or after a break.
THEOREM PublishingHeld == PublishSpec => []PublishingIsHeld
<1>1. PublishInv => PublishingIsHeld
  BY DEF PublishInv
<1> QED BY <1>1, PublishInductive, PTL

\* What says published was published or recorded dry, and only then is a run
\* done.
THEOREM DoneReached == PublishSpec => []DoneAfterReached
<1>1. PublishInv => DoneAfterReached
  BY DEF PublishInv
<1> QED BY <1>1, PublishInductive, PTL
-----------------------------------------------------------------------------
(* Tickets: the invariant.                                                *)

\* Rows carry the numbers of visits that are over.
Numbers ==
  /\ \A v \in Visitors : visit[v].no <= tally.visits
  /\ \A u, v \in Visitors : u # v /\ visit[u].no = visit[v].no => visit[u].no = 0
  /\ \A r \in TicketRows : r[2] <= tally.visits /\ \A u \in Visitors : visit[u].no # r[2]

\* What the Hub has listed all along has been read or is still ahead.
Ahead(w) ==
  \A i \in w.steady : i \in Listed(w.pages) \/ \E q \in 1..Len(listing) : q > Len(w.pages) /\ listing[q] = i

\* What a thread will delete is an old row of the Hub, that runs did not name
\* and the Hub did not list all along.
Doomed(w) ==
  \A r \in w.doomed :
    /\ r[1] \notin w.named \cup w.steady
    /\ r[2] <= tally.visits /\ \A u \in Visitors : visit[u].no # r[2]
    /\ tickets[r] # NoTicket => tickets[r].hub

Walks(w) ==
  /\ w.at = "walking" => ~w.whole /\ Ahead(w)
  /\ w.at = "merging" /\ w.whole => w.steady \subseteq Listed(w.pages)
  /\ w.at = "committing" => Doomed(w)

TicketsInv ==
  /\ TicketsTypeOK
  /\ Numbers
  /\ \A v \in Visitors : Walks(visit[v])

LEMMA RowIds ==
  ASSUME NEW r \in TicketIds
  PROVE  r[1] \in WorkItems /\ r[2] \in 1..MaxVisits /\ r[2] \in Nat /\ r[2] # 0
  BY TicketsAssumption DEF TicketIds

LEMMA AwayTyped == Away \in Visit /\ Away.no = 0 /\ Away.at = "idle"
  BY TicketsAssumption DEF Away, Visit, Steps, Unloaded

LEMMA EndTyped ==
  ASSUME NEW w
  PROVE  EndMirror(w) \in Visit /\ EndMirror(w).no = 0 /\ EndMirror(w).at \in {"idle", "mirrored"}
<1>1. [Away EXCEPT !.at = "mirrored"] \in Visit /\ [Away EXCEPT !.at = "mirrored"].no = 0
  BY AwayTyped DEF Visit, Steps
<1>2. [Away EXCEPT !.at = "mirrored"].at = "mirrored"
  BY AwayTyped DEF Visit
<1>3. CASE w.lists
  BY <1>1, <1>2, <1>3 DEF EndMirror
<1>4. CASE ~w.lists
  BY <1>4, AwayTyped DEF EndMirror
<1> QED BY <1>3, <1>4

LEMMA ListedIn ==
  ASSUME NEW s \in Seq(WorkItems)
  PROVE  Listed(s) \subseteq WorkItems
  BY DEF Listed

LEMMA ListedAppend ==
  ASSUME NEW s \in Seq(WorkItems), NEW x \in WorkItems
  PROVE  Listed(s) \subseteq Listed(Append(s, x)) /\ x \in Listed(Append(s, x))
<1>1. Append(s, x) \in Seq(WorkItems) /\ Len(Append(s, x)) = Len(s) + 1
  OBVIOUS
<1>2. \A p \in 1..Len(s) : Append(s, x)[p] = s[p]
  OBVIOUS
<1>3. Append(s, x)[Len(s) + 1] = x
  OBVIOUS
<1>4. DOMAIN s = 1..Len(s) /\ DOMAIN Append(s, x) = 1..(Len(s) + 1) /\ Len(s) \in Nat
  BY <1>1
<1> QED BY <1>2, <1>3, <1>4 DEF Listed

LEMMA CopiesTyped ==
  ASSUME TicketsTypeOK, NEW rows
  PROVE  Copies(rows) \in [TicketIds -> Ticket \cup {NoTicket}]
  BY DEF Copies, TicketsTypeOK

\* A commit changes of a row what the copy changed.
LEMMA SavedRowSound ==
  ASSUME NEW r \in TicketIds, tickets[r] \in Ticket, NEW was \in Ticket, NEW will \in Ticket,
         will.hub = was.hub, was.content => will.content
  PROVE  /\ SavedRow(r, was, will) \in Ticket
         /\ SavedRow(r, was, will).hub = tickets[r].hub
         /\ tickets[r].content => SavedRow(r, was, will).content
  BY DEF SavedRow, Ticket

\* A step of one thread that leaves the rows and the listing.
LEMMA ThreadMoves ==
  ASSUME TicketsInv, NEW v \in Visitors, NEW s \in Visit, Goes(v, s),
         UNCHANGED <<tickets, connections, listing, inRuns, tally>>,
         s.no \in {0, visit[v].no}, Walks(s)
  PROVE  TicketsInv'
<1>1. TicketsTypeOK'
  BY DEF TicketsInv, TicketsTypeOK, Goes
<1>2. \A u \in Visitors : visit'[u] = (IF u = v THEN s ELSE visit[u])
  BY DEF TicketsInv, TicketsTypeOK, Goes
<1>3. \A u \in Visitors : visit'[u].no \in {0, visit[u].no}
  BY <1>2
<1>4. \A u \in Visitors : visit[u].no \in Nat
  BY TicketsAssumption DEF TicketsInv, TicketsTypeOK, Visit
<1>5. TicketRows' = TicketRows
  BY DEF TicketRows
<1>6. tally.visits \in Nat
  BY TicketsAssumption DEF TicketsInv, TicketsTypeOK
<1>7. Numbers'
  <2>1. \A u \in Visitors : visit'[u].no <= tally'.visits
    BY <1>3, <1>4, <1>6 DEF TicketsInv, Numbers
  <2>2. \A u, x \in Visitors : u # x /\ visit'[u].no = visit'[x].no => visit'[u].no = 0
    BY <1>3 DEF TicketsInv, Numbers
  <2>3. \A r \in TicketRows' : r[2] <= tally'.visits /\ \A u \in Visitors : visit'[u].no # r[2]
    BY <1>3, <1>5, RowIds DEF TicketsInv, Numbers, TicketRows
  <2> QED BY <2>1, <2>2, <2>3 DEF Numbers
<1>8. \A w \in Visit : Walks(w) => Walks(w)'
  <2> SUFFICES ASSUME NEW w \in Visit, Walks(w)
               PROVE  Walks(w)'
    OBVIOUS
  <2>1. Doomed(w) => Doomed(w)'
    <3>1. \A r \in w.doomed : r \in TicketIds
      BY DEF Visit
    <3> QED BY <1>3, <3>1, RowIds DEF Doomed
  <2> QED BY <2>1 DEF Walks, Ahead
<1>9. \A u \in Visitors : Walks(visit'[u])
  BY <1>2 DEF TicketsInv
<1>10. \A u \in Visitors : visit'[u] \in Visit
  BY <1>1 DEF TicketsTypeOK
<1>11. \A u \in Visitors : Walks(visit[u])'
  BY <1>8, <1>9, <1>10
<1> QED BY <1>1, <1>7, <1>11 DEF TicketsInv

\* A request begins, under a new number.
LEMMA VisitBegins ==
  ASSUME TicketsInv, NEW v \in Visitors, tally.visits < MaxVisits, NEW s \in Visit,
         Begins(v, s), s.at \in {"walking", "saving", "filling"}, s.at = "walking" => ~s.whole /\ Ahead(s),
         connections' \in [ConnIds -> {"absent", "local", "mirror", "deleted"}],
         UNCHANGED <<tickets, listing, inRuns>>
  PROVE  TicketsInv'
<1> DEFINE n == tally.visits + 1
           t == [s EXCEPT !.no = n]
<1>1. n \in 1..MaxVisits /\ tally.visits \in Nat /\ tally'.visits = n
      /\ tally' \in [visits : 0..MaxVisits, turns : 0..MaxTurns]
  BY TicketsAssumption DEF TicketsInv, TicketsTypeOK, Begins
<1>2. t \in Visit /\ t.no = n /\ t.at = s.at /\ t.whole = s.whole /\ t.steady = s.steady /\ t.pages = s.pages
  BY <1>1 DEF Visit
<1>3. visit' = [visit EXCEPT ![v] = t]
  BY DEF Begins, Goes
<1> HIDE DEF t
<1>4. TicketsTypeOK'
  BY <1>1, <1>2, <1>3 DEF TicketsInv, TicketsTypeOK
<1>5. \A u \in Visitors : visit'[u] = (IF u = v THEN t ELSE visit[u])
  BY <1>3 DEF TicketsInv, TicketsTypeOK
<1>6. \A u \in Visitors : visit[u].no \in Nat /\ visit[u].no <= tally.visits /\ visit[u] \in Visit
  BY TicketsAssumption DEF TicketsInv, TicketsTypeOK, Visit, Numbers
<1>7. \A r \in TicketIds : r[2] \in Nat /\ r[2] # 0
  BY RowIds
<1>8. Numbers'
  <2>1. \A u \in Visitors : visit'[u].no <= tally'.visits
    BY <1>1, <1>2, <1>5, <1>6
  <2>2. \A u, x \in Visitors : u # x /\ visit'[u].no = visit'[x].no => visit'[u].no = 0
    BY <1>1, <1>2, <1>5, <1>6 DEF TicketsInv, Numbers
  <2>3. \A r \in TicketRows' : r[2] <= tally'.visits /\ \A u \in Visitors : visit'[u].no # r[2]
    BY <1>1, <1>2, <1>5, <1>6, <1>7 DEF TicketsInv, Numbers, TicketRows
  <2> QED BY <2>1, <2>2, <2>3 DEF Numbers
<1>9. \A u \in Visitors : Walks(visit[u])'
  <2> TAKE u \in Visitors
  <2>1. CASE u = v
    <3>1. visit'[u] = t
      BY <1>5, <2>1
    <3>2. t.at = "walking" => ~t.whole /\ Ahead(t)
      BY <1>2 DEF Ahead
    <3> QED BY <1>2, <3>1, <3>2 DEF Walks, Ahead
  <2>2. CASE u # v
    <3>1. visit'[u] = visit[u] /\ Walks(visit[u])
      BY <1>5, <2>2 DEF TicketsInv
    <3>2. Doomed(visit[u]) => Doomed(visit[u])'
      <4> SUFFICES ASSUME Doomed(visit[u]), NEW r \in visit[u].doomed
                   PROVE  /\ r[1] \notin visit[u].named \cup visit[u].steady
                          /\ r[2] <= tally'.visits /\ \A x \in Visitors : visit'[x].no # r[2]
                          /\ tickets'[r] # NoTicket => tickets'[r].hub
        BY <3>1 DEF Doomed
      <4>1. r[2] \in Nat
        BY <1>6, <1>7 DEF Visit
      <4> QED BY <1>1, <1>2, <1>5, <4>1 DEF Doomed
    <3> QED BY <3>1, <3>2 DEF Walks, Ahead
  <2> QED BY <2>1, <2>2
<1> QED BY <1>4, <1>8, <1>9 DEF TicketsInv

\* A step that commits rows of a thread which then is done with its number.
LEMMA RowsCommitted ==
  ASSUME TicketsInv, NEW v \in Visitors, NEW s \in Visit, Goes(v, s), s.no = 0, s.at \in {"idle", "mirrored"},
         tickets' \in [TicketIds -> Ticket \cup {NoTicket}],
         \A r \in TicketIds : tickets'[r] # NoTicket =>
           \/ tickets[r] # NoTicket /\ (tickets[r].hub => tickets'[r].hub)
           \/ r[2] = visit[v].no,
         UNCHANGED <<connections, listing, inRuns, tally>>
  PROVE  TicketsInv'
<1>1. TicketsTypeOK'
  BY DEF TicketsInv, TicketsTypeOK, Goes
<1>2. \A u \in Visitors : visit'[u] = (IF u = v THEN s ELSE visit[u])
  BY DEF TicketsInv, TicketsTypeOK, Goes
<1>3. \A u \in Visitors : visit[u].no \in Nat /\ visit[u].no <= tally.visits /\ visit[u] \in Visit
  BY TicketsAssumption DEF TicketsInv, TicketsTypeOK, Visit, Numbers
<1>4. \A r \in TicketIds : r[2] \in Nat /\ r[2] # 0
  BY RowIds
<1>5. tally.visits \in Nat
  BY TicketsAssumption DEF TicketsInv, TicketsTypeOK
<1>6. Numbers'
  <2>1. \A u \in Visitors : visit'[u].no <= tally'.visits
    BY <1>2, <1>3, <1>5
  <2>2. \A u, x \in Visitors : u # x /\ visit'[u].no = visit'[x].no => visit'[u].no = 0
    BY <1>2 DEF TicketsInv, Numbers
  <2>3. ASSUME NEW r \in TicketRows'
        PROVE  r[2] <= tally'.visits /\ \A u \in Visitors : visit'[u].no # r[2]
    <3>1. r \in TicketIds /\ tickets'[r] # NoTicket
      BY DEF TicketRows
    <3>2. CASE tickets[r] # NoTicket
      BY <1>2, <1>4, <3>1, <3>2 DEF TicketsInv, Numbers, TicketRows
    <3>3. CASE r[2] = visit[v].no
      BY <1>2, <1>3, <1>4, <3>1, <3>3 DEF TicketsInv, Numbers
    <3> QED BY <3>1, <3>2, <3>3
  <2> QED BY <2>1, <2>2, <2>3 DEF Numbers
<1>7. \A u \in Visitors : Walks(visit[u])'
  <2> TAKE u \in Visitors
  <2>1. CASE u = v
    BY <1>2, <2>1 DEF Walks
  <2>2. CASE u # v
    <3>1. visit'[u] = visit[u] /\ Walks(visit[u])
      BY <1>2, <2>2 DEF TicketsInv
    <3>2. Doomed(visit[u]) => Doomed(visit[u])'
      <4> SUFFICES ASSUME Doomed(visit[u]), NEW r \in visit[u].doomed
                   PROVE  /\ r[1] \notin visit[u].named \cup visit[u].steady
                          /\ r[2] <= tally'.visits /\ \A x \in Visitors : visit'[x].no # r[2]
                          /\ tickets'[r] # NoTicket => tickets'[r].hub
        BY <3>1 DEF Doomed
      <4>1. r \in TicketIds
        BY <1>3 DEF Visit
      <4>2. r[2] <= tally.visits /\ (\A x \in Visitors : visit[x].no # r[2]) /\ (tickets[r] # NoTicket => tickets[r].hub)
            /\ r[1] \notin visit[u].named \cup visit[u].steady
        BY DEF Doomed
      <4> QED BY <1>2, <1>4, <4>1, <4>2
    <3> QED BY <3>1, <3>2 DEF Walks, Ahead
  <2> QED BY <2>1, <2>2
<1> QED BY <1>1, <1>6, <1>7 DEF TicketsInv

\* A step that leaves the threads: rows may go or change, and keep their hub id.
LEMMA RowsChange ==
  ASSUME TicketsInv, TicketsTypeOK', UNCHANGED <<visit, listing>>, tally'.visits = tally.visits,
         \A r \in TicketIds : tickets'[r] # NoTicket => tickets[r] # NoTicket /\ tickets'[r].hub = tickets[r].hub
  PROVE  TicketsInv'
<1>1. Numbers'
  BY DEF TicketsInv, Numbers, TicketRows
<1>2. ASSUME NEW u \in Visitors
      PROVE  Walks(visit[u])'
  <2>1. Walks(visit[u]) /\ visit[u] \in Visit
    BY DEF TicketsInv, TicketsTypeOK
  <2>2. \A r \in visit[u].doomed : r \in TicketIds
    BY <2>1 DEF Visit
  <2>3. Doomed(visit[u]) => Doomed(visit[u])'
    BY <2>2 DEF Doomed
  <2> QED BY <2>1, <2>3 DEF Walks, Ahead
<1> QED BY <1>1, <1>2 DEF TicketsInv

-----------------------------------------------------------------------------
(* Tickets: the steps of a mirror.                                        *)

LEMMA VisitTicketsKeeps ==
  ASSUME TicketsInv, NEW v \in Visitors, VisitTickets(v)
  PROVE  TicketsInv'
<1>1. PICK lists \in BOOLEAN, c \in ConnIds :
        /\ Begins(v, [Away EXCEPT !.at = "walking", !.lists = lists, !.conn = c, !.steady = Listed(listing)])
        /\ connections' = [connections EXCEPT ![c] = "mirror"]
  BY DEF VisitTickets, EnsureConnections
<1> DEFINE s == [Away EXCEPT !.at = "walking", !.lists = lists, !.conn = c, !.steady = Listed(listing)]
<1>2. listing \in Seq(WorkItems) /\ Listed(listing) \subseteq WorkItems
  BY ListedIn DEF TicketsInv, TicketsTypeOK
<1>3. c \in 0..MaxConnections
  BY TicketsAssumption DEF ConnIds
<1>4. /\ s \in Visit /\ s.at = "walking" /\ s.whole = FALSE
      /\ s.steady = Listed(listing) /\ s.pages = <<>>
  BY <1>2, <1>3, AwayTyped DEF Visit, Steps, Away
<1> HIDE DEF s
<1>5. Ahead(s)
  <2>1. Len(<<>>) = 0
    OBVIOUS
  <2>2. \A p \in DOMAIN listing : p \in 1..Len(listing) /\ p > 0
    BY <1>2
  <2> QED BY <1>4, <2>1, <2>2 DEF Ahead, Listed
<1>6. Begins(v, s)
  BY <1>1 DEF s
<1>7. connections' \in [ConnIds -> {"absent", "local", "mirror", "deleted"}]
  BY <1>1 DEF TicketsInv, TicketsTypeOK
<1> QED BY <1>4, <1>5, <1>6, <1>7, VisitBegins DEF VisitTickets, MayBegin

LEMMA MirrorEndsKeep ==
  ASSUME TicketsInv, NEW v \in Visitors, HubFails(v) \/ CommitFails(v) \/ SyncFails(v)
  PROVE  TicketsInv'
<1>1. PICK s \in {EndMirror(visit[v]), Away} :
        Goes(v, s) /\ UNCHANGED <<tickets, connections, listing, inRuns, tally>>
  BY DEF HubFails, CommitFails, SyncFails
<1>2. s \in Visit /\ s.no = 0 /\ s.at \in {"idle", "mirrored"}
  BY EndTyped, AwayTyped
<1>3. Walks(s)
  BY <1>2 DEF Walks
<1> QED BY <1>1, <1>2, <1>3, ThreadMoves

LEMMA ReadPageKeeps ==
  ASSUME TicketsInv, NEW v \in Visitors, ReadPage(v)
  PROVE  TicketsInv'
<1> DEFINE w == visit[v]
           pages == IF Len(w.pages) < Len(listing) THEN Append(w.pages, listing[Len(w.pages) + 1]) ELSE w.pages
           at == IF EndOfList(pages) \/ Len(pages) = PageCap THEN "merging" ELSE w.at
           s == [w EXCEPT !.pages = pages, !.whole = EndOfList(pages), !.at = at]
<1>1. w \in Visit /\ w.at = "walking" /\ Ahead(w) /\ listing \in Seq(WorkItems) /\ w.pages \in Seq(WorkItems)
  BY DEF ReadPage, Standing, TicketsInv, TicketsTypeOK, Walks, Visit
<1>2. Len(listing) \in Nat /\ Len(w.pages) \in Nat
  BY <1>1
<1>3. \A i \in w.steady : i \in Listed(pages) \/ \E q \in 1..Len(listing) : q > Len(pages) /\ listing[q] = i
  <2> SUFFICES ASSUME NEW i \in w.steady, i \notin Listed(pages)
               PROVE  \E q \in 1..Len(listing) : q > Len(pages) /\ listing[q] = i
    OBVIOUS
  <2>1. CASE Len(w.pages) < Len(listing)
    <3>1. listing[Len(w.pages) + 1] \in WorkItems
      BY <1>1, <1>2, <2>1
    <3>2. pages = Append(w.pages, listing[Len(w.pages) + 1]) /\ Len(pages) = Len(w.pages) + 1
      BY <1>1, <2>1, <3>1
    <3>3. Listed(w.pages) \subseteq Listed(pages) /\ listing[Len(w.pages) + 1] \in Listed(pages)
      BY <1>1, <3>1, <3>2, ListedAppend
    <3>4. PICK q \in 1..Len(listing) : q > Len(w.pages) /\ listing[q] = i
      BY <1>1, <3>3 DEF Ahead
    <3>5. q # Len(w.pages) + 1
      BY <3>3, <3>4
    <3> QED BY <1>2, <3>2, <3>4, <3>5
  <2>2. CASE ~(Len(w.pages) < Len(listing))
    BY <1>1, <2>2 DEF Ahead
  <2> QED BY <2>1, <2>2
<1>4. pages \in Seq(WorkItems) /\ Len(pages) \in Nat
  <2>1. CASE Len(w.pages) < Len(listing)
    <3>1. listing[Len(w.pages) + 1] \in WorkItems
      BY <1>1, <1>2, <2>1
    <3> QED BY <1>1, <2>1, <3>1
  <2>2. CASE ~(Len(w.pages) < Len(listing))
    BY <1>1, <2>2
  <2> QED BY <2>1, <2>2
<1>5. EndOfList(pages) => w.steady \subseteq Listed(pages)
  BY <1>2, <1>3, <1>4 DEF EndOfList
<1>6. EndOfList(pages) \in BOOLEAN
  BY DEF EndOfList
<1>7. /\ s \in Visit /\ s.no = w.no /\ s.whole = EndOfList(pages) /\ s.at = at
      /\ s.pages = pages /\ s.steady = w.steady
  <2>1. at \in Steps
    BY <1>1 DEF Steps
  <2> HIDE DEF at, pages
  <2> QED BY <1>1, <1>4, <1>6, <2>1 DEF Visit
<1>8. Walks(s)
  <2>1. s.at = "walking" => ~EndOfList(pages)
    BY <1>7
  <2>2. s.at # "committing"
    BY <1>1, <1>7
  <2>3. Ahead(s)
    BY <1>3, <1>7 DEF Ahead
  <2> HIDE DEF s
  <2> QED BY <1>5, <1>7, <2>1, <2>2, <2>3 DEF Walks
<1>9. Goes(v, s) /\ UNCHANGED <<tickets, connections, listing, inRuns, tally>>
  BY DEF ReadPage
<1> HIDE DEF s
<1> QED BY <1>7, <1>8, <1>9, ThreadMoves

LEMMA ReadMalformedKeeps ==
  ASSUME TicketsInv, NEW v \in Visitors, ReadMalformed(v)
  PROVE  TicketsInv'
<1>1. visit[v] \in Visit /\ visit[v].at = "walking" /\ ~visit[v].whole
  BY DEF ReadMalformed, Standing, TicketsInv, TicketsTypeOK, Walks
<1> DEFINE s == IF visit[v].pages = <<>> THEN EndMirror(visit[v]) ELSE [visit[v] EXCEPT !.at = "merging"]
<1>2. s \in Visit /\ s.no \in {0, visit[v].no} /\ Walks(s)
  <2>1. CASE visit[v].pages = <<>>
    BY <2>1, EndTyped DEF Walks
  <2>2. CASE visit[v].pages # <<>>
    <3> DEFINE t == [visit[v] EXCEPT !.at = "merging"]
    <3>1. t \in Visit /\ t.no = visit[v].no /\ t.at = "merging" /\ t.whole = visit[v].whole
      BY <1>1 DEF Visit, Steps
    <3> QED BY <1>1, <2>2, <3>1 DEF Walks
  <2> QED BY <2>1, <2>2
<1>3. Goes(v, s) /\ UNCHANGED <<tickets, connections, listing, inRuns, tally>>
  BY DEF ReadMalformed
<1> HIDE DEF s
<1> QED BY <1>2, <1>3, ThreadMoves

LEMMA LoadMirroredKeeps ==
  ASSUME TicketsInv, NEW v \in Visitors, LoadMirrored(v)
  PROVE  TicketsInv'
<1> DEFINE w == visit[v]
           doomed == {r \in Vanished(Listed(w.pages)) : w.whole /\ r[1] \notin inRuns}
           mine == Copies({r \in TicketRows : tickets[r].hub})
           s == [w EXCEPT !.at = "committing", !.named = inRuns, !.mine = mine, !.doomed = doomed]
<1>1. w \in Visit /\ w.at = "merging" /\ (w.whole => w.steady \subseteq Listed(w.pages)) /\ inRuns \in SUBSET WorkItems
  BY DEF LoadMirrored, Standing, TicketsInv, TicketsTypeOK, Walks
<1>2. doomed \subseteq TicketRows /\ TicketRows \subseteq TicketIds
  BY DEF Vanished, TicketRows
<1>3. mine \in [TicketIds -> Ticket \cup {NoTicket}]
  BY CopiesTyped DEF TicketsInv
<1>4. /\ s \in Visit /\ s.no = w.no /\ s.at = "committing" /\ s.named = inRuns /\ s.doomed = doomed
      /\ s.steady = w.steady
  <2> HIDE DEF mine, doomed
  <2> QED BY <1>1, <1>2, <1>3 DEF Visit, Steps
<1>5. \A r \in doomed : /\ r[1] \notin inRuns \cup w.steady
                        /\ r[2] <= tally.visits /\ \A u \in Visitors : visit[u].no # r[2]
                        /\ tickets[r].hub
  <2> SUFFICES ASSUME NEW r \in doomed
               PROVE  /\ r[1] \notin inRuns \cup w.steady
                      /\ r[2] <= tally.visits /\ \A u \in Visitors : visit[u].no # r[2]
                      /\ tickets[r].hub
    OBVIOUS
  <2>1. r \in TicketRows /\ tickets[r].hub /\ r[1] \notin Listed(w.pages) /\ w.whole /\ r[1] \notin inRuns
    BY DEF Vanished
  <2>2. r[2] <= tally.visits /\ \A u \in Visitors : visit[u].no # r[2]
    BY <2>1 DEF TicketsInv, Numbers
  <2> QED BY <1>1, <2>1, <2>2
<1>6. Goes(v, s) /\ UNCHANGED <<tickets, connections, listing, inRuns, tally>>
  BY DEF LoadMirrored
<1> HIDE DEF s, doomed, mine
<1>7. Walks(s)
  BY <1>4, <1>5 DEF Walks, Doomed
<1> QED BY <1>4, <1>6, <1>7, ThreadMoves

\* What the commit of a mirror makes of each row.
LEMMA CommitMirrorRows ==
  ASSUME TicketsInv, NEW v \in Visitors, CommitMirror(v)
  PROVE  /\ tickets' \in [TicketIds -> Ticket \cup {NoTicket}]
         /\ \A r \in TicketIds : tickets'[r] # NoTicket =>
              \/ tickets[r] # NoTicket /\ tickets'[r].hub = tickets[r].hub
                 /\ (tickets[r].content => tickets'[r].content)
              \/ r[2] = visit[v].no
         /\ \A r \in TicketRows : tickets'[r] = NoTicket => r \in visit[v].doomed
<1> DEFINE w == visit[v]
           refreshed(r) == [w.mine[r] EXCEPT !.conn = w.conn]
           new == [hub |-> TRUE, conn |-> w.conn, content |-> FALSE]
<1>1. w \in Visit /\ tickets \in [TicketIds -> Ticket \cup {NoTicket}] /\ NoTicket \notin Ticket
  BY TicketsAssumption DEF TicketsInv, TicketsTypeOK
<1>2. PICK some \in OneEach(Refreshable(w)) :
        tickets' = [r \in TicketIds |->
                IF r \in w.doomed THEN NoTicket
                ELSE IF r \in NewRows(w) THEN new
                ELSE IF r \in some \cap TicketRows THEN SavedRow(r, w.mine[r], refreshed(r))
                ELSE tickets[r]]
  BY DEF CommitMirror
<1>3. new \in Ticket /\ new # NoTicket
  <2>1. w.conn \in 0..MaxConnections
    BY <1>1 DEF Visit
  <2>2. new \in Ticket
    BY <2>1 DEF Ticket
  <2> QED BY <1>1, <2>2
<1>4. some \subseteq Refreshable(w)
  BY DEF OneEach
<1>5. ASSUME NEW r \in some \cap TicketRows
      PROVE  /\ SavedRow(r, w.mine[r], refreshed(r)) \in Ticket
             /\ SavedRow(r, w.mine[r], refreshed(r)).hub = tickets[r].hub
             /\ tickets[r].content => SavedRow(r, w.mine[r], refreshed(r)).content
  <2>1. r \in TicketIds /\ w.mine[r] # NoTicket /\ w.mine[r] \in Ticket /\ tickets[r] \in Ticket
    BY <1>1, <1>4 DEF Refreshable, TicketRows, Visit
  <2>2. refreshed(r) \in Ticket /\ refreshed(r).hub = w.mine[r].hub /\ refreshed(r).content = w.mine[r].content
    BY <1>1, <2>1 DEF Visit, Ticket
  <2> HIDE DEF refreshed
  <2> QED BY <2>1, <2>2, SavedRowSound
<1>6. \A r \in NewRows(w) : r[2] = w.no
  BY DEF NewRows
<1> HIDE DEF w, refreshed, new
<1>7. ASSUME NEW r \in TicketIds
      PROVE  /\ tickets'[r] \in Ticket \cup {NoTicket}
             /\ tickets'[r] # NoTicket =>
                  \/ tickets[r] # NoTicket /\ tickets'[r].hub = tickets[r].hub
                     /\ (tickets[r].content => tickets'[r].content)
                  \/ r[2] = w.no
             /\ tickets[r] # NoTicket /\ tickets'[r] = NoTicket => r \in w.doomed
  <2>1. CASE r \in w.doomed
    BY <1>2, <2>1
  <2>2. CASE r \notin w.doomed /\ r \in NewRows(w)
    BY <1>2, <1>3, <1>6, <2>2
  <2>3. CASE r \notin w.doomed /\ r \notin NewRows(w) /\ r \in some \cap TicketRows
    <3>1. tickets'[r] = SavedRow(r, w.mine[r], refreshed(r))
      BY <1>2, <2>3
    <3>2. tickets[r] # NoTicket
      BY <2>3 DEF TicketRows
    <3> QED BY <1>1, <1>5, <2>3, <3>1, <3>2
  <2>4. CASE r \notin w.doomed /\ r \notin NewRows(w) /\ r \notin some \cap TicketRows
    BY <1>1, <1>2, <2>4
  <2> QED BY <2>1, <2>2, <2>3, <2>4
<1>8. tickets' \in [TicketIds -> Ticket \cup {NoTicket}]
  BY <1>2, <1>7
<1>9. \A r \in TicketRows : r \in TicketIds /\ tickets[r] # NoTicket
  BY DEF TicketRows
<1> QED BY <1>7, <1>8, <1>9 DEF w

LEMMA CommitMirrorKeeps ==
  ASSUME TicketsInv, NEW v \in Visitors, CommitMirror(v)
  PROVE  TicketsInv'
<1>1. Goes(v, EndMirror(visit[v])) /\ UNCHANGED <<connections, listing, inRuns, tally>>
  BY DEF CommitMirror
<1>2. tickets' \in [TicketIds -> Ticket \cup {NoTicket}]
  BY CommitMirrorRows
<1>3. \A r \in TicketIds : tickets'[r] # NoTicket =>
           \/ tickets[r] # NoTicket /\ (tickets[r].hub => tickets'[r].hub)
           \/ r[2] = visit[v].no
  BY CommitMirrorRows
<1> QED BY <1>1, <1>2, <1>3, EndTyped, RowsCommitted

-----------------------------------------------------------------------------
(* Tickets: the read-through, a sync, a look.                             *)

LEMMA ReadThroughKeeps ==
  ASSUME TicketsInv, NEW v \in Visitors, ReadThrough(v)
  PROVE  TicketsInv'
<1>1. tickets \in [TicketIds -> Ticket \cup {NoTicket}] /\ NoTicket \notin Ticket
  BY TicketsAssumption DEF TicketsInv, TicketsTypeOK
<1>2. ASSUME NEW r \in TicketIds, tickets[r] # NoTicket
      PROVE  [tickets[r] EXCEPT !.hub = TRUE] \in Ticket /\ [tickets[r] EXCEPT !.hub = TRUE].hub
  BY <1>1, <1>2 DEF Ticket
<1>3. ASSUME tickets' # tickets
      PROVE  tickets' = [r \in TicketIds |->
               IF r \in TicketRows /\ listing # <<>> /\ r[1] = listing[1] THEN [tickets[r] EXCEPT !.hub = TRUE] ELSE tickets[r]]
  BY <1>3 DEF ReadThrough, RecordHubTicketIds
<1>4. ASSUME NEW r \in TicketIds
      PROVE  /\ tickets'[r] \in Ticket \cup {NoTicket}
             /\ tickets'[r] # NoTicket => tickets[r] # NoTicket /\ (tickets[r].hub => tickets'[r].hub)
  <2>1. CASE tickets' = tickets
    BY <1>1, <2>1
  <2>2. CASE tickets' # tickets /\ r \in TicketRows /\ listing # <<>> /\ r[1] = listing[1]
    <3>1. tickets'[r] = [tickets[r] EXCEPT !.hub = TRUE] /\ tickets[r] # NoTicket
      BY <1>3, <2>2 DEF TicketRows
    <3> QED BY <1>1, <1>2, <3>1
  <2>3. CASE tickets' # tickets /\ ~(r \in TicketRows /\ listing # <<>> /\ r[1] = listing[1])
    BY <1>1, <1>3, <2>3
  <2> QED BY <2>1, <2>2, <2>3
<1>5. tickets' \in [TicketIds -> Ticket \cup {NoTicket}]
  <2>1. CASE tickets' = tickets
    BY <1>1, <2>1
  <2>2. CASE tickets' # tickets
    BY <1>3, <1>4, <2>2
  <2> QED BY <2>1, <2>2
<1>6. Goes(v, Away) /\ UNCHANGED <<connections, listing, inRuns, tally>>
  BY DEF ReadThrough
<1> QED BY <1>4, <1>5, <1>6, AwayTyped, RowsCommitted

LEMMA SyncTicketsKeeps ==
  ASSUME TicketsInv, NEW v \in Visitors, SyncTickets(v)
  PROVE  TicketsInv'
<1>1. PICK c \in Usable("local"), a \in ProviderAnswers, owned \in SUBSET WorkItems :
        \E some \in OneEach(UNION {Candidates(i, c, i \in owned) : i \in a.items}) :
          Begins(v, [Away EXCEPT !.at = "saving", !.conn = c, !.got = a.items, !.full = a.full, !.mine = Copies(some)])
  BY DEF SyncTickets
<1>7. PICK some \in OneEach(UNION {Candidates(i, c, i \in owned) : i \in a.items}) :
          Begins(v, [Away EXCEPT !.at = "saving", !.conn = c, !.got = a.items, !.full = a.full, !.mine = Copies(some)])
  BY <1>1
<1> DEFINE s == [Away EXCEPT !.at = "saving", !.conn = c, !.got = a.items, !.full = a.full, !.mine = Copies(some)]
<1>2. c \in 0..MaxConnections
  BY TicketsAssumption DEF ConnIds, Usable
<1>3. Copies(some) \in [TicketIds -> Ticket \cup {NoTicket}]
  BY CopiesTyped DEF TicketsInv
<1>4. s \in Visit /\ s.at = "saving"
  BY <1>2, <1>3, AwayTyped DEF Visit, Steps, ProviderAnswers
<1>5. connections' = connections
  BY DEF SyncTickets
<1>6. Begins(v, s)
  BY <1>7
<1> HIDE DEF s
<1> QED BY <1>4, <1>5, <1>6, VisitBegins DEF SyncTickets, MayBegin, TicketsInv, TicketsTypeOK

LEMMA LookAtKeeps ==
  ASSUME TicketsInv, NEW v \in Visitors, LookAt(v)
  PROVE  TicketsInv'
<1>1. PICK r \in TicketRows : Begins(v, [Away EXCEPT !.at = "filling", !.mine = Copies({r})])
  BY DEF LookAt
<1> DEFINE s == [Away EXCEPT !.at = "filling", !.mine = Copies({r})]
<1>2. Copies({r}) \in [TicketIds -> Ticket \cup {NoTicket}]
  BY CopiesTyped DEF TicketsInv
<1>3. s \in Visit /\ s.at = "filling"
  BY <1>2, AwayTyped DEF Visit, Steps
<1>4. connections' = connections
  BY DEF LookAt
<1>5. Begins(v, s)
  BY <1>1
<1> HIDE DEF s
<1> QED BY <1>3, <1>4, <1>5, VisitBegins DEF LookAt, MayBegin, TicketsInv, TicketsTypeOK

\* A commit of a copy of a row that is still there.
LEMMA CopySaved ==
  ASSUME TicketsInv, NEW v \in Visitors, NEW r \in Matched(visit[v]) \cap TicketRows, NEW will \in Ticket,
         will.hub = visit[v].mine[r].hub, visit[v].mine[r].content => will.content,
         tickets'[r] = SavedRow(r, visit[v].mine[r], will)
  PROVE  /\ tickets'[r] \in Ticket
         /\ tickets'[r].hub = tickets[r].hub
         /\ tickets[r].content => tickets'[r].content
<1>1. visit[v] \in Visit /\ tickets \in [TicketIds -> Ticket \cup {NoTicket}]
  BY DEF TicketsInv, TicketsTypeOK
<1>2. r \in TicketIds /\ tickets[r] \in Ticket /\ visit[v].mine[r] \in Ticket
  BY <1>1 DEF Matched, TicketRows, Visit
<1> QED BY <1>2, SavedRowSound

LEMMA SaveSyncRows ==
  ASSUME TicketsInv, NEW v \in Visitors, SaveSync(v)
  PROVE  /\ tickets' \in [TicketIds -> Ticket \cup {NoTicket}]
         /\ \A r \in TicketIds : tickets'[r] # NoTicket =>
              \/ tickets[r] # NoTicket /\ tickets'[r].hub = tickets[r].hub
                 /\ (tickets[r].content => tickets'[r].content)
              \/ r[2] = visit[v].no
         /\ \A r \in TicketRows : tickets'[r] # NoTicket
<1> DEFINE w == visit[v]
           new == {r \in TicketIds : r[1] \in w.got /\ r[2] = w.no /\ r[3] = 1 /\ ~ \E o \in Matched(w) : o[1] = r[1]}
           row == [hub |-> FALSE, conn |-> w.conn, content |-> w.full]
<1>1. w \in Visit /\ tickets \in [TicketIds -> Ticket \cup {NoTicket}] /\ NoTicket \notin Ticket
  BY TicketsAssumption DEF TicketsInv, TicketsTypeOK
<1>2. row \in Ticket /\ \A r \in new : r[2] = w.no
  BY <1>1 DEF Ticket, Visit
<1>3. tickets' = [r \in TicketIds |->
           IF r \in new THEN row
           ELSE IF r \in Matched(w) \cap TicketRows THEN SavedRow(r, w.mine[r], Synced(w.mine[r], w.conn, w.full))
           ELSE tickets[r]]
  BY DEF SaveSync
<1> HIDE DEF new, row
<1>4. ASSUME NEW r \in TicketIds
      PROVE  /\ tickets'[r] \in Ticket \cup {NoTicket}
             /\ tickets'[r] # NoTicket =>
                  \/ tickets[r] # NoTicket /\ tickets'[r].hub = tickets[r].hub
                     /\ (tickets[r].content => tickets'[r].content)
                  \/ r[2] = w.no
             /\ tickets[r] # NoTicket => tickets'[r] # NoTicket
  <2>1. CASE r \in new
    BY <1>1, <1>2, <1>3, <2>1
  <2>2. CASE r \notin new /\ r \in Matched(w) \cap TicketRows
    <3> DEFINE will == Synced(w.mine[r], w.conn, w.full)
    <3>1. w.mine[r] \in Ticket /\ w.conn \in 0..MaxConnections /\ w.full \in BOOLEAN
      BY <1>1, <2>2 DEF Matched, Visit
    <3>2. will \in Ticket /\ will.hub = w.mine[r].hub /\ (w.mine[r].content => will.content)
      BY <3>1 DEF Synced, Ticket
    <3>3. tickets'[r] = SavedRow(r, w.mine[r], will)
      BY <1>3, <2>2
    <3> HIDE DEF will
    <3>4. /\ tickets'[r] \in Ticket
          /\ tickets'[r].hub = tickets[r].hub
          /\ tickets[r].content => tickets'[r].content
      BY <2>2, <3>2, <3>3, CopySaved
    <3>5. tickets[r] # NoTicket
      BY <2>2 DEF TicketRows
    <3> QED BY <1>1, <3>4, <3>5
  <2>3. CASE r \notin new /\ r \notin Matched(w) \cap TicketRows
    BY <1>1, <1>3, <2>3
  <2> QED BY <2>1, <2>2, <2>3
<1>5. tickets' \in [TicketIds -> Ticket \cup {NoTicket}]
  BY <1>3, <1>4
<1>6. \A r \in TicketRows : r \in TicketIds /\ tickets[r] # NoTicket
  BY DEF TicketRows
<1> QED BY <1>4, <1>5, <1>6

LEMMA FillDetailRows ==
  ASSUME TicketsInv, NEW v \in Visitors, FillDetail(v)
  PROVE  /\ tickets' \in [TicketIds -> Ticket \cup {NoTicket}]
         /\ \A r \in TicketIds : tickets'[r] # NoTicket =>
              /\ tickets[r] # NoTicket /\ tickets'[r].hub = tickets[r].hub
              /\ tickets[r].content => tickets'[r].content
         /\ \A r \in TicketRows : tickets'[r] # NoTicket
<1> DEFINE w == visit[v]
<1>1. w \in Visit /\ tickets \in [TicketIds -> Ticket \cup {NoTicket}] /\ NoTicket \notin Ticket
  BY TicketsAssumption DEF TicketsInv, TicketsTypeOK
<1>2. CASE UNCHANGED tickets
  BY <1>1, <1>2 DEF TicketRows
<1>3. CASE tickets' = [r \in TicketIds |->
             IF r \in Matched(w) \cap TicketRows THEN SavedRow(r, w.mine[r], [w.mine[r] EXCEPT !.content = TRUE])
             ELSE tickets[r]]
  <2>1. ASSUME NEW r \in TicketIds
        PROVE  /\ tickets'[r] \in Ticket \cup {NoTicket}
               /\ tickets'[r] # NoTicket =>
                    /\ tickets[r] # NoTicket /\ tickets'[r].hub = tickets[r].hub
                    /\ tickets[r].content => tickets'[r].content
               /\ tickets[r] # NoTicket => tickets'[r] # NoTicket
    <3>1. CASE r \in Matched(w) \cap TicketRows
      <4> DEFINE will == [w.mine[r] EXCEPT !.content = TRUE]
      <4>1. w.mine[r] \in Ticket
        BY <1>1, <3>1 DEF Matched, Visit
      <4>2. will \in Ticket /\ will.hub = w.mine[r].hub /\ will.content
        BY <4>1 DEF Ticket
      <4>3. tickets'[r] = SavedRow(r, w.mine[r], will)
        BY <1>3, <3>1
      <4> HIDE DEF will
      <4>4. /\ tickets'[r] \in Ticket
            /\ tickets'[r].hub = tickets[r].hub
            /\ tickets[r].content => tickets'[r].content
        BY <3>1, <4>2, <4>3, CopySaved
      <4>5. tickets[r] # NoTicket
        BY <3>1 DEF TicketRows
      <4> QED BY <1>1, <4>4, <4>5
    <3>2. CASE r \notin Matched(w) \cap TicketRows
      BY <1>1, <1>3, <3>2
    <3> QED BY <3>1, <3>2
  <2>2. tickets' \in [TicketIds -> Ticket \cup {NoTicket}]
    BY <1>3, <2>1
  <2>3. \A r \in TicketRows : r \in TicketIds /\ tickets[r] # NoTicket
    BY DEF TicketRows
  <2> QED BY <2>1, <2>2, <2>3
<1> QED BY <1>2, <1>3 DEF FillDetail

LEMMA SavesKeep ==
  ASSUME TicketsInv, NEW v \in Visitors, SaveSync(v) \/ FillDetail(v)
  PROVE  TicketsInv'
<1>1. Goes(v, Away) /\ UNCHANGED <<connections, listing, inRuns, tally>>
  BY DEF SaveSync, FillDetail
<1>2. tickets' \in [TicketIds -> Ticket \cup {NoTicket}]
  BY SaveSyncRows, FillDetailRows
<1>3. \A r \in TicketIds : tickets'[r] # NoTicket =>
           \/ tickets[r] # NoTicket /\ (tickets[r].hub => tickets'[r].hub)
           \/ r[2] = visit[v].no
  BY SaveSyncRows, FillDetailRows
<1> QED BY <1>1, <1>2, <1>3, AwayTyped, RowsCommitted

-----------------------------------------------------------------------------
(* Tickets: what happens around the requests.                             *)

LEMMA DeletionsKeep ==
  ASSUME TicketsInv, DeleteTickets \/ DeleteConnection
  PROVE  TicketsInv'
<1>1. tickets \in [TicketIds -> Ticket \cup {NoTicket}] /\ NoTicket \notin Ticket
  BY TicketsAssumption DEF TicketsInv, TicketsTypeOK
<1>2. tally' \in [visits : 0..MaxVisits, turns : 0..MaxTurns] /\ tally'.visits = tally.visits
  BY TicketsAssumption DEF DeleteTickets, DeleteConnection, Turns, TicketsInv, TicketsTypeOK
<1>3. CASE DeleteTickets
  <2>1. PICK rows : tickets' = [r \in TicketIds |-> IF r \in rows THEN NoTicket ELSE tickets[r]]
    BY <1>3 DEF DeleteTickets
  <2>2. TicketsTypeOK'
    BY <1>1, <1>2, <1>3, <2>1 DEF DeleteTickets, TicketsInv, TicketsTypeOK
  <2>3. \A r \in TicketIds : tickets'[r] # NoTicket => tickets[r] # NoTicket /\ tickets'[r].hub = tickets[r].hub
    BY <2>1
  <2> QED BY <1>2, <1>3, <2>2, <2>3, RowsChange DEF DeleteTickets
<1>4. CASE DeleteConnection
  <2>1. PICK c \in ConnIds :
          /\ connections' = [connections EXCEPT ![c] = "deleted"]
          /\ tickets' = [r \in TicketIds |->
               IF r \in TicketRows /\ tickets[r].conn = c THEN [tickets[r] EXCEPT !.conn = 0] ELSE tickets[r]]
    BY <1>4 DEF DeleteConnection, Usable
  <2>2. ASSUME NEW r \in TicketIds
        PROVE  /\ tickets'[r] \in Ticket \cup {NoTicket}
               /\ tickets'[r] # NoTicket => tickets[r] # NoTicket /\ tickets'[r].hub = tickets[r].hub
    <3>1. CASE r \in TicketRows /\ tickets[r].conn = c
      <4>1. tickets[r] \in Ticket /\ tickets[r] # NoTicket /\ 0 \in 0..MaxConnections
        BY <1>1, <3>1, TicketsAssumption DEF TicketRows
      <4>2. [tickets[r] EXCEPT !.conn = 0] \in Ticket /\ [tickets[r] EXCEPT !.conn = 0].hub = tickets[r].hub
        BY <4>1 DEF Ticket
      <4> QED BY <1>1, <2>1, <3>1, <4>1, <4>2
    <3>2. CASE ~(r \in TicketRows /\ tickets[r].conn = c)
      BY <1>1, <2>1, <3>2
    <3> QED BY <3>1, <3>2
  <2>3. tickets' \in [TicketIds -> Ticket \cup {NoTicket}]
    BY <2>1, <2>2
  <2>4. TicketsTypeOK'
    BY <1>2, <1>4, <2>1, <2>3 DEF DeleteConnection, TicketsInv, TicketsTypeOK
  <2> QED BY <1>2, <1>4, <2>2, <2>4, RowsChange DEF DeleteConnection
<1> QED BY <1>3, <1>4

LEMMA OthersKeep ==
  ASSUME TicketsInv, CreateConnection \/ ChangeRuns
  PROVE  TicketsInv'
<1>1. tally' \in [visits : 0..MaxVisits, turns : 0..MaxTurns] /\ tally'.visits = tally.visits
  BY TicketsAssumption DEF CreateConnection, ChangeRuns, Turns, TicketsInv, TicketsTypeOK
<1>2. connections' \in [ConnIds -> {"absent", "local", "mirror", "deleted"}]
  BY DEF CreateConnection, ChangeRuns, TicketsInv, TicketsTypeOK
<1>3. inRuns' \in SUBSET WorkItems
  BY DEF CreateConnection, ChangeRuns, TicketsInv, TicketsTypeOK
<1>4. UNCHANGED <<tickets, listing, visit>>
  BY DEF CreateConnection, ChangeRuns
<1>5. TicketsTypeOK'
  BY <1>1, <1>2, <1>3, <1>4 DEF TicketsInv, TicketsTypeOK
<1> QED BY <1>1, <1>4, <1>5, RowsChange

\* Nothing the Hub lists moves towards the front when it lists something more.
LEMMA InsertKeeps ==
  ASSUME NEW s \in Seq(WorkItems), NEW i \in WorkItems, NEW p \in 0..Len(s)
  PROVE  /\ SubSeq(s, 1, p) \o <<i>> \o SubSeq(s, p + 1, Len(s)) \in Seq(WorkItems)
         /\ \A q \in 1..Len(s) : \E x \in 1..Len(SubSeq(s, 1, p) \o <<i>> \o SubSeq(s, p + 1, Len(s))) :
              x >= q /\ (SubSeq(s, 1, p) \o <<i>> \o SubSeq(s, p + 1, Len(s)))[x] = s[q]
<1> DEFINE a == SubSeq(s, 1, p)
           b == SubSeq(s, p + 1, Len(s))
           d == <<i>>
           c == a \o d
           more == c \o b
<1>1. Len(s) \in Nat /\ p \in Nat /\ p <= Len(s)
  OBVIOUS
<1>2. a \in Seq(WorkItems) /\ Len(a) = p /\ \A q \in 1..p : a[q] = s[q]
  BY SubSeqProperties
<1>3. b \in Seq(WorkItems) /\ Len(b) = Len(s) - p /\ \A q \in 1..(Len(s) - p) : b[q] = s[q + p]
  BY SubSeqProperties
<1>4. d \in Seq(WorkItems) /\ Len(d) = 1
  OBVIOUS
<1> SUFFICES /\ more \in Seq(WorkItems)
             /\ \A q \in 1..Len(s) : \E x \in 1..Len(more) : x >= q /\ more[x] = s[q]
  OBVIOUS
<1> HIDE DEF a, b, c, d, more
<1>5. /\ c \in Seq(WorkItems) /\ Len(c) = Len(a) + Len(d)
      /\ \A q \in 1 .. Len(a) + Len(d) : c[q] = IF q <= Len(a) THEN a[q] ELSE d[q - Len(a)]
  BY <1>2, <1>4, ConcatProperties DEF c
<1>6. /\ more \in Seq(WorkItems) /\ Len(more) = Len(c) + Len(b)
      /\ \A q \in 1 .. Len(c) + Len(b) : more[q] = IF q <= Len(c) THEN c[q] ELSE b[q - Len(c)]
  <2>1. b \in Seq(WorkItems) /\ c \in Seq(WorkItems)
    BY <1>3, <1>5
  <2> QED BY <2>1, ConcatProperties DEF more
<1>7. Len(c) = p + 1 /\ Len(more) = Len(s) + 1
  BY <1>1, <1>2, <1>3, <1>4, <1>5, <1>6
<1>8. ASSUME NEW q \in 1..Len(s)
      PROVE  \E x \in 1..Len(more) : x >= q /\ more[x] = s[q]
  <2>1. q \in Nat /\ 1 <= q /\ q <= Len(s)
    BY <1>1
  <2>2. CASE q <= p
    <3>1. q \in 1..p /\ q \in 1 .. Len(a) + Len(d) /\ q <= Len(a) /\ q <= Len(c) /\ q \in 1 .. Len(c) + Len(b) /\ q \in 1..Len(more)
      BY <1>1, <1>2, <1>3, <1>4, <1>7, <2>1, <2>2
    <3>2. more[q] = s[q]
      BY <1>2, <1>5, <1>6, <3>1
    <3>3. q >= q
      BY <2>1
    <3> QED BY <3>1, <3>2, <3>3
  <2>3. CASE ~(q <= p)
    <3>1. /\ q + 1 \in 1 .. Len(c) + Len(b) /\ ~(q + 1 <= Len(c)) /\ (q + 1) - Len(c) = q - p
          /\ q - p \in 1..(Len(s) - p) /\ (q - p) + p = q /\ q + 1 \in 1..Len(more) /\ q + 1 >= q
      BY <1>1, <1>3, <1>7, <2>1, <2>3
    <3>2. more[q + 1] = b[(q + 1) - Len(c)]
      BY <1>6, <3>1
    <3>3. b[q - p] = s[(q - p) + p]
      BY <1>3, <3>1
    <3> QED BY <3>1, <3>2, <3>3
  <2> QED BY <2>2, <2>3
<1> QED BY <1>6, <1>8

LEMMA TurnsKeep ==
  ASSUME TicketsTypeOK, Turns
  PROVE  tally'.visits = tally.visits /\ tally' \in [visits : 0..MaxVisits, turns : 0..MaxTurns]
  BY TicketsAssumption DEF Turns, TicketsTypeOK

LEMMA HubGainsKeeps ==
  ASSUME TicketsInv, NEW i \in WorkItems, NEW p \in 0..Len(listing), HubGains(i, p)
  PROVE  TicketsInv'
<1>1. listing \in Seq(WorkItems) /\ TicketsTypeOK
  BY DEF TicketsInv, TicketsTypeOK
<1> DEFINE more == SubSeq(listing, 1, p) \o <<i>> \o SubSeq(listing, p + 1, Len(listing))
<1>2. /\ more \in Seq(WorkItems)
      /\ \A q \in 1..Len(listing) : \E x \in 1..Len(more) : x >= q /\ more[x] = listing[q]
  BY <1>1, InsertKeeps
<1>3. Turns /\ UNCHANGED <<tickets, connections, inRuns, visit>> /\ listing' = more
  BY DEF HubGains
<1> HIDE DEF more
<1>4. tally'.visits = tally.visits /\ tally' \in [visits : 0..MaxVisits, turns : 0..MaxTurns]
  BY <1>1, <1>3, TurnsKeep
<1>5. TicketsTypeOK'
  BY <1>2, <1>3, <1>4 DEF TicketsInv, TicketsTypeOK
<1>6. Numbers'
  BY <1>3, <1>4 DEF TicketsInv, Numbers, TicketRows
<1>7. ASSUME NEW u \in Visitors
      PROVE  Walks(visit[u])'
  <2>1. Walks(visit[u]) /\ visit[u] \in Visit
    BY DEF TicketsInv, TicketsTypeOK
  <2>2. Len(visit[u].pages) \in Nat /\ Len(listing) \in Nat /\ Len(more) \in Nat
    BY <1>1, <1>2, <2>1 DEF Visit
  <2>3. Ahead(visit[u]) => Ahead(visit[u])'
    <3> SUFFICES ASSUME Ahead(visit[u]), NEW j \in visit[u].steady, j \notin Listed(visit[u].pages)
                 PROVE  \E q \in 1..Len(more) : q > Len(visit[u].pages) /\ more[q] = j
      BY <1>3 DEF Ahead, Listed
    <3>1. PICK q \in 1..Len(listing) : q > Len(visit[u].pages) /\ listing[q] = j
      BY DEF Ahead
    <3>2. PICK x \in 1..Len(more) : x >= q /\ more[x] = listing[q]
      BY <1>2
    <3> QED BY <2>2, <3>1, <3>2
  <2>4. Doomed(visit[u]) => Doomed(visit[u])'
    BY <1>3, <1>4 DEF Doomed
  <2> QED BY <1>3, <2>1, <2>3, <2>4 DEF Walks, Listed
<1> QED BY <1>5, <1>6, <1>7 DEF TicketsInv

\* A step that leaves the rows, after which threads do what they did, or
\* nothing, or walk without anything they know to be steady.
LEMMA ThreadsChange ==
  ASSUME TicketsInv, TicketsTypeOK', UNCHANGED tickets, tally'.visits = tally.visits,
         \A u \in Visitors :
           \/ visit'[u] = visit[u] /\ (visit[u].at = "walking" => UNCHANGED listing)
           \/ visit'[u].at = "walking" /\ visit'[u].no = visit[u].no /\ visit'[u].steady = {} /\ ~visit'[u].whole
           \/ visit'[u] = Away
  PROVE  TicketsInv'
<1>1. \A u \in Visitors : visit'[u].no \in {0, visit[u].no}
  BY AwayTyped
<1>2. \A u \in Visitors : visit[u].no \in Nat /\ visit[u].no <= tally.visits /\ visit[u] \in Visit
  BY TicketsAssumption DEF TicketsInv, TicketsTypeOK, Visit, Numbers
<1>3. tally.visits \in Nat
  BY TicketsAssumption DEF TicketsInv, TicketsTypeOK
<1>4. \A r \in TicketIds : r[2] # 0
  BY RowIds
<1>5. Numbers'
  <2>1. \A u \in Visitors : visit'[u].no <= tally'.visits
    BY <1>1, <1>2, <1>3
  <2>2. \A u, x \in Visitors : u # x /\ visit'[u].no = visit'[x].no => visit'[u].no = 0
    BY <1>1 DEF TicketsInv, Numbers
  <2>3. \A r \in TicketRows' : r[2] <= tally'.visits /\ \A u \in Visitors : visit'[u].no # r[2]
    BY <1>1, <1>4 DEF TicketsInv, Numbers, TicketRows
  <2> QED BY <2>1, <2>2, <2>3 DEF Numbers
<1>6. ASSUME NEW u \in Visitors
      PROVE  Walks(visit[u])'
  <2>1. CASE visit'[u] = Away
    BY <2>1, AwayTyped DEF Walks
  <2>2. CASE visit'[u].at = "walking" /\ visit'[u].steady = {} /\ ~visit'[u].whole
    BY <2>2 DEF Walks, Ahead
  <2>3. CASE visit'[u] = visit[u] /\ (visit[u].at = "walking" => UNCHANGED listing)
    <3>1. Walks(visit[u])
      BY DEF TicketsInv
    <3>2. Doomed(visit[u]) => Doomed(visit[u])'
      <4> SUFFICES ASSUME Doomed(visit[u]), NEW r \in visit[u].doomed
                   PROVE  /\ r[1] \notin visit[u].named \cup visit[u].steady
                          /\ r[2] <= tally'.visits /\ \A x \in Visitors : visit'[x].no # r[2]
                          /\ tickets'[r] # NoTicket => tickets'[r].hub
        BY <2>3 DEF Doomed
      <4>1. r \in TicketIds
        BY <1>2 DEF Visit
      <4>2. /\ r[1] \notin visit[u].named \cup visit[u].steady
            /\ r[2] <= tally.visits /\ (\A x \in Visitors : visit[x].no # r[2])
            /\ tickets[r] # NoTicket => tickets[r].hub
        BY DEF Doomed
      <4> QED BY <1>1, <1>4, <4>1, <4>2
    <3> QED BY <2>3, <3>1, <3>2 DEF Walks, Ahead
  <2> QED BY <2>1, <2>2, <2>3
<1> QED BY <1>5, <1>6 DEF TicketsInv

LEMMA HubLosesKeeps ==
  ASSUME TicketsInv, NEW p \in 1..Len(listing), HubLoses(p)
  PROVE  TicketsInv'
<1>1. listing \in Seq(WorkItems) /\ visit \in [Visitors -> Visit]
  BY DEF TicketsInv, TicketsTypeOK
<1>2. listing' \in Seq(WorkItems)
  <2> DEFINE a == SubSeq(listing, 1, p - 1)
             b == SubSeq(listing, p + 1, Len(listing))
  <2>1. Len(listing) \in Int /\ p \in Int /\ p - 1 \in Int /\ p + 1 \in Int /\ 1 <= p /\ p <= Len(listing)
    BY <1>1
  <2>2. /\ \A q \in 1 .. p - 1 : listing[q] \in WorkItems
        /\ \A q \in p + 1 .. Len(listing) : listing[q] \in WorkItems
    BY <1>1, <2>1
  <2> HIDE DEF a, b
  <2>3. a \in Seq(WorkItems) /\ b \in Seq(WorkItems)
    BY <2>1, <2>2, SubSeqProperties DEF a, b
  <2>4. listing' = a \o b
    BY DEF HubLoses, a, b
  <2> QED BY <2>3, <2>4, ConcatProperties
<1>3. UNCHANGED <<tickets, connections, inRuns>> /\ tally'.visits = tally.visits
      /\ tally' \in [visits : 0..MaxVisits, turns : 0..MaxTurns]
  <2>1. Turns /\ UNCHANGED <<tickets, connections, inRuns>>
    BY DEF HubLoses
  <2> QED BY <2>1, TurnsKeep DEF TicketsInv
<1>4. ASSUME NEW u \in Visitors
      PROVE  /\ visit'[u] \in Visit
             /\ \/ visit'[u] = visit[u] /\ visit[u].at # "walking"
                \/ visit'[u].at = "walking" /\ visit'[u].no = visit[u].no /\ visit'[u].steady = {} /\ ~visit'[u].whole
  <2>1. visit[u] \in Visit /\ Walks(visit[u])
    BY DEF TicketsInv, TicketsTypeOK
  <2>2. CASE visit[u].at = "walking"
    <3>1. visit'[u] = [visit[u] EXCEPT !.steady = {}]
      BY <2>2 DEF HubLoses, Standing
    <3> QED BY <2>1, <2>2, <3>1 DEF Visit, Walks
  <2>3. CASE visit[u].at # "walking"
    BY <2>1, <2>3 DEF HubLoses, Standing
  <2> QED BY <2>2, <2>3
<1>5. visit' \in [Visitors -> Visit]
  BY <1>4 DEF HubLoses
<1>6. TicketsTypeOK'
  BY <1>2, <1>3, <1>5 DEF TicketsInv, TicketsTypeOK
<1> QED BY <1>3, <1>4, <1>6, ThreadsChange

LEMMA RestartKeeps ==
  ASSUME TicketsInv, RestartServer
  PROVE  TicketsInv'
<1>1. UNCHANGED <<tickets, connections, listing, inRuns>> /\ tally'.visits = tally.visits
      /\ tally' \in [visits : 0..MaxVisits, turns : 0..MaxTurns]
  BY TicketsAssumption DEF RestartServer, Turns, TicketsInv, TicketsTypeOK
<1>2. visit' \in [Visitors -> Visit] /\ \A u \in Visitors : visit'[u] = Away
  BY AwayTyped DEF RestartServer
<1>3. TicketsTypeOK'
  BY <1>1, <1>2 DEF TicketsInv, TicketsTypeOK
<1> QED BY <1>1, <1>2, <1>3, ThreadsChange

-----------------------------------------------------------------------------
(* Tickets: the theorems.                                                 *)

LEMMA TicketsStep ==
  ASSUME TicketsInv, [TicketsNext]_ticketVars
  PROVE  TicketsInv'
<1>1. CASE TicketsNext
  <2>1. ASSUME NEW v \in Visitors, VisitNext(v)
        PROVE  TicketsInv'
    BY <2>1, VisitTicketsKeeps, MirrorEndsKeep, ReadPageKeeps, ReadMalformedKeeps, LoadMirroredKeeps, CommitMirrorKeeps,
       ReadThroughKeeps, SyncTicketsKeeps, SavesKeep, LookAtKeeps DEF VisitNext
  <2>2. CASE DeleteTickets \/ DeleteConnection
    BY <2>2, DeletionsKeep
  <2>3. CASE CreateConnection \/ ChangeRuns
    BY <2>3, OthersKeep
  <2>4. CASE ListingChanges
    BY <2>4, HubGainsKeeps, HubLosesKeeps DEF ListingChanges
  <2>5. CASE RestartServer
    BY <2>5, RestartKeeps
  <2> QED BY <1>1, <2>1, <2>2, <2>3, <2>4, <2>5 DEF TicketsNext
<1>2. CASE UNCHANGED ticketVars
  BY <1>2 DEF ticketVars, TicketsInv, TicketsTypeOK, Numbers, TicketRows, Walks, Ahead, Doomed, Listed
<1> QED BY <1>1, <1>2

LEMMA TicketsStart == TicketsInit => TicketsInv
<1> SUFFICES ASSUME TicketsInit
             PROVE  TicketsInv
  OBVIOUS
<1>1. TicketsTypeOK
  <2>1. \A n \in 0..PageCap + 1 : [1..n -> WorkItems] \subseteq Seq(WorkItems)
    BY TicketsAssumption
  <2>2. listing \in Seq(WorkItems)
    BY <2>1 DEF TicketsInit
  <2> QED BY <2>2, AwayTyped, TicketsAssumption DEF TicketsInit, TicketsTypeOK, Unloaded
<1>2. TicketRows = {}
  BY DEF TicketsInit, Unloaded, TicketRows
<1>3. \A v \in Visitors : visit[v] = Away
  BY DEF TicketsInit
<1>4. Numbers
  BY <1>2, <1>3, AwayTyped, TicketsAssumption DEF TicketsInit, Numbers
<1> QED BY <1>1, <1>3, <1>4, AwayTyped DEF TicketsInv, Walks

LEMMA TicketsInductive == TicketsSpec => []TicketsInv
<1>1. TicketsInit => TicketsInv
  BY TicketsStart
<1>2. TicketsInv /\ [TicketsNext]_ticketVars => TicketsInv'
  BY TicketsStep
<1> QED BY <1>1, <1>2, PTL DEF TicketsSpec

\* Every reachable state has its type.
THEOREM TicketsTyping == TicketsSpec => []TicketsTypeOK
<1>1. TicketsInv => TicketsTypeOK
  BY DEF TicketsInv
<1> QED BY <1>1, TicketsInductive, PTL

\* A mirror deletes no row that was not the Hub's, that a run named when the
\* prune looked, or that the Hub listed all through the walk (hub_workspace's
\* _prune_vanished, behind iter_all_tickets' word that it saw the whole list).
THEOREM PrunesSafely == TicketsSpec => PruneIsSafe
<1> DEFINE Safe == \A v \in Visitors : Standing(v, "committing") /\ ~Standing(v, "committing")' =>
                     \A r \in TicketRows : tickets'[r] = NoTicket =>
                       tickets[r].hub /\ r[1] \notin visit[v].named \cup visit[v].steady
<1>1. TicketsInv /\ [TicketsNext]_ticketVars => [Safe]_ticketVars
  <2> SUFFICES ASSUME TicketsInv, TicketsNext, NEW v \in Visitors,
                      Standing(v, "committing"), ~Standing(v, "committing")',
                      NEW r \in TicketRows, tickets'[r] = NoTicket
               PROVE  tickets[r].hub /\ r[1] \notin visit[v].named \cup visit[v].steady
    OBVIOUS
  <2>1. visit \in [Visitors -> Visit] /\ tickets[r] # NoTicket /\ visit[v].at = "committing"
    BY DEF TicketsInv, TicketsTypeOK, TicketRows, Standing
  <2>2. CASE CommitMirror(v)
    <3>1. r \in visit[v].doomed
      BY <2>2, CommitMirrorRows
    <3> QED BY <2>1, <3>1 DEF TicketsInv, Walks, Doomed
  <2>3. CASE CommitFails(v)
    BY <2>1, <2>3 DEF CommitFails
  <2>4. CASE \E u \in Visitors : VisitNext(u) /\ ~CommitMirror(v) /\ ~CommitFails(v)
    <3> SUFFICES ASSUME NEW u \in Visitors, VisitNext(u), ~CommitMirror(v), ~CommitFails(v)
                 PROVE  FALSE
      BY <2>4
    <3>1. \E s : visit' = [visit EXCEPT ![u] = s]
      BY DEF VisitNext, VisitTickets, HubFails, ReadPage, ReadMalformed, LoadMirrored, CommitMirror, CommitFails,
             ReadThrough, SyncTickets, SaveSync, SyncFails, LookAt, FillDetail, Begins, Goes
    <3>2. u = v
      BY <2>1, <3>1 DEF Standing
    <3> QED BY <2>1, <3>2 DEF VisitNext, VisitTickets, HubFails, ReadPage, ReadMalformed, LoadMirrored,
               ReadThrough, SyncTickets, SaveSync, SyncFails, LookAt, FillDetail, MayBegin, Standing
  <2>5. CASE DeleteTickets \/ DeleteConnection \/ CreateConnection \/ ChangeRuns
    BY <2>1, <2>5 DEF DeleteTickets, DeleteConnection, CreateConnection, ChangeRuns, Standing
  <2>6. CASE ListingChanges \/ RestartServer
    BY <2>1, <2>6 DEF ListingChanges, HubGains, HubLoses, RestartServer, TicketRows
  <2> QED BY <2>2, <2>3, <2>4, <2>5, <2>6 DEF TicketsNext
<1> QED BY <1>1, TicketsInductive, PTL DEF TicketsSpec, PruneIsSafe

\* No step that leaves a ticket's row takes what was fetched of it: not a sync
\* whose answer has no content (_apply_item writes only what is there), not a
\* commit of an older copy of the row.
THEOREM ContentStays == TicketsSpec => ContentKept
<1> DEFINE Kept == \A r \in TicketRows : tickets[r].content /\ tickets'[r] # NoTicket => tickets'[r].content
<1>1. TicketsInv /\ [TicketsNext]_ticketVars => [Kept]_ticketVars
  <2> SUFFICES ASSUME TicketsInv, TicketsNext, NEW r \in TicketRows, tickets[r].content, tickets'[r] # NoTicket
               PROVE  tickets'[r].content
    OBVIOUS
  <2>1. tickets \in [TicketIds -> Ticket \cup {NoTicket}] /\ tickets[r] # NoTicket /\ r \in TicketIds
    BY DEF TicketsInv, TicketsTypeOK, TicketRows
  <2>2. ASSUME NEW v \in Visitors
        PROVE  r[2] # visit[v].no
    BY DEF TicketsInv, Numbers
  <2>3. ASSUME NEW v \in Visitors, VisitNext(v)
        PROVE  tickets'[r].content
    <3>1. CASE CommitMirror(v)
      BY <2>1, <2>2, <3>1, CommitMirrorRows
    <3>2. CASE ReadThrough(v)
      BY <2>1, <3>2 DEF ReadThrough, RecordHubTicketIds, Ticket
    <3>3. CASE SaveSync(v)
      BY <2>1, <2>2, <3>3, SaveSyncRows
    <3>4. CASE FillDetail(v)
      BY <2>1, <3>4, FillDetailRows
    <3>5. CASE UNCHANGED tickets
      BY <3>5
    <3> QED BY <2>3, <3>1, <3>2, <3>3, <3>4, <3>5
            DEF VisitNext, VisitTickets, HubFails, ReadPage, ReadMalformed, LoadMirrored, CommitFails,
                SyncTickets, SyncFails, LookAt
  <2>4. CASE DeleteTickets
    BY <2>1, <2>4 DEF DeleteTickets
  <2>5. CASE DeleteConnection
    BY <2>1, <2>5 DEF DeleteConnection, Ticket
  <2>6. CASE CreateConnection \/ ChangeRuns \/ ListingChanges \/ RestartServer
    BY <2>6 DEF CreateConnection, ChangeRuns, ListingChanges, HubGains, HubLoses, RestartServer
  <2> QED BY <2>3, <2>4, <2>5, <2>6 DEF TicketsNext
<1> QED BY <1>1, TicketsInductive, PTL DEF TicketsSpec, ContentKept

-----------------------------------------------------------------------------
(* Credentials: the invariant.                                            *)

\* What a thread and a device hold has a place of its own, too.
CallerBears(s) ==
  /\ s.at \in {"pinning", "refreshing"} => s.run \in HubRuns /\ BelongsAt(EmeHub, s.paper)
  /\ s.at = "running" => s.dir \in Dirs
  /\ s.at = "writing" => s.dir \in Keys /\ s.paper \in Token /\ BelongsAt(s.dir, s.paper)
HostBears(s) == s.busy => s.key \in Keys /\ BelongsAt(s.key, s.paper)

CredentialsInv ==
  /\ CredentialsTypeOK
  /\ FiledUnderItsLogin
  /\ \A c \in Callers : CallerBears(caller[c])
  /\ \A h \in Hosts : HostBears(host[h])

LEMMA TokensTyped ==
  /\ \A l \in Logins : OriginalOf(l) \in Token /\ OriginalOf(l).login = l
  /\ Aside \in CallerState /\ Unused \in HostState /\ Aside.at = "away" /\ ~Unused.busy
  /\ Token \subseteq Paper /\ NoToken \in Paper /\ NoToken \notin Token /\ SignedOut \notin Token
  /\ Keys \subseteq Dirs /\ HubRuns \subseteq Dirs /\ Dirs = Keys \cup HubRuns /\ Keys \cap HubRuns = {}
  /\ NoToken \notin Dirs
<1>1. \A l \in Logins : OriginalOf(l) \in Token /\ OriginalOf(l).login = l
  BY CredentialsAssumption DEF OriginalOf, Token, Logins
<1>2. Aside \in CallerState /\ Unused \in HostState /\ Aside.at = "away" /\ ~Unused.busy
  BY DEF Aside, Unused, CallerState, HostState, Paper, Phases
<1> QED BY <1>1, <1>2, CredentialsAssumption DEF Paper, Dirs

LEMMA EffectiveTyped ==
  ASSUME NEW who \in Persons \cup {NoToken}
  PROVE  EffectiveKey(who) \in Keys
  BY CredentialsAssumption DEF EffectiveKey, Keys

\* What is put or brought somewhere stays known.
LEMMA StaysFiled ==
  ASSUME uses.put \subseteq uses'.put, uses.astray \subseteq uses'.astray
  PROVE  /\ \A place, paper : BelongsAt(place, paper) => BelongsAt(place, paper)'
         /\ \A s : CallerBears(s) => CallerBears(s)'
         /\ \A s : HostBears(s) => HostBears(s)'
<1>1. \A place, paper : BelongsAt(place, paper) => BelongsAt(place, paper)'
  BY DEF BelongsAt
<1>2. \A s : CallerBears(s) => CallerBears(s)'
  BY <1>1 DEF CallerBears
<1>3. \A s : HostBears(s) => HostBears(s)'
  BY <1>1 DEF HostBears
<1> QED BY <1>1, <1>2, <1>3

\* A thread that turns to a state that is in order leaves the threads in order.
LEMMA TurnsInOrder ==
  ASSUME CredentialsInv, NEW c \in Callers, NEW s \in CallerState, Turn(c, s), CallerBears(s)', UNCHANGED uses
  PROVE  caller' \in [Callers -> CallerState] /\ \A d \in Callers : CallerBears(caller[d])'
<1>1. caller' \in [Callers -> CallerState] /\ caller'[c] = s
  BY DEF Turn, CredentialsInv, CredentialsTypeOK
<1>2. \A d \in Callers : d # c => caller'[d] = caller[d] /\ CallerBears(caller[d])
  BY DEF Turn, CredentialsInv, CredentialsTypeOK
<1>3. ASSUME NEW d \in Callers
      PROVE  CallerBears(caller[d])'
  <2>1. CASE d = c
    BY <1>1, <2>1 DEF CallerBears, BelongsAt
  <2>2. CASE d # c
    BY <1>2, <2>2 DEF CallerBears, BelongsAt
  <2> QED BY <2>1, <2>2
<1> QED BY <1>1, <1>3

LEMMA HostsInOrder ==
  ASSUME CredentialsInv, NEW h \in Hosts, NEW s \in HostState, host' = [host EXCEPT ![h] = s], HostBears(s)', 
         uses.put \subseteq uses'.put, uses.astray \subseteq uses'.astray
  PROVE  host' \in [Hosts -> HostState] /\ \A g \in Hosts : HostBears(host[g])'
<1>1. host' \in [Hosts -> HostState] /\ host'[h] = s
  BY DEF CredentialsInv, CredentialsTypeOK
<1>2. \A g \in Hosts : g # h => host'[g] = host[g] /\ HostBears(host[g])
  BY DEF CredentialsInv, CredentialsTypeOK
<1>3. ASSUME NEW g \in Hosts
      PROVE  HostBears(host[g])'
  <2>1. CASE g = h
    BY <1>1, <2>1 DEF HostBears, BelongsAt
  <2>2. CASE g # h
    BY <1>2, <2>2, StaysFiled DEF HostBears
  <2> QED BY <2>1, <2>2
<1> QED BY <1>1, <1>3

LEMMA CallersStay ==
  ASSUME CredentialsInv, UNCHANGED caller, uses.put \subseteq uses'.put, uses.astray \subseteq uses'.astray
  PROVE  caller' \in [Callers -> CallerState] /\ \A c \in Callers : CallerBears(caller[c])'
<1>1. \A c \in Callers : caller'[c] = caller[c] /\ CallerBears(caller[c])
  BY DEF CredentialsInv
<1>2. \A c \in Callers : CallerBears(caller[c])'
  BY <1>1, StaysFiled DEF CallerBears
<1> QED BY <1>2 DEF CredentialsInv, CredentialsTypeOK

LEMMA HostsStay ==
  ASSUME CredentialsInv, UNCHANGED host, uses.put \subseteq uses'.put, uses.astray \subseteq uses'.astray
  PROVE  host' \in [Hosts -> HostState] /\ \A h \in Hosts : HostBears(host[h])'
<1>1. \A h \in Hosts : host'[h] = host[h] /\ HostBears(host[h])
  BY DEF CredentialsInv
<1>2. \A h \in Hosts : HostBears(host[h])'
  BY <1>1, StaysFiled DEF HostBears
<1> QED BY <1>2 DEF CredentialsInv, CredentialsTypeOK

-----------------------------------------------------------------------------
(* Credentials: people and time.                                          *)

LEMMA GestureTyped ==
  ASSUME CredentialsInv, Gesture
  PROVE  gestures' \in 0..MaxGestures
  BY CredentialsAssumption DEF Gesture, CredentialsInv, CredentialsTypeOK

LEMMA PeopleKeeps ==
  ASSUME CredentialsInv, NEW k, NEW l, NEW p, NEW r,
         \/ k \in Keys /\ l \in Logins /\ UploadCredential(k, l)
         \/ k \in Keys /\ DeleteCredential(k)
         \/ p \in Persons /\ SetPreferredMode(p)
         \/ l \in Logins /\ ConnectAtHub(l)
         \/ DisconnectAtHub
         \/ GrantExpires(r)
         \/ r \in HubRuns /\ RefuseRun(r)
         \/ p \in Persons /\ CheckReadiness(p)
  PROVE  CredentialsInv'
<1>1. /\ Gesture /\ UNCHANGED <<hubOn, captured, caller, host, newest>>
      /\ uses.put \subseteq uses'.put /\ uses'.astray = uses.astray
      /\ uses'.put \subseteq uses.put \cup {<<l, k>>, <<l, EmeHub>>}
      /\ uses' \in [put : SUBSET (Logins \X (Keys \cup {EmeHub})), astray : SUBSET (Logins \X (Keys \cup {EmeHub}))]
  <2>1. uses \in [put : SUBSET (Logins \X (Keys \cup {EmeHub})), astray : SUBSET (Logins \X (Keys \cup {EmeHub}))]
    BY DEF CredentialsInv, CredentialsTypeOK
  <2> QED BY <2>1 DEF UploadCredential, DeleteCredential, SetPreferredMode, ConnectAtHub, DisconnectAtHub, GrantExpires,
                      RefuseRun, CheckReadiness, PutBy
<1>2. /\ gestures' \in 0..MaxGestures
      /\ caller' \in [Callers -> CallerState] /\ \A c \in Callers : CallerBears(caller[c])'
      /\ host' \in [Hosts -> HostState] /\ \A h \in Hosts : HostBears(host[h])'
  BY <1>1, GestureTyped, CallersStay, HostsStay
<1>3. prefers' \in SUBSET Persons /\ grants' \in SUBSET HubRuns
  BY DEF UploadCredential, DeleteCredential, SetPreferredMode, ConnectAtHub, DisconnectAtHub, GrantExpires,
         RefuseRun, CheckReadiness, CredentialsInv, CredentialsTypeOK
<1>4. /\ stored' \in [Keys -> Token \cup {NoToken}]
      /\ \A j \in Keys : \/ stored'[j] = stored[j] \/ stored'[j] \notin Token
                         \/ (stored'[j] = OriginalOf(l) /\ <<l, j>> \in uses'.put)
  <2> USE DEF CredentialsInv, CredentialsTypeOK
  <2>1. CASE k \in Keys /\ l \in Logins /\ UploadCredential(k, l)
    BY <2>1, TokensTyped DEF UploadCredential, PutBy
  <2>2. CASE DeleteCredential(k)
    BY <2>2, TokensTyped DEF DeleteCredential
  <2>3. CASE UNCHANGED stored
    BY <2>3
  <2> QED BY <2>1, <2>2, <2>3 DEF SetPreferredMode, ConnectAtHub, DisconnectAtHub, GrantExpires, RefuseRun, CheckReadiness
<1>5. /\ hubHas' \in Token \cup {NoToken}
      /\ \/ hubHas' = hubHas
         \/ hubHas' \notin Token
         \/ (hubHas' = OriginalOf(l) /\ <<l, EmeHub>> \in uses'.put)
  <2> USE DEF CredentialsInv, CredentialsTypeOK
  <2>1. CASE l \in Logins /\ ConnectAtHub(l)
    BY <2>1, TokensTyped DEF ConnectAtHub, PutBy
  <2>2. CASE DisconnectAtHub
    BY <2>2, TokensTyped DEF DisconnectAtHub
  <2>3. CASE UNCHANGED hubHas
    BY <2>3
  <2> QED BY <2>1, <2>2, <2>3 DEF UploadCredential, DeleteCredential, SetPreferredMode, GrantExpires, RefuseRun, CheckReadiness
<1>6. /\ onDisk' \in [Dirs -> Paper]
      /\ \A d \in Dirs : onDisk'[d] = onDisk[d] \/ onDisk'[d] \notin Token \/ (d \in Keys /\ onDisk'[d] = stored[d])
  <2> USE DEF CredentialsInv, CredentialsTypeOK
  <2>1. CASE r \in HubRuns /\ RefuseRun(r)
    BY <2>1, TokensTyped DEF RefuseRun
  <2>2. CASE p \in Persons /\ CheckReadiness(p)
    <3>1. EffectiveKey(p) \in Keys
      BY <2>2, EffectiveTyped
    <3> QED BY <2>2, <3>1, TokensTyped DEF CheckReadiness, Materialized, Paper
  <2>3. CASE UNCHANGED onDisk
    BY <2>3
  <2> QED BY <2>1, <2>2, <2>3 DEF UploadCredential, DeleteCredential, SetPreferredMode, ConnectAtHub, DisconnectAtHub, GrantExpires
<1>7. CredentialsTypeOK'
  BY <1>1, <1>2, <1>3, <1>4, <1>5, <1>6 DEF CredentialsInv, CredentialsTypeOK
<1>8. FiledUnderItsLogin'
  <2>1. \A j \in Keys : BelongsAt(j, stored[j])'
    BY <1>1, <1>4, TokensTyped DEF CredentialsInv, FiledUnderItsLogin, BelongsAt
  <2>2. BelongsAt(EmeHub, hubHas)'
    BY <1>1, <1>5, TokensTyped DEF CredentialsInv, FiledUnderItsLogin, BelongsAt
  <2>3. \A j \in Keys : BelongsAt(j, onDisk[j])'
    BY <1>1, <1>6, TokensTyped DEF CredentialsInv, FiledUnderItsLogin, BelongsAt
  <2>4. \A q \in HubRuns : BelongsAt(EmeHub, onDisk[q])'
    BY <1>1, <1>6, TokensTyped DEF CredentialsInv, FiledUnderItsLogin, BelongsAt
  <2> QED BY <2>1, <2>2, <2>3, <2>4 DEF FiledUnderItsLogin
<1> QED BY <1>2, <1>7, <1>8 DEF CredentialsInv

-----------------------------------------------------------------------------
(* Credentials: the calls of a thread.                                    *)

LEMMA CallKeeps ==
  ASSUME CredentialsInv, NEW c \in Callers, NEW s \in CallerState, Turn(c, s), CallerBears(s),
         UNCHANGED <<prefers, hubOn, host, newest, uses, gestures>>,
         grants' \in SUBSET HubRuns, captured' \in [HubRuns -> 0..MaxIssued],
         stored' \in [Keys -> Token \cup {NoToken}], hubHas' \in Token \cup {NoToken}, onDisk' \in [Dirs -> Paper],
         \A k \in Keys : BelongsAt(k, stored'[k]) /\ BelongsAt(k, onDisk'[k]),
         BelongsAt(EmeHub, hubHas'), \A r \in HubRuns : BelongsAt(EmeHub, onDisk'[r])
  PROVE  CredentialsInv'
<1>1. CallerBears(s)'
  BY StaysFiled
<1>2. caller' \in [Callers -> CallerState] /\ \A d \in Callers : CallerBears(caller[d])'
  BY <1>1, TurnsInOrder
<1>3. host' \in [Hosts -> HostState] /\ \A h \in Hosts : HostBears(host[h])'
  BY HostsStay
<1>4. CredentialsTypeOK'
  BY <1>2, <1>3 DEF CredentialsInv, CredentialsTypeOK
<1>5. FiledUnderItsLogin'
  BY DEF FiledUnderItsLogin, BelongsAt
<1> QED BY <1>2, <1>3, <1>4, <1>5 DEF CredentialsInv

LEMMA CaptureTyped ==
  ASSUME CredentialsInv, NEW r \in HubRuns, NEW paper \in Paper, CaptureRotated(r, paper)
  PROVE  /\ captured' \in [HubRuns -> 0..MaxIssued]
         /\ hubHas' \in Token \cup {NoToken}
         /\ hubHas' # hubHas => paper \in Token /\ hubHas' = paper
<1>1. paper \in Token => paper.no \in 0..MaxIssued
  BY CredentialsAssumption DEF Token
<1> QED BY <1>1 DEF CaptureRotated, CredentialsInv, CredentialsTypeOK

LEMMA FilesTyped ==
  ASSUME CredentialsInv
  PROVE  /\ \A k \in Keys : stored[k] \in Token \cup {NoToken} /\ BelongsAt(k, stored[k])
         /\ \A k \in Keys : onDisk[k] \in Paper /\ BelongsAt(k, onDisk[k])
         /\ \A r \in HubRuns : onDisk[r] \in Paper /\ BelongsAt(EmeHub, onDisk[r])
         /\ hubHas \in Token \cup {NoToken} /\ BelongsAt(EmeHub, hubHas)
         /\ \A c \in Callers : caller[c] \in CallerState /\ CallerBears(caller[c])
         /\ \A h \in Hosts : host[h] \in HostState /\ HostBears(host[h])
         /\ Token \cup {NoToken} \subseteq Paper
  BY TokensTyped DEF CredentialsInv, CredentialsTypeOK, FiledUnderItsLogin

LEMMA CallStateTyped ==
  ASSUME NEW s \in CallerState
  PROVE  /\ s.at \in Phases /\ s.who \in Persons \cup {NoToken} /\ s.run \in HubRuns \cup {NoToken}
         /\ s.dir \in Dirs \cup {NoToken} /\ s.paper \in Paper
         /\ \A at \in Phases, dir \in Dirs \cup {NoToken}, paper \in Paper :
              [s EXCEPT !.at = at, !.dir = dir, !.paper = paper] \in CallerState
  BY DEF CallerState

LEMMA AskKeeps ==
  ASSUME CredentialsInv, NEW c \in Callers, NEW r \in HubRuns, AskForRun(c, r)
  PROVE  CredentialsInv'
<1> DEFINE s == [Aside EXCEPT !.at = "pinning", !.run = r, !.paper = hubHas]
<1>1. s \in CallerState /\ CallerBears(s)
  BY FilesTyped, TokensTyped DEF CallerState, Aside, Phases, CallerBears
<1> HIDE DEF s
<1>2. Turn(c, s)
  BY DEF AskForRun, s
<1>3. CredentialsTypeOK /\ FiledUnderItsLogin
  BY DEF CredentialsInv
<1> QED BY <1>1, <1>2, <1>3, CallKeeps, FilesTyped DEF AskForRun, CredentialsTypeOK

LEMMA PinKeeps ==
  ASSUME CredentialsInv, NEW c \in Callers, PinForRun(c)
  PROVE  CredentialsInv'
<1> DEFINE r == caller[c].run
<1>1. r \in HubRuns /\ caller[c].paper \in Paper /\ BelongsAt(EmeHub, caller[c].paper)
  BY FilesTyped, CallStateTyped DEF PinForRun, CallerAt, CallerBears
<1>2. onDisk' = [onDisk EXCEPT ![r] = caller[c].paper]
  BY DEF PinForRun
<1> HIDE DEF r
<1>3. /\ onDisk' \in [Dirs -> Paper]
      /\ \A k \in Keys : BelongsAt(k, onDisk'[k])
      /\ \A q \in HubRuns : BelongsAt(EmeHub, onDisk'[q])
  BY <1>1, <1>2, FilesTyped, TokensTyped DEF CredentialsInv, CredentialsTypeOK
<1>4. grants' \in SUBSET HubRuns
  BY <1>1 DEF PinForRun, CredentialsInv, CredentialsTypeOK, r
<1>5. Aside \in CallerState /\ CallerBears(Aside)
  BY TokensTyped DEF CallerBears
<1> QED BY <1>3, <1>4, <1>5, CallKeeps, FilesTyped DEF PinForRun, CredentialsInv, CredentialsTypeOK

LEMMA BeginKeeps ==
  ASSUME CredentialsInv, NEW c \in Callers, BeginCall(c)
  PROVE  CredentialsInv'
<1>1. PICK who \in Persons \cup {NoToken}, r \in HubRuns \cup {NoToken} :
        LET call == [Aside EXCEPT !.at = "resolving", !.who = who, !.run = r]
        IN  \/ Turn(c, call)
            \/ /\ hubOn /\ r \in grants /\ onDisk[r] # NoToken /\ hubHas # NoToken
               /\ Turn(c, [call EXCEPT !.at = "refreshing", !.paper = hubHas])
  BY DEF BeginCall
<1> DEFINE call == [Aside EXCEPT !.at = "resolving", !.who = who, !.run = r]
           asked == [call EXCEPT !.at = "refreshing", !.paper = hubHas]
<1>2. call \in CallerState /\ CallerBears(call)
  BY TokensTyped DEF CallerState, Aside, Phases, CallerBears
<1>3. asked \in CallerState /\ (r \in HubRuns => CallerBears(asked))
  BY FilesTyped, TokensTyped DEF CallerState, Aside, Phases, CallerBears
<1>4. PICK s \in {call, asked} : Turn(c, s) /\ CallerBears(s)
  BY <1>1, <1>2, <1>3 DEF CredentialsInv, CredentialsTypeOK
<1> HIDE DEF call, asked
<1>5. s \in CallerState
  BY <1>2, <1>3
<1> QED BY <1>4, <1>5, CallKeeps, FilesTyped DEF BeginCall, CredentialsInv, CredentialsTypeOK

LEMMA RefreshKeeps ==
  ASSUME CredentialsInv, NEW c \in Callers, RefreshRun(c)
  PROVE  CredentialsInv'
<1> DEFINE call == caller[c]
           file == onDisk[call.run]
           s == [call EXCEPT !.at = "resolving", !.paper = NoToken]
<1>1. call \in CallerState /\ call.run \in HubRuns /\ call.paper \in Paper /\ BelongsAt(EmeHub, call.paper)
  BY FilesTyped, CallStateTyped DEF RefreshRun, CallerAt, CallerBears
<1>2. s \in CallerState /\ CallerBears(s)
  BY <1>1, TokensTyped DEF CallerState, Phases, CallerBears
<1>3. file \in Paper /\ BelongsAt(EmeHub, file)
  BY <1>1, FilesTyped
<1>4. Turn(c, s) /\ UNCHANGED <<stored, prefers, hubOn, grants, host, newest, uses, gestures>>
  BY DEF RefreshRun
<1>5. \/ CaptureRotated(call.run, file) /\ onDisk' = onDisk
      \/ onDisk' = [onDisk EXCEPT ![call.run] = call.paper] /\ UNCHANGED <<captured, hubHas>>
  BY DEF RefreshRun
<1> HIDE DEF call, file, s
<1>6. CASE CaptureRotated(call.run, file) /\ onDisk' = onDisk
  <2>1. /\ captured' \in [HubRuns -> 0..MaxIssued]
        /\ hubHas' \in Token \cup {NoToken} /\ BelongsAt(EmeHub, hubHas')
    BY <1>1, <1>3, <1>6, CaptureTyped, FilesTyped
  <2> QED BY <1>2, <1>4, <1>6, <2>1, CallKeeps, FilesTyped DEF CredentialsInv, CredentialsTypeOK
<1>7. CASE onDisk' = [onDisk EXCEPT ![call.run] = call.paper] /\ UNCHANGED <<captured, hubHas>>
  <2>1. /\ onDisk' \in [Dirs -> Paper]
        /\ \A k \in Keys : BelongsAt(k, onDisk'[k])
        /\ \A q \in HubRuns : BelongsAt(EmeHub, onDisk'[q])
    BY <1>1, <1>7, FilesTyped, TokensTyped DEF CredentialsInv, CredentialsTypeOK
  <2> QED BY <1>2, <1>4, <1>7, <2>1, CallKeeps, FilesTyped DEF CredentialsInv, CredentialsTypeOK
<1> QED BY <1>5, <1>6, <1>7

\* The file of a row is written anew from it.
LEMMA MaterializedFiles ==
  ASSUME CredentialsInv, NEW k \in Keys, Materialized(k)
  PROVE  /\ onDisk' \in [Dirs -> Paper]
         /\ \A j \in Keys : BelongsAt(j, onDisk'[j])
         /\ \A q \in HubRuns : BelongsAt(EmeHub, onDisk'[q])
  BY FilesTyped, TokensTyped DEF Materialized, CredentialsInv, CredentialsTypeOK

LEMMA ResolveKeeps ==
  ASSUME CredentialsInv, NEW c \in Callers, ResolveCall(c)
  PROVE  CredentialsInv'
<1> DEFINE call == caller[c]
           k == EffectiveKey(call.who)
           pinned == [call EXCEPT !.at = "running", !.dir = call.run]
           local == [call EXCEPT !.at = "running", !.dir = k]
<1>1. call \in CallerState /\ k \in Keys
  BY FilesTyped, CallStateTyped, EffectiveTyped
<1>2. call.run # NoToken => pinned \in CallerState /\ CallerBears(pinned)
  BY <1>1, TokensTyped DEF CallerState, Phases, CallerBears
<1>3. local \in CallerState /\ CallerBears(local)
  BY <1>1, TokensTyped DEF CallerState, Phases, CallerBears
<1>4. Aside \in CallerState /\ CallerBears(Aside)
  BY TokensTyped DEF CallerBears
<1>5. /\ UNCHANGED <<stored, prefers, hubHas, hubOn, grants, captured, host, newest, uses, gestures>>
      /\ \/ Turn(c, pinned) /\ call.run # NoToken /\ onDisk' = onDisk
         \/ Turn(c, local) /\ Materialized(k)
         \/ Turn(c, Aside) /\ onDisk' = onDisk
  BY DEF ResolveCall
<1> HIDE DEF call, k, pinned, local
<1>6. /\ onDisk' \in [Dirs -> Paper]
      /\ \A j \in Keys : BelongsAt(j, onDisk'[j])
      /\ \A q \in HubRuns : BelongsAt(EmeHub, onDisk'[q])
  BY <1>1, <1>5, MaterializedFiles, FilesTyped DEF CredentialsInv, CredentialsTypeOK
<1>7. PICK s \in CallerState : Turn(c, s) /\ CallerBears(s)
  BY <1>2, <1>3, <1>4, <1>5
<1> QED BY <1>5, <1>6, <1>7, CallKeeps, FilesTyped DEF CredentialsInv, CredentialsTypeOK

LEMMA TestKeeps ==
  ASSUME CredentialsInv, NEW c \in Callers, TestCredential(c)
  PROVE  CredentialsInv'
<1>1. PICK p \in Persons, k \in Keys :
        Turn(c, [Aside EXCEPT !.at = "running", !.who = p, !.dir = k]) /\ Materialized(k)
  BY DEF TestCredential
<1> DEFINE s == [Aside EXCEPT !.at = "running", !.who = p, !.dir = k]
<1>2. s \in CallerState /\ CallerBears(s)
  BY TokensTyped DEF CallerState, Aside, Phases, CallerBears
<1>3. Turn(c, s)
  BY <1>1
<1> HIDE DEF s
<1>4. /\ onDisk' \in [Dirs -> Paper]
      /\ \A j \in Keys : BelongsAt(j, onDisk'[j])
      /\ \A q \in HubRuns : BelongsAt(EmeHub, onDisk'[q])
  BY <1>1, MaterializedFiles
<1> QED BY <1>2, <1>3, <1>4, CallKeeps, FilesTyped DEF TestCredential, CredentialsInv, CredentialsTypeOK

LEMMA EndKeeps ==
  ASSUME CredentialsInv, NEW c \in Callers, EndCall(c)
  PROVE  CredentialsInv'
<1> DEFINE kept == [caller[c] EXCEPT !.at = "keeping"]
<1>1. kept \in CallerState /\ CallerBears(kept)
  BY FilesTyped DEF CallerState, Phases, CallerBears
<1>2. Aside \in CallerState /\ CallerBears(Aside)
  BY TokensTyped DEF CallerBears
<1>3. PICK s \in CallerState : Turn(c, s) /\ CallerBears(s)
  BY <1>1, <1>2 DEF EndCall
<1> QED BY <1>3, CallKeeps, FilesTyped DEF EndCall, CredentialsInv, CredentialsTypeOK

LEMMA ReadBackKeeps ==
  ASSUME CredentialsInv, NEW c \in Callers, ReadBack(c)
  PROVE  CredentialsInv'
<1> DEFINE call == caller[c]
           k == EffectiveKey(call.who)
           writes == [call EXCEPT !.at = "writing", !.dir = k, !.paper = onDisk[k]]
           skips == [call EXCEPT !.at = "capturing"]
<1>1. call \in CallerState /\ k \in Keys
  BY FilesTyped, CallStateTyped, EffectiveTyped
<1>2. writes \in CallerState /\ (Newer(onDisk[k], stored[k]) => CallerBears(writes))
  BY <1>1, FilesTyped, TokensTyped DEF CallerState, Phases, CallerBears, Newer
<1>3. skips \in CallerState /\ CallerBears(skips)
  BY <1>1 DEF CallerState, Phases, CallerBears
<1>4. (Turn(c, writes) /\ Newer(onDisk[k], stored[k])) \/ Turn(c, skips)
  BY DEF ReadBack, WriteBackFrom
<1>5. PICK s \in CallerState : Turn(c, s) /\ CallerBears(s)
  BY <1>2, <1>3, <1>4
<1> QED BY <1>5, CallKeeps, FilesTyped DEF ReadBack, CredentialsInv, CredentialsTypeOK

LEMMA WriteBackKeeps ==
  ASSUME CredentialsInv, NEW c \in Callers, WriteBack(c)
  PROVE  CredentialsInv'
<1> DEFINE call == caller[c]
           k == call.dir
           s == [call EXCEPT !.at = "capturing", !.paper = NoToken]
<1>1. call \in CallerState /\ k \in Keys /\ call.paper \in Paper /\ BelongsAt(k, call.paper)
  BY FilesTyped, CallStateTyped DEF WriteBack, CallerAt, CallerBears
<1>2. s \in CallerState /\ CallerBears(s)
  BY <1>1, TokensTyped DEF CallerState, Phases, CallerBears
<1>3. /\ Turn(c, s) /\ UNCHANGED <<prefers, hubHas, hubOn, onDisk, grants, captured, host, newest, uses, gestures>>
      /\ stored' = [stored EXCEPT ![k] = IF @ = NoToken THEN @ ELSE call.paper]
  BY DEF WriteBack
<1>4. call.paper \in Token
  BY FilesTyped DEF WriteBack, CallerAt, CallerBears
<1> HIDE DEF call, k, s
<1>5. stored' \in [Keys -> Token \cup {NoToken}] /\ \A j \in Keys : BelongsAt(j, stored'[j])
  BY <1>1, <1>3, <1>4, FilesTyped DEF CredentialsInv, CredentialsTypeOK
<1> QED BY <1>2, <1>3, <1>5, CallKeeps, FilesTyped DEF CredentialsInv, CredentialsTypeOK

LEMMA CaptureKeeps ==
  ASSUME CredentialsInv, NEW c \in Callers, CaptureCall(c)
  PROVE  CredentialsInv'
<1>1. Aside \in CallerState /\ CallerBears(Aside)
  BY TokensTyped DEF CallerBears
<1>2. /\ captured' \in [HubRuns -> 0..MaxIssued]
      /\ hubHas' \in Token \cup {NoToken} /\ BelongsAt(EmeHub, hubHas')
  <2>1. CASE caller[c].run \in HubRuns
    <3> DEFINE r == caller[c].run
    <3>1. CaptureRotated(r, onDisk[r])
      BY <2>1 DEF CaptureCall
    <3>2. onDisk[r] \in Paper /\ BelongsAt(EmeHub, onDisk[r])
      BY <2>1, FilesTyped
    <3> HIDE DEF r
    <3> QED BY <2>1, <3>1, <3>2, CaptureTyped, FilesTyped DEF r
  <2>2. CASE caller[c].run \notin HubRuns
    BY <2>2, FilesTyped DEF CaptureCall, CredentialsInv, CredentialsTypeOK
  <2> QED BY <2>1, <2>2
<1> QED BY <1>1, <1>2, CallKeeps, FilesTyped DEF CaptureCall, CredentialsInv, CredentialsTypeOK

-----------------------------------------------------------------------------
(* Credentials: the CLI, the devices, a restart.                          *)

\* The CLI leaves a token of the same login, or none.
LEMMA RefreshedTyped ==
  ASSUME CredentialsInv, NEW paper \in Paper, NEW after \in Paper, RefreshedTo(paper, after)
  PROVE  /\ newest' \in [Logins -> 1..MaxIssued]
         /\ \A place : BelongsAt(place, paper) => BelongsAt(place, after)
<1>1. CASE after = SignedOut /\ newest' = newest
  BY <1>1, TokensTyped DEF CredentialsInv, CredentialsTypeOK, BelongsAt
<1>2. ASSUME NEW n \in 1..MaxIssued, after = [paper EXCEPT !.no = n], paper \in Token,
             newest' = [newest EXCEPT ![paper.login] = after.no]
      PROVE  /\ newest' \in [Logins -> 1..MaxIssued]
             /\ \A place : BelongsAt(place, paper) => BelongsAt(place, after)
  <2>1. after \in Token /\ after.no = n /\ after.login = paper.login
    BY <1>2 DEF Token
  <2> QED BY <1>2, <2>1 DEF CredentialsInv, CredentialsTypeOK, BelongsAt
<1> QED BY <1>1, <1>2 DEF RefreshedTo

LEMMA CliKeeps ==
  ASSUME CredentialsInv, NEW c \in Callers, CliRotates(c)
  PROVE  CredentialsInv'
<1> DEFINE d == caller[c].dir
<1>1. d \in Dirs
  BY FilesTyped DEF CliRotates, CallerAt, CallerBears
<1>2. PICK after \in Paper : RefreshedTo(onDisk[d], after) /\ onDisk' = [onDisk EXCEPT ![d] = after]
  BY DEF CliRotates
<1>3. UNCHANGED <<stored, prefers, hubHas, hubOn, grants, captured, caller, host, uses, gestures>>
  BY DEF CliRotates
<1> HIDE DEF d
<1>4. onDisk[d] \in Paper
  BY <1>1 DEF CredentialsInv, CredentialsTypeOK
<1>5. newest' \in [Logins -> 1..MaxIssued] /\ \A place : BelongsAt(place, onDisk[d]) => BelongsAt(place, after)
  BY <1>2, <1>4, RefreshedTyped
<1>6. /\ caller' \in [Callers -> CallerState] /\ \A b \in Callers : CallerBears(caller[b])'
      /\ host' \in [Hosts -> HostState] /\ \A h \in Hosts : HostBears(host[h])'
  BY <1>3, CallersStay, HostsStay
<1>7. onDisk' \in [Dirs -> Paper]
  BY <1>2 DEF CredentialsInv, CredentialsTypeOK
<1>8. /\ \A k \in Keys : BelongsAt(k, onDisk'[k])
      /\ \A r \in HubRuns : BelongsAt(EmeHub, onDisk'[r])
  BY <1>1, <1>2, <1>5, FilesTyped, TokensTyped DEF CredentialsInv, CredentialsTypeOK
<1>9. FiledUnderItsLogin'
  BY <1>3, <1>8, FilesTyped DEF FiledUnderItsLogin, BelongsAt
<1>10. CredentialsTypeOK'
  BY <1>3, <1>5, <1>6, <1>7 DEF CredentialsInv, CredentialsTypeOK
<1> QED BY <1>6, <1>9, <1>10 DEF CredentialsInv

\* A step of a device which leaves the rows and EmeHub alone.
LEMMA HostKeeps ==
  ASSUME CredentialsInv, NEW h \in Hosts, NEW s \in HostState, host' = [host EXCEPT ![h] = s], HostBears(s),
         UNCHANGED <<stored, prefers, hubHas, hubOn, grants, captured, caller, uses>>,
         newest' \in [Logins -> 1..MaxIssued], gestures' \in 0..MaxGestures, onDisk' \in [Dirs -> Paper],
         \A k \in Keys : BelongsAt(k, onDisk'[k]), \A r \in HubRuns : BelongsAt(EmeHub, onDisk'[r])
  PROVE  CredentialsInv'
<1>1. HostBears(s)'
  BY StaysFiled
<1>2. host' \in [Hosts -> HostState] /\ \A g \in Hosts : HostBears(host[g])'
  BY <1>1, HostsInOrder
<1>3. caller' \in [Callers -> CallerState] /\ \A c \in Callers : CallerBears(caller[c])'
  BY CallersStay
<1>4. CredentialsTypeOK'
  BY <1>2, <1>3 DEF CredentialsInv, CredentialsTypeOK
<1>5. FiledUnderItsLogin'
  BY FilesTyped DEF FiledUnderItsLogin, BelongsAt
<1> QED BY <1>2, <1>3, <1>4, <1>5 DEF CredentialsInv

LEMMA ClaimKeeps ==
  ASSUME CredentialsInv, NEW h \in Hosts, HostClaims(h)
  PROVE  CredentialsInv'
<1>1. PICK p \in Persons, r \in HubRuns \cup {NoToken} :
        /\ Materialized(EffectiveKey(p))
        /\ host' = [host EXCEPT ![h] = [busy |-> TRUE, who |-> p, run |-> r, key |-> EffectiveKey(p),
                                        paper |-> stored[EffectiveKey(p)]]]
  BY DEF HostClaims
<1> DEFINE k == EffectiveKey(p)
           s == [busy |-> TRUE, who |-> p, run |-> r, key |-> k, paper |-> stored[k]]
<1>2. k \in Keys
  BY EffectiveTyped
<1> HIDE DEF k
<1>3. s \in HostState /\ HostBears(s)
  BY <1>2, FilesTyped, TokensTyped DEF HostState, HostBears
<1>4. host' = [host EXCEPT ![h] = s] /\ Materialized(k)
  BY <1>1 DEF k
<1> HIDE DEF s
<1>5. /\ onDisk' \in [Dirs -> Paper]
      /\ \A j \in Keys : BelongsAt(j, onDisk'[j])
      /\ \A q \in HubRuns : BelongsAt(EmeHub, onDisk'[q])
  BY <1>2, <1>4, MaterializedFiles
<1> QED BY <1>3, <1>4, <1>5, HostKeeps DEF HostClaims, CredentialsInv, CredentialsTypeOK

LEMMA HostRotatesKeeps ==
  ASSUME CredentialsInv, NEW h \in Hosts, HostRotates(h)
  PROVE  CredentialsInv'
<1> DEFINE w == host[h]
<1>1. w \in HostState /\ w.busy /\ w.paper \in Paper /\ HostBears(w)
  BY FilesTyped DEF HostRotates, HostState
<1>2. PICK after \in Paper : RefreshedTo(w.paper, after) /\ host' = [host EXCEPT ![h].paper = after]
  BY DEF HostRotates
<1> DEFINE s == [w EXCEPT !.paper = after]
<1>3. newest' \in [Logins -> 1..MaxIssued] /\ \A place : BelongsAt(place, w.paper) => BelongsAt(place, after)
  BY <1>1, <1>2, RefreshedTyped
<1>4. s \in HostState /\ HostBears(s)
  BY <1>1, <1>3 DEF HostState, HostBears
<1>5. host' = [host EXCEPT ![h] = s]
  BY <1>2
<1> HIDE DEF s
<1> QED BY <1>3, <1>4, <1>5, HostKeeps, FilesTyped DEF HostRotates, CredentialsInv, CredentialsTypeOK

LEMMA LostKeeps ==
  ASSUME CredentialsInv, NEW h \in Hosts, HostLost(h)
  PROVE  CredentialsInv'
<1>1. Unused \in HostState /\ HostBears(Unused)
  BY TokensTyped DEF HostBears
<1> QED BY <1>1, HostKeeps, FilesTyped, GestureTyped DEF HostLost, CredentialsInv, CredentialsTypeOK

\* What a device brings back it brings to the row its claim took, or astray.
LEMMA ReturnKeeps ==
  ASSUME CredentialsInv, NEW h \in Hosts, HostReturns(h)
  PROVE  CredentialsInv'
<1> DEFINE w == host[h]
           k == EffectiveKey(w.who)
           writes == stored[k] # NoToken /\ Newer(w.paper, stored[k])
           reached == {j \in {k} : writes /\ k # w.key} \cup {e \in {EmeHub} : hubHas' # hubHas}
<1>1. /\ w \in HostState /\ w.busy /\ w.paper \in Paper /\ w.run \in HubRuns \cup {NoToken}
      /\ w.key \in Keys /\ BelongsAt(w.key, w.paper) /\ k \in Keys
  BY FilesTyped, EffectiveTyped DEF HostReturns, HostState, HostBears
<1>2. /\ stored' = (IF writes THEN [stored EXCEPT ![k] = w.paper] ELSE stored)
      /\ uses' = [uses EXCEPT !.astray = @ \cup {<<w.paper.login, place>> : place \in reached}]
      /\ host' = [host EXCEPT ![h] = Unused]
      /\ UNCHANGED <<prefers, hubOn, onDisk, grants, caller, newest, gestures>>
  BY DEF HostReturns
<1>3. /\ captured' \in [HubRuns -> 0..MaxIssued] /\ hubHas' \in Token \cup {NoToken}
      /\ hubHas' # hubHas => w.paper \in Token /\ hubHas' = w.paper
  <2>1. CASE w.run \in HubRuns
    <3>1. CaptureRotated(w.run, w.paper)
      BY <2>1 DEF HostReturns
    <3> HIDE DEF w
    <3> QED BY <1>1, <2>1, <3>1, CaptureTyped
  <2>2. CASE w.run \notin HubRuns
    BY <2>2 DEF HostReturns, CredentialsInv, CredentialsTypeOK
  <2> QED BY <2>1, <2>2
<1>4. writes => w.paper \in Token
  BY DEF Newer
<1> HIDE DEF w, k, writes
<1>5. reached # {} => w.paper.login \in Logins
  BY <1>3, <1>4 DEF Token
<1>6. reached \subseteq Keys \cup {EmeHub}
  BY <1>1
<1>7. /\ uses \in [put : SUBSET (Logins \X (Keys \cup {EmeHub})), astray : SUBSET (Logins \X (Keys \cup {EmeHub}))]
      /\ uses' \in [put : SUBSET (Logins \X (Keys \cup {EmeHub})), astray : SUBSET (Logins \X (Keys \cup {EmeHub}))]
      /\ uses'.put = uses.put
      /\ uses'.astray = uses.astray \cup {<<w.paper.login, place>> : place \in reached}
  <2>1. uses \in [put : SUBSET (Logins \X (Keys \cup {EmeHub})), astray : SUBSET (Logins \X (Keys \cup {EmeHub}))]
    BY DEF CredentialsInv, CredentialsTypeOK
  <2>2. {<<w.paper.login, place>> : place \in reached} \subseteq Logins \X (Keys \cup {EmeHub})
    BY <1>5, <1>6
  <2> HIDE DEF reached
  <2> QED BY <1>2, <2>1, <2>2
<1>8. stored' \in [Keys -> Token \cup {NoToken}]
  BY <1>1, <1>2, <1>4 DEF CredentialsInv, CredentialsTypeOK
<1>9. \A place, paper : BelongsAt(place, paper) => BelongsAt(place, paper)'
  BY <1>7, StaysFiled
<1>10. \A j \in Keys : BelongsAt(j, stored[j])'
  <2> TAKE j \in Keys
  <2>1. CASE writes /\ j = k
    <3>1. stored'[j] = w.paper
      BY <1>1, <1>2, <2>1 DEF CredentialsInv, CredentialsTypeOK
    <3>2. CASE k = w.key
      BY <1>1, <1>9, <2>1, <3>1, <3>2 DEF BelongsAt
    <3>3. CASE k # w.key
      <4>1. k \in reached
        BY <2>1, <3>3
      <4> QED BY <1>7, <2>1, <3>1, <4>1 DEF BelongsAt
    <3> QED BY <3>2, <3>3
  <2>2. CASE ~(writes /\ j = k)
    <3>1. stored'[j] = stored[j]
      BY <1>2, <2>2 DEF CredentialsInv, CredentialsTypeOK
    <3> QED BY <1>9, <3>1, FilesTyped DEF BelongsAt
  <2> QED BY <2>1, <2>2
<1>11. BelongsAt(EmeHub, hubHas)'
  <2>1. CASE hubHas' = hubHas
    BY <1>9, <2>1, FilesTyped DEF BelongsAt
  <2>2. CASE hubHas' # hubHas
    <3>1. EmeHub \in reached
      BY <2>2
    <3> QED BY <1>3, <1>7, <2>2, <3>1 DEF BelongsAt
  <2> QED BY <2>1, <2>2
<1>12. /\ \A j \in Keys : BelongsAt(j, onDisk[j])'
       /\ \A r \in HubRuns : BelongsAt(EmeHub, onDisk[r])'
  <2>1. onDisk' = onDisk
    BY <1>2
  <2> QED BY <1>9, <2>1, FilesTyped DEF BelongsAt
<1>13. /\ caller' \in [Callers -> CallerState] /\ \A c \in Callers : CallerBears(caller[c])'
  BY <1>2, <1>7, CallersStay
<1>14. host' \in [Hosts -> HostState] /\ \A g \in Hosts : HostBears(host[g])'
  <2>1. Unused \in HostState /\ HostBears(Unused)'
    BY TokensTyped DEF HostBears
  <2> QED BY <1>2, <1>7, <2>1, HostsInOrder
<1>15. CredentialsTypeOK'
  BY <1>2, <1>3, <1>7, <1>8, <1>13, <1>14 DEF CredentialsInv, CredentialsTypeOK
<1>16. FiledUnderItsLogin'
  BY <1>10, <1>11, <1>12 DEF FiledUnderItsLogin
<1> QED BY <1>13, <1>14, <1>15, <1>16 DEF CredentialsInv

LEMMA RestartApiKeeps ==
  ASSUME CredentialsInv, RestartApi
  PROVE  CredentialsInv'
<1>1. caller' \in [Callers -> CallerState] /\ \A c \in Callers : CallerBears(caller[c])'
  BY TokensTyped DEF RestartApi, CallerBears
<1>2. host' \in [Hosts -> HostState] /\ \A h \in Hosts : HostBears(host[h])'
  BY HostsStay DEF RestartApi
<1>3. captured' \in [HubRuns -> 0..MaxIssued] /\ hubOn' \in BOOLEAN /\ gestures' \in 0..MaxGestures
  BY CredentialsAssumption, GestureTyped DEF RestartApi
<1>4. CredentialsTypeOK'
  BY <1>1, <1>2, <1>3 DEF RestartApi, CredentialsInv, CredentialsTypeOK
<1>5. FiledUnderItsLogin'
  BY FilesTyped DEF RestartApi, FiledUnderItsLogin, BelongsAt
<1> QED BY <1>1, <1>2, <1>4, <1>5 DEF CredentialsInv

-----------------------------------------------------------------------------
(* Credentials: the theorems.                                             *)

LEMMA CredentialsStart == CredentialsInit => CredentialsInv
<1> SUFFICES ASSUME CredentialsInit
             PROVE  CredentialsInv
  OBVIOUS
<1>1. \A l \in Logins : l \in 1..MaxIssued
  BY CredentialsAssumption DEF Logins
<1>2. CredentialsTypeOK
  BY <1>1, TokensTyped, CredentialsAssumption DEF CredentialsInit, CredentialsTypeOK
<1>3. FiledUnderItsLogin
  BY TokensTyped DEF CredentialsInit, FiledUnderItsLogin, BelongsAt
<1> QED BY <1>2, <1>3, TokensTyped DEF CredentialsInit, CredentialsInv, CallerBears, HostBears

LEMMA CredentialsStep ==
  ASSUME CredentialsInv, [CredentialsNext]_credentialVars
  PROVE  CredentialsInv'
<1>1. ASSUME NEW c \in Callers, CallerStep(c)
      PROVE  CredentialsInv'
  BY <1>1, AskKeeps, PinKeeps, BeginKeeps, RefreshKeeps, ResolveKeeps, TestKeeps, CliKeeps, EndKeeps, ReadBackKeeps,
     WriteBackKeeps, CaptureKeeps DEF CallerStep
<1>2. ASSUME NEW h \in Hosts, HostStep(h)
      PROVE  CredentialsInv'
  BY <1>2, ClaimKeeps, HostRotatesKeeps, ReturnKeeps, LostKeeps DEF HostStep
<1>3. CASE RestartApi
  BY <1>3, RestartApiKeeps
<1>4. CASE UNCHANGED credentialVars
  <2>1. /\ caller' \in [Callers -> CallerState] /\ \A c \in Callers : CallerBears(caller[c])'
        /\ host' \in [Hosts -> HostState] /\ \A h \in Hosts : HostBears(host[h])'
    BY <1>4, CallersStay, HostsStay DEF credentialVars
  <2>2. FiledUnderItsLogin'
    BY <1>4, FilesTyped DEF credentialVars, FiledUnderItsLogin, BelongsAt
  <2> QED BY <1>4, <2>1, <2>2 DEF credentialVars, CredentialsInv, CredentialsTypeOK
<1>5. ASSUME NEW k \in Keys, NEW l \in Logins, UploadCredential(k, l)
      PROVE  CredentialsInv'
  BY <1>5, PeopleKeeps
<1>6. ASSUME NEW k \in Keys, DeleteCredential(k)
      PROVE  CredentialsInv'
  BY <1>6, PeopleKeeps
<1>7. ASSUME NEW p \in Persons, SetPreferredMode(p) \/ CheckReadiness(p)
      PROVE  CredentialsInv'
  BY <1>7, PeopleKeeps
<1>8. ASSUME NEW l \in Logins, ConnectAtHub(l)
      PROVE  CredentialsInv'
  BY <1>8, PeopleKeeps
<1>9. CASE DisconnectAtHub
  BY <1>9, PeopleKeeps
<1>10. ASSUME NEW r \in HubRuns, GrantExpires(r) \/ RefuseRun(r)
       PROVE  CredentialsInv'
  BY <1>10, PeopleKeeps
<1> QED BY <1>1, <1>2, <1>3, <1>4, <1>5, <1>6, <1>7, <1>8, <1>9, <1>10 DEF CredentialsNext

LEMMA CredentialsInductive == CredentialsSpec => []CredentialsInv
<1>1. CredentialsInit => CredentialsInv
  BY CredentialsStart
<1>2. CredentialsInv /\ [CredentialsNext]_credentialVars => CredentialsInv'
  BY CredentialsStep
<1> QED BY <1>1, <1>2, PTL DEF CredentialsSpec

\* Every reachable state has its type: in particular no row and no answer of
\* EmeHub ever is the empty file that a failed refresh leaves (the guards of
\* _persist_if_newer and capture_rotated_credential_raw).
THEOREM CredentialsTyping == CredentialsSpec => []CredentialsTypeOK
<1>1. CredentialsInv => CredentialsTypeOK
  BY DEF CredentialsInv
<1> QED BY <1>1, CredentialsInductive, PTL

\* Tokens are kept where their login was put, but for what devices bring astray:
\* uploads, deletions and switches of mode between a call's start, its refresh
\* and its write-back never file a token under a row that its login was not
\* uploaded for (_writeback_row, persist_refreshed, capture_rotated_credential).
THEOREM FiledWell == CredentialsSpec => []FiledUnderItsLogin
<1>1. CredentialsInv => FiledUnderItsLogin
  BY DEF CredentialsInv
<1> QED BY <1>1, CredentialsInductive, PTL
=============================================================================
