---------------------- MODULE BusinessKnowledge_proofs ---------------------
(***************************************************************************)
(* Proofs about what the planner is told and what the agents learn:        *)
(* BusinessKnowledge for any number of members, terms, versions, facts and *)
(* requests, and Knowledge for any number of owners, selectors and scans;  *)
(* whatever the bounds.                                                    *)
(*                                                                         *)
(*   BusinessTyping      every reachable state is well typed               *)
(*   SnapshotsReadable   what a source has recorded stays on disk          *)
(*   HumansDecide        only a human changes what a human decided         *)
(*   LearnTyping         every reachable state is well typed               *)
(*   PinsSurvive         no machine takes a correction away                *)
(***************************************************************************)
EXTENDS BusinessKnowledge, Knowledge, Integers, FiniteSetTheorems, TLAPS

-----------------------------------------------------------------------------
(* Counting.                                                               *)

\* A one-to-one map of a set of n elements into 1..n misses none of them.
LEMMA Onto ==
  ASSUME NEW S, IsFiniteSet(S), NEW f \in [S -> 1..Cardinality(S)],
         \A s, t \in S : f[s] = f[t] => s = t,
         NEW k \in 1..Cardinality(S)
  PROVE  \E s \in S : f[s] = k
<1> DEFINE T == 1..Cardinality(S)
<1>1. Cardinality(S) \in Nat
  BY FS_CardinalityType
<1>2. IsFiniteSet(T) /\ Cardinality(T) = Cardinality(S)
  BY <1>1, FS_Interval, FS_EmptySet
<1>3. f \in Injection(S, T)
  BY DEF Injection, IsInjective
<1>4. f \in Surjection(S, T)
  BY <1>2, <1>3, FS_Injection
<1> QED BY <1>4 DEF Surjection

\* The place of an element in a finite set of numbers.
Place(S, i) == Cardinality({j \in S : j <= i})

LEMMA Places ==
  ASSUME NEW S \in SUBSET Nat, IsFiniteSet(S)
  PROVE  /\ \A i \in S : Place(S, i) \in 1..Cardinality(S)
         /\ \A i, j \in S : Place(S, i) = Place(S, j) => i = j
         /\ \A k \in 1..Cardinality(S) : \E i \in S : Place(S, i) = k
<1> DEFINE upto(i) == {j \in S : j <= i}
<1>1. Cardinality(S) \in Nat
  BY FS_CardinalityType
<1>2. ASSUME NEW i \in S PROVE Place(S, i) \in 1..Cardinality(S) /\ IsFiniteSet(upto(i))
  <2>1. IsFiniteSet(upto(i)) /\ Cardinality(upto(i)) <= Cardinality(S)
    BY FS_Subset
  <2>2. Cardinality(upto(i)) \in Nat
    BY <2>1, FS_CardinalityType
  <2>3. i \in upto(i)
    OBVIOUS
  <2>4. Cardinality(upto(i)) # 0
    BY <2>1, <2>3, FS_EmptySet
  <2> QED BY <1>1, <2>1, <2>2, <2>4 DEF Place
<1>3. ASSUME NEW i \in S, NEW j \in S, Place(S, i) = Place(S, j), i < j PROVE FALSE
  <2>0. i \in Nat /\ j \in Nat /\ \A k \in S : k \in Nat
    OBVIOUS
  <2>1. upto(i) \subseteq upto(j) /\ j \in upto(j) /\ j \notin upto(i)
    <3>1. \A k \in S : k <= i => k <= j
      BY <2>0, <1>3
    <3>2. j <= j /\ ~(j <= i)
      BY <2>0, <1>3
    <3> QED BY <3>1, <3>2
  <2>2. IsFiniteSet(upto(j)) /\ Cardinality(upto(j)) = Cardinality(upto(i))
    BY <1>2, <1>3 DEF Place
  <2> HIDE DEF upto
  <2>3. upto(i) = upto(j)
    BY <2>1, <2>2, FS_Subset
  <2> QED BY <2>1, <2>3
<1>4. \A i, j \in S : Place(S, i) = Place(S, j) => i = j
  BY <1>3
<1> DEFINE f == [i \in S |-> Place(S, i)]
<1>5. f \in [S -> 1..Cardinality(S)] /\ \A i, j \in S : f[i] = f[j] => i = j
  BY <1>2, <1>4
<1>6. ASSUME NEW k \in 1..Cardinality(S) PROVE \E i \in S : Place(S, i) = k
  <2> HIDE DEF f
  <2>1. PICK i \in S : f[i] = k
    BY <1>5, Onto
  <2> QED BY <2>1 DEF f
<1> QED BY <1>2, <1>4, <1>6

-----------------------------------------------------------------------------
(* Types.                                                                  *)

\* What a thread writes over a row another session may have changed is a row.
LEMMA RowFlushes ==
  ASSUME NEW now \in SourceRows, NEW was \in SourceRows, NEW will \in SourceRows
  PROVE  /\ Flushed(now, was, will) \in SourceRows
         /\ Flushed(now, was, will).version =
              IF will.version = was.version THEN now.version ELSE will.version
<1> DEFINE f == Flushed(now, was, will)
<1>1. DOMAIN now = {"kind", "status", "version", "rev", "stale", "probed", "excluded"}
  BY DEF SourceRows
<1>2. f = [c \in {"kind", "status", "version", "rev", "stale", "probed", "excluded"} |->
             IF will[c] = was[c] THEN now[c] ELSE will[c]]
  BY <1>1 DEF Flushed
<1>3. f = [kind |-> f.kind, status |-> f.status, version |-> f.version, rev |-> f.rev,
           stale |-> f.stale, probed |-> f.probed, excluded |-> f.excluded]
  BY <1>2
<1>4. /\ f.kind \in {"url", "wiki", "upload"}
      /\ f.status \in {"pending", "syncing", "synced", "error"}
      /\ f.version \in 0..MaxVersion /\ f.rev \in 0..MaxVersion
      /\ f.stale \in BOOLEAN /\ f.probed \in {"never", "answered", "failed"} /\ f.excluded \in BOOLEAN
  BY <1>2 DEF SourceRows
<1> HIDE DEF f
<1>5. f \in SourceRows
  BY <1>3, <1>4 DEF SourceRows
<1>6. f.version = IF will.version = was.version THEN now.version ELSE will.version
  BY <1>2
<1> QED BY <1>5, <1>6 DEF f

DocumentsTyped ==
  /\ upstream \in Versions
  /\ source \in [Owners -> SourceRows \cup {Nothing}]
  /\ disk \in [Owners -> [normalized : 0..MaxVersion, archive : SUBSET Versions]]
  /\ recorded \in [Owners -> SUBSET Versions]
  /\ sync \in [Owners -> Ingestions \cup {Nothing}]
  /\ probe \in [owner : Owners, was : SourceRows] \cup {Nothing}
FactsTyped == facts \in [FactIds -> FactTable \cup {Nothing}] /\ FactRows = 1..Cardinality(FactRows)
WorkTyped ==
  /\ brief \in [Owners -> Briefs]
  /\ distil \in [owner : Owners, corpus : 0..MaxVersion, existing : SUBSET FactRows,
                 found : SUBSET Terms, at : {"claude", "merge"}] \cup {Nothing}
  /\ clone \in [by : Members, source : SourceRows \cup {Nothing}, brief : Briefs,
                rows : UNION {[read -> FactTable] : read \in SUBSET FactRows}] \cup {Nothing}
AskedTyped == asked \in [DOMAIN BusinessLimit -> Nat]

LEMMA TypeParts == BusinessTypeOK <=> DocumentsTyped /\ FactsTyped /\ WorkTyped /\ AskedTyped
BY DEF BusinessTypeOK, DocumentsTyped, FactsTyped, WorkTyped, AskedTyped

\* A request is counted, and no other count changes.
LEMMA Counted ==
  ASSUME AskedTyped, NEW w \in DOMAIN BusinessLimit, Asks(w)
  PROVE  AskedTyped' /\ asked'[w] = asked[w] + 1 /\ asked[w] \in Nat
BY DEF AskedTyped, Asks

LEMMA AskedStep == ASSUME AskedTyped, BusinessNext PROVE AskedTyped'
<1>1. DOMAIN BusinessLimit = {"syncs", "probes", "distils", "clones", "edits", "restarts"}
  BY DEF BusinessLimit
<1>2. CASE \E w \in DOMAIN BusinessLimit : Asks(w)
  BY <1>2, Counted
<1>3. CASE UNCHANGED asked
  BY <1>3 DEF AskedTyped
<1>4. (\E w \in DOMAIN BusinessLimit : Asks(w)) \/ UNCHANGED asked
  BY <1>1 DEF BusinessNext, UpstreamChanges, CreateSource, ExcludeSource, DeleteSource, StartSync,
     IngestUpload, Fetch, PersistSnapshot, IngestDocuments, ProbeReads, StartDistil, AddFact,
     RefreshStaleness, CorrectFact, UpdateFact, BuildDistillation, MergeFacts, CloneReads,
     CloneCommits, BusinessRestart
<1> QED BY <1>2, <1>3, <1>4

-----------------------------------------------------------------------------
(* Facts.                                                                  *)

LEMMA FactsNumbered ==
  ASSUME FactsTyped
  PROVE  /\ IsFiniteSet(FactRows) /\ Cardinality(FactRows) \in 0..MaxFacts
         /\ \A i \in FactIds : facts[i] # Nothing <=> i <= Cardinality(FactRows)
         /\ \A i \in FactRows : i \in FactIds /\ facts[i] \in FactTable
<1>1. IsFiniteSet(FactIds) /\ Cardinality(FactIds) = MaxFacts
  BY BusinessAssumption, FS_Interval DEF FactIds
<1>2. FactRows \in SUBSET FactIds
  BY DEF FactRows
<1>3. IsFiniteSet(FactRows) /\ Cardinality(FactRows) \in 0..MaxFacts
  BY <1>1, <1>2, BusinessAssumption, FS_Subset, FS_CardinalityType
<1>4. \A i \in FactIds : i \in FactRows <=> facts[i] # Nothing
  BY DEF FactRows
<1>5. \A i \in FactIds : i \in 1..Cardinality(FactRows) <=> i <= Cardinality(FactRows)
  BY <1>3, BusinessAssumption DEF FactIds
<1>6. \A i \in FactRows : facts[i] \in FactTable
  BY <1>2, <1>4 DEF FactsTyped
<1> QED BY <1>2, <1>3, <1>4, <1>5, <1>6 DEF FactsTyped

\* A step that writes the next n ids and deletes no row.
LEMMA FactsGrown ==
  ASSUME FactsTyped, NEW n \in Nat, Cardinality(FactRows) + n <= MaxFacts,
         facts' \in [FactIds -> FactTable \cup {Nothing}],
         \A i \in FactIds : facts'[i] # Nothing <=> i <= Cardinality(FactRows) + n
  PROVE  FactsTyped' /\ FactRows \subseteq FactRows'
<1> DEFINE c == Cardinality(FactRows)
<1>1. c \in Nat /\ FactRows = 1..c
  BY FactsNumbered, BusinessAssumption DEF FactsTyped
<1>2. FactRows' = 1..(c + n)
  <2>1. \A i : i \in 1..(c + n) <=> i \in FactIds /\ i <= c + n
    BY <1>1, BusinessAssumption DEF FactIds
  <2>2. FactRows' = {i \in FactIds : facts'[i] # Nothing}
    BY DEF FactRows
  <2> QED BY <2>1, <2>2
<1>3. Cardinality(FactRows)' = c + n
  BY <1>1, <1>2, FS_Interval
<1> QED BY <1>1, <1>2, <1>3 DEF FactsTyped

\* A person's fact, and the correction of one.
LEMMA HumanFacts ==
  ASSUME FactsTyped,
         \/ \E o \in Owners, t \in Terms : AddFact(o, t)
         \/ \E i \in FactIds : CorrectFact(i) \/ UpdateFact(i)
  PROVE  FactsTyped' /\ FactRows \subseteq FactRows'
<1> DEFINE c == Cardinality(FactRows)
<1>0. c \in Nat
  BY FactsNumbered, BusinessAssumption
<1>1. CASE \E o \in Owners, t \in Terms : AddFact(o, t)
  <2>1. PICK o \in Owners, t \in Terms : AddFact(o, t)
    BY <1>1
  <2>2. c + 1 \in FactIds /\ c + 1 <= MaxFacts
    BY <1>0, <2>1, BusinessAssumption DEF AddFact, FactIds
  <2>3. Fact(o, t, "manual", FALSE, "human") \in FactTable
    BY BusinessAssumption DEF Fact, FactTable
  <2>4. facts' = [facts EXCEPT ![c + 1] = Fact(o, t, "manual", FALSE, "human")]
    BY <2>1 DEF AddFact, Next1
  <2>5. facts' \in [FactIds -> FactTable \cup {Nothing}]
    BY <2>3, <2>4 DEF FactsTyped
  <2>6. \A i \in FactIds : facts'[i] # Nothing <=> i <= c + 1
    <3> SUFFICES ASSUME NEW i \in FactIds PROVE facts'[i] # Nothing <=> i <= c + 1
      OBVIOUS
    <3>1. i \in Nat /\ (i <= c + 1 <=> i <= c \/ i = c + 1)
      BY <1>0, BusinessAssumption DEF FactIds
    <3> QED BY <1>0, <2>2, <2>3, <2>4, <3>1, FactsNumbered, BusinessAssumption DEF FactsTyped
  <2> QED BY <2>2, <2>5, <2>6, FactsGrown
<1>2. CASE \E i \in FactIds : CorrectFact(i)
  <2>1. PICK k \in FactIds : CorrectFact(k)
    BY <1>2
  <2>2. c + 1 \in FactIds /\ c + 1 <= MaxFacts /\ k # c + 1 /\ k <= c /\ k \in FactRows
    BY <1>0, <2>1, BusinessAssumption, FactsNumbered DEF CorrectFact, FactIds, FactsTyped
  <2>3. facts[k] \in FactTable
    BY <2>2, FactsNumbered
  <2> DEFINE x == Fact(facts[k].owner, facts[k].term, "manual", TRUE, "human")
             y == [facts[k] EXCEPT !.superseded_by = c + 1]
  <2>4. x \in FactTable /\ y \in FactTable
    BY <1>0, <2>2, <2>3, BusinessAssumption DEF Fact, FactTable
  <2>5. facts' = [facts EXCEPT ![c + 1] = x, ![k] = y]
    BY <2>1, <2>2 DEF CorrectFact, Next1, FactsTyped
  <2> HIDE DEF x, y
  <2>6. facts' \in [FactIds -> FactTable \cup {Nothing}]
    BY <2>4, <2>5 DEF FactsTyped
  <2>7. \A i \in FactIds : facts'[i] # Nothing <=> i <= c + 1
    <3> SUFFICES ASSUME NEW i \in FactIds PROVE facts'[i] # Nothing <=> i <= c + 1
      OBVIOUS
    <3>1. i \in Nat /\ (i <= c + 1 <=> i <= c \/ i = c + 1)
      BY <1>0, BusinessAssumption DEF FactIds
    <3> QED BY <1>0, <2>2, <2>4, <2>5, <3>1, FactsNumbered, BusinessAssumption DEF FactsTyped
  <2> QED BY <2>2, <2>6, <2>7, FactsGrown
<1>3. CASE \E i \in FactIds : UpdateFact(i)
  <2>1. PICK k \in FactIds : UpdateFact(k)
    BY <1>3
  <2>2. k \in FactRows /\ facts[k] \in FactTable
    BY <2>1, FactsNumbered DEF UpdateFact
  <2> DEFINE x == [facts[k] EXCEPT !.said = "edited"]
             y == [facts[k] EXCEPT !.excluded = ~@]
  <2>3. x \in FactTable /\ y \in FactTable
    BY <2>2 DEF FactTable
  <2>4. facts' = [facts EXCEPT ![k] = x] \/ facts' = [facts EXCEPT ![k] = y]
    BY <2>1 DEF UpdateFact, FactsTyped
  <2> HIDE DEF x, y
  <2>5. facts' \in [FactIds -> FactTable \cup {Nothing}]
    BY <2>3, <2>4 DEF FactsTyped
  <2>6. \A i \in FactIds : facts'[i] # Nothing <=> i <= c + 0
    BY <1>0, <2>2, <2>3, <2>4, FactsNumbered, BusinessAssumption DEF FactsTyped, FactRows
  <2>7. c + 0 <= MaxFacts
    BY <1>0, FactsNumbered, BusinessAssumption
  <2> QED BY <2>5, <2>6, <2>7, FactsGrown
<1> QED BY <1>1, <1>2, <1>3

\* What a distillation writes: rows it may overwrite, and new ones.
LEMMA FactMerged ==
  ASSUME FactsTyped, WorkTyped, MergeFacts
  PROVE  /\ FactsTyped' /\ FactRows \subseteq FactRows'
         /\ \A i \in FactRows :
              \/ facts'[i] = facts[i]
              \/ facts[i].origin # "manual" /\ facts'[i] = [facts[i] EXCEPT !.said = "distilled"]
<1> DEFINE c         == Cardinality(FactRows)
           refreshed == {i \in UNION {Collides(t) : t \in distil.found} : Overwrites(facts[i])}
           new       == {t \in distil.found : Collides(t) = {}}
           n         == Cardinality(new)
<1>1. /\ distil.owner \in Owners /\ distil.existing \in SUBSET FactRows /\ distil.found \in SUBSET Terms
  BY DEF MergeFacts, WorkTyped
<1>2. IsFiniteSet(new) /\ n \in Nat /\ new \subseteq Terms
  BY <1>1, BusinessAssumption, FS_Subset, FS_CardinalityType
<1>3. c \in Nat /\ c + n <= MaxFacts
  BY FactsNumbered, BusinessAssumption DEF MergeFacts
<1>4. refreshed \subseteq FactRows /\ \A i \in refreshed : facts[i].origin # "manual"
  BY <1>1 DEF Collides, Overwrites
<1> DEFINE Added(order, i) == \E t \in new : c + order[t] = i
           RowAfter(order, i) == Fact(distil.owner, CHOOSE t \in new : c + order[t] = i, "ingested", FALSE, "distilled")
<1>5. PICK order \in [new -> 1..n] :
        /\ \A s, t \in new : order[s] = order[t] => s = t
        /\ facts' = [i \in FactIds |->
             IF i \in refreshed THEN [facts[i] EXCEPT !.said = "distilled"]
             ELSE IF Added(order, i) THEN RowAfter(order, i) ELSE facts[i]]
  BY DEF MergeFacts, Next1
<1>6. \A t \in new : order[t] \in 1..n
  BY <1>5
<1>7. \A i \in FactIds : Added(order, i) => i \in Nat /\ c < i /\ i <= c + n /\ RowAfter(order, i) \in FactTable
  <2> SUFFICES ASSUME NEW i \in FactIds, Added(order, i)
               PROVE  i \in Nat /\ c < i /\ i <= c + n /\ RowAfter(order, i) \in FactTable
    OBVIOUS
  <2>1. PICK t \in new : c + order[t] = i
    OBVIOUS
  <2>2. (CHOOSE s \in new : c + order[s] = i) \in Terms
    BY <1>2, <2>1
  <2>3. RowAfter(order, i) \in FactTable
    BY <1>1, <2>2, BusinessAssumption DEF Fact, FactTable
  <2>4. i \in Nat /\ c < i /\ i <= c + n
    BY <1>2, <1>3, <1>6, <2>1
  <2> QED BY <2>3, <2>4
<1>8. \A i \in FactIds : c < i /\ i <= c + n => Added(order, i)
  <2> SUFFICES ASSUME NEW i \in FactIds, c < i, i <= c + n PROVE Added(order, i)
    OBVIOUS
  <2>1. i - c \in 1..n /\ i \in Nat
    BY <1>2, <1>3, BusinessAssumption DEF FactIds
  <2> HIDE DEF new
  <2>2. PICK t \in new : order[t] = i - c
    BY <1>2, <1>5, <2>1, Onto
  <2>3. c + order[t] = i
    BY <1>3, <2>1, <2>2
  <2> QED BY <2>3
<1>9. \A i \in FactIds : facts'[i] =
        IF i \in refreshed THEN [facts[i] EXCEPT !.said = "distilled"]
        ELSE IF Added(order, i) THEN RowAfter(order, i) ELSE facts[i]
  BY <1>5
<1>0. FactIds \subseteq Nat /\ FactRows \subseteq FactIds
  BY BusinessAssumption DEF FactIds, FactRows
<1> HIDE DEF Added, RowAfter, new, n, refreshed
<1>10. \A i \in FactRows : facts[i] \in FactTable /\ [facts[i] EXCEPT !.said = "distilled"] \in FactTable
  BY FactsNumbered DEF FactTable
<1>11. facts' \in [FactIds -> FactTable \cup {Nothing}]
  <2>1. \A i \in FactIds : facts'[i] \in FactTable \cup {Nothing}
    BY <1>4, <1>7, <1>9, <1>10 DEF FactsTyped
  <2>2. facts' = [i \in FactIds |-> facts'[i]]
    BY <1>5
  <2> QED BY <2>1, <2>2
<1>12. \A i \in FactIds : facts'[i] # Nothing <=> i <= c + n
  <2> SUFFICES ASSUME NEW i \in FactIds PROVE facts'[i] # Nothing <=> i <= c + n
    OBVIOUS
  <2>1. i \in Nat /\ (facts[i] # Nothing <=> i <= c) /\ (i <= c => i <= c + n)
    <3>1. facts[i] # Nothing <=> i <= c
      BY FactsNumbered
    <3>2. i \in Nat /\ (i <= c => i <= c + n)
      BY <1>0, <1>2, <1>3
    <3> QED BY <3>1, <3>2
  <2>2. CASE i \in refreshed
    BY <1>4, <1>9, <1>10, <2>1, <2>2, BusinessAssumption DEF FactRows
  <2>3. CASE i \notin refreshed /\ Added(order, i)
    BY <1>7, <1>9, <2>3, BusinessAssumption
  <2>4. CASE i \notin refreshed /\ ~Added(order, i)
    <3>1. i <= c + n => i <= c
      BY <1>2, <1>3, <1>8, <2>1, <2>4
    <3> QED BY <1>9, <2>1, <2>4, <3>1
  <2> QED BY <2>2, <2>3, <2>4
<1>13. FactsTyped' /\ FactRows \subseteq FactRows'
  BY <1>2, <1>3, <1>11, <1>12, FactsGrown
<1>14. ASSUME NEW i \in FactRows
       PROVE  \/ facts'[i] = facts[i]
              \/ facts[i].origin # "manual" /\ facts'[i] = [facts[i] EXCEPT !.said = "distilled"]
  <2>1. i \in FactIds /\ ~(c < i)
    <3>1. i \in 1..c
      BY DEF FactsTyped
    <3> QED BY <1>0, <1>3, <3>1
  <2>2. ~Added(order, i)
    BY <1>7, <2>1
  <2> QED BY <1>4, <1>9, <2>1, <2>2
<1> QED BY <1>13, <1>14

LEMMA RowsRead ==
  ASSUME WorkTyped, clone # Nothing
  PROVE  DOMAIN clone.rows \subseteq FactRows /\ \A i \in DOMAIN clone.rows : clone.rows[i] \in FactTable
<1>1. clone.rows \in UNION {[read -> FactTable] : read \in SUBSET FactRows}
  BY DEF WorkTyped
<1>2. PICK read \in SUBSET FactRows : clone.rows \in [read -> FactTable]
  BY <1>1
<1> QED BY <1>2

\* A clone writes new rows only: the ids of the shared rows it read, in order.
LEMMA Cloned ==
  ASSUME FactsTyped, WorkTyped, CloneCommits
  PROVE  /\ FactsTyped' /\ FactRows \subseteq FactRows'
         /\ \A i \in FactRows : facts'[i] = facts[i]
<1> DEFINE c         == Cardinality(FactRows)
           read      == DOMAIN clone.rows
           n         == Cardinality(read)
           copied(k) == CHOOSE i \in read : CloneId(i) = k
           RowAfter(k)    == CopiedFact(clone.rows[copied(k)])
           Added(k)  == \E i \in read : CloneId(i) = k
<1>1. read \subseteq FactRows /\ clone.by \in Owners /\ \A i \in read : clone.rows[i] \in FactTable
  BY RowsRead DEF CloneCommits, WorkTyped, Owners
<1>2. FactIds \subseteq Nat /\ FactRows \subseteq FactIds /\ MaxFacts \in Nat
  BY BusinessAssumption DEF FactIds, FactRows
<1>3. IsFiniteSet(read) /\ n \in Nat
  BY <1>1, FactsNumbered, FS_Subset, FS_CardinalityType
<1>4. c \in Nat /\ c + n <= MaxFacts
  BY <1>2, FactsNumbered DEF CloneCommits
<1>5. /\ \A i \in read : Place(read, i) \in 1..n
      /\ \A k \in 1..n : \E i \in read : Place(read, i) = k
  BY <1>1, <1>2, <1>3, Places
<1>6. \A i \in read : CloneId(i) = c + Place(read, i)
  BY DEF Place, CloneId
<1>7. \A i \in read : CloneId(i) \in Nat /\ c < CloneId(i) /\ CloneId(i) <= c + n
  BY <1>3, <1>4, <1>5, <1>6
<1>8. facts' = [k \in FactIds |-> IF Added(k) THEN RowAfter(k) ELSE facts[k]]
  BY DEF CloneCommits
<1>9. ASSUME NEW k \in FactIds, Added(k)
      PROVE  c < k /\ k <= c + n /\ RowAfter(k) \in FactTable
  <2>1. copied(k) \in read /\ CloneId(copied(k)) = k
    BY <1>9
  <2>2. clone.rows[copied(k)] \in FactTable
    BY <1>1, <2>1
  <2>3. \A i : (IF i \in read THEN CloneId(i) ELSE 0) \in 0..MaxFacts
    BY <1>2, <1>3, <1>4, <1>7
  <2> HIDE DEF copied
  <2>4. RowAfter(k) \in FactTable
    BY <1>1, <2>2, <2>3 DEF FactTable, CopiedFact
  <2> QED BY <1>7, <2>1, <2>4
<1>10. ASSUME NEW k \in FactIds, c < k, k <= c + n PROVE Added(k)
  <2>1. k - c \in 1..n /\ k \in Nat
    BY <1>2, <1>3, <1>4, <1>10
  <2>2. PICK i \in read : Place(read, i) = k - c
    BY <1>5, <2>1
  <2>3. CloneId(i) = k
    BY <1>4, <1>6, <2>1, <2>2
  <2> QED BY <2>3
<1>11. \A k \in FactIds : facts'[k] = IF Added(k) THEN RowAfter(k) ELSE facts[k]
  BY <1>8
<1> HIDE DEF Added, RowAfter, read, n
<1>12. facts' \in [FactIds -> FactTable \cup {Nothing}]
  <2>1. \A k \in FactIds : facts'[k] \in FactTable \cup {Nothing}
    BY <1>9, <1>11 DEF FactsTyped
  <2>2. facts' = [k \in FactIds |-> facts'[k]]
    BY <1>8
  <2> QED BY <2>1, <2>2
<1>13. \A k \in FactIds : facts'[k] # Nothing <=> k <= c + n
  <2> SUFFICES ASSUME NEW k \in FactIds PROVE facts'[k] # Nothing <=> k <= c + n
    OBVIOUS
  <2>1. facts[k] # Nothing <=> k <= c
    BY FactsNumbered
  <2>2. k \in Nat /\ (k <= c => k <= c + n)
    BY <1>2, <1>3, <1>4
  <2>3. CASE Added(k)
    BY <1>9, <1>11, <2>3, BusinessAssumption
  <2>4. CASE ~Added(k)
    <3>1. k <= c + n => k <= c
      BY <1>3, <1>4, <1>10, <2>2, <2>4
    <3> QED BY <1>11, <2>1, <2>2, <2>4, <3>1
  <2> QED BY <2>3, <2>4
<1>14. FactsTyped' /\ FactRows \subseteq FactRows'
  BY <1>3, <1>4, <1>12, <1>13, FactsGrown
<1>15. ASSUME NEW k \in FactRows PROVE facts'[k] = facts[k]
  <2>1. k \in 1..c
    BY DEF FactsTyped
  <2>2. k \in FactIds /\ ~(c < k)
    BY <1>2, <1>4, <2>1
  <2> QED BY <1>9, <1>11, <2>2
<1> QED BY <1>14, <1>15

LEMMA FactsStep ==
  ASSUME FactsTyped, WorkTyped, BusinessNext
  PROVE  FactsTyped' /\ FactRows \subseteq FactRows'
<1>1. CASE \/ \E o \in Owners, t \in Terms : AddFact(o, t)
           \/ \E i \in FactIds : CorrectFact(i) \/ UpdateFact(i)
  BY <1>1, HumanFacts
<1>2. CASE MergeFacts
  BY <1>2, FactMerged
<1>3. CASE CloneCommits
  BY <1>3, Cloned
<1>4. CASE UNCHANGED facts
  BY <1>4 DEF FactsTyped, FactRows
<1>5. \/ \E o \in Owners, t \in Terms : AddFact(o, t)
      \/ \E i \in FactIds : CorrectFact(i) \/ UpdateFact(i)
      \/ MergeFacts \/ CloneCommits \/ UNCHANGED facts
  BY DEF BusinessNext, UpstreamChanges, CreateSource, ExcludeSource, DeleteSource, StartSync,
     IngestUpload, Fetch, PersistSnapshot, IngestDocuments, ProbeReads, StartDistil,
     RefreshStaleness, BuildDistillation, CloneReads, BusinessRestart, knowledge
<1> QED BY <1>1, <1>2, <1>3, <1>4, <1>5

-----------------------------------------------------------------------------
(* The work in flight.                                                     *)

LEMMA BriefTyped ==
  ASSUME BusinessTypeOK, BusinessNext
  PROVE  brief' \in [Owners -> Briefs]
<1>1. CASE \E o \in Owners : StartDistil(o)
  <2>1. PICK o \in Owners : StartDistil(o)
    BY <1>1
  <2>2. brief' = [brief EXCEPT ![o].status = "building"]
    BY <2>1 DEF StartDistil
  <2>3. [brief[o] EXCEPT !.status = "building"] \in Briefs
    BY DEF BusinessTypeOK, Briefs
  <2> QED BY <2>2, <2>3 DEF BusinessTypeOK
<1>2. CASE BuildDistillation
  <2>1. distil.owner \in Owners
    BY <1>2 DEF BuildDistillation, BusinessTypeOK
  <2>2. /\ [brief[distil.owner] EXCEPT !.status = "error"] \in Briefs
        /\ [status |-> "ready", text |-> FALSE] \in Briefs
    <3>1. brief[distil.owner] \in Briefs
      BY <2>1 DEF BusinessTypeOK
    <3> QED BY <3>1 DEF Briefs
  <2>3. \/ brief' = [brief EXCEPT ![distil.owner] = [status |-> "ready", text |-> FALSE]]
        \/ brief' = [brief EXCEPT ![distil.owner].status = "error"]
        \/ UNCHANGED brief
    BY <1>2 DEF BuildDistillation
  <2> QED BY <2>1, <2>2, <2>3 DEF BusinessTypeOK
<1>3. CASE MergeFacts
  <2>1. brief' = [brief EXCEPT ![distil.owner] = [status |-> "ready", text |-> TRUE]]
    BY <1>3 DEF MergeFacts
  <2>2. distil.owner \in Owners
    BY <1>3 DEF MergeFacts, BusinessTypeOK
  <2> QED BY <2>1, <2>2 DEF BusinessTypeOK, Briefs
<1>4. CASE CloneCommits
  <2>1. clone.brief \in Briefs /\ clone.by \in Owners
    BY <1>4 DEF CloneCommits, BusinessTypeOK, Owners
  <2>2. brief' = [brief EXCEPT ![clone.by] = clone.brief]
    BY <1>4 DEF CloneCommits
  <2> QED BY <2>1, <2>2 DEF BusinessTypeOK
<1>5. CASE UNCHANGED brief
  BY <1>5 DEF BusinessTypeOK
<1>6. \/ \E o \in Owners : StartDistil(o)
      \/ BuildDistillation \/ MergeFacts \/ CloneCommits \/ UNCHANGED brief
  BY DEF BusinessNext, UpstreamChanges, CreateSource, ExcludeSource, DeleteSource, StartSync,
     IngestUpload, Fetch, PersistSnapshot, IngestDocuments, ProbeReads, AddFact, CorrectFact,
     UpdateFact, RefreshStaleness, CloneReads, BusinessRestart, knowledge
<1> QED BY <1>1, <1>2, <1>3, <1>4, <1>5, <1>6

LEMMA DistilTyped ==
  ASSUME BusinessTypeOK, BusinessNext, FactRows \subseteq FactRows'
  PROVE  distil' \in [owner : Owners, corpus : 0..MaxVersion, existing : SUBSET FactRows',
                      found : SUBSET Terms, at : {"claude", "merge"}] \cup {Nothing}
<1>1. CASE \E o \in Owners : StartDistil(o)
  <2>1. PICK o \in Owners : StartDistil(o)
    BY <1>1
  <2>2. CollectCorpus(o) \in 0..MaxVersion
    BY BusinessAssumption DEF CollectCorpus, BusinessTypeOK
  <2> QED BY <2>1, <2>2 DEF StartDistil
<1>2. CASE BuildDistillation
  <2>1. Of(distil.owner) \subseteq FactRows'
    BY DEF Of
  <2> QED BY <1>2, <2>1 DEF BuildDistillation, BusinessTypeOK
<1>3. CASE distil' = Nothing
  BY <1>3
<1>4. CASE UNCHANGED distil
  BY <1>4 DEF BusinessTypeOK
<1>5. \/ \E o \in Owners : StartDistil(o)
      \/ BuildDistillation \/ distil' = Nothing \/ UNCHANGED distil
  BY DEF BusinessNext, UpstreamChanges, CreateSource, ExcludeSource, DeleteSource, StartSync,
     IngestUpload, Fetch, PersistSnapshot, IngestDocuments, ProbeReads, AddFact, CorrectFact,
     UpdateFact, RefreshStaleness, MergeFacts, CloneReads, CloneCommits, BusinessRestart, knowledge
<1> QED BY <1>1, <1>2, <1>3, <1>4, <1>5

LEMMA CloneTyped ==
  ASSUME BusinessTypeOK, BusinessNext, FactRows \subseteq FactRows'
  PROVE  clone' \in [by : Members, source : SourceRows \cup {Nothing}, brief : Briefs,
                     rows : UNION {[read -> FactTable] : read \in SUBSET FactRows'}] \cup {Nothing}
<1>1. CASE \E m \in Members : CloneReads(m)
  <2>1. PICK m \in Members : CloneReads(m)
    BY <1>1
  <2> DEFINE rows == [i \in Of(Shared) |-> facts[i]]
  <2>2. Of(Shared) \in SUBSET FactRows' /\ rows \in [Of(Shared) -> FactTable]
    BY FactsNumbered, TypeParts DEF Of
  <2>3. rows \in UNION {[read -> FactTable] : read \in SUBSET FactRows'}
    BY <2>2
  <2>4. source[Shared] \in SourceRows \cup {Nothing} /\ brief[Shared] \in Briefs
    BY DEF BusinessTypeOK, Owners
  <2>5. clone' = [by |-> m, source |-> source[Shared], rows |-> rows, brief |-> brief[Shared]]
    BY <2>1 DEF CloneReads
  <2> HIDE DEF rows
  <2> QED BY <2>3, <2>4, <2>5
<1>2. CASE clone' = Nothing
  BY <1>2
<1>3. CASE UNCHANGED clone
  <2>1. CASE clone = Nothing
    BY <1>3, <2>1
  <2>2. CASE clone # Nothing
    <3>1. UNION {[read -> FactTable] : read \in SUBSET FactRows}
            \subseteq UNION {[read -> FactTable] : read \in SUBSET FactRows'}
      OBVIOUS
    <3> QED BY <1>3, <2>2, <3>1 DEF BusinessTypeOK
  <2> QED BY <2>1, <2>2
<1>4. (\E m \in Members : CloneReads(m)) \/ clone' = Nothing \/ UNCHANGED clone
  BY DEF BusinessNext, UpstreamChanges, CreateSource, ExcludeSource, DeleteSource, StartSync,
     IngestUpload, Fetch, PersistSnapshot, IngestDocuments, ProbeReads, StartDistil, AddFact,
     CorrectFact, UpdateFact, RefreshStaleness, BuildDistillation, MergeFacts, CloneCommits,
     BusinessRestart, knowledge
<1> QED BY <1>1, <1>2, <1>3, <1>4

-----------------------------------------------------------------------------
(* The documents.                                                          *)

\* One owner's row, one owner's ingestion, one owner's directory.
LEMMA Written ==
  ASSUME DocumentsTyped, NEW o \in Owners
  PROVE  /\ \A x \in SourceRows \cup {Nothing} :
              [source EXCEPT ![o] = x] \in [Owners -> SourceRows \cup {Nothing}]
         /\ \A x \in Ingestions \cup {Nothing} :
              [sync EXCEPT ![o] = x] \in [Owners -> Ingestions \cup {Nothing}]
         /\ \A x \in [normalized : 0..MaxVersion, archive : SUBSET Versions] :
              [disk EXCEPT ![o] = x] \in [Owners -> [normalized : 0..MaxVersion, archive : SUBSET Versions]]
         /\ \A x \in SUBSET Versions : [recorded EXCEPT ![o] = x] \in [Owners -> SUBSET Versions]
         /\ source[o] \in SourceRows \cup {Nothing} /\ sync[o] \in Ingestions \cup {Nothing}
         /\ disk[o].normalized \in 0..MaxVersion /\ disk[o].archive \in SUBSET Versions
         /\ recorded[o] \in SUBSET Versions
         /\ Empty \in [normalized : 0..MaxVersion, archive : SUBSET Versions]
BY BusinessAssumption DEF DocumentsTyped, Empty

\* The thread's row, and what its commit leaves of it.
LEMMA ThreadsRow ==
  ASSUME DocumentsTyped, NEW o \in Owners, sync[o] # Nothing
  PROVE  /\ sync[o].was \in SourceRows /\ sync[o].version \in 0..MaxVersion
         /\ sync[o].at \in {"fetch", "archive", "clear", "write", "commit"}
         /\ sync[o].at # "fetch" => sync[o].version \in Versions
<1>1. sync[o] \in Ingestions
  BY DEF DocumentsTyped
<1>2. Versions \subseteq 0..MaxVersion /\ 0 \in 0..MaxVersion
  BY BusinessAssumption DEF Versions
<1> QED BY <1>1, <1>2 DEF Ingestions

LEMMA Committed ==
  ASSUME DocumentsTyped, NEW o \in Owners, sync[o] # Nothing, NEW will \in SourceRows, Commits(o, will)
  PROVE  /\ source' \in [Owners -> SourceRows \cup {Nothing}]
         /\ \A p \in Owners \ {o} : source'[p] = source[p]
         /\ source'[o] = Nothing <=> source[o] = Nothing
         /\ source[o] # Nothing => source'[o].version \in {source[o].version, will.version}
         /\ source[o] # Nothing /\ will.version = sync[o].was.version => source'[o].version = source[o].version
<1>1. CASE source[o] = Nothing
  <2>1. source' = [source EXCEPT ![o] = Nothing]
    BY <1>1 DEF Commits
  <2> QED BY <1>1, <2>1 DEF DocumentsTyped
<1>2. CASE source[o] # Nothing
  <2> DEFINE x == Flushed(source[o], sync[o].was, will)
  <2>1. source[o] \in SourceRows /\ sync[o].was \in SourceRows
    BY <1>2, Written, ThreadsRow
  <2>2. /\ x \in SourceRows
        /\ x.version = IF will.version = sync[o].was.version THEN source[o].version ELSE will.version
    BY <2>1, RowFlushes
  <2>3. source' = [source EXCEPT ![o] = x]
    BY <1>2 DEF Commits
  <2> HIDE DEF x
  <2> QED BY <1>2, <2>2, <2>3, BusinessAssumption DEF DocumentsTyped
<1> QED BY <1>1, <1>2

LEMMA Registered ==
  ASSUME NEW o, NEW row, Registers(o, row)
  PROVE  /\ source[o] = Nothing /\ source' = [source EXCEPT ![o] = row]
         /\ \/ UNCHANGED <<disk, sync>>
            \/ /\ clone = Nothing
               /\ disk' = [disk EXCEPT ![o] = Empty] /\ sync' = [sync EXCEPT ![o] = Nothing]
BY DEF Registers, Sets

LEMMA CopiedRow ==
  ASSUME NEW row \in SourceRows
  PROVE  CopiedSource(row) \in SourceRows /\ CopiedSource(row).version = row.version
<1>1. 0 \in 0..MaxVersion
  BY BusinessAssumption
<1> QED BY <1>1 DEF CopiedSource, SourceRows

LEMMA IngestTyped ==
  ASSUME DocumentsTyped, NEW o \in Owners, NEW row \in SourceRows,
         Ingests(o, "fetch", 0, row) \/ \E v \in Versions : Ingests(o, "archive", v, row)
  PROVE  sync' \in [Owners -> Ingestions \cup {Nothing}]
<1>1. CASE Ingests(o, "fetch", 0, row)
  <2>1. [at |-> "fetch", version |-> 0, was |-> row] \in Ingestions
    BY DEF Ingestions
  <2> QED BY <1>1, <2>1, Written DEF Ingests
<1>2. ASSUME NEW v \in Versions, Ingests(o, "archive", v, row)
      PROVE  sync' \in [Owners -> Ingestions \cup {Nothing}]
  <2>1. [at |-> "archive", version |-> v, was |-> row] \in Ingestions
    BY DEF Ingestions
  <2> QED BY <1>2, <2>1, Written DEF Ingests
<1> QED BY <1>1, <1>2

LEMMA DocumentsStep ==
  ASSUME DocumentsTyped, WorkTyped, BusinessNext
  PROVE  DocumentsTyped'
<1> DEFINE D == [normalized : 0..MaxVersion, archive : SUBSET Versions]
<1>1. CASE UpstreamChanges
  <2>1. upstream' \in Versions
    BY <1>1, BusinessAssumption DEF UpstreamChanges, Versions, DocumentsTyped
  <2> QED BY <1>1, <2>1 DEF UpstreamChanges, DocumentsTyped
<1>2. ASSUME NEW o \in Owners, CreateSource(o) PROVE DocumentsTyped'
  <2>1. PICK kind \in {"url", "wiki"} : Registers(o, Source(kind, "pending"))
    BY <1>2 DEF CreateSource
  <2>2. Source(kind, "pending") \in SourceRows
    BY BusinessAssumption DEF Source, SourceRows
  <2>3. source' = [source EXCEPT ![o] = Source(kind, "pending")]
    BY <2>1, Registered
  <2>4. \/ UNCHANGED <<disk, sync>>
        \/ disk' = [disk EXCEPT ![o] = Empty] /\ sync' = [sync EXCEPT ![o] = Nothing]
    BY <2>1, Registered
  <2>5. source' \in [Owners -> SourceRows \cup {Nothing}]
    BY <2>2, <2>3, Written
  <2>6. disk' \in [Owners -> D] /\ sync' \in [Owners -> Ingestions \cup {Nothing}]
    <3>1. CASE UNCHANGED <<disk, sync>>
      BY <3>1 DEF DocumentsTyped
    <3>2. CASE disk' = [disk EXCEPT ![o] = Empty] /\ sync' = [sync EXCEPT ![o] = Nothing]
      BY <3>2, Written
    <3> QED BY <2>4, <3>1, <3>2
  <2> QED BY <1>2, <2>5, <2>6 DEF CreateSource, DocumentsTyped
<1>3. ASSUME NEW o \in Owners, ExcludeSource(o) PROVE DocumentsTyped'
  <2>1. source[o] \in SourceRows
    BY <1>3, Written DEF ExcludeSource
  <2>2. [source[o] EXCEPT !.excluded = ~@] \in SourceRows
    BY <2>1 DEF SourceRows
  <2>3. source' \in [Owners -> SourceRows \cup {Nothing}]
    BY <1>3, <2>2, Written DEF ExcludeSource, Sets
  <2> QED BY <1>3, <2>3 DEF ExcludeSource, DocumentsTyped
<1>4. ASSUME NEW o \in Owners, DeleteSource(o) PROVE DocumentsTyped'
  <2>1. source' \in [Owners -> SourceRows \cup {Nothing}] /\ recorded' \in [Owners -> SUBSET Versions]
    BY <1>4, Written DEF DeleteSource, Sets
  <2> QED BY <1>4, <2>1 DEF DeleteSource, DocumentsTyped
<1>5. ASSUME NEW o \in Owners, StartSync(o) PROVE DocumentsTyped'
  <2> DEFINE row == [source[o] EXCEPT !.status = "syncing"]
  <2>1. source[o] \in SourceRows
    BY <1>5, Written DEF StartSync
  <2>2. row \in SourceRows
    BY <2>1 DEF SourceRows
  <2>3. Sets(o, row) /\ Ingests(o, "fetch", 0, row)
    BY <1>5 DEF StartSync
  <2> HIDE DEF row
  <2>4. source' \in [Owners -> SourceRows \cup {Nothing}]
    BY <2>2, <2>3, Written DEF Sets
  <2>5. sync' \in [Owners -> Ingestions \cup {Nothing}]
    BY <2>2, <2>3, IngestTyped
  <2> QED BY <1>5, <2>4, <2>5 DEF StartSync, DocumentsTyped
<1>6. ASSUME NEW o \in Owners, IngestUpload(o) PROVE DocumentsTyped'
  <2> DEFINE row == IF source[o] = Nothing THEN Source("upload", "syncing") ELSE [source[o] EXCEPT !.status = "syncing"]
  <2>1. row \in SourceRows
    <3>1. CASE source[o] = Nothing
      BY <3>1, BusinessAssumption DEF Source, SourceRows
    <3>2. CASE source[o] # Nothing
      <4>1. source[o] \in SourceRows
        BY <3>2, Written
      <4> QED BY <3>2, <4>1 DEF SourceRows
    <3> QED BY <3>1, <3>2
  <2>2. Sets(o, row) /\ \E v \in 1..upstream : Ingests(o, "archive", v, row)
    BY <1>6 DEF IngestUpload
  <2> HIDE DEF row
  <2>3. PICK v \in 1..upstream : Ingests(o, "archive", v, row)
    BY <2>2
  <2>4. v \in Versions
    BY BusinessAssumption DEF DocumentsTyped, Versions
  <2>5. source' \in [Owners -> SourceRows \cup {Nothing}] /\ sync' \in [Owners -> Ingestions \cup {Nothing}]
    BY <2>1, <2>2, <2>3, <2>4, Written, IngestTyped DEF Sets
  <2>6. disk' \in [Owners -> D]
    <3>1. disk' = disk \/ disk' = [disk EXCEPT ![o] = Empty]
      BY <1>6 DEF IngestUpload
    <3> QED BY <3>1, Written DEF DocumentsTyped
  <2> QED BY <1>6, <2>5, <2>6 DEF IngestUpload, DocumentsTyped
<1>7. ASSUME NEW o \in Owners, Fetch(o) PROVE DocumentsTyped'
  <2>1. sync[o] # Nothing /\ sync[o].was \in SourceRows
    BY <1>7, ThreadsRow DEF Fetch
  <2>2. CASE Ingests(o, "archive", upstream, sync[o].was) /\ UNCHANGED source
    <3>1. upstream \in Versions
      BY DEF DocumentsTyped
    <3>2. sync' \in [Owners -> Ingestions \cup {Nothing}]
      BY <2>1, <2>2, <3>1, IngestTyped
    <3> QED BY <1>7, <2>2, <3>2 DEF Fetch, DocumentsTyped
  <2>3. CASE Commits(o, [sync[o].was EXCEPT !.status = "error"]) /\ sync' = [sync EXCEPT ![o] = Nothing]
    <3>1. [sync[o].was EXCEPT !.status = "error"] \in SourceRows
      BY <2>1 DEF SourceRows
    <3>2. source' \in [Owners -> SourceRows \cup {Nothing}]
      BY <2>1, <2>3, <3>1, Committed
    <3> QED BY <1>7, <2>3, <3>2, Written DEF Fetch, DocumentsTyped
  <2> QED BY <1>7, <2>2, <2>3 DEF Fetch
<1>8. ASSUME NEW o \in Owners, PersistSnapshot(o) PROVE DocumentsTyped'
  <2>1. /\ sync[o] \in Ingestions /\ sync[o].version \in Versions /\ sync[o].version \in 0..MaxVersion
        /\ sync[o].at \in {"archive", "clear", "write"}
    BY <1>8, Written, ThreadsRow DEF PersistSnapshot
  <2>2. PICK at \in {"clear", "write", "commit"} : sync' = [sync EXCEPT ![o].at = at]
    BY <1>8, <2>1 DEF PersistSnapshot
  <2>3. [sync[o] EXCEPT !.at = at] \in Ingestions
    BY <2>1 DEF Ingestions
  <2>4. sync' \in [Owners -> Ingestions \cup {Nothing}]
    BY <2>2, <2>3, Written
  <2>5. disk[o] \in D /\ disk[o].normalized \in 0..MaxVersion /\ disk[o].archive \in SUBSET Versions
    BY DEF DocumentsTyped
  <2>6. /\ ArchivePreviousNormalized(disk[o]) \in D
        /\ [disk[o] EXCEPT !.normalized = 0] \in D
        /\ [disk[o] EXCEPT !.normalized = sync[o].version] \in D
    <3>1. disk[o].archive \cup ({disk[o].normalized} \ {0}) \in SUBSET Versions
      BY <2>5, BusinessAssumption DEF Versions
    <3> QED BY <2>1, <2>5, <3>1, BusinessAssumption DEF ArchivePreviousNormalized
  <2>7. \E x \in D : disk' = [disk EXCEPT ![o] = x]
    BY <1>8, <2>1, <2>6 DEF PersistSnapshot
  <2> QED BY <1>8, <2>4, <2>7, Written DEF PersistSnapshot, DocumentsTyped
<1>9. ASSUME NEW o \in Owners, IngestDocuments(o) PROVE DocumentsTyped'
  <2>1. PICK answered \in BOOLEAN :
          Commits(o, [sync[o].was EXCEPT !.status = "synced", !.version = sync[o].version, !.stale = FALSE,
                        !.rev = IF answered THEN upstream ELSE 0,
                        !.probed = IF answered THEN "answered" ELSE "failed"])
    BY <1>9 DEF IngestDocuments
  <2>2. sync[o] # Nothing /\ sync[o].was \in SourceRows /\ sync[o].version \in 0..MaxVersion
    BY <1>9, ThreadsRow DEF IngestDocuments
  <2>3. upstream \in 0..MaxVersion /\ 0 \in 0..MaxVersion
    BY BusinessAssumption DEF DocumentsTyped, Versions
  <2>4. [sync[o].was EXCEPT !.status = "synced", !.version = sync[o].version, !.stale = FALSE,
                        !.rev = IF answered THEN upstream ELSE 0,
                        !.probed = IF answered THEN "answered" ELSE "failed"] \in SourceRows
    BY <2>2, <2>3 DEF SourceRows
  <2>5. source' \in [Owners -> SourceRows \cup {Nothing}]
    BY <2>1, <2>2, <2>4, Committed
  <2>6. recorded[o] \cup {sync[o].version} \in SUBSET Versions
    BY <1>9, <2>2, Written, ThreadsRow DEF IngestDocuments
  <2>7. recorded' \in [Owners -> SUBSET Versions] /\ sync' \in [Owners -> Ingestions \cup {Nothing}]
    BY <1>9, <2>6, Written DEF IngestDocuments
  <2> QED
    BY <1>9, <2>5, <2>7 DEF IngestDocuments, DocumentsTyped
<1>10. ASSUME NEW o \in Owners, ProbeReads(o) PROVE DocumentsTyped'
  <2>1. source[o] \in SourceRows
    BY <1>10, Written DEF ProbeReads
  <2> QED BY <1>10, <2>1 DEF ProbeReads, DocumentsTyped
<1>11. CASE RefreshStaleness
  <2> DEFINE o == probe.owner
             will(answered) ==
               IF answered
               THEN [probe.was EXCEPT !.probed = "answered",
                                      !.stale = probe.was.rev # 0 /\ upstream # probe.was.rev]
               ELSE [probe.was EXCEPT !.probed = "failed"]
  <2>1. o \in Owners /\ probe.was \in SourceRows
    BY <1>11 DEF RefreshStaleness, DocumentsTyped
  <2>2. PICK answered \in BOOLEAN :
          source' = [source EXCEPT ![o] = IF @ = Nothing THEN Nothing ELSE Flushed(@, probe.was, will(answered))]
    BY <1>11 DEF RefreshStaleness
  <2>3. will(answered) \in SourceRows
    BY <2>1 DEF SourceRows
  <2> HIDE DEF will
  <2>4. source[o] # Nothing => Flushed(source[o], probe.was, will(answered)) \in SourceRows
    BY <2>1, <2>3, Written, RowFlushes
  <2>5. source' \in [Owners -> SourceRows \cup {Nothing}]
    BY <2>1, <2>2, <2>4, Written
  <2> QED BY <1>11, <2>5 DEF RefreshStaleness, DocumentsTyped
<1>12. CASE CloneCommits
  <2> DEFINE m == clone.by
  <2>1. m \in Owners /\ Shared \in Owners /\ clone.source \in SourceRows \cup {Nothing}
    BY <1>12 DEF CloneCommits, WorkTyped, Owners
  <2>2. ASSUME ~CloneSkips
        PROVE  CopiedSource(clone.source) \in SourceRows /\ clone.source.version \in 0..MaxVersion
    <3>1. clone.source \in SourceRows
      BY <2>1, <2>2 DEF CloneSkips
    <3>2. clone.source.version \in 0..MaxVersion
      BY <3>1 DEF SourceRows
    <3> QED BY <3>1, <3>2, CopiedRow
  <2>3. source' \in [Owners -> SourceRows \cup {Nothing}]
    <3>1. source' = [source EXCEPT ![m] = IF CloneSkips THEN @ ELSE CopiedSource(clone.source)]
      BY <1>12 DEF CloneCommits
    <3> QED BY <2>1, <2>2, <3>1, Written
  <2>4. PICK old \in {Empty, disk[m]} :
          disk' = [disk EXCEPT ![m] = IF CloneSkips THEN @ ELSE Overlays(disk[Shared], old)]
    BY <1>12 DEF CloneCommits
  <2>5. Overlays(disk[Shared], old) \in D
    <3>1. disk[Shared] \in D /\ old \in D
      BY <2>1, Written DEF DocumentsTyped
    <3> QED BY <3>1 DEF Overlays
  <2>6. disk' \in [Owners -> D]
    BY <2>1, <2>4, <2>5, Written DEF DocumentsTyped
  <2>7. sync' \in [Owners -> Ingestions \cup {Nothing}]
    <3>1. sync' = [sync EXCEPT ![m] = IF CloneSkips THEN @ ELSE Nothing]
      BY <1>12 DEF CloneCommits
    <3> QED BY <2>1, <3>1, Written
  <2>8. recorded' \in [Owners -> SUBSET Versions]
    <3>1. recorded' = [recorded EXCEPT ![m] = IF CloneSkips THEN @ ELSE {clone.source.version} \ {0}]
      BY <1>12 DEF CloneCommits
    <3>2. ~CloneSkips => {clone.source.version} \ {0} \in SUBSET Versions
      BY <2>2, BusinessAssumption DEF Versions
    <3> QED BY <2>1, <3>1, <3>2, Written
  <2>9. UNCHANGED <<upstream, probe>>
    BY <1>12 DEF CloneCommits
  <2> QED BY <2>3, <2>6, <2>7, <2>8, <2>9 DEF DocumentsTyped
<1>13. CASE BusinessRestart
  BY <1>13 DEF BusinessRestart, DocumentsTyped
<1>14. CASE UNCHANGED documents
  BY <1>14 DEF documents, DocumentsTyped
<1>15. \/ \E o \in Owners, t \in Terms : AddFact(o, t)
       \/ \E i \in FactIds : CorrectFact(i) \/ UpdateFact(i)
       \/ \E o \in Owners : StartDistil(o)
       \/ BuildDistillation \/ MergeFacts \/ \E m \in Members : CloneReads(m)
       => UNCHANGED documents
  BY DEF AddFact, CorrectFact, UpdateFact, StartDistil, BuildDistillation, MergeFacts, CloneReads
<1> QED
  BY <1>1, <1>2, <1>3, <1>4, <1>5, <1>6, <1>7, <1>8, <1>9, <1>10, <1>11, <1>12, <1>13, <1>14, <1>15
  DEF BusinessNext

-----------------------------------------------------------------------------
\* Every variable keeps its shape, and the ids of facts are given in order, for
\* any number of owners, versions, facts and requests.
THEOREM BusinessTyping == BusinessSpec => []BusinessTypeOK
<1>1. BusinessInit => BusinessTypeOK
  <2> SUFFICES ASSUME BusinessInit PROVE BusinessTypeOK
    OBVIOUS
  <2>1. FactRows = {}
    BY DEF BusinessInit, FactRows
  <2>2. FactRows = 1..Cardinality(FactRows)
    BY <2>1, FS_EmptySet
  <2> QED BY <2>2, BusinessAssumption DEF BusinessInit, BusinessTypeOK, Versions, Empty, Briefs
<1>2. BusinessTypeOK /\ [BusinessNext]_businessVars => BusinessTypeOK'
  <2> SUFFICES ASSUME BusinessTypeOK, [BusinessNext]_businessVars PROVE BusinessTypeOK'
    OBVIOUS
  <2>1. CASE BusinessNext
    <3>1. DocumentsTyped /\ FactsTyped /\ WorkTyped /\ AskedTyped
      BY TypeParts
    <3>2. DocumentsTyped' /\ FactsTyped' /\ FactRows \subseteq FactRows' /\ AskedTyped'
      BY <2>1, <3>1, DocumentsStep, FactsStep, AskedStep
    <3>3. WorkTyped'
      BY <2>1, <3>2, BriefTyped, DistilTyped, CloneTyped DEF WorkTyped
    <3>4. BusinessTypeOK' <=> DocumentsTyped' /\ FactsTyped' /\ WorkTyped' /\ AskedTyped'
      BY DEF BusinessTypeOK, DocumentsTyped, FactsTyped, WorkTyped, AskedTyped
    <3> QED BY <3>2, <3>3, <3>4
  <2>2. CASE UNCHANGED businessVars
    BY <2>2 DEF businessVars, documents, knowledge, BusinessTypeOK, FactRows
  <2> QED BY <2>1, <2>2
<1> QED BY <1>1, <1>2, PTL DEF BusinessSpec

-----------------------------------------------------------------------------
(* What a source has recorded stays readable.                              *)

Readable(o) == disk[o].archive \cup {disk[o].normalized}

\* A row that is not there has recorded nothing, and the version of one that
\* is there is one it recorded.
Recorded(o) ==
  /\ source[o] = Nothing => recorded[o] = {}
  /\ source[o] # Nothing => source[o].version \in recorded[o] \cup {0}
  /\ recorded[o] \subseteq Readable(o)

\* Where an ingestion is, the file it replaces is archived, gone or replaced.
Replacing(o) ==
  sync[o] # Nothing =>
    /\ sync[o].at = "clear"  => disk[o].normalized \in disk[o].archive \cup {0}
    /\ sync[o].at = "write"  => disk[o].normalized = 0
    /\ sync[o].at = "commit" => disk[o].normalized = sync[o].version

\* What a clone read of the shared source, it will find when it copies.
CloneFinds ==
  clone # Nothing /\ clone.source # Nothing => clone.source.version \in Readable(Shared) \cup {0}

SnapshotInv == (\A o \in Owners : Recorded(o) /\ Replacing(o)) /\ CloneFinds

LEMMA CloneStillFinds ==
  ASSUME CloneFinds, clone' = clone \/ clone' = Nothing,
         clone # Nothing => Readable(Shared) \subseteq Readable(Shared)' \cup {0}
  PROVE  CloneFinds'
BY DEF CloneFinds

\* A step on one owner's documents.
LEMMA OneOwner ==
  ASSUME SnapshotInv, NEW o \in Owners,
         \A p \in Owners \ {o} : /\ source'[p] = source[p] /\ recorded'[p] = recorded[p]
                                 /\ disk'[p] = disk[p] /\ sync'[p] = sync[p],
         Recorded(o)', Replacing(o)', clone' = clone \/ clone' = Nothing,
         clone # Nothing /\ o = Shared => Readable(o) \subseteq Readable(o)' \cup {0}
  PROVE  SnapshotInv'
<1>1. ASSUME NEW p \in Owners \ {o} PROVE Recorded(p)' /\ Replacing(p)' /\ Readable(p)' = Readable(p)
  BY <1>1 DEF SnapshotInv, Recorded, Replacing, Readable
<1>2. clone # Nothing => Readable(Shared) \subseteq Readable(Shared)' \cup {0}
  BY <1>1 DEF Owners
<1>3. CloneFinds'
  BY <1>2, CloneStillFinds DEF SnapshotInv
<1> QED BY <1>1, <1>3 DEF SnapshotInv

LEMMA NothingIsNoRow == \A x \in SourceRows : x # Nothing
BY BusinessAssumption

LEMMA SnapshotStep ==
  ASSUME BusinessTypeOK, SnapshotInv, BusinessNext
  PROVE  SnapshotInv'
<1>0. DocumentsTyped /\ WorkTyped
  BY TypeParts
<1>1. ASSUME NEW o \in Owners, CreateSource(o) PROVE SnapshotInv'
  <2>1. PICK kind \in {"url", "wiki"} : Registers(o, Source(kind, "pending"))
    BY <1>1 DEF CreateSource
  <2> DEFINE row == Source(kind, "pending")
  <2>2. row # Nothing /\ row.version = 0
    <3>1. row \in SourceRows /\ row.version = 0
      BY BusinessAssumption DEF Source, SourceRows
    <3> QED BY <3>1, NothingIsNoRow
  <2>3. /\ source[o] = Nothing /\ source' = [source EXCEPT ![o] = row]
        /\ \/ UNCHANGED <<disk, sync>>
           \/ /\ clone = Nothing
              /\ disk' = [disk EXCEPT ![o] = Empty] /\ sync' = [sync EXCEPT ![o] = Nothing]
    BY <2>1, Registered
  <2> HIDE DEF row
  <2>4. UNCHANGED <<recorded, clone>> /\ recorded[o] = {}
    BY <1>1, <2>3 DEF CreateSource, SnapshotInv, Recorded, knowledge
  <2>5. Recorded(o)'
    BY <1>0, <2>2, <2>3, <2>4 DEF DocumentsTyped, Recorded
  <2>6. Replacing(o)' /\ (clone # Nothing => Readable(o) \subseteq Readable(o)')
    BY <1>0, <2>3 DEF DocumentsTyped, SnapshotInv, Replacing, Readable
  <2> QED BY <1>0, <2>3, <2>4, <2>5, <2>6, OneOwner DEF DocumentsTyped
<1>2. ASSUME NEW o \in Owners, ExcludeSource(o) PROVE SnapshotInv'
  <2>1. source[o] \in SourceRows /\ source[o] # Nothing
    BY <1>0, <1>2, Written DEF ExcludeSource
  <2> DEFINE row == [source[o] EXCEPT !.excluded = ~@]
  <2>2. row # Nothing /\ row.version = source[o].version
    <3>1. row \in SourceRows /\ row.version = source[o].version
      BY <2>1 DEF SourceRows
    <3> QED BY <3>1, NothingIsNoRow
  <2>3. source' = [source EXCEPT ![o] = row] /\ UNCHANGED <<disk, sync, recorded, clone>>
    BY <1>2 DEF ExcludeSource, Sets, knowledge
  <2> HIDE DEF row
  <2>4. Recorded(o)' /\ Replacing(o)' /\ Readable(o)' = Readable(o)
    BY <1>0, <2>1, <2>2, <2>3 DEF DocumentsTyped, SnapshotInv, Recorded, Replacing, Readable
  <2> QED BY <1>0, <2>3, <2>4, OneOwner DEF DocumentsTyped
<1>3. ASSUME NEW o \in Owners, DeleteSource(o) PROVE SnapshotInv'
  <2>1. /\ source' = [source EXCEPT ![o] = Nothing] /\ recorded' = [recorded EXCEPT ![o] = {}]
        /\ UNCHANGED <<disk, sync, clone>>
    BY <1>3 DEF DeleteSource, Sets, knowledge
  <2>2. Recorded(o)' /\ Replacing(o)' /\ Readable(o)' = Readable(o)
    BY <1>0, <2>1 DEF DocumentsTyped, SnapshotInv, Recorded, Replacing, Readable
  <2> QED BY <1>0, <2>1, <2>2, OneOwner DEF DocumentsTyped
<1>4. ASSUME NEW o \in Owners, StartSync(o) PROVE SnapshotInv'
  <2>1. source[o] \in SourceRows /\ source[o] # Nothing
    BY <1>0, <1>4, Written DEF StartSync
  <2> DEFINE row == [source[o] EXCEPT !.status = "syncing"]
  <2>2. row # Nothing /\ row.version = source[o].version
    <3>1. row \in SourceRows /\ row.version = source[o].version
      BY <2>1 DEF SourceRows
    <3> QED BY <3>1, NothingIsNoRow
  <2>3. /\ source' = [source EXCEPT ![o] = row] /\ UNCHANGED <<disk, recorded, clone>>
        /\ sync' = [sync EXCEPT ![o] = [at |-> "fetch", version |-> 0, was |-> row]]
    BY <1>4 DEF StartSync, Sets, Ingests, knowledge
  <2> HIDE DEF row
  <2>4. Recorded(o)' /\ Readable(o)' = Readable(o)
    BY <1>0, <2>1, <2>2, <2>3 DEF DocumentsTyped, SnapshotInv, Recorded, Readable
  <2>5. Replacing(o)'
    BY <1>0, <2>3 DEF DocumentsTyped, Replacing
  <2> QED BY <1>0, <2>3, <2>4, <2>5, OneOwner DEF DocumentsTyped
<1>5. ASSUME NEW o \in Owners, IngestUpload(o) PROVE SnapshotInv'
  <2> DEFINE row == IF source[o] = Nothing THEN Source("upload", "syncing") ELSE [source[o] EXCEPT !.status = "syncing"]
  <2>1. row # Nothing /\ row.version = IF source[o] = Nothing THEN 0 ELSE source[o].version
    <3>1. CASE source[o] = Nothing
      <4>1. row \in SourceRows /\ row.version = 0
        BY <3>1, BusinessAssumption DEF Source, SourceRows
      <4> QED BY <3>1, <4>1, NothingIsNoRow
    <3>2. CASE source[o] # Nothing
      <4>1. source[o] \in SourceRows
        BY <1>0, <3>2, Written
      <4>2. row \in SourceRows /\ row.version = source[o].version
        BY <3>2, <4>1 DEF SourceRows
      <4> QED BY <3>2, <4>2, NothingIsNoRow
    <3> QED BY <3>1, <3>2
  <2>2. /\ source' = [source EXCEPT ![o] = row] /\ UNCHANGED <<recorded, clone>>
        /\ \E v \in 1..upstream : sync' = [sync EXCEPT ![o] = [at |-> "archive", version |-> v, was |-> row]]
        /\ disk' = disk \/ (source[o] = Nothing /\ clone = Nothing /\ disk' = [disk EXCEPT ![o] = Empty])
    BY <1>5 DEF IngestUpload, Sets, Ingests, knowledge
  <2> HIDE DEF row
  <2>3. PICK v \in 1..upstream : sync' = [sync EXCEPT ![o] = [at |-> "archive", version |-> v, was |-> row]]
    BY <2>2
  <2>4. Replacing(o)'
    BY <1>0, <2>3 DEF DocumentsTyped, Replacing
  <2>5. recorded[o] \subseteq Readable(o)' /\ (clone # Nothing => Readable(o) \subseteq Readable(o)')
    BY <1>0, <2>2 DEF DocumentsTyped, SnapshotInv, Recorded, Readable
  <2>6. Recorded(o)'
    BY <1>0, <2>1, <2>2, <2>5 DEF DocumentsTyped, SnapshotInv, Recorded
  <2> QED BY <1>0, <2>2, <2>3, <2>4, <2>5, <2>6, OneOwner DEF DocumentsTyped
<1>6. ASSUME NEW o \in Owners, Fetch(o) PROVE SnapshotInv'
  <2>1. sync[o] # Nothing /\ sync[o].was \in SourceRows /\ UNCHANGED <<disk, recorded, clone>>
    BY <1>0, <1>6, ThreadsRow DEF Fetch, knowledge
  <2>2. CASE Ingests(o, "archive", upstream, sync[o].was) /\ UNCHANGED source
    <3>1. sync' = [sync EXCEPT ![o] = [at |-> "archive", version |-> upstream, was |-> sync[o].was]]
      BY <2>2 DEF Ingests
    <3>2. Replacing(o)' /\ Recorded(o)' /\ Readable(o)' = Readable(o)
      BY <1>0, <2>1, <2>2, <3>1 DEF DocumentsTyped, SnapshotInv, Replacing, Recorded, Readable
    <3> QED BY <1>0, <2>1, <2>2, <3>1, <3>2, OneOwner DEF DocumentsTyped
  <2>3. CASE Commits(o, [sync[o].was EXCEPT !.status = "error"]) /\ sync' = [sync EXCEPT ![o] = Nothing]
    <3> DEFINE will == [sync[o].was EXCEPT !.status = "error"]
    <3>1. will \in SourceRows /\ will.version = sync[o].was.version
      BY <2>1 DEF SourceRows
    <3>2. Commits(o, will)
      BY <2>3
    <3> HIDE DEF will
    <3>3. /\ \A p \in Owners \ {o} : source'[p] = source[p]
          /\ source'[o] = Nothing <=> source[o] = Nothing
          /\ source[o] # Nothing => source'[o].version = source[o].version
      BY <1>0, <2>1, <3>1, <3>2, Committed
    <3>4. Replacing(o)' /\ Recorded(o)' /\ Readable(o)' = Readable(o)
      BY <1>0, <2>1, <2>3, <3>3 DEF DocumentsTyped, SnapshotInv, Replacing, Recorded, Readable
    <3> QED BY <1>0, <2>1, <2>3, <3>3, <3>4, OneOwner DEF DocumentsTyped
  <2> QED BY <1>6, <2>2, <2>3 DEF Fetch
<1>7. ASSUME NEW o \in Owners, PersistSnapshot(o) PROVE SnapshotInv'
  <2> DEFINE next == CASE sync[o].at = "archive" -> "clear" [] sync[o].at = "clear" -> "write"
                       [] sync[o].at = "write" -> "commit"
             dir  == CASE sync[o].at = "archive" -> ArchivePreviousNormalized(disk[o])
                       [] sync[o].at = "clear" -> [disk[o] EXCEPT !.normalized = 0]
                       [] sync[o].at = "write" -> [disk[o] EXCEPT !.normalized = sync[o].version]
  <2>1. /\ UNCHANGED <<source, recorded, clone>> /\ sync[o] # Nothing
        /\ sync[o].at \in {"archive", "clear", "write"}
    BY <1>7 DEF PersistSnapshot, knowledge
  <2>2. disk' = [disk EXCEPT ![o] = dir]
    BY <1>7 DEF PersistSnapshot
  <2>3. sync' = [sync EXCEPT ![o].at = next]
    BY <1>7 DEF PersistSnapshot
  <2>4. /\ disk[o] \in [normalized : 0..MaxVersion, archive : SUBSET Versions]
        /\ sync[o] \in Ingestions
    BY <1>0, <2>1, Written DEF DocumentsTyped
  <2>5. sync'[o].at = next /\ sync'[o].version = sync[o].version /\ disk'[o] = dir
    BY <1>0, <2>2, <2>3, <2>4 DEF DocumentsTyped, Ingestions
  <2>6. sync[o].at = "archive" =>
          /\ dir.normalized = disk[o].normalized
          /\ dir.archive = disk[o].archive \cup ({disk[o].normalized} \ {0})
    BY <2>4 DEF ArchivePreviousNormalized
  <2>7. sync[o].at = "clear" => dir.normalized = 0 /\ dir.archive = disk[o].archive
    BY <2>4
  <2>8. sync[o].at = "write" => dir.normalized = sync[o].version /\ dir.archive = disk[o].archive
    BY <2>4
  <2>9. /\ sync[o].at = "archive" => next = "clear"
        /\ sync[o].at = "clear" => next = "write"
        /\ sync[o].at = "write" => next = "commit"
    OBVIOUS
  <2> HIDE DEF next, dir
  <2>10. Recorded(o) /\ Replacing(o)
    BY DEF SnapshotInv
  <2>11. Readable(o) \subseteq Readable(o)' \cup {0}
    BY <2>1, <2>5, <2>6, <2>7, <2>8, <2>10 DEF Readable, Replacing
  <2>12. Replacing(o)'
    BY <2>1, <2>5, <2>6, <2>7, <2>8, <2>9 DEF Replacing
  <2>13. Recorded(o)'
    <3>1. 0 \notin recorded[o]
      BY <1>0, BusinessAssumption DEF DocumentsTyped, Versions
    <3> QED BY <2>1, <2>10, <2>11, <3>1 DEF Recorded
  <2>14. \A p \in Owners \ {o} : disk'[p] = disk[p] /\ sync'[p] = sync[p]
    BY <1>0, <2>2, <2>3 DEF DocumentsTyped
  <2> QED BY <2>1, <2>11, <2>12, <2>13, <2>14, OneOwner
<1>8. ASSUME NEW o \in Owners, IngestDocuments(o) PROVE SnapshotInv'
  <2> DEFINE will(answered) == [sync[o].was EXCEPT !.status = "synced", !.version = sync[o].version, !.stale = FALSE,
                        !.rev = IF answered THEN upstream ELSE 0,
                        !.probed = IF answered THEN "answered" ELSE "failed"]
  <2>1. PICK answered \in BOOLEAN : Commits(o, will(answered))
    BY <1>8 DEF IngestDocuments
  <2>2. /\ sync[o] # Nothing /\ sync[o].at = "commit" /\ sync' = [sync EXCEPT ![o] = Nothing]
        /\ recorded' = [recorded EXCEPT ![o] = IF source[o] = Nothing THEN @ ELSE @ \cup {sync[o].version}]
        /\ UNCHANGED <<disk, clone>>
    BY <1>8 DEF IngestDocuments, knowledge
  <2>3. /\ sync[o].was \in SourceRows /\ sync[o].version \in 0..MaxVersion
        /\ upstream \in 0..MaxVersion /\ 0 \in 0..MaxVersion
    BY <1>0, <2>2, ThreadsRow, BusinessAssumption DEF DocumentsTyped, Versions
  <2>4. will(answered) \in SourceRows /\ will(answered).version = sync[o].version
    BY <2>3 DEF SourceRows
  <2> HIDE DEF will
  <2>5. /\ \A p \in Owners \ {o} : source'[p] = source[p]
        /\ source'[o] = Nothing <=> source[o] = Nothing
        /\ source[o] # Nothing => source'[o].version \in {source[o].version, sync[o].version}
    BY <1>0, <2>1, <2>2, <2>4, Committed
  <2>6. /\ recorded'[o] = IF source[o] = Nothing THEN recorded[o] ELSE recorded[o] \cup {sync[o].version}
        /\ \A p \in Owners \ {o} : recorded'[p] = recorded[p] /\ sync'[p] = sync[p]
        /\ sync'[o] = Nothing /\ Readable(o)' = Readable(o)
    BY <1>0, <2>2 DEF DocumentsTyped, Readable
  <2>7. Recorded(o) /\ sync[o].version \in Readable(o)
    BY <2>2 DEF SnapshotInv, Replacing, Readable
  <2>8. Recorded(o)' /\ Replacing(o)'
    BY <2>5, <2>6, <2>7 DEF Recorded, Replacing
  <2> QED BY <2>2, <2>5, <2>6, <2>8, OneOwner
<1>9. CASE RefreshStaleness
  <2>1. PICK o \in Owners : o = probe.owner /\ probe.was \in SourceRows
    BY <1>0, <1>9 DEF RefreshStaleness, DocumentsTyped
  <2> DEFINE will(answered) ==
               IF answered
               THEN [probe.was EXCEPT !.probed = "answered",
                                      !.stale = probe.was.rev # 0 /\ upstream # probe.was.rev]
               ELSE [probe.was EXCEPT !.probed = "failed"]
             row(answered) == IF source[o] = Nothing THEN Nothing ELSE Flushed(source[o], probe.was, will(answered))
  <2>2. PICK answered \in BOOLEAN : source' = [source EXCEPT ![o] = row(answered)]
    BY <1>9, <2>1 DEF RefreshStaleness
  <2>3. will(answered) \in SourceRows /\ will(answered).version = probe.was.version
    BY <2>1 DEF SourceRows
  <2> HIDE DEF will
  <2>4. /\ row(answered) = Nothing <=> source[o] = Nothing
        /\ source[o] # Nothing => row(answered).version = source[o].version
    <3>1. source[o] # Nothing => source[o] \in SourceRows
      BY <1>0, <2>1, Written
    <3> QED BY <2>1, <2>3, <3>1, RowFlushes, NothingIsNoRow
  <2> HIDE DEF row
  <2>5. UNCHANGED <<disk, recorded, sync, clone>>
    BY <1>9 DEF RefreshStaleness, knowledge
  <2>6. source'[o] = row(answered) /\ \A p \in Owners \ {o} : source'[p] = source[p]
    BY <1>0, <2>1, <2>2 DEF DocumentsTyped
  <2>7. Recorded(o)' /\ Replacing(o)' /\ Readable(o)' = Readable(o)
    BY <2>1, <2>4, <2>5, <2>6 DEF SnapshotInv, Recorded, Replacing, Readable
  <2> QED BY <2>1, <2>5, <2>6, <2>7, OneOwner
<1>10. ASSUME NEW m \in Members, CloneReads(m) PROVE SnapshotInv'
  <2>1. clone'.source = source[Shared] /\ UNCHANGED documents
    BY <1>10 DEF CloneReads
  <2>2. Shared \in Owners
    BY DEF Owners
  <2>3. CloneFinds'
    BY <2>1, <2>2 DEF documents, SnapshotInv, Recorded, CloneFinds, Readable
  <2> QED BY <2>1, <2>3 DEF documents, SnapshotInv, Recorded, Replacing, Readable
<1>11. CASE CloneCommits
  <2>0. PICK m \in Owners : m = clone.by
    BY <1>0, <1>11 DEF CloneCommits, WorkTyped, Owners
  <2>1. /\ m # Shared /\ Shared \in Owners /\ clone # Nothing /\ clone' = Nothing
        /\ clone.source \in SourceRows \cup {Nothing}
    BY <1>0, <1>11, <2>0, BusinessAssumption DEF CloneCommits, WorkTyped, Owners
  <2>2. PICK old : disk' = [disk EXCEPT ![m] = IF CloneSkips THEN @ ELSE Overlays(disk[Shared], old)]
    BY <1>11, <2>0 DEF CloneCommits
  <2>3. /\ source' = [source EXCEPT ![m] = IF CloneSkips THEN @ ELSE CopiedSource(clone.source)]
        /\ sync' = [sync EXCEPT ![m] = IF CloneSkips THEN @ ELSE Nothing]
        /\ recorded' = [recorded EXCEPT ![m] = IF CloneSkips THEN @ ELSE {clone.source.version} \ {0}]
    BY <1>11, <2>0 DEF CloneCommits
  <2>4. \A p \in Owners \ {m} : /\ source'[p] = source[p] /\ recorded'[p] = recorded[p]
                                /\ disk'[p] = disk[p] /\ sync'[p] = sync[p]
    BY <1>0, <2>1, <2>2, <2>3 DEF DocumentsTyped
  <2>5. CASE CloneSkips
    <3>1. source'[m] = source[m] /\ recorded'[m] = recorded[m] /\ disk'[m] = disk[m] /\ sync'[m] = sync[m]
      BY <1>0, <2>1, <2>2, <2>3, <2>5 DEF DocumentsTyped
    <3>2. Recorded(m)' /\ Replacing(m)'
      BY <2>1, <3>1 DEF SnapshotInv, Recorded, Replacing, Readable
    <3> QED BY <2>1, <2>4, <3>2, OneOwner
  <2>6. CASE ~CloneSkips
    <3>1. clone.source # Nothing /\ clone.source \in SourceRows
      BY <2>0, <2>1, <2>6 DEF CloneSkips
    <3>2. CopiedSource(clone.source) # Nothing /\ CopiedSource(clone.source).version = clone.source.version
      BY <3>1, CopiedRow, NothingIsNoRow
    <3>3. /\ source'[m] = CopiedSource(clone.source) /\ sync'[m] = Nothing
          /\ recorded'[m] = {clone.source.version} \ {0} /\ disk'[m] = Overlays(disk[Shared], old)
      BY <1>0, <2>1, <2>2, <2>3, <2>6 DEF DocumentsTyped
    <3>4. clone.source.version \in Readable(Shared) \cup {0}
      BY <2>1, <3>1 DEF SnapshotInv, CloneFinds
    <3>5. Readable(Shared) \subseteq Readable(m)' \cup {0}
      BY <3>3 DEF Overlays, Readable
    <3>6. Recorded(m)' /\ Replacing(m)'
      BY <3>2, <3>3, <3>4, <3>5 DEF Recorded, Replacing
    <3> QED BY <2>1, <2>4, <3>6, OneOwner
  <2> QED BY <2>5, <2>6
<1>12. CASE BusinessRestart
  <2>1. sync' = [o \in Owners |-> Nothing] /\ clone' = Nothing /\ UNCHANGED <<source, disk, recorded>>
    BY <1>12 DEF BusinessRestart
  <2> QED BY <2>1 DEF SnapshotInv, Recorded, Replacing, CloneFinds, Readable
<1>13. CASE UNCHANGED <<source, disk, recorded, sync, clone>>
  BY <1>13 DEF SnapshotInv, Recorded, Replacing, CloneFinds, Readable
<1>14. \/ UpstreamChanges \/ \E o \in Owners : ProbeReads(o) \/ StartDistil(o)
       \/ \E o \in Owners, t \in Terms : AddFact(o, t)
       \/ \E i \in FactIds : CorrectFact(i) \/ UpdateFact(i)
       \/ BuildDistillation \/ MergeFacts
       => UNCHANGED <<source, disk, recorded, sync, clone>>
  BY DEF UpstreamChanges, ProbeReads, StartDistil, AddFact, CorrectFact, UpdateFact,
     BuildDistillation, MergeFacts, documents, knowledge
<1> QED
  BY <1>1, <1>2, <1>3, <1>4, <1>5, <1>6, <1>7, <1>8, <1>9, <1>10, <1>11, <1>12, <1>13, <1>14
  DEF BusinessNext

\* Whatever version a source has ever recorded stays readable on disk: across
\* syncs, crashes in the middle of one, replaced uploads, deleted rows and clones.
THEOREM SnapshotsReadable == BusinessSpec => []SnapshotKept
<1>1. BusinessInit => SnapshotInv
  BY DEF BusinessInit, SnapshotInv, Recorded, Replacing, CloneFinds, Readable
<1>2. BusinessTypeOK /\ SnapshotInv /\ [BusinessNext]_businessVars => SnapshotInv'
  <2>1. CASE UNCHANGED businessVars
    BY <2>1 DEF businessVars, documents, knowledge, SnapshotInv, Recorded, Replacing, CloneFinds, Readable
  <2> QED BY <2>1, SnapshotStep
<1>3. SnapshotInv => SnapshotKept
  BY DEF SnapshotInv, SnapshotKept, Recorded, Readable
<1> QED BY <1>1, <1>2, <1>3, BusinessTyping, PTL DEF BusinessSpec

-----------------------------------------------------------------------------
(* What a human decided.                                                   *)

LEMMA HumanStep ==
  ASSUME BusinessTypeOK, BusinessNext, asked'.edits = asked.edits, NEW i \in FactRows
  PROVE  /\ facts'[i].excluded = facts[i].excluded
         /\ facts'[i].superseded_by = facts[i].superseded_by
         /\ facts[i].origin = "manual" => facts'[i].said = facts[i].said
<1>0. FactsTyped /\ WorkTyped /\ AskedTyped /\ facts[i] \in FactTable
  BY TypeParts, FactsNumbered
<1>1. ~Asks("edits")
  <2>1. "edits" \in DOMAIN BusinessLimit
    BY DEF BusinessLimit
  <2> QED BY <1>0, <2>1, Counted
<1>2. CASE MergeFacts
  <2>1. CASE facts'[i] = [facts[i] EXCEPT !.said = "distilled"] /\ facts[i].origin # "manual"
    BY <1>0, <2>1 DEF FactTable
  <2> QED BY <1>0, <1>2, <2>1, FactMerged
<1>3. CASE CloneCommits
  BY <1>0, <1>3, Cloned
<1>4. CASE UNCHANGED facts
  BY <1>4
<1>5. ~ \/ \E o \in Owners, t \in Terms : AddFact(o, t)
        \/ \E k \in FactIds : CorrectFact(k) \/ UpdateFact(k)
  BY <1>1 DEF AddFact, CorrectFact, UpdateFact
<1>6. MergeFacts \/ CloneCommits \/ UNCHANGED facts
  BY <1>5 DEF BusinessNext, UpstreamChanges, CreateSource, ExcludeSource, DeleteSource, StartSync,
     IngestUpload, Fetch, PersistSnapshot, IngestDocuments, ProbeReads, StartDistil,
     RefreshStaleness, BuildDistillation, CloneReads, BusinessRestart, knowledge
<1> QED BY <1>2, <1>3, <1>4, <1>6

\* Nothing but a human's own request changes the words of a manual fact, an
\* exclusion, or which row a correction supersedes.
THEOREM HumansDecide == BusinessSpec => HumanDecisionsStand
<1> DEFINE Stands ==
      asked'.edits = asked.edits =>
        \A i \in FactRows :
          /\ facts'[i].excluded = facts[i].excluded
          /\ facts'[i].superseded_by = facts[i].superseded_by
          /\ facts[i].origin = "manual" => facts'[i].said = facts[i].said
<1>1. BusinessTypeOK /\ [BusinessNext]_businessVars => [Stands]_businessVars
  BY HumanStep
<1>2. BusinessSpec => [][Stands]_businessVars
  BY <1>1, BusinessTyping, PTL DEF BusinessSpec
<1> QED BY <1>2 DEF HumanDecisionsStand

-----------------------------------------------------------------------------
(***************************************************************************)
(* Learning: the knowledge base of one repository.                         *)
(***************************************************************************)

\* A build thread has its key, and a row it has loaded is in the table for good.
BuildShape ==
  /\ building \in BOOLEAN
  /\ build # NoWork =>
       /\ building
       /\ build \in [at : {"start", "scan", "end"}, row : Scopes \cup {NoWork}, was : ScopeRows \cup {NoWork}]
       /\ build.at # "start" => /\ build.row \in Scopes /\ build.was \in ScopeRows
                                /\ scopes[build.row] \in ScopeRows
EditShape ==
  edit # NoWork => edit \in [row : Scopes, was : ScopeRows] /\ scopes[edit.row] \in ScopeRows
MergeShape ==
  merge # NoWork => merge \in [row : Scopes, was : ScopeRows] /\ scopes[merge.row] \in ScopeRows
CloneShape ==
  cloning # NoWork => cloning \in [by : ScopeOwners, was : ScopeRows, copied : BOOLEAN]
TableShape ==
  /\ scopes \in [Scopes -> ScopeRows \cup {NoRow}]
  /\ docs \in [Scopes -> (SUBSET Entries) \cup {NoWork}]
  /\ checkouts \subseteq Scopes
LearnShape == TableShape /\ BuildShape /\ EditShape /\ MergeShape /\ CloneShape

LEMMA LearnStart == LearnInit => LearnShape
<1> SUFFICES ASSUME LearnInit PROVE LearnShape
  OBVIOUS
<1>1. TableShape BY DEF LearnInit, TableShape
<1>2. BuildShape /\ EditShape /\ MergeShape /\ CloneShape
  BY DEF LearnInit, BuildShape, EditShape, MergeShape, CloneShape
<1> QED BY <1>1, <1>2 DEF LearnShape

\* No row is ever deleted.
RowsKept == \A o \in Scopes : scopes[o] \in ScopeRows => scopes'[o] \in ScopeRows

LEMMA Kept_Build == ASSUME LearnShape, RowsKept, UNCHANGED BuildThread PROVE BuildShape'
  BY DEF LearnShape, BuildShape, RowsKept, BuildThread
LEMMA Kept_Edit == ASSUME LearnShape, RowsKept, UNCHANGED edit PROVE EditShape'
  BY DEF LearnShape, EditShape, RowsKept
LEMMA Kept_Merge == ASSUME LearnShape, RowsKept, UNCHANGED merge PROVE MergeShape'
  BY DEF LearnShape, MergeShape, RowsKept
LEMMA Kept_Clone == ASSUME LearnShape, UNCHANGED cloning PROVE CloneShape'
  BY DEF LearnShape, CloneShape

LEMMA RowWritten ==
  ASSUME LearnShape, NEW o \in Scopes, NEW r \in ScopeRows, Writes(o, r)
  PROVE  /\ scopes' \in [Scopes -> ScopeRows \cup {NoRow}] /\ RowsKept /\ scopes'[o] = r
         /\ \A p \in Scopes \ {o} : scopes'[p] = scopes[p]
BY DEF LearnShape, TableShape, Writes, RowsKept

LEMMA RowStands ==
  ASSUME LearnShape, UNCHANGED scopes
  PROVE  scopes' \in [Scopes -> ScopeRows \cup {NoRow}] /\ RowsKept
BY DEF LearnShape, TableShape, RowsKept

LEMMA Emitted ==
  ASSUME LearnShape, NEW o \in Scopes, NEW blob \in SUBSET Entries, Emits(o, blob)
  PROVE  docs' \in [Scopes -> (SUBSET Entries) \cup {NoWork}]
BY DEF LearnShape, TableShape, Emits

LEMMA FlushTyped ==
  ASSUME NEW o, scopes[o] \in ScopeRows, NEW was \in ScopeRows, NEW blob \in SUBSET Entries,
         NEW status, status \in {"not_indexed", "indexing", "indexed", "error"}, NEW built, built \in BOOLEAN
  PROVE  /\ FlushedRow(o, was, status, built, blob) \in ScopeRows
         /\ FlushedRow(o, was, status, built, blob).blob = IF blob = was.blob THEN scopes[o].blob ELSE blob
BY DEF FlushedRow, Row, ScopeRows

LEMMA FoundTyped == \A found \in Scans : {Entry(s, "source") : s \in found} \in SUBSET Entries
BY LearnAssumption DEF Entry, Entries, Marks

-----------------------------------------------------------------------------
\* The writers of the table, one by one.

LEMMA MarkTyped ==
  ASSUME LearnShape, NEW o \in Scopes, NEW fresh \in BOOLEAN, fresh \/ o \in Held, MarkIndexing(o, fresh)
  PROVE  LearnShape' /\ (build # NoWork => build' = build) /\ merge' = merge
<1>1. (IF fresh THEN Row("indexing", FALSE, {}) ELSE [scopes[o] EXCEPT !.status = "indexing"]) \in ScopeRows
  BY DEF Row, ScopeRows, Held, LearnShape, TableShape
<1>2. scopes' \in [Scopes -> ScopeRows \cup {NoRow}] /\ RowsKept
  BY <1>1, RowWritten DEF MarkIndexing
<1>3. StartBuild /\ UNCHANGED <<checkouts, docs, edit, merge, cloning>> BY DEF MarkIndexing
<1>4. BuildShape'
  <2>1. CASE building BY <1>2, <1>3, <2>1, Kept_Build DEF StartBuild
  <2>2. CASE ~building BY <1>3, <2>2 DEF StartBuild, BuildShape
  <2> QED BY <2>1, <2>2
<1>5. build # NoWork => build' = build BY <1>3 DEF LearnShape, BuildShape, StartBuild, BuildThread
<1> QED BY <1>2, <1>3, <1>4, <1>5, Kept_Edit, Kept_Merge, Kept_Clone DEF LearnShape, TableShape

LEMMA RunTyped == ASSUME LearnShape, RunBuild PROVE LearnShape'
<1>1. PICK o \in Held : /\ build' = [at |-> "scan", row |-> o, was |-> scopes[o]]
                        /\ checkouts' \in MaterializeRemote(o)
  BY DEF RunBuild, FirstByKey
<1>2. o \in Scopes /\ scopes[o] \in ScopeRows BY DEF Held, LearnShape, TableShape
<1>3. UNCHANGED <<scopes, docs, building, edit, merge, cloning>> /\ build # NoWork BY DEF RunBuild
<1>4. BuildShape' BY <1>1, <1>2, <1>3 DEF BuildShape, LearnShape
<1>5. checkouts' \subseteq Scopes BY <1>1, <1>2 DEF MaterializeRemote, LearnShape, TableShape
<1> QED BY <1>3, <1>4, <1>5, RowStands, Kept_Edit, Kept_Merge, Kept_Clone DEF LearnShape, TableShape

\* What the thread loaded pinned, its rebuilt blob has.
LEMMA RebuildKeeps ==
  ASSUME NEW was \in ScopeRows, NEW payload \in SUBSET Entries
  PROVE  /\ Rebuilt(was, payload) \in SUBSET Entries
         /\ was.built => Pins(was.blob) \subseteq Rebuilt(was, payload)
BY DEF Rebuilt, CarryPinnedForward, Pins, ScopeRows

LEMMA ApplyTyped ==
  ASSUME LearnShape, ApplyBuild
  PROVE  LearnShape' /\ merge' = merge /\ (build.was.built => Kept(build.row, build.was))
<1>1. PICK payload \in Payloads :
        /\ Writes(build.row, FlushedRow(build.row, build.was, "indexed", TRUE, Rebuilt(build.was, payload)))
        /\ Emits(build.row, Rebuilt(build.was, payload))
  BY DEF ApplyBuild
<1>2. /\ build # NoWork /\ build.at = "scan" /\ build' = [build EXCEPT !.at = "end"]
      /\ UNCHANGED <<checkouts, building, edit, merge, cloning>>
  BY DEF ApplyBuild
<1>3. /\ build \in [at : {"start", "scan", "end"}, row : Scopes \cup {NoWork}, was : ScopeRows \cup {NoWork}]
      /\ building /\ build.row \in Scopes /\ build.was \in ScopeRows /\ scopes[build.row] \in ScopeRows
  BY <1>2 DEF LearnShape, BuildShape
<1> DEFINE o == build.row
           blob == Rebuilt(build.was, payload)
           r == FlushedRow(o, build.was, "indexed", TRUE, blob)
<1>4. payload \in SUBSET Entries BY FoundTyped DEF Payloads
<1>5. blob \in SUBSET Entries /\ (build.was.built => Pins(build.was.blob) \subseteq blob)
  BY <1>3, <1>4, RebuildKeeps
<1> HIDE DEF blob
<1>6. r \in ScopeRows /\ r.blob = IF blob = build.was.blob THEN scopes[o].blob ELSE blob
  <2> HIDE DEF o
  <2>1. scopes[o] \in ScopeRows /\ build.was \in ScopeRows BY <1>3 DEF o
  <2> QED BY <1>5, <2>1 DEF FlushedRow, Row, ScopeRows
<1> HIDE DEF r
<1>7. /\ scopes' \in [Scopes -> ScopeRows \cup {NoRow}] /\ RowsKept /\ scopes'[o] = r
  BY <1>1, <1>3, <1>6, RowWritten DEF r, blob
<1>8. docs' \in [Scopes -> (SUBSET Entries) \cup {NoWork}] BY <1>1, <1>3, <1>5, Emitted DEF blob
<1>9. BuildShape' BY <1>2, <1>3, <1>7 DEF BuildShape, RowsKept
<1>10. build.was.built => Kept(build.row, build.was)
  BY <1>5, <1>6, <1>7 DEF Kept, Pins
<1> QED BY <1>2, <1>7, <1>8, <1>9, <1>10, Kept_Edit, Kept_Merge, Kept_Clone DEF LearnShape, TableShape

LEMMA FailTyped ==
  ASSUME LearnShape, BuildFails
  PROVE  LearnShape' /\ merge' = merge /\ Kept(build.row, build.was)
<1>1. /\ build # NoWork /\ build.at = "scan" /\ build' = [build EXCEPT !.at = "end"]
      /\ Writes(build.row, [scopes[build.row] EXCEPT !.status = "error"])
      /\ UNCHANGED <<checkouts, docs, building, edit, merge, cloning>>
  BY DEF BuildFails
<1>2. /\ build \in [at : {"start", "scan", "end"}, row : Scopes \cup {NoWork}, was : ScopeRows \cup {NoWork}]
      /\ building /\ build.row \in Scopes /\ build.was \in ScopeRows /\ scopes[build.row] \in ScopeRows
  BY <1>1 DEF LearnShape, BuildShape
<1>3. /\ [scopes[build.row] EXCEPT !.status = "error"] \in ScopeRows
      /\ [scopes[build.row] EXCEPT !.status = "error"].blob = scopes[build.row].blob
  BY <1>2 DEF ScopeRows
<1>4. /\ scopes' \in [Scopes -> ScopeRows \cup {NoRow}] /\ RowsKept
      /\ scopes'[build.row] = [scopes[build.row] EXCEPT !.status = "error"]
  BY <1>1, <1>2, <1>3, RowWritten
<1>5. BuildShape' BY <1>1, <1>2, <1>4 DEF BuildShape, RowsKept
<1>6. Kept(build.row, build.was) BY <1>3, <1>4 DEF Kept, Pins
<1> QED BY <1>1, <1>4, <1>5, <1>6, Kept_Edit, Kept_Merge, Kept_Clone DEF LearnShape, TableShape

LEMMA PatchTyped == ASSUME LearnShape, PatchCommits PROVE LearnShape' /\ UNCHANGED <<build, merge>>
<1>1. PICK s \in Sels, old \in Sels : \E b \in ManualEdits(edit.was.blob, s, old) :
        /\ Emits(edit.row, b)
        /\ Writes(edit.row, FlushedRow(edit.row, edit.was, edit.was.status, edit.was.built, b))
  BY DEF PatchCommits
<1>2. PICK blob \in ManualEdits(edit.was.blob, s, old) :
        /\ Emits(edit.row, blob)
        /\ Writes(edit.row, FlushedRow(edit.row, edit.was, edit.was.status, edit.was.built, blob))
  BY <1>1
<1>3. /\ edit.row \in Scopes /\ edit.was \in ScopeRows /\ scopes[edit.row] \in ScopeRows /\ edit' = NoWork
      /\ UNCHANGED <<checkouts, building, build, merge, cloning>>
  BY DEF PatchCommits, LearnShape, EditShape
<1>4. blob \in SUBSET Entries
  BY <1>3 DEF ManualEdits, Entry, Entries, Marks, ScopeRows
<1>5. edit.was.status \in {"not_indexed", "indexing", "indexed", "error"} /\ edit.was.built \in BOOLEAN
  BY <1>3 DEF ScopeRows
<1>6. scopes' \in [Scopes -> ScopeRows \cup {NoRow}] /\ RowsKept
  <2>1. FlushedRow(edit.row, edit.was, edit.was.status, edit.was.built, blob) \in ScopeRows
    BY <1>3, <1>4, <1>5, FlushTyped
  <2> QED BY <1>2, <1>3, <2>1, RowWritten
<1>7. docs' \in [Scopes -> (SUBSET Entries) \cup {NoWork}] BY <1>2, <1>3, <1>4, Emitted
<1> QED BY <1>3, <1>6, <1>7, Kept_Build, Kept_Merge, Kept_Clone DEF LearnShape, TableShape, EditShape, BuildThread


LEMMA MergeKeeps ==
  ASSUME NEW blob \in SUBSET Entries, NEW s \in Sels, NEW old \in Sels
  PROVE  /\ ProposedFix(blob, old, s) \in SUBSET Entries /\ Pins(blob) \subseteq ProposedFix(blob, old, s)
         /\ DiscoveredDom(blob, s) \in SUBSET Entries /\ Pins(blob) \subseteq DiscoveredDom(blob, s)
         /\ \A b \in VerifiedDiscovery(blob, s) : b \in SUBSET Entries /\ Pins(blob) \subseteq b
<1>1. ProposedFix(blob, old, s) \in SUBSET Entries
  <2>1. ASSUME NEW e \in blob
        PROVE  (IF e.sel = old /\ e.mark # "pinned" THEN [e EXCEPT !.sel = s] ELSE e) \in Entries
    BY DEF Entries
  <2> QED BY <2>1 DEF ProposedFix
<1>2. Pins(blob) \subseteq ProposedFix(blob, old, s)
  <2>1. ASSUME NEW e \in Pins(blob) PROVE e \in ProposedFix(blob, old, s)
    <3>1. e \in blob /\ e = IF e.sel = old /\ e.mark # "pinned" THEN [e EXCEPT !.sel = s] ELSE e
      BY DEF Pins
    <3> QED BY <3>1 DEF ProposedFix
  <2> QED BY <2>1
<1>3. \A m \in Marks : Entry(s, m) \in Entries BY DEF Entry, Entries
<1>4. DiscoveredDom(blob, s) \in SUBSET Entries /\ Pins(blob) \subseteq DiscoveredDom(blob, s)
  BY <1>3 DEF DiscoveredDom, Pins, Marks
<1>5. \A b \in VerifiedDiscovery(blob, s) : b \in SUBSET Entries /\ Pins(blob) \subseteq b
  BY <1>3 DEF VerifiedDiscovery, Pins, Marks
<1> QED BY <1>1, <1>2, <1>4, <1>5

LEMMA MergeTyped ==
  ASSUME LearnShape, merge # NoWork, NEW blob \in SUBSET Entries, Pins(merge.was.blob) \subseteq blob,
         MergeWrites(blob)
  PROVE  LearnShape' /\ build' = build /\ (scopes' # scopes => Kept(merge.row, merge.was))
<1>1. merge.row \in Scopes /\ merge.was \in ScopeRows /\ scopes[merge.row] \in ScopeRows BY DEF LearnShape, MergeShape
<1>2. merge' = NoWork /\ UNCHANGED <<checkouts, building, build, edit, cloning>> BY DEF MergeWrites
<1>3. CASE blob = merge.was.blob
  <2>1. UNCHANGED <<scopes, docs>> BY <1>3 DEF MergeWrites
  <2> QED BY <1>2, <2>1, RowStands, Kept_Build, Kept_Edit, Kept_Clone DEF LearnShape, TableShape, MergeShape, BuildThread
<1>4. CASE blob # merge.was.blob
  <2>1. Writes(merge.row, [scopes[merge.row] EXCEPT !.blob = blob]) /\ Emits(merge.row, blob)
    BY <1>4 DEF MergeWrites
  <2>2. /\ [scopes[merge.row] EXCEPT !.blob = blob] \in ScopeRows
        /\ [scopes[merge.row] EXCEPT !.blob = blob].blob = blob
    BY <1>1 DEF ScopeRows
  <2>3. /\ scopes' \in [Scopes -> ScopeRows \cup {NoRow}] /\ RowsKept
        /\ scopes'[merge.row] = [scopes[merge.row] EXCEPT !.blob = blob]
    BY <1>1, <2>1, <2>2, RowWritten
  <2>4. docs' \in [Scopes -> (SUBSET Entries) \cup {NoWork}] BY <1>1, <2>1, Emitted
  <2>5. Kept(merge.row, merge.was) BY <2>2, <2>3 DEF Kept
  <2> QED BY <1>2, <2>3, <2>4, <2>5, Kept_Build, Kept_Edit, Kept_Clone DEF LearnShape, TableShape, MergeShape, BuildThread
<1> QED BY <1>3, <1>4

LEMMA MirrorTyped == ASSUME LearnShape, NEW m \in ScopeOwners, MirrorKnowledge(m) PROVE LearnShape' /\ UNCHANGED <<build, merge>>
<1>1. PICK status \in {"not_indexed", "indexed", "error"}, stamped \in BOOLEAN, found \in Scans :
        /\ Writes(m, Row(status, stamped, {Entry(s, "source") : s \in found}))
        /\ Emits(m, {Entry(s, "source") : s \in found})
  BY DEF MirrorKnowledge
<1>2. UNCHANGED <<checkouts, building, build, edit, merge, cloning>> BY DEF MirrorKnowledge
<1>3. m \in Scopes /\ Row(status, stamped, {Entry(s, "source") : s \in found}) \in ScopeRows
  BY FoundTyped DEF Scopes, Row, ScopeRows
<1>4. scopes' \in [Scopes -> ScopeRows \cup {NoRow}] /\ RowsKept BY <1>1, <1>3, RowWritten
<1>5. docs' \in [Scopes -> (SUBSET Entries) \cup {NoWork}] BY <1>1, <1>3, FoundTyped, Emitted
<1> QED BY <1>2, <1>4, <1>5, Kept_Build, Kept_Edit, Kept_Merge, Kept_Clone DEF LearnShape, TableShape, BuildThread

LEMMA CloningTyped ==
  ASSUME LearnShape, (\E m \in ScopeOwners : CloneGuards(m)) \/ CloneCopies \/ CloneInserts
  PROVE  LearnShape' /\ UNCHANGED <<build, merge>>
<1>1. UNCHANGED <<building, build, edit, merge>> BY DEF CloneGuards, CloneCopies, CloneInserts
<1>2. SharedScope \in Scopes /\ ScopeOwners \subseteq Scopes BY DEF Scopes
<1>3. CASE \E m \in ScopeOwners : CloneGuards(m)
  <2>1. PICK m \in ScopeOwners : CloneGuards(m) BY <1>3
  <2>2. CloneShape' BY <1>2, <2>1 DEF CloneGuards, CloneShape, LearnShape, TableShape
  <2>3. UNCHANGED <<checkouts, scopes, docs>> BY <2>1 DEF CloneGuards
  <2> QED BY <1>1, <2>2, <2>3, RowStands, Kept_Build, Kept_Edit, Kept_Merge DEF LearnShape, TableShape, BuildThread
<1>4. CASE CloneCopies
  <2>1. cloning \in [by : ScopeOwners, was : ScopeRows, copied : BOOLEAN]
    BY <1>4 DEF CloneCopies, LearnShape, CloneShape
  <2>2. CloneShape' BY <1>4, <2>1 DEF CloneCopies, CloneShape
  <2>3. UNCHANGED scopes /\ docs' \in [Scopes -> (SUBSET Entries) \cup {NoWork}] /\ checkouts' \subseteq Scopes
    BY <1>2, <1>4, <2>1 DEF CloneCopies, LearnShape, TableShape
  <2> QED BY <1>1, <2>2, <2>3, RowStands, Kept_Build, Kept_Edit, Kept_Merge DEF LearnShape, TableShape, BuildThread
<1>5. CASE CloneInserts
  <2>1. cloning \in [by : ScopeOwners, was : ScopeRows, copied : BOOLEAN] /\ cloning' = NoWork /\ UNCHANGED <<checkouts, docs>>
    BY <1>5 DEF CloneInserts, LearnShape, CloneShape
  <2>2. scopes' \in [Scopes -> ScopeRows \cup {NoRow}] /\ RowsKept
    <3>1. CASE scopes[cloning.by] = NoRow BY <1>2, <1>5, <2>1, <3>1, RowWritten DEF CloneInserts
    <3>2. CASE scopes[cloning.by] # NoRow BY <1>5, <3>2, RowStands DEF CloneInserts
    <3> QED BY <3>1, <3>2
  <2> QED BY <1>1, <2>1, <2>2, Kept_Build, Kept_Edit, Kept_Merge DEF LearnShape, TableShape, CloneShape, BuildThread
<1> QED BY <1>3, <1>4, <1>5

\* The steps that write no row.
LEMMA ReadsTyped ==
  ASSUME LearnShape, (\E m \in ScopeOwners : PatchReads(m)) \/ BuildEnds \/ (\E o \in Held : MergeReads(o)) \/ BuildRestart
  PROVE  LearnShape' /\ UNCHANGED scopes
<1>1. UNCHANGED <<checkouts, scopes, docs>> BY DEF PatchReads, BuildEnds, MergeReads, BuildRestart
<1>2. \A o \in Held : o \in Scopes /\ scopes[o] \in ScopeRows BY DEF Held, LearnShape, TableShape
<1>3. TableShape' BY <1>1 DEF LearnShape, TableShape
<1>4. CASE \E m \in ScopeOwners : PatchReads(m)
  <2>1. PICK o \in Held : edit' = [row |-> o, was |-> scopes[o]] BY <1>4 DEF PatchReads, FirstByKey
  <2>2. UNCHANGED <<building, build, merge, cloning>> BY <1>4 DEF PatchReads
  <2>3. EditShape' BY <1>1, <1>2, <2>1 DEF EditShape
  <2> QED BY <1>1, <1>3, <2>2, <2>3, RowStands, Kept_Build, Kept_Merge, Kept_Clone DEF LearnShape, BuildThread
<1>5. CASE \E o \in Held : MergeReads(o)
  <2>1. PICK o \in Held : merge' = [row |-> o, was |-> scopes[o]] BY <1>5 DEF MergeReads
  <2>2. UNCHANGED <<building, build, edit, cloning>> BY <1>5 DEF MergeReads
  <2>3. MergeShape' BY <1>1, <1>2, <2>1 DEF MergeShape
  <2> QED BY <1>1, <1>3, <2>2, <2>3, RowStands, Kept_Build, Kept_Edit, Kept_Clone DEF LearnShape, BuildThread
<1>6. CASE BuildEnds
  BY <1>1, <1>3, <1>6, RowStands, Kept_Edit, Kept_Merge, Kept_Clone DEF BuildEnds, BuildShape, LearnShape
<1>7. CASE BuildRestart
  BY <1>1, <1>3, <1>7 DEF BuildRestart, BuildShape, EditShape, MergeShape, CloneShape, LearnShape
<1> QED BY <1>1, <1>4, <1>5, <1>6, <1>7

-----------------------------------------------------------------------------
LEMMA LearnStep ==
  ASSUME LearnShape, [LearnNext]_learnVars
  PROVE  /\ LearnShape'
         /\ Built /\ build.was.built => Kept(build.row, build.was)
         /\ Merged => Kept(merge.row, merge.was)
<1>1. ASSUME LearnShape', build # NoWork /\ build.at = "scan" => build' = build, merge # NoWork => merge' = merge
      PROVE  /\ LearnShape' /\ ~Built /\ ~Merged
  BY <1>1 DEF Built, Merged
<1>2. CASE \E m \in ScopeOwners : BuildRepoKnowledge(m)
  <2>1. PICK o \in Scopes, fresh \in BOOLEAN : (fresh \/ o \in Held) /\ MarkIndexing(o, fresh)
    BY <1>2 DEF BuildRepoKnowledge, FirstByKey, Scopes, Held
  <2> QED BY <1>1, <2>1, MarkTyped
<1>3. CASE BuildSharedKnowledge
  <2>1. SharedScope \in Scopes /\ (scopes[SharedScope] = NoRow \/ SharedScope \in Held) BY DEF Scopes, Held
  <2> QED BY <1>1, <1>3, <2>1, MarkTyped DEF BuildSharedKnowledge
<1>4. CASE RunBuild
  <2>1. merge' = merge /\ build.at # "scan" BY <1>4 DEF RunBuild
  <2> QED BY <1>1, <1>4, <2>1, RunTyped
<1>5. CASE ApplyBuild
  <2>1. merge # NoWork => merge' # NoWork BY <1>5, ApplyTyped
  <2> QED BY <1>5, <2>1, ApplyTyped DEF Merged
<1>6. CASE BuildFails
  <2>1. merge # NoWork => merge' # NoWork BY <1>6, FailTyped
  <2> QED BY <1>6, <2>1, FailTyped DEF Merged
<1>7. CASE (\E m \in ScopeOwners : PatchReads(m)) \/ BuildEnds \/ (\E o \in Held : MergeReads(o)) \/ BuildRestart
  BY <1>7, ReadsTyped DEF Built, Merged
<1>8. CASE PatchCommits BY <1>1, <1>8, PatchTyped
<1>9. CASE \E m \in ScopeOwners : MirrorKnowledge(m) BY <1>1, <1>9, MirrorTyped
<1>10. CASE (\E m \in ScopeOwners : CloneGuards(m)) \/ CloneCopies \/ CloneInserts BY <1>1, <1>10, CloningTyped
<1>11. CASE ProposeSelectorFix \/ MergeDiscoveredDom \/ MergeVerifiedDiscovery
  <2>1. merge # NoWork BY <1>11 DEF ProposeSelectorFix, MergeDiscoveredDom, MergeVerifiedDiscovery
  <2>2. merge.was.blob \in SUBSET Entries BY <2>1 DEF LearnShape, MergeShape, ScopeRows
  <2>3. PICK blob \in SUBSET Entries : Pins(merge.was.blob) \subseteq blob /\ MergeWrites(blob)
    BY <1>11, <2>2, MergeKeeps DEF ProposeSelectorFix, MergeDiscoveredDom, MergeVerifiedDiscovery
  <2> QED BY <2>1, <2>3, MergeTyped DEF Built, Merged
<1>12. CASE UNCHANGED learnVars
  BY <1>1, <1>12, RowStands, Kept_Build, Kept_Edit, Kept_Merge, Kept_Clone
     DEF learnVars, LearnShape, TableShape, BuildThread
<1> QED BY <1>2, <1>3, <1>4, <1>5, <1>6, <1>7, <1>8, <1>9, <1>10, <1>11, <1>12 DEF LearnNext

LEMMA LearnHolds == LearnSpec => []LearnShape
  BY LearnStart, LearnStep, PTL DEF LearnSpec

\* Every reachable state of the knowledge base is well typed.
THEOREM LearnTyping == LearnSpec => []LearnTypeOK
<1>1. LearnShape => LearnTypeOK
  BY DEF LearnShape, TableShape, BuildShape, EditShape, MergeShape, CloneShape, LearnTypeOK
<1> QED BY <1>1, LearnHolds, PTL

\* No machine takes away a correction it has read: not a rebuild, a heal's
\* renaming or an exploration's merge, over whichever owner's row, whatever was
\* written to that row between the read and the write.
THEOREM PinsSurvive == LearnSpec => MachineKeepsPins
<1>1. LearnShape /\ [LearnNext]_learnVars =>
        [ /\ Built /\ build.was.built => Kept(build.row, build.was)
          /\ Merged => Kept(merge.row, merge.was) ]_learnVars
  BY LearnStep
<1> QED BY <1>1, LearnHolds, PTL DEF LearnSpec, MachineKeepsPins
=============================================================================
