------------------------------ MODULE Tickets ------------------------------
(**************************************************************************)
(* The tickets of one person (routers/tickets, hub_workspace,             *)
(* connection_service, routers/providers): mirrored from the Hub page by  *)
(* page, pruned of what the Hub no longer has, matched with it by a       *)
(* read-through, synced through connections of one's own, filled when     *)
(* first looked at, deleted, and named by runs, which hold no foreign     *)
(* key.  A request works on copies it loaded; a commit writes the columns *)
(* it changed on its copy, and fails as a whole when a row it updates is  *)
(* gone.  Of a ticket's fields only its origin and whether its content    *)
(* has been fetched are kept.  A page of the Hub is one ticket.           *)
(**************************************************************************)
EXTENDS Integers, Sequences

CONSTANTS
  WorkItems,      \* by external id; one provider kind
  Visitors,       \* threads that serve requests
  NoTicket,
  PageCap,        \* _MAX_TICKET_PAGES
  MaxConnections, \* bound: connections ever
  MaxVisits,      \* bound: requests that take more than one step
  MaxTurns        \* bound: deletions, runs, changes of what the Hub lists, restarts

VARIABLES
  tickets,     \* rows, by their work item, the visit that inserted them and a number
  connections, \* provider_connections by id: absent, local, mirror or deleted
  listing,     \* what the Hub lists, in its order
  inRuns,      \* run_tickets: work items that runs name
  visit,       \* what each thread is doing
  tally        \* bounds: visits and turns so far
ticketVars == <<tickets, connections, listing, inRuns, visit, tally>>

-----------------------------------------------------------------------------
TicketIds == WorkItems \X (1..MaxVisits) \X (1..PageCap)
ConnIds == 1..MaxConnections
Ticket == [hub : BOOLEAN,             \* hub_ticket_id is set
           conn : 0..MaxConnections,  \* connection_id, 0 for none
           content : BOOLEAN]         \* description, criteria, comments

ASSUME TicketsAssumption ==
  /\ NoTicket \notin Ticket
  /\ MaxConnections \in Nat /\ MaxVisits \in Nat /\ MaxTurns \in Nat /\ PageCap \in Nat \ {0}

TicketRows == {r \in TicketIds : tickets[r] # NoTicket}
RowsOf(i) == {r \in TicketRows : r[1] = i}
Unloaded == [r \in TicketIds |-> NoTicket]
Copies(rows) == [r \in TicketIds |-> IF r \in rows THEN tickets[r] ELSE NoTicket]
Usable(kind) == {c \in ConnIds : connections[c] = kind}
Listed(pages) == {pages[p] : p \in DOMAIN pages}

\* A thread: its number, whether it will list, the pages it has read and whether
\* they are all, the copies it loaded, the rows it will delete, the connection
\* it works through, the items an answer brought and whether with their content.
\* For properties: what the Hub has listed all through the walk (nothing, once
\* the Hub has lost something meanwhile), what runs named when the prune looked.
Steps == {"idle", "walking", "merging", "committing", "mirrored", "saving", "filling"}
Visit == [at : Steps, no : 0..MaxVisits, lists : BOOLEAN, pages : Seq(WorkItems), whole : BOOLEAN,
          mine : [TicketIds -> Ticket \cup {NoTicket}], doomed : SUBSET TicketIds,
          conn : 0..MaxConnections, got : SUBSET WorkItems, full : BOOLEAN,
          steady : SUBSET WorkItems, named : SUBSET WorkItems]
Away == [at |-> "idle", no |-> 0, lists |-> FALSE, pages |-> <<>>, whole |-> FALSE, mine |-> Unloaded,
         doomed |-> {}, conn |-> 0, got |-> {}, full |-> FALSE, steady |-> {}, named |-> {}]
EndMirror(w) == IF w.lists THEN [Away EXCEPT !.at = "mirrored"] ELSE Away
Standing(v, at) == visit[v].at = at

TicketsInit ==
  /\ tickets = Unloaded
  /\ connections = [c \in ConnIds |-> "absent"]
  /\ \E n \in 0..PageCap + 1 : listing \in {s \in [1..n -> WorkItems] : \A p, q \in 1..n : s[p] = s[q] => p = q}
  /\ inRuns = {}
  /\ visit = [v \in Visitors |-> Away]
  /\ tally = [visits |-> 0, turns |-> 0]

Goes(v, state) == visit' = [visit EXCEPT ![v] = state]
MayBegin(v) == Standing(v, "idle") /\ tally.visits < MaxVisits
Begins(v, state) ==
  /\ tally' = [tally EXCEPT !.visits = @ + 1]
  /\ Goes(v, [state EXCEPT !.no = tally.visits + 1])
Turns ==
  /\ tally.turns < MaxTurns
  /\ tally' = [tally EXCEPT !.turns = @ + 1]

\* What a commit makes of a row: the columns that differ from the copy.
SavedRow(r, was, will) == [f \in DOMAIN will |-> IF will[f] = was[f] THEN tickets[r][f] ELSE will[f]]
\* Every row of an item that is updated, with one row picked for each item.
OneEach(rows) == {some \in SUBSET rows : \A r \in rows : \E o \in some : {q \in some : q[1] = r[1]} = {o}}

-----------------------------------------------------------------------------
\* The mirror of the Hub's connection is refreshed or inserted, and committed.
EnsureConnections(c) ==
  /\ c \in IF Usable("mirror") # {} THEN Usable("mirror") ELSE Usable("absent")
  /\ connections' = [connections EXCEPT ![c] = "mirror"]

\* ensure_for_user: GET /tickets mirrors and then reads through, POST
\* /tickets/hub/sync mirrors only.
VisitTickets(v) ==
  /\ MayBegin(v)
  /\ \E lists \in BOOLEAN, c \in ConnIds :
       /\ EnsureConnections(c)
       /\ Begins(v, [Away EXCEPT !.at = "walking", !.lists = lists, !.conn = c, !.steady = Listed(listing)])
  /\ UNCHANGED <<tickets, listing, inRuns>>

\* A call to the Hub fails: the mirror ends, with nothing to undo.
HubFails(v) ==
  /\ Standing(v, "walking")
  /\ Goes(v, EndMirror(visit[v]))
  /\ UNCHANGED <<tickets, connections, listing, inRuns, tally>>

\* Mutant of EndOfList: the cap is taken for the end.
EndOfList_Capped(pages) == Len(pages) >= Len(listing) \/ Len(pages) = PageCap
\* Is the walk at its end after this page (the total comes with every page)?
EndOfList(pages) == Len(pages) >= Len(listing)

\* iter_all_tickets, one page: empty, the last, the one at the cap or another.
ReadPage(v) ==
  LET w == visit[v]
      pages == IF Len(w.pages) < Len(listing) THEN Append(w.pages, listing[Len(w.pages) + 1]) ELSE w.pages
  IN  /\ Standing(v, "walking")
      /\ Goes(v, [w EXCEPT !.pages = pages, !.whole = EndOfList(pages),
                           !.at = IF EndOfList(pages) \/ Len(pages) = PageCap THEN "merging" ELSE @])
      /\ UNCHANGED <<tickets, connections, listing, inRuns, tally>>

\* A page that makes no sense ends the walk, which then is not the whole.
ReadMalformed(v) ==
  /\ Standing(v, "walking")
  /\ Goes(v, IF visit[v].pages = <<>> THEN EndMirror(visit[v]) ELSE [visit[v] EXCEPT !.at = "merging"])
  /\ UNCHANGED <<tickets, connections, listing, inRuns, tally>>

\* ensure_tickets loads the rows that have a hub id; after a whole walk
\* _prune_vanished picks those that were not seen and are not named by a run.
Vanished(seen) == {r \in TicketRows : tickets[r].hub /\ r[1] \notin seen}
LoadMirrored(v) ==
  LET w == visit[v]
  IN  /\ Standing(v, "merging")
      /\ Goes(v, [w EXCEPT !.at = "committing", !.named = inRuns,
                    !.mine = Copies({r \in TicketRows : tickets[r].hub}),
                    !.doomed = {r \in Vanished(Listed(w.pages)) : w.whole /\ r[1] \notin inRuns}])
      /\ UNCHANGED <<tickets, connections, listing, inRuns, tally>>

\* The one commit of ensure_tickets.  An item without a row gets one for each
\* time it was read; of several rows of an item the last one loaded is refreshed.
NewRows(w) ==
  {r \in TicketIds : /\ r[2] = w.no /\ r[3] \in DOMAIN w.pages /\ w.pages[r[3]] = r[1]
                     /\ \A o \in TicketIds : o[1] = r[1] => w.mine[o] = NoTicket}
Refreshable(w) == {r \in TicketIds : w.mine[r] # NoTicket /\ r[1] \in Listed(w.pages)}
CommitMirror(v) ==
  LET w == visit[v]
      refreshed(r) == [w.mine[r] EXCEPT !.conn = w.conn]
  IN  /\ Standing(v, "committing")
      /\ \E some \in OneEach(Refreshable(w)) :
           /\ \A r \in some : tickets[r] = NoTicket => refreshed(r) = w.mine[r]
           /\ tickets' = [r \in TicketIds |->
                IF r \in w.doomed THEN NoTicket
                ELSE IF r \in NewRows(w) THEN [hub |-> TRUE, conn |-> w.conn, content |-> FALSE]
                ELSE IF r \in some \cap TicketRows THEN SavedRow(r, w.mine[r], refreshed(r))
                ELSE tickets[r]]
      /\ Goes(v, EndMirror(w))
      /\ UNCHANGED <<connections, listing, inRuns, tally>>

\* A row it updates is gone, or (Postgres) its connection: nothing is written.
CommitFails(v) ==
  /\ Standing(v, "committing")
  /\ \/ \E r \in Refreshable(visit[v]) : tickets[r] = NoTicket
     \/ connections[visit[v].conn] = "deleted"
  /\ Goes(v, EndMirror(visit[v]))
  /\ UNCHANGED <<tickets, connections, listing, inRuns, tally>>

\* Every row of an item of the Hub's first page, synced or mirrored, is given
\* the hub id.
RecordHubTicketIds ==
  tickets' = [r \in TicketIds |->
    IF r \in TicketRows /\ listing # <<>> /\ r[1] = listing[1] THEN [tickets[r] EXCEPT !.hub = TRUE] ELSE tickets[r]]

\* _hub_read_through: the Hub answers, or the list is served from the rows alone.
ReadThrough(v) ==
  /\ Standing(v, "mirrored")
  /\ RecordHubTicketIds \/ UNCHANGED tickets
  /\ Goes(v, Away)
  /\ UNCHANGED <<connections, listing, inRuns, tally>>

-----------------------------------------------------------------------------
\* _existing_ticket: the same connection, else none, else, if the sync is for a
\* project and a row belongs to it (which rows do not record here), that one.
Candidates(i, c, project) ==
  LET same == {r \in RowsOf(i) : tickets[r].conn = c}
      none == {r \in RowsOf(i) : tickets[r].conn = 0}
  IN  IF same # {} THEN same ELSE IF none # {} THEN none ELSE {r \in RowsOf(i) : project}

\* What fetch_tickets of an adapter may bring: some items, with content or without.
ProviderAnswers == [items : SUBSET WorkItems \ {{}}, full : BOOLEAN]

\* POST /tickets/sync, through a connection of one's own: the provider answers,
\* and the rows of the items are loaded.
SyncTickets(v) ==
  /\ MayBegin(v)
  /\ \E c \in Usable("local"), a \in ProviderAnswers, owned \in SUBSET WorkItems :
       \E some \in OneEach(UNION {Candidates(i, c, i \in owned) : i \in a.items}) :
         Begins(v, [Away EXCEPT !.at = "saving", !.conn = c, !.got = a.items, !.full = a.full, !.mine = Copies(some)])
  /\ UNCHANGED <<tickets, connections, listing, inRuns>>

\* Mutant of Synced: what the answer has is the content.
Synced_Clobbers(row, c, full) == [row EXCEPT !.conn = c, !.content = full]
\* What a sync makes of a row: its origin, and its content unless the answer has none.
Synced(row, c, full) == [row EXCEPT !.conn = c, !.content = @ \/ full]

\* Its one commit: the matched rows, a new one for each other item, last_sync.
Matched(w) == {r \in TicketIds : w.mine[r] # NoTicket}
SaveSync(v) ==
  LET w == visit[v]
      new == {r \in TicketIds : r[1] \in w.got /\ r[2] = w.no /\ r[3] = 1 /\ ~ \E o \in Matched(w) : o[1] = r[1]}
  IN  /\ Standing(v, "saving")
      /\ connections[w.conn] # "deleted"
      /\ \A r \in Matched(w) : tickets[r] = NoTicket => Synced(w.mine[r], w.conn, w.full) = w.mine[r]
      /\ tickets' = [r \in TicketIds |->
           IF r \in new THEN [hub |-> FALSE, conn |-> w.conn, content |-> w.full]
           ELSE IF r \in Matched(w) \cap TicketRows THEN SavedRow(r, w.mine[r], Synced(w.mine[r], w.conn, w.full))
           ELSE tickets[r]]
      /\ Goes(v, Away)
      /\ UNCHANGED <<connections, listing, inRuns, tally>>

SyncFails(v) ==
  /\ Standing(v, "saving")
  /\ \/ \E r \in Matched(visit[v]) : tickets[r] = NoTicket
     \/ connections[visit[v].conn] = "deleted"
  /\ Goes(v, Away)
  /\ UNCHANGED <<tickets, connections, listing, inRuns, tally>>

-----------------------------------------------------------------------------
\* resolve_work_item_for_ticket: the row's connection, else the first of the kind.
Route(row) ==
  LET usable == Usable("local") \cup Usable("mirror")
  IN  IF row.conn \in usable THEN {row.conn} ELSE {c \in usable : \A o \in usable : c <= o}

\* GET /tickets/{id} loads a row, and asks for the content it lacks: the Hub if
\* the ticket is the Hub's, else the connection it routes through.
LookAt(v) ==
  /\ MayBegin(v)
  /\ \E r \in TicketRows :
       /\ ~tickets[r].content
       /\ tickets[r].hub \/ \E c \in Route(tickets[r]) : connections[c] = "local"
       /\ Begins(v, [Away EXCEPT !.at = "filling", !.mine = Copies({r})])
  /\ UNCHANGED <<tickets, connections, listing, inRuns>>

\* fill_ticket_detail, or the comments: written if the answer comes and the row
\* is still there.
FillDetail(v) ==
  LET w == visit[v]
      filled(r) == [w.mine[r] EXCEPT !.content = TRUE]
  IN  /\ Standing(v, "filling")
      /\ \/ tickets' = [r \in TicketIds |->
              IF r \in Matched(w) \cap TicketRows THEN SavedRow(r, w.mine[r], filled(r)) ELSE tickets[r]]
         \/ UNCHANGED tickets
      /\ Goes(v, Away)
      /\ UNCHANGED <<connections, listing, inRuns, tally>>

-----------------------------------------------------------------------------
\* POST /tickets/delete and DELETE /tickets/{id}: every row of an item, or one.
DeleteTickets ==
  /\ Turns
  /\ \E i \in WorkItems :
       /\ RowsOf(i) # {}
       /\ \E rows \in {RowsOf(i)} \cup {{r} : r \in RowsOf(i)} :
            tickets' = [r \in TicketIds |-> IF r \in rows THEN NoTicket ELSE tickets[r]]
  /\ UNCHANGED <<connections, listing, inRuns, visit>>

CreateConnection ==
  /\ \E c \in Usable("absent") : connections' = [connections EXCEPT ![c] = "local"]
  /\ UNCHANGED <<tickets, listing, inRuns, visit, tally>>

\* Its tickets are cut loose.
DeleteConnection ==
  /\ Turns
  /\ \E c \in Usable("local") \cup Usable("mirror") :
       /\ connections' = [connections EXCEPT ![c] = "deleted"]
       /\ tickets' = [r \in TicketIds |->
            IF r \in TicketRows /\ tickets[r].conn = c THEN [tickets[r] EXCEPT !.conn = 0] ELSE tickets[r]]
  /\ UNCHANGED <<listing, inRuns, visit>>

\* A run is created, with ids nothing validates, or deleted.
ChangeRuns ==
  /\ Turns
  /\ \E i \in WorkItems : inRuns' = IF i \in inRuns THEN inRuns \ {i} ELSE inRuns \cup {i}
  /\ UNCHANGED <<tickets, connections, listing, visit>>

\* The Hub lists a new item, somewhere, or lists one no longer.
HubGains(i, p) ==
  /\ Turns
  /\ i \notin Listed(listing)
  /\ listing' = SubSeq(listing, 1, p) \o <<i>> \o SubSeq(listing, p + 1, Len(listing))
  /\ UNCHANGED <<tickets, connections, inRuns, visit>>
HubLoses(p) ==
  /\ Turns
  /\ listing' = SubSeq(listing, 1, p - 1) \o SubSeq(listing, p + 1, Len(listing))
  /\ visit' = [v \in Visitors |-> IF Standing(v, "walking") THEN [visit[v] EXCEPT !.steady = {}] ELSE visit[v]]
  /\ UNCHANGED <<tickets, connections, inRuns>>
ListingChanges ==
  \/ \E i \in WorkItems, p \in 0..Len(listing) : HubGains(i, p)
  \/ \E p \in 1..Len(listing) : HubLoses(p)

\* The server is restarted: what was not committed is lost.
RestartServer ==
  /\ Turns
  /\ visit' = [v \in Visitors |-> Away]
  /\ UNCHANGED <<tickets, connections, listing, inRuns>>

-----------------------------------------------------------------------------
VisitNext(v) ==
  \/ VisitTickets(v) \/ HubFails(v) \/ ReadPage(v) \/ ReadMalformed(v) \/ LoadMirrored(v)
  \/ CommitMirror(v) \/ CommitFails(v) \/ ReadThrough(v)
  \/ SyncTickets(v) \/ SaveSync(v) \/ SyncFails(v) \/ LookAt(v) \/ FillDetail(v)
TicketsNext ==
  \/ \E v \in Visitors : VisitNext(v)
  \/ DeleteTickets \/ CreateConnection \/ DeleteConnection \/ ChangeRuns \/ ListingChanges \/ RestartServer
TicketsSpec == TicketsInit /\ [][TicketsNext]_ticketVars

-----------------------------------------------------------------------------
TicketsTypeOK ==
  /\ tickets \in [TicketIds -> Ticket \cup {NoTicket}]
  /\ connections \in [ConnIds -> {"absent", "local", "mirror", "deleted"}]
  /\ listing \in Seq(WorkItems)
  /\ inRuns \in SUBSET WorkItems
  /\ visit \in [Visitors -> Visit]
  /\ tally \in [visits : 0..MaxVisits, turns : 0..MaxTurns]

\* A mirror deletes only rows that have a hub id, that no run named when the
\* prune looked, and that the Hub did not list all through the walk, unless the
\* Hub lost something meanwhile (a page then moves under the reader): neither a
\* walk that ended at the cap or at a page without sense nor a ticket that
\* appeared during the walk is taken for a ticket that is gone.
PruneIsSafe ==
  [][\A v \in Visitors : Standing(v, "committing") /\ ~Standing(v, "committing")' =>
       \A r \in TicketRows : tickets'[r] = NoTicket =>
         tickets[r].hub /\ r[1] \notin visit[v].named \cup visit[v].steady]_ticketVars

\* What has been fetched of a ticket stays as long as its row, whatever an
\* answer without content, or a commit from an older copy, says.
ContentKept ==
  [][\A r \in TicketRows : tickets[r].content /\ tickets'[r] # NoTicket => tickets'[r].content]_ticketVars
=============================================================================
