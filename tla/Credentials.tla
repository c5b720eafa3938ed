----------------------------- MODULE Credentials -----------------------------
(**************************************************************************)
(* Claude credentials (claude_credentials, hub_credentials, claude_cli,   *)
(* routers/ai and the claims and finalizes of routers/agent).  A token    *)
(* is spent by the refresh that replaces it, wherever that happens: in a  *)
(* config directory of the server that calls share, on a device, under    *)
(* a run's copy of what EmeHub holds.  So every rotation must be carried  *)
(* back to where the token was taken from, while people upload, delete    *)
(* and switch, calls overlap, requests resolve runs anew and the Hub      *)
(* answers or not.  A token is its login and the number it was issued     *)
(* under, which stands for expiresAt: the later, the longer it lasts.     *)
(* The status of a row, which only screens read, is left out.             *)
(**************************************************************************)
EXTENDS Integers

CONSTANTS
  Persons,      \* who may upload a credential of their own
  TeamKey,      \* the key of the shared row and of its directory, "shared"
  HubRuns,      \* runs, by their config directory hub-run-<id>
  EmeHub,       \* where EmeHub keeps its material
  Callers,      \* threads of the API that resolve or call Claude
  Hosts,        \* paired devices
  NoToken,      \* no row, no file
  SignedOut,    \* a file without a token, as a failed refresh leaves it
  LoginCount,   \* logins, by the number of the first token issued to each
  MaxIssued,    \* bound: tokens ever issued
  MaxGestures   \* bound: what people, time and crashes do

Keys == Persons \cup {TeamKey}
Dirs == Keys \cup HubRuns
Logins == 1..LoginCount
Token == [login : Logins, no : 1..MaxIssued]
Paper == Token \cup {NoToken, SignedOut}

ASSUME CredentialsAssumption ==
  /\ LoginCount \in Nat /\ MaxIssued \in Nat /\ MaxGestures \in Nat /\ LoginCount <= MaxIssued
  /\ NoToken \notin Token /\ SignedOut \notin Token /\ NoToken # SignedOut
  /\ TeamKey \notin Persons /\ Keys \cap HubRuns = {} /\ EmeHub \notin Dirs /\ NoToken \notin Dirs

VARIABLES
  stored,   \* claude_credentials: the content of the row of each key
  prefers,  \* persons whose own row says prefer_shared
  hubHas,   \* what EmeHub would resolve
  hubOn,    \* hub_client.enabled: environment, read at start-up
  onDisk,     \* .credentials.json in each config directory
  grants,   \* runs whose grant file holds a grant that has not expired
  captured, \* _LAST_CAPTURED, 0 for none
  caller,   \* what each thread is at
  host,     \* what each device works with
  newest,   \* per login, the last token Claude has issued
  uses,     \* for properties: which login was put where, and which a device took astray
  gestures  \* bound
credentialVars == <<stored, prefers, hubHas, hubOn, onDisk, grants, captured, caller, host, newest, uses, gestures>>

-----------------------------------------------------------------------------
\* A thread: its person and run (NoToken for none), the directory its CLI works
\* in, the material it holds and where that will go.
Phases == {"away", "pinning", "refreshing", "resolving", "running", "keeping", "writing", "capturing"}
CallerState == [at : Phases, who : Persons \cup {NoToken}, run : HubRuns \cup {NoToken},
                dir : Dirs \cup {NoToken}, paper : Paper]
Aside == [at |-> "away", who |-> NoToken, run |-> NoToken, dir |-> NoToken, paper |-> NoToken]
HostState == [busy : BOOLEAN, who : Persons \cup {NoToken}, run : HubRuns \cup {NoToken},
              key : Keys \cup {NoToken}, paper : Paper]
Unused == [busy |-> FALSE, who |-> NoToken, run |-> NoToken, key |-> NoToken, paper |-> NoToken]

CredentialsInit ==
  /\ stored = [k \in Keys |-> NoToken]
  /\ prefers = {}
  /\ hubHas = NoToken
  /\ hubOn \in BOOLEAN
  /\ onDisk = [d \in Dirs |-> NoToken]
  /\ grants = {}
  /\ captured = [r \in HubRuns |-> 0]
  /\ caller = [c \in Callers |-> Aside]
  /\ host = [h \in Hosts |-> Unused]
  /\ newest = [l \in Logins |-> l]
  /\ uses = [put |-> {}, astray |-> {}]
  /\ gestures = 0

Gesture == gestures < MaxGestures /\ gestures' = gestures + 1
CallerAt(c, phase) == caller[c].at = phase
Turn(c, state) == caller' = [caller EXCEPT ![c] = state]
OriginalOf(l) == [login |-> l, no |-> l]
PutBy(l, place) == uses' = [uses EXCEPT !.put = @ \cup {<<l, place>>}]

-----------------------------------------------------------------------------
(* People, at Q-Agent and at EmeHub.                                       *)

\* upsert_own, upsert_shared: the file of a login made elsewhere.
UploadCredential(k, l) ==
  /\ Gesture
  /\ stored' = [stored EXCEPT ![k] = OriginalOf(l)]
  /\ PutBy(l, k)
  /\ UNCHANGED <<prefers, hubHas, hubOn, onDisk, grants, captured, caller, host, newest>>

\* delete_own, delete_shared: the preference goes with the row, the directory stays.
DeleteCredential(k) ==
  /\ Gesture
  /\ stored[k] # NoToken
  /\ stored' = [stored EXCEPT ![k] = NoToken]
  /\ prefers' = prefers \ {k}
  /\ UNCHANGED <<hubHas, hubOn, onDisk, grants, captured, caller, host, newest, uses>>

\* set_preferred_mode
SetPreferredMode(p) ==
  /\ Gesture
  /\ stored[p] # NoToken
  /\ \/ stored[TeamKey] # NoToken /\ prefers' = prefers \cup {p}
     \/ prefers' = prefers \ {p}
  /\ UNCHANGED <<stored, hubHas, hubOn, onDisk, grants, captured, caller, host, newest, uses>>

ConnectAtHub(l) ==
  /\ Gesture
  /\ hubHas' = OriginalOf(l)
  /\ PutBy(l, EmeHub)
  /\ UNCHANGED <<stored, prefers, hubOn, onDisk, grants, captured, caller, host, newest>>

DisconnectAtHub ==
  /\ Gesture
  /\ hubHas # NoToken
  /\ hubHas' = NoToken
  /\ UNCHANGED <<stored, prefers, hubOn, onDisk, grants, captured, caller, host, newest, uses>>

\* _load_grant: 240 minutes later, or the Hub session has ended.
GrantExpires(r) ==
  /\ Gesture
  /\ r \in grants
  /\ grants' = grants \ {r}
  /\ UNCHANGED <<stored, prefers, hubHas, hubOn, onDisk, captured, caller, host, newest, uses>>

-----------------------------------------------------------------------------
(* The Claude CLI, in a directory of the server or on a device.            *)

\* It refreshes what its file holds.  Of a login's tokens only the newest can be
\* refreshed; of an older one it says that it is not logged in.
RefreshedTo(paper, after) ==
  /\ paper \in Token
  /\ IF paper.no = newest[paper.login]
       THEN /\ \E n \in 1..MaxIssued :
                 /\ \A l \in Logins : newest[l] < n
                 /\ \A m \in 1..MaxIssued : (\A l \in Logins : newest[l] < m) => n <= m
                 /\ after = [paper EXCEPT !.no = n]
            /\ newest' = [newest EXCEPT ![paper.login] = after.no]
       ELSE after = SignedOut /\ newest' = newest

-----------------------------------------------------------------------------
(* The local rows.                                                         *)

\* _effective_row, _writeback_row, resolve_effective_config_dir: one precedence,
\* own, unless it yields to a shared row, before shared.
EffectiveKey(who) ==
  IF who # NoToken /\ stored[who] # NoToken /\ ~(who \in prefers /\ stored[TeamKey] # NoToken)
    THEN who ELSE TeamKey

\* materialize: the file is written anew from the row, at every call.
Materialized(k) == onDisk' = [onDisk EXCEPT ![k] = stored[k]]

\* _persist_if_newer: a token, and one that lasts longer than the row's.
Newer(paper, than) == paper \in Token /\ (than \in Token => than.no < paper.no)

\* GET /readiness writes the file, too.
CheckReadiness(p) ==
  /\ Gesture
  /\ stored[EffectiveKey(p)] # NoToken
  /\ Materialized(EffectiveKey(p))
  /\ UNCHANGED <<stored, prefers, hubHas, hubOn, grants, captured, caller, host, newest, uses>>

-----------------------------------------------------------------------------
(* A run's copy of what EmeHub holds.                                      *)

\* The Hub writes what is newer than what it holds; that the post fails, or that
\* it is refused, is remembered like a success.
CaptureRotated(r, paper) ==
  IF hubOn /\ onDisk[r] # NoToken /\ paper \in Token /\ captured[r] # paper.no /\ r \in grants
    THEN /\ captured' = [captured EXCEPT ![r] = paper.no]
         /\ \/ hubHas' = IF hubHas # NoToken /\ Newer(paper, hubHas) THEN paper ELSE hubHas
            \/ UNCHANGED hubHas
    ELSE UNCHANGED <<captured, hubHas>>

\* prepare_run_credential at the start, a retry and each later action of a run:
\* the Hub answers with what it holds.
AskForRun(c, r) ==
  /\ CallerAt(c, "away") /\ hubOn /\ hubHas # NoToken
  /\ Turn(c, [Aside EXCEPT !.at = "pinning", !.run = r, !.paper = hubHas])
  /\ UNCHANGED <<stored, prefers, hubHas, hubOn, onDisk, grants, captured, host, newest, uses, gestures>>

\* It is written whatever the file holds; the grant is minted, or the last one stays.
PinForRun(c) ==
  LET r == caller[c].run
  IN  /\ CallerAt(c, "pinning")
      /\ onDisk' = [onDisk EXCEPT ![r] = caller[c].paper]
      /\ grants' \in {grants, grants \cup {r}}
      /\ Turn(c, Aside)
      /\ UNCHANGED <<stored, prefers, hubHas, hubOn, captured, host, newest, uses, gestures>>

\* No Hub token, no answer, a refusal, or the flag is off: what the run had is
\* discarded, whoever works with it.
RefuseRun(r) ==
  /\ Gesture
  /\ onDisk' = [onDisk EXCEPT ![r] = NoToken]
  /\ UNCHANGED <<stored, prefers, hubHas, hubOn, grants, captured, caller, host, newest, uses>>

-----------------------------------------------------------------------------
(* A call of the CLI: run_prompt, verify_credentials.                      *)

\* The ambient person and run.  A run that has a file asks the Hub what to do
\* with it, if it has a grant and the file has stood for a minute.
BeginCall(c) ==
  /\ CallerAt(c, "away")
  /\ \E who \in Persons \cup {NoToken}, r \in HubRuns \cup {NoToken} :
       LET call == [Aside EXCEPT !.at = "resolving", !.who = who, !.run = r]
       IN  \/ Turn(c, call)
           \/ /\ hubOn /\ r \in grants /\ onDisk[r] # NoToken /\ hubHas # NoToken
              /\ Turn(c, [call EXCEPT !.at = "refreshing", !.paper = hubHas])
  /\ UNCHANGED <<stored, prefers, hubHas, hubOn, onDisk, grants, captured, host, newest, uses, gestures>>

\* refresh_run_credential: never an older token over a newer one, which is
\* posted instead.
RefreshRun(c) ==
  LET call == caller[c]
      file == onDisk[call.run]
  IN  /\ CallerAt(c, "refreshing")
      /\ IF Newer(file, call.paper)
           THEN CaptureRotated(call.run, file) /\ onDisk' = onDisk
           ELSE onDisk' = [onDisk EXCEPT ![call.run] = call.paper] /\ UNCHANGED <<captured, hubHas>>
      /\ Turn(c, [call EXCEPT !.at = "resolving", !.paper = NoToken])
      /\ UNCHANGED <<stored, prefers, hubOn, grants, host, newest, uses, gestures>>

\* _resolve_claude_env: the run's directory, if there is a file, else that of
\* the effective row, written anew; without a row the call ends here.
ResolveCall(c) ==
  LET call == caller[c]
      k == EffectiveKey(call.who)
  IN  /\ CallerAt(c, "resolving")
      /\ IF hubOn /\ call.run # NoToken /\ onDisk[call.run] # NoToken
           THEN Turn(c, [call EXCEPT !.at = "running", !.dir = call.run]) /\ onDisk' = onDisk
           ELSE IF stored[k] # NoToken
             THEN Turn(c, [call EXCEPT !.at = "running", !.dir = k]) /\ Materialized(k)
             ELSE Turn(c, Aside) /\ onDisk' = onDisk
      /\ UNCHANGED <<stored, prefers, hubHas, hubOn, grants, captured, host, newest, uses, gestures>>

\* POST /ai/credentials/test, of one's own row or of the shared one.
TestCredential(c) ==
  /\ CallerAt(c, "away")
  /\ \E p \in Persons, k \in Keys :
       /\ k \in {p, TeamKey} /\ stored[k] # NoToken
       /\ Turn(c, [Aside EXCEPT !.at = "running", !.who = p, !.dir = k])
       /\ Materialized(k)
  /\ UNCHANGED <<stored, prefers, hubHas, hubOn, grants, captured, host, newest, uses, gestures>>

CliRotates(c) ==
  /\ CallerAt(c, "running")
  /\ \E after \in Paper :
       /\ RefreshedTo(onDisk[caller[c].dir], after)
       /\ onDisk' = [onDisk EXCEPT ![caller[c].dir] = after]
  /\ UNCHANGED <<stored, prefers, hubHas, hubOn, grants, captured, caller, host, uses, gestures>>

\* It ends, or is killed, and what it refreshed is carried back; a time-out, a
\* test that fails and a CLI that is not there carry nothing back.
EndCall(c) ==
  /\ CallerAt(c, "running")
  /\ \/ Turn(c, [caller[c] EXCEPT !.at = "keeping"])
     \/ Turn(c, Aside)
  /\ UNCHANGED <<stored, prefers, hubHas, hubOn, onDisk, grants, captured, host, newest, uses, gestures>>

\* Mutant of WriteBackFrom: the file read is that of the call, not of the row.
WriteBackFrom_Dir(key, dir) == dir
\* persist_refreshed reads the directory of the row it will write.
WriteBackFrom(key, dir) == key

\* persist_refreshed: the row that is effective now, and the file in its directory.
ReadBack(c) ==
  LET call == caller[c]
      k == EffectiveKey(call.who)
      file == onDisk[WriteBackFrom(k, call.dir)]
  IN  /\ CallerAt(c, "keeping")
      /\ Turn(c, IF stored[k] # NoToken /\ Newer(file, stored[k])
                   THEN [call EXCEPT !.at = "writing", !.dir = k, !.paper = file]
                   ELSE [call EXCEPT !.at = "capturing"])
      /\ UNCHANGED <<stored, prefers, hubHas, hubOn, onDisk, grants, captured, host, newest, uses, gestures>>

\* Its commit; a row that was deleted meanwhile stays deleted.
WriteBack(c) ==
  LET k == caller[c].dir
  IN  /\ CallerAt(c, "writing")
      /\ stored' = [stored EXCEPT ![k] = IF @ = NoToken THEN @ ELSE caller[c].paper]
      /\ Turn(c, [caller[c] EXCEPT !.at = "capturing", !.paper = NoToken])
      /\ UNCHANGED <<prefers, hubHas, hubOn, onDisk, grants, captured, host, newest, uses, gestures>>

\* capture_rotated_credential
CaptureCall(c) ==
  LET r == caller[c].run
  IN  /\ CallerAt(c, "capturing")
      /\ IF r \in HubRuns THEN CaptureRotated(r, onDisk[r]) ELSE UNCHANGED <<captured, hubHas>>
      /\ Turn(c, Aside)
      /\ UNCHANGED <<stored, prefers, hubOn, onDisk, grants, host, newest, uses, gestures>>

-----------------------------------------------------------------------------
(* A device: the claim and the finalize of an authoring or planning session. *)

\* The claim carries the effective row's file; without one the device's own
\* login is used, and nothing comes back.
HostClaims(h) ==
  /\ ~host[h].busy
  /\ \E p \in Persons, r \in HubRuns \cup {NoToken} :
       LET k == EffectiveKey(p)
       IN  /\ stored[k] # NoToken
           /\ Materialized(k)
           /\ host' = [host EXCEPT ![h] = [busy |-> TRUE, who |-> p, run |-> r, key |-> k, paper |-> stored[k]]]
  /\ UNCHANGED <<stored, prefers, hubHas, hubOn, grants, captured, caller, newest, uses, gestures>>

HostRotates(h) ==
  /\ host[h].busy
  /\ \E after \in Paper :
       /\ RefreshedTo(host[h].paper, after)
       /\ host' = [host EXCEPT ![h].paper = after]
  /\ UNCHANGED <<stored, prefers, hubHas, hubOn, onDisk, grants, captured, caller, uses, gestures>>

\* persist_refreshed_from_raw, to the row that is effective now, and
\* capture_rotated_credential_raw, to EmeHub if the run has a file of its.
HostReturns(h) ==
  LET w == host[h]
      k == EffectiveKey(w.who)
      writes == stored[k] # NoToken /\ Newer(w.paper, stored[k])
  IN  /\ w.busy
      /\ stored' = IF writes THEN [stored EXCEPT ![k] = w.paper] ELSE stored
      /\ IF w.run \in HubRuns THEN CaptureRotated(w.run, w.paper) ELSE UNCHANGED <<captured, hubHas>>
      /\ uses' = [uses EXCEPT !.astray = @ \cup
                    {<<w.paper.login, place>> : place \in {k2 \in {k} : writes /\ k # w.key}
                                                   \cup {e \in {EmeHub} : hubHas' # hubHas}}]
      /\ host' = [host EXCEPT ![h] = Unused]
      /\ UNCHANGED <<prefers, hubOn, onDisk, grants, caller, newest, gestures>>

\* It dies, or its last request is lost.
HostLost(h) ==
  /\ Gesture
  /\ host[h].busy
  /\ host' = [host EXCEPT ![h] = Unused]
  /\ UNCHANGED <<stored, prefers, hubHas, hubOn, onDisk, grants, captured, caller, newest, uses>>

-----------------------------------------------------------------------------
\* A restart: threads and _LAST_CAPTURED are gone, rows and files stand, and the
\* Hub may have been switched on or off.
RestartApi ==
  /\ Gesture
  /\ hubOn' \in BOOLEAN
  /\ captured' = [r \in HubRuns |-> 0]
  /\ caller' = [c \in Callers |-> Aside]
  /\ UNCHANGED <<stored, prefers, hubHas, onDisk, grants, host, newest, uses>>

CallerStep(c) ==
  \/ \E r \in HubRuns : AskForRun(c, r)
  \/ PinForRun(c) \/ BeginCall(c) \/ RefreshRun(c) \/ ResolveCall(c) \/ TestCredential(c)
  \/ CliRotates(c) \/ EndCall(c) \/ ReadBack(c) \/ WriteBack(c) \/ CaptureCall(c)
HostStep(h) == HostClaims(h) \/ HostRotates(h) \/ HostReturns(h) \/ HostLost(h)
CredentialsNext ==
  \/ \E k \in Keys, l \in Logins : UploadCredential(k, l)
  \/ \E k \in Keys : DeleteCredential(k)
  \/ \E p \in Persons : SetPreferredMode(p) \/ CheckReadiness(p)
  \/ \E l \in Logins : ConnectAtHub(l)
  \/ DisconnectAtHub
  \/ \E r \in HubRuns : GrantExpires(r) \/ RefuseRun(r)
  \/ \E c \in Callers : CallerStep(c)
  \/ \E h \in Hosts : HostStep(h)
  \/ RestartApi
CredentialsSpec == CredentialsInit /\ [][CredentialsNext]_credentialVars

-----------------------------------------------------------------------------
CredentialsTypeOK ==
  /\ stored \in [Keys -> Token \cup {NoToken}]
  /\ prefers \in SUBSET Persons
  /\ hubHas \in Token \cup {NoToken}
  /\ hubOn \in BOOLEAN
  /\ onDisk \in [Dirs -> Paper]
  /\ grants \in SUBSET HubRuns
  /\ captured \in [HubRuns -> 0..MaxIssued]
  /\ caller \in [Callers -> CallerState]
  /\ host \in [Hosts -> HostState]
  /\ newest \in [Logins -> 1..MaxIssued]
  /\ uses \in [put : SUBSET (Logins \X (Keys \cup {EmeHub})), astray : SUBSET (Logins \X (Keys \cup {EmeHub}))]
  /\ gestures \in 0..MaxGestures

\* A token is kept where its login was put: in a row a token of a login that was
\* uploaded for it, at EmeHub and in the files of runs one of a login that was
\* connected there, in a directory of a row one of that row's, whatever is
\* uploaded, deleted, switched, resolved, refreshed and carried back meanwhile;
\* but for what a device brings to a row other than the one its claim took, or
\* to EmeHub.
BelongsAt(place, paper) ==
  paper \in Token => <<paper.login, place>> \in uses.put \cup uses.astray
FiledUnderItsLogin ==
  /\ \A k \in Keys : BelongsAt(k, stored[k]) /\ BelongsAt(k, onDisk[k])
  /\ BelongsAt(EmeHub, hubHas)
  /\ \A r \in HubRuns : BelongsAt(EmeHub, onDisk[r])
=============================================================================
