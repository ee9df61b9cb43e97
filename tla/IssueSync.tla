----------------------------- MODULE IssueSync ------------------------------
(***************************************************************************)
(* The mirror of the issues of one repository: the poller and the sync     *)
(* button of the web console list them at the forge, all of them or those  *)
(* that changed since the cursor, page by page while they change, and      *)
(* store them; a user may also add a single issue by its URL. Each of them *)
(* is a thread with a database session of its own, whose reads are not     *)
(* part of the transaction that writes.                                    *)
(*                                                                         *)
(* Time is counted in half seconds: the service takes the time as it is,   *)
(* the forge tells it in whole seconds. Both read one clock: what a clock  *)
(* of the service that is ahead of the forge's would hide behind the       *)
(* cursor, and the next full listing find, is not modelled. A version      *)
(* stands for the contents of an issue, its state included.                *)
(***************************************************************************)
EXTENDS Forges, FiniteSets

CONSTANTS
    NIssues,         \* issues, by number
    full_sync_every,
    MaxNow,          \* half seconds
    MaxVersion,      \* versions of an issue
    MaxChanging,     \* issues that change
    MaxEvents        \* disturbances: see Disturb

ASSUME SyncAssumption ==
    /\ {NIssues, MaxNow, MaxVersion, MaxChanging, MaxEvents} \subseteq Nat
    /\ full_sync_every \in Nat \ {0}

Issues == 1 .. NIssues
Syncs  == {"poller", "web"}

VARIABLES
    now,      \* the time
    forge,    \* per issue: version and time of its last update; version 0 is none
    row,      \* per issue: version in the issues table, 0 for no row
    mirror,   \* the row of the repository: sync_status, cursor, is_enabled
    sync,     \* the two syncs
    count,    \* the poller's successful syncs, modulo full_sync_every
    add,      \* add_provider_issue: the issue and the version it was given
    events,   \* disturbances so far
    excused,  \* history: a listing was disturbed in a way no cursor covers
    lost      \* history: a sync died without telling its status

syncVars == <<provider, now, forge, row, mirror, sync, count, add, events, excused, lost>>

IdleSync == [pc |-> "idle", saw |-> 0, started |-> 0, page |-> 1,
             got |-> [i \in Issues |-> 0]]
NoAdd    == [pc |-> "idle", issue |-> 1, version |-> 0]

SyncInit ==
    /\ provider \in {"github", "gitcode"}
    /\ now = 1
    /\ forge = [i \in Issues |-> [version |-> 1, at |-> 0]]
    /\ row = [i \in Issues |-> 0]
    /\ mirror = [status |-> "idle", cursor |-> 0, enabled |-> TRUE]
    /\ sync = [s \in Syncs |-> IdleSync]
    /\ count = 0 /\ add = NoAdd /\ events = 0 /\ excused = FALSE /\ lost = FALSE

SyncAt(s, pc) == sync[s].pc = pc
SyncGo(s, pc) == [sync EXCEPT ![s].pc = pc]
Quit(s)   == [sync EXCEPT ![s] = IdleSync]
Syncing(s) == sync[s].pc \in {"list", "store"}

\* What happens outside the mirror's own routine: errors and deletions at
\* the forge, syncs by hand, single issues, toggles, a busy database, restarts.
Disturb == events < MaxEvents /\ events' = events + 1
-----------------------------------------------------------------------------
(***************************************************************************)
(* The forge.                                                              *)
(***************************************************************************)
Second(t) == 2 * (t \div 2)

Passes ==
    /\ now < MaxNow /\ now' = now + 1
    /\ UNCHANGED <<provider, forge, row, mirror, sync, count, add, events, excused, lost>>

\* The start of the last sync that was stored, and of those at work.
Starts == {mirror.cursor} \cup {sync[s].started : s \in {r \in Syncs : Syncing(r)}}

\* A change in the second in which a sync has started looks like one before it. The
\* forge stamps it with the time the syncs take for their cursor (no skew).
Changes(i) ==
    /\ forge[i].version \in 1 .. MaxVersion - 1
    /\ Cardinality({i} \cup {j \in Issues : forge[j].version > 1}) <= MaxChanging
    /\ forge' = [forge EXCEPT ![i] = [version |-> @.version + 1, at |-> Second(now)]]
    /\ excused' = (excused \/ \E t \in Starts : Second(now) < t)
    /\ UNCHANGED <<provider, now, row, mirror, sync, count, add, events, lost>>

\* An issue is deleted or transferred: those behind it move up, maybe to a page
\* that has been read.
Vanishes(i) ==
    /\ Disturb /\ forge[i].version > 0
    /\ forge' = [forge EXCEPT ![i].version = 0]
    /\ excused' = (excused \/ \E s \in Syncs : SyncAt(s, "list"))
    /\ UNCHANGED <<provider, now, row, mirror, sync, count, add, lost>>
-----------------------------------------------------------------------------
(***************************************************************************)
(* list_issues: GitHub is asked for what changed since, the newest issue   *)
(* first; GitCode has no such filter, is asked for the last update first   *)
(* (if there is a cursor) and read up to the first issue that is older.    *)
(***************************************************************************)
Since(s) == {i \in Issues : forge[i].at >= sync[s].saw}

Listed(s) == {i \in Issues : /\ forge[i].version > 0
                             /\ provider = "github" => i \in Since(s)}

ListedBefore(s, i, j) ==
    IF provider = "gitcode" /\ sync[s].saw > 0 /\ forge[i].at # forge[j].at
    THEN forge[i].at > forge[j].at ELSE i > j

Place(s, i) == Cardinality({j \in Listed(s) : ListedBefore(s, j, i)})
IssuePage(s) == {i \in Listed(s) : Place(s, i) \div PER_PAGE = sync[s].page - 1}

Collected(s) == {i \in Issues : sync[s].got[i] > 0}

\* GitHub links to the next page; a page of GitCode that is full may have one,
\* unless it reaches back before the cursor.
LastPage(s) ==
    IF provider = "github"
    THEN \A i \in Listed(s) : Place(s, i) < sync[s].page * PER_PAGE
    ELSE ~(IssuePage(s) \subseteq Since(s)) \/ Cardinality(IssuePage(s)) < PER_PAGE

\* GitCode: an issue on two pages is taken for invalid pagination.
Repeats(s) == provider = "gitcode" /\ IssuePage(s) \cap Collected(s) # {}

ListIssues(s) ==
    /\ SyncAt(s, "list") /\ ~Repeats(s)
    /\ sync' = [sync EXCEPT
         ![s].got = [i \in Issues |-> IF i \in IssuePage(s) \cap Since(s)
                                      THEN forge[i].version ELSE @[i]],
         ![s].page = IF LastPage(s) THEN 1 ELSE @ + 1,
         ![s].pc = IF LastPage(s) THEN "store" ELSE "list"]
    /\ UNCHANGED <<provider, now, forge, row, mirror, count, add, events, excused, lost>>

\* Mutant: the failure is not written down.
BugKeepsRunning(s) ==
    /\ SyncAt(s, "list") /\ Disturb
    /\ sync' = Quit(s)
    /\ UNCHANGED <<provider, now, forge, row, mirror, count, add, excused, lost>>

\* The forge answers with an error or with what cannot be used: sync_repository
\* and its caller record the failure.
ListFails(s) ==
    /\ SyncAt(s, "list")
    /\ IF Repeats(s) THEN UNCHANGED events ELSE Disturb
    /\ mirror' = [mirror EXCEPT !.status = "failed"]
    /\ sync' = Quit(s)
    /\ UNCHANGED <<provider, now, forge, row, count, add, excused, lost>>
-----------------------------------------------------------------------------
(***************************************************************************)
(* sync_repository, called by the poller and by RepositoryCommands.sync.   *)
(***************************************************************************)
\* tick: an enabled repository nobody is syncing. can_run, the release gate, makes a
\* tick do nothing while a release drains: here the poller then does not tick.
PollerTick ==
    /\ SyncAt("poller", "idle") /\ mirror.enabled /\ mirror.status # "running"
    /\ sync' = SyncGo("poller", "picked")
    /\ UNCHANGED <<provider, now, forge, row, mirror, count, add, events, excused, lost>>

\* Mutant: after the first success every sync is incremental.
BugFullOnce == count = 0 /\ mirror.cursor = 0

\* The turns of the poller on which it lists everything.
FullTurn == count = 0

Succeeded == (count + 1) % full_sync_every

\* What a session reads of the repository before it sets the status.
Read(s, full) ==
    [sync EXCEPT ![s].pc = "begin", ![s].saw = IF full THEN 0 ELSE mirror.cursor]

\* _sync_one: a sync that is skipped because another one runs counts, too.
SyncOne ==
    /\ SyncAt("poller", "picked")
    /\ \/ ~mirror.enabled /\ sync' = Quit("poller") /\ UNCHANGED count
       \/ /\ mirror.enabled /\ mirror.status = "running"
          /\ sync' = Quit("poller") /\ count' = Succeeded
       \/ /\ mirror.enabled /\ mirror.status # "running"
          /\ sync' = Read("poller", FullTurn) /\ UNCHANGED count
    /\ UNCHANGED <<provider, now, forge, row, mirror, add, events, excused, lost>>

WebSync ==
    /\ Disturb /\ SyncAt("web", "idle") /\ mirror.status # "running"
    /\ sync' = Read("web", TRUE)
    /\ UNCHANGED <<provider, now, forge, row, mirror, count, add, excused, lost>>

\* The status is committed; another sync may have done the same since it was read.
Begin(s) ==
    /\ SyncAt(s, "begin")
    /\ mirror' = [mirror EXCEPT !.status = "running"]
    /\ sync' = [sync EXCEPT ![s].pc = "list", ![s].started = now]
    /\ excused' = (excused \/ \E r \in Syncs \ {s} : Syncing(r))
    /\ UNCHANGED <<provider, now, forge, row, count, add, events, lost>>

\* Mutant: the cursor is the end of the sync, not its start.
BugCursor(s) == now

\* sync_cursor_updated_at after a sync: the time it started.
Cursor(s) == sync[s].started

Store(s) ==
    /\ SyncAt(s, "store")
    /\ row' = [i \in Issues |-> IF i \in Collected(s) THEN sync[s].got[i] ELSE row[i]]
    /\ mirror' = [mirror EXCEPT !.status = "succeeded", !.cursor = Cursor(s)]
    /\ count' = IF s = "poller" THEN Succeeded ELSE count
    /\ sync' = Quit(s)
    /\ UNCHANGED <<provider, now, forge, add, events, excused, lost>>

\* A flush fails: the database is busy, or another session has just inserted the
\* issue. The session is of no use until it is rolled back, which nobody does:
\* recording the failure fails as well, and in the poller the exception ends the
\* loop. What was committed stays.
FlushFails(s) ==
    /\ Disturb /\ sync[s].pc \in {"begin", "store"}
    /\ sync' = IF s = "poller" THEN [sync EXCEPT ![s] = [IdleSync EXCEPT !.pc = "dead"]]
               ELSE Quit(s)
    /\ lost' = (lost \/ SyncAt(s, "store"))
    /\ UNCHANGED <<provider, now, forge, row, mirror, count, add, excused>>
-----------------------------------------------------------------------------
(***************************************************************************)
(* The rest of the service.                                                *)
(***************************************************************************)
\* add_provider_issue: the issue is fetched ...
AddFetch(i) ==
    /\ Disturb /\ add.pc = "idle" /\ mirror.enabled /\ forge[i].version > 0
    /\ add' = [pc |-> "store", issue |-> i, version |-> forge[i].version]
    /\ UNCHANGED <<provider, now, forge, row, mirror, sync, count, excused, lost>>

\* ... and stored, unless the insert fails.
AddStore ==
    /\ add.pc = "store" /\ add' = NoAdd
    /\ \/ /\ row' = [row EXCEPT ![add.issue] = add.version]
          /\ excused' = (excused \/ add.version < forge[add.issue].version)
       \/ UNCHANGED <<row, excused>>
    /\ UNCHANGED <<provider, now, forge, mirror, sync, count, events, lost>>

toggle ==
    /\ Disturb /\ mirror.status # "running"
    /\ mirror' = [mirror EXCEPT !.enabled = ~@]
    /\ UNCHANGED <<provider, now, forge, row, sync, count, add, excused, lost>>

\* The process ends and is started again: a sync that was running has failed.
Restart ==
    /\ Disturb
    /\ mirror' = [mirror EXCEPT !.status = IF @ = "running" THEN "failed" ELSE @]
    /\ sync' = [s \in Syncs |-> IdleSync]
    /\ count' = 0 /\ add' = NoAdd /\ lost' = FALSE
    /\ UNCHANGED <<provider, now, forge, row, excused>>

SyncStep(s) == Begin(s) \/ ListIssues(s) \/ ListFails(s) \/ Store(s)

SyncNext ==
    \/ Passes \/ \E i \in Issues : Changes(i) \/ Vanishes(i) \/ AddFetch(i)
    \/ PollerTick \/ SyncOne \/ WebSync \/ AddStore \/ toggle \/ Restart
    \/ \E s \in Syncs : SyncStep(s) \/ FlushFails(s)

SyncSpec == SyncInit /\ [][SyncNext]_syncVars

\* The poller ticks again and again, as no drain lasts for ever, and every thread goes
\* on. Errors of the forge are among the disturbances, of which there are only so many.
FairSync ==
    /\ SyncSpec /\ WF_syncVars(PollerTick) /\ WF_syncVars(SyncOne)
    /\ \A s \in Syncs : WF_syncVars(SyncStep(s))
-----------------------------------------------------------------------------
(***************************************************************************)
(* Properties.                                                             *)
(***************************************************************************)
\* Every variable keeps its type.
SyncTypeOK ==
    /\ provider \in {"github", "gitcode"} /\ now \in 1 .. MaxNow
    /\ forge \in [Issues -> [version : 0 .. MaxVersion, at : 0 .. MaxNow]]
    /\ row \in [Issues -> 0 .. MaxVersion]
    /\ mirror \in [status : {"idle", "running", "succeeded", "failed"},
                   cursor : 0 .. MaxNow, enabled : BOOLEAN]
    /\ sync \in [Syncs -> [pc : {"idle", "picked", "begin", "list", "store", "dead"},
                           saw : 0 .. MaxNow, started : 0 .. MaxNow,
                           page : 1 .. NIssues + 1, got : [Issues -> 0 .. MaxVersion]]]
    /\ count \in 0 .. full_sync_every - 1
    /\ add \in [pc : {"idle", "store"}, issue : Issues, version : 0 .. MaxVersion]
    /\ events \in 0 .. MaxEvents /\ excused \in BOOLEAN /\ lost \in BOOLEAN

\* The row of an issue is out of date only if the next incremental sync lists the
\* issue: it changed after the start of the sync that set the cursor, at whatever
\* point of that sync and on whatever page it was. The exceptions: it changed in
\* the very second the sync started, two syncs overlapped, an issue vanished from
\* under a listing, or add_provider_issue stored an old answer.
StaleIsListedAgain ==
    excused \/ \A i \in Issues :
        forge[i].version > 0 /\ row[i] # forge[i].version
            => forge[i].at >= mirror.cursor

\* sync_status is "running" only while a sync is at work, which the poller, the
\* sync button and the switch of the repository all rely on: errors of the forge
\* and restarts end it. Only a sync whose flush failed leaves it behind.
RunningIsSyncing ==
    mirror.status = "running" => lost \/ \E s \in Syncs : Syncing(s)

\* Whatever an incremental sync has missed, the mirror shows what the forge has
\* once nothing changes any more, unless the repository is disabled, its status
\* was left behind, or the loop of the poller has ended.
MirrorConverges ==
    <>[](\/ ~mirror.enabled \/ lost \/ SyncAt("poller", "dead")
         \/ \A i \in Issues : forge[i].version > 0 => row[i] = forge[i].version)
=============================================================================
