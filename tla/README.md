# Verification of MemoryOS

MemoryOS keeps what coding agents learn about a project in one SQLite database:
memories that a person confirms, the claims extracted from them, every version of
every claim, and the conflicts between them. This directory holds TLA+ models of the
parts of the program that decide what is true, what an agent is told of it, and what
survives failures; TLC configurations that check them on small instances; and proofs
checked by TLAPS.

Paths below are relative to the repository; `src/` is not part of them.

## 1. The system

| Component | State it keeps | Operations | What makes it correct |
|---|---|---|---|
| Claim version store (`memoryos/claims/versioning.py`) | `claims` (the current projection), `claim_versions` (append only) | `record_initial`, `transition`, `visible_versions` | histories tile transaction time; the projection equals the open version; what was known at a past instant is never rewritten |
| Truth maintenance (`memoryos/claims/truth.py`, `predicates.py`) | status, staleness and validity of claims, `claim_relations`, `possible_conflicts` | extraction, conflict detection and judging, activation, rejection, reset, expiry, freshness marks, manual resolution, `current_truth` | two claims that contradict each other are never both accepted in silence; a dispute has a reason |
| Memory lifecycle (`memoryos/engine/service.py`) | `memories` with status, key, text, validity, time to live | propose, update, confirm, reject, forget, the expiry sweep of each read, refresh | nothing is true before it is confirmed, nor after it is rejected or forgotten |
| Health and archive (`memoryos/health/service.py`) | `memory_health`, archive and restore audit events | evaluate, record_retrieval, archive, restore | an archive never takes away the only support of a truth; only a restore ends it, and gives back what it took |
| Anchors and freshness (`memoryos/freshness/`) | `source_anchors`, evidence links | create, refresh | a stale claim is not answered as truth |
| Sessions (`memoryos/db/session.py`) | the SQLite file in WAL mode, shared by MCP server, HTTP threads and CLI | one transaction per service call | a call that raises leaves nothing |
| Backup (`memoryos/backup/service.py`) | archives, the database file and its sidecars | create_backup, restore, export_jsonl, import_jsonl | a failure at any step leaves one whole database; what a restore discards is in a backup; an export is one state |
| Context compiler, snapshots, deltas (`memoryos/context/`) | `context_snapshots` with an expiry | compile, load_valid, create, cleanup_expired, plan_delta | base + delta is the full context; pinned and contested bundles stay whole |
| Retrieval, vector index (`memoryos/retrieval*/`) | `embeddings`, the ANN file beside the database | search, index_memory, the rebuild | archived and inactive memories are not returned; nothing current is missed because of the index |
| Entities (`memoryos/entities/`) | `entities` with redirects | resolve, merge, follow_redirect | redirects end |
| Consolidation, feedback | candidate rows, feedback rows | propose, record | advisory only |
| Harness plugin (`integrations/deepseek-harness-memoryos/lib/`) | the enabled flag in memory and on disk, the context held and a pending conflict per session | control, context, propose, confirm | a disable survives a restart; a conflict can always be settled; a delta is applied to what its reader holds |
| Interfaces, providers, UI, evaluation | none of their own | translate requests, call models, measure | - |

How they interact: an interface calls one method of `MemoryService`; the method opens
one session, calls truth maintenance, which calls the version store, and commits.
`confirm` may call the relationship judge, a network service, inside its transaction,
and writes the embedding and the index after it. A search is a chain of reads in three
sessions. The plugin is a client over HTTP that keeps state of its own about what its
agents were told. The CLI restores and imports under the feet of the servers. Nothing
is scheduled: expiry is swept by the reads, freshness is refreshed on request,
expired snapshots are deleted by the requests that follow.

What is hard in it: several transitions of a claim in one clock tick; a claim row and a
version row that must agree; a memory row and claim rows that carry copies of each
other's fields (status, validity) and are written by different calls; bitemporal
questions; calls of several processes interleaving at the database; an index and a
state file that commit apart from the database; the failure points of restore; a base
snapshot that expires under a client; answers that are lost. PROJECT.json lists every
hazard at its line, with the properties that cover it or the reason why none does.

## 2. The modules

| Module | Contents |
|---|---|
| `ClaimHistory` | the rows of the version store and `record_initial`, `transition`, `visible_versions` as operators on values |
| `ClaimVersions` | the version store alone, with callers that write any field values |
| `BeliefLog` | the abstract specification of that store: a log of beliefs by transaction time |
| `MemoryTruth` | memory lifecycle, truth maintenance, archive and freshness, in one scope, over `ClaimHistory` |
| `ConcurrentService` | confirm, forget, reject and refresh of several processes, statement by statement, over one SQLite file |
| `MemoryHealth` | archive, restore, evaluate and record_retrieval of several processes, read and write apart |
| `MemorySearch` | searches and the vector index beside the calls that change what they may return |
| `DeltaPlan` | `plan_delta` and what a client makes of a delta, as operators on sets of atoms |
| `ContextSessions` | requests for contexts, the snapshot table and the client that holds a base, over `DeltaPlan` |
| `BackupService` | backup, restore, export and import over the files of the database, beside connected processes |
| `MemoryPlugin` | the plugin's switch and its state file; its propose and confirm against the service |
| `ClaimVersionsProofs`, `MemoryTruthProofs`, `ConcurrentServiceProofs`, `MemoryHealthProofs`, `ContextSessionsProofs`, `BackupServiceProofs`, `MemoryPluginProofs`, `MemorySearchProofs` | theorems about the module each is named after |
| `MC...` | the values of the constants for TLC |

Composition: `ClaimVersions` and `MemoryTruth` share `ClaimHistory`, so that what is
proved of a transition alone is about the transition that the calls make.
`ConcurrentService` takes the calls of `MemoryTruth` apart into statements.
`ContextSessions` is the plugin's client, the compiler and the snapshot table together;
`MemoryPlugin` is the plugin and the part of the service it can tell apart.

### ClaimHistory and ClaimVersions

A claim is a record with the fields of its `claims` row that change (status, stale
state, validity, recorded_at) and the sequence of its `claim_versions` rows;
version_number is the index. Instants are natural numbers, one unit being the
microsecond by which `transition` keeps two moments apart. `Transition` models the
whole method: the lazy backfill by `record_initial`, the choice of the open version,
the bump, the closing update, the write to the row and the appended snapshot. Subject,
predicate, object and evidence never change once recorded and are left out.

Initial states are an empty store, or claims imported from an export without versions.

### BeliefLog

`belief[c][k]` is what a query about claim `c` as known at `k` is told. `Write` says
what is believed from an instant on that is not in the past; `Backfill` lets the first
write about an imported claim also say what it was before. `ClaimVersions!ImplementsLog`
states that the store implements this, belief being computed from the versions.

### MemoryTruth

| Variable | Stands for |
|---|---|
| `memories` | `memories` with their texts (sources), validity, ttl, and the last text whose evidence has a source anchor |
| `claims` | `claims` with `claim_versions`, one for each memory, text of it, and identity |
| `possible` | `possible_conflicts` by pair of claims |
| `relations` | `claim_relations` by type (`contradicts`, `supersedes`) and pair |
| `temperature`, `events` | `memory_health` and the archive audit events |
| `consulted` | the pairs the judge was asked about, a history variable |
| `clock` | the wall clock |

An action is a service call whose transaction commits, with every pass it makes:
`Confirm` sweeps expiry, asks the judge about each pair that has no row, collects the
conflicts by key and by claim, changes the status of the memories and then moves the
claims of both sides. Calls that raise roll back and change nothing; they are left out,
but for `ConfirmConflicting`, which has asked the judge before it raises. What a text
says is data: a function from claim identities (subject and predicate) to an object with
a polarity, or NULL. `Single` are the identities with a single-valued predicate and
`Within` the containment of one normalised object in another, which is all that
`classify_claim_values` tells apart.

Abstractions, each of which the code allows: one scope (claims of different scopes are
never compared); one claim for each identity of a text; a text that says nothing is not
proposed, for the extractor's fallback always yields a claim; stale states `suspect` and
`moved` are `fresh` to every operation modelled; temperatures hot, warm and cold are
`live`; relations between memories, evidence rows beyond the question whether they have
an anchor (a second anchoring replaces the anchor's id), names of entities and audit
events other than the archive's only decorate answers; the two calls that follow
`refresh` in `refresh_memory` are an `ExpireDue` and a `Propose`; health rows imported as
archived without events are left out.

`Answer` is what `current_truth` returns for one identity: the state, the claims in view
with their versions, the history of these claims, their relations and which of them have
an anchor. As in the code, the known time selects the claims and versions and filters
nothing else: a version is shown with its row's `transaction_to` of today
(claims/truth.py:867), and relations and anchors are those of today (truth.py:681,
anchors.py:120). So two askings of one past instant need not get the same answer;
`PastTruthStands` says in what they may differ.

### ConcurrentService

`MemoryTruth` has each call as one step. Here a call is the statements it sends, as
`db/session.py` and the driver execute them: a SELECT outside a transaction sees the last
commit; the first flush takes SQLite's write lock on the last commit, waiting up to
`busy_timeout`; from there the session sees its own writes (`draft`) until the commit or
the rollback. `session[p]` is what the call remembers: the step it is at, the claims and
conflicts found, the judge's answer that is not flushed yet, the claim rows as it loaded
them (`cached`) and the values it will give them (`moves`), the open version and the next
number it has read.

| Step | Statement |
|---|---|
| `Begin` | the SELECT of the memory and the status it asks for |
| `Gather`, `Own` | `ensure_claims`, in `_find_conflicts` and again in `activate_claims`; extracts when no live claim is found |
| `Compare` | the SELECT of active claims |
| `Judge`, `Note` | a pair: its row, or the judge over the network; the flush of the answer |
| `Decide` | no strategy for a conflict, or which way to go on |
| `Others`, `Rows` | the claims of the conflicts; the claims of the memory to forget, reject or mark |
| `Current`, `Number` | the open version and the highest number of the first transition |
| `Write` | the first flush of the transitions, the rest of them, the commit; a unique constraint may refuse it |
| `Busy` | a write that waits for the lock in vain |

What the call loads is what the code keeps alive: the session's identity map holds rows
weakly, so the claims of the first pass are read again in the second, while the memory
row is never read again. An UPDATE writes the columns the call changed. Two things are not
stored: `beside`, in the session of a confirm, is the memories that other calls have
changed by a commit since it looked at their claims (`Gather` for its own, `Compare` for
the others); `blind` is the pairs of memories that a confirm brought in force together
although one of the two was in its `beside`.

### MemoryHealth

`MemoryTruth` archives in one step. Here `rows` is the committed `memory_health` table
and `task[p]` the call of a process: what it has `loaded` and, not stored anywhere, the
rows others have committed `since`. `Check` is `_assert_truth_safe`, `Select` the
pipeline that leaves archived memories out before it records an answer, `Load` a SELECT,
and the four writes the flush each method ends with. The UPDATE writes the columns the
call changed and nothing asks what the row says by then; an INSERT of a row that has come
into being fails the call (`Fails`). `before` is `pre_archive_temperature` inside
`components_json`, a column that `evaluate` replaces whole. Scores are an input: an
evaluation finds a memory hot, warm or cold. What a memory supports is a constant; that
support may itself lapse is in `MemoryTruth`.

### MemorySearch

| Variable | Stands for |
|---|---|
| `db` | the last commit: candidate, active and archived memories, embedding rows |
| `present`, `file` | the index file and its entries |
| `conn`, `held` | by process: its connection to the index, and the entries it still reads when the file was removed |
| `task` | by process: the stage of its search or of its `index_memory` |
| `restoring` | a restore has removed the index and not yet replaced the database |

A search is the stages `expect` (open the index, count the vectors), `count` (compare
with the entries), `clear`, `load`, `fill` (the rebuild, two commits around a SELECT),
`scan`, `exact` (after a failure of the index, which closes it for the life of the
process), `rows` (the statement that judges status and archive again), `channels` (the
graph), `govern`, `record`. `index_memory` is `embed`, `upsert`, `state`: the index
commits before the row does, under the write lock that the row's flush has taken. A
crash loses what was not committed and keeps what was. Each request has a `limit`; the
words give at most `WordPool` of it (`max(200, limit * 8)`, search.py:169), the index and
the exact search at most `VectorPool` of it (`max(1000, limit * 50)`, search.py:317) and
the page at most the limit. Which of too many are kept is any choice, for scores are left
out; so are the anchor and temporal channels, the reranker, the profiles and the
telemetry: the words, the graph and the vectors decide who can be found. `seen`, `kept`
and `cut` (the page left something out) are
history variables of a task: what was current at some moment of the search, and at all
of them.

### DeltaPlan and ContextSessions

An atom has a memory, a bundle, a sha and the flags `pinned` and `contested`; the sha
stands for text, truth state and evidence version, which `atom_sha256` covers. `Plan` is
`plan_delta` with the expansion of protected bundles. `Applied` is what the agent that
reads `render_delta` is left with, and it goes by what the lines say (`SameFact`): no line
names a bundle, and a line under CHANGED does not name the sha it replaces
(renderers.py:43), so that a reader replaces the whole of a pinned memory and else the
claim with the same subject and predicate. `Legible` says of two contexts that the keys of
`plan_delta` tell their atoms apart and a reader tells them apart as the keys do. It fails
for two claims of one memory with one subject and predicate, and for two claims of one
constraint; both are among the candidates of the run.

| Step | Code |
|---|---|
| `Ask`, `Receive`, `Fail`, `Unmount` | `core.js`: the request with the last context as its base, the answer noted, a timeout or an error, `states.clear()` |
| `Compile` | `compiler.py`: the candidates found by now, which may be one side of a conflict without the other, and any selection that takes every guarded atom |
| `Look`, `Clean` | `load_valid`, and `cleanup_expired` in a transaction of its own |
| `Deliver` | a delta if there is a base and it is cheap enough, else the full text; the snapshot is stored either way |
| `Tick`, `Restore` | the clock; a restore or an import, which delete every snapshot |

Token counts are left out: where they decide (which optional bundles fit, whether the
delta is cheaper) the model takes either way. A budget that does not hold the required
bundles is an error and so a `Fail`.

### BackupService

| Variable | Stands for |
|---|---|
| `file`, `wal` | the database file and the database after each commit in its WAL |
| `conn` | by process: the files its connection has open, which may be unlinked or replaced by now |
| `archive` | the backups, each under its own name, and the last export |
| `op` | the operation under way: the step, the archive's data, the database of before, the rollback copy |
| `late`, `marks` | not stored: commits made beside a restore, and what went on that a property has to know |

`Restore` is one action for each file operation of the method and of its handler:
`Safeguard` (the safety backup), `Checkpoint`, `CopyRollback`, `RemoveSidecars`,
`Replace`, `Initialize`, and after an exception `RemoveSidecars`, `Revert` or
`RevertFails`, `Reinitialize`. An exception or a kill may come between any two. A
checkpoint beside a transaction stops at a prefix of the WAL. A connection goes on with
the files it opened. The database has memories with one claim each and the versions of
the claims, which is what an export reads table by table and an import merges by primary
key. Validation of an archive succeeds or refuses. Once SQLite would read the frames of
another database (`Corrupt`) nothing more happens in the model: what it makes of them is
undefined, and `TornOnlyByGap` says when that can come about.

### MemoryPlugin

| Variable | Stands for |
|---|---|
| `enabled`, `onboardingNoticeShown` | the flags `plugin.js` keeps in memory |
| `disk`, `writes` | the state file and the queue of `state.js` |
| `call` | by session: the tool call under way, and the answer on its way |
| `writeStates` | by session: the pending conflict |
| `service`, `stray` | the status of each candidate in the service; confirms whose client has given up and which may yet arrive |
| `told`, `forgotten`, `elsewhere`, `overlap` | not stored: what the agent was told, whose state was cleared since, what was settled without an answer, whether two calls were at the switch at once |

One process serves many sessions; a session has one tool call at a time, and between two
awaits of a call the calls of other sessions run. A write ends by a rename or an error;
the process may end with the first write of the queue renamed or not. A context call and
the context it answers are in `ContextSessions`; here it matters for the first-use notice.

## 3. Runs

`tlc -workers 2 -config <cfg> <module>` in this directory.

| Run | Question | Instance |
|---|---|---|
| versions (`MCClaimVersions.cfg`) | Is the history sound and does the store implement the log? | one claim (claims do not interact), 4 field values, 4 versions, clock 3: more versions than ticks, so that bumps accumulate |
| conflicts (`MCConflicts.cfg`) | Can contradicting claims be accepted in silence? Is each dispute explained? | 3 memories, a single- and a multi-valued identity, polarity, containment, a judge with every answer, clock 2 |
| time (`MCTime.cfg`) | The same with validity, ttl, edits and freshness; is anything accepted unconfirmed; what of a past answer stays? | 2 memories, 2 texts each, 3 versions in freshness steps, clock 2 |
| archive (`MCArchive.cfg`) | Do archive and restore keep truth and agree with their events? | 2 memories that support one identity, one of them for a while, 2 events each, clock 2 |
| concurrent (`MCConcurrent.cfg`) | What do overlapping calls break, and do they all end? | 2 processes, 3 memories, one rival pair and two for the judge, 4 calls out of 7, 2 extractions for a memory |
| health (`MCHealth.cfg`) | What ends an archive, and what does a restore give back? | 2 processes, 2 memories that support one identity, 6 calls |
| search (`MCSearch.cfg`) | Is what a search answers current, and all there is? | 2 processes, 2 memories of which one supersedes the other, 2 searches with limits of 1 or 2 and pools of the same size, one forget, archive, crash or restore |
| contexts (`MCContexts.cfg`) | Does an agent hold the context that was selected for it? | one session, 2 scopes, 10 atoms in 5 + 3 sets of candidates, 2 policies, 3 contexts, ttl 1, clean-up by 1, clock 2 |
| backup (`MCBackup.cfg`) | What is left when a restore fails anywhere; do histories survive exports and imports? | 2 connected processes, 2 commits, 4 operations |
| plugin (`MCPlugin.cfg`) | Do the file and the memory of the plugin agree; is a session blocked for a reason? | 2 sessions with a candidate each, one of them conflicting, 1 restart, 1 stray request |
| forgotten_revived (`MCForgottenNeverActive.cfg`), disable_undone (`MCSwitchSurvives.cfg`) | two statements of the documents, for overlapping calls | see Findings |

Bounds of the first five: `MaxClock` bounds `Tick`; `MaxEditions` bounds `Edit`;
`MaxVersions` bounds `Move` in `ClaimVersions` and the freshness actions `Anchor` and
`Refresh` in `MemoryTruth`, the only ones that can be repeated for ever on one claim;
`MaxEvents` bounds archive and restore events, and 0 switches health off where a run is
not about it. Every other operation is bounded by the life of a memory. A clock of 2 has
an instant before and one after each validity boundary and ttl in the payloads, and
several calls within each tick; three memories give two rivals of one candidate; two
texts are an edit. Memory identifiers are interchangeable in the payloads and the
properties, so the runs use them as a symmetry set. Four calls are enough for a confirm
to overlap two others and a refresh, the shortest way in which a claim is accepted a
second time; the fairness run has no symmetry. A memory is extracted at most twice in
four calls: a process that needed a third would never end its call, which `CallsEnd`
excludes.

Bounds of the others. `MaxCalls`: six calls are an archive that overlaps a search, an
evaluation and a restore, with one call of each process to spare. `MaxSearches`,
`MaxUpsets` (changes, crashes and restores together, each with a bound of its own too):
one search can rebuild the index under the other, and each excuse in the properties is
reached by one upset. A pool or a limit of 1 is too small for two memories, one of 2 is not.
`MaxContexts` bounds the contexts compiled: three make a delta to a delta. One session
is enough because sessions share the snapshot table only and ids are never reused: to
one session the others are a clean-up that comes earlier, which the clock also brings
about; the theorems of section 4 are for any number. `MaxCommits` and `MaxOps` bound the
commits and the operations: a learned claim and its second version, beside a backup, an
export, and two restores or imports. `MaxRestarts` and `MaxStray` bound restarts and
abandoned requests; further abandoned requests are lost, which they may be anyway.

`CHECK_DEADLOCK FALSE` because a system whose clock, versions, calls and events are used
up stops: no operation is obliged to be possible.

The properties, by the question one would ask of the code:

- `HistoryTiles`, `ProjectionAgrees`, `ImplementsLog`: version history.
- `NoSilentConflict`: two active memories never hold accepted claims that the rules, a
  judge or a person say contradict each other. Two claims are compared when the later
  one is confirmed; the invariant says that nothing which happens afterwards (an edit,
  a start of validity, a manual decision, a freshness mark) breaks it.
- `ContestedIsExplained`: a contested claim is one side of a recorded contradiction.
- `AcceptedWasConfirmed`: at no instant of its history was a claim accepted while its
  memory was a candidate, and none stays accepted when its memory is rejected, forgotten
  or expired.
- `PastTruthStands`: whatever is called later, `current_truth` as known at a past instant
  gives the same state, claims, versions and history, and the same ends as far as they had
  come by then. What an answer shows beside them is of the time of asking and is only added
  to: ends of after the instant, once set, stay; relations and anchors stay.
- `ArchiveKeepsTruth`: a resolved identity stays resolved when a memory is archived, in
  every answer about the present that is asked for at an instant when all moments in the
  tables are past.
- `ArchiveAgreement`: the temperature and the archive events agree.
- `NumbersFollowCommits`: a call reads the next version number before it has the lock, yet
  the numbers are the order of the commits; the unique constraint refuses the others.
- `OnlyOverlapIsSilent`: `NoSilentConflict` for several processes. Two confirms that
  overlap can both miss the other, and the model reaches that state; the invariant says
  that this is the only way: a confirm was between its look and its commit when another
  call committed a change of one of the two memories. It covers two processes that ask the
  judge about the same pair and get different answers, or that confirm one candidate twice
  with a refresh in between.
- `CallsEnd`: every call ends, and without the lock.
- `ArchiveEndsByRestore`, `LastSupportStays`, `RestoreIsInverse`: each holds of calls that
  do not overlap and says exactly which overlap undoes it. A search that loaded a row
  before its archive makes the memory hot again; two archives may rely on each other; an
  evaluation forgets the temperature of before.
- `AnswerWasCurrent`: whatever the index, the words and the graph still know, each memory
  of an answer was active and not archived at one moment of the search. (Not at one and
  the same moment for all: a memory and the one that superseded it during the search may
  be in one answer.)
- `AnswerIsComplete`: what stays current during a search and was found by the words is in
  the answer unless the page was too small; what had a vector is, unless there were more
  vectors than are asked for or more candidates than the limit, another process was at the
  index, or the index was one that a restore removed or a crash left ahead of the database.
- `ViewIsContext`: an agent that reads full contexts and deltas over any number of requests,
  lost answers, clean-ups, restores, changed settings and switches off ends with the
  context selected last, as long as each delta since its last full context was legible
  (without the condition it fails: `MCTwoClaims.cfg` below). `BaseIsHeld`: a delta is to
  what its reader has read last. `NothingForeign`: an answer is of its own scope, and so is
  all that an agent holds.
- `ContestedTogether`: a delta that says anything of a protected bundle speaks of each
  memory with a current atom in it. `RequiredIsHeld`: what retrieval found that is contested
  or pinned is before the agent, legible deltas included. Retrieval itself may find one
  side of a conflict and not the other (its candidates are limited, compiler.py:114), and
  the agent then holds one side; only the budget never parts them.
- `RestoreIsAtomic`: for an operator who is alone, however a restore ends, the database is
  the archived one or that of before, whole, and which of the two is what the call said.
- `DiscardedIsSafe`: beside other processes too, a commit that a restore discards is in a
  backup, except commits made while the restore ran or through files of before it.
- `TornOnlyByGap`: a database gets the WAL of another only if a process connects between
  the removal of the sidecars and the replacement of the file.
- `HistoriesStayWhole`: database, backups and undisturbed exports have coherent version
  histories after any sequence of backups, restores and imports, except an import of an
  older archive over newer versions.
- `RestartChangesNothing`: with no write under way, the file agrees with the memory of the
  plugin, also after failed writes, failed health checks and crashes, as long as no two
  calls were at the switch at once. `NoticeStaysShown`: no later write forgets the notice.
- `ConflictIsKept`, `BlockedForAReason`: a session is held to the conflict its agent was
  told of until it is told of the end; and is held to a decided candidate only if the
  answer was lost or somebody else decided.

`CallsEnd` is the one liveness property. It assumes weak fairness of the steps of a call:
a thread that is in a call goes on, the judge answers or fails (its client has a
timeout), and `busy_timeout` ends a wait. Calls are not assumed to begin. Elsewhere no
fairness is assumed and no liveness is claimed: nothing in the program is scheduled, a
candidate may wait for its confirmation for ever, a memory that lapsed expires only
when somebody reads, an operator may be killed, and an agent may never ask again.

### Findings

Each is a run that TLC ends with a counterexample.

- forgotten_revived: `confirm` loads the candidate, may wait for the judge, and writes
  `active` without asking what the row says by then. A forget that another process commits
  meanwhile is overwritten, and the forgotten memory is active (DECISIONS.md:35 says
  retrieval stops returning it). The instance has a confirm and a forget and nothing else.
- disable_undone: `disable` writes the state file and unmounts when the write has ended. A
  `memory_context` of another session that ends in between records its first-use notice
  with the flag it still reads as enabled, in a write queued behind the first: the tools
  are unmounted, the file says enabled, and the next start mounts them again
  (integrations/deepseek-harness-memoryos/README.md:54 says the state survives restarts).

### Other deviations

Behaviour that differs from a document, each with the configuration and the property by
which TLC shows it. They are kept for reference and are not among the runs above.

| Configuration, property | What happens |
|---|---|
| `MCSupersededIsNotCurrent.cfg`, `SupersededIsNotCurrent` | `confirm` with `supersede` marks every memory with the same key as superseded, and only the claims that conflict by rule. Two values of a multi-valued predicate do not, so Current Truth answers the old value beside the new one (README.md:46 says it does not). |
| `MCLatestTextIsTruth.cfg`, `LatestTextIsTruth` | Propose, edit, anchor, a stale refresh, confirm: the refresh turned the historical claim of the first text stale, and confirm accepts it. |
| `MCTruthRespectsValidity.cfg`, `TruthRespectsValidity` | An edit of `valid_from` or `valid_to` of a candidate appends no claim version (docs/REALITY_INTELLIGENCE_V2_1.md:9 says each such change does), and the claims keep the validity they were extracted with. |
| `MCJudgeAnswersKept.cfg`, `JudgeAnswersKept` | A `confirm` refused because the judge found a conflict rolls back the row of the judge's answer (ARCHITECTURE.md:65 says each result is stored). |
| `MCTwoClaims.cfg`, `EveryViewIsContext` | Two claims of one memory with the same subject and predicate have one key; `plan_delta` puts the atoms in a dictionary by key (context/delta.py:163), and a delta leaves one of them out. |
| `MCImportReopens.cfg`, `ImportReopensNothing` | An import of an older archive over newer versions merges by primary key (backup/service.py:881): a closed version is open again, beside the later one (docs/REALITY_INTELLIGENCE_V2_1.md says old versions only close). |
| `MCLostAnswer.cfg`, `BlockedUntilResolved` | The answer of a confirm is lost after the service has settled the candidate: the retry is refused as no longer a candidate, and the session stays blocked until a restart or a switch off (the plugin's README.md:78 says until the candidate is resolved). |
| `MCRestoreRebuilds.cfg`, `RestoreRebuildsIndex` | A server that has the index open reads the unlinked file after a restore and trusts it when the counts agree (retrieval/search.py:527; docs/DEVELOPMENT_PROBLEMS_RETROSPECTIVE.md:120 says the index is built anew). |

The models also reach, or showed while they were written, behaviour of which no document
speaks: two open versions of one claim, when a call reads the open version before another
commit and the number after it; a claim row that differs from its open version, when a
call snapshots a row it loaded before another commit; an archived memory that a search or
an evaluation makes hot again while its explanation says archived (health/service.py:147);
a memory and its successor in one answer; a memory that is forgotten while a search
returns it; an export with memories of before a commit and claims of after it
(backup/service.py:735); an active memory without a vector, which only words find. Read
in the code, and not modelled: in mode `full` expired snapshots are never deleted; two
backups in one second have one name (backup/service.py:556); two searches at once count
one retrieval; a confirm whose index_memory fails with something other than
`ProviderError` raises after its commit (engine/service.py:186).

## 4. Proofs

`tlapm <module>.tla` in this directory checks every step. They hold for every value of
the constants under the assumptions the modules name: `NULL` is not a number (or not a
member of the set it is beside), sets of sources are what their types say, and the bounds
are natural numbers. `MemoryTruth!PayloadAssumption` is what the validation of a request
lets through: instants or nothing as ends of validity, the two strategies, the stale
states. Every invariant and action property of a passing run is the statement of a theorem.

`ClaimVersionsProofs`: the inductive invariant `InvariantHolds` joins the types, the
tiling, the agreement of the row with its last version, and two facts that neither
tiling nor agreement gives: a claim without versions was recorded before now, and the
last version opens less than a tick per version ahead of the clock. The first keeps the
backfill out of the future; the second keeps every moment within the horizon of
`BeliefLog` and makes the strict order survive the bump. From it follow `TypeCorrect`,
`HistoryTilesAlways`, `ProjectionAgreesAlways`, and, with one lemma per kind of step,
`StoreImplementsLog`: a `Move` writes the log from its moment on, which is not in the
past, and no earlier belief changes.

`MemoryTruthProofs` has two invariants. `ArchiveInv` is about the archive: the
temperature is the outcome of the last call and `current_truth` looks for the latest
timestamp, so it says that the events of a memory are strictly ordered in time and run
less than a tick per event ahead of the clock, so that `Horizon` is later than all of
them. `ArchiveAgreementAlways` follows.

`TruthInv` is about what is true. It is `Sound` of the database, the conjunction of:

| Part | What it says | Why it is needed |
|---|---|---|
| `Stored` | rows are well formed; a claim has a text of its memory and a history whose last version alone is open | `TypeOK`; what a transition closes |
| `Warranted` | only a memory that is or was active has versions in force; only an active or superseded one has a claim in force now | `AcceptedWasConfirmed` |
| `Explained` | a contested claim is in a recorded contradiction | `ContestedIsExplained` |
| `Raised` | a possible conflict is about two claims of different memories; as long as neither has ended, the rules do not decide between them | a row that is confirmed later must find both claims where the decision can contest them |
| `Undisputed` | `NoSilentConflict` of a database and an instant: accepted claims of two active memories, neither of which has ended, do not conflict, also when the validity of one is yet to begin | it is asked of the database between two passes of a call too |

A call is a chain of passes (expiry, extraction, judging, the move of the claims), so the
proof is about passes and not about actions. `Quiet` passes bring nothing in force, and
keep everything; the others are the activation of a confirm (`Activates`, `Confirms`) and
the decision of a possible conflict, where what was in dispute is shown to end contested,
superseded or ended. `Follows` says of a pass that the database is sound after it and that
its histories have only grown from the present instant on (`Advances`); it composes.
`TypeCorrect`, `NeverSilentConflict`, `AcceptedAlwaysConfirmed` and
`ContestedAlwaysExplained` follow from `TruthInv`. `PastTruthAlwaysStands` follows from
`Advances` and three facts of the passes, that texts, relations and anchors are only added
to: histories that grow later show the same versions of a past instant, with the ends that
had come by then, in the view and beside it. That an anchor is never taken away needs
`AnchorInv` (a memory's anchored text is one it has). `ArchiveAlwaysKeepsTruth` needs
both invariants: when every moment is past, the view holds the open versions that cover the
present, of memories that are not archived; an archive only takes entries from it, so that
no dispute appears, and `_assert_truth_safe` has found another support that is in it.

`ConcurrentServiceProofs`: `ServiceInv` says what each session may still rely on of what
it has read before it had the lock. `Sane`: versions are numbered without a gap and the
last is open. `Ready`: the number a call has read is at most one more than there are
versions by now, so that it is either free and next, or used and refused by the unique
constraint; `NumbersAlwaysFollow` follows. `OwnKept`, `OthersCompared`, `Asked`,
`DisputesKept`: a confirm's own claims are those it has gathered and it has compared them
with each claim in force, and found or asked about each conflict, except where the memory
is in `beside`. Hence `OnlyOverlapAlwaysSilent`. Steps that read (`ReadStep`), that flush
under the lock (`FlushStep`) and that roll back (`RollbackStep`) keep it for the caller,
and the others see no difference; the commit (`WriteStep`) ends the caller's session, and
each other session keeps what is not about a changed memory, because the changed ones are
now in its `beside`. Why the exception is about both memories and not only about the later
one: with three processes a candidate that a call has compared with can be forgotten and
brought back with a new claim by a confirm that was already under way (see
forgotten_revived); the call then writes against a claim it never saw. With the two
processes of the run this does not come about.

`ContextSessionsProofs`: first the algorithm. `DeltaRebuilds` says that applying
`Plan(base, current)` to `base` gives `current` for any two contexts that are `Legible`,
and `DeltaIsWhole` that a protected bundle which is touched is spoken for whole, for any
two. Then the protocol: `IInv` adds to the types that rows hold atoms of their scope
(`RowsOk`), that the row of the context a client names, if it still exists, is what was
meant for the agent, and is what it holds as long as its deltas were legible (`HeldOk`),
and that a request at each stage carries what the later stages rely on (`RequestOk`): a
base that was loaded stays good although its row may be deleted before the delta is
planned. Every property of the run follows, of any candidates that retrieval may find:
`ViewAlways` and `RequiredAlways` say of which agents they speak in their statement, and
`MCTwoClaims` is what happens to the others.

`BackupServiceProofs`: `Inv` has the shapes of the operation (`Shapes`), that no WAL lies
beside a file that is about to be replaced (`NoWal`), `TornOnlyByGap`, how far an
undisturbed restore has come and what is then where (`Progress`), and that each commit
is somewhere (`Kept`). `RestoreAlwaysAtomic`, `DiscardedAlwaysSafe` and
`TornAlwaysByGap` follow for any number of processes, commits and operations. A second
invariant, `HistoryInv`, is about what is in the databases, wherever they are: in the
files, in a backup, in the hands of a restore, or half exported. The rows of any two have
the same identity when they have the same id (`SameRows`), which is why a merge by primary
key cannot mix two histories; each claim has a highest version (`Topped`, stated because
that a finite set has a maximum is an induction); an export under way has read what the
database still says, unless somebody committed beside it (`Reading`); and every database
is coherent until an import of an older archive or a commit through files of before a
restore is on record in `marks` (`Agreed`). `BackupTypes` and `HistoriesAlwaysWhole` follow.

`MemoryPluginProofs`: `Inv` ties the queue of writes to the calls that wait for them
(`TypeOK`), the last write of an undisturbed queue and the file to the flag (`Alone`), the
notice along the queue (`NoticeOrder`), a pending conflict to what was told and to the
status of its candidate (`Orphaned`, `ConflictIsKept`, `Retried`, `Answered`,
`Blocking`), and a candidate to the session that proposed it (`Named`).

`MemoryHealthProofs`: `Inv` says what a loaded copy of a row is still good for: as long as
nobody has committed the row `since`, it is the row (`Loaded`); an archive that has passed
its check still has the support it found unless that row was written (`Relied`); and
`was` is what an archived row holds as its temperature of before (`WasOK`,
`Remembered`).

`MemorySearchProofs`: each search has seen what is current and keeps no more than that
(`Watched`); as long as it is alone at the index its count is the database's (`Counted`)
and the index it cleared or compared is what it left (`Indexed`); what it has collected
holds all it must (`Collected`). `Entries` is the heart of it: the entries of an index in
its place are vectors of the database or the one that another process is about to commit,
unless a crash or a restore has parted the two. A search that is alone therefore compares
the sizes of a finite set and of a subset of it, and equal sizes make them the same:
`AnswerAlwaysComplete` proves that comparing two counts is enough as long as the vectors
are no more than the pool that is asked for, whatever the pools are, and the excuses in
`AnswerIsComplete` are where it is not.

Only model-checked: `CallsEnd`, for it is liveness under fairness, and the runs that
expect a violation. Out of the prover's reach are ENABLED and induction over data, which
is why `HistoryInv` carries that maxima exist, and why the models have no recursion.

## 5. Not modelled

The evaluation suite and the benchmark scripts (`memoryos/evaluation/`, `scripts/`) are
about half of the repository's code. They measure the system and take no part in it:
harnesses that run agents, score answers and write reports, sequential programs whose
files are about their own runs. They are the reason why the models stand for a small share of
all lines while they cover the components that keep state.

Of the program itself: entity merges (nothing in the service calls `merge`, so that no
redirect comes about); consolidation and feedback, which append rows that a person or a
score takes into account; the interfaces and the Workbench, which hold no
state of the system; ranking, scoring and token arithmetic, text normalisation,
extraction, rendering and Git comparison, which are inputs or choices here; migrations;
the format, hashes and limits of archives; the plugin's explain tool, its hint after a
tool that failed offline, its token ledger and its headless runner, which write none of
the state above.

Of what is modelled: sessions interleave in `ConcurrentService`, `MemoryHealth`,
`MemorySearch`, `ContextSessions` and `BackupService`, not in `MemoryTruth`; expiry,
edits and manual resolutions are left out of `ConcurrentService`.

## 6. Plan

1. Theorems about the order of calls: a call of `ConcurrentService` that nothing overlaps
   does to the tables what one step would do.
2. The moments of the versions in `ConcurrentService`, for a reader between a moment and
   its commit.
