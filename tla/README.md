# AkashWork: specifications, model checking and proofs

The repository holds two programs. Talent Ops (`src/talentops-ottobon/Talent Ops`, below
`TO`) is a browser application over a hosted Postgres database, with a chat gateway and a
task monitor beside it (`src/modalgateway-Tops-1/modalgateway-Tops-1`, below `MG`). There is
no application server between the browser and the database: most handlers run in a
browser tab, decide from rows the tab fetched earlier, and send updates; some run in the
database as SQL functions. The other program is the Redis server that the gateway
keeps its sessions and limits in, whose source is part of the tree
(`MG/redis-stable/src`, below `R`) and is nearly all of its code in C.

What makes the first hard is concurrency over old data: two tabs, or a tab and the
clock, act on the same row, and a handler is several calls long, any of which may
fail. What makes the second hard is what happens between two commands, two messages,
two system calls: expiry, resynchronisation, a crash.

This directory holds TLA+ modules for the parts modelled so far, the TLC
configurations that check them, and theorems checked by TLAPS.

## Inventory

| Component | State | Operations | Status |
|---|---|---|---|
| Task workflow (`TO/services/modules/task`, `AllTasksView.jsx`, `TaskDetailOverlay.jsx`, `MyTasksPage.jsx`) | `tasks` rows (status, lifecycle, phase_validations, access, lock), `task_submissions`, the files in storage, the copy each tab has open | create, submit proof (two paths), delete a proof file, approve and reject a phase, complete, request and review access, close, reassign, archive | partly: editing and issues left out |
| Task lifecycle page, manager dashboard | same rows, through stored procedures | request validation, approve, reject | not modelled: the procedures are not in the repository |
| Task points and steps (`triggers/`) | `task_steps`, `allocated_hours`, points of submissions | triggers on insert and update | not modelled |
| Leave, the pages' path (`ModulePage.jsx` of four roles) | `leaves`, balance in `profiles`, what a form or page has read | request, approve, reject | modelled |
| Leave, the functions (`rpc_*leave*.sql`) | the same tables | apply, approve, reject, manage | not modelled: no page calls them |
| Messaging, team conversations (`services/messageService.js` 423-1056, `MessagingHub.jsx`) | conversations, members and their admin flag, whether messages exist, operations in progress | create, add, remove, promote, demote, leave, delete | modelled, but for renaming |
| Messaging, direct conversations (`messageService.js`) | the conversation of two users, its index, `deleted_for` of each message | find or create, send, delete for me | modelled |
| Messaging, the rest | reactions, polls, attachments, organisation conversations | react, vote, delete for everyone | not modelled |
| Attendance, payroll (`rpc_clock_*.sql`, `rpc_*payroll.sql`, `PayrollFormModal.jsx`) | sessions by day, rows by month | clock in and out, generate, complete | not modelled: a check and an insert each, see *What is left out* |
| Message context, business hours, announcements, notifications, profiles, role pages | counters in memory, single rows, pure functions | poll, count, insert, mark read, edit | not modelled |
| Chat gateway (`MG/unified_server.py`), access rules, task monitor, language-model, retrieval and guardrail servers | buckets, session history, alerts sent | chat, confirm, scan, remind | not modelled |
| Redis dictionary (`R/dict.c`) | two tables, `rehashidx`, pauses, resize policy | insert, find, delete, rehash step, SCAN, safe iterator | modelled, but for random sampling, two-phase unlink and the unsafe iterator |
| Redis Cluster elections (`R/cluster_legacy.c`) | epochs, votes, the election of each candidate, `nodes.conf` | schedule, ask, vote, count, win, learn, restart | modelled, but for failure detection and manual failover |
| Redis Cluster slot configuration (`R/cluster_legacy.c`, `R/redis-cli.c`) | epochs and owners in every view, keys, messages, the resharding | ping, update, collide, set slot, migrate, serve | modelled for one slot; replicas and handshake left out |
| Redis replication (`R/replication.c`, `R/rdb.c`) | IDs, offsets, backlog, cached master, RDB | write, stream, PSYNC, full sync, REPLICAOF, restart | modelled, but for diskless load and WAIT |
| Redis transactions (`R/multi.c`, `R/db.c`, `R/expire.c`) | databases, watched keys, client flags | MULTI, EXEC, DISCARD, WATCH, UNWATCH, writes, expiry, flush, swap | modelled |
| Redis streams (`R/t_stream.c`) | entries, groups, four places of a pending entry, the cached minimum | XADD, XTRIM, XDEL, XDELEX, XACK, XACKDEL, XREADGROUP, XCLAIM, XAUTOCLAIM, XGROUP | modelled on a master and its replica |
| Redis append-only file (`R/aof.c`, `R/bio.c`, `R/server.c`) | buffer, files, manifest, fsync jobs, rewrite child | write, flush, fsync, rewrite, turn on and off, load | modelled for appendfsync always and everysec |
| Redis Sentinel, clients and scripting, data types and memory, command line tools | - | - | not modelled |

**Interactions.** The tabs meet only in the database. A task's row ties the
pages together: an employee's overlay and a manager's overlay each read and
write the whole `phase_validations` column of the same row. Leave requests, their
approval and the balance meet in two rows that no call locks. Realtime events refresh the
lists of a page, never an overlay that is open. The gateway uses Redis through single
commands and one script. Within Redis, `dict.c` holds the databases that transactions
watch, replication carries what streams and other commands propagate, the append-only
file records the same, and the cluster bus decides which master serves a slot whose keys
`redis-cli` moves. The seven parts share the replication offset and the event loop and
little else, so each is a model of its own, with what it needs of the others in its
environment: expiry in `Transaction`, the replica in `StreamGroup`, the event loop in `AofLog`.

**What is hard, and what makes each component correct.**

* Task workflow. Stale copies, a deadline that passes while a modal is open,
  handlers of several unguarded writes. Correct when an approval in the table is
  always a reviewer's decision about proof that is there, when a completed task
  was justified, when a phase never advances without proof, and when access that
  was granted does open the task.
* Leave. Two pages decide from what they loaded, and write the leave and the balance in
  two calls. Correct when the balance is charged the paid days that are approved and no
  request loses days.
* Messaging. Lookup then create, count then demote, read then write back.
  Correct when two people share one conversation, a group keeps an admin and a
  deletion is not forgotten.
* Dictionary. A cursor without state walks tables that grow, shrink and move meanwhile.
  Correct when no key is lost, SCAN returns every key that stays, and an iterator each once.
* Elections. Votes are late or lost, nodes crash between an event and its saving. Correct
  when an epoch has one winner and no view goes back to an old one; two things that the code
  does not prevent take the first away, a late vote and a vote forgotten in a crash.
* Slots. Epochs are taken without consensus, PINGs are old, the operator stops half way.
  Correct when the masters agree in the end, on epochs and on owners, and no acknowledged
  key is deleted.
* Replication. An ID and an offset stand for a history. Correct when a resynchronised
  replica misses and repeats nothing, and replicas end up equal.
* Transactions. Keys expire, are flushed or swapped under a watch. Correct when EXEC runs
  on what was watched, and fails only for a change.
* Streams. A pending entry is known in four places, the lag is computed from counters
  that deletions blur, and replicas get other commands than the master ran. Correct when all agree.
* Append-only file. Two renames, a manifest, a background thread, and failures that the code goes on after. Correct when every
  directory a crash can leave loads the history, and no acknowledgement is taken back.

`PROJECT.json` lists hazards at their lines with the properties that cover them.

## Plan

Done, in this order; the order followed the importance for the application first, then the
share of the code.

1. `TaskWorkflow`, with `TaskWorkflow_proofs`; `PhaseBoard`, what the phase column promises
   although tabs are stale, implemented by `TaskWorkflow` (in `TaskWorkflow_proofs`, too).
2. `GroupChat`, `DirectChat` and `LeaveManagement`; the proofs of the first two are in `Messaging_proofs`.
3. `Dict` with its abstract `KeyScan`; `ClusterElection`; `ClusterSlots`; `Replication`;
   `Transaction`; `StreamGroup`; `AofLog` with its abstract `KeptLog`. `ClusterElection`,
   `ClusterSlots`, `Replication` and `StreamGroup` with their proofs; those of `Dict` and `Transaction` are in `Keyspace_proofs`.

Next:

4. Theorems about `AofLog`, whose loading folds over files and so has to be treated as the loops
   of `Transaction`, `StreamGroup` and `Dict` are.
5. Sentinel: its election of a leader, the configuration epoch and the promotion of a replica.
6. The unread count of `MessageContext.jsx` (realtime event against poll), the sharing of one session by
   two confirmations in the gateway.

## TaskWorkflow

### State

| Variable | Code |
|---|---|
| `tasks` | the `tasks` table; the columns of `Row` are `status`, `lifecycle_state` (`life`), `sub_state` (`sub`), `phase_validations` (`pv`, and its `active_phases` as `active`), `assigned_to`, `access_requested`, `access_status`, `is_locked`, `closed_by_manager` |
| `subs` | how many `task_submissions` rows a task and a user have |
| `overdue` | the tasks whose due date and time have passed |
| `pc`, `at`, `snap`, `target` | for each tab: what it is doing, the task it has open, its copy of the row (`selectedTask`, `taskForProof`, `accessReviewTask`), the assignee chosen for a reassignment |
| `bucket` | the files that storage (`task-proofs`) has, for each task; rows name them, and nothing joins the two |
| `removing` | the phase and file of a deletion that has removed the file and not yet updated the row |
| `decided` | history: the phases of a task that a reviewer has approved |
| `home`, `torn` | history: the phase each file was uploaded for, since every upload gets a name of its own; the tasks whose row was left naming a file that is gone |
| `started` | bound on the number of writing handlers |

The number of phases is a constant; the code has five. A phase entry keeps its
status and the set of what was submitted as proof: files, and one value for text.
Names, dates, hours and notifications are left out. `active = {}` stands for a missing
`active_phases`.

### Actions

One action is the code from one `await` whose result matters to the next. A handler of
several such calls has a stage in `pc`, and other tabs act in between.

| Action | Code |
|---|---|
| `Open`, `Close`, `Refetch` | a click on a row of the list; `MyTasksPage` fetches its open row again after a write (97-101), `AllTasksView` does not |
| `CreateTask` | `mutations.js` `createTask`, with the phases chosen in `AddTaskModal` |
| `SubmitProof`, `LookupSubmission`, `UpdateSubmission`, `InsertSubmission` | `workflow.js` `submitTaskProof`, called from the proof modal of `AllTasksView` |
| `OverlaySubmit` | `TaskDetailOverlay.jsx` `handleSubmitProof` |
| `DeleteProofFile`, `DeleteProofEntry` | `handleDeleteProof`: the file goes from storage first, or stays there unnoticed, then the row is updated from the copy |
| `ApprovePhase`, `CompleteTask`, `RejectPhase` | `approveTaskPhase` (two updates), `rejectTaskPhase`, with the handlers that call them |
| `RequestAccess` | `requestTaskAccess`, and `handleRequestAccess` of `MyTasksPage` |
| `ApproveAccess`, `CloseTask`, `ReassignTask`, `InsertReassigned` | `processAccessReview` |
| `ArchiveTask` | `archiveTask` |
| `DueDatePasses` | the clock |

An update by id sets the columns it names on the row as it is now, and the values
it gives them come from the tab's copy. `Reply` is the database's answer; a
refused write changes nothing, and each handler goes on as its code does: some
throw, the review handlers never look.

`ModalOpens` says whether the proof modal of `AllTasksView` can be opened. At this commit
the handler that opens it is passed to no control that calls it, while
`submitTaskProof` stays exported and wired behind the modal. The main run is made with `TRUE`, the
proofs cover both values; `task_approvals_stand` uses
`FALSE`, so that it rests on reachable code only.

A tab runs one handler at a time; a second handler of the same user is another tab's.

### Properties

| Property | Says | Why it could fail |
|---|---|---|
| `ReviewedHasProof` | an approved or rejected phase names proof, always; what it names is stored, or is being deleted, unless the task is `torn` | the proof may be deleted after review, and old copies are written back |
| `ApprovedWasDecided` | an approval in the table was some reviewer's | any submission rewrites every phase from a copy |
| `CompletionJustified` | a completed task was closed by a manager or its last required phase was approved | the completion is a separate write, decided on a copy |
| `AccessUnlocks` | approved access never meets a locked row | two managers' reviews interleave |
| `CopiesSound` | the same facts hold of every tab's copy, until its last write lands | the strengthening that makes the three above inductive |
| `AdvanceCarriesProof` | a step that moves the lifecycle brings pending proof at or before the new phase | two columns computed from an old copy |
| `ReassignmentInherits` | the inserted row asks the phases of the row closed, and starts fresh | the row is built from the copy, after a call in which others act |

They do not say that approvals last: they do not, as `task_approvals_stand` shows. A task is `torn` when a deletion's
update was refused after its file was removed (`TaskDetailOverlay.jsx` 455, 477), or when a write put back names that the row
no longer had; the phase then names a file that nobody can open, and TLC finds the property violated without the exemption. The half that says that a reviewed phase names some
proof has no exemption.

### PhaseBoard: what the phase column promises

`PhaseBoard` is the abstract specification of `phase_validations`: a board of phase entries
per task, edited through copies. A tab fetches a task, and a write replaces the
board of that same task by the tab's copy with one entry changed: proof is submitted
(and asks for a review), pending proof is reviewed, or a file is withdrawn, the
last one with its entry. The write may be lost, and the copy may be kept. It
says nothing of lifecycle, status, access or locks.

`ImplementsBoard` is `Board!Spec` under the mapping at the end of `TaskWorkflow`: `board` is
the `pv` column of every row, `copy` that of every tab's copy, `of` is `at`, and
`exists` the rows that were inserted. It could fail in every handler: a write
to another task than the one open, an edit of a second phase on the way, a review of
what the copy does not show as pending proof, or a completion, closing or
archiving that touches the column.

## GroupChat

### State

| Variable | Code |
|---|---|
| `conv` | the `conversations` row of one team conversation |
| `rows` | `conversation_members`: for each user how many rows have the admin flag and how many have not. The table has no uniqueness constraint, so two are possible |
| `messages` | whether the conversation has messages, which is all `deleteConversation` and the foreign keys ask |
| `call` | the operations in progress: what, by whom, on whom, and the call to the database that comes next |
| `seen` | users who were members once and may still have the group open |
| `wasAdmin`, `raced`, `blind` | history: who had the admin flag once; whether two operations that bear on one another overlapped; whether a guard went on although its read failed |
| `started` | bound on the number of operations |

`raced` is set when an operation starts while another is in progress, and both take
rights away (remove, demote, leave, delete), both add the same user, or one adds
and the other deletes the group. Everything else may interleave without setting it.

### Actions

An operation is the series of its calls to the database. `Ask...` is the check of
`isConversationAdmin` that begins it (a check that fails or answers no throws, and nothing
changes), `LookupMember` and `CountAdmins` are the second looks of an addition and
of the guard for the last admin, and `InsertMember`, `Promote`, `RemoveOrLeave`, `Demote`,
`Enroll`, `DeleteMessages`, `DeleteMembers` and `DeleteConversation` the writes.
`AskReduce` is the common shape of removing and demoting: a count first when the
user is the caller. `SendMessage` is here because a message keeps a
conversation from being deleted.

Any call may fail when `Lossy`. What a failure means differs from place to place and is
kept: a failed `isConversationAdmin` answers FALSE, a failed count or lookup gives no data
and the guard passes, a failed write throws.

The controls are no restriction. The admin flag and the member list that show
them were fetched when the group or the dialog was opened and are not refreshed, so a user
may call anything that was once offered; the service decides. `OwnRow` is the one exception:
`MembersModal` offers nothing on the user's own row, the service handles it all the
same, so the run is made with TRUE and the proofs cover both values.

### Properties

| Property | Says | Why it could fail |
|---|---|---|
| `KeepsAdmin` | without a race and a failed guard, a group with members has an admin the service recognises | additions, promotions, messages, failed writes and half-way deletions interleave with the guards |
| `DistinctMembers` | under the same condition nobody has two rows | only a look before the insert prevents it |
| `PendingSound` | under the same condition, what a guard found holds until the write it guards: an added user is still absent, who counts admins still is one, who loses rights leaves another admin | other operations write in between |
| `OnlyAdminsGovern` | in every race and failure, whoever changes another's membership was made an admin by an admin, or created the group | the check may be old |

Without the conditions the first three fail, as *What is left out* says.

## DirectChat

Two users, their direct conversation and the messages of the first one that comes to be.
`doing` is what a user's tab has under way, one step per `await`.

| Action | Code (`messageService.js`) |
|---|---|
| `BeginCreate`, `Search`, `SearchFails`, `InsertConversation`, `AddMembers`, `AddMembersFails` | `createDMConversation`: the user's conversations, those of them that are direct and shared with the other, then two inserts. `maybeSingle()` gives no row when there are none and an error when there are two; the error is not looked at |
| `InsertMessage`, `UpdateIndex`, `UpdateIndexFails` | `sendMessage` and `updateConversationIndex` |
| `ReadDeletedFor`, `ReadDeletedForFails`, `WriteDeletedFor` | `deleteMessageForMe`: a read, and a write of the whole list |

| Property | Says | Why it could fail |
|---|---|---|
| `OneDirect` | the two share one conversation unless two creations crossed or a search failed | half-made conversations without members stay behind; a second creation must not build on them |
| `MessagesSound` | what is referred to is there; the index shows the last message unless sends crossed or a call failed; what a user deleted for himself stays hidden unless deletions crossed or a read failed | each is a second call after a first |

The history `disturbed` names the operations that crossed, and nothing weaker would do:
two users who write to each other for the first time at once get two conversations, after which
`maybeSingle()` answers with an error and every further call makes one more (366-375);
of two messages sent at once the earlier one may stay on the index (317); of two
deletions of one message one is forgotten (1149).

## LeaveManagement

`form` is what an employee's form has read, `page` the rows an approver's page shows,
`call` the approver's action in progress. Days are split into paid ones and loss of pay.

| Action | Code |
|---|---|
| `ReadBalance`, `ReadPending`, `Insert`, `InsertFails` | `submitLeaveRequest` of the employee's `ModulePage.jsx` |
| `LoadPage` | the fetch of the approver's page |
| `Begin`, `BeginUnread` | the start of `handleAction`: the page shows the outcome, the balance is read |
| `UpdateLeave`, `UpdateBalance`, `UpdateFails` | its updates. A manager writes the leave first; executives and team leads write the balance first and go on when the balance cannot be read |

| Property | Says | Why it could fail |
|---|---|---|
| `DaysKept` | no decision changes the days of a request, whatever crosses or fails | the split is computed from a page's copy |
| `BalanceSound` | the balance never falls below zero; it is charged exactly the approved paid days if nothing crossed or failed; at least these, if nothing crossed and no manager's call stopped | two calls, in two orders |

Beyond those conditions the balance is not kept: two approvers who split against one
balance overdraw it (manager's page 1006), a manager's failed second update leaves paid
days uncharged (1038), an executive who cannot read the balance approves without
a charge (1019), and two forms that read the pending requests before either inserts do not
see each other (employee's page 791).

## Dict and KeyScan

`Dict` keeps both tables bucket by bucket, with `rehashidx`, the number of paused rehashes
and the resize policy. An operation is a step, for one thread owns a dictionary;
what interleaves is what happens between two calls of SCAN or of `dictNext`.

| Action | Code (`R/dict.c`) |
|---|---|
| `Insert`, `Find`, `Delete` | `dictAddRaw`, `dictFind`, `dictGenericDelete`, each with the rehash step (`dictRehashStepIfNeeded`) and the resize it takes |
| `ScanCall` | `dictScan`: `rev` reverses the bits, `NextCursor` is the increment of the reversed cursor, `ScanTwo` the walk over both tables, which does `Cursors` until `WalkEnd` |
| `IterNext`, `IterEnd`, `IterRelease` | `dictNext` of a safe iterator, and its release |
| `SetPolicy`, `Cron` | a child process starts or ends; `databasesCron` |

A table is a function from its bucket numbers to sets of keys, its size a power of two (`Pow2`), and a mask the
remainder by that size. Two assumptions bound the keys: they are finitely many, and fewer than the cursor counts. The second
says that a table never has to be larger than the cursor, which in the code has 64 bits: a table of 2^64 buckets fits in no memory.

`KeyScan` is the abstract specification: a set of keys that changes by insertion and
deletion only, and a SCAN that may end only when it owes no key that was there
from its first call on. The refinement maps `contents` to the union of all buckets.

| Property | Says | Why it could fail |
|---|---|---|
| `TablesSound` | every key in the bucket of its hash, counters right, passed buckets empty, lookups exact | the bucket number is computed before the rehash step of the same operation |
| `ImplementsKeyScan` | a rehash invents and loses nothing, SCAN returns all it owes | tables of two sizes, cursors of an older size |
| `CursorAdvances` | from any cursor, a call ends the SCAN or returns one that is strictly further in reversed-bit order, in tables of any size | a cursor that stays, or goes back, makes a SCAN endless |
| `IterExact` | a safe iterator returns every key that stays, and none twice | deletions resize under it; the rehash is paused, not the resize |

## ClusterElection

One failed master, its replicas and the other masters, the voters. A node handles an event
at a time and saves once, before it sleeps. Messages are a set, so they are reordered and may be later than
the election they belong to, and one that nobody handles is lost.

| Variable | Code |
|---|---|
| `currentEpoch`, `lastVoteEpoch`, `owner`, `ownerEpoch` | the same fields of `server.cluster`; the master of the slots and its `configEpoch` in each node's view |
| `disk` | the four as `nodes.conf` has them |
| `auth` | `failover_auth_sent`, `_epoch` and `_count` of a candidate |
| `votes`, `claims` | history: all votes cast, all elections won (the PONGs that say so are repeated) |
| `unsaved`, `forgot` | history: votes not yet saved, and those that a crash made their voter forget |
| `strays`, `strayWins` | history: candidates whose count has a vote of another election, and what they won with it |

| Action | Code (`R/cluster_legacy.c`) |
|---|---|
| `ScheduleElection`, `AskVotes`, `Win` | `clusterHandleSlaveFailover`, `clusterFailoverReplaceYourMaster`, which saves before it tells |
| `Vote` | `clusterSendFailoverAuthIfNeeded`; the vote is on its way and not on disk |
| `CountVote`, `Hear`, `Learn` | `clusterProcessPacket`, `clusterUpdateSlotsConfigWith` |
| `BeforeSleep` | `clusterBeforeSleep` with `clusterSaveConfig` |
| `Restart` | a crash at any moment, and `clusterLoadConfig`: everything goes back to `disk` |

| Property | Says | Why it could fail |
|---|---|---|
| `OneWinnerPerEpoch` | of those who counted only votes of their election, no two win an epoch, unless a vote of that epoch was forgotten | lost elections, votes in any order |
| `ElectionsSound` | a voter votes once in an epoch unless it forgot; a majority of all masters stands behind such winners; views that agree on the epoch agree on the master; a winner never forgets that it won | a crash between any event and its save |
| `OwnerEpochGrows` | no view of the slots goes back, but in a crash to what was saved last; what is saved never goes back | PONGs of successive winners arrive in any order |

An epoch may have two winners, in two ways that the histories name and nothing weaker would do:

* *A late vote.* Setting up a new attempt resets the count and the sent flag (4370-4376) and leaves `failover_auth_epoch`, so that a vote of
  the attempt that is over, arriving now, is counted (3293) for the election that is opened next (4436). No crash is needed:
  `ClusterElectionLate` shows it against the comment at 1749.
* *A forgotten vote.* The vote is sent in the handler and saved in `clusterBeforeSleep` (4145). It leaves first when the link it goes out on has data to write already; the
  barrier (3553) orders the events of one descriptor. With two voters it takes a crash of both to elect two.

What becomes of the two winners then, the collision of their epochs, is the matter of `ClusterSlots`.

## ClusterSlots

Masters only, one slot that moves; every view of every epoch, the owner of the slot in each
view, the keys, at most one PING and one UPDATE under way per direction, and the
steps of `redis-cli`.

| Action | Code |
|---|---|
| `SendPing`, `ReceivePing`, `ReceiveUpdate` | `clusterCron`, `clusterProcessPacket` with `clusterUpdateSlotsConfigWith` (`UpdateSlots`, with the deletion of the keys of a lost slot) and `clusterHandleConfigEpochCollision` |
| `SetImporting`, `SetMigrating`, `Migrate`, `TellTarget`, `TellSource`, `TellOther` | `CLUSTER SETSLOT` with `clusterBumpConfigEpochWithoutConsensus`, MIGRATE, in the order of `redis-cli.c` |
| `Write` | a client's write where `getNodeByQuery` lets it (`Serves`, `Asked`) |

| Property | Says | Why it could fail |
|---|---|---|
| `SlotsSound` | views of epochs are of the past; a master that serves the slot has every acknowledged key | an old PING gives the slot back, and the loser deletes its keys |
| `MastersConverge` | epochs end up distinct in every view, and the owner of the slot agreed, wherever the operator stopped | colliding masters both move on and collide again |

*Fairness:* weak, for each pair of masters, of sending a PING and of receiving what was
sent. `clusterCron` pings every node within half the node timeout, and a link
that fails is made anew; nothing is asked of the operator or the clients.

`Init` has two starts: a fresh cluster whose epochs all collide, and one that `redis-cli`
created with distinct epochs, in which the slot is moved. Both at once is left out, and so is
CLUSTER BUMPEPOCH: the target takes a new epoch only if its own is not the greatest it
knows (1725), so a source that took one meanwhile gets the slot back and the keys that
the target holds are deleted (2510); the two may even end up each naming the other.

## Replication

`srv` has for each server its IDs, offset, data (the sequence of writes applied), backlog, link, cached master
and RDB file. A write is one byte of the stream.

| Action | Code (`R/replication.c`) |
|---|---|
| `Write`, `Stream` | `replicationFeedSlaves`, `replicationFeedStreamFromMasterStream`, `feedReplicationBuffer` with the trimming of the backlog (`Fed`) |
| `PartialSync`, `AskFullSync`, `JoinBgsave` | `syncCommand`, `masterTryPartialResynchronization` (`Continues`), `slaveTryPartialResynchronization` |
| `StartBgsave`, `FinishFullSync`, `FailFullSync` | `startBgsaveForReplication`, `readSyncBulkPayload` |
| `Disconnect`, `Save`, `Restart` | broken links; `rdbPopulateSaveInfo`; `loadDataFromDisk` |
| `ReplicaOf`, `Promote`, `ExpireBacklog` | REPLICAOF with the IDs shifted; `replicationCron` |

| Property | Says | Why it could fail |
|---|---|---|
| `StreamCompletes` | what a linked replica has, and what it still has to read, is what its master has | two histories joined under one ID, a backlog trimmed too early |
| `HistoriesSound` | an ID names one history among all servers that could resynchronise with it | promotions, restarts from older files |
| `ReplicasEndEqual` | replicas end with the data of their master | a failed load after the old data is gone, links broken by a change of ID |

*Fairness:* weak, of each server's resynchronisation, BGSAVE, load and stream.
`replicationCron` runs every second, connects what has no link and starts the BGSAVE that
replicas wait for. Switches and faults are bounded in number, which is what "in the end" needs.
The liveness speaks of replicas of a master and of its linked replicas: two servers that
are told to replicate each other wait for each other for good.

## Transaction

A command is a step, an EXEC with its whole queue too. A key's value is the number of
the write it is from. On a replica, writes come from its master, and expired keys stay until the
master deletes them. The databases are loaded with one of `Files`, so a key may be there, with a time to live or without,
before the first write.

| Action | Code |
|---|---|
| `Watch`, `Multi`, `Queue`, `Reject`, `Exec`, `Discard` | `R/multi.c` |
| `Run`, `MasterRun` | a command, with `expireIfNeeded`, `touchWatchedKey` (`TouchWatchedKey`), `touchAllWatchedKeysInDb` (`TouchAllWatchedKeys`) |
| `TimePasses`, `ActiveExpire` | time; `activeExpireCycle` |

| Property | Says | Why it could fail |
|---|---|---|
| `RunsOnWhatWasSeen` | an EXEC that would run finds every watched key as it was | expiry with and without deletion, flush and swap under a watch |
| `WatchersSound` | both ends of a watch, and the count of watching clients, agree | a watch ends in five ways |
| `NoFalseAlarm` | only a change a reader could see makes EXEC fail | the deletion of a key that was expired at the start |

`RunsOnWhatWasSeen` exempts the keys in `masked`. A client that watches an expired key has a flag on the watch; when
`touchWatchedKey` meets a flagged watch and the key is there, it leaves its loop (407), and neither that client nor those
behind it are told of the write, although the comment above the function says
"if this key is being WATCHed by some client the next EXEC will fail" (373). The flag can outlive the
expired key in two ways: on a replica, when the master writes the key without having deleted it; on a master, when SWAPDB puts
another key in its place, which marks the client but leaves its flag on the list. A key is masked from
the step that makes it so, as `Mismarked` computes, until nobody watches it. Without the exemption TLC finds
the property violated in both ways within the bounds of the run.

## StreamGroup

`s` is the stream at a master, `r` at a replica that gets what the commands propagate. A group has its PEL,
its consumers' PELs, its list by delivery time, and the stream the index of references.

| Action | Code (`R/t_stream.c`) |
|---|---|
| `XAdd`, `XTrim`, `XDel`, `XDelEx` | with `streamTrim` (`Trim`), `streamDeleteItem`, and the reference strategies KEEPREF, DELREF and ACKED (`DeleteAs`, `Referenced`) |
| `XAddAbout`, `XTrimAbout` | the same with `~`: the trim stops where a node begins that is left alone, and is propagated with the argument that `streamRewriteTrimArgument` computes (`Rewritten`, `FirstEdges`) |
| `XAck`, `XAckDel` | `xackCommand`, `xackdelCommand` |
| `ReadGroup`, `ReadHistory` | `xreadCommand` with `streamReplyWithRange`: CLAIM, new entries, NOACK, history |
| `XClaim`, `XAutoClaim` | each with what it sends on (`Propagated`, `PropagatedId`) |
| `XGroupCreate`, `XGroupSetId`, `XGroupDestroy`, `XGroupCreateConsumer`, `XGroupDelConsumer` | `xgroupCommand` |
| `Tick` | time |

| Property | Says | Why it could fail |
|---|---|---|
| `GroupsSound` | the four places of a pending entry agree, the list is sorted by time, the cached minimum is the minimum | each command updates all of them, in its own way |
| `LagExact` | a lag that is reported is the number of entries still to be given | tombstones, trims without tombstones, groups set forward and back |
| `ReplicaAgrees` | until it has `drifted`, the replica has the stream and every pending entry with its consumer | reads and claims reach it as XCLAIM and XGROUP SETID, trims with another argument |
| `AckedSafe` | ACKED removes nothing a group has pending or is still to be given | the cached minimum may be old |

Nodes of the radix tree are there only in where a trim may stop: `until` is the first entry of a node that is left alone. An exact trim
stops there with MAXLEN and ACKED only (`ExactStop`), an approximate one anywhere, and the replica's nodes are the master's.

`drifted` is a history: what was propagated was once less than what was done. That happens in two ways.

* DELREF and ACKED do not remove a node whole; they mark its entries. The argument of a MINID `~` trim is then the first entry of the
  first node, marked or not (2394), and of an ACKED one it may also be an entry that stays before others that went. The replica is told
  to keep what the master removed: `StreamTrims`, against the comment at 2392.
* XDELEX with DELREF of an entry that is gone drops the references that are left at the master alone, for it is propagated only if it deletes (4589).

The properties of the master hold beyond that; those of the replica are claimed until then.

## AofLog and KeptLog

A command is its number, a file the sequence of commands that loading it applies. `disk` has the directory, the
contents of the files, what of each is synced, and the directories a loss of power may bring back.

| Action | Code |
|---|---|
| `Write`, `BeforeSleep`, `CronFlush` | a command; `flushAppendOnlyFile` from `beforeSleep` and `serverCron`, with a write that fails or is cut short |
| `BgRewrite`, `BgRewriteOff`, `CronRewrite`, `ChildExits` | `rewriteAppendOnlyFileBackground`, `openNewIncrAofForAppend`, `backgroundRewriteDoneHandler` with its renames, the manifest and the history files |
| `stopAppendOnly`, `startAppendOnly` | CONFIG SET appendonly |
| `BioStep` | `bioProcessBackgroundJobs` |
| `Kill`, `PowerLoss` | a crash at any step of a handler (`Moments`), and `loadAppendOnlyFiles` with `aofOpenIfNeededOnServerStart` |

The faults, any of which may happen wherever its call is made, in any order: a write that fails (the forced flush of a rewrite included), a background or final fsync,
a fork, the child, a rename, the manifest's write, the sync of the directory after the manifest was renamed, the deletion of the history, a kill and a loss of power.

`KeptLog` is the abstract specification: commands are executed, a growing number is
promised, and a crash takes back none of the promised ones. `promised` is what WAITAOF, or with
`always` a reply, has told a client, as far as `Promised` counts it.

| Property | Says | Why it could fail |
|---|---|---|
| `DiskSound` | every directory a crash can leave loads the history, each command once; while the log is on only the buffer is missing; what was promised survives a loss of power now | two renames, the manifest and unlinks, a crash between any two |
| `KeepsPromised` | `KeptLog!Spec`: no promised command is taken back | the background thread publishes an offset for a file that may be closed meanwhile |
| `LogProgress` | a log that is to be turned on does not stay so; what was executed is acknowledged | a failed rewrite has to be scheduled again |

*Fairness:* weak, of the event loop with a second gone by, the background thread, the
end of the child and the cron's rewrite; of the last two, which may be taken whenever they are due and end that, it says that neither stays due for ever, and is
written so. Faults are bounded in number.

The code goes on after some failures that its files do not survive. They are not excluded from the model: the history `lapses` records that
one has happened, `"files"` for those that break what is loaded and `"fsync"` for data that is never synced. After a `"files"` lapse `DiskSound`
claims the types alone, and after either no further answer counts as a promise. What they lead to is shown, by a configuration each in which what the code or its documentation says fails (see Runs):

| Lapse | Code | Configuration |
|---|---|---|
| A rewrite goes on though its forced flush failed: the commands are in the snapshot and in the file behind it | `aof.c` 2619 | `AofFlush` |
| A failed start leaves `aof_fd` set, and a rewrite with the log off takes it for the log being on | 519 | `AofFork` |
| The directory cannot be synced after the rename of the manifest: the server keeps the old manifest, in `openNewIncrAofForAppend` (825) and in `backgroundRewriteDoneHandler`, which unlinks the base file that the new one names (2845) | 594 | `AofDirSync` |
| A kill between the manifest of a rewrite with the log off and the deletion of the history: the next start gives a history file's name to its new file, and deletes it | 745, 2868 | `AofHistory` |
| A failed fsync of the background thread, of which the next empty flush knows nothing; a file that a killed server left unsynced, and that is not the last, which the next one does not sync | `bio.c` 324, `aof.c` 1160, 760 | - |

One case needs no failure. After a rewrite has opened a new file, an empty flush publishes the offset of all that was executed, while the old file's fsync
is still a job (1160): `AofOffset`. The answer then is early. `Promised` counts it when that job is done (`Replaced`), so `KeepsPromised` says
that a promise made at any other time is kept, through loss of power at every step, with `everysec` and two incremental files too.

## Runs

| Run | Instance | Shows |
|---|---|---|
| `task_review` | an employee's my-tasks tab and two managers' all-tasks tabs, 2 tasks, 3 phases of which the first and last are required, 1 file and text, any write may be refused, 4 writing handlers | the properties of review and reassignment, and `ImplementsBoard`; 1.1 million states up to symmetry |
| `task_approvals_stand` | two reviewers and an employee, one task | violated: an approval from an older copy erases another (`workflow.js:321`), where `TO/docs/SYNC_ASYNC_ANALYSIS.md:136` says the sequence "Prevents race conditions in state machine" |
| `group_govern` | 3 users, 2 operations in progress, 6 in all, any call may fail, controls on one's own row | the properties of the group; 215,034 states up to symmetry |
| `direct` | 2 users, 3 conversations, 3 messages, 1 failure | `OneDirect`, `MessagesSound`; 438,000 states |
| `leave` | a form, a manager and an executive, 2 requests of up to 2 days, a balance of 3, 1 failure | `DaysKept`, `BalanceSound`; 1.5 million states |
| `dict` | 4 keys, tables of 1 to 8 buckets, a reader | the four properties of the dictionary; 204,000 states |
| `cluster_election` | 2 replicas, 2 voters, epochs to 3, 1 crash | `OneWinnerPerEpoch`, `ElectionsSound`, `OwnerEpochGrows`, with late, lost and forgotten votes; 1.2 million states up to symmetry |
| `cluster_slots` | 3 masters, a slot with a key | `SlotsSound`, `MastersConverge`; 148,000 states |
| `replication` | 3 servers, 2 writes, a backlog of one, 2 events | the three properties of replication; 879,000 states |
| `transaction` | 2 clients, 2 databases with a key each, loaded from a file, one with a time to live, a further write, queues of one, one client at a time in MULTI, master or replica | the three properties of transactions; 769,000 states up to symmetry |
| `stream` | 2 IDs, trims exact and approximate, and any two of these: a second group, a second consumer of the first, time 1 | the four properties of streams; 44,000 states up to symmetry |
| `aof` | both settings of appendfsync, 2 commands, a rewrite, the log turned off and on once, any 2 faults | `DiskSound`, `KeepsPromised`, `LogProgress`; 367,000 states |

Some properties except what a history names, because the code does not keep them there. That the exception is needed is shown by
a configuration each, which claims what a comment or the documentation says. TLC finds a counterexample within seconds:

| Configuration | Module | Fails | Said at | What the trace shows |
|---|---|---|---|---|
| `ClusterElectionLate` | `MCClusterElection` | `SingleWinner` | `cluster_legacy.c:1749` | a late vote (3293) gives an epoch two winners, without a crash |
| `StreamTrims` | `MCStreamGroup` | `TrimsAgree` | `t_stream.c:2392` | the replica keeps an entry that the master trimmed (2394) |
| `AofOffset` | `MCAofLog` | `OffsetIsSynced` | `server.h:2268`, `aof.c:1154` | an offset is published as fsynced that is not (1160), without a fault |
| `AofHistory` | `MCAofLog` | `HistoryIsHarmless` | `aof.c:2868` | after a rewrite with the log off and a kill, the manifest names a file that is gone (745) |
| `AofFork` | `MCAofLog` | `FdIsTheLast` | `aof.c:517` | after a failed fork, the file kept as the one being written is not (519) |
| `AofFlush` | `MCAofLog` | `IncrFollows` | `redis.conf:1444` | after a failed write, an incremental file repeats the base file (2619) |
| `AofDirSync` | `MCAofLog` | `RollsBack` | `aof.c:796` | after a failed sync of the directory, nothing is rolled back (825) |

*Bounds.* Task workflow: three phases are the fewest for which the service's probe has a phase to
skip, one to find and a last one to jump to. Four writing handlers suffice for a
submission, its approval, a deletion and a stale write over it, and for a request, its review by both managers and a
request on the reassigned task. One file and text make a proof with one part, the other and both, which is
what deletion tells apart. Two tasks let a write reach the wrong one, and one be the reassignment of the other;
`SpareId` keeps an id free for a reassignment under way, since the real table never runs out. Group: three
users are an admin, a second admin and a member on whom they act; six operations
leave, after the creation, room for a promotion, an addition, and three more of which two overlap.
Direct: two conversations are a violation, the third lets half-made ones exist beside it; of three messages
two may cross while one is old. Leave: a balance of 3 and two requests of 2 days need both splits.
Dict: the constants are scaled down (initial table of one bucket, fill of 2, a cursor of 3 bits) so that four
keys cause expansions, shrinks and forced resizes, and their hashes collide; one reader at a time, a SCAN or an iterator.
Elections: two voters and the failed master make a quorum of two, so two winners of an epoch need both voters twice, or late votes; three epochs allow a lost
election, whose votes are late for the next, and one more; a crash is what it takes that a voter forgets, or that a view goes back. `VIEW Seen` leaves out what is on
disk once no crash is left that would read it. Slots: three masters are a source, a target and one who
hears of the move from either; the epochs may grow by collisions and the move, and the messages by two per direction.
Replication: with a backlog of one write the second write trims the first; two events are a switch and a fault, or a
switch and a switch back. Transaction: the keys are loaded with two values, one with a time to live, and one write more replaces either;
two clients are what `touchWatchedKey` visits in order. Stream: two IDs give an entry before and one after a group's last ID, and a trim that takes one and is rewritten to it or to the other; a second group
is behind the first or not, a second consumer has entries claimed from it or claims them, and a time makes them idle or not. The three together are too many states:
`Bounded` allows any two. It stops, too, where the replica has drifted: no property speaks of it then, and what the master does after a drift it does
without one. `VIEW Seen` leaves out a cached minimum that is not valid, which no command reads.
Log: two commands lie on both sides of a flush and a rewrite; two faults are a failure and the crash that meets what it left.
Deadlock checking is off where the bounds stop the system; it is on for the dictionary and the log.
Symmetry is used for sets whose members no definition tells apart, and in no run with liveness.

A property that ends in `Sound` is the type invariant of its module with the named invariants beside it,
which are stated one by one above it.

*Liveness* is claimed for the slots, replication and the log, where a timer or the event loop takes the steps, as said
there. Nothing is claimed of the application: every step is a click, and
nothing in the code makes a person click.

## Proofs

`TaskWorkflow_proofs` proves, for every set of tasks, users, tabs and files, every
number of phases from three on, and every choice of required phases:

* `TypeCorrect`: `Spec => []TypeOK`. The step that is not obvious is that the
  service's next phase stays a phase (`RowPhases`); minima and maxima of
  sets of phases exist because phases are well ordered (`LeastElement`, `FirstLast`).
* `ReviewsHaveProof`, `ApprovalsDecided`, `CompletionsJustified`,
  `AccessApprovedUnlocks`, `CopiesAreSound`: the invariants above.

The properties of the table are not inductive, because a handler writes a
whole column from a copy: the table is sound after the write only if the copy was.
`IInv` is therefore the conjunction of `TypeOK`, the table's properties, `CopiesSound` and, for the files
behind the proof, `FilesSound`. A deletion removes a file from storage first and writes the row afterwards, from a copy; that the row of no other phase
loses its proof by it is because a file is named only in the phase it was uploaded for (`Placed`, by the
history `home`). A deletion under way removes a file its own copy names (`Deleting`), and a row that is not `torn` names
only files that are kept (`NamesKept`). The argument is:

1. `decided` only grows, so what was sound stays so (`MoreDecisions`).
2. A copy is made from a sound row (`OpenSound`) or dropped (`DismissSound`), and a
   sound row stays sound when a row built by one of the handlers is stored
   (`UpdateSound`). `TableSound`, `CopySound` and `RowSound` split
   the invariant row by row (`InvByRows`), so each action needs facts about one row only.
3. The files are apart from that: `FilesWritten` for a row that is stored, `FilesRemoved` for the deletion in storage, `FilesForgotten` for the
   one of the row; `FilesStep` goes through the actions.
4. `InvInit` and `InvStep` give `Init => IInv` and the step; `InvCorrect` combines them.

The action properties follow step by step:

* `AdvancesCarryProof`: `Spec => AdvanceCarriesProof`, from the types alone. Only a submission moves the lifecycle; it stores proof at its
  phase (`SubmittedProof`) and moves on from there, never back (`PhasesForward`). Every other handler writes the
  lifecycle it found (`UpdateStays` against `UpdateMoves`); `AdvanceStep` goes through the actions.
* `ReassignmentsInherit`: `Spec => ReassignmentInherits`, from `IInv`. The inserted row is built from a copy (`ReassignedInherits`), which
  `CopiesSound` ties to the row closed; `ReassignEnds` says that nothing else ends the handler (`ReassignStep`).

The assumptions are the named ones of `TaskWorkflow`: at least three phases,
a task id, tabs with users and pages, required phases a non-empty set, text not a file. TLC evaluates
them in every run.

The refinement is `BoardImplemented`: `Spec => ImplementsBoard`. The mapped
variables get names (`MExists`, `MBoard`, `MCopy`); lemmas say what an `Update` is to the
board (`UpdateUnseen` when the row keeps its entries, `UpdateSeen` when it does
not), and that a handler which puts back its copy with one entry edited is a
`Write` (`WriteSeen`) and one that drops it a `Forget` (`ForgetSeen`). `BoardStep` then
goes through the actions. It needs `TypeOK`, `CopiesSound` for the fact that the
task a tab has open exists, and `FilesSound` for the entry that a deletion finds in its copy.

`Messaging_proofs` proves of `GroupChat`, for every set of users and every number of operations in progress, with
failures and without:

* `TypeCorrect`, `AdminKept`, `MembersDistinct`, `PendingStaysSound`: `TypeOK`, `KeepsAdmin`,
  `DistinctMembers` and `PendingSound` are invariants;
* `AdminsGovern`: `Spec => OnlyAdminsGovern`.

`KeepsAdmin` alone is not inductive: whether a demotion keeps an admin depends on
what its guard found some steps ago. `IInv` says, besides the types, which stage belongs to
which operation (`Shapes`), that operations which bear on one another are not
in progress together unless `raced` (`Apart`), that nothing precedes the enrolment of the
founding members (`Founding`), that those who act on others had the flag
(`Authority`), and, without race and failure, `Governed`: an admin, distinct members, and
for each operation what its guard found (`CallSafe`). The argument is:

1. An operation that starts, moves on or ends keeps the structural parts (`AskStep`, `StageStep`, `EndStep`).
2. A step that leaves the rows alone has only its own `CallSafe` to show (`QuietStep`); each
   write keeps `Governed` for all operations (`AddStep`, `PromoteStep`, `ReduceStep`, `ClearStep`,
   `EnrollStep`). `Apart` is what excludes the operations a write would mislead.
3. `InvInit`, `InvStep` and `InvCorrect` combine them. `AdminsGovern` needs `Authority` and `Shapes` only, so it holds in every race.

The assumptions are that nobody is no user, that at least one operation may be in
progress, and the ranges of the flags and the bound.

Of `DirectChat` it proves, for every set of users, of conversations and every bound on messages and failures,
`ConversationShared` (`OneDirect`) and `MessagesKept` (`MessagesSound`). Each of the three operations has an invariant of
its own beside `TypeOK`, under the condition that it was not disturbed, and the three do not need one another:

* `CreateInv`: one user at a time is creating; who searches has in hand every direct conversation there is, and who
  has gone on to the inserts has found none. The half-made conversations of failed calls have no members, so no later search builds on them.
* `SendInv`: a message inserted and not yet on the index is the last one, and its sender the only one who is sending.
* `DeleteInv`: the list about to be written back is the list that is there.

A step of one operation leaves the others' invariants alone (`CreateQuiet`, `SendQuiet`, `DeleteQuiet`).

`LeaveManagement_proofs` proves, for every finite set of requests, all forms and approvers, and every bound on days and failures,
`BalanceAccounts` (`BalanceSound`) and `DaysAreKept` (`DaysKept`). `Paid` is the number of paid days, counted as a set of pairs, so that the library's
facts about cardinality say how it grows when a request is approved (`PaidGrows`). `BalanceSound` says what was
charged once all is done; inductive is what was charged in the middle of a decision: `AccountInv` says that, while nothing crossed or stopped,
one decision is under way, on a request still pending, and that the charges are ahead of the approvals by what an executive or team lead has
already written to the balance, or behind by what a manager has still to write (`Owed`). `RowInv` ties the days of every copy to
those of the row, which gives `DaysKept` as well, without conditions; `FormInv` and `CallInv` say what a form and a decision hold. It is
assumed that no manager's page is a lead's page: the two write in different orders.

`ClusterElection_proofs` proves, for every finite set of voters, every set of candidates, and every bound on epochs and crashes:

* `EpochHasOneWinner` and `ElectionsAreSound`: `OneWinnerPerEpoch` and `ElectionsSound` are invariants;
* `EpochOfOwnerGrows`: `Spec => OwnerEpochGrows`.

Late votes, votes that are forgotten and views that a crash takes back are in the specification, and nothing is assumed about them. The
count of votes is a number, and says nothing of who voted. `IInv` is `TypeOK` and

* `TallyInv`: for a candidate that is not among `strays`, in an epoch whose votes were not forgotten (`Remembered`), there is a set of voters of the count's
  cardinality, each of whom voted for it in its epoch and whose vote is no longer on its way, so that counting another vote adds another voter (`TallyStep`);
* `VoterInv`: a voter remembers its votes, but those in `forgot`, and has them on disk, but those it has not saved (`VoteKept`); so, unless it forgot, it
  has not voted in an epoch above its `lastVoteEpoch` (`FirstVote`) and votes once;
* `MsgInv`: a vote in the network was cast;
* `ViewInv` and `ClaimsKept`: a view, in memory and on disk, is the start or an election won (`From`), and the one on disk is the same or older
  (`Behind`), which is what a restart goes back to; a winner has its claim on disk;
* `WinnerHasQuorum`: a majority of voters is behind each such winner.

`OneWinner` is the quorum argument: two majorities of one finite set share a voter. It is assumed that there is a voter, and that a candidate is none.

`ClusterSlots_proofs` proves `SlotsAreSound` (`SlotsSound`) for every finite set of masters, every set of keys, every ranking of node names and
all distinct epochs of creation. That keys are not lost (`KeyInv`) depends on who believes to own the slot, that on the epochs, and those on what PINGs and UPDATEs are still under way.
`IInv` has a part for each: `EpochsWellFounded` and `MsgInv` (a view, and a message, is of the past of the node it is about), `OwnerInv` (only
the source and, once told, the target claim the slot, and the target keeps it), `MoveInv` (which flags are set at which step of the
resharding), `CreatedInv` (a cluster being resharded has the epochs it was created with, but for the target's, which is above all others).
That the target's new epoch is the greatest rests on a fact about finite sets (`Greatest`); that epochs do not collide in a created cluster, so that
no one is moved past the target, is `NoCollision`; receiving is split into the epochs, the owner and the keys (`EpochsOfReceived`, `OwnersOfReceived`, `NotTaken`).

`Replication_proofs` proves `StreamsComplete` (`StreamCompletes`) and `IdsNameHistories` (`HistoriesSound`), for every set of servers, every
size of the backlog and every bound on writes and events. Neither property is inductive, since each compares servers with one another,
and a promotion, a restart from an old file or a trimmed backlog changes whom a server may be compared with. The invariant says instead that there is
a history behind every replication ID:

    IInv == \E H \in [Nat -> History] : Sound(H)

A history is a sequence of writes and a base, the writes before its offset 1. `Sound(H)` says that the data of each server, RDB file and cached master
is, at its offset, a beginning of the history of its ID (`Holds`), and below `second` of the history of its second ID (`Had`); that IDs not yet drawn are free (`ServersKnown`); that what a
linked replica has still to read is in its master's backlog (`LinksSound`); that masters have different IDs (`MastersDiffer`); and that a master without a
backlog, which goes on writing without counting, has an ID that nobody else knows (`AloneSound`): that is what lets its history take a new base. The argument is:

1. The witness `H` changes in two places only: a write of a master extends the history of its ID, or replaces it when nobody knows it (`HistoryGrows`,
   `LaterHistory`), and a new ID begins one (`FreshHistory`, `OwnHistory`).
2. Most actions change one server (`OneServer`, `Changes`, `NewRecord`); `FedSound` says what feeding the stream does to the backlog and its
   trimming, `Continued` what a partial resynchronisation may start from.
3. One lemma per action (`WriteStep` to `ExpireBacklogStep`); `StreamCompletesInv` and `HistoriesSoundInv` read the two properties off the histories.

`Keyspace_proofs` has two parts, about the transactions that watch the keys and about the dictionary that holds them.

Of `Transaction` it proves `WatchersAgree` (`WatchersSound`), `RunsOnWhatWasSeenAlways` (`RunsOnWhatWasSeen`) and `NoFalseAlarms` (`NoFalseAlarm`), for every finite set of clients and of
databases, every set of keys, every file and all bounds on writes, queues and transactions. `RunsOnWhatWasSeen` speaks of an EXEC that would run now, and is not inductive: what
a client saw has to be tied to the key for every client that watches, in MULTI or not, and for a flagged watch to an expired key. `IInv` is

* `Good`: the types, every number in the database at most `writes`, the lists of watchers without repetition and in agreement with the clients, and only reads queued at a
  replica; `WatchersSound` follows from it;
* `Sound`: for every key not masked, a client that watches it and is not marked (`Clean`) saw what is there, or, with the flag, saw nothing and the key is expired; and a
  key with a flagged watch that is not expired has no `Clean` watcher.

The argument is:

1. Two loops are folds, that over the watchers of a key and that over a queue. `FoldExists` and `FoldIterates` show, by the least length for which it would fail, that such a
   fold is the last of its iterates; `TouchSound` and `RunQueueSound` then carry a loop invariant from each iterate to the next.
2. The watchers of a key leave its list while the loop goes over it. `Removed` says what `RemoveFirst` leaves, `UnwatchFields` that both ends still agree, `VisitSound` what one
   round does to one client and to no other.
3. `PutSound` is the key lemma: a write keeps `Sound`, but for a key that it masks, and a deletion and a write of a key that was not expired mask none.
   `TouchAllSound` is its counterpart for a flush and a swap, by the cases of `Verdict`.
4. `CallSound` goes through the commands, one lemma per step (`MultiStep` to `WatchStep`) through the actions, and `NextInv` and `Invariance` combine them.

`NoFalseAlarms` is about the other direction, who is told, and needs more of the state. The invariant is `CalmInv == IInv /\ Calm(s, seen)`, where `Calm` says, of masked keys too,

* `Unflagged`: no key that is absent has a watcher with the flag, so that the loop over the watchers of a key that is deleted, or of one that is new, never stops early;
* `Distinct`: no two keys have the same value;
* `Recalls`: a client that was told of nothing saw nothing of a key that it has flagged; saw nothing of one that is absent; or saw a value that no other key has, and the key is there.

The last is what a SWAPDB asks for: it tells the watchers of a key that is there whatever it brings, and what it brings is the other database's key. `Distinct` holds at the start by the assumption
`DistinctFiles` of the module (the value stands for the write it is from, so two keys that were set to equal bytes count as different; of those a swap does tell, in the code as in the model), and `NewCell` says why no write
ends it. `PutCalm` and `TouchAllCalm` are the key lemmas, each showing that the outcome is calm and that whom it told would find a difference (`Warranted`); a command that deletes an expired key first and then
writes tells in two rounds, which `SetKeyCalm` joins. `CallCalm`, `RunQueueCalm` and one lemma per action lead to `NextCalm`.

Of `Dict` it proves, for every finite set of keys, every hash, every number of bits of the cursor and all values of the four tuning constants, its four properties:
`DictTables` (`TablesSound`), `DictCursor` (`CursorAdvances`), `DictIterator` (`IterExact`) and the refinement `DictRefines` (`ImplementsKeyScan`). The difficulty
is SCAN: its cursor is a number that says what has been returned, in tables that may have had any size when it was made. The proof gives each key a place that depends on no size,

    KeyPos(k) == rev[Hash[k] % Pow2[CursorBits]]

the bits of its hash in reverse. A bucket of a table with 2^e of them holds the keys whose place lies in one *block* of `0 .. 2^CursorBits - 1`, of length 2^(CursorBits - e), and a cursor stands for the
places before `rev[cursor]`. Larger tables cut the blocks into smaller ones, so a cursor made for one table means the same for another. The invariant is

    DictIInv == DictSound(dict) /\ ... /\ IterOpen /\ ScanTracks(...)

* `DictSound`: two tables of sizes a power of two, each key in the bucket of its hash and in one table, the counters right, buckets below `rehashidx` empty;
* `ScanTracks`: a key that a SCAN still owes is in the dictionary, and its place is not before the cursor's;
* `IterSound`: a key that a safe iterator still owes is in the rest of its chain, in a later bucket of its table or in the table still to come (`Ahead`), one that it returned is in a bucket or a table it has passed (`Behind`), and
  an iterator in table 1 meets a rehash under way, which it pauses.

The argument is:

1. Arithmetic. `Pow2Is` and `RevBitsIs` show that the recursive functions exist (`WalkExists`, by the least argument for which one would not); `RevTop` and `RevLow` say what reversing does to the two ends of
   a number, `RevRev` that it undoes itself. `MaskedCursor` and `MaskReversed` treat the unused bits the code sets, and `NextCursorIs` concludes that the next cursor is the start of the next block, or 0 after the last.
2. `WalkIs`: the loop over the expansions of a bucket ends, visits exactly the blocks of the larger table from the cursor to the end of the smaller table's block, and leaves the cursor at that end.
3. The tables. A resize starts a rehash or replaces an empty table (`ResizeIs`, `ExpandIs`, `ShrinkIs`). `NewSlotIs` shows that the bucket that a moved key goes to is that of its hash, although a shrinking table masks the old bucket number; then
   `MoveSound`, `RehashOneSound`, `StepIfNeededSound` and, for the rehash of `databasesCron`, `RehashSound`. `FindsIs` and `LookupIs` show that a lookup which takes a step of rehash first still looks in the right buckets (`SteppedServes`), since that step either leaves the key's bucket
   ahead or moves it.
4. `ScanIs`: a call returns all keys whose places lie between the two cursors, on one table or on two. The iterator: `IterResized` (its user may start a rehash), `IterTake`, `NextEntryIs`.
5. One lemma per action (`InsertMoves` to `PolicyMoves`), combined by `NextDict` and `DictInvariant`. The four theorems read the properties off the invariant; for the refinement, `DictSteps` maps an insertion, a deletion and a call of SCAN to the steps of
   `KeyScan`, and all that rehashes or resizes to a stutter.

`StreamGroup_proofs` proves `GroupsAreSound` (`GroupsSound`), `LagIsExact` (`LagExact`), `ReplicaIsTheSame` (`ReplicaAgrees`) and `AckedIsSafe` (`AckedSafe`), for
every set of groups and of consumers and all bounds on IDs and time, with trims exact and approximate. Two streams are to be kept, and what a command does to one group of one of them is a few fields among many, so the
invariant is built of parts that each command touches one at a time:

    IInv == now \in 0 .. MaxTime /\ drifted \in BOOLEAN /\ Good(s, now) /\ Good(Mirror, now) /\ Agree(Mirror, s)

`Mirror` is the replica until it has drifted, and the master itself from then on: what is proved of the master alone
(`GroupsSound` of `s`, `LagExact`, `AckedSafe`) is proved of every state.

`Good` says of a stream that each group is sound (`QSound`: its PEL and the consumers' agree, and the list has each pending ID once, in the order of the times, none later than
now), that the index names exactly the groups that have an ID pending (`RefsSound`), that first, last and counter fit the entries (`EntriesSound`), that the cached minimum is the
minimum while valid (`MinSound`), and `CountSound`: a group's counter plus the entries ahead of it is the stream's, *provided* no tombstone can be ahead of it. That proviso is the one the code tests
before it reports a lag, and why the lag is exact although trims leave no tombstone: they remove from the front, which
moves `first` past every group that could miscount. The argument is:

1. Lists: what `Sorted` gives (`SortedIs`), what `Unlinked` and an insertion leave (`Removed`, `Inserted`), and that the list stays sound (`ListRemoved`, `ListInserted`, `ListUpdated`).
2. One group: `UnpendedSound`, `AssignSound`, `TakenSound`, `MovedSound`. One stream: `OneChanged`, `HeadChanged` and `RecordChanged` say what is left to show when one group changed, so that
   each function of the code has a lemma (`DropSound`, `ClaimSound`, `DeliverSound`, `DeleteAsSound`, `CreateSound` and others).
3. Master and replica: `Alike` is `Agree` with what the ends of a command keep; a function that both execute keeps it (`BothSound`), a claim and a read do by what they propagate (`PropagatedSound`, `ClaimBothSound`, `ReadNextSound`), and
   an approximate trim by its rewritten argument, unless it is `Lost` (`RewrittenAlike`).
4. Six loops are folds: over the entries for a trim and a read, over the list for a claim, over PELs for the others. `Round` is a step of each; as for `Transaction`, `FoldExists` and `FoldIterates` show that the fold is the last of
   its iterates (`TrimLoop` to `DeleteLoop`), and `Climb` carries an invariant of the loop (`TrimmingSound`, `ClaimsSound`, `ReadingSound`, `DeletingSound`) from each to the next.
5. `NextSound` goes through the commands. `AckedIsSafe` follows from the invariant: the cached minimum that a deletion consults is the minimum (`CachedSound`, `Unreferenced`), and what a trim removes was unreferenced in its own round
   (`OnlyAcked`).

*Model-checked only:*

* Liveness: `MastersConverge`, `ReplicasEndEqual`, `LogProgress`. Fairness and ENABLED are beyond the provers at hand.
* `AofLog` (`DiskSound` and `KeepsPromised`). It is not a theorem for all values of the constants: the number of files is a bound of the model. With the 9 files of the run but three rewrites and
  two turns off of the log, there is a state in which the directories a loss of power may bring back hold all of them, and `FreeFile` has no value. A proof needs, first, a count of the files that the old
  directories can hold, and an assumption on `Inodes` that follows from it; then the history that is loaded, which is a fold over files: an induction over data, for which the library's induction theorems cannot be used here.
  It would take an argument by a least counterexample, as `FoldIterates` makes for the loops of `Transaction` and `WalkExists` for the recursive functions of `Dict`.

## What is left out

Of the modelled parts:

* Task workflow: editing of title, dates and priority (`handleSaveEdit`), which changes a due date
  and no other column of the model; issue reporting; the delete handler of
  `AllTasksView`, which no control calls; `approveTaskLegacy` and
  `rejectTaskLegacy`, which nothing calls; `uploadProofAndRequestValidation` of
  `MyTasksPage`, which is unreachable; the overlay's own insert into `task_submissions` and the evidence rows, whose
  failure the handler ignores; the stored procedures the repository does not contain, and row-level security:
  a refused write stands for either.
* Group: renaming, which touches the name alone; the conversation index, poll votes,
  reactions and attachments that a deletion removes on its way; the creation of a second team conversation, which is another instance.
* Leave: dates, reasons, notifications.
* Dict: replacement of values, two-phase unlink, the unsafe iterator and its fingerprint, random sampling, defragmentation, failing allocation.
* Elections: failure detection, delays by rank and offset, manual failover, migration of replicas. Slots: handshake, replicas, shards,
  the slot migration of `cluster_asm.c`.
* Replication: diskless load, the RDB channel, WAIT, FAILOVER, output buffer limits.
* Transactions: access rules that refuse a command inside EXEC, scripts, propagation.
* Streams: XSETID, ENTRIESREAD and LASTID given by a client, delivery counts, idempotent producers, blocking reads, LIMIT, the encoding in
  nodes but for where a trim may stop.
* Log: torn commands, appendfsync no or changed while running, no-appendfsync-on-rewrite, end offsets, a clean SHUTDOWN,
  aof-disable-auto-gc, the upgrade from an old file. A loss of power brings back the directory as it was at some moment since its last sync;
  what a killed server left in the directory is taken to reach the disk before the next one has started, and a restart is followed only where
  the log loads the beginning of the history and no file that the manifest names is missing.

Parts that are not modelled, with what a reading of them shows:

* Two writes of the task pages lose what others did without breaking a property here: from `AllTasksView`, whose copy is not refreshed after
  a submission, the overlay's second submission replaces the first (`TaskDetailOverlay.jsx:348`), and
  it stores proof for a task its own banner shows as locked (267).
  The submission row is written after the task row (`workflow.js:133`); a failure leaves the task advanced without it.
* A group's last admin does leave when two operations cross or the check of `isConversationAdmin` fails
  (`messageService.js:649`, 1034), and two admins may add one user twice (754); the properties of `GroupChat` name both conditions.
  A message deleted for everyone is read and written as `deleteMessageForMe` does it (991).
* The functions `rpc_*leave*.sql`, which no page calls: approval reads the status without locking the row, so two calls deduct
  twice; OVERLAPS leaves the last day out, so leaves may share a boundary day; the balance is read and not
  compared; rejection and management do not look at the status.
* Attendance: `rpc_clock_in.sql:21` checks and then inserts without a lock, and it and clock-out look at today's rows only, so a
  session that is open at midnight is never closed. Payroll: `rpc_generate_monthly_payroll.sql:42` and the form check, then insert,
  and any error of the check counts as no row. Each is one read and one write of one table; a model would say no more than this sentence.
* Task points (`chunk1_schema_and_logic.sql:84`), business hours (`businessHoursUtils.js:89`), the unread count
  (`MessageContext.jsx:169`, 401), the gateway's shared history and confirmations (`unified_server.py:97`, 1970), the alerts of the task monitor
  (`task_monitor.py:97`, 152), announcements, notifications, profiles: single rows, pure functions of dates and text, or memory of one process.
* Redis Sentinel, the next part of the plan. The clients, scripting and modules interface of Redis (buffers, parsing and dispatch of one thread), its data
  types and memory (sequential encodings, with unit tests of their own), and its command line tools, but for the resharding.
* The retrieval, guardrail and language-model servers, stateless over external services.
