# Formal models of kpopper

kpopper keeps a *record* (`GROUNDING.yaml`: facts, judgments, sources) in a project,
with an optional versioned history, and surrounds it with background work: queued
source reports, a watch that compares worktrees, notices to sessions, followups,
contributions that wait for publication. The implementation is the Rust crate
`native/`. There is no server: every actor is a short-lived host process, all of them
share files, and any of them can die between two writes. These modules model the parts
where that matters, check them with TLC and prove their safety with TLAPS.

## The system

| Component (files under `native/src`) | State | Operations | Hard behaviour | What makes it correct |
|---|---|---|---|---|
| Node history publication (`history_node_publication.rs`) | `GROUNDING.yaml`, `.kpopper/history` streams, manifests, evidence files, one journal | prepare, publish, recover, roll back, read | crash after any durable write and in recovery; rival writers; a user's editor takes no lock | a transaction is all there or not at all; nothing reported is lost; edits are kept |
| Ordinary record writer (`legacy_authoring.rs`, `history_transaction_fs.rs`) | record files, writer journal and its replicas | publish, recover, roll back | crash, several directories | before or after images, never a mixture |
| Direct history writer (`direct_history.rs`) | entry, objects, commits, writer journal | publish, recover | crash; a committed operation cannot be taken back | as above |
| Report ingestion (`ingestion_orchestration.rs`, `public_update.rs`) | events, snapshots, envelopes, report journals, receipts, worker lease, locks | capture, worker, process, update, recover | worker dies anywhere, target changes between capture and turn, lease handover | each report is answered, applied at most once, only to what it was about |
| Watch processing (`watch_store.rs`, `watch_compare.rs`) | request, lease, result, config | request, process, status, pause | requests during a comparison, moving worktree, failing passes | a verdict is that of the version it names; every request is answered |
| Watch delivery (`watch_delivery.rs`, `host_hooks.rs`) | session receipt, job with lease | offer, hook, reserve, wait, complete, resume | two channels race, an uncertain send | no finding silenced unsaid, one sender |
| Ingestion delivery (`ingestion_delivery.rs`) | sessions, jobs | capture, release, wait, complete | claims that expire | as watch delivery, for signals of reports |
| Followups, daily review (`followup_store.rs`, `followup_daily.rs`) | one store file with items and claims | claim, renew, finish, recover, refresh, park | expired claims, inputs that changed | one owner per run; a stale run never counts |
| Publisher of contributions (`pending_publication.rs`, `pending_control.rs`) | ledger, publisher state with intent, remote branch, pull request | run, reconcile, push, create | push or creation of unknown outcome | no second pull request, no lost revision |
| Record activation, cancellation (`history_activation.rs`, `history_group_activation.rs`) | each member's record, authority marker, objects and guard; the group's coordinator, `ready`, `cancel` and `complete` files | prepare, publish, recover in two directions, compensate, clean up | crash between members, directions that change, people who edit meanwhile | every member has the same authority |
| Directory locks (`history_transaction_fs.rs`) | open locks | acquire in path order | nested locks of several threads | no deadlock |
| Evaluation, readers, pages, search, export | none shared | - | sequential | functional correctness |

Interaction is by files and locks. `kpop update` and the ingestion worker prepare a
mutation and hand it to the record's writer, whose journal tells everybody that a write
is unfinished; `kpop recover` completes it or takes it back. Hooks read the record,
file watch requests and launch detached processes (`watch _process`, `ingest _worker`)
that nobody waits for; what they store is picked up by later hooks or by a background
agent of the host.

`PROJECT.json` lists all components with their status and each hazard at its line.

## Modules

| Module | Models |
|---|---|
| `NodeHistory` | data of a compact history: manifests, frames, evidence, inventories, what a complete history is |
| `AtomicHistory` | what the publication promises: a history that changes in single steps |
| `NodePublication` | publish, recover, readers, crashes, losses and edits, one action per durable write |
| `NodePublicationProofs` | theorems about it, the refinement of `AtomicHistory` last |
| `LegacyTransaction` | `publish_legacy`, `recover_legacy`, readers and directory locks of the ordinary writer |
| `LegacyProofs` | theorems about it |
| `AtomicRecords` | what the ordinary writer promises: files that change together, in single steps |
| `GroupTransition`, `GroupTransitionProofs` | `history_group_activation.rs` with what it calls: the change of authority of several worktrees' records; theorems |
| `AtomicGroup` | what that change promises: one authority, which changes once |
| `WatchProcessing`, `WatchProcessingProofs` | `watch_store.rs`: request, process; theorems |
| `WatchDelivery`, `WatchDeliveryProofs` | `watch_delivery.rs`, `offer`, the watch hook; theorems |
| `ReportIngestion`, `ReportProofs` | `ingestion_orchestration.rs` with `run_bound` of `public_update.rs` and both writers it uses; theorems |
| `FollowupClaims`, `FollowupProofs` | `followup_store.rs`, `followup_daily.rs`: claims and reviews; theorems |
| `PendingPublication`, `PendingProofs` | `pending_publication.rs`, `pending_control.rs`: the publisher; theorems |
| `MC*` | constants and symmetry for TLC, where a `.cfg` alone cannot state them |

How they fit: `NodePublication` implements `AtomicHistory`, `LegacyTransaction`
implements `AtomicRecords` and `GroupTransition` implements `AtomicGroup`. `ReportIngestion` composes the queue with both writers of a
record and takes the files of one mutation as one image, which is what `LegacyTransaction`
shows of them. Watch processing and delivery meet in the stored result, followups and the
publisher in nothing but the record.

Every definition that translates code is listed in `PROJECT.json` under `map` with its
lines. Definitions introduced by a comment "Variant:" are plausible mistakes: they are
no part of a specification, and `mutants` names the property that each one breaks.

### NodePublication

*State.* `commits`, `stream`, `evid`, `view` and `journal` are the files; a stream is a
set of frames (a frame belongs to a manifest and a subject, `Units` of them so that an
append can be torn); the view is bound to a transaction or to none. `prep` is what a
process keeps of its preparation, and `pc` where it is inside the locked section.
`pre`, `witnessed` and `raced` are history variables; `raced` says that the user saved the
view while some process held the lock, until that process lets it go.

*Actions.* `Prepare` is `prepare_inner`; `PublishCheck` the checks before the journal;
`WriteJournal`, `AppendFrame`, `WriteEvidence`, `WriteImport`, `WriteManifest`,
`ReplaceView`, `FinishPublish` the durable writes of `publish` in its order.
`RecoverCheck` decides the direction by the presence of the manifest; a rollback removes
imports, then the tails of streams, then evidence that did not exist before, then
restores the view; a completion adds what is missing. `Interrupt` stops a process at any
point, which frees the lock; `LoseAddition` removes something the journal names (the
tests of the repository do that); `Edit` is the user's editor, which takes no lock and may
save between any two of these steps.

*Runs.* `node_rivals`: two processes, a transaction in two forms and a union on the same
tip, two subjects, frames of two units, one crash, one loss. The union imports a branch of
two transactions whose frames and evidence overlap with the local ones, so a stale
preparation, a torn tail and a rollback next to somebody else's frames all occur. The run
checks the refinement too. `node_edits`: at most two edits,
two crashes and one loss with a first transaction that imports and a second one on the
edited view, whose only evidence is the edited bytes; safety of edits, and progress. One rival is enough for what the lock orders,
since all that a process keeps outside of it is `prep`; a crash in a publication followed
by one in its recovery is the deepest nesting because recovery starts again from the disk
alone. Edits come at any time, inside the locked section too; what they do there is in
the properties: `EditPreserved` and the view's part of `AllOrNothing` let pass what happens
while `raced`, and nothing else (see Disagreements).

*Fairness.* `Fairness` says that a process which is inside goes on, and that somebody
recovers a pending journal: every command of the tool refuses to write until it is done.

*Not modelled.* The change of the authority file, the legacy journal guard of readers,
the checkpoint cache, size limits, the order of frames inside one stream, the semantic
verifiers that callers hand in, manifests without a view.

### WatchProcessing

*State.* `request`, `lease` (ticks until `active.until`), `result`, `enabled`, the
`content` of the worktree, and the processor's locals. `owed` and `covers` are history
variables: a request waits, and the snapshot in hand was taken after it.

*Actions.* `Request` files a ticket and launches a process unless a lease runs;
`RequestCutShort` saves the lease but launches nothing; `Start`, `NextPass`,
`TakeTicket`, `ApplyShared`, `Observe`, `Recheck`, `Fail`, `SaveResult`, `Finish`,
`GiveUp`, `Leave` are the steps of `process_with` between its locks; `Change` moves the
worktree at any moment.

*Runs.* `watch_processing`: two processes, three tickets, a version with a conflict and
one without, the real number of passes, one death or failure, two changes (so that a
snapshot can change and change back).

*Fairness.* Processes run, the clock advances, and, only for `EveryRequestServed`, the
session's hooks keep asking (`ActiveSpec`). The last assumption is needed: a request that
is filed while the processor gives up or leaves is answered by nobody else.

### WatchDelivery

*State.* The stored `result`, the session's `receipt`, its `job` with `lease`, the one
`hook` that holds the waiters lock and the background `agent`s. Three history variables
keep what became of findings: `told` when the hook has printed or an agent has sent them,
`doubtful` when an agent cannot say whether its message arrived or a hook dies between
saving the receipt and printing, and `held` (below). A failed send leaves no trace in
either of the first two.

*Actions.* `HookStart`, `HookLook`, `HookPoll`, `HookOffer`, `HookPrint` are the hook;
`Reserve`, `WaitStart`, `WaitPoll`, `WaitOffer`, `WaitClaim`, `WaitQuiet`, `Send`,
`Complete`, `Resume` the native job. Steps end where `delivery.lock` is given up;
`CompleteCutShort` and `ResumeCutShort` die inside it, with the receipt saved and the job
not. The hook saves its receipt (`HookOffer`) before its output (`HookPrint`), and
`HookDie` may come between the two: the finding is then on the receipt, nobody has seen it
and it is not offered again in this episode. `ReceiptHonest` and `FindingReachesSession`
except that, and a send of unknown outcome, and nothing else.

*Runs.* `watch_delivery`, safety and liveness: two agents, two jobs, a finding and the
finding of an outage, notices of one finding (so that two that are due at once need two of
them), two results, one failure. A third finding adds nothing but size, and the theorems
say the safety part for any number.

*Fairness.* Hooks keep running and time passes. Nothing is assumed of agents.

### ReportIngestion

*State.* The `record` says for each entry whose write it shows; `writer` is the record's
writer journal with both images; `event`, `snap`, `journal`, `receipt` are the report's
files; `seen` is what calls of capture have read of a report's target while they wait for
`capture.lock`; `lease` is `worker.lease`; `run` is where each worker is. `landed` is a
history variable: the reports whose mutation the record has taken. `store` is chosen in
`Init`: an ordinary record or one with a direct history.

*Actions.* `ReadTarget` is the read that a capture makes before it takes `capture.lock`:
any number of calls about one report may have read, at different times, and others write,
publish and capture before one of them goes on. `Capture` is the rest, under
`capture.lock`, of a new report or the exact retry of one: it stores what some call has
read and gives the report its place in the queue. `CaptureCutShort` leaves
a lease with nobody, or a worker that its lease does not name; `CheckLease`,
`ListEvents`, `NextEvent`, `EndPass`, `HandOver` are `worker` and `process`;
`BindTarget` is `bound_target`; `Answered`, `Retained`, `RefuseUpdate`, `Update`,
`UpdateBlocked` are the ways through `run_bound`, and `UpdateCutShort`, after any of the
writes, its interruption by death or by an error; `RecoverReport`, `RedoReport`,
`RedoOther`, `Resume*`, `Settle` are its recovery, which gives up the record's lock in
between; `Refuse`, `CloseEvent`, `Failed` what `process` makes of the outcome.
`Complete` and `RollBack` are `kpop recover`; `Edit` is any other writer.

*Runs.* `report_ingestion`: two reports about one entry and a second entry, two workers,
two passes of one report (so that a pass ends with work left, and a worker does), an
edit, a death or failure; safety and liveness. `report_refused` shows a disagreement.
Four lease tokens are enough: two processes and the lease can each hold one, and a new
token (a nonce in the code) is none of those. The reports of a pass are a set, `todo`; the
order in which the pass takes them is that of their capture.

*Fairness.* Processes run, time passes, callers retry a report that was not answered
(`INGESTION.md`: "Reuse `event_id` to retry the same envelope safely") and somebody runs
`kpop recover` while a writer journal is there. Without the third a report whose worker
died waits for the next capture: nothing else starts a worker.

*Not modelled.* Node and advanced reports, batches (`updates`, which have no exception
for an earlier report of the queue), `--no-start`, `ingest process` by hand, `kpop
update` of the same event at the same time, policy changes, tampered or private
envelopes, an interruption between the files of one mutation (`LegacyTransaction` has
it), hand edits under a pending
writer journal, reused process ids, signals and acknowledgements.

### LegacyTransaction

*State.* `content` says of each file who wrote what it says; `journal` is the writer
journal beside a record's entry, `guard` the member guards in other directories, `ready`
the markers that all guards are there; `saw` is what an operation's preparation read, its
before images. `held` and `run` are the locks and places of the processes. `landed` is a
history variable: the operations whose files all show them.

*Actions.* `LockDirectory` takes the next directory in path order, shared for readers and
exclusive for the others. `Look` and `Write` read a record (`ReadRefused`, `ReadDone`,
`Prepare`); `Publish`, `PublishRefused`, `WriteJournal`, `WriteGuard`, `WriteReady`,
`Apply`, `Applied`, `RemoveGuard`, `RemoveReady`, `RemoveJournal` are `publish_legacy`,
one action per durable write. `Recover`, `RecoverRefused`, `Cancel`, `RecoverCheck` decide
what `recover_legacy` does in the direction its caller asks for; it then goes through the
same writes. `Die` stops a process anywhere, `Edit` is a person with an editor.

*Refinement.* `logical` is what a file says to those who keep to the rules: an operation
that was begun and not completed has not happened. The last file of `Apply` is the
abstract commit; in a rollback of an operation that has landed the first one is the
abstract `Undo`; `Prepare` is the
abstract `Read` in one moment, which is what locks and fences are for.

*Runs.* `legacy_transaction`: a record of two files in two directories, the second of
which is also a record of its own in another project, so that the project's lock does not
order its writers; an operation on each, two processes, one person, one death.
`OperationEnds` needs both records, since circular waits need two directories and two
paths to them. With a second death the refinement fails where two operations are pending
whose records share a file, which `legacy_overlap` shows to be possible. That is a matter of
what an operation reads, too: with `PendingComesFirst` as an assumption TLC still finds a
publication that only reads a shared file, sees in it what a half undone operation of the
other record had put there, and commits on it. `WriterIsAtomic` is about the rest.

*Fairness.* A process that is not killed goes on, and a lock that is free again and again
is obtained in the end. Nobody has to start or recover anything.

*Not modelled.* How a mutation is prepared, auxiliary journals, hypotheses as files of
their own, torn files (each file is replaced by a rename), re-entrance of locks within one
thread and the refusal of upgrades: the callers modelled here take each directory once. A
person does not bring back by hand exactly the bytes that a pending operation replaces,
and does not edit while the operation is being written.

### GroupTransition

*State.* Of each member `e`: `record[e]` and `authority[e]`, by the image they show (the
one before, the one after, the legacy generation after a cancellation, something else);
whether its history `objects`, its cancellation `receipt` and its local `guard` exist. Of
the group: `coordinator`, `ready`, `cancel` and `complete`, the files beside its first
member. `call` is the call that runs, how it goes about it (`way`) and the member it is at.
`told` and `raced` are history variables: the last answer to a reader, and the members
that were edited since the running call last looked at them.

*Actions.* `Publish`, `RecoverAfter`, `RecoverBefore`, `Compensate`, `CancelUnready`,
`RecoverComplete` are the ways a call begins, each with what it requires of journals and
members. Then one action per durable write, in the code's order: `PutCoordinator`,
`PutGuard`, `PutReady`, `PutCancel`, `PutObjects`, `PutReceipt`, `PutRecord`,
`PutAuthority`, `PutComplete`, `RemoveGuard`, `RemoveReady`, `RemoveCancel`,
`RemoveCoordinator`; and `CheckGuarded`, `CheckTargets`, `CheckFinal`, the looks at all
members between them, which may end the call. `Stop` is a call that dies, or is refused by
something outside the model. `Read` is a reader that opens one member, `Edit` a person with
an editor, or a writer on a member that is not guarded, `Restore` an owner who puts an edit
aside because recovery asks for it.

*Refinement.* The authority of the group is what the proof of completion says, and
the one before as long as there is none; the change is given up from the `cancel` file on.
`PutCancel` is the abstract `GiveUp`, `PutComplete` the abstract `Switch` or `Cancel`. All
the work between is invisible because members are guarded from before the first is changed
until after the proof is written.

*Run.* `group_transition`: three members (a first, a last and one between), both
directions, two edits, three calls that die: a publication, a recovery one way, a recovery
the other way or a cleanup. More deaths lead to no new files, since a call keeps nothing
but files.

*Fairness.* A call that is not stopped goes on. The owner calls some recovery that the
files allow and restores what was edited, as `docs/history-contract.md:606` asks. The
direction is not assumed: `RecoveryEnds` holds whichever is called.

*Not modelled.* The change of a single record, bootstrap and migration; how a candidate is
prepared and verified; members with further directories; several groups prepared at once;
torn files. The state of the project is fixed: if it changes between a death and its
recovery (the publisher of contributions saving `publication.json` is enough), recovery
refuses with `transition_project_changed` in both directions until it is put back. A member
that a cut-short cleanup has released and somebody has then written makes recovery refuse
too; `Restore` stands for the way out.

### PendingPublication

*State.* `ledger` are the captured contributions, `saved` is `publication.json` with its
receipts and the `intent` of the call under way, `job` the publisher that holds the lock
with its copy in memory, `waiting` those that wait for it. The remote is an environment:
`head` of the managed branch, `target`, `prs` by the cycle marker in their text, and
`wire`, the calls whose answer was lost and that may still be carried out.

*Actions.* `Capture`, `Session`, `Withdraw`, `Resume`, `Publish`, `Acquire`, `GiveUp` are
the callers and the lock; `Begin`, `Observe` (head and target before the listing),
`Uncertain`, `SettleStops`, `SettleEnded`, `Settle` (the listing and the intent),
`Reconcile`, `ReconcileStops`, `IdleCycle`, `Prepare`, `Unchanged`, `ProposeUpdate`,
`ProposeNew`, `Finish`, `Close` the cycle; `Pushed`, `PushRefused`, `Updated`, `Created`
its calls and `CallLost`, `ReadFails`, `Die` what may happen to them. `Arrive`, `Merge`,
`CloseRequest`, `Intrude` are the remote, `TimePasses` the end of a backoff or
`kpop pending retry`.

*Runs.* `pending_publication`: two contributions of which one is decided about by its
user, two pull requests, one lost call or death, one publisher that waits. Two cycles in
one automatic run (four in the code) are enough for "something was captured meanwhile".
Four commit names are enough: a new commit takes a name that nobody remembers, and no
property compares a commit with one that is forgotten. The last pull request does not
end, which bounds the history. `publication_stops` shows a disagreement.

*Fairness.* A publisher that is not killed goes on, waiters get a lock that is free, time
passes and sessions are opened. `EveryCaptureProposed` excepts runs that end with the
publisher stopped for good; `StopsForOthersOnly` is about those.

*Not modelled.* Permission and scope, pause, conflicts while a commit is prepared, the
verification of a pushed commit, saves that fail, and that `publish` by hand is refused
after five failures.

### FollowupClaims

*State.* `ledger` is `followups.yaml`: for each followup its state, claim, baseline of
inputs and place in the order of service; the claim of the daily review with the actions
it has reserved. `previous` is the copy that each transaction leaves, `inputs` what the
record says now. `effects` is a history variable: the runs of a followup that somebody
may have acted in and nobody has accounted for.

*Actions.* `Claim` (outside a review), `ClaimNext` (within one: the oldest that is ready,
within the budget), `Finish`, `Recover`, `Refresh`, `Resume`, `Resolve` are the
operations; `StartReview`, `FinishReview`, `RecoverReview` the daily claim; `Restore`
brings the previous ledger back; `Cut` is a transaction that dies between its two files;
`Expire`, `ExpireReview`, `NewDay`, `Change` are time and the record.

*Runs.* `followup_claims`: two followups, one of which may be claimed outside a review
too, two values of their inputs, a budget of one (three in the code) so that the order
matters with two followups, one restoration. Tokens are reused once nobody remembers them;
two for each purpose suffice, one in the ledger and one in its copy.

*Fairness.* A host starts the review every day and its sessions claim what is ready and
come to an end, somebody recovers what was interrupted, and of the runs of each followup
some have an outcome that counts. The last one is needed: `last_admitted`
(`followup_store.rs:1524`) ignores runs that end with the user or are recovered, so a
followup all of whose runs end that way stays first and takes one action of each review.

*Not modelled.* Dates and triggers, maintenance of sources, relocation, the schedule of
the host; when a followup is ready is reduced to its inputs.

## Properties

| Property | Says |
|---|---|
| `QuiescentSound` | without a journal on disk the record is the complete closure of a history with one tip |
| `WitnessedIntact` | what was reported as committed stays on disk, during the rollbacks of others too |
| `ImplementsAtomicHistory` | all of it is one atomic step per transaction |
| `EditPreserved` | a user's bytes are replaced only when retained as evidence, or in a locked section during which they were saved (`raced`) |
| `ReadersServed` | without edits, no crash leaves a view that readers refuse |
| `PendingResolved` | a pending journal is resolved unless the user left a foreign view |
| `VerdictOfItsVersion` | a stored verdict is the one of the version it names |
| `NobodyLeftWaiting` | a processor that stops has answered the last request |
| `EveryRequestServed` | each request is answered while hooks keep asking |
| `ReceiptHonest` | a receipt silences only what was told or is about to be printed, or was lost with a hook that died before its output or in a send of unknown outcome |
| `OneSender` | one agent sends for a job |
| `UncertainHeld` | an uncertain send is not repeated while its receipt stands |
| `FindingReachesSession` | a finding that stays is printed or sent in the end, whatever failed before, with the same two exceptions |
| `TargetBound` | a report changes one entry, and only over an earlier report of the queue or, where no report has written, what its capture read before it had its place there |
| `NeverReapplied` | a report that was written over is not written again |
| `AppliedIsWritten` | with a history, `applied` means that the record took it |
| `WorkIsAwaited` | without deaths, waiting work has a live worker that holds the lease |
| `EveryReportAnswered` | a captured report is answered or waits for a recovery |
| `PartialIsFenced` | no reader can open a half-written record, by whichever of its files |
| `ImplementsAtomicRecords` | an operation reads at one moment and changes all its files at one moment, if nothing it read has changed |
| `OperationEnds` | readers, writers and recoveries never wait in a circle |
| `ImplementsAtomicGroup` | readers of any member are told one authority, which changes once for all; what is given up is not completed, what is cancelled is told to nobody |
| `EditSurvives` | no call overwrites a record that was edited before the call last looked at it |
| `RecoveryEnds` | a group that was begun is completed or given up, wherever calls die |
| `OnePullRequest` | two pull requests are never open at a time |
| `ForeignKept` | no commit of somebody else is overwritten, by a late call either |
| `ProposedIsShown` | what a cycle reports as proposed is in the commit that the open pull request shows |
| `EveryCaptureProposed` | a captured contribution is proposed, accepted or decided about unless the publisher stops for good |
| `RunsAccountedFor` | no followup is handed out over an earlier run that nobody accounts for |
| `ReviewOutlivesItsItems` | no review ends over claims made in its name |
| `CheckedIsCurrent` | a followup counts as checked only against what its inputs are |
| `EveryReadyServed` | no followup stays ready for ever while reviews go on |

`AppliedIsWritten` is stated for histories only. In an ordinary record `kpop recover
--rollback` takes back a publication whose report journal says `committed`, and the
worker that finds this journal then gives an `applied` receipt: the run with both kinds
of record would violate it.

## Disagreements between documents and code

Three have a run that is expected to fail, and an entry under `findings`:

- `report_refused`: a call that fails after the record was published is answered
  `needs_primary`, although its changes are in the record
  (`skills/kpopper/INGESTION.md:27`).
- `legacy_overlap`: a writer looks for the journal of its own record only, so it may
  change a member that a pending operation of another record is about; that operation can
  then neither be completed nor taken back (`docs/history-contract.md:264`).
- `publication_stops`: after a failed push the publisher pushes the kept intent again, goes
  on with the head that it read before, and prepares a second commit against it; the remote
  refuses that one, and from then on every run stops for "an unexpected writer", although
  there was none (`docs/project-modes.md:279`).

Others were met while the modules were written and have no run:

- An edit saved between the comparison of a view and its replacement is overwritten and
  kept nowhere (`docs/history-contract.md:210`); `EditPreserved` lets it
  pass by its disjunct `raced`, and nothing else.
- A watch request filed while the processor gives up or leaves stays queued if nobody asks
  again (`skills/watch/references/compatibility.md:18`); `FairSpec` of `WatchProcessing`
  allows it, `ActiveSpec` does not.
- One failing status call makes the hook replace the receipt that recorded an uncertain
  send, and the finding is told again (`skills/watch/references/compatibility.md:40`);
  `held` is therefore emptied when a report of another episode is consumed.
- A hook that dies between its receipt and its output leaves a finding that the session was
  not told and is not told again in this episode. No document excludes it; the model has
  it, and `doubtful` marks it.
- A contribution that is withdrawn while its push is uncertain is pushed once more with the
  kept intent (`docs/project-modes.md`: "not silently reopened or republished"); the rest
  of the cycle takes it out again.
- The publisher also stops for good when a merge deletes the branch between its look at
  the heads and the listing or the push.

## What is proved

Everything here holds for every value of the constants that satisfies the named
assumptions: any set of processes, transactions, findings, contributions or followups, and
any bound on crashes, losses, edits, jobs, results, pull requests, troubles or
restorations; groups of any size, records of any files in any directories. TLC evaluates the assumptions in every run.

| Module | Theorems |
|---|---|
| `NodePublicationProofs` | `TypeCorrect`, `Invariance`, `QuiescentRecordIsSound`, `WitnessedHistoryIsDurable`, `PublicationIsAllOrNothing`, `JournalHasOneOwner`, `ViewIsBound`, `PublicationRefinesAtomicHistory`, `ReadersAreServed`, `EditsArePreserved` |
| `LegacyProofs` | `LegacyTypes`, `PartialIsAlwaysFenced`, `ReadersSeeWholes`, `WriterIsAtomic`, `DisjointRecordsAreAtomic` |
| `GroupTransitionProofs` | `GroupTypes`, `GroupChangesAsOne`, `EditsSurvive` |
| `WatchProcessingProofs` | `WatchTypes`, `VerdictsNameTheirVersion`, `NobodyIsLeftWaiting` |
| `WatchDeliveryProofs` | `DeliveryTypes`, `OneAgentSends`, `ReceiptsAreHonest`, `UncertainSendsAreHeld` |
| `FollowupProofs` | `FollowupTypes`, `RunsAreAccountedFor`, `ReviewsOutliveItems`, `ChecksAreCurrent` |
| `ReportProofs` | `ShapeAlways`, `ReportTypes`, `LineageAlways`, `AppliedIsAlwaysWritten`, `OrderedAlways`, `ReportsKeepToTheirTarget`, `ReportsAreNeverReapplied`, `WorkIsAlwaysAwaited` |
| `PendingProofs` | `PublisherTypes`, `OnePullRequestOnly`, `ForeignCommitsKept`, `BranchIsOurs`, `ProposalsAreShown` |

Each module has the same shape: an inductive invariant, one lemma per action that it is
kept, a `NextStep` that puts them together, and the theorems.

*Node history.* Assumed: foreign manifests with one name are one manifest, a draft does
not import itself, frames have at least one unit, `Nil` is none of the values. None of the
safety properties is inductive: they speak of states without a journal, and say nothing of
what is on disk while there is one. `IndInv` adds what the disk may be then. `Between(pre,
journal)`: all of the record that the journal was written over, and beyond it only what
the journal names. `Fits(pre, journal)`: that record was sound and the transaction extends
its only tip, so adding all of it gives a sound record again (`AfterSound`) and removing
all of it gives back `pre` (`UndoneWorld`, `DoneWorld`). `PcInv` says what the process
inside the lock has established, `PrepInv` what a preparation may still rely on while
others publish, `WitnessInv` that a witnessed manifest belongs to the record under the
pending transaction, never to the transaction that may be rolled back. The refinement maps
the disk to the record under the journal before its manifest is written, and to that
record with the whole transaction afterwards: `WriteManifest` is the abstract commit,
every other step a stutter or an edit of the view (`StepRefines`), with `ViewInv` for the
view. `PublicationIsAllOrNothing` (a journal goes away with its transaction whole or with
the record as it was), `JournalHasOneOwner` (no publication overwrites another's journal)
and `ViewIsBound` have no run of their own: what they say of the record,
`ImplementsAtomicHistory` checks. `ReadInv` and `EditInv` are what the two properties of
the view need: `Readable`, while nobody has edited, that the view is one of the two that
the journal allows and the right one when the journal goes; `Retained`, that every
transaction started from a view that was committed (which stays so, `BaseGrows`) or has
its bytes as evidence; `Steady`, that the view a process has checked under the lock is
still there when it replaces it. `Steady` holds while `raced` does not
(`RacedUntilReleased`: a save under the lock is remembered until the lock goes, and with
the lock free `Steady` says nothing), so `EditsArePreserved` needs no assumption on when
users save.

*Ordinary writer.* `Exclusion`, `Holds` and `Apart`: two processes that may change
something hold exclusive locks on all directories of their records, so they are about
different files; `Progress` says what each has established by where it is. That is enough
while an operation is fenced. Once its guards are gone or are not yet there
`PartialIsFenced` says that none of its files shows it, and this is not inductive: a later
operation may have read one of these files, and be taken back. `Hidden` therefore says of
each file that what it shows, what that replaced, and so on down, is never the operation
(`Clear`); `Ordered` says the same of what an operation read, `Unborn` that what is not yet
published was read by nobody. No bound on deaths is used, so the fences hold where two
operations on a file are pending too, where `ImplementsAtomicRecords` need not.
`ReadersSeeWholes` is what a reader gets from it, and what makes `Prepare` the abstract
`Read`. For the refinement `RInv` is added: who wrote a file changes it (`WroteOwn`), what
is only read is at the writing as it was at the reading (`Premise`), and a pending
operation that has landed can be told from what it replaced (`Replaced`). `WriterIsAtomic`
is conditional, as it has to be: `[]OneAtATime` says that no two operations are pending
whose records share a file. Then `LogicalOfPending` says what each file of a pending
operation stands for, so one `Apply` shows all of them or takes all back
(`ApplyCommits`), and no other step shows anything but an edit (`RecordsStep`). Of a single
record one operation can be pending, so `DisjointRecordsAreAtomic` has no such condition:
for records that share no file, the usual case, the writer implements `AtomicRecords`
through any number of deaths. Assumed, beyond the shape of the
constants: what an operation changes are members of its record, each once, and `Nil`, hands,
operations and what was read can be told apart.

*Group.* That unguarded members agree is not inductive: it says nothing of members that are
guarded. The invariant says what the group's files stand for. `Undecided`: without marker
and proof no authority was touched. `Fenced`: with the marker and without the proof every
member is guarded. `Decided`: with the proof every member has the authority it names.
`Phases` ties the place of a call to these files, so that each step leads from one of the
three to another one; `Looked` says that what a call is about to overwrite was edited after
its look. `EditsSurvive` follows from `Looked` alone, the refinement from the other parts.
`NextMember` is the lemma about loops over the members.

*Watch processing.* `processor.lock` keeps all but one process out of the steps that use
the shared locals. A verdict in hand is true of what was observed (`DraftTrue`), so what is
stored is (`StoredTrue`), and a reused one was stored before. `Answers`: unless the request
is another one than the ticket in hand, the snapshot covers whoever waits; a process that
stops has just compared the two.

*Watch delivery.* No agent knows a job that was not reserved yet (`JobsKnown`), a reserved
job was waited on by nobody and any other one by at most one agent (`OneWaiter`), so
running a `wait_command` twice yields one sender. `Sender` ties the job on record to what
its agent sends and, unless the send failed, has sent or cannot say (`Ended`); that is what
the receipt of a completed job is honest by. The receipt of the hook is honest by what it
is about to print (`Unprinted`), which its output moves to `told` and its death to
`doubtful`: `Accounted`, the three together, only grows.
`HeldNamed`: what is held is on the receipt, and the receipt is of the result's episode, so
the hook does not offer it; `ClaimsApart`: the agent that may claim the job was offered
nothing that is held now, because its job was reserved after the last one had ended.

*Reports.* Four invariants, one after the other. `Shape` is where a worker may be and what
it has read: `Knows` ties a bound target to the capture or to an earlier report, and
recovery to a retained journal; `Grows`, proved of every step, says that what is known of a
report stays known, so each later argument may lean on it. `Lineage` is about the data.
`Written`: an image (the record, what a journal was prepared over, what the writer journal
would restore) shows only what was written and not taken back. `Journaled`: a report's
journal changes its own entry only, from what it may replace, and was not prepared over
something that can still be taken back. `NoReturn`: what a report replaced is neither in the
record nor in what a rollback of others would restore; so a worker that finds the record
as it was prepared knows that its report did not land, and one that finds the after image
knows that it did. `AppliedIsWritten`, `TargetBound` and `NeverReapplied` are then
read off each step (`Steady`); none is inductive alone. `Ordered`: a report whose capture
found another report's mutation in its target is behind that one in the queue, because
what the record shows of a report has a journal, so that report was captured before the
read, and the reader gets its own place after it. `Attended`: while nothing has
failed at most one worker runs, the lease is its own, and it is there while there is work.
Assumed: reports and edits are different things, no report is called `issue` (what `snap`
says where the capture could not read), a report is about one entry, and there is
always a token that nobody uses. `RefusedIsUntouched` is what a document says, and is
refuted.

*Followups.* `RunsOf`: a followup that waits unclaimed has no run that is unaccounted for,
a live claim has none but its own, and otherwise there is one at most. `finish` keeps it
because only the owner of a live claim reports, `restore` because it leaves all open work
to the user. `ReviewKnown` and `PreviousKnown`: the claims of a review have it beside them,
in the ledger and in the copy that may be restored.

*Publisher.* A call whose answer was lost may be carried out at any later time.
`LateCreation` says of a creation that its intent stays on record and nothing is open until
its pull request is seen, `MarkersSaved` that a marker is saved before it is used,
`RowsCover` that nothing is opened once the pull requests were listed, `MemorySaved` and
`IntentSaved` that memory and disk agree at every call; together `OneOpen`. `OwnHeads`: no
push that was made, kept or lost expects a foreign head, so the lease refuses them all.
`BInv`, on top of these, is about the branch. `OurBranch`: while a pull request is open, or
about to be, the branch is what the receipts name, or the commit of the intent on record,
unless somebody else wrote it. Two facts keep it so: no late push but that one was prepared
over either commit (`LateIsPast`, which needs that each prepared commit is new), and the
branch goes only when its pull request does. `CycleKnows` says what is shown, proposed and
pending at each step; `ProposedIsShown` is read off both.

*Only model-checked.* Liveness: fairness and `ENABLED` are outside what TLAPS can do. And
`ImplementsAtomicRecords` for records that share files while two operations on them are
pending: the run shows it for one death, and with two it is false. No module uses a recursive operator, and no theorem depends
on induction over data.

## Plan

Done: the components above, in the order node history, watch, reports, ordinary writer,
publisher, followups, group transition. Left, in order of what they would add:

1. `IngestionDelivery`, on the lines of `WatchDelivery` with epochs, fed by
   `ReportIngestion`.
2. The change of authority of a single record, bootstrap and migration; members with
   further directories; `GroupTransition` next to a publisher that changes the project.
3. Shared watch reports; `kpop update` of a queued event while the worker handles it; node
   reports on `NodePublication`.
4. The refinement of `LegacyTransaction` for records that share files and a single death,
   which the run shows on its instance.

Runs of one component are merged where their bounds allow, so that the whole suite stays
quick; each run takes well under five minutes.
