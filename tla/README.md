# ReminderRelay: a TLA+ verification project

ReminderRelay (Go, macOS) keeps iCloud Reminders lists and Home Assistant (HA)
to-do entities in step. This directory holds TLA+ models of its synchronisation
core, the TLC configurations that check them on small instances, and proofs,
checked by TLAPS, that the central safety properties hold for every instance.
Paths below are relative to the repository (`src/`).

## 1. Inventory

| component | code | state it keeps | operations |
| --- | --- | --- | --- |
| Reconciler | `internal/sync/reconciler.go`, `ha_create.go` | the two snapshots of the pass and its work lists, all local to a pass | `Reconcile` per list: fetch, decide, execute for every tracked row; create on either side what is untracked; publish the summary |
| State database | `internal/state/` | `sync_items` (one row per pair, keyed by reminder UID, HA UID unique), `completion_links` | `UpsertItem`, `DeleteItem`, `GetAllItemsForList`, `SaveCompletionLink`, `IsEmpty` |
| HA adapter | `internal/homeassistant/` | none for items; one WebSocket for the subscription; the attempt of a call | `GetItems`, `AddItem`, `UpdateItem`, `RemoveItem` (each retried), `SubscribeChanges`, `PublishListSummary` |
| Reminders adapter | `internal/reminders/` | none (EventKit keeps it) | `FetchAll`, `Create` with rollback, `Update` with rollover of recurring reminders, `Delete`, `SubscribeChanges` |
| Item model | `internal/model/` | none | projection and content hashes, metadata blocks, frequency labels |
| Engine | `internal/sync/engine.go` | a trigger channel of one slot, a ticker | `Run`, `RunOnce` |
| Bootstrap | `internal/sync/bootstrap.go` | none | match by title, ask, link and create, once, when the database is empty |
| Start-up, configuration, set-up, telemetry, assignment bridge | `cmd/`, `internal/config`, `setup`, `telemetry` | files, counters | wiring and interactive I/O |

How they interact. Both adapters' change callbacks and a six-hour ticker wake the
engine, which runs the reconciler over each mapped list, one pass at a time. A
pass calls EventKit, HA and SQLite sequentially; users edit both sides at any
point of it. Every write of the pass is itself heard as a change. Only the
database survives a crash; launchd restarts the process.

What is hard here, and what makes each part correct:

* *Reconciler.* It decides from two lists read at the start, and acts later. A
  failure or a crash may separate a remote write from its row; `add_item`
  returns no UID and is retried, so the new UID is a set difference over a list
  others write too. Correct means: no task is destroyed unless a user deleted
  it, none is duplicated, conflicts go to iCloud, what HA cannot represent is
  kept, links stay one to one, and everything converges and then rests.
* *Rollover.* Completing a recurring reminder from HA changes three objects and
  two tables in six calls; completion links must lead to tracked pairs.
* *Engine.* Changes are coalesced; a change heard during a pass must cause one
  more pass; a missed WebSocket event must be made up for by the ticker.
* *Bootstrap.* A failure half way leaves a database that is no longer empty; a
  database that users emptied looks like a first run.
* *Several lists.* Reminders are read once for all lists, items and rows list by
  list; reminders move between lists, lists stop resolving, and the
  configuration may change under a database that remembers the old one.
* *Adapters.* Retries of calls that took effect, requests carried out after the
  caller has given up; partial failure inside `Create` and `Update`; assignments
  that cannot be read; conversions that do not round-trip.

`PROJECT.json` lists the hazards line by line, with the properties aimed at each.

## 2. Modules

| module | what it is |
| --- | --- |
| `Reconciler` | the reconcile loop over one list, with both sides, the database, users, failures and crashes |
| `ReconcilerInvariant` | the inductive strengthenings of its safety properties: `IInv`, and `QuietInv` for users who act between passes only |
| `ReconcilerProofs` | the theorems |
| `ReconcilerHistory` | `Reconciler` with a history variable, which tells an edit made in iCloud from what the relay has written there |
| `MCReconciler`, `MCHistory`, `Rec_*.cfg` | TLC instances |
| `Mirror` | the abstract specification: two sets of tasks, the linked pairs, and all the relay may do to them |
| `MirrorProofs`, `RefinementProofs` | what `Mirror` keeps; that `Reconciler` and `Bootstrap` implement it |
| `Lists` | a pass over several lists: which rows, reminders and items belong to which list, moves, lists that do not resolve, changes of the configuration |
| `ListsProofs` | its theorems |
| `MCLists`, `Lists*.cfg` | TLC instances |
| `Call` | the abstract specification of one call to HA: how often it may be carried out |
| `Retry` | the attempt loop with its delays around one HTTP request; implements `Call` |
| `RetryProofs` | its theorems |
| `MCRetry`, `Retry.cfg` | TLC instance |
| `Engine` | when passes run: change streams, the trigger channel, ticker, shutdown, restart |
| `EngineProofs` | its theorems |
| `MCEngine`, `Engine.cfg` | TLC instance |
| `Bootstrap` | the life of a process around the passes: the first-run bootstrap, its failure, refusal and restart; composed with `Reconciler`, whose calls it uses |
| `BootstrapProofs` | its theorems |
| `MCBootstrap`, `Boot*.cfg` | TLC instances |
| `Projection` | one linked pair whose sides do not hold the same: the typed description, due dates, labels, hashes and the merge |
| `ProjectionProofs` | its theorems |
| `MCProjection`, `Projection*.cfg` | TLC instances |

### Reconciler

*State.* `rem` and `ha` are the two sides, as functions from UID to content or
`None`; `db` and `links` are the tables; `remSnap`, `haSnap`, `todo`, `newRem`,
`newHA` are the locals of the pass (`remByUID`, `haByUID`, the tracked rows still
to visit, the unprocessed reminders and items); `cur` and `add` are the arguments
of the sync action and of the `addToHAAndResolveUID` call under way; `pc` names
the next external call.

*Atomicity.* One action is one call leaving the process, with the computation
before it. Users, failures and crashes interleave between actions, which is
where they can interleave with the program. EventKit calls run to completion in
the process; where `Create` and `Update` make two saves (fields, then
completion), the failure between them is an outcome of the action
(`CreateUncompleted`, `WriteFields`). Retries of an idempotent HA call are one
call; `AddItem` is not idempotent and may leave up to `MaxAttempts` copies.

*Outcomes.* Each call succeeds, fails without effect, or fails although it took
effect. A failed item is given up and the pass continues (`NextItem`), as
`Reconcile` collects errors. HA's update and removal of an absent item, and
EventKit's of an absent reminder, are errors.

*Data.* A projection is what both sides can show: `text` (summary, notes, due date,
priority, tags, assignee), the frequency label `freq`, and `done`. A reminder has,
besides, its recurrence `rules`, of which `FrequencyLabel` is all that HA sees. The
pass compares and copies projections, and looks inside them for two things. One is
completion. The other is the frequency: `mergeHAProjection` keeps the rules unless
the item names another simple frequency, and then replaces them by the plain rules
of that name, so that weekdays, intervals and ends are lost. An item that names no
frequency shows `Once`, like one that names it; whether it may change the rules
is then open (`FrequencyEditable`). `ProjectionHash` is taken to be injective. Tags and
assignee, which HA can edit through the description block, are part of `text`:
`mergeHAProjection` copies them as it copies the title. `Projection` looks inside. The
metadata block of older releases is `canon`, present or `None`; it makes `decide`
refresh the item, and identifies an added item.

*Rollover.* What EventKit does when a recurring reminder is completed is not in the
repository. `Advanced` and `Archived` are what `Adapter.Update` and
`resolveArchivedCompletion` expect of it: the reminder goes on to its next occurrence,
with another due date, and the completed one is left under a new UID; that it no
longer recurs is an assumption. `Create` of a completed item that recurs completes
what it has created, so it rolls over, too (`CreateRecurring`); nobody links the
archived occurrence there, and the next pass takes it for a new task.

*Order.* Rows are visited in any order, as are the new items (Go maps and query
order fix none that matters); all rows come before new reminders, and these
before new HA items, as in the code.

*Start.* `Init` is the outcome of a completed bootstrap: pairs linked and in step.
A crash is modelled here only while a row exists; what a restart does with an
empty database is in `Bootstrap`.

*Left out of a pass.* `publishListSummary` reads both sides and publishes a view;
nothing reads it back, so it is part of `EndPass`, whether it succeeds or not.

*History.* Neither the code nor the state can tell an iCloud edit from a difference
between a reminder and its row that the relay has left itself. `edited` of
`ReconcilerHistory` can: it is the set of reminders users have edited since they last
agreed with their row. `HistorySpec` adds it to `Spec` and restricts nothing.

### Mirror

What a user may rely on, without passes, snapshots, calls, failures or contents:
`reminders` and `items` are sets, `pairs` the links. The relay may copy a task when
there is an unlinked one, link what is unlinked, delete the linked half of a
task that is gone, and forget a pair when both halves are. A copy that is
completed and recurs makes a task by recurrence (`CopyRecurring`). `Reconciler` implements
it (`Promise`, at the end of the module) with the refinement mapping

    reminders <- tasks present in rem     pairs  <- the rows of db
    items     <- tasks present in ha      tasks, edits, UIDs as they are

An action that only computes, reads or changes contents maps to a stutter; one
that has an effect and fails maps like one that succeeds. What users do is
counted in `tasks` and `edits` on both levels, so that a deletion by the relay
cannot pass for one by a user. The code it stands for is all of
`reconcileList`, `execute` and `addToHAAndResolveUID`.

### Lists

`Reconciler` has every call of a pass over one list. `Lists` has every list of a
pass, and one action for all that is done for one row or one new task, which
may fail before or after its remote effect.

*State.* `rem` and `ha` say in which list, or entity, a task is; a row has its
list. `remSnap` is `remByUID`, read once for all mapped lists; `haSnap`, `todo`,
`newRem` and `newHA` belong to `cur`, the list being visited. `mapping` is the
configuration, `hidden` the lists that do not resolve, `moved` a history variable:
the reminders moved since the pass read them.

*Actions.* `OpenList` is `reconcileList` up to its loops, or its failure. A row's
reminder is looked for in all lists, its item in this entity only: `ReminderGone`
and `ItemGone` are not symmetric. `CreateInHA` of a reminder that came from another
list gives it an item here and replaces its row, which is keyed by the reminder;
its old item is then unlinked, and imported by a later pass as a new task.
That copy is what the code does; `CopiesBounded` says it happens once per move.
Every `add_item` that lost its response has added an item (`Candidates`), and a user
may have added one in between: with more than one new item none gets a row, and
later passes import them all, and add another one for the reminder. So a failure
counts twice in `CopiesBounded`.
`PublishSummary` fetches the list again and looks up each reminder's row. `Remap`
is a restart with another configuration, written by set-up or by hand.

*Left out.* Contents, and the rollover (`Reconciler` has both); the grouping of a
summary by assignee and tag, which nothing reads back.

### Call and Retry

`Retry` is one call: `Retry` and `backoffDelay` of `retry.go` around the request that
`haClientWrapper` makes. `late` counts the requests given up, by cancellation or
because the connection broke, that HA may still carry out. The context may be
cancelled at any time, HA may answer, refuse or stay silent. Delays are in ticks; with
the few attempts of this program they come nowhere near the width of a duration.

*Link to the reconciler.* `Call` says that what is asked for `limit` times is
carried out at most that often, and at least once when the caller is told so.
`Reconciler` assumes that of `AddItem` with `MaxAttempts`. Requests carried out after
the call has returned are not in `Reconciler`: for one that adds, a user's addition
looks the same, for one that updates or removes, a user's edit or deletion.

### Engine

*State.* `unread` is the set of sides of lists that users changed since a pass
last read them, `taken` those the running pass has read and not yet handled.
`notified`, `wire` and `subs` are the signals under way: EventKit's, the events
HA has sent, the entities HA sends events for. `slot` is the channel `triggers`
with the reason it holds, `tick` is `ticker.C`, `conn` and `backoff` belong to
`SubscribeChanges`, and `pc`, `todo`, `cur` place `Run` in its loop or in a pass.
`unsettled` counts the passes over a list that may still find a difference, `refused`
are the lists with an item whose assignee iCloud refuses.
`missed` is a history variable: changes made while HA was not subscribed, lost with
a connection, or left by a failed pass.

*Actions.* The two goroutines receive a signal and offer a trigger in one step
(they share nothing but the channel). A pass is one `FetchAll` for all lists, then for each list, in
any order as Go ranges over a map, `GetItems` and `Reconcile`: what the pass
decides is the business of `Reconciler`, here it may write (`Writes`) to either side if
it has read a change, and in the `Settling` passes after that, which bring the
sides in step; and to iCloud whenever an item has an assignee that iCloud refuses,
as `Adapter.Update` saves the fields before it fails. Sides in step are left alone:
that is `NoChurn` of `Reconciler`. All writes are announced like anybody's. Items
have assignees in `Shared` lists only. After cancellation calls fail. `select` chooses
among the ready cases at random. Home Assistant and the network are external:
HA may accept or refuse a subscription, events are coalesced per list, HA is not
assumed to send anything on subscription, and a connection may be dead for a
while before the read fails (`Sever`, `Notice`). A crash or the end of `Run`
loses everything volatile; launchd starts the process again.

*Link to the reconciler.* That two passes after the one that read a change are enough
(`Settling`) is `InStep` of `Projection`: three in all. `FairSpec` of `Reconciler` assumes that passes go on. In
`Engine` every change is handled in the end (`PushSuffices`, `RecoveryHandlesAll`), and
the ticker alone starts passes for ever.

### Bootstrap

*State.* `boot` is where a process stands: at its start, matching (which includes
the prompt), executing, failed and about to exit, or over, with the engine
running. `listed` is the order in which `GetItems` returned the items,
`unvisited` the reminders `matchByTitle` has still to look at, `match` its pairs.
`allowed` is a history variable: this process found rows, or was told yes.
Everything else is `Reconciler`'s: the bootstrap makes the same calls.

*Actions.* `FetchReminders` and `FetchItems` are `FetchAll` and `GetItems` over an
empty database, so `newRem` and `newHA` start as all of both sides and end up
as `remOnly` and `haOnly`. The loop of `matchByTitle` is one action per
reminder, in any order, as EventKit's is unknown; the items keep one order, as
it decides which of two namesakes is taken. `Agree` and `Decline` are the answer
to the prompt; the end of stdin is a no, so `Decline` is always
possible. `LinkMatched` refreshes a matched item and leaves the row to `SaveRow`; what is
on one side only goes through `Create`, the reconciler's creations. The order is
the code's: pairs, reminders, items. A call that returns to the loop without a new
row has failed (`Failed`), and the next step is `Exit`. `Restart` is a death or a
stop at any step; then only both sides and the database remain. Titles are
compared with `SameTitle`, a constant: the case-insensitive comparison is any
relation on texts.

*After it.* `Passes` are the reconciler's steps. They may leave the database empty
(users delete everything), and a restart then begins with the prompt again.
`DaemonInit` is a process that is past its start: it found rows, or linked some.

### Projection

`Reconciler` compares and copies projections whole. This module looks inside
them, for one pair, with users acting between passes only.

*Data.* A reminder has notes (which may have spaces around them), a due time in
hours, a priority, tags, an assignee and a set of recurrence rules with a
frequency, an interval and `native`, the rest of a rule. A description is the set
of keys of its YAML mapping, their values, and whether those decode; without keys
it is a text with a priority prefix. HA's due date is a date or a time. Order and
letter case of tags and names, titles, completion and the metadata block of older
releases are left out. The users' choices (`RuleSets`, `Documents`, `Instants`) are
constants.

*Operators.* `EncodeHADescription`, `formatDue`, `haItem` (with
`HAProjectionFields` and `HAProjectionFrequency`, which parse the description once
more), `FrequencyLabel`, `ProjectionHash` and `mergeHAProjection` are the functions
of these names; `haItem` is `haItemToModelItem` with `DecodeHADescription`.

*Actions.* A pass is one step with four outcomes: `DoNothing`, `UpdateHA`,
`UpdateRem`, and `AssigneeRefused`, where `Adapter.Update` has written the fields
when iCloud finds that the assignee is not in the shared list. `touched` and
`quiet` are history variables.

*Unreadable assignments.* The assignment is read with a call of its own, which
`FetchAll` and `Update` make independently and treat as "none" when it fails.
`UnreadPass` has both failures: `UnreadFetch`, where the pass works with a reminder
that looks unassigned (`unread`), and `UnreadUpdate`, where `updateAssignment` leaves
iCloud's assignee alone but HA is told there is none. The properties that concern
one undisturbed pass are about `Pass`; `UnreadKept` is about these.

*Zone.* EventKit's binding is not in the repository, so neither is the zone of the
dates it returns: `Zone` is a constant. `formatDue` looks for midnight in that
zone, `parseDue` reads a date in UTC; where they differ a reminder due at midnight
is moved, by the pass that follows its first publication, to midnight UTC
(`Normal`), and stays there.

*Link to the reconciler.* There, a side in step with its row stays in step
(`NoChurn`). Here that takes up to three passes (`InStep`), after which what HA
shows reads as what iCloud holds, which is what `Reconciler` assumes.

## 3. Runs

| run | asks |
| --- | --- |
| `Rec_races` | two tasks, users at every point of a pass, a failed or lost call, duplicate additions, items with the old metadata block: the full inductive invariant, no echo, and the implementation of `Mirror`, hence one-to-one links and no destroyed task |
| `Rec_rollover` | recurring reminders: completion links lead to tracked pairs and rows are dropped last, through concurrent edits, failures and crashes; once those stop everything converges |
| `Rec_quiet` | users between passes only, a call may fail or the process crash: iCloud wins conflicts, recurrence rules survive every HA edit but one that names another frequency, HA edits are lost only to iCloud edits until something has failed, a pass over two sides in step writes nothing, without a failure nothing is duplicated; and the invariants these rest on |
| `Boot` | from any two lists: the bootstrap links all that it read, one to one and in step, writes nothing unasked, destroys nothing, and after failures, refusals and restarts everything converges |
| `Projection` | any typed, plain or malformed description: passes change nothing unasked, HA's edits survive the echo, omitted keys keep what iCloud has, conversions settle; the types hold with unreadable assignments too |
| `Lists` | two mapped lists and one unmapped, moves, deletions, a hidden list, a failed action, a lost response or a crash: deletions follow users, copies are bounded by their causes, summaries name items of their list, and everything ends up linked where it is |
| `Retry` | up to four attempts, refusals, broken connections, cancellation, late or no answers: a call implements `Call`, and it returns if it is cancelled or its requests end |
| `Engine` | no wake-up is lost; push alone handles every change that could be announced, the ticker the rest; the subscription comes back; shutdown ends; and the relay, which hears its own writes, does not wake itself for ever, unless a refused assignee stays |

Four runs are expected to find a violation; each is a statement of the
repository that the code does not keep:

| run | what TLC shows | the statement |
| --- | --- | --- |
| `Boot_unattended` | users delete the only task and add another; the daemon is restarted before that is linked, and goes from the unanswered prompt to the next restart for ever | "SQLite tracks sync metadata so resuming after a restart is safe" (`README.md:23`) |
| `Projection_malformed` | `Tags: outside`, a text where a list belongs, clears the reminder's tags | "Malformed or manually removed metadata is treated as absent" (`metadata.go:61`) |
| `Projection_unread` | a fetch cannot read an assignment just made in iCloud, so the pass sees no change there; HA's item differs in something else, and the update of that pass can read it: the assignee is removed in iCloud | "could not inspect reminder assignment; leaving it unchanged" (`reminders/adapter.go:255`) |
| `Lists_remapped` | a list gets another entity; the next pass deletes every reminder it had | "nothing is written until you type **y**" (`README.md:76`) |

What the code does, and no property here demands otherwise, though a reader of
`README.md:13-25` may expect it:

* With `Concurrent = TRUE` in `Rec_quiet.cfg`, `RulesKept`, `ICloudWins` and
  `HAEditsPropagate` fail: an edit, or recurrence rules, that change while a pass
  runs can be put back to what the pass had read, on either side.
* After a failed completion, echo or row, the relay's own write looks like an edit
  made in iCloud: the rest of that HA edit, or the next one, is undone, though nobody
  edited the reminder. That is why `HAEditsPropagate` ends with the first failure;
  `HAEditsNeverLost` does not, and fails in place of the properties of `Rec_quiet.cfg`.
* An item that names another simple frequency replaces the recurrence, weekdays and
  ends included.
* An item whose assignee iCloud refuses is tried again in every pass, and each try
  saves the reminder first. If EventKit announces these saves, the passes do not
  end (`Settles` assumes that such an item does not stay).
* Deletions are decided before hashes are compared: a reminder edited in iCloud
  is deleted when its HA copy was removed.
* A failure or crash between a creation and its row leaves a copy, which later
  passes take for a new task, and a lost response of `add_item` two; they add no
  more than these (`CopiesBounded`; `NoDuplicatesUnfailed` says that, in one list and
  with users quiet during a pass, nothing else duplicates).
* `matchByTitle` looks up metadata and title of one reminder before the next, so
  an item may be taken, by title, from the reminder its metadata name.
* A mapping that gives two lists one entity passes `Validate`, and the two lists take
  each other's items for new in every pass: with `Mappings <- Shared` in
  `Lists.cfg`, `CopiesBounded` fails. So it does when a list is dropped and its entity
  given to another list.

The copilot instructions
(`.github/copilot-instructions.md:5`) still describe last-write-wins; the code
and the README agree that iCloud wins.

*Bounds.* `MaxTasks`, `MaxEdits`, `MaxFaults` and `MaxCrashes` bound how often the
environment acts, `MaxAttempts` the copies of one addition. Two tasks are the least that
can confuse links, and one task with two edits the least that conflicts; every
hazard involves at most two tasks, two edits and one or two failures, and each
run takes the combination its question needs. Passes are unbounded: the relay
goes on for ever in every run. `MaxUIDs` is large enough for every creation the
other bounds allow. Two `Texts` are enough to differ; runs that need no
text conflict take one, where a change is a completion. Values of the constants are
in the `.cfg` files.

`Rec_quiet` has three kinds of rules, two of which HA cannot tell apart, and
`OneField`: a user changes one field of a task at a time, so a conflict takes two
edits. `OneFailure`, in `Rec_rollover` too, allows one failed call or one crash.
`Symmetry` permutes the two texts; it is used for safety only.

`Engine` runs with two lists, so that a pass can read one while the other
changes; one of them is shared, so that iCloud can refuse an assignee there. Two user
changes and one failure of any kind; recovery ticks are not bounded. `Settling` is 2,
the passes that `InStep` allows after the one that read the change.

`Boot` starts from every distribution of at most three tasks over the two sides
and of two titles over the tasks (`SmallInit` fixes only the first reminder's): three
are the least where a namesake can take what another reminder was to have, with
one left over, and two titles the least where both sides have tasks to create on
the other. One item may name the first reminder; all tasks are open at first.
`CallsUndisturbed`, an action constraint, lets users act before a start, while
the prompt waits and between passes, with open tasks of the first title; edits between two calls of one
`execute` or pass are the matter of `Rec_races`. `MaxFaults` bounds failures and
restarts together, so each behaviour has one of either, at any step. The theorems
below have none of these restrictions.

`Projection` starts from a reminder with padded notes, a priority and a tag, due at
midnight or never (`SmallInit`), with each of four recurrences, assigned or not.
Two edits, of either side, with 163 descriptions: one of each side is a
conflict, two of HA's meet an echo. EventKit is six hours behind UTC there,
which is where due times move. Priority and notes, which the merge treats
alike, come and go together. With `Enough = 2` TLC finds a pair that needs
the third pass: iCloud refuses the assignee of an item that also got a due
time at midnight, the next pass publishes what was written, the third moves it.

`Lists` starts from every linked distribution of at most two tasks over two lists,
each with its entity; the third list is not mapped, so that a move can leave
the mapping. `TwoTroubles` allows two of: a move, a deletion or hidden list, a
failed action, lost response or crash (of these, two as well), with three attempts of
`add_item`: no hazard combines more. `MaxUIDs` is one more than `CopiesBounded`
allows, so a copy without a cause would be handed out and seen.
`Lists_remapped` needs one list and one task.

`Retry` has the three attempts of `defaultMaxAttempts`, one more, and none, which
fails without a call. With `BaseDelay = 2` the second delay is below the cap of 5
and the third above it.

*Reduction.* `InOrder` hands out UIDs in the order 1, 2, 3…: a UID not yet issued
occurs nowhere in the state, so every behaviour is one of these with UIDs
renamed, and the properties do not depend on the names. It is used as a
CONSTRAINT, in the runs of `Lists` too; states it cuts are renamings of states it keeps.

*Fairness.* `FairSpec` assumes `WF_vars(Relay)`: the relay goes on making passes.
The ticker of the engine and the change callbacks start a pass, and launchd
(`KeepAlive`) restarts a dead process. It also assumes that HA answers, or the
connection breaks: the HTTP clients have no timeout, so a call that HA accepts and
never answers holds the pass until the process is stopped. `Returns` of `Retry` is
exactly that: there, only the relay's own steps are fair. Nothing is assumed
of users, and nothing of failures but that they are finitely many: with
`Converges` a failed call is made again by a later pass. Every bounded run ends up with
the environment at rest, so `Converges` there says that from every state that
users, failures and crashes can leave behind, both sides come into step for good.

`FairSpec` of `Lists` adds `WF_vars(Show)`: a list that does not resolve is found again.
Until it is, no pass does anything.

`Running` of `Bootstrap` assumes weak fairness of the process, which launchd or the
user starts again, with a refusal as good as any other step; and, where someone
attends the prompt, strong fairness of `Agree`: they are asked again and again
and agree in the end. Without it nothing has to be synchronised, and under
launchd nobody attends (`Boot_unattended` sets `Attended` to `FALSE`).

`PushSpec` of `Engine` assumes weak fairness of each goroutine's steps, of HA
answering and delivering, of noticing a dead connection (TCP keep-alive) and of
launchd, and strong fairness of the two cases of `select` that may be ready
again and again, which its random choice justifies. It does not assume a tick:
`PushSuffices` holds without one. Only `RecoveryHandlesAll` adds the ticker, as
the hypothesis `Ticks`.

## 4. Proofs

`ReconcilerProofs` proves, for all values of the constants that satisfy
`ConstantsAssumption`:

| theorem | statement |
| --- | --- |
| `Invariant` | `Spec => []IInv` |
| `TypeCorrect` | `Spec => []TypeOK` |
| `LinksStayInjective` | `Spec => []LinksInjective` |
| `NothingEchoed` | `Spec => []NoEcho` |
| `LinksResolve` | `Spec => []CompletionLinksResolve` |
| `OnlyUsersDelete` | `Spec => DeletionsMirrorUsers` |
| `ForgottenOnlyWhenGone` | `Spec => LinksForgottenLast` |

The argument is one inductive invariant, `IInv`, with a lemma per action. Its parts:

* `Shape`: what `cur`, `add` and the work lists hold at each `pc`; without it the
  updates of a later call could not be typed.
* `Issued`: every UID anywhere in the state has been issued. UIDs are not reused,
  so a fresh one is unlinked; this is what makes creations safe.
* `Injective`: the unique index, as a fact about the rows.
* `StillNew`: what was new when the pass began is so still. Holds because only
  the item in work gets a row, and it has left the work lists.
* `CurrentRow`: the item in work has its row, or is new on both sides; so
  `SaveRow` never clashes.
* `AddedRow`: nothing linked, or waiting to be imported, is a candidate for the
  UID of an added item. It rests on `before` being a superset of what is linked
  *and present*, and on absent items staying absent.
* `GoneIsGone`: what a snapshot lacks is gone in the world, for rows still to be
  visited: stale snapshots err only towards presence. Deletions rest on it.

What is deduced: the two action properties follow from `IInv` and the step, as
a deletion is only decided for a row whose other copy the snapshot lacks.

While users act between passes only, more holds. The theorems below have the
hypothesis `Concurrent = FALSE`, which is that of `Rec_quiet`: without it an edit made
while a pass runs can be lost (section 3), and an item added then can be taken for
the one the relay adds. Failures and crashes are as frequent as before.

| theorem, for `Concurrent = FALSE` | statement |
| --- | --- |
| `QuietInvariant` | `Spec => []QuietInv` |
| `NoTaskOfItsOwn` | `Spec => []NoDuplicatesUnfailed` |
| `ICloudNeverLoses` | `Spec => ICloudWins` |
| `RulesSurvive` | `Spec => RulesKept` |
| `EditsAreKnown` | `HistorySpec => []EditsKnown` |
| `HAEditsSurvive` | `HistorySpec => HAEditsPropagate` |
| `PassInStepIsSilent` | `Spec => NoChurn` |

`QuietInv` is inductive together with `IInv`; again there is a lemma per action.

* `ReadIsCurrent`: the snapshots show what is still to be visited or created as it
  is. A call only writes to the row in work, and that row has left the work lists;
  `Injective` is what makes its item nobody else's.
* `WorkIsCurrent`: the reminder in work, or being added, shows what the pass is about to store, and
  until the echo its item shows the edit that is carried over; the list taken before
  an addition is the list at the addition, so exactly one candidate is left.
* `CopiesCounted`: unless something failed, the items ever issued on one side and the
  tasks of the other that wait to be copied to it are together no more than the tasks
  ever made. A creation takes one task off the waiting ones, a user's task, or an
  archived occurrence, is one more of both.

`EditsKnown` is inductive on top of that: until something fails, a reminder differs
from its row only if a user has edited it (`edited`), or while it is in work; `SaveRow`
then closes the difference. So when `decide` finds a reminder changed and pushes it over an HA
edit, there was an iCloud edit, and `HAEditsPropagate` follows.

The properties of conflicts say which content a write replaces (`ReminderWritten`,
`ItemWritten`): `decide` has compared the snapshots, and they are the present.
`NoChurn` is that `decide` finds nothing to do where both sides are in step; the one
write that may be under way then rewrites a row with what it holds.

`RefinementProofs` proves, for all constants, that the relay keeps the promise of
`Mirror`, and `MirrorProofs` what that is worth:

| theorem | statement |
| --- | --- |
| `RelayKeepsPromise` | `Spec => Mirrors` |
| `BootKeepsPromise` | `BootSpec => Mirrors` |
| `DaemonKeepsPromise` | `DaemonSpec => Mirrors` |
| `PromiseIsOneToOne` | `Spec => [](TypeOK /\ Known /\ OneToOne)` in `Mirror` |

Initial states map to initial states; each action maps to one of `Mirror` or a
stutter, from `IInv`: `CurrentRow` and `StillNew` make a creation one of something
unlinked, `Injective` and `AddedRow` make `SaveRow` a new link, `GoneIsGone` makes a
deletion a mirrored one. A lemma per action, as for the invariant. The bootstrap's
own steps are `BootInv`'s.

`ListsProofs` proves, for any lists, entities, mappings and bounds:

| theorem | statement |
| --- | --- |
| `ListsInvariant` | `ReconfiguredSpec => []ListsInv` |
| `ListsInvariantKept` | `Spec => []ListsInv` |
| `OnlyMirroredDeletions` | `Spec => DeletionsMirrored` |
| `SummariesResolve` | `Spec => SummaryResolves` |
| `CopiesHaveCauses` | `Distinct` implies `Spec => []CopiesBounded` |

`RowInItsEntity` is what makes looking for an item in one entity safe: a row's item
never leaves the entity of the row's list. It holds only while the mapping does
(`remaps = 0`), which is where `Lists_remapped` breaks. `GoneIsGone` is about rows of
lists still to be visited, since the reminders are read long before their rows;
`Covered` says that a visited list accounts for every reminder it was read with,
which is why a summary finds a row of this list.

`CopiesHaveCauses` is a count (`CountInv`), over any number of lists, tasks, moves,
attempts and failures: the items ever issued, those still owed to a reminder (`ItemsOwed`: it has
no row, or one of another list, or one the pass will drop), and the copies that a
stale snapshot will make in vain (`MovedOn`, `Ghosts`) are together no more than the
tasks, moves, deletions and twice the failures so far; likewise for reminders. Each action of
the relay takes off one count what it adds to another. `Distinct` says that no two
lists of a configuration share an entity; `Validate` does not demand that, and without
it the statement is false (section 3).

`RetryProofs` proves, for any numbers of attempts and any delays:

| theorem | statement |
| --- | --- |
| `RetryInvariant` | `Spec => []RetryInv` |
| `RetryKeepsPromise` | `Spec => Implements` |

`RetryInv` counts requests by attempts, and what is performed, under way or given
up by requests; the delays play no part in it.

`EngineProofs` proves, for any set of lists and any bounds:

| theorem | statement |
| --- | --- |
| `EngineTyped` | `Spec => []TypeOK` |
| `WakeUpsKept` | `Spec => []NoWakeUpLost` |

`NoWakeUpLost` is inductive as it stands, given the types: each action that takes
away one announcement (a signal read, a trigger received, a connection lost, a pass
given up) puts another in its place, or records the change as missed. What passes
write plays no part in it (`SidesStep` is about its types only).

`BootstrapProofs` proves, for any two lists, any `SameTitle` and any bounds:

| theorem | statement |
| --- | --- |
| `BootInvariant` | `BootSpec => []BootInv` |
| `DaemonInvariant` | `DaemonSpec => []BootInv` |
| `BootLinksInjective` | `BootSpec => []LinksInjective` |
| `SuccessLinksAll` | `BootSpec => AllLinked` |
| `SuccessIsInStep` | `BootSpec => LinkedInStep` |
| `NothingUnasked` | `BootSpec => AskedFirst` |
| `BootOnlyUsersDelete` | `BootSpec => DeletionsMirrorUsers` |

`BootInv` adds to `IInv`, which the bootstrap's own steps keep as well, where the
calls stand in each phase (`Phases`), that matched pairs are one to one and
disjoint from rows and work lists (`Matched`: without it a link could clash
with another), and that everything read has a row, a match, a place in a work
list or is in work (`Accounted`). When the lists are empty only rows are left,
which is `AllLinked`. `LinkedSoFar` says that, unless users edit, the reminders stay as
they were read, so what is written to an item, and then to the row, is what its
reminder shows, and that no later link touches the pair; this is `LinkedInStep` once
the bootstrap is over. The steps of passes and users are `InvariantStep` of
`ReconcilerProofs`.

`ProjectionProofs` proves, for any notes, tags, people, recurrences, documents,
due times and any zone:

| theorem | statement |
| --- | --- |
| `TypeCorrect` | `Spec => []TypeOK` |
| `NothingUnasked` | `Spec => Unasked` |
| `EditedFieldsSurvive` | `Spec => EditsSurvive` |
| `OmittedFieldsKept` | `Spec => OmittedKept` |
| `TypeCorrectUnread` | `UnreadSpec => []TypeOK` |
| `ThreePassesSettle` | `Spec => []InStep` |
| `ThreePassesSettleUnread` | `UnreadSpec => []InStep` |

`NothingUnasked` rests on the lemma `RoundTrip` (a reminder written and read back
loses nothing HA shows) and on the invariant `PInv`: as long as no user of
HA edits the item, it is the encoding of *some* reminder with the row's hash, or
reads as that hash. Of some, not of the present one, as that may have been edited
since; but then the pass writes to HA.

`ThreePassesSettle` follows the pair through the passes since the last edit
(`Settling`): the first one leaves it settled, published, or with an edit taken over
but for an assignee that iCloud refuses (`Taken`); the second one publishes in the
last case; the third finds what it would write already there. It rests on three
lemmas about the conversions: a second trip of a reminder through HA changes
nothing that the first has not (`NormalTwice`, `NormalEcho`), and merging the same
item twice is merging it once (`MergedTwice`).

Left to TLC: all liveness (`Converges`, `Returns`, and the temporal properties of
`Engine`), which is out of the prover's reach, as `ENABLED` is; and the four
violations. Every invariant and action property that a passing run checks is a
theorem.

## 5. Plan

Done: the reconciler over one list and its abstract promise, passes over several
lists, the engine, the bootstrap, the projection of one pair, the retried call,
their invariants and proofs. What could follow:

1. **Several lists in the bootstrap**: `matchByTitle` keeps lists apart; the order in
   which lists are executed, and what a failure in one leaves of the others.
2. **Adapter details**: `resolveArchivedCompletion`, which identifies the archived
   occurrence of a completed recurring reminder by title and day; the rollback of `Create`.
3. **Summary**: the grouping of `publishListSummary` by assignee and tag.
4. **Two processes**: the daemon beside a run of `sync-once`.

## 6. Not modelled

Interactive set-up, but for the mapping it changes; configuration parsing, logging
and telemetry: sequential I/O whose results nothing in the core reads back. The
Objective-C assignment bridge, but for its refusals and failed reads: calls into a
private framework. Two relays at once (`sync-once`, or set-up, beside the daemon):
every module has one process, which nothing in the code enforces.
`ReconcileEntity`: exported, never called. Parts that could follow are listed above
and, with their status, in `PROJECT.json`.
