# Luminophore Desktop: TLA+ models and proofs

This directory holds the formal specifications of the parts of Luminophore
Desktop in which processes, files and time meet: the change of the settings of
a running session, the boards of windows with their undo, the store of
installed releases, and the trial of a login configuration. TLC checks the
modules on small instances; TLAPS proves the main properties of eight of them
for every instance. Paths are relative to the repository; `L/` stands for
`src/compositor/src/config/luminophore/`, `S/` for
`src/config/luminophore_shell/`, `C/` for `src/compositor/src/luminophore/` and
`R/` for `src/Luminophore-OS/runtime/luminophore_runtime/`.

## The system

Luminophore is a fork of Hyprland (`compositor/`) with a spatial window board,
a GTK Shell in Python (`config/`), and a packaging layer that builds, stages and
selects immutable releases (`Luminophore-OS/`).

| Component | State | Operations | Hard because |
|---|---|---|---|
| Settings coordinator (`L/AsyncJointSettings`) | request, step, pending command, ticket, verdict, question | start, reply, timeout, recover, requireConfirmation, decide | late receipts, failures with unknown outcome, restarts |
| Native participant (`L/SettingsParticipant`, `L/JointSettingsMember`) | phase, revision, confirmed generation, request | prepare, apply, verify, confirm, restore | half-written slots, repeated calls, writes from outside |
| Settings service (`L/SettingsService`) | coordinator and participant, loaded candidate, display trial, recovery | tick (50 ms), request, decide, initialize | two runtimes that throw half way, output hotplug, 15 s question, a Shell that dies |
| Display, input and desktop runtime (`L/MonitorRuntime`, `L/InputRuntime`, `L/DesktopRuntime`) | baseline, candidate, what is in force | prepare, apply, verify, restore | no read back at boot, topology changes |
| Settings directory (`S/settings_store.py`, `L/SettingsGeneration`) | completed, pending, coordinator and request files, generations | prepare, publish, abandon, record_request, bootstrap, recover | crashes between renames and syncs, writers of an old epoch |
| Shell host, worker and participant (`S/settings_service.py`, `S/settings_checkpoint.py`, `S/settings_participant.py`, `S/settings_lease.py`) | session, queued request, receipts, lease, settings in force | apply, session loop, submit, execute | three threads, lost calls and answers, two Shells at a time |
| Spatial board (`C/SpatialModel`, `C/SpatialIndependent`, `C/SpatialPlacementPolicy`, `C/SpatialRestore`) | cells, focus, displaced windows, presentation | the commands of `transactIndependent`, restoreSpatial | windows that push each other, monitors that come and go |
| Spatial history (`C/SpatialHistory`, `C/SpatialHistoryRuntime`, `C/SpatialRuntime`) | entries, cursor, launch groups, receipts, the frame before a resize | record, replay, run, resizeGesture, edit | addresses used again, failing commits, requests that are repeated |
| Spatial grab and editor (`C/SpatialGrab`) | grab generation, target epoch, frame | begin, bindLayout, selectTarget, release | stale frames and topologies |
| Release store (`R/state.py`, `R/installed.py`, `R/package_lifecycle.py`) | releases, record, leases, health evidence | stage, select, rollback, confirm, revoke, session, interactive_session, gc, prepare_removal | processes that race on locks, losses of power |
| Greeter trial (`R/greeter_trial.py`) | configuration, fallback, timer | start, restore, confirm | a failing service manager, killed processes, losses of power |
| Update guardian (`src/Luminophore-OS/update-guardian/`) | queue of transactions, receipts | observe, build, transition, install, resume | crash between pacman and the record |

The pieces of the settings transaction interact like this. A user's change
reaches the Shell host, which records it in the directory and sends `start` to
the compositor. The coordinator, a state machine without I/O, issues one command
at a time: to the store (executed by the Shell's checkpoint worker), to the
native participant (executed by the compositor's own tick) and to the Shell
participant. Receipts travel back over the socket. All of it is tied to an
*epoch* which the compositor writes to the directory when a Shell attaches.

The boards and their history are one thread of the compositor: what makes them
hard is the order of commands, and commits that fail in the middle. Releases and
the greeter trial are processes that meet in locks and files only.

## Modules

| Module | Models |
|---|---|
| `AsyncJointSettings` | the coordinator: one operator per operation, on one record `joint` |
| `AsyncJointProtocol` | the coordinator closed by an environment: store, participants, Shell |
| `SettingsNames` | what the coordinator and the participant call the same thing by: epochs, generations, transaction numbers |
| `SettingsParticipant` | the native participant and the joint member around it |
| `ParticipantCalls` | the participant under arbitrary callers |
| `SettledOnce` | what the participant promises: a request is opened, settled, and kept or undone once |
| `NativeRuntimes` | the display and the input and desktop runtime, as sets of outcomes of each call |
| `SettingsService` | the compositor's half: coordinator, participant and runtimes composed, with the tick, the requests and the environment |
| `ShellSession` | the Shell's half: host, worker thread, participant and lease of several Shells, composed with the coordinator |
| `SettingsStore` | the directory under the writers of both processes, crashes and loss of power |
| `SpatialBoard` | the boards: commands as operators from a desk to a desk or to `Refused` |
| `SpatialHistory` | undo and redo against windows, the pointer and clients |
| `GenerationStore` | the release store under root's operations, sessions and clients |
| `GreeterTrial` | the trial, its timer and its service |
| `AsyncJointProofs`, `ServiceProofs`, `ShellProofs`, `StoreProofs`, `HistoryProofs`, `BoardProofs`, `GenerationProofs`, `GreeterProofs` | theorems about the module of that name; `AsyncJointProofs` also about `ParticipantCalls` |
| `MC...` | instances for TLC |

`SettingsService` and `ShellSession` extend `AsyncJointSettings`, so the
coordinator is the same in both; the first has all of the compositor and of the
Shell only its receipts, the second all of the Shell and of the compositor only
the native receipts. `SettingsStore` has the order of the writes within one
store call, which `ShellSession` takes for one step with three outcomes.

How state and actions correspond to the code:

* `joint` has the fields of `CAsyncJointSettings`. `m_pending` keeps its
  identity and ticket; a receipt is accepted exactly when it names the pending
  command. `Issue`, `RestoreNext`, `Start`, `Timeout`, `Reply*`, `Recover`,
  `RequireConfirmation` and `Decide` are the functions of that name; `Reply` is
  split along the branches of the function. `Dispatch` is the switch of
  `issue()`, `Follows` the part of `reply()` without a choice.
* `native` has the fields of `CSettingsParticipant` and `live`, what its slot
  holds. A snapshot of settings is identified with the generation it comes from;
  `Foreign` stands for anything else, among it a half-written snapshot. The
  phases APPLYING and RESTORING, which only fence reentry within a call, are not
  states of the model: the host serializes the calls on its event loop and the
  adapters are synchronous. `reads` says whether the read back succeeds, so a
  result is OK only if it does and the slot agrees.
* `svc` has the fields of `CSettingsService` that no other variable has. `Tick`
  is one call of `tick()` with all its blocks in their order: the automatic
  revert of the display (`Reverted`), the question (`Questioned`), the timeout
  and at most one native command with its hooks (`NativeExecute`). The code's
  loop of eight steps ends after one native command, because the command that
  follows it is never native. `request()` calls `tick()` before its
  operation and is served whatever that tick did, a decision the coordinator
  refused included; after some requests it calls it again. The first tick and the
  operation are two steps of one call: a `Tick` may set `ticked`, and a request
  needs it and takes it back. Between the two only the clock runs (`Expire`) and
  another process publishes (`EnvPublish`), as the call runs on the event loop.
  The tick after the operation is the next `Tick`.
* Clocks are abstracted: `since` is the start of a 15 s period that `Expire` ends
  at any time, and a command may be found older than 5 s at any tick.
* A runtime call returns the set of its outcomes. `verifyRules` compares only
  connected outputs, which is why two layouts may be told apart only as far as
  the connected outputs show, and why the boot layout may not be in force at all.
* `host[s].at` is the place of a Shell's session in `_session()`, from `attach`
  to `finally`; a call to the compositor is one step or, where the call and its
  answer may be apart, two (`Send`, `Arrives`, `Sent`). `worker[s]` is the
  checkpoint thread: `queued` by `submit()`, `running` between taking the command
  and reporting it. A callback of the GTK thread runs while the session is at
  `gtk` or `boot`. `View` is what every call answers; a session acts on the last
  answer it got (`seen`). `Fault` is taken by whatever goes wrong.
* `SettingsStore` and `GenerationStore` have one entry per file with the values
  it may have after a loss of power (`survives`, `treeAfter`, `stateAfter`), and
  `GreeterTrial` likewise (`configAfter`, `pendingAfter`, and `linkAfter` for the
  link that has the timer started at boot). An operation takes its
  lock with the list of calls it still has to make (`holder.todo`); each call is
  a step, a process may die or fail at any of them, and `PowerLoss` picks a
  surviving value for each file. `_locked()` of the settings store syncs the
  directory before it waits for the lock, hence `Enter` and `Fenced`. `Due` is
  the order in which host and coordinator ask.
* `desk` of `SpatialBoard` has the fields of `SLuminophoreIndependentState` that
  decide where windows are: their places, the focus, the boards that are bound,
  the places displaced windows return to, and what is presented. `Followed` is
  the topology command as a whole: returns, transfers in the order of the code,
  the repair of floating windows and the final check.
* `history` of `SpatialHistory` has the fields of `CLuminophoreSpatialHistory`.
  `Becomes` is a command whose commit succeeds or fails; `Cuts` is what
  `submit()` does to a resize in progress before its own command. `Edit` is a move
  by `edit()`, the editor's way around `submit()`: it cuts nothing short and is not
  recorded while there is a resize. `changed` remembers what was changed like this
  or by the pointer itself since the resize began.

Abstractions a reader should know of:

* The text of commands, receipts and documents, and the validation of documents.
* Temporary files: they are synced before they are renamed. The directories of the
  trial and of its units, and the unit files, are taken to be there durably; the
  link of the timer is not. A settings
  generation appears in one step, where `bootstrap()` writes its five files one by
  one.
* `completed` changes in `SettingsService` only while a PUBLISH command is pending
  and then from the request's base to its candidate, which is what
  `SettingsStore` makes of it. The store may publish after the receipt of a PUBLISH
  timed out, because the command stays pending then.
* `SpatialBoard` leaves out the views and their scrolling: where one would
  decide, any cell of `Near` may be meant. Also left out: meshes, the selected
  output, and the commands no caller submits. `SpatialHistory` knows of a desk
  only a place for each window; windows without a place, the byte limit, the
  bound on closed launches and native fullscreen are left out. `Crowd` stands for
  other clients whose refused requests push receipts out.
* In `GenerationStore` verification of a release is its being whole; lease files
  survive a loss of power; a caller of the record's operations names the revision
  it read. No further process dies after one died between a rename and its
  sync (`interrupted`; see below for what happens then).

## Runs

| Run | Module, configuration | Question |
|---|---|---|
| `coordinator` | `MCAsyncJointProtocol` | Is anything published, compensated or confirmed out of order; are verdicts acknowledged and final? |
| `participant` | `MCParticipantCalls` | Does the participant settle each request once, whatever is called, fails or is written from outside? |
| `service` | `MCSettingsService` | Do store, participant, inputs and display agree after a verdict; is every display change confirmed? |
| `question_ends` | `MCSettingsService`, `MCSettingsLiveness.cfg` | Does a question end without the Shell? |
| `shell` | `MCShellSession`, `MCShellSession.cfg` | Is there one writer at a time, is nothing written twice, is every answer the truth? |
| `shell_answers` | `MCShellSession`, `MCShellAnswers.cfg` | Does every client get an answer? |
| `store` | `MCSettingsStore` | Does the directory survive crashes, old writers and loss of power? |
| `store_durable` | `MCSettingsStore`, `MCSettingsDurable.cfg` | A statement of a comment which the code does not keep; see below. |
| `board` | `MCSpatialBoard` | Does every window have a cell of its own, on a monitor, and come home to it? |
| `history` | `MCSpatialHistory` | Is a request replayed once, a launch undone as one, a resize free of commands? |
| `releases` | `MCGenerationStore` | Is what runs whole, does what is named survive, is a confirmation based on current evidence? |
| `trial` | `MCGreeterTrial.cfg` | Is an unconfirmed login configuration taken back, whatever fails and whatever the power leaves? |

Bounds, and why they are enough:

* `coordinator`: two epochs, three generations, sequences 0 to 2, at most 18
  tickets. A transaction takes at most 14 commands without a failure, and 18
  leave room for a compensation, a recovery or an exhausted counter; two
  sequences give one transaction after another, sequence 0 the refused one.
* `participant`: two epochs, three generations besides the foreign content, and
  sequences 0 to 4, of which 0 is refused: four requests, so that a base that was
  left behind and a request that is repeated after its verdict both occur. The
  growing sequences bound the revisions; any call may be repeated at any time.
* `service`: three generations of which two share a layout and the third changes
  it, two epochs and two sequences: two transactions under one Shell and an
  attachment of another. A view forgets the ticket count, which the limit of 100
  never reaches: a ticket only identifies a command, and the environment answers
  the pending command only. That tickets can run out is the business of
  `coordinator`.
* `question_ends`: no view and no symmetry, since it is temporal; one display
  change under one epoch, with at most 11 tickets.
* `shell`: two Shells, two requests on any base, one fault of any kind and two
  launches, four epochs: one Shell may close, be killed or lose a call while the
  other starts and takes over its transaction. The requests may ask for the same
  settings (`MCEdit`), as a takeover needs, and the second may undo the first.
  `shell_answers`: one Shell, two faults and six epochs, since every failed
  session takes one.
* `store`: two epochs (one hand-over) and three generations, so a pointer may be
  two steps ahead of a journal; symmetric in both. One operation per Shell waits
  at a time because the checkpoint worker is one thread and the host waits for
  it. No bound on the number of operations, failures or losses of power.
* `board`: three windows, three monitors of which any may be there, and any five
  commands, with one desk kept for undo: enough for two windows that left a
  monitor and a third that took a cell, or for a monitor that goes while its
  windows are guests elsewhere. Windows appear in the order of their addresses.
* `history`: two addresses that are used again, one launch, one request that is
  repeated, two entries of history and two replays: trimming, a cursor in the
  middle and a newcomer on a known address all occur.
* `releases`: two releases, a session with one client, three writes of the record
  and one loss of power; a process may die at any call.
* `trial`: one trial after another with four faults, which suffice to fail the
  disarming of one trial and two steps of the next.

`CHECK_DEADLOCK FALSE` is set where the bounds end a behaviour, and because a
Shell that is gone may stay gone.

Fairness: `question_ends` assumes weak fairness of `Tick`, which the event loop's
50 ms timer justifies (`src/compositor/src/Compositor.cpp`), and of `Expire`,
which is time passing. Nothing is assumed of the Shell. `shell_answers` assumes
that the threads of a Shell that lives run (`Session`, `Work`, `Worked`: Python
threads and the GTK loop), that calls which were sent arrive, that the compositor
carries out an attach and its own commands, and that it declines a question
nobody answers, which `question_ends` shows of it. `trial` assumes that a process
with the lock goes on, that a timer that waits fires, and that the service
manager starts its service and retries it as the unit says
(`Restart=on-failure`).

### Where code and text disagree

* `store_durable` (`S/settings_store.py`): a generation directory that exists is
  not synced again, although the attempt that created it may have failed before
  its sync. This one is a run and a finding. The others are known from the models
  and named where a property makes an exception of them:
* A late question (`L/AsyncJointSettings.cpp:169`): the acknowledgement of
  SHELL_VERIFY may arrive after its timeout. It opens the question in state
  UNKNOWN; `recover()` resolves and aborts the transaction and does not withdraw
  the question, so `decide()` is accepted after the verdict.
  `LayoutNeedsAnswer` says what keeps this from doing harm in the compositor: the
  display has been reverted by then and `keep` finds another layout - unless the
  outputs showed the candidate's layout before the trial. While `recover()` has a
  command pending, the service declines the question when its 15 s are over, reverts
  the display and clears the clock, and is refused by the coordinator
  (`L/SettingsService.cpp:266`); the clock starts again at the next tick, and the
  receipts go on to RESOLVE, RESTORE and ABANDON all the while. The tick a `keep`
  begins with may be one of these: `keep` is then accepted with the clock cleared if
  the command of that tick was a restore which failed (state UNKNOWN,
  `restoreFailed`). In `ShellSession`, where
  the native restore may have failed, `keep` then publishes what the Shell has
  already taken back, and its final verification fails for ever (`revived`).
* A candidate that cannot be read (`L/SettingsService.cpp:122`) never reaches the
  member, so the member's flag still belongs to the last transaction; the restore
  is refused as stale, and every recovery repeats it until a Shell attaches.
* A native prepare the participant refuses (`L/SettingsService.cpp:131`) leaves
  the hooks of the previous transaction armed; the abort puts the generation
  before the completed one back into the input runtime. `AbortRestoresPrepared`
  therefore speaks of what was in force before the runtimes were last prepared, and
  not of the base of the transaction.
* A declined display (`L/SettingsService.cpp:267`): `decide(false)` clears the
  clock also if the restore throws, and the tick retries only while it is set.
* A Shell reads the state of the compositor, then takes the lease, then goes by
  what it read (`S/settings_service.py:187`, `:236`): the message there,
  "settings startup requires matching completed generation and idle coordinator",
  speaks of an earlier state. If two Shells attach in one recovery and the first
  dies in the middle of its transaction, the second may start up all the same; and
  if its client asks for the same change, it carries that transaction on, and
  carries out the pending command a second time. `NothingTwice` therefore speaks of
  one Shell; `ToldTheTruth` and `RunsWithCompleted` hold through such a takeover.
* "A verified unchanged completed generation proves this request did not commit"
  (`S/settings_service.py:198`), of a session that finds another request in the
  journal. With two Shells it need not: the session of the first ends after its
  generation g1 was published and before it could answer, the second publishes g0
  again on top of it, and the first, which was asked at g0 and finds g0 completed,
  answers `rolled_back` to a request that was published (a restart before that may
  already have answered `ok`). It takes two faults, one more than the run allows.
  `ToldTheTruth` leaves out such requests (`overtaken`: replaced by the publication
  of another while a Shell had yet to answer them), and holds of all others.
* A request that was taken from the queue when the store could not be read
  (`S/settings_service.py:207`) and is not based on the completed generation stays
  `completion_unknown` until the Shell is started again. `AnsweredInTheEnd` speaks
  of requests for the settings as they are.
* A store command that arrives while the worker is at an earlier one
  (`S/settings_checkpoint.py:111`) ends the session.
* `publish()` that fails before it has removed `pending.json`
  (`S/settings_store.py:259`) makes every later prepare and abandon conflict,
  until an epoch is recovered (`LeftOver`).
* An undo to a desk of other monitors (`C/SpatialRestore.cpp:18`) may put windows
  on boards nobody shows until the next topology command (`astray`). It also brings
  back the places kept for windows to return to (line 142), some of them on monitors
  that are there. A tiled window does not return to such a place once another has
  settled on it, and the place stays kept; made floating, the window is put on it at
  the next topology command in any case (`C/SpatialIndependent.cpp:300`), two windows
  are on one cell, and if a window has still to be moved over, `occupancyState()`
  fails and with it the command: the model keeps the monitors of before, and
  `C/SpatialRuntime.cpp:237` does not look at the result. It takes ten commands, of
  which the run has five; a run along these commands shows it. A desk is therefore
  `astray` until the places it keeps are `Returnable` again, and `OnAMonitor` and
  `HomeAgain` speak of the others; `BoardProofs` shows that there is nothing else to
  except, for any number of commands.
* Two clients that probe the lease of a session at once (`R/installed.py:118`)
  find each other's probe and take it for the session, although the comment at 91
  says that the lease proves the owner: a client may be admitted to a release no
  session holds.
* A process killed between the rename of a release and its sync
  (`R/state.py:112`), followed by a repeated stage, never syncs it; one killed
  between the replacement of the record and its sync, followed by a collection,
  makes the collection trust a record that a loss of power takes back
  (`interrupted`).
* `R/greeter_trial.py:5` says that only a confirmation cancels recovery. A restore
  whose `disable --now` fails after the fallback was removed (111) leaves the
  elapsed timer active; the next trial's `enable --now` does nothing and its check
  passes (99), and its candidate is unguarded until the next boot (`reused`).
* `R/greeter_trial.py:1` calls the rollback "boot-persistent". The copy of the old
  configuration and the candidate are synced with their directories; the link that
  `systemctl enable` makes (99) is synced by nobody, and neither is its removal. A
  loss of power may find the candidate without the link (`unlinked`): no timer is
  started at that boot, and the candidate stays until someone runs `restore`, for
  which the copy is there. `UnconfirmedIsGuarded` and `TrialEnds` leave this out by
  name and hold of every other loss; `FallbackIsKept` says that the copy is there in
  any case, and that nothing but such a loss takes the link. Without the exemption
  TLC finds it, at any loss of power after the switch. A
  removal that is taken back leaves the timer of an ended trial waiting, which the
  next trial finds (`reused`).
* `C/SpatialHistoryRuntime.cpp:93` says that a native change must not become part of a
  resize in progress. A move by `edit()` (`C/SpatialRuntime.cpp:417`), which a
  client may ask for at any time (`luminophorespatialcommit`), does become part of
  it: it does not cut the resize, its own entry is dropped while there is one
  (`C/SpatialHistoryRuntime.cpp:65`), and it is undone with the resize, or taken back
  when a command cuts the resize short. Updates of other floating windows count as
  resizing as well (`C/SpatialRuntime.cpp:605`). `ResizeAlone` therefore speaks of
  what commands open, close and move.
* `confirm()` does not sync a configuration that was replaced by a start killed
  before its sync; `ConfirmedStays` speaks of steps, not of that loss of power.

## Proofs

All of these are proved for all sets and bounds of the constants, from the named
`ASSUME`s of the modules (numbers are natural, special values are not members of
the sets they are added to), which TLC evaluates in every run.

* `AsyncJointProofs`: `TypeOK`, `PublishAfterBothVerified`,
  `NoCompensationAfterPublish`, `ConfirmOnlyPublished`, `VerdictIsAcknowledged` and
  the action property `VerdictIsFinal`. None of the safety invariants is inductive
  by itself. The strengthening `IInv` says of a pending command what must have been
  acknowledged before its step was issued (`Before`), and on which side of the
  publication the store's pointer then is (`Ready`); of an undoing, which of the
  participants touched have acknowledged their restore when so many restores
  remain (`Undoing`, `Undone`); and of an open question or an attempted
  publication that both participants verified (`PublishInv`). That the user has
  agreed where asked is a second, smaller induction on top of it (`UserInv`): as
  long as a question is not answered with keep, the coordinator still requires the
  answer, so a publication goes through `Decide` alone. There is one step
  per action; for `EnvReply` a lemma per branch of `reply()`.
  The second half of the module is about the other end, `ParticipantCalls`:
  `CallsTypeOK`, `NoStaleBase`, `QuiescentHoldsBase`, the action property
  `UnknownOnlyUndone`, and that it implements `SettledOnce` under the mapping stated
  there. Revisions are unbounded in the proofs.
* `ServiceProofs`: `TypeOK`, `CompleteEverywhere`, `AbortRestoresPrepared` and the
  action property `LayoutNeedsAnswer`. `IInv` has four parts. `JointInv` is the coordinator's
  progress: which fields each of its steps presupposes. `BaseInv` relates the
  completed pointer and the participant's confirmed generation to the base and the
  candidate of the request. `RuntimeInv` holds of the runtimes at any time: the
  layout the service compares with is that of the confirmed generation, and a
  display that was reverted shows its baseline or something else altogether
  (`Back`, `Reverts`). What the input runtime believes, and what it read
  back as its way back, is in force or half written (`Believed`). `StepInv` says that the runtimes are prepared for this request while
  the transaction is under way (`Armed`), and from the final verification on that
  the candidate is in force, and that both runtimes are restored before the store
  is asked to abandon (`Restored`). Tickets that have run out (`Spent`) end an epoch and
  are exempt. There is one lemma per native command (`PrepareLanded`,
  `ApplyLanded`, `VerifyLanded`, `RestoreLanded`, `ConfirmLanded`, `FailedLanded`),
  each from one about its hooks, and one per action of the environment.
  `LayoutNeedsAnswer` needs an invariant about the middle of a request besides:
  after its tick a question that is open with no command pending has its clock
  running, or that tick declined it in vain and the restore it then carried out
  failed (`Answerable`).
* `ShellProofs`: types, `OneWriter`, `NothingTwice`, `RunsWithCompleted` and
  `ToldTheTruth`. A session holds the lease from
  `bind` on and gives it up at its end only, and there only when its worker has
  come to rest; `IInv` places every queued or running worker within such a session.
  `TwiceInv` adds what has been carried out: only tickets that were issued
  (`PastInv`); the command a session saw is the pending one or an earlier one, and
  if the Shell has carried it out, it has kept the answer (`SeenInv`, `Acked`); and
  a worker that is still to carry out its command has not done so (`WorkInv`).
  `ViewTwice` is the heart: a session that looks again meets a new ticket, which
  nobody carried out, or one it answers from its receipt.
  `RunsInv` adds what runs. `ProgressInv` relates the fields of the coordinator; it
  moves forward (`Forward`) only when the completed generation is the candidate, and
  is aborted (`Back`) only when it is the base (`CompletedInv`). Of the session that
  transacts, `WayInv` says how far it has come: the settings are those of the base
  until it has begun, confirmed ones are live and completed, and when the coordinator
  is sure that the Shell was restored (`Restored`), they are. `SightInv` says what
  follows from what it last saw, `ReceiptInv` what follows from a receipt before it
  is sent. Answers that were lost, transactions of others (`Later`) and a takeover
  leave all of it in place; between transactions it is the property.
  `TruthInv` adds what is answered. From the client's call until it is recorded a
  request is known to its own Shell only (`Unseen`); while its transaction goes on
  the journal names it, and nobody has answered it (`DoingInv`); the journal always
  explains the completed generation, which is the candidate of its entry exactly
  when that was published, and its base otherwise (`JournalInv`). So the verdict a
  session draws from the completed generation alone is true (`VerdictTrue`), of the
  recorded request by the journal, and of one that is not recorded because what it
  was made for is still completed (`LastInv`), and agrees with every answer given
  before. TLC confirmed `TruthInv` on the run's instance and on one with two faults.
  For the types, what has to be bounded is the number of a transaction: the last one
  plus one, drawn when its request is recorded. `NumberInv` compares it with the
  requests that were recorded or never will be (`Spent`): numbers in the coordinator,
  on their way and in sessions are at most as many, and to record one request spends
  one. So there is a number for every request if there are as many sequences as
  requests (`AskAssumption`; in the code they are of 64 bits).
* `StoreProofs`: types, `HandedOver`, `ReturnedIsDurable`, `JournalExplains`. Only
  `recover()` writes the epoch; who waits for the lock has synced the directory, so
  the completed pointer of a waiting Shell is durable; who holds it is of the epoch
  on disk. From there the invariant follows the calls an operation still has to
  make: when the journal is written the base is durable, when the pointer is
  written the journal is, and `bootstrap()` writes only where nothing is completed,
  no journal survives and no Shell waits.
* `GenerationProofs`: types, `LeasedIsWhole`, `NamedSurvives`, `ConfirmIsCurrent`. The
  invariant has three parts: the lock (whoever changes the tree is alone, and
  spares what is leased at that moment), evidence (a report that would be believed
  was made of the record as it is), and durability (as long as no process died
  between a rename and its sync, what the record names is whole after a loss of
  power, under each record that may be found then).
* `GreeterProofs`: types, `UnconfirmedIsGuarded`, `FallbackIsKept` and the action
  property `ConfirmedStays`. The invariant states for each call that a start, a
  restore or a confirmation still has to make what the timer, the fallback and the
  configuration are, now and after a loss of power (`StartInv`, `RestoreInv`,
  `ConfirmInv`), and that a candidate that may come back finds a fallback
  (`ReturnInv`).
* `HistoryProofs`: types, `AtMostOnce`, `LaunchOnce`, `ResizeAlone` and the action
  property `NewcomersStay`, for any limit of the entries. While a launch is open its
  entry is the last and none of a resize (`OpenInv`), the desk differs from the
  frame before a resize by what was changed without cutting it short (`StartInv`), a request that was carried
  out names a revision that is past (`RequestInv`). `TrimFacts` and `RecordFacts`
  say what `trim()` and `record()` preserve.
* `BoardProofs`: `TypeOK`, `OneWindowPerCell`, `OnAMonitor` and the action property
  `HomeAgain`, for any finite set of windows, any boards and cells, and any number of
  commands. A topology command goes through the windows three times (`Returned`,
  `MovedOver`, `Repair`), each time as a function over the sets of those it has
  dealt with, which takes away the last one of a set and deals with the rest before
  it. `FoldExists` shows that such a function is defined and `SubsetInduction` that
  what survives one more window holds for all; both come from the library's theorem
  that a well-founded relation has minimal elements (`WFMin`), and need no induction
  theorem with an operator as parameter. The three statements that are carried along
  are `Back`, `Over` and `Repaired`: e is the desk d after the windows of S were
  dealt with. `InsertFacts` shows that the chain an insertion pushes ends on a free
  cell, `FreeCellFacts` that there is a free cell no further away than there are
  taken ones.
  `IInv` says that the cells are distinct, that what is presented wide and what is to
  return is placed (`Held`), and, as long as no undo led `astray`, that the boards
  with a monitor are those of the monitors, every window is on one of them
  (`Boarded`), and each kept place is on a board without windows and kept for one
  window only (`Returnable`). Then no window stands in the way of one that returns,
  none that returns pushes another, and the command is not refused
  (`FollowedFacts`): that is what `OnAMonitor` and `HomeAgain` rest on. The history
  is part of the invariant because an undo brings back an earlier desk (`Kept`).
  TLC confirmed `IInv` on the run's instance.

The type invariants of the store, the releases, the trial and the history are
proved and not among the runs' properties; they are lemmas of the rest.

Every invariant and every action property of a passing run is thus stated by a
theorem. Only model-checked is what is temporal: `QuestionEnds`, `TrialEnds` and
`AnsweredInTheEnd`, as liveness under fairness and `ENABLED` are out of the prover's
reach. No module declares a recursive operator.

## Not modelled

* Update guardian: a queue of upstream commits kept in files. Its hazards are listed
  in `PROJECT.json` without a property; `FollowGuardian` would be the next module.
* Spatial grab and editor: fencing of frames by grab, target and topology revision.
* The composition of both halves of the settings transaction: each is checked
  against the same coordinator with the other half as its environment.
* Live picture in picture, display idle controller and the monitor frame
  transaction: sequential tables or timers on one thread, or part of the rendering.
* Projection, fill, resize and mesh: functions over real coordinates without a state
  of their own, which the repository's unit tests check.
* The Hyprland base, the GTK panels, themes and applets, and the legacy
  coordinator of settings: rendering, presentation, I/O, or code kept for its types.
