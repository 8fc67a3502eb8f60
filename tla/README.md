# Verification of yordam

yordam is a terminal coding agent: a user's turn asks a model provider, the model asks for tools, some of which change
files, and everything that happened is kept in durable session journals that several processes may open at once. This
directory holds TLA+ models of the parts of it whose correctness depends on the order of steps, the TLC runs that check
them on small instances, and the proofs of what holds on every instance.

    tlc -workers 2 -config Turn.cfg MCTurn.tla        # a run: module and .cfg as in PROJECT.json
    tlapm Turn_proofs.tla                             # a proof module

`PROJECT.json` lists the components, runs, theorems and hazards, the source lines behind every definition, and for every
property a mutated definition that breaks it. Paths below are relative to `src/internal/` unless they begin with `docs/`.

## 1. The system

| Component | State | Operations | Talks to |
|---|---|---|---|
| Session journal, `session/jsonl` (batch, journal, range, recovery_v2) | `events.jsonl` (event lines closed by a commit marker), `metadata.json`, recovery manifests, quarantined tails; per process the markers whose sync is uncertain | AppendBatch, Inspect, ReadRange, LookupTransaction, RecoverSession | callers in every process, through `journal.lock` |
| Session catalog, `session/jsonl` (store, rootfs, control, lineage) | the workspace directory, `sessions/`, staging directories, `workspace.lock` | EnsureWorkspaceControl, Create, CreateWithIdentity, List | bootstrap, session switches, child sessions |
| Workspace control journal, `session/jsonl/control.go` | one journal for all the sessions of a workspace | activation, recovery attempts, settings, skill decisions, pure commands | RunControl, RecoverTurn, every process |
| Turn lease, `session/jsonl/lease.go` | `turn.lock` (flock), the active turn found in the journal | AcquireTurnLease, AcquireTurnRecoveryLease, Release, Abandon | turn orchestration, recovery |
| Operation lane, `orchestrator/lane.go`, `managed_lease.go` | one slot and a FIFO of waiters | Acquire, release, Yield, Release | every operation of a process |
| Turn orchestration, `orchestrator/service.go` | `turnState`: known head, active activity, flags; the durable activities | RunTurn and its deferred terminalization, RunControl | provider, tools, authorization, journal, broker |
| Turn recovery, `orchestrator/recovery.go`, `app/bootstrap.go` | none of its own | RecoverTurn, reconcileWaitingSubagents | journals, lease |
| Event broker, `app/broker.go` | subscriptions: queue, cursor, wake channel; process epoch | Snapshot, SnapshotAndSubscribe, Subscribe, PublishCommitted, PublishTransient, RotateEpoch, Next, Close | publishers after their commits, clients |
| Application loop, `app/app.go` | the running operation, its events, the shown prompts, selected session, mode and model | commands, prompts, reload, session switches, shutdown | runtime generations, orchestration, terminal |
| Runtime generations, `app/runtime_support.go`, `secret/registry.go` | counts of leases, streams and users; the kept secrets | Build, Acquire, AcquireExisting, Close, Retire | the loop, providers, tools |
| Authorization, `authorization` | committed decisions, dispatched tokens, handles, revocations | Issue, Dispatch, Revoke | orchestration, tools |
| Permission policy, `permission` | per session: mode, acknowledgement of shells, grants | ResolvePolicy, EvaluateAuthorization, registration of child sessions | authorization, control, loop |
| Edit tool, `tools/edit`, `tooling` | the target file, temporaries, planned actions | preview, mutation, revalidation, exchange, validation, rollback | workspace, authorization |
| Compaction, `orchestrator/compaction.go`, `compaction` | activities, commands and ranges in the journal | RunCompaction, compactWithinTurn, selection of a range | journal, provider, lane |
| Context planner, `context` | none | projection of a session into provider messages | journal, compaction |
| Subagent handoff, `orchestrator/subagent.go`, `child_coordinator.go`, `subagent` | child session, receipt, attachment | RunChild, attachment, Reconcile | lane (Yield), two journals |
| Evidence, artifacts, recovery containers, saved configuration | content-addressed and named files, temporaries | Put, PutBlob, aliases, adoption, save | the file system, other processes |
| Tools, providers, skills, event codec, TUI, CLI | see `components` in `PROJECT.json` | | |

What is hard, and what makes each part correct:

* **Journal.** Every write, sync and rename may fail or be the last before a death or a power loss. An acknowledged
  transaction survives, a denied one never appears, no interruption makes a journal unusable, and a recovery drops no
  byte it has not quarantined.
* **Catalog and stores.** Creation is a staged rename or a link; the rename is visible before it is durable, another
  process may find it, adopt it, or clean what it believes abandoned. Nothing half made is visible, what was promised is
  durable, nobody's work is removed under him.
* **Lane.** Waiters give up while the slot is being handed to them, and a lease lends its slot away. One owner, no lost
  slot, nobody waits for ever.
* **Turn and recovery.** Several processes, an append that commits but is reported unknown, a lock that disappears on
  cancellation, an effect that has happened before its result is durable. No effect twice, none outside a durably
  started activity, ends that stand and say the truth, and an accepted turn is eventually ended by somebody.
* **Control.** A command has records in one journal and its consequence in another. Each command runs once, its terminal
  agrees with the session, and an interrupted recovery never blocks the next.
* **Broker.** Commits do not take its mutex, heads are read one after the other, queues overflow, clients reconnect. No
  gap and no duplicate between snapshot, catch-up and publication, no lost wake-up.
* **Application loop.** One goroutine serves the user, one operation and a bounded consumer. Answers reach the request
  they were given for, a runtime outlives what uses it, settings agree, and what is told to stop ends.
* **Edits.** The file changes between preview, exchange and rollback. Only the previewed version is ever destroyed,
  outcomes tell the truth, and a revocation meets the dispatch.
* **Compaction.** A range must split no exchange, in a context that other turns extend meanwhile. Requests can always be
  planned, nothing is summarised twice, and a command says what the journal holds.
* **Handoff.** Two journals and a lent slot. No child runs twice, no result is invented, every turn ends.
* **Policy.** Modes, grants and acknowledgements change, are replayed and are inherited. What reaches outside was asked
  for.

## 2. Modules

Modules `MC*` only give the constants their values for TLC; modules `*_proofs` hold theorems.

### Journal, JournalLog, MCJournal, Journal_proofs

`Journal` has one `pc` per process (the store's keyed lock lets one operation of a process run at a time). A file is a
sequence of lines with a synced prefix; a directory is a record of names with a second copy that is on stable storage;
`PowerLoss` keeps a prefix of each file no shorter than what was synced, and either directory. `AppendBatch` is
`BeginAppend`, `WriteEvents`, `SyncEvents`, `WriteMarker`, `SyncMarker`, `WriteMetadata`, `FinishAppend`; the readers are
`BeginRead`... `FinishInspect`, `FinishLookup`, `FailRead`; `RecoverSession` runs from `BeginRecovery` (or
`ResumeRecovery`, `RepairCommitted`) through `PersistManifest`, `Quarantine`, `BuildCandidate`, `Activate` and its
diagnostic append. `Fail` is an error before an effect, at any step. `uncertain` is the set of markers a process failed to
sync, tied to the file they are in. The abstract specification `JournalLog` (a log that only grows at its end, with final
answers) is implemented by the durable lines, which `ImplementsLog` checks with `INSTANCE ... WITH log <- DurableLog`.

Abstractions: session journals only; the event lines of a transaction are one line; caller transaction IDs are fresh;
expected-head conflicts and other early returns are stutters; a failed sync may be repeated; what is lost of a file is
always a suffix; temporaries of metadata and manifests are folded into their rename; inspection that finds a clean prefix
is read-only. The verified-scan cache and the index are left out: they are accelerators that are checked before use.

### Catalog, MCCatalog (proofs in App_proofs)

The workspace directory and its `sessions` directory, each with its durable copy, and the flock between processes. A
call is `EnsureWorkspaceControl` (with which every process starts), a create, or a list, each from its first step to its
last: identity lock, flock (cancellable), cleaning of `.tmp` entries, `workspace.json`, the two directories, the control
journal with its staging, reconciliation of abandoned stagings, the search for a reserved identity, the check of the
lineage up to `maxLineageDepth`, staging, writing, rename, sync. A step may fail, a process may die, and the power may
go off; a directory then holds what was durable and any part of the rest. The directory of the workspace and its lock
file exist, and no append runs beside the calls. Cleaning and its sync (`session/jsonl/rootfs.go:956-957`) are one step.
A create that is cancelled at the rename of the control journal leaves the directory unsynchronised, though the code's
cleanup would synchronise it (`session/jsonl/control.go:57-59`): the model allows more power losses than there are.

### Publication, MCPublication, Publication_proofs

One algorithm with four uses: evidence (a blob, then its record, then the alias of a migrated artifact), artifacts of a
session, recovery containers, the saved configuration. They differ in their locks, in whether an existing file is adopted,
and in what is synchronised when; `Begin` chooses the use by `store`, which does not change in a behaviour. `loose` notes
that a sync of a directory failed behind a link. The directories are there. Any number of processes may use a store;
what two processes do to one evidence store is told in section 6, and the run and two of the theorems keep to one there.
The lock is one store's in the code (`evidence/store.go:95`), and every generation of a runtime builds a store of its own
(`app/runtime.go:550`); the model gives a process one, and two stores of a process are to each other what those of two
processes are. Where a call found or adopted what it did not synchronise, the model lets it return without a promise;
the code returns success (section 6).

### Control, MCControl, Control_proofs

A record per transaction of the control journal and of the selected session's, an operation per process and the head it
expects next. `Start`, `Inspect`, `Identify` and `EnterRecovery` are bootstrap: activation, then a recovery attempt
whose identity is computed from the attempts found in the history. `AskSetting` and `AskTrust` are the commands; `Plan`,
`Decide`, `StartOperation`, `ChangeSetting` or `RecoverStorage` and `CloseTurn`, `Finish` and `Terminalise` are
RunControl and the control side of RecoverTurn. Every append is done, done but not published, done without the caller
learning of it, lost (with or without a torn tail), or refused for its head. `Other` is any other commit to one of the
journals. A turn of the session is one flag, and its steps and lease are the matter of Turn; the settings that a command
line overrides at start are not separate commands.

### Lane

`lane.mu` makes every operation one step: `held`, `waiters` and the waiters already granted but not yet running. A
waiter may give up at any moment, also when the grant is on its way; `Yield` lends the slot and takes it back under a
timeout of five seconds after which the operation goes on without ("stranded"), which differs from the comment in
`managed_lease.go:12` only in the error it reports. A Yield that races the Release of its own lease has no caller. Lane
has no run of its own: Compaction and Handoff extend it and check it with the operations that use it. What is proved of
it by itself is in Handoff_proofs, which carries it over to the operations of Handoff.

### Turn, MCTurn, Turn_proofs

One session and its durable `journal`: turns, activities with their status, tool results, a torn tail. `me[p]` is the
operation of process p, its `pc` the place in RunTurn (`provider`, `intents`, `preview`, `mutate`, `checkpoint`,
`revalidate`, `authorize`, `asking`, ..., `running`, `ending`, `verify`, `finish`), in the deferred
`terminalizeTurnFailure` ("failing"), or in RecoverTurn (`r-...`). An append is one step with four outcomes: committed,
nothing, a torn tail, or committed and reported unknown. Which head a process knows is abstracted to `drift`: nothing was
committed behind it, one acknowledgement, or something else. `DropLease` is the goroutine that gives `turn.lock` back as
soon as the context is cancelled. `ran` records the effects that took place.

Abstractions: a failed publication is a commit followed by the end of the turn; planning and the readiness of a
checkpoint are one append; the turn's lock is free when RunTurn leaves, whatever Release reports; call IDs are distinct
within a turn; other writers of the journal (settings, control operations) are `Acknowledge` and `ForeignCommit`.
Compaction inside a turn and subagents have modules of their own. Effects are waited for on cancellation only where the
code does (the tool's Execute, not a preview or a provider stream).

### Effects, MCEffects, Effects_proofs

Edits of one file from preview to outcome, beside other programs and other processes that write it. A version is a file
with its content. `PreparePreview`, `PlanMutation`, `Revalidate` and `Run` are the tool service, `Issue`, `Revoke`,
`Cancel` and `Dispatch` the authorization with its one-use decision and the hook of the execution, `Lock` ... `Cleanup`
the edit: verification of hash and identity, temporary, exchange, validation of what came out of the exchange, rollback,
and removal. The lock of a target is one process's. Any system call may fail. `lost` holds the versions that no name has
any more, `tainted` those around a rollback that failed or met a third version.

### Generations, App, MCApp, App_proofs

`Generations` has the registry of secrets (leases, streams, retirement) and the lifecycle of a runtime (users,
retirement, open stores); every step is under one mutex, and `Lease.Close` has two. `App` extends it with the loop of
`App.Run`: commands (`StartTurn`, `Compact`, `ReloadConfig`, `CancelTurn`, `Shutdown`, `ResolvePermission`,
`AcknowledgeAutoShell`, `ChangeMode`, `ChangeModel`, `OpenSession`, `NewSession`), events and results of one operation, prompts with their
pending requests, the bounded queue to the terminal with its reserved place for terminal events, and the completion of a
reload. A setting is applied in three steps (commit, wait for the lane, apply), any of which may fail, and so is an
acknowledgement of automatic shells (`CommitAcknowledgement`), which answers the prompt it was given with afterwards; a
turn or a compaction that works keeps the lane from both (`LaneFree`). The events an operation leaves behind are drained
in front of its terminal, which has a place of its own (`Room`). The operation
itself is acquisition, work under leases and streams, approvals, and an end.

### Compaction, ContextPlan, MCCompaction (proofs in Effects_proofs)

`ContextPlan` translates the planner and the selector as operators on a sequence of events with their positions:
grouping into exchanges, budget, the summary a request resolves to, the first cutoff that leaves the recent suffix and
splits no exchange, the start behind earlier summaries, and the range the input limit allows. `Compaction` runs them:
turns of this process (with rounds, calls, approvals that lend the lane, failures), `/compact` from acceptance to its
terminal with every append committed, committed but unpublished, refused or unknown, compaction within a turn, a turn of
another process, a stop and the recovery after it. Every source has size one, and input bytes are counted in events; an
append of a turn fails or succeeds, and that one of them is reported unknown is the matter of Turn. A Put that stored the summary and then fails counts as one
that stored nothing: what it leaves behind is evidence that no event names.

### Handoff, MCHandoff, Handoff_proofs

The parent's journal (`log`), the journal of each child (`kid`), the process that runs a turn or recovers one (`me`), and
the lane of `Lane` with other operations on it. Live: request, lend the slot, create the child once, run it, take the slot
back, verify the receipt, attach. Recovery: replay the log with the projector of `internal/subagent` (`Replayable`), find
what is waiting, end or attach each, resume an interrupted parent, end its turn. A child without a manifest is passed over
(`SkipUnproven`); the terminal that the code tries to append to such a child's journal (`orchestrator/recovery.go:580-602`)
is seen by no property. A child's run is its manifest, its
mutation, its receipt, a torn tail or an end by recovery. Other operations come for the lane while a child has been asked
for or has ended; a reload counts as a fault before the first turn.

### Broker, MCBroker, Broker_proofs

A journal is a sequence of transactions with their number of events and how they were published; a cursor counts the
transactions of both journals it covers. `mu` is the client whose Snapshot or Subscribe holds the mutex over several
reads, with commits in between. The merge of a catch-up takes whatever event is left: its order is by time and identifier, and the events
of a control operation carry a time from before the transaction that plans them. The
operation in the lane commits and publishes one transaction at a time; a pure command (`CommitPureCommand`) commits to
the control journal beside it. Next is `Receive`, or `Sleep` and `Wake` with the one-place wake channel; Close may come
from another goroutine. Not modelled: cursors of related sessions, the forwarding of a child's stages to a parent's
subscription (a transient event to one of them), the overflow callback of headless consumers, which nothing sets, the
terminal for an event that cannot be projected, and cancellation of Next (a client that calls again later).

### Policy

The policies as they are held by the registry, and what a restart rebuilds them from. `ResolvePolicy` combines the rules
of platform, user, project, session and mode; the facts of a request (`RunsProcess`, `Outside`, `LocalFile`, `Observation`,
`TrustedMutation`, ...) decide what each mode makes of it. A setting is committed to the journal and applied to the
policy later; a request is decided, asked about, and answered once, for the session, or not; children are registered
with their parent's recorded mode; a restart forgets grants and replays modes and trust. The module is about every set
of sessions and requests and is checked by its proofs, which stand in Effects_proofs: what may be done beside what is
done.

## 3. What the runs show

| Run | Instance | Shows | Distinct states |
|---|---|---|---|
| JournalAppend | 2 processes, 2 transactions, 1 fault, 1 death, fair | `ReportsHold`: what a read or an append reported is in whatever a power loss leaves now, what was denied never is; `CallsReturn` | 68,912 |
| JournalRecovery | 2 processes, 2 transactions, 1 recovery request, 1 fault, 1 power loss, symmetry | `NeverFatal`, `DroppedTailIsKept`, refinement of `JournalLog` | 207,906 |
| Catalog | 2 goroutines of one process and one of another, 1 identity, a root and a child, 3 calls, 1 mishap, 1 power loss, symmetry | `NoHalfSession`, `OneSessionPerIdentity`, `PublishedIsDurable`, `CallsDoNotDisturb` | 741,451 |
| Publication | the same actors, 2 identities of one content, 3 calls, 1 mishap, 1 power loss | `PromisesSurvive`, `NothingDangles`, `NothingReplaced` | 940,173 |
| Control | 2 processes, 3 starts, commands and other commits, 2 failures, 2 deaths, symmetry | `ControlOnce`, `ControlTellsTruth`, `AttemptsAreNew` | 193,878 |
| Turn | 2 processes, 2 commands (one with a call), one drift round, one provider retry, 1 mishap, symmetry | `HonestStatus`, `EffectOnce`, `EffectsAreFenced`, `EndedTurnsAreSettled`, `EndsStand` | 664,725 |
| TurnRecovery | 2 processes, 1 command, 2 mishaps, fair | `TurnsEnd` | 188,816 |
| Effects | 2 edits of one process, 1 of another, 1 write by another program, 1 incident, symmetry | `StaleVersionSurvives`, `HonestOutcome`, `RevokedNeverRuns` | 1,233,474 |
| App | 2 generations, 2 sessions, 2 modes, 2 models, queue of 1, 3 commands, 2 prompts, 1 incident, fair | `SecretsMatchUse`, `OperationKeepsItsRuntime`, `AnswersTheRightRequest`, `SettingsFollowSession`, `StoppedOperationsEnd` | 413,325 |
| Compaction | 1 turn with a call, 1 `/compact` of two claims, 1 foreign turn, 1 fault | `ContextAlwaysPlans`, `SummarisedOnce`, `CompactionTellsTruth`, `CompactionIsIdle`, `LaneIsSound` | 113,878 |
| Handoff | 2 parent turns with 2 and 1 delegations, 1 other operation, 2 faults, fair | `DelegatedOnce`, `AttachedFromReceipt`, `RefusedOnlyBehindRecovery`, `TurnsEndUnlessAbandoned` | 382,262 |
| Broker | 1 client, the lane's operation and a pure command, 3 transactions of up to 2 events, queue of 2, 1 incident, fair | `NoGap`, `EventsArrive` | 715,156 |

Every instance is small enough for a routine check; the larger ones named under the bounds were checked aside. No run
finds a violation, and `findings` is empty; where the code and its documents disagree, or where a property had to
be stated with an exception, section 6 says so. Type invariants that no run lists (`TypeOK` of Journal, Broker, App,
Control, Effects, Turn, Policy and `HandoffTypeOK`) were checked on these instances or are proved; they document the variables.

**Bounds.**

* *Two processes* are enough for every race here: each rule is about one process and "the others", and a third adds no
  new kind of step. Where a lock is one process's (Catalog, Publication, Effects), two actors share a process beside one
  of another.
* *Journal.* Two transactions give a journal with a first v2 transaction (with its compatibility declaration) and a
  later one; one fault, one death and one power loss are each combined with a full recovery, since an interrupted
  operation is resumed by another process.
* *Catalog.* Three calls are a create, its repetition by another process and a list or a child. Two identities and a
  lineage that `maxLineageDepth` refuses were checked aside (3.49 million states). With one mishap before a power loss the sessions of those who
  published them are durable, because the creation of the control journal synchronises the sessions directory once more;
  two deaths between a mkdir and its sync would defeat that, and what a finder was told may end with it (so
  `PublishedIsDurable` speaks of publishers). Section 4 proves both halves: what the properties need, and that one mishap
  leaves it true.
* *Publication.* Two mishaps pass too (1.46 million states). One process uses the evidence store; section 6 tells what two do.
* *Control.* Instances with four calls pass too (9.3 million states); the proofs are about every instance.
* *Turn.* `MaxMishaps` is one budget for failures, deaths, cancellations and foreign commits. Two of them, which reach "an
  append is reported unknown, then its terminalization fails too" and "cancelled, then overtaken", were checked aside (4.49
  million states), and `TurnRecovery` has two; the proofs of section 4 are about any number. `LastRound` 1 (the code's last
  round is 2) goes through one drift round and the failing last one; `LastAttempt` 1 allows one retry or one further
  round of tools.
* *Effects.* The two edits of one process are interchangeable; without this symmetry the run has 2.45 million states.
* *App.* A queue of one place and its reserved terminal place are full after one event; three commands are a start, a
  setting or a session switch, and a cancellation, shutdown or answer; two prompts are the one on display and its
  successor.
* *Compaction.* `Suffix` 4, `InputLimit` 13 and `Window` 5 make cutoffs fall inside exchanges, ranges that reach the
  input limit, and sessions with nothing left to summarise. Instances with two rounds (377 thousand states) pass too.
* *Handoff.* `Asks` is two delegations and one, with a limit of two in a turn. That recovery may pass the limit (section
  6) needs more delegations than `MaxPerTurn` and was checked aside with three.
* *Broker.* Three transactions give catch-up over two journals with a third published live; two-event transactions and a
  queue of two reach an overflow in the middle. The one incident is a transient event, a new epoch or a commit that is
  never published. The client is alone because subscriptions share nothing but `mu`, which its own Snapshot and
  Subscribe hold against the publishers.

**Deadlock** is checked in the two Turn runs and in Handoff. It is switched off elsewhere, where all bounded calls,
transactions, commands or incidents may be used up and every call has returned.

**Fairness.**

* `CallsReturn`: an operation inside the store goes on (it waits for nothing but local files; waiting for the flock is
  outside).
* `TurnsEnd` (which includes that RunTurn and RecoverTurn return): a running operation goes on, effects return and the
  user answers approvals (weak fairness per process), the goroutine that drops the lease runs, and the session is opened
  again and again (strong fairness of `StartRecovery`, which runs at bootstrap), since nothing else in the code recovers
  a turn.
* `EventsArrive`: holders of `mu` go on, `sync.Mutex` starves nobody (strong fairness of Publish and Receive), and a
  client that stays subscribed calls Next.
* `StoppedOperationsEnd`: the loop takes each of the sources it selects on, the terminal consumes its queue, the
  goroutines of an operation go on, and an operation that can end again and again does (strong fairness of
  `OperationFinishes`, which an open stream disables in between). The user need not do anything.
* `TurnsEndUnlessAbandoned`: the process goes on as long as it runs, other operations give the lane back, and the
  session is started again. Nothing is assumed of the model's answers.
* Effects, Compaction, Catalog, Publication and Control check safety only. That the lane never stops is part of the
  liveness of Handoff, where a turn must take its slot back.

No run assumes that failures do not happen; they are only bounded.

## 4. What is proved

All theorems hold for every value of the constants under the named assumptions of the modules (bounds are natural
numbers, `None` is none of the names (`Nil` in Catalog), the sets of leases, streams and users are finite).

* **Lane** (`TypeCorrect`, `MutualExclusion`, `NoLostSlot`, `Fifo`, `LaneSound`). `TypeOK`, `OneOwner` and
  `SlotNeverLost` are inductive only together: a release may hand the slot on because the queue holds no owner, and a
  fast Acquire may take it because a free lane has no waiters. `Fifo` is an action property that follows from the same
  invariant; `LaneSound` is the property that Compaction checks with the operations at work, and `HandoffLaneSound` has
  it for the turns of Handoff. The lemma `WithoutProperties` says what the removal of a waiter does to the queue. These
  proofs are in `Handoff_proofs`.
* **Handoff** (`HandoffTypeCorrect`, `HandedOffOnce`, `ReceiptsOnly`, `RefusedBehindRecovery`, `FinalReceipts`). That the
  mutation of a child takes place once, that a result is attached once and from the receipt of the child's journal, and
  that a journal is refused only behind a recovery all speak of two journals and of a process that may stop between any
  two of their appends. `HandoffInv` ties them together: `AttemptInv` says what the parent's journal and the child's hold
  of an attempt at each place of the process, `ChildInv` how far the child's journal and its effect can be apart,
  `ProviderInv` and `ClosedInv` what lies between two requests of a turn. Only then does a recovery, which starts from the
  two journals alone, find an attempt as a live turn would leave it. Every action is one of the shapes that `Change` lists,
  so that each part is proved once per shape. `FinalReceipts` is an action property: nothing changes any more in a child's
  journal that holds a receipt. `HandoffInv` passes as an invariant of the run's instance (382,262 states).
* **Turn** (`TypeCorrect`, `SingleTurn`). `OneActiveTurn` is not inductive: the turn is opened some steps after
  AcquireTurnLease looked for an active one, when the lock may be gone. The invariant adds `AcceptsFirst` (as long as
  nothing was committed behind the head that p knows, no turn is active) and `OpOK` (what an operation works on). Each
  commit makes the drift of every other operation "other", and the append of AcceptTurn compares heads. So the mutual
  exclusion of turns rests on the compared head, not on the lock.
* **Turn, effects** (`Honest`, `Once`, `EffectsFenced`, `EndedSettled`, `EndsAreFinal`). An operation owns the journal
  (`Owns`) while nothing was committed behind the head it knows, or while it holds the lock because it is not cancelled.
  There is one owner at most, the journal agrees with everything the owner remembers (`Agree`: the status of its activity,
  the calls that still wait, the activities it may still plan), and effects and commits are the owner's alone: the others
  are cancelled, so that they start no effect, and an append finds that the journal has moved on. `History` is what the
  journal and the effects say by themselves, such as that every effect has its start, and its one result or a turn that is
  still active. Those parts are inductive only together. `ActivityAssumption` says that `None` is no activity.
* **Broker** (`PublishedInOrder`). What is pending for the session journal is the lane's, and everything behind it was
  never to be published; so no transaction is published after a later one, which `hasCursor` would drop.
* **Broker, gaps** (`NothingMissed`). `NoGap` says what an open subscription has; the invariant says where the next
  publication finds it. A subscription has what it owes up to its cursor (`Covered`), and nothing behind the cursor of
  an open one was published (`Ahead`), so a publication puts the events of a transaction right behind what it has. A
  transaction that a later one overtook is behind the cursor and will be published late, so it is not owed. The start of
  a subscription rests on `mu`: between the read of a head and the registration nothing is published (`Snapshotting`,
  `ReadUpTo`), though commits go on. That a client which reconnects gets nothing twice rests on the order of the cursors
  in a queue (`Ordered`): whatever item it read last, it knows nothing beyond that item's cursor. `GapInv` passes as an
  invariant of the run's instance.
* **Generations** (`TypeCorrect`, `SecretsKept`, `InUseStaysOpen` in `App_proofs`). A count says nothing by itself; the
  invariant is that each count is the cardinality of the set of its holders, that the streams a lease owns are gone
  before it is, and that the registry and the lifecycle of a generation retire together. From it follows that secrets
  are kept exactly as long as somebody may write text (`SecretsMatchUse`), and that a generation in use keeps its
  stores.
* **App** (`AppTypeCorrect`, `AppStepsGenerations`, `AppSecretsKept`, `RuntimeKept`, `RightRequestAnswered`,
  `SettingsFollow`). Each step of the loop is a step of the generations or leaves them alone (`AppStepsGenerations`), which
  carries their invariant over. What the loop adds is in the order of its steps. `OperationInv`: a turn that works is
  a user of the current generation's lifecycle, a compaction is not, but until the operation has ended nobody retires the
  current generation or a candidate. `ApprovalInv`: a prompt that can be answered identifies its request, and only the
  request that is waited for is pending or answered, whatever prompts stay on the screen. `SettingsInv`: the journal of
  the selected session exists and has the mode that is shown and enforced and the model that is shown, unless a refresh
  failed or `openSession` fell back to a default. `AppInv` is all of that and passes as an invariant of the run's
  instance (413,325 states).
* **Catalog** (in `App_proofs`: `NoHalfSessionAlways`, `OneSessionPerIdentityAlways`, `CallsDoNotDisturbAlways`,
  `PublishedIsDurableAlways`, `LayoutIsDurableWithOneMishap`, `CatalogWithOneMishap`). `CatalogCore` says what the flock
  protects: the layout an actor has made so far, the one staging directory there can be under it, and that a name looked
  for in vain, or drawn, is still free at the rename. `NoHalfSession` follows for any number of failures. The other
  properties need more than the code gives under any number of them: as told under the bounds, two deaths can leave the
  sessions directory without its sync, and a power loss then takes every session with it. So they are proved in two
  halves. With `[]LayoutIsDurable` (a process is ready only once the sessions directory is durable; for the first two
  properties `MaxOutages = 0` will do instead, which is what `NothingLost` says) they hold for any number of failures,
  deaths and power losses: `CatalogInv` adds what was returned (`Delivered`), and `LineageInv` that a create is under an
  anchored parent from its check to its return and that what was published has its lineage on disk. And with `MaxMishaps
  <= 1`, as in the run, `LayoutIsDurable` is itself an invariant: `OneSync` says that a sessions directory which nobody
  synchronised has no control directory beside it yet, or someone is about to synchronise both. `CatalogWithOneMishap`
  puts the two together. The chain of parents is a recursive function; that it may be unfolded, grows at its end and ends
  where nobody has the name (`AncestorSteps`, `ChainOfParent`, `ChainEnds`, `ChainAgrees`) is proved from the order of
  the natural numbers. `LineageInv` and `OneSync` pass as invariants of the run's instance (741,451 states),
  `OneSync` also with two power losses (1,216,823), `CatalogInv` also with two mishaps.
* **Control** (`TypeCorrect`, `Once`, `TellsTruth`, `AttemptsNew`). As in Turn the compared head carries the argument:
  whoever appends has read every record of its command (`Known`), so the order of the records needs neither the lane nor
  the uniqueness of command names. That a setting happens once rests on the refusal of a second transaction of the same
  name; that a recovery does rests on its command, which names the end of the storage it inspected (`OneEffect`). The
  attempts on a storage are numbered without a gap (`Numbered`, `Fresh`), so a bootstrap never meets the "non-contiguous"
  history that `recoveryControlAttemptIdentity` refuses. The invariant itself passes as an invariant of the run's
  instance.
* **Effects** (`TypeCorrect`, `Survives`, `Honest`, `Revoked`). What the cleanup of a call removes follows from
  `Temporaries`, which says what its temporary name may name at each place. That a call which denies its edit never has
  it come back is not inductive: its version may wait at the temporary name of another call, whose rollback will put it
  back. The invariant `DenialsAreTrue` has a set of calls that is closed under being held: no version of the set is at
  the path, and whoever holds one is in the set, so that its rollback does not find its own version there. A rollback
  that does adds its call to the set; any other rollback taints what it moves, and the set is chosen anew. The proof found
  what two processes do not show: with a chain of three rollbacks a version comes back by exchanges that each find their
  own version, once a tainted one started it (`tainted` in `Rollback`). An instance of three processes (3,808,495 states)
  agrees.
* **Journal** (`TypeCorrect`, `NeverUnusable`, `AnswersLast`, `Reports`, `DroppedKept`, `Implements`). The invariant has
  three layers. Every file is `Sound`: the scan rejects at most a final fragment, wherever a crash cuts it. Of the two
  files that the name may stand for after a rename, the one processes see holds, on stable storage, every commit of the
  one a power loss would bring back (`Behind`); so whichever survives has them all. And of the process that holds the
  flock the invariant knows what it has written and what of it is durable (`Appender`, `Recovers`), of a reader that its
  snapshot is the front of its file and that the transactions which had settled before it get no marker behind it
  (`Reader`). From there every step leaves durable lines that cover those before it (`Kept`), which is the step of
  `JournalLog`. `NeverUnusable` is the first layer, `DroppedKept` the third. `AnswersLast` is the part of `ReportsHold`
  that recoveries leave true: the answers of appends, recoveries and negative lookups. `Reports` is all of it, with
  `Op = {}` as its hypothesis, as in the run that checks it, for the reason section 6 gives. TLC checked the invariant on
  the instances of both runs, and by simulation with 2 recovery requests, 2 deaths and 2 power losses.
* **Publication** (`PublicationSound`, `NeededStays`, `Survive`, `Dangles`, `Replaced`). What is vouched for, and what an
  alias or a record rests upon, is `Safe`: durable under its final name, and not linked by a call in progress that could
  still take it back. A call that creates a name makes it safe by its own sync; one that adopts a name rests on the sync
  of the directory before it looked, with the lock of the store held since (`CaughtInv`, `GoesOnInv`). So the file that a
  failing call takes back is one that nobody has adopted. A lock of the evidence store is one process's, so `Survive` and
  `Dangles` have `OneProcess` as a hypothesis, a predicate that the run's instance satisfies: whoever uses the evidence
  store is in one process (the other stores may have any number). Section 6 tells what two do. `PublicationSound` (locks,
  temporaries and whole files) and `Replaced` need no such hypothesis. Calls, processes, names, failures, deaths and
  power losses are arbitrary. `PublicationInv` and `NeedsInv` pass as invariants of the run's instance (940,173 states).
* **Policy** (in `Effects_proofs`: `Consent`, `SafeHolds`, `TrustEnds`, and of the pure part `HardDenyWins` and
  `ProjectOnlyNarrows`). The invariant grounds every policy, every replay and every setting in flight in what users
  answered or acknowledged; the lemma `ReachNeedsAuthority` lists by what a request that runs a process or leaves the
  workspace can have been allowed. `Consent` then holds across modes, children and restarts. A TLC check of two sessions
  and two requests (2,324,277 states) agrees.
* **Compaction** (in `Effects_proofs`: `SummarisedOnceAlways`, `CompactionIsIdleAlways`, `CompactionTellsTruthAlways`).
  Again the compared head carries the argument, and the lane is not needed for it. What a compaction found when it chose
  its range, that no summary reaches into it (`Free`) and, for `/compact`, that no turn is active, is read long before
  the append that relies on it. It need not stay true, only be true as long as the head it knows is the head of the
  journal (`MeInv`, `JobInv`): any other append moves the head, and the compaction's own is refused. `SelectedRange` is
  the lemma about the selector: in a log without stray answers the range it chooses lies behind all that is summarised
  and in front of the head. Of a command the invariant says that its claim has it alone (`OwnCommand`), that it has no
  terminal while it is worked on, and that a summary it goes on with was stored for it; so `CommandOK` holds whether an
  append landed, was refused, or landed and was reported unknown. All constants are arbitrary, the number of claims of
  `/compact` included. `CompactionInv` passes as an invariant of the run's instance (113,878 states) and of one with two
  commands (1,579,840 states).

Only model-checked: liveness and fairness (out of the prover's reach), what the operators of ContextPlan compute on every
log and with them `ContextAlwaysPlans` (induction over data is, too).

## 5. Plan

What would add most next, in this order:

1. The evidence store of two processes in `Publication`, once what section 6 tells of it is settled, and the
   continuation of a turn's remaining tool calls behind a resumed delegation in `Handoff`.
2. The shell tool's process group and its output streams, beside the redaction of secrets across chunks.
3. The activity projection as an operator that Turn, Compaction and Handoff share.

Not planned: rendering (`tui`), option parsing, logging, discovery and parsing of skills, loading of configuration and the
HTTP side of providers, which keep no state that interleavings can break; event encoding and the upcasting of v1 events,
which the models abstract.

## 6. Observations

Places where the code does something its documents, its comments or its readers would not expect, met while modelling. The
models do as the code does; where that touches a property, the property says so. "The plan" without a name is
`docs/superpowers/plans/2026-07-17-yordam-v0.2-foundation.md`, "the design" is
`docs/superpowers/specs/2026-07-19-yordam-v0.3-self-hosted-agent-runtime-design.md`.

**Journal**

* With recoveries, a read syncs the file it read but not the directory entry a recovery has just renamed
  (`syncCommittedView`). After a rename whose SyncActivation failed, a reader may report as committed what a power loss
  takes back, the marker of a further append for one. `ReportsHold` is therefore checked, and proved, without recovery.
  What an append returned holds (`AnswersLast`): it has synced the directory before it returns.
* A process that did not write a recovery's marker reports "already_recovered" without syncing it
  (`session/jsonl/recovery_v2.go:178`); a power loss may undo what was reported.
* After an interrupted recovery an ordinary append may follow the activated prefix, and the recovery request can then
  never be repeated (`session/jsonl/recovery_v2.go:943`).
* A process that dies in the middle of an append to the control journal leaves it torn for good: no start recovers that
  journal, and every later append, the activation of every start included, is refused (`session/jsonl/batch.go:285`,
  `app/bootstrap.go:154`). Nor is a torn journal of a child ever recovered by its parent.

**Catalog and stores**

* `FindIdentity` returns an existing session whose rename was never synchronised: a child session created again after a
  crash can be lost with its receipts in a power loss, and an orphan child can survive without its parent. The control
  directory and `workspace.json` are adopted without a sync as well.
* `List` fails when an append of another process replaces a `metadata.json` between opening and verifying it; `List` and
  `openSessionAtWorkspace` clean `.workspace-*.tmp` without the flock, which does no harm only because
  `app/bootstrap.go:97` has laid out the workspace before; opening the artifacts in one process removes the temporary of
  a Put in another.
* Two processes with evidence stores on one directory, or two generations of one process, can leave a record without its blob: the second adopts a blob
  between the first's link and sync, or the first takes back a blob whose Lstat failed after the second adopted it. The
  plan says the store "syncs the blob and directories, then writes immutable metadata" (plan, `:1139`).
* A failed sync or unlink leaves a final name unsynchronised that a later adopter vouches for; a recovery Put that
  adopts after a death between the removal of its temporary and the sync reports success without one
  (`recovery/store.go:168`).
* Edits have no recovery material: it is prepared only for a plan whose reversibility is "exact"
  (`orchestrator/service.go:990-1017`), and that of an edit is "preimage" (`tools/registry.go:66`), while the plan says
  "For built-in edit, store exact recovery material" (`:1732`). The recovery store's Put is thus not reached, and
  `MigrateLegacyArtifact` and `CreateWithLineage` have no callers but tests.

**Control**

* A control operation stays "accepted" when a commit of another process, even the pure command of a snapshot, moves the
  head between its appends; a setting can then be durable in the session while its operation says "failed", and the
  policy keeps the old mode. `ControlTellsTruth` speaks of completed and denied ones.
* Two processes that start together make one bootstrap fail. The plan says "Crash restart reuses the same control
  operation ID and complete storage request … never invents a replacement request" (plan, `:1753`); the code numbers
  attempts (`app/bootstrap.go:386-473`).
* `RunControl` returns its error beside the failed terminal, so a caller sees an error where the journal says "denied".
  Two processes use the same names of runtime generations, so that a decision on a skill at one head is one command for
  both.

**Turn and recovery**

* The lock of a turn is dropped on cancellation by design (plan, `:1014`); `EffectsAreFenced` is stated for processes
  that are not cancelled.
* An activity durably started and cancelled before dispatch is ended as "cancelled" (`orchestrator/service.go:1426`),
  which the documented lifecycle (`docs/superpowers/specs/2026-07-17-yordam-v0.2-capability-contract.md:247-249`) and
  `activity/projection.go:204-216` do not allow.
* Recovery records a task as failed even if its turn never got as far as freezing its contract, and leaves activities
  that were only planned or authorized without an end.

**Broker**

* Catch-up that overflows inside a transaction tells the consumer to resume after all of it (`app/broker.go:553-587`),
  and a client that reconnects with the cursor of the first of several events of a transaction does not get the others:
  every event carries the cursor after its whole transaction.
* The merge of a catch-up (`app/broker.go:238-243`) may hand out an event before those of an earlier transaction of the
  same journal, for `RunControl` is given the time of its last event before it commits the plan
  (`app/runtime_support.go:950`, `:1016`, `app/app.go:825`), and events of one time are ordered by their identifiers. A
  client that overflows or reconnects in between resumes behind transactions it did not get; `NoGap` speaks of
  subscriptions whose catch-up was finished.
* A pure command may publish to the control journal before an earlier transaction of a control operation; subscriptions
  then skip the earlier one. The model marks it "late", and `NoGap` speaks of what was published in order. A commit
  reported as unknown, or made by another process, is never published; only a new snapshot or catch-up shows it.

**Application loop**

* `openSession` works on the session to come while the binding, the policy and the replay are those of the one before:
  settings restored or written in between go to the old journal (`app/app.go:1044`, `:1062`,
  `app/runtime_support.go:1023`), against `docs/superpowers/plans/2026-07-16-yordam-jsonc-config-reload.md:761`. A
  reload that fails half way is not atomic either
  (`docs/superpowers/specs/2026-07-16-yordam-jsonc-config-reload-design.md:28`, `:221`, `:244`, `:317`).
* A commit whose refresh fails leaves the policy at the old mode; `SettingsFollowSession` excepts it (`doubt`).
* A session whose journal holds a selection the generation does not know is shown with the default of the generation,
  which `openSession` commits to the session that was selected before, or not at all; the journal of the session keeps
  the unknown one, and the refresh after its next turn (`app/app.go:596`) takes the selection back to it.
  `SettingsFollowSession` excepts it (`FellBack`). The test of this path (`app/session_state_test.go:478`) runs without
  the ApplicationService.
* The loop can hang when a publication fails while it is idle after the end of its context (`app/app.go:258-267`); an
  `EventRejected` can take the place reserved for the terminal; a candidate that arrives after a shutdown is never
  retired; queued protocol events are not drained before the terminal; an acknowledgement or a setting given while a
  turn runs blocks the loop in the lane until the turn asks or ends (`LaneFree`).

**Edits**

* Two processes and another writer can lose a version when both edits roll back; a rollback that fails removes what the
  other writer put there; a third write between exchange and rollback is lost. `StaleVersionSurvives` and
  `HonestOutcome` name these exceptions.

**Compaction**

* A user's message can be summarised before the first request of its own turn, since it lies more than the recent suffix
  from the end; the design says "Compaction retains the active task, unresolved approvals, recent user and assistant
  messages" (`:167-169`).
* After a second compaction, or one whose first range was limited by bytes, the events before its start reappear raw and
  the first summary is dropped, while the design (`:193-196`) and the plan
  (`docs/superpowers/plans/2026-07-19-yordam-v0.3-compaction.md:178`) promise only the suffix after the range.
* The budget skips the newest group when it does not fit, and the estimate counts only what was included: compaction may
  not be triggered while the current prompt is dropped. Outcomes of failed turns stay in the context for ever. A resumed
  parent with further unanswered calls cannot be planned ("unresolved tool call").
* An accepted command can remain without a terminal (a crash, a head that another process moved, a failed publication).
  A failed publication of a plan leaves its activity without an outcome, of a denied decision gives it two, and
  `terminalizeCompactionFailure` (`orchestrator/compaction.go:331-345`) ends a planned activity as failed and a started
  one as cancelled, which `activity/projection.go:191-216`, replayed by every snapshot, refuses.

**Handoff**

* A recovery that resumes a parent starts to count its delegations at one, so the limit of a turn can be passed, and the
  projection then refuses the journal. An attempt left open in an ended turn makes the replay of every later request
  fail (`subagent/projector.go:96-98` against `orchestrator/recovery.go:618-629`; design, `:449`), or, with a certain
  receipt, the recovery of the session. This is what `Abandoned` excepts.
* Cancelling while a child runs verifies its receipt under the cancelled context: the parent turn stays active, and the
  next start attaches the receipt and resumes the cancelled turn.
* An attached attempt of an earlier turn is taken for the continuation of the current one, which is ended as
  interrupted; a failure in a resumed turn ends it although its child is unresolved; the remaining tool calls of a
  resumed message are not run; an activity ended in the terminal transaction counts as unknown, so that the receipt says
  "uncertain"; a deadline is not applied when the child is created again.

**Policy**

* A child's policy starts in the mode of its parent's metadata (`orchestrator/child_coordinator.go:59-64`), which is
  written when the parent is created and never when its mode changes (`session/jsonl/batch.go:519-520` updates the
  sequence and the time): a parent that was switched from auto to safe delegates to a child in auto mode.
  `permission/policy.go:258` speaks of an "inherited policy ceiling", the plan
  (`docs/superpowers/plans/2026-07-19-yordam-v0.3-sequential-subagent.md:23`, `:460`, `:480`) of the parent's mode as
  the ceiling, so that a "safe parent cannot yield auto child behavior".
* `app/session_state.go:64-65` says that LegacyReplayFromInspection "never participates in authorization", but
  `app/bootstrap.go:124` restores the policy from it. `runtimeAuthorization` sets the configured provider to the
  request's own identity, so that comparison cannot fail. The policy generation is always "compatibility-v1", so a
  reload keeps grants. An answer to a question that was put before a switch to safe mode still counts (`SafeModeHolds`
  is about what is decided in safe mode). The legacy Evaluate asks for shells in auto mode even where a grant exists
  (`permission/policy.go:116-119`), EvaluateAuthorization does not.

## 7. Not modelled

* *Session journal*: events of a newer version, the scan cache and index, the lock-set files of a legacy session, Open
  with its replay, and `UpcastV1`, a pure conversion.
* *Turn*: payloads of task status and contracts, and the transient publication of stages. *Recovery*: the repair of an
  attachment without a tool result (`ensureAttachedSubagentToolResult`), since `attachSubagentReceipt` writes both in
  one transaction.
* *Application*: how a runtime is put together from its configuration, the listing of skills, the adapters between
  protocol and terminal types. *Policy*: the legacy Evaluate with its grants by tool and scope.
* *Activity, task and turn projections*: folds over committed events that keep nothing between calls.
* *Secrets*: the encoded variants and the matching of text; what is modelled is how long they are kept.
* *Tools* (read, search, shell, skills), *providers*, *configuration* (loading), *terminal user interface*, *command
  line*, *logging*: input and output, parsing and rendering, of which the models keep the outcomes.
