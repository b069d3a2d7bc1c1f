# Optio in TLA+

Optio turns tickets into pull requests: an API server claims queued *tasks*,
launches a coding agent for each in a Kubernetes pod, streams the agent's output
into a log, follows the pull request the agent opens, and moves the task along
until it is done. It also keeps *persistent agents* that answer messages turn by
turn, and starts work from *triggers*. Several API instances do this at once, on
one PostgreSQL database and one BullMQ queue, and any of them may be killed, shut
down or cut off from a pod at any moment. This directory holds the
specifications of the part of the program that makes that safe, the TLC models
that check them, and TLAPS proofs of the properties that matter most.

| File | What it is |
| --- | --- |
| `TaskQueue.tla` | tasks on their way to an agent: submission, dependencies, the queue, the claim under the limits |
| `RunAttachment.tla` | one repo task's run: jobs, task row, pod, agent, signals, users, reconciler |
| `RunLedger.tla` | what that protocol promises about the log and the spend, abstractly |
| `PullRequest.tla` | a task whose pull request is open: watcher, reconcile passes, resumes, auto-merge |
| `PersistentAgent.tla` | one persistent agent: inbox, turns, jobs, intents, reconcile passes, pod |
| `Inbox.tla` | what an inbox promises to its senders, abstractly |
| `TriggerDelivery.tla` | events, webhook calls and schedules on their way to what they start |
| `MC*.tla`, `MC*.cfg` | models that check properties which hold |
| `V*.cfg` | models in which a sentence of the code's comments or docs is refuted |
| `*Proofs.tla` | theorems and their proofs |
| `PROJECT.json` | the index: components, runs, mutants, the lines each definition models, findings, hazards, theorems |

To check one model: `tlc -config MCExact.cfg MCRunAttachment.tla`; the module of
each configuration is in section 8. To check the proofs of a module:
`tlapm RunLedgerProofs.tla`.

Below, paths without a directory are under `src/apps/api/src/services` or
`workers`; RA is `run-attachment.ts`.

## 1. The system

### Components

| Component | State it keeps | Operations | What is hard | What makes it correct | Module |
| --- | --- | --- | --- | --- | --- |
| **Run attachment** (`run-attachment.ts`, `run-log-service.ts`) | columns of the task row: `exec_state`, `attached_by`, lease expiry, `consumed_bytes`, pod and pid, attach failures; in memory, one `Hold` per job | hold, record start, claim, append, renew, settle, close, classify a loss, detach, end a job | two instances that both believe they have the run; a job that stops between any two statements | the log has each line once, the spend is added once, no agent runs for nobody, every run ends | `RunAttachment`, `RunLedger` |
| **Repo task worker** (`task-worker.ts`) | a BullMQ job's locals | take, claim, set up, launch, attach, stream, finish; catch block; recovery at boot | everything it read before an `await` may be old after it | fails or finishes only its own attempt | `TaskQueue` up to the claim, `RunAttachment` after it |
| **Task state machine and controls** (`task-service.ts`, `task-control-service.ts`) | `tasks.state` | submit, CAS transition and its announcement; cancel, retry, resume, restart, redo | stopping an agent and settling dependents are fire-and-forget | moves only along `VALID_TRANSITIONS`; a cancelled or reset attempt stops | all three task modules |
| **Dependencies** (`dependency-service.ts`, `dag.ts`) | edges, `waiting_on_deps` | add with the cycle check, remove, release on completion, cascade a failure | several parents end at once; the release is lost with its instance | a task that waits starts when all its parents are done, and does not wait for ever | `TaskQueue` |
| **Claim lock and limits** (`claim-lock.ts`) | an advisory lock | count the active tasks, claim | count and claim are two statements of many workers | limits hold | `TaskQueue` |
| **Pull requests** (`pr-watcher-worker.ts`, `reconcile-repo.ts`, `reconcile-executor.ts`) | `pr_*` columns, the count of resumes, back-off | poll, decide, resume, merge, settle | two readers of one platform; everything read is old when it is acted on | only checked heads are merged; a settled pull request settles its task | `PullRequest` |
| **In-pod run protocol** (`run-protocol.ts`) | the run directory: output, supervisor pid, exit file | start (stop a stale supervisor first), attach from an offset, signal, remove | the directory belongs to the task, not to the attempt | one directory, one agent | `RunAttachment` |
| **Repo pods and slots** (`repo-pool-service.ts`, `agent-pod-pool.ts`) | pods, their active task counts | pick or create a pod, take and give back a slot | a slot is taken by one job and given back by another | as many given back as taken | `RunAttachment` (one pod) |
| **Attach sweep** (`attach-sweep-worker.ts`) | none | every 30 s, find active rows whose lease lapsed and ask for a pass, which queues an attach job | every instance sweeps, and the resync asks too | a run nobody streams is found | `RunAttachment` |
| **Reconciler** (`packages/shared/src/reconcile`, `reconcile-executor.ts`) | a snapshot per pass, back-off columns | snapshot, decide, apply if the row's version is the same | the snapshot is old when the decision is applied | moves on what no job can | all but `TriggerDelivery` |
| **Persistent agents** (`persistent-agent-service.ts`, `-worker.ts`, `-pool-service.ts`) | agent row, inbox, turns, pod row | receive, wake, start a turn, drain, stream, attach, halt, intents, reap a pod | a message that arrives as a turn ends; a turn whose job died | every message reaches a turn, turns come one at a time and end | `PersistentAgent`, `Inbox` |
| **Triggers and schedules** (`trigger-delivery.ts`, `event-trigger-service.ts`, `workflow-trigger-worker.ts`) | `trigger_events`, `trigger_occurrences`, `next_fire_at` | accept, match, dispatch, retry, tick | a crash between creating the target and saying so | nothing dropped, one target per occurrence | `TriggerDelivery` |
| **Standalone runs, PR reviews** | their own rows, the same attachment columns | start, attach, finish | as repo tasks | as repo tasks | not modelled |
| **Pod clean-up, pollers' leases, local terminals and relay, remote workspaces, sign-in, secrets, adapters, ticket providers, clients, deployment** | | | I/O, parsing, presentation | | not modelled |

### How they interact

The instances share nothing but **rows**, **pods** and the **queue**. Rows are
written by single `UPDATE`s. Those a *job* makes about its run are
compare-and-swaps on `attached_by` (and, for the log, on `consumed_bytes`),
except two: `holdAttachment` writes the hold after the claim with no condition,
and `transitionTask` compares the *state* only. The reconciler's writes compare
`updated_at`, which transitions bump and attachment writes do not. An agent's row
is always written against its `updated_at`. Signals (`killRunScript`) go through
an exec into the pod that nobody waits for, and what a transition does to
dependents is not awaited either.

The modules meet in the task's state. `TaskQueue` has many tasks and knows of a
run only when it ends; `RunAttachment` has one claimed task and everything about
its run; `PullRequest` has one task from its first open pull request on, and
knows of a run what it does to the branch. A state that one of them takes as a
single step of another part (`Runs` in `TaskQueue`, `AgentEnds` in
`PullRequest`) is the subject of the module that has that part. All three use
the same table of transitions, and the same reading of a pass: `fresh` is the
set of readers that have missed no write of the row, which is what comparing
`updated_at` finds out.

## 2. How the project grew, and what is left of the plan

The order was that of what matters most: the run's ledger first (whose log and
spend users see), then who gets to run, then what follows a run, then what
starts it. The plan named a module for the reconciler's decision table; the
table is instead split over the modules in which its decisions are acted on,
because each of its hazards is about a decision that is old when it is applied.
Left of the plan are the runs of other kinds (standalone runs and PR reviews use
the functions of `RunAttachment` with other finishers), several pods, and the
pollers' leases; section 11 says why.

## 3. `RunAttachment`

### State

| Variable | The code's state |
| --- | --- |
| `run` | the task row: `state`; `exec` = `exec_state`; `pid` = the recorded supervisor pid; `consumed` = `consumed_bytes` in lines; `by` = `attached_by`; `lease` = its expiry (none, live, expired); `failures` = attach failures |
| `job[j]` | an execution of the worker's processor: `pc`, the await it is at; `origin`; `started`, the agent it launched; `agent`, the one on its `Hold`; `pos`, how far it streamed; `src`, the output file it opened; `outcome` of the stream; `end`, the value of `ended`; `released` = `hold.released`; `saw`, the state an attach job read; `slot` = `slotHeld` |
| `sup`, `out`, `dir`, `podUp`, `launched` | the pod: each agent under its supervisor, the lines it wrote, whose files the run directory holds, whether the pod is there |
| `kills` | signals on their way, scoped to an agent or (0) for whoever runs in the directory |
| `decision` | what a reconcile pass decided and has not yet applied |
| `rows`, `spend` | the `task_logs` rows per agent and line; how often an agent's usage was added |
| `slots` | slots taken less slots given back |
| `faults`, `requests` | budgets |

### Actions

Each `await` of the worker that reads or writes the row, the pod or the queue is
one action; what the code does synchronously with it is part of it. `Claim`,
`BeginHold`, `LaunchAgent`, `RecordStarted`, `ToRunning` are the start job (with
`PrFound`, `PrOpened` for a branch that already has a pull request, `SetupFails`
and `StartRefused` for the catch block). `AttachRead`, `AttachClaim`,
`AttachPod`, `AttachPodGone`, `AttachRefused` are the attach job and the sweep
that queues it. `OpenStream`, `Append`, `NoticeLoss`, `Detach`, `Drop`,
`StreamEnds`, `StreamError` stream; `Settle`, `FinishCheck`, `Decide`,
`DecideRefused`, `FailRun`, `Tidy`, `Close`, `EndRunJob` finish. `Shutdown`,
`Crash`, `Renew`, `ExpireLease` are instances and time; `AgentWrites`,
`AgentExits`, `PodDies`, `DeliverKill` the pod; `Cancel`, `Retry`, `Redo`,
`ReconcileReads`, `ReconcileActs` everybody else. `PROJECT.json` gives the lines
of each.

Three operators carry the rules several actions share. `MoveTo(s)` is
`transitionTask` to anything but queued: valid, written, announced (which may
signal the agent, unscoped), and any decision read before it is void.
`NewAttempt` is the transition back to queued: the attachment columns reset, the
last attempt's agent signalled. `LeftBehind` is `agentLeftBehind`, by which
`endRunJob` decides whether a job stops its agent.

A definition `X_Something` next to `X` is a wrong variant of `X`, of the kind a
bug would make. With it in place of `X` some property fails; `PROJECT.json`
pairs each property with one.

### Abstractions

- A hold token is the job: the code makes a fresh one per hold.
- An agent is a number, new with every launch: a pid used again by a restarted
  pod is not modelled.
- Output is counted in lines. A batch ends anywhere between lines.
- A finished agent's output implies one of `Outcomes`, any of them. How the
  worker reads a verdict off the output is left out.
- Time is the lease's three values. A lease may lapse while its holder is alive
  only as a fault (`lease`), and an active row without a lease counts as lapsed
  after a while, as in `attachment.ts`.
- The pod is one. Starting in it always works (after `PodDies` a start finds or
  makes a new one); a start script that fails is `SetupFails`.
- A signal that is delivered reaches a live supervisor; stdin delivery,
  messages to a running agent and resuming a session are left out.
- Instances are not named: a job crashes or shuts down by itself, which allows
  every combination; an instance that skips an attach job because it already
  holds that run (`holdsRun`) is left out, so the model allows more takeovers.
- A reconcile requeue or transition is one step; in the code the executor's
  compare-and-swap of its columns and the transition are two.
- `endRunJob` reads the row, signals, releases the lease and gives the slot back in
  one step (its signal is scoped to the agent's pid, its release is a CAS).
- An attach job that finds its claim lost leaves nothing and is available again,
  which lets a few job identities stand for any number of skipped jobs.
- The dependencies and limits a claim depends on are `TaskQueue`'s; off-peak
  hours and the pause only delay it.

## 4. `PersistentAgent` and `Inbox`

| Variable | The code's state |
| --- | --- |
| `agent` | the row: `state`, `control_intent`, `consecutive_failures` |
| `fresh` | the jobs and passes whose read of the row is still the latest: the compare-and-swap on `updated_at` |
| `into[m]` | where message m is: not sent, pending (`processed_at` null), or the turn it was drained into |
| `turn[t]` | a turn's row (`exec`, `open`, the lease's holder and whether it is live), the messages in its prompt, and its agent's process |
| `job[j]` | an execution of the turn worker's processor |
| `pass[r]` | what a reconcile pass decided and has not applied |
| `pod`, `reaping` | the pod's row; the idle sweep between its read of the agent and its reaping |

A start job is `Look`, `Claim`, `CreateTurn`, `AcquirePod`, `LaunchAgent`,
`RecordStarted`, `Drain`, `BeginTurn`, `ToRunning`, then `StreamEnds` or
`StreamTaken`, `Halt`, `ReadAfter`, `MoveOn`; an attach job enters at
`AttachTurn`, `ClaimAttachment` and goes on from `Drain`. `SetupFails`,
`PodMissing`, `StreamTrouble` are their errors. `Decided` is the reconciler's
whole decision function, `Apply*` the executor's branches. `Send`,
`SetControlIntent` are users; `LeaseLapses`, `LeaseLate`, `Renew`, `Crash`,
`PodDies`, `ReapRead`, `ReapPod` the rest of the world.

`Inbox` is what a sender may rely on: a message waits until one turn takes it,
and a turn takes all it will ever have at once. `InboxSpec` is that
specification under `box <- into`, `Takers <- Turns`.

Abstractions: the lease protocol inside a turn is `RunAttachment`'s subject, so
a lease is live or not; two writes of the agent's row in one millisecond are told
apart here and would not be in the code; an agent is enabled, and capacity and
budget, which only delay a turn, are left out; the grace without an open turn
(`NO_OPEN_TURN_GRACE_MS`, five minutes) counts from the last write of the agent's
row, and a live job is taken to need less from its claim, which is such a write, to
the turn's row. A turn may take longer, and its halt does not write the row, so a
pass may give the agent back as soon as the turn has halted, before the job that
halted it has read the agent again (`GraceOver`); the two decisions about a pod whose row is in `terminated` or `error` are left out,
because no snapshot reads such a row.

## 5. `PullRequest`

| Variable | The code's state |
| --- | --- |
| `task` | the row: `state`, `pr_checks_status`, resumes since the last request of a user, back-off |
| `pull`, `ci`, `empty` | the platform: the pull request's state, who merged it, whether it conflicts; the checks of its head; whether a head without checks was seen for a minute |
| `current` | the passes for which the head they read is still the head |
| `watched` | what the watcher has read and not yet written |
| `pass[r]`, `fresh` | what a pass does next, write by write |
| `jobs`, `agent` | the worker's queue and the agent of the latest attempt |

`WatchRead` and `WatchWrite` are the watcher's poll of one task. `Observe`
takes the snapshot and `Decided` (with `FromPullRequest`, `ResumeOrStop`,
`AwaitsJob`) the decision; `ApplyPatch`, `ApplyTransition`, `ApplyEnqueue`, the
three steps of a resume (`ApplyResume`, `ApplyRequeue`, `ApplyHandOver`) and the
five of an auto-merge (`Reread`, `CheckCi`, `CallMerge`, `MergeBlocked`,
`RecordMerge`) execute it. The worker is `Claim`, `Shortcut` and `AgentEnds`.
Everything else moves under their feet: `Push`, `AgentPushes`, `BaseMoves`,
`ChecksMove`, `MinutePasses`, `PersonMerges`, `PersonCloses`, `Cancel`, `Retry`,
`Restart`.

The watcher writes a failed read of the checks as `none`, as if there were none.

Abstractions: running includes provisioning; a review that requests changes
takes the way failing checks take and is left out, with reviewing agents and
drafts; the platform refuses to merge another head than the one it is given, as
its API promises; a back-off is on or over.

## 6. `TaskQueue`

| Variable | The code's state |
| --- | --- |
| `task` | each task's `state` |
| `submit`, `adding` | `submitTask` and the dependency route between their statements |
| `edges` | `task_dependencies` |
| `jobs`, `worker` | the BullMQ queue, and the jobs in progress: taken, or counted under the lock |
| `settling` | what `finishTaskRun`, `onDependencyComplete` and `cascadeFailure` still have to do once a run has ended or a task's state has moved, which nobody awaits |
| `pass`, `fresh` | reconcile passes over tasks that have no run |
| `reached` | history, for the properties: tasks that completed or opened a pull request |

`Create`, `LinkWanted`, `SubmitWaiting`, `SubmitQueued` are a submission;
`CheckDependency`, `InsertDependency`, `RemoveDependency` the routes. `Take`
reads the task and its dependencies, `CountActive` takes the advisory lock and
counts, `Claim` writes and commits, `LockTimeout` and a full repo give the job
back to the queue. `Observe` is a pass's snapshot and decision, `ObserveUnread` the
same when the dependencies cannot be read, which the snapshot takes for there
being none; the worker's own check then holds the task back. `Runs` and
`SetupFails` end a run. Dependents are released, or failed with the task, twice
over: when its state moves to completed or failed, and again by `FinishRun`, once
the run's output is stored, which releases them for an open pull request too.
`CheckDependent`, `QueueDependent`, `FailDependent` are the release and the
cascade, `LoseSettling` their end with their instance, `Boot`
`reconcileOrphanedTasks`.

Abstractions: running includes provisioning; off-peak hours and the budget are
left out; a job added at the bound `MaxJobs` is one of those already there; the
end of a run that nothing can depend on is not followed. Local tasks are left out,
too. No job runs them and they start without the claim lock, but the worker's two
counts do include them (`task-worker.ts:282`), unlike the reconciler's: they can
only make the worker refuse a cluster task, and `LimitHeld` is about cluster tasks.

## 7. `TriggerDelivery`

| Variable | The code's state |
| --- | --- |
| `event[e]` | `trigger_events`, by delivery key |
| `occ[k]` | `trigger_occurrences`, by occurrence key: state and attempts |
| `made[k]` | how many targets the occurrence has created |
| `next`, `clock` | `next_fire_at`, the time |
| `doer[i]`, `sweep[i]` | each instance's dispatch (which row, how far, and whether its transaction still holds the row's lock) and schedule sweep |
| `enabled`, `touched` | the triggers that are enabled; those that ever were changed |

`Accept` and `Fire` take in what arrives. `TakeEvent`, `Match`, `EndMatch`,
`MatchFails` are `dispatchEvent`; `TakeOccurrence`, `Look`, `Insert`, `Record`,
`DispatchFails` are `dispatchOccurrence`, whose target has the occurrence's id.
`ListDue` and `Advance` are the schedule checker; `Toggle`, `RetryFailed` the
users; `Crash` loses an instance's dispatch and sweep, `LoseTx` only the
transaction, while the dispatch goes on without the lock.

Abstractions: which triggers match an event is a constant (rules and templates
are data); a disabled trigger stands for one deleted or moved to another owner;
back-off is a delay; rows are kept for ever (the code prunes settled ones after
90 days); nothing reads the attempts of a settled occurrence.

## 8. What is checked

A configuration `MC*` checks its properties over all reachable states of its
instance.

| Model | Module | Instance | Properties | States |
| --- | --- | --- | --- | --- |
| `MCExact` | `MCRunAttachment` | 3 jobs, 2 agents, 1 line, one crash or lapsed lease, one user request | `TypeOK`, `LogExact`, `SpendOnce`, `StartsFresh`, `HolderHasAgent`, `LedgerSpec` | 1,002,065 |
| `MCUndisturbed` | `MCRunAttachment` | 3 jobs, 2 agents, 1 line, one of five faults, one request, undisturbed | `CompletedIsWhole`, `StreamsOwnOutput`, `NoOrphan`, `OneAgent` | 617,578 |
| `MCEnds` | `MCRunAttachment` | 4 jobs, 3 agents, one of seven faults | `ActiveRunEnds` | 359,151 |
| `MCStops` | `MCRunAttachment` | the same, two of the faults other than a shutdown | `ActiveRunEnds` | 97,657 |
| `MCInbox` | `MCPersistentAgent` | 2 messages, 2 jobs, 3 turns, one pass, one of six faults, claims only when all halting jobs have read | `TypeOK`, `NothingLost`, `OneTurn`, `InboxSpec`, `TurnsEnd`, `EveryMessageRead` | 256,831 |
| `MCControl` | `MCPersistentAgent` | 1 message, 2 jobs, 3 turns, one intent of any kind, one late lease or stalled agent | `TurnsGiveBack` | 825,718 |
| `MCPull` | `MCPullRequest` | one pass, the watcher, one resume allowed, one request (close, retry, restart), one fault (read, write, crash) | `TypeOK`, `SettledIsNoticed`, `QueuedRuns` | 448,786 |
| `MCMerge` | `MCPullRequest` | two passes, the watcher, one resume allowed, one request (push, rebase, merge, cancel) | `MergesChecked`, `ResumesWithinLimit` | 3,123,492 |
| `MCQueue` | `MCTaskQueue` | a task and its dependent, a worker, one pass, one place for both, two upsets (cancel, retry, boot, crash, setup error, failed read) | `TypeOK`, `WaitedForParents`, `TasksMoveOn` | 267,358 |
| `MCParents` | `MCTaskQueue` | a task with two parents, 2 workers, a global limit of 2 and a repo limit of 1, four upsets of any kind, an edge added or removed | `LimitHeld`, `WaitedForParents` | 3,137,281 |
| `MCTrigger` | `MCTriggerDelivery` | an event, a webhook call, a schedule with one tick, 2 instances, two upsets of any kind | `TypeOK`, `OneTarget`, `MatchedAll`, `TickKept`, `DeliveriesEnd` | 170,881 |

### What they show

- **The run.** `LogExact`, `SpendOnce`, `HolderHasAgent` hold of the protocol as
  it is, in every interleaving. They are what the compare-and-swaps on
  `attached_by` and `consumed_bytes` are for. `LedgerSpec` says that
  `RunAttachment` implements `RunLedger` under `agent <- run.pid`,
  `settled <- run.exec = "exited"`. `CompletedIsWhole`, `StreamsOwnOutput`,
  `NoOrphan`, `OneAgent` hold under `Undisturbed`: a task is not put back to
  queued at a moment when some job sets the run up, acts on how its stream
  ended, or tidies up (`MidFlight`). The restriction is the honest statement of
  what the code gives: without it each of the four fails (`OneAgent` once there
  are three agents), because the start job's writes to the *pod* (the start
  script, the directory's removal) and to the task's *state* are not conditional
  on its hold. The models `V*` show the individual ways. A requeue while a job
  attaches, streams, settles, handles an error, or is about to close or to end is
  included. For all but `NoOrphan` every moment of `MidFlight` other than
  `prfound`, `launched` and `recorded` was found to matter: dropped, TLC finds a
  behaviour that breaks one of them. `NoOrphan` also needs that a job that
  launched an agent records it, and that the task keeps its state under a job on
  its way to a launch (`UndisturbedLaunch`): an instance killed between the two,
  or a pass that requeues the task for its lost pod while the shut-down job is
  still setting up, leaves an agent that no row knows. The model therefore has no
  crash and no setup error; the theorems of section 10 have every fault. `ActiveRunEnds`: a task does not stay in
  provisioning or running.
- **Persistent agents.** Whatever job, pod or instance is lost, a message stays
  in the inbox until a turn whose agent was started has it (`NothingLost`), the
  turns implement `Inbox` and come one at a time (`InboxSpec`, `OneTurn`), they
  end (`TurnsEnd`) and leave nothing unread (`EveryMessageRead`). `OneTurn`, and
  with it `InboxSpec`, needs three things that the code does not see to (and
  `TurnsEnd` is checked under the same). Users resume or restart the agent only at rest, with no turn open and no
  job at work (`RevivedAtRest`; section 9). No holder of a lease is late: a start
  job that stops for longer than a lease between two statements may find its turn
  halted by the reconciler and go on. And a job that has halted its turn reads the
  agent again before another job claims it (`ReadsBeforeClaims`): after a turn of
  more than five minutes a pass may give the agent back at once, and a job that
  reads it only then moves the *next* turn's agent to idle (`VLateMove`).
  `MCInbox` has no users' intents and no late lease, and its action constraint
  `Prompt` is the third restriction. `NothingLost` holds without any of
  them (section 10), and so does `TurnsGiveBack` in `MCControl`, which has intents,
  late leases and no such restriction.
- **Pull requests.** No interleaving of the two reads that precede a merge with
  pushes, new checks and a moving base merges a head that has not passed
  (`MergesChecked`), and no two passes together resume above the limit
  (`ResumesWithinLimit`): the merge is asked for by the head's commit, and a
  resume compares the version of the row. A pull request that somebody merged or closed settles its task
  (`SettledIsNoticed`), also when the row is queued, backed off or half written
  by a pass that died; a queued task always gets a job (`QueuedRuns`).
- **The queue.** Counting under the advisory lock keeps the limits
  (`LimitHeld`), a task does not start before what it waits for, also when a pass
  could not read that and queued it (`WaitedForParents`), and every lost job, release or
  cascade is made up for by the resync (`TasksMoveOn`). Not promised is that a
  task moves on whose parents have an open pull request and no more: the release
  at the end of the parent's run may be lost with its instance, or come before the
  task waits, and no pass repeats it until the parent completes.
- **Triggers.** An occurrence has one target although two instances may work on
  it (`OneTarget`), an event is dispatched only with all its occurrences
  (`MatchedAll`), a schedule moves on only with its tick stored (`TickKept`), and
  everything that was accepted ends (`DeliveriesEnd`). The instance has one trigger
  per event; that a dispatch which stores one occurrence and fails at the next
  is repeated until it has all is the theorem `MatchedAllAlways`, for any number
  of triggers. Of a trigger that a user changed meanwhile
  (`touched`), `MatchedAll` and `TickKept` say nothing.

### Bounds

*Runs.* Three jobs are one that starts, one that takes over and one that starts
the next attempt, which is what every property about two attempts needs; a fourth
is for two requeues. Two agents are two attempts; where no property speaks of
output, `MaxLines = 0`. `MaxAttachFailures` is 3 in the code; 1 makes the first
failed attach the last one, 2 has one that counts and one that gives up. In the
liveness models a job is used up by each claim and an agent by each launch, so
the bounds could themselves stop the task: with one or two faults and no requests
at most two requeues are possible, and 4 jobs and 3 agents are enough never to
run out. `lease` is not among the faults of these two models for that reason: a
live holder that loses its lease again and again uses up any number of jobs.

*Persistent agents.* Two messages are one that is drained and one that arrives
at any moment of that turn. `MCInbox` has as many
states with four turns as with three. In
`MCControl` the last turn may be used up; a job that then finds none is one that
stops before it has made its turn, and the property must survive that as well.

*Pull requests.* One resume is the limit and the attempt to exceed it. Two
passes are the resync and a wake-up; the watcher is a third reader.

*Queue.* In `MCParents` two workers compete for two places of which one repo may
have one; what must move on in `MCQueue` needs one worker. Three tasks have a
dependent with two parents; two suffice for what must move on, since a task
waits for each parent on its own.

*Triggers.* Two instances are one that lost its lock and one that dispatches
the row again. `MaxAttempts` is larger in the code; 1 makes the first failure the
last, so that a failed delivery is retried by its user within two upsets. One
tick has its occurrence and its successor, which never comes.

Jobs and passes are symmetric where no liveness is checked. Deadlock is not
checked: what is modelled really ends, and then nothing is left to do.

### Fairness

Weak fairness, of the steps of what goes on by itself, and nothing else: no
fairness is assumed of faults, of users, of renewals, or of a lease lapsing
under a live holder.

- *Runs:* each live job's own steps (that a job whose instance has stopped does
  nothing is part of the actions' guards), the sweep and the reattach it leads to
  (every 30 s on every instance), the reconciler's reading and acting (it resyncs
  on a timer), time (`ExpireLease` once nobody renews), the delivery of signals,
  and every agent's exit (a hung agent is the reconciler's stall detection, which
  is a fault here).
- *Persistent agents:* jobs, passes, the idle sweep's second half, agents' ends
  and lapsing leases.
- *Pull requests:* the watcher, passes, jobs, agents, the platform's checks, and
  the end of a back-off. Each watcher poll bumps the row's version and so voids a
  pass, which takes a moment while the watcher comes every 30 s: some pass gets
  through between two polls. That is strong fairness of a pass's write while its
  read is still fresh.
- *Queue:* submissions, runs, workers and passes. One pass serves all tasks, so
  its turn to each of them is strongly fair: the resync wakes it for every task
  that has not completed.
- *Triggers:* the delivery worker's tick (every second), the schedule checker's
  (every minute), and a live attempt's next step.

## 9. What the comments say and the interleavings refute

Each model `V*` checks one sentence of the source or its docs, and TLC finds a
behaviour of the code that contradicts it. `VTwoTurns` is the run listed with a
finding in `PROJECT.json`; the others are kept beside it.

| Model | Module | Sentence | What happens |
| --- | --- | --- | --- |
| `VTwoTurns` | `MCPersistentAgent` | `persistent-agent-pool-service.ts:11` "at most one pod per agent, at most one turn in flight at a time" | A restart moves the agent from provisioning or running to idle and leaves its turn and its agent alone; the next message starts a second turn. (A pause and a resume do the same.) |
| `VLateMove` | `MCPersistentAgent` | the same sentence | No user and no fault: a turn takes more than five minutes and halts. A pass finds no open turn and the grace over and gives the agent back, and another job claims it. Now the first job reads the agent and moves it, provisioning by the next turn, to idle; a third turn opens beside the second. |
| `VPaused` | `MCPersistentAgent` | `docs/reconciliation.md:93` "`paused` and `failed` require a manual `resume` control intent before the agent will act again" | The turn worker's catch block moves the agent to idle from whatever state it finds, also from a pause that came while the turn was set up. |
| `VReadOnce` | `MCPersistentAgent` | `persistent-agent-worker.ts:495` "drained into it, so later turns don't see them again" | The messages are marked after the agent was launched with them. A restart in between makes a second turn whose prompt has them as well. |
| `VLostFailure` | `MCPullRequest` | `docs/tasks.md:101` "If enabled, resume the agent on CI failure" | The watcher writes the failing checks to the row and then wakes the reconciler, whose decision asks whether the platform's checks differ from the row's (`reconcile-repo.ts:481`). A failure the watcher sees first is never acted on. |
| `VCancelled` | `MCPullRequest` | `task-service.ts:622` "A cancelled task must actually stop" | A resumed task still has its pull request's URL, so a pass moves it from running to `pr_opened` (`reconcile-repo.ts:308`) as soon as it runs. A cancel stops the agent of a running or provisioning task only. |
| `VCycle` | `MCTaskQueue` | `routes/dependencies.ts:112` "Fails with 400 if adding any edge would introduce a cycle" | Two requests check the graph, then both insert; both tasks wait for ever. |
| `VSkipped` | `MCTriggerDelivery` | `trigger-delivery.ts:2` "A crash after creating the target and before recording success therefore resumes the same target" | The trigger is judged again by the next attempt. Disabled meanwhile, it makes the occurrence `skipped`, whose target runs. |
| `VLateFailure` | `MCRunAttachment` | `task-worker.ts:840` "Only try to fail the task if it's still in a state we own" | The catch block asks whether the task is provisioning or running, not whether the job holds it. After a redo and another job's claim, a late setup error of the first job fails or requeues the second job's attempt. |
| `VLateKill` | `MCRunAttachment` | `task-service.ts:627` "a late kill cannot corrupt anything" | The kill of a cancel is scoped to the directory. Delivered after a retry has started again, it stops the new agent of a running task. |
| `VUnrecorded` | `MCRunAttachment` | RA:618 "the one rule for … every way the job ends" | An exception between the launch and `recordRunStarted` leaves the hold without the agent, so nothing stops it. (A second way: the instance shuts down during the launch and the task is queued again; `endRunJob` stops nothing once the hold is released.) |
| `VSlots` | `MCRunAttachment` | `repo-pool-service.ts:977` "given back when the run ends, by whichever instance finishes it" | A start job whose run was taken over before `running`, and the attach job that took it over, both give back the one slot when the run is reset. |
| `VLaunchStops` | `MCRunAttachment` | `run-protocol.ts:186` (a stale supervisor is one whose "starter went away before recording it") | A starter that lost the run launches late and stops the recorded agent of the job that has it. |
| `VDirectory` | `MCRunAttachment` | RA:1154 "removes the run's directory … once the run is terminal" | A retry between the transition and the removal starts a new agent in the directory that is then removed. |

`VLostFailure`, `VCancelled` and `VTwoTurns` need nothing unusual: the first is
the normal order of the watcher's poll, the others one user request. The rest need a
window of one or two `await`s. In most the reconciler or a sweep repairs the *state*
later; what is lost is an attempt, an agent's time, a slot, or (`VCycle`) the
tasks.

## 10. What is proved

TLC checks an instance; the theorems hold for any sets and bounds that satisfy a
module's `Parameters`, of the full `Spec` with every fault and request (so also
where the models of section 8 restrict them). Seven need a condition, which the
table names; each is one that the property is false without (sections 8 and 9).
Every safety property that a model checks is the statement of a theorem.

| Module | Theorem | States |
| --- | --- | --- |
| `RunAttachmentProofs` | `TypeCorrect` | `TypeOK` |
| `RunLedgerProofs` | `LogIsExact` | `LogExact`: no line twice, none missing |
| | `SpendIsAddedOnce` | `SpendOnce` |
| | `HolderOwnsAgent` | `HolderHasAgent` |
| | `AgentsStartFresh` | `StartsFresh` |
| | `ImplementsLedger` | `LedgerSpec`: `RunAttachment` implements `RunLedger` |
| `RunUndisturbedProofs` | `AgentsRunAlone` | `OneAgent`, of `Spec /\ UndisturbedRun` |
| | `HolderStreamsOwnOutput` | `StreamsOwnOutput`, likewise |
| | `CompletedTaskIsWhole` | `CompletedIsWhole`, likewise |
| | `NoAgentIsOrphaned` | `NoOrphan`, of `Spec /\ UndisturbedRun /\ UndisturbedLaunch` |
| `PersistentAgentProofs` | `TypeCorrect` | `TypeOK` |
| | `InboxSafe` | `NothingLost` |
| `PersistentAgentTurnProofs` | `TurnsComeOneByOne` | `OneTurn`, of `Spec /\ RevivedAtRest /\ ReadsBeforeClaims` without the fault `lease` |
| | `TurnsImplementInbox` | `InboxSpec`, likewise: `PersistentAgent` implements `Inbox` |
| `PullRequestProofs` | `TypeCorrect` | `TypeOK` |
| | `ChecksBeforeMerge` | `MergesChecked` |
| | `ResumesEnd` | `ResumesWithinLimit` |
| `TaskQueueProofs` | `TypeCorrect` | `TypeOK` |
| | `LimitsHold` | `LimitHeld` |
| | `WaitsForParents` | `WaitedForParents`, if edits add no edge of the submission again |
| `TriggerDeliveryProofs` | `TypeCorrect` | `TypeOK` |
| | `OneTargetEach` | `OneTarget` |
| | `MatchedAllAlways` | `MatchedAll` |
| | `TicksKept` | `TickKept` |

### The arguments

**`RunLedger`.** `Inductive` is the conjunction of `TypeOK`, `StartsFresh`,
`LogExact`, `SpendOnce` and `HolderHasAgent`. None of the middle three is
inductive alone. `LogExact` says where the log of the row's agent ends; when
`RecordStarted` makes another agent the row's, with offset 0, it is preserved
only if nothing of that agent was ever logged, which is what `StartsFresh`
says of an agent launched and not yet recorded; and that stays so because
batches go to the row's agent only, and no two jobs launched the same one. A
batch whose CAS matches lands at the end of the log because the job's offset
*is* `consumed`. `SpendOnce` needs the same for the spend, and `HolderHasAgent`
the fact that every step that changes the row's agent either takes the mark off
the row (`Reset`) or is made by the holder.

`RunLedgerProofs` splits a step into a few kinds (`StepKinds`): most are *quiet*
(agent, exit, offset, log and spend stay), some only reset the row; the rest are
`RecordStarted`, `Append` and `Settle`, treated one by one. Each conjunct has its
lemma, `InductiveStep` combines them, and `ImplementsLedger` maps the same kinds
to `RunLedger`'s actions: quiet steps to stutters, resets to `Requeue`,
`RecordStarted` to `Start`, `Append` to `Store`, `Settle` to `Settle`.

**The undisturbed run.** What a task's row says of its pod is the subject of
`InOrder`, which adds four things to `Inductive`. Of the pod and the row
(`World`): the directory holds the row's agent or nobody's, an agent that is
alive is the one in the directory, one whose exit is recorded has had its spend
recorded or will write nothing that anybody reads (`Gone`), and that of a
completed task has all of its output in the log (`Whole`).
Of each job (`Fits`): what it may still assume at the `await` it has reached; a
job on its way to a launch has the row to itself, without an agent; one past the
stream of an agent that ended finds its output whole. Of the holder (`Follows`):
its file is its agent's and its offset the row's. And a job that starts the run
is the only one in flight (`Sole`). `UndisturbedRun` enters where the task is put
back to queued: then nobody is in flight, so the next claim finds itself alone.
`OneAgent`, `StreamsOwnOutput` and `CompletedIsWhole` are then read off. A step
is one of these: it leaves the row's attempt as it is (*steady*; the pod may go on
or be lost), begins a new attempt, or is a launch, a recorded start, a batch, or
a recorded exit; the last four are treated singly.

`NoOrphan` asks more of an agent that is alive: it is the agent of an
active row, or its starter is still to record it, or a signal is on its way
(`Tended`). Under `UndisturbedLaunch` only the steps that end a job or a run could
leave it, and those are `endRunJob` and the announcements of a transition, which
signal it.

**`PersistentAgent`.** `NothingLost` is about the turn a message went to, so its
strengthening (`Safe`) says where jobs are: a job that has a turn has one that was
created, and one that is about to drain has one that was started (`Fits`). It
also says that turns are created in order (`InOrder`): the next one has a new
number, so no turn's messages are overwritten. Every other step keeps the turns
in the sense of `TurnsKept`: their messages stay, and a turn that was started
stays started or exits. That `OpenTurn` is a turn takes the existence of a
largest element, from the well-foundedness of `<` on the naturals.

**The turns.** `OneTurn` is about turns, but what keeps them apart are jobs and
decisions, so `Turned` says that at most one job is at work (`Alone`), that it
holds its turn's live lease and that the open turn is the one it works on
(`Owns`), and that an agent which may get a new turn is at rest (`Free`). A job
that has halted its turn is not at work any more, and others may be soon. Until it
has read the agent again, and from then on as long as it has missed no write, the
agent is at rest (`Owns`, too); so its move, a compare-and-swap, never takes the
agent from another's turn. The
reconciler may give an agent back without a job; that it does so only when
nobody is at work is a fact about the row as the pass read it, which `Granted`
states for passes that have missed no write: a claim is a write, and a job
attaches only to a turn that was started. With a lease that lapses under its
holder `Owns` is false, with a claim before the halting job's read its last part
is, and with a restart in the middle of a turn `Free` is: these are the theorem's
three conditions. For the refinement the open turn has taken none of
its messages or all of them (`AllOrNone`); `Drain` is then `Inbox`'s step, or a
stutter when a job that attached drains again.

**`PullRequest`.** `MergeSafe` strengthens `MergesChecked` to the moment before
the merge: a pass about to call it, and for which the head it read is still the
head, has found that head good. Good stays good, because checks that passed do
not run again and a head seen without checks for a minute gets none (the
assumption the executor itself makes); only a new head changes that, and of a
new head every pass is told apart by `current`, as the platform tells it by the
commit. `ResumeSafe` is the same for the count: a pass that has missed no write
and has decided to resume read the count there is. Every write of the row empties
`fresh`, so the only steps to look at are those that write nothing.

**`TaskQueue`.** `LimitHeld` needs two facts about the claim (`ClaimLock`): one
worker at a time is between its count and its claim, and as long as it is there,
a place it has counted is free, since nothing else makes a task active (rows move
only along `NextStates`, and to running only by a claim). `WaitedForParents`
rests on `Waited`: a task whose state satisfies a dependency is one that has
reached its pull request or its end, and a task that a job has taken has had every
parent it still depends on reached, because the job read its dependencies before.
It is stated for edits that do not add an edge of the
submission again (`NewEditsOnly`): an edge that is removed and added again while
a job has the task comes too late for that job, and the property would count it
although nobody could have waited for it.

**`TriggerDelivery`.** An occurrence's row lock is one instance's, and the row a
dispatch holds is pending (`OneHolder`, `Working`); hence a row fails exactly
with its last attempt. `OneTarget` does not need the lock: the target has the
occurrence's id, so the second insert finds it. `MatchedAll` follows from
`Covered` (an instance past a trigger has stored its occurrence) and from
occurrences never being removed. `TickKept` is a property of steps: the only one
that moves a schedule on stores the tick's occurrence in the same transaction.

### Only model-checked

- Liveness, which is out of the prover's reach: `ActiveRunEnds`, `TurnsEnd`,
  `EveryMessageRead`, `TurnsGiveBack`, `SettledIsNoticed`, `QueuedRuns`,
  `TasksMoveOn`, `DeliveriesEnd`.
- The refutations of section 9, which are counterexamples.

The strengthenings were model-checked before they were proved: `Turned` on an
instance of 8 million states, `InOrder` and `Tended` with all eight faults on
ones of 0.7 million.

## 11. What is not modelled

- **Most of the repository's lines** are clients (web, site, mobile, desktop),
  routes that validate and forward, adapters to git platforms, ticket providers
  and model vendors, parsers of agents' output, the schema, and deployment. They
  keep no state that several actors change, or keep it elsewhere. The modules
  here are about the orchestration core.
- **Standalone runs and PR reviews** use the functions of `run-attachment.ts` that
  `RunAttachment` models, with finishers of their own and a smaller state machine;
  a module for each would repeat it.
- **Several pods**, and the choice among them by `lastPodId`: `RunAttachment` has
  one pod, and a second one multiplies states that already fill an instance.
  Clean-up of idle pods belongs with it.
- **Reused pids**: an agent has an identity of its own here. Telling a pid that a
  restarted pod assigned again takes the pod's boot, which the row does not have.
- **Leases of pollers and listeners**: one conditional upsert decides each; what
  holders do under them is idempotent.
- **Local terminals, relay and remote workspaces**: sessions whose other half is
  a client or a shell.
- **Time**: back-off lengths, off-peak hours, grace periods and retention are
  reduced to on and over, or left out, as sections 3 to 7 say.

Each of the hazards in `PROJECT.json` that no run covers has a note with the
reason: it is either one of the above or stated by a property that the code
violates (section 9).
