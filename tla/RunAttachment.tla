---------------------------- MODULE RunAttachment ----------------------------
(***************************************************************************)
(* One repo task's run: the BullMQ jobs that start it or attach to it, the *)
(* task row they share, and the agent in the repo pod.                     *)
(*                                                                         *)
(* A job is one execution of task-worker's processor on some API instance: *)
(* a "start" job claims the queued task, launches an agent and streams it; *)
(* an "attach" job takes over a started run whose lease lapsed.  Between   *)
(* two awaits of a job anything else may happen, so each await that reads  *)
(* or writes shared state is an action.  A job's hold token is the job     *)
(* itself (a fresh nonce per hold).                                        *)
(*                                                                         *)
(* The row is written by single UPDATEs, several of them CASes on          *)
(* attached_by, consumed_bytes or state.  The pod runs at most one agent   *)
(* per run directory under a supervisor.  Signals to it are fire and       *)
(* forget: they sit in `kills` until delivered.                            *)
(***************************************************************************)
EXTENDS Integers, FiniteSets

CONSTANTS
    Jobs,               \* job executions, each one hold token
    NoJob,              \* attached_by = NULL
    MaxPid,             \* bound: agents launched for the task, 1..MaxPid
    MaxLines,           \* bound: lines an agent writes
    MaxAttachFailures,  \* MAX_ATTACH_FAILURES (3 in the code)
    Outcomes,           \* task states a finished agent's output may imply
    Faults,             \* kinds of fault the environment injects
    MaxFaults,          \* bound: faults injected
    MaxRequests         \* bound: cancels, retries and redos asked for

FaultKinds == {"crash", "shutdown", "setup", "stream", "drop", "pod", "lease", "stall"}
FinalStates == {"completed", "failed", "pr_opened", "needs_attention"}

ASSUME Parameters ==
    /\ NoJob \notin Jobs
    /\ MaxPid \in Nat /\ MaxLines \in Nat /\ MaxFaults \in Nat /\ MaxRequests \in Nat
    /\ MaxAttachFailures \in Nat \ {0}
    /\ Outcomes \subseteq FinalStates
    /\ Faults \subseteq FaultKinds

Pids  == 1 .. MaxPid
Lines == 1 .. MaxLines

VARIABLES
    run,        \* the task row: state and attachment columns
    job,        \* job[j]: where job j is and what it remembers
    sup,        \* sup[p]: agent p under its supervisor
    out,        \* out[p]: lines agent p has written
    dir,        \* the agent whose files the run directory holds, 0 for none
    podUp,      \* the repo pod is ready
    launched,   \* agents launched so far
    kills,      \* signals on their way: an agent, or 0 for "whoever runs the task"
    decision,   \* the transition a reconcile pass decided and has not applied
    rows,       \* rows[p][k]: task_logs rows stored for line k while the row named p
    spend,      \* spend[p]: times the usage of agent p was added to the task
    slots,      \* pod slots taken minus slots given back for this task
    faults,     \* faults injected so far
    requests    \* user requests so far

vars == <<run, job, sup, out, dir, podUp, launched, kills, decision, rows,
          spend, slots, faults, requests>>

podVars    == <<sup, out, dir, podUp, launched>>
ledgerVars == <<rows, spend>>
budgets    == <<faults, requests>>

-----------------------------------------------------------------------------
(* The shape of the state.                                                  *)

\* VALID_TRANSITIONS, of the states a run passes through.
NextStates ==
           [queued          |-> {"provisioning", "cancelled", "failed"},
            provisioning    |-> {"running", "failed", "queued"},
            running         |-> {"pr_opened", "completed", "needs_attention", "failed", "cancelled"},
            needs_attention |-> {"running", "queued", "cancelled"},
            pr_opened       |-> {"completed", "needs_attention", "failed", "cancelled", "queued"},
            failed          |-> {"queued", "completed"},
            cancelled       |-> {"queued"},
            completed       |-> {}]

States == DOMAIN NextStates
Active == {"provisioning", "running"}

Pcs == {"idle", "claimed", "setup", "prfound", "launched", "recorded",
        "reattach", "attached", "attaching", "streaming", "settling", "check",
        "deciding", "failing", "tidying", "closing", "ending", "done", "dead"}

\* hold.phase: still setting the run up, streaming it, or past the stream.
SetupPcs(origin) == {"claimed", "setup", "prfound", "launched", "recorded"}
                    \cup (IF origin = "start" THEN {"attaching"} ELSE {})

FreshJob == [pc |-> "idle", origin |-> "start", started |-> 0, agent |-> 0,
             pos |-> 0, src |-> 0, outcome |-> "none", end |-> "none",
             released |-> FALSE, saw |-> "queued", slot |-> FALSE]

Row == [state : States, exec : {"none", "started", "exited"},
        pid : 0 .. MaxPid, consumed : 0 .. MaxLines, by : Jobs \cup {NoJob},
        lease : {"none", "live", "expired"}, failures : Nat]

Job == [pc : Pcs, origin : {"start", "attach"},
        started : 0 .. MaxPid, agent : 0 .. MaxPid,
        pos : 0 .. MaxLines, src : 0 .. MaxPid,
        outcome : {"none", "exited", "lost", "podgone"},
        end : {"none", "finished", "detached", "reset", "failed"},
        released : BOOLEAN, saw : States, slot : BOOLEAN]

Decisions == {"none", "requeue", "attention", "stall", "podgone"}

TypeOK ==
    /\ run \in Row
    /\ job \in [Jobs -> Job]
    /\ sup \in [Pids -> {"none", "alive", "exited", "dead"}]
    /\ out \in [Pids -> 0 .. MaxLines]
    /\ dir \in 0 .. MaxPid
    /\ podUp \in BOOLEAN
    /\ launched \in 0 .. MaxPid
    /\ kills \subseteq 0 .. MaxPid
    /\ decision \in Decisions
    /\ rows \in [Pids -> [Lines -> Nat]]
    /\ spend \in [Pids -> Nat]
    /\ slots \in Int
    /\ faults \in 0 .. MaxFaults
    /\ requests \in 0 .. MaxRequests

Init ==
    /\ run = [state |-> "queued", exec |-> "none", pid |-> 0, consumed |-> 0,
              by |-> NoJob, lease |-> "none", failures |-> 0]
    /\ job = [j \in Jobs |-> FreshJob]
    /\ sup = [p \in Pids |-> "none"]
    /\ out = [p \in Pids |-> 0]
    /\ dir = 0
    /\ podUp = TRUE
    /\ launched = 0
    /\ kills = {}
    /\ decision = "none"
    /\ rows = [p \in Pids |-> [k \in Lines |-> 0]]
    /\ spend = [p \in Pids |-> 0]
    /\ slots = 0
    /\ faults = 0
    /\ requests = 0

-----------------------------------------------------------------------------
(* What several actions share.                                              *)

At(j, pc) == job[j].pc = pc
Alive(j) == job[j].pc \notin {"idle", "reattach", "done", "dead"}
Holds(j) == run.by = j

Fault(kind) == kind \in Faults /\ faults < MaxFaults /\ faults' = faults + 1
Request     == requests < MaxRequests /\ requests' = requests + 1

CanMove(s) == s \in NextStates[run.state]

\* Moving on from an active state stops its agent: always on a cancel, on a
\* failure when the agent is not known to have exited.
StopsAgent(s) == /\ run.state \in Active
                 /\ s = "cancelled" \/ (s = "failed" /\ run.exec = "started")

\* A transition other than back to queued, with its announcement.  Every
\* write of updatedAt makes a decision read before it stale.
MoveTo(s) ==
    /\ CanMove(s)
    /\ run' = [run EXCEPT !.state = s]
    /\ kills' = IF StopsAgent(s) THEN kills \cup {0} ELSE kills
    /\ decision' = "none"

\* stopPreviousAttempt: a signal to the started agent of the last attempt.
\* (Operators named X_... are wrong variants of X that properties catch.)
StopPrevious_Never == kills
StopPrevious == IF run.exec = "started" THEN kills \cup {run.pid} ELSE kills

\* NEW_ATTEMPT_EXECUTION.
Reset_KeepsHold == [run EXCEPT !.exec = "none", !.pid = 0, !.consumed = 0, !.lease = "none"]
Reset == [run EXCEPT !.exec = "none", !.pid = 0, !.consumed = 0, !.by = NoJob, !.lease = "none"]

\* Back to queued: a new attempt.
NewAttempt ==
    /\ run' = [Reset EXCEPT !.state = "queued"]
    /\ kills' = StopPrevious
    /\ decision' = "none"

Requeue == CanMove("queued") /\ NewAttempt

\* How job j lost its run, as classifyLoss reads it.
LossOf_Raw(j) == IF run.exec = "none" THEN "reset" ELSE "taken"
LossOf(j) == IF run.exec = "none" \/ (job[j].agent # 0 /\ run.pid # job[j].agent)
             THEN "reset" ELSE "detached"

\* The agent job j started or claimed may still run with nobody to finish it.
LeftBehind(j) ==
    /\ job[j].agent # 0
    /\ \/ run.pid # job[j].agent
       \/ run.exec = "none"
       \/ run.exec = "started" /\ ~(run.by \notin {NoJob, j} /\ run.lease = "live")

ToEnd(j, end) == job' = [job EXCEPT ![j].pc = "ending", ![j].end = end]

-----------------------------------------------------------------------------
(* The job that starts the run.                                             *)

\* The claim under the advisory lock: queued -> provisioning.
Claim(j) ==
    /\ At(j, "idle")
    /\ MoveTo("provisioning")
    /\ job' = [job EXCEPT ![j].pc = "claimed"]
    /\ UNCHANGED <<podVars, ledgerVars, slots, budgets>>

\* beginHold: a statement of its own after the claim, unconditional.
BeginHold(j) ==
    /\ At(j, "claimed")
    /\ run' = [run EXCEPT !.by = j, !.lease = "live"]
    /\ job' = [job EXCEPT ![j].pc = "setup"]
    /\ UNCHANGED <<podVars, kills, decision, ledgerVars, slots, budgets>>

\* The branch already has a pull request: running, then pr_opened, no agent.
PrFound(j) ==
    /\ At(j, "setup") /\ "pr_opened" \in Outcomes
    /\ MoveTo("running")
    /\ job' = [job EXCEPT ![j].pc = "prfound"]
    /\ UNCHANGED <<podVars, ledgerVars, slots, budgets>>

PrOpened(j) ==
    /\ At(j, "prfound")
    /\ MoveTo("pr_opened")
    /\ ToEnd(j, "none")
    /\ UNCHANGED <<podVars, ledgerVars, slots, budgets>>

\* The start script stops the supervisor alive in the run directory and moves
\* the last attempt's files aside, never writing into them.
StopsStale_Never(q) == FALSE
StopsStale(q) == q = dir
FilesOf_Kept(p) == IF dir = 0 THEN p ELSE dir
FilesOf(p) == p

\* An agent is known by its supervisor's pid, new in the pod.
NextPid_Reused == IF launched = 0 THEN 1 ELSE launched
NextPid == launched + 1

\* startTaskInRepoPod: a slot, then the start script.
LaunchAgent(j) ==
    /\ At(j, "setup") /\ launched < MaxPid
    /\ LET p == NextPid IN
        /\ launched' = p
        /\ sup' = [q \in Pids |-> IF q = p THEN "alive"
                                  ELSE IF StopsStale(q) /\ sup[q] = "alive" THEN "exited"
                                  ELSE sup[q]]
        /\ dir' = FilesOf(p)
        /\ job' = [job EXCEPT ![j].pc = "launched", ![j].started = p, ![j].slot = TRUE]
    /\ podUp' = TRUE
    /\ slots' = slots + 1
    /\ decision' = "none"
    /\ UNCHANGED <<run, out, kills, ledgerVars, budgets>>

\* recordRunStarted: a CAS on the hold.
RecordCas(j) == Holds(j)

RecordStarted(j) ==
    /\ At(j, "launched")
    /\ IF RecordCas(j)
       THEN /\ run' = [run EXCEPT !.exec = "started", !.pid = job[j].started,
                                  !.consumed = 0, !.lease = "live", !.failures = 0]
            /\ job' = [job EXCEPT ![j].pc = "recorded", ![j].agent = job[j].started]
       ELSE /\ job' = [job EXCEPT ![j].pc = "ending", ![j].agent = job[j].started]
            /\ UNCHANGED run
    /\ UNCHANGED <<podVars, kills, decision, ledgerVars, slots, budgets>>

ToRunning(j) ==
    /\ At(j, "recorded")
    /\ MoveTo("running")
    /\ job' = [job EXCEPT ![j].pc = "attaching"]
    /\ UNCHANGED <<podVars, ledgerVars, slots, budgets>>

\* A throw while the run is set up.  The catch block looks at the task's state
\* and at whether this job attempted a start: a task provisioning before that
\* is queued again or failed, any other active task failed.
SetupError(j) ==
    IF run.state \notin Active
    THEN UNCHANGED <<run, kills, decision>>
    ELSE \/ MoveTo("failed")
         \/ run.state = "provisioning" /\ job[j].pc \in {"claimed", "setup", "prfound"} /\ Requeue

SetupFails(j) ==
    /\ job[j].pc \in SetupPcs(job[j].origin)
    /\ Fault("setup")
    /\ SetupError(j)
    /\ ToEnd(j, "none")
    /\ UNCHANGED <<podVars, ledgerVars, slots, requests>>

\* A transition the start job needs is not valid any more: it throws too, or
\* (the state moved during the transition, a StateRaceError) just returns.
StartRefused(j) ==
    /\ \/ At(j, "setup") /\ "pr_opened" \in Outcomes /\ ~CanMove("running")
       \/ At(j, "recorded") /\ ~CanMove("running")
       \/ At(j, "prfound") /\ ~CanMove("pr_opened")
    /\ SetupError(j) \/ UNCHANGED <<run, kills, decision>>
    /\ ToEnd(j, "none")
    /\ UNCHANGED <<podVars, ledgerVars, slots, budgets>>

-----------------------------------------------------------------------------
(* The job that attaches to a started run.                                  *)

\* The sweep and a reconcile pass found the lease lapsed and queued an attach
\* job; it starts by reading the task.
AttachRead(j) ==
    /\ At(j, "idle")
    /\ run.state \in Active /\ run.exec # "none" /\ run.lease = "expired"
    /\ \A i \in Jobs : ~At(i, "reattach")
    /\ job' = [job EXCEPT ![j].pc = "reattach", ![j].origin = "attach", ![j].saw = run.state]
    /\ UNCHANGED <<run, podVars, kills, decision, ledgerVars, slots, budgets>>

\* claimAttachment: one UPDATE with all its conditions, an agent that exited
\* but whose run is not finished included.  A lost claim is a skipped job,
\* which leaves nothing behind.
Claimable_StartedOnly == run.exec = "started" /\ run.state \in Active /\ run.lease # "live"
Claimable == run.exec # "none" /\ run.state \in Active /\ run.lease # "live"

AttachClaim(j) ==
    /\ At(j, "reattach")
    /\ IF Claimable
       THEN /\ run' = [run EXCEPT !.by = j, !.lease = "live"]
            /\ job' = [job EXCEPT ![j].pc = "attached", ![j].agent = run.pid,
                                  ![j].pos = run.consumed]
       ELSE /\ job' = [job EXCEPT ![j] = FreshJob]
            /\ UNCHANGED run
    /\ UNCHANGED <<podVars, kills, decision, ledgerVars, slots, budgets>>

\* The pod is ready: a task seen provisioning becomes running, then the stream.
AttachPod(j) ==
    /\ At(j, "attached") /\ podUp
    /\ IF job[j].saw = "provisioning"
       THEN MoveTo("running")
       ELSE UNCHANGED <<run, kills, decision>>
    /\ job' = [job EXCEPT ![j].pc = "attaching"]
    /\ UNCHANGED <<podVars, ledgerVars, slots, budgets>>

\* The pod is gone: settle without output, then fail the task.
AttachPodGone(j) ==
    /\ At(j, "attached") /\ ~podUp
    /\ job' = [job EXCEPT ![j].pc = "settling", ![j].outcome = "podgone"]
    /\ UNCHANGED <<run, podVars, kills, decision, ledgerVars, slots, budgets>>

-----------------------------------------------------------------------------
(* Streaming.                                                               *)

\* attachRun opens whatever output file the run directory holds.  A job of
\* an instance that is shutting down does not open it.
OpenStream(j) ==
    /\ At(j, "attaching")
    /\ IF job[j].released
       THEN ToEnd(j, "detached")
       ELSE job' = [job EXCEPT ![j].pc = "streaming", ![j].src = dir]
    /\ UNCHANGED <<run, podVars, kills, decision, ledgerVars, slots, budgets>>

\* Progress of an attach job forgets the attach jobs that failed before it.
Progress(j) == IF job[j].origin = "attach" THEN 0 ELSE run.failures

\* Lines from .. to of the opened output become log rows of the run's agent.
StoreRows_Skips(from, to) ==
    rows' = [rows EXCEPT ![run.pid] =
               [k \in Lines |-> IF from < k /\ k <= to THEN @[k] + 1 ELSE @[k]]]
StoreRows(from, to) ==
    rows' = [rows EXCEPT ![run.pid] =
               [k \in Lines |-> IF from <= k /\ k <= to THEN @[k] + 1 ELSE @[k]]]

\* appendRunLogsBatch: the lines after the job's offset and the new offset in
\* one transaction, a CAS on the holder and on the old offset.
AppendCas_None(j) == run.pid # 0
AppendCas(j) == Holds(j) /\ run.consumed = job[j].pos

Append(j) ==
    /\ At(j, "streaming") /\ job[j].src # 0
    /\ AppendCas(j)
    /\ \E to \in job[j].pos + 1 .. out[job[j].src] :
        /\ run' = [run EXCEPT !.consumed = to, !.failures = Progress(j)]
        /\ job' = [job EXCEPT ![j].pos = to]
        /\ StoreRows(job[j].pos + 1, to)
    /\ UNCHANGED <<podVars, kills, decision, spend, slots, budgets>>

\* The batch's CAS, or a renewal, matched nothing: the run was taken or reset.
NoticeLoss(j) ==
    /\ At(j, "streaming")
    /\ ~AppendCas(j)
    /\ ToEnd(j, LossOf(j))
    /\ UNCHANGED <<run, podVars, kills, decision, ledgerVars, slots, budgets>>

\* Shutdown severed the stream: the run is left to the next attach.
Detach(j) ==
    /\ At(j, "streaming") /\ job[j].released
    /\ ToEnd(j, "detached")
    /\ UNCHANGED <<run, podVars, kills, decision, ledgerVars, slots, budgets>>

\* The exec connection dropped: so it is too.
Drop(j) ==
    /\ At(j, "streaming") /\ ~job[j].released
    /\ Fault("drop")
    /\ ToEnd(j, "detached")
    /\ UNCHANGED <<run, podVars, kills, decision, ledgerVars, slots, requests>>

\* The supervisor of the opened output is gone and every line of it was
\* handled; the exit file is then read by its path in the run directory.
StreamOver_Early(j) == job[j].src # 0 => sup[job[j].src] # "alive"
StreamOver(j) == job[j].src # 0 => sup[job[j].src] # "alive" /\ out[job[j].src] <= job[j].pos

StreamEnds(j) ==
    /\ At(j, "streaming") /\ ~job[j].released
    /\ StreamOver(j)
    /\ job' = [job EXCEPT ![j].pc = "settling",
                          ![j].outcome = IF job[j].src # 0 /\ dir # 0 /\ sup[dir] = "exited"
                                         THEN "exited" ELSE "lost"]
    /\ UNCHANGED <<run, podVars, kills, decision, ledgerVars, slots, budgets>>

\* An error while streaming or after (onStreamError).  A start job leaves the
\* run to an attach; an attach job counts it, and the last one counted fails
\* the run.  "detached" also when counting fails or the instance shuts down.
StreamTrouble(j) ==
    \/ ToEnd(j, "detached") /\ UNCHANGED run
    \/ ~job[j].released /\ ~Holds(j) /\ ToEnd(j, LossOf(j)) /\ UNCHANGED run
    \/ /\ ~job[j].released /\ job[j].origin = "attach" /\ Holds(j)
       /\ run' = [run EXCEPT !.failures = @ + 1]
       /\ IF run.failures + 1 >= MaxAttachFailures
          THEN job' = [job EXCEPT ![j].pc = "failing"]
          ELSE ToEnd(j, "detached")
    \/ ~job[j].released /\ job[j].origin = "start" /\ Holds(j)
       /\ run' = [run EXCEPT !.lease = "live"] /\ ToEnd(j, "detached")

StreamError(j) ==
    /\ job[j].pc \in {"attached", "attaching", "streaming", "settling", "check", "deciding"}
    /\ job[j].pc \notin SetupPcs(job[j].origin)
    /\ Fault("stream")
    /\ StreamTrouble(j)
    /\ UNCHANGED <<podVars, kills, decision, ledgerVars, slots, requests>>

\* The attach job's "running" is refused: the same path, without a fault.
AttachRefused(j) ==
    /\ At(j, "attached") /\ podUp
    /\ job[j].saw = "provisioning" /\ ~CanMove("running")
    /\ StreamTrouble(j)
    /\ UNCHANGED <<podVars, kills, decision, ledgerVars, slots, budgets>>

FailRun(j) ==
    /\ At(j, "failing")
    /\ IF CanMove("failed") THEN MoveTo("failed") ELSE UNCHANGED <<run, kills, decision>>
    /\ ToEnd(j, "failed")
    /\ UNCHANGED <<podVars, ledgerVars, slots, budgets>>

-----------------------------------------------------------------------------
(* Settling and finishing.                                                  *)

\* settleRun: the exit, and the spend of an agent that exited, in one
\* statement that needs the hold and an exit nobody recorded.
SettleCas_AnyExec(j) == Holds(j)
SettleCas(j) == Holds(j) /\ run.exec = "started"

Settle(j) ==
    /\ At(j, "settling")
    /\ LET next == IF job[j].outcome = "exited" THEN "check" ELSE "deciding" IN
       \/ /\ SettleCas(j)
          /\ run' = [run EXCEPT !.exec = "exited"]
          /\ job' = [job EXCEPT ![j].pc = next]
          /\ IF job[j].outcome = "exited"
             THEN spend' = [spend EXCEPT ![run.pid] = @ + 1] /\ decision' = "none"
             ELSE UNCHANGED <<spend, decision>>
       \/ /\ Holds(j) /\ run.exec = "exited"
          /\ job' = [job EXCEPT ![j].pc = next]
          /\ UNCHANGED <<run, spend, decision>>
       \/ /\ ~Holds(j)
          /\ ToEnd(j, LossOf(j))
          /\ UNCHANGED <<run, spend, decision>>
    /\ UNCHANGED <<podVars, kills, rows, slots, budgets>>

\* A task not running any more is left in the state it has.
FinishCheck(j) ==
    /\ At(j, "check")
    /\ job' = [job EXCEPT ![j].pc = IF run.state = "running" THEN "deciding" ELSE "closing"]
    /\ UNCHANGED <<run, podVars, kills, decision, ledgerVars, slots, budgets>>

\* The transitions a job's outcome may lead to: the verdict on the output of
\* an agent that exited, failed for a run that was lost.
Verdicts(j) == IF job[j].outcome = "exited" THEN Outcomes ELSE {"failed"}

Decide(j) ==
    /\ At(j, "deciding")
    /\ job[j].outcome = "podgone" /\ job[j].saw = "provisioning" => CanMove("running")
    /\ \E s \in Verdicts(j) : MoveTo(s)
    /\ job' = [job EXCEPT ![j].pc = IF job[j].outcome = "exited" THEN "tidying" ELSE "closing"]
    /\ UNCHANGED <<podVars, ledgerVars, slots, budgets>>

\* The transition is refused: the state moved between check and transition
\* (or within it, a StateRaceError, which a start job takes as a plain return).
DecideRefused(j) ==
    /\ At(j, "deciding")
    /\ \/ \E s \in Verdicts(j) : ~CanMove(s)
       \/ job[j].outcome = "podgone" /\ job[j].saw = "provisioning" /\ ~CanMove("running")
    /\ \/ StreamTrouble(j)
       \/ job[j].origin = "start" /\ ToEnd(j, "none") /\ UNCHANGED run
    /\ UNCHANGED <<podVars, kills, decision, ledgerVars, slots, budgets>>

\* removeRunDirectory, by its path.
Tidy(j) ==
    /\ At(j, "tidying")
    /\ dir' = 0
    /\ job' = [job EXCEPT ![j].pc = "closing"]
    /\ UNCHANGED <<run, sup, out, podUp, launched, kills, decision, ledgerVars, slots, budgets>>

\* closeAttachment.
Close(j) ==
    /\ At(j, "closing")
    /\ run' = IF Holds(j) THEN [run EXCEPT !.by = NoJob, !.lease = "none"] ELSE run
    /\ ToEnd(j, "finished")
    /\ UNCHANGED <<podVars, kills, decision, ledgerVars, slots, budgets>>

\* endRunJob, then the pod slot.  A job past its setup that ended without
\* saying how detaches, but gives its slot back.
EndRunJob(j) ==
    /\ At(j, "ending")
    /\ LET how == IF job[j].end = "none" /\ job[j].outcome # "none"
                  THEN "detached" ELSE job[j].end
           stops == /\ how \notin {"finished", "detached"}
                    /\ ~job[j].released /\ LeftBehind(j)
           givesUp == (how # "finished" \/ job[j].released) /\ Holds(j)
           givesSlot == IF job[j].origin = "start"
                        THEN job[j].slot /\ job[j].end # "detached"
                        ELSE job[j].end \in {"finished", "reset", "failed"}
       IN /\ kills' = IF stops THEN kills \cup {job[j].agent} ELSE kills
          /\ run' = IF givesUp THEN [run EXCEPT !.lease = "expired"] ELSE run
          /\ slots' = IF givesSlot THEN slots - 1 ELSE slots
    /\ job' = [job EXCEPT ![j].pc = "done"]
    /\ UNCHANGED <<podVars, decision, ledgerVars, budgets>>

-----------------------------------------------------------------------------
(* Instances that stop, leases that lapse.                                  *)

\* detachAll on shutdown: a hold in its setup or streaming phase is let go.
Shutdown(j) ==
    /\ job[j].pc \in {"setup", "prfound", "launched", "recorded", "attached", "attaching", "streaming"}
    /\ ~job[j].released
    /\ Fault("shutdown")
    /\ job' = [job EXCEPT ![j].released = TRUE]
    /\ run' = IF Holds(j) THEN [run EXCEPT !.lease = "expired"] ELSE run
    /\ UNCHANGED <<podVars, kills, decision, ledgerVars, slots, requests>>

Crash(j) ==
    /\ Alive(j)
    /\ Fault("crash")
    /\ job' = [job EXCEPT ![j].pc = "dead"]
    /\ UNCHANGED <<run, podVars, kills, decision, ledgerVars, slots, requests>>

\* The hold's timer.
Renew(j) ==
    /\ Alive(j) /\ ~At(j, "claimed") /\ ~job[j].released /\ Holds(j)
    /\ run.lease = "expired"
    /\ run' = [run EXCEPT !.lease = "live"]
    /\ UNCHANGED <<job, podVars, kills, decision, ledgerVars, slots, budgets>>

\* A job is about to renew the lease, or (no lease yet) just claimed the run.
Renewed == \E j \in Jobs : /\ Alive(j) /\ ~job[j].released
                           /\ Holds(j) \/ (run.by = NoJob /\ At(j, "claimed"))

\* The lease's time passes, or an active row with no lease goes untouched for
\* two lease periods.  While its holder lives that takes a slow holder.
ExpireLease ==
    /\ run.lease # "expired" /\ run.state \in Active
    /\ IF Renewed THEN Fault("lease") ELSE UNCHANGED faults
    /\ run' = [run EXCEPT !.lease = "expired"]
    /\ UNCHANGED <<job, podVars, kills, decision, ledgerVars, slots, requests>>

-----------------------------------------------------------------------------
(* The pod.                                                                 *)

AgentWrites(p) ==
    /\ sup[p] = "alive" /\ out[p] < MaxLines
    /\ out' = [out EXCEPT ![p] = @ + 1]
    /\ UNCHANGED <<run, job, sup, dir, podUp, launched, kills, decision, ledgerVars, slots, budgets>>

AgentExits(p) ==
    /\ sup[p] = "alive"
    /\ sup' = [sup EXCEPT ![p] = "exited"]
    /\ UNCHANGED <<run, job, out, dir, podUp, launched, kills, decision, ledgerVars, slots, budgets>>

\* The pod restarts (its files survive or not) or goes for good.
PodDies ==
    /\ Fault("pod")
    /\ sup' = [p \in Pids |-> IF sup[p] = "alive" THEN "dead" ELSE sup[p]]
    /\ \/ podUp' = TRUE /\ dir' \in {0, dir}
       \/ podUp' = FALSE /\ dir' = 0
    /\ UNCHANGED <<run, job, out, launched, kills, decision, ledgerVars, slots, requests>>

\* killRunScript: scoped to an agent's supervisor, or (terminateTaskExecution)
\* whoever runs in the directory, then any process with the task's id, and
\* the row's worktree state written.
DeliverKill(p) ==
    /\ p \in kills
    /\ kills' = kills \ {p}
    /\ sup' = [q \in Pids |-> IF sup[q] # "alive" THEN sup[q]
                              ELSE IF q = dir /\ p \in {0, q} THEN "exited"
                              ELSE IF p = 0 THEN "dead" ELSE "alive"]
    /\ decision' = IF p = 0 THEN "none" ELSE decision
    /\ UNCHANGED <<run, job, out, dir, podUp, launched, ledgerVars, slots, budgets>>

-----------------------------------------------------------------------------
(* Users and the reconciler.                                                *)

Cancel ==
    /\ Request
    /\ MoveTo("cancelled")
    /\ UNCHANGED <<job, podVars, ledgerVars, slots, faults>>

Retry ==
    /\ Request
    /\ Requeue
    /\ UNCHANGED <<job, podVars, ledgerVars, slots, faults>>

\* forceRedoTask: from any state, and the log goes.
Redo ==
    /\ Request
    /\ NewAttempt
    /\ rows' = [p \in Pids |-> [k \in Lines |-> 0]]
    /\ UNCHANGED <<job, podVars, spend, slots, faults>>

\* A reconcile pass reads the row and decides.
Reads(d) ==
    CASE d = "requeue"   -> run.state = "provisioning" /\ podUp /\ run.exec = "none" /\ run.lease = "expired"
      [] d = "attention" -> run.state = "running" /\ podUp /\ run.exec = "none" /\ run.lease = "expired"
      [] d = "stall"     -> run.state = "running" /\ podUp /\ run.lease = "live"
      [] d = "podgone"   -> run.state \in Active /\ ~podUp

ReconcileReads ==
    /\ decision = "none"
    /\ \E d \in Decisions \ {"none"} :
        /\ Reads(d)
        /\ IF d = "stall" THEN Fault("stall") ELSE UNCHANGED faults
        /\ decision' = d
    /\ UNCHANGED <<run, job, podVars, kills, ledgerVars, slots, requests>>

\* It acts on the version it read; a row written since makes it stale.
ReconcileActs ==
    /\ \/ decision = "requeue" /\ Requeue
       \/ decision = "attention" /\ MoveTo("needs_attention")
       \/ decision \in {"stall", "podgone"} /\ MoveTo("failed")
    /\ UNCHANGED <<job, podVars, ledgerVars, slots, budgets>>

-----------------------------------------------------------------------------

StartStep(j) ==
    \/ Claim(j) \/ BeginHold(j) \/ PrFound(j) \/ PrOpened(j) \/ LaunchAgent(j)
    \/ RecordStarted(j) \/ ToRunning(j) \/ StartRefused(j)
AttachStep(j) ==
    \/ AttachRead(j) \/ AttachClaim(j) \/ AttachPod(j) \/ AttachPodGone(j) \/ AttachRefused(j)
StreamStep(j) ==
    \/ OpenStream(j) \/ Append(j) \/ NoticeLoss(j) \/ Detach(j) \/ StreamEnds(j)
FinishStep(j) ==
    \/ Settle(j) \/ FinishCheck(j) \/ Decide(j) \/ DecideRefused(j) \/ FailRun(j)
    \/ Tidy(j) \/ Close(j) \/ EndRunJob(j)
Trouble(j) ==
    \/ SetupFails(j) \/ StreamError(j) \/ Drop(j) \/ Shutdown(j) \/ Crash(j)
Pod ==
    \/ \E p \in Pids : AgentWrites(p) \/ AgentExits(p)
    \/ \E p \in 0 .. MaxPid : DeliverKill(p)
    \/ PodDies

Next ==
    \/ \E j \in Jobs : StartStep(j) \/ AttachStep(j) \/ StreamStep(j) \/ FinishStep(j)
                       \/ Trouble(j) \/ Renew(j)
    \/ ExpireLease \/ Pod
    \/ Cancel \/ Retry \/ Redo
    \/ ReconcileReads \/ ReconcileActs

Spec == Init /\ [][Next]_vars

-----------------------------------------------------------------------------
(* Properties.                                                              *)

Ledger == INSTANCE RunLedger WITH agent <- run.pid, settled <- run.exec = "exited"

\* "A run that changes instances never gets a duplicate or a gap"
\* (run-log-service.ts:231): for every agent the row named, the log is a
\* prefix of the output with each line once, and for the agent it names now
\* the prefix ends at consumed_bytes.
LogExact ==
    /\ \A p \in Pids : \E n \in 0 .. MaxLines : rows[p] = Ledger!FirstN(n)
    /\ run.pid # 0 => rows[run.pid] = Ledger!FirstN(run.consumed)

\* Jobs, leases and CAS writes implement the ledger: a log that grows by whole
\* batches of the current agent's output, an agent's spend added once.
LedgerSpec == Ledger!Spec

\* "So spend is added once, whoever finishes the run" (run-attachment.ts:341):
\* whatever jobs crash, replay or finish late, an agent's usage is added at
\* most once, and only when its exit is recorded or its attempt is over.
SpendOnce ==
    \A p \in Pids : /\ spend[p] <= 1
                    /\ spend[p] = 1 /\ run.pid = p => run.exec = "exited"

\* The job whose mark is on the row, past its claim or its recorded start,
\* is about the agent the row names: its CASes never write about another
\* attempt's agent.
Owning == {"recorded", "attached", "attaching", "streaming", "settling",
           "check", "deciding", "failing", "tidying", "closing"}
HolderHasAgent ==
    \A j \in Jobs : Holds(j) /\ job[j].pc \in Owning =>
        /\ run.exec # "none"
        /\ job[j].agent = run.pid

\* The inductive invariant behind LogExact, SpendOnce and HolderHasAgent: an
\* agent launched and not yet recorded is nobody else's and has no rows or
\* spend, nor has one not yet launched.
StartsFresh ==
    /\ run.pid <= launched
    /\ run.exec # "none" => run.pid # 0
    /\ \A j \in Jobs : job[j].started <= launched
    /\ \A p \in Pids : p > launched => rows[p] = Ledger!FirstN(0) /\ spend[p] = 0
    /\ \A j \in Jobs : At(j, "launched") =>
         /\ job[j].started \notin {0, run.pid}
         /\ rows[job[j].started] = Ledger!FirstN(0) /\ spend[job[j].started] = 0
         /\ \A i \in Jobs : At(i, "launched") /\ job[i].started = job[j].started => i = j

Inductive == TypeOK /\ StartsFresh /\ LogExact /\ SpendOnce /\ HolderHasAgent

\* An agent that runs is somebody's: a job at work has it, or the row of an
\* active task says it was started (so an attach will find it), or a signal
\* for it is on its way.
NoOrphan ==
    \A p \in Pids : sup[p] = "alive" =>
        \/ \E j \in Jobs : Alive(j) /\ p \in {job[j].started, job[j].agent}
        \/ run.pid = p /\ run.exec = "started" /\ run.state \in Active
        \/ p \in kills \/ 0 \in kills

\* A task completed by its agent: that agent's whole output is in the log and
\* its spend is recorded, once.
CompletedIsWhole ==
    run.state = "completed" =>
        /\ run.exec = "exited" /\ spend[run.pid] = 1
        /\ run.consumed = out[run.pid]

\* The job that holds the run streams the output of the run's own agent.
StreamsOwnOutput ==
    \A j \in Jobs : Holds(j) /\ At(j, "streaming") => job[j].src \in {0, run.pid}

\* "One run directory, one agent" (run-protocol.ts:188).
OneAgent == \A p, q \in Pids : sup[p] = "alive" /\ sup[q] = "alive" => p = q

\* What CompletedIsWhole, StreamsOwnOutput and OneAgent need: the task is not
\* put back to queued while a job sets the run up (from the claim to the
\* recorded start), acts on how its stream ended, or tidies up.  A job that
\* streams, attaches or handles an error may be in the way.
\* (The code does not see to that: a retry or redo finds what it finds.)
MidFlight == {"claimed", "setup", "prfound", "launched", "recorded",
              "check", "deciding", "tidying"}
Requeues == run'.state = "queued" /\ (run.state # "queued" \/ requests' # requests)
Clear == \A j \in Jobs : job[j].pc \notin MidFlight

UndisturbedRun == [][Requeues => Clear']_vars

\* What NoOrphan needs as well: a job that launched an agent stays to record
\* it, and the task does not change its state under a job that claimed it and
\* is on its way there.  (A crash in between, an error, or a reconcile pass
\* that finds the pod gone breaks that: see LeftAgentSignalled.)
Launching == {"claimed", "setup", "launched"}
LaunchKept ==
    /\ \A j \in Jobs : At(j, "launched") => job'[j].pc \in {"launched", "recorded"}
    /\ run'.state # run.state =>
         \A j \in Jobs : ~(job[j].pc \in Launching /\ job'[j].pc \in Launching)

UndisturbedLaunch == [][LaunchKept]_vars

-----------------------------------------------------------------------------
(* Liveness.                                                                *)

\* The event loop of a live instance goes on, and so do the sweep, the
\* reconciler and time; an agent ends at last.  Nothing makes a fault or a
\* user's request happen, nor a holder's lease lapse under it.
Fairness ==
    /\ \A j \in Jobs : WF_vars(StartStep(j) \/ AttachStep(j) \/ StreamStep(j) \/ FinishStep(j))
    /\ \A p \in Pids : WF_vars(AgentExits(p))
    /\ \A p \in 0 .. MaxPid : WF_vars(DeliverKill(p))
    /\ WF_vars(ExpireLease /\ ~Renewed)
    /\ WF_vars(ReconcileReads /\ UNCHANGED faults)
    /\ WF_vars(ReconcileActs)

LiveSpec == Spec /\ Fairness

\* A task does not stay active for ever, whatever of its jobs and instances
\* stopped on the way: some job finishes it, or the reconciler moves it on.
ActiveRunEnds == run.state \in Active ~> run.state \notin Active

-----------------------------------------------------------------------------
(* What comments of the code say and interleavings refute.                  *)

\* "Only try to fail the task if it's still in a state we own"
\* (task-worker.ts:840): a job whose setup failed moves only a run it holds.
FailsOnlyOwnRun ==
    [][\A j \in Jobs : (/\ job[j].pc \in SetupPcs(job[j].origin) \ {"claimed"}
                        /\ job'[j].pc = "ending"
                        /\ run'.state \in {"queued", "failed"} \ {run.state})
         => Holds(j)]_vars

\* "A late kill cannot corrupt anything" (task-service.ts:628): a signal
\* never stops the agent of the task while it runs.
RunningAgentNotStopped ==
    [][\A p \in Pids : kills' # kills /\ sup[p] = "alive" /\ sup'[p] # "alive"
         => ~(run.pid = p /\ run.state = "running" /\ run.exec = "started")]_vars

\* An agent that is nobody's, "`endRunJob` stops it" (run-attachment.ts:177):
\* a start job that ended without a verdict and left an agent it launched
\* running, not the row's, has signalled it.
LeftAgentSignalled ==
    \A j \in Jobs :
        At(j, "done") /\ job[j].origin = "start" /\ job[j].end = "none"
            /\ job[j].started \notin {0, run.pid}
            => sup[job[j].started] # "alive" \/ kills \cap {0, job[j].started} # {}

\* The slot is "given back when the run ends, by whichever instance finishes
\* it" (repo-pool-service.ts:978): never more slots given back than taken.
SlotGivenBackOnce == slots >= 0

\* The start script stops a supervisor whose "starter went away before
\* recording it" (run-protocol.ts:186): never the agent the row names while
\* the task runs.
LaunchStopsOnlyStale ==
    [][launched' # launched /\ run.state = "running" /\ run.pid # 0
         => sup'[run.pid] = sup[run.pid]]_vars

\* "Removes the run's directory in its pod once the run is terminal and every
\* byte of its output is a log row" (run-attachment.ts:1154): never the
\* directory of an agent still running.
RemovesFinishedDirectory ==
    [][dir' = 0 /\ dir # 0 /\ faults' = faults => sup[dir] # "alive"]_vars

=============================================================================
