--------------------------- MODULE PersistentAgent ---------------------------
(***************************************************************************)
(* One persistent agent: its row, its inbox, its turns, the BullMQ jobs    *)
(* that start a turn or attach to one, and the reconciler's passes.        *)
(*                                                                         *)
(* Every write of the agent's row bumps updated_at, and the conditional    *)
(* writes compare it with the value read before.  `fresh` holds the jobs   *)
(* and passes whose read is still the latest: a write empties it.  (The    *)
(* comparison is by millisecond; two writes within one are not modelled.)  *)
(* Drained messages, leases and the turns' own columns leave it alone.     *)
(*                                                                         *)
(* A turn's lease is `live` or not, its holder a job; the lease protocol   *)
(* itself is RunAttachment's subject.  Global capacity and the usage       *)
(* budget only delay a turn, and an agent here is enabled.                 *)
(***************************************************************************)
EXTENDS Integers, FiniteSets

CONSTANTS
    Messages,       \* messages the agent may be sent
    Jobs,           \* executions of the turn worker's processor
    NoJob,          \* attached_by = NULL
    Passes,         \* reconcile passes in progress at once
    MaxTurns,       \* bound: turns created
    FailureLimit,   \* consecutive_failure_limit (3 by default)
    Intents,        \* control intents the user may set
    MaxIntents,     \* bound: intents set
    Faults,         \* kinds of fault the environment injects
    MaxFaults       \* bound: faults injected

ASSUME Parameters ==
    /\ NoJob \notin Jobs /\ Jobs \cap Passes = {}
    /\ MaxTurns \in Nat /\ MaxIntents \in Nat /\ MaxFaults \in Nat
    /\ FailureLimit \in Nat \ {0}
    /\ Intents \subseteq {"pause", "resume", "archive", "restart"}
    /\ Faults \subseteq {"crash", "setup", "stream", "attach", "lease", "stall", "pod", "reap"}

Turns == 1 .. MaxTurns

VARIABLES
    agent,      \* the row: state, control_intent, consecutive_failures
    fresh,      \* readers of the row that have missed no write since
    into,       \* into[m]: the turn message m was drained into, or Unsent, Pending
    turn,       \* the turns' rows, and what became of their agents
    job,        \* where each job of the worker is
    pass,       \* what each reconcile pass decided and has not applied
    pod,        \* the agent's pod row: "none" or "ready"
    reaping,    \* the idle sweep has found the pod's agent at rest
    faults,     \* faults injected so far
    intents     \* intents set so far

vars == <<agent, fresh, into, turn, job, pass, pod, reaping, faults, intents>>
budgets == <<faults, intents>>

-----------------------------------------------------------------------------
(* The shape of the state.                                                  *)

Unsent  == -1
Pending == 0

\* VALID_PA_TRANSITIONS
NextStates ==
    [idle         |-> {"queued", "paused", "archived"},
     queued       |-> {"provisioning", "idle", "paused", "archived"},
     provisioning |-> {"running", "idle", "failed", "paused", "archived"},
     running      |-> {"idle", "failed", "paused", "archived"},
     paused       |-> {"idle", "archived"},
     failed       |-> {"idle", "archived"},
     archived     |-> {}]

States == DOMAIN NextStates
OnTurn == {"provisioning", "running"}

Agent == [state : States, intent : {"none", "pause", "resume", "archive", "restart"},
          failures : Nat]

Turn == [exec : {"absent", "none", "started", "exited"}, open : BOOLEAN,
         by : Jobs \cup {NoJob}, live : BOOLEAN, msgs : SUBSET Messages,
         proc : {"none", "up", "ok", "bad", "lost"}]

NoTurn == [exec |-> "absent", open |-> FALSE, by |-> NoJob, live |-> FALSE,
           msgs |-> {}, proc |-> "none"]

\* A job's verdict on its turn: the agent's own, the pod's loss while it was
\* streamed, a turn an attach job gives up, an error before it was streamed.
Job == [pc : {"idle", "ready", "claiming", "claimed", "acquiring", "starting",
              "recording", "recorded", "beginning", "toRunning", "streaming",
              "halting", "looking", "moving", "attach", "attaching"},
        turn : 0 .. MaxTurns, origin : {"start", "attach"}, attempted : BOOLEAN,
        verdict : {"none", "ok", "bad", "lost", "gone", "error"}]

NoOne == [pc |-> "idle", turn |-> 0, origin |-> "start", attempted |-> FALSE,
          verdict |-> "none"]

Decision == [do : {"none", "move", "clear", "enqueue", "attach", "requeue", "toIdle"},
             to : States, turn : 0 .. MaxTurns, failures : {"keep", "more", "zero"}]

TypeOK ==
    /\ agent \in Agent
    /\ fresh \subseteq Jobs \cup Passes
    /\ into \in [Messages -> -1 .. MaxTurns]
    /\ turn \in [Turns -> Turn]
    /\ job \in [Jobs -> Job]
    /\ \A j \in Jobs : job[j].pc = "idle" => job[j] = NoOne
    /\ pass \in [Passes -> Decision]
    /\ pod \in {"none", "ready"}
    /\ reaping \in BOOLEAN
    /\ faults \in 0 .. MaxFaults
    /\ intents \in 0 .. MaxIntents

Decide(do, to, t, failures) == [do |-> do, to |-> to, turn |-> t, failures |-> failures]
Noop == Decide("none", "idle", 0, "keep")

Init ==
    /\ agent = [state |-> "idle", intent |-> "none", failures |-> 0]
    /\ fresh = {}
    /\ into = [m \in Messages |-> Unsent]
    /\ turn = [t \in Turns |-> NoTurn]
    /\ job = [j \in Jobs |-> NoOne]
    /\ pass = [r \in Passes |-> Noop]
    /\ pod = "none"
    /\ reaping = FALSE
    /\ faults = 0
    /\ intents = 0

-----------------------------------------------------------------------------
(* Helpers.                                                                 *)

At(j, pc)      == job[j].pc = pc
Goto(j, pc)    == job' = [job EXCEPT ![j].pc = pc]
Leave_KeepTurn(j) == Goto(j, "idle")
Leave(j)       == job' = [job EXCEPT ![j] = NoOne]
Fault(kind)    == kind \in Faults /\ faults < MaxFaults /\ faults' = faults + 1
Pendings       == {m \in Messages : into[m] = Pending}
Created        == {t \in Turns : turn[t].exec # "absent"}
Open           == {t \in Turns : turn[t].open}
OpenTurn       == IF Open = {} THEN 0 ELSE CHOOSE t \in Open : \A u \in Open : u <= t
CanMove(to)    == to \in NextStates[agent.state]
WriteAgent(a)  == agent' = a /\ fresh' = {}

\* stopsRunningTurn and stopOpenTurns: the agents of the open turns get TERM.
StopsTurns(to) == to \in {"failed", "archived"} /\ agent.state \in OnTurn
Stopped(ts)    == [t \in Turns |-> IF t \in ts /\ turn[t].proc = "up"
                                   THEN [turn[t] EXCEPT !.proc = "bad"] ELSE turn[t]]
OpenStarted    == {t \in Open : turn[t].exec = "started"}

\* The job has a hold on its turn, which it renews while it lives.
HasHold(j, t) == /\ job[j].turn = t
                 /\ job[j].pc \notin {"idle", "ready", "claiming", "claimed",
                                      "attach", "attaching"}

-----------------------------------------------------------------------------
(* What comes from outside: messages, intents, the agents' own end.         *)

\* wakeAgent: the message is in the inbox, and a pass will follow (the
\* resync at the latest).
Send(m) ==
    /\ into[m] = Unsent
    /\ into' = [into EXCEPT ![m] = Pending]
    /\ UNCHANGED <<agent, fresh, turn, job, pass, pod, reaping, budgets>>

SetControlIntent(i) ==
    /\ intents < MaxIntents
    /\ intents' = intents + 1
    /\ WriteAgent([agent EXCEPT !.intent = i])
    /\ UNCHANGED <<into, turn, job, pass, pod, reaping, faults>>

AgentEnds(t) ==
    /\ turn[t].proc = "up"
    /\ \E end \in {"ok", "bad"} : turn' = [turn EXCEPT ![t].proc = end]
    /\ UNCHANGED <<agent, fresh, into, job, pass, pod, reaping, budgets>>

-----------------------------------------------------------------------------
(* The job that starts a turn.                                              *)

\* The agent must be queued; its updated_at is what the claim compares.
Look(j) ==
    /\ At(j, "ready")
    /\ IF agent.state = "queued"
       THEN Goto(j, "claiming") /\ fresh' = fresh \cup {j}
       ELSE Leave(j) /\ UNCHANGED fresh
    /\ UNCHANGED <<agent, into, turn, pass, pod, reaping, budgets>>

ClaimCas(j) == j \in fresh /\ CanMove("provisioning")

Claim(j) ==
    /\ At(j, "claiming")
    /\ IF ClaimCas(j)
       THEN Goto(j, "claimed") /\ WriteAgent([agent EXCEPT !.state = "provisioning"])
       ELSE Leave(j) /\ UNCHANGED <<agent, fresh>>
    /\ UNCHANGED <<into, turn, pass, pod, reaping, budgets>>

\* The pending messages are listed, the turn's row records their ids, and the
\* job takes its hold.  One step: nobody else knows the row before it is held
\* (a row with no lease yet reads as held), and what arrives meanwhile stays
\* pending.
CreateTurn(j) ==
    /\ At(j, "claimed")
    /\ Cardinality(Created) < MaxTurns
    /\ LET t == Cardinality(Created) + 1 IN
       /\ turn' = [turn EXCEPT ![t] = [exec |-> "none", open |-> TRUE, by |-> j,
                                       live |-> TRUE, msgs |-> Pendings, proc |-> "none"]]
       /\ job' = [job EXCEPT ![j].pc = "acquiring", ![j].turn = t]
    /\ UNCHANGED <<agent, fresh, into, pass, pod, reaping, budgets>>

\* A pod that has to be made is written into the agent's row.
AcquirePod(j) ==
    /\ At(j, "acquiring")
    /\ Goto(j, "starting")
    /\ pod' = "ready"
    /\ IF pod = "ready" THEN UNCHANGED <<agent, fresh>> ELSE WriteAgent(agent)
    /\ UNCHANGED <<into, turn, pass, reaping, budgets>>

\* startTurnInPod: the agent runs, its turn does not say so yet.
LaunchAgent(j) ==
    /\ At(j, "starting")
    /\ pod = "ready"
    /\ turn' = [turn EXCEPT ![job[j].turn].proc = "up"]
    /\ job' = [job EXCEPT ![j].pc = "recording", ![j].attempted = TRUE]
    /\ UNCHANGED <<agent, fresh, into, pass, pod, reaping, budgets>>

\* No pod, no start: the catch block halts the turn.
SetupError(j) ==
    /\ job' = [job EXCEPT ![j].pc = "halting", ![j].verdict = "error",
                          ![j].attempted = At(j, "starting")]
    /\ UNCHANGED <<agent, fresh, into, turn, pass, pod, reaping, intents>>

SetupFails(j) ==
    /\ At(j, "acquiring") \/ At(j, "starting")
    /\ Fault("setup")
    /\ SetupError(j)

PodMissing(j) ==
    /\ At(j, "starting")
    /\ pod = "none"
    /\ SetupError(j)
    /\ UNCHANGED faults

\* recordRunStarted: a CAS on the hold alone, whether or not the turn is over
\* (nobody takes the hold of a turn that never started).
RecordStarted(j) ==
    /\ At(j, "recording")
    /\ turn' = [turn EXCEPT ![job[j].turn].exec = "started", ![job[j].turn].live = TRUE]
    /\ Goto(j, "recorded")
    /\ UNCHANGED <<agent, fresh, into, pass, pod, reaping, budgets>>

-----------------------------------------------------------------------------
(* A started turn: it takes its messages, runs, and moves the agent on.     *)

\* drainMessagesIntoTurn: by the ids the turn's row has, drained or not.
TakenBy_Pending(t) == turn[t].msgs \cup Pendings
TakenBy(t) == turn[t].msgs

Drain(j) ==
    /\ At(j, "recorded")
    /\ LET t == job[j].turn IN
       into' = [m \in Messages |-> IF m \in TakenBy(t) THEN t ELSE into[m]]
    /\ Goto(j, "beginning")
    /\ UNCHANGED <<agent, fresh, turn, pass, pod, reaping, budgets>>

BeginTurn(j) ==
    /\ At(j, "beginning")
    /\ IF agent.state = "provisioning"
       THEN Goto(j, "toRunning") /\ fresh' = fresh \cup {j}
       ELSE Goto(j, "streaming") /\ UNCHANGED fresh
    /\ UNCHANGED <<agent, into, turn, pass, pod, reaping, budgets>>

\* A lost CAS goes unnoticed (the turn runs, the agent says provisioning); an
\* agent no longer provisioning makes the transition throw: the starting job
\* fails the turn, an attaching one leaves it.
ToRunning(j) ==
    /\ At(j, "toRunning")
    /\ IF agent.state = "provisioning"
       THEN /\ Goto(j, "streaming")
            /\ IF j \in fresh THEN WriteAgent([agent EXCEPT !.state = "running"])
                              ELSE UNCHANGED <<agent, fresh>>
            /\ UNCHANGED turn
       ELSE /\ IF job[j].origin = "start"
               THEN /\ job' = [job EXCEPT ![j].pc = "halting", ![j].verdict = "error"]
                    /\ UNCHANGED turn
               ELSE Leave(j) /\ turn' = [turn EXCEPT ![job[j].turn].live = FALSE]
            /\ UNCHANGED <<agent, fresh>>
    /\ UNCHANGED <<into, pass, pod, reaping, budgets>>

\* The output has ended and settleRun has recorded the exit: a CAS on the hold.
StreamEnds(j) ==
    /\ At(j, "streaming")
    /\ LET t == job[j].turn IN
       /\ turn[t].by = j
       /\ turn[t].proc \in {"ok", "bad", "lost"}
       /\ turn' = [turn EXCEPT ![t].exec = "exited"]
       /\ job' = [job EXCEPT ![j].pc = "halting", ![j].verdict = turn[t].proc]
    /\ UNCHANGED <<agent, fresh, into, pass, pod, reaping, budgets>>

\* Another hold has the turn.
StreamTaken(j) ==
    /\ At(j, "streaming")
    /\ turn[job[j].turn].by # j
    /\ Leave(j)
    /\ UNCHANGED <<agent, fresh, into, turn, pass, pod, reaping, budgets>>

\* onStreamError: the lease is given up, or the attach job that was one too
\* many gives the turn up and stops its agent.
StreamTrouble(j) ==
    /\ At(j, "streaming")
    /\ LET t == job[j].turn IN
       \/ /\ Fault("stream")
          /\ Leave(j)
          /\ turn' = IF turn[t].by = j THEN [turn EXCEPT ![t].live = FALSE] ELSE turn
       \/ /\ Fault("attach")
          /\ job[j].origin = "attach" /\ turn[t].by = j
          /\ job' = [job EXCEPT ![j].pc = "halting", ![j].verdict = "gone"]
          /\ turn' = Stopped({t})
    /\ UNCHANGED <<agent, fresh, into, pass, pod, reaping, intents>>

Halt(j) ==
    /\ At(j, "halting")
    /\ turn' = [turn EXCEPT ![job[j].turn].open = FALSE]
    /\ Goto(j, "looking")
    /\ UNCHANGED <<agent, fresh, into, pass, pod, reaping, budgets>>

ReadAfter(j) ==
    /\ At(j, "looking")
    /\ Goto(j, "moving")
    /\ fresh' = fresh \cup {j}
    /\ UNCHANGED <<agent, into, turn, pass, pod, reaping, budgets>>

\* Where a verdict sends the agent, and what its failure counter becomes;
\* no target for an agent that has moved on.
Target(j) ==
    LET more == agent.failures + 1
        done(to, n) == {[agent EXCEPT !.state = to, !.failures = n]} IN
    CASE job[j].verdict = "ok" /\ agent.state = "running" -> done("idle", 0)
      [] job[j].verdict = "bad" /\ agent.state = "running" ->
             done(IF more >= FailureLimit THEN "failed" ELSE "idle", more)
      [] job[j].verdict = "lost" /\ agent.state = "running" -> done("failed", more)
      [] job[j].verdict = "gone" /\ agent.state \in OnTurn -> done("failed", more)
      [] job[j].verdict = "error" /\ agent.state # "idle" ->
             done(IF job[j].attempted \/ more >= FailureLimit THEN "failed" ELSE "idle", more)
      [] OTHER -> {}

\* transitionPersistentAgentState from that read, its outcome unheeded, and
\* the job's end: an agent it leaves behind is stopped, its hold given up.
MoveOn(j) ==
    /\ At(j, "moving")
    /\ LET t == job[j].turn
           moves == {a \in Target(j) : j \in fresh /\ CanMove(a.state)}
           left == IF job[j].verdict = "error" /\ (turn[t].by = j \/ ~turn[t].live) THEN {t} ELSE {}
           stop == UNION {IF StopsTurns(a.state) THEN OpenStarted ELSE {} : a \in moves}
       IN /\ IF moves = {} THEN UNCHANGED <<agent, fresh>>
                           ELSE \E a \in moves : WriteAgent(a)
          /\ turn' = [Stopped(left \cup stop) EXCEPT ![t].live = (@ /\ turn[t].by # j)]
    /\ Leave(j)
    /\ UNCHANGED <<into, pass, pod, reaping, budgets>>

-----------------------------------------------------------------------------
(* The job that attaches to a turn.                                         *)

AttachTurn(j) ==
    /\ At(j, "attach")
    /\ IF agent.state \in OnTurn /\ turn[job[j].turn].open
       THEN Goto(j, "attaching") ELSE Leave(j)
    /\ UNCHANGED <<agent, fresh, into, turn, pass, pod, reaping, budgets>>

\* claimAttachment; a pod that is gone settles the turn at once.
ClaimAttachment(j) ==
    /\ At(j, "attaching")
    /\ LET t == job[j].turn IN
       IF turn[t].exec \in {"started", "exited"} /\ turn[t].open /\ ~turn[t].live
       THEN IF pod = "ready"
            THEN /\ turn' = [turn EXCEPT ![t].by = j, ![t].live = TRUE]
                 /\ job' = [job EXCEPT ![j].pc = "recorded"]
            ELSE /\ turn' = [turn EXCEPT ![t].by = j, ![t].live = TRUE, ![t].exec = "exited"]
                 /\ job' = [job EXCEPT ![j].pc = "halting", ![j].verdict = "gone"]
       ELSE Leave(j) /\ UNCHANGED turn
    /\ UNCHANGED <<agent, fresh, into, pass, pod, reaping, budgets>>

-----------------------------------------------------------------------------
(* The reconciler.                                                          *)

\* readExecution of the open turn.
Unheld_AnyLease == Open # {}
Unheld       == Open # {} /\ ~turn[OpenTurn].live
Detached_StartedOnly == Unheld /\ turn[OpenTurn].exec = "started"
Detached     == Unheld /\ turn[OpenTurn].exec # "none"
NeverStarted == Unheld /\ turn[OpenTurn].exec = "none"

\* No open turn, and NO_OPEN_TURN_GRACE_MS (five minutes) since the row was
\* written.  A claim writes it, and a job is taken to be faster than that from
\* its claim to the turn's row.  A turn may be longer, and its halt is not a
\* write: the grace may be over before the job that halted it moves the agent.
GraceOver_Never == FALSE
GraceOver == Open = {} /\ \A j \in Jobs : ~At(j, "claimed")

Intent ==
    CASE agent.intent = "pause" ->
             IF agent.state \in {"paused", "archived"} THEN Decide("clear", "idle", 0, "keep")
             ELSE Decide("move", "paused", 0, "keep")
      [] agent.intent = "resume" ->
             IF agent.state \notin {"paused", "failed"} THEN Decide("clear", "idle", 0, "keep")
             ELSE Decide("move", "idle", 0, "zero")
      [] agent.intent = "archive" ->
             IF agent.state = "archived" THEN Decide("clear", "idle", 0, "keep")
             ELSE Decide("move", "archived", 0, "keep")
      [] agent.intent = "restart" -> Decide("move", "idle", 0, "zero")

\* reconcilePersistentAgent.  No pod row the snapshot reads is ever in error
\* (a pod that could not be made has no name, and is not read), so the
\* decisions about a dead pod are left out: a lost pod is found by its turn.
Decided ==
    IF agent.intent # "none" THEN Intent
    ELSE CASE agent.state = "idle" /\ Pendings # {} -> Decide("move", "queued", 0, "keep")
           [] agent.state = "queued" -> Decide("enqueue", "idle", 0, "keep")
           [] agent.state \in OnTurn /\ Detached ->
                  Decide("attach", "idle", OpenTurn, "keep")
           [] agent.state \in OnTurn /\ NeverStarted ->
                  Decide("requeue", "idle", OpenTurn, "keep")
           [] agent.state \in OnTurn /\ GraceOver -> Decide("requeue", "idle", 0, "keep")
           [] OTHER -> Noop

\* The snapshot.  Its agent row is read first and the rest after; the version
\* the action compares is the row's, so reading all at once loses nothing.
Observe(r) ==
    /\ pass[r] = Noop
    /\ pass' = [pass EXCEPT ![r] = Decided]
    /\ pass'[r] # Noop
    /\ fresh' = fresh \cup {r}
    /\ UNCHANGED <<agent, into, turn, job, pod, reaping, budgets>>

\* The heartbeat: a held turn older than max_turn_duration_ms.
ObserveStall(r) ==
    /\ pass[r] = Noop
    /\ agent.intent = "none" /\ agent.state = "running" /\ Open # {} /\ turn[OpenTurn].live
    /\ Fault("stall")
    /\ pass' = [pass EXCEPT ![r] = Decide("move", "failed", 0, "more")]
    /\ fresh' = fresh \cup {r}
    /\ UNCHANGED <<agent, into, turn, job, pod, reaping, intents>>

Counted(how) == CASE how = "keep" -> agent.failures
                  [] how = "more" -> agent.failures + 1
                  [] how = "zero" -> 0

\* applyPersistentAgentTransition: a CAS on the version; the state machine is
\* not asked.
ApplyMove(r) ==
    /\ pass[r].do = "move"
    /\ IF r \in fresh
       THEN /\ WriteAgent([state |-> pass[r].to, intent |-> "none",
                           failures |-> Counted(pass[r].failures)])
            /\ turn' = Stopped(IF StopsTurns(pass[r].to) THEN OpenStarted ELSE {})
       ELSE UNCHANGED <<agent, fresh, turn>>
    /\ pass' = [pass EXCEPT ![r] = Noop]
    /\ UNCHANGED <<into, job, pod, reaping, budgets>>

ApplyClear(r) ==
    /\ pass[r].do = "clear"
    /\ IF r \in fresh THEN WriteAgent([agent EXCEPT !.intent = "none"])
                      ELSE UNCHANGED <<agent, fresh>>
    /\ pass' = [pass EXCEPT ![r] = Noop]
    /\ UNCHANGED <<into, turn, job, pod, reaping, budgets>>

\* applyEnqueueTurn (no version is compared) and applyReattach (one is; the
\* job's id is the lapsed lease's, so one lapse queues one job).
ApplyQueue(r) ==
    /\ pass[r].do \in {"enqueue", "attach"}
    /\ LET t == pass[r].turn
           wanted == \/ pass[r].do = "enqueue"
                     \/ /\ r \in fresh
                        /\ \A j \in Jobs : ~(job[j].pc \in {"attach", "attaching"} /\ job[j].turn = t)
       IN IF wanted
          THEN \E j \in Jobs :
                 /\ At(j, "idle")
                 /\ job' = [job EXCEPT ![j] =
                              IF t = 0 THEN [NoOne EXCEPT !.pc = "ready"]
                              ELSE [NoOne EXCEPT !.pc = "attach", !.turn = t, !.origin = "attach"]]
          ELSE UNCHANGED job
    /\ pass' = [pass EXCEPT ![r] = Noop]
    /\ UNCHANGED <<agent, fresh, into, turn, pod, reaping, budgets>>

\* applyRequeueRun: the version still matches, so a turn that never started is
\* halted; the agent's move compares the version again.
ApplyRequeue(r) ==
    /\ pass[r].do = "requeue"
    /\ LET t == pass[r].turn IN
       IF r \in fresh
       THEN /\ pass' = [pass EXCEPT ![r].do = "toIdle"]
            /\ turn' = [u \in Turns |-> IF u = t /\ turn[u].open /\ turn[u].exec = "none"
                                        THEN [turn[u] EXCEPT !.open = FALSE] ELSE turn[u]]
       ELSE pass' = [pass EXCEPT ![r] = Noop] /\ UNCHANGED turn
    /\ UNCHANGED <<agent, fresh, into, job, pod, reaping, budgets>>

ApplyIdle(r) ==
    /\ pass[r].do = "toIdle"
    /\ IF r \in fresh /\ CanMove("idle")
       THEN WriteAgent([agent EXCEPT !.state = "idle"]) ELSE UNCHANGED <<agent, fresh>>
    /\ pass' = [pass EXCEPT ![r] = Noop]
    /\ UNCHANGED <<into, turn, job, pod, reaping, budgets>>

-----------------------------------------------------------------------------
(* Leases, pods and crashes.                                                *)

\* A lease nobody renews runs out.
LeaseLapses(t) ==
    /\ turn[t].live
    /\ \A j \in Jobs : ~HasHold(j, t) \/ turn[t].by # j
    /\ turn' = [turn EXCEPT ![t].live = FALSE]
    /\ UNCHANGED <<agent, fresh, into, job, pass, pod, reaping, budgets>>

\* One whose holder is only slow does too; the holder may renew it later, if
\* it is still its.
LeaseLate(t) ==
    /\ turn[t].live
    /\ \E j \in Jobs : HasHold(j, t) /\ turn[t].by = j
    /\ Fault("lease")
    /\ turn' = [turn EXCEPT ![t].live = FALSE]
    /\ UNCHANGED <<agent, fresh, into, job, pass, pod, reaping, intents>>

Renew(j) ==
    /\ \E t \in Turns :
         /\ HasHold(j, t) /\ turn[t].by = j /\ ~turn[t].live
         /\ turn' = [turn EXCEPT ![t].live = TRUE]
    /\ UNCHANGED <<agent, fresh, into, job, pass, pod, reaping, budgets>>

Crash(j) ==
    /\ job[j].pc \notin {"idle", "ready", "attach"}
    /\ Fault("crash")
    /\ Leave(j)
    /\ fresh' = fresh \ {j}
    /\ UNCHANGED <<agent, into, turn, pass, pod, reaping, intents>>

Lost == [t \in Turns |-> IF turn[t].proc = "up" THEN [turn[t] EXCEPT !.proc = "lost"] ELSE turn[t]]

\* The container restarts: its processes are gone, the row stays.
PodDies ==
    /\ pod = "ready"
    /\ Fault("pod")
    /\ turn' = Lost
    /\ UNCHANGED <<agent, fresh, into, job, pass, pod, reaping, intents>>

\* cleanupIdlePersistentAgentPods: a pod past its warm window whose agent is
\* at rest; the agent's state is read before the pod is destroyed.
ReapRead ==
    /\ ~reaping /\ pod = "ready"
    /\ agent.state \notin {"failed", "running", "provisioning"}
    /\ Fault("reap")
    /\ reaping' = TRUE
    /\ UNCHANGED <<agent, fresh, into, turn, job, pass, pod, intents>>

ReapPod ==
    /\ reaping
    /\ reaping' = FALSE
    /\ pod' = "none"
    /\ turn' = Lost
    /\ UNCHANGED <<agent, fresh, into, job, pass, budgets>>

-----------------------------------------------------------------------------

Work(j) ==
    \/ Look(j) \/ Claim(j) \/ CreateTurn(j) \/ AcquirePod(j) \/ PodMissing(j)
    \/ LaunchAgent(j) \/ RecordStarted(j) \/ Drain(j) \/ BeginTurn(j) \/ ToRunning(j)
    \/ StreamEnds(j) \/ StreamTaken(j) \/ Halt(j) \/ ReadAfter(j) \/ MoveOn(j)
    \/ AttachTurn(j) \/ ClaimAttachment(j)

Apply(r) == ApplyMove(r) \/ ApplyClear(r) \/ ApplyQueue(r) \/ ApplyRequeue(r) \/ ApplyIdle(r)

Next ==
    \/ \E m \in Messages : Send(m)
    \/ \E i \in Intents : SetControlIntent(i)
    \/ \E t \in Turns : AgentEnds(t) \/ LeaseLapses(t) \/ LeaseLate(t)
    \/ \E j \in Jobs : Work(j) \/ SetupFails(j) \/ StreamTrouble(j) \/ Renew(j) \/ Crash(j)
    \/ \E r \in Passes : Observe(r) \/ ObserveStall(r) \/ Apply(r)
    \/ PodDies \/ ReapRead \/ ReapPod

Spec == Init /\ [][Next]_vars

\* Queued jobs are run, passes recur (the resync) and are finished, agents end
\* and leases run out.  Nothing is assumed of users, faults or renewals.
Fairness ==
    /\ \A j \in Jobs : WF_vars(Work(j))
    /\ \A r \in Passes : WF_vars(Observe(r)) /\ WF_vars(Apply(r))
    /\ \A t \in Turns : WF_vars(AgentEnds(t)) /\ WF_vars(LeaseLapses(t))
    /\ WF_vars(ReapPod)

LiveSpec == Spec /\ Fairness

-----------------------------------------------------------------------------
(* Properties.                                                              *)

\* A message leaves the inbox only with a turn whose prompt has it and whose
\* agent was started: no crash, failed start, pause or restart in between
\* loses one.
NothingLost ==
    \A m \in Messages :
        into[m] > 0 => m \in turn[into[m]].msgs /\ turn[into[m]].exec \in {"started", "exited"}

\* "At most one turn in flight at a time" (persistent-agent-pool-service.ts:12):
\* no two open turns, whichever jobs died on the way and whoever attached to
\* the first.  (As long as RevivedAtRest and ReadsBeforeClaims, and no holder of
\* a lease is late.)
OneTurn == Cardinality(Open) <= 1

\* What OneTurn asks of users: an agent is resumed, or restarted, only when it
\* has no turn and no job at work on one.
AtWork == {"claimed", "acquiring", "starting", "recording", "recorded", "beginning",
           "toRunning", "streaming", "halting"}
AtRest == Open = {} /\ \A j \in Jobs : job[j].pc \notin AtWork
Revives == agent.intent \in {"resume", "restart"} /\ agent'.intent = "none" /\ agent'.state = "idle"
RevivedAtRest == [][Revives => AtRest]_vars

\* And of jobs: one that has halted its turn has read the agent again before
\* another, for which a pass gave the agent back, claims it.
Claims == agent.state = "queued" /\ agent'.state = "provisioning"
AllRead == \A j \in Jobs : ~At(j, "looking")
ReadsBeforeClaims == [][Claims => AllRead]_vars

\* Every turn ends: some job halts it, or the reconciler does.
TurnsEnd == \A t \in Turns : turn[t].open ~> ~turn[t].open

\* A message sent to the agent reaches a turn, unless the agent ends up failed,
\* paused or archived.
EveryMessageRead ==
    \A m \in Messages :
        into[m] = Pending ~> into[m] # Pending \/ agent.state \in {"failed", "paused", "archived"}

\* The agent does not stay with a turn for ever, whatever the user asked for
\* meanwhile and whoever lost a compare-and-swap.
TurnsGiveBack == agent.state \in OnTurn ~> agent.state \notin OnTurn

\* The inbox as its senders see it: a message waits until one turn takes it, and
\* a turn takes all of its messages at once.  (Under what OneTurn asks for.)
TheInbox == INSTANCE Inbox WITH box <- into, Takers <- Turns
InboxSpec == TheInbox!Spec

\* A paused or failed agent stays so until the user says otherwise
\* (docs/reconciliation.md:93, "require a manual `resume` control intent").
RestsUntilResumed ==
    [][agent.state \in {"paused", "failed"} /\ agent'.state # agent.state
          => agent.intent \in {"resume", "restart", "archive"}]_vars

\* A message is in the prompt of one started turn only (persistent-agent-worker,
\* beginTurn: drained "so later turns don't see them again").
ReadOnce ==
    \A m \in Messages :
        Cardinality({t \in Turns : turn[t].exec \in {"started", "exited"} /\ m \in turn[t].msgs}) <= 1
=============================================================================
