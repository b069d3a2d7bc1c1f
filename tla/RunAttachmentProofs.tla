------------------------- MODULE RunAttachmentProofs -------------------------
(***************************************************************************)
(* Type correctness of RunAttachment.                                      *)
(***************************************************************************)
EXTENDS RunAttachment, TLAPS

-----------------------------------------------------------------------------
(* The operators the actions share.                                         *)

\* DOMAIN NextStates, spelt out.
LEMMA StatesAre ==
    States = {"queued", "provisioning", "running", "needs_attention",
              "pr_opened", "failed", "cancelled", "completed"}
    BY DEF States, NextStates

\* A valid transition leads to a state.
LEMMA MovesToState ==
    ASSUME run.state \in States, NEW s, CanMove(s)
    PROVE  s \in States
    BY StatesAre DEF CanMove, NextStates

\* What a transition, or a new attempt, may write.
WritesOK == run' \in Row /\ kills' \subseteq 0 .. MaxPid /\ decision' \in Decisions

LEMMA MoveToType ==
    ASSUME TypeOK, NEW s, MoveTo(s)
    PROVE  WritesOK
<1>1. run \in Row /\ kills \subseteq 0 .. MaxPid
    BY DEF TypeOK
<1>2. s \in States
    BY <1>1, MovesToState DEF Row, MoveTo
<1>3. run' \in Row
    BY <1>1, <1>2 DEF Row, MoveTo
<1>4. kills' \subseteq 0 .. MaxPid
    BY <1>1, Parameters DEF MoveTo
<1> QED
    BY <1>3, <1>4 DEF WritesOK, MoveTo, Decisions

LEMMA NewAttemptType ==
    ASSUME TypeOK, NewAttempt
    PROVE  WritesOK
<1>1. run \in Row /\ kills \subseteq 0 .. MaxPid
    BY DEF TypeOK
<1>2. run' \in Row
  <2>1. "queued" \in States /\ 0 \in 0 .. MaxPid /\ 0 \in 0 .. MaxLines
    BY StatesAre, Parameters
  <2> QED
    BY <1>1, <2>1 DEF Row, NewAttempt, Reset
<1>3. kills' \subseteq 0 .. MaxPid
    BY <1>1 DEF Row, NewAttempt, StopPrevious
<1> QED
    BY <1>2, <1>3 DEF WritesOK, NewAttempt, Decisions

LEMMA SetupErrorType ==
    ASSUME TypeOK, NEW j \in Jobs, SetupError(j) \/ UNCHANGED <<run, kills, decision>>
    PROVE  WritesOK
<1>1. CASE UNCHANGED <<run, kills, decision>>
    BY <1>1 DEF TypeOK, WritesOK
<1>2. CASE MoveTo("failed")
    BY <1>2, MoveToType
<1>3. CASE Requeue
    BY <1>3, NewAttemptType DEF Requeue
<1> QED
    BY <1>1, <1>2, <1>3 DEF SetupError

\* What a fault or a request costs is within the bounds.
LEMMA BudgetType ==
    ASSUME TypeOK
    PROVE  /\ \A kind : Fault(kind) => faults' \in 0 .. MaxFaults
           /\ Request => requests' \in 0 .. MaxRequests
    BY Parameters DEF TypeOK, Fault, Request

\* The ways the actions write a job's record.
LEMMA JobUpdates ==
    ASSUME NEW r \in Job
    PROVE  /\ \A pc \in Pcs : [r EXCEPT !.pc = pc] \in Job
           /\ \A end \in {"none", "finished", "detached", "reset", "failed"} :
                 [r EXCEPT !.pc = "ending", !.end = end] \in Job
           /\ \A p \in 0 .. MaxPid :
                 /\ [r EXCEPT !.pc = "launched", !.started = p, !.slot = TRUE] \in Job
                 /\ \A pc \in Pcs : [r EXCEPT !.pc = pc, !.agent = p] \in Job
                 /\ [r EXCEPT !.pc = "streaming", !.src = p] \in Job
                 /\ \A n \in 0 .. MaxLines :
                      [r EXCEPT !.pc = "attached", !.agent = p, !.pos = n] \in Job
           /\ \A s \in States : [r EXCEPT !.pc = "reattach", !.origin = "attach", !.saw = s] \in Job
           /\ \A o \in {"exited", "lost", "podgone"} :
                 [r EXCEPT !.pc = "settling", !.outcome = o] \in Job
           /\ \A n \in 0 .. MaxLines : [r EXCEPT !.pos = n] \in Job
           /\ [r EXCEPT !.released = TRUE] \in Job
<1> USE DEF Job, Pcs
<1>1. \A pc \in Pcs : [r EXCEPT !.pc = pc] \in Job
    OBVIOUS
<1>2. \A end \in {"none", "finished", "detached", "reset", "failed"} :
        [r EXCEPT !.pc = "ending", !.end = end] \in Job
    OBVIOUS
<1>3. ASSUME NEW p \in 0 .. MaxPid
      PROVE  /\ [r EXCEPT !.pc = "launched", !.started = p, !.slot = TRUE] \in Job
             /\ \A pc \in Pcs : [r EXCEPT !.pc = pc, !.agent = p] \in Job
             /\ [r EXCEPT !.pc = "streaming", !.src = p] \in Job
             /\ \A n \in 0 .. MaxLines :
                  [r EXCEPT !.pc = "attached", !.agent = p, !.pos = n] \in Job
    OBVIOUS
<1>4. \A s \in States : [r EXCEPT !.pc = "reattach", !.origin = "attach", !.saw = s] \in Job
    OBVIOUS
<1>5. \A o \in {"exited", "lost", "podgone"} :
        [r EXCEPT !.pc = "settling", !.outcome = o] \in Job
    OBVIOUS
<1>6. \A n \in 0 .. MaxLines : [r EXCEPT !.pos = n] \in Job
    OBVIOUS
<1>7. [r EXCEPT !.released = TRUE] \in Job
    OBVIOUS
<1> QED
    BY <1>1, <1>2, <1>3, <1>4, <1>5, <1>6, <1>7

LEMMA ToEndType ==
    ASSUME TypeOK, NEW j \in Jobs, NEW end, ToEnd(j, end),
           end \in {"none", "finished", "detached", "reset", "failed"}
    PROVE  job' \in [Jobs -> Job]
<1>1. job \in [Jobs -> Job]
    BY DEF TypeOK
<1>2. [job[j] EXCEPT !.pc = "ending", !.end = end] \in Job
    BY <1>1, JobUpdates
<1> QED
    BY <1>1, <1>2 DEF ToEnd

LEMMA StreamTroubleType ==
    ASSUME TypeOK, NEW j \in Jobs, StreamTrouble(j)
    PROVE  run' \in Row /\ job' \in [Jobs -> Job]
<1>1. run \in Row /\ job \in [Jobs -> Job]
    BY DEF TypeOK
<1>2. ToEnd(j, "detached") => job' \in [Jobs -> Job]
    BY ToEndType
<1>3. ToEnd(j, LossOf(j)) => job' \in [Jobs -> Job]
    BY ToEndType DEF LossOf
<1>4. job' = [job EXCEPT ![j].pc = "failing"] => job' \in [Jobs -> Job]
  <2>1. [job[j] EXCEPT !.pc = "failing"] \in Job
    BY <1>1, JobUpdates DEF Pcs
  <2> QED
    BY <1>1, <2>1
<1>5. run' \in Row
    BY <1>1 DEF StreamTrouble, Row
<1> QED
    BY <1>2, <1>3, <1>4, <1>5 DEF StreamTrouble

-----------------------------------------------------------------------------
(* Type correctness, action by action.                                      *)

\* A step that leaves the pod, the log and the spend alone.
LEMMA TypeByParts ==
    ASSUME TypeOK, run' \in Row, job' \in [Jobs -> Job],
           kills' \subseteq 0 .. MaxPid, decision' \in Decisions,
           UNCHANGED <<podVars, ledgerVars>>, slots' \in Int,
           faults' \in 0 .. MaxFaults, requests' \in 0 .. MaxRequests
    PROVE  TypeOK'
    BY DEF TypeOK, podVars, ledgerVars

LEMMA StartType ==
    ASSUME TypeOK, NEW j \in Jobs, StartStep(j)
    PROVE  TypeOK'
<1>a. /\ run \in Row /\ job \in [Jobs -> Job]
      /\ kills \subseteq 0 .. MaxPid /\ decision \in Decisions
      /\ slots \in Int /\ faults \in 0 .. MaxFaults /\ requests \in 0 .. MaxRequests
    BY DEF TypeOK
<1>1. ASSUME Claim(j) PROVE TypeOK'
  <2>1. WritesOK
    BY <1>a, <1>1, MoveToType DEF Claim, WritesOK
  <2>2. [job[j] EXCEPT !.pc = "claimed"] \in Job
    BY <1>a, JobUpdates DEF Pcs
  <2>3. job' \in [Jobs -> Job]
    BY <1>a, <1>1, <2>2 DEF Claim
  <2> QED
    BY <1>a, <1>1, <2>1, <2>3, TypeByParts DEF WritesOK, budgets, Claim
<1>2. ASSUME BeginHold(j) PROVE TypeOK'
  <2>1. WritesOK
    BY <1>a, <1>2 DEF WritesOK, Row, BeginHold
  <2>2. [job[j] EXCEPT !.pc = "setup"] \in Job
    BY <1>a, JobUpdates DEF Pcs
  <2>3. job' \in [Jobs -> Job]
    BY <1>a, <1>2, <2>2 DEF BeginHold
  <2> QED
    BY <1>a, <1>2, <2>1, <2>3, TypeByParts DEF WritesOK, budgets, BeginHold
<1>3. ASSUME LaunchAgent(j) PROVE TypeOK'
  <2>1. launched + 1 \in 0 .. MaxPid /\ launched + 1 \in Pids
    BY <1>3, Parameters DEF TypeOK, LaunchAgent, NextPid, Pids
  <2>2. [job[j] EXCEPT !.pc = "launched", !.started = launched + 1, !.slot = TRUE] \in Job
    BY <1>a, <2>1, JobUpdates
  <2>3. job' \in [Jobs -> Job]
    BY <1>a, <1>3, <2>2 DEF LaunchAgent, NextPid
  <2>4. sup' \in [Pids -> {"none", "alive", "exited", "dead"}]
    BY <1>3 DEF LaunchAgent, TypeOK
  <2>5. launched' \in 0 .. MaxPid /\ dir' \in 0 .. MaxPid
    BY <1>3, <2>1 DEF LaunchAgent, NextPid, FilesOf
  <2> QED
    BY <1>3, <2>3, <2>4, <2>5 DEF TypeOK, LaunchAgent, Decisions, ledgerVars, budgets
<1>4. ASSUME RecordStarted(j) PROVE TypeOK'
  <2>1. job[j].started \in 0 .. MaxPid /\ 0 \in 0 .. MaxLines
    BY <1>a, Parameters DEF Job
  <2>2. WritesOK
    <3>1. CASE RecordCas(j)
      <4>1. run' = [run EXCEPT !.exec = "started", !.pid = job[j].started,
                               !.consumed = 0, !.lease = "live", !.failures = 0]
        BY <1>4, <3>1 DEF RecordStarted
      <4>2. run' \in Row
        BY <1>a, <2>1, <4>1 DEF Row
      <4> QED
        BY <1>a, <1>4, <4>2 DEF WritesOK, RecordStarted
    <3>2. CASE ~RecordCas(j)
      BY <1>a, <1>4, <3>2 DEF WritesOK, RecordStarted
    <3> QED
      BY <3>1, <3>2
  <2>3. \A pc \in {"recorded", "ending"} : [job[j] EXCEPT !.pc = pc, !.agent = job[j].started] \in Job
    BY <1>a, <2>1, JobUpdates DEF Pcs
  <2>4. job' \in [Jobs -> Job]
    BY <1>a, <1>4, <2>3 DEF RecordStarted
  <2> QED
    BY <1>a, <1>4, <2>2, <2>4, TypeByParts DEF WritesOK, budgets, RecordStarted
<1>5. ASSUME PrFound(j) PROVE TypeOK'
  <2>1. WritesOK
    BY <1>a, <1>5, MoveToType DEF PrFound, WritesOK
  <2>2. [job[j] EXCEPT !.pc = "prfound"] \in Job
    BY <1>a, JobUpdates DEF Pcs
  <2>3. job' \in [Jobs -> Job]
    BY <1>a, <1>5, <2>2 DEF PrFound
  <2> QED
    BY <1>a, <1>5, <2>1, <2>3, TypeByParts DEF WritesOK, budgets, PrFound
<1>6. ASSUME PrOpened(j) PROVE TypeOK'
  <2>1. WritesOK
    BY <1>a, <1>6, MoveToType DEF PrOpened, WritesOK
  <2>2. job' \in [Jobs -> Job]
    BY <1>6, ToEndType DEF PrOpened
  <2> QED
    BY <1>a, <1>6, <2>1, <2>2, TypeByParts DEF WritesOK, budgets, PrOpened
<1>7. ASSUME ToRunning(j) PROVE TypeOK'
  <2>1. WritesOK
    BY <1>a, <1>7, MoveToType DEF ToRunning, WritesOK
  <2>2. [job[j] EXCEPT !.pc = "attaching"] \in Job
    BY <1>a, JobUpdates DEF Pcs
  <2>3. job' \in [Jobs -> Job]
    BY <1>a, <1>7, <2>2 DEF ToRunning
  <2> QED
    BY <1>a, <1>7, <2>1, <2>3, TypeByParts DEF WritesOK, budgets, ToRunning
<1>8. ASSUME StartRefused(j) PROVE TypeOK'
  <2>1. WritesOK
    BY <1>a, <1>8, SetupErrorType DEF StartRefused, WritesOK
  <2>2. job' \in [Jobs -> Job]
    BY <1>8, ToEndType DEF StartRefused
  <2> QED
    BY <1>a, <1>8, <2>1, <2>2, TypeByParts DEF WritesOK, budgets, StartRefused
<1> QED
    BY <1>1, <1>2, <1>3, <1>4, <1>5, <1>6, <1>7, <1>8 DEF StartStep

LEMMA AttachType ==
    ASSUME TypeOK, NEW j \in Jobs, AttachStep(j)
    PROVE  TypeOK'
<1>a. /\ run \in Row /\ job \in [Jobs -> Job]
      /\ kills \subseteq 0 .. MaxPid /\ decision \in Decisions
      /\ slots \in Int /\ faults \in 0 .. MaxFaults /\ requests \in 0 .. MaxRequests
    BY DEF TypeOK
<1>1. ASSUME AttachRead(j) PROVE TypeOK'
  <2>1. [job[j] EXCEPT !.pc = "reattach", !.origin = "attach", !.saw = run.state] \in Job
    BY <1>a, JobUpdates DEF Row
  <2>2. job' \in [Jobs -> Job]
    BY <1>a, <1>1, <2>1 DEF AttachRead
  <2> QED
    BY <1>a, <1>1, <2>2, TypeByParts DEF budgets, AttachRead
<1>2. ASSUME AttachClaim(j) PROVE TypeOK'
  <2>1. WritesOK
    BY <1>a, <1>2 DEF WritesOK, Row, AttachClaim
  <2>2. [job[j] EXCEPT !.pc = "attached", !.agent = run.pid, !.pos = run.consumed] \in Job
    BY <1>a, JobUpdates DEF Row
  <2>3. FreshJob \in Job
    BY StatesAre, Parameters DEF FreshJob, Job, Pcs
  <2>4. job' \in [Jobs -> Job]
    BY <1>a, <1>2, <2>2, <2>3 DEF AttachClaim
  <2> QED
    BY <1>a, <1>2, <2>1, <2>4, TypeByParts DEF WritesOK, budgets, AttachClaim
<1>3. ASSUME AttachPod(j) PROVE TypeOK'
  <2>1. WritesOK
    BY <1>a, <1>3, MoveToType DEF AttachPod, WritesOK
  <2>2. [job[j] EXCEPT !.pc = "attaching"] \in Job
    BY <1>a, JobUpdates DEF Pcs
  <2>3. job' \in [Jobs -> Job]
    BY <1>a, <1>3, <2>2 DEF AttachPod
  <2> QED
    BY <1>a, <1>3, <2>1, <2>3, TypeByParts DEF WritesOK, budgets, AttachPod
<1>4. ASSUME AttachPodGone(j) PROVE TypeOK'
  <2>1. [job[j] EXCEPT !.pc = "settling", !.outcome = "podgone"] \in Job
    BY <1>a, JobUpdates
  <2>2. job' \in [Jobs -> Job]
    BY <1>a, <1>4, <2>1 DEF AttachPodGone
  <2> QED
    BY <1>a, <1>4, <2>2, TypeByParts DEF budgets, AttachPodGone
<1>5. ASSUME AttachRefused(j) PROVE TypeOK'
  <2>1. run' \in Row /\ job' \in [Jobs -> Job]
    BY <1>5, StreamTroubleType DEF AttachRefused
  <2> QED
    BY <1>a, <1>5, <2>1, TypeByParts DEF budgets, AttachRefused
<1> QED
    BY <1>1, <1>2, <1>3, <1>4, <1>5 DEF AttachStep

LEMMA StreamType ==
    ASSUME TypeOK, NEW j \in Jobs, StreamStep(j)
    PROVE  TypeOK'
<1>a. /\ run \in Row /\ job \in [Jobs -> Job]
      /\ kills \subseteq 0 .. MaxPid /\ decision \in Decisions
      /\ slots \in Int /\ faults \in 0 .. MaxFaults /\ requests \in 0 .. MaxRequests
    BY DEF TypeOK
<1>1. ASSUME OpenStream(j) PROVE TypeOK'
  <2>1. [job[j] EXCEPT !.pc = "streaming", !.src = dir] \in Job
    BY <1>a, JobUpdates DEF TypeOK
  <2>2. job' \in [Jobs -> Job]
    BY <1>a, <1>1, <2>1, ToEndType DEF OpenStream
  <2> QED
    BY <1>a, <1>1, <2>2, TypeByParts DEF budgets, OpenStream
<1>2. ASSUME Append(j) PROVE TypeOK'
  <2> PICK to \in job[j].pos + 1 .. out[job[j].src] :
          /\ run' = [run EXCEPT !.consumed = to, !.failures = Progress(j)]
          /\ job' = [job EXCEPT ![j].pos = to]
          /\ StoreRows(job[j].pos + 1, to)
    BY <1>2 DEF Append
  <2>1. job[j].src \in Pids /\ job[j].pos \in 0 .. MaxLines
    BY <1>a, <1>2, Parameters DEF Append, Job, Pids
  <2>2. out[job[j].src] \in 0 .. MaxLines
    BY <2>1 DEF TypeOK
  <2>3. to \in 0 .. MaxLines
    BY <2>1, <2>2, Parameters
  <2>4. run' \in Row
    BY <1>a, <2>3 DEF Row, Progress
  <2>5. [job[j] EXCEPT !.pos = to] \in Job
    BY <1>a, <2>3, JobUpdates
  <2>6. job' \in [Jobs -> Job]
    BY <1>a, <2>5
  <2>7. rows' \in [Pids -> [Lines -> Nat]]
    <3>1. rows \in [Pids -> [Lines -> Nat]]
      BY DEF TypeOK
    <3>2. CASE run.pid \in Pids
      <4>1. [k \in Lines |-> IF job[j].pos + 1 <= k /\ k <= to
                             THEN rows[run.pid][k] + 1 ELSE rows[run.pid][k]]
              \in [Lines -> Nat]
        BY <3>1, <3>2
      <4> QED
        BY <3>1, <4>1 DEF StoreRows
    <3>3. CASE run.pid \notin Pids
      BY <3>1, <3>3 DEF StoreRows
    <3> QED
      BY <3>2, <3>3
  <2> QED
    BY <1>2, <2>4, <2>6, <2>7 DEF TypeOK, Append, podVars, budgets
<1>3. ASSUME NoticeLoss(j) PROVE TypeOK'
  <2>1. job' \in [Jobs -> Job]
    BY <1>3, ToEndType DEF NoticeLoss, LossOf
  <2> QED
    BY <1>a, <1>3, <2>1, TypeByParts DEF budgets, NoticeLoss
<1>4. ASSUME Detach(j) PROVE TypeOK'
  <2>1. job' \in [Jobs -> Job]
    BY <1>4, ToEndType DEF Detach
  <2> QED
    BY <1>a, <1>4, <2>1, TypeByParts DEF budgets, Detach
<1>5. ASSUME StreamEnds(j) PROVE TypeOK'
  <2>1. \A o \in {"exited", "lost"} : [job[j] EXCEPT !.pc = "settling", !.outcome = o] \in Job
    BY <1>a, JobUpdates
  <2>2. job' \in [Jobs -> Job]
    BY <1>a, <1>5, <2>1 DEF StreamEnds
  <2> QED
    BY <1>a, <1>5, <2>2, TypeByParts DEF budgets, StreamEnds
<1> QED
    BY <1>1, <1>2, <1>3, <1>4, <1>5 DEF StreamStep

LEMMA FinishType ==
    ASSUME TypeOK, NEW j \in Jobs, FinishStep(j)
    PROVE  TypeOK'
<1>a. /\ run \in Row /\ job \in [Jobs -> Job]
      /\ kills \subseteq 0 .. MaxPid /\ decision \in Decisions
      /\ slots \in Int /\ faults \in 0 .. MaxFaults /\ requests \in 0 .. MaxRequests
    BY DEF TypeOK
<1>1. ASSUME Settle(j) PROVE TypeOK'
  <2>1. run' \in Row
    BY <1>a, <1>1 DEF Settle, Row
  <2>2. \A pc \in {"check", "deciding"} : [job[j] EXCEPT !.pc = pc] \in Job
    BY <1>a, JobUpdates DEF Pcs
  <2>3. job' \in [Jobs -> Job]
    BY <1>a, <1>1, <2>2, ToEndType DEF Settle, LossOf
  <2>4. spend' \in [Pids -> Nat]
    BY <1>1 DEF TypeOK, Settle
  <2> QED
    BY <1>1, <2>1, <2>3, <2>4 DEF TypeOK, Settle, Decisions, podVars, budgets
<1>2. ASSUME FinishCheck(j) PROVE TypeOK'
  <2>1. WritesOK
    BY <1>a, <1>2, MoveToType DEF FinishCheck, WritesOK
  <2>2. \A pc \in {"deciding", "closing"} : [job[j] EXCEPT !.pc = pc] \in Job
    BY <1>a, JobUpdates DEF Pcs
  <2>3. job' \in [Jobs -> Job]
    BY <1>a, <1>2, <2>2 DEF FinishCheck
  <2> QED
    BY <1>a, <1>2, <2>1, <2>3, TypeByParts DEF WritesOK, budgets, FinishCheck
<1>3. ASSUME Decide(j) PROVE TypeOK'
  <2>1. WritesOK
    BY <1>a, <1>3, MoveToType DEF Decide, WritesOK
  <2>2. \A pc \in {"tidying", "closing"} : [job[j] EXCEPT !.pc = pc] \in Job
    BY <1>a, JobUpdates DEF Pcs
  <2>3. job' \in [Jobs -> Job]
    BY <1>a, <1>3, <2>2 DEF Decide
  <2> QED
    BY <1>a, <1>3, <2>1, <2>3, TypeByParts DEF WritesOK, budgets, Decide
<1>4. ASSUME DecideRefused(j) PROVE TypeOK'
  <2>1. run' \in Row /\ job' \in [Jobs -> Job]
    BY <1>a, <1>4, StreamTroubleType, ToEndType DEF DecideRefused
  <2> QED
    BY <1>a, <1>4, <2>1, TypeByParts DEF budgets, DecideRefused
<1>5. ASSUME FailRun(j) PROVE TypeOK'
  <2>1. WritesOK
    BY <1>a, <1>5, MoveToType DEF FailRun, WritesOK
  <2>2. job' \in [Jobs -> Job]
    BY <1>5, ToEndType DEF FailRun
  <2> QED
    BY <1>a, <1>5, <2>1, <2>2, TypeByParts DEF WritesOK, budgets, FailRun
<1>6. ASSUME Tidy(j) PROVE TypeOK'
  <2>1. [job[j] EXCEPT !.pc = "closing"] \in Job
    BY <1>a, JobUpdates DEF Pcs
  <2>2. job' \in [Jobs -> Job]
    BY <1>a, <1>6, <2>1 DEF Tidy
  <2> QED
    BY <1>6, <2>2, Parameters DEF TypeOK, Tidy, ledgerVars, budgets
<1>7. ASSUME Close(j) PROVE TypeOK'
  <2>1. run' \in Row
    BY <1>a, <1>7 DEF Close, Row
  <2>2. job' \in [Jobs -> Job]
    BY <1>7, ToEndType DEF Close
  <2> QED
    BY <1>a, <1>7, <2>1, <2>2, TypeByParts DEF budgets, Close
<1>8. ASSUME EndRunJob(j) PROVE TypeOK'
  <2>1. run' \in Row
    BY <1>a, <1>8 DEF EndRunJob, Row
  <2>2. job[j].agent \in 0 .. MaxPid
    BY <1>a DEF Job
  <2>3. job' \in [Jobs -> Job]
    <3>1. [job[j] EXCEPT !.pc = "done"] \in Job
      BY <1>a, JobUpdates DEF Pcs
    <3> QED
      BY <1>a, <1>8, <3>1 DEF EndRunJob
  <2>4. kills' \subseteq 0 .. MaxPid
    BY <1>a, <1>8, <2>2 DEF EndRunJob
  <2>5. slots' \in Int
    BY <1>a, <1>8 DEF EndRunJob
  <2> QED
    BY <1>a, <1>8, <2>1, <2>3, <2>4, <2>5, TypeByParts DEF budgets, EndRunJob
<1> QED
    BY <1>1, <1>2, <1>3, <1>4, <1>5, <1>6, <1>7, <1>8 DEF FinishStep

LEMMA TroubleType ==
    ASSUME TypeOK, NEW j \in Jobs, Trouble(j)
    PROVE  TypeOK'
<1>a. /\ run \in Row /\ job \in [Jobs -> Job]
      /\ kills \subseteq 0 .. MaxPid /\ decision \in Decisions
      /\ slots \in Int /\ faults \in 0 .. MaxFaults /\ requests \in 0 .. MaxRequests
    BY DEF TypeOK
<1>1. ASSUME SetupFails(j) PROVE TypeOK'
  <2>1. WritesOK
    BY <1>1, SetupErrorType DEF SetupFails
  <2>2. job' \in [Jobs -> Job]
    BY <1>1, ToEndType DEF SetupFails
  <2>3. faults' \in 0 .. MaxFaults
    BY <1>1, BudgetType DEF SetupFails
  <2> QED
    BY <1>a, <1>1, <2>1, <2>2, <2>3, TypeByParts DEF WritesOK, SetupFails
<1>2. ASSUME StreamError(j) PROVE TypeOK'
  <2>1. run' \in Row /\ job' \in [Jobs -> Job]
    BY <1>2, StreamTroubleType DEF StreamError
  <2>2. faults' \in 0 .. MaxFaults
    BY <1>2, BudgetType DEF StreamError
  <2> QED
    BY <1>a, <1>2, <2>1, <2>2, TypeByParts DEF StreamError
<1>3. ASSUME Drop(j) PROVE TypeOK'
  <2>1. job' \in [Jobs -> Job]
    BY <1>3, ToEndType DEF Drop
  <2>2. faults' \in 0 .. MaxFaults
    BY <1>3, BudgetType DEF Drop
  <2> QED
    BY <1>a, <1>3, <2>1, <2>2, TypeByParts DEF Drop
<1>4. ASSUME Shutdown(j) PROVE TypeOK'
  <2>1. run' \in Row
    BY <1>a, <1>4 DEF Shutdown, Row
  <2>2. [job[j] EXCEPT !.released = TRUE] \in Job
    BY <1>a, JobUpdates
  <2>3. job' \in [Jobs -> Job]
    BY <1>a, <1>4, <2>2 DEF Shutdown
  <2>4. faults' \in 0 .. MaxFaults
    BY <1>4, BudgetType DEF Shutdown
  <2> QED
    BY <1>a, <1>4, <2>1, <2>3, <2>4, TypeByParts DEF Shutdown
<1>5. ASSUME Crash(j) PROVE TypeOK'
  <2>1. [job[j] EXCEPT !.pc = "dead"] \in Job
    BY <1>a, JobUpdates DEF Pcs
  <2>2. job' \in [Jobs -> Job]
    BY <1>a, <1>5, <2>1 DEF Crash
  <2>3. faults' \in 0 .. MaxFaults
    BY <1>5, BudgetType DEF Crash
  <2> QED
    BY <1>a, <1>5, <2>2, <2>3, TypeByParts DEF Crash
<1> QED
    BY <1>1, <1>2, <1>3, <1>4, <1>5 DEF Trouble

\* Steps of no job's own: renewals, expiry, the pod, users, the reconciler.
LEMMA OtherType ==
    ASSUME TypeOK,
           \/ \E j \in Jobs : Renew(j)
           \/ ExpireLease \/ Pod \/ Cancel \/ Retry \/ Redo
           \/ ReconcileReads \/ ReconcileActs
    PROVE  TypeOK'
<1>a. /\ run \in Row /\ job \in [Jobs -> Job]
      /\ kills \subseteq 0 .. MaxPid /\ decision \in Decisions
      /\ slots \in Int /\ faults \in 0 .. MaxFaults /\ requests \in 0 .. MaxRequests
    BY DEF TypeOK
<1>1. ASSUME NEW j \in Jobs, Renew(j) PROVE TypeOK'
  <2>1. run' \in Row
    BY <1>a, <1>1 DEF Renew, Row
  <2> QED
    BY <1>a, <1>1, <2>1, TypeByParts DEF Renew, budgets
<1>2. ASSUME ExpireLease PROVE TypeOK'
  <2>1. run' \in Row
    BY <1>a, <1>2 DEF ExpireLease, Row
  <2>2. faults' \in 0 .. MaxFaults
    BY <1>a, <1>2, BudgetType DEF ExpireLease
  <2> QED
    BY <1>a, <1>2, <2>1, <2>2, TypeByParts DEF ExpireLease
<1>3. ASSUME NEW p \in Pids, AgentWrites(p) PROVE TypeOK'
  <2>1. out' \in [Pids -> 0 .. MaxLines]
    BY <1>3, Parameters DEF TypeOK, AgentWrites
  <2> QED
    BY <1>3, <2>1 DEF TypeOK, AgentWrites, ledgerVars, budgets
<1>4. ASSUME NEW p \in Pids, AgentExits(p) PROVE TypeOK'
    BY <1>4 DEF TypeOK, AgentExits, ledgerVars, budgets
<1>5. ASSUME NEW p \in 0 .. MaxPid, DeliverKill(p) PROVE TypeOK'
  <2>1. sup' \in [Pids -> {"none", "alive", "exited", "dead"}]
    BY <1>5 DEF TypeOK, DeliverKill
  <2>2. decision' \in Decisions
    BY <1>a, <1>5 DEF DeliverKill, Decisions
  <2> QED
    BY <1>5, <2>1, <2>2 DEF TypeOK, DeliverKill, ledgerVars, budgets
<1>6. ASSUME PodDies PROVE TypeOK'
  <2>1. sup' \in [Pids -> {"none", "alive", "exited", "dead"}]
    BY <1>6 DEF TypeOK, PodDies
  <2>2. podUp' \in BOOLEAN /\ dir' \in 0 .. MaxPid
    <3>1. dir \in 0 .. MaxPid /\ 0 \in 0 .. MaxPid
      BY Parameters DEF TypeOK
    <3>2. CASE podUp' = TRUE /\ dir' \in {0, dir}
      BY <3>1, <3>2
    <3>3. CASE podUp' = FALSE /\ dir' = 0
      BY <3>1, <3>3
    <3> QED
      BY <1>6, <3>2, <3>3 DEF PodDies
  <2>3. faults' \in 0 .. MaxFaults
    BY <1>6, BudgetType DEF PodDies
  <2> QED
    BY <1>6, <2>1, <2>2, <2>3 DEF TypeOK, PodDies, ledgerVars
<1>7. ASSUME Cancel PROVE TypeOK'
  <2>1. WritesOK /\ requests' \in 0 .. MaxRequests
    BY <1>7, MoveToType, BudgetType DEF Cancel
  <2> QED
    BY <1>a, <1>7, <2>1, TypeByParts DEF WritesOK, Cancel
<1>8. ASSUME Retry PROVE TypeOK'
  <2>1. WritesOK /\ requests' \in 0 .. MaxRequests
    BY <1>8, NewAttemptType, BudgetType DEF Retry, Requeue
  <2> QED
    BY <1>a, <1>8, <2>1, TypeByParts DEF WritesOK, Retry
<1>9. ASSUME Redo PROVE TypeOK'
  <2>1. WritesOK /\ requests' \in 0 .. MaxRequests
    BY <1>9, NewAttemptType, BudgetType DEF Redo
  <2>2. rows' \in [Pids -> [Lines -> Nat]]
    BY <1>9 DEF Redo
  <2> QED
    BY <1>9, <2>1, <2>2 DEF TypeOK, WritesOK, Redo, podVars
<1>10. ASSUME ReconcileReads PROVE TypeOK'
  <2>1. decision' \in Decisions /\ faults' \in 0 .. MaxFaults
    BY <1>a, <1>10, BudgetType DEF ReconcileReads
  <2> QED
    BY <1>a, <1>10, <2>1, TypeByParts DEF ReconcileReads
<1>11. ASSUME ReconcileActs PROVE TypeOK'
  <2>1. WritesOK
    BY <1>11, MoveToType, NewAttemptType DEF ReconcileActs, Requeue
  <2> QED
    BY <1>a, <1>11, <2>1, TypeByParts DEF WritesOK, ReconcileActs, budgets
<1> QED
    BY <1>1, <1>2, <1>3, <1>4, <1>5, <1>6, <1>7, <1>8, <1>9, <1>10, <1>11 DEF Pod

LEMMA TypeInit == Init => TypeOK
    BY Parameters, StatesAre DEF Init, TypeOK, Row, Job, FreshJob, Pcs, Pids, Lines, Decisions

LEMMA TypeStep == TypeOK /\ [Next]_vars => TypeOK'
<1>1. ASSUME TypeOK, Next PROVE TypeOK'
    BY <1>1, StartType, AttachType, StreamType, FinishType, TroubleType, OtherType DEF Next
<1>2. ASSUME TypeOK, UNCHANGED vars PROVE TypeOK'
    BY <1>2 DEF TypeOK, vars
<1> QED
    BY <1>1, <1>2

\* Whatever jobs, users, faults and the reconciler do, the row, the jobs'
\* records and the budgets stay within their types and bounds.
THEOREM TypeCorrect == Spec => []TypeOK
    BY TypeInit, TypeStep, PTL DEF Spec

=============================================================================
