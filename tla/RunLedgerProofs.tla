--------------------------- MODULE RunLedgerProofs ---------------------------
(***************************************************************************)
(* RunAttachment keeps the log exact, adds spend once, and implements      *)
(* RunLedger.                                                              *)
(*                                                                         *)
(* Most of the sixty or so ways a step can go write nothing these          *)
(* properties look at.  StepKinds sorts the steps: quiet ones, resets of   *)
(* the attempt, and the five writes that matter (a launch, a recorded      *)
(* start, a claimed attachment, a stored batch, a recorded exit).  Each    *)
(* kind then preserves the invariant, and maps to a step of the ledger.    *)
(***************************************************************************)
EXTENDS RunAttachmentProofs

-----------------------------------------------------------------------------
(* Kinds of steps.                                                          *)

\* No job comes to own the run, or to be about to record a start.
JobsQuiet ==
    \A i \in Jobs :
        /\ job'[i].started \in {0, job[i].started}
        /\ job'[i].pc = "launched" => At(i, "launched") /\ job'[i].started = job[i].started
        /\ run'.by = i /\ job'[i].pc \in Owning =>
             Holds(i) /\ job[i].pc \in Owning /\ job'[i].agent = job[i].agent

RowQuiet ==
    /\ run'.pid = run.pid /\ run'.exec = run.exec /\ run'.consumed = run.consumed
    /\ UNCHANGED <<rows, spend, launched>>

RowReset ==
    /\ run'.pid = 0 /\ run'.exec = "none" /\ run'.by = NoJob
    /\ rows' \in {rows, Ledger!Nothing}
    /\ UNCHANGED <<spend, launched>>

Quiet == JobsQuiet /\ (RowQuiet \/ RowReset)

\* What job j remembers after a step that moved only j.
Others(j) == \A i \in Jobs \ {j} : job'[i] = job[i]
Moved(j, pc) == /\ Others(j)
                /\ job'[j].pc = pc
                /\ job'[j].started = job[j].started /\ job'[j].agent = job[j].agent

LEMMA MovedTo ==
    ASSUME job \in [Jobs -> Job], NEW j \in Jobs
    PROVE  /\ \A pc : job' = [job EXCEPT ![j].pc = pc] => Moved(j, pc)
           /\ \A end : ToEnd(j, end) => Moved(j, "ending")
           /\ \A o : job' = [job EXCEPT ![j].pc = "settling", ![j].outcome = o] => Moved(j, "settling")
           /\ \A d : job' = [job EXCEPT ![j].pc = "streaming", ![j].src = d] => Moved(j, "streaming")
           /\ \A s : job' = [job EXCEPT ![j].pc = "reattach", ![j].origin = "attach", ![j].saw = s]
                      => Moved(j, "reattach")
           /\ \A n : job' = [job EXCEPT ![j].pos = n] => Moved(j, job[j].pc)
           /\ job' = [job EXCEPT ![j].released = TRUE] => Moved(j, job[j].pc)
<1>0. job[j] \in Job
    OBVIOUS
<1>1. ASSUME NEW pc, job' = [job EXCEPT ![j].pc = pc] PROVE Moved(j, pc)
    BY <1>0, <1>1 DEF Moved, Others, Job
<1>2. ASSUME NEW end, ToEnd(j, end) PROVE Moved(j, "ending")
  <2>1. job'[j] = [job[j] EXCEPT !.pc = "ending", !.end = end] /\ Others(j)
    BY <1>2 DEF ToEnd, Others
  <2> QED
    BY <1>0, <2>1 DEF Moved, Job
<1>3. ASSUME NEW o, job' = [job EXCEPT ![j].pc = "settling", ![j].outcome = o] PROVE Moved(j, "settling")
  <2>1. job'[j] = [job[j] EXCEPT !.pc = "settling", !.outcome = o] /\ Others(j)
    BY <1>3 DEF Others
  <2> QED
    BY <1>0, <2>1 DEF Moved, Job
<1>4. ASSUME NEW d, job' = [job EXCEPT ![j].pc = "streaming", ![j].src = d] PROVE Moved(j, "streaming")
  <2>1. job'[j] = [job[j] EXCEPT !.pc = "streaming", !.src = d] /\ Others(j)
    BY <1>4 DEF Others
  <2> QED
    BY <1>0, <2>1 DEF Moved, Job
<1>5. ASSUME NEW s, job' = [job EXCEPT ![j].pc = "reattach", ![j].origin = "attach", ![j].saw = s]
      PROVE  Moved(j, "reattach")
  <2>1. job'[j] = [job[j] EXCEPT !.pc = "reattach", !.origin = "attach", !.saw = s] /\ Others(j)
    BY <1>5 DEF Others
  <2> QED
    BY <1>0, <2>1 DEF Moved, Job
<1>6. ASSUME NEW n, job' = [job EXCEPT ![j].pos = n] PROVE Moved(j, job[j].pc)
    BY <1>0, <1>6 DEF Moved, Others, Job
<1>7. ASSUME job' = [job EXCEPT ![j].released = TRUE] PROVE Moved(j, job[j].pc)
    BY <1>0, <1>7 DEF Moved, Others, Job
<1> QED
    BY <1>1, <1>2, <1>3, <1>4, <1>5, <1>6, <1>7

LEMMA MovedIsQuiet ==
    ASSUME TypeOK, NEW j \in Jobs, NEW pc, Moved(j, pc),
           pc # "launched" \/ At(j, "launched"),
           pc \in Owning => job[j].pc \in Owning,
           run'.by \in {run.by, NoJob}
    PROVE  JobsQuiet
    BY Parameters DEF JobsQuiet, Moved, Others, Holds, At

LEMMA StillIsQuiet ==
    ASSUME job' = job, run'.by \in {run.by, NoJob}
    PROVE  JobsQuiet
    BY Parameters DEF JobsQuiet, Holds, At

LEMMA MoveToRow ==
    ASSUME TypeOK, NEW s, MoveTo(s), UNCHANGED <<rows, spend, launched>>
    PROVE  RowQuiet /\ run'.by = run.by
<1>1. run \in Row
    BY DEF TypeOK
<1> QED
    BY <1>1 DEF MoveTo, RowQuiet, Row

LEMMA NewAttemptRow ==
    ASSUME TypeOK, NewAttempt, rows' \in {rows, Ledger!Nothing}, UNCHANGED <<spend, launched>>
    PROVE  RowReset
<1>1. run \in Row
    BY DEF TypeOK
<1>2. run'.pid = 0 /\ run'.exec = "none" /\ run'.by = NoJob
    BY <1>1 DEF NewAttempt, Reset, Row
<1> QED
    BY <1>2 DEF RowReset

\* The row's part of an error in the setup, and of trouble while streaming.
LEMMA SetupErrorRow ==
    ASSUME TypeOK, NEW j \in Jobs, SetupError(j) \/ UNCHANGED <<run, kills, decision>>,
           UNCHANGED <<rows, spend, launched>>
    PROVE  (RowQuiet \/ RowReset) /\ run'.by \in {run.by, NoJob}
<1>1. CASE UNCHANGED <<run, kills, decision>>
    BY <1>1 DEF RowQuiet
<1>2. CASE MoveTo("failed")
    BY <1>2, MoveToRow
<1>3. CASE Requeue
    BY <1>3, NewAttemptRow DEF Requeue, RowReset
<1> QED
    BY <1>1, <1>2, <1>3 DEF SetupError

LEMMA StreamTroubleQuiet ==
    ASSUME TypeOK, NEW j \in Jobs, StreamTrouble(j), job[j].pc \in Owning,
           UNCHANGED <<rows, spend, launched>>
    PROVE  JobsQuiet /\ RowQuiet
<1>1. run \in Row /\ job \in [Jobs -> Job]
    BY DEF TypeOK
<1>2. RowQuiet /\ run'.by = run.by
    BY <1>1 DEF StreamTrouble, RowQuiet, Row
<1>3. Moved(j, "ending") \/ Moved(j, "failing")
    BY <1>1, MovedTo DEF StreamTrouble
<1> QED
    BY <1>2, <1>3, MovedIsQuiet DEF Owning

LEMMA StartKinds ==
    ASSUME TypeOK, NEW j \in Jobs, StartStep(j)
    PROVE  Quiet \/ LaunchAgent(j) \/ (RecordStarted(j) /\ RecordCas(j))
<1>a. run \in Row /\ job \in [Jobs -> Job]
    BY DEF TypeOK
<1>1. ASSUME Claim(j) PROVE Quiet
  <2>1. Moved(j, "claimed") /\ RowQuiet /\ run'.by = run.by
    BY <1>a, <1>1, MovedTo, MoveToRow DEF Claim, podVars, ledgerVars
  <2> QED
    BY <2>1, MovedIsQuiet DEF Quiet, Owning
<1>2. ASSUME BeginHold(j) PROVE Quiet
  <2>1. Moved(j, "setup")
    BY <1>a, <1>2, MovedTo DEF BeginHold
  <2>2. RowQuiet /\ run'.by = j
    BY <1>a, <1>2 DEF BeginHold, RowQuiet, Row, podVars, ledgerVars
  <2>3. JobsQuiet
    BY <2>1, <2>2 DEF JobsQuiet, Moved, Others, Owning, At
  <2> QED
    BY <2>2, <2>3 DEF Quiet
<1>3. ASSUME PrFound(j) PROVE Quiet
  <2>1. Moved(j, "prfound") /\ RowQuiet /\ run'.by = run.by
    BY <1>a, <1>3, MovedTo, MoveToRow DEF PrFound, podVars, ledgerVars
  <2> QED
    BY <2>1, MovedIsQuiet DEF Quiet, Owning
<1>4. ASSUME PrOpened(j) PROVE Quiet
  <2>1. Moved(j, "ending") /\ RowQuiet /\ run'.by = run.by
    BY <1>a, <1>4, MovedTo, MoveToRow DEF PrOpened, podVars, ledgerVars
  <2> QED
    BY <2>1, MovedIsQuiet DEF Quiet, Owning
<1>5. ASSUME RecordStarted(j), ~RecordCas(j) PROVE Quiet
  <2>1. job'[j] = [job[j] EXCEPT !.pc = "ending", !.agent = job[j].started] /\ Others(j)
    BY <1>a, <1>5 DEF RecordStarted, Others
  <2>2. job'[j].pc = "ending" /\ job'[j].started = job[j].started
    BY <1>a, <2>1 DEF Job
  <2>3. RowQuiet /\ run' = run
    BY <1>5 DEF RecordStarted, RowQuiet, podVars, ledgerVars
  <2>4. JobsQuiet
    BY <2>1, <2>2, <2>3 DEF JobsQuiet, Others, Owning, Holds, At
  <2> QED
    BY <2>3, <2>4 DEF Quiet
<1>6. ASSUME ToRunning(j) PROVE Quiet
  <2>1. Moved(j, "attaching") /\ RowQuiet /\ run'.by = run.by
    BY <1>a, <1>6, MovedTo, MoveToRow DEF ToRunning, podVars, ledgerVars
  <2> QED
    BY <1>6, <2>1, MovedIsQuiet DEF Quiet, Owning, ToRunning, At
<1>7. ASSUME StartRefused(j) PROVE Quiet
  <2>1. Moved(j, "ending")
    BY <1>a, <1>7, MovedTo DEF StartRefused
  <2>2. (RowQuiet \/ RowReset) /\ run'.by \in {run.by, NoJob}
    BY <1>7, SetupErrorRow DEF StartRefused, podVars, ledgerVars
  <2> QED
    BY <2>1, <2>2, MovedIsQuiet DEF Quiet, Owning
<1> QED
    BY <1>1, <1>2, <1>3, <1>4, <1>5, <1>6, <1>7 DEF StartStep

LEMMA AttachKinds ==
    ASSUME TypeOK, NEW j \in Jobs, AttachStep(j)
    PROVE  Quiet \/ (AttachClaim(j) /\ Claimable)
<1>a. run \in Row /\ job \in [Jobs -> Job]
    BY DEF TypeOK
<1>1. ASSUME AttachRead(j) PROVE Quiet
  <2>1. Moved(j, "reattach") /\ RowQuiet /\ run' = run
    BY <1>a, <1>1, MovedTo DEF AttachRead, RowQuiet, podVars, ledgerVars
  <2> QED
    BY <2>1, MovedIsQuiet DEF Quiet, Owning
<1>2. ASSUME AttachClaim(j), ~Claimable PROVE Quiet
  <2>1. Others(j) /\ job'[j] = FreshJob /\ RowQuiet /\ run' = run
    BY <1>a, <1>2 DEF AttachClaim, Others, RowQuiet, podVars, ledgerVars
  <2>2. JobsQuiet
    BY <2>1 DEF JobsQuiet, Others, FreshJob, Owning, Holds, At
  <2> QED
    BY <2>1, <2>2 DEF Quiet
<1>3. ASSUME AttachPod(j) PROVE Quiet
  <2>1. Moved(j, "attaching")
    BY <1>a, <1>3, MovedTo DEF AttachPod
  <2>2. RowQuiet /\ run'.by = run.by
    BY <1>a, <1>3, MoveToRow DEF AttachPod, RowQuiet, podVars, ledgerVars
  <2> QED
    BY <1>3, <2>1, <2>2, MovedIsQuiet DEF Quiet, Owning, AttachPod, At
<1>4. ASSUME AttachPodGone(j) PROVE Quiet
  <2>1. Moved(j, "settling") /\ RowQuiet /\ run' = run
    BY <1>a, <1>4, MovedTo DEF AttachPodGone, RowQuiet, podVars, ledgerVars
  <2> QED
    BY <1>4, <2>1, MovedIsQuiet DEF Quiet, Owning, AttachPodGone, At
<1>5. ASSUME AttachRefused(j) PROVE Quiet
    BY <1>5, StreamTroubleQuiet DEF Quiet, AttachRefused, At, Owning, podVars, ledgerVars
<1> QED
    BY <1>1, <1>2, <1>3, <1>4, <1>5 DEF AttachStep

LEMMA StreamKinds ==
    ASSUME TypeOK, NEW j \in Jobs, StreamStep(j)
    PROVE  Quiet \/ Append(j)
<1>a. run \in Row /\ job \in [Jobs -> Job]
    BY DEF TypeOK
<1>1. ASSUME OpenStream(j) PROVE Quiet
  <2>1. Moved(j, "ending") \/ Moved(j, "streaming")
    BY <1>a, <1>1, MovedTo DEF OpenStream
  <2>2. RowQuiet /\ run' = run
    BY <1>1 DEF OpenStream, RowQuiet, podVars, ledgerVars
  <2> QED
    BY <1>1, <2>1, <2>2, MovedIsQuiet DEF Quiet, Owning, OpenStream, At
<1>2. ASSUME NoticeLoss(j) \/ Detach(j) PROVE Quiet
  <2>1. Moved(j, "ending") /\ RowQuiet /\ run' = run
    BY <1>a, <1>2, MovedTo DEF NoticeLoss, Detach, RowQuiet, podVars, ledgerVars
  <2> QED
    BY <2>1, MovedIsQuiet DEF Quiet, Owning
<1>3. ASSUME StreamEnds(j) PROVE Quiet
  <2>1. Moved(j, "settling") /\ RowQuiet /\ run' = run
    BY <1>a, <1>3, MovedTo DEF StreamEnds, RowQuiet, podVars, ledgerVars
  <2> QED
    BY <1>3, <2>1, MovedIsQuiet DEF Quiet, Owning, StreamEnds, At
<1> QED
    BY <1>1, <1>2, <1>3 DEF StreamStep

LEMMA FinishKinds ==
    ASSUME TypeOK, NEW j \in Jobs, FinishStep(j)
    PROVE  Quiet \/ (Settle(j) /\ SettleCas(j))
<1>a. run \in Row /\ job \in [Jobs -> Job]
    BY DEF TypeOK
<1>1. ASSUME Settle(j), ~SettleCas(j) PROVE Quiet
  <2>1. Moved(j, "check") \/ Moved(j, "deciding") \/ Moved(j, "ending")
    BY <1>a, <1>1, MovedTo DEF Settle
  <2>2. RowQuiet /\ run' = run
    BY <1>1 DEF Settle, RowQuiet, podVars
  <2> QED
    BY <1>1, <2>1, <2>2, MovedIsQuiet DEF Quiet, Owning, Settle, At
<1>2. ASSUME FinishCheck(j) PROVE Quiet
  <2>1. Moved(j, "deciding") \/ Moved(j, "closing")
    BY <1>a, <1>2, MovedTo DEF FinishCheck
  <2>2. RowQuiet /\ run' = run
    BY <1>2 DEF FinishCheck, RowQuiet, podVars, ledgerVars
  <2> QED
    BY <1>2, <2>1, <2>2, MovedIsQuiet DEF Quiet, Owning, FinishCheck, At
<1>3. ASSUME Decide(j) PROVE Quiet
  <2>1. Moved(j, "tidying") \/ Moved(j, "closing")
    BY <1>a, <1>3, MovedTo DEF Decide
  <2>2. RowQuiet /\ run'.by = run.by
    BY <1>3, MoveToRow DEF Decide, podVars, ledgerVars
  <2> QED
    BY <1>3, <2>1, <2>2, MovedIsQuiet DEF Quiet, Owning, Decide, At
<1>4. ASSUME DecideRefused(j) PROVE Quiet
  <2>1. CASE StreamTrouble(j)
    BY <1>4, <2>1, StreamTroubleQuiet DEF Quiet, DecideRefused, At, Owning, podVars, ledgerVars
  <2>2. CASE ToEnd(j, "none") /\ UNCHANGED run
    <3>1. Moved(j, "ending")
      BY <1>a, <2>2, MovedTo
    <3>2. RowQuiet
      BY <1>4, <2>2 DEF DecideRefused, RowQuiet, podVars, ledgerVars
    <3> QED
      BY <2>2, <3>1, <3>2, MovedIsQuiet DEF Quiet, Owning
  <2> QED
    BY <1>4, <2>1, <2>2 DEF DecideRefused
<1>5. ASSUME FailRun(j) PROVE Quiet
  <2>1. Moved(j, "ending")
    BY <1>a, <1>5, MovedTo DEF FailRun
  <2>2. RowQuiet /\ run'.by = run.by
    BY <1>5, MoveToRow DEF FailRun, RowQuiet, podVars, ledgerVars
  <2> QED
    BY <2>1, <2>2, MovedIsQuiet DEF Quiet, Owning
<1>6. ASSUME Tidy(j) PROVE Quiet
  <2>1. Moved(j, "closing") /\ RowQuiet /\ run' = run
    BY <1>a, <1>6, MovedTo DEF Tidy, RowQuiet, ledgerVars
  <2> QED
    BY <1>6, <2>1, MovedIsQuiet DEF Quiet, Owning, Tidy, At
<1>7. ASSUME Close(j) PROVE Quiet
  <2>1. Moved(j, "ending")
    BY <1>a, <1>7, MovedTo DEF Close
  <2>2. RowQuiet /\ run'.by \in {run.by, NoJob}
    BY <1>a, <1>7 DEF Close, Row, RowQuiet, podVars, ledgerVars
  <2> QED
    BY <2>1, <2>2, MovedIsQuiet DEF Quiet, Owning
<1>8. ASSUME EndRunJob(j) PROVE Quiet
  <2>1. Moved(j, "done")
    BY <1>a, <1>8, MovedTo DEF EndRunJob
  <2>2. RowQuiet /\ run'.by = run.by
    BY <1>a, <1>8 DEF EndRunJob, Row, RowQuiet, podVars, ledgerVars
  <2> QED
    BY <2>1, <2>2, MovedIsQuiet DEF Quiet, Owning
<1> QED
    BY <1>1, <1>2, <1>3, <1>4, <1>5, <1>6, <1>7, <1>8 DEF FinishStep

LEMMA TroubleKinds ==
    ASSUME TypeOK, NEW j \in Jobs, Trouble(j)
    PROVE  Quiet
<1>a. run \in Row /\ job \in [Jobs -> Job]
    BY DEF TypeOK
<1>1. ASSUME SetupFails(j) PROVE Quiet
  <2>1. Moved(j, "ending")
    BY <1>a, <1>1, MovedTo DEF SetupFails
  <2>2. (RowQuiet \/ RowReset) /\ run'.by \in {run.by, NoJob}
    BY <1>1, SetupErrorRow DEF SetupFails, podVars, ledgerVars
  <2> QED
    BY <2>1, <2>2, MovedIsQuiet DEF Quiet, Owning
<1>2. ASSUME StreamError(j) PROVE Quiet
  <2>1. job[j].pc \in Owning
    BY <1>2 DEF StreamError, Owning
  <2> QED
    BY <1>2, <2>1, StreamTroubleQuiet DEF Quiet, StreamError, podVars, ledgerVars
<1>3. ASSUME Drop(j) PROVE Quiet
  <2>1. Moved(j, "ending") /\ RowQuiet /\ run' = run
    BY <1>a, <1>3, MovedTo DEF Drop, RowQuiet, podVars, ledgerVars
  <2> QED
    BY <2>1, MovedIsQuiet DEF Quiet, Owning
<1>4. ASSUME Shutdown(j) PROVE Quiet
  <2>1. Moved(j, job[j].pc)
    BY <1>a, <1>4, MovedTo DEF Shutdown
  <2>2. RowQuiet /\ run'.by = run.by
    BY <1>a, <1>4 DEF Shutdown, Row, RowQuiet, podVars, ledgerVars
  <2> QED
    BY <2>1, <2>2, MovedIsQuiet DEF Quiet, At
<1>5. ASSUME Crash(j) PROVE Quiet
  <2>1. Moved(j, "dead") /\ RowQuiet /\ run' = run
    BY <1>a, <1>5, MovedTo DEF Crash, RowQuiet, podVars, ledgerVars
  <2> QED
    BY <2>1, MovedIsQuiet DEF Quiet, Owning
<1> QED
    BY <1>1, <1>2, <1>3, <1>4, <1>5 DEF Trouble

LEMMA OtherKinds ==
    ASSUME TypeOK,
           \/ \E j \in Jobs : Renew(j)
           \/ ExpireLease \/ Pod \/ Cancel \/ Retry \/ Redo
           \/ ReconcileReads \/ ReconcileActs
    PROVE  Quiet
<1>a. run \in Row
    BY DEF TypeOK
<1>1. ASSUME NEW j \in Jobs, Renew(j) PROVE Quiet
  <2>1. job' = job /\ RowQuiet /\ run'.by = run.by
    BY <1>a, <1>1 DEF Renew, Row, RowQuiet, podVars, ledgerVars
  <2> QED
    BY <2>1, StillIsQuiet DEF Quiet
<1>2. ASSUME ExpireLease PROVE Quiet
  <2>1. job' = job /\ RowQuiet /\ run'.by = run.by
    BY <1>a, <1>2 DEF ExpireLease, Row, RowQuiet, podVars, ledgerVars
  <2> QED
    BY <2>1, StillIsQuiet DEF Quiet
<1>3. ASSUME Pod PROVE Quiet
  <2>1. job' = job /\ RowQuiet /\ run' = run
    BY <1>3 DEF Pod, AgentWrites, AgentExits, DeliverKill, PodDies, RowQuiet, ledgerVars
  <2> QED
    BY <2>1, StillIsQuiet DEF Quiet
<1>4. ASSUME Cancel PROVE Quiet
  <2>1. job' = job /\ RowQuiet /\ run'.by = run.by
    BY <1>4, MoveToRow DEF Cancel, podVars, ledgerVars
  <2> QED
    BY <2>1, StillIsQuiet DEF Quiet
<1>5. ASSUME Retry PROVE Quiet
  <2>1. job' = job /\ RowReset
    BY <1>5, NewAttemptRow DEF Retry, Requeue, podVars, ledgerVars
  <2> QED
    BY <2>1, StillIsQuiet DEF Quiet, RowReset
<1>6. ASSUME Redo PROVE Quiet
  <2>1. rows' = Ledger!Nothing
    BY <1>6, Parameters DEF Redo, Ledger!Nothing, Ledger!FirstN, Ledger!Pids, Ledger!Lines, Pids, Lines
  <2>2. job' = job /\ RowReset
    BY <1>6, <2>1, NewAttemptRow DEF Redo, podVars
  <2> QED
    BY <2>2, StillIsQuiet DEF Quiet, RowReset
<1>7. ASSUME ReconcileReads PROVE Quiet
  <2>1. job' = job /\ RowQuiet /\ run' = run
    BY <1>7 DEF ReconcileReads, RowQuiet, podVars, ledgerVars
  <2> QED
    BY <2>1, StillIsQuiet DEF Quiet
<1>8. ASSUME ReconcileActs PROVE Quiet
  <2>1. job' = job /\ (RowQuiet \/ RowReset) /\ run'.by \in {run.by, NoJob}
    BY <1>8, MoveToRow, NewAttemptRow DEF ReconcileActs, Requeue, RowReset, podVars, ledgerVars
  <2> QED
    BY <2>1, StillIsQuiet DEF Quiet
<1> QED
    BY <1>1, <1>2, <1>3, <1>4, <1>5, <1>6, <1>7, <1>8

\* Every step is quiet or one of the five writes that matter.
LEMMA StepKinds ==
    ASSUME TypeOK, [Next]_vars
    PROVE  \/ Quiet
           \/ \E j \in Jobs : \/ LaunchAgent(j)
                              \/ RecordStarted(j) /\ RecordCas(j)
                              \/ AttachClaim(j) /\ Claimable
                              \/ Append(j)
                              \/ Settle(j) /\ SettleCas(j)
<1>1. CASE UNCHANGED vars
  <2>1. job' = job /\ run' = run /\ RowQuiet
    BY <1>1 DEF vars, RowQuiet
  <2> QED
    BY <2>1, StillIsQuiet DEF Quiet
<1>2. CASE Next
    BY <1>2, StartKinds, AttachKinds, StreamKinds, FinishKinds, TroubleKinds, OtherKinds DEF Next
<1> QED
    BY <1>1, <1>2

-----------------------------------------------------------------------------
(* Each kind of step preserves the invariant.                               *)

LEMMA InductiveInit == Init => Inductive
<1> SUFFICES ASSUME Init PROVE Inductive
    OBVIOUS
<1>1. TypeOK
    BY TypeInit
<1>2. \A p \in Pids : rows[p] = Ledger!FirstN(0) /\ spend[p] = 0
    BY Parameters DEF Init, Ledger!FirstN, Ledger!Lines, Lines
<1>3. StartsFresh
    BY <1>2 DEF Init, StartsFresh, FreshJob, At
<1>4. LogExact
    BY <1>2, Parameters DEF Init, LogExact
<1>5. SpendOnce
    BY <1>2 DEF SpendOnce
<1>6. HolderHasAgent
    BY Parameters DEF Init, HolderHasAgent, Holds
<1> QED
    BY <1>1, <1>3, <1>4, <1>5, <1>6 DEF Inductive

LEMMA QuietPreserves ==
    ASSUME Inductive, TypeOK', Quiet
    PROVE  Inductive'
<1> USE DEF Inductive
<1>1. launched \in Nat /\ (\A p \in Pids : p \in Nat /\ p # 0)
    BY Parameters DEF TypeOK, Pids
<1>2. ASSUME NEW i \in Jobs PROVE job'[i].started <= launched /\ job[i].started <= launched
    BY <1>1 DEF Quiet, JobsQuiet, StartsFresh
<1>3. CASE RowQuiet
  <2>1. StartsFresh'
    BY <1>2, <1>3 DEF StartsFresh, Quiet, JobsQuiet, RowQuiet, At
  <2>2. LogExact' /\ SpendOnce'
    BY <1>3 DEF LogExact, SpendOnce, RowQuiet
  <2>3. HolderHasAgent'
    BY <1>3 DEF HolderHasAgent, Holds, Quiet, JobsQuiet, RowQuiet
  <2> QED
    BY <2>1, <2>2, <2>3
<1>4. CASE RowReset
  <2>1. \A p \in Pids : Ledger!Nothing[p] = Ledger!FirstN(0)
    BY DEF Ledger!Nothing, Ledger!Pids, Pids
  <2>2. StartsFresh'
    <3>1. run'.pid <= launched' /\ (run'.exec # "none" => run'.pid # 0)
      BY <1>1, <1>4 DEF RowReset
    <3>2. \A p \in Pids : p > launched' => rows'[p] = Ledger!FirstN(0) /\ spend'[p] = 0
      BY <1>4, <2>1 DEF RowReset, StartsFresh
    <3>3. ASSUME NEW j \in Jobs, At(j, "launched")'
          PROVE  /\ job'[j].started \notin {0, run'.pid}
                 /\ rows'[job'[j].started] = Ledger!FirstN(0) /\ spend'[job'[j].started] = 0
                 /\ \A i \in Jobs : At(i, "launched")' /\ job'[i].started = job'[j].started => i = j
      <4>1. At(j, "launched") /\ job'[j].started = job[j].started
        BY <3>3 DEF Quiet, JobsQuiet, At
      <4>2. job[j].started \in Pids
        BY <4>1, Parameters DEF StartsFresh, TypeOK, Job, Pids
      <4>3. rows'[job[j].started] = Ledger!FirstN(0) /\ spend'[job[j].started] = 0
        BY <1>4, <2>1, <4>1, <4>2 DEF RowReset, StartsFresh
      <4>4. \A i \in Jobs : At(i, "launched")' /\ job'[i].started = job'[j].started => i = j
        BY <4>1 DEF Quiet, JobsQuiet, At, StartsFresh
      <4> QED
        BY <1>1, <1>4, <4>1, <4>2, <4>3, <4>4 DEF RowReset
    <3> QED
      BY <1>2, <1>4, <3>1, <3>2, <3>3 DEF StartsFresh, RowReset
  <2>3. LogExact'
    BY <1>4, <2>1, Parameters DEF LogExact, RowReset
  <2>4. SpendOnce'
    BY <1>1, <1>4 DEF SpendOnce, RowReset
  <2>5. HolderHasAgent'
    BY <1>4, Parameters DEF HolderHasAgent, RowReset, Quiet, JobsQuiet, Holds
  <2> QED
    BY <2>2, <2>3, <2>4, <2>5
<1> QED
    BY <1>3, <1>4 DEF Quiet

LEMMA LaunchPreserves ==
    ASSUME Inductive, TypeOK', NEW j \in Jobs, LaunchAgent(j)
    PROVE  Inductive'
<1> DEFINE p == launched + 1
<1>1. /\ job \in [Jobs -> Job] /\ launched \in Nat /\ p \in Pids /\ p > launched
      /\ \A i \in Jobs : job[i].started <= launched
      /\ run.pid <= launched
    BY Parameters DEF Inductive, TypeOK, StartsFresh, LaunchAgent, Pids
<1>2. launched' = p /\ UNCHANGED <<run, rows, spend>>
    BY DEF LaunchAgent, NextPid, ledgerVars
<1>3. Others(j) /\ job'[j].pc = "launched" /\ job'[j].started = p
  <2>1. job'[j] = [job[j] EXCEPT !.pc = "launched", !.started = p, !.slot = TRUE] /\ Others(j)
    BY <1>1 DEF LaunchAgent, NextPid, Others
  <2>2. job[j] \in Job
    BY <1>1
  <2> QED
    BY <2>1, <2>2 DEF Job
<1>4. rows[p] = Ledger!FirstN(0) /\ spend[p] = 0 /\ p # run.pid /\ p # 0
    BY <1>1, Parameters DEF Inductive, StartsFresh, TypeOK, Row
<1> HIDE DEF p
<1>5. StartsFresh'
  <2>1. run'.pid <= launched' /\ (run'.exec # "none" => run'.pid # 0)
    BY <1>2, <1>1 DEF Inductive, StartsFresh, TypeOK, Row, p
  <2>2. \A i \in Jobs : job'[i].started <= launched'
    BY <1>1, <1>2, <1>3, Parameters DEF Others, TypeOK, Job, Inductive, p
  <2>3. \A q \in Pids : q > launched' => rows'[q] = Ledger!FirstN(0) /\ spend'[q] = 0
    BY <1>1, <1>2 DEF Inductive, StartsFresh, Pids, p
  <2>4. ASSUME NEW i \in Jobs, At(i, "launched")'
        PROVE  /\ job'[i].started \notin {0, run'.pid}
               /\ rows'[job'[i].started] = Ledger!FirstN(0) /\ spend'[job'[i].started] = 0
               /\ \A k \in Jobs : At(k, "launched")' /\ job'[k].started = job'[i].started => k = i
    <3>1. \A k \in Jobs \ {j} : job'[k] = job[k] /\ job[k].started # p
      BY <1>1, <1>3, Parameters DEF Others, Job, p
    <3>2. CASE i = j
      BY <1>2, <1>3, <1>4, <3>1, <3>2
    <3>3. CASE i # j
      BY <1>2, <1>3, <2>4, <3>1, <3>3 DEF Inductive, StartsFresh, At
    <3> QED
      BY <3>2, <3>3
  <2> QED
    BY <2>1, <2>2, <2>3, <2>4 DEF StartsFresh
<1>6. LogExact' /\ SpendOnce'
    BY <1>2 DEF Inductive, LogExact, SpendOnce
<1>7. HolderHasAgent'
    BY <1>2, <1>3 DEF Inductive, HolderHasAgent, Holds, Others, Owning
<1> QED
    BY <1>5, <1>6, <1>7 DEF Inductive

LEMMA RecordPreserves ==
    ASSUME Inductive, TypeOK', NEW j \in Jobs, RecordStarted(j), RecordCas(j)
    PROVE  Inductive'
<1> DEFINE p == job[j].started
<1>1. job \in [Jobs -> Job] /\ run \in Row
    BY DEF Inductive, TypeOK
<1>2. /\ p \in Pids /\ p <= launched /\ p # 0
      /\ rows[p] = Ledger!FirstN(0) /\ spend[p] = 0
      /\ \A i \in Jobs : At(i, "launched") /\ job[i].started = p => i = j
    BY <1>1, Parameters DEF Inductive, StartsFresh, RecordStarted, Job, Pids
<1>3. run'.pid = p /\ run'.exec = "started" /\ run'.consumed = 0 /\ run'.by = j
  <2>1. run' = [run EXCEPT !.exec = "started", !.pid = job[j].started,
                           !.consumed = 0, !.lease = "live", !.failures = 0]
    BY DEF RecordStarted
  <2> QED
    BY <1>1, <2>1 DEF Row, RecordCas, Holds
<1>4. UNCHANGED <<launched, rows, spend>>
    BY DEF RecordStarted, podVars, ledgerVars
<1>5. Others(j) /\ job'[j].pc = "recorded" /\ job'[j].started = p /\ job'[j].agent = p
  <2>1. job'[j] = [job[j] EXCEPT !.pc = "recorded", !.agent = job[j].started] /\ Others(j)
    BY <1>1 DEF RecordStarted, Others
  <2>2. job[j] \in Job
    BY <1>1
  <2> QED
    BY <2>1, <2>2 DEF Job
<1> HIDE DEF p
<1>6. StartsFresh'
    BY <1>2, <1>3, <1>4, <1>5 DEF Inductive, StartsFresh, Others, At
<1>7. LogExact'
    BY <1>2, <1>3, <1>4 DEF Inductive, LogExact
<1>8. SpendOnce'
    BY <1>2, <1>3, <1>4 DEF Inductive, SpendOnce
<1>9. HolderHasAgent'
    BY <1>3, <1>5 DEF HolderHasAgent, Holds
<1> QED
    BY <1>6, <1>7, <1>8, <1>9 DEF Inductive

LEMMA ClaimPreserves ==
    ASSUME Inductive, TypeOK', NEW j \in Jobs, AttachClaim(j), Claimable
    PROVE  Inductive'
<1>1. job \in [Jobs -> Job] /\ run \in Row
    BY DEF Inductive, TypeOK
<1>2. /\ run'.pid = run.pid /\ run'.exec = run.exec /\ run'.consumed = run.consumed
      /\ run'.by = j /\ run.exec # "none"
    BY <1>1 DEF AttachClaim, Row, Claimable
<1>3. UNCHANGED <<launched, rows, spend>>
    BY DEF AttachClaim, podVars, ledgerVars
<1>4. Others(j) /\ job'[j].pc = "attached" /\ job'[j].started = job[j].started /\ job'[j].agent = run.pid
  <2>1. job'[j] = [job[j] EXCEPT !.pc = "attached", !.agent = run.pid, !.pos = run.consumed] /\ Others(j)
    BY <1>1 DEF AttachClaim, Others
  <2>2. job[j] \in Job
    BY <1>1
  <2> QED
    BY <2>1, <2>2 DEF Job
<1>5. StartsFresh'
    BY <1>2, <1>3, <1>4 DEF Inductive, StartsFresh, Others, At
<1>6. LogExact' /\ SpendOnce'
    BY <1>2, <1>3 DEF Inductive, LogExact, SpendOnce
<1>7. HolderHasAgent'
    BY <1>2, <1>4 DEF HolderHasAgent, Holds
<1> QED
    BY <1>5, <1>6, <1>7 DEF Inductive

\* What a stored batch does: the current agent's log grows from the row's
\* offset to a later one.
LEMMA AppendStores ==
    ASSUME Inductive, NEW j \in Jobs, Append(j)
    PROVE  /\ run.pid \in Pids
           /\ rows[run.pid] = Ledger!FirstN(run.consumed)
           /\ \E to \in 0 .. MaxLines :
                /\ run.consumed < to
                /\ run'.consumed = to
                /\ rows' = [rows EXCEPT ![run.pid] = Ledger!FirstN(to)]
           /\ run'.pid = run.pid /\ run'.exec = run.exec /\ run'.by = run.by
           /\ UNCHANGED <<launched, spend>>
           /\ Moved(j, "streaming") /\ At(j, "streaming")
<1>1. /\ run \in Row /\ job \in [Jobs -> Job]
      /\ rows \in [Pids -> [Lines -> Nat]] /\ out \in [Pids -> 0 .. MaxLines]
    BY DEF Inductive, TypeOK
<1>2. Holds(j) /\ run.consumed = job[j].pos /\ At(j, "streaming")
    BY DEF Append, AppendCas
<1>3. run.pid \in Pids /\ rows[run.pid] = Ledger!FirstN(run.consumed)
  <2>1. run.exec # "none"
    BY <1>2 DEF Inductive, HolderHasAgent, Owning, At
  <2> QED
    BY <1>1, <2>1, Parameters DEF Inductive, StartsFresh, LogExact, Row, Pids
<1>4. PICK to \in job[j].pos + 1 .. out[job[j].src] :
          /\ run' = [run EXCEPT !.consumed = to, !.failures = Progress(j)]
          /\ job' = [job EXCEPT ![j].pos = to]
          /\ StoreRows(job[j].pos + 1, to)
    BY DEF Append
<1>5. to \in 0 .. MaxLines /\ run.consumed < to
  <2>1. job[j].src \in Pids /\ job[j].pos \in 0 .. MaxLines
    BY <1>1, Parameters DEF Append, Job, Pids
  <2>2. out[job[j].src] \in 0 .. MaxLines
    BY <1>1, <2>1
  <2> QED
    BY <1>2, <2>1, <2>2, Parameters
<1>6. rows' = [rows EXCEPT ![run.pid] = Ledger!FirstN(to)]
  <2>1. [k \in Lines |-> IF job[j].pos + 1 <= k /\ k <= to
                         THEN rows[run.pid][k] + 1 ELSE rows[run.pid][k]]
          = Ledger!FirstN(to)
    BY <1>1, <1>2, <1>3, <1>5, Parameters DEF Ledger!FirstN, Ledger!Lines, Lines, Row
  <2> QED
    BY <1>1, <1>3, <1>4, <2>1 DEF StoreRows
<1>7. run'.consumed = to /\ run'.pid = run.pid /\ run'.exec = run.exec /\ run'.by = run.by
    BY <1>1, <1>4 DEF Row
<1>8. Moved(j, "streaming")
    BY <1>1, <1>2, <1>4, MovedTo DEF At
<1> QED
    BY <1>2, <1>3, <1>5, <1>6, <1>7, <1>8 DEF Append, podVars

LEMMA AppendPreserves ==
    ASSUME Inductive, TypeOK', NEW j \in Jobs, Append(j)
    PROVE  Inductive'
<1>1. PICK to \in 0 .. MaxLines :
          /\ run.consumed < to
          /\ run'.consumed = to
          /\ rows' = [rows EXCEPT ![run.pid] = Ledger!FirstN(to)]
    BY AppendStores
<1>2. /\ run.pid \in Pids
      /\ run'.pid = run.pid /\ run'.exec = run.exec /\ run'.by = run.by
      /\ UNCHANGED <<launched, spend>>
      /\ Moved(j, "streaming") /\ At(j, "streaming")
    BY AppendStores
<1>3. rows \in [Pids -> [Lines -> Nat]]
    BY DEF Inductive, TypeOK
<1>4. \A q \in Pids \ {run.pid} : rows'[q] = rows[q]
    BY <1>1, <1>3
<1>5. StartsFresh'
  <2>1. run'.pid <= launched' /\ (run'.exec # "none" => run'.pid # 0)
    BY <1>2 DEF Inductive, StartsFresh
  <2>2. \A q \in Pids : q > launched' => rows'[q] = Ledger!FirstN(0) /\ spend'[q] = 0
    <3>1. run.pid <= launched /\ launched \in Nat
      BY Parameters DEF Inductive, StartsFresh, TypeOK
    <3> QED
      BY <1>2, <1>4, <3>1, Parameters DEF Inductive, StartsFresh, Pids
  <2>3. \A i \in Jobs : job'[i].started = job[i].started /\ (At(i, "launched")' => At(i, "launched"))
    BY <1>2 DEF Moved, Others, At
  <2>4. ASSUME NEW i \in Jobs, At(i, "launched")
        PROVE  rows'[job[i].started] = Ledger!FirstN(0) /\ spend'[job[i].started] = 0
    <3>1. job[i].started \in 0 .. MaxPid
      <4>1. job[i] \in Job
        BY DEF Inductive, TypeOK
      <4> QED
        BY <4>1 DEF Job
    <3>2. job[i].started \in Pids \ {run.pid}
      BY <2>4, <3>1, Parameters DEF Inductive, StartsFresh, Pids
    <3> QED
      BY <1>2, <1>4, <2>4, <3>2 DEF Inductive, StartsFresh
  <2> QED
    BY <1>2, <2>1, <2>2, <2>3, <2>4 DEF Inductive, StartsFresh
<1>6. LogExact'
    BY <1>1, <1>2, <1>3, <1>4 DEF Inductive, LogExact
<1>7. SpendOnce'
    BY <1>2 DEF Inductive, SpendOnce
<1>8. HolderHasAgent'
    BY <1>2 DEF Inductive, HolderHasAgent, Holds, Moved, Others, Owning, At
<1> QED
    BY <1>5, <1>6, <1>7, <1>8 DEF Inductive

\* What a recorded exit does: the current agent's, nobody recorded it before,
\* and none of its spend is there yet.
LEMMA SettleRecords ==
    ASSUME Inductive, NEW j \in Jobs, Settle(j), SettleCas(j)
    PROVE  /\ run.pid \in Pids /\ run.exec = "started" /\ spend[run.pid] = 0
           /\ run'.exec = "exited"
           /\ run'.pid = run.pid /\ run'.consumed = run.consumed /\ run'.by = run.by
           /\ spend' \in {spend, [spend EXCEPT ![run.pid] = 1]}
           /\ UNCHANGED <<launched, rows>>
           /\ (Moved(j, "check") \/ Moved(j, "deciding")) /\ At(j, "settling")
<1>1. run \in Row /\ job \in [Jobs -> Job] /\ spend \in [Pids -> Nat]
    BY DEF Inductive, TypeOK
<1>2. Holds(j) /\ run.exec = "started" /\ At(j, "settling")
    BY DEF Settle, SettleCas
<1>3. run.pid \in Pids
    BY <1>1, <1>2, Parameters DEF Inductive, StartsFresh, Row, Pids
<1>4. spend[run.pid] = 0
    BY <1>1, <1>2, <1>3 DEF Inductive, SpendOnce
<1>5. /\ run' = [run EXCEPT !.exec = "exited"]
      /\ \/ job' = [job EXCEPT ![j].pc = "check"]
         \/ job' = [job EXCEPT ![j].pc = "deciding"]
      /\ spend' \in {spend, [spend EXCEPT ![run.pid] = @ + 1]}
    BY <1>2 DEF Settle
<1>6. Moved(j, "check") \/ Moved(j, "deciding")
    BY <1>1, <1>5, MovedTo
<1>7. spend' \in {spend, [spend EXCEPT ![run.pid] = 1]}
    BY <1>1, <1>3, <1>4, <1>5
<1> QED
    BY <1>1, <1>2, <1>3, <1>4, <1>5, <1>6, <1>7 DEF Settle, podVars, Row

LEMMA SettlePreserves ==
    ASSUME Inductive, TypeOK', NEW j \in Jobs, Settle(j), SettleCas(j)
    PROVE  Inductive'
<1>1. /\ run.pid \in Pids /\ run.exec = "started" /\ spend[run.pid] = 0
      /\ run'.exec = "exited"
      /\ run'.pid = run.pid /\ run'.consumed = run.consumed /\ run'.by = run.by
      /\ spend' \in {spend, [spend EXCEPT ![run.pid] = 1]}
      /\ UNCHANGED <<launched, rows>>
      /\ (Moved(j, "check") \/ Moved(j, "deciding")) /\ At(j, "settling")
    BY SettleRecords
<1>2. spend \in [Pids -> Nat]
    BY DEF Inductive, TypeOK
<1>3. (\A q \in Pids \ {run.pid} : spend'[q] = spend[q]) /\ spend'[run.pid] \in {0, 1}
    BY <1>1, <1>2
<1>4. \A i \in Jobs : job'[i].started = job[i].started /\ (At(i, "launched")' => At(i, "launched"))
    BY <1>1 DEF Moved, Others, At
<1>5. StartsFresh'
  <2>1. run'.pid <= launched' /\ (run'.exec # "none" => run'.pid # 0)
    BY <1>1 DEF Inductive, StartsFresh
  <2>2. \A q \in Pids : q > launched' => rows'[q] = Ledger!FirstN(0) /\ spend'[q] = 0
    <3>1. run.pid <= launched /\ launched \in Nat
      BY Parameters DEF Inductive, StartsFresh, TypeOK
    <3> QED
      BY <1>1, <1>3, <3>1, Parameters DEF Inductive, StartsFresh, Pids
  <2>3. ASSUME NEW i \in Jobs, At(i, "launched")
        PROVE  spend'[job[i].started] = 0
    <3>1. job[i].started \in 0 .. MaxPid
      <4>1. job[i] \in Job
        BY DEF Inductive, TypeOK
      <4> QED
        BY <4>1 DEF Job
    <3>2. job[i].started \in Pids \ {run.pid}
      BY <2>3, <3>1, Parameters DEF Inductive, StartsFresh, Pids
    <3> QED
      BY <1>3, <2>3, <3>2 DEF Inductive, StartsFresh
  <2> QED
    BY <1>1, <1>4, <2>1, <2>2, <2>3 DEF Inductive, StartsFresh
<1>6. LogExact'
    BY <1>1 DEF Inductive, LogExact
<1>7. SpendOnce'
    BY <1>1, <1>3 DEF Inductive, SpendOnce
<1>8. HolderHasAgent'
    BY <1>1 DEF Inductive, HolderHasAgent, Holds, Moved, Others, Owning, At
<1> QED
    BY <1>5, <1>6, <1>7, <1>8 DEF Inductive

LEMMA InductiveStep == Inductive /\ [Next]_vars => Inductive'
<1> SUFFICES ASSUME Inductive, [Next]_vars PROVE Inductive'
    OBVIOUS
<1>1. TypeOK /\ TypeOK'
    BY TypeStep DEF Inductive
<1> QED
    BY <1>1, StepKinds, QuietPreserves, LaunchPreserves, RecordPreserves,
       ClaimPreserves, AppendPreserves, SettlePreserves

LEMMA AlwaysInductive == Spec => []Inductive
    BY InductiveInit, InductiveStep, PTL DEF Spec

-----------------------------------------------------------------------------
(* What a reader should know.                                               *)

\* Whoever streams a run, with however many takeovers, replays and resets on
\* the way: the log never has a duplicate or a gap.
THEOREM LogIsExact == Spec => []LogExact
<1>1. Inductive => LogExact
    BY DEF Inductive
<1> QED
    BY <1>1, AlwaysInductive, PTL

\* An agent's usage is added to the task's spend at most once.
THEOREM SpendIsAddedOnce == Spec => []SpendOnce
<1>1. Inductive => SpendOnce
    BY DEF Inductive
<1> QED
    BY <1>1, AlwaysInductive, PTL

\* A job whose mark is on the row is about the agent the row names.
THEOREM HolderOwnsAgent == Spec => []HolderHasAgent
<1>1. Inductive => HolderHasAgent
    BY DEF Inductive
<1> QED
    BY <1>1, AlwaysInductive, PTL

\* A launched agent nobody recorded yet starts with an empty log and no spend.
THEOREM AgentsStartFresh == Spec => []StartsFresh
<1>1. Inductive => StartsFresh
    BY DEF Inductive
<1> QED
    BY <1>1, AlwaysInductive, PTL

-----------------------------------------------------------------------------
(* RunAttachment implements RunLedger.                                      *)

LEMMA LedgerInit == Init => Ledger!Init
    BY Parameters DEF Init, Ledger!Init, Ledger!Nothing, Ledger!FirstN,
       Ledger!Pids, Ledger!Lines, Pids, Lines

LEMMA LedgerStep == Inductive /\ [Next]_vars => [Ledger!Next]_(Ledger!ledger)
<1> SUFFICES ASSUME Inductive, [Next]_vars PROVE [Ledger!Next]_(Ledger!ledger)
    OBVIOUS
<1>1. CASE RowQuiet
    BY <1>1 DEF RowQuiet, Ledger!ledger
<1>2. CASE RowReset
  <2>1. Ledger!Requeue
    BY <1>2 DEF RowReset, Ledger!Requeue
  <2> QED
    BY <2>1 DEF Ledger!Next
<1>3. ASSUME NEW j \in Jobs, LaunchAgent(j) PROVE UNCHANGED Ledger!ledger
    BY <1>3 DEF LaunchAgent, Ledger!ledger, ledgerVars
<1>4. ASSUME NEW j \in Jobs, RecordStarted(j), RecordCas(j) PROVE Ledger!Next
  <2>1. /\ job[j].started \in Ledger!Pids
        /\ rows[job[j].started] = Ledger!FirstN(0) /\ spend[job[j].started] = 0
    <3>1. job[j] \in Job
      BY DEF Inductive, TypeOK
    <3>2. job[j].started \in 0 .. MaxPid
      BY <3>1 DEF Job
    <3> QED
      BY <1>4, <3>2, Parameters DEF Inductive, StartsFresh, RecordStarted, Ledger!Pids
  <2>2. run'.pid = job[j].started /\ run'.exec = "started" /\ UNCHANGED <<rows, spend>>
    <3>1. run \in Row
      BY DEF Inductive, TypeOK
    <3>2. run' = [run EXCEPT !.exec = "started", !.pid = job[j].started,
                             !.consumed = 0, !.lease = "live", !.failures = 0]
      BY <1>4 DEF RecordStarted
    <3> QED
      BY <1>4, <3>1, <3>2 DEF Row, RecordStarted, ledgerVars
  <2>3. Ledger!Start(job[j].started)
    BY <2>1, <2>2 DEF Ledger!Start
  <2> QED
    BY <2>1, <2>3 DEF Ledger!Next
<1>5. ASSUME NEW j \in Jobs, AttachClaim(j), Claimable PROVE UNCHANGED Ledger!ledger
  <2>1. run \in Row
    BY DEF Inductive, TypeOK
  <2> QED
    BY <1>5, <2>1 DEF AttachClaim, Row, Ledger!ledger, ledgerVars
<1>6. ASSUME NEW j \in Jobs, Append(j) PROVE Ledger!Next
  <2>1. PICK to \in 0 .. MaxLines :
            /\ run.consumed < to
            /\ rows' = [rows EXCEPT ![run.pid] = Ledger!FirstN(to)]
    BY <1>6, AppendStores
  <2>2. /\ run.pid \in Pids /\ rows[run.pid] = Ledger!FirstN(run.consumed)
        /\ run'.pid = run.pid /\ run'.exec = run.exec /\ UNCHANGED spend
    BY <1>6, AppendStores
  <2>3. run.consumed \in 0 .. MaxLines
    BY DEF Inductive, TypeOK, Row
  <2>4. Ledger!Store(run.consumed, to)
    BY <2>1, <2>2 DEF Ledger!Store, Ledger!Pids, Pids
  <2> QED
    BY <2>1, <2>3, <2>4 DEF Ledger!Next
<1>7. ASSUME NEW j \in Jobs, Settle(j), SettleCas(j) PROVE Ledger!Next
  <2>1. /\ run.pid \in Pids /\ run.exec = "started"
        /\ run'.exec = "exited" /\ run'.pid = run.pid
        /\ spend' \in {spend, [spend EXCEPT ![run.pid] = 1]} /\ UNCHANGED rows
    BY <1>7, SettleRecords
  <2>2. Ledger!Settle
    BY <2>1 DEF Ledger!Settle, Ledger!Pids, Pids
  <2> QED
    BY <2>2 DEF Ledger!Next
<1>8. TypeOK
    BY DEF Inductive
<1> QED
    BY <1>1, <1>2, <1>3, <1>4, <1>5, <1>6, <1>7, <1>8, StepKinds DEF Quiet

\* The jobs, leases and CAS writes of the run protocol implement the ledger.
THEOREM ImplementsLedger == Spec => LedgerSpec
    BY LedgerInit, LedgerStep, AlwaysInductive, PTL DEF Spec, LedgerSpec, Ledger!Spec

=============================================================================
