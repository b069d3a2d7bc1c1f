------------------------ MODULE RunUndisturbedProofs ------------------------
(***************************************************************************)
(* A run that is not requeued under a job at work on it: the agent that    *)
(* runs is the one the run directory holds, its output alone is streamed,  *)
(* and a task is completed only with all of it.                            *)
(*                                                                         *)
(* UndisturbedRun is all these need.  Instances may crash or shut down,    *)
(* streams and pods may be lost, leases lapse under a slow holder, users   *)
(* cancel, retry and redo, and jobs take the run from each other.  That no *)
(* agent is left to nobody needs UndisturbedLaunch as well.                *)
(***************************************************************************)
EXTENDS RunLedgerProofs

-----------------------------------------------------------------------------
(* The inductive invariant.                                                 *)

\* From the claim to the recorded start.
Starting == {"claimed", "setup", "prfound", "launched"}

\* The row's agent will write no more that anybody reads.
Gone == dir = 0 \/ sup[run.pid] = "dead"

\* Its exit is recorded with its spend, and its whole output is in the log.
Whole == /\ run.exec = "exited" /\ spend[run.pid] = 1
         /\ sup[run.pid] = "exited" /\ run.consumed = out[run.pid]

\* The row and the pod.
World ==
    /\ run.state = "queued" => run.by = NoJob /\ run.exec = "none"
    /\ run.state = "completed" => Whole
    /\ run.exec # "none" => dir \in {0, run.pid}
    /\ run.exec = "exited" => spend[run.pid] = 1 \/ Gone
    /\ run.pid # 0 => run.consumed <= out[run.pid] /\ sup[run.pid] # "none"
    /\ \A p \in Pids : sup[p] = "alive" => p = dir
    /\ ~podUp => dir = 0

\* The job that holds the run reads its agent's output, at the row's offset,
\* and what it is about to record of the exit is so.
Follows(j) ==
    /\ At(j, "streaming") => job[j].src \in {0, run.pid} /\ (job[j].src = 0 => dir = 0)
    /\ job[j].pc \in {"recorded", "attached", "attaching", "streaming"} => job[j].pos = run.consumed
    /\ At(j, "settling") =>
         IF job[j].outcome = "exited"
         THEN /\ sup[run.pid] = "exited" /\ run.consumed = out[run.pid]
              /\ run.exec = "exited" => spend[run.pid] = 1
         ELSE Gone

\* What holds of a job at the place it has reached.
Fits(j) ==
    /\ At(j, "idle") => job[j].pos = 0
    /\ job[j].pc \in MidFlight => run.state # "queued"
    /\ job[j].pc \in Starting =>
         /\ run.exec = "none" /\ job[j].pos = 0
         /\ run.by = IF At(j, "claimed") THEN NoJob ELSE j
    /\ At(j, "launched") => dir \in {0, job[j].started} /\ sup[job[j].started] # "none"
    /\ Holds(j) => Follows(j)
    /\ job[j].pc \in {"check", "tidying"} => Whole
    /\ At(j, "deciding") /\ job[j].outcome = "exited" => Whole

\* A job that starts the run is the only one between reads and writes of it.
Sole == \A i, j \in Jobs : job[i].pc \in Starting /\ job[j].pc \in MidFlight => i = j

\* Everything is in order, and the ledger's invariant holds.
InOrder == World /\ (\A j \in Jobs : Fits(j)) /\ Sole
Inv == Inductive /\ InOrder

-----------------------------------------------------------------------------
(* Steady steps: the pod goes on or is lost, the row keeps its attempt.     *)

SteadyPod ==
    /\ \A p \in Pids : out'[p] = out[p] \/ (sup[p] = "alive" /\ out'[p] >= out[p])
    /\ \A p \in Pids : sup'[p] = sup[p] \/ (sup[p] = "alive" /\ sup'[p] \in {"exited", "dead"})
    /\ dir' = dir \/ (dir' = 0 /\ \A p \in Pids : sup'[p] # "alive")
    /\ ~podUp' => dir' = 0

SteadyRow ==
    /\ run'.exec = run.exec /\ run'.pid = run.pid /\ run'.consumed = run.consumed
    /\ UNCHANGED spend
    /\ run'.state = "queued" => run.state = "queued" /\ run'.by = run.by
    /\ run'.state = "completed" => run.state = "completed" \/ Whole

Steady == SteadyPod /\ SteadyRow

\* The types the proofs below look at.
LEMMA Typed ==
    ASSUME Inductive
    PROVE  /\ run \in Row /\ job \in [Jobs -> Job]
           /\ sup \in [Pids -> {"none", "alive", "exited", "dead"}]
           /\ out \in [Pids -> 0 .. MaxLines]
           /\ spend \in [Pids -> Nat]
           /\ \A p \in Pids : p \in Nat /\ p # 0
           /\ run.pid \in 0 .. MaxPid /\ (run.pid # 0 => run.pid \in Pids)
           /\ (run.exec # "none" => run.pid # 0)
           /\ run.exec \in {"none", "started", "exited"}
           /\ run.by \in Jobs \cup {NoJob} /\ run.consumed \in 0 .. MaxLines
           /\ NoJob \notin Jobs
<1>1. run \in Row /\ job \in [Jobs -> Job]
      /\ sup \in [Pids -> {"none", "alive", "exited", "dead"}]
      /\ out \in [Pids -> 0 .. MaxLines] /\ spend \in [Pids -> Nat]
    BY DEF Inductive, TypeOK
<1>2. run.pid \in 0 .. MaxPid /\ run.exec \in {"none", "started", "exited"}
      /\ run.by \in Jobs \cup {NoJob} /\ run.consumed \in 0 .. MaxLines
    BY <1>1 DEF Row
<1>3. run.exec # "none" => run.pid # 0
    BY DEF Inductive, StartsFresh
<1>4. (\A p \in Pids : p \in Nat /\ p # 0) /\ (run.pid # 0 => run.pid \in Pids)
    BY <1>2, Parameters DEF Pids
<1> QED
    BY <1>1, <1>2, <1>3, <1>4, Parameters

\* An agent that is gone, or whose run is whole, stays so.
LEMMA StayAsTheyAre ==
    ASSUME Inductive, Steady
    PROVE  (run.pid # 0 /\ Gone => Gone') /\ (Whole => Whole')
<1>1. run.pid # 0 /\ Gone => Gone'
    BY Typed DEF Steady, SteadyPod, SteadyRow, Gone
<1>2. Whole => Whole'
    BY Typed DEF Steady, SteadyPod, SteadyRow, Whole
<1> QED
    BY <1>1, <1>2

LEMMA SteadyWorld ==
    ASSUME Inductive, TypeOK', World, Steady
    PROVE  World'
<1>1. run'.state = "queued" => run'.by = NoJob /\ run'.exec = "none"
    BY DEF World, Steady, SteadyRow
<1>2. run'.state = "completed" => Whole'
    BY StayAsTheyAre DEF World, Steady, SteadyRow
<1>3. run'.exec # "none" => dir' \in {0, run'.pid}
    BY DEF World, Steady, SteadyRow, SteadyPod
<1>4. run'.exec = "exited" => spend'[run'.pid] = 1 \/ Gone'
    BY StayAsTheyAre, Typed DEF World, Steady, SteadyRow
<1>5. run'.pid # 0 => run'.consumed <= out'[run'.pid] /\ sup'[run'.pid] # "none"
  <2>1. ASSUME run.pid # 0 PROVE run.consumed <= out'[run.pid] /\ sup'[run.pid] # "none"
    <3>1. run.pid \in Pids /\ out[run.pid] \in 0 .. MaxLines /\ run.consumed \in 0 .. MaxLines
        BY <2>1, Typed
    <3>2. out'[run.pid] \in 0 .. MaxLines
        BY <3>1 DEF TypeOK
    <3> QED
        BY <2>1, <3>1, <3>2, Parameters DEF World, Steady, SteadyPod
  <2> QED
      BY <2>1 DEF Steady, SteadyRow
<1>6. \A p \in Pids : sup'[p] = "alive" => p = dir'
    BY DEF World, Steady, SteadyPod
<1>7. ~podUp' => dir' = 0
    BY DEF Steady, SteadyPod
<1> QED
    BY <1>1, <1>2, <1>3, <1>4, <1>5, <1>6, <1>7 DEF World

\* A job that the step does not move, and that does not come to hold the run.
LEMMA FitsKept ==
    ASSUME Inductive, TypeOK', World, Steady, NEW i \in Jobs, Fits(i),
           job'[i] = job[i], run'.by = i => Holds(i),
           job[i].pc \in Starting => run'.by = run.by
    PROVE  Fits(i)'
<1>1. (At(i, "idle") => job[i].pos = 0)'
    BY DEF Fits, At
<1>2. job'[i].pc \in MidFlight => run'.state # "queued"
    BY DEF Fits, Steady, SteadyRow
<1>3. job'[i].pc \in Starting =>
         /\ run'.exec = "none" /\ job'[i].pos = 0
         /\ run'.by = IF job'[i].pc = "claimed" THEN NoJob ELSE i
    BY DEF Fits, Steady, SteadyRow, At
<1>4. job'[i].pc = "launched" => dir' \in {0, job'[i].started} /\ sup'[job'[i].started] # "none"
  <2>1. SUFFICES ASSUME At(i, "launched")
                 PROVE  dir' \in {0, job[i].started} /\ sup'[job[i].started] # "none"
      BY DEF At
  <2>2. job[i].started \in Pids
    <3>1. job[i].started \in 0 .. MaxPid /\ job[i].started # 0
      <4>1. job[i] \in Job
          BY Typed
      <4> QED
          BY <2>1, <4>1 DEF Job, Inductive, StartsFresh
    <3> QED
        BY <3>1, Parameters DEF Pids
  <2> QED
      BY <2>1, <2>2 DEF Fits, Steady, SteadyPod
<1>5. run'.by = i => Follows(i)'
  <2>1. SUFFICES ASSUME Holds(i) PROVE Follows(i)'
      OBVIOUS
  <2>2. Follows(i)
      BY <2>1 DEF Fits
  <2>3. (At(i, "streaming") => job[i].src \in {0, run.pid} /\ (job[i].src = 0 => dir = 0))'
      BY <2>2 DEF Follows, At, Steady, SteadyPod, SteadyRow
  <2>4. job'[i].pc \in {"recorded", "attached", "attaching", "streaming"} => job'[i].pos = run'.consumed
      BY <2>2 DEF Follows, Steady, SteadyRow
  <2>5. ASSUME At(i, "settling"), job[i].outcome = "exited"
        PROVE  /\ sup'[run'.pid] = "exited" /\ run'.consumed = out'[run'.pid]
               /\ run'.exec = "exited" => spend'[run'.pid] = 1
    <3>1. run.pid \in Pids
        BY <2>1, <2>5, Typed DEF Inductive, HolderHasAgent, Owning, At
    <3> QED
        BY <2>2, <2>5, <3>1 DEF Follows, Steady, SteadyPod, SteadyRow
  <2>6. ASSUME At(i, "settling"), job[i].outcome # "exited" PROVE Gone'
      BY <2>1, <2>2, <2>6, StayAsTheyAre, Typed DEF Follows, Inductive, HolderHasAgent, Owning, At
  <2> QED
      BY <2>3, <2>4, <2>5, <2>6 DEF Follows, At
<1>6. /\ job'[i].pc \in {"check", "tidying"} => Whole'
      /\ job'[i].pc = "deciding" /\ job'[i].outcome = "exited" => Whole'
    BY StayAsTheyAre DEF Fits, At
<1> QED
    BY <1>1, <1>2, <1>3, <1>4, <1>5, <1>6 DEF Fits, At, Holds

-----------------------------------------------------------------------------
(* A steady step, of nobody or of one job.                                  *)

\* Job j takes or lets go of the run while nobody else is starting it.
Hands(j) == \/ run'.by = run.by
            \/ run'.by \in {j, NoJob} /\ \A i \in Jobs \ {j} : job[i].pc \notin Starting

\* What makes room for j where it has come to.
Enters(j) ==
    /\ job'[j].pc \in Starting => job[j].pc \in Starting \/ run.state = "queued"
    /\ job'[j].pc \in MidFlight =>
         job[j].pc \in MidFlight \/ run.exec # "none" \/ Holds(j) \/ run.state = "queued"

LEMMA StartsInFlight == Starting \subseteq MidFlight
    BY DEF Starting, MidFlight

\* While some job starts the run, nobody else holds it.
LEMMA NoneStarting ==
    ASSUME Inv, NEW i \in Jobs, job[i].pc \in Starting
    PROVE  /\ run.state # "queued" /\ run.exec = "none"
           /\ run.by \in {i, NoJob}
           /\ ~At(i, "claimed") => run.by = i
    BY StartsInFlight DEF Inv, InOrder, Fits

LEMMA SoleKept ==
    ASSUME Inv, NEW j \in Jobs, Others(j), Enters(j)
    PROVE  Sole'
<1>1. SUFFICES ASSUME NEW i \in Jobs, NEW k \in Jobs, job'[i].pc \in Starting, job'[k].pc \in MidFlight
               PROVE  i = k
    BY DEF Sole
<1>2. NoJob \notin Jobs /\ (run.state = "queued" => \A l \in Jobs : job[l].pc \notin MidFlight)
    BY Parameters DEF Inv, InOrder, Fits
<1>3. CASE i # j /\ k # j
    BY <1>1, <1>3 DEF Others, Inv, InOrder, Sole
<1>4. CASE i # j /\ k = j
  <2>1. job[i].pc \in Starting
      BY <1>1, <1>4 DEF Others
  <2>2. run.state # "queued" /\ run.exec = "none" /\ ~Holds(j)
      BY <1>2, <1>4, <2>1, NoneStarting DEF Holds
  <2>3. job[j].pc \in MidFlight
      BY <1>1, <1>4, <2>2 DEF Enters
  <2> QED
      BY <1>4, <2>1, <2>3 DEF Inv, InOrder, Sole
<1>5. CASE i = j /\ k # j
  <2>1. job[k].pc \in MidFlight
      BY <1>1, <1>5 DEF Others
  <2>2. job[j].pc \in Starting
      BY <1>1, <1>2, <1>5, <2>1 DEF Enters
  <2> QED
      BY <1>5, <2>1, <2>2 DEF Inv, InOrder, Sole
<1> QED
    BY <1>3, <1>4, <1>5

LEMMA SteadyMove ==
    ASSUME Inv, TypeOK', Steady, NEW j \in Jobs, Others(j), Hands(j), Enters(j), Fits(j)'
    PROVE  InOrder'
<1>1. World'
    BY SteadyWorld DEF Inv, InOrder
<1>2. ASSUME NEW i \in Jobs \ {j} PROVE Fits(i)'
  <2>1. job'[i] = job[i] /\ (run'.by = i => Holds(i)) /\ (job[i].pc \in Starting => run'.by = run.by)
      BY Parameters DEF Others, Hands, Holds
  <2> QED
      BY <2>1, FitsKept DEF Inv, InOrder
<1> QED
    BY <1>1, <1>2, SoleKept DEF InOrder

LEMMA SteadyStill ==
    ASSUME Inv, TypeOK', Steady, job' = job, run'.by = run.by
    PROVE  InOrder'
<1>1. World'
    BY SteadyWorld DEF Inv, InOrder
<1>2. \A i \in Jobs : Fits(i)'
    BY FitsKept DEF Inv, InOrder, Holds
<1>3. Sole'
    BY DEF Inv, InOrder, Sole
<1> QED
    BY <1>1, <1>2, <1>3 DEF InOrder

\* A job that is done with the run, has just read it, or is about to fail it.
LEMMA FitsAside ==
    ASSUME NEW j \in Jobs,
           job'[j].pc \in {"ending", "done", "dead", "closing", "reattach", "failing"},
           job'[j].pc \in MidFlight => run'.state # "queued"
    PROVE  Fits(j)'
    BY DEF Fits, Follows, At, Starting

\* What the pod and the row do in a steady step.
LEMMA PodSame ==
    ASSUME World, UNCHANGED podVars
    PROVE  SteadyPod
    BY DEF World, podVars, SteadyPod

LEMMA RowSame ==
    ASSUME UNCHANGED <<run, spend>>
    PROVE  SteadyRow
    BY DEF SteadyRow

LEMMA RowMoves ==
    ASSUME TypeOK, NEW s, MoveTo(s), s # "queued", s = "completed" => Whole, UNCHANGED spend
    PROVE  SteadyRow /\ run'.by = run.by /\ run'.state = s
<1>1. run \in Row
    BY DEF TypeOK
<1> QED
    BY <1>1 DEF MoveTo, Row, SteadyRow

\* Writes of the lease or of the count of failures.
LEMMA RowTouched ==
    ASSUME TypeOK, UNCHANGED spend,
           \/ \E l : run' = [run EXCEPT !.lease = l]
           \/ \E f : run' = [run EXCEPT !.failures = f]
    PROVE  SteadyRow /\ run'.by = run.by /\ run'.state = run.state
<1>1. run \in Row
    BY DEF TypeOK
<1> QED
    BY <1>1 DEF Row, SteadyRow

-----------------------------------------------------------------------------
(* A new attempt, which finds no job between reads and writes of the row.   *)

Wiped ==
    /\ run'.state = "queued" /\ run'.exec = "none" /\ run'.pid = 0 /\ run'.by = NoJob
    /\ UNCHANGED podVars
    /\ \A i \in Jobs : job'[i] = job[i] \/ job'[i].pc = "ending"

LEMMA WipedRow ==
    ASSUME TypeOK, NewAttempt
    PROVE  run'.state = "queued" /\ run'.exec = "none" /\ run'.pid = 0 /\ run'.by = NoJob
<1>1. run \in Row
    BY DEF TypeOK
<1> QED
    BY <1>1 DEF NewAttempt, Reset, Row

LEMMA RequeueIsOne ==
    ASSUME TypeOK, Requeue
    PROVE  Requeues
<1>1. run \in Row
    BY DEF TypeOK
<1>2. run.state # "queued"
    BY <1>1 DEF Requeue, CanMove, NextStates, Row
<1> QED
    BY <1>2, WipedRow DEF Requeue, Requeues

LEMMA WipedPreserves ==
    ASSUME Inv, TypeOK', Wiped, Clear'
    PROVE  InOrder'
<1>1. World'
    BY DEF Wiped, Inv, InOrder, World, podVars
<1>2. ASSUME NEW i \in Jobs PROVE Fits(i)'
  <2>1. job'[i].pc \notin MidFlight /\ job'[i].pc \notin Starting /\ run'.by # i
      BY StartsInFlight, Parameters DEF Clear, Wiped
  <2>2. job'[i].pc = "idle" => job'[i].pos = 0
      BY DEF Wiped, Inv, InOrder, Fits, At
  <2> QED
      BY <2>1, <2>2 DEF Fits, At, Holds, MidFlight, Starting
<1>3. Sole'
    BY DEF Sole, Clear
<1> QED
    BY <1>1, <1>2, <1>3 DEF InOrder

-----------------------------------------------------------------------------
(* The steps of a job that starts the run.                                  *)

\* A job moves out of the way and the row is steady, or it is a new attempt.
LEMMA AsideSteady ==
    ASSUME Inv, TypeOK', NEW j \in Jobs, SteadyRow, UNCHANGED podVars, Hands(j), Others(j),
           \/ job'[j].pc \in {"ending", "done", "dead", "closing"}
           \/ job'[j].pc = "failing" /\ Holds(j)
    PROVE  InOrder'
<1>1. SteadyPod
    BY PodSame DEF Inv, InOrder
<1>2. Enters(j)
    BY DEF Enters, Starting, MidFlight
<1>3. run'.state = "queued" => ~Holds(j)
    BY Parameters DEF SteadyRow, Inv, InOrder, World, Holds
<1>4. Fits(j)'
    BY <1>3, FitsAside DEF MidFlight
<1> QED
    BY <1>1, <1>2, <1>4, SteadyMove DEF Steady

LEMMA SetupErrorSteps ==
    ASSUME Inv, TypeOK', NEW j \in Jobs, Requeues => Clear',
           SetupError(j) \/ UNCHANGED <<run, kills, decision>>, ToEnd(j, "none"),
           UNCHANGED <<podVars, ledgerVars>>
    PROVE  InOrder'
<1>1. TypeOK /\ job \in [Jobs -> Job] /\ Moved(j, "ending")
    BY Typed, MovedTo DEF Inv, Inductive
<1>2. ASSUME SteadyRow, run'.by = run.by PROVE InOrder'
    BY <1>1, <1>2, AsideSteady DEF Hands, Moved
<1>3. CASE UNCHANGED <<run, kills, decision>>
    BY <1>2, <1>3, RowSame DEF ledgerVars
<1>4. CASE MoveTo("failed")
    BY <1>1, <1>2, <1>4, RowMoves DEF ledgerVars
<1>5. CASE Requeue
  <2>1. Wiped
      BY <1>1, <1>5, WipedRow DEF Requeue, Wiped, Moved, Others
  <2> QED
      BY <1>1, <1>5, <2>1, RequeueIsOne, WipedPreserves
<1> QED
    BY <1>3, <1>4, <1>5 DEF SetupError

LEMMA ClaimStep ==
    ASSUME Inv, TypeOK', NEW j \in Jobs, Claim(j)
    PROVE  InOrder'
<1>1. TypeOK /\ job \in [Jobs -> Job] /\ run \in Row
    BY Typed DEF Inv, Inductive
<1>2. run.state = "queued"
    BY <1>1, StatesAre DEF Claim, MoveTo, CanMove, NextStates, Row
<1>3. Steady /\ run'.by = run.by /\ run'.state = "provisioning"
    BY <1>1, RowMoves, PodSame DEF Claim, Steady, ledgerVars, Inv, InOrder
<1>4. Others(j) /\ job'[j].pc = "claimed" /\ job'[j].pos = job[j].pos
  <2>1. job'[j] = [job[j] EXCEPT !.pc = "claimed"] /\ Others(j)
      BY <1>1 DEF Claim, Others
  <2>2. job[j] \in Job
      BY <1>1
  <2> QED
      BY <2>1, <2>2 DEF Job
<1>5. run.by = NoJob /\ run.exec = "none" /\ job[j].pos = 0
    BY <1>2 DEF Claim, Inv, InOrder, World, Fits
<1>6. Fits(j)'
    BY <1>3, <1>4, <1>5, Parameters DEF Fits, At, Holds, Steady, SteadyRow, Starting
<1> QED
    BY <1>2, <1>3, <1>4, <1>6, SteadyMove DEF Hands, Enters

LEMMA BeginHoldStep ==
    ASSUME Inv, TypeOK', NEW j \in Jobs, BeginHold(j)
    PROVE  InOrder'
<1>1. TypeOK /\ job \in [Jobs -> Job] /\ run \in Row
    BY Typed DEF Inv, Inductive
<1>2. At(j, "claimed") /\ job[j].pc \in Starting /\ job[j].pc \in MidFlight
    BY DEF BeginHold, At, Starting, MidFlight
<1>3. run.exec = "none" /\ run.state # "queued" /\ job[j].pos = 0
    BY <1>2 DEF Inv, InOrder, Fits
<1>4. /\ run'.by = j /\ run'.state = run.state /\ run'.exec = run.exec
      /\ run'.pid = run.pid /\ run'.consumed = run.consumed
    BY <1>1 DEF BeginHold, Row
<1>5. Steady
    BY <1>3, <1>4, PodSame DEF Steady, SteadyRow, BeginHold, ledgerVars, Inv, InOrder
<1>6. Others(j) /\ job'[j].pc = "setup" /\ job'[j].pos = job[j].pos
  <2>1. job'[j] = [job[j] EXCEPT !.pc = "setup"] /\ Others(j)
      BY <1>1 DEF BeginHold, Others
  <2>2. job[j] \in Job
      BY <1>1
  <2> QED
      BY <2>1, <2>2 DEF Job
<1>7. Hands(j)
    BY <1>2, <1>4 DEF Hands, Inv, InOrder, Sole
<1>8. Fits(j)'
    BY <1>3, <1>4, <1>6 DEF Fits, At, Follows, Starting
<1> QED
    BY <1>2, <1>5, <1>6, <1>7, <1>8, SteadyMove DEF Enters

LEMMA PrFoundStep ==
    ASSUME Inv, TypeOK', NEW j \in Jobs, PrFound(j)
    PROVE  InOrder'
<1>1. TypeOK /\ job \in [Jobs -> Job] /\ run \in Row
    BY Typed DEF Inv, Inductive
<1>2. At(j, "setup") /\ job[j].pc \in Starting /\ job[j].pc \in MidFlight
    BY DEF PrFound, At, Starting, MidFlight
<1>3. run.exec = "none" /\ job[j].pos = 0 /\ run.by = j
    BY <1>2 DEF Inv, InOrder, Fits, At
<1>4. Steady /\ run'.by = run.by /\ run'.state = "running"
    BY <1>1, RowMoves, PodSame DEF PrFound, Steady, ledgerVars, Inv, InOrder
<1>5. Others(j) /\ job'[j].pc = "prfound" /\ job'[j].pos = job[j].pos
  <2>1. job'[j] = [job[j] EXCEPT !.pc = "prfound"] /\ Others(j)
      BY <1>1 DEF PrFound, Others
  <2>2. job[j] \in Job
      BY <1>1
  <2> QED
      BY <2>1, <2>2 DEF Job
<1>6. Fits(j)'
    BY <1>3, <1>4, <1>5 DEF Fits, At, Follows, Steady, SteadyRow, Starting
<1> QED
    BY <1>2, <1>4, <1>5, <1>6, SteadyMove DEF Hands, Enters

LEMMA PrOpenedStep ==
    ASSUME Inv, TypeOK', NEW j \in Jobs, PrOpened(j)
    PROVE  InOrder'
<1>1. TypeOK /\ job \in [Jobs -> Job]
    BY Typed DEF Inv, Inductive
<1>2. SteadyRow /\ run'.by = run.by /\ Moved(j, "ending") /\ UNCHANGED podVars
    BY <1>1, RowMoves, MovedTo DEF PrOpened, ledgerVars
<1> QED
    BY <1>2, AsideSteady DEF Hands, Moved

LEMMA LaunchStep ==
    ASSUME Inv, TypeOK', NEW j \in Jobs, LaunchAgent(j)
    PROVE  InOrder'
<1> DEFINE p == launched + 1
<1>1. /\ job \in [Jobs -> Job] /\ p \in Pids /\ p # 0
      /\ sup \in [Pids -> {"none", "alive", "exited", "dead"}]
  <2>1. launched \in 0 .. MaxPid /\ launched < MaxPid
      BY DEF Inv, Inductive, TypeOK, LaunchAgent
  <2> QED
      BY <2>1, Typed, Parameters DEF Inv, Pids
<1>2. At(j, "setup") /\ job[j].pc \in Starting /\ job[j].pc \in MidFlight
    BY DEF LaunchAgent, At, Starting, MidFlight
<1>3. /\ run.exec = "none" /\ run.by = j /\ job[j].pos = 0 /\ run.state # "queued"
    BY <1>2 DEF Inv, InOrder, Fits, At
<1>4. UNCHANGED <<run, out, spend>> /\ podUp' = TRUE
    BY DEF LaunchAgent, ledgerVars
<1>5. /\ dir' = p
      /\ sup' = [q \in Pids |-> IF q = p THEN "alive"
                                ELSE IF q = dir /\ sup[q] = "alive" THEN "exited"
                                ELSE sup[q]]
    BY DEF LaunchAgent, NextPid, FilesOf, StopsStale
<1>6. Others(j) /\ job'[j].pc = "launched" /\ job'[j].started = p /\ job'[j].pos = job[j].pos
  <2>1. job'[j] = [job[j] EXCEPT !.pc = "launched", !.started = p, !.slot = TRUE] /\ Others(j)
      BY <1>1 DEF LaunchAgent, NextPid, Others
  <2>2. job[j] \in Job
      BY <1>1
  <2> QED
      BY <2>1, <2>2 DEF Job
<1> HIDE DEF p
<1>7. World'
  <2>1. \A q \in Pids : sup'[q] = "alive" => q = p
      BY <1>1, <1>5 DEF Inv, InOrder, World
  <2>2. run.pid # 0 => sup'[run.pid] # "none"
      BY <1>5, Typed DEF Inv, InOrder, World
  <2>3. run.state # "completed"
      BY <1>3 DEF Inv, InOrder, World, Whole
  <2> QED
      BY <1>3, <1>4, <1>5, <2>1, <2>2, <2>3 DEF Inv, InOrder, World
<1>8. ASSUME NEW i \in Jobs PROVE Fits(i)'
  <2>1. CASE i = j
    <3>1. sup'[p] = "alive"
        BY <1>1, <1>5
    <3> QED
        BY <1>3, <1>4, <1>5, <1>6, <2>1, <3>1 DEF Fits, At, Holds, Follows
  <2>2. CASE i # j
    <3>1. job'[i] = job[i] /\ run.by # i /\ job[i].pc \notin Starting
        BY <1>2, <1>3, <1>6, <2>2, StartsInFlight DEF Others, Inv, InOrder, Sole
    <3>2. ~Whole
        BY <1>3 DEF Whole
    <3> QED
        BY <1>4, <3>1, <3>2 DEF Inv, InOrder, Fits, At, Holds, Starting
  <2> QED
      BY <2>1, <2>2
<1>9. Sole'
    BY <1>2, <1>6, SoleKept DEF Enters
<1> QED
    BY <1>7, <1>8, <1>9 DEF InOrder

LEMMA RecordStep ==
    ASSUME Inv, TypeOK', NEW j \in Jobs, RecordStarted(j)
    PROVE  InOrder'
<1> DEFINE p == job[j].started
<1>1. job \in [Jobs -> Job] /\ run \in Row /\ out \in [Pids -> 0 .. MaxLines]
    BY Typed DEF Inv
<1>2. At(j, "launched") /\ job[j].pc \in Starting /\ job[j].pc \in MidFlight
    BY DEF RecordStarted, At, Starting, MidFlight
<1>3. /\ run.exec = "none" /\ run.by = j /\ job[j].pos = 0 /\ run.state # "queued"
      /\ dir \in {0, p} /\ sup[p] # "none"
    BY <1>2 DEF Inv, InOrder, Fits, At
<1>4. p \in Pids /\ p # 0 /\ 0 <= out[p]
  <2>1. job[j] \in Job /\ p # 0
      BY <1>1, <1>2 DEF Inv, Inductive, StartsFresh
  <2>2. p \in Pids
      BY <2>1, Parameters DEF Job, Pids
  <2>3. out[p] \in 0 .. MaxLines
      BY <1>1, <2>2
  <2> QED
      BY <2>1, <2>2, <2>3, Parameters
<1>5. /\ run'.exec = "started" /\ run'.pid = p /\ run'.consumed = 0
      /\ run'.by = j /\ run'.state = run.state
  <2>1. run' = [run EXCEPT !.exec = "started", !.pid = p,
                           !.consumed = 0, !.lease = "live", !.failures = 0]
      BY <1>3 DEF RecordStarted, RecordCas, Holds
  <2> QED
      BY <1>1, <1>3, <2>1 DEF Row
<1>6. Others(j) /\ job'[j].pc = "recorded" /\ job'[j].pos = job[j].pos
  <2>1. job'[j] = [job[j] EXCEPT !.pc = "recorded", !.agent = p] /\ Others(j)
      BY <1>1, <1>3 DEF RecordStarted, Others, RecordCas, Holds
  <2>2. job[j] \in Job
      BY <1>1
  <2> QED
      BY <2>1, <2>2 DEF Job
<1>7. UNCHANGED <<sup, out, dir, podUp, spend>>
    BY DEF RecordStarted, podVars, ledgerVars
<1> HIDE DEF p
<1>8. World'
  <2>1. run.state # "completed"
      BY <1>3 DEF Inv, InOrder, World, Whole
  <2> QED
      BY <1>3, <1>4, <1>5, <1>7, <2>1 DEF Inv, InOrder, World
<1>9. ASSUME NEW i \in Jobs PROVE Fits(i)'
  <2>1. CASE i = j
      BY <1>3, <1>5, <1>6, <2>1 DEF Fits, At, Follows, Starting
  <2>2. CASE i # j
    <3>1. job'[i] = job[i] /\ run'.by # i /\ job[i].pc \notin Starting
        BY <1>2, <1>5, <1>6, <2>2, StartsInFlight DEF Others, Inv, InOrder, Sole
    <3>2. ~Whole
        BY <1>3 DEF Whole
    <3> QED
        BY <1>5, <3>1, <3>2 DEF Inv, InOrder, Fits, At, Holds, Starting
  <2> QED
      BY <2>1, <2>2
<1>10. Sole'
    BY <1>2, <1>6, SoleKept DEF Enters, Starting
<1> QED
    BY <1>8, <1>9, <1>10 DEF InOrder

LEMMA ToRunningStep ==
    ASSUME Inv, TypeOK', NEW j \in Jobs, ToRunning(j)
    PROVE  InOrder'
<1>1. TypeOK /\ job \in [Jobs -> Job]
    BY Typed DEF Inv, Inductive
<1>2. Steady /\ run'.by = run.by
    BY <1>1, RowMoves, PodSame DEF ToRunning, Steady, ledgerVars, Inv, InOrder
<1>3. Others(j) /\ job'[j].pc = "attaching" /\ job'[j].pos = job[j].pos
  <2>1. job'[j] = [job[j] EXCEPT !.pc = "attaching"] /\ Others(j)
      BY <1>1 DEF ToRunning, Others
  <2>2. job[j] \in Job
      BY <1>1
  <2> QED
      BY <2>1, <2>2 DEF Job
<1>4. Holds(j) => job[j].pos = run.consumed
    BY DEF ToRunning, At, Inv, InOrder, Fits, Follows
<1>5. Fits(j)'
    BY <1>2, <1>3, <1>4 DEF Fits, At, Follows, Holds, Steady, SteadyRow, MidFlight, Starting
<1> QED
    BY <1>2, <1>3, <1>5, SteadyMove DEF Hands, Enters, MidFlight, Starting

LEMMA StartSteps ==
    ASSUME Inv, TypeOK', NEW j \in Jobs, StartStep(j), Requeues => Clear'
    PROVE  InOrder'
<1>1. ASSUME StartRefused(j) PROVE InOrder'
    BY <1>1, SetupErrorSteps DEF StartRefused
<1> QED
    BY <1>1, ClaimStep, BeginHoldStep, PrFoundStep, PrOpenedStep, LaunchStep, RecordStep,
       ToRunningStep DEF StartStep

-----------------------------------------------------------------------------
(* The steps of a job that attaches, and of a stream.                       *)

LEMMA AttachClaimStep ==
    ASSUME Inv, TypeOK', NEW j \in Jobs, AttachClaim(j)
    PROVE  InOrder'
<1>1. job \in [Jobs -> Job] /\ run \in Row
    BY Typed DEF Inv
<1>2. SteadyPod /\ UNCHANGED spend
    BY PodSame DEF AttachClaim, ledgerVars, Inv, InOrder
<1>3. CASE Claimable
  <2>1. /\ run'.by = j /\ run'.state = run.state /\ run'.exec = run.exec
        /\ run'.pid = run.pid /\ run'.consumed = run.consumed
      BY <1>1, <1>3 DEF AttachClaim, Row
  <2>2. run.exec # "none" /\ run.state # "queued"
      BY <1>3 DEF Claimable, Active
  <2>3. Steady
      BY <1>2, <2>1, <2>2 DEF Steady, SteadyRow
  <2>4. Others(j) /\ job'[j].pc = "attached" /\ job'[j].pos = run.consumed
    <3>1. job'[j] = [job[j] EXCEPT !.pc = "attached", !.agent = run.pid, !.pos = run.consumed]
          /\ Others(j)
        BY <1>1, <1>3 DEF AttachClaim, Others
    <3>2. job[j] \in Job
        BY <1>1
    <3> QED
        BY <3>1, <3>2 DEF Job
  <2>5. \A i \in Jobs : job[i].pc \notin Starting
      BY <2>2, NoneStarting
  <2>6. Fits(j)'
      BY <2>1, <2>2, <2>4 DEF Fits, At, Follows, Starting
  <2> QED
      BY <2>1, <2>2, <2>3, <2>4, <2>5, <2>6, SteadyMove DEF Hands, Enters, Starting
<1>4. CASE ~Claimable
  <2>1. run' = run /\ Others(j) /\ job'[j] = FreshJob
      BY <1>1, <1>4 DEF AttachClaim, Others
  <2>2. Steady
      BY <1>2, <2>1, RowSame DEF Steady
  <2>3. Fits(j)'
      BY <2>1 DEF Fits, FreshJob, At, Follows, MidFlight, Starting
  <2> QED
      BY <2>1, <2>2, <2>3, SteadyMove DEF Hands, Enters, FreshJob, MidFlight, Starting
<1> QED
    BY <1>3, <1>4

LEMMA AttachReadStep ==
    ASSUME Inv, TypeOK', NEW j \in Jobs, AttachRead(j)
    PROVE  InOrder'
<1>1. job \in [Jobs -> Job]
    BY Typed DEF Inv
<1>2. Steady /\ run' = run /\ run.exec # "none" /\ run.state # "queued"
    BY PodSame, RowSame DEF AttachRead, Steady, ledgerVars, Inv, InOrder, Active
<1>3. Moved(j, "reattach")
    BY <1>1, MovedTo DEF AttachRead
<1>4. Fits(j)'
    BY <1>2, <1>3, FitsAside DEF Moved
<1> QED
    BY <1>2, <1>3, <1>4, SteadyMove DEF Hands, Enters, Moved, Starting

LEMMA AttachPodStep ==
    ASSUME Inv, TypeOK', NEW j \in Jobs, AttachPod(j)
    PROVE  InOrder'
<1>1. TypeOK /\ job \in [Jobs -> Job]
    BY Typed DEF Inv, Inductive
<1>2. Steady /\ run'.by = run.by
    BY <1>1, RowMoves, RowSame, PodSame DEF AttachPod, Steady, ledgerVars, Inv, InOrder
<1>3. Others(j) /\ job'[j].pc = "attaching" /\ job'[j].pos = job[j].pos
  <2>1. job'[j] = [job[j] EXCEPT !.pc = "attaching"] /\ Others(j)
      BY <1>1 DEF AttachPod, Others
  <2>2. job[j] \in Job
      BY <1>1
  <2> QED
      BY <2>1, <2>2 DEF Job
<1>4. Holds(j) => job[j].pos = run.consumed
    BY DEF AttachPod, At, Inv, InOrder, Fits, Follows
<1>5. Fits(j)'
    BY <1>2, <1>3, <1>4 DEF Fits, At, Follows, Holds, Steady, SteadyRow, MidFlight, Starting
<1> QED
    BY <1>2, <1>3, <1>5, SteadyMove DEF Hands, Enters, MidFlight, Starting

LEMMA AttachPodGoneStep ==
    ASSUME Inv, TypeOK', NEW j \in Jobs, AttachPodGone(j)
    PROVE  InOrder'
<1>1. job \in [Jobs -> Job]
    BY Typed DEF Inv
<1>2. Steady /\ run' = run /\ dir' = 0
    BY PodSame, RowSame DEF AttachPodGone, Steady, ledgerVars, podVars, Inv, InOrder, World
<1>3. Others(j) /\ job'[j].pc = "settling" /\ job'[j].outcome = "podgone"
  <2>1. job'[j] = [job[j] EXCEPT !.pc = "settling", !.outcome = "podgone"] /\ Others(j)
      BY <1>1 DEF AttachPodGone, Others
  <2>2. job[j] \in Job
      BY <1>1
  <2> QED
      BY <2>1, <2>2 DEF Job
<1>4. Fits(j)'
    BY <1>2, <1>3 DEF Fits, At, Follows, Gone, MidFlight, Starting
<1> QED
    BY <1>2, <1>3, <1>4, SteadyMove DEF Hands, Enters, MidFlight, Starting

LEMMA StreamTroubleStep ==
    ASSUME Inv, TypeOK', NEW j \in Jobs, StreamTrouble(j), UNCHANGED <<podVars, spend>>
    PROVE  InOrder'
<1>1. TypeOK /\ job \in [Jobs -> Job]
    BY Typed DEF Inv, Inductive
<1>2. SteadyRow /\ run'.by = run.by
    BY <1>1, RowTouched, RowSame DEF StreamTrouble
<1>3. Moved(j, "ending") \/ (Moved(j, "failing") /\ Holds(j))
    BY <1>1, MovedTo DEF StreamTrouble
<1> QED
    BY <1>2, <1>3, AsideSteady DEF Hands, Moved

LEMMA AttachSteps ==
    ASSUME Inv, TypeOK', NEW j \in Jobs, AttachStep(j)
    PROVE  InOrder'
<1>1. ASSUME AttachRefused(j) PROVE InOrder'
    BY <1>1, StreamTroubleStep DEF AttachRefused, ledgerVars
<1> QED
    BY <1>1, AttachReadStep, AttachClaimStep, AttachPodStep, AttachPodGoneStep DEF AttachStep

LEMMA OpenStreamStep ==
    ASSUME Inv, TypeOK', NEW j \in Jobs, OpenStream(j)
    PROVE  InOrder'
<1>1. job \in [Jobs -> Job] /\ At(j, "attaching") /\ run' = run
    BY Typed DEF Inv, OpenStream
<1>2. SteadyRow /\ UNCHANGED podVars
    BY RowSame DEF OpenStream, ledgerVars
<1>3. CASE job[j].released
  <2>1. Moved(j, "ending")
      BY <1>1, <1>3, MovedTo DEF OpenStream
  <2> QED
      BY <1>1, <1>2, <2>1, AsideSteady DEF Hands, Moved
<1>4. CASE ~job[j].released
  <2>1. Others(j) /\ job'[j].pc = "streaming" /\ job'[j].src = dir /\ job'[j].pos = job[j].pos
    <3>1. job'[j] = [job[j] EXCEPT !.pc = "streaming", !.src = dir] /\ Others(j)
        BY <1>1, <1>4 DEF OpenStream, Others
    <3>2. job[j] \in Job
        BY <1>1
    <3> QED
        BY <3>1, <3>2 DEF Job
  <2>2. Steady
      BY <1>2, PodSame DEF Steady, Inv, InOrder
  <2>3. Holds(j) => job[j].pos = run.consumed /\ dir \in {0, run.pid}
      BY <1>1 DEF At, Inv, InOrder, World, Fits, Follows, Inductive, HolderHasAgent, Owning
  <2>4. Fits(j)'
      BY <1>1, <1>2, <2>1, <2>3 DEF podVars, Fits, At, Follows, Holds, MidFlight, Starting
  <2> QED
      BY <1>1, <2>1, <2>2, <2>4, SteadyMove DEF Hands, Enters, MidFlight, Starting
<1> QED
    BY <1>3, <1>4

\* A batch comes from the output of the row's agent, and there is some left:
\* nobody has found the output whole.
LEMMA AppendStep ==
    ASSUME Inv, TypeOK', NEW j \in Jobs, Append(j)
    PROVE  InOrder'
<1>1. job \in [Jobs -> Job] /\ run \in Row /\ out \in [Pids -> 0 .. MaxLines]
    BY Typed DEF Inv
<1>2. At(j, "streaming") /\ Holds(j) /\ run.consumed = job[j].pos /\ job[j].src # 0
    BY DEF Append, AppendCas
<1>3. job[j].src = run.pid /\ run.pid \in Pids
    BY <1>2, Typed DEF Inv, InOrder, Fits, Follows
<1>4. PICK to \in job[j].pos + 1 .. out[job[j].src] :
          /\ run' = [run EXCEPT !.consumed = to, !.failures = Progress(j)]
          /\ job' = [job EXCEPT ![j].pos = to]
    BY DEF Append
<1>5. run.consumed < to /\ to <= out[run.pid] /\ to \in Nat
  <2>1. run.consumed \in 0 .. MaxLines /\ out[run.pid] \in 0 .. MaxLines
      BY <1>1, <1>3, Typed DEF Inv
  <2> QED
      BY <1>2, <1>3, <2>1, Parameters
<1>6. /\ run'.consumed = to /\ run'.pid = run.pid /\ run'.exec = run.exec
      /\ run'.by = run.by /\ run'.state = run.state
    BY <1>1, <1>4 DEF Row
<1>7. /\ Others(j) /\ job'[j].pc = "streaming" /\ job'[j].pos = to
      /\ job'[j].src = job[j].src
  <2>1. job'[j] = [job[j] EXCEPT !.pos = to] /\ Others(j)
      BY <1>1, <1>4 DEF Others
  <2>2. job[j] \in Job
      BY <1>1
  <2> QED
      BY <1>2, <2>1, <2>2 DEF Job, At
<1>8. UNCHANGED <<sup, out, dir, podUp, spend>> /\ ~Whole
  <2>1. run.consumed # out[run.pid]
      BY <1>1, <1>3, <1>5, Parameters
  <2> QED
      BY <2>1 DEF Append, podVars, Whole
<1>9. World'
    BY <1>5, <1>6, <1>8 DEF Inv, InOrder, World, Gone
<1>10. ASSUME NEW i \in Jobs PROVE Fits(i)'
  <2>1. CASE i = j
      BY <1>2, <1>3, <1>6, <1>7, <1>8, <2>1 DEF Inv, InOrder, Fits, At, Follows, MidFlight, Starting
  <2>2. CASE i # j
    <3>1. job'[i] = job[i] /\ run.by # i
        BY <1>2, <1>7, <2>2 DEF Others, Holds
    <3> QED
        BY <1>6, <1>8, <3>1 DEF Inv, InOrder, Fits, At, Holds
  <2> QED
      BY <2>1, <2>2
<1>11. Sole'
    BY <1>2, <1>7, SoleKept DEF Enters, MidFlight, Starting
<1> QED
    BY <1>9, <1>10, <1>11 DEF InOrder

\* The end of a stream: an exit is read from the run directory, which holds the
\* row's agent or nobody; without one the agent is gone.
LEMMA StreamEndsStep ==
    ASSUME Inv, TypeOK', NEW j \in Jobs, StreamEnds(j)
    PROVE  InOrder'
<1>1. /\ job \in [Jobs -> Job] /\ run \in Row /\ out \in [Pids -> 0 .. MaxLines]
      /\ sup \in [Pids -> {"none", "alive", "exited", "dead"}]
    BY Typed DEF Inv
<1>2. At(j, "streaming") /\ StreamOver(j)
    BY DEF StreamEnds
<1>3. Steady /\ run' = run /\ UNCHANGED podVars /\ UNCHANGED spend
    BY PodSame, RowSame DEF StreamEnds, Steady, ledgerVars, Inv, InOrder
<1>4. /\ Others(j) /\ job'[j].pc = "settling"
      /\ job'[j].outcome = IF job[j].src # 0 /\ dir # 0 /\ sup[dir] = "exited" THEN "exited" ELSE "lost"
  <2>1. /\ job'[j] = [job[j] EXCEPT !.pc = "settling",
                                    !.outcome = IF job[j].src # 0 /\ dir # 0 /\ sup[dir] = "exited"
                                                THEN "exited" ELSE "lost"]
        /\ Others(j)
      BY <1>1 DEF StreamEnds, Others
  <2>2. job[j] \in Job
      BY <1>1
  <2> QED
      BY <2>1, <2>2 DEF Job
<1>5. ASSUME Holds(j)
      PROVE  IF job[j].src # 0 /\ dir # 0 /\ sup[dir] = "exited"
             THEN /\ sup[run.pid] = "exited" /\ run.consumed = out[run.pid]
                  /\ run.exec = "exited" => spend[run.pid] = 1
             ELSE Gone
  <2>1. /\ run.pid \in Pids /\ run.exec # "none" /\ dir \in {0, run.pid}
        /\ job[j].pos = run.consumed /\ job[j].src \in {0, run.pid}
        /\ (job[j].src = 0 => dir = 0)
        /\ run.consumed <= out[run.pid] /\ sup[run.pid] # "none"
        /\ (run.exec = "exited" => spend[run.pid] = 1 \/ Gone)
      BY <1>2, <1>5, Typed DEF At, Inv, InOrder, World, Fits, Follows, Inductive, HolderHasAgent, Owning
  <2>2. CASE job[j].src # 0 /\ dir # 0 /\ sup[dir] = "exited"
    <3>1. out[run.pid] \in 0 .. MaxLines /\ run.consumed \in 0 .. MaxLines
        BY <1>1, <2>1, Typed DEF Inv
    <3>2. out[run.pid] <= run.consumed
        BY <1>2, <2>1, <2>2 DEF StreamOver
    <3> QED
        BY <2>1, <2>2, <3>1, <3>2, Parameters DEF Gone
  <2>3. CASE ~(job[j].src # 0 /\ dir # 0 /\ sup[dir] = "exited")
      BY <1>1, <1>2, <2>1, <2>3 DEF StreamOver, Gone
  <2> QED
      BY <2>2, <2>3
<1>6. Fits(j)'
    BY <1>3, <1>4, <1>5 DEF Fits, At, Holds, Follows, Gone, podVars, MidFlight, Starting
<1> QED
    BY <1>3, <1>4, <1>6, SteadyMove DEF Hands, Enters, MidFlight, Starting

LEMMA StreamSteps ==
    ASSUME Inv, TypeOK', NEW j \in Jobs, StreamStep(j)
    PROVE  InOrder'
<1>1. ASSUME NoticeLoss(j) \/ Detach(j) PROVE InOrder'
  <2>1. Moved(j, "ending") /\ run' = run /\ SteadyRow /\ UNCHANGED podVars
      BY <1>1, Typed, MovedTo, RowSame DEF NoticeLoss, Detach, ledgerVars, Inv
  <2> QED
      BY <2>1, AsideSteady DEF Hands, Moved
<1> QED
    BY <1>1, OpenStreamStep, AppendStep, StreamEndsStep DEF StreamStep

-----------------------------------------------------------------------------
(* The steps of a job that settles and finishes.                            *)

\* The recorded exit: the run is whole, or its agent is gone.
LEMMA SettleCasStep ==
    ASSUME Inv, TypeOK', NEW j \in Jobs, Settle(j), SettleCas(j)
    PROVE  InOrder'
<1>1. job \in [Jobs -> Job] /\ run \in Row /\ spend \in [Pids -> Nat]
    BY Typed DEF Inv
<1>2. At(j, "settling") /\ Holds(j) /\ run.exec = "started"
    BY DEF Settle, SettleCas
<1>3. /\ run.pid \in Pids /\ spend[run.pid] = 0
      /\ IF job[j].outcome = "exited"
         THEN sup[run.pid] = "exited" /\ run.consumed = out[run.pid]
         ELSE Gone
    BY <1>2, Typed, SettleRecords DEF At, Inv, InOrder, Fits, Follows
<1>4. /\ run'.exec = "exited" /\ run'.pid = run.pid /\ run'.consumed = run.consumed
      /\ run'.by = run.by /\ run'.state = run.state
    BY <1>1, <1>2 DEF Settle, Row
<1>5. /\ Others(j) /\ job'[j].outcome = job[j].outcome
      /\ job'[j].pc = IF job[j].outcome = "exited" THEN "check" ELSE "deciding"
  <2>1. /\ job'[j] = [job[j] EXCEPT !.pc = IF job[j].outcome = "exited" THEN "check" ELSE "deciding"]
        /\ Others(j)
      BY <1>1, <1>2 DEF Settle, Others
  <2>2. job[j] \in Job
      BY <1>1
  <2> QED
      BY <2>1, <2>2 DEF Job
<1>6. /\ UNCHANGED <<sup, out, dir, podUp>>
      /\ job[j].outcome = "exited" => spend'[run.pid] = 1
  <2>1. job[j].outcome = "exited" => spend' = [spend EXCEPT ![run.pid] = @ + 1]
      BY <1>2 DEF Settle
  <2> QED
      BY <1>1, <1>3, <2>1 DEF Settle, podVars
<1>7. (job[j].outcome = "exited" => Whole') /\ ~Whole
    BY <1>2, <1>3, <1>4, <1>6 DEF Whole
<1>8. World'
  <2>1. run'.exec = "exited" => spend'[run'.pid] = 1 \/ Gone'
      BY <1>3, <1>4, <1>6 DEF Gone
  <2> QED
      BY <1>2, <1>4, <1>6, <1>7, <2>1 DEF Inv, InOrder, World
<1>9. ASSUME NEW i \in Jobs PROVE Fits(i)'
  <2>1. CASE i = j
    <3>1. run.state # "queued"
        BY <1>2 DEF Inv, InOrder, World
    <3> QED
        BY <1>4, <1>5, <1>7, <2>1, <3>1 DEF Fits, At, Follows, MidFlight, Starting
  <2>2. CASE i # j
    <3>1. job'[i] = job[i] /\ run.by # i /\ job[i].pc \notin Starting
        BY <1>2, <1>5, <2>2, NoneStarting DEF Others, Holds
    <3> QED
        BY <1>4, <1>7, <3>1 DEF Inv, InOrder, Fits, At, Holds, Starting
  <2> QED
      BY <2>1, <2>2
<1>10. Sole'
    BY <1>2, <1>5, SoleKept DEF Enters, Starting
<1> QED
    BY <1>8, <1>9, <1>10 DEF InOrder

\* A run settled before, or lost.
LEMMA SettleStep ==
    ASSUME Inv, TypeOK', NEW j \in Jobs, Settle(j)
    PROVE  InOrder'
<1>1. job \in [Jobs -> Job] /\ At(j, "settling")
    BY Typed DEF Inv, Settle
<1>2. CASE ~Holds(j)
  <2>1. Moved(j, "ending") /\ run' = run /\ SteadyRow /\ UNCHANGED podVars
      BY <1>1, <1>2, MovedTo, RowSame DEF Settle, SettleCas
  <2> QED
      BY <2>1, AsideSteady DEF Hands, Moved
<1>3. CASE Holds(j) /\ run.exec = "exited"
  <2>1. run' = run /\ Steady /\ UNCHANGED podVars /\ UNCHANGED spend
      BY <1>3, RowSame, PodSame DEF Settle, SettleCas, Steady, Inv, InOrder
  <2>2. /\ Others(j) /\ job'[j].outcome = job[j].outcome
        /\ job'[j].pc = IF job[j].outcome = "exited" THEN "check" ELSE "deciding"
    <3>1. /\ job'[j] = [job[j] EXCEPT !.pc = IF job[j].outcome = "exited" THEN "check" ELSE "deciding"]
          /\ Others(j)
        BY <1>1, <1>3 DEF Settle, SettleCas, Others
    <3>2. job[j] \in Job
        BY <1>1
    <3> QED
        BY <3>1, <3>2 DEF Job
  <2>3. job[j].outcome = "exited" => Whole'
      BY <1>1, <1>3, <2>1 DEF Inv, InOrder, Fits, Follows, Whole, podVars
  <2>4. run.state # "queued"
      BY <1>3 DEF Inv, InOrder, World
  <2>5. Fits(j)'
      BY <2>1, <2>2, <2>3, <2>4 DEF Fits, At, Follows, MidFlight, Starting
  <2> QED
      BY <1>3, <2>1, <2>2, <2>5, SteadyMove DEF Hands, Enters, Starting
<1>4. run.exec \in {"none", "started", "exited"} /\ (Holds(j) => run.exec # "none")
    BY <1>1, Typed DEF Inv, Inductive, HolderHasAgent, Owning, At
<1> QED
    BY <1>2, <1>3, <1>4, SettleCasStep DEF SettleCas

LEMMA FinishCheckStep ==
    ASSUME Inv, TypeOK', NEW j \in Jobs, FinishCheck(j)
    PROVE  InOrder'
<1>1. job \in [Jobs -> Job] /\ At(j, "check")
    BY Typed DEF Inv, FinishCheck
<1>2. Steady /\ run' = run /\ Whole /\ Whole'
  <2>1. Steady /\ run' = run
      BY PodSame, RowSame DEF FinishCheck, Steady, ledgerVars, Inv, InOrder
  <2>2. Whole
      BY <1>1 DEF Inv, InOrder, Fits, At
  <2> QED
      BY <2>1, <2>2, StayAsTheyAre DEF Inv
<1>3. Moved(j, "deciding") \/ Moved(j, "closing")
    BY <1>1, MovedTo DEF FinishCheck
<1>4. run.state # "queued"
    BY <1>1 DEF At, Inv, InOrder, Fits, MidFlight
<1>5. Fits(j)'
    BY <1>2, <1>3, <1>4 DEF Fits, At, Follows, Moved, MidFlight, Starting
<1> QED
    BY <1>1, <1>2, <1>3, <1>5, SteadyMove DEF Hands, Enters, Moved, At, MidFlight, Starting

\* The verdict on a run whose agent exited finds it whole.
LEMMA DecideStep ==
    ASSUME Inv, TypeOK', NEW j \in Jobs, Decide(j)
    PROVE  InOrder'
<1>1. TypeOK /\ job \in [Jobs -> Job] /\ At(j, "deciding")
    BY Typed DEF Inv, Inductive, Decide
<1>2. PICK s \in Verdicts(j) : MoveTo(s)
    BY DEF Decide
<1>3. s # "queued" /\ (s = "completed" => Whole)
    BY <1>1, Parameters DEF Verdicts, FinalStates, Inv, InOrder, Fits
<1>4. Steady /\ run'.by = run.by /\ run'.state = s
    BY <1>1, <1>2, <1>3, RowMoves, PodSame DEF Decide, Steady, ledgerVars, Inv, InOrder
<1>5. /\ Others(j)
      /\ job'[j].pc = IF job[j].outcome = "exited" THEN "tidying" ELSE "closing"
  <2>1. /\ job'[j] = [job[j] EXCEPT !.pc = IF job[j].outcome = "exited" THEN "tidying" ELSE "closing"]
        /\ Others(j)
      BY <1>1 DEF Decide, Others
  <2>2. job[j] \in Job
      BY <1>1
  <2> QED
      BY <2>1, <2>2 DEF Job
<1>6. job[j].outcome = "exited" => Whole'
    BY <1>1, <1>4, StayAsTheyAre DEF Inv, InOrder, Fits
<1>7. Fits(j)'
    BY <1>3, <1>4, <1>5, <1>6 DEF Fits, At, Follows, MidFlight, Starting
<1> QED
    BY <1>1, <1>4, <1>5, <1>7, SteadyMove DEF Hands, Enters, At, MidFlight, Starting

\* The removed directory is that of an agent that exited.
LEMMA TidyStep ==
    ASSUME Inv, TypeOK', NEW j \in Jobs, Tidy(j)
    PROVE  InOrder'
<1>1. job \in [Jobs -> Job] /\ At(j, "tidying") /\ UNCHANGED <<run, sup, out, podUp, spend>> /\ dir' = 0
    BY Typed DEF Inv, Tidy, ledgerVars
<1>2. \A p \in Pids : sup[p] # "alive"
  <2>1. Whole
      BY <1>1 DEF Inv, InOrder, Fits, At
  <2>2. dir \in {0, run.pid} /\ sup[run.pid] = "exited" /\ (\A p \in Pids : sup[p] = "alive" => p = dir)
      BY <2>1 DEF Inv, InOrder, World, Whole
  <2> QED
      BY <2>2, Typed DEF Inv
<1>3. Steady
    BY <1>1, <1>2, RowSame DEF Steady, SteadyPod
<1>4. Moved(j, "closing")
    BY <1>1, MovedTo DEF Tidy
<1>5. Fits(j)'
    BY <1>4, FitsAside DEF Moved, MidFlight
<1> QED
    BY <1>1, <1>3, <1>4, <1>5, SteadyMove DEF Hands, Enters, Moved, MidFlight, Starting

LEMMA CloseStep ==
    ASSUME Inv, TypeOK', NEW j \in Jobs, Close(j)
    PROVE  InOrder'
<1>1. job \in [Jobs -> Job] /\ run \in Row /\ At(j, "closing") /\ Moved(j, "ending")
    BY Typed, MovedTo DEF Inv, Close
<1>2. UNCHANGED podVars /\ UNCHANGED spend
    BY DEF Close, ledgerVars
<1>3. CASE ~Holds(j)
  <2>1. run' = run
      BY <1>3 DEF Close
  <2> QED
      BY <1>1, <1>2, <2>1, RowSame, AsideSteady DEF Hands, Moved
<1>4. CASE Holds(j)
  <2>1. /\ run'.by = NoJob /\ run'.state = run.state /\ run'.exec = run.exec
        /\ run'.pid = run.pid /\ run'.consumed = run.consumed
      BY <1>1, <1>4 DEF Close, Row
  <2>2. run.state # "queued"
      BY <1>4, Parameters DEF Inv, InOrder, World, Holds
  <2>3. \A i \in Jobs \ {j} : job[i].pc \notin Starting
      BY <1>4, NoneStarting, Parameters DEF Holds
  <2> QED
      BY <1>1, <1>2, <2>1, <2>2, <2>3, AsideSteady DEF Hands, Moved, SteadyRow
<1> QED
    BY <1>3, <1>4

LEMMA FinishSteps ==
    ASSUME Inv, TypeOK', NEW j \in Jobs, FinishStep(j)
    PROVE  InOrder'
<1>1. TypeOK /\ job \in [Jobs -> Job]
    BY Typed DEF Inv, Inductive
<1>2. ASSUME DecideRefused(j) PROVE InOrder'
  <2>1. CASE StreamTrouble(j)
      BY <1>2, <2>1, StreamTroubleStep DEF DecideRefused, ledgerVars
  <2>2. CASE ToEnd(j, "none") /\ UNCHANGED run
    <3>1. Moved(j, "ending") /\ SteadyRow /\ UNCHANGED podVars
        BY <1>1, <1>2, <2>2, MovedTo, RowSame DEF DecideRefused, ledgerVars
    <3> QED
        BY <2>2, <3>1, AsideSteady DEF Hands, Moved
  <2> QED
      BY <1>2, <2>1, <2>2 DEF DecideRefused
<1>3. ASSUME FailRun(j) PROVE InOrder'
  <2>1. Moved(j, "ending") /\ SteadyRow /\ run'.by = run.by /\ UNCHANGED podVars
      BY <1>1, <1>3, MovedTo, RowMoves, RowSame DEF FailRun, ledgerVars
  <2> QED
      BY <2>1, AsideSteady DEF Hands, Moved
<1>4. ASSUME EndRunJob(j) PROVE InOrder'
  <2>1. Moved(j, "done") /\ UNCHANGED podVars /\ UNCHANGED spend
      BY <1>1, <1>4, MovedTo DEF EndRunJob, ledgerVars
  <2>2. run' = run \/ run' = [run EXCEPT !.lease = "expired"]
      BY <1>4 DEF EndRunJob
  <2>3. SteadyRow /\ run'.by = run.by
      BY <1>1, <2>1, <2>2, RowTouched, RowSame
  <2> QED
      BY <2>1, <2>3, AsideSteady DEF Hands, Moved
<1> QED
    BY <1>2, <1>3, <1>4, SettleStep, FinishCheckStep, DecideStep, TidyStep, CloseStep DEF FinishStep

-----------------------------------------------------------------------------
(* Faults, the pod, users and the reconciler.                               *)

LEMMA TroubleSteps ==
    ASSUME Inv, TypeOK', NEW j \in Jobs, Trouble(j), Requeues => Clear'
    PROVE  InOrder'
<1>1. TypeOK /\ job \in [Jobs -> Job] /\ run \in Row
    BY Typed DEF Inv, Inductive
<1>2. ASSUME SetupFails(j) PROVE InOrder'
    BY <1>2, SetupErrorSteps DEF SetupFails
<1>3. ASSUME StreamError(j) PROVE InOrder'
    BY <1>3, StreamTroubleStep DEF StreamError, ledgerVars
<1>4. ASSUME Drop(j) \/ Crash(j) PROVE InOrder'
  <2>1. (Moved(j, "ending") \/ Moved(j, "dead")) /\ run' = run /\ SteadyRow /\ UNCHANGED podVars
      BY <1>1, <1>4, MovedTo, RowSame DEF Drop, Crash, ledgerVars
  <2> QED
      BY <2>1, AsideSteady DEF Hands, Moved
<1>5. ASSUME Shutdown(j) PROVE InOrder'
  <2>1. UNCHANGED podVars /\ UNCHANGED spend /\ (run' = run \/ run' = [run EXCEPT !.lease = "expired"])
      BY <1>5 DEF Shutdown, ledgerVars
  <2>2. Steady /\ run'.by = run.by /\ run'.state = run.state
      BY <1>1, <2>1, RowTouched, RowSame, PodSame DEF Steady, Inv, InOrder
  <2>3. /\ Others(j) /\ job'[j].pc = job[j].pc /\ job'[j].pos = job[j].pos
        /\ job'[j].src = job[j].src /\ job'[j].outcome = job[j].outcome
        /\ job'[j].started = job[j].started
    <3>1. job'[j] = [job[j] EXCEPT !.released = TRUE] /\ Others(j)
        BY <1>1, <1>5 DEF Shutdown, Others
    <3>2. job[j] \in Job
        BY <1>1
    <3> QED
        BY <3>1, <3>2 DEF Job
  <2>4. UNCHANGED <<sup, out, dir, spend>> /\ Fits(j)
      BY <2>1 DEF podVars, Inv, InOrder
  <2>5. run'.exec = run.exec /\ run'.pid = run.pid /\ run'.consumed = run.consumed
      BY <2>2 DEF Steady, SteadyRow
  <2>6. (Follows(j) => Follows(j)') /\ (Whole <=> Whole')
      BY <2>3, <2>4, <2>5 DEF Follows, Whole, Gone, At
  <2>7. Fits(j)'
      BY <2>2, <2>3, <2>4, <2>5, <2>6 DEF Fits, At, Holds
  <2> QED
      BY <2>2, <2>3, <2>7, SteadyMove DEF Hands, Enters
<1> QED
    BY <1>2, <1>3, <1>4, <1>5 DEF Trouble

LEMMA PodSteps ==
    ASSUME Inv, TypeOK', Pod
    PROVE  InOrder'
<1>1. /\ job' = job /\ run' = run /\ UNCHANGED spend
      /\ sup \in [Pids -> {"none", "alive", "exited", "dead"}]
      /\ out \in [Pids -> 0 .. MaxLines]
      /\ \A p \in Pids : p \in Nat /\ p # 0
    BY Typed DEF Inv, Pod, AgentWrites, AgentExits, DeliverKill, PodDies, ledgerVars
<1>2. ~podUp => dir = 0
    BY DEF Inv, InOrder, World
<1>3. ASSUME NEW p \in Pids, AgentWrites(p) PROVE SteadyPod
  <2>1. out[p] \in Nat /\ out' = [out EXCEPT ![p] = out[p] + 1]
    <3>1. out[p] \in 0 .. MaxLines
        BY <1>1
    <3> QED
        BY <1>3, <3>1, Parameters DEF AgentWrites
  <2>2. \A q \in Pids : out'[q] = out[q] \/ (q = p /\ out'[q] >= out[q])
      BY <1>1, <2>1
  <2> QED
      BY <1>2, <1>3, <2>2 DEF AgentWrites, SteadyPod
<1>4. ASSUME NEW p \in Pids, AgentExits(p) PROVE SteadyPod
    BY <1>1, <1>2, <1>4 DEF AgentExits, SteadyPod
<1>5. ASSUME NEW p \in 0 .. MaxPid, DeliverKill(p) PROVE SteadyPod
    BY <1>1, <1>2, <1>5 DEF DeliverKill, SteadyPod
<1>6. ASSUME PodDies PROVE SteadyPod
    BY <1>1, <1>2, <1>6 DEF PodDies, SteadyPod
<1>7. Steady
    BY <1>1, <1>3, <1>4, <1>5, <1>6, RowSame DEF Pod, Steady
<1> QED
    BY <1>1, <1>7, SteadyStill

LEMMA OtherSteps ==
    ASSUME Inv, TypeOK', Requeues => Clear',
           \/ \E j \in Jobs : Renew(j)
           \/ ExpireLease \/ Cancel \/ Retry \/ Redo
           \/ ReconcileReads \/ ReconcileActs
    PROVE  InOrder'
<1>1. TypeOK /\ job' = job /\ UNCHANGED podVars /\ UNCHANGED spend
    BY DEF Inv, Inductive, Renew, ExpireLease, Cancel, Retry, Redo, ReconcileReads,
           ReconcileActs, ledgerVars
<1>2. ASSUME SteadyRow, run'.by = run.by PROVE InOrder'
    BY <1>1, <1>2, SteadyStill, PodSame DEF Steady, Inv, InOrder
<1>3. ASSUME NewAttempt, Requeues PROVE InOrder'
    BY <1>1, <1>3, WipedRow, WipedPreserves DEF Wiped
<1>4. ASSUME NEW j \in Jobs, Renew(j) PROVE InOrder'
    BY <1>1, <1>2, <1>4, RowTouched DEF Renew
<1>5. ASSUME ExpireLease PROVE InOrder'
    BY <1>1, <1>2, <1>5, RowTouched DEF ExpireLease
<1>6. ASSUME Cancel PROVE InOrder'
    BY <1>1, <1>2, <1>6, RowMoves DEF Cancel
<1>7. ASSUME Retry PROVE InOrder'
    BY <1>1, <1>3, <1>7, RequeueIsOne DEF Retry, Requeue
<1>8. ASSUME Redo PROVE InOrder'
  <2>1. requests \in Nat
      BY <1>1, Parameters DEF TypeOK
  <2>2. Requeues
      BY <1>1, <1>8, <2>1, WipedRow DEF Redo, Request, Requeues
  <2> QED
      BY <1>3, <1>8, <2>2 DEF Redo
<1>9. ASSUME ReconcileReads PROVE InOrder'
    BY <1>1, <1>2, <1>9, RowSame DEF ReconcileReads
<1>10. ASSUME ReconcileActs PROVE InOrder'
  <2>1. CASE Requeue
      BY <1>1, <1>3, <2>1, RequeueIsOne DEF Requeue
  <2>2. CASE MoveTo("needs_attention") \/ MoveTo("failed")
      BY <1>1, <1>2, <2>2, RowMoves
  <2> QED
      BY <1>10, <2>1, <2>2 DEF ReconcileActs
<1> QED
    BY <1>4, <1>5, <1>6, <1>7, <1>8, <1>9, <1>10

-----------------------------------------------------------------------------

LEMMA InvInit == Init => Inv
<1> SUFFICES ASSUME Init PROVE Inv
    OBVIOUS
<1>1. World
    BY DEF Init, World
<1>2. \A j \in Jobs : Fits(j)
    BY Parameters DEF Init, Fits, FreshJob, At, Holds, MidFlight, Starting
<1>3. Sole
    BY DEF Init, Sole, FreshJob, MidFlight
<1> QED
    BY <1>1, <1>2, <1>3, InductiveInit DEF Inv, InOrder

LEMMA InvStep == Inv /\ [Next]_vars /\ [Requeues => Clear']_vars => Inv'
<1> SUFFICES ASSUME Inv, [Next]_vars, [Requeues => Clear']_vars PROVE Inv'
    OBVIOUS
<1>1. Inductive' /\ TypeOK'
    BY InductiveStep DEF Inv, Inductive
<1>2. CASE UNCHANGED vars
  <2>1. job' = job /\ run' = run /\ UNCHANGED podVars /\ UNCHANGED spend
      BY <1>2 DEF vars, podVars
  <2>2. InOrder'
      BY <1>1, <2>1, SteadyStill, PodSame, RowSame DEF Steady, Inv, InOrder
  <2> QED
      BY <1>1, <2>2 DEF Inv
<1>3. CASE ~UNCHANGED vars
  <2>1. Next /\ (Requeues => Clear')
      BY <1>3
  <2>2. InOrder'
      BY <1>1, <2>1, StartSteps, AttachSteps, StreamSteps, FinishSteps, TroubleSteps,
         PodSteps, OtherSteps DEF Next
  <2> QED
      BY <1>1, <2>2 DEF Inv
<1> QED
    BY <1>2, <1>3

LEMMA InvHolds == Spec /\ UndisturbedRun => []Inv
    BY InvInit, InvStep, PTL DEF Spec, UndisturbedRun

-----------------------------------------------------------------------------
(* What a reader should know.                                               *)

\* Never two agents of the task at once: a launch stops the one before it, and
\* a run directory is removed only when the agent in it has exited.
THEOREM AgentsRunAlone == Spec /\ UndisturbedRun => []OneAgent
<1>1. Inv => OneAgent
    BY DEF Inv, InOrder, World, OneAgent
<1> QED
    BY <1>1, InvHolds, PTL

\* Whoever holds the run, and however often it was taken over, streams the
\* output of the run's own agent.
THEOREM HolderStreamsOwnOutput == Spec /\ UndisturbedRun => []StreamsOwnOutput
<1>1. Inv => StreamsOwnOutput
    BY DEF Inv, InOrder, Fits, Follows, StreamsOwnOutput
<1> QED
    BY <1>1, InvHolds, PTL

\* A task is completed only when its agent's whole output is in the log and
\* its spend is recorded.
THEOREM CompletedTaskIsWhole == Spec /\ UndisturbedRun => []CompletedIsWhole
<1>1. Inv => CompletedIsWhole
    BY DEF Inv, InOrder, World, Whole, CompletedIsWhole
<1> QED
    BY <1>1, InvHolds, PTL

-----------------------------------------------------------------------------
(* No agent is nobody's.                                                    *)

\* Who has agent p in hand: the job about to record it, the active run that
\* started it, or a signal on its way.
Cared(p) ==
    \/ \E j \in Jobs : At(j, "launched") /\ job[j].started = p
    \/ run.pid = p /\ run.exec = "started" /\ run.state \in Active
    \/ p \in kills \/ 0 \in kills

\* A task whose agent is being launched is provisioning; an agent whose exit is
\* recorded does not run; a run put up for attention never started an agent.
Tended ==
    /\ \A j \in Jobs : job[j].pc \in Launching => run.state = "provisioning"
    /\ run.exec = "exited" => sup[run.pid] # "alive"
    /\ decision = "attention" => run.state = "running" /\ run.exec = "none"
    /\ \A p \in Pids : sup[p] = "alive" => Cared(p)

\* Plain steps: they launch nothing, record no start, drop no signal, and move
\* an active run on only with a signal or when its agent does not run.
JobsPlain ==
    \A i \in Jobs :
        /\ At(i, "launched") => job'[i].pc = "launched" /\ job'[i].started = job[i].started
        /\ job'[i].pc \in Launching => job[i].pc \in Launching \/ run'.state = "provisioning"

RowPlain ==
    /\ run'.exec = run.exec /\ run'.pid = run.pid
    /\ kills \subseteq kills'
    /\ run.state \in Active /\ run'.state \notin Active =>
         run.exec # "started" \/ sup[run.pid] # "alive" \/ 0 \in kills'
    /\ decision' = "attention" =>
         \/ decision = "attention" /\ run'.state = run.state
         \/ run'.state = "running" /\ run'.exec = "none"

PodPlain == \A p \in Pids : sup'[p] = "alive" => sup[p] = "alive"

Plain == JobsPlain /\ RowPlain /\ PodPlain

LEMMA PlainKeeps ==
    ASSUME Inductive, Tended, LaunchKept, Plain
    PROVE  Tended'
<1>1. \A j \in Jobs : job'[j].pc \in Launching => run'.state = "provisioning"
    BY DEF Tended, LaunchKept, Plain, JobsPlain
<1>2. run'.exec = "exited" => sup'[run'.pid] # "alive"
    BY Typed DEF Tended, Plain, RowPlain, PodPlain
<1>3. decision' = "attention" => run'.state = "running" /\ run'.exec = "none"
    BY DEF Tended, Plain, RowPlain
<1>4. ASSUME NEW p \in Pids, sup'[p] = "alive" PROVE Cared(p)'
  <2>1. sup[p] = "alive" /\ Cared(p)
      BY <1>4 DEF Tended, Plain, PodPlain
  <2> QED
      BY <2>1 DEF Cared, At, Plain, JobsPlain, RowPlain
<1> QED
    BY <1>1, <1>2, <1>3, <1>4 DEF Tended

LEMMA JobsMove ==
    ASSUME LaunchKept, NEW j \in Jobs, Others(j),
           \/ job'[j].pc \notin Launching \cup {"recorded"}
           \/ job'[j].pc \in {"claimed", "setup"}
              /\ (job[j].pc \in Launching \/ run'.state = "provisioning")
           \/ job'[j].pc = job[j].pc /\ job'[j].started = job[j].started
    PROVE  JobsPlain
    BY DEF LaunchKept, Others, JobsPlain, At, Launching

LEMMA JobsStill ==
    ASSUME job' = job
    PROVE  JobsPlain
    BY DEF JobsPlain, At

LEMMA RowStays ==
    ASSUME TypeOK, kills \subseteq kills', UNCHANGED decision,
           \/ run' = run
           \/ \E l : run' = [run EXCEPT !.lease = l]
           \/ \E f : run' = [run EXCEPT !.failures = f]
    PROVE  RowPlain
<1>1. run \in Row
    BY DEF TypeOK
<1> QED
    BY <1>1 DEF RowPlain, Row

LEMMA RowLeaves ==
    ASSUME TypeOK, NEW s, MoveTo(s),
           \/ s \in {"provisioning", "running", "cancelled", "failed"}
           \/ run.exec # "started" \/ sup[run.pid] # "alive"
    PROVE  RowPlain /\ run'.state = s
<1>1. run \in Row
    BY DEF TypeOK
<1> QED
    BY <1>1 DEF MoveTo, StopsAgent, Active, RowPlain, Row

\* A new attempt signals the agent of the last one.
LEMMA RequeueKeeps ==
    ASSUME Inductive, Tended, LaunchKept, NewAttempt, Clear', UNCHANGED sup
    PROVE  Tended'
<1>1. /\ run'.exec = "none" /\ run'.state = "queued" /\ decision' = "none"
      /\ kills \subseteq kills' /\ (run.exec = "started" => run.pid \in kills')
    BY WipedRow DEF Inductive, NewAttempt, StopPrevious
<1>2. \A j \in Jobs : ~At(j, "launched") /\ job'[j].pc \notin Launching
    BY DEF Clear, LaunchKept, MidFlight, Launching
<1>3. ASSUME NEW p \in Pids, sup'[p] = "alive" PROVE Cared(p)'
    BY <1>1, <1>2, <1>3 DEF Tended, Cared
<1> QED
    BY <1>1, <1>2, <1>3 DEF Tended

LEMMA SetupErrorKeeps ==
    ASSUME Inv, Tended, LaunchKept, NEW j \in Jobs, Requeues => Clear',
           SetupError(j) \/ UNCHANGED <<run, kills, decision>>, ToEnd(j, "none"), UNCHANGED sup
    PROVE  Tended'
<1>1. TypeOK /\ Inductive /\ Moved(j, "ending")
    BY Typed, MovedTo DEF Inv, Inductive
<1>2. JobsPlain /\ PodPlain
    BY <1>1, JobsMove DEF Moved, PodPlain, Launching
<1>3. CASE UNCHANGED <<run, kills, decision>>
    BY <1>1, <1>2, <1>3, RowStays, PlainKeeps DEF Plain
<1>4. CASE MoveTo("failed")
    BY <1>1, <1>2, <1>4, RowLeaves, PlainKeeps DEF Plain
<1>5. CASE Requeue
    BY <1>1, <1>5, RequeueIsOne, RequeueKeeps DEF Requeue
<1> QED
    BY <1>3, <1>4, <1>5 DEF SetupError

\* The launch stops the agent before it, and its job has the new one in hand.
LEMMA LaunchKeeps ==
    ASSUME Inv, Inv', Tended, LaunchKept, NEW j \in Jobs, LaunchAgent(j)
    PROVE  Tended'
<1> DEFINE p == launched + 1
<1>1. job \in [Jobs -> Job] /\ UNCHANGED run /\ decision' = "none" /\ dir' = p
    BY Typed DEF Inv, LaunchAgent, NextPid, FilesOf
<1>2. Others(j) /\ job'[j].pc = "launched" /\ job'[j].started = p
  <2>1. job'[j] = [job[j] EXCEPT !.pc = "launched", !.started = p, !.slot = TRUE] /\ Others(j)
      BY <1>1 DEF LaunchAgent, NextPid, Others
  <2>2. job[j] \in Job
      BY <1>1
  <2> QED
      BY <2>1, <2>2 DEF Job
<1> HIDE DEF p
<1>3. At(j, "setup") /\ run.exec = "none"
    BY DEF LaunchAgent, At, Inv, InOrder, Fits, Starting
<1>4. \A i \in Jobs : job'[i].pc \in Launching => run'.state = "provisioning"
    BY <1>1, <1>2, <1>3 DEF Tended, Others, At, Launching
<1>5. ASSUME NEW q \in Pids, sup'[q] = "alive" PROVE Cared(q)'
  <2>1. q = p
      BY <1>1, <1>5 DEF Inv, InOrder, World
  <2> QED
      BY <1>2, <2>1 DEF Cared, At
<1> QED
    BY <1>1, <1>3, <1>4, <1>5 DEF Tended

\* The recorded start hands the agent over to the row of an active task.
LEMMA RecordKeeps ==
    ASSUME Inv, Tended, NEW j \in Jobs, RecordStarted(j)
    PROVE  Tended'
<1>1. job \in [Jobs -> Job] /\ run \in Row
    BY Typed DEF Inv
<1>2. At(j, "launched") /\ run.by = j
    BY DEF RecordStarted, At, Inv, InOrder, Fits, Starting
<1>3. run.state = "provisioning"
    BY <1>2 DEF Tended, At, Launching
<1>4. run'.exec = "started" /\ run'.pid = job[j].started /\ run'.state = "provisioning"
  <2>1. run' = [run EXCEPT !.exec = "started", !.pid = job[j].started,
                           !.consumed = 0, !.lease = "live", !.failures = 0]
      BY <1>2 DEF RecordStarted, RecordCas, Holds
  <2> QED
      BY <1>1, <1>3, <2>1 DEF Row
<1>5. Others(j) /\ job'[j].pc = "recorded"
  <2>1. job'[j] = [job[j] EXCEPT !.pc = "recorded", !.agent = job[j].started] /\ Others(j)
      BY <1>1, <1>2 DEF RecordStarted, Others, RecordCas, Holds
  <2>2. job[j] \in Job
      BY <1>1
  <2> QED
      BY <2>1, <2>2 DEF Job
<1>6. UNCHANGED <<sup, kills, decision>>
    BY DEF RecordStarted, podVars
<1>7. ASSUME NEW p \in Pids, sup'[p] = "alive" PROVE Cared(p)'
  <2>1. Cared(p)
      BY <1>6, <1>7 DEF Tended
  <2>2. CASE p = job[j].started
      BY <1>4, <2>2 DEF Cared, Active
  <2>3. CASE p # job[j].started
    <3>1. ~(run.exec = "started")
        BY <1>2 DEF At, Inv, InOrder, Fits, Starting
    <3>2. \A i \in Jobs : At(i, "launched") => i = j
        BY <1>2 DEF At, Inv, InOrder, Sole, Starting, MidFlight
    <3> QED
        BY <1>6, <2>1, <2>3, <3>1, <3>2 DEF Cared
  <2> QED
      BY <2>2, <2>3
<1>8. \A i \in Jobs : job'[i].pc \in Launching => run'.state = "provisioning"
    BY <1>4
<1> QED
    BY <1>3, <1>4, <1>6, <1>7, <1>8 DEF Tended

\* An exit is recorded of an agent that does not run.
LEMMA SettleKeeps ==
    ASSUME Inv, Tended, LaunchKept, NEW j \in Jobs, Settle(j), SettleCas(j)
    PROVE  Tended'
<1>1. job \in [Jobs -> Job] /\ run \in Row
    BY Typed DEF Inv
<1>2. At(j, "settling") /\ Holds(j) /\ run.exec = "started"
    BY DEF Settle, SettleCas
<1>3. sup[run.pid] # "alive"
  <2>1. run.pid \in Pids /\ (sup[run.pid] = "exited" \/ Gone)
      BY <1>2, Typed DEF At, Inv, InOrder, Fits, Follows
  <2> QED
      BY <2>1, Typed DEF Gone, Inv, InOrder, World
<1>4. run'.exec = "exited" /\ run'.pid = run.pid /\ run'.state = run.state
    BY <1>1, <1>2 DEF Settle, Row
<1>5. UNCHANGED <<sup, kills>> /\ decision' \in {decision, "none"}
    BY <1>2 DEF Settle, podVars
<1>6. Moved(j, "check") \/ Moved(j, "deciding")
    BY <1>1, <1>2, MovedTo DEF Settle
<1>7. JobsPlain
    BY <1>6, JobsMove DEF Moved, Launching
<1>8. ASSUME NEW p \in Pids, sup'[p] = "alive" PROVE Cared(p)'
    BY <1>3, <1>5, <1>7, <1>8 DEF Tended, Cared, JobsPlain, At
<1>9. \A i \in Jobs : job'[i].pc \in Launching => run'.state = "provisioning"
    BY <1>4, <1>7 DEF Tended, JobsPlain
<1> QED
    BY <1>2, <1>3, <1>4, <1>5, <1>8, <1>9 DEF Tended

\* A signal that reaches no agent was not the one that runs; the agent that
\* runs is in the directory.
LEMMA KillKeeps ==
    ASSUME Inv, Tended, LaunchKept, NEW k \in 0 .. MaxPid, DeliverKill(k)
    PROVE  Tended'
<1>1. sup \in [Pids -> {"none", "alive", "exited", "dead"}] /\ UNCHANGED <<run, job>>
    BY Typed DEF Inv, DeliverKill
<1>2. \A p \in Pids : sup'[p] = "alive" => sup[p] = "alive" /\ p # k /\ k # 0
    BY <1>1 DEF DeliverKill, Inv, InOrder, World
<1>3. kills' = kills \ {k} /\ decision' \in {decision, "none"}
    BY DEF DeliverKill
<1>4. ASSUME NEW p \in Pids, sup'[p] = "alive" PROVE Cared(p)'
    BY <1>1, <1>2, <1>3, <1>4 DEF Tended, Cared, At
<1>5. run'.exec = "exited" => sup'[run'.pid] # "alive"
    BY <1>1, <1>2, Typed DEF Tended, Inv
<1> QED
    BY <1>1, <1>3, <1>4, <1>5 DEF Tended

\* A step of job j that leaves its agent and the pod alone.
LEMMA AsideKeeps ==
    ASSUME Inv, Tended, LaunchKept, NEW j \in Jobs, Others(j), RowPlain, PodPlain,
           job'[j].pc \notin Launching \cup {"recorded"}
    PROVE  Tended'
    BY JobsMove, PlainKeeps DEF Plain, Inv

LEMMA StreamTroubleKeeps ==
    ASSUME Inv, Tended, LaunchKept, NEW j \in Jobs, StreamTrouble(j),
           UNCHANGED <<kills, decision, sup>>
    PROVE  Tended'
<1>1. TypeOK /\ job \in [Jobs -> Job]
    BY Typed DEF Inv, Inductive
<1>2. RowPlain /\ PodPlain
    BY <1>1, RowStays DEF StreamTrouble, PodPlain
<1>3. Moved(j, "ending") \/ Moved(j, "failing")
    BY <1>1, MovedTo DEF StreamTrouble
<1> QED
    BY <1>2, <1>3, AsideKeeps DEF Moved, Launching

LEMMA StartKeeps ==
    ASSUME Inv, Inv', Tended, LaunchKept, NEW j \in Jobs, StartStep(j), Requeues => Clear'
    PROVE  Tended'
<1>1. TypeOK /\ job \in [Jobs -> Job] /\ run \in Row
    BY Typed DEF Inv, Inductive
<1>2. ASSUME Claim(j) PROVE Tended'
  <2>1. RowPlain /\ run'.state = "provisioning" /\ PodPlain
      BY <1>1, <1>2, RowLeaves DEF Claim, podVars, PodPlain
  <2>2. JobsPlain
    <3>1. Moved(j, "claimed")
        BY <1>1, <1>2, MovedTo DEF Claim
    <3> QED
        BY <2>1, <3>1, JobsMove DEF Moved
  <2> QED
      BY <2>1, <2>2, PlainKeeps DEF Plain, Inv
<1>3. ASSUME BeginHold(j) PROVE Tended'
  <2>1. RowPlain /\ PodPlain
      BY <1>1, <1>3 DEF BeginHold, Row, RowPlain, podVars, PodPlain
  <2>2. JobsPlain
    <3>1. Moved(j, "setup") /\ job[j].pc \in Launching
        BY <1>1, <1>3, MovedTo DEF BeginHold, At, Launching
    <3> QED
        BY <3>1, JobsMove DEF Moved
  <2> QED
      BY <2>1, <2>2, PlainKeeps DEF Plain, Inv
<1>4. ASSUME PrFound(j) PROVE Tended'
  <2>1. Moved(j, "prfound") /\ RowPlain /\ PodPlain
      BY <1>1, <1>4, MovedTo, RowLeaves DEF PrFound, podVars, PodPlain
  <2> QED
      BY <2>1, AsideKeeps DEF Moved, Launching
<1>5. ASSUME PrOpened(j) PROVE Tended'
  <2>1. run.exec = "none"
      BY <1>5 DEF PrOpened, At, Inv, InOrder, Fits, Starting
  <2>2. Moved(j, "ending") /\ RowPlain /\ PodPlain
      BY <1>1, <1>5, <2>1, MovedTo, RowLeaves DEF PrOpened, podVars, PodPlain
  <2> QED
      BY <2>2, AsideKeeps DEF Moved, Launching
<1>6. ASSUME ToRunning(j) PROVE Tended'
  <2>1. Moved(j, "attaching") /\ RowPlain /\ PodPlain
      BY <1>1, <1>6, MovedTo, RowLeaves DEF ToRunning, podVars, PodPlain
  <2> QED
      BY <2>1, AsideKeeps DEF Moved, Launching
<1>7. ASSUME StartRefused(j) PROVE Tended'
    BY <1>7, SetupErrorKeeps DEF StartRefused, podVars
<1> QED
    BY <1>2, <1>3, <1>4, <1>5, <1>6, <1>7, LaunchKeeps, RecordKeeps DEF StartStep

LEMMA AttachKeeps ==
    ASSUME Inv, Tended, LaunchKept, NEW j \in Jobs, AttachStep(j)
    PROVE  Tended'
<1>1. TypeOK /\ job \in [Jobs -> Job] /\ run \in Row
    BY Typed DEF Inv, Inductive
<1>2. ASSUME AttachRead(j) PROVE Tended'
  <2>1. Moved(j, "reattach") /\ RowPlain /\ PodPlain
      BY <1>1, <1>2, MovedTo, RowStays DEF AttachRead, podVars, PodPlain
  <2> QED
      BY <2>1, AsideKeeps DEF Moved, Launching
<1>3. ASSUME AttachClaim(j) PROVE Tended'
  <2>1. Others(j) /\ job'[j].pc \in {"attached", "idle"}
    <3>1. CASE Claimable
      <4>1. job'[j] = [job[j] EXCEPT !.pc = "attached", !.agent = run.pid, !.pos = run.consumed]
            /\ Others(j)
          BY <1>1, <1>3, <3>1 DEF AttachClaim, Others
      <4>2. job[j] \in Job
          BY <1>1
      <4> QED
          BY <4>1, <4>2 DEF Job
    <3>2. CASE ~Claimable
        BY <1>1, <1>3, <3>2 DEF AttachClaim, Others, FreshJob
    <3> QED
        BY <3>1, <3>2
  <2>2. RowPlain /\ PodPlain
      BY <1>1, <1>3 DEF AttachClaim, Row, RowPlain, podVars, PodPlain
  <2> QED
      BY <2>1, <2>2, AsideKeeps DEF Launching
<1>4. ASSUME AttachPod(j) PROVE Tended'
  <2>1. Moved(j, "attaching") /\ RowPlain /\ PodPlain
      BY <1>1, <1>4, MovedTo, RowLeaves, RowStays DEF AttachPod, podVars, PodPlain
  <2> QED
      BY <2>1, AsideKeeps DEF Moved, Launching
<1>5. ASSUME AttachPodGone(j) PROVE Tended'
  <2>1. Moved(j, "settling") /\ RowPlain /\ PodPlain
      BY <1>1, <1>5, MovedTo, RowStays DEF AttachPodGone, podVars, PodPlain
  <2> QED
      BY <2>1, AsideKeeps DEF Moved, Launching
<1>6. ASSUME AttachRefused(j) PROVE Tended'
    BY <1>6, StreamTroubleKeeps DEF AttachRefused, podVars
<1> QED
    BY <1>2, <1>3, <1>4, <1>5, <1>6 DEF AttachStep

LEMMA StreamKeeps ==
    ASSUME Inv, Tended, LaunchKept, NEW j \in Jobs, StreamStep(j)
    PROVE  Tended'
<1>1. TypeOK /\ job \in [Jobs -> Job] /\ run \in Row
    BY Typed DEF Inv, Inductive
<1>2. ASSUME OpenStream(j) PROVE Tended'
  <2>1. (Moved(j, "ending") \/ Moved(j, "streaming")) /\ RowPlain /\ PodPlain
      BY <1>1, <1>2, MovedTo, RowStays DEF OpenStream, podVars, PodPlain
  <2> QED
      BY <2>1, AsideKeeps DEF Moved, Launching
<1>3. ASSUME Append(j) PROVE Tended'
  <2>1. Moved(j, "streaming")
      BY <1>3, AppendStores DEF Inv
  <2>2. RowPlain /\ PodPlain
    <3>1. PICK to : run' = [run EXCEPT !.consumed = to, !.failures = Progress(j)]
        BY <1>3 DEF Append
    <3> QED
        BY <1>1, <1>3, <3>1 DEF Append, Row, RowPlain, podVars, PodPlain
  <2> QED
      BY <2>1, <2>2, AsideKeeps DEF Moved, Launching
<1>4. ASSUME NoticeLoss(j) \/ Detach(j) PROVE Tended'
  <2>1. Moved(j, "ending") /\ RowPlain /\ PodPlain
      BY <1>1, <1>4, MovedTo, RowStays DEF NoticeLoss, Detach, podVars, PodPlain
  <2> QED
      BY <2>1, AsideKeeps DEF Moved, Launching
<1>5. ASSUME StreamEnds(j) PROVE Tended'
  <2>1. Moved(j, "settling") /\ RowPlain /\ PodPlain
      BY <1>1, <1>5, MovedTo, RowStays DEF StreamEnds, podVars, PodPlain
  <2> QED
      BY <2>1, AsideKeeps DEF Moved, Launching
<1> QED
    BY <1>2, <1>3, <1>4, <1>5 DEF StreamStep

LEMMA FinishKeeps ==
    ASSUME Inv, Tended, LaunchKept, NEW j \in Jobs, FinishStep(j)
    PROVE  Tended'
<1>1. TypeOK /\ job \in [Jobs -> Job] /\ run \in Row
    BY Typed DEF Inv, Inductive
<1>2. ASSUME Settle(j), ~SettleCas(j) PROVE Tended'
  <2>1. Moved(j, "check") \/ Moved(j, "deciding") \/ Moved(j, "ending")
      BY <1>1, <1>2, MovedTo DEF Settle
  <2>2. RowPlain /\ PodPlain
      BY <1>1, <1>2, RowStays DEF Settle, podVars, PodPlain
  <2> QED
      BY <2>1, <2>2, AsideKeeps DEF Moved, Launching
<1>3. ASSUME FinishCheck(j) PROVE Tended'
  <2>1. (Moved(j, "deciding") \/ Moved(j, "closing")) /\ RowPlain /\ PodPlain
      BY <1>1, <1>3, MovedTo, RowStays DEF FinishCheck, podVars, PodPlain
  <2> QED
      BY <2>1, AsideKeeps DEF Moved, Launching
<1>4. ASSUME Decide(j) PROVE Tended'
  <2>1. Moved(j, "tidying") \/ Moved(j, "closing")
      BY <1>1, <1>4, MovedTo DEF Decide
  <2>2. PICK s \in Verdicts(j) : MoveTo(s)
      BY <1>4 DEF Decide
  <2>3. s = "failed" \/ sup[run.pid] # "alive"
      BY <1>4 DEF Decide, Verdicts, At, Inv, InOrder, Fits, Whole
  <2>4. RowPlain /\ PodPlain
      BY <1>1, <1>4, <2>2, <2>3, RowLeaves DEF Decide, podVars, PodPlain
  <2> QED
      BY <2>1, <2>4, AsideKeeps DEF Moved, Launching
<1>5. ASSUME DecideRefused(j) PROVE Tended'
  <2>1. UNCHANGED <<kills, decision, sup>>
      BY <1>5 DEF DecideRefused, podVars
  <2>2. CASE StreamTrouble(j)
      BY <2>1, <2>2, StreamTroubleKeeps
  <2>3. CASE ToEnd(j, "none") /\ UNCHANGED run
    <3>1. Moved(j, "ending") /\ RowPlain /\ PodPlain
        BY <1>1, <2>1, <2>3, MovedTo, RowStays DEF PodPlain
    <3> QED
        BY <3>1, AsideKeeps DEF Moved, Launching
  <2> QED
      BY <1>5, <2>2, <2>3 DEF DecideRefused
<1>6. ASSUME FailRun(j) PROVE Tended'
  <2>1. Moved(j, "ending") /\ RowPlain /\ PodPlain
      BY <1>1, <1>6, MovedTo, RowLeaves, RowStays DEF FailRun, podVars, PodPlain
  <2> QED
      BY <2>1, AsideKeeps DEF Moved, Launching
<1>7. ASSUME Tidy(j) PROVE Tended'
  <2>1. Moved(j, "closing") /\ RowPlain /\ PodPlain
      BY <1>1, <1>7, MovedTo, RowStays DEF Tidy, PodPlain
  <2> QED
      BY <2>1, AsideKeeps DEF Moved, Launching
<1>8. ASSUME Close(j) PROVE Tended'
  <2>1. Moved(j, "ending") /\ RowPlain /\ PodPlain
      BY <1>1, <1>8, MovedTo DEF Close, Row, RowPlain, podVars, PodPlain
  <2> QED
      BY <2>1, AsideKeeps DEF Moved, Launching
<1>9. ASSUME EndRunJob(j) PROVE Tended'
  <2>1. kills \subseteq kills' /\ (run' = run \/ run' = [run EXCEPT !.lease = "expired"])
      BY <1>9 DEF EndRunJob
  <2>2. Moved(j, "done") /\ RowPlain /\ PodPlain
      BY <1>1, <1>9, <2>1, MovedTo, RowStays DEF EndRunJob, podVars, PodPlain
  <2> QED
      BY <2>2, AsideKeeps DEF Moved, Launching
<1> QED
    BY <1>2, <1>3, <1>4, <1>5, <1>6, <1>7, <1>8, <1>9, SettleKeeps DEF FinishStep

LEMMA TroubleKeeps ==
    ASSUME Inv, Tended, LaunchKept, NEW j \in Jobs, Trouble(j), Requeues => Clear'
    PROVE  Tended'
<1>1. TypeOK /\ job \in [Jobs -> Job] /\ run \in Row
    BY Typed DEF Inv, Inductive
<1>2. ASSUME SetupFails(j) PROVE Tended'
    BY <1>2, SetupErrorKeeps DEF SetupFails, podVars
<1>3. ASSUME StreamError(j) PROVE Tended'
    BY <1>3, StreamTroubleKeeps DEF StreamError, podVars
<1>4. ASSUME Drop(j) \/ Crash(j) PROVE Tended'
  <2>1. (Moved(j, "ending") \/ Moved(j, "dead")) /\ RowPlain /\ PodPlain
      BY <1>1, <1>4, MovedTo, RowStays DEF Drop, Crash, podVars, PodPlain
  <2> QED
      BY <2>1, AsideKeeps DEF Moved, Launching
<1>5. ASSUME Shutdown(j) PROVE Tended'
  <2>1. RowPlain /\ PodPlain
      BY <1>1, <1>5 DEF Shutdown, Row, RowPlain, podVars, PodPlain
  <2>2. Moved(j, job[j].pc)
      BY <1>1, <1>5, MovedTo DEF Shutdown
  <2> QED
      BY <2>1, <2>2, JobsMove, PlainKeeps DEF Moved, Plain, Inv
<1> QED
    BY <1>2, <1>3, <1>4, <1>5 DEF Trouble

LEMMA PodKeeps ==
    ASSUME Inv, Tended, LaunchKept, Pod
    PROVE  Tended'
<1>1. TypeOK /\ sup \in [Pids -> {"none", "alive", "exited", "dead"}]
    BY Typed DEF Inv, Inductive
<1>2. ASSUME NEW p \in Pids, AgentWrites(p) \/ AgentExits(p) PROVE Tended'
  <2>1. JobsPlain /\ RowPlain /\ PodPlain
      BY <1>1, <1>2, JobsStill, RowStays DEF AgentWrites, AgentExits, PodPlain
  <2> QED
      BY <2>1, PlainKeeps DEF Plain, Inv
<1>3. ASSUME PodDies PROVE Tended'
  <2>1. JobsPlain /\ RowPlain /\ PodPlain
      BY <1>1, <1>3, JobsStill, RowStays DEF PodDies, PodPlain
  <2> QED
      BY <2>1, PlainKeeps DEF Plain, Inv
<1> QED
    BY <1>2, <1>3, KillKeeps DEF Pod

LEMMA OtherKeeps ==
    ASSUME Inv, Tended, LaunchKept, Requeues => Clear',
           \/ \E j \in Jobs : Renew(j)
           \/ ExpireLease \/ Cancel \/ Retry \/ Redo
           \/ ReconcileReads \/ ReconcileActs
    PROVE  Tended'
<1>1. TypeOK /\ Inductive /\ JobsPlain /\ PodPlain /\ UNCHANGED sup
    BY JobsStill DEF Inv, Inductive, Renew, ExpireLease, Cancel, Retry, Redo, ReconcileReads,
           ReconcileActs, podVars, PodPlain
<1>2. ASSUME RowPlain PROVE Tended'
    BY <1>1, <1>2, PlainKeeps DEF Plain
<1>3. ASSUME NewAttempt, Requeues PROVE Tended'
    BY <1>1, <1>3, RequeueKeeps
<1>4. ASSUME NEW j \in Jobs, Renew(j) PROVE Tended'
    BY <1>1, <1>2, <1>4, RowStays DEF Renew
<1>5. ASSUME ExpireLease PROVE Tended'
    BY <1>1, <1>2, <1>5, RowStays DEF ExpireLease
<1>6. ASSUME Cancel PROVE Tended'
    BY <1>1, <1>2, <1>6, RowLeaves DEF Cancel
<1>7. ASSUME Retry PROVE Tended'
    BY <1>1, <1>3, <1>7, RequeueIsOne DEF Retry, Requeue
<1>8. ASSUME Redo PROVE Tended'
  <2>1. requests \in Nat
      BY <1>1, Parameters DEF TypeOK
  <2>2. Requeues
      BY <1>1, <1>8, <2>1, WipedRow DEF Redo, Request, Requeues
  <2> QED
      BY <1>3, <1>8, <2>2 DEF Redo
<1>9. ASSUME ReconcileReads PROVE Tended'
  <2>1. /\ UNCHANGED <<run, kills>> /\ decision = "none"
        /\ decision' = "attention" => run.state = "running" /\ run.exec = "none"
      BY <1>9 DEF ReconcileReads, Reads
  <2> QED
      BY <1>2, <2>1 DEF RowPlain
<1>10. ASSUME ReconcileActs PROVE Tended'
  <2>1. CASE Requeue
      BY <1>1, <1>3, <2>1, RequeueIsOne DEF Requeue
  <2>2. CASE MoveTo("failed")
      BY <1>1, <1>2, <2>2, RowLeaves
  <2>3. CASE decision = "attention" /\ MoveTo("needs_attention")
    <3>1. run.exec # "started"
        BY <2>3 DEF Tended
    <3> QED
        BY <1>1, <1>2, <2>3, <3>1, RowLeaves
  <2> QED
      BY <1>10, <2>1, <2>2, <2>3 DEF ReconcileActs
<1> QED
    BY <1>4, <1>5, <1>6, <1>7, <1>8, <1>9, <1>10

LEMMA TendedInit == Init => Tended
    BY DEF Init, Tended, FreshJob, Launching

LEMMA TendedStep ==
    Inv /\ Inv' /\ Tended /\ [Next]_vars /\ [Requeues => Clear']_vars /\ [LaunchKept]_vars => Tended'
<1> SUFFICES ASSUME Inv, Inv', Tended, [Next]_vars, [Requeues => Clear']_vars, [LaunchKept]_vars
             PROVE  Tended'
    OBVIOUS
<1>1. CASE UNCHANGED vars
  <2>1. UNCHANGED <<run, job, sup, kills, decision>>
      BY <1>1 DEF vars
  <2> QED
      BY <2>1 DEF Tended, Cared, At
<1>2. CASE ~UNCHANGED vars
  <2>1. Next /\ (Requeues => Clear') /\ LaunchKept
      BY <1>2
  <2> QED
      BY <2>1, StartKeeps, AttachKeeps, StreamKeeps, FinishKeeps, TroubleKeeps, PodKeeps,
         OtherKeeps DEF Next
<1> QED
    BY <1>1, <1>2

\* An agent that runs is always somebody's: in a run no requeue disturbs, the
\* only ways to lose one are to lose its job between the launch and the recorded
\* start, or the task's state before that.
THEOREM NoAgentIsOrphaned == Spec /\ UndisturbedRun /\ UndisturbedLaunch => []NoOrphan
<1>1. Inv /\ Tended => NoOrphan
  <2> SUFFICES ASSUME Inv, Tended, NEW p \in Pids, sup[p] = "alive"
               PROVE  \/ \E j \in Jobs : Alive(j) /\ p \in {job[j].started, job[j].agent}
                      \/ run.pid = p /\ run.exec = "started" /\ run.state \in Active
                      \/ p \in kills \/ 0 \in kills
      BY DEF NoOrphan
  <2>1. Cared(p)
      BY DEF Tended
  <2>2. \A j \in Jobs : At(j, "launched") => Alive(j)
      BY DEF At, Alive
  <2> QED
      BY <2>1, <2>2 DEF Cared
<1>2. Inv /\ Inv' /\ Tended /\ [Next]_vars /\ [Requeues => Clear']_vars /\ [LaunchKept]_vars => Tended'
    BY TendedStep
<1> QED
    BY <1>1, <1>2, TendedInit, InvHolds, PTL DEF Spec, UndisturbedRun, UndisturbedLaunch
=============================================================================
