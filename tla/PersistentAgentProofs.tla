----------------------- MODULE PersistentAgentProofs -----------------------
(***************************************************************************)
(* The type of PersistentAgent's state and the safety of its inbox, for    *)
(* any messages, jobs, passes and turns, and whatever users and faults do. *)
(***************************************************************************)
EXTENDS PersistentAgent, FiniteSetTheorems, WellFoundedInduction, TLAPS

\* DOMAIN NextStates, spelt out.
LEMMA StatesAre ==
    States = {"idle", "queued", "provisioning", "running", "paused", "failed", "archived"}
    BY DEF States, NextStates

Started == {"started", "exited"}

\* Where a job has a turn of its own.
Holding == {"acquiring", "starting", "recording", "recorded", "beginning", "toRunning",
            "streaming", "halting", "looking", "moving"}

\* A job holds a turn that was created; it drains messages into a started one.
Fits(j) ==
    /\ job[j].pc \in Holding => job[j].turn \in Created
    /\ job[j].pc \in {"attach", "attaching"} => job[j].turn \in Turns
    /\ job[j].pc = "recorded" => turn[job[j].turn].exec \in Started

\* Turns are numbered as they are created, so none is created over another.
InOrder == \E n \in Nat : Created = 1 .. n

Safe == (\A j \in Jobs : Fits(j)) /\ InOrder /\ NothingLost

-----------------------------------------------------------------------------
(* What steps do to the parts of the state.                                 *)

RowOK  == agent \in Agent /\ fresh \subseteq Jobs \cup Passes
JobsOK == job \in [Jobs -> Job] /\ \A j \in Jobs : job[j].pc = "idle" => job[j] = NoOne
PassOK == pass \in [Passes -> Decision]

\* Turns keep what they were told, and no turn that started is unstarted.
TurnsKept ==
    /\ turn' \in [Turns -> Turn]
    /\ \A t \in Turns : /\ turn'[t].msgs = turn[t].msgs
                        /\ \/ turn'[t].exec = turn[t].exec
                           \/ t \in Created /\ turn'[t].exec \in Started

LEMMA SameTurns ==
    ASSUME TypeOK, UNCHANGED turn
    PROVE  TurnsKept
    BY DEF TypeOK, TurnsKept

LEMMA CreatedKept ==
    ASSUME TurnsKept
    PROVE  Created' = Created
    BY DEF TurnsKept, Created, Started

LEMMA Keeps ==
    ASSUME TypeOK, Safe, TurnsKept, UNCHANGED into,
           \A j \in Jobs : job'[j] = job[j] \/ Fits(j)'
    PROVE  Safe'
<1>1. Created' = Created
    BY CreatedKept
<1>2. \A t \in Turns : turn[t].exec \in Started => turn'[t].exec \in Started
    BY DEF TurnsKept
<1>3. Created \subseteq Turns
    BY DEF Created
<1>4. ASSUME NEW j \in Jobs PROVE Fits(j)'
  <2>1. CASE job'[j] = job[j]
      BY <1>1, <1>2, <1>3, <2>1 DEF Safe, Fits, Holding
  <2> QED
      BY <2>1
<1>5. InOrder'
    BY <1>1 DEF Safe, InOrder
<1>6. NothingLost'
  <2> SUFFICES ASSUME NEW m \in Messages, into[m] > 0
               PROVE  m \in turn'[into[m]].msgs /\ turn'[into[m]].exec \in Started
      BY DEF NothingLost, Started
  <2>1. into[m] \in Turns
      BY Parameters DEF TypeOK, Turns
  <2>2. m \in turn[into[m]].msgs /\ turn[into[m]].exec \in Started
      BY DEF Safe, NothingLost, Started
  <2> QED
      BY <1>2, <2>1, <2>2 DEF TurnsKept
<1> QED
    BY <1>4, <1>5, <1>6 DEF Safe

LEMMA KeepsJobs ==
    ASSUME TypeOK, Safe, TurnsKept, UNCHANGED <<into, job>>
    PROVE  Safe'
    BY Keeps

LEMMA WriteAgentType ==
    ASSUME NEW a \in Agent, WriteAgent(a)
    PROVE  RowOK'
    BY DEF WriteAgent, RowOK

LEMMA RowType ==
    ASSUME TypeOK, UNCHANGED agent,
           fresh' = fresh \/ \E x \in Jobs \cup Passes : fresh' = fresh \cup {x}
    PROVE  RowOK'
    BY DEF TypeOK, RowOK

LEMMA GotoType ==
    ASSUME TypeOK, NEW j \in Jobs,
           NEW pc \in Holding \cup {"claiming", "claimed", "attaching"}, Goto(j, pc)
    PROVE  /\ JobsOK'
           /\ job'[j].pc = pc /\ job'[j].turn = job[j].turn
           /\ \A k \in Jobs \ {j} : job'[k] = job[k]
<1>1. [job[j] EXCEPT !.pc = pc] \in Job
    BY DEF TypeOK, Job, Holding
<1>2. job' = [job EXCEPT ![j] = [job[j] EXCEPT !.pc = pc]]
    BY DEF Goto
<1>3. [job[j] EXCEPT !.pc = pc].pc = pc /\ [job[j] EXCEPT !.pc = pc].turn = job[j].turn
    BY DEF TypeOK, Job
<1>4. pc # "idle"
    BY DEF Holding
<1> QED
    BY <1>1, <1>2, <1>3, <1>4 DEF TypeOK, JobsOK

LEMMA NoOneType == NoOne \in Job /\ NoOne.pc = "idle"
    BY Parameters DEF NoOne, Job

LEMMA LeaveType ==
    ASSUME TypeOK, NEW j \in Jobs, Leave(j)
    PROVE  JobsOK' /\ \A k \in Jobs : job'[k] = job[k] \/ Fits(k)'
<1>1. JobsOK'
    BY NoOneType DEF TypeOK, Leave, JobsOK
<1>2. \A k \in Jobs : job'[k] = (IF k = j THEN NoOne ELSE job[k])
    BY DEF TypeOK, Leave
<1>3. job'[j].pc = "idle"
    BY <1>2, NoOneType
<1>4. Fits(j)'
    BY <1>3 DEF Fits, Holding
<1> QED
    BY <1>1, <1>2, <1>4

\* A job goes on with its turn.
LEMMA GoesOn ==
    ASSUME TypeOK, Safe, TurnsKept, NEW j \in Jobs,
           NEW pc \in (Holding \cup {"claiming", "claimed"}) \ {"recorded"},
           job[j].pc \in Holding \/ pc \notin Holding, Goto(j, pc)
    PROVE  JobsOK' /\ \A k \in Jobs : job'[k] = job[k] \/ Fits(k)'
<1>1. JobsOK' /\ job'[j].pc = pc /\ job'[j].turn = job[j].turn
      /\ \A k \in Jobs \ {j} : job'[k] = job[k]
    BY GotoType
<1>2. job[j].pc \in Holding => job[j].turn \in Created'
    BY CreatedKept DEF Safe, Fits
<1>3. Fits(j)'
    BY <1>1, <1>2 DEF Fits, Holding
<1> QED
    BY <1>1, <1>3

LEMMA FaultType ==
    ASSUME TypeOK, NEW kind, Fault(kind)
    PROVE  faults' \in 0 .. MaxFaults
<1>1. faults \in 0 .. MaxFaults
    BY DEF TypeOK
<1>2. MaxFaults \in Nat
    BY Parameters
<1> QED
    BY <1>1, <1>2 DEF Fault

\* The parts, put together.
LEMMA Parts ==
    ASSUME TypeOK, RowOK', JobsOK', PassOK', turn' \in [Turns -> Turn],
           into' \in [Messages -> -1 .. MaxTurns], pod' \in {"none", "ready"},
           reaping' \in BOOLEAN, faults' \in 0 .. MaxFaults, intents' \in 0 .. MaxIntents
    PROVE  TypeOK'
    BY DEF TypeOK, RowOK, JobsOK, PassOK

LEMMA Whole ==
    ASSUME TypeOK
    PROVE  /\ RowOK /\ JobsOK /\ PassOK /\ turn \in [Turns -> Turn]
           /\ into \in [Messages -> -1 .. MaxTurns] /\ pod \in {"none", "ready"}
           /\ reaping \in BOOLEAN /\ faults \in 0 .. MaxFaults /\ intents \in 0 .. MaxIntents
    BY DEF TypeOK, RowOK, JobsOK, PassOK

\* What a job's step leaves alone.
Aside ==
    /\ UNCHANGED <<pass, reaping, intents>>
    /\ pod' \in {"none", "ready"} /\ faults' \in 0 .. MaxFaults

LEMMA Quiet ==
    ASSUME TypeOK, UNCHANGED <<pass, pod, reaping, budgets>>
    PROVE  Aside
    BY Whole DEF Aside, budgets

LEMMA JobStep ==
    ASSUME TypeOK, Safe, RowOK', TurnsKept, JobsOK', UNCHANGED into, Aside,
           \A k \in Jobs : job'[k] = job[k] \/ Fits(k)'
    PROVE  TypeOK' /\ Safe'
<1>1. Safe'
    BY Keeps
<1>2. PassOK' /\ into' \in [Messages -> -1 .. MaxTurns] /\ reaping' \in BOOLEAN
      /\ intents' \in 0 .. MaxIntents
    BY Whole DEF Aside, PassOK
<1>3. turn' \in [Turns -> Turn]
    BY DEF TurnsKept
<1> QED
    BY <1>1, <1>2, <1>3, Parts DEF Aside

-----------------------------------------------------------------------------
(* The job that starts a turn.                                              *)

LEMMA ClaimStep ==
    ASSUME TypeOK, Safe, NEW j \in Jobs, Look(j) \/ Claim(j) \/ AttachTurn(j)
    PROVE  TypeOK' /\ Safe'
<1>1. TurnsKept /\ UNCHANGED into /\ Aside
    BY SameTurns, Quiet DEF Look, Claim, AttachTurn
<1>2. CASE Leave(j) /\ UNCHANGED <<agent, fresh>>
    BY <1>1, <1>2, LeaveType, RowType, JobStep
<1>3. CASE Look(j)
  <2>1. /\ UNCHANGED agent
        /\ \/ Leave(j) /\ UNCHANGED fresh
           \/ Goto(j, "claiming") /\ fresh' = fresh \cup {j}
    <3>1. CASE agent.state = "queued"
        BY <1>3, <3>1 DEF Look
    <3>2. CASE agent.state # "queued"
        BY <1>3, <3>2 DEF Look
    <3> QED
        BY <3>1, <3>2
  <2>2. RowOK'
      BY <2>1, RowType
  <2>3. ASSUME Goto(j, "claiming") PROVE JobsOK' /\ \A k \in Jobs : job'[k] = job[k] \/ Fits(k)'
      BY <1>1, <2>3, GoesOn DEF Holding
  <2> QED
      BY <1>1, <2>1, <2>2, <2>3, LeaveType, JobStep
<1>4. CASE Claim(j)
  <2>1. [agent EXCEPT !.state = "provisioning"] \in Agent
      BY StatesAre DEF TypeOK, Agent
  <2>2. RowOK'
      BY <1>4, <2>1, WriteAgentType, Whole DEF Claim, RowOK
  <2>3. ASSUME Goto(j, "claimed") PROVE JobsOK' /\ \A k \in Jobs : job'[k] = job[k] \/ Fits(k)'
      BY <1>1, <2>3, GoesOn DEF Holding
  <2> QED
      BY <1>1, <1>4, <2>2, <2>3, LeaveType, JobStep DEF Claim
<1>5. CASE AttachTurn(j)
  <2>1. RowOK'
      BY <1>5, RowType DEF AttachTurn
  <2>2. ASSUME Goto(j, "attaching") PROVE JobsOK' /\ \A k \in Jobs : job'[k] = job[k] \/ Fits(k)'
    <3>1. job[j].turn \in Turns
        BY <1>5 DEF AttachTurn, At, Safe, Fits
    <3>2. JobsOK' /\ job'[j].pc = "attaching" /\ job'[j].turn = job[j].turn
          /\ \A k \in Jobs \ {j} : job'[k] = job[k]
        BY <2>2, GotoType
    <3>3. Fits(j)'
        BY <3>1, <3>2 DEF Fits, Holding, Turns
    <3> QED
        BY <3>2, <3>3
  <2> QED
      BY <1>1, <1>5, <2>1, <2>2, LeaveType, JobStep DEF AttachTurn
<1> QED
    BY <1>3, <1>4, <1>5

\* The new turn is the next number: no turn loses its messages to it.
LEMMA CreateStep ==
    ASSUME TypeOK, Safe, NEW j \in Jobs, CreateTurn(j)
    PROVE  TypeOK' /\ Safe'
<1>1. PICK n \in Nat : Created = 1 .. n
    BY DEF Safe, InOrder
<1>2. Cardinality(Created) = n
    BY <1>1, FS_Interval
<1> DEFINE t   == n + 1
           row == [exec |-> "none", open |-> TRUE, by |-> j, live |-> TRUE,
                   msgs |-> Pendings, proc |-> "none"]
           J   == [job[j] EXCEPT !.pc = "acquiring", !.turn = t]
<1>3. turn' = [turn EXCEPT ![t] = row] /\ job' = [job EXCEPT ![j] = J] /\ n < MaxTurns
    BY <1>2 DEF CreateTurn
<1>4. t \in Turns /\ MaxTurns \in Nat
    BY <1>3, Parameters DEF Turns
<1>5. row \in Turn
  <2>1. Pendings \in SUBSET Messages
      BY DEF Pendings
  <2> HIDE DEF Pendings
  <2> QED
      BY <2>1 DEF Turn
<1>6. J \in Job /\ J.pc = "acquiring" /\ J.turn = t
  <2>1. t \in 0 .. MaxTurns /\ job[j] \in Job
      BY <1>4 DEF TypeOK, Turns
  <2> HIDE DEF t
  <2> QED
      BY <2>1 DEF Job
<1> HIDE DEF row, J
<1>7. turn' \in [Turns -> Turn] /\ turn'[t] = row /\ \A u \in Turns \ {t} : turn'[u] = turn[u]
    BY <1>3, <1>4, <1>5 DEF TypeOK
<1>8. JobsOK' /\ job'[j] = J /\ \A k \in Jobs \ {j} : job'[k] = job[k]
    BY <1>3, <1>6 DEF TypeOK, JobsOK
<1>9. Created' = Created \cup {t} /\ t \notin Created
    BY <1>1, <1>4, <1>7 DEF Created, row
<1>10. ASSUME NEW k \in Jobs PROVE Fits(k)'
  <2>1. CASE k = j
      BY <1>6, <1>8, <1>9, <2>1 DEF Fits, Holding
  <2>2. CASE k # j
    <3>1. job'[k] = job[k] /\ Fits(k)
        BY <1>8, <2>2 DEF Safe
    <3>2. CASE job[k].pc \in Holding
      <4>1. job[k].turn \in Created /\ job[k].turn \in Turns \ {t}
          BY <1>9, <3>1, <3>2 DEF Fits, Created
      <4> QED
          BY <1>7, <1>9, <3>1, <3>2, <4>1 DEF Fits, Holding
    <3>3. CASE job[k].pc \notin Holding
        BY <3>1, <3>3 DEF Fits, Holding, Turns
    <3> QED
        BY <3>2, <3>3
  <2> QED
      BY <2>1, <2>2
<1>11. InOrder'
  <2>1. Created' = 1 .. t
      BY <1>1, <1>9
  <2> QED
      BY <2>1 DEF InOrder
<1>12. NothingLost'
  <2> SUFFICES ASSUME NEW m \in Messages, into[m] > 0
               PROVE  m \in turn'[into[m]].msgs /\ turn'[into[m]].exec \in Started
      BY DEF NothingLost, Started, CreateTurn
  <2>1. into[m] \in Turns /\ m \in turn[into[m]].msgs /\ turn[into[m]].exec \in Started
      BY <1>4 DEF TypeOK, Turns, Safe, NothingLost, Started
  <2>2. into[m] \in Created
      BY <2>1 DEF Created, Started
  <2> QED
      BY <1>7, <1>9, <2>1, <2>2
<1>13. RowOK' /\ Aside
    BY RowType, Quiet DEF CreateTurn
<1>14. PassOK' /\ into' \in [Messages -> -1 .. MaxTurns] /\ reaping' \in BOOLEAN
       /\ intents' \in 0 .. MaxIntents
    BY <1>13, Whole DEF Aside, PassOK, CreateTurn
<1> QED
    BY <1>7, <1>8, <1>10, <1>11, <1>12, <1>13, <1>14, Parts DEF Safe, Aside

\* A turn's row, with some columns written.
LEMMA TurnWrite ==
    ASSUME TypeOK, NEW t, NEW row \in Turn, turn' = [turn EXCEPT ![t] = row],
           t \in Turns => /\ row.msgs = turn[t].msgs
                          /\ row.exec = turn[t].exec \/ (t \in Created /\ row.exec \in Started)
    PROVE  TurnsKept
    BY DEF TypeOK, TurnsKept

\* A turn whose lease or openness is written keeps its messages and execution.
LEMMA TurnColumns ==
    ASSUME TypeOK, NEW t \in Turns, NEW b \in BOOLEAN
    PROVE  /\ [turn[t] EXCEPT !.live = b] \in Turn
           /\ [turn[t] EXCEPT !.live = b].msgs = turn[t].msgs
           /\ [turn[t] EXCEPT !.live = b].exec = turn[t].exec
           /\ [turn[t] EXCEPT !.open = b] \in Turn
           /\ [turn[t] EXCEPT !.open = b].msgs = turn[t].msgs
           /\ [turn[t] EXCEPT !.open = b].exec = turn[t].exec
<1>1. turn[t] \in Turn
    BY DEF TypeOK
<1> QED
    BY <1>1 DEF Turn

LEMMA StoppedKept ==
    ASSUME TypeOK, NEW ts, turn' = Stopped(ts)
    PROVE  TurnsKept
<1>1. \A t \in Turns : [turn[t] EXCEPT !.proc = "bad"] \in Turn
                       /\ [turn[t] EXCEPT !.proc = "bad"].msgs = turn[t].msgs
                       /\ [turn[t] EXCEPT !.proc = "bad"].exec = turn[t].exec
    BY DEF TypeOK, Turn
<1> QED
    BY <1>1 DEF TypeOK, TurnsKept, Stopped

LEMMA SetupStep ==
    ASSUME TypeOK, Safe, NEW j \in Jobs,
           AcquirePod(j) \/ LaunchAgent(j) \/ PodMissing(j) \/ SetupFails(j) \/ RecordStarted(j)
    PROVE  TypeOK' /\ Safe'
<1>1. job[j].pc \in Holding /\ job[j].turn \in Created /\ job[j].turn \in Turns
    BY DEF AcquirePod, LaunchAgent, PodMissing, SetupFails, RecordStarted, At, Safe, Fits, Holding, Created
<1>2. CASE AcquirePod(j)
  <2>1. RowOK'
      BY <1>2, WriteAgentType, Whole DEF AcquirePod, RowOK
  <2>2. TurnsKept /\ UNCHANGED into /\ Aside
      BY <1>2, SameTurns, Whole DEF AcquirePod, Aside, budgets
  <2> QED
      BY <1>1, <1>2, <2>1, <2>2, GoesOn, JobStep DEF AcquirePod, Holding
<1>3. CASE LaunchAgent(j)
  <2>1. [turn[job[j].turn] EXCEPT !.proc = "up"].msgs = turn[job[j].turn].msgs
        /\ [turn[job[j].turn] EXCEPT !.proc = "up"].exec = turn[job[j].turn].exec
        /\ [turn[job[j].turn] EXCEPT !.proc = "up"] \in Turn
      BY <1>1 DEF TypeOK, Turn
  <2>2. turn' = [turn EXCEPT ![job[j].turn] = [turn[job[j].turn] EXCEPT !.proc = "up"]]
      BY <1>3 DEF LaunchAgent
  <2>3. TurnsKept
      BY <2>1, <2>2, TurnWrite
  <2> DEFINE J == [job[j] EXCEPT !.pc = "recording", !.attempted = TRUE]
  <2>4. J \in Job /\ J.pc = "recording" /\ J.turn = job[j].turn /\ job' = [job EXCEPT ![j] = J]
      BY <1>3 DEF TypeOK, Job, LaunchAgent
  <2>5. JobsOK' /\ \A k \in Jobs : job'[k] = job[k] \/ Fits(k)'
    <3> HIDE DEF J
    <3>1. JobsOK' /\ job'[j] = J /\ \A k \in Jobs \ {j} : job'[k] = job[k]
        BY <2>4 DEF TypeOK, JobsOK
    <3>2. Fits(j)'
        BY <1>1, <2>3, <2>4, <3>1, CreatedKept DEF Fits, Holding
    <3> QED
        BY <3>1, <3>2
  <2> QED
      BY <1>3, <2>3, <2>5, RowType, Quiet, JobStep DEF LaunchAgent
<1>4. CASE PodMissing(j) \/ SetupFails(j)
  <2> DEFINE J == [job[j] EXCEPT !.pc = "halting", !.verdict = "error", !.attempted = At(j, "starting")]
  <2>1. At(j, "starting") \in BOOLEAN /\ SetupError(j)
      BY <1>4 DEF At, PodMissing, SetupFails
  <2>2. J \in Job /\ J.pc = "halting" /\ J.turn = job[j].turn /\ job' = [job EXCEPT ![j] = J]
      BY <2>1 DEF TypeOK, Job, SetupError
  <2>3. TurnsKept /\ RowOK' /\ UNCHANGED into
      BY <2>1, SameTurns, RowType DEF SetupError
  <2>4. Aside
      BY <1>4, <2>1, FaultType, Whole DEF SetupError, SetupFails, PodMissing, Aside
  <2> HIDE DEF J
  <2>5. JobsOK' /\ job'[j] = J /\ \A k \in Jobs \ {j} : job'[k] = job[k]
      BY <2>2 DEF TypeOK, JobsOK
  <2>6. Fits(j)'
      BY <1>1, <2>2, <2>3, <2>5, CreatedKept DEF Fits, Holding
  <2> QED
      BY <2>3, <2>4, <2>5, <2>6, JobStep
<1>5. CASE RecordStarted(j)
  <2> DEFINE row == [turn[job[j].turn] EXCEPT !.exec = "started", !.live = TRUE]
  <2>1. turn' = [turn EXCEPT ![job[j].turn] = row] /\ row \in Turn
        /\ row.msgs = turn[job[j].turn].msgs /\ row.exec \in Started
    <3>1. turn[job[j].turn] \in Turn /\ turn \in [Turns -> Turn]
        BY <1>1 DEF TypeOK
    <3>2. turn' = [turn EXCEPT ![job[j].turn] = row]
        BY <1>1, <1>5, <3>1 DEF RecordStarted
    <3>3. row \in Turn /\ row.msgs = turn[job[j].turn].msgs /\ row.exec \in Started
        BY <3>1 DEF Turn, Started
    <3> QED
        BY <3>2, <3>3
  <2> HIDE DEF row
  <2>2. TurnsKept /\ turn'[job[j].turn].exec \in Started
      BY <1>1, <2>1, TurnWrite DEF TypeOK
  <2>3. JobsOK' /\ job'[j].pc = "recorded" /\ job'[j].turn = job[j].turn
        /\ \A k \in Jobs \ {j} : job'[k] = job[k]
      BY <1>5, GotoType DEF RecordStarted, Holding
  <2>4. Fits(j)'
      BY <1>1, <2>2, <2>3, CreatedKept DEF Fits
  <2> QED
      BY <1>5, <2>2, <2>3, <2>4, RowType, Quiet, JobStep DEF RecordStarted
<1> QED
    BY <1>2, <1>3, <1>4, <1>5

-----------------------------------------------------------------------------
(* A started turn.                                                          *)

\* A message that leaves the inbox is one of the turn's own, and the turn's
\* agent was started.
LEMMA DrainStep ==
    ASSUME TypeOK, Safe, NEW j \in Jobs, Drain(j)
    PROVE  TypeOK' /\ Safe'
<1> DEFINE t == job[j].turn
<1>1. job[j].pc \in Holding /\ t \in Created /\ t \in Turns /\ turn[t].exec \in Started
    BY DEF Drain, At, Safe, Fits, Holding, Created
<1>2. TurnsKept /\ RowOK' /\ Aside /\ UNCHANGED turn
    BY SameTurns, RowType, Quiet DEF Drain
<1>3. JobsOK' /\ \A k \in Jobs : job'[k] = job[k] \/ Fits(k)'
    BY <1>1, <1>2, GoesOn DEF Drain, Holding
<1>4. \A m \in Messages : into'[m] = (IF m \in turn[t].msgs THEN t ELSE into[m])
    BY DEF Drain, TakenBy
<1>5. into' \in [Messages -> -1 .. MaxTurns]
  <2>1. t \in -1 .. MaxTurns
      BY <1>1, Parameters DEF Turns
  <2>2. \A m \in Messages : into[m] \in -1 .. MaxTurns
      BY DEF TypeOK
  <2> QED
      BY <2>1, <2>2 DEF Drain, TakenBy
<1>6. NothingLost'
  <2> SUFFICES ASSUME NEW m \in Messages, into'[m] > 0
               PROVE  m \in turn[into'[m]].msgs /\ turn[into'[m]].exec \in Started
      BY <1>2 DEF NothingLost, Started
  <2> QED
      BY <1>1, <1>4 DEF Safe, NothingLost, Started
<1>7. (\A k \in Jobs : Fits(k)') /\ InOrder'
  <2>1. Created' = Created
      BY <1>2, CreatedKept
  <2>2. \A k \in Jobs : Fits(k)'
      BY <1>2, <1>3, <2>1 DEF Safe, Fits
  <2> QED
      BY <2>1, <2>2 DEF Safe, InOrder
<1>8. PassOK' /\ reaping' \in BOOLEAN /\ intents' \in 0 .. MaxIntents /\ turn' \in [Turns -> Turn]
    BY <1>2, Whole DEF Aside, PassOK, TurnsKept
<1> QED
    BY <1>2, <1>3, <1>5, <1>6, <1>7, <1>8, Parts DEF Safe, Aside

LEMMA RunStep ==
    ASSUME TypeOK, Safe, NEW j \in Jobs,
           BeginTurn(j) \/ ToRunning(j) \/ StreamTaken(j) \/ Halt(j) \/ ReadAfter(j)
    PROVE  TypeOK' /\ Safe'
<1> DEFINE t == job[j].turn
<1>1. job[j].pc \in Holding /\ t \in Created /\ t \in Turns
    BY DEF BeginTurn, ToRunning, StreamTaken, Halt, ReadAfter, At, Safe, Fits, Holding, Created
<1>2. UNCHANGED into /\ Aside
    BY Quiet DEF BeginTurn, ToRunning, StreamTaken, Halt, ReadAfter
<1>3. CASE BeginTurn(j)
  <2>1. TurnsKept /\ RowOK'
      BY <1>3, SameTurns, RowType DEF BeginTurn
  <2>2. Goto(j, "toRunning") \/ Goto(j, "streaming")
      BY <1>3 DEF BeginTurn
  <2>3. JobsOK' /\ \A k \in Jobs : job'[k] = job[k] \/ Fits(k)'
      BY <1>1, <2>1, <2>2, GoesOn DEF Holding
  <2> QED
      BY <1>2, <2>1, <2>3, JobStep
<1>4. CASE ToRunning(j)
  <2>1. CASE agent.state = "provisioning"
    <3>1. [agent EXCEPT !.state = "running"] \in Agent
        BY StatesAre DEF TypeOK, Agent
    <3>2. RowOK' /\ TurnsKept
        BY <1>4, <2>1, <3>1, WriteAgentType, RowType, SameTurns DEF ToRunning
    <3>3. JobsOK' /\ \A k \in Jobs : job'[k] = job[k] \/ Fits(k)'
        BY <1>1, <1>4, <2>1, <3>2, GoesOn DEF ToRunning, Holding
    <3> QED
        BY <1>2, <3>2, <3>3, JobStep
  <2>2. CASE agent.state # "provisioning" /\ job[j].origin = "start"
    <3> DEFINE J == [job[j] EXCEPT !.pc = "halting", !.verdict = "error"]
    <3>1. J \in Job /\ J.pc = "halting" /\ J.turn = t /\ job' = [job EXCEPT ![j] = J]
        BY <1>4, <2>2 DEF TypeOK, Job, ToRunning
    <3>2. TurnsKept /\ RowOK'
        BY <1>4, <2>2, SameTurns, RowType DEF ToRunning
    <3> HIDE DEF J
    <3>3. JobsOK' /\ job'[j] = J /\ \A k \in Jobs \ {j} : job'[k] = job[k]
        BY <3>1 DEF TypeOK, JobsOK
    <3>4. Fits(j)'
        BY <1>1, <3>1, <3>2, <3>3, CreatedKept DEF Fits, Holding
    <3> QED
        BY <1>2, <3>2, <3>3, <3>4, JobStep
  <2>3. CASE agent.state # "provisioning" /\ job[j].origin # "start"
    <3> DEFINE row == [turn[t] EXCEPT !.live = FALSE]
    <3>1. row \in Turn /\ row.msgs = turn[t].msgs /\ row.exec = turn[t].exec
        BY <1>1, TurnColumns
    <3>2. turn' = [turn EXCEPT ![t] = row] /\ Leave(j) /\ UNCHANGED <<agent, fresh>>
        BY <1>4, <2>3 DEF ToRunning
    <3> HIDE DEF row
    <3>3. TurnsKept
        BY <3>1, <3>2, TurnWrite
    <3> QED
        BY <1>2, <3>2, <3>3, LeaveType, RowType, JobStep
  <2> QED
      BY <2>1, <2>2, <2>3
<1>5. CASE StreamTaken(j)
    BY <1>2, <1>5, LeaveType, SameTurns, RowType, JobStep DEF StreamTaken
<1>6. CASE Halt(j)
  <2> DEFINE row == [turn[t] EXCEPT !.open = FALSE]
  <2>1. row \in Turn /\ row.msgs = turn[t].msgs /\ row.exec = turn[t].exec
      BY <1>1, TurnColumns
  <2>2. turn' = [turn EXCEPT ![t] = row] /\ Goto(j, "looking")
      BY <1>6 DEF Halt
  <2> HIDE DEF row
  <2>3. TurnsKept /\ RowOK'
      BY <1>6, <2>1, <2>2, TurnWrite, RowType DEF Halt
  <2>4. JobsOK' /\ \A k \in Jobs : job'[k] = job[k] \/ Fits(k)'
      BY <1>1, <2>2, <2>3, GoesOn DEF Holding
  <2> QED
      BY <1>2, <2>3, <2>4, JobStep
<1>7. CASE ReadAfter(j)
  <2>1. TurnsKept /\ RowOK' /\ Goto(j, "moving")
      BY <1>7, SameTurns, RowType DEF ReadAfter
  <2>2. JobsOK' /\ \A k \in Jobs : job'[k] = job[k] \/ Fits(k)'
      BY <1>1, <2>1, GoesOn DEF Holding
  <2> QED
      BY <1>2, <2>1, <2>2, JobStep
<1> QED
    BY <1>3, <1>4, <1>5, <1>6, <1>7

\* A job that goes on to halt its turn, with a verdict.
LEMMA Halts ==
    ASSUME TypeOK, NEW j \in Jobs, NEW v \in {"ok", "bad", "lost", "gone", "error"},
           job' = [job EXCEPT ![j].pc = "halting", ![j].verdict = v],
           TurnsKept, job[j].turn \in Created
    PROVE  JobsOK' /\ \A k \in Jobs : job'[k] = job[k] \/ Fits(k)'
<1> DEFINE J == [job[j] EXCEPT !.pc = "halting", !.verdict = v]
<1>1. J \in Job /\ J.pc = "halting" /\ J.turn = job[j].turn /\ job' = [job EXCEPT ![j] = J]
    BY DEF TypeOK, Job
<1> HIDE DEF J
<1>2. JobsOK' /\ job'[j] = J /\ \A k \in Jobs \ {j} : job'[k] = job[k]
    BY <1>1 DEF TypeOK, JobsOK
<1>3. Fits(j)'
    BY <1>1, <1>2, CreatedKept DEF Fits, Holding
<1> QED
    BY <1>2, <1>3

LEMMA StreamStep ==
    ASSUME TypeOK, Safe, NEW j \in Jobs, StreamEnds(j) \/ StreamTrouble(j)
    PROVE  TypeOK' /\ Safe'
<1> DEFINE t == job[j].turn
<1>1. t \in Created /\ t \in Turns
    BY DEF StreamEnds, StreamTrouble, At, Safe, Fits, Holding, Created
<1>2. UNCHANGED into /\ RowOK'
    BY RowType DEF StreamEnds, StreamTrouble
<1>3. CASE StreamEnds(j)
  <2> DEFINE row == [turn[t] EXCEPT !.exec = "exited"]
  <2>1. row \in Turn /\ row.msgs = turn[t].msgs /\ row.exec \in Started
      BY <1>1 DEF TypeOK, Turn, Started
  <2>2. turn' = [turn EXCEPT ![t] = row]
      BY <1>3 DEF StreamEnds
  <2> HIDE DEF row
  <2>3. TurnsKept
      BY <1>1, <2>1, <2>2, TurnWrite
  <2>4. JobsOK' /\ \A k \in Jobs : job'[k] = job[k] \/ Fits(k)'
      BY <1>1, <1>3, <2>3, Halts DEF StreamEnds
  <2> QED
      BY <1>2, <1>3, <2>3, <2>4, Quiet, JobStep DEF StreamEnds
<1>4. CASE StreamTrouble(j)
  <2>1. Aside
      BY <1>4, FaultType, Whole DEF StreamTrouble, Aside
  <2>2. CASE Leave(j) /\ turn' = IF turn[t].by = j THEN [turn EXCEPT ![t].live = FALSE] ELSE turn
    <3>1. [turn[t] EXCEPT !.live = FALSE] \in Turn
          /\ [turn[t] EXCEPT !.live = FALSE].msgs = turn[t].msgs
          /\ [turn[t] EXCEPT !.live = FALSE].exec = turn[t].exec
        BY <1>1, TurnColumns
    <3>2. turn' = turn \/ turn' = [turn EXCEPT ![t] = [turn[t] EXCEPT !.live = FALSE]]
        BY <2>2
    <3>3. TurnsKept
        BY <3>1, <3>2, TurnWrite, SameTurns
    <3> QED
        BY <1>2, <2>1, <2>2, <3>3, LeaveType, JobStep
  <2>3. CASE /\ job' = [job EXCEPT ![j].pc = "halting", ![j].verdict = "gone"]
             /\ turn' = Stopped({t})
      BY <1>1, <1>2, <2>1, <2>3, StoppedKept, Halts, JobStep
  <2> QED
      BY <1>4, <2>2, <2>3 DEF StreamTrouble
<1> QED
    BY <1>3, <1>4

LEMMA TargetType ==
    ASSUME TypeOK, NEW j, NEW a \in Target(j)
    PROVE  a \in Agent
<1>1. agent \in Agent /\ agent.failures + 1 \in Nat
    BY DEF TypeOK, Agent
<1>2. \A to \in {"idle", "failed"}, n \in Nat : [agent EXCEPT !.state = to, !.failures = n] \in Agent
    BY <1>1, StatesAre DEF Agent
<1>3. \E to \in {"idle", "failed"}, n \in {0, agent.failures + 1} :
          a = [agent EXCEPT !.state = to, !.failures = n]
    BY DEF Target
<1> QED
    BY <1>1, <1>2, <1>3

LEMMA MoveOnStep ==
    ASSUME TypeOK, Safe, NEW j \in Jobs, MoveOn(j)
    PROVE  TypeOK' /\ Safe'
<1> DEFINE t == job[j].turn
<1>1. t \in Created /\ t \in Turns
    BY DEF MoveOn, At, Safe, Fits, Holding, Created
<1>2. RowOK'
    BY TargetType, WriteAgentType, RowType DEF MoveOn
<1>3. TurnsKept
  <2>1. PICK ts : turn' = [Stopped(ts) EXCEPT ![t].live = (@ /\ turn[t].by # j)]
      BY DEF MoveOn
  <2>2. \A u \in Turns : /\ Stopped(ts)[u] \in Turn
                         /\ Stopped(ts)[u].msgs = turn[u].msgs
                         /\ Stopped(ts)[u].exec = turn[u].exec
      BY DEF Stopped, TypeOK, Turn
  <2> DEFINE S   == Stopped(ts)
             b   == S[t].live /\ turn[t].by # j
             row == [S[t] EXCEPT !.live = b]
  <2>3. turn' = [S EXCEPT ![t] = row] /\ b \in BOOLEAN /\ DOMAIN S = Turns
      BY <2>1 DEF Stopped
  <2> HIDE DEF b, S
  <2>4. row \in Turn /\ row.msgs = S[t].msgs /\ row.exec = S[t].exec
      BY <1>1, <2>2, <2>3 DEF Turn, S
  <2> HIDE DEF row
  <2>5. turn' = [u \in Turns |-> IF u = t THEN row ELSE S[u]]
      BY <2>3
  <2> QED
      BY <1>1, <2>2, <2>4, <2>5 DEF TurnsKept, S
<1> QED
    BY <1>2, <1>3, LeaveType, Quiet, JobStep DEF MoveOn

\* A hold is taken on a turn that was started; a lost job leaves its hold.
LEMMA HoldStep ==
    ASSUME TypeOK, Safe, NEW j \in Jobs, ClaimAttachment(j) \/ Renew(j) \/ Crash(j)
    PROVE  TypeOK' /\ Safe'
<1>1. UNCHANGED into
    BY DEF ClaimAttachment, Renew, Crash
<1>2. CASE ClaimAttachment(j)
  <2> DEFINE t == job[j].turn
             held == [turn[t] EXCEPT !.by = j, !.live = TRUE]
             over == [turn[t] EXCEPT !.by = j, !.live = TRUE, !.exec = "exited"]
  <2>1. t \in Turns /\ turn[t] \in Turn
      BY <1>2 DEF ClaimAttachment, At, Safe, Fits, TypeOK
  <2>2. RowOK' /\ Aside
      BY <1>2, RowType, Quiet DEF ClaimAttachment
  <2>3. CASE Leave(j) /\ UNCHANGED turn
      BY <1>1, <2>2, <2>3, LeaveType, SameTurns, JobStep
  <2>4. CASE /\ turn[t].exec \in Started
             /\ turn' = [turn EXCEPT ![t].by = j, ![t].live = TRUE]
             /\ job' = [job EXCEPT ![j].pc = "recorded"]
    <3>1. held \in Turn /\ held.msgs = turn[t].msgs /\ held.exec = turn[t].exec
        BY <2>1 DEF Turn
    <3>2. turn' = [turn EXCEPT ![t] = held]
        BY <2>1, <2>4 DEF TypeOK
    <3> HIDE DEF held
    <3>3. TurnsKept /\ turn'[t].exec \in Started
        BY <2>1, <2>4, <3>1, <3>2, TurnWrite DEF TypeOK
    <3>4. JobsOK' /\ job'[j].pc = "recorded" /\ job'[j].turn = t
          /\ \A k \in Jobs \ {j} : job'[k] = job[k]
        BY <2>4, GotoType DEF Goto, Holding
    <3>5. Fits(j)'
        BY <2>1, <3>3, <3>4 DEF Fits, Created, Started
    <3> QED
        BY <1>1, <2>2, <3>3, <3>4, <3>5, JobStep
  <2>5. CASE /\ turn[t].exec \in Started
             /\ turn' = [turn EXCEPT ![t].by = j, ![t].live = TRUE, ![t].exec = "exited"]
             /\ job' = [job EXCEPT ![j].pc = "halting", ![j].verdict = "gone"]
    <3>1. over \in Turn /\ over.msgs = turn[t].msgs /\ over.exec \in Started
        BY <2>1 DEF Turn, Started
    <3>2. turn' = [turn EXCEPT ![t] = over]
        BY <2>1, <2>5 DEF TypeOK
    <3>3. t \in Created
        BY <2>1, <2>5 DEF Created, Started
    <3> HIDE DEF over
    <3>4. TurnsKept
        BY <3>1, <3>2, <3>3, TurnWrite
    <3>5. JobsOK' /\ \A k \in Jobs : job'[k] = job[k] \/ Fits(k)'
        BY <2>5, <3>3, <3>4, Halts
    <3> QED
        BY <1>1, <2>2, <3>4, <3>5, JobStep
  <2> QED
      BY <1>2, <2>3, <2>4, <2>5 DEF ClaimAttachment, Started
<1>3. CASE Renew(j)
  <2>1. PICK t \in Turns : turn' = [turn EXCEPT ![t].live = TRUE]
      BY <1>3 DEF Renew
  <2>2. turn' = [turn EXCEPT ![t] = [turn[t] EXCEPT !.live = TRUE]]
      BY <2>1
  <2>3. TurnsKept
      BY <2>2, TurnColumns, TurnWrite
  <2>4. JobsOK' /\ UNCHANGED job
      BY <1>3, Whole DEF Renew, JobsOK
  <2> QED
      BY <1>1, <1>3, <2>3, <2>4, RowType, Quiet, JobStep DEF Renew
<1>4. CASE Crash(j)
  <2>1. RowOK'
      BY <1>4 DEF Crash, TypeOK, RowOK
  <2>2. Aside
      BY <1>4, FaultType, Whole DEF Crash, Aside
  <2> QED
      BY <1>1, <1>4, <2>1, <2>2, LeaveType, SameTurns, JobStep DEF Crash
<1> QED
    BY <1>2, <1>3, <1>4

-----------------------------------------------------------------------------
(* The reconciler.                                                          *)

\* A set of natural numbers has a smallest one.
LEMMA Smallest ==
    ASSUME NEW T \in SUBSET Nat, T # {}
    PROVE  \E x \in T : \A y \in T : x <= y
<1> DEFINE R == {ss \in Nat \X Nat : ss[1] < ss[2]}
<1>1. IsWellFoundedOn(R, Nat)
    BY NatLessThanWellFounded DEF OpToRel
<1> HIDE DEF R
<1>2. PICK x \in T : \A y \in T : ~(<<y, x>> \in R)
    BY <1>1, WFMin, Zenon
<1>3. \A y \in T : ~(y < x)
    BY <1>2 DEF R
<1> QED
    BY <1>3

\* The open turn is the latest one, or none.
LEMMA OpenTurnType == OpenTurn \in 0 .. MaxTurns
<1>1. CASE Open = {}
    BY <1>1, Parameters DEF OpenTurn
<1>2. CASE Open # {}
  <2>1. Open \subseteq 1 .. MaxTurns /\ MaxTurns \in Nat
      BY Parameters DEF Open, Turns
  <2> DEFINE T == {MaxTurns - t : t \in Open}
  <2>2. T \in SUBSET Nat /\ T # {}
    <3>1. \A t \in Open : MaxTurns - t \in Nat
        BY <2>1
    <3>2. PICK t \in Open : TRUE
        BY <1>2
    <3>3. MaxTurns - t \in T
        BY <3>2
    <3> QED
        BY <3>1, <3>3
  <2>3. PICK x \in T : \A y \in T : x <= y
      BY <2>2, Smallest
  <2>4. PICK t \in Open : x = MaxTurns - t
      BY <2>3
  <2>5. \A u \in Open : u <= t
      BY <2>1, <2>3, <2>4
  <2>6. OpenTurn \in Open
      BY <1>2, <2>5 DEF OpenTurn
  <2> QED
      BY <2>1, <2>6
<1> QED
    BY <1>1, <1>2

LEMMA DecideType ==
    ASSUME NEW do \in {"none", "move", "clear", "enqueue", "attach", "requeue", "toIdle"},
           NEW to \in States, NEW t \in 0 .. MaxTurns, NEW failures \in {"keep", "more", "zero"}
    PROVE  Decide(do, to, t, failures) \in Decision
    BY DEF Decide, Decision

LEMMA DecidedType ==
    ASSUME TypeOK
    PROVE  Decided \in Decision
<1>1. 0 \in 0 .. MaxTurns /\ OpenTurn \in 0 .. MaxTurns
    BY Parameters, OpenTurnType
<1>2. {"idle", "queued", "paused", "archived"} \subseteq States
    BY StatesAre
<1>3. agent.intent \in {"none", "pause", "resume", "archive", "restart"}
    BY DEF TypeOK, Agent
<1>4. CASE agent.intent # "none"
  <2>1. CASE agent.intent = "pause"
      BY <1>1, <1>2, <2>1, DecideType DEF Decided, Intent
  <2>2. CASE agent.intent = "resume"
      BY <1>1, <1>2, <2>2, DecideType DEF Decided, Intent
  <2>3. CASE agent.intent = "archive"
      BY <1>1, <1>2, <2>3, DecideType DEF Decided, Intent
  <2>4. CASE agent.intent = "restart"
      BY <1>1, <1>2, <2>4, DecideType DEF Decided, Intent
  <2> QED
      BY <1>3, <1>4, <2>1, <2>2, <2>3, <2>4
<1>5. CASE agent.intent = "none"
    BY <1>1, <1>2, <1>5, DecideType DEF Decided, Noop
<1> QED
    BY <1>4, <1>5

LEMMA NoopType == Noop \in Decision
    BY Parameters, DecideType, StatesAre DEF Noop

\* A pass that is over, the rest as it may be.
LEMMA PassOver ==
    ASSUME TypeOK, NEW r \in Passes, pass' = [pass EXCEPT ![r] = Noop]
    PROVE  PassOK'
    BY NoopType DEF TypeOK, PassOK

\* A step of a pass.
LEMMA PassStep ==
    ASSUME TypeOK, Safe, RowOK', PassOK', TurnsKept, JobsOK', UNCHANGED <<into, pod, reaping, intents>>,
           faults' \in 0 .. MaxFaults, \A k \in Jobs : job'[k] = job[k] \/ Fits(k)'
    PROVE  TypeOK' /\ Safe'
<1>1. turn' \in [Turns -> Turn]
    BY DEF TurnsKept
<1> QED
    BY <1>1, Keeps, Whole, Parts

LEMMA ObserveStep ==
    ASSUME TypeOK, Safe, NEW r \in Passes, Observe(r) \/ ObserveStall(r)
    PROVE  TypeOK' /\ Safe'
<1>1. TurnsKept /\ RowOK' /\ UNCHANGED job /\ JobsOK'
    BY SameTurns, RowType, Whole DEF Observe, ObserveStall, JobsOK
<1>2. Decide("move", "failed", 0, "more") \in Decision
    BY DecideType, StatesAre, Parameters
<1>3. PassOK'
    BY <1>2, DecidedType DEF Observe, ObserveStall, TypeOK, PassOK
<1>4. faults' \in 0 .. MaxFaults
    BY FaultType, Whole DEF Observe, ObserveStall, budgets
<1> QED
    BY <1>1, <1>3, <1>4, PassStep DEF Observe, ObserveStall, budgets

LEMMA ApplyStep ==
    ASSUME TypeOK, Safe, NEW r \in Passes, Apply(r)
    PROVE  TypeOK' /\ Safe'
<1>1. agent \in Agent /\ pass[r] \in Decision
    BY DEF TypeOK
<1>2. UNCHANGED <<into, pod, reaping, intents>> /\ faults' \in 0 .. MaxFaults
    BY Whole DEF Apply, ApplyMove, ApplyClear, ApplyQueue, ApplyRequeue, ApplyIdle, budgets
<1>3. CASE ApplyMove(r)
  <2>1. Counted(pass[r].failures) \in Nat
      BY <1>1 DEF Counted, Decision, Agent
  <2>2. [state |-> pass[r].to, intent |-> "none", failures |-> Counted(pass[r].failures)] \in Agent
      BY <1>1, <2>1 DEF Agent, Decision
  <2>3. RowOK' /\ TurnsKept
      BY <1>3, <2>2, WriteAgentType, RowType, StoppedKept, SameTurns DEF ApplyMove
  <2>4. PassOK' /\ JobsOK' /\ UNCHANGED job
      BY <1>3, PassOver, Whole DEF ApplyMove, JobsOK
  <2> QED
      BY <1>2, <2>3, <2>4, PassStep
<1>4. CASE ApplyClear(r) \/ ApplyIdle(r)
  <2>1. [agent EXCEPT !.intent = "none"] \in Agent /\ [agent EXCEPT !.state = "idle"] \in Agent
      BY <1>1, StatesAre DEF Agent
  <2>2. RowOK'
      BY <1>4, <2>1, WriteAgentType, RowType DEF ApplyClear, ApplyIdle
  <2>3. TurnsKept /\ PassOK' /\ JobsOK' /\ UNCHANGED job
      BY <1>4, SameTurns, PassOver, Whole DEF ApplyClear, ApplyIdle, JobsOK
  <2> QED
      BY <1>2, <2>2, <2>3, PassStep
<1>5. CASE ApplyQueue(r)
  <2> DEFINE t == pass[r].turn
             J == IF t = 0 THEN [NoOne EXCEPT !.pc = "ready"]
                  ELSE [NoOne EXCEPT !.pc = "attach", !.turn = t, !.origin = "attach"]
  <2>1. RowOK' /\ TurnsKept /\ PassOK'
      BY <1>5, RowType, SameTurns, PassOver DEF ApplyQueue
  <2>2. t \in 0 .. MaxTurns
      BY <1>1 DEF Decision
  <2>3. J \in Job /\ J.pc \in {"ready", "attach"} /\ (J.pc = "attach" => J.turn \in Turns)
    <3>1. [NoOne EXCEPT !.pc = "ready"] \in Job /\ [NoOne EXCEPT !.pc = "ready"].pc = "ready"
        BY NoOneType DEF Job
    <3>2. CASE t = 0
        BY <3>1, <3>2
    <3>3. CASE t # 0
      <4>1. t \in Turns
          BY <2>2, <3>3, Parameters DEF Turns
      <4> DEFINE A == [NoOne EXCEPT !.pc = "attach", !.turn = t, !.origin = "attach"]
      <4>2. A \in Job /\ A.pc = "attach" /\ A.turn = t
        <5> HIDE DEF t
        <5> QED
            BY <2>2, NoOneType DEF Job
      <4>3. J = A
          BY <3>3
      <4> QED
          BY <4>1, <4>2, <4>3
    <3> QED
        BY <3>2, <3>3
  <2>4. job' = job \/ \E j \in Jobs : job' = [job EXCEPT ![j] = J]
      BY <1>5 DEF ApplyQueue
  <2> HIDE DEF J
  <2>5. JobsOK' /\ \A k \in Jobs : job'[k] = job[k] \/ Fits(k)'
    <3>1. CASE job' = job
        BY <3>1, Whole DEF JobsOK
    <3>2. ASSUME NEW j \in Jobs, job' = [job EXCEPT ![j] = J]
          PROVE  JobsOK' /\ \A k \in Jobs : job'[k] = job[k] \/ Fits(k)'
      <4>1. JobsOK' /\ job'[j] = J /\ \A k \in Jobs \ {j} : job'[k] = job[k]
          BY <2>3, <3>2 DEF TypeOK, JobsOK
      <4>2. Fits(j)'
          BY <2>3, <4>1 DEF Fits, Holding, Turns
      <4> QED
          BY <4>1, <4>2
    <3> QED
        BY <2>4, <3>1, <3>2
  <2> QED
      BY <1>2, <2>1, <2>5, PassStep
<1>6. CASE ApplyRequeue(r)
  <2>1. TurnsKept
    <3>1. CASE r \in fresh
        BY <1>6, <3>1, TurnColumns DEF ApplyRequeue, TypeOK, TurnsKept
    <3>2. CASE r \notin fresh
        BY <1>6, <3>2, SameTurns DEF ApplyRequeue
    <3> QED
        BY <3>1, <3>2
  <2>2. PassOK'
    <3>1. CASE r \in fresh
      <4>1. [pass[r] EXCEPT !.do = "toIdle"] \in Decision
          BY <1>1 DEF Decision
      <4>2. pass' = [pass EXCEPT ![r] = [pass[r] EXCEPT !.do = "toIdle"]]
          BY <1>6, <3>1 DEF ApplyRequeue
      <4> QED
          BY <4>1, <4>2 DEF TypeOK, PassOK
    <3>2. CASE r \notin fresh
        BY <1>6, <3>2, PassOver DEF ApplyRequeue
    <3> QED
        BY <3>1, <3>2
  <2>3. RowOK' /\ JobsOK' /\ UNCHANGED job
      BY <1>6, RowType, Whole DEF ApplyRequeue, JobsOK
  <2> QED
      BY <1>2, <2>1, <2>2, <2>3, PassStep
<1> QED
    BY <1>3, <1>4, <1>5, <1>6 DEF Apply

-----------------------------------------------------------------------------
(* The world.                                                               *)

LEMMA SendStep ==
    ASSUME TypeOK, Safe, NEW m \in Messages, Send(m)
    PROVE  TypeOK' /\ Safe'
<1>1. \A n \in Messages : into'[n] = (IF n = m THEN Pending ELSE into[n])
    BY DEF Send, TypeOK
<1>2. NothingLost'
    BY <1>1 DEF Send, Safe, NothingLost, Pending
<1>3. (\A j \in Jobs : Fits(j)') /\ InOrder'
    BY DEF Send, Safe, Fits, InOrder, Created
<1>4. into' \in [Messages -> -1 .. MaxTurns]
    BY Parameters DEF Send, TypeOK, Pending
<1>5. RowOK' /\ JobsOK' /\ PassOK' /\ turn' \in [Turns -> Turn] /\ pod' \in {"none", "ready"}
      /\ reaping' \in BOOLEAN /\ faults' \in 0 .. MaxFaults /\ intents' \in 0 .. MaxIntents
    BY Whole DEF Send, RowOK, JobsOK, PassOK, budgets
<1> QED
    BY <1>2, <1>3, <1>4, <1>5, Parts DEF Safe

\* A step outside the jobs and passes.
LEMMA WorldStep ==
    ASSUME TypeOK, Safe, RowOK', TurnsKept, UNCHANGED <<into, job, pass>>,
           pod' \in {"none", "ready"}, reaping' \in BOOLEAN,
           faults' \in 0 .. MaxFaults, intents' \in 0 .. MaxIntents
    PROVE  TypeOK' /\ Safe'
<1>1. turn' \in [Turns -> Turn]
    BY DEF TurnsKept
<1>2. JobsOK' /\ PassOK' /\ into' \in [Messages -> -1 .. MaxTurns]
    BY Whole DEF JobsOK, PassOK
<1> QED
    BY <1>1, <1>2, KeepsJobs, Parts

LEMMA IntentStep ==
    ASSUME TypeOK, Safe, NEW i \in Intents, SetControlIntent(i)
    PROVE  TypeOK' /\ Safe'
<1>1. i \in {"pause", "resume", "archive", "restart"} /\ MaxIntents \in Nat
    BY Parameters
<1>2. [agent EXCEPT !.intent = i] \in Agent
    BY <1>1 DEF TypeOK, Agent
<1>3. intents' \in 0 .. MaxIntents
  <2>1. intents \in 0 .. MaxIntents
      BY DEF TypeOK
  <2> QED
      BY <1>1, <2>1 DEF SetControlIntent
<1> QED
    BY <1>2, <1>3, WriteAgentType, SameTurns, Whole, WorldStep DEF SetControlIntent

LEMMA TurnsStep ==
    ASSUME TypeOK, Safe, NEW t \in Turns, AgentEnds(t) \/ LeaseLapses(t) \/ LeaseLate(t)
    PROVE  TypeOK' /\ Safe'
<1>1. RowOK' /\ UNCHANGED <<into, job, pass, pod, reaping, intents>>
    BY RowType DEF AgentEnds, LeaseLapses, LeaseLate, budgets
<1>2. faults' \in 0 .. MaxFaults
    BY FaultType, Whole DEF AgentEnds, LeaseLapses, LeaseLate, budgets
<1>3. \A end \in {"ok", "bad"} : /\ [turn[t] EXCEPT !.proc = end] \in Turn
                                 /\ [turn[t] EXCEPT !.proc = end].msgs = turn[t].msgs
                                 /\ [turn[t] EXCEPT !.proc = end].exec = turn[t].exec
    BY DEF TypeOK, Turn
<1>4. CASE AgentEnds(t)
  <2>1. PICK end \in {"ok", "bad"} : turn' = [turn EXCEPT ![t] = [turn[t] EXCEPT !.proc = end]]
      BY <1>4 DEF AgentEnds
  <2>2. TurnsKept
      BY <1>3, <2>1, TurnWrite
  <2> QED
      BY <1>1, <1>2, <2>2, Whole, WorldStep
<1>5. CASE LeaseLapses(t) \/ LeaseLate(t)
  <2>1. turn' = [turn EXCEPT ![t] = [turn[t] EXCEPT !.live = FALSE]]
      BY <1>5 DEF LeaseLapses, LeaseLate
  <2>2. TurnsKept
      BY <2>1, TurnColumns, TurnWrite
  <2> QED
      BY <1>1, <1>2, <2>2, Whole, WorldStep
<1> QED
    BY <1>4, <1>5

LEMMA PodStep ==
    ASSUME TypeOK, Safe, PodDies \/ ReapRead \/ ReapPod
    PROVE  TypeOK' /\ Safe'
<1>1. \A t \in Turns : /\ [turn[t] EXCEPT !.proc = "lost"] \in Turn
                       /\ [turn[t] EXCEPT !.proc = "lost"].msgs = turn[t].msgs
                       /\ [turn[t] EXCEPT !.proc = "lost"].exec = turn[t].exec
    BY DEF TypeOK, Turn
<1>2. TurnsKept
  <2>1. CASE turn' = Lost
      BY <1>1, <2>1 DEF Lost, TypeOK, TurnsKept
  <2> QED
      BY <2>1, SameTurns DEF PodDies, ReapRead, ReapPod
<1>3. RowOK' /\ UNCHANGED <<into, job, pass, intents>>
    BY RowType DEF PodDies, ReapRead, ReapPod, budgets
<1>4. pod' \in {"none", "ready"} /\ reaping' \in BOOLEAN
    BY Whole DEF PodDies, ReapRead, ReapPod
<1>5. faults' \in 0 .. MaxFaults
    BY FaultType, Whole DEF PodDies, ReapRead, ReapPod, budgets
<1> QED
    BY <1>2, <1>3, <1>4, <1>5, Whole, WorldStep

-----------------------------------------------------------------------------

LEMMA InitSafe == Init => TypeOK /\ Safe
<1> SUFFICES ASSUME Init PROVE TypeOK /\ Safe
    OBVIOUS
<1>1. TypeOK
  <2>1. agent \in Agent /\ Noop \in Decision /\ NoOne \in Job
      BY StatesAre, NoopType, NoOneType DEF Init, Agent
  <2>2. turn \in [Turns -> Turn]
    <3>1. NoTurn \in Turn
        BY DEF NoTurn, Turn
    <3> QED
        BY <3>1 DEF Init
  <2>3. into \in [Messages -> -1 .. MaxTurns]
      BY Parameters DEF Init, Unsent
  <2> QED
    <3>1. faults \in 0 .. MaxFaults /\ intents \in 0 .. MaxIntents
        BY Parameters DEF Init
    <3>2. job \in [Jobs -> Job] /\ (\A j \in Jobs : job[j] = NoOne) /\ pass \in [Passes -> Decision]
        BY <2>1 DEF Init
    <3>3. fresh = {} /\ pod = "none" /\ reaping = FALSE
        BY DEF Init
    <3> QED
        BY <2>1, <2>2, <2>3, <3>1, <3>2, <3>3 DEF TypeOK
<1>2. Created = {}
    BY DEF Init, Created, NoTurn
<1>3. InOrder
  <2>1. Created = 1 .. 0
      BY <1>2
  <2> QED
      BY <2>1 DEF InOrder
<1>4. (\A j \in Jobs : Fits(j)) /\ NothingLost
    BY DEF Init, Fits, Holding, NoOne, NothingLost, Unsent
<1> QED
    BY <1>1, <1>3, <1>4 DEF Safe

LEMMA NextSafe == TypeOK /\ Safe /\ [Next]_vars => TypeOK' /\ Safe'
<1> SUFFICES ASSUME TypeOK, Safe, [Next]_vars PROVE TypeOK' /\ Safe'
    OBVIOUS
<1>1. CASE UNCHANGED vars
  <2>1. RowOK' /\ TurnsKept
      BY <1>1, RowType, SameTurns DEF vars
  <2> QED
      BY <1>1, <2>1, Whole, WorldStep DEF vars
<1>2. CASE Next
    BY <1>2, SendStep, IntentStep, TurnsStep, ClaimStep, CreateStep, SetupStep, DrainStep, RunStep,
       StreamStep, MoveOnStep, HoldStep, ObserveStep, ApplyStep, PodStep DEF Next, Work
<1> QED
    BY <1>1, <1>2

\* Every reachable state has its type: jobs, decisions and rows stay within
\* their columns, and a job that has left keeps nothing.
THEOREM TypeCorrect == Spec => []TypeOK
    BY InitSafe, NextSafe, PTL DEF Spec

\* Whatever crashes, is paused, restarted or reaped, a message that has left
\* the inbox is in the prompt of a turn whose agent was started.
THEOREM InboxSafe == Spec => []NothingLost
<1>1. Safe => NothingLost
    BY DEF Safe
<1> QED
    BY <1>1, InitSafe, NextSafe, PTL DEF Spec
=============================================================================
