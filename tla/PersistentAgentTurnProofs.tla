--------------------- MODULE PersistentAgentTurnProofs ---------------------
(***************************************************************************)
(* The turns of PersistentAgent come one at a time, and implement Inbox,   *)
(* when users leave an agent at work alone, no holder of a lease is late,  *)
(* and a job that halted its turn reads the agent before another claims    *)
(* it: whatever jobs, pods and streams are lost, and whoever attaches.     *)
(***************************************************************************)
EXTENDS PersistentAgentProofs

-----------------------------------------------------------------------------
(* The inductive invariant.                                                 *)

Busy(j) == job[j].pc \in AtWork

\* At most one job is at work, and at most one turn is open.
Alone   == \A i, j \in Jobs : Busy(i) /\ Busy(j) => i = j
OneOpen == \A t, u \in Open : t = u

\* An agent that may get a new turn has none, and no job is on its way to or
\* from one.
Free == agent.state \in {"idle", "queued"} => AtRest

\* Where a job's turn is still open, and where it has halted it.
OnTurnPcs == Holding \ {"looking", "moving"}
After     == {"looking", "moving"}

\* A job holds its turn's lease until it leaves; the open turn is the one the
\* job at work works on.  The agent rests as long as a job that halted its turn
\* has not read it, or has missed no write since it did.
Owns(j) ==
    /\ job[j].pc \in Holding => turn[job[j].turn].by = j /\ turn[job[j].turn].live
    /\ job[j].pc \in OnTurnPcs => job[j].turn \in Open
    /\ At(j, "claimed") => Open = {}
    /\ At(j, "looking") \/ (At(j, "moving") /\ j \in fresh) => AtRest

\* What a pass that has missed no write may rely on.  A requeue was decided
\* with no job at work and no turn but one that never started; nothing can
\* have started since, as a claim is a write and an attach needs a started
\* turn.  Only a user's intent moves the agent to idle otherwise.
Granted(r) ==
    r \in fresh =>
        /\ pass[r].do \in {"requeue", "toIdle"} => \A j \in Jobs : ~Busy(j)
        /\ pass[r].do = "requeue" => \A t \in Open : t = pass[r].turn /\ turn[t].exec = "none"
        /\ pass[r].do = "toIdle" => Open = {}
        /\ pass[r].do = "move" /\ pass[r].to = "idle" => agent.intent \in {"resume", "restart"}
        /\ pass[r].do = "move" /\ pass[r].to = "queued" => agent.state = "idle"

\* An open turn has taken none of its messages, all of which wait for it, or
\* all of them.
Untouched(t) == (\A m \in turn[t].msgs : into[m] = Pending) /\ (\A m \in Messages : into[m] # t)
Taken(t)     == \A m \in turn[t].msgs : into[m] = t
AllOrNone    == \A t \in Open : Untouched(t) \/ Taken(t)

Turned == /\ Alone /\ OneOpen /\ Free /\ AllOrNone
          /\ \A j \in Jobs : Owns(j)
          /\ \A r \in Passes : Granted(r)

Inv == TypeOK /\ Safe /\ Turned

-----------------------------------------------------------------------------
(* What the parts rest on.                                                  *)

LEMMA AtWorkIs ==
    /\ AtWork = OnTurnPcs \cup {"claimed"} /\ "claimed" \notin OnTurnPcs
    /\ Holding = OnTurnPcs \cup After /\ OnTurnPcs \cap After = {}
    /\ "claimed" \notin After /\ "idle" \notin Holding \cup AtWork
    BY DEF AtWork, Holding, OnTurnPcs, After

LEMMA WorkingOwns ==
    ASSUME NEW j \in Jobs, job'[j].pc \in OnTurnPcs, job'[j].turn \in Open',
           turn'[job'[j].turn].by = j, turn'[job'[j].turn].live
    PROVE  Owns(j)'
    BY AtWorkIs DEF Owns, At, After

LEMMA OneOpenIsOneTurn ==
    ASSUME OneOpen
    PROVE  OneTurn
<1>1. CASE Open = {}
    BY <1>1, FS_EmptySet DEF OneTurn
<1>2. CASE Open # {}
  <2>1. PICK t \in Open : Open = {t}
      BY <1>2 DEF OneOpen
  <2>2. Cardinality({t}) = 1
      BY FS_Singleton
  <2> QED
      BY <2>1, <2>2 DEF OneTurn
<1> QED
    BY <1>1, <1>2

LEMMA OpenTurnIsOpen ==
    ASSUME OneOpen, Open # {}
    PROVE  OpenTurn \in Open /\ \A t \in Open : t = OpenTurn
<1>1. PICK t \in Open : \A u \in Open : u = t
    BY DEF OneOpen
<1>2. t \in Nat
    BY Parameters DEF Open, Turns
<1>3. \A u \in Open : u <= t
    BY <1>1, <1>2
<1>4. OpenTurn \in Open
    BY <1>1, <1>3 DEF OpenTurn
<1> QED
    BY <1>1, <1>4

\* Turns that stay open or closed, with the messages they had.
LEMMA AllOrNoneKept ==
    ASSUME AllOrNone, UNCHANGED into, Open' \subseteq Open,
           \A t \in Turns : turn'[t].msgs = turn[t].msgs
    PROVE  AllOrNone'
<1>1. Open \subseteq Turns
    BY DEF Open
<1> QED
    BY <1>1 DEF AllOrNone, Untouched, Taken

\* A pass keeps what it relies on while the agent's row, the open turns and
\* the idle jobs are what they were.
LEMMA GrantedKept ==
    ASSUME NEW r \in Passes, Granted(r), pass'[r] = pass[r], UNCHANGED agent,
           r \in fresh' => r \in fresh,
           \A j \in Jobs : Busy(j)' => Busy(j),
           Open' \subseteq Open, \A t \in Open : turn[t].exec = "none" => turn'[t].exec = "none"
    PROVE  Granted(r)'
    BY DEF Granted

\* The leases of the turns that other jobs have halted stay as they are.
Tails(j) ==
    \A k \in Jobs \ {j} : job[k].pc \in After =>
        /\ turn'[job[k].turn].by = turn[job[k].turn].by
        /\ turn'[job[k].turn].live = turn[job[k].turn].live

LEMMA TailsKept ==
    ASSUME Inv, NEW j \in Jobs, NEW t, t \in Created => turn[t].by = j,
           \A u \in Turns \ {t} : turn'[u].by = turn[u].by /\ turn'[u].live = turn[u].live
    PROVE  Tails(j)
<1> SUFFICES ASSUME NEW k \in Jobs \ {j}, job[k].pc \in After
             PROVE  /\ turn'[job[k].turn].by = turn[job[k].turn].by
                    /\ turn'[job[k].turn].live = turn[job[k].turn].live
    BY DEF Tails
<1>1. job[k].turn \in Created /\ turn[job[k].turn].by = k
    BY AtWorkIs DEF Inv, Safe, Fits, Turned, Owns
<1>2. job[k].turn \in Turns \ {t}
    BY <1>1 DEF Created
<1> QED
    BY <1>2

\* A step of the one job at work, the others as they were.
LEMMA BusyStep ==
    ASSUME Inv, NEW j \in Jobs, Busy(j), UNCHANGED pass,
           \A k \in Jobs \ {j} : job'[k] = job[k] /\ (k \in fresh' => k \in fresh),
           Tails(j), Owns(j)', OneOpen', AllOrNone',
           agent'.state \in {"idle", "queued"} => Open' = {} /\ ~Busy(j)',
           \A r \in Passes : r \in fresh' => r \in fresh /\ agent' = agent
    PROVE  Turned'
<1>1. \A k \in Jobs \ {j} : ~Busy(k)'
    BY DEF Inv, Turned, Alone, Busy
<1>2. ASSUME NEW k \in Jobs \ {j} PROVE Owns(k)'
  <2>1. job'[k] = job[k] /\ ~Busy(k) /\ ~Busy(k)' /\ Owns(k) /\ ~AtRest
      BY <1>1 DEF Inv, Turned, Alone, AtRest, Busy
  <2>2. ~At(k, "looking") /\ ~(At(k, "moving") /\ k \in fresh)
      BY <2>1 DEF Owns
  <2>3. job[k].pc \in Holding => job[k].pc \in After
      BY <2>1, AtWorkIs DEF Busy
  <2>4. job'[k].pc \in Holding => turn'[job'[k].turn].by = k /\ turn'[job'[k].turn].live
      BY <2>1, <2>3 DEF Owns, Tails
  <2>5. job'[k].pc \notin OnTurnPcs /\ ~At(k, "claimed")'
      BY <2>1, AtWorkIs DEF Busy, At
  <2> QED
      BY <2>1, <2>2, <2>4, <2>5 DEF Owns, At
<1>3. Alone'
    BY <1>1 DEF Alone
<1>4. Free'
    BY <1>1 DEF Free, AtRest, Busy
<1>5. ASSUME NEW r \in Passes PROVE Granted(r)'
    BY DEF Inv, Turned, Granted
<1> QED
    BY <1>2, <1>3, <1>4, <1>5 DEF Turned

\* Jobs that are at work or have halted a turn are what they were.
Calm(k) == Busy(k)' \/ (job[k].pc \in After)' => job'[k] = job[k]

\* A step after which no more jobs are at work than before, and the open turn,
\* if any, is the same.
LEMMA CalmStep ==
    ASSUME Inv, \A k \in Jobs : Calm(k),
           \A k \in Jobs : At(k, "moving") /\ k \in fresh' => k \in fresh \/ job'[k] # job[k],
           \A t \in Turns : turn'[t].open = turn[t].open,
           \A k \in Jobs : job[k].pc \in Holding /\ job'[k] = job[k] =>
               /\ turn'[job[k].turn].by = turn[job[k].turn].by
               /\ turn'[job[k].turn].live = turn[job[k].turn].live,
           agent'.state \in {"idle", "queued"} => agent.state \in {"idle", "queued"} \/ AtRest,
           \A r \in Passes : Granted(r)',
           AllOrNone'
    PROVE  Turned'
<1>1. Open' = Open
    BY DEF Open
<1>2. ASSUME NEW k \in Jobs PROVE Busy(k)' => Busy(k)
    BY DEF Busy, Calm
<1>3. AtRest => AtRest'
    BY <1>1, <1>2 DEF AtRest, Busy
<1>4. ASSUME NEW k \in Jobs PROVE Owns(k)'
  <2>1. CASE Busy(k)' \/ (job[k].pc \in After)'
    <3>1. job'[k] = job[k] /\ Owns(k)
        BY <2>1 DEF Inv, Turned, Calm
    <3> QED
        BY <1>1, <1>3, <3>1 DEF Owns, At
  <2>2. CASE ~Busy(k)' /\ ~(job[k].pc \in After)'
      BY <2>2, AtWorkIs DEF Owns, Busy, At, After
  <2> QED
      BY <2>1, <2>2
<1>5. Alone' /\ OneOpen'
    BY <1>1, <1>2 DEF Inv, Turned, Alone, OneOpen
<1>6. Free'
    BY <1>3 DEF Inv, Turned, Free
<1> QED
    BY <1>4, <1>5, <1>6 DEF Turned

-----------------------------------------------------------------------------
(* The job at work.                                                         *)

\* What a job's step may do to the row: read it, forget what it read, write it.
Reads(j)  == UNCHANGED agent /\ fresh' \in {fresh, fresh \cup {j}, fresh \ {j}}
RowStep(j) == Reads(j) \/ \E a \in Agent : WriteAgent(a)

LEMMA RowStepPasses ==
    ASSUME NEW j \in Jobs, RowStep(j)
    PROVE  /\ \A r \in Passes : r \in fresh' => r \in fresh /\ agent' = agent
           /\ \A k \in Jobs \ {j} : k \in fresh' => k \in fresh
    BY Parameters DEF RowStep, Reads, WriteAgent

LEMMA OwnTurn ==
    ASSUME Inv, NEW j \in Jobs, job[j].pc \in OnTurnPcs
    PROVE  /\ job[j].turn \in Turns /\ Open = {job[j].turn} /\ Busy(j)
           /\ turn[job[j].turn].by = j /\ turn[job[j].turn].live
           /\ agent.state \notin {"idle", "queued"}
<1>1. Busy(j) /\ job[j].pc \in Holding
    BY AtWorkIs DEF Busy
<1>2. Owns(j)
    BY DEF Inv, Turned
<1>3. job[j].turn \in Open /\ job[j].turn \in Turns
    BY <1>2 DEF Owns, Open
<1>4. Open = {job[j].turn}
    BY <1>3 DEF Inv, Turned, OneOpen
<1>5. agent.state \notin {"idle", "queued"}
    BY <1>1 DEF Inv, Turned, Free, AtRest, Busy
<1> QED
    BY <1>1, <1>2, <1>3, <1>4, <1>5 DEF Owns

\* The job goes on with its turn, which stays open and its own.
LEMMA GoesOnTurned ==
    ASSUME Inv, NEW j \in Jobs, job[j].pc \in OnTurnPcs,
           \A k \in Jobs \ {j} : job'[k] = job[k],
           job'[j].pc \in OnTurnPcs, job'[j].turn = job[j].turn,
           \A t \in Turns : /\ turn'[t].open = turn[t].open /\ turn'[t].by = turn[t].by
                            /\ turn[t].live => turn'[t].live
                            /\ t # job[j].turn => turn'[t].live = turn[t].live
                            /\ turn'[t].msgs = turn[t].msgs,
           UNCHANGED <<into, pass>>,
           RowStep(j), agent' = agent \/ agent'.state \notin {"idle", "queued"}
    PROVE  Turned'
<1>1. Open' = Open
    BY DEF Open
<1>2. Owns(j)'
    BY <1>1, OwnTurn, WorkingOwns
<1>3. OneOpen' /\ AllOrNone'
    BY <1>1, AllOrNoneKept DEF Inv, Turned, OneOpen
<1>4. Busy(j) /\ agent'.state \notin {"idle", "queued"} /\ turn[job[j].turn].by = j
    BY OwnTurn
<1>5. Tails(j)
    BY <1>4, TailsKept
<1> QED
    BY <1>2, <1>3, <1>4, <1>5, RowStepPasses, BusyStep

\* The job leaves its turn as it is, open or closed.
LEMMA LeavesTurned ==
    ASSUME Inv, NEW j \in Jobs, Busy(j), Leave(j),
           \A t \in Turns : /\ turn'[t].open = turn[t].open /\ turn'[t].msgs = turn[t].msgs
                            /\ t # job[j].turn \/ turn[t].by # j =>
                                 turn'[t].by = turn[t].by /\ turn'[t].live = turn[t].live,
           UNCHANGED <<into, pass, agent>>, Reads(j)
    PROVE  Turned'
<1>1. Open' = Open
    BY DEF Open
<1>2. job'[j] = NoOne /\ \A k \in Jobs \ {j} : job'[k] = job[k]
    BY DEF Leave, Inv, TypeOK
<1>3. job'[j].pc = "idle"
    BY <1>2, NoOneType
<1>4. Owns(j)' /\ ~Busy(j)'
    BY <1>3, AtWorkIs DEF Owns, Busy, At
<1>5. OneOpen' /\ AllOrNone'
    BY <1>1, AllOrNoneKept DEF Inv, Turned, OneOpen
<1>6. agent.state \notin {"idle", "queued"}
    BY DEF Inv, Turned, Free, AtRest, Busy
<1>7. Tails(j)
  <2> SUFFICES ASSUME NEW k \in Jobs \ {j}, job[k].pc \in After
               PROVE  /\ turn'[job[k].turn].by = turn[job[k].turn].by
                      /\ turn'[job[k].turn].live = turn[job[k].turn].live
      BY DEF Tails
  <2>1. job[k].turn \in Turns /\ turn[job[k].turn].by = k
      BY AtWorkIs DEF Inv, Safe, Fits, Created, Turned, Owns
  <2> QED
      BY <2>1
<1> QED
    BY <1>1, <1>2, <1>4, <1>5, <1>6, <1>7, RowStepPasses, BusyStep DEF RowStep

\* Goto, and the fields it leaves.
LEMMA GotoDoes ==
    ASSUME TypeOK, NEW j \in Jobs, NEW pc, Goto(j, pc)
    PROVE  /\ job'[j].pc = pc /\ job'[j].turn = job[j].turn
           /\ \A k \in Jobs \ {j} : job'[k] = job[k]
<1>1. job[j] \in Job
    BY DEF TypeOK
<1>2. job'[j] = [job[j] EXCEPT !.pc = pc]
    BY DEF TypeOK, Goto
<1>3. job'[j].pc = pc /\ job'[j].turn = job[j].turn
    BY <1>1, <1>2 DEF Job
<1> QED
    BY <1>3 DEF TypeOK, Goto

LEMMA SetupTurned ==
    ASSUME Inv, NEW j \in Jobs,
           AcquirePod(j) \/ SetupFails(j) \/ PodMissing(j) \/ LaunchAgent(j) \/ RecordStarted(j)
    PROVE  Turned'
<1> DEFINE t == job[j].turn
<1>1. job[j].pc \in OnTurnPcs /\ Busy(j)
    BY AtWorkIs DEF AcquirePod, SetupFails, PodMissing, LaunchAgent, RecordStarted, At,
                    OnTurnPcs, Holding, Busy
<1>2. t \in Turns /\ turn[t] \in Turn /\ job[j] \in Job
    BY <1>1, OwnTurn DEF Inv, TypeOK
<1>3. CASE AcquirePod(j)
  <2>1. job'[j].pc \in OnTurnPcs /\ job'[j].turn = t /\ \A k \in Jobs \ {j} : job'[k] = job[k]
      BY <1>3, GotoDoes DEF AcquirePod, OnTurnPcs, Holding, Inv
  <2>2. RowStep(j) /\ agent' = agent
      BY <1>3 DEF AcquirePod, RowStep, Reads, WriteAgent, Inv, TypeOK
  <2> QED
      BY <1>1, <1>3, <2>1, <2>2, GoesOnTurned DEF AcquirePod
<1>4. CASE SetupFails(j) \/ PodMissing(j)
  <2>1. UNCHANGED <<agent, fresh, into, turn, pass>> /\ SetupError(j)
      BY <1>4 DEF SetupFails, PodMissing, SetupError
  <2>2. job'[j] = [job[j] EXCEPT !.pc = "halting", !.verdict = "error", !.attempted = At(j, "starting")]
      BY <2>1 DEF SetupError, Inv, TypeOK
  <2>3. job'[j].pc = "halting" /\ job'[j].turn = t
      BY <1>2, <2>2 DEF Job
  <2>4. \A k \in Jobs \ {j} : job'[k] = job[k]
      BY <2>1 DEF SetupError, Inv, TypeOK
  <2> QED
      BY <1>1, <2>1, <2>3, <2>4, GoesOnTurned DEF OnTurnPcs, Holding, RowStep, Reads
<1>5. CASE LaunchAgent(j)
  <2>1. UNCHANGED <<agent, fresh, into, pass>>
      BY <1>5 DEF LaunchAgent
  <2>2. job'[j] = [job[j] EXCEPT !.pc = "recording", !.attempted = TRUE]
      BY <1>5 DEF LaunchAgent, Inv, TypeOK
  <2>3. job'[j].pc = "recording" /\ job'[j].turn = t
      BY <1>2, <2>2 DEF Job
  <2>4. \A k \in Jobs \ {j} : job'[k] = job[k]
      BY <1>5 DEF LaunchAgent, Inv, TypeOK
  <2>5. turn' = [turn EXCEPT ![t] = [turn[t] EXCEPT !.proc = "up"]]
      BY <1>5 DEF LaunchAgent
  <2>6. \A u \in Turns : /\ turn'[u].open = turn[u].open /\ turn'[u].by = turn[u].by
                         /\ turn'[u].live = turn[u].live /\ turn'[u].msgs = turn[u].msgs
      BY <1>2, <2>5 DEF Turn, Inv, TypeOK
  <2> QED
      BY <1>1, <2>1, <2>3, <2>4, <2>6, GoesOnTurned DEF OnTurnPcs, Holding, RowStep, Reads
<1>6. CASE RecordStarted(j)
  <2>1. UNCHANGED <<agent, fresh, into, pass>>
      BY <1>6 DEF RecordStarted
  <2>2. job'[j].pc = "recorded" /\ job'[j].turn = t /\ \A k \in Jobs \ {j} : job'[k] = job[k]
      BY <1>6, GotoDoes DEF RecordStarted, Inv
  <2>3. turn' = [turn EXCEPT ![t] = [turn[t] EXCEPT !.exec = "started", !.live = TRUE]]
      BY <1>6 DEF RecordStarted
  <2>4. \A u \in Turns : /\ turn'[u].open = turn[u].open /\ turn'[u].by = turn[u].by
                         /\ turn[u].live => turn'[u].live
                         /\ u # t => turn'[u].live = turn[u].live
                         /\ turn'[u].msgs = turn[u].msgs
      BY <1>2, <2>3 DEF Turn, Inv, TypeOK
  <2> QED
      BY <1>1, <2>1, <2>2, <2>4, GoesOnTurned DEF OnTurnPcs, Holding, RowStep, Reads
<1> QED
    BY <1>3, <1>4, <1>5, <1>6

\* The messages that were pending go into the prompt of a new turn.
LEMMA CreateTurned ==
    ASSUME Inv, NEW j \in Jobs, CreateTurn(j)
    PROVE  Turned'
<1>1. PICK n \in Nat : Created = 1 .. n
    BY DEF Inv, Safe, InOrder
<1>2. Cardinality(Created) = n
    BY <1>1, FS_Interval
<1> DEFINE t   == n + 1
           row == [exec |-> "none", open |-> TRUE, by |-> j, live |-> TRUE,
                   msgs |-> Pendings, proc |-> "none"]
           J   == [job[j] EXCEPT !.pc = "acquiring", !.turn = t]
<1>3. /\ turn' = [turn EXCEPT ![t] = row] /\ job' = [job EXCEPT ![j] = J] /\ n < MaxTurns
      /\ UNCHANGED <<agent, fresh, into, pass>>
    BY <1>2 DEF CreateTurn
<1>4. t \in Turns /\ t \notin Created
    BY <1>1, <1>3, Parameters DEF Turns
<1>5. job[j] \in Job /\ job[j].pc = "claimed"
    BY DEF CreateTurn, At, Inv, TypeOK
<1>6. J.pc = "acquiring" /\ J.turn = t
    BY <1>5 DEF Job
<1>7. row.open /\ row.by = j /\ row.live /\ row.msgs = Pendings
    OBVIOUS
<1> HIDE DEF row, J, t
<1>8. turn'[t] = row /\ \A u \in Turns \ {t} : turn'[u] = turn[u]
    BY <1>3, <1>4 DEF Inv, TypeOK
<1>9. job'[j] = J /\ \A k \in Jobs \ {j} : job'[k] = job[k]
    BY <1>3 DEF Inv, TypeOK
<1>10. Busy(j) /\ Open = {}
    BY <1>5, AtWorkIs DEF Busy, At, Inv, Turned, Owns
<1>11. Open' = {t}
    BY <1>4, <1>7, <1>8, <1>10 DEF Open
<1>12. Owns(j)' /\ Tails(j)
  <2>1. job'[j].pc \in OnTurnPcs
      BY <1>6, <1>9 DEF OnTurnPcs, Holding
  <2>2. Owns(j)'
      BY <1>6, <1>7, <1>8, <1>9, <1>11, <2>1, WorkingOwns
  <2> QED
      BY <1>4, <1>8, <2>2, TailsKept
<1>13. OneOpen'
    BY <1>11 DEF OneOpen
<1>14. AllOrNone'
  <2>1. ASSUME NEW m \in Messages, into[m] = t PROVE FALSE
    <3>1. t > 0
        BY <1>4 DEF Turns
    <3>2. turn[t].exec \in Started
        BY <2>1, <3>1 DEF Inv, Safe, NothingLost, Started
    <3> QED
        BY <1>4, <3>2 DEF Created, Started
  <2>2. \A m \in Pendings : into[m] = Pending
      BY DEF Pendings
  <2>3. Untouched(t)'
      BY <1>3, <1>7, <1>8, <2>1, <2>2 DEF Untouched
  <2> QED
      BY <1>11, <2>3 DEF AllOrNone
<1>15. agent.state \notin {"idle", "queued"}
    BY <1>10 DEF Inv, Turned, Free, AtRest, Busy
<1> QED
    BY <1>3, <1>9, <1>10, <1>12, <1>13, <1>14, <1>15, BusyStep

\* A turn takes all of its messages, or has taken them before.
LEMMA DrainTakes ==
    ASSUME Inv, NEW j \in Jobs, Drain(j)
    PROVE  /\ job[j].turn \in Open /\ UNCHANGED turn
           /\ turn[job[j].turn].msgs \in SUBSET Messages
           /\ into' = [m \in Messages |-> IF m \in turn[job[j].turn].msgs THEN job[j].turn ELSE into[m]]
           /\ Untouched(job[j].turn) \/ into' = into
<1> DEFINE t == job[j].turn
<1>1. job[j].pc \in OnTurnPcs
    BY DEF Drain, At, OnTurnPcs, Holding
<1>2. t \in Open /\ t \in Turns
    BY <1>1, OwnTurn
<1>3. turn[t] \in Turn
    BY <1>2 DEF Inv, TypeOK
<1>4. turn[t].msgs \in SUBSET Messages
    BY <1>3 DEF Turn
<1>5. UNCHANGED turn /\ into' = [m \in Messages |-> IF m \in turn[t].msgs THEN t ELSE into[m]]
    BY DEF Drain, TakenBy
<1>6. Untouched(t) \/ Taken(t)
    BY <1>2 DEF Inv, Turned, AllOrNone
<1>7. ASSUME Taken(t) PROVE into' = into
  <2>1. into = [m \in Messages |-> into[m]]
      BY DEF Inv, TypeOK
  <2>2. \A m \in Messages : (IF m \in turn[t].msgs THEN t ELSE into[m]) = into[m]
      BY <1>7 DEF Taken
  <2> QED
      BY <1>5, <2>1, <2>2
<1> QED
    BY <1>2, <1>4, <1>5, <1>6, <1>7

LEMMA DrainTurned ==
    ASSUME Inv, NEW j \in Jobs, Drain(j)
    PROVE  Turned'
<1> DEFINE t == job[j].turn
<1>1. job[j].pc \in OnTurnPcs
    BY DEF Drain, At, OnTurnPcs, Holding
<1>2. /\ Open = {t} /\ Busy(j) /\ t \in Turns /\ turn[t].by = j /\ turn[t].live
      /\ agent.state \notin {"idle", "queued"}
    BY <1>1, OwnTurn
<1>3. /\ job'[j].pc = "beginning" /\ job'[j].turn = t
      /\ \A k \in Jobs \ {j} : job'[k] = job[k]
    BY GotoDoes DEF Drain, Inv
<1>4. UNCHANGED <<agent, fresh, pass, turn>>
    BY DEF Drain
<1>5. Open' = Open /\ OneOpen'
    BY <1>4 DEF Open, OneOpen, Inv, Turned
<1>6. \A m \in turn[t].msgs : into'[m] = t
    BY DrainTakes
<1>7. AllOrNone'
    BY <1>2, <1>4, <1>5, <1>6 DEF AllOrNone, Taken
<1>8. Owns(j)' /\ Tails(j)
  <2>1. job'[j].pc \in OnTurnPcs
      BY <1>3 DEF OnTurnPcs, Holding
  <2> QED
      BY <1>2, <1>3, <1>4, <1>5, <2>1, WorkingOwns DEF Tails
<1> QED
    BY <1>2, <1>3, <1>4, <1>5, <1>7, <1>8, BusyStep

LEMMA BeginTurned ==
    ASSUME Inv, NEW j \in Jobs, BeginTurn(j)
    PROVE  Turned'
<1>1. job[j].pc \in OnTurnPcs
    BY DEF BeginTurn, At, OnTurnPcs, Holding
<1>2. UNCHANGED <<agent, into, turn, pass>> /\ fresh' \in {fresh, fresh \cup {j}}
    BY DEF BeginTurn
<1>3. /\ job'[j].pc \in OnTurnPcs /\ job'[j].turn = job[j].turn
      /\ \A k \in Jobs \ {j} : job'[k] = job[k]
    BY GotoDoes DEF BeginTurn, OnTurnPcs, Holding, Inv
<1> QED
    BY <1>1, <1>2, <1>3, GoesOnTurned DEF RowStep, Reads

\* Columns of one turn that leave the others, and its openness, alone.
LEMMA LiveWritten ==
    ASSUME TypeOK, NEW t \in Turns, NEW b \in BOOLEAN,
           turn' = [turn EXCEPT ![t] = [turn[t] EXCEPT !.live = b]]
    PROVE  /\ turn'[t].live = b
           /\ \A u \in Turns : /\ turn'[u].open = turn[u].open /\ turn'[u].by = turn[u].by
                               /\ turn'[u].exec = turn[u].exec /\ turn'[u].msgs = turn[u].msgs
                               /\ u # t => turn'[u] = turn[u]
<1>1. turn[t] \in Turn
    BY DEF TypeOK
<1>2. /\ [turn[t] EXCEPT !.live = b].live = b
      /\ [turn[t] EXCEPT !.live = b].open = turn[t].open
      /\ [turn[t] EXCEPT !.live = b].by = turn[t].by
      /\ [turn[t] EXCEPT !.live = b].exec = turn[t].exec
      /\ [turn[t] EXCEPT !.live = b].msgs = turn[t].msgs
    BY <1>1 DEF Turn
<1> QED
    BY <1>2 DEF TypeOK

LEMMA ToRunningTurned ==
    ASSUME Inv, NEW j \in Jobs, ToRunning(j)
    PROVE  Turned'
<1> DEFINE t == job[j].turn
<1>1. job[j].pc \in OnTurnPcs /\ UNCHANGED <<into, pass>>
    BY DEF ToRunning, At, OnTurnPcs, Holding
<1>2. t \in Turns /\ Busy(j)
    BY <1>1, OwnTurn
<1>3. CASE agent.state = "provisioning"
  <2>1. [agent EXCEPT !.state = "running"] \in Agent /\ [agent EXCEPT !.state = "running"].state = "running"
      BY StatesAre DEF Inv, TypeOK, Agent
  <2>2. RowStep(j) /\ (agent' = agent \/ agent'.state = "running")
      BY <1>3, <2>1 DEF ToRunning, RowStep, Reads, WriteAgent
  <2>3. job'[j].pc = "streaming" /\ job'[j].turn = t /\ \A k \in Jobs \ {j} : job'[k] = job[k]
      BY <1>3, GotoDoes DEF ToRunning, Inv
  <2>4. UNCHANGED turn
      BY <1>3 DEF ToRunning
  <2> QED
      BY <1>1, <2>2, <2>3, <2>4, GoesOnTurned DEF OnTurnPcs, Holding
<1>4. CASE agent.state # "provisioning" /\ job[j].origin = "start"
  <2>1. job' = [job EXCEPT ![j] = [job[j] EXCEPT !.pc = "halting", !.verdict = "error"]]
      BY <1>4 DEF ToRunning
  <2>2. job[j] \in Job
      BY DEF Inv, TypeOK
  <2>3. /\ [job[j] EXCEPT !.pc = "halting", !.verdict = "error"].pc = "halting"
        /\ [job[j] EXCEPT !.pc = "halting", !.verdict = "error"].turn = t
      BY <2>2 DEF Job
  <2>4. job'[j].pc = "halting" /\ job'[j].turn = t /\ \A k \in Jobs \ {j} : job'[k] = job[k]
      BY <2>1, <2>3 DEF Inv, TypeOK
  <2>5. UNCHANGED <<turn, agent, fresh>>
      BY <1>4 DEF ToRunning
  <2> QED
      BY <1>1, <2>4, <2>5, GoesOnTurned DEF OnTurnPcs, Holding, RowStep, Reads
<1>5. CASE agent.state # "provisioning" /\ job[j].origin # "start"
  <2>1. Leave(j) /\ turn' = [turn EXCEPT ![t] = [turn[t] EXCEPT !.live = FALSE]]
        /\ UNCHANGED <<agent, fresh>>
      BY <1>5 DEF ToRunning
  <2>2. \A u \in Turns : /\ turn'[u].open = turn[u].open /\ turn'[u].msgs = turn[u].msgs
                         /\ turn'[u].by = turn[u].by /\ (u # t => turn'[u].live = turn[u].live)
      BY <1>2, <2>1, LiveWritten DEF Inv
  <2>3. turn[t].by = j
      BY <1>1, OwnTurn
  <2> QED
      BY <1>1, <1>2, <2>1, <2>2, <2>3, LeavesTurned DEF Reads
<1> QED
    BY <1>3, <1>4, <1>5

\* Agents that end or are stopped: nothing but the process is written.
LEMMA OnlyProc ==
    ASSUME TypeOK, NEW end, NEW ts,
           turn' = [t \in Turns |-> IF t \in ts THEN [turn[t] EXCEPT !.proc = end] ELSE turn[t]]
    PROVE  \A t \in Turns : /\ turn'[t].open = turn[t].open /\ turn'[t].by = turn[t].by
                            /\ turn'[t].live = turn[t].live /\ turn'[t].msgs = turn[t].msgs
                            /\ turn'[t].exec = turn[t].exec
    BY DEF TypeOK, Turn

LEMMA StoppedOnlyProc ==
    ASSUME TypeOK, NEW ts
    PROVE  \A t \in Turns : /\ Stopped(ts)[t].open = turn[t].open /\ Stopped(ts)[t].by = turn[t].by
                            /\ Stopped(ts)[t].live = turn[t].live /\ Stopped(ts)[t].msgs = turn[t].msgs
                            /\ Stopped(ts)[t].exec = turn[t].exec /\ Stopped(ts)[t] \in Turn
    BY DEF TypeOK, Turn, Stopped

LEMMA StreamTurned ==
    ASSUME Inv, NEW j \in Jobs, StreamEnds(j) \/ StreamTaken(j) \/ StreamTrouble(j)
    PROVE  Turned'
<1> DEFINE t == job[j].turn
<1>1. job[j].pc \in OnTurnPcs /\ UNCHANGED <<agent, fresh, into, pass>>
    BY DEF StreamEnds, StreamTaken, StreamTrouble, At, OnTurnPcs, Holding
<1>2. t \in Turns /\ Busy(j) /\ turn[t].by = j /\ turn[t] \in Turn /\ job[j] \in Job
    BY <1>1, OwnTurn DEF Inv, TypeOK
<1>3. ASSUME NEW v, job' = [job EXCEPT ![j].pc = "halting", ![j].verdict = v]
      PROVE  /\ job'[j].pc \in OnTurnPcs /\ job'[j].turn = t
             /\ \A k \in Jobs \ {j} : job'[k] = job[k]
  <2>1. job'[j] = [job[j] EXCEPT !.pc = "halting", !.verdict = v]
      BY <1>3 DEF Inv, TypeOK
  <2>2. job'[j].pc = "halting" /\ job'[j].turn = t
      BY <1>2, <2>1 DEF Job
  <2> QED
      BY <1>3, <2>2 DEF Inv, TypeOK, OnTurnPcs, Holding
<1>4. CASE StreamEnds(j)
  <2>1. turn' = [turn EXCEPT ![t] = [turn[t] EXCEPT !.exec = "exited"]]
      BY <1>4 DEF StreamEnds
  <2>2. \A u \in Turns : /\ turn'[u].open = turn[u].open /\ turn'[u].by = turn[u].by
                         /\ turn'[u].live = turn[u].live /\ turn'[u].msgs = turn[u].msgs
      BY <1>2, <2>1 DEF Turn, Inv, TypeOK
  <2>3. job' = [job EXCEPT ![j].pc = "halting", ![j].verdict = turn[t].proc]
      BY <1>4 DEF StreamEnds
  <2>4. /\ job'[j].pc \in OnTurnPcs /\ job'[j].turn = t
        /\ \A k \in Jobs \ {j} : job'[k] = job[k]
      BY <1>3, <2>3
  <2> QED
      BY <1>1, <2>2, <2>4, GoesOnTurned DEF RowStep, Reads
<1>5. ~StreamTaken(j)
    BY <1>2 DEF StreamTaken
<1>6. CASE StreamTrouble(j)
  <2>1. CASE Leave(j) /\ turn' = IF turn[t].by = j THEN [turn EXCEPT ![t].live = FALSE] ELSE turn
    <3>1. turn' = [turn EXCEPT ![t] = [turn[t] EXCEPT !.live = FALSE]]
        BY <1>2, <2>1
    <3>2. \A u \in Turns : /\ turn'[u].open = turn[u].open /\ turn'[u].msgs = turn[u].msgs
                           /\ turn'[u].by = turn[u].by /\ (u # t => turn'[u].live = turn[u].live)
        BY <1>2, <3>1, LiveWritten DEF Inv
    <3> QED
        BY <1>1, <1>2, <2>1, <3>2, LeavesTurned DEF Reads
  <2>2. CASE /\ job' = [job EXCEPT ![j].pc = "halting", ![j].verdict = "gone"]
             /\ turn' = Stopped({t})
    <3>1. /\ job'[j].pc \in OnTurnPcs /\ job'[j].turn = t
          /\ \A k \in Jobs \ {j} : job'[k] = job[k]
        BY <1>3, <2>2
    <3>2. \A u \in Turns : /\ turn'[u].open = turn[u].open /\ turn'[u].by = turn[u].by
                           /\ turn'[u].live = turn[u].live /\ turn'[u].msgs = turn[u].msgs
        BY <2>2, StoppedOnlyProc DEF Inv
    <3> QED
        BY <1>1, <3>1, <3>2, GoesOnTurned DEF RowStep, Reads
  <2> QED
      BY <1>6, <2>1, <2>2 DEF StreamTrouble
<1> QED
    BY <1>4, <1>5, <1>6

\* The turn is over: there is none until the job has moved the agent on.
LEMMA HaltTurned ==
    ASSUME Inv, NEW j \in Jobs, Halt(j)
    PROVE  Turned'
<1> DEFINE t == job[j].turn
<1>1. job[j].pc \in OnTurnPcs /\ UNCHANGED <<agent, fresh, into, pass>>
    BY DEF Halt, At, OnTurnPcs, Holding
<1>2. /\ t \in Turns /\ Busy(j) /\ Open = {t} /\ turn[t].by = j /\ turn[t].live
      /\ turn[t] \in Turn /\ agent.state \notin {"idle", "queued"}
    BY <1>1, OwnTurn DEF Inv, TypeOK
<1>3. /\ job'[j].pc = "looking" /\ job'[j].turn = t
      /\ \A k \in Jobs \ {j} : job'[k] = job[k]
    BY GotoDoes DEF Halt, Inv
<1>4. turn' = [turn EXCEPT ![t] = [turn[t] EXCEPT !.open = FALSE]]
    BY DEF Halt
<1>5. /\ ~turn'[t].open /\ turn'[t].by = j /\ turn'[t].live /\ turn'[t].msgs = turn[t].msgs
      /\ \A u \in Turns \ {t} : turn'[u] = turn[u]
    BY <1>2, <1>4 DEF Turn, Inv, TypeOK
<1>6. Open' = {}
    BY <1>2, <1>5 DEF Open
<1>7. Owns(j)' /\ Tails(j)
  <2>1. \A k \in Jobs : job'[k].pc \notin AtWork
      BY <1>2, <1>3 DEF Inv, Turned, Alone, Busy, AtWork
  <2>2. Owns(j)'
      BY <1>3, <1>5, <1>6, <2>1 DEF Owns, At, AtRest, OnTurnPcs
  <2> QED
      BY <1>2, <1>5, <2>2, TailsKept
<1>8. OneOpen' /\ AllOrNone'
    BY <1>6 DEF OneOpen, AllOrNone
<1> QED
    BY <1>1, <1>2, <1>3, <1>7, <1>8, BusyStep

\* A job that leaves is neither at work nor has it a turn to move on from.
LEMMA LeaveAside ==
    ASSUME Inv, NEW j \in Jobs, Leave(j)
    PROVE  \A k \in Jobs : Calm(k)
<1>1. \A k \in Jobs : job'[k] = (IF k = j THEN NoOne ELSE job[k])
    BY DEF Leave, Inv, TypeOK
<1>2. ~Busy(j)' /\ ~(job[j].pc \in After)'
    BY <1>1, NoOneType, AtWorkIs DEF Busy
<1> QED
    BY <1>1, <1>2 DEF Calm

\* What the job reads is an agent at rest: it may be idle, or queued, if a pass
\* came first.
LEMMA ReadAfterTurned ==
    ASSUME Inv, NEW j \in Jobs, ReadAfter(j)
    PROVE  Turned'
<1>1. job[j].pc = "looking" /\ UNCHANGED <<agent, into, turn, pass>> /\ fresh' = fresh \cup {j}
    BY DEF ReadAfter, At
<1>2. AtRest /\ Owns(j)
    BY <1>1 DEF At, Inv, Turned, Owns
<1>3. /\ job'[j].pc = "moving" /\ job'[j].turn = job[j].turn
      /\ \A k \in Jobs \ {j} : job'[k] = job[k]
    BY GotoDoes DEF ReadAfter, Inv
<1>4. Open' = Open /\ OneOpen' /\ AllOrNone'
    BY <1>1 DEF Open, OneOpen, AllOrNone, Untouched, Taken, Inv, Turned
<1>5. AtRest' /\ \A k \in Jobs : ~Busy(k)'
    BY <1>2, <1>3, <1>4 DEF AtRest, AtWork, Busy
<1>6. Owns(j)'
    BY <1>1, <1>2, <1>3, <1>5 DEF Owns, At, OnTurnPcs, Holding
<1>7. \A k \in Jobs \ {j} : Owns(k)'
    BY <1>1, <1>3, <1>4, <1>5 DEF Owns, At, Inv, Turned
<1>8. ASSUME NEW r \in Passes PROVE Granted(r)'
  <2>1. r \in fresh' => r \in fresh
      BY <1>1, Parameters
  <2> QED
      BY <1>1, <1>4, <1>5, <2>1, GrantedKept DEF Inv, Turned
<1> QED
    BY <1>4, <1>5, <1>6, <1>7, <1>8 DEF Turned, Alone, Free

\* The agent may become idle here: the job has missed no write since it read it,
\* so it is still at rest.
LEMMA MoveOnTurned ==
    ASSUME Inv, NEW j \in Jobs, MoveOn(j)
    PROVE  Turned'
<1> DEFINE t == job[j].turn
<1>1. job[j].pc = "moving" /\ UNCHANGED <<into, pass>> /\ Leave(j)
    BY DEF MoveOn, At
<1>2. \/ UNCHANGED <<agent, fresh>>
      \/ j \in fresh /\ fresh' = {}
    BY DEF MoveOn, WriteAgent
<1>3. UNCHANGED agent \/ AtRest
    BY <1>1, <1>2 DEF Inv, Turned, Owns, At
<1>4. PICK ts : turn' = [Stopped(ts) EXCEPT ![t].live = (@ /\ turn[t].by # j)]
    BY DEF MoveOn
<1> DEFINE S   == Stopped(ts)
           b   == S[t].live /\ turn[t].by # j
           row == [S[t] EXCEPT !.live = b]
<1>5. turn' = [S EXCEPT ![t] = row] /\ DOMAIN S = Turns
    BY <1>4 DEF Stopped
<1>6. \A u \in Turns : /\ S[u] \in Turn /\ S[u].open = turn[u].open /\ S[u].msgs = turn[u].msgs
                       /\ S[u].by = turn[u].by /\ S[u].live = turn[u].live
                       /\ S[u].exec = turn[u].exec
    BY StoppedOnlyProc DEF Inv
<1>7. t \in Turns => /\ row.open = S[t].open /\ row.msgs = S[t].msgs
                     /\ row.by = S[t].by /\ row.exec = S[t].exec
    BY <1>6 DEF Turn
<1> HIDE DEF S, b, row
<1>8. \A u \in Turns : /\ turn'[u].open = turn[u].open /\ turn'[u].msgs = turn[u].msgs
                       /\ turn'[u].by = turn[u].by /\ turn'[u].exec = turn[u].exec
                       /\ u # t => turn'[u].live = turn[u].live
  <2>1. turn' = [u \in Turns |-> IF u = t THEN row ELSE S[u]]
      BY <1>5
  <2> QED
      BY <1>6, <1>7, <2>1
<1>9. \A k \in Jobs : Calm(k) /\ (k # j => job'[k] = job[k])
    BY <1>1, LeaveAside DEF Leave, Inv, TypeOK
<1>10. ASSUME NEW k \in Jobs, job[k].pc \in Holding, job'[k] = job[k]
       PROVE  /\ turn'[job[k].turn].by = turn[job[k].turn].by
              /\ turn'[job[k].turn].live = turn[job[k].turn].live
  <2>1. k # j
      BY <1>1, <1>9, <1>10, NoOneType DEF Leave, Inv, TypeOK
  <2>2. turn[job[k].turn].by = k /\ job[k].turn \in Turns /\ turn[t].by = j
      BY <1>1, <1>10 DEF Holding, Inv, Safe, Fits, Created, Turned, Owns
  <2> QED
      BY <1>8, <2>1, <2>2
<1>11. Open' = Open /\ AllOrNone'
    BY <1>1, <1>8, AllOrNoneKept DEF Open, Inv, Turned
<1>12. ASSUME NEW r \in Passes PROVE Granted(r)'
  <2>1. CASE fresh' = {}
      BY <2>1 DEF Granted
  <2>2. CASE UNCHANGED <<agent, fresh>>
    <3>1. \A k \in Jobs : Busy(k)' => Busy(k)
        BY <1>9 DEF Calm, Busy
    <3>2. \A u \in Open : turn'[u].exec = turn[u].exec
        BY <1>8 DEF Open
    <3> QED
        BY <1>1, <1>11, <2>2, <3>1, <3>2, GrantedKept DEF Inv, Turned
  <2> QED
      BY <1>2, <2>1, <2>2
<1>13. agent'.state \in {"idle", "queued"} => agent.state \in {"idle", "queued"} \/ AtRest
    BY <1>3
<1>14. \A k \in Jobs : k \in fresh' => k \in fresh
    BY <1>2
<1> QED
    BY <1>8, <1>9, <1>10, <1>11, <1>12, <1>13, <1>14, CalmStep

\* A live job's lease is live already.
LEMMA NothingToRenew ==
    ASSUME Inv, NEW j \in Jobs
    PROVE  ~Renew(j)
<1> SUFFICES ASSUME NEW t \in Turns, HasHold(j, t), turn[t].by = j, ~turn[t].live
             PROVE  FALSE
    BY DEF Renew
<1>1. job[j].pc \in Holding
  <2>1. job[j] \in Job
      BY DEF Inv, TypeOK
  <2>2. job[j].pc \in {"idle", "ready", "claiming", "claimed", "acquiring", "starting",
              "recording", "recorded", "beginning", "toRunning", "streaming",
              "halting", "looking", "moving", "attach", "attaching"}
      BY <2>1 DEF Job
  <2> QED
      BY <2>2 DEF HasHold, Holding
<1> QED
    BY <1>1 DEF Inv, Turned, Owns, HasHold

LEMMA CrashTurned ==
    ASSUME Inv, NEW j \in Jobs, Crash(j)
    PROVE  Turned'
<1>1. UNCHANGED <<agent, into, turn, pass>> /\ fresh' = fresh \ {j} /\ Leave(j)
    BY DEF Crash
<1>2. CASE Busy(j)
    BY <1>1, <1>2, LeavesTurned DEF Reads
<1>3. CASE ~Busy(j)
  <2>1. \A k \in Jobs : Calm(k)
      BY <1>1, LeaveAside
  <2>2. \A k \in Jobs : Busy(k)' => Busy(k)
      BY <2>1 DEF Calm, Busy
  <2>3. Open' = Open /\ AllOrNone'
      BY <1>1, AllOrNoneKept DEF Open, Inv, Turned
  <2>4. \A x \in fresh' : x \in fresh
      BY <1>1
  <2>5. \A r \in Passes : Granted(r)'
      BY <1>1, <2>2, <2>3, <2>4, GrantedKept DEF Inv, Turned
  <2> QED
      BY <1>1, <2>1, <2>3, <2>4, <2>5, CalmStep DEF Inv, Turned, Free
<1> QED
    BY <1>2, <1>3

-----------------------------------------------------------------------------
(* A job that is not at work yet.                                           *)

LEMMA NobodyAtWork ==
    ASSUME Inv, NEW t \in Open, ~turn[t].live
    PROVE  \A k \in Jobs : ~Busy(k)
<1> SUFFICES ASSUME NEW k \in Jobs, Busy(k) PROVE FALSE
    OBVIOUS
<1>1. CASE job[k].pc \in OnTurnPcs
    BY <1>1, OwnTurn
<1>2. CASE job[k].pc \notin OnTurnPcs
    BY <1>2, AtWorkIs DEF Busy, At, Inv, Turned, Owns
<1> QED
    BY <1>1, <1>2

\* Steps that read and leave, or wait: nobody is at work who was not.
LEMMA AsideTurned ==
    ASSUME Inv, NEW j \in Jobs, \A k \in Jobs : Calm(k), job[j].pc # "moving",
           UNCHANGED <<agent, into, turn, pass>>, fresh' \in {fresh, fresh \cup {j}}
    PROVE  Turned'
<1>1. /\ \A k \in Jobs : Busy(k)' => Busy(k)
      /\ \A k \in Jobs : At(k, "moving") /\ k \in fresh' => k \in fresh
    BY DEF Busy, Calm, At
<1>2. Open' = Open /\ AllOrNone'
    BY AllOrNoneKept DEF Open, Inv, Turned
<1>3. \A r \in Passes : r \in fresh' => r \in fresh
    BY Parameters
<1>4. \A r \in Passes : Granted(r)'
    BY <1>1, <1>2, <1>3, GrantedKept DEF Inv, Turned
<1> QED
    BY <1>1, <1>2, <1>4, CalmStep DEF Inv, Turned, Free

LEMMA LookTurned ==
    ASSUME Inv, NEW j \in Jobs, Look(j) \/ AttachTurn(j)
    PROVE  Turned'
<1>1. /\ UNCHANGED <<agent, into, turn, pass>> /\ fresh' \in {fresh, fresh \cup {j}}
      /\ job[j].pc \in {"ready", "attach"}
    BY DEF Look, AttachTurn, At
<1>2. Leave(j) \/ Goto(j, "claiming") \/ Goto(j, "attaching")
    BY DEF Look, AttachTurn
<1>3. ASSUME NEW pc \in {"claiming", "attaching"}, Goto(j, pc)
      PROVE  \A k \in Jobs : Calm(k)
    BY <1>3, GotoDoes DEF Busy, AtWork, After, Calm, Inv
<1> QED
    BY <1>1, <1>2, <1>3, LeaveAside, AsideTurned

\* A queued agent has nobody at work for it, so the job that claims it is alone.
\* What others may have read after their turns is old from here on.
LEMMA ClaimTurned ==
    ASSUME Inv, NEW j \in Jobs, Claim(j), Claims => AllRead
    PROVE  Turned'
<1>1. UNCHANGED <<into, turn, pass>> /\ job[j].pc = "claiming"
    BY DEF Claim, At
<1>2. CASE ClaimCas(j)
  <2>1. Goto(j, "claimed") /\ agent' = [agent EXCEPT !.state = "provisioning"] /\ fresh' = {}
      BY <1>2 DEF Claim, WriteAgent
  <2>2. agent.state = "queued" /\ agent'.state = "provisioning"
    <3>1. agent \in Agent
        BY DEF Inv, TypeOK
    <3>2. agent'.state = "provisioning" /\ agent.state \in States
        BY <2>1, <3>1 DEF Agent
    <3>3. CanMove("provisioning") => agent.state = "queued"
        BY <3>2, StatesAre DEF CanMove, NextStates
    <3> QED
        BY <1>2, <3>2, <3>3 DEF ClaimCas
  <2>3. Open = {} /\ \A k \in Jobs : ~Busy(k)
      BY <2>2 DEF Inv, Turned, Free, AtRest, Busy
  <2>4. Open' = {}
      BY <1>1, <2>3 DEF Open
  <2>5. job'[j].pc = "claimed" /\ \A k \in Jobs \ {j} : job'[k] = job[k]
      BY <2>1, GotoDoes DEF Inv
  <2>6. ASSUME NEW k \in Jobs \ {j} PROVE ~Busy(k)' /\ Owns(k)'
    <3>1. job'[k] = job[k] /\ ~Busy(k) /\ ~At(k, "looking") /\ Owns(k)
        BY <2>2, <2>3, <2>5 DEF Claims, AllRead, Inv, Turned
    <3> QED
        BY <1>1, <2>1, <2>4, <3>1, AtWorkIs DEF Busy, Owns, At
  <2>7. Owns(j)'
      BY <2>4, <2>5 DEF Owns, At, OnTurnPcs, Holding
  <2>8. Alone' /\ OneOpen' /\ AllOrNone' /\ Free'
      BY <2>2, <2>4, <2>6 DEF Alone, OneOpen, AllOrNone, Free
  <2>9. \A r \in Passes : Granted(r)'
      BY <2>1 DEF Granted
  <2> QED
      BY <2>6, <2>7, <2>8, <2>9 DEF Turned
<1>3. CASE ~ClaimCas(j)
    BY <1>1, <1>3, LeaveAside, AsideTurned DEF Claim
<1> QED
    BY <1>2, <1>3

\* So is the one that takes over a turn whose lease has lapsed.
LEMMA AttachTurned ==
    ASSUME Inv, NEW j \in Jobs, ClaimAttachment(j)
    PROVE  Turned'
<1> DEFINE t == job[j].turn
<1>1. UNCHANGED <<agent, fresh, into, pass>> /\ job[j].pc = "attaching"
    BY DEF ClaimAttachment, At
<1>2. t \in Turns
    BY <1>1 DEF Inv, Safe, Fits
<1>3. turn[t] \in Turn /\ job[j] \in Job
    BY <1>2 DEF Inv, TypeOK
<1>4. CASE turn[t].exec \in {"started", "exited"} /\ turn[t].open /\ ~turn[t].live
  <2>1. t \in Open /\ \A u \in Open : u = t
      BY <1>2, <1>4 DEF Open, Inv, Turned, OneOpen
  <2>2. \A k \in Jobs : ~Busy(k)
      BY <1>4, <2>1, NobodyAtWork
  <2>3. PICK e \in {"started", "exited"} :
          turn' = [turn EXCEPT ![t] = [turn[t] EXCEPT !.by = j, !.live = TRUE, !.exec = e]]
    <3>1. CASE pod = "ready"
      <4>1. turn' = [turn EXCEPT ![t] = [turn[t] EXCEPT !.by = j, !.live = TRUE]]
          BY <1>4, <3>1 DEF ClaimAttachment
      <4>2. [turn[t] EXCEPT !.by = j, !.live = TRUE]
              = [turn[t] EXCEPT !.by = j, !.live = TRUE, !.exec = turn[t].exec]
          BY <1>3 DEF Turn
      <4> QED
          BY <1>4, <4>1, <4>2
    <3>2. CASE pod # "ready"
        BY <1>4, <3>2 DEF ClaimAttachment
    <3> QED
        BY <3>1, <3>2
  <2>4. /\ turn'[t].by = j /\ turn'[t].live /\ turn'[t].open /\ turn'[t].msgs = turn[t].msgs
        /\ \A u \in Turns \ {t} : turn'[u] = turn[u]
      BY <1>2, <1>3, <1>4, <2>3 DEF Turn, Inv, TypeOK
  <2>5. Open' = Open
      BY <1>2, <1>4, <2>4 DEF Open
  <2>6. /\ job'[j].pc \in {"recorded", "halting"} /\ job'[j].turn = t
        /\ \A k \in Jobs \ {j} : job'[k] = job[k]
    <3>1. \/ job' = [job EXCEPT ![j] = [job[j] EXCEPT !.pc = "recorded"]]
          \/ job' = [job EXCEPT ![j] = [job[j] EXCEPT !.pc = "halting", !.verdict = "gone"]]
        BY <1>4 DEF ClaimAttachment
    <3>2. /\ [job[j] EXCEPT !.pc = "recorded"].pc = "recorded"
          /\ [job[j] EXCEPT !.pc = "recorded"].turn = t
          /\ [job[j] EXCEPT !.pc = "halting", !.verdict = "gone"].pc = "halting"
          /\ [job[j] EXCEPT !.pc = "halting", !.verdict = "gone"].turn = t
        BY <1>3 DEF Job
    <3> QED
        BY <3>1, <3>2 DEF Inv, TypeOK
  <2>7. ASSUME NEW k \in Jobs \ {j} PROVE ~Busy(k)' /\ Owns(k)'
    <3>1. job'[k] = job[k] /\ ~Busy(k) /\ Owns(k) /\ ~AtRest
        BY <2>1, <2>2, <2>6 DEF AtRest, Inv, Turned
    <3>2. job[k].pc \in Holding => job[k].turn \in Turns \ {t}
        BY <1>4, <3>1 DEF Owns, Inv, Safe, Fits, Created
    <3> QED
        BY <1>1, <2>4, <2>5, <3>1, <3>2, AtWorkIs DEF Busy, Owns, At
  <2>8. Owns(j)'
    <3>1. job'[j].pc \in OnTurnPcs
        BY <2>6 DEF OnTurnPcs, Holding
    <3> QED
        BY <2>1, <2>4, <2>5, <2>6, <3>1, WorkingOwns
  <2>9. Alone' /\ OneOpen' /\ AllOrNone'
    <3>1. \A u \in Turns : turn'[u].msgs = turn[u].msgs
        BY <2>4
    <3> QED
        BY <1>1, <2>5, <2>7, <3>1, AllOrNoneKept DEF Alone, OneOpen, Inv, Turned
  <2>10. agent.state \notin {"idle", "queued"}
      BY <2>1 DEF Inv, Turned, Free, AtRest
  <2>11. Free'
      BY <1>1, <2>10 DEF Free
  <2>12. ASSUME NEW r \in Passes PROVE Granted(r)'
    <3>1. r \in fresh => pass[r].do \notin {"requeue", "toIdle"}
        BY <1>4, <2>1 DEF Inv, Turned, Granted
    <3> QED
        BY <1>1, <3>1 DEF Inv, Turned, Granted
  <2> QED
      BY <2>7, <2>8, <2>9, <2>11, <2>12 DEF Turned
<1>5. CASE ~(turn[t].exec \in {"started", "exited"} /\ turn[t].open /\ ~turn[t].live)
  <2>1. Leave(j) /\ UNCHANGED turn
      BY <1>5 DEF ClaimAttachment
  <2> QED
      BY <1>1, <2>1, LeaveAside, AsideTurned
<1> QED
    BY <1>4, <1>5

-----------------------------------------------------------------------------
(* The world around the jobs.                                               *)

LEMMA SendTurned ==
    ASSUME Inv, NEW m \in Messages, Send(m)
    PROVE  Turned'
<1>1. /\ into[m] = Unsent /\ into' = [into EXCEPT ![m] = Pending]
      /\ UNCHANGED <<agent, fresh, turn, job, pass>>
    BY DEF Send
<1>2. Open' = Open /\ \A k \in Jobs : Busy(k)' => Busy(k)
    BY <1>1 DEF Open, Busy
<1>3. AllOrNone'
  <2> SUFFICES ASSUME NEW t \in Open PROVE Untouched(t)' \/ Taken(t)'
      BY <1>2 DEF AllOrNone
  <2>1. t > 0 /\ turn[t].msgs \subseteq Messages
      BY DEF Open, Turns, Inv, TypeOK, Turn
  <2>2. \A n \in Messages : into'[n] = (IF n = m THEN Pending ELSE into[n])
      BY <1>1 DEF Inv, TypeOK
  <2>3. CASE Untouched(t)
      BY <1>1, <2>1, <2>2, <2>3 DEF Untouched, Pending
  <2>4. CASE Taken(t)
      BY <1>1, <2>1, <2>2, <2>4 DEF Taken, Unsent
  <2> QED
      BY <2>3, <2>4 DEF Inv, Turned, AllOrNone
<1>4. \A r \in Passes : Granted(r)'
    BY <1>1, <1>2, GrantedKept DEF Inv, Turned
<1> QED
    BY <1>1, <1>2, <1>3, <1>4, CalmStep DEF Calm

LEMMA IntentTurned ==
    ASSUME Inv, NEW i \in Intents, SetControlIntent(i)
    PROVE  Turned'
<1>1. UNCHANGED <<into, turn, job, pass>> /\ fresh' = {} /\ agent' = [agent EXCEPT !.intent = i]
    BY DEF SetControlIntent, WriteAgent
<1>2. agent'.state = agent.state
    BY <1>1 DEF Inv, TypeOK, Agent
<1>3. AllOrNone'
    BY <1>1, AllOrNoneKept DEF Open, Inv, Turned
<1>4. \A r \in Passes : Granted(r)'
    BY <1>1 DEF Granted
<1> QED
    BY <1>1, <1>2, <1>3, <1>4, CalmStep DEF Calm

\* Steps that touch neither jobs nor decisions nor the row.
LEMMA TurnsOnly ==
    ASSUME Inv, UNCHANGED <<agent, fresh, into, job, pass>>,
           \A t \in Turns : /\ turn'[t].open = turn[t].open /\ turn'[t].by = turn[t].by
                            /\ turn'[t].msgs = turn[t].msgs /\ turn'[t].exec = turn[t].exec,
           \A k \in Jobs : job[k].pc \in Holding => turn'[job[k].turn].live = turn[job[k].turn].live
    PROVE  Turned'
<1>1. Open' = Open /\ Open \subseteq Turns
    BY DEF Open
<1>2. AllOrNone'
    BY <1>1, AllOrNoneKept DEF Inv, Turned
<1>3. \A k \in Jobs : Busy(k)' => Busy(k)
    BY DEF Busy
<1>4. \A r \in Passes : Granted(r)'
    BY <1>1, <1>3, GrantedKept DEF Inv, Turned
<1>5. \A k \in Jobs : job[k].pc \in Holding => job[k].turn \in Turns
    BY DEF Inv, Safe, Fits, Created
<1> QED
    BY <1>2, <1>4, <1>5, CalmStep DEF Calm

LEMMA ProcsTurned ==
    ASSUME Inv, (\E t \in Turns : AgentEnds(t)) \/ PodDies \/ ReapRead \/ ReapPod
    PROVE  Turned'
<1>1. UNCHANGED <<agent, fresh, into, job, pass>>
    BY DEF AgentEnds, PodDies, ReapRead, ReapPod
<1>2. \A t \in Turns : /\ turn'[t].open = turn[t].open /\ turn'[t].by = turn[t].by
                       /\ turn'[t].msgs = turn[t].msgs /\ turn'[t].exec = turn[t].exec
                       /\ turn'[t].live = turn[t].live
  <2>1. ASSUME NEW t \in Turns, AgentEnds(t)
        PROVE  \E end : turn' = [turn EXCEPT ![t] = [turn[t] EXCEPT !.proc = end]]
      BY <2>1 DEF AgentEnds
  <2>2. ASSUME NEW t \in Turns, NEW end, turn' = [turn EXCEPT ![t] = [turn[t] EXCEPT !.proc = end]]
        PROVE  \A u \in Turns : /\ turn'[u].open = turn[u].open /\ turn'[u].by = turn[u].by
                                /\ turn'[u].msgs = turn[u].msgs /\ turn'[u].exec = turn[u].exec
                                /\ turn'[u].live = turn[u].live
      BY <2>2 DEF Inv, TypeOK, Turn
  <2>3. CASE PodDies \/ ReapPod
    <3>1. turn' = Lost
        BY <2>3 DEF PodDies, ReapPod
    <3> QED
        BY <3>1 DEF Lost, Inv, TypeOK, Turn
  <2>4. CASE ReapRead
      BY <2>4 DEF ReapRead
  <2> QED
      BY <2>1, <2>2, <2>3, <2>4
<1>3. \A k \in Jobs : job[k].pc \in Holding => job[k].turn \in Turns
    BY DEF Inv, Safe, Fits, Created
<1> QED
    BY <1>1, <1>2, <1>3, TurnsOnly

\* Only a lease nobody at work holds runs out.
LEMMA LapseTurned ==
    ASSUME Inv, NEW t \in Turns, LeaseLapses(t)
    PROVE  Turned'
<1>1. UNCHANGED <<agent, fresh, into, job, pass>>
      /\ turn' = [turn EXCEPT ![t] = [turn[t] EXCEPT !.live = FALSE]]
    BY DEF LeaseLapses
<1>2. ASSUME NEW k \in Jobs, job[k].pc \in Holding PROVE job[k].turn # t
    BY <1>2 DEF LeaseLapses, HasHold, Holding, Inv, Turned, Owns
<1>3. \A k \in Jobs : job[k].pc \in Holding => job[k].turn \in Turns
    BY DEF Inv, Safe, Fits, Created
<1> QED
    BY <1>1, <1>2, <1>3, LiveWritten, TurnsOnly DEF Inv

-----------------------------------------------------------------------------
(* The reconciler's passes.                                                 *)

LEMMA PassesKept ==
    ASSUME Inv, NEW r \in Passes, UNCHANGED <<agent, into, turn, job>>,
           \A q \in Passes \ {r} : pass'[q] = pass[q],
           \A x \in fresh' : x \in fresh \cup {r},
           Granted(r)'
    PROVE  Turned'
<1>1. Open' = Open
    BY DEF Open
<1>2. \A k \in Jobs : Busy(k)' => Busy(k)
    BY DEF Busy
<1>3. \A q \in Passes \ {r} : Granted(q)'
    BY <1>1, <1>2, GrantedKept DEF Inv, Turned
<1>4. AllOrNone'
    BY <1>1, AllOrNoneKept DEF Inv, Turned
<1>5. \A k \in Jobs : k \in fresh' => k \in fresh
    BY Parameters
<1> QED
    BY <1>3, <1>4, <1>5, CalmStep DEF Calm

\* A requeue is decided only with nobody at work.
LEMMA RequeueGranted ==
    ASSUME Inv, (Unheld /\ turn[OpenTurn].exec = "none") \/ GraceOver
    PROVE  \A j \in Jobs : ~Busy(j)
<1>1. CASE Unheld
    BY <1>1, OpenTurnIsOpen, NobodyAtWork DEF Unheld, Inv, Turned
<1>2. CASE GraceOver
  <2> SUFFICES ASSUME NEW j \in Jobs, Busy(j) PROVE FALSE
      OBVIOUS
  <2>1. job[j].pc \notin OnTurnPcs
      BY <1>2 DEF GraceOver, Inv, Turned, Owns
  <2> QED
      BY <1>2, <2>1, AtWorkIs DEF GraceOver, Busy, At
<1> QED
    BY <1>1, <1>2

LEMMA DecideFields ==
    ASSUME NEW do, NEW to, NEW t, NEW n
    PROVE  /\ Decide(do, to, t, n).do = do /\ Decide(do, to, t, n).to = to
           /\ Decide(do, to, t, n).turn = t /\ Decide(do, to, t, n).failures = n
    BY DEF Decide

\* What the decision function grants.
LEMMA DecidedGrants ==
    ASSUME Inv, NEW d, d = Decided
    PROVE  /\ d.do # "toIdle"
           /\ d.do = "requeue" => \A j \in Jobs : ~Busy(j)
           /\ d.do = "requeue" => \A t \in Open : t = d.turn /\ turn[t].exec = "none"
           /\ d.do = "move" /\ d.to = "idle" => agent.intent \in {"resume", "restart"}
           /\ d.do = "move" /\ d.to = "queued" => agent.state = "idle"
<1>1. agent.intent \in {"none", "pause", "resume", "archive", "restart"}
    BY DEF Inv, TypeOK, Agent
<1>2. CASE agent.intent # "none"
  <2>1. d = Intent
      BY <1>2 DEF Decided
  <2>2. CASE agent.intent = "pause"
      BY <2>1, <2>2, DecideFields DEF Intent
  <2>3. CASE agent.intent = "resume"
      BY <2>1, <2>3, DecideFields DEF Intent
  <2>4. CASE agent.intent = "archive"
      BY <2>1, <2>4, DecideFields DEF Intent
  <2>5. CASE agent.intent = "restart"
      BY <2>1, <2>5, DecideFields DEF Intent
  <2> QED
      BY <1>1, <1>2, <2>2, <2>3, <2>4, <2>5
<1>3. CASE agent.intent = "none"
  <2>1. \/ d = Decide("move", "queued", 0, "keep") /\ agent.state = "idle"
        \/ d = Decide("enqueue", "idle", 0, "keep")
        \/ d = Decide("attach", "idle", OpenTurn, "keep")
        \/ d = Decide("requeue", "idle", OpenTurn, "keep") /\ NeverStarted
        \/ d = Decide("requeue", "idle", 0, "keep") /\ GraceOver
        \/ d = Noop
      BY <1>3 DEF Decided
  <2>2. CASE d = Decide("requeue", "idle", OpenTurn, "keep") /\ NeverStarted
    <3>1. d.do = "requeue" /\ d.turn = OpenTurn
        BY <2>2, DecideFields
    <3>2. \A t \in Open : t = OpenTurn
        BY OpenTurnIsOpen DEF Inv, Turned
    <3> QED
        BY <2>2, <3>1, <3>2, RequeueGranted DEF NeverStarted
  <2>3. CASE d = Decide("requeue", "idle", 0, "keep") /\ GraceOver
    <3>1. d.do = "requeue" /\ Open = {}
        BY <2>3, DecideFields DEF GraceOver
    <3> QED
        BY <2>3, <3>1, RequeueGranted
  <2> QED
      BY <2>1, <2>2, <2>3, DecideFields DEF Noop
<1> QED
    BY <1>2, <1>3

LEMMA ObserveTurned ==
    ASSUME Inv, NEW r \in Passes, Observe(r) \/ ObserveStall(r)
    PROVE  Turned'
<1>1. UNCHANGED <<agent, into, turn, job>> /\ fresh' = fresh \cup {r}
    BY DEF Observe, ObserveStall
<1>2. PICK d \in {Decided, Decide("move", "failed", 0, "more")} : pass' = [pass EXCEPT ![r] = d]
    BY DEF Observe, ObserveStall
<1>3. pass'[r] = d /\ \A q \in Passes \ {r} : pass'[q] = pass[q]
    BY <1>2 DEF Inv, TypeOK
<1>4. \A k \in Jobs : Busy(k)' = Busy(k)
    BY <1>1 DEF Busy
<1>5. Granted(r)'
  <2>1. CASE d = Decided
      BY <1>1, <1>3, <1>4, <2>1, DecidedGrants DEF Granted, Open
  <2>2. CASE d = Decide("move", "failed", 0, "more")
      BY <1>1, <1>3, <2>2, DecideFields DEF Granted
  <2> QED
      BY <2>1, <2>2
<1> QED
    BY <1>1, <1>3, <1>5, PassesKept

\* A pass that is over is granted nothing.
LEMMA NoopGranted ==
    ASSUME NEW r \in Passes, pass'[r] = Noop
    PROVE  Granted(r)'
<1>1. pass'[r].do = "none"
    BY DecideFields DEF Noop
<1> QED
    BY <1>1 DEF Granted

LEMMA ApplyMoveTurned ==
    ASSUME Inv, NEW r \in Passes, ApplyMove(r), Revives => AtRest
    PROVE  Turned'
<1>1. /\ UNCHANGED <<into, job>> /\ pass' = [pass EXCEPT ![r] = Noop] /\ pass[r].do = "move"
    BY DEF ApplyMove
<1>2. pass'[r] = Noop /\ \A q \in Passes \ {r} : pass'[q] = pass[q]
    BY <1>1 DEF Inv, TypeOK
<1>3. CASE r \in fresh
  <2>1. /\ fresh' = {} /\ agent'.state = pass[r].to /\ agent'.intent = "none"
        /\ turn' = Stopped(IF StopsTurns(pass[r].to) THEN OpenStarted ELSE {})
      BY <1>3 DEF ApplyMove, WriteAgent
  <2>2. \A t \in Turns : /\ turn'[t].open = turn[t].open /\ turn'[t].by = turn[t].by
                         /\ turn'[t].live = turn[t].live /\ turn'[t].msgs = turn[t].msgs
      BY <2>1, StoppedOnlyProc DEF Inv
  <2>3. Open' = Open /\ \A q \in Passes : Granted(q)'
      BY <2>1, <2>2 DEF Open, Granted
  <2>4. AllOrNone'
      BY <1>1, <2>2, <2>3, AllOrNoneKept DEF Inv, Turned
  <2>5. Granted(r)
      BY DEF Inv, Turned
  <2>6. agent'.state = "idle" => AtRest
      BY <1>1, <1>3, <2>1, <2>5 DEF Revives, Granted
  <2>7. agent'.state = "queued" => agent.state = "idle"
      BY <1>1, <1>3, <2>1, <2>5 DEF Granted
  <2>8. \A k \in Jobs : job[k].pc \in Holding => job[k].turn \in Turns
      BY DEF Inv, Safe, Fits, Created
  <2>9. \A k \in Jobs : Calm(k)
      BY <1>1 DEF Calm
  <2>10. agent'.state \in {"idle", "queued"} => agent.state \in {"idle", "queued"} \/ AtRest
      BY <2>6, <2>7
  <2>11. \A k \in Jobs : job[k].pc \in Holding /\ job'[k] = job[k] =>
           /\ turn'[job[k].turn].by = turn[job[k].turn].by
           /\ turn'[job[k].turn].live = turn[job[k].turn].live
      BY <2>2, <2>8
  <2>12. \A k \in Jobs : k \notin fresh'
      BY <2>1
  <2> QED
      BY <2>2, <2>3, <2>4, <2>9, <2>10, <2>11, <2>12, CalmStep
<1>4. CASE r \notin fresh
  <2>1. UNCHANGED <<agent, fresh, turn>>
      BY <1>4 DEF ApplyMove
  <2> QED
      BY <1>1, <1>2, <2>1, NoopGranted, PassesKept
<1> QED
    BY <1>3, <1>4

\* A write of the row that leaves its state as it is.
LEMMA ApplyClearTurned ==
    ASSUME Inv, NEW r \in Passes, ApplyClear(r)
    PROVE  Turned'
<1>1. UNCHANGED <<into, turn, job>> /\ pass' = [pass EXCEPT ![r] = Noop]
    BY DEF ApplyClear
<1>2. pass'[r] = Noop /\ \A q \in Passes \ {r} : pass'[q] = pass[q]
    BY <1>1 DEF Inv, TypeOK
<1>3. CASE r \in fresh
  <2>1. agent' = [agent EXCEPT !.intent = "none"] /\ fresh' = {}
      BY <1>3 DEF ApplyClear, WriteAgent
  <2>2. agent'.state = agent.state
      BY <2>1 DEF Inv, TypeOK, Agent
  <2>3. \A q \in Passes : Granted(q)'
      BY <2>1 DEF Granted
  <2>4. AllOrNone'
      BY <1>1, AllOrNoneKept DEF Open, Inv, Turned
  <2> QED
      BY <1>1, <2>1, <2>2, <2>3, <2>4, CalmStep DEF Calm
<1>4. CASE r \notin fresh
  <2>1. UNCHANGED <<agent, fresh>>
      BY <1>4 DEF ApplyClear
  <2> QED
      BY <1>1, <1>2, <2>1, NoopGranted, PassesKept
<1> QED
    BY <1>3, <1>4

\* A queued job is not at work yet.
LEMMA ApplyQueueTurned ==
    ASSUME Inv, NEW r \in Passes, ApplyQueue(r)
    PROVE  Turned'
<1>1. UNCHANGED <<agent, fresh, into, turn>> /\ pass' = [pass EXCEPT ![r] = Noop]
    BY DEF ApplyQueue
<1>2. pass'[r] = Noop /\ \A q \in Passes \ {r} : pass'[q] = pass[q]
    BY <1>1 DEF Inv, TypeOK
<1>3. \A k \in Jobs : job'[k] = job[k] \/ job'[k].pc \in {"ready", "attach"}
  <2>1. CASE UNCHANGED job
      BY <2>1
  <2>2. CASE \E j \in Jobs :
               \/ job' = [job EXCEPT ![j] = [NoOne EXCEPT !.pc = "ready"]]
               \/ job' = [job EXCEPT ![j] = [NoOne EXCEPT !.pc = "attach", !.turn = pass[r].turn, !.origin = "attach"]]
    <3>1. /\ [NoOne EXCEPT !.pc = "ready"].pc = "ready"
          /\ [NoOne EXCEPT !.pc = "attach", !.turn = pass[r].turn, !.origin = "attach"].pc = "attach"
        BY DEF NoOne
    <3> QED
        BY <2>2, <3>1 DEF Inv, TypeOK
  <2> QED
      BY <2>1, <2>2 DEF ApplyQueue
<1>4. \A k \in Jobs : Calm(k) /\ (Busy(k)' => Busy(k))
    BY <1>3 DEF Calm, Busy, AtWork, After
<1>5. Open' = Open /\ AllOrNone'
    BY <1>1, AllOrNoneKept DEF Open, Inv, Turned
<1>6. \A q \in Passes \ {r} : Granted(q)'
    BY <1>1, <1>2, <1>4, <1>5, GrantedKept DEF Inv, Turned
<1>7. Granted(r)'
    BY <1>2, NoopGranted
<1> QED
    BY <1>1, <1>4, <1>5, <1>6, <1>7, CalmStep

\* The turn that never started is halted, and with it the last open one.
LEMMA ApplyRequeueTurned ==
    ASSUME Inv, NEW r \in Passes, ApplyRequeue(r)
    PROVE  Turned'
<1>1. UNCHANGED <<agent, fresh, into, job>> /\ pass[r].do = "requeue" /\ pass[r] \in Decision
    BY DEF ApplyRequeue, Inv, TypeOK
<1>2. CASE r \in fresh
  <2>1. pass'[r] = [pass[r] EXCEPT !.do = "toIdle"] /\ \A q \in Passes \ {r} : pass'[q] = pass[q]
      BY <1>2 DEF ApplyRequeue, Inv, TypeOK
  <2>2. pass'[r].do = "toIdle"
      BY <1>1, <2>1 DEF Decision
  <2>3. /\ \A j \in Jobs : ~Busy(j)
        /\ \A t \in Open : t = pass[r].turn /\ turn[t].exec = "none"
      BY <1>1, <1>2 DEF Inv, Turned, Granted
  <2>4. turn' = [u \in Turns |-> IF u = pass[r].turn /\ turn[u].open /\ turn[u].exec = "none"
                                 THEN [turn[u] EXCEPT !.open = FALSE] ELSE turn[u]]
      BY <1>2 DEF ApplyRequeue
  <2>5. \A u \in Turns : ~[turn[u] EXCEPT !.open = FALSE].open
      BY DEF Inv, TypeOK, Turn
  <2>6. Open' = {}
      BY <2>3, <2>4, <2>5 DEF Open
  <2>7. ASSUME NEW j \in Jobs PROVE ~Busy(j)' /\ Owns(j)'
    <3>1. AtRest' /\ ~Busy(j)'
        BY <1>1, <2>3, <2>6 DEF AtRest, Busy
    <3>2. \A u \in Turns : turn'[u].by = turn[u].by /\ turn'[u].live = turn[u].live
        BY <2>4 DEF Inv, TypeOK, Turn
    <3>3. job[j].pc \in Holding => job[j].turn \in Turns
        BY DEF Inv, Safe, Fits, Created
    <3> QED
        BY <1>1, <2>6, <3>1, <3>2, <3>3, AtWorkIs DEF Busy, Owns, At, Inv, Turned
  <2>8. Alone' /\ OneOpen' /\ AllOrNone' /\ Free'
      BY <2>6, <2>7 DEF Alone, OneOpen, AllOrNone, Free, AtRest, Busy
  <2>9. ASSUME NEW q \in Passes PROVE Granted(q)'
    <3>1. CASE q = r
        BY <2>2, <2>6, <2>7, <3>1 DEF Granted
    <3>2. CASE q # r
        BY <1>1, <2>1, <2>6, <2>7, <3>2 DEF Granted, Inv, Turned
    <3> QED
        BY <3>1, <3>2
  <2> QED
      BY <2>7, <2>8, <2>9 DEF Turned
<1>3. CASE r \notin fresh
  <2>1. UNCHANGED turn /\ pass'[r] = Noop /\ \A q \in Passes \ {r} : pass'[q] = pass[q]
      BY <1>3 DEF ApplyRequeue, Inv, TypeOK
  <2> QED
      BY <1>1, <2>1, NoopGranted, PassesKept
<1> QED
    BY <1>2, <1>3

LEMMA ApplyIdleTurned ==
    ASSUME Inv, NEW r \in Passes, ApplyIdle(r)
    PROVE  Turned'
<1>1. /\ UNCHANGED <<into, turn, job>> /\ pass' = [pass EXCEPT ![r] = Noop]
      /\ pass[r].do = "toIdle"
    BY DEF ApplyIdle
<1>2. pass'[r] = Noop /\ \A q \in Passes \ {r} : pass'[q] = pass[q]
    BY <1>1 DEF Inv, TypeOK
<1>3. CASE r \in fresh /\ CanMove("idle")
  <2>1. fresh' = {}
      BY <1>3 DEF ApplyIdle, WriteAgent
  <2>2. AtRest
      BY <1>1, <1>3 DEF Inv, Turned, Granted, AtRest, Busy
  <2>3. \A q \in Passes : Granted(q)'
      BY <2>1 DEF Granted
  <2>4. AllOrNone'
      BY <1>1, AllOrNoneKept DEF Open, Inv, Turned
  <2> QED
      BY <1>1, <2>1, <2>2, <2>3, <2>4, CalmStep DEF Calm
<1>4. CASE ~(r \in fresh /\ CanMove("idle"))
  <2>1. UNCHANGED <<agent, fresh>>
      BY <1>4 DEF ApplyIdle
  <2> QED
      BY <1>1, <1>2, <2>1, NoopGranted, PassesKept
<1> QED
    BY <1>3, <1>4

-----------------------------------------------------------------------------
(* The invariant, and what follows.                                         *)

LEMMA InitTurned == Init => Turned
<1> SUFFICES ASSUME Init PROVE Turned
    OBVIOUS
<1>1. \A j \in Jobs : job[j].pc = "idle"
    BY DEF Init, NoOne
<1>2. \A t \in Turns : ~turn[t].open
    BY DEF Init, NoTurn
<1>3. Open = {} /\ fresh = {} /\ \A j \in Jobs : ~Busy(j)
    BY <1>1, <1>2 DEF Open, Init, Busy, AtWork
<1>4. \A j \in Jobs : Owns(j)
    BY <1>1, AtWorkIs DEF Owns, At
<1>5. Alone /\ OneOpen /\ Free /\ AllOrNone /\ \A r \in Passes : Granted(r)
    BY <1>3 DEF Alone, OneOpen, Free, AtRest, Busy, AllOrNone, Granted
<1> QED
    BY <1>4, <1>5 DEF Turned

LEMMA NextTurned ==
    ASSUME "lease" \notin Faults, Inv, [Next]_vars, [Revives => AtRest]_vars, [Claims => AllRead]_vars
    PROVE  Turned'
<1>1. CASE UNCHANGED vars
  <2>1. UNCHANGED <<agent, fresh, into, turn, job, pass>>
      BY <1>1 DEF vars
  <2> QED
      BY <2>1, TurnsOnly
<1>2. CASE Next /\ vars' # vars
  <2>1. (Revives => AtRest) /\ (Claims => AllRead)
      BY <1>2
  <2>2. ASSUME NEW m \in Messages, Send(m) PROVE Turned'
      BY <2>2, SendTurned
  <2>3. ASSUME NEW i \in Intents, SetControlIntent(i) PROVE Turned'
      BY <2>3, IntentTurned
  <2>4. ASSUME NEW t \in Turns, AgentEnds(t) \/ LeaseLapses(t) \/ LeaseLate(t) PROVE Turned'
      BY <2>4, ProcsTurned, LapseTurned DEF LeaseLate, Fault
  <2>5. ASSUME NEW j \in Jobs, Work(j) \/ SetupFails(j) \/ StreamTrouble(j) \/ Renew(j) \/ Crash(j)
        PROVE  Turned'
      BY <2>1, <2>5, LookTurned, ClaimTurned, CreateTurned, SetupTurned, DrainTurned, BeginTurned,
         ToRunningTurned, StreamTurned, HaltTurned, ReadAfterTurned, MoveOnTurned, AttachTurned,
         NothingToRenew, CrashTurned DEF Work
  <2>6. ASSUME NEW r \in Passes, Observe(r) \/ ObserveStall(r) \/ Apply(r) PROVE Turned'
      BY <2>1, <2>6, ObserveTurned, ApplyMoveTurned, ApplyClearTurned, ApplyQueueTurned,
         ApplyRequeueTurned, ApplyIdleTurned DEF Apply
  <2>7. CASE PodDies \/ ReapRead \/ ReapPod
      BY <2>7, ProcsTurned
  <2> QED
      BY <1>2, <2>2, <2>3, <2>4, <2>5, <2>6, <2>7 DEF Next
<1> QED
    BY <1>1, <1>2

\* An invariant of every behaviour in which users revive an agent only at rest
\* and no agent is claimed before the last turn's job has read it.
LEMMA InvHolds ==
    ASSUME "lease" \notin Faults
    PROVE  Spec /\ RevivedAtRest /\ ReadsBeforeClaims => []Inv
<1>1. Init => Inv
    BY InitSafe, InitTurned DEF Inv
<1>2. Inv /\ [Next]_vars /\ [Revives => AtRest]_vars /\ [Claims => AllRead]_vars => Inv'
    BY NextSafe, NextTurned DEF Inv
<1> QED
    BY <1>1, <1>2, PTL DEF Spec, RevivedAtRest, ReadsBeforeClaims

\* "At most one turn in flight at a time" (persistent-agent-pool-service.ts:12),
\* whatever jobs, pods and streams are lost and whatever is paused or archived
\* meanwhile, if an agent is resumed or restarted only at rest, no holder of a
\* lease is late, and a job that halted its turn reads the agent before another
\* claims it.
THEOREM TurnsComeOneByOne ==
    ASSUME "lease" \notin Faults
    PROVE  Spec /\ RevivedAtRest /\ ReadsBeforeClaims => []OneTurn
<1>1. Inv => OneTurn
    BY OneOpenIsOneTurn DEF Inv, Turned
<1> QED
    BY <1>1, InvHolds, PTL

\* Messages move when they are sent and when a turn drains its own, only.
LEMMA IntoMoves ==
    ASSUME [Next]_vars
    PROVE  \/ UNCHANGED into
           \/ \E m \in Messages : Send(m)
           \/ \E j \in Jobs : Drain(j)
<1>1. CASE UNCHANGED vars
    BY <1>1 DEF vars
<1>2. ASSUME NEW t \in Turns, AgentEnds(t) \/ LeaseLapses(t) \/ LeaseLate(t) PROVE UNCHANGED into
    BY <1>2 DEF AgentEnds, LeaseLapses, LeaseLate
<1>3. ASSUME NEW j \in Jobs, Work(j) \/ SetupFails(j) \/ StreamTrouble(j) \/ Renew(j) \/ Crash(j)
      PROVE  UNCHANGED into \/ Drain(j)
    BY <1>3 DEF Work, Look, Claim, CreateTurn, AcquirePod, PodMissing, SetupError, LaunchAgent,
                RecordStarted, BeginTurn, ToRunning, StreamEnds, StreamTaken, Halt, ReadAfter,
                MoveOn, AttachTurn, ClaimAttachment, SetupFails, StreamTrouble, Renew, Crash
<1>4. ASSUME NEW r \in Passes, Observe(r) \/ ObserveStall(r) \/ Apply(r) PROVE UNCHANGED into
    BY <1>4 DEF Observe, ObserveStall, Apply, ApplyMove, ApplyClear, ApplyQueue, ApplyRequeue, ApplyIdle
<1>5. CASE PodDies \/ ReapRead \/ ReapPod
    BY <1>5 DEF PodDies, ReapRead, ReapPod
<1>6. ASSUME NEW i \in Intents, SetControlIntent(i) PROVE UNCHANGED into
    BY <1>6 DEF SetControlIntent
<1> QED
    BY <1>1, <1>2, <1>3, <1>4, <1>5, <1>6 DEF Next

LEMMA InboxStep ==
    ASSUME Inv, [Next]_vars
    PROVE  [TheInbox!Next]_into
<1>1. ASSUME NEW m \in Messages, Send(m) PROVE TheInbox!Next
  <2>1. into[m] = -1 /\ into' = [into EXCEPT ![m] = 0]
      BY <1>1 DEF Send, Unsent, Pending
  <2> QED
      BY <2>1 DEF TheInbox!Next, TheInbox!Send, TheInbox!Unsent, TheInbox!Waiting
<1>2. ASSUME NEW j \in Jobs, Drain(j) PROVE TheInbox!Next \/ UNCHANGED into
  <2> DEFINE t == job[j].turn
             S == turn[t].msgs
  <2>1. /\ t \in Turns /\ S \in SUBSET Messages
        /\ into' = [m \in Messages |-> IF m \in S THEN t ELSE into[m]]
        /\ Untouched(t) \/ into' = into
      BY <1>2, DrainTakes DEF Open
  <2>2. CASE Untouched(t)
    <3>1. (\A m \in S : into[m] = 0) /\ (\A m \in Messages : into[m] # t)
        BY <2>2 DEF Untouched, Pending
    <3> HIDE DEF t, S
    <3>2. TheInbox!Take(t, S)
        BY <2>1, <3>1 DEF TheInbox!Take, TheInbox!Waiting
    <3> QED
        BY <2>1, <3>2 DEF TheInbox!Next
  <2> QED
      BY <2>1, <2>2
<1> QED
    BY <1>1, <1>2, IntoMoves

\* Under the same conditions the turns implement Inbox: every message that was
\* sent waits until one turn takes it, and a turn that takes messages takes its
\* whole prompt at once, also when the job that drains is its third.
THEOREM TurnsImplementInbox ==
    ASSUME "lease" \notin Faults
    PROVE  Spec /\ RevivedAtRest /\ ReadsBeforeClaims => InboxSpec
<1>1. Init => TheInbox!Init
    BY DEF Init, TheInbox!Init, Unsent, TheInbox!Unsent
<1>2. Inv /\ [Next]_vars => [TheInbox!Next]_into
    BY InboxStep
<1> QED
    BY <1>1, <1>2, InvHolds, PTL DEF Spec, InboxSpec, TheInbox!Spec
=============================================================================
