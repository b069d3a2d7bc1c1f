-------------------------- MODULE TaskQueueProofs --------------------------
(***************************************************************************)
(* The safety properties of TaskQueue, for any finite set of tasks, any    *)
(* limits, workers and passes, and any number of faults.                   *)
(***************************************************************************)
EXTENDS TaskQueue, FiniteSetTheorems, TLAPS

\* DOMAIN NextStates, spelt out.
LEMMA StatesAre ==
    States = {"pending", "waiting", "queued", "running", "needs_attention",
              "pr_opened", "failed", "cancelled", "completed", "absent"}
    BY DEF States, NextStates

\* What a pass is about, once it has decided.
Decides ==
    \A r \in Passes :
        pass[r].do # "none" => /\ pass[r].of \in Tasks
                               /\ pass[r].to \in {"queued", "waiting", "failed"}

\* The part of the state that a transition of a task writes.
RowsOK ==
    /\ task' \in [Tasks -> States] /\ fresh' \subseteq Passes
    /\ settling' \subseteq {"finish", "unblock", "queue", "cascade"} \X Tasks /\ reached' \subseteq Tasks

LEMMA MoveAndType ==
    ASSUME TypeOK, NEW t \in Tasks, NEW to \in States, NEW settled,
           settled \subseteq {"finish", "unblock", "queue", "cascade"} \X Tasks, MoveAnd(t, to, settled)
    PROVE  RowsOK
<1>1. task' \in [Tasks -> States] /\ fresh' \subseteq Passes /\ reached' \subseteq Tasks
    BY DEF TypeOK, MoveAnd
<1>2. Unblock(Dependents(t)) \cup Cascade(Dependents(t)) \subseteq {"unblock", "cascade"} \X Tasks
    BY DEF Unblock, Cascade, Waiting, Dependents
<1>3. settling' \subseteq {"finish", "unblock", "queue", "cascade"} \X Tasks
  <2>1. CASE to = "completed"
      BY <1>2, <2>1 DEF MoveAnd
  <2>2. CASE to = "failed"
      BY <1>2, <2>2 DEF MoveAnd
  <2>3. CASE to \notin {"completed", "failed"}
      BY <2>3 DEF MoveAnd
  <2> QED
      BY <2>1, <2>2, <2>3
<1> QED
    BY <1>1, <1>3 DEF RowsOK

LEMMA MoveTaskType ==
    ASSUME TypeOK, NEW t \in Tasks, NEW to \in States, MoveTask(t, to)
    PROVE  RowsOK
    BY MoveAndType DEF MoveTask, TypeOK

LEMMA SameRows ==
    ASSUME TypeOK, UNCHANGED rows
    PROVE  RowsOK
    BY DEF TypeOK, rows, RowsOK

LEMMA AddJobType ==
    ASSUME TypeOK, NEW t, AddJob(t)
    PROVE  jobs' \in [Tasks -> 0 .. MaxJobs]
<1>1. jobs \in [Tasks -> 0 .. MaxJobs] /\ MaxJobs \in Nat
    BY Parameters DEF TypeOK
<1>2. t \in Tasks => (IF jobs[t] < MaxJobs THEN jobs[t] + 1 ELSE jobs[t]) \in 0 .. MaxJobs
    BY <1>1
<1> QED
    BY <1>1, <1>2 DEF AddJob

LEMMA RequeueType ==
    ASSUME TypeOK, NEW w \in Workers, Requeue(w)
    PROVE  jobs' \in [Tasks -> 0 .. MaxJobs] /\ worker' = [worker EXCEPT ![w] = Idle]
    BY AddJobType DEF Requeue, Leave

LEMMA UpsetType ==
    ASSUME TypeOK
    PROVE  \A kind : Upset(kind) => upsets' \in 0 .. MaxUpsets
    BY Parameters DEF TypeOK, Upset

\* The workers' part of the type.
WorkersOK(ws) ==
    /\ ws \in [Workers -> Job]
    /\ \A w \in Workers : ws[w].at = "idle" <=> ws[w].of = NoTask

LEMMA WorkerTypes ==
    ASSUME WorkersOK(worker), NEW w \in Workers
    PROVE  /\ WorkersOK([worker EXCEPT ![w] = Idle])
           /\ \A t \in Tasks : WorkersOK([worker EXCEPT ![w] = [at |-> "ready", of |-> t]])
           /\ worker[w].at = "ready" => WorkersOK([worker EXCEPT ![w].at = "counted"])
<1>1. Idle \in Job
    BY DEF Idle, Job
<1>2. WorkersOK([worker EXCEPT ![w] = Idle])
    BY <1>1 DEF WorkersOK, Idle
<1>3. ASSUME NEW t \in Tasks PROVE WorkersOK([worker EXCEPT ![w] = [at |-> "ready", of |-> t]])
    BY Parameters DEF WorkersOK, Job
<1>4. ASSUME worker[w].at = "ready" PROVE WorkersOK([worker EXCEPT ![w].at = "counted"])
    BY <1>4 DEF WorkersOK, Job
<1> QED
    BY <1>2, <1>3, <1>4

\* The rest of the type, action by action.
OthersOK ==
    /\ submit' \in [Tasks -> {"none", "created", "linked", "waits", "missed", "queued", "refused"}]
    /\ edges' \subseteq Tasks \X Tasks /\ adding' \subseteq Tasks \X Tasks
    /\ jobs' \in [Tasks -> 0 .. MaxJobs]
    /\ WorkersOK(worker')
    /\ pass' \in [Passes -> Pass]
    /\ upsets' \in 0 .. MaxUpsets

LEMMA OtherTypes ==
    ASSUME TypeOK, Decides, Next
    PROVE  OthersOK
<1> USE DEF users, work
<1>1. /\ submit \in [Tasks -> {"none", "created", "linked", "waits", "missed", "queued", "refused"}]
      /\ edges \subseteq Tasks \X Tasks /\ adding \subseteq Tasks \X Tasks
      /\ jobs \in [Tasks -> 0 .. MaxJobs] /\ worker \in [Workers -> Job] /\ WorkersOK(worker)
      /\ pass \in [Passes -> Pass] /\ upsets \in 0 .. MaxUpsets
    BY DEF TypeOK, WorkersOK
<1>2. ASSUME NEW t \in Tasks, Create(t) \/ SubmitWaiting(t) PROVE OthersOK
    BY <1>1, <1>2 DEF Create, SubmitWaiting, OthersOK
<1>3. ASSUME NEW t \in Tasks, LinkWanted(t) PROVE OthersOK
    BY <1>1, <1>3, Parameters DEF LinkWanted, OthersOK
<1>4. ASSUME NEW t \in Tasks, SubmitQueued(t) PROVE OthersOK
    BY <1>1, <1>4, AddJobType, UpsetType DEF SubmitQueued, QueueTask, OthersOK
<1>5. ASSUME NEW t \in Tasks, Runs(t) PROVE OthersOK
    BY <1>1, <1>5 DEF Runs, OthersOK
<1>6. ASSUME NEW t \in Tasks, SetupFails(t) \/ Retry(t) PROVE OthersOK
    BY <1>1, <1>6, AddJobType, UpsetType DEF SetupFails, Retry, OthersOK
<1>7. ASSUME NEW t \in Tasks, Cancel(t) PROVE OthersOK
    BY <1>1, <1>7, UpsetType DEF Cancel, OthersOK
<1>8. ASSUME NEW c \in Tasks, FinishRun(c) \/ CheckDependent(c) \/ FailDependent(c) PROVE OthersOK
    BY <1>1, <1>8 DEF FinishRun, CheckDependent, FailDependent, OthersOK
<1>9. ASSUME NEW c \in Tasks, QueueDependent(c) PROVE OthersOK
    BY <1>1, <1>9, AddJobType, UpsetType DEF QueueDependent, OthersOK
<1>10. ASSUME NEW e \in Tasks \X Tasks, CheckDependency(e) \/ InsertDependency(e) \/ RemoveDependency(e)
       PROVE  OthersOK
    BY <1>1, <1>10, UpsetType DEF CheckDependency, InsertDependency, RemoveDependency, OthersOK
<1>11. ASSUME NEW r \in Passes, NEW t \in Tasks, Observe(r, t) \/ ObserveUnread(r, t) PROVE OthersOK
  <2>1. Decided(t) \in Pass /\ Move(t, "queued") \in Pass
      BY StatesAre DEF Decided, Move, Noop, Pass
  <2>2. ASSUME Observe(r, t) PROVE OthersOK
      BY <1>1, <2>1, <2>2 DEF Observe, OthersOK
  <2>3. ASSUME ObserveUnread(r, t) PROVE OthersOK
      BY <1>1, <2>1, <2>3, UpsetType DEF ObserveUnread, OthersOK
  <2> QED
      BY <1>11, <2>2, <2>3
<1>12. ASSUME NEW r \in Passes, Apply(r) PROVE OthersOK
  <2>1. Noop \in Pass
      BY StatesAre DEF Noop, Pass
  <2>2. ASSUME ApplyMove(r) PROVE OthersOK
      BY <1>1, <2>1, <2>2 DEF ApplyMove, OthersOK, Pass
  <2>3. ASSUME ApplyTransition(r) PROVE OthersOK
      BY <1>1, <2>1, <2>3 DEF ApplyTransition, OthersOK
  <2>4. ASSUME ApplyEnqueue(r) PROVE OthersOK
      BY <1>1, <2>1, <2>4, AddJobType DEF ApplyEnqueue, OthersOK
  <2> QED
      BY <1>12, <2>2, <2>3, <2>4 DEF Apply
<1>13. ASSUME NEW w \in Workers, NEW t \in Tasks, Take(w, t) PROVE OthersOK
  <2>1. jobs' \in [Tasks -> 0 .. MaxJobs]
      BY <1>1, <1>13, Parameters DEF Take
  <2>2. WorkersOK(worker')
      BY <1>1, <1>13, WorkerTypes DEF Take
  <2> QED
      BY <1>1, <1>13, <2>1, <2>2 DEF Take, OthersOK
<1>14. ASSUME NEW w \in Workers, CountActive(w) \/ LockTimeout(w) PROVE OthersOK
    BY <1>1, <1>14, WorkerTypes, RequeueType DEF CountActive, LockTimeout, OthersOK
<1>15. ASSUME NEW w \in Workers, Claim(w) PROVE OthersOK
    BY <1>1, <1>15, WorkerTypes, RequeueType DEF Claim, Leave, OthersOK
<1>16. ASSUME NEW w \in Workers, Crash(w) PROVE OthersOK
    BY <1>1, <1>16, WorkerTypes, RequeueType, UpsetType DEF Crash, OthersOK
<1>17. CASE LoseSettling
    BY <1>1, <1>17, UpsetType DEF LoseSettling, OthersOK
<1>18. CASE Boot
    BY <1>1, <1>18, UpsetType, Parameters DEF Boot, OthersOK
<1> QED
    BY <1>2, <1>3, <1>4, <1>5, <1>6, <1>7, <1>8, <1>9, <1>10, <1>11, <1>12, <1>13, <1>14, <1>15,
       <1>16, <1>17, <1>18 DEF Next, Submission, Settle

-----------------------------------------------------------------------------
(* What the steps do to the tasks.                                          *)

Settlings == SUBSET ({"finish", "unblock", "queue", "cascade"} \X Tasks)

\* A task moves along NextStates, and to running by a claim only.
Moves ==
    \E t \in Tasks, to \in States, settled \in Settlings :
        /\ CanMove(t, to) /\ MoveAnd(t, to, settled)
        /\ to = "running" => \E w \in Workers : worker[w].of = t /\ Claim(w)

Stays ==
    /\ UNCHANGED <<task, reached>> /\ fresh' \subseteq Passes /\ settling' \in Settlings

LEMMA MoveTaskMoves ==
    ASSUME TypeOK, NEW t \in Tasks, NEW to \in States, CanMove(t, to), to # "running", MoveTask(t, to)
    PROVE  Moves
    BY DEF MoveTask, Moves, Settlings, TypeOK

LEMMA RowSteps ==
    ASSUME TypeOK, Decides, Next
    PROVE  Moves \/ Stays
<1> USE StatesAre DEF rows, users, work
<1>0. UNCHANGED rows => Stays
    BY DEF Stays, Settlings, TypeOK
<1>1. ASSUME NEW t \in Tasks, Create(t) PROVE Moves
    BY <1>1, MoveTaskMoves DEF Create, CanMove, NextStates
<1>2. ASSUME NEW t \in Tasks, LinkWanted(t) PROVE Stays
    BY <1>0, <1>2 DEF LinkWanted
<1>3. ASSUME NEW t \in Tasks, SubmitWaiting(t) PROVE Moves \/ Stays
    BY <1>0, <1>3, MoveTaskMoves DEF SubmitWaiting
<1>4. ASSUME NEW t \in Tasks, SubmitQueued(t) PROVE Moves \/ Stays
    BY <1>0, <1>4, MoveTaskMoves DEF SubmitQueued, QueueTask, CanMove, NextStates
<1>5. ASSUME NEW t \in Tasks, Runs(t) PROVE Moves
  <2>1. ASSUME task[t] = "running", NEW to \in {"completed", "pr_opened", "failed"},
               MoveAnd(t, to, settling \cup ({"finish"} \X ({t} \cap Wantable)))
        PROVE  Moves
    <3>1. settling \cup ({"finish"} \X ({t} \cap Wantable)) \in Settlings
        BY DEF TypeOK, Settlings
    <3>2. CanMove(t, to)
        BY <2>1 DEF CanMove, NextStates
    <3> QED
        BY <2>1, <3>1, <3>2 DEF Moves
  <2>2. ASSUME task[t] = "pr_opened", NEW to \in {"completed", "failed"}, MoveTask(t, to)
        PROVE  Moves
      BY <2>2, MoveTaskMoves DEF CanMove, NextStates
  <2> QED
      BY <1>5, <2>1, <2>2 DEF Runs
<1>6. ASSUME NEW t \in Tasks, SetupFails(t) \/ Retry(t) PROVE Moves
    BY <1>6, MoveTaskMoves DEF SetupFails, Retry, Fallen, CanMove, NextStates
<1>7. ASSUME NEW t \in Tasks, Cancel(t) PROVE Moves
    BY <1>7, MoveTaskMoves DEF Cancel
<1>8. ASSUME NEW c \in Tasks, FinishRun(c) \/ CheckDependent(c) PROVE Stays
  <2>1. Unblock(Dependents(c)) \in Settlings /\ Cascade(Dependents(c)) \in Settlings
      BY DEF Unblock, Cascade, Waiting, Dependents, Settlings
  <2>2. settling' \in Settlings
      BY <1>8, <2>1 DEF FinishRun, CheckDependent, TypeOK, Settlings
  <2> QED
      BY <1>8, <2>2 DEF FinishRun, CheckDependent, Stays, TypeOK
<1>9. ASSUME NEW c \in Tasks, NEW what, NEW to \in {"queued", "failed"}, SettleAs(what, c, to)
      PROVE  Moves \/ Stays
  <2>1. settling \ {<<what, c>>} \in Settlings
      BY DEF TypeOK, Settlings
  <2>2. CASE CanMove(c, to)
      BY <1>9, <2>1, <2>2 DEF SettleAs, Moves
  <2>3. CASE ~CanMove(c, to)
      BY <1>9, <2>1, <2>3 DEF SettleAs, Stays, TypeOK
  <2> QED
      BY <2>2, <2>3
<1>10. ASSUME NEW c \in Tasks, QueueDependent(c) \/ FailDependent(c) PROVE Moves \/ Stays
    BY <1>9, <1>10 DEF QueueDependent, FailDependent
<1>11. ASSUME NEW e \in Tasks \X Tasks, CheckDependency(e) \/ InsertDependency(e) \/ RemoveDependency(e)
       PROVE  Stays
    BY <1>0, <1>11 DEF CheckDependency, InsertDependency, RemoveDependency
<1>12. ASSUME NEW r \in Passes, NEW t \in Tasks, Observe(r, t) \/ ObserveUnread(r, t) PROVE Stays
    BY <1>12 DEF Observe, ObserveUnread, Stays, Settlings, TypeOK
<1>13. ASSUME NEW r \in Passes, ApplyMove(r) \/ ApplyEnqueue(r) PROVE Stays
    BY <1>13 DEF ApplyMove, ApplyEnqueue, Stays, Settlings, TypeOK
<1>14. ASSUME NEW r \in Passes, ApplyTransition(r) PROVE Moves \/ Stays
  <2>1. pass[r].of \in Tasks /\ pass[r].to \in {"queued", "waiting", "failed"}
      BY <1>14 DEF ApplyTransition, Decides
  <2> QED
      BY <1>0, <1>14, <2>1, MoveTaskMoves DEF ApplyTransition
<1>15. ASSUME NEW w \in Workers, NEW t \in Tasks, Take(w, t) PROVE Moves \/ Stays
  <2>1. CASE task[t] = "queued" /\ HasFallen(t)
      BY <1>15, <2>1, MoveTaskMoves DEF Take, CanMove, NextStates
  <2>2. CASE ~(task[t] = "queued" /\ HasFallen(t))
      BY <1>0, <1>15, <2>2 DEF Take
  <2> QED
      BY <2>1, <2>2
<1>16. ASSUME NEW w \in Workers, CountActive(w) \/ LockTimeout(w) \/ Crash(w) PROVE Stays
    BY <1>0, <1>16 DEF CountActive, LockTimeout, Crash
<1>17. ASSUME NEW w \in Workers, Claim(w) PROVE Moves \/ Stays
  <2>1. worker[w].of \in Tasks
      BY <1>17 DEF Claim, TypeOK, Job
  <2>2. CASE CanMove(worker[w].of, "running")
    <3>1. MoveAnd(worker[w].of, "running", settling)
        BY <1>17, <2>2 DEF Claim, MoveTask
    <3> QED
        BY <1>17, <2>1, <2>2, <3>1 DEF Moves, Settlings, TypeOK
  <2>3. CASE ~CanMove(worker[w].of, "running")
      BY <1>0, <1>17, <2>3 DEF Claim
  <2> QED
      BY <2>2, <2>3
<1>18. CASE LoseSettling
    BY <1>18 DEF LoseSettling, Stays, Settlings, TypeOK
<1>19. CASE Boot
  <2>1. settling' \in Settlings
      BY <1>19 DEF Boot, Unblock, Waiting, TypeOK, Settlings
  <2> QED
      BY <1>19, <2>1 DEF Boot, Stays, TypeOK
<1> QED
    BY <1>1, <1>2, <1>3, <1>4, <1>5, <1>6, <1>7, <1>8, <1>10, <1>11, <1>12, <1>13, <1>14, <1>15,
       <1>16, <1>17, <1>18, <1>19 DEF Next, Submission, Settle, Apply

LEMMA RowTypes ==
    ASSUME TypeOK, Decides, Next
    PROVE  RowsOK
<1>1. CASE Moves
    BY <1>1, MoveAndType DEF Moves, Settlings
<1>2. CASE Stays
    BY <1>2 DEF Stays, Settlings, RowsOK, TypeOK
<1> QED
    BY <1>1, <1>2, RowSteps

LEMMA DecidesStep ==
    ASSUME TypeOK, Decides, Next
    PROVE  Decides'
<1>1. ASSUME NEW r \in Passes, NEW t \in Tasks, Observe(r, t) \/ ObserveUnread(r, t) PROVE Decides'
  <2>1. Decided(t).do # "none" => Decided(t).of \in Tasks /\ Decided(t).to \in {"queued", "waiting", "failed"}
      BY DEF Decided, Move, Noop
  <2>2. Move(t, "queued").of = t /\ Move(t, "queued").to = "queued"
      BY DEF Move
  <2> QED
      BY <1>1, <2>1, <2>2 DEF Observe, ObserveUnread, Decides, TypeOK
<1>2. ASSUME NEW r \in Passes, Apply(r) PROVE Decides'
    BY <1>2 DEF Apply, ApplyMove, ApplyTransition, ApplyEnqueue, Decides, Noop, TypeOK, Pass
<1>3. CASE UNCHANGED pass
    BY <1>3 DEF Decides
<1>4. ASSUME Next, \A r \in Passes : ~Apply(r) /\ \A t \in Tasks : ~Observe(r, t) /\ ~ObserveUnread(r, t)
      PROVE  UNCHANGED pass
    BY <1>4 DEF Next, Submission, Settle, Create, LinkWanted, SubmitWaiting, SubmitQueued,
       Runs, SetupFails, Cancel, Retry, FinishRun, CheckDependent, QueueDependent, FailDependent,
       CheckDependency, InsertDependency, RemoveDependency, CountActive, LockTimeout, Claim,
       Crash, Take, LoseSettling, Boot
<1> QED
    BY <1>1, <1>2, <1>3, <1>4

Typed == TypeOK /\ Decides

LEMMA TypedInit ==
    ASSUME Init
    PROVE  Typed
    BY Parameters, StatesAre DEF Init, Typed, TypeOK, Decides, Noop, Pass, Idle, Job

LEMMA TypedStep ==
    ASSUME Typed, [Next]_vars
    PROVE  Typed'
<1>1. CASE Next
    BY <1>1, OtherTypes, RowTypes, DecidesStep DEF Typed, TypeOK, OthersOK, RowsOK, WorkersOK
<1>2. CASE UNCHANGED vars
    BY <1>2 DEF vars, rows, users, work, Typed, TypeOK, Decides
<1> QED
    BY <1>1, <1>2

LEMMA AlwaysTyped == Spec => []Typed
<1>1. Init => Typed
    BY TypedInit
<1>2. Typed /\ [Next]_vars => Typed'
    BY TypedStep
<1> QED
    BY <1>1, <1>2, PTL DEF Spec

\* Every reachable state is typed; a job in progress has a task.
THEOREM TypeCorrect == Spec => []TypeOK
<1>1. Typed => TypeOK
    BY DEF Typed
<1> QED
    BY <1>1, AlwaysTyped, PTL

-----------------------------------------------------------------------------
(* The limits.                                                              *)

\* One claimer at a time is between its count and its claim, and there is still
\* room for its task.
ClaimLock ==
    /\ \A w, v \in Workers : worker[w].at = "counted" /\ worker[v].at = "counted" => w = v
    /\ \A w \in Workers : worker[w].at = "counted" => Room(worker[w].of)

Limited == Typed /\ ClaimLock /\ LimitHeld

\* Counts are numbers, and do not grow while no task starts.
LEMMA Counting ==
    ASSUME NEW ts, ts \subseteq Tasks
    PROVE  /\ Count(ts) \in Nat /\ Count(ts)' \in Nat
           /\ (\A t \in ts : task'[t] = "running" => task[t] = "running") => Count(ts)' <= Count(ts)
           /\ \A s \in ts :
                 (\A t \in ts \ {s} : task'[t] = "running" => task[t] = "running")
                     => Count(ts)' <= Count(ts) + 1
<1> DEFINE before == {t \in ts : task[t] = "running"}
           after  == {t \in ts : task'[t] = "running"}
<1>1. IsFiniteSet(ts)
    BY Parameters, FS_Subset
<1>2. IsFiniteSet(before) /\ IsFiniteSet(after)
    BY <1>1, FS_Subset
<1>3. Cardinality(before) \in Nat /\ Cardinality(after) \in Nat
    BY <1>2, FS_CardinalityType
<1>4. Count(ts) = Cardinality(before) /\ Count(ts)' = Cardinality(after)
    BY DEF Count
<1>5. ASSUME \A t \in ts : task'[t] = "running" => task[t] = "running"
      PROVE  Cardinality(after) <= Cardinality(before)
  <2>1. after \subseteq before
      BY <1>5
  <2> QED
      BY <1>2, <2>1, FS_Subset
<1>6. ASSUME NEW s \in ts, \A t \in ts \ {s} : task'[t] = "running" => task[t] = "running"
      PROVE  Cardinality(after) <= Cardinality(before) + 1
  <2>1. after \subseteq before \cup {s}
      BY <1>6
  <2>2. IsFiniteSet(before \cup {s}) /\ Cardinality(before \cup {s}) \in Nat
        /\ Cardinality(before \cup {s}) <= Cardinality(before) + 1
    <3>1. /\ IsFiniteSet(before \cup {s})
          /\ Cardinality(before \cup {s}) = IF s \in before THEN Cardinality(before)
                                                         ELSE Cardinality(before) + 1
        BY <1>2, FS_AddElement
    <3> HIDE DEF before
    <3> QED
        BY <1>3, <3>1
  <2>3. Cardinality(after) <= Cardinality(before \cup {s})
      BY <2>1, <2>2, FS_Subset
  <2> QED
      BY <1>3, <2>2, <2>3
<1> QED
    BY <1>3, <1>4, <1>5, <1>6

\* No step but a claim starts a task.
LEMMA OnlyClaimsStart ==
    ASSUME Typed, Next, \A w \in Workers : ~Claim(w)
    PROVE  \A t \in Tasks : task'[t] = "running" => task[t] = "running"
<1>1. CASE Moves
    BY <1>1 DEF Moves, MoveAnd, Typed, TypeOK
<1>2. CASE Stays
    BY <1>2 DEF Stays
<1> QED
    BY <1>1, <1>2, RowSteps DEF Typed

LEMMA WorkerSteps ==
    ASSUME Typed, Next
    PROVE  \/ \A w \in Workers : worker'[w] = worker[w] \/ worker'[w].at # "counted"
           \/ \E w \in Workers : /\ LockFree /\ Room(worker[w].of) /\ UNCHANGED task
                                 /\ worker' = [worker EXCEPT ![w].at = "counted"]
<1> DEFINE Leaves == \A w \in Workers : worker'[w] = worker[w] \/ worker'[w].at # "counted"
<1> USE DEF Typed, TypeOK, work, rows
<1>1. ASSUME NEW w \in Workers, Leave(w) PROVE Leaves
    BY <1>1 DEF Leave, Idle
<1>2. ASSUME NEW w \in Workers, LockTimeout(w) \/ Claim(w) \/ Crash(w) PROVE Leaves
    BY <1>1, <1>2 DEF LockTimeout, Claim, Crash, Requeue
<1>3. ASSUME NEW w \in Workers, CountActive(w), ~Room(worker[w].of) PROVE Leaves
    BY <1>1, <1>3 DEF CountActive, Requeue
<1>4. ASSUME NEW w \in Workers, NEW t \in Tasks, Take(w, t) PROVE Leaves
  <2>1. UNCHANGED worker \/ worker' = [worker EXCEPT ![w] = [at |-> "ready", of |-> t]]
      BY <1>4 DEF Take
  <2>2. worker \in [Workers -> Job]
      OBVIOUS
  <2> QED
      BY <2>1, <2>2
<1>5. ASSUME NEW w \in Workers, CountActive(w), Room(worker[w].of)
      PROVE  /\ LockFree /\ UNCHANGED task
             /\ worker' = [worker EXCEPT ![w].at = "counted"]
    BY <1>5 DEF CountActive
<1>6. ASSUME Next,
             \A w \in Workers : /\ ~LockTimeout(w) /\ ~Claim(w) /\ ~Crash(w) /\ ~CountActive(w)
                                /\ \A t \in Tasks : ~Take(w, t)
      PROVE  UNCHANGED worker
    BY <1>6 DEF Next, Submission, Settle, Apply, Create, LinkWanted, SubmitWaiting, SubmitQueued,
       Runs, SetupFails, Cancel, Retry, FinishRun, CheckDependent, QueueDependent, FailDependent,
       CheckDependency, InsertDependency, RemoveDependency, Observe, ObserveUnread, ApplyMove, ApplyTransition,
       ApplyEnqueue, LoseSettling, Boot
<1> QED
    BY <1>2, <1>3, <1>4, <1>5, <1>6

\* Room stays, and the limits hold, as long as no task starts.
LEMMA RoomStays ==
    ASSUME Limited, Next, \A w \in Workers : ~Claim(w)
    PROVE  LimitHeld' /\ \A t : Room(t) => Room(t)'
<1>1. ASSUME NEW l \in Limits
      PROVE  Count(l.of) \in Nat /\ Count(l.of)' \in Nat /\ Count(l.of)' <= Count(l.of) /\ l.max \in Nat
  <2>1. l.of \subseteq Tasks /\ l.max \in Nat
      BY Parameters
  <2>2. \A t \in l.of : task'[t] = "running" => task[t] = "running"
      BY <2>1, OnlyClaimsStart DEF Limited
  <2> QED
      BY <2>1, <2>2, Counting
<1>2. LimitHeld'
    BY <1>1 DEF Limited, LimitHeld
<1>3. ASSUME NEW t, Room(t) PROVE Room(t)'
    BY <1>1, <1>3 DEF Room
<1> QED
    BY <1>2, <1>3

\* A claim takes the place that its count has found.
LEMMA ClaimKeepsLimits ==
    ASSUME Limited, NEW w \in Workers, Claim(w)
    PROVE  LimitHeld'
<1> DEFINE t == worker[w].of
<1>1. Room(t)
    BY DEF Limited, ClaimLock, Claim
<1>2. \A s \in Tasks \ {t} : task'[s] = task[s]
    BY DEF Claim, MoveTask, MoveAnd, rows, Limited, Typed, TypeOK
<1>3. ASSUME NEW l \in Limits PROVE Count(l.of)' <= l.max
  <2>1. l.of \subseteq Tasks /\ l.max \in Nat
      BY Parameters
  <2>2. Count(l.of) \in Nat /\ Count(l.of)' \in Nat /\ Count(l.of) <= l.max
      BY <2>1, Counting DEF Limited, LimitHeld
  <2>3. CASE t \in l.of
    <3>1. Count(l.of) < l.max
        BY <1>1, <2>3 DEF Room
    <3>2. Count(l.of)' <= Count(l.of) + 1
        BY <1>2, <2>1, <2>3, Counting
    <3> QED
        BY <2>1, <2>2, <3>1, <3>2
  <2>4. CASE t \notin l.of
    <3>1. Count(l.of)' <= Count(l.of)
        BY <1>2, <2>1, <2>4, Counting
    <3> QED
        BY <2>1, <2>2, <3>1
  <2> QED
      BY <2>3, <2>4
<1> QED
    BY <1>3 DEF LimitHeld

LEMMA LimitedStep ==
    ASSUME Limited, [Next]_vars
    PROVE  Limited'
<1>1. ASSUME NEW w \in Workers, Claim(w), Next PROVE Limited'
  <2>1. \A v \in Workers : worker'[v].at # "counted"
      BY <1>1 DEF Claim, Leave, Requeue, Idle, Limited, ClaimLock, Typed, TypeOK
  <2> QED
      BY <1>1, <2>1, ClaimKeepsLimits, TypedStep DEF Limited, ClaimLock
<1>2. ASSUME Next, \A w \in Workers : ~Claim(w) PROVE Limited'
  <2>1. ASSUME \A w \in Workers : worker'[w] = worker[w] \/ worker'[w].at # "counted"
        PROVE  ClaimLock'
    <3>1. \A w \in Workers : worker'[w].at = "counted" => worker[w].at = "counted" /\ worker'[w] = worker[w]
        BY <2>1
    <3>2. \A w \in Workers : worker'[w].at = "counted" => Room(worker[w].of)'
        BY <1>2, <3>1, RoomStays DEF Limited, ClaimLock, Room
    <3> QED
        BY <3>1, <3>2 DEF Limited, ClaimLock
  <2>2. ASSUME NEW w \in Workers, LockFree, Room(worker[w].of),
               worker' = [worker EXCEPT ![w].at = "counted"]
        PROVE  ClaimLock'
    <3>1. /\ worker'[w].of = worker[w].of
          /\ \A v \in Workers : worker'[v].at = "counted" => v = w
        BY <2>2 DEF LockFree, Limited, Typed, TypeOK, Job
    <3>2. Room(worker[w].of)'
        BY <1>2, <2>2, RoomStays
    <3> QED
        BY <3>1, <3>2 DEF ClaimLock, Room
  <2>3. ClaimLock'
      BY <1>2, <2>1, <2>2, WorkerSteps DEF Limited
  <2> QED
      BY <1>2, <2>3, RoomStays, TypedStep DEF Limited
<1>3. CASE UNCHANGED vars
    BY <1>3, TypedStep DEF vars, rows, work, Limited, ClaimLock, LimitHeld, Room, Count
<1> QED
    BY <1>1, <1>2, <1>3

\* No more runs are active than the global limit and each repo's allow, however
\* many workers count and claim.
THEOREM LimitsHold == Spec => []LimitHeld
<1>1. ASSUME Init PROVE Limited
  <2>1. LimitHeld
    <3>1. ASSUME NEW l \in Limits PROVE Count(l.of) <= l.max
      <4>1. {t \in l.of : task[t] = "running"} = {}
          BY <1>1, Parameters DEF Init
      <4> QED
        <5>1. Count(l.of) = 0
            BY <4>1, FS_EmptySet DEF Count
        <5> QED
            BY <5>1, Parameters
    <3> QED
        BY <3>1 DEF LimitHeld
  <2>2. ClaimLock
      BY <1>1 DEF Init, ClaimLock, Idle
  <2> QED
      BY <1>1, <2>1, <2>2, TypedInit DEF Limited
<1>2. Limited /\ [Next]_vars => Limited'
    BY LimitedStep
<1>3. Limited => LimitHeld
    BY DEF Limited
<1> QED
    BY <1>1, <1>2, <1>3, PTL DEF Spec

-----------------------------------------------------------------------------
(* Dependencies.                                                            *)

\* Users add other dependencies than those a task was submitted with.  (One
\* that is removed and added again while a job has the task is too late for it.)
NewEditsOnly == \A e \in Edits : e[2] \notin Wanted[e[1]]

\* What is met has been reached; what a job has taken has waited.
Waited ==
    /\ \A d \in Tasks : task[d] \in Met /\ (\E c \in Tasks : d \in Wanted[c]) => d \in reached
    /\ \A w \in Workers : worker[w].of \in Tasks =>
           /\ task[worker[w].of] \notin {"absent", "pending"}
           /\ submit[worker[w].of] = "waits" =>
                 Wanted[worker[w].of] \cap Parents(worker[w].of) \subseteq reached
    /\ adding \subseteq Edits
    /\ WaitedForParents

LEMMA ReachedStep ==
    ASSUME Typed, Waited, Next
    PROVE  /\ reached \subseteq reached'
           /\ \A d \in Tasks : task'[d] \in Met /\ (\E c \in Tasks : d \in Wanted[c]) => d \in reached'
           /\ \A t \in Tasks : task[t] \notin {"absent", "pending"} => task'[t] \notin {"absent", "pending"}
<1>1. CASE Moves
  <2>1. PICK t \in Tasks, to \in States, settled \in Settlings : CanMove(t, to) /\ MoveAnd(t, to, settled)
      BY <1>1 DEF Moves
  <2>2. to # "absent" /\ (to = "pending" => task[t] = "absent")
      BY <2>1, StatesAre DEF CanMove, NextStates, Typed, TypeOK
  <2>3. task' = [task EXCEPT ![t] = to]
      BY <2>1 DEF MoveAnd
  <2>4. reached \subseteq reached' /\ (to \in Met /\ (\E c \in Tasks : t \in Wanted[c]) => t \in reached')
      BY <2>1 DEF MoveAnd
  <2> QED
      BY <2>2, <2>3, <2>4 DEF Waited, Typed, TypeOK
<1>2. CASE Stays
    BY <1>2 DEF Stays, Waited
<1> QED
    BY <1>1, <1>2, RowSteps DEF Typed

\* A task that waits has its wanted dependencies already, and gets no others;
\* one that begins to wait was pending.
LEMMA EdgeStep ==
    ASSUME NewEditsOnly, Typed, Waited, Next, NEW t \in Tasks, submit'[t] = "waits"
    PROVE  /\ Wanted[t] \cap Parents(t)' \subseteq Wanted[t] \cap Parents(t)
           /\ submit[t] # "waits" => task[t] = "pending" /\ task'[t] = "waiting"
           /\ adding' \subseteq Edits
<1> DEFINE Goal == /\ Wanted[t] \cap Parents(t)' \subseteq Wanted[t] \cap Parents(t)
                   /\ submit[t] # "waits" => task[t] = "pending" /\ task'[t] = "waiting"
                   /\ adding' \subseteq Edits
<1> USE DEF Typed, TypeOK, Parents
<1>1. ASSUME UNCHANGED <<submit, edges, adding>> PROVE Goal
    BY <1>1 DEF Waited
<1>2. ASSUME NEW u \in Tasks, Create(u) PROVE Goal
    BY <1>2 DEF Create, Waited
<1>3. ASSUME NEW u \in Tasks, LinkWanted(u) PROVE Goal
  <2>1. t # u /\ submit[t] = "waits"
      BY <1>3 DEF LinkWanted
  <2>2. \A d : <<t, d>> \in edges' => <<t, d>> \in edges
      BY <1>3, <2>1 DEF LinkWanted
  <2> QED
      BY <1>3, <2>1, <2>2 DEF LinkWanted, Waited
<1>4. ASSUME NEW u \in Tasks, SubmitWaiting(u) PROVE Goal
  <2>1. UNCHANGED <<edges, adding>>
      BY <1>4 DEF SubmitWaiting
  <2>2. CASE t # u
      BY <1>4, <2>1, <2>2 DEF SubmitWaiting, Waited
  <2>3. CASE t = u
    <3>1. CanMove(t, "waiting") /\ MoveTask(t, "waiting")
        BY <1>4, <2>3 DEF SubmitWaiting
    <3>2. task[t] = "pending"
        BY <3>1, StatesAre DEF CanMove, NextStates
    <3> QED
        BY <2>1, <3>1, <3>2 DEF MoveTask, MoveAnd, Waited
  <2> QED
      BY <2>2, <2>3
<1>5. ASSUME NEW u \in Tasks, SubmitQueued(u) PROVE Goal
    BY <1>5 DEF SubmitQueued, Waited
<1>6. ASSUME NEW e \in Tasks \X Tasks, CheckDependency(e) PROVE Goal
    BY <1>6 DEF CheckDependency, Waited
<1>7. ASSUME NEW e \in Tasks \X Tasks, InsertDependency(e) PROVE Goal
  <2>1. \A d \in Wanted[t] : <<t, d>> # e
      BY <1>7 DEF InsertDependency, Waited, NewEditsOnly
  <2> QED
      BY <1>7, <2>1 DEF InsertDependency, Waited
<1>8. ASSUME NEW e \in Tasks \X Tasks, RemoveDependency(e) PROVE Goal
    BY <1>8 DEF RemoveDependency, users, Waited
<1>9. ASSUME Next, \A u \in Tasks : ~Submission(u),
             \A e \in Tasks \X Tasks : ~(CheckDependency(e) \/ InsertDependency(e) \/ RemoveDependency(e))
      PROVE  UNCHANGED <<submit, edges, adding>>
    BY <1>9 DEF Next, Settle, Apply, Runs, SetupFails, Cancel, Retry, FinishRun, CheckDependent,
       QueueDependent, FailDependent, Observe, ObserveUnread, ApplyMove, ApplyTransition, ApplyEnqueue,
       CountActive, LockTimeout, Claim, Crash, Take, LoseSettling, Boot, users
<1> QED
    BY <1>1, <1>2, <1>3, <1>4, <1>5, <1>6, <1>7, <1>8, <1>9 DEF Submission

LEMMA AddingStep ==
    ASSUME Waited, Next
    PROVE  adding' \subseteq Edits
    BY DEF Waited, Next, Submission, Settle, Apply, Create, LinkWanted, SubmitWaiting, SubmitQueued,
       Runs, SetupFails, Cancel, Retry, FinishRun, CheckDependent, QueueDependent, FailDependent,
       CheckDependency, InsertDependency, RemoveDependency, Observe, ObserveUnread, ApplyMove, ApplyTransition,
       ApplyEnqueue, CountActive, LockTimeout, Claim, Crash, Take, LoseSettling, Boot, users

\* A worker goes on with its task, drops it, or takes one whose dependencies are met.
LEMMA TakenSteps ==
    ASSUME Typed, Next, NEW w \in Workers
    PROVE  \/ worker'[w].of = worker[w].of \/ worker'[w].of = NoTask
           \/ \E t \in Tasks : /\ worker'[w].of = t /\ task[t] = "queued" /\ DependenciesMet(t)
                             /\ UNCHANGED <<rows, users, edges>>
<1> DEFINE Goal == \/ worker'[w].of = worker[w].of \/ worker'[w].of = NoTask
                   \/ \E t \in Tasks : /\ worker'[w].of = t /\ task[t] = "queued" /\ DependenciesMet(t)
                                     /\ UNCHANGED <<rows, users, edges>>
<1>0. worker \in [Workers -> Job]
    BY DEF Typed, TypeOK
<1>1. ASSUME NEW v \in Workers, Leave(v) PROVE Goal
    BY <1>0, <1>1 DEF Leave, Idle
<1>2. ASSUME NEW v \in Workers, CountActive(v) PROVE Goal
  <2>1. Leave(v) \/ worker' = [worker EXCEPT ![v].at = "counted"]
      BY <1>2 DEF CountActive, Requeue
  <2> QED
    <3>1. Leave(v) => Goal
        BY <1>1
    <3>2. worker' = [worker EXCEPT ![v].at = "counted"] => worker'[w].of = worker[w].of
        BY <1>0 DEF Job
    <3> QED
        BY <2>1, <3>1, <3>2
<1>3. ASSUME NEW v \in Workers, LockTimeout(v) \/ Claim(v) \/ Crash(v) PROVE Goal
    BY <1>1, <1>3 DEF LockTimeout, Claim, Crash, Requeue, work
<1>4. ASSUME NEW v \in Workers, NEW t \in Tasks, Take(v, t) PROVE Goal
  <2>1. \/ UNCHANGED worker
        \/ /\ task[t] = "queued" /\ DependenciesMet(t) /\ UNCHANGED <<rows, users, edges>>
           /\ worker' = [worker EXCEPT ![v] = [at |-> "ready", of |-> t]]
      BY <1>4 DEF Take
  <2> QED
      BY <1>0, <2>1
<1>5. ASSUME Next,
             \A v \in Workers : /\ ~LockTimeout(v) /\ ~Claim(v) /\ ~Crash(v) /\ ~CountActive(v)
                                /\ \A t \in Tasks : ~Take(v, t)
      PROVE  UNCHANGED worker
    BY <1>5 DEF Next, Submission, Settle, Apply, Create, LinkWanted, SubmitWaiting, SubmitQueued,
       Runs, SetupFails, Cancel, Retry, FinishRun, CheckDependent, QueueDependent, FailDependent,
       CheckDependency, InsertDependency, RemoveDependency, Observe, ObserveUnread, ApplyMove, ApplyTransition,
       ApplyEnqueue, LoseSettling, Boot, work
<1> QED
    BY <1>2, <1>3, <1>4, <1>5

LEMMA WaitedStep ==
    ASSUME NewEditsOnly, Typed, Waited, [Next]_vars
    PROVE  Waited'
<1>1. CASE Next
  <2>1. ASSUME NEW w \in Workers, NEW t \in Tasks, worker'[w].of = t
        PROVE  /\ task'[t] \notin {"absent", "pending"}
               /\ submit'[t] = "waits" => Wanted[t] \cap Parents(t)' \subseteq reached'
    <3>1. CASE worker'[w].of = worker[w].of
      <4>1. task[t] \notin {"absent", "pending"} /\ task'[t] \notin {"absent", "pending"}
          BY <1>1, <2>1, <3>1, ReachedStep DEF Waited
      <4>2. ASSUME submit'[t] = "waits" PROVE Wanted[t] \cap Parents(t)' \subseteq reached'
        <5>1. submit[t] = "waits" /\ Wanted[t] \cap Parents(t)' \subseteq Wanted[t] \cap Parents(t)
            BY <1>1, <2>1, <4>1, <4>2, EdgeStep
        <5>2. Wanted[t] \cap Parents(t) \subseteq reached
            BY <2>1, <3>1, <5>1 DEF Waited
        <5> QED
            BY <1>1, <5>1, <5>2, ReachedStep
      <4> QED
          BY <4>1, <4>2
    <3>2. CASE /\ task[t] = "queued" /\ DependenciesMet(t)
               /\ UNCHANGED <<rows, users, edges>>
      <4>1. UNCHANGED <<task, reached, edges>>
          BY <3>2 DEF rows, users
      <4>2. Wanted[t] \cap Parents(t) \subseteq reached
          BY <2>1, <3>2 DEF DependenciesMet, Parents, Waited
      <4>3. Parents(t)' = Parents(t)
          BY <4>1 DEF Parents
      <4> QED
          BY <3>2, <4>1, <4>2, <4>3 DEF users
    <3> QED
        BY <1>1, <2>1, <3>1, <3>2, TakenSteps, Parameters
  <2>2. ASSUME NEW t \in Tasks, submit'[t] = "waits", task'[t] = "running"
        PROVE  Wanted[t] \cap Parents(t)' \subseteq reached'
    <3>1. submit[t] = "waits" /\ Wanted[t] \cap Parents(t)' \subseteq Wanted[t] \cap Parents(t)
        BY <1>1, <2>2, EdgeStep
    <3>2. CASE task[t] = "running"
      <4>1. Wanted[t] \cap Parents(t) \subseteq reached
          BY <3>1, <3>2 DEF Waited, WaitedForParents
      <4> QED
          BY <1>1, <3>1, <4>1, ReachedStep
    <3>3. CASE task[t] # "running"
      <4>1. \E w \in Workers : worker[w].of = t
          BY <1>1, <2>2, <3>3, RowSteps DEF Moves, MoveAnd, Stays, Typed, TypeOK
      <4>2. Wanted[t] \cap Parents(t) \subseteq reached
          BY <3>1, <4>1 DEF Waited
      <4> QED
          BY <1>1, <3>1, <4>2, ReachedStep
    <3> QED
        BY <3>2, <3>3
  <2>3. adding' \subseteq Edits
      BY <1>1, AddingStep
  <2>4. WaitedForParents'
      BY <2>2 DEF WaitedForParents, Parents
  <2>5. \A d \in Tasks : task'[d] \in Met /\ (\E c \in Tasks : d \in Wanted[c]) => d \in reached'
      BY <1>1, ReachedStep
  <2>6. \A w \in Workers : worker'[w].of \in Tasks =>
           /\ task'[worker'[w].of] \notin {"absent", "pending"}
           /\ submit'[worker'[w].of] = "waits" =>
                 Wanted[worker'[w].of] \cap {d \in Tasks : <<worker'[w].of, d>> \in edges'} \subseteq reached'
      BY <2>1 DEF Parents
  <2> QED
      BY <2>3, <2>4, <2>5, <2>6 DEF Waited, Parents, Met
<1>2. CASE UNCHANGED vars
    BY <1>2 DEF vars, rows, users, work, Waited, WaitedForParents, Parents
<1> QED
    BY <1>1, <1>2

\* A task that was put to wait runs only after everything it waits for, whichever
\* of its parents' ends, passes, retries and jobs got it into the queue.
THEOREM WaitsForParents ==
    ASSUME NewEditsOnly
    PROVE  Spec => []WaitedForParents
<1>1. ASSUME Init PROVE Waited
    BY <1>1, Parameters DEF Init, Waited, WaitedForParents, Met, Idle
<1>2. Typed /\ Waited /\ [Next]_vars => Waited'
    BY WaitedStep
<1>3. Waited => WaitedForParents
    BY DEF Waited
<1> QED
    BY <1>1, <1>2, <1>3, AlwaysTyped, PTL DEF Spec
=============================================================================
