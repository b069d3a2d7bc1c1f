----------------------------- MODULE TaskQueue -----------------------------
(***************************************************************************)
(* Repo tasks on their way to an agent: submission, the dependencies       *)
(* between tasks, the reconciler's passes over a task that has no run yet, *)
(* the worker's jobs, the claim under the concurrency limits, and what a   *)
(* run's end does to the tasks that wait for it.                           *)
(*                                                                         *)
(* A run is its task's state only (RunAttachment has the rest), and so is  *)
(* a pull request (PullRequest).  `fresh` holds the passes whose task has  *)
(* not been written since they read it.  A job that is added at its bound  *)
(* is one more of those already there.  Local tasks (no job runs them, and *)
(* they can only make a count say that there is no room), off-peak hours   *)
(* and the usage budget are left out.                                      *)
(***************************************************************************)
EXTENDS Integers, FiniteSets

CONSTANTS
    Tasks,
    Wanted,         \* Wanted[t]: the tasks t is submitted to depend on
    Unknown,        \* the tasks submitted with a dependency that is not there
    Edits,          \* <<t, d>>: dependencies users may add later
    Limits,         \* the global limit and the repos': tasks that share one
    Workers,        \* jobs in progress at once, over all instances
    NoTask,
    Passes,         \* reconcile passes in progress at once
    MaxJobs,        \* bound: jobs of one task in the queue
    Upsets,         \* what users, rollouts and faults may do
    MaxUpsets       \* bound: how often

ASSUME Parameters ==
    /\ IsFiniteSet(Tasks) /\ NoTask \notin Tasks
    /\ Wanted \in [Tasks -> SUBSET Tasks] /\ Unknown \subseteq Tasks
    /\ Edits \subseteq Tasks \X Tasks
    /\ \A l \in Limits : l.of \subseteq Tasks /\ l.max \in Nat \ {0}
    /\ MaxJobs \in Nat \ {0} /\ MaxUpsets \in Nat
    /\ Upsets \subseteq {"link", "unlink", "cancel", "retry", "boot", "crash", "setup", "read"}

VARIABLES
    task,       \* the tasks' states, "absent" before their submission
    submit,     \* how far each submission is
    edges,      \* <<t, d>>: t depends on d
    adding,     \* edges a route has validated and not inserted
    jobs,       \* the worker's queue
    worker,     \* where each job in progress is, and its task
    settling,   \* runs to finish; dependents of a task that ended, and what is
                \* to happen to them
    pass,       \* what each pass has decided and not finished
    fresh,      \* passes whose task has not been written since
    reached,    \* history: tasks others wanted that have completed or had a PR
    upsets

rows  == <<task, fresh, settling, reached>>
users == <<submit, adding>>
work  == <<jobs, worker>>
vars  == <<rows, users, edges, work, pass, upsets>>

-----------------------------------------------------------------------------
(* The shape of the state.                                                  *)

\* VALID_TRANSITIONS; running stands for provisioning too.
NextStates ==
    [pending         |-> {"queued", "waiting"},
     waiting         |-> {"queued", "failed", "cancelled"},
     queued          |-> {"running", "cancelled", "failed"},
     running         |-> {"pr_opened", "completed", "needs_attention", "failed", "cancelled", "queued"},
     needs_attention |-> {"running", "queued", "cancelled"},
     pr_opened       |-> {"completed", "needs_attention", "failed", "cancelled", "queued"},
     failed          |-> {"queued", "completed"},
     cancelled       |-> {"queued"},
     completed       |-> {},
     absent          |-> {"pending"}]

States == DOMAIN NextStates
Met    == {"completed", "pr_opened"}
Fallen == {"failed", "cancelled"}

Job  == [at : {"idle", "ready", "counted"}, of : Tasks \cup {NoTask}]
Pass == [do : {"none", "move", "transition", "enqueue"}, of : Tasks \cup {NoTask}, to : States]
Idle == [at |-> "idle", of |-> NoTask]
Noop == [do |-> "none", of |-> NoTask, to |-> "absent"]

TypeOK ==
    /\ task \in [Tasks -> States]
    /\ submit \in [Tasks -> {"none", "created", "linked", "waits", "missed", "queued", "refused"}]
    /\ edges \subseteq Tasks \X Tasks /\ adding \subseteq Tasks \X Tasks
    /\ jobs \in [Tasks -> 0 .. MaxJobs]
    /\ worker \in [Workers -> Job]
    /\ \A w \in Workers : worker[w].at = "idle" <=> worker[w].of = NoTask
    /\ settling \subseteq {"finish", "unblock", "queue", "cascade"} \X Tasks
    /\ pass \in [Passes -> Pass] /\ fresh \subseteq Passes
    /\ reached \subseteq Tasks
    /\ upsets \in 0 .. MaxUpsets

Init ==
    /\ task = [t \in Tasks |-> "absent"] /\ submit = [t \in Tasks |-> "none"]
    /\ edges = {} /\ adding = {}
    /\ jobs = [t \in Tasks |-> 0] /\ worker = [w \in Workers |-> Idle]
    /\ settling = {}
    /\ pass = [r \in Passes |-> Noop] /\ fresh = {}
    /\ reached = {}
    /\ upsets = 0

Parents(t)    == {d \in Tasks : <<t, d>> \in edges}
Dependents(t) == {c \in Tasks : <<c, t>> \in edges}
CanMove(t, to) == to \in NextStates[task[t]]
Upset(kind)   == kind \in Upsets /\ upsets < MaxUpsets /\ upsets' = upsets + 1
AddJob(t)     == jobs' = [jobs EXCEPT ![t] = IF @ < MaxJobs THEN @ + 1 ELSE @]

Waiting(ts) == {t \in ts : task[t] = "waiting"}
Unblock(ts) == {"unblock"} \X Waiting(ts)
Cascade(ts) == {"cascade"} \X Waiting(ts)

\* transitionTask: the row, then (announceTransition) the dependents that wait
\* are looked up: onDependencyComplete and cascadeFailure.
MoveAnd(t, to, settled) ==
    /\ task' = [task EXCEPT ![t] = to]
    /\ fresh' = {r \in fresh : pass[r].of # t}
    /\ reached' = IF to \in Met /\ (\E c \in Tasks : t \in Wanted[c]) THEN reached \cup {t} ELSE reached
    /\ settling' = settled \cup
           CASE to = "completed" -> Unblock(Dependents(t))
             [] to = "failed"    -> Cascade(Dependents(t))
             [] OTHER            -> {}

MoveTask(t, to) == MoveAnd(t, to, settling)

\* A transition to queued and the job that goes with it, unless the instance
\* goes away in between.
QueueTask(t) ==
    /\ MoveTask(t, "queued")
    /\ \/ AddJob(t) /\ UNCHANGED upsets
       \/ Upset("crash") /\ UNCHANGED jobs

-----------------------------------------------------------------------------
(* Submission, and the dependency routes.                                   *)

\* submitTask: the row is there, pending, before its dependencies are.
Create(t) ==
    /\ task[t] = "absent" /\ \A d \in Wanted[t] : task[d] # "absent"
    /\ MoveTask(t, "pending")
    /\ submit' = [submit EXCEPT ![t] = "created"]
    /\ UNCHANGED <<adding, edges, work, pass, upsets>>

\* detectCycle over all the edges and the new ones, by what it answers.
Closure(es) ==
    LET Step(rel) == rel \cup {<<pq[1][1], pq[2][2]>> :
                                  pq \in {ef \in rel \X rel : ef[1][2] = ef[2][1]}}
        to[n \in Nat] == IF n = 0 THEN es ELSE Step(to[n - 1])
    IN  to[Cardinality(Tasks)]

HasCycle(es) == \E t \in Tasks : <<t, t>> \in Closure(es)

\* addDependencies, of a task nobody else adds dependencies to yet.
LinkWanted(t) ==
    /\ submit[t] = "created" /\ (Wanted[t] # {} \/ t \in Unknown)
    /\ IF t \in Unknown \/ HasCycle(edges \cup ({t} \X Wanted[t]))
       THEN submit' = [submit EXCEPT ![t] = "refused"] /\ UNCHANGED edges
       ELSE submit' = [submit EXCEPT ![t] = "linked"] /\ edges' = edges \cup ({t} \X Wanted[t])
    /\ UNCHANGED <<rows, adding, work, pass, upsets>>

SubmitWaiting(t) ==
    /\ submit[t] = "linked"
    /\ IF CanMove(t, "waiting")
       THEN MoveTask(t, "waiting") /\ submit' = [submit EXCEPT ![t] = "waits"]
       ELSE submit' = [submit EXCEPT ![t] = "missed"] /\ UNCHANGED rows
    /\ UNCHANGED <<adding, edges, work, pass, upsets>>

SubmitQueued(t) ==
    /\ submit[t] = "created" /\ Wanted[t] = {} /\ t \notin Unknown
    /\ IF task[t] = "pending" THEN QueueTask(t) ELSE UNCHANGED <<rows, jobs, upsets>>
    /\ submit' = [submit EXCEPT ![t] = "queued"]
    /\ UNCHANGED <<adding, edges, worker, pass>>

\* The routes take a task in any state.
CheckDependency(e) ==
    /\ Upset("link")
    /\ e \in Edits \ edges /\ task[e[1]] # "absent" /\ task[e[2]] # "absent"
    /\ ~HasCycle(edges \cup {e})
    /\ adding' = adding \cup {e}
    /\ UNCHANGED <<rows, submit, edges, work, pass>>

InsertDependency(e) ==
    /\ e \in adding
    /\ adding' = adding \ {e} /\ edges' = edges \cup {e}
    /\ UNCHANGED <<rows, submit, work, pass, upsets>>

RemoveDependency(e) ==
    /\ Upset("unlink") /\ e \in edges
    /\ edges' = edges \ {e}
    /\ UNCHANGED <<rows, users, work, pass>>

-----------------------------------------------------------------------------
(* The reconciler.                                                          *)

Count(ts) == Cardinality({t \in ts : task[t] = "running"})
Room(t)   == \A l \in Limits : t \in l.of => Count(l.of) < l.max

HasFallen_FailedOnly(t) == \E d \in Parents(t) : task[d] = "failed"
HasFallen(t)    == \E d \in Parents(t) : task[d] \in Fallen
AllCompleted(t) == \A d \in Parents(t) : task[d] = "completed"

Move(t, to) == [do |-> "move", of |-> t, to |-> to]

\* decidePending, decideWaitingOnDeps (here an open pull request is not the
\* end of a dependency), decideQueued.
Decided(t) ==
    CASE task[t] = "pending" -> Move(t, IF Parents(t) = {} THEN "queued" ELSE "waiting")
      [] task[t] = "waiting" /\ HasFallen(t) -> Move(t, "failed")
      [] task[t] = "waiting" /\ ~HasFallen(t) /\ AllCompleted(t) -> Move(t, "queued")
      [] task[t] = "queued" /\ Room(t) -> [do |-> "enqueue", of |-> t, to |-> "queued"]
      [] OTHER -> Noop

Observe(r, t) ==
    /\ pass[r] = Noop /\ Decided(t) # Noop
    /\ pass' = [pass EXCEPT ![r] = Decided(t)]
    /\ fresh' = fresh \cup {r}
    /\ UNCHANGED <<task, settling, reached, users, edges, work, upsets>>

\* loadDependencies: those that cannot be read are taken for none.
ObserveUnread(r, t) ==
    /\ pass[r] = Noop /\ task[t] \in {"pending", "waiting"}
    /\ Upset("read")
    /\ pass' = [pass EXCEPT ![r] = Move(t, "queued")]
    /\ fresh' = fresh \cup {r}
    /\ UNCHANGED <<task, settling, reached, users, edges, work>>

\* applyRepoTransition: the version is compared, and the row touched ...
ApplyMove(r) ==
    /\ pass[r].do = "move"
    /\ IF r \in fresh
       THEN /\ pass' = [pass EXCEPT ![r].do = "transition"]
            /\ fresh' = {q \in fresh : pass[q].of # pass[r].of}
       ELSE pass' = [pass EXCEPT ![r] = Noop] /\ UNCHANGED fresh
    /\ UNCHANGED <<task, settling, reached, users, edges, work, upsets>>

\* ... and the transition reads the state again.
ApplyTransition(r) ==
    /\ pass[r].do = "transition"
    /\ IF CanMove(pass[r].of, pass[r].to) THEN MoveTask(pass[r].of, pass[r].to)
                                          ELSE UNCHANGED rows
    /\ pass' = [pass EXCEPT ![r] = Noop]
    /\ UNCHANGED <<users, edges, work, upsets>>

\* applyRequeueForAgent: no version is compared.
ApplyEnqueue(r) ==
    /\ pass[r].do = "enqueue"
    /\ AddJob(pass[r].of)
    /\ pass' = [pass EXCEPT ![r] = Noop] /\ fresh' = fresh \ {r}
    /\ UNCHANGED <<task, settling, reached, users, edges, worker, upsets>>

-----------------------------------------------------------------------------
(* The worker's job, up to its claim.                                       *)

Leave_KeepTask(w) == worker' = [worker EXCEPT ![w].at = "idle"]
Leave(w)   == worker' = [worker EXCEPT ![w] = Idle]
Requeue(w) == AddJob(worker[w].of) /\ Leave(w)

\* areDependenciesMet
DependenciesMet_Any(t) == Parents(t) = {} \/ \E d \in Parents(t) : task[d] \in Met
DependenciesMet_NoneFallen(t) == \A d \in Parents(t) : task[d] \notin Fallen
DependenciesMet(t) == \A d \in Parents(t) : task[d] \in Met

\* The task's state and its dependencies, read one after the other; what
\* matters is how old they are at the claim.  (Any idle worker will do.)
Take(w, t) ==
    /\ jobs[t] > 0
    /\ worker[w] = Idle /\ w = CHOOSE v \in Workers : worker[v] = Idle
    /\ CASE task[t] # "queued" ->
                 jobs' = [jobs EXCEPT ![t] = @ - 1] /\ UNCHANGED <<rows, worker>>
         [] task[t] = "queued" /\ HasFallen(t) ->
                 /\ MoveTask(t, "failed")
                 /\ jobs' = [jobs EXCEPT ![t] = @ - 1] /\ UNCHANGED worker
         [] OTHER ->
                 /\ DependenciesMet(t)
                 /\ worker' = [worker EXCEPT ![w] = [at |-> "ready", of |-> t]]
                 /\ jobs' = [jobs EXCEPT ![t] = @ - 1] /\ UNCHANGED rows
    /\ UNCHANGED <<users, edges, pass, upsets>>

\* withClaimLock: from the count to its claim's commit a claimer is alone; one
\* that waits past the timeout lets be.
LockFree_Always == TRUE
LockFree == \A w \in Workers : worker[w].at # "counted"

CountActive(w) ==
    /\ worker[w].at = "ready" /\ LockFree
    /\ IF Room(worker[w].of)
       THEN worker' = [worker EXCEPT ![w].at = "counted"] /\ UNCHANGED jobs
       ELSE Requeue(w)
    /\ UNCHANGED <<rows, users, edges, pass, upsets>>

LockTimeout(w) ==
    /\ worker[w].at = "ready" /\ ~LockFree
    /\ Requeue(w)
    /\ UNCHANGED <<rows, users, edges, pass, upsets>>

\* claimTransitionIn: a task that is no longer queued leaves a job behind too.
Claim(w) ==
    /\ worker[w].at = "counted"
    /\ IF CanMove(worker[w].of, "running")
       THEN MoveTask(worker[w].of, "running") /\ Leave(w) /\ UNCHANGED jobs
       ELSE Requeue(w) /\ UNCHANGED rows
    /\ UNCHANGED <<users, edges, pass, upsets>>

\* The instance goes away: the transaction rolls back, the job is stalled and
\* taken again.
Crash(w) ==
    /\ worker[w] # Idle /\ Upset("crash")
    /\ Requeue(w)
    /\ UNCHANGED <<rows, users, edges, pass>>

-----------------------------------------------------------------------------
(* The run, its pull request, its users.                                    *)

\* The end of a run that nothing can depend on is not followed further.
Wantable == {d \in Tasks : \E c \in Tasks : d \in Wanted[c] \/ <<c, d>> \in Edits}

Runs(t) ==
    /\ \/ /\ task[t] = "running"
          /\ \E to \in {"completed", "pr_opened", "failed"} :
                 MoveAnd(t, to, settling \cup ({"finish"} \X ({t} \cap Wantable)))
       \/ task[t] = "pr_opened" /\ \E to \in {"completed", "failed"} : MoveTask(t, to)
    /\ UNCHANGED <<users, edges, work, pass, upsets>>

\* A pod that could not be had: the task is queued again.
SetupFails(t) ==
    /\ task[t] = "running" /\ Upset("setup")
    /\ MoveTask(t, "queued") /\ AddJob(t)
    /\ UNCHANGED <<users, edges, worker, pass>>

Cancel(t) ==
    /\ Upset("cancel") /\ CanMove(t, "cancelled")
    /\ MoveTask(t, "cancelled")
    /\ UNCHANGED <<users, edges, work, pass>>

Retry(t) ==
    /\ Upset("retry") /\ task[t] \in Fallen \cup {"pr_opened"}
    /\ MoveTask(t, "queued") /\ AddJob(t)
    /\ UNCHANGED <<users, edges, worker, pass>>

-----------------------------------------------------------------------------
(* What a run's end does to the tasks that wait for it.                     *)

\* finishTaskRun, its output stored: the task's state is read again, and an open
\* pull request releases the dependents too.
FinishRun(t) ==
    /\ <<"finish", t>> \in settling
    /\ settling' = (settling \ {<<"finish", t>>}) \cup
           CASE task[t] \in Met     -> Unblock(Dependents(t))
             [] task[t] = "failed"  -> Cascade(Dependents(t))
             [] OTHER               -> {}
    /\ UNCHANGED <<task, fresh, reached, users, edges, work, pass, upsets>>

\* One dependent after the other: its dependencies are read, ...
CheckDependent(c) ==
    /\ <<"unblock", c>> \in settling
    /\ settling' = (settling \ {<<"unblock", c>>}) \cup
                   (IF DependenciesMet(c) THEN {<<"queue", c>>} ELSE {})
    /\ UNCHANGED <<task, fresh, reached, users, edges, work, pass, upsets>>

\* ... and the transition reads its state again.
SettleAs(what, c, to) ==
    /\ <<what, c>> \in settling
    /\ IF CanMove(c, to) THEN MoveAnd(c, to, settling \ {<<what, c>>})
       ELSE settling' = settling \ {<<what, c>>} /\ UNCHANGED <<task, fresh, reached>>

QueueDependent(c) ==
    /\ SettleAs("queue", c, "queued")
    /\ \/ (IF CanMove(c, "queued") THEN AddJob(c) ELSE UNCHANGED jobs) /\ UNCHANGED upsets
       \/ Upset("crash") /\ UNCHANGED jobs
    /\ UNCHANGED <<users, edges, worker, pass>>

FailDependent(c) ==
    /\ SettleAs("cascade", c, "failed")
    /\ UNCHANGED <<users, edges, work, pass, upsets>>

\* Nobody awaits any of this, and it ends with its instance.
LoseSettling ==
    /\ settling # {} /\ Upset("crash")
    /\ settling' = {}
    /\ UNCHANGED <<task, fresh, reached, users, edges, work, pass>>

\* reconcileOrphanedTasks: queued tasks without a job get one, tasks that wait
\* are looked at.
Boot ==
    /\ Upset("boot")
    /\ jobs' = [t \in Tasks |->
           IF task[t] = "queued" /\ jobs[t] = 0 /\ \A w \in Workers : worker[w].of # t
           THEN 1 ELSE jobs[t]]
    /\ settling' = settling \cup Unblock(Tasks)
    /\ UNCHANGED <<task, fresh, reached, users, edges, worker, pass>>

-----------------------------------------------------------------------------

Submission(t) == Create(t) \/ LinkWanted(t) \/ SubmitWaiting(t) \/ SubmitQueued(t)
Apply(r)      == ApplyMove(r) \/ ApplyTransition(r) \/ ApplyEnqueue(r)
Settle(c)     == FinishRun(c) \/ CheckDependent(c) \/ QueueDependent(c) \/ FailDependent(c)

Next ==
    \/ \E t \in Tasks : Submission(t) \/ Runs(t) \/ SetupFails(t) \/ Cancel(t) \/ Retry(t) \/ Settle(t)
    \/ \E e \in Tasks \X Tasks : CheckDependency(e) \/ InsertDependency(e) \/ RemoveDependency(e)
    \/ \E r \in Passes : Apply(r) \/ \E t \in Tasks : Observe(r, t) \/ ObserveUnread(r, t)
    \/ \E w \in Workers : \/ CountActive(w) \/ LockTimeout(w) \/ Claim(w) \/ Crash(w)
                          \/ \E t \in Tasks : Take(w, t)
    \/ LoseSettling \/ Boot

Spec == Init /\ [][Next]_vars

\* The resync wakes the reconciler for every task that has not completed, the
\* queue is served, some claimer goes on, and runs end.
Fairness ==
    /\ WF_vars(\E t \in Tasks : Submission(t)) /\ WF_vars(\E t \in Tasks : Runs(t))
    /\ \A t \in Tasks : SF_vars(\E r \in Passes : Observe(r, t))
    /\ WF_vars(\E r \in Passes : Apply(r))
    /\ WF_vars(\E w \in Workers, t \in Tasks : Take(w, t))
    /\ WF_vars(\E w \in Workers : CountActive(w) \/ Claim(w))

LiveSpec == Spec /\ Fairness

-----------------------------------------------------------------------------
(* Properties.                                                              *)

\* However many workers, passes and retries compete, no more runs are active
\* than the global limit and each repo's allow (claim-lock.ts, task-worker.ts).
LimitHeld == \A l \in Limits : Count(l.of) <= l.max

\* A task that was put to wait starts only when each task it was submitted to
\* depend on, and still depends on, has completed or has had its work in a
\* pull request.
WaitedForParents ==
    \A t \in Tasks :
        submit[t] = "waits" /\ task[t] = "running" => Wanted[t] \cap Parents(t) \subseteq reached

\* No task is stuck: one whose dependencies are met is taken from the queue,
\* whatever jobs, locks and slots were lost or refused, one that waits moves on
\* once they have completed, and either does when one of them has fallen.
Stuck(t) ==
    \/ task[t] = "queued" /\ DependenciesMet(t)
    \/ task[t] = "waiting" /\ \A d \in Parents(t) : task[d] = "completed"
    \/ task[t] \in {"queued", "waiting"} /\ \E d \in Parents(t) : task[d] \in Fallen

TasksMoveOn == \A t \in Tasks : Stuck(t) ~> ~Stuck(t)

\* The dependency routes: "Fails with 400 if adding any edge would introduce a
\* cycle in the dependency graph."
NoCycle == ~HasCycle(edges)
=============================================================================
