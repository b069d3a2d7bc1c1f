---------------------------- MODULE PullRequest ----------------------------
(***************************************************************************)
(* A coding task whose pull request is open, followed until it is merged   *)
(* or given up: the task's row, the pull request on its platform, the      *)
(* watcher that copies one into the other, the reconciler's passes (what   *)
(* they decide from a snapshot and how the executor applies it, write by   *)
(* write), the queue of the task worker, its agent, and the users.         *)
(*                                                                         *)
(* `fresh` holds the passes that have missed no write of the row since     *)
(* they read it (PersistentAgent).  `running` stands for provisioning too, *)
(* and setting a run up, streaming and losing it are RunAttachment's.      *)
(* A review that requests changes takes the way of failing checks, and     *)
(* review tasks, drafts and GitLab's "not ready" only hold a merge back:   *)
(* they are left out.                                                      *)
(***************************************************************************)
EXTENDS Integers, FiniteSets

CONSTANTS
    Passes,         \* reconcile passes in progress at once
    MaxJobs,        \* bound: jobs of one kind in the worker's queue
    AutoResume,     \* the setting: agents come back for CI, reviews, conflicts
    MaxAutoResumes, \* ... this many times between two requests of a user
    AutoMerge,      \* the setting: a pull request that is ready is merged
    Requests,       \* what users may do
    MaxRequests,    \* bound: how often
    Faults,         \* kinds of fault the environment injects
    MaxFaults       \* bound: how many

ASSUME Parameters ==
    /\ MaxJobs \in Nat \ {0}
    /\ MaxAutoResumes \in Nat /\ MaxRequests \in Nat /\ MaxFaults \in Nat
    /\ AutoResume \in BOOLEAN /\ AutoMerge \in BOOLEAN
    /\ Requests \subseteq {"push", "rebase", "merge", "close", "cancel", "retry", "restart"}
    /\ Faults \subseteq {"read", "write", "crash"}

VARIABLES
    task,       \* the row: state, pr_checks_status, resumes, back-off
    fresh,      \* passes that have missed no write of the row
    pull,       \* the pull request as its platform has it
    ci,         \* the checks of its head
    empty,      \* whether an auto-merge has found that head without checks
    current,    \* passes whose head_sha is still the head
    jobs,       \* the worker's queue, by what the job asks of the agent
    agent,      \* the agent of the task's latest attempt, by the job it came from
    watched,    \* what the watcher has read and not written
    pass,       \* what each pass has decided and not finished
    requests, faults

vars == <<task, fresh, pull, ci, empty, current, jobs, agent, watched, pass, requests, faults>>
budgets == <<requests, faults>>

-----------------------------------------------------------------------------
(* The shape of the state.                                                  *)

\* VALID_TRANSITIONS, from the task's first open pull request on.
NextStates ==
    [queued          |-> {"running", "cancelled", "failed"},
     running         |-> {"pr_opened", "completed", "needs_attention", "failed", "cancelled", "queued"},
     needs_attention |-> {"running", "queued", "cancelled"},
     pr_opened       |-> {"completed", "needs_attention", "failed", "cancelled", "queued"},
     failed          |-> {"queued", "completed"},
     cancelled       |-> {"queued"},
     completed       |-> {}]

States  == DOMAIN NextStates
Checks  == {"none", "pending", "passing", "failing"}
Task == [state : States, checks : Checks, resumes : Nat, backoff : BOOLEAN]

Pull == [state : {"open", "closed", "merged"}, mergeable : BOOLEAN,
         by : {"nobody", "optio", "person"}]

\* A job carries what the agent is asked to do on its branch, or just the task.
Kinds == {"plain", "asked"}

\* A pass between two of its writes: what it does next, to which state, with
\* which checks for the row.
Pass == [do : {"none", "move", "transition", "patch", "defer", "enqueue", "resume",
               "requeue", "hand over", "merge", "check CI", "call merge", "record merge"},
         to : States, checks : Checks \cup {"keep"}]

Noop == [do |-> "none", to |-> "queued", checks |-> "keep"]

TypeOK ==
    /\ task \in Task
    /\ fresh \subseteq Passes
    /\ pull \in Pull
    /\ ci \in Checks
    /\ empty \in {"unseen", "seen", "seen for a minute"}
    /\ current \subseteq Passes
    /\ jobs \in [Kinds -> 0 .. MaxJobs]
    /\ agent \in Kinds \cup {"none"}
    /\ watched \in Checks \cup {"nothing"}
    /\ pass \in [Passes -> Pass]
    /\ \A r \in Passes : pass[r].do = "none" => pass[r] = Noop
    /\ requests \in 0 .. MaxRequests /\ faults \in 0 .. MaxFaults

\* The first run has opened the pull request and ended.
Init ==
    /\ task = [state |-> "pr_opened", checks |-> "none", resumes |-> 0, backoff |-> FALSE]
    /\ fresh = {}
    /\ pull = [state |-> "open", mergeable |-> TRUE, by |-> "nobody"]
    /\ ci = "none" /\ empty = "unseen" /\ current = {}
    /\ jobs = [k \in Kinds |-> 0]
    /\ agent = "none"
    /\ watched = "nothing"
    /\ pass = [r \in Passes |-> Noop]
    /\ requests = 0 /\ faults = 0

WriteTask(t)  == task' = t /\ fresh' = {}
CanMove_NotClosed(to) == to \in NextStates[task.state] /\ ~(task.state = "pr_opened" /\ to = "failed")
CanMove(to)   == to \in NextStates[task.state]
Done_KeepAim(r) == pass' = [pass EXCEPT ![r].do = "none"]
Done(r)       == pass' = [pass EXCEPT ![r] = Noop]
Then(r, do)   == pass' = [pass EXCEPT ![r].do = do]
Request(what) == what \in Requests /\ requests < MaxRequests /\ requests' = requests + 1
Fault(kind)   == kind \in Faults /\ faults < MaxFaults /\ faults' = faults + 1
Queue(kind)   == jobs' = [jobs EXCEPT ![kind] = IF @ < MaxJobs THEN @ + 1 ELSE @]

\* transitionTask: its own read, validation and CAS; a task queued again has
\* its last attempt's agent stopped, an active one that is cancelled or fails too.
MoveTask(to, t) ==
    /\ WriteTask([t EXCEPT !.state = to])
    /\ agent' = IF \/ to = "queued"
                   \/ to \in {"cancelled", "failed"} /\ task.state = "running"
                THEN "none" ELSE agent

-----------------------------------------------------------------------------
(* The pull request: people, CI, the base branch.                           *)

NewHead ==
    /\ pull.state = "open"
    /\ pull' = [pull EXCEPT !.mergeable = TRUE]
    /\ ci' = "none" /\ empty' = "unseen" /\ current' = {}

Push ==
    /\ Request("push") /\ NewHead
    /\ UNCHANGED <<task, fresh, jobs, agent, watched, pass, faults>>

BaseMoves ==
    /\ Request("rebase") /\ pull.state = "open"
    /\ pull' = [pull EXCEPT !.mergeable = FALSE]
    /\ UNCHANGED <<task, fresh, ci, empty, current, jobs, agent, watched, pass, faults>>

PersonMerges ==
    /\ Request("merge") /\ pull.state = "open"
    /\ pull' = [pull EXCEPT !.state = "merged", !.by = "person"]
    /\ UNCHANGED <<task, fresh, ci, empty, current, jobs, agent, watched, pass, faults>>

PersonCloses ==
    /\ Request("close") /\ pull.state = "open"
    /\ pull' = [pull EXCEPT !.state = "closed"]
    /\ UNCHANGED <<task, fresh, ci, empty, current, jobs, agent, watched, pass, faults>>

\* A head's checks register within the minute the executor allows for
\* (docs/tasks.md:121 names the limit), run, and end once.
ChecksMove ==
    /\ \/ ci = "none" /\ empty # "seen for a minute" /\ ci' = "pending"
       \/ ci = "pending" /\ ci' \in {"passing", "failing"}
    /\ UNCHANGED <<task, fresh, pull, empty, current, jobs, agent, watched, pass, budgets>>

MinutePasses ==
    /\ empty = "seen" /\ empty' = "seen for a minute"
    /\ UNCHANGED <<task, fresh, pull, ci, current, jobs, agent, watched, pass, budgets>>

-----------------------------------------------------------------------------
(* The watcher.                                                             *)

\* pollPrs: the platform is read, then the row is written, by id.  Checks that
\* cannot be read are taken for none.
WatchRead ==
    /\ watched = "nothing"
    /\ task.state \in {"pr_opened", "failed"}
    /\ \/ watched' = ci /\ UNCHANGED faults
       \/ watched' = "none" /\ Fault("read")
    /\ UNCHANGED <<task, fresh, pull, ci, empty, current, jobs, agent, pass, requests>>

WatchWrite ==
    /\ watched # "nothing"
    /\ WriteTask([task EXCEPT !.checks = watched])
    /\ watched' = "nothing"
    /\ UNCHANGED <<pull, ci, empty, current, jobs, agent, pass, budgets>>

-----------------------------------------------------------------------------
(* The worker and the agent.                                                *)

\* A job that finds the task queued claims it; any other is dropped.
Claim(kind) ==
    /\ jobs[kind] > 0
    /\ jobs' = [jobs EXCEPT ![kind] = @ - 1]
    /\ IF task.state = "queued"
       THEN WriteTask([task EXCEPT !.state = "running"]) /\ agent' = kind
       ELSE UNCHANGED <<task, fresh, agent>>
    /\ UNCHANGED <<pull, ci, empty, current, watched, pass, budgets>>

\* checkExistingPr: a job that asks for nothing runs no agent while the pull
\* request is open.
Shortcut == agent = "plain" /\ task.state = "running" /\ pull.state = "open"

AgentPushes ==
    /\ agent # "none" /\ ~Shortcut
    /\ NewHead
    /\ UNCHANGED <<task, fresh, jobs, agent, watched, pass, budgets>>

\* finishTaskRun: the task moves only while it is running; an open pull
\* request wins over the agent's exit code.
AgentEnds ==
    /\ agent # "none"
    /\ agent' = "none"
    /\ IF task.state = "running"
       THEN \E to \in IF pull.state = "open" THEN {"pr_opened"} ELSE {"needs_attention", "failed"} :
                WriteTask([task EXCEPT !.state = to])
       ELSE UNCHANGED <<task, fresh>>
    /\ UNCHANGED <<pull, ci, empty, current, jobs, watched, pass, budgets>>

-----------------------------------------------------------------------------
(* Users (controlTask).                                                     *)

Cancel ==
    /\ Request("cancel") /\ CanMove("cancelled")
    /\ MoveTask("cancelled", task)
    /\ UNCHANGED <<pull, ci, empty, current, jobs, watched, pass, faults>>

\* The job that carries the request is queued once the task is.
Again(t) ==
    /\ MoveTask("queued", [t EXCEPT !.resumes = 0])
    /\ Queue("asked")
    /\ UNCHANGED <<pull, ci, empty, current, watched, pass, faults>>

Retry ==
    /\ Request("retry") /\ task.state \in {"failed", "cancelled", "pr_opened", "needs_attention"}
    /\ Again(task)
Restart ==
    /\ Request("restart") /\ task.state \in {"needs_attention", "failed", "pr_opened"}
    /\ Again(task)

-----------------------------------------------------------------------------
(* What a pass decides: reconcileRepo.                                      *)

Move(to, checks) == [Noop EXCEPT !.do = "move", !.to = to, !.checks = checks]

ResumeAllowed == AutoResume /\ task.state # "failed" /\ task.resumes < MaxAutoResumes

ResumeOrStop == IF ResumeAllowed THEN [Noop EXCEPT !.do = "resume"]
                                 ELSE Move("needs_attention", "failing")

\* decideFromPrStatus: failing checks are acted on when the row does not say
\* so yet, conflicts every time (no code writes that they are known).
FromPullRequest ==
    CASE pull.state = "merged" -> Move("completed", ci)
      [] pull.state = "closed" -> IF task.state = "failed" THEN Noop ELSE Move("failed", ci)
      [] pull.state = "open" /\ (~pull.mergeable \/ (ci = "failing" /\ task.checks # "failing")) ->
             ResumeOrStop
      [] OTHER ->
             IF AutoMerge /\ ci \in {"passing", "none"} THEN [Noop EXCEPT !.do = "merge"]
             ELSE IF ci = task.checks THEN Noop ELSE [Noop EXCEPT !.do = "patch", !.checks = ci]

\* A task that is queued gets a job (with capacity left), one that has been
\* resumed too; one that runs and has a pull request is moved on to it.
AwaitsJob_NotResumed == task.state = "queued" /\ task.resumes = 0
AwaitsJob == task.state = "queued"

Decided ==
    CASE task.backoff -> Noop
      [] ~task.backoff /\ AwaitsJob -> [Noop EXCEPT !.do = "enqueue"]
      [] ~task.backoff /\ task.state = "running" -> Move("pr_opened", "keep")
      [] ~task.backoff /\ task.state \in {"pr_opened", "failed"} -> FromPullRequest
      [] OTHER -> Noop

\* buildWorldSnapshot: the row, then the platform.  What the executor compares
\* is the row's version, so nothing is lost by reading both at once.
Observe(r) ==
    /\ pass[r] = Noop
    /\ pass' = [pass EXCEPT ![r] = Decided]
    /\ pass'[r] # Noop
    /\ fresh' = fresh \cup {r} /\ current' = current \cup {r}
    /\ UNCHANGED <<task, pull, ci, empty, jobs, agent, watched, budgets>>

ReadFails(r) ==
    /\ pass[r] = Noop
    /\ ~task.backoff /\ task.state \in {"pr_opened", "failed"}
    /\ Fault("read")
    /\ pass' = [pass EXCEPT ![r].do = "defer"]
    /\ fresh' = fresh \cup {r}
    /\ UNCHANGED <<task, pull, ci, empty, current, jobs, agent, watched, requests>>

-----------------------------------------------------------------------------
(* How the executor applies it.                                             *)

\* casUpdate: the row's fields, compared on the version.
ApplyPatch(r) ==
    /\ pass[r].do \in {"move", "patch", "defer"}
    /\ IF r \in fresh
       THEN /\ WriteTask([task EXCEPT !.checks = IF pass[r].checks = "keep" THEN @ ELSE pass[r].checks,
                                      !.backoff = (pass[r].do = "defer")])
            /\ IF pass[r].do = "move" THEN Then(r, "transition") ELSE Done(r)
       ELSE Done(r) /\ UNCHANGED <<task, fresh>>
    /\ UNCHANGED <<pull, ci, empty, current, jobs, agent, watched, budgets>>

\* The state follows in a statement of its own, which reads the state again.
ApplyTransition(r) ==
    /\ pass[r].do = "transition"
    /\ IF CanMove(pass[r].to) THEN MoveTask(pass[r].to, task)
                              ELSE UNCHANGED <<task, fresh, agent>>
    /\ Done(r)
    /\ UNCHANGED <<pull, ci, empty, current, jobs, watched, budgets>>

\* applyRequeueForAgent: no version is compared.
ApplyEnqueue(r) ==
    /\ pass[r].do = "enqueue"
    /\ Queue("plain")
    /\ Done(r)
    /\ UNCHANGED <<task, fresh, pull, ci, empty, current, agent, watched, budgets>>

\* applyResumeAgent: the version still matches and the task needs attention;
\* it is queued; its job is.
VersionMatches_StateOnly(r) == task.state = "pr_opened"
VersionMatches(r) == r \in fresh

ApplyResume(r) ==
    /\ pass[r].do = "resume"
    /\ IF VersionMatches(r) /\ CanMove("needs_attention")
       THEN MoveTask("needs_attention", task) /\ Then(r, "requeue")
       ELSE Done(r) /\ UNCHANGED <<task, fresh, agent>>
    /\ UNCHANGED <<pull, ci, empty, current, jobs, watched, budgets>>

ApplyRequeue(r) ==
    /\ pass[r].do = "requeue"
    /\ IF CanMove("queued")
       THEN MoveTask("queued", [task EXCEPT !.resumes = @ + 1]) /\ Then(r, "hand over")
       ELSE Done(r) /\ UNCHANGED <<task, fresh, agent>>
    /\ UNCHANGED <<pull, ci, empty, current, jobs, watched, budgets>>

ApplyHandOver(r) ==
    /\ pass[r].do = "hand over"
    /\ Queue("asked")
    /\ Done(r)
    /\ UNCHANGED <<task, fresh, pull, ci, empty, current, agent, watched, budgets>>

-----------------------------------------------------------------------------
(* applyAutoMergePr.                                                        *)

\* The pull request again: the head the decision was about, open, no conflict.
Reread(r) ==
    /\ pass[r].do = "merge"
    /\ IF r \in current /\ pull.state = "open" /\ pull.mergeable
       THEN Then(r, "check CI") ELSE Done(r)
    /\ UNCHANGED <<task, fresh, pull, ci, empty, current, jobs, agent, watched, budgets>>

\* Its checks again: a head without checks is merged when a read a minute
\* later still finds none.  (Of a head that is history by now, any answer
\* does: the platform will not merge it.)
NoCiOk == empty = "seen for a minute"
CiOk   == ci = "passing" \/ (ci = "none" /\ NoCiOk)

CheckCi(r) ==
    /\ pass[r].do = "check CI"
    /\ \/ CiOk /\ r \in current /\ Then(r, "call merge")
       \/ ~CiOk /\ r \in current /\ Done(r)
       \/ r \notin current /\ (Then(r, "call merge") \/ Done(r))
    /\ empty' = IF r \in current /\ ci = "none" /\ empty = "unseen" THEN "seen" ELSE empty
    /\ UNCHANGED <<task, fresh, pull, ci, current, jobs, agent, watched, budgets>>

\* The platform merges the head it is given, or nothing.
Merges_AnyHead(r) == pull.state = "open" /\ pull.mergeable
Merges(r) == pull.state = "open" /\ pull.mergeable /\ r \in current

CallMerge(r) ==
    /\ pass[r].do = "call merge"
    /\ IF Merges(r)
       THEN pull' = [pull EXCEPT !.state = "merged", !.by = "optio"] /\ Then(r, "record merge")
       ELSE Done(r) /\ UNCHANGED pull
    /\ UNCHANGED <<task, fresh, ci, empty, current, jobs, agent, watched, budgets>>

\* persistGithubCooldown: by id, whatever the version.
MergeBlocked(r) ==
    /\ pass[r].do = "call merge"
    /\ Fault("write")
    /\ WriteTask([task EXCEPT !.backoff = TRUE])
    /\ Done(r)
    /\ UNCHANGED <<pull, ci, empty, current, jobs, agent, watched, requests>>

RecordMerge(r) ==
    /\ pass[r].do = "record merge"
    /\ IF r \in fresh
       THEN WriteTask(task) /\ pass' = [pass EXCEPT ![r].do = "transition", ![r].to = "completed"]
       ELSE Done(r) /\ UNCHANGED <<task, fresh>>
    /\ UNCHANGED <<pull, ci, empty, current, jobs, agent, watched, budgets>>

-----------------------------------------------------------------------------

BackoffEnds ==
    /\ task.backoff
    /\ task' = [task EXCEPT !.backoff = FALSE]
    /\ UNCHANGED <<fresh, pull, ci, empty, current, jobs, agent, watched, pass, budgets>>

\* The instance goes away in the middle of a pass; the next pass starts over.
Crash(r) ==
    /\ pass[r] # Noop
    /\ Fault("crash")
    /\ Done(r)
    /\ fresh' = fresh \ {r}
    /\ UNCHANGED <<task, pull, ci, empty, current, jobs, agent, watched, requests>>

Apply(r) ==
    \/ ApplyPatch(r) \/ ApplyTransition(r) \/ ApplyEnqueue(r)
    \/ ApplyResume(r) \/ ApplyRequeue(r) \/ ApplyHandOver(r)
    \/ Reread(r) \/ CheckCi(r) \/ CallMerge(r) \/ RecordMerge(r)

Watch == WatchRead \/ WatchWrite
Users == Push \/ BaseMoves \/ PersonMerges \/ PersonCloses \/ Cancel \/ Retry \/ Restart

Next ==
    \/ Users \/ ChecksMove \/ MinutePasses \/ Watch \/ BackoffEnds
    \/ AgentPushes \/ AgentEnds
    \/ \E k \in Kinds : Claim(k)
    \/ \E r \in Passes : Observe(r) \/ ReadFails(r) \/ Apply(r) \/ MergeBlocked(r) \/ Crash(r)

Spec == Init /\ [][Next]_vars

\* The watcher polls and passes recur; a pass takes a moment and the watcher
\* comes every 30 seconds, so some pass gets through between two of its
\* writes (strong fairness); jobs are taken, agents end, a back-off is over.
Fairness ==
    /\ WF_vars(Watch) /\ WF_vars(BackoffEnds) /\ WF_vars(AgentEnds)
    /\ WF_vars(ChecksMove) /\ WF_vars(MinutePasses)
    /\ \A k \in Kinds : WF_vars(Claim(k))
    /\ \A r \in Passes : WF_vars(Observe(r)) /\ WF_vars(Apply(r)) /\ SF_vars(r \in fresh /\ Apply(r))

LiveSpec == Spec /\ Fairness

-----------------------------------------------------------------------------
(* Properties.                                                              *)

\* Optio merges checked commits only: whatever is pushed between its reads, the
\* head it merged has passed its checks, or a minute went by without any.
MergesChecked ==
    pull.by = "optio" => ci = "passing" \/ (ci = "none" /\ empty = "seen for a minute")

\* An automatic resume begins only below the limit as it is then, whichever
\* passes counted before others resumed.
ResumesWithinLimit ==
    [][\A r \in Passes : pass[r].do = "resume" /\ pass'[r].do = "requeue"
          => task.resumes < MaxAutoResumes]_vars

\* A pull request that was merged or closed settles its task, unless the task
\* waits for its user.
SettledIsNoticed ==
    pull.state # "open" ~> task.state \in {"completed", "failed", "needs_attention", "cancelled"}

\* No task stays queued: a job comes for it.
QueuedRuns == task.state = "queued" ~> task.state # "queued"

\* docs/tasks.md:101: "If enabled, resume the agent on CI failure, merge
\* conflict, or review changes requested".
FailureIsActedOn ==
    task.state = "pr_opened" /\ ci = "failing"
        ~> task.state # "pr_opened" \/ ci # "failing" \/ pull.state # "open"

\* task-service.ts, announceTransition: "A cancelled task must actually stop".
CancelledHasStopped == task.state = "cancelled" => agent = "none"
=============================================================================
