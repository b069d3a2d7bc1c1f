------------------------- MODULE PullRequestProofs -------------------------
(***************************************************************************)
(* The safety properties of PullRequest, for any passes, limits, settings, *)
(* requests and faults.                                                    *)
(***************************************************************************)
EXTENDS PullRequest, TLAPS

\* DOMAIN NextStates, spelt out.
LEMMA StatesAre ==
    States = {"queued", "running", "needs_attention", "pr_opened", "failed", "cancelled", "completed"}
    BY DEF States, NextStates

-----------------------------------------------------------------------------
(* The type.                                                                *)

\* What a pass may come to from one snapshot.  It resumes only below the limit.
Decision(d) ==
    /\ d \in Pass
    /\ d.do \in {"none", "move", "enqueue", "resume", "merge", "patch"}
    /\ d.do = "none" => d = Noop
    /\ d.do = "resume" => task.resumes < MaxAutoResumes

LEMMA NoopDecision == Decision(Noop)
    BY StatesAre DEF Decision, Noop, Pass, Checks

LEMMA MoveDecision ==
    ASSUME NEW to \in States, NEW checks \in Checks \cup {"keep"}
    PROVE  Decision(Move(to, checks))
    BY DEF Decision, Move, Noop, Pass

LEMMA FromPullRequestDecision ==
    ASSUME TypeOK
    PROVE  Decision(FromPullRequest)
<1> ci \in Checks /\ pull.state \in {"open", "closed", "merged"}
    BY DEF TypeOK, Pull
<1>1. Decision(ResumeOrStop)
  <2>1. CASE ResumeAllowed
      BY <2>1, StatesAre DEF ResumeOrStop, ResumeAllowed, Decision, Noop, Pass, Checks
  <2>2. CASE ~ResumeAllowed
      BY <2>2, MoveDecision, StatesAre DEF ResumeOrStop, Checks
  <2> QED
      BY <2>1, <2>2
<1>2. Decision([Noop EXCEPT !.do = "merge"]) /\ Decision([Noop EXCEPT !.do = "patch", !.checks = ci])
    BY StatesAre DEF Decision, Noop, Pass, Checks
<1>3. Decision(Move("completed", ci)) /\ Decision(Move("failed", ci))
    BY MoveDecision, StatesAre
<1>4. CASE pull.state = "merged"
    BY <1>3, <1>4 DEF FromPullRequest
<1>5. CASE pull.state = "closed"
    BY <1>3, <1>5, NoopDecision DEF FromPullRequest
<1>6. CASE pull.state = "open"
    BY <1>1, <1>2, <1>6, NoopDecision DEF FromPullRequest
<1> QED
    BY <1>4, <1>5, <1>6

LEMMA DecidedDecision ==
    ASSUME TypeOK
    PROVE  Decision(Decided)
<1>1. Decision([Noop EXCEPT !.do = "enqueue"])
    BY StatesAre DEF Decision, Noop, Pass, Checks
<1>2. Decision(Move("pr_opened", "keep"))
    BY MoveDecision, StatesAre
<1>3. task.backoff \in BOOLEAN
    BY DEF TypeOK, Task
<1> QED
    BY <1>1, <1>2, <1>3, NoopDecision, FromPullRequestDecision DEF Decided, AwaitsJob

\* The parts of the state that several actions write alike.
LEMMA WriteTaskType ==
    ASSUME NEW t \in Task, WriteTask(t)
    PROVE  task' \in Task /\ fresh' \subseteq Passes
    BY DEF WriteTask

LEMMA MoveTaskType ==
    ASSUME TypeOK, NEW to \in States, NEW t \in Task, MoveTask(to, t)
    PROVE  task' \in Task /\ fresh' \subseteq Passes /\ agent' \in Kinds \cup {"none"}
<1>1. [t EXCEPT !.state = to] \in Task
    BY DEF Task
<1> QED
    BY <1>1, WriteTaskType DEF MoveTask, TypeOK

LEMMA QueueType ==
    ASSUME TypeOK, NEW kind \in Kinds, Queue(kind)
    PROVE  jobs' \in [Kinds -> 0 .. MaxJobs]
<1>1. jobs \in [Kinds -> 0 .. MaxJobs] /\ MaxJobs \in Nat
    BY Parameters DEF TypeOK
<1>2. (IF jobs[kind] < MaxJobs THEN jobs[kind] + 1 ELSE jobs[kind]) \in 0 .. MaxJobs
    BY <1>1
<1> QED
    BY <1>1, <1>2 DEF Queue

\* What each pass has decided.
PassesOK ==
    /\ pass \in [Passes -> Pass]
    /\ \A r \in Passes : pass[r].do = "none" => pass[r] = Noop

LEMMA DoneType ==
    ASSUME TypeOK, NEW r \in Passes, Done(r)
    PROVE  PassesOK'
<1>1. Noop \in Pass
    BY StatesAre DEF Noop, Pass
<1> QED
    BY <1>1 DEF TypeOK, PassesOK, Done

LEMMA ThenType ==
    ASSUME TypeOK, NEW r \in Passes,
           NEW do \in {"transition", "defer", "requeue", "hand over", "check CI", "call merge", "record merge"},
           Then(r, do)
    PROVE  PassesOK'
<1>1. \A p \in Pass : [p EXCEPT !.do = do] \in Pass /\ [p EXCEPT !.do = do].do = do
    BY DEF Pass
<1> QED
    BY <1>1 DEF TypeOK, PassesOK, Then

LEMMA RequestType ==
    ASSUME TypeOK, NEW what, Request(what)
    PROVE  requests' \in 0 .. MaxRequests
<1>1. requests \in 0 .. MaxRequests
    BY DEF TypeOK
<1>2. MaxRequests \in Nat
    BY Parameters
<1> QED
    BY <1>1, <1>2 DEF Request

LEMMA FaultType ==
    ASSUME TypeOK, NEW kind, Fault(kind)
    PROVE  faults' \in 0 .. MaxFaults
<1>1. faults \in 0 .. MaxFaults
    BY DEF TypeOK
<1>2. MaxFaults \in Nat
    BY Parameters
<1> QED
    BY <1>1, <1>2 DEF Fault

-----------------------------------------------------------------------------

LEMMA UsersType ==
    ASSUME TypeOK, Users
    PROVE  TypeOK'
<1>1. ASSUME Push PROVE TypeOK'
    BY <1>1, RequestType DEF Push, NewHead, TypeOK, Pull, Checks
<1>2. ASSUME BaseMoves PROVE TypeOK'
    BY <1>2, RequestType DEF BaseMoves, TypeOK, Pull
<1>3. ASSUME PersonMerges PROVE TypeOK'
    BY <1>3, RequestType DEF PersonMerges, TypeOK, Pull
<1>4. ASSUME PersonCloses PROVE TypeOK'
    BY <1>4, RequestType DEF PersonCloses, TypeOK, Pull
<1>5. ASSUME Cancel PROVE TypeOK'
  <2>1. task \in Task /\ "cancelled" \in States
      BY StatesAre DEF TypeOK
  <2> QED
      BY <1>5, <2>1, RequestType, MoveTaskType DEF Cancel, TypeOK
<1>6. ASSUME Again(task), requests' \in 0 .. MaxRequests PROVE TypeOK'
  <2>1. [task EXCEPT !.resumes = 0] \in Task /\ "queued" \in States /\ "asked" \in Kinds
      BY StatesAre DEF TypeOK, Task, Kinds
  <2> QED
      BY <1>6, <2>1, QueueType, MoveTaskType DEF Again, TypeOK
<1> QED
    BY <1>1, <1>2, <1>3, <1>4, <1>5, <1>6, RequestType DEF Users, Retry, Restart

LEMMA WorldType ==
    ASSUME TypeOK,
           ChecksMove \/ MinutePasses \/ Watch \/ BackoffEnds \/ AgentPushes \/ AgentEnds
             \/ \E k \in Kinds : Claim(k)
    PROVE  TypeOK'
<1>1. ASSUME ChecksMove \/ MinutePasses PROVE TypeOK'
    BY <1>1 DEF ChecksMove, MinutePasses, TypeOK, Checks, budgets
<1>2. ASSUME WatchRead PROVE TypeOK'
  <2>1. watched' \in Checks
      BY <1>2 DEF WatchRead, TypeOK, Checks
  <2>2. faults' \in 0 .. MaxFaults
      BY <1>2, FaultType DEF WatchRead, TypeOK
  <2> QED
      BY <1>2, <2>1, <2>2 DEF WatchRead, TypeOK
<1>3. ASSUME WatchWrite PROVE TypeOK'
  <2>1. [task EXCEPT !.checks = watched] \in Task
      BY <1>3 DEF WatchWrite, TypeOK, Task
  <2> QED
      BY <1>3, <2>1, WriteTaskType DEF WatchWrite, TypeOK, budgets
<1>4. ASSUME BackoffEnds PROVE TypeOK'
  <2>1. task' \in Task
      BY <1>4 DEF BackoffEnds, TypeOK, Task
  <2> QED
      BY <1>4, <2>1 DEF BackoffEnds, TypeOK, budgets
<1>5. ASSUME AgentPushes PROVE TypeOK'
    BY <1>5 DEF AgentPushes, NewHead, TypeOK, Pull, Checks, budgets
<1>6. ASSUME AgentEnds PROVE TypeOK'
  <2>1. \A to \in States : [task EXCEPT !.state = to] \in Task
      BY DEF TypeOK, Task
  <2>2. task' \in Task /\ fresh' \subseteq Passes
      BY <1>6, <2>1, StatesAre, WriteTaskType DEF AgentEnds, TypeOK
  <2> QED
      BY <1>6, <2>2 DEF AgentEnds, TypeOK, budgets
<1>7. ASSUME NEW k \in Kinds, Claim(k) PROVE TypeOK'
  <2>1. [task EXCEPT !.state = "running"] \in Task
      BY StatesAre DEF TypeOK, Task
  <2>2. task' \in Task /\ fresh' \subseteq Passes /\ agent' \in Kinds \cup {"none"}
      BY <1>7, <2>1, WriteTaskType DEF Claim, TypeOK
  <2>3. jobs' \in [Kinds -> 0 .. MaxJobs]
    <3>1. jobs \in [Kinds -> 0 .. MaxJobs] /\ MaxJobs \in Nat
        BY Parameters DEF TypeOK
    <3>2. jobs[k] - 1 \in 0 .. MaxJobs
        BY <1>7, <3>1 DEF Claim
    <3> QED
        BY <1>7, <3>1, <3>2 DEF Claim
  <2> QED
      BY <1>7, <2>2, <2>3 DEF Claim, TypeOK, budgets
<1> QED
    BY <1>1, <1>2, <1>3, <1>4, <1>5, <1>6, <1>7 DEF Watch

LEMMA ObserveType ==
    ASSUME TypeOK, NEW r \in Passes, Observe(r) \/ ReadFails(r) \/ MergeBlocked(r) \/ Crash(r)
    PROVE  TypeOK'
<1>1. ASSUME Observe(r) PROVE TypeOK'
  <2>1. PassesOK'
      BY <1>1, DecidedDecision DEF Observe, Decision, PassesOK, TypeOK
  <2> QED
      BY <1>1, <2>1 DEF Observe, PassesOK, TypeOK, budgets
<1>2. ASSUME ReadFails(r) PROVE TypeOK'
  <2>1. PassesOK'
      BY <1>2, ThenType DEF ReadFails, Then
  <2> QED
      BY <1>2, <2>1, FaultType DEF ReadFails, PassesOK, TypeOK
<1>3. ASSUME MergeBlocked(r) PROVE TypeOK'
  <2>1. [task EXCEPT !.backoff = TRUE] \in Task
      BY DEF TypeOK, Task
  <2> QED
      BY <1>3, <2>1, WriteTaskType, FaultType, DoneType DEF MergeBlocked, PassesOK, TypeOK
<1>4. ASSUME Crash(r) PROVE TypeOK'
    BY <1>4, FaultType, DoneType DEF Crash, PassesOK, TypeOK
<1> QED
    BY <1>1, <1>2, <1>3, <1>4

LEMMA ApplyType ==
    ASSUME TypeOK, NEW r \in Passes, Apply(r)
    PROVE  TypeOK'
<1> task \in Task /\ pass[r] \in Pass
    BY DEF TypeOK
<1>1. ASSUME ApplyPatch(r) PROVE TypeOK'
  <2>1. ASSUME NEW c \in Checks, NEW b \in BOOLEAN
        PROVE  [task EXCEPT !.checks = c, !.backoff = b] \in Task
      BY DEF Task
  <2>2. (IF pass[r].checks = "keep" THEN task.checks ELSE pass[r].checks) \in Checks
      BY DEF Pass, Task
  <2>3. task' \in Task /\ fresh' \subseteq Passes
    <3>1. CASE r \in fresh
        BY <1>1, <2>1, <2>2, <3>1 DEF ApplyPatch, WriteTask
    <3>2. CASE r \notin fresh
        BY <1>1, <3>2 DEF ApplyPatch, TypeOK
    <3> QED
        BY <3>1, <3>2
  <2>4. PassesOK'
      BY <1>1, DoneType, ThenType DEF ApplyPatch
  <2> QED
      BY <1>1, <2>3, <2>4 DEF ApplyPatch, PassesOK, TypeOK, budgets
<1>2. ASSUME ApplyTransition(r) PROVE TypeOK'
  <2>1. pass[r].to \in States
      BY DEF Pass
  <2>2. task' \in Task /\ fresh' \subseteq Passes /\ agent' \in Kinds \cup {"none"}
      BY <1>2, <2>1, MoveTaskType DEF ApplyTransition, TypeOK
  <2> QED
      BY <1>2, <2>2, DoneType DEF ApplyTransition, PassesOK, TypeOK, budgets
<1>3. ASSUME ApplyEnqueue(r) PROVE TypeOK'
    BY <1>3, QueueType, DoneType DEF ApplyEnqueue, PassesOK, TypeOK, budgets, Kinds
<1>4. ASSUME ApplyResume(r) PROVE TypeOK'
  <2>1. task' \in Task /\ fresh' \subseteq Passes /\ agent' \in Kinds \cup {"none"}
      BY <1>4, StatesAre, MoveTaskType DEF ApplyResume, TypeOK
  <2>2. PassesOK'
      BY <1>4, DoneType, ThenType DEF ApplyResume
  <2> QED
      BY <1>4, <2>1, <2>2 DEF ApplyResume, PassesOK, TypeOK, budgets
<1>5. ASSUME ApplyRequeue(r) PROVE TypeOK'
  <2>1. [task EXCEPT !.resumes = @ + 1] \in Task
      BY DEF Task
  <2>2. task' \in Task /\ fresh' \subseteq Passes /\ agent' \in Kinds \cup {"none"}
      BY <1>5, <2>1, StatesAre, MoveTaskType DEF ApplyRequeue, TypeOK
  <2>3. PassesOK'
      BY <1>5, DoneType, ThenType DEF ApplyRequeue
  <2> QED
      BY <1>5, <2>2, <2>3 DEF ApplyRequeue, PassesOK, TypeOK, budgets
<1>6. ASSUME ApplyHandOver(r) PROVE TypeOK'
    BY <1>6, QueueType, DoneType DEF ApplyHandOver, PassesOK, TypeOK, budgets, Kinds
<1>7. ASSUME Reread(r) PROVE TypeOK'
    BY <1>7, DoneType, ThenType DEF Reread, PassesOK, TypeOK, budgets
<1>8. ASSUME CheckCi(r) PROVE TypeOK'
  <2>1. PassesOK'
      BY <1>8, DoneType, ThenType DEF CheckCi
  <2> QED
      BY <1>8, <2>1 DEF CheckCi, PassesOK, TypeOK, budgets
<1>9. ASSUME CallMerge(r) PROVE TypeOK'
  <2>1. PassesOK'
      BY <1>9, DoneType, ThenType DEF CallMerge
  <2> QED
      BY <1>9, <2>1 DEF CallMerge, PassesOK, TypeOK, Pull, budgets
<1>10. ASSUME RecordMerge(r) PROVE TypeOK'
  <2>1. PassesOK'
    <3>1. CASE r \in fresh
      <4>1. "completed" \in States
          BY StatesAre
      <4>2. [pass[r] EXCEPT !.do = "transition", !.to = "completed"] \in Pass
          BY <4>1 DEF Pass
      <4>3. pass' = [pass EXCEPT ![r] = [pass[r] EXCEPT !.do = "transition", !.to = "completed"]]
          BY <1>10, <3>1 DEF RecordMerge
      <4>4. [pass[r] EXCEPT !.do = "transition", !.to = "completed"].do # "none"
          BY DEF Pass
      <4> QED
          BY <4>2, <4>3, <4>4 DEF PassesOK, TypeOK
    <3>2. CASE r \notin fresh
        BY <1>10, <3>2, DoneType DEF RecordMerge
    <3> QED
        BY <3>1, <3>2
  <2>2. task' \in Task /\ fresh' \subseteq Passes
      BY <1>10, WriteTaskType DEF RecordMerge, TypeOK
  <2> QED
      BY <1>10, <2>1, <2>2 DEF RecordMerge, PassesOK, TypeOK, budgets
<1> QED
    BY <1>1, <1>2, <1>3, <1>4, <1>5, <1>6, <1>7, <1>8, <1>9, <1>10 DEF Apply

\* Every reachable state has its type: the row and what passes mean to write
\* to it stay within the columns' values, and a pass that is over is forgotten.
THEOREM TypeCorrect == Spec => []TypeOK
<1>1. Init => TypeOK
    BY StatesAre, Parameters DEF Init, TypeOK, Task, Pull, Checks, Pass, Noop, Kinds
<1>2. TypeOK /\ [Next]_vars => TypeOK'
  <2> SUFFICES ASSUME TypeOK, [Next]_vars PROVE TypeOK'
      OBVIOUS
  <2>1. CASE UNCHANGED vars
      BY <2>1 DEF vars, TypeOK
  <2>2. CASE Next
      BY <2>2, UsersType, WorldType, ObserveType, ApplyType DEF Next
  <2> QED
      BY <2>1, <2>2
<1> QED
    BY <1>1, <1>2, PTL DEF Spec

-----------------------------------------------------------------------------
(* Only checked heads are merged.                                           *)

\* A pass that is about to merge the present head has found it good, and what
\* Optio merged was.  Good stays good until there is another head, which none
\* of the passes has read.
MergeSafe ==
    /\ \A r \in Passes : pass[r].do = "call merge" /\ r \in current => CiOk
    /\ pull.by = "optio" => pull.state = "merged" /\ CiOk

\* What keeps MergeSafe: the same head with its checks, no new merge, and no
\* pass that has come to call one.
LEMMA KeepsMergeSafe ==
    ASSUME MergeSafe, UNCHANGED <<ci, empty>>,
           pull' = pull \/ pull'.by # "optio",
           \A r \in Passes : pass'[r].do = "call merge" /\ r \in current'
                                 => pass[r].do = "call merge" /\ r \in current
    PROVE  MergeSafe'
    BY DEF MergeSafe, CiOk, NoCiOk

LEMMA NewHeadMergeSafe ==
    ASSUME TypeOK, MergeSafe, NewHead, UNCHANGED pass
    PROVE  MergeSafe'
<1>1. pull.by # "optio"
    BY DEF NewHead, MergeSafe
<1>2. pull'.by = pull.by /\ current' = {}
    BY DEF NewHead, TypeOK, Pull
<1> QED
    BY <1>1, <1>2 DEF MergeSafe

\* A pass that is over, or goes on, calls no merge unless it says so.
LEMMA DoneCallsNothing ==
    ASSUME TypeOK, NEW r \in Passes, Done(r)
    PROVE  \A q \in Passes : pass'[q].do = "call merge" => pass[q].do = "call merge"
    BY DEF TypeOK, Done, Noop

LEMMA ThenCalls ==
    ASSUME TypeOK, NEW r \in Passes, NEW do, Then(r, do)
    PROVE  \A q \in Passes : pass'[q].do = (IF q = r THEN do ELSE pass[q].do)
    BY DEF TypeOK, Then, Pass

LEMMA UsersMergeSafe ==
    ASSUME TypeOK, MergeSafe,
           Users \/ Watch \/ BackoffEnds \/ AgentPushes \/ AgentEnds
             \/ (\E k \in Kinds : Claim(k))
    PROVE  MergeSafe'
<1>1. CASE Push \/ AgentPushes
    BY <1>1, NewHeadMergeSafe DEF Push, AgentPushes
<1>2. ASSUME UNCHANGED <<ci, empty, current, pass>>, pull' = pull \/ pull'.by # "optio"
      PROVE  MergeSafe'
    BY <1>2, KeepsMergeSafe
<1>3. CASE BaseMoves \/ PersonCloses
  <2>1. pull.by # "optio" /\ pull'.by = pull.by
      BY <1>3 DEF BaseMoves, PersonCloses, MergeSafe, TypeOK, Pull
  <2> QED
      BY <1>2, <1>3, <2>1 DEF BaseMoves, PersonCloses
<1>4. CASE PersonMerges
  <2>1. pull'.by = "person"
      BY <1>4 DEF PersonMerges, TypeOK, Pull
  <2> QED
      BY <1>2, <1>4, <2>1 DEF PersonMerges
<1>5. CASE Cancel \/ Retry \/ Restart
    BY <1>2, <1>5 DEF Cancel, Retry, Restart, Again
<1>6. CASE Watch \/ BackoffEnds \/ AgentEnds
    BY <1>2, <1>6 DEF Watch, WatchRead, WatchWrite, BackoffEnds, AgentEnds, budgets
<1>7. CASE \E k \in Kinds : Claim(k)
    BY <1>2, <1>7 DEF Claim, budgets
<1> QED
    BY <1>1, <1>3, <1>4, <1>5, <1>6, <1>7 DEF Users

LEMMA ChecksMergeSafe ==
    ASSUME TypeOK, MergeSafe, ChecksMove \/ MinutePasses
    PROVE  MergeSafe'
<1>1. CiOk => CiOk'
    BY DEF CiOk, NoCiOk, ChecksMove, MinutePasses
<1>2. UNCHANGED <<pull, current, pass>>
    BY DEF ChecksMove, MinutePasses
<1> QED
    BY <1>1, <1>2 DEF MergeSafe

LEMMA PassMergeSafe ==
    ASSUME TypeOK, MergeSafe, NEW r \in Passes,
           Observe(r) \/ ReadFails(r) \/ Apply(r) \/ MergeBlocked(r) \/ Crash(r)
    PROVE  MergeSafe'
<1>1. CASE Observe(r)
  <2>1. pass'[r].do # "call merge" /\ \A q \in Passes \ {r} : pass'[q] = pass[q]
      BY <1>1, DecidedDecision DEF Observe, Decision, TypeOK
  <2> QED
      BY <1>1, <2>1, KeepsMergeSafe DEF Observe
<1>2. CASE ReadFails(r)
  <2>1. Then(r, "defer") /\ UNCHANGED <<pull, ci, empty, current>>
      BY <1>2 DEF ReadFails, Then
  <2>2. \A q \in Passes : pass'[q].do = (IF q = r THEN "defer" ELSE pass[q].do)
      BY <2>1, ThenCalls
  <2> QED
      BY <2>1, <2>2, KeepsMergeSafe
<1>3. CASE ApplyPatch(r) \/ ApplyResume(r) \/ ApplyRequeue(r) \/ Reread(r)
  <2>1. UNCHANGED <<pull, ci, empty, current>>
      BY <1>3 DEF ApplyPatch, ApplyResume, ApplyRequeue, Reread
  <2>2. Done(r) \/ \E do \in {"transition", "requeue", "hand over", "check CI"} : Then(r, do)
      BY <1>3 DEF ApplyPatch, ApplyResume, ApplyRequeue, Reread
  <2>3. CASE Done(r)
      BY <2>1, <2>3, DoneCallsNothing, KeepsMergeSafe
  <2>4. ASSUME NEW do \in {"transition", "requeue", "hand over", "check CI"}, Then(r, do)
        PROVE  MergeSafe'
      BY <2>1, <2>4, ThenCalls, KeepsMergeSafe
  <2> QED
      BY <2>2, <2>3, <2>4
<1>4. CASE ApplyTransition(r) \/ ApplyEnqueue(r) \/ ApplyHandOver(r) \/ MergeBlocked(r) \/ Crash(r)
    BY <1>4, DoneCallsNothing, KeepsMergeSafe
       DEF ApplyTransition, ApplyEnqueue, ApplyHandOver, MergeBlocked, Crash
<1>5. CASE CheckCi(r)
  <2>1. CiOk => CiOk'
      BY <1>5 DEF CheckCi, CiOk, NoCiOk
  <2>2. UNCHANGED <<pull, current>>
      BY <1>5 DEF CheckCi
  <2>3. \A q \in Passes : pass'[q].do = "call merge" /\ q \in current => CiOk
    <3>1. CASE CiOk
        BY <3>1
    <3>2. CASE r \notin current /\ Then(r, "call merge")
        BY <3>2, ThenCalls DEF MergeSafe
    <3>3. CASE Done(r)
        BY <3>3, DoneCallsNothing DEF MergeSafe
    <3> QED
        BY <1>5, <3>1, <3>2, <3>3 DEF CheckCi
  <2> QED
      BY <2>1, <2>2, <2>3 DEF MergeSafe
<1>6. CASE CallMerge(r)
  <2>1. UNCHANGED <<ci, empty, current>>
      BY <1>6 DEF CallMerge
  <2>2. CASE ~Merges(r)
      BY <1>6, <2>1, <2>2, DoneCallsNothing, KeepsMergeSafe DEF CallMerge
  <2>3. CASE Merges(r)
    <3>1. CiOk /\ CiOk'
        BY <1>6, <2>1, <2>3 DEF CallMerge, Merges, MergeSafe, CiOk, NoCiOk
    <3>2. pull'.state = "merged"
        BY <1>6, <2>3 DEF CallMerge, TypeOK, Pull
    <3> QED
        BY <3>1, <3>2 DEF MergeSafe
  <2> QED
      BY <2>2, <2>3
<1>7. CASE RecordMerge(r)
  <2>1. UNCHANGED <<pull, ci, empty, current>>
      BY <1>7 DEF RecordMerge
  <2>2. \A q \in Passes : pass'[q].do = "call merge" => pass[q].do = "call merge"
    <3>1. CASE r \in fresh
        BY <1>7, <3>1 DEF RecordMerge, TypeOK, Pass
    <3>2. CASE r \notin fresh
        BY <1>7, <3>2, DoneCallsNothing DEF RecordMerge
    <3> QED
        BY <3>1, <3>2
  <2> QED
      BY <2>1, <2>2, KeepsMergeSafe
<1> QED
    BY <1>1, <1>2, <1>3, <1>4, <1>5, <1>6, <1>7 DEF Apply

\* Whatever is pushed between the reads of a pass and its call, the commit that
\* Optio merges has passed its checks or was seen without any for a minute.
THEOREM ChecksBeforeMerge == Spec => []MergesChecked
<1>1. Init => MergeSafe
    BY DEF Init, MergeSafe, Noop
<1>2. TypeOK /\ MergeSafe /\ [Next]_vars => MergeSafe'
  <2> SUFFICES ASSUME TypeOK, MergeSafe, [Next]_vars PROVE MergeSafe'
      OBVIOUS
  <2>1. CASE UNCHANGED vars
      BY <2>1 DEF vars, MergeSafe, CiOk, NoCiOk
  <2>2. CASE Next
      BY <2>2, UsersMergeSafe, ChecksMergeSafe, PassMergeSafe DEF Next
  <2> QED
      BY <2>1, <2>2
<1>3. MergeSafe => MergesChecked
    BY DEF MergeSafe, MergesChecked, CiOk, NoCiOk
<1> QED
    BY <1>1, <1>2, <1>3, TypeCorrect, PTL DEF Spec

-----------------------------------------------------------------------------
(* Resumes end at the limit.                                                *)

\* A pass that has missed no write of the row resumes below the limit: the
\* count it read is the count there is.
ResumeSafe ==
    \A r \in fresh : pass[r].do = "resume" => task.resumes < MaxAutoResumes

\* A write of the row leaves no pass fresh, so what is left to see is what a
\* step does that writes none.
LEMMA KeepsResumeSafe ==
    ASSUME TypeOK, ResumeSafe,
           task'.resumes = task.resumes, fresh' \subseteq fresh,
           \A r \in fresh' : pass'[r].do = "resume" => pass[r].do = "resume"
    PROVE  ResumeSafe'
    BY DEF ResumeSafe

LEMMA WriteResumeSafe ==
    ASSUME fresh' = {}
    PROVE  ResumeSafe'
    BY DEF ResumeSafe

LEMMA PassResumeSafe ==
    ASSUME TypeOK, ResumeSafe, NEW r \in Passes,
           Observe(r) \/ ReadFails(r) \/ Apply(r) \/ MergeBlocked(r) \/ Crash(r)
    PROVE  ResumeSafe'
<1>1. CASE Observe(r)
  <2>1. pass'[r].do = "resume" => task.resumes < MaxAutoResumes
      BY <1>1, DecidedDecision DEF Observe, Decision, TypeOK
  <2>2. \A q \in Passes \ {r} : pass'[q] = pass[q]
      BY <1>1 DEF Observe, TypeOK
  <2>3. UNCHANGED task /\ fresh' = fresh \cup {r} /\ fresh \subseteq Passes
      BY <1>1 DEF Observe, TypeOK
  <2> QED
      BY <2>1, <2>2, <2>3 DEF ResumeSafe
<1>2. CASE ReadFails(r)
  <2>1. Then(r, "defer") /\ UNCHANGED task /\ fresh' = fresh \cup {r} /\ fresh \subseteq Passes
      BY <1>2 DEF ReadFails, Then, TypeOK
  <2>2. \A q \in Passes : pass'[q].do = (IF q = r THEN "defer" ELSE pass[q].do)
      BY <2>1, ThenCalls
  <2> QED
      BY <2>1, <2>2 DEF ResumeSafe
<1>3. ASSUME UNCHANGED <<task, fresh>>,
             Done(r) \/ \E do \in {"transition", "requeue", "hand over", "check CI", "call merge",
                                   "record merge"} : Then(r, do)
      PROVE  ResumeSafe'
  <2>1. \A q \in Passes : pass'[q].do = "resume" => pass[q].do = "resume"
    <3>1. CASE Done(r)
        BY <3>1 DEF Done, Noop, TypeOK
    <3>2. ASSUME NEW do \in {"transition", "requeue", "hand over", "check CI", "call merge", "record merge"},
                 Then(r, do)
          PROVE  \A q \in Passes : pass'[q].do = "resume" => pass[q].do = "resume"
        BY <3>2, ThenCalls
    <3> QED
        BY <1>3, <3>1, <3>2
  <2> QED
      BY <1>3, <2>1, KeepsResumeSafe DEF TypeOK
<1>4. CASE Crash(r)
  <2>1. \A q \in Passes : pass'[q].do = "resume" => pass[q].do = "resume"
      BY <1>4 DEF Crash, Done, Noop, TypeOK
  <2> QED
      BY <1>4, <2>1, KeepsResumeSafe DEF Crash, TypeOK
<1>5. CASE MergeBlocked(r)
    BY <1>5, WriteResumeSafe DEF MergeBlocked, WriteTask
<1>6. CASE ApplyPatch(r)
    BY <1>3, <1>6, WriteResumeSafe DEF ApplyPatch, WriteTask
<1>7. CASE ApplyTransition(r) \/ ApplyResume(r) \/ ApplyRequeue(r)
    BY <1>3, <1>7, WriteResumeSafe DEF ApplyTransition, ApplyResume, ApplyRequeue, MoveTask, WriteTask
<1>8. CASE ApplyEnqueue(r) \/ ApplyHandOver(r) \/ Reread(r) \/ CheckCi(r) \/ CallMerge(r)
    BY <1>3, <1>8 DEF ApplyEnqueue, ApplyHandOver, Reread, CheckCi, CallMerge
<1>9. CASE RecordMerge(r)
    BY <1>3, <1>9, WriteResumeSafe DEF RecordMerge, WriteTask
<1> QED
    BY <1>1, <1>2, <1>4, <1>5, <1>6, <1>7, <1>8, <1>9 DEF Apply

LEMMA WorldResumeSafe ==
    ASSUME TypeOK, ResumeSafe,
           \/ Users \/ ChecksMove \/ MinutePasses \/ Watch \/ BackoffEnds
           \/ AgentPushes \/ AgentEnds
           \/ \E k \in Kinds : Claim(k)
    PROVE  ResumeSafe'
<1>1. UNCHANGED pass
    BY DEF Users, Push, BaseMoves, PersonMerges, PersonCloses, Cancel, Retry, Restart, Again,
           ChecksMove, MinutePasses, Watch, WatchRead, WatchWrite, BackoffEnds, AgentPushes,
           AgentEnds, Claim
<1>2. fresh' = {} \/ (fresh' = fresh /\ task'.resumes = task.resumes)
  <2>1. CASE BackoffEnds
      BY <2>1 DEF BackoffEnds, TypeOK, Task
  <2>2. CASE Users
      BY <2>2 DEF Users, Push, BaseMoves, PersonMerges, PersonCloses, Cancel, Retry, Restart, Again,
                  MoveTask, WriteTask
  <2>3. CASE ChecksMove \/ MinutePasses \/ Watch \/ AgentPushes \/ AgentEnds \/ \E k \in Kinds : Claim(k)
      BY <2>3 DEF ChecksMove, MinutePasses, Watch, WatchRead, WatchWrite, AgentPushes, AgentEnds,
                  Claim, WriteTask
  <2> QED
      BY <2>1, <2>2, <2>3
<1> QED
    BY <1>1, <1>2, KeepsResumeSafe, WriteResumeSafe

LEMMA DoneResumesNothing ==
    ASSUME TypeOK, NEW r \in Passes, NEW q \in Passes, Done(q), pass[r].do = "resume"
    PROVE  pass'[r].do # "requeue"
<1>1. pass'[r] = (IF r = q THEN Noop ELSE pass[r])
    BY DEF TypeOK, Done
<1>2. Noop.do = "none"
    BY DEF Noop
<1> QED
    BY <1>1, <1>2

\* A step that takes a pass from its decision to resume to the second half of it
\* is its own ApplyResume.
LEMMA ResumesByApply ==
    ASSUME TypeOK, Next, NEW r \in Passes, pass[r].do = "resume", pass'[r].do = "requeue"
    PROVE  ApplyResume(r)
<1>1. PICK q \in Passes : Observe(q) \/ ReadFails(q) \/ Apply(q) \/ MergeBlocked(q) \/ Crash(q)
    BY DEF Next, Users, Push, BaseMoves, PersonMerges, PersonCloses, Cancel, Retry, Restart, Again,
           ChecksMove, MinutePasses, Watch, WatchRead, WatchWrite, BackoffEnds, AgentPushes,
           AgentEnds, Claim
<1>2. pass[r] # Noop /\ pass'[r] # pass[r]
    BY DEF Noop
<1>3. ~Observe(q) /\ ~ReadFails(q) /\ ~MergeBlocked(q) /\ ~Crash(q)
  <2>1. ~Observe(q)
      BY <1>2 DEF Observe, TypeOK
  <2>2. ~ReadFails(q)
      BY <1>2 DEF ReadFails, TypeOK
  <2>3. ~Done(q)
      BY DoneResumesNothing
  <2> QED
      BY <2>1, <2>2, <2>3 DEF MergeBlocked, Crash
<1>4. q = r
    BY <1>1, <1>2, <1>3 DEF Apply, ApplyPatch, ApplyTransition, ApplyEnqueue, ApplyResume,
        ApplyRequeue, ApplyHandOver, Reread, CheckCi, CallMerge, RecordMerge, Done, Then, TypeOK
<1> QED
    BY <1>1, <1>3, <1>4 DEF Apply, ApplyPatch, ApplyTransition, ApplyEnqueue,
        ApplyRequeue, ApplyHandOver, Reread, CheckCi, CallMerge, RecordMerge

\* However many passes have decided to resume one task, each resume begins
\* below the limit as the row has it at that moment.
THEOREM ResumesEnd == Spec => ResumesWithinLimit
<1>1. Init => ResumeSafe
    BY DEF Init, ResumeSafe
<1>2. TypeOK /\ ResumeSafe /\ [Next]_vars => ResumeSafe'
  <2> SUFFICES ASSUME TypeOK, ResumeSafe, [Next]_vars PROVE ResumeSafe'
      OBVIOUS
  <2>1. CASE UNCHANGED vars
      BY <2>1 DEF vars, ResumeSafe
  <2>2. CASE Next
      BY <2>2, WorldResumeSafe, PassResumeSafe DEF Next
  <2> QED
      BY <2>1, <2>2
<1>3. TypeOK /\ ResumeSafe /\ [Next]_vars =>
          [\A r \in Passes : pass[r].do = "resume" /\ pass'[r].do = "requeue"
              => task.resumes < MaxAutoResumes]_vars
  <2> SUFFICES ASSUME TypeOK, ResumeSafe, Next, NEW r \in Passes,
                      pass[r].do = "resume", pass'[r].do = "requeue"
               PROVE  task.resumes < MaxAutoResumes
      OBVIOUS
  <2>1. ApplyResume(r)
      BY ResumesByApply
  <2>2. ~Done(r)
      BY DoneResumesNothing
  <2>3. r \in fresh
      BY <2>1, <2>2 DEF ApplyResume, VersionMatches
  <2> QED
      BY <2>3 DEF ResumeSafe
<1> QED
    BY <1>1, <1>2, <1>3, TypeCorrect, PTL DEF Spec, ResumesWithinLimit
=============================================================================
