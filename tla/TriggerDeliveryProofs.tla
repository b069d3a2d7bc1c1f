----------------------- MODULE TriggerDeliveryProofs -----------------------
(***************************************************************************)
(* The safety properties of TriggerDelivery, for any number of events,     *)
(* triggers, instances, attempts, ticks and upsets.                        *)
(***************************************************************************)
EXTENDS TriggerDelivery, TLAPS

\* The steps of a dispatch that are about an occurrence.
OnKey == {"look", "insert", "made", "skip"}

\* What a dispatch is about; the row it has locked is pending.
Working ==
    \A i \in Instances :
        /\ doer[i].at = "idle" => ~doer[i].held
        /\ doer[i].at = "match" => doer[i].of \in Events
        /\ doer[i].at \in OnKey => doer[i].of \in Keys
        /\ doer[i].at \in OnKey /\ doer[i].held => occ[doer[i].of].state = "pending"

\* A row's lock is one instance's.
OneHolder ==
    \A i, j \in Instances :
        doer[i].held /\ doer[j].held /\ doer[i].of = doer[j].of => i = j

-----------------------------------------------------------------------------
(* What the steps do to the occurrences and to the instances.              *)

\* A row is added, or given back to its attempts, while nobody holds it.
Enters ==
    /\ \E k \in Keys : occ[k].state # "pending" /\ occ' = [occ EXCEPT ![k] = Due]
    /\ \A i \in Instances : /\ doer'[i].at = doer[i].at /\ doer'[i].of = doer[i].of
                            /\ doer'[i].held = doer[i].held

\* The holder of a row writes it and lets go.
Writes(i) ==
    /\ doer[i].held /\ doer[i].at \in OnKey
    /\ doer' = [doer EXCEPT ![i] = Idle]
    /\ \E r \in Rows : /\ r.state # "none" /\ (r.state = "failed" <=> r.attempts = MaxAttempts)
                       /\ occ' = [occ EXCEPT ![doer[i].of] = r]

LEMMA RetriedWrites ==
    ASSUME TypeOK, Working, NEW i \in Instances, doer[i].at \in OnKey, occ' = Retried(i), Leave(i)
    PROVE  occ' = occ \/ Writes(i)
<1>1. CASE ~doer[i].held
    BY <1>1 DEF Retried
<1>2. CASE doer[i].held
  <2> DEFINE n == occ[doer[i].of].attempts + 1
             r == [state |-> IF n >= MaxAttempts THEN "failed" ELSE "pending", attempts |-> n]
  <2>1. occ[doer[i].of] \in Rows /\ occ[doer[i].of].state = "pending"
        /\ occ[doer[i].of].attempts # MaxAttempts
      BY <1>2 DEF TypeOK, Working
  <2>2. r \in Rows /\ r.state # "none" /\ (r.state = "failed" <=> r.attempts = MaxAttempts)
      BY <2>1, Parameters DEF Rows
  <2>3. occ' = [occ EXCEPT ![doer[i].of] = r]
      BY <1>2 DEF Retried
  <2> QED
      BY <1>2, <2>2, <2>3 DEF Writes, Leave
<1> QED
    BY <1>1, <1>2

LEMMA SettledWrites ==
    ASSUME TypeOK, Working, NEW i \in Instances, doer[i].at \in OnKey, Leave(i),
           NEW state \in {"started", "skipped"}, occ' = Settled(i, state)
    PROVE  occ' = occ \/ Writes(i)
<1>1. CASE ~doer[i].held
    BY <1>1 DEF Settled
<1>2. CASE doer[i].held
  <2> DEFINE r == [occ[doer[i].of] EXCEPT !.state = state]
  <2>1. occ[doer[i].of] \in Rows /\ occ[doer[i].of].state = "pending"
        /\ occ[doer[i].of].attempts # MaxAttempts
      BY <1>2 DEF TypeOK, Working
  <2>2. r \in Rows /\ r.state # "none" /\ (r.state = "failed" <=> r.attempts = MaxAttempts)
      BY <2>1 DEF Rows
  <2>3. occ' = [occ EXCEPT ![doer[i].of] = r]
      BY <1>2 DEF Settled
  <2> QED
      BY <1>2, <2>2, <2>3 DEF Writes, Leave
<1> QED
    BY <1>1, <1>2

LEMMA WithEnters ==
    ASSUME TypeOK, NEW k \in Keys, occ' = With(k),
           \A i \in Instances : /\ doer'[i].at = doer[i].at /\ doer'[i].of = doer[i].of
                                /\ doer'[i].held = doer[i].held
    PROVE  occ' = occ \/ Enters
<1>1. CASE occ[k] = None
  <2>1. occ[k].state # "pending" /\ occ' = [occ EXCEPT ![k] = Due]
      BY <1>1 DEF With, None
  <2> QED
      BY <2>1 DEF Enters
<1>2. CASE occ[k] # None
    BY <1>2 DEF With
<1> QED
    BY <1>1, <1>2

\* Where an instance's dispatch may go: to nothing, to the next step about the
\* same row, or to a row that nobody holds.
Goes(i) ==
    \/ doer'[i] = Idle
    \/ /\ doer'[i].of = doer[i].of /\ (doer'[i].held => doer[i].held)
       /\ doer'[i].at = doer[i].at \/ {doer[i].at, doer'[i].at} \subseteq OnKey

Takes(i, row) ==
    /\ ~Locked(row)
    /\ \E at \in Steps, todo \in SUBSET Listeners :
           /\ at = "match" => row \in Events
           /\ at \in OnKey => row \in Keys /\ occ[row].state = "pending"
           /\ at # "idle"
           /\ doer' = [doer EXCEPT ![i] = [at |-> at, of |-> row, todo |-> todo, held |-> TRUE]]

LEMMA OccSteps ==
    ASSUME TypeOK, Working, Next
    PROVE  occ' = occ \/ Enters \/ \E i \in Instances : Writes(i)
<1>1. ASSUME NEW e \in Events, Accept(e) PROVE occ' = occ
    BY <1>1 DEF Accept
<1>2. ASSUME NEW k \in Keys, Fire(k) PROVE occ' = occ \/ Enters
    BY <1>2, WithEnters DEF Fire
<1>3. ASSUME NEW k \in Keys, RetryFailed(k) PROVE Enters
    BY <1>3 DEF RetryFailed, Enters
<1>4. ASSUME NEW tr \in Triggers, Toggle(tr) PROVE occ' = occ
    BY <1>4 DEF Toggle
<1>5. CASE Tick
    BY <1>5 DEF Tick
<1>6. CASE TakeOne
    BY <1>6 DEF TakeOne, TakeEvent, TakeOccurrence
<1>7. ASSUME NEW i \in Instances, NEW tr \in Listeners, Match(i, tr) PROVE occ' = occ \/ Enters
  <2>1. <<doer[i].of, tr>> \in Keys
      BY <1>7 DEF Match, Working, Keys
  <2>2. \A j \in Instances : /\ doer'[j].at = doer[j].at /\ doer'[j].of = doer[j].of
                             /\ doer'[j].held = doer[j].held
      BY <1>7 DEF Match, TypeOK
  <2> QED
      BY <1>7, <2>1, <2>2, WithEnters DEF Match
<1>8. ASSUME NEW i \in Instances, EndMatch(i) \/ Look(i) \/ ListDue(i) \/ MatchFails(i) \/ Crash(i) \/ LoseTx(i)
      PROVE  occ' = occ
    BY <1>8 DEF EndMatch, Look, ListDue, MatchFails, Crash, LoseTx
<1>9. ASSUME NEW i \in Instances, Insert(i) PROVE occ' = occ \/ Writes(i)
    BY <1>9, RetriedWrites DEF Insert, OnKey
<1>10. ASSUME NEW i \in Instances, Record(i) PROVE occ' = occ \/ Writes(i)
    BY <1>10, SettledWrites DEF Record, OnKey
<1>11. ASSUME NEW i \in Instances, DispatchFails(i) PROVE occ' = occ \/ Writes(i)
    BY <1>11, RetriedWrites DEF DispatchFails, OnKey
<1>12. ASSUME NEW i \in Instances, NEW k \in Keys, Advance(i, k) PROVE occ' = occ \/ Enters
    BY <1>12, WithEnters DEF Advance, Advanced
<1> QED
    BY <1>1, <1>2, <1>3, <1>4, <1>5, <1>6, <1>7, <1>8, <1>9, <1>10, <1>11, <1>12
       DEF Next, Attempt, Sweep

\* A step is one instance's, or leaves all dispatches as they are.
LEMMA DoerSteps ==
    ASSUME TypeOK, Working, Next
    PROVE  \/ \A i \in Instances : Goes(i)
           \/ occ' = occ /\ \E i \in Instances : \E row : Takes(i, row)
<1>1. CASE UNCHANGED doer
    BY <1>1 DEF Goes
<1>2. ASSUME NEW i \in Instances, Leave(i) PROVE \A j \in Instances : Goes(j)
    BY <1>2 DEF Leave, Goes, TypeOK
<1>3. ASSUME NEW i \in Instances, NEW at \in OnKey, doer[i].at \in OnKey, Goto(i, at)
      PROVE  \A j \in Instances : Goes(j)
    BY <1>3 DEF Goto, Goes, TypeOK, OnKey
<1>4. ASSUME NEW i \in Instances, NEW e \in Events, TakeEvent(i, e)
      PROVE  occ' = occ /\ Takes(i, e)
    BY <1>4 DEF TakeEvent, Take, Takes, Steps, OnKey
<1>5. ASSUME NEW i \in Instances, NEW k \in Keys, TakeOccurrence(i, k)
      PROVE  occ' = occ /\ Takes(i, k)
    BY <1>5 DEF TakeOccurrence, Take, Takes, Steps, OnKey
<1>6. ASSUME NEW i \in Instances, NEW tr \in Listeners, Match(i, tr)
      PROVE  \A j \in Instances : Goes(j)
    BY <1>6 DEF Match, Goes, TypeOK
<1>7. ASSUME NEW i \in Instances, LoseTx(i) PROVE \A j \in Instances : Goes(j)
    BY <1>7 DEF LoseTx, Goes, TypeOK
<1>8. ASSUME NEW i \in Instances, Look(i) \/ Insert(i) PROVE \A j \in Instances : Goes(j)
    BY <1>2, <1>3, <1>8 DEF Look, Insert, OnKey
<1>9. ASSUME NEW i \in Instances, EndMatch(i) \/ Record(i) \/ MatchFails(i) \/ DispatchFails(i) \/ Crash(i)
      PROVE  \A j \in Instances : Goes(j)
    BY <1>2, <1>9 DEF EndMatch, Record, MatchFails, DispatchFails, Crash
<1>10. ASSUME NEW i \in Instances, Sweep(i) PROVE UNCHANGED doer
    BY <1>10 DEF Sweep, ListDue, Advance
<1>11. ASSUME \/ \E e \in Events : Accept(e)
              \/ \E k \in Keys : Fire(k) \/ RetryFailed(k)
              \/ \E tr \in Triggers : Toggle(tr)
              \/ Tick
       PROVE  UNCHANGED doer
    BY <1>11 DEF Accept, Fire, RetryFailed, Toggle, Tick
<1> QED
    BY <1>1, <1>4, <1>5, <1>6, <1>7, <1>8, <1>9, <1>10, <1>11 DEF Next, Attempt, TakeOne

-----------------------------------------------------------------------------
(* Locks: what a holder works on is pending, and its own.                   *)

LEMMA OneHolderStep ==
    ASSUME TypeOK, Working, OneHolder, Next
    PROVE  OneHolder'
<1>1. CASE \A i \in Instances : Goes(i)
    BY <1>1 DEF Goes, OneHolder, Idle
<1>2. ASSUME NEW i \in Instances, NEW row, Takes(i, row)
      PROVE  OneHolder'
  <2>1. \A j \in Instances : j # i => doer'[j] = doer[j]
      BY <1>2 DEF Takes, TypeOK
  <2>2. doer'[i].of = row
      BY <1>2 DEF Takes, TypeOK
  <2>3. \A j \in Instances : ~(doer[j].of = row /\ doer[j].held)
      BY <1>2 DEF Takes, Locked
  <2> QED
      BY <2>1, <2>2, <2>3 DEF OneHolder
<1> QED
    BY <1>1, <1>2, DoerSteps

LEMMA WorkingStep ==
    ASSUME TypeOK, Working, OneHolder, Next
    PROVE  Working'
<1>1. CASE \A i \in Instances : Goes(i)
  <2> SUFFICES ASSUME NEW i \in Instances
               PROVE  /\ doer'[i].at = "idle" => ~doer'[i].held
                      /\ doer'[i].at = "match" => doer'[i].of \in Events
                      /\ doer'[i].at \in OnKey => doer'[i].of \in Keys
                      /\ doer'[i].at \in OnKey /\ doer'[i].held => occ'[doer'[i].of].state = "pending"
      BY DEF Working
  <2>1. CASE doer'[i] = Idle
      BY <2>1 DEF Idle, OnKey
  <2>2. CASE doer'[i] # Idle
    <3>1. /\ doer'[i].of = doer[i].of /\ (doer'[i].held => doer[i].held)
          /\ doer'[i].at = doer[i].at \/ {doer[i].at, doer'[i].at} \subseteq OnKey
        BY <1>1, <2>2 DEF Goes
    <3>2. /\ doer'[i].at = "idle" => ~doer'[i].held
          /\ doer'[i].at = "match" => doer'[i].of \in Events
          /\ doer'[i].at \in OnKey => doer'[i].of \in Keys
        BY <3>1 DEF Working, OnKey
    <3>3. ASSUME doer'[i].at \in OnKey, doer'[i].held PROVE occ'[doer'[i].of].state = "pending"
      <4>1. doer[i].at \in OnKey /\ doer[i].held /\ doer[i].of \in Keys /\ occ[doer[i].of].state = "pending"
          BY <3>1, <3>3 DEF Working
      <4>2. CASE Enters
          BY <3>1, <4>1, <4>2 DEF Enters, TypeOK
      <4>3. ASSUME NEW j \in Instances, Writes(j) PROVE occ'[doer[i].of] = occ[doer[i].of]
        <5>1. j # i
            BY <2>2, <4>3 DEF Writes, TypeOK
        <5>2. doer[j].of # doer[i].of
            BY <4>1, <4>3, <5>1 DEF Writes, OneHolder
        <5> QED
            BY <4>1, <4>3, <5>2 DEF Writes, TypeOK
      <4> QED
          BY <3>1, <4>1, <4>2, <4>3, OccSteps
    <3> QED
        BY <3>2, <3>3
  <2> QED
      BY <2>1, <2>2
<1>2. ASSUME NEW i \in Instances, NEW row, Takes(i, row), occ' = occ
      PROVE  Working'
    BY <1>2 DEF Takes, Working, TypeOK, OnKey
<1> QED
    BY <1>1, <1>2, DoerSteps

-----------------------------------------------------------------------------
(* Type correctness.                                                        *)

LEMMA IdleType == Idle \in [at : Steps, of : Events \cup Keys \cup {Nothing},
                            todo : SUBSET Listeners, held : BOOLEAN]
    BY DEF Idle, Steps

LEMMA OccType ==
    ASSUME TypeOK, Working, Next
    PROVE  /\ occ' \in [Keys -> Rows]
           /\ \A k \in Keys : (occ'[k].state = "failed") <=> (occ'[k].attempts = MaxAttempts)
<1>1. /\ occ \in [Keys -> Rows]
      /\ \A k \in Keys : (occ[k].state = "failed") <=> (occ[k].attempts = MaxAttempts)
    BY DEF TypeOK
<1>2. Due \in Rows /\ ((Due.state = "failed") <=> (Due.attempts = MaxAttempts))
    BY Parameters DEF Due, Rows
<1>3. CASE Enters
    BY <1>1, <1>2, <1>3 DEF Enters
<1>4. ASSUME NEW i \in Instances, Writes(i)
      PROVE  /\ occ' \in [Keys -> Rows]
             /\ \A k \in Keys : (occ'[k].state = "failed") <=> (occ'[k].attempts = MaxAttempts)
    BY <1>1, <1>4 DEF Writes
<1> QED
    BY <1>1, <1>3, <1>4, OccSteps

LEMMA DoerType ==
    ASSUME TypeOK, Working, Next
    PROVE  doer' \in [Instances -> [at : Steps, of : Events \cup Keys \cup {Nothing},
                                    todo : SUBSET Listeners, held : BOOLEAN]]
<1> DEFINE D == [at : Steps, of : Events \cup Keys \cup {Nothing},
                 todo : SUBSET Listeners, held : BOOLEAN]
<1> doer \in [Instances -> D]
    BY DEF TypeOK
<1>1. ASSUME NEW i \in Instances, Leave(i) PROVE doer' \in [Instances -> D]
    BY <1>1, IdleType DEF Leave
<1>2. ASSUME NEW i \in Instances, NEW at \in Steps, Goto(i, at) PROVE doer' \in [Instances -> D]
    BY <1>2 DEF Goto
<1>3. ASSUME NEW i \in Instances, NEW row, Takes(i, row) PROVE doer' \in [Instances -> D]
  <2>1. row \in Events \cup Keys
      BY <1>3 DEF Takes, Steps, OnKey
  <2> QED
      BY <1>3, <2>1 DEF Takes
<1>4. ASSUME NEW i \in Instances, NEW tr \in Listeners, Match(i, tr) PROVE doer' \in [Instances -> D]
    BY <1>4 DEF Match
<1>5. ASSUME NEW i \in Instances, LoseTx(i) PROVE doer' \in [Instances -> D]
    BY <1>5 DEF LoseTx
<1>6. ASSUME NEW i \in Instances, Look(i) \/ Insert(i) PROVE doer' \in [Instances -> D]
    BY <1>1, <1>2, <1>6 DEF Look, Insert, Steps
<1>7. ASSUME NEW i \in Instances, EndMatch(i) \/ Record(i) \/ MatchFails(i) \/ DispatchFails(i) \/ Crash(i)
      PROVE  doer' \in [Instances -> D]
    BY <1>1, <1>7 DEF EndMatch, Record, MatchFails, DispatchFails, Crash
<1>8. ASSUME NEW i \in Instances, Sweep(i) PROVE UNCHANGED doer
    BY <1>8 DEF Sweep, ListDue, Advance
<1>9. ASSUME \/ \E e \in Events : Accept(e)
             \/ \E k \in Keys : Fire(k) \/ RetryFailed(k)
             \/ \E tr \in Triggers : Toggle(tr)
             \/ Tick
      PROVE  UNCHANGED doer
    BY <1>9 DEF Accept, Fire, RetryFailed, Toggle, Tick
<1>10. CASE TakeOne
  <2>1. ASSUME NEW i \in Instances, NEW e \in Events, TakeEvent(i, e) PROVE Takes(i, e)
      BY <2>1 DEF TakeEvent, Take, Takes, Steps, OnKey
  <2>2. ASSUME NEW i \in Instances, NEW k \in Keys, TakeOccurrence(i, k) PROVE Takes(i, k)
      BY <2>2 DEF TakeOccurrence, Take, Takes, Steps, OnKey
  <2> QED
      BY <1>3, <1>10, <2>1, <2>2 DEF TakeOne
<1> QED
    BY <1>4, <1>5, <1>6, <1>7, <1>8, <1>9, <1>10 DEF Next, Attempt

LEMMA OtherTypes ==
    ASSUME TypeOK, Working, Next
    PROVE  /\ enabled' \subseteq Triggers /\ touched' \subseteq Triggers
           /\ clock' \in 0 .. MaxTicks /\ next' \in [Schedules -> 0 .. MaxTicks + 2]
           /\ event' \in [Events -> {"none", "pending", "dispatched"}]
           /\ made' \in [Keys -> 0 .. 2]
           /\ sweep' \in [Instances -> SUBSET ((0 .. MaxTicks) \X Schedules)]
           /\ upsets' \in 0 .. MaxUpsets
<1> DEFINE Goal == /\ enabled' \subseteq Triggers /\ touched' \subseteq Triggers
                   /\ clock' \in 0 .. MaxTicks /\ next' \in [Schedules -> 0 .. MaxTicks + 2]
                   /\ event' \in [Events -> {"none", "pending", "dispatched"}]
                   /\ made' \in [Keys -> 0 .. 2]
                   /\ sweep' \in [Instances -> SUBSET ((0 .. MaxTicks) \X Schedules)]
                   /\ upsets' \in 0 .. MaxUpsets
<1> USE Parameters DEF TypeOK, schedule, setting
<1>0. \A kind : Upset(kind) => upsets' \in 0 .. MaxUpsets
    BY DEF Upset
<1>1. ASSUME NEW e \in Events, Accept(e) PROVE Goal
    BY <1>1 DEF Accept
<1>2. ASSUME NEW k \in Keys, Fire(k) \/ RetryFailed(k) PROVE Goal
    BY <1>0, <1>2 DEF Fire, RetryFailed
<1>3. ASSUME NEW tr \in Triggers, Toggle(tr) PROVE Goal
    BY <1>0, <1>3 DEF Toggle, Never
<1>4. CASE Tick
    BY <1>4 DEF Tick
<1>5. CASE TakeOne
    BY <1>5 DEF TakeOne, TakeEvent, TakeOccurrence
<1>6. ASSUME NEW i \in Instances, NEW tr \in Listeners, Match(i, tr) PROVE Goal
    BY <1>6 DEF Match
<1>7. ASSUME NEW i \in Instances, EndMatch(i) PROVE Goal
    BY <1>7 DEF EndMatch
<1>8. ASSUME NEW i \in Instances, Look(i) \/ Insert(i) \/ Record(i) PROVE Goal
    BY <1>8 DEF Look, Insert, Record
<1>9. ASSUME NEW i \in Instances, MatchFails(i) \/ DispatchFails(i) \/ LoseTx(i) PROVE Goal
    BY <1>0, <1>9 DEF MatchFails, DispatchFails, LoseTx
<1>10. ASSUME NEW i \in Instances, Crash(i) PROVE Goal
    BY <1>0, <1>10 DEF Crash
<1>11. ASSUME NEW i \in Instances, ListDue(i) PROVE Goal
  <2> DEFINE listed == {<<next[s], s>> : s \in {q \in enabled \cap Schedules : next[q] <= clock}}
  <2>1. listed \subseteq (0 .. MaxTicks) \X Schedules
      OBVIOUS
  <2>2. sweep' = [sweep EXCEPT ![i] = listed]
      BY <1>11 DEF ListDue
  <2> QED
      BY <1>11, <2>1, <2>2 DEF ListDue
<1>12. ASSUME NEW i \in Instances, NEW k \in Keys, Advance(i, k) PROVE Goal
  <2>1. k \in (0 .. MaxTicks) \X Schedules
      BY <1>12 DEF Advance
  <2>2. clock + 1 \in 0 .. MaxTicks + 2
      OBVIOUS
  <2>3. next' \in [Schedules -> 0 .. MaxTicks + 2]
      BY <1>12, <2>1, <2>2 DEF Advance, Advanced
  <2>4. upsets' \in 0 .. MaxUpsets
      BY <1>0, <1>12 DEF Advance
  <2> QED
      BY <1>12, <2>3, <2>4 DEF Advance
<1> QED
    BY <1>1, <1>2, <1>3, <1>4, <1>5, <1>6, <1>7, <1>8, <1>9, <1>10, <1>11, <1>12
       DEF Next, Attempt, Sweep

\* The three hold of every reachable state.
Locks == TypeOK /\ Working /\ OneHolder

LEMMA LocksInit ==
    ASSUME Init
    PROVE  Locks
<1>1. TypeOK
  <2>1. None \in Rows /\ None.state # "failed" /\ None.attempts # MaxAttempts
      BY Parameters DEF None, Rows
  <2> QED
      BY <2>1, IdleType, Parameters DEF Init, TypeOK
<1>2. Working /\ OneHolder
    BY DEF Init, Working, OneHolder, Idle, OnKey
<1> QED
    BY <1>1, <1>2 DEF Locks

LEMMA LocksStep ==
    ASSUME Locks, [Next]_vars
    PROVE  Locks'
<1>1. CASE Next
  <2>1. TypeOK'
      BY <1>1, OccType, DoerType, OtherTypes DEF Locks, TypeOK
  <2> QED
      BY <1>1, <2>1, WorkingStep, OneHolderStep DEF Locks
<1>2. CASE UNCHANGED vars
    BY <1>2 DEF vars, schedule, setting, Locks, TypeOK, Working, OneHolder
<1> QED
    BY <1>1, <1>2

LEMMA LocksHold == Spec => []Locks
<1>1. Init => Locks
    BY LocksInit
<1>2. Locks /\ [Next]_vars => Locks'
    BY LocksStep
<1> QED
    BY <1>1, <1>2, PTL DEF Spec

\* Every reachable state is typed; above all, a row is `failed` exactly when it
\* has used up its attempts (trigger-delivery.ts, retry).
THEOREM TypeCorrect == Spec => []TypeOK
<1>1. Locks => TypeOK
    BY DEF Locks
<1> QED
    BY <1>1, LocksHold, PTL

-----------------------------------------------------------------------------
(* One target.                                                              *)

\* An occurrence has at most one target, although the row's lock may be lost
\* between the look-up and the insert.
THEOREM OneTargetEach == Spec => []OneTarget
<1>1. Init => OneTarget
    BY DEF Init, OneTarget
<1>2. Locks /\ OneTarget /\ [Next]_vars => OneTarget'
  <2> SUFFICES ASSUME TypeOK, OneTarget, [Next]_vars PROVE OneTarget'
      BY DEF Locks
  <2>1. ASSUME NEW i \in Instances, Insert(i) PROVE OneTarget'
      BY <2>1 DEF Insert, OneTarget, TypeOK
  <2>2. CASE UNCHANGED made
      BY <2>2 DEF OneTarget
  <2>3. ASSUME Next, \A i \in Instances : ~Insert(i) PROVE UNCHANGED made
      BY <2>3 DEF Next, Attempt, Sweep, Accept, Fire, RetryFailed, Toggle, Tick, TakeOne,
         TakeEvent, TakeOccurrence, Match, EndMatch, Look, Record, ListDue, Advance,
         MatchFails, DispatchFails, Crash, LoseTx
  <2> QED
      BY <2>1, <2>2, <2>3 DEF vars
<1> QED
    BY <1>1, <1>2, LocksHold, PTL DEF Spec

-----------------------------------------------------------------------------
(* Nothing of an event is dropped.                                          *)

\* A trigger nobody has touched is enabled, so every attempt at an event lists
\* it, and has it still to do or stored.
Covered ==
    /\ Triggers \ touched \subseteq enabled
    /\ \A i \in Instances : doer[i].at = "match" =>
           \A tr \in Listeners \ touched :
               tr \in doer[i].todo \/ occ[<<doer[i].of, tr>>] # None

\* An occurrence is never removed.
LEMMA Stored ==
    ASSUME TypeOK, Working, [Next]_vars, NEW k \in Keys, occ[k] # None
    PROVE  occ'[k] # None
<1>1. Due # None /\ \A r \in Rows : r.state # "none" => r # None
    BY DEF Due, None
<1>2. CASE Enters
    BY <1>1, <1>2 DEF Enters, TypeOK
<1>3. ASSUME NEW i \in Instances, Writes(i) PROVE occ'[k] # None
    BY <1>1, <1>3 DEF Writes, TypeOK
<1> QED
    BY <1>2, <1>3, OccSteps DEF vars

LEMMA SettingStep ==
    ASSUME [Next]_vars, Triggers \ touched \subseteq enabled
    PROVE  touched \subseteq touched' /\ Triggers \ touched' \subseteq enabled'
<1>1. ASSUME NEW tr \in Triggers, Toggle(tr)
      PROVE  touched \subseteq touched' /\ Triggers \ touched' \subseteq enabled'
    BY <1>1 DEF Toggle
<1>2. ASSUME Next, \A tr \in Triggers : ~Toggle(tr) PROVE UNCHANGED setting
    BY <1>2 DEF Next, Attempt, Sweep, Accept, Fire, RetryFailed, Tick, TakeOne,
       TakeEvent, TakeOccurrence, Match, EndMatch, Look, Insert, Record, ListDue, Advance,
       MatchFails, DispatchFails, Crash, LoseTx
<1> QED
    BY <1>1, <1>2 DEF vars, setting

\* How an attempt at an event goes on.
LEMMA MatchSteps ==
    ASSUME TypeOK, Working, [Next]_vars, NEW i \in Instances, doer'[i].at = "match"
    PROVE  \/ UNCHANGED doer[i] \/ doer'[i].todo = Listeners \cap enabled
           \/ /\ doer[i].at = "match" /\ doer'[i].of = doer[i].of
              /\ \/ doer'[i].todo = doer[i].todo
                 \/ \E tr \in Listeners : /\ doer'[i].todo = doer[i].todo \ {tr}
                                          /\ occ' = With(<<doer[i].of, tr>>)
<1> DEFINE Goal == \/ UNCHANGED doer[i] \/ doer'[i].todo = Listeners \cap enabled
                   \/ /\ doer[i].at = "match" /\ doer'[i].of = doer[i].of
                      /\ \/ doer'[i].todo = doer[i].todo
                         \/ \E tr \in Listeners : /\ doer'[i].todo = doer[i].todo \ {tr}
                                                  /\ occ' = With(<<doer[i].of, tr>>)
<1>1. ASSUME NEW j \in Instances, Leave(j) PROVE Goal
    BY <1>1 DEF Leave, Idle, TypeOK
<1>2. ASSUME NEW j \in Instances, NEW at \in OnKey, Goto(j, at) PROVE Goal
    BY <1>2 DEF Goto, TypeOK, OnKey
<1>3. ASSUME NEW j \in Instances, NEW e \in Events, TakeEvent(j, e) PROVE Goal
    BY <1>3 DEF TakeEvent, Take, TypeOK
<1>4. ASSUME NEW j \in Instances, NEW k \in Keys, TakeOccurrence(j, k) PROVE Goal
    BY <1>4 DEF TakeOccurrence, Take, TypeOK
<1>5. ASSUME NEW j \in Instances, NEW tr \in Listeners, Match(j, tr) PROVE Goal
    BY <1>5 DEF Match, TypeOK
<1>6. ASSUME NEW j \in Instances, LoseTx(j) PROVE Goal
    BY <1>6 DEF LoseTx, TypeOK
<1>7. ASSUME NEW j \in Instances, Look(j) \/ Insert(j) PROVE Goal
    BY <1>1, <1>2, <1>7 DEF Look, Insert, OnKey
<1>8. ASSUME NEW j \in Instances, EndMatch(j) \/ Record(j) \/ MatchFails(j) \/ DispatchFails(j) \/ Crash(j)
      PROVE  Goal
    BY <1>1, <1>8 DEF EndMatch, Record, MatchFails, DispatchFails, Crash
<1>9. ASSUME \/ \E e \in Events : Accept(e)
             \/ \E k \in Keys : Fire(k) \/ RetryFailed(k)
             \/ \E tr \in Triggers : Toggle(tr)
             \/ Tick \/ \E j \in Instances : Sweep(j)
      PROVE  UNCHANGED doer
    BY <1>9 DEF Accept, Fire, RetryFailed, Toggle, Tick, Sweep, ListDue, Advance
<1> QED
    BY <1>3, <1>4, <1>5, <1>6, <1>7, <1>8, <1>9 DEF Next, Attempt, TakeOne, vars

LEMMA CoveredStep ==
    ASSUME TypeOK, Working, Covered, [Next]_vars
    PROVE  Covered'
<1>1. touched \subseteq touched' /\ Triggers \ touched' \subseteq enabled'
    BY SettingStep DEF Covered
<1>2. ASSUME NEW i \in Instances, doer'[i].at = "match", NEW tr \in Listeners \ touched'
      PROVE  tr \in doer'[i].todo \/ occ'[<<doer'[i].of, tr>>] # None
  <2>1. tr \in Listeners \cap enabled /\ tr \in Listeners \ touched
      BY <1>1, <1>2 DEF Covered, Triggers
  <2>2. CASE doer'[i].todo = Listeners \cap enabled
      BY <2>1, <2>2
  <2>3. CASE /\ doer[i].at = "match" /\ doer'[i].of = doer[i].of
             /\ doer'[i].todo = doer[i].todo
    <3>1. <<doer[i].of, tr>> \in Keys
        BY <2>1, <2>3 DEF Working, Keys
    <3> QED
        BY <2>1, <2>3, <3>1, Stored DEF Covered
  <2>4. ASSUME NEW t \in Listeners, doer[i].at = "match", doer'[i].of = doer[i].of,
               doer'[i].todo = doer[i].todo \ {t}, occ' = With(<<doer[i].of, t>>)
        PROVE  tr \in doer'[i].todo \/ occ'[<<doer'[i].of, tr>>] # None
    <3>1. <<doer[i].of, tr>> \in Keys /\ <<doer[i].of, t>> \in Keys
        BY <2>1, <2>4 DEF Working, Keys
    <3>2. CASE tr = t
        BY <2>4, <3>1, <3>2 DEF With, Due, None, TypeOK
    <3>3. CASE tr # t
        BY <2>1, <2>4, <3>1, <3>3, Stored DEF Covered
    <3> QED
        BY <3>2, <3>3
  <2>5. CASE UNCHANGED doer[i]
      BY <1>2, <2>3, <2>5
  <2> QED
      BY <1>2, <2>2, <2>3, <2>4, <2>5, MatchSteps
<1> QED
    BY <1>1, <1>2 DEF Covered

\* An event is dispatched only with the occurrences of all the triggers that
\* were there all along.
THEOREM MatchedAllAlways == Spec => []MatchedAll
<1>1. Init => Covered /\ MatchedAll
    BY DEF Init, Covered, MatchedAll, Idle
<1>2. Locks /\ Covered /\ MatchedAll /\ [Next]_vars => Covered' /\ MatchedAll'
  <2> SUFFICES ASSUME TypeOK, Working, Covered, MatchedAll, [Next]_vars
               PROVE  Covered' /\ MatchedAll'
      BY DEF Locks
  <2>1. ASSUME NEW e \in Events, NEW tr \in Listeners, event'[e] = "dispatched", tr \notin touched'
        PROVE  occ'[<<e, tr>>] # None
    <3>1. tr \notin touched /\ <<e, tr>> \in Keys
        BY <2>1, SettingStep DEF Covered, Keys
    <3>2. CASE event[e] = "dispatched"
        BY <3>1, <3>2, Stored DEF MatchedAll
    <3>3. CASE event[e] # "dispatched"
      <4>1. PICK i \in Instances : EndMatch(i) /\ doer[i].of = e
        <5>1. ASSUME NEW i \in Instances, EndMatch(i) PROVE doer[i].of = e
            BY <2>1, <3>3, <5>1 DEF EndMatch, TypeOK
        <5>2. ASSUME NEW f \in Events, Accept(f) PROVE event'[e] # "dispatched"
            BY <3>3, <5>2 DEF Accept, TypeOK
        <5>3. ASSUME Next, \A f \in Events : ~Accept(f), \A i \in Instances : ~EndMatch(i)
              PROVE  UNCHANGED event
            BY <5>3 DEF Next, Attempt, Sweep, Fire, RetryFailed, Toggle, Tick, TakeOne,
               TakeEvent, TakeOccurrence, Match, Look, Insert, Record, ListDue, Advance,
               MatchFails, DispatchFails, Crash, LoseTx
        <5> QED
            BY <2>1, <3>3, <5>1, <5>2, <5>3 DEF vars
      <4>2. occ[<<e, tr>>] # None
          BY <2>1, <3>1, <4>1 DEF EndMatch, Covered
      <4> QED
          BY <3>1, <4>2, Stored
    <3> QED
        BY <3>2, <3>3
  <2> QED
      BY <2>1, CoveredStep DEF MatchedAll
<1> QED
    BY <1>1, <1>2, LocksHold, PTL DEF Spec

-----------------------------------------------------------------------------
(* No tick is dropped.                                                      *)

\* A schedule that nobody changed moves on together with its tick's occurrence.
THEOREM TicksKept == Spec => TickKept
<1>1. ASSUME Locks, [Next]_vars, NEW s \in Schedules, next'[s] # next[s], s \notin touched'
      PROVE  occ'[<<next[s], s>>] # None
  <2> TypeOK
      BY <1>1 DEF Locks
  <2>1. ASSUME NEW tr \in Triggers, Toggle(tr) PROVE FALSE
      BY <1>1, <2>1 DEF Toggle, TypeOK
  <2>2. ASSUME Next, \A tr \in Triggers : ~Toggle(tr),
               \A i \in Instances, k \in Keys : ~Advance(i, k)
        PROVE  UNCHANGED next
      BY <2>2 DEF Next, Attempt, Sweep, Accept, Fire, RetryFailed, Tick, TakeOne, schedule,
         TakeEvent, TakeOccurrence, Match, EndMatch, Look, Insert, Record, ListDue,
         MatchFails, DispatchFails, Crash, LoseTx
  <2>3. PICK i \in Instances, k \in Keys : Advance(i, k)
      BY <1>1, <2>1, <2>2 DEF vars, schedule
  <2>4. k \in (0 .. MaxTicks) \X Schedules
      BY <2>3 DEF Advance, TypeOK
  <2>5. next[k[2]] = k[1] /\ Advanced(k)
      BY <1>1, <2>3 DEF Advance
  <2>6. s = k[2]
    <3>1. next' = [next EXCEPT ![k[2]] = clock + 1]
        BY <2>5 DEF Advanced
    <3>2. next \in [Schedules -> 0 .. MaxTicks + 2]
        BY DEF TypeOK
    <3> QED
        BY <1>1, <3>1, <3>2
  <2>7. <<next[s], s>> = k
      BY <2>4, <2>5, <2>6
  <2>8. occ' = With(k)
      BY <2>5 DEF Advanced
  <2> QED
    <3>1. occ[k] = None => occ'[k] = Due
        BY <2>8 DEF With, TypeOK
    <3>2. occ[k] # None => occ'[k] = occ[k]
        BY <2>8 DEF With
    <3>3. Due # None
        BY DEF Due, None
    <3> QED
        BY <2>7, <3>1, <3>2, <3>3
<1>2. Locks /\ [Next]_vars
      => [\A s \in Schedules :
             next'[s] # next[s] /\ s \notin touched' => occ'[<<next[s], s>>] # None]_vars
    BY <1>1
<1> QED
    BY <1>2, LocksHold, PTL DEF Spec, TickKept
=============================================================================
