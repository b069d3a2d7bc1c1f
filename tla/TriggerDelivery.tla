-------------------------- MODULE TriggerDelivery --------------------------
(***************************************************************************)
(* Durable delivery of what fires a trigger: events that receivers accept, *)
(* webhook calls and tickets, and the ticks of schedules.  What is         *)
(* accepted is a row; each API instance matches events with triggers, and  *)
(* dispatches occurrences, one at a time, under row locks; the target it   *)
(* creates (a run, a task, a terminal, a message) has the occurrence's id. *)
(*                                                                         *)
(* A trigger that is disabled stands for one that was deleted and for a    *)
(* target that was disabled, deleted or given to another owner.  Backoff   *)
(* is a delay.  The rows' retention (90 days) is left out.                 *)
(***************************************************************************)
EXTENDS Integers, FiniteSets

CONSTANTS
    Events,         \* events, by their delivery keys
    Listeners,      \* the triggers that match them
    Schedules,      \* the triggers of type schedule
    Calls,          \* <<key, trigger>>: webhook calls and tickets
    Instances,
    Nothing,
    MaxAttempts,    \* MAX_ATTEMPTS
    MaxTicks,       \* bound: how far the clock goes
    Upsets,         \* what users and faults may do
    MaxUpsets       \* bound: how often

Triggers == Listeners \cup Schedules \cup {c[2] : c \in Calls}
Keys     == (Events \X Listeners) \cup ((1 .. MaxTicks) \X Schedules) \cup Calls
Never    == MaxTicks + 2

ASSUME Parameters ==
    /\ Listeners \cap Schedules = {}
    /\ Nothing \notin Events \cup Keys
    /\ MaxAttempts \in Nat \ {0} /\ MaxTicks \in Nat /\ MaxUpsets \in Nat
    /\ Upsets \subseteq {"toggle", "retry", "error", "crash", "tx"}

VARIABLES
    enabled,    \* the triggers that are enabled
    clock,
    next,       \* next_fire_at, a tick
    event,      \* trigger_events
    occ,        \* trigger_occurrences, by occurrence_key
    made,       \* how many targets each occurrence has created
    doer,       \* what each instance's dispatch is about, and how far it is
    sweep,      \* the due schedules each instance's sweep has listed
    touched,    \* history: triggers that have been enabled or disabled
    upsets

schedule == <<clock, next, sweep>>
setting  == <<enabled, touched>>
vars     == <<schedule, setting, event, occ, made, doer, upsets>>

-----------------------------------------------------------------------------

Idle == [at |-> "idle", of |-> Nothing, todo |-> {}, held |-> FALSE]
None == [state |-> "none", attempts |-> 0]
Due  == [state |-> "pending", attempts |-> 0]

Rows  == [state : {"none", "pending", "started", "skipped", "failed"}, attempts : 0 .. MaxAttempts]
Steps == {"idle", "match", "look", "insert", "made", "skip"}

TypeOK ==
    /\ enabled \subseteq Triggers /\ touched \subseteq Triggers
    /\ clock \in 0 .. MaxTicks /\ next \in [Schedules -> 0 .. MaxTicks + 2]
    /\ event \in [Events -> {"none", "pending", "dispatched"}]
    /\ occ \in [Keys -> Rows]
    /\ \A k \in Keys : (occ[k].state = "failed") <=> (occ[k].attempts = MaxAttempts)
    /\ made \in [Keys -> 0 .. 2]
    /\ doer \in [Instances -> [at : Steps, of : Events \cup Keys \cup {Nothing},
                               todo : SUBSET Listeners, held : BOOLEAN]]
    /\ sweep \in [Instances -> SUBSET ((0 .. MaxTicks) \X Schedules)]
    /\ upsets \in 0 .. MaxUpsets

Init ==
    /\ enabled = Triggers /\ touched = {}
    /\ clock = 0 /\ next = [s \in Schedules |-> 1]
    /\ event = [e \in Events |-> "none"]
    /\ occ = [k \in Keys |-> None] /\ made = [k \in Keys |-> 0]
    /\ doer = [i \in Instances |-> Idle] /\ sweep = [i \in Instances |-> {}]
    /\ upsets = 0

Upset(kind) == kind \in Upsets /\ upsets < MaxUpsets /\ upsets' = upsets + 1
Goto(i, at) == doer' = [doer EXCEPT ![i].at = at]
Leave(i)    == doer' = [doer EXCEPT ![i] = Idle]

\* A row lock lasts as long as its transaction; others skip the row.
Locked(row) == \E i \in Instances : doer[i].of = row /\ doer[i].held

\* enqueueOccurrence: the key's row is there already, or is added.
With(k) == IF occ[k] = None THEN [occ EXCEPT ![k] = Due] ELSE occ

-----------------------------------------------------------------------------
(* What comes in.                                                           *)

\* acceptTriggerEvent.  A redelivery finds the row and changes nothing.
Accept(e) ==
    /\ event[e] = "none"
    /\ event' = [event EXCEPT ![e] = "pending"]
    /\ UNCHANGED <<schedule, setting, occ, made, doer, upsets>>

\* fireTriggerDurably, of a webhook call or a ticket: any delivery after it is
\* one of the instance's.
Fire(c) ==
    /\ c \in Calls /\ occ[c] = None /\ c[2] \in enabled
    /\ occ' = With(c)
    /\ UNCHANGED <<schedule, setting, event, made, doer, upsets>>

\* updateTrigger: a schedule that is enabled waits for its next tick.
Toggle(tr) ==
    /\ Upset("toggle")
    /\ enabled' = IF tr \in enabled THEN enabled \ {tr} ELSE enabled \cup {tr}
    /\ touched' = touched \cup {tr}
    /\ next' = [s \in Schedules |->
           IF s # tr THEN next[s] ELSE IF s \in enabled THEN Never ELSE clock + 1]
    /\ UNCHANGED <<clock, sweep, event, occ, made, doer>>

\* The retry route: the same row, and so the same target.
RetryFailed(k) ==
    /\ Upset("retry") /\ occ[k].state = "failed"
    /\ occ' = [occ EXCEPT ![k] = Due]
    /\ UNCHANGED <<schedule, setting, event, made, doer>>

-----------------------------------------------------------------------------
(* Schedules.                                                               *)

Tick ==
    /\ clock < MaxTicks
    /\ clock' = clock + 1
    /\ UNCHANGED <<next, sweep, setting, event, occ, made, doer, upsets>>

ListDue(i) ==
    /\ sweep[i] = {} /\ i = CHOOSE j \in Instances : sweep[j] = {}
    /\ sweep' = [sweep EXCEPT ![i] =
           {<<next[s], s>> : s \in {q \in enabled \cap Schedules : next[q] <= clock}}]
    /\ sweep'[i] # {}
    /\ UNCHANGED <<clock, next, setting, event, occ, made, doer, upsets>>

\* advanceScheduleCas and the tick's occurrence, in one transaction.
Advanced_Then(k) ==
    /\ next' = [next EXCEPT ![k[2]] = clock + 1]
    /\ occ' \in {occ, With(k)}
Advanced(k) ==
    /\ next' = [next EXCEPT ![k[2]] = clock + 1]
    /\ occ' = With(k)

Advance(i, k) ==
    /\ k \in sweep[i]
    /\ sweep' = [sweep EXCEPT ![i] = @ \ {k}]
    /\ \/ /\ IF k[2] \in enabled /\ next[k[2]] = k[1] THEN Advanced(k) ELSE UNCHANGED <<next, occ>>
          /\ UNCHANGED upsets
       \/ Upset("error") /\ UNCHANGED <<next, occ>>
    /\ UNCHANGED <<clock, setting, event, made, doer>>

-----------------------------------------------------------------------------
(* An instance's dispatch, one row at a time (serializeDispatch).           *)

\* (Any idle instance will do.)
Take(i, row, at, todo) ==
    /\ doer[i] = Idle /\ i = CHOOSE j \in Instances : doer[j] = Idle
    /\ ~Locked(row)
    /\ doer' = [doer EXCEPT ![i] = [at |-> at, of |-> row, todo |-> todo, held |-> TRUE]]

\* dispatchEvent: fireEventTriggers lists the triggers, ...
TakeEvent(i, e) ==
    /\ event[e] = "pending"
    /\ Take(i, e, "match", Listeners \cap enabled)
    /\ UNCHANGED <<schedule, setting, event, occ, made, upsets>>

\* ... adds one's occurrence after the other on a connection of its own, ...
Match(i, tr) ==
    /\ doer[i].at = "match" /\ tr \in doer[i].todo
    /\ occ' = With(<<doer[i].of, tr>>)
    /\ doer' = [doer EXCEPT ![i].todo = @ \ {tr}]
    /\ UNCHANGED <<schedule, setting, event, made, upsets>>

\* ... and marks the event, unless it has lost the transaction.
EndMatch(i) ==
    /\ doer[i].at = "match" /\ doer[i].todo = {}
    /\ event' = IF doer[i].held THEN [event EXCEPT ![doer[i].of] = "dispatched"] ELSE event
    /\ Leave(i)
    /\ UNCHANGED <<schedule, setting, occ, made, upsets>>

\* An error with one trigger ends the attempt; the event's attempts are
\* unlimited.
MatchFails_Swallowed(i) ==
    /\ doer[i].at = "match" /\ Upset("error")
    /\ doer' = [doer EXCEPT ![i].todo = {}]
    /\ UNCHANGED <<schedule, setting, event, occ, made>>
MatchFails(i) ==
    /\ doer[i].at = "match" /\ Upset("error")
    /\ Leave(i)
    /\ UNCHANGED <<schedule, setting, event, occ, made>>

\* dispatchOccurrence: the trigger is read under the row lock.
TakeOccurrence(i, k) ==
    /\ occ[k].state = "pending"
    /\ Take(i, k, IF k[2] \in enabled THEN "look" ELSE "skip", {})
    /\ UNCHANGED <<schedule, setting, event, occ, made, upsets>>

\* The target is looked up by the occurrence's id ...
Look(i) ==
    /\ doer[i].at = "look"
    /\ Goto(i, IF made[doer[i].of] = 0 THEN "insert" ELSE "made")
    /\ UNCHANGED <<schedule, setting, event, occ, made, upsets>>

\* The row as an attempt leaves it; nothing, once its transaction is lost.
Settled(i, state) ==
    IF ~doer[i].held THEN occ
    ELSE [occ EXCEPT ![doer[i].of] = [@ EXCEPT !.state = state]]

Retried_OneMore(i) ==
    IF ~doer[i].held THEN occ
    ELSE LET n == occ[doer[i].of].attempts + 1
         IN  [occ EXCEPT ![doer[i].of] =
                  [state |-> IF n > MaxAttempts THEN "failed" ELSE "pending", attempts |-> n]]
Retried(i) ==
    IF ~doer[i].held THEN occ
    ELSE LET n == occ[doer[i].of].attempts + 1
         IN  [occ EXCEPT ![doer[i].of] =
                  [state |-> IF n >= MaxAttempts THEN "failed" ELSE "pending", attempts |-> n]]

\* ... and inserted under it, which fails when another attempt was first.
Insert_AnyId(i) ==
    /\ doer[i].at = "insert"
    /\ made' = [made EXCEPT ![doer[i].of] = IF @ < 2 THEN @ + 1 ELSE @] /\ Goto(i, "made")
    /\ UNCHANGED <<schedule, setting, event, occ, upsets>>
Insert(i) ==
    /\ doer[i].at = "insert"
    /\ IF made[doer[i].of] = 0
       THEN made' = [made EXCEPT ![doer[i].of] = 1] /\ Goto(i, "made") /\ UNCHANGED occ
       ELSE occ' = Retried(i) /\ Leave(i) /\ UNCHANGED made
    /\ UNCHANGED <<schedule, setting, event, upsets>>

Record_StartedOnly(i) ==
    /\ doer[i].at \in {"made", "skip"}
    /\ occ' = IF doer[i].at = "made" THEN Settled(i, "started") ELSE occ
    /\ Leave(i)
    /\ UNCHANGED <<schedule, setting, event, made, upsets>>
Record(i) ==
    /\ doer[i].at \in {"made", "skip"}
    /\ occ' = Settled(i, IF doer[i].at = "made" THEN "started" ELSE "skipped")
    /\ Leave(i)
    /\ UNCHANGED <<schedule, setting, event, made, upsets>>

\* The spawn fails, before or after the target's row is there.
DispatchFails(i) ==
    /\ doer[i].at \in {"look", "insert", "made"} /\ Upset("error")
    /\ occ' = Retried(i) /\ Leave(i)
    /\ UNCHANGED <<schedule, setting, event, made>>

\* The instance dies, or only its transaction's connection does: the lock is
\* free while the dispatch goes on.
Crash(i) ==
    /\ Upset("crash") /\ (doer[i] # Idle \/ sweep[i] # {})
    /\ Leave(i) /\ sweep' = [sweep EXCEPT ![i] = {}]
    /\ UNCHANGED <<clock, next, setting, event, occ, made>>

LoseTx(i) ==
    /\ Upset("tx") /\ doer[i].held
    /\ doer' = [doer EXCEPT ![i].held = FALSE]
    /\ UNCHANGED <<schedule, setting, event, occ, made>>

-----------------------------------------------------------------------------

TakeOne  == \E i \in Instances : \/ \E e \in Events : TakeEvent(i, e)
                                 \/ \E k \in Keys : TakeOccurrence(i, k)
Attempt(i) == \/ (\E tr \in Listeners : Match(i, tr)) \/ EndMatch(i)
              \/ Look(i) \/ Insert(i) \/ Record(i)
Sweep(i) == ListDue(i) \/ \E k \in Keys : Advance(i, k)

Next ==
    \/ \E e \in Events : Accept(e)
    \/ \E k \in Keys : Fire(k) \/ RetryFailed(k)
    \/ \E tr \in Triggers : Toggle(tr)
    \/ Tick \/ TakeOne
    \/ \E i \in Instances : \/ Attempt(i) \/ Sweep(i)
                            \/ MatchFails(i) \/ DispatchFails(i) \/ Crash(i) \/ LoseTx(i)

Spec == Init /\ [][Next]_vars

\* The delivery worker ticks every second and the schedule checker every
\* minute on every instance; an attempt goes on as long as its process.
Fairness ==
    /\ WF_vars(TakeOne)
    /\ \A i \in Instances : WF_vars(Attempt(i)) /\ WF_vars(Sweep(i))

LiveSpec == Spec /\ Fairness

-----------------------------------------------------------------------------
(* Properties.                                                              *)

\* Whatever is redelivered, retried, lost or dispatched twice, an occurrence
\* creates one target (trigger-delivery.ts, the target's id is its own).
OneTarget == \A k \in Keys : made[k] <= 1

\* An event that counts as dispatched has its occurrence for every trigger that
\* was there all along, however its attempts were cut short.
MatchedAll ==
    \A e \in Events, tr \in Listeners :
        event[e] = "dispatched" /\ tr \notin touched => occ[<<e, tr>>] # None

\* A schedule leaves a tick behind only with the tick's occurrence stored,
\* whichever sweeps overlap and whatever fails.
TickKept ==
    [][\A s \in Schedules :
           next'[s] # next[s] /\ s \notin touched' => occ'[<<next[s], s>>] # None]_vars

\* Nothing accepted is left: an event is dispatched, an occurrence is started,
\* skipped or failed, and a due schedule of an enabled trigger moves on.
DeliveriesEnd ==
    /\ \A e \in Events : event[e] = "pending" ~> event[e] = "dispatched"
    /\ \A k \in Keys : occ[k].state = "pending" ~> occ[k].state # "pending"
    /\ \A s \in Schedules : next[s] <= clock ~> next[s] > clock

\* trigger-delivery.ts: "A crash after creating the target and before recording
\* success therefore resumes the same target."
TargetResumed == \A k \in Keys : occ[k].state = "skipped" => made[k] = 0
=============================================================================
