------------------------------ MODULE RunLedger ------------------------------
(***************************************************************************)
(* What the run protocol promises about one task's log and spend, whoever  *)
(* streams the run: the log holds, for every agent started for the task, a *)
(* prefix of that agent's output with each line once, it grows by whole    *)
(* batches while that agent is the task's current one, and an agent's      *)
(* spend is added at most once, after which nothing else of it is added    *)
(* again.  RunAttachment implements this with jobs, leases and CAS writes. *)
(***************************************************************************)
EXTENDS Naturals

CONSTANTS
    MaxPid,     \* agents ever started for the task: 1..MaxPid
    MaxLines    \* output lines an agent can write

VARIABLES
    agent,      \* the agent the task's row names, 0 when it names none
    settled,    \* that agent's exit is recorded
    rows,       \* rows[p][k]: log rows that hold line k of agent p's output
    spend       \* spend[p]: times agent p's usage was added to the task

ledger == <<agent, settled, rows, spend>>

Pids  == 1 .. MaxPid
Lines == 1 .. MaxLines

\* A log that holds exactly the first n lines, each once.
FirstN(n) == [k \in Lines |-> IF k <= n THEN 1 ELSE 0]

Nothing == [p \in Pids |-> FirstN(0)]

Init ==
    /\ agent = 0
    /\ settled = FALSE
    /\ rows = Nothing
    /\ spend = [p \in Pids |-> 0]

\* A new agent is the task's: nothing of it is in the log yet.
Start(p) ==
    /\ rows[p] = FirstN(0)
    /\ spend[p] = 0
    /\ agent' = p
    /\ settled' = FALSE
    /\ UNCHANGED <<rows, spend>>

\* A batch of the current agent's lines: the log's prefix grows from m to n.
Store(m, n) ==
    /\ agent \in Pids
    /\ m < n
    /\ rows[agent] = FirstN(m)
    /\ rows' = [rows EXCEPT ![agent] = FirstN(n)]
    /\ UNCHANGED <<agent, settled, spend>>

\* The current agent's exit is recorded, with its spend or (a lost run) without.
Settle ==
    /\ agent \in Pids
    /\ ~settled
    /\ settled' = TRUE
    /\ spend' \in {spend, [spend EXCEPT ![agent] = 1]}
    /\ UNCHANGED <<agent, rows>>

\* The task is queued again, its log kept or (a forced redo) deleted.
Requeue ==
    /\ agent' = 0
    /\ settled' = FALSE
    /\ rows' \in {rows, Nothing}
    /\ UNCHANGED spend

Next ==
    \/ \E p \in Pids : Start(p)
    \/ \E m, n \in 0 .. MaxLines : Store(m, n)
    \/ Settle
    \/ Requeue

Spec == Init /\ [][Next]_ledger
=============================================================================
