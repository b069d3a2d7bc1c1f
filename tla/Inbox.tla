------------------------------- MODULE Inbox -------------------------------
(***************************************************************************)
(* What an inbox promises to those who send to it: a message waits from    *)
(* its sending until some taker takes it; each is taken once, by one       *)
(* taker, and a taker takes once, everything it will ever have.            *)
(***************************************************************************)
EXTENDS Integers

CONSTANTS
    Messages,
    Takers      \* positive numbers

VARIABLE box    \* box[m]: the taker of message m, or Unsent, Waiting

Unsent  == -1
Waiting == 0

Init == box = [m \in Messages |-> Unsent]

Send(m) == box[m] = Unsent /\ box' = [box EXCEPT ![m] = Waiting]

Take(t, S) ==
    /\ \A m \in S : box[m] = Waiting
    /\ \A m \in Messages : box[m] # t
    /\ box' = [m \in Messages |-> IF m \in S THEN t ELSE box[m]]

Next ==
    \/ \E m \in Messages : Send(m)
    \/ \E t \in Takers, S \in SUBSET Messages : Take(t, S)

Spec == Init /\ [][Next]_box
=============================================================================
