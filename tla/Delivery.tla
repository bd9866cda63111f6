------------------------------ MODULE Delivery ------------------------------
(***************************************************************************)
(* What pkg/mq promises a publisher (the Handler and Consumer interfaces   *)
(* of mq.go and the retry limit of NewRedisStreamBus): a message is given  *)
(* to the handler until the handler accepts it or MaxRetry calls have      *)
(* failed, when it is set aside; one call at a time, never again once it   *)
(* was accepted.                                                           *)
(***************************************************************************)
EXTENDS Naturals

CONSTANTS Msgs, MaxRetry

VARIABLES
    status,   \* what became of each message
    tries     \* how often the handler was called with it

vars == <<status, tries>>

Init ==
    /\ status = [m \in Msgs |-> "unsent"]
    /\ tries = [m \in Msgs |-> 0]

Move(m, from, to) ==
    /\ status[m] = from
    /\ status' = [status EXCEPT ![m] = to]

Send(m) == Move(m, "unsent", "pending") /\ UNCHANGED tries

\* The handler is called.
Try(m) ==
    /\ Move(m, "pending", "trying")
    /\ tries[m] < MaxRetry
    /\ tries' = [tries EXCEPT ![m] = @ + 1]

Succeed(m) == Move(m, "trying", "done") /\ UNCHANGED tries

\* The handler returned an error, or died with its process.
Fail(m) == Move(m, "trying", "pending") /\ UNCHANGED tries

\* Dead-lettered, only after the last permitted call has failed.
Bury(m) ==
    /\ Move(m, "pending", "dead")
    /\ tries[m] = MaxRetry
    /\ UNCHANGED tries

Attend(m) == Try(m) \/ Succeed(m) \/ Fail(m) \/ Bury(m)

Next == \E m \in Msgs : Send(m) \/ Attend(m)

Spec == Init /\ [][Next]_vars
=============================================================================
