------------------------------- MODULE ChanBus -------------------------------
(***************************************************************************)
(* ChanBus of pkg/mq/mq.go, the in-process bus: one buffered channel for   *)
(* all topics and one goroutine, Run, that takes messages from it and      *)
(* calls the handler, whose error is dropped.  cmd/server runs it when     *)
(* features.mq_enabled is set; without it, and in cmd/like, requests       *)
(* publish to one that nothing runs.  A send to a full channel blocks, and *)
(* Publish ignores its context; the Go runtime serves blocked senders      *)
(* first come, first served.  No handler publishes, so that Run never      *)
(* waits for itself.                                                       *)
(***************************************************************************)
EXTENDS Naturals, Sequences

CONSTANTS
    Publishers,   \* the goroutines that call Publish
    Cap,          \* the buffer of the channel
    Runners,      \* {"select"}, {"absent"} or both: whether the process calls Run
    Cancels,      \* TRUE: the ctx of Run may be cancelled
    MaxMsgs       \* bound: calls of Publish

ASSUME ChanBusAssumption ==
    /\ Cap \in Nat \ {0} /\ MaxMsgs \in Nat
    /\ Runners \subseteq {"select", "absent"}
    /\ Cancels \in BOOLEAN

VARIABLES
    buffered,  \* how many messages the channel holds
    blocked,   \* the blocked senders, in the order they came
    runner,    \* where Run is
    cancelled, \* ctx is done
    calls      \* calls of Publish so far

vars == <<buffered, blocked, runner, cancelled, calls>>

IsBlocked(p) == \E i \in 1 .. Len(blocked) : blocked[i] = p

TypeOK ==
    /\ buffered \in 0 .. Cap
    /\ blocked \in Seq(Publishers) /\ (blocked # <<>> => buffered = Cap)
    /\ runner \in {"absent", "select", "handler", "returned"}
    /\ cancelled \in BOOLEAN
    /\ calls \in 0 .. MaxMsgs

Init ==
    /\ buffered = 0 /\ blocked = <<>>
    /\ runner \in Runners
    /\ cancelled = FALSE
    /\ calls = 0

-----------------------------------------------------------------------------
\* Mutant of Publish: a send that does not respect the buffer.
PublishOverfull(p) ==
    /\ ~IsBlocked(p) /\ calls < MaxMsgs
    /\ calls' = calls + 1
    /\ buffered' = buffered + 1
    /\ UNCHANGED <<blocked, runner, cancelled>>

\* b.ch <- message: into the buffer, or the caller blocks.
Publish(p) ==
    /\ ~IsBlocked(p) /\ calls < MaxMsgs
    /\ calls' = calls + 1
    /\ IF buffered < Cap
       THEN buffered' = buffered + 1 /\ UNCHANGED blocked
       ELSE blocked' = Append(blocked, p) /\ UNCHANGED buffered
    /\ UNCHANGED <<runner, cancelled>>

\* msg := <-b.ch: the first blocked sender's message takes the free place and that
\* sender returns.
Receive ==
    /\ runner = "select" /\ buffered > 0
    /\ IF blocked = <<>>
       THEN buffered' = buffered - 1 /\ UNCHANGED blocked
       ELSE blocked' = Tail(blocked) /\ UNCHANGED buffered
    /\ runner' = "handler"
    /\ UNCHANGED <<cancelled, calls>>

\* Mutant of Handle: Run returns the error of a handler.
HandleReturnsError ==
    /\ runner = "handler"
    /\ runner' \in {"select", "returned"}
    /\ UNCHANGED <<buffered, blocked, cancelled, calls>>

\* The handler, if the topic has one, is called and returns, with an error or
\* without: Run goes on either way.
Handle ==
    /\ runner = "handler"
    /\ runner' = "select"
    /\ UNCHANGED <<buffered, blocked, cancelled, calls>>

\* select may take ctx.Done() when it is ready, whether or not there is a message.
Done ==
    /\ runner = "select" /\ cancelled
    /\ runner' = "returned"
    /\ UNCHANGED <<buffered, blocked, cancelled, calls>>

Cancel ==
    /\ Cancels /\ ~cancelled
    /\ cancelled' = TRUE
    /\ UNCHANGED <<buffered, blocked, runner, calls>>

Run == Receive \/ Handle \/ Done

Next == (\E p \in Publishers : Publish(p)) \/ Run \/ Cancel

Spec == Init /\ [][Next]_vars

\* Run's goroutine is scheduled and handlers return.
FairSpec == Spec /\ WF_vars(Run)

-----------------------------------------------------------------------------
(* Properties. *)

\* A publisher that finds the buffer full gets through, whatever handlers return and
\* however senders queue, as long as the process runs the bus and is not told to stop:
\* nothing but ctx ends Run (mq.go:210-225).  The two exceptions are real: where Run
\* was never called, and once it returned, a request that publishes to a full channel
\* hangs for ever.
PublishReturnsWhileRunning ==
    \A p \in Publishers :
        IsBlocked(p) ~> (~IsBlocked(p) \/ cancelled \/ runner = "absent")
=============================================================================
