---------------------------- MODULE TaskExecutor ----------------------------
(***************************************************************************)
(* What an event loop of src/src/common/eventloop promises to the code     *)
(* that calls postTask, without its queue, its wake-up handles or its      *)
(* worker thread:                                                          *)
(*                                                                         *)
(*   - every task is accepted or ignored, and ignored only once the        *)
(*     executor is stopping;                                               *)
(*   - accepted tasks run one at a time, each at most once, and the tasks  *)
(*     of one caller in the order in which that caller posted them;        *)
(*   - no task is thrown away before the executor is stopping, and none    *)
(*     runs after it has closed.                                           *)
(***************************************************************************)
EXTENDS Sequences

CONSTANTS
    Callers,    \* the threads that post tasks
    Tasks,      \* the task objects, each posted at most once
    Poster      \* Poster[t], a member of Callers, posts t

VARIABLES
    status,     \* status[t]: how far task t has come
    backlog,    \* backlog[c]: the tasks of c that wait to run, oldest first
    phase       \* "open", "stopping" or "closed"

vars == <<status, backlog, phase>>

Init ==
    /\ status = [t \in Tasks |-> "new"]
    /\ backlog = [c \in Callers |-> <<>>]
    /\ phase = "open"

Accept(t) ==
    /\ phase # "closed"
    /\ status[t] = "new"
    /\ status' = [status EXCEPT ![t] = "queued"]
    /\ backlog' = [backlog EXCEPT ![Poster[t]] = Append(@, t)]
    /\ UNCHANGED phase

Ignore(t) ==
    /\ phase # "open"
    /\ status[t] = "new"
    /\ status' = [status EXCEPT ![t] = "ignored"]
    /\ UNCHANGED <<backlog, phase>>

\* The oldest waiting task of c leaves the backlog and becomes s.
Take(c, s) ==
    /\ phase # "closed"
    /\ backlog[c] # <<>>
    /\ status' = [status EXCEPT ![Head(backlog[c])] = s]
    /\ backlog' = [backlog EXCEPT ![c] = Tail(@)]
    /\ UNCHANGED phase

Start(c) ==
    /\ \A t \in Tasks : status[t] # "running"
    /\ Take(c, "running")

Discard(c) ==
    /\ phase = "stopping"
    /\ Take(c, "dropped")

Finish(t) ==
    /\ status[t] = "running"
    /\ status' = [status EXCEPT ![t] = "ran"]
    /\ UNCHANGED <<backlog, phase>>

Stop ==
    /\ phase = "open"
    /\ phase' = "stopping"
    /\ UNCHANGED <<status, backlog>>

\* Whatever still waits is dropped with the queue.
Close ==
    /\ phase = "stopping"
    /\ \A t \in Tasks : status[t] # "running"
    /\ phase' = "closed"
    /\ status' = [t \in Tasks |->
                    IF status[t] = "queued" THEN "dropped" ELSE status[t]]
    /\ backlog' = [c \in Callers |-> <<>>]

Next ==
    \/ \E t \in Tasks : Accept(t) \/ Ignore(t) \/ Finish(t)
    \/ \E c \in Callers : Start(c) \/ Discard(c)
    \/ Stop
    \/ Close

Spec == Init /\ [][Next]_vars
=============================================================================
