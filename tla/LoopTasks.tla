------------------------------ MODULE LoopTasks ------------------------------
(***************************************************************************)
(* The event loop as the TCP classes see it: TaskExecutor's promise, that  *)
(* UVOneloop is shown to keep, with the bodies of the closures filled in.  *)
(* There is one FIFO of closures per calling thread; the work callback     *)
(* runs closures until the queue is empty, those posted meanwhile          *)
(* included, and the loop's other events happen between two such runs.     *)
(***************************************************************************)
EXTENDS Sequences

VARIABLES
    backlog,         \* backlog[c]: the closures posted by thread c
    draining         \* the loop is inside its work callback

taskVars == <<backlog, draining>>

\* A thread of the application, and the loop's own.
Callers == {"app", "loop"}

TasksInit ==
    /\ backlog = [c \in Callers |-> <<>>]
    /\ draining = FALSE

\* The queue after thread c has posted tasks.
Posted(c, tasks) == [backlog EXCEPT ![c] = @ \o tasks]

When(condition, task) == IF condition THEN <<task>> ELSE <<>>

\* The oldest closure of c runs, and its body posts further ones.
RunTask(c, op, posts) ==
    LET rest  == [backlog EXCEPT ![c] = Tail(@)]
        after == [rest EXCEPT !["loop"] = @ \o posts]
    IN  /\ backlog[c] # <<>>
        /\ Head(backlog[c]).op = op
        /\ backlog' = after
        /\ draining' = (\E d \in Callers : after[d] # <<>>)

\* A callback of libuv other than the work callback, and what it posts.
LoopTurn(posts) ==
    /\ ~draining
    /\ backlog' = Posted("loop", posts)
    /\ UNCHANGED draining

QueuedTasks == UNION {{backlog[c][i] : i \in DOMAIN backlog[c]} : c \in Callers}
=============================================================================
