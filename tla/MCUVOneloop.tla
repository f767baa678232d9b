----------------------------- MODULE MCUVOneloop -----------------------------
(***************************************************************************)
(* Instances of UVOneloop for TLC: two posting threads, one of which posts *)
(* twice, and a task that itself posts while it runs on the loop thread.   *)
(***************************************************************************)
EXTENDS UVOneloop, TLC

CONSTANTS p1, p2, w, a1, a2, b1, s1

MCThreads == {p1, p2}
MCTasks   == {a1, a2, b1, s1}
MCPoster  == (a1 :> p1) @@ (a2 :> p1) @@ (b1 :> p2) @@ (s1 :> w)

\* a1 opens a handle on the loop and a2 closes it, as the connect and the
\* disconnect of a CUVTcpClient do.
MCOpeners == {a1}
MCClosers == {a2}
=============================================================================
