---------------------------- MODULE MCUVMultiloop ----------------------------
(* Two workers, the first of which may have no loop, a thread that posts   *)
(* three tasks, the first and the third of them for the same worker unless *)
(* the call of the second one's body comes between, which posts a fourth.  *)
EXTENDS UVMultiloop

MCThreads == {"a"}
MCTasks   == {"t1", "t2", "t3", "t4"}
MCPoster  == [t1 |-> "a", t2 |-> "a", t3 |-> "a", t4 |-> "t2"]
MCMayFail == {1}
=============================================================================
