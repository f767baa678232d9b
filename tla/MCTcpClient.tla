----------------------------- MODULE MCTcpClient -----------------------------
(***************************************************************************)
(* Instances of TcpClient for TLC.                                         *)
(***************************************************************************)
EXTENDS TcpClient, TLC

CONSTANTS good, bad

MCSettings == {<<2, 3>>, <<3, 2>>}

\* What both threads may call at the same time matters on both; the others are
\* called on one of them.
MCSafetyCalls == (Callers \X {"connect", "disconnect", "setReceiveTimeout"})
                   \cup ({"app"} \X {"send", "destroy"})
                   \cup ({"loop"} \X {"setReconnectInterval"})
MCLoopCalls == {"loop"} \X {"connect", "disconnect"}
MCLiveCalls == ({"app"} \X {"connect", "send", "setReceiveTimeout"})
                   \cup ({"loop"} \X {"connect", "disconnect"})
=============================================================================
