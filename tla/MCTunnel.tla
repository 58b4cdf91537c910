------------------------------ MODULE MCTunnel ------------------------------
(* Tunnel on small instances: who talks, how much, and in which pieces. *)
EXTENDS Tunnel

CONSTANTS
    Up, Down,         \* chunks sent by the client's and the target's application
    UpBuf, DownBuf    \* sizes of client_buf and target_buf

MCChunks == [s \in Sides |-> IF s = "client" THEN Up ELSE Down]
MCRelayBuf == [s \in Sides |-> IF s = "client" THEN UpBuf ELSE DownBuf]

=============================================================================
