-------------------------- MODULE MCSocketsContext --------------------------
(* Instances of SocketsContext for TLC.                                    *)
EXTENDS SocketsContext

CONSTANTS s1, s2, s3

\* Three structs: a listener and two backlog connections, or two sockets.
MCSocks == {s1, s2, s3}
====
