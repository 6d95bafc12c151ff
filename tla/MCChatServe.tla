---------------------------- MODULE MCChatServe ----------------------------
(* Instances of ChatServe for TLC.                                          *)
EXTENDS ChatServe

CONSTANTS t1, t2, a1, a2, r1, r2

MCTopicOf == [m \in RemoteMsgs |-> t1]
=============================================================================
