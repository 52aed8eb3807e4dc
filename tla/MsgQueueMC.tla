------------------------------ MODULE MsgQueueMC ------------------------------
(* Packets for MsgQueue: every kind of byte the framing tells apart, alone    *)
(* and next to another, and a packet that does not fit beside another one.    *)
EXTENDS MsgQueue

SomePackets == {<<1>>, <<127, 125>>, <<94, 126>>, <<93, 1, 95>>}
SomeBytes   == {0, 1, 93, 94, 95, 125, 126, 127}
=============================================================================
