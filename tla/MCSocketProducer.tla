--------------------------- MODULE MCSocketProducer ---------------------------
(* SocketProducer for TLC: an old and a new connection, or a lost and a    *)
(* live one, and two streams.                                              *)
EXTENDS SocketProducer

CONSTANTS r1, r2, g1, g2

MCReaders == {r1, r2}
MCStreams == {g1, g2}
===============================================================================
