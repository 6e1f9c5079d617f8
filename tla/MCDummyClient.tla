---------------------------- MODULE MCDummyClient ---------------------------
(* An instance of DummyClient.                                              *)
EXTENDS DummyClient

MCRooms == 1 .. 4
=============================================================================
