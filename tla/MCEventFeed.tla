---------------------------- MODULE MCEventFeed ----------------------------
(* Instance of EventFeed for TLC: threads and sockets are interchangeable. *)
EXTENDS EventFeed, TLC

Interchangeable == Permutations(Emitter) \union Permutations(Socket)
=============================================================================
