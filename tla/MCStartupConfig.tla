-------------------------- MODULE MCStartupConfig --------------------------
(* Instance of StartupConfig for TLC: sessions are interchangeable. *)
EXTENDS StartupConfig, TLC

Sessions == Permutations(Session)
=============================================================================
