--------------------------- MODULE MCPortThreads ---------------------------
(* Instances of PortThreads for TLC, and a sentence of a lab that the code does
   not keep. *)
EXTENDS PortThreads

\* A port in mode F (lab 2) and a trunk port, both brought up
BootUp == {[admin |-> "up", mode |-> m, allowed |-> {1, 2}, sfp |-> 16] : m \in {"F", "TE"}}

\* ... and a port out of the box
BootNew == {[admin |-> "down", mode |-> "auto", allowed |-> {1}, sfp |-> NoSfp]}

BootAny == BootUp \union BootNew

\* After unplug_sfp "Port status changes to OFFLINE/LINK_DOWN" (lab2, Expected
\* Observations).  Refuted: "no shutdown" looks for a transceiver before it
\* goes through the states of the bring-up; unplugged in between, the port
\* comes to rest waiting for a FLOGI.
UnplugWins ==
    AtRest /\ port.sfp = NoSfp => port.oper \in {"OFFLINE", "LINK_DOWN"}
=============================================================================
