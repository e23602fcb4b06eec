---------------------------- MODULE MCSharedCli ----------------------------
(* Instances of SharedCli for TLC, and a line of a lab that does not do what the
   lab says. *)
EXTENDS SharedCli

\* What a script for NX-API posts: a look at the switch, and a configuration
\* that ends where it began
Show1   == <<[op |-> "show"]>>
Config1 == <<[op |-> "configure"], [op |-> "vsan database"],
             [op |-> "vsan", vsan |-> 2], [op |-> "exit"], [op |-> "exit"]>>
Scripts == {Show1, Config1}

\* "zoneset activate vsan 10 PROD_ZONESET" activates (lab1_basic_zoning.md:34).
\* Refuted: the handler takes the VSAN number for the name.
LabActivates ==
    [][\A c \in Client :
          (Handle(c) /\ Handling(c, "config", "activate"))
              => LET a == <<at[c].cmd.vsan, at[c].cmd.zoneset>>
                 IN  a \in zonesets => a \in active']_vars
=============================================================================
