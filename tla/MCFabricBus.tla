---------------------------- MODULE MCFabricBus ----------------------------
(* Instances of FabricBus for TLC. *)
EXTENDS FabricBusClaims

TrunkPort(vsans) == [admin |-> "up", mode |-> "TE", allowed |-> vsans, sfp |-> 16]

Both(cfgs) == [s \in Side |-> cfgs]

\* Startup files: ready trunk ports, the same or with fewer VSANs
BootOne    == Both({TrunkPort({1, 2})})
BootPartial == [client |-> {TrunkPort({1, 2})}, server |-> {TrunkPort({2})}]

\* ... every outcome of the handshake: the same lists, partial overlap, none,
\* one end in mode E
BootMixed == [client |-> {TrunkPort({1, 2}), TrunkPort({1})},
              server |-> {TrunkPort({1, 2}), TrunkPort({2}),
                          [TrunkPort({1}) EXCEPT !.mode = "E"]}]

\* ... a client that is ready and a server that has yet to be configured
BootUnprepared ==
    [client |-> {TrunkPort({1})},
     server |-> {[TrunkPort({1}) EXCEPT !.admin = "down", !.mode = "auto"]}]
=============================================================================
