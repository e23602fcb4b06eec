-------------------------- MODULE FabricBusClaims --------------------------
(***************************************************************************)
(* What the README, the labs and the comments say of a link between two    *)
(* switches and the code does not do.  Each is refuted by a run of its own *)
(* (its name starts with bus_claim), which shows the way there.            *)
(***************************************************************************)
EXTENDS FabricBus

\* A port that "no shutdown" and "switchport mode TE" have prepared
Ready(s) == /\ port[s].admin = "up"
            /\ port[s].sfp # NoSfp
            /\ port[s].mode = "TE"

BothReady == \A s \in Side : up[s] /\ Ready(s)
BothTrunk == \A s \in Side : Trunking(s)

\* "Configure fc1/1 as a trunking E-port on both switches to see them merge"
\* (README.md:73).  Refuted: a HELLO that reaches the server before its port
\* is in mode TE is answered with LINK_DOWN and never sent again.
ConfiguringBothMerges ==
    LET \* the server is configured in the order of the README
        InOrder == /\ port["server"].mode \in {"auto", "TE"}
                   /\ port["server"].admin = "up" => port["server"].mode = "TE"
    IN  ([](up["client"] /\ up["server"] /\ Ready("client") /\ InOrder) /\ <>[]BothReady)
            => <>BothTrunk

\* switch1 connects "automatically once both containers are running"
\* (README.md:61-63).  Refuted: after a restart of the client the server notices
\* the end of the old connection when the new one is up, and takes the port
\* down again.
ReconnectsAfterOwnRestart ==
    ([]up["server"] /\ <>[]BothReady) => <>[]BothTrunk
=============================================================================
