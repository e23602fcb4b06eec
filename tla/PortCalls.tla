----------------------------- MODULE PortCalls -----------------------------
(***************************************************************************)
(* What a call on a port promises when nothing overlaps it: the states it  *)
(* can leave the port p in, by the kind of the caller.  FabricBus takes    *)
(* calls as single steps of this kind; PortThreads takes them apart.       *)
(***************************************************************************)
EXTENDS Port

CONSTANTS
    Boot,    \* port configurations a startup file may hold
    Domain   \* domains a peer may announce

Configured(p) ==
    {NoShutdown(p), AdminDown(p)}
    \union {SetMode(p, m) : m \in {"auto", "F", "E", "TE"}}
    \union {SetTrunkAllowed(p, vs) : vs \in (SUBSET VSAN) \ {{}}}
    \union {SetSpeed(p, s) : s \in UNION {Supported(g) : g \in Generation}}
    \union {Reload(p, cfg) : cfg \in Boot}

Faulted(p) == {UnplugSfp(p), LinkLost(p)} \union {PlugSfp(p, g) : g \in Generation}

Signalled(p) ==
    {LinkSignalDetected(p), LinkLost(p)}
    \union {ElpSuccess(p, dom, vs) : dom \in Domain, vs \in SUBSET VSAN}
=============================================================================
