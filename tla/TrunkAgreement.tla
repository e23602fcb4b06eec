--------------------------- MODULE TrunkAgreement ---------------------------
(***************************************************************************)
(* What the fabric bus promises about the two ends of one trunk, without   *)
(* connections, messages or handshake phases (see FabricBus):              *)
(*                                                                         *)
(*   - terms are struck by the client from an offer the server made, and   *)
(*     are exactly the VSANs both ends allowed at that moment, with the    *)
(*     client's domain;                                                    *)
(*   - an end trunks only on terms that were struck, and on some VSAN;     *)
(*   - an end changes terms only by adopting others or by letting go.      *)
(***************************************************************************)
CONSTANTS Side, VSAN, Domain, NoTerms

VARIABLES
    allowed,   \* [Side -> SUBSET VSAN]: the configured trunk allowed list
    domainOf,  \* [Side -> Domain]: the domain each switch assigns
    offered,   \* lists the server has advertised so far
    struck,    \* terms agreed so far
    terms      \* [Side -> terms an end trunks on, or NoTerms]

vars == <<allowed, domainOf, offered, struck, terms>>

Init ==
    /\ allowed \in [Side -> SUBSET VSAN]
    /\ domainOf \in [Side -> Domain]
    /\ offered = {}
    /\ struck = {}
    /\ terms = [s \in Side |-> NoTerms]

\* The operator changes the allowed list of an end, which keeps trunking
Configure(s) ==
    /\ \E list \in SUBSET VSAN : allowed' = [allowed EXCEPT ![s] = list]
    /\ UNCHANGED <<domainOf, offered, struck, terms>>

\* The server advertises the list it has now; a trunk it had is renegotiated
Offer ==
    /\ offered' = offered \union {allowed["server"]}
    /\ terms' \in {terms, [terms EXCEPT !["server"] = NoTerms]}
    /\ UNCHANGED <<allowed, domainOf, struck>>

Strike ==
    /\ \E list \in offered :
          struck' = struck \union {[vsans  |-> allowed["client"] \intersect list,
                                    domain |-> domainOf["client"]]}
    /\ UNCHANGED <<allowed, domainOf, offered, terms>>

Adopt(s) ==
    /\ \E t \in struck :
          /\ t.vsans # {}
          /\ terms' = [terms EXCEPT ![s] = t]
    /\ UNCHANGED <<allowed, domainOf, offered, struck>>

Release(s) ==
    /\ terms' = [terms EXCEPT ![s] = NoTerms]
    /\ UNCHANGED <<allowed, domainOf, offered, struck>>

\* A switch goes down and comes back with another configuration and domain
Reset(s) ==
    /\ terms' = [terms EXCEPT ![s] = NoTerms]
    /\ \E list \in SUBSET VSAN : allowed' = [allowed EXCEPT ![s] = list]
    /\ \E d \in Domain : domainOf' = [domainOf EXCEPT ![s] = d]
    /\ UNCHANGED <<offered, struck>>

Next ==
    \/ Offer
    \/ Strike
    \/ \E s \in Side : Configure(s) \/ Adopt(s) \/ Release(s) \/ Reset(s)

Spec == Init /\ [][Next]_vars
=============================================================================
