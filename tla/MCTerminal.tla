----------------------------- MODULE MCTerminal -----------------------------
(* Instance of Terminal for TLC: what is typed for a placeholder. *)
EXTENDS Terminal

Sample ==
    [k \in Placeholder |->
        CASE k = "<interface-name>"            -> "fc1/1"
          [] k \in {"<vsan-id>", "<vsan-list>"} -> "10"
          [] OTHER                              -> "a"]

Numbers == {"1", "10"} \union (Speeds \ {"auto"})
=============================================================================
