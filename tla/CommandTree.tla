---------------------------- MODULE CommandTree ----------------------------
(***************************************************************************)
(* The command trees and what is looked up in them (cli/command_tree.py):  *)
(* the expansion of abbreviations before a line is executed, and the words *)
(* offered for help and completion.  A node of a tree is the path to it.   *)
(* Also which branch of the dispatcher's handlers a line reaches           *)
(* (cli/dispatcher.py), by the words alone.                                *)
(***************************************************************************)
EXTENDS Integers, Sequences, FiniteSets, SequencesExt

Placeholder ==
    {"<interface-name>", "<vsan-id>", "<hostname>", "<zone-name>", "<zoneset-name>",
     "<vsan-list>", "<ip-address>", "<subnet-mask>", "<vsan-name>", "<pwwn>"}

\* The paths from the root to the leaves
ExecTree ==
    {<<"configure", "terminal">>,
     <<"show", "interface", "brief">>,
     <<"show", "interface", "<interface-name>", "transceiver">>,
     <<"show", "interface", "<interface-name>", "trunk">>,
     <<"show", "flogi", "database">>,
     <<"show", "zoneset", "active", "vsan", "<vsan-id>">>,
     <<"copy", "running-config", "startup-config">>,
     <<"write", "erase">>, <<"reload">>, <<"exit">>}
    \union {<<"show", w>> : w \in {"trunk", "vsan", "running-config", "startup-config",
                                  "hardware", "environment", "logging"}}

ConfigTree ==
    {<<"interface", "<interface-name>">>, <<"vsan", "database">>,
     <<"hostname", "<hostname>">>,
     <<"zone", "name", "<zone-name>", "vsan", "<vsan-id>">>,
     <<"zoneset", "name", "<zoneset-name>", "vsan", "<vsan-id>">>,
     <<"zoneset", "activate", "vsan", "<vsan-id>", "<zoneset-name>">>,
     <<"end">>, <<"exit">>}

Speeds == {"1000", "2000", "4000", "8000", "16000", "32000", "64000", "128000", "auto"}

\* Wrong variant: a keyword is added that begins like another
ConfigIfTree_Version ==
    {<<"shutdown">>, <<"no", "shutdown">>, <<"exit">>, <<"vsan", "<vsan-id>">>, <<"version">>}

ConfigIfTree ==
    {<<"shutdown">>, <<"no", "shutdown">>, <<"exit">>, <<"vsan", "<vsan-id>">>,
     <<"switchport", "trunk", "allowed", "vsan", "<vsan-list>">>,
     <<"ip", "address", "<ip-address>", "<subnet-mask>">>}
    \union {<<"switchport", "speed", s>> : s \in Speeds}
    \union {<<"switchport", "mode", m>> : m \in {"F", "E", "TE", "auto"}}

Tree == [exec |-> ExecTree, config |-> ConfigTree, config_if |-> ConfigIfTree,
         config_vsan_db |-> {<<"vsan", "<vsan-id>", "name", "<vsan-name>">>, <<"exit">>},
         config_zone    |-> {<<"member", "pwwn", "<pwwn>">>, <<"exit">>},
         config_zoneset |-> {<<"member", "<zone-name>">>, <<"exit">>}]

Mode == DOMAIN Tree

Children(m, node) ==
    {path[Len(node) + 1] : path \in {p \in Tree[m] : IsStrictPrefix(node, p)}}

\* str.startswith
StartsWith(word, start) ==
    Len(start) <= Len(word) /\ SubSeq(word, 1, Len(start)) = start

Matches(m, node, word) ==
    {k \in Children(m, node) \ Placeholder : StartsWith(k, word)}

Lost == "lost"

\* Wrong variant: the first of several matches is taken
Taken_First(m, node, word) ==
    LET kids == Children(m, node)
        keys == Matches(m, node, word)
        free == kids \intersect Placeholder
    IN  IF word \in kids THEN word
        ELSE IF keys # {} THEN CHOOSE k \in keys : TRUE
        ELSE IF free # {} THEN CHOOSE k \in free : TRUE
        ELSE Lost

\* The child that resolve_tokens takes for a word: the word itself, the only
\* keyword it begins, a placeholder
Taken(m, node, word) ==
    LET kids == Children(m, node)
        keys == Matches(m, node, word)
        free == kids \intersect Placeholder
    IN  IF word \in kids THEN word
        ELSE IF Cardinality(keys) = 1 THEN CHOOSE k \in keys : TRUE
        ELSE IF free # {} THEN CHOOSE k \in free : TRUE
        ELSE Lost

\* Wrong variant: what follows a word that is lost is dropped
Resolution_Stops(m, tokens) ==
    FoldLeft(LAMBDA r, word :
        LET k == IF r.lost THEN Lost ELSE Taken(m, r.node, word)
        IN  IF r.lost THEN r
            ELSE [out  |-> Append(r.out, IF k \in Placeholder \union {Lost} THEN word ELSE k),
                  node |-> IF k = Lost THEN r.node ELSE Append(r.node, k),
                  lost |-> k = Lost],
        [out |-> <<>>, node |-> <<>>, lost |-> FALSE], tokens)

\* resolve_tokens, with the node reached; what follows a word that is lost is
\* passed through
Resolution(m, tokens) ==
    FoldLeft(LAMBDA r, word :
        LET k == IF r.lost THEN Lost ELSE Taken(m, r.node, word)
        IN  [out  |-> Append(r.out, IF k \in Placeholder \union {Lost} THEN word ELSE k),
             node |-> IF k = Lost THEN r.node ELSE Append(r.node, k),
             lost |-> k = Lost],
        [out |-> <<>>, node |-> <<>>, lost |-> FALSE], tokens)

Resolved(m, tokens) == Resolution(m, tokens).out

\* _walk: no abbreviations; a word that is no keyword is a placeholder's value
Walked(m, tokens) ==
    FoldLeft(LAMBDA r, word :
        LET kids == Children(m, r.node)
            free == kids \intersect Placeholder
        IN  IF r.lost \/ (word \notin kids /\ free = {})
            THEN [r EXCEPT !.lost = TRUE]
            ELSE [r EXCEPT !.node =
                     Append(@, IF word \in kids THEN word ELSE CHOOSE k \in free : TRUE)],
        [node |-> <<>>, lost |-> FALSE], tokens)

\* get_word_help and complete
Offered(m, tokens, partial) ==
    LET w == Walked(m, tokens)
    IN  IF w.lost THEN {} ELSE Matches(m, w.node, partial)

-----------------------------------------------------------------------------
(* The handlers: the branch a line reaches.  "refused" stands for the      *)
(* answer "% Invalid command", "error" for an exception.                   *)

CONSTANTS Interface, Number   \* words that name a port, words that int() takes

Has(t, i, word) == Len(t) >= i /\ t[i] = word

Refused == {"refused", "error"}

\* int(t[i])
IfNumber(t, i, branch) == IF Len(t) >= i /\ t[i] \in Number THEN branch ELSE "error"

\* int(t[t.index("vsan") + 1]) if "vsan" in t, then t[i]
IfVsan(t, i, branch) ==
    LET at == {k \in DOMAIN t : t[k] = "vsan"}
        v  == CHOOSE k \in at : \A j \in at : k <= j
    IN  IF Len(t) < i THEN "error"
        ELSE IF at = {} THEN branch
        ELSE IfNumber(t, v + 1, branch)

ShowBranch(t) ==
    CASE Has(t, 2, "interface") /\ Has(t, 3, "brief") -> "show interface brief"
      [] Has(t, 2, "interface") /\ Has(t, 4, "transceiver") -> "show transceiver"
      [] Has(t, 2, "interface") /\ Has(t, 4, "trunk") -> "show interface trunk"
      [] Has(t, 2, "flogi") /\ Len(t) = 2 -> "error"
      [] Has(t, 2, "flogi") /\ Has(t, 3, "database") -> "show flogi"
      [] Has(t, 2, "zoneset") /\ Has(t, 3, "active") ->
            IF "vsan" \in Range(Tail(t)) THEN IfNumber(t, 5, "show zoneset") ELSE "show zoneset"
      [] Len(t) > 1 /\ t[2] \in {"trunk", "vsan", "running-config", "hardware",
                                 "environment", "logging"} -> t[2]
      [] OTHER -> "refused"

ExecBranch(t) ==
    CASE t[1] = "configure" /\ (Len(t) = 1 \/ t[2] = "terminal") -> "configure"
      [] t[1] = "show" -> ShowBranch(t)
      [] t[1] = "copy" /\ Has(t, 2, "running-config") /\ Has(t, 3, "startup-config") -> "copy"
      [] t[1] = "write" /\ Has(t, 2, "erase") -> "write erase"
      [] t[1] = "reload" -> "reload"
      [] OTHER -> "refused"

ConfigBranch(t) ==
    CASE t[1] \in {"interface", "hostname", "zone", "zoneset"} /\ Len(t) = 1 -> "error"
      [] t[1] = "interface" -> IF t[2] \in Interface THEN "interface" ELSE "no such interface"
      [] t[1] = "vsan" /\ Has(t, 2, "database") -> "vsan database"
      [] t[1] = "hostname" -> "hostname"
      [] t[1] = "zone" /\ t[2] = "name" -> IfVsan(t, 3, "zone name")
      [] t[1] = "zoneset" /\ t[2] = "name" -> IfVsan(t, 3, "zoneset name")
      [] t[1] = "zoneset" /\ t[2] = "activate" -> IfVsan(t, 4, "zoneset activate")
      [] t[1] \in {"end", "exit"} -> t[1]
      [] OTHER -> "refused"

\* No port is called mgmt0, so that "ip address" is refused
ConfigIfBranch(t) ==
    CASE t[1] \in {"shutdown", "exit"} -> t[1]
      [] t[1] \in {"no", "switchport", "ip"} /\ Len(t) = 1 -> "error"
      [] t[1] = "no" /\ t[2] = "shutdown" -> "no shutdown"
      [] t[1] = "switchport" /\ t[2] = "speed" ->
            IF Has(t, 3, "auto") THEN "speed" ELSE IfNumber(t, 3, "speed")
      [] t[1] = "switchport" /\ t[2] = "mode" -> IF Len(t) > 2 THEN "mode" ELSE "error"
      [] t[1] = "switchport" /\ t[2] = "trunk" ->
            IF Len(t) < 3 THEN "error"
            ELSE IF t[3] # "allowed" THEN "refused"
            ELSE IF Has(t, 4, "vsan") THEN IfNumber(t, 5, "allowed")
            ELSE IF Len(t) < 4 THEN "error" ELSE "refused"
      [] t[1] = "vsan" -> IfNumber(t, 2, "vsan of interface")
      [] OTHER -> "refused"

\* Wrong variant: the handler of the zoneset mode was copied from the zone's,
\* and asks for "pwwn"
Branch_NoMember(m, t) ==
    CASE m = "exec"           -> ExecBranch(t)
      [] m = "config"         -> ConfigBranch(t)
      [] m = "config_if"      -> ConfigIfBranch(t)
      [] t[1] = "exit"        -> "exit"
      [] m = "config_vsan_db" /\ t[1] = "vsan" -> IfNumber(t, 2, "create vsan")
      [] m = "config_zone"    /\ t[1] = "member" -> "member of zone"
      [] m = "config_zoneset" /\ t[1] = "member" /\ Has(t, 2, "pwwn") -> "member of zoneset"
      [] OTHER -> "refused"

Branch(m, t) ==
    CASE m = "exec"           -> ExecBranch(t)
      [] m = "config"         -> ConfigBranch(t)
      [] m = "config_if"      -> ConfigIfBranch(t)
      [] t[1] = "exit"        -> "exit"
      [] m = "config_vsan_db" /\ t[1] = "vsan" -> IfNumber(t, 2, "create vsan")
      [] m = "config_zone"    /\ t[1] = "member" -> "member of zone"
      [] m = "config_zoneset" /\ t[1] = "member" ->
            IF Len(t) > 1 THEN "member of zoneset" ELSE "error"
      [] OTHER -> "refused"

\* Where in the line t a branch finds the values it works with, 0 for the default
ValuesAt(branch, t) ==
    LET vsan == {k \in DOMAIN t : t[k] = "vsan"}
        v    == IF vsan = {} THEN 0 ELSE 1 + CHOOSE k \in vsan : \A j \in vsan : k <= j
    IN  CASE branch \in {"interface", "no such interface", "hostname", "vsan of interface",
                         "member of zoneset"} -> <<2>>
          [] branch \in {"show transceiver", "show interface trunk", "speed", "mode"} -> <<3>>
          [] branch \in {"zone name", "zoneset name"} -> <<3, v>>
          [] branch = "zoneset activate" -> <<4, v>>
          [] branch = "show zoneset" -> <<IF v = 0 THEN 0 ELSE 5>>
          [] branch = "allowed" -> <<5>>
          [] branch = "create vsan" -> <<2, IF Len(t) > 3 /\ t[3] = "name" THEN 4 ELSE 0>>
          [] branch = "member of zone" -> <<Len(t)>>
          [] OTHER -> <<>>

Stored(branch, t) ==
    LET at == ValuesAt(branch, t)
    IN  [i \in DOMAIN at |-> IF at[i] = 0 THEN "" ELSE t[at[i]]]

\* The mode a branch leads to
ModeAfter(m, branch) ==
    CASE branch = "configure"     -> "config"
      [] branch = "interface"     -> "config_if"
      [] branch = "vsan database" -> "config_vsan_db"
      [] branch = "zone name"     -> "config_zone"
      [] branch = "zoneset name"  -> "config_zoneset"
      [] branch \in {"end", "exit"} -> IF m = "config" THEN "exec" ELSE "config"
      [] OTHER -> m
=============================================================================
