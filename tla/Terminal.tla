------------------------------ MODULE Terminal ------------------------------
(***************************************************************************)
(* One session typing at the prompt (handle_client of cli/ssh_server.py),  *)
(* while other sessions move the mode that all share.  The mode is read    *)
(* when a key is pressed, again when the words of a line are expanded, and *)
(* again when Dispatcher.execute chooses the handler.                      *)
(***************************************************************************)
EXTENDS CommandTree

CONSTANTS
    Value     \* [Placeholder -> STRING]: what is typed in the place of one

ASSUME ValueAssumption == DOMAIN Value = Placeholder

VARIABLES
    mode,     \* ctx.mode
    words,    \* the words of the line that are followed by a space
    partial,  \* the word that is being typed
    pending,  \* <<>>, or the line under way in execute: typed, expanded, mode
    answer    \* what the last line came to: typed, in, ran, branch

vars == <<mode, words, partial, pending, answer>>

NoAnswer == [typed |-> <<>>, in |-> "exec", ran |-> "exec", branch |-> "none"]

Line == IF partial = "" THEN words ELSE Append(words, partial)

Typing == pending = <<>> /\ answer.branch # "closed"

-----------------------------------------------------------------------------
Init ==
    /\ mode = "exec" /\ words = <<>> /\ partial = ""
    /\ pending = <<>> /\ answer = NoAnswer

\* A word that could follow; with Backspace, any part of one
Type ==
    /\ Typing /\ partial = ""
    /\ LET r == Resolution(mode, words)
       IN  /\ ~r.lost
           /\ \E k \in Children(mode, r.node) :
                 partial' = IF k \in Placeholder THEN Value[k] ELSE k
    /\ answer' = NoAnswer
    /\ UNCHANGED <<mode, words, pending>>

Space ==
    /\ Typing /\ partial # ""
    /\ words' = Append(words, partial) /\ partial' = ""
    /\ UNCHANGED <<mode, pending, answer>>

Backspace ==
    /\ Typing
    /\ IF partial # ""
       THEN /\ partial' = SubSeq(partial, 1, Len(partial) - 1)
            /\ words' = words
       ELSE /\ words # <<>>
            /\ words' = Front(words) /\ partial' = Last(words)
    /\ UNCHANGED <<mode, pending, answer>>

\* _common_prefix
CommonPrefix(S) ==
    LET k == CHOOSE k \in S : TRUE
        n == CHOOSE n \in 0..Len(k) :
                /\ \A w \in S : StartsWith(w, SubSeq(k, 1, n))
                /\ n = Len(k) \/ \E w \in S : ~StartsWith(w, SubSeq(k, 1, n + 1))
    IN  SubSeq(k, 1, n)

\* Wrong variant: the first match is written out
Completed_First(S) == <<CHOOSE k \in S : TRUE, TRUE>>

\* What becomes of the partial word, and whether a space follows
Completed(S) ==
    IF Cardinality(S) = 1 THEN <<CHOOSE k \in S : TRUE, TRUE>>
    ELSE <<CommonPrefix(S), FALSE>>

Tab ==
    /\ Typing /\ partial # ""
    /\ LET S == Offered(mode, words, partial)
           c == Completed(S)
       IN  /\ S # {}
           /\ words' = IF c[2] THEN Append(words, c[1]) ELSE words
           /\ partial' = IF c[2] THEN "" ELSE c[1]
    /\ UNCHANGED <<mode, pending, answer>>

Cleared == words' = <<>> /\ partial' = ""

\* Enter: exit and quit close the session in exec mode
Close ==
    /\ Typing
    /\ Line \in {<<"exit">>, <<"quit">>} /\ mode = "exec"
    /\ Cleared
    /\ answer' = [typed |-> Line, in |-> mode, ran |-> mode, branch |-> "closed"]
    /\ UNCHANGED <<mode, pending>>

\* Enter: execute expands the words in the tree of the mode it finds.  The look
\* at the mode that "exit" calls for comes a moment before; that a session moves
\* the mode to exec in between is left out: "exit" is then expanded to itself, and
\* run or refused, as here.
Enter ==
    /\ Typing /\ Line # <<>>
    /\ ~(Line \in {<<"exit">>, <<"quit">>} /\ mode = "exec")
    /\ Cleared
    /\ pending' = <<[typed |-> Line, tokens |-> Resolved(mode, Line), in |-> mode]>>
    /\ answer' = NoAnswer
    /\ UNCHANGED mode

\* ... and chooses the handler by the mode it finds then
Execute ==
    /\ pending # <<>>
    /\ LET p == pending[1]
           b == Branch(mode, p.tokens)
       IN  /\ answer' = [typed |-> p.typed, in |-> p.in, ran |-> mode, branch |-> b]
           /\ mode' = ModeAfter(mode, b)
    /\ pending' = <<>>
    /\ UNCHANGED <<words, partial>>

OtherSession ==
    /\ mode' \in Mode \ {mode}
    /\ UNCHANGED <<words, partial, pending, answer>>

Next ==
    \/ Type \/ Space \/ Backspace \/ Tab
    \/ Close \/ Enter \/ Execute
    \/ OtherSession

Spec == Init /\ [][Next]_vars

-----------------------------------------------------------------------------
(* Properties                                                              *)

\* Every variable has its type (buf and mode of handle_client)
TypeOK ==
    /\ mode \in Mode
    /\ words \in Seq(STRING)
    /\ partial \in STRING
    /\ Len(pending) <= 1
    /\ pending # <<>> => Len(pending[1].tokens) = Len(pending[1].typed)
    /\ answer.in \in Mode /\ answer.ran \in Mode

\* Branches that write more than the context
Writes == {"copy", "write erase", "reload", "hostname", "zone name", "zoneset name",
           "zoneset activate", "shutdown", "no shutdown", "speed", "mode", "allowed",
           "vsan of interface", "create vsan", "member of zone", "member of zoneset"}

\* What the line would do if it were entered now and nobody interfered; where it
\* writes, with all its words
Meaning(tokens) ==
    LET t == Resolved(mode, tokens)
        b == Branch(mode, t)
    IN  <<b, IF b \in Writes THEN t ELSE <<>>>>

\* Tab never changes what a line does: if it would have been carried out as it
\* stood, it is carried out in the same way after the completion, although the
\* completion looks at the tree in another way than the expansion does (_walk
\* knows no abbreviations and takes an abbreviated keyword for a value)
TabKeepsMeaning ==
    [][Tab /\ Meaning(Line)[1] \notin Refused => Meaning(Line') = Meaning(Line)]_vars

\* Described in the tree, and refused by every handler: "exit" in exec mode is
\* only understood in full, by the session itself; the startup configuration
\* cannot be shown; "ip address" needs an interface mgmt0, and there is none
Unhandled(m, node) ==
    \/ m = "exec" /\ node \in {<<"exit">>, <<"show", "startup-config">>}
    \/ m = "config_if" /\ node[1] = "ip"

\* Numbers are typed where the tree wants numbers
Fits(node, tokens) ==
    \A i \in DOMAIN node : node[i] \in {"<vsan-id>", "<vsan-list>"} => tokens[i] \in Number

\* The words of a line that stand for the placeholders of a path are those the
\* branch works with, for the two settings the word the path lists instead.  Not
\* so in "zoneset activate vsan V S", where V is taken for VSAN and zoneset, and S
\* for nothing (cli_claim_activate).
ValuesTaken(node, branch, t) ==
    \/ branch = "zoneset activate"
    \/ LET at == Range(ValuesAt(branch, t)) \ {0}
       IN  at = IF branch \in {"speed", "mode"} THEN {Len(node)}
                ELSE {i \in DOMAIN node : node[i] \in Placeholder}

\* A line that spells a path of the tree to its end, in whatever abbreviations,
\* with numbers where they belong, is understood by the handler, which takes its
\* values for what the tree calls them, unless another session has changed the
\* mode in between (the trees of command_tree.py, and the branches of the
\* handlers of dispatcher.py)
CompleteLinesUnderstood ==
    LET r == Resolution(answer.in, answer.typed)
    IN  /\ answer.branch \notin {"none", "closed"} /\ answer.in = answer.ran
        /\ ~r.lost /\ r.node \in Tree[answer.in] /\ Fits(r.node, answer.typed)
        => \/ Unhandled(answer.in, r.node)
           \/ /\ answer.branch \notin Refused
              /\ ValuesTaken(r.node, answer.branch, r.out)

\* The nodes of each tree
Nodes == [m \in Mode |-> UNION {{SubSeq(p, 1, n) : n \in 0..Len(p)} : p \in Tree[m]}]

\* The ways to read the words in the tree of mode m
Readings(m, tokens) ==
    {node \in Nodes[m] :
        /\ Len(node) = Len(tokens)
        /\ \A i \in DOMAIN tokens : node[i] \in Placeholder \/ StartsWith(node[i], tokens[i])}

\* The expansion is the reading the typist meant: where another reading parts
\* from it, either the word was typed in full or one of the two takes it for a
\* value; and if each word has but one reading after those before it, that is
\* the expansion (resolve_tokens, a greedy search)
AbbreviationsMean ==
    LET r == Resolution(mode, Line)
        others == Readings(mode, Line)
    IN  /\ ~r.lost => \A q \in others \ {r.node} :
              LET i == CHOOSE i \in DOMAIN q : q[i] # r.node[i] /\ \A j \in 1..(i - 1) : q[j] = r.node[j]
              IN  Line[i] = r.node[i] \/ q[i] \in Placeholder \/ r.node[i] \in Placeholder
        /\ Cardinality(others) = 1 /\ r.lost =>
              \E i \in DOMAIN Line :
                  Cardinality(Matches(mode, SubSeq(CHOOSE q \in others : TRUE, 1, i - 1), Line[i])) > 1

\* For each branch with a word that it looks for, or stores, further down the
\* line: where that word is
LooseWord ==
    [b \in {"zone name", "zoneset name", "zoneset activate", "create vsan", "speed",
            "mode", "member of zone", "member of zoneset"} |->
        CASE b \in {"zone name", "zoneset name"}              -> 4   \* vsan
          [] b \in {"zoneset activate", "create vsan"}         -> 3   \* vsan, name
          [] b \in {"speed", "mode"}                           -> 3   \* the value
          [] b \in {"member of zone", "member of zoneset"}     -> 2]  \* pwwn, a zone

\* Words expanded in the tree of one mode and run by the handler of another, as
\* Dispatcher.execute reads the mode twice: where they write, the line by itself
\* would have written the same in that other mode, except for one word of eight
\* branches, LooseWord, which the two trees expand differently.  Then the branch
\* is still the one of the line, or the line by itself is an error.  (With the
\* words of a mode that has no zones, "zone name Z v 10" makes Z in VSAN 1.)
CrossedLinesStoreTheSame ==
    LET crossed == Resolved(answer.in, answer.typed)
        own     == Resolved(answer.ran, answer.typed)
        b       == answer.branch
    IN  b \in Writes =>
            \/ Branch(answer.ran, own) = b /\ Stored(b, crossed) = Stored(b, own)
            \/ /\ Branch(answer.ran, own) \in {b, "error"}
               /\ b \in DOMAIN LooseWord
               /\ \E i \in DOMAIN own \intersect {LooseWord[b]} :
                      /\ crossed[i] # own[i]
                      /\ \A j \in DOMAIN own \ {i} : crossed[j] = own[j]
=============================================================================
