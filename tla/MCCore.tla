------------------------------- MODULE MCCore -------------------------------
(* Components of the core and of the editor that do not meet: each behaviour *)
(* is one of the component it is focused on, and the others are at rest.     *)
EXTENDS StreamReuse, VerticalDiff, CompileMessages, McpConnection

CONSTANTS a, nl, x, y, z
VARIABLE focus

MCTypings == {<<a>>, <<a, a>>, <<a, nl>>}

\* Lines x and y are alike; an x may be indented.
L(text, indent) == [text |-> text, indent |-> indent]
MCLine == {L(x, 0), L(x, 1), L(y, 0), Empty}
MCAlike == {<<x, y>>, <<y, x>>}
MCFiles == {[before |-> <<L(z, 0)>>, lines |-> lines, after |-> after] :
               lines \in SeqOf(MCLine, 3) \ {<<>>}, after \in {<<>>, <<L(z, 0)>>}}
MCNews == SeqOf(MCLine, 2)

M(role, tokens, empty, made, id) ==
    [role |-> role, tokens |-> tokens, empty |-> empty, calls |-> made, id |-> id]
MCMessage == {M("user", 2, FALSE, {}, 0),
              M("assistant", 1, FALSE, {}, 0), M("assistant", 1, TRUE, {}, 0),
              M("assistant", 1, TRUE, {1, 2}, 0), M("thinking", 1, TRUE, {}, 0),
              M("tool", 1, TRUE, {}, 1), M("tool", 2, FALSE, {}, 2)}
MCConversations == SeqOf(MCMessage, 4) \cup {s \in SeqOf(MCMessage, 5) : Answered(s)}

Init ==
    /\ focus \in {"stream", "diff", "compile", "mcp"}
    /\ StreamInit /\ McpInit
    /\ IF focus = "diff" THEN DiffInit
       ELSE DiffBegins([before |-> <<>>, lines |-> <<Empty>>, after |-> <<>>], <<>>)
    /\ IF focus = "compile" THEN CompileInit
       ELSE /\ chat = <<>> /\ available = 0 /\ known = TRUE
            /\ compiled = [at |-> "begin", history |-> <<>>, last |-> <<>>]

Next ==
    \/ focus = "stream" /\ StreamNext /\ UNCHANGED <<focus, diffVars, compileVars, mcpVars>>
    \/ focus = "diff" /\ DiffNext /\ UNCHANGED <<focus, streamVars, compileVars, mcpVars>>
    \/ focus = "compile" /\ CompileNext /\ UNCHANGED <<focus, streamVars, diffVars, mcpVars>>
    \/ focus = "mcp" /\ McpNext /\ UNCHANGED <<focus, streamVars, diffVars, compileVars>>

Spec == /\ Init /\ [][Next]_<<focus, streamVars, diffVars, compileVars, mcpVars>>
        /\ (focus = "stream" => StreamFairness) /\ (focus = "mcp" => McpFairness)

(* The types of the four components' states. *)
TypeOK == StreamTypeOK /\ DiffTypeOK /\ CompileTypeOK /\ McpTypeOK
=============================================================================
