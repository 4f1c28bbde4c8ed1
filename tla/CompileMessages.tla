--------------------------- MODULE CompileMessages ---------------------------
(***************************************************************************)
(* How a chat is cut down to what a model can take: the oldest messages go *)
(* first, a tool's result never stays without its call, and the last turn  *)
(* is always sent (core/llm/countTokens.ts, core/llm/messages.ts).         *)
(*                                                                         *)
(* A message has a role, a number of tokens, whether it is empty, the      *)
(* calls it makes (of an assistant) and the call it answers (of a tool).    *)
(***************************************************************************)
EXTENDS Integers, Sequences, SequencesExt

CONSTANTS Conversations,   \* the chats that are sent: sequences of messages
          Available        \* the tokens there may be for the messages, after the safety
                           \* buffer, the output, the tools and the system message

ASSUME ChatAssumption == \A msgs \in Conversations : msgs \in Seq(ToSet(msgs))

VARIABLES chat,       \* the messages given, without the system message
          available,  \* the tokens available
          known,      \* whether the context length is known
          compiled    \* [at, history, last]

compileVars == <<chat, available, known, compiled>>

IsTool(m) == m.role = "tool"
IsUserOrTool(m) == m.role \in {"user", "tool"}
HasCall(m, id) == m.role = "assistant" /\ id \in m.calls

\* A thinking message or a tool's result is never empty.
ChatMessageIsEmpty(m) == m.empty /\ m.role \in {"user", "assistant"} /\ m.calls = {}

\* The messages that are not empty.
Filled(msgs) ==
    LET kept[n \in 0..Len(msgs)] ==
            IF n = 0 THEN <<>>
            ELSE IF ChatMessageIsEmpty(msgs[n]) THEN kept[n - 1] ELSE Append(kept[n - 1], msgs[n])
    IN  kept[Len(msgs)]

TokensOf(msgs) == FoldLeft(LAMBDA n, m : n + m.tokens, 0, msgs)

\* Where the last turn begins: at a user's message, or at the message whose calls
\* the last results answer.
SequenceStart(msgs) ==
    LET n == Len(msgs)
        others == {i \in 1..n : ~IsTool(msgs[i])}
    IN  IF others = {} THEN 1 ELSE CHOOSE i \in others : \A j \in others : j <= i

\* extractToolSequence: whether it throws.  With no message before the results there
\* is nothing to compare them with, and they are sent as they are.
NoSequence(msgs) ==
    \/ msgs = <<>> \/ ~IsUserOrTool(Last(msgs))
    \/ LET first == SequenceStart(msgs)
       IN  /\ ~IsTool(msgs[first])
           /\ \E i \in (first + 1)..Len(msgs) : ~HasCall(msgs[first], msgs[i].id)

\* Mutant: the results of a message that was removed stay.
PruneOne(history, limit) ==
    LET Fits(k) == TokensOf(SubSeq(history, k, Len(history))) <= limit
        starts == {k \in 1..(Len(history) + 1) : k > Len(history) \/ Fits(k)}
    IN  SubSeq(history, CHOOSE k \in starts : \A j \in starts : k <= j, Len(history))

\* The pruning loop: while there are too many tokens the first message goes, and
\* with it the results that follow it.
Prune(history, limit) ==
    LET n == Len(history)
        \* The first message behind k that is no result.
        Next(k) == CHOOSE j \in (k + 1)..(n + 1) :
                      /\ j = n + 1 \/ ~IsTool(history[j])
                      /\ \A i \in (k + 1)..(j - 1) : IsTool(history[i])
        loop[k \in 1..(n + 1)] ==
            LET rest == SubSeq(history, k, n)
            IN  IF k = n + 1 \/ TokensOf(rest) <= limit THEN rest ELSE loop[Next(k)]
    IN  loop[1]

\* compileChatMessages.
Compile(msgs, limit, isKnown) ==
    LET full == Filled(msgs)
        first == SequenceStart(full)
        last == SubSeq(full, first, Len(full))
        left == limit - TokensOf(last)
    IN  IF NoSequence(full) \/ (isKnown /\ left < 0)
        THEN [at |-> "thrown", history |-> <<>>, last |-> <<>>]
        ELSE [at |-> "done", history |-> Prune(SubSeq(full, 1, first - 1), left), last |-> last]

CompileInit ==
    /\ chat \in Conversations /\ available \in Available /\ known \in BOOLEAN
    /\ compiled = [at |-> "begin", history |-> <<>>, last |-> <<>>]

CompileChat ==
    /\ compiled.at = "begin"
    /\ compiled' = Compile(chat, available, known)
    /\ UNCHANGED <<chat, available, known>>

CompileNext == CompileChat
CompileSpec == CompileInit /\ [][CompileNext]_compileVars

-----------------------------------------------------------------------------
(* Properties                                                              *)

CompileTypeOK == compiled.at \in {"begin", "done", "thrown"}

\* Every result follows the message that called for it, results of its other
\* calls in between at most.
Answered(msgs) ==
    \A i \in DOMAIN msgs : IsTool(msgs[i]) =>
        \E j \in 1..(i - 1) : HasCall(msgs[j], msgs[i].id) /\ \A k \in (j + 1)..(i - 1) : IsTool(msgs[k])

Sent == compiled.history \o compiled.last

\* Of a chat in which every result follows its call there is sent: no result
\* without its call; the last turn, entirely; of what came before the longest end
\* that has room and does not begin with a result.  These are three of the guidelines
\* above the code (countTokens.ts:385, 387, 388).  The other two steps described there
\* are not in the code, and IsSuffix says so: adjacent similar messages are sent as they
\* are, not flattened (:389, :398), and only empty messages are filtered (:394, :443):
\* of a chat that ends with an answer nothing is sent, the extraction throws (:228).
CompiledChatIsSound ==
    compiled.at = "done" /\ Answered(chat) =>
        LET full == Filled(chat)
            room == available - TokensOf(compiled.last)
            before == SubSeq(full, 1, Len(full) - Len(compiled.last))
            Fits(k) == TokensOf(SubSeq(before, k, Len(before))) <= room
        IN  /\ Answered(Sent)
            /\ IsSuffix(Sent, full) /\ \A i \in DOMAIN compiled.last : i > 1 => IsTool(compiled.last[i])
            /\ compiled.last[1].role = "user" \/ compiled.last[1].calls # {}
            /\ compiled.history # <<>> => TokensOf(compiled.history) <= room
            /\ \A k \in 1..(Len(before) - Len(compiled.history)) : Fits(k) => IsTool(before[k])

=============================================================================
