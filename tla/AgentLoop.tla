------------------------------ MODULE AgentLoop ------------------------------
(***************************************************************************)
(* The agent loop of the chat: the session slice of the GUI's store and    *)
(* the thunks that submit a message, stream the model's answer into the    *)
(* history, ask for permission, call tools and send their results back     *)
(* (gui/src/redux).  JavaScript runs one task at a time: an action is what *)
(* runs between two awaits, and everything the thunks await interleaves.   *)
(*                                                                         *)
(* A text is there or not.  A chunk brings text or deltas of tool calls,   *)
(* as fromChatCompletionChunk makes them: the first of each call, and      *)
(* fragments of its arguments.  Left out: reasoning messages, sessions     *)
(* loaded from disk, edit tools whose diff is reviewed, and the abort      *)
(* signal, which makes the core end a stream sooner.                       *)
(***************************************************************************)
EXTENDS Naturals, Sequences, FiniteSets

CONSTANTS
    Tools, Automatic,    \* see ToolLifecycle
    Limit           \* bound on what users do and on failures, by kind

Kinds == {"submit", "stop", "reject", "failure", "session", "trim"}

ASSUME LimitAssumption ==
    Limit \in [Kinds -> Nat] /\ IsFiniteSet(Tools) /\ Automatic \subseteq Tools

\* A stream is a run of streamNormalInput: one for each submitted message,
\* and at most one more for each tool call.
Streams == 1..(Limit["submit"] + Cardinality(Tools))
User == 0

VARIABLES
    session,    \* the slice: history, status of the tool calls, isStreaming
    at,         \* where each stream is
    input,      \* the index each stream was submitted for
    running,    \* the tool calls being executed
    maker,      \* the stream whose answer each call is from
    caller,     \* history: who called each tool, a stream or the user
    sent,       \* history: how often each result went back to the model with the
                \* results of its message
    stray,      \* history: the calls a fragment found otherwise than still being
                \* generated, in the last message
    spent       \* how much of Limit is used

deltas == <<maker, stray>>
ghosts == <<caller, sent>>
vars == <<session, at, input, running, deltas, ghosts, spent>>

\* A message makes tool calls, or (a tool's) answers one.
Item == [role : {"user", "assistant", "tool"}, text : BOOLEAN,
         tools : SUBSET Tools, answers : SUBSET Tools]
Message(role, text, tools) ==
    [role |-> role, text |-> text, tools |-> tools, answers |-> {}]
Result(t) == [role |-> "tool", text |-> TRUE, tools |-> {}, answers |-> {t}]

Slice(history, status, streaming) ==
    [history |-> history, status |-> status, streaming |-> streaming]

L == INSTANCE ToolLifecycle WITH status <- session.status

Session ==
    [history : Seq(Item), status : [Tools -> L!Statuses], streaming : BOOLEAN]

TypeOK ==
    /\ session \in Session
    /\ at \in [Streams -> {"idle", "context", "compile", "llm", "tools", "ended"}]
    /\ input \in [Streams -> Nat]
    /\ running \subseteq Tools
    /\ maker \in [Tools -> Streams \cup {User}] /\ stray \subseteq Tools
    /\ caller \in [Tools -> Streams \cup {User}]
    /\ sent \in [Tools -> Nat]
    /\ spent \in [Kinds -> Nat] /\ \A k \in Kinds : spent[k] <= Limit[k]

Init ==
    /\ session = Slice(<< >>, [t \in Tools |-> "unused"], FALSE)
    /\ at = [s \in Streams |-> "idle"]
    /\ input = [s \in Streams |-> 0]
    /\ running = {}
    /\ maker = [t \in Tools |-> User] /\ stray = {}
    /\ caller = [t \in Tools |-> User]
    /\ sent = [t \in Tools |-> 0]
    /\ spent = [k \in Kinds |-> 0]

May(kind) == spent[kind] < Limit[kind]
Spend(kind) == spent' = [spent EXCEPT ![kind] = @ + 1]

----------------------------------------------------------------------------
(* The history and what the selectors read from it *)

InHistory(ss, t) == \E i \in DOMAIN ss.history : t \in ss.history[i].tools
HasResult(ss, t) == \E i \in DOMAIN ss.history : t \in ss.history[i].answers
WithStatus(ss, tools, st) == {t \in tools : ss.status[t] = st}

\* The indices of a history that satisfy P, and the last of them or 0.
Where(h, P(_)) == {i \in DOMAIN h : P(h[i])}
LastOf(indices) ==
    IF indices = {} THEN 0 ELSE CHOOSE i \in indices : \A j \in indices : j <= i

HasTools(item) == item.role = "assistant" /\ item.tools # {}

\* The tool calls of the most recent assistant message that has some.
CurrentTools(ss) ==
    LET i == LastOf(Where(ss.history, HasTools))
    IN IF i = 0 THEN {} ELSE ss.history[i].tools

----------------------------------------------------------------------------
(* The reducers: from a session to the next one *)

SetActive(ss) == Slice(ss.history, ss.status, TRUE)
SetInactive(ss) == Slice(ss.history, ss.status, FALSE)

SetStatus(ss, tools, st) ==
    Slice(ss.history,
          [t \in Tools |-> IF t \in tools /\ InHistory(ss, t) THEN st ELSE ss.status[t]],
          ss.streaming)

\* A streamed message joins the last one of its role, unless it is a tool's.
Streamed(h, message) ==
    LET last == h[Len(h)]
        joined == IF message.text THEN [last EXCEPT !.text = TRUE]
                  ELSE [last EXCEPT !.tools = @ \cup message.tools]
    IN IF h = << >> THEN h
       ELSE IF message.role # last.role \/ message.role = "tool" THEN Append(h, message)
       ELSE [h EXCEPT ![Len(h)] = joined]

\* New tool calls are "generating".
StreamUpdate(ss, message) ==
    SetStatus(Slice(Streamed(ss.history, message), ss.status, ss.streaming),
              message.tools, "generating")

UserOrTool(item) == item.role \in {"user", "tool"}

\* Whether clearDanglingMessages keeps an assistant message.
Valid(ss, item) ==
    item.text \/ \E t \in item.tools : ss.status[t] # "generating"

ClearDangling(ss) ==
    LET h == ss.history
        last == LastOf(Where(h, UserOrTool))
        valid == LastOf({i \in DOMAIN h : i > last /\ Valid(ss, h[i])})
        pending == WithStatus(ss, h[valid].tools, "generated")
        cut == IF h[last].role = "user" THEN last - 1 ELSE last
    IN IF Len(h) < 2 THEN ss
       ELSE IF valid # 0
            THEN Slice(SubSeq(h, 1, valid), SetStatus(ss, pending, "canceled").status,
                       ss.streaming)
       ELSE Slice(SubSeq(h, 1, cut), ss.status, ss.streaming)

CancelStream(ss) == ClearDangling(SetInactive(ss))

SubmitAt(ss, i) ==
    LET kept == IF i <= Len(ss.history)
                THEN Append(SubSeq(ss.history, 1, i - 1),
                            [ss.history[i] EXCEPT !.text = FALSE])
                ELSE Append(ss.history, Message("user", FALSE, {}))
    IN Slice(Append(kept, Message("assistant", FALSE, {})), ss.status, TRUE)

\* Mutant: a message that was not there is written without the rest of an item.
Updated_halfMade(h, i) ==
    IF i <= Len(h)
    THEN [h EXCEPT ![i] = [@ EXCEPT !.role = "user", !.text = TRUE, !.answers = {}]]
    ELSE Append(h, [role |-> "user", text |-> TRUE])

\* The message is replaced, not the calls it made.  Index 1 is written even where
\* no message is.
Updated(h, i) ==
    IF i <= Len(h)
    THEN [h EXCEPT ![i] = [@ EXCEPT !.role = "user", !.text = TRUE, !.answers = {}]]
    ELSE IF i = 1 THEN <<Message("user", TRUE, {})>>
    ELSE h

UpdateItem(ss, i) == Slice(Updated(ss.history, i), ss.status, ss.streaming)

----------------------------------------------------------------------------
(* A stream: streamResponseThunk and streamNormalInput *)

NextStream == CHOOSE s \in Streams :
                  at[s] = "idle" /\ \A r \in Streams : at[r] = "idle" => s <= r

Go(s, place) == at' = [at EXCEPT ![s] = place]

\* A message is submitted, a new one or an earlier one again: what still
\* waits for permission is canceled, and the context is gathered.
Submit(i) ==
    /\ ~session.streaming /\ May("submit")
    /\ \/ i = Len(session.history) + 1
       \/ i \in DOMAIN session.history /\ session.history[i].role = "user"
    /\ session' =
          LET pending == WithStatus(session, CurrentTools(session), "generated")
          IN SubmitAt(SetStatus(session, pending, "canceled"), i)
    /\ Go(NextStream, "context")
    /\ input' = [input EXCEPT ![NextStream] = i]
    /\ Spend("submit")
    /\ UNCHANGED <<running, deltas, ghosts>>

\* The content is resolved and the messages go to "llm/compileChat".
Resolve(s) ==
    /\ at[s] = "context"
    /\ session' = SetActive(UpdateItem(session, input[s]))
    /\ Go(s, "compile")
    /\ UNCHANGED <<input, running, deltas, ghosts, spent>>

StartLLM(s) ==
    /\ at[s] = "compile"
    /\ Go(s, "llm")
    /\ UNCHANGED <<session, input, running, deltas, ghosts, spent>>

\* "Not enough context": no more than an inline error.
TooLong(s) ==
    /\ at[s] = "compile" /\ May("failure")
    /\ session' = SetInactive(session)
    /\ Go(s, "ended")
    /\ Spend("failure")
    /\ UNCHANGED <<input, running, deltas, ghosts>>

\* A chunk of text, or of the first deltas of the tool calls made.
Chunk(s, text, made) ==
    /\ at[s] = "llm" /\ session.streaming
    /\ text <=> made = {}
    /\ made \subseteq WithStatus(session, Tools, "unused")
    /\ session' = StreamUpdate(session, Message("assistant", text, made))
    /\ maker' = [t \in Tools |-> IF t \in made THEN s ELSE maker[t]]
    /\ UNCHANGED <<at, input, running, stray, ghosts, spent>>

\* A fragment of the call t, which the stream s made.  It names t, or no call and
\* is taken for one of the last message.  The call u it is for is "generating"
\* from then on, and in the last message, whatever had become of it.
LaterDelta(s, t, u) ==
    LET h == session.history
    IN /\ at[s] = "llm" /\ session.streaming /\ maker[t] = s
       /\ \/ u = t
          \/ h # << >> /\ HasTools(h[Len(h)]) /\ u \in h[Len(h)].tools
       /\ session' = StreamUpdate(session, Message("assistant", FALSE, {u}))
       /\ stray' = IF session' = session THEN stray ELSE stray \cup {u}
       /\ UNCHANGED <<at, input, running, maker, ghosts, spent>>

\* Mutant: isStreaming is cleared although automatic calls follow.
Finish_alwaysInactive(s) ==
    LET made == WithStatus(session, CurrentTools(session), "generating")
        auto == made # {} /\ made \subseteq Automatic
    IN /\ at[s] = "llm"
       /\ session' = SetStatus(SetInactive(session), made,
                               IF auto THEN "calling" ELSE "generated")
       /\ Go(s, IF auto THEN "tools" ELSE "ended")
       /\ running' = running \cup (IF auto THEN made ELSE {})
       /\ caller' = [t \in Tools |-> IF auto /\ t \in made THEN s ELSE caller[t]]
       /\ UNCHANGED <<input, deltas, sent, spent>>

\* Mutant: isStreaming is only cleared when there are calls to wait for.
Finish_staysActive(s) ==
    LET made == WithStatus(session, CurrentTools(session), "generating")
        auto == made \subseteq Automatic
    IN /\ at[s] = "llm"
       /\ session' = IF auto THEN SetStatus(session, made, "calling")
                     ELSE SetStatus(SetInactive(session), made, "generated")
       /\ Go(s, IF auto THEN "tools" ELSE "ended")
       /\ running' = running \cup (IF auto THEN made ELSE {})
       /\ caller' = [t \in Tools |-> IF auto /\ t \in made THEN s ELSE caller[t]]
       /\ UNCHANGED <<input, deltas, sent, spent>>

\* The stream ends, or is given up because isStreaming is false by its next
\* chunk.  The tool calls then are called if all are automatic, and else
\* wait for permission.
Finish(s) ==
    LET made == WithStatus(session, CurrentTools(session), "generating")
        auto == made # {} /\ made \subseteq Automatic
    IN /\ at[s] = "llm"
       /\ session' = IF auto THEN SetStatus(session, made, "calling")
                     ELSE SetStatus(SetInactive(session), made, "generated")
       /\ Go(s, IF auto THEN "tools" ELSE "ended")
       /\ running' = running \cup (IF auto THEN made ELSE {})
       /\ caller' = [t \in Tools |-> IF auto /\ t \in made THEN s ELSE caller[t]]
       /\ UNCHANGED <<input, deltas, sent, spent>>

\* An error while the context is gathered, the messages are compiled or the
\* answer is streamed: streamThunkWrapper cancels the stream.
Fail(s) ==
    /\ at[s] \in {"context", "compile", "llm"} /\ May("failure")
    /\ session' = CancelStream(session)
    /\ Go(s, "ended")
    /\ Spend("failure")
    /\ UNCHANGED <<input, running, deltas, ghosts>>

----------------------------------------------------------------------------
(* The tool calls: callToolById and streamResponseAfterToolCall *)

\* Mutant: a call may be accepted while it runs.
Accept_whileCalling(t) ==
    /\ \E st \in {"generated", "calling", "done"} :
          t \in WithStatus(session, CurrentTools(session), st)
    /\ session' = SetStatus(session, {t}, "calling")
    /\ running' = running \cup {t}
    /\ caller' = [caller EXCEPT ![t] = User]
    /\ UNCHANGED <<at, input, deltas, sent, spent>>

Accept(t) ==
    /\ t \in WithStatus(session, CurrentTools(session), "generated")
    /\ session' = SetStatus(session, {t}, "calling")
    /\ running' = running \cup {t}
    /\ caller' = [caller EXCEPT ![t] = User]
    /\ UNCHANGED <<at, input, deltas, sent, spent>>

Reject(t) ==
    /\ t \in WithStatus(session, CurrentTools(session), "generated")
    /\ May("reject")
    /\ session' = SetStatus(session, {t}, "canceled")
    /\ Spend("reject")
    /\ UNCHANGED <<at, input, running, deltas, ghosts>>

\* The calls made in the same message as t.
Siblings(ss, t) ==
    UNION {ss.history[i].tools :
              i \in Where(ss.history, LAMBDA item : t \in item.tools
                                                    /\ item.role = "assistant")}

\* Mutants: any result goes back at once; calls that erred never count.
AllDone_notAwaited(ss, tools) == \E t \in tools : ss.status[t] \in {"done", "errored"}
AllDone_onlyDone(ss, tools) == \A t \in tools : ss.status[t] = "done"

AllDone(ss, tools) == \A t \in tools : ss.status[t] \in {"done", "errored"}

\* The tool returns: its result is put in the history, and sent to the model by a
\* new stream, with the results of its message that are still in the history, once
\* all the calls of its message have returned, or when no message has it any more.
ToolResult(t, outcome) ==
    LET filled == StreamUpdate(SetStatus(session, {t}, outcome), Result(t))
        batch == Siblings(filled, t)
    IN /\ t \in running /\ outcome \in {"done", "errored"}
       /\ running' = running \ {t}
       /\ IF ~InHistory(session, t)
          THEN UNCHANGED <<session, at, sent>>
          ELSE IF AllDone(filled, batch)
          THEN /\ session' = SetActive(filled)
               /\ Go(NextStream, "compile")
               /\ sent' = [u \in Tools |->
                     IF u \in batch \cup {t} /\ HasResult(filled, u) THEN sent[u] + 1 ELSE sent[u]]
          ELSE session' = filled /\ UNCHANGED <<at, sent>>
       /\ UNCHANGED <<input, deltas, caller, spent>>

\* The call itself fails.  The stream that made it, if one still waits for
\* its tools, is canceled; no one handles the failure of an accepted call.
ToolFails(t) ==
    LET s == caller[t]
        handled == s # User /\ at[s] = "tools"
    IN /\ t \in running /\ May("failure")
       /\ running' = running \ {t}
       /\ IF handled THEN session' = CancelStream(session) /\ Go(s, "ended")
          ELSE UNCHANGED <<session, at>>
       /\ Spend("failure")
       /\ UNCHANGED <<input, deltas, ghosts>>

----------------------------------------------------------------------------
(* What else the user may do *)

Stop ==
    /\ May("stop")
    /\ session' = CancelStream(session)
    /\ Spend("stop")
    /\ UNCHANGED <<at, input, running, deltas, ghosts>>

NewSession ==
    /\ May("session")
    /\ session' = Slice(<< >>, session.status, FALSE)
    /\ Spend("session")
    /\ UNCHANGED <<at, input, running, deltas, ghosts>>

Empty(item) == item.role # "tool" /\ ~item.text /\ item.tools = {}

\* The chat is trimmed to a message with a call that has some output, unless
\* only empty messages follow; calls may still run.
TruncateHistoryToMessage(i) ==
    LET h == session.history
    IN /\ i \in DOMAIN h /\ HasTools(h[i])
       /\ \E t \in h[i].tools : session.status[t] \in {"calling", "done", "errored"}
       /\ LastOf({j \in DOMAIN h : ~Empty(h[j])}) # i
       /\ ~session.streaming /\ May("trim")
       /\ session' = Slice(Append(SubSeq(h, 1, i), Message("assistant", FALSE, {})),
                           session.status, FALSE)
       /\ Spend("trim")
       /\ UNCHANGED <<at, input, running, deltas, ghosts>>

\* The last message of an answer is deleted, with the one before it, whatever
\* that is, a result too.
DeleteMessage(i) ==
    LET h == session.history
    IN /\ i \in DOMAIN h /\ h[i].role = "assistant"
       /\ IF i = Len(h) THEN h[i].tools = {} ELSE h[i + 1].role = "user"
       /\ ~session.streaming /\ May("trim")
       /\ session' = Slice(SubSeq(h, 1, i - 2) \o SubSeq(h, i + 1, Len(h)),
                           session.status, FALSE)
       /\ Spend("trim")
       /\ UNCHANGED <<at, input, running, deltas, ghosts>>

Step ==
    \/ \E i \in 1..(Len(session.history) + 1) :
          Submit(i) \/ TruncateHistoryToMessage(i) \/ DeleteMessage(i)
    \/ \E s \in Streams :
          \/ Resolve(s) \/ StartLLM(s) \/ TooLong(s) \/ Finish(s) \/ Fail(s)
          \/ \E text \in BOOLEAN, made \in SUBSET Tools : Chunk(s, text, made)
          \/ \E t, u \in Tools : LaterDelta(s, t, u)
    \/ \E t \in Tools :
          \/ Accept(t) \/ Reject(t) \/ ToolFails(t)
          \/ \E outcome \in {"done", "errored"} : ToolResult(t, outcome)
    \/ Stop \/ NewSession

\* A bound: the first fragment that goes astray is the last step.  From then on a
\* call may be in two messages, with a status in each.
Next == stray = {} /\ Step

Spec == Init /\ [][Next]_vars

\* Every request the thunks await is answered: a stream that is open ends,
\* and a tool returns or fails.  Users need not do anything.
Fairness ==
    /\ \A s \in Streams :
          /\ WF_vars(stray = {} /\ Resolve(s))
          /\ WF_vars(stray = {} /\ StartLLM(s))
          /\ WF_vars(stray = {} /\ Finish(s))
    /\ \A t \in Tools :
          WF_vars(stray = {} /\ \E outcome \in {"done", "errored"} : ToolResult(t, outcome))

FairSpec == Spec /\ Fairness

----------------------------------------------------------------------------
(* Properties *)

\* A tool call lives the life ToolStatus describes, whatever interleaves: it
\* is called at most once, only with permission or when automatic, and never
\* after it was canceled.  That is so until a fragment of a call finds it already
\* generated, called or in an earlier message, which a stream that outlives a
\* stop, or a result that comes between two fragments, can bring about: the
\* fragment makes the call "generating" again, to be called again.
Lifecycle == L!Init /\ [][stray' = {} => L!Next]_(session.status)

\* A result is sent back to the model at most once: whichever of parallel calls
\* returns last, whatever is stopped, submitted or trimmed while they run, and
\* whatever a stream that ends late adds to the message
\* (streamResponseAfterToolCall.ts:74), but for calls made again as above.
SentOnce == stray = {} => \A t \in Tools : sent[t] <= 1

Active == {s \in Streams : at[s] \in {"context", "compile", "llm"}}

\* One answer at a time is streamed into the history.
StreamsDoNotOverlap == Cardinality(Active) <= 1

\* isStreaming, which keeps the user from submitting, says exactly that an
\* answer is on its way or that an automatic tool call runs.
StreamingMeansBusy ==
    session.streaming <=>
        Active # {} \/ \E t \in running : caller[t] # User /\ session.status[t] = "calling"

\* Once all calls of a message have returned, what they returned has gone back
\* to the model, exactly once, whichever of them came last.
Returned(ss, t) == ss.status[t] \in {"done", "errored"}
ResultsAreSent ==
    \A t \in Tools :
        InHistory(session, t) /\ (\A u \in Siblings(session, t) : Returned(session, u))
        => sent[t] = 1

\* A cancellation leaves no tool call half generated.
DanglingCleared ==
    [][spent'["stop"] > spent["stop"] =>
          \A t \in Tools :
              InHistory(session', t) => session'.status[t] # "generating"]_vars

\* The user can always submit again in the end.
StreamingEnds == session.streaming ~> ~session.streaming
============================================================================
