----------------------------- MODULE ChatServer -----------------------------
(***************************************************************************)
(* The headless server of the command-line agent: the message queue and    *)
(* its loop (extensions/cli/src/commands/serve.ts), the conversation loop  *)
(* (streamChatResponse.ts, streamChatResponse.helpers.ts) and the retries  *)
(* of its requests (util/exponentialBackoff.ts).                           *)
(*                                                                         *)
(* An action is what runs between two awaits.  Of the history the model    *)
(* keeps the user's messages (taken) and the tool calls that have no       *)
(* result yet (open).                                                      *)
(***************************************************************************)
EXTENDS Naturals, Sequences, SequencesExt

CONSTANTS MaxMessages,   \* bound: messages posted
          MaxRetries,    \* maxRetries of withExponentialBackoff
          Call           \* names for the tool calls of a response

ASSUME RetriesAssumption == MaxRetries \in Nat

VARIABLES
    posted,           \* how many messages were posted: they are 1..posted
    messageQueue, isProcessing, shouldInterrupt, serverRunning,
    aborted,          \* the signal of currentAbortController
    exited,           \* process.exit() was called
    taken,            \* the user's messages in chatHistory
    open,             \* the calls in chatHistory without a result there
    at,               \* where the conversation loop awaits
    attempt,          \* of withExponentialBackoff
    text,             \* aiResponse is not empty
    toolCalls,        \* toolCallsMap: call |-> its arguments are complete
    pulse,            \* flips with each chunk, so that an endless stream takes steps
    remaining,        \* the preprocessed calls not handled yet
    results,          \* chatHistoryEntries: the calls that have an entry there
    hasRejection,
    abandoned         \* history variable: some batch was given up, its calls left
                      \* in the history without results

loopVars == <<at, attempt, text, toolCalls, pulse, remaining, results, hasRejection, open, abandoned>>
chatVars == <<posted, messageQueue, isProcessing, shouldInterrupt, serverRunning, aborted,
              exited, taken, loopVars>>

NoCalls == [c \in {} |-> TRUE]

ChatTypeOK ==
    /\ posted \in Nat
    /\ messageQueue \in Seq(1..posted) /\ taken \in Seq(1..posted)
    /\ {isProcessing, shouldInterrupt, serverRunning, aborted, exited, text, pulse,
        hasRejection, abandoned} \subseteq BOOLEAN
    /\ at \in {"idle", "request", "stream", "backoff", "preprocess", "tools"}
    /\ attempt \in 0..MaxRetries
    /\ toolCalls \in UNION {[C -> BOOLEAN] : C \in SUBSET Call}
    /\ open \subseteq Call /\ remaining \subseteq Call /\ results \subseteq Call
    /\ isProcessing <=> at # "idle"

ChatInit ==
    /\ posted = 0 /\ messageQueue = <<>> /\ taken = <<>>
    /\ isProcessing = FALSE /\ shouldInterrupt = FALSE /\ aborted = FALSE
    /\ serverRunning = TRUE /\ exited = FALSE
    /\ at = "idle" /\ attempt = 0 /\ text = FALSE /\ pulse = FALSE /\ toolCalls = NoCalls
    /\ open = {} /\ remaining = {} /\ results = {}
    /\ hasRejection = FALSE /\ abandoned = FALSE

-----------------------------------------------------------------------------
(* processMessages                                                         *)

\* An iteration of streamChatResponse begins: a request with a fresh response.
NewRequest ==
    /\ at' = "request" /\ attempt' = 0 /\ text' = FALSE /\ toolCalls' = NoCalls
    /\ remaining' = {} /\ results' = {} /\ hasRejection' = FALSE

\* An iteration of the loop takes the next message, with a new abort controller.
Take(q, interrupt) ==
    /\ messageQueue' = Tail(q)
    /\ taken' = Append(taken, Head(q))
    /\ isProcessing' = TRUE /\ shouldInterrupt' = interrupt /\ aborted' = FALSE
    /\ NewRequest

\* Mutant: without the finally block.
RestStillProcessing(q) ==
    /\ messageQueue' = q
    /\ isProcessing' = isProcessing /\ aborted' = FALSE
    /\ at' = "idle" /\ attempt' = 0 /\ text' = FALSE /\ toolCalls' = NoCalls
    /\ remaining' = {} /\ results' = {} /\ hasRejection' = FALSE
    /\ UNCHANGED <<taken, shouldInterrupt>>

Rest(q) ==
    /\ messageQueue' = q
    /\ isProcessing' = FALSE /\ aborted' = FALSE
    /\ at' = "idle" /\ attempt' = 0 /\ text' = FALSE /\ toolCalls' = NoCalls
    /\ remaining' = {} /\ results' = {} /\ hasRejection' = FALSE
    /\ UNCHANGED <<taken, shouldInterrupt>>

\* Mutant: the interrupt flag of the answer before is kept.
NextMessageKeepingInterrupt(q) ==
    IF q # <<>> /\ serverRunning THEN Take(q, shouldInterrupt) ELSE Rest(q)

\* Mutant: one message for each call of processMessages.
NextMessageOnce(q) ==
    IF q # <<>> /\ serverRunning /\ ~isProcessing THEN Take(q, FALSE) ELSE Rest(q)

\* The head of the loop, with the queue q: the next message, or the end.  The
\* finally block of the message before ran in the same step.
NextMessage(q) ==
    IF q # <<>> /\ serverRunning THEN Take(q, FALSE) ELSE Rest(q)

\* A message has been added to the queue, which is now q.
Posted(q) ==
    /\ ~exited /\ posted < MaxMessages
    /\ posted' = posted + 1
    /\ IF isProcessing
       THEN /\ shouldInterrupt' = TRUE
            /\ messageQueue' = q
            /\ UNCHANGED <<isProcessing, aborted, taken, loopVars>>
       ELSE NextMessage(q) /\ UNCHANGED <<open, abandoned, pulse>>
    /\ UNCHANGED <<serverRunning, exited>>

\* Mutant: a message goes before those that wait.
PostFirst == Posted(<<posted + 1>> \o messageQueue)

\* POST /message
Post == Posted(Append(messageQueue, posted + 1))

\* The interval of streamChatResponseWithInterruption.
CheckInterruption ==
    /\ ~exited /\ isProcessing
    /\ shouldInterrupt /\ ~aborted
    /\ aborted' = TRUE
    /\ UNCHANGED <<posted, messageQueue, isProcessing, shouldInterrupt, serverRunning, exited,
                   taken, loopVars>>

\* POST /exit: a moment later the process is gone.
ExitRequest ==
    /\ ~exited /\ serverRunning
    /\ serverRunning' = FALSE
    /\ aborted' = isProcessing
    /\ messageQueue' = <<>>
    /\ UNCHANGED <<posted, isProcessing, shouldInterrupt, exited, taken, loopVars>>

ProcessExit ==
    /\ ~exited /\ ~serverRunning
    /\ exited' = TRUE
    /\ UNCHANGED <<posted, messageQueue, isProcessing, shouldInterrupt, serverRunning, aborted,
                   taken, loopVars>>

\* Nothing for as long as the timeout: nobody is processing.
InactivityShutdown ==
    /\ ~exited /\ serverRunning /\ ~isProcessing
    /\ serverRunning' = FALSE
    /\ UNCHANGED <<posted, messageQueue, isProcessing, shouldInterrupt, aborted, exited,
                   taken, loopVars>>

-----------------------------------------------------------------------------
(* processStreamingResponse and withExponentialBackoff                     *)

InLoop(where) == ~exited /\ at = where

OutsideUnchanged ==
    UNCHANGED <<posted, messageQueue, isProcessing, shouldInterrupt, serverRunning, aborted,
                exited, taken>>

\* The answer is over: back to the loop of processMessages.
EndAnswer ==
    /\ NextMessage(messageQueue)
    /\ UNCHANGED <<posted, serverRunning, exited>>

\* An aborted request gives its text and no calls.
Aborted ==
    /\ aborted
    /\ EndAnswer
    /\ UNCHANGED <<open, abandoned, pulse>>

\* A request is made unless it was aborted before; a retry may find that too.
SendRequest ==
    /\ InLoop("request")
    /\ \/ Aborted
       \/ /\ ~aborted
          /\ at' = "stream"
          /\ UNCHANGED <<attempt, text, toolCalls, pulse, remaining, results, hasRejection, open, abandoned>>
          /\ OutsideUnchanged

\* The calls whose arguments are complete.
ValidCalls == {c \in DOMAIN toolCalls : toolCalls[c]}

\* A chunk: text, or a piece of a tool call.
Receive ==
    /\ pulse' = ~pulse
    /\ \/ text' = TRUE /\ UNCHANGED toolCalls
       \/ \E c \in Call \ ValidCalls, complete \in BOOLEAN :
             /\ toolCalls' = [x \in DOMAIN toolCalls \cup {c} |->
                                 IF x = c THEN complete ELSE toolCalls[x]]
             /\ UNCHANGED text
    /\ UNCHANGED <<at, attempt, remaining, results, hasRejection, open, abandoned>>
    /\ OutsideUnchanged

\* Mutant: the signal is only looked at between requests.
ChunkWhateverSignal == InLoop("stream") /\ Receive

\* The abort signal is looked at before a chunk is passed on.
Chunk == InLoop("stream") /\ IF aborted THEN Aborted ELSE Receive

\* The stream breaks: a retry after a delay, which keeps what has arrived, or an
\* error message in the history.
StreamBreaks ==
    /\ InLoop("stream")
    /\ \/ Aborted
       \/ /\ ~aborted /\ attempt < MaxRetries
          /\ at' = "backoff" /\ attempt' = attempt + 1
          /\ UNCHANGED <<text, toolCalls, pulse, remaining, results, hasRejection, open, abandoned>>
          /\ OutsideUnchanged
       \/ /\ ~aborted
          /\ EndAnswer
          /\ UNCHANGED <<open, abandoned, pulse>>

Retry ==
    /\ InLoop("backoff")
    /\ at' = "request"
    /\ UNCHANGED <<attempt, text, toolCalls, pulse, remaining, results, hasRejection, open, abandoned>>
    /\ OutsideUnchanged

\* The stream is over, aborted or not: an answer without calls is the last one of
\* the conversation, else the calls go into the history.
StreamEnds ==
    /\ InLoop("stream")
    /\ IF ValidCalls = {}
       THEN EndAnswer /\ UNCHANGED <<open, abandoned, pulse>>
       ELSE /\ at' = "preprocess"
            /\ open' = open \cup ValidCalls
            /\ remaining' = ValidCalls
            /\ UNCHANGED <<attempt, text, toolCalls, pulse, results, hasRejection, abandoned>>
            /\ OutsideUnchanged

-----------------------------------------------------------------------------
(* handleToolCalls and executeStreamedToolCalls                            *)

\* Calls of unknown tools, or with bad arguments, have an error for a result.
Preprocess ==
    /\ InLoop("preprocess")
    /\ \E bad \in SUBSET remaining :
          /\ open' = open \ bad
          /\ remaining' = remaining \ bad
    /\ at' = "tools"
    /\ UNCHANGED <<attempt, text, toolCalls, pulse, results, hasRejection, abandoned>>
    /\ OutsideUnchanged

\* The tools cannot be listed: the MCP service failed to load, or one of its tools
\* has no properties.  The error ends the answer, with the calls in the history.
ToolsMissing ==
    /\ InLoop("preprocess")
    /\ EndAnswer /\ abandoned' = TRUE /\ UNCHANGED <<open, pulse>>

\* Mutant: a tool that throws leaves no entry.
ToolReturnsOrThrows(c) ==
    /\ InLoop("tools") /\ ~hasRejection
    /\ remaining' = remaining \ {c}
    /\ results' \in {results, results \cup {c}}
    /\ UNCHANGED <<at, attempt, text, toolCalls, pulse, hasRejection, open, abandoned>>
    /\ OutsideUnchanged

\* A tool that is allowed returns, or throws: both are results.
ToolReturns(c) ==
    /\ InLoop("tools") /\ ~hasRejection
    /\ remaining' = remaining \ {c}
    /\ results' = results \cup {c}
    /\ UNCHANGED <<at, attempt, text, toolCalls, pulse, hasRejection, open, abandoned>>
    /\ OutsideUnchanged

\* A policy excludes the call: it is denied, and the rest of the batch canceled.
ToolDenied(c) ==
    /\ InLoop("tools") /\ ~hasRejection
    /\ hasRejection' = TRUE
    /\ results' = results \cup remaining
    /\ remaining' = {}
    /\ UNCHANGED <<at, attempt, text, toolCalls, pulse, open, abandoned>>
    /\ OutsideUnchanged

\* A policy asks, and nobody is there to be asked: handleHeadlessPermission.
ToolAsks(c) ==
    /\ InLoop("tools") /\ ~hasRejection
    /\ exited' = TRUE
    /\ UNCHANGED <<posted, messageQueue, isProcessing, shouldInterrupt, serverRunning, aborted,
                   taken, loopVars>>

\* The batch is done: its results go into the history and back to the model,
\* unless a call was rejected, which ends a headless answer at once.
ToolsDone ==
    /\ InLoop("tools") /\ remaining = {}
    /\ IF hasRejection
       THEN EndAnswer /\ abandoned' = TRUE /\ UNCHANGED <<open, pulse>>
       ELSE NewRequest /\ open' = open \ results /\ UNCHANGED <<abandoned, pulse>> /\ OutsideUnchanged

-----------------------------------------------------------------------------
HandleCall(c) == ToolReturns(c) \/ ToolDenied(c) \/ ToolAsks(c)

ChatNext ==
    \/ Post \/ CheckInterruption \/ ExitRequest \/ ProcessExit \/ InactivityShutdown
    \/ SendRequest \/ Chunk \/ StreamBreaks \/ Retry \/ StreamEnds
    \/ Preprocess \/ ToolsMissing \/ ToolsDone
    \/ \E c \in remaining : ToolReturns(c) \/ ToolDenied(c) \/ ToolAsks(c)

ChatSpec == ChatInit /\ [][ChatNext]_chatVars

\* Timers fire, requests and tools answer; the model may answer with tool calls
\* for ever, or with a stream that has no end.
ChatFairness ==
    /\ WF_chatVars(CheckInterruption)
    /\ WF_chatVars(SendRequest) /\ WF_chatVars(Retry)
    /\ WF_chatVars(Chunk \/ StreamBreaks \/ StreamEnds)
    /\ WF_chatVars(Preprocess \/ ToolsMissing) /\ WF_chatVars(ToolsDone)
    /\ WF_chatVars(\E c \in remaining : HandleCall(c))

-----------------------------------------------------------------------------
(* Properties                                                              *)

\* No message is left behind: while the server runs and does not process, its
\* queue is empty.  Nothing else looks at the queue (serve.ts:201 starts the
\* loop only for a message that finds nobody processing).
IdleMeansEmpty ==
    serverRunning /\ ~exited /\ ~isProcessing => messageQueue = <<>>

\* Every message gets into the history once, in the order of arrival, also
\* around interrupts; only an exit drops those that wait (serve.ts:302).
MessagesInOrder ==
    LET arrived == [i \in 1..posted |-> i]
    IN  IF serverRunning THEN taken \o messageQueue = arrived ELSE IsPrefix(taken, arrived)

\* An answer is aborted for the sake of a message that waits, or of the exit: an
\* interrupt meant for one answer never hits the next (serve.ts:358).
InterruptHasReason == aborted => messageQueue # <<>> \/ ~serverRunning

\* What is sent to the model holds a result for each call ("to maintain chat
\* history consistency", streamChatResponse.helpers.ts:393), of failed and invalid
\* calls too, until a batch is given up: because one of its calls is denied, which
\* drops the results of the others and the cancellations with it, or because the
\* tools cannot be listed once the calls are in the history.
RequestsAreComplete == at \in {"request", "stream", "backoff"} /\ ~abandoned => open = {}

\* An interrupt ends the answer, even when the model would stream or call tools
\* for ever, or when a retry is waiting.
InterruptTakesEffect == shouldInterrupt ~> ~shouldInterrupt \/ ~isProcessing \/ exited

=============================================================================
