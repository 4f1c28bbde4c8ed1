----------------------------- MODULE Cli_proofs -----------------------------
(***************************************************************************)
(* The server: no message is lost or overtakes another, and what it says   *)
(* it is at.  Then the service container and the server side by side: what *)
(* is proved of each alone holds of the two together, whichever a          *)
(* behaviour is about.                                                     *)
(***************************************************************************)
EXTENDS MCCli, ServiceContainer_proofs, SequenceTheorems

\* The messages 1..p were posted, t has been taken of them and q waits; while the
\* server runs none is missing.
InOrder(t, q, p, running) ==
    /\ p \in Nat /\ t \in Seq(Nat) /\ q \in Seq(Nat)
    /\ Len(t) <= p /\ \A i \in 1..Len(t) : t[i] = i
    /\ running => Len(t) + Len(q) = p /\ \A i \in 1..Len(q) : q[i] = Len(t) + i

\* IdleMeansEmpty and InterruptHasReason need that the flag which brings the abort
\* about is up only while a message waits, or no message matters any more.
QueueInv ==
    /\ InOrder(taken, messageQueue, posted, serverRunning)
    /\ IdleMeansEmpty
    /\ InterruptHasReason
    /\ shouldInterrupt /\ isProcessing => messageQueue # <<>> \/ ~serverRunning

-----------------------------------------------------------------------------
(* Queues                                                                  *)

\* Taking the first message, posting another, and dropping those that wait.
LEMMA TakeInOrder ==
    ASSUME NEW t, NEW q, NEW p, InOrder(t, q, p, TRUE), q # <<>>
    PROVE  InOrder(Append(t, Head(q)), Tail(q), p, TRUE)
<1>1. Len(q) >= 1 /\ Head(q) = q[1] /\ q[1] = Len(t) + 1 /\ q[1] \in Nat
  BY DEF InOrder
<1> DEFINE u == Append(t, Head(q))
           r == Tail(q)
<1>2. u \in Seq(Nat) /\ Len(u) = Len(t) + 1 /\ \A i \in 1..(Len(t) + 1) : u[i] = i
  BY <1>1 DEF InOrder
<1>3. r \in Seq(Nat) /\ Len(r) = Len(q) - 1 /\ \A i \in 1..Len(r) : r[i] = Len(t) + 1 + i
  BY <1>1 DEF InOrder
<1>4. p \in Nat /\ Len(t) + Len(q) = p /\ Len(t) \in Nat /\ Len(q) \in Nat
  BY DEF InOrder
<1> HIDE DEF u, r
<1>5. Len(u) <= p /\ Len(u) + Len(r) = p
  <2>1. Len(u) = Len(t) + 1 /\ Len(r) = Len(q) - 1 /\ Len(q) >= 1
    BY <1>1, <1>2, <1>3
  <2>2. \A a, b, c \in Nat : a + b = c /\ b >= 1 => a + 1 <= c /\ (a + 1) + (b - 1) = c
    OBVIOUS
  <2> QED BY <1>4, <2>1, <2>2
<1>6. \A i \in 1..Len(r) : r[i] = Len(u) + i
  BY <1>2, <1>3, <1>4
<1>7. \A i \in 1..Len(u) : u[i] = i
  BY <1>2
<1>8. InOrder(u, r, p, TRUE)
  BY <1>2, <1>3, <1>4, <1>5, <1>6, <1>7 DEF InOrder
<1> QED BY <1>8 DEF u, r

LEMMA PostInOrder ==
    ASSUME NEW t, NEW q, NEW p, NEW running \in BOOLEAN, InOrder(t, q, p, running)
    PROVE  /\ InOrder(t, Append(q, p + 1), p + 1, running)
           /\ Append(q, p + 1) # <<>>
<1> DEFINE r == Append(q, p + 1)
<1>1. /\ r \in Seq(Nat) /\ Len(r) = Len(q) + 1 /\ r # <<>>
      /\ \A i \in 1..Len(q) : r[i] = q[i]
      /\ r[Len(q) + 1] = p + 1
  BY SMTT(60) DEF InOrder
<1> HIDE DEF r
<1>2. ASSUME running, NEW i \in 1..(Len(q) + 1) PROVE r[i] = Len(t) + i
  <2>1. Len(t) + Len(q) = p /\ Len(t) \in Nat /\ Len(q) \in Nat
    BY <1>2 DEF InOrder
  <2>2. CASE i \in 1..Len(q)
    BY <1>1, <1>2, <2>2 DEF InOrder
  <2>3. CASE i = Len(q) + 1
    BY <1>1, <2>1, <2>3
  <2> QED BY <2>1, <2>2, <2>3
<1>3. InOrder(t, r, p + 1, running)
  BY <1>1, <1>2 DEF InOrder
<1> QED BY <1>1, <1>3 DEF r

LEMMA InOrderIsMessagesInOrder ==
    InOrder(taken, messageQueue, posted, serverRunning) => MessagesInOrder
<1> SUFFICES ASSUME InOrder(taken, messageQueue, posted, serverRunning) PROVE MessagesInOrder
  OBVIOUS
<1> DEFINE arrived == [i \in 1..posted |-> i]
<1>1. /\ arrived \in Seq(Nat) /\ Len(arrived) = posted
      /\ \A i \in 1..posted : arrived[i] = i
  BY DEF InOrder
<1>2. CASE serverRunning
  <2>1. /\ taken \o messageQueue \in Seq(Nat) /\ Len(taken \o messageQueue) = posted
        /\ \A i \in 1..posted : (taken \o messageQueue)[i] = i
    BY <1>2 DEF InOrder
  <2> DEFINE all == taken \o messageQueue
  <2> HIDE DEF all, arrived
  <2>2. all = arrived
    BY <1>1, <2>1, SeqEqual DEF all
  <2> QED BY <1>2, <2>2 DEF MessagesInOrder, all, arrived
<1>3. CASE ~serverRunning
  <2>1. SubSeq(taken, 1, Len(taken)) = SubSeq(arrived, 1, Len(taken))
    BY <1>1 DEF InOrder
  <2>2. IsPrefix(taken, arrived)
    BY <1>1, <2>1 DEF InOrder, IsPrefix
  <2> QED BY <1>3, <2>2 DEF MessagesInOrder
<1> QED BY <1>2, <1>3

-----------------------------------------------------------------------------
(* The steps                                                               *)

\* The head of the loop, for whatever queue is in order.
LEMMA NextMessageStep ==
    ASSUME NEW q, InOrder(taken, q, posted', serverRunning), NextMessage(q),
           UNCHANGED <<serverRunning, exited>>
    PROVE  QueueInv'
<1>1. CASE q # <<>> /\ serverRunning
  <2>1. /\ taken' = Append(taken, Head(q)) /\ messageQueue' = Tail(q)
        /\ isProcessing' /\ ~shouldInterrupt' /\ ~aborted'
    BY <1>1 DEF NextMessage, Take
  <2>2. InOrder(taken', messageQueue', posted', TRUE)
    BY <1>1, <2>1, TakeInOrder, SMTT(30) DEF InOrder
  <2>3. InOrder(taken', messageQueue', posted', serverRunning')
    BY <2>2 DEF InOrder
  <2> QED BY <2>1, <2>3 DEF QueueInv, IdleMeansEmpty, InterruptHasReason
<1>2. CASE ~(q # <<>> /\ serverRunning)
  <2>1. taken' = taken /\ messageQueue' = q /\ ~isProcessing' /\ ~aborted'
    BY <1>2 DEF NextMessage, Rest
  <2>2. InOrder(taken', messageQueue', posted', serverRunning')
    BY <2>1
  <2> QED BY <1>2, <2>1, <2>2 DEF QueueInv, IdleMeansEmpty, InterruptHasReason
<1> QED BY <1>1, <1>2

LEMMA EndAnswerStep == QueueInv /\ EndAnswer => QueueInv'
<1> SUFFICES ASSUME QueueInv, EndAnswer PROVE QueueInv'
  OBVIOUS
<1>1. /\ InOrder(taken, messageQueue, posted', serverRunning)
      /\ NextMessage(messageQueue) /\ UNCHANGED <<serverRunning, exited>>
  BY DEF QueueInv, EndAnswer
<1> QED BY <1>1, NextMessageStep

LEMMA OutsideStep == QueueInv /\ OutsideUnchanged => QueueInv'
BY DEF QueueInv, OutsideUnchanged, InOrder, IdleMeansEmpty, InterruptHasReason

LEMMA PostStep == QueueInv /\ serverRunning \in BOOLEAN /\ Post => QueueInv'
<1> SUFFICES ASSUME QueueInv, serverRunning \in BOOLEAN, Post PROVE QueueInv'
  OBVIOUS
<1> DEFINE q == Append(messageQueue, posted + 1)
<1>1. Posted(q) /\ posted' = posted + 1 /\ UNCHANGED <<serverRunning, exited>>
  BY DEF Post, Posted
<1>2. InOrder(taken, q, posted', serverRunning) /\ q # <<>>
  BY <1>1, PostInOrder DEF QueueInv
<1> HIDE DEF q
<1>3. CASE isProcessing
  <2>1. /\ messageQueue' = q /\ taken' = taken /\ isProcessing'
    BY <1>1, <1>3 DEF Posted
  <2> QED BY <1>1, <1>2, <2>1 DEF QueueInv, IdleMeansEmpty, InterruptHasReason
<1>4. CASE ~isProcessing
  <2>1. NextMessage(q)
    BY <1>1, <1>4 DEF Posted
  <2> QED BY <1>1, <1>2, <2>1, NextMessageStep
<1> QED BY <1>3, <1>4

-----------------------------------------------------------------------------
(* The specification                                                       *)

ServerInv == QueueInv /\ serverRunning \in BOOLEAN

LEMMA InitInv == ChatInit => ServerInv
<1> SUFFICES ASSUME ChatInit PROVE ServerInv
  OBVIOUS
<1>1. InOrder(<<>>, <<>>, 0, TRUE)
  BY DEF InOrder
<1> QED BY <1>1 DEF ChatInit, ServerInv, QueueInv, InOrder, IdleMeansEmpty, InterruptHasReason

LEMMA StepInv == ServerInv /\ [ChatNext]_chatVars => ServerInv'
<1> SUFFICES ASSUME ServerInv, [ChatNext]_chatVars PROVE ServerInv'
  OBVIOUS
<1> USE DEF ServerInv
<1>1. CASE Post
  <2>1. serverRunning' = serverRunning
    BY <1>1 DEF Post, Posted
  <2> QED BY <1>1, <2>1, PostStep
\* A message waits, or the server has stopped.
<1>2. CASE CheckInterruption
  BY <1>2 DEF CheckInterruption, QueueInv, InOrder, IdleMeansEmpty, InterruptHasReason
<1>3. CASE ExitRequest
  <2>1. messageQueue' = <<>> /\ serverRunning' = FALSE /\ UNCHANGED <<posted, taken>>
    BY <1>3 DEF ExitRequest
  <2>2. InOrder(taken', messageQueue', posted', serverRunning')
    BY <2>1 DEF QueueInv, InOrder
  <2> QED BY <2>1, <2>2 DEF QueueInv, IdleMeansEmpty, InterruptHasReason
<1>4. CASE ProcessExit
  BY <1>4 DEF ProcessExit, QueueInv, InOrder, IdleMeansEmpty, InterruptHasReason
<1>5. CASE InactivityShutdown
  BY <1>5 DEF InactivityShutdown, QueueInv, InOrder, IdleMeansEmpty, InterruptHasReason
<1>6. ASSUME NEW c \in remaining, ToolAsks(c) PROVE ServerInv'
  BY <1>6 DEF ToolAsks, QueueInv, InOrder, IdleMeansEmpty, InterruptHasReason
\* What is left ends the answer or touches nothing outside of it.
<1>7. ASSUME OutsideUnchanged PROVE ServerInv'
  <2>1. serverRunning' = serverRunning
    BY <1>7 DEF OutsideUnchanged
  <2> QED BY <1>7, <2>1, OutsideStep
<1>8. ASSUME EndAnswer PROVE ServerInv'
  <2>1. serverRunning' = serverRunning
    BY <1>8 DEF EndAnswer
  <2> QED BY <1>8, <2>1, EndAnswerStep
<1>9. CASE SendRequest
  BY <1>7, <1>8, <1>9 DEF SendRequest, Aborted
<1>10. CASE Chunk
  BY <1>7, <1>8, <1>10 DEF Chunk, Aborted, Receive
<1>11. CASE StreamBreaks
  BY <1>7, <1>8, <1>11 DEF StreamBreaks, Aborted
<1>12. CASE Retry
  BY <1>7, <1>12 DEF Retry
<1>13. CASE StreamEnds
  BY <1>7, <1>8, <1>13 DEF StreamEnds
<1>14. CASE Preprocess
  BY <1>7, <1>14 DEF Preprocess
<1>15. CASE ToolsMissing \/ ToolsDone
  BY <1>7, <1>8, <1>15 DEF ToolsMissing, ToolsDone
<1>16. ASSUME NEW c \in remaining, ToolReturns(c) \/ ToolDenied(c) PROVE ServerInv'
  BY <1>7, <1>16 DEF ToolReturns, ToolDenied
<1>17. CASE UNCHANGED chatVars
  <2>1. OutsideUnchanged
    BY <1>17 DEF chatVars, OutsideUnchanged
  <2> QED BY <1>7, <2>1
<1> QED BY <1>1, <1>2, <1>3, <1>4, <1>5, <1>6, <1>9, <1>10, <1>11, <1>12, <1>13, <1>14,
           <1>15, <1>16, <1>17 DEF ChatNext

LEMMA Invariance == ChatSpec => []ServerInv
BY InitInv, StepInv, PTL DEF ChatSpec

\* No message is left in the queue of a server that rests.
THEOREM NothingWaitsForRest == ChatSpec => []IdleMeansEmpty
<1>1. ServerInv => IdleMeansEmpty
  BY DEF ServerInv, QueueInv
<1> QED BY <1>1, Invariance, PTL

\* Each message gets into the history once, in the order of arrival.
THEOREM MessagesStayInOrder == ChatSpec => []MessagesInOrder
<1>1. ServerInv => MessagesInOrder
  BY InOrderIsMessagesInOrder DEF ServerInv, QueueInv
<1> QED BY <1>1, Invariance, PTL

\* No answer is aborted by an interrupt that was meant for an earlier one: the
\* flag alone does not say so, but it stays up only while a message waits.
THEOREM InterruptsHaveReasons == ChatSpec => []InterruptHasReason
<1>1. ServerInv => InterruptHasReason
  BY DEF ServerInv, QueueInv
<1> QED BY <1>1, Invariance, PTL

-----------------------------------------------------------------------------
(* The types                                                               *)

Responses == UNION {[C -> BOOLEAN] : C \in SUBSET Call}

\* The types of the conversation loop, and of the rest.
LoopTypeOK ==
    /\ text \in BOOLEAN /\ pulse \in BOOLEAN /\ hasRejection \in BOOLEAN /\ abandoned \in BOOLEAN
    /\ at \in {"idle", "request", "stream", "backoff", "preprocess", "tools"}
    /\ attempt \in 0..MaxRetries
    /\ toolCalls \in Responses
    /\ open \subseteq Call /\ remaining \subseteq Call /\ results \subseteq Call
QueueTypeOK ==
    /\ posted \in Nat
    /\ messageQueue \in Seq(1..posted) /\ taken \in Seq(1..posted)
    /\ isProcessing \in BOOLEAN /\ shouldInterrupt \in BOOLEAN /\ serverRunning \in BOOLEAN
    /\ aborted \in BOOLEAN /\ exited \in BOOLEAN
    /\ isProcessing <=> at # "idle"

LEMMA ResponseTyping ==
    /\ NoCalls \in Responses
    /\ \A tc \in Responses : /\ DOMAIN tc \subseteq Call
                             /\ {c \in DOMAIN tc : tc[c]} \subseteq Call
    /\ \A tc \in Responses, c \in Call, complete \in BOOLEAN :
          [x \in DOMAIN tc \cup {c} |-> IF x = c THEN complete ELSE tc[x]] \in Responses
<1>1. NoCalls \in [{} -> BOOLEAN] /\ {} \in SUBSET Call
  BY DEF NoCalls
<1>2. NoCalls \in Responses
  BY <1>1 DEF Responses
<1>3. ASSUME NEW tc \in Responses, NEW c \in Call, NEW complete \in BOOLEAN
      PROVE  [x \in DOMAIN tc \cup {c} |-> IF x = c THEN complete ELSE tc[x]] \in Responses
  <2>1. PICK C \in SUBSET Call : tc \in [C -> BOOLEAN]
    BY DEF Responses
  <2>2. [x \in DOMAIN tc \cup {c} |-> IF x = c THEN complete ELSE tc[x]] \in [C \cup {c} -> BOOLEAN]
    BY <2>1
  <2>3. C \cup {c} \in SUBSET Call
    OBVIOUS
  <2> QED BY <2>2, <2>3 DEF Responses
<1>4. ASSUME NEW tc \in Responses
      PROVE  DOMAIN tc \subseteq Call /\ {c \in DOMAIN tc : tc[c]} \subseteq Call
  <2>1. PICK C \in SUBSET Call : tc \in [C -> BOOLEAN]
    BY DEF Responses
  <2> QED BY <2>1
<1> QED BY <1>2, <1>3, <1>4

\* The head of the loop, with a queue of messages that were posted.
LEMMA NextMessageTyping ==
    ASSUME LoopTypeOK, QueueTypeOK, posted' \in Nat, posted' >= posted,
           NEW q \in Seq(1..posted'), NextMessage(q), UNCHANGED <<serverRunning, exited, pulse>>,
           abandoned' \in BOOLEAN, UNCHANGED open
    PROVE  LoopTypeOK' /\ QueueTypeOK'
<1> USE DEF LoopTypeOK, QueueTypeOK
<1>1. 0 \in 0..MaxRetries /\ NoCalls \in Responses
  BY ResponseTyping, RetriesAssumption
<1>2. taken \in Seq(1..posted')
  <2>1. 1..posted \subseteq 1..posted'
    OBVIOUS
  <2> QED BY <2>1, SeqMonotonic
<1>3. CASE q # <<>> /\ serverRunning
  <2>1. Take(q, FALSE)
    BY <1>3 DEF NextMessage
  <2>2. Tail(q) \in Seq(1..posted') /\ Head(q) \in 1..posted'
    BY <1>3, HeadTailProperties
  <2>3. messageQueue' \in Seq(1..posted') /\ taken' \in Seq(1..posted')
    BY <1>2, <2>1, <2>2, AppendProperties DEF Take
  <2> QED BY <1>1, <2>1, <2>3 DEF Take, NewRequest
<1>4. CASE ~(q # <<>> /\ serverRunning)
  <2>1. Rest(q)
    BY <1>4 DEF NextMessage
  <2> QED BY <1>1, <1>2, <2>1 DEF Rest
<1> QED BY <1>3, <1>4

LEMMA TypesStep == ChatTypeOK /\ [ChatNext]_chatVars => ChatTypeOK'
<1> SUFFICES ASSUME LoopTypeOK, QueueTypeOK, [ChatNext]_chatVars PROVE LoopTypeOK' /\ QueueTypeOK'
  BY DEF ChatTypeOK, LoopTypeOK, QueueTypeOK, Responses
<1>1. CASE Post
  <2> DEFINE q == Append(messageQueue, posted + 1)
  <2>1. /\ posted' = posted + 1 /\ posted' \in Nat /\ posted' >= posted
        /\ UNCHANGED <<serverRunning, exited, open, abandoned, pulse>>
    BY <1>1 DEF Post, Posted, loopVars, QueueTypeOK
  <2>2. messageQueue \in Seq(1..posted') /\ taken \in Seq(1..posted')
    <3>1. 1..posted \subseteq 1..posted'
      BY <2>1 DEF QueueTypeOK
    <3> QED BY <3>1, SeqMonotonic DEF QueueTypeOK
  <2>3. q \in Seq(1..posted')
    BY <2>1, <2>2, AppendProperties DEF QueueTypeOK
  <2> HIDE DEF q
  <2>4. Posted(q)
    BY <1>1 DEF Post, q
  <2>5. CASE isProcessing
    <3>1. /\ shouldInterrupt' = TRUE /\ messageQueue' = q
          /\ UNCHANGED <<isProcessing, aborted, taken, loopVars>>
      BY <2>4, <2>5 DEF Posted
    <3> QED BY <2>1, <2>2, <2>3, <3>1 DEF LoopTypeOK, QueueTypeOK, loopVars
  <2>6. CASE ~isProcessing
    <3>1. NextMessage(q)
      BY <2>4, <2>6 DEF Posted
    <3> QED BY <2>1, <2>3, <3>1, NextMessageTyping DEF LoopTypeOK
  <2> QED BY <2>5, <2>6
<1>2. CASE CheckInterruption \/ ExitRequest \/ ProcessExit \/ InactivityShutdown
  <2>1. /\ <<posted, taken, isProcessing, loopVars>>' = <<posted, taken, isProcessing, loopVars>>
        /\ messageQueue' \in {messageQueue, <<>>}
        /\ shouldInterrupt' = shouldInterrupt /\ serverRunning' \in {serverRunning, FALSE}
        /\ aborted' \in {TRUE, aborted, isProcessing} /\ exited' \in {TRUE, exited}
    BY <1>2 DEF CheckInterruption, ExitRequest, ProcessExit, InactivityShutdown
  <2>2. messageQueue' \in Seq(1..posted)
    BY <2>1, EmptySeq DEF QueueTypeOK
  <2>3. UNCHANGED loopVars /\ LoopTypeOK'
    BY <2>1 DEF LoopTypeOK, loopVars
  <2>4. /\ posted' = posted /\ taken' = taken /\ isProcessing' = isProcessing /\ at' = at
        /\ shouldInterrupt' \in BOOLEAN /\ serverRunning' \in BOOLEAN
        /\ aborted' \in BOOLEAN /\ exited' \in BOOLEAN
    BY <2>1, <2>3 DEF QueueTypeOK, loopVars
  <2> QED BY <2>2, <2>3, <2>4 DEF QueueTypeOK
<1>3. ASSUME NEW c \in remaining, ToolAsks(c) PROVE LoopTypeOK' /\ QueueTypeOK'
  BY <1>3 DEF ToolAsks, LoopTypeOK, QueueTypeOK, loopVars
\* What ends the answer, and what goes on with it.
<1>4. ASSUME EndAnswer, UNCHANGED <<open, pulse>>, abandoned' \in BOOLEAN
      PROVE  LoopTypeOK' /\ QueueTypeOK'
  <2>1. /\ posted' = posted /\ UNCHANGED <<serverRunning, exited, pulse>>
        /\ NextMessage(messageQueue) /\ posted \in Nat /\ messageQueue \in Seq(1..posted)
    BY <1>4 DEF EndAnswer, QueueTypeOK
  <2>2. posted' \in Nat /\ posted' >= posted /\ messageQueue \in Seq(1..posted')
    BY <2>1
  <2> QED BY <1>4, <2>1, <2>2, NextMessageTyping
<1>5. ASSUME OutsideUnchanged, at' # "idle" <=> at # "idle" PROVE QueueTypeOK'
  BY <1>5 DEF OutsideUnchanged, QueueTypeOK
<1>6. CASE SendRequest \/ Retry
  <2>1. SUFFICES ASSUME ~(Aborted /\ SendRequest) PROVE LoopTypeOK' /\ QueueTypeOK'
    BY <1>4 DEF Aborted, LoopTypeOK
  <2>2. /\ OutsideUnchanged /\ at # "idle" /\ at' \in {"stream", "request"}
        /\ UNCHANGED <<attempt, text, toolCalls, pulse, remaining, results, hasRejection, open, abandoned>>
    BY <1>6, <2>1 DEF SendRequest, Retry, InLoop
  <2> QED BY <1>5, <2>2 DEF LoopTypeOK
<1>7. CASE Chunk
  <2>1. CASE Aborted
    BY <1>4, <2>1 DEF Aborted, LoopTypeOK
  <2>2. CASE Receive /\ at = "stream"
    <3>1. text' \in BOOLEAN /\ pulse' \in BOOLEAN /\ toolCalls' \in Responses
      BY <2>2, ResponseTyping DEF Receive, LoopTypeOK
    <3>2. OutsideUnchanged /\ UNCHANGED <<at, attempt, remaining, results, hasRejection, open, abandoned>>
      BY <2>2 DEF Receive
    <3> QED BY <1>5, <3>1, <3>2 DEF LoopTypeOK
  <2> QED BY <1>7, <2>1, <2>2 DEF Chunk, InLoop
<1>8. CASE StreamBreaks
  <2>1. CASE EndAnswer /\ UNCHANGED <<open, abandoned, pulse>>
    BY <1>4, <2>1 DEF LoopTypeOK
  <2>2. CASE /\ at = "stream" /\ attempt < MaxRetries /\ at' = "backoff" /\ attempt' = attempt + 1
             /\ UNCHANGED <<text, toolCalls, pulse, remaining, results, hasRejection, open, abandoned>>
             /\ OutsideUnchanged
    <3>1. attempt' \in 0..MaxRetries
      BY <2>2, RetriesAssumption DEF LoopTypeOK
    <3> QED BY <1>5, <2>2, <3>1 DEF LoopTypeOK
  <2> QED BY <1>8, <2>1, <2>2 DEF StreamBreaks, Aborted, InLoop
<1>9. CASE StreamEnds
  <2>1. ValidCalls \subseteq Call
    BY ResponseTyping DEF ValidCalls, LoopTypeOK
  <2>2. CASE EndAnswer /\ UNCHANGED <<open, abandoned, pulse>>
    BY <1>4, <2>2 DEF LoopTypeOK
  <2>3. CASE /\ at = "stream" /\ at' = "preprocess"
             /\ open' = open \cup ValidCalls /\ remaining' = ValidCalls
             /\ UNCHANGED <<attempt, text, toolCalls, pulse, results, hasRejection, abandoned>>
             /\ OutsideUnchanged
    BY <1>5, <2>1, <2>3 DEF LoopTypeOK
  <2> QED BY <1>9, <2>2, <2>3 DEF StreamEnds, InLoop
<1>10. CASE Preprocess
  BY <1>5, <1>10 DEF Preprocess, InLoop, LoopTypeOK
<1>11. ASSUME NEW c \in remaining, ToolReturns(c) \/ ToolDenied(c) PROVE LoopTypeOK' /\ QueueTypeOK'
  BY <1>5, <1>11 DEF ToolReturns, ToolDenied, InLoop, LoopTypeOK
<1>12. CASE ToolsDone
  <2>1. CASE EndAnswer /\ abandoned' = TRUE /\ UNCHANGED <<open, pulse>>
    BY <1>4, <2>1
  <2>2. CASE /\ at = "tools" /\ NewRequest /\ open' = open \ results
             /\ UNCHANGED <<abandoned, pulse>> /\ OutsideUnchanged
    <3>1. attempt' \in 0..MaxRetries /\ toolCalls' \in Responses
      BY <2>2, ResponseTyping, RetriesAssumption DEF NewRequest
    <3> QED BY <1>5, <2>2, <3>1 DEF NewRequest, LoopTypeOK
  <2> QED BY <1>12, <2>1, <2>2 DEF ToolsDone, InLoop
<1>13. CASE UNCHANGED chatVars
  BY <1>13 DEF chatVars, loopVars, LoopTypeOK, QueueTypeOK
<1>14. CASE ToolsMissing
  BY <1>4, <1>14 DEF ToolsMissing
<1> QED BY <1>1, <1>2, <1>3, <1>6, <1>7, <1>8, <1>9, <1>10, <1>11, <1>12, <1>13, <1>14 DEF ChatNext

LEMMA InitTypes == ChatInit => ChatTypeOK
<1> SUFFICES ASSUME ChatInit PROVE LoopTypeOK /\ QueueTypeOK
  BY DEF ChatTypeOK, LoopTypeOK, QueueTypeOK, Responses
<1>1. LoopTypeOK
  <2>1. NoCalls \in Responses /\ 0 \in 0..MaxRetries
    BY ResponseTyping, RetriesAssumption
  <2> QED BY <2>1 DEF ChatInit, LoopTypeOK
<1>2. QueueTypeOK
  BY EmptySeq DEF ChatInit, QueueTypeOK
<1> QED BY <1>1, <1>2

\* The server's state is of its types, and somebody processes exactly while an
\* answer is under way.
THEOREM ChatTyping == ChatSpec => []ChatTypeOK
BY InitTypes, TypesStep, PTL DEF ChatSpec

-----------------------------------------------------------------------------
(* The calls and their results                                             *)

\* RequestsAreComplete, and why: a call that has no result in the history has one
\* in the batch, or is still to be handled.
OpenInv ==
    ~abandoned =>
        /\ at \notin {"preprocess", "tools"} => open = {}
        /\ at = "preprocess" => open \subseteq remaining
        /\ at = "tools" => open \subseteq remaining \cup results

LEMMA EndAnswerKeepsOpen ==
    EndAnswer /\ (~abandoned' => open' = {}) => OpenInv'
<1> SUFFICES ASSUME EndAnswer, ~abandoned' => open' = {} PROVE OpenInv'
  OBVIOUS
<1>1. at' \in {"request", "idle"}
  BY DEF EndAnswer, NextMessage, Take, Rest, NewRequest
<1> QED BY <1>1 DEF OpenInv

LEMMA OpenStep == ChatTypeOK /\ OpenInv /\ [ChatNext]_chatVars => OpenInv'
<1> SUFFICES ASSUME ChatTypeOK, OpenInv, [ChatNext]_chatVars PROVE OpenInv'
  OBVIOUS
<1>1. CASE Post
  <2>1. CASE isProcessing
    BY <1>1, <2>1 DEF Post, Posted, loopVars, OpenInv
  <2>2. CASE ~isProcessing
    BY <1>1, <2>2 DEF Post, Posted, NextMessage, Take, Rest, NewRequest,
                                          OpenInv, ChatTypeOK
  <2> QED BY <2>1, <2>2
<1>2. CASE CheckInterruption \/ ExitRequest \/ ProcessExit \/ InactivityShutdown
  BY <1>2 DEF CheckInterruption, ExitRequest, ProcessExit, InactivityShutdown, loopVars, OpenInv
<1>3. CASE SendRequest \/ Retry \/ Chunk \/ StreamBreaks
  BY <1>3, EndAnswerKeepsOpen
     DEF SendRequest, Retry, Chunk, StreamBreaks, Aborted, Receive, InLoop, OpenInv
<1>4. CASE StreamEnds
  BY <1>4, EndAnswerKeepsOpen DEF StreamEnds, InLoop, OpenInv
<1>5. CASE Preprocess
  BY <1>5 DEF Preprocess, InLoop, OpenInv
<1>6. ASSUME NEW c \in remaining, ToolReturns(c) \/ ToolDenied(c) \/ ToolAsks(c) PROVE OpenInv'
  BY <1>6 DEF ToolReturns, ToolDenied, ToolAsks, InLoop, loopVars, OpenInv
<1>7. CASE ToolsMissing \/ ToolsDone
  BY <1>7, EndAnswerKeepsOpen DEF ToolsMissing, ToolsDone, NewRequest, InLoop, OpenInv
<1>8. CASE UNCHANGED chatVars
  BY <1>8 DEF chatVars, loopVars, OpenInv
<1> QED BY <1>1, <1>2, <1>3, <1>4, <1>5, <1>6, <1>7, <1>8 DEF ChatNext

\* A request to the model holds a result for each call, as long as no batch of
\* calls was given up.
THEOREM ResultsGoWithCalls == ChatSpec => []RequestsAreComplete
<1>1. ChatInit => OpenInv
  BY DEF ChatInit, OpenInv
<1>2. OpenInv => RequestsAreComplete
  BY DEF OpenInv, RequestsAreComplete
<1> QED BY <1>1, <1>2, InitTypes, TypesStep, OpenStep, PTL DEF ChatSpec
-----------------------------------------------------------------------------
(* The container and the server                                            *)

\* Each component sees its own steps and stutters during the others'.
LEMMA EachAsAlone == Spec => SvcSpec /\ ChatSpec
<1>1. Init => SvcInit /\ ChatInit
  BY DEF Init
<1>2. [Next]_<<focus, svcVars, chatVars>> => [SvcNext]_svcVars /\ [ChatNext]_chatVars
  BY DEF Next
<1> QED BY <1>1, <1>2, PTL DEF Spec, SvcSpec, ChatSpec

\* The states of the container and of the server keep their types, for any services,
\* dependencies, tool calls and bounds.
THEOREM CliTyping == Spec => []TypeOK
<1>1. SvcTypeOK /\ ChatTypeOK => TypeOK
  BY DEF TypeOK
<1> QED BY <1>1, EachAsAlone, SvcTyping, ChatTyping, PTL
=============================================================================
