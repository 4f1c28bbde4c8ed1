-------------------------- MODULE AgentLoop_proofs --------------------------
(***************************************************************************)
(* The agent loop implements ToolLifecycle, for any tool calls, policies   *)
(* and bounds: Spec => Lifecycle, up to the first fragment that goes       *)
(* astray.                                                                 *)
(*                                                                         *)
(* Only one fact about the rest of the state is needed: a tool call that   *)
(* is being executed has the status "calling", so that its result never    *)
(* lands on a call that was canceled or is already settled.                *)
(***************************************************************************)
EXTENDS AgentLoop, NumberLemmas, SequenceTheorems, FiniteSetTheorems, TLAPS

HasStatus(ss) == ss.status \in [Tools -> L!Statuses]

LifeInv ==
    /\ HasStatus(session)
    /\ \A t \in running \cap Tools : session.status[t] = "calling"

----------------------------------------------------------------------------
(* What the reducers do to the status of a tool call *)

\* The reducers that only set isStreaming leave the calls alone.
LEMMA FlagKeepsStatus ==
    ASSUME NEW ss, HasStatus(ss)
    PROVE  /\ HasStatus(SetActive(ss)) /\ SetActive(ss).status = ss.status
           /\ HasStatus(SetInactive(ss)) /\ SetInactive(ss).status = ss.status
BY DEF HasStatus, SetActive, SetInactive, Slice

\* SetStatus gives the calls it is for the new status, or drops the update
\* when the call is no longer in the history.
LEMMA SetStatusMoves ==
    ASSUME NEW ss, HasStatus(ss), NEW tools, NEW st \in L!Statuses
    PROVE  /\ HasStatus(SetStatus(ss, tools, st))
           /\ \A t \in Tools :
                 /\ SetStatus(ss, tools, st).status[t] \in {ss.status[t], st}
                 /\ t \notin tools => SetStatus(ss, tools, st).status[t] = ss.status[t]
                 /\ t \in tools /\ InHistory(ss, t)
                       => SetStatus(ss, tools, st).status[t] = st
BY DEF HasStatus, SetStatus, Slice

\* WithStatus selects by status, as it says.
LEMMA WithStatusHas ==
    ASSUME NEW ss, NEW tools, NEW st
    PROVE  \A t \in WithStatus(ss, tools, st) : ss.status[t] = st
BY DEF WithStatus

\* A message in the history only touches the calls it brings.
LEMMA StreamUpdateMoves ==
    ASSUME NEW ss, HasStatus(ss), NEW message
    PROVE  /\ HasStatus(StreamUpdate(ss, message))
           /\ \A t \in Tools :
                 /\ StreamUpdate(ss, message).status[t] \in {ss.status[t], "generating"}
                 /\ t \notin message.tools
                       => StreamUpdate(ss, message).status[t] = ss.status[t]
<1> DEFINE new == Slice(Streamed(ss.history, message), ss.status, ss.streaming)
<1>1. HasStatus(new) /\ new.status = ss.status
  BY DEF HasStatus, Slice
<1>2. StreamUpdate(ss, message) = SetStatus(new, message.tools, "generating")
  BY DEF StreamUpdate
<1>3. "generating" \in L!Statuses
  BY DEF L!Statuses
<1> HIDE DEF new
<1> QED
  BY <1>1, <1>2, <1>3, SetStatusMoves

\* A cancellation moves no call but from "generated" to "canceled".
LEMMA CancelStreamMoves ==
    ASSUME NEW ss, HasStatus(ss)
    PROVE  /\ HasStatus(CancelStream(ss))
           /\ \A t \in Tools :
                 \/ CancelStream(ss).status[t] = ss.status[t]
                 \/ ss.status[t] = "generated" /\ CancelStream(ss).status[t] = "canceled"
<1> DEFINE quiet == SetInactive(ss)
           valid == LastOf({i \in DOMAIN quiet.history :
                               /\ i > LastOf(Where(quiet.history, UserOrTool))
                               /\ Valid(quiet, quiet.history[i])})
           pending == WithStatus(quiet, quiet.history[valid].tools, "generated")
           canceled == SetStatus(quiet, pending, "canceled")
<1>1. HasStatus(quiet) /\ quiet.status = ss.status
  BY FlagKeepsStatus
<1>2. "canceled" \in L!Statuses
  BY DEF L!Statuses
<1>3. /\ HasStatus(canceled)
      /\ \A t \in Tools : \/ canceled.status[t] = ss.status[t]
                          \/ ss.status[t] = "generated" /\ canceled.status[t] = "canceled"
  <2> HIDE DEF quiet, valid
  <2>1. \A t \in pending : quiet.status[t] = "generated"
    BY WithStatusHas
  <2> HIDE DEF pending
  <2> QED
    BY <1>1, <1>2, <2>1, SetStatusMoves
<1>4. CancelStream(ss).status \in {quiet.status, canceled.status}
  BY DEF CancelStream, ClearDangling, Slice
<1> HIDE DEF quiet, valid, pending, canceled
<1> QED
  BY <1>1, <1>3, <1>4 DEF HasStatus

----------------------------------------------------------------------------
(* Every action keeps LifeInv and moves the calls as ToolLifecycle allows *)

\* A fragment that does not go astray changes nothing.
LEMMA InPlace ==
    ASSUME stray' = {}, NEW s, NEW t, NEW u, LaterDelta(s, t, u)
    PROVE  UNCHANGED <<session, at, input, running, maker, ghosts, spent>>
BY DEF LaterDelta

\* Nothing follows one that does.
LEMMA Followed == [Next]_vars => (stray' = {} => stray = {})
BY DEF Next, vars, deltas

\* A step of the loop is a step of the life of the tool calls.
LEMMA StepMoves ==
    ASSUME stray = {}, stray' = {}, LifeInv, [Next]_vars
    PROVE  LifeInv' /\ L!Next
<1> USE DEF LifeInv
<1>0. /\ "canceled" \in L!Statuses /\ "calling" \in L!Statuses
      /\ "generated" \in L!Statuses
      /\ "done" \in L!Statuses /\ "errored" \in L!Statuses
  BY DEF L!Statuses
<1>a. ASSUME HasStatus(session)', session'.status = session.status, running' = running
      PROVE  LifeInv' /\ L!Next
  BY <1>a DEF HasStatus, L!Next
<1>1. ASSUME NEW i \in 1..(Len(session.history) + 1), Submit(i) PROVE LifeInv' /\ L!Next
  <2> DEFINE pending == WithStatus(session, CurrentTools(session), "generated")
             canceled == SetStatus(session, pending, "canceled")
  <2>1. /\ HasStatus(canceled)
        /\ \A t \in Tools :
              \/ canceled.status[t] = session.status[t]
              \/ session.status[t] = "generated" /\ canceled.status[t] = "canceled"
    <3>1. \A t \in pending : session.status[t] = "generated"
      BY WithStatusHas
    <3> HIDE DEF pending
    <3> QED
      BY <1>0, <3>1, SetStatusMoves
  <2>2. session' = SubmitAt(canceled, i) /\ running' = running
    BY <1>1 DEF Submit
  <2> HIDE DEF canceled
  <2>3. HasStatus(session)' /\ session'.status = canceled.status
    BY <2>1, <2>2 DEF HasStatus, SubmitAt, Slice
  <2> QED
    BY <2>1, <2>2, <2>3 DEF HasStatus, L!Next, L!Onward
<1>2. ASSUME NEW s \in Streams, Resolve(s) PROVE LifeInv' /\ L!Next
  <2> DEFINE resolved == UpdateItem(session, input[s])
  <2>1. HasStatus(resolved) /\ resolved.status = session.status
    BY DEF HasStatus, UpdateItem, Slice
  <2>2. session' = SetActive(resolved) /\ running' = running
    BY <1>2 DEF Resolve
  <2> QED
    BY <1>a, <2>1, <2>2, FlagKeepsStatus DEF HasStatus
<1>3. ASSUME NEW s \in Streams, StartLLM(s) PROVE LifeInv' /\ L!Next
  BY <1>3, <1>a DEF StartLLM, HasStatus
<1>4. ASSUME NEW s \in Streams, TooLong(s) PROVE LifeInv' /\ L!Next
  BY <1>4, <1>a, FlagKeepsStatus DEF TooLong, HasStatus
<1>5. ASSUME NEW s \in Streams, NEW text \in BOOLEAN, NEW made \in SUBSET Tools,
             Chunk(s, text, made)
      PROVE  LifeInv' /\ L!Next
  <2>1. /\ session' = StreamUpdate(session, Message("assistant", text, made))
        /\ running' = running
        /\ \A t \in made : session.status[t] = "unused"
    BY <1>5 DEF Chunk, WithStatus
  <2>2. Message("assistant", text, made).tools = made
    BY DEF Message
  <2>3. /\ HasStatus(session)'
        /\ \A t \in Tools :
              \/ session'.status[t] = session.status[t]
              \/ session.status[t] = "unused" /\ session'.status[t] = "generating"
    BY <2>1, <2>2, StreamUpdateMoves DEF HasStatus
  <2> QED
    BY <2>1, <2>3 DEF HasStatus, L!Next, L!Onward
<1>6. ASSUME NEW s \in Streams, Finish(s) PROVE LifeInv' /\ L!Next
  <2> DEFINE made == WithStatus(session, CurrentTools(session), "generating")
             auto == made # {} /\ made \subseteq Automatic
  <2>1. \A t \in made : session.status[t] = "generating"
    BY WithStatusHas
  <2>2. CASE auto
    <3>1. session' = SetStatus(session, made, "calling") /\ running' = running \cup made
      BY <1>6, <2>2 DEF Finish
    <3>2. \A t \in made : InHistory(session, t)
      BY DEF WithStatus, CurrentTools, InHistory, LastOf, Where
    <3> QED
      BY <1>0, <2>1, <2>2, <3>1, <3>2, SetStatusMoves DEF HasStatus, L!Next, L!Onward
  <2>3. CASE ~auto
    <3>1. /\ session' = SetStatus(SetInactive(session), made, "generated")
          /\ running' = running
      BY <1>6, <2>3 DEF Finish
    <3>2. /\ HasStatus(SetInactive(session))
          /\ SetInactive(session).status = session.status
      BY FlagKeepsStatus
    <3>3. /\ HasStatus(session)'
          /\ \A t \in Tools :
                \/ session'.status[t] = session.status[t]
                \/ session.status[t] = "generating" /\ session'.status[t] = "generated"
      BY <1>0, <2>1, <3>1, <3>2, SetStatusMoves DEF HasStatus
    <3> QED
      BY <3>1, <3>3 DEF HasStatus, L!Next, L!Onward
  <2> QED
    BY <2>2, <2>3
<1>b. ASSUME session' = CancelStream(session), running' \subseteq running
      PROVE  LifeInv' /\ L!Next
  <2>1. /\ HasStatus(session)'
        /\ \A t \in Tools :
              \/ session'.status[t] = session.status[t]
              \/ session.status[t] = "generated" /\ session'.status[t] = "canceled"
    BY <1>b, CancelStreamMoves DEF HasStatus
  <2> QED
    BY <1>b, <2>1 DEF HasStatus, L!Next, L!Onward
<1>7. ASSUME NEW s \in Streams, Fail(s) PROVE LifeInv' /\ L!Next
  BY <1>7, <1>b DEF Fail
<1>8. ASSUME NEW t \in Tools, Accept(t) PROVE LifeInv' /\ L!Next
  <2>1. /\ session.status[t] = "generated" /\ InHistory(session, t)
        /\ session' = SetStatus(session, {t}, "calling")
        /\ running' = running \cup {t}
    BY <1>8 DEF Accept, WithStatus, CurrentTools, InHistory, LastOf, Where
  <2> DEFINE moved == SetStatus(session, {t}, "calling")
  <2>2. /\ HasStatus(moved)
        /\ moved.status[t] = "calling"
        /\ \A u \in Tools \ {t} : moved.status[u] = session.status[u]
    BY <1>0, <2>1, SetStatusMoves
  <2> QED
    BY <2>1, <2>2 DEF HasStatus, L!Next, L!Onward
<1>9. ASSUME NEW t \in Tools, Reject(t) PROVE LifeInv' /\ L!Next
  <2>1. /\ session.status[t] = "generated" /\ running' = running
        /\ session' = SetStatus(session, {t}, "canceled")
    BY <1>9 DEF Reject, WithStatus
  <2> DEFINE moved == SetStatus(session, {t}, "canceled")
  <2>2. /\ HasStatus(moved)
        /\ moved.status[t] \in {session.status[t], "canceled"}
        /\ \A u \in Tools \ {t} : moved.status[u] = session.status[u]
    BY <1>0, <2>1, SetStatusMoves
  <2> QED
    BY <2>1, <2>2 DEF HasStatus, L!Next, L!Onward
<1>10. ASSUME NEW t \in Tools, ToolFails(t) PROVE LifeInv' /\ L!Next
  <2>1. running' \subseteq running
    BY <1>10 DEF ToolFails
  <2>2. CASE session' = CancelStream(session)
    BY <1>b, <2>1, <2>2
  <2>3. CASE session' = session
    BY <2>1, <2>3 DEF HasStatus, L!Next
  <2> QED
    BY <1>10, <2>2, <2>3 DEF ToolFails
<1>11. ASSUME NEW t \in Tools, NEW outcome \in {"done", "errored"}, ToolResult(t, outcome)
       PROVE  LifeInv' /\ L!Next
  <2> DEFINE settled == SetStatus(session, {t}, outcome)
             filled == StreamUpdate(settled, Result(t))
  <2>1. /\ session.status[t] = "calling" /\ running' = running \ {t}
    BY <1>11 DEF ToolResult
  <2>2. /\ HasStatus(settled)
        /\ \A u \in Tools \ {t} : settled.status[u] = session.status[u]
        /\ settled.status[t] \in {session.status[t], outcome}
    BY <1>0, SetStatusMoves
  <2>3. HasStatus(filled) /\ \A u \in Tools : filled.status[u] = settled.status[u]
    <3>1. Result(t).tools = {}
      BY DEF Result
    <3> HIDE DEF settled
    <3> QED
      BY <2>2, <3>1, StreamUpdateMoves, ZenonT(60)
  <2>4. \/ session' = session
        \/ session' = SetActive(filled)
        \/ session' = filled
    BY <1>11 DEF ToolResult
  <2> HIDE DEF settled, filled
  <2>5. /\ HasStatus(session)'
        /\ \A u \in Tools \ {t} : session'.status[u] = session.status[u]
        /\ session'.status[t] \in {session.status[t], outcome}
    BY <2>2, <2>3, <2>4, FlagKeepsStatus DEF HasStatus
  <2> QED
    BY <2>1, <2>5 DEF HasStatus, L!Next, L!Onward
<1>12. ASSUME Stop PROVE LifeInv' /\ L!Next
  BY <1>12, <1>b DEF Stop
<1>13. ASSUME NewSession PROVE LifeInv' /\ L!Next
  BY <1>13, <1>a DEF NewSession, HasStatus, Slice
<1>14. ASSUME NEW i \in 1..(Len(session.history) + 1), TruncateHistoryToMessage(i) PROVE LifeInv' /\ L!Next
  BY <1>14, <1>a DEF TruncateHistoryToMessage, HasStatus, Slice
<1>15. ASSUME NEW i \in 1..(Len(session.history) + 1), DeleteMessage(i) PROVE LifeInv' /\ L!Next
  BY <1>15, <1>a DEF DeleteMessage, HasStatus, Slice
<1>16. ASSUME UNCHANGED vars PROVE LifeInv' /\ L!Next
  BY <1>16, <1>a DEF vars, HasStatus
<1>17. ASSUME NEW s \in Streams, NEW t \in Tools, NEW u \in Tools, LaterDelta(s, t, u)
       PROVE  LifeInv' /\ L!Next
  BY <1>17, <1>a, InPlace DEF HasStatus
<1> QED
  BY <1>1, <1>2, <1>3, <1>4, <1>5, <1>6, <1>7, <1>8, <1>9, <1>10, <1>11, <1>12,
     <1>13, <1>14, <1>15, <1>16, <1>17 DEF Next, Step

\* The invariant holds at the start, where no call was made.
LEMMA InitLives == Init => LifeInv /\ L!Init
BY DEF Init, LifeInv, HasStatus, Slice, L!Init, L!Statuses

\* The whole life of every tool call is one ToolStatus describes: called once
\* at most, with permission or by an automatic policy, never once canceled, as
\* long as each fragment of a call finds it being generated in the last message.
THEOREM ImplementsLifecycle == Spec => Lifecycle
<1> DEFINE Inv == stray = {} => LifeInv
           OnwardStep == stray' = {} => L!Next
<1>1. Inv /\ [Next]_vars => Inv' /\ [OnwardStep]_(session.status)
  BY StepMoves, Followed
<1>2. Init => Inv /\ L!Init
  BY InitLives
<1> HIDE DEF Inv
<1> QED
  BY <1>1, <1>2, PTL DEF Spec, Lifecycle

\* As long as that is so, a call that is being executed is never shown as waiting
\* or settled.
THEOREM RunningIsCalling ==
    Spec => [](stray = {} => \A t \in running \cap Tools : session.status[t] = "calling")
<1> DEFINE Inv == stray = {} => LifeInv
           Shown == stray = {} => \A t \in running \cap Tools : session.status[t] = "calling"
<1>1. Inv /\ [Next]_vars => Inv'
  BY StepMoves, Followed
<1>2. Init => Inv
  BY InitLives
<1>3. Inv => Shown
  BY DEF LifeInv
<1> HIDE DEF Inv
<1> QED
  BY <1>1, <1>2, <1>3, PTL DEF Spec

----------------------------------------------------------------------------
(* Histories and what is left of them                                       *)

\* The indices of a history are bounded, so that there is a last one.
LEMMA LastOfProperties ==
    ASSUME NEW n \in Nat, NEW S \in SUBSET (1..n)
    PROVE  /\ LastOf(S) \in 0..n
           /\ LastOf(S) = 0 => S = {}
           /\ LastOf(S) # 0 => LastOf(S) \in S /\ \A j \in S : j <= LastOf(S)
<1>1. CASE S = {}
  BY <1>1 DEF LastOf
<1>2. CASE S # {}
  <2> DEFINE m == CHOOSE i \in S : \A j \in S : j <= i
  <2>1. \E i \in S : \A j \in S : j <= i
    BY <1>2, GreatestOf
  <2>2. m \in S /\ \A j \in S : j <= m
    BY <2>1
  <2>3. LastOf(S) = m
    BY <1>2 DEF LastOf
  <2> HIDE DEF m
  <2> QED BY <2>2, <2>3
<1> QED BY <1>1, <1>2

\* x is new and has no calls, or is what is left of the message q of h.
Left(x, h, q) ==
    \/ x.tools = {} /\ x.answers = {}
    \/ /\ q \in DOMAIN h
       /\ x.tools = h[q].tools /\ x.answers \subseteq h[q].answers
       /\ x.role = "assistant" => h[q].role = "assistant"

\* g is what is left of h when d messages after the first a of them are dropped.
LeftOf(g, h, a, d) ==
    \A p \in DOMAIN g : Left(g[p], h, IF p <= a THEN p ELSE p + d)
Within(g, h) == \E a, d \in Nat : LeftOf(g, h, a, d)

LEMMA SameWithin ==
    ASSUME NEW h \in Seq(Item)
    PROVE  LeftOf(h, h, 0, 0) /\ Within(h, h)
<1>1. LeftOf(h, h, 0, 0)
  BY DEF LeftOf, Left
<1> QED BY <1>1 DEF Within

LEMMA PrefixWithin ==
    ASSUME NEW h \in Seq(Item), NEW n \in Int, n <= Len(h)
    PROVE  /\ SubSeq(h, 1, n) \in Seq(Item)
           /\ Len(SubSeq(h, 1, n)) = IF n >= 1 THEN n ELSE 0
           /\ LeftOf(SubSeq(h, 1, n), h, 0, 0)
<1> DEFINE g == SubSeq(h, 1, n)
<1>1. \A i \in 1..n : h[i] \in Item
  OBVIOUS
<1>2. /\ g \in Seq(Item) /\ Len(g) = IF n >= 1 THEN n ELSE 0
      /\ \A i \in 1..n : g[i] = h[i]
  BY <1>1, SubSeqProperties
<1> HIDE DEF g
<1>3. LeftOf(g, h, 0, 0)
  BY <1>2 DEF LeftOf, Left
<1> QED BY <1>2, <1>3 DEF g

LEMMA AppendWithin ==
    ASSUME NEW g \in Seq(Item), NEW h, NEW a \in Nat, NEW d \in Nat, LeftOf(g, h, a, d),
           NEW x \in Item, x.tools = {} /\ x.answers = {}
    PROVE  /\ Append(g, x) \in Seq(Item) /\ Len(Append(g, x)) = Len(g) + 1
           /\ LeftOf(Append(g, x), h, a, d)
<1> DEFINE f == Append(g, x)
<1>1. /\ f \in Seq(Item) /\ Len(f) = Len(g) + 1
      /\ \A i \in 1..Len(g) : f[i] = g[i]
      /\ f[Len(g) + 1] = x
  BY AppendProperties
<1> HIDE DEF f
<1>2. ASSUME NEW p \in DOMAIN f PROVE Left(f[p], h, IF p <= a THEN p ELSE p + d)
  <2>1. CASE p \in 1..Len(g)
    BY <1>1, <2>1 DEF LeftOf
  <2>2. CASE p = Len(g) + 1
    BY <1>1, <2>2 DEF Left
  <2> QED BY <1>1, <2>1, <2>2
<1> QED BY <1>1, <1>2 DEF LeftOf, f

LEMMA PutWithin ==
    ASSUME NEW h \in Seq(Item), NEW i \in DOMAIN h, NEW x \in Item, Left(x, h, i)
    PROVE  [h EXCEPT ![i] = x] \in Seq(Item) /\ LeftOf([h EXCEPT ![i] = x], h, 0, 0)
<1> DEFINE g == [h EXCEPT ![i] = x]
<1>1. /\ g \in Seq(Item) /\ DOMAIN g = DOMAIN h
      /\ \A j \in DOMAIN h : g[j] = IF j = i THEN x ELSE h[j]
  BY ExceptSeq
<1> HIDE DEF g
<1>2. DOMAIN h \subseteq Nat
  OBVIOUS
<1>3. LeftOf(g, h, 0, 0)
  BY <1>1, <1>2 DEF LeftOf, Left
<1> QED BY <1>1, <1>3 DEF g

\* Message i and the one before it are deleted.
LEMMA DeleteWithin ==
    ASSUME NEW h \in Seq(Item), NEW i \in DOMAIN h
    PROVE  /\ SubSeq(h, 1, i - 2) \o SubSeq(h, i + 1, Len(h)) \in Seq(Item)
           /\ Within(SubSeq(h, 1, i - 2) \o SubSeq(h, i + 1, Len(h)), h)
<1> DEFINE n == Len(h)
           a == IF i >= 2 THEN i - 2 ELSE 0
           d == i - a
           front == SubSeq(h, 1, i - 2)
           back == SubSeq(h, i + 1, n)
           g == front \o back
<1>1. n \in Nat /\ i \in 1..n /\ \A p \in 1..n : h[p] \in Item
  BY LenProperties
<1>2. DOMAIN h = 1..n
  BY LenProperties
<1> HIDE DEF n
<1>3. a \in Nat /\ d \in Nat /\ a + d = i /\ a <= i /\ a = (IF 1 <= i - 2 THEN (i - 2) - 1 + 1 ELSE 0)
  BY <1>1
<1>4. front \in Seq(Item) /\ Len(front) = a /\ \A p \in 1..a : front[p] = h[p]
  <2>1. i - 2 \in Int /\ \A p \in 1..(i - 2) : h[p] \in Item
    BY <1>1
  <2>2. /\ front \in Seq(Item)
        /\ Len(front) = IF 1 <= i - 2 THEN (i - 2) - 1 + 1 ELSE 0
        /\ \A p \in 1..((i - 2) - 1 + 1) : front[p] = h[1 + p - 1]
    BY <2>1, SubSeqProperties
  <2>3. Len(front) = a
    BY <1>3, <2>2
  <2>4. \A p \in 1..a : p \in 1..((i - 2) - 1 + 1) /\ 1 + p - 1 = p
    BY <1>1
  <2> QED BY <2>2, <2>3, <2>4
<1>5. back \in Seq(Item) /\ Len(back) = n - i /\ \A p \in 1..(n - i) : back[p] = h[i + p]
  <2>1. i + 1 \in Int /\ n \in Int /\ \A p \in (i + 1)..n : h[p] \in Item
    BY <1>1
  <2>2. /\ back \in Seq(Item)
        /\ Len(back) = IF i + 1 <= n THEN n - (i + 1) + 1 ELSE 0
        /\ \A p \in 1..(n - (i + 1) + 1) : back[p] = h[(i + 1) + p - 1]
    BY <2>1, SubSeqProperties
  <2>3. (IF i + 1 <= n THEN n - (i + 1) + 1 ELSE 0) = n - i
    BY <1>1
  <2>4. \A p \in 1..(n - i) : p \in 1..(n - (i + 1) + 1) /\ (i + 1) + p - 1 = i + p
    BY <1>1
  <2> QED BY <2>2, <2>3, <2>4
<1> HIDE DEF front, back, a, d
<1>6. /\ g \in Seq(Item) /\ Len(g) = a + (n - i)
      /\ \A p \in 1..(a + (n - i)) : g[p] = IF p <= a THEN front[p] ELSE back[p - a]
  <2>1. /\ g \in Seq(Item) /\ Len(g) = Len(front) + Len(back)
        /\ \A p \in 1..(Len(front) + Len(back)) :
              g[p] = IF p <= Len(front) THEN front[p] ELSE back[p - Len(front)]
    BY <1>4, <1>5, ConcatProperties
  <2> HIDE DEF g
  <2> QED BY <1>4, <1>5, <2>1
<1> HIDE DEF g
<1>7. ASSUME NEW p \in DOMAIN g PROVE Left(g[p], h, IF p <= a THEN p ELSE p + d)
  <2>1. p \in 1..(a + (n - i))
    BY <1>6
  <2>2. CASE p <= a
    <3>1. p \in 1..a /\ p \in 1..n
      BY <1>1, <1>3, <2>1, <2>2
    <3>2. g[p] = h[p] /\ p \in DOMAIN h
      BY <1>2, <1>4, <1>6, <2>1, <2>2, <3>1
    <3> QED BY <2>2, <3>2 DEF Left
  <2>3. CASE ~(p <= a)
    <3>4. /\ n \in Int /\ i \in Int /\ a \in Int /\ d \in Int /\ p \in Int
          /\ i >= 1 /\ d >= 0 /\ a + d = i /\ p > a /\ p >= 1 /\ p <= a + (n - i)
      BY <1>1, <1>3, <2>1, <2>3
    <3>1. p - a \in 1..(n - i)
      BY <3>4
    <3>3. i + (p - a) = p + d /\ p + d \in 1..n
      BY <3>4
    <3>2. g[p] = h[p + d] /\ p + d \in DOMAIN h
      BY <1>2, <1>5, <1>6, <2>1, <2>3, <3>1, <3>3
    <3> QED BY <2>3, <3>2 DEF Left
  <2> QED BY <2>2, <2>3
<1>8. Within(g, h)
  BY <1>3, <1>7 DEF LeftOf, Within
<1> QED BY <1>6, <1>8 DEF g, front, back, n

LEMMA NothingWithin ==
    ASSUME NEW h PROVE <<>> \in Seq(Item) /\ Within(<<>>, h)
<1>1. \A p \in DOMAIN <<>> : FALSE
  OBVIOUS
<1>2. LeftOf(<<>>, h, 0, 0)
  BY <1>1 DEF LeftOf
<1> QED BY <1>2 DEF Within

----------------------------------------------------------------------------
(* The reducers: their types, and what they leave of the history            *)

LEMMA FlagTyping ==
    ASSUME NEW ss \in Session
    PROVE  /\ SetActive(ss) \in Session /\ SetActive(ss).history = ss.history
           /\ SetInactive(ss) \in Session /\ SetInactive(ss).history = ss.history
BY DEF Session, SetActive, SetInactive, Slice

LEMMA SetStatusTyping ==
    ASSUME NEW ss \in Session, NEW tools, NEW st \in L!Statuses
    PROVE  /\ SetStatus(ss, tools, st) \in Session
           /\ SetStatus(ss, tools, st).history = ss.history
BY DEF Session, SetStatus, Slice

LEMMA CancelStreamTyping ==
    ASSUME NEW ss \in Session
    PROVE  /\ CancelStream(ss) \in Session
           /\ Within(CancelStream(ss).history, ss.history)
<1> DEFINE qs == SetInactive(ss)
           h == qs.history
           last == LastOf(Where(h, UserOrTool))
           valid == LastOf({i \in DOMAIN h : i > last /\ Valid(qs, h[i])})
           pending == WithStatus(qs, h[valid].tools, "generated")
           canceled == SetStatus(qs, pending, "canceled")
           cut == IF h[last].role = "user" THEN last - 1 ELSE last
<1>1. qs \in Session /\ h = ss.history /\ h \in Seq(Item) /\ Len(h) \in Nat /\ DOMAIN h = 1..Len(h)
  <2>1. qs \in Session /\ h = ss.history
    BY FlagTyping
  <2> QED BY <2>1 DEF Session
<1> HIDE DEF qs
<1>2. last \in 0..Len(h)
  <2> DEFINE S == {i \in DOMAIN h : UserOrTool(h[i])}
  <2>1. S \in SUBSET (1..Len(h)) /\ last = LastOf(S)
    BY <1>1 DEF Where
  <2> HIDE DEF S
  <2> QED BY <1>1, <2>1, LastOfProperties
<1>3. valid \in 0..Len(h)
  <2> DEFINE S == {i \in DOMAIN h : i > last /\ Valid(qs, h[i])}
  <2>1. S \in SUBSET (1..Len(h))
    BY <1>1
  <2>2. LastOf(S) \in 0..Len(h)
    <3> HIDE DEF S
    <3> QED BY <1>1, <2>1, LastOfProperties
  <2> QED BY <2>2
<1>4. canceled \in Session
  <2> HIDE DEF pending
  <2>1. "canceled" \in L!Statuses
    BY DEF L!Statuses
  <2> QED BY <1>1, <2>1, SetStatusTyping
<1>5. cut \in Int /\ cut <= Len(h)
  BY <1>1, <1>2
<1>6. CancelStream(ss) = IF Len(h) < 2 THEN qs
                         ELSE IF valid # 0
                         THEN Slice(SubSeq(h, 1, valid), canceled.status, qs.streaming)
                         ELSE Slice(SubSeq(h, 1, cut), qs.status, qs.streaming)
  BY DEF CancelStream, ClearDangling, qs
<1> HIDE DEF valid, cut, canceled, last
<1>7. \A n \in Int : n <= Len(h) => SubSeq(h, 1, n) \in Seq(Item) /\ Within(SubSeq(h, 1, n), h)
  BY <1>1, PrefixWithin DEF Within
<1>8. CASE Len(h) < 2
  BY <1>1, <1>6, <1>8, SameWithin
<1>9. CASE Len(h) >= 2 /\ valid # 0
  <2>1. CancelStream(ss) = Slice(SubSeq(h, 1, valid), canceled.status, qs.streaming)
    BY <1>1, <1>6, <1>9
  <2>2. SubSeq(h, 1, valid) \in Seq(Item) /\ Within(SubSeq(h, 1, valid), h)
    BY <1>3, <1>7
  <2> QED BY <1>1, <1>4, <2>1, <2>2 DEF Slice, Session
<1>10. CASE Len(h) >= 2 /\ valid = 0
  <2>1. CancelStream(ss) = Slice(SubSeq(h, 1, cut), qs.status, qs.streaming)
    BY <1>1, <1>6, <1>10
  <2>2. SubSeq(h, 1, cut) \in Seq(Item) /\ Within(SubSeq(h, 1, cut), h)
    BY <1>5, <1>7
  <2> QED BY <1>1, <2>1, <2>2 DEF Slice, Session
<1> QED BY <1>1, <1>8, <1>9, <1>10

LEMMA SubmitAtTyping ==
    ASSUME NEW ss \in Session, NEW i \in 1..(Len(ss.history) + 1)
    PROVE  /\ SubmitAt(ss, i) \in Session
           /\ Within(SubmitAt(ss, i).history, ss.history)
<1> DEFINE h == ss.history
           empty == Message("assistant", FALSE, {})
           new == Message("user", FALSE, {})
           again == [h[i] EXCEPT !.text = FALSE]
           kept == IF i <= Len(h) THEN Append(SubSeq(h, 1, i - 1), again) ELSE Append(h, new)
<1>1. h \in Seq(Item) /\ Len(h) \in Nat
  BY DEF Session
<1>2. /\ empty \in Item /\ empty.tools = {} /\ empty.answers = {}
      /\ new \in Item /\ new.tools = {} /\ new.answers = {}
  BY DEF Item, Message
<1>3. SubmitAt(ss, i) = Slice(Append(kept, empty), ss.status, TRUE)
  BY DEF SubmitAt
<1> HIDE DEF empty, new
<1>4. kept \in Seq(Item) /\ LeftOf(kept, h, 0, 0)
  <2>1. CASE i <= Len(h)
    <3> DEFINE front == SubSeq(h, 1, i - 1)
    <3>1. h[i] \in Item /\ i \in DOMAIN h
      BY <1>1, <2>1
    <3>2. again \in Item /\ Left(again, h, i)
      BY <3>1 DEF Left, Item
    <3>3. front \in Seq(Item) /\ Len(front) = i - 1 /\ LeftOf(front, h, 0, 0)
      BY <1>1, <2>1, PrefixWithin
    <3> HIDE DEF front, again
    <3>4. /\ Append(front, again) \in Seq(Item) /\ Len(Append(front, again)) = i
          /\ \A p \in 1..(i - 1) : Append(front, again)[p] = front[p]
          /\ Append(front, again)[i] = again
      <4>1. (i - 1) + 1 = i
        OBVIOUS
      <4> QED BY <3>2, <3>3, <4>1, AppendProperties
    <3>5. \A p \in 1..i : Left(Append(front, again)[p], h, p)
      <4>1. \A p \in 1..(i - 1) : Left(front[p], h, p)
        BY <3>3 DEF LeftOf
      <4> QED BY <3>2, <3>4, <4>1
    <3>6. LeftOf(Append(front, again), h, 0, 0)
      BY <3>4, <3>5 DEF LeftOf
    <3> QED BY <2>1, <3>4, <3>6 DEF front
  <2>2. CASE ~(i <= Len(h))
    BY <1>1, <1>2, <2>2, SameWithin, AppendWithin
  <2> QED BY <2>1, <2>2
<1> HIDE DEF kept
<1>5. Append(kept, empty) \in Seq(Item) /\ LeftOf(Append(kept, empty), h, 0, 0)
  BY <1>2, <1>4, AppendWithin
<1>6. Within(Append(kept, empty), h)
  BY <1>5 DEF Within
<1> QED BY <1>3, <1>5, <1>6 DEF Slice, Session

LEMMA UpdateItemTyping ==
    ASSUME NEW ss \in Session, NEW i \in Nat
    PROVE  /\ UpdateItem(ss, i) \in Session
           /\ Within(UpdateItem(ss, i).history, ss.history)
<1> DEFINE h == ss.history
           new == Message("user", TRUE, {})
           x == [h[i] EXCEPT !.role = "user", !.text = TRUE, !.answers = {}]
<1>1. h \in Seq(Item) /\ Len(h) \in Nat /\ DOMAIN h = 1..Len(h)
  BY DEF Session
<1>2. UpdateItem(ss, i) = Slice(Updated(h, i), ss.status, ss.streaming)
  BY DEF UpdateItem
<1>3. Updated(h, i) = IF i <= Len(h) THEN [h EXCEPT ![i] = x]
                      ELSE IF i = 1 THEN <<new>> ELSE h
  BY DEF Updated
<1>4. Updated(h, i) \in Seq(Item) /\ Within(Updated(h, i), h)
  <2>1. CASE i \in DOMAIN h
    <3>1. h[i] \in Item
      BY <1>1, <2>1
    <3>2. x \in Item /\ Left(x, h, i)
      BY <2>1, <3>1 DEF Item, Left
    <3>3. Updated(h, i) = [h EXCEPT ![i] = x]
      BY <1>1, <1>3, <2>1
    <3> HIDE DEF x
    <3>4. [h EXCEPT ![i] = x] \in Seq(Item) /\ LeftOf([h EXCEPT ![i] = x], h, 0, 0)
      BY <1>1, <2>1, <3>2, PutWithin
    <3> QED BY <3>3, <3>4 DEF Within
  <2>2. CASE i = 0
    <3>1. Updated(h, i) = [h EXCEPT ![i] = x]
      BY <1>1, <1>3, <2>2
    <3> HIDE DEF x
    <3>2. [h EXCEPT ![i] = x] = h
      BY <1>1, <2>2
    <3> QED BY <1>1, <3>1, <3>2, SameWithin
  <2>3. CASE i > Len(h) /\ i = 1
    <3>1. new \in Item /\ new.tools = {} /\ new.answers = {}
      BY DEF new, Message, Item
    <3> HIDE DEF new, x
    <3>2. Updated(h, i) = <<new>>
      <4>1. ~(i <= Len(h)) /\ i = 1
        BY <1>1, <2>3
      <4> QED BY <1>3, <4>1
    <3>3. <<new>> \in Seq(Item) /\ \A p \in DOMAIN <<new>> : <<new>>[p] = new
      BY <3>1
    <3>4. LeftOf(<<new>>, h, 0, 0)
      BY <3>1, <3>3 DEF LeftOf, Left
    <3> QED BY <3>2, <3>3, <3>4 DEF Within
  <2>4. CASE i > Len(h) /\ i # 1
    BY <1>1, <1>3, <2>4, SameWithin
  <2> QED BY <1>1, <2>1, <2>2, <2>3, <2>4
<1> QED BY <1>2, <1>4 DEF Slice, Session

\* A streamed message is put behind the others, or joins the last one.
LEMMA StreamedProperties ==
    ASSUME NEW h \in Seq(Item), NEW message \in Item, h # << >>
    PROVE  /\ Streamed(h, message) \in Seq(Item)
           /\ \/ /\ message.role # h[Len(h)].role \/ message.role = "tool"
                 /\ Streamed(h, message) = Append(h, message)
              \/ /\ message.role = h[Len(h)].role /\ message.role # "tool"
                 /\ Len(h) \in DOMAIN h
                 /\ \E x \in Item :
                       /\ x.role = h[Len(h)].role /\ x.answers = h[Len(h)].answers
                       /\ x.tools = h[Len(h)].tools \cup (IF message.text THEN {} ELSE message.tools)
                       /\ Streamed(h, message) = [h EXCEPT ![Len(h)] = x]
<1> DEFINE last == h[Len(h)]
           joined == IF message.text THEN [last EXCEPT !.text = TRUE]
                     ELSE [last EXCEPT !.tools = @ \cup message.tools]
<1>1. Len(h) \in DOMAIN h /\ last \in Item
  BY EmptySeq
<1>2. /\ joined \in Item /\ joined.role = last.role /\ joined.answers = last.answers
      /\ joined.tools = last.tools \cup (IF message.text THEN {} ELSE message.tools)
  BY <1>1 DEF Item
<1>3. Streamed(h, message) = IF message.role # last.role \/ message.role = "tool"
                             THEN Append(h, message) ELSE [h EXCEPT ![Len(h)] = joined]
  BY DEF Streamed
<1> HIDE DEF joined
<1>4. Append(h, message) \in Seq(Item) /\ [h EXCEPT ![Len(h)] = joined] \in Seq(Item)
  BY <1>1, <1>2, AppendProperties, ExceptSeq
<1> QED BY <1>1, <1>2, <1>3, <1>4

LEMMA StreamUpdateTyping ==
    ASSUME NEW ss \in Session, NEW message \in Item
    PROVE  /\ StreamUpdate(ss, message) \in Session
           /\ StreamUpdate(ss, message).history = Streamed(ss.history, message)
           /\ ss.history = << >> => Streamed(ss.history, message) = << >>
<1> DEFINE new == Slice(Streamed(ss.history, message), ss.status, ss.streaming)
<1>1. Streamed(ss.history, message) \in Seq(Item)
  BY StreamedProperties DEF Streamed, Session
<1>2. new \in Session /\ new.history = Streamed(ss.history, message)
  BY <1>1 DEF Slice, Session
<1>3. "generating" \in L!Statuses
  BY DEF L!Statuses
<1>4. StreamUpdate(ss, message) = SetStatus(new, message.tools, "generating")
  BY DEF StreamUpdate
<1> HIDE DEF new
<1> QED BY <1>2, <1>3, <1>4, SetStatusTyping DEF Streamed

LEMMA SpendTyping ==
    ASSUME spent \in [Kinds -> Nat], \A k \in Kinds : spent[k] <= Limit[k],
           NEW kind \in Kinds, May(kind), Spend(kind)
    PROVE  spent' \in [Kinds -> Nat] /\ \A k \in Kinds : spent'[k] <= Limit[k]
<1>1. /\ spent' \in [Kinds -> Nat]
      /\ \A k \in Kinds : spent'[k] = IF k = kind THEN spent[k] + 1 ELSE spent[k]
  BY DEF Spend
<1>2. \A k \in Kinds : spent[k] \in Nat /\ Limit[k] \in Nat
  BY LimitAssumption
<1>3. spent[kind] < Limit[kind]
  BY DEF May
<1>4. spent[kind] + 1 <= Limit[kind]
  BY <1>2, <1>3
<1> QED BY <1>1, <1>4

----------------------------------------------------------------------------
(* Types, and what a step leaves of the history                             *)

\* The parts of TypeOK besides the session.
RestTypeOK ==
    /\ at \in [Streams -> {"idle", "context", "compile", "llm", "tools", "ended"}]
    /\ input \in [Streams -> Nat]
    /\ running \subseteq Tools
    /\ maker \in [Tools -> Streams \cup {User}] /\ stray \subseteq Tools
    /\ caller \in [Tools -> Streams \cup {User}]
    /\ sent \in [Tools -> Nat]
    /\ spent \in [Kinds -> Nat] /\ \A k \in Kinds : spent[k] <= Limit[k]

LEMMA RestTyping == TypeOK /\ [Next]_vars => RestTypeOK'
<1> SUFFICES ASSUME RestTypeOK, [Next]_vars PROVE RestTypeOK'
  BY DEF TypeOK, RestTypeOK
<1> USE DEF RestTypeOK, deltas, ghosts, Go
<1>1. ASSUME NEW i \in 1..(Len(session.history) + 1),
             Submit(i) \/ TruncateHistoryToMessage(i) \/ DeleteMessage(i)
      PROVE  RestTypeOK'
  <2>1. spent' \in [Kinds -> Nat] /\ \A k \in Kinds : spent'[k] <= Limit[k]
    BY <1>1, SpendTyping DEF Submit, TruncateHistoryToMessage, DeleteMessage, Kinds
  <2>2. i \in Nat
    BY LenProperties
  <2> QED BY <1>1, <2>1, <2>2 DEF Submit, TruncateHistoryToMessage, DeleteMessage
<1>2. ASSUME NEW s \in Streams, Resolve(s) \/ StartLLM(s) PROVE RestTypeOK'
  BY <1>2 DEF Resolve, StartLLM
<1>3. ASSUME NEW s \in Streams, TooLong(s) \/ Fail(s) PROVE RestTypeOK'
  <2>1. spent' \in [Kinds -> Nat] /\ \A k \in Kinds : spent'[k] <= Limit[k]
    BY <1>3, SpendTyping DEF TooLong, Fail, Kinds
  <2> QED BY <1>3, <2>1 DEF TooLong, Fail
<1>4. ASSUME NEW s \in Streams, Finish(s) PROVE RestTypeOK'
  <2> DEFINE made == WithStatus(session, CurrentTools(session), "generating")
             auto == made # {} /\ made \subseteq Automatic
  <2>1. at' = [at EXCEPT ![s] = IF auto THEN "tools" ELSE "ended"]
    BY <1>4 DEF Finish
  <2>2. running' = running \cup (IF auto THEN made ELSE {})
    BY <1>4 DEF Finish
  <2>3. caller' = [t \in Tools |-> IF auto /\ t \in made THEN s ELSE caller[t]]
    BY <1>4 DEF Finish
  <2>4. UNCHANGED <<input, maker, stray, sent, spent>>
    BY <1>4 DEF Finish
  <2>5. made \subseteq Automatic => made \subseteq Tools
    BY LimitAssumption
  <2> HIDE DEF made
  <2> QED BY <2>1, <2>2, <2>3, <2>4, <2>5
<1>5. ASSUME NEW s \in Streams, NEW text \in BOOLEAN, NEW made \in SUBSET Tools, Chunk(s, text, made)
      PROVE  RestTypeOK'
  BY <1>5 DEF Chunk
<1>6. ASSUME NEW t \in Tools, Accept(t) PROVE RestTypeOK'
  BY <1>6 DEF Accept
<1>7. ASSUME NEW t \in Tools, Reject(t) \/ ToolFails(t) PROVE RestTypeOK'
  <2>1. spent' \in [Kinds -> Nat] /\ \A k \in Kinds : spent'[k] <= Limit[k]
    BY <1>7, SpendTyping DEF Reject, ToolFails, Kinds
  <2> QED BY <1>7, <2>1 DEF Reject, ToolFails
<1>8. ASSUME NEW t \in Tools, NEW outcome \in {"done", "errored"}, ToolResult(t, outcome)
      PROVE  RestTypeOK'
  <2> DEFINE filled == StreamUpdate(SetStatus(session, {t}, outcome), Result(t))
             batch == Siblings(filled, t)
  <2>1. running' = running \ {t} /\ UNCHANGED <<input, maker, stray, caller, spent>>
    BY <1>8 DEF ToolResult
  <2>2. \/ UNCHANGED <<at, sent>>
        \/ /\ at' = [at EXCEPT ![NextStream] = "compile"]
           /\ sent' = [u \in Tools |->
                 IF u \in batch \cup {t} /\ HasResult(filled, u) THEN sent[u] + 1 ELSE sent[u]]
    BY <1>8 DEF ToolResult
  <2> HIDE DEF batch, filled
  <2> QED BY <2>1, <2>2
<1>9. CASE Stop \/ NewSession
  <2>1. spent' \in [Kinds -> Nat] /\ \A k \in Kinds : spent'[k] <= Limit[k]
    BY <1>9, SpendTyping DEF Stop, NewSession, Kinds
  <2> QED BY <1>9, <2>1 DEF Stop, NewSession
<1>10. CASE UNCHANGED vars
  BY <1>10 DEF vars
<1>11. ASSUME NEW s \in Streams, NEW t \in Tools, NEW u \in Tools, LaterDelta(s, t, u)
       PROVE  RestTypeOK'
  <2>1. stray' \subseteq Tools
    BY <1>11 DEF LaterDelta
  <2> QED BY <1>11, <2>1 DEF LaterDelta
<1> QED BY <1>1, <1>2, <1>3, <1>4, <1>5, <1>6, <1>7, <1>8, <1>9, <1>10, <1>11 DEF Next, Step

\* But for a chunk and a result, and a fragment that goes astray, a step leaves some
\* of the messages, in their order, and adds none that makes or answers calls.
LEMMA HistoryStep ==
    ASSUME TypeOK, [Next]_vars
    PROVE  /\ session' \in Session
           /\ \/ Within(session'.history, session.history) /\ sent' = sent
              \/ \E s \in Streams, text \in BOOLEAN, made \in SUBSET Tools : Chunk(s, text, made)
              \/ \E t \in Tools, outcome \in {"done", "errored"} : ToolResult(t, outcome)
              \/ stray' # {}
<1>0. /\ session \in Session /\ session.history \in Seq(Item)
      /\ {"canceled", "calling", "generated", "done", "errored"} \subseteq L!Statuses
  BY DEF TypeOK, Session, L!Statuses
<1>a. \A h \in Seq(Item) : Within(h, h)
  BY SameWithin
<1>1. ASSUME NEW i \in 1..(Len(session.history) + 1), Submit(i)
      PROVE  session' \in Session /\ Within(session'.history, session.history) /\ sent' = sent
  <2> DEFINE ss == SetStatus(session, WithStatus(session, CurrentTools(session), "generated"), "canceled")
  <2>1. session' = SubmitAt(ss, i) /\ sent' = sent
    BY <1>1 DEF Submit, ghosts
  <2>2. ss \in Session /\ ss.history = session.history
    BY <1>0, SetStatusTyping
  <2> HIDE DEF ss
  <2> QED BY <2>1, <2>2, SubmitAtTyping
<1>2. ASSUME NEW i \in 1..(Len(session.history) + 1), TruncateHistoryToMessage(i)
      PROVE  session' \in Session /\ Within(session'.history, session.history) /\ sent' = sent
  <2> DEFINE h == session.history
             g == SubSeq(h, 1, i)
             empty == Message("assistant", FALSE, {})
  <2>1. session' = Slice(Append(g, empty), session.status, FALSE) /\ i \in DOMAIN h /\ sent' = sent
    BY <1>2 DEF TruncateHistoryToMessage, ghosts
  <2>2. empty \in Item /\ empty.tools = {} /\ empty.answers = {}
    BY DEF Item, Message
  <2>3. i \in Int /\ i <= Len(h)
    BY <1>0, <2>1
  <2>4. g \in Seq(Item) /\ LeftOf(g, h, 0, 0)
    BY <1>0, <2>3, PrefixWithin
  <2> HIDE DEF empty, g
  <2>5. Append(g, empty) \in Seq(Item) /\ LeftOf(Append(g, empty), h, 0, 0)
    BY <2>2, <2>4, AppendWithin
  <2>6. Within(Append(g, empty), h)
    BY <2>5 DEF Within
  <2> QED BY <1>0, <2>1, <2>5, <2>6 DEF Slice, Session
<1>3. ASSUME NEW i \in 1..(Len(session.history) + 1), DeleteMessage(i)
      PROVE  session' \in Session /\ Within(session'.history, session.history) /\ sent' = sent
  <2> DEFINE h == session.history
             g == SubSeq(h, 1, i - 2) \o SubSeq(h, i + 1, Len(h))
  <2>1. session' = Slice(g, session.status, FALSE) /\ i \in DOMAIN h /\ sent' = sent
    BY <1>3 DEF DeleteMessage, ghosts
  <2>2. g \in Seq(Item) /\ Within(g, h)
    BY <1>0, <2>1, DeleteWithin
  <2> HIDE DEF g
  <2> QED BY <1>0, <2>1, <2>2 DEF Slice, Session
<1>4. ASSUME NEW s \in Streams, Resolve(s)
      PROVE  session' \in Session /\ Within(session'.history, session.history) /\ sent' = sent
  <2>1. session' = SetActive(UpdateItem(session, input[s])) /\ sent' = sent /\ input[s] \in Nat
    BY <1>4 DEF Resolve, ghosts, TypeOK
  <2> QED BY <1>0, <2>1, UpdateItemTyping, FlagTyping
<1>5. ASSUME NEW s \in Streams, StartLLM(s) \/ TooLong(s)
      PROVE  session' \in Session /\ Within(session'.history, session.history) /\ sent' = sent
  BY <1>0, <1>5, FlagTyping, SameWithin DEF StartLLM, TooLong, ghosts
<1>6. ASSUME NEW s \in Streams, Finish(s)
      PROVE  session' \in Session /\ Within(session'.history, session.history) /\ sent' = sent
  <2> DEFINE made == WithStatus(session, CurrentTools(session), "generating")
  <2>1. /\ session' \in {SetStatus(session, made, "calling"),
                         SetStatus(SetInactive(session), made, "generated")}
        /\ sent' = sent
    BY <1>6 DEF Finish
  <2> HIDE DEF made
  <2>2. SetInactive(session) \in Session /\ SetInactive(session).history = session.history
    BY <1>0, FlagTyping
  <2>3. session' \in Session /\ session'.history = session.history
    BY <1>0, <2>1, <2>2, SetStatusTyping
  <2> QED BY <1>0, <1>a, <2>1, <2>3
<1>7. ASSUME session' = CancelStream(session), sent' = sent
      PROVE  session' \in Session /\ Within(session'.history, session.history) /\ sent' = sent
  BY <1>0, <1>7, CancelStreamTyping
<1>8. ASSUME NEW s \in Streams, Fail(s)
      PROVE  session' \in Session /\ Within(session'.history, session.history) /\ sent' = sent
  BY <1>7, <1>8 DEF Fail, ghosts
<1>9. ASSUME NEW t \in Tools, Accept(t) \/ Reject(t)
      PROVE  session' \in Session /\ Within(session'.history, session.history) /\ sent' = sent
  <2>1. /\ session' \in {SetStatus(session, {t}, "calling"), SetStatus(session, {t}, "canceled")}
        /\ sent' = sent
    BY <1>9 DEF Accept, Reject, ghosts
  <2>2. session' \in Session /\ session'.history = session.history
    BY <1>0, <2>1, SetStatusTyping
  <2> QED BY <1>0, <1>a, <2>1, <2>2
<1>10. ASSUME NEW t \in Tools, ToolFails(t)
       PROVE  session' \in Session /\ Within(session'.history, session.history) /\ sent' = sent
  <2>1. session' \in {session, CancelStream(session)} /\ sent' = sent
    BY <1>10 DEF ToolFails, ghosts
  <2> QED BY <1>0, <1>a, <1>7, <2>1
<1>11. CASE Stop
  BY <1>7, <1>11 DEF Stop, ghosts
<1>12. CASE NewSession
  <2>1. session' = Slice(<< >>, session.status, FALSE) /\ sent' = sent
    BY <1>12 DEF NewSession, ghosts
  <2> QED BY <1>0, <2>1, NothingWithin DEF Slice, Session
<1>13. ASSUME NEW s \in Streams, NEW text \in BOOLEAN, NEW made \in SUBSET Tools, Chunk(s, text, made)
       PROVE  session' \in Session
  <2>1. Message("assistant", text, made) \in Item
    BY DEF Item, Message
  <2>2. session' = StreamUpdate(session, Message("assistant", text, made))
    BY <1>13 DEF Chunk
  <2> QED BY <1>0, <2>1, <2>2, StreamUpdateTyping
<1>14. ASSUME NEW t \in Tools, NEW outcome \in {"done", "errored"}, ToolResult(t, outcome)
       PROVE  session' \in Session
  <2> DEFINE settled == SetStatus(session, {t}, outcome)
             filled == StreamUpdate(settled, Result(t))
  <2>1. session' \in {session, filled, SetActive(filled)}
    BY <1>14 DEF ToolResult
  <2>2. Result(t) \in Item
    BY DEF Item, Result
  <2>3. settled \in Session
    BY <1>0, SetStatusTyping
  <2> HIDE DEF settled
  <2>4. filled \in Session
    BY <2>2, <2>3, StreamUpdateTyping
  <2> HIDE DEF filled
  <2> QED BY <1>0, <2>1, <2>4, FlagTyping
<1>15. CASE UNCHANGED vars
  BY <1>0, <1>a, <1>15 DEF vars, ghosts
<1>16. ASSUME NEW s \in Streams, NEW t \in Tools, NEW u \in Tools, LaterDelta(s, t, u)
       PROVE  session' \in Session
  <2> DEFINE m == Message("assistant", FALSE, {u})
  <2>1. m \in Item
    BY DEF Item, Message
  <2>2. session' = StreamUpdate(session, m)
    BY <1>16 DEF LaterDelta
  <2> HIDE DEF m
  <2> QED BY <1>0, <2>1, <2>2, StreamUpdateTyping
<1>17. ASSUME NEW s \in Streams, NEW t \in Tools, NEW u \in Tools, LaterDelta(s, t, u), stray' = {}
       PROVE  Within(session'.history, session.history) /\ sent' = sent
  BY <1>0, <1>a, <1>17, InPlace DEF ghosts
<1> QED BY <1>1, <1>2, <1>3, <1>4, <1>5, <1>6, <1>8, <1>9, <1>10, <1>11, <1>12, <1>13, <1>14, <1>15,
           <1>16, <1>17 DEF Next, Step

LEMMA InitTypes == Init => TypeOK
<1> SUFFICES ASSUME Init PROVE TypeOK
  OBVIOUS
<1>1. session \in Session
  BY DEF Init, Session, Slice, L!Statuses
<1>2. \A k \in Kinds : spent[k] = 0 /\ Limit[k] \in Nat /\ spent[k] <= Limit[k]
  BY LimitAssumption DEF Init
<1>3. spent \in [Kinds -> Nat]
  BY DEF Init
<1> QED BY <1>1, <1>2, <1>3 DEF Init, TypeOK

LEMMA TypesStep == TypeOK /\ [Next]_vars => TypeOK'
BY HistoryStep, RestTyping DEF TypeOK, RestTypeOK

\* The session is a history of messages with the calls they make and answer, the
\* status of each call, and a flag, whatever is streamed, cut or deleted.
THEOREM Typing == Spec => []TypeOK
BY InitTypes, TypesStep, PTL DEF Spec
----------------------------------------------------------------------------
(* No result is sent twice                                                  *)

\* A call is made once in a history, and answered behind it.
Ordered(h) ==
    \A p, q \in DOMAIN h : \A t \in h[p].tools :
        /\ t \in h[q].tools => p = q
        /\ t \in h[q].answers => p < q

\* What a history holds of a call agrees with the status of the call.
Settled(ss) ==
    \A p \in DOMAIN ss.history :
        /\ \A t \in ss.history[p].tools : ss.status[t] # "unused"
        /\ \A t \in ss.history[p].answers : Returned(ss, t)

\* When one result of a message was sent, and is still there, all had returned.
Whole(ss, count) ==
    \A p \in DOMAIN ss.history : \A t \in ss.history[p].tools :
        ss.history[p].role = "assistant" /\ count[t] > 0 /\ HasResult(ss, t)
        => \A u \in ss.history[p].tools : Returned(ss, u)

SentInv ==
    /\ Ordered(session.history)
    /\ Settled(session)
    /\ Whole(session, sent)
    /\ \A t \in Tools : sent[t] <= 1 /\ (sent[t] > 0 => Returned(session, t))

\* No call gets unused again, and a call that has returned stays so.
Forward(new, old) ==
    \A t \in Tools : /\ old.status[t] # "unused" => new.status[t] # "unused"
                     /\ Returned(old, t) => Returned(new, t)

LEMMA MovesForward == L!Next => Forward(session', session)
BY DEF L!Next, L!Onward, Forward, Returned

\* Dropping messages takes nothing of this away.
LEMMA WithinKeeps ==
    ASSUME NEW new \in Session, NEW old \in Session, NEW count,
           Within(new.history, old.history), Forward(new, old),
           Ordered(old.history), Settled(old), Whole(old, count)
    PROVE  Ordered(new.history) /\ Settled(new) /\ Whole(new, count)
<1> DEFINE g == new.history
           h == old.history
<1>1. PICK a \in Nat, d \in Nat : LeftOf(g, h, a, d)
  BY DEF Within
<1> DEFINE f(p) == IF p <= a THEN p ELSE p + d
<1>2. /\ g \in Seq(Item) /\ h \in Seq(Item) /\ DOMAIN g \subseteq Nat
      /\ \A p \in DOMAIN g : g[p].tools \subseteq Tools /\ g[p].answers \subseteq Tools
  <2>1. g \in Seq(Item) /\ h \in Seq(Item)
    BY DEF Session
  <2>2. \A p \in DOMAIN g : g[p] \in Item
    BY <2>1
  <2> QED BY <2>1, <2>2 DEF Item
<1>3. \A p, q \in DOMAIN g : (f(p) = f(q) => p = q) /\ (f(p) < f(q) => p < q)
  BY <1>2
<1>4. \A p \in DOMAIN g : Left(g[p], h, f(p))
  BY <1>1 DEF LeftOf
<1> HIDE DEF f
<1>5. \A p \in DOMAIN g : \A t \in g[p].tools :
         /\ f(p) \in DOMAIN h /\ t \in h[f(p)].tools /\ g[p].tools = h[f(p)].tools
         /\ g[p].role = "assistant" => h[f(p)].role = "assistant"
  BY <1>4 DEF Left
<1>6. \A p \in DOMAIN g : \A t \in g[p].answers : f(p) \in DOMAIN h /\ t \in h[f(p)].answers
  BY <1>4 DEF Left
<1>7. Ordered(g)
  <2> SUFFICES ASSUME NEW p \in DOMAIN g, NEW q \in DOMAIN g, NEW t \in g[p].tools
               PROVE  (t \in g[q].tools => p = q) /\ (t \in g[q].answers => p < q)
    BY DEF Ordered
  <2>1. t \in g[q].tools => f(p) = f(q)
    BY <1>5 DEF Ordered
  <2>2. t \in g[q].answers => f(p) < f(q)
    BY <1>5, <1>6 DEF Ordered
  <2> QED BY <1>3, <2>1, <2>2
<1>8. Settled(new)
  <2> SUFFICES ASSUME NEW p \in DOMAIN g
               PROVE  /\ \A t \in g[p].tools : new.status[t] # "unused"
                      /\ \A t \in g[p].answers : Returned(new, t)
    BY DEF Settled
  <2>1. \A t \in g[p].tools : old.status[t] # "unused"
    BY <1>5 DEF Settled
  <2>2. \A t \in g[p].answers : Returned(old, t)
    BY <1>6 DEF Settled
  <2> QED BY <1>2, <2>1, <2>2 DEF Forward
<1>9. Whole(new, count)
  <2> SUFFICES ASSUME NEW p \in DOMAIN g, NEW t \in g[p].tools,
                      g[p].role = "assistant", count[t] > 0, HasResult(new, t),
                      NEW u \in g[p].tools
               PROVE  Returned(new, u)
    BY DEF Whole
  <2>1. HasResult(old, t)
    BY <1>6 DEF HasResult
  <2>2. Returned(old, u)
    BY <1>5, <2>1 DEF Whole
  <2> QED BY <1>2, <2>2 DEF Forward
<1> QED BY <1>7, <1>8, <1>9
\* A chunk grows the last message, when that is an answer, or begins one.
LEMMA ChunkHistory ==
    ASSUME TypeOK, NEW s \in Streams, NEW text \in BOOLEAN, NEW made \in SUBSET Tools,
           Chunk(s, text, made)
    PROVE  LET h == session.history
               g == session'.history
           IN  /\ session' \in Session
               /\ h \in Seq(Item) /\ DOMAIN h = 1..Len(h) /\ Len(h) \in Nat
               /\ g \in Seq(Item) /\ DOMAIN g = 1..Len(g)
               /\ \/ h = << >> /\ g = << >>
                  \/ /\ h # << >> /\ h[Len(h)].role = "assistant" /\ Len(g) = Len(h)
                     /\ \A p \in DOMAIN h :
                           /\ g[p].role = h[p].role /\ g[p].answers = h[p].answers
                           /\ g[p].tools = IF p = Len(h) THEN h[p].tools \cup made ELSE h[p].tools
                  \/ /\ h # << >> /\ h[Len(h)].role # "assistant" /\ Len(g) = Len(h) + 1
                     /\ \A p \in DOMAIN h : g[p] = h[p]
                     /\ g[Len(g)] = Message("assistant", text, made)
<1> DEFINE m == Message("assistant", text, made)
           h == session.history
           g == session'.history
<1>1. /\ session \in Session /\ m \in Item
      /\ session' = StreamUpdate(session, m)
      /\ m.tools = made /\ m.role = "assistant" /\ (m.text <=> made = {})
  BY DEF TypeOK, Chunk, Item, Message
<1>2. session' \in Session /\ g = Streamed(h, m) /\ (h = << >> => g = << >>)
  <2> HIDE DEF m
  <2> QED BY <1>1, StreamUpdateTyping
<1>3. /\ h \in Seq(Item) /\ g \in Seq(Item) /\ DOMAIN h = 1..Len(h) /\ Len(h) \in Nat
      /\ DOMAIN g = 1..Len(g)
  BY <1>1, <1>2 DEF Session
<1> HIDE DEF m
<1>4. CASE h = << >>
  BY <1>2, <1>3, <1>4
<1>5. CASE h # << >> /\ h[Len(h)].role = "assistant"
  <2>1. PICK x \in Item : /\ Len(h) \in DOMAIN h /\ x.role = h[Len(h)].role
                          /\ x.answers = h[Len(h)].answers
                          /\ x.tools = h[Len(h)].tools \cup (IF m.text THEN {} ELSE m.tools)
                          /\ Streamed(h, m) = [h EXCEPT ![Len(h)] = x]
    <3>1. m.role = h[Len(h)].role /\ m.role # "tool" /\ m \in Item /\ h \in Seq(Item) /\ h # << >>
      BY <1>1, <1>3, <1>5
    <3>2. /\ Len(h) \in DOMAIN h
          /\ \E x \in Item :
                /\ x.role = h[Len(h)].role /\ x.answers = h[Len(h)].answers
                /\ x.tools = h[Len(h)].tools \cup (IF m.text THEN {} ELSE m.tools)
                /\ Streamed(h, m) = [h EXCEPT ![Len(h)] = x]
      BY <3>1, StreamedProperties
    <3> QED BY <3>2
  <2>2. x.tools = h[Len(h)].tools \cup made
    BY <1>1, <2>1
  <2>3. /\ DOMAIN g = DOMAIN h /\ Len(g) = Len(h)
        /\ \A p \in DOMAIN h : g[p] = IF p = Len(h) THEN x ELSE h[p]
    BY <1>2, <1>3, <2>1, ExceptSeq
  <2> QED BY <1>2, <1>3, <1>5, <2>1, <2>2, <2>3
<1>6. CASE h # << >> /\ h[Len(h)].role # "assistant"
  <2>1. g = Append(h, m)
    <3>1. m.role # h[Len(h)].role
      BY <1>1, <1>6
    <3> QED BY <1>1, <1>2, <1>3, <1>6, <3>1, StreamedProperties
  <2>2. Len(g) = Len(h) + 1 /\ (\A p \in 1..Len(h) : g[p] = h[p]) /\ g[Len(h) + 1] = m
    BY <1>1, <1>3, <2>1, AppendProperties
  <2> QED BY <1>2, <1>3, <1>6, <2>2 DEF m
<1> QED BY <1>4, <1>5, <1>6

\* A call that is streamed is new to the history, and only the last message can
\* grow, which no result stands behind.
LEMMA ChunkKeepsSent ==
    ASSUME TypeOK, LifeInv, SentInv, NEW s \in Streams, NEW text \in BOOLEAN,
           NEW made \in SUBSET Tools, Chunk(s, text, made), Forward(session', session)
    PROVE  SentInv'
<1> DEFINE m == Message("assistant", text, made)
           h == session.history
           g == session'.history
<1>1. /\ session \in Session /\ sent' = sent
      /\ session' = StreamUpdate(session, m)
      /\ m.tools = made /\ m.answers = {}
      /\ \A t \in made : session.status[t] = "unused"
  BY DEF TypeOK, Chunk, Message, WithStatus, ghosts
<1>2. /\ session' \in Session /\ h \in Seq(Item) /\ DOMAIN h = 1..Len(h) /\ Len(h) \in Nat
      /\ g \in Seq(Item) /\ DOMAIN g = 1..Len(g)
  BY ChunkHistory
<1>3. g = Streamed(h, m)
  BY <1>1, <1>2 DEF StreamUpdate, SetStatus, Slice
<1>4. \A p \in DOMAIN g :
         \/ /\ p \in DOMAIN h /\ g[p].role = h[p].role
            /\ g[p].tools = h[p].tools /\ g[p].answers = h[p].answers
         \/ /\ p \in DOMAIN h /\ p = Len(h) /\ g[p].role = h[p].role /\ Len(g) = Len(h)
            /\ g[p].tools = h[p].tools \cup made /\ g[p].answers = h[p].answers
         \/ p = Len(h) + 1 /\ Len(g) = p /\ g[p].tools = made /\ g[p].answers = {}
  <2>1. \/ g = << >>
        \/ /\ Len(g) = Len(h)
           /\ \A p \in DOMAIN h :
                 /\ g[p].role = h[p].role /\ g[p].answers = h[p].answers
                 /\ g[p].tools = IF p = Len(h) THEN h[p].tools \cup made ELSE h[p].tools
        \/ /\ Len(g) = Len(h) + 1
           /\ \A p \in DOMAIN h : g[p] = h[p]
           /\ g[Len(g)] = m
    <3> HIDE DEF m
    <3> QED BY ChunkHistory DEF m
  <2> HIDE DEF m, g, h
  <2>2. CASE g = << >>
    BY <2>2
  <2>3. CASE /\ Len(g) = Len(h)
             /\ \A p \in DOMAIN h :
                   /\ g[p].role = h[p].role /\ g[p].answers = h[p].answers
                   /\ g[p].tools = IF p = Len(h) THEN h[p].tools \cup made ELSE h[p].tools
    BY <1>2, <2>3 DEF g, h
  <2>4. CASE /\ Len(g) = Len(h) + 1
             /\ \A p \in DOMAIN h : g[p] = h[p]
             /\ g[Len(g)] = m
    <3>1. \A p \in DOMAIN g : p \in DOMAIN h \/ p = Len(h) + 1
      BY <1>2, <2>4 DEF g, h
    <3> QED BY <1>1, <2>4, <3>1
  <2> QED BY <2>1, <2>2, <2>3, <2>4
<1> HIDE DEF m
<1>5. \A t \in made : /\ \A q \in DOMAIN h : t \notin h[q].tools /\ t \notin h[q].answers
                      /\ ~Returned(session, t)
  BY <1>1 DEF SentInv, Settled, Returned
<1>6. \A p \in DOMAIN g : g[p].tools \subseteq Tools /\ g[p].answers \subseteq Tools
  <2>1. \A p \in DOMAIN g : g[p] \in Item
    BY <1>2
  <2> QED BY <2>1 DEF Item
<1>7. Ordered(g)
  <2> SUFFICES ASSUME NEW p \in DOMAIN g, NEW q \in DOMAIN g, NEW t \in g[p].tools
               PROVE  (t \in g[q].tools => p = q) /\ (t \in g[q].answers => p < q)
    BY DEF Ordered
  <2>1. CASE t \in made
    BY <1>2, <1>4, <1>5, <2>1
  <2>2. CASE t \notin made
    <3>1. /\ p \in DOMAIN h /\ t \in h[p].tools
          /\ t \in g[q].tools => q \in DOMAIN h /\ t \in h[q].tools
          /\ t \in g[q].answers => q \in DOMAIN h /\ t \in h[q].answers
      BY <1>4, <2>2
    <3> QED BY <3>1 DEF SentInv, Ordered
  <2> QED BY <2>1, <2>2
<1>8. \A t \in made : InHistory(session', t) => session'.status[t] # "unused"
  <2> DEFINE fresh == Slice(Streamed(h, m), session.status, session.streaming)
  <2>1. session' = SetStatus(fresh, made, "generating")
    BY <1>1 DEF StreamUpdate
  <2>2. HasStatus(fresh) /\ fresh.history = g
    BY <1>3 DEF LifeInv, HasStatus, Slice
  <2>3. \A t \in made : InHistory(session', t) => InHistory(fresh, t)
    BY <2>2 DEF InHistory
  <2>4. "generating" \in L!Statuses
    BY DEF L!Statuses
  <2> HIDE DEF fresh
  <2> QED BY <2>1, <2>2, <2>3, <2>4, SetStatusMoves
<1>9. Settled(session')
  <2> SUFFICES ASSUME NEW p \in DOMAIN g
               PROVE  /\ \A t \in g[p].tools : session'.status[t] # "unused"
                      /\ \A t \in g[p].answers : Returned(session', t)
    BY DEF Settled
  <2>1. \A t \in g[p].tools \ made : session.status[t] # "unused"
    BY <1>4 DEF SentInv, Settled
  <2>2. \A t \in g[p].answers : Returned(session, t)
    BY <1>4 DEF SentInv, Settled
  <2>3. \A t \in g[p].tools : InHistory(session', t)
    BY DEF InHistory
  <2> QED BY <1>6, <1>8, <2>1, <2>2, <2>3 DEF Forward
<1>10. Whole(session', sent')
  <2> SUFFICES ASSUME NEW p \in DOMAIN g, NEW t \in g[p].tools,
                      g[p].role = "assistant", sent[t] > 0, HasResult(session', t),
                      NEW u \in g[p].tools
               PROVE  Returned(session', u)
    BY <1>1 DEF Whole
  <2>1. Returned(session, t) /\ t \notin made
    BY <1>5, <1>6 DEF SentInv
  <2>2. PICK q \in DOMAIN h : t \in h[q].answers
    BY <1>4 DEF HasResult
  <2>3. p \in DOMAIN h /\ t \in h[p].tools /\ g[p].role = h[p].role
    BY <1>4, <2>1
  <2>4. p < q /\ p # Len(h)
    BY <1>2, <2>2, <2>3 DEF SentInv, Ordered
  <2>5. g[p].tools = h[p].tools
    BY <1>2, <1>4, <2>3, <2>4
  <2>6. Returned(session, u)
    BY <2>2, <2>3, <2>5 DEF SentInv, Whole, HasResult
  <2> QED BY <1>6, <2>6 DEF Forward
<1>11. \A t \in Tools : sent'[t] <= 1 /\ (sent'[t] > 0 => Returned(session', t))
  BY <1>1 DEF SentInv, Forward
<1> QED BY <1>7, <1>9, <1>10, <1>11 DEF SentInv

\* The result of a call that is in the history is put behind the other messages,
\* and sent when no call of its message is awaited.
LEMMA ToolResultHistory ==
    ASSUME TypeOK, LifeInv, NEW t \in Tools, NEW outcome \in {"done", "errored"},
           ToolResult(t, outcome), InHistory(session, t)
    PROVE  LET h == session.history
               g == session'.history
               batch == Siblings(session', t)
           IN  /\ session' \in Session
               /\ session.status[t] = "calling" /\ session'.status[t] = outcome
               /\ \A u \in Tools \ {t} : session'.status[u] = session.status[u]
               /\ h \in Seq(Item) /\ Len(h) \in Nat /\ DOMAIN h = 1..Len(h)
               /\ g \in Seq(Item) /\ Len(g) = Len(h) + 1 /\ DOMAIN g = 1..(Len(h) + 1)
               /\ \A p \in DOMAIN h : g[p] = h[p]
               /\ g[Len(h) + 1] = Result(t)
               /\ \/ /\ AllDone(session', batch)
                     /\ session'.streaming /\ Go(NextStream, "compile")
                     /\ sent' = [u \in Tools |->
                           IF u \in batch \cup {t} /\ HasResult(session', u)
                           THEN sent[u] + 1 ELSE sent[u]]
                  \/ /\ ~AllDone(session', batch)
                     /\ session'.streaming = session.streaming /\ UNCHANGED <<at, sent>>
<1> DEFINE settled == SetStatus(session, {t}, outcome)
           filled == StreamUpdate(settled, Result(t))
           batch == Siblings(filled, t)
           h == session.history
           g == session'.history
<1>1. /\ session \in Session
      /\ t \in running /\ session.status[t] = "calling"
      /\ outcome \in L!Statuses
  BY DEF TypeOK, LifeInv, ToolResult, L!Statuses
<1>2. \/ session' = SetActive(filled) /\ AllDone(filled, batch) /\ Go(NextStream, "compile")
         /\ sent' = [u \in Tools |->
               IF u \in batch \cup {t} /\ HasResult(filled, u) THEN sent[u] + 1 ELSE sent[u]]
      \/ session' = filled /\ ~AllDone(filled, batch) /\ UNCHANGED <<at, sent>>
  BY DEF ToolResult
<1>3. /\ settled \in Session /\ settled.history = h /\ HasStatus(settled)
      /\ settled.status[t] = outcome
      /\ \A u \in Tools \ {t} : settled.status[u] = session.status[u]
      /\ settled.streaming = session.streaming
  <2>1. settled.streaming = session.streaming
    BY DEF SetStatus, Slice
  <2> QED BY <1>1, <2>1, SetStatusTyping, SetStatusMoves DEF LifeInv
<1> HIDE DEF settled
<1>4. /\ Result(t) \in Item /\ Result(t).tools = {} /\ Result(t).role = "tool"
  BY DEF Result, Item
<1>5. /\ filled \in Session /\ filled.history = Streamed(h, Result(t))
      /\ filled.status[t] = outcome
      /\ \A u \in Tools \ {t} : filled.status[u] = session.status[u]
      /\ filled.streaming = session.streaming
  <2>1. filled.streaming = session.streaming
    BY <1>3 DEF StreamUpdate, SetStatus, Slice
  <2> QED BY <1>3, <1>4, <2>1, StreamUpdateTyping, StreamUpdateMoves
<1>6. filled.history = Append(h, Result(t)) /\ h \in Seq(Item) /\ Len(h) \in Nat
  <2>1. h \in Seq(Item) /\ h # << >>
    BY <1>1 DEF Session, InHistory
  <2> QED BY <1>4, <1>5, <2>1 DEF Streamed
<1> HIDE DEF filled
<1>7. /\ session' \in Session /\ session'.history = filled.history
      /\ session'.status = filled.status
      /\ session' = SetActive(filled) => session'.streaming
  BY <1>2, <1>5, FlagTyping DEF SetActive, Slice
<1>8. /\ DOMAIN h = 1..Len(h) /\ DOMAIN g = 1..(Len(h) + 1) /\ Len(g) = Len(h) + 1
      /\ \A p \in DOMAIN h : g[p] = h[p]
      /\ g[Len(h) + 1] = Result(t) /\ g \in Seq(Item)
  BY <1>4, <1>6, <1>7, AppendProperties
<1>9. /\ Siblings(session', t) = batch
      /\ AllDone(session', batch) <=> AllDone(filled, batch)
      /\ \A u \in Tools : HasResult(session', u) <=> HasResult(filled, u)
  BY <1>7 DEF Siblings, AllDone, HasResult
<1> QED BY <1>1, <1>2, <1>5, <1>6, <1>7, <1>8, <1>9

\* A call that returns has not been sent, nor has any call of its message whose
\* result is still there: had one been, this call would have returned before.
LEMMA ToolResultKeepsSent ==
    ASSUME TypeOK, LifeInv, SentInv, NEW t \in Tools, NEW outcome \in {"done", "errored"},
           ToolResult(t, outcome), InHistory(session, t), Forward(session', session)
    PROVE  SentInv'
<1> DEFINE batch == Siblings(session', t)
           h == session.history
           g == session'.history
<1>1. /\ session.status[t] = "calling" /\ session'.status[t] = outcome
      /\ sent \in [Tools -> Nat]
  BY ToolResultHistory DEF TypeOK
<1>2. \/ /\ AllDone(session', batch)
         /\ sent' = [u \in Tools |->
               IF u \in batch \cup {t} /\ HasResult(session', u) THEN sent[u] + 1 ELSE sent[u]]
      \/ sent' = sent
  BY ToolResultHistory
<1>4. Result(t).tools = {} /\ Result(t).answers = {t}
  BY DEF Result
<1>7. session' \in Session
  BY ToolResultHistory
<1>8. /\ DOMAIN h = 1..Len(h) /\ DOMAIN g = 1..(Len(h) + 1) /\ Len(h) \in Nat
      /\ \A p \in DOMAIN h : g[p] = h[p]
      /\ g[Len(h) + 1] = Result(t)
  BY ToolResultHistory
<1>9. \A p \in DOMAIN g : g[p].tools \subseteq Tools /\ g[p].answers \subseteq Tools
  <2>1. \A p \in DOMAIN g : g[p] \in Item
    BY <1>7 DEF Session
  <2> QED BY <2>1 DEF Item
<1>10. ~Returned(session, t) /\ Returned(session', t) /\ sent[t] = 0
  <2>1. ~Returned(session, t) /\ Returned(session', t)
    BY <1>1 DEF Returned
  <2> QED BY <1>1, <2>1 DEF SentInv
<1>11. Ordered(g)
  <2> SUFFICES ASSUME NEW p \in DOMAIN g, NEW q \in DOMAIN g, NEW u \in g[p].tools
               PROVE  (u \in g[q].tools => p = q) /\ (u \in g[q].answers => p < q)
    BY DEF Ordered
  <2>1. p \in DOMAIN h /\ u \in h[p].tools
    BY <1>4, <1>8
  <2>2. CASE q \in DOMAIN h
    BY <1>8, <2>1, <2>2 DEF SentInv, Ordered
  <2>3. CASE q = Len(h) + 1
    BY <1>4, <1>8, <2>1, <2>3
  <2> QED BY <1>8, <2>2, <2>3
<1>12. Settled(session')
  <2> SUFFICES ASSUME NEW p \in DOMAIN g
               PROVE  /\ \A u \in g[p].tools : session'.status[u] # "unused"
                      /\ \A u \in g[p].answers : Returned(session', u)
    BY DEF Settled
  <2>1. CASE p \in DOMAIN h
    BY <1>8, <1>9, <2>1 DEF SentInv, Settled, Forward
  <2>2. CASE p = Len(h) + 1
    BY <1>4, <1>8, <1>10, <2>2
  <2> QED BY <1>8, <2>1, <2>2
<1>13. \A u \in Tools \ {t} : HasResult(session', u) => HasResult(session, u)
  BY <1>4, <1>8 DEF HasResult
<1>14. \A p \in DOMAIN g : g[p].tools # {} => p \in DOMAIN h /\ g[p].tools = h[p].tools
  BY <1>4, <1>8
<1>15. \A p \in DOMAIN g : \A u \in g[p].tools :
          g[p].role = "assistant" /\ sent[u] > 0 /\ HasResult(session', u)
          => \A v \in g[p].tools : Returned(session, v)
  <2> SUFFICES ASSUME NEW p \in DOMAIN g, NEW u \in g[p].tools,
                      g[p].role = "assistant", sent[u] > 0, HasResult(session', u)
               PROVE  \A v \in g[p].tools : Returned(session, v)
    OBVIOUS
  <2>1. u # t /\ HasResult(session, u)
    BY <1>9, <1>10, <1>13
  <2>2. p \in DOMAIN h /\ g[p] = h[p]
    BY <1>8, <1>14
  <2> QED BY <2>1, <2>2 DEF SentInv, Whole
<1>16. CASE sent' = sent
  <2>1. Whole(session', sent')
    BY <1>9, <1>15, <1>16 DEF Whole, Forward
  <2>2. \A u \in Tools : sent'[u] <= 1 /\ (sent'[u] > 0 => Returned(session', u))
    BY <1>16 DEF SentInv, Forward
  <2> QED BY <1>11, <1>12, <2>1, <2>2 DEF SentInv
<1>17. CASE /\ AllDone(session', batch)
            /\ sent' = [u \in Tools |->
                  IF u \in batch \cup {t} /\ HasResult(session', u) THEN sent[u] + 1 ELSE sent[u]]
  <2>1. \A u \in batch : \E p \in DOMAIN g : u \in g[p].tools /\ t \in g[p].tools
                                             /\ g[p].role = "assistant"
    BY DEF Siblings, Where
  <2>2. \A p \in DOMAIN g : g[p].role = "assistant" /\ t \in g[p].tools => g[p].tools \subseteq batch
    BY DEF Siblings, Where
  <2>3. \A u \in batch : Returned(session', u)
    BY <1>17 DEF AllDone, Returned
  <2> HIDE DEF batch
  <2>5. \A u \in Tools : u \in batch \cup {t} /\ HasResult(session', u) => sent[u] = 0
    <3> SUFFICES ASSUME NEW u \in batch, u \in Tools, HasResult(session', u), sent[u] # 0
                 PROVE  FALSE
      BY <1>10
    <3>1. PICK p \in DOMAIN g : u \in g[p].tools /\ t \in g[p].tools /\ g[p].role = "assistant"
      BY <2>1
    <3>2. sent[u] > 0
      BY <1>1
    <3> QED BY <1>10, <1>15, <3>1, <3>2
  <2>6. \A u \in Tools : sent'[u] <= 1 /\ (sent'[u] > 0 => Returned(session', u))
    <3> SUFFICES ASSUME NEW u \in Tools
                 PROVE  sent'[u] <= 1 /\ (sent'[u] > 0 => Returned(session', u))
      OBVIOUS
    <3>1. CASE u \in batch \cup {t} /\ HasResult(session', u)
      BY <1>10, <1>17, <2>3, <2>5, <3>1
    <3>2. CASE ~(u \in batch \cup {t} /\ HasResult(session', u))
      BY <1>17, <3>2 DEF SentInv, Forward
    <3> QED BY <3>1, <3>2
  <2>7. Whole(session', sent')
    <3> SUFFICES ASSUME NEW p \in DOMAIN g, NEW u \in g[p].tools,
                        g[p].role = "assistant", sent'[u] > 0, HasResult(session', u),
                        NEW v \in g[p].tools
                 PROVE  Returned(session', v)
      BY DEF Whole
    <3>1. CASE u \in batch \cup {t}
      <4>1. PICK q \in DOMAIN g : u \in g[q].tools /\ t \in g[q].tools
        BY <2>1, <3>1
      <4>2. t \in g[p].tools
        BY <1>11, <4>1 DEF Ordered
      <4> QED BY <2>2, <2>3, <4>2
    <3>2. CASE u \notin batch \cup {t}
      <4>1. sent[u] > 0
        BY <1>9, <1>17, <3>2
      <4> QED BY <1>9, <1>15, <4>1 DEF Forward
    <3> QED BY <3>1, <3>2
  <2> QED BY <1>11, <1>12, <2>6, <2>7 DEF SentInv
<1> QED BY <1>2, <1>16, <1>17

LEMMA SentStep ==
    ASSUME stray = {}, stray' = {}, TypeOK, LifeInv, SentInv, [Next]_vars
    PROVE  SentInv'
<1>1. Forward(session', session) /\ session \in Session
  BY StepMoves, MovesForward DEF TypeOK
<1>2. CASE Within(session'.history, session.history) /\ sent' = sent
  <2>1. session' \in Session
    BY HistoryStep
  <2>2. Ordered(session'.history) /\ Settled(session') /\ Whole(session', sent)
    BY <1>1, <1>2, <2>1, WithinKeeps DEF SentInv
  <2> QED BY <1>1, <1>2, <2>2 DEF SentInv, Forward
<1>3. ASSUME NEW s \in Streams, NEW text \in BOOLEAN, NEW made \in SUBSET Tools, Chunk(s, text, made)
      PROVE  SentInv'
  BY <1>1, <1>3, ChunkKeepsSent
<1>4. ASSUME NEW t \in Tools, NEW outcome \in {"done", "errored"}, ToolResult(t, outcome)
      PROVE  SentInv'
  <2>1. CASE InHistory(session, t)
    BY <1>1, <1>4, <2>1, ToolResultKeepsSent
  <2>2. CASE ~InHistory(session, t)
    BY <1>4, <2>2 DEF ToolResult, SentInv
  <2> QED BY <2>1, <2>2
<1> QED BY <1>2, <1>3, <1>4, HistoryStep

\* A result goes back to the model once at most, for any calls, policies and
\* bounds: whichever of parallel calls returns last, and whatever is stopped,
\* submitted, trimmed or deleted while they run, until a fragment goes astray.
THEOREM ResultsGoOnce == Spec => []SentOnce
<1> DEFINE Inv == TypeOK /\ (stray = {} => LifeInv /\ SentInv)
<1>1. Init => Inv
  <2>1. Init => SentInv
    BY DEF Init, Slice, SentInv, Ordered, Settled, Whole
  <2> QED BY <2>1, InitTypes, InitLives
<1>2. Inv /\ [Next]_vars => Inv'
  BY TypesStep, StepMoves, SentStep, Followed
<1>3. Inv => SentOnce
  BY DEF SentInv, SentOnce
<1> HIDE DEF Inv
<1> QED BY <1>1, <1>2, <1>3, PTL DEF Spec
----------------------------------------------------------------------------
(* There are streams enough                                                 *)

Taken == {s \in Streams : at[s] # "idle"}
Back == {t \in Tools : Returned(session, t)}

\* A stream was taken for a message that was submitted or for a call that returned.
Enough == Cardinality(Taken) <= spent["submit"] + Cardinality(Back)

LEMMA TakenAndBackFinite ==
    /\ IsFiniteSet(Streams) /\ IsFiniteSet(Taken) /\ IsFiniteSet(Back)
    /\ Cardinality(Taken) \in Nat /\ Cardinality(Back) \in Nat /\ Cardinality(Tools) \in Nat
    /\ Cardinality(Streams) = Limit["submit"] + Cardinality(Tools) /\ Limit["submit"] \in Nat
<1>1. IsFiniteSet(Tools) /\ Limit["submit"] \in Nat
  BY LimitAssumption DEF Kinds
<1>2. Cardinality(Tools) \in Nat
  BY <1>1, FS_CardinalityType
<1>3. IsFiniteSet(Streams) /\ Cardinality(Streams) = Limit["submit"] + Cardinality(Tools)
  <2>1. \A n \in Nat : IsFiniteSet(1..n) /\ Cardinality(1..n) = n
    BY FS_Interval
  <2> QED BY <1>1, <1>2, <2>1 DEF Streams
<1>4. IsFiniteSet(Taken) /\ IsFiniteSet(Back)
  BY <1>1, <1>3, FS_Subset DEF Taken, Back
<1> QED BY <1>1, <1>2, <1>3, <1>4, FS_CardinalityType

\* One more, or none, than before.
LEMMA OneMore ==
    ASSUME NEW S, NEW T, NEW x, IsFiniteSet(S), T \subseteq S \cup {x}
    PROVE  Cardinality(T) \in Nat /\ Cardinality(T) <= Cardinality(S) + 1
<1>1. /\ IsFiniteSet(S \cup {x}) /\ Cardinality(S) \in Nat
      /\ Cardinality(S \cup {x}) = IF x \in S THEN Cardinality(S) ELSE Cardinality(S) + 1
  BY FS_AddElement, FS_CardinalityType
<1>2. Cardinality(T) <= Cardinality(S \cup {x}) /\ Cardinality(T) \in Nat
  BY <1>1, FS_Subset, FS_CardinalityType
<1> QED BY <1>1, <1>2

\* When not every message and every result that there can be has its stream, one
\* is left for the next.
LEMMA StreamLeft ==
    ASSUME TypeOK, Enough,
           spent["submit"] < Limit["submit"] \/ Back # Tools
    PROVE  NextStream \in Streams /\ at[NextStream] = "idle"
<1> DEFINE idle == {s \in Streams : at[s] = "idle"}
<1>1. spent["submit"] \in Nat /\ spent["submit"] <= Limit["submit"]
  BY DEF TypeOK, Kinds
<1>2. Cardinality(Back) <= Cardinality(Tools) /\ (Back # Tools => Cardinality(Back) < Cardinality(Tools))
  BY LimitAssumption, FS_Subset, TakenAndBackFinite DEF Back
<1>3. Cardinality(Taken) < Cardinality(Streams)
  BY <1>1, <1>2, TakenAndBackFinite DEF Enough
<1>4. Taken # Streams
  BY <1>3, TakenAndBackFinite
<1>5. idle # {} /\ idle \in SUBSET Nat
  BY <1>4, TakenAndBackFinite DEF Taken, Streams
<1>6. \E m \in idle : \A r \in idle : m <= r
  <2> HIDE DEF idle
  <2> QED BY <1>5, LeastOf
<1> QED BY <1>6 DEF NextStream

LEMMA EnoughStep ==
    ASSUME stray = {}, stray' = {}, TypeOK, LifeInv, Enough, [Next]_vars
    PROVE  Enough'
<1>0. /\ at \in [Streams -> {"idle", "context", "compile", "llm", "tools", "ended"}]
      /\ spent["submit"] \in Nat /\ spent \in [Kinds -> Nat]
  BY DEF TypeOK, Kinds
<1>1. Back \subseteq Back' /\ IsFiniteSet(Back') /\ Cardinality(Back') \in Nat
  <2>1. Back \subseteq Back'
    BY StepMoves, MovesForward DEF Forward, Back
  <2> QED BY <2>1, LimitAssumption, FS_Subset, FS_CardinalityType DEF Back
<1>2. Cardinality(Back) <= Cardinality(Back')
  BY <1>1, FS_Subset
<1>3. ASSUME Taken' \subseteq Taken, spent'["submit"] \in Nat, spent'["submit"] >= spent["submit"]
      PROVE  Enough'
  <2>1. Cardinality(Taken') <= Cardinality(Taken) /\ Cardinality(Taken') \in Nat
    BY <1>3, FS_Subset, FS_CardinalityType, TakenAndBackFinite
  <2> QED BY <1>0, <1>1, <1>2, <1>3, <2>1, TakenAndBackFinite DEF Enough
<1>4. ASSUME NEW s, at[s] # "idle", s \in Streams, NEW place, at' = [at EXCEPT ![s] = place]
      PROVE  Taken' \subseteq Taken
  BY <1>0, <1>4 DEF Taken
<1>5. ASSUME NEW kind \in Kinds, Spend(kind) \/ spent' = spent
      PROVE  /\ spent'["submit"] \in Nat /\ spent'["submit"] >= spent["submit"]
             /\ kind = "submit" /\ Spend(kind) => spent'["submit"] = spent["submit"] + 1
  BY <1>0, <1>5 DEF Spend, Kinds
<1>6. ASSUME NEW i \in 1..(Len(session.history) + 1), Submit(i) PROVE Enough'
  <2>1. Taken' \subseteq Taken \cup {NextStream}
    BY <1>0, <1>6 DEF Submit, Go, Taken
  <2>2. Cardinality(Taken') \in Nat /\ Cardinality(Taken') <= Cardinality(Taken) + 1
    BY <2>1, OneMore, TakenAndBackFinite
  <2>3. spent'["submit"] = spent["submit"] + 1
    BY <1>5, <1>6 DEF Submit, Kinds
  <2> QED BY <1>0, <1>1, <1>2, <2>2, <2>3, TakenAndBackFinite DEF Enough
<1>7. ASSUME NEW t \in Tools, NEW outcome \in {"done", "errored"}, ToolResult(t, outcome) PROVE Enough'
  <2>1. \/ UNCHANGED <<at, spent>>
        \/ InHistory(session, t) /\ Go(NextStream, "compile") /\ spent' = spent
    BY <1>7 DEF ToolResult
  <2>2. CASE UNCHANGED <<at, spent>>
    BY <1>0, <1>3, <2>2 DEF Taken
  <2>3. CASE /\ InHistory(session, t)
             /\ Go(NextStream, "compile") /\ spent' = spent
    <3>1. Taken' \subseteq Taken \cup {NextStream}
      BY <1>0, <2>3 DEF Go, Taken
    <3>2. Cardinality(Taken') \in Nat /\ Cardinality(Taken') <= Cardinality(Taken) + 1
      BY <3>1, OneMore, TakenAndBackFinite
    <3>3. t \notin Back /\ t \in Back'
      <4>1. session.status[t] = "calling" /\ session'.status[t] = outcome
        BY <1>7, <2>3, ToolResultHistory
      <4> QED BY <4>1 DEF Back, Returned
    <3>4. Cardinality(Back) < Cardinality(Back')
      <4>1. Cardinality(Back') = Cardinality(Back) => Back' = Back
        BY <1>1, FS_Subset
      <4> QED BY <1>1, <1>2, <3>3, <4>1, TakenAndBackFinite
    <3> QED BY <1>0, <1>1, <2>3, <3>2, <3>4, TakenAndBackFinite DEF Enough
  <2> QED BY <2>1, <2>2, <2>3
<1>8. ASSUME NEW i \in 1..(Len(session.history) + 1), TruncateHistoryToMessage(i) \/ DeleteMessage(i)
      PROVE  Enough'
  <2>1. at' = at /\ Spend("trim") /\ "trim" \in Kinds
    BY <1>8 DEF TruncateHistoryToMessage, DeleteMessage, Kinds
  <2> QED BY <1>3, <1>5, <2>1 DEF Taken
<1>9. ASSUME NEW s \in Streams, Resolve(s) \/ StartLLM(s) \/ TooLong(s) \/ Finish(s) \/ Fail(s)
      PROVE  Enough'
  <2>1. /\ at[s] # "idle" /\ \E place : at' = [at EXCEPT ![s] = place]
        /\ \E kind \in Kinds : Spend(kind) \/ spent' = spent
    BY <1>9 DEF Resolve, StartLLM, TooLong, Finish, Fail, Go, Kinds
  <2> QED BY <1>3, <1>4, <1>5, <2>1
<1>10. ASSUME NEW s \in Streams, NEW text \in BOOLEAN, NEW made \in SUBSET Tools, Chunk(s, text, made)
       PROVE  Enough'
  BY <1>0, <1>3, <1>10 DEF Chunk, Taken
<1>11. ASSUME NEW t \in Tools, Accept(t) \/ Reject(t) PROVE Enough'
  <2>1. at' = at /\ \E kind \in Kinds : Spend(kind) \/ spent' = spent
    BY <1>11 DEF Accept, Reject, Kinds
  <2> QED BY <1>3, <1>5, <2>1 DEF Taken
<1>12. ASSUME NEW t \in Tools, ToolFails(t) PROVE Enough'
  <2>1. Spend("failure") /\ "failure" \in Kinds
    BY <1>12 DEF ToolFails, Kinds
  <2>2. at' = at \/ (at[caller[t]] = "tools" /\ caller[t] # User /\ Go(caller[t], "ended"))
    BY <1>12 DEF ToolFails
  <2>3. Taken' \subseteq Taken
    BY <1>0, <2>2 DEF Go, Taken
  <2> QED BY <1>3, <1>5, <2>1, <2>3
<1>13. CASE Stop \/ NewSession
  <2>1. at' = at /\ \E kind \in Kinds : Spend(kind)
    BY <1>13 DEF Stop, NewSession, Kinds
  <2> QED BY <1>3, <1>5, <2>1 DEF Taken
<1>14. CASE UNCHANGED vars
  BY <1>0, <1>3, <1>14 DEF vars, Taken
<1>15. ASSUME NEW s \in Streams, NEW t \in Tools, NEW u \in Tools, LaterDelta(s, t, u)
       PROVE  Enough'
  BY <1>0, <1>3, <1>15, InPlace DEF Taken
<1> QED BY <1>6, <1>7, <1>8, <1>9, <1>10, <1>11, <1>12, <1>13, <1>14, <1>15 DEF Next, Step

----------------------------------------------------------------------------
(* The chat left to itself: every call is automatic, nothing fails, and all *)
(* that users do is submit messages                                         *)

Unattended ==
    /\ Tools \subseteq Automatic
    /\ \A kind \in {"stop", "failure", "session", "trim"} : Limit[kind] = 0

\* Only answers make calls.
Attributed ==
    \A p \in DOMAIN session.history :
        session.history[p].tools # {} => session.history[p].role = "assistant"

Steady(t) == session.status[t] \in {"unused", "done", "errored"}

\* All results in the history were sent, but for those of some calls.
SentBut(tools) ==
    \A t \in Tools \ tools : InHistory(session, t) /\ Returned(session, t) => sent[t] = 1

\* A stream that was not begun made no calls.
Made == \A t \in Tools : maker[t] = User \/ at[maker[t]] # "idle"

\* Nothing goes on.
Resting ==
    /\ Active = {} /\ ~session.streaming /\ running = {}
    /\ \A t \in Tools : Steady(t)
    /\ SentBut({})

\* The stream s is at work on the last message, and the calls of that message
\* are the ones still being generated.
Answering(s) ==
    LET h == session.history
        n == Len(h)
    IN /\ Active = {s} /\ session.streaming /\ running = {}
       /\ n > 0 /\ h[n].role # "user"
       /\ \A t \in Tools : IF t \in h[n].tools THEN session.status[t] = "generating" ELSE Steady(t)
       /\ \A t \in Tools : maker[t] = s => t \in h[n].tools
       /\ at[s] = "context" => n > 1 /\ input[s] = n - 1 /\ h[n - 1].role = "user"
       /\ SentBut({})

\* Calls of message p run; the results of the others have been put by.
Calling(p) ==
    LET tools == session.history[p].tools
    IN /\ Active = {} /\ session.streaming /\ running # {}
       /\ session.history[p].role = "assistant" /\ running \subseteq tools
       /\ \A t \in running : session.status[t] = "calling" /\ caller[t] # User
       /\ \A t \in Tools \ running : Steady(t)
       /\ \A t \in tools \ running :
             Returned(session, t) /\ HasResult(session, t) /\ sent[t] = 0
       /\ SentBut(tools)

Turn == \/ Resting
        \/ \E s \in Streams : Answering(s)
        \/ \E p \in DOMAIN session.history : Calling(p)

LoopInv == stray = {} /\ TypeOK /\ LifeInv /\ SentInv /\ Enough /\ Attributed /\ Made /\ Turn

\* Whoever's turn it is, the three properties hold.
LEMMA TurnsSuffice == LoopInv => StreamsDoNotOverlap /\ StreamingMeansBusy /\ ResultsAreSent
<1> SUFFICES ASSUME LoopInv PROVE StreamsDoNotOverlap /\ StreamingMeansBusy /\ ResultsAreSent
  OBVIOUS
<1> USE DEF LoopInv
<1>1. \A t \in Tools : InHistory(session, t) => t \in Siblings(session, t)
  BY DEF InHistory, Attributed, Siblings, Where
<1>2. CASE Resting
  <2>1. StreamsDoNotOverlap
    BY <1>2, FS_EmptySet DEF StreamsDoNotOverlap, Resting
  <2>2. StreamingMeansBusy
    BY <1>2 DEF StreamingMeansBusy, Resting
  <2>3. ResultsAreSent
    BY <1>1, <1>2 DEF ResultsAreSent, Resting, SentBut
  <2> QED BY <2>1, <2>2, <2>3
<1>3. ASSUME NEW s \in Streams, Answering(s)
      PROVE  StreamsDoNotOverlap /\ StreamingMeansBusy /\ ResultsAreSent
  <2>1. StreamsDoNotOverlap
    <3>1. Cardinality({s}) = 1
      BY FS_Singleton
    <3> QED BY <1>3, <3>1 DEF StreamsDoNotOverlap, Answering
  <2>2. StreamingMeansBusy
    BY <1>3 DEF StreamingMeansBusy, Answering
  <2>3. ResultsAreSent
    BY <1>1, <1>3 DEF ResultsAreSent, Answering, SentBut
  <2> QED BY <2>1, <2>2, <2>3
<1>4. ASSUME NEW p \in DOMAIN session.history, Calling(p)
      PROVE  StreamsDoNotOverlap /\ StreamingMeansBusy /\ ResultsAreSent
  <2>1. StreamsDoNotOverlap
    BY <1>4, FS_EmptySet DEF StreamsDoNotOverlap, Calling
  <2>2. StreamingMeansBusy
    BY <1>4 DEF StreamingMeansBusy, Calling
  <2>3. ResultsAreSent
    <3> SUFFICES ASSUME NEW t \in Tools, InHistory(session, t),
                        \A u \in Siblings(session, t) : Returned(session, u)
                 PROVE  sent[t] = 1
      BY DEF ResultsAreSent
    <3>1. t \notin session.history[p].tools
      <4>1. PICK u \in running : u \in session.history[p].tools /\ session.status[u] = "calling"
        BY <1>4 DEF Calling
      <4>2. t \in session.history[p].tools => u \in Siblings(session, t)
        BY <1>4, <4>1 DEF Siblings, Where, Calling
      <4> QED BY <4>1, <4>2 DEF Returned
    <3>2. Returned(session, t)
      BY <1>1
    <3> QED BY <1>4, <3>1, <3>2 DEF Calling, SentBut
  <2> QED BY <2>1, <2>2, <2>3
<1> QED BY <1>2, <1>3, <1>4 DEF Turn

LEMMA GoActive ==
    ASSUME TypeOK, NEW s \in Streams, NEW place, Go(s, place)
    PROVE  Active' = IF place \in {"context", "compile", "llm"} THEN Active \cup {s}
                     ELSE Active \ {s}
BY DEF TypeOK, Go, Active

\* No call waits for permission, so none is accepted or rejected.
LEMMA NoneWaits == LoopInv => \A t \in Tools : session.status[t] \notin {"generated", "canceled"}
<1> SUFFICES ASSUME LoopInv, NEW t \in Tools PROVE session.status[t] \notin {"generated", "canceled"}
  OBVIOUS
<1>1. CASE Resting
  BY <1>1 DEF Resting, Steady
<1>2. ASSUME NEW s \in Streams, Answering(s) PROVE session.status[t] \notin {"generated", "canceled"}
  BY <1>2 DEF Answering, Steady
<1>3. ASSUME NEW p \in DOMAIN session.history, Calling(p)
      PROVE  session.status[t] \notin {"generated", "canceled"}
  BY <1>3 DEF Calling, Steady
<1> QED BY <1>1, <1>2, <1>3 DEF LoopInv, Turn

LEMMA OnlyTheLoop ==
    ASSUME Unattended, LoopInv, Next
    PROVE  \/ \E i \in 1..(Len(session.history) + 1) : Submit(i)
           \/ \E s \in Streams : Resolve(s) \/ StartLLM(s) \/ Finish(s)
           \/ \E s \in Streams, text \in BOOLEAN, made \in SUBSET Tools : Chunk(s, text, made)
           \/ \E t \in Tools, outcome \in {"done", "errored"} : ToolResult(t, outcome)
           \/ \E s \in Streams, t \in Tools, u \in Tools : LaterDelta(s, t, u)
<1>1. ~May("stop") /\ ~May("failure") /\ ~May("session") /\ ~May("trim")
  BY DEF Unattended, LoopInv, TypeOK, May, Kinds
<1>2. \A t \in Tools : ~Accept(t) /\ ~Reject(t) /\ ~ToolFails(t)
  BY <1>1, NoneWaits DEF Accept, Reject, ToolFails, WithStatus
<1>3. \A i : ~TruncateHistoryToMessage(i) /\ ~DeleteMessage(i)
  BY <1>1 DEF TruncateHistoryToMessage, DeleteMessage
<1>4. ~Stop /\ ~NewSession /\ \A s \in Streams : ~TooLong(s) /\ ~Fail(s)
  BY <1>1 DEF Stop, NewSession, TooLong, Fail
<1> QED BY <1>2, <1>3, <1>4 DEF Next, Step

\* What a submission leaves: the messages before the one submitted, that one
\* without its text, and an answer to fill.
LEMMA SubmitHistory ==
    ASSUME NEW ss \in Session, NEW i \in 1..(Len(ss.history) + 1)
    PROVE  LET h == ss.history
               g == SubmitAt(ss, i).history
           IN  /\ Len(g) = i + 1 /\ DOMAIN g = 1..(i + 1)
               /\ \A p \in 1..(i - 1) : p \in DOMAIN h /\ g[p] = h[p]
               /\ IF i \in DOMAIN h THEN g[i].role = h[i].role /\ g[i].tools = h[i].tools
                  ELSE g[i] = Message("user", FALSE, {})
               /\ g[i + 1] = Message("assistant", FALSE, {})
<1> DEFINE h == ss.history
           g == SubmitAt(ss, i).history
           empty == Message("assistant", FALSE, {})
           new == Message("user", FALSE, {})
           again == [h[i] EXCEPT !.text = FALSE]
           kept == IF i <= Len(h) THEN Append(SubSeq(h, 1, i - 1), again) ELSE Append(h, new)
<1>1. h \in Seq(Item) /\ Len(h) \in Nat /\ i \in Nat /\ DOMAIN h = 1..Len(h)
  BY DEF Session
<1>2. empty \in Item /\ new \in Item
  BY DEF Item, Message
<1>3. g = Append(kept, empty)
  BY DEF SubmitAt, Slice
<1> HIDE DEF empty, new
<1>4. /\ kept \in Seq(Item) /\ Len(kept) = i
      /\ \A p \in 1..(i - 1) : kept[p] = h[p]
      /\ IF i <= Len(h) THEN kept[i].role = h[i].role /\ kept[i].tools = h[i].tools
         ELSE kept[i] = new
  <2>1. CASE i <= Len(h)
    <3> DEFINE front == SubSeq(h, 1, i - 1)
    <3>1. h[i] \in Item /\ \A p \in 1..(i - 1) : h[p] \in Item
      BY <1>1, <2>1
    <3>2. again \in Item /\ again.role = h[i].role /\ again.tools = h[i].tools
      BY <3>1 DEF Item
    <3>3. front \in Seq(Item) /\ Len(front) = i - 1 /\ \A p \in 1..(i - 1) : front[p] = h[p]
      BY <1>1, <2>1, <3>1, SubSeqProperties
    <3> HIDE DEF front, again
    <3>4. /\ Append(front, again) \in Seq(Item) /\ Len(Append(front, again)) = i
          /\ \A p \in 1..(i - 1) : Append(front, again)[p] = front[p]
          /\ Append(front, again)[i] = again
      <4>1. (i - 1) + 1 = i
        BY <1>1
      <4> QED BY <3>2, <3>3, <4>1, AppendProperties
    <3>5. kept = Append(front, again)
      BY <2>1 DEF front
    <3> HIDE DEF kept
    <3> QED BY <2>1, <3>2, <3>3, <3>4, <3>5
  <2>2. CASE ~(i <= Len(h))
    <3>1. i = Len(h) + 1 /\ kept = Append(h, new)
      BY <1>1, <2>2
    <3> HIDE DEF kept
    <3> QED BY <1>1, <1>2, <2>2, <3>1, AppendProperties
  <2> QED BY <2>1, <2>2
<1> HIDE DEF kept
<1>5. /\ Len(g) = i + 1 /\ DOMAIN g = 1..(i + 1)
      /\ \A p \in 1..i : g[p] = kept[p]
      /\ g[i + 1] = empty
  BY <1>1, <1>2, <1>3, <1>4, AppendProperties
<1>6. \A p \in 1..(i - 1) : p \in DOMAIN h /\ g[p] = h[p]
  BY <1>1, <1>4, <1>5
<1>7. (i <= Len(h) <=> i \in DOMAIN h) /\ i \in 1..i
  BY <1>1
<1> QED BY <1>4, <1>5, <1>6, <1>7 DEF empty, new

LEMMA SubmitTurns ==
    ASSUME LoopInv, NEW i \in 1..(Len(session.history) + 1), Submit(i)
    PROVE  Attributed' /\ Turn'
<1> DEFINE pending == WithStatus(session, CurrentTools(session), "generated")
           ss == SetStatus(session, pending, "canceled")
           h == session.history
           g == session'.history
<1> USE DEF LoopInv
<1>1. Resting
  BY DEF Submit, Turn, Answering, Calling
<1>2. /\ session \in Session /\ h \in Seq(Item) /\ Len(h) \in Nat /\ DOMAIN h = 1..Len(h) /\ i \in Nat
      /\ at \in [Streams -> {"idle", "context", "compile", "llm", "tools", "ended"}]
  BY DEF TypeOK, Session
<1>3. /\ session' = SubmitAt(ss, i) /\ Go(NextStream, "context")
      /\ input' = [input EXCEPT ![NextStream] = i]
      /\ running' = running /\ sent' = sent /\ maker' = maker
      /\ spent["submit"] < Limit["submit"]
      /\ i = Len(h) + 1 \/ (i \in DOMAIN h /\ h[i].role = "user")
  <2>1. session' = SubmitAt(ss, i)
    BY DEF Submit
  <2> HIDE DEF ss
  <2> QED BY <2>1 DEF Submit, deltas, ghosts, May
<1>4. ss \in Session /\ ss.history = h /\ \A t \in Tools : ss.status[t] = session.status[t]
  <2>1. \A t \in Tools : t \notin pending
    <3>1. \A t \in pending : session.status[t] = "generated"
      BY WithStatusHas
    <3> QED BY <3>1, NoneWaits
  <2>2. "canceled" \in L!Statuses
    BY DEF L!Statuses
  <2> HIDE DEF pending
  <2> QED BY <1>2, <2>1, <2>2, SetStatusTyping, SetStatusMoves DEF LifeInv
<1> HIDE DEF ss
<1>5. /\ session'.streaming = TRUE
      /\ \A t \in Tools : session'.status[t] = session.status[t]
  BY <1>3, <1>4 DEF SubmitAt, Slice
<1>6. /\ Len(g) = i + 1 /\ DOMAIN g = 1..(i + 1)
      /\ \A p \in 1..(i - 1) : p \in DOMAIN h /\ g[p] = h[p]
      /\ IF i \in DOMAIN h THEN g[i].role = h[i].role /\ g[i].tools = h[i].tools
         ELSE g[i] = Message("user", FALSE, {})
      /\ g[i + 1] = Message("assistant", FALSE, {})
  <2> DEFINE k == SubmitAt(ss, i).history
  <2>1. /\ Len(k) = i + 1 /\ DOMAIN k = 1..(i + 1)
        /\ \A p \in 1..(i - 1) : p \in DOMAIN h /\ k[p] = h[p]
        /\ IF i \in DOMAIN h THEN k[i].role = h[i].role /\ k[i].tools = h[i].tools
           ELSE k[i] = Message("user", FALSE, {})
        /\ k[i + 1] = Message("assistant", FALSE, {})
    <3>1. ss \in Session /\ i \in 1..(Len(ss.history) + 1) /\ h = ss.history
      BY <1>4
    <3> HIDE DEF h
    <3> QED BY <3>1, SubmitHistory, ZenonT(60)
  <2> QED BY <1>3, <2>1
<1>7. /\ g[i].role = "user" /\ g[i].tools = {}
      /\ g[i + 1].role = "assistant" /\ g[i + 1].tools = {}
  <2>1. i \in DOMAIN h => h[i].role = "user" /\ h[i].tools = {}
    BY <1>2, <1>3 DEF Attributed
  <2> QED BY <1>6, <2>1 DEF Message
<1>8. \A p \in DOMAIN g : g[p].tools # {} => p \in DOMAIN h /\ g[p] = h[p]
  <2>1. \A p \in DOMAIN g : p \in 1..(i - 1) \/ p = i \/ p = i + 1
    BY <1>2, <1>6
  <2> QED BY <1>6, <1>7, <2>1
<1>9. Attributed'
  BY <1>8 DEF Attributed
<1>10. \A t \in Tools : InHistory(session', t) => InHistory(session, t)
  BY <1>8 DEF InHistory
<1>11. PICK s \in Streams : s = NextStream /\ at[s] = "idle"
  BY <1>3, StreamLeft
<1>12. Answering(s)'
  <2>2. Active' = {s}
    BY <1>1, <1>3, <1>11, GoActive DEF Resting
  <2>3. input'[s] = i
    BY <1>3, <1>11 DEF TypeOK
  <2>4. SentBut({})'
    BY <1>1, <1>3, <1>5, <1>10 DEF Resting, SentBut, Returned
  <2>5. \A t \in Tools : Steady(t)'
    BY <1>1, <1>5 DEF Resting, Steady
  <2>6. i + 1 > 1 /\ (i + 1) - 1 = i /\ i + 1 > 0
    BY <1>2
  <2>7. running' = {} /\ \A t \in Tools : maker'[t] # s
    <3>1. s # User
      BY DEF Streams, User
    <3> QED BY <1>1, <1>3, <1>11, <3>1 DEF Resting, Made
  <2>8. /\ \A t \in Tools : IF t \in g[Len(g)].tools THEN session'.status[t] = "generating" ELSE Steady(t)'
        /\ Len(g) > 0 /\ g[Len(g)].role # "user" /\ Len(g) > 1 /\ input'[s] = Len(g) - 1
        /\ g[Len(g) - 1].role = "user"
    BY <1>6, <1>7, <2>3, <2>5, <2>6
  <2> QED BY <1>5, <2>2, <2>4, <2>7, <2>8 DEF Answering
<1> QED BY <1>9, <1>12 DEF Turn

\* A stream that is at work is the one whose turn it is.
LEMMA WhoseTurn ==
    ASSUME LoopInv, NEW s \in Streams, at[s] \in {"context", "compile", "llm"}
    PROVE  Answering(s)
<1>1. s \in Active
  BY DEF Active
<1> QED BY <1>1 DEF LoopInv, Turn, Resting, Answering, Calling

LEMMA ResolveTurns ==
    ASSUME LoopInv, NEW s \in Streams, Resolve(s)
    PROVE  Attributed' /\ Turn'
<1> DEFINE h == session.history
           g == session'.history
           n == Len(h)
           x == [h[n - 1] EXCEPT !.role = "user", !.text = TRUE, !.answers = {}]
<1> USE DEF LoopInv
<1>1. Answering(s) /\ at[s] = "context"
  BY WhoseTurn DEF Resolve
<1>2. /\ h \in Seq(Item) /\ n \in Nat /\ DOMAIN h = 1..n
      /\ \A p \in DOMAIN h : h[p] \in Item
  BY DEF TypeOK, Session
<1>3. n > 1 /\ input[s] = n - 1 /\ h[n - 1].role = "user" /\ h[n].role # "user"
  BY <1>1 DEF Answering
<1>4. n - 1 \in DOMAIN h /\ h[n - 1] \in Item /\ h[n - 1].tools = {}
  <2>1. n - 1 \in DOMAIN h
    BY <1>2, <1>3
  <2> QED BY <1>2, <1>3, <2>1 DEF Attributed
<1>5. x.role = "user" /\ x.tools = {} /\ x \in Item
  BY <1>4 DEF Item
<1>6. g = [h EXCEPT ![n - 1] = x]
  <2>1. n - 1 <= Len(h)
    BY <1>2
  <2>2. Updated(h, n - 1) = [h EXCEPT ![n - 1] = x]
    BY <2>1 DEF Updated
  <2>3. session' = SetActive(UpdateItem(session, n - 1))
    BY <1>3 DEF Resolve
  <2> HIDE DEF x
  <2> QED BY <2>2, <2>3 DEF SetActive, UpdateItem, Slice
<1>7. session'.streaming /\ session'.status = session.status
  BY DEF Resolve, SetActive, UpdateItem, Slice
<1> HIDE DEF x
<1>8. Len(g) = n /\ DOMAIN g = 1..n /\ \A p \in DOMAIN g : g[p] = IF p = n - 1 THEN x ELSE h[p]
  BY <1>2, <1>4, <1>5, <1>6, ExceptSeq
<1>9. \A p \in DOMAIN g : g[p].tools = h[p].tools
  BY <1>4, <1>5, <1>8
<1>10. Attributed'
  BY <1>2, <1>5, <1>8 DEF Attributed
<1>11. \A t \in Tools : InHistory(session', t) => InHistory(session, t)
  BY <1>2, <1>8, <1>9 DEF InHistory
<1>12. g[n] = h[n]
  BY <1>2, <1>3, <1>8
<1>13. Answering(s)'
  <2>1. /\ Active' = {s} /\ at'[s] = "compile" /\ running' = {} /\ sent' = sent
        /\ \A t \in Tools : maker'[t] = s => t \in g[n].tools
    BY <1>1, <1>12, GoActive DEF Resolve, Answering, Go, deltas, ghosts, TypeOK
  <2>2. SentBut({})'
    BY <1>1, <1>7, <1>11, <2>1 DEF Answering, SentBut, Returned
  <2>3. \A t \in Tools : IF t \in g[n].tools THEN session'.status[t] = "generating" ELSE Steady(t)'
    BY <1>1, <1>7, <1>12 DEF Answering, Steady
  <2>4. Len(g) = n /\ n > 0 /\ g[n].role # "user"
    BY <1>2, <1>3, <1>8, <1>12
  <2> QED BY <1>7, <2>1, <2>2, <2>3, <2>4 DEF Answering
<1> QED BY <1>10, <1>13 DEF Turn

LEMMA StartTurns ==
    ASSUME LoopInv, NEW s \in Streams, StartLLM(s)
    PROVE  Attributed' /\ Turn'
<1>1. Answering(s) /\ Attributed /\ TypeOK
  BY WhoseTurn DEF StartLLM, LoopInv
<1>2. /\ Active' = {s} /\ at'[s] = "llm" /\ session' = session /\ running' = running /\ sent' = sent
      /\ maker' = maker
  BY <1>1, GoActive DEF StartLLM, Answering, Go, deltas, ghosts, TypeOK
<1>3. SentBut({})' /\ \A t \in Tools : Steady(t)' <=> Steady(t)
  BY <1>1, <1>2 DEF Answering, SentBut, Steady
<1>4. Answering(s)'
  BY <1>1, <1>2, <1>3 DEF Answering
<1> QED BY <1>1, <1>2, <1>4 DEF Attributed, Turn

LEMMA ChunkTurns ==
    ASSUME LoopInv, NEW s \in Streams, NEW text \in BOOLEAN, NEW made \in SUBSET Tools,
           Chunk(s, text, made)
    PROVE  Attributed' /\ Turn'
<1> DEFINE h == session.history
           g == session'.history
           n == Len(h)
<1> USE DEF LoopInv
<1>1. /\ Answering(s) /\ at[s] = "llm"
      /\ UNCHANGED <<at, running, sent>>
      /\ \A t \in made : session.status[t] = "unused"
      /\ \A t \in Tools \ made : maker'[t] = maker[t]
  BY WhoseTurn DEF Chunk, ghosts, WithStatus
<1>2. /\ session' \in Session /\ DOMAIN h = 1..n /\ n \in Nat /\ DOMAIN g = 1..Len(g)
      /\ \A p \in DOMAIN h : h[p] \in Item
  <2>1. h \in Seq(Item)
    BY ChunkHistory
  <2> QED BY <2>1, ChunkHistory
<1>3. h # << >> /\ n \in DOMAIN h /\ h[n].role # "user"
  BY <1>1, <1>2 DEF Answering
<1>4. \/ /\ h[n].role = "assistant" /\ Len(g) = n
         /\ \A p \in DOMAIN h :
               /\ g[p].role = h[p].role /\ g[p].answers = h[p].answers
               /\ g[p].tools = IF p = n THEN h[p].tools \cup made ELSE h[p].tools
      \/ /\ h[n].role # "assistant" /\ Len(g) = n + 1
         /\ \A p \in DOMAIN h : g[p] = h[p]
         /\ g[Len(g)] = Message("assistant", text, made)
  BY <1>3, ChunkHistory
<1>5. /\ Len(g) > 0 /\ g[Len(g)].role = "assistant"
      /\ g[Len(g)].tools = h[n].tools \cup made
      /\ \A p \in DOMAIN g : p # Len(g) => p \in DOMAIN h /\ g[p].tools = h[p].tools
                                           /\ g[p].role = h[p].role
  <2>1. CASE /\ h[n].role = "assistant" /\ Len(g) = n
             /\ \A p \in DOMAIN h :
                   /\ g[p].role = h[p].role /\ g[p].answers = h[p].answers
                   /\ g[p].tools = IF p = n THEN h[p].tools \cup made ELSE h[p].tools
    <3>1. g[n].role = "assistant" /\ g[n].tools = h[n].tools \cup made
      BY <1>3, <2>1
    <3>2. Len(g) = n /\ n > 0 /\ DOMAIN g = DOMAIN h
      BY <1>2, <1>3, <2>1
    <3>3. \A p \in DOMAIN h : p # n => g[p].tools = h[p].tools /\ g[p].role = h[p].role
      BY <2>1
    <3> HIDE DEF g, h, n
    <3> QED BY <3>1, <3>2, <3>3
  <2>2. CASE /\ h[n].role # "assistant" /\ Len(g) = n + 1
             /\ \A p \in DOMAIN h : g[p] = h[p]
             /\ g[Len(g)] = Message("assistant", text, made)
    <3>1. h[n].tools = {}
      BY <1>3, <2>2 DEF Attributed
    <3>2. g[Len(g)].role = "assistant" /\ g[Len(g)].tools = made
      BY <2>2 DEF Message
    <3> QED BY <1>2, <2>2, <3>1, <3>2
  <2> QED BY <1>4, <2>1, <2>2
<1>6. Attributed'
  BY <1>5 DEF Attributed
<1>7. \A t \in Tools : InHistory(session', t) => InHistory(session, t) \/ t \in made
  BY <1>3, <1>5 DEF InHistory
<1>8. /\ session'.streaming = session.streaming
      /\ \A t \in Tools : session'.status[t] = IF t \in made THEN "generating" ELSE session.status[t]
  <2> DEFINE m == Message("assistant", text, made)
  <2>1. session' = StreamUpdate(session, m) /\ m.tools = made
    BY DEF Chunk, Message
  <2> HIDE DEF m
  <2>2. /\ session'.streaming = session.streaming
        /\ \A t \in Tools : session'.status[t]
              = IF t \in made /\ InHistory(Slice(Streamed(h, m), session.status, session.streaming), t)
                THEN "generating" ELSE session.status[t]
    BY <2>1 DEF StreamUpdate, SetStatus, Slice
  <2>3. g = Streamed(h, m)
    BY <2>1 DEF StreamUpdate, SetStatus, Slice
  <2>4. \A t \in made : InHistory(Slice(Streamed(h, m), session.status, session.streaming), t)
    <3>1. Len(g) \in DOMAIN g /\ made \subseteq g[Len(g)].tools
      BY <1>2, <1>4, <1>5
    <3> QED BY <2>3, <3>1 DEF InHistory, Slice
  <2> QED BY <2>2, <2>4
<1>9. \A t \in Tools : IF t \in g[Len(g)].tools THEN session'.status[t] = "generating" ELSE Steady(t)'
  BY <1>1, <1>5, <1>8 DEF Answering, Steady
<1>10. SentBut({})'
  BY <1>1, <1>7, <1>8 DEF Answering, SentBut, Returned
<1>11. Answering(s)'
  <2>1. Active' = {s} /\ running' = {} /\ session'.streaming /\ at'[s] # "context"
    BY <1>1, <1>8 DEF Answering, Active
  <2>2. \A t \in Tools : maker'[t] = s => t \in g[Len(g)].tools
    <3>1. \A t \in Tools : maker[t] = s => t \in h[n].tools
      BY <1>1 DEF Answering
    <3> QED BY <1>1, <1>5, <3>1
  <2> QED BY <1>5, <1>9, <1>10, <2>1, <2>2 DEF Answering
<1> QED BY <1>6, <1>11 DEF Turn

\* A fragment finds its call, like all calls of the last message, being generated.
LEMMA FragmentsStay ==
    ASSUME LoopInv, NEW s \in Streams, NEW t \in Tools, NEW u \in Tools, LaterDelta(s, t, u)
    PROVE  stray' = {}
<1> DEFINE h == session.history
           n == Len(h)
           last == h[n]
           m == Message("assistant", FALSE, {u})
<1> USE DEF LoopInv
<1>1. Answering(s) /\ session' = StreamUpdate(session, m)
  BY WhoseTurn DEF LaterDelta
<1>2. session \in Session /\ h \in Seq(Item) /\ n \in DOMAIN h /\ h # << >> /\ last \in Item
  <2>1. session \in Session /\ h \in Seq(Item) /\ n > 0
    BY <1>1 DEF TypeOK, Session, Answering
  <2>2. n \in DOMAIN h /\ h # << >>
    BY <2>1
  <2> QED BY <2>1, <2>2
<1>3. u \in last.tools /\ session.status[u] = "generating" /\ last.role = "assistant"
  <2>1. u \in last.tools
    BY <1>1 DEF LaterDelta, Answering
  <2> QED BY <1>1, <1>2, <2>1 DEF Answering, Attributed
<1>4. m.role = "assistant" /\ m.text = FALSE /\ m.tools = {u}
  BY DEF Message
<1> HIDE DEF m
<1>5. Streamed(h, m) = h
  <2> DEFINE joined == [last EXCEPT !.tools = @ \cup m.tools]
  <2>1. joined = last
    BY <1>2, <1>3, <1>4 DEF Item
  <2>2. Streamed(h, m) = [h EXCEPT ![n] = joined]
    BY <1>2, <1>3, <1>4 DEF Streamed
  <2>3. [h EXCEPT ![n] = last] = h
    BY <1>2
  <2> QED BY <2>1, <2>2, <2>3
<1>6. StreamUpdate(session, m) = session
  <2> DEFINE status == [v \in Tools |->
                 IF v \in {u} /\ InHistory(Slice(h, session.status, session.streaming), v)
                 THEN "generating" ELSE session.status[v]]
  <2>1. session.status \in [Tools -> L!Statuses]
    BY <1>2 DEF Session
  <2>2. status = session.status
    BY <1>3, <2>1
  <2>3. StreamUpdate(session, m) = Slice(h, status, session.streaming)
    BY <1>4, <1>5 DEF StreamUpdate, SetStatus, Slice
  <2> HIDE DEF status
  <2> QED BY <1>2, <2>2, <2>3 DEF Slice, Session
<1> QED BY <1>1, <1>6 DEF LaterDelta

LEMMA FinishTurns ==
    ASSUME Unattended, LoopInv, NEW s \in Streams, Finish(s)
    PROVE  Attributed' /\ Turn'
<1> DEFINE h == session.history
           n == Len(h)
           made == WithStatus(session, CurrentTools(session), "generating")
           auto == made # {} /\ made \subseteq Automatic
<1> USE DEF LoopInv
<1>1. Answering(s) /\ at[s] = "llm"
  BY WhoseTurn DEF Finish
<1>2. /\ h \in Seq(Item) /\ DOMAIN h = 1..n /\ n \in Nat /\ n \in DOMAIN h
      /\ h[n].tools \subseteq Tools
  <2>1. h \in Seq(Item) /\ n > 0
    BY <1>1 DEF TypeOK, Session, Answering
  <2>2. DOMAIN h = 1..n /\ n \in Nat /\ n \in DOMAIN h
    BY <2>1
  <2>3. h[n] \in Item
    BY <2>1, <2>2
  <2> QED BY <2>1, <2>2, <2>3 DEF Item
<1>3. made = h[n].tools
  <2>1. CASE h[n].tools = {}
    <3>1. CurrentTools(session) \subseteq Tools
      <4>1. \A p \in DOMAIN h : h[p].tools \subseteq Tools
        <5>1. \A p \in DOMAIN h : h[p] \in Item
          BY <1>2
        <5> QED BY <5>1 DEF Item
      <4>2. LastOf(Where(h, HasTools)) \in DOMAIN h \cup {0}
        BY DEF LastOf, Where
      <4> QED BY <4>1, <4>2 DEF CurrentTools
    <3>2. \A t \in Tools : session.status[t] # "generating"
      BY <1>1, <2>1 DEF Answering, Steady
    <3> QED BY <2>1, <3>1, <3>2 DEF WithStatus
  <2>2. CASE h[n].tools # {}
    <3> DEFINE S == Where(h, HasTools)
    <3>1. n \in S /\ S \in SUBSET (1..n)
      BY <1>2, <2>2 DEF Attributed, HasTools, Where
    <3>2. LastOf(S) \in S /\ n <= LastOf(S) /\ LastOf(S) \in 0..n
      <4> HIDE DEF S, n
      <4>1. n \in Nat
        BY <1>2
      <4> QED BY <3>1, <4>1, LastOfProperties
    <3>3. LastOf(S) = n
      BY <1>2, <3>2
    <3>4. CurrentTools(session) = h[n].tools
      <4>1. n # 0
        BY <1>2
      <4> QED BY <3>3, <4>1 DEF CurrentTools
    <3> QED BY <1>1, <1>2, <3>4 DEF WithStatus, Answering
  <2> QED BY <2>1, <2>2
<1>4. made \subseteq Tools /\ \A t \in made : InHistory(session, t)
  BY <1>2, <1>3 DEF InHistory
<1>5. auto <=> made # {}
  BY <1>4 DEF Unattended
<1>6. CASE made # {}
  <2>0. PICK calls \in SUBSET Tools, q \in DOMAIN h : calls = made /\ q = n
    BY <1>2, <1>4
  <2>1. /\ session' = SetStatus(session, calls, "calling") /\ Go(s, "tools")
        /\ running' = running \cup calls
        /\ caller' = [t \in Tools |-> IF t \in calls THEN s ELSE caller[t]]
        /\ sent' = sent
    BY <1>5, <1>6, <2>0 DEF Finish
  <2>a. calls # {} /\ h[q].tools = calls /\ \A t \in calls : InHistory(session, t)
    BY <1>3, <1>4, <1>6, <2>0
  <2>2. /\ session'.history = h /\ session'.streaming = session.streaming
        /\ \A t \in Tools : session'.status[t] = IF t \in calls THEN "calling" ELSE session.status[t]
    BY <2>1, <2>a DEF SetStatus, Slice
  <2>3. Attributed'
    BY <2>2 DEF Attributed
  <2>4. Active' = {} /\ running' = calls /\ session'.streaming
    <3>1. Active' = Active \ {s}
      BY <2>1, GoActive
    <3> QED BY <1>1, <2>1, <2>2, <3>1 DEF Answering
  <2>5. \A t \in calls : caller'[t] # User
    <3>1. s # User
      BY DEF Streams, User
    <3> QED BY <2>1, <3>1
  <2>6. h[q].role = "assistant"
    BY <2>a DEF Attributed
  <2>7. \A t \in Tools \ calls : Steady(t)'
    BY <1>1, <2>0, <2>2, <2>a DEF Answering, Steady
  <2>8. SentBut(calls)'
    BY <1>1, <2>1, <2>2 DEF Answering, SentBut, InHistory, Returned
  <2>9. Calling(q)'
    BY <2>2, <2>4, <2>5, <2>6, <2>7, <2>8, <2>a DEF Calling
  <2> QED BY <2>2, <2>3, <2>9 DEF Turn
<1>7. CASE made = {}
  <2>1. /\ session' = SetStatus(SetInactive(session), made, "generated") /\ Go(s, "ended")
        /\ running' = running /\ sent' = sent
    BY <1>5, <1>7 DEF Finish
  <2>2. /\ session'.history = h /\ ~session'.streaming
        /\ \A t \in Tools : session'.status[t] = session.status[t]
    <3> HIDE DEF made
    <3> QED BY <1>7, <2>1 DEF SetStatus, SetInactive, Slice
  <2>3. Attributed'
    BY <2>2 DEF Attributed
  <2>4. Active' = {} /\ running' = {}
    BY <1>1, <2>1, GoActive DEF Answering
  <2>5. \A t \in Tools : Steady(t)'
    BY <1>1, <1>3, <1>7, <2>2 DEF Answering, Steady
  <2>6. SentBut({})'
    BY <1>1, <2>1, <2>2 DEF Answering, SentBut, InHistory, Returned
  <2>7. Resting'
    BY <2>2, <2>4, <2>5, <2>6 DEF Resting
  <2> QED BY <2>3, <2>7 DEF Turn
<1> QED BY <1>6, <1>7

LEMMA ResultTurns ==
    ASSUME LoopInv, NEW t \in Tools, NEW outcome \in {"done", "errored"}, ToolResult(t, outcome)
    PROVE  Attributed' /\ Turn'
<1> DEFINE h == session.history
           g == session'.history
           batch == Siblings(session', t)
<1> USE DEF LoopInv
<1>1. PICK p \in DOMAIN h : Calling(p)
  BY DEF ToolResult, Turn, Resting, Answering
<1>2. /\ t \in running /\ running' = running \ {t} /\ caller' = caller /\ maker' = maker
      /\ t \in h[p].tools /\ h[p].role = "assistant" /\ InHistory(session, t)
  BY <1>1 DEF ToolResult, Calling, InHistory, deltas
<1>3. /\ session'.status[t] = outcome
      /\ \A u \in Tools \ {t} : session'.status[u] = session.status[u]
      /\ Len(h) \in Nat /\ DOMAIN h = 1..Len(h)
      /\ Len(g) = Len(h) + 1 /\ DOMAIN g = 1..(Len(h) + 1)
      /\ \A q \in DOMAIN h : g[q] = h[q]
      /\ g[Len(h) + 1] = Result(t)
  BY <1>2, ToolResultHistory
<1>4. /\ Result(t).tools = {} /\ Result(t).answers = {t} /\ Result(t).role = "tool"
  BY DEF Result
<1>5. \A q \in DOMAIN g : g[q].tools # {} => q \in DOMAIN h /\ g[q] = h[q]
  BY <1>3, <1>4
<1>6. Attributed'
  BY <1>5 DEF Attributed
<1>7. p \in DOMAIN g /\ g[p] = h[p] /\ h[p].tools \subseteq Tools
  <2>1. h \in Seq(Item)
    BY DEF TypeOK, Session
  <2>2. h[p] \in Item
    BY <2>1
  <2> QED BY <1>3, <2>2 DEF Item
<1>8. batch = h[p].tools
  <2>1. \A q \in DOMAIN g : t \in g[q].tools => q = p
    BY <1>2, <1>5 DEF SentInv, Ordered
  <2> QED BY <1>2, <1>7, <2>1 DEF Siblings, Where
<1>9. \A u \in Tools : InHistory(session', u) => InHistory(session, u)
  BY <1>5 DEF InHistory
<1>10. /\ \A u \in Tools : HasResult(session, u) => HasResult(session', u)
       /\ HasResult(session', t)
  BY <1>3, <1>4, SMTT(60) DEF HasResult
<1>11. \A u \in h[p].tools \ running' :
          Returned(session', u) /\ HasResult(session', u) /\ sent[u] = 0
  <2>1. Returned(session', t) /\ sent[t] = 0
    <3>1. ~Returned(session, t)
      BY <1>2 DEF LifeInv, Returned
    <3> QED BY <1>3, <3>1 DEF SentInv, TypeOK, Returned
  <2>2. \A u \in h[p].tools \ running : Returned(session', u) /\ HasResult(session', u) /\ sent[u] = 0
    BY <1>1, <1>2, <1>3, <1>7, <1>10 DEF Calling, Returned
  <2> QED BY <1>2, <1>10, <2>1, <2>2
<1>12. \A u \in Tools \ running' : Steady(u)'
  BY <1>1, <1>2, <1>3 DEF Calling, Steady
<1>13. \A u \in running' : session'.status[u] = "calling" /\ u \in Tools
  BY <1>1, <1>2, <1>3 DEF Calling, TypeOK
<1>14. AllDone(session', batch) <=> running' = {}
  BY <1>1, <1>2, <1>8, <1>11, <1>13 DEF AllDone, Returned, Calling
<1>15. \A u \in Tools \ h[p].tools : InHistory(session', u) /\ Returned(session', u) => sent[u] = 1
  BY <1>1, <1>2, <1>3, <1>9 DEF Calling, SentBut, Returned
<1>16. CASE running' = {}
  <2>1. /\ session'.streaming /\ Go(NextStream, "compile")
        /\ sent' = [u \in Tools |->
              IF u \in batch \cup {t} /\ HasResult(session', u) THEN sent[u] + 1 ELSE sent[u]]
    BY <1>2, <1>14, <1>16, ToolResultHistory
  <2>2. Back # Tools
    BY <1>2 DEF Back, LifeInv, Returned
  <2>3. PICK s \in Streams : s = NextStream /\ at[s] = "idle"
    BY <2>2, StreamLeft
  <2>4. Active' = {s} /\ at'[s] = "compile"
    BY <1>1, <2>1, <2>3, GoActive DEF Calling, Go, TypeOK
  <2>5. \A u \in Tools : sent'[u] = IF u \in h[p].tools THEN 1 ELSE sent[u]
    BY <1>2, <1>8, <1>11, <1>16, <2>1
  <2>6. SentBut({})'
    BY <1>15, <2>5 DEF SentBut
  <2>7. g[Len(g)].tools = {} /\ g[Len(g)].role # "user" /\ Len(g) > 0
    BY <1>3, <1>4
  <2>9. \A u \in Tools : maker'[u] # s
    <3>1. s # User
      BY DEF Streams, User
    <3> QED BY <1>2, <2>3, <3>1 DEF Made
  <2>8. Answering(s)'
    BY <1>12, <1>16, <2>1, <2>4, <2>6, <2>7, <2>9 DEF Answering
  <2> QED BY <1>6, <2>8 DEF Turn
<1>17. CASE running' # {}
  <2>1. session'.streaming = session.streaming /\ UNCHANGED <<at, sent>>
    BY <1>2, <1>14, <1>17, ToolResultHistory
  <2>2. Active' = {} /\ session'.streaming
    BY <1>1, <2>1 DEF Active, Calling
  <2>3. PICK tools \in SUBSET Tools : tools = h[p].tools
    BY <1>7
  <2>4. SentBut(tools)'
    BY <1>15, <2>1, <2>3 DEF SentBut
  <2>5. Calling(p)'
    <3>1. running' \subseteq tools /\ g[p].tools = tools /\ g[p].role = "assistant"
      BY <1>1, <1>2, <1>7, <2>3 DEF Calling
    <3>2. \A u \in running' : session'.status[u] = "calling" /\ caller'[u] # User
      BY <1>1, <1>2, <1>13 DEF Calling
    <3>3. \A u \in tools \ running' : Returned(session', u) /\ HasResult(session', u) /\ sent'[u] = 0
      BY <1>11, <2>1, <2>3
    <3> QED BY <1>12, <1>17, <2>2, <2>4, <3>1, <3>2, <3>3 DEF Calling
  <2> QED BY <1>6, <1>7, <2>5 DEF Turn
<1> QED BY <1>16, <1>17

\* What is at work on a call was begun.
LEMMA MadeStep ==
    ASSUME LoopInv, [Next]_vars
    PROVE  Made'
<1> USE DEF LoopInv, Made, deltas, ghosts
<1>1. /\ at \in [Streams -> {"idle", "context", "compile", "llm", "tools", "ended"}]
      /\ maker \in [Tools -> Streams \cup {User}]
  BY DEF TypeOK
<1>2. ASSUME maker' = maker,
             at' = at \/ \E s \in Streams : \E place : place # "idle" /\ at' = [at EXCEPT ![s] = place]
      PROVE  Made'
  BY <1>1, <1>2
<1>3. ASSUME maker' = maker, NEW s, NEW place, place # "idle", Go(s, place)
      PROVE  Made'
  BY <1>1, <1>3 DEF Go
<1>4. ASSUME NEW i \in 1..(Len(session.history) + 1),
             Submit(i) \/ TruncateHistoryToMessage(i) \/ DeleteMessage(i)
      PROVE  Made'
  BY <1>2, <1>3, <1>4 DEF Submit, TruncateHistoryToMessage, DeleteMessage
<1>5. ASSUME NEW s \in Streams, Resolve(s) \/ StartLLM(s) \/ TooLong(s) \/ Finish(s) \/ Fail(s)
      PROVE  Made'
  BY <1>3, <1>5 DEF Resolve, StartLLM, TooLong, Finish, Fail
<1>6. ASSUME NEW s \in Streams, NEW text \in BOOLEAN, NEW made \in SUBSET Tools, Chunk(s, text, made)
      PROVE  Made'
  BY <1>1, <1>6 DEF Chunk
<1>7. ASSUME NEW t \in Tools, Accept(t) \/ Reject(t) \/ ToolFails(t)
      PROVE  Made'
  BY <1>2, <1>3, <1>7 DEF Accept, Reject, ToolFails
<1>8. ASSUME NEW t \in Tools, NEW outcome \in {"done", "errored"}, ToolResult(t, outcome)
      PROVE  Made'
  BY <1>2, <1>3, <1>8 DEF ToolResult
<1>9. CASE Stop \/ NewSession
  BY <1>2, <1>9 DEF Stop, NewSession
<1>10. ASSUME NEW s \in Streams, NEW t \in Tools, NEW u \in Tools, LaterDelta(s, t, u)
       PROVE  Made'
  BY <1>2, <1>10 DEF LaterDelta
<1>11. CASE UNCHANGED vars
  BY <1>2, <1>11 DEF vars
<1> QED BY <1>4, <1>5, <1>6, <1>7, <1>8, <1>9, <1>10, <1>11 DEF Next, Step

LEMMA LoopStep == Unattended /\ LoopInv /\ [Next]_vars => LoopInv'
<1> SUFFICES ASSUME Unattended, LoopInv, [Next]_vars PROVE LoopInv'
  OBVIOUS
<1>1. stray' = {}
  <2>1. CASE Next
    <3>1. ASSUME NEW s \in Streams, NEW t \in Tools, NEW u \in Tools, LaterDelta(s, t, u)
          PROVE  stray' = {}
      BY <3>1, FragmentsStay
    <3>2. ASSUME \/ \E i \in 1..(Len(session.history) + 1) : Submit(i)
                 \/ \E s \in Streams : Resolve(s) \/ StartLLM(s) \/ Finish(s)
                 \/ \E s \in Streams, text \in BOOLEAN, made \in SUBSET Tools : Chunk(s, text, made)
                 \/ \E t \in Tools, outcome \in {"done", "errored"} : ToolResult(t, outcome)
          PROVE  stray' = stray
      BY <3>2 DEF Submit, Resolve, StartLLM, Finish, Chunk, ToolResult, deltas
    <3> QED BY <2>1, <3>1, <3>2, OnlyTheLoop DEF LoopInv
  <2>2. CASE UNCHANGED vars
    BY <2>2 DEF vars, deltas, LoopInv
  <2> QED BY <2>1, <2>2
<1>2. TypeOK' /\ LifeInv' /\ SentInv' /\ Enough' /\ Made'
  BY <1>1, TypesStep, StepMoves, SentStep, EnoughStep, MadeStep DEF LoopInv
<1>3. ASSUME UNCHANGED <<session, at, input, running, maker, caller, sent>>
      PROVE  Attributed' /\ Turn'
  <2>1. /\ session' = session /\ at' = at /\ input' = input /\ running' = running
        /\ maker' = maker /\ caller' = caller /\ sent' = sent
    BY <1>3
  <2>2. Active' = Active /\ (Attributed' <=> Attributed) /\ \A t \in Tools : Steady(t)' <=> Steady(t)
    BY <2>1 DEF Active, Attributed, Steady
  <2>3. Resting => Resting'
    BY <2>1, <2>2 DEF Resting, SentBut
  <2>4. \A s \in Streams : Answering(s) => Answering(s)'
    BY <2>1, <2>2 DEF Answering, SentBut
  <2>5. \A p \in DOMAIN session.history : Calling(p) => Calling(p)'
    BY <2>1, <2>2 DEF Calling, SentBut
  <2>6. DOMAIN session'.history = DOMAIN session.history
    BY <2>1
  <2>7. Turn => Turn'
    <3> HIDE DEF Resting
    <3>1. Turn <=> \/ Resting
                   \/ \E s \in Streams : Answering(s)
                   \/ \E p \in DOMAIN session.history : Calling(p)
      BY DEF Turn
    <3>2. Turn' <=> \/ Resting'
                    \/ \E s \in Streams : Answering(s)'
                    \/ \E p \in DOMAIN session.history : Calling(p)'
      BY <2>6 DEF Turn
    <3> QED BY <2>3, <2>4, <2>5, <3>1, <3>2, Zenon
  <2> QED BY <2>2, <2>7 DEF LoopInv
<1>4. ASSUME Next PROVE Attributed' /\ Turn'
  <2>1. ASSUME NEW i \in 1..(Len(session.history) + 1), Submit(i) PROVE Attributed' /\ Turn'
    BY <2>1, SubmitTurns
  <2>2. ASSUME NEW s \in Streams, Resolve(s) \/ StartLLM(s) \/ Finish(s) PROVE Attributed' /\ Turn'
    BY <2>2, ResolveTurns, StartTurns, FinishTurns
  <2>3. ASSUME NEW s \in Streams, NEW text \in BOOLEAN, NEW made \in SUBSET Tools, Chunk(s, text, made)
        PROVE  Attributed' /\ Turn'
    BY <2>3, ChunkTurns
  <2>4. ASSUME NEW t \in Tools, NEW outcome \in {"done", "errored"}, ToolResult(t, outcome)
        PROVE  Attributed' /\ Turn'
    BY <2>4, ResultTurns
  <2>5. ASSUME NEW s \in Streams, NEW t \in Tools, NEW u \in Tools, LaterDelta(s, t, u)
        PROVE  Attributed' /\ Turn'
    BY <1>1, <1>3, <2>5, InPlace DEF ghosts
  <2> QED BY <1>4, <2>1, <2>2, <2>3, <2>4, <2>5, OnlyTheLoop
<1>5. CASE UNCHANGED vars
  <2>1. Attributed' /\ Turn'
    BY <1>3, <1>5 DEF vars, deltas, ghosts
  <2> QED BY <1>1, <1>2, <2>1 DEF LoopInv
<1> QED BY <1>1, <1>2, <1>4, <1>5 DEF LoopInv

\* Every state is somebody's turn.
LEMMA TurnsAlternate ==
    ASSUME Unattended
    PROVE  Spec => []LoopInv
<1>1. Init => LoopInv
  <2> SUFFICES ASSUME Init PROVE LoopInv
    OBVIOUS
  <2>1. TypeOK /\ LifeInv /\ SentInv
    BY InitTypes, InitLives DEF Init, Slice, SentInv, Ordered, Settled, Whole
  <2>2. Taken = {} /\ Active = {}
    BY DEF Init, Taken, Active
  <2>3. Enough
    BY <2>1, <2>2, FS_EmptySet, TakenAndBackFinite DEF Enough, TypeOK, Kinds
  <2>4. Attributed /\ Resting
    BY <2>2 DEF Init, Slice, Attributed, Resting, Steady, SentBut, InHistory
  <2>5. stray = {} /\ Made
    BY DEF Init, Made
  <2> QED BY <2>1, <2>3, <2>4, <2>5 DEF LoopInv, Turn
<1> QED BY <1>1, LoopStep, PTL DEF Spec

\* While users only submit messages, every call is automatic and nothing fails, one
\* answer at a time is streamed into the history, for any number of messages and calls.
THEOREM AnswersTakeTurns ==
    ASSUME Unattended
    PROVE  Spec => []StreamsDoNotOverlap
BY TurnsAlternate, TurnsSuffice, PTL

\* Meanwhile no fragment goes astray: what is said above until one does is said of
\* all that happens.
THEOREM NothingStrays ==
    ASSUME Unattended
    PROVE  Spec => [](stray = {})
<1>1. LoopInv => stray = {}
  BY DEF LoopInv
<1> QED BY <1>1, TurnsAlternate, PTL

\* Meanwhile isStreaming says exactly that an answer is on its way or a call runs, so
\* that what the user submits never meets either.
THEOREM FlagIsRight ==
    ASSUME Unattended
    PROVE  Spec => []StreamingMeansBusy
BY TurnsAlternate, TurnsSuffice, PTL

\* And every result goes back to the model, once all calls of its message returned.
THEOREM ResultsGoBack ==
    ASSUME Unattended
    PROVE  Spec => []ResultsAreSent
BY TurnsAlternate, TurnsSuffice, PTL
============================================================================
