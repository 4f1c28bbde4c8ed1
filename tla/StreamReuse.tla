----------------------------- MODULE StreamReuse -----------------------------
(***************************************************************************)
(* Autocompletion: requests that are debounced, and that read what the     *)
(* model generated for an earlier request as long as the user types what   *)
(* it predicted (core/autocomplete: CompletionProvider.ts,                 *)
(* util/AutocompleteDebouncer.ts, generation/GeneratorReuseManager.ts,     *)
(* generation/ListenableGenerator.ts, generation/CompletionStreamer.ts).   *)
(*                                                                         *)
(* A text is a sequence of characters.  Generators and requests are        *)
(* numbered in the order of their creation.                                *)
(***************************************************************************)
EXTENDS Naturals, Sequences, SequencesExt

CONSTANTS Letter, Newline,   \* the characters
          Typings,           \* the texts a user may have typed, none of them empty
          MaxRequests, MaxText, MaxChunk   \* bounds

Char == Letter \cup {Newline}

ASSUME StreamAssumption == Typings \subseteq Seq(Char) /\ MaxChunk \in Nat

VARIABLES
    requests,           \* the calls of provideInlineCompletionItems
    timer,              \* the request the debouncer has a timeout for, or 0
    generators,         \* the ListenableGenerators
    currentGenerator,   \* the one the reuse manager keeps, or 0
    pendingCompletion

streamVars == <<requests, timer, generators, currentGenerator, pendingCompletion>>


StreamTypeOK ==
    /\ timer \in 0..Len(requests)
    /\ currentGenerator \in 0..Len(generators)
    /\ pendingCompletion \in Seq(Char)
    /\ \A g \in DOMAIN generators :
          generators[g] \in [prefix: Seq(Char), buffer: Seq(Seq(Char)),
                             isEnded: BOOLEAN, aborted: BOOLEAN, done: BOOLEAN]
    /\ \A r \in DOMAIN requests :
          requests[r] \in [prefix: Seq(Char), multiline: BOOLEAN, token: BOOLEAN,
                           at: {"debounce", "prepare", "read", "wait", "end", "canceled"},
                           generator: 0..Len(generators), next: Nat,
                           typed: Seq(Char), out: Seq(Char)]

StreamInit ==
    /\ requests = <<>> /\ timer = 0
    /\ generators = <<>> /\ currentGenerator = 0 /\ pendingCompletion = <<>>

-----------------------------------------------------------------------------
(* The user and the debouncer                                              *)

\* A request for the text before the cursor, which the user may have changed in
\* any way since the last.  The timeout of the one before is cleared, and its
\* promise stays pending for ever.
Request(prefix, multiline) ==
    /\ Len(requests) < MaxRequests
    /\ requests' = Append(requests,
          [prefix |-> prefix, multiline |-> multiline, token |-> FALSE, at |-> "debounce",
           generator |-> 0, next |-> 1, typed |-> <<>>, out |-> <<>>])
    /\ timer' = Len(requests) + 1
    /\ UNCHANGED <<generators, currentGenerator, pendingCompletion>>

Debounced ==
    /\ timer # 0
    /\ requests' = [requests EXCEPT ![timer].at = "prepare"]
    /\ timer' = 0
    /\ UNCHANGED <<generators, currentGenerator, pendingCompletion>>

\* The editor gives a request up: its token is looked at with the next update.
CancelToken(r) ==
    /\ requests[r].at \in {"prepare", "read", "wait"} /\ ~requests[r].token
    /\ requests' = [requests EXCEPT ![r].token = TRUE]
    /\ UNCHANGED <<timer, generators, currentGenerator, pendingCompletion>>

-----------------------------------------------------------------------------
(* GeneratorReuseManager                                                   *)

\* Mutant: the prefix may have become shorter since the generator was made.
ReusableAfterBackspace(prefix) ==
    /\ currentGenerator # 0
    /\ IsPrefix(prefix, generators[currentGenerator].prefix \o pendingCompletion)

ShouldReuse(prefix) ==
    /\ currentGenerator # 0
    /\ IsPrefix(prefix, generators[currentGenerator].prefix \o pendingCompletion)
    /\ Len(generators[currentGenerator].prefix) <= Len(prefix)

\* What is left of gs when its generator g is canceled.
Canceled(gs, g) == IF g = 0 THEN gs ELSE [gs EXCEPT ![g].aborted = TRUE, ![g].isEnded = TRUE]

\* getGenerator(), when everything before it has been awaited: the request reads
\* the current generator, or a new one that takes its place.
GetGenerator(r) ==
    LET prefix == requests[r].prefix
        reuse == ShouldReuse(prefix)
        g == IF reuse THEN currentGenerator ELSE Len(generators) + 1
        typed == IF reuse
                 THEN SubSeq(prefix, Len(generators[g].prefix) + 1, Len(prefix)) ELSE <<>>
    IN  /\ requests[r].at = "prepare"
        /\ IF reuse
           THEN UNCHANGED <<generators, currentGenerator, pendingCompletion>>
           ELSE /\ generators' = Append(Canceled(generators, currentGenerator),
                       [prefix |-> prefix, buffer |-> <<>>, isEnded |-> FALSE,
                        aborted |-> FALSE, done |-> FALSE])
                /\ currentGenerator' = g
                /\ pendingCompletion' = <<>>
        /\ requests' = [requests EXCEPT ![r].at = "read", ![r].generator = g, ![r].typed = typed]
        /\ UNCHANGED <<timer>>

-----------------------------------------------------------------------------
(* ListenableGenerator: the source                                         *)

\* The listeners of g: the readers that wait, and go on to read.
Woken(g) ==
    [r \in DOMAIN requests |->
        IF requests[r].at = "wait" /\ requests[r].generator = g
        THEN [requests[r] EXCEPT !.at = "read"] ELSE requests[r]]

\* Mutant: a value is pushed, and told, after cancel() too.
YieldWhateverEnded(g, chunk) ==
    /\ ~generators[g].done
    /\ generators' = [generators EXCEPT ![g].buffer = Append(@, chunk)]
    /\ pendingCompletion' = pendingCompletion \o chunk
    /\ requests' = Woken(g)
    /\ UNCHANGED <<timer, currentGenerator>>

\* The source yields: the value is told to every listener, unless the generator
\* was canceled, which ends the loop.
Yield(g, chunk) ==
    /\ ~generators[g].done
    /\ IF generators[g].isEnded
       THEN generators' = [generators EXCEPT ![g].done = TRUE] /\ UNCHANGED pendingCompletion
       ELSE /\ generators' = [generators EXCEPT ![g].buffer = Append(@, chunk)]
            /\ pendingCompletion' = pendingCompletion \o chunk
    /\ requests' = Woken(g)
    /\ UNCHANGED <<timer, currentGenerator>>

\* Mutant: the end is told to nobody.
SourceEndsSilently(g) ==
    /\ ~generators[g].done
    /\ generators' = [generators EXCEPT ![g].done = TRUE, ![g].isEnded = TRUE]
    /\ UNCHANGED <<requests, timer, currentGenerator, pendingCompletion>>

\* The source ends or throws: the finally block.  One that has taken too long
\* stops the current generator first, its own or one that took its place.
SourceEnds(g) ==
    /\ ~generators[g].done
    /\ LET ended == [generators EXCEPT ![g].done = TRUE, ![g].isEnded = TRUE]
       IN  \/ generators' = ended
           \/ generators[g].buffer # <<>> /\ generators' = Canceled(ended, currentGenerator)
    /\ requests' = Woken(g)
    /\ UNCHANGED <<timer, currentGenerator, pendingCompletion>>

-----------------------------------------------------------------------------
(* The readers: tee(), the end of getGenerator() and the filters           *)

\* How much of chunk was typed already.
SkippedBy(chunk, typed) ==
    LET Match(n) == n <= Len(chunk) /\ n <= Len(typed) /\ SubSeq(chunk, 1, n) = SubSeq(typed, 1, n)
    IN  CHOOSE n \in 0..Len(chunk) : Match(n) /\ \A m \in 0..Len(chunk) : Match(m) => m <= n

\* A reader takes the next chunk of the buffer, without what was typed and up to
\* a newline; it stops when its token was canceled.
ReadChunk(r) ==
    LET q == requests[r]
        chunk == generators[q.generator].buffer[q.next]
        skip == SkippedBy(chunk, q.typed)
        rest == SubSeq(chunk, skip + 1, Len(chunk))
        lineEnds == {i \in DOMAIN rest : rest[i] = Newline}
        newLine == ~q.multiline /\ lineEnds # {}
        shown == IF newLine
                 THEN SubSeq(rest, 1, (CHOOSE i \in lineEnds : \A j \in lineEnds : i <= j) - 1)
                 ELSE rest
    IN  /\ q.at = "read" /\ q.next <= Len(generators[q.generator].buffer)
        /\ requests' = [requests EXCEPT ![r] =
              IF q.token /\ (newLine \/ rest # <<>>)
              THEN [q EXCEPT !.at = "canceled"]
              ELSE [q EXCEPT !.next = @ + 1, !.out = @ \o shown,
                             !.typed = SubSeq(@, skip + 1, Len(@)),
                             !.at = IF newLine THEN "end" ELSE "read"]]
        /\ UNCHANGED <<timer, generators, currentGenerator, pendingCompletion>>

\* The buffer is read: the reader waits for the source, or ends.
ReachEnd(r) ==
    /\ requests[r].at = "read"
    /\ requests[r].next > Len(generators[requests[r].generator].buffer)
    /\ requests' = [requests EXCEPT ![r].at =
                       IF generators[requests[r].generator].isEnded THEN "end" ELSE "wait"]
    /\ UNCHANGED <<timer, generators, currentGenerator, pendingCompletion>>

\* A filter has seen enough: it stops its request, and the current generator,
\* which may be that of a newer request.
FullStop(r) ==
    /\ requests[r].at = "read" /\ requests[r].out # <<>>
    /\ requests' = [requests EXCEPT ![r].at = "canceled"]
    /\ generators' = Canceled(generators, currentGenerator)
    /\ UNCHANGED <<timer, currentGenerator, pendingCompletion>>

-----------------------------------------------------------------------------
Reads(r) == ReadChunk(r) \/ ReachEnd(r)

StreamNext ==
    \/ \E prefix \in Typings, multiline \in BOOLEAN : Request(prefix, multiline)
    \/ Debounced
    \/ \E r \in DOMAIN requests :
          CancelToken(r) \/ GetGenerator(r) \/ ReadChunk(r) \/ ReachEnd(r) \/ FullStop(r)
    \/ \E g \in DOMAIN generators :
          \/ SourceEnds(g)
          \/ \E chunk \in SeqOf(Char, MaxChunk) \ {<<>>} :
                /\ Len(generators[g].prefix) + Len(FlattenSeq(generators[g].buffer)) + Len(chunk) <= MaxText
                /\ Yield(g, chunk)

StreamSpec == StreamInit /\ [][StreamNext]_streamVars

\* Timers fire, some request that can go on does, and a source ends or is ended
\* by its abort.
StreamFairness ==
    /\ WF_streamVars(Debounced)
    /\ WF_streamVars(\E r \in DOMAIN requests : GetGenerator(r) \/ Reads(r))
    /\ WF_streamVars(\E g \in DOMAIN generators : SourceEnds(g))

-----------------------------------------------------------------------------
(* Properties                                                              *)

Generated(g) == generators[g].prefix \o FlattenSeq(generators[g].buffer)

\* A reader that joins late, after the user typed on, gets each character once
\* and in order: what it has typed and what it is shown is what was generated,
\* up to the chunk it has reached (GeneratorReuseManager.ts:58).
ReadersGetTheirText ==
    \A r \in DOMAIN requests : requests[r].generator # 0 =>
        LET q == requests[r]
            g == generators[q.generator]
            seen == g.prefix \o FlattenSeq(SubSeq(g.buffer, 1, q.next - 1))
        IN  IF IsPrefix(q.prefix, seen)
            THEN IF q.at = "end" /\ ~q.multiline
                 THEN IsPrefix(q.prefix \o q.out, seen)
                 ELSE q.prefix \o q.out = seen
            ELSE IsPrefix(seen, q.prefix) /\ q.out = <<>>

\* The reuse manager decides by what its current generator has generated: no
\* value of a generator that was replaced gets in between, however late it comes
\* (GeneratorReuseManager.ts:23).
PendingIsCurrent ==
    currentGenerator # 0 =>
        generators[currentGenerator].prefix \o pendingCompletion = Generated(currentGenerator)

\* A request ends, also when its generator is canceled or its source fails while
\* it waits; only one that a newer one debounced never does.
Over(r) == \/ requests[r].at \in {"end", "canceled"}
           \/ requests[r].at = "debounce" /\ timer # r
RequestsEnd == []<>(\A r \in DOMAIN requests : Over(r))

=============================================================================
