---------------------------- MODULE McpConnection ----------------------------
(***************************************************************************)
(* The connection to an MCP server, which the configuration, the user and  *)
(* the end of a sign-in each connect anew while an earlier attempt may be  *)
(* under way (core/context/mcp/MCPConnection.ts, MCPManagerSingleton.ts).  *)
(*                                                                         *)
(* A call of connectClient is numbered; one that starts an attempt gives   *)
(* the attempt, its abort controller and its promise that number.          *)
(***************************************************************************)
EXTENDS Naturals, Sequences

CONSTANTS Sse,       \* whether the transport is sse, which needs a token first
          MaxCalls   \* bound on the calls

VARIABLES status,              \* MCPConnection.status
          connectionPromise,   \* the attempt whose promise it holds, or 0
          controller,          \* the current abort controller of the connection
          signal,              \* the current abort controller of the manager; those before it are aborted
          calls,
          removed              \* whether the configuration dropped the server

mcpVars == <<status, connectionPromise, controller, signal, calls, removed>>

McpTypeOK ==
    /\ status \in {"not-connected", "connecting", "connected", "error"}
    /\ {connectionPromise, controller} \subseteq 0..Len(calls)
    /\ \A n \in DOMAIN calls :
          calls[n] \in [at: {"token", "wait", "returned"},   \* where the caller is
                        on: 0..Len(calls),                   \* the attempt it waits for
                        work: {"none", "connecting", "late", "ended"},   \* the attempt itself
                        settled: BOOLEAN,                    \* its promise
                        ctl: 0..Len(calls), signal: 1..signal]   \* the aborts it listens to
    \* The promise it holds is that of an attempt under way.
    /\ connectionPromise # 0 => calls[connectionPromise].work = "connecting"

McpInit ==
    /\ status = "not-connected" /\ connectionPromise = 0 /\ controller = 0
    /\ signal = 1 /\ calls = <<>> /\ removed = FALSE

\* Abort controllers ctl of the connection, or sig of the manager, are aborted: the
\* attempts that listen are settled.  0 is no controller.
Abort(cs, ctl, sig) ==
    [n \in DOMAIN cs |->
        IF cs[n].work # "none" /\ (cs[n].ctl = ctl \/ cs[n].signal = sig)
        THEN [cs[n] EXCEPT !.settled = TRUE] ELSE cs[n]]

\* connectClient up to its first await, with the calls as cs and the manager's
\* controller as sig.
Connect(force, cs, sig) ==
    LET n == Len(cs) + 1
        call == [at |-> "wait", on |-> n, work |-> "connecting", settled |-> FALSE,
                 ctl |-> n, signal |-> sig]
        aborted == Abort(cs, controller, 0)
    IN  IF ~force /\ status = "connected"
        THEN /\ calls' = Append(cs, [call EXCEPT !.at = "returned", !.work = "none"])
             /\ UNCHANGED <<status, connectionPromise, controller>>
        ELSE IF ~force /\ connectionPromise # 0
        THEN /\ calls' = Append(cs, [call EXCEPT !.on = connectionPromise, !.work = "none"])
             /\ UNCHANGED <<status, connectionPromise, controller>>
        ELSE /\ status' = "connecting" /\ controller' = n
             /\ IF Sse THEN /\ calls' = Append(aborted, [call EXCEPT !.at = "token", !.work = "none"])
                            /\ UNCHANGED connectionPromise
                ELSE calls' = Append(aborted, call) /\ connectionPromise' = n

\* refreshConnections: for a new or changed configuration.
RefreshConnections(force) ==
    /\ Len(calls) < MaxCalls /\ ~removed
    /\ signal' = signal + 1
    /\ Connect(force, Abort(calls, 0, signal), signal')
    /\ UNCHANGED removed

\* refreshConnection: for a reload by the user, or a sign-in.
RefreshConnection ==
    /\ Len(calls) < MaxCalls /\ ~removed
    /\ Connect(TRUE, calls, signal)
    /\ UNCHANGED <<signal, removed>>

\* setConnections drops the server: its connection is aborted and closed, and the
\* connections that are left are refreshed.
DropConnection ==
    /\ ~removed /\ removed' = TRUE
    /\ signal' = signal + 1
    /\ calls' = Abort(calls, controller, signal)
    /\ UNCHANGED <<status, connectionPromise, controller>>

\* The token is there: the attempt begins, and listens to the controller of now.
TokenReturns(n) ==
    /\ calls[n].at = "token"
    /\ calls' = [calls EXCEPT ![n].at = "wait", ![n].work = "connecting", ![n].ctl = controller]
    /\ connectionPromise' = n
    /\ UNCHANGED <<status, controller, signal, removed>>

-----------------------------------------------------------------------------
(* The attempt, which no abort stops                                       *)

\* Mutant: without the finally block.
EndsKeepingPromise(n, st, work) ==
    /\ status' = st
    /\ calls' = [calls EXCEPT ![n].work = work, ![n].settled = TRUE]
    /\ UNCHANGED <<connectionPromise, controller, signal, removed>>

Ends(n, st, work) ==
    /\ status' = st /\ connectionPromise' = 0
    /\ calls' = [calls EXCEPT ![n].work = work, ![n].settled = TRUE]
    /\ UNCHANGED <<controller, signal, removed>>

Connected(n) == calls[n].work = "connecting" /\ Ends(n, "connected", "ended")

Fails(n) == calls[n].work = "connecting" /\ Ends(n, "error", "ended")

\* Mutant: the timeout only ends the wait.
TimesOutSilently(n) == calls[n].work = "connecting" /\ Ends(n, status, "late")

\* The race is lost to the timer; what it raced with goes on.
TimesOut(n) == calls[n].work = "connecting" /\ Ends(n, "error", "late")

ConnectedLate(n) ==
    /\ calls[n].work = "late"
    /\ status' = "connected"
    /\ calls' = [calls EXCEPT ![n].work = "ended"]
    /\ UNCHANGED <<connectionPromise, controller, signal, removed>>

\* await this.connectionPromise
CallReturns(n) ==
    /\ calls[n].at = "wait" /\ calls[calls[n].on].settled
    /\ calls' = [calls EXCEPT ![n].at = "returned"]
    /\ UNCHANGED <<status, connectionPromise, controller, signal, removed>>

-----------------------------------------------------------------------------
McpNext ==
    \/ \E force \in BOOLEAN : RefreshConnections(force)
    \/ RefreshConnection
    \/ DropConnection
    \/ \E n \in DOMAIN calls :
          \/ TokenReturns(n) \/ CallReturns(n)
          \/ Connected(n) \/ Fails(n) \/ TimesOut(n) \/ ConnectedLate(n)

McpSpec == McpInit /\ [][McpNext]_mcpVars

\* The token is read from a file, timers fire, and a settled promise is seen.
\* That a server answers is not assumed.
McpFairness ==
    \A n \in 1..MaxCalls :
        /\ WF_mcpVars(n \in DOMAIN calls /\ TokenReturns(n))
        /\ WF_mcpVars(n \in DOMAIN calls /\ TimesOut(n))
        /\ WF_mcpVars(n \in DOMAIN calls /\ CallReturns(n))

-----------------------------------------------------------------------------
(* Properties                                                              *)

\* However attempts overlap, abort and outlive each other, every caller gets an
\* answer, and the server does not stay "connecting" (MCPConnection.ts:106).
McpSettles ==
    []<>(status # "connecting" /\ \A n \in DOMAIN calls : calls[n].at = "returned")

=============================================================================
