---------------------------- MODULE ToolLifecycle ----------------------------
(***************************************************************************)
(* What the agent promises of a tool call: the life the type ToolStatus    *)
(* (core/index.d.ts) gives it, and the consent the documentation of agent  *)
(* mode asks for (docs/features/agent/how-it-works.mdx).                   *)
(***************************************************************************)
CONSTANTS
    Tools,  \* the tool calls a model may make
    Automatic    \* those whose policy is "allowedWithoutPermission"

VARIABLE status

Statuses ==
    {"unused", "generating", "generated", "calling", "done", "errored", "canceled"}

Init == status = [t \in Tools |-> "unused"]

\* Where a call may go from each status.  Only a call that needs no
\* permission may be made without waiting as "generated".
Onward(t, from, to) ==
    \/ from = "unused" /\ to = "generating"
    \/ from = "generating" /\ to = "generated"
    \/ from = "generating" /\ to = "calling" /\ t \in Automatic
    \/ from = "generated" /\ to \in {"calling", "canceled"}
    \/ from = "calling" /\ to \in {"done", "errored"}

\* Any number of calls move at once: an answer may hold several of them.
Next ==
    /\ status' \in [Tools -> Statuses]
    /\ \A t \in Tools :
          status'[t] = status[t] \/ Onward(t, status[t], status'[t])

Spec == Init /\ [][Next]_status
============================================================================
