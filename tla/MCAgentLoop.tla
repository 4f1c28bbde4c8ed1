---------------------------- MODULE MCAgentLoop ----------------------------
(* Values for the constants of AgentLoop. *)
EXTENDS AgentLoop, TLC

CONSTANTS read, grep, bash

Up(submit, stop, reject, failure, new, trim) ==
    ("submit" :> submit) @@ ("stop" :> stop) @@ ("reject" :> reject)
    @@ ("failure" :> failure) @@ ("session" :> new) @@ ("trim" :> trim)

Everything == Up(2, 1, 1, 1, 1, 1)
OnlySubmits == Up(3, 0, 0, 0, 0, 0)
WithStop == Up(2, 1, 0, 0, 0, 0)
============================================================================
