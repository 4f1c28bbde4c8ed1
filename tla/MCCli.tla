------------------------------- MODULE MCCli -------------------------------
(* The service container and the server of the command-line agent.  They   *)
(* share no variable and no property speaks of both: a behaviour shows the *)
(* one or the other, focus says which.                                     *)
EXTENDS ServiceContainer, ChatServer
CONSTANTS auth, apiClient, config, mcp
VARIABLE focus

\* The dependencies of services/index.ts, without the services that add no path.
MCDeps == [s \in Service |-> CASE s = auth -> {}
                               [] s = apiClient -> {auth}
                               [] s = config -> {auth, apiClient}
                               [] s = mcp -> {config}]

Init == focus \in {"services", "server"} /\ SvcInit /\ ChatInit
Next == \/ focus = "services" /\ SvcNext /\ UNCHANGED <<focus, chatVars>>
        \/ focus = "server" /\ ChatNext /\ UNCHANGED <<focus, svcVars>>

Spec == Init /\ [][Next]_<<focus, svcVars, chatVars>>
        /\ (focus = "services" => SvcFairness) /\ (focus = "server" => ChatFairness)

(* The types of the two components' states. *)
TypeOK == SvcTypeOK /\ ChatTypeOK
=============================================================================
