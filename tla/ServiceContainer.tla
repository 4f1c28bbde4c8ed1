-------------------------- MODULE ServiceContainer --------------------------
(***************************************************************************)
(* The service container of the command-line agent                         *)
(* (extensions/cli/src/services/ServiceContainer.ts): services with        *)
(* dependencies, loaded by factories that may wait for one another.        *)
(*                                                                         *)
(* A load that runs is an activation <<s, n>>.  load() starts, in one      *)
(* synchronous cascade, the activation of a service and those of all its   *)
(* dependencies that are not loading.  An activation waits for the end of  *)
(* the loads it started itself, and for the next event of the others; it   *)
(* then calls the factory, which gets its dependencies from the container  *)
(* again and may have to load or to wait for them once more.               *)
(***************************************************************************)
EXTENDS Naturals, FiniteSets

CONSTANTS Service,     \* the registered services
          Deps,        \* Deps[s]: what s was registered to depend on
          MaxActs,     \* bound: activations of a service at a time
          MaxAsks,     \* bound: loads, reloads and sets from outside
          MaxThrows    \* bound: factories that throw

ASSUME DepsAssumption == Deps \in [Service -> SUBSET Service]
ASSUME ActsAssumption == MaxActs \in Nat /\ MaxAsks \in Nat /\ MaxThrows \in Nat

VARIABLES
    state,      \* state[s], as in ServiceResult
    value,      \* value[s]: 0 for null, else which creation of s it is
    created,    \* created[s]: how many values s has had
    acts,       \* acts[s][n]: the activation in slot n of s
    madeFrom,   \* madeFrom[s][d]: the value of d that the value of s was made from
    reloaded,   \* the service of the last reload, {} when something disturbed it
    asks, throws

svcVars == <<state, value, created, acts, madeFrom, reloaded, asks, throws>>

Slot == 1..MaxActs

\* What an activation waits for: its own load n of a service, or (0) any event.
Event == 0
Wait == [on: Service, load: 0..MaxActs]

NoValues == [d \in Service |-> 0]
NoAct == [at |-> "none", waits |-> {}, got |-> NoValues]

Live(s, n) == acts[s][n].at # "none"
Quiet == \A s \in Service, n \in Slot : ~Live(s, n)

SvcTypeOK ==
    /\ state \in [Service -> {"idle", "loading", "ready", "error"}]
    /\ value \in [Service -> Nat]
    /\ created \in [Service -> Nat]
    /\ acts \in [Service -> [Slot -> [at: {"none", "deps", "factory", "failing"},
                                      waits: SUBSET Wait,
                                      got: [Service -> Nat]]]]
    /\ madeFrom \in [Service -> [Service -> Nat]]
    /\ reloaded \in SUBSET Service
    /\ asks \in Nat /\ throws \in Nat

SvcInit ==
    /\ state = [s \in Service |-> "idle"]
    /\ value = NoValues
    /\ created = NoValues
    /\ acts = [s \in Service |-> [n \in Slot |-> NoAct]]
    /\ madeFrom = [s \in Service |-> NoValues]
    /\ reloaded = {}
    /\ asks = 0 /\ throws = 0

-----------------------------------------------------------------------------
(* load(), get() and findAllDependents()                                   *)

\* Mutant: load() leaves a dependency that is ready as it is.
StartedUnlessReady(roots, st) ==
    LET Idle == {s \in Service : st[s] # "loading"}
        Covers == {T \in SUBSET Idle : /\ roots \cap Idle \subseteq T
                                        /\ \A s \in T : {d \in Deps[s] \cap Idle : st[d] # "ready"} \subseteq T}
    IN  {s \in Idle : \A T \in Covers : s \in T}

\* The services a call of load() for each of roots starts: from the roots down
\* the dependencies, past none that is loading; one that is ready starts again.
Started(roots, st) ==
    LET Idle == {s \in Service : st[s] # "loading"}
        Covers == {T \in SUBSET Idle : /\ roots \cap Idle \subseteq T
                                        /\ \A s \in T : Deps[s] \cap Idle \subseteq T}
    IN  {s \in Idle : \A T \in Covers : s \in T}

\* Mutant: only the services that name s itself.
DirectDependents(s) == {x \in Service : s \in Deps[x]}

Dependents(s) ==
    LET Covers == {T \in SUBSET Service :
                     \A x \in Service : Deps[x] \cap (T \cup {s}) # {} => x \in T}
    IN  {x \in Service : \A T \in Covers : x \in T}

FreeSlots(s) == {n \in Slot : ~Live(s, n)}
NewSlot(s) == CHOOSE n \in FreeSlots(s) : TRUE

\* Who started each service of a cascade from roots: one before it in the
\* cascade, or whoever called load().
Caller == "caller"
Origins(T, roots) ==
    {by \in [T -> T \cup {Caller}] :
        \A t \in T : IF by[t] = Caller THEN t \in roots ELSE t \in Deps[by[t]]}

\* p waits for the load of d it started, or for an event of the d of another.
WaitFor(p, d, by) ==
    [on |-> d, load |-> IF d \in DOMAIN by /\ by[d] = p THEN NewSlot(d) ELSE Event]

\* The activations after a cascade in which by[t] started t.
Cascade(as, by) ==
    [s \in Service |->
        IF s \in DOMAIN by
        THEN [as[s] EXCEPT ![NewSlot(s)] =
                 [at |-> "deps", waits |-> {WaitFor(s, d, by) : d \in Deps[s]},
                  got |-> NoValues]]
        ELSE as[s]]

\* load() of each of roots, in the states st; the value of a service that loads
\* stays until it is replaced.
LoadAll(roots, st, val) ==
    \E T \in {Started(roots, st)} :
        /\ \A t \in T : FreeSlots(t) # {}
        /\ \E by \in Origins(T, roots) : acts' = Cascade(acts, by)
        /\ state' = [s \in Service |-> IF s \in T THEN "loading" ELSE st[s]]
        /\ value' = val
        /\ UNCHANGED <<created, madeFrom, throws>>

-----------------------------------------------------------------------------
(* From outside                                                            *)

\* initializeAll(), at the start of the program.
InitializeAll ==
    /\ \A s \in Service : state[s] = "idle"
    /\ asks < MaxAsks
    /\ asks' = asks + 1
    /\ reloaded' = {}
    /\ LoadAll(Service, state, value)

\* load(s), or get(s) of a service that is neither ready nor loading.
Load(s) ==
    /\ state[s] # "loading"
    /\ asks < MaxAsks
    /\ asks' = asks + 1
    /\ reloaded' = {}
    /\ LoadAll({s}, state, value)

\* reload(s): s and all that depends on it are reset, then loaded.
Reload(s) ==
    LET Reset == {s} \cup Dependents(s)
    IN  /\ asks < MaxAsks
        /\ asks' = asks + 1
        /\ reloaded' = IF Quiet THEN {s} ELSE {}
        /\ LoadAll(Reset, [x \in Service |-> IF x \in Reset THEN "idle" ELSE state[x]],
                          [x \in Service |-> IF x \in Reset THEN 0 ELSE value[x]])

\* The event s:ready with value v, for those who wait for any event of s or for
\* its load n; only a factory keeps the value.
Ready(as, s, n, v) ==
    LET Heard == {[on |-> s, load |-> Event], [on |-> s, load |-> n]}
        Hear(a) == IF a.waits \cap Heard = {} THEN a
                   ELSE [a EXCEPT !.waits = @ \ Heard,
                                  !.got = IF a.at = "factory"
                                          THEN [@ EXCEPT ![s] = v] ELSE @]
    IN  [x \in Service |-> [m \in Slot |-> Hear(as[x][m])]]

\* Mutant: the error goes only to those who wait for an event.
FailedForEvents(as, s, n) ==
    LET Hear(a) == IF [on |-> s, load |-> Event] \notin a.waits THEN a
                   ELSE [a EXCEPT !.at = "failing", !.waits = {}]
    IN  [x \in Service |-> [m \in Slot |-> Hear(as[x][m])]]

\* The event s:error: a waiter gives up, whatever else it waits for.
Failed(as, s, n) ==
    LET Heard == {[on |-> s, load |-> Event], [on |-> s, load |-> n]}
        Hear(a) == IF a.waits \cap Heard = {} THEN a
                   ELSE [a EXCEPT !.at = "failing", !.waits = {}]
    IN  [x \in Service |-> [m \in Slot |-> Hear(as[x][m])]]

\* set(s, v): a service that changed itself, or a choice of the user.
SetValue(s) ==
    /\ asks < MaxAsks
    /\ asks' = asks + 1
    /\ reloaded' = {}
    /\ created' = [created EXCEPT ![s] = @ + 1]
    /\ value' = [value EXCEPT ![s] = created[s] + 1]
    /\ state' = [state EXCEPT ![s] = "ready"]
    /\ madeFrom' = [madeFrom EXCEPT ![s] = NoValues]
    /\ acts' = Ready(acts, s, Event, created[s] + 1)
    /\ UNCHANGED throws

-----------------------------------------------------------------------------
(* The steps of an activation                                              *)

\* All dependencies have loaded: the factory starts and gets each of them, the
\* value that is there, or by loading it, or by waiting for its event.
CallFactory(s, n) ==
    /\ acts[s][n].at = "deps" /\ acts[s][n].waits = {}
    /\ \E Missing \in {{d \in Deps[s] : state[d] \in {"idle", "error"}}} :
       \E T \in {Started(Missing, state)} :
          /\ \A t \in T : FreeSlots(t) # {}
          /\ \E by \in Origins(T, Missing) :
                acts' = Cascade([acts EXCEPT ![s][n] =
                     [at |-> "factory",
                      waits |-> {WaitFor(Caller, d, by) : d \in {e \in Deps[s] : state[e] # "ready"}},
                      got |-> [d \in Service |->
                                 IF d \in Deps[s] /\ state[d] = "ready" THEN value[d] ELSE 0]]],
                     by)
          /\ state' = [x \in Service |-> IF x \in T THEN "loading" ELSE state[x]]
    /\ UNCHANGED <<value, created, madeFrom, reloaded, asks, throws>>

FactoryReturns(s, n) ==
    /\ acts[s][n].at = "factory" /\ acts[s][n].waits = {}
    /\ created' = [created EXCEPT ![s] = @ + 1]
    /\ value' = [value EXCEPT ![s] = created[s] + 1]
    /\ state' = [state EXCEPT ![s] = "ready"]
    /\ madeFrom' = [madeFrom EXCEPT ![s] = acts[s][n].got]
    /\ acts' = Ready([acts EXCEPT ![s][n] = NoAct], s, n, created[s] + 1)
    /\ UNCHANGED <<reloaded, asks, throws>>

\* The catch of load().
GiveUp(s, n) ==
    /\ state' = [state EXCEPT ![s] = "error"]
    /\ value' = [value EXCEPT ![s] = 0]
    /\ acts' = Failed([acts EXCEPT ![s][n] = NoAct], s, n)
    /\ reloaded' = {}
    /\ UNCHANGED <<created, madeFrom, asks>>

FactoryThrows(s, n) ==
    /\ acts[s][n].at = "factory" /\ acts[s][n].waits = {}
    /\ throws < MaxThrows
    /\ throws' = throws + 1
    /\ GiveUp(s, n)

DependencyFailed(s, n) ==
    /\ acts[s][n].at = "failing"
    /\ GiveUp(s, n)
    /\ UNCHANGED throws

Proceed(s, n) == CallFactory(s, n) \/ FactoryReturns(s, n) \/ DependencyFailed(s, n)

SvcNext ==
    \/ InitializeAll
    \/ \E s \in Service : Load(s) \/ Reload(s) \/ SetValue(s)
    \/ \E s \in Service, n \in Slot :
          CallFactory(s, n) \/ FactoryReturns(s, n) \/ FactoryThrows(s, n) \/ DependencyFailed(s, n)

SvcSpec == SvcInit /\ [][SvcNext]_svcVars

\* Some activation that can go on does: promises that are settled are followed,
\* factories return.
SvcFairness == WF_svcVars(\E s \in Service, n \in Slot : Proceed(s, n))

-----------------------------------------------------------------------------
(* Properties                                                              *)

\* Nobody waits for nothing: a load that is waited for still runs, and so does
\* one behind each event that is waited for and each service that says it is
\* loading.  reload() resets services whose loads still run, and old loads end
\* beside new ones (ServiceContainer.ts:180); none of that may leave a get()
\* whose promise is never settled.
NoOrphans ==
    /\ \A s \in Service, n \in Slot : \A w \in acts[s][n].waits :
          IF w.load = Event THEN \E m \in Slot : Live(w.on, m) ELSE Live(w.on, w.load)
    /\ \A s \in Service : state[s] = "loading" => \E m \in Slot : Live(s, m)

\* After a reload that nothing disturbed, the service and all that depends on it,
\* through however many others, are ready and made from the values their
\* dependencies have now ("Reset this service and all dependents to ensure fresh
\* reload", ServiceContainer.ts:171).
DependsOn(s) == Started({s}, [x \in Service |-> "idle"])
ReloadIsFresh ==
    Quiet => \A s \in Service : reloaded \cap DependsOn(s) # {} =>
        state[s] = "ready" /\ \A d \in Deps[s] : madeFrom[s][d] = value[d]

\* Every load ends, whatever was reset, set or thrown meanwhile: once nobody asks
\* for more, the container comes to rest.
LoadsEnd == []<>Quiet

=============================================================================
