----------------------- MODULE ServiceContainer_proofs -----------------------
(***************************************************************************)
(* NoOrphans and ReloadIsFresh, for any services, any dependencies (cyclic *)
(* ones, too) and any bounds.                                              *)
(***************************************************************************)
EXTENDS ServiceContainer, TLAPS

\* The activations, and whether one of them, or one of a wait, runs in as.
Act == [at: {"none", "deps", "factory", "failing"}, waits: SUBSET Wait, got: [Service -> Nat]]
Acts == [Service -> [Slot -> Act]]
Runs(as, s, n) == as[s][n].at # "none"
Served(as, w) == IF w.load = Event THEN \E m \in Slot : Runs(as, w.on, m)
                 ELSE Runs(as, w.on, w.load)

-----------------------------------------------------------------------------
(* load(): what it starts, and where                                       *)

LEMMA StartedCovers ==
    ASSUME NEW roots, NEW st
    PROVE  /\ Started(roots, st) \subseteq Service
           /\ \A s \in Started(roots, st) : st[s] # "loading"
           /\ \A s \in roots \cap Service : st[s] # "loading" => s \in Started(roots, st)
           /\ \A s \in Started(roots, st) : \A d \in Deps[s] :
                 st[d] # "loading" => d \in Started(roots, st)
<1> DEFINE Idle == {s \in Service : st[s] # "loading"}
           Covers == {T \in SUBSET Idle : /\ roots \cap Idle \subseteq T
                                           /\ \A s \in T : Deps[s] \cap Idle \subseteq T}
<1>1. Started(roots, st) = {s \in Idle : \A T \in Covers : s \in T}
  BY DEF Started
<1>2. ASSUME NEW s \in Started(roots, st), NEW d \in Deps[s], st[d] # "loading"
      PROVE  d \in Started(roots, st)
  <2>1. s \in Service
    BY <1>1
  <2>2. d \in Idle
    BY <2>1, <1>2, DepsAssumption
  <2>3. ASSUME NEW T \in Covers PROVE d \in T
    BY <1>1, <1>2, <2>2, <2>3
  <2> QED BY <1>1, <2>2, <2>3
<1> QED BY <1>1, <1>2

LEMMA NewSlotIsFree ==
    ASSUME NEW s \in Service, FreeSlots(s) # {}
    PROVE  NewSlot(s) \in Slot /\ ~Live(s, NewSlot(s))
BY DEF NewSlot, FreeSlots

LEMMA WaitForTyping ==
    ASSUME NEW p, NEW d \in Service, NEW by,
           d \in DOMAIN by => FreeSlots(d) # {}
    PROVE  WaitFor(p, d, by) \in Wait
<1>1. Slot \subseteq 0..MaxActs /\ Event \in 0..MaxActs
  BY ActsAssumption DEF Slot, Event
<1>2. CASE d \in DOMAIN by /\ by[d] = p
  <2>1. NewSlot(d) \in 0..MaxActs
    BY <1>1, <1>2, NewSlotIsFree
  <2> QED BY <1>2, <2>1 DEF WaitFor, Wait
<1>3. CASE ~(d \in DOMAIN by /\ by[d] = p)
  BY <1>1, <1>3 DEF WaitFor, Wait
<1> QED BY <1>2, <1>3

\* as runs in the slots of acts, and each service of T has a free one.
RunsLikeActs(as) == \A s \in Service, n \in Slot : Runs(as, s, n) <=> Live(s, n)
HaveSlots(T) == \A t \in T : FreeSlots(t) # {}

\* cs has the activations of as and one more for each service of T.
Adds(cs, as, T, by) ==
    /\ \A s \in Service, n \in Slot : Runs(as, s, n) => cs[s][n] = as[s][n]
    /\ \A s \in Service, n \in Slot :
          \/ cs[s][n] = as[s][n]
          \/ /\ s \in T /\ n = NewSlot(s)
             /\ cs[s][n].at = "deps" /\ cs[s][n].waits = {WaitFor(s, d, by) : d \in Deps[s]}
    /\ \A t \in T : NewSlot(t) \in Slot /\ Runs(cs, t, NewSlot(t))

\* A cascade leaves the activations as they are and adds those it starts.
LEMMA CascadeAdds ==
    ASSUME NEW as \in Acts, NEW T \in SUBSET Service, NEW roots,
           NEW by \in Origins(T, roots), HaveSlots(T), RunsLikeActs(as)
    PROVE  Cascade(as, by) \in Acts /\ Adds(Cascade(as, by), as, T, by)
<1> USE DEF HaveSlots, RunsLikeActs
<1>1. DOMAIN by = T
  BY DEF Origins
<1> DEFINE new(s) == [at |-> "deps", waits |-> {WaitFor(s, d, by) : d \in Deps[s]}, got |-> NoValues]
<1>2. ASSUME NEW s \in Service PROVE new(s) \in Act
  <2>1. ASSUME NEW d \in Deps[s] PROVE WaitFor(s, d, by) \in Wait
    BY <1>1, WaitForTyping, DepsAssumption
  <2>2. NoValues \in [Service -> Nat]
    BY DEF NoValues
  <2>3. {WaitFor(s, d, by) : d \in Deps[s]} \in SUBSET Wait
    BY <2>1
  <2> QED BY <2>2, <2>3 DEF Act
<1>3. \A t \in T : NewSlot(t) \in Slot /\ ~Live(t, NewSlot(t))
  BY NewSlotIsFree
<1>4. \A s \in Service : as[s] \in [Slot -> Act]
  BY DEF Acts
<1>5. \A s \in Service : Cascade(as, by)[s] = IF s \in T THEN [as[s] EXCEPT ![NewSlot(s)] = new(s)] ELSE as[s]
  BY <1>1 DEF Cascade
<1>6. \A s \in Service, n \in Slot :
         Cascade(as, by)[s][n] = IF s \in T /\ n = NewSlot(s) THEN new(s) ELSE as[s][n]
  BY <1>3, <1>4, <1>5
<1>7. \A s \in Service : Cascade(as, by)[s] \in [Slot -> Act]
  BY <1>2, <1>3, <1>4, <1>5
<1>8. Cascade(as, by) \in Acts
  <2>1. Cascade(as, by) = [s \in Service |-> Cascade(as, by)[s]]
    BY DEF Cascade
  <2> QED BY <1>7, <2>1 DEF Acts
<1>9. \A s \in Service : /\ new(s).at = "deps"
                         /\ new(s).waits = {WaitFor(s, d, by) : d \in Deps[s]}
  OBVIOUS
<1> HIDE DEF new
<1>10. ASSUME NEW s \in Service, NEW n \in Slot, Runs(as, s, n)
      PROVE  Cascade(as, by)[s][n] = as[s][n]
  <2>1. ~(s \in T /\ n = NewSlot(s))
    BY <1>3, <1>10
  <2> QED BY <1>6, <2>1
<1>11. ASSUME NEW t \in T PROVE Runs(Cascade(as, by), t, NewSlot(t))
  BY <1>3, <1>6, <1>9 DEF Runs
<1>12. ASSUME NEW s \in Service, NEW n \in Slot, s \in T, n = NewSlot(s)
       PROVE  /\ Cascade(as, by)[s][n].at = "deps"
              /\ Cascade(as, by)[s][n].waits = {WaitFor(s, d, by) : d \in Deps[s]}
  BY <1>6, <1>12, <1>9
<1>13. \A s \in Service, n \in Slot :
          \/ Cascade(as, by)[s][n] = as[s][n]
          \/ /\ s \in T /\ n = NewSlot(s)
             /\ Cascade(as, by)[s][n].at = "deps"
             /\ Cascade(as, by)[s][n].waits = {WaitFor(s, d, by) : d \in Deps[s]}
  BY <1>6, <1>12
<1> QED BY <1>3, <1>8, <1>10, <1>11, <1>13 DEF Adds

LEMMA WaitForIsServed ==
    ASSUME NEW as, NEW p, NEW d \in Service, NEW by,
           d \in DOMAIN by => NewSlot(d) \in Slot /\ Runs(as, d, NewSlot(d)),
           d \in DOMAIN by \/ \E m \in Slot : Runs(as, d, m)
    PROVE  Served(as, WaitFor(p, d, by))
<1>1. CASE d \in DOMAIN by /\ by[d] = p
  <2>1. NewSlot(d) # Event
    BY <1>1 DEF Slot, Event
  <2> QED BY <1>1, <2>1 DEF WaitFor, Served
<1>2. CASE ~(d \in DOMAIN by /\ by[d] = p)
  BY <1>2 DEF WaitFor, Served
<1> QED BY <1>1, <1>2

-----------------------------------------------------------------------------
(* NoOrphans, of any activations and states                                *)

States == {"idle", "loading", "ready", "error"}
Sound(as, st) ==
    /\ \A s \in Service, n \in Slot : \A w \in as[s][n].waits : Served(as, w)
    /\ \A s \in Service : st[s] = "loading" => \E m \in Slot : Runs(as, s, m)

LEMMA NoOrphansIsSound == NoOrphans <=> Sound(acts, state)
BY DEF NoOrphans, Sound, Served, Runs, Live

\* A wait that is served stays served when all that ran goes on.
LEMMA ServedStays ==
    ASSUME NEW as, NEW bs, NEW w \in Wait, Served(as, w),
           \A m \in Slot : Runs(as, w.on, m) => Runs(bs, w.on, m)
    PROVE  Served(bs, w)
<1>1. CASE w.load = Event
  BY <1>1 DEF Served
<1>2. CASE w.load # Event
  <2>1. w.load \in Slot
    BY <1>2, ActsAssumption DEF Wait, Slot, Event
  <2> QED BY <1>2, <2>1 DEF Served
<1> QED BY <1>1, <1>2

\* A cascade leaves nobody without what it waits for.
LEMMA CascadeIsSound ==
    ASSUME NEW as \in Acts, NEW roots, NEW st,
           NEW by \in Origins(Started(roots, st), roots),
           HaveSlots(Started(roots, st)), RunsLikeActs(as),
           \A s \in Service, n \in Slot : \A w \in as[s][n].waits : Served(Cascade(as, by), w),
           \A s \in Service : st[s] = "loading" => \E m \in Slot : Runs(as, s, m)
    PROVE  Sound(Cascade(as, by),
                 [s \in Service |-> IF s \in Started(roots, st) THEN "loading" ELSE st[s]])
<1> DEFINE T == Started(roots, st)
           cs == Cascade(as, by)
<1>1. T \in SUBSET Service
  BY StartedCovers
<1>2. DOMAIN by = T
  BY DEF Origins
<1>3. Adds(cs, as, T, by)
  BY <1>1, CascadeAdds
<1> HIDE DEF T, cs
<1> USE DEF Adds
<1>4. \A s \in Service, n \in Slot : Runs(as, s, n) => Runs(cs, s, n)
  BY <1>3 DEF Runs
<1>5. ASSUME NEW s \in T, NEW d \in Deps[s] PROVE Served(cs, WaitFor(s, d, by))
  <2>1. d \in Service
    BY <1>1, DepsAssumption
  <2>2. d \in T \/ st[d] = "loading"
    BY StartedCovers DEF T
  <2>3. d \in T \/ \E m \in Slot : Runs(cs, d, m)
    BY <1>4, <2>1, <2>2
  <2> QED BY <1>2, <1>3, <2>1, <2>3, WaitForIsServed
<1>6. ASSUME NEW s \in Service, NEW n \in Slot, NEW w \in cs[s][n].waits PROVE Served(cs, w)
  <2>1. CASE cs[s][n] = as[s][n]
    BY <2>1 DEF cs
  <2>2. CASE s \in T /\ cs[s][n].waits = {WaitFor(s, d, by) : d \in Deps[s]}
    BY <1>5, <1>6, <2>2
  <2> QED BY <1>3, <2>1, <2>2
<1>7. ASSUME NEW s \in Service, s \in T \/ st[s] = "loading" PROVE \E m \in Slot : Runs(cs, s, m)
  BY <1>3, <1>4, <1>7
<1> QED BY <1>6, <1>7 DEF Sound, T, cs

\* bs is as when load n of s has ended, or s was set: who waited for it, or for
\* any event of s, does not any longer.
HeardOf(bs, as, s, n) ==
    \A x \in Service, m \in Slot :
       /\ Runs(as, x, m) => Runs(bs, x, m) \/ (x = s /\ m = n)
       /\ bs[x][m].waits \subseteq as[x][m].waits \ {[on |-> s, load |-> Event], [on |-> s, load |-> n]}

LEMMA EndIsSound ==
    ASSUME NEW as \in Acts, NEW st, NEW bs, NEW s \in Service, NEW n, NEW end \in States,
           Sound(as, st), st \in [Service -> States], end # "loading",
           HeardOf(bs, as, s, n)
    PROVE  Sound(bs, [st EXCEPT ![s] = end])
<1>1. ASSUME NEW x \in Service, NEW m \in Slot, NEW w \in bs[x][m].waits PROVE Served(bs, w)
  <2>1. w \in as[x][m].waits /\ w # [on |-> s, load |-> Event] /\ w # [on |-> s, load |-> n]
    BY <1>1 DEF HeardOf
  <2>2. w \in Wait
    <3>1. as[x][m] \in Act
      BY DEF Acts
    <3> QED BY <2>1, <3>1 DEF Act
  <2>3. Served(as, w)
    BY <2>1 DEF Sound
  <2>4. w = [on |-> w.on, load |-> w.load] /\ w.on \in Service
    BY <2>2 DEF Wait
  <2>5. CASE w.on # s
    <3>1. \A k \in Slot : Runs(as, w.on, k) => Runs(bs, w.on, k)
      BY <2>4, <2>5 DEF HeardOf
    <3> QED BY <2>2, <2>3, <3>1, ServedStays
  <2>6. CASE w.on = s
    <3>1. w.load # Event /\ w.load # n
      BY <2>1, <2>4, <2>6
    <3>2. w.load \in Slot
      BY <2>2, <3>1, ActsAssumption DEF Wait, Slot, Event
    <3> QED BY <2>3, <2>6, <3>1, <3>2 DEF Served, HeardOf
  <2> QED BY <2>5, <2>6
<1>2. ASSUME NEW x \in Service, [st EXCEPT ![s] = end][x] = "loading"
      PROVE  \E m \in Slot : Runs(bs, x, m)
  <2>1. x # s /\ st[x] = "loading"
    BY <1>2
  <2> QED BY <2>1 DEF Sound, HeardOf
<1> QED BY <1>1, <1>2 DEF Sound

-----------------------------------------------------------------------------
(* The types                                                               *)

SvcInv == SvcTypeOK /\ NoOrphans

LEMMA ActsTyping ==
    SvcTypeOK => /\ acts \in Acts /\ state \in [Service -> States]
                 /\ RunsLikeActs(acts)
BY DEF SvcTypeOK, Acts, Act, States, RunsLikeActs, Runs, Live

\* What an event does to the activations: none ends or begins.
LEMMA ReadyHears ==
    ASSUME NEW as \in Acts, NEW s \in Service, NEW n, NEW v \in Nat
    PROVE  /\ Ready(as, s, n, v) \in Acts
           /\ \A x \in Service, m \in Slot :
                 /\ Runs(as, x, m) => Runs(Ready(as, s, n, v), x, m)
                 /\ Ready(as, s, n, v)[x][m].waits \subseteq
                       as[x][m].waits \ {[on |-> s, load |-> Event], [on |-> s, load |-> n]}
<1> DEFINE Heard == {[on |-> s, load |-> Event], [on |-> s, load |-> n]}
           Hear(a) == IF a.waits \cap Heard = {} THEN a
                      ELSE [a EXCEPT !.waits = @ \ Heard,
                                     !.got = IF a.at = "factory"
                                             THEN [@ EXCEPT ![s] = v] ELSE @]
<1>1. ASSUME NEW a \in Act
      PROVE  Hear(a) \in Act /\ Hear(a).at = a.at /\ Hear(a).waits \subseteq a.waits \ Heard
  BY DEF Act
<1>2. Ready(as, s, n, v) = [x \in Service |-> [m \in Slot |-> Hear(as[x][m])]]
  BY DEF Ready
<1>3. \A x \in Service, m \in Slot : as[x][m] \in Act
  BY DEF Acts
<1> HIDE DEF Hear
<1>4. ASSUME NEW x \in Service, NEW m \in Slot
      PROVE  /\ Hear(as[x][m]) \in Act /\ Hear(as[x][m]).at = as[x][m].at
             /\ Hear(as[x][m]).waits \subseteq as[x][m].waits \ Heard
  BY <1>1, <1>3 DEF Runs
<1>5. \A x \in Service, m \in Slot : Ready(as, s, n, v)[x][m] = Hear(as[x][m])
  BY <1>2
<1>6. Ready(as, s, n, v) \in Acts
  <2>1. \A x \in Service : [m \in Slot |-> Hear(as[x][m])] \in [Slot -> Act]
    BY <1>4
  <2> QED BY <1>2, <2>1 DEF Acts
<1> QED BY <1>4, <1>5, <1>6, ZenonT(60) DEF Runs

LEMMA FailedHears ==
    ASSUME NEW as \in Acts, NEW s \in Service, NEW n
    PROVE  /\ Failed(as, s, n) \in Acts
           /\ \A x \in Service, m \in Slot :
                 /\ Runs(as, x, m) => Runs(Failed(as, s, n), x, m)
                 /\ Failed(as, s, n)[x][m].waits \subseteq
                       as[x][m].waits \ {[on |-> s, load |-> Event], [on |-> s, load |-> n]}
<1> DEFINE Heard == {[on |-> s, load |-> Event], [on |-> s, load |-> n]}
           Hear(a) == IF a.waits \cap Heard = {} THEN a
                      ELSE [a EXCEPT !.at = "failing", !.waits = {}]
<1>1. ASSUME NEW a \in Act
      PROVE  /\ Hear(a) \in Act /\ (a.at # "none" => Hear(a).at # "none")
             /\ Hear(a).waits \subseteq a.waits \ Heard
  BY DEF Act
<1>2. Failed(as, s, n) = [x \in Service |-> [m \in Slot |-> Hear(as[x][m])]]
  BY DEF Failed
<1>3. \A x \in Service, m \in Slot : as[x][m] \in Act
  BY DEF Acts
<1> HIDE DEF Hear
<1>4. ASSUME NEW x \in Service, NEW m \in Slot
      PROVE  /\ Hear(as[x][m]) \in Act /\ (Runs(as, x, m) => Hear(as[x][m]).at # "none")
             /\ Hear(as[x][m]).waits \subseteq as[x][m].waits \ Heard
  BY <1>1, <1>3 DEF Runs
<1>5. \A x \in Service, m \in Slot : Failed(as, s, n)[x][m] = Hear(as[x][m])
  BY <1>2
<1>6. Failed(as, s, n) \in Acts
  <2>1. \A x \in Service : [m \in Slot |-> Hear(as[x][m])] \in [Slot -> Act]
    BY <1>4
  <2> QED BY <1>2, <2>1 DEF Acts
<1> QED BY <1>4, <1>5, <1>6, ZenonT(60) DEF Runs

-----------------------------------------------------------------------------
(* The steps                                                               *)

LEMMA InitIsSound == SvcInit => SvcInv
<1> SUFFICES ASSUME SvcInit PROVE SvcInv
  OBVIOUS
<1>1. NoAct \in Act
  BY DEF NoAct, NoValues, Act
<1>2. acts \in Acts
  BY <1>1 DEF SvcInit, Acts
<1>3. SvcTypeOK
  BY <1>2, ActsAssumption DEF SvcInit, SvcTypeOK, NoValues, Acts, Act
<1>4. NoOrphans
  BY DEF SvcInit, NoOrphans, NoAct
<1> QED BY <1>3, <1>4 DEF SvcInv

LEMMA LoadAllStep ==
    ASSUME SvcInv, NEW roots \in SUBSET Service,
           NEW st \in [Service -> States], NEW val \in [Service -> Nat],
           \A s \in Service : st[s] = "loading" => state[s] = "loading",
           LoadAll(roots, st, val), reloaded' \in SUBSET Service, asks' \in Nat
    PROVE  SvcInv'
<1> DEFINE T == Started(roots, st)
<1>1. SvcTypeOK /\ acts \in Acts /\ RunsLikeActs(acts) /\ Sound(acts, state)
  BY ActsTyping, NoOrphansIsSound DEF SvcInv
<1>2. HaveSlots(T)
  BY DEF LoadAll, HaveSlots
<1>3. PICK by \in Origins(T, roots) : acts' = Cascade(acts, by)
  BY DEF LoadAll
<1>4. T \in SUBSET Service
  BY StartedCovers
<1>5. state' = [s \in Service |-> IF s \in T THEN "loading" ELSE st[s]]
  BY DEF LoadAll
<1>6. acts' \in Acts /\ Adds(acts', acts, T, by)
  BY <1>1, <1>2, <1>3, <1>4, CascadeAdds
<1>7. ASSUME NEW s \in Service, NEW n \in Slot, NEW w \in acts[s][n].waits
      PROVE  Served(Cascade(acts, by), w)
  <2>1. w \in Wait /\ w.on \in Service
    BY <1>1 DEF Acts, Act, Wait
  <2>2. Served(acts, w)
    BY <1>1 DEF Sound
  <2>3. \A m \in Slot : Runs(acts, w.on, m) => Runs(Cascade(acts, by), w.on, m)
    BY <1>3, <1>6, <2>1 DEF Adds, Runs
  <2> QED BY <2>1, <2>2, <2>3, ServedStays
<1>8. \A s \in Service : st[s] = "loading" => \E m \in Slot : Runs(acts, s, m)
  BY <1>1 DEF Sound
<1>9. Sound(acts', state')
  BY <1>1, <1>2, <1>3, <1>5, <1>7, <1>8, CascadeIsSound
<1>10. NoOrphans'
  BY <1>9 DEF NoOrphans, Sound, Served, Runs, Live
<1>11. state' \in [Service -> States]
  BY <1>5 DEF States
<1>12. SvcTypeOK'
  BY <1>1, <1>6, <1>11 DEF SvcTypeOK, LoadAll, Acts, Act, States
<1> QED BY <1>10, <1>12 DEF SvcInv

\* The activations when <<s, n>> is over.
LEMMA OverTyping ==
    ASSUME acts \in Acts, NEW s \in Service, NEW n \in Slot
    PROVE  /\ [acts EXCEPT ![s][n] = NoAct] \in Acts
           /\ \A x \in Service, m \in Slot :
                 /\ Runs(acts, x, m) => Runs([acts EXCEPT ![s][n] = NoAct], x, m) \/ (x = s /\ m = n)
                 /\ [acts EXCEPT ![s][n] = NoAct][x][m].waits \subseteq acts[x][m].waits
<1>1. NoAct \in Act /\ NoAct.waits = {}
  BY DEF NoAct, NoValues, Act
<1>2. acts[s] \in [Slot -> Act]
  BY DEF Acts
<1> DEFINE over == [acts EXCEPT ![s][n] = NoAct]
<1>3. over = [acts EXCEPT ![s] = [acts[s] EXCEPT ![n] = NoAct]]
  OBVIOUS
<1>4. over \in Acts
  BY <1>1, <1>2 DEF Acts
<1>5. \A x \in Service, m \in Slot : over[x][m] = IF x = s /\ m = n THEN NoAct ELSE acts[x][m]
  BY <1>2 DEF Acts
<1> HIDE DEF over
<1>6. \A x \in Service, m \in Slot :
         /\ Runs(acts, x, m) => Runs(over, x, m) \/ (x = s /\ m = n)
         /\ over[x][m].waits \subseteq acts[x][m].waits
  BY <1>1, <1>5 DEF Runs
<1> QED BY <1>4, <1>6 DEF over

LEMMA SetValueStep ==
    ASSUME SvcInv, NEW s \in Service, SetValue(s)
    PROVE  SvcInv'
<1>1. SvcTypeOK /\ acts \in Acts /\ state \in [Service -> States] /\ Sound(acts, state)
  BY ActsTyping, NoOrphansIsSound DEF SvcInv
<1>2. created[s] + 1 \in Nat
  BY <1>1 DEF SvcTypeOK
<1>3. acts' \in Acts /\ HeardOf(acts', acts, s, Event)
  BY <1>1, <1>2, ReadyHears DEF SetValue, HeardOf
<1>4. state' = [state EXCEPT ![s] = "ready"] /\ "ready" \in States
  BY DEF SetValue, States
<1>5. Sound(acts', [state EXCEPT ![s] = "ready"])
  BY <1>1, <1>3, <1>4, EndIsSound
<1>6. NoOrphans'
  BY <1>4, <1>5 DEF NoOrphans, Sound, Served, Runs, Live
<1>7. SvcTypeOK'
  BY <1>1, <1>2, <1>3 DEF SvcTypeOK, SetValue, NoValues, Acts, Act
<1> QED BY <1>6, <1>7 DEF SvcInv

LEMMA FactoryReturnsStep ==
    ASSUME SvcInv, NEW s \in Service, NEW n \in Slot, FactoryReturns(s, n)
    PROVE  SvcInv'
<1>1. SvcTypeOK /\ acts \in Acts /\ state \in [Service -> States] /\ Sound(acts, state)
  BY ActsTyping, NoOrphansIsSound DEF SvcInv
<1>2. created[s] + 1 \in Nat /\ acts[s][n].got \in [Service -> Nat]
  BY <1>1 DEF SvcTypeOK
<1> DEFINE over == [acts EXCEPT ![s][n] = NoAct]
<1>3. /\ over \in Acts
      /\ \A x \in Service, m \in Slot :
            /\ Runs(acts, x, m) => Runs(over, x, m) \/ (x = s /\ m = n)
            /\ over[x][m].waits \subseteq acts[x][m].waits
  BY <1>1, OverTyping
<1>4. acts' = Ready(over, s, n, created[s] + 1)
  BY DEF FactoryReturns
<1> HIDE DEF over
<1>5. /\ acts' \in Acts
      /\ \A x \in Service, m \in Slot :
            /\ Runs(over, x, m) => Runs(acts', x, m)
            /\ acts'[x][m].waits \subseteq
                  over[x][m].waits \ {[on |-> s, load |-> Event], [on |-> s, load |-> n]}
  BY <1>2, <1>3, <1>4, ReadyHears
<1>6. HeardOf(acts', acts, s, n)
  BY <1>3, <1>5 DEF HeardOf
<1>7. state' = [state EXCEPT ![s] = "ready"] /\ "ready" \in States
  BY DEF FactoryReturns, States
<1>8. Sound(acts', [state EXCEPT ![s] = "ready"])
  BY <1>1, <1>6, <1>7, EndIsSound
<1>9. NoOrphans'
  BY <1>7, <1>8 DEF NoOrphans, Sound, Served, Runs, Live
<1>10. SvcTypeOK'
  BY <1>1, <1>2, <1>5 DEF SvcTypeOK, FactoryReturns, Acts, Act
<1> QED BY <1>9, <1>10 DEF SvcInv

LEMMA GiveUpStep ==
    ASSUME SvcInv, NEW s \in Service, NEW n \in Slot, GiveUp(s, n), throws' \in Nat
    PROVE  SvcInv'
<1>1. SvcTypeOK /\ acts \in Acts /\ state \in [Service -> States] /\ Sound(acts, state)
  BY ActsTyping, NoOrphansIsSound DEF SvcInv
<1> DEFINE over == [acts EXCEPT ![s][n] = NoAct]
<1>2. /\ over \in Acts
      /\ \A x \in Service, m \in Slot :
            /\ Runs(acts, x, m) => Runs(over, x, m) \/ (x = s /\ m = n)
            /\ over[x][m].waits \subseteq acts[x][m].waits
  BY <1>1, OverTyping
<1>3. acts' = Failed(over, s, n)
  BY DEF GiveUp
<1> HIDE DEF over
<1>4. /\ acts' \in Acts
      /\ \A x \in Service, m \in Slot :
            /\ Runs(over, x, m) => Runs(acts', x, m)
            /\ acts'[x][m].waits \subseteq
                  over[x][m].waits \ {[on |-> s, load |-> Event], [on |-> s, load |-> n]}
  BY <1>2, <1>3, FailedHears
<1>5. HeardOf(acts', acts, s, n)
  BY <1>2, <1>4 DEF HeardOf
<1>6. state' = [state EXCEPT ![s] = "error"] /\ "error" \in States
  BY DEF GiveUp, States
<1>7. Sound(acts', [state EXCEPT ![s] = "error"])
  BY <1>1, <1>5, <1>6, EndIsSound
<1>8. NoOrphans'
  BY <1>6, <1>7 DEF NoOrphans, Sound, Served, Runs, Live
<1>9. SvcTypeOK'
  BY <1>1, <1>4 DEF SvcTypeOK, GiveUp, Acts, Act
<1> QED BY <1>8, <1>9 DEF SvcInv

LEMMA CallFactoryStep ==
    ASSUME SvcInv, NEW s \in Service, NEW n \in Slot, CallFactory(s, n)
    PROVE  SvcInv'
<1> DEFINE Missing == {d \in Deps[s] : state[d] \in {"idle", "error"}}
           T == Started(Missing, state)
           begun(by) ==
              [at |-> "factory",
               waits |-> {WaitFor(Caller, d, by) : d \in {e \in Deps[s] : state[e] # "ready"}},
               got |-> [d \in Service |-> IF d \in Deps[s] /\ state[d] = "ready" THEN value[d] ELSE 0]]
           as(by) == [acts EXCEPT ![s][n] = begun(by)]
<1>1. /\ SvcTypeOK /\ acts \in Acts /\ state \in [Service -> States]
      /\ RunsLikeActs(acts) /\ Sound(acts, state)
  BY ActsTyping, NoOrphansIsSound DEF SvcInv
<1>2. HaveSlots(T) /\ T \in SUBSET Service /\ Deps[s] \subseteq Service
  BY StartedCovers, DepsAssumption, ZenonT(60) DEF CallFactory, HaveSlots
<1>3. PICK by \in Origins(T, Missing) : acts' = Cascade(as(by), by)
  BY DEF CallFactory
<1>4. state' = [x \in Service |-> IF x \in T THEN "loading" ELSE state[x]]
  <2>1. PICK M \in {Missing} : \E U \in {Started(M, state)} :
           state' = [x \in Service |-> IF x \in U THEN "loading" ELSE state[x]]
    BY DEF CallFactory
  <2>2. PICK U \in {Started(M, state)} :
           state' = [x \in Service |-> IF x \in U THEN "loading" ELSE state[x]]
    BY <2>1
  <2>3. U = T
    BY <2>1, <2>2
  <2> QED BY <2>2, <2>3
<1>5. DOMAIN by = T
  BY DEF Origins
<1> HIDE DEF T
<1>6. begun(by) \in Act
  <2>1. \A d \in Deps[s] : WaitFor(Caller, d, by) \in Wait
    BY <1>2, <1>5, WaitForTyping DEF HaveSlots
  <2>2. [d \in Service |-> IF d \in Deps[s] /\ state[d] = "ready" THEN value[d] ELSE 0] \in [Service -> Nat]
    BY <1>1 DEF SvcTypeOK
  <2>3. {WaitFor(Caller, d, by) : d \in {e \in Deps[s] : state[e] # "ready"}} \in SUBSET Wait
    BY <2>1
  <2> QED BY <2>2, <2>3 DEF Act
<1>7. /\ begun(by).at = "factory"
      /\ begun(by).waits = {WaitFor(Caller, d, by) : d \in {e \in Deps[s] : state[e] # "ready"}}
  OBVIOUS
<1> HIDE DEF begun
<1>8. acts[s] \in [Slot -> Act]
  BY <1>1 DEF Acts
<1>9. as(by) = [acts EXCEPT ![s] = [acts[s] EXCEPT ![n] = begun(by)]]
  OBVIOUS
<1>10. as(by) \in Acts
  BY <1>1, <1>6, <1>8, <1>9 DEF Acts
<1>11. \A x \in Service, m \in Slot : as(by)[x][m] = IF x = s /\ m = n THEN begun(by) ELSE acts[x][m]
  BY <1>1, <1>8 DEF Acts
<1> HIDE DEF as
<1>12. Runs(acts, s, n)
  BY DEF CallFactory, Runs
<1>13. RunsLikeActs(as(by))
  BY <1>1, <1>7, <1>11, <1>12, ZenonT(60) DEF RunsLikeActs, Runs
<1>14. acts' \in Acts /\ Adds(acts', as(by), T, by)
  BY <1>2, <1>3, <1>10, <1>13, CascadeAdds
<1>15. \A x \in Service, m \in Slot : Runs(acts, x, m) => Runs(acts', x, m)
  <2>1. \A x \in Service, m \in Slot : Runs(acts, x, m) => Runs(as(by), x, m)
    BY <1>1, <1>13 DEF RunsLikeActs
  <2>2. \A x \in Service, m \in Slot : Runs(as(by), x, m) => acts'[x][m] = as(by)[x][m]
    BY <1>14 DEF Adds
  <2> QED BY <2>1, <2>2 DEF Runs
<1>16. \A x \in Service : state[x] = "loading" => \E m \in Slot : Runs(acts, x, m)
  BY <1>1 DEF Sound
<1>17. ASSUME NEW x \in Service, NEW m \in Slot, NEW w \in as(by)[x][m].waits
       PROVE  Served(acts', w)
  <2>1. CASE x = s /\ m = n
    <3>1. PICK d \in Deps[s] : w = WaitFor(Caller, d, by) /\ state[d] # "ready"
      <4>1. w \in begun(by).waits
        BY <1>11, <1>17, <2>1
      <4> QED BY <1>7, <4>1
    <3>2. d \in Service /\ state[d] \in States
      BY <1>1, <1>2
    <3>3. d \in T \/ state[d] = "loading"
      BY <3>1, <3>2, StartedCovers DEF T, States
    <3>4. d \in DOMAIN by \/ \E k \in Slot : Runs(acts', d, k)
      BY <1>5, <1>15, <1>16, <3>2, <3>3
    <3>5. d \in DOMAIN by => NewSlot(d) \in Slot /\ Runs(acts', d, NewSlot(d))
      BY <1>5, <1>14 DEF Adds
    <3> QED BY <3>1, <3>2, <3>4, <3>5, WaitForIsServed
  <2>2. CASE ~(x = s /\ m = n)
    <3>1. w \in acts[x][m].waits
      BY <1>11, <1>17, <2>2
    <3>2. w \in Wait /\ w.on \in Service
      BY <1>1, <3>1 DEF Acts, Act, Wait
    <3>3. Served(acts, w)
      BY <1>1, <3>1 DEF Sound
    <3> QED BY <1>15, <3>2, <3>3, ServedStays
  <2> QED BY <2>1, <2>2
<1>18. \A x \in Service : state[x] = "loading" => \E m \in Slot : Runs(as(by), x, m)
  BY <1>1, <1>13, <1>16 DEF RunsLikeActs
<1>19. Sound(acts', state')
  BY <1>2, <1>3, <1>4, <1>10, <1>13, <1>17, <1>18, CascadeIsSound DEF T
<1>20. NoOrphans'
  BY <1>19 DEF NoOrphans, Sound, Served, Runs, Live
<1>21. state' \in [Service -> States]
  BY <1>1, <1>4 DEF States
<1>22. SvcTypeOK'
  BY <1>1, <1>14, <1>21 DEF SvcTypeOK, CallFactory, Acts, Act, States
<1> QED BY <1>20, <1>22 DEF SvcInv

-----------------------------------------------------------------------------

LEMMA SvcInvStep == SvcInv /\ [SvcNext]_svcVars => SvcInv'
<1> SUFFICES ASSUME SvcInv, [SvcNext]_svcVars PROVE SvcInv'
  OBVIOUS
<1>1. state \in [Service -> States] /\ value \in [Service -> Nat] /\ asks \in Nat /\ throws \in Nat
  BY DEF SvcInv, SvcTypeOK, States
<1>2. CASE InitializeAll
  <2>1. LoadAll(Service, state, value) /\ reloaded' \in SUBSET Service /\ asks' \in Nat
    BY <1>1, <1>2 DEF InitializeAll
  <2> QED BY <1>1, <2>1, LoadAllStep
<1>3. ASSUME NEW s \in Service, Load(s) PROVE SvcInv'
  <2>1. LoadAll({s}, state, value) /\ reloaded' \in SUBSET Service /\ asks' \in Nat
    BY <1>1, <1>3 DEF Load
  <2> QED BY <1>1, <2>1, LoadAllStep
<1>4. ASSUME NEW s \in Service, Reload(s) PROVE SvcInv'
  <2> DEFINE Reset == {s} \cup Dependents(s)
             st == [x \in Service |-> IF x \in Reset THEN "idle" ELSE state[x]]
             val == [x \in Service |-> IF x \in Reset THEN 0 ELSE value[x]]
  <2>1. LoadAll(Reset, st, val) /\ reloaded' \in SUBSET Service /\ asks' \in Nat
    BY <1>1, <1>4 DEF Reload
  <2>2. Reset \in SUBSET Service
    BY DEF Dependents
  <2> HIDE DEF Reset
  <2>3. /\ st \in [Service -> States] /\ val \in [Service -> Nat]
        /\ \A x \in Service : st[x] = "loading" => state[x] = "loading"
    BY <1>1 DEF States
  <2> HIDE DEF st, val
  <2> QED BY <2>1, <2>2, <2>3, LoadAllStep
<1>5. ASSUME NEW s \in Service, SetValue(s) PROVE SvcInv'
  BY <1>5, SetValueStep
<1>6. ASSUME NEW s \in Service, NEW n \in Slot, CallFactory(s, n) PROVE SvcInv'
  BY <1>6, CallFactoryStep
<1>7. ASSUME NEW s \in Service, NEW n \in Slot, FactoryReturns(s, n) PROVE SvcInv'
  BY <1>7, FactoryReturnsStep
<1>8. ASSUME NEW s \in Service, NEW n \in Slot, FactoryThrows(s, n) PROVE SvcInv'
  <2>1. GiveUp(s, n) /\ throws' \in Nat
    BY <1>1, <1>8 DEF FactoryThrows
  <2> QED BY <2>1, GiveUpStep
<1>9. ASSUME NEW s \in Service, NEW n \in Slot, DependencyFailed(s, n) PROVE SvcInv'
  <2>1. GiveUp(s, n) /\ throws' \in Nat
    BY <1>1, <1>9 DEF DependencyFailed
  <2> QED BY <2>1, GiveUpStep
<1>10. CASE UNCHANGED svcVars
  BY <1>10 DEF SvcInv, svcVars, SvcTypeOK, NoOrphans, Live
<1> QED BY <1>2, <1>3, <1>4, <1>5, <1>6, <1>7, <1>8, <1>9, <1>10 DEF SvcNext

\* The states of services and activations are of their types.
THEOREM SvcTyping == SvcSpec => []SvcTypeOK
<1>1. SvcInv => SvcTypeOK
  BY DEF SvcInv
<1> QED BY <1>1, InitIsSound, SvcInvStep, PTL DEF SvcSpec

\* Every get() that waits is answered some day, as far as it is up to the
\* container: what it waits for still runs.  NoOrphans is inductive together with
\* the types: a service that is "loading" runs, so that a cascade may stop at it.
THEOREM NobodyIsForgotten == SvcSpec => []NoOrphans
<1>1. SvcInv => NoOrphans
  BY DEF SvcInv
<1> QED BY <1>1, InitIsSound, SvcInvStep, PTL DEF SvcSpec

-----------------------------------------------------------------------------
(* A reload that nothing disturbs                                          *)

\* A service has one load at a time, and says so.
OneLoad ==
    /\ \A s \in Service, m, n \in Slot : Live(s, m) /\ Live(s, n) => m = n
    /\ \A s \in Service, n \in Slot : Live(s, n) => state[s] = "loading"

\* A load waits for each of its dependencies that is not ready.
DepsAwaited ==
    \A s \in Service, n \in Slot : acts[s][n].at = "deps" =>
        \A d \in Deps[s] :
            \/ state[d] = "ready"
            \/ state[d] = "loading" /\ \E w \in acts[s][n].waits : w.on = d

\* A factory that runs has got the values its dependencies have now.
DepsGot ==
    \A s \in Service, n \in Slot : acts[s][n].at = "factory" =>
        /\ acts[s][n].waits = {}
        /\ \A d \in Deps[s] : state[d] = "ready" /\ acts[s][n].got[d] = value[d]

\* What depends on the reloaded service loads, or is made from what is there.
MadeFresh ==
    \A s \in Service : reloaded \cap DependsOn(s) # {} =>
        \/ state[s] = "loading"
        \/ state[s] = "ready" /\ \A d \in Deps[s] : state[d] = "ready" /\ madeFrom[s][d] = value[d]

NoneFails == \A s \in Service, n \in Slot : acts[s][n].at # "failing"

FreshInv == reloaded # {} => OneLoad /\ DepsAwaited /\ DepsGot /\ MadeFresh /\ NoneFails

\* What depends on s through others is reset by reload(s).
LEMMA DependentsAreAll ==
    ASSUME NEW s \in Service, NEW x \in Service, s \in DependsOn(x)
    PROVE  x \in {s} \cup Dependents(s)
<1> DEFINE R == {s} \cup Dependents(s)
           C == Service \ R
           st == [y \in Service |-> "idle"]
           Idle == {y \in Service : st[y] # "loading"}
           Covers == {T \in SUBSET Idle : /\ {x} \cap Idle \subseteq T
                                           /\ \A y \in T : Deps[y] \cap Idle \subseteq T}
<1> SUFFICES ASSUME x \notin R PROVE FALSE
  OBVIOUS
<1>1. Idle = Service
  OBVIOUS
<1>2. ASSUME NEW y \in Service, Deps[y] \cap R # {} PROVE y \in R
  <2> DEFINE Closed == {T \in SUBSET Service :
                          \A z \in Service : Deps[z] \cap (T \cup {s}) # {} => z \in T}
  <2>1. Dependents(s) = {z \in Service : \A T \in Closed : z \in T}
    BY DEF Dependents
  <2>2. ASSUME NEW T \in Closed PROVE y \in T
    <3>1. Dependents(s) \subseteq T
      BY <2>1
    <3> QED BY <1>2, <3>1
  <2> QED BY <2>1, <2>2
<1>3. C \in Covers
  BY <1>1, <1>2
<1>4. s \in C
  BY <1>3 DEF DependsOn, Started
<1> QED BY <1>4

\* Nothing is started for nobody.
LEMMA NothingStarts ==
    ASSUME NEW st PROVE Started({}, st) = {}
<1> DEFINE Idle == {s \in Service : st[s] # "loading"}
           Covers == {T \in SUBSET Idle : /\ {} \cap Idle \subseteq T
                                           /\ \A s \in T : Deps[s] \cap Idle \subseteq T}
<1>1. {} \in Covers
  OBVIOUS
<1> QED BY <1>1 DEF Started

LEMMA ReloadIsFreshAtRest == SvcInv /\ FreshInv => ReloadIsFresh
<1> SUFFICES ASSUME SvcInv, FreshInv, Quiet, NEW s \in Service, reloaded \cap DependsOn(s) # {}
             PROVE  state[s] = "ready" /\ \A d \in Deps[s] : madeFrom[s][d] = value[d]
  BY DEF ReloadIsFresh
<1>1. state[s] # "loading"
  BY DEF SvcInv, NoOrphans, Quiet
<1> QED BY <1>1 DEF FreshInv, MadeFresh

LEMMA ReloadKeepsFresh ==
    ASSUME SvcInv, NEW s \in Service, Reload(s)
    PROVE  FreshInv'
<1> SUFFICES ASSUME Quiet, reloaded' = {s} PROVE FreshInv'
  BY DEF Reload, FreshInv
<1> DEFINE Reset == {s} \cup Dependents(s)
           st == [x \in Service |-> IF x \in Reset THEN "idle" ELSE state[x]]
           val == [x \in Service |-> IF x \in Reset THEN 0 ELSE value[x]]
           T == Started(Reset, st)
<1>1. LoadAll(Reset, st, val)
  BY DEF Reload
<1>2. Reset \in SUBSET Service
  BY DEF Dependents
<1>3. \A x \in Service : state[x] # "loading"
  BY DEF SvcInv, NoOrphans, Quiet
<1>4. \A x \in Service : st[x] # "loading"
  BY <1>3
<1>5. /\ T \in SUBSET Service /\ Reset \subseteq T
      /\ \A x \in T : \A d \in Deps[x] : d \in T
  BY <1>2, <1>4, StartedCovers, DepsAssumption
<1>6. HaveSlots(T) /\ state' = [x \in Service |-> IF x \in T THEN "loading" ELSE st[x]]
  BY <1>1 DEF LoadAll, HaveSlots
<1>7. PICK by \in Origins(T, Reset) : acts' = Cascade(acts, by)
  BY <1>1 DEF LoadAll
<1>8. \A x \in Service : s \in DependsOn(x) => x \in Reset
  BY DependentsAreAll
<1> HIDE DEF T, st, val, Reset
<1>9. acts \in Acts /\ RunsLikeActs(acts)
  BY ActsTyping DEF SvcInv
<1>10. Adds(acts', acts, T, by)
  BY <1>5, <1>6, <1>7, <1>9, CascadeAdds
<1>11. ASSUME NEW x \in Service, NEW n \in Slot, acts'[x][n].at # "none"
       PROVE  /\ x \in T /\ n = NewSlot(x) /\ acts'[x][n].at = "deps"
              /\ acts'[x][n].waits = {WaitFor(x, d, by) : d \in Deps[x]}
  BY <1>10, <1>11 DEF Adds, Quiet, Live
<1>12. \A x \in T : state'[x] = "loading"
  BY <1>5, <1>6
<1>13. OneLoad'
  BY <1>11, <1>12 DEF OneLoad, Live
<1>14. DepsAwaited'
  <2> SUFFICES ASSUME NEW x \in Service, NEW n \in Slot, acts'[x][n].at = "deps", NEW d \in Deps[x]
               PROVE  state'[d] = "loading" /\ \E w \in acts'[x][n].waits : w.on = d
    BY DEF DepsAwaited
  <2>1. WaitFor(x, d, by) \in acts'[x][n].waits /\ WaitFor(x, d, by).on = d
    BY <1>11 DEF WaitFor
  <2>2. state'[d] = "loading"
    BY <1>5, <1>11, <1>12
  <2> QED BY <2>1, <2>2
<1>15. DepsGot' /\ NoneFails'
  BY <1>11 DEF DepsGot, NoneFails
<1>16. MadeFresh'
  BY <1>5, <1>8, <1>12 DEF MadeFresh, DependsOn
<1> QED BY <1>13, <1>14, <1>15, <1>16 DEF FreshInv

LEMMA CallFactoryKeepsFresh ==
    ASSUME SvcInv, FreshInv, NEW s \in Service, NEW n \in Slot, CallFactory(s, n)
    PROVE  FreshInv'
<1> SUFFICES ASSUME reloaded # {} PROVE FreshInv'
  BY DEF CallFactory, FreshInv
<1> USE DEF FreshInv
<1>1. acts[s][n].at = "deps" /\ acts[s][n].waits = {}
  BY DEF CallFactory
<1>2. \A d \in Deps[s] : state[d] = "ready"
  BY <1>1 DEF DepsAwaited
<1> DEFINE Missing == {d \in Deps[s] : state[d] \in {"idle", "error"}}
           got == [d \in Service |-> IF d \in Deps[s] /\ state[d] = "ready" THEN value[d] ELSE 0]
           begun(by) ==
              [at |-> "factory",
               waits |-> {WaitFor(Caller, d, by) : d \in {e \in Deps[s] : state[e] # "ready"}},
               got |-> got]
<1>3. Missing = {}
  BY <1>2
<1>4. PICK by \in Origins(Started({}, state), {}) :
         acts' = Cascade([acts EXCEPT ![s][n] = begun(by)], by)
  BY <1>3 DEF CallFactory
<1>5. DOMAIN by = {}
  BY <1>4, NothingStarts DEF Origins
<1>6. begun(by) = [at |-> "factory", waits |-> {}, got |-> got]
  <2>1. {e \in Deps[s] : state[e] # "ready"} = {}
    BY <1>2
  <2> QED BY <2>1
<1>7. \A d \in Deps[s] : got[d] = value[d]
  BY <1>2, DepsAssumption
<1> HIDE DEF got
<1> DEFINE as == [acts EXCEPT ![s][n] = begun(by)]
<1>8. acts \in Acts /\ acts[s] \in [Slot -> Act]
  BY ActsTyping DEF SvcInv, Acts
<1>9. \A x \in Service, m \in Slot :
         as[x][m] = IF x = s /\ m = n THEN [at |-> "factory", waits |-> {}, got |-> got] ELSE acts[x][m]
  BY <1>6, <1>8 DEF Acts
<1> HIDE DEF as, begun
<1>10. \A x \in Service, m \in Slot :
         acts'[x][m] = IF x = s /\ m = n THEN [at |-> "factory", waits |-> {}, got |-> got] ELSE acts[x][m]
  BY <1>4, <1>5, <1>9 DEF Cascade, as, begun
<1>11. state' = state
  <2>1. PICK M \in {Missing} : \E U \in {Started(M, state)} :
           state' = [x \in Service |-> IF x \in U THEN "loading" ELSE state[x]]
    BY DEF CallFactory
  <2>2. PICK U \in {Started(M, state)} :
           state' = [x \in Service |-> IF x \in U THEN "loading" ELSE state[x]]
    BY <2>1
  <2>3. U = {} /\ state \in [Service -> States]
    BY <1>3, <2>1, <2>2, NothingStarts, ActsTyping DEF SvcInv
  <2> QED BY <2>2, <2>3
<1>12. UNCHANGED <<value, madeFrom, reloaded>>
  BY DEF CallFactory
<1>13. \A x \in Service, m \in Slot : (acts'[x][m].at # "none" <=> acts[x][m].at # "none")
  BY <1>1, <1>10
<1>14. OneLoad'
  BY <1>11, <1>13 DEF OneLoad, Live
<1>15. \A x \in Service, m \in Slot :
          /\ acts'[x][m].at = "deps" => acts'[x][m] = acts[x][m]
          /\ acts'[x][m].at # "failing"
  BY <1>10 DEF NoneFails
<1>16. DepsAwaited' /\ NoneFails'
  BY <1>11, <1>15 DEF DepsAwaited, NoneFails
<1>17. DepsGot'
  <2> SUFFICES ASSUME NEW x \in Service, NEW m \in Slot, acts'[x][m].at = "factory"
               PROVE  /\ acts'[x][m].waits = {}
                      /\ \A d \in Deps[x] : state[d] = "ready" /\ acts'[x][m].got[d] = value[d]
    BY <1>11, <1>12 DEF DepsGot
  <2>1. CASE x = s /\ m = n
    BY <1>2, <1>7, <1>10, <2>1
  <2>2. CASE ~(x = s /\ m = n)
    BY <1>10, <2>2 DEF DepsGot
  <2> QED BY <2>1, <2>2
<1>18. MadeFresh'
  BY <1>11, <1>12 DEF MadeFresh, DependsOn
<1> QED BY <1>14, <1>16, <1>17, <1>18

\* What Ready changes in an activation that waits for nothing, or for others.
LEMMA ReadyLeaves ==
    ASSUME NEW as \in Acts, NEW s \in Service, NEW n, NEW v \in Nat,
           NEW x \in Service, NEW m \in Slot
    PROVE  /\ Ready(as, s, n, v)[x][m].at = as[x][m].at
           /\ as[x][m].waits = {} => Ready(as, s, n, v)[x][m] = as[x][m]
           /\ \A w \in as[x][m].waits : w.on # s => w \in Ready(as, s, n, v)[x][m].waits
<1> DEFINE Heard == {[on |-> s, load |-> Event], [on |-> s, load |-> n]}
           Hear(a) == IF a.waits \cap Heard = {} THEN a
                      ELSE [a EXCEPT !.waits = @ \ Heard,
                                     !.got = IF a.at = "factory"
                                             THEN [@ EXCEPT ![s] = v] ELSE @]
<1>1. as[x][m] \in Act
  BY DEF Acts
<1>2. Ready(as, s, n, v)[x][m] = Hear(as[x][m])
  BY DEF Ready
<1>3. ASSUME NEW a \in Act
      PROVE  /\ Hear(a).at = a.at /\ (a.waits = {} => Hear(a) = a)
             /\ \A w \in a.waits : w \notin Heard => w \in Hear(a).waits
  BY DEF Act
<1>4. \A w : w.on # s => w \notin Heard
  OBVIOUS
<1> HIDE DEF Hear, Heard
<1> QED BY <1>1, <1>2, <1>3, <1>4

LEMMA FactoryReturnsKeepsFresh ==
    ASSUME SvcInv, FreshInv, NEW s \in Service, NEW n \in Slot, FactoryReturns(s, n)
    PROVE  FreshInv'
<1> SUFFICES ASSUME reloaded # {} PROVE FreshInv'
  BY DEF FactoryReturns, FreshInv
<1> USE DEF FreshInv
<1>1. acts \in Acts /\ state \in [Service -> States] /\ value \in [Service -> Nat]
      /\ madeFrom \in [Service -> [Service -> Nat]] /\ created[s] + 1 \in Nat
  BY ActsTyping DEF SvcInv, SvcTypeOK
<1> DEFINE over == [acts EXCEPT ![s][n] = NoAct]
           v == created[s] + 1
<1>2. acts' = Ready(over, s, n, v) /\ UNCHANGED reloaded
  BY DEF FactoryReturns
<1>3. over \in Acts
  BY <1>1, OverTyping
<1>4. \A x \in Service, m \in Slot : over[x][m] = IF x = s /\ m = n THEN NoAct ELSE acts[x][m]
  <2>1. acts[s] \in [Slot -> Act]
    BY <1>1 DEF Acts
  <2> QED BY <1>1, <2>1 DEF Acts
<1>5. /\ \A x \in Service : state'[x] = IF x = s THEN "ready" ELSE state[x]
      /\ \A x \in Service : value'[x] = IF x = s THEN v ELSE value[x]
      /\ \A x \in Service : madeFrom'[x] = IF x = s THEN acts[s][n].got ELSE madeFrom[x]
  BY <1>1 DEF FactoryReturns
<1> HIDE DEF over, v
<1>6. v \in Nat
  BY <1>1 DEF v
<1>7. acts[s][n].at = "factory" /\ acts[s][n].waits = {} /\ Live(s, n) /\ state[s] = "loading"
  BY DEF FactoryReturns, OneLoad, Live
<1>8. \A m \in Slot : Live(s, m) => m = n
  BY <1>7 DEF OneLoad
<1>9. ASSUME NEW x \in Service, NEW m \in Slot, acts'[x][m].at # "none"
      PROVE  /\ x # s /\ acts'[x][m].at = acts[x][m].at
             /\ acts[x][m].waits = {} => acts'[x][m] = acts[x][m]
             /\ \A w \in acts[x][m].waits : w.on # s => w \in acts'[x][m].waits
  <2>1. /\ acts'[x][m].at = over[x][m].at
        /\ over[x][m].waits = {} => acts'[x][m] = over[x][m]
        /\ \A w \in over[x][m].waits : w.on # s => w \in acts'[x][m].waits
    BY <1>2, <1>3, <1>6, ReadyLeaves
  <2>2. ~(x = s /\ m = n)
    BY <1>4, <1>9, <2>1 DEF NoAct
  <2>3. over[x][m] = acts[x][m]
    BY <1>4, <2>2
  <2>4. x # s
    BY <1>8, <1>9, <2>1, <2>2, <2>3 DEF Live
  <2> QED BY <2>1, <2>3, <2>4
<1>10. OneLoad'
  <2>1. \A x \in Service, m \in Slot : acts'[x][m].at # "none" => x # s /\ Live(x, m)
    BY <1>9 DEF Live
  <2> QED BY <1>5, <2>1 DEF OneLoad, Live
<1>11. DepsAwaited'
  <2> SUFFICES ASSUME NEW x \in Service, NEW m \in Slot, acts'[x][m].at = "deps", NEW d \in Deps[x]
               PROVE  \/ state'[d] = "ready"
                      \/ state'[d] = "loading" /\ \E w \in acts'[x][m].waits : w.on = d
    BY DEF DepsAwaited
  <2>1. d \in Service /\ acts[x][m].at = "deps"
    BY <1>9, DepsAssumption
  <2>2. CASE d = s
    BY <1>5, <2>1, <2>2
  <2>3. CASE d # s
    BY <1>5, <1>9, <2>1, <2>3 DEF DepsAwaited
  <2> QED BY <2>2, <2>3
<1>12. DepsGot'
  <2> SUFFICES ASSUME NEW x \in Service, NEW m \in Slot, acts'[x][m].at = "factory"
               PROVE  /\ acts'[x][m].waits = {}
                      /\ \A d \in Deps[x] : state'[d] = "ready" /\ acts'[x][m].got[d] = value'[d]
    BY DEF DepsGot
  <2>1. acts[x][m].at = "factory"
    BY <1>9
  <2>2. acts[x][m].waits = {} /\ acts'[x][m] = acts[x][m]
    BY <1>9, <2>1 DEF DepsGot
  <2>3. ASSUME NEW d \in Deps[x]
        PROVE  state'[d] = "ready" /\ acts[x][m].got[d] = value'[d]
    <3>1. d \in Service /\ state[d] = "ready" /\ acts[x][m].got[d] = value[d]
      BY <2>1, DepsAssumption DEF DepsGot
    <3> QED BY <1>5, <1>7, <3>1
  <2> QED BY <2>2, <2>3
<1>13. NoneFails'
  BY <1>9 DEF NoneFails
<1>14. MadeFresh'
  <2> SUFFICES ASSUME NEW x \in Service, reloaded \cap DependsOn(x) # {}, state'[x] # "loading"
               PROVE  /\ state'[x] = "ready"
                      /\ \A d \in Deps[x] : state'[d] = "ready" /\ madeFrom'[x][d] = value'[d]
    BY <1>2 DEF MadeFresh, DependsOn
  <2>1. CASE x = s
    <3>1. ASSUME NEW d \in Deps[s]
          PROVE  state'[d] = "ready" /\ acts[s][n].got[d] = value'[d]
      <4>1. d \in Service /\ state[d] = "ready" /\ acts[s][n].got[d] = value[d]
        BY <1>7, DepsAssumption DEF DepsGot
      <4> QED BY <1>5, <1>7, <4>1
    <3> QED BY <1>5, <2>1, <3>1
  <2>2. CASE x # s
    <3>1. /\ state[x] = "ready"
          /\ \A d \in Deps[x] : state[d] = "ready" /\ madeFrom[x][d] = value[d]
      BY <1>5, <2>2 DEF MadeFresh
    <3>2. \A d \in Deps[x] : d \in Service /\ d # s
      BY <1>7, <3>1, DepsAssumption
    <3> QED BY <1>5, <2>2, <3>1, <3>2
  <2> QED BY <2>1, <2>2
<1> QED BY <1>10, <1>11, <1>12, <1>13, <1>14

LEMMA FreshStep == SvcInv /\ FreshInv /\ [SvcNext]_svcVars => FreshInv'
<1> SUFFICES ASSUME SvcInv, FreshInv, [SvcNext]_svcVars PROVE FreshInv'
  OBVIOUS
\* Whatever else comes from outside, or fails, ends what was said of the reload.
<1>1. ASSUME reloaded' = {} PROVE FreshInv'
  BY <1>1 DEF FreshInv
<1>2. CASE InitializeAll
  BY <1>1, <1>2 DEF InitializeAll
<1>3. ASSUME NEW s \in Service, Load(s) \/ SetValue(s) PROVE FreshInv'
  BY <1>1, <1>3 DEF Load, SetValue
<1>4. ASSUME NEW s \in Service, Reload(s) PROVE FreshInv'
  BY <1>4, ReloadKeepsFresh
<1>5. ASSUME NEW s \in Service, NEW n \in Slot, CallFactory(s, n) PROVE FreshInv'
  BY <1>5, CallFactoryKeepsFresh
<1>6. ASSUME NEW s \in Service, NEW n \in Slot, FactoryReturns(s, n) PROVE FreshInv'
  BY <1>6, FactoryReturnsKeepsFresh
<1>7. ASSUME NEW s \in Service, NEW n \in Slot, FactoryThrows(s, n) \/ DependencyFailed(s, n)
      PROVE  FreshInv'
  BY <1>1, <1>7 DEF FactoryThrows, DependencyFailed, GiveUp
<1>8. CASE UNCHANGED svcVars
  BY <1>8 DEF svcVars, FreshInv, OneLoad, DepsAwaited, DepsGot, MadeFresh, NoneFails, Live, DependsOn
<1> QED BY <1>2, <1>3, <1>4, <1>5, <1>6, <1>7, <1>8 DEF SvcNext

\* After a reload that nothing disturbed, the service and all that depends on it,
\* through however many others, are ready and made from the values their
\* dependencies have now.  The argument: what was reset loads once each, and waits
\* for whatever it depends on, so that a factory finds all its dependencies ready
\* and none of them changes while it runs.
THEOREM ReloadsAreFresh == SvcSpec => []ReloadIsFresh
<1>1. SvcInit => FreshInv
  BY DEF SvcInit, FreshInv
<1>2. SvcInv /\ FreshInv => ReloadIsFresh
  BY ReloadIsFreshAtRest
<1> QED BY <1>1, <1>2, InitIsSound, SvcInvStep, FreshStep, PTL DEF SvcSpec

=============================================================================
