------------------------- MODULE RefreshIndex_proofs -------------------------
(***************************************************************************)
(* The cache and the catalog agree, no branch disturbs another, what the   *)
(* index records is there, and a full run leaves exactly what is on disk:  *)
(* for any files, branches, contents, batches, edits, aborts, errors and   *)
(* crashes, but for the contents a failure fell on.                        *)
(***************************************************************************)
EXTENDS RefreshIndex, FiniteSetTheorems, FunctionTheorems, NumberLemmas

Fits(i) == i.key \in ContentsOf[i.path] \cup {Absent}
Fitting == {i \in Item : Fits(i)}
Runs == [tag : Branches \cup {NoTag}, files : SUBSET Paths,
         stats : UNION {[ps -> 0..MaxEdits] : ps \in SUBSET Paths}, time : 0..MaxEdits]
Markings == [op : Ops, items : SUBSET Fitting]
Plans == [Ops -> SUBSET Fitting]
Quiet == pc \in {"idle", "stat", "plan"}

\* Disks and rows of which each has a content its path may have.
Disks == {d \in [Paths -> [key : Contents \cup {Absent}, mtime : 0..MaxEdits]] :
             \A p \in Paths : Fits([path |-> p, key |-> d[p].key])}
Rows == {r \in SUBSET Row : IsFiniteSet(r) /\ \A row \in r : Fits(row)}
Places == {"idle", "stat", "plan", "batch", "update", "untag", "catalog", "cache", "touch"}

TypeInv ==
    /\ disk \in Disks /\ branch \in Branches /\ clock \in 0..MaxEdits
    /\ catalog \in Rows
    /\ cache \in SUBSET [key : Contents \cup {Absent}, tag : Branches]
    /\ chunks \in SUBSET Chunk
    /\ chunkTags \in SUBSET [tag : Branches, chunk : Chunk]
    /\ pc \in Places /\ run \in Runs /\ (pc # "idle" => run.tag \in Branches)
    /\ todo \in Plans /\ batch \in Plans /\ touched \in SUBSET Fitting
    /\ marking \in Markings /\ unmarked \in SUBSET marking.items
    /\ stops \in 0..MaxStops
    /\ adrift \in SUBSET (Contents \cup {Absent}) /\ Absent \in adrift
    /\ fresh \in {"no", "so far", "yes"}
    /\ found \in SUBSET Chunk /\ found \cap chunks = {} /\ (pc # "untag" => found = {})
    /\ pc = "untag" => marking.op = "del" /\ unmarked = marking.items
    /\ Quiet => todo = NoPlan /\ batch = NoPlan /\ marking = NoMarking /\ touched = {}
    /\ ~Marking => unmarked = {}

-----------------------------------------------------------------------------
(* Types                                                                   *)

LEMMA TypeInvIsTypeOK ==
    TypeInv => TypeOK
<1>1. Fitting \subseteq Item
  BY DEF Fitting
<1>2. run \in Runs => run.tag \in Branches \cup {NoTag} /\ run.files \subseteq Paths
  BY DEF Runs
<1>3. marking \in Markings => marking.op \in Ops /\ marking.items \subseteq Item
  BY <1>1 DEF Markings
<1>4. Plans \subseteq [Ops -> SUBSET Item]
  BY <1>1 DEF Plans
<1> QED BY <1>1, <1>2, <1>3, <1>4 DEF TypeInv, TypeOK, Disks, Rows, Places

LEMMA PlanFacts ==
    /\ NoPlan \in Plans
    /\ \A op \in Ops : NoPlan[op] = {}
    /\ NoMarking \in Markings
    /\ NoRun \in Runs
    /\ "compute" \in Ops /\ "addTag" \in Ops /\ "removeTag" \in Ops /\ "del" \in Ops
    /\ \A op \in Ops : op = "compute" \/ op = "addTag" \/ op = "removeTag" \/ op = "del"
<1>1. << >> \in [{} -> 0..MaxEdits]
  OBVIOUS
<1>2. << >> \in UNION {[ps -> 0..MaxEdits] : ps \in SUBSET Paths}
  <2>1. {} \in SUBSET Paths
    OBVIOUS
  <2>2. [{} -> 0..MaxEdits] \in {[ps -> 0..MaxEdits] : ps \in SUBSET Paths}
    BY <2>1
  <2> QED BY <1>1, <2>2
<1>3. 0 \in 0..MaxEdits
  BY ContentAssumption
<1>4. NoRun \in Runs
  BY <1>2, <1>3 DEF NoRun, Runs
<1>5. NoMarking \in Markings
  BY DEF NoMarking, Markings, Ops
<1>6. NoPlan \in Plans /\ \A op \in Ops : NoPlan[op] = {}
  BY DEF NoPlan, Plans, Ops
<1> QED BY <1>4, <1>5, <1>6 DEF Ops

\* The latest of the versions of a path.
LEMMA LatestVersion ==
    ASSUME NEW tag, NEW p, catalog \in Rows, Versions(tag, p) # {}
    PROVE  Latest(tag, p) \in Versions(tag, p)
<1> DEFINE V == Versions(tag, p)
           T == {n \in 0..MaxEdits : \E row \in V : row.time + n = MaxEdits}
<1>1. \A row \in V : row.time \in 0..MaxEdits
  BY DEF Versions, Rows, Row
<1>2. T # {}
  <2>1. PICK row \in V : TRUE
    OBVIOUS
  <2>2. MaxEdits - row.time \in 0..MaxEdits /\ row.time + (MaxEdits - row.time) = MaxEdits
    BY <1>1, ContentAssumption
  <2> QED BY <2>2
<1>3. PICK n \in T : \A k \in T : n <= k
  <2>1. T \in SUBSET Nat
    BY ContentAssumption
  <2> QED BY <1>2, <2>1, LeastOf
<1>4. PICK last \in V : last.time + n = MaxEdits
  BY <1>3
<1>5. ASSUME NEW other \in V PROVE other.time <= last.time
  <2>1. MaxEdits - other.time \in T
    BY <1>1, ContentAssumption
  <2> QED BY <1>1, <1>3, <1>4, <2>1, ContentAssumption
<1>6. \E row \in V : \A other \in V : other.time <= row.time
  BY <1>4, <1>5
<1> QED BY <1>6 DEF Latest

\* What the plan takes from the disk and from the catalog.
LEMMA PlanItems ==
    ASSUME NEW tag, NEW stats, DOMAIN stats \subseteq Paths, disk \in Disks, catalog \in Rows
    PROVE  /\ \A i \in ToAdd(tag, stats) : /\ i \in Fitting /\ i.path \in DOMAIN stats
                                           /\ i.key = disk[i.path].key
           /\ \A i \in ToRemove(tag, stats) :
                 /\ i \in Fitting
                 /\ \E row \in Versions(tag, i.path) : row.key = i.key
           /\ \A i \in ToTouch(tag, stats) :
                 /\ i \in Fitting /\ i.path \in Modified(tag, stats) \ Changed(tag, stats)
                 /\ i.key = Latest(tag, i.path).key
                 /\ Latest(tag, i.path) \in Versions(tag, i.path)
<1>1. ASSUME NEW row \in catalog
      PROVE  /\ row.path \in Paths
             /\ [path |-> row.path, key |-> row.key] \in Fitting
  BY DEF Rows, Row, Item, Fitting, Fits
<1>2. Changed(tag, stats) \subseteq Modified(tag, stats)
  BY DEF Changed
<1>3. Modified(tag, stats) \subseteq Saved(tag) \cap DOMAIN stats
  BY DEF Modified
<1>4. ASSUME NEW i \in ToAdd(tag, stats)
      PROVE  i \in Fitting /\ i.path \in DOMAIN stats /\ i.key = disk[i.path].key
  <2>1. PICK p \in DOMAIN stats : i = [path |-> p, key |-> disk[p].key]
    BY <1>2, <1>3 DEF ToAdd
  <2>2. p \in Paths
    BY <2>1
  <2>3. i \in Item /\ Fits(i)
    BY <2>1, <2>2 DEF Disks, Item
  <2> QED BY <2>1, <2>3 DEF Fitting
<1>5. ASSUME NEW i \in ToRemove(tag, stats)
      PROVE  i \in Fitting /\ \E row \in Versions(tag, i.path) : row.key = i.key
  <2>1. PICK p : \E V \in SUBSET Versions(tag, p) : i \in ItemsOf(V)
    BY DEF ToRemove
  <2> PICK V \in SUBSET Versions(tag, p) : i \in ItemsOf(V)
    BY <2>1
  <2>2. PICK row \in V : i = [path |-> row.path, key |-> row.key]
    BY <2>1 DEF ItemsOf
  <2>3. row \in catalog /\ row.path = p /\ row.tag = tag
    BY <2>1, <2>2 DEF Versions
  <2>4. row \in Versions(tag, i.path) /\ row.key = i.key
    BY <2>2, <2>3 DEF Versions
  <2> QED BY <1>1, <2>2, <2>3, <2>4
<1>6. ASSUME NEW i \in ToTouch(tag, stats)
      PROVE  /\ i \in Fitting /\ i.path \in Modified(tag, stats) \ Changed(tag, stats)
             /\ i.key = Latest(tag, i.path).key
             /\ Latest(tag, i.path) \in Versions(tag, i.path)
  <2>1. PICK p \in Modified(tag, stats) \ Changed(tag, stats) :
             i = [path |-> Latest(tag, p).path, key |-> Latest(tag, p).key]
    BY DEF ToTouch, ItemsOf
  <2>2. Versions(tag, p) # {}
    BY <1>3, <2>1 DEF Saved, Versions
  <2>3. Latest(tag, p) \in Versions(tag, p)
    BY <2>2, LatestVersion
  <2>4. Latest(tag, p) \in catalog /\ Latest(tag, p).path = p
    BY <2>3 DEF Versions
  <2>5. i.path = p /\ i.key = Latest(tag, p).key
    BY <2>1, <2>4
  <2> QED BY <1>1, <2>1, <2>3, <2>4, <2>5
<1> QED BY <1>4, <1>5, <1>6

\* The plan has its type.
LEMMA PlanTyping ==
    ASSUME NEW tag, NEW stats, DOMAIN stats \subseteq Paths, disk \in Disks, catalog \in Rows,
           NEW op \in Ops
    PROVE  PlanOf(tag, stats)[op] \subseteq Fitting
<1>1. ToAdd(tag, stats) \subseteq Fitting /\ ToRemove(tag, stats) \subseteq Fitting
  BY PlanItems
<1>2. PlanOf(tag, stats)[op] \subseteq ToAdd(tag, stats) \cup ToRemove(tag, stats)
  BY PlanFacts DEF PlanOf
<1> QED BY <1>1, <1>2

\* A slice is part of the plan.
LEMMA SlicePart ==
    ASSUME NEW items, NEW n, NEW s \in Slices(items, n)
    PROVE  s \subseteq items /\ (Cardinality(items) <= n => s = items)
BY DEF Slices

LEMMA IdleTyping ==
    ASSUME Idle
    PROVE  /\ pc' = "idle" /\ run' \in Runs
           /\ todo' = NoPlan /\ batch' = NoPlan /\ touched' = {}
           /\ marking' = NoMarking /\ unmarked' = {} /\ found' = {}
           /\ todo' \in Plans /\ batch' \in Plans /\ marking' \in Markings
BY PlanFacts DEF Idle

LEMMA WriteTyping ==
    ASSUME TypeInv, NEW d \in Disks, branch' \in Branches, MayWrite, Write(d)
    PROVE  TypeInv'
<1>1. clock' \in 0..MaxEdits /\ disk' \in Disks
  <2>1. clock \in 0..MaxEdits /\ clock < MaxEdits /\ clock' = clock + 1
    BY DEF Write, MayWrite, TypeInv
  <2> QED BY <2>1, ContentAssumption DEF Write
<1>2. UNCHANGED <<catalog, cache, chunks, chunkTags, pc, run, todo, batch, touched, marking,
                  unmarked, found, stops, adrift>>
  BY DEF Write, tables, work, faults
<1>3. fresh' \in {"no", "so far", "yes"}
  BY DEF Write
<1> QED BY <1>1, <1>2, <1>3 DEF TypeInv, Quiet, Marking

\* What a user does leaves a disk.
LEMMA UserTyping ==
    ASSUME TypeInv, User
    PROVE  TypeInv'
<1>1. MayWrite /\ clock + 1 \in 0..MaxEdits
  <2>1. clock \in 0..MaxEdits /\ clock < MaxEdits /\ MayWrite
    BY DEF TypeInv, User, MayWrite
  <2> QED BY <2>1, ContentAssumption
<1>2. disk \in [Paths -> [key : Contents \cup {Absent}, mtime : 0..MaxEdits]]
  BY DEF TypeInv, Disks
<1>3. \A p \in Paths : Fits([path |-> p, key |-> disk[p].key])
  BY DEF TypeInv, Disks
<1>4. CASE \E p \in Paths, k \in Contents \cup {Absent} : Edit(p, k)
  <2>1. PICK p \in Paths, k \in Contents \cup {Absent} : Edit(p, k)
    BY <1>4
  <2> DEFINE d == [disk EXCEPT ![p] = [key |-> k, mtime |-> clock + 1]]
  <2>2. Write(d) /\ branch' = branch /\ k \in ContentsOf[p] \cup {Absent}
    BY <2>1 DEF Edit
  <2>3. clock + 1 \in 0..MaxEdits
    BY <1>1
  <2>4. d \in Disks
    BY <1>2, <1>3, <2>2, <2>3 DEF Disks, Fits
  <2> QED BY <1>1, <2>2, <2>4, WriteTyping DEF TypeInv
<1>5. CASE \E b \in Branches, ps \in SUBSET Paths :
              \E changed \in [ps -> Contents \cup {Absent}] : Checkout(b, changed)
  <2>1. PICK b \in Branches, ps \in SUBSET Paths :
              \E changed \in [ps -> Contents \cup {Absent}] : Checkout(b, changed)
    BY <1>5
  <2>2. PICK changed \in [ps -> Contents \cup {Absent}] : Checkout(b, changed)
    BY <2>1
  <2> DEFINE d == [p \in Paths |-> IF p \in DOMAIN changed
                                   THEN [key |-> changed[p], mtime |-> clock + 1]
                                   ELSE disk[p]]
  <2>3. Write(d) /\ branch' = b
    BY <2>2 DEF Checkout
  <2>4. \A p \in ps : changed[p] \in ContentsOf[p] \cup {Absent}
    BY <2>2 DEF Checkout
  <2>5. clock + 1 \in 0..MaxEdits
    BY <1>1
  <2>6. d \in Disks
    BY <1>2, <1>3, <2>4, <2>5 DEF Disks, Fits
  <2> QED BY <1>1, <2>3, <2>6, WriteTyping
<1> QED BY <1>4, <1>5 DEF User

\* Where only the place, the run and the rest of its work change.
Bookkeeping == UNCHANGED <<disk, branch, clock, catalog, cache, chunks, chunkTags>>

LEMMA StartTyping ==
    ASSUME TypeInv, NEW files \in SUBSET Paths, Start(files)
    PROVE  TypeInv'
<1>1. run' \in Runs /\ run'.tag \in Branches
  <2>1. NoRun \in Runs
    BY PlanFacts
  <2> QED BY <2>1 DEF Start, TypeInv, Runs, NoRun
<1> QED BY <1>1 DEF Start, TypeInv, Quiet, Marking, Places, disks, tables, work, faults

LEMMA StatTyping ==
    ASSUME TypeInv, Stat
    PROVE  TypeInv'
<1> DEFINE there == {q \in run.files : Exists(q)}
           stats == [p \in there |-> disk[p].mtime]
<1>1. run' = [run EXCEPT !.stats = stats] /\ run \in Runs
  BY DEF Stat, TypeInv
<1>2. there \in SUBSET Paths
  BY DEF TypeInv, Runs
<1>3. \A p \in there : disk[p].mtime \in 0..MaxEdits
  BY <1>2 DEF TypeInv, Disks
<1>4. stats \in [there -> 0..MaxEdits]
  BY <1>3
<1> HIDE DEF stats, there
<1>5. stats \in UNION {[ps -> 0..MaxEdits] : ps \in SUBSET Paths}
  BY <1>2, <1>4
<1>6. run' \in Runs /\ run'.tag = run.tag
  BY <1>1, <1>5 DEF Runs
<1> QED BY <1>6 DEF Stat, TypeInv, Quiet, Marking, Places, disks, tables, work, faults

LEMMA StatsDomain ==
    ASSUME run \in Runs
    PROVE  DOMAIN run.stats \subseteq Paths
<1>1. PICK ps \in SUBSET Paths : run.stats \in [ps -> 0..MaxEdits]
  BY DEF Runs
<1> QED BY <1>1

LEMMA PlanStepTyping ==
    ASSUME TypeInv, Plan
    PROVE  TypeInv'
<1> DEFINE plan == PlanOf(run.tag, run.stats)
<1>1. DOMAIN run.stats \subseteq Paths /\ disk \in Disks /\ catalog \in Rows
  BY StatsDomain DEF TypeInv
<1>2. \A op \in Ops : plan[op] \subseteq Fitting
  BY <1>1, PlanTyping
<1>3. ToTouch(run.tag, run.stats) \subseteq Fitting
  BY <1>1, PlanItems
<1> HIDE DEF plan
<1>4. todo' = [op \in Ops |-> OnlyFiles(plan[op])] /\ touched' \subseteq Fitting
  BY <1>3 DEF Plan, plan
<1>5. todo' \in Plans
  BY <1>2, <1>4 DEF Plans, OnlyFiles
<1>6. run' \in Runs /\ run'.tag = run.tag
  BY DEF Plan, TypeInv, Runs
<1> QED BY <1>4, <1>5, <1>6 DEF Plan, TypeInv, Quiet, Marking, Places, disks, tables, faults

LEMMA NextBatchTyping ==
    ASSUME TypeInv, NextBatch
    PROVE  /\ TypeInv'
           /\ \A op \in Ops : /\ batch'[op] \subseteq todo[op]
                              /\ todo'[op] = todo[op] \ batch'[op]
                              /\ Cardinality(todo[op]) <= FilesPerBatch => todo'[op] = {}
<1>1. PICK slice \in [Ops -> SUBSET UNION {todo[op] : op \in Ops}] :
          /\ \A op \in Ops : slice[op] \in (IF FullRun THEN Slices(todo[op], FilesPerBatch)
                                           ELSE {todo[op]})
          /\ batch' = slice
          /\ todo' = [op \in Ops |-> todo[op] \ slice[op]]
  BY DEF NextBatch
<1>2. ASSUME NEW op \in Ops
      PROVE  /\ slice[op] \subseteq todo[op]
             /\ Cardinality(todo[op]) <= FilesPerBatch => slice[op] = todo[op]
  BY <1>1, SlicePart
<1>3. batch' \in Plans /\ todo' \in Plans
  BY <1>1, <1>2 DEF TypeInv, Plans
<1>4. TypeInv'
  BY <1>3 DEF NextBatch, TypeInv, Quiet, Marking, Places, disks, tables, faults
<1> QED BY <1>1, <1>2, <1>4

\* What is handed to markComplete comes from the batch.
LEMMA HandOverTyping ==
    ASSUME TypeInv, NEW op \in Ops, NEW items \in SUBSET batch[op], NEW to, pc = "update",
           HandOver(op, items, to), UNCHANGED catalog,
           \/ to = "catalog" /\ found' = {}
           \/ to = "untag" /\ op = "del" /\ found' \in SUBSET Chunk /\ found' \cap chunks' = {},
           chunks' \in SUBSET Chunk, chunkTags' \in SUBSET [tag : Branches, chunk : Chunk],
           stops' \in 0..MaxStops, fresh' \in {"no", "so far", "yes"},
           adrift' \in SUBSET (Contents \cup {Absent}), Absent \in adrift'
    PROVE  /\ TypeInv'
           /\ marking'.op = op /\ marking'.items = items /\ unmarked' = items
           /\ pc' = to /\ todo' = todo
           /\ \A other \in Ops : batch'[other] = IF other = op THEN batch[op] \ items
                                                 ELSE batch[other]
<1>1. items \in SUBSET Fitting /\ batch[op] \in SUBSET Fitting
  BY DEF TypeInv, Plans
<1>2. batch' = [batch EXCEPT ![op] = @ \ items] /\ batch \in Plans
  BY DEF HandOver, TypeInv
<1>3. batch' \in Plans
  BY <1>1, <1>2 DEF Plans
<1>4. \A other \in Ops : batch'[other] = IF other = op THEN batch[op] \ items ELSE batch[other]
  BY <1>2 DEF Plans
<1>5. marking' = [op |-> op, items |-> items] /\ unmarked' = items
  BY DEF HandOver
<1>6. marking' \in Markings
  BY <1>1, <1>5 DEF Markings
<1>7. UNCHANGED <<disk, branch, clock, catalog, cache, run, todo, touched>> /\ pc' = to
  BY DEF HandOver, disks
<1>8. TypeInv'
  BY <1>3, <1>5, <1>6, <1>7 DEF TypeInv, Quiet, Marking, Places
<1> QED BY <1>4, <1>5, <1>7, <1>8

LEMMA MarkTyping ==
    ASSUME TypeInv, NEW op \in Ops, NEW items \in SUBSET batch[op], Mark(op, items), pc = "update",
           UNCHANGED catalog,
           chunks' \in SUBSET Chunk, chunkTags' \in SUBSET [tag : Branches, chunk : Chunk]
    PROVE  TypeInv'
<1>1. /\ HandOver(op, items, "catalog") /\ UNCHANGED <<found, stops, adrift, fresh>>
      /\ found = {}
  BY DEF Mark, faults, TypeInv
<1>2. /\ stops \in 0..MaxStops /\ fresh \in {"no", "so far", "yes"}
      /\ adrift \in SUBSET (Contents \cup {Absent}) /\ Absent \in adrift
  BY DEF TypeInv
<1> QED BY <1>1, <1>2, HandOverTyping

\* The chunks of a batch are chunks, none of which is there or tagged yet.
LEMMA NewChunkFacts ==
    ASSUME TypeInv, NEW items \in SUBSET Fitting, HaveRoom(items),
           NEW c \in NewChunks(items)
    PROVE  /\ c \in Chunk /\ c \notin chunks /\ \A t \in chunkTags : t.chunk # c
           /\ \E i \in items : Exists(i.path) /\ c.key = i.key /\ c.path = i.path
<1>1. PICK i \in items, n \in Parts :
          Exists(i.path)
          /\ c = [key |-> i.key, path |-> i.path, part |-> n,
                  copy |-> First(Unused(i.key, i.path, n))]
  BY DEF NewChunks
<1> DEFINE free == Unused(i.key, i.path, n)
<1>2. free # {} /\ free \in SUBSET Nat
  BY DEF HaveRoom, Unused
<1>3. \E k \in free : \A m \in free : k <= m
  BY <1>2, LeastOf
<1>4. First(free) \in free
  BY <1>3 DEF First
<1>5. c.copy \in free /\ c.key = i.key /\ c.path = i.path /\ c.part = n
      /\ c = [key |-> c.key, path |-> c.path, part |-> c.part, copy |-> c.copy]
  BY <1>1, <1>4
<1>6. c.copy \in 1..MaxCopies /\ \A d \in chunks \cup {t.chunk : t \in chunkTags} : d # c
  BY <1>5 DEF Unused
<1>7. i.key \in Contents \cup {Absent} /\ i.path \in Paths
  BY DEF Fitting, Item
<1>8. c \in Chunk
  BY <1>5, <1>6, <1>7 DEF Chunk
<1> QED BY <1>1, <1>5, <1>6, <1>8

\* What an insertion leaves in the tables.
LEMMA InsertTyping ==
    ASSUME TypeInv, pc = "update", NEW items \in SUBSET Fitting, HaveRoom(items),
           NEW kept, NEW tagged, Insert(NewChunks(items), kept, tagged)
    PROVE  /\ chunks' \in SUBSET Chunk /\ chunkTags' \in SUBSET [tag : Branches, chunk : Chunk]
           /\ kept \in SUBSET NewChunks(items) /\ tagged \in SUBSET (kept \cup chunks)
           /\ kept \in SUBSET Chunk /\ tagged \in SUBSET Chunk
           /\ KeysOf(NewChunks(items)) \in SUBSET (Contents \cup {Absent})
           /\ KeysOf(kept \cup tagged) \in SUBSET (Contents \cup {Absent})
<1> DEFINE new == NewChunks(items)
<1>1. new \in SUBSET Chunk
  BY NewChunkFacts
<1>2. KeysOf(new) \in SUBSET (Contents \cup {Absent})
  BY <1>1 DEF KeysOf, Chunk
<1>3. kept \in SUBSET new /\ tagged \in SUBSET (kept \cup chunks) /\ chunks' = chunks \cup kept
      /\ chunkTags' = chunkTags \cup {[tag |-> run.tag, chunk |-> c] : c \in tagged}
  BY DEF Insert
<1>4. run.tag \in Branches /\ chunks \in SUBSET Chunk
      /\ chunkTags \in SUBSET [tag : Branches, chunk : Chunk]
  BY DEF TypeInv
<1>5. kept \in SUBSET Chunk /\ tagged \in SUBSET Chunk
  BY <1>1, <1>3, <1>4
<1>6. KeysOf(kept \cup tagged) \in SUBSET (Contents \cup {Absent})
  BY <1>5 DEF KeysOf, Chunk
<1> HIDE DEF new
<1>7. chunks' \in SUBSET Chunk
  BY <1>3, <1>4, <1>5
<1>8. \A c \in tagged : [tag |-> run.tag, chunk |-> c] \in [tag : Branches, chunk : Chunk]
  BY <1>4, <1>5
<1>9. chunkTags' \in SUBSET [tag : Branches, chunk : Chunk]
  BY <1>3, <1>4, <1>8
<1> QED BY <1>2, <1>3, <1>5, <1>6, <1>7, <1>9 DEF new

LEMMA ComputeTyping ==
    ASSUME TypeInv, Compute
    PROVE  /\ TypeInv'
           /\ Mark("compute", batch["compute"])
           /\ batch["compute"] \in SUBSET Fitting
<1> DEFINE items == batch["compute"]
           new == NewChunks(items)
<1>1. /\ pc = "update" /\ Mark("compute", items) /\ HaveRoom(items)
      /\ Insert(new, new, new) /\ UNCHANGED catalog
  BY DEF Compute, Mark, HandOver
<1>2. items \in SUBSET Fitting
  BY PlanFacts DEF TypeInv, Plans
<1>3. chunks' \in SUBSET Chunk /\ chunkTags' \in SUBSET [tag : Branches, chunk : Chunk]
  BY <1>1, <1>2, InsertTyping
<1>4. items \in SUBSET batch["compute"] /\ "compute" \in Ops
  BY PlanFacts
<1>5. TypeInv'
  BY <1>1, <1>3, <1>4, MarkTyping
<1> QED BY <1>1, <1>2, <1>5

LEMMA AddTagTyping ==
    ASSUME TypeInv, NEW i, AddTag(i)
    PROVE  TypeInv' /\ Mark("addTag", {i}) /\ i \in batch["addTag"]
<1>1. run.tag \in Branches /\ chunks \in SUBSET Chunk
      /\ chunkTags \in SUBSET [tag : Branches, chunk : Chunk]
  BY DEF TypeInv, AddTag
<1>2. chunks' \in SUBSET Chunk /\ chunkTags' \in SUBSET [tag : Branches, chunk : Chunk]
  BY <1>1 DEF AddTag
<1>3. pc = "update" /\ Mark("addTag", {i}) /\ {i} \in SUBSET batch["addTag"] /\ UNCHANGED catalog
  BY DEF AddTag, Mark, HandOver
<1> QED BY <1>2, <1>3, PlanFacts, MarkTyping

LEMMA RemoveTagTyping ==
    ASSUME TypeInv, NEW i, RemoveTag(i)
    PROVE  TypeInv' /\ Mark("removeTag", {i}) /\ i \in batch["removeTag"]
<1>1. chunks' \in SUBSET Chunk /\ chunkTags' \in SUBSET [tag : Branches, chunk : Chunk]
  BY DEF TypeInv, RemoveTag
<1>2. pc = "update" /\ Mark("removeTag", {i}) /\ {i} \in SUBSET batch["removeTag"]
      /\ UNCHANGED catalog
  BY DEF RemoveTag, Mark, HandOver
<1> QED BY <1>1, <1>2, PlanFacts, MarkTyping

LEMMA DeleteTyping ==
    ASSUME TypeInv, NEW i, Delete(i)
    PROVE  /\ TypeInv' /\ i \in batch["del"] /\ chunks' \subseteq chunks
           /\ pc' \in {"untag", "catalog"} /\ HandOver("del", {i}, pc')
           /\ UNCHANGED <<chunkTags, stops, adrift, fresh>>
<1> DEFINE rows == {c \in chunks : c.key = i.key}
<1>1. pc = "update" /\ {i} \in SUBSET batch["del"] /\ UNCHANGED chunkTags /\ "del" \in Ops
  BY PlanFacts DEF Delete
<1>2. /\ found = {} /\ chunks \in SUBSET Chunk
      /\ chunkTags \in SUBSET [tag : Branches, chunk : Chunk]
      /\ stops \in 0..MaxStops /\ fresh \in {"no", "so far", "yes"}
      /\ adrift \in SUBSET (Contents \cup {Absent}) /\ Absent \in adrift
  BY <1>1 DEF TypeInv
<1>3. CASE rows = {} /\ UNCHANGED chunks /\ Mark("del", {i})
  <2>1. HandOver("del", {i}, "catalog") /\ UNCHANGED <<found, stops, adrift, fresh, catalog>>
        /\ pc' = "catalog"
    BY <1>3 DEF Mark, HandOver, faults
  <2>2. TypeInv'
    BY <1>1, <1>2, <1>3, <2>1, MarkTyping
  <2> QED BY <1>1, <1>3, <2>1, <2>2
<1>4. CASE \E c \in rows : /\ chunks' = chunks \ {c} /\ found' = {c}
                           /\ HandOver("del", {i}, "untag") /\ UNCHANGED <<faults, fresh>>
  <2>1. PICK c \in rows : /\ chunks' = chunks \ {c} /\ found' = {c}
                          /\ HandOver("del", {i}, "untag") /\ UNCHANGED <<faults, fresh>>
    BY <1>4
  <2>2. UNCHANGED <<stops, adrift, fresh, catalog>> /\ pc' = "untag"
    BY <2>1 DEF HandOver, faults
  <2>3. chunks' \in SUBSET chunks /\ found' \in SUBSET Chunk /\ found' \cap chunks' = {}
    BY <1>2, <2>1
  <2>4. TypeInv'
    BY <1>1, <1>2, <2>1, <2>2, <2>3, HandOverTyping
  <2> QED BY <1>1, <2>1, <2>2, <2>3, <2>4
<1> QED BY <1>3, <1>4 DEF Delete

LEMMA UntagTyping ==
    ASSUME TypeInv, Untag
    PROVE  TypeInv'
<1>1. /\ pc = "untag" /\ pc' = "catalog" /\ found' = {}
      /\ chunkTags' \in SUBSET chunkTags
      /\ UNCHANGED <<disk, branch, clock, catalog, cache, chunks, run, todo, batch, touched,
                     marking, unmarked, stops, adrift, fresh>>
  BY DEF Untag, disks, faults
<1>2. chunkTags' \in SUBSET [tag : Branches, chunk : Chunk]
  BY <1>1 DEF TypeInv
<1> QED BY <1>1, <1>2 DEF TypeInv, Quiet, Marking, Places

LEMMA UpdateDoneTyping ==
    ASSUME TypeInv, UpdateDone
    PROVE  TypeInv'
BY PlanFacts DEF UpdateDone, TypeInv, Quiet, Marking, Places, disks, tables, faults

LEMMA AllBatchesDoneTyping ==
    ASSUME TypeInv, AllBatchesDone
    PROVE  TypeInv'
BY DEF AllBatchesDone, TypeInv, Quiet, Marking, Places, disks, tables, work, faults

\* The rows that replace others are rows.
LEMMA RowsTyping ==
    ASSUME TypeInv, NEW i \in Fitting, run.tag \in Branches, NEW old,
           NEW new \in SUBSET {[tag |-> run.tag, path |-> i.path, key |-> i.key, time |-> run.time]}
    PROVE  (catalog \ old) \cup new \in Rows
<1> DEFINE row == [tag |-> run.tag, path |-> i.path, key |-> i.key, time |-> run.time]
<1>1. run.time \in 0..MaxEdits
  BY DEF TypeInv, Runs
<1>2. row \in Row /\ Fits(row)
  BY <1>1 DEF Row, Fitting, Item, Fits
<1>3. IsFiniteSet(catalog) /\ catalog \in SUBSET Row /\ \A r \in catalog : Fits(r)
  BY DEF TypeInv, Rows
<1>4. IsFiniteSet(catalog \ old)
  BY <1>3, FS_Difference
<1>5. IsFiniteSet((catalog \ old) \cup {row})
  BY <1>4, FS_AddElement
<1> HIDE DEF row
<1>6. IsFiniteSet((catalog \ old) \cup new)
  <2>1. (catalog \ old) \cup new \in SUBSET ((catalog \ old) \cup {row})
    BY DEF row
  <2> QED BY <1>5, <2>1, FS_Subset
<1>7. new \subseteq {row}
  BY DEF row
<1> QED BY <1>2, <1>3, <1>6, <1>7 DEF Rows

\* Where markComplete goes after an item.
LEMMA StepTyping ==
    ASSUME TypeInv, NEW i, NEW next, NEW refill \in SUBSET marking.items, Step(i, next, refill)
    PROVE  /\ i \in unmarked /\ i \in marking.items /\ i \in Fitting
           /\ unmarked' \in SUBSET marking.items
           /\ pc' = next \/ pc' = pc
           /\ IF unmarked = {i} THEN pc' = next /\ unmarked' = refill
              ELSE pc' = pc /\ unmarked' = unmarked \ {i}
BY DEF Step, TypeInv, Markings

LEMMA MarkCatalogTyping ==
    ASSUME TypeInv, NEW i, MarkCatalog(i)
    PROVE  TypeInv' /\ i \in unmarked /\ i \in marking.items /\ i \in Fitting
<1>1. pc = "catalog" /\ Step(i, "cache", marking.items)
      /\ UNCHANGED <<disk, branch, clock, cache, chunks, chunkTags, run, todo, batch, touched,
                     marking, found, stops, adrift, fresh>>
  BY DEF MarkCatalog, disks, faults
<1>2. /\ i \in unmarked /\ i \in marking.items /\ i \in Fitting
      /\ unmarked' \in SUBSET marking.items
      /\ pc' \in {"catalog", "cache"}
  BY <1>1, StepTyping
<1>3. run.tag \in Branches
  BY <1>1 DEF TypeInv
<1>4. catalog' \in Rows
  <2> DEFINE old == {row \in Versions(run.tag, i.path) : row.key = i.key}
             new == IF Adding(marking.op)
                    THEN {[tag |-> run.tag, path |-> i.path, key |-> i.key, time |-> run.time]}
                    ELSE {}
  <2>1. catalog' = (catalog \ old) \cup new
    BY DEF MarkCatalog
  <2>2. new \in SUBSET {[tag |-> run.tag, path |-> i.path, key |-> i.key, time |-> run.time]}
    OBVIOUS
  <2> HIDE DEF old, new
  <2> QED BY <1>2, <1>3, <2>1, <2>2, RowsTyping
<1> QED BY <1>1, <1>2, <1>4 DEF TypeInv, Quiet, Marking, Places

LEMMA MarkCacheTyping ==
    ASSUME TypeInv, NEW i, MarkCache(i)
    PROVE  TypeInv' /\ i \in unmarked /\ i \in marking.items /\ i \in Fitting
<1>1. pc = "cache" /\ Step(i, "update", {})
      /\ UNCHANGED <<disk, branch, clock, catalog, chunks, chunkTags, run, todo, batch, touched,
                     marking, found, stops, adrift, fresh>>
  BY DEF MarkCache, disks, faults
<1>2. /\ i \in unmarked /\ i \in marking.items /\ i \in Fitting
      /\ unmarked' \in SUBSET marking.items
      /\ pc' \in {"cache", "update"} /\ (pc' = "update" => unmarked' = {})
  BY <1>1, StepTyping
<1>3. [key |-> i.key, tag |-> run.tag] \in [key : Contents \cup {Absent}, tag : Branches]
  BY <1>1, <1>2 DEF TypeInv, Fitting, Item
<1>4. cache' \in SUBSET [key : Contents \cup {Absent}, tag : Branches]
  BY <1>3 DEF MarkCache, TypeInv
<1> QED BY <1>1, <1>2, <1>4 DEF TypeInv, Quiet, Marking, Places

LEMMA TouchTyping ==
    ASSUME TypeInv, NEW i, Touch(i)
    PROVE  TypeInv' /\ i \in touched /\ i \in Fitting
<1>1. pc = "touch" /\ i \in touched /\ i \in Fitting
      /\ UNCHANGED <<disk, branch, clock, cache, chunks, chunkTags, pc, run, todo, batch,
                     marking, unmarked, found, stops, adrift, fresh>>
  BY DEF Touch, disks, faults, TypeInv
<1>2. run.tag \in Branches
  BY <1>1 DEF TypeInv
<1>3. catalog' \in Rows
  <2> DEFINE old == Versions(run.tag, i.path)
             new == IF old = {} THEN {}
                    ELSE {[tag |-> run.tag, path |-> i.path, key |-> i.key, time |-> run.time]}
  <2>1. catalog' = (catalog \ old) \cup new \/ catalog' = catalog
    BY DEF Touch
  <2>2. new \in SUBSET {[tag |-> run.tag, path |-> i.path, key |-> i.key, time |-> run.time]}
    OBVIOUS
  <2> HIDE DEF old, new
  <2>3. (catalog \ old) \cup new \in Rows
    BY <1>1, <1>2, <2>2, RowsTyping
  <2> QED BY <2>1, <2>3 DEF TypeInv
<1>4. touched' \in SUBSET Fitting
  BY DEF Touch, TypeInv
<1> QED BY <1>1, <1>3, <1>4 DEF TypeInv, Quiet, Marking, Places

LEMMA FinishTyping ==
    ASSUME TypeInv, Finish
    PROVE  TypeInv'
<1>1. UNCHANGED <<disk, branch, clock, catalog, cache, chunks, chunkTags, stops, adrift>>
      /\ fresh' \in {"no", "so far", "yes"} /\ Idle
  BY DEF Finish, disks, tables, faults, TypeInv
<1> QED BY <1>1, IdleTyping DEF TypeInv, Quiet, Marking, Places

\* A run is left, or goes on with its next batch.
LEMMA GiveUpTyping ==
    ASSUME TypeInv, GiveUp, ~Quiet, stops' \in 0..MaxStops,
           adrift' \in SUBSET (Contents \cup {Absent}), Absent \in adrift',
           chunks' \in SUBSET Chunk, chunkTags' \in SUBSET [tag : Branches, chunk : Chunk]
    PROVE  TypeInv'
<1>1. UNCHANGED <<disk, branch, clock, catalog, cache>> /\ fresh' = "no"
  BY DEF GiveUp, disks
<1>2. CASE FullRun
  BY <1>1, <1>2, PlanFacts DEF GiveUp, TypeInv, Quiet, Marking, Places
<1>3. CASE ~FullRun
  <2>1. Idle
    BY <1>3 DEF GiveUp
  <2> QED BY <1>1, <2>1, IdleTyping DEF TypeInv, Quiet, Marking, Places
<1> QED BY <1>2, <1>3

LEMMA StopsTyping ==
    ASSUME TypeInv, stops < MaxStops
    PROVE  stops + 1 \in 0..MaxStops
<1>1. stops \in 0..MaxStops
  BY DEF TypeInv
<1> QED BY <1>1, ContentAssumption

\* What a failure can leave in disagreement.
LEMMA MarkedKeys ==
    ASSUME TypeInv
    PROVE  KeysOf(marking.items) \in SUBSET (Contents \cup {Absent})
<1>1. marking.items \in SUBSET Fitting
  BY DEF TypeInv, Markings
<1> QED BY <1>1 DEF KeysOf, Fitting, Item

LEMMA StopTyping ==
    ASSUME TypeInv, Abort \/ UpdateError \/ MarkError \/ Crash
    PROVE  TypeInv' /\ adrift \subseteq adrift'
<1>1. stops' \in 0..MaxStops
  BY StopsTyping DEF Abort, UpdateError, MarkError, Crash
<1>2. /\ adrift' \in SUBSET (adrift \cup KeysOf(marking.items)) /\ adrift \subseteq adrift'
  BY DEF Abort, UpdateError, MarkError, Crash, Interrupted
<1>3. adrift' \in SUBSET (Contents \cup {Absent}) /\ Absent \in adrift'
  BY <1>2, MarkedKeys DEF TypeInv
<1>4. CASE Abort \/ Crash
  <2>1. Idle /\ fresh' = "no"
        /\ UNCHANGED <<disk, branch, clock, catalog, cache, chunks, chunkTags>>
    BY <1>4 DEF Abort, Crash, disks, tables
  <2> QED BY <1>1, <1>2, <1>3, <2>1, IdleTyping DEF TypeInv, Quiet, Marking, Places
<1>5. CASE UpdateError \/ MarkError
  <2>1. GiveUp /\ ~Quiet /\ UNCHANGED <<chunks, chunkTags>>
    BY <1>5 DEF UpdateError, MarkError, Quiet
  <2>2. chunks \in SUBSET Chunk /\ chunkTags \in SUBSET [tag : Branches, chunk : Chunk]
    BY DEF TypeInv
  <2> QED BY <1>1, <1>2, <1>3, <2>1, <2>2, GiveUpTyping
<1> QED BY <1>4, <1>5

\* What a transaction that went wrong has left.
Spoilt(kept, tagged) ==
    LET items == batch["compute"]
    IN /\ pc = "update" /\ items # {} /\ items \in SUBSET Fitting /\ HaveRoom(items)
       /\ Insert(NewChunks(items), kept, tagged)
       /\ stops < MaxStops /\ stops' = stops + 1
       /\ KeysOf(tagged \ kept) \subseteq adrift' /\ adrift \subseteq adrift'
       /\ fresh' = "no" /\ UNCHANGED <<disk, branch, clock, catalog, cache>>

LEMMA RejectedTyping ==
    ASSUME TypeInv, InsertRejected \/ TransactionRejected
    PROVE  /\ TypeInv' /\ adrift \subseteq adrift'
           /\ \E kept, tagged :
                 /\ Spoilt(kept, tagged)
                 /\ \/ /\ HandOver("compute", batch["compute"], "catalog")
                       /\ KeysOf(NewChunks(batch["compute"]) \ (kept \cap tagged))
                             \subseteq adrift'
                    \/ GiveUp /\ KeysOf(kept \cup tagged) \subseteq adrift'
<1> DEFINE items == batch["compute"]
           new == NewChunks(items)
<1>1. items \in SUBSET Fitting /\ "compute" \in Ops
  BY PlanFacts DEF TypeInv, Plans
<1>2. /\ chunks \in SUBSET Chunk /\ adrift \in SUBSET (Contents \cup {Absent})
      /\ Absent \in adrift
  BY DEF TypeInv
<1>3. CASE InsertRejected
  <2>1. PICK kept \in SUBSET new, tagged \in SUBSET (new \cup chunks) :
             /\ Insert(new, kept, tagged)
             /\ adrift' = adrift \cup KeysOf(new \ (kept \cap tagged)) \cup KeysOf(tagged \ kept)
    BY <1>3 DEF InsertRejected
  <2>2. /\ pc = "update" /\ items # {} /\ HaveRoom(items) /\ stops < MaxStops
        /\ stops' = stops + 1 /\ HandOver("compute", items, "catalog") /\ fresh' = "no"
        /\ UNCHANGED found
    BY <1>3 DEF InsertRejected
  <2>3. UNCHANGED <<disk, branch, clock, catalog, cache>>
    BY <2>2 DEF HandOver, disks
  <2>4. /\ chunks' \in SUBSET Chunk /\ chunkTags' \in SUBSET [tag : Branches, chunk : Chunk]
        /\ kept \in SUBSET Chunk /\ tagged \in SUBSET Chunk /\ new \in SUBSET Chunk
    BY <1>1, <2>1, <2>2, InsertTyping, NewChunkFacts
  <2>5. adrift' \in SUBSET (Contents \cup {Absent}) /\ Absent \in adrift'
    BY <1>2, <2>1, <2>4 DEF KeysOf, Chunk
  <2>6. stops' \in 0..MaxStops /\ found' = {}
    BY <2>2, StopsTyping DEF TypeInv
  <2>7. TypeInv'
    BY <1>1, <2>2, <2>3, <2>4, <2>5, <2>6, HandOverTyping
  <2>8. Spoilt(kept, tagged)
    BY <1>1, <2>1, <2>2, <2>3 DEF Spoilt
  <2>9. adrift \subseteq adrift' /\ KeysOf(new \ (kept \cap tagged)) \subseteq adrift'
    BY <2>1
  <2> QED BY <2>2, <2>7, <2>8, <2>9
<1>4. CASE TransactionRejected
  <2>1. PICK kept \in SUBSET new, tagged \in SUBSET (new \cup chunks) :
             /\ Insert(new, kept, tagged) /\ adrift' = adrift \cup KeysOf(kept \cup tagged)
    BY <1>4 DEF TransactionRejected
  <2>2. /\ pc = "update" /\ items # {} /\ HaveRoom(items) /\ stops < MaxStops
        /\ stops' = stops + 1 /\ GiveUp /\ fresh' = "no"
        /\ UNCHANGED <<disk, branch, clock, catalog, cache>>
    BY <1>4 DEF TransactionRejected, GiveUp, disks
  <2>3. /\ chunks' \in SUBSET Chunk /\ chunkTags' \in SUBSET [tag : Branches, chunk : Chunk]
        /\ KeysOf(kept \cup tagged) \in SUBSET (Contents \cup {Absent})
    BY <1>1, <2>1, <2>2, InsertTyping
  <2>4. adrift' \in SUBSET (Contents \cup {Absent}) /\ Absent \in adrift'
    BY <1>2, <2>1, <2>3
  <2>5. stops' \in 0..MaxStops /\ ~Quiet
    BY <2>2, StopsTyping DEF Quiet
  <2>6. TypeInv'
    BY <2>2, <2>3, <2>4, <2>5, GiveUpTyping
  <2>7. KeysOf(tagged \ kept) \subseteq adrift' /\ KeysOf(kept \cup tagged) \subseteq adrift'
        /\ adrift \subseteq adrift'
    BY <2>1 DEF KeysOf
  <2>8. Spoilt(kept, tagged)
    BY <1>1, <2>1, <2>2, <2>7 DEF Spoilt
  <2> QED BY <2>2, <2>6, <2>7, <2>8
<1> QED BY <1>3, <1>4

\* The steps, as the proofs go through them.
LEMMA Steps ==
    ASSUME Next
    PROVE  \/ User \/ (\E files \in SUBSET Paths : Start(files))
           \/ Stat \/ Plan \/ NextBatch \/ AllBatchesDone \/ Compute \/ UpdateDone \/ Finish
           \/ (\E i : AddTag(i)) \/ (\E i : RemoveTag(i)) \/ (\E i : Delete(i)) \/ Untag
           \/ (\E i : MarkCatalog(i)) \/ (\E i : MarkCache(i)) \/ (\E i : Touch(i))
           \/ Abort \/ UpdateError \/ MarkError \/ Crash
           \/ InsertRejected \/ TransactionRejected
<1>1. Paths \in SUBSET Paths /\ \A p \in Paths : {p} \in SUBSET Paths
  OBVIOUS
<1>2. (StartDirs \/ \E p \in Paths : StartFile(p)) => \E files \in SUBSET Paths : Start(files)
  BY <1>1 DEF StartDirs, StartFile
<1> QED BY <1>2 DEF Next, Refresh

LEMMA InitTyping ==
    ASSUME Init
    PROVE  TypeInv
<1>1. catalog \in Rows
  BY FS_EmptySet DEF Init, Rows
<1>2. disk \in Disks
  BY ContentAssumption DEF Init, Disks, Fits
<1>3. run \in Runs /\ todo \in Plans /\ batch \in Plans /\ marking \in Markings
  BY PlanFacts DEF Init
<1> QED BY <1>1, <1>2, <1>3, ContentAssumption DEF Init, TypeInv, Quiet, Marking, Places

LEMMA StepTypingInv ==
    ASSUME TypeInv, [Next]_vars
    PROVE  TypeInv'
<1>1. CASE Next
  BY <1>1, Steps, UserTyping, StartTyping, StatTyping, PlanStepTyping, NextBatchTyping,
     AllBatchesDoneTyping, ComputeTyping, UpdateDoneTyping, FinishTyping, AddTagTyping,
     RemoveTagTyping, DeleteTyping, UntagTyping, MarkCatalogTyping, MarkCacheTyping, TouchTyping,
     StopTyping, RejectedTyping
<1>2. CASE UNCHANGED vars
  BY <1>2 DEF vars, disks, tables, work, faults, TypeInv, Quiet, Marking
<1> QED BY <1>1, <1>2

\* The tables, the plan and what is left of it keep their types, whatever fails.
THEOREM IndexTyping ==
    Spec => []TypeOK
<1>1. Init => TypeInv
  BY InitTyping
<1>2. TypeInv /\ [Next]_vars => TypeInv'
  BY StepTypingInv
<1>3. TypeInv => TypeOK
  BY TypeInvIsTypeOK
<1> QED BY <1>1, <1>2, <1>3, PTL DEF Spec

-----------------------------------------------------------------------------
(* The catalog and the cache                                               *)

\* No two files have a content in common.
Distinct == \A p, q \in Paths : p # q => ContentsOf[p] \cap ContentsOf[q] = {}

InCatalog(k, t) == \E row \in catalog : row.key = k /\ row.tag = t
InCache(k, t) == [key |-> k, tag |-> t] \in cache
RowOf(row, i) == row.tag = run.tag /\ row.path = i.path /\ row.key = i.key
NewRow(i) == [tag |-> run.tag, path |-> i.path, key |-> i.key, time |-> run.time]
Recorded(i) == \E row \in catalog : RowOf(row, i)

\* The items the run is to remove.
Leaving == batch["removeTag"] \cup batch["del"] \cup todo["removeTag"] \cup todo["del"]
           \cup IF Adding(marking.op) THEN {} ELSE marking.items

\* The items whose row of the cache has not followed that of the catalog yet.
Behind == IF pc = "catalog" THEN marking.items \ unmarked
          ELSE IF pc = "cache" THEN unmarked ELSE {}

\* A row is determined by tag, path and key.
RowsInv == \A r, s \in catalog : r.tag = s.tag /\ r.path = s.path /\ r.key = s.key => r = s

\* What is to be touched is recorded, and stays so.
TouchInv == \A i \in touched : Recorded(i) /\ i \notin Leaving

\* The contents on which no failure ever fell.
Intact == Contents \ adrift

\* The cache follows the catalog, and the catalog the operation.
MirrorInv ==
    \A k \in Intact, t \in Branches :
        IF t = run.tag /\ \E i \in Behind : i.key = k
        THEN InCatalog(k, t) <=> Adding(marking.op)
        ELSE InCache(k, t) <=> InCatalog(k, t)

AgreeInv == RowsInv /\ TouchInv /\ MirrorInv

LEMMA ContentsArePresent ==
    Absent \notin Contents /\ \A p \in Paths : ContentsOf[p] \subseteq Contents
BY ContentAssumption DEF Contents

\* A content belongs to one path.
LEMMA KeyTellsPath ==
    ASSUME Distinct, NEW i, NEW j, i.path \in Paths, j.path \in Paths, Fits(i), Fits(j),
           i.key = j.key, i.key # Absent
    PROVE  i.path = j.path
BY DEF Distinct, Fits

LEMMA ItemsEqual ==
    ASSUME NEW i \in Item, NEW j \in Item, i.path = j.path, i.key = j.key
    PROVE  i = j
BY DEF Item

LEMMA RowFacts ==
    ASSUME TypeInv, NEW row \in catalog
    PROVE  /\ row \in Row /\ Fits(row) /\ row.path \in Paths /\ row.tag \in Branches
           /\ row.key \in Contents \cup {Absent}
BY DEF TypeInv, Rows, Row

LEMMA FittingFacts ==
    ASSUME NEW i \in Fitting
    PROVE  i \in Item /\ Fits(i) /\ i.path \in Paths /\ i.key \in Contents \cup {Absent}
BY DEF Fitting, Item

LEMMA FewerIntact ==
    ASSUME adrift \subseteq adrift'
    PROVE  Intact' \subseteq Intact
BY DEF Intact

\* The run removes and adds nothing new, and no list is left with markComplete:
\* what was is adrift.
Rest == /\ UNCHANGED <<catalog, cache>> /\ ~Marking'
        /\ adrift \subseteq adrift' /\ (Marking => KeysOf(marking.items) \subseteq adrift')
        /\ \/ touched' = {}
           \/ /\ run'.tag = run.tag /\ touched' \subseteq touched
              /\ Leaving' \subseteq Leaving

LEMMA RestAgrees ==
    ASSUME TypeInv, AgreeInv, Rest
    PROVE  AgreeInv'
<1>1. RowsInv'
  BY DEF AgreeInv, RowsInv, Rest
<1>2. TouchInv'
  BY DEF AgreeInv, TouchInv, Rest, Recorded, RowOf
<1>3. MirrorInv'
  <2>1. Behind' = {} /\ Intact' \subseteq Intact
    BY FewerIntact DEF Rest, Marking, Behind
  <2>2. ASSUME NEW k \in Intact', NEW t \in Branches
        PROVE  InCache(k, t) <=> InCatalog(k, t)
    <3>1. ~\E i \in Behind : i.key = k
      <4> SUFFICES ASSUME NEW i \in Behind, i.key = k PROVE FALSE
        OBVIOUS
      <4>1. Marking /\ i \in marking.items
        BY DEF Behind, Marking, TypeInv
      <4>2. k \in adrift'
        BY <4>1 DEF Rest, KeysOf
      <4> QED BY <4>2 DEF Intact
    <3> QED BY <2>1, <3>1 DEF AgreeInv, MirrorInv
  <2> QED BY <2>1, <2>2 DEF MirrorInv, Rest, InCache, InCatalog
<1> QED BY <1>1, <1>2, <1>3 DEF AgreeInv

LEMMA Rests ==
    ASSUME TypeInv,
           \/ \E files \in SUBSET Paths : Start(files)
           \/ Stat \/ NextBatch \/ AllBatchesDone \/ UpdateDone \/ Finish \/ Abort
    PROVE  Rest /\ ~Marking /\ UNCHANGED <<chunks, chunkTags, adrift>>
<1>1. CASE \E files \in SUBSET Paths : Start(files)
  BY <1>1 DEF Start, Rest, Marking, TypeInv, Quiet, tables, work, faults
<1>2. CASE Stat
  BY <1>2 DEF Stat, Rest, Marking, TypeInv, Quiet, tables, work, faults
<1>3. CASE NextBatch
  <2>1. \A op \in Ops : batch'[op] \subseteq todo[op] /\ todo'[op] = todo[op] \ batch'[op]
    BY <1>3, NextBatchTyping
  <2>2. Leaving' \subseteq Leaving
    BY <1>3, <2>1, PlanFacts DEF Leaving, NextBatch
  <2> QED BY <1>3, <2>2 DEF NextBatch, Rest, Marking, tables, faults
<1>4. CASE AllBatchesDone
  BY <1>4 DEF AllBatchesDone, Rest, Marking, tables, work, Leaving, faults
<1>5. CASE UpdateDone
  BY <1>5 DEF UpdateDone, Rest, Marking, tables, Leaving, Adding, NoMarking, faults
<1>6. CASE Finish
  BY <1>6 DEF Finish, Idle, Rest, Marking, tables, faults
<1>7. CASE Abort
  BY <1>7 DEF Abort, Idle, Rest, Marking, tables
<1> QED BY <1>1, <1>2, <1>3, <1>4, <1>5, <1>6, <1>7

\* A run that gives up, or ends, forgets what it was to do.
LEMMA GaveUp ==
    ASSUME TypeInv, GiveUp \/ Idle
    PROVE  /\ ~Marking' /\ batch' = NoPlan /\ marking' = NoMarking /\ unmarked' = {}
           /\ \/ /\ pc' = "batch" /\ run' = run /\ todo' = todo /\ touched' = touched
                 /\ Leaving' \subseteq Leaving
              \/ /\ pc' = "idle" /\ run' = NoRun /\ todo' = NoPlan /\ touched' = {}
<1>1. CASE Idle
  BY <1>1 DEF Idle, Marking
<1>2. CASE GiveUp /\ ~FullRun
  BY <1>1, <1>2 DEF GiveUp
<1>3. CASE GiveUp /\ FullRun
  <2>1. run' = run /\ todo' = todo /\ touched' = touched /\ batch' = NoPlan
        /\ marking' = NoMarking /\ pc' = "batch" /\ unmarked' = {}
    BY <1>3 DEF GiveUp
  <2>2. Leaving' \subseteq Leaving
    BY <2>1, PlanFacts DEF Leaving, Adding, NoMarking
  <2> QED BY <2>1, <2>2 DEF Marking
<1> QED BY <1>1, <1>2, <1>3

LEMMA FailuresRest ==
    ASSUME TypeInv, UpdateError \/ MarkError \/ Crash \/ TransactionRejected
    PROVE  Rest /\ (GiveUp \/ Idle)
<1>1. GiveUp \/ Idle
  BY DEF UpdateError, MarkError, Crash, TransactionRejected
<1>2. UNCHANGED <<catalog, cache>>
  BY DEF UpdateError, MarkError, Crash, TransactionRejected, GiveUp, tables
<1>3. adrift \subseteq adrift'
  BY DEF UpdateError, MarkError, Crash, TransactionRejected
<1>4. Marking => KeysOf(marking.items) \subseteq adrift'
  BY DEF UpdateError, MarkError, Crash, TransactionRejected, Interrupted, Marking
<1> QED BY <1>1, <1>2, <1>3, <1>4, GaveUp DEF Rest

\* Items of the batch are handed to markComplete.
HandsOver(op, items) ==
    /\ pc = "update" /\ op \in Ops /\ items \subseteq batch[op]
    /\ pc' = "catalog" \/ (pc' = "untag" /\ op = "del")
    /\ UNCHANGED <<disk, branch, clock, catalog, cache, run, todo, touched>>
    /\ adrift \subseteq adrift'
    /\ marking' = [op |-> op, items |-> items] /\ unmarked' = items
    /\ \A other \in Ops : batch'[other] = IF other = op THEN batch[op] \ items ELSE batch[other]

LEMMA HandsItemsOver ==
    ASSUME TypeInv, NEW op \in Ops, NEW items \in SUBSET batch[op],
           HandOver(op, items, pc'), pc = "update",
           pc' = "catalog" \/ (pc' = "untag" /\ op = "del"),
           UNCHANGED catalog, adrift \subseteq adrift'
    PROVE  HandsOver(op, items)
<1>1. batch' = [batch EXCEPT ![op] = @ \ items] /\ batch \in Plans
  BY DEF HandOver, TypeInv
<1>2. \A other \in Ops : batch'[other] = IF other = op THEN batch[op] \ items ELSE batch[other]
  BY <1>1 DEF Plans
<1> QED BY <1>2 DEF HandsOver, HandOver, disks

LEMMA MarkHandsOver ==
    ASSUME TypeInv, NEW op \in Ops, NEW items \in SUBSET batch[op], Mark(op, items), pc = "update"
    PROVE  HandsOver(op, items) /\ pc' = "catalog" /\ UNCHANGED <<stops, adrift, fresh>>
<1>1. HandOver(op, items, "catalog") /\ UNCHANGED <<stops, adrift, fresh>>
  BY DEF Mark, faults
<1>2. pc' = "catalog" /\ UNCHANGED catalog /\ adrift \subseteq adrift'
      /\ HandOver(op, items, pc')
  BY <1>1 DEF HandOver
<1>3. HandsOver(op, items)
  BY <1>1, <1>2, HandsItemsOver
<1> QED BY <1>1, <1>2, <1>3

LEMMA Updates ==
    ASSUME TypeInv
    PROVE  /\ Compute => HandsOver("compute", batch["compute"]) /\ pc' = "catalog"
                         /\ UNCHANGED <<stops, adrift, fresh>>
           /\ \A i : AddTag(i) => HandsOver("addTag", {i}) /\ pc' = "catalog"
                                  /\ UNCHANGED <<stops, adrift, fresh>>
           /\ \A i : RemoveTag(i) => HandsOver("removeTag", {i}) /\ pc' = "catalog"
                                     /\ UNCHANGED <<stops, adrift, fresh>>
           /\ \A i : Delete(i) => HandsOver("del", {i}) /\ UNCHANGED <<stops, adrift, fresh>>
<1>1. Compute => HandsOver("compute", batch["compute"]) /\ pc' = "catalog"
                 /\ UNCHANGED <<stops, adrift, fresh>>
  <2> SUFFICES ASSUME Compute
               PROVE  HandsOver("compute", batch["compute"]) /\ pc' = "catalog"
                      /\ UNCHANGED <<stops, adrift, fresh>>
    OBVIOUS
  <2>1. Mark("compute", batch["compute"]) /\ pc = "update"
    BY DEF Compute
  <2>2. batch["compute"] \in SUBSET batch["compute"]
    OBVIOUS
  <2> QED BY <2>1, <2>2, PlanFacts, MarkHandsOver
<1>2. ASSUME NEW i, AddTag(i)
      PROVE  HandsOver("addTag", {i}) /\ pc' = "catalog" /\ UNCHANGED <<stops, adrift, fresh>>
  BY <1>2, PlanFacts, MarkHandsOver DEF AddTag
<1>3. ASSUME NEW i, RemoveTag(i)
      PROVE  HandsOver("removeTag", {i}) /\ pc' = "catalog" /\ UNCHANGED <<stops, adrift, fresh>>
  BY <1>3, PlanFacts, MarkHandsOver DEF RemoveTag
<1>4. ASSUME NEW i, Delete(i)
      PROVE  HandsOver("del", {i}) /\ UNCHANGED <<stops, adrift, fresh>>
  <2>1. /\ i \in batch["del"] /\ pc' \in {"untag", "catalog"} /\ HandOver("del", {i}, pc')
        /\ UNCHANGED <<stops, adrift, fresh>>
    BY <1>4, DeleteTyping
  <2>2. pc = "update" /\ UNCHANGED catalog
    BY <1>4, <2>1 DEF Delete, HandOver
  <2> QED BY <2>1, <2>2, PlanFacts, HandsItemsOver
<1> QED BY <1>1, <1>2, <1>3, <1>4

\* So does an insertion that was rejected in part.
LEMMA InsertRejectedHandsOver ==
    ASSUME TypeInv, InsertRejected
    PROVE  HandsOver("compute", batch["compute"]) /\ pc' = "catalog"
<1>1. /\ pc = "update" /\ HandOver("compute", batch["compute"], "catalog")
      /\ adrift \subseteq adrift'
  BY DEF InsertRejected
<1>2. UNCHANGED catalog /\ pc' = "catalog" /\ HandOver("compute", batch["compute"], pc')
  BY <1>1 DEF HandOver
<1>3. batch["compute"] \in SUBSET batch["compute"] /\ "compute" \in Ops
  BY PlanFacts
<1>4. HandsOver("compute", batch["compute"])
  BY <1>1, <1>2, <1>3, HandsItemsOver
<1> QED BY <1>2, <1>4

LEMMA HandOverAgrees ==
    ASSUME AgreeInv, NEW op, NEW items, HandsOver(op, items)
    PROVE  AgreeInv'
<1>1. /\ UNCHANGED <<catalog, cache, todo, run, touched>> /\ pc = "update"
      /\ pc' \in {"untag", "catalog"} /\ Intact' \subseteq Intact
      /\ marking' = [op |-> op, items |-> items] /\ unmarked' = items
  BY FewerIntact DEF HandsOver
<1>2. Behind = {} /\ Behind' = {}
  BY <1>1 DEF Behind
<1>3. MirrorInv'
  <2>1. \A k \in Intact, t \in Branches : InCache(k, t) <=> InCatalog(k, t)
    BY <1>2 DEF AgreeInv, MirrorInv
  <2> QED BY <1>1, <1>2, <2>1 DEF MirrorInv, InCache, InCatalog
<1>4. Leaving' \subseteq Leaving
  BY <1>1, PlanFacts DEF HandsOver, Leaving, Adding
<1>5. TouchInv'
  BY <1>1, <1>4 DEF AgreeInv, TouchInv, Recorded, RowOf
<1> QED BY <1>1, <1>3, <1>5 DEF AgreeInv, RowsInv

LEMMA UntagAgrees ==
    ASSUME TypeInv, AgreeInv, Untag
    PROVE  AgreeInv'
<1>1. /\ UNCHANGED <<catalog, cache, todo, batch, run, touched, marking, unmarked, adrift>>
      /\ pc = "untag" /\ pc' = "catalog" /\ unmarked = marking.items
  BY DEF Untag, faults, TypeInv
<1>2. Behind = {} /\ Behind' = {}
  BY <1>1 DEF Behind
<1> QED BY <1>1, <1>2 DEF AgreeInv, RowsInv, TouchInv, MirrorInv, Recorded, RowOf, Leaving,
                          InCatalog, InCache, Intact

LEMMA PlanAgrees ==
    ASSUME TypeInv, AgreeInv, Plan
    PROVE  AgreeInv'
<1>1. UNCHANGED <<catalog, cache, batch, marking, adrift>> /\ pc = "plan" /\ pc' = "batch"
      /\ run'.tag = run.tag
  BY DEF Plan, tables, TypeInv, Runs, faults
<1>2. batch = NoPlan /\ marking = NoMarking
  BY <1>1 DEF TypeInv, Quiet
<1>3. Behind = {} /\ Behind' = {}
  BY <1>1 DEF Behind
<1>4. MirrorInv'
  <2>1. \A k \in Intact, t \in Branches : InCache(k, t) <=> InCatalog(k, t)
    BY <1>3 DEF AgreeInv, MirrorInv
  <2> QED BY <1>1, <1>3, <2>1 DEF MirrorInv, InCache, InCatalog, Intact
<1>5. Leaving' \subseteq ToRemove(run.tag, run.stats)
  <2>1. todo' = [op \in Ops |-> OnlyFiles(PlanOf(run.tag, run.stats)[op])]
    BY DEF Plan
  <2>2. \A op \in {"removeTag", "del"} : todo'[op] \subseteq ToRemove(run.tag, run.stats)
    BY <2>1 DEF OnlyFiles, PlanOf, Ops
  <2> QED BY <1>1, <1>2, <2>2, PlanFacts DEF Leaving, Adding, NoMarking
<1>6. TouchInv'
  <2> SUFFICES ASSUME NEW i \in touched' PROVE Recorded(i)' /\ i \notin Leaving'
    BY DEF TouchInv
  <2> DEFINE last == Latest(run.tag, i.path)
  <2>1. i \in ToTouch(run.tag, run.stats)
    BY DEF Plan
  <2>2. /\ i.path \in Modified(run.tag, run.stats) \ Changed(run.tag, run.stats)
        /\ i.key = last.key /\ last \in Versions(run.tag, i.path)
    <3>1. DOMAIN run.stats \subseteq Paths /\ disk \in Disks /\ catalog \in Rows
      BY StatsDomain DEF TypeInv
    <3> QED BY <2>1, <3>1, PlanItems
  <2>3. last \in catalog /\ last.tag = run.tag /\ last.path = i.path
    BY <2>2 DEF Versions
  <2>4. Recorded(i)'
    BY <1>1, <2>2, <2>3 DEF Recorded, RowOf
  <2>5. i \notin ToRemove(run.tag, run.stats)
    <3> SUFFICES ASSUME i \in ToRemove(run.tag, run.stats) PROVE FALSE
      OBVIOUS
    <3>1. i.path \in DOMAIN run.stats
      BY <2>2 DEF Modified
    <3>2. CASE \E p \in (Saved(run.tag) \ DOMAIN run.stats) \cup Changed(run.tag, run.stats) :
                  i \in ItemsOf(Versions(run.tag, p))
      <4>1. PICK p \in (Saved(run.tag) \ DOMAIN run.stats) \cup Changed(run.tag, run.stats) :
                  i \in ItemsOf(Versions(run.tag, p))
        BY <3>2
      <4>2. i.path = p
        BY <4>1 DEF ItemsOf, Versions
      <4> QED BY <2>2, <3>1, <4>1, <4>2
    <3>3. CASE \E p \in Modified(run.tag, run.stats) :
                  i \in ItemsOf(Versions(run.tag, p) \ {Latest(run.tag, p)})
      <4>1. PICK p : i \in ItemsOf(Versions(run.tag, p) \ {Latest(run.tag, p)})
        BY <3>3
      <4>2. PICK row \in Versions(run.tag, p) \ {Latest(run.tag, p)} :
                  i = [path |-> row.path, key |-> row.key]
        BY <4>1 DEF ItemsOf
      <4>3. row \in catalog /\ row.tag = run.tag /\ row.path = p /\ i.path = p /\ i.key = row.key
        BY <4>2 DEF Versions
      <4>4. row = last
        BY <2>2, <2>3, <4>3 DEF AgreeInv, RowsInv
      <4> QED BY <4>2, <4>3, <4>4
    <3> QED BY <3>2, <3>3 DEF ToRemove
  <2> QED BY <1>5, <2>4, <2>5
<1> QED BY <1>1, <1>4, <1>6 DEF AgreeInv, RowsInv

\* What MarkCatalog makes of the rows.
LEMMA MarkedCatalog ==
    ASSUME TypeInv, NEW i, MarkCatalog(i)
    PROVE  /\ pc = "catalog" /\ UNCHANGED <<run, marking, cache, touched, todo, batch, adrift>>
           /\ pc' \in {"catalog", "cache"}
           /\ i \in unmarked /\ i \in marking.items /\ i \in Fitting
           /\ Behind' = Behind \cup {i}
           /\ \A row \in catalog' : \/ row \in catalog /\ ~RowOf(row, i)
                                    \/ Adding(marking.op) /\ row = NewRow(i)
           /\ \A row \in catalog : row \in catalog' \/ RowOf(row, i)
           /\ Adding(marking.op) => NewRow(i) \in catalog'
           /\ RowOf(NewRow(i), i)
<1> DEFINE same == {row \in Versions(run.tag, i.path) : row.key = i.key}
<1>1. /\ pc = "catalog" /\ UNCHANGED <<run, marking, cache, touched, todo, batch, adrift>>
      /\ Step(i, "cache", marking.items)
      /\ catalog' = (catalog \ same) \cup (IF Adding(marking.op) THEN {NewRow(i)} ELSE {})
  BY DEF MarkCatalog, NewRow, faults
<1>2. i \in unmarked /\ i \in marking.items /\ i \in Fitting
  BY MarkCatalogTyping
<1>3. IF unmarked = {i} THEN pc' = "cache" /\ unmarked' = marking.items
      ELSE pc' = "catalog" /\ unmarked' = unmarked \ {i}
  BY <1>1 DEF Step
<1>4. Behind' = Behind \cup {i}
  <2>1. unmarked \subseteq marking.items
    BY DEF TypeInv
  <2> QED BY <1>1, <1>2, <1>3, <2>1 DEF Behind
<1>5. \A row \in catalog : row \in same <=> RowOf(row, i)
  BY DEF Versions, RowOf
<1>6. RowOf(NewRow(i), i)
  BY DEF RowOf, NewRow
<1> HIDE DEF same
<1>7. /\ \A row \in catalog' : \/ row \in catalog /\ ~RowOf(row, i)
                               \/ Adding(marking.op) /\ row = NewRow(i)
      /\ \A row \in catalog : row \in catalog' \/ RowOf(row, i)
      /\ Adding(marking.op) => NewRow(i) \in catalog'
  <2>1. catalog' = (catalog \ same) \cup (IF Adding(marking.op) THEN {NewRow(i)} ELSE {})
    BY <1>1
  <2>2. CASE Adding(marking.op)
    <3>1. catalog' = (catalog \ same) \cup {NewRow(i)}
      BY <2>1, <2>2
    <3> QED BY ONLY <1>5, <2>2, <3>1
  <2>3. CASE ~Adding(marking.op)
    <3>1. catalog' = catalog \ same
      BY <2>1, <2>3
    <3> QED BY ONLY <1>5, <2>3, <3>1
  <2> QED BY <2>2, <2>3
<1> QED BY <1>1, <1>2, <1>3, <1>4, <1>6, <1>7

LEMMA MarkCatalogAgrees ==
    ASSUME Distinct, TypeInv, AgreeInv, NEW i, MarkCatalog(i)
    PROVE  AgreeInv'
<1>1. /\ pc = "catalog" /\ UNCHANGED <<run, marking, cache, touched, todo, batch, adrift>>
      /\ pc' \in {"catalog", "cache"}
      /\ i \in unmarked /\ i \in marking.items /\ i \in Fitting
      /\ Behind' = Behind \cup {i}
  BY MarkedCatalog
<1>2. /\ \A row \in catalog' : \/ row \in catalog /\ ~RowOf(row, i)
                               \/ Adding(marking.op) /\ row = NewRow(i)
      /\ \A row \in catalog : row \in catalog' \/ RowOf(row, i)
      /\ Adding(marking.op) => NewRow(i) \in catalog'
      /\ RowOf(NewRow(i), i)
  BY MarkedCatalog
<1>3. RowsInv'
  BY <1>2 DEF AgreeInv, RowsInv, RowOf
<1>4. TouchInv'
  <2> SUFFICES ASSUME NEW j \in touched PROVE Recorded(j)' /\ j \notin Leaving'
    BY <1>1 DEF TouchInv
  <2>1. PICK row \in catalog : RowOf(row, j)
    BY DEF AgreeInv, TouchInv, Recorded
  <2>2. j \notin Leaving /\ Leaving' = Leaving
    BY <1>1 DEF AgreeInv, TouchInv, Leaving
  <2>3. CASE row \in catalog'
    BY <1>1, <2>1, <2>2, <2>3 DEF Recorded, RowOf
  <2>4. CASE row \notin catalog'
    <3>1. RowOf(row, i)
      BY <1>2, <2>4
    <3>2. i = j
      <4>1. i \in Item /\ j \in Item
        BY <1>1, FittingFacts DEF TypeInv
      <4>2. i.path = j.path /\ i.key = j.key
        BY <2>1, <3>1 DEF RowOf
      <4> QED BY <4>1, <4>2, ItemsEqual
    <3>3. Adding(marking.op)
      BY <1>1, <2>2, <3>2 DEF Leaving
    <3>4. NewRow(i) \in catalog' /\ RowOf(NewRow(i), j)
      BY <1>2, <3>2, <3>3
    <3> QED BY <1>1, <2>2, <3>4 DEF Recorded, RowOf
  <2> QED BY <2>3, <2>4
<1>5. MirrorInv'
  <2> SUFFICES ASSUME NEW k \in Intact, NEW t \in Branches
               PROVE  IF t = run'.tag /\ \E j \in Behind' : j.key = k
                      THEN InCatalog(k, t)' <=> Adding(marking'.op)
                      ELSE InCache(k, t)' <=> InCatalog(k, t)'
    BY <1>1 DEF MirrorInv, Intact
  <2>1. InCache(k, t)' <=> InCache(k, t)
    BY <1>1 DEF InCache
  <2>2. CASE t = run.tag /\ k = i.key
    <3>1. InCatalog(k, t)' <=> Adding(marking.op)
      <4>1. Adding(marking.op) => InCatalog(k, t)'
        BY <1>2, <2>2 DEF InCatalog, RowOf
      <4>2. ASSUME ~Adding(marking.op), InCatalog(k, t)' PROVE FALSE
        <5>1. PICK row \in catalog' : row.key = k /\ row.tag = t
          BY <4>2 DEF InCatalog
        <5>2. row \in catalog /\ ~RowOf(row, i)
          BY <1>2, <4>2, <5>1
        <5>3. row.path = i.path
          BY <1>1, <2>2, <5>1, <5>2, RowFacts, FittingFacts, KeyTellsPath, ContentsArePresent
          DEF Intact
        <5> QED BY <2>2, <5>1, <5>2, <5>3 DEF RowOf
      <4> QED BY <4>1, <4>2
    <3> QED BY <1>1, <2>2, <3>1
  <2>3. CASE ~(t = run.tag /\ k = i.key)
    <3>1. InCatalog(k, t)' <=> InCatalog(k, t)
      BY <1>2, <2>3 DEF InCatalog, RowOf
    <3>2. (t = run'.tag /\ \E j \in Behind' : j.key = k)
             <=> (t = run.tag /\ \E j \in Behind : j.key = k)
      BY <1>1, <2>3
    <3>3. IF t = run.tag /\ \E j \in Behind : j.key = k
          THEN InCatalog(k, t) <=> Adding(marking.op)
          ELSE InCache(k, t) <=> InCatalog(k, t)
      BY DEF AgreeInv, MirrorInv
    <3> QED BY <1>1, <2>1, <3>1, <3>2, <3>3
  <2> QED BY <2>2, <2>3
<1> QED BY <1>3, <1>4, <1>5 DEF AgreeInv

LEMMA MarkedCache ==
    ASSUME TypeInv, NEW i, MarkCache(i)
    PROVE  /\ pc = "cache" /\ UNCHANGED <<run, marking, catalog, touched, todo, batch, adrift>>
           /\ pc' \in {"cache", "update"}
           /\ i \in unmarked /\ i \in marking.items /\ i \in Fitting
           /\ Behind = unmarked /\ Behind' = unmarked \ {i}
           /\ unmarked' = unmarked \ {i} /\ (pc' = "update" => unmarked' = {})
           /\ \A k, t : InCache(k, t)' <=> IF k = i.key /\ t = run.tag THEN Adding(marking.op)
                                         ELSE InCache(k, t)
<1>1. /\ pc = "cache" /\ UNCHANGED <<run, marking, catalog, touched, todo, batch, adrift>>
      /\ Step(i, "update", {})
  BY DEF MarkCache, faults
<1>2. i \in unmarked /\ i \in marking.items /\ i \in Fitting
  BY MarkCacheTyping
<1>3. IF unmarked = {i} THEN pc' = "update" /\ unmarked' = {}
      ELSE pc' = "cache" /\ unmarked' = unmarked \ {i}
  BY <1>1 DEF Step
<1>4. Behind = unmarked /\ Behind' = unmarked \ {i}
  BY <1>1, <1>3 DEF Behind
<1>5. ASSUME NEW k, NEW t
      PROVE  InCache(k, t)' <=> IF k = i.key /\ t = run.tag THEN Adding(marking.op)
                                ELSE InCache(k, t)
  <2>1. cache' = IF Adding(marking.op) THEN cache \cup {[key |-> i.key, tag |-> run.tag]}
                 ELSE cache \ {[key |-> i.key, tag |-> run.tag]}
    BY DEF MarkCache
  <2>2. ([key |-> k, tag |-> t] = [key |-> i.key, tag |-> run.tag]) <=> k = i.key /\ t = run.tag
    OBVIOUS
  <2> QED BY <2>1, <2>2 DEF InCache
<1> QED BY <1>1, <1>2, <1>3, <1>4, <1>5

LEMMA MarkCacheAgrees ==
    ASSUME TypeInv, AgreeInv, NEW i, MarkCache(i)
    PROVE  AgreeInv'
<1>1. /\ UNCHANGED <<run, marking, catalog, touched, todo, batch, adrift>>
      /\ Behind = unmarked /\ Behind' = unmarked \ {i} /\ i \in unmarked
      /\ \A k, t : InCache(k, t)' <=> IF k = i.key /\ t = run.tag THEN Adding(marking.op)
                                    ELSE InCache(k, t)
  BY MarkedCache
<1>2. RowsInv' /\ TouchInv'
  BY <1>1 DEF AgreeInv, RowsInv, TouchInv, Recorded, RowOf, Leaving
<1>3. MirrorInv'
  <2> SUFFICES ASSUME NEW k \in Intact, NEW t \in Branches
               PROVE  IF t = run'.tag /\ \E j \in Behind' : j.key = k
                      THEN InCatalog(k, t)' <=> Adding(marking'.op)
                      ELSE InCache(k, t)' <=> InCatalog(k, t)'
    BY <1>1 DEF MirrorInv, Intact
  <2>1. InCatalog(k, t)' <=> InCatalog(k, t)
    BY <1>1 DEF InCatalog
  <2>2. IF t = run.tag /\ \E j \in Behind : j.key = k
        THEN InCatalog(k, t) <=> Adding(marking.op)
        ELSE InCache(k, t) <=> InCatalog(k, t)
    BY DEF AgreeInv, MirrorInv
  <2>3. InCache(k, t)' <=> IF k = i.key /\ t = run.tag THEN Adding(marking.op) ELSE InCache(k, t)
    BY <1>1
  <2> QED BY <1>1, <2>1, <2>2, <2>3
<1> QED BY <1>2, <1>3 DEF AgreeInv

\* Touch replaces the one row of a path, or nothing.
LEMMA TouchedCatalog ==
    ASSUME TypeInv, AgreeInv, NEW i, Touch(i)
    PROVE  /\ pc = "touch" /\ pc' = pc
           /\ UNCHANGED <<run, marking, unmarked, cache, chunks, chunkTags, todo, batch, adrift>>
           /\ i \in touched /\ i \in Fitting /\ touched' \subseteq touched \ {i}
           /\ \/ catalog' = catalog
              \/ \E old \in catalog :
                    /\ RowOf(old, i) /\ RowOf(NewRow(i), i)
                    /\ \A row \in catalog : row.tag = run.tag /\ row.path = i.path => row = old
                    /\ catalog' = (catalog \ {old}) \cup {NewRow(i)}
<1> DEFINE rows == Versions(run.tag, i.path)
<1>1. /\ pc = "touch" /\ pc' = pc
      /\ UNCHANGED <<run, marking, unmarked, cache, chunks, chunkTags, todo, batch, adrift>>
      /\ i \in touched /\ i \in Fitting
  BY TouchTyping DEF Touch, faults
<1>2. PICK old \in catalog : RowOf(old, i)
  BY <1>1 DEF AgreeInv, TouchInv, Recorded
<1>3. CASE Cardinality(rows) > 1
  <2>1. catalog' = catalog /\ touched' = {}
    BY <1>3 DEF Touch
  <2> QED BY <1>1, <2>1
<1>4. CASE ~(Cardinality(rows) > 1)
  <2>1. IsFiniteSet(rows)
    <3>1. rows \in SUBSET catalog
      BY DEF Versions
    <3>2. IsFiniteSet(catalog)
      BY DEF TypeInv, Rows
    <3> QED BY <3>1, <3>2, FS_Subset
  <2>2. old \in rows
    BY <1>2 DEF Versions, RowOf
  <2> HIDE DEF rows
  <2>3. Cardinality(rows) \in Nat /\ Cardinality(rows) # 0
    BY <2>1, <2>2, FS_CardinalityType, FS_EmptySet
  <2>4. Cardinality(rows) = 1
    BY <1>4, <2>3
  <2>5. rows = {old}
    BY <2>1, <2>2, <2>4, FS_Singleton
  <2>6. \A row \in catalog : row.tag = run.tag /\ row.path = i.path => row = old
    BY <2>5 DEF rows, Versions
  <2>7. touched' = touched \ {i} /\ catalog' = (catalog \ rows) \cup {NewRow(i)}
    BY <1>4, <2>2 DEF Touch, rows, NewRow
  <2>8. RowOf(NewRow(i), i)
    BY DEF RowOf, NewRow
  <2> QED BY <1>1, <1>2, <2>5, <2>6, <2>7, <2>8
<1> QED BY <1>3, <1>4

LEMMA TouchAgrees ==
    ASSUME TypeInv, AgreeInv, NEW i, Touch(i)
    PROVE  AgreeInv'
<1>1. /\ pc = "touch" /\ pc' = pc /\ UNCHANGED <<run, marking, cache, todo, batch, adrift>>
      /\ i \in Fitting /\ touched' \subseteq touched \ {i}
  BY TouchedCatalog
<1>2. Leaving' = Leaving /\ Behind = {} /\ Behind' = {}
  BY <1>1 DEF Leaving, Behind
<1>3. CASE catalog' = catalog
  BY <1>1, <1>2, <1>3 DEF AgreeInv, RowsInv, TouchInv, MirrorInv, Recorded, RowOf, InCatalog, InCache,
        Intact
<1>4. CASE catalog' # catalog
  <2>1. PICK old \in catalog :
          /\ RowOf(old, i) /\ RowOf(NewRow(i), i)
          /\ \A row \in catalog : row.tag = run.tag /\ row.path = i.path => row = old
          /\ catalog' = (catalog \ {old}) \cup {NewRow(i)}
    BY <1>4, TouchedCatalog
  <2>2. RowsInv'
    BY <2>1 DEF AgreeInv, RowsInv, RowOf
  <2>3. TouchInv'
    <3> SUFFICES ASSUME NEW j \in touched' PROVE Recorded(j)' /\ j \notin Leaving'
      BY DEF TouchInv
    <3>1. j \in touched /\ j # i
      BY <1>1
    <3>2. PICK row \in catalog : RowOf(row, j)
      BY <3>1 DEF AgreeInv, TouchInv, Recorded
    <3>3. row # old
      <4>1. i \in Item /\ j \in Item
        BY <1>1, <3>1, FittingFacts DEF TypeInv
      <4> QED BY <2>1, <3>1, <3>2, <4>1, ItemsEqual DEF RowOf
    <3>4. Recorded(j)'
      BY <1>1, <2>1, <3>2, <3>3 DEF Recorded, RowOf
    <3> QED BY <1>2, <3>1, <3>4 DEF AgreeInv, TouchInv
  <2>4. MirrorInv'
    <3>1. ASSUME NEW k, NEW t PROVE InCatalog(k, t)' <=> InCatalog(k, t)
      <4>1. old.key = NewRow(i).key /\ old.tag = NewRow(i).tag
        BY <2>1 DEF RowOf
      <4>2. NewRow(i) \in catalog' /\ \A row \in catalog' : row \in catalog \/ row = NewRow(i)
        BY <2>1
      <4>3. \A row \in catalog : row \in catalog' \/ row = old
        BY <2>1
      <4> HIDE DEF NewRow
      <4> QED BY <4>1, <4>2, <4>3 DEF InCatalog
    <3>2. \A k \in Intact, t \in Branches : InCache(k, t) <=> InCatalog(k, t)
      BY <1>2 DEF AgreeInv, MirrorInv
    <3> QED BY <1>1, <1>2, <3>1, <3>2 DEF MirrorInv, InCache, Intact
  <2> QED BY <2>2, <2>3, <2>4 DEF AgreeInv
<1> QED BY <1>3, <1>4

LEMMA AgreeStep ==
    ASSUME Distinct, TypeInv, AgreeInv, [Next]_vars
    PROVE  AgreeInv'
<1>1. CASE Next
  <2>1. CASE User
    BY <2>1 DEF User, Edit, Checkout, Write, tables, work, faults, AgreeInv, RowsInv, TouchInv,
          MirrorInv, Recorded, RowOf, Leaving, Behind, InCatalog, InCache, Intact
  <2>2. CASE \/ \E files \in SUBSET Paths : Start(files)
             \/ Stat \/ NextBatch \/ AllBatchesDone \/ UpdateDone \/ Finish \/ Abort
             \/ UpdateError \/ MarkError \/ Crash \/ TransactionRejected
    BY <2>2, Rests, FailuresRest, RestAgrees
  <2>3. CASE Plan \/ Untag
    BY <2>3, PlanAgrees, UntagAgrees
  <2>4. CASE \/ Compute \/ (\E i : AddTag(i)) \/ (\E i : RemoveTag(i)) \/ (\E i : Delete(i))
             \/ InsertRejected
    BY <2>4, Updates, InsertRejectedHandsOver, HandOverAgrees
  <2>5. CASE (\E i : MarkCatalog(i)) \/ (\E i : MarkCache(i)) \/ (\E i : Touch(i))
    BY <2>5, MarkCatalogAgrees, MarkCacheAgrees, TouchAgrees
  <2> QED BY <1>1, <2>1, <2>2, <2>3, <2>4, <2>5, Steps
<1>2. CASE UNCHANGED vars
  BY <1>2 DEF vars, tables, work, faults, AgreeInv, RowsInv, TouchInv, MirrorInv,
        Recorded, RowOf, Leaving, Behind, InCatalog, InCache, Intact
<1> QED BY <1>1, <1>2

LEMMA AgreeInit ==
    ASSUME Init
    PROVE  AgreeInv
BY DEF Init, AgreeInv, RowsInv, TouchInv, MirrorInv, Behind, InCatalog, InCache

\* Outside of markComplete a content is in the cache for just the tags that
\* catalogue it.
LEMMA CacheIsCatalog ==
    ASSUME TypeInv, AgreeInv, ~Marking
    PROVE  \A k \in Intact, t \in Branches : InCache(k, t) <=> InCatalog(k, t)
BY DEF AgreeInv, MirrorInv, Behind, Marking

LEMMA AgreeIsMirror ==
    ASSUME TypeInv, AgreeInv
    PROVE  CacheMirrorsCatalog
<1> SUFFICES ASSUME ~Marking
             PROVE  {row \in cache : row.key \notin adrift} =
                       {[key |-> row.key, tag |-> row.tag] :
                          row \in {r \in catalog : r.key \notin adrift}}
  BY DEF CacheMirrorsCatalog
<1>0. Absent \in adrift
  BY DEF TypeInv
<1>1. ASSUME NEW row \in cache, row.key \notin adrift
      PROVE  \E r \in catalog : r.key \notin adrift /\ row = [key |-> r.key, tag |-> r.tag]
  <2>1. row.key \in Intact /\ row.tag \in Branches /\ row = [key |-> row.key, tag |-> row.tag]
    BY <1>0, <1>1 DEF TypeInv, Intact
  <2>2. InCatalog(row.key, row.tag)
    BY <2>1, CacheIsCatalog DEF InCache
  <2> QED BY <1>1, <2>1, <2>2 DEF InCatalog
<1>2. ASSUME NEW r \in catalog, r.key \notin adrift
      PROVE  [key |-> r.key, tag |-> r.tag] \in cache
  <2>1. r.key \in Intact /\ r.tag \in Branches
    BY <1>0, <1>2, RowFacts DEF Intact
  <2>2. InCache(r.key, r.tag)
    BY <2>1, CacheIsCatalog DEF InCatalog
  <2> QED BY <2>2 DEF InCache
<1> QED BY <1>1, <1>2

\* The global cache says of each content exactly the tags that catalogue it,
\* whatever aborts, errors and crashes do to other contents, and files may
\* change at any moment.
THEOREM CacheIsRight ==
    ASSUME Distinct
    PROVE  Spec => []CacheMirrorsCatalog
<1> DEFINE Inv == TypeInv /\ AgreeInv
<1>1. Init => Inv
  BY InitTyping, AgreeInit
<1>2. Inv /\ [Next]_vars => Inv'
  BY StepTypingInv, AgreeStep
<1>3. Inv => CacheMirrorsCatalog
  BY AgreeIsMirror
<1> QED BY <1>1, <1>2, <1>3, PTL DEF Spec

-----------------------------------------------------------------------------
(* The chunks                                                              *)

\* A document is one chunk.
OnePart == \E n : Parts = {n}
Settings == Distinct /\ OnePart /\ ~RacingEdits

Pending(op) == todo[op] \cup batch[op]
Arriving == IF Marking /\ Adding(marking.op) THEN marking.items ELSE {}
Untagging == IF marking.op = "removeTag" THEN marking.items ELSE {}

\* What is still to be done suits the cache, which the run itself changes: no tag has
\* what is to be computed, another one has what is to lose a tag, and no other one
\* has what is to be deleted.
PlanInv ==
    /\ Pending("compute") \cap (Pending("addTag") \cup Arriving) = {}
    /\ todo["compute"] \cap batch["compute"] = {}
    /\ \A i \in Pending("compute") :
          /\ i.key = disk[i.path].key
          /\ i.key \in Intact => \A t \in Branches : ~InCache(i.key, t)
    /\ \A i \in Pending("removeTag") \cup Untagging :
          i.key \in Intact => \E t \in Branches \ {run.tag} : InCache(i.key, t)
    /\ \A i \in Pending("del") :
          i.key \in Intact => \A t \in Branches : InCache(i.key, t) => t = run.tag

\* The chunks on whose content no failure fell, and their tags.
Sound == {c \in chunks : c.key \in Intact}
Tags == {u \in chunkTags : u.chunk \in Sound}

\* Such a content has at most one chunk, which the cache knows, with each of its
\* tags, or is about to.
ChunkInv ==
    /\ \A c \in chunks : c.key \in ContentsOf[c.path]
    /\ \A c, d \in Sound : c.key = d.key => c = d
    /\ \A c \in Sound : \/ \E i \in Arriving : i.key = c.key
                        \/ \E t \in Branches : InCache(c.key, t)
    /\ \A u \in Tags : \/ u.tag = run.tag /\ \E i \in Arriving : i.key = u.chunk.key
                       \/ InCache(u.chunk.key, u.tag)
    /\ pc = "cache" /\ Adding(marking.op) =>
          \A i \in marking.items \ unmarked : InCache(i.key, run.tag)
    /\ Marking /\ ~Adding(marking.op) =>
          \A u \in Tags, i \in marking.items : u.tag = run.tag => i.key # u.chunk.key
    /\ Marking /\ marking.op = "del" => \A c \in Sound, i \in marking.items : i.key # c.key

\* Between the runs nothing is pending.
LEMMA NothingPlanned ==
    ASSUME todo = NoPlan, batch = NoPlan, marking = NoMarking
    PROVE  PlanInv
<1>1. \A op \in Ops : Pending(op) = {}
  BY PlanFacts DEF Pending
<1>2. Arriving = {} /\ Untagging = {}
  BY DEF Arriving, Untagging, NoMarking
<1>3. todo["compute"] = {}
  BY PlanFacts
<1> QED BY <1>1, <1>2, <1>3, PlanFacts DEF PlanInv

LEMMA QuietIsPlanned ==
    ASSUME TypeInv', Quiet'
    PROVE  PlanInv'
<1>1. todo' = NoPlan /\ batch' = NoPlan /\ marking' = NoMarking
  BY DEF TypeInv, Quiet
<1>2. \A op \in Ops : Pending(op)' = {}
  BY <1>1, PlanFacts DEF Pending
<1>3. Arriving' = {} /\ Untagging' = {}
  BY <1>1 DEF Arriving, Untagging, NoMarking
<1>4. todo'["compute"] = {}
  BY <1>1, PlanFacts
<1> QED BY <1>2, <1>3, <1>4, PlanFacts DEF PlanInv

\* Less is pending, and what the plan looked at is the same.
LEMMA LessIsPlanned ==
    ASSUME PlanInv, UNCHANGED <<disk, cache>>, run'.tag = run.tag, adrift \subseteq adrift',
           \A op \in Ops : Pending(op)' \subseteq Pending(op),
           Arriving' \subseteq Arriving, Untagging' \subseteq Untagging,
           todo'["compute"] \cap batch'["compute"] = {}
    PROVE  PlanInv'
<1>1. /\ Pending("compute")' \subseteq Pending("compute")
      /\ Pending("addTag")' \subseteq Pending("addTag")
      /\ Pending("removeTag")' \subseteq Pending("removeTag")
      /\ Pending("del")' \subseteq Pending("del")
  BY PlanFacts
<1>2. (\A k, t : InCache(k, t)' <=> InCache(k, t)) /\ Intact' \subseteq Intact
  BY FewerIntact DEF InCache
<1> QED BY <1>1, <1>2 DEF PlanInv

\* The end of the run, or less to do.
LEMMA RestPlanned ==
    ASSUME TypeInv, TypeInv', PlanInv,
           \/ \E files \in SUBSET Paths : Start(files)
           \/ Stat \/ NextBatch \/ AllBatchesDone \/ UpdateDone \/ Finish \/ Abort \/ Untag
           \/ UpdateError \/ MarkError \/ Crash \/ TransactionRejected
    PROVE  PlanInv'
<1>1. CASE Quiet'
  BY <1>1, QuietIsPlanned
<1>2. CASE NextBatch
  <2>1. \A op \in Ops : batch'[op] \subseteq todo[op] /\ todo'[op] = todo[op] \ batch'[op]
    BY <1>2, NextBatchTyping
  <2>2. UNCHANGED <<disk, cache, run, marking, adrift>> /\ pc' = "update"
    BY <1>2 DEF NextBatch, disks, tables, faults
  <2>3. \A op \in Ops : Pending(op)' \subseteq Pending(op)
    BY <2>1 DEF Pending
  <2>4. todo'["compute"] \cap batch'["compute"] = {}
    BY <2>1, PlanFacts
  <2>5. Arriving' \subseteq Arriving /\ Untagging' \subseteq Untagging
    BY <2>2 DEF Arriving, Untagging, Marking
  <2> QED BY <2>2, <2>3, <2>4, <2>5, LessIsPlanned
<1>3. CASE AllBatchesDone \/ UpdateDone \/ Untag
  <2>1. UNCHANGED <<disk, cache, run, todo, batch, adrift>>
        /\ (pc' \in {"touch", "batch"} \/ (pc = "untag" /\ pc' = "catalog"))
        /\ (marking' = marking \/ marking' = NoMarking)
    <3>1. CASE AllBatchesDone
      BY <3>1 DEF AllBatchesDone, disks, tables, work, faults
    <3>2. CASE UpdateDone
      BY <3>2 DEF UpdateDone, disks, tables, faults
    <3>3. CASE Untag
      BY <3>3 DEF Untag, disks, faults
    <3> QED BY <1>3, <3>1, <3>2, <3>3
  <2>2. Arriving' \subseteq Arriving /\ Untagging' \subseteq Untagging
    BY <2>1 DEF Arriving, Untagging, Marking, NoMarking
  <2>3. \A op \in Ops : Pending(op)' \subseteq Pending(op)
    BY <2>1 DEF Pending
  <2>4. todo'["compute"] \cap batch'["compute"] = {}
    BY <2>1 DEF PlanInv
  <2> QED BY <2>1, <2>2, <2>3, <2>4, LessIsPlanned
<1>4. CASE (UpdateError \/ MarkError \/ Crash \/ TransactionRejected) /\ ~Quiet'
  <2>1. UNCHANGED <<disk, cache>> /\ adrift \subseteq adrift' /\ (GiveUp \/ Idle)
    <3>1. UNCHANGED disk
      BY <1>4 DEF UpdateError, MarkError, Crash, TransactionRejected, GiveUp, disks
    <3> QED BY <1>4, <3>1, FailuresRest DEF Rest
  <2>2. UNCHANGED <<run, todo>> /\ batch' = NoPlan /\ marking' = NoMarking /\ pc' = "batch"
    BY <1>4, <2>1, GaveUp DEF Quiet
  <2>3. Arriving' \subseteq Arriving /\ Untagging' \subseteq Untagging
    BY <2>2 DEF Arriving, Untagging, Marking, NoMarking
  <2>4. \A op \in Ops : Pending(op)' \subseteq Pending(op)
    BY <2>2, PlanFacts DEF Pending
  <2>5. todo'["compute"] \cap batch'["compute"] = {}
    BY <2>2, PlanFacts
  <2> QED BY <2>1, <2>2, <2>3, <2>4, <2>5, LessIsPlanned
<1>5. CASE \/ \E files \in SUBSET Paths : Start(files)
           \/ Stat \/ Finish \/ Abort
  <2>1. Quiet'
    BY <1>5 DEF Start, Stat, Finish, Abort, Idle, Quiet
  <2> QED BY <1>1, <2>1
<1> QED BY <1>1, <1>2, <1>3, <1>4, <1>5

\* Where no list is left with markComplete and no sound chunk or tag comes, the
\* chunks stay right.
LEMMA LessChunks ==
    ASSUME TypeInv, ChunkInv, Rest, Sound' \subseteq Sound, Tags' \subseteq Tags,
           \A c \in chunks' : c.key \in ContentsOf[c.path]
    PROVE  ChunkInv'
<1>1. ~Marking' /\ Arriving' = {} /\ pc' # "cache" /\ UNCHANGED cache
  BY DEF Arriving, Marking, Rest
<1>2. \A k, t : InCache(k, t)' <=> InCache(k, t)
  BY <1>1 DEF InCache
<1>3. ASSUME NEW c \in Sound', NEW i \in Arriving PROVE i.key # c.key
  <2>1. i.key \in adrift'
    BY DEF Rest, Arriving, KeysOf
  <2> QED BY <2>1 DEF Sound, Intact
<1>4. \A u \in Tags' : u.chunk \in Sound'
  BY DEF Tags
<1> QED BY <1>1, <1>2, <1>3, <1>4 DEF ChunkInv

LEMMA RestChunks ==
    ASSUME TypeInv, ChunkInv, Rest, UNCHANGED <<chunks, chunkTags>>
    PROVE  ChunkInv'
<1>1. Intact' \subseteq Intact
  BY FewerIntact DEF Rest
<1>2. Sound' \subseteq Sound /\ Tags' \subseteq Tags
  BY <1>1 DEF Sound, Tags
<1>3. \A c \in chunks' : c.key \in ContentsOf[c.path]
  BY DEF ChunkInv
<1> QED BY <1>2, <1>3, LessChunks

\* Where nothing of this changes, they do as well.
LEMMA StillChunks ==
    ASSUME ChunkInv, UNCHANGED <<cache, chunks, chunkTags, adrift>>, ~Marking, ~Marking'
    PROVE  ChunkInv'
<1>1. Arriving = {} /\ Arriving' = {} /\ pc' # "cache" /\ Sound' = Sound /\ Tags' = Tags
  BY DEF Arriving, Marking, Sound, Tags, Intact
<1>2. \A k, t : InCache(k, t)' <=> InCache(k, t)
  BY DEF InCache
<1> QED BY <1>1, <1>2 DEF ChunkInv

\* Items of a plan with the same content are the same.
LEMMA SameItem ==
    ASSUME Distinct, NEW i \in Fitting, NEW j \in Fitting, i.key = j.key, i.key \in Contents
    PROVE  i = j
BY FittingFacts, KeyTellsPath, ItemsEqual, ContentsArePresent

LEMMA PlanPlanned ==
    ASSUME TypeInv, AgreeInv, Distinct, Plan
    PROVE  PlanInv'
<1> DEFINE add == ToAdd(run.tag, run.stats)
           remove == ToRemove(run.tag, run.stats)
<1>1. UNCHANGED <<disk, cache, catalog, batch, marking, adrift>> /\ pc = "plan"
      /\ pc' = "batch" /\ run'.tag = run.tag /\ Intact' = Intact
  BY DEF Plan, disks, tables, TypeInv, Runs, faults, Intact
<1>2. batch = NoPlan /\ marking = NoMarking /\ run.tag \in Branches
  BY <1>1 DEF TypeInv, Quiet
<1>3. \A k, t : InCache(k, t)' <=> InCache(k, t)
  BY <1>1 DEF InCache
<1>4. \A k, t : t \in TagsOf(k) <=> InCache(k, t) /\ t \in Branches
  <2>1. \A row \in cache : row = [key |-> row.key, tag |-> row.tag] /\ row.tag \in Branches
    <3>1. cache \in SUBSET [key : Contents \cup {Absent}, tag : Branches]
      BY DEF TypeInv
    <3> QED BY <3>1
  <2> QED BY <2>1 DEF TagsOf, InCache
<1>5. /\ \A i \in add : i \in Fitting /\ i.key = disk[i.path].key
      /\ \A i \in remove : i \in Fitting /\ \E row \in Versions(run.tag, i.path) : row.key = i.key
  <2>1. DOMAIN run.stats \subseteq Paths /\ disk \in Disks /\ catalog \in Rows
    BY StatsDomain DEF TypeInv
  <2> QED BY <2>1, PlanItems
<1> HIDE DEF add, remove
<1>6. /\ todo'["compute"] \subseteq {i \in add : TagsOf(i.key) = {}}
      /\ todo'["addTag"] \subseteq {i \in add : TagsOf(i.key) # {}}
      /\ todo'["removeTag"] \subseteq {i \in remove : Cardinality(TagsOf(i.key)) > 1}
      /\ todo'["del"] \subseteq {i \in remove : Cardinality(TagsOf(i.key)) <= 1}
  <2>1. todo' = [op \in Ops |-> OnlyFiles(PlanOf(run.tag, run.stats)[op])]
    BY DEF Plan
  <2> QED BY <2>1, PlanFacts DEF OnlyFiles, PlanOf, add, remove
<1>7. /\ Pending("compute")' = todo'["compute"] /\ Pending("addTag")' = todo'["addTag"]
      /\ Pending("removeTag")' = todo'["removeTag"] /\ Pending("del")' = todo'["del"]
      /\ Arriving' = {} /\ Untagging' = {} /\ batch'["compute"] = {}
  BY <1>1, <1>2, PlanFacts DEF Pending, Arriving, Untagging, Marking, NoMarking
<1>8. ASSUME NEW i \in remove, i.key \in Intact
      PROVE  /\ run.tag \in TagsOf(i.key) /\ IsFiniteSet(TagsOf(i.key))
             /\ Cardinality(TagsOf(i.key)) \in Nat
  <2>1. PICK row \in catalog : row.tag = run.tag /\ row.key = i.key
    BY <1>5 DEF Versions
  <2>2. ~Marking
    BY <1>1 DEF Marking
  <2>3. InCache(i.key, run.tag)
    BY <1>2, <1>8, <2>1, <2>2, CacheIsCatalog DEF InCatalog
  <2>4. TagsOf(i.key) \in SUBSET Branches
    BY <1>4
  <2> QED BY <1>2, <1>4, <2>3, <2>4, FS_Subset, FS_CardinalityType, ContentAssumption
<1>9. ASSUME NEW i \in todo'["removeTag"], i.key \in Intact
      PROVE  \E t \in Branches \ {run.tag} : InCache(i.key, t)
  <2>1. i \in remove /\ Cardinality(TagsOf(i.key)) > 1
    BY <1>6
  <2>2. TagsOf(i.key) # {run.tag}
    <3>1. Cardinality({run.tag}) = 1
      BY FS_Singleton
    <3> QED BY <2>1, <3>1
  <2>3. PICK t \in TagsOf(i.key) : t # run.tag
    BY <1>8, <1>9, <2>1, <2>2
  <2> QED BY <1>4, <2>3
<1>10. ASSUME NEW i \in todo'["del"], i.key \in Intact, NEW t \in Branches, InCache(i.key, t)
       PROVE  t = run.tag
  <2>1. i \in remove /\ Cardinality(TagsOf(i.key)) <= 1
    BY <1>6
  <2>2. /\ run.tag \in TagsOf(i.key) /\ IsFiniteSet(TagsOf(i.key))
        /\ Cardinality(TagsOf(i.key)) \in Nat
    BY <1>8, <1>10, <2>1
  <2>3. Cardinality(TagsOf(i.key)) = 1
    BY <2>1, <2>2, FS_EmptySet
  <2>4. TagsOf(i.key) = {run.tag}
    BY <2>2, <2>3, FS_Singleton
  <2>5. t \in TagsOf(i.key)
    BY <1>4, <1>10
  <2> QED BY <2>4, <2>5
<1>11. ASSUME NEW i \in todo'["compute"]
       PROVE  /\ i.key = disk[i.path].key /\ i \notin todo'["addTag"]
              /\ \A t \in Branches : ~InCache(i.key, t)
  BY <1>4, <1>5, <1>6
<1> QED BY <1>1, <1>3, <1>7, <1>9, <1>10, <1>11 DEF PlanInv

LEMMA HandOverPlanned ==
    ASSUME PlanInv, NEW op, NEW items, HandsOver(op, items)
    PROVE  PlanInv'
<1>1. /\ pc = "update" /\ pc' \in {"untag", "catalog"} /\ op \in Ops /\ items \subseteq batch[op]
      /\ UNCHANGED <<disk, cache, run, todo>>
      /\ marking' = [op |-> op, items |-> items]
      /\ \A other \in Ops : batch'[other] = IF other = op THEN batch[op] \ items ELSE batch[other]
      /\ Intact' \subseteq Intact
  BY FewerIntact DEF HandsOver
<1>2. /\ \A other \in Ops : Pending(other)' \subseteq Pending(other)
      /\ items \subseteq Pending(op)
  BY <1>1 DEF Pending
<1>3. \A k, t : InCache(k, t)' <=> InCache(k, t)
  BY <1>1 DEF InCache
<1>4. Arriving' = (IF Adding(op) THEN items ELSE {})
      /\ Untagging' = (IF op = "removeTag" THEN items ELSE {})
  BY <1>1 DEF Arriving, Untagging, Marking, Adding
<1>5. Pending("compute")' \cap Arriving' = {}
  <2>1. CASE op = "compute"
    <3>1. Pending("compute")' = todo["compute"] \cup (batch["compute"] \ items)
      BY <1>1, <2>1, PlanFacts DEF Pending
    <3> QED BY <1>1, <1>4, <2>1, <3>1 DEF PlanInv
  <2>2. CASE op = "addTag"
    BY <1>2, <1>4, <2>2, PlanFacts DEF PlanInv
  <2>3. CASE op # "compute" /\ op # "addTag"
    BY <1>4, <2>3 DEF Adding
  <2> QED BY <2>1, <2>2, <2>3
<1>6. todo'["compute"] \cap batch'["compute"] = {}
  BY <1>1, PlanFacts DEF PlanInv
<1>7. /\ Pending("compute")' \subseteq Pending("compute")
      /\ Pending("addTag")' \subseteq Pending("addTag")
      /\ Pending("removeTag")' \cup Untagging' \subseteq Pending("removeTag")
      /\ Pending("del")' \subseteq Pending("del")
  BY <1>2, <1>4, PlanFacts
<1> QED BY <1>1, <1>3, <1>5, <1>6, <1>7 DEF PlanInv

LEMMA MarkCatalogPlanned ==
    ASSUME TypeInv, PlanInv, NEW i, MarkCatalog(i)
    PROVE  PlanInv'
<1>1. /\ UNCHANGED <<disk, cache, run, marking, todo, batch, adrift>>
      /\ pc = "catalog"
  BY DEF MarkCatalog, disks, faults
<1>2. Arriving' \subseteq Arriving /\ Untagging' = Untagging
  BY <1>1 DEF Arriving, Untagging, Marking
<1>3. \A op \in Ops : Pending(op)' \subseteq Pending(op)
  BY <1>1 DEF Pending
<1>4. todo'["compute"] \cap batch'["compute"] = {}
  BY <1>1 DEF PlanInv
<1> QED BY <1>1, <1>2, <1>3, <1>4, LessIsPlanned

LEMMA TouchPlanned ==
    ASSUME TypeInv, PlanInv, NEW i, Touch(i)
    PROVE  PlanInv'
<1>1. /\ UNCHANGED <<disk, cache, run, marking, todo, batch, pc, adrift>>
  BY DEF Touch, disks, faults
<1>2. Arriving' = Arriving /\ Untagging' = Untagging
  BY <1>1 DEF Arriving, Untagging, Marking
<1>3. \A op \in Ops : Pending(op)' \subseteq Pending(op)
  BY <1>1 DEF Pending
<1>4. todo'["compute"] \cap batch'["compute"] = {}
  BY <1>1 DEF PlanInv
<1> QED BY <1>1, <1>2, <1>3, <1>4, LessIsPlanned

\* The cache changes for the tag of the run only, and for contents that are not to
\* be computed.
LEMMA MarkCachePlanned ==
    ASSUME Distinct, TypeInv, PlanInv, NEW i, MarkCache(i)
    PROVE  PlanInv'
<1>1. /\ pc = "cache" /\ UNCHANGED <<run, marking, todo, batch, disk>>
      /\ Intact' = Intact /\ i \in marking.items /\ i \in Fitting
      /\ \A k, t : InCache(k, t)' <=> IF k = i.key /\ t = run.tag THEN Adding(marking.op)
                                    ELSE InCache(k, t)
  BY MarkedCache DEF MarkCache, disks, Intact
<1>2. Arriving' \subseteq Arriving /\ Untagging' = Untagging
  BY <1>1 DEF Arriving, Untagging, Marking
<1>3. /\ Pending("compute")' = Pending("compute") /\ Pending("addTag")' = Pending("addTag")
      /\ Pending("removeTag")' = Pending("removeTag") /\ Pending("del")' = Pending("del")
  BY <1>1 DEF Pending
<1>4. ASSUME NEW j \in Pending("compute"), j.key \in Intact, NEW t \in Branches
      PROVE  ~InCache(j.key, t)'
  <2>1. ~InCache(j.key, t)
    BY <1>4 DEF PlanInv
  <2>2. CASE ~Adding(marking.op)
    BY <1>1, <2>1, <2>2
  <2>3. CASE Adding(marking.op)
    <3>1. i \in Arriving
      BY <1>1, <2>3 DEF Arriving, Marking
    <3>2. i # j
      BY <3>1 DEF PlanInv
    <3>3. j \in Fitting
      BY PlanFacts DEF Pending, TypeInv, Plans
    <3>4. j.key # i.key
      BY <1>1, <1>4, <3>2, <3>3, SameItem DEF Intact
    <3> QED BY <1>1, <2>1, <3>4
  <2> QED BY <2>2, <2>3
<1>5. /\ Pending("compute") \cap (Pending("addTag") \cup Arriving) = {}
      /\ todo["compute"] \cap batch["compute"] = {}
      /\ \A j \in Pending("compute") : j.key = disk[j.path].key
      /\ \A j \in Pending("removeTag") \cup Untagging :
            j.key \in Intact => \E t \in Branches \ {run.tag} : InCache(j.key, t)
      /\ \A j \in Pending("del") :
            j.key \in Intact => \A t \in Branches : InCache(j.key, t) => t = run.tag
  BY DEF PlanInv
<1>6. \A k, t : t # run.tag => (InCache(k, t)' <=> InCache(k, t))
  BY <1>1
<1> QED BY <1>1, <1>2, <1>3, <1>4, <1>5, <1>6 DEF PlanInv

LEMMA PlanStep ==
    ASSUME Settings, TypeInv, TypeInv', AgreeInv, PlanInv, [Next]_vars
    PROVE  PlanInv'
<1>1. CASE Next
  <2>1. CASE User
    <3>1. Quiet /\ pc' = pc
      BY <2>1 DEF Settings, User, Edit, Checkout, Write, MayWrite, Quiet
    <3>2. Quiet'
      BY <3>1 DEF Quiet
    <3> QED BY <3>2, QuietIsPlanned
  <2>2. CASE \/ \E files \in SUBSET Paths : Start(files)
             \/ Stat \/ NextBatch \/ AllBatchesDone \/ UpdateDone \/ Finish \/ Abort \/ Untag
             \/ UpdateError \/ MarkError \/ Crash \/ TransactionRejected
    BY <2>2, RestPlanned
  <2>3. CASE Plan
    BY <2>3, PlanPlanned DEF Settings
  <2>4. CASE \/ Compute \/ (\E i : AddTag(i)) \/ (\E i : RemoveTag(i)) \/ (\E i : Delete(i))
             \/ InsertRejected
    BY <2>4, Updates, InsertRejectedHandsOver, HandOverPlanned
  <2>5. CASE (\E i : MarkCatalog(i)) \/ (\E i : MarkCache(i)) \/ (\E i : Touch(i))
    BY <2>5, MarkCatalogPlanned, MarkCachePlanned, TouchPlanned DEF Settings
  <2> QED BY <1>1, <2>1, <2>2, <2>3, <2>4, <2>5, Steps DEF Settings
<1>2. CASE UNCHANGED vars
  <2>1. /\ UNCHANGED <<disk, cache, run, marking, todo, batch, pc, adrift>>
    BY <1>2 DEF vars, disks, tables, work, faults
  <2>2. Arriving' = Arriving /\ Untagging' = Untagging
    BY <2>1 DEF Arriving, Untagging, Marking
  <2>3. \A op \in Ops : Pending(op)' \subseteq Pending(op)
    BY <2>1 DEF Pending
  <2>4. todo'["compute"] \cap batch'["compute"] = {}
    BY <2>1 DEF PlanInv
  <2> QED BY <2>1, <2>2, <2>3, <2>4, LessIsPlanned
<1> QED BY <1>1, <1>2

LEMMA ChunkFacts ==
    ASSUME TypeInv, ChunkInv, NEW c \in chunks
    PROVE  /\ c \in Chunk /\ c.path \in Paths /\ c.key \in Contents /\ c.key # Absent
           /\ c.key \in ContentsOf[c.path] /\ Fits(c)
<1>1. c \in Chunk /\ c.path \in Paths
  BY DEF TypeInv, Chunk
<1>2. c.key \in ContentsOf[c.path]
  BY DEF ChunkInv
<1> QED BY <1>1, <1>2, ContentsArePresent, ContentAssumption DEF Fits

\* A computed chunk comes from an item of the batch, whose file is there.
LEMMA NewChunkItem ==
    ASSUME TypeInv, PlanInv, NEW items, items \subseteq batch["compute"], NEW c \in NewChunks(items)
    PROVE  \E i \in items : /\ i \in Fitting /\ i \in Pending("compute")
                            /\ c.key = i.key /\ c.path = i.path
                            /\ c.key \in Contents /\ c.key \in ContentsOf[c.path]
                            /\ \E n \in Parts : c = [key |-> i.key, path |-> i.path, part |-> n,
                                                  copy |-> First(Unused(i.key, i.path, n))]
<1>1. PICK i \in items, n \in Parts :
        /\ Exists(i.path)
        /\ c = [key |-> i.key, path |-> i.path, part |-> n,
                copy |-> First(Unused(i.key, i.path, n))]
  BY DEF NewChunks
<1>2. i \in Pending("compute") /\ i \in Fitting
  BY PlanFacts DEF Pending, TypeInv, Plans
<1>3. i.key # Absent
  BY <1>1, <1>2 DEF PlanInv, Exists
<1>4. c.key = i.key /\ c.path = i.path
  BY <1>1
<1>5. c.key \in ContentsOf[c.path] /\ c.key \in Contents
  BY <1>2, <1>3, <1>4, FittingFacts DEF Fits
<1> QED BY <1>1, <1>2, <1>4, <1>5

\* No sound chunk has the content yet.
LEMMA NewChunkIsFirst ==
    ASSUME TypeInv, PlanInv, ChunkInv, pc = "update", NEW i \in Pending("compute"),
           i.key \in Intact
    PROVE  \A d \in Sound : d.key # i.key
<1>1. Arriving = {}
  BY DEF Arriving, Marking
<1>2. \A t \in Branches : ~InCache(i.key, t)
  BY DEF PlanInv
<1> QED BY <1>1, <1>2 DEF ChunkInv

\* A tag row that is there is for none of the new chunks.
LEMMA InsertedTags ==
    ASSUME TypeInv, NEW items \in SUBSET Fitting, HaveRoom(items),
           NEW kept, NEW tagged, Insert(NewChunks(items), kept, tagged), adrift \subseteq adrift'
    PROVE  /\ \A c \in Sound' : c \in Sound \/ (c \in kept /\ c.key \in Intact')
           /\ \A u \in Tags' : \/ u \in Tags
                               \/ \E c \in tagged : /\ u = [tag |-> run.tag, chunk |-> c]
                                                    /\ c.key \in Intact'
<1>1. /\ kept \in SUBSET NewChunks(items) /\ chunks' = chunks \cup kept
      /\ chunkTags' = chunkTags \cup {[tag |-> run.tag, chunk |-> c] : c \in tagged}
      /\ Intact' \subseteq Intact
  BY FewerIntact DEF Insert
<1>2. \A c \in Sound' : c \in Sound \/ (c \in kept /\ c.key \in Intact')
  BY <1>1 DEF Sound
<1>3. ASSUME NEW u \in Tags', u \in chunkTags PROVE u \in Tags
  <2>1. u.chunk \in Sound' /\ u.chunk \notin kept
    BY <1>1, <1>3, NewChunkFacts DEF Tags
  <2> QED BY <1>2, <1>3, <2>1 DEF Tags
<1>4. ASSUME NEW u \in Tags', u \notin chunkTags
      PROVE  \E c \in tagged : u = [tag |-> run.tag, chunk |-> c] /\ c.key \in Intact'
  <2>1. PICK c \in tagged : u = [tag |-> run.tag, chunk |-> c]
    BY <1>1, <1>4 DEF Tags
  <2>2. u.chunk \in Sound' /\ u.chunk = c
    BY <2>1 DEF Tags
  <2> QED BY <2>1, <2>2 DEF Sound
<1> QED BY <1>2, <1>3, <1>4

\* The new chunks of an intact content were all written, with their tags and no
\* others.
LEMMA InsertChunks ==
    ASSUME Settings, TypeInv, PlanInv, ChunkInv, HandsOver("compute", batch["compute"]),
           HaveRoom(batch["compute"]), NEW kept, NEW tagged,
           Insert(NewChunks(batch["compute"]), kept, tagged),
           \A c \in tagged : c.key \in Intact' => c \in kept
    PROVE  ChunkInv'
<1> DEFINE items == batch["compute"]
           new == NewChunks(items)
<1>1. /\ pc = "update" /\ chunks' = chunks \cup kept /\ kept \in SUBSET new
      /\ items \in SUBSET Fitting
  BY PlanFacts DEF Insert, HandsOver, TypeInv, Plans
<1>2. /\ pc' = "catalog" /\ UNCHANGED <<cache, run>> /\ adrift \subseteq adrift'
      /\ marking' = [op |-> "compute", items |-> items] /\ Intact' \subseteq Intact
  BY FewerIntact DEF HandsOver
<1>3. Arriving = {} /\ Arriving' = items
  BY <1>1, <1>2 DEF Arriving, Marking, Adding
<1>4. ASSUME NEW c \in new
      PROVE  \E i \in items : /\ i \in Fitting /\ i \in Pending("compute")
                              /\ c.key = i.key /\ c.path = i.path
                              /\ c.key \in Contents /\ c.key \in ContentsOf[c.path]
                              /\ \E n \in Parts : c = [key |-> i.key, path |-> i.path, part |-> n,
                                                    copy |-> First(Unused(i.key, i.path, n))]
  BY NewChunkItem
<1>5. \A k, t : InCache(k, t)' <=> InCache(k, t)
  BY <1>2 DEF InCache
<1>6. /\ \A c \in Sound' : c \in Sound \/ (c \in kept /\ c.key \in Intact')
      /\ \A u \in Tags' : \/ u \in Tags
                          \/ \E c \in tagged : u = [tag |-> run.tag, chunk |-> c] /\ c.key \in Intact'
  BY <1>1, <1>2, InsertedTags
<1> HIDE DEF items, new
<1>7. ASSUME NEW c \in new, NEW d \in Sound, c.key \in Intact' PROVE c.key # d.key
  <2>1. PICK i \in items : i \in Pending("compute") /\ c.key = i.key
    BY <1>4
  <2>2. i.key \in Intact
    BY <1>2, <1>7, <2>1
  <2> QED BY <1>1, <2>1, <2>2, NewChunkIsFirst
<1>8. ASSUME NEW c \in new, NEW d \in new, c.key = d.key PROVE c = d
  <2>1. PICK i \in items :
            /\ i \in Fitting /\ c.key = i.key /\ i.key \in Contents
            /\ \E n \in Parts : c = [key |-> i.key, path |-> i.path, part |-> n,
                                     copy |-> First(Unused(i.key, i.path, n))]
    BY <1>4
  <2>2. PICK j \in items :
            /\ j \in Fitting /\ d.key = j.key
            /\ \E n \in Parts : d = [key |-> j.key, path |-> j.path, part |-> n,
                                     copy |-> First(Unused(j.key, j.path, n))]
    BY <1>4
  <2>3. i = j
    BY <1>8, <2>1, <2>2, SameItem DEF Settings
  <2>4. \A n, m \in Parts : n = m
    BY DEF Settings, OnePart
  <2> QED BY <2>1, <2>2, <2>3, <2>4
<1>9. \A c \in chunks' : c.key \in ContentsOf[c.path]
  BY <1>1, <1>4 DEF ChunkInv
<1>10. \A c, d \in Sound' : c.key = d.key => c = d
  <2> SUFFICES ASSUME NEW c \in Sound', NEW d \in Sound', c.key = d.key PROVE c = d
    OBVIOUS
  <2>1. CASE c \in Sound /\ d \in Sound
    BY <2>1 DEF ChunkInv
  <2>2. CASE c \in kept /\ d \in kept
    BY <1>1, <1>8, <2>2
  <2>3. CASE c \in kept /\ c.key \in Intact' /\ d \in Sound
    BY <1>1, <1>7, <2>3
  <2>4. CASE d \in kept /\ d.key \in Intact' /\ c \in Sound
    BY <1>1, <1>7, <2>4
  <2> QED BY <1>6, <2>1, <2>2, <2>3, <2>4
<1>11. \A c \in Sound' : \/ \E i \in Arriving' : i.key = c.key
                         \/ \E t \in Branches : InCache(c.key, t)'
  <2> SUFFICES ASSUME NEW c \in Sound'
               PROVE  \/ \E i \in Arriving' : i.key = c.key
                      \/ \E t \in Branches : InCache(c.key, t)'
    OBVIOUS
  <2>1. CASE c \in kept
    BY <1>1, <1>3, <1>4, <2>1
  <2>2. CASE c \in Sound
    BY <1>3, <1>5, <2>2 DEF ChunkInv
  <2> QED BY <1>6, <2>1, <2>2
<1>12. \A u \in Tags' : \/ u.tag = run'.tag /\ \E i \in Arriving' : i.key = u.chunk.key
                        \/ InCache(u.chunk.key, u.tag)'
  <2> SUFFICES ASSUME NEW u \in Tags'
               PROVE  \/ u.tag = run'.tag /\ \E i \in Arriving' : i.key = u.chunk.key
                      \/ InCache(u.chunk.key, u.tag)'
    OBVIOUS
  <2>1. CASE \E c \in tagged : u = [tag |-> run.tag, chunk |-> c] /\ c.key \in Intact'
    <3>1. PICK c \in tagged : u = [tag |-> run.tag, chunk |-> c] /\ c.key \in Intact'
      BY <2>1
    <3>2. c \in new
      BY <1>1, <3>1
    <3>3. PICK i \in items : c.key = i.key
      BY <1>4, <3>2
    <3> QED BY <1>2, <1>3, <3>1, <3>3
  <2>2. CASE u \in Tags
    BY <1>3, <1>5, <2>2 DEF ChunkInv
  <2> QED BY <1>6, <2>1, <2>2
<1>13. pc' = "catalog" /\ Adding(marking'.op) /\ marking'.op # "del"
  BY <1>2 DEF Adding
<1> QED BY <1>9, <1>10, <1>11, <1>12, <1>13 DEF ChunkInv

LEMMA ComputeChunks ==
    ASSUME Settings, TypeInv, PlanInv, ChunkInv, Compute
    PROVE  ChunkInv'
<1>1. HaveRoom(batch["compute"]) /\ HandsOver("compute", batch["compute"])
      /\ Insert(NewChunks(batch["compute"]), NewChunks(batch["compute"]),
                NewChunks(batch["compute"]))
  BY Updates DEF Compute
<1> QED BY <1>1, InsertChunks

\* A rejected insertion leaves only contents that are adrift.
LEMMA RejectedChunks ==
    ASSUME Settings, TypeInv, PlanInv, ChunkInv, InsertRejected \/ TransactionRejected
    PROVE  ChunkInv'
<1> DEFINE items == batch["compute"]
           new == NewChunks(items)
<1>1. PICK kept, tagged :
          /\ Spoilt(kept, tagged)
          /\ \/ HandOver("compute", items, "catalog")
             \/ GiveUp /\ KeysOf(kept \cup tagged) \subseteq adrift'
  BY RejectedTyping
<1>2. /\ items \in SUBSET Fitting /\ HaveRoom(items) /\ Insert(new, kept, tagged)
      /\ pc = "update" /\ adrift \subseteq adrift' /\ KeysOf(tagged \ kept) \subseteq adrift'
  BY <1>1 DEF Spoilt
<1>3. \A c \in tagged : c.key \in Intact' => c \in kept
  BY <1>2 DEF KeysOf, Intact
<1>4. CASE InsertRejected
  BY <1>2, <1>3, <1>4, InsertRejectedHandsOver, InsertChunks
<1>5. CASE TransactionRejected
  <2>1. Rest
    BY <1>5, FailuresRest
  <2>2. ~HandOver("compute", items, "catalog")
    BY <1>5, FailuresRest, GaveUp DEF HandOver, Marking
  <2>3. \A c \in kept \cup tagged : c.key \notin Intact'
    BY <1>1, <2>2 DEF KeysOf, Intact
  <2>4. Sound' \subseteq Sound /\ Tags' \subseteq Tags
    BY <1>2, <2>3, InsertedTags
  <2>5. \A c \in chunks' : c.key \in ContentsOf[c.path]
    <3>1. \A c \in new : c.key \in ContentsOf[c.path]
      BY NewChunkItem
    <3>2. chunks' = chunks \cup kept /\ kept \in SUBSET new
      BY <1>2 DEF Insert
    <3> QED BY <3>1, <3>2 DEF ChunkInv
  <2> QED BY <2>1, <2>4, <2>5, LessChunks
<1> QED BY <1>4, <1>5

\* Chunks and their tags only lose, but for tags of the run on chunks of its items.
LEMMA UpdateChunks ==
    ASSUME ChunkInv, NEW op, NEW items, HandsOver(op, items), chunks' \subseteq chunks,
           \A u \in Tags' : \/ u \in Tags
                            \/ /\ Adding(op) /\ u.tag = run.tag
                               /\ \E i \in items : i.key = u.chunk.key,
           ~Adding(op) => \A u \in Tags', i \in items : u.tag = run.tag => i.key # u.chunk.key,
           op = "del" => \A c \in Sound', i \in items : i.key # c.key
    PROVE  ChunkInv'
<1>1. /\ pc = "update" /\ pc' \in {"untag", "catalog"} /\ UNCHANGED <<cache, run>>
      /\ marking' = [op |-> op, items |-> items] /\ Intact' \subseteq Intact
  BY FewerIntact DEF HandsOver
<1>2. Arriving = {} /\ Arriving' = (IF Adding(op) THEN items ELSE {})
      /\ marking'.op = op /\ marking'.items = items
  BY <1>1 DEF Arriving, Marking, Adding
<1>3. (\A k, t : InCache(k, t)' <=> InCache(k, t)) /\ Sound' \subseteq Sound
  BY <1>1 DEF InCache, Sound
<1>4. /\ \A c \in Sound' : \E t \in Branches : InCache(c.key, t)'
      /\ \A c \in chunks' : c.key \in ContentsOf[c.path]
      /\ \A c, d \in Sound' : c.key = d.key => c = d
  BY <1>2, <1>3 DEF ChunkInv
<1>5. \A u \in Tags' : \/ u.tag = run'.tag /\ \E i \in Arriving' : i.key = u.chunk.key
                       \/ InCache(u.chunk.key, u.tag)'
  BY <1>1, <1>2, <1>3 DEF ChunkInv
<1>6. pc' # "cache"
  BY <1>1
<1> QED BY <1>1, <1>2, <1>4, <1>5, <1>6 DEF ChunkInv

LEMMA AddTagChunks ==
    ASSUME TypeInv, ChunkInv, NEW i, AddTag(i)
    PROVE  ChunkInv'
<1>1. HandsOver("addTag", {i}) /\ chunks' = chunks /\ adrift' = adrift
  BY Updates DEF AddTag
<1>2. ASSUME NEW u \in Tags'
      PROVE  \/ u \in Tags
             \/ u.tag = run.tag /\ i.key = u.chunk.key
  <2>1. u \in chunkTags \/ (u.tag = run.tag /\ i.key = u.chunk.key)
    BY DEF AddTag, Tags
  <2> QED BY <1>1, <2>1 DEF Tags, Sound, Intact
<1>3. Adding("addTag")
  BY DEF Adding
<1> QED BY <1>1, <1>2, <1>3, UpdateChunks

LEMMA RemoveTagChunks ==
    ASSUME Settings, TypeInv, ChunkInv, NEW i, RemoveTag(i)
    PROVE  ChunkInv'
<1>1. HandsOver("removeTag", {i}) /\ chunks' = chunks /\ ~Adding("removeTag")
      /\ adrift' = adrift
  BY Updates DEF RemoveTag, Adding
<1>2. chunkTags' = {t \in chunkTags : ~(/\ t.tag = run.tag
                                        /\ t.chunk.key = i.key
                                        /\ t.chunk.path = i.path)}
  BY DEF RemoveTag
<1>3. \A u \in Tags' : u \in Tags
  BY <1>1, <1>2 DEF Tags, Sound, Intact
<1>4. ASSUME NEW u \in Tags', u.tag = run.tag PROVE i.key # u.chunk.key
  <2> SUFFICES ASSUME i.key = u.chunk.key PROVE FALSE
    OBVIOUS
  <2>1. u.chunk.path # i.path /\ u.chunk \in chunks
    BY <1>2, <1>3, <1>4 DEF Tags, Sound
  <2>2. u.chunk \in Chunk /\ Fits(u.chunk) /\ u.chunk.key # Absent
    BY <2>1, ChunkFacts
  <2>3. i \in Fitting
    BY <1>1, PlanFacts DEF HandsOver, TypeInv, Plans
  <2>4. u.chunk.path \in Paths
    BY <2>2 DEF Chunk
  <2> QED BY <2>1, <2>2, <2>3, <2>4, FittingFacts, KeyTellsPath DEF Settings
<1> QED BY <1>1, <1>3, <1>4, UpdateChunks

\* What Delete takes away.
LEMMA DeletedChunk ==
    ASSUME TypeInv, ChunkInv, NEW i, Delete(i)
    PROVE  /\ chunks' \subseteq chunks /\ \A c \in chunks \ chunks' : c.key = i.key
           /\ Sound' = {c \in Sound : c.key # i.key}
           /\ Tags' = {u \in Tags : u.chunk.key # i.key}
<1> DEFINE rows == {c \in chunks : c.key = i.key}
<1>1. Intact' = Intact /\ chunkTags' = chunkTags
  BY DeleteTyping DEF Intact
<1>2. CASE rows = {} /\ UNCHANGED chunks
  BY <1>1, <1>2 DEF Sound, Tags
<1>3. CASE \E c \in rows : chunks' = chunks \ {c}
  <2>1. PICK c \in rows : chunks' = chunks \ {c}
    BY <1>3
  <2>2. \A d \in Sound : d.key = i.key <=> d = c
    <3>1. ASSUME NEW d \in Sound, d.key = i.key PROVE d = c
      <4>1. c \in Sound /\ c.key = d.key
        BY <2>1, <3>1 DEF Sound
      <4> QED BY <4>1 DEF ChunkInv
    <3> QED BY <2>1, <3>1
  <2>3. Sound' = Sound \ {c}
    BY <1>1, <2>1 DEF Sound
  <2>4. Sound' = {d \in Sound : d.key # i.key}
    BY <2>2, <2>3
  <2> QED BY <1>1, <2>1, <2>4 DEF Tags
<1> QED BY <1>2, <1>3 DEF Delete

LEMMA DeleteChunks ==
    ASSUME TypeInv, ChunkInv, NEW i, Delete(i)
    PROVE  ChunkInv'
<1>1. HandsOver("del", {i}) /\ ~Adding("del")
  BY Updates DEF Adding
<1>2. /\ chunks' \subseteq chunks /\ Sound' = {c \in Sound : c.key # i.key}
      /\ Tags' = {u \in Tags : u.chunk.key # i.key}
  BY DeletedChunk
<1>3. \A u \in Tags' : u \in Tags /\ i.key # u.chunk.key
  BY <1>2
<1> QED BY <1>1, <1>2, <1>3, UpdateChunks

\* The tags of a chunk that is gone are no tags of a sound chunk.
LEMMA UntagChunks ==
    ASSUME TypeInv, ChunkInv, Untag
    PROVE  Sound' = Sound /\ Tags' = Tags /\ ChunkInv'
<1>1. /\ pc = "untag" /\ pc' = "catalog" /\ UNCHANGED <<cache, chunks, run, marking, adrift>>
      /\ chunkTags' = {t \in chunkTags : t.chunk \notin found}
  BY DEF Untag, faults
<1>2. found \cap chunks = {} /\ marking.op = "del"
  BY <1>1 DEF TypeInv
<1>3. Sound' = Sound /\ Tags' = Tags
  BY <1>1, <1>2 DEF Sound, Tags, Intact
<1>4. Arriving = {} /\ Arriving' = {} /\ Marking /\ Marking'
  BY <1>1, <1>2 DEF Arriving, Marking, Adding
<1>5. \A k, t : InCache(k, t)' <=> InCache(k, t)
  BY <1>1 DEF InCache
<1> QED BY <1>1, <1>2, <1>3, <1>4, <1>5 DEF ChunkInv

LEMMA MarkCatalogChunks ==
    ASSUME ChunkInv, NEW i, MarkCatalog(i)
    PROVE  ChunkInv'
<1>1. /\ pc = "catalog" /\ UNCHANGED <<cache, chunks, chunkTags, run, marking, adrift>>
      /\ (pc' = "catalog" \/ (pc' = "cache" /\ unmarked' = marking.items))
  BY DEF MarkCatalog, Step, faults
<1>2. Arriving' = Arriving /\ Marking /\ Marking'
  BY <1>1 DEF Arriving, Marking
<1>3. \A k, t : InCache(k, t)' <=> InCache(k, t)
  BY <1>1 DEF InCache
<1>4. pc' = "cache" => marking'.items \ unmarked' = {}
  BY <1>1
<1>5. Sound' = Sound /\ Tags' = Tags
  BY <1>1 DEF Sound, Tags, Intact
<1> QED BY <1>1, <1>2, <1>3, <1>4, <1>5 DEF ChunkInv

\* The cache follows: an item that was added is in it, one that was removed has no
\* chunk of the tag, or is still in the cache for another tag.
LEMMA MarkCacheChunks ==
    ASSUME TypeInv, PlanInv, ChunkInv, NEW i, MarkCache(i)
    PROVE  ChunkInv'
<1>1. /\ pc = "cache" /\ UNCHANGED <<run, marking, chunks, chunkTags, adrift>>
      /\ pc' \in {"cache", "update"}
      /\ i \in unmarked /\ i \in marking.items
      /\ unmarked' = unmarked \ {i} /\ (pc' = "update" => unmarked' = {})
      /\ \A k, t : InCache(k, t)' <=> IF k = i.key /\ t = run.tag THEN Adding(marking.op)
                                    ELSE InCache(k, t)
  BY MarkedCache DEF MarkCache, faults
<1>2. Marking /\ run.tag \in Branches /\ Sound' = Sound /\ Tags' = Tags
  BY <1>1 DEF Marking, TypeInv, Sound, Tags, Intact
<1>3. CASE Adding(marking.op)
  <2>1. \A k, t : InCache(k, t) => InCache(k, t)'
    BY <1>1, <1>3
  <2>2. ASSUME NEW j \in marking.items \ unmarked' PROVE InCache(j.key, run.tag)'
    <3>1. CASE j = i
      BY <1>1, <1>3, <3>1
    <3>2. CASE j # i
      BY <1>1, <1>3, <2>1, <2>2, <3>2 DEF ChunkInv
    <3> QED BY <3>1, <3>2
  <2>3. Arriving = marking.items
    BY <1>2, <1>3 DEF Arriving
  <2>4. CASE pc' = "cache"
    <3>1. Arriving' = marking.items /\ marking'.op # "del"
      BY <1>1, <1>3, <2>4 DEF Arriving, Marking, Adding
    <3>2. /\ \A c \in Sound' : \/ \E j \in Arriving' : j.key = c.key
                               \/ \E t \in Branches : InCache(c.key, t)'
          /\ \A u \in Tags' : \/ u.tag = run'.tag /\ \E j \in Arriving' : j.key = u.chunk.key
                              \/ InCache(u.chunk.key, u.tag)'
      BY <1>1, <1>2, <2>1, <2>3, <3>1 DEF ChunkInv
    <3>3. /\ \A c \in chunks' : c.key \in ContentsOf[c.path]
          /\ \A c, d \in Sound' : c.key = d.key => c = d
      BY <1>1, <1>2 DEF ChunkInv
    <3> QED BY <1>1, <1>3, <2>2, <3>1, <3>2, <3>3 DEF ChunkInv
  <2>5. CASE pc' = "update"
    <3>1. Arriving' = {} /\ ~Marking'
      BY <2>5 DEF Arriving, Marking
    <3>2. ASSUME NEW k, NEW j \in Arriving, j.key = k PROVE InCache(k, run.tag)'
      BY <1>1, <2>2, <2>3, <2>5, <3>2
    <3>3. ASSUME NEW c \in Sound PROVE \E t \in Branches : InCache(c.key, t)'
      <4>1. CASE \E j \in Arriving : j.key = c.key
        <5>1. PICK j \in Arriving : j.key = c.key
          BY <4>1
        <5>2. [key |-> c.key, tag |-> run'.tag] \in cache'
          BY <3>2, <5>1 DEF InCache
        <5> QED BY <1>1, <1>2, <5>2 DEF InCache
      <4>2. CASE \E t \in Branches : InCache(c.key, t)
        BY <2>1, <4>2
      <4> QED BY <4>1, <4>2 DEF ChunkInv
    <3>4. ASSUME NEW u \in Tags PROVE InCache(u.chunk.key, u.tag)'
      <4>1. CASE u.tag = run.tag /\ \E j \in Arriving : j.key = u.chunk.key
        <5>1. PICK j \in Arriving : j.key = u.chunk.key
          BY <4>1
        <5>2. [key |-> u.chunk.key, tag |-> run'.tag] \in cache'
          BY <3>2, <5>1 DEF InCache
        <5> QED BY <1>1, <4>1, <5>2 DEF InCache
      <4>2. CASE InCache(u.chunk.key, u.tag)
        BY <2>1, <4>2
      <4> QED BY <4>1, <4>2 DEF ChunkInv
    <3> QED BY <1>1, <1>2, <2>5, <3>1, <3>3, <3>4 DEF ChunkInv
  <2> QED BY <1>1, <2>4, <2>5
<1>4. CASE ~Adding(marking.op)
  <2>1. Arriving = {} /\ Arriving' = {}
    BY <1>1, <1>4 DEF Arriving
  <2>2. marking.op = "removeTag" \/ marking.op = "del"
    BY <1>4, PlanFacts DEF Adding, TypeInv, Markings
  <2>3. ASSUME NEW c \in Sound PROVE \E t \in Branches : InCache(c.key, t)'
    <3>1. PICK t \in Branches : InCache(c.key, t)
      BY <2>1 DEF ChunkInv
    <3>2. CASE c.key # i.key
      BY <1>1, <3>1, <3>2
    <3>3. CASE c.key = i.key
      <4>1. marking.op = "removeTag"
        BY <1>1, <1>2, <2>2, <3>3 DEF ChunkInv
      <4>2. i \in Untagging
        BY <1>1, <4>1 DEF Untagging
      <4>3. c.key \in Intact
        BY DEF Sound
      <4>4. \E s \in Branches \ {run.tag} : InCache(i.key, s)
        BY <3>3, <4>2, <4>3 DEF PlanInv
      <4> QED BY <1>1, <3>3, <4>4
    <3> QED BY <3>2, <3>3
  <2>4. ASSUME NEW u \in Tags PROVE InCache(u.chunk.key, u.tag)'
    <3>1. InCache(u.chunk.key, u.tag)
      BY <2>1 DEF ChunkInv
    <3>2. u.tag = run.tag => i.key # u.chunk.key
      BY <1>1, <1>2, <1>4 DEF ChunkInv
    <3> QED BY <1>1, <3>1, <3>2
  <2>5. /\ Marking' => Marking
        /\ \A c \in chunks' : c.key \in ContentsOf[c.path]
        /\ \A c, d \in Sound' : c.key = d.key => c = d
    BY <1>1, <1>2 DEF ChunkInv
  <2> QED BY <1>1, <1>2, <1>4, <2>1, <2>3, <2>4, <2>5 DEF ChunkInv
<1> QED BY <1>3, <1>4

LEMMA ChunkStep ==
    ASSUME Settings, TypeInv, PlanInv, ChunkInv, [Next]_vars
    PROVE  ChunkInv'
<1>1. CASE Next
  <2>1. CASE User \/ Plan \/ \E i : Touch(i)
    <3>1. /\ UNCHANGED <<cache, chunks, chunkTags, adrift>>
          /\ (Quiet /\ UNCHANGED pc) \/ pc' = "batch" \/ (pc = "touch" /\ pc' = pc)
      BY <2>1 DEF Settings, User, Edit, Checkout, Write, MayWrite, Plan, Touch, Quiet, tables, faults
    <3>2. ~Marking'
      BY <3>1 DEF Quiet, Marking
    <3>3. ~Marking
      BY <2>1, <3>1 DEF Plan, Settings, User, Edit, Checkout, Write, MayWrite, Touch, Quiet, Marking
    <3> QED BY <3>1, <3>2, <3>3, StillChunks
  <2>2. CASE \/ \E files \in SUBSET Paths : Start(files)
             \/ Stat \/ NextBatch \/ AllBatchesDone \/ UpdateDone \/ Finish \/ Abort
    BY <2>2, Rests, RestChunks
  <2>3. CASE UpdateError \/ MarkError \/ Crash
    <3>1. UNCHANGED <<chunks, chunkTags>>
      BY <2>3 DEF UpdateError, MarkError, Crash, tables
    <3> QED BY <2>3, <3>1, FailuresRest, RestChunks
  <2>4. CASE Compute \/ InsertRejected \/ TransactionRejected
    BY <2>4, ComputeChunks, RejectedChunks
  <2>5. CASE (\E i : AddTag(i)) \/ (\E i : RemoveTag(i)) \/ (\E i : Delete(i)) \/ Untag
    BY <2>5, AddTagChunks, RemoveTagChunks, DeleteChunks, UntagChunks
  <2>6. CASE (\E i : MarkCatalog(i)) \/ (\E i : MarkCache(i))
    BY <2>6, MarkCatalogChunks, MarkCacheChunks
  <2> QED BY <1>1, <2>1, <2>2, <2>3, <2>4, <2>5, <2>6, Steps
<1>2. CASE UNCHANGED vars
  <2>1. UNCHANGED <<pc, run, marking, unmarked, cache, chunks, chunkTags, adrift>>
    BY <1>2 DEF vars, tables, work, faults
  <2>2. Arriving' = Arriving /\ (Marking' <=> Marking) /\ Sound' = Sound /\ Tags' = Tags
    BY <2>1 DEF Arriving, Marking, Sound, Tags, Intact
  <2>3. \A k, t : InCache(k, t)' <=> InCache(k, t)
    BY <2>1 DEF InCache
  <2> QED BY <2>1, <2>2, <2>3 DEF ChunkInv
<1> QED BY <1>1, <1>2

LEMMA ChunkInit ==
    ASSUME Init
    PROVE  PlanInv /\ ChunkInv
<1>1. PlanInv
  BY NothingPlanned DEF Init
<1>2. ChunkInv
  BY DEF Init, ChunkInv, Marking, Sound, Tags
<1> QED BY <1>1, <1>2

\* What other branches can find of the contents on which no failure fell.
Untouched == \A tag \in Branches \ {run.tag} :
                {c \in Tagged(tag)' : c.key \notin adrift'} =
                   {c \in Tagged(tag) : c.key \notin adrift'}

\* What a step does to the tags of other branches.
LEMMA OthersUntouched ==
    ASSUME Settings, TypeInv, TypeInv', PlanInv, ChunkInv, [Next]_vars
    PROVE  Untouched
<1> SUFFICES ASSUME NEW tag \in Branches \ {run.tag}
             PROVE  {c \in Tagged(tag)' : c.key \notin adrift'} =
                       {c \in Tagged(tag) : c.key \notin adrift'}
  BY DEF Untouched
<1>1. CASE UNCHANGED <<chunks, chunkTags>>
  BY <1>1 DEF Tagged
<1>2. CASE Compute \/ InsertRejected \/ TransactionRejected
  <2>1. PICK kept, tagged :
            /\ Insert(NewChunks(batch["compute"]), kept, tagged) /\ HaveRoom(batch["compute"])
    BY <1>2 DEF Compute, InsertRejected, TransactionRejected
  <2>2. /\ chunkTags' = chunkTags \cup {[tag |-> run.tag, chunk |-> c] : c \in tagged}
        /\ chunks' = chunks \cup kept /\ kept \in SUBSET NewChunks(batch["compute"])
        /\ batch["compute"] \in SUBSET Fitting
    BY <2>1, PlanFacts DEF Insert, TypeInv, Plans
  <2>3. ASSUME NEW c PROVE [tag |-> tag, chunk |-> c] \in chunkTags'
                              <=> [tag |-> tag, chunk |-> c] \in chunkTags
    BY <2>2
  <2>4. \A c \in kept : [tag |-> tag, chunk |-> c] \notin chunkTags
    BY <2>1, <2>2, NewChunkFacts
  <2>5. Tagged(tag)' = Tagged(tag)
    BY <2>2, <2>3, <2>4 DEF Tagged
  <2> QED BY <2>5
<1>3. ASSUME NEW i, AddTag(i) PROVE Tagged(tag)' = Tagged(tag)
  BY <1>3 DEF AddTag, Tagged
<1>4. ASSUME NEW i, RemoveTag(i) PROVE Tagged(tag)' = Tagged(tag)
  BY <1>4 DEF RemoveTag, Tagged
<1>5. ASSUME NEW i, Delete(i)
      PROVE  {c \in Tagged(tag)' : c.key \notin adrift'} =
                {c \in Tagged(tag) : c.key \notin adrift'}
  <2>1. /\ chunks' \subseteq chunks /\ \A c \in chunks \ chunks' : c.key = i.key
        /\ chunkTags' = chunkTags /\ Intact' = Intact /\ adrift' = adrift
    BY <1>5, DeletedChunk, DeleteTyping DEF Intact
  <2>2. ASSUME NEW c \in Tagged(tag), c.key \notin adrift' PROVE c.key # i.key
    <3> SUFFICES ASSUME c.key = i.key PROVE FALSE
      OBVIOUS
    <3>1. pc = "update" /\ i \in Pending("del")
      BY <1>5 DEF Delete, Pending
    <3>2. c \in Sound /\ [tag |-> tag, chunk |-> c] \in Tags
      BY <2>1, <2>2, ChunkFacts DEF Tagged, Sound, Tags, Intact
    <3>3. InCache(c.key, tag)
      BY <3>1, <3>2 DEF ChunkInv, Arriving, Marking
    <3>4. i.key \in Intact
      BY <3>2 DEF Sound
    <3> QED BY <3>1, <3>3, <3>4 DEF PlanInv
  <2> QED BY <2>1, <2>2 DEF Tagged
<1>6. CASE Untag
  <2>1. /\ chunks' = chunks /\ chunkTags' = {t \in chunkTags : t.chunk \notin found}
        /\ found \cap chunks = {}
    BY <1>6 DEF Untag, TypeInv
  <2>2. Tagged(tag)' = Tagged(tag)
    BY <2>1 DEF Tagged
  <2> QED BY <2>2
<1>7. CASE User \/ (\E files \in SUBSET Paths : Start(files)) \/ Stat \/ Plan \/ NextBatch
           \/ AllBatchesDone \/ UpdateDone \/ Finish \/ (\E i : MarkCatalog(i))
           \/ (\E i : MarkCache(i)) \/ (\E i : Touch(i)) \/ Abort \/ UpdateError
           \/ MarkError \/ Crash \/ UNCHANGED vars
  <2>1. UNCHANGED <<chunks, chunkTags>>
    BY <1>7 DEF User, Edit, Checkout, Write, Start, Stat, Plan, NextBatch, AllBatchesDone,
          UpdateDone, Finish, MarkCatalog, MarkCache, Touch, Abort, UpdateError, MarkError,
          Crash, GiveUp, vars, tables
  <2> QED BY <1>1, <2>1
<1> QED BY <1>2, <1>3, <1>4, <1>5, <1>6, <1>7, Steps

\* A run for one branch changes nothing another branch can find, in whatever order
\* its batches come, wherever it is left and whatever fails, but for the contents a
\* failure fell on.
THEOREM BranchesAreApart ==
    ASSUME Settings
    PROVE  Spec => OtherTagsUntouched
<1> DEFINE Inv == TypeInv /\ AgreeInv /\ PlanInv /\ ChunkInv
<1>1. Init => Inv
  BY InitTyping, AgreeInit, ChunkInit
<1>2. Inv /\ [Next]_vars => Inv'
  BY StepTypingInv, AgreeStep, PlanStep, ChunkStep DEF Settings
<1>3. Inv /\ [Next]_vars => [Untouched]_vars
  BY StepTypingInv, OthersUntouched
<1>4. [][Untouched]_vars => OtherTagsUntouched
  BY DEF Untouched, OtherTagsUntouched
<1> QED BY <1>1, <1>2, <1>3, <1>4, PTL DEF Spec

-----------------------------------------------------------------------------
(* What is still to be done                                                *)

ItemOf(row) == [path |-> row.path, key |-> row.key]

\* The items whose row the run is still to write, and those whose row it is still to
\* delete.
Undone == Pending("compute") \cup Pending("addTag")
          \cup IF pc = "catalog" /\ Adding(marking.op) THEN unmarked ELSE {}
Going == Pending("removeTag") \cup Pending("del")
         \cup IF pc \in {"untag", "catalog"} /\ ~Adding(marking.op) THEN unmarked ELSE {}

\* Batches and markComplete take turns, and what is added or touched is on disk.
PlaceInv ==
    /\ pc \in {"batch", "touch"} => batch = NoPlan
    /\ pc = "touch" => todo = NoPlan
KeyInv == \A i \in Undone \cup touched : i.key = disk[i.path].key

\* As long as nothing was stopped, a file has two rows only while one of them is to go,
\* and what is added is not what goes.
VersionInv ==
    stops = 0 =>
        /\ \A r, s \in catalog : r.tag = s.tag /\ r.path = s.path /\ r # s =>
              r.tag = run.tag /\ (ItemOf(r) \in Going \/ ItemOf(s) \in Going)
        /\ Undone \cap Going = {}
        /\ \A i \in Undone, r \in catalog :
              r.tag = run.tag /\ r.path = i.path => ItemOf(r) = i \/ ItemOf(r) \in Going

WorkInv == PlaceInv /\ KeyInv /\ VersionInv

\* The steps that neither plan nor write a row of the catalog.
Keeps ==
    /\ UNCHANGED <<disk, branch, clock, catalog, run, stops, fresh>>
    /\ touched' = touched /\ Undone' = Undone /\ Going' = Going
    /\ ~Quiet /\ ~Quiet'

LEMMA HandOverKeeps ==
    ASSUME NEW op, NEW items, HandsOver(op, items)
    PROVE  /\ UNCHANGED <<disk, branch, clock, catalog, run, touched>>
           /\ Undone' = Undone /\ Going' = Going /\ ~Quiet /\ ~Quiet'
<1>1. /\ pc = "update" /\ pc' \in {"untag", "catalog"} /\ op \in Ops /\ items \subseteq batch[op]
      /\ (pc' = "untag" => op = "del")
      /\ UNCHANGED <<disk, branch, clock, catalog, run, todo, touched>>
      /\ marking' = [op |-> op, items |-> items] /\ unmarked' = items
      /\ \A other \in Ops : batch'[other] = IF other = op THEN batch[op] \ items ELSE batch[other]
  BY DEF HandsOver
<1>2. Undone' = Undone /\ Going' = Going
  <2>1. Adding(marking'.op) <=> op \in {"compute", "addTag"}
    BY <1>1 DEF Adding
  <2>2. /\ Undone = todo["compute"] \cup batch["compute"] \cup todo["addTag"] \cup batch["addTag"]
        /\ Going = todo["removeTag"] \cup batch["removeTag"] \cup todo["del"] \cup batch["del"]
    BY <1>1 DEF Undone, Going, Pending
  <2>3. /\ Undone' = todo["compute"] \cup batch'["compute"] \cup todo["addTag"] \cup batch'["addTag"]
                     \cup IF op \in {"compute", "addTag"} THEN items ELSE {}
        /\ Going' = todo["removeTag"] \cup batch'["removeTag"] \cup todo["del"] \cup batch'["del"]
                    \cup IF op \in {"compute", "addTag"} THEN {} ELSE items
    BY <1>1, <2>1 DEF Undone, Going, Pending
  <2>4. CASE op = "compute"
    BY <1>1, <2>2, <2>3, <2>4, PlanFacts
  <2>5. CASE op = "addTag"
    BY <1>1, <2>2, <2>3, <2>5, PlanFacts
  <2>6. CASE op = "removeTag"
    BY <1>1, <2>2, <2>3, <2>6, PlanFacts
  <2>7. CASE op = "del"
    BY <1>1, <2>2, <2>3, <2>7, PlanFacts
  <2> QED BY <1>1, <2>4, <2>5, <2>6, <2>7, PlanFacts
<1> QED BY <1>1, <1>2 DEF Quiet

LEMMA KeepSteps ==
    ASSUME TypeInv, PlaceInv,
           \/ NextBatch \/ AllBatchesDone \/ UpdateDone \/ Compute
           \/ (\E i : AddTag(i)) \/ (\E i : RemoveTag(i)) \/ (\E i : Delete(i)) \/ Untag
           \/ (\E i : MarkCache(i))
    PROVE  Keeps
<1>1. CASE NextBatch
  <2>1. batch = NoPlan /\ pc = "batch" /\ pc' = "update"
        /\ UNCHANGED <<disk, branch, clock, catalog, run, touched, marking, unmarked, stops, fresh>>
    BY <1>1 DEF NextBatch, PlaceInv, disks, tables, faults
  <2>2. \A op \in Ops : batch'[op] \subseteq todo[op] /\ todo'[op] = todo[op] \ batch'[op]
    BY <1>1, NextBatchTyping
  <2>3. \A op \in Ops : Pending(op)' = Pending(op)
    BY <2>1, <2>2, PlanFacts DEF Pending
  <2> QED BY <2>1, <2>3, PlanFacts DEF Keeps, Undone, Going, Quiet
<1>2. CASE AllBatchesDone \/ UpdateDone
  <2>1. /\ UNCHANGED <<disk, branch, clock, catalog, run, touched, todo, batch, stops, fresh>>
        /\ pc \in {"batch", "update"} /\ pc' \in {"batch", "touch"} /\ ~Quiet /\ ~Quiet'
    BY <1>2 DEF AllBatchesDone, UpdateDone, Quiet, disks, tables, work, faults
  <2> QED BY <2>1 DEF Keeps, Undone, Going, Pending
<1>3. CASE Compute \/ (\E i : AddTag(i)) \/ (\E i : RemoveTag(i)) \/ (\E i : Delete(i))
  BY <1>3, Updates, HandOverKeeps DEF Keeps
<1>5. CASE Untag
  <2>1. /\ UNCHANGED <<disk, branch, clock, catalog, run, touched, todo, batch, marking,
                       unmarked, stops, fresh>>
        /\ pc = "untag" /\ pc' = "catalog" /\ ~Adding(marking.op)
    BY <1>5 DEF Untag, disks, faults, TypeInv, Adding
  <2> QED BY <2>1 DEF Keeps, Undone, Going, Pending, Quiet
<1>4. ASSUME NEW i, MarkCache(i) PROVE Keeps
  <2>1. /\ UNCHANGED <<disk, branch, clock, catalog, run, touched, todo, batch, marking, stops, fresh>>
        /\ pc = "cache" /\ pc' \in {"cache", "update"}
    BY <1>4, MarkedCache DEF MarkCache, disks, faults
  <2> QED BY <2>1 DEF Keeps, Undone, Going, Pending, Quiet
<1> QED BY <1>1, <1>2, <1>3, <1>4, <1>5

\* MarkCatalog does what it does for one item of the list.
LEMMA MarkCatalogWork ==
    ASSUME TypeInv, NEW i, MarkCatalog(i)
    PROVE  /\ UNCHANGED <<disk, branch, clock, run, touched, stops, fresh>> /\ ~Quiet /\ ~Quiet'
           /\ Undone' \subseteq Undone /\ Going' \subseteq Going
           /\ IF Adding(marking.op) THEN /\ i \in Undone /\ Going' = Going
                                         /\ Undone \subseteq Undone' \cup {i}
              ELSE /\ i \in Going /\ Undone' = Undone /\ Going \subseteq Going' \cup {i}
<1>1. /\ UNCHANGED <<disk, branch, clock, run, touched, todo, batch, marking, stops, fresh>>
      /\ pc = "catalog" /\ pc' \in {"catalog", "cache"} /\ i \in unmarked
      /\ (pc' = "catalog" => unmarked' = unmarked \ {i}) /\ (pc' = "cache" => unmarked = {i})
  BY DEF MarkCatalog, Step, disks, faults
<1>2. \A op \in Ops : Pending(op)' = Pending(op)
  BY <1>1 DEF Pending
<1> QED BY <1>1, <1>2, PlanFacts DEF Undone, Going, Quiet

\* Touch replaces a row of the catalog by one of the same item.
LEMMA TouchWork ==
    ASSUME TypeInv, NEW i, Touch(i)
    PROVE  /\ UNCHANGED <<disk, branch, clock, run, stops, fresh>> /\ ~Quiet /\ ~Quiet'
           /\ touched' \subseteq touched /\ Undone' = Undone /\ Going' = Going
<1>1. UNCHANGED <<disk, branch, clock, run, todo, batch, marking, unmarked, stops, fresh>>
      /\ pc = "touch" /\ pc' = pc
  BY DEF Touch, disks, faults
<1> QED BY <1>1 DEF Touch, Undone, Going, Pending, Quiet

LEMMA QuietWork ==
    ASSUME TypeInv, Quiet
    PROVE  Undone = {} /\ Going = {} /\ touched = {}
BY PlanFacts DEF TypeInv, Undone, Going, Pending, Quiet

LEMMA NothingLeft ==
    ASSUME todo = NoPlan, batch = NoPlan, pc \notin {"untag", "catalog"}
    PROVE  Undone = {} /\ Going = {}
BY PlanFacts DEF Undone, Going, Pending

LEMMA PlaceStep ==
    ASSUME TypeInv, PlaceInv, [Next]_vars
    PROVE  PlaceInv'
<1>1. CASE Next
  <2>1. CASE User \/ (\E files \in SUBSET Paths : Start(files)) \/ Stat \/ (\E i : MarkCatalog(i))
             \/ (\E i : MarkCache(i)) \/ Compute \/ (\E i : AddTag(i)) \/ (\E i : RemoveTag(i))
             \/ (\E i : Delete(i)) \/ Untag \/ NextBatch \/ InsertRejected
    <3>1. \/ pc' \notin {"batch", "touch"}
          \/ UNCHANGED <<pc, todo, batch>>
      BY <2>1 DEF User, Edit, Checkout, Write, Start, Stat, MarkCatalog, MarkCache, Step, Compute,
            AddTag, RemoveTag, Delete, Untag, Mark, HandOver, NextBatch, InsertRejected, work
    <3> QED BY <3>1 DEF PlaceInv
  <2>2. CASE Plan \/ AllBatchesDone \/ UpdateDone \/ (\E i : Touch(i))
    BY <2>2 DEF Plan, AllBatchesDone, UpdateDone, Touch, PlaceInv, TypeInv, Quiet, work
  <2>3. CASE Finish \/ Abort
    BY <2>3 DEF Finish, Abort, Idle, PlaceInv
  <2>4. CASE UpdateError \/ MarkError \/ Crash \/ TransactionRejected
    BY <2>4, FailuresRest, GaveUp DEF PlaceInv
  <2> QED BY <1>1, <2>1, <2>2, <2>3, <2>4, Steps
<1>2. CASE UNCHANGED vars
  BY <1>2 DEF vars, work, PlaceInv
<1> QED BY <1>1, <1>2

\* What a plan adds and removes, in terms of the rows of its files.
LEMMA PlannedAdds ==
    ASSUME NEW tag, NEW stats
    PROVE  /\ \A i \in ToAdd(tag, stats) :
                 /\ i.path \in (DOMAIN stats \ Saved(tag)) \cup Changed(tag, stats)
                 /\ i = [path |-> i.path, key |-> disk[i.path].key]
           /\ \A p \in (DOMAIN stats \ Saved(tag)) \cup Changed(tag, stats) :
                 [path |-> p, key |-> disk[p].key] \in ToAdd(tag, stats)
BY DEF ToAdd

LEMMA PlannedRemoves ==
    ASSUME NEW tag, NEW stats
    PROVE  /\ \A i \in ToRemove(tag, stats) : \E row \in Versions(tag, i.path) :
                 /\ i = ItemOf(row)
                 /\ \/ i.path \in (Saved(tag) \ DOMAIN stats) \cup Changed(tag, stats)
                    \/ row # Latest(tag, i.path) /\ i.path \in DOMAIN stats
           /\ \A p \in (Saved(tag) \ DOMAIN stats) \cup Changed(tag, stats),
                 row \in catalog : row.tag = tag /\ row.path = p => ItemOf(row) \in ToRemove(tag, stats)
<1> DEFINE all == {ItemsOf(Versions(tag, p)) :
                      p \in (Saved(tag) \ DOMAIN stats) \cup Changed(tag, stats)}
           older == {ItemsOf(Versions(tag, p) \ {Latest(tag, p)}) :
                      p \in Modified(tag, stats) \ Changed(tag, stats)}
<1>1. ToRemove(tag, stats) = UNION (all \cup older)
  BY DEF ToRemove
<1>2. ASSUME NEW i \in UNION all
      PROVE  \E row \in Versions(tag, i.path) :
                 i = ItemOf(row) /\ i.path \in (Saved(tag) \ DOMAIN stats) \cup Changed(tag, stats)
  <2>1. PICK p \in (Saved(tag) \ DOMAIN stats) \cup Changed(tag, stats) : i \in ItemsOf(Versions(tag, p))
    BY <1>2
  <2>2. PICK row \in Versions(tag, p) : i = [path |-> row.path, key |-> row.key]
    BY <2>1 DEF ItemsOf
  <2>3. row.path = p /\ i.path = p
    BY <2>2 DEF Versions
  <2> QED BY <2>1, <2>2, <2>3 DEF ItemOf
<1>3. ASSUME NEW i \in UNION older
      PROVE  \E row \in Versions(tag, i.path) :
                 i = ItemOf(row) /\ row # Latest(tag, i.path) /\ i.path \in DOMAIN stats
  <2>1. PICK p \in Modified(tag, stats) : i \in ItemsOf(Versions(tag, p) \ {Latest(tag, p)})
    BY <1>3
  <2>2. PICK row \in Versions(tag, p) \ {Latest(tag, p)} : i = [path |-> row.path, key |-> row.key]
    BY <2>1 DEF ItemsOf
  <2>3. row.path = p /\ i.path = p
    BY <2>2 DEF Versions
  <2> QED BY <2>1, <2>2, <2>3 DEF ItemOf, Modified
<1>4. ASSUME NEW p \in (Saved(tag) \ DOMAIN stats) \cup Changed(tag, stats), NEW row \in catalog,
             row.tag = tag, row.path = p
      PROVE  ItemOf(row) \in UNION all
  <2>1. ItemOf(row) \in ItemsOf(Versions(tag, p))
    BY <1>4 DEF ItemsOf, Versions, ItemOf
  <2> QED BY <2>1
<1> HIDE DEF all, older
<1> QED BY <1>1, <1>2, <1>3, <1>4

\* What the plan leaves to be done.
LEMMA PlanWork ==
    ASSUME TypeInv, Plan
    PROVE  /\ UNCHANGED <<disk, branch, clock, catalog, stops, fresh>>
           /\ run'.tag = run.tag /\ run'.files = run.files /\ run'.stats = run.stats
           /\ pc = "plan" /\ ~Quiet'
           /\ Undone' = OnlyFiles(ToAdd(run.tag, run.stats))
           /\ Going' = OnlyFiles(ToRemove(run.tag, run.stats))
           /\ touched' \subseteq ToTouch(run.tag, run.stats)
           /\ ~FullRun => touched' = {}
<1> DEFINE plan == PlanOf(run.tag, run.stats)
           add == ToAdd(run.tag, run.stats)
           remove == ToRemove(run.tag, run.stats)
<1>1. /\ UNCHANGED <<disk, branch, clock, catalog, batch, marking, stops, fresh>>
      /\ run'.tag = run.tag /\ run'.files = run.files /\ run'.stats = run.stats
      /\ pc = "plan" /\ pc' = "batch" /\ batch = NoPlan
  BY DEF Plan, disks, tables, faults, TypeInv, Quiet, Runs
<1>2. todo' = [op \in Ops |-> OnlyFiles(plan[op])]
  BY DEF Plan
<1>3. ASSUME NEW k PROVE Cardinality(TagsOf(k)) \in Nat
  <2>1. TagsOf(k) \in SUBSET Branches
    BY DEF TagsOf, TypeInv
  <2> QED BY <2>1, FS_Subset, FS_CardinalityType, ContentAssumption
<1>4. \A i : Cardinality(TagsOf(i.key)) > 1 \/ Cardinality(TagsOf(i.key)) <= 1
  BY <1>3
<1>5. plan["compute"] \cup plan["addTag"] = add
  BY DEF PlanOf
<1>6. plan["removeTag"] \cup plan["del"] = remove
  BY <1>4 DEF PlanOf
<1> HIDE DEF plan, add, remove
<1>7. \A op \in Ops : Pending(op)' = OnlyFiles(plan[op])
  BY <1>1, <1>2, PlanFacts DEF Pending
<1>8. /\ Undone' = OnlyFiles(plan["compute"]) \cup OnlyFiles(plan["addTag"])
      /\ Going' = OnlyFiles(plan["removeTag"]) \cup OnlyFiles(plan["del"])
  BY <1>1, <1>7, PlanFacts DEF Undone, Going
<1>9. Undone' = OnlyFiles(add) /\ Going' = OnlyFiles(remove)
  BY <1>5, <1>6, <1>8 DEF OnlyFiles
<1>10. /\ touched' \subseteq ToTouch(run.tag, run.stats)
       /\ ~FullRun => touched' = {}
  BY DEF Plan
<1> QED BY <1>1, <1>9, <1>10 DEF Quiet, add, remove

\* The steps as they bear on what is still to be done.
WorkSteps ==
    \/ Keeps
    \/ \E i : MarkCatalog(i)
    \/ \E i : Touch(i)
    \/ Plan
    \/ /\ Quiet' /\ UNCHANGED catalog
       /\ \/ Quiet
          \/ pc = "touch"
          \/ stops' # 0
    \/ /\ stops' # 0 /\ ~Quiet' /\ UNCHANGED <<disk, catalog, touched>> /\ Undone' \subseteq Undone
    \/ UNCHANGED vars

LEMMA StopsCount ==
    TypeInv => stops \in Nat
<1>1. TypeInv => stops \in 0..MaxStops
  BY DEF TypeInv
<1> QED BY <1>1

LEMMA AllWorkSteps ==
    ASSUME TypeInv, PlaceInv, ~RacingEdits, [Next]_vars
    PROVE  WorkSteps
<1>1. CASE Next
  <2>1. CASE User
    BY <2>1 DEF User, Edit, Checkout, Write, MayWrite, Quiet, WorkSteps, tables
  <2>2. CASE (\E files \in SUBSET Paths : Start(files)) \/ Stat
    BY <2>2 DEF Start, Stat, Quiet, WorkSteps, tables
  <2>3. CASE Finish
    BY <2>3 DEF Finish, Idle, Quiet, WorkSteps, tables
  <2>4. CASE Abort \/ UpdateError \/ MarkError \/ Crash \/ TransactionRejected \/ InsertRejected
    <3>1. stops \in Nat /\ stops' = stops + 1
      BY <2>4, StopsCount DEF Abort, UpdateError, MarkError, Crash, TransactionRejected, InsertRejected
    <3>2. stops' # 0
      BY <3>1
    <3>3. CASE Abort
      BY <3>2, <3>3 DEF Abort, Idle, Quiet, WorkSteps, tables
    <3>4. CASE UpdateError \/ MarkError \/ Crash \/ TransactionRejected
      <4>1. UNCHANGED <<disk, catalog>> /\ (GiveUp \/ Idle)
        BY <3>4, FailuresRest DEF UpdateError, MarkError, Crash, TransactionRejected, GiveUp,
              disks, tables, Rest
      <4>2. CASE pc' = "idle"
        BY <3>2, <4>1, <4>2 DEF Quiet, WorkSteps
      <4>3. CASE pc' # "idle"
        <5>1. /\ pc' = "batch" /\ batch' = NoPlan /\ todo' = todo /\ touched' = touched
          BY <4>1, <4>3, GaveUp
        <5>2. \A op \in Ops : Pending(op)' \subseteq Pending(op)
          BY <5>1, PlanFacts DEF Pending
        <5>3. Undone' \subseteq Undone /\ ~Quiet'
          BY <5>1, <5>2, PlanFacts DEF Undone, Quiet
        <5> QED BY <3>2, <4>1, <5>1, <5>3 DEF WorkSteps
      <4> QED BY <4>2, <4>3
    <3>5. CASE InsertRejected
      BY <3>2, <3>5, InsertRejectedHandsOver, HandOverKeeps DEF WorkSteps
    <3> QED BY <2>4, <3>3, <3>4, <3>5
  <2>5. CASE \/ NextBatch \/ AllBatchesDone \/ UpdateDone \/ Compute
             \/ (\E i : AddTag(i)) \/ (\E i : RemoveTag(i)) \/ (\E i : Delete(i)) \/ Untag
             \/ (\E i : MarkCache(i))
    BY <2>5, KeepSteps DEF WorkSteps
  <2>6. CASE Plan \/ (\E i : MarkCatalog(i)) \/ (\E i : Touch(i))
    BY <2>6 DEF WorkSteps
  <2> QED BY <1>1, <2>1, <2>2, <2>3, <2>4, <2>5, <2>6, Steps
<1>2. CASE UNCHANGED vars
  BY <1>2 DEF WorkSteps
<1> QED BY <1>1, <1>2

LEMMA StutterWork ==
    ASSUME UNCHANGED vars
    PROVE  /\ UNCHANGED <<disk, branch, clock, catalog, pc, run, touched, stops, fresh>>
           /\ Undone' = Undone /\ Going' = Going /\ (Quiet' <=> Quiet)
BY DEF vars, disks, tables, work, faults, Undone, Going, Pending, Quiet

LEMMA StopsGrow ==
    ASSUME TypeInv, [Next]_vars, stops' = 0
    PROVE  stops = 0
<1>1. stops' = stops \/ stops' = stops + 1
  <2>1. CASE Next
    <3>1. CASE Compute \/ (\E i : AddTag(i)) \/ (\E i : RemoveTag(i)) \/ (\E i : Delete(i))
      BY <3>1, Updates
    <3>2. CASE Abort \/ UpdateError \/ MarkError \/ Crash \/ InsertRejected \/ TransactionRejected
      BY <3>2 DEF Abort, UpdateError, MarkError, Crash, InsertRejected, TransactionRejected
    <3>3. CASE User \/ (\E files \in SUBSET Paths : Start(files)) \/ Stat \/ Plan \/ NextBatch
               \/ AllBatchesDone \/ UpdateDone \/ Finish \/ Untag
               \/ (\E i : MarkCatalog(i)) \/ (\E i : MarkCache(i)) \/ (\E i : Touch(i))
      BY <3>3 DEF User, Edit, Checkout, Write, Start, Stat, Plan, NextBatch, AllBatchesDone,
            UpdateDone, Finish, Untag, MarkCatalog, MarkCache, Touch, faults
    <3> QED BY <2>1, <3>1, <3>2, <3>3, Steps
  <2>2. CASE UNCHANGED vars
    BY <2>2, StutterWork
  <2> QED BY <2>1, <2>2
<1> QED BY <1>1, StopsCount

LEMMA KeyStep ==
    ASSUME TypeInv, TypeInv', KeyInv, WorkSteps
    PROVE  KeyInv'
<1>1. CASE \/ Keeps \/ (\E i : MarkCatalog(i)) \/ (\E i : Touch(i)) \/ UNCHANGED vars
           \/ (UNCHANGED <<disk, catalog, touched>> /\ Undone' \subseteq Undone)
  <2>1. disk' = disk /\ Undone' \subseteq Undone /\ touched' \subseteq touched
    BY <1>1, MarkCatalogWork, TouchWork, StutterWork DEF Keeps
  <2> QED BY <2>1 DEF KeyInv
<1>2. CASE Quiet'
  <2>1. Undone' = {} /\ touched' = {}
    BY <1>2, PlanFacts DEF TypeInv, Undone, Pending, Quiet
  <2> QED BY <2>1 DEF KeyInv
<1>3. CASE Plan
  <2>1. DOMAIN run.stats \subseteq Paths /\ disk \in Disks /\ catalog \in Rows
    BY StatsDomain DEF TypeInv
  <2>2. ASSUME NEW i \in ToTouch(run.tag, run.stats) PROVE i.key = disk[i.path].key
    BY <2>1, PlanItems DEF Changed
  <2>3. \A i \in ToAdd(run.tag, run.stats) : i.key = disk[i.path].key
    BY <2>1, PlanItems
  <2>4. /\ disk' = disk /\ Undone' = OnlyFiles(ToAdd(run.tag, run.stats))
        /\ touched' \subseteq ToTouch(run.tag, run.stats)
    BY <1>3, PlanWork
  <2>5. OnlyFiles(ToAdd(run.tag, run.stats)) \subseteq ToAdd(run.tag, run.stats)
    BY DEF OnlyFiles
  <2>6. ASSUME NEW i \in Undone' \cup touched' PROVE i.key = disk'[i.path].key
    <3>1. i \in ToAdd(run.tag, run.stats) \/ i \in ToTouch(run.tag, run.stats)
      BY <2>4, <2>5
    <3> QED BY <2>2, <2>3, <2>4, <3>1
  <2> QED BY <2>6 DEF KeyInv
<1> QED BY <1>1, <1>2, <1>3 DEF WorkSteps

\* No file has two rows of one tag.
OneVersion == \A r, s \in catalog : r.tag = s.tag /\ r.path = s.path => r = s

LEMMA OneVersionLeft ==
    ASSUME VersionInv, stops = 0, Going = {}
    PROVE  OneVersion
BY DEF VersionInv, OneVersion

LEMMA LatestIsOnly ==
    ASSUME TypeInv, OneVersion, NEW r \in catalog
    PROVE  Latest(r.tag, r.path) = r
<1>1. r \in Versions(r.tag, r.path)
  BY DEF Versions
<1>2. Latest(r.tag, r.path) \in Versions(r.tag, r.path)
  BY <1>1, LatestVersion DEF TypeInv
<1> QED BY <1>2 DEF Versions, OneVersion

LEMMA PlanVersions ==
    ASSUME TypeInv, VersionInv, stops = 0, Plan
    PROVE  VersionInv'
<1>1. /\ catalog' = catalog /\ run'.tag = run.tag /\ disk' = disk
      /\ Undone' = OnlyFiles(ToAdd(run.tag, run.stats))
      /\ Going' = OnlyFiles(ToRemove(run.tag, run.stats))
      /\ pc = "plan"
  BY PlanWork
<1>2. OneVersion
  BY <1>1, QuietWork, OneVersionLeft DEF Quiet
<1>3. ASSUME NEW i \in Undone', NEW r \in catalog, r.tag = run.tag, r.path = i.path
      PROVE  ItemOf(r) \in Going' /\ i # ItemOf(r)
  <2>1. i \in ToAdd(run.tag, run.stats)
    BY <1>1 DEF OnlyFiles
  <2>2. i.path \in (DOMAIN run.stats \ Saved(run.tag)) \cup Changed(run.tag, run.stats)
        /\ i = [path |-> i.path, key |-> disk[i.path].key]
    BY <2>1, PlannedAdds
  <2>3. i.path \in Changed(run.tag, run.stats)
    BY <1>3, <2>2 DEF Saved
  <2>4. ItemOf(r) \in ToRemove(run.tag, run.stats)
    BY <1>3, <2>3, PlannedRemoves
  <2>5. ItemOf(r).path \in DOMAIN run.stats
    BY <1>3, <2>3 DEF ItemOf, Changed, Modified
  <2>6. r.key # disk[i.path].key
    BY <1>2, <1>3, <2>3, LatestIsOnly DEF Changed
  <2> QED BY <1>1, <2>2, <2>4, <2>5, <2>6 DEF OnlyFiles, ItemOf
<1>4. Undone' \cap Going' = {}
  <2> SUFFICES ASSUME NEW i \in Undone', i \in Going' PROVE FALSE
    OBVIOUS
  <2>1. i \in ToRemove(run.tag, run.stats)
    BY <1>1 DEF OnlyFiles
  <2>2. PICK r \in Versions(run.tag, i.path) : i = ItemOf(r)
    BY <2>1, PlannedRemoves
  <2> QED BY <1>3, <2>2 DEF Versions
<1> QED BY <1>1, <1>2, <1>3, <1>4 DEF VersionInv, OneVersion

LEMMA MarkCatalogVersions ==
    ASSUME TypeInv, AgreeInv, KeyInv, VersionInv, stops = 0, NEW i, MarkCatalog(i)
    PROVE  VersionInv'
<1>1. /\ UNCHANGED <<disk, run>> /\ Undone' \subseteq Undone /\ Going' \subseteq Going
      /\ IF Adding(marking.op) THEN i \in Undone /\ Going' = Going
         ELSE i \in Going /\ Undone' = Undone /\ Going \subseteq Going' \cup {i}
  BY MarkCatalogWork
<1>2. /\ i \in Fitting /\ RowOf(NewRow(i), i)
      /\ \A row \in catalog' : \/ row \in catalog /\ ~RowOf(row, i)
                               \/ Adding(marking.op) /\ row = NewRow(i)
  BY MarkedCatalog
<1>3. i = [path |-> i.path, key |-> i.key]
  BY <1>2, FittingFacts DEF Item
<1>4. \A r : r.tag = run.tag /\ ItemOf(r) = i => RowOf(r, i)
  BY <1>3 DEF ItemOf, RowOf
<1> HIDE DEF NewRow
<1>5. \A r \in catalog' : r.tag = run.tag /\ ItemOf(r) \in Going =>
          \/ ItemOf(r) \in Going'
          \/ Adding(marking.op) /\ r = NewRow(i)
  BY <1>1, <1>2, <1>4
<1>6. ItemOf(NewRow(i)) = i /\ NewRow(i).tag = run.tag /\ NewRow(i).path = i.path
  BY <1>2, <1>3 DEF RowOf, ItemOf
<1>7. Undone' \cap Going' = {}
  BY <1>1 DEF VersionInv
<1>8. \A r \in catalog : r.tag = run.tag /\ r.path = i.path /\ ~RowOf(r, i) /\ Adding(marking.op)
          => ItemOf(r) \in Going'
  BY <1>1, <1>4 DEF VersionInv
<1>9. ASSUME NEW r \in catalog', NEW s \in catalog', r.tag = s.tag, r.path = s.path, r # s
      PROVE  r.tag = run.tag /\ (ItemOf(r) \in Going' \/ ItemOf(s) \in Going')
  <2>1. CASE r \in catalog /\ s \in catalog /\ ~RowOf(r, i) /\ ~RowOf(s, i)
    BY <1>1, <1>4, <1>9, <2>1 DEF VersionInv
  <2>2. CASE Adding(marking.op) /\ r = NewRow(i)
    BY <1>2, <1>6, <1>8, <1>9, <2>2
  <2>3. CASE Adding(marking.op) /\ s = NewRow(i)
    BY <1>2, <1>6, <1>8, <1>9, <2>3
  <2> QED BY <1>2, <2>1, <2>2, <2>3
<1>10. ASSUME NEW j \in Undone', NEW r \in catalog', r.tag = run.tag, r.path = j.path
       PROVE  ItemOf(r) = j \/ ItemOf(r) \in Going'
  <2>1. j \in Undone
    BY <1>1
  <2>2. CASE r \in catalog /\ ~RowOf(r, i)
    BY <1>1, <1>4, <1>10, <2>1, <2>2 DEF VersionInv
  <2>3. CASE Adding(marking.op) /\ r = NewRow(i)
    <3>1. j.key = disk[j.path].key /\ i.key = disk[i.path].key /\ j.path = i.path
      BY <1>1, <1>6, <1>10, <2>1, <2>3 DEF KeyInv
    <3>2. j \in Item
      BY <2>1 DEF TypeInv, Undone, Pending, Plans, Markings, Fitting, Ops
    <3>3. j = i
      BY <1>2, <3>1, <3>2, FittingFacts, ItemsEqual
    <3> QED BY <1>6, <2>3, <3>3
  <2> QED BY <1>2, <2>2, <2>3
<1> QED BY <1>1, <1>7, <1>9, <1>10 DEF VersionInv

LEMMA TouchVersions ==
    ASSUME TypeInv, AgreeInv, VersionInv, stops = 0, NEW i, Touch(i)
    PROVE  VersionInv'
<1>1. UNCHANGED <<run, disk>> /\ Undone' = Undone /\ Going' = Going
  BY TouchWork
<1>2. CASE catalog' = catalog
  BY <1>1, <1>2 DEF VersionInv
<1>3. CASE catalog' # catalog
  <2>1. PICK old \in catalog :
          /\ RowOf(old, i) /\ RowOf(NewRow(i), i)
          /\ \A row \in catalog : row.tag = run.tag /\ row.path = i.path => row = old
          /\ catalog' = (catalog \ {old}) \cup {NewRow(i)}
    BY <1>3, TouchedCatalog
  <2> DEFINE new == NewRow(i)
  <2>2. ItemOf(new) = ItemOf(old) /\ new.tag = old.tag /\ new.path = old.path
        /\ old.tag = run.tag /\ old.path = i.path
    BY <2>1 DEF RowOf, ItemOf
  <2> HIDE DEF new
  <2>3. catalog' = (catalog \ {old}) \cup {new}
    BY <2>1 DEF new
  <2> QED BY <1>1, <2>1, <2>2, <2>3 DEF VersionInv
<1> QED BY <1>2, <1>3

LEMMA VersionStep ==
    ASSUME TypeInv, TypeInv', AgreeInv, PlaceInv, KeyInv, VersionInv, WorkSteps, [Next]_vars
    PROVE  VersionInv'
<1> SUFFICES ASSUME stops' = 0 PROVE VersionInv'
  BY DEF VersionInv
<1>1. stops = 0
  BY StopsGrow
<1>2. CASE Keeps
  BY <1>1, <1>2 DEF Keeps, VersionInv
<1>3. CASE UNCHANGED vars
  BY <1>1, <1>3, StutterWork DEF VersionInv
<1>4. CASE Plan \/ (\E i : MarkCatalog(i)) \/ (\E i : Touch(i))
  BY <1>1, <1>4, PlanVersions, MarkCatalogVersions, TouchVersions
<1>5. CASE Quiet' /\ UNCHANGED catalog /\ (Quiet \/ pc = "touch")
  <2>1. Going = {}
    BY <1>5, QuietWork, NothingLeft DEF PlaceInv
  <2>2. OneVersion
    BY <1>1, <2>1, OneVersionLeft
  <2>3. Undone' = {} /\ Going' = {}
    BY <1>5, PlanFacts DEF TypeInv, Undone, Going, Pending, Quiet
  <2> QED BY <1>5, <2>2, <2>3 DEF OneVersion, VersionInv
<1> QED BY <1>2, <1>3, <1>4, <1>5 DEF WorkSteps

LEMMA WorkStep ==
    ASSUME Settings, TypeInv, TypeInv', AgreeInv, WorkInv, [Next]_vars
    PROVE  WorkInv'
<1>1. WorkSteps
  BY AllWorkSteps DEF Settings, WorkInv
<1> QED BY <1>1, PlaceStep, KeyStep, VersionStep DEF WorkInv, Settings

LEMMA WorkInit ==
    ASSUME Init
    PROVE  WorkInv
<1>1. Undone = {} /\ Going = {} /\ touched = {} /\ catalog = {} /\ pc = "idle"
  BY NothingLeft DEF Init
<1> QED BY <1>1 DEF WorkInv, PlaceInv, KeyInv, VersionInv

-----------------------------------------------------------------------------
(* The record and the tags                                                 *)

\* A plan is one batch.
WholePlans == \A S \in SUBSET Item : Cardinality(S) <= FilesPerBatch

HasTag(k, t) == \E u \in Tags : u.tag = t /\ u.chunk.key = k

\* Contents no failure fell on: what is catalogued has its tag, what is being added
\* too, what is to be given the tag has a chunk, and no batch deletes that chunk before.
TaggedInv ==
    WholePlans \/ stops = 0 =>
        /\ \A row \in catalog : row.key \in Intact => Removing(row) \/ HasTag(row.key, row.tag)
        /\ \A i \in Arriving : i.key \in Intact => HasTag(i.key, run.tag)
        /\ \A i \in Pending("addTag") : i.key \in Intact => \E c \in Sound : c.key = i.key
        /\ todo["addTag"] \cap batch["del"] = {}

\* What nothing took away is still tagged, if no failure fell on it.
LEMMA MoreTags ==
    ASSUME chunks \subseteq chunks', chunkTags \subseteq chunkTags'
    PROVE  \A k \in Intact' : /\ (\E c \in Sound : c.key = k) => \E c \in Sound' : c.key = k
                              /\ \A t : HasTag(k, t) => HasTag(k, t)'
BY DEF HasTag, Tags, Sound

\* The steps that take nothing away, leave the catalog alone and plan nothing.
LEMMA RestTagged ==
    ASSUME TypeInv, TaggedInv, stops' = 0 => stops = 0, Rest,
           chunks \subseteq chunks', chunkTags \subseteq chunkTags',
           Pending("addTag")' \subseteq Pending("addTag"),
           todo'["addTag"] \cap batch'["del"] = {}
    PROVE  TaggedInv'
<1> SUFFICES ASSUME WholePlans \/ stops' = 0
             PROVE  TaggedInv'
  BY DEF TaggedInv
<1>1. WholePlans \/ stops = 0
  OBVIOUS
<1>2. /\ UNCHANGED catalog /\ Intact' \subseteq Intact /\ Arriving' = {}
      /\ Marking => KeysOf(marking.items) \subseteq adrift'
  BY FewerIntact DEF Rest, Arriving
<1>3. ASSUME NEW row \in catalog, row.key \in Intact' PROVE ~Removing(row)
  <2> SUFFICES ASSUME Removing(row) PROVE FALSE
    OBVIOUS
  <2>1. Marking /\ [path |-> row.path, key |-> row.key] \in marking.items
    BY DEF Removing, Marking, TypeInv
  <2>2. row.key \in adrift'
    BY <1>2, <2>1 DEF KeysOf
  <2> QED BY <1>3, <2>2 DEF Intact
<1> QED BY <1>1, <1>2, <1>3, MoreTags DEF TaggedInv

LEMMA QuietTagged ==
    ASSUME TypeInv, TypeInv', TaggedInv, [Next]_vars, Quiet',
           UNCHANGED <<catalog, chunks, chunkTags, adrift>>, ~Marking
    PROVE  TaggedInv'
<1> SUFFICES ASSUME WholePlans \/ stops' = 0
             PROVE  TaggedInv'
  BY DEF TaggedInv
<1>1. todo' = NoPlan /\ batch' = NoPlan /\ Arriving' = {} /\ ~Marking'
  BY DEF TypeInv, Quiet, Arriving, Marking
<1>2. Pending("addTag")' = {} /\ todo'["addTag"] = {}
  BY <1>1, PlanFacts DEF Pending
<1>3. \A row \in catalog : row.key \in Intact => HasTag(row.key, row.tag)
  BY StopsGrow DEF TaggedInv, Removing, Marking
<1>4. Intact' = Intact
  BY DEF Intact
<1> QED BY <1>1, <1>2, <1>3, <1>4, MoreTags DEF TaggedInv

\* A run that goes on with its next batch, or ends, whatever it failed in.
LEMMA WaitTagged ==
    ASSUME TypeInv, PlaceInv, TaggedInv, [Next]_vars,
           \/ AllBatchesDone \/ UpdateDone \/ Finish \/ Abort
           \/ UpdateError \/ MarkError \/ Crash \/ TransactionRejected
    PROVE  TaggedInv'
<1>1. CASE AllBatchesDone \/ UpdateDone \/ Finish \/ Abort
  <2>1. Rest /\ UNCHANGED <<chunks, chunkTags>>
    BY <1>1, Rests
  <2>2. (todo' = todo /\ batch' = batch /\ batch = NoPlan) \/ (todo' = NoPlan /\ batch' = NoPlan)
    BY <1>1 DEF AllBatchesDone, UpdateDone, Finish, Abort, Idle, work, PlaceInv
  <2>3. Pending("addTag")' \subseteq Pending("addTag") /\ todo'["addTag"] \cap batch'["del"] = {}
    BY <2>2, PlanFacts DEF Pending
  <2> QED BY <2>1, <2>3, RestTagged, StopsGrow
<1>2. CASE UpdateError \/ MarkError \/ Crash \/ TransactionRejected
  <2>1. Rest /\ batch' = NoPlan /\ (todo' = todo \/ todo' = NoPlan)
    BY <1>2, FailuresRest, GaveUp
  <2>2. Pending("addTag")' \subseteq Pending("addTag") /\ todo'["addTag"] \cap batch'["del"] = {}
    BY <2>1, PlanFacts DEF Pending
  <2>3. chunks \subseteq chunks' /\ chunkTags \subseteq chunkTags'
    BY <1>2 DEF UpdateError, MarkError, Crash, TransactionRejected, Insert, tables
  <2> QED BY <2>1, <2>2, <2>3, RestTagged, StopsGrow
<1> QED BY <1>1, <1>2

LEMMA NextBatchTagged ==
    ASSUME TypeInv, PlaceInv, VersionInv, TaggedInv, NextBatch
    PROVE  TaggedInv'
<1>1. /\ UNCHANGED <<catalog, chunks, chunkTags, stops>> /\ pc = "batch" /\ pc' = "update"
      /\ batch = NoPlan /\ Rest
  BY Rests DEF NextBatch, tables, faults, PlaceInv
<1>2. \A op \in Ops : /\ batch'[op] \subseteq todo[op]
                      /\ todo'[op] = todo[op] \ batch'[op]
                      /\ Cardinality(todo[op]) <= FilesPerBatch => todo'[op] = {}
  BY NextBatchTyping
<1>3. Pending("addTag")' \subseteq Pending("addTag")
  BY <1>1, <1>2, PlanFacts DEF Pending
<1>4. CASE WholePlans
  <2>1. todo["addTag"] \in SUBSET Item
    <3>1. todo["addTag"] \in SUBSET Fitting
      BY PlanFacts DEF TypeInv, Plans
    <3> QED BY <3>1 DEF Fitting
  <2>2. todo'["addTag"] = {}
    BY <1>2, <1>4, <2>1, PlanFacts DEF WholePlans
  <2> QED BY <1>1, <1>3, <2>2, RestTagged
<1>5. CASE stops = 0
  <2>1. todo["addTag"] \subseteq Undone /\ todo["del"] \subseteq Going
    BY DEF Undone, Going, Pending
  <2>2. Undone \cap Going = {}
    BY <1>5 DEF VersionInv
  <2>3. todo'["addTag"] \cap batch'["del"] = {}
    BY <1>2, <2>1, <2>2, PlanFacts
  <2> QED BY <1>1, <1>3, <2>3, RestTagged
<1>6. CASE ~WholePlans /\ stops # 0
  BY <1>1, <1>6 DEF TaggedInv
<1> QED BY <1>4, <1>5, <1>6

LEMMA PlanTagged ==
    ASSUME TypeInv, AgreeInv, ChunkInv, TaggedInv, Plan
    PROVE  TaggedInv'
<1> SUFFICES ASSUME WholePlans \/ stops' = 0
             PROVE  TaggedInv'
  BY DEF TaggedInv
<1>1. /\ UNCHANGED <<disk, catalog, chunks, chunkTags, batch, stops, adrift>>
      /\ pc = "plan" /\ pc' = "batch" /\ batch = NoPlan
  BY DEF Plan, TypeInv, Quiet, disks, tables, faults
<1>2. Intact' = Intact /\ ~Marking /\ \A row : ~Removing(row)
  BY <1>1 DEF Intact, Marking, Removing
<1>3. ASSUME NEW i \in todo'["addTag"], i.key \in Intact PROVE \E c \in Sound : c.key = i.key
  <2>1. i \in ToAdd(run.tag, run.stats) /\ TagsOf(i.key) # {}
    <3>1. todo' = [op \in Ops |-> OnlyFiles(PlanOf(run.tag, run.stats)[op])]
      BY DEF Plan
    <3> QED BY <3>1, PlanFacts DEF OnlyFiles, PlanOf
  <2>2. PICK t \in Branches : InCache(i.key, t)
    <3>1. PICK row \in cache : row.key = i.key
      BY <2>1 DEF TagsOf
    <3>2. row.tag \in Branches /\ row = [key |-> row.key, tag |-> row.tag]
      BY <3>1 DEF TypeInv
    <3> QED BY <3>1, <3>2 DEF InCache
  <2>3. InCatalog(i.key, t)
    BY <1>2, <1>3, <2>2, CacheIsCatalog
  <2>4. HasTag(i.key, t)
    BY <1>1, <1>2, <1>3, <2>3 DEF InCatalog, TaggedInv
  <2> QED BY <2>4 DEF HasTag, Tags
<1>4. \A row \in catalog : row.key \in Intact => HasTag(row.key, row.tag)
  BY <1>1, <1>2 DEF TaggedInv
<1>5. Arriving' = {} /\ Pending("addTag")' = todo'["addTag"] /\ batch'["del"] = {}
  BY <1>1, PlanFacts DEF Arriving, Marking, Pending
<1> QED BY <1>1, <1>2, <1>3, <1>4, <1>5, MoreTags DEF TaggedInv

\* What every hand-over keeps.
LEMMA HandOverTagged ==
    ASSUME TaggedInv, NEW op, NEW items, HandsOver(op, items)
    PROVE  /\ UNCHANGED <<catalog, run>> /\ pc = "update" /\ Intact' \subseteq Intact
           /\ \A row \in catalog : ~Removing(row)
           /\ Arriving' = (IF Adding(op) THEN items ELSE {})
           /\ Pending("addTag")' \subseteq Pending("addTag")
           /\ WholePlans \/ stops = 0 => todo'["addTag"] \cap batch'["del"] = {}
           /\ \A row : Removing(row)' <=> /\ ~Adding(op) /\ row.tag = run.tag
                                          /\ [path |-> row.path, key |-> row.key] \in items
<1>1. /\ UNCHANGED <<catalog, run, todo>> /\ pc = "update" /\ pc' \in {"untag", "catalog"}
      /\ marking' = [op |-> op, items |-> items] /\ unmarked' = items
      /\ \A other \in Ops : batch'[other] \subseteq batch[other]
  BY DEF HandsOver
<1>2. \A row : ~Removing(row)
  BY <1>1 DEF Removing
<1>3. Adding(marking'.op) <=> Adding(op)
  BY <1>1
<1>4. \A row : Removing(row)' <=> /\ ~Adding(op) /\ row.tag = run.tag
                                  /\ [path |-> row.path, key |-> row.key] \in items
  BY <1>1, <1>3 DEF Removing
<1>5. Arriving' = (IF Adding(op) THEN items ELSE {})
  BY <1>1, <1>3 DEF Arriving, Marking
<1>6. Intact' \subseteq Intact
  BY FewerIntact DEF HandsOver
<1> QED BY <1>1, <1>2, <1>4, <1>5, <1>6, PlanFacts DEF Pending, TaggedInv

\* Whatever is inserted, an item no failure fell on has a chunk with the tag.
LEMMA InsertTagged ==
    ASSUME Settings, TypeInv, PlanInv, ChunkInv, TaggedInv, stops' = 0 => stops = 0,
           HandsOver("compute", batch["compute"]), NEW kept, NEW tagged,
           Insert(NewChunks(batch["compute"]), kept, tagged),
           \A c \in NewChunks(batch["compute"]) : c.key \in Intact' => c \in kept \cap tagged
    PROVE  TaggedInv'
<1> DEFINE items == batch["compute"]
           new == NewChunks(items)
<1> SUFFICES ASSUME WholePlans \/ stops' = 0
             PROVE  TaggedInv'
  BY DEF TaggedInv
<1>1. /\ UNCHANGED <<catalog, run>> /\ Arriving' = items /\ Intact' \subseteq Intact
      /\ \A row \in catalog : ~Removing(row)
      /\ Pending("addTag")' \subseteq Pending("addTag")
      /\ WholePlans \/ stops = 0 => todo'["addTag"] \cap batch'["del"] = {}
  BY HandOverTagged DEF Adding
<1>2. /\ chunks' = chunks \cup kept
      /\ chunkTags' = chunkTags \cup {[tag |-> run.tag, chunk |-> c] : c \in tagged}
  BY DEF Insert
<1>3. ASSUME NEW i \in items, i.key \in Intact' PROVE HasTag(i.key, run.tag)'
  <2>1. i \in Fitting /\ i.key = disk[i.path].key /\ i.key # Absent
    BY <1>3, PlanFacts, ContentsArePresent DEF PlanInv, Pending, TypeInv, Plans, Intact
  <2>2. Exists(i.path)
    BY <2>1 DEF Exists
  <2>3. PICK n \in Parts : TRUE
    BY DEF Settings, OnePart
  <2> DEFINE c == [key |-> i.key, path |-> i.path, part |-> n,
                   copy |-> First(Unused(i.key, i.path, n))]
             u == [tag |-> run.tag, chunk |-> c]
  <2>4. c \in new
    BY <2>2, <2>3 DEF NewChunks
  <2>5. c.key = i.key
    OBVIOUS
  <2> HIDE DEF c, new, items
  <2>6. c \in kept /\ c \in tagged
    BY <1>3, <2>4, <2>5 DEF new, items
  <2>7. u \in chunkTags' /\ u.tag = run.tag /\ u.chunk = c /\ c \in chunks'
    BY <1>2, <2>6
  <2>8. c \in Sound'
    BY <1>3, <2>5, <2>7 DEF Sound
  <2>9. u \in Tags'
    BY <2>7, <2>8 DEF Tags
  <2> HIDE DEF u
  <2> QED BY <1>1, <2>5, <2>7, <2>9 DEF HasTag
<1> HIDE DEF items, new
<1>4. chunks \subseteq chunks' /\ chunkTags \subseteq chunkTags'
  BY <1>2
<1> QED BY <1>1, <1>3, <1>4, MoreTags DEF TaggedInv

LEMMA ComputeTagged ==
    ASSUME Settings, TypeInv, PlanInv, ChunkInv, TaggedInv, Compute \/ InsertRejected,
           stops' = 0 => stops = 0
    PROVE  TaggedInv'
<1> DEFINE new == NewChunks(batch["compute"])
<1>1. CASE Compute
  <2>1. Insert(new, new, new) /\ HandsOver("compute", batch["compute"])
    BY <1>1, Updates DEF Compute
  <2> QED BY <2>1, InsertTagged
<1>2. CASE InsertRejected
  <2>1. PICK kept, tagged : /\ Insert(new, kept, tagged)
                            /\ adrift' = adrift \cup KeysOf(new \ (kept \cap tagged))
                                                \cup KeysOf(tagged \ kept)
    BY <1>2 DEF InsertRejected
  <2>2. ASSUME NEW c \in new, c.key \in Intact' PROVE c \in kept \cap tagged
    BY <2>1, <2>2 DEF KeysOf, Intact
  <2> QED BY <1>2, <2>1, <2>2, InsertRejectedHandsOver, InsertTagged
<1> QED BY <1>1, <1>2

LEMMA AddTagTagged ==
    ASSUME TypeInv, TaggedInv, NEW i, AddTag(i)
    PROVE  TaggedInv'
<1> DEFINE wanted == {[tag |-> run.tag, chunk |-> c] : c \in {d \in chunks : d.key = i.key}}
<1> SUFFICES ASSUME WholePlans \/ stops' = 0
             PROVE  TaggedInv'
  BY DEF TaggedInv
<1>1. /\ UNCHANGED <<catalog, stops, run, adrift>> /\ Arriving' = {i}
      /\ \A row \in catalog : ~Removing(row)
      /\ Pending("addTag")' \subseteq Pending("addTag")
      /\ WholePlans \/ stops = 0 => todo'["addTag"] \cap batch'["del"] = {}
  BY Updates, HandOverTagged DEF Adding
<1>2. /\ chunkTags' = IF wanted \cap chunkTags = {} THEN chunkTags \cup wanted ELSE chunkTags
      /\ chunks' = chunks /\ i \in Pending("addTag") /\ Intact' = Intact
  BY <1>1 DEF AddTag, Pending, Intact
<1>3. i.key \in Intact => HasTag(i.key, run.tag)'
  <2> SUFFICES ASSUME i.key \in Intact PROVE HasTag(i.key, run.tag)'
    OBVIOUS
  <2>1. PICK c \in Sound : c.key = i.key
    BY <1>1, <1>2 DEF TaggedInv
  <2>2. [tag |-> run.tag, chunk |-> c] \in wanted
    BY <2>1 DEF Sound
  <2>3. \A u \in wanted : u.tag = run.tag /\ u.chunk.key = i.key /\ u.chunk \in chunks
    OBVIOUS
  <2> HIDE DEF wanted
  <2>4. PICK u \in chunkTags' : u \in wanted
    BY <1>2, <2>2
  <2>5. u \in Tags'
    BY <1>2, <2>3, <2>4 DEF Tags, Sound
  <2> QED BY <1>1, <2>3, <2>4, <2>5 DEF HasTag
<1> HIDE DEF wanted
<1>4. chunks \subseteq chunks' /\ chunkTags \subseteq chunkTags'
  BY <1>2
<1> QED BY <1>1, <1>2, <1>3, <1>4, MoreTags DEF TaggedInv

\* A row that loses its chunk is about to go.
LEMMA RemoveTagTagged ==
    ASSUME Distinct, TypeInv, TaggedInv, NEW i, RemoveTag(i)
    PROVE  TaggedInv'
<1> SUFFICES ASSUME WholePlans \/ stops' = 0
             PROVE  TaggedInv'
  BY DEF TaggedInv
<1>1. HandsOver("removeTag", {i}) /\ ~Adding("removeTag") /\ i \in Fitting
      /\ UNCHANGED <<stops, adrift>>
  <2>1. i \in batch["removeTag"]
    BY DEF RemoveTag
  <2> QED BY <2>1, Updates, PlanFacts DEF Adding, TypeInv, Plans
<1>2. /\ UNCHANGED <<catalog, run>> /\ Arriving' = {}
      /\ \A row \in catalog : ~Removing(row)
      /\ Pending("addTag")' \subseteq Pending("addTag")
      /\ WholePlans \/ stops = 0 => todo'["addTag"] \cap batch'["del"] = {}
      /\ \A row : Removing(row)' <=> /\ row.tag = run.tag
                                     /\ [path |-> row.path, key |-> row.key] \in {i}
  <2>1. /\ UNCHANGED <<catalog, run>>
        /\ \A row \in catalog : ~Removing(row)
        /\ Arriving' = (IF Adding("removeTag") THEN {i} ELSE {})
        /\ Pending("addTag")' \subseteq Pending("addTag")
        /\ WholePlans \/ stops = 0 => todo'["addTag"] \cap batch'["del"] = {}
    BY <1>1, HandOverTagged
  <2>2. \A row : Removing(row)' <=> /\ ~Adding("removeTag") /\ row.tag = run.tag
                                   /\ [path |-> row.path, key |-> row.key] \in {i}
    BY <1>1, HandOverTagged
  <2> QED BY <1>1, <2>1, <2>2
<1>3. /\ chunks' = chunks /\ Intact' = Intact /\ Sound' = Sound
      /\ \A u \in chunkTags : u \in chunkTags' \/ (u.tag = run.tag /\ u.chunk.key = i.key)
  BY <1>1 DEF RemoveTag, Intact, Sound
<1>4. ASSUME NEW row \in catalog, row.key \in Intact
      PROVE  Removing(row)' \/ HasTag(row.key, row.tag)'
  <2>1. PICK u \in Tags : u.tag = row.tag /\ u.chunk.key = row.key
    BY <1>1, <1>2, <1>4 DEF TaggedInv, HasTag
  <2>2. CASE u \in chunkTags'
    <3>1. u \in Tags'
      BY <1>3, <2>1, <2>2 DEF Tags
    <3> QED BY <2>1, <3>1 DEF HasTag
  <2>3. CASE u.tag = run.tag /\ u.chunk.key = i.key
    <3>1. row.key = i.key /\ row.path = i.path
      BY <1>1, <1>4, <2>1, <2>3, RowFacts, FittingFacts, KeyTellsPath, ContentsArePresent DEF Intact
    <3>2. [path |-> row.path, key |-> row.key] = i
      BY <1>1, <3>1, FittingFacts DEF Item
    <3> QED BY <1>2, <2>1, <2>3, <3>2
  <2> QED BY <1>3, <2>1, <2>2, <2>3 DEF Tags
<1> QED BY <1>1, <1>2, <1>3, <1>4 DEF TaggedInv

LEMMA DeleteTagged ==
    ASSUME Distinct, TypeInv, AgreeInv, PlanInv, ChunkInv, TaggedInv, NEW i, Delete(i)
    PROVE  TaggedInv'
<1> SUFFICES ASSUME WholePlans \/ stops' = 0
             PROVE  TaggedInv'
  BY DEF TaggedInv
<1>1. HandsOver("del", {i}) /\ ~Adding("del") /\ i \in Fitting /\ i \in batch["del"]
      /\ batch["addTag"] = {} /\ pc = "update" /\ UNCHANGED <<stops, adrift>>
  <2>1. i \in batch["del"] /\ batch["addTag"] = {} /\ pc = "update"
    BY PlanFacts DEF Delete
  <2> QED BY <2>1, Updates, PlanFacts DEF Adding, TypeInv, Plans
<1>2. /\ UNCHANGED <<catalog, run>> /\ Arriving' = {}
      /\ \A row \in catalog : ~Removing(row)
      /\ Pending("addTag")' \subseteq Pending("addTag")
      /\ WholePlans \/ stops = 0 => todo'["addTag"] \cap batch'["del"] = {}
      /\ \A row : Removing(row)' <=> /\ row.tag = run.tag
                                     /\ [path |-> row.path, key |-> row.key] \in {i}
  BY <1>1, HandOverTagged
<1>3. /\ Sound' = {c \in Sound : c.key # i.key} /\ Intact' = Intact
      /\ Tags' = {u \in Tags : u.chunk.key # i.key}
  BY <1>1, DeletedChunk DEF Intact
<1>4. ASSUME NEW row \in catalog, row.key \in Intact
      PROVE  Removing(row)' \/ HasTag(row.key, row.tag)'
  <2>1. PICK u \in Tags : u.tag = row.tag /\ u.chunk.key = row.key
    BY <1>1, <1>2, <1>4 DEF TaggedInv, HasTag
  <2>2. CASE row.key # i.key
    BY <1>3, <2>1, <2>2 DEF HasTag
  <2>3. CASE row.key = i.key
    <3>1. row.path = i.path
      BY <1>1, <1>4, <2>3, RowFacts, FittingFacts, KeyTellsPath, ContentsArePresent DEF Intact
    <3>2. [path |-> row.path, key |-> row.key] = i
      BY <1>1, <2>3, <3>1, FittingFacts DEF Item
    <3>3. row.tag \in Branches /\ ~Marking
      BY <1>1, RowFacts DEF Marking
    <3>4. InCache(i.key, row.tag)
      BY <1>4, <2>3, <3>3, CacheIsCatalog DEF InCatalog
    <3>5. row.tag = run.tag
      BY <1>1, <1>4, <2>3, <3>3, <3>4 DEF PlanInv, Pending
    <3> QED BY <1>2, <3>2, <3>5
  <2> QED BY <2>2, <2>3
<1>5. ASSUME NEW j \in Pending("addTag")', j.key \in Intact PROVE \E c \in Sound' : c.key = j.key
  <2>1. j \in Pending("addTag") /\ j \in todo["addTag"]
    BY <1>1, <1>2 DEF Pending
  <2>2. PICK c \in Sound : c.key = j.key
    BY <1>1, <1>5, <2>1 DEF TaggedInv
  <2>3. j # i
    BY <1>1, <2>1 DEF TaggedInv
  <2>4. j \in Fitting
    BY <2>1, PlanFacts DEF TypeInv, Plans
  <2>5. j.key # i.key
    BY <1>1, <1>5, <2>3, <2>4, SameItem, ContentsArePresent DEF Intact
  <2> QED BY <1>3, <2>2, <2>5
<1> QED BY <1>1, <1>2, <1>3, <1>4, <1>5 DEF TaggedInv

LEMMA UntagTagged ==
    ASSUME TypeInv, ChunkInv, TaggedInv, Untag
    PROVE  TaggedInv'
<1>1. /\ UNCHANGED <<catalog, run, marking, unmarked, todo, batch, stops, adrift>>
      /\ pc = "untag" /\ pc' = "catalog"
  BY DEF Untag, faults
<1>2. Sound' = Sound /\ Tags' = Tags /\ Intact' = Intact
  BY <1>1, UntagChunks DEF Intact
<1>3. /\ \A row : Removing(row)' <=> Removing(row)
      /\ Arriving' = Arriving /\ Pending("addTag")' = Pending("addTag")
  BY <1>1 DEF Removing, Arriving, Marking, Pending
<1>4. \A k, t : HasTag(k, t)' <=> HasTag(k, t)
  BY <1>2 DEF HasTag
<1> QED BY <1>1, <1>2, <1>3, <1>4 DEF TaggedInv

LEMMA MarkCatalogTagged ==
    ASSUME TypeInv, TaggedInv, NEW i, MarkCatalog(i)
    PROVE  TaggedInv'
<1> SUFFICES ASSUME WholePlans \/ stops' = 0
             PROVE  TaggedInv'
  BY DEF TaggedInv
<1>1. /\ pc = "catalog" /\ UNCHANGED <<run, marking, todo, batch, chunks, chunkTags, stops, adrift>>
      /\ pc' \in {"catalog", "cache"} /\ i \in unmarked /\ i \in marking.items
      /\ (pc' = "catalog" => unmarked' = unmarked \ {i}) /\ (pc' = "cache" => unmarked = {i})
      /\ i \in Fitting
  BY MarkCatalogTyping DEF MarkCatalog, Step, faults
<1>2. /\ \A row \in catalog' : \/ row \in catalog /\ ~RowOf(row, i)
                               \/ Adding(marking.op) /\ row = NewRow(i)
      /\ RowOf(NewRow(i), i)
  BY MarkedCatalog
<1>3. /\ Sound' = Sound /\ Intact' = Intact
      /\ \A k, t : HasTag(k, t)' <=> HasTag(k, t)
  BY <1>1 DEF HasTag, Sound, Tags, Intact
<1>4. Arriving' = Arriving /\ Pending("addTag")' = Pending("addTag")
  BY <1>1 DEF Arriving, Marking, Pending
<1>5. ASSUME NEW row \in catalog', row.key \in Intact
      PROVE  Removing(row)' \/ HasTag(row.key, row.tag)'
  <2>1. CASE row \in catalog /\ ~RowOf(row, i)
    <3>1. CASE HasTag(row.key, row.tag)
      BY <1>3, <3>1
    <3>2. CASE Removing(row)
      <4>1. /\ ~Adding(marking.op) /\ row.tag = run.tag
            /\ [path |-> row.path, key |-> row.key] \in unmarked
        BY <3>2 DEF Removing
      <4>2. [path |-> row.path, key |-> row.key] # i
        BY <2>1, <4>1 DEF RowOf
      <4> QED BY <1>1, <4>1, <4>2 DEF Removing
    <3> QED BY <1>1, <1>5, <2>1, <3>1, <3>2 DEF TaggedInv
  <2>2. CASE Adding(marking.op) /\ row = NewRow(i)
    <3>1. row.key = i.key /\ row.tag = run.tag
      BY <1>2, <2>2 DEF RowOf
    <3>2. i \in Arriving
      BY <1>1, <2>2 DEF Arriving, Marking
    <3> QED BY <1>1, <1>3, <1>5, <3>1, <3>2 DEF TaggedInv
  <2> QED BY <1>2, <2>1, <2>2
<1> QED BY <1>1, <1>3, <1>4, <1>5 DEF TaggedInv

LEMMA MarkCacheTagged ==
    ASSUME TypeInv, TaggedInv, NEW i, MarkCache(i)
    PROVE  TaggedInv'
<1>1. /\ pc = "cache" /\ pc' \in {"cache", "update"}
      /\ UNCHANGED <<catalog, run, marking, todo, batch, chunks, chunkTags, stops, adrift>>
  BY MarkedCache DEF MarkCache, faults
<1>2. /\ Sound' = Sound /\ Intact' = Intact
      /\ \A k, t : HasTag(k, t)' <=> HasTag(k, t)
  BY <1>1 DEF HasTag, Sound, Tags, Intact
<1>3. Arriving' \subseteq Arriving /\ Pending("addTag")' = Pending("addTag")
  BY <1>1 DEF Arriving, Marking, Pending
<1>4. \A row : ~Removing(row)
  BY <1>1 DEF Removing
<1> QED BY <1>1, <1>2, <1>3, <1>4 DEF TaggedInv

LEMMA TouchTagged ==
    ASSUME TypeInv, AgreeInv, TaggedInv, NEW i, Touch(i)
    PROVE  TaggedInv'
<1>1. /\ pc = "touch" /\ pc' = pc /\ UNCHANGED <<run, chunks, chunkTags, todo, batch, stops, adrift>>
      /\ \/ catalog' = catalog
         \/ \E old \in catalog :
               /\ RowOf(old, i) /\ RowOf(NewRow(i), i)
               /\ catalog' = (catalog \ {old}) \cup {NewRow(i)}
  BY TouchedCatalog DEF Touch, faults
<1>2. \A row \in catalog' : \E old \in catalog : row.key = old.key /\ row.tag = old.tag
  BY <1>1 DEF RowOf
<1>3. /\ Sound' = Sound /\ Intact' = Intact
      /\ \A k, t : HasTag(k, t)' <=> HasTag(k, t)
  BY <1>1 DEF HasTag, Sound, Tags, Intact
<1>4. Arriving' = {} /\ Pending("addTag")' = Pending("addTag") /\ \A row : ~Removing(row)
  BY <1>1 DEF Arriving, Marking, Pending, Removing
<1> QED BY <1>1, <1>2, <1>3, <1>4 DEF TaggedInv

LEMMA TaggedStep ==
    ASSUME Settings, TypeInv, TypeInv', AgreeInv, PlanInv, ChunkInv, WorkInv, TaggedInv, [Next]_vars
    PROVE  TaggedInv'
<1>1. CASE Next
  <2>1. CASE User \/ (\E files \in SUBSET Paths : Start(files)) \/ Stat
    <3>1. Quiet' /\ Quiet /\ UNCHANGED <<catalog, chunks, chunkTags, adrift>>
      BY <2>1 DEF Settings, User, Edit, Checkout, Write, MayWrite, Start, Stat, Quiet, tables, faults
    <3>2. ~Marking
      BY <3>1 DEF Quiet, Marking
    <3> QED BY <3>1, <3>2, QuietTagged
  <2>2. CASE \/ AllBatchesDone \/ UpdateDone \/ Finish \/ Abort
             \/ UpdateError \/ MarkError \/ Crash \/ TransactionRejected
    BY <2>2, WaitTagged DEF WorkInv
  <2>3. CASE NextBatch \/ Plan
    BY <2>3, NextBatchTagged, PlanTagged DEF WorkInv
  <2>4. CASE Compute \/ InsertRejected
    BY <2>4, StopsGrow, ComputeTagged
  <2>5. CASE (\E i : AddTag(i)) \/ (\E i : RemoveTag(i)) \/ (\E i : Delete(i)) \/ Untag
    BY <2>5, AddTagTagged, RemoveTagTagged, DeleteTagged, UntagTagged DEF Settings
  <2>6. CASE (\E i : MarkCatalog(i)) \/ (\E i : MarkCache(i)) \/ (\E i : Touch(i))
    BY <2>6, MarkCatalogTagged, MarkCacheTagged, TouchTagged
  <2> QED BY <1>1, <2>1, <2>2, <2>3, <2>4, <2>5, <2>6, Steps
<1>2. CASE UNCHANGED vars
  <2>1. UNCHANGED <<catalog, chunks, chunkTags, run, marking, unmarked, pc, todo, batch, stops, adrift>>
    BY <1>2 DEF vars, tables, work, faults
  <2> QED BY <2>1 DEF TaggedInv, Removing, HasTag, Tags, Sound, Intact, Arriving, Marking, Pending
<1> QED BY <1>1, <1>2

LEMMA TaggedIsRecorded ==
    ASSUME OnePart, TypeInv, ChunkInv, TaggedInv, WholePlans \/ stops = 0
    PROVE  RecordedIsTagged
<1> SUFFICES ASSUME NEW row \in catalog, row.key \notin adrift, ~Removing(row), NEW n \in Parts
             PROVE  \E c \in Tagged(row.tag) : c.key = row.key /\ c.part = n
  BY DEF RecordedIsTagged
<1>0. row.key \in Intact
  BY RowFacts DEF Intact, TypeInv
<1>1. PICK u \in Tags : u.tag = row.tag /\ u.chunk.key = row.key
  BY <1>0 DEF TaggedInv, HasTag
<1>2. u.chunk \in Tagged(row.tag)
  <2>1. u \in chunkTags /\ u.chunk \in chunks /\ u \in [tag : Branches, chunk : Chunk]
    BY <1>1 DEF Tags, Sound, TypeInv
  <2>2. u = [tag |-> u.tag, chunk |-> u.chunk]
    BY <2>1
  <2> QED BY <1>1, <2>1, <2>2 DEF Tagged
<1>3. u.chunk.part = n
  <2>1. u.chunk \in Chunk
    BY <1>1 DEF TypeInv, Tags
  <2> QED BY <2>1 DEF OnePart, Chunk
<1> QED BY <1>1, <1>2, <1>3

\* Where plans fit a batch, or nothing is stopped, what the catalog says is indexed is
\* there, for any edits, checkouts and batches, except what a failure fell on: however
\* often inserts are rejected unnoticed, markings fail or the process ends.
THEOREM RecordIsTrue ==
    ASSUME Settings, WholePlans \/ MaxStops = 0
    PROVE  Spec => []RecordedIsTagged
<1> DEFINE Inv == TypeInv /\ AgreeInv /\ PlanInv /\ ChunkInv /\ WorkInv /\ TaggedInv
<1>1. Init => Inv
  <2>1. Init => TaggedInv
    BY PlanFacts DEF Init, TaggedInv, Arriving, Marking, Pending
  <2> QED BY <2>1, InitTyping, AgreeInit, ChunkInit, WorkInit
<1>2. Inv /\ [Next]_vars => Inv'
  BY StepTypingInv, AgreeStep, PlanStep, ChunkStep, WorkStep, TaggedStep DEF Settings
<1>3. Inv => RecordedIsTagged
  <2>1. TypeInv => WholePlans \/ stops = 0
    <3>1. TypeInv => stops \in 0..MaxStops
      BY DEF TypeInv
    <3> QED BY <3>1
  <2> QED BY <2>1, TaggedIsRecorded DEF Settings
<1> QED BY <1>1, <1>2, <1>3, PTL DEF Spec

-----------------------------------------------------------------------------
(* A full run that nothing disturbs                                        *)

\* A row not older than its file has the content of the file.
TimeInv ==
    /\ \A p \in Paths : disk[p].mtime <= clock
    /\ run.time <= clock
    /\ ~Quiet => \A p \in Paths : disk[p].mtime <= run.time
    /\ \A r \in catalog : /\ r.time <= clock
                          /\ r.time >= disk[r.path].mtime => r.key = disk[r.path].key

OnDisk == {[path |-> p, key |-> disk[p].key] : p \in {q \in Paths : Exists(q)}}
OnRecord(i, t) == \E r \in catalog : r.tag = t /\ ItemOf(r) = i

\* Once planned, what is on disk is recorded or still to be, and what is recorded is on
\* disk or still to go.
Ahead ==
    /\ \A i \in OnDisk : i \in Undone \/ OnRecord(i, run.tag)
    /\ \A r \in catalog : r.tag = run.tag => ItemOf(r) \in Going \cup OnDisk
    /\ Undone \subseteq OnDisk /\ Going \cap OnDisk = {}
Exact ==
    /\ \A i \in OnDisk : OnRecord(i, branch)
    /\ \A r \in catalog : r.tag = branch => ItemOf(r) \in OnDisk

FreshInv ==
    stops = 0 =>
        /\ fresh = "so far" =>
              /\ pc # "idle" /\ run.tag = branch /\ FullRun
              /\ pc # "stat" => /\ DOMAIN run.stats = {p \in Paths : Exists(p)}
                                /\ \A p \in DOMAIN run.stats : run.stats[p] = disk[p].mtime
              /\ ~Quiet => Ahead
        /\ fresh = "yes" =>
              /\ pc # "idle" => ~FullRun /\ run.tag = branch
              /\ pc = "plan" => \A p \in DOMAIN run.stats : Exists(p)
              /\ Undone = {} /\ Going = {} /\ ~Marking /\ pc # "update"
              /\ Exact

LEMMA Times ==
    ASSUME TypeInv
    PROVE  /\ clock \in Nat /\ run.time \in Nat
           /\ \A p \in Paths : disk[p].mtime \in Nat
           /\ \A r \in catalog : r.time \in Nat /\ r.path \in Paths
<1>1. clock \in 0..MaxEdits
  BY DEF TypeInv
<1>2. run.time \in 0..MaxEdits
  BY DEF TypeInv, Runs
<1>3. \A p \in Paths : disk[p].mtime \in 0..MaxEdits
  BY DEF TypeInv, Disks
<1>4. \A r \in catalog : r.time \in 0..MaxEdits /\ r.path \in Paths
  BY DEF TypeInv, Rows, Row
<1> QED BY <1>1, <1>2, <1>3, <1>4

\* Every change takes a new time stamp.
LEMMA WriteTimes ==
    ASSUME TypeInv, TimeInv, Quiet, NEW d, Write(d),
           \A p \in Paths : d[p] = disk[p] \/ d[p].mtime = clock + 1
    PROVE  TimeInv'
<1>1. clock' = clock + 1 /\ disk' = d /\ UNCHANGED <<catalog, run, pc>>
  BY DEF Write, tables
<1>2. \A p \in Paths : disk'[p].mtime <= clock'
  <2> SUFFICES ASSUME NEW p \in Paths PROVE disk'[p].mtime <= clock'
    OBVIOUS
  <2>1. disk[p].mtime <= clock /\ clock \in Nat /\ disk[p].mtime \in Nat
    BY Times DEF TimeInv
  <2>2. d[p] = disk[p] \/ d[p].mtime = clock + 1
    OBVIOUS
  <2> QED BY <1>1, <2>1, <2>2
<1>3. run'.time <= clock'
  BY <1>1, Times DEF TimeInv
<1>4. ASSUME NEW r \in catalog
      PROVE  r.time <= clock' /\ (r.time >= disk'[r.path].mtime => r.key = disk'[r.path].key)
  <2>1. r.time <= clock /\ (r.time >= disk[r.path].mtime => r.key = disk[r.path].key)
    BY DEF TimeInv
  <2>2. r.time \in Nat /\ clock \in Nat /\ r.path \in Paths
    BY Times
  <2>3. d[r.path] = disk[r.path] \/ d[r.path].mtime = clock + 1
    BY <2>2
  <2> QED BY <1>1, <2>1, <2>2, <2>3
<1> QED BY <1>1, <1>2, <1>3, <1>4 DEF TimeInv, Quiet

LEMMA UserTimes ==
    ASSUME TypeInv, TimeInv, Quiet, User
    PROVE  TimeInv'
<1>1. ASSUME NEW p \in Paths, NEW k, Edit(p, k) PROVE TimeInv'
  <2> DEFINE d == [disk EXCEPT ![p] = [key |-> k, mtime |-> clock + 1]]
  <2>1. \A q \in Paths : d[q] = disk[q] \/ d[q].mtime = clock + 1
    BY DEF TypeInv, Disks
  <2>2. Write(d)
    BY <1>1 DEF Edit
  <2> HIDE DEF d
  <2> QED BY <2>1, <2>2, WriteTimes
<1>2. ASSUME NEW b, NEW changed, Checkout(b, changed) PROVE TimeInv'
  <2> DEFINE d == [p \in Paths |-> IF p \in DOMAIN changed
                                  THEN [key |-> changed[p], mtime |-> clock + 1]
                                  ELSE disk[p]]
  <2>1. \A q \in Paths : d[q] = disk[q] \/ d[q].mtime = clock + 1
    OBVIOUS
  <2>2. Write(d)
    BY <1>2 DEF Checkout
  <2> HIDE DEF d
  <2> QED BY <2>1, <2>2, WriteTimes
<1> QED BY <1>1, <1>2 DEF User

\* Rows are new at most with the content on disk.
LEMMA RowTimes ==
    ASSUME TypeInv, TimeInv, ~Quiet, ~Quiet', UNCHANGED <<disk, clock, run>>,
           \A r \in catalog' : \/ r \in catalog
                               \/ \E i \in Undone \cup touched : r = NewRow(i),
           KeyInv
    PROVE  TimeInv'
<1>1. ASSUME NEW r \in catalog'
      PROVE  r.time <= clock /\ (r.time >= disk[r.path].mtime => r.key = disk[r.path].key)
  <2>1. CASE r \in catalog
    BY <2>1 DEF TimeInv
  <2>2. CASE \E i \in Undone \cup touched : r = NewRow(i)
    <3>1. PICK i \in Undone \cup touched : r = NewRow(i)
      BY <2>2
    <3>2. r.time = run.time /\ r.path = i.path /\ r.key = i.key
      BY <3>1 DEF NewRow
    <3>3. i.key = disk[i.path].key
      BY DEF KeyInv
    <3> QED BY <3>2, <3>3 DEF TimeInv
  <2> QED BY <2>1, <2>2
<1> QED BY <1>1 DEF TimeInv

LEMMA TimeStep ==
    ASSUME Settings, TypeInv, TypeInv', AgreeInv, PlaceInv, KeyInv, TimeInv, [Next]_vars
    PROVE  TimeInv'
<1>1. CASE Next
  <2>1. CASE User
    <3>1. Quiet
      BY <2>1 DEF Settings, User, Edit, Checkout, Write, MayWrite, Quiet
    <3> QED BY <2>1, <3>1, UserTimes
  <2>2. CASE (\E files \in SUBSET Paths : Start(files)) \/ Stat \/ Finish \/ Abort
    <3>1. UNCHANGED <<disk, clock, catalog>> /\ Quiet' /\ run'.time \in {0, run.time}
      <4>1. CASE (\E files \in SUBSET Paths : Start(files)) \/ Finish \/ Abort
        <5>1. \A t, fs : [NoRun EXCEPT !.tag = t, !.files = fs].time = 0
          BY DEF NoRun
        <5>2. NoRun.time = 0
          BY DEF NoRun
        <5>3. run'.time = 0
          BY <4>1, <5>1, <5>2 DEF Start, Finish, Abort, Idle
        <5> QED BY <4>1, <5>3 DEF Start, Finish, Abort, Idle, Quiet, disks, tables
      <4>2. CASE Stat
        <5>1. run \in Runs
          BY DEF TypeInv
        <5>2. run'.time = run.time
          BY <4>2, <5>1 DEF Stat, Runs
        <5> QED BY <4>2, <5>2 DEF Stat, Quiet, disks, tables
      <4> QED BY <2>2, <4>1, <4>2
    <3> QED BY <3>1, Times DEF TimeInv
  <2>3. CASE Plan
    <3>1. UNCHANGED <<disk, clock, catalog>> /\ run'.time = clock
      BY <2>3 DEF Plan, disks, tables, TypeInv, Runs
    <3> QED BY <3>1, Times DEF TimeInv
  <2>4. CASE UpdateError \/ MarkError \/ Crash \/ TransactionRejected
    <3>1. UNCHANGED <<disk, clock, catalog>> /\ (GiveUp \/ Idle)
      BY <2>4, FailuresRest DEF UpdateError, MarkError, Crash, TransactionRejected, GiveUp,
            disks, tables
    <3>2. CASE pc' = "idle"
      <4>1. Quiet' /\ run' = NoRun
        BY <3>1, <3>2, GaveUp DEF Quiet
      <4> QED BY <3>1, <4>1, Times DEF TimeInv, NoRun
    <3>3. CASE pc' # "idle"
      <4>1. run' = run /\ ~Quiet
        BY <2>4, <3>1, <3>3, GaveUp DEF UpdateError, MarkError, Crash, Idle, TransactionRejected, Quiet
      <4> QED BY <3>1, <4>1, Times DEF TimeInv
    <3> QED BY <3>2, <3>3
  <2>8. CASE InsertRejected
    <3>1. UNCHANGED <<disk, clock, catalog, run>> /\ ~Quiet /\ ~Quiet'
      BY <2>8, InsertRejectedHandsOver, HandOverKeeps DEF HandsOver
    <3> QED BY <3>1, RowTimes
  <2>5. CASE \/ NextBatch \/ AllBatchesDone \/ UpdateDone \/ Compute
             \/ (\E i : AddTag(i)) \/ (\E i : RemoveTag(i)) \/ (\E i : Delete(i)) \/ Untag
             \/ (\E i : MarkCache(i))
    <3>1. Keeps
      BY <2>5, KeepSteps
    <3> QED BY <3>1, RowTimes DEF Keeps
  <2>6. ASSUME NEW i, MarkCatalog(i) PROVE TimeInv'
    <3>1. /\ UNCHANGED <<disk, clock, run>> /\ ~Quiet /\ ~Quiet'
          /\ Adding(marking.op) => i \in Undone
      BY <2>6, MarkCatalogWork
    <3>2. \A r \in catalog' : r \in catalog \/ (Adding(marking.op) /\ r = NewRow(i))
      BY <2>6, MarkedCatalog
    <3> QED BY <3>1, <3>2, RowTimes
  <2>7. ASSUME NEW i, Touch(i) PROVE TimeInv'
    <3>1. UNCHANGED <<disk, clock, run>> /\ ~Quiet /\ ~Quiet'
      BY <2>7, TouchWork
    <3>2. i \in touched /\ \A r \in catalog' : r \in catalog \/ r = NewRow(i)
      BY <2>7, TouchedCatalog
    <3> QED BY <3>1, <3>2, RowTimes
  <2> QED BY <1>1, <2>1, <2>2, <2>3, <2>4, <2>5, <2>6, <2>7, <2>8, Steps
<1>2. CASE UNCHANGED vars
  BY <1>2 DEF TimeInv, vars, disks, tables, Quiet
<1> QED BY <1>1, <1>2

LEMMA TimeInit ==
    ASSUME Init
    PROVE  TimeInv
<1>1. /\ catalog = {} /\ run = NoRun /\ clock = 0 /\ Quiet
      /\ \A p \in Paths : disk[p].mtime = 0
  BY DEF Init, Quiet
<1> QED BY <1>1 DEF TimeInv, NoRun

\* The full plan brings every file up to date.
LEMMA PlanAhead ==
    ASSUME TypeInv, TimeInv, VersionInv, stops = 0, Plan, FullRun,
           DOMAIN run.stats = {p \in Paths : Exists(p)},
           \A p \in DOMAIN run.stats : run.stats[p] = disk[p].mtime
    PROVE  Ahead'
<1> DEFINE D == DOMAIN run.stats
           S == Saved(run.tag)
           Ch == Changed(run.tag, run.stats)
           R == ToRemove(run.tag, run.stats)
<1>1. /\ UNCHANGED <<disk, catalog>> /\ run'.tag = run.tag /\ pc = "plan"
      /\ Undone' = ToAdd(run.tag, run.stats) /\ Going' = R
  BY PlanWork DEF OnlyFiles
<1>2. OneVersion
  BY <1>1, QuietWork, OneVersionLeft DEF Quiet
<1>3. OnDisk' = OnDisk
  BY <1>1 DEF OnDisk, Exists
<1>4. \A i, t : OnRecord(i, t)' <=> OnRecord(i, t)
  BY <1>1 DEF OnRecord
<1>5. Ch \subseteq S \cap D
  BY DEF Changed, Modified
<1>6. ASSUME NEW r \in catalog, r.tag = run.tag, r.path \in D, r.path \notin Ch
      PROVE  r.key = disk[r.path].key
  <2>1. Latest(run.tag, r.path) = r /\ r.path \in S
    BY <1>2, <1>6, LatestIsOnly DEF Saved
  <2>2. CASE r.path \in Modified(run.tag, run.stats)
    BY <1>6, <2>1, <2>2 DEF Changed
  <2>3. CASE r.path \notin Modified(run.tag, run.stats)
    <3>1. ~(r.time < disk[r.path].mtime)
      BY <1>6, <2>1, <2>3 DEF Modified
    <3>2. r.time \in Nat /\ disk[r.path].mtime \in Nat
      BY Times
    <3>3. r.time >= disk[r.path].mtime
      BY <3>1, <3>2
    <3> QED BY <3>3 DEF TimeInv
  <2> QED BY <2>2, <2>3
<1>7. /\ \A i \in ToAdd(run.tag, run.stats) :
            i.path \in (D \ S) \cup Ch /\ i = [path |-> i.path, key |-> disk[i.path].key]
      /\ \A p \in (D \ S) \cup Ch : [path |-> p, key |-> disk[p].key] \in ToAdd(run.tag, run.stats)
  BY PlannedAdds
<1>8. /\ \A i \in R : \E row \in Versions(run.tag, i.path) :
            /\ i = ItemOf(row)
            /\ \/ i.path \in (S \ D) \cup Ch
               \/ row # Latest(run.tag, i.path) /\ i.path \in D
      /\ \A p \in (S \ D) \cup Ch, row \in catalog :
            row.tag = run.tag /\ row.path = p => ItemOf(row) \in R
  BY PlannedRemoves
<1>9. \A p \in D : p \in Paths /\ Exists(p)
  OBVIOUS
<1>10. \A p \in Paths : Exists(p) => p \in D
  OBVIOUS
<1> HIDE DEF D, Ch, R
<1>11. ASSUME NEW i \in OnDisk PROVE i \in Undone' \/ OnRecord(i, run.tag)
  <2>1. PICK p \in D : i = [path |-> p, key |-> disk[p].key]
    BY <1>10 DEF OnDisk
  <2>2. CASE p \notin S \/ p \in Ch
    BY <1>1, <1>7, <2>1, <2>2
  <2>3. CASE p \in S /\ p \notin Ch
    <3>1. PICK r \in catalog : r.tag = run.tag /\ r.path = p
      BY <2>3 DEF Saved
    <3>2. r.key = disk[p].key
      BY <1>6, <2>1, <2>3, <3>1
    <3> QED BY <2>1, <3>1, <3>2 DEF OnRecord, ItemOf
  <2> QED BY <2>2, <2>3
<1>12. ASSUME NEW r \in catalog, r.tag = run.tag PROVE ItemOf(r) \in Going' \cup OnDisk
  <2>1. r.path \in S
    BY <1>12 DEF Saved
  <2>2. CASE r.path \notin D \/ r.path \in Ch
    BY <1>1, <1>8, <1>12, <2>1, <2>2
  <2>3. CASE r.path \in D /\ r.path \notin Ch
    <3>1. r.key = disk[r.path].key /\ r.path \in Paths /\ Exists(r.path)
      BY <1>6, <1>9, <1>12, <2>3
    <3> QED BY <3>1 DEF OnDisk, ItemOf
  <2> QED BY <2>2, <2>3
<1>13. Undone' \subseteq OnDisk
  <2> SUFFICES ASSUME NEW i \in Undone' PROVE i \in OnDisk
    OBVIOUS
  <2>1. i.path \in (D \ S) \cup Ch /\ i = [path |-> i.path, key |-> disk[i.path].key]
    BY <1>1, <1>7
  <2>2. i.path \in Paths /\ Exists(i.path)
    BY <1>5, <1>9, <2>1
  <2> QED BY <2>1, <2>2 DEF OnDisk
<1>14. Going' \cap OnDisk = {}
  <2> SUFFICES ASSUME NEW i \in Going', i \in OnDisk PROVE FALSE
    OBVIOUS
  <2>1. PICK row \in Versions(run.tag, i.path) :
            /\ i = ItemOf(row)
            /\ \/ i.path \in (S \ D) \cup Ch
               \/ row # Latest(run.tag, i.path) /\ i.path \in D
    BY <1>1, <1>8
  <2>2. i.path \in D /\ i.key = disk[i.path].key
    BY <1>10 DEF OnDisk
  <2>3. row \in catalog /\ row.tag = run.tag /\ row.path = i.path /\ row.key = i.key
    BY <2>1 DEF Versions, ItemOf
  <2>4. Latest(run.tag, i.path) = row
    BY <1>2, <2>3, LatestIsOnly
  <2>5. i.path \notin Ch
    BY <2>2, <2>3, <2>4 DEF Changed, Ch
  <2> QED BY <2>1, <2>2, <2>4, <2>5
<1> QED BY <1>1, <1>3, <1>4, <1>11, <1>12, <1>13, <1>14 DEF Ahead

\* Where all is recorded, a single file leaves nothing to do.
LEMMA PlanNothing ==
    ASSUME TypeInv, VersionInv, stops = 0, Plan, ~FullRun, Exact, run.tag = branch,
           \A p \in DOMAIN run.stats : Exists(p)
    PROVE  Undone' = {} /\ Going' = {}
<1>1. /\ UNCHANGED <<disk, catalog>> /\ run'.tag = run.tag /\ pc = "plan"
      /\ Undone' \subseteq ToAdd(run.tag, run.stats)
      /\ \A i \in Going' : i \in ToRemove(run.tag, run.stats) /\ i.path \in DOMAIN run.stats
  BY PlanWork DEF OnlyFiles
<1>2. OneVersion
  BY <1>1, QuietWork, OneVersionLeft DEF Quiet
<1>3. DOMAIN run.stats \subseteq Paths
  BY StatsDomain DEF TypeInv
<1>4. ASSUME NEW r \in catalog, r.tag = run.tag
      PROVE  Latest(run.tag, r.path) = r /\ r.path \notin Changed(run.tag, run.stats)
  <2>1. Latest(run.tag, r.path) = r
    BY <1>2, <1>4, LatestIsOnly
  <2>2. ItemOf(r) \in OnDisk
    BY <1>4 DEF Exact
  <2>3. r.key = disk[r.path].key
    BY <2>2 DEF OnDisk, ItemOf
  <2> QED BY <2>1, <2>3 DEF Changed
<1>5. ASSUME NEW i \in Undone' PROVE FALSE
  <2>1. /\ i.path \in (DOMAIN run.stats \ Saved(run.tag)) \cup Changed(run.tag, run.stats)
        /\ i = [path |-> i.path, key |-> disk[i.path].key]
    BY <1>1, PlannedAdds
  <2>2. i.path \in Paths /\ Exists(i.path)
    BY <1>3, <2>1 DEF Changed, Modified
  <2>3. i \in OnDisk
    BY <2>1, <2>2 DEF OnDisk
  <2>4. PICK r \in catalog : r.tag = run.tag /\ ItemOf(r) = i
    BY <2>3 DEF Exact, OnRecord
  <2>5. r.path = i.path
    BY <2>4 DEF ItemOf
  <2>6. i.path \in Saved(run.tag)
    BY <2>4, <2>5 DEF Saved
  <2> QED BY <1>4, <2>1, <2>4, <2>5, <2>6
<1>6. ASSUME NEW i \in Going' PROVE FALSE
  <2>1. PICK row \in Versions(run.tag, i.path) :
            \/ i.path \in (Saved(run.tag) \ DOMAIN run.stats) \cup Changed(run.tag, run.stats)
            \/ row # Latest(run.tag, i.path)
    BY <1>1, PlannedRemoves
  <2>2. row \in catalog /\ row.tag = run.tag /\ row.path = i.path
    BY DEF Versions
  <2> QED BY <1>1, <1>4, <2>1, <2>2
<1> QED BY <1>5, <1>6

LEMMA MarkCatalogAhead ==
    ASSUME TypeInv, Ahead, NEW i, MarkCatalog(i)
    PROVE  Ahead'
<1>1. /\ UNCHANGED <<disk, run>> /\ Undone' \subseteq Undone /\ Going' \subseteq Going
      /\ IF Adding(marking.op) THEN i \in Undone /\ Going' = Going /\ Undone \subseteq Undone' \cup {i}
         ELSE i \in Going /\ Undone' = Undone /\ Going \subseteq Going' \cup {i}
  BY MarkCatalogWork
<1>2. /\ i \in Fitting /\ RowOf(NewRow(i), i)
      /\ \A row \in catalog' : \/ row \in catalog /\ ~RowOf(row, i)
                               \/ Adding(marking.op) /\ row = NewRow(i)
      /\ \A row \in catalog : row \in catalog' \/ RowOf(row, i)
      /\ Adding(marking.op) => NewRow(i) \in catalog'
  BY MarkedCatalog
<1>3. i = [path |-> i.path, key |-> i.key]
  BY <1>2, FittingFacts DEF Item
<1>4. \A r : RowOf(r, i) <=> r.tag = run.tag /\ ItemOf(r) = i
  BY <1>3 DEF ItemOf, RowOf
<1>5. OnDisk' = OnDisk
  BY <1>1 DEF OnDisk, Exists
<1> HIDE DEF NewRow
<1>6. ASSUME NEW j \in OnDisk PROVE j \in Undone' \/ OnRecord(j, run.tag)'
  <2>1. CASE j = i
    <3>1. Adding(marking.op)
      BY <1>1, <1>6, <2>1 DEF Ahead
    <3>2. NewRow(i) \in catalog' /\ NewRow(i).tag = run.tag /\ ItemOf(NewRow(i)) = j
      BY <1>2, <1>4, <2>1, <3>1
    <3> QED BY <1>1, <3>2 DEF OnRecord
  <2>2. CASE j # i /\ j \in Undone
    BY <1>1, <2>2
  <2>3. CASE j # i /\ OnRecord(j, run.tag)
    <3>1. PICK r \in catalog : r.tag = run.tag /\ ItemOf(r) = j
      BY <2>3 DEF OnRecord
    <3>2. r \in catalog'
      BY <1>2, <1>4, <2>3, <3>1
    <3> QED BY <1>1, <3>1, <3>2 DEF OnRecord
  <2> QED BY <2>1, <2>2, <2>3 DEF Ahead
<1>7. ASSUME NEW r \in catalog', r.tag = run.tag PROVE ItemOf(r) \in Going' \cup OnDisk
  <2>1. CASE r \in catalog /\ ~RowOf(r, i)
    BY <1>1, <1>4, <1>7, <2>1 DEF Ahead
  <2>2. CASE Adding(marking.op) /\ r = NewRow(i)
    BY <1>1, <1>2, <1>4, <2>2 DEF Ahead
  <2> QED BY <1>2, <2>1, <2>2
<1>8. Undone' \subseteq OnDisk /\ Going' \cap OnDisk = {}
  BY <1>1 DEF Ahead
<1> QED BY <1>1, <1>5, <1>6, <1>7, <1>8 DEF Ahead

\* Touch keeps what is recorded.
LEMMA TouchKeeps ==
    ASSUME TypeInv, AgreeInv, NEW i, Touch(i)
    PROVE  /\ \A j, t : OnRecord(j, t) => OnRecord(j, t)'
           /\ \A r \in catalog' : \E s \in catalog : r.tag = s.tag /\ ItemOf(r) = ItemOf(s)
<1>1. CASE catalog' = catalog
  BY <1>1 DEF OnRecord
<1>2. CASE catalog' # catalog
  <2>1. PICK old \in catalog :
          /\ RowOf(old, i) /\ RowOf(NewRow(i), i)
          /\ catalog' = (catalog \ {old}) \cup {NewRow(i)}
    BY <1>2, TouchedCatalog
  <2> DEFINE new == NewRow(i)
  <2>2. ItemOf(new) = ItemOf(old) /\ new.tag = old.tag
    BY <2>1 DEF RowOf, ItemOf
  <2> HIDE DEF new
  <2>3. catalog' = (catalog \ {old}) \cup {new}
    BY <2>1 DEF new
  <2>4. \A j, t : OnRecord(j, t) => OnRecord(j, t)'
    <3> SUFFICES ASSUME NEW j, NEW t, OnRecord(j, t) PROVE OnRecord(j, t)'
      OBVIOUS
    <3>1. PICK r \in catalog : r.tag = t /\ ItemOf(r) = j
      BY DEF OnRecord
    <3>2. CASE r = old
      BY <2>2, <2>3, <3>1, <3>2 DEF OnRecord
    <3>3. CASE r # old
      BY <2>3, <3>1, <3>3 DEF OnRecord
    <3> QED BY <3>2, <3>3
  <2> QED BY <2>2, <2>3, <2>4
<1> QED BY <1>1, <1>2

LEMMA KeepsAhead ==
    ASSUME Keeps
    PROVE  (Ahead => Ahead') /\ (Exact => Exact')
<1>1. OnDisk' = OnDisk /\ \A i, t : OnRecord(i, t)' <=> OnRecord(i, t)
  BY DEF Keeps, OnDisk, Exists, OnRecord
<1> QED BY <1>1 DEF Keeps, Ahead, Exact

LEMMA TouchAhead ==
    ASSUME TypeInv, AgreeInv, NEW i, Touch(i)
    PROVE  (Ahead => Ahead') /\ (Exact => Exact')
<1>1. UNCHANGED <<disk, branch, run>> /\ Undone' = Undone /\ Going' = Going
  BY TouchWork
<1>2. OnDisk' = OnDisk
  BY <1>1 DEF OnDisk, Exists
<1>3. /\ \A j, t : OnRecord(j, t) => OnRecord(j, t)'
      /\ \A r \in catalog' : \E s \in catalog : r.tag = s.tag /\ ItemOf(r) = ItemOf(s)
  BY TouchKeeps
<1> QED BY <1>1, <1>2, <1>3 DEF Ahead, Exact

\* With nothing left to do, being ahead is being exact.
LEMMA AheadIsExact ==
    ASSUME Ahead, Undone = {}, Going = {}, run.tag = branch
    PROVE  Exact
BY DEF Ahead, Exact

LEMMA StartFresh ==
    ASSUME FreshInv, NEW files \in SUBSET Paths, Start(files)
    PROVE  FreshInv'
<1>1. /\ UNCHANGED <<disk, branch, catalog, stops, todo, batch, marking, unmarked>>
      /\ pc = "idle" /\ pc' = "stat" /\ fresh' = IF files = Paths THEN "so far" ELSE fresh
  BY DEF Start, disks, tables, work, faults
<1>2. run'.tag = branch /\ run'.files = files
  BY DEF Start, NoRun
<1>3. FullRun' <=> files = Paths
  BY <1>2 DEF FullRun
<1>4. Undone' = Undone /\ Going' = Going /\ OnDisk' = OnDisk /\ \A i, t : OnRecord(i, t)' <=> OnRecord(i, t)
  BY <1>1 DEF Undone, Going, Pending, OnDisk, Exists, OnRecord
<1>5. Exact => Exact'
  BY <1>1, <1>4 DEF Exact
<1>6. Quiet' /\ ~Marking'
  BY <1>1 DEF Quiet, Marking
<1> QED BY <1>1, <1>2, <1>3, <1>4, <1>5, <1>6 DEF FreshInv

LEMMA StatFresh ==
    ASSUME TypeInv, FreshInv, Stat
    PROVE  FreshInv'
<1>1. /\ UNCHANGED <<disk, branch, catalog, stops, fresh, todo, batch, marking, unmarked>>
      /\ pc = "stat" /\ pc' = "plan" /\ run \in Runs
      /\ run' = [run EXCEPT !.stats = [p \in {q \in run.files : Exists(q)} |-> disk[p].mtime]]
  BY DEF Stat, disks, tables, work, faults, TypeInv
<1>2. /\ run'.tag = run.tag /\ run'.files = run.files
      /\ DOMAIN run'.stats = {q \in run.files : Exists(q)}
      /\ \A p \in DOMAIN run'.stats : run'.stats[p] = disk[p].mtime
  BY <1>1 DEF Runs
<1>3. /\ Undone' = Undone /\ Going' = Going /\ OnDisk' = OnDisk
      /\ \A i, t : OnRecord(i, t)' <=> OnRecord(i, t)
      /\ \A p : Exists(p)' <=> Exists(p)
  BY <1>1 DEF Undone, Going, Pending, OnDisk, Exists, OnRecord
<1>4. Exact => Exact'
  BY <1>1, <1>3 DEF Exact
<1>5. Quiet' /\ ~Marking' /\ (FullRun' <=> FullRun)
  BY <1>1, <1>2 DEF Quiet, Marking, FullRun
<1> QED BY <1>1, <1>2, <1>3, <1>4, <1>5 DEF FreshInv, FullRun

LEMMA PlanFresh ==
    ASSUME TypeInv, TimeInv, VersionInv, FreshInv, Plan
    PROVE  FreshInv'
<1> SUFFICES ASSUME stops' = 0 PROVE FreshInv'
  BY DEF FreshInv
<1>1. /\ UNCHANGED <<disk, branch, clock, catalog, stops, fresh>>
      /\ run'.tag = run.tag /\ run'.files = run.files /\ run'.stats = run.stats
      /\ pc = "plan" /\ ~Quiet'
  BY PlanWork
<1>2. pc' = "batch" /\ ~Marking'
  BY DEF Plan, Marking
<1>3. /\ \A p : Exists(p)' <=> Exists(p)
      /\ FullRun' <=> FullRun
  BY <1>1 DEF Exists, FullRun
<1>4. CASE fresh = "so far"
  <2>1. /\ run.tag = branch /\ FullRun /\ DOMAIN run.stats = {p \in Paths : Exists(p)}
        /\ \A p \in DOMAIN run.stats : run.stats[p] = disk[p].mtime
    BY <1>1, <1>4 DEF FreshInv
  <2>2. Ahead'
    BY <1>1, <2>1, PlanAhead
  <2> QED BY <1>1, <1>2, <1>3, <1>4, <2>1, <2>2 DEF FreshInv
<1>5. CASE fresh = "yes"
  <2>1. ~FullRun /\ run.tag = branch /\ Exact /\ \A p \in DOMAIN run.stats : Exists(p)
    BY <1>1, <1>5 DEF FreshInv
  <2>2. Undone' = {} /\ Going' = {}
    BY <1>1, <2>1, PlanNothing
  <2>3. Exact'
    BY <1>1, <2>1 DEF Exact, OnDisk, Exists, OnRecord
  <2> QED BY <1>1, <1>2, <1>3, <1>5, <2>1, <2>2, <2>3 DEF FreshInv
<1> QED BY <1>1, <1>4, <1>5 DEF FreshInv

\* The steps at work: nothing is left to them once all is recorded.
LEMMA KeepsFresh ==
    ASSUME TypeInv, PlaceInv, FreshInv,
           \/ NextBatch \/ AllBatchesDone \/ UpdateDone \/ Compute
           \/ (\E i : AddTag(i)) \/ (\E i : RemoveTag(i)) \/ (\E i : Delete(i)) \/ Untag
           \/ (\E i : MarkCache(i))
    PROVE  FreshInv'
<1>1. Keeps
  BY KeepSteps
<1>2. /\ UNCHANGED <<disk, branch, run, stops, fresh>> /\ Undone' = Undone /\ Going' = Going
      /\ ~Quiet /\ pc' \notin {"idle", "stat", "plan"}
  BY <1>1 DEF Keeps, Quiet
<1>3. (Ahead => Ahead') /\ (Exact => Exact') /\ (FullRun' <=> FullRun) /\ \A p : Exists(p)' <=> Exists(p)
  BY <1>1, <1>2, KeepsAhead DEF FullRun, Exists
<1>4. ASSUME stops = 0, fresh = "yes" PROVE pc' = "touch" /\ ~Marking'
  <2>1. Undone = {} /\ Going = {} /\ ~Marking /\ pc # "update"
    BY <1>4 DEF FreshInv
  <2>2. ASSUME NextBatch PROVE FALSE
    <3>1. \A op \in Ops : todo[op] = {}
      BY <2>1, PlanFacts DEF Undone, Going, Pending
    <3>2. todo = NoPlan
      BY <3>1 DEF TypeInv, Plans, NoPlan
    <3> QED BY <2>2, <3>2 DEF NextBatch
  <2>3. AllBatchesDone
    BY <2>1, <2>2 DEF UpdateDone, Compute, AddTag, RemoveTag, Delete, Untag, MarkCache, Marking
  <2> QED BY <2>3 DEF AllBatchesDone, Marking
<1> QED BY <1>2, <1>3, <1>4 DEF FreshInv, Quiet

LEMMA MarkCatalogFresh ==
    ASSUME TypeInv, FreshInv, NEW i, MarkCatalog(i)
    PROVE  FreshInv'
<1>1. UNCHANGED <<disk, branch, run, stops, fresh>> /\ ~Quiet /\ ~Quiet'
  BY MarkCatalogWork
<1>2. (Ahead => Ahead') /\ (FullRun' <=> FullRun) /\ (\A p : Exists(p)' <=> Exists(p)) /\ Marking
  BY <1>1, MarkCatalogAhead, MarkedCatalog DEF FullRun, Exists, Marking
<1> QED BY <1>1, <1>2 DEF FreshInv, Quiet

LEMMA TouchFresh ==
    ASSUME TypeInv, AgreeInv, FreshInv, NEW i, Touch(i)
    PROVE  FreshInv'
<1>1. UNCHANGED <<disk, branch, run, stops, fresh>> /\ ~Quiet /\ Undone' = Undone /\ Going' = Going
  BY TouchWork
<1>2. (Ahead => Ahead') /\ (Exact => Exact') /\ (FullRun' <=> FullRun) /\ \A p : Exists(p)' <=> Exists(p)
  BY <1>1, TouchAhead DEF FullRun, Exists
<1>3. pc = "touch" /\ pc' = pc /\ ~Marking'
  BY DEF Touch, Marking
<1> QED BY <1>1, <1>2, <1>3 DEF FreshInv, Quiet

LEMMA FinishFresh ==
    ASSUME TypeInv, TypeInv', PlaceInv, FreshInv, Finish
    PROVE  FreshInv'
<1>1. /\ UNCHANGED <<disk, branch, catalog, stops>> /\ pc = "touch" /\ pc' = "idle"
      /\ fresh' = IF fresh = "so far" THEN "yes" ELSE fresh
  BY DEF Finish, Idle, disks, tables, faults
<1>2. /\ Undone = {} /\ Going = {} /\ Undone' = {} /\ Going' = {} /\ ~Marking' /\ ~Quiet
  <2>1. todo = NoPlan /\ batch = NoPlan /\ todo' = NoPlan /\ batch' = NoPlan
    BY <1>1 DEF PlaceInv, Finish, Idle
  <2>2. Undone' = {} /\ Going' = {}
    BY <1>1, <2>1, PlanFacts DEF Undone, Going, Pending
  <2> QED BY <1>1, <2>1, <2>2, NothingLeft DEF Marking, Quiet
<1>3. Exact => Exact'
  BY <1>1 DEF Exact, OnDisk, Exists, OnRecord
<1>4. stops = 0 /\ fresh = "so far" => Exact
  BY <1>2, AheadIsExact DEF FreshInv
<1> QED BY <1>1, <1>2, <1>3, <1>4 DEF FreshInv

LEMMA FreshStep ==
    ASSUME Settings, TypeInv, TypeInv', AgreeInv, WorkInv, TimeInv, FreshInv, [Next]_vars
    PROVE  FreshInv'
<1>1. CASE Next
  <2>1. CASE User \/ Abort \/ UpdateError \/ MarkError \/ Crash \/ InsertRejected
             \/ TransactionRejected
    <3>1. fresh' = "no"
      BY <2>1 DEF User, Edit, Checkout, Write, Abort, UpdateError, MarkError, Crash,
            InsertRejected, TransactionRejected, GiveUp
    <3> QED BY <3>1 DEF FreshInv
  <2>2. CASE (\E files \in SUBSET Paths : Start(files)) \/ Stat \/ Plan \/ Finish
    BY <2>2, StartFresh, StatFresh, PlanFresh, FinishFresh DEF WorkInv
  <2>3. CASE \/ NextBatch \/ AllBatchesDone \/ UpdateDone \/ Compute
             \/ (\E i : AddTag(i)) \/ (\E i : RemoveTag(i)) \/ (\E i : Delete(i)) \/ Untag
             \/ (\E i : MarkCache(i))
    BY <2>3, KeepsFresh DEF WorkInv
  <2>4. CASE (\E i : MarkCatalog(i)) \/ (\E i : Touch(i))
    BY <2>4, MarkCatalogFresh, TouchFresh
  <2> QED BY <1>1, <2>1, <2>2, <2>3, <2>4, Steps
<1>2. CASE UNCHANGED vars
  <2>1. UNCHANGED <<disk, branch, catalog, run, pc, stops, fresh, marking>>
        /\ Undone' = Undone /\ Going' = Going
    BY <1>2, StutterWork DEF vars, work
  <2>2. (Ahead => Ahead') /\ (Exact => Exact')
    BY <2>1 DEF Ahead, Exact, OnDisk, Exists, OnRecord
  <2> QED BY <2>1, <2>2 DEF FreshInv, Quiet, Marking, FullRun, Exists
<1> QED BY <1>1, <1>2

\* Nothing is adrift before anything has failed.
Unharmed == stops = 0 => adrift = {Absent}

LEMMA UnharmedStep ==
    ASSUME TypeInv, Unharmed, [Next]_vars
    PROVE  Unharmed'
<1>1. UNCHANGED <<stops, adrift>> \/ stops' = stops + 1
  <2>1. CASE Next
    <3>1. CASE Compute \/ (\E i : AddTag(i)) \/ (\E i : RemoveTag(i)) \/ (\E i : Delete(i))
      BY <3>1, Updates
    <3>2. CASE Abort \/ UpdateError \/ MarkError \/ Crash \/ InsertRejected \/ TransactionRejected
      BY <3>2 DEF Abort, UpdateError, MarkError, Crash, InsertRejected, TransactionRejected
    <3>3. CASE User \/ (\E files \in SUBSET Paths : Start(files)) \/ Stat \/ Plan \/ NextBatch
               \/ AllBatchesDone \/ UpdateDone \/ Finish \/ Untag
               \/ (\E i : MarkCatalog(i)) \/ (\E i : MarkCache(i)) \/ (\E i : Touch(i))
      BY <3>3 DEF User, Edit, Checkout, Write, Start, Stat, Plan, NextBatch, AllBatchesDone,
            UpdateDone, Finish, Untag, MarkCatalog, MarkCache, Touch, faults
    <3> QED BY <2>1, <3>1, <3>2, <3>3, Steps
  <2>2. CASE UNCHANGED vars
    BY <2>2 DEF vars, faults
  <2> QED BY <2>1, <2>2
<1> QED BY <1>1, StopsCount DEF Unharmed

\* The chunks of a tag follow its rows.
LEMMA FreshChunks ==
    ASSUME Distinct, TypeInv, AgreeInv, ChunkInv, TaggedInv, FreshInv, Unharmed,
           fresh = "yes", stops = 0
    PROVE  {[path |-> c.path, key |-> c.key] : c \in Tagged(branch)} = ItemsOf(Catalogued(branch))
<1>1. ~Marking /\ Arriving = {} /\ Exact /\ branch \in Branches
  BY DEF FreshInv, Arriving, TypeInv
<1>2. ASSUME NEW r \in catalog, r.tag = branch
      PROVE  /\ r.key # Absent /\ r.key \in ContentsOf[r.path] /\ r.path \in Paths
             /\ r.key \in Intact
  <2>1. ItemOf(r) \in OnDisk
    BY <1>1, <1>2 DEF Exact
  <2>2. r.key # Absent
    BY <2>1 DEF OnDisk, ItemOf, Exists
  <2> QED BY <2>2, RowFacts DEF Fits, Intact, Unharmed
<1>3. ASSUME NEW r \in catalog, r.tag = branch
      PROVE  \E c \in Tagged(branch) : c.path = r.path /\ c.key = r.key
  <2>1. HasTag(r.key, branch)
    BY <1>1, <1>2, <1>3 DEF TaggedInv, Removing, Marking
  <2>2. PICK u \in Tags : u.tag = branch /\ u.chunk.key = r.key
    BY <2>1 DEF HasTag
  <2>3. u.chunk \in chunks /\ u.chunk \in Tagged(branch)
    <3>1. u \in chunkTags /\ u.chunk \in chunks /\ u \in [tag : Branches, chunk : Chunk]
      BY <2>2 DEF Tags, Sound, TypeInv
    <3>2. u = [tag |-> u.tag, chunk |-> u.chunk]
      BY <3>1
    <3> QED BY <2>2, <3>1, <3>2 DEF Tagged
  <2>4. u.chunk.path = r.path
    BY <1>2, <1>3, <2>2, <2>3, ChunkFacts, RowFacts, KeyTellsPath
  <2> QED BY <2>2, <2>3, <2>4
<1>4. ASSUME NEW c \in Tagged(branch)
      PROVE  \E r \in catalog : r.tag = branch /\ c.path = r.path /\ c.key = r.key
  <2>1. c \in chunks /\ [tag |-> branch, chunk |-> c] \in chunkTags
    BY DEF Tagged
  <2>3. c.key \in Intact
    BY <2>1, ChunkFacts DEF Intact, Unharmed
  <2>6. [tag |-> branch, chunk |-> c] \in Tags
    BY <2>1, <2>3 DEF Tags, Sound
  <2>2. c \in chunks /\ InCache(c.key, branch)
    BY <1>1, <2>1, <2>6 DEF ChunkInv
  <2>4. PICK r \in catalog : r.key = c.key /\ r.tag = branch
    BY <1>1, <2>2, <2>3, CacheIsCatalog DEF InCatalog
  <2>5. r.path = c.path
    BY <1>2, <2>2, <2>4, ChunkFacts, RowFacts, KeyTellsPath
  <2> QED BY <2>4, <2>5
<1>5. ItemsOf(Catalogued(branch)) =
          {[path |-> r.path, key |-> r.key] : r \in {s \in catalog : s.tag = branch}}
  BY DEF ItemsOf, Catalogued
<1> QED BY <1>3, <1>4, <1>5

LEMMA FreshRows ==
    ASSUME FreshInv, fresh = "yes", stops = 0
    PROVE  ItemsOf(Catalogued(branch)) =
              {[path |-> p, key |-> disk[p].key] : p \in {q \in Paths : Exists(q)}}
<1>1. /\ \A i \in OnDisk : \E r \in catalog : r.tag = branch /\ ItemOf(r) = i
      /\ \A r \in catalog : r.tag = branch => ItemOf(r) \in OnDisk
  BY DEF FreshInv, Exact, OnRecord
<1>2. ItemsOf(Catalogued(branch)) = {ItemOf(r) : r \in {s \in catalog : s.tag = branch}}
  BY DEF ItemsOf, Catalogued, ItemOf
<1>3. ItemsOf(Catalogued(branch)) = OnDisk
  BY <1>1, <1>2
<1> QED BY <1>3 DEF OnDisk

\* After a full run that nothing disturbed, and until the next change, the catalog and
\* the chunks of the branch are exactly the files on disk, in any batches.
THEOREM FullRunIsExact ==
    ASSUME Settings
    PROVE  Spec => []FreshIsExact
<1> DEFINE Inv == /\ TypeInv /\ AgreeInv /\ PlanInv /\ ChunkInv /\ WorkInv /\ TaggedInv
                  /\ TimeInv /\ FreshInv /\ Unharmed
<1>1. Init => Inv
  <2>1. Init => TaggedInv
    BY PlanFacts DEF Init, TaggedInv, Arriving, Marking, Pending
  <2>2. Init => FreshInv
    BY DEF Init, FreshInv
  <2>3. Init => Unharmed
    BY DEF Init, Unharmed
  <2> QED BY <2>1, <2>2, <2>3, InitTyping, AgreeInit, ChunkInit, WorkInit, TimeInit
<1>2. Inv /\ [Next]_vars => Inv'
  BY StepTypingInv, AgreeStep, PlanStep, ChunkStep, WorkStep, TaggedStep, TimeStep, FreshStep,
     UnharmedStep DEF Settings, WorkInv
<1>3. Inv => FreshIsExact
  BY FreshRows, FreshChunks DEF Settings, FreshIsExact
<1> QED BY <1>1, <1>2, <1>3, PTL DEF Spec
=============================================================================
