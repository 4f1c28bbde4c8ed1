---------------------------- MODULE RefreshIndex ----------------------------
(***************************************************************************)
(* What an indexing run does to the index of one artifact, the chunks:     *)
(* core/indexing/refreshIndex.ts (plan, tag catalog, global cache),        *)
(* ChunkCodebaseIndex.update, and the loops of CodebaseIndexer.ts that     *)
(* drive them (indexFiles, refreshFile), against a user who edits files    *)
(* and switches branches, aborts, errors and crashes.                      *)
(*                                                                         *)
(* One run at a time; a tag is a branch, the directory being fixed.  The   *)
(* content of a file stands for its own hash: calculateHash is injective.  *)
(***************************************************************************)
EXTENDS Naturals, FiniteSets

CONSTANTS
    Paths,
    Branches,
    NoTag,          \* the tag of no run
    ContentsOf,     \* the contents each path may have
    Absent,         \* content of a file that is not there, also the empty one
    Parts,          \* the chunks a document is cut into
    MaxCopies,      \* bound on equal chunk rows
    FilesPerBatch,  \* CodebaseIndexer.filesPerBatch
    RacingEdits,    \* whether files may change between the plan and its end
    MaxEdits,       \* bound on edits, touches and checkouts
    MaxStops        \* bound on aborts, errors and crashes

ASSUME ContentAssumption ==
    /\ \A p \in Paths : Absent \notin ContentsOf[p]
    /\ NoTag \notin Branches /\ IsFiniteSet(Branches)
    /\ FilesPerBatch \in Nat \ {0}
    /\ MaxCopies \in Nat /\ MaxEdits \in Nat /\ MaxStops \in Nat
    /\ RacingEdits \in BOOLEAN

VARIABLES
    disk,           \* content and lastModified of each file
    branch,         \* the branch checked out
    clock,          \* Date.now(), advanced by every change on disk
    catalog,        \* tag_catalog
    cache,          \* global_cache
    chunks,         \* chunks
    chunkTags,      \* chunk_tags
    pc, run,        \* the run: where it is, its tag, files and stats
    todo,           \* the lists of RefreshIndexResults still to be batched
    batch,          \* the lists of the batch being updated
    touched,        \* the lastUpdated list of the plan
    marking,        \* the list handed to markComplete and its result type
    unmarked,       \* the items of it whose row is still to be written
    found,          \* the chunk a deletion found, until its tags are deleted
    stops,          \* aborts, errors and crashes so far
    adrift,         \* history: contents on which a failure has left the
                    \* tables in disagreement; the empty one from the start,
                    \* which two files that are gone may share
    fresh           \* history: a full undisturbed run, and no change since

disks == <<disk, branch, clock>>
tables == <<catalog, cache, chunks, chunkTags>>
work == <<todo, batch, touched, marking, unmarked, found>>
faults == <<stops, adrift>>
vars == <<disks, tables, pc, run, work, faults, fresh>>

Contents == UNION {ContentsOf[p] : p \in Paths}
Item == [path : Paths, key : Contents \cup {Absent}]
Ops == {"compute", "addTag", "removeTag", "del"}
NoPlan == [op \in Ops |-> {}]
Chunk == [key : Contents \cup {Absent}, path : Paths, part : Parts,
          copy : 1..MaxCopies]
Row == [tag : Branches, path : Paths, key : Contents \cup {Absent},
        time : 0..MaxEdits]

TypeOK ==
    /\ disk \in [Paths -> [key : Contents \cup {Absent}, mtime : 0..MaxEdits]]
    /\ branch \in Branches
    /\ clock \in 0..MaxEdits
    /\ catalog \subseteq Row
    /\ cache \subseteq [key : Contents \cup {Absent}, tag : Branches]
    /\ chunks \subseteq Chunk
    /\ chunkTags \subseteq [tag : Branches, chunk : Chunk]
    /\ pc \in {"idle", "stat", "plan", "batch", "update", "untag", "catalog", "cache",
              "touch"}
    /\ run.tag \in Branches \cup {NoTag} /\ run.files \subseteq Paths
    /\ todo \in [Ops -> SUBSET Item] /\ batch \in [Ops -> SUBSET Item]
    /\ touched \subseteq Item
    /\ marking.op \in Ops /\ marking.items \subseteq Item
    /\ unmarked \subseteq marking.items
    /\ found \subseteq Chunk
    /\ stops \in 0..MaxStops
    /\ adrift \subseteq Contents \cup {Absent}
    /\ fresh \in {"no", "so far", "yes"}

NoRun == [tag |-> NoTag, files |-> {}, stats |-> << >>, time |-> 0]
NoMarking == [op |-> "compute", items |-> {}]

Init ==
    /\ disk \in [Paths -> [key : Contents \cup {Absent}, mtime : {0}]]
    /\ \A p \in Paths : disk[p].key \in ContentsOf[p] \cup {Absent}
    /\ branch \in Branches
    /\ clock = 0
    /\ catalog = {} /\ cache = {} /\ chunks = {} /\ chunkTags = {}
    /\ pc = "idle" /\ run = NoRun
    /\ todo = NoPlan /\ batch = NoPlan /\ touched = {}
    /\ marking = NoMarking /\ unmarked = {} /\ found = {}
    /\ stops = 0 /\ adrift = {Absent}
    /\ fresh = "no"

----------------------------------------------------------------------------
(* The user: every change takes a new time stamp. *)

Exists(p) == disk[p].key # Absent

\* The bounds on what the user does.
MayWrite == (RacingEdits \/ pc \in {"idle", "stat", "plan"}) /\ clock < MaxEdits

Write(newDisk) ==
    /\ clock' = clock + 1
    /\ disk' = newDisk
    /\ fresh' = "no"
    /\ UNCHANGED <<tables, pc, run, work, faults>>

\* An edit, a creation, a deletion, or a save that changes nothing.
Edit(p, k) ==
    /\ k \in ContentsOf[p] \cup {Absent}
    /\ Exists(p) \/ k # Absent
    /\ Write([disk EXCEPT ![p] = [key |-> k, mtime |-> clock + 1]])
    /\ UNCHANGED branch

\* git checkout rewrites the files that differ between the branches.
Checkout(b, changed) ==
    /\ b # branch
    /\ branch' = b
    /\ \A p \in DOMAIN changed :
          changed[p] \in ContentsOf[p] \cup {Absent} /\ changed[p] # disk[p].key
    /\ Write([p \in Paths |-> IF p \in DOMAIN changed
                              THEN [key |-> changed[p], mtime |-> clock + 1]
                              ELSE disk[p]])

----------------------------------------------------------------------------
(* getAddRemoveForTag and getComputeDeleteAddRemove *)

Versions(tag, p) == {row \in catalog : row.tag = tag /\ row.path = p}
Latest(tag, p) == CHOOSE row \in Versions(tag, p) :
                      \A other \in Versions(tag, p) : other.time <= row.time
Saved(tag) == {row.path : row \in {r \in catalog : r.tag = tag}}
ItemsOf(rows) == {[path |-> row.path, key |-> row.key] : row \in rows}

\* stats: the files that exist for the run, with their lastModified.
Modified(tag, stats) ==
    {p \in Saved(tag) \cap DOMAIN stats : Latest(tag, p).time < stats[p]}
Changed(tag, stats) ==
    {p \in Modified(tag, stats) : Latest(tag, p).key # disk[p].key}

ToAdd(tag, stats) ==
    {[path |-> p, key |-> disk[p].key] :
        p \in (DOMAIN stats \ Saved(tag)) \cup Changed(tag, stats)}
\* Mutant: the older versions of a changed file are forgotten.
ToRemove_onlyGone(tag, stats) ==
    UNION {ItemsOf(Versions(tag, p)) : p \in Saved(tag) \ DOMAIN stats}

ToRemove(tag, stats) ==
    UNION ({ItemsOf(Versions(tag, p)) :
              p \in (Saved(tag) \ DOMAIN stats) \cup Changed(tag, stats)}
           \cup {ItemsOf(Versions(tag, p) \ {Latest(tag, p)}) :
              p \in Modified(tag, stats) \ Changed(tag, stats)})
ToTouch(tag, stats) ==
    ItemsOf({Latest(tag, p) : p \in Modified(tag, stats) \ Changed(tag, stats)})

\* getTagsFromGlobalCache
TagsOf(key) == {row.tag : row \in {r \in cache : r.key = key}}

\* Mutant: an artifact that two tags need is deleted.
PlanOf_offByOne(tag, stats) ==
    LET add == ToAdd(tag, stats)
        remove == ToRemove(tag, stats)
    IN [compute   |-> {i \in add : TagsOf(i.key) = {}},
        addTag    |-> {i \in add : TagsOf(i.key) # {}},
        removeTag |-> {i \in remove : Cardinality(TagsOf(i.key)) > 2},
        del       |-> {i \in remove : Cardinality(TagsOf(i.key)) <= 2}]

PlanOf(tag, stats) ==
    LET add == ToAdd(tag, stats)
        remove == ToRemove(tag, stats)
    IN [compute   |-> {i \in add : TagsOf(i.key) = {}},
        addTag    |-> {i \in add : TagsOf(i.key) # {}},
        removeTag |-> {i \in remove : Cardinality(TagsOf(i.key)) > 1},
        del       |-> {i \in remove : Cardinality(TagsOf(i.key)) <= 1}]

----------------------------------------------------------------------------
(* indexFiles and refreshFile *)

FullRun == run.files = Paths
OnlyFiles(items) == {i \in items : FullRun \/ i.path \in DOMAIN run.stats}

Idle == /\ pc' = "idle" /\ run' = NoRun
        /\ todo' = NoPlan /\ batch' = NoPlan /\ touched' = {}
        /\ marking' = NoMarking /\ unmarked' = {} /\ found' = {}

\* The branch is read first.
Start(files) ==
    /\ pc = "idle"
    /\ pc' = "stat"
    /\ run' = [NoRun EXCEPT !.tag = branch, !.files = files]
    /\ fresh' = IF files = Paths THEN "so far" ELSE fresh
    /\ UNCHANGED <<disks, tables, work, faults>>

StartDirs == Start(Paths)

\* A deleted file is not handed to refreshFile, or has no stats.
StartFile(p) == Exists(p) /\ {p} # Paths /\ Start({p})

\* ide.getFileStats
Stat ==
    /\ pc = "stat"
    /\ pc' = "plan"
    /\ run' = [run EXCEPT !.stats =
                 [p \in {q \in run.files : Exists(q)} |-> disk[p].mtime]]
    /\ UNCHANGED <<disks, tables, work, faults, fresh>>

\* refreshFile hands over one file's stats, so the plan says to remove all
\* the others; singleFileIndexOps drops that part of it.
Plan ==
    /\ pc = "plan"
    /\ run' = [run EXCEPT !.time = clock]
    /\ LET plan == PlanOf(run.tag, run.stats) IN
       todo' = [op \in Ops |-> OnlyFiles(plan[op])]
    /\ touched' = IF FullRun THEN ToTouch(run.tag, run.stats) ELSE {}
    /\ pc' = "batch"
    /\ UNCHANGED <<disks, tables, batch, marking, unmarked, found, faults, fresh>>

\* A slice of at most n elements of a list.
Slices(items, n) ==
    IF Cardinality(items) <= n THEN {items}
    ELSE {s \in SUBSET items : Cardinality(s) = n}

\* batchRefreshIndexResults; refreshFile hands over its lists as they are.
NextBatch ==
    /\ pc = "batch"
    /\ todo # NoPlan
    /\ \E slice \in [Ops -> SUBSET UNION {todo[op] : op \in Ops}] :
          /\ \A op \in Ops : slice[op] \in (IF FullRun THEN Slices(todo[op], FilesPerBatch)
                                        ELSE {todo[op]})
          /\ batch' = slice
          /\ todo' = [op \in Ops |-> todo[op] \ slice[op]]
    /\ pc' = "update"
    /\ UNCHANGED <<disks, tables, run, touched, marking, unmarked, found, faults, fresh>>

AllBatchesDone ==
    /\ pc = "batch"
    /\ todo = NoPlan
    /\ pc' = "touch"
    /\ UNCHANGED <<disks, tables, run, work, faults, fresh>>

----------------------------------------------------------------------------
(* ChunkCodebaseIndex.update: compute, addTag, removeTag, del, each followed
   by markComplete, which writes the catalog and then the global cache.  The
   ids of chunks are never used twice; a chunk that is gone may leave a row of
   chunk_tags behind, as no foreign key is enforced. *)

HandOver(op, items, to) ==
    /\ batch' = [batch EXCEPT ![op] = @ \ items]
    /\ marking' = [op |-> op, items |-> items]
    /\ unmarked' = items
    /\ pc' = to
    /\ UNCHANGED <<disks, catalog, cache, run, todo, touched>>

Mark(op, items) == /\ HandOver(op, items, "catalog")
                   /\ UNCHANGED <<found, faults, fresh>>

KeysOf(things) == {x.key : x \in things}

\* Which copy of a chunk a new row can be.
Unused(key, p, part) ==
    {n \in 1..MaxCopies : \A c \in chunks \cup {t.chunk : t \in chunkTags} :
        c # [key |-> key, path |-> p, part |-> part, copy |-> n]}
First(numbers) == CHOOSE n \in numbers : \A m \in numbers : n <= m

\* The files are read again and cut into chunks.
NewChunks(items) ==
    {[key |-> i.key, path |-> i.path, part |-> n,
      copy |-> First(Unused(i.key, i.path, n))] :
        i \in {j \in items : Exists(j.path)}, n \in Parts}

\* The bound on copies leaves room for them.
HaveRoom(items) ==
    \A i \in items, n \in Parts : Unused(i.key, i.path, n) # {}

\* The transaction of insertChunks: which chunks it leaves, and which of them
\* and of the older ones its rows of chunk_tags are for, at most one for each
\* chunk.  A row takes last_insert_rowid() for its chunk: after an INSERT that
\* was rejected, the number of some other row, which an older chunk may have.
Insert(new, kept, tagged) ==
    /\ kept \subseteq new
    /\ tagged \subseteq kept \cup (IF kept = new THEN {} ELSE chunks)
    /\ Cardinality(tagged) <= Cardinality(new)
    /\ chunks' = chunks \cup kept
    /\ chunkTags' = chunkTags \cup {[tag |-> run.tag, chunk |-> c] : c \in tagged}

Compute ==
    LET items == batch["compute"]
        new == NewChunks(items)
    IN /\ pc = "update"
       /\ items # {}
       /\ HaveRoom(items)
       /\ Insert(new, new, new)
       /\ Mark("compute", items)

\* INSERT ... SELECT: if any of the rows exists already, UNIQUE (tag, chunkId)
\* fails the whole statement, and the error is swallowed.
AddTag(i) ==
    LET wanted == {[tag |-> run.tag, chunk |-> c] : c \in {d \in chunks : d.key = i.key}}
    IN /\ pc = "update"
       /\ batch["compute"] = {}
       /\ i \in batch["addTag"]
       /\ chunkTags' = IF wanted \cap chunkTags = {} THEN chunkTags \cup wanted
                       ELSE chunkTags
       /\ UNCHANGED chunks
       /\ Mark("addTag", {i})

\* Mutant: the rows of every tag are removed.
RemoveTag_allTags(i) ==
    /\ pc = "update"
    /\ batch["compute"] = {} /\ batch["addTag"] = {}
    /\ i \in batch["removeTag"]
    /\ chunkTags' = {t \in chunkTags : ~(t.chunk.key = i.key /\ t.chunk.path = i.path)}
    /\ UNCHANGED chunks
    /\ Mark("removeTag", {i})

RemoveTag(i) ==
    /\ pc = "update"
    /\ batch["compute"] = {} /\ batch["addTag"] = {}
    /\ i \in batch["removeTag"]
    /\ chunkTags' = {t \in chunkTags : ~(/\ t.tag = run.tag
                                         /\ t.chunk.key = i.key
                                         /\ t.chunk.path = i.path)}
    /\ UNCHANGED chunks
    /\ Mark("removeTag", {i})

\* One row of the key is looked up, whatever its path, and deleted.
Delete(i) ==
    LET rows == {c \in chunks : c.key = i.key}
    IN /\ pc = "update"
       /\ \A op \in Ops \ {"del"} : batch[op] = {}
       /\ i \in batch["del"]
       /\ UNCHANGED chunkTags
       /\ \/ rows = {} /\ UNCHANGED chunks /\ Mark("del", {i})
          \/ \E c \in rows :
                /\ chunks' = chunks \ {c}
                /\ found' = {c}
                /\ HandOver("del", {i}, "untag")
                /\ UNCHANGED <<faults, fresh>>

\* Then the rows of chunk_tags that have its id.
Untag ==
    /\ pc = "untag"
    /\ chunkTags' = {t \in chunkTags : t.chunk \notin found}
    /\ found' = {}
    /\ pc' = "catalog"
    /\ UNCHANGED <<disks, catalog, cache, chunks, run, todo, batch, touched, marking,
                   unmarked, faults, fresh>>

UpdateDone ==
    /\ pc = "update"
    /\ batch = NoPlan
    /\ pc' = "batch"
    /\ marking' = NoMarking
    /\ UNCHANGED <<disks, tables, run, todo, batch, touched, unmarked, found, faults, fresh>>

----------------------------------------------------------------------------
(* markComplete *)

Adding(op) == op \in {"compute", "addTag"}

\* The next item of the list, and where markComplete goes after the last one.
Step(i, next, refill) ==
    /\ i \in unmarked
    /\ IF unmarked = {i} THEN pc' = next /\ unmarked' = refill
       ELSE unmarked' = unmarked \ {i} /\ UNCHANGED pc

\* Mutant: lastUpdated is the time of the row, not that of the plan.
MarkCatalog_now(i) ==
    LET same == {row \in Versions(run.tag, i.path) : row.key = i.key}
        new == {[tag |-> run.tag, path |-> i.path, key |-> i.key, time |-> clock]}
    IN /\ pc = "catalog"
       /\ Step(i, "cache", marking.items)
       /\ catalog' = (catalog \ same) \cup (IF Adding(marking.op) THEN new ELSE {})
       /\ UNCHANGED <<disks, cache, chunks, chunkTags, run, todo, batch, touched,
                      marking, found, faults, fresh>>

\* Mutant: lastUpdated is rounded up.
MarkCatalog_roundedUp(i) ==
    LET same == {row \in Versions(run.tag, i.path) : row.key = i.key}
        new == {[tag |-> run.tag, path |-> i.path, key |-> i.key, time |-> run.time + 1]}
    IN /\ pc = "catalog"
       /\ Step(i, "cache", marking.items)
       /\ catalog' = (catalog \ same) \cup (IF Adding(marking.op) THEN new ELSE {})
       /\ UNCHANGED <<disks, cache, chunks, chunkTags, run, todo, batch, touched,
                      marking, found, faults, fresh>>

\* REPLACE INTO or DELETE FROM tag_catalog
MarkCatalog(i) ==
    LET same == {row \in Versions(run.tag, i.path) : row.key = i.key}
        new == {[tag |-> run.tag, path |-> i.path, key |-> i.key, time |-> run.time]}
    IN /\ pc = "catalog"
       /\ Step(i, "cache", marking.items)
       /\ catalog' = (catalog \ same) \cup (IF Adding(marking.op) THEN new ELSE {})
       /\ UNCHANGED <<disks, cache, chunks, chunkTags, run, todo, batch, touched,
                      marking, found, faults, fresh>>

\* Mutant: the rows of every tag are deleted.
MarkCache_allTags(i) ==
    /\ pc = "cache"
    /\ Step(i, "update", {})
    /\ cache' = IF Adding(marking.op) THEN cache \cup {[key |-> i.key, tag |-> run.tag]}
                ELSE {row \in cache : row.key # i.key}
    /\ UNCHANGED <<disks, catalog, chunks, chunkTags, run, todo, batch, touched,
                   marking, found, faults, fresh>>

\* REPLACE INTO or DELETE FROM global_cache
MarkCache(i) ==
    LET row == [key |-> i.key, tag |-> run.tag]
    IN /\ pc = "cache"
       /\ Step(i, "update", {})
       /\ cache' = IF Adding(marking.op) THEN cache \cup {row} ELSE cache \ {row}
       /\ UNCHANGED <<disks, catalog, chunks, chunkTags, run, todo, batch, touched,
                      marking, found, faults, fresh>>

\* UPDATE tag_catalog SET cacheKey, lastUpdated for all rows of the path; with
\* two rows the UNIQUE index rejects the statement, which ends the list.
Touch(i) ==
    LET rows == Versions(run.tag, i.path)
        new == [tag |-> run.tag, path |-> i.path, key |-> i.key, time |-> run.time]
    IN /\ pc = "touch"
       /\ i \in touched
       /\ IF Cardinality(rows) > 1
          THEN touched' = {} /\ UNCHANGED catalog
          ELSE /\ touched' = touched \ {i}
               /\ catalog' = (catalog \ rows) \cup (IF rows = {} THEN {} ELSE {new})
       /\ UNCHANGED <<disks, cache, chunks, chunkTags, pc, run, todo, batch, marking,
                      unmarked, found, faults, fresh>>

Finish ==
    /\ pc = "touch"
    /\ touched = {}
    /\ Idle
    /\ fresh' = IF fresh = "so far" THEN "yes" ELSE fresh
    /\ UNCHANGED <<disks, tables, faults>>

----------------------------------------------------------------------------
(* What may end a run before its time *)

\* refreshDirs looks at the abort signal whenever indexFiles yields: before
\* the plan, before the chunks are computed, after each single item.
Abort ==
    /\ FullRun
    /\ \/ pc \in {"stat", "plan"}
       \/ pc = "update" /\ marking = NoMarking /\ batch["compute"] # {}
       \/ pc = "update" /\ marking.op # "compute"
    /\ stops < MaxStops /\ stops' = stops + 1
    /\ Idle
    /\ fresh' = "no"
    /\ UNCHANGED <<disks, tables, adrift>>

\* An error: indexFiles notes a warning and goes on with the next batch;
\* refreshFile is left.
GiveUp ==
    /\ IF FullRun
       THEN /\ pc' = "batch" /\ batch' = NoPlan
            /\ marking' = NoMarking /\ unmarked' = {} /\ found' = {}
            /\ UNCHANGED <<run, todo, touched>>
       ELSE Idle
    /\ fresh' = "no"
    /\ UNCHANGED <<disks, catalog, cache>>

\* A statement that changes nothing then, or a file read, is rejected; or the
\* second one of a deletion, which leaves rows of a chunk that is gone.
UpdateError ==
    /\ \/ pc = "update" /\ batch # NoPlan
       \/ pc = "untag"
    /\ stops < MaxStops /\ stops' = stops + 1
    /\ adrift' = adrift \cup (IF pc = "untag" THEN KeysOf(marking.items) ELSE {})
    /\ GiveUp
    /\ UNCHANGED <<chunks, chunkTags>>

\* INSERTs of the transaction are rejected.  Their callbacks are written for
\* (result, err), and sqlite3 calls them with (err): COMMIT goes through, and
\* the batch is marked complete without what was not inserted.
InsertRejected ==
    LET items == batch["compute"]
        new == NewChunks(items)
    IN /\ pc = "update" /\ items # {}
       /\ HaveRoom(items)
       /\ stops < MaxStops /\ stops' = stops + 1
       /\ \E kept \in SUBSET new, tagged \in SUBSET (new \cup chunks) :
             /\ kept \cap tagged # new
             /\ Insert(new, kept, tagged)
             /\ adrift' = adrift \cup KeysOf(new \ (kept \cap tagged))
                                 \cup KeysOf(tagged \ kept)
       /\ HandOver("compute", items, "catalog")
       /\ fresh' = "no"
       /\ UNCHANGED found

\* BEGIN or COMMIT is rejected, which does not keep the other statements from
\* being run: the batch is given up, and some of its rows may be there.
TransactionRejected ==
    LET items == batch["compute"]
        new == NewChunks(items)
    IN /\ pc = "update" /\ items # {}
       /\ HaveRoom(items)
       /\ stops < MaxStops /\ stops' = stops + 1
       /\ \E kept \in SUBSET new, tagged \in SUBSET (new \cup chunks) :
             /\ kept \cup tagged # {}
             /\ Insert(new, kept, tagged)
             /\ adrift' = adrift \cup KeysOf(kept \cup tagged)
       /\ GiveUp

\* What a run is marking when it ends: its chunks, its catalog rows and its
\* cache rows may disagree from now on.
Interrupted == IF pc \in {"untag", "catalog", "cache"} THEN KeysOf(marking.items) ELSE {}

\* A statement of markComplete is rejected.
MarkError ==
    /\ pc \in {"catalog", "cache"}
    /\ stops < MaxStops /\ stops' = stops + 1
    /\ adrift' = adrift \cup Interrupted
    /\ GiveUp
    /\ UNCHANGED <<chunks, chunkTags>>

\* The process ends.
Crash ==
    /\ pc # "idle"
    /\ stops < MaxStops /\ stops' = stops + 1
    /\ adrift' = adrift \cup Interrupted
    /\ Idle
    /\ fresh' = "no"
    /\ UNCHANGED <<disks, tables>>

----------------------------------------------------------------------------
User == /\ MayWrite
        /\ \/ \E p \in Paths, k \in Contents \cup {Absent} : Edit(p, k)
           \/ \E b \in Branches, ps \in SUBSET Paths :
                \E changed \in [ps -> Contents \cup {Absent}] : Checkout(b, changed)

Refresh ==
    \/ Stat \/ Plan \/ NextBatch \/ AllBatchesDone \/ Compute \/ Untag \/ UpdateDone
    \/ Finish
    \/ \E i \in batch["addTag"] : AddTag(i)
    \/ \E i \in batch["removeTag"] : RemoveTag(i)
    \/ \E i \in batch["del"] : Delete(i)
    \/ \E i \in unmarked : MarkCatalog(i) \/ MarkCache(i)
    \/ \E i \in touched : Touch(i)

Next == \/ User \/ StartDirs \/ (\E p \in Paths : StartFile(p)) \/ Refresh
        \/ Abort \/ UpdateError \/ InsertRejected \/ TransactionRejected
        \/ MarkError \/ Crash

Spec == Init /\ [][Next]_vars

\* A started run goes on, and the workspace is refreshed again and again (at
\* start-up, on a branch change, on request).
FairSpec == Spec /\ WF_vars(Refresh) /\ WF_vars(StartDirs)

----------------------------------------------------------------------------
(* Properties *)

Marking == pc \in {"untag", "catalog", "cache"}
Tagged(tag) == {c \in chunks : [tag |-> tag, chunk |-> c] \in chunkTags}
Catalogued(tag) == {row \in catalog : row.tag = tag}

\* Rows whose artifact is already gone and whose deletion comes next.
Removing(row) == /\ pc \in {"untag", "catalog"} /\ ~Adding(marking.op)
                 /\ row.tag = run.tag
                 /\ [path |-> row.path, key |-> row.key] \in unmarked

\* What the catalog says is indexed is there: every part of the content has a
\* chunk that carries the tag.  "These progress updates are used to officially
\* mark a file as having been indexed, so that if the extension is closed
\* mid-indexing we don't falsely record progress" (indexing/README.md:17).
\* The code does not keep this for a content of which an INSERT was rejected
\* unnoticed, or which was being marked when the run failed or the process
\* ended; however often that happens, it keeps it for every other content.
RecordedIsTagged ==
    \A row \in catalog :
        row.key \in adrift \/ Removing(row) \/ \A n \in Parts :
            \E c \in Tagged(row.tag) : c.key = row.key /\ c.part = n

\* The global cache, by which the next plans decide between computing, tagging
\* and deleting, says of each content exactly the tags that catalogue it,
\* failures that fell on the content itself aside.
CacheMirrorsCatalog ==
    ~Marking => {row \in cache : row.key \notin adrift} =
                   {[key |-> row.key, tag |-> row.tag] :
                      row \in {r \in catalog : r.key \notin adrift}}

\* A run for one branch changes nothing that another branch can find
\* (README.md:15-16: del only when no more branches need the artifact), again
\* except for contents on which the tables disagree after a failure.
OtherTagsUntouched ==
    [][\A tag \in Branches \ {run.tag} :
          {c \in Tagged(tag)' : c.key \notin adrift'} =
             {c \in Tagged(tag) : c.key \notin adrift'}]_vars

\* As long as no run was stopped: after a full run, and until the next change,
\* the catalog holds one row per file, of the content on disk, and the tag
\* exactly its chunks.
FreshIsExact ==
    fresh = "yes" /\ stops = 0 =>
        /\ ItemsOf(Catalogued(branch)) =
              {[path |-> p, key |-> disk[p].key] : p \in {q \in Paths : Exists(q)}}
        /\ {[path |-> c.path, key |-> c.key] : c \in Tagged(branch)} =
              ItemsOf(Catalogued(branch))

\* "We want to delete it" (README.md:16): after a full undisturbed run no chunk
\* of a content that is no longer catalogued carries the tag.
DeletedChunksAreGone ==
    fresh = "yes" => \A c \in Tagged(branch) :
                        \E row \in Catalogued(branch) : row.key = c.key

\* However edits, checkouts, aborts, errors and crashes fall, once they end
\* the catalog's latest version of every file is the one on disk.
CatalogCurrent ==
    /\ Saved(branch) = {p \in Paths : Exists(p)}
    /\ \A p \in Saved(branch) : Latest(branch, p).key = disk[p].key
Converges == <>[]CatalogCurrent
============================================================================
