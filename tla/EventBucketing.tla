----------------------------- MODULE EventBucketing -----------------------------
(***************************************************************************)
(* event-bucketing: once a day the event files of a day folder are backed  *)
(* up, removed, and written again as a few consolidated files.  One folder *)
(* is modelled: a run takes its folders one after the other.  A run that   *)
(* fails leaves moves and puts behind that may still take effect while a   *)
(* later run of the same container is under way.                           *)
(***************************************************************************)
EXTENDS Integers, FiniteSets

CONSTANTS
  Files,       \* event files of the day
  Legacy,      \* those with several lines or none, which are skipped
  ChunkSize,   \* events of one consolidated file (500)
  MaxKeys,     \* keys a listing returns at most (1000: listS3Keys asks for one page)
  MaxRuns,     \* bound: invocations
  MaxMs        \* bound: milliseconds between the puts of a run

ASSUME BucketingAssumption ==
  /\ IsFiniteSet(Files) /\ Legacy \subseteq Files
  /\ ChunkSize \in Nat \ {0} /\ MaxKeys \in Nat \ {0}
  /\ MaxRuns \in Nat /\ MaxMs \in Nat

VARIABLES
  arrived,     \* files store-transactions has put
  single,      \* event files in the folder
  backup,      \* event files under btm_event_data_copy
  extracts,    \* consolidated files in the folder
  run,         \* number of this or the last invocation
  phase,       \* where it is
  tasks,       \* files whose fetch or move has not settled
  contents,    \* the files whose content this run has read
  puts         \* consolidated files on their way to S3

folderVars == <<arrived, single, backup, extracts>>
vars == <<folderVars, run, phase, tasks, contents, puts>>

Phases  == {"idle", "move", "store"}
Task    == [run : 1..MaxRuns, file : Files, step : {"fetch", "copy", "delete"}]
Chunk   == {c \in SUBSET Files : Cardinality(c) <= ChunkSize}
\* run and ms make the name: Date.now() when the put is started.
Extract == [run : 1..MaxRuns, ms : 0..MaxMs, files : Chunk]

Mine(work) == {w \in work : w.run = run}

Init ==
  /\ arrived = {} /\ single = {} /\ backup = {} /\ extracts = {}
  /\ run = 0 /\ phase = "idle"
  /\ tasks = {} /\ contents = {} /\ puts = {}

\* store-transactions puts an event of the day, at any time
Arrive(f) ==
  /\ f \notin arrived
  /\ arrived' = arrived \cup {f}
  /\ single' = single \cup {f}
  /\ UNCHANGED <<backup, extracts, run, phase, tasks, contents, puts>>

\* One page of the listing. A folder with a consolidated file on it, or with none at all,
\* is skipped. Key order is left open: whether the page holds the consolidated file too.
Begin ==
  /\ phase = "idle"
  /\ run < MaxRuns
  /\ run' = run + 1
  /\ \E listed \in SUBSET single, sighted \in SUBSET extracts :
       /\ \/ listed = single /\ sighted = extracts
          \/ Cardinality(listed) + Cardinality(sighted) = MaxKeys
       /\ Cardinality(listed) + Cardinality(sighted) <= MaxKeys
       /\ IF listed = {} \/ sighted # {}
          THEN UNCHANGED <<phase, tasks>>
          ELSE /\ phase' = "move"
               /\ tasks' = tasks \cup [run : {run'}, file : listed, step : {"fetch"}]
  /\ contents' = {}
  /\ UNCHANGED <<folderVars, puts>>

MutThen == [fetch |-> "delete", copy |-> "delete"]
Then == [fetch |-> "copy", copy |-> "delete"]

Proceed(t) == tasks' = (tasks \ {t}) \cup {[run |-> t.run, file |-> t.file, step |-> Then[t.step]]}

\* The content is kept, to be consolidated, before the file is moved. Tasks of a run that
\* has failed go on, if at all, whenever a later invocation thaws the container.
Fetch(t) ==
  /\ t.step = "fetch"
  /\ t.file \in single
  /\ IF t.file \in Legacy
     THEN tasks' = tasks \ {t} /\ UNCHANGED contents
     ELSE /\ Proceed(t)
          /\ contents' = IF t.run = run THEN contents \cup {t.file} ELSE contents
  /\ UNCHANGED <<folderVars, run, phase, puts>>

\* moveS3: copy, then delete
Copy(t) ==
  /\ t.step = "copy"
  /\ t.file \in single
  /\ backup' = backup \cup {t.file}
  /\ Proceed(t)
  /\ UNCHANGED <<arrived, single, extracts, run, phase, contents, puts>>

Delete(t) ==
  /\ t.step = "delete"
  /\ single' = single \ {t.file}
  /\ tasks' = tasks \ {t}
  /\ UNCHANGED <<arrived, backup, extracts, run, phase, contents, puts>>

\* A request is rejected, or the file is gone: Promise.all fails the run at once.
TaskFails(t) ==
  /\ tasks' = tasks \ {t}
  /\ phase' = IF t.run = run THEN "idle" ELSE phase
  /\ UNCHANGED <<folderVars, run, contents, puts>>

\* contents cut into full chunks, and what remains
MutChunks(files) == {{files}}
Chunks(files) ==
  {P \in SUBSET ((SUBSET files) \ {{}}) :
     /\ UNION P = files
     /\ \A c, d \in P : c # d => c \cap d = {}
     /\ \A c \in P : Cardinality(c) <= ChunkSize
     /\ Cardinality({c \in P : Cardinality(c) < ChunkSize}) <= 1}

MutMovesDone == \A t \in Mine(tasks) : t.step # "fetch"
MovesDone == Mine(tasks) = {}

\* All puts are started in one go, each under the time it is started at.
MutPutsOf(P, ms) == {[run |-> 1, ms |-> ms[c], files |-> c] : c \in P}
PutsOf(P, ms) == {[run |-> run, ms |-> ms[c], files |-> c] : c \in P}

\* All of the folder is backed up. Fewer than two contents are not worth a file.
EndMoves ==
  /\ phase = "move"
  /\ MovesDone
  /\ IF Cardinality(contents) < 2
     THEN phase' = "idle" /\ UNCHANGED puts
     ELSE /\ phase' = "store"
          /\ \E P \in Chunks(contents) : \E ms \in [P -> 0..MaxMs] :
               puts' = puts \cup PutsOf(P, ms)
  /\ UNCHANGED <<folderVars, run, tasks, contents>>

\* A put replaces what has the same name.
Lands(p) == extracts' = {x \in extracts : x.run # p.run \/ x.ms # p.ms} \cup {p}

Land(p) ==
  /\ Lands(p)
  /\ puts' = puts \ {p}
  /\ UNCHANGED <<arrived, single, backup, run, phase, tasks, contents>>

\* A put is rejected, perhaps after it took effect.
PutFails(p) ==
  /\ Lands(p) \/ UNCHANGED extracts
  /\ puts' = puts \ {p}
  /\ phase' = IF p.run = run THEN "idle" ELSE phase
  /\ UNCHANGED <<arrived, single, backup, run, tasks, contents>>

EndStore ==
  /\ phase = "store"
  /\ Mine(puts) = {}
  /\ phase' = "idle"
  /\ UNCHANGED <<folderVars, run, tasks, contents, puts>>

\* The invocation times out, or another folder of it fails.
Crash ==
  /\ phase # "idle"
  /\ phase' = "idle"
  /\ UNCHANGED <<folderVars, run, tasks, contents, puts>>

\* The container is replaced: what was frozen never happens.
Recycle ==
  /\ phase = "idle"
  /\ tasks \cup puts # {}
  /\ tasks' = {}
  /\ puts' = {}
  /\ UNCHANGED <<folderVars, run, phase, contents>>

Next ==
  \/ \E f \in Files : Arrive(f)
  \/ Begin
  \/ \E t \in tasks : Fetch(t) \/ Copy(t) \/ Delete(t) \/ TaskFails(t)
  \/ EndMoves
  \/ \E p \in puts : Land(p) \/ PutFails(p)
  \/ EndStore \/ Crash \/ Recycle

Spec == Init /\ [][Next]_vars

--------------------------------------------------------------------------------
TypeOK ==
  /\ arrived \subseteq Files /\ single \subseteq Files /\ backup \subseteq Files
  /\ extracts \subseteq Extract /\ puts \subseteq Extract
  /\ run \in 0..MaxRuns /\ phase \in Phases
  /\ tasks \subseteq Task
  /\ contents \subseteq Files

Consolidated == UNION {x.files : x \in extracts}

\* What the Athena table over btm_event_data reads.
Readable == single \cup Consolidated

\* Whatever fails half-way and whatever an earlier run left behind, every event that
\* arrived is still in the day's folder or in the backup folder.
NothingVanishes == arrived \subseteq single \cup backup

\* No event is read, and billed, twice: it is never in the folder both on its own and
\* consolidated, nor in two consolidated files (all moves are awaited before any put).
ReadOnce ==
  /\ single \cap Consolidated = {}
  /\ \A x, y \in extracts : x # y => x.files \cap y.files = {}

\* A run that ends well and needed one consolidated file leaves every event it took
\* out of the folder readable, whatever earlier runs that failed still do.
OneChunkKept ==
  [][EndStore /\ Cardinality(contents) <= ChunkSize => contents \subseteq Readable']_vars

\* So does a run that needs more than one (the unit test "Processing 1 folder with 501
\* files, expecting 2 consolidation files"; tools/batch-day.sh: "the same event data set").
ChunksKept == [][EndStore => contents \subseteq Readable']_vars

\* The comment at business-logic.ts:41, "do not want to process buckets with only one or
\* no events": a folder with a single event is left as it is.
LoneEventLeftAlone ==
  [][EndMoves /\ phase' = "idle" => contents \subseteq Readable']_vars
================================================================================
