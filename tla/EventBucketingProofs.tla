-------------------------- MODULE EventBucketingProofs --------------------------
(***************************************************************************)
(* Proofs about EventBucketing for any files, chunk and page size, and any *)
(* number of runs.                                                         *)
(***************************************************************************)
EXTENDS EventBucketing, FiniteSetTheorems, TLAPS

\* What is to be deleted has been copied, so nothing vanishes.
CopiedFirst == \A t \in tasks : t.step = "delete" => t.file \in backup

Arrivals == single \cup contents \subseteq arrived /\ \A p \in extracts \cup puts : p.files \subseteq arrived

\* What a run has read is about to leave the folder, or has left it.
Leaving ==
  phase = "move" => \A f \in contents :
    f \notin single \/ \E t \in tasks : t.run = run /\ t.file = f /\ t.step # "fetch"

\* What is consolidated, or about to be, is nowhere else.
Apart ==
  /\ \A p \in extracts \cup puts :
       /\ p.files \cap single = {}
       /\ phase = "move" => p.files \cap contents = {}
  /\ \A p, q \in extracts \cup puts : p # q => p.files \cap q.files = {}

Started == phase # "idle" => run # 0

IInv == TypeOK /\ Started /\ NothingVanishes /\ CopiedFirst /\ Arrivals /\ Leaving /\ Apart

USE BucketingAssumption DEF folderVars

LEMMA Initially == Init => IInv
  BY DEF Init, IInv, Started, TypeOK, Phases, NothingVanishes, CopiedFirst, Arrivals, Leaving, Apart

LEMMA ArriveStep == ASSUME IInv, NEW f \in Files, Arrive(f) PROVE IInv'
<1>1. TypeOK' /\ Started'
  BY DEF IInv, TypeOK, Started, Arrive
<1>2. NothingVanishes' /\ CopiedFirst' /\ Arrivals' /\ Leaving' /\ Apart'
  BY DEF IInv, Arrive, NothingVanishes, CopiedFirst, Arrivals, Leaving, Apart
<1> QED
  BY <1>1, <1>2 DEF IInv

LEMMA BeginStep == ASSUME IInv, Begin PROVE IInv'
<1>1. PICK listed \in SUBSET single :
        /\ run' = run + 1 /\ run < MaxRuns
        /\ \/ UNCHANGED <<phase, tasks>>
           \/ phase' = "move" /\ tasks' = tasks \cup [run : {run'}, file : listed, step : {"fetch"}]
        /\ contents' = {} /\ UNCHANGED <<folderVars, puts>> /\ phase = "idle"
  BY DEF Begin
<1>2. \A t \in [run : {run'}, file : listed, step : {"fetch"}] : t \in Task /\ t.step = "fetch"
  BY <1>1 DEF IInv, TypeOK, Task
<1>3. TypeOK' /\ Started'
  BY <1>1, <1>2 DEF IInv, TypeOK, Phases, Started
<1>4. NothingVanishes' /\ CopiedFirst' /\ Arrivals' /\ Leaving' /\ Apart'
  BY <1>1, <1>2 DEF IInv, NothingVanishes, CopiedFirst, Arrivals, Leaving, Apart
<1> QED
  BY <1>3, <1>4 DEF IInv

LEMMA ProceedFacts ==
  ASSUME TypeOK, NEW t \in tasks, t.step # "delete", Proceed(t)
  PROVE  \E n \in Task : /\ n.run = t.run /\ n.file = t.file
                         /\ n.step # "fetch" /\ (n.step = "delete" => t.step = "copy")
                         /\ tasks' = (tasks \ {t}) \cup {n}
<1> DEFINE n == [run |-> t.run, file |-> t.file, step |-> Then[t.step]]
<1>1. t \in Task
  BY DEF TypeOK
<1>2. (t.step = "fetch" /\ Then[t.step] = "copy") \/ (t.step = "copy" /\ Then[t.step] = "delete")
  <2>1. Then["fetch"] = "copy" /\ Then["copy"] = "delete"
    BY DEF Then
  <2>2. t.step = "fetch" \/ t.step = "copy"
    BY <1>1 DEF Task
  <2> QED
    BY <2>1, <2>2
<1>3. n \in Task /\ n.run = t.run /\ n.file = t.file /\ n.step = Then[t.step]
  BY <1>1, <1>2 DEF Task
<1> QED
  BY <1>2, <1>3 DEF Proceed

LEMMA FetchStep == ASSUME IInv, NEW t \in tasks, Fetch(t) PROVE IInv'
<1>1. t \in Task /\ t.file \in single /\ t.step = "fetch" /\ UNCHANGED <<folderVars, run, phase, puts>>
  BY DEF IInv, TypeOK, Fetch
<1>2. CASE t.file \in Legacy
  <2>1. tasks' = tasks \ {t} /\ contents' = contents
    BY <1>2 DEF Fetch
  <2> QED
    BY <1>1, <2>1 DEF IInv, TypeOK, Started, NothingVanishes, CopiedFirst, Arrivals, Leaving, Apart
<1>3. CASE t.file \notin Legacy
  <2>1. PICK n \in Task : /\ n.run = t.run /\ n.file = t.file
                          /\ n.step # "fetch" /\ n.step # "delete"
                          /\ tasks' = (tasks \ {t}) \cup {n}
    BY <1>1, <1>3, ProceedFacts DEF Fetch, IInv
  <2>2. \/ contents' = contents
        \/ contents' = contents \cup {t.file} /\ t.run = run
    BY <1>3 DEF Fetch
  <2>3. TypeOK' /\ Started' /\ NothingVanishes' /\ CopiedFirst' /\ Arrivals'
    BY <1>1, <2>1, <2>2 DEF IInv, TypeOK, Started, Task, NothingVanishes, CopiedFirst, Arrivals
  <2>4. Leaving' /\ Apart'
    BY <1>1, <2>1, <2>2 DEF IInv, Leaving, Apart
  <2> QED
    BY <2>3, <2>4 DEF IInv
<1> QED
  BY <1>2, <1>3

LEMMA CopyStep == ASSUME IInv, NEW t \in tasks, Copy(t) PROVE IInv'
<1>1. t \in Task /\ t.step = "copy" /\ backup' = backup \cup {t.file}
      /\ UNCHANGED <<arrived, single, extracts, run, phase, contents, puts>>
  BY DEF IInv, TypeOK, Copy
<1>2. PICK n \in Task : /\ n.run = t.run /\ n.file = t.file /\ n.step # "fetch"
                        /\ tasks' = (tasks \ {t}) \cup {n}
  BY <1>1, ProceedFacts DEF Copy, IInv
<1>3. TypeOK' /\ Started' /\ NothingVanishes' /\ CopiedFirst' /\ Arrivals'
  BY <1>1, <1>2 DEF IInv, TypeOK, Started, Task, NothingVanishes, CopiedFirst, Arrivals
<1>4. Leaving' /\ Apart'
  BY <1>1, <1>2 DEF IInv, Leaving, Apart
<1> QED
  BY <1>3, <1>4 DEF IInv

LEMMA DeleteStep == ASSUME IInv, NEW t \in tasks, Delete(t) PROVE IInv'
<1>1. TypeOK' /\ Started' /\ CopiedFirst' /\ Arrivals'
  BY DEF IInv, TypeOK, Started, Delete, CopiedFirst, Arrivals
<1>2. NothingVanishes'
  BY DEF IInv, Delete, NothingVanishes, CopiedFirst
<1>3. Leaving' /\ Apart'
  BY DEF IInv, Delete, Leaving, Apart
<1> QED
  BY <1>1, <1>2, <1>3 DEF IInv

LEMMA TaskFailsStep == ASSUME IInv, NEW t \in tasks, TaskFails(t) PROVE IInv'
<1>1. TypeOK' /\ Started' /\ NothingVanishes' /\ CopiedFirst' /\ Arrivals'
  BY DEF IInv, TypeOK, Phases, Started, TaskFails, NothingVanishes, CopiedFirst, Arrivals
<1>2. Leaving' /\ Apart'
  BY DEF IInv, TaskFails, Leaving, Apart
<1> QED
  BY <1>1, <1>2 DEF IInv

\* Chunks are disjoint parts of what is cut, each short enough for a file.
LEMMA ChunksFacts ==
  ASSUME NEW files \in SUBSET Files, NEW P \in Chunks(files)
  PROVE  /\ \A c \in P : c \subseteq files /\ c \in Chunk
         /\ \A c, d \in P : c # d => c \cap d = {}
  BY DEF Chunks, Chunk

LEMMA EndMovesStep == ASSUME IInv, EndMoves PROVE IInv'
<1>1. CASE phase' = "idle"
  BY <1>1 DEF EndMoves, IInv, Started, TypeOK, Phases, NothingVanishes, CopiedFirst, Arrivals, Leaving, Apart
<1>2. CASE phase' # "idle"
  <2>1. PICK P \in Chunks(contents) : \E ms \in [P -> 0..MaxMs] : puts' = puts \cup PutsOf(P, ms)
    BY <1>2 DEF EndMoves
  <2>2. PICK ms \in [P -> 0..MaxMs] : puts' = puts \cup PutsOf(P, ms)
    BY <2>1
  <2>3. phase = "move" /\ phase' = "store" /\ UNCHANGED <<folderVars, run, tasks, contents>>
        /\ Mine(tasks) = {}
    BY <1>2 DEF EndMoves, MovesDone
  <2>4. \A c \in P : c \subseteq contents /\ c \in Chunk
    BY ChunksFacts DEF IInv, TypeOK
  <2>5. \A p \in PutsOf(P, ms) : p \in Extract /\ p.files \in P
    <3>1. run \in 1..MaxRuns
      BY <2>3 DEF IInv, TypeOK, Started
    <3>2. ASSUME NEW c \in P
          PROVE  [run |-> run, ms |-> ms[c], files |-> c] \in Extract
      BY <2>4, <3>1, <3>2 DEF Extract
    <3> QED
      BY <3>2 DEF PutsOf
  <2>6. \A p, q \in PutsOf(P, ms) : p # q => p.files # q.files
    BY DEF PutsOf
  <2>7. \A p, q \in PutsOf(P, ms) : p # q => p.files \cap q.files = {}
    BY <2>5, <2>6, ChunksFacts DEF IInv, TypeOK
  <2>8. contents \cap single = {}
    BY <2>3 DEF IInv, Leaving, Mine
  <2>9. \A p \in PutsOf(P, ms) : p.files \subseteq contents
    BY <2>4, <2>5
  <2>10. TypeOK' /\ Started'
    BY <2>2, <2>3, <2>5 DEF IInv, TypeOK, Phases, Started
  <2>11. NothingVanishes' /\ CopiedFirst' /\ Arrivals' /\ Leaving'
    BY <2>2, <2>3, <2>9 DEF IInv, NothingVanishes, CopiedFirst, Arrivals, Leaving
  <2>12. Apart'
    <3>1. \A p \in extracts \cup puts : p.files \cap single = {} /\ p.files \cap contents = {}
      BY <2>3 DEF IInv, Apart
    <3>2. \A p, q \in extracts \cup puts : p # q => p.files \cap q.files = {}
      BY DEF IInv, Apart
    <3>3. extracts' \cup puts' = (extracts \cup puts) \cup PutsOf(P, ms)
      BY <2>2, <2>3
    <3>4. \A p \in extracts' \cup puts' : p.files \cap single = {}
      BY <2>8, <2>9, <3>1, <3>3
    <3>5. \A p, q \in extracts' \cup puts' : p # q => p.files \cap q.files = {}
      BY <2>7, <2>9, <3>1, <3>2, <3>3
    <3> QED
      BY <2>3, <3>4, <3>5 DEF Apart
  <2> QED
    BY <2>10, <2>11, <2>12 DEF IInv
<1> QED
  BY <1>1, <1>2

LEMMA PutStep ==
  ASSUME IInv, NEW p \in puts, puts' = puts \ {p}, Lands(p) \/ UNCHANGED extracts,
         phase' = phase \/ phase' = "idle", UNCHANGED <<arrived, single, backup, run, tasks, contents>>
  PROVE  IInv'
<1>1. extracts' \cup puts' \subseteq extracts \cup puts
  BY DEF Lands
<1>2. TypeOK' /\ NothingVanishes' /\ CopiedFirst' /\ Started'
  BY <1>1 DEF IInv, TypeOK, Phases, NothingVanishes, CopiedFirst, Started
<1>3. Arrivals' /\ Leaving'
  BY <1>1 DEF IInv, Arrivals, Leaving
<1>4. Apart'
  BY <1>1 DEF IInv, Apart
<1> QED
  BY <1>2, <1>3, <1>4 DEF IInv

LEMMA Inductive == IInv /\ [Next]_vars => IInv'
<1> SUFFICES ASSUME IInv, [Next]_vars PROVE IInv'
  OBVIOUS
<1>1. ASSUME NEW t \in tasks, Fetch(t) \/ Copy(t) \/ Delete(t) \/ TaskFails(t) PROVE IInv'
  BY <1>1, FetchStep, CopyStep, DeleteStep, TaskFailsStep
<1>2. ASSUME NEW p \in puts, Land(p) \/ PutFails(p) PROVE IInv'
  <2>1. /\ puts' = puts \ {p} /\ (Lands(p) \/ UNCHANGED extracts)
        /\ phase' = phase \/ phase' = "idle"
        /\ UNCHANGED <<arrived, single, backup, run, tasks, contents>>
    BY <1>2 DEF Land, PutFails
  <2> QED
    BY <2>1, PutStep
<1>3. CASE EndStore \/ Crash \/ Recycle \/ UNCHANGED vars
  <2>1. /\ tasks' \subseteq tasks /\ puts' \subseteq puts /\ UNCHANGED <<folderVars, run, contents>>
        /\ phase' = "idle" \/ (phase' = phase /\ tasks' = tasks)
    <3>1. CASE EndStore \/ Crash
      BY <3>1 DEF EndStore, Crash
    <3>2. CASE Recycle
      BY <3>2 DEF Recycle
    <3>3. CASE UNCHANGED vars
      BY <3>3 DEF vars
    <3> QED
      BY <1>3, <3>1, <3>2, <3>3
  <2>2. TypeOK' /\ NothingVanishes' /\ CopiedFirst' /\ Started'
    BY <2>1 DEF IInv, TypeOK, Phases, NothingVanishes, CopiedFirst, Started
  <2>3. Arrivals' /\ Leaving' /\ Apart'
    BY <2>1 DEF IInv, Arrivals, Leaving, Apart
  <2> QED
    BY <2>2, <2>3 DEF IInv
<1> QED
  BY <1>1, <1>2, <1>3, ArriveStep, BeginStep, EndMovesStep DEF Next

\* Every variable keeps its type; no consolidated file is longer than a chunk.
THEOREM Typed == Spec => []TypeOK
<1>1. IInv => TypeOK
  BY DEF IInv
<1> QED
  BY <1>1, Initially, Inductive, PTL DEF Spec

\* Every event that arrived stays in the day's folder or in the backup folder.
THEOREM KeepsEverything == Spec => []NothingVanishes
<1>1. IInv => NothingVanishes
  BY DEF IInv
<1> QED
  BY <1>1, Initially, Inductive, PTL DEF Spec

\* No event is ever read twice, alone and consolidated or in two consolidated files.
THEOREM ReadsOnce == Spec => []ReadOnce
<1>1. IInv => ReadOnce
  BY DEF IInv, Apart, ReadOnce, Consolidated
<1> QED
  BY <1>1, Initially, Inductive, PTL DEF Spec

LEMMA OneChunk ==
  ASSUME NEW files \in SUBSET Files, files # {}, Cardinality(files) <= ChunkSize, NEW P \in Chunks(files)
  PROVE  P = {files}
<1> DEFINE Small == {c \in P : Cardinality(c) < ChunkSize}
<1>1. IsFiniteSet(files) /\ Cardinality(files) \in Nat
  BY FS_Subset, FS_CardinalityType
<1>2. /\ UNION P = files
      /\ \A c, d \in P : c # d => c \cap d = {}
      /\ Cardinality(Small) <= 1
  BY DEF Chunks
<1>3. \A c \in P : c \subseteq files /\ c # {}
  <2>1. P \in SUBSET ((SUBSET files) \ {{}})
    BY DEF Chunks
  <2>2. \A c \in P : c \in (SUBSET files) \ {{}}
    BY <2>1
  <2> QED
    BY <2>2
<1>4. IsFiniteSet(Small)
  <2>1. IsFiniteSet(SUBSET files)
    BY <1>1, FS_SUBSET
  <2> QED
    BY <1>2, <2>1, FS_Subset
<1>5. ASSUME NEW c \in P, c # files PROVE c \in Small
  <2>1. Cardinality(c) \in Nat /\ Cardinality(c) <= Cardinality(files) /\ Cardinality(c) # Cardinality(files)
    BY <1>1, <1>3, <1>5, FS_Subset, FS_CardinalityType
  <2>2. ChunkSize \in Nat
    BY BucketingAssumption DEF BucketingAssumption
  <2>3. Cardinality(c) < ChunkSize
    BY <1>1, <2>1, <2>2
  <2> QED
    BY <1>5, <2>3
<1>6. ASSUME NEW c \in P, c # files PROVE FALSE
  <2>1. PICK d \in P : d # c /\ d # files
    <3>1. PICK x \in files : x \notin c
      BY <1>3, <1>6
    <3>2. PICK d \in P : x \in d
      BY <1>2, <3>1
    <3>3. d # c
      BY <3>1, <3>2
    <3>4. c \cap d = {} /\ c # {} /\ c \subseteq files
      BY <1>2, <1>3, <3>3
    <3> QED
      BY <3>2, <3>3, <3>4
  <2>2. c \in Small /\ d \in Small
    BY <1>5, <1>6, <2>1
  <2>3. Cardinality({c, d}) = 2
    <3>1. Cardinality({c}) = 1 /\ IsFiniteSet({c})
      BY FS_Singleton
    <3>2. {c, d} = {c} \cup {d} /\ d \notin {c}
      BY <2>1
    <3>3. Cardinality({c} \cup {d}) = IF d \in {c} THEN Cardinality({c}) ELSE Cardinality({c}) + 1
      BY <3>1, FS_AddElement, Zenon
    <3>4. Cardinality({c} \cup {d}) = 2
      BY <3>1, <3>2, <3>3
    <3> QED
      BY <3>2, <3>4
  <2>4. {c, d} \in SUBSET Small
    BY <2>2
  <2>5. Cardinality({c, d}) <= Cardinality(Small) /\ Cardinality(Small) \in Nat
    BY <1>4, <2>4, FS_Subset, FS_CardinalityType
  <2> QED
    BY <1>2, <2>3, <2>5
<1> QED
  BY <1>2, <1>6

\* No put or task is of a run to come. A run that moves has no puts yet, one that
\* stores has no tasks left.
Stages ==
  /\ \A w \in tasks \cup puts : w.run <= run
  /\ phase = "move" => Mine(puts) = {}
  /\ phase = "store" => Mine(tasks) = {}

\* The consolidated file of a run that needs only one is written or on its way.
ChunkUnderWay ==
  phase = "store" /\ Cardinality(contents) <= ChunkSize =>
    \E x \in puts \cup extracts : /\ x.run = run /\ x.files = contents
                                 /\ \A p \in Mine(puts) : p = x

RunInv == Stages /\ ChunkUnderWay

LEMMA RunEndMoves == ASSUME IInv, RunInv, EndMoves PROVE RunInv'
<1>1. CASE phase' = "idle"
  BY <1>1 DEF EndMoves, RunInv, Stages, ChunkUnderWay
<1>2. CASE phase' # "idle"
  <2>1. /\ phase = "move" /\ phase' = "store" /\ UNCHANGED <<extracts, run, tasks, contents>>
        /\ Mine(tasks) = {} /\ Mine(puts) = {} /\ ~(Cardinality(contents) < 2) /\ run \in Int
    BY <1>2 DEF EndMoves, MovesDone, folderVars, RunInv, Stages, IInv, TypeOK
  <2>2. PICK P \in Chunks(contents) : \E ms \in [P -> 0..MaxMs] : puts' = puts \cup PutsOf(P, ms)
    BY <1>2 DEF EndMoves
  <2>3. PICK ms \in [P -> 0..MaxMs] : puts' = puts \cup PutsOf(P, ms)
    BY <2>2
  <2>4. \A p \in PutsOf(P, ms) : p.run = run
    BY DEF PutsOf
  <2>5. Stages'
    BY <2>1, <2>3, <2>4 DEF RunInv, Stages, Mine
  <2>6. ChunkUnderWay'
    <3> SUFFICES ASSUME Cardinality(contents) <= ChunkSize PROVE ChunkUnderWay'
      BY <2>1 DEF ChunkUnderWay
    <3>1. contents # {}
      BY <2>1, FS_EmptySet
    <3>2. P = {contents}
      BY <3>1, OneChunk DEF IInv, TypeOK
    <3> DEFINE x == [run |-> run, ms |-> ms[contents], files |-> contents]
    <3>3. PutsOf(P, ms) = {x}
      BY <3>2 DEF PutsOf
    <3>4. x \in puts' /\ x.run = run' /\ x.files = contents'
      BY <2>1, <2>3, <3>3
    <3>5. \A p \in Mine(puts)' : p = x
      BY <2>1, <2>3, <3>3 DEF Mine
    <3> QED
      BY <3>4, <3>5 DEF ChunkUnderWay
  <2> QED
    BY <2>5, <2>6 DEF RunInv
<1> QED
  BY <1>1, <1>2

LEMMA RunPut ==
  ASSUME RunInv, NEW p \in puts, Land(p) \/ PutFails(p)
  PROVE  RunInv'
<1>1. /\ puts' = puts \ {p} /\ UNCHANGED <<run, tasks, contents>>
      /\ phase' = phase \/ (phase' = "idle")
  BY DEF Land, PutFails
<1>2. Stages'
  BY <1>1 DEF RunInv, Stages, Mine
<1>3. ChunkUnderWay'
  <2> SUFFICES ASSUME phase' = "store", phase = "store", Cardinality(contents) <= ChunkSize
               PROVE  ChunkUnderWay'
    BY <1>1 DEF ChunkUnderWay
  <2>1. PICK x \in puts \cup extracts : /\ x.run = run /\ x.files = contents
                                        /\ \A q \in Mine(puts) : q = x
    BY DEF RunInv, ChunkUnderWay
  <2>2. CASE p.run = run
    <3>1. p = x /\ Land(p)
      BY <2>1, <2>2 DEF Mine, PutFails
    <3>2. x \in extracts'
      BY <3>1 DEF Land, Lands
    <3> QED
      BY <1>1, <2>1, <3>2 DEF ChunkUnderWay, Mine
  <2>3. CASE p.run # run
    <3>1. x \in puts' \cup extracts'
      BY <1>1, <2>1, <2>3 DEF Land, PutFails, Lands
    <3> QED
      BY <1>1, <2>1, <3>1 DEF ChunkUnderWay, Mine
  <2> QED
    BY <2>2, <2>3
<1> QED
  BY <1>2, <1>3 DEF RunInv

LEMMA RunTask ==
  ASSUME IInv, RunInv, NEW t \in tasks, Fetch(t) \/ Copy(t) \/ Delete(t) \/ TaskFails(t)
  PROVE  RunInv'
<1>1. \A n \in tasks' : \E o \in tasks : n.run = o.run
  BY DEF Fetch, Copy, Delete, TaskFails, Proceed
<1>2. UNCHANGED <<run, puts, extracts>> /\ phase' \in {phase, "idle"}
  BY DEF Fetch, Copy, Delete, TaskFails, folderVars
<1>3. Stages'
  <2>1. ASSUME NEW w \in tasks' \cup puts' PROVE w.run <= run'
    <3>1. PICK o \in tasks \cup puts : w.run = o.run
      BY <1>1, <1>2, <2>1
    <3>2. o.run <= run
      BY DEF RunInv, Stages
    <3> QED
      BY <1>2, <3>1, <3>2
  <2>2. phase' = "store" => Mine(tasks)' = {}
    BY <1>1, <1>2 DEF RunInv, Stages, Mine
  <2>3. phase' = "move" => Mine(puts)' = {}
    BY <1>2 DEF RunInv, Stages, Mine
  <2> QED
    BY <2>1, <2>2, <2>3 DEF Stages
<1>4. phase = "store" => contents' = contents
  BY DEF Fetch, Copy, Delete, TaskFails, RunInv, Stages, Mine
<1> QED
  BY <1>2, <1>3, <1>4 DEF RunInv, ChunkUnderWay, Mine

LEMMA RunStep == IInv /\ RunInv /\ [Next]_vars => RunInv'
<1> SUFFICES ASSUME IInv, RunInv, [Next]_vars PROVE RunInv'
  OBVIOUS
<1>1. ASSUME NEW f \in Files, Arrive(f) PROVE RunInv'
  BY <1>1 DEF Arrive, RunInv, Stages, ChunkUnderWay, Mine
<1>2. CASE Begin
  <2>1. PICK listed \in SUBSET single :
          /\ run' = run + 1 /\ UNCHANGED puts /\ phase = "idle"
          /\ \/ UNCHANGED <<phase, tasks>>
             \/ phase' = "move" /\ tasks' = tasks \cup [run : {run'}, file : listed, step : {"fetch"}]
    BY <1>2 DEF Begin
  <2>2. /\ run \in Int /\ \A w \in tasks \cup puts : w.run \in Int
    BY DEF IInv, TypeOK, Task, Extract
  <2> QED
    BY <2>1, <2>2 DEF RunInv, Stages, ChunkUnderWay, Mine
<1>3. ASSUME NEW t \in tasks, Fetch(t) \/ Copy(t) \/ Delete(t) \/ TaskFails(t) PROVE RunInv'
  BY <1>3, RunTask
<1>4. ASSUME NEW p \in puts, Land(p) \/ PutFails(p) PROVE RunInv'
  BY <1>4, RunPut
<1>5. CASE EndStore \/ Crash \/ Recycle
  BY <1>5 DEF EndStore, Crash, Recycle, folderVars, RunInv, Stages, ChunkUnderWay, Mine
<1>6. CASE UNCHANGED vars
  BY <1>6 DEF vars, folderVars, RunInv, Stages, ChunkUnderWay, Mine
<1> QED
  BY <1>1, <1>2, <1>3, <1>4, <1>5, <1>6, RunEndMoves DEF Next

\* A run that ends well and needed one consolidated file leaves all it took out of the
\* folder readable, whatever left-overs of earlier runs do.
THEOREM KeepsOneChunk == Spec => OneChunkKept
<1>1. Init => RunInv
  BY DEF Init, RunInv, Stages, ChunkUnderWay
<1>2. RunInv /\ [Next]_vars => [EndStore /\ Cardinality(contents) <= ChunkSize => contents \subseteq Readable']_vars
  BY DEF RunInv, ChunkUnderWay, EndStore, Readable, Consolidated, folderVars, Mine
<1> QED
  BY <1>1, <1>2, Initially, Inductive, RunStep, PTL DEF Spec, OneChunkKept
================================================================================
