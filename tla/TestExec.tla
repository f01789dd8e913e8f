------------------------------- MODULE TestExec -------------------------------
(***************************************************************************)
(* The execution of a test by the tasks of a communicator: the repetition  *)
(* loop of run_exec(), run_rept_exec(), and the offset and dataset         *)
(* branches of test_exec() down to each asynchronous I/O backend call.     *)
(*                                                                         *)
(* Every task runs the same program on its own copy of the test; tasks     *)
(* share only the file system and the collectives they enter on ctx.comm.  *)
(* A collective is a label a task waits at.  A task enters it with the     *)
(* step that arrives there, which appends the kind of the collective to    *)
(* the task's trail.  MPI pairs the k-th call of one task with the k-th    *)
(* call of every other task, whatever the kinds: Release lets all tasks    *)
(* out of a synchronising collective when all wait in one and their trails *)
(* agree, and the trails start anew.  A task stuck behind a call of        *)
(* another kind waits for ever.                                            *)
(***************************************************************************)
EXTENDS Integers, Sequences, FiniteSets

CONSTANTS
  N,              \* number of tasks of the communicator, ctx.num_procs
  Tests,          \* the test definitions a run may have been given
  NumRepetitions, \* run->num_repetitions
  Faults          \* the calls to the operating system that may fail

Task   == 0 .. N - 1
Master == 0           \* IORE_MASTER_TASK
Shared == N           \* stands for the absence of a task id in a file name
Type   == {"write", "read"}
Action == {"create_open", "write_read", "close", "remove"}
Fault  == {"mkdir", "rmdir", "remove", "io"}

(***************************************************************************)
(* The fields of iore_test_t (and of its workload) that decide control.    *)
(* random: the offsets are shuffled with a seed the master broadcasts;     *)
(* distrib: the sizes are drawn from a distribution, once per run.  A      *)
(* dataset workload behaves as one with neither.                           *)
(***************************************************************************)
Test ==
  [ write: BOOLEAN, read: BOOLEAN,
    file_mode: {"NX1", "NXN"}, afio: {"posix", "cstream", "mpiio"},
    append_sequence_num: BOOLEAN, append_task_id: BOOLEAN,
    dir_per_task: BOOLEAN, file_keep: BOOLEAN, intra_test_barrier: BOOLEAN,
    read_reorder_offset: Nat, random: BOOLEAN, distrib: BOOLEAN,
    verbose: BOOLEAN ]

\* test_valid(): a test that only reads is made to write first; one that does
\* neither is reported and let through.
TestValid(c) == [c EXCEPT !.write = @ \/ c.read]

ASSUME TestExecAssumption ==
  /\ N \in Nat \ {0}
  /\ NumRepetitions \in Nat \ {0}
  /\ Tests \subseteq Test
  /\ \A c \in Tests : c = TestValid(c)
  /\ Faults \subseteq Fault

VARIABLES
  test,      \* the test being executed; never changes
  pc,        \* where each task is
  trail,     \* the collectives each task entered since the last Release
  rept,      \* the repetition each task executes, 0 before the first
  phase,     \* IORE_TEST_TYPE_WRITE or IORE_TEST_TYPE_READ
  rerr,      \* the result test_exec() is about to return, TRUE for failure
  sized,     \* the sizes have been drawn: _data_sizes_len # 0
  hdle,      \* the file handle: closed, or open for writing or reading
  recorded,  \* the <<type, action>> pairs the time record holds
  committed, \* the types trec_test_commit() marked, then their reduction
  files,     \* files that exist
  dirs,      \* ids whose directory task.<id> exists
  stored,    \* <<file, id>>: the file holds all the data of that id
  aborted    \* some task called MPI_Abort()

taskVars == <<rept, phase, rerr, sized, hdle>>
trecVars == <<recorded, committed>>
fsVars   == <<files, dirs, stored>>
vars == <<test, pc, trail, taskVars, trecVars, fsVars, aborted>>

-------------------------------------------------------------------------------
(* Labels and collectives.                                                 *)

Local == {"start", "prep", "create", "open", "late_create", "late_open",
          "xfer", "close", "remove", "commit", "post", "done"}

\* Collectives that hold every task until all have entered.
Sync == {"begin", "open_sync", "opened", "xfered", "close_sync",
         "remove_sync", "end", "rept_reduce", "rept_end", "comm_free"}

\* MPI_Bcast() from the master holds the other tasks only, MPI_Reduce() to
\* the master holds the master only.
Bcast  == {"sizes", "seed"}
Reduce == {"summary", "rept_summary"}

Label == Local \cup Sync \cup Bcast \cup Reduce

Kind == {"barrier", "bcast", "test_reduce", "rept_reduce", "time_reduce",
         "file_open", "file_close", "comm_free"}

\* The collective a task enters by arriving at a label.  The barrier inside
\* cstream_create() is a barrier like any other.
KindOf(l) ==
  CASE l \in Bcast         -> "bcast"
    [] l = "summary"       -> "test_reduce"
    [] l = "rept_reduce"   -> "rept_reduce"
    [] l = "rept_summary"  -> "time_reduce"
    [] l = "close_sync"    -> "file_close"
    [] l = "comm_free"     -> "comm_free"
    [] l = "open_sync"     -> IF test.afio = "mpiio" THEN "file_open"
                                                     ELSE "barrier"
    [] OTHER               -> "barrier"

Entered(l) == IF l \in Local THEN <<>> ELSE <<KindOf(l)>>

\* Task t goes from label `from' to label `to', entering a collective there.
Goto(t, from, to) ==
  /\ ~aborted
  /\ pc[t] = from
  /\ pc' = [pc EXCEPT ![t] = to]
  /\ trail' = [trail EXCEPT ![t] = @ \o Entered(to)]

-------------------------------------------------------------------------------
(* Files.                                                                  *)

\* A mutant of Id: the reordered id is not wrapped around.
Id_Unwrapped(t) == IF phase[t] = "write" THEN t
                                         ELSE t + test.read_reorder_offset

\* In a read test tasks act as another task id: test_oset_type_prep().
Id(t) == IF phase[t] = "write" THEN t
                               ELSE (t + test.read_reorder_offset) % N

File == (0 .. NumRepetitions) \X (Task \cup {Shared})

\* The name test_file_prep() composes: sequence numbers and id, where asked.
FileOf(t) ==
  << IF test.append_sequence_num THEN rept[t] ELSE 0,
     IF test.append_task_id \/ test.file_mode = "NXN" THEN Id(t) ELSE Shared >>

\* The option that gives each task a name of its own is taken together with
\* the mode in which all share one file: nothing refuses the pair.
OwnNames == test.append_task_id /\ test.file_mode = "NX1"

UsesDir == test.dir_per_task /\ test.file_mode = "NXN"

\* Whether this phase ends by removing the file.
Removes(t) == ~test.file_keep /\ (phase[t] = "write" => ~test.read)
\* A mutant of Remover: whatever the mode, the master alone removes.
Remover_MasterOnly(t) == t = Master

Remover(t) == test.file_mode = "NXN" \/ t = Master

CollectiveOpen(t) ==
  /\ test.file_mode = "NX1"
  /\ \/ test.afio = "mpiio"
     \/ test.afio = "cstream" /\ phase[t] = "write"

\* stdio hands the data of a task over when the stream is closed, and MPI-IO
\* promises it to readers that open the file afterwards.
Buffered == test.afio # "posix"

\* The stdio mode that creates is "w+", which truncates; on a shared file it
\* is the master's, and the others open with "r+".  A mutant: all use "w+".
Truncates_All(t) == test.afio = "cstream"
Truncates(t) ==
  test.afio = "cstream" /\ (test.file_mode = "NXN" \/ t = Master)

Forget(f) == {s \in stored : s[1] # f}

-------------------------------------------------------------------------------
(* What follows a step, with the optional collectives skipped.             *)

AfterSizes == IF test.random THEN "seed" ELSE "begin"
AfterPrep(t) == IF test.distrib /\ ~sized[t] THEN "sizes" ELSE AfterSizes
AfterOpen == IF test.intra_test_barrier THEN "opened" ELSE "xfer"
AfterXfer == IF test.intra_test_barrier THEN "xfered" ELSE "close"

\* Mutants of AfterClose: the barrier before the removal is missing, or only
\* the task that removes enters it.
AfterClose_NoBarrier(t) == IF Removes(t) THEN "remove" ELSE "end"
AfterClose_RemoverOnly(t) ==
  IF Removes(t) THEN IF Remover(t) THEN "remove_sync" ELSE "remove" ELSE "end"

AfterClose(t) == IF Removes(t) THEN "remove_sync" ELSE "end"

\* What follows the last barrier of run_rept_exec().
AfterRept(t) ==
  IF rept[t] < NumRepetitions /\ ~rerr[t] THEN "start" ELSE "comm_free"

AfterSync(t) ==
  CASE pc[t] = "begin" ->
         IF phase[t] = "write" THEN "create" ELSE "open"
    [] pc[t] = "open_sync" ->
         IF phase[t] = "read" THEN "late_open"
         ELSE "late_create"
    [] pc[t] = "opened"      -> "xfer"
    [] pc[t] = "xfered"      -> "close"
    [] pc[t] = "close_sync"  -> AfterClose(t)
    [] pc[t] = "remove_sync" -> "remove"
    [] pc[t] = "end"         -> "commit"
    [] pc[t] = "rept_reduce" ->
         IF test.verbose THEN "rept_summary" ELSE "rept_end"
    [] pc[t] = "rept_end"    -> AfterRept(t)
    [] pc[t] = "comm_free"   -> "done"

Record(t, action) ==
  recorded' = [recorded EXCEPT ![t] = @ \cup {<<phase[t], action>>}]

-------------------------------------------------------------------------------
(* The steps of a task.                                                    *)

\* The time record run_rept_exec() starts a repetition with, and a mutant of
\* it that keeps the flags of the repetition before.
FreshRecord_Stale(t) ==
  /\ recorded' = [recorded EXCEPT ![t] = {}]
  /\ UNCHANGED committed
FreshRecord(t) ==
  /\ recorded' = [recorded EXCEPT ![t] = {}]
  /\ committed' = [committed EXCEPT ![t] = {}]

\* A mutant of Start: the repetition is not counted.
Start_Uncounted(t) ==
  /\ Goto(t, "start", IF test.write THEN "prep" ELSE "rept_reduce")
  /\ phase' = [phase EXCEPT ![t] = "write"]
  /\ rerr' = [rerr EXCEPT ![t] = FALSE]
  /\ FreshRecord(t)
  /\ UNCHANGED <<test, rept, sized, hdle, fsVars, aborted>>

\* run_rept_exec() enters a repetition: a fresh time record, and the first
\* branch test_oset_exec() or test_dset_exec() takes.
Start(t) ==
  /\ Goto(t, "start", IF test.write THEN "prep" ELSE "rept_reduce")
  /\ rept' = [rept EXCEPT ![t] = @ + 1]
  /\ phase' = [phase EXCEPT ![t] = "write"]
  /\ rerr' = [rerr EXCEPT ![t] = FALSE]
  /\ FreshRecord(t)
  /\ UNCHANGED <<test, sized, hdle, fsVars, aborted>>

\* test_file_prep() and the rest of the preparation: the task's directory is
\* made unless it exists, then sizes and offsets may need a broadcast.
Prep(t) ==
  /\ Goto(t, "prep", AfterPrep(t))
  /\ dirs' = IF UsesDir THEN dirs \cup {Id(t)} ELSE dirs
  /\ UNCHANGED <<test, taskVars, trecVars, files, stored, aborted>>

\* mkdir() fails: this task alone gives up the test.
PrepFails(t) ==
  /\ "mkdir" \in Faults
  /\ UsesDir
  /\ Id(t) \notin dirs
  /\ Goto(t, "prep", "rept_reduce")
  /\ rerr' = [rerr EXCEPT ![t] = TRUE]
  /\ UNCHANGED <<test, rept, phase, sized, hdle, trecVars, fsVars, aborted>>

\* A broadcast reaches a task once the master has entered the same call.
HasSeed(t) ==
  /\ Len(trail[Master]) >= Len(trail[t])
  /\ trail[Master][Len(trail[t])] = "bcast"

\* prng_new_sync() for the sizes, which the test keeps for the whole run.
Sizes(t) ==
  /\ Goto(t, "sizes", AfterSizes)
  /\ HasSeed(t)
  /\ sized' = [sized EXCEPT ![t] = TRUE]
  /\ UNCHANGED <<test, rept, phase, rerr, hdle, trecVars, fsVars, aborted>>

\* The seed of random offsets: test_offs_nxn_prep(), test_offs_nx1_rnd_prep().
Seed(t) ==
  /\ Goto(t, "seed", "begin")
  /\ HasSeed(t)
  /\ UNCHANGED <<test, taskVars, trecVars, fsVars, aborted>>

\* The effect of opening the file for writing.
OpenForWriting(t) ==
  /\ files' = files \cup {FileOf(t)}
  /\ stored' = IF Truncates(t) THEN Forget(FileOf(t)) ELSE stored
  /\ hdle' = [hdle EXCEPT ![t] = "write"]

\* afio->create().  On a shared file the stdio master creates it before a
\* barrier and the others open it after; MPI_File_open() is collective.
Create(t) ==
  /\ UsesDir => Id(t) \in dirs
  /\ Goto(t, "create", IF CollectiveOpen(t) THEN "open_sync" ELSE AfterOpen)
  /\ IF CollectiveOpen(t) /\ (test.afio = "mpiio" \/ t # Master)
     THEN UNCHANGED <<files, stored, hdle>>
     ELSE OpenForWriting(t)
  /\ IF CollectiveOpen(t) THEN UNCHANGED recorded
                          ELSE Record(t, "create_open")
  /\ UNCHANGED <<test, rept, phase, rerr, sized, committed, dirs, aborted>>

\* The stdio master cannot open the shared file: it still enters the barrier.
CreateFails(t) ==
  /\ "io" \in Faults
  /\ CollectiveOpen(t) /\ test.afio = "cstream" /\ t = Master
  /\ Goto(t, "create", "open_sync")
  /\ UNCHANGED <<test, taskVars, trecVars, fsVars, aborted>>

LateCreate(t) ==
  /\ test.afio = "cstream" => FileOf(t) \in files
  /\ test.afio = "cstream" /\ t = Master => hdle[t] = "write"
  /\ Goto(t, "late_create", AfterOpen)
  /\ IF hdle[t] = "write" THEN UNCHANGED <<files, stored, hdle>>
                          ELSE OpenForWriting(t)
  /\ Record(t, "create_open")
  /\ UNCHANGED <<test, rept, phase, rerr, sized, committed, dirs, aborted>>

\* afio->open()
OpenForReading(t) ==
  /\ FileOf(t) \in files
  /\ hdle' = [hdle EXCEPT ![t] = "read"]
  /\ Record(t, "create_open")
  /\ UNCHANGED <<test, rept, phase, rerr, sized, committed, fsVars, aborted>>

Open(t) ==
  IF CollectiveOpen(t)
  THEN /\ Goto(t, "open", "open_sync")
       /\ UNCHANGED <<test, taskVars, trecVars, fsVars, aborted>>
  ELSE Goto(t, "open", AfterOpen) /\ OpenForReading(t)

LateOpen(t) == Goto(t, "late_open", AfterOpen) /\ OpenForReading(t)

\* afio->write_oset() or write_dset(), all requests.
Write(t) ==
  /\ phase[t] = "write"
  /\ Goto(t, "xfer", AfterXfer)
  /\ stored' = IF Buffered THEN stored ELSE stored \cup {<<FileOf(t), Id(t)>>}
  /\ Record(t, "write_read")
  /\ UNCHANGED <<test, taskVars, committed, files, dirs, aborted>>

\* afio->read_oset() or read_dset(): anything less than all data is fatal,
\* except that the MPI-IO backend does not ask how much was read.
Read(t) ==
  /\ phase[t] = "read"
  /\ test.afio # "mpiio" => <<FileOf(t), Id(t)>> \in stored
  /\ Goto(t, "xfer", AfterXfer)
  /\ Record(t, "write_read")
  /\ UNCHANGED <<test, taskVars, committed, fsVars, aborted>>

\* What closing leaves of the handle, and a mutant of it that keeps the file
\* of a write test open for the read test.
Closed_Kept(t) == IF test.read THEN hdle[t] ELSE "closed"
Closed(t) == "closed"

\* afio->close()
Close(t) ==
  /\ Goto(t, "close", IF test.afio = "mpiio" /\ test.file_mode = "NX1"
                      THEN "close_sync" ELSE AfterClose(t))
  /\ stored' = IF Buffered /\ hdle[t] = "write"
               THEN stored \cup {<<FileOf(t), Id(t)>>} ELSE stored
  /\ hdle' = [hdle EXCEPT ![t] = Closed(t)]
  /\ Record(t, "close")
  /\ UNCHANGED <<test, rept, phase, rerr, sized, committed, files, dirs,
                 aborted>>

\* afio->remove(), by every task or by the master only; the time of the
\* action is recorded by all.
Remove(t) ==
  /\ Goto(t, "remove", "end")
  /\ IF Remover(t)
     THEN /\ files' = files \ {FileOf(t)}
          /\ stored' = Forget(FileOf(t))
          /\ rerr' = [rerr EXCEPT ![t] = FileOf(t) \notin files]
     ELSE UNCHANGED <<files, stored, rerr>>
  /\ Record(t, "remove")
  /\ UNCHANGED <<test, rept, phase, sized, hdle, committed, dirs, aborted>>

RemoveFails(t) ==
  /\ "remove" \in Faults
  /\ Remover(t)
  /\ Goto(t, "remove", "end")
  /\ rerr' = [rerr EXCEPT ![t] = TRUE]
  /\ Record(t, "remove")
  /\ UNCHANGED <<test, rept, phase, sized, hdle, committed, fsVars, aborted>>

\* test_oset_exec() looks at the result: failure returns at once, success
\* commits the time record and prints the summary of the test.
Commit(t) ==
  /\ Goto(t, "commit", IF rerr[t] THEN "rept_reduce" ELSE "summary")
  /\ committed' = IF rerr[t] THEN committed
                  ELSE [committed EXCEPT ![t] = @ \cup {phase[t]}]
  /\ UNCHANGED <<test, taskVars, recorded, fsVars, aborted>>

\* A reduction gives the master its result once every task has entered the
\* same call; the other tasks go on.
HasReduced(t, kind) ==
  t = Master => \A u \in Task : /\ Len(trail[u]) >= Len(trail[t])
                               /\ trail[u][Len(trail[t])] = kind

\* test_show_summary()
Summary(t) ==
  /\ Goto(t, "summary", "post")
  /\ HasReduced(t, "test_reduce")
  /\ UNCHANGED <<test, taskVars, trecVars, fsVars, aborted>>

\* run_rept_show_summary(), when verbose
ReptSummary(t) ==
  /\ Goto(t, "rept_summary", "rept_end")
  /\ HasReduced(t, "time_reduce")
  /\ UNCHANGED <<test, taskVars, trecVars, fsVars, aborted>>

\* rmdir() takes an empty directory only.
DirEmpty(d) == \A f \in files : f[2] # d
RemovesDir == UsesDir /\ ~test.file_keep

\* test_oset_type_post(): the task's directory goes, and the read test, if
\* any, follows the write test.
Post(t) ==
  LET last == phase[t] = "read" \/ ~test.read IN
  /\ RemovesDir => Id(t) \in dirs /\ DirEmpty(Id(t))
  /\ Goto(t, "post", IF last THEN "rept_reduce" ELSE "prep")
  /\ dirs' = IF RemovesDir THEN dirs \ {Id(t)} ELSE dirs
  /\ phase' = IF last THEN phase ELSE [phase EXCEPT ![t] = "read"]
  /\ UNCHANGED <<test, rept, rerr, sized, hdle, trecVars, files, stored,
                 aborted>>

PostFails(t) ==
  /\ RemovesDir
  /\ Id(t) \notin dirs \/ ~DirEmpty(Id(t)) \/ "rmdir" \in Faults
  /\ Goto(t, "post", "rept_reduce")
  /\ rerr' = [rerr EXCEPT ![t] = TRUE]
  /\ UNCHANGED <<test, rept, phase, sized, hdle, trecVars, fsVars, aborted>>

-------------------------------------------------------------------------------
(* The backend call a task is about to make cannot succeed, or, where the  *)
(* tasks of a collective open name different files, which MPI leaves       *)
(* undefined, may not.                                                     *)
IOError(t) ==
  \/ pc[t] = "create" /\ UsesDir /\ Id(t) \notin dirs
  \/ /\ pc[t] = "late_create" /\ test.afio = "cstream"
     /\ FileOf(t) \notin files \/ (t = Master /\ hdle[t] # "write")
  \/ /\ pc[t] \in {"late_create", "late_open"} /\ test.afio = "mpiio"
     /\ OwnNames /\ N > 1
  \/ pc[t] = "open" /\ FileOf(t) \notin files
  \/ pc[t] = "late_open" /\ FileOf(t) \notin files
  \/ /\ pc[t] = "xfer" /\ phase[t] = "read" /\ test.afio # "mpiio"
     /\ <<FileOf(t), Id(t)>> \notin stored

\* create, open, write, read or close fails: iore_fatalf() aborts all tasks.
Fatal(t) ==
  /\ ~aborted
  /\ pc[t] \in {"create", "late_create", "open", "late_open", "xfer", "close"}
  /\ pc[t] \in {"create", "open"} => ~CollectiveOpen(t)
  /\ IOError(t) \/ "io" \in Faults
  /\ aborted' = TRUE
  /\ UNCHANGED <<test, pc, trail, taskVars, trecVars, fsVars>>

\* All tasks wait in a synchronising collective and entered the same calls.
\* The reduction of the time records leaves a type committed when it was
\* committed by every task.
Release ==
  /\ ~aborted
  /\ \A t \in Task : pc[t] \in Sync
  /\ \A t, u \in Task : trail[t] = trail[u]
  /\ pc' = [t \in Task |-> AfterSync(t)]
  /\ trail' = [t \in Task |-> Entered(AfterSync(t))]
  /\ committed' = [t \in Task |->
       IF pc[t] = "rept_reduce"
       THEN {p \in Type : \A u \in Task : p \in committed[u]}
       ELSE committed[t]]
  /\ UNCHANGED <<test, taskVars, recorded, fsVars, aborted>>

Finished == aborted \/ \A t \in Task : pc[t] = "done"
Terminating == Finished /\ UNCHANGED vars

-------------------------------------------------------------------------------
Init ==
  /\ test \in Tests
  /\ pc = [t \in Task |-> "start"]
  /\ trail = [t \in Task |-> <<>>]
  /\ rept = [t \in Task |-> 0]
  /\ phase = [t \in Task |-> "write"]
  /\ rerr = [t \in Task |-> FALSE]
  /\ sized = [t \in Task |-> FALSE]
  /\ hdle = [t \in Task |-> "closed"]
  /\ recorded = [t \in Task |-> {}]
  /\ committed = [t \in Task |-> {}]
  /\ files = {}
  /\ dirs = {}
  /\ stored = {}
  /\ aborted = FALSE

TaskStep(t) ==
  \/ Start(t)
  \/ Prep(t)        \/ PrepFails(t)
  \/ Sizes(t)       \/ Seed(t)
  \/ Create(t)      \/ CreateFails(t)   \/ LateCreate(t)
  \/ Open(t)        \/ LateOpen(t)
  \/ Write(t)       \/ Read(t)
  \/ Close(t)
  \/ Remove(t)      \/ RemoveFails(t)
  \/ Commit(t)
  \/ Summary(t)     \/ ReptSummary(t)
  \/ Post(t)        \/ PostFails(t)
  \/ Fatal(t)

Next == Release \/ (\E t \in Task : TaskStep(t)) \/ Terminating

Spec == Init /\ [][Next]_vars

\* Each task is a process of its own, and MPI completes a matched collective.
FairSpec == Spec /\ WF_vars(Release) /\ \A t \in Task : WF_vars(TaskStep(t))

-------------------------------------------------------------------------------
(* Properties.                                                             *)

TypeOK ==
  /\ test \in Tests
  /\ pc \in [Task -> Label]
  /\ trail \in [Task -> Seq(Kind)]
  /\ rept \in [Task -> 0 .. NumRepetitions]
  /\ phase \in [Task -> Type]
  /\ rerr \in [Task -> BOOLEAN]
  /\ sized \in [Task -> BOOLEAN]
  /\ hdle \in [Task -> {"closed", "read", "write"}]
  /\ recorded \in [Task -> SUBSET (Type \X Action)]
  /\ committed \in [Task -> SUBSET Type]
  /\ files \subseteq File
  /\ dirs \subseteq Task
  /\ stored \subseteq File \X Task
  /\ aborted \in BOOLEAN

\* The k-th collective of a task is of the kind of the k-th collective of
\* every other: no task waits for calls the others will not make.  The
\* control of every task depends on its own copy of the test and on its own
\* results only.
CollectivesMatch ==
  \A t, u \in Task : \A k \in DOMAIN trail[t] \cap DOMAIN trail[u] :
    trail[t][k] = trail[u][k]

\* Tasks come apart, and then wait for each other, only where one of them failed
\* and went on to the end of the repetition or of the loop without the others:
\* failing calls lead tasks nowhere else.
DivergesByFailure ==
  \A t, u \in Task : \A k \in DOMAIN trail[t] \cap DOMAIN trail[u] :
    trail[t][k] # trail[u][k] =>
      \E w \in {t, u} : rerr[w] /\ trail[w][k] \in {"rept_reduce", "comm_free"}

\* A file is removed only when no task has it open, although on a shared
\* file one task removes what all the others use.
OpenFileExists ==
  \A t \in Task : hdle[t] # "closed" => FileOf(t) \in files

\* No task reads while another still writes: reads would measure, and find,
\* half-written files.
ReadersAfterWriters ==
  \A t, u \in Task : ~(hdle[t] = "read" /\ hdle[u] = "write")

\* A task about to read finds all the data of the id it acts as: written by
\* then, not truncated by a later creation, not yet removed.  The MPI-IO
\* backend would not notice if it did not.
ReadsFindData ==
  \A t \in Task : pc[t] = "xfer" /\ phase[t] = "read"
                   => <<FileOf(t), Id(t)>> \in stored

\* Unless the operating system fails a call, no backend call can fail, so
\* nothing aborts, whatever the reordering, the file mode and the backend,
\* with one exception: a collective creation of a shared file for which every
\* task has a name of its own.  The stdio master creates its own file only.
NeverAborts == aborted => OwnNames /\ test.afio # "posix"

\* Tasks leave a repetition with the same result: were it to differ, some
\* would start the next repetition and the others free the communicator.
SameResult ==
  \A t, u \in Task :
    pc[t] = "rept_end" /\ pc[u] = "rept_end" => rerr[t] = rerr[u]

\* The id a task acts as when it removes its file.
LastId(t) == IF test.read THEN (t + test.read_reorder_offset) % N ELSE t

\* A run without errors that does not keep its files leaves nothing behind,
\* with one exception: where the tasks have names of their own for a shared
\* file, the master still removes alone, and only the files of the id it acts
\* as are sure to be gone.
CleansUp ==
  (\A t \in Task : pc[t] = "done" /\ ~rerr[t]) /\ ~test.file_keep
    => /\ dirs = {}
       /\ IF OwnNames THEN \A f \in files : f[2] # LastId(Master)
                      ELSE files = {}

\* After the reduction of the time records a type counts as committed only
\* when every task took part in it up to closing its file.
CommittedByAll ==
  \A t, u \in Task :
    pc[t] = "rept_end" =>
      \A p \in committed[t] : <<p, "close">> \in recorded[u]

\* Every run ends, for every task.
Terminates == <>Finished

\* A run of a write+read test that ends without failed calls has read: the
\* README says that runs contain "a write or write+read test".
ReadTestRuns ==
  \A t \in Task : pc[t] = "rept_end" /\ test.read => "read" \in committed[t]

-------------------------------------------------------------------------------
(* The inductive invariant.                                                *)
(*                                                                         *)
(* The synchronising collectives cut a repetition into segments, and tasks *)
(* are always in the same segment of the same repetition, except that a    *)
(* task whose test failed waits for the others at the reduction of the     *)
(* time records.  A segment is numbered by the repetition, the part of it  *)
(* (0 for the write test, 1 for the read test, 2 for the end, which is all *)
(* of a test that does neither) and the synchronising collectives of that  *)
(* part the task has left.                                                 *)

Count(b) == IF b THEN 1 ELSE 0

\* Tasks that left the repetition loop.
Gone(t) == pc[t] \in {"comm_free", "done"}

Repetition(t) == IF pc[t] = "start" THEN rept[t] + 1 ELSE rept[t]

PartOf(p) == IF p = "write" THEN 0 ELSE 1
Part(t) ==
  CASE pc[t] = "start" -> IF test.write THEN 0 ELSE 2
    [] pc[t] \in {"rept_reduce", "rept_summary", "rept_end"} -> 2
    [] Gone(t) -> 2
    [] pc[t] \in {"commit", "summary", "post"} ->
         IF phase[t] = "write" /\ test.read THEN 1 ELSE 2
    [] OTHER -> PartOf(phase[t])

ToOpened(t) == 1 + Count(CollectiveOpen(t))
ToXfer(t)   == ToOpened(t) + Count(test.intra_test_barrier)
ToClose(t)  == ToXfer(t) + Count(test.intra_test_barrier)
ToEnd(t)    == ToClose(t) + Count(test.afio = "mpiio" /\ test.file_mode = "NX1")

Left(t) ==
  CASE pc[t] \in {"create", "open", "open_sync"}             -> 1
    [] pc[t] \in {"late_create", "late_open", "opened"}      -> ToOpened(t)
    [] pc[t] \in {"xfer", "xfered"}                          -> ToXfer(t)
    [] pc[t] \in {"close", "close_sync"}                     -> ToClose(t)
    [] pc[t] = "remove_sync"                                 -> ToEnd(t)
    [] pc[t] \in {"remove", "end"} -> ToEnd(t) + Count(Removes(t))
    [] pc[t] \in {"rept_summary", "rept_end"}                -> 1
    [] OTHER                                                 -> 0

\* Two tasks in the repetition loop are in the same segment, or one of them
\* waits at the end of the same repetition.
Aligned ==
  \A t, u \in Task : ~Gone(t) /\ ~Gone(u) =>
    /\ Repetition(t) = Repetition(u)
    /\ \/ pc[t] = "rept_reduce" \/ pc[u] = "rept_reduce"
       \/ Part(t) = Part(u) /\ Left(t) = Left(u)

\* The collective a task waits in is the last it entered.
TrailEnds ==
  \A t \in Task : pc[t] \notin Local =>
    /\ trail[t] # <<>>
    /\ trail[t][Len(trail[t])] = KindOf(pc[t])

\* What the place of a task says of its file handle and its phase.
PlacedAt(t) ==
  /\ pc[t] \in {"opened", "xfer", "xfered", "close"} => hdle[t] = phase[t]
  /\ hdle[t] # "closed" =>
       \/ pc[t] \in {"opened", "xfer", "xfered", "close"}
       \/ pc[t] \in {"open_sync", "late_create"} /\ hdle[t] = "write"
  /\ pc[t] \in {"create", "late_create"} => phase[t] = "write"
  /\ pc[t] \in {"open", "late_open"} => phase[t] = "read"
  /\ hdle[t] = "write" => phase[t] = "write"
  /\ pc[t] \in {"open_sync", "late_create", "late_open"} => CollectiveOpen(t)
  /\ pc[t] \in {"opened", "xfered"} => test.intra_test_barrier
  /\ pc[t] = "close_sync" => test.afio = "mpiio" /\ test.file_mode = "NX1"
  /\ pc[t] \in {"remove_sync", "remove"} => Removes(t)
  /\ phase[t] = "read" => test.read

Placed == \A t \in Task : PlacedAt(t)

\* A repetition is started only while one is left.
RepetitionLeft == \A t \in Task : pc[t] = "start" => rept[t] < NumRepetitions

IInv == TypeOK /\ RepetitionLeft /\ TrailEnds /\ Placed /\ Aligned

===============================================================================
