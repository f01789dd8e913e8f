# A TLA+ model of IORE

IORE is an MPI program that measures parallel I/O. It executes an *experiment*:
some replications of some *runs*, each of which repeats a *test*, a write or a
write+read workload on a file, and exports the times. This directory holds a
TLA+ model of its core, the TLC instances that check it, and TLAPS proofs. Paths
below are relative to the repository's `src/` (C sources) unless they start with
`include/`.

To check something: `tlc -config X.cfg M` with a module and a config of the table
of runs; to prove: `tlapm M_proofs.tla`.

## 1. Inventory

| Part | State | Operations | Interacts with |
|---|---|---|---|
| main program, `iore.c` | exit status | parse, execute, export, exit | parser, experiment, export |
| experiment, `iore_experiment.c` | replication, order of the runs, result | `exp_exec`, `exp_repl_exec`, `exp_repl_prep`, summaries | broadcasts the seed of the order; run |
| run, `iore_run.c` | `ctx.comm`, repetition, result | `run_exec`, `run_prep`, `run_post`, `run_rept_exec` | communicators of MPI; test; time records |
| test, `iore_test.c` | file name, id acted as, sizes (drawn once and kept), offsets, handle | `test_exec`, the write and read branches for offsets and datasets, preparation, cleanup | backends, time records, random numbers, file system, collectives |
| backends, `afio/` | file handle | create, open, close, remove, write and read of offsets and datasets: POSIX, C streams, MPI-IO | file system; collectives inside C stream creation and MPI-IO |
| workload, `iore_workload.c` | offsets of a dataset's rows | `dset_to_off`, sizes | test |
| time records, `trec/` | tree of records, pointers into it | start, stop, commit, reduction | every level above; export |
| export, `stex/` | settings, rows | `stex_export`, CSV task and test reports | time records |
| random numbers, `prng/` | generator state | `prng_new_sync`, `prng_next*` | broadcast from the master |
| utilities, `common/iore_util.c` | none | `shuffle`, formatting | experiment, test |
| dictionary, `common/iore_dict.c` | growing array | set, get, remove | options of backends and distributions |
| validation, `iore_*_valid.c` | none | checks and corrections of what was parsed | main program |
| command line and parser, `parser/` | experiment being built, memory it has | options, one function per JSON object | main program |
| storage backends, `afsb/` | type and parameters | making, validating and freeing; otherwise stubs nothing calls | parser |

Tasks share no memory: they interact by MPI collectives on `ctx.comm` and through
the file system. What is hard in this code follows from that.

* **Collectives.** There are some 25 places where all tasks of a communicator must
  make the same call in the same order. Which ones a task makes depends on its
  copy of the test (barriers, broadcasts of seeds, reductions are optional) and on
  *its own* results. One call more at one task and MPI pairs the wrong calls, or
  all wait for ever.
* **The file system.** In shared-file mode one task creates and removes what all
  use, and in reading a task acts as another. Only barriers keep these apart.
* **Partial failure.** A failed `mkdir()`, `remove()` or `rmdir()` is a return
  value at one task; a failed open, read or write aborts all.
* **Results** are passed up five levels of calls, and overwritten on the way.
* **Parsing** takes members in the order of the file and compares a count with the
  arrays it has seen so far only; the workload lives in a union that holds a default.
  Members and files may repeat: what was made of the earlier ones is freed, replaced or kept.
* **Arithmetic on offsets**: sizes that differ per task, are drawn, or are zero; short last
  requests, shuffled and drawn offsets, blocks of a Cartesian dataset that divisions do not
  divide evenly; counts cut to 32 bits.
* **Time records**: calls at five places move pointers; a test that fails leaves
  them where they were. Summaries and reports compute the same figures twice.

What makes each part correct is stated as the properties of section 3. The list
`hazards` of PROJECT.json names the lines where each could go wrong.

## 2. Modules

`Spec` of every module is `Init /\ [][Next]_vars`. Operators whose names have a
suffix after an underscore (`Remover_MasterOnly`, `Fac_Own`) are *mutants* of the
operator after them: what a plausible bug would make of it. They are not part of
any specification; each shows that a property can be broken.

**TestExec** models `run_rept_exec()` and `test_exec()` with all they call, for the
`N` tasks of a communicator and one test. `pc[t]` is the call a task is at; each
label is one call that another task could notice. A *collective* is a label too:
arriving appends its kind to `trail[t]`; `Release` lets all tasks out of a barrier
(or reduction to all, or collective open, close, free) if all wait in one and have
entered the same kinds in the same order. Broadcasts hold a task until the master
has entered the same call, reductions the master until all have. Two tasks that
wait in different calls wait for ever, as they do under MPI. The files are the set
of names (repetition number, id) that exist, the directories that exist, and which
ids' data a file holds completely. POSIX data is there when written, C stream and
MPI-IO data when its writer closes the file. `Fatal` is `iore_fatalf()`; it is
enabled exactly where the state makes a call fail, or when `Faults` lets any fail.
A dataset test makes the same calls as an offset test without random offsets, so
both branches of `test_exec()` are one here.

**Experiment** is the abstract specification of a whole execution, as a sequential
program would do it: replications, runs in an order drawn per replication,
repetitions until one fails. **ExpExec** is what all tasks do: `exp_exec()`,
`exp_repl_exec()`, `run_exec()` with the selection of the tasks of a run and its
communicator, the tasks left out, `stex_export()` and the exit status of `main()`. A
repetition is one step with one result for all tasks of the run; that all have the
same result is what TestExec shows (`SameResult`). Each task has the trail of its
collectives on `MPI_COMM_WORLD` and that on the run's communicator. The run's
implementation of Experiment is stated with `INSTANCE ... WITH` on the state of the
master, which is part of every run.

**Requests** models `test_sizes_prep()`, `test_offs_prep()` and the loops of `write_oset()`
and `read_oset()`, for a write test and the read test after it. Sizes are given and used
cyclically, or drawn once and kept in the test, as the code does. A distribution returns any
multiple of `1/Grain` in its range, the unbounded ones any up to `MaxDraw`;
`prng_next_size()` cuts it to a natural number. Offsets are in order, shuffled or drawn in
`test_offs_nx1_rnd_prep()`. Sizes have 64 bits and are not cut; what the code keeps in 32 bits is
of `WordMod` numbers. A task with a size of zero, or whose number of requests is negative as an
`int` (`NumReqs`, `ToInt`), kills the program (`Dies`: a division, or a list that cannot be
allocated, or of no bytes, whose first element is written). A count that is cut to a smaller one makes the
list of offsets too short (`Shorter`): the walk past its end is undefined and not followed. The
buffer of a write test is filled (`test_buf_prep()`) in a loop that does not end for a request of
`WordMod` bytes or more (`Fill`). Data of `WordMod` bytes or more fails
(`Fails`), since the number of bytes is kept in an `unsigned int`; a request past an `int` may.
`Flushed` is the `MPI_File_sync()` that a task calls only if it has data. All tasks are in one stage,
as the barriers of TestExec have it. `written` is a history of what the write test
wrote.

**CartDset** models the block that `test_dset_cart_type_prep()` gives a task, the
counting through its rows in `dset_to_off()`, and the requests of `write_dset()` and
`read_dset()`: a row each, at a place that is sought, given with the call, or found by the
MPI counterparts of both; or one request with a file view of MPI-IO. `xferred` maps each place of
the file to the place in the buffer it was written from or read to. Datasets are all
those the validation accepts, also those whose divisions leave a task without
elements, up to what the code's types have room for (`CartValid`): sizes and tasks that an
`int` counts, since larger ones make `distance` negative (`iore_test.c:541`) and blocks overlap,
and blocks of fewer elements than an `unsigned int` counts, since `offs_len` and the offsets in a
file of a task's own are products of those (`iore_workload.c:141`, `:184`).

**Trec** models the calls of `iore_trec.c` on the tree of records of the master, in
the order the program makes them, with failures in between; the reduction of the times and
sizes, with the other tasks ahead of or behind this one by any `skew`, except that each takes the
actions in their order (`Others`); the summaries of
`test_show_summary()`; and the rows that `csv_export_rows()` makes for both reports. A record is
named by its path in the tree.

**Shuffle** is `shuffle()` as an operator on the numbers drawn; ExpExec orders the
runs with it. **Dictionary** is an abstract map; **Dict**, the growing
array of `iore_dict.c`, implements it.

**Parser** models what a "test" object of an experiment file makes of a test:
`json_test_type()` and all below `json_wkld()`, member by member in any order and any
number of times, the abort when something was refused, and `test_valid()`. A value that a
check refuses is `Bad`; what an early failure leaves unwritten is `Undefined`, and parameters that are
an empty object are `"empty"`: nothing was written there, so that they are taken for any, or their use
kills the program (`Dies`), as may that of what follows the types of variables found in the default
workload (`Stale`) if there are more variables.
`given` is a history of what the file said, as far as it said nothing twice, by which
`AcceptsDescribed` compares the result with the file read as a whole.

**Config** models what surrounds Parser: the options of the command line, the files they
name, and the members of "experiment", "run", "test", "stex" and of the backends, in any order,
repeated, and in several files; of the workload, which is Parser's, the sizes, since their distributions
have memory; the validation of the experiment; and what `exp_free()`, the replacement of an array of
runs and of a distribution free. A test has one kind of workload. A pointer to freed memory is `Freed`, memory
never written to is `Undefined`. Members of "test" that copy a value are mere names
(`Options`). `said` is a history of the members read, by which `AcceptedAsSaid` compares the
experiment with the files read as a whole; `corrupt` of whether memory was
freed that was not allocated.

`MC*` modules give the constants their values. `*_proofs` modules hold the proofs.

## 3. Runs

| Run | Question | Instance |
|---|---|---|
| `tests` | Without failing calls: do all tasks enter the same collectives, does any test abort, end with different results or leave files, and does every test end? | 3 tasks, 2 repetitions; all combinations of what decides which files exist (also a name per task for a shared file), and of what decides which collectives are entered |
| `faults` | What still holds when any call may fail, and where do tasks part? | 3 tasks, 2 repetitions, all four kinds of failures |
| `experiments` | Collectives, communicators, records and exit status; does the whole implement Experiment, and end? | 3 processes, 2-3 runs that use 1, 2 or more tasks than there are, up to 2 replications, any order, repetitions and exports that fail |
| `transfers` | Are files covered exactly, are sizes and offsets the same for writing and reading, do sizes decide how a test ends? Does every test end, where calls are even? | 3 tasks, sizes 0-5 that divide evenly or not, per task, shared, or drawn from each distribution; sizes, requests and counts of requests around the limits of 4-bit words; flushes |
| `blocks` | Do blocks of a dataset cover it once, in every way of access, and in the order of the buffer? What of tasks without elements? | all datasets accepted of 1 dimension up to 7, 2 up to 5x5, 3 up to 3x3x3 elements |
| `records` | Are records fixed once past, and exported when executed? Do summary and report agree? | 2 replications of 2 runs, one failure; other tasks around, ahead of or behind this one |
| `files` | Do counts and arrays of a workload agree in any order of members? Is a file accepted exactly if it describes a test? | any number of members in any order; lists of 0-2 elements, good and bad, and up to 3 variables; tests without a type; 3 processes, 4-bit unsigned numbers |
| `config` | Is an experiment what its files say? Are runs numbered by their places, is memory freed once? | up to 4 members in any number of files, 2 runs in an array, sizes by arrays and distributions, 2-bit unsigned numbers |
| `dictionary` | Does the array implement a map? | 3 keys, 2 values, capacities 0, 1, 3 |

Why these bounds are enough: TestExec's tasks differ as the master, the task whose
file is read by another, and any other, so 3 show every pair of roles; 2 repetitions show
what one leaves to the next. In ExpExec one task is left out of a run while two
work, and a run of one task follows. Requests has an exact fit, a short last
request, a request larger than the data, tasks with 1 to 4 requests, tasks without data beside others with
some, and with words of 16 values data (17), requests (8, 16) and numbers of requests (8, 16, 17) that
fit in an `int`, in an `unsigned int`, and in neither. CartDset takes 3 dimensions to
carry twice, and has blocks that are whole, cut, empty and behind the end. Trec's single
failure is at any test of any repetition with later ones after it. The dictionary
outgrows its array twice and removes at its start, middle and end. In `files`, 3 variables are one more
than the types found in the default workload, unsigned numbers of 4 bits cut 18 to 2, lists have the length of a count or not, and 4 tasks are cut to the 3
processes there are. In `config`, 2 bits cut 4 to 0 and 5 to 1; 4 members (`MaxMembers`) are
an array of runs, a member of one of them, another array and a member after it, or one of
them twice.

The properties, and what they are about:

* TestExec: `CollectivesMatch`, `SameResult`, `Terminates` (control);
  `NeverAborts`, `ReadsFindData`, `OpenFileExists`, `ReadersAfterWriters`, `CleansUp` (files);
  `CommittedByAll` (time records after the reduction); `DivergesByFailure`: with failing
  calls, tasks wait in different calls only when one of them has failed and is at the end of
  the repetition or of the loop.
* ExpExec: `CollectivesMatch`, including that all tasks ask for the same group
  where they create a communicator; `RunsDontOverlap`; `WorldRestored`;
  `RecordsAgree` (what a task exports is what the master does, less the runs without
  it); `SequentialSpec` (it implements Experiment); `Terminates`.
* Requests: `NoOverlap`, `WholeFiles`; `ReadsWritten`: the read test, whose tasks act as
  others, reads just what the write test wrote, though sizes may be drawn; `OffsFit`,
  `SizesDecide` and `EndsUnlessUneven` (see below). `DrawnInTurn` is only proved.
* CartDset: `OwnBlock`, `BufferInOrder`, `OnlySurplusFails`, `CollectiveRequests`, `ArraysSuffice`.
* Trec: `StopsFindRecords`, `PastIsFixed`, `ExportsExecuted`, `SummaryAgrees`.
* Parser: `ArraysAgree`, `OneSource`, `AcceptsDescribed`.
* Config: `RunsNumbered`, `MemoryHolds`, `AcceptedAsSaid`.
* Dict: `Filled`, `DictionarySpec`.

CHECK_DEADLOCK is off where the specification stops at its end without a
stuttering step (Requests, CartDset, Trec, Parser, Config) and where failures really make the
program hang (`faults`): when `mkdir()` fails at one task only, that task leaves the
test for the reduction of the time records and the others wait in the barrier of
`iore_test.c:302` for ever. `tests`, `experiments` and `dictionary` check for
deadlock; in `transfers` a deadlock would violate `EndsUnlessUneven`.

### Disagreements of code and documentation

Each is a run that TLC ends with a counterexample.

| Run | Property | What the code does |
|---|---|---|
| `read_skipped` | `ReadTestRuns` | A write+read test with a file and a directory per task that keeps no files never reads: the directory is removed (and `rmdir()` fails) after the write test. |
| `swallowed` | `FailureReported` | `run_post()` and `exp_repl_post()` overwrite a failure; the program exits with success. |
| `uneven` | `Terminates` | Collective requests (or flushes) with sizes that differ per task never end on a shared file. |

Two more are stated by properties that hold for the code and say what it does instead:

* The comment on `test_offs_nx1_rnd_prep()` says "A task id is randomly generated for the first
  offset" (`iore_test.c:898`). `test_offs_nx1_rnd_prep()` takes the integer part of a number below 1 before
  it scales it (`:946`), so that the first task left is always drawn: the offsets of shared
  files are never random, but those of the first task, then of the others from the last on. This is
  `DrawnInTurn`, the theorem `AlwaysDrawnInTurn`; were the comment true, it could not be proved.
* `test_valid()` reports "At least a write or read test must be set." and then sets
  success (`iore_test_valid.c:26`): such a test is accepted and does nothing. `AcceptsDescribed` has
  it as its exception: a test without a type is accepted if the rest of it is described.

### Limits of the code that properties state

These properties hold, and say exactly how far what the code does goes:

* `SizesDecide`: the sizes alone decide how a test ends. A zero, which the validation
  accepts and normal and geometric distributions draw, kills the program (`iore_test.c:838`, `:842`), and so
  does a count of requests that is negative as an `int`; data of
  more than an `unsigned int` fails after all of it was transferred (`:320`); the buffer for a
  request of 2^32 bytes or more is filled for ever (`:815`).
* `OffsFit`: every request has an offset, unless a task has 2^32 requests or more, of which `num_reqs`
  keeps the rest only (`:838`).
* `EndsUnlessUneven`: every test ends, or fills a buffer for ever, or is one whose tasks have
  collective calls to make in different numbers: collective requests, flushes per request, or the flush
  of all that only tasks with data make (`afio/iore_afio_mpiio.c:209`).
* `NeverAborts`, `CleansUp`: a name per task (`file_name_append_task_id`) and a file that all
  share may be set together. Every task then has a file of its own, but only the master creates
  (C streams: the others abort as they open theirs; MPI-IO: a collective open of different names is undefined)
  and removes (POSIX: the others' files stay). Neither happens with any other options.
* `ArraysAgree`: as long as a file has no types of variables, those found in the default
  workload have the length of a default, not of the number of variables, and the validation may read
  past their end (`iore_workload_valid.c:97`); it accepts no such test.
* `BufferInOrder`: with `MPI_File_seek()` every row of a block is written from, and read to, the
  start of the buffer (`afio/iore_afio_mpiio.c:386`); other ways of access take the rows one after
  the other.
* `OnlySurplusFails`: when divisions do not divide a dimension evenly, a task may own nothing; its
  block then starts behind the end of the dimension, and its size is almost 2^w (or its part of a
  file view is empty, which MPI refuses). The validation wants that task. Every task that owns
  an element has its block.
* `CollectiveRequests`: with collective requests the rows of tasks are as many just when
  all blocks are cut in the last dimension only.
* `ArraysSuffice`: for a shared dataset of one dimension, `dset_to_off()` counts up
  `coord[num_dims - 2]`, the place before the array (`iore_workload.c:168`), and nowhere else. What is
  there is not read.
* `SummaryAgrees`: the report per test has the times the summary shows, but divides the
  master's data, not that of all tasks, by them (`stex/iore_stex_csv.c:219`).
* `MemoryHolds`: memory is freed twice when a file name is refused after another (`json_test_file_name()`
  frees before it checks), and memory never allocated when a storage backend has no parameters, whose
  dictionary is never initialised (`parser/iore_parser_file_json.c:1501`), or a distribution of sizes has an
  empty object of parameters (`:1113`); no other file name, and no other dictionary of a backend or a distribution.
* `AcceptedAsSaid`: report types, and parameters of an I/O backend described again without any,
  stay; all else is replaced by what comes later.
* `DivergesByFailure`: a failure at one task leaves the others waiting, see above.

Others are in the models without a property of their own:

* Sizes drawn for one repetition are kept for all later ones of the run.
* `include/iore_trec_types.h:48` says that a committed record has all actions
  recorded. The remove action is missing from that of a test that keeps its file;
  `CommittedByAll` speaks of the close action for that reason.
* The parser refuses counts that do not match their arrays ("Must match the size of"), but
  not a count of 0 that comes first, nor an integer without quotes that is cut to 32 bits and
  then matches (`parser/iore_parser_file_json.c:224`).
* The name of a distribution that is not known leaves its type unwritten
  (`:1003`); by chance the file is accepted. So it is with the I/O backend (`:1427`). No property
  covers the first: what such a test does is left out of `AcceptsDescribed` and `AcceptedAsSaid`.
* A file name without a dot, or with an extension other than "json", has no defined result
  (`Opened` in Config).

### Fairness

`FairSpec` of TestExec and ExpExec asks weak fairness of each task's steps, since
each is a process of its own, and of the completion of a collective that all
have entered, which MPI guarantees. `ReptEnd` of ExpExec stands for tests that end,
as TestExec's `Terminates` shows. In Requests, fairness is that a loop in which
somebody can go on goes on.

## 4. Proofs

**TestExec_proofs**, for every number of tasks and repetitions and every set of tests. With
any faults:

* `Invariance`: `Spec => []IInv`; `TypeCorrect`: `Spec => []TypeOK`;
* `ReadsAfterWrites`: `Spec => []ReadersAfterWriters`;
* `OpenFilesExist`: `Spec => []OpenFileExists`;
* `CommittedClosed`: `Spec => []CommittedByAll`;
* `DivergesOnlyByFailure`: `Spec => []DivergesByFailure`;
* `ReadsFind`: `Spec => []ReadsFindData`.

Without failing calls (`Faultless`: `Faults = {}`), also where tasks that share a file have names of their
own (`OwnNames`), whatever becomes of their files:

* `FaultlessInvariance`: `Spec => []NoFaultInv`;
* `NothingAborts`, `OneResult`, `NothingLeft`, `CollectivesAgree`: `Spec => []` of `NeverAborts`,
  `SameResult`, `CleansUp`, `CollectivesMatch`.

That nobody reads while another writes is not inductive: it says nothing of where
tasks are. `IInv` numbers the segments that synchronising collectives cut a
repetition into, from the test's options, and says that all tasks in the
repetition loop are in the same segment of the same repetition, or wait in its last
reduction (`Aligned`); that the last entry of a trail is the call the task waits
in (`TrailEnds`); what its place says of a task's handle and phase (`Placed`); and that
a repetition starts only while one is left. Every step of a task stays in its
segment. `Release` takes all tasks to the next one: equal trails end in the same
kind of call, and calls of a kind in one segment lead to the same segment. A file
is open in the segments between creation and close only, so readers and
writers are in different segments, and no removal is in a segment with an open
file. For `CommittedByAll` a second invariant (`CInv`) is inductive with it: a task commits
only with the close recorded, and tasks pass the reduction of the time records together and
agree on its result from there to the end of the repetition.

For `DivergesByFailure` the trails of a segment are described ahead (`DInv`): from the
test's options follows the course of the segment, its k-th call (`Kth`), and a trail is a
prefix of it (`Follows`) unless its task gave up (`GaveUp`), which only a removal, a
directory or a preparation that failed makes it do. Two tasks of one segment are then
beside each other, one's trail a prefix of the other's, or a failure is on record
(`GoneByFailure`). What a failed step may change at its task, and that sizes are drawn
once for all (`SizesOnce`), is part of it.

For `ReadsFindData`, `RInv` says where data is: what a task wrote stays in the file
it acted on (`Written`), and from the end of the write test until the removal at the end of
the read test the files have all tasks' data (`DataThere`). Creating truncates only in the segment
of the creation, and where tasks have own files only their own; a removal
is in a segment in which all have closed.

Without faults more is invariant, and it has to be proved together (`NoFaultInv`). A task fails
only if it is to remove a directory that holds a file still to be read (`Stranded`), which all
find alike and only at the last call (`Results`, `FailsLast`, `GoneTogether`); the
directories and files that are opened or removed are there (`DirsThere`, `FilesThere`), since the
master makes them (`MasterCreates`) or each its own; and what there is has an owner who
will still remove it (`FilesOwned`, `DirsOwned`), or is one of the names of a shared file that no one will (`Leftover`). In reading, the owner is the id acted as,
not the task. So the proofs need that reordering by an offset modulo the number of tasks hits
every id once (lemmas `IdInjective`, `EveryRest`).

**ExpExec_proofs**, for any tasks, replications and runs and every seed:

* `SpecInv`: `Spec => []IInv`;
* `CollectivesAlwaysMatch`, `RunsNeverOverlap`, `WorldAlwaysRestored`, `RecordsAlwaysAgree`:
  `Spec => []` of `CollectivesMatch`, `RunsDontOverlap`, `WorldRestored`, `RecordsAgree`;
* `ImplementsExperiment`: every behaviour is one of the sequential experiment.

Between two steps that all members of a communicator take jointly, a task goes through a
stretch of places alone. The invariant gives every place its stretch and says that tasks
of a communicator are in the same one of the same run, or one is waiting while the other
is beside it (`Aligned`, `Beside`); that the k-th collective of a stretch
is the same for all; that all have the seed the master sent, and therefore the same order of runs;
that the members of a split are whole and agree on it; and that results the members
have committed are those of the runs that ended. Refinement is step by step: the joint
steps are those of Experiment, the others stutter; that an order of the runs is a permutation is
`ShufflePermutes`. Experiment's fairness is left to TLC.

**Config_proofs**, for any files, names, backends and numbers: `RunsAlwaysNumbered`,
`MemoryAlwaysHolds`, `TypeCorrect` and `AcceptsWhatIsSaid`. The inductive invariant has the types of every field
(a dictionary is what `dict_set()` makes of a description, or was never written to), that
the place in the file and the run being read fit (`Reading`), and that whatever can make memory
be freed wrongly was put there by one of the three exceptions, which the history
has (`MemoryInv`). `AcceptsWhatIsSaid` (`AcceptedAsSaid`) compares the fields with the whole history:
unless something was refused, every field has the last word on it (`ExpAsSaid`, `SaidInv`), for
each member is the last word on one field, and an array of runs takes back the words on all runs
before. Were one field of a run kept from a run replaced, or a member
written to another run than the one being read, it would not be inductive.

Of Dict, whose array holds the parameters of backends, the module proves `AlwaysFilled`,
`KeysAlwaysDiffer`, and `DictImplements`: the array implements the abstract dictionary, for all
keys, values and capacities. Since keys differ (`DictIInv`), the search, though it goes on to the end
of the array, finds the only place of a key; every operation on the array is then one on the map.

**CartDset_proofs**, for any number of dimensions, any sizes and divisions that `CartValid` lets pass,
every task and way of access: `Invariance`, and `OwnBlocks`, `BuffersInOrder`,
`OnlySurplus`, `Collective` and `Arrays`, `Spec => []` of `OwnBlock`, `BufferInOrder`,
`OnlySurplusFails`, `CollectiveRequests` and `ArraysSuffice`. All three kinds of numbers in this code are
positional, and most lemmas are about such numbers, whose radices may differ from digit to digit
(`Weights`, `Digits`, `Values`): digits and numbers determine each other, and have the same order
(`BeforeLess`, `LessBefore`).

* A task's id has the block's place among the divisions as its digits (`Low`). With the quotients of
  coordinates by the sides of blocks this gives `OwnedAre`: the elements a task owns are
  those of its block, all of them, and none if the block starts behind the end (`OwnedNone`).
* An element's place in the file has its coordinates as digits (`High`), its rank in its block
  those in the block (`Rank`): ranks grow with places (`PlacesGrow`), the elements of a row are
  side by side (`PlacesOfRow`). The view, all at once, therefore
  has the same places in the same order as the rows one after the other (`BufferedView`).
* Counting through the block adds 1 to a number without its last digit, one carry a step.
  `Standing` says that `coord` is at the first element of row k, `Carrying` that `coord[l]`
  is one too far at most and that it will be at row k when what is left is carried.

`IInv` says that `coord` is where the length of the list has it, that the list has the places of
as many rows (`Counted`), and that of these the first, as many as were transferred,
are in the buffer in order (`Transferred`). `OnlySurplusFails` and the size that wraps to almost 2^w need the
limits on sizes in `CartValid`, and so does the list of offsets (`BlockFits`).

**Requests_proofs**, for any number of tasks and all workloads, given or drawn. `SizesAlwaysDecide`:
sizes are natural numbers once they are needed and are not drawn again; tasks act
as themselves in the write test, so that its end shows that the data of *every* id fits in a
word; and nothing is transferred before every request size has been divided by, and every count of requests
kept, as an `int`, whole (`IInv`).

The other five, `RequestsNeverOverlap` (`NoOverlap`), `FilesAlwaysWhole` (`WholeFiles`), `ReadsAlwaysWritten`
(`ReadsWritten`), `OffsAlwaysFit` (`OffsFit`) and `AlwaysDrawnInTurn` (`DrawnInTurn`), have one invariant
(`OInv`), in terms of the *places* of requests in the data of an id:

* The data of an id begins after the data of those before it (`Before`, a sum), the ids lie apart
  (`Apart`) and together are the file (`Covered`); no two tasks act as the same id and every id
  has a task (`IdInjective`, `IdOnto`), after any reordering.
* A list of offsets has each place of the id's data once (`Listed`); a shuffled one does because
  `shuffle()` makes a permutation.
* Drawing (`DrawInv`): always the first id of the array is drawn for, whose last takes its
  place, so at any time some ids are done with, one is current and the others wait, and
  the offset is where the next request of the current one begins. The loop therefore ends with lists in order.
* Transfers (`XferInv`): what was transferred are the requests made, and what is left follows from
  how many they are and whether the short one is among them (`LeftAfter`). This is
  needed because nothing says how large a request is but what is left and the end of the file: the code
  relies on the short request being at the end of the file when it is shuffled to the front.
  `NextRequest` shows that the request made is the one its place asks for.
* What the write test wrote is the whole of the files, which do not change for the read test,
  for the sizes do not.

**Trec_proofs**, for any number of replications, runs and repetitions, and any failures:
`StopsAlwaysFind` (`StopsFindRecords`) and `PastAlwaysFixed` (`PastIsFixed`). The calls of
`iore_trec.c` do nothing when a pointer is null or an id too large, so the pointers are right
only if the records above were there. The invariant says so for each place of the
program (`Records`, `Pointers`), and that below a run still to come there is no record
yet (`Ahead`), so that making them overwrites none. Only the pointers that are in use at a
place are in it: the others may point anywhere after a failure.
`ExportsAlwaysExecuted` (`ExportsExecuted`) adds what the records hold (`EInv`): those that are
there have the numbers of the loops and keep them; one is committed exactly when all took its test to
the end; the types are those of the test; those of tests to come are as `calloc()` left
them; and the times of the actions of a test are in order, of which the last is not after now.
`SummariesAlwaysAgree` (`SummaryAgrees`) needs what was shown in between (`SInv`): a test that is
still committed after its repetition was shown, and `trec_run_rept_reduce()` has since reduced the very
times that `test_show_summary()` reduced (`Summed`); a test shown is never one to come, so nothing writes to its
record again (`Shown`); and its actions were taken in order, up to closing or up to the removal (`Taken`).
That the total is the time from the first start to the last stop (`TotalIs`) is what needs
that each of the others takes the actions in order: the first of their starts at an action is then not
before that of an action before (`OthersGoOn`), however far they are ahead or behind.

**Operators_proofs**, about operators that several modules share: `SwapPermutes`, a swap keeps a permutation of any set a
permutation, and `ShufflePermutes`, so does the whole loop, for any length and draws: an
induction over the positions, as a set of naturals that has 0 and with
each number the next. Sums (`SumFunctionOnSet`, for the loops that add sizes up) are defined by a
recursive function, whose existence is shown first, by induction over the sizes of subsets
(`SumsExist`), and that any element may be the first (`SumsUnique`, `SumAdds`). Products are shown to
be the same with another operation, and to grow with their factors (`ProductLess`, `ProductGrows`).

**Parser_proofs**: `ArraysAlwaysAgree`, `OneSourceOnly` and `AcceptsWhatIsDescribed`, for any
set of values that a file may hold. The first two and the types they rest on are inductive together (`IInv`). An
array is stored only when its length is the count's or there is no count, and
then sets it; a count changes only from 0, when no array can be there. That
`json_wkld_dset_cart()` forgets both arrays with the count is what a second "cartesian" object
needs. `AcceptsWhatIsDescribed` (`AcceptsDescribed`) adds what a plain file has led to
(`SaidInv`): a file that is plain at its end was so before every member; something was refused exactly
when a value was, or a count or an array did not agree with another (`WellRead`), whichever
came last; otherwise every field is what was given (`FieldsSaid`); and members are given inside
their objects only (`Places`), so what a dataset finds of the offset workload in the union
counts as given nowhere and is no type. The validation is then the
description, read off the fields (`OffsetValid`, `DatasetValid`). That variables have a size
together is a sum (`SumsPositive` of Operators_proofs). The proof showed
that a number cut by `json_check_uint()` has to be excluded from plain files in arrays too, and so
has a product of divisions that is cut: sizes [18, 1] and divisions
[18, 1] are accepted for 2 tasks of 4-bit numbers. `Uncut` and the last conjunct of `Plain` say so, and
the run has such a list.

The assumptions are those of the modules (`TestExecAssumption`, `ExpExecAssumption`, `RequestsAssumption`,
`TrecAssumption`, `DictAssumption`, `CartDsetAssumption`, `ParserAssumption`, `ConfigAssumption`, `AllocatedAssumption`): there is a task
and a repetition; tests are as `test_valid()` leaves them; sizes are natural numbers, and an
empty list has a distribution; datasets are valid and within the types of the code; null is no value, no pointer to memory allocated, and no path of a record; an unsigned number has at least one value, and
what a check refuses is no other value, and what was never written is no type; freed memory is no name; a dictionary made of a description
is not memory never written to, and no option has the name of another member.

Only model-checked: `Terminates` of TestExec and ExpExec, `EndsUnlessUneven` of Requests, and the fairness in
`SequentialSpec`, since liveness and `ENABLED` are beyond TLAPS here. All other properties that
the passing runs check are proved.

## 5. Not modelled

* The values in buffers (CartDset has their places), the delay between tests, wording and
  formats; the layout of several variables in one element of an MPI datatype
  (`mpiio_create_datatype()`): the unit is one element.
* The random generator itself, and floating point: which numbers may be drawn is
  modelled, not how often.
* Of the parser: a file with both kinds of workload, whose fields would overlay each
  other; numbers in quotes, whose check reads `errno` without clearing it.
* The storage backends (`afsb/`) beyond their settings, since nothing calls them; vendored `lib/`; tests.
* The iterator of the dictionary and the conversions to text in `common/`: they have no state.

## 6. Plan

Done: TestExec, ExpExec with Experiment, Requests, CartDset, Trec, Shuffle, Dict with
Dictionary, Parser, Config; the proofs of section 4. What would add most from here:

1. An abstract specification of a repetition (write, then read, each phase created,
   transferred and closed by all) implemented by TestExec.
2. A file with both kinds of workload, as a union whose fields overlay each other.
