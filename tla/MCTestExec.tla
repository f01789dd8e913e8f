------------------------------ MODULE MCTestExec ------------------------------
(***************************************************************************)
(* Model-checking instances of TestExec: the sets of tests a run may have  *)
(* been given.                                                             *)
(***************************************************************************)
EXTENDS TestExec

\* What a test is unless it says otherwise, as test_init() sets it.
Default ==
  [ write |-> TRUE, read |-> TRUE, file_mode |-> "NX1", afio |-> "posix",
    append_sequence_num |-> FALSE, append_task_id |-> FALSE,
    dir_per_task |-> FALSE, file_keep |-> FALSE,
    intra_test_barrier |-> FALSE, read_reorder_offset |-> 0,
    random |-> FALSE, distrib |-> FALSE, verbose |-> FALSE ]

Modes    == {"NX1", "NXN"}
Backends == {"posix", "cstream", "mpiio"}

\* Everything that decides which files exist when.
FileTests ==
  { [Default EXCEPT !.write = w, !.read = w /\ r, !.file_mode = m, !.afio = b,
       !.append_sequence_num = s, !.append_task_id = a, !.dir_per_task = d,
       !.file_keep = k, !.read_reorder_offset = o] :
      w, r, s, a, d, k \in BOOLEAN, m \in Modes, b \in Backends, o \in {0, 1} }

\* Everything that decides which collectives are entered.
ControlTests ==
  { [Default EXCEPT !.read = r, !.file_mode = m, !.afio = b,
       !.intra_test_barrier = i, !.random = x, !.distrib = z, !.verbose = v] :
      r, i, x, z, v \in BOOLEAN, m \in Modes, b \in Backends }

AllTests == FileTests \cup ControlTests

\* Tests whose calls to the operating system may fail, and tests that give
\* every task a file of its own in the mode that shares one.
FaultTests ==
  { [Default EXCEPT !.read = r, !.file_mode = m, !.afio = b,
       !.append_task_id = a, !.dir_per_task = d, !.file_keep = k,
       !.verbose = v] :
      r, a, d, k, v \in BOOLEAN, m \in Modes, b \in Backends }

\* Tests with a directory per task, which mkdir() makes.
DirTests == { [Default EXCEPT !.file_mode = "NXN", !.dir_per_task = TRUE,
                 !.file_keep = k] : k \in BOOLEAN }

===============================================================================
