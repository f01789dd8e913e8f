---------------------------------- MODULE Trec ---------------------------------
(***************************************************************************)
(* The time records of one task, iore_trec.c: a tree of records for the    *)
(* experiment, its replications, their runs, their repetitions and the     *)
(* tests of each, pointers to the records being filled, the summaries that *)
(* test_show_summary() shows, and the rows that csv_export_rows() makes of *)
(* the tree in the end.                                                    *)
(*                                                                         *)
(* A record is named by its path: <<>> the experiment, <<i>> replication   *)
(* i, <<i, r>> run r in it, <<i, r, k>> repetition k, <<i, r, k, type>> a  *)
(* test.  The calls come in the order in which exp_exec(), run_exec() and  *)
(* test_exec() make them.  The task is the master of the others, who appear *)
(* in two places: a test stays committed if it is so in all of them, and   *)
(* its times and sizes are reduced to those of all.                        *)
(***************************************************************************)
EXTENDS Integers, Sequences, FiniteSetsExt

CONSTANTS
  NumRepls, \* number of replications of the experiment
  Runs,     \* its runs
  MaxFails, \* a bound on the repetitions that fail
  Skews,    \* how far the others may be from this task, see skew
  OwnSize,   \* bytes that this task transfers in a test
  OtherSize, \* and the others together
  NULL      \* the null pointer

RunIds == 1 .. Len(Runs)
Type   == {"write", "read"}

ASSUME TrecAssumption ==
  /\ NumRepls \in Nat \ {0}
  /\ Runs \in Seq([num_repetitions : Nat \ {0}, read : BOOLEAN,
                    file_keep : BOOLEAN])
  /\ MaxFails \in Nat
  /\ OwnSize \in Nat /\ OtherSize \in Nat
  /\ NULL \notin Seq(Nat \cup Type)
  /\ Skews \subseteq [1 .. 4 -> Int \X Int]

\* enum iore_trec_action
CreateOpen == 1
WriteRead  == 2
Close      == 3
Remove     == 4
NoAction   == 5

VARIABLES
  pc,     \* the loop or call the program is at
  at,     \* its path: the replication, run and repetition
  todo,   \* runs of the replication left to execute
  types,  \* tests of the repetition left to execute
  last,   \* the last action of the test begun, 0 before the first
  failed, \* the repetition failed
  fails,  \* how many did
  ended,  \* paths of the tests that all tasks took to their ends
  clock,  \* the time
  rec,    \* the records, by path
  st,     \* iore_trec_st_t: the pointers and the test action
  rows,   \* the rows exported to the report per task
  skew,   \* for each action, by how much the first of the others starts after
          \* this task, and the last stops after it, unless the order of their
          \* own actions makes that later; never changes
  shown,  \* the summaries shown, by the path of the test
  testRows \* the rows exported to the report per test

progVars == <<at, todo, types, last, failed, fails, ended>>
trecVars == <<clock, rec, st>>
reportVars == <<rows, testRows>>
vars == <<pc, progVars, trecVars, reportVars, skew, shown>>

-------------------------------------------------------------------------------
(* The calls of iore_trec.c.  Each takes some time.                        *)

\* What calloc() leaves; and a mutant, with malloc() in its place.
NoTimes == [a \in 1 .. 4 |-> <<0, 0>>]
Zero_Garbage ==
  [id |-> 0, num |-> 0, start |-> 0, stop |-> 0, committed |-> TRUE,
   time |-> NoTimes, size |-> 0, test_time |-> NoTimes, test_size |-> 0]
Zero ==
  [id |-> 0, num |-> 0, start |-> 0, stop |-> 0, committed |-> FALSE,
   time |-> NoTimes, size |-> 0, test_time |-> NoTimes, test_size |-> 0]

\* n records below that at path p; those of repetitions include their tests.
Below(p, n) == {Append(p, j) : j \in 1 .. n}
Tests(ps)   == {Append(p, type) : p \in ps, type \in Type}

\* The record at p starts as number id; records are made at those below it.
Started(p, id, n, below) ==
  [[q \in DOMAIN rec \cup below |-> IF q \in below THEN Zero ELSE rec[q]]
     EXCEPT ![p].id = id, ![p].num = n, ![p].start = clock]

Stop(pointer) ==
  IF st[pointer] # NULL
  THEN /\ rec' = [rec EXCEPT ![st[pointer]].stop = clock]
       /\ st' = [st EXCEPT ![pointer] = NULL]
  ELSE UNCHANGED <<rec, st>>

trec_exp_start ==
  rec' = Started(<<>>, 0, NumRepls, Below(<<>>, NumRepls)) /\ UNCHANGED st

trec_exp_repl_start(id, num_run) ==
  IF id <= rec[<<>>].num
  THEN /\ rec' = Started(<<id>>, id, num_run, Below(<<id>>, num_run))
       /\ st' = [st EXCEPT !.trec_repl = <<id>>]
  ELSE UNCHANGED <<rec, st>>

\* A mutant of trec_run_start() leaves the last run without a record.
trec_run_start_Less(id, num_repts) ==
  IF st.trec_repl # NULL /\ id < rec[st.trec_repl].num
  THEN LET p     == Append(st.trec_repl, id)
           repts == Below(p, num_repts) IN
       /\ rec' = Started(p, id, num_repts, repts \cup Tests(repts))
       /\ st' = [st EXCEPT !.trec_run = p]
  ELSE UNCHANGED <<rec, st>>
trec_run_start(id, num_repts) ==
  IF st.trec_repl # NULL /\ id <= rec[st.trec_repl].num
  THEN LET p     == Append(st.trec_repl, id)
           repts == Below(p, num_repts) IN
       /\ rec' = Started(p, id, num_repts, repts \cup Tests(repts))
       /\ st' = [st EXCEPT !.trec_run = p]
  ELSE UNCHANGED <<rec, st>>

trec_run_rept_start(id) ==
  IF st.trec_run # NULL /\ id <= rec[st.trec_run].num
  THEN LET p == Append(st.trec_run, id) IN
       /\ rec' = Started(p, id, 0, {})
       /\ st' = [st EXCEPT !.trec_rept = p]
  ELSE UNCHANGED <<rec, st>>

\* A mutant of trec_test_start() keeps a pointer that is there.
trec_test_start_Kept(type, action) ==
  IF st.trec_rept # NULL
  THEN LET p == IF st.trec_test # NULL THEN st.trec_test
                                       ELSE Append(st.trec_rept, type) IN
       /\ st' = [st EXCEPT !.trec_test = p, !.test_action = action]
       /\ rec' = [rec EXCEPT ![p].time[action][1] = clock]
  ELSE UNCHANGED <<rec, st>>
trec_test_start(type, action) ==
  IF st.trec_rept # NULL
  THEN LET p == Append(st.trec_rept, type) IN
       /\ st' = [st EXCEPT !.trec_test = p, !.test_action = action]
       /\ rec' = [rec EXCEPT ![p].time[action][1] = clock]
  ELSE UNCHANGED <<rec, st>>

trec_test_stop(data_size) ==
  IF st.trec_test # NULL /\ st.test_action # NoAction
  THEN /\ rec' = [rec EXCEPT
            ![st.trec_test].time[st.test_action][2] = clock,
            ![st.trec_test].size = IF st.test_action = WriteRead THEN data_size
                                                                ELSE @]
       /\ st' = [st EXCEPT !.test_action = NoAction]
  ELSE UNCHANGED <<rec, st>>

trec_test_commit ==
  IF st.trec_test # NULL /\ st.test_action = NoAction
  THEN /\ rec' = [rec EXCEPT ![st.trec_test].committed = TRUE]
       /\ st' = [st EXCEPT !.trec_test = NULL]
  ELSE UNCHANGED <<rec, st>>

\* What all tasks have at the master of an action that this one has at times
\* <<start, stop>>: the first start and the last stop.  An action that was not
\* taken has no times in any.
Smaller(a, b) == IF a < b THEN a ELSE b
Larger(a, b)  == IF a > b THEN a ELSE b

\* The first start of the others at an action, or their last stop: each takes the
\* actions in order, so that it is not before that of an action before.
Others(time, sk, a, event) == Max({time[b][event] + sk[b][event] : b \in 1 .. a})
ReducedBy(time, sk) ==
  [a \in 1 .. 4 |->
     IF time[a] = <<0, 0>> THEN time[a]
     ELSE << Smaller(time[a][1], Others(time, sk, a, 1)),
             Larger(time[a][2], Others(time, sk, a, 2)) >>]
Reduced(time) == ReducedBy(time, skew)
ReducedSize(size) == size + OtherSize

\* trec_run_rept_stop(), with the types of test the other tasks committed.
trec_run_rept_stop(others) ==
  IF st.trec_rept # NULL
  THEN LET p == st.trec_rept IN
       /\ rec' = [q \in DOMAIN rec |->
            CASE q = p           -> [rec[q] EXCEPT !.stop = clock]
              [] q \in Tests({p}) ->
                   [rec[q] EXCEPT !.committed = @ /\ q[4] \in others,
                                  !.test_time = Reduced(rec[q].time),
                                  !.test_size = ReducedSize(rec[q].size)]
              [] OTHER           -> rec[q]]
       /\ st' = [st EXCEPT !.trec_rept = NULL]
  ELSE UNCHANGED <<rec, st>>

\* What test_show_summary() shows of a record: the latencies of the actions, the
\* time from the first to the last of them, and what was transferred in it.
\* A mutant takes the removal for the last action.
Total_Remove(time) == time[Remove][2] - time[CreateOpen][1]
Total(time) ==
  LET last_action == IF time[Remove][2] - time[Remove][1] > 0 THEN Remove ELSE Close
  IN  time[last_action][2] - time[CreateOpen][1]
test_show_summary(test) ==
  LET time == Reduced(test.time) IN
  [latency |-> [a \in 1 .. 4 |-> time[a][2] - time[a][1]],
   total |-> Total(time), size |-> ReducedSize(test.size)]

-------------------------------------------------------------------------------
(* The program.                                                            *)

Call(from, to) ==
  /\ pc = from /\ pc' = to
  /\ clock' = clock + 3
  /\ UNCHANGED <<reportVars, skew>>

ExpStart ==
  /\ Call("exp", "repls")
  /\ trec_exp_start
  /\ UNCHANGED <<progVars, shown>>

ReplStart ==
  /\ Call("repls", "runs")
  /\ at[1] < NumRepls
  /\ at' = <<at[1] + 1>>
  /\ trec_exp_repl_start(at[1] + 1, Len(Runs))
  /\ todo' = RunIds
  /\ UNCHANGED <<shown, types, last, failed, fails, ended>>

\* The runs come in any order.  This task may not be one of those of the run.
RunStart(r) ==
  /\ \E to \in {"repts", "run_stop"} : Call("runs", to)
  /\ r \in todo
  /\ todo' = todo \ {r}
  /\ at' = <<at[1], r, 0>>
  /\ trec_run_start(r, Runs[r].num_repetitions)
  /\ UNCHANGED <<shown, types, last, failed, fails, ended>>

ReptStart ==
  /\ Call("repts", "tests")
  /\ at[3] < Runs[at[2]].num_repetitions /\ ~failed
  /\ at' = [at EXCEPT ![3] = @ + 1]
  /\ types' = IF Runs[at[2]].read THEN <<"write", "read">> ELSE <<"write">>
  /\ last' = 0
  /\ trec_run_rept_start(at[3] + 1)
  /\ UNCHANGED <<shown, todo, failed, fails, ended>>

\* A test removes its file at the end unless that is kept or read.
Removes == ~Runs[at[2]].file_keep /\ Len(types) = 1
LastAction == IF Removes THEN Remove ELSE Close

TestStart ==
  /\ Call("tests", "action")
  /\ types # <<>> /\ last < LastAction
  /\ last' = last + 1
  /\ trec_test_start(Head(types), last + 1)
  /\ UNCHANGED <<shown, at, todo, types, failed, fails, ended>>

TestStop ==
  /\ Call("action", "tests")
  /\ trec_test_stop(OwnSize)
  /\ UNCHANGED <<progVars, shown>>

Commit ==
  /\ Call("tests", "tests")
  /\ types # <<>> /\ last = LastAction
  /\ types' = Tail(types)
  /\ last' = 0
  /\ trec_test_commit
  /\ shown' = [p \in DOMAIN shown \cup {st.trec_test} |->
                  IF p = st.trec_test THEN test_show_summary(rec[p]) ELSE shown[p]]
  /\ UNCHANGED <<at, todo, failed, fails, ended>>

\* A test is left when its preparation, its removal or its cleanup fails;
\* other failures abort the program.
Fail ==
  /\ pc = "tests" /\ fails < MaxFails
  /\ last \in {0, Remove}
  /\ pc' = "rept_stop"
  /\ failed' = TRUE
  /\ fails' = fails + 1
  /\ UNCHANGED <<at, todo, types, last, ended, trecVars, reportVars, skew, shown>>

TestsEnd ==
  /\ pc = "tests" /\ types = <<>>
  /\ pc' = "rept_stop"
  /\ UNCHANGED <<progVars, trecVars, reportVars, skew, shown>>

\* The tests of this repetition that this task took to their ends.
Executed ==
  (IF Runs[at[2]].read THEN Type ELSE {"write"}) \ {types[j] : j \in DOMAIN types}

ReptStop(others) ==
  /\ Call("rept_stop", "repts")
  /\ trec_run_rept_stop(others)
  /\ ended' = ended \cup {Append(at, type) : type \in Executed \cap others}
  /\ UNCHANGED <<shown, at, todo, types, last, failed, fails>>

ReptsEnd ==
  /\ pc = "repts"
  /\ at[3] = Runs[at[2]].num_repetitions \/ failed
  /\ pc' = "run_stop"
  /\ UNCHANGED <<progVars, trecVars, reportVars, skew, shown>>

RunStop ==
  /\ Call("run_stop", "runs")
  /\ at' = <<at[1]>>
  /\ failed' = FALSE
  /\ Stop("trec_run")
  /\ UNCHANGED <<shown, todo, types, last, fails, ended>>

ReplStop ==
  /\ Call("runs", "repls")
  /\ todo = {}
  /\ Stop("trec_repl")
  /\ UNCHANGED <<progVars, shown>>

ExpStop ==
  /\ Call("repls", "export")
  /\ at[1] = NumRepls
  /\ rec' = [rec EXCEPT ![<<>>].stop = clock]
  /\ UNCHANGED <<shown, progVars, st>>

\* The rows of csv_export_rows(): every action of every test committed, with
\* what csv_export_row_action() divides by the latency.
Committed ==
  {p \in DOMAIN rec :
     /\ Len(p) = 4 /\ rec[p].committed
     /\ p[1] <= rec[<<>>].num /\ p[2] <= rec[<<p[1]>>].num
     /\ p[3] <= rec[<<p[1], p[2]>>].num}
Ids(p) == << rec[<<p[1]>>].id, rec[<<p[1], p[2]>>].id,
             rec[SubSeq(p, 1, 3)].id, p[4] >>
Divided(p, a) == IF a = WriteRead THEN rec[p].size ELSE 0
Times(p, report) == IF report = "task" THEN rec[p].time ELSE rec[p].test_time
Rows(report) ==
  {Ids(p) \o <<a, Times(p, report)[a], Divided(p, a)>> : p \in Committed, a \in 1 .. 4}

Export ==
  /\ pc = "export"
  /\ pc' = "done"
  /\ rows' = Rows("task")
  /\ testRows' = Rows("test")
  /\ UNCHANGED <<progVars, trecVars, skew, shown>>

-------------------------------------------------------------------------------
Init ==
  /\ pc = "exp"
  /\ at = <<0>>
  /\ todo = {} /\ types = <<>> /\ last = 0
  /\ failed = FALSE /\ fails = 0 /\ ended = {}
  /\ clock = 1
  /\ rec = [p \in {<<>>} |-> Zero]
  /\ st = [trec_repl |-> NULL, trec_run |-> NULL, trec_rept |-> NULL,
           trec_test |-> NULL, test_action |-> NoAction]
  /\ rows = {} /\ testRows = {}
  /\ skew \in Skews
  /\ shown = <<>>

Next ==
  \/ ExpStart \/ ReplStart \/ \E r \in RunIds : RunStart(r)
  \/ ReptStart \/ TestStart \/ TestStop \/ Commit \/ Fail \/ TestsEnd
  \/ \E others \in SUBSET Type : ReptStop(others)
  \/ ReptsEnd \/ RunStop \/ ReplStop \/ ExpStop \/ Export

Spec == Init /\ [][Next]_vars

-------------------------------------------------------------------------------
(* Properties.                                                             *)

\* Where a record stops it is there, and it is the one of the loop: the
\* summaries assert that what they get is not null.
StopsFindRecords ==
  /\ pc = "run_stop" => st.trec_run = SubSeq(at, 1, 2)
  /\ pc \in {"tests", "action", "rept_stop"} => st.trec_rept = at
  /\ pc = "runs" => st.trec_repl = at

\* A test that fails leaves pointers behind, and still a repetition never
\* writes to the records of another.
InRept(p, q) == Len(p) >= 3 /\ Len(q) = 3 /\ SubSeq(p, 1, 3) = q
PastIsFixed ==
  [][\A p \in DOMAIN rec : Len(p) >= 3 /\ rec'[p] # rec[p] => InRept(p, at')]_vars

\* The rows exported are those of the tests that all tasks took to their ends,
\* with all actions in order, whatever failed between them.
ExportsExecuted ==
  pc = "done" =>
    /\ {SubSeq(row, 1, 4) : row \in rows} = ended
    /\ \A row, other \in rows :
         SubSeq(row, 1, 4) = SubSeq(other, 1, 4) /\ row[5] = other[5] - 1 /\
           other[6][1] > 0
           => row[6][1] < row[6][2] /\ row[6][2] < other[6][1]

\* The report per test shows what the summaries showed: the same latencies, and
\* a total from the first start of an action taken to the last stop, though one
\* was computed before and one after the repetition's end and the tests removed
\* their files or did not.  Only the throughputs differ: the summary's is that of
\* all tasks, and the report's that of the master's data over the time of all.
SummaryAgrees ==
  \A row \in testRows :
    LET p      == SubSeq(row, 1, 4)
        ofTest == {other \in testRows : SubSeq(other, 1, 4) = p /\ other[6][2] > 0}
    IN  /\ p \in DOMAIN shown
        /\ shown[p].latency[row[5]] = row[6][2] - row[6][1]
        /\ \A x, y \in ofTest : x[6][2] - y[6][1] <= shown[p].total
        /\ \E x, y \in ofTest : x[6][2] - y[6][1] = shown[p].total
        /\ row[5] = WriteRead => row[7] = shown[p].size - OtherSize

===============================================================================
