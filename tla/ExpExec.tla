------------------------------- MODULE ExpExec --------------------------------
(***************************************************************************)
(* The execution of an experiment by all the tasks of MPI_COMM_WORLD:      *)
(* exp_exec() and its replications, run_exec() on a communicator of its    *)
(* own for the tasks a run uses, and the export and exit of main().        *)
(*                                                                         *)
(* Every task runs the loops on its own copy of the experiment.  Tasks a   *)
(* run leaves out go on to the barrier that ends the run while the others  *)
(* repeat its test on their communicator.  A repetition is one collective  *)
(* with a common result here: module TestExec models it and shows that     *)
(* the tasks leave it with the same result.                                *)
(*                                                                         *)
(* Collectives are labels, as in TestExec, with a trail for each           *)
(* communicator a task can be in.                                          *)
(***************************************************************************)
EXTENDS Integers, Sequences, FiniteSets, Shuffle

CONSTANTS
  P,      \* number of processes of MPI_COMM_WORLD
  Exps,   \* the experiments that may be given
  Faults  \* what may fail: "test" a repetition, "export" an export

Task   == 0 .. P - 1
Master == 0

VARIABLES
  exp,     \* the experiment being executed; never changes
  pc,      \* where each task is
  trail,   \* collectives on MPI_COMM_WORLD since its last release
  inner,   \* collectives on the communicator of the run, likewise
  comm,    \* ctx.comm: of the world, of the run, or null
  seed,    \* the order that follows from the seed the master sent last
  repl,    \* the replication of each task, 0 before the first
  order,   \* the runs of the replication, iore_exp_repl_t
  place,   \* the place in order of the run, 0 before the first
  rept,    \* the repetition of the run, 0 before the first
  rerr,    \* the result of the repetition, then of the run and replication
  records, \* repetitions the time records of each task hold as committed
  verdict, \* the result of the test report the master sent
  result   \* the exit status of each task, TRUE for failure

loopVars == <<repl, order, place, rept, rerr>>
endVars  == <<verdict, result>>
vars == <<exp, pc, trail, inner, comm, seed, loopVars, records, endVars>>

RunIds == 1 .. Len(exp.runs)

\* An experiment as exp_valid() leaves it.
Exp(e) ==
  /\ e.num_replications \in Nat \ {0}
  /\ Len(e.runs) \in Nat \ {0}
  /\ \A i \in 1 .. Len(e.runs) : /\ e.runs[i].num_tasks \in Nat \ {0}
                                 /\ e.runs[i].num_repetitions \in Nat \ {0}
  /\ {e.random, e.verbose, e.task_report, e.test_report} \subseteq BOOLEAN

ASSUME ExpExecAssumption ==
  /\ P \in Nat \ {0}
  /\ \A e \in Exps : Exp(e)
  /\ Faults \subseteq {"test", "export"}

-------------------------------------------------------------------------------
(* Labels and collectives.                                                 *)

Local   == {"replication", "run", "left_out", "rept", "export", "done"}
OnWorld == {"create", "run_end", "repl_end", "finalize"}
OnRun   == {"rept_end", "comm_free"}
Bcast   == {"order", "verdict"}
Reduce  == {"run_summary", "repl_summary", "exp_summary"}
Label   == Local \cup OnWorld \cup OnRun \cup Bcast \cup Reduce

KindOf(l) ==
  CASE l \in Reduce -> "reduce"
    [] l \in Bcast  -> "bcast"
    [] l = "create" -> "comm_create"
    [] OTHER        -> "barrier"

Entered(l) == IF l \in OnWorld \cup Bcast \cup Reduce THEN <<KindOf(l)>>
                                                      ELSE <<>>

\* Task t goes from label `from' to label `to', entering a collective there.
Goto(t, from, to) ==
  /\ pc[t] = from
  /\ pc' = [pc EXCEPT ![t] = to]
  /\ trail' = [trail EXCEPT ![t] = @ \o Entered(to)]
  /\ inner' = IF to \in OnRun THEN [inner EXCEPT ![t] = Append(@, to)]
                              ELSE inner

\* What the master sends has reached a task; all have sent to the master.
HasSent(t) ==
  /\ Len(trail[Master]) >= Len(trail[t])
  /\ trail[Master][Len(trail[t])] = "bcast"

HasReduced(t) ==
  t = Master => \A u \in Task : /\ Len(trail[u]) >= Len(trail[t])
                               /\ trail[u][Len(trail[t])] = "reduce"

Run(t) == exp.runs[order[t][place[t]]]

\* The summaries are only there when verbose.
LeaveExp  == IF exp.verbose THEN "exp_summary" ELSE "export"
LeaveRepl == IF exp.verbose THEN "repl_summary" ELSE "repl_end"
\* A mutant of LeaveRun: no barrier ends a run.
LeaveRun_NoBarrier == IF exp.verbose THEN "run_summary" ELSE "run"
LeaveRun  == IF exp.verbose THEN "run_summary" ELSE "run_end"

-------------------------------------------------------------------------------
(* exp_exec() and exp_repl_exec().                                         *)

\* What shuffle() may make of the runs, whatever the seed.
Given == [i \in RunIds |-> i]
Orders ==
  IF exp.random
  THEN {Shuffled(Given, Len(exp.runs), draws) : draws \in [RunIds -> RunIds]}
  ELSE {Given}

\* A mutant of StartReplication: the replication is not counted.
StartReplication_Uncounted(t, o) ==
  /\ order' = [order EXCEPT ![t] = o]
  /\ place' = [place EXCEPT ![t] = 0]
  /\ rept' = [rept EXCEPT ![t] = 0]
  /\ UNCHANGED <<repl, rerr>>
StartReplication(t, o) ==
  /\ repl' = [repl EXCEPT ![t] = @ + 1]
  /\ order' = [order EXCEPT ![t] = o]
  /\ place' = [place EXCEPT ![t] = 0]
  /\ rept' = [rept EXCEPT ![t] = 0]
  /\ UNCHANGED rerr

\* exp_repl_prep() with the runs in the order given.
Replicate(t) ==
  /\ repl[t] < exp.num_replications /\ ~rerr[t]
  /\ ~exp.random
  /\ Goto(t, "replication", "run")
  /\ \E o \in Orders : StartReplication(t, o)
  /\ UNCHANGED <<exp, comm, seed, records, endVars>>

\* exp_repl_prep() with the runs shuffled: the master draws a seed and sends
\* it, the other tasks receive it.
DrawSeed(t) ==
  /\ repl[t] < exp.num_replications /\ ~rerr[t]
  /\ exp.random
  /\ Goto(t, "replication", "order")
  /\ IF t = Master THEN seed' \in Orders ELSE UNCHANGED seed
  /\ UNCHANGED <<exp, comm, loopVars, records, endVars>>

\* A mutant of Shuffle: every task draws a seed of its own.
Shuffle_OwnSeed(t) ==
  /\ Goto(t, "order", "run")
  /\ HasSent(t)
  /\ \E o \in Orders : StartReplication(t, o)
  /\ UNCHANGED <<exp, comm, seed, records, endVars>>
Shuffle(t) ==
  /\ Goto(t, "order", "run")
  /\ HasSent(t)
  /\ StartReplication(t, seed)
  /\ UNCHANGED <<exp, comm, seed, records, endVars>>

EndReplications(t) ==
  /\ repl[t] = exp.num_replications \/ rerr[t]
  /\ Goto(t, "replication", LeaveExp)
  /\ UNCHANGED <<exp, comm, seed, loopVars, records, endVars>>

\* run_exec() begins: run_prep() creates a communicator for its tasks.
BeginRun(t) ==
  /\ place[t] < Len(exp.runs) /\ ~rerr[t]
  /\ Goto(t, "run", "create")
  /\ place' = [place EXCEPT ![t] = @ + 1]
  /\ rept' = [rept EXCEPT ![t] = 0]
  /\ UNCHANGED <<exp, comm, seed, repl, order, rerr, records, endVars>>

\* exp_repl_post() overwrites the result of the replication.
EndRuns(t) ==
  /\ place[t] = Len(exp.runs) \/ rerr[t]
  /\ Goto(t, "run", LeaveRepl)
  /\ rerr' = [rerr EXCEPT ![t] = FALSE]
  /\ UNCHANGED <<exp, comm, seed, repl, order, place, rept, records, endVars>>

-------------------------------------------------------------------------------
(* run_exec().                                                             *)

\* A mutant of LeftOut: a task the run leaves out returns at once.
LeftOut_Returns(t) ==
  /\ Goto(t, "left_out", "run")
  /\ comm' = [comm EXCEPT ![t] = "world"]
  /\ UNCHANGED <<exp, seed, loopVars, records, endVars>>

\* Another: the null communicator is kept.
LeftOut_KeepsNull(t) ==
  /\ Goto(t, "left_out", LeaveRun)
  /\ UNCHANGED <<exp, comm, seed, loopVars, records, endVars>>

\* run_post() of a task the run leaves out.
LeftOut(t) ==
  /\ Goto(t, "left_out", LeaveRun)
  /\ comm' = [comm EXCEPT ![t] = "world"]
  /\ UNCHANGED <<exp, seed, loopVars, records, endVars>>

\* A repetition is left to execute.
More(t) == rept[t] < Run(t).num_repetitions /\ ~rerr[t]

\* run_rept_exec()
Repeat(t) ==
  /\ Goto(t, "rept", "rept_end")
  /\ More(t)
  /\ rept' = [rept EXCEPT ![t] = @ + 1]
  /\ UNCHANGED <<exp, comm, seed, repl, order, place, rerr, records, endVars>>

EndRepetitions(t) ==
  /\ Goto(t, "rept", "comm_free")
  /\ ~More(t)
  /\ UNCHANGED <<exp, comm, seed, loopVars, records, endVars>>

\* The communicator of the run, and a collective that all its tasks wait in.
Members == {t \in Task : comm[t] = "run"}
MembersIn(l) ==
  /\ Members # {}
  /\ \A t \in Members : pc[t] = l
  /\ \A t, u \in Members : inner[t] = inner[u]

\* A repetition ends with the same result for all its tasks, and their time
\* records are committed when it is a success.
ReptEnd ==
  /\ MembersIn("rept_end")
  /\ \E fails \in IF "test" \in Faults THEN BOOLEAN ELSE {FALSE} :
       /\ rerr' = [t \in Task |-> IF t \in Members THEN fails ELSE rerr[t]]
       /\ records' = [t \in Task |->
            IF t \in Members /\ ~fails
            THEN records[t] \cup {<<repl[t], order[t][place[t]], rept[t]>>}
            ELSE records[t]]
  /\ pc' = [t \in Task |-> IF t \in Members THEN "rept" ELSE pc[t]]
  /\ inner' = [t \in Task |-> <<>>]
  /\ UNCHANGED <<exp, trail, comm, seed, repl, order, place, rept, endVars>>

\* run_post() of the tasks of the run; it overwrites the result of the run.
CommFree ==
  /\ MembersIn("comm_free")
  /\ pc' = [t \in Task |-> IF t \in Members THEN LeaveRun ELSE pc[t]]
  /\ trail' = [t \in Task |->
       IF t \in Members THEN trail[t] \o Entered(LeaveRun) ELSE trail[t]]
  /\ inner' = [t \in Task |-> <<>>]
  /\ comm' = [t \in Task |-> IF t \in Members THEN "world" ELSE comm[t]]
  /\ rerr' = [t \in Task |-> IF t \in Members THEN FALSE ELSE rerr[t]]
  /\ UNCHANGED <<exp, seed, repl, order, place, rept, records, endVars>>

-------------------------------------------------------------------------------
(* Collectives on MPI_COMM_WORLD.                                          *)

RunSummary(t) ==
  /\ Goto(t, "run_summary", "run_end")
  /\ HasReduced(t)
  /\ UNCHANGED <<exp, comm, seed, loopVars, records, endVars>>

ReplSummary(t) ==
  /\ Goto(t, "repl_summary", "repl_end")
  /\ HasReduced(t)
  /\ UNCHANGED <<exp, comm, seed, loopVars, records, endVars>>

ExpSummary(t) ==
  /\ Goto(t, "exp_summary", "export")
  /\ HasReduced(t)
  /\ UNCHANGED <<exp, comm, seed, loopVars, records, endVars>>

\* The tasks of a run are those below its num_tasks, which run_prep() lowers to
\* the number of processes when there are fewer; and a mutant.
Includes_OneMore(r, t) == t <= r.num_tasks
Includes(r, t) == t < r.num_tasks

AfterWorld(t) ==
  CASE pc[t] = "create"   -> IF Includes(Run(t), t) THEN "rept" ELSE "left_out"
    [] pc[t] = "run_end"  -> "run"
    [] pc[t] = "repl_end" -> "replication"
    [] pc[t] = "finalize" -> "done"

\* MPI_Comm_create() must get the same group from every task.
Group(r) == {t \in Task : Includes(r, t)}
SameGroup ==
  \A t, u \in Task : pc[t] = "create" /\ pc[u] = "create"
                      => Group(Run(t)) = Group(Run(u))

Release ==
  /\ \A t \in Task : pc[t] \in OnWorld
  /\ \A t, u \in Task : trail[t] = trail[u]
  /\ SameGroup
  /\ pc' = [t \in Task |-> AfterWorld(t)]
  /\ trail' = [t \in Task |-> <<>>]
  /\ comm' = [t \in Task |->
       CASE AfterWorld(t) = "rept"     -> "run"
         [] AfterWorld(t) = "left_out" -> "null"
         [] OTHER                      -> comm[t]]
  /\ UNCHANGED <<exp, inner, seed, loopVars, records, endVars>>

-------------------------------------------------------------------------------
(* stex_export() and main().                                               *)

Outcomes == IF "export" \in Faults THEN BOOLEAN ELSE {FALSE}

\* The task report of every task, then the test report of the master.
Export(t) ==
  /\ Goto(t, "export", IF exp.test_report THEN "verdict" ELSE "finalize")
  /\ \E fails \in IF exp.task_report THEN Outcomes ELSE {FALSE} :
       result' = [result EXCEPT ![t] = fails]
  /\ IF exp.test_report /\ t = Master THEN verdict' \in Outcomes
                                      ELSE UNCHANGED verdict
  /\ UNCHANGED <<exp, comm, seed, loopVars, records>>

Verdict(t) ==
  /\ Goto(t, "verdict", "finalize")
  /\ HasSent(t)
  /\ result' = [result EXCEPT ![t] = @ \/ verdict]
  /\ UNCHANGED <<exp, comm, seed, loopVars, records, verdict>>

Finished == \A t \in Task : pc[t] = "done"
Terminating == Finished /\ UNCHANGED vars

-------------------------------------------------------------------------------
Init ==
  /\ exp \in Exps
  /\ pc = [t \in Task |-> "replication"]
  /\ trail = [t \in Task |-> <<>>]
  /\ inner = [t \in Task |-> <<>>]
  /\ comm = [t \in Task |-> "world"]
  /\ seed = Given
  /\ repl = [t \in Task |-> 0]
  /\ order = [t \in Task |-> Given]
  /\ place = [t \in Task |-> 0]
  /\ rept = [t \in Task |-> 0]
  /\ rerr = [t \in Task |-> FALSE]
  /\ records = [t \in Task |-> {}]
  /\ verdict = FALSE
  /\ result = [t \in Task |-> FALSE]

TaskStep(t) ==
  \/ Replicate(t)    \/ DrawSeed(t)       \/ Shuffle(t)
  \/ EndReplications(t)
  \/ BeginRun(t)     \/ EndRuns(t)
  \/ LeftOut(t)
  \/ Repeat(t)       \/ EndRepetitions(t)
  \/ RunSummary(t)   \/ ReplSummary(t)    \/ ExpSummary(t)
  \/ Export(t)       \/ Verdict(t)

Next == Release \/ ReptEnd \/ CommFree
          \/ (\E t \in Task : TaskStep(t)) \/ Terminating

Spec == Init /\ [][Next]_vars

\* Each task is a process of its own, and MPI completes a matched collective;
\* a test ends, as module TestExec shows.
FairSpec == /\ Spec
            /\ WF_vars(Release) /\ WF_vars(ReptEnd) /\ WF_vars(CommFree)
            /\ \A t \in Task : WF_vars(TaskStep(t))

-------------------------------------------------------------------------------
(* Properties.                                                             *)

\* Tasks enter the same collectives on every communicator they share, and ask
\* for the same group where they create one, although a run may use some of
\* them only and they shuffle the runs on their own.
CollectivesMatch ==
  /\ \A t, u \in Task : \A k \in DOMAIN trail[t] \cap DOMAIN trail[u] :
       trail[t][k] = trail[u][k]
  /\ \A t, u \in Members : \A k \in DOMAIN inner[t] \cap DOMAIN inner[u] :
       inner[t][k] = inner[u][k]
  /\ SameGroup

\* No task begins a run before all have left the one before: two runs at once
\* would disturb each other's measurements.
InRun(t) == pc[t] \in {"create", "left_out", "run_summary", "run_end"} \cup
                      {"rept", "rept_end", "comm_free"}
RunsDontOverlap ==
  \A t, u \in Task : InRun(t) /\ InRun(u) =>
    repl[t] = repl[u] /\ order[t][place[t]] = order[u][place[u]]
      /\ place[t] = place[u]

\* ctx.comm is the world's wherever a task enters a collective of the world,
\* although run_exec() changes it and the summaries use whatever it is.
WorldRestored ==
  \A t \in Task :
    pc[t] \in (OnWorld \cup Bcast \cup Reduce) => comm[t] = "world"

\* What the tasks export agrees: the records of a task are those of the
\* master, without the runs that left the task out.
RecordsAgree ==
  \A t \in Task : (\A u \in Task : pc[u] \in {"export", "verdict", "finalize"})
    => records[t] =
         {r \in records[Master] : t < exp.runs[r[2]].num_tasks}

\* The repetitions of a run that took place, and whether it goes on.
Repeated == rept[Master] - (IF pc[Master] = "rept_end" THEN 1 ELSE 0)
Over ==
  pc[Master] \in {"create", "rept", "rept_end", "comm_free"} =>
    rerr[Master] \/ Repeated = Run(Master).num_repetitions

\* The program as a whole executes the experiment one repetition after the
\* other, in one order, to its end: seen from the master, which takes part in
\* every run, it implements module Experiment.
Sequential == INSTANCE Experiment WITH
  repl   <- repl[Master],
  order  <- order[Master],
  place  <- place[Master],
  rept   <- Repeated,
  over   <- Over
SequentialSpec == Sequential!Spec

Terminates == <>Finished

\* The time records of the master hold every repetition.
AllRecorded ==
  \A i \in 1 .. exp.num_replications, r \in RunIds :
    \A k \in 1 .. exp.runs[r].num_repetitions : <<i, r, k>> \in records[Master]

\* iore.c says "Experiment not executed due to errors. Closing IORE." when a
\* program that failed ends.
FailureReported ==
  Finished /\ ~AllRecorded => result[Master]

===============================================================================
