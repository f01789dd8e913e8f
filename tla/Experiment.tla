------------------------------ MODULE Experiment ------------------------------
(***************************************************************************)
(* What an experiment promises, as one sequential program would do it:     *)
(* every replication executes every run once, in the order given or in one *)
(* drawn for the replication; a run is repeated until a repetition fails   *)
(* or none is left; replications and runs follow whatever the results.     *)
(* ExpExec, where every task runs its own loops, implements this.          *)
(***************************************************************************)
EXTENDS Integers, Sequences

VARIABLES
  exp,   \* the experiment; never changes
  repl,  \* the replication, 0 before the first
  order, \* the order of the runs in this replication
  place, \* the place in order of the run, 0 before the first
  rept,  \* repetitions of this run that took place
  over   \* the run takes no more repetitions

vars == <<exp, repl, order, place, rept, over>>

RunIds == 1 .. Len(exp.runs)

\* The orders a replication may execute the runs in.
Orders ==
  IF exp.random
  THEN {f \in [RunIds -> RunIds] : \A i, j \in RunIds : f[i] = f[j] => i = j}
  ELSE {[i \in RunIds |-> i]}

\* A replication begins when the one before executed every run.
Replicate ==
  /\ over /\ (repl > 0 => place = Len(exp.runs))
  /\ repl < exp.num_replications
  /\ repl' = repl + 1
  /\ order' \in Orders
  /\ place' = 0 /\ rept' = 0
  /\ UNCHANGED <<exp, over>>

\* A run begins when the one before is over.
BeginRun ==
  /\ over /\ repl > 0 /\ place < Len(exp.runs)
  /\ place' = place + 1 /\ rept' = 0 /\ over' = FALSE
  /\ UNCHANGED <<exp, repl, order>>

\* A repetition is the last of the run or fails, or the run goes on.
Repeat ==
  /\ ~over
  /\ rept' = rept + 1
  /\ over' \in IF rept' = exp.runs[order[place]].num_repetitions THEN {TRUE}
                                                             ELSE BOOLEAN
  /\ UNCHANGED <<exp, repl, order, place>>

Init ==
  /\ repl = 0 /\ place = 0 /\ rept = 0 /\ over = TRUE
  /\ order = [i \in RunIds |-> i]

Next == Replicate \/ BeginRun \/ Repeat

Spec == Init /\ [][Next]_vars /\ WF_vars(Next)

===============================================================================
