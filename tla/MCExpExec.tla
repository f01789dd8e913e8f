------------------------------ MODULE MCExpExec -------------------------------
(***************************************************************************)
(* Model-checking instances of ExpExec: the experiments that may be given. *)
(***************************************************************************)
EXTENDS ExpExec

\* One task less than there are processes twice, or one more once.
Runs == << [num_tasks |-> P - 1, num_repetitions |-> 2],
           [num_tasks |-> P + 1, num_repetitions |-> 1] >>

AllExps ==
  { [num_replications |-> n, runs |-> Runs, random |-> r, verbose |-> v,
     task_report |-> k, test_report |-> s] :
      n \in {1, 2}, r, v, k, s \in BOOLEAN }

\* A run with a single task in between, in any order.
Single == << [num_tasks |-> 1, num_repetitions |-> 1] >>
OrderExps ==
  { [num_replications |-> 2, runs |-> Runs \o Single, random |-> TRUE,
     verbose |-> TRUE, task_report |-> FALSE, test_report |-> FALSE] }

Checked == AllExps \cup OrderExps

===============================================================================
