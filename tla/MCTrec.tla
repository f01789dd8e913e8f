-------------------------------- MODULE MCTrec --------------------------------
(***************************************************************************)
(* Model-checking instance of Trec.                                        *)
(***************************************************************************)
EXTENDS Trec

\* A run that writes and removes twice, and one that writes and reads once.
TwoRuns == << [num_repetitions |-> 2, read |-> FALSE, file_keep |-> FALSE],
              [num_repetitions |-> 1, read |-> TRUE, file_keep |-> TRUE] >>

\* The others around this task, overtaking it, or behind it, more and more.
MCSkews == { [a \in 1 .. 4 |-> <<-1, 1>>], [a \in 1 .. 4 |-> <<20 - 9 * a, 20 - 9 * a>>],
             [a \in 1 .. 4 |-> <<a, 2 * a>>] }

===============================================================================
