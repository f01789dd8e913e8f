---------------------------- MODULE ExpExec_proofs -----------------------------
(***************************************************************************)
(* Proofs about ExpExec, for every number of processes, every set of       *)
(* experiments and whatever fails.                                         *)
(*                                                                         *)
(* The invariant IInv says where the tasks can be at once.  Release alone  *)
(* takes tasks from one stretch of the program to the next, all of them    *)
(* together; a stretch is told by the replication, the runs of it that are *)
(* done with and whether one is executing, and Aligned says that all tasks *)
(* are in the same one.  Placed says what holds of a task at each label,   *)
(* the collectives it has entered among it.  Ordered says that the tasks   *)
(* in a replication have its order, for which SeedSent says that the       *)
(* master has drawn it before.  MembersWhole and MembersAgree say that the *)
(* communicator of a run has all tasks the run uses, each with the same    *)
(* results.  RecordsCommitted is the agreement of the time records that    *)
(* holds at all times.                                                     *)
(***************************************************************************)
EXTENDS ExpExec, Operators_proofs, SequenceTheorems

-------------------------------------------------------------------------------
(* Where a task is.                                                        *)

\* The experiment is over for the task.
Ending == {"exp_summary", "export", "verdict", "finalize", "done"}

\* The task is between two replications, so that repl, order and place are
\* those of the one before.
Ahead(t) == pc[t] \in {"replication", "order"} \cup Ending

\* The task is on the communicator of a run, or in a run at all.
OnRunComm(t) == pc[t] \in {"rept", "rept_end", "comm_free"}
Executing(t) == OnRunComm(t) \/ pc[t] \in {"left_out", "run_summary", "run_end"}

\* The replication the task is in or before, and the runs of it that are over.
Replication(t) == IF Ahead(t) THEN repl[t] + 1 ELSE repl[t]
Ran(t) ==
  IF Ahead(t) THEN 0
  ELSE IF Executing(t) \/ pc[t] = "create" THEN place[t] - 1 ELSE place[t]

\* Repetitions of the run that ended.
RepeatedBy(t) == IF pc[t] = "rept_end" THEN rept[t] - 1 ELSE rept[t]

-------------------------------------------------------------------------------
(* The invariant.                                                          *)

\* The collectives task t has entered since the last release.
TrailOf(t) ==
  CASE pc[t] = "order"  -> <<"bcast">>
    [] pc[t] = "run"    -> IF place[t] = 0 /\ exp.random THEN <<"bcast">>
                                                         ELSE <<>>
    [] pc[t] = "create" -> IF place[t] = 1 /\ exp.random
                           THEN <<"bcast", "comm_create">>
                           ELSE <<"comm_create">>
    [] pc[t] \in Reduce -> <<"reduce">>
    [] pc[t] \in {"run_end", "repl_end"} ->
         IF exp.verbose THEN <<"reduce", "barrier">> ELSE <<"barrier">>
    [] pc[t] = "export" -> IF exp.verbose THEN <<"reduce">> ELSE <<>>
    [] pc[t] = "verdict" ->
         IF exp.verbose THEN <<"reduce", "bcast">> ELSE <<"bcast">>
    [] pc[t] = "finalize" ->
         IF exp.verbose
         THEN IF exp.test_report THEN <<"reduce", "bcast", "barrier">>
                                 ELSE <<"reduce", "barrier">>
         ELSE IF exp.test_report THEN <<"bcast", "barrier">>
                                 ELSE <<"barrier">>
    [] OTHER -> <<>>

InnerOf(t) ==
  CASE pc[t] = "rept_end"  -> <<"rept_end">>
    [] pc[t] = "comm_free" -> <<"comm_free">>
    [] OTHER               -> <<>>

CommOf(t) ==
  IF OnRunComm(t) THEN "run" ELSE IF pc[t] = "left_out" THEN "null" ELSE "world"

TypeOK ==
  /\ exp \in Exps
  /\ pc \in [Task -> Label]
  /\ DOMAIN trail = Task /\ DOMAIN inner = Task /\ DOMAIN comm = Task
  /\ seed \in Sequential!Orders
  /\ repl \in [Task -> Nat] /\ place \in [Task -> Nat] /\ rept \in [Task -> Nat]
  /\ order \in [Task -> Sequential!Orders]
  /\ rerr \in [Task -> BOOLEAN]
  /\ DOMAIN records = Task
  /\ verdict \in BOOLEAN
  /\ result \in [Task -> BOOLEAN]

Counted(t) ==
  /\ repl[t] <= exp.num_replications
  /\ place[t] <= Len(exp.runs)
  /\ pc[t] = "order" => exp.random /\ repl[t] < exp.num_replications
  /\ pc[t] \in {"replication", "order"} /\ repl[t] > 0
       => place[t] = Len(exp.runs)
  /\ pc[t] \in Ending => repl[t] = exp.num_replications
  /\ ~Ahead(t) => repl[t] > 0
  /\ Executing(t) \/ pc[t] = "create" => place[t] > 0
  /\ pc[t] \in {"repl_summary", "repl_end"} => place[t] = Len(exp.runs)

Repeating(t) ==
  /\ pc[t] = "create" => rept[t] = 0
  /\ OnRunComm(t) => /\ rept[t] <= Run(t).num_repetitions
                     /\ Includes(Run(t), t)
  /\ pc[t] = "rept_end" => rept[t] > 0 /\ ~rerr[t]
  /\ pc[t] = "comm_free" => rerr[t] \/ rept[t] = Run(t).num_repetitions
  /\ ~OnRunComm(t) => ~rerr[t]

Communicating(t) ==
  /\ trail[t] = TrailOf(t)
  /\ inner[t] = InnerOf(t)
  /\ comm[t] = CommOf(t)
  /\ pc[t] \in Reduce => exp.verbose
  /\ pc[t] = "verdict" => exp.test_report

Placed(t) == Counted(t) /\ Repeating(t) /\ Communicating(t)

Beside(t, u) ==
  /\ Replication(t) = Replication(u)
  /\ Ran(t) = Ran(u)
  /\ Executing(t) <=> Executing(u)
  /\ pc[t] = "done" <=> pc[u] = "done"
Aligned == \A t, u \in Task : Beside(t, u)

Ordered == \A t \in Task : ~Ahead(t) => order[t] = seed

SeedSent ==
  exp.random /\ pc[Master] = "replication" => \A t \in Task : Ahead(t)

MembersWhole ==
  \A t, u \in Task : OnRunComm(t) /\ Includes(Run(t), u) => OnRunComm(u)
MembersAgree ==
  \A t, u \in Task : OnRunComm(t) /\ OnRunComm(u) =>
    RepeatedBy(t) = RepeatedBy(u) /\ rerr[t] = rerr[u]

RecordsCommitted ==
  \A t \in Task :
    records[t] = {r \in records[Master] : t < exp.runs[r[2]].num_tasks}

IInv == /\ TypeOK
        /\ \A t \in Task : Placed(t)
        /\ Aligned /\ Ordered /\ SeedSent
        /\ MembersWhole /\ MembersAgree
        /\ RecordsCommitted

-------------------------------------------------------------------------------
(* Typing and the collectives.                                             *)

LEMMA ExpFacts ==
  ASSUME exp \in Exps
  PROVE  /\ exp.num_replications \in Nat \ {0}
         /\ Len(exp.runs) \in Nat \ {0}
         /\ \A i \in RunIds : /\ exp.runs[i].num_tasks \in Nat \ {0}
                              /\ exp.runs[i].num_repetitions \in Nat \ {0}
         /\ exp.random \in BOOLEAN /\ exp.verbose \in BOOLEAN
         /\ exp.task_report \in BOOLEAN /\ exp.test_report \in BOOLEAN
<1>1. Exp(exp)
  BY ExpExecAssumption
<1> QED BY <1>1 DEF Exp, RunIds

LEMMA MasterIsTask == Master \in Task /\ Task \subseteq Nat
  BY ExpExecAssumption DEF Master, Task

LEMMA Joins ==
  ASSUME NEW S, NEW a \in Seq(S), NEW b \in Seq(S), NEW c \in Seq(S),
         Len(c) = Len(a) + Len(b),
         \A i \in 1 .. Len(a) : c[i] = a[i],
         \A i \in 1 .. Len(b) : c[Len(a) + i] = b[i]
  PROVE  a \o b = c
<1>1. a \o b \in Seq(S) /\ Len(a \o b) = Len(a) + Len(b)
  BY ConcatProperties
<1>2. ASSUME NEW i \in 1 .. Len(c)
      PROVE  (a \o b)[i] = c[i]
  <2>1. CASE i <= Len(a)
    BY <2>1, ConcatProperties
  <2>2. CASE i > Len(a)
    <3>1. i - Len(a) \in 1 .. Len(b) /\ Len(a) + (i - Len(a)) = i
      BY <2>2
    <3>2. (a \o b)[i] = b[i - Len(a)]
      BY <2>2, <1>1, ConcatProperties
    <3> QED BY <3>1, <3>2
  <2> QED BY <2>1, <2>2
<1> QED BY <1>1, <1>2, SeqEqual

LEMMA JoinsTwo ==
  ASSUME NEW x, NEW y
  PROVE  <<x>> \o <<y>> = <<x, y>>
<1> DEFINE S == {x, y}
           a == <<x>>
           b == <<y>>
           c == <<x, y>>
<1>1. a \in Seq(S) /\ b \in Seq(S) /\ c \in Seq(S)
  OBVIOUS
<1>2. /\ Len(a) = 1 /\ Len(b) = 1 /\ Len(c) = 2
      /\ a[1] = x /\ b[1] = y /\ c[1] = x /\ c[2] = y
  OBVIOUS
<1> HIDE DEF a, b, S, c
<1>3. /\ Len(c) = Len(a) + Len(b)
      /\ \A i \in 1 .. Len(a) : c[i] = a[i]
      /\ \A i \in 1 .. Len(b) : c[Len(a) + i] = b[i]
  BY <1>2
<1>4. a \o b = c
  BY <1>1, <1>3, Joins, Zenon
<1> QED BY <1>4 DEF a, b, c

LEMMA JoinsThree ==
  ASSUME NEW x, NEW y, NEW z
  PROVE  <<x, y>> \o <<z>> = <<x, y, z>>
<1> DEFINE S == {x, y, z}
           a == <<x, y>>
           b == <<z>>
           c == <<x, y, z>>
<1>1. a \in Seq(S) /\ b \in Seq(S) /\ c \in Seq(S)
  OBVIOUS
<1>2. /\ Len(a) = 2 /\ Len(b) = 1 /\ Len(c) = 3
      /\ a[1] = x /\ a[2] = y /\ b[1] = z
      /\ c[1] = x /\ c[2] = y /\ c[3] = z
  OBVIOUS
<1> HIDE DEF a, b, S, c
<1>3. /\ Len(c) = Len(a) + Len(b)
      /\ \A i \in 1 .. Len(a) : c[i] = a[i]
      /\ \A i \in 1 .. Len(b) : c[Len(a) + i] = b[i]
  BY <1>2
<1>4. a \o b = c
  BY <1>1, <1>3, Joins, Zenon
<1> QED BY <1>4 DEF a, b, c

\* How a trail grows by one collective or by none.
LEMMA Joined ==
  /\ <<>> \o <<>> = <<>>
  /\ \A x : <<>> \o <<x>> = <<x>> /\ <<x>> \o <<>> = <<x>>
            /\ Append(<<>>, x) = <<x>>
  /\ \A x, y : <<x>> \o <<y>> = <<x, y>> /\ <<x, y>> \o <<>> = <<x, y>>
  /\ \A x, y, z : <<x, y>> \o <<z>> = <<x, y, z>>
<1>1. <<>> \o <<>> = <<>>
  OBVIOUS
<1>2. ASSUME NEW x
      PROVE  /\ <<>> \o <<x>> = <<x>> /\ <<x>> \o <<>> = <<x>>
             /\ Append(<<>>, x) = <<x>>
  OBVIOUS
<1>3. ASSUME NEW x, NEW y
      PROVE  <<x, y>> \o <<>> = <<x, y>>
  OBVIOUS
<1> QED BY <1>1, <1>2, <1>3, JoinsTwo, JoinsThree

LEMMA EnteredAt ==
  /\ \A l \in {"replication", "run", "rept", "left_out", "export", "done",
               "rept_end", "comm_free"} : Entered(l) = <<>>
  /\ \A l \in Bcast : Entered(l) = <<"bcast">>
  /\ \A l \in Reduce : Entered(l) = <<"reduce">>
  /\ Entered("create") = <<"comm_create">>
  /\ \A l \in {"run_end", "repl_end", "finalize"} : Entered(l) = <<"barrier">>
  BY DEF Entered, KindOf, OnWorld, Bcast, Reduce
LEMMA LabelFacts ==
  {"replication", "order", "run", "create", "left_out", "rept", "rept_end",
   "comm_free", "run_summary", "run_end", "repl_summary", "repl_end",
   "exp_summary", "export", "verdict", "finalize", "done"} = Label
  BY DEF Label, Local, OnWorld, OnRun, Bcast, Reduce

LEMMA GivenIsOrder ==
  ASSUME exp \in Exps
  PROVE  /\ Given \in Sequential!Orders
         /\ \A o \in Sequential!Orders : o \in [RunIds -> RunIds]
         /\ ~exp.random => Sequential!Orders = {Given}
  BY DEF Given, Sequential!Orders, Sequential!RunIds, RunIds

\* Any order the runs are shuffled into has each of them once.
LEMMA OrdersAllowed ==
  ASSUME exp \in Exps
  PROVE  Orders \subseteq Sequential!Orders
<1>1. CASE ~exp.random
  BY <1>1, GivenIsOrder DEF Orders
<1>2. CASE exp.random
  <2> SUFFICES ASSUME NEW draws \in [RunIds -> RunIds]
               PROVE  Shuffled(Given, Len(exp.runs), draws)
                        \in Sequential!Orders
    BY <1>2 DEF Orders
  <2>1. Len(exp.runs) \in Nat /\ 1 .. Len(exp.runs) \subseteq RunIds
    BY ExpFacts DEF RunIds
  <2>2. IsPermutation(Given, RunIds)
    BY DEF IsPermutation, Given
  <2>3. \A i \in 1 .. Len(exp.runs) : draws[i] \in RunIds
    BY DEF RunIds
  <2>4. IsPermutation(Shuffled(Given, Len(exp.runs), draws), RunIds)
    BY <2>1, <2>2, <2>3, ShufflePermutes
  <2> QED BY <1>2, <2>4
          DEF IsPermutation, Sequential!Orders, Sequential!RunIds, RunIds
<1> QED BY <1>1, <1>2

\* A run that is on, or about to begin, is one of the experiment's.
LEMMA RunFacts ==
  ASSUME TypeOK, NEW t \in Task, place[t] > 0, place[t] <= Len(exp.runs)
  PROVE  /\ order[t][place[t]] \in RunIds
         /\ Run(t).num_tasks \in Nat \ {0}
         /\ Run(t).num_repetitions \in Nat \ {0}
<1>1. order[t] \in [RunIds -> RunIds] /\ place[t] \in RunIds
  BY GivenIsOrder, ExpFacts DEF TypeOK, RunIds
<1> QED BY <1>1, ExpFacts DEF Run, TypeOK

LEMMA GotoFacts ==
  ASSUME TypeOK, NEW t \in Task, NEW from, NEW to, Goto(t, from, to)
  PROVE  /\ pc[t] = from /\ pc'[t] = to
         /\ trail'[t] = trail[t] \o Entered(to)
         /\ inner'[t] = IF to \in OnRun THEN Append(inner[t], to) ELSE inner[t]
         /\ DOMAIN trail' = Task /\ DOMAIN inner' = Task
         /\ to \in Label => pc' \in [Task -> Label]
         /\ \A u \in Task \ {t} :
              pc'[u] = pc[u] /\ trail'[u] = trail[u] /\ inner'[u] = inner[u]
  BY DEF Goto, TypeOK

-------------------------------------------------------------------------------
(* A step of a task leaves the other tasks where they are.                 *)

Untouched(u) ==
  /\ pc'[u] = pc[u] /\ trail'[u] = trail[u] /\ inner'[u] = inner[u]
  /\ comm'[u] = comm[u] /\ repl'[u] = repl[u] /\ order'[u] = order[u]
  /\ place'[u] = place[u] /\ rept'[u] = rept[u] /\ rerr'[u] = rerr[u]

LEMMA OthersUntouched ==
  ASSUME TypeOK, NEW t \in Task, TaskStep(t)
  PROVE  /\ exp' = exp /\ records' = records
         /\ \A u \in Task \ {t} : Untouched(u)
<1> USE DEF TypeOK, Goto, loopVars, endVars, Untouched, StartReplication
<1>1. CASE Replicate(t)
  BY <1>1 DEF Replicate
<1>2. CASE DrawSeed(t)
  BY <1>2 DEF DrawSeed
<1>3. CASE Shuffle(t)
  BY <1>3 DEF Shuffle
<1>4. CASE EndReplications(t)
  BY <1>4 DEF EndReplications
<1>5. CASE BeginRun(t)
  BY <1>5 DEF BeginRun
<1>6. CASE EndRuns(t)
  BY <1>6 DEF EndRuns
<1>7. CASE LeftOut(t)
  BY <1>7 DEF LeftOut
<1>8. CASE Repeat(t)
  BY <1>8 DEF Repeat
<1>9. CASE EndRepetitions(t)
  BY <1>9 DEF EndRepetitions
<1>10. CASE RunSummary(t) \/ ReplSummary(t) \/ ExpSummary(t)
  BY <1>10 DEF RunSummary, ReplSummary, ExpSummary
<1>11. CASE Export(t)
  BY <1>11 DEF Export
<1>12. CASE Verdict(t)
  BY <1>12 DEF Verdict
<1> QED BY <1>1, <1>2, <1>3, <1>4, <1>5, <1>6, <1>7, <1>8, <1>9, <1>10,
           <1>11, <1>12 DEF TaskStep

\* Task u stays in its stretch of the program.
Steady(u) ==
  /\ Replication(u)' = Replication(u)
  /\ Ran(u)' = Ran(u)
  /\ Executing(u)' <=> Executing(u)
  /\ pc'[u] = "done" <=> pc[u] = "done"

\* What is said of the place of a task depends on that task alone.
LEMMA UntouchedPlace ==
  ASSUME NEW u \in Task, exp' = exp, Untouched(u)
  PROVE  /\ Placed(u) => Placed(u)'
         /\ Steady(u)
         /\ Ahead(u)' <=> Ahead(u)
         /\ OnRunComm(u)' <=> OnRunComm(u)
         /\ Run(u)' = Run(u)
         /\ RepeatedBy(u)' = RepeatedBy(u)
<1> USE DEF Untouched
<1>1. /\ Ahead(u)' <=> Ahead(u)
      /\ OnRunComm(u)' <=> OnRunComm(u)
      /\ Executing(u)' <=> Executing(u)
  BY DEF Ahead, OnRunComm, Executing
<1>2. Run(u)' = Run(u) /\ RepeatedBy(u)' = RepeatedBy(u)
  BY DEF Run, RepeatedBy
<1>3. Steady(u)
  BY <1>1 DEF Steady, Replication, Ran
<1>4. Counted(u) => Counted(u)'
  BY <1>1 DEF Counted
<1>5. Repeating(u) => Repeating(u)'
  BY <1>1, <1>2 DEF Repeating, Includes
<1>6. TrailOf(u)' = TrailOf(u) /\ InnerOf(u)' = InnerOf(u)
      /\ CommOf(u)' = CommOf(u)
  BY <1>1 DEF TrailOf, InnerOf, CommOf
<1>7. Communicating(u) => Communicating(u)'
  BY <1>6 DEF Communicating
<1> QED BY <1>1, <1>2, <1>3, <1>4, <1>5, <1>7 DEF Placed

-------------------------------------------------------------------------------
(* Where the step of a task takes it.                                      *)

LEMMA TypeTaskStep ==
  ASSUME TypeOK, NEW t \in Task, TaskStep(t)
  PROVE  TypeOK'
<1> USE LabelFacts, GotoFacts DEF loopVars, endVars
<1>1. LeaveExp \in Label /\ LeaveRepl \in Label /\ LeaveRun \in Label
  BY DEF LeaveExp, LeaveRepl, LeaveRun
<1>2. Given \in Sequential!Orders /\ Orders \subseteq Sequential!Orders
  BY GivenIsOrder, OrdersAllowed DEF TypeOK
<1>3. exp' = exp => Sequential!Orders' = Sequential!Orders
  BY DEF Sequential!Orders, Sequential!RunIds
<1>4. ASSUME NEW o \in Sequential!Orders, StartReplication(t, o)
      PROVE  /\ repl' \in [Task -> Nat] /\ place' \in [Task -> Nat]
             /\ rept' \in [Task -> Nat] /\ rerr' \in [Task -> BOOLEAN]
             /\ order' \in [Task -> Sequential!Orders]
  BY <1>4 DEF StartReplication, TypeOK
<1>5. CASE Replicate(t)
  <2>1. PICK o \in Orders : StartReplication(t, o)
    BY <1>5 DEF Replicate
  <2> QED BY <1>2, <1>3, <1>4, <1>5, <2>1 DEF Replicate, TypeOK
<1>6. CASE DrawSeed(t)
  <2>1. seed' \in Sequential!Orders
    BY <1>2, <1>6 DEF DrawSeed, TypeOK
  <2> QED BY <1>3, <1>6, <2>1 DEF DrawSeed, TypeOK
<1>7. CASE Shuffle(t)
  <2>1. StartReplication(t, seed) /\ seed \in Sequential!Orders
    BY <1>7 DEF Shuffle, TypeOK
  <2> QED BY <1>3, <1>4, <1>7, <2>1 DEF Shuffle, TypeOK
<1>8. CASE EndReplications(t)
  BY <1>1, <1>3, <1>8 DEF EndReplications, TypeOK
<1>9. CASE BeginRun(t)
  BY <1>3, <1>9 DEF BeginRun, TypeOK
<1>10. CASE EndRuns(t)
  BY <1>1, <1>3, <1>10 DEF EndRuns, TypeOK
<1>11. CASE LeftOut(t)
  BY <1>1, <1>3, <1>11 DEF LeftOut, TypeOK
<1>12. CASE Repeat(t)
  BY <1>3, <1>12 DEF Repeat, TypeOK
<1>13. CASE EndRepetitions(t)
  BY <1>3, <1>13 DEF EndRepetitions, TypeOK
<1>14. CASE RunSummary(t) \/ ReplSummary(t) \/ ExpSummary(t)
  BY <1>3, <1>14 DEF RunSummary, ReplSummary, ExpSummary, TypeOK
<1>15. CASE Export(t)
  <2> DEFINE to == IF exp.test_report THEN "verdict" ELSE "finalize"
  <2>1. to \in Label /\ Goto(t, "export", to)
    BY <1>15 DEF Export
  <2> HIDE DEF to
  <2>2. Outcomes \subseteq BOOLEAN
    BY DEF Outcomes
  <2>3. verdict' \in Outcomes \/ verdict' = verdict
    BY <1>15, Zenon DEF Export
  <2>4. verdict' \in BOOLEAN
    BY <2>2, <2>3, Zenon DEF TypeOK
  <2>5. PICK fails \in IF exp.task_report THEN Outcomes ELSE {FALSE} :
             result' = [result EXCEPT ![t] = fails]
    BY <1>15 DEF Export
  <2>6. fails \in BOOLEAN
    BY <2>2, <2>5, Zenon
  <2>7. result' \in [Task -> BOOLEAN]
    BY <2>5, <2>6 DEF TypeOK
  <2> QED BY <1>3, <1>15, <2>1, <2>4, <2>7 DEF Export, TypeOK
<1>16. CASE Verdict(t)
  <2>1. result' \in [Task -> BOOLEAN]
    BY <1>16 DEF Verdict, TypeOK
  <2> QED BY <1>3, <1>16, <2>1 DEF Verdict, TypeOK
<1> QED BY <1>5, <1>6, <1>7, <1>8, <1>9, <1>10, <1>11, <1>12, <1>13, <1>14,
           <1>15, <1>16 DEF TaskStep

\* A task that goes on to the end of a replication, of a run or of the
\* experiment.
LEMMA Leaves ==
  ASSUME exp \in Exps
  PROVE  /\ LeaveExp = IF exp.verbose THEN "exp_summary" ELSE "export"
         /\ LeaveRepl = IF exp.verbose THEN "repl_summary" ELSE "repl_end"
         /\ LeaveRun = IF exp.verbose THEN "run_summary" ELSE "run_end"
         /\ Entered(LeaveExp) = IF exp.verbose THEN <<"reduce">> ELSE <<>>
         /\ Entered(LeaveRepl) =
              IF exp.verbose THEN <<"reduce">> ELSE <<"barrier">>
         /\ Entered(LeaveRun) =
              IF exp.verbose THEN <<"reduce">> ELSE <<"barrier">>
  BY EnteredAt DEF LeaveExp, LeaveRepl, LeaveRun, Reduce

\* A step takes the task to a place that is as said of its label, in the same
\* stretch of the program.
Moves(t) ==
  /\ Counted(t)' /\ Repeating(t)' /\ Communicating(t)'
  /\ Steady(t)
  /\ OnRunComm(t)' <=> OnRunComm(t)
  /\ OnRunComm(t) => /\ Run(t)' = Run(t)
                     /\ RepeatedBy(t)' = RepeatedBy(t)
                     /\ rerr'[t] = rerr[t]

LEMMA StartsReplication ==
  ASSUME TypeOK, NEW t \in Task, Placed(t), Replicate(t) \/ Shuffle(t)
  PROVE  Moves(t)
<1> USE LabelFacts, GotoFacts DEF loopVars, endVars
<1> DEFINE from == IF exp.random THEN "order" ELSE "replication"
<1>1. Goto(t, from, "run") /\ repl[t] < exp.num_replications
  BY DEF Replicate, Shuffle, Placed, Counted, Goto
<1>2. /\ repl'[t] = repl[t] + 1 /\ place'[t] = 0 /\ rept'[t] = 0
      /\ rerr' = rerr /\ comm' = comm /\ exp' = exp
  BY DEF Replicate, Shuffle, StartReplication, TypeOK
<1>3. pc[t] = from /\ pc'[t] = "run"
  BY <1>1
<1>4. from \in {"order", "replication"}
  OBVIOUS
<1>5. /\ Ahead(t) /\ ~Ahead(t)'
      /\ ~Executing(t) /\ ~Executing(t)'
      /\ ~OnRunComm(t) /\ ~OnRunComm(t)'
  BY <1>3, <1>4 DEF Ahead, Executing, OnRunComm, Ending
<1>6. Steady(t)
  BY <1>2, <1>3, <1>4, <1>5 DEF Steady, Replication, Ran
<1>7. repl[t] \in Nat /\ exp.num_replications \in Nat /\ Len(exp.runs) \in Nat
  BY ExpFacts DEF TypeOK
<1>8. Counted(t)'
  BY <1>1, <1>2, <1>3, <1>5, <1>7 DEF Counted, Ending
<1>9. Repeating(t)'
  BY <1>2, <1>3, <1>5 DEF Repeating, Placed
<1>10. Communicating(t)'
  <2>1. trail[t] = IF exp.random THEN <<"bcast">> ELSE <<>>
    BY <1>3 DEF Placed, Communicating, TrailOf, Reduce
  <2>2. trail'[t] = trail[t] \o Entered("run")
    BY <1>1
  <2>3. trail'[t] = TrailOf(t)'
    BY <2>1, <2>2, <1>2, <1>3, EnteredAt, Joined DEF TrailOf, Reduce
  <2>4. inner'[t] = InnerOf(t)'
    BY <1>1, <1>3, <1>4 DEF InnerOf, Placed, Communicating, OnRun
  <2>5. comm'[t] = CommOf(t)'
    BY <1>2, <1>3, <1>4, <1>5 DEF CommOf, Placed, Communicating
  <2> QED BY <1>3, <2>3, <2>4, <2>5 DEF Communicating, Reduce
<1> QED BY <1>5, <1>6, <1>8, <1>9, <1>10 DEF Moves

\* The loops of task t, its communicator and the experiment stay as they are.
Keeps(t) ==
  /\ exp' = exp /\ comm' = comm /\ repl' = repl /\ order' = order
  /\ place' = place /\ rept' = rept /\ rerr' = rerr

\* A step between two replications, or after the last, that leaves the loops.
LEMMA StaysAhead ==
  ASSUME TypeOK, NEW t \in Task, Placed(t), NEW from, NEW to,
         Goto(t, from, to), Keeps(t),
         from \in {"replication", "exp_summary", "export", "verdict"},
         to \in {"order", "exp_summary", "export", "verdict", "finalize"},
         to = "order" => from = "replication" /\ exp.random
                           /\ repl[t] < exp.num_replications,
         to # "order" => repl[t] = exp.num_replications,
         to = "exp_summary" => exp.verbose,
         to = "verdict" => exp.test_report,
         TrailOf(t)' = TrailOf(t) \o Entered(to)
  PROVE  Moves(t)
<1> USE DEF Keeps
<1>1. /\ pc[t] = from /\ pc'[t] = to
      /\ trail'[t] = trail[t] \o Entered(to)
      /\ inner'[t] = IF to \in OnRun THEN Append(inner[t], to) ELSE inner[t]
  BY GotoFacts
<1>2. /\ Ahead(t) /\ Ahead(t)'
      /\ ~Executing(t) /\ ~Executing(t)'
      /\ ~OnRunComm(t) /\ ~OnRunComm(t)'
  BY <1>1 DEF Ahead, Executing, OnRunComm, Ending
<1>3. Steady(t)
  BY <1>1, <1>2 DEF Steady, Replication, Ran
<1>4. Counted(t)'
  BY <1>1, <1>2 DEF Counted, Placed, Ending
<1>5. Repeating(t)'
  BY <1>1, <1>2 DEF Repeating, Placed
<1>6. trail'[t] = TrailOf(t)'
  BY <1>1, Zenon DEF Placed, Communicating
<1>7. inner'[t] = InnerOf(t)'
  BY <1>1 DEF InnerOf, Placed, Communicating, OnRun
<1>8. comm'[t] = CommOf(t)'
  BY <1>1, <1>2 DEF CommOf, Placed, Communicating
<1>9. Communicating(t)'
  BY <1>1, <1>6, <1>7, <1>8 DEF Communicating, Reduce
<1> QED BY <1>2, <1>3, <1>4, <1>5, <1>9 DEF Moves

LEMMA MovesAhead ==
  ASSUME TypeOK, NEW t \in Task, Placed(t),
         DrawSeed(t) \/ EndReplications(t) \/ ExpSummary(t)
           \/ Export(t) \/ Verdict(t)
  PROVE  Moves(t)
<1> USE DEF Keeps, loopVars, endVars
<1> exp.verbose \in BOOLEAN /\ exp.test_report \in BOOLEAN
  BY ExpFacts DEF TypeOK
<1>1. CASE DrawSeed(t)
  <2>1. Goto(t, "replication", "order") /\ Keeps(t)
        /\ exp.random /\ repl[t] < exp.num_replications
    BY <1>1 DEF DrawSeed
  <2>2. TrailOf(t)' = TrailOf(t) \o Entered("order")
    <3>1. Entered("order") = <<"bcast">>
      BY EnteredAt DEF Bcast
    <3>2. TrailOf(t) = <<>> /\ TrailOf(t)' = <<"bcast">>
      BY <2>1, GotoFacts DEF TrailOf, Reduce
    <3> QED BY <3>1, <3>2, Joined
  <2> QED BY <2>1, <2>2, StaysAhead
<1>2. CASE EndReplications(t)
  <2>1. Goto(t, "replication", LeaveExp) /\ Keeps(t)
    BY <1>2 DEF EndReplications
  <2>2. repl[t] = exp.num_replications
    BY <1>2, <2>1, GotoFacts
       DEF EndReplications, Placed, Repeating, OnRunComm
  <2>3. TrailOf(t)' = TrailOf(t) \o Entered(LeaveExp)
    <3>1. TrailOf(t) = <<>>
      BY <2>1, GotoFacts DEF TrailOf, Reduce
    <3>2. TrailOf(t)' = IF exp.verbose THEN <<"reduce">> ELSE <<>>
      BY <2>1, GotoFacts, Leaves DEF TrailOf, Reduce, TypeOK
    <3>3. Entered(LeaveExp) = IF exp.verbose THEN <<"reduce">> ELSE <<>>
      BY Leaves DEF TypeOK
    <3> QED BY <3>1, <3>2, <3>3, Joined
  <2>4. /\ LeaveExp \in {"exp_summary", "export"}
        /\ LeaveExp = "exp_summary" => exp.verbose
    BY DEF LeaveExp
  <2> QED BY <2>1, <2>2, <2>3, <2>4, StaysAhead
<1>3. CASE ExpSummary(t)
  <2>1. Goto(t, "exp_summary", "export") /\ Keeps(t)
    BY <1>3 DEF ExpSummary
  <2>2. repl[t] = exp.num_replications /\ exp.verbose
    BY <2>1, GotoFacts
       DEF Placed, Counted, Communicating, Ending, Reduce
  <2>3. TrailOf(t)' = TrailOf(t) \o Entered("export")
    <3>1. TrailOf(t) = <<"reduce">> /\ TrailOf(t)' = <<"reduce">>
      BY <2>1, <2>2, GotoFacts DEF TrailOf, Reduce
    <3> QED BY <3>1, EnteredAt, Joined
  <2> QED BY <2>1, <2>2, <2>3, StaysAhead
<1>4. CASE Export(t)
  <2> DEFINE to == IF exp.test_report THEN "verdict" ELSE "finalize"
  <2>1. Goto(t, "export", to) /\ Keeps(t)
    BY <1>4 DEF Export
  <2>2. repl[t] = exp.num_replications
    BY <2>1, GotoFacts DEF Placed, Counted, Ending
  <2>3. Entered(to) = IF exp.test_report THEN <<"bcast">> ELSE <<"barrier">>
    BY EnteredAt DEF Bcast
  <2>4. TrailOf(t) = IF exp.verbose THEN <<"reduce">> ELSE <<>>
    BY <2>1, GotoFacts DEF TrailOf, Reduce
  <2>5. TrailOf(t)' = TrailOf(t) \o Entered(to)
    <3>1. pc'[t] = to /\ exp' = exp
      BY <2>1, GotoFacts
    <3>2. CASE exp.test_report
      BY <3>1, <3>2, <2>3, <2>4, Joined DEF TrailOf, Reduce
    <3>3. CASE ~exp.test_report
      BY <3>1, <3>3, <2>3, <2>4, Joined DEF TrailOf, Reduce
    <3> QED BY <3>2, <3>3
  <2> QED BY <2>1, <2>2, <2>5, StaysAhead
<1>5. CASE Verdict(t)
  <2>1. Goto(t, "verdict", "finalize") /\ Keeps(t)
    BY <1>5 DEF Verdict
  <2>2. repl[t] = exp.num_replications /\ exp.test_report
    BY <2>1, GotoFacts DEF Placed, Counted, Communicating, Ending
  <2>3. TrailOf(t)' = TrailOf(t) \o Entered("finalize")
    <3>1. TrailOf(t) =
            IF exp.verbose THEN <<"reduce", "bcast">> ELSE <<"bcast">>
      BY <2>1, GotoFacts DEF TrailOf, Reduce
    <3>2. TrailOf(t)' = IF exp.verbose THEN <<"reduce", "bcast", "barrier">>
                                       ELSE <<"bcast", "barrier">>
      BY <2>1, <2>2, GotoFacts DEF TrailOf, Reduce
    <3>3. Entered("finalize") = <<"barrier">>
      BY EnteredAt
    <3>4. CASE exp.verbose
      <4>1. <<"reduce", "bcast">> \o <<"barrier">> =
              <<"reduce", "bcast", "barrier">>
        BY JoinsThree
      <4> QED BY <3>1, <3>2, <3>3, <3>4, <4>1
    <3>5. CASE ~exp.verbose
      <4>1. <<"bcast">> \o <<"barrier">> = <<"bcast", "barrier">>
        BY JoinsTwo
      <4> QED BY <3>1, <3>2, <3>3, <3>5, <4>1
    <3> QED BY <3>4, <3>5
  <2> QED BY <2>1, <2>2, <2>3, StaysAhead
<1> QED BY <1>1, <1>2, <1>3, <1>4, <1>5

\* A run begins, or the replication ends.
LEMMA MovesToRun ==
  ASSUME TypeOK, NEW t \in Task, Placed(t), BeginRun(t) \/ EndRuns(t)
  PROVE  Moves(t)
<1> /\ place[t] \in Nat /\ Len(exp.runs) \in Nat \ {0}
    /\ exp.verbose \in BOOLEAN /\ exp.random \in BOOLEAN
  BY ExpFacts DEF TypeOK
<1>1. pc[t] = "run" /\ exp' = exp /\ comm' = comm
  BY GotoFacts DEF BeginRun, EndRuns
<1>2. ~Ahead(t) /\ ~Executing(t) /\ ~OnRunComm(t)
  BY <1>1 DEF Ahead, Executing, OnRunComm, Ending
<1>3. ~rerr[t] /\ inner[t] = <<>> /\ comm[t] = "world" /\ trail[t] = TrailOf(t)
      /\ repl[t] > 0 /\ repl[t] <= exp.num_replications
      /\ place[t] <= Len(exp.runs)
  BY <1>1, <1>2 DEF Placed, Counted, Repeating, Communicating, InnerOf, CommOf
<1>4. TrailOf(t) = IF place[t] = 0 /\ exp.random THEN <<"bcast">> ELSE <<>>
  BY <1>1 DEF TrailOf, Reduce
<1>5. CASE BeginRun(t)
  <2>1. /\ Goto(t, "run", "create")
        /\ place'[t] = place[t] + 1 /\ rept'[t] = 0
        /\ repl' = repl /\ rerr' = rerr /\ place[t] < Len(exp.runs)
    BY <1>5 DEF BeginRun, TypeOK
  <2>2. /\ pc'[t] = "create" /\ trail'[t] = trail[t] \o Entered("create")
        /\ inner'[t] = inner[t]
    BY <2>1, GotoFacts DEF OnRun
  <2>3. ~Ahead(t)' /\ ~Executing(t)' /\ ~OnRunComm(t)'
    BY <2>2 DEF Ahead, Executing, OnRunComm, Ending
  <2>4. Steady(t)
    BY <1>1, <1>2, <2>1, <2>2, <2>3 DEF Steady, Replication, Ran
  <2>5. Counted(t)'
    BY <1>1, <1>3, <2>1, <2>2, <2>3 DEF Counted, Ending
  <2>6. Repeating(t)'
    BY <1>3, <2>1, <2>2, <2>3 DEF Repeating
  <2>7. TrailOf(t)' = IF place[t] = 0 /\ exp.random
                      THEN <<"bcast", "comm_create">> ELSE <<"comm_create">>
    BY <1>1, <2>1, <2>2 DEF TrailOf, Reduce
  <2>8. Entered("create") = <<"comm_create">>
    BY EnteredAt
  <2>9. TrailOf(t)' = TrailOf(t) \o Entered("create")
    <3>1. CASE place[t] = 0 /\ exp.random
      BY <1>4, <2>7, <2>8, <3>1, Joined
    <3>2. CASE ~(place[t] = 0 /\ exp.random)
      BY <1>4, <2>7, <2>8, <3>2, Joined
    <3> QED BY <3>1, <3>2
  <2>10. Communicating(t)'
    <3>1. InnerOf(t)' = <<>> /\ CommOf(t)' = "world"
      BY <2>2, <2>3 DEF InnerOf, CommOf
    <3> QED BY <1>1, <1>3, <2>2, <2>9, <3>1 DEF Communicating, Reduce
  <2> QED BY <1>2, <2>3, <2>4, <2>5, <2>6, <2>10 DEF Moves
<1>6. CASE EndRuns(t)
  <2>1. /\ Goto(t, "run", LeaveRepl)
        /\ place' = place /\ rept' = rept /\ repl' = repl /\ ~rerr'[t]
        /\ place[t] = Len(exp.runs)
    BY <1>3, <1>6 DEF EndRuns, TypeOK
  <2>2. /\ LeaveRepl \in {"repl_summary", "repl_end"}
        /\ LeaveRepl = "repl_summary" <=> exp.verbose
        /\ Entered(LeaveRepl) =
             IF exp.verbose THEN <<"reduce">> ELSE <<"barrier">>
    BY Leaves DEF TypeOK
  <2>3. /\ pc'[t] = LeaveRepl /\ trail'[t] = trail[t] \o Entered(LeaveRepl)
        /\ inner'[t] = inner[t]
    <3>1. /\ pc'[t] = LeaveRepl /\ trail'[t] = trail[t] \o Entered(LeaveRepl)
          /\ inner'[t] = IF LeaveRepl \in OnRun
                         THEN Append(inner[t], LeaveRepl) ELSE inner[t]
      BY <2>1, GotoFacts
    <3> QED BY <2>2, <3>1 DEF OnRun
  <2>4. ~Ahead(t)' /\ ~Executing(t)' /\ ~OnRunComm(t)'
    BY <2>2, <2>3 DEF Ahead, Executing, OnRunComm, Ending
  <2>5. Steady(t)
    BY <1>1, <1>2, <2>1, <2>2, <2>3, <2>4 DEF Steady, Replication, Ran
  <2>6. Counted(t)'
    BY <1>1, <1>3, <2>1, <2>2, <2>3, <2>4 DEF Counted, Ending
  <2>7. Repeating(t)'
    BY <1>3, <2>1, <2>2, <2>3, <2>4 DEF Repeating
  <2>8. TrailOf(t)' = IF exp.verbose THEN <<"reduce">> ELSE <<"barrier">>
    BY <1>1, <2>2, <2>3 DEF TrailOf, Reduce
  <2>9. TrailOf(t) = <<>>
    BY <1>4, <2>1
  <2>10. TrailOf(t)' = TrailOf(t) \o Entered(LeaveRepl)
    BY <2>2, <2>8, <2>9, Joined
  <2>11. Communicating(t)'
    <3>1. InnerOf(t)' = <<>> /\ CommOf(t)' = "world"
      BY <2>2, <2>3, <2>4 DEF InnerOf, CommOf
    <3> QED BY <1>1, <1>3, <2>2, <2>3, <2>10, <3>1 DEF Communicating, Reduce
  <2> QED BY <1>2, <2>4, <2>5, <2>6, <2>7, <2>11 DEF Moves
<1> QED BY <1>5, <1>6

\* A repetition begins, or the last has ended.
LEMMA MovesOnRun ==
  ASSUME TypeOK, NEW t \in Task, Placed(t), Repeat(t) \/ EndRepetitions(t)
  PROVE  Moves(t)
<1>1. /\ pc[t] = "rept" /\ exp' = exp /\ comm' = comm /\ rerr' = rerr
      /\ repl' = repl /\ order' = order /\ place' = place
  BY GotoFacts DEF Repeat, EndRepetitions, loopVars
<1>2. ~Ahead(t) /\ Executing(t) /\ OnRunComm(t)
  BY <1>1 DEF Ahead, Executing, OnRunComm, Ending
<1>3. Run(t)' = Run(t)
  BY <1>1 DEF Run
<1>4. /\ place[t] > 0 /\ place[t] <= Len(exp.runs)
      /\ rept[t] <= Run(t).num_repetitions /\ Includes(Run(t), t)
      /\ inner[t] = <<>> /\ comm[t] = "run" /\ trail[t] = <<>>
  BY <1>1, <1>2 DEF Placed, Counted, Repeating, Communicating, InnerOf, CommOf,
                    TrailOf, Reduce
<1>5. Run(t).num_repetitions \in Nat /\ rept[t] \in Nat /\ rerr[t] \in BOOLEAN
  BY <1>4, RunFacts DEF TypeOK
<1> DEFINE to == IF Repeat(t) THEN "rept_end" ELSE "comm_free"
<1>6. Goto(t, "rept", to)
  BY DEF Repeat, EndRepetitions
<1>7. /\ pc'[t] = to /\ trail'[t] = trail[t] \o Entered(to)
      /\ inner'[t] = IF to \in OnRun THEN Append(inner[t], to) ELSE inner[t]
  BY <1>6, GotoFacts
<1>8. to \in {"rept_end", "comm_free"}
  OBVIOUS
<1>9. /\ to = "rept_end" => rept'[t] = rept[t] + 1 /\ More(t)
      /\ to = "comm_free" => rept'[t] = rept[t] /\ ~More(t)
  BY DEF Repeat, EndRepetitions, loopVars, TypeOK
<1> HIDE DEF to
<1>10. ~Ahead(t)' /\ Executing(t)' /\ OnRunComm(t)'
  BY <1>7, <1>8 DEF Ahead, Executing, OnRunComm, Ending
<1>11. Steady(t)
  BY <1>1, <1>2, <1>7, <1>8, <1>10 DEF Steady, Replication, Ran
<1>12. Counted(t)'
  BY <1>1, <1>2, <1>7, <1>8, <1>10 DEF Counted, Placed, Ending
<1>13. RepeatedBy(t)' = RepeatedBy(t)
  BY <1>1, <1>5, <1>7, <1>8, <1>9 DEF RepeatedBy
<1>14. Repeating(t)'
  <2>1. Includes(Run(t), t)'
    BY <1>3, <1>4 DEF Includes
  <2>2. CASE to = "rept_end"
    BY <1>1, <1>3, <1>5, <1>7, <1>9, <1>10, <2>1, <2>2 DEF Repeating, More
  <2>3. CASE to = "comm_free"
    BY <1>1, <1>3, <1>4, <1>5, <1>7, <1>9, <1>10, <2>1, <2>3
       DEF Repeating, More
  <2> QED BY <1>8, <2>2, <2>3
<1>15. Communicating(t)'
  <2>1. TrailOf(t)' = <<>>
    BY <1>7, <1>8 DEF TrailOf, Reduce
  <2>2. trail'[t] = <<>>
    BY <1>4, <1>7, <1>8, EnteredAt, Joined
  <2>3. InnerOf(t)' = <<to>> /\ inner'[t] = <<to>>
    BY <1>4, <1>7, <1>8, Joined DEF InnerOf, OnRun
  <2>4. CommOf(t)' = "run"
    BY <1>10 DEF CommOf
  <2> QED BY <1>1, <1>4, <1>7, <1>8, <2>1, <2>2, <2>3, <2>4
          DEF Communicating, Reduce
<1> QED BY <1>1, <1>2, <1>3, <1>10, <1>11, <1>12, <1>13, <1>14, <1>15 DEF Moves

\* A task that a run left out goes on to its end, and the summaries of a run
\* and of a replication end.
LEMMA MovesToEnd ==
  ASSUME TypeOK, NEW t \in Task, Placed(t),
         LeftOut(t) \/ RunSummary(t) \/ ReplSummary(t)
  PROVE  Moves(t)
<1> exp.verbose \in BOOLEAN
  BY ExpFacts DEF TypeOK
<1>1. /\ exp' = exp /\ repl' = repl /\ order' = order /\ place' = place
      /\ rept' = rept /\ rerr' = rerr
  BY DEF LeftOut, RunSummary, ReplSummary, loopVars
<1> DEFINE from == IF LeftOut(t) THEN "left_out"
                   ELSE IF RunSummary(t) THEN "run_summary"
                   ELSE "repl_summary"
           to == IF LeftOut(t) THEN LeaveRun
                 ELSE IF RunSummary(t) THEN "run_end" ELSE "repl_end"
<1>2. Goto(t, from, to)
  BY DEF LeftOut, RunSummary, ReplSummary
<1>3. /\ pc[t] = from /\ pc'[t] = to /\ trail'[t] = trail[t] \o Entered(to)
      /\ inner'[t] = IF to \in OnRun THEN Append(inner[t], to) ELSE inner[t]
  BY <1>2, GotoFacts
<1>4. \/ from = "left_out" /\ to = "run_summary" /\ exp.verbose
      \/ from = "left_out" /\ to = "run_end" /\ ~exp.verbose
      \/ from = "run_summary" /\ to = "run_end"
      \/ from = "repl_summary" /\ to = "repl_end"
  BY Leaves DEF TypeOK
<1>5. comm'[t] = "world"
  <2>1. CASE LeftOut(t)
    BY <2>1 DEF LeftOut, Placed, Communicating, CommOf, TypeOK
  <2>2. CASE ~LeftOut(t)
    BY <1>3, <2>2 DEF RunSummary, ReplSummary, Placed, Communicating, CommOf,
                      OnRunComm
  <2> QED BY <2>1, <2>2
<1> HIDE DEF from, to
<1>6. /\ ~Ahead(t) /\ ~Ahead(t)'
      /\ Executing(t)' <=> Executing(t)
      /\ Executing(t) <=> from # "repl_summary"
      /\ ~OnRunComm(t) /\ ~OnRunComm(t)'
  BY <1>3, <1>4 DEF Ahead, Executing, OnRunComm, Ending
<1>7. Steady(t)
  BY <1>1, <1>3, <1>4, <1>6 DEF Steady, Replication, Ran
<1>8. Counted(t)'
  BY <1>1, <1>3, <1>4, <1>6 DEF Counted, Placed, Ending
<1>9. Repeating(t)'
  BY <1>1, <1>3, <1>4, <1>6 DEF Repeating, Placed
<1>10. Communicating(t)'
  <2>1. trail[t] = IF from = "left_out" THEN <<>> ELSE <<"reduce">>
    BY <1>3, <1>4 DEF Placed, Communicating, TrailOf, Reduce
  <2>2. from # "left_out" => exp.verbose
    BY <1>3, <1>4 DEF Placed, Communicating, Reduce
  <2>3. Entered(to) = IF to = "run_summary" THEN <<"reduce">> ELSE <<"barrier">>
    BY <1>4, EnteredAt DEF Reduce
  <2>4. TrailOf(t)' = IF to = "run_summary" THEN <<"reduce">>
                      ELSE IF exp.verbose THEN <<"reduce", "barrier">>
                      ELSE <<"barrier">>
    BY <1>1, <1>3, <1>4 DEF TrailOf, Reduce
  <2>5. trail'[t] = TrailOf(t)'
    <3>1. CASE from = "left_out"
      BY <1>3, <1>4, <2>1, <2>3, <2>4, <3>1, Joined
    <3>2. CASE from # "left_out"
      BY <1>3, <1>4, <2>1, <2>2, <2>3, <2>4, <3>2, Joined
    <3> QED BY <3>1, <3>2
  <2>6. InnerOf(t)' = <<>> /\ inner'[t] = <<>>
    BY <1>3, <1>4 DEF InnerOf, OnRun, Placed, Communicating
  <2>7. CommOf(t)' = "world"
    BY <1>3, <1>4, <1>6 DEF CommOf
  <2> QED BY <1>1, <1>3, <1>4, <1>5, <2>5, <2>6, <2>7
          DEF Communicating, Reduce, Placed
<1> QED BY <1>6, <1>7, <1>8, <1>9, <1>10 DEF Moves

LEMMA TaskStepMoves ==
  ASSUME TypeOK, NEW t \in Task, Placed(t), TaskStep(t)
  PROVE  Moves(t)
BY StartsReplication, MovesAhead, MovesToRun, MovesOnRun, MovesToEnd
   DEF TaskStep

-------------------------------------------------------------------------------
(* The invariant holds of the tasks together.                              *)

LEMMA InitIInv == Init => IInv
<1> SUFFICES ASSUME Init PROVE IInv
  OBVIOUS
<1> USE DEF Init
<1>1. exp \in Exps
  OBVIOUS
<1>2. Given \in Sequential!Orders
  BY <1>1, GivenIsOrder
<1>3. "replication" \in Label
  BY LabelFacts
<1>4. TypeOK
  BY <1>2, <1>3 DEF TypeOK
<1>5. ASSUME NEW t \in Task
      PROVE  /\ Ahead(t) /\ ~Executing(t) /\ ~OnRunComm(t)
             /\ Replication(t) = 1 /\ Ran(t) = 0 /\ pc[t] = "replication"
  BY DEF Ahead, Executing, OnRunComm, Replication, Ran
<1>6. ASSUME NEW t \in Task
      PROVE  Placed(t)
  <2>1. Counted(t)
    BY <1>1, <1>5, ExpFacts DEF Counted, Ending
  <2>2. Repeating(t)
    BY <1>5 DEF Repeating
  <2>3. Communicating(t)
    BY <1>5 DEF Communicating, TrailOf, InnerOf, CommOf, Reduce
  <2> QED BY <2>1, <2>2, <2>3 DEF Placed
<1>7. Aligned /\ Ordered /\ SeedSent
  BY <1>5 DEF Aligned, Beside, Ordered, SeedSent
<1>8. MembersWhole /\ MembersAgree
  BY <1>5 DEF MembersWhole, MembersAgree
<1>9. RecordsCommitted
  BY MasterIsTask DEF RecordsCommitted
<1> QED BY <1>4, <1>6, <1>7, <1>8, <1>9 DEF IInv

\* All tasks leave a collective of the world from the same label, although
\* Release only asks that they wait in one.
LEMMA ReleaseTogether ==
  ASSUME IInv, Release
  PROVE  \E l \in OnWorld : \A t \in Task : pc[t] = l
<1>1. pc[Master] \in OnWorld
  BY MasterIsTask DEF Release
<1>2. ASSUME NEW t \in Task
      PROVE  pc[t] = pc[Master]
  <2>1. pc[t] \in OnWorld /\ Placed(t) /\ Placed(Master)
        /\ Beside(t, Master)
    BY MasterIsTask DEF Release, IInv, Aligned
  <2>2. /\ repl[t] \in Nat /\ repl[Master] \in Nat
        /\ place[t] \in Nat /\ place[Master] \in Nat
        /\ Len(exp.runs) \in Nat /\ exp.num_replications \in Nat
    BY MasterIsTask, ExpFacts DEF IInv, TypeOK
  <2> QED BY <1>1, <2>1, <2>2
          DEF Beside, Replication, Ran, Ahead, Executing, OnRunComm, Ending,
              Placed, Counted, OnWorld
<1> QED BY <1>1, <1>2

\* What holds of a task with a place in a run, seen from another one there.
LEMMA SameRun ==
  ASSUME IInv, NEW t \in Task, NEW u \in Task,
         \/ Executing(t) /\ Executing(u)
         \/ pc[t] = "create" /\ pc[u] = "create"
  PROVE  /\ repl[t] = repl[u] /\ place[t] = place[u] /\ order[t] = order[u]
         /\ Run(t) = Run(u)
<1>1. ~Ahead(t) /\ ~Ahead(u)
  BY DEF Ahead, Executing, OnRunComm, Ending
<1>2. order[t] = seed /\ order[u] = seed
  BY <1>1 DEF IInv, Ordered
<1>3. repl[t] = repl[u]
  BY <1>1 DEF IInv, Aligned, Beside, Replication
<1>4. place[t] \in Nat /\ place[u] \in Nat /\ Ran(t) = Ran(u)
  BY DEF IInv, TypeOK, Aligned, Beside
<1>5. place[t] = place[u]
  BY <1>1, <1>4 DEF Ran
<1> QED BY <1>2, <1>3, <1>5 DEF Run

-------------------------------------------------------------------------------
(* The steps of a task.                                                    *)

\* No task steps back to the beginning of a replication, and only the start of
\* one takes a task that is ahead into it.
LEMMA StepLabels ==
  ASSUME TypeOK, NEW t \in Task, TaskStep(t)
  PROVE  /\ pc'[t] # "replication"
         /\ Ahead(t) /\ ~Replicate(t) /\ ~Shuffle(t) => Ahead(t)'
<1> USE GotoFacts DEF Ahead, Ending
<1>1. CASE Replicate(t) \/ Shuffle(t)
  BY <1>1 DEF Replicate, Shuffle
<1>2. CASE DrawSeed(t)
  BY <1>2 DEF DrawSeed
<1>3. CASE EndReplications(t)
  <2>1. pc'[t] = LeaveExp
    BY <1>3 DEF EndReplications
  <2> QED BY <2>1 DEF LeaveExp
<1>4. CASE BeginRun(t)
  BY <1>4 DEF BeginRun
<1>5. CASE EndRuns(t)
  <2>1. pc[t] = "run" /\ pc'[t] = LeaveRepl
    BY <1>5 DEF EndRuns
  <2> QED BY <2>1 DEF LeaveRepl
<1>6. CASE LeftOut(t)
  <2>1. pc[t] = "left_out" /\ pc'[t] = LeaveRun
    BY <1>6 DEF LeftOut
  <2> QED BY <2>1 DEF LeaveRun
<1>7. CASE Repeat(t) \/ EndRepetitions(t)
  BY <1>7 DEF Repeat, EndRepetitions
<1>8. CASE RunSummary(t)
  BY <1>8 DEF RunSummary
<1>9. CASE ReplSummary(t)
  BY <1>9 DEF ReplSummary
<1>10. CASE ExpSummary(t)
  BY <1>10 DEF ExpSummary
<1>11. CASE Export(t)
  <2>1. pc'[t] = IF exp.test_report THEN "verdict" ELSE "finalize"
    BY <1>11 DEF Export
  <2> QED BY <2>1
<1>12. CASE Verdict(t)
  BY <1>12 DEF Verdict
<1> QED BY <1>1, <1>2, <1>3, <1>4, <1>5, <1>6, <1>7, <1>8, <1>9, <1>10,
           <1>11, <1>12 DEF TaskStep

LEMMA InvTaskStep ==
  ASSUME IInv, NEW t \in Task, TaskStep(t)
  PROVE  IInv'
<1> USE MasterIsTask DEF IInv
<1>1. TypeOK'
  BY TypeTaskStep
<1>2. /\ exp' = exp /\ records' = records
      /\ \A u \in Task \ {t} : Untouched(u)
  BY OthersUntouched
<1>3. Moves(t)
  BY TaskStepMoves
<1>4. ASSUME NEW u \in Task
      PROVE  /\ Placed(u)' /\ Steady(u)
             /\ OnRunComm(u)' <=> OnRunComm(u)
             /\ OnRunComm(u) => /\ Run(u)' = Run(u)
                                /\ RepeatedBy(u)' = RepeatedBy(u)
                                /\ rerr'[u] = rerr[u]
  <2>1. CASE u = t
    BY <1>3, <2>1 DEF Moves, Placed
  <2>2. CASE u # t
    BY <1>2, <2>2, UntouchedPlace DEF Untouched
  <2> QED BY <2>1, <2>2
<1>5. Aligned'
  BY <1>4 DEF Aligned, Beside, Steady
<1>6. MembersWhole'
  <2> SUFFICES ASSUME NEW u \in Task, NEW w \in Task,
                      OnRunComm(u)', Includes(Run(u), w)'
               PROVE  OnRunComm(w)'
    BY DEF MembersWhole
  <2>1. OnRunComm(u) /\ Includes(Run(u), w)
    BY <1>4 DEF Includes
  <2> QED BY <1>4, <2>1 DEF MembersWhole
<1>7. MembersAgree'
  BY <1>4 DEF MembersAgree
<1>8. RecordsCommitted'
  BY <1>2 DEF RecordsCommitted
<1>9. \A u \in Task \ {t} : (Ahead(u)' <=> Ahead(u)) /\ order'[u] = order[u]
  BY <1>2, UntouchedPlace DEF Untouched
<1>10. SeedSent'
  <2> SUFFICES ASSUME exp.random, pc'[Master] = "replication"
               PROVE  \A u \in Task : Ahead(u)'
    BY <1>2 DEF SeedSent
  <2>1. pc'[t] # "replication"
    BY StepLabels
  <2>2. t # Master /\ pc[Master] = "replication"
    BY <1>2, <2>1 DEF Untouched
  <2>3. \A u \in Task : Ahead(u)
    BY <2>2 DEF SeedSent
  <2>4. Ahead(t)'
    <3>1. ~Shuffle(t)
      <4> SUFFICES ASSUME Shuffle(t) PROVE FALSE
        OBVIOUS
      <4>1. pc[t] = "order" /\ Placed(t) /\ Placed(Master)
        BY GotoFacts DEF Shuffle
      <4>2. trail[t] = <<"bcast">> /\ trail[Master] = <<>>
        BY <2>2, <4>1 DEF Placed, Communicating, TrailOf, Reduce
      <4>3. Len(trail[Master]) >= Len(trail[t])
        BY DEF Shuffle, HasSent
      <4> QED BY <4>2, <4>3
    <3>2. ~Replicate(t)
      BY <1>2 DEF Replicate
    <3> QED BY <2>3, <3>1, <3>2, StepLabels
  <2> QED BY <1>9, <2>3, <2>4
<1>11. Ordered'
  <2>1. CASE DrawSeed(t)
    <3>1. Ahead(t) /\ Ahead(t)' /\ exp.random /\ order' = order
      BY <2>1, GotoFacts DEF DrawSeed, Ahead, loopVars
    <3>2. CASE t = Master
      <4>1. \A u \in Task : Ahead(u)
        BY <2>1, <3>1, <3>2, GotoFacts DEF SeedSent, DrawSeed
      <4> QED BY <1>9, <3>1, <4>1 DEF Ordered
    <3>3. CASE t # Master
      BY <1>9, <2>1, <3>1, <3>3 DEF Ordered, DrawSeed
    <3> QED BY <3>2, <3>3
  <2>2. CASE ~DrawSeed(t)
    <3>1. seed' = seed
      BY <2>2 DEF TaskStep, Replicate, Shuffle, EndReplications,
            BeginRun, EndRuns, LeftOut, Repeat, EndRepetitions, RunSummary,
            ReplSummary, ExpSummary, Export, Verdict
    <3>2. ~Ahead(t)' => order'[t] = seed
      <4>1. CASE Replicate(t)
        <5>1. PICK o \in Orders : StartReplication(t, o)
          BY <4>1 DEF Replicate
        <5>2. Orders = {Given} /\ Sequential!Orders = {Given}
          BY <4>1, GivenIsOrder DEF Replicate, Orders, TypeOK
        <5> QED BY <5>1, <5>2 DEF StartReplication, TypeOK
      <4>2. CASE Shuffle(t)
        BY <4>2 DEF Shuffle, StartReplication, TypeOK
      <4>3. CASE ~Replicate(t) /\ ~Shuffle(t)
        <5>1. order' = order
          BY <2>2, <4>3 DEF TaskStep, EndReplications,
                BeginRun, EndRuns, LeftOut, Repeat, EndRepetitions, RunSummary,
                ReplSummary, ExpSummary, Export, Verdict, loopVars
        <5>2. Ahead(t) => Ahead(t)'
          BY <4>3, StepLabels
        <5> QED BY <5>1, <5>2 DEF Ordered
      <4> QED BY <4>1, <4>2, <4>3
    <3> QED BY <1>9, <3>1, <3>2 DEF Ordered
  <2> QED BY <2>1, <2>2
<1> QED BY <1>1, <1>4, <1>5, <1>6, <1>7, <1>8, <1>10, <1>11

-------------------------------------------------------------------------------
(* The steps of all tasks, and of those of a run.                          *)

\* What a release does of each task, which is in the collective of label l.
LEMMA ReleaseFacts ==
  ASSUME IInv, Release, NEW l \in OnWorld, \A t \in Task : pc[t] = l
  PROVE  /\ exp' = exp /\ repl' = repl /\ order' = order /\ place' = place
         /\ rept' = rept /\ rerr' = rerr /\ seed' = seed /\ records' = records
         /\ \A t \in Task :
              /\ l = "create" => pc'[t] = IF Includes(Run(t), t) THEN "rept"
                                                               ELSE "left_out"
              /\ l = "run_end" => pc'[t] = "run"
              /\ l = "repl_end" => pc'[t] = "replication"
              /\ l = "finalize" => pc'[t] = "done"
              /\ trail'[t] = <<>> /\ inner'[t] = <<>>
              /\ comm'[t] = IF pc'[t] = "rept" THEN "run"
                            ELSE IF pc'[t] = "left_out" THEN "null" ELSE "world"
              /\ Run(t)' = Run(t)
<1>1. /\ exp' = exp /\ repl' = repl /\ order' = order /\ place' = place
      /\ rept' = rept /\ rerr' = rerr /\ seed' = seed /\ records' = records
      /\ inner' = inner
  BY DEF Release, loopVars
<1>2. ASSUME NEW t \in Task
      PROVE  AfterWorld(t) = CASE l = "create" -> IF Includes(Run(t), t)
                                                 THEN "rept" ELSE "left_out"
                               [] l = "run_end"  -> "run"
                               [] l = "repl_end" -> "replication"
                               [] l = "finalize" -> "done"
  BY DEF AfterWorld, OnWorld
<1>3. ASSUME NEW t \in Task
      PROVE  inner[t] = <<>> /\ comm[t] = "world"
  BY DEF IInv, Placed, Communicating, InnerOf, CommOf, OnRunComm, OnWorld
<1>4. ASSUME NEW t \in Task
      PROVE  pc'[t] = AfterWorld(t) /\ trail'[t] = <<>>
  BY DEF Release
<1>5. ASSUME NEW t \in Task
      PROVE  comm'[t] = CASE AfterWorld(t) = "rept"     -> "run"
                          [] AfterWorld(t) = "left_out" -> "null"
                          [] OTHER                      -> comm[t]
  BY DEF Release
<1>6. \A t \in Task : Run(t)' = Run(t)
  BY <1>1 DEF Run
<1> QED BY <1>1, <1>2, <1>3, <1>4, <1>5, <1>6

LEMMA TypeRelease ==
  ASSUME IInv, Release
  PROVE  TypeOK'
<1>1. PICK l \in OnWorld : \A t \in Task : pc[t] = l
  BY ReleaseTogether
<1>2. ASSUME NEW t \in Task PROVE pc'[t] \in Label
  BY <1>1, ReleaseFacts, LabelFacts DEF OnWorld
<1>3. pc' \in [Task -> Label]
  BY <1>2 DEF Release
<1>4. Sequential!Orders' = Sequential!Orders
  BY DEF Release, Sequential!Orders, Sequential!RunIds
<1> QED BY <1>3, <1>4 DEF Release, TypeOK, IInv, loopVars, endVars

LEMMA InvRelease ==
  ASSUME IInv, Release
  PROVE  IInv'
<1>1. PICK l \in OnWorld : \A t \in Task : pc[t] = l
  BY ReleaseTogether
<1> DEFINE R ==
      /\ exp' = exp /\ repl' = repl /\ order' = order /\ place' = place
      /\ rept' = rept /\ rerr' = rerr /\ seed' = seed /\ records' = records
<1>2. R
  BY <1>1, ReleaseFacts
<1>3. ASSUME NEW t \in Task
      PROVE  /\ l = "create" => pc'[t] = IF Includes(Run(t), t) THEN "rept"
                                                               ELSE "left_out"
             /\ l = "run_end" => pc'[t] = "run"
             /\ l = "repl_end" => pc'[t] = "replication"
             /\ l = "finalize" => pc'[t] = "done"
             /\ trail'[t] = <<>> /\ inner'[t] = <<>>
             /\ comm'[t] = IF pc'[t] = "rept" THEN "run"
                           ELSE IF pc'[t] = "left_out" THEN "null" ELSE "world"
             /\ Run(t)' = Run(t)
  BY <1>1, ReleaseFacts
<1>4. l \in {"create", "run_end", "repl_end", "finalize"}
  BY DEF OnWorld
<1>5. ASSUME NEW t \in Task
      PROVE  /\ pc[t] = l /\ Placed(t)
             /\ repl[t] \in Nat /\ place[t] \in Nat /\ rept[t] \in Nat
             /\ Len(exp.runs) \in Nat /\ exp.num_replications \in Nat \ {0}
  BY <1>1, ExpFacts DEF IInv, TypeOK
<1>6. ASSUME NEW t \in Task
      PROVE  /\ Ahead(t)' <=> l \in {"repl_end", "finalize"}
             /\ Executing(t)' <=> l = "create"
             /\ OnRunComm(t)' <=> (l = "create" /\ Includes(Run(t), t))
             /\ Ahead(t) <=> l = "finalize"
             /\ Executing(t) <=> l = "run_end"
             /\ ~OnRunComm(t)
  BY <1>3, <1>4, <1>5 DEF Ahead, Executing, OnRunComm, Ending
<1>7. ASSUME NEW t \in Task
      PROVE  Counted(t)'
  BY <1>2, <1>3, <1>4, <1>5, <1>6 DEF Placed, Counted, Ending
<1>8. ASSUME NEW t \in Task
      PROVE  Repeating(t)'
  <2>1. ~rerr[t] /\ (l = "create" => rept[t] = 0)
    BY <1>5, <1>6 DEF Placed, Repeating
  <2>2. CASE l = "create"
    <3>1. Run(t).num_repetitions \in Nat
      BY <1>5, <2>2, RunFacts DEF IInv, Placed, Counted
    <3>2. Includes(Run(t), t)' <=> Includes(Run(t), t)
      BY <1>3 DEF Includes
    <3>3. pc'[t] \in {"rept", "left_out"}
      BY <1>3, <2>2
    <3> QED BY <1>2, <1>3, <1>5, <1>6, <2>1, <2>2, <3>1, <3>2, <3>3
            DEF Repeating
  <2>3. CASE l # "create"
    BY <1>2, <1>3, <1>4, <1>6, <2>1, <2>3 DEF Repeating
  <2> QED BY <2>2, <2>3
<1>9. ASSUME NEW t \in Task
      PROVE  Communicating(t)'
  <2>1. CASE l = "create"
    <3>1. pc'[t] \in {"rept", "left_out"}
      BY <1>3, <2>1
    <3>2. TrailOf(t)' = <<>> /\ InnerOf(t)' = <<>>
      BY <3>1 DEF TrailOf, InnerOf, Reduce
    <3>3. CommOf(t)' = comm'[t]
      BY <1>3, <3>1 DEF CommOf, OnRunComm
    <3> QED BY <1>3, <3>1, <3>2, <3>3 DEF Communicating, Reduce
  <2>2. CASE l = "run_end"
    <3>1. pc'[t] = "run" /\ place[t] > 0
      BY <1>3, <1>5, <1>6, <2>2 DEF Placed, Counted
    <3>2. TrailOf(t)' = <<>> /\ InnerOf(t)' = <<>>
      BY <1>2, <1>5, <3>1 DEF TrailOf, InnerOf, Reduce
    <3>3. CommOf(t)' = "world" /\ comm'[t] = "world"
      BY <1>3, <3>1 DEF CommOf, OnRunComm
    <3> QED BY <1>3, <3>1, <3>2, <3>3 DEF Communicating, Reduce
  <2>3. CASE l \in {"repl_end", "finalize"}
    <3>1. pc'[t] \in {"replication", "done"}
      BY <1>3, <2>3
    <3>2. TrailOf(t)' = <<>> /\ InnerOf(t)' = <<>>
      BY <3>1 DEF TrailOf, InnerOf, Reduce
    <3>3. CommOf(t)' = "world" /\ comm'[t] = "world"
      BY <1>3, <3>1 DEF CommOf, OnRunComm
    <3> QED BY <1>3, <3>1, <3>2, <3>3 DEF Communicating, Reduce
  <2> QED BY <1>4, <2>1, <2>2, <2>3
<1>10. ASSUME NEW t \in Task, NEW u \in Task
       PROVE  Beside(t, u)'
  <2>1. Beside(t, u)
    BY DEF IInv, Aligned
  <2>2. repl[t] = repl[u]
    BY <1>5, <1>6, <2>1 DEF Beside, Replication
  <2>3. l \in {"create", "run_end"} => place[t] = place[u]
    BY <1>4, <1>5, <1>6, <2>1 DEF Beside, Ran
  <2>4. Replication(t)' = Replication(u)'
    BY <1>2, <1>6, <2>2 DEF Replication
  <2>5. pc'[t] = "done" <=> pc'[u] = "done"
    BY <1>3, <1>4
  <2>6. Ran(t)' = Ran(u)'
    <3>1. CASE l \in {"create", "run_end"}
      <4>1. pc'[t] # "create" /\ pc'[u] # "create"
        BY <1>3, <3>1
      <4> QED BY <1>2, <1>6, <2>3, <3>1, <4>1 DEF Ran
    <3>2. CASE l \in {"repl_end", "finalize"}
      BY <1>6, <3>2 DEF Ran
    <3> QED BY <1>4, <3>1, <3>2
  <2>7. Executing(t)' <=> Executing(u)'
    BY <1>6
  <2> QED BY <2>4, <2>5, <2>6, <2>7 DEF Beside
<1>11. Ordered'
  <2>1. \A t \in Task : ~Ahead(t)' => ~Ahead(t)
    BY <1>6
  <2> QED BY <1>2, <2>1 DEF IInv, Ordered
<1>12. SeedSent'
  <2> SUFFICES ASSUME pc'[Master] = "replication"
               PROVE  \A t \in Task : Ahead(t)'
    BY DEF SeedSent
  <2>1. l = "repl_end"
    BY <1>3, <1>4, MasterIsTask
  <2> QED BY <1>6, <2>1
<1>13. MembersWhole'
  <2> SUFFICES ASSUME NEW t \in Task, NEW u \in Task,
                      OnRunComm(t)', Includes(Run(t), u)'
               PROVE  OnRunComm(u)'
    BY DEF MembersWhole
  <2>1. l = "create" /\ Includes(Run(t), u)
    BY <1>3, <1>6 DEF Includes
  <2>2. Run(t) = Run(u)
    BY <1>5, <2>1, SameRun
  <2> QED BY <1>6, <2>1, <2>2
<1>14. MembersAgree'
  <2> SUFFICES ASSUME NEW t \in Task, NEW u \in Task,
                      OnRunComm(t)', OnRunComm(u)'
               PROVE  RepeatedBy(t)' = RepeatedBy(u)' /\ rerr'[t] = rerr'[u]
    BY DEF MembersAgree
  <2>1. l = "create" /\ pc'[t] = "rept" /\ pc'[u] = "rept"
    BY <1>3, <1>6
  <2>2. rept[t] = 0 /\ rept[u] = 0 /\ ~rerr[t] /\ ~rerr[u]
    BY <1>5, <1>6, <2>1 DEF Placed, Repeating
  <2>3. rerr[t] = rerr[u]
    BY <2>2 DEF IInv, TypeOK
  <2> QED BY <1>2, <2>1, <2>2, <2>3 DEF RepeatedBy
<1>15. RecordsCommitted'
  BY <1>2 DEF IInv, RecordsCommitted
<1> QED BY <1>7, <1>8, <1>9, <1>10, <1>11, <1>12, <1>13, <1>14, <1>15,
           TypeRelease DEF IInv, Placed, Aligned

\* The communicator of a run has those that are at its labels, and when there
\* is one all tasks execute the same run and it has those the run uses.
LEMMA MembersFacts ==
  ASSUME IInv
  PROVE  /\ \A t \in Task : t \in Members <=> OnRunComm(t)
         /\ Members # {} =>
              /\ \A t, u \in Task : Run(t) = Run(u) /\ place[t] = place[u]
                                    /\ repl[t] = repl[u] /\ order[t] = order[u]
              /\ \A t \in Task : /\ Executing(t) /\ ~Ahead(t)
                                 /\ t \in Members <=> Includes(Run(t), t)
              /\ Master \in Members
<1>1. ASSUME NEW t \in Task
      PROVE  t \in Members <=> OnRunComm(t)
  BY DEF IInv, Placed, Communicating, CommOf, Members
<1> SUFFICES ASSUME NEW m \in Members
             PROVE  /\ \A t, u \in Task :
                          Run(t) = Run(u) /\ place[t] = place[u]
                            /\ repl[t] = repl[u] /\ order[t] = order[u]
                    /\ \A t \in Task : /\ Executing(t) /\ ~Ahead(t)
                                       /\ t \in Members <=> Includes(Run(t), t)
                    /\ Master \in Members
  BY <1>1
<1>2. m \in Task /\ OnRunComm(m)
  BY <1>1 DEF Members
<1>3. ASSUME NEW t \in Task
      PROVE  Executing(t) /\ ~Ahead(t)
  <2>1. Executing(m) /\ Beside(m, t)
    BY <1>2 DEF Executing, IInv, Aligned
  <2>2. Executing(t)
    BY <2>1 DEF Beside
  <2> QED BY <2>2 DEF Executing, OnRunComm, Ahead, Ending
<1>4. \A t, u \in Task : Run(t) = Run(u) /\ place[t] = place[u]
                           /\ repl[t] = repl[u] /\ order[t] = order[u]
  BY <1>3, SameRun
<1>5. ASSUME NEW t \in Task
      PROVE  t \in Members <=> Includes(Run(t), t)
  <2>1. OnRunComm(t) => Includes(Run(t), t)
    BY DEF IInv, Placed, Repeating
  <2>2. Includes(Run(t), t) => OnRunComm(t)
    <3>1. Run(m) = Run(t)
      BY <1>2, <1>4
    <3> QED BY <1>2, <3>1 DEF IInv, MembersWhole
  <2> QED BY <1>1, <2>1, <2>2
<1>6. Master \in Members
  <2>1. place[Master] > 0 /\ place[Master] <= Len(exp.runs)
    BY <1>3, MasterIsTask DEF IInv, Placed, Counted
  <2>2. Run(Master).num_tasks \in Nat \ {0}
    BY <2>1, MasterIsTask, RunFacts DEF IInv
  <2>3. Includes(Run(Master), Master)
    BY <2>2 DEF Includes, Master
  <2> QED BY <1>5, <2>3, MasterIsTask
<1> QED BY <1>3, <1>4, <1>5, <1>6

\* Members of a run stand side by side after a step of theirs that leaves the
\* loops: what it means for all tasks.
LEMMA MembersStep ==
  ASSUME IInv, Members # {}, NEW l,
         exp' = exp, repl' = repl, order' = order, place' = place, rept' = rept,
         seed' = seed,
         l \in {"rept", "run_summary", "run_end"},
         \A t \in Task : pc'[t] = IF t \in Members THEN l ELSE pc[t]
  PROVE  /\ \A t \in Task : Counted(t)' /\ Run(t)' = Run(t)
         /\ Aligned' /\ Ordered' /\ SeedSent'
         /\ \A t \in Task : OnRunComm(t)' <=> (t \in Members /\ l = "rept")
<1>1. ASSUME NEW t \in Task
      PROVE  Executing(t) /\ ~Ahead(t) /\ Counted(t)
             /\ (t \in Members <=> OnRunComm(t))
  BY MembersFacts DEF IInv, Placed
<1>2. ASSUME NEW t \in Task
      PROVE  Executing(t)' /\ ~Ahead(t)'
             /\ (OnRunComm(t)' <=> (t \in Members /\ l = "rept"))
             /\ pc'[t] \notin {"create", "order", "replication", "repl_summary",
                               "repl_end", "done"} \cup Ending
             /\ pc[t] # "done"
  BY <1>1 DEF Executing, OnRunComm, Ahead, Ending
<1>3. ASSUME NEW t \in Task
      PROVE  Counted(t)'
  BY <1>1, <1>2 DEF Counted
<1>4. ASSUME NEW t \in Task
      PROVE  Run(t)' = Run(t)
  BY DEF Run
<1>5. ASSUME NEW t \in Task, NEW u \in Task
      PROVE  Beside(t, u)'
  <2>1. Beside(t, u)
    BY DEF IInv, Aligned
  <2>2. /\ Replication(t)' = Replication(t) /\ Ran(t)' = Ran(t)
        /\ Replication(u)' = Replication(u) /\ Ran(u)' = Ran(u)
    BY <1>1, <1>2 DEF Replication, Ran
  <2> QED BY <1>2, <2>1, <2>2 DEF Beside
<1>6. Ordered'
  BY <1>1, <1>2 DEF IInv, Ordered
<1>7. SeedSent'
  BY <1>2, MasterIsTask DEF SeedSent
<1> QED BY <1>2, <1>3, <1>4, <1>5, <1>6, <1>7 DEF Aligned

LEMMA InvReptEnd ==
  ASSUME IInv, ReptEnd
  PROVE  IInv'
<1>1. /\ Members # {} /\ \A t \in Members : pc[t] = "rept_end"
      /\ exp' = exp /\ repl' = repl /\ order' = order /\ place' = place
      /\ rept' = rept /\ seed' = seed /\ trail' = trail /\ comm' = comm
      /\ verdict' = verdict /\ result' = result
      /\ inner' = [t \in Task |-> <<>>]
      /\ pc' = [t \in Task |-> IF t \in Members THEN "rept" ELSE pc[t]]
  BY DEF ReptEnd, MembersIn, endVars
<1>2. PICK fails \in BOOLEAN :
        /\ rerr' = [t \in Task |-> IF t \in Members THEN fails ELSE rerr[t]]
        /\ records' = [t \in Task |->
             IF t \in Members /\ ~fails
             THEN records[t] \cup {<<repl[t], order[t][place[t]], rept[t]>>}
             ELSE records[t]]
  BY Zenon DEF ReptEnd
<1>3. /\ \A t \in Task : Counted(t)' /\ Run(t)' = Run(t)
      /\ Aligned' /\ Ordered' /\ SeedSent'
      /\ \A t \in Task : OnRunComm(t)' <=> t \in Members
  BY <1>1, MembersStep
<1>4. Members \subseteq Task
  BY DEF Members
<1>5. ASSUME NEW t \in Task
      PROVE  /\ Placed(t) /\ rept[t] \in Nat
             /\ pc'[t] = IF t \in Members THEN "rept" ELSE pc[t]
             /\ t \in Members <=> OnRunComm(t)
             /\ Includes(Run(t), t)' <=> Includes(Run(t), t)
             /\ rerr'[t] = IF t \in Members THEN fails ELSE rerr[t]
  BY <1>1, <1>2, <1>3, MembersFacts DEF IInv, TypeOK, Includes
<1>6. TypeOK'
  <2>1. pc' \in [Task -> Label]
    BY <1>1, LabelFacts DEF IInv, TypeOK
  <2>2. rerr' \in [Task -> BOOLEAN]
    BY <1>2 DEF IInv, TypeOK
  <2>3. Sequential!Orders' = Sequential!Orders
    BY <1>1 DEF Sequential!Orders, Sequential!RunIds
  <2> QED BY <1>1, <1>2, <2>1, <2>2, <2>3 DEF IInv, TypeOK
<1>7. ASSUME NEW t \in Task
      PROVE  Repeating(t)'
  <2>1. CASE t \in Members
    BY <1>1, <1>3, <1>5, <2>1 DEF Placed, Repeating
  <2>2. CASE t \notin Members
    BY <1>1, <1>3, <1>5, <2>2 DEF Placed, Repeating, OnRunComm
  <2> QED BY <2>1, <2>2
<1>8. ASSUME NEW t \in Task
      PROVE  Communicating(t)'
  <2>1. TrailOf(t)' = TrailOf(t)
    <3>1. CASE t \in Members
      BY <1>1, <1>5, <3>1 DEF TrailOf, Reduce
    <3>2. CASE t \notin Members
      BY <1>1, <1>5, <3>2 DEF TrailOf
    <3> QED BY <3>1, <3>2
  <2>2. InnerOf(t)' = <<>>
    BY <1>5 DEF InnerOf, OnRunComm
  <2>3. CommOf(t)' = CommOf(t)
    BY <1>3, <1>5 DEF CommOf
  <2> QED BY <1>1, <1>5, <2>1, <2>2, <2>3 DEF Placed, Communicating, Reduce
<1>9. MembersWhole'
  BY <1>3, <1>5, MembersFacts, <1>1 DEF MembersWhole, Includes
<1>10. MembersAgree'
  <2> SUFFICES ASSUME NEW t \in Members, NEW u \in Members
               PROVE  RepeatedBy(t)' = RepeatedBy(u)' /\ rerr'[t] = rerr'[u]
    BY <1>3 DEF MembersAgree
  <2>1. rept[t] - 1 = rept[u] - 1
    BY <1>1, <1>4, <1>5 DEF IInv, MembersAgree, RepeatedBy
  <2>2. rept[t] = rept[u]
    BY <1>4, <1>5, <2>1
  <2> QED BY <1>1, <1>4, <1>5, <2>2 DEF RepeatedBy
<1>11. RecordsCommitted'
  <2>1. Master \in Members /\ Master \in Task
    BY <1>1, MembersFacts, MasterIsTask
  <2>2. CASE fails
    BY <1>1, <1>2, <2>1, <2>2 DEF IInv, RecordsCommitted
  <2>3. CASE ~fails
    <3> DEFINE n == order[Master][place[Master]]
               new == <<repl[Master], n, rept[Master]>>
    <3>1. new[2] = n
      OBVIOUS
    <3>2. records'[Master] = records[Master] \cup {new}
      BY <1>2, <2>1, <2>3
    <3> SUFFICES ASSUME NEW t \in Task
                 PROVE  records'[t] =
                   {r \in records'[Master] : t < exp.runs[r[2]].num_tasks}
      BY <1>1 DEF RecordsCommitted
    <3>3. t \in Members <=> t < exp.runs[n].num_tasks
      <4>1. Run(t) = exp.runs[n]
        BY <1>1, <2>1, MembersFacts DEF Run
      <4> QED BY <1>1, <4>1, MembersFacts DEF Includes
    <3>4. records[t] = {r \in records[Master] : t < exp.runs[r[2]].num_tasks}
      BY DEF IInv, RecordsCommitted
    <3>5. CASE t \in Members
      <4>1. rept[t] = rept[Master]
        <5>1. rept[t] - 1 = rept[Master] - 1
          BY <1>1, <1>5, <2>1, <3>5 DEF IInv, MembersAgree, RepeatedBy
        <5> QED BY <1>5, <2>1, <5>1
      <4>2. repl[t] = repl[Master] /\ order[t][place[t]] = n
        BY <1>1, <2>1, MembersFacts
      <4>3. records'[t] = records[t] \cup {new}
        BY <1>2, <2>3, <3>5, <4>1, <4>2
      <4> HIDE DEF new, n
      <4> QED BY <3>1, <3>2, <3>3, <3>4, <3>5, <4>3
    <3>6. CASE t \notin Members
      <4>1. records'[t] = records[t]
        BY <1>2, <3>6
      <4> HIDE DEF new, n
      <4> QED BY <3>1, <3>2, <3>3, <3>4, <3>6, <4>1
    <3> QED BY <3>5, <3>6
  <2> QED BY <2>2, <2>3
<1> QED BY <1>3, <1>6, <1>7, <1>8, <1>9, <1>10, <1>11 DEF IInv, Placed

LEMMA InvCommFree ==
  ASSUME IInv, CommFree
  PROVE  IInv'
<1>1. /\ Members # {} /\ \A t \in Members : pc[t] = "comm_free"
      /\ exp' = exp /\ repl' = repl /\ order' = order /\ place' = place
      /\ rept' = rept /\ seed' = seed /\ records' = records
      /\ verdict' = verdict /\ result' = result
      /\ inner' = [t \in Task |-> <<>>]
      /\ pc' = [t \in Task |-> IF t \in Members THEN LeaveRun ELSE pc[t]]
      /\ rerr' = [t \in Task |-> IF t \in Members THEN FALSE ELSE rerr[t]]
      /\ comm' = [t \in Task |-> IF t \in Members THEN "world" ELSE comm[t]]
      /\ trail' = [t \in Task |-> IF t \in Members
                     THEN trail[t] \o Entered(LeaveRun) ELSE trail[t]]
  BY DEF CommFree, MembersIn, endVars
<1>2. /\ LeaveRun \in {"run_summary", "run_end"}
      /\ LeaveRun = "run_summary" <=> exp.verbose
      /\ Entered(LeaveRun) = IF exp.verbose THEN <<"reduce">> ELSE <<"barrier">>
  BY Leaves DEF IInv, TypeOK
<1> DEFINE l == LeaveRun
<1> HIDE DEF l
<1>3. l \in {"rept", "run_summary", "run_end"} /\ l # "rept"
  BY <1>2 DEF l
<1>4. \A t \in Task : pc'[t] = IF t \in Members THEN l ELSE pc[t]
  BY <1>1 DEF l
<1>5. /\ \A t \in Task : Counted(t)' /\ Run(t)' = Run(t)
      /\ Aligned' /\ Ordered' /\ SeedSent'
      /\ \A t \in Task : ~OnRunComm(t)'
  BY <1>1, <1>3, <1>4, MembersStep
<1>6. ASSUME NEW t \in Task
      PROVE  /\ Placed(t)
             /\ pc'[t] = IF t \in Members THEN l ELSE pc[t]
             /\ t \in Members <=> OnRunComm(t)
             /\ rerr'[t] = IF t \in Members THEN FALSE ELSE rerr[t]
  BY <1>1, <1>4, MembersFacts DEF IInv
<1>7. TypeOK'
  <2>1. pc' \in [Task -> Label]
    BY <1>1, <1>2, LabelFacts DEF IInv, TypeOK
  <2>2. rerr' \in [Task -> BOOLEAN]
    BY <1>1 DEF IInv, TypeOK
  <2>3. Sequential!Orders' = Sequential!Orders
    BY <1>1 DEF Sequential!Orders, Sequential!RunIds
  <2> QED BY <1>1, <2>1, <2>2, <2>3 DEF IInv, TypeOK
<1>8. ASSUME NEW t \in Task
      PROVE  Repeating(t)'
  <2>1. pc'[t] # "create"
    BY <1>1, <1>3, <1>6, MembersFacts DEF Executing, OnRunComm
  <2>2. ~rerr'[t]
    BY <1>6 DEF Placed, Repeating
  <2> QED BY <1>5, <2>1, <2>2 DEF Repeating, OnRunComm
<1>9. ASSUME NEW t \in Task
      PROVE  Communicating(t)'
  <2>1. CASE t \in Members
    <3>1. pc[t] = "comm_free" /\ pc'[t] = l
      BY <1>1, <1>6, <2>1
    <3>2. trail[t] = <<>>
      BY <1>6, <3>1 DEF Placed, Communicating, TrailOf, Reduce
    <3>3. trail'[t] = IF exp.verbose THEN <<"reduce">> ELSE <<"barrier">>
      BY <1>1, <1>2, <2>1, <3>2, Joined
    <3>4. trail'[t] = TrailOf(t)'
      BY <1>1, <1>2, <3>1, <3>3 DEF TrailOf, Reduce, l
    <3>5. inner'[t] = <<>> /\ InnerOf(t)' = <<>>
      BY <1>1, <1>3, <3>1 DEF InnerOf
    <3>6. comm'[t] = "world" /\ CommOf(t)' = "world"
      BY <1>1, <1>3, <1>5, <2>1, <3>1 DEF CommOf
    <3>7. (pc'[t] \in Reduce => exp.verbose) /\ pc'[t] # "verdict"
      BY <1>2, <3>1 DEF Reduce, l
    <3> QED BY <1>1, <3>4, <3>5, <3>6, <3>7 DEF Communicating
  <2>2. CASE t \notin Members
    <3>1. pc'[t] = pc[t] /\ trail'[t] = trail[t] /\ comm'[t] = comm[t]
          /\ inner'[t] = <<>> /\ ~OnRunComm(t)
      BY <1>1, <1>6, <2>2
    <3>2. TrailOf(t)' = TrailOf(t)
      BY <1>1, <3>1 DEF TrailOf
    <3>3. InnerOf(t)' = <<>>
      BY <3>1 DEF InnerOf, OnRunComm
    <3>4. CommOf(t)' = CommOf(t)
      BY <1>5, <3>1 DEF CommOf
    <3> QED BY <1>1, <1>6, <3>1, <3>2, <3>3, <3>4
            DEF Placed, Communicating
  <2> QED BY <2>1, <2>2
<1>10. MembersWhole' /\ MembersAgree'
  BY <1>5 DEF MembersWhole, MembersAgree
<1>11. RecordsCommitted'
  BY <1>1 DEF IInv, RecordsCommitted
<1> QED BY <1>5, <1>7, <1>8, <1>9, <1>10, <1>11 DEF IInv, Placed

LEMMA InvStutter ==
  ASSUME IInv, UNCHANGED vars
  PROVE  IInv'
<1> USE DEF vars, loopVars, endVars
<1>1. exp' = exp /\ records' = records /\ seed' = seed
      /\ \A u \in Task : Untouched(u)
  BY DEF Untouched
<1>2. TypeOK'
  BY DEF IInv, TypeOK, Sequential!Orders, Sequential!RunIds
<1>3. \A u \in Task : /\ Placed(u)' /\ Steady(u)
                      /\ Ahead(u)' <=> Ahead(u)
                      /\ OnRunComm(u)' <=> OnRunComm(u)
                      /\ Run(u)' = Run(u) /\ RepeatedBy(u)' = RepeatedBy(u)
  BY <1>1, UntouchedPlace DEF IInv
<1>4. Aligned'
  BY <1>3 DEF IInv, Aligned, Beside, Steady
<1>5. Ordered' /\ SeedSent'
  BY <1>3 DEF IInv, Ordered, SeedSent
<1>6. MembersWhole' /\ MembersAgree'
  BY <1>3 DEF IInv, MembersWhole, MembersAgree, Includes
<1>7. RecordsCommitted'
  BY DEF IInv, RecordsCommitted
<1> QED BY <1>2, <1>3, <1>4, <1>5, <1>6, <1>7 DEF IInv

LEMMA InvNext == IInv /\ [Next]_vars => IInv'
<1> SUFFICES ASSUME IInv, [Next]_vars PROVE IInv'
  OBVIOUS
<1>1. CASE Release
  BY <1>1, InvRelease
<1>2. CASE ReptEnd
  BY <1>2, InvReptEnd
<1>3. CASE CommFree
  BY <1>3, InvCommFree
<1>4. CASE \E t \in Task : TaskStep(t)
  BY <1>4, InvTaskStep
<1>5. CASE UNCHANGED vars
  BY <1>5, InvStutter
<1> QED BY <1>1, <1>2, <1>3, <1>4, <1>5 DEF Next, Terminating

\* In every state all tasks are in the same stretch of the program, each at a
\* place as said of its label: the invariant the properties follow from.
THEOREM SpecInv == Spec => []IInv
BY InitIInv, InvNext, PTL DEF Spec

-------------------------------------------------------------------------------
(* Collectives match.                                                      *)

\* The k-th collective of the world that a task enters in the stretch of the
\* program where task t is.
Kth(t, k) ==
  IF Executing(t) THEN IF k = 1 /\ exp.verbose THEN "reduce" ELSE "barrier"
  ELSE IF Replication(t) > exp.num_replications
  THEN IF exp.verbose
       THEN IF k = 1 THEN "reduce"
            ELSE IF k = 2 /\ exp.test_report THEN "bcast" ELSE "barrier"
       ELSE IF k = 1 /\ exp.test_report THEN "bcast" ELSE "barrier"
  ELSE IF Ran(t) = Len(exp.runs)
  THEN IF k = 1 /\ exp.verbose THEN "reduce" ELSE "barrier"
  ELSE IF k = 1 /\ Ran(t) = 0 /\ exp.random THEN "bcast" ELSE "comm_create"

LEMMA TrailIsKth ==
  ASSUME TypeOK, NEW t \in Task, Placed(t), NEW k \in DOMAIN trail[t]
  PROVE  trail[t][k] = Kth(t, k)
<1>1. trail[t] = TrailOf(t) /\ (pc[t] \in Reduce => exp.verbose)
      /\ (pc[t] = "verdict" => exp.test_report) /\ Counted(t)
  BY DEF Placed, Communicating
<1>2. /\ pc[t] \in Label /\ repl[t] \in Nat /\ place[t] \in Nat
      /\ Len(exp.runs) \in Nat \ {0} /\ exp.num_replications \in Nat
  BY ExpFacts DEF TypeOK
<1>3. k \in DOMAIN TrailOf(t)
  BY <1>1
<1> SUFFICES TrailOf(t)[k] = Kth(t, k)
  BY <1>1
<1>4. CASE Executing(t)
  <2>1. CASE pc[t] = "run_summary"
    BY <1>1, <1>3, <1>4, <2>1 DEF TrailOf, Kth, Reduce
  <2>2. CASE pc[t] = "run_end"
    <3>1. TrailOf(t) = IF exp.verbose THEN <<"reduce", "barrier">>
                                      ELSE <<"barrier">>
      BY <2>2 DEF TrailOf, Reduce
    <3> QED BY <1>3, <1>4, <3>1 DEF Kth
  <2>3. CASE pc[t] \notin {"run_summary", "run_end"}
    <3>1. TrailOf(t) = <<>>
      BY <1>4, <2>3 DEF TrailOf, Executing, OnRunComm, Reduce
    <3> QED BY <1>3, <3>1
  <2> QED BY <2>1, <2>2, <2>3
<1>5. CASE pc[t] \in {"run", "create", "repl_summary", "repl_end"}
  <2>1. ~Ahead(t) /\ ~Executing(t) /\ Replication(t) = repl[t]
        /\ ~(Replication(t) > exp.num_replications)
    BY <1>1, <1>2, <1>5
       DEF Ahead, Executing, OnRunComm, Ending, Replication, Counted
  <2>2. CASE pc[t] = "run"
    <3>1. Ran(t) = place[t]
      BY <2>1, <2>2 DEF Ran
    <3>2. TrailOf(t) = IF place[t] = 0 /\ exp.random THEN <<"bcast">> ELSE <<>>
      BY <2>2 DEF TrailOf, Reduce
    <3> QED BY <1>2, <1>3, <2>1, <3>1, <3>2 DEF Kth
  <2>3. CASE pc[t] = "create"
    <3>1. Ran(t) = place[t] - 1 /\ place[t] > 0 /\ place[t] <= Len(exp.runs)
      BY <1>1, <2>1, <2>3 DEF Ran, Counted
    <3>2. TrailOf(t) = IF place[t] = 1 /\ exp.random
                       THEN <<"bcast", "comm_create">> ELSE <<"comm_create">>
      BY <2>3 DEF TrailOf, Reduce
    <3>3. CASE place[t] = 1 /\ exp.random
      BY <1>2, <1>3, <2>1, <3>1, <3>2, <3>3 DEF Kth
    <3>4. CASE ~(place[t] = 1 /\ exp.random)
      BY <1>2, <1>3, <2>1, <3>1, <3>2, <3>4 DEF Kth
    <3> QED BY <3>3, <3>4
  <2>4. CASE pc[t] \in {"repl_summary", "repl_end"}
    <3>1. Ran(t) = Len(exp.runs)
      BY <1>1, <2>1, <2>4 DEF Ran, Counted
    <3>2. TrailOf(t) = IF pc[t] = "repl_summary" THEN <<"reduce">>
                       ELSE IF exp.verbose THEN <<"reduce", "barrier">>
                       ELSE <<"barrier">>
      BY <2>4 DEF TrailOf, Reduce
    <3>3. pc[t] = "repl_summary" => exp.verbose
      BY <1>1 DEF Reduce
    <3> QED BY <1>3, <2>1, <3>1, <3>2, <3>3 DEF Kth
  <2> QED BY <1>5, <2>2, <2>3, <2>4
<1>6. CASE pc[t] \in {"replication", "order"}
  <2>1. Ahead(t) /\ ~Executing(t) /\ Ran(t) = 0 /\ Replication(t) = repl[t] + 1
    BY <1>6 DEF Ahead, Executing, OnRunComm, Ending, Ran, Replication
  <2>2. TrailOf(t) = IF pc[t] = "order" THEN <<"bcast">> ELSE <<>>
    BY <1>6 DEF TrailOf, Reduce
  <2>3. pc[t] = "order" => exp.random /\ repl[t] < exp.num_replications
    BY <1>1 DEF Counted
  <2> QED BY <1>2, <1>3, <2>1, <2>2, <2>3 DEF Kth
<1>7. CASE pc[t] \in Ending
  <2>1. Ahead(t) /\ ~Executing(t) /\ Replication(t) = exp.num_replications + 1
    BY <1>1, <1>7
       DEF Ahead, Executing, OnRunComm, Ending, Replication, Counted
  <2>2. CASE pc[t] = "exp_summary"
    BY <1>1, <1>2, <1>3, <2>1, <2>2 DEF TrailOf, Kth, Reduce
  <2>3. CASE pc[t] \in {"export", "done"}
    <3>1. TrailOf(t) = IF pc[t] = "export" /\ exp.verbose THEN <<"reduce">>
                                                          ELSE <<>>
      BY <2>3 DEF TrailOf, Reduce
    <3> QED BY <1>2, <1>3, <2>1, <3>1 DEF Kth
  <2>4. CASE pc[t] = "verdict"
    <3>1. TrailOf(t) = IF exp.verbose THEN <<"reduce", "bcast">> ELSE <<"bcast">>
      BY <2>4 DEF TrailOf, Reduce
    <3> QED BY <1>1, <1>2, <1>3, <2>1, <2>4, <3>1 DEF Kth
  <2>5. CASE pc[t] = "finalize"
    <3>1. TrailOf(t) =
            IF exp.verbose
            THEN IF exp.test_report THEN <<"reduce", "bcast", "barrier">>
                                    ELSE <<"reduce", "barrier">>
            ELSE IF exp.test_report THEN <<"bcast", "barrier">>
                                    ELSE <<"barrier">>
      BY <2>5 DEF TrailOf, Reduce
    <3>2. CASE exp.verbose
      BY <1>2, <1>3, <2>1, <3>1, <3>2 DEF Kth
    <3>3. CASE ~exp.verbose
      BY <1>2, <1>3, <2>1, <3>1, <3>3 DEF Kth
    <3> QED BY <3>2, <3>3
  <2> QED BY <1>7, <2>2, <2>3, <2>4, <2>5 DEF Ending
<1> QED BY <1>2, <1>4, <1>5, <1>6, <1>7, LabelFacts
        DEF Executing, OnRunComm, Ending

LEMMA KthOfStretch ==
  ASSUME NEW t, NEW u, Beside(t, u), NEW k
  PROVE  Kth(t, k) = Kth(u, k)
BY DEF Beside, Kth

LEMMA InvMatches == IInv => CollectivesMatch
<1> SUFFICES ASSUME IInv PROVE CollectivesMatch
  OBVIOUS
<1>1. ASSUME NEW t \in Task, NEW u \in Task,
             NEW k \in DOMAIN trail[t] \cap DOMAIN trail[u]
      PROVE  trail[t][k] = trail[u][k]
  <2>1. trail[t][k] = Kth(t, k) /\ trail[u][k] = Kth(u, k)
    BY TrailIsKth DEF IInv
  <2> QED BY <2>1, KthOfStretch DEF IInv, Aligned
<1>2. ASSUME NEW t \in Members, NEW u \in Members,
             NEW k \in DOMAIN inner[t] \cap DOMAIN inner[u]
      PROVE  inner[t][k] = inner[u][k]
  <2>1. /\ t \in Task /\ u \in Task /\ OnRunComm(t) /\ OnRunComm(u)
        /\ Run(t) = Run(u)
    BY MembersFacts DEF Members
  <2>2. inner[t] = InnerOf(t) /\ inner[u] = InnerOf(u)
    BY <2>1 DEF IInv, Placed, Communicating
  <2>3. ASSUME NEW a \in {t, u}, NEW b \in {t, u},
               pc[a] = "rept_end", pc[b] = "comm_free"
        PROVE  FALSE
    <3>1. rept[a] - 1 = rept[b] /\ rerr[a] = rerr[b] /\ Run(a) = Run(b)
      BY <2>1, <2>3 DEF IInv, MembersAgree, RepeatedBy
    <3>2. rept[a] <= Run(a).num_repetitions /\ ~rerr[a]
      BY <2>1, <2>3 DEF IInv, Placed, Repeating
    <3>3. rerr[b] \/ rept[b] = Run(b).num_repetitions
      BY <2>1, <2>3 DEF IInv, Placed, Repeating
    <3>4. rept[a] \in Nat /\ rept[b] \in Nat
      BY <2>1 DEF IInv, TypeOK
    <3> QED BY <3>1, <3>2, <3>3, <3>4
  <2>4. CASE pc[t] = pc[u]
    BY <2>2, <2>4 DEF InnerOf
  <2>5. CASE pc[t] = "rept" \/ pc[u] = "rept"
    BY <2>2, <2>5 DEF InnerOf
  <2> QED BY <2>1, <2>3, <2>4, <2>5 DEF OnRunComm
<1>3. SameGroup
  BY SameRun DEF SameGroup
<1> QED BY <1>1, <1>2, <1>3 DEF CollectivesMatch

\* Whatever runs leave tasks out, in whatever order the tasks shuffle them and
\* whichever repetitions fail, the tasks enter matching collectives.
THEOREM CollectivesAlwaysMatch == Spec => []CollectivesMatch
BY SpecInv, InvMatches, PTL

\* No task begins a run before all have left the one before.
THEOREM RunsNeverOverlap == Spec => []RunsDontOverlap
<1>1. IInv => RunsDontOverlap
  <2> SUFFICES ASSUME IInv, NEW t \in Task, NEW u \in Task, InRun(t), InRun(u)
               PROVE  repl[t] = repl[u] /\ place[t] = place[u]
                        /\ order[t][place[t]] = order[u][place[u]]
    BY DEF RunsDontOverlap
  <2>1. /\ Executing(t) \/ pc[t] = "create"
        /\ Executing(u) \/ pc[u] = "create"
    BY DEF InRun, Executing, OnRunComm
  <2>2. Executing(t) <=> Executing(u)
    BY DEF IInv, Aligned, Beside
  <2>3. repl[t] = repl[u] /\ place[t] = place[u] /\ order[t] = order[u]
    BY <2>1, <2>2, SameRun
  <2> QED BY <2>3
<1> QED BY <1>1, SpecInv, PTL

\* Wherever a task enters a collective of the world, its context has the
\* communicator of the world again.
THEOREM WorldAlwaysRestored == Spec => []WorldRestored
<1>1. IInv => WorldRestored
  BY DEF IInv, Placed, Communicating, CommOf, OnRunComm, WorldRestored,
         OnWorld, Bcast, Reduce
<1> QED BY <1>1, SpecInv, PTL

\* The time records of a task are those of the master for the runs it was in,
\* when they are exported and, indeed, at all times.
THEOREM RecordsAlwaysAgree == Spec => []RecordsAgree
<1>1. IInv => RecordsAgree
  BY DEF IInv, RecordsCommitted, RecordsAgree
<1> QED BY <1>1, SpecInv, PTL

-------------------------------------------------------------------------------
(* The master executes the experiment one repetition after the other.      *)

\* The run of the master goes on at these labels.
OnRunMaster == pc[Master] \in {"create", "rept", "rept_end", "comm_free"}

LEMMA OverFacts ==
  /\ Over \in BOOLEAN
  /\ ~OnRunMaster => Over = TRUE
  /\ OnRunMaster => (Over <=> rerr[Master]
                               \/ Repeated = Run(Master).num_repetitions)
<1>1. Over \in BOOLEAN
  BY Zenon DEF Over
<1>2. Over <=> (OnRunMaster => rerr[Master]
                                \/ Repeated = Run(Master).num_repetitions)
  BY Zenon DEF Over, OnRunMaster
<1> QED BY <1>1, <1>2

LEMMA OverFactsNext ==
  /\ Over' \in BOOLEAN
  /\ ~OnRunMaster' => Over' = TRUE
  /\ OnRunMaster' => (Over' <=> rerr'[Master]
                        \/ Repeated' = Run(Master)'.num_repetitions)
<1>1. Over' \in BOOLEAN
  BY Zenon DEF Over
<1>2. Over' <=> (OnRunMaster' => rerr'[Master]
                         \/ Repeated' = Run(Master)'.num_repetitions)
  BY Zenon DEF Over, OnRunMaster
<1> QED BY <1>1, <1>2

\* What the abstract experiment sees stays as it is.
Stutters ==
  /\ exp' = exp /\ repl'[Master] = repl[Master]
  /\ order'[Master] = order[Master] /\ place'[Master] = place[Master]
  /\ Repeated' = Repeated /\ Over' = Over

LEMMA StuttersVars ==
  ASSUME Stutters
  PROVE  UNCHANGED Sequential!vars
BY DEF Stutters, Sequential!vars

LEMMA MasterFacts ==
  ASSUME IInv
  PROVE  /\ Master \in Task /\ Placed(Master)
         /\ repl[Master] \in Nat /\ place[Master] \in Nat
         /\ rept[Master] \in Nat /\ rerr[Master] \in BOOLEAN
         /\ order[Master] \in Sequential!Orders
         /\ exp.num_replications \in Nat /\ Len(exp.runs) \in Nat
         /\ Executing(Master) \/ pc[Master] = "create" =>
              Run(Master).num_repetitions \in Nat \ {0}
<1>1. Master \in Task /\ Placed(Master)
  BY MasterIsTask DEF IInv
<1>2. Executing(Master) \/ pc[Master] = "create" =>
        Run(Master).num_repetitions \in Nat \ {0}
  BY <1>1, RunFacts DEF IInv, Placed, Counted
<1> QED BY <1>1, <1>2, ExpFacts DEF IInv, TypeOK

\* A replication begins, in an order it may have.
LEMMA MasterReplicates ==
  ASSUME IInv, Replicate(Master) \/ Shuffle(Master)
  PROVE  Sequential!Replicate
<1> USE MasterFacts
<1>1. /\ pc[Master] \in {"replication", "order"} /\ pc'[Master] = "run"
      /\ repl[Master] < exp.num_replications
  BY GotoFacts DEF Replicate, Shuffle, Placed, Counted, IInv
<1>2. /\ repl'[Master] = repl[Master] + 1 /\ place'[Master] = 0
      /\ rept'[Master] = 0 /\ exp' = exp
  BY DEF Replicate, Shuffle, StartReplication, IInv, TypeOK
<1>3. order'[Master] \in Sequential!Orders
  <2>1. CASE Replicate(Master)
    <3>1. PICK o \in Orders : StartReplication(Master, o)
      BY <2>1 DEF Replicate
    <3>2. o \in Sequential!Orders
      BY OrdersAllowed DEF IInv, TypeOK
    <3> QED BY <3>1, <3>2 DEF StartReplication, IInv, TypeOK
  <2>2. CASE Shuffle(Master)
    BY <2>2 DEF Shuffle, StartReplication, IInv, TypeOK
  <2> QED BY <2>1, <2>2
<1>4. Over = TRUE
  BY <1>1, OverFacts DEF OnRunMaster
<1>5. Over' = TRUE
  BY <1>1, OverFactsNext DEF OnRunMaster
<1>6. Repeated' = 0
  BY <1>1, <1>2 DEF Repeated
<1>7. repl[Master] > 0 => place[Master] = Len(exp.runs)
  BY <1>1 DEF Placed, Counted
<1> QED BY <1>1, <1>2, <1>3, <1>4, <1>5, <1>6, <1>7 DEF Sequential!Replicate

\* The next run begins, and is not over.
LEMMA MasterBegins ==
  ASSUME IInv, BeginRun(Master)
  PROVE  Sequential!BeginRun
<1> USE MasterFacts
<1>1. pc[Master] = "run" /\ pc'[Master] = "create"
  BY GotoFacts DEF BeginRun, IInv
<1>2. /\ place'[Master] = place[Master] + 1 /\ rept'[Master] = 0
      /\ exp' = exp /\ repl' = repl /\ order' = order /\ rerr' = rerr
      /\ place[Master] < Len(exp.runs) /\ ~rerr[Master]
  BY DEF BeginRun, IInv, TypeOK
<1>3. repl[Master] > 0
  BY <1>1 DEF Placed, Counted, Ahead, Ending
<1>4. Over = TRUE
  BY <1>1, OverFacts DEF OnRunMaster
<1>5. Repeated' = 0
  BY <1>1, <1>2 DEF Repeated
<1>6. Run(Master)'.num_repetitions \in Nat \ {0}
  <2>1. place'[Master] \in RunIds /\ order[Master] \in [RunIds -> RunIds]
    BY <1>2, GivenIsOrder DEF RunIds, IInv, TypeOK
  <2>2. Run(Master)' = exp.runs[order[Master][place'[Master]]]
    BY <1>2 DEF Run
  <2> QED BY <2>1, <2>2, ExpFacts DEF IInv, TypeOK
<1>7. Over' = FALSE
  BY <1>1, <1>2, <1>5, <1>6, OverFactsNext DEF OnRunMaster
<1> QED BY <1>2, <1>3, <1>4, <1>5, <1>7 DEF Sequential!BeginRun

\* A repetition ends, which is one of the master as well.
LEMMA ReptEndRepeats ==
  ASSUME IInv, ReptEnd
  PROVE  Sequential!Repeat
<1> USE MasterFacts
<1>1. /\ Members # {} /\ \A t \in Members : pc[t] = "rept_end"
      /\ exp' = exp /\ repl' = repl /\ order' = order /\ place' = place
      /\ rept' = rept
      /\ pc' = [t \in Task |-> IF t \in Members THEN "rept" ELSE pc[t]]
  BY DEF ReptEnd, MembersIn
<1>2. Master \in Members
  BY <1>1, MembersFacts
<1>3. pc[Master] = "rept_end" /\ pc'[Master] = "rept"
  BY <1>1, <1>2
<1>4. Repeated = rept[Master] - 1 /\ Repeated' = rept[Master]
  BY <1>1, <1>3 DEF Repeated
<1>5. /\ ~rerr[Master] /\ rept[Master] <= Run(Master).num_repetitions
      /\ Run(Master).num_repetitions \in Nat
  BY <1>3 DEF Placed, Repeating, OnRunComm, Executing
<1>6. ~Over
  BY <1>3, <1>4, <1>5, OverFacts DEF OnRunMaster
<1>7. Run(Master)' = Run(Master)
      /\ Run(Master) = exp.runs[order[Master][place[Master]]]
  BY <1>1 DEF Run
<1>8. Over' \in BOOLEAN
      /\ (Repeated' = Run(Master).num_repetitions => Over' = TRUE)
  BY <1>3, <1>7, OverFactsNext DEF OnRunMaster
<1>9. Over' \in IF Repeated' = exp.runs[order[Master][place[Master]]]
                                 .num_repetitions
                THEN {TRUE} ELSE BOOLEAN
  BY <1>7, <1>8, Zenon
<1>10. Repeated' = Repeated + 1
  BY <1>4
<1>11. UNCHANGED <<exp, repl[Master], order[Master], place[Master]>>
  BY <1>1
<1> QED BY <1>6, <1>9, <1>10, <1>11, Zenon DEF Sequential!Repeat

\* All other steps of the master concern no loop of the abstract experiment.
LEMMA LoopsKept ==
  ASSUME IInv, NEW from, NEW to, pc[Master] = from, pc'[Master] = to,
         exp' = exp, repl'[Master] = repl[Master],
         order'[Master] = order[Master], place'[Master] = place[Master],
         Repeated' = Repeated,
         \/ /\ {from, to} \subseteq {"create", "rept", "rept_end", "comm_free"}
            /\ rerr'[Master] = rerr[Master]
         \/ /\ from = "comm_free"
            /\ to \notin {"create", "rept", "rept_end", "comm_free"}
         \/ {from, to} \cap {"create", "rept", "rept_end", "comm_free"} = {}
  PROVE  Stutters
<1> USE MasterFacts
<1>1. CASE /\ {from, to} \subseteq {"create", "rept", "rept_end", "comm_free"}
           /\ rerr'[Master] = rerr[Master]
  <2>1. OnRunMaster /\ OnRunMaster'
    BY <1>1 DEF OnRunMaster
  <2>2. Run(Master)' = Run(Master)
    BY DEF Run
  <2>3. Over' <=> Over
    BY <1>1, <2>1, <2>2, OverFacts, OverFactsNext
  <2>4. Over' = Over
    BY <2>3, OverFacts, OverFactsNext
  <2> QED BY <2>4 DEF Stutters
<1>2. CASE /\ from = "comm_free"
           /\ to \notin {"create", "rept", "rept_end", "comm_free"}
  <2>1. rerr[Master] \/ Repeated = Run(Master).num_repetitions
    BY <1>2 DEF Placed, Repeating, Repeated
  <2>2. Over = TRUE
    BY <1>2, <2>1, OverFacts DEF OnRunMaster
  <2>3. Over' = TRUE
    BY <1>2, OverFactsNext DEF OnRunMaster
  <2> QED BY <2>2, <2>3 DEF Stutters
<1>3. CASE {from, to} \cap {"create", "rept", "rept_end", "comm_free"} = {}
  <2>1. Over = TRUE
    BY <1>3, OverFacts DEF OnRunMaster
  <2>2. Over' = TRUE
    BY <1>3, OverFactsNext DEF OnRunMaster
  <2> QED BY <2>1, <2>2 DEF Stutters
<1> QED BY <1>1, <1>2, <1>3

\* What the master itself steps through between repetitions, in order of the
\* labels it leaves.
LEMMA MasterStutters ==
  ASSUME IInv, TaskStep(Master),
         ~Replicate(Master), ~Shuffle(Master), ~BeginRun(Master)
  PROVE  Stutters
<1> DEFINE OnRunLabels == {"create", "rept", "rept_end", "comm_free"}
<1> USE MasterFacts, GotoFacts DEF loopVars
<1>1. TypeOK
  BY DEF IInv
<1>2. ASSUME NEW from, NEW to, Goto(Master, from, to), Keeps(Master),
             {from, to} \cap OnRunLabels = {}
      PROVE  Stutters
  <2>1. pc[Master] = from /\ pc'[Master] = to
    BY <1>1, <1>2
  <2>2. Repeated' = Repeated
    BY <1>2, <2>1 DEF Repeated, Keeps
  <2> QED BY <1>2, <2>1, <2>2, LoopsKept DEF Keeps
<1>3. CASE DrawSeed(Master)
  <2>1. Goto(Master, "replication", "order") /\ Keeps(Master)
    BY <1>3 DEF DrawSeed, Keeps
  <2> QED BY <1>2, <2>1
<1>4. CASE EndReplications(Master)
  <2>1. Goto(Master, "replication", LeaveExp) /\ Keeps(Master)
    BY <1>4 DEF EndReplications, Keeps
  <2>2. LeaveExp \in {"exp_summary", "export"}
    BY DEF LeaveExp
  <2> QED BY <1>2, <2>1, <2>2
<1>5. CASE EndRuns(Master)
  <2>1. /\ pc[Master] = "run" /\ pc'[Master] = LeaveRepl
        /\ exp' = exp /\ repl' = repl /\ order' = order /\ place' = place
        /\ rept' = rept
    BY <1>1, <1>5 DEF EndRuns
  <2>2. LeaveRepl \in {"repl_summary", "repl_end"}
    BY DEF LeaveRepl
  <2>3. Repeated' = Repeated
    BY <2>1, <2>2 DEF Repeated
  <2> QED BY <2>1, <2>2, <2>3, LoopsKept
<1>6. CASE LeftOut(Master)
  <2>1. /\ pc[Master] = "left_out" /\ pc'[Master] = LeaveRun
        /\ exp' = exp /\ repl' = repl /\ order' = order /\ place' = place
        /\ rept' = rept
    BY <1>1, <1>6 DEF LeftOut
  <2>2. LeaveRun \in {"run_summary", "run_end"}
    BY DEF LeaveRun
  <2>3. Repeated' = Repeated
    BY <2>1, <2>2 DEF Repeated
  <2> QED BY <2>1, <2>2, <2>3, LoopsKept
<1>7. CASE Repeat(Master) \/ EndRepetitions(Master)
  <2> DEFINE to == IF Repeat(Master) THEN "rept_end" ELSE "comm_free"
  <2>1. Goto(Master, "rept", to)
    BY <1>7 DEF Repeat, EndRepetitions
  <2>2. pc[Master] = "rept" /\ pc'[Master] = to /\ to \in OnRunLabels
    BY <1>1, <2>1
  <2>3. /\ exp' = exp /\ repl' = repl /\ order' = order /\ place' = place
        /\ rerr' = rerr
        /\ rept'[Master] = IF to = "rept_end" THEN rept[Master] + 1
                                              ELSE rept[Master]
    BY <1>1, <1>7 DEF Repeat, EndRepetitions, TypeOK
  <2> HIDE DEF to
  <2>4. Repeated' = Repeated
    BY <2>2, <2>3 DEF Repeated
  <2> QED BY <2>2, <2>3, <2>4, LoopsKept
<1>8. CASE RunSummary(Master)
  <2>1. Goto(Master, "run_summary", "run_end") /\ Keeps(Master)
    BY <1>8 DEF RunSummary, Keeps
  <2> QED BY <1>2, <2>1
<1>9. CASE ReplSummary(Master)
  <2>1. Goto(Master, "repl_summary", "repl_end") /\ Keeps(Master)
    BY <1>9 DEF ReplSummary, Keeps
  <2> QED BY <1>2, <2>1
<1>10. CASE ExpSummary(Master)
  <2>1. Goto(Master, "exp_summary", "export") /\ Keeps(Master)
    BY <1>10 DEF ExpSummary, Keeps
  <2> QED BY <1>2, <2>1
<1>11. CASE Export(Master)
  <2> DEFINE to == IF exp.test_report THEN "verdict" ELSE "finalize"
  <2>1. Goto(Master, "export", to) /\ Keeps(Master)
    BY <1>11 DEF Export, Keeps
  <2>2. to \in {"verdict", "finalize"}
    OBVIOUS
  <2> HIDE DEF to
  <2> QED BY <1>2, <2>1, <2>2
<1>12. CASE Verdict(Master)
  <2>1. Goto(Master, "verdict", "finalize") /\ Keeps(Master)
    BY <1>12 DEF Verdict, Keeps
  <2> QED BY <1>2, <2>1
<1> QED BY <1>3, <1>4, <1>5, <1>6, <1>7, <1>8, <1>9, <1>10, <1>11, <1>12
        DEF TaskStep

\* The collectives of the world and the end of a run concern no loop either.
LEMMA JointStutters ==
  ASSUME IInv, Release \/ CommFree
  PROVE  Stutters
<1> USE MasterFacts
<1>1. CASE Release
  <2>1. PICK l \in OnWorld : \A t \in Task : pc[t] = l
    BY <1>1, ReleaseTogether
  <2>2. /\ exp' = exp /\ repl' = repl /\ order' = order /\ place' = place
        /\ rept' = rept /\ rerr' = rerr
    BY <1>1 DEF Release, loopVars
  <2>3. pc[Master] = l /\ l \in {"create", "run_end", "repl_end", "finalize"}
    BY <2>1 DEF OnWorld
  <2>4. /\ l = "create" => pc'[Master] = IF Includes(Run(Master), Master)
                                        THEN "rept" ELSE "left_out"
        /\ l = "run_end" => pc'[Master] = "run"
        /\ l = "repl_end" => pc'[Master] = "replication"
        /\ l = "finalize" => pc'[Master] = "done"
    BY <1>1, <2>1, ReleaseFacts
  <2>5. l = "create" => Includes(Run(Master), Master)
    <3>1. l = "create" => Run(Master).num_tasks \in Nat \ {0}
      BY <2>3, RunFacts DEF IInv, Placed, Counted
    <3> QED BY <3>1 DEF Includes, Master
  <2>6. Repeated' = Repeated
    BY <2>2, <2>3, <2>4, <2>5 DEF Repeated
  <2> QED BY <2>2, <2>3, <2>4, <2>5, <2>6, LoopsKept
<1>2. CASE CommFree
  <2>1. /\ Members # {} /\ \A t \in Members : pc[t] = "comm_free"
        /\ exp' = exp /\ repl' = repl /\ order' = order /\ place' = place
        /\ rept' = rept
        /\ pc' = [t \in Task |-> IF t \in Members THEN LeaveRun ELSE pc[t]]
    BY <1>2 DEF CommFree, MembersIn
  <2>2. Master \in Members
    BY <2>1, MembersFacts
  <2>3. pc[Master] = "comm_free" /\ pc'[Master] = LeaveRun
    BY <2>1, <2>2
  <2>4. LeaveRun \in {"run_summary", "run_end"}
    BY DEF LeaveRun
  <2>5. Repeated' = Repeated
    BY <2>1, <2>3, <2>4 DEF Repeated
  <2> QED BY <2>1, <2>3, <2>4, <2>5, LoopsKept
<1> QED BY <1>1, <1>2

\* The steps of the other tasks are not the master's.
LEMMA OthersStutter ==
  ASSUME IInv, NEW t \in Task \ {Master}, TaskStep(t)
  PROVE  Stutters
<1> USE MasterFacts
<1>1. exp' = exp /\ Untouched(Master)
  BY OthersUntouched DEF IInv
<1>2. Repeated' = Repeated
  BY <1>1 DEF Repeated, Untouched
<1>3. \/ {pc[Master]} \subseteq {"create", "rept", "rept_end", "comm_free"}
      \/ {pc[Master]} \cap {"create", "rept", "rept_end", "comm_free"} = {}
  OBVIOUS
<1> QED BY <1>1, <1>2, <1>3, LoopsKept DEF Untouched

LEMMA StepImplements ==
  ASSUME IInv, [Next]_vars
  PROVE  [Sequential!Next]_(Sequential!vars)
<1>1. CASE Release \/ CommFree
  BY <1>1, JointStutters, StuttersVars
<1>2. CASE ReptEnd
  BY <1>2, ReptEndRepeats DEF Sequential!Next
<1>3. ASSUME NEW t \in Task, TaskStep(t)
      PROVE  [Sequential!Next]_(Sequential!vars)
  <2>1. CASE t # Master
    BY <1>3, <2>1, OthersStutter, StuttersVars
  <2>2. CASE Replicate(Master) \/ Shuffle(Master)
    BY <2>2, MasterReplicates DEF Sequential!Next
  <2>3. CASE BeginRun(Master)
    BY <2>3, MasterBegins DEF Sequential!Next
  <2>4. CASE t = Master /\ ~Replicate(Master) /\ ~Shuffle(Master)
             /\ ~BeginRun(Master)
    BY <1>3, <2>4, MasterStutters, StuttersVars
  <2> QED BY <2>1, <2>2, <2>3, <2>4
<1>4. CASE UNCHANGED vars
  BY <1>4 DEF vars, loopVars, Sequential!vars, Repeated, Over, Run
<1> QED BY <1>1, <1>2, <1>3, <1>4 DEF Next, Terminating

LEMMA InitImplements == Init => Sequential!Init
<1> SUFFICES ASSUME Init PROVE Sequential!Init
  OBVIOUS
<1> USE MasterIsTask DEF Init
<1>1. Over = TRUE
  BY OverFacts DEF OnRunMaster
<1>2. /\ repl[Master] = 0 /\ place[Master] = 0 /\ Repeated = 0
      /\ order[Master] = [i \in RunIds |-> i]
  BY DEF Repeated, Given
<1> QED BY <1>1, <1>2 DEF Sequential!Init, Sequential!RunIds, RunIds

\* The program as a whole executes the experiment as one sequential program
\* would: every replication executes every run once, in one order, and repeats
\* it until a repetition fails or none is left.  This is SequentialSpec without
\* its fairness.
THEOREM ImplementsExperiment ==
  Spec => Sequential!Init /\ [][Sequential!Next]_(Sequential!vars)
<1>1. Init => Sequential!Init
  BY InitImplements
<1>2. IInv /\ [Next]_vars => [Sequential!Next]_(Sequential!vars)
  BY StepImplements
<1> QED BY <1>1, <1>2, SpecInv, PTL DEF Spec

===============================================================================
