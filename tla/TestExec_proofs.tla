---------------------------- MODULE TestExec_proofs ----------------------------
(***************************************************************************)
(* Proofs about TestExec, for every number of tasks and every set of       *)
(* tests.  The first part holds whatever calls may fail.                   *)
(*                                                                         *)
(* None of the safety properties says enough of the places of other tasks  *)
(* to be inductive.  The invariant IInv does: it numbers the segments that *)
(* the synchronising collectives cut a repetition into, and says that all  *)
(* tasks are in one segment (Aligned).  Only Release takes tasks from one  *)
(* segment to the next, and as all trails end in the same kind of call     *)
(* (TrailEnds) it takes them all to the same one; the other steps stay in  *)
(* their segment, or go to the reduction of the time records.  From the    *)
(* segments in which files are open (Placed) it follows that no task reads *)
(* while another writes, and that no one removes a file that is open.      *)
(*                                                                         *)
(* To these places DInv adds the course of the collectives: which one is   *)
(* the k-th of a segment does not depend on the task, and a task that      *)
(* leaves the course has failed.  RInv says that from the end of the write *)
(* test until the read test removes them the files hold all data.          *)
(*                                                                         *)
(* The last part is about runs in which no call to the operating system    *)
(* fails (Faultless).  NoFaultInv adds to the above that a task fails if   *)
(* and only if its test wants to remove a directory with a file to be read *)
(* (Stranded), that directories and files are there when a call needs      *)
(* them, and that every file will be removed by some task.  Only where     *)
(* tasks have names of their own for a shared file (OwnNames) may a        *)
(* collective creation fail, and are files left to no one.                 *)
(***************************************************************************)
EXTENDS TestExec, TLAPS

LEMMA EnteredType ==
  ASSUME NEW l \in Label
  PROVE  Entered(l) \in Seq(Kind)
<1>1. KindOf(l) \in Kind
  BY DEF KindOf, Kind, Bcast
<1>2. <<>> \in Seq(Kind) /\ <<KindOf(l)>> \in Seq(Kind)
  BY <1>1
<1>3. QED
  BY <1>2 DEF Entered

LEMMA GotoType ==
  ASSUME TypeOK, NEW t \in Task, NEW from, NEW to \in Label, Goto(t, from, to)
  PROVE  /\ pc' \in [Task -> Label]
         /\ trail' \in [Task -> Seq(Kind)]
         /\ pc'[t] = to
         /\ pc[t] = from
<1>1. Entered(to) \in Seq(Kind)
  BY EnteredType
<1>2. trail[t] \o Entered(to) \in Seq(Kind)
  BY <1>1 DEF TypeOK
<1>3. QED
  BY <1>2 DEF TypeOK, Goto

LEMMA AfterTypes ==
  ASSUME NEW t \in Task
  PROVE  /\ AfterSizes \in Label
         /\ AfterPrep(t) \in Label
         /\ AfterOpen \in Label
         /\ AfterXfer \in Label
         /\ AfterClose(t) \in Label
  BY DEF AfterSizes, AfterPrep, AfterOpen, AfterXfer, AfterClose, Label,
         Local, Sync, Bcast, Reduce

LEMMA AfterSyncType ==
  ASSUME NEW t \in Task, pc[t] \in Sync
  PROVE  AfterSync(t) \in Label
<1>1. "create" \in Label /\ "open" \in Label /\ "late_open" \in Label
      /\ "late_create" \in Label /\ "xfer" \in Label /\ "close" \in Label
      /\ "remove" \in Label /\ "commit" \in Label
      /\ "rept_summary" \in Label /\ "rept_end" \in Label
      /\ "start" \in Label /\ "comm_free" \in Label /\ "done" \in Label
  BY DEF Label, Local, Sync, Reduce
<1>2. QED
  BY <1>1, AfterTypes DEF AfterSync, AfterRept, Sync

LEMMA IdType ==
  ASSUME TypeOK, NEW t \in Task
  PROVE  /\ Id(t) \in Task
         /\ FileOf(t) \in File
<1>1. test \in Test /\ test.read_reorder_offset \in Nat
  BY TestExecAssumption DEF TypeOK, Test
<1>2. N \in Nat /\ N > 0 /\ t \in 0 .. N - 1
  BY TestExecAssumption DEF Task
<1>3. (t + test.read_reorder_offset) % N \in 0 .. N - 1
  BY <1>1, <1>2
<1>4. Id(t) \in Task
  BY <1>3 DEF Id, Task
<1>5. rept[t] \in 0 .. NumRepetitions /\ 0 \in 0 .. NumRepetitions
  BY TestExecAssumption DEF TypeOK
<1>6. FileOf(t) \in File
  BY <1>4, <1>5 DEF FileOf, File
<1>7. QED
  BY <1>4, <1>6

LEMMA TypeInit == Init => TypeOK /\ RepetitionLeft
<1>1. SUFFICES ASSUME Init PROVE TypeOK /\ RepetitionLeft
  OBVIOUS
<1>2. "start" \in Label
  BY DEF Label, Local
<1>3. pc \in [Task -> Label] /\ trail \in [Task -> Seq(Kind)]
  BY <1>1, <1>2 DEF Init
<1>4. 0 \in 0 .. NumRepetitions
  BY TestExecAssumption
<1>5. rept \in [Task -> 0 .. NumRepetitions]
  BY <1>1, <1>4 DEF Init
<1>6. /\ recorded \in [Task -> SUBSET (Type \X Action)]
      /\ committed \in [Task -> SUBSET Type]
  BY <1>1 DEF Init
<1>7. TypeOK
  BY <1>1, <1>3, <1>5, <1>6 DEF Init, TypeOK, Type
<1>8. RepetitionLeft
  BY <1>1, TestExecAssumption DEF Init, RepetitionLeft
<1>9. QED
  BY <1>7, <1>8

LEMMA LabelFacts ==
  /\ Local \subseteq Label /\ Sync \subseteq Label
  /\ Bcast \subseteq Label /\ Reduce \subseteq Label
  /\ {"start", "prep", "create", "open", "late_create", "late_open",
      "xfer", "close", "remove", "commit", "post", "done", "begin",
      "open_sync", "opened", "xfered", "close_sync", "remove_sync", "end",
      "rept_reduce", "rept_end", "comm_free", "sizes", "seed", "summary",
      "rept_summary"} \subseteq Label
  BY DEF Label, Local, Sync, Bcast, Reduce

LEMMA RecordType ==
  ASSUME TypeOK, NEW t \in Task, NEW a \in Action, Record(t, a)
  PROVE  recorded' \in [Task -> SUBSET (Type \X Action)]
<1>1. <<phase[t], a>> \in Type \X Action
  BY DEF TypeOK
<1>2. recorded[t] \cup {<<phase[t], a>>} \in SUBSET (Type \X Action)
  BY <1>1 DEF TypeOK
<1>3. QED
  BY <1>2 DEF Record, TypeOK

LEMMA TypeTaskStep ==
  ASSUME TypeOK, RepetitionLeft, NEW t \in Task, TaskStep(t)
  PROVE  TypeOK'
<1> USE LabelFacts, AfterTypes, IdType, GotoType
<1>1. CASE Start(t)
  <2>1. rept[t] + 1 \in 0 .. NumRepetitions
    BY <1>1, TestExecAssumption DEF Start, Goto, RepetitionLeft, TypeOK
  <2>2. rept' \in [Task -> 0 .. NumRepetitions]
    BY <1>1, <2>1 DEF Start, TypeOK
  <2>3. QED
    BY <1>1, <2>2 DEF Start, FreshRecord, TypeOK, Type, fsVars
<1>2. CASE Prep(t)
  <2>1. dirs' \subseteq Task
    BY <1>2 DEF Prep, TypeOK
  <2>2. QED
    BY <1>2, <2>1 DEF Prep, TypeOK, taskVars, trecVars
<1>3. CASE PrepFails(t)
  BY <1>3 DEF PrepFails, TypeOK, trecVars, fsVars
<1>4. CASE Sizes(t)
  BY <1>4 DEF Sizes, TypeOK, trecVars, fsVars
<1>5. CASE Seed(t)
  BY <1>5 DEF Seed, TypeOK, taskVars, trecVars, fsVars
<1>6. ASSUME OpenForWriting(t)
      PROVE  /\ files' \subseteq File
             /\ stored' \subseteq File \X Task
             /\ hdle' \in [Task -> {"closed", "read", "write"}]
  BY <1>6 DEF OpenForWriting, Forget, TypeOK
<1>7. CASE Create(t)
  <2>1. recorded' \in [Task -> SUBSET (Type \X Action)]
    BY <1>7, RecordType DEF Create, Action, TypeOK
  <2>2. /\ files' \subseteq File
        /\ stored' \subseteq File \X Task
        /\ hdle' \in [Task -> {"closed", "read", "write"}]
    BY <1>7, <1>6 DEF Create, TypeOK
  <2>3. QED
    BY <1>7, <2>1, <2>2 DEF Create, TypeOK
<1>24. CASE CreateFails(t)
  BY <1>24 DEF CreateFails, TypeOK, taskVars, trecVars, fsVars
<1>8. CASE LateCreate(t)
  <2>1. recorded' \in [Task -> SUBSET (Type \X Action)]
    BY <1>8, RecordType DEF LateCreate, Action
  <2>2. /\ files' \subseteq File
        /\ stored' \subseteq File \X Task
        /\ hdle' \in [Task -> {"closed", "read", "write"}]
    BY <1>8, <1>6 DEF LateCreate, TypeOK
  <2>3. QED
    BY <1>8, <2>1, <2>2 DEF LateCreate, TypeOK
<1>9. ASSUME OpenForReading(t), NEW from, NEW to \in Label, Goto(t, from, to)
      PROVE  TypeOK'
  <2>1. recorded' \in [Task -> SUBSET (Type \X Action)]
    BY <1>9, RecordType DEF OpenForReading, Action
  <2>2. QED
    BY <1>9, <2>1 DEF OpenForReading, TypeOK, fsVars
<1>10. CASE Open(t)
  <2>1. CASE CollectiveOpen(t)
    BY <1>10, <2>1 DEF Open, TypeOK, taskVars, trecVars, fsVars
  <2>2. CASE ~CollectiveOpen(t)
    BY <1>10, <2>2, <1>9 DEF Open
  <2>3. QED
    BY <2>1, <2>2
<1>11. CASE LateOpen(t)
  BY <1>11, <1>9 DEF LateOpen
<1>12. CASE Write(t)
  <2>1. recorded' \in [Task -> SUBSET (Type \X Action)]
    BY <1>12, RecordType DEF Write, Action
  <2>2. stored' \subseteq File \X Task
    BY <1>12 DEF Write, TypeOK
  <2>3. QED
    BY <1>12, <2>1, <2>2 DEF Write, TypeOK, taskVars
<1>13. CASE Read(t)
  <2>1. recorded' \in [Task -> SUBSET (Type \X Action)]
    BY <1>13, RecordType DEF Read, Action
  <2>2. QED
    BY <1>13, <2>1 DEF Read, TypeOK, taskVars, fsVars
<1>14. CASE Close(t)
  <2>1. recorded' \in [Task -> SUBSET (Type \X Action)]
    BY <1>14, RecordType DEF Close, Action
  <2>2. stored' \subseteq File \X Task
    BY <1>14 DEF Close, Closed, TypeOK
  <2>3. QED
    BY <1>14, <2>1, <2>2 DEF Close, Closed, TypeOK
<1>15. CASE Remove(t)
  <2>1. recorded' \in [Task -> SUBSET (Type \X Action)]
    BY <1>15, RecordType DEF Remove, Action
  <2>2. /\ files' \subseteq File
        /\ stored' \subseteq File \X Task
    BY <1>15 DEF Remove, Forget, TypeOK
  <2> DEFINE missing == FileOf(t) \notin files
  <2>3. rerr' \in [Task -> BOOLEAN]
    <3>1. missing \in BOOLEAN
      OBVIOUS
    <3>2. rerr' = rerr \/ rerr' = [rerr EXCEPT ![t] = missing]
      BY <1>15, Zenon DEF Remove
    <3> HIDE DEF missing
    <3>3. QED
      BY <3>1, <3>2 DEF TypeOK
  <2>4. QED
    BY <1>15, <2>1, <2>2, <2>3 DEF Remove, TypeOK
<1>16. CASE RemoveFails(t)
  <2>1. recorded' \in [Task -> SUBSET (Type \X Action)]
    BY <1>16, RecordType DEF RemoveFails, Action
  <2>2. QED
    BY <1>16, <2>1 DEF RemoveFails, TypeOK, fsVars
<1>17. CASE Commit(t)
  <2>1. committed' \in [Task -> SUBSET Type]
    BY <1>17 DEF Commit, TypeOK
  <2>2. QED
    BY <1>17, <2>1 DEF Commit, TypeOK, taskVars, fsVars
<1>18. CASE Summary(t)
  BY <1>18 DEF Summary, TypeOK, taskVars, trecVars, fsVars
<1>19. CASE ReptSummary(t)
  BY <1>19 DEF ReptSummary, TypeOK, taskVars, trecVars, fsVars
<1>20. CASE Post(t)
  <2>1. phase' \in [Task -> Type]
    BY <1>20 DEF Post, TypeOK, Type
  <2>2. dirs' \subseteq Task
    BY <1>20 DEF Post, TypeOK
  <2>3. QED
    BY <1>20, <2>1, <2>2 DEF Post, TypeOK, trecVars
<1>21. CASE PostFails(t)
  BY <1>21 DEF PostFails, TypeOK, trecVars, fsVars
<1>22. CASE Fatal(t)
  BY <1>22 DEF Fatal, TypeOK, taskVars, trecVars, fsVars
<1>23. QED
  BY <1>1, <1>2, <1>3, <1>4, <1>5, <1>7, <1>8, <1>10, <1>11, <1>12, <1>13,
     <1>14, <1>15, <1>16, <1>17, <1>18, <1>19, <1>20, <1>21, <1>22, <1>24
     DEF TaskStep

LEMMA TypeRelease ==
  ASSUME TypeOK, Release
  PROVE  TypeOK'
<1>1. \A t \in Task : AfterSync(t) \in Label
  BY AfterSyncType DEF Release
<1>2. \A t \in Task : Entered(AfterSync(t)) \in Seq(Kind)
  BY <1>1, EnteredType
<1>3. pc' \in [Task -> Label] /\ trail' \in [Task -> Seq(Kind)]
  BY <1>1, <1>2 DEF Release
<1>4. committed' \in [Task -> SUBSET Type]
  BY DEF Release, TypeOK
<1>5. QED
  BY <1>3, <1>4 DEF Release, TypeOK, taskVars, fsVars

-------------------------------------------------------------------------------
(* A step of a task touches the control state of that task alone.          *)

LEMMA OthersStay ==
  ASSUME TypeOK, NEW t \in Task, TaskStep(t)
  PROVE  /\ test' = test
         /\ \A u \in Task \ {t} :
              /\ pc'[u] = pc[u] /\ trail'[u] = trail[u]
              /\ rept'[u] = rept[u] /\ phase'[u] = phase[u]
              /\ hdle'[u] = hdle[u]
<1> DEFINE Stays ==
      /\ test' = test
      /\ \A u \in Task \ {t} :
           /\ pc'[u] = pc[u] /\ trail'[u] = trail[u]
           /\ rept'[u] = rept[u] /\ phase'[u] = phase[u]
           /\ hdle'[u] = hdle[u]
<1> USE DEF TypeOK, Goto, taskVars
<1>1. CASE Start(t)
  BY <1>1 DEF Start
<1>2. CASE Prep(t)
  BY <1>2 DEF Prep
<1>3. CASE PrepFails(t)
  BY <1>3 DEF PrepFails
<1>4. CASE Sizes(t)
  BY <1>4 DEF Sizes
<1>5. CASE Seed(t)
  BY <1>5 DEF Seed
<1>6. CASE Create(t) \/ CreateFails(t)
  BY <1>6 DEF Create, CreateFails, OpenForWriting
<1>7. CASE LateCreate(t)
  BY <1>7 DEF LateCreate, OpenForWriting
<1>8. CASE Open(t)
  BY <1>8 DEF Open, OpenForReading
<1>9. CASE LateOpen(t)
  BY <1>9 DEF LateOpen, OpenForReading
<1>10. CASE Write(t)
  BY <1>10 DEF Write
<1>11. CASE Read(t)
  BY <1>11 DEF Read
<1>12. CASE Close(t)
  BY <1>12 DEF Close
<1>13. CASE Remove(t)
  BY <1>13 DEF Remove
<1>14. CASE RemoveFails(t)
  BY <1>14 DEF RemoveFails
<1>15. CASE Commit(t)
  BY <1>15 DEF Commit
<1>16. CASE Summary(t)
  BY <1>16 DEF Summary
<1>17. CASE ReptSummary(t)
  BY <1>17 DEF ReptSummary
<1>18. CASE Post(t)
  BY <1>18 DEF Post
<1>19. CASE PostFails(t)
  BY <1>19 DEF PostFails
<1>20. CASE Fatal(t)
  BY <1>20 DEF Fatal
<1>21. QED
  BY <1>1, <1>2, <1>3, <1>4, <1>5, <1>6, <1>7, <1>8, <1>9, <1>10, <1>11,
     <1>12, <1>13, <1>14, <1>15, <1>16, <1>17, <1>18, <1>19, <1>20
     DEF TaskStep

\* What is said of the place of a task depends on that task alone.
LEMMA SamePlace ==
  ASSUME NEW u \in Task, test' = test,
         pc'[u] = pc[u], rept'[u] = rept[u], phase'[u] = phase[u]
  PROVE  /\ Repetition(u)' = Repetition(u)
         /\ Part(u)' = Part(u)
         /\ Left(u)' = Left(u)
         /\ Gone(u)' = Gone(u)
         /\ CollectiveOpen(u)' = CollectiveOpen(u)
         /\ Removes(u)' = Removes(u)
<1>1. /\ CollectiveOpen(u)' = CollectiveOpen(u)
      /\ Removes(u)' = Removes(u)
  BY DEF CollectiveOpen, Removes
<1>2. /\ ToOpened(u)' = ToOpened(u) /\ ToXfer(u)' = ToXfer(u)
      /\ ToClose(u)' = ToClose(u) /\ ToEnd(u)' = ToEnd(u)
  BY <1>1 DEF ToOpened, ToXfer, ToClose, ToEnd, Count
<1>3. Left(u)' = Left(u)
  BY <1>1, <1>2 DEF Left, Count
<1>4. QED
  BY <1>1, <1>3 DEF Repetition, Part, Gone, PartOf

-------------------------------------------------------------------------------
(* Where the step of a task leads.                                         *)

LEMMA Segments ==
  ASSUME NEW t \in Task
  PROVE  /\ Count(TRUE) = 1 /\ Count(FALSE) = 0
         /\ ToOpened(t) = IF CollectiveOpen(t) THEN 2 ELSE 1
         /\ ToXfer(t) = IF test.intra_test_barrier THEN ToOpened(t) + 1
                                                   ELSE ToOpened(t)
         /\ ToClose(t) = IF test.intra_test_barrier THEN ToXfer(t) + 1
                                                    ELSE ToXfer(t)
         /\ ToEnd(t) = IF test.afio = "mpiio" /\ test.file_mode = "NX1"
                       THEN ToClose(t) + 1 ELSE ToClose(t)
         /\ ToOpened(t) \in Nat /\ ToXfer(t) \in Nat
         /\ ToClose(t) \in Nat /\ ToEnd(t) \in Nat
<1>1. Count(TRUE) = 1 /\ Count(FALSE) = 0
  BY DEF Count
<1>2. /\ ToOpened(t) = IF CollectiveOpen(t) THEN 2 ELSE 1
      /\ ToOpened(t) \in Nat
  BY DEF ToOpened, Count
<1>3. /\ ToXfer(t) = IF test.intra_test_barrier THEN ToOpened(t) + 1
                                                ELSE ToOpened(t)
      /\ ToXfer(t) \in Nat
  BY <1>2 DEF ToXfer, Count
<1>4. /\ ToClose(t) = IF test.intra_test_barrier THEN ToXfer(t) + 1
                                                 ELSE ToXfer(t)
      /\ ToClose(t) \in Nat
  BY <1>3 DEF ToClose, Count
<1>5. /\ ToEnd(t) = IF test.afio = "mpiio" /\ test.file_mode = "NX1"
                    THEN ToClose(t) + 1 ELSE ToClose(t)
      /\ ToEnd(t) \in Nat
  BY <1>4 DEF ToEnd, Count
<1>6. QED
  BY <1>1, <1>2, <1>3, <1>4, <1>5

LEMMA SegmentOrder ==
  ASSUME NEW t \in Task
  PROVE  /\ 1 <= ToOpened(t) /\ ToOpened(t) <= ToXfer(t)
         /\ ToXfer(t) <= ToClose(t) /\ ToClose(t) <= ToEnd(t)
         /\ ToOpened(t) \in Nat /\ ToXfer(t) \in Nat
         /\ ToClose(t) \in Nat /\ ToEnd(t) \in Nat
<1>1. /\ ToOpened(t) \in {1, 2}
      /\ ToXfer(t) \in {ToOpened(t), ToOpened(t) + 1}
      /\ ToClose(t) \in {ToXfer(t), ToXfer(t) + 1}
      /\ ToEnd(t) \in {ToClose(t), ToClose(t) + 1}
  BY DEF ToOpened, ToXfer, ToClose, ToEnd, Count
<1>2. /\ ToOpened(t) \in Nat /\ ToXfer(t) \in Nat
      /\ ToClose(t) \in Nat /\ ToEnd(t) \in Nat
  BY <1>1
<1>3. QED
  BY <1>1, <1>2

\* A task that goes on within its phase stays in its segment when the label
\* it goes to has the number of the label it leaves.
LEMMA SameSegments ==
  ASSUME NEW t \in Task, test' = test, phase'[t] = phase[t]
  PROVE  /\ ToOpened(t)' = ToOpened(t) /\ ToXfer(t)' = ToXfer(t)
         /\ ToClose(t)' = ToClose(t) /\ ToEnd(t)' = ToEnd(t)
         /\ CollectiveOpen(t)' = CollectiveOpen(t)
         /\ Removes(t)' = Removes(t)
<1>1. /\ CollectiveOpen(t)' = CollectiveOpen(t)
      /\ Removes(t)' = Removes(t)
  BY DEF CollectiveOpen, Removes
<1>2. QED
  BY <1>1 DEF ToOpened, ToXfer, ToClose, ToEnd, Count

\* The step of a task inside the repetition loop keeps it in its segment or
\* takes it to the reduction of the time records, and in its place.
LEMMA Advances ==
  ASSUME TypeOK, Placed, NEW t \in Task, TaskStep(t), ~Fatal(t)
  PROVE  /\ pc[t] \notin {"rept_reduce", "comm_free", "done"}
         /\ pc'[t] \notin {"start", "comm_free", "done"}
         /\ Repetition(t)' = Repetition(t)
         /\ \/ pc'[t] = "rept_reduce"
            \/ Part(t)' = Part(t) /\ Left(t)' = Left(t)
         /\ PlacedAt(t)'
<1> DEFINE Good ==
      /\ pc[t] \notin {"rept_reduce", "comm_free", "done"}
      /\ pc'[t] \notin {"start", "comm_free", "done"}
      /\ Repetition(t)' = Repetition(t)
      /\ \/ pc'[t] = "rept_reduce"
         \/ Part(t)' = Part(t) /\ Left(t)' = Left(t)
      /\ PlacedAt(t)'
<1>a. PlacedAt(t)
  BY DEF Placed
<1>b. test' = test
  BY OthersStay
<1>c. rept[t] \in Int /\ phase[t] \in Type
  BY TestExecAssumption DEF TypeOK
<1> USE <1>a, <1>b, <1>c, Segments
<1>1. CASE Start(t)
  <2>1. /\ pc[t] = "start"
        /\ pc'[t] = IF test.write THEN "prep" ELSE "rept_reduce"
        /\ rept'[t] = rept[t] + 1 /\ phase'[t] = "write" /\ hdle' = hdle
    BY <1>1 DEF Start, Goto, TypeOK
  <2>2. PlacedAt(t)' /\ Repetition(t)' = Repetition(t)
    BY <2>1 DEF Repetition, PlacedAt
  <2>3. Part(t)' = Part(t) /\ Left(t)' = Left(t)
    BY <2>1 DEF Part, PartOf, Gone, Left
  <2>4. QED
    BY <2>1, <2>2, <2>3
<1> DEFINE Same == phase'[t] = phase[t] /\ rept'[t] = rept[t]
<1>2. CASE Prep(t)
  <2>1. /\ pc[t] = "prep" /\ pc'[t] \in {"sizes", "seed", "begin"}
        /\ Same /\ hdle' = hdle
    BY <1>2 DEF Prep, Goto, TypeOK, AfterPrep, AfterSizes, taskVars
  <2>2. QED
    BY <2>1 DEF Repetition, Part, PartOf, Gone, Left, PlacedAt
<1>3. CASE PrepFails(t)
  <2>1. pc[t] = "prep" /\ pc'[t] = "rept_reduce" /\ Same /\ hdle' = hdle
    BY <1>3 DEF PrepFails, Goto, TypeOK
  <2>2. QED
    BY <2>1 DEF Repetition, PlacedAt
<1>4. CASE Sizes(t) \/ Seed(t)
  <2>1. /\ pc[t] \in {"sizes", "seed"} /\ pc'[t] \in {"seed", "begin"}
        /\ Same /\ hdle' = hdle
    BY <1>4 DEF Sizes, Seed, Goto, TypeOK, AfterSizes, taskVars
  <2>2. QED
    BY <2>1 DEF Repetition, Part, PartOf, Gone, Left, PlacedAt
<1>5. CASE Create(t)
  <2>1. /\ pc[t] = "create" /\ Same
        /\ pc'[t] = IF CollectiveOpen(t) THEN "open_sync" ELSE AfterOpen
        /\ hdle'[t] \in {hdle[t], "write"}
        /\ ~CollectiveOpen(t) => hdle'[t] = "write"
    BY <1>5 DEF Create, Goto, TypeOK, OpenForWriting
  <2>2. phase[t] = "write" /\ hdle[t] = "closed"
    BY <2>1, <1>c DEF PlacedAt, TypeOK
  <2>3. PlacedAt(t)'
    BY <2>1, <2>2, SameSegments DEF PlacedAt, AfterOpen
  <2>4. Left(t)' = Left(t)
    BY <2>1, SameSegments DEF Left, AfterOpen
  <2>5. QED
    BY <2>1, <2>3, <2>4 DEF Repetition, Part, PartOf, Gone, AfterOpen
<1>18. CASE CreateFails(t)
  <2>1. /\ pc[t] = "create" /\ Same /\ pc'[t] = "open_sync"
        /\ hdle' = hdle /\ CollectiveOpen(t)
    BY <1>18 DEF CreateFails, Goto, TypeOK, taskVars
  <2>2. PlacedAt(t)'
    BY <2>1, SameSegments DEF PlacedAt
  <2>3. QED
    BY <2>1, <2>2 DEF Repetition, Part, PartOf, Gone, Left
<1>6. CASE LateCreate(t)
  <2>1. /\ pc[t] = "late_create" /\ Same /\ pc'[t] = AfterOpen
        /\ hdle'[t] = "write"
    BY <1>6 DEF LateCreate, Goto, TypeOK, OpenForWriting
  <2>2. phase[t] = "write" /\ CollectiveOpen(t)
    BY <2>1 DEF PlacedAt
  <2>3. PlacedAt(t)'
    BY <2>1, <2>2, SameSegments DEF PlacedAt, AfterOpen
  <2>4. Left(t)' = Left(t)
    BY <2>1, SameSegments DEF Left, AfterOpen
  <2>5. QED
    BY <2>1, <2>3, <2>4 DEF Repetition, Part, PartOf, Gone, AfterOpen
<1>7. CASE Open(t)
  <2>1. /\ pc[t] = "open" /\ Same
        /\ pc'[t] = IF CollectiveOpen(t) THEN "open_sync" ELSE AfterOpen
        /\ hdle'[t] = IF CollectiveOpen(t) THEN hdle[t] ELSE "read"
    BY <1>7 DEF Open, Goto, TypeOK, OpenForReading, taskVars
  <2>2. phase[t] = "read" /\ hdle[t] = "closed" /\ test.read
    BY <2>1, <1>c DEF PlacedAt, TypeOK
  <2>3. PlacedAt(t)'
    BY <2>1, <2>2, SameSegments DEF PlacedAt, AfterOpen
  <2>4. Left(t)' = Left(t)
    BY <2>1, SameSegments DEF Left, AfterOpen
  <2>5. QED
    BY <2>1, <2>3, <2>4 DEF Repetition, Part, PartOf, Gone, AfterOpen
<1>8. CASE LateOpen(t)
  <2>1. /\ pc[t] = "late_open" /\ Same /\ pc'[t] = AfterOpen
        /\ hdle'[t] = "read"
    BY <1>8 DEF LateOpen, Goto, TypeOK, OpenForReading
  <2>2. phase[t] = "read" /\ CollectiveOpen(t) /\ test.read
    BY <2>1 DEF PlacedAt
  <2>3. PlacedAt(t)'
    BY <2>1, <2>2, SameSegments DEF PlacedAt, AfterOpen
  <2>4. Left(t)' = Left(t)
    BY <2>1, SameSegments DEF Left, AfterOpen
  <2>5. QED
    BY <2>1, <2>3, <2>4 DEF Repetition, Part, PartOf, Gone, AfterOpen
<1>9. CASE Write(t) \/ Read(t)
  <2>1. pc[t] = "xfer" /\ Same /\ pc'[t] = AfterXfer /\ hdle' = hdle
    BY <1>9 DEF Write, Read, Goto, TypeOK, taskVars
  <2>2. PlacedAt(t)'
    BY <2>1, SameSegments DEF PlacedAt, AfterXfer
  <2>3. Left(t)' = Left(t)
    BY <2>1, SameSegments DEF Left, AfterXfer
  <2>4. QED
    BY <2>1, <2>2, <2>3 DEF Repetition, Part, PartOf, Gone, AfterXfer
<1>10. CASE Close(t)
  <2>1. /\ pc[t] = "close" /\ Same /\ hdle'[t] = "closed"
        /\ pc'[t] = IF test.afio = "mpiio" /\ test.file_mode = "NX1"
                    THEN "close_sync" ELSE AfterClose(t)
    BY <1>10 DEF Close, Closed, Goto, TypeOK
  <2>2. PlacedAt(t)'
    BY <2>1, SameSegments DEF PlacedAt, AfterClose
  <2>3. Left(t)' = Left(t)
    BY <2>1, SameSegments DEF Left, AfterClose, Count
  <2>4. QED
    BY <2>1, <2>2, <2>3 DEF Repetition, Part, PartOf, Gone, AfterClose
<1>11. CASE Remove(t) \/ RemoveFails(t)
  <2>1. pc[t] = "remove" /\ Same /\ pc'[t] = "end" /\ hdle' = hdle
    BY <1>11 DEF Remove, RemoveFails, Goto, TypeOK
  <2>2. QED
    BY <2>1, SameSegments DEF PlacedAt, Left, Repetition, Part, PartOf, Gone
<1>12. CASE Commit(t)
  <2>1. /\ pc[t] = "commit" /\ Same /\ hdle' = hdle
        /\ pc'[t] \in {"summary", "rept_reduce"}
    BY <1>12 DEF Commit, Goto, TypeOK, taskVars
  <2>2. QED
    BY <2>1 DEF PlacedAt, Left, Repetition, Part, Gone
<1>13. CASE Summary(t)
  <2>1. pc[t] = "summary" /\ Same /\ pc'[t] = "post" /\ hdle' = hdle
    BY <1>13 DEF Summary, Goto, TypeOK, taskVars
  <2>2. QED
    BY <2>1 DEF PlacedAt, Left, Repetition, Part, Gone
<1>14. CASE ReptSummary(t)
  <2>1. /\ pc[t] = "rept_summary" /\ Same /\ pc'[t] = "rept_end"
        /\ hdle' = hdle
    BY <1>14 DEF ReptSummary, Goto, TypeOK, taskVars
  <2>2. QED
    BY <2>1 DEF PlacedAt, Left, Repetition, Part, Gone
<1>15. CASE Post(t)
  <2>1. /\ pc[t] = "post" /\ rept' = rept /\ hdle' = hdle
        /\ \/ pc'[t] = "rept_reduce" /\ phase'[t] = phase[t]
           \/ /\ pc'[t] = "prep" /\ phase'[t] = "read"
              /\ phase[t] # "read" /\ test.read
    BY <1>15 DEF Post, Goto, TypeOK
  <2>2. hdle[t] = "closed"
    BY <2>1 DEF PlacedAt
  <2>3. QED
    BY <2>1, <2>2 DEF PlacedAt, Left, Repetition, Part, PartOf, Gone, Type
<1>16. CASE PostFails(t)
  <2>1. pc[t] = "post" /\ pc'[t] = "rept_reduce" /\ Same /\ hdle' = hdle
    BY <1>16 DEF PostFails, Goto, TypeOK
  <2>2. QED
    BY <2>1 DEF Repetition, PlacedAt
<1>17. QED
  BY <1>1, <1>2, <1>3, <1>4, <1>5, <1>6, <1>7, <1>8, <1>9, <1>10, <1>11,
     <1>12, <1>13, <1>14, <1>15, <1>16, <1>18 DEF TaskStep

-------------------------------------------------------------------------------
(* A task step preserves the inductive invariant.                          *)

\* Each step that is not an abort goes somewhere.
LEMMA Goes ==
  ASSUME TypeOK, NEW t \in Task, TaskStep(t), ~Fatal(t)
  PROVE  \E to \in Label : Goto(t, pc[t], to)
<1> USE LabelFacts, AfterTypes
<1> USE DEF Goto
<1>1. CASE Start(t)
  BY <1>1 DEF Start
<1>2. CASE Prep(t) \/ PrepFails(t) \/ Sizes(t) \/ Seed(t)
  BY <1>2 DEF Prep, PrepFails, Sizes, Seed
<1>3. CASE Create(t) \/ CreateFails(t) \/ LateCreate(t)
  BY <1>3 DEF Create, CreateFails, LateCreate
<1>4. CASE Open(t) \/ LateOpen(t)
  BY <1>4 DEF Open, LateOpen
<1>5. CASE Write(t) \/ Read(t) \/ Close(t)
  BY <1>5 DEF Write, Read, Close
<1>6. CASE Remove(t) \/ RemoveFails(t) \/ Commit(t)
  BY <1>6 DEF Remove, RemoveFails, Commit
<1>7. CASE Summary(t) \/ ReptSummary(t)
  BY <1>7 DEF Summary, ReptSummary
<1>8. CASE Post(t) \/ PostFails(t)
  BY <1>8 DEF Post, PostFails
<1>9. QED
  BY <1>1, <1>2, <1>3, <1>4, <1>5, <1>6, <1>7, <1>8 DEF TaskStep

LEMMA TrailEndsTaskStep ==
  ASSUME TypeOK, TrailEnds, NEW t \in Task, TaskStep(t), ~Fatal(t)
  PROVE  TrailEnds'
<1>1. PICK to \in Label : Goto(t, pc[t], to)
  BY Goes
<1>2. test' = test
  BY OthersStay
<1>3. \A l : KindOf(l)' = KindOf(l)
  BY <1>2 DEF KindOf
<1>4. SUFFICES ASSUME NEW u \in Task, pc'[u] \notin Local
               PROVE  /\ trail'[u] # <<>>
                      /\ trail'[u][Len(trail'[u])] = KindOf(pc'[u])
  BY <1>3 DEF TrailEnds
<1>5. CASE u # t
  BY <1>5, <1>4, OthersStay DEF TrailEnds
<1>6. CASE u = t
  <2>1. pc'[t] = to /\ trail'[t] = trail[t] \o Entered(to)
    BY <1>1 DEF Goto, TypeOK
  <2>2. Entered(to) = <<KindOf(to)>>
    BY <2>1, <1>4, <1>6 DEF Entered
  <2>3. KindOf(to) \in Kind
    BY DEF KindOf, Kind, Bcast
  <2>4. trail[t] \in Seq(Kind)
    BY DEF TypeOK
  <2>5. /\ trail'[t] # <<>>
        /\ trail'[t][Len(trail'[t])] = KindOf(to)
    BY <2>1, <2>2, <2>3, <2>4
  <2>6. QED
    BY <2>1, <2>5, <1>6
<1>7. QED
  BY <1>5, <1>6

LEMMA FatalStep ==
  ASSUME IInv, NEW t \in Task, Fatal(t)
  PROVE  IInv'
<1>1. TypeOK'
  BY TypeTaskStep DEF IInv, TaskStep
<1>2. /\ test' = test /\ pc' = pc /\ rept' = rept /\ phase' = phase
      /\ trail' = trail /\ hdle' = hdle
  BY DEF Fatal, taskVars
<1>3. RepetitionLeft'
  BY <1>2 DEF IInv, RepetitionLeft
<1>4. TrailEnds'
  BY <1>2 DEF IInv, TrailEnds, KindOf
<1>5. Placed'
  BY <1>2, SamePlace DEF IInv, Placed, PlacedAt
<1>6. Aligned'
  BY <1>2, SamePlace DEF IInv, Aligned
<1>7. QED
  BY <1>1, <1>3, <1>4, <1>5, <1>6 DEF IInv

LEMMA InvTaskStep ==
  ASSUME IInv, NEW t \in Task, TaskStep(t)
  PROVE  IInv'
<1>1. SUFFICES ASSUME ~Fatal(t) PROVE IInv'
  BY FatalStep
<1> USE DEF IInv
<1>2. TypeOK'
  BY TypeTaskStep
<1>3. TrailEnds'
  BY <1>1, TrailEndsTaskStep
<1>4. /\ pc[t] \notin {"rept_reduce", "comm_free", "done"}
      /\ pc'[t] \notin {"start", "comm_free", "done"}
      /\ Repetition(t)' = Repetition(t)
      /\ \/ pc'[t] = "rept_reduce"
         \/ Part(t)' = Part(t) /\ Left(t)' = Left(t)
      /\ PlacedAt(t)'
  BY <1>1, Advances
<1>5. ASSUME NEW u \in Task, u # t
      PROVE  /\ Repetition(u)' = Repetition(u) /\ Part(u)' = Part(u)
             /\ Left(u)' = Left(u) /\ Gone(u)' = Gone(u)
             /\ PlacedAt(u)' = PlacedAt(u)
             /\ pc'[u] = pc[u] /\ rept'[u] = rept[u]
  <2>1. /\ test' = test /\ pc'[u] = pc[u] /\ rept'[u] = rept[u]
        /\ phase'[u] = phase[u] /\ hdle'[u] = hdle[u]
    BY <1>5, OthersStay
  <2>2. QED
    BY <2>1, SamePlace DEF PlacedAt
<1>6. RepetitionLeft'
  BY <1>4, <1>5 DEF RepetitionLeft
<1>7. Placed'
  BY <1>4, <1>5 DEF Placed
<1>8. ~Gone(t)
  BY <1>4 DEF Gone
<1>9. Aligned'
  <2>1. SUFFICES ASSUME NEW u \in Task, NEW v \in Task, ~Gone(u)', ~Gone(v)'
                 PROVE  /\ Repetition(u)' = Repetition(v)'
                        /\ \/ pc'[u] = "rept_reduce" \/ pc'[v] = "rept_reduce"
                           \/ Part(u)' = Part(v)' /\ Left(u)' = Left(v)'
    BY DEF Aligned
  <2>2. ~Gone(u) /\ ~Gone(v)
    BY <2>1, <1>5, <1>8
  <2>3. /\ Repetition(u) = Repetition(v)
        /\ \/ pc[u] = "rept_reduce" \/ pc[v] = "rept_reduce"
           \/ Part(u) = Part(v) /\ Left(u) = Left(v)
    BY <2>2 DEF Aligned
  <2>4. CASE u # t /\ v # t
    BY <2>3, <2>4, <1>5
  <2>5. CASE u = t /\ v # t
    BY <2>3, <2>5, <1>4, <1>5
  <2>6. CASE u # t /\ v = t
    BY <2>3, <2>6, <1>4, <1>5
  <2>7. CASE u = t /\ v = t
    BY <2>7
  <2>8. QED
    BY <2>4, <2>5, <2>6, <2>7
<1>10. QED
  BY <1>2, <1>3, <1>6, <1>7, <1>9

-------------------------------------------------------------------------------
(* The joint step preserves the inductive invariant.                       *)

\* The synchronising collectives of a phase other than the last.
Inner == {"begin", "open_sync", "opened", "xfered", "close_sync",
          "remove_sync"}

\* The last segment of a phase is reached by the last collective only.
LEMMA InnerBeforeEnd ==
  ASSUME NEW t \in Task, PlacedAt(t), pc[t] \in Inner
  PROVE  Left(t) < ToEnd(t) + Count(Removes(t))
  BY Segments DEF Inner, Left, PlacedAt, Count

\* A collective inside a phase takes a task to the next segment of it.
LEMMA InnerRelease ==
  ASSUME TypeOK, NEW t \in Task, PlacedAt(t), Release, pc[t] \in Inner
  PROVE  /\ pc'[t] \notin {"start", "comm_free", "done", "rept_reduce"}
         /\ Repetition(t)' = Repetition(t)
         /\ Part(t)' = Part(t)
         /\ Left(t)' = Left(t) + 1
         /\ PlacedAt(t)'
<1>1. /\ pc'[t] = AfterSync(t) /\ test' = test /\ phase'[t] = phase[t]
      /\ rept'[t] = rept[t] /\ hdle'[t] = hdle[t]
  BY DEF Release, taskVars
<1>2. phase[t] \in Type /\ hdle[t] \in {"closed", "read", "write"}
  BY DEF TypeOK
<1> USE <1>1, <1>2, Segments, SameSegments
<1>3. CASE pc[t] = "begin"
  <2>1. pc'[t] = IF phase[t] = "write" THEN "create" ELSE "open"
    BY <1>3 DEF AfterSync
  <2>2. PlacedAt(t)'
    BY <1>3, <2>1 DEF PlacedAt, Type
  <2>3. QED
    BY <1>3, <2>1, <2>2 DEF Repetition, Part, Gone, Left
<1>4. CASE pc[t] = "open_sync"
  <2>1. pc'[t] = IF phase[t] = "read" THEN "late_open" ELSE "late_create"
    BY <1>4 DEF AfterSync
  <2>2. PlacedAt(t)'
    BY <1>4, <2>1 DEF PlacedAt, Type
  <2>3. CollectiveOpen(t)
    BY <1>4 DEF PlacedAt
  <2>4. Left(t) = 1 /\ Left(t)' = 2
    BY <1>4, <2>1, <2>3 DEF Left
  <2>5. QED
    BY <1>4, <2>1, <2>2, <2>4 DEF Repetition, Part, Gone
<1>5. CASE pc[t] = "opened"
  <2>1. pc'[t] = "xfer"
    BY <1>5 DEF AfterSync
  <2>2. QED
    BY <1>5, <2>1 DEF Repetition, Part, Gone, Left, PlacedAt
<1>6. CASE pc[t] = "xfered"
  <2>1. pc'[t] = "close"
    BY <1>6 DEF AfterSync
  <2>2. QED
    BY <1>6, <2>1 DEF Repetition, Part, Gone, Left, PlacedAt
<1>7. CASE pc[t] = "close_sync"
  <2>1. pc'[t] = IF Removes(t) THEN "remove_sync" ELSE "end"
    BY <1>7 DEF AfterSync, AfterClose
  <2>2. Left(t)' = Left(t) + 1
    BY <1>7, <2>1 DEF Left, PlacedAt, Count
  <2>3. QED
    BY <1>7, <2>1, <2>2 DEF Repetition, Part, Gone, PlacedAt
<1>8. CASE pc[t] = "remove_sync"
  <2>1. pc'[t] = "remove"
    BY <1>8 DEF AfterSync
  <2>2. Left(t)' = Left(t) + 1
    BY <1>8, <2>1 DEF Left, PlacedAt, Count
  <2>3. QED
    BY <1>8, <2>1, <2>2 DEF Repetition, Part, Gone, PlacedAt
<1>9. QED
  BY <1>3, <1>4, <1>5, <1>6, <1>7, <1>8 DEF Inner

\* The collectives at the end of a phase and of a repetition.
LEMMA OuterRelease ==
  ASSUME TypeOK, NEW t \in Task, PlacedAt(t), Release
  PROVE  /\ pc[t] = "end" =>
              /\ pc'[t] = "commit"
              /\ Repetition(t)' = Repetition(t)
              /\ Part(t)' = IF phase[t] = "write" /\ test.read THEN 1 ELSE 2
              /\ Left(t)' = 0
         /\ pc[t] = "rept_reduce" =>
              /\ pc'[t] \in {"rept_summary", "rept_end"}
              /\ Repetition(t)' = Repetition(t)
              /\ Part(t)' = 2 /\ Left(t)' = 1
         /\ pc[t] = "rept_end" =>
              \/ pc'[t] = "comm_free"
              \/ /\ pc'[t] = "start"
                 /\ rept'[t] < NumRepetitions
                 /\ Repetition(t)' = Repetition(t) + 1
                 /\ Part(t)' = IF test.write THEN 0 ELSE 2
                 /\ Left(t)' = 0
         /\ pc[t] = "comm_free" => pc'[t] = "done"
         /\ pc[t] \in {"end", "rept_reduce", "rept_end", "comm_free"} =>
              PlacedAt(t)'
<1>1. /\ pc'[t] = AfterSync(t) /\ test' = test /\ phase'[t] = phase[t]
      /\ rept'[t] = rept[t] /\ hdle'[t] = hdle[t]
  BY DEF Release, taskVars
<1>2. /\ pc[t] = "end" => pc'[t] = "commit"
      /\ pc[t] = "rept_reduce" => pc'[t] \in {"rept_summary", "rept_end"}
      /\ pc[t] = "rept_end" =>
           \/ pc'[t] = "comm_free"
           \/ pc'[t] = "start" /\ rept[t] < NumRepetitions
      /\ pc[t] = "comm_free" => pc'[t] = "done"
  BY <1>1 DEF AfterSync, AfterRept
<1>3. pc[t] \in {"end", "rept_reduce", "rept_end", "comm_free"} => PlacedAt(t)'
  BY <1>1, <1>2 DEF PlacedAt
<1>4. pc[t] = "end" =>
        /\ Repetition(t)' = Repetition(t)
        /\ Part(t)' = IF phase[t] = "write" /\ test.read THEN 1 ELSE 2
        /\ Left(t)' = 0
  BY <1>1, <1>2 DEF Repetition, Part, Gone, Left
<1>5. pc[t] = "rept_reduce" =>
        Repetition(t)' = Repetition(t) /\ Part(t)' = 2 /\ Left(t)' = 1
  BY <1>1, <1>2 DEF Repetition, Part, Gone, Left
<1>6. pc[t] = "rept_end" /\ pc'[t] = "start" =>
        /\ Repetition(t)' = Repetition(t) + 1
        /\ Part(t)' = IF test.write THEN 0 ELSE 2
        /\ Left(t)' = 0
  BY <1>1 DEF Repetition, Part, Gone, Left
<1>7. QED
  BY <1>1, <1>2, <1>3, <1>4, <1>5, <1>6

\* All tasks leave collectives of the same kind.
LEMMA ReleaseFrom ==
  ASSUME IInv, Release, NEW t \in Task, NEW u \in Task
  PROVE  /\ pc[t] \in Inner \cup {"end", "rept_reduce", "rept_end", "comm_free"}
         /\ PlacedAt(t)
         /\ KindOf(pc[t]) = KindOf(pc[u])
<1>1. \A v \in Task : pc[v] \in Inner \cup {"end", "rept_reduce", "rept_end",
                                            "comm_free"}
  BY DEF Release, Sync, Inner
<1>2. trail[t] = trail[u]
  BY DEF Release
<1>3. pc[t] \notin Local /\ pc[u] \notin Local
  BY <1>1 DEF Inner, Local
<1>4. KindOf(pc[t]) = KindOf(pc[u])
  BY <1>2, <1>3 DEF IInv, TrailEnds
<1>5. QED
  BY <1>1, <1>4 DEF IInv, Placed

LEMMA ReleasePairs ==
  ASSUME IInv, Release, NEW t \in Task, NEW u \in Task
  PROVE  /\ pc[t] = "rept_reduce" <=> pc[u] = "rept_reduce"
         /\ pc[t] = "comm_free" <=> pc[u] = "comm_free"
         /\ pc[t] = "rept_end" <=> pc[u] = "rept_end"
         /\ pc[t] = "end" <=> pc[u] = "end"
         /\ pc[t] # "comm_free" => Repetition(t) = Repetition(u)
         /\ pc[t] \in Inner \cup {"end"} =>
              /\ phase[t] = phase[u]
              /\ Part(t) = Part(u) /\ Left(t) = Left(u)
<1> USE DEF IInv
<1>1. /\ pc[t] \in Inner \cup {"end", "rept_reduce", "rept_end", "comm_free"}
      /\ pc[u] \in Inner \cup {"end", "rept_reduce", "rept_end", "comm_free"}
      /\ PlacedAt(t) /\ PlacedAt(u)
      /\ KindOf(pc[t]) = KindOf(pc[u])
  BY ReleaseFrom
<1>2. /\ pc[t] = "rept_reduce" <=> pc[u] = "rept_reduce"
      /\ pc[t] = "comm_free" <=> pc[u] = "comm_free"
  BY <1>1 DEF KindOf, Inner, Bcast
<1>3. pc[t] # "comm_free" => ~Gone(t) /\ ~Gone(u)
  BY <1>1, <1>2 DEF Gone, Inner
<1>4. pc[t] # "comm_free" =>
        /\ Repetition(t) = Repetition(u)
        /\ \/ pc[t] = "rept_reduce"
           \/ Part(t) = Part(u) /\ Left(t) = Left(u)
  BY <1>2, <1>3 DEF Aligned
<1>5. ASSUME NEW v \in Task, pc[v] = "rept_end"
      PROVE  Part(v) = 2
  BY <1>5 DEF Part
<1>6. ASSUME NEW v \in Task, pc[v] \in Inner \cup {"end"}
      PROVE  Part(v) = PartOf(phase[v]) /\ Part(v) # 2
  BY <1>6 DEF Part, PartOf, Gone, Inner
<1>7. pc[t] = "rept_end" <=> pc[u] = "rept_end"
  BY <1>1, <1>2, <1>4, <1>5, <1>6 DEF Inner
<1>8. CASE pc[t] \in Inner \cup {"end"} /\ pc[u] \in Inner \cup {"end"}
  <2>1. phase[t] = phase[u]
    BY <1>4, <1>6, <1>8 DEF PartOf, TypeOK, Type, Inner
  <2>2. ToEnd(t) + Count(Removes(t)) = ToEnd(u) + Count(Removes(u))
    BY <2>1 DEF ToEnd, ToClose, ToXfer, ToOpened, CollectiveOpen, Removes
  <2>3. /\ pc[t] = "end" => Left(t) = ToEnd(t) + Count(Removes(t))
        /\ pc[u] = "end" => Left(u) = ToEnd(u) + Count(Removes(u))
    BY DEF Left
  <2>4. ToEnd(t) + Count(Removes(t)) \in Int
    BY Segments DEF Count
  <2>5. pc[t] = "end" <=> pc[u] = "end"
    BY <2>2, <2>3, <2>4, <1>1, <1>4, <1>8, InnerBeforeEnd DEF Inner
  <2>6. QED
    BY <2>1, <2>5, <1>2, <1>4, <1>7, <1>8 DEF Inner
<1>9. QED
  BY <1>1, <1>2, <1>4, <1>7, <1>8 DEF Inner

\* A joint step takes all tasks that are then in the repetition loop to the
\* same segment.
LEMMA ReleaseTogether ==
  ASSUME IInv, Release, NEW t \in Task, NEW u \in Task, ~Gone(t)', ~Gone(u)'
  PROVE  /\ Repetition(t)' = Repetition(u)'
         /\ Part(t)' = Part(u)' /\ Left(t)' = Left(u)'
<1> USE DEF IInv
<1>1. /\ pc[t] \in Inner \cup {"end", "rept_reduce", "rept_end", "comm_free"}
      /\ PlacedAt(t) /\ PlacedAt(u)
  BY ReleaseFrom
<1>2. /\ pc[t] = "rept_reduce" <=> pc[u] = "rept_reduce"
      /\ pc[t] = "rept_end" <=> pc[u] = "rept_end"
      /\ pc[t] = "end" <=> pc[u] = "end"
      /\ pc[t] # "comm_free" => Repetition(t) = Repetition(u)
      /\ pc[t] \in Inner \cup {"end"} =>
           /\ phase[t] = phase[u]
           /\ Part(t) = Part(u) /\ Left(t) = Left(u)
  BY ReleasePairs
<1>3. pc'[t] \notin {"comm_free", "done"} /\ pc'[u] \notin {"comm_free", "done"}
  BY DEF Gone
<1>4. pc[t] # "comm_free" /\ test' = test
  BY <1>3, <1>1, OuterRelease DEF Release
<1>5. CASE pc[t] = "rept_reduce"
  BY <1>1, <1>2, <1>5, OuterRelease
<1>6. CASE pc[t] = "end"
  BY <1>1, <1>2, <1>6, OuterRelease
<1>7. CASE pc[t] = "rept_end"
  BY <1>1, <1>2, <1>3, <1>7, OuterRelease
<1>8. CASE pc[t] \in Inner
  <2>1. pc[u] \in Inner
    BY <1>8, <1>1, <1>2, ReleaseFrom, ReleasePairs DEF Inner
  <2>2. QED
    BY <2>1, <1>1, <1>2, <1>8, InnerRelease DEF Inner
<1>9. QED
  BY <1>1, <1>4, <1>5, <1>6, <1>7, <1>8

LEMMA InvRelease ==
  ASSUME IInv, Release
  PROVE  IInv'
<1> USE DEF IInv
<1>1. TypeOK'
  BY TypeRelease
<1>2. test' = test
  BY DEF Release
<1>3. \A t \in Task : pc[t] \in Inner \cup {"end", "rept_reduce", "rept_end",
                                            "comm_free"}
  BY DEF Release, Sync, Inner
<1>4. \A t \in Task : PlacedAt(t)
  BY DEF Placed
<1>5. \A t \in Task : PlacedAt(t)'
  BY <1>3, <1>4, InnerRelease, OuterRelease
<1>6. RepetitionLeft'
  <2>1. ASSUME NEW t \in Task, pc'[t] = "start"
        PROVE  rept'[t] < NumRepetitions
    BY <2>1, <1>3, <1>4, InnerRelease, OuterRelease
  <2>2. QED
    BY <2>1 DEF RepetitionLeft
<1>7. TrailEnds'
  <2>1. \A l : KindOf(l)' = KindOf(l)
    BY <1>2 DEF KindOf
  <2>2. SUFFICES ASSUME NEW t \in Task, pc'[t] \notin Local
                 PROVE  /\ trail'[t] # <<>>
                        /\ trail'[t][Len(trail'[t])] = KindOf(pc'[t])
    BY <2>1 DEF TrailEnds
  <2>3. pc'[t] = AfterSync(t) /\ trail'[t] = Entered(AfterSync(t))
    BY DEF Release
  <2>4. trail'[t] = <<KindOf(pc'[t])>>
    BY <2>2, <2>3 DEF Entered
  <2>5. QED
    BY <2>4
<1>8. QED
  BY <1>1, <1>5, <1>6, <1>7, ReleaseTogether DEF Placed, Aligned

-------------------------------------------------------------------------------
(* The theorems.                                                           *)

LEMMA InvInit == Init => IInv
<1>1. SUFFICES ASSUME Init PROVE IInv
  OBVIOUS
<1>2. TypeOK /\ RepetitionLeft
  BY <1>1, TypeInit
<1>3. TrailEnds
  BY <1>1 DEF Init, TrailEnds, Local
<1>4. Placed
  BY <1>1 DEF Init, Placed, PlacedAt
<1>5. Aligned
  BY <1>1 DEF Init, Aligned, Repetition, Part, Left
<1>6. QED
  BY <1>2, <1>3, <1>4, <1>5 DEF IInv

LEMMA InvNext == IInv /\ [Next]_vars => IInv'
<1>1. SUFFICES ASSUME IInv, [Next]_vars PROVE IInv'
  OBVIOUS
<1>2. CASE Release
  BY <1>1, <1>2, InvRelease
<1>3. CASE \E t \in Task : TaskStep(t)
  BY <1>1, <1>3, InvTaskStep
<1>4. CASE Terminating \/ UNCHANGED vars
  <2>1. /\ UNCHANGED <<test, pc, trail, rept, phase, rerr, sized, hdle,
                       recorded, committed, files, dirs, stored, aborted>>
    BY <1>4 DEF Terminating, vars, taskVars, trecVars, fsVars
  <2>2. TypeOK'
    BY <1>1, <2>1 DEF IInv, TypeOK
  <2>3. RepetitionLeft'
    BY <1>1, <2>1 DEF IInv, RepetitionLeft
  <2>4. TrailEnds'
    BY <1>1, <2>1 DEF IInv, TrailEnds, KindOf
  <2>5. Placed'
    BY <1>1, <2>1, SamePlace DEF IInv, Placed, PlacedAt
  <2>6. Aligned'
    BY <1>1, <2>1, SamePlace DEF IInv, Aligned
  <2>7. QED
    BY <2>2, <2>3, <2>4, <2>5, <2>6 DEF IInv
<1>5. QED
  BY <1>1, <1>2, <1>3, <1>4 DEF Next

\* IInv is an inductive invariant: whatever fails and however the tasks
\* interleave, tasks inside the repetition loop are in the same segment of
\* the same repetition, or wait for the others at the reduction of the time
\* records of run_rept_exec().
THEOREM Invariance == Spec => []IInv
<1>1. Init => IInv
  BY InvInit
<1>2. IInv /\ [Next]_vars => IInv'
  BY InvNext
<1>3. QED
  BY <1>1, <1>2, PTL DEF Spec

\* Type correctness: no execution of test_exec() leaves the state the types
\* of the source and the labels of the model allow.
THEOREM TypeCorrect == Spec => []TypeOK
<1>1. IInv => TypeOK
  BY DEF IInv
<1>2. QED
  BY <1>1, Invariance, PTL

\* For every number of tasks, every test and any failures, no task has the
\* file open for reading while another has it open for writing: the barriers
\* of test_oset_write_exec() and test_oset_read_exec() separate the phases.
THEOREM ReadsAfterWrites == Spec => []ReadersAfterWriters
<1>1. IInv => ReadersAfterWriters
  <2>1. SUFFICES ASSUME IInv, NEW t \in Task, NEW u \in Task,
                        hdle[t] = "read", hdle[u] = "write"
                 PROVE  FALSE
    BY DEF ReadersAfterWriters
  <2>2. PlacedAt(t) /\ PlacedAt(u)
    BY <2>1 DEF IInv, Placed
  <2>3. pc[t] \in {"opened", "xfer", "xfered", "close"} /\ phase[t] = "read"
    BY <2>1, <2>2 DEF PlacedAt
  <2>4. /\ pc[u] \in {"opened", "xfer", "xfered", "close", "open_sync",
                      "late_create"}
        /\ phase[u] = "write"
    BY <2>1, <2>2 DEF PlacedAt
  <2>5. Part(t) = 1 /\ Part(u) = 0 /\ ~Gone(t) /\ ~Gone(u)
    BY <2>3, <2>4 DEF Part, PartOf, Gone
  <2>6. QED
    BY <2>1, <2>3, <2>4, <2>5 DEF IInv, Aligned
<1>2. QED
  BY <1>1, Invariance, PTL

-------------------------------------------------------------------------------
(* No file is removed while some task has it open.                         *)

\* When a task removes, no task has its file open: a barrier is between.
LEMMA NoneOpenAtRemove ==
  ASSUME IInv, NEW t \in Task, pc[t] = "remove", NEW u \in Task
  PROVE  hdle[u] = "closed"
<1>1. SUFFICES ASSUME hdle[u] # "closed" PROVE FALSE
  OBVIOUS
<1>2. PlacedAt(t) /\ PlacedAt(u)
  BY DEF IInv, Placed
<1>3. pc[u] \in {"opened", "xfer", "xfered", "close", "open_sync",
                 "late_create"}
  BY <1>1, <1>2 DEF PlacedAt
<1>4. Part(t) = Part(u) /\ Left(t) = Left(u)
  BY <1>3 DEF IInv, Aligned, Gone
<1>5. phase[t] = phase[u]
  BY <1>3, <1>4 DEF Part, PartOf, Gone, IInv, TypeOK, Type
<1>6. /\ ToEnd(t) = ToEnd(u) /\ Removes(t) = Removes(u)
      /\ CollectiveOpen(t) = CollectiveOpen(u)
  BY <1>5 DEF ToEnd, ToClose, ToXfer, ToOpened, CollectiveOpen, Removes
<1>7. Left(t) = ToEnd(t) + 1
  BY <1>2, Segments DEF Left, PlacedAt, Count
<1>8. Left(u) <= ToEnd(u)
  <2>1. Left(u) \in {1, ToOpened(u), ToXfer(u), ToClose(u)}
    BY <1>3 DEF Left
  <2>2. QED
    BY <2>1, SegmentOrder
<1>9. QED
  BY <1>4, <1>6, <1>7, <1>8, SegmentOrder

\* Only the step that removes makes a file disappear.
LEMMA FilesStay ==
  ASSUME NEW t \in Task, TaskStep(t), ~Remove(t)
  PROVE  files \subseteq files'
<1>1. CASE Start(t) \/ Prep(t) \/ PrepFails(t) \/ Sizes(t) \/ Seed(t)
  BY <1>1 DEF Start, Prep, PrepFails, Sizes, Seed, fsVars
<1>2. CASE Create(t) \/ CreateFails(t) \/ LateCreate(t)
  BY <1>2 DEF Create, CreateFails, LateCreate, OpenForWriting, fsVars
<1>3. CASE Open(t) \/ LateOpen(t)
  BY <1>3 DEF Open, LateOpen, OpenForReading, fsVars
<1>4. CASE Write(t) \/ Read(t) \/ Close(t) \/ RemoveFails(t) \/ Commit(t)
  BY <1>4 DEF Write, Read, Close, RemoveFails, Commit, fsVars
<1>5. CASE Summary(t) \/ ReptSummary(t) \/ Post(t) \/ PostFails(t) \/ Fatal(t)
  BY <1>5 DEF Summary, ReptSummary, Post, PostFails, Fatal, fsVars
<1>6. QED
  BY <1>1, <1>2, <1>3, <1>4, <1>5 DEF TaskStep

LEMMA SameFile ==
  ASSUME NEW u \in Task, test' = test, rept'[u] = rept[u], phase'[u] = phase[u]
  PROVE  FileOf(u)' = FileOf(u)
  BY DEF FileOf, Id

\* A task that leaves its step with the file open had it open before, or
\* created or opened it with this step.
LEMMA OpenAfterStep ==
  ASSUME IInv, OpenFileExists, NEW t \in Task, TaskStep(t), ~Remove(t),
         hdle'[t] # "closed"
  PROVE  FileOf(t)' \in files'
<1>1. PlacedAt(t) /\ TypeOK
  BY DEF IInv, Placed
<1>2. test' = test /\ files \subseteq files'
  BY <1>1, OthersStay, FilesStay
<1>3. ASSUME rept'[t] = rept[t], phase'[t] = phase[t],
             hdle'[t] = hdle[t] \/ FileOf(t) \in files'
      PROVE  FileOf(t)' \in files'
  BY <1>2, <1>3, SameFile DEF OpenFileExists
<1>4. CASE Start(t) \/ Post(t)
  <2>1. hdle' = hdle /\ pc[t] \in {"start", "post"}
    BY <1>4 DEF Start, Post, Goto
  <2>2. hdle[t] = "closed"
    BY <2>1, <1>1 DEF PlacedAt
  <2>3. QED
    BY <2>1, <2>2
<1>5. CASE Create(t) \/ LateCreate(t)
  <2>1. rept' = rept /\ phase' = phase
    BY <1>5 DEF Create, LateCreate
  <2>2. \/ hdle' = hdle
        \/ files' = files \cup {FileOf(t)}
    BY <1>5 DEF Create, LateCreate, OpenForWriting
  <2>3. QED
    BY <1>3, <2>1, <2>2
<1>6. CASE Open(t) \/ LateOpen(t)
  <2>1. rept' = rept /\ phase' = phase
    BY <1>6 DEF Open, LateOpen, OpenForReading, taskVars
  <2>2. hdle' = hdle \/ FileOf(t) \in files
    BY <1>6 DEF Open, LateOpen, OpenForReading, taskVars
  <2>3. QED
    BY <1>2, <1>3, <2>1, <2>2
<1>7. CASE Close(t)
  BY <1>1, <1>7 DEF Close, Closed, TypeOK
<1>8. CASE Prep(t) \/ PrepFails(t) \/ Sizes(t) \/ Seed(t) \/ CreateFails(t)
  BY <1>1, <1>3, <1>8 DEF Prep, PrepFails, Sizes, Seed, CreateFails, taskVars
<1>9. CASE Write(t) \/ Read(t) \/ RemoveFails(t) \/ Commit(t)
  BY <1>3, <1>9 DEF Write, Read, RemoveFails, Commit, taskVars
<1>10. CASE Summary(t) \/ ReptSummary(t) \/ PostFails(t) \/ Fatal(t)
  BY <1>3, <1>10 DEF Summary, ReptSummary, PostFails, Fatal, taskVars
<1>11. QED
  BY <1>4, <1>5, <1>6, <1>7, <1>8, <1>9, <1>10 DEF TaskStep

LEMMA OpenNext == IInv /\ OpenFileExists /\ [Next]_vars => OpenFileExists'
<1>1. SUFFICES ASSUME IInv, OpenFileExists, [Next]_vars,
                      NEW u \in Task, hdle'[u] # "closed"
               PROVE  FileOf(u)' \in files'
  BY DEF OpenFileExists
<1>2. CASE Release \/ Terminating \/ UNCHANGED vars
  <2>1. /\ hdle' = hdle /\ files' = files /\ test' = test
        /\ rept' = rept /\ phase' = phase
    BY <1>2 DEF Release, Terminating, vars, taskVars, fsVars
  <2>2. QED
    BY <1>1, <2>1, SameFile DEF OpenFileExists
<1>3. ASSUME NEW t \in Task, TaskStep(t)
      PROVE  FileOf(u)' \in files'
  <2>1. /\ test' = test
        /\ u # t => /\ rept'[u] = rept[u] /\ phase'[u] = phase[u]
                    /\ hdle'[u] = hdle[u]
    BY <1>1, <1>3, OthersStay DEF IInv
  <2>2. CASE Remove(t)
    <3>1. pc[t] = "remove" /\ hdle' = hdle
      BY <2>2 DEF Remove, Goto
    <3>2. hdle[u] = "closed"
      BY <1>1, <3>1, NoneOpenAtRemove
    <3>3. QED
      BY <1>1, <3>1, <3>2
  <2>3. CASE ~Remove(t) /\ u # t
    BY <1>1, <1>3, <2>1, <2>3, FilesStay, SameFile DEF OpenFileExists
  <2>4. CASE ~Remove(t) /\ u = t
    BY <1>1, <1>3, <2>4, OpenAfterStep
  <2>5. QED
    BY <2>2, <2>3, <2>4
<1>4. QED
  BY <1>1, <1>2, <1>3 DEF Next

\* For every number of tasks, every test and any failures, a file that some
\* task has open exists: the barrier before afio->remove() keeps the task
\* that removes a shared file behind all that still use it.
THEOREM OpenFilesExist == Spec => []OpenFileExists
<1>1. Init => OpenFileExists
  BY DEF Init, OpenFileExists
<1>2. QED
  BY <1>1, OpenNext, Invariance, PTL DEF Spec

-------------------------------------------------------------------------------
(* What the reduction of the time records leaves committed was closed by   *)
(* every task.                                                             *)

\* A task is past the reduction of the time records of its repetition.
Past(t) == pc[t] \in {"rept_summary", "rept_end"}

\* A task commits, and may be past closing the file of its phase, only with
\* the close recorded; tasks are past the reduction together, and then agree
\* on what is committed.
CommitsClosed == \A t \in Task : \A p \in committed[t] :
                   <<p, "close">> \in recorded[t]
PastClose(t) ==
  pc[t] \in {"close_sync", "remove_sync", "remove", "end", "commit"}
CloseRecorded == \A t \in Task :
                   PastClose(t) => <<phase[t], "close">> \in recorded[t]
PastTogether == \A t, u \in Task :
                  Past(t) => Past(u) /\ committed[u] = committed[t]

CInv == CommitsClosed /\ CloseRecorded /\ PastTogether

\* The records of the other tasks do not change.
LEMMA OtherRecordsStay ==
  ASSUME TypeOK, NEW t \in Task, TaskStep(t), NEW u \in Task, u # t
  PROVE  recorded'[u] = recorded[u] /\ committed'[u] = committed[u]
<1> USE DEF TypeOK, Record, trecVars
<1>1. CASE Start(t)
  BY <1>1 DEF Start, FreshRecord
<1>2. CASE Prep(t) \/ PrepFails(t) \/ Sizes(t) \/ Seed(t) \/ CreateFails(t)
  BY <1>2 DEF Prep, PrepFails, Sizes, Seed, CreateFails
<1>3. CASE Create(t) \/ LateCreate(t)
  BY <1>3 DEF Create, LateCreate
<1>4. CASE Open(t) \/ LateOpen(t)
  BY <1>4 DEF Open, LateOpen, OpenForReading
<1>5. CASE Write(t) \/ Read(t) \/ Close(t)
  BY <1>5 DEF Write, Read, Close
<1>6. CASE Remove(t) \/ RemoveFails(t) \/ Commit(t)
  BY <1>6 DEF Remove, RemoveFails, Commit
<1>7. CASE Summary(t) \/ ReptSummary(t) \/ Post(t) \/ PostFails(t) \/ Fatal(t)
  BY <1>7 DEF Summary, ReptSummary, Post, PostFails, Fatal
<1>8. QED
  BY <1>1, <1>2, <1>3, <1>4, <1>5, <1>6, <1>7 DEF TaskStep

\* A step of a task keeps what it committed within what it closed.
LEMMA OwnRecord ==
  ASSUME TypeOK, NEW t \in Task, TaskStep(t),
         \A p \in committed[t] : <<p, "close">> \in recorded[t],
         PastClose(t) => <<phase[t], "close">> \in recorded[t]
  PROVE  /\ \A p \in committed'[t] : <<p, "close">> \in recorded'[t]
         /\ PastClose(t)' => <<phase'[t], "close">> \in recorded'[t]
<1>1. t \in DOMAIN pc /\ t \in DOMAIN recorded /\ t \in DOMAIN committed
      /\ t \in DOMAIN phase
  BY DEF TypeOK
<1>2. CASE Start(t)
  BY <1>1, <1>2 DEF Start, FreshRecord, Goto, PastClose
<1>3. CASE Prep(t) \/ PrepFails(t) \/ Sizes(t) \/ Seed(t) \/ CreateFails(t)
  BY <1>1, <1>3 DEF Prep, PrepFails, Sizes, Seed, CreateFails, Goto, PastClose,
     AfterPrep, AfterSizes, taskVars, trecVars
<1>4. CASE Create(t) \/ LateCreate(t)
  BY <1>1, <1>4 DEF Create, LateCreate, Goto, Record, PastClose, AfterOpen
<1>5. CASE Open(t) \/ LateOpen(t)
  BY <1>1, <1>5 DEF Open, LateOpen, OpenForReading, Goto, Record, PastClose,
     AfterOpen, taskVars, trecVars
<1>6. CASE Write(t) \/ Read(t)
  BY <1>1, <1>6 DEF Write, Read, Goto, Record, PastClose, AfterXfer, taskVars
<1>7. CASE Close(t)
  BY <1>1, <1>7 DEF Close, Record
<1>8. CASE Remove(t) \/ RemoveFails(t)
  BY <1>1, <1>8 DEF Remove, RemoveFails, Goto, Record, PastClose
<1>9. CASE Commit(t)
  BY <1>1, <1>9 DEF Commit, Goto, PastClose, taskVars
<1>10. CASE Summary(t) \/ ReptSummary(t) \/ Post(t) \/ PostFails(t)
  BY <1>1, <1>10 DEF Summary, ReptSummary, Post, PostFails, Goto, PastClose,
     taskVars, trecVars
<1>11. CASE Fatal(t)
  BY <1>11 DEF Fatal, PastClose, taskVars, trecVars
<1>12. QED
  BY <1>2, <1>3, <1>4, <1>5, <1>6, <1>7, <1>8, <1>9, <1>10, <1>11 DEF TaskStep

\* Only the reduction itself takes a task past it, and only the last barrier
\* of the repetition takes it further.
LEMMA PastStays ==
  ASSUME TypeOK, NEW t \in Task, TaskStep(t)
  PROVE  /\ Past(t)' <=> Past(t)
         /\ Past(t) => committed' = committed
<1>1. t \in DOMAIN pc
  BY DEF TypeOK
<1>2. CASE ReptSummary(t)
  BY <1>1, <1>2 DEF ReptSummary, Goto, Past, trecVars
<1>3. CASE Fatal(t)
  BY <1>3 DEF Fatal, Past, trecVars
<1>4. CASE Start(t) \/ Prep(t) \/ PrepFails(t) \/ Sizes(t) \/ Seed(t)
  BY <1>1, <1>4 DEF Start, Prep, PrepFails, Sizes, Seed, Goto, Past, AfterPrep,
     AfterSizes
<1>5. CASE Create(t) \/ CreateFails(t) \/ LateCreate(t) \/ Open(t) \/ LateOpen(t)
  BY <1>1, <1>5 DEF Create, CreateFails, LateCreate, Open, LateOpen, Goto, Past,
     AfterOpen
<1>6. CASE Write(t) \/ Read(t) \/ Close(t) \/ Remove(t) \/ RemoveFails(t)
  BY <1>1, <1>6 DEF Write, Read, Close, Remove, RemoveFails, Goto, Past,
     AfterXfer, AfterClose
<1>7. CASE Commit(t) \/ Summary(t) \/ Post(t) \/ PostFails(t)
  BY <1>1, <1>7 DEF Commit, Summary, Post, PostFails, Goto, Past
<1>8. QED
  BY <1>2, <1>3, <1>4, <1>5, <1>6, <1>7 DEF TaskStep

LEMMA CommittedTaskStep ==
  ASSUME TypeOK, CInv, NEW t \in Task, TaskStep(t)
  PROVE  CInv'
<1>1. \A u \in Task \ {t} :
        /\ recorded'[u] = recorded[u] /\ committed'[u] = committed[u]
        /\ pc'[u] = pc[u] /\ phase'[u] = phase[u]
  BY OtherRecordsStay, OthersStay
<1>2. /\ \A p \in committed'[t] : <<p, "close">> \in recorded'[t]
      /\ PastClose(t)' => <<phase'[t], "close">> \in recorded'[t]
  BY OwnRecord DEF CInv, CommitsClosed, CloseRecorded
<1>3. CommitsClosed'
  BY <1>1, <1>2 DEF CInv, CommitsClosed
<1>4. CloseRecorded'
  BY <1>1, <1>2 DEF CInv, CloseRecorded, PastClose
<1>5. PastTogether'
  <2>1. \A u \in Task : Past(u)' <=> Past(u)
    BY <1>1, PastStays DEF Past
  <2>2. (\E u \in Task : Past(u)) => Past(t)
    BY DEF CInv, PastTogether
  <2>3. QED
    BY <2>1, <2>2, PastStays DEF CInv, PastTogether
<1>6. QED
  BY <1>3, <1>4, <1>5 DEF CInv

LEMMA CommittedRelease ==
  ASSUME IInv, CInv, Release
  PROVE  CInv'
<1>1. \A t \in Task :
        /\ pc'[t] = AfterSync(t) /\ recorded'[t] = recorded[t]
        /\ phase'[t] = phase[t] /\ committed'[t] \subseteq committed[t]
  BY DEF Release, taskVars
<1>2. CommitsClosed'
  BY <1>1 DEF CInv, CommitsClosed
<1>3. CloseRecorded'
  <2>1. SUFFICES ASSUME NEW t \in Task, PastClose(t)'
                 PROVE  <<phase[t], "close">> \in recorded[t]
    BY <1>1 DEF CloseRecorded
  <2>2. pc[t] \in Sync
    BY DEF Release
  <2>3. PastClose(t)
    BY <1>1, <2>1, <2>2 DEF Sync, AfterSync, AfterRept, AfterOpen, PastClose
  <2>4. QED
    BY <2>3 DEF CInv, CloseRecorded
<1>4. PastTogether'
  <2>1. SUFFICES ASSUME NEW t \in Task, NEW u \in Task, Past(t)'
                 PROVE  Past(u)' /\ committed'[u] = committed'[t]
    BY DEF PastTogether
  <2>2. pc[t] \in Sync /\ pc[u] \in Sync /\ trail[t] = trail[u]
    BY DEF Release
  <2>3. pc[t] = "rept_reduce"
    BY <1>1, <2>1, <2>2
       DEF Sync, AfterSync, AfterRept, AfterOpen, AfterClose, Past
  <2>4. KindOf(pc[u]) = "rept_reduce"
    <3>1. pc[t] \notin Local /\ pc[u] \notin Local
      BY <2>2 DEF Sync, Local
    <3>2. KindOf(pc[t]) = KindOf(pc[u])
      BY <2>2, <3>1 DEF IInv, TrailEnds
    <3>3. QED
      BY <2>3, <3>2 DEF KindOf, Bcast
  <2>5. pc[u] = "rept_reduce"
    BY <2>2, <2>4 DEF KindOf, Sync, Bcast
  <2>6. Past(u)'
    BY <1>1, <2>5 DEF AfterSync, Past
  <2>7. committed'[u] = committed'[t]
    BY <2>3, <2>5 DEF Release
  <2>8. QED
    BY <2>6, <2>7
<1>5. QED
  BY <1>2, <1>3, <1>4 DEF CInv

LEMMA CommittedNext == IInv /\ CInv /\ [Next]_vars => CInv'
<1>1. SUFFICES ASSUME IInv, CInv, [Next]_vars PROVE CInv'
  OBVIOUS
<1>2. CASE Release
  BY <1>1, <1>2, CommittedRelease
<1>3. CASE \E t \in Task : TaskStep(t)
  BY <1>1, <1>3, CommittedTaskStep DEF IInv
<1>4. CASE Terminating \/ UNCHANGED vars
  BY <1>1, <1>4 DEF Terminating, vars, taskVars, trecVars, CInv, CommitsClosed,
     CloseRecorded, PastTogether, Past, PastClose
<1>5. QED
  BY <1>1, <1>2, <1>3, <1>4 DEF Next

\* For every number of tasks, every test and any failures, a test counts as
\* executed at the end of a repetition of run_rept_exec() only when every task
\* closed its file in it: the reduction of trec_run_rept_stop() discounts what
\* one task committed and another did not.
THEOREM CommittedClosed == Spec => []CommittedByAll
<1>1. Init => CInv
  BY DEF Init, CInv, CommitsClosed, CloseRecorded, PastTogether, Past, PastClose
<1>2. CInv => CommittedByAll
  BY DEF CInv, CommitsClosed, PastTogether, Past, CommittedByAll
<1>3. QED
  BY <1>1, <1>2, CommittedNext, Invariance, PTL DEF Spec

-------------------------------------------------------------------------------
(* What a task enters in a segment.                                        *)

\* The sizes are drawn in the first write test, in what a task enters first.
DrawsIn(r, p) == test.distrib /\ r = 1 /\ p = 0

\* The number of calls before the barrier of "begin", in part p of
\* repetition r.
Ahead(r, p) == Count(p = 1) + Count(DrawsIn(r, p)) + Count(test.random)

\* The kind of the k-th collective of the segment task t is in.
Kth(t, k) ==
  CASE Part(t) = 2 /\ Left(t) = 1 ->
         IF test.verbose /\ k = 1 THEN "time_reduce" ELSE "barrier"
    [] Part(t) = 2 /\ Left(t) # 1 ->
         IF test.write /\ k = 1 THEN "test_reduce" ELSE "rept_reduce"
    [] Part(t) # 2 /\ Left(t) = 0 ->
         IF Part(t) = 1 /\ k = 1 THEN "test_reduce"
         ELSE IF k <= Ahead(Repetition(t), Part(t)) THEN "bcast" ELSE "barrier"
    [] OTHER ->
         IF Left(t) = 1 /\ CollectiveOpen(t) THEN KindOf("open_sync")
         ELSE IF /\ test.afio = "mpiio" /\ test.file_mode = "NX1"
                 /\ Left(t) = ToClose(t)
              THEN "file_close" ELSE "barrier"

\* How many of them a task at label l has entered.
LenOf(l, r, p) ==
  CASE l = "prep"  -> PartOf(p)
    [] l = "sizes" -> PartOf(p) + 1
    [] l = "seed"  -> Ahead(r, PartOf(p))
    [] l = "begin" -> Ahead(r, PartOf(p)) + 1
    [] l = "rept_reduce" -> Count(test.write) + 1
    [] l = "rept_end"    -> Count(test.verbose) + 1
    [] l \in (Inner \ {"begin"}) \cup {"end", "summary", "post", "rept_summary"}
         -> 1
    [] OTHER -> 0
LenAt(t) == LenOf(pc[t], rept[t], phase[t])

Follows(t) ==
  /\ Len(trail[t]) = LenAt(t)
  /\ \A k \in 1 .. LenAt(t) : trail[t][k] = Kth(t, k)

\* A task gave up its test and waits for the others at the reduction of the
\* time records.
Waiting(t) == pc[t] = "rept_reduce" /\ rerr[t]

\* It gave up before or after it entered the summary of the write test.
GaveUp(t) ==
  /\ Len(trail[t]) \in {1, 2}
  /\ trail[t][Len(trail[t])] = "rept_reduce"
  /\ Len(trail[t]) = 2 => trail[t][1] = "test_reduce" /\ test.write

Courses ==
  \A t \in Task :
    /\ ~Gone(t) => IF Waiting(t) THEN GaveUp(t) ELSE Follows(t)
    /\ Gone(t) => trail[t] = Entered(pc[t])

\* Tasks that did not give up are in one segment; who gave up after the
\* summary left the others in the segment after a write or a read test.
Beside ==
  \A t, u \in Task : ~Gone(t) /\ ~Gone(u) =>
    /\ \/ Waiting(t) \/ Waiting(u)
       \/ Part(t) = Part(u) /\ Left(t) = Left(u)
    /\ Waiting(t) /\ Len(trail[t]) # 1 => Part(u) # 0 /\ Left(u) = 0

\* Nobody leaves the repetition loop before the others without a failure.
GoneByFailure ==
  \A t, u \in Task : Gone(t) /\ ~Gone(u) => pc[t] = "comm_free" /\ rerr[t]

\* Only a test that writes gets past "start"; the read test follows it.  The
\* collectives that are optional are entered where the test asks for them.
Idle == {"start", "rept_reduce", "rept_summary", "rept_end", "comm_free",
         "done"}
AskedAt(t) ==
  /\ pc[t] \notin Idle => test.write
  /\ pc[t] = "sizes" => test.distrib
  /\ pc[t] = "seed" => test.random
  /\ pc[t] = "rept_summary" => test.verbose
Asked == \A t \in Task : AskedAt(t)

\* The sizes are drawn in the preparation of the first write test, unless the
\* task gives up before.
Undrawn(t) ==
  \/ pc[t] = "start" /\ rept[t] = 0
  \/ pc[t] \in {"prep", "sizes"} /\ rept[t] = 1 /\ phase[t] = "write"
SizedAt(t) ==
  /\ pc[t] # "start" => rept[t] # 0
  /\ pc[t] = "sizes" => ~sized[t]
  /\ test.distrib /\ Undrawn(t) => ~sized[t]
  /\ test.distrib /\ test.write /\ ~sized[t] =>
       Undrawn(t) \/ (rerr[t] /\ pc[t] \in Idle \ {"start"})
SizesOnce == \A t \in Task : SizedAt(t)

DInv == Courses /\ Beside /\ GoneByFailure /\ Asked /\ SizesOnce

-------------------------------------------------------------------------------
LEMMA SameKth ==
  ASSUME TypeOK, NEW t \in Task, NEW u \in Task, NEW k \in Nat,
         Repetition(t) = Repetition(u), Part(t) = Part(u), Left(t) = Left(u)
  PROVE  Kth(t, k) = Kth(u, k)
<1>1. CASE Part(t) # 2 /\ Left(t) # 0
  <2>1. ASSUME NEW v \in Task, Part(v) # 2, Left(v) # 0
        PROVE  Part(v) = PartOf(phase[v])
    BY <2>1 DEF Part, Left, Gone
  <2>2. phase[t] = phase[u]
    BY <1>1, <2>1 DEF PartOf, TypeOK, Type
  <2>3. CollectiveOpen(t) = CollectiveOpen(u) /\ ToClose(t) = ToClose(u)
    BY <2>2 DEF CollectiveOpen, ToClose, ToXfer, ToOpened
  <2>4. QED
    BY <1>1, <2>3 DEF Kth
<1>2. CASE Part(t) = 2 \/ Left(t) = 0
  BY <1>2 DEF Kth
<1>3. QED
  BY <1>1, <1>2

LEMMA KthStays ==
  ASSUME NEW t \in Task, NEW k \in Nat, test' = test,
         Repetition(t)' = Repetition(t), Part(t)' = Part(t),
         Left(t)' = Left(t), phase'[t] = phase[t] \/ Left(t) = 0
  PROVE  Kth(t, k)' = Kth(t, k)
<1>1. Ahead(Repetition(t), Part(t))' = Ahead(Repetition(t), Part(t))
  BY DEF Ahead, DrawsIn, Count
<1>2. KindOf("open_sync")' = KindOf("open_sync")
  BY DEF KindOf
<1>3. CASE phase'[t] = phase[t]
  BY <1>1, <1>2, <1>3, SameSegments DEF Kth
<1>4. CASE Left(t) = 0
  BY <1>1, <1>2, <1>4 DEF Kth
<1>5. QED
  BY <1>3, <1>4

\* The result of a task, and whether it has sizes, are its own.
LEMMA OtherResultsStay ==
  ASSUME TypeOK, NEW t \in Task, TaskStep(t), NEW u \in Task, u # t
  PROVE  rerr'[u] = rerr[u] /\ sized'[u] = sized[u]
<1> USE DEF TypeOK, taskVars
<1>1. CASE Start(t) \/ Prep(t) \/ PrepFails(t) \/ Sizes(t) \/ Seed(t)
  BY <1>1 DEF Start, Prep, PrepFails, Sizes, Seed
<1>2. CASE Create(t) \/ CreateFails(t) \/ LateCreate(t)
  BY <1>2 DEF Create, CreateFails, LateCreate
<1>3. CASE Open(t) \/ LateOpen(t) \/ Write(t) \/ Read(t) \/ Close(t)
  BY <1>3 DEF Open, LateOpen, OpenForReading, Write, Read, Close
<1>4. CASE Remove(t) \/ RemoveFails(t) \/ Commit(t)
  BY <1>4 DEF Remove, RemoveFails, Commit
<1>5. CASE Summary(t) \/ ReptSummary(t) \/ Post(t) \/ PostFails(t) \/ Fatal(t)
  BY <1>5 DEF Summary, ReptSummary, Post, PostFails, Fatal
<1>6. QED
  BY <1>1, <1>2, <1>3, <1>4, <1>5 DEF TaskStep

\* A task that goes to the reduction of the time records from another segment
\* has failed; otherwise it stays in its segment.
LEMMA LeavesByFailure ==
  ASSUME TypeOK, Placed, NEW t \in Task, TaskStep(t), ~Fatal(t)
  PROVE  \/ pc'[t] = "rept_reduce" /\ rerr'[t]
         \/ Part(t)' = Part(t) /\ Left(t)' = Left(t)
<1>1. SUFFICES ASSUME pc'[t] = "rept_reduce", ~rerr'[t]
               PROVE  Part(t)' = Part(t) /\ Left(t)' = Left(t)
  BY Advances
<1>2. Part(t)' = 2 /\ Left(t)' = 0
  BY <1>1 DEF Part, Left, Gone
<1>3. CASE Start(t)
  <2>1. pc[t] = "start" /\ ~test.write
    BY <1>1, <1>3 DEF Start, Goto, TypeOK
  <2>2. QED
    BY <1>2, <2>1 DEF Part, Left
<1>4. CASE Post(t)
  <2>1. pc[t] = "post" /\ (phase[t] = "read" \/ ~test.read)
    BY <1>1, <1>4 DEF Post, Goto, TypeOK
  <2>2. QED
    BY <1>2, <2>1 DEF Part, Left, Gone
<1>5. CASE PrepFails(t) \/ PostFails(t) \/ Commit(t)
  BY <1>1, <1>5 DEF PrepFails, PostFails, Commit, Goto, TypeOK, taskVars
<1>6. CASE Prep(t) \/ Sizes(t) \/ Seed(t) \/ Create(t) \/ CreateFails(t)
  BY <1>1, <1>6 DEF Prep, Sizes, Seed, Create, CreateFails, Goto, TypeOK,
     AfterPrep, AfterSizes, AfterOpen
<1>7. CASE LateCreate(t) \/ Open(t) \/ LateOpen(t) \/ Write(t) \/ Read(t)
  BY <1>1, <1>7 DEF LateCreate, Open, LateOpen, Write, Read, Goto, TypeOK,
     AfterOpen, AfterXfer
<1>8. CASE Close(t) \/ Remove(t) \/ RemoveFails(t) \/ Summary(t) \/ ReptSummary(t)
  BY <1>1, <1>8 DEF Close, Remove, RemoveFails, Summary, ReptSummary, Goto,
     TypeOK, AfterClose
<1>9. QED
  BY <1>3, <1>4, <1>5, <1>6, <1>7, <1>8 DEF TaskStep

-------------------------------------------------------------------------------
(* The steps of a task enter what its segment has next.                    *)

\* What a step that leaves task t in its segment does to its course.
GoesOn(t) ==
  /\ LenAt(t)' = IF pc'[t] \in Local THEN LenAt(t) ELSE LenAt(t) + 1
  /\ pc'[t] \notin Local => KindOf(pc'[t]) = Kth(t, LenAt(t) + 1)

LEMMA Parts ==
  ASSUME NEW t \in Task, TypeOK
  PROVE  /\ PartOf("write") = 0 /\ PartOf("read") = 1
         /\ phase[t] \in {"write", "read"}
         /\ rept[t] \in Int
         /\ test.random \in BOOLEAN /\ test.distrib \in BOOLEAN
         /\ test.write \in BOOLEAN /\ test.verbose \in BOOLEAN
         /\ test.intra_test_barrier \in BOOLEAN
  BY TestExecAssumption DEF PartOf, TypeOK, Type, Test

\* The numbers of collectives entered at the labels.
LEMMA Lengths ==
  ASSUME NEW r, NEW p
  PROVE  /\ LenOf("prep", r, p) = PartOf(p)
         /\ LenOf("sizes", r, p) = PartOf(p) + 1
         /\ LenOf("seed", r, p) = Ahead(r, PartOf(p))
         /\ LenOf("begin", r, p) = Ahead(r, PartOf(p)) + 1
         /\ LenOf("rept_reduce", r, p) = Count(test.write) + 1
         /\ LenOf("rept_end", r, p) = Count(test.verbose) + 1
         /\ LenOf("summary", r, p) = 1 /\ LenOf("post", r, p) = 1
         /\ LenOf("end", r, p) = 1 /\ LenOf("rept_summary", r, p) = 1
         /\ \A l \in Inner \ {"begin"} : LenOf(l, r, p) = 1
         /\ LenOf("start", r, p) = 0 /\ LenOf("commit", r, p) = 0
         /\ \A l \in {"create", "open", "late_create", "late_open", "xfer",
                     "close", "remove"} : LenOf(l, r, p) = 0
<1> USE DEF LenOf, Inner
<1>1. /\ LenOf("prep", r, p) = PartOf(p)
      /\ LenOf("sizes", r, p) = PartOf(p) + 1
      /\ LenOf("seed", r, p) = Ahead(r, PartOf(p))
      /\ LenOf("begin", r, p) = Ahead(r, PartOf(p)) + 1
  OBVIOUS
<1>2. /\ LenOf("rept_reduce", r, p) = Count(test.write) + 1
      /\ LenOf("rept_end", r, p) = Count(test.verbose) + 1
  OBVIOUS
<1>3. /\ LenOf("summary", r, p) = 1 /\ LenOf("post", r, p) = 1
      /\ LenOf("end", r, p) = 1 /\ LenOf("rept_summary", r, p) = 1
      /\ \A l \in Inner \ {"begin"} : LenOf(l, r, p) = 1
  OBVIOUS
<1>4. /\ LenOf("start", r, p) = 0 /\ LenOf("commit", r, p) = 0
      /\ \A l \in {"create", "open", "late_create", "late_open", "xfer",
                  "close", "remove"} : LenOf(l, r, p) = 0
  OBVIOUS
<1>5. QED
  BY <1>1, <1>2, <1>3, <1>4

LEMMA OneEntered ==
  ASSUME NEW l \in (Inner \ {"begin"}) \cup {"end"}, NEW r, NEW p
  PROVE  LenOf(l, r, p) = 1
  BY DEF LenOf, Inner

LEMMA LengthsStay ==
  ASSUME test' = test, NEW t \in Task
  PROVE  LenAt(t)' = LenOf(pc'[t], rept'[t], phase'[t])
<1>1. \A r, p : Ahead(r, p)' = Ahead(r, p)
  BY DEF Ahead, DrawsIn
<1>2. \A l, r, p : LenOf(l, r, p)' = LenOf(l, r, p)
  BY <1>1 DEF LenOf
<1>3. QED
  BY <1>2 DEF LenAt

\* From the start of a part to its first barrier.
LEMMA PrepGoesOn ==
  ASSUME TypeOK, NEW t \in Task, SizedAt(t), AskedAt(t), Prep(t)
  PROVE  GoesOn(t)
<1>0. /\ PartOf("write") = 0 /\ PartOf("read") = 1
      /\ phase[t] \in {"write", "read"} /\ rept[t] \in Int
      /\ test.intra_test_barrier \in BOOLEAN
  BY Parts
<1> USE <1>0
<1>1. /\ pc[t] = "prep" /\ rept' = rept /\ phase' = phase /\ test' = test
      /\ pc'[t] = AfterPrep(t)
  BY DEF Prep, Goto, TypeOK, taskVars
<1>2. /\ Part(t) = PartOf(phase[t]) /\ Left(t) = 0 /\ Repetition(t) = rept[t]
  BY <1>1 DEF Part, Left, Repetition, Gone
<1>3. /\ LenAt(t) = PartOf(phase[t])
      /\ LenAt(t)' = LenOf(pc'[t], rept[t], phase[t])
  BY <1>1, Lengths, LengthsStay DEF LenAt
<1>4. test.write
  BY <1>1 DEF AskedAt, Idle
<1>5. test.distrib => (~sized[t] <=> DrawsIn(rept[t], PartOf(phase[t])))
  BY <1>1, <1>4 DEF SizedAt, Undrawn, DrawsIn, Idle
<1>7. CASE test.distrib /\ ~sized[t]
  <2>1. pc'[t] = "sizes" /\ phase[t] = "write" /\ rept[t] = 1
    BY <1>1, <1>5, <1>7 DEF AfterPrep, DrawsIn
  <2>2. LenAt(t)' = 1 /\ LenAt(t) = 0
    BY <2>1, <1>3, Lengths
  <2>3. Ahead(1, 0) >= 1
    BY <1>7 DEF Ahead, DrawsIn, Count
  <2>4. Kth(t, 1) = "bcast"
    BY <2>1, <2>3, <1>2 DEF Kth
  <2>5. QED
    BY <2>1, <2>2, <2>4 DEF GoesOn, KindOf, Local, Bcast
<1>8. CASE ~(test.distrib /\ ~sized[t])
  <2>1. ~DrawsIn(rept[t], PartOf(phase[t]))
    BY <1>5, <1>8 DEF DrawsIn
  <2>2. Ahead(rept[t], PartOf(phase[t]))
          = PartOf(phase[t]) + Count(test.random)
    BY <2>1 DEF Ahead, Count
  <2>3. CASE test.random
    <3>1. pc'[t] = "seed"
      BY <1>1, <1>8, <2>3 DEF AfterPrep, AfterSizes
    <3>2. LenAt(t)' = LenAt(t) + 1
      BY <3>1, <1>3, <2>2, <2>3, Lengths DEF Count
    <3>3. Kth(t, LenAt(t) + 1) = "bcast"
      BY <1>2, <1>3, <2>2, <2>3 DEF Kth, Count
    <3>4. QED
      BY <3>1, <3>2, <3>3 DEF GoesOn, KindOf, Local, Bcast
  <2>4. CASE ~test.random
    <3>1. pc'[t] = "begin"
      BY <1>1, <1>8, <2>4 DEF AfterPrep, AfterSizes
    <3>2. LenAt(t)' = LenAt(t) + 1
      BY <3>1, <1>3, <2>2, <2>4, Lengths DEF Count
    <3>3. Kth(t, LenAt(t) + 1) = "barrier"
      BY <1>2, <1>3, <2>2, <2>4 DEF Kth, Count
    <3>4. QED
      BY <3>1, <3>2, <3>3 DEF GoesOn, KindOf, Local, Bcast
  <2>5. QED
    BY <2>3, <2>4
<1>9. QED
  BY <1>7, <1>8

LEMMA DrawGoesOn ==
  ASSUME TypeOK, NEW t \in Task, SizedAt(t), AskedAt(t), Sizes(t) \/ Seed(t)
  PROVE  GoesOn(t)
<1>0. /\ PartOf("write") = 0 /\ PartOf("read") = 1
      /\ phase[t] \in {"write", "read"} /\ rept[t] \in Int
      /\ test.intra_test_barrier \in BOOLEAN
  BY Parts
<1> USE <1>0
<1>1. /\ pc[t] \in {"sizes", "seed"} /\ rept' = rept /\ phase' = phase
      /\ test' = test
      /\ pc'[t] = IF pc[t] = "sizes" /\ test.random THEN "seed" ELSE "begin"
  BY DEF Sizes, Seed, Goto, TypeOK, taskVars, AfterSizes
<1>2. /\ Part(t) = PartOf(phase[t]) /\ Left(t) = 0 /\ Repetition(t) = rept[t]
  BY <1>1 DEF Part, Left, Repetition, Gone
<1>3. test.write
  BY <1>1 DEF AskedAt, Idle
<1>4. pc[t] = "sizes" =>
        test.distrib /\ rept[t] = 1 /\ phase[t] = "write"
  BY <1>1, <1>3 DEF SizedAt, AskedAt, Undrawn, Idle
<1>5. pc[t] = "seed" => test.random
  BY DEF AskedAt
<1>6. LenAt(t)' = LenOf(pc'[t], rept[t], phase[t])
  BY <1>1, LengthsStay
<1>7. /\ pc[t] = "sizes" => LenAt(t) = 1
      /\ pc[t] = "seed" => LenAt(t) = Ahead(rept[t], PartOf(phase[t]))
  BY <1>4, Lengths DEF LenAt
<1>8. /\ pc'[t] = "seed" => LenAt(t)' = Ahead(rept[t], PartOf(phase[t]))
      /\ pc'[t] = "begin" => LenAt(t)' = Ahead(rept[t], PartOf(phase[t])) + 1
  BY <1>6, Lengths
<1>9. /\ Ahead(rept[t], PartOf(phase[t])) \in Nat
      /\ pc[t] = "sizes" =>
           Ahead(rept[t], PartOf(phase[t])) = 1 + Count(test.random)
      /\ phase[t] = "read" \/ pc[t] = "seed" =>
           Ahead(rept[t], PartOf(phase[t])) >= 1
  BY <1>4, <1>5 DEF Ahead, DrawsIn, Count
<1>10. CASE pc[t] = "sizes" /\ test.random
  <2>1. LenAt(t)' = 2 /\ LenAt(t) = 1 /\ pc'[t] = "seed"
    BY <1>1, <1>7, <1>8, <1>9, <1>10 DEF Count
  <2>2. Kth(t, 2) = "bcast"
    BY <1>2, <1>4, <1>9, <1>10 DEF Kth, Count
  <2>3. QED
    BY <2>1, <2>2 DEF GoesOn, KindOf, Local, Bcast
<1>11. CASE ~(pc[t] = "sizes" /\ test.random)
  <2>1. /\ LenAt(t) = Ahead(rept[t], PartOf(phase[t]))
        /\ LenAt(t)' = LenAt(t) + 1 /\ pc'[t] = "begin"
    BY <1>1, <1>7, <1>8, <1>9, <1>11 DEF Count
  <2>2. Kth(t, LenAt(t) + 1) = "barrier"
    <3>1. ~(LenAt(t) + 1 <= Ahead(rept[t], PartOf(phase[t])))
      BY <2>1, <1>9
    <3>2. PartOf(phase[t]) = 1 => LenAt(t) + 1 # 1
      BY <2>1, <1>9
    <3>3. QED
      BY <3>1, <3>2, <1>2 DEF Kth, PartOf
  <2>3. QED
    BY <2>1, <2>2 DEF GoesOn, KindOf, Local, Bcast
<1>12. QED
  BY <1>10, <1>11

\* Between the barriers of a part each segment has one collective.
LEMMA InnerGoesOn ==
  ASSUME TypeOK, NEW t \in Task, PlacedAt(t), PlacedAt(t)',
         Part(t)' = Part(t), Left(t)' = Left(t), test' = test,
         phase'[t] = phase[t],
         pc[t] \in {"create", "late_create", "open", "late_open", "xfer",
                    "close", "remove"},
         pc'[t] \in {"open_sync", "opened", "xfer", "xfered", "close",
                     "close_sync", "remove_sync", "end"}
  PROVE  GoesOn(t)
<1>0. /\ PartOf("write") = 0 /\ PartOf("read") = 1
      /\ phase[t] \in {"write", "read"} /\ rept[t] \in Int
      /\ test.intra_test_barrier \in BOOLEAN
  BY Parts
<1> USE <1>0
<1>1. LenAt(t) = 0
  BY Lengths DEF LenAt
<1>2. LenAt(t)' = IF pc'[t] \in Local THEN 0 ELSE 1
  <2>1. LenAt(t)' = LenOf(pc'[t], rept'[t], phase'[t])
    BY LengthsStay
  <2>2. CASE pc'[t] \in {"xfer", "close"}
    BY <2>1, <2>2, Lengths DEF Local
  <2>3. CASE pc'[t] \in (Inner \ {"begin"}) \cup {"end"}
    <3>1. pc'[t] \notin Local
      BY <2>3 DEF Inner, Local
    <3>2. LenOf(pc'[t], rept'[t], phase'[t]) = 1
      BY <2>3, OneEntered
    <3>3. QED
      BY <2>1, <3>1, <3>2
  <2>4. QED
    BY <2>2, <2>3 DEF Inner
<1>3. ASSUME pc'[t] \notin Local
      PROVE  KindOf(pc'[t]) = Kth(t, 1)
  <2>1. Part(t) # 2
    BY DEF Part, Gone, PartOf
  <2>2. /\ CollectiveOpen(t)' = CollectiveOpen(t) /\ Removes(t)' = Removes(t)
        /\ ToOpened(t)' = ToOpened(t) /\ ToXfer(t)' = ToXfer(t)
        /\ ToClose(t)' = ToClose(t) /\ ToEnd(t)' = ToEnd(t)
    BY SameSegments
  <2>a. /\ ToOpened(t) \in Int /\ ToXfer(t) \in Int
        /\ ToClose(t) \in Int /\ ToEnd(t) \in Int
        /\ 1 <= ToOpened(t) /\ ToOpened(t) <= ToXfer(t)
        /\ ToXfer(t) <= ToClose(t) /\ ToClose(t) <= ToEnd(t)
    BY SegmentOrder
  <2>b. CollectiveOpen(t) => ToOpened(t) = 2
    BY Segments
  <2>c. test.intra_test_barrier =>
          ToXfer(t) = ToOpened(t) + 1 /\ ToClose(t) = ToXfer(t) + 1
    BY Segments
  <2>d. test.afio = "mpiio" /\ test.file_mode = "NX1" =>
          ToEnd(t) = ToClose(t) + 1
    BY Segments
  <2>3. Left(t) # 0
    BY <2>a DEF Left, Count
  <2>4. Kth(t, 1) =
          IF Left(t) = 1 /\ CollectiveOpen(t) THEN KindOf("open_sync")
          ELSE IF /\ test.afio = "mpiio" /\ test.file_mode = "NX1"
                  /\ Left(t) = ToClose(t)
               THEN "file_close" ELSE "barrier"
    BY <2>1, <2>3 DEF Kth
  <2>5. CASE pc'[t] = "open_sync"
    <3>1. Left(t) = 1 /\ CollectiveOpen(t)
      BY <2>2, <2>5 DEF Left, PlacedAt
    <3>2. QED
      BY <3>1, <2>4, <2>5
  <2>6. CASE pc'[t] = "opened"
    <3>1. Left(t) = ToOpened(t) /\ test.intra_test_barrier
      BY <2>2, <2>6 DEF Left, PlacedAt
    <3>2. Left(t) # ToClose(t) /\ ~(Left(t) = 1 /\ CollectiveOpen(t))
      BY <3>1, <2>a, <2>b, <2>c
    <3>3. QED
      BY <3>2, <2>4, <2>6 DEF KindOf, Bcast
  <2>7. CASE pc'[t] = "xfered"
    <3>1. Left(t) = ToXfer(t) /\ test.intra_test_barrier
      BY <2>2, <2>7 DEF Left, PlacedAt
    <3>2. Left(t) # ToClose(t) /\ ~(Left(t) = 1 /\ CollectiveOpen(t))
      BY <3>1, <2>a, <2>b, <2>c
    <3>3. QED
      BY <3>2, <2>4, <2>7 DEF KindOf, Bcast
  <2>8. CASE pc'[t] = "close_sync"
    <3>1. /\ Left(t) = ToClose(t)
          /\ test.afio = "mpiio" /\ test.file_mode = "NX1"
      BY <2>2, <2>8 DEF Left, PlacedAt
    <3>2. CollectiveOpen(t)
      BY <3>1 DEF CollectiveOpen
    <3>3. Left(t) # 1
      BY <3>1, <3>2, <2>a, <2>b
    <3>4. QED
      BY <3>1, <3>3, <2>4, <2>8 DEF KindOf, Bcast
  <2>9. CASE pc'[t] \in {"remove_sync", "end"}
    <3>1. Left(t)' \in {ToEnd(t), ToEnd(t) + 1}
      <4>1. ToEnd(t)' \in Int
        BY <2>2, <2>a
      <4>2. Left(t)' \in {ToEnd(t)', ToEnd(t)' + 1}
        BY <2>9, <4>1 DEF Left, Count
      <4>3. QED
        BY <2>2, <4>2
    <3>2. ~(Left(t) = 1 /\ CollectiveOpen(t))
      BY <3>1, <2>a, <2>b
    <3>3. ~(/\ test.afio = "mpiio" /\ test.file_mode = "NX1"
            /\ Left(t) = ToClose(t))
      BY <3>1, <2>a, <2>d
    <3>4. QED
      BY <3>2, <3>3, <2>4, <2>9 DEF KindOf, Bcast
  <2>10. QED
    BY <1>3, <2>5, <2>6, <2>7, <2>8, <2>9 DEF Local
<1>4. QED
  BY <1>1, <1>2, <1>3 DEF GoesOn

\* Before the write test, after a test, and at the end of a repetition.
LEMMA OuterGoesOn ==
  ASSUME TypeOK, NEW t \in Task, AskedAt(t),
         Start(t) \/ Commit(t) \/ Summary(t) \/ Post(t) \/ ReptSummary(t),
         ~(pc'[t] = "rept_reduce" /\ rerr'[t])
  PROVE  GoesOn(t)
<1>0. /\ PartOf("write") = 0 /\ PartOf("read") = 1
      /\ phase[t] \in {"write", "read"} /\ rept[t] \in Int
      /\ test.intra_test_barrier \in BOOLEAN
  BY Parts
<1> USE <1>0
<1>1. CASE Start(t)
  <2>1. /\ pc[t] = "start" /\ phase'[t] = "write" /\ test' = test
        /\ pc'[t] = IF test.write THEN "prep" ELSE "rept_reduce"
    BY <1>1 DEF Start, Goto, TypeOK
  <2>2. LenAt(t) = 0 /\ LenAt(t)' = Count(~test.write)
    <3>1. LenAt(t)' = LenOf(pc'[t], rept'[t], "write")
      BY <2>1, LengthsStay
    <3>2. QED
      BY <2>1, <3>1, Lengths DEF LenAt, Count
  <2>3. ~test.write => Kth(t, 1) = "rept_reduce"
    BY <2>1 DEF Kth, Part, Left
  <2>4. QED
    BY <2>1, <2>2, <2>3 DEF GoesOn, Local, KindOf, Bcast, Count
<1>2. CASE Commit(t)
  <2>1. pc[t] = "commit" /\ pc'[t] = "summary" /\ test' = test
    BY <1>2 DEF Commit, Goto, TypeOK, taskVars
  <2>2. LenAt(t) = 0 /\ LenAt(t)' = 1
    BY <2>1, Lengths, LengthsStay DEF LenAt
  <2>3. test.write
    BY <2>1 DEF AskedAt, Idle
  <2>4. Kth(t, 1) = "test_reduce"
    BY <2>1, <2>3 DEF Kth, Part, Left, Gone
  <2>5. QED
    BY <2>1, <2>2, <2>4 DEF GoesOn, Local, KindOf, Bcast
<1>3. CASE Summary(t)
  <2>1. pc[t] = "summary" /\ pc'[t] = "post" /\ test' = test
    BY <1>3 DEF Summary, Goto, TypeOK
  <2>2. LenAt(t) = 1 /\ LenAt(t)' = 1
    BY <2>1, Lengths, LengthsStay DEF LenAt
  <2>3. QED
    BY <2>1, <2>2 DEF GoesOn, Local
<1>4. CASE Post(t)
  <2>1. /\ pc[t] = "post" /\ test' = test
        /\ \/ /\ pc'[t] = "rept_reduce" /\ phase' = phase
              /\ phase[t] = "read" \/ ~test.read
           \/ pc'[t] = "prep" /\ phase'[t] = "read"
    BY <1>4 DEF Post, Goto, TypeOK
  <2>2. LenAt(t) = 1 /\ test.write
    BY <2>1, Lengths DEF LenAt, AskedAt, Idle
  <2>3. CASE pc'[t] = "prep"
    <3>1. LenAt(t)' = PartOf("read")
      BY <2>1, <2>3, Lengths, LengthsStay
    <3>2. QED
      BY <2>2, <2>3, <3>1 DEF GoesOn, Local
  <2>4. CASE pc'[t] = "rept_reduce"
    <3>1. LenAt(t)' = 2
      BY <2>1, <2>2, <2>4, Lengths, LengthsStay DEF Count
    <3>2. Part(t) = 2 /\ Left(t) = 0
      BY <2>1, <2>4 DEF Part, Left, Gone
    <3>3. Kth(t, 2) = "rept_reduce"
      BY <3>2 DEF Kth
    <3>4. QED
      BY <2>2, <2>4, <3>1, <3>3 DEF GoesOn, Local, KindOf, Bcast
  <2>5. QED
    BY <2>1, <2>3, <2>4
<1>5. CASE ReptSummary(t)
  <2>1. pc[t] = "rept_summary" /\ pc'[t] = "rept_end" /\ test' = test
    BY <1>5 DEF ReptSummary, Goto, TypeOK
  <2>2. LenAt(t) = 1 /\ LenAt(t)' = 2
    BY <2>1, Lengths, LengthsStay DEF LenAt, AskedAt, Count
  <2>3. Part(t) = 2 /\ Left(t) = 1
    BY <2>1 DEF Part, Left, Gone
  <2>4. Kth(t, 2) = "barrier"
    BY <2>3 DEF Kth
  <2>5. QED
    BY <2>1, <2>2, <2>4 DEF GoesOn, Local, KindOf, Bcast, Count
<1>6. QED
  BY <1>1, <1>2, <1>3, <1>4, <1>5

-------------------------------------------------------------------------------
(* A step of a task preserves the courses.                                 *)

LEMMA Appended ==
  ASSUME NEW S, NEW s \in Seq(S), NEW e \in S
  PROVE  /\ Len(s \o <<e>>) = Len(s) + 1
         /\ \A k \in 1 .. Len(s) : (s \o <<e>>)[k] = s[k]
         /\ (s \o <<e>>)[Len(s) + 1] = e
         /\ s \o <<>> = s
<1>1. <<e>> \in Seq(S)
  OBVIOUS
<1>2. QED
  BY <1>1

\* A course goes on with what its segment has next.
LEMMA FollowsOn ==
  ASSUME TypeOK, NEW t \in Task, NEW to \in Label, Goto(t, pc[t], to),
         test' = test, Follows(t), GoesOn(t), LenAt(t) \in Nat,
         \A k \in Nat : Kth(t, k)' = Kth(t, k)
  PROVE  Follows(t)'
<1>1. pc'[t] = to /\ trail'[t] = trail[t] \o Entered(to)
  BY DEF Goto, TypeOK
<1>2. trail[t] \in Seq(Kind) /\ KindOf(to) \in Kind
  BY DEF TypeOK, KindOf, Kind, Bcast
<1>3. Len(trail[t]) = LenAt(t) /\ \A k \in 1 .. LenAt(t) : trail[t][k] = Kth(t, k)
  BY DEF Follows
<1>4. CASE to \in Local
  <2>1. trail'[t] = trail[t] /\ LenAt(t)' = LenAt(t)
    BY <1>1, <1>2, <1>4, Appended DEF Entered, GoesOn
  <2>2. QED
    BY <2>1, <1>3 DEF Follows
<1>5. CASE to \notin Local
  <2>1. /\ trail'[t] = trail[t] \o <<KindOf(to)>> /\ LenAt(t)' = LenAt(t) + 1
        /\ KindOf(to) = Kth(t, LenAt(t) + 1)
    BY <1>1, <1>5 DEF Entered, GoesOn
  <2>2. /\ Len(trail'[t]) = Len(trail[t]) + 1
        /\ \A k \in 1 .. Len(trail[t]) : trail'[t][k] = trail[t][k]
        /\ trail'[t][Len(trail[t]) + 1] = KindOf(to)
    BY <2>1, <1>2, Appended
  <2>3. Len(trail'[t]) = LenAt(t)'
    BY <2>1, <2>2, <1>3
  <2>4. ASSUME NEW k \in 1 .. LenAt(t)'
        PROVE  trail'[t][k] = Kth(t, k)'
    <3>1. k \in Nat /\ Kth(t, k)' = Kth(t, k)
      BY <2>1
    <3>2. CASE k \in 1 .. LenAt(t)
      BY <3>1, <3>2, <2>2, <1>3
    <3>3. CASE k = LenAt(t) + 1
      <4>1. trail'[t][k] = KindOf(to)
        BY <3>3, <2>2, <1>3
      <4>2. Kth(t, k) = KindOf(to)
        BY <3>3, <2>1
      <4>3. QED
        BY <4>1, <4>2, <3>1
    <3>4. k \in 1 .. LenAt(t) \/ k = LenAt(t) + 1
      BY <2>1
    <3>5. QED
      BY <3>2, <3>3, <3>4
  <2>5. QED
    BY <2>3, <2>4 DEF Follows
<1>6. QED
  BY <1>4, <1>5

LEMMA LengthNat == ASSUME TypeOK, NEW t \in Task PROVE LenAt(t) \in Nat
<1>1. \A r, p : Ahead(r, p) \in Nat
  BY DEF Ahead, Count
<1>2. \A p : PartOf(p) \in Nat
  BY DEF PartOf
<1>3. pc[t] \in Label
  BY DEF TypeOK
<1>4. QED
  BY <1>1, <1>2, <1>3 DEF LenAt, LenOf, Count, Inner, Label, Local, Sync, Bcast,
     Reduce

\* Every step of a task that does not give up goes on in the task's segment.
LEMMA GoesOnStep ==
  ASSUME TypeOK, Placed, NEW t \in Task, SizedAt(t), AskedAt(t), TaskStep(t),
         ~Fatal(t), ~Waiting(t)'
  PROVE  GoesOn(t) /\ \A k \in Nat : Kth(t, k)' = Kth(t, k)
<1>1. test' = test
  BY OthersStay
<1>2. /\ PlacedAt(t)' /\ Repetition(t)' = Repetition(t)
      /\ Part(t)' = Part(t) /\ Left(t)' = Left(t)
  BY Advances, LeavesByFailure DEF Waiting
<1>3. PlacedAt(t)
  BY DEF Placed
<1>4. CASE Prep(t)
  <2>1. phase' = phase
    BY <1>4 DEF Prep, taskVars
  <2>2. QED
    BY <2>1, <1>1, <1>2, <1>4, PrepGoesOn, KthStays
<1>5. CASE Sizes(t) \/ Seed(t)
  <2>1. phase' = phase
    BY <1>5 DEF Sizes, Seed, taskVars
  <2>2. QED
    BY <2>1, <1>1, <1>2, <1>5, DrawGoesOn, KthStays
<1>6. CASE Create(t) \/ CreateFails(t) \/ LateCreate(t) \/ Open(t) \/ LateOpen(t)
  <2>1. /\ phase' = phase
        /\ pc[t] \in {"create", "late_create", "open", "late_open"}
        /\ pc'[t] \in {"open_sync", "opened", "xfer"}
    BY <1>6 DEF Create, CreateFails, LateCreate, Open, LateOpen, OpenForReading,
       Goto, AfterOpen, TypeOK, taskVars
  <2>2. QED
    BY <2>1, <1>1, <1>2, <1>3, InnerGoesOn, KthStays
<1>7. CASE Write(t) \/ Read(t) \/ Close(t)
  <2>1. /\ phase' = phase /\ pc[t] \in {"xfer", "close"}
        /\ pc'[t] \in {"xfered", "close", "close_sync", "remove_sync", "end"}
    BY <1>7 DEF Write, Read, Close, Goto, AfterXfer, AfterClose, TypeOK, taskVars
  <2>2. QED
    BY <2>1, <1>1, <1>2, <1>3, InnerGoesOn, KthStays
<1>8. CASE Remove(t) \/ RemoveFails(t)
  <2>1. phase' = phase /\ pc[t] = "remove" /\ pc'[t] = "end"
    BY <1>8 DEF Remove, RemoveFails, Goto, TypeOK
  <2>2. QED
    BY <2>1, <1>1, <1>2, <1>3, InnerGoesOn, KthStays
<1>9. CASE Start(t) \/ Commit(t) \/ Summary(t) \/ Post(t) \/ ReptSummary(t)
  <2>1. phase' = phase \/ Left(t) = 0
    <3>1. CASE Start(t) \/ Post(t)
      BY <3>1 DEF Start, Post, Goto, Left
    <3>2. CASE Commit(t) \/ Summary(t) \/ ReptSummary(t)
      BY <3>2 DEF Commit, Summary, ReptSummary, taskVars
    <3>3. QED
      BY <1>9, <3>1, <3>2
  <2>2. \A k \in Nat : Kth(t, k)' = Kth(t, k)
    BY <2>1, <1>1, <1>2, KthStays
  <2>3. GoesOn(t)
    BY <1>9, OuterGoesOn DEF Waiting
  <2>4. QED
    BY <2>2, <2>3
<1>10. CASE PrepFails(t) \/ PostFails(t)
  BY <1>10 DEF PrepFails, PostFails, Goto, Waiting, TypeOK
<1>11. QED
  BY <1>4, <1>5, <1>6, <1>7, <1>8, <1>9, <1>10 DEF TaskStep

\* What a task entered when it gives up its test.
LEMMA GivesUp ==
  ASSUME TypeOK, Placed, NEW t \in Task, AskedAt(t), Follows(t), TaskStep(t),
         ~Fatal(t), Waiting(t)'
  PROVE  /\ GaveUp(t)'
         /\ Len(trail'[t]) # 1 => Part(t) # 0 /\ Left(t) = 0
<1>1. pc'[t] = "rept_reduce" /\ rerr'[t]
  BY DEF Waiting
<1>2. test' = test
  BY OthersStay
<1>3. trail[t] \in Seq(Kind)
  BY DEF TypeOK
<1>4. phase[t] \in {"write", "read"} /\ PartOf("write") = 0 /\ PartOf("read") = 1
  BY Parts
<1>5. pc[t] \in {"prep", "commit", "post"}
  <2>1. CASE Start(t) \/ Prep(t) \/ Sizes(t) \/ Seed(t) \/ Create(t)
    BY <1>1, <2>1 DEF Start, Prep, Sizes, Seed, Create, Goto, TypeOK, AfterPrep,
       AfterSizes, AfterOpen
  <2>2. CASE CreateFails(t) \/ LateCreate(t) \/ Open(t) \/ LateOpen(t)
    BY <1>1, <2>2 DEF CreateFails, LateCreate, Open, LateOpen, Goto, TypeOK,
       AfterOpen
  <2>3. CASE Write(t) \/ Read(t) \/ Close(t) \/ Remove(t) \/ RemoveFails(t)
    BY <1>1, <2>3 DEF Write, Read, Close, Remove, RemoveFails, Goto, TypeOK,
       AfterXfer, AfterClose
  <2>4. CASE Summary(t) \/ ReptSummary(t)
    BY <1>1, <2>4 DEF Summary, ReptSummary, Goto, TypeOK
  <2>5. CASE PrepFails(t) \/ Commit(t) \/ Post(t) \/ PostFails(t)
    BY <2>5 DEF PrepFails, Commit, Post, PostFails, Goto
  <2>6. QED
    BY <2>1, <2>2, <2>3, <2>4, <2>5 DEF TaskStep
<1>6. trail'[t] = trail[t] \o <<"rept_reduce">>
  <2>1. PICK to \in Label : Goto(t, pc[t], to)
    BY Goes
  <2>2. to = "rept_reduce" /\ trail'[t] = trail[t] \o Entered(to)
    BY <2>1, <1>1 DEF Goto, TypeOK
  <2>3. QED
    BY <2>2 DEF Entered, Local, KindOf, Bcast
<1>7. test.write /\ Left(t) = 0
  BY <1>5 DEF AskedAt, Idle, Left
<1>a. /\ Len(trail'[t]) = Len(trail[t]) + 1
      /\ \A k \in 1 .. Len(trail[t]) : trail'[t][k] = trail[t][k]
      /\ trail'[t][Len(trail[t]) + 1] = "rept_reduce"
  <2>1. "rept_reduce" \in Kind
    BY DEF Kind
  <2>2. QED
    BY <2>1, <1>3, <1>6, Appended
<1>8. CASE LenAt(t) = 0
  <2>1. Len(trail[t]) = 0
    BY <1>8 DEF Follows
  <2>2. QED
    BY <2>1, <1>a DEF GaveUp
<1>9. CASE LenAt(t) = 1 /\ Kth(t, 1) = "test_reduce" /\ Part(t) # 0
  <2>1. Len(trail[t]) = 1 /\ trail[t][1] = "test_reduce"
    BY <1>9 DEF Follows
  <2>2. QED
    BY <2>1, <1>2, <1>a, <1>7, <1>9 DEF GaveUp
<1>10. CASE pc[t] = "prep"
  <2>1. LenAt(t) = PartOf(phase[t]) /\ Part(t) = PartOf(phase[t])
    BY <1>10, Lengths DEF LenAt, Part, Gone
  <2>2. Part(t) = 1 => Kth(t, 1) = "test_reduce"
    BY <1>7 DEF Kth
  <2>3. QED
    BY <2>1, <2>2, <1>4, <1>8, <1>9
<1>11. CASE pc[t] = "commit"
  BY <1>8, <1>11, Lengths DEF LenAt
<1>12. CASE pc[t] = "post"
  <2>1. LenAt(t) = 1 /\ Part(t) \in {1, 2}
    BY <1>12, Lengths DEF LenAt, Part, Gone
  <2>2. Kth(t, 1) = "test_reduce"
    BY <2>1, <1>7 DEF Kth
  <2>3. QED
    BY <2>1, <2>2, <1>9
<1>13. QED
  BY <1>5, <1>10, <1>11, <1>12

LEMMA AskedStep ==
  ASSUME TypeOK, NEW t \in Task, AskedAt(t), TaskStep(t)
  PROVE  AskedAt(t)'
<1> USE DEF AskedAt, Idle
<1>1. test' = test
  BY OthersStay
<1>2. CASE Start(t)
  BY <1>1, <1>2 DEF Start, Goto, TypeOK
<1>3. CASE Prep(t) \/ PrepFails(t) \/ Sizes(t) \/ Seed(t)
  BY <1>1, <1>3 DEF Prep, PrepFails, Sizes, Seed, Goto, TypeOK, AfterPrep,
     AfterSizes
<1>4. CASE Create(t) \/ CreateFails(t) \/ LateCreate(t) \/ Open(t) \/ LateOpen(t)
  BY <1>1, <1>4 DEF Create, CreateFails, LateCreate, Open, LateOpen, Goto,
     TypeOK, AfterOpen
<1>5. CASE Write(t) \/ Read(t) \/ Close(t) \/ Remove(t) \/ RemoveFails(t)
  BY <1>1, <1>5 DEF Write, Read, Close, Remove, RemoveFails, Goto, TypeOK,
     AfterXfer, AfterClose
<1>6. CASE Commit(t) \/ Summary(t) \/ ReptSummary(t) \/ Post(t) \/ PostFails(t)
  BY <1>1, <1>6 DEF Commit, Summary, ReptSummary, Post, PostFails, Goto, TypeOK
<1>7. CASE Fatal(t)
  BY <1>1, <1>7 DEF Fatal
<1>8. QED
  BY <1>2, <1>3, <1>4, <1>5, <1>6, <1>7 DEF TaskStep

LEMMA SizedStep ==
  ASSUME TypeOK, NEW t \in Task, AskedAt(t), SizedAt(t), TaskStep(t)
  PROVE  SizedAt(t)'
<1>0. rept[t] \in Nat /\ phase[t] \in {"write", "read"}
  BY TestExecAssumption DEF TypeOK, Type
<1>1. test' = test
  BY OthersStay
<1>2. CASE Start(t)
  <2>1. /\ pc[t] = "start" /\ pc'[t] \in {"prep", "rept_reduce"}
        /\ test.write => pc'[t] = "prep"
        /\ rept'[t] = rept[t] + 1 /\ phase'[t] = "write" /\ sized' = sized
    BY <1>2 DEF Start, Goto, TypeOK
  <2>2. QED
    BY <1>0, <1>1, <2>1 DEF SizedAt, Undrawn, Idle
<1>3. CASE Prep(t)
  <2>1. /\ pc[t] = "prep" /\ pc'[t] \in {"sizes", "seed", "begin"}
        /\ pc'[t] = "sizes" <=> test.distrib /\ ~sized[t]
        /\ rept' = rept /\ phase' = phase /\ sized' = sized
    BY <1>3 DEF Prep, Goto, TypeOK, AfterPrep, AfterSizes, taskVars
  <2>2. QED
    BY <1>0, <1>1, <2>1 DEF SizedAt, Undrawn, Idle
<1>4. CASE PrepFails(t) \/ PostFails(t)
  <2>1. /\ pc[t] \in {"prep", "post"} /\ pc'[t] = "rept_reduce" /\ rerr'[t]
        /\ rept' = rept
    BY <1>4 DEF PrepFails, PostFails, Goto, TypeOK
  <2>2. QED
    BY <1>1, <2>1 DEF SizedAt, Undrawn, Idle
<1>5. CASE Sizes(t)
  <2>1. /\ pc[t] = "sizes" /\ pc'[t] \in {"seed", "begin"}
        /\ rept' = rept /\ sized'[t] = TRUE
    BY <1>5 DEF Sizes, Goto, TypeOK, AfterSizes
  <2>2. QED
    BY <1>1, <2>1 DEF SizedAt, Undrawn
<1>6. ASSUME pc[t] \notin {"start", "prep", "sizes"}, pc[t] \notin Idle,
             pc'[t] \notin {"start", "sizes"},
             pc'[t] = "prep" => phase'[t] = "read",
             rept' = rept, sized' = sized
      PROVE  SizedAt(t)'
  <2>1. test.write
    BY <1>6 DEF AskedAt
  <2>2. test.distrib => sized[t]
    BY <1>6, <2>1 DEF SizedAt, Undrawn
  <2>3. QED
    BY <1>1, <1>6, <2>2 DEF SizedAt, Undrawn
<1>7. CASE Seed(t) \/ Create(t) \/ CreateFails(t) \/ LateCreate(t)
  <2>1. /\ pc[t] \in {"seed", "create", "late_create"}
        /\ pc'[t] \in {"begin", "open_sync", "opened", "xfer"}
        /\ rept' = rept /\ sized' = sized
    BY <1>7 DEF Seed, Create, CreateFails, LateCreate, Goto, TypeOK, AfterOpen,
       taskVars
  <2>2. QED
    BY <1>6, <2>1 DEF Idle
<1>8. CASE Open(t) \/ LateOpen(t) \/ Write(t) \/ Read(t)
  <2>1. /\ pc[t] \in {"open", "late_open", "xfer"}
        /\ pc'[t] \in {"open_sync", "opened", "xfer", "xfered", "close"}
        /\ rept' = rept /\ sized' = sized
    BY <1>8 DEF Open, LateOpen, OpenForReading, Write, Read, Goto, TypeOK,
       AfterOpen, AfterXfer, taskVars
  <2>2. QED
    BY <1>6, <2>1 DEF Idle
<1>9. CASE Close(t) \/ Remove(t) \/ RemoveFails(t) \/ Commit(t) \/ Summary(t)
  <2>1. /\ pc[t] \in {"close", "remove", "commit", "summary"}
        /\ pc'[t] \in {"close_sync", "remove_sync", "end", "summary", "post",
                       "rept_reduce"}
        /\ rept' = rept /\ sized' = sized
    BY <1>9 DEF Close, Remove, RemoveFails, Commit, Summary, Goto, TypeOK,
       AfterClose, taskVars
  <2>2. QED
    BY <1>6, <2>1 DEF Idle
<1>10. CASE Post(t)
  <2>1. /\ pc[t] = "post"
        /\ \/ pc'[t] = "rept_reduce"
           \/ pc'[t] = "prep" /\ phase'[t] = "read"
        /\ rept' = rept /\ sized' = sized
    BY <1>10 DEF Post, Goto, TypeOK
  <2>2. QED
    BY <1>6, <2>1 DEF Idle
<1>11. CASE ReptSummary(t)
  <2>1. /\ pc[t] = "rept_summary" /\ pc'[t] = "rept_end"
        /\ rept' = rept /\ sized' = sized /\ rerr' = rerr
    BY <1>11 DEF ReptSummary, Goto, TypeOK, taskVars
  <2>2. QED
    BY <1>1, <2>1 DEF SizedAt, Undrawn, Idle
<1>12. CASE Fatal(t)
  BY <1>12 DEF Fatal, taskVars, SizedAt, Undrawn
<1>13. QED
  BY <1>2, <1>3, <1>4, <1>5, <1>7, <1>8, <1>9, <1>10, <1>11, <1>12 DEF TaskStep

\* What is said of the course of a task depends on that task alone.
LEMMA SameCourse ==
  ASSUME NEW u \in Task, test' = test, pc'[u] = pc[u], trail'[u] = trail[u],
         rept'[u] = rept[u], phase'[u] = phase[u], rerr'[u] = rerr[u],
         sized'[u] = sized[u]
  PROVE  /\ Waiting(u)' = Waiting(u) /\ GaveUp(u)' = GaveUp(u)
         /\ Follows(u) => Follows(u)'
         /\ Entered(pc[u])' = Entered(pc[u])
         /\ AskedAt(u)' = AskedAt(u) /\ SizedAt(u)' = SizedAt(u)
<1>1. /\ Repetition(u)' = Repetition(u) /\ Part(u)' = Part(u)
      /\ Left(u)' = Left(u)
  BY SamePlace
<1>2. \A k \in Nat : Kth(u, k)' = Kth(u, k)
  BY <1>1, KthStays
<1>3. LenAt(u)' = LenAt(u)
  BY LengthsStay DEF LenAt
<1>4. Follows(u) => Follows(u)'
  <2>1. SUFFICES ASSUME Follows(u) PROVE Follows(u)'
    OBVIOUS
  <2>2. ASSUME NEW k \in 1 .. LenAt(u)
        PROVE  trail'[u][k] = Kth(u, k)'
    <3>1. k \in Nat
      OBVIOUS
    <3>2. QED
      BY <3>1, <1>2, <2>1 DEF Follows
  <2>3. QED
    BY <2>1, <2>2, <1>3 DEF Follows
<1>5. /\ Waiting(u)' = Waiting(u) /\ GaveUp(u)' = GaveUp(u)
      /\ AskedAt(u)' = AskedAt(u) /\ SizedAt(u)' = SizedAt(u)
  BY DEF Waiting, GaveUp, AskedAt, SizedAt, Undrawn
<1>6. Entered(pc[u])' = Entered(pc[u])
  BY DEF Entered, KindOf
<1>7. QED
  BY <1>4, <1>5, <1>6

LEMMA DivergeTaskStep ==
  ASSUME IInv, DInv, NEW t \in Task, TaskStep(t), ~Fatal(t)
  PROVE  DInv'
<1> USE DEF IInv
<1>1. /\ pc[t] \notin {"rept_reduce", "comm_free", "done"}
      /\ pc'[t] \notin {"start", "comm_free", "done"}
      /\ \/ pc'[t] = "rept_reduce"
         \/ Part(t)' = Part(t) /\ Left(t)' = Left(t)
  BY Advances
<1>2. ~Gone(t) /\ ~Gone(t)' /\ ~Waiting(t)
  BY <1>1 DEF Gone, Waiting
<1>3. \/ Waiting(t)'
      \/ Part(t)' = Part(t) /\ Left(t)' = Left(t)
  BY LeavesByFailure DEF Waiting
<1>4. \A v \in Task : /\ pc'[v] = "rept_reduce" => Part(v)' = 2 /\ Left(v)' = 0
                      /\ Waiting(v) => Part(v) = 2 /\ Left(v) = 0
  BY DEF Part, Left, Gone, Waiting
<1>5. AskedAt(t) /\ SizedAt(t) /\ Follows(t)
  BY <1>2 DEF DInv, Asked, SizesOnce, Courses
<1>6. ASSUME NEW u \in Task, u # t
      PROVE  /\ pc'[u] = pc[u] /\ trail'[u] = trail[u] /\ rerr'[u] = rerr[u]
             /\ Part(u)' = Part(u) /\ Left(u)' = Left(u) /\ Gone(u)' = Gone(u)
             /\ Waiting(u)' = Waiting(u) /\ GaveUp(u)' = GaveUp(u)
             /\ Follows(u) => Follows(u)'
             /\ Entered(pc[u])' = Entered(pc[u])
             /\ AskedAt(u)' = AskedAt(u) /\ SizedAt(u)' = SizedAt(u)
  <2>1. /\ test' = test /\ pc'[u] = pc[u] /\ trail'[u] = trail[u]
        /\ rept'[u] = rept[u] /\ phase'[u] = phase[u]
    BY <1>6, OthersStay
  <2>2. rerr'[u] = rerr[u] /\ sized'[u] = sized[u]
    BY <1>6, OtherResultsStay
  <2>3. QED
    BY <2>1, <2>2, SamePlace, SameCourse
<1>7. Asked' /\ SizesOnce'
  <2>1. AskedAt(t)' /\ SizedAt(t)'
    BY <1>5, AskedStep, SizedStep
  <2>2. QED
    BY <2>1, <1>6 DEF DInv, Asked, SizesOnce
<1>8. IF Waiting(t)' THEN GaveUp(t)' ELSE Follows(t)'
  <2>1. CASE Waiting(t)'
    BY <2>1, <1>5, GivesUp
  <2>2. CASE ~Waiting(t)'
    <3>1. GoesOn(t) /\ \A k \in Nat : Kth(t, k)' = Kth(t, k)
      BY <2>2, <1>5, GoesOnStep
    <3>2. PICK to \in Label : Goto(t, pc[t], to)
      BY Goes
    <3>3. test' = test /\ LenAt(t) \in Nat
      BY OthersStay, LengthNat
    <3>4. QED
      BY <2>2, <3>1, <3>2, <3>3, <1>5, FollowsOn
  <2>3. QED
    BY <2>1, <2>2
<1>9. Courses'
  <2>1. SUFFICES ASSUME NEW u \in Task
                 PROVE  /\ ~Gone(u)' => IF Waiting(u)' THEN GaveUp(u)'
                                                       ELSE Follows(u)'
                        /\ Gone(u)' => trail'[u] = Entered(pc[u])'
    BY DEF Courses
  <2>2. CASE u = t
    BY <2>2, <1>2, <1>8
  <2>3. CASE u # t
    BY <2>3, <1>6 DEF DInv, Courses
  <2>4. QED
    BY <2>2, <2>3
<1>10. Beside'
  <2>1. SUFFICES ASSUME NEW u \in Task, NEW v \in Task, ~Gone(u)', ~Gone(v)'
                 PROVE  /\ \/ Waiting(u)' \/ Waiting(v)'
                           \/ Part(u)' = Part(v)' /\ Left(u)' = Left(v)'
                        /\ Waiting(u)' /\ Len(trail'[u]) # 1 =>
                             Part(v)' # 0 /\ Left(v)' = 0
    BY DEF Beside
  <2>2. /\ \/ Waiting(u) \/ Waiting(v)
           \/ Part(u) = Part(v) /\ Left(u) = Left(v)
        /\ Waiting(u) /\ Len(trail[u]) # 1 => Part(v) # 0 /\ Left(v) = 0
    BY <2>1, <1>2, <1>6 DEF DInv, Beside
  <2>3. CASE u # t /\ v # t
    BY <2>2, <2>3, <1>6
  <2>4. CASE u = t /\ v # t
    <3>1. \/ Waiting(v)' \/ Waiting(t)'
          \/ Part(t)' = Part(v)' /\ Left(t)' = Left(v)'
      BY <2>2, <2>4, <1>2, <1>3, <1>6
    <3>2. ASSUME Waiting(t)', Len(trail'[t]) # 1
          PROVE  Part(v)' # 0 /\ Left(v)' = 0
      <4>1. Part(t) # 0 /\ Left(t) = 0
        BY <3>2, <1>5, GivesUp
      <4>2. Part(v) # 0 /\ Left(v) = 0
        BY <4>1, <2>2, <2>4, <1>2, <1>4
      <4>3. QED
        BY <4>2, <2>4, <1>6
    <3>3. QED
      BY <3>1, <3>2, <2>4
  <2>5. CASE u # t /\ v = t
    <3>1. \/ Waiting(u)' \/ Waiting(t)'
          \/ Part(u)' = Part(t)' /\ Left(u)' = Left(t)'
      BY <2>2, <2>5, <1>2, <1>3, <1>6
    <3>2. ASSUME Waiting(u)', Len(trail'[u]) # 1
          PROVE  Part(t)' # 0 /\ Left(t)' = 0
      <4>1. Part(t) # 0 /\ Left(t) = 0
        BY <3>2, <2>2, <2>5, <1>6
      <4>2. QED
        BY <4>1, <1>1, <1>4
    <3>3. QED
      BY <3>1, <3>2, <2>5
  <2>6. CASE u = t /\ v = t
    BY <2>6, <1>4 DEF Waiting
  <2>7. QED
    BY <2>3, <2>4, <2>5, <2>6
<1>11. GoneByFailure'
  BY <1>2, <1>6 DEF DInv, GoneByFailure
<1>12. QED
  BY <1>7, <1>9, <1>10, <1>11 DEF DInv

\* The course of a task starts anew with the collective it goes to.
LEMMA ReleaseFollows ==
  ASSUME IInv, Release, NEW t \in Task, ~Gone(t)'
  PROVE  Follows(t)'
<1>1. /\ pc'[t] = AfterSync(t) /\ trail'[t] = Entered(AfterSync(t))
      /\ test' = test
  BY DEF Release
<1>2. pc[t] \in Inner \cup {"end", "rept_reduce", "rept_end", "comm_free"}
      /\ PlacedAt(t)
  BY ReleaseFrom
<1>3. phase[t] \in {"write", "read"}
  BY DEF IInv, TypeOK, Type
<1>4. LenAt(t)' = LenOf(pc'[t], rept'[t], phase'[t])
  BY <1>1, LengthsStay
<1>5. CASE pc'[t] \in Local
  <2>1. pc'[t] \in {"create", "open", "late_create", "late_open", "xfer",
                    "close", "remove", "commit", "start"}
    BY <1>1, <1>2, <1>5 DEF AfterSync, AfterRept, AfterClose, Inner, Gone, Local
  <2>2. LenAt(t)' = 0
    BY <2>1, <1>4, Lengths
  <2>3. trail'[t] = <<>>
    BY <1>1, <1>5 DEF Entered
  <2>4. QED
    BY <2>2, <2>3 DEF Follows
<1>6. ASSUME pc'[t] \notin Local, LenAt(t)' = 1, Kth(t, 1)' = KindOf(pc'[t])
      PROVE  Follows(t)'
  <2>1. trail'[t] = <<KindOf(pc'[t])>>
    BY <1>1, <1>6 DEF Entered
  <2>2. QED
    BY <2>1, <1>6 DEF Follows
<1>7. CASE pc[t] = "close_sync"
  <2>1. /\ pc'[t] \in {"remove_sync", "end"} /\ phase'[t] = phase[t]
    BY <1>1, <1>7 DEF AfterSync, AfterClose, Release, taskVars
  <2>2. LenAt(t)' = 1
    BY <2>1, <1>4, OneEntered DEF Inner
  <2>3. /\ Part(t)' = Part(t) /\ Left(t)' = Left(t) + 1
    BY <1>2, <1>7, InnerRelease DEF IInv, Inner
  <2>4. Part(t) # 2 /\ Left(t) = ToClose(t)
    BY <1>3, <1>7 DEF Part, Left, Gone, PartOf
  <2>5. ToClose(t)' = ToClose(t) /\ CollectiveOpen(t)' = CollectiveOpen(t)
    BY <1>1, <2>1, SameSegments
  <2>6. ToClose(t) \in Nat /\ ToClose(t) >= 1
    BY SegmentOrder
  <2>7. Part(t)' # 2 /\ Left(t)' # 0 /\ Left(t)' # 1 /\ Left(t)' # ToClose(t)'
    BY <2>3, <2>4, <2>5, <2>6
  <2>8. Kth(t, 1)' = "barrier"
    BY <2>7 DEF Kth
  <2>9. QED
    BY <2>1, <2>2, <2>8, <1>6 DEF Local, KindOf, Bcast
<1>8. CASE pc[t] = "rept_reduce"
  <2>1. pc'[t] = IF test.verbose THEN "rept_summary" ELSE "rept_end"
    BY <1>1, <1>8 DEF AfterSync
  <2>2. LenAt(t)' = 1
    BY <2>1, <1>1, <1>4, Lengths DEF Count
  <2>3. Part(t)' = 2 /\ Left(t)' = 1
    BY <2>1 DEF Part, Left, Gone
  <2>4. Kth(t, 1)' = IF test.verbose THEN "time_reduce" ELSE "barrier"
    BY <2>3, <1>1 DEF Kth
  <2>5. QED
    BY <2>1, <2>2, <2>4, <1>6 DEF Local, KindOf, Bcast
<1>9. CASE pc[t] \in {"begin", "open_sync", "opened", "xfered", "remove_sync",
                      "end", "rept_end", "comm_free"}
  <2>1. pc'[t] \in Local
    BY <1>1, <1>9 DEF AfterSync, AfterRept, Gone, Local
  <2>2. QED
    BY <2>1, <1>5
<1>10. QED
  BY <1>2, <1>7, <1>8, <1>9 DEF Inner

LEMMA DivergeRelease ==
  ASSUME IInv, DInv, Release
  PROVE  DInv'
<1>1. ASSUME NEW t \in Task
      PROVE  /\ pc[t] \in Inner \cup {"end", "rept_reduce", "rept_end", "comm_free"}
             /\ pc'[t] = AfterSync(t) /\ trail'[t] = Entered(pc[t])'
             /\ rept'[t] = rept[t] /\ phase'[t] = phase[t]
             /\ rerr'[t] = rerr[t] /\ sized'[t] = sized[t]
             /\ AskedAt(t) /\ SizedAt(t)
             /\ rept[t] \in Nat
  <2>1. test' = test
    BY DEF Release
  <2>2. \A l : KindOf(l)' = KindOf(l)
    BY <2>1 DEF KindOf
  <2>3. trail'[t] = Entered(pc[t])'
    BY <2>2 DEF Release, Entered
  <2>4. QED
    BY <2>3, ReleaseFrom DEF Release, taskVars, DInv, Asked, SizesOnce, IInv,
       TypeOK
<1>2. test' = test
  BY DEF Release
<1>3. \A t \in Task : pc'[t] \notin {"rept_reduce", "prep", "sizes", "seed"}
  BY <1>1 DEF AfterSync, AfterRept, AfterClose, Inner
<1>4. Asked'
  <2>1. ASSUME NEW t \in Task
        PROVE  AskedAt(t)'
    BY <1>1, <1>2, <1>3 DEF AskedAt, Idle, AfterSync, AfterRept, AfterClose, Inner
  <2>2. QED
    BY <2>1 DEF Asked
<1>5. SizesOnce'
  <2>1. SUFFICES ASSUME NEW t \in Task PROVE SizedAt(t)'
    BY DEF SizesOnce
  <2>2. rept'[t] # 0
    BY <1>1 DEF SizedAt, Inner
  <2>3. ~Undrawn(t)'
    BY <1>1, <1>3, <2>2 DEF Undrawn
  <2>4. ASSUME test.distrib, test.write, ~sized[t]
        PROVE  rerr[t] /\ pc'[t] \in Idle \ {"start"}
    <3>1. rerr[t] /\ pc[t] \in {"rept_reduce", "rept_end", "comm_free"}
      BY <1>1, <2>4 DEF SizedAt, Undrawn, Idle, Inner
    <3>2. QED
      BY <1>1, <3>1 DEF AfterSync, AfterRept, Idle
  <2>5. QED
    BY <1>1, <1>2, <1>3, <2>2, <2>3, <2>4 DEF SizedAt
<1>6. \A t \in Task : ~Waiting(t)'
  BY <1>3 DEF Waiting
<1>7. Courses'
  BY <1>1, <1>6, ReleaseFollows DEF Courses
<1>8. Beside'
  BY <1>6, ReleaseTogether DEF Beside
<1>9. GoneByFailure'
  <2>1. SUFFICES ASSUME NEW t \in Task, NEW u \in Task, Gone(t)', ~Gone(u)'
                 PROVE  pc'[t] = "comm_free" /\ rerr'[t]
    BY DEF GoneByFailure
  <2>2. /\ pc[t] = "comm_free" <=> pc[u] = "comm_free"
        /\ pc[t] = "rept_end" <=> pc[u] = "rept_end"
        /\ pc[t] # "comm_free" => Repetition(t) = Repetition(u)
    BY ReleasePairs
  <2>3. pc[u] # "comm_free"
    BY <1>1, <2>1 DEF AfterSync, Gone
  <2>4. pc[t] = "rept_end"
    BY <1>1, <2>1, <2>2, <2>3 DEF AfterSync, AfterClose, Gone, Inner
  <2>5. rept[t] = rept[u]
    BY <2>2, <2>4 DEF Repetition
  <2>6. pc'[u] = AfterRept(u) /\ pc'[t] = AfterRept(t)
    BY <1>1, <2>2, <2>4 DEF AfterSync
  <2>7. QED
    BY <1>1, <2>1, <2>5, <2>6 DEF AfterRept, Gone
<1>10. QED
  BY <1>4, <1>5, <1>7, <1>8, <1>9 DEF DInv

LEMMA DivergeStutter ==
  ASSUME DInv, UNCHANGED <<test, pc, trail, rept, phase, rerr, sized>>
  PROVE  DInv'
<1>1. ASSUME NEW u \in Task
      PROVE  /\ Part(u)' = Part(u) /\ Left(u)' = Left(u) /\ Gone(u)' = Gone(u)
             /\ Waiting(u)' = Waiting(u) /\ GaveUp(u)' = GaveUp(u)
             /\ Follows(u) => Follows(u)'
             /\ Entered(pc[u])' = Entered(pc[u])
             /\ AskedAt(u)' = AskedAt(u) /\ SizedAt(u)' = SizedAt(u)
  BY SamePlace, SameCourse
<1>2. Courses'
  <2>1. SUFFICES ASSUME NEW u \in Task
                 PROVE  /\ ~Gone(u)' => IF Waiting(u)' THEN GaveUp(u)'
                                                       ELSE Follows(u)'
                        /\ Gone(u)' => trail'[u] = Entered(pc[u])'
    BY DEF Courses
  <2>2. QED
    BY <1>1 DEF DInv, Courses
<1>3. Beside'
  BY <1>1 DEF DInv, Beside
<1>4. GoneByFailure'
  BY <1>1 DEF DInv, GoneByFailure
<1>5. Asked' /\ SizesOnce'
  BY <1>1 DEF DInv, Asked, SizesOnce
<1>6. QED
  BY <1>2, <1>3, <1>4, <1>5 DEF DInv

LEMMA DivergeNext == IInv /\ DInv /\ [Next]_vars => DInv'
<1>1. SUFFICES ASSUME IInv, DInv, [Next]_vars PROVE DInv'
  OBVIOUS
<1>2. CASE Release
  BY <1>1, <1>2, DivergeRelease
<1>3. ASSUME NEW t \in Task, TaskStep(t)
      PROVE  DInv'
  <2>1. CASE ~Fatal(t)
    BY <1>1, <1>3, <2>1, DivergeTaskStep
  <2>2. CASE Fatal(t)
    BY <1>1, <2>2, DivergeStutter DEF Fatal, taskVars
  <2>3. QED
    BY <2>1, <2>2
<1>4. CASE Terminating \/ UNCHANGED vars
  BY <1>1, <1>4, DivergeStutter DEF Terminating, vars, taskVars
<1>5. QED
  BY <1>1, <1>2, <1>3, <1>4 DEF Next

LEMMA DivergeInit == Init => DInv
<1>1. SUFFICES ASSUME Init PROVE DInv
  OBVIOUS
<1>2. \A t \in Task : /\ pc[t] = "start" /\ trail[t] = <<>> /\ ~rerr[t]
                      /\ rept[t] = 0 /\ ~sized[t]
  BY <1>1 DEF Init
<1>3. \A t \in Task : ~Gone(t) /\ ~Waiting(t) /\ LenAt(t) = 0
  BY <1>2, Lengths DEF Gone, Waiting, LenAt
<1>4. Courses
  BY <1>2, <1>3 DEF Courses, Follows
<1>5. Beside /\ GoneByFailure
  BY <1>2, <1>3 DEF Beside, GoneByFailure, Part, Left
<1>6. Asked /\ SizesOnce
  BY <1>2 DEF Asked, AskedAt, Idle, SizesOnce, SizedAt, Undrawn
<1>7. QED
  BY <1>4, <1>5, <1>6 DEF DInv

\* The k-th collectives of two tasks differ only by a failure.
LEMMA DifferByFailure ==
  ASSUME IInv, DInv, NEW t \in Task, NEW u \in Task,
         NEW k \in DOMAIN trail[t] \cap DOMAIN trail[u],
         trail[t][k] # trail[u][k]
  PROVE  \E w \in {t, u} : rerr[w] /\ trail[w][k] \in {"rept_reduce", "comm_free"}
<1>1. /\ trail[t] \in Seq(Kind) /\ trail[u] \in Seq(Kind)
      /\ k \in 1 .. Len(trail[t]) /\ k \in 1 .. Len(trail[u])
  BY DEF IInv, TypeOK
<1>2. ASSUME NEW v \in Task, NEW w \in Task, Gone(v), ~Gone(w),
             k \in 1 .. Len(trail[v])
      PROVE  rerr[v] /\ trail[v][k] = "comm_free"
  <2>1. pc[v] = "comm_free" /\ rerr[v]
    BY <1>2 DEF DInv, GoneByFailure
  <2>2. trail[v] = <<"comm_free">>
    BY <1>2, <2>1 DEF DInv, Courses, Entered, Local, KindOf, Bcast
  <2>3. QED
    BY <1>2, <2>1, <2>2
<1>3. CASE Gone(t) /\ Gone(u)
  <2>1. ASSUME NEW v \in {t, u} PROVE trail[v] \in {<<>>, <<"comm_free">>}
    BY <1>3 DEF DInv, Courses, Gone, Entered, Local, KindOf, Bcast
  <2>2. QED
    BY <1>1, <2>1
<1>4. CASE Gone(t) /\ ~Gone(u)
  BY <1>1, <1>2, <1>4
<1>5. CASE ~Gone(t) /\ Gone(u)
  BY <1>1, <1>2, <1>5
<1>6. ASSUME NEW v \in Task, NEW w \in Task, Waiting(v), ~Gone(v), ~Gone(w),
             k \in 1 .. Len(trail[v]), k \in 1 .. Len(trail[w]),
             trail[v][k] # trail[w][k]
      PROVE  \E x \in {v, w} :
               rerr[x] /\ trail[x][k] \in {"rept_reduce", "comm_free"}
  <2>1. GaveUp(v) /\ rerr[v]
    BY <1>6 DEF DInv, Courses, Waiting
  <2>2. CASE k = Len(trail[v])
    BY <2>1, <2>2 DEF GaveUp
  <2>3. CASE k # Len(trail[v])
    <3>1. Len(trail[v]) = 2 /\ k = 1 /\ trail[v][1] = "test_reduce" /\ test.write
      BY <1>6, <2>1, <2>3 DEF GaveUp
    <3>2. Part(w) # 0 /\ Left(w) = 0
      <4>1. Beside /\ Len(trail[v]) # 1
        BY <3>1 DEF DInv
      <4>2. QED
        BY <4>1, <1>6, Zenon DEF Beside
    <3>3. CASE Waiting(w)
      <4>1. GaveUp(w) /\ rerr[w]
        BY <1>6, <3>3 DEF DInv, Courses, Waiting
      <4>2. Len(trail[w]) = 1
        BY <1>6, <3>1, <4>1 DEF GaveUp
      <4>3. trail[w][k] = "rept_reduce"
        BY <3>1, <4>1, <4>2 DEF GaveUp
      <4>4. QED
        BY <4>1, <4>3
    <3>4. CASE ~Waiting(w)
      <4>1. Follows(w)
        BY <1>6, <3>4 DEF DInv, Courses
      <4>2. trail[w][1] = Kth(w, 1)
        BY <1>6, <3>1, <4>1 DEF Follows
      <4>3. Part(w) \in {1, 2}
        BY <3>2 DEF Part, PartOf
      <4>4. Kth(w, 1) = "test_reduce"
        BY <3>1, <3>2, <4>3 DEF Kth
      <4>5. QED
        BY <1>6, <3>1, <4>2, <4>4
    <3>5. QED
      BY <3>3, <3>4
  <2>4. QED
    BY <2>2, <2>3
<1>7. CASE ~Gone(t) /\ ~Gone(u)
  <2>1. CASE Waiting(t)
    BY <1>1, <1>6, <1>7, <2>1
  <2>2. CASE Waiting(u)
    BY <1>1, <1>6, <1>7, <2>2
  <2>3. CASE ~Waiting(t) /\ ~Waiting(u)
    <3>1. Part(t) = Part(u) /\ Left(t) = Left(u)
      BY <1>7, <2>3 DEF DInv, Beside
    <3>2. Repetition(t) = Repetition(u)
      BY <1>7 DEF IInv, Aligned
    <3>3. Follows(t) /\ Follows(u)
      BY <1>7, <2>3 DEF DInv, Courses
    <3>4. trail[t][k] = Kth(t, k) /\ trail[u][k] = Kth(u, k)
      BY <1>1, <3>3 DEF Follows
    <3>5. Kth(t, k) = Kth(u, k)
      BY <1>1, <3>1, <3>2, SameKth DEF IInv
    <3>6. QED
      BY <3>4, <3>5
  <2>4. QED
    BY <2>1, <2>2, <2>3
<1>8. QED
  BY <1>3, <1>4, <1>5, <1>7

\* For every number of tasks, every test and any failures, tasks enter
\* different collectives only where one of them failed and went on to the end
\* of run_rept_exec() or of the loop of run_exec() without the others.
THEOREM DivergesOnlyByFailure == Spec => []DivergesByFailure
<1>1. IInv /\ DInv => DivergesByFailure
  BY DifferByFailure DEF DivergesByFailure
<1>2. QED
  BY <1>1, DivergeInit, DivergeNext, Invariance, PTL DEF Spec

-------------------------------------------------------------------------------
(* What the files hold.                                                    *)

\* The name a task that acts as id w gives its file in repetition r.
FileAs(r, w) ==
  << IF test.append_sequence_num THEN r ELSE 0,
     IF test.append_task_id \/ test.file_mode = "NXN" THEN w ELSE Shared >>

\* A task has handed its data over and nobody has removed the file.
WrittenAt(t) ==
  /\ phase[t] = "write"
  /\ \/ pc[t] \in {"close_sync", "remove_sync"}
     \/ pc[t] = "end" /\ ~Removes(t)
     \/ pc[t] \in {"xfered", "close"} /\ ~Buffered
Written == \A t \in Task : WrittenAt(t) => <<FileOf(t), t>> \in stored

\* From the end of a write test until its read test may remove the files,
\* they hold the data of every task.
ReadingAt(t) == Part(t) = 1 /\ pc[t] \notin {"remove", "end"}
DataThere ==
  \A t, w \in Task : ReadingAt(t) => <<FileAs(rept[t], w), w>> \in stored

StoredInFiles == \A s \in stored : s[1] \in files

RInv == Written /\ DataThere

LEMMA AtRemove ==
  ASSUME NEW t \in Task, TaskStep(t), ~Fatal(t), pc[t] = "remove"
  PROVE  Remove(t) \/ RemoveFails(t)
<1>1. CASE Start(t) \/ Prep(t) \/ PrepFails(t) \/ Sizes(t) \/ Seed(t)
  BY <1>1 DEF Start, Prep, PrepFails, Sizes, Seed, Goto
<1>2. CASE Create(t) \/ CreateFails(t) \/ LateCreate(t)
  BY <1>2 DEF Create, CreateFails, LateCreate, Goto
<1>3. CASE Open(t) \/ LateOpen(t) \/ Write(t) \/ Read(t) \/ Close(t)
  BY <1>3 DEF Open, LateOpen, Write, Read, Close, Goto
<1>4. CASE Commit(t) \/ Summary(t) \/ ReptSummary(t) \/ Post(t) \/ PostFails(t)
  BY <1>4 DEF Commit, Summary, ReptSummary, Post, PostFails, Goto
<1>5. QED
  BY <1>1, <1>2, <1>3, <1>4 DEF TaskStep

\* No step of a task leaves a synchronising collective.
LEMMA NotAtEnd ==
  ASSUME NEW t \in Task, TaskStep(t), ~Fatal(t)
  PROVE  pc[t] \notin Sync
<1> USE DEF Goto, Sync
<1>1. CASE Start(t) \/ Prep(t) \/ PrepFails(t) \/ Sizes(t) \/ Seed(t)
  BY <1>1 DEF Start, Prep, PrepFails, Sizes, Seed
<1>2. CASE Create(t) \/ CreateFails(t) \/ LateCreate(t)
  BY <1>2 DEF Create, CreateFails, LateCreate
<1>3. CASE Open(t) \/ LateOpen(t) \/ Write(t) \/ Read(t) \/ Close(t)
  BY <1>3 DEF Open, LateOpen, Write, Read, Close
<1>4. CASE Remove(t) \/ RemoveFails(t) \/ Commit(t)
  BY <1>4 DEF Remove, RemoveFails, Commit
<1>5. CASE Summary(t) \/ ReptSummary(t) \/ Post(t) \/ PostFails(t)
  BY <1>5 DEF Summary, ReptSummary, Post, PostFails
<1>6. QED
  BY <1>1, <1>2, <1>3, <1>4, <1>5 DEF TaskStep

LEMMA FileNamed ==
  ASSUME NEW t \in Task
  PROVE  /\ FileOf(t) = FileAs(rept[t], Id(t))
         /\ phase[t] = "write" => FileOf(t) = FileAs(rept[t], t)
  BY DEF FileOf, FileAs, Id

LEMMA FileAsStays ==
  ASSUME test' = test, NEW r, NEW w
  PROVE  FileAs(r, w)' = FileAs(r, w)
  BY DEF FileAs

\* What a file holds is lost where it is removed, and where a stream of this
\* task's own creates it.
LEMMA StoredLost ==
  ASSUME Placed, NEW t \in Task, TaskStep(t), NEW s \in stored, s \notin stored'
  PROVE  /\ s[1] = FileOf(t)
         /\ pc[t] = "remove" \/ (pc[t] = "create" /\ Truncates(t))
<1>1. CASE Start(t) \/ Prep(t) \/ PrepFails(t) \/ Sizes(t) \/ Seed(t)
  BY <1>1 DEF Start, Prep, PrepFails, Sizes, Seed, fsVars
<1>2. CASE Create(t)
  <2>1. stored' = stored \/ (Truncates(t) /\ stored' = Forget(FileOf(t)))
    BY <1>2 DEF Create, OpenForWriting
  <2>2. QED
    BY <1>2, <2>1 DEF Create, Goto, Forget
<1>3. CASE LateCreate(t)
  <2>1. PlacedAt(t) /\ pc[t] = "late_create"
    BY <1>3 DEF Placed, LateCreate, Goto
  <2>2. test.file_mode = "NX1"
    BY <2>1 DEF PlacedAt, CollectiveOpen
  <2>3. stored' = stored
    BY <1>3, <2>2 DEF LateCreate, OpenForWriting, Truncates
  <2>4. QED
    BY <2>3
<1>4. CASE CreateFails(t) \/ Open(t) \/ LateOpen(t) \/ Read(t)
  BY <1>4 DEF CreateFails, Open, LateOpen, OpenForReading, Read, fsVars
<1>5. CASE Write(t) \/ Close(t)
  BY <1>5 DEF Write, Close
<1>6. CASE Remove(t)
  BY <1>6 DEF Remove, Goto, Forget
<1>7. CASE RemoveFails(t) \/ Commit(t) \/ Summary(t) \/ ReptSummary(t)
  BY <1>7 DEF RemoveFails, Commit, Summary, ReptSummary, fsVars
<1>8. CASE Post(t) \/ PostFails(t) \/ Fatal(t)
  BY <1>8 DEF Post, PostFails, Fatal, fsVars
<1>9. QED
  BY <1>1, <1>2, <1>3, <1>4, <1>5, <1>6, <1>7, <1>8 DEF TaskStep

\* A task that removes is in a segment of its own phase where all others have
\* closed, and those that do not remove as well are not there.
LEMMA OthersAtRemove ==
  ASSUME IInv, NEW t \in Task, pc[t] = "remove", NEW u \in Task,
         Part(u) # 2
  PROVE  pc[u] \in {"remove", "end"} /\ Removes(u) /\ phase[u] = phase[t]
<1>1. PlacedAt(t) /\ Part(t) = PartOf(phase[t]) /\ ~Gone(t)
  BY DEF IInv, Placed, Part, PartOf, Gone
<1>2. ~Gone(u) /\ pc[u] # "rept_reduce"
  BY DEF Part, Gone
<1>3. Part(t) = Part(u) /\ Left(t) = Left(u)
  BY <1>1, <1>2 DEF IInv, Aligned
<1>4. Left(t) = ToEnd(t) + 1
  BY <1>1, Segments DEF Left, PlacedAt, Count
<1>5. Left(u) # 0
  BY <1>3, <1>4, SegmentOrder
<1>6. Part(u) = PartOf(phase[u])
  BY <1>5, <1>2 DEF Part, Left
<1>7. phase[t] = phase[u]
  BY <1>1, <1>3, <1>6 DEF PartOf, IInv, TypeOK, Type
<1>8. /\ ToEnd(t) = ToEnd(u) /\ Removes(t) = Removes(u)
  BY <1>7 DEF ToEnd, ToClose, ToXfer, ToOpened, CollectiveOpen, Removes
<1>9. pc[u] \in {"remove", "end"}
  <2>1. SUFFICES ASSUME pc[u] \notin {"remove", "end"} PROVE FALSE
    OBVIOUS
  <2>2. pc[u] \notin {"rept_summary", "rept_end"}
    BY DEF Part
  <2>3. Left(u) \in {0, 1, ToOpened(u), ToXfer(u), ToClose(u), ToEnd(u)}
    BY <2>1, <2>2 DEF Left
  <2>4. Left(u) <= ToEnd(u)
    BY <2>3, SegmentOrder
  <2>5. QED
    BY <2>4, <1>3, <1>4, <1>8, SegmentOrder
<1>10. QED
  BY <1>7, <1>8, <1>9, <1>1 DEF PlacedAt

\* Nobody else loses what a task has written.
LEMMA OthersKeep ==
  ASSUME IInv, NEW t \in Task, TaskStep(t), NEW u \in Task, u # t,
         WrittenAt(u), <<FileOf(u), u>> \in stored
  PROVE  <<FileOf(u), u>> \in stored'
<1>1. SUFFICES ASSUME <<FileOf(u), u>> \notin stored' PROVE FALSE
  OBVIOUS
<1>2. /\ FileOf(u) = FileOf(t)
      /\ pc[t] = "remove" \/ (pc[t] = "create" /\ Truncates(t))
  BY <1>1, StoredLost DEF IInv
<1>3. /\ phase[u] = "write" /\ Part(u) = 0 /\ ~Gone(u)
      /\ pc[u] \in {"close_sync", "remove_sync", "end", "xfered", "close"}
      /\ pc[u] = "end" => ~Removes(u)
  BY DEF WrittenAt, Part, PartOf, Gone
<1>4. CASE pc[t] = "remove"
  BY <1>3, <1>4, OthersAtRemove
<1>5. CASE pc[t] = "create" /\ Truncates(t)
  <2>1. phase[t] = "write" /\ Left(t) = 1 /\ ~Gone(t)
    BY <1>5 DEF IInv, Placed, PlacedAt, Left, Gone
  <2>2. Left(u) = 1
    BY <1>3, <1>5, <2>1 DEF IInv, Aligned
  <2>3. Left(u) >= ToXfer(u) /\ Left(u) \in Nat
    <3>1. Left(u) \in {ToXfer(u), ToClose(u), ToEnd(u),
                      ToEnd(u) + Count(Removes(u))}
      BY <1>3 DEF Left
    <3>2. Count(Removes(u)) \in Nat
      BY DEF Count
    <3>3. QED
      BY <3>1, <3>2, SegmentOrder
  <2>4. CASE test.file_mode = "NXN"
    <3>1. Id(t) = t /\ Id(u) = u
      BY <1>3, <2>1 DEF Id
    <3>2. QED
      BY <1>2, <2>4, <3>1 DEF FileOf
  <2>5. CASE test.file_mode # "NXN"
    <3>1. test.file_mode = "NX1"
      BY <2>5, TestExecAssumption DEF IInv, TypeOK, Test
    <3>2. CollectiveOpen(u)
      BY <1>3, <1>5, <2>5, <3>1 DEF Truncates, CollectiveOpen
    <3>3. ToOpened(u) = 2
      BY <3>2, Segments
    <3>4. QED
      BY <3>3, <2>2, <2>3, SegmentOrder
  <2>6. QED
    BY <2>4, <2>5
<1>6. QED
  BY <1>2, <1>4, <1>5

\* A task has written when it comes to wait behind its data.
LEMMA OwnWritten ==
  ASSUME IInv, NEW t \in Task, TaskStep(t), ~Fatal(t),
         WrittenAt(t) => <<FileOf(t), t>> \in stored, WrittenAt(t)'
  PROVE  <<FileOf(t), t>>' \in stored'
<1>1. /\ phase'[t] = "write" /\ t \in DOMAIN pc
      /\ pc'[t] \in {"close_sync", "remove_sync", "end", "xfered", "close"}
      /\ pc'[t] = "end" => ~Removes(t)'
      /\ pc'[t] \in {"xfered", "close"} => ~Buffered'
      /\ test' = test
  BY OthersStay DEF WrittenAt, IInv, TypeOK
<1>2. PlacedAt(t)
  BY DEF IInv, Placed
<1>3. CASE Write(t)
  <2>1. phase' = phase /\ rept' = rept
    BY <1>3 DEF Write, taskVars
  <2>2. ~Buffered /\ Id(t) = t
    BY <1>1, <1>3, <2>1 DEF Write, Goto, AfterXfer, Buffered, Id
  <2>3. stored' = stored \cup {<<FileOf(t), t>>}
    BY <1>3, <2>2 DEF Write
  <2>4. QED
    BY <1>1, <2>1, <2>3, SameFile
<1>4. CASE Close(t)
  <2>1. phase' = phase /\ rept' = rept /\ pc[t] = "close"
    BY <1>4 DEF Close, Goto
  <2>2. Id(t) = t /\ hdle[t] = "write"
    BY <1>1, <1>2, <2>1 DEF Id, PlacedAt
  <2>3. <<FileOf(t), t>> \in stored'
    BY <1>1, <1>4, <2>1, <2>2 DEF Close, WrittenAt
  <2>4. QED
    BY <1>1, <2>1, <2>3, SameFile
<1>5. CASE Remove(t) \/ RemoveFails(t)
  <2>1. phase' = phase /\ pc[t] = "remove" /\ pc'[t] = "end"
    BY <1>1, <1>5 DEF Remove, RemoveFails, Goto
  <2>2. Removes(t)'
    BY <1>1, <1>2, <2>1 DEF PlacedAt, Removes
  <2>3. QED
    BY <1>1, <2>1, <2>2
<1>6. CASE Read(t)
  BY <1>1, <1>6 DEF Read, taskVars
<1>7. CASE Start(t) \/ Prep(t) \/ PrepFails(t) \/ Sizes(t) \/ Seed(t)
  BY <1>1, <1>7 DEF Start, Prep, PrepFails, Sizes, Seed, Goto, AfterPrep,
     AfterSizes
<1>8. CASE Create(t) \/ CreateFails(t) \/ LateCreate(t) \/ Open(t) \/ LateOpen(t)
  BY <1>1, <1>8 DEF Create, CreateFails, LateCreate, Open, LateOpen, Goto,
     AfterOpen
<1>9. CASE Commit(t) \/ Summary(t) \/ ReptSummary(t) \/ Post(t) \/ PostFails(t)
  BY <1>1, <1>9 DEF Commit, Summary, ReptSummary, Post, PostFails, Goto
<1>10. QED
  BY <1>3, <1>4, <1>5, <1>6, <1>7, <1>8, <1>9 DEF TaskStep

LEMMA WrittenTaskStep ==
  ASSUME IInv, Written, NEW t \in Task, TaskStep(t), ~Fatal(t)
  PROVE  Written'
<1>1. SUFFICES ASSUME NEW u \in Task, WrittenAt(u)'
               PROVE  <<FileOf(u), u>>' \in stored'
  BY DEF Written
<1>2. CASE u = t
  BY <1>1, <1>2, OwnWritten DEF Written
<1>3. CASE u # t
  <2>1. /\ test' = test /\ pc'[u] = pc[u] /\ rept'[u] = rept[u]
        /\ phase'[u] = phase[u]
    BY <1>3, OthersStay DEF IInv
  <2>2. WrittenAt(u) /\ FileOf(u)' = FileOf(u)
    BY <1>1, <2>1, SamePlace, SameFile DEF WrittenAt, Buffered
  <2>3. QED
    BY <1>3, <2>2, OthersKeep DEF Written
<1>4. QED
  BY <1>2, <1>3

\* While a task is in the read test nobody creates a file, and nobody removes
\* one before that task has closed its own.
LEMMA DataTaskStep ==
  ASSUME IInv, DataThere, NEW t \in Task, TaskStep(t), ~Fatal(t)
  PROVE  DataThere'
<1>1. SUFFICES ASSUME NEW u \in Task, NEW w \in Task, ReadingAt(u)'
               PROVE  <<FileAs(rept[u], w), w>>' \in stored'
  BY DEF DataThere
<1>2. test' = test
  BY OthersStay DEF IInv
<1>3. ReadingAt(u) /\ rept'[u] = rept[u]
  <2>1. CASE u # t
    <3>1. pc'[u] = pc[u] /\ rept'[u] = rept[u] /\ phase'[u] = phase[u]
      BY <2>1, OthersStay DEF IInv
    <3>2. QED
      BY <1>1, <1>2, <3>1, SamePlace DEF ReadingAt
  <2>2. CASE u = t
    <3>1. pc'[t] # "rept_reduce"
      BY <1>1, <2>2 DEF ReadingAt, Part
    <3>2. Part(t) = 1 /\ Repetition(t)' = Repetition(t)
      BY <1>1, <2>2, <3>1, Advances DEF ReadingAt, IInv
    <3>3. pc[t] # "start" /\ pc'[t] # "start"
      BY <3>2, Advances DEF Part, IInv
    <3>4. rept'[t] = rept[t]
      BY <3>2, <3>3 DEF Repetition
    <3>5. pc[t] # "remove"
      <4>1. SUFFICES ASSUME pc[t] = "remove" PROVE pc'[t] = "end"
        BY <1>1, <2>2 DEF ReadingAt
      <4>2. Remove(t) \/ RemoveFails(t)
        BY <4>1, AtRemove
      <4>3. QED
        BY <4>2 DEF Remove, RemoveFails, Goto, IInv, TypeOK
    <3>6. pc[t] # "end"
      BY NotAtEnd DEF Sync
    <3>7. QED
      BY <2>2, <3>2, <3>4, <3>5, <3>6 DEF ReadingAt
  <2>3. QED
    BY <2>1, <2>2
<1>4. <<FileAs(rept[u], w), w>> \in stored
  BY <1>3 DEF DataThere
<1>5. <<FileAs(rept[u], w), w>> \in stored'
  <2>1. SUFFICES ASSUME <<FileAs(rept[u], w), w>> \notin stored' PROVE FALSE
    OBVIOUS
  <2>2. pc[t] = "remove" \/ (pc[t] = "create" /\ Truncates(t))
    BY <1>4, <2>1, StoredLost DEF IInv
  <2>3. Part(u) = 1 /\ pc[u] \notin {"remove", "end", "rept_reduce"} /\ ~Gone(u)
    BY <1>3 DEF ReadingAt, Part, Gone
  <2>4. CASE pc[t] = "remove"
    BY <2>3, <2>4, OthersAtRemove
  <2>5. CASE pc[t] = "create"
    <3>1. Part(t) = 0 /\ ~Gone(t)
      BY <2>5 DEF IInv, Placed, PlacedAt, Part, PartOf, Gone
    <3>2. QED
      BY <2>3, <2>5, <3>1 DEF IInv, Aligned
  <2>6. QED
    BY <2>2, <2>4, <2>5
<1>6. QED
  BY <1>2, <1>3, <1>5, FileAsStays

LEMMA FilesRelease ==
  ASSUME IInv, RInv, Release
  PROVE  RInv'
<1>1. ASSUME NEW t \in Task
      PROVE  /\ pc[t] \in Inner \cup {"end", "rept_reduce", "rept_end", "comm_free"}
             /\ PlacedAt(t)
             /\ pc'[t] = AfterSync(t)
             /\ rept'[t] = rept[t] /\ phase'[t] = phase[t]
  BY <1>1, ReleaseFrom DEF Release, taskVars
<1>2. test' = test /\ stored' = stored
  BY DEF Release, fsVars
<1>3. Written'
  <2>1. SUFFICES ASSUME NEW t \in Task, WrittenAt(t)'
                 PROVE  <<FileOf(t), t>>' \in stored'
    BY DEF Written
  <2>2. Removes(t)' = Removes(t) /\ Buffered' = Buffered
    BY <1>1, <1>2, SameSegments DEF Buffered
  <2>3. WrittenAt(t)
    BY <1>1, <2>1, <2>2 DEF WrittenAt, AfterSync, AfterRept, AfterClose, Inner
  <2>4. <<FileOf(t), t>> \in stored
    BY <2>3 DEF RInv, Written
  <2>5. QED
    BY <1>1, <1>2, <2>4, SameFile
<1>4. DataThere'
  <2>1. SUFFICES ASSUME NEW t \in Task, NEW w \in Task, ReadingAt(t)'
                 PROVE  <<FileAs(rept[t], w), w>> \in stored
    BY <1>1, <1>2, FileAsStays DEF DataThere
  <2>2. CASE pc[t] \in Inner
    <3>1. Part(t)' = Part(t)
      BY <1>1, <2>2, InnerRelease DEF IInv
    <3>2. ReadingAt(t)
      BY <2>1, <2>2, <3>1 DEF ReadingAt, Inner
    <3>3. QED
      BY <3>2 DEF RInv, DataThere
  <2>3. CASE pc[t] = "end"
    <3>1. phase[t] = "write" /\ test.read
      BY <1>1, <2>1, <2>3, OuterRelease DEF ReadingAt, IInv
    <3>2. /\ pc[w] = "end" /\ phase[w] = "write"
          /\ Repetition(t) = Repetition(w)
      BY <2>3, <3>1, ReleasePairs
    <3>3. rept[t] = rept[w]
      BY <2>3, <3>2 DEF Repetition
    <3>4. WrittenAt(w)
      BY <3>1, <3>2 DEF WrittenAt, Removes
    <3>5. <<FileOf(w), w>> \in stored
      BY <3>4 DEF RInv, Written
    <3>6. QED
      BY <3>2, <3>3, <3>5, FileNamed
  <2>4. CASE pc[t] \in {"rept_reduce", "rept_end", "comm_free"}
    <3>1. pc'[t] \in {"rept_summary", "rept_end", "start", "comm_free", "done"}
      BY <1>1, <2>4 DEF AfterSync, AfterRept
    <3>2. Part(t)' # 1
      BY <3>1 DEF Part, Gone
    <3>3. QED
      BY <2>1, <3>2 DEF ReadingAt
  <2>5. QED
    BY <1>1, <2>2, <2>3, <2>4
<1>5. QED
  BY <1>3, <1>4 DEF RInv

LEMMA FilesStutter ==
  ASSUME RInv, UNCHANGED <<test, pc, rept, phase, stored>>
  PROVE  RInv'
<1>1. ASSUME NEW t \in Task
      PROVE  /\ WrittenAt(t)' = WrittenAt(t) /\ ReadingAt(t)' = ReadingAt(t)
             /\ FileOf(t)' = FileOf(t)
  BY SamePlace, SameFile DEF WrittenAt, ReadingAt, Buffered
<1>2. Written'
  BY <1>1 DEF RInv, Written
<1>3. DataThere'
  BY <1>1, FileAsStays DEF RInv, DataThere
<1>4. QED
  BY <1>2, <1>3 DEF RInv

LEMMA FilesNext == IInv /\ RInv /\ [Next]_vars => RInv'
<1>1. SUFFICES ASSUME IInv, RInv, [Next]_vars PROVE RInv'
  OBVIOUS
<1>2. CASE Release
  BY <1>1, <1>2, FilesRelease
<1>3. ASSUME NEW t \in Task, TaskStep(t)
      PROVE  RInv'
  <2>1. CASE ~Fatal(t)
    BY <1>1, <1>3, <2>1, WrittenTaskStep, DataTaskStep DEF RInv
  <2>2. CASE Fatal(t)
    BY <1>1, <2>2, FilesStutter DEF Fatal, taskVars, fsVars
  <2>3. QED
    BY <2>1, <2>2
<1>4. CASE Terminating \/ UNCHANGED vars
  BY <1>1, <1>4, FilesStutter DEF Terminating, vars, taskVars, fsVars
<1>5. QED
  BY <1>1, <1>2, <1>3, <1>4 DEF Next

LEMMA FilesInit == Init => RInv
<1>1. SUFFICES ASSUME Init PROVE RInv
  OBVIOUS
<1>2. \A t \in Task : pc[t] = "start" /\ Part(t) # 1
  BY <1>1 DEF Init, Part
<1>3. QED
  BY <1>2 DEF RInv, Written, WrittenAt, DataThere, ReadingAt

\* For every number of tasks, every test and whatever calls fail, a task about
\* to read as another id in test_oset_read_exec() finds all the data of that
\* id: it was written, no later creation truncated it, and nobody removes the
\* file before the task has closed it.
THEOREM ReadsFind == Spec => []ReadsFindData
<1>1. IInv /\ RInv => ReadsFindData
  <2>1. SUFFICES ASSUME IInv, RInv, NEW t \in Task, pc[t] = "xfer",
                        phase[t] = "read"
                 PROVE  <<FileOf(t), Id(t)>> \in stored
    BY DEF ReadsFindData
  <2>2. ReadingAt(t)
    BY <2>1 DEF ReadingAt, Part, PartOf, Gone
  <2>3. Id(t) \in Task
    BY <2>1, IdType DEF IInv
  <2>4. QED
    BY <2>1, <2>2, <2>3, FileNamed DEF RInv, DataThere
<1>2. QED
  BY <1>1, FilesInit, FilesNext, Invariance, PTL DEF Spec

-------------------------------------------------------------------------------
(* What fails without failing calls.                                       *)

\* No call to the operating system fails.
Faultless == Faults = {}

\* The write test leaves its file to the read test, and then wants to remove
\* the directory the file is in.
Stranded == RemovesDir /\ test.read

After == Idle \ {"start"}

\* A task has failed if and only if it could not remove its directory.
ResultAt(t) ==
  /\ rerr[t] => Stranded /\ pc[t] \in After
  /\ Stranded => (pc[t] \in After => rerr[t]) /\ phase[t] = "write"
Results == \A t \in Task : ResultAt(t)

\* The directory and the file of a task are there when a call needs them.
NeedsDir(t) == UsesDir /\ phase[t] = "write" /\ pc[t] \notin Idle \cup {"prep"}
NeedsFile(t) ==
  pc[t] \in {"close_sync", "remove_sync"} \/ (pc[t] = "remove" /\ Remover(t))
DirsThere == \A t \in Task : NeedsDir(t) => t \in dirs
FilesThere == \A t \in Task : NeedsFile(t) => FileOf(t) \in files

\* The master of a stream shared by all tasks creates it before the barrier.
MasterCreates ==
  /\ test.afio = "cstream" /\ phase[Master] = "write"
  /\ pc[Master] \in {"open_sync", "late_create"}
  => hdle[Master] = "write"

\* Tasks that fail do so at the end of the write test, and all tasks leave the
\* repetition loop together.
FailsLast == \A t \in Task : Waiting(t) => Len(trail[t]) = 2
GoneTogether == \A t, u \in Task : Gone(t) => Gone(u)

FInv == /\ Results /\ FailsLast /\ GoneTogether
        /\ DirsThere /\ FilesThere /\ MasterCreates
        /\ NeverAborts

\* A task is between the creation of the files and the removal of its own.
StillToRemove(t) ==
  /\ pc[t] \notin Idle
  /\ phase[t] = "write" => pc[t] \notin {"prep", "sizes", "seed", "begin"}
  /\ Removes(t) => pc[t] \notin {"end", "commit", "summary", "post"}

\* Of files with names of their own the master removes those of its last id.
Leftover(f) == OwnNames /\ f[2] # LastId(Master)

\* Each other file will be removed by some task, and each directory by its own.
FilesOwned ==
  \A f \in files : Leftover(f) \/ \E t \in Task :
    Remover(t) /\ StillToRemove(t) /\ f = FileAs(rept[t], LastId(t))
DirsOwned ==
  \A d \in dirs : UsesDir /\ phase[d] = "write" /\ pc[d] \notin Idle

LInv == ~test.file_keep /\ ~Stranded => FilesOwned /\ DirsOwned

\* What is stored is stored in a file that exists.
LEMMA StoredNext ==
  IInv /\ OpenFileExists /\ StoredInFiles /\ [Next]_vars => StoredInFiles'
<1>1. SUFFICES ASSUME IInv, OpenFileExists, StoredInFiles, [Next]_vars
               PROVE  StoredInFiles'
  OBVIOUS
<1>2. CASE Release \/ Terminating \/ UNCHANGED vars
  BY <1>1, <1>2 DEF Release, Terminating, vars, fsVars, StoredInFiles
<1>3. ASSUME NEW t \in Task, TaskStep(t)
      PROVE  StoredInFiles'
  <2>1. CASE Create(t) \/ CreateFails(t) \/ LateCreate(t)
    BY <1>1, <2>1 DEF Create, CreateFails, LateCreate, OpenForWriting, Forget,
       StoredInFiles, fsVars
  <2>2. CASE Write(t) \/ Close(t)
    <3>1. files' = files
      BY <2>2 DEF Write, Close
    <3>2. stored' = stored \/ (/\ hdle[t] # "closed"
                               /\ stored' = stored \cup {<<FileOf(t), Id(t)>>})
      <4>1. CASE Write(t)
        <5>1. hdle[t] = "write"
          BY <1>1, <4>1 DEF Write, Goto, IInv, Placed, PlacedAt
        <5>2. QED
          BY <4>1, <5>1 DEF Write
      <4>2. CASE Close(t)
        BY <4>2 DEF Close
      <4>3. QED
        BY <2>2, <4>1, <4>2
    <3>3. QED
      BY <1>1, <3>1, <3>2 DEF StoredInFiles, OpenFileExists
  <2>3. CASE Remove(t)
    BY <1>1, <2>3 DEF Remove, Forget, StoredInFiles
  <2>4. CASE Start(t) \/ Prep(t) \/ PrepFails(t) \/ Sizes(t) \/ Seed(t)
    BY <1>1, <2>4 DEF Start, Prep, PrepFails, Sizes, Seed, fsVars, StoredInFiles
  <2>5. CASE Open(t) \/ LateOpen(t) \/ Read(t) \/ RemoveFails(t) \/ Commit(t)
    BY <1>1, <2>5 DEF Open, LateOpen, OpenForReading, Read, RemoveFails, Commit,
       fsVars, StoredInFiles
  <2>6. CASE Summary(t) \/ ReptSummary(t) \/ Post(t) \/ PostFails(t) \/ Fatal(t)
    BY <1>1, <2>6 DEF Summary, ReptSummary, Post, PostFails, Fatal, fsVars,
       StoredInFiles
  <2>7. QED
    BY <1>3, <2>1, <2>2, <2>3, <2>4, <2>5, <2>6 DEF TaskStep
<1>4. QED
  BY <1>1, <1>2, <1>3 DEF Next

\* All that is known of a state in which any call may fail.
SafeInv ==
  IInv /\ DInv /\ RInv /\ OpenFileExists /\ StoredInFiles

LEMMA SafeNext == SafeInv /\ [Next]_vars => SafeInv'
  BY InvNext, DivergeNext, FilesNext, OpenNext, StoredNext DEF SafeInv

LEMMA SafeInit == Init => SafeInv
<1>1. Init => OpenFileExists /\ StoredInFiles
  BY DEF Init, OpenFileExists, StoredInFiles
<1>2. QED
  BY <1>1, InvInit, DivergeInit, FilesInit DEF SafeInv

\* All that is known of a state in which no call fails.
NoFaultInv == SafeInv /\ FInv /\ LInv

LEMMA ValidTest ==
  ASSUME TypeOK
  PROVE  /\ test.read => test.write
         /\ test.file_mode \in {"NX1", "NXN"}
         /\ test.afio \in {"posix", "cstream", "mpiio"}
         /\ test.read_reorder_offset \in Nat
<1>1. test \in Tests /\ test \in Test /\ test = TestValid(test)
  BY TestExecAssumption DEF TypeOK
<1>2. TestValid(test).write = (test.write \/ test.read)
  BY <1>1 DEF TestValid, Test
<1>3. test.write = (test.write \/ test.read)
  BY <1>1, <1>2
<1>4. test.read => test.write
  BY <1>3
<1>5. QED
  BY <1>1, <1>4 DEF Test

\* A shared file has one name, unless tasks have names of their own for it.
LEMMA OneName ==
  ASSUME test.file_mode = "NX1", ~OwnNames, NEW r, NEW v, NEW w
  PROVE  FileAs(r, v) = FileAs(r, w)
<1>1. ~test.append_task_id
  BY DEF OwnNames
<1>2. QED
  BY <1>1 DEF FileAs

LEMMA NoFault ==
  ASSUME Faultless, NEW t \in Task
  PROVE  ~PrepFails(t) /\ ~CreateFails(t) /\ ~RemoveFails(t)
  BY DEF Faultless, PrepFails, CreateFails, RemoveFails

\* Tasks that cannot fail at the end of the write test are in one segment.
LEMMA Together ==
  ASSUME SafeInv, FInv, ~Stranded, NEW t \in Task, ~Gone(t), NEW u \in Task
  PROVE  /\ ~Gone(u)
         /\ Repetition(t) = Repetition(u)
         /\ Part(t) = Part(u) /\ Left(t) = Left(u)
<1>1. ~Gone(u)
  BY DEF FInv, GoneTogether
<1>2. ~rerr[t] /\ ~rerr[u]
  BY DEF FInv, Results, ResultAt
<1>3. ~Waiting(t) /\ ~Waiting(u)
  BY <1>2 DEF Waiting
<1>4. Part(t) = Part(u) /\ Left(t) = Left(u)
  BY <1>1, <1>3, Zenon DEF SafeInv, DInv, Beside
<1>5. Repetition(t) = Repetition(u)
  BY <1>1 DEF SafeInv, IInv, Aligned
<1>6. QED
  BY <1>1, <1>4, <1>5

\* A task whose directory is to go after the write test, although its file is
\* still to be read, finds it in use.
LEMMA StrandedInUse ==
  ASSUME SafeInv, FInv, NEW t \in Task, pc[t] = "post", Stranded
  PROVE  ~DirEmpty(Id(t))
<1>1. phase[t] = "write" /\ test.read /\ test.file_mode = "NXN"
  BY DEF FInv, Results, ResultAt, Stranded, RemovesDir, UsesDir
<1>2. ReadingAt(t)
  BY <1>1 DEF ReadingAt, Part, Gone
<1>3. <<FileAs(rept[t], t), t>> \in stored
  BY <1>2 DEF SafeInv, RInv, DataThere
<1>4. FileAs(rept[t], t) \in files
  BY <1>3 DEF SafeInv, StoredInFiles
<1>5. FileAs(rept[t], t)[2] = t
  BY <1>1 DEF FileAs
<1>6. Id(t) = t
  BY <1>1 DEF Id
<1>7. QED
  BY <1>4, <1>5, <1>6 DEF DirEmpty

\* Every other directory is there and empty when its task wants to remove it.
LEMMA DirEmptied ==
  ASSUME SafeInv, FInv, LInv, NEW t \in Task, pc[t] = "post", RemovesDir,
         ~Stranded
  PROVE  Id(t) \in dirs /\ DirEmpty(Id(t))
<1>1. /\ ~test.read /\ test.file_mode = "NXN" /\ ~test.file_keep /\ UsesDir
  BY DEF Stranded, RemovesDir, UsesDir
<1>2. \A u \in Task : phase[u] = "write"
  BY <1>1 DEF SafeInv, IInv, Placed, PlacedAt, TypeOK, Type
<1>3. Id(t) = t
  BY <1>2 DEF Id
<1>4. t \in dirs
  BY <1>1, <1>2 DEF FInv, DirsThere, NeedsDir, Idle
<1>5. SUFFICES ASSUME NEW f \in files, f[2] = t PROVE FALSE
  BY <1>3, <1>4 DEF DirEmpty
<1>6. PICK u \in Task : StillToRemove(u) /\ f = FileAs(rept[u], LastId(u))
  BY <1>1, <1>5 DEF LInv, FilesOwned, Leftover, OwnNames
<1>7. u = t
  BY <1>1, <1>5, <1>6 DEF FileAs, LastId
<1>8. Removes(t)
  BY <1>1 DEF Removes
<1>9. QED
  BY <1>6, <1>7, <1>8 DEF StillToRemove

LEMMA PostEnds ==
  ASSUME SafeInv, FInv, LInv, Faultless, NEW t \in Task
  PROVE  /\ Stranded => ~Post(t)
         /\ ~Stranded => ~PostFails(t)
<1>1. ASSUME Stranded, Post(t) PROVE FALSE
  <2>1. pc[t] = "post" /\ RemovesDir
    BY <1>1 DEF Post, Goto, Stranded
  <2>2. QED
    BY <1>1, <2>1, StrandedInUse DEF Post
<1>2. ASSUME ~Stranded, PostFails(t) PROVE FALSE
  <2>1. pc[t] = "post" /\ RemovesDir
    BY <1>2 DEF PostFails, Goto
  <2>2. QED
    BY <1>2, <2>1, DirEmptied DEF PostFails, Faultless
<1>3. QED
  BY <1>1, <1>2

-------------------------------------------------------------------------------
(* The results of the tasks.                                               *)

LEMMA ResultStep ==
  ASSUME Faultless, NoFaultInv, NEW t \in Task, TaskStep(t), ~Fatal(t)
  PROVE  ResultAt(t)'
<1>1. /\ TypeOK /\ ResultAt(t) /\ PlacedAt(t)
      /\ t \in DOMAIN pc /\ t \in DOMAIN rerr /\ t \in DOMAIN phase
  BY DEF NoFaultInv, SafeInv, IInv, TypeOK, FInv, Results, Placed
<1>2. test' = test
  BY <1>1, OthersStay
<1>3. (Stranded' <=> Stranded) /\ (Stranded => test.write)
  BY <1>1, <1>2, ValidTest DEF Stranded, RemovesDir, UsesDir
<1>4. ASSUME pc[t] \notin After, pc'[t] \notin After, rerr' = rerr,
             phase'[t] = phase[t]
      PROVE  ResultAt(t)'
  BY <1>1, <1>3, <1>4 DEF ResultAt
<1> USE DEF After, Idle
<1>5. CASE Start(t)
  <2>1. /\ pc'[t] = IF test.write THEN "prep" ELSE "rept_reduce"
        /\ ~rerr'[t] /\ phase'[t] = "write"
    BY <1>1, <1>5 DEF Start, Goto
  <2>2. QED
    BY <1>3, <2>1 DEF ResultAt
<1>6. CASE Prep(t) \/ Sizes(t) \/ Seed(t)
  BY <1>1, <1>4, <1>6 DEF Prep, Sizes, Seed, Goto, AfterPrep, AfterSizes,
     taskVars
<1>7. CASE Create(t) \/ LateCreate(t) \/ Open(t) \/ LateOpen(t)
  BY <1>1, <1>4, <1>7 DEF Create, LateCreate, Open, LateOpen, OpenForReading,
     Goto, AfterOpen, taskVars
<1>8. CASE Write(t) \/ Read(t) \/ Close(t)
  BY <1>1, <1>4, <1>8 DEF Write, Read, Close, Goto, AfterXfer, AfterClose,
     taskVars
<1>9. CASE Remove(t)
  <2>1. pc[t] = "remove" /\ pc'[t] = "end" /\ phase' = phase
    BY <1>1, <1>9 DEF Remove, Goto
  <2>2. ~rerr[t]
    BY <1>1, <2>1 DEF ResultAt
  <2>3. ~rerr'[t]
    <3>1. CASE Remover(t)
      <4>1. FileOf(t) \in files
        BY <2>1, <3>1 DEF NoFaultInv, FInv, FilesThere, NeedsFile
      <4>2. QED
        BY <1>1, <1>9, <3>1, <4>1 DEF Remove
    <3>2. CASE ~Remover(t)
      BY <1>9, <2>2, <3>2 DEF Remove
    <3>3. QED
      BY <3>1, <3>2
  <2>4. QED
    BY <1>1, <1>3, <2>1, <2>3 DEF ResultAt
<1>10. CASE Commit(t)
  <2>1. pc[t] = "commit" /\ rerr' = rerr /\ phase' = phase
    BY <1>10 DEF Commit, Goto, taskVars
  <2>2. ~rerr[t]
    BY <1>1, <2>1 DEF ResultAt
  <2>3. pc'[t] = "summary"
    BY <1>1, <1>10, <2>2 DEF Commit, Goto
  <2>4. QED
    BY <1>4, <2>1, <2>3
<1>11. CASE Summary(t)
  BY <1>1, <1>4, <1>11 DEF Summary, Goto, taskVars
<1>12. CASE ReptSummary(t)
  <2>1. /\ pc[t] = "rept_summary" /\ pc'[t] = "rept_end"
        /\ rerr' = rerr /\ phase' = phase
    BY <1>1, <1>12 DEF ReptSummary, Goto, taskVars
  <2>2. QED
    BY <1>1, <1>3, <2>1 DEF ResultAt
<1>13. CASE Post(t)
  <2>1. pc[t] = "post" /\ rerr' = rerr
    BY <1>13 DEF Post, Goto
  <2>2. ~Stranded
    BY <1>13, PostEnds DEF NoFaultInv
  <2>3. QED
    BY <1>1, <1>3, <2>1, <2>2 DEF ResultAt
<1>14. CASE PostFails(t)
  <2>1. pc'[t] = "rept_reduce" /\ rerr'[t] /\ phase' = phase
    BY <1>1, <1>14 DEF PostFails, Goto
  <2>2. Stranded
    BY <1>14, PostEnds DEF NoFaultInv
  <2>3. QED
    BY <1>1, <1>3, <2>1, <2>2 DEF ResultAt
<1>15. QED
  BY <1>5, <1>6, <1>7, <1>8, <1>9, <1>10, <1>11, <1>12, <1>13, <1>14, NoFault
     DEF TaskStep

\* A task that fails has entered the summary of the write test.
LEMMA FailsLastStep ==
  ASSUME Faultless, NoFaultInv, NEW t \in Task, TaskStep(t), ~Fatal(t),
         Waiting(t)'
  PROVE  Len(trail'[t]) = 2
<1>1. TypeOK /\ pc'[t] = "rept_reduce" /\ rerr'[t] /\ PlacedAt(t)
  BY DEF NoFaultInv, SafeInv, IInv, Placed, Waiting
<1>2. ResultAt(t)'
  BY ResultStep
<1>3. Stranded
  BY <1>1, <1>2, OthersStay DEF ResultAt, Stranded, RemovesDir, UsesDir
<1>4. test.write /\ ResultAt(t)
  BY <1>1, <1>3, ValidTest DEF Stranded, NoFaultInv, FInv, Results
<1>5. PostFails(t)
  <2>1. CASE Start(t)
    BY <1>1, <1>4, <2>1 DEF Start, Goto, TypeOK
  <2>2. CASE Prep(t) \/ Sizes(t) \/ Seed(t)
    BY <1>1, <2>2 DEF Prep, Sizes, Seed, Goto, AfterPrep, AfterSizes, TypeOK
  <2>3. CASE Create(t) \/ LateCreate(t) \/ Open(t) \/ LateOpen(t)
    BY <1>1, <2>3 DEF Create, LateCreate, Open, LateOpen, Goto, AfterOpen,
       TypeOK
  <2>4. CASE Write(t) \/ Read(t) \/ Close(t) \/ Remove(t)
    BY <1>1, <2>4 DEF Write, Read, Close, Remove, Goto, AfterXfer, AfterClose,
       TypeOK
  <2>5. CASE Commit(t)
    BY <1>1, <1>4, <2>5 DEF Commit, Goto, TypeOK, ResultAt, After, Idle, taskVars
  <2>6. CASE Summary(t) \/ ReptSummary(t)
    BY <1>1, <2>6 DEF Summary, ReptSummary, Goto, TypeOK
  <2>7. ~Post(t)
    BY <1>3, PostEnds DEF NoFaultInv
  <2>8. QED
    BY <2>1, <2>2, <2>3, <2>4, <2>5, <2>6, <2>7, NoFault DEF TaskStep
<1>6. pc[t] = "post" /\ trail'[t] = trail[t] \o Entered("rept_reduce")
  BY <1>1, <1>5 DEF PostFails, Goto, TypeOK
<1>7. Follows(t)
  BY <1>6 DEF NoFaultInv, SafeInv, DInv, Courses, Gone, Waiting
<1>8. Len(trail[t]) = 1
  BY <1>6, <1>7, Lengths DEF Follows, LenAt
<1>9. Entered("rept_reduce") = <<"rept_reduce">>
  BY DEF Entered, KindOf, Local, Bcast
<1>10. trail[t] \in Seq(Kind) /\ "rept_reduce" \in Kind
  BY <1>1 DEF TypeOK, Kind
<1>11. Len(trail'[t]) = Len(trail[t]) + 1
  <2>1. trail'[t] = trail[t] \o <<"rept_reduce">>
    BY <1>6, <1>9
  <2>2. Len(trail[t] \o <<"rept_reduce">>) = Len(trail[t]) + 1
    BY <1>10, Appended
  <2>3. QED
    BY <2>1, <2>2
<1>12. QED
  BY <1>8, <1>11

-------------------------------------------------------------------------------
(* The directories and the files of the tasks.                             *)

LEMMA DirsStep ==
  ASSUME Faultless, NoFaultInv, NEW t \in Task, TaskStep(t), ~Fatal(t)
  PROVE  DirsThere'
<1>1. SUFFICES ASSUME NEW u \in Task, NeedsDir(u)' PROVE u \in dirs'
  BY DEF DirsThere
<1>2. /\ TypeOK /\ PlacedAt(t) /\ ResultAt(t)
      /\ NeedsDir(u) => u \in dirs
      /\ t \in DOMAIN pc /\ t \in DOMAIN phase
  BY DEF NoFaultInv, SafeInv, IInv, TypeOK, FInv, Results, Placed, DirsThere
<1>3. test' = test
  BY <1>2, OthersStay
<1>4. CASE Post(t)
  <2>1. ~Stranded /\ pc[t] = "post"
    BY <1>4, PostEnds DEF NoFaultInv, Post, Goto
  <2>2. pc'[t] \in {"prep", "rept_reduce"}
    BY <1>2, <1>4 DEF Post, Goto
  <2>3. u # t
    BY <1>1, <2>2 DEF NeedsDir, Idle
  <2>4. u \in dirs
    BY <1>1, <1>2, <1>3, <2>3, OthersStay DEF NeedsDir, UsesDir
  <2>5. RemovesDir => Id(t) = t
    BY <1>2, <2>1 DEF Stranded, PlacedAt, Id, TypeOK, Type
  <2>6. QED
    BY <1>4, <2>3, <2>4, <2>5 DEF Post
<1>5. CASE Prep(t)
  <2>1. dirs' = IF UsesDir THEN dirs \cup {Id(t)} ELSE dirs
    BY <1>5 DEF Prep
  <2>2. CASE u = t
    <3>1. UsesDir /\ phase[t] = "write"
      BY <1>1, <1>3, <1>5, <2>2 DEF NeedsDir, UsesDir, Prep, taskVars
    <3>2. QED
      BY <2>1, <2>2, <3>1 DEF Id
  <2>3. CASE u # t
    BY <1>1, <1>2, <1>3, <2>1, <2>3, OthersStay DEF NeedsDir, UsesDir
  <2>4. QED
    BY <2>2, <2>3
<1>6. ASSUME dirs' = dirs,
             pc'[t] \in Idle \cup {"prep"}
               \/ (pc[t] \notin Idle \cup {"prep"} /\ phase'[t] = phase[t])
      PROVE  u \in dirs'
  <2>1. NeedsDir(u)
    <3>1. CASE u = t
      BY <1>1, <1>3, <1>6, <3>1 DEF NeedsDir, UsesDir
    <3>2. CASE u # t
      BY <1>1, <1>2, <1>3, <3>2, OthersStay DEF NeedsDir, UsesDir
    <3>3. QED
      BY <3>1, <3>2
  <2>2. QED
    BY <1>2, <1>6, <2>1
<1> USE DEF Idle
<1>7. CASE Start(t)
  BY <1>2, <1>6, <1>7 DEF Start, Goto, fsVars
<1>8. CASE Sizes(t) \/ Seed(t)
  BY <1>2, <1>6, <1>8 DEF Sizes, Seed, Goto, taskVars, fsVars
<1>9. CASE Create(t) \/ LateCreate(t)
  BY <1>2, <1>6, <1>9 DEF Create, LateCreate, Goto
<1>10. CASE Open(t) \/ LateOpen(t)
  BY <1>2, <1>6, <1>10 DEF Open, LateOpen, OpenForReading, Goto, fsVars, taskVars
<1>11. CASE Write(t) \/ Read(t) \/ Close(t) \/ Remove(t)
  BY <1>2, <1>6, <1>11 DEF Write, Read, Close, Remove, Goto, fsVars, taskVars
<1>12. CASE Commit(t) \/ Summary(t) \/ ReptSummary(t) \/ PostFails(t)
  BY <1>2, <1>6, <1>12 DEF Commit, Summary, ReptSummary, PostFails, Goto,
     fsVars, taskVars
<1>13. QED
  BY <1>4, <1>5, <1>7, <1>8, <1>9, <1>10, <1>11, <1>12, NoFault DEF TaskStep

\* Tasks act as different ids, and every id has a task that acts as it.
LEMMA Quotient ==
  ASSUME NEW a \in Nat, NEW n \in Nat, n > 0
  PROVE  /\ a = n * (a \div n) + (a % n)
         /\ a \div n \in Int /\ a % n \in 0 .. n - 1
  OBVIOUS

LEMMA Multiple ==
  ASSUME NEW k \in Int, NEW n \in Nat, n > 0, k >= 1
  PROVE  n * k >= n
  OBVIOUS

LEMMA SameRest ==
  ASSUME NEW n \in Nat, n > 0, NEW r \in Nat, NEW t \in 0 .. n - 1,
         NEW u \in 0 .. n - 1, t <= u, (t + r) % n = (u + r) % n
  PROVE  t = u
<1> DEFINE a == (t + r) \div n  b == (u + r) \div n
<1>1. /\ t + r = n * a + ((t + r) % n) /\ u + r = n * b + ((u + r) % n)
      /\ a \in Int /\ b \in Int
  BY Quotient
<1> HIDE DEF a, b
<1>2. u - t = n * (b - a)
  BY <1>1, Quotient
<1>3. ~(b - a >= 1)
  BY <1>1, <1>2, Multiple
<1>4. ~(a - b >= 1)
  <2>1. a - b >= 1 => n * (a - b) >= n
    BY <1>1, Multiple
  <2>2. n * (a - b) = 0 - n * (b - a)
    BY <1>1
  <2>3. QED
    BY <1>1, <1>2, <2>1, <2>2
<1>5. a = b
  BY <1>1, <1>3, <1>4
<1>6. QED
  BY <1>1, <1>2, <1>5

LEMMA EveryRest ==
  ASSUME NEW n \in Nat, n > 0, NEW r \in Nat, NEW w \in 0 .. n - 1
  PROVE  \E u \in 0 .. n - 1 : (u + r) % n = w
<1> DEFINE q == r \div n  s == r % n
           u == IF w >= s THEN w - s ELSE w - s + n
<1>1. r = n * q + s /\ q \in Int /\ s \in 0 .. n - 1
  BY Quotient
<1> HIDE DEF q, s
<1>2. u \in 0 .. n - 1
  BY <1>1
<1> DEFINE p == (u + r) \div n  m == (u + r) % n
<1>3. u + r \in Nat
  BY <1>2
<1>4. u + r = n * p + m /\ p \in Int /\ m \in 0 .. n - 1
  BY <1>3, Quotient
<1>5. PICK c \in {0, 1} : u + s = w + c * n
  BY <1>1
<1> HIDE DEF p, m, u
<1>6. n * (p - q - c) = w - m
  BY <1>1, <1>2, <1>4, <1>5
<1>7. p - q - c >= 1 => n * (p - q - c) >= n
  BY <1>1, <1>4, Multiple
<1>8. q + c - p >= 1 => n * (q + c - p) >= n
  BY <1>1, <1>4, Multiple
<1>9. n * (q + c - p) = m - w
  BY <1>6, <1>1, <1>4
<1>10. p - q - c = 0
  BY <1>1, <1>4, <1>6, <1>7, <1>8, <1>9
<1>11. m = w
  BY <1>4, <1>6, <1>10
<1>12. QED
  BY <1>2, <1>11 DEF m

LEMMA IdInjective ==
  ASSUME TypeOK, NEW t \in Task, NEW u \in Task, phase[t] = phase[u],
         Id(t) = Id(u)
  PROVE  t = u
<1>1. CASE phase[t] = "write"
  BY <1>1 DEF Id
<1>2. CASE phase[t] # "write"
  <2>1. /\ (t + test.read_reorder_offset) % N = (u + test.read_reorder_offset) % N
        /\ test.read_reorder_offset \in Nat /\ N \in Nat /\ N > 0
        /\ t \in 0 .. N - 1 /\ u \in 0 .. N - 1
    BY <1>2, ValidTest, TestExecAssumption DEF Id, Task
  <2>2. t <= u \/ u <= t
    BY <2>1
  <2>3. QED
    BY <2>1, <2>2, SameRest
<1>3. QED
  BY <1>1, <1>2

\* Nobody removes a file that another task is still to remove.
LEMMA OthersFile ==
  ASSUME IInv, NEW t \in Task, Remove(t), NEW u \in Task, u # t,
         NeedsFile(u), FileOf(u) \in files
  PROVE  FileOf(u) \in files'
<1>1. pc[t] = "remove" /\ TypeOK
  BY DEF Remove, Goto, IInv
<1>2. Part(u) # 2
  BY DEF NeedsFile, Part, PartOf, Gone
<1>3. pc[u] = "remove" /\ Remover(u) /\ phase[u] = phase[t]
  BY <1>1, <1>2, OthersAtRemove DEF NeedsFile
<1>4. CASE ~Remover(t)
  BY <1>4 DEF Remove
<1>5. CASE Remover(t)
  <2>1. test.file_mode = "NXN"
    BY <1>3, <1>5 DEF Remover
  <2>2. Id(t) # Id(u)
    BY <1>1, <1>3, IdInjective
  <2>3. FileOf(t) # FileOf(u)
    BY <2>1, <2>2 DEF FileOf
  <2>4. QED
    BY <1>5, <2>3 DEF Remove
<1>6. QED
  BY <1>4, <1>5

LEMMA FilesStep ==
  ASSUME Faultless, NoFaultInv, NEW t \in Task, TaskStep(t), ~Fatal(t)
  PROVE  FilesThere'
<1>1. SUFFICES ASSUME NEW u \in Task, NeedsFile(u)' PROVE FileOf(u)' \in files'
  BY DEF FilesThere
<1>2. /\ IInv /\ TypeOK /\ PlacedAt(t) /\ t \in DOMAIN pc
      /\ NeedsFile(u) => FileOf(u) \in files
      /\ OpenFileExists
  BY DEF NoFaultInv, SafeInv, IInv, TypeOK, FInv, Placed, FilesThere
<1>3. test' = test
  BY <1>2, OthersStay
<1>4. CASE u # t
  <2>1. /\ pc'[u] = pc[u] /\ rept'[u] = rept[u] /\ phase'[u] = phase[u]
    BY <1>2, <1>4, OthersStay
  <2>2. NeedsFile(u) /\ FileOf(u)' = FileOf(u)
    BY <1>1, <1>3, <2>1, SameFile DEF NeedsFile, Remover
  <2>3. CASE Remove(t)
    BY <1>2, <1>4, <2>2, <2>3, OthersFile
  <2>4. CASE ~Remove(t)
    BY <1>2, <2>2, <2>4, FilesStay
  <2>5. QED
    BY <2>3, <2>4
<1>5. CASE u = t
  <2>1. pc'[t] \in {"close_sync", "remove_sync", "remove"}
    BY <1>1, <1>5 DEF NeedsFile
  <2>2. Close(t)
    <3>1. ~Start(t) /\ ~Prep(t) /\ ~Sizes(t) /\ ~Seed(t)
      BY <1>2, <2>1 DEF Start, Prep, Sizes, Seed, Goto, AfterPrep, AfterSizes
    <3>2. ~Create(t) /\ ~LateCreate(t) /\ ~Open(t) /\ ~LateOpen(t)
      BY <1>2, <2>1 DEF Create, LateCreate, Open, LateOpen, Goto, AfterOpen
    <3>3. ~Write(t) /\ ~Read(t) /\ ~Remove(t) /\ ~Commit(t)
      BY <1>2, <2>1 DEF Write, Read, Remove, Commit, Goto, AfterXfer
    <3>4. ~Summary(t) /\ ~ReptSummary(t) /\ ~Post(t) /\ ~PostFails(t)
      BY <1>2, <2>1 DEF Summary, ReptSummary, Post, PostFails, Goto
    <3>5. QED
      BY <3>1, <3>2, <3>3, <3>4, NoFault DEF TaskStep
  <2>3. pc[t] = "close" /\ files' = files /\ rept' = rept /\ phase' = phase
    BY <2>2 DEF Close, Goto
  <2>4. FileOf(t) \in files
    BY <1>2, <2>3 DEF PlacedAt, OpenFileExists, TypeOK, Type
  <2>5. QED
    BY <1>3, <1>5, <2>3, <2>4, SameFile
<1>6. QED
  BY <1>4, <1>5

LEMMA MasterStep ==
  ASSUME Faultless, NoFaultInv, NEW t \in Task, TaskStep(t), ~Fatal(t)
  PROVE  MasterCreates'
<1>1. SUFFICES ASSUME test'.afio = "cstream", phase'[Master] = "write",
                      pc'[Master] \in {"open_sync", "late_create"}
               PROVE  hdle'[Master] = "write"
  BY DEF MasterCreates
<1>2. /\ TypeOK /\ Master \in Task /\ PlacedAt(t)
      /\ t \in DOMAIN pc /\ t \in DOMAIN hdle
      /\ MasterCreates
  BY TestExecAssumption
     DEF NoFaultInv, SafeInv, IInv, TypeOK, FInv, Placed, Task, Master
<1>3. test' = test
  BY <1>2, OthersStay
<1>4. CASE t # Master
  BY <1>1, <1>2, <1>3, <1>4, OthersStay DEF MasterCreates
<1>5. CASE t = Master
  <2>1. CASE Create(t)
    <3>1. phase' = phase /\ pc'[t] = "open_sync"
      BY <1>1, <1>2, <1>5, <2>1 DEF Create, Goto, AfterOpen
    <3>2. CollectiveOpen(t)
      BY <1>2, <2>1, <3>1 DEF Create, Goto, AfterOpen
    <3>3. OpenForWriting(t)
      BY <1>1, <1>3, <1>5, <2>1, <3>2 DEF Create
    <3>4. QED
      BY <1>2, <1>5, <3>3 DEF OpenForWriting
  <2>2. CASE Open(t)
    <3>1. pc[t] = "open" /\ phase' = phase
      BY <2>2 DEF Open, OpenForReading, Goto, taskVars
    <3>2. QED
      BY <1>1, <1>2, <1>5, <3>1 DEF PlacedAt
  <2>3. CASE Start(t) \/ Prep(t) \/ Sizes(t) \/ Seed(t)
    BY <1>1, <1>2, <1>5, <2>3 DEF Start, Prep, Sizes, Seed, Goto, AfterPrep,
       AfterSizes
  <2>4. CASE LateCreate(t) \/ LateOpen(t) \/ Write(t) \/ Read(t) \/ Close(t)
    BY <1>1, <1>2, <1>5, <2>4 DEF LateCreate, LateOpen, Write, Read, Close, Goto,
       AfterOpen, AfterXfer, AfterClose
  <2>5. CASE Remove(t) \/ Commit(t) \/ Summary(t) \/ ReptSummary(t)
             \/ Post(t) \/ PostFails(t)
    BY <1>1, <1>2, <1>5, <2>5 DEF Remove, Commit, Summary, ReptSummary, Post,
       PostFails, Goto
  <2>6. QED
    BY <2>1, <2>2, <2>3, <2>4, <2>5, NoFault DEF TaskStep
<1>6. QED
  BY <1>4, <1>5

-------------------------------------------------------------------------------
(* No call of the I/O backend fails.                                       *)

\* The file a task that reads wants to open is there.
LEMMA ReadFileThere ==
  ASSUME SafeInv, NEW t \in Task, pc[t] \in {"open", "late_open", "xfer"},
         phase[t] = "read"
  PROVE  <<FileOf(t), Id(t)>> \in stored /\ FileOf(t) \in files
<1>1. ReadingAt(t)
  BY DEF ReadingAt, Part, PartOf, Gone
<1>2. Id(t) \in Task
  BY IdType DEF SafeInv, IInv
<1>3. <<FileOf(t), Id(t)>> \in stored
  BY <1>1, <1>2, FileNamed DEF SafeInv, RInv, DataThere
<1>4. QED
  BY <1>3 DEF SafeInv, StoredInFiles

\* So is the stream that the master creates for all.
LEMMA StreamThere ==
  ASSUME SafeInv, FInv, NEW t \in Task, pc[t] = "late_create",
         test.afio = "cstream", ~OwnNames
  PROVE  FileOf(t) \in files
<1>1. /\ TypeOK /\ PlacedAt(t) /\ PlacedAt(Master) /\ Master \in Task
  BY TestExecAssumption DEF SafeInv, IInv, Placed, Task, Master
<1>2. test.file_mode = "NX1" /\ phase[t] = "write" /\ CollectiveOpen(t)
  BY <1>1 DEF PlacedAt, CollectiveOpen
<1>3. ~Stranded /\ ~Gone(t)
  BY <1>2 DEF Stranded, RemovesDir, UsesDir, Gone
<1>4. /\ ~Gone(Master) /\ Repetition(Master) = Repetition(t)
      /\ Part(Master) = Part(t) /\ Left(Master) = Left(t)
  BY <1>1, <1>3, Together
<1>5. Part(t) = 0 /\ Left(t) = 2
  <2>1. ToOpened(t) = 2
    BY <1>2, Segments
  <2>2. QED
    BY <1>2, <2>1 DEF Part, PartOf, Gone, Left
<1>6. pc[Master] # "start" /\ phase[Master] = "write" /\ rept[Master] = rept[t]
  <2>1. pc[Master] # "start"
    BY <1>4, <1>5 DEF Left
  <2>2. phase[Master] = "write"
    BY <1>1, <1>4, <1>5, <2>1 DEF Part, PartOf, Gone, TypeOK, Type
  <2>3. QED
    BY <1>4, <2>1, <2>2 DEF Repetition
<1>7. CollectiveOpen(Master) /\ ToOpened(Master) = 2
  <2>1. CollectiveOpen(Master)
    BY <1>2, <1>6 DEF CollectiveOpen
  <2>2. QED
    BY <1>1, <2>1, Segments
<1>8. pc[Master] \in {"late_create", "opened", "xfer", "xfered", "close",
                      "close_sync", "remove_sync", "end"}
      /\ (pc[Master] = "end" => ~Removes(Master))
  <2>1. pc[Master] # "remove" /\ (pc[Master] = "end" => ~Removes(Master))
    <3>1. SUFFICES ASSUME pc[Master] \in {"remove", "end"}, Removes(Master)
                   PROVE  FALSE
      BY <1>1 DEF PlacedAt
    <3>2. Left(Master) = ToEnd(Master) + 1
      BY <3>1, Segments DEF Left
    <3>3. QED
      BY <3>2, <1>4, <1>5, <1>7, <1>1, SegmentOrder
  <2>2. Left(Master) # 0 /\ Left(Master) # 1 /\ Part(Master) # 2
    BY <1>4, <1>5
  <2>3. QED
    BY <2>1, <2>2, <1>1, <1>6 DEF Left, PlacedAt
<1>9. FileOf(Master) \in files
  <2>1. CASE pc[Master] \in {"late_create", "opened", "xfer", "xfered", "close"}
    <3>1. hdle[Master] # "closed"
      BY <1>1, <1>6, <2>1 DEF PlacedAt, FInv, MasterCreates
    <3>2. QED
      BY <1>1, <3>1 DEF SafeInv, OpenFileExists
  <2>2. CASE pc[Master] \in {"close_sync", "remove_sync"}
    BY <1>1, <2>2 DEF FInv, FilesThere, NeedsFile
  <2>3. CASE pc[Master] = "end"
    <3>1. WrittenAt(Master)
      BY <1>6, <1>8, <2>3 DEF WrittenAt
    <3>2. <<FileOf(Master), Master>> \in stored
      BY <1>1, <3>1 DEF SafeInv, RInv, Written
    <3>3. QED
      BY <3>2 DEF SafeInv, StoredInFiles
  <2>4. QED
    BY <1>8, <2>1, <2>2, <2>3
<1>10. FileOf(t) = FileOf(Master)
  <2>1. /\ FileOf(t) = FileAs(rept[t], t)
        /\ FileOf(Master) = FileAs(rept[Master], Master)
    BY <1>1, <1>2, <1>6, FileNamed
  <2>2. QED
    BY <2>1, <1>1, <1>2, <1>6, OneName
<1>11. QED
  BY <1>9, <1>10

\* The exception is the collective creation or opening of files with names of
\* their own.
LEMMA NoFatal ==
  ASSUME Faultless, SafeInv, FInv, NEW t \in Task, Fatal(t)
  PROVE  OwnNames /\ test.afio # "posix"
<1>1. SUFFICES ASSUME ~(OwnNames /\ test.afio # "posix") PROVE FALSE
  OBVIOUS
<1>2. IOError(t)
  BY DEF Fatal, Faultless
<1>3. PlacedAt(t) /\ TypeOK
  BY DEF SafeInv, IInv, Placed
<1>4. CASE pc[t] = "create" /\ UsesDir /\ Id(t) \notin dirs
  <2>1. phase[t] = "write"
    BY <1>3, <1>4 DEF PlacedAt
  <2>2. t \in dirs
    BY <1>4, <2>1 DEF FInv, DirsThere, NeedsDir, Idle
  <2>3. QED
    BY <1>4, <2>1, <2>2 DEF Id
<1>5. CASE pc[t] = "late_create" /\ test.afio = "cstream" /\ FileOf(t) \notin files
  BY <1>1, <1>5, StreamThere
<1>6. CASE /\ pc[t] = "late_create" /\ test.afio = "cstream"
           /\ t = Master /\ hdle[t] # "write"
  BY <1>3, <1>6 DEF PlacedAt, FInv, MasterCreates
<1>7. CASE pc[t] \in {"open", "late_open"} /\ FileOf(t) \notin files
  BY <1>3, <1>7, ReadFileThere DEF PlacedAt
<1>8. CASE pc[t] = "xfer" /\ phase[t] = "read" /\ <<FileOf(t), Id(t)>> \notin stored
  BY <1>8, ReadFileThere
<1>9. CASE test.afio = "mpiio" /\ OwnNames
  BY <1>1, <1>9
<1>10. QED
  BY <1>2, <1>4, <1>5, <1>6, <1>7, <1>8, <1>9 DEF IOError

LEMMA AbortsByFatal ==
  ASSUME NEW t \in Task, TaskStep(t), ~Fatal(t)
  PROVE  aborted' = aborted
<1>1. CASE Start(t) \/ Prep(t) \/ PrepFails(t) \/ Sizes(t) \/ Seed(t)
  BY <1>1 DEF Start, Prep, PrepFails, Sizes, Seed
<1>2. CASE Create(t) \/ CreateFails(t) \/ LateCreate(t) \/ Open(t) \/ LateOpen(t)
  BY <1>2 DEF Create, CreateFails, LateCreate, Open, LateOpen, OpenForReading
<1>3. CASE Write(t) \/ Read(t) \/ Close(t) \/ Remove(t) \/ RemoveFails(t)
  BY <1>3 DEF Write, Read, Close, Remove, RemoveFails
<1>4. CASE Commit(t) \/ Summary(t) \/ ReptSummary(t) \/ Post(t) \/ PostFails(t)
  BY <1>4 DEF Commit, Summary, ReptSummary, Post, PostFails
<1>5. QED
  BY <1>1, <1>2, <1>3, <1>4 DEF TaskStep

\* What says that nothing fails does not depend on the rest of the state.
LEMMA FaultlessUnchanged ==
  ASSUME FInv, NeverAborts',
         UNCHANGED <<test, pc, trail, rept, phase, rerr, hdle, files, dirs>>
  PROVE  FInv'
<1>1. ASSUME NEW t \in Task
      PROVE  /\ ResultAt(t)' = ResultAt(t) /\ Waiting(t)' = Waiting(t)
             /\ Gone(t)' = Gone(t) /\ NeedsDir(t)' = NeedsDir(t)
             /\ NeedsFile(t)' = NeedsFile(t) /\ FileOf(t)' = FileOf(t)
  BY SameFile DEF ResultAt, Stranded, RemovesDir, UsesDir, Waiting, Gone,
     NeedsDir, NeedsFile, Remover
<1>2. QED
  BY <1>1 DEF FInv, Results, FailsLast, GoneTogether, DirsThere, FilesThere,
     MasterCreates

\* A step of a task leaves all that says that nothing fails.
LEMMA FaultlessTaskStep ==
  ASSUME Faultless, NoFaultInv, NEW t \in Task, TaskStep(t)
  PROVE  FInv'
<1>0. CASE Fatal(t)
  <2>1. UNCHANGED <<test, pc, trail, rept, phase, rerr, hdle, files, dirs>>
    BY <1>0 DEF Fatal, taskVars, fsVars
  <2>2. OwnNames /\ test.afio # "posix"
    BY <1>0, NoFatal DEF NoFaultInv
  <2>3. NeverAborts'
    BY <2>1, <2>2 DEF NeverAborts, OwnNames
  <2>4. QED
    BY <2>1, <2>3, FaultlessUnchanged DEF NoFaultInv
<1> SUFFICES ASSUME ~Fatal(t) PROVE FInv'
  BY <1>0
<1>1. /\ TypeOK /\ ~Fatal(t) /\ FInv /\ Placed
  BY DEF NoFaultInv, SafeInv, IInv
<1>2. ASSUME NEW u \in Task, u # t
      PROVE  /\ ResultAt(u)' = ResultAt(u) /\ Waiting(u)' = Waiting(u)
             /\ trail'[u] = trail[u] /\ Gone(u)' = Gone(u)
  <2>1. /\ test' = test /\ pc'[u] = pc[u] /\ phase'[u] = phase[u]
        /\ rept'[u] = rept[u] /\ rerr'[u] = rerr[u] /\ trail'[u] = trail[u]
    BY <1>1, <1>2, OthersStay, OtherResultsStay
  <2>2. QED
    BY <2>1 DEF ResultAt, Stranded, RemovesDir, UsesDir, Waiting, Gone
<1>3. Results'
  BY <1>1, <1>2, ResultStep DEF FInv, Results
<1>4. FailsLast'
  BY <1>1, <1>2, FailsLastStep DEF FInv, FailsLast
<1>5. GoneTogether'
  <2>1. ~Gone(t) /\ ~Gone(t)'
    BY <1>1, Advances DEF Gone
  <2>2. QED
    BY <1>1, <1>2, <2>1 DEF FInv, GoneTogether
<1>6. NeverAborts'
  BY <1>1, AbortsByFatal, OthersStay DEF FInv, NeverAborts, OwnNames
<1>7. DirsThere' /\ FilesThere' /\ MasterCreates'
  BY <1>1, DirsStep, FilesStep, MasterStep
<1>8. QED
  BY <1>3, <1>4, <1>5, <1>6, <1>7 DEF FInv

\* Neither does the joint step.
LEMMA FaultlessRelease ==
  ASSUME IInv, FInv, Release
  PROVE  FInv'
<1>1. ASSUME NEW t \in Task
      PROVE  /\ pc[t] \in Inner \cup {"end", "rept_reduce", "rept_end", "comm_free"}
             /\ pc'[t] = AfterSync(t)
             /\ rept'[t] = rept[t] /\ phase'[t] = phase[t]
             /\ rerr'[t] = rerr[t] /\ hdle'[t] = hdle[t]
             /\ ResultAt(t)
  BY <1>1, ReleaseFrom DEF Release, taskVars, FInv, Results
<1>2. test' = test /\ files' = files /\ dirs' = dirs /\ aborted' = aborted
  BY DEF Release, fsVars
<1>3. (Stranded' <=> Stranded)
  BY <1>2 DEF Stranded, RemovesDir, UsesDir
<1>4. Results'
  <2>1. ASSUME NEW t \in Task
        PROVE  ResultAt(t)'
    <3>1. CASE pc[t] \in Inner \cup {"end"}
      <4>1. pc[t] \notin After
        BY <3>1 DEF After, Idle, Inner
      <4>2. pc'[t] \notin After
        BY <1>1, <3>1 DEF After, Idle, AfterSync, AfterClose, AfterOpen, Inner
      <4>3. QED
        BY <1>1, <1>3, <4>1, <4>2 DEF ResultAt
    <3>2. CASE pc[t] \in {"rept_reduce", "comm_free"}
      BY <1>1, <1>3, <3>2 DEF After, Idle, AfterSync, ResultAt
    <3>3. CASE pc[t] = "rept_end"
      <4>1. pc'[t] = IF rept[t] < NumRepetitions /\ ~rerr[t] THEN "start"
                     ELSE "comm_free"
        BY <1>1, <3>3 DEF AfterSync, AfterRept
      <4>2. QED
        BY <1>1, <1>3, <3>3, <4>1 DEF After, Idle, ResultAt
    <3>4. QED
      BY <1>1, <3>1, <3>2, <3>3
  <2>2. QED
    BY <2>1 DEF Results
<1>5. FailsLast'
  <2>1. \A t \in Task : pc'[t] # "rept_reduce"
    BY <1>1 DEF AfterSync, AfterRept, AfterClose, AfterOpen, Inner
  <2>2. QED
    BY <2>1 DEF FailsLast, Waiting
<1>6. GoneTogether'
  <2>1. SUFFICES ASSUME NEW t \in Task, NEW u \in Task, Gone(t)' PROVE Gone(u)'
    BY DEF GoneTogether
  <2>2. /\ pc[t] = "comm_free" <=> pc[u] = "comm_free"
        /\ pc[t] = "rept_end" <=> pc[u] = "rept_end"
        /\ pc[t] # "comm_free" => Repetition(t) = Repetition(u)
    BY ReleasePairs
  <2>3. CASE pc[t] = "comm_free"
    BY <1>1, <2>2, <2>3 DEF AfterSync, Gone
  <2>4. CASE pc[t] = "rept_end"
    <3>1. rept[t] = rept[u]
      BY <2>2, <2>4 DEF Repetition
    <3>2. rerr[t] = rerr[u]
      <4>1. (rerr[t] <=> Stranded) /\ (rerr[u] <=> Stranded)
        BY <1>1, <2>2, <2>4 DEF ResultAt, After, Idle
      <4>2. rerr[t] \in BOOLEAN /\ rerr[u] \in BOOLEAN
        BY DEF IInv, TypeOK
      <4>3. QED
        BY <4>1, <4>2
    <3>3. pc'[t] = AfterRept(t) /\ pc'[u] = AfterRept(u)
      BY <1>1, <2>2, <2>4 DEF AfterSync
    <3>4. QED
      BY <2>1, <3>1, <3>2, <3>3 DEF AfterRept, Gone
  <2>5. CASE pc[t] \notin {"comm_free", "rept_end"}
    BY <1>1, <2>1, <2>5 DEF AfterSync, AfterClose, AfterOpen, Gone, Inner
  <2>6. QED
    BY <2>3, <2>4, <2>5
<1>7. DirsThere'
  <2>1. SUFFICES ASSUME NEW t \in Task, NeedsDir(t)' PROVE t \in dirs
    BY <1>2 DEF DirsThere
  <2>2. NeedsDir(t)
    BY <1>1, <1>2, <2>1 DEF NeedsDir, UsesDir, AfterSync, AfterRept, Idle, Inner
  <2>3. QED
    BY <2>2 DEF FInv, DirsThere
<1>8. FilesThere'
  <2>1. SUFFICES ASSUME NEW t \in Task, NeedsFile(t)' PROVE FileOf(t) \in files
    BY <1>1, <1>2, SameFile DEF FilesThere
  <2>2. pc'[t] \in {"remove_sync", "remove"}
    BY <1>1, <2>1 DEF NeedsFile, AfterSync, AfterRept, AfterClose, Inner
  <2>3. NeedsFile(t)
    BY <1>1, <2>2 DEF NeedsFile, AfterSync, AfterRept, AfterClose, Inner
  <2>4. QED
    BY <2>3 DEF FInv, FilesThere
<1>9. MasterCreates'
  <2>1. SUFFICES ASSUME test.afio = "cstream", phase[Master] = "write",
                        pc'[Master] \in {"open_sync", "late_create"}
                 PROVE  hdle[Master] = "write"
    BY <1>1, <1>2, TestExecAssumption DEF MasterCreates, Task, Master
  <2>2. Master \in Task
    BY TestExecAssumption DEF Task, Master
  <2>3. pc[Master] = "open_sync"
    BY <1>1, <2>1, <2>2 DEF AfterSync, AfterRept, AfterClose, Inner
  <2>4. QED
    BY <2>1, <2>3 DEF FInv, MasterCreates
<1>10. NeverAborts'
  BY <1>2 DEF FInv, NeverAborts, OwnNames
<1>11. QED
  BY <1>4, <1>5, <1>6, <1>7, <1>8, <1>9, <1>10 DEF FInv

LEMMA FilesOnlyByCreate ==
  ASSUME NEW t \in Task, TaskStep(t), ~(Create(t) \/ LateCreate(t))
  PROVE  files' \subseteq files
<1>1. CASE Start(t) \/ Prep(t) \/ PrepFails(t) \/ Sizes(t) \/ Seed(t)
  BY <1>1 DEF Start, Prep, PrepFails, Sizes, Seed, fsVars
<1>2. CASE CreateFails(t) \/ Open(t) \/ LateOpen(t) \/ Write(t) \/ Read(t)
  BY <1>2 DEF CreateFails, Open, LateOpen, OpenForReading, Write, Read, fsVars
<1>3. CASE Close(t) \/ Remove(t) \/ RemoveFails(t) \/ Commit(t)
  BY <1>3 DEF Close, Remove, RemoveFails, Commit, fsVars
<1>4. CASE Summary(t) \/ ReptSummary(t) \/ Post(t) \/ PostFails(t) \/ Fatal(t)
  BY <1>4 DEF Summary, ReptSummary, Post, PostFails, Fatal, fsVars
<1>5. QED
  BY <1>1, <1>2, <1>3, <1>4 DEF TaskStep

LEMMA DirsOnlyByPrep ==
  ASSUME NEW t \in Task, TaskStep(t), ~Prep(t)
  PROVE  dirs' \subseteq dirs
<1>1. CASE Start(t) \/ PrepFails(t) \/ Sizes(t) \/ Seed(t)
  BY <1>1 DEF Start, PrepFails, Sizes, Seed, fsVars
<1>2. CASE Create(t) \/ CreateFails(t) \/ LateCreate(t)
  BY <1>2 DEF Create, CreateFails, LateCreate, fsVars
<1>3. CASE Open(t) \/ LateOpen(t) \/ Write(t) \/ Read(t) \/ Close(t)
  BY <1>3 DEF Open, LateOpen, OpenForReading, Write, Read, Close, fsVars
<1>4. CASE Remove(t) \/ RemoveFails(t) \/ Commit(t)
  BY <1>4 DEF Remove, RemoveFails, Commit, fsVars
<1>5. CASE Summary(t) \/ ReptSummary(t) \/ Post(t) \/ PostFails(t) \/ Fatal(t)
  BY <1>5 DEF Summary, ReptSummary, Post, PostFails, Fatal, fsVars
<1>6. QED
  BY <1>1, <1>2, <1>3, <1>4, <1>5 DEF TaskStep

-------------------------------------------------------------------------------
(* What a run leaves behind.                                               *)

\* A task that will remove its file goes on to do so.
LEMMA OwnerGoesOn ==
  ASSUME Faultless, NoFaultInv, NEW t \in Task, TaskStep(t), ~Fatal(t),
         ~test.file_keep, ~Stranded, StillToRemove(t), ~Remove(t)
  PROVE  StillToRemove(t)' /\ rept'[t] = rept[t]
<1>1. /\ TypeOK /\ ~Fatal(t) /\ PlacedAt(t) /\ ResultAt(t) /\ t \in DOMAIN pc
      /\ t \in DOMAIN phase
  BY DEF NoFaultInv, SafeInv, IInv, Placed, FInv, Results, TypeOK
<1>2. test' = test
  BY <1>1, OthersStay
<1>3. /\ pc[t] \notin Idle
      /\ phase[t] = "write" => pc[t] \notin {"prep", "sizes", "seed", "begin"}
      /\ Removes(t) => pc[t] \notin {"end", "commit", "summary", "post"}
  BY DEF StillToRemove
<1>4. ASSUME phase' = phase, rept' = rept, pc'[t] \notin Idle,
             phase[t] = "write" => pc'[t] \notin {"prep", "sizes", "seed", "begin"},
             Removes(t) => pc'[t] \notin {"end", "commit", "summary", "post"}
      PROVE  StillToRemove(t)' /\ rept'[t] = rept[t]
  BY <1>2, <1>4 DEF StillToRemove, Removes
<1> USE DEF Idle
<1>5. ~Start(t) /\ ~ReptSummary(t)
  BY <1>3 DEF Start, ReptSummary, Goto
<1>6. CASE Prep(t) \/ Sizes(t) \/ Seed(t)
  BY <1>1, <1>3, <1>4, <1>6 DEF Prep, Sizes, Seed, Goto, AfterPrep, AfterSizes,
     taskVars
<1>7. CASE Create(t) \/ LateCreate(t) \/ Open(t) \/ LateOpen(t)
  BY <1>1, <1>4, <1>7 DEF Create, LateCreate, Open, LateOpen, OpenForReading,
     Goto, AfterOpen, taskVars
<1>8. CASE Write(t) \/ Read(t)
  BY <1>1, <1>4, <1>8 DEF Write, Read, Goto, AfterXfer, taskVars
<1>9. CASE Close(t)
  BY <1>1, <1>4, <1>9 DEF Close, Goto, AfterClose
<1>10. CASE Commit(t)
  <2>1. pc[t] = "commit" /\ ~rerr[t]
    BY <1>1, <1>10 DEF Commit, Goto, ResultAt, After
  <2>2. QED
    BY <1>1, <1>3, <1>4, <1>10, <2>1 DEF Commit, Goto, taskVars
<1>11. CASE Summary(t)
  BY <1>1, <1>3, <1>4, <1>11 DEF Summary, Goto, taskVars
<1>12. CASE Post(t)
  <2>1. pc[t] = "post"
    BY <1>12 DEF Post, Goto
  <2>2. phase[t] = "write" /\ test.read
    BY <1>3, <2>1 DEF Removes
  <2>3. pc'[t] = "prep" /\ phase'[t] = "read" /\ rept' = rept
    BY <1>1, <1>12, <2>2 DEF Post, Goto
  <2>4. QED
    BY <2>3 DEF StillToRemove
<1>13. ~PostFails(t)
  BY PostEnds DEF NoFaultInv
<1>14. QED
  BY <1>1, <1>5, <1>6, <1>7, <1>8, <1>9, <1>10, <1>11, <1>12, <1>13, NoFault
     DEF TaskStep

\* While some task creates its file all tasks are still to remove theirs.
LEMMA WithCreator ==
  ASSUME NoFaultInv, ~Stranded, NEW t \in Task,
         pc[t] \in {"create", "late_create"}, NEW u \in Task
  PROVE  StillToRemove(u) /\ rept[u] = rept[t] /\ phase[u] = "write"
<1>1. PlacedAt(t) /\ PlacedAt(u) /\ TypeOK
  BY DEF NoFaultInv, SafeInv, IInv, Placed
<1>2. phase[t] = "write" /\ Part(t) = 0 /\ ~Gone(t)
  BY <1>1 DEF PlacedAt, Part, PartOf, Gone
<1>3. /\ ~Gone(u) /\ Repetition(t) = Repetition(u)
      /\ Part(u) = 0 /\ Left(u) = Left(t)
  BY <1>2, Together DEF NoFaultInv
<1>4. Left(t) \in {1, ToOpened(t)}
  BY DEF Left
<1>5. Left(u) # 0
  BY <1>3, <1>4, SegmentOrder
<1>6. pc[u] \notin Idle \cup {"prep", "sizes", "seed", "begin", "commit",
                              "summary", "post"}
  BY <1>3, <1>5 DEF Left, Part, Gone, Idle
<1>7. phase[u] = "write"
  BY <1>1, <1>3, <1>6 DEF Part, PartOf, Gone, TypeOK, Type, Idle
<1>8. Repetition(u) = rept[u] /\ Repetition(t) = rept[t]
  BY <1>6 DEF Repetition, Idle
<1>9. ~(Removes(u) /\ pc[u] = "end")
  <2>1. SUFFICES ASSUME Removes(u), pc[u] = "end" PROVE FALSE
    OBVIOUS
  <2>2. Left(u) = ToEnd(u) + 1
    BY <2>1, Segments DEF Left
  <2>3. ToOpened(t) = ToOpened(u)
    BY <1>2, <1>7 DEF ToOpened, CollectiveOpen
  <2>4. Left(u) <= ToOpened(u)
    BY <1>3, <1>4, <2>3, SegmentOrder
  <2>5. QED
    BY <2>2, <2>4, SegmentOrder
<1>10. QED
  BY <1>3, <1>6, <1>7, <1>8, <1>9 DEF StillToRemove

\* Some task removes the file that a task creates, unless it is left over.
LEMMA CreatedOwned ==
  ASSUME NoFaultInv, ~Stranded, NEW t \in Task,
         pc[t] \in {"create", "late_create"}, ~Leftover(FileOf(t))
  PROVE  \E u \in Task :
           Remover(u) /\ StillToRemove(u) /\ FileOf(t) = FileAs(rept[u], LastId(u))
<1>1. TypeOK /\ phase[t] = "write"
  BY DEF NoFaultInv, SafeInv, IInv, Placed, PlacedAt
<1>2. FileOf(t) = FileAs(rept[t], t)
  BY <1>1, FileNamed
<1>3. CASE test.file_mode = "NX1"
  <2>1. Master \in Task /\ Remover(Master)
    BY TestExecAssumption DEF Task, Master, Remover
  <2>2. FileAs(rept[t], t) = FileAs(rept[t], LastId(Master))
    <3>1. CASE OwnNames
      <4>1. FileOf(t)[2] = t
        BY <1>2, <3>1 DEF FileAs, OwnNames
      <4>2. QED
        BY <3>1, <4>1 DEF Leftover
    <3>2. CASE ~OwnNames
      BY <1>3, <3>2, OneName
    <3>3. QED
      BY <3>1, <3>2
  <2>3. QED
    BY <1>2, <2>1, <2>2, WithCreator
<1>4. CASE test.file_mode = "NXN"
  <2>1. PICK u \in Task : LastId(u) = t
    <3>1. CASE ~test.read
      BY <3>1 DEF LastId
    <3>2. CASE test.read
      <4>1. /\ N \in Nat /\ N > 0 /\ test.read_reorder_offset \in Nat
            /\ t \in 0 .. N - 1
        BY <1>1, ValidTest, TestExecAssumption DEF Task
      <4>2. PICK u \in 0 .. N - 1 : (u + test.read_reorder_offset) % N = t
        BY <4>1, EveryRest
      <4>3. QED
        BY <3>2, <4>2 DEF LastId, Task
    <3>3. QED
      BY <3>1, <3>2
  <2>2. Remover(u)
    BY <1>4 DEF Remover
  <2>3. QED
    BY <1>2, <2>1, <2>2, WithCreator
<1>5. QED
  BY <1>1, <1>3, <1>4, ValidTest

LEMMA OwnedStays ==
  ASSUME test' = test, NEW u \in Task
  PROVE  /\ Remover(u)' = Remover(u)
         /\ rept'[u] = rept[u] =>
              FileAs(rept[u], LastId(u))' = FileAs(rept[u], LastId(u))
         /\ \A f : Leftover(f)' <=> Leftover(f)
<1>1. LastId(u)' = LastId(u) /\ LastId(Master)' = LastId(Master)
  BY DEF LastId
<1>2. QED
  BY <1>1 DEF Remover, FileAs, Leftover, OwnNames

LEMMA FilesOwnedStep ==
  ASSUME Faultless, NoFaultInv, NEW t \in Task, TaskStep(t), ~Fatal(t),
         ~test.file_keep, ~Stranded
  PROVE  FilesOwned'
<1>1. SUFFICES ASSUME NEW f \in files', ~Leftover(f)'
               PROVE  \E u \in Task : /\ Remover(u)' /\ StillToRemove(u)'
                                      /\ f = FileAs(rept[u], LastId(u))'
  BY DEF FilesOwned
<1>2. TypeOK /\ test' = test /\ PlacedAt(t)
  BY OthersStay DEF NoFaultInv, SafeInv, IInv, Placed
<1> ~Leftover(f)
  BY <1>1, <1>2, OwnedStays
<1>3. \E u \in Task : /\ Remover(u) /\ StillToRemove(u)
                      /\ f = FileAs(rept[u], LastId(u))
  <2>1. CASE f \in files
    BY <2>1 DEF NoFaultInv, LInv, FilesOwned
  <2>2. CASE f \notin files
    <3>1. f = FileOf(t) /\ pc[t] \in {"create", "late_create"}
      <4>1. CASE Create(t) \/ LateCreate(t)
        BY <1>1, <2>2, <4>1 DEF Create, LateCreate, OpenForWriting, Goto
      <4>2. ~(Create(t) \/ LateCreate(t)) => files' \subseteq files
        BY FilesOnlyByCreate
      <4>3. QED
        BY <1>1, <2>2, <4>1, <4>2
    <3>2. QED
      BY <3>1, CreatedOwned
  <2>3. QED
    BY <2>1, <2>2
<1>4. PICK u \in Task : /\ Remover(u) /\ StillToRemove(u)
                        /\ f = FileAs(rept[u], LastId(u))
  BY <1>3
<1>5. StillToRemove(u)' /\ rept'[u] = rept[u]
  <2>1. CASE u # t
    <3>1. pc'[u] = pc[u] /\ rept'[u] = rept[u] /\ phase'[u] = phase[u]
      BY <1>2, <2>1, OthersStay
    <3>2. QED
      BY <1>2, <1>4, <3>1 DEF StillToRemove, Removes
  <2>2. CASE u = t /\ ~Remove(t)
    BY <1>4, <2>2, OwnerGoesOn
  <2>3. CASE u = t /\ Remove(t)
    <3>1. pc[t] = "remove" /\ Removes(t)
      BY <1>2, <2>3 DEF Remove, Goto, PlacedAt
    <3>2. LastId(t) = Id(t)
      BY <1>2, <3>1 DEF Removes, LastId, Id, PlacedAt, TypeOK, Type
    <3>3. f = FileOf(t)
      BY <1>4, <2>3, <3>2, FileNamed
    <3>4. QED
      BY <1>1, <1>4, <2>3, <3>3 DEF Remove
  <2>4. QED
    BY <2>1, <2>2, <2>3
<1>6. QED
  BY <1>2, <1>4, <1>5, OwnedStays

LEMMA DirsOwnedStep ==
  ASSUME Faultless, NoFaultInv, NEW t \in Task, TaskStep(t), ~Fatal(t),
         ~test.file_keep, ~Stranded
  PROVE  DirsOwned'
<1>1. SUFFICES ASSUME NEW d \in dirs'
               PROVE  UsesDir' /\ phase'[d] = "write" /\ pc'[d] \notin Idle
  BY DEF DirsOwned
<1>2. /\ TypeOK /\ test' = test /\ PlacedAt(t) /\ ~Fatal(t) /\ ResultAt(t)
      /\ t \in DOMAIN pc /\ t \in DOMAIN phase
      /\ dirs \subseteq Task
  BY OthersStay
     DEF NoFaultInv, SafeInv, IInv, Placed, FInv, Results, TypeOK
<1>3. ASSUME NEW e \in dirs
      PROVE  UsesDir /\ phase[e] = "write" /\ pc[e] \notin Idle
  BY DEF NoFaultInv, LInv, DirsOwned
<1>4. UsesDir => ~test.read /\ RemovesDir /\ Id(t) = t /\ phase[t] = "write"
  BY <1>2 DEF Stranded, RemovesDir, PlacedAt, Id, TypeOK, Type
<1>5. CASE Prep(t) /\ d = t
  <2>1. UsesDir
    BY <1>1, <1>3, <1>5 DEF Prep
  <2>2. QED
    BY <1>2, <1>4, <1>5, <2>1 DEF Prep, Goto, AfterPrep, AfterSizes, Idle,
       taskVars, UsesDir
<1>6. ASSUME d # t PROVE UsesDir' /\ phase'[d] = "write" /\ pc'[d] \notin Idle
  <2>1. d \in dirs
    <3>1. CASE Prep(t)
      BY <1>1, <1>3, <1>4, <1>6, <3>1 DEF Prep
    <3>2. CASE ~Prep(t)
      BY <1>1, <3>2, DirsOnlyByPrep
    <3>3. QED
      BY <3>1, <3>2
  <2>2. d \in Task
    BY <1>2, <2>1
  <2>3. pc'[d] = pc[d] /\ phase'[d] = phase[d]
    BY <1>2, <1>6, <2>2, OthersStay
  <2>4. QED
    BY <1>2, <1>3, <2>1, <2>3 DEF UsesDir
<1>7. CASE d = t /\ ~Prep(t)
  <2>1. t \in dirs
    BY <1>1, <1>7, DirsOnlyByPrep
  <2>2. /\ UsesDir /\ phase[t] = "write" /\ pc[t] \notin Idle
        /\ ~test.read /\ RemovesDir
    BY <1>3, <1>4, <2>1
  <2>3. UsesDir'
    BY <1>2, <2>2 DEF UsesDir
  <2>4. ~Post(t)
    BY <1>1, <1>4, <1>7, <2>2 DEF Post
  <2>5. phase'[t] = "write" /\ pc'[t] \notin Idle
    <3> USE DEF Idle
    <3>1. ~Start(t) /\ ~ReptSummary(t)
      BY <2>2 DEF Start, ReptSummary, Goto
    <3>2. CASE Sizes(t) \/ Seed(t)
      BY <1>2, <2>2, <3>2 DEF Sizes, Seed, Goto, AfterSizes, taskVars
    <3>3. CASE Create(t) \/ LateCreate(t) \/ Open(t) \/ LateOpen(t)
      BY <1>2, <2>2, <3>3 DEF Create, LateCreate, Open, LateOpen, OpenForReading,
         Goto, AfterOpen, taskVars
    <3>4. CASE Write(t) \/ Read(t) \/ Close(t) \/ Remove(t) \/ Summary(t)
      BY <1>2, <2>2, <3>4 DEF Write, Read, Close, Remove, Summary, Goto,
         AfterXfer, AfterClose, taskVars
    <3>5. CASE Commit(t)
      <4>1. ~rerr[t]
        BY <1>2, <3>5 DEF Commit, Goto, ResultAt, After
      <4>2. QED
        BY <1>2, <2>2, <3>5, <4>1 DEF Commit, Goto, taskVars
    <3>6. ~PostFails(t)
      BY PostEnds DEF NoFaultInv
    <3>7. QED
      BY <1>2, <1>7, <2>4, <3>1, <3>2, <3>3, <3>4, <3>5, <3>6, NoFault
         DEF TaskStep
  <2>6. QED
    BY <1>7, <2>3, <2>5
<1>8. QED
  BY <1>5, <1>6, <1>7

LEMMA LeftoverRelease ==
  ASSUME SafeInv, LInv, Release
  PROVE  LInv'
<1>1. ASSUME NEW t \in Task
      PROVE  /\ pc[t] \in Inner \cup {"end", "rept_reduce", "rept_end", "comm_free"}
             /\ pc'[t] = AfterSync(t)
             /\ rept'[t] = rept[t] /\ phase'[t] = phase[t]
             /\ phase[t] \in Type
  BY <1>1, ReleaseFrom DEF Release, taskVars, SafeInv, IInv, TypeOK
<1>2. test' = test /\ files' = files /\ dirs' = dirs
  BY DEF Release, fsVars
<1>3. SUFFICES ASSUME ~test.file_keep, ~Stranded PROVE FilesOwned' /\ DirsOwned'
  BY <1>2 DEF LInv, Stranded, RemovesDir, UsesDir
<1>4. ASSUME NEW t \in Task, StillToRemove(t)
      PROVE  StillToRemove(t)'
  <2>1. Removes(t)' = Removes(t)
    BY <1>1, <1>2 DEF Removes
  <2>2. pc[t] \in Inner \cup {"end"} /\ (phase[t] = "write" => pc[t] # "begin")
    BY <1>1, <1>4 DEF StillToRemove, Idle
  <2>3. /\ pc[t] = "begin" => pc'[t] \in {"create", "open"}
        /\ pc[t] = "open_sync" => pc'[t] \in {"late_open", "late_create"}
        /\ pc[t] = "opened" => pc'[t] = "xfer"
        /\ pc[t] = "xfered" => pc'[t] = "close"
        /\ pc[t] = "close_sync" =>
             pc'[t] = IF Removes(t) THEN "remove_sync" ELSE "end"
        /\ pc[t] = "remove_sync" => pc'[t] = "remove"
        /\ pc[t] = "end" => pc'[t] = "commit" /\ ~Removes(t)
    BY <1>1, <1>4 DEF AfterSync, AfterClose, StillToRemove
  <2>4. pc'[t] \notin Idle \cup {"prep", "sizes", "seed", "begin"}
    BY <2>2, <2>3 DEF Inner, Idle
  <2>5. Removes(t) => pc'[t] \notin {"end", "commit", "summary", "post"}
    BY <2>2, <2>3 DEF Inner
  <2>6. QED
    BY <2>1, <2>4, <2>5 DEF StillToRemove
<1>5. FilesOwned'
  <2>1. SUFFICES ASSUME NEW f \in files, ~Leftover(f)'
                 PROVE  \E u \in Task : /\ Remover(u)' /\ StillToRemove(u)'
                                        /\ f = FileAs(rept[u], LastId(u))'
    BY <1>2 DEF FilesOwned
  <2> ~Leftover(f)
    <3>1. Master \in Task
      BY TestExecAssumption DEF Task, Master
    <3>2. QED
      BY <1>2, <2>1, <3>1, OwnedStays
  <2>2. PICK u \in Task : /\ Remover(u) /\ StillToRemove(u)
                          /\ f = FileAs(rept[u], LastId(u))
    BY <1>3, <2>1 DEF LInv, FilesOwned
  <2>3. QED
    BY <1>1, <1>2, <1>4, <2>2, OwnedStays
<1>6. DirsOwned'
  <2>1. SUFFICES ASSUME NEW d \in dirs
                 PROVE  UsesDir /\ phase'[d] = "write" /\ pc'[d] \notin Idle
    BY <1>2 DEF DirsOwned, UsesDir
  <2>2. d \in Task /\ UsesDir /\ phase[d] = "write" /\ pc[d] \notin Idle
    BY <1>3 DEF LInv, DirsOwned, SafeInv, IInv, TypeOK
  <2>3. pc[d] \in Inner \cup {"end"}
    BY <1>1, <2>2 DEF Idle
  <2>4. pc'[d] \notin Idle
    BY <1>1, <2>2, <2>3 DEF AfterSync, AfterClose, Idle, Inner
  <2>5. QED
    BY <1>1, <2>2, <2>4
<1>7. QED
  BY <1>5, <1>6

LEMMA LeftoverUnchanged ==
  ASSUME LInv, UNCHANGED <<test, pc, rept, phase, files, dirs>>
  PROVE  LInv'
<1>1. ASSUME NEW u \in Task
      PROVE  /\ StillToRemove(u)' = StillToRemove(u) /\ Remover(u)' = Remover(u)
             /\ FileAs(rept[u], LastId(u))' = FileAs(rept[u], LastId(u))
             /\ \A f : Leftover(f)' <=> Leftover(f)
  BY OwnedStays DEF StillToRemove, Removes
<1>2. Master \in Task
  BY TestExecAssumption DEF Task, Master
<1>3. FilesOwned => FilesOwned'
  BY <1>1, <1>2 DEF FilesOwned
<1>4. DirsOwned => DirsOwned'
  BY DEF DirsOwned, UsesDir
<1>5. QED
  BY <1>3, <1>4 DEF LInv, Stranded, RemovesDir, UsesDir

LEMMA NoFaultNext ==
  ASSUME Faultless
  PROVE  NoFaultInv /\ [Next]_vars => NoFaultInv'
<1>1. SUFFICES ASSUME NoFaultInv, [Next]_vars PROVE NoFaultInv'
  OBVIOUS
<1>2. SafeInv'
  BY <1>1, SafeNext DEF NoFaultInv
<1>3. CASE Release
  BY <1>1, <1>2, <1>3, FaultlessRelease, LeftoverRelease DEF NoFaultInv, SafeInv
<1>4. ASSUME NEW t \in Task, TaskStep(t)
      PROVE  NoFaultInv'
  <2>1. FInv'
    BY <1>1, <1>4, FaultlessTaskStep
  <2>2. test' = test
    BY <1>1, <1>4, OthersStay DEF NoFaultInv, SafeInv, IInv
  <2>3. LInv'
    <3>1. SUFFICES ASSUME ~test.file_keep, ~Stranded
                   PROVE  FilesOwned' /\ DirsOwned'
      BY <2>2 DEF LInv, Stranded, RemovesDir, UsesDir
    <3>2. CASE ~Fatal(t)
      BY <1>1, <1>4, <3>1, <3>2, FilesOwnedStep, DirsOwnedStep
    <3>3. CASE Fatal(t)
      <4>1. UNCHANGED <<test, pc, rept, phase, files, dirs>>
        BY <3>3 DEF Fatal, taskVars, fsVars
      <4>2. LInv'
        BY <1>1, <4>1, LeftoverUnchanged DEF NoFaultInv
      <4>3. QED
        BY <2>2, <3>1, <4>2 DEF LInv, Stranded, RemovesDir, UsesDir
    <3>4. QED
      BY <3>2, <3>3
  <2>4. QED
    BY <1>2, <2>1, <2>3 DEF NoFaultInv
<1>5. CASE Terminating \/ UNCHANGED vars
  <2>1. UNCHANGED vars
    BY <1>5 DEF Terminating
  <2>2. /\ UNCHANGED <<test, pc, trail, rept, phase, rerr, hdle, files, dirs>>
        /\ aborted' = aborted
    BY <2>1 DEF vars, taskVars, fsVars
  <2>3. FInv'
    <3>1. NeverAborts'
      BY <1>1, <2>2 DEF NoFaultInv, FInv, NeverAborts, OwnNames
    <3>2. QED
      BY <1>1, <2>2, <3>1, FaultlessUnchanged DEF NoFaultInv
  <2>4. LInv'
    BY <1>1, <2>2, LeftoverUnchanged DEF NoFaultInv
  <2>5. QED
    BY <1>2, <2>3, <2>4 DEF NoFaultInv
<1>6. QED
  BY <1>1, <1>3, <1>4, <1>5 DEF Next

LEMMA NoFaultInit == Init => NoFaultInv
<1>1. SUFFICES ASSUME Init PROVE NoFaultInv
  OBVIOUS
<1>2. /\ \A t \in Task : pc[t] = "start" /\ ~rerr[t] /\ phase[t] = "write"
      /\ files = {} /\ dirs = {} /\ ~aborted /\ Master \in Task
  BY <1>1, TestExecAssumption DEF Init, Task, Master
<1>3. FInv
  BY <1>2 DEF FInv, Results, ResultAt, After, Idle, FailsLast, Waiting,
     GoneTogether, Gone, DirsThere, NeedsDir, FilesThere, NeedsFile, MasterCreates,
     NeverAborts
<1>4. LInv
  BY <1>2 DEF LInv, FilesOwned, DirsOwned
<1>5. QED
  BY <1>1, <1>3, <1>4, SafeInit DEF NoFaultInv

\* While no call of the operating system fails, for every number of tasks and
\* every set of tests, every result is the one the test predicts, the
\* directories and files that closing, reading and removing need are there,
\* and every file will be removed by some task; only where tasks have names of
\* their own for a shared file may a collective creation or opening of it
\* abort all tasks, and are the files of other ids than the master's left.
THEOREM FaultlessInvariance ==
  ASSUME Faultless
  PROVE  Spec => []NoFaultInv
<1>1. Init => NoFaultInv
  BY NoFaultInit
<1>2. NoFaultInv /\ [Next]_vars => NoFaultInv'
  BY NoFaultNext
<1>3. QED
  BY <1>1, <1>2, PTL DEF Spec

\* Unless the operating system fails a call iore_fatalf() is never reached, for
\* every number of tasks and every test, except where the stdio or the MPI-IO
\* backend creates or opens a shared file the tasks have names of their own for.
THEOREM NothingAborts ==
  ASSUME Faultless
  PROVE  Spec => []NeverAborts
<1>1. NoFaultInv => NeverAborts
  BY DEF NoFaultInv, FInv, NeverAborts
<1>2. QED
  BY <1>1, FaultlessInvariance, PTL

\* Without failing calls all tasks leave a repetition of run_rept_exec() with
\* the same result, and run_exec() goes on or ends for all of them.
THEOREM OneResult ==
  ASSUME Faultless
  PROVE  Spec => []SameResult
<1>1. NoFaultInv => SameResult
  <2>1. SUFFICES ASSUME NoFaultInv, NEW t \in Task, NEW u \in Task,
                        pc[t] = "rept_end", pc[u] = "rept_end"
                 PROVE  rerr[t] = rerr[u]
    BY DEF SameResult
  <2>2. (rerr[t] <=> Stranded) /\ (rerr[u] <=> Stranded)
    BY <2>1 DEF NoFaultInv, FInv, Results, ResultAt, After, Idle
  <2>3. rerr[t] \in BOOLEAN /\ rerr[u] \in BOOLEAN
    BY <2>1 DEF NoFaultInv, SafeInv, IInv, TypeOK
  <2>4. QED
    BY <2>2, <2>3
<1>2. QED
  BY <1>1, FaultlessInvariance, PTL

\* A run without errors that does not keep its files leaves no file and no
\* directory behind: every file that some task creates, whatever the
\* reordering of the read test, is removed by a task that acts as its id.
\* Where tasks have names of their own for a shared file, which the master
\* alone removes, the files of the id the master acts as are gone.
THEOREM NothingLeft ==
  ASSUME Faultless
  PROVE  Spec => []CleansUp
<1>1. NoFaultInv => CleansUp
  <2>1. SUFFICES ASSUME NoFaultInv, \A t \in Task : pc[t] = "done" /\ ~rerr[t],
                        ~test.file_keep
                 PROVE  /\ dirs = {}
                        /\ \A f \in files : Leftover(f)
    BY DEF CleansUp, Leftover
  <2>2. Master \in Task
    BY TestExecAssumption DEF Task, Master
  <2>3. ~Stranded
    BY <2>1, <2>2 DEF NoFaultInv, FInv, Results, ResultAt, After, Idle
  <2>4. FilesOwned /\ DirsOwned /\ dirs \subseteq Task
    BY <2>1, <2>3 DEF NoFaultInv, LInv, SafeInv, IInv, TypeOK
  <2>5. \A f \in files : Leftover(f)
    BY <2>1, <2>4 DEF FilesOwned, StillToRemove, Idle
  <2>6. dirs = {}
    BY <2>1, <2>4 DEF DirsOwned, Idle
  <2>7. QED
    BY <2>5, <2>6
<1>2. QED
  BY <1>1, FaultlessInvariance, PTL

LEMMA SameCalls ==
  ASSUME NoFaultInv, NEW t \in Task, NEW u \in Task,
         NEW k \in DOMAIN trail[t] \cap DOMAIN trail[u]
  PROVE  trail[t][k] = trail[u][k]
<1>1. /\ trail[t] \in Seq(Kind) /\ trail[u] \in Seq(Kind)
      /\ k \in 1 .. Len(trail[t]) /\ k \in 1 .. Len(trail[u]) /\ TypeOK
  BY DEF NoFaultInv, SafeInv, IInv, TypeOK
<1>2. CASE Gone(t)
  <2>1. Gone(u)
    BY <1>2 DEF NoFaultInv, FInv, GoneTogether
  <2>2. ASSUME NEW v \in {t, u} PROVE trail[v] \in {<<>>, <<"comm_free">>}
    BY <1>2, <2>1 DEF NoFaultInv, SafeInv, DInv, Courses, Gone, Entered, Local,
       KindOf, Bcast
  <2>3. QED
    BY <1>1, <2>2
<1>3. ASSUME NEW v \in Task, NEW w \in Task, Waiting(v), ~Gone(w),
             k \in 1 .. Len(trail[v]), k \in 1 .. Len(trail[w]),
             trail[w] \in Seq(Kind)
      PROVE  trail[v][k] = trail[w][k]
  <2>1. ~Gone(v)
    BY <1>3 DEF Waiting, Gone
  <2>2. Len(trail[v]) = 2
    BY <1>3 DEF NoFaultInv, FInv, FailsLast
  <2>3. GaveUp(v)
    BY <1>3, <2>1 DEF NoFaultInv, SafeInv, DInv, Courses
  <2>4. trail[v][1] = "test_reduce" /\ trail[v][2] = "rept_reduce" /\ test.write
    BY <2>2, <2>3 DEF GaveUp
  <2>5. CASE Waiting(w)
    <3>1. Len(trail[w]) = 2 /\ GaveUp(w)
      BY <1>3, <2>5 DEF NoFaultInv, FInv, FailsLast, SafeInv, DInv, Courses
    <3>2. trail[w][1] = "test_reduce" /\ trail[w][2] = "rept_reduce"
      BY <3>1 DEF GaveUp
    <3>3. QED
      BY <1>3, <2>2, <2>4, <3>2
  <2>6. CASE ~Waiting(w)
    <3>1. Part(w) # 0 /\ Left(w) = 0
      <4>1. Beside /\ Len(trail[v]) # 1
        BY <2>2 DEF NoFaultInv, SafeInv, DInv
      <4>2. QED
        BY <4>1, <1>3, <2>1, Zenon DEF Beside
    <3>2. Stranded /\ test.read
      BY <1>3 DEF Waiting, NoFaultInv, FInv, Results, ResultAt, Stranded
    <3>3. phase[w] = "write" /\ (pc[w] \in After => rerr[w])
      BY <3>2 DEF NoFaultInv, FInv, Results, ResultAt
    <3>4. pc[w] \in {"commit", "summary", "post"}
      <4>1. pc[w] # "start"
        <5>1. SUFFICES ASSUME pc[w] = "start" PROVE FALSE
          OBVIOUS
        <5>2. Part(w) = IF test.write THEN 0 ELSE 2
          BY <5>1 DEF Part, Gone
        <5>3. QED
          BY <2>4, <3>1, <5>2
      <4>2. pc[w] # "rept_reduce"
        BY <2>6, <3>3 DEF Waiting, After, Idle
      <4>3. pc[w] \notin {"rept_summary", "rept_end"}
        BY <3>1 DEF Left
      <4>4. QED
        BY <1>3, <3>1, <3>3, <4>1, <4>2, <4>3 DEF Part, PartOf, Gone
    <3>5. Part(w) = 1
      BY <3>2, <3>3, <3>4 DEF Part, Gone
    <3>6. Follows(w)
      BY <1>3, <2>6 DEF NoFaultInv, SafeInv, DInv, Courses
    <3>7. Len(trail[w]) \in {0, 1} /\ Len(trail[w]) = LenAt(w)
      BY <3>4, <3>6, Lengths DEF Follows, LenAt
    <3>8. k = 1 /\ trail[w][1] = Kth(w, 1)
      BY <1>3, <3>6, <3>7 DEF Follows
    <3>9. Kth(w, 1) = "test_reduce"
      BY <3>1, <3>5 DEF Kth
    <3>10. QED
      BY <2>4, <3>8, <3>9
  <2>7. QED
    BY <2>5, <2>6
<1>4. CASE ~Gone(t)
  <2>1. ~Gone(u)
    BY <1>4 DEF NoFaultInv, FInv, GoneTogether
  <2>2. CASE Waiting(t) \/ Waiting(u)
    BY <1>1, <1>3, <1>4, <2>1, <2>2
  <2>3. CASE ~Waiting(t) /\ ~Waiting(u)
    <3>1. Part(t) = Part(u) /\ Left(t) = Left(u)
      BY <1>4, <2>1, <2>3, Zenon DEF NoFaultInv, SafeInv, DInv, Beside
    <3>2. Repetition(t) = Repetition(u)
      BY <1>4, <2>1 DEF NoFaultInv, SafeInv, IInv, Aligned
    <3>3. Follows(t) /\ Follows(u)
      BY <1>4, <2>1, <2>3 DEF NoFaultInv, SafeInv, DInv, Courses
    <3>4. trail[t][k] = Kth(t, k) /\ trail[u][k] = Kth(u, k)
      BY <1>1, <3>3 DEF Follows
    <3>5. Kth(t, k) = Kth(u, k)
      BY <1>1, <3>1, <3>2, SameKth
    <3>6. QED
      BY <3>4, <3>5
  <2>4. QED
    BY <2>2, <2>3
<1>5. QED
  BY <1>2, <1>4

\* Without failing calls the k-th collective of every task is of one kind: no
\* task waits for calls that the others will not make, although each decides
\* on its own copy of the test and on its own results.
THEOREM CollectivesAgree ==
  ASSUME Faultless
  PROVE  Spec => []CollectivesMatch
<1>1. NoFaultInv => CollectivesMatch
  BY SameCalls DEF CollectivesMatch
<1>2. QED
  BY <1>1, FaultlessInvariance, PTL

================================================================================
