----------------------------- MODULE Config_proofs -----------------------------
(***************************************************************************)
(* Proofs about Config, for all files and command lines: the fields keep   *)
(* their types, runs are numbered by their places, and memory is freed     *)
(* once but for the exceptions that MemoryHolds names; and what is         *)
(* accepted is what the files say.                                         *)
(*                                                                         *)
(* That last is about the history: what a member that is read makes of a   *)
(* field (RunStepsSaid, FieldStepsSaid, RunsStepSaid) is what it makes of  *)
(* the last word on the field (WordsNext to ReportsNext).                  *)
(*                                                                         *)
(* And about Dict, which holds the parameters of backends, for all keys,   *)
(* values and capacities: the array stays filled from its start with       *)
(* entries of different keys, and it implements a dictionary.  The         *)
(* invariant makes the search exact: a key is at one place at most         *)
(* (lemma IndexOfKey), so that the map of the abstract dictionary has the  *)
(* value at that place (lemma MapValue), whichever entry is found first.   *)
(***************************************************************************)
EXTENDS Config, Dict, SequenceTheorems, WellFoundedInduction, TLAPS

Run == [id : Nat, num_repetitions : 0 .. UIntMod - 1, test : TestType]
Objects == {"exp", "stex", "run", "test"}
Inputs ==
  UNION {Counts, RunOrder, 0 .. MaxRuns, ReportLists, Format, Dirs, OptionVals, Names,
         AfioObjs, AfsbObjs, SizeObjs, {Bad}}
Member == [m : MemberNames, run : Nat, j : Inputs]

StexType ==
  [reports : SUBSET Report, data_format : Format \cup {Undefined}, export_dir : Dirs \cup {NULL}]

Typed == TypeOK /\ said \in Seq(Member)

\* Between objects no run is read, and none is behind the last.
Reading ==
  /\ cur \in 0 .. Len(runs)
  /\ pc \notin {"runs", "run", "test"} => cur = 0

\* A member of the file is a backend or a distribution without parameters.
SaysParameterless == \E k \in DOMAIN said : Parameterless(k)

\* MemoryHolds, and where memory never written to is taken for a dictionary.
MemoryInv ==
  /\ corrupt \/ (\E i \in DOMAIN runs : Dangling(runs[i])) => rerr \/ SaysParameterless
  /\ (\E i \in DOMAIN runs : Wild(runs[i])) => rerr \/ SaysParameterless

IInv == Typed /\ RunsNumbered /\ Reading /\ MemoryInv

-------------------------------------------------------------------------------
(* The operators.                                                          *)

\* What UInt() leaves of a number fits an unsigned int.
LEMMA UIntFits == ASSUME NEW j \in Nat PROVE UInt(j) \in 0 .. UIntMod - 1
BY ConfigAssumption, SMT DEF UInt

\* A run with its default values: of its type, and with nothing to free wrongly.
LEMMA RunInitTyped ==
  ASSUME NEW id \in Nat
  PROVE  /\ RunInit(id) \in Run /\ RunInit(id).id = id
         /\ ~Dangling(RunInit(id)) /\ ~Wild(RunInit(id))
<1>1. DefaultTest \in TestType
  <2>1. [f \in SizeFields |-> NULL] \in [SizeFields -> {NULL, "dict", Undefined}]
    OBVIOUS
  <2> QED BY <2>1, SMT DEF DefaultTest, TestType, AfioType
<1>2. RunInit(id) \in Run /\ RunInit(id).id = id /\ RunInit(id).test = DefaultTest
  BY <1>1, ConfigAssumption, SMT DEF RunInit, Run
<1>3. /\ DefaultTest.file_name = DefaultName /\ DefaultTest.afsb = NULL
      /\ \A f \in SizeFields : DefaultTest.distribs[f] = NULL
  BY DEF DefaultTest
<1> QED BY <1>2, <1>3, ConfigAssumption DEF Dangling, Wild

\* A member that is read is remembered, and what was read before stays.
LEMMA SaysKeeps ==
  ASSUME Typed, NEW object, NEW m \in MemberNames, NEW j \in Inputs, NEW refused \in BOOLEAN,
         Says(object, m, j, refused)
  PROVE  /\ said' \in Seq(Member) /\ Len(said') = Len(said) + 1
         /\ \A k \in DOMAIN said : k \in DOMAIN said' /\ said'[k] = said[k]
         /\ said'[Len(said')] = [m |-> m, run |-> cur, j |-> j]
         /\ Len(said') \in DOMAIN said'
         /\ rerr' \in BOOLEAN /\ (rerr \/ refused => rerr') /\ bad_opt' = bad_opt
         /\ SaysParameterless => SaysParameterless'
<1> DEFINE member == [m |-> m, run |-> cur, j |-> j]
<1>1. member \in Member
  BY DEF Typed, TypeOK, Member
<1>2. said' = Append(said, member) /\ rerr' = (rerr \/ refused) /\ bad_opt' = bad_opt
  BY DEF Says
<1>3. /\ said' \in Seq(Member) /\ Len(said') = Len(said) + 1
      /\ \A k \in 1 .. Len(said) : said'[k] = said[k]
      /\ said'[Len(said) + 1] = member
  BY <1>1, <1>2, AppendProperties DEF Typed
<1>4. DOMAIN said = 1 .. Len(said) /\ DOMAIN said' = 1 .. Len(said') /\ Len(said) \in Nat
  BY <1>3, LenProperties DEF Typed
<1>5. \A k \in DOMAIN said : k \in DOMAIN said' /\ said'[k] = said[k]
  BY <1>3, <1>4, SMT
<1>6. SaysParameterless => SaysParameterless'
  BY <1>5 DEF SaysParameterless, Parameterless
<1>7. rerr' \in BOOLEAN /\ (rerr \/ refused => rerr')
  BY <1>2 DEF Typed, TypeOK
<1>8. Len(said') \in DOMAIN said'
  BY <1>3, <1>4, SMT
<1> QED BY <1>2, <1>3, <1>5, <1>6, <1>7, <1>8

\* Some member of the file is read.
SaysSomething ==
  \E object \in Objects, m \in MemberNames, j \in Inputs, refused \in BOOLEAN :
    Says(object, m, j, refused)

LEMMA SomethingKeeps ==
  ASSUME Typed, SaysSomething
  PROVE  /\ said' \in Seq(Member) /\ rerr' \in BOOLEAN /\ (rerr => rerr')
         /\ bad_opt' = bad_opt /\ (SaysParameterless => SaysParameterless')
         /\ \A k \in DOMAIN said' : said'[k].m \in MemberNames /\ said'[k].run \in Nat
<1>1. PICK object \in Objects, m \in MemberNames, j \in Inputs, refused \in BOOLEAN : Says(object, m, j, refused)
  BY Zenon DEF SaysSomething
<1>2. /\ said' \in Seq(Member) /\ rerr' \in BOOLEAN /\ (rerr => rerr')
      /\ bad_opt' = bad_opt /\ (SaysParameterless => SaysParameterless')
  BY <1>1, SaysKeeps
<1>3. \A k \in DOMAIN said' : said'[k] \in Member
  BY <1>2, LenProperties, ElementOfSeq
<1>4. \A x \in Member : x.m \in MemberNames /\ x.run \in Nat
  BY DEF Member
<1> QED BY <1>2, <1>3, <1>4

\* One run changes for another of its type and number.
LEMMA RunChanges ==
  ASSUME Typed, RunsNumbered, cur \in DOMAIN runs, NEW run \in Run, run.id = cur,
         runs' = [runs EXCEPT ![cur] = run]
  PROVE  /\ runs' \in Seq(Run) /\ DOMAIN runs' = DOMAIN runs /\ Len(runs') = Len(runs)
         /\ Len(runs') > 0 /\ \A i \in DOMAIN runs' : runs'[i].id = i
         /\ runs'[cur] = run
         /\ \A i \in DOMAIN runs : i # cur => runs'[i] = runs[i]
<1>1. runs \in Seq(Run)
  BY DEF Typed, TypeOK, Run
<1>2. /\ runs' \in Seq(Run) /\ Len(runs') = Len(runs)
  BY <1>1, ExceptSeq, LenProperties
<1>3. DOMAIN runs' = DOMAIN runs
  OBVIOUS
<1>4. runs'[cur] = run /\ \A i \in DOMAIN runs : i # cur => runs'[i] = runs[i]
  OBVIOUS
<1> QED BY <1>2, <1>3, <1>4 DEF RunsNumbered

\* The memory of a run that changes holds if that of the others does.
LEMMA RunChangesMemory ==
  ASSUME MemoryInv, DOMAIN runs' = DOMAIN runs,
         \A i \in DOMAIN runs : i # cur => runs'[i] = runs[i],
         SaysParameterless => SaysParameterless', rerr => rerr', corrupt' => corrupt \/ Dangling(runs[cur]) \/ Wild(runs[cur]),
         Dangling(runs'[cur]) => Dangling(runs[cur]) \/ rerr',
         Wild(runs'[cur]) => Wild(runs[cur]) \/ rerr' \/ SaysParameterless',
         cur \in DOMAIN runs
  PROVE  MemoryInv'
BY DEF MemoryInv, Dangling, Wild

-------------------------------------------------------------------------------
(* The initial state and the steps.                                        *)

LEMMA InitInv == Init => IInv
<1> SUFFICES ASSUME Init PROVE IInv
  OBVIOUS
<1>1. RunInit(1) \in Run /\ RunInit(1).id = 1 /\ ~Dangling(RunInit(1)) /\ ~Wild(RunInit(1))
  BY RunInitTyped
<1>2. runs \in Seq(Run) /\ Len(runs) = 1 /\ DOMAIN runs = {1} /\ runs[1] = RunInit(1)
  BY <1>1 DEF Init
<1>3. num_replications \in 0 .. UIntMod - 1
  BY ConfigAssumption, SMT DEF Init
<1>4. StexInit \in StexType
  BY SMT DEF StexInit, StexType
<1>5. said \in Seq(Member) /\ said = <<>> /\ DOMAIN said = {}
  BY DEF Init
<1>6. runs \in Seq([id : Nat, num_repetitions : 0 .. UIntMod - 1, test : TestType])
  BY <1>2 DEF Run
<1>7. Typed
  <2>1. pc = "preempt" /\ run_order \in RunOrder /\ cur \in Nat
    BY SMT DEF Init, RunOrder
  <2>2. bad_opt \in BOOLEAN /\ rerr \in BOOLEAN /\ corrupt \in BOOLEAN
    BY Zenon DEF Init
  <2>3. stex \in StexType
    BY <1>4 DEF Init
  <2> QED BY <1>3, <1>5, <1>6, <2>1, <2>2, <2>3 DEF Typed, TypeOK, StexType
<1>8. RunsNumbered /\ Reading
  BY <1>1, <1>2, SMT DEF Init, RunsNumbered, Reading
<1>9. MemoryInv
  BY <1>1, <1>2 DEF Init, MemoryInv
<1> QED BY <1>7, <1>8, <1>9 DEF IInv

\* The steps that change at most where the program is.
PcSteps ==
  \/ \E help, master \in BOOLEAN : Preempt(help, master)
  \/ UnknownOption \/ ArgsEnd \/ FileEnds
  \/ \E file \in File : OptionFile(file)
  \/ Stex \/ Test \/ NextRun \/ ObjectEnds \/ Validate

\* MemoryInv is about runs, errors and the history only.
LEMMA MemoryUnchanged ==
  ASSUME MemoryInv, UNCHANGED <<rerr, runs, corrupt, said>> PROVE MemoryInv'
BY DEF MemoryInv, SaysParameterless, Parameterless, Dangling, Wild

LEMMA PcStepsInv == ASSUME IInv, PcSteps PROVE IInv'
<1> USE DEF IInv
<1>1. UNCHANGED <<rerr, exp, hist>>
  BY DEF PcSteps, Preempt, UnknownOption, ArgsEnd, FileEnds, OptionFile, Stex, Test,
         NextRun, ObjectEnds, Validate
<1>2. MemoryInv'
  BY <1>1, MemoryUnchanged DEF exp, hist
<1>3. Len(runs) \in Nat \ {0} /\ DOMAIN runs = 1 .. Len(runs)
  BY SMT, LenProperties DEF Typed, TypeOK, RunsNumbered
<1>4. CASE NextRun
  <2>1. cur' = (cur + 1) % (Len(runs) + 1) /\ cur \in 0 .. Len(runs)
    BY <1>4 DEF NextRun, Reading
  <2>2. cur' = IF cur < Len(runs) THEN cur + 1 ELSE 0
    BY <1>3, <2>1, SMT
  <2>3. Reading' /\ RunsNumbered'
    BY <1>1, <1>3, <1>4, <2>1, <2>2, SMT DEF NextRun, Reading, RunsNumbered, exp
  <2>4. /\ cur' \in Nat /\ bad_opt' = bad_opt
        /\ pc' \in {"run", "exp"}
    BY <1>3, <1>4, <2>1, <2>2, SMT DEF NextRun
  <2>5. Typed'
    BY <1>1, <2>4 DEF Typed, TypeOK, exp, hist
  <2> QED BY <1>2, <2>3, <2>5
<1>5. CASE ~NextRun
  <2>1. cur' = cur /\ bad_opt' \in BOOLEAN
    BY <1>5 DEF PcSteps, Preempt, UnknownOption, ArgsEnd, FileEnds, OptionFile, Stex, Test,
           ObjectEnds, Validate, Typed, TypeOK
  <2>2. /\ pc' \in {"preempt", "args", "exp", "stex", "runs", "run", "test", "valid",
                   "accepted", "refused", "usage", "aborted", "crashed"}
        /\ pc' \in {"run", "test"} => pc \in {"run", "test"}
        /\ pc \in {"runs", "run", "test"} => pc' \in {"runs", "run", "test"}
        /\ pc' \in {"runs", "run", "test"} => pc \in {"runs", "run", "test"}
    BY <1>5, SMT DEF PcSteps, Preempt, UnknownOption, ArgsEnd, FileEnds, OptionFile, Opened,
           File, Stex, Test, ObjectEnds, Validate, Typed, TypeOK
  <2>3. Reading' /\ RunsNumbered'
    BY <1>1, <2>1, <2>2, SMT DEF Reading, RunsNumbered, exp
  <2>4. Typed'
    BY <1>1, <2>1, <2>2, SMT DEF Typed, TypeOK, exp, hist
  <2> QED BY <1>2, <2>3, <2>4
<1> QED BY <1>4, <1>5

\* Members of "experiment" and "stex" other than "runs", and members not known.
FieldSteps ==
  \/ \E j \in Counts : NumReplications(j)
  \/ \E j \in RunOrder \cup {Bad} : RunOrderIs(j)
  \/ \E list \in ReportLists : ReportType(list)
  \/ \E j \in Format \cup {Bad} : DataFormat(j)
  \/ \E j \in Dirs : ExportDir(j)
  \/ OtherMember

\* A member that leaves the runs alone keeps what the invariant says of them.
LEMMA FieldKeeps ==
  ASSUME IInv, SaysSomething, UNCHANGED <<pc, runs, cur, corrupt>>,
         num_replications' \in 0 .. UIntMod - 1, run_order' \in RunOrder, stex' \in StexType
  PROVE  IInv'
<1> USE DEF IInv
<1>1. /\ said' \in Seq(Member) /\ rerr' \in BOOLEAN /\ (rerr => rerr') /\ bad_opt' = bad_opt
      /\ SaysParameterless => SaysParameterless'
      /\ \A k \in DOMAIN said' : said'[k].m \in MemberNames /\ said'[k].run \in Nat
  BY SomethingKeeps
<1>2. Typed'
  BY <1>1 DEF Typed, TypeOK, StexType
<1>3. MemoryInv'
  BY <1>1 DEF MemoryInv, Dangling, Wild
<1>4. RunsNumbered' /\ Reading'
  BY DEF RunsNumbered, Reading
<1> QED BY <1>2, <1>3, <1>4

LEMMA FieldStepsInv == ASSUME IInv, FieldSteps PROVE IInv'
<1>1. num_replications \in 0 .. UIntMod - 1 /\ run_order \in RunOrder /\ stex \in StexType
  BY DEF IInv, Typed, TypeOK, StexType
<1>2. ASSUME NEW j \in Counts, NumReplications(j) PROVE IInv'
  <2>1. SaysSomething
    <3>1. Says("exp", "num_replications", j, Refused(j)) /\ j \in Inputs
      BY <1>2 DEF NumReplications, Inputs
    <3>3. "num_replications" \in MemberNames /\ "exp" \in Objects /\ Refused(j) \in BOOLEAN
      BY DEF Refused, MemberNames, OwnMembers, Objects
    <3> QED BY <3>1, <3>3, Zenon DEF SaysSomething
  <2>2. num_replications' \in 0 .. UIntMod - 1
    <3>1. CASE Refused(j)
      BY <1>1, <1>2, <3>1 DEF NumReplications
    <3>2. CASE ~Refused(j)
      <4>1. j \in Nat
        BY <3>2, ConfigAssumption DEF Refused
      <4> QED BY <1>2, <3>2, <4>1, UIntFits DEF NumReplications
    <3> QED BY <3>1, <3>2
  <2>3. UNCHANGED <<pc, runs, cur, corrupt, run_order, stex>>
    BY <1>2 DEF NumReplications
  <2> QED BY <1>1, <2>1, <2>2, <2>3, FieldKeeps
<1>3. ASSUME NEW j \in RunOrder \cup {Bad}, RunOrderIs(j) PROVE IInv'
  <2>1. SaysSomething
    <3>1. Says("exp", "run_order", j, Refused(j)) /\ j \in Inputs
      BY <1>3 DEF RunOrderIs, Inputs
    <3>3. "run_order" \in MemberNames /\ "exp" \in Objects /\ Refused(j) \in BOOLEAN
      BY DEF Refused, MemberNames, OwnMembers, Objects
    <3> QED BY <3>1, <3>3, Zenon DEF SaysSomething
  <2>2. run_order' \in RunOrder
    BY <1>1, <1>3 DEF RunOrderIs, Refused
  <2>3. UNCHANGED <<pc, runs, cur, corrupt, num_replications, stex>>
    BY <1>3 DEF RunOrderIs
  <2> QED BY <1>1, <2>1, <2>2, <2>3, FieldKeeps
<1>4. ASSUME NEW list \in ReportLists, ReportType(list) PROVE IInv'
  <2>1. SaysSomething
    <3>1. Says("stex", "report_type", list, list = Bad \/ Bad \in Range(list)) /\ list \in Inputs
      BY <1>4 DEF ReportType, Inputs
    <3>3. "report_type" \in MemberNames /\ "stex" \in Objects /\ (list = Bad \/ Bad \in Range(list)) \in BOOLEAN
      BY DEF Refused, MemberNames, OwnMembers, Objects
    <3> QED BY <3>1, <3>3, Zenon DEF SaysSomething
  <2>2. stex' \in StexType
    <3>1. CASE list = Bad
      BY <1>1, <1>4, <3>1 DEF ReportType
    <3>2. CASE list # Bad
      <4>1. list \in Seq(Report \cup {Bad})
        BY <3>2, ConfigAssumption
      <4>2. \A x \in Range(list) : x \in Report \cup {Bad}
        BY <4>1, LenProperties, ElementOfSeq DEF Range
      <4>3. stex.reports \cup (Range(list) \ {Bad}) \in SUBSET Report
        BY <1>1, <4>2 DEF StexType
      <4>4. stex' = [stex EXCEPT !.reports = stex.reports \cup (Range(list) \ {Bad})]
        BY <1>4, <3>2, Zenon DEF ReportType
      <4> QED BY <1>1, <4>3, <4>4, Zenon DEF StexType
    <3> QED BY <3>1, <3>2
  <2>3. UNCHANGED <<pc, runs, cur, corrupt, num_replications, run_order>>
    BY <1>4 DEF ReportType
  <2> QED BY <1>1, <2>1, <2>2, <2>3, FieldKeeps
<1>5. ASSUME NEW j \in Format \cup {Bad}, DataFormat(j) PROVE IInv'
  <2>1. SaysSomething
    <3>1. Says("stex", "data_format", j, Refused(j)) /\ j \in Inputs
      BY <1>5 DEF DataFormat, StexSays, Inputs
    <3>3. "data_format" \in MemberNames /\ "stex" \in Objects /\ Refused(j) \in BOOLEAN
      BY DEF Refused, MemberNames, OwnMembers, Objects
    <3> QED BY <3>1, <3>3, Zenon DEF SaysSomething
  <2>2. stex' \in StexType
    BY <1>1, <1>5 DEF DataFormat, Refused, StexType
  <2>3. UNCHANGED <<pc, runs, cur, corrupt, num_replications, run_order>>
    BY <1>5, Zenon DEF DataFormat, StexSays
  <2> QED BY <1>1, <2>1, <2>2, <2>3, FieldKeeps
<1>6. ASSUME NEW j \in Dirs, ExportDir(j) PROVE IInv'
  <2>1. SaysSomething
    <3>1. Says("stex", "export_dir", j, Refused(j)) /\ j \in Inputs
      BY <1>6 DEF ExportDir, StexSays, Inputs
    <3>3. "export_dir" \in MemberNames /\ "stex" \in Objects /\ Refused(j) \in BOOLEAN
      BY DEF Refused, MemberNames, OwnMembers, Objects
    <3> QED BY <3>1, <3>3, Zenon DEF SaysSomething
  <2>2. stex' \in StexType
    BY <1>1, <1>6 DEF ExportDir, Refused, StexType
  <2>3. UNCHANGED <<pc, runs, cur, corrupt, num_replications, run_order>>
    BY <1>6, Zenon DEF ExportDir, StexSays
  <2> QED BY <1>1, <2>1, <2>2, <2>3, FieldKeeps
<1>7. ASSUME OtherMember PROVE IInv'
  <2>1. SaysSomething
    <3>1. PICK object \in Objects : Says(object, "other", Bad, TRUE)
      BY <1>7, Zenon DEF OtherMember, Objects
    <3>2. Bad \in Inputs
      BY DEF Inputs
    <3>3. "other" \in MemberNames /\ object \in Objects /\ TRUE \in BOOLEAN
      BY DEF Refused, MemberNames, OwnMembers, Objects
    <3> QED BY <3>1, <3>2, <3>3, Zenon DEF SaysSomething
  <2>2. UNCHANGED <<pc, runs, cur, corrupt, num_replications, run_order, stex>>
    BY <1>7 DEF OtherMember, exp
  <2> QED BY <1>1, <2>1, <2>2, FieldKeeps
<1> QED BY <1>2, <1>3, <1>4, <1>5, <1>6, <1>7 DEF FieldSteps

\* A member of a run changes that run to another, or to itself.
LEMMA RunKeeps ==
  ASSUME IInv, SaysSomething, pc \in {"run", "test"},
         UNCHANGED <<pc, num_replications, run_order, stex, cur>>,
         NEW run \in Run, run.id = runs[cur].id, runs' = [runs EXCEPT ![cur] = run],
         corrupt' \in BOOLEAN, corrupt' => corrupt \/ Dangling(runs[cur]) \/ Wild(runs[cur]),
         Dangling(run) => Dangling(runs[cur]) \/ rerr',
         Wild(run) => Wild(runs[cur]) \/ rerr' \/ SaysParameterless'
  PROVE  IInv'
<1> USE DEF IInv
<1>1. /\ said' \in Seq(Member) /\ rerr' \in BOOLEAN /\ (rerr => rerr') /\ bad_opt' = bad_opt
      /\ SaysParameterless => SaysParameterless'
      /\ \A k \in DOMAIN said' : said'[k].m \in MemberNames /\ said'[k].run \in Nat
  BY SomethingKeeps
<1>2. cur \in DOMAIN runs /\ run.id = cur
  BY DEF RunsNumbered
<1>3. /\ runs' \in Seq(Run) /\ DOMAIN runs' = DOMAIN runs /\ Len(runs') = Len(runs)
      /\ Len(runs') > 0 /\ \A i \in DOMAIN runs' : runs'[i].id = i
      /\ runs'[cur] = run
      /\ \A i \in DOMAIN runs : i # cur => runs'[i] = runs[i]
  BY <1>2, RunChanges
<1>4. Typed'
  BY <1>1, <1>3 DEF Typed, TypeOK, Run
<1>5. MemoryInv'
  BY <1>1, <1>2, <1>3, RunChangesMemory
<1>6. RunsNumbered' /\ Reading'
  BY <1>2, <1>3 DEF RunsNumbered, Reading
<1> QED BY <1>4, <1>5, <1>6

\* A member of a run that is refused leaves the runs alone.
LEMMA RunRefused ==
  ASSUME IInv, SaysSomething, pc \in {"run", "test"},
         UNCHANGED <<pc, num_replications, run_order, stex, cur, runs, corrupt>>
  PROVE  IInv'
<1>1. cur \in DOMAIN runs /\ runs \in Seq(Run)
  BY DEF IInv, RunsNumbered, Typed, TypeOK, Run
<1>2. runs[cur] \in Run /\ runs = [runs EXCEPT ![cur] = runs[cur]]
  BY <1>1, ElementOfSeq, LenProperties
<1>3. corrupt' \in BOOLEAN
  BY DEF IInv, Typed, TypeOK
<1> QED BY <1>2, <1>3, RunKeeps

\* What the fields of the run being read are.
LEMMA RunFields ==
  ASSUME IInv, pc \in {"run", "test"}
  PROVE  /\ cur \in DOMAIN runs /\ runs[cur] \in Run
         /\ runs[cur].test \in TestType
<1>1. cur \in DOMAIN runs /\ runs \in Seq(Run)
  BY DEF IInv, RunsNumbered, Typed, TypeOK, Run
<1>2. runs[cur] \in Run
  BY <1>1, ElementOfSeq, LenProperties
<1> QED BY <1>1, <1>2 DEF Run

\* A member of a test keeps the invariant if what it makes of the file name, the
\* storage backend and the distributions is no worse than what there was, or refused.
LEMMA TestKeeps ==
  ASSUME IInv, SaysSomething, pc \in {"run", "test"},
         UNCHANGED <<pc, num_replications, run_order, stex, cur>>,
         NEW test \in TestType, runs' = [runs EXCEPT ![cur].test = test],
         corrupt' \in BOOLEAN, corrupt' => corrupt \/ Dangling(runs[cur]) \/ Wild(runs[cur]),
         test.file_name = Freed => Dangling(runs[cur]) \/ rerr',
         test.afsb = runs[cur].test.afsb \/ test.afsb = NULL
           \/ test.afsb.params # Undefined \/ SaysParameterless',
         \A f \in SizeFields : \/ test.distribs[f] = runs[cur].test.distribs[f]
                               \/ test.distribs[f] # Undefined
                               \/ rerr' \/ SaysParameterless'
  PROVE  IInv'
<1> DEFINE run == [runs[cur] EXCEPT !.test = test]
<1>1. runs[cur] \in Run /\ runs' = [runs EXCEPT ![cur] = run]
  BY RunFields
<1>2. run \in Run /\ run.id = runs[cur].id /\ run.test = test
  BY <1>1 DEF Run
<1>3. (Dangling(run) => Dangling(runs[cur]) \/ rerr')
      /\ (Wild(run) => Wild(runs[cur]) \/ rerr' \/ SaysParameterless')
  BY <1>2, Zenon DEF Dangling, Wild
<1> HIDE DEF run
<1> QED BY <1>1, <1>2, <1>3, RunKeeps

LEMMA RunSaysSomething ==
  ASSUME NEW object \in Objects, NEW m \in MemberNames, NEW j \in Inputs,
         NEW refused \in BOOLEAN, RunSays(object, m, j, refused)
  PROVE  /\ SaysSomething /\ pc = object /\ rerr' = (rerr \/ refused)
         /\ said' = Append(said, [m |-> m, run |-> cur, j |-> j])
         /\ UNCHANGED <<pc, num_replications, run_order, stex, cur>>
<1>1. Says(object, m, j, refused) /\ UNCHANGED <<pc, num_replications, run_order, stex, cur>>
  BY Zenon DEF RunSays
<1>2. SaysSomething
  BY <1>1, Zenon DEF SaysSomething
<1> QED BY <1>1, <1>2 DEF Says

LEMMA NumRepetitionsInv == ASSUME IInv, NEW j \in Counts, NumRepetitions(j) PROVE IInv'
<1>1. RunSays("run", "num_repetitions", j, Refused(j)) /\ UNCHANGED corrupt
  BY DEF NumRepetitions
<1>2. SaysSomething /\ pc = "run" /\ UNCHANGED <<pc, num_replications, run_order, stex, cur>>
  BY <1>1, RunSaysSomething DEF Objects, MemberNames, OwnMembers, Inputs, Refused
<1>3. CASE Refused(j)
  <2>1. runs' = runs
    BY <1>3 DEF NumRepetitions
  <2> QED BY <1>1, <1>2, <2>1, RunRefused
<1>4. CASE ~Refused(j)
  <2> DEFINE run == [runs[cur] EXCEPT !.num_repetitions = UInt(j)]
  <2>1. runs[cur] \in Run /\ runs' = [runs EXCEPT ![cur] = run]
    BY <1>2, <1>4, RunFields DEF NumRepetitions
  <2>2. UInt(j) \in 0 .. UIntMod - 1
    BY <1>4, UIntFits, ConfigAssumption DEF Refused
  <2>3. run \in Run /\ run.id = runs[cur].id /\ run.test = runs[cur].test
    BY <2>1, <2>2 DEF Run
  <2>4. (Dangling(run) => Dangling(runs[cur])) /\ (Wild(run) => Wild(runs[cur]))
    BY <2>3, Zenon DEF Dangling, Wild
  <2>5. corrupt' \in BOOLEAN /\ corrupt' = corrupt
    BY <1>1 DEF IInv, Typed, TypeOK
  <2> HIDE DEF run
  <2> QED BY <1>2, <2>1, <2>3, <2>4, <2>5, RunKeeps
<1> QED BY <1>3, <1>4

LEMMA OptionInv ==
  ASSUME IInv, NEW o \in Options, NEW j \in OptionVals, Option(o, j) PROVE IInv'
<1>1. RunSays("test", o, j, Refused(j)) /\ UNCHANGED corrupt
  BY DEF Option
<1>2. SaysSomething /\ pc = "test" /\ UNCHANGED <<pc, num_replications, run_order, stex, cur>>
  BY <1>1, RunSaysSomething DEF Objects, MemberNames, OwnMembers, Inputs, Refused
<1>3. CASE Refused(j)
  <2>1. runs' = runs
    BY <1>3 DEF Option
  <2> QED BY <1>1, <1>2, <2>1, RunRefused
<1>4. CASE ~Refused(j)
  <2> DEFINE options == [runs[cur].test.options EXCEPT ![o] = j]
             test == [runs[cur].test EXCEPT !.options = options]
  <2>1. runs[cur].test \in TestType /\ runs' = [runs EXCEPT ![cur].test = test]
    BY <1>2, <1>4, RunFields DEF Option
  <2>2. options \in [Options -> OptionVals \cup {"default"}]
    BY <2>1 DEF TestType
  <2>3. test \in TestType /\ test.afsb = runs[cur].test.afsb
        /\ test.file_name = runs[cur].test.file_name
        /\ test.distribs = runs[cur].test.distribs
    BY <2>1, <2>2 DEF TestType
  <2>4. corrupt' \in BOOLEAN /\ corrupt' = corrupt
    BY <1>1 DEF IInv, Typed, TypeOK
  <2>5. test.file_name = Freed => Dangling(runs[cur])
    BY <2>3, Zenon DEF Dangling
  <2> HIDE DEF test
  <2> QED BY <1>2, <2>1, <2>3, <2>4, <2>5, TestKeeps
<1> QED BY <1>3, <1>4

LEMMA FileNameInv == ASSUME IInv, NEW j \in Names, FileName(j) PROVE IInv'
<1> DEFINE name == IF Refused(j) THEN Freed ELSE j
           test == [runs[cur].test EXCEPT !.file_name = name]
<1>1. RunSays("test", "file_name", j, Refused(j))
  BY DEF FileName
<1>2. /\ SaysSomething /\ pc = "test" /\ rerr' = (rerr \/ Refused(j))
      /\ UNCHANGED <<pc, num_replications, run_order, stex, cur>>
  BY <1>1, RunSaysSomething DEF Objects, MemberNames, OwnMembers, Inputs, Refused
<1>3. runs[cur].test \in TestType /\ runs' = [runs EXCEPT ![cur].test = test]
  BY <1>2, RunFields DEF FileName
<1>4. name \in Names \cup {Freed} /\ (name = Freed => Refused(j))
  BY ConfigAssumption DEF Refused
<1>5. test \in TestType /\ test.afsb = runs[cur].test.afsb /\ test.file_name = name
      /\ test.distribs = runs[cur].test.distribs
  BY <1>3, <1>4 DEF TestType
<1>6. corrupt' \in BOOLEAN /\ (corrupt' => corrupt \/ Dangling(runs[cur]))
  BY Zenon DEF FileName, Dangling, IInv, Typed, TypeOK
<1> HIDE DEF test, name
<1>7. test.file_name = Freed => rerr'
  BY <1>2, <1>4, <1>5, Zenon
<1> QED BY <1>2, <1>3, <1>5, <1>6, <1>7, TestKeeps

\* A backend that is described is a name and parameters, which are a sequence.
LEMMA BackendTyped ==
  /\ \A j \in Backends(AfioObjs) : j.name \in AfioType \cup {Undefined}
  /\ \A j \in Backends(AfsbObjs) : j.name \in AfsbType \cup {Undefined}
BY ConfigAssumption DEF Obj

LEMMA AfioInv == ASSUME IInv, NEW j \in AfioObjs, Afio(j) PROVE IInv'
<1>1. RunSays("test", "afio", j, BackendRefused(j)) /\ UNCHANGED corrupt
  BY DEF Afio
<1>2. BackendRefused(j) \in BOOLEAN
  BY DEF BackendRefused
<1>3. SaysSomething /\ pc = "test" /\ UNCHANGED <<pc, num_replications, run_order, stex, cur>>
  BY <1>1, <1>2, RunSaysSomething DEF Objects, MemberNames, OwnMembers, Inputs
<1>4. corrupt' \in BOOLEAN /\ corrupt' = corrupt
  BY <1>1 DEF IInv, Typed, TypeOK
<1>5. runs[cur].test \in TestType
  BY <1>3, RunFields
<1>6. CASE j = Bad
  <2>1. runs' = runs
    BY <1>6, ConfigAssumption DEF Afio
  <2> QED BY <1>3, <1>4, <2>1, RunRefused
<1>7. CASE j # Bad
  <2>1. PICK type \in AfioType \cup {Undefined}, params \in {<<>>} \cup Dicts(AfioObjs) :
          runs' = [runs EXCEPT ![cur].test = [runs[cur].test EXCEPT !.afio = type,
                                                                   !.params = params]]
    <3>1. CASE j = Many
      <4>1. runs' = [runs EXCEPT ![cur].test.afio = Undefined]
        BY <1>7, <3>1 DEF Afio
      <4>2. [runs[cur].test EXCEPT !.afio = Undefined]
              = [runs[cur].test EXCEPT !.afio = Undefined, !.params = runs[cur].test.params]
        BY <1>5 DEF TestType
      <4>3. runs' = [runs EXCEPT ![cur].test =
              [runs[cur].test EXCEPT !.afio = Undefined, !.params = runs[cur].test.params]]
        BY <4>1, <4>2
      <4>4. runs[cur].test.params \in {<<>>} \cup Dicts(AfioObjs)
        BY <1>5 DEF TestType
      <4> QED BY <4>3, <4>4
    <3>2. CASE j # Many
      <4>1. j \in Backends(AfioObjs)
        BY <1>7, <3>2 DEF Backends
      <4>2. PICK type \in TypesOf(j, AfioType) :
              runs' = [runs EXCEPT
                ![cur].test.afio = type,
                ![cur].test.params = IF j.params = <<>> THEN runs[cur].test.params
                                                        ELSE DictOf(j.params)]
        BY <1>7, <3>2 DEF Afio
      <4>3. type \in AfioType \cup {Undefined}
        BY <4>1, BackendTyped DEF TypesOf
      <4> DEFINE params == IF j.params = <<>> THEN runs[cur].test.params ELSE DictOf(j.params)
      <4>4. params \in {<<>>} \cup Dicts(AfioObjs)
        BY <1>5, <4>1 DEF TestType, Dicts
      <4>5. runs' = [runs EXCEPT ![cur].test =
              [runs[cur].test EXCEPT !.afio = type, !.params = params]]
        BY <1>3, <4>2, RunFields
      <4> HIDE DEF params
      <4> QED BY <4>3, <4>4, <4>5
    <3> QED BY <3>1, <3>2
  <2> DEFINE test == [runs[cur].test EXCEPT !.afio = type, !.params = params]
  <2>2. test \in TestType /\ test.afsb = runs[cur].test.afsb
        /\ test.file_name = runs[cur].test.file_name
        /\ test.distribs = runs[cur].test.distribs
    BY <1>5, <2>1 DEF TestType
  <2>3. test.file_name = Freed => Dangling(runs[cur])
    BY <2>2, Zenon DEF Dangling
  <2>4. runs' = [runs EXCEPT ![cur].test = test]
    BY <2>1
  <2> HIDE DEF test
  <2> QED BY <1>3, <1>4, <2>2, <2>3, <2>4, TestKeeps
<1> QED BY <1>6, <1>7

\* An afsb without parameters is one of which the history says so.
LEMMA AfsbParameterless ==
  ASSUME IInv, NEW j \in Backends(AfsbObjs), Afsb(j), j.params = <<>>
  PROVE  SaysParameterless'
<1>1. said \in Seq(Member) /\ j \in Inputs /\ cur \in Nat
  BY DEF IInv, Typed, TypeOK, Backends, Inputs
<1> DEFINE member == [m |-> "afsb", run |-> cur, j |-> j]
<1>2. said' = Append(said, member)
  BY Zenon DEF Afsb, RunSays, Says
<1>3. member \in Member
  BY <1>1 DEF Member, MemberNames, OwnMembers
<1>4. said' \in Seq(Member) /\ Len(said') = Len(said) + 1 /\ said'[Len(said) + 1] = member
  BY <1>1, <1>2, <1>3, AppendProperties
<1>5. Len(said') \in DOMAIN said' /\ said'[Len(said')] = member
  BY <1>1, <1>4, LenProperties
<1>6. member.m = "afsb" /\ member.j = j /\ j \notin {Bad, Many}
  BY DEF Backends
<1> QED BY <1>5, <1>6, Zenon DEF SaysParameterless, Parameterless

LEMMA AfsbInv == ASSUME IInv, NEW j \in AfsbObjs, Afsb(j) PROVE IInv'
<1>1. RunSays("test", "afsb", j, BackendRefused(j)) /\ UNCHANGED corrupt
  BY DEF Afsb
<1>2. BackendRefused(j) \in BOOLEAN
  BY DEF BackendRefused
<1>3. SaysSomething /\ pc = "test" /\ UNCHANGED <<pc, num_replications, run_order, stex, cur>>
  BY <1>1, <1>2, RunSaysSomething DEF Objects, MemberNames, OwnMembers, Inputs
<1>4. corrupt' \in BOOLEAN /\ corrupt' = corrupt
  BY <1>1 DEF IInv, Typed, TypeOK
<1>5. runs[cur].test \in TestType
  BY <1>3, RunFields
<1>6. PICK afsb \in {NULL} \cup Afsbs :
        /\ runs' = [runs EXCEPT ![cur].test = [runs[cur].test EXCEPT !.afsb = afsb]]
        /\ afsb = NULL \/ afsb.params # Undefined \/ SaysParameterless'
  <2>1. CASE j \in {Bad, Many}
    <3>1. runs' = [runs EXCEPT ![cur].test = [runs[cur].test EXCEPT !.afsb = NULL]]
      BY <2>1 DEF Afsb
    <3> QED BY <3>1
  <2>2. CASE j \notin {Bad, Many}
    <3>1. j \in Backends(AfsbObjs)
      BY <2>2 DEF Backends
    <3> DEFINE params == IF j.params = <<>> THEN Undefined ELSE DictOf(j.params)
    <3>2. PICK type \in TypesOf(j, AfsbType) :
            runs' = [runs EXCEPT ![cur].test =
                      [runs[cur].test EXCEPT !.afsb = [type |-> type, params |-> params]]]
      BY <2>2 DEF Afsb
    <3>3. type \in AfsbType \cup {Undefined}
      BY <3>1, BackendTyped DEF TypesOf
    <3>4. params \in {Undefined} \cup Dicts(AfsbObjs)
      BY <3>1 DEF Dicts
    <3>5. params # Undefined \/ SaysParameterless'
      <4>1. CASE j.params = <<>>
        BY <3>1, <4>1, AfsbParameterless
      <4>2. CASE j.params # <<>>
        BY <3>1, <4>2, AllocatedAssumption DEF Dicts
      <4> QED BY <4>1, <4>2
    <3> HIDE DEF params
    <3> DEFINE afsb == [type |-> type, params |-> params]
    <3>6. afsb \in Afsbs /\ afsb.params = params
      BY <3>3, <3>4 DEF Afsbs
    <3>7. runs' = [runs EXCEPT ![cur].test = [runs[cur].test EXCEPT !.afsb = afsb]]
      BY <3>2
    <3> HIDE DEF afsb
    <3> QED BY <3>5, <3>6, <3>7
  <2> QED BY <2>1, <2>2
<1> DEFINE test == [runs[cur].test EXCEPT !.afsb = afsb]
<1>7. test \in TestType /\ test.afsb = afsb /\ test.file_name = runs[cur].test.file_name
      /\ test.distribs = runs[cur].test.distribs
  BY <1>5, <1>6 DEF TestType
<1>8. test.file_name = Freed => Dangling(runs[cur])
  BY <1>7, Zenon DEF Dangling
<1>9. runs' = [runs EXCEPT ![cur].test = test]
  BY <1>6
<1> HIDE DEF test
<1> QED BY <1>3, <1>4, <1>6, <1>7, <1>8, <1>9, TestKeeps

\* The last member of what is said.
LEMMA SaysLast ==
  ASSUME IInv, NEW m \in MemberNames, NEW j \in Inputs,
         said' = Append(said, [m |-> m, run |-> cur, j |-> j])
  PROVE  \E k \in DOMAIN said' : said'[k].m = m /\ said'[k].j = j
<1>1. said \in Seq(Member) /\ cur \in Nat
  BY DEF IInv, Typed, TypeOK
<1> DEFINE member == [m |-> m, run |-> cur, j |-> j]
<1>2. member \in Member
  BY <1>1 DEF Member
<1>3. said' \in Seq(Member) /\ Len(said') = Len(said) + 1 /\ said'[Len(said) + 1] = member
  BY <1>1, <1>2, AppendProperties
<1>4. Len(said') \in DOMAIN said' /\ said'[Len(said')] = member
  BY <1>1, <1>3, LenProperties
<1> QED BY <1>4

\* Only without parameters are those of a distribution never written to.
LEMMA SizeInv ==
  ASSUME IInv, NEW f \in SizeFields, NEW j \in SizeObjs, Size(f, j) PROVE IInv'
<1>1. RunSays("test", f, j, SizeRefused(j))
  BY DEF Size
<1>2. f \in MemberNames /\ j \in Inputs /\ SizeRefused(j) \in BOOLEAN
  BY DEF MemberNames, OwnMembers, Inputs, SizeRefused
<1>3. /\ SaysSomething /\ pc = "test" /\ rerr' = (rerr \/ SizeRefused(j))
      /\ said' = Append(said, [m |-> f, run |-> cur, j |-> j])
      /\ UNCHANGED <<pc, num_replications, run_order, stex, cur>>
  BY <1>1, <1>2, RunSaysSomething DEF Objects
<1>4. corrupt' \in BOOLEAN /\ (corrupt' => corrupt \/ Wild(runs[cur]))
  BY Zenon DEF Size, Wild, IInv, Typed, TypeOK
<1>5. cur \in DOMAIN runs /\ runs[cur].test \in TestType
  BY <1>3, RunFields
<1> DEFINE params == IF j = Bad THEN runs[cur].test.distribs[f] ELSE ParamsOf(j)
           distribs == [runs[cur].test.distribs EXCEPT ![f] = params]
           test == [runs[cur].test EXCEPT !.distribs = distribs]
<1>6. params \in {NULL, "dict", Undefined}
  BY <1>5 DEF TestType, ParamsOf
<1>7. \/ params = runs[cur].test.distribs[f] \/ params # Undefined
      \/ rerr' \/ SaysParameterless'
  <2>1. CASE j = Bad
    BY <2>1
  <2>2. CASE j \in {"sizes", "params"}
    BY <2>2, ConfigAssumption DEF ParamsOf, Arrays, Distributions
  <2>3. CASE j = "no params"
    <3>1. \E k \in DOMAIN said' : said'[k].m = f /\ said'[k].j = j
      BY <1>2, <1>3, SaysLast
    <3> QED BY <2>3, <3>1, Zenon DEF SaysParameterless, Parameterless
  <2>4. CASE j \notin {Bad, "sizes", "params", "no params"}
    BY <1>3, <2>4 DEF SizeRefused
  <2> QED BY <2>1, <2>2, <2>3, <2>4
<1>8. runs' = [runs EXCEPT ![cur].test = test]
  <2>1. CASE j = Bad
    <3>1. distribs = runs[cur].test.distribs
      BY <1>5, <2>1 DEF TestType
    <3>2. test = runs[cur].test
      BY <1>5, <3>1 DEF TestType
    <3> HIDE DEF test
    <3>3. runs' = runs /\ runs \in Seq(Run)
      BY <2>1, Zenon DEF Size, IInv, Typed, TypeOK, Run
    <3>4. runs[cur] \in Run
      BY <1>3, RunFields
    <3>5. [runs[cur] EXCEPT !.test = test] = runs[cur]
      BY <3>2, <3>4 DEF Run
    <3> QED BY <1>5, <3>3, <3>5
  <2>2. CASE j # Bad
    <3>1. runs' = [runs EXCEPT ![cur].test.distribs[f] = ParamsOf(j)]
      BY <2>2, Zenon DEF Size
    <3>2. params = ParamsOf(j)
      BY <2>2
    <3> QED BY <3>1, <3>2
  <2> QED BY <2>1, <2>2
<1> HIDE DEF params
<1>9. /\ distribs \in [SizeFields -> {NULL, "dict", Undefined}]
      /\ \A g \in SizeFields : \/ distribs[g] = runs[cur].test.distribs[g]
                             \/ distribs[g] # Undefined
                             \/ rerr' \/ SaysParameterless'
  <2>1. runs[cur].test.distribs \in [SizeFields -> {NULL, "dict", Undefined}]
    BY <1>5 DEF TestType
  <2>2. distribs[f] = params /\ \A g \in SizeFields : g # f => distribs[g] = runs[cur].test.distribs[g]
    BY <2>1
  <2> QED BY <1>6, <1>7, <2>1, <2>2
<1> HIDE DEF distribs
<1>10. /\ test \in TestType /\ test.afsb = runs[cur].test.afsb
       /\ test.file_name = runs[cur].test.file_name /\ test.distribs = distribs
  BY <1>5, <1>9 DEF TestType
<1>11. test.file_name = Freed => Dangling(runs[cur])
  BY <1>10, Zenon DEF Dangling
<1> HIDE DEF test
<1> QED BY <1>3, <1>4, <1>8, <1>9, <1>10, <1>11, TestKeeps

\* What freeing the runs corrupts, they had: a freed name, or memory that was never
\* written to.
LEMMA RunsFreedCorrupts ==
  ASSUME IInv, RunsFreed
  PROVE  corrupt' \in BOOLEAN /\ (corrupt' => rerr \/ SaysParameterless)
<1>1. corrupt' \in BOOLEAN
  BY Zenon DEF RunsFreed, IInv, Typed, TypeOK
<1>2. corrupt' => \/ corrupt \/ \E i \in DOMAIN runs : Dangling(runs[i])
                  \/ \E i \in DOMAIN runs : Wild(runs[i])
  BY Zenon DEF RunsFreed
<1> QED BY <1>1, <1>2, Zenon DEF IInv, MemoryInv

LEMMA RunsInv == ASSUME IInv, NEW n \in 0 .. MaxRuns \cup {Bad}, Runs(n) PROVE IInv'
<1>1. /\ Says("exp", "runs", n, Refused(n))
      /\ UNCHANGED <<num_replications, run_order, stex, cur>>
  BY DEF Runs
<1>2. pc = "exp" /\ cur = 0
  BY <1>1 DEF Says, IInv, Reading
<1>3. SaysSomething
  <2>1. "runs" \in MemberNames /\ "exp" \in Objects /\ n \in Inputs /\ Refused(n) \in BOOLEAN
    BY DEF MemberNames, OwnMembers, Objects, Inputs, Refused
  <2> QED BY <1>1, <2>1, Zenon DEF SaysSomething
<1>4. num_replications \in 0 .. UIntMod - 1 /\ run_order \in RunOrder /\ stex \in StexType
  BY DEF IInv, Typed, TypeOK, StexType
<1>5. CASE Refused(n) \/ n = 0
  <2>1. UNCHANGED <<pc, runs, corrupt>>
    BY <1>5, Zenon DEF Runs
  <2> QED BY <1>1, <1>3, <1>4, <2>1, FieldKeeps
<1>6. CASE ~(Refused(n) \/ n = 0)
  <2>1. n \in Nat \ {0}
    BY <1>6, ConfigAssumption, SMT DEF Refused
  <2>2. runs' = [i \in 1 .. n |-> RunInit(i)] /\ RunsFreed /\ pc' = "runs"
    BY <1>6, Zenon DEF Runs
  <2>3. \A i \in 1 .. n : /\ RunInit(i) \in Run /\ RunInit(i).id = i
                         /\ ~Dangling(RunInit(i)) /\ ~Wild(RunInit(i))
    BY RunInitTyped, SMT
  <2>4. /\ runs' \in Seq(Run) /\ Len(runs') = n /\ DOMAIN runs' = 1 .. n
        /\ \A i \in 1 .. n : runs'[i] = RunInit(i)
    BY <2>1, <2>2, <2>3, IsASeq, SMT
  <2>5. /\ said' \in Seq(Member) /\ rerr' \in BOOLEAN /\ (rerr => rerr')
        /\ bad_opt' = bad_opt /\ (SaysParameterless => SaysParameterless')
        /\ \A k \in DOMAIN said' : said'[k].m \in MemberNames /\ said'[k].run \in Nat
    BY <1>3, SomethingKeeps DEF IInv
  <2>6. corrupt' \in BOOLEAN /\ (corrupt' => rerr \/ SaysParameterless)
    BY <2>2, RunsFreedCorrupts
  <2>7. Typed'
    BY <1>1, <1>4, <2>2, <2>4, <2>5, <2>6 DEF IInv, Typed, TypeOK, Run, StexType
  <2>8. MemoryInv'
    BY <2>3, <2>4, <2>5, <2>6 DEF MemoryInv, Dangling, Wild
  <2>9. RunsNumbered' /\ Reading'
    BY <1>1, <1>2, <2>1, <2>2, <2>3, <2>4, SMT DEF RunsNumbered, Reading
  <2> QED BY <2>7, <2>8, <2>9 DEF IInv
<1> QED BY <1>5, <1>6

LEMMA ExpFreeInv == ASSUME IInv, ExpFree PROVE IInv'
<1> USE DEF IInv
<1>1. /\ pc \in {"accepted", "refused"} /\ pc' = "freed"
      /\ UNCHANGED <<bad_opt, rerr, exp, cur, said>> /\ RunsFreed
  BY DEF ExpFree
<1>2. corrupt' \in BOOLEAN /\ (corrupt' => rerr \/ SaysParameterless)
  BY <1>1, RunsFreedCorrupts
<1>3. Typed'
  BY <1>1, <1>2 DEF Typed, TypeOK, exp
<1>4. MemoryInv'
  BY <1>1, <1>2 DEF MemoryInv, SaysParameterless, Parameterless, Dangling, Wild, exp
<1>5. RunsNumbered' /\ Reading'
  BY <1>1 DEF RunsNumbered, Reading, exp
<1> QED BY <1>3, <1>4, <1>5

LEMMA NextInv == IInv /\ [Next]_vars => IInv'
<1> SUFFICES ASSUME IInv, [Next]_vars PROVE IInv'
  OBVIOUS
<1>1. CASE PcSteps
  BY <1>1, PcStepsInv
<1>2. CASE FieldSteps
  BY <1>2, FieldStepsInv
<1>3. ASSUME NEW j \in Counts, NumRepetitions(j) PROVE IInv'
  BY <1>3, NumRepetitionsInv
<1>4. ASSUME NEW n \in 0 .. MaxRuns \cup {Bad}, Runs(n) PROVE IInv'
  BY <1>4, RunsInv
<1>5. ASSUME NEW o \in Options, NEW j \in OptionVals, Option(o, j) PROVE IInv'
  BY <1>5, OptionInv
<1>6. ASSUME NEW j \in Names, FileName(j) PROVE IInv'
  BY <1>6, FileNameInv
<1>7. ASSUME NEW j \in AfioObjs, Afio(j) PROVE IInv'
  BY <1>7, AfioInv
<1>8. ASSUME NEW j \in AfsbObjs, Afsb(j) PROVE IInv'
  BY <1>8, AfsbInv
<1>9. CASE ExpFree
  BY <1>9, ExpFreeInv
<1>12. ASSUME NEW f \in SizeFields, NEW j \in SizeObjs, Size(f, j) PROVE IInv'
  BY <1>12, SizeInv
<1>10. CASE UNCHANGED vars
  <2>1. UNCHANGED <<pc, bad_opt, rerr, num_replications, run_order, runs, stex, cur, corrupt, said>>
    BY <1>10 DEF vars, exp, hist
  <2>2. Typed' /\ RunsNumbered' /\ Reading'
    BY <2>1 DEF IInv, Typed, TypeOK, RunsNumbered, Reading
  <2>3. MemoryInv'
    BY <2>1, MemoryUnchanged DEF IInv
  <2> QED BY <2>2, <2>3 DEF IInv
<1>11. CASE Next
  BY <1>1, <1>2, <1>3, <1>4, <1>5, <1>6, <1>7, <1>8, <1>9, <1>11, <1>12, Zenon
  DEF Next, PcSteps, FieldSteps
<1> QED BY <1>10, <1>11

-------------------------------------------------------------------------------
(* What the members read say.                                              *)

\* A set of natural numbers has a least one.
LEMMA LeastNumber ==
  ASSUME NEW T \in SUBSET Nat, T # {}
  PROVE  \E x \in T : \A y \in T : x <= y
<1> DEFINE R == OpToRel(<, Nat)
<1>1. IsWellFoundedOn(R, Nat)
  BY NatLessThanWellFounded
<1>2. \A x, y \in Nat : x < y => <<x, y>> \in R
  BY DEF OpToRel
<1> HIDE DEF R
<1>3. PICK x \in T : \A y \in T : ~(<<y, x>> \in R)
  BY <1>1, WFMin
<1>4. ASSUME NEW y \in T PROVE x <= y
  <2>1. x \in Nat /\ y \in Nat
    OBVIOUS
  <2>2. ~(y < x)
    BY <1>2, <1>3, <2>1
  <2> QED BY <2>1, <2>2
<1> QED BY <1>4

\* Places below a number have a last one, and one more is then the last.
LEMMA MaxOfPlaces ==
  ASSUME NEW n \in Nat, NEW S \in SUBSET (1 .. n)
  PROVE  /\ S # {} => Max(S) \in S
         /\ Max(S \cup {n + 1}) = n + 1
<1>1. ASSUME S # {} PROVE Max(S) \in S
  <2> DEFINE T == {n - x : x \in S}
  <2>1. T \in SUBSET Nat /\ T # {}
    BY <1>1, SMT
  <2> HIDE DEF T
  <2>2. PICK t \in T : \A u \in T : t <= u
    BY <2>1, LeastNumber
  <2>3. PICK x \in S : t = n - x
    BY <2>2 DEF T
  <2>4. \A y \in S : n - x <= n - y
    BY <2>2, <2>3 DEF T
  <2>5. \A y \in S : x >= y
    BY <2>4, SMT
  <2> QED BY <2>5 DEF Max
<1>2. Max(S \cup {n + 1}) = n + 1
  <2>1. \A y \in S \cup {n + 1} : y \in Int /\ n + 1 >= y
    BY SMT
  <2>2. \A x \in S \cup {n + 1} : (\A y \in S \cup {n + 1} : x >= y) => x = n + 1
    BY <2>1, SMT
  <2>3. Max(S \cup {n + 1}) \in S \cup {n + 1}
        /\ \A y \in S \cup {n + 1} : Max(S \cup {n + 1}) >= y
    BY <2>1, Zenon DEF Max
  <2> QED BY <2>2, <2>3
<1> QED BY <1>1, <1>2

\* The next member read.
Reads(m, j) == said' = Append(said, [m |-> m, run |-> cur, j |-> j])

\* Words are members read.
LEMMA WordsRead ==
  ASSUME Typed, NEW m, NEW i
  PROVE  /\ Words(m, i) \subseteq 1 .. Len(said) /\ DOMAIN said = 1 .. Len(said)
         /\ ParamWords(i) \subseteq 1 .. Len(said)
         /\ RunArrays \subseteq 1 .. Len(said) /\ Len(said) \in Nat
<1>1. Len(said) \in Nat /\ DOMAIN said = 1 .. Len(said)
  BY LenProperties DEF Typed
<1> QED BY <1>1, Zenon DEF Words, ParamWords, RunArrays

\* What was read stays as it was read, wherever it is read next.
LEMMA ReadNext ==
  ASSUME IInv, NEW m \in MemberNames, NEW j \in Inputs, Reads(m, j)
  PROVE  /\ Len(said) \in Nat /\ DOMAIN said = 1 .. Len(said)
         /\ Len(said') = Len(said) + 1 /\ DOMAIN said' = 1 .. Len(said) + 1
         /\ \A k \in 1 .. Len(said) : said'[k] = said[k]
         /\ said'[Len(said) + 1].m = m /\ said'[Len(said) + 1].run = cur
         /\ said'[Len(said) + 1].j = j
<1> DEFINE next == [m |-> m, run |-> cur, j |-> j]
<1>1. said \in Seq(Member) /\ Len(said) \in Nat /\ DOMAIN said = 1 .. Len(said)
  BY LenProperties DEF IInv, Typed
<1>2. next \in Member
  BY DEF IInv, Typed, TypeOK, Member
<1>3. /\ Len(said') = Len(said) + 1 /\ DOMAIN said' = 1 .. Len(said) + 1
      /\ \A k \in 1 .. Len(said) : said'[k] = said[k]
      /\ said'[Len(said) + 1] = next
  BY <1>1, <1>2, AppendProperties, LenProperties DEF Reads
<1> QED BY <1>1, <1>3

\* A member that is read is the last word on its field in the run being read, and
\* leaves the words on all others.
LEMMA WordsNext ==
  ASSUME IInv, NEW m0 \in MemberNames, NEW j \in Inputs, Reads(m0, j), NEW m, NEW i \in Nat,
         i = 0 \/ m0 # "runs" \/ j = 0
  PROVE  Words(m, i)' = IF m = m0 /\ i = cur THEN Words(m, i) \cup {Len(said) + 1}
                                             ELSE Words(m, i)
<1> DEFINE n == Len(said)
<1>1. /\ n \in Nat /\ DOMAIN said = 1 .. n
      /\ Len(said') = n + 1 /\ DOMAIN said' = 1 .. n + 1
      /\ \A k \in 1 .. n : said'[k] = said[k]
      /\ said'[n + 1].m = m0 /\ said'[n + 1].run = cur /\ said'[n + 1].j = j
  BY ReadNext
<1>5. i > 0 => ~(said'[n + 1].m = "runs" /\ said'[n + 1].j # 0)
  BY <1>1
<1> DEFINE Begun(k) == \E l \in k .. n : said[l].m = "runs" /\ said[l].j # 0
           Begun1(k) == \E l \in k .. n + 1 : said'[l].m = "runs" /\ said'[l].j # 0
<1>6. ASSUME i > 0, NEW k \in 1 .. n PROVE Begun1(k) <=> Begun(k)
  <2>1. \A l \in k .. n + 1 : l = n + 1 \/ l \in k .. n
    BY <1>1, SMT
  <2>2. \A l \in k .. n : l \in k .. n + 1 /\ l \in 1 .. n
    BY <1>1, SMT
  <2> QED BY <1>1, <1>5, <1>6, <2>1, <2>2, Zenon
<1>7. i > 0 => ~Begun1(n + 1)
  <2>1. \A l \in n + 1 .. n + 1 : l = n + 1
    BY <1>1, SMT
  <2> QED BY <1>1, <1>5, <2>1
<1>8. \A k : k \in Words(m, i) <=> /\ k \in 1 .. n /\ said[k].m = m /\ said[k].run = i
                                   /\ i > 0 => ~Begun(k)
  BY <1>1, Zenon DEF Words
<1>9. \A k : k \in Words(m, i)' <=> /\ k \in 1 .. n + 1 /\ said'[k].m = m /\ said'[k].run = i
                                    /\ i > 0 => ~Begun1(k)
  <2>1. \A k : k \in Words(m, i)' <=>
          /\ k \in DOMAIN said' /\ said'[k].m = m /\ said'[k].run = i
          /\ i > 0 => ~\E l \in k .. Len(said') : said'[l].m = "runs" /\ said'[l].j # 0
    BY Zenon DEF Words
  <2> QED BY <1>1, <2>1
<1> HIDE DEF Begun, Begun1
<1>10. ASSUME NEW k \in 1 .. n PROVE k \in Words(m, i)' <=> k \in Words(m, i)
  <2>1. k \in 1 .. n + 1
    BY <1>1, SMT
  <2>2. said'[k] = said[k]
    BY <1>1
  <2> QED BY <1>6, <1>8, <1>9, <2>1, <2>2, Zenon
<1>11. n + 1 \in Words(m, i)' <=> m = m0 /\ i = cur
  <2>1. n + 1 \in 1 .. n + 1
    BY <1>1, SMT
  <2>2. said'[n + 1].m = m0 /\ said'[n + 1].run = cur
    BY <1>1
  <2> QED BY <1>7, <1>9, <2>1, <2>2, Zenon
<1>12. \A k \in 1 .. n + 1 : k = n + 1 \/ k \in 1 .. n
  BY <1>1, SMT
<1>13. n + 1 \notin 1 .. n
  BY <1>1, SMT
<1>14. (\A k \in Words(m, i) : k \in 1 .. n) /\ (\A k \in Words(m, i)' : k \in 1 .. n + 1)
  BY <1>8, <1>9, Zenon
<1>15. \A k : k \in Words(m, i)' <=> k \in Words(m, i) \/ (k = n + 1 /\ m = m0 /\ i = cur)
  BY <1>10, <1>11, <1>12, <1>13, <1>14, Zenon
<1> QED BY <1>15

\* What the last of some members read is, when no member or one more is among them.
LEMMA LastNext ==
  ASSUME IInv, NEW m \in MemberNames, NEW j \in Inputs, Reads(m, j),
         NEW S \in SUBSET (1 .. Len(said))
  PROVE  /\ S # {} => said'[Max(S)] = said[Max(S)]
         /\ said'[Max(S \cup {Len(said) + 1})].j = j
         /\ S \cup {Len(said) + 1} # {}
<1>1. /\ Len(said) \in Nat /\ \A k \in 1 .. Len(said) : said'[k] = said[k]
      /\ said'[Len(said) + 1].j = j
  BY ReadNext
<1>2. (S # {} => Max(S) \in S) /\ Max(S \cup {Len(said) + 1}) = Len(said) + 1
  BY <1>1, MaxOfPlaces
<1> QED BY <1>1, <1>2

\* The last word on a field is what was read last for it.
LEMMA LastWordNext ==
  ASSUME IInv, NEW m0 \in MemberNames, NEW j \in Inputs, Reads(m0, j),
         NEW m, NEW i \in Nat, NEW default, i = 0 \/ m0 # "runs" \/ j = 0
  PROVE  LastWord(m, i, default)' = IF m = m0 /\ i = cur THEN j ELSE LastWord(m, i, default)
<1>2. Words(m, i)' = IF m = m0 /\ i = cur THEN Words(m, i) \cup {Len(said) + 1}
                                          ELSE Words(m, i)
  BY WordsNext
<1>3. Words(m, i) \in SUBSET (1 .. Len(said))
  BY WordsRead DEF IInv
<1>4. /\ Words(m, i) # {} => said'[Max(Words(m, i))] = said[Max(Words(m, i))]
      /\ said'[Max(Words(m, i) \cup {Len(said) + 1})].j = j
      /\ Words(m, i) \cup {Len(said) + 1} # {}
  BY <1>3, LastNext
<1> QED BY <1>2, <1>4 DEF LastWord

\* So are the parameters of an I/O backend, but for backends without any.
LEMMA ParamsNext ==
  ASSUME IInv, NEW m0 \in MemberNames, NEW j \in Inputs, Reads(m0, j), NEW i \in Nat,
         m0 # "runs" \/ j = 0
  PROVE  ParamsSaid(i)' = IF m0 = "afio" /\ i = cur /\ j.params # <<>>
                          THEN DictOf(j.params) ELSE ParamsSaid(i)
<1> DEFINE n == Len(said)
           P == ParamWords(i)
<1>2. Words("afio", i)' = IF m0 = "afio" /\ i = cur THEN Words("afio", i) \cup {n + 1}
                                                   ELSE Words("afio", i)
  BY WordsNext
<1>3. /\ Words("afio", i) \subseteq 1 .. n /\ P \in SUBSET (1 .. n)
  BY WordsRead DEF IInv
<1>4. (\A k \in 1 .. n : said'[k] = said[k]) /\ said'[n + 1].j = j
  BY ReadNext
<1>5. \A k : k \in P' <=> k \in P \/ (k = n + 1 /\ m0 = "afio" /\ i = cur /\ j.params # <<>>)
  <2>1. \A k : k \in P' <=> k \in Words("afio", i)' /\ said'[k].j.params # <<>>
    BY Zenon DEF ParamWords
  <2>2. \A k : k \in P <=> k \in Words("afio", i) /\ said[k].j.params # <<>>
    BY Zenon DEF ParamWords
  <2>3. n + 1 \notin 1 .. n
    BY ReadNext, SMT
  <2> HIDE DEF n, P
  <2> QED BY <1>2, <1>3, <1>4, <2>1, <2>2, <2>3
<1>6. P' = IF m0 = "afio" /\ i = cur /\ j.params # <<>> THEN P \cup {n + 1} ELSE P
  <2> HIDE DEF n, P
  <2> QED BY <1>5
<1>7. /\ P # {} => said'[Max(P)] = said[Max(P)]
      /\ said'[Max(P \cup {n + 1})].j = j /\ P \cup {n + 1} # {}
  BY <1>3, LastNext
<1>8. ParamsSaid(i) = IF P = {} THEN <<>> ELSE DictOf(said[Max(P)].j.params)
  BY DEF ParamsSaid
<1>9. ParamsSaid(i)' = IF P' = {} THEN <<>> ELSE DictOf(said'[Max(P')].j.params)
  BY DEF ParamsSaid, DictOf
<1> HIDE DEF n, P
<1> QED BY <1>6, <1>7, <1>8, <1>9

\* A member that begins no array leaves the number of runs.
LEMMA RunsNext ==
  ASSUME IInv, NEW m \in MemberNames, NEW j \in Inputs, Reads(m, j),
         m # "runs" \/ j = 0
  PROVE  RunsSaid' = RunsSaid
<1> DEFINE n == Len(said)
<1>2. /\ n \in Nat /\ DOMAIN said = 1 .. n /\ DOMAIN said' = 1 .. n + 1
      /\ \A k \in 1 .. n : said'[k] = said[k]
      /\ said'[n + 1].m = m /\ said'[n + 1].j = j
  BY ReadNext
<1>3. \A k : k \in 1 .. n + 1 <=> k \in 1 .. n \/ k = n + 1
  BY <1>2, SMT
<1>4. \A k : k \in RunArrays' <=> k \in DOMAIN said' /\ said'[k].m = "runs" /\ said'[k].j # 0
  BY Zenon DEF RunArrays
<1>5. \A k : k \in RunArrays <=> k \in DOMAIN said /\ said[k].m = "runs" /\ said[k].j # 0
  BY Zenon DEF RunArrays
<1> HIDE DEF n
<1>6. \A k : k \in RunArrays' <=> k \in RunArrays
  BY <1>2, <1>3, <1>4, <1>5
<1>7. RunArrays' = RunArrays
  BY <1>6
<1>8. RunArrays \in SUBSET (1 .. Len(said))
  BY WordsRead DEF IInv
<1>9. RunArrays # {} => said'[Max(RunArrays)] = said[Max(RunArrays)]
  BY <1>8, LastNext
<1> QED BY <1>7, <1>9 DEF RunsSaid

\* The reports that the lists name are those of the lists before and of a new one.
LEMMA ReportsNext ==
  ASSUME IInv, NEW m \in MemberNames, NEW j \in Inputs, Reads(m, j)
  PROVE  ReportsSaid' = IF m = "report_type" /\ cur = 0 THEN ReportsSaid \cup Range(j)
                                                      ELSE ReportsSaid
<1> DEFINE W == Words("report_type", 0)
           n == Len(said)
<1>1. W' = IF m = "report_type" /\ cur = 0 THEN W \cup {n + 1} ELSE W
  BY WordsNext
<1>2. \A k \in W : k \in 1 .. n
  BY WordsRead, Zenon DEF IInv
<1>4. (\A k \in 1 .. n : said'[k] = said[k]) /\ said'[n + 1].j = j
  BY ReadNext
<1>5. ReportsSaid = UNION {Range(said[k].j) : k \in W}
  BY Zenon DEF ReportsSaid
<1>6. ReportsSaid' = UNION {Range(said'[k].j) : k \in W'}
  BY Zenon DEF ReportsSaid, Range
<1> HIDE DEF W, n
<1>7. \A x : x \in ReportsSaid <=> \E k \in W : x \in Range(said[k].j)
  BY <1>5
<1>8. \A x : x \in ReportsSaid' <=> \E k \in W' : x \in Range(said'[k].j)
  BY <1>6
<1>9. \A k \in W : Range(said'[k].j) = Range(said[k].j)
  BY <1>2, <1>4
<1>10. Range(said'[n + 1].j) = Range(j)
  BY <1>4
<1>11. CASE m = "report_type" /\ cur = 0
  <2>1. \A k : k \in W' <=> k \in W \/ k = n + 1
    BY <1>1, <1>11
  <2>2. \A x : x \in ReportsSaid' <=> x \in ReportsSaid \/ x \in Range(j)
    BY <1>7, <1>8, <1>9, <1>10, <2>1
  <2> QED BY <1>11, <2>2
<1>12. CASE ~(m = "report_type" /\ cur = 0)
  <2>1. \A x : x \in ReportsSaid' <=> x \in ReportsSaid
    BY <1>1, <1>7, <1>8, <1>9, <1>12
  <2> QED BY <1>12, <2>1
<1> QED BY <1>11, <1>12

\* What a run has been said to be is what it is after a member of another object.
LEMMA RunSaidSame ==
  ASSUME IInv, NEW m0 \in MemberNames, NEW j \in Inputs, Reads(m0, j),
         m0 # "runs" \/ j = 0, NEW i \in DOMAIN runs, i # cur, runs'[i] = runs[i], RunAsSaid(i)
  PROVE  RunAsSaid(i)'
<1>1. i \in Nat
  BY LenProperties DEF IInv, Typed, TypeOK
<1>2. \A m, default : LastWord(m, i, default)' = LastWord(m, i, default)
  BY <1>1, LastWordNext
<1>3. Words("afsb", i)' = Words("afsb", i) /\ ParamsSaid(i)' = ParamsSaid(i)
  BY <1>1, WordsNext, ParamsNext
<1>4. AfioSaid(i)' = AfioSaid(i)
  BY <1>2 DEF AfioSaid
<1>5. /\ runs'[i].num_repetitions = UInt(LastWord("num_repetitions", i, 1)')
      /\ runs'[i].test.file_name = LastWord("file_name", i, DefaultName)'
      /\ \A o \in Options : runs'[i].test.options[o] = LastWord(o, i, "default")'
      /\ \A f \in SizeFields :
           runs'[i].test.distribs[f] = ParamsOf(LastWord(f, i, "sizes")')
      /\ AfioSaid(i)'.name \in {runs'[i].test.afio, Undefined}
      /\ runs'[i].test.params = ParamsSaid(i)'
      /\ (runs'[i].test.afsb = NULL) = (Words("afsb", i)' = {})
  BY <1>2, <1>3, <1>4, Zenon DEF RunAsSaid
<1> QED BY <1>5, Zenon DEF RunAsSaid, UInt, ParamsOf

\* A member of no run concerns the experiment alone.
LEMMA FieldSaid ==
  ASSUME IInv, ExpAsSaid, NEW m0 \in MemberNames, NEW j \in Inputs, Reads(m0, j),
         m0 # "runs" \/ j = 0, cur = 0, runs' = runs,
         num_replications' = UInt(LastWord("num_replications", 0, 1)'),
         run_order' = LastWord("run_order", 0, "fixed")',
         StexAsSaid'
  PROVE  ExpAsSaid'
<1>1. RunsSaid' = RunsSaid
  BY RunsNext
<1>2. \A i \in DOMAIN runs : i # 0
  BY LenProperties DEF IInv, Typed, TypeOK
<1>3. ASSUME NEW i \in DOMAIN runs PROVE RunAsSaid(i)'
  BY <1>2, RunSaidSame DEF ExpAsSaid
<1>4. num_replications' = UInt(LastWord("num_replications", 0, 1))'
  BY Zenon DEF UInt
<1> QED BY <1>1, <1>3, <1>4, Zenon DEF ExpAsSaid

\* A member of a run concerns this run alone.
LEMMA RunSaid ==
  ASSUME IInv, ExpAsSaid, NEW m0 \in MemberNames, NEW j \in Inputs, Reads(m0, j),
         m0 # "runs", UNCHANGED <<num_replications, run_order, stex>>,
         DOMAIN runs' = DOMAIN runs, Len(runs') = Len(runs),
         \A i \in DOMAIN runs : i # cur => runs'[i] = runs[i],
         NEW r \in DOMAIN runs, r = cur, RunAsSaid(r)'
  PROVE  ExpAsSaid'
<1>1. RunsSaid' = RunsSaid
  BY RunsNext
<1>2. cur # 0
  BY LenProperties DEF IInv, Typed, TypeOK
<1>3. ASSUME NEW i \in DOMAIN runs PROVE RunAsSaid(i)'
  <2>1. CASE i = r
    BY <2>1
  <2>2. CASE i # r
    <3>1. runs'[i] = runs[i] /\ RunAsSaid(i)
      BY <2>2 DEF ExpAsSaid
    <3> QED BY <2>2, <3>1, RunSaidSame
  <2> QED BY <2>1, <2>2
<1>4. \A m, default : LastWord(m, 0, default)' = LastWord(m, 0, default)
  BY <1>2, LastWordNext
<1>5. ReportsSaid' = ReportsSaid
  BY <1>2, ReportsNext
<1>6. StexAsSaid'
  BY <1>4, <1>5, Zenon DEF StexAsSaid, ExpAsSaid
<1>7. num_replications' = UInt(LastWord("num_replications", 0, 1))'
  BY <1>4, Zenon DEF UInt, ExpAsSaid
<1>8. run_order' = LastWord("run_order", 0, "fixed")'
  BY <1>4, Zenon DEF ExpAsSaid
<1> QED BY <1>1, <1>3, <1>6, <1>7, <1>8, Zenon DEF ExpAsSaid

\* The last words on a run after one of its members.
LEMMA RunWords ==
  ASSUME IInv, ExpAsSaid, NEW m0 \in MemberNames, NEW j \in Inputs, Reads(m0, j),
         m0 # "runs", NEW r \in DOMAIN runs, r = cur
  PROVE  /\ \A m, default :
              LastWord(m, r, default)' = IF m = m0 THEN j ELSE LastWord(m, r, default)
         /\ AfioSaid(r)' = IF m0 = "afio" THEN j ELSE AfioSaid(r)
         /\ ParamsSaid(r)' = IF m0 = "afio" /\ j.params # <<>> THEN DictOf(j.params)
                                                              ELSE ParamsSaid(r)
         /\ (Words("afsb", r)' = {}) = (m0 # "afsb" /\ Words("afsb", r) = {})
         /\ RunAsSaid(r)
<1>1. r \in Nat
  BY LenProperties DEF IInv, Typed, TypeOK
<1>2. \A m, default :
        LastWord(m, r, default)' = IF m = m0 THEN j ELSE LastWord(m, r, default)
  BY <1>1, LastWordNext
<1>3. AfioSaid(r)' = IF m0 = "afio" THEN j ELSE AfioSaid(r)
  BY <1>2 DEF AfioSaid
<1>4. ParamsSaid(r)' = IF m0 = "afio" /\ j.params # <<>> THEN DictOf(j.params)
                                                        ELSE ParamsSaid(r)
  BY <1>1, ParamsNext
<1>5. (Words("afsb", r)' = {}) = (m0 # "afsb" /\ Words("afsb", r) = {})
  BY <1>1, WordsNext
<1>6. RunAsSaid(r)
  BY DEF ExpAsSaid
<1> QED BY <1>2, <1>3, <1>4, <1>5, <1>6

\* What a member makes of a test.
TestReads(m, j, test, next) ==
  /\ next.file_name = IF m = "file_name" THEN j ELSE test.file_name
  /\ \A o \in Options : next.options[o] = IF m = o THEN j ELSE test.options[o]
  /\ \A f \in SizeFields :
       next.distribs[f] = IF m = f THEN ParamsOf(j) ELSE test.distribs[f]
  /\ IF m = "afio" THEN j.name \in {next.afio, Undefined} ELSE next.afio = test.afio
  /\ next.params = IF m = "afio" /\ j.params # <<>> THEN DictOf(j.params) ELSE test.params
  /\ IF m = "afsb" THEN next.afsb # NULL ELSE next.afsb = test.afsb

\* A member of a run that is not refused makes what it says of the run.
LEMMA RunSaysSaid ==
  ASSUME IInv, ExpAsSaid, NEW object, object \in {"run", "test"}, NEW m0 \in MemberNames,
         NEW j \in Inputs, RunSays(object, m0, j, FALSE), m0 # "runs",
         NEW run \in Run, runs' = [runs EXCEPT ![cur] = run],
         run.num_repetitions =
           (IF m0 = "num_repetitions" THEN UInt(j) ELSE runs[cur].num_repetitions),
         TestReads(m0, j, runs[cur].test, run.test)
  PROVE  ExpAsSaid'
<1>1. Reads(m0, j) /\ UNCHANGED <<num_replications, run_order, stex, cur>> /\ pc = object
  BY Zenon DEF RunSays, Says, Reads
<1>2. PICK r \in DOMAIN runs : r = cur
  BY <1>1, RunFields
<1>3. /\ runs \in Seq(Run) /\ DOMAIN runs' = DOMAIN runs /\ runs'[r] = run
      /\ \A i \in DOMAIN runs : i # cur => runs'[i] = runs[i]
  BY <1>2 DEF IInv, Typed, TypeOK, Run
<1>4. Len(runs') = Len(runs)
  BY <1>2, <1>3, ExceptSeq, LenProperties
<1>5. /\ \A m, default1 :
              LastWord(m, r, default1)' = IF m = m0 THEN j ELSE LastWord(m, r, default1)
      /\ AfioSaid(r)' = IF m0 = "afio" THEN j ELSE AfioSaid(r)
      /\ ParamsSaid(r)' = IF m0 = "afio" /\ j.params # <<>> THEN DictOf(j.params)
                                                           ELSE ParamsSaid(r)
      /\ (Words("afsb", r)' = {}) = (m0 # "afsb" /\ Words("afsb", r) = {})
      /\ RunAsSaid(r)
  BY <1>1, <1>2, RunWords
<1>6. /\ runs[r].num_repetitions = UInt(LastWord("num_repetitions", r, 1))
      /\ runs[r].test.file_name = LastWord("file_name", r, DefaultName)
      /\ \A o \in Options : runs[r].test.options[o] = LastWord(o, r, "default")
      /\ \A f \in SizeFields :
           runs[r].test.distribs[f] = ParamsOf(LastWord(f, r, "sizes"))
      /\ AfioSaid(r).name \in {runs[r].test.afio, Undefined}
      /\ runs[r].test.params = ParamsSaid(r)
      /\ (runs[r].test.afsb = NULL) = (Words("afsb", r) = {})
  BY <1>5, Zenon DEF RunAsSaid
<1>7. /\ runs'[r].num_repetitions = UInt(LastWord("num_repetitions", r, 1)')
      /\ runs'[r].test.file_name = LastWord("file_name", r, DefaultName)'
      /\ \A o \in Options : runs'[r].test.options[o] = LastWord(o, r, "default")'
      /\ \A f \in SizeFields :
           runs'[r].test.distribs[f] = ParamsOf(LastWord(f, r, "sizes")')
      /\ AfioSaid(r)'.name \in {runs'[r].test.afio, Undefined}
      /\ runs'[r].test.params = ParamsSaid(r)'
      /\ (runs'[r].test.afsb = NULL) = (Words("afsb", r)' = {})
  <2>1. runs'[r].num_repetitions = UInt(LastWord("num_repetitions", r, 1)')
    BY <1>2, <1>3, <1>5, <1>6
  <2>2. runs'[r].test.file_name = LastWord("file_name", r, DefaultName)'
    BY <1>2, <1>3, <1>5, <1>6 DEF TestReads
  <2>3. \A o \in Options : runs'[r].test.options[o] = LastWord(o, r, "default")'
    BY <1>2, <1>3, <1>5, <1>6 DEF TestReads
  <2>7. ASSUME NEW f \in SizeFields
        PROVE  runs'[r].test.distribs[f] = ParamsOf(LastWord(f, r, "sizes")')
    <3>1. runs'[r].test.distribs[f] = IF f = m0 THEN ParamsOf(j) ELSE runs[r].test.distribs[f]
      BY <1>2, <1>3 DEF TestReads
    <3>2. LastWord(f, r, "sizes")' = IF f = m0 THEN j ELSE LastWord(f, r, "sizes")
      BY <1>5
    <3> QED BY <1>6, <3>1, <3>2
  <2>4. AfioSaid(r)'.name \in {runs'[r].test.afio, Undefined}
    BY <1>2, <1>3, <1>5, <1>6 DEF TestReads
  <2>5. runs'[r].test.params = ParamsSaid(r)'
    BY <1>2, <1>3, <1>5, <1>6 DEF TestReads
  <2>6. (runs'[r].test.afsb = NULL) = (Words("afsb", r)' = {})
    BY <1>2, <1>3, <1>5, <1>6 DEF TestReads
  <2> QED BY <2>1, <2>2, <2>3, <2>4, <2>5, <2>6, <2>7
<1>8. RunAsSaid(r)'
  BY <1>7, Zenon DEF RunAsSaid, UInt, ParamsOf
<1> QED BY <1>1, <1>2, <1>3, <1>4, <1>8, RunSaid

\* Members of "experiment" and "stex".
LEMMA FieldStepsSaid ==
  ASSUME IInv, ExpAsSaid, FieldSteps, ~rerr' PROVE ExpAsSaid'
<1>1. ASSUME NEW object \in {"exp", "stex"}, NEW m \in MemberNames, NEW j \in Inputs,
             NEW refused \in BOOLEAN, Says(object, m, j, refused), m # "runs"
      PROVE  /\ cur = 0 /\ Reads(m, j) /\ ~refused
             /\ \A n, default : LastWord(n, 0, default)'
                                  = IF n = m THEN j ELSE LastWord(n, 0, default)
             /\ ReportsSaid' = IF m = "report_type" THEN ReportsSaid \cup Range(j)
                                                    ELSE ReportsSaid
  <2>1. cur = 0 /\ Reads(m, j) /\ ~refused
    BY <1>1, Zenon DEF Says, Reads, IInv, Reading
  <2> QED BY <2>1, LastWordNext, ReportsNext
<1>2. /\ num_replications = UInt(LastWord("num_replications", 0, 1))
      /\ run_order = LastWord("run_order", 0, "fixed")
      /\ stex.reports = ReportsSaid
      /\ stex.data_format = LastWord("data_format", 0, Undefined)
      /\ stex.export_dir = LastWord("export_dir", 0, NULL)
  BY DEF ExpAsSaid, StexAsSaid
<1>3. stex \in StexType
  BY DEF IInv, Typed, TypeOK, StexType
<1>4. ASSUME NEW m \in MemberNames, NEW j \in Inputs, Reads(m, j), m # "runs",
             cur = 0, runs' = runs,
             num_replications' = UInt(LastWord("num_replications", 0, 1)'),
             run_order' = LastWord("run_order", 0, "fixed")',
             stex'.reports = ReportsSaid',
             stex'.data_format = LastWord("data_format", 0, Undefined)',
             stex'.export_dir = LastWord("export_dir", 0, NULL)'
      PROVE  ExpAsSaid'
  <2>1. StexAsSaid'
    BY <1>4, Zenon DEF StexAsSaid
  <2> QED BY <1>4, <2>1, FieldSaid
<1>5. ASSUME NEW j \in Counts, NumReplications(j) PROVE ExpAsSaid'
  <2>1. /\ Says("exp", "num_replications", j, Refused(j)) /\ j \in Inputs
        /\ Refused(j) \in BOOLEAN /\ "num_replications" \in MemberNames
    BY <1>5 DEF NumReplications, Inputs, Refused, MemberNames, OwnMembers
  <2>2. /\ cur = 0 /\ Reads("num_replications", j) /\ ~Refused(j)
        /\ \A n, default : LastWord(n, 0, default)'
                             = IF n = "num_replications" THEN j ELSE LastWord(n, 0, default)
        /\ ReportsSaid' = ReportsSaid
    BY <1>1, <2>1
  <2>3. num_replications' = UInt(j) /\ run_order' = run_order /\ stex' = stex /\ runs' = runs
    BY <1>5, <2>2 DEF NumReplications
  <2> QED BY <1>2, <1>4, <2>1, <2>2, <2>3
<1>6. ASSUME NEW j \in RunOrder \cup {Bad}, RunOrderIs(j) PROVE ExpAsSaid'
  <2>1. /\ Says("exp", "run_order", j, Refused(j)) /\ j \in Inputs
        /\ Refused(j) \in BOOLEAN /\ "run_order" \in MemberNames
    BY <1>6 DEF RunOrderIs, Inputs, Refused, MemberNames, OwnMembers
  <2>2. /\ cur = 0 /\ Reads("run_order", j) /\ ~Refused(j)
        /\ \A n, default : LastWord(n, 0, default)'
                             = IF n = "run_order" THEN j ELSE LastWord(n, 0, default)
        /\ ReportsSaid' = ReportsSaid
    BY <1>1, <2>1
  <2>3. UNCHANGED <<num_replications, stex, runs>> /\ run_order' = j
    BY <1>6, <2>2 DEF RunOrderIs
  <2> QED BY <1>2, <1>4, <2>1, <2>2, <2>3
<1>7. ASSUME NEW list \in ReportLists, ReportType(list) PROVE ExpAsSaid'
  <2>1. /\ Says("stex", "report_type", list, list = Bad \/ Bad \in Range(list))
        /\ list \in Inputs
        /\ (list = Bad \/ Bad \in Range(list)) \in BOOLEAN /\ "report_type" \in MemberNames
    BY <1>7 DEF ReportType, Inputs, MemberNames, OwnMembers
  <2>2. /\ cur = 0 /\ Reads("report_type", list) /\ ~(list = Bad \/ Bad \in Range(list))
        /\ \A n, default : LastWord(n, 0, default)'
                             = IF n = "report_type" THEN list ELSE LastWord(n, 0, default)
        /\ ReportsSaid' = ReportsSaid \cup Range(list)
    BY <1>1, <2>1
  <2>3. UNCHANGED <<num_replications, run_order, runs>>
    BY <1>7 DEF ReportType
  <2>4. stex' = [stex EXCEPT !.reports = stex.reports \cup (Range(list) \ {Bad})]
    BY <1>7, <2>2, Zenon DEF ReportType
  <2>5. Range(list) \ {Bad} = Range(list)
    BY <2>2
  <2>6. /\ stex'.reports = stex.reports \cup Range(list)
        /\ stex'.data_format = stex.data_format /\ stex'.export_dir = stex.export_dir
    BY <1>3, <2>4, <2>5 DEF StexType
  <2> QED BY <1>2, <1>4, <2>1, <2>2, <2>3, <2>6
<1>8. ASSUME NEW j \in Format \cup {Bad}, DataFormat(j) PROVE ExpAsSaid'
  <2>1. /\ Says("stex", "data_format", j, Refused(j)) /\ j \in Inputs
        /\ Refused(j) \in BOOLEAN /\ "data_format" \in MemberNames
    BY <1>8, Zenon DEF DataFormat, StexSays, Inputs, Refused, MemberNames, OwnMembers
  <2>2. /\ cur = 0 /\ Reads("data_format", j) /\ ~Refused(j)
        /\ \A n, default : LastWord(n, 0, default)'
                             = IF n = "data_format" THEN j ELSE LastWord(n, 0, default)
        /\ ReportsSaid' = ReportsSaid
    BY <1>1, <2>1
  <2>3. UNCHANGED <<num_replications, run_order, runs>>
    BY <1>8, Zenon DEF DataFormat, StexSays
  <2>4. /\ stex'.reports = stex.reports
        /\ stex'.data_format = j /\ stex'.export_dir = stex.export_dir
    BY <1>3, <1>8, <2>2 DEF DataFormat, StexType
  <2> QED BY <1>2, <1>4, <2>1, <2>2, <2>3, <2>4
<1>9. ASSUME NEW j \in Dirs, ExportDir(j) PROVE ExpAsSaid'
  <2>1. /\ Says("stex", "export_dir", j, Refused(j)) /\ j \in Inputs
        /\ Refused(j) \in BOOLEAN /\ "export_dir" \in MemberNames
    BY <1>9, Zenon DEF ExportDir, StexSays, Inputs, Refused, MemberNames, OwnMembers
  <2>2. /\ cur = 0 /\ Reads("export_dir", j) /\ ~Refused(j)
        /\ \A n, default : LastWord(n, 0, default)'
                             = IF n = "export_dir" THEN j ELSE LastWord(n, 0, default)
        /\ ReportsSaid' = ReportsSaid
    BY <1>1, <2>1
  <2>3. UNCHANGED <<num_replications, run_order, runs>>
    BY <1>9, Zenon DEF ExportDir, StexSays
  <2>4. /\ stex'.reports = stex.reports
        /\ stex'.data_format = stex.data_format /\ stex'.export_dir = j
    BY <1>3, <1>9, <2>2 DEF ExportDir, StexType
  <2> QED BY <1>2, <1>4, <2>1, <2>2, <2>3, <2>4
<1>10. ~OtherMember
  BY Zenon DEF OtherMember, Says
<1> QED BY <1>5, <1>6, <1>7, <1>8, <1>9, <1>10 DEF FieldSteps

\* Members of "run" and "test".
RunSteps ==
  \/ \E j \in Counts : NumRepetitions(j)
  \/ \E o \in Options, j \in OptionVals : Option(o, j)
  \/ \E j \in Names : FileName(j)
  \/ \E j \in AfioObjs : Afio(j)
  \/ \E j \in AfsbObjs : Afsb(j)
  \/ \E f \in SizeFields, j \in SizeObjs : Size(f, j)

LEMMA RunStepsSaid ==
  ASSUME IInv, ExpAsSaid, RunSteps, ~rerr' PROVE ExpAsSaid'
<1>1. ASSUME NEW object, NEW m, NEW j, NEW refused \in BOOLEAN, RunSays(object, m, j, refused)
      PROVE  ~refused /\ RunSays(object, m, j, FALSE) /\ pc = object
  <2>1. ~refused
    BY <1>1, Zenon DEF RunSays, Says
  <2>2. refused = FALSE
    BY <2>1
  <2> QED BY <1>1, <2>2, Zenon DEF RunSays, Says
<1>2. pc \in {"run", "test"} =>
        /\ cur \in DOMAIN runs /\ runs[cur] \in Run /\ runs[cur].test \in TestType
  BY RunFields
<1>3. ASSUME NEW j \in Counts, NumRepetitions(j) PROVE ExpAsSaid'
  <2>1. /\ j \in Inputs /\ "num_repetitions" \in MemberNames /\ Refused(j) \in BOOLEAN
        /\ (\A o \in Options : o # "num_repetitions") /\ "num_repetitions" \notin SizeFields
    BY ConfigAssumption DEF SizeFields, Inputs, MemberNames, OwnMembers, Refused
  <2>2. ~Refused(j) /\ RunSays("run", "num_repetitions", j, FALSE) /\ pc = "run"
    BY <1>1, <1>3, <2>1, Zenon DEF NumRepetitions
  <2> DEFINE run == [runs[cur] EXCEPT !.num_repetitions = UInt(j)]
  <2>3. runs' = [runs EXCEPT ![cur] = run]
    BY <1>2, <1>3, <2>2 DEF NumRepetitions
  <2>4. UInt(j) \in 0 .. UIntMod - 1
    BY <2>2, UIntFits, ConfigAssumption DEF Refused
  <2>5. run \in Run /\ run.num_repetitions = UInt(j) /\ run.test = runs[cur].test
    BY <1>2, <2>2, <2>4 DEF Run
  <2> HIDE DEF run
  <2>6. TestReads("num_repetitions", j, runs[cur].test, run.test)
    BY <2>1, <2>5 DEF TestReads
  <2> QED BY <2>1, <2>2, <2>3, <2>5, <2>6, RunSaysSaid
<1>4. ASSUME NEW test \in TestType, NEW m \in MemberNames, NEW j \in Inputs,
             RunSays("test", m, j, FALSE), m # "runs", m # "num_repetitions", pc = "test",
             runs' = [runs EXCEPT ![cur].test = test],
             TestReads(m, j, runs[cur].test, test)
      PROVE  ExpAsSaid'
  <2> DEFINE run == [runs[cur] EXCEPT !.test = test]
  <2>1. runs' = [runs EXCEPT ![cur] = run]
    BY <1>2, <1>4
  <2>2. run \in Run /\ run.test = test /\ run.num_repetitions = runs[cur].num_repetitions
    BY <1>2, <1>4 DEF Run
  <2> HIDE DEF run
  <2> QED BY <1>4, <2>1, <2>2, RunSaysSaid
<1>5. ASSUME NEW o \in Options, NEW j \in OptionVals, Option(o, j) PROVE ExpAsSaid'
  <2>1. /\ j \in Inputs /\ o \in MemberNames /\ Refused(j) \in BOOLEAN
        /\ o \notin OwnMembers
    BY ConfigAssumption DEF Inputs, MemberNames, Refused
  <2>2. ~Refused(j) /\ RunSays("test", o, j, FALSE) /\ pc = "test"
    BY <1>1, <1>5, <2>1, Zenon DEF Option
  <2>3. o \notin {"runs", "num_repetitions", "file_name", "afio", "afsb"} \cup SizeFields
    BY <2>1 DEF OwnMembers
  <2> DEFINE options == [runs[cur].test.options EXCEPT ![o] = j]
             test == [runs[cur].test EXCEPT !.options = options]
  <2>4. runs' = [runs EXCEPT ![cur].test = test]
    BY <1>2, <1>5, <2>2 DEF Option
  <2>5. /\ options \in [Options -> OptionVals \cup {"default"}]
        /\ \A x \in Options : options[x] = IF o = x THEN j ELSE runs[cur].test.options[x]
    BY <1>2, <2>2 DEF TestType
  <2> HIDE DEF options
  <2>6. /\ test \in TestType /\ test.options = options
        /\ test.file_name = runs[cur].test.file_name /\ test.afio = runs[cur].test.afio
        /\ test.distribs = runs[cur].test.distribs
        /\ test.params = runs[cur].test.params /\ test.afsb = runs[cur].test.afsb
    BY <1>2, <2>2, <2>5 DEF TestType
  <2> HIDE DEF test
  <2>7. TestReads(o, j, runs[cur].test, test)
    BY <2>3, <2>5, <2>6 DEF TestReads
  <2> QED BY <1>4, <2>1, <2>2, <2>3, <2>4, <2>6, <2>7
<1>6. ASSUME NEW j \in Names, FileName(j) PROVE ExpAsSaid'
  <2>1. /\ j \in Inputs /\ "file_name" \in MemberNames /\ Refused(j) \in BOOLEAN
        /\ (\A o \in Options : o # "file_name") /\ "file_name" \notin SizeFields
    BY ConfigAssumption DEF SizeFields, Inputs, MemberNames, OwnMembers, Refused
  <2>2. ~Refused(j) /\ RunSays("test", "file_name", j, FALSE) /\ pc = "test"
    BY <1>1, <1>6, <2>1, Zenon DEF FileName
  <2> DEFINE test == [runs[cur].test EXCEPT !.file_name = j]
  <2>3. runs' = [runs EXCEPT ![cur].test = test]
    BY <1>2, <1>6, <2>2 DEF FileName
  <2>4. /\ test \in TestType /\ test.options = runs[cur].test.options
        /\ test.file_name = j /\ test.afio = runs[cur].test.afio
        /\ test.distribs = runs[cur].test.distribs
        /\ test.params = runs[cur].test.params /\ test.afsb = runs[cur].test.afsb
    BY <1>2, <2>2 DEF TestType
  <2> HIDE DEF test
  <2>5. TestReads("file_name", j, runs[cur].test, test)
    BY <2>1, <2>4 DEF TestReads
  <2> QED BY <1>4, <2>1, <2>2, <2>3, <2>4, <2>5
<1>7. ASSUME NEW j \in AfioObjs, Afio(j) PROVE ExpAsSaid'
  <2>1. /\ j \in Inputs /\ "afio" \in MemberNames /\ BackendRefused(j) \in BOOLEAN
        /\ (\A o \in Options : o # "afio") /\ "afio" \notin SizeFields
    BY ConfigAssumption DEF SizeFields, Inputs, MemberNames, OwnMembers, BackendRefused
  <2>2. ~BackendRefused(j) /\ RunSays("test", "afio", j, FALSE) /\ pc = "test"
    BY <1>1, <1>7, <2>1, Zenon DEF Afio
  <2>3. j # Bad /\ j # Many /\ j \in Backends(AfioObjs)
    BY <2>2 DEF BackendRefused, Backends
  <2> DEFINE params == IF j.params = <<>> THEN runs[cur].test.params ELSE DictOf(j.params)
  <2>4. PICK type \in TypesOf(j, AfioType) :
          runs' = [runs EXCEPT
            ![cur].test.afio = type,
            ![cur].test.params = IF j.params = <<>> THEN runs[cur].test.params
                                                    ELSE DictOf(j.params)]
    BY <1>7, <2>3 DEF Afio
  <2>5. type \in AfioType \cup {Undefined} /\ j.name \in {type, Undefined}
    BY <2>3, BackendTyped DEF TypesOf
  <2> DEFINE test == [runs[cur].test EXCEPT !.afio = type, !.params = params]
  <2>6. runs' = [runs EXCEPT ![cur].test = test]
    BY <1>2, <2>2, <2>4
  <2>7. params \in {<<>>} \cup Dicts(AfioObjs)
    BY <1>2, <2>2, <2>3 DEF TestType, Dicts
  <2>8. params = IF j.params # <<>> THEN DictOf(j.params) ELSE runs[cur].test.params
    OBVIOUS
  <2> HIDE DEF params
  <2>9. /\ test \in TestType /\ test.options = runs[cur].test.options
        /\ test.file_name = runs[cur].test.file_name /\ test.afio = type
        /\ test.params = params /\ test.afsb = runs[cur].test.afsb
        /\ test.distribs = runs[cur].test.distribs
    BY <1>2, <2>2, <2>5, <2>7 DEF TestType
  <2> HIDE DEF test
  <2>10. TestReads("afio", j, runs[cur].test, test)
    BY <2>1, <2>5, <2>8, <2>9 DEF TestReads
  <2> QED BY <1>4, <2>1, <2>2, <2>6, <2>9, <2>10
<1>8. ASSUME NEW j \in AfsbObjs, Afsb(j) PROVE ExpAsSaid'
  <2>1. /\ j \in Inputs /\ "afsb" \in MemberNames /\ BackendRefused(j) \in BOOLEAN
        /\ (\A o \in Options : o # "afsb") /\ "afsb" \notin SizeFields
    BY ConfigAssumption DEF SizeFields, Inputs, MemberNames, OwnMembers, BackendRefused
  <2>2. ~BackendRefused(j) /\ RunSays("test", "afsb", j, FALSE) /\ pc = "test"
    BY <1>1, <1>8, <2>1, Zenon DEF Afsb
  <2>3. j # Bad /\ j # Many /\ j \in Backends(AfsbObjs)
    BY <2>2 DEF BackendRefused, Backends
  <2> DEFINE params == IF j.params = <<>> THEN Undefined ELSE DictOf(j.params)
  <2>4. PICK type \in TypesOf(j, AfsbType) :
          runs' = [runs EXCEPT ![cur].test.afsb = [type |-> type, params |-> params]]
    BY <1>8, <2>3 DEF Afsb
  <2>5. type \in AfsbType \cup {Undefined}
    BY <2>3, BackendTyped DEF TypesOf
  <2>6. params \in {Undefined} \cup Dicts(AfsbObjs)
    BY <2>3 DEF Dicts
  <2> HIDE DEF params
  <2> DEFINE afsb == [type |-> type, params |-> params]
             test == [runs[cur].test EXCEPT !.afsb = afsb]
  <2>7. afsb \in Afsbs /\ afsb # NULL
    BY <2>5, <2>6, AllocatedAssumption DEF Afsbs
  <2>8. runs' = [runs EXCEPT ![cur].test = test]
    BY <1>2, <2>2, <2>4
  <2> HIDE DEF afsb
  <2>9. /\ test \in TestType /\ test.options = runs[cur].test.options
        /\ test.file_name = runs[cur].test.file_name /\ test.afio = runs[cur].test.afio
        /\ test.distribs = runs[cur].test.distribs
        /\ test.params = runs[cur].test.params /\ test.afsb = afsb
    BY <1>2, <2>2, <2>7 DEF TestType
  <2> HIDE DEF test
  <2>10. TestReads("afsb", j, runs[cur].test, test)
    BY <2>1, <2>7, <2>9 DEF TestReads
  <2> QED BY <1>4, <2>1, <2>2, <2>8, <2>9, <2>10
<1>9. ASSUME NEW f \in SizeFields, NEW j \in SizeObjs, Size(f, j) PROVE ExpAsSaid'
  <2>1. /\ j \in Inputs /\ f \in MemberNames /\ SizeRefused(j) \in BOOLEAN
        /\ \A o \in Options : o # f
        /\ f \notin {"runs", "num_repetitions", "file_name", "afio", "afsb"}
    BY ConfigAssumption DEF SizeFields, Inputs, MemberNames, OwnMembers, SizeRefused
  <2>2. ~SizeRefused(j) /\ RunSays("test", f, j, FALSE) /\ pc = "test"
    BY <1>1, <1>9, <2>1, Zenon DEF Size
  <2>3. j # Bad
    BY <2>2, ConfigAssumption DEF SizeRefused, Arrays, Distributions
  <2> DEFINE distribs == [runs[cur].test.distribs EXCEPT ![f] = ParamsOf(j)]
             test == [runs[cur].test EXCEPT !.distribs = distribs]
  <2>4. runs' = [runs EXCEPT ![cur].test = test]
    BY <1>9, <2>3 DEF Size
  <2>5. /\ distribs \in [SizeFields -> {NULL, "dict", Undefined}]
        /\ \A x \in SizeFields :
             distribs[x] = IF f = x THEN ParamsOf(j) ELSE runs[cur].test.distribs[x]
    <3>1. runs[cur].test.distribs \in [SizeFields -> {NULL, "dict", Undefined}]
      BY <1>2, <2>2 DEF TestType
    <3>2. ParamsOf(j) \in {NULL, "dict", Undefined}
      BY DEF ParamsOf
    <3> QED BY <3>1, <3>2
  <2> HIDE DEF distribs
  <2>6. /\ test \in TestType /\ test.distribs = distribs
        /\ test.options = runs[cur].test.options
        /\ test.file_name = runs[cur].test.file_name /\ test.afio = runs[cur].test.afio
        /\ test.params = runs[cur].test.params /\ test.afsb = runs[cur].test.afsb
    BY <1>2, <2>2, <2>5 DEF TestType
  <2> HIDE DEF test
  <2>7. TestReads(f, j, runs[cur].test, test)
    BY <2>1, <2>5, <2>6 DEF TestReads
  <2> QED BY <1>4, <2>1, <2>2, <2>4, <2>6, <2>7
<1> QED BY <1>3, <1>5, <1>6, <1>7, <1>8, <1>9 DEF RunSteps

\* A run that nothing has been said of has the default values.
\* The default values of a run.
LEMMA RunInitSays ==
  ASSUME NEW i
  PROVE  LET test == RunInit(i).test IN
         /\ RunInit(i).num_repetitions = UInt(1)
         /\ test.file_name = DefaultName /\ test.afio = "posix"
         /\ \A o \in Options : test.options[o] = "default"
         /\ \A f \in SizeFields : test.distribs[f] = ParamsOf("sizes")
         /\ test.params = <<>> /\ test.afsb = NULL
<1>1. UInt(1) = 1
  BY ConfigAssumption, SMT DEF UInt
<1> QED BY <1>1 DEF RunInit, DefaultTest, ParamsOf, Arrays

\* An array that has runs takes back what was said of runs before.
LEMMA RunsStepSaid ==
  ASSUME IInv, ExpAsSaid, NEW n \in 0 .. MaxRuns \cup {Bad}, Runs(n), ~rerr'
  PROVE  ExpAsSaid'
<1>1. /\ Says("exp", "runs", n, Refused(n))
      /\ UNCHANGED <<num_replications, run_order, stex, cur>>
  BY DEF Runs
<1>2. pc = "exp" /\ cur = 0 /\ Reads("runs", n)
  BY <1>1 DEF Says, IInv, Reading, Reads
<1>3. n \in Nat
  <2>1. ~Refused(n)
    BY <1>1, Zenon DEF Says
  <2> QED BY <2>1, ConfigAssumption, SMT DEF Refused
<1>4. "runs" \in MemberNames /\ n \in Inputs
  BY DEF MemberNames, OwnMembers, Inputs
<1>5. /\ \A default : \A m : m # "runs" =>
           LastWord(m, 0, default)' = LastWord(m, 0, default)
      /\ ReportsSaid' = ReportsSaid
  BY <1>2, <1>4, LastWordNext, ReportsNext
<1>6. /\ num_replications' = UInt(LastWord("num_replications", 0, 1)')
      /\ run_order' = LastWord("run_order", 0, "fixed")'
      /\ StexAsSaid'
  <2>1. /\ num_replications = UInt(LastWord("num_replications", 0, 1))
        /\ run_order = LastWord("run_order", 0, "fixed")
        /\ stex.reports = ReportsSaid
        /\ stex.data_format = LastWord("data_format", 0, Undefined)
        /\ stex.export_dir = LastWord("export_dir", 0, NULL)
    BY DEF ExpAsSaid, StexAsSaid
  <2>2. /\ stex'.reports = ReportsSaid'
        /\ stex'.data_format = LastWord("data_format", 0, Undefined)'
        /\ stex'.export_dir = LastWord("export_dir", 0, NULL)'
    BY <1>1, <1>5, <2>1
  <2>3. StexAsSaid'
    BY <2>2, Zenon DEF StexAsSaid
  <2> QED BY <1>1, <1>5, <2>1, <2>3
<1>7. CASE n = 0
  <2>1. runs' = runs
    BY <1>7, Zenon DEF Runs
  <2> QED BY <1>2, <1>4, <1>6, <1>7, <2>1, FieldSaid
<1>8. CASE n # 0
  <2>1. runs' = [i \in 1 .. n |-> RunInit(i)]
    BY <1>1, <1>3, <1>8, ConfigAssumption DEF Runs, Refused
  <2>2. /\ Len(runs') = n /\ DOMAIN runs' = 1 .. n
        /\ \A i \in 1 .. n : runs'[i] = RunInit(i) /\ i \in Nat /\ i > 0
    <3>1. \A i \in 1 .. n : RunInit(i) \in Run
      BY RunInitTyped, SMT
    <3> QED BY <1>3, <2>1, <3>1, IsASeq, SMT
  <2> DEFINE last == Len(said) + 1
  <2>3. /\ Len(said) \in Nat /\ DOMAIN said = 1 .. Len(said)
        /\ Len(said') = last /\ DOMAIN said' = 1 .. last
        /\ said'[last].m = "runs" /\ said'[last].j = n
    BY <1>2, <1>4, ReadNext
  <2> HIDE DEF last
  <2>4. \A k \in 1 .. last : last \in k .. last
    BY <2>3, SMT DEF last
  <2>5. ASSUME NEW i \in 1 .. n PROVE RunAsSaid(i)'
    <3>1. \A m : \A k \in Words(m, i)' :
            /\ k \in DOMAIN said'
            /\ i > 0 => ~\E l \in k .. Len(said') : said'[l].m = "runs" /\ said'[l].j # 0
      BY Zenon DEF Words
    <3>2. \A m : Words(m, i)' = {}
      BY <1>8, <2>2, <2>3, <2>4, <3>1
    <3>3. \A m, default : LastWord(m, i, default)' = default
      BY <3>2 DEF LastWord
    <3>4. ParamsSaid(i)' = <<>>
      BY <3>2 DEF ParamsSaid, ParamWords
    <3>5. AfioSaid(i)'.name = "posix"
      BY <3>3 DEF AfioSaid
    <3>6. /\ runs'[i].num_repetitions = UInt(LastWord("num_repetitions", i, 1)')
          /\ runs'[i].test.file_name = LastWord("file_name", i, DefaultName)'
          /\ \A o \in Options : runs'[i].test.options[o] = LastWord(o, i, "default")'
          /\ \A f \in SizeFields :
               runs'[i].test.distribs[f] = ParamsOf(LastWord(f, i, "sizes")')
          /\ AfioSaid(i)'.name \in {runs'[i].test.afio, Undefined}
          /\ runs'[i].test.params = ParamsSaid(i)'
          /\ (runs'[i].test.afsb = NULL) = (Words("afsb", i)' = {})
      BY <2>2, <3>2, <3>3, <3>4, <3>5, RunInitSays
    <3> QED BY <3>6, Zenon DEF RunAsSaid, UInt, ParamsOf
  <2>6. RunsSaid' = n
    <3>1. RunArrays \in SUBSET (1 .. Len(said))
      BY WordsRead DEF IInv
    <3>2. \A k : k \in RunArrays <=> k \in DOMAIN said /\ said[k].m = "runs" /\ said[k].j # 0
      BY Zenon DEF RunArrays
    <3>3. \A k : k \in RunArrays' <=> k \in DOMAIN said' /\ said'[k].m = "runs" /\ said'[k].j # 0
      BY Zenon DEF RunArrays
    <3>4. \A k \in 1 .. Len(said) : said'[k] = said[k]
      BY <1>2, <1>4, ReadNext
    <3>5. \A k : k \in 1 .. last <=> k \in 1 .. Len(said) \/ k = last
      BY <2>3, SMT DEF last
    <3>6. \A k : k \in RunArrays' <=> k \in RunArrays \/ k = last
      BY <1>8, <2>3, <3>2, <3>3, <3>4, <3>5
    <3>7. RunArrays' = RunArrays \cup {Len(said) + 1}
      BY <3>6 DEF last
    <3>8. said'[Max(RunArrays \cup {Len(said) + 1})].j = n
      BY <1>2, <1>4, <3>1, LastNext
    <3> QED BY <3>7, <3>8 DEF RunsSaid
  <2>7. num_replications' = UInt(LastWord("num_replications", 0, 1))'
    BY <1>6, Zenon DEF UInt
  <2> QED BY <1>6, <2>2, <2>5, <2>6, <2>7, Zenon DEF ExpAsSaid
<1> QED BY <1>7, <1>8

\* What was said is only about the members read and the experiment.
LEMMA SaidUnchanged ==
  ASSUME ExpAsSaid, UNCHANGED <<num_replications, run_order, runs, stex, said>>
  PROVE  ExpAsSaid'
<1>1. \A m, i : Words(m, i)' = Words(m, i)
  BY DEF Words
<1>2. \A m, i, default : LastWord(m, i, default)' = LastWord(m, i, default)
  BY <1>1 DEF LastWord
<1>3. \A i : ParamWords(i)' = ParamWords(i)
  BY <1>1 DEF ParamWords
<1>4. \A i : ParamsSaid(i)' = ParamsSaid(i)
  BY <1>3, Zenon DEF ParamsSaid, DictOf
<1>5. ReportsSaid' = ReportsSaid /\ RunsSaid' = RunsSaid
  BY <1>1 DEF ReportsSaid, RunsSaid, RunArrays, Range
<1>6. \A i : AfioSaid(i)' = AfioSaid(i)
  BY <1>2 DEF AfioSaid
<1>7. StexAsSaid'
  BY <1>2, <1>5, Zenon DEF StexAsSaid, ExpAsSaid
<1>8. ASSUME NEW i \in DOMAIN runs PROVE RunAsSaid(i)'
  <2>1. RunAsSaid(i)
    BY DEF ExpAsSaid
  <2>2. /\ runs'[i].num_repetitions = UInt(LastWord("num_repetitions", i, 1)')
        /\ runs'[i].test.file_name = LastWord("file_name", i, DefaultName)'
        /\ \A o \in Options : runs'[i].test.options[o] = LastWord(o, i, "default")'
        /\ \A f \in SizeFields :
             runs'[i].test.distribs[f] = ParamsOf(LastWord(f, i, "sizes")')
        /\ AfioSaid(i)'.name \in {runs'[i].test.afio, Undefined}
        /\ runs'[i].test.params = ParamsSaid(i)'
        /\ (runs'[i].test.afsb = NULL) = (Words("afsb", i)' = {})
    BY <1>1, <1>2, <1>4, <1>6, <2>1, Zenon DEF RunAsSaid
  <2> QED BY <2>2, Zenon DEF RunAsSaid, UInt, ParamsOf
<1>9. num_replications' = UInt(LastWord("num_replications", 0, 1))'
  BY <1>2, Zenon DEF UInt, ExpAsSaid
<1>10. run_order' = LastWord("run_order", 0, "fixed")'
  BY <1>2, Zenon DEF ExpAsSaid
<1> QED BY <1>5, <1>7, <1>8, <1>9, <1>10, Zenon DEF ExpAsSaid

\* A file that has been refused aborts the program, and a command line with an
\* unknown option is not executed; what was not refused is what was said.
SaidInv ==
  /\ rerr => pc \in {"exp", "stex", "runs", "run", "test", "aborted"}
  /\ bad_opt => pc \notin {"valid", "accepted"}
  /\ ~rerr => ExpAsSaid

LEMMA InitSaid == Init => SaidInv
<1> SUFFICES ASSUME Init PROVE SaidInv
  OBVIOUS
<1>1. DOMAIN said = {} /\ rerr = FALSE /\ bad_opt = FALSE
  BY DEF Init
<1>2. \A m, i : Words(m, i) = {}
  BY <1>1 DEF Words
<1>3. \A m, i, default : LastWord(m, i, default) = default
  BY <1>2 DEF LastWord
<1>4. RunsSaid = 1 /\ ReportsSaid = {}
  BY <1>1, <1>2 DEF RunsSaid, RunArrays, ReportsSaid
<1>5. runs = <<RunInit(1)>> /\ DOMAIN runs = {1} /\ Len(runs) = 1
  BY DEF Init
<1>6. RunAsSaid(1)
  <2>1. ParamsSaid(1) = <<>> /\ AfioSaid(1).name = "posix"
    BY <1>2, <1>3 DEF ParamsSaid, ParamWords, AfioSaid
  <2> QED BY <1>2, <1>3, <1>5, <2>1, RunInitSays DEF RunAsSaid
<1>7. UInt(1) = 1
  BY ConfigAssumption, SMT DEF UInt
<1>8. StexAsSaid
  BY <1>3, <1>4 DEF StexAsSaid, Init, StexInit
<1>9. ExpAsSaid
  <2>1. num_replications = 1 /\ run_order = "fixed"
    BY DEF Init
  <2> QED BY <1>3, <1>4, <1>5, <1>6, <1>7, <1>8, <2>1 DEF ExpAsSaid
<1> QED BY <1>1, <1>9, Zenon DEF SaidInv

LEMMA NextSaid == IInv /\ SaidInv /\ [Next]_vars => SaidInv'
<1> SUFFICES ASSUME IInv, SaidInv, [Next]_vars PROVE SaidInv'
  OBVIOUS
<1>1. CASE PcSteps
  <2>1. UNCHANGED <<rerr, num_replications, run_order, runs, stex, said>>
    BY <1>1 DEF PcSteps, Preempt, UnknownOption, ArgsEnd, FileEnds, OptionFile, Stex, Test,
           NextRun, ObjectEnds, Validate, exp, hist
  <2>2. ~rerr' => ExpAsSaid'
    BY <2>1, SaidUnchanged DEF SaidInv
  <2>3. rerr' => pc' \in {"exp", "stex", "runs", "run", "test", "aborted"}
    BY <1>1, <2>1, SMT DEF PcSteps, Preempt, UnknownOption, ArgsEnd, FileEnds, OptionFile,
       Stex, Test, NextRun, ObjectEnds, Validate, SaidInv
  <2>4. bad_opt' => pc' \notin {"valid", "accepted"}
    <3>1. CASE Validate
      BY <3>1, Zenon DEF Validate, SaidInv
    <3>2. CASE NextRun
      BY <3>2 DEF NextRun
    <3>3. CASE ArgsEnd
      BY <3>3 DEF ArgsEnd
    <3>4. ASSUME NEW file \in File, OptionFile(file) PROVE pc' \notin {"valid", "accepted"}
      BY <3>4 DEF OptionFile, Opened, File
    <3>5. ASSUME NEW help, NEW master, Preempt(help, master)
          PROVE  pc' \notin {"valid", "accepted"}
      BY <3>5 DEF Preempt
    <3>6. CASE UnknownOption \/ FileEnds \/ Stex \/ Test \/ ObjectEnds
      BY <3>6 DEF UnknownOption, FileEnds, Stex, Test, ObjectEnds
    <3> QED BY <1>1, <3>1, <3>2, <3>3, <3>4, <3>5, <3>6, Zenon DEF PcSteps
  <2> QED BY <2>2, <2>3, <2>4 DEF SaidInv
<1>2. ASSUME pc \in {"exp", "stex", "run", "test"}, pc' = pc \/ (pc = "exp" /\ pc' = "runs"),
             bad_opt' = bad_opt, rerr => rerr', ~rerr /\ ~rerr' => ExpAsSaid'
      PROVE  SaidInv'
  <2>1. ~rerr' => ExpAsSaid'
    BY <1>2
  <2>2. rerr' => pc' \in {"exp", "stex", "runs", "run", "test", "aborted"}
    BY <1>2
  <2>3. bad_opt' => pc' \notin {"valid", "accepted"}
    BY <1>2
  <2> QED BY <2>1, <2>2, <2>3 DEF SaidInv
<1>3. CASE FieldSteps
  <2>1. PICK object \in {"exp", "stex", "run", "test"} :
          \E m, j, refused : Says(object, m, j, refused)
    BY <1>3, Zenon DEF FieldSteps, NumReplications, RunOrderIs, ReportType, DataFormat,
       ExportDir, StexSays, OtherMember
  <2>2. UNCHANGED pc
    BY <1>3, Zenon DEF FieldSteps, NumReplications, RunOrderIs, ReportType, DataFormat,
       ExportDir, StexSays, OtherMember
  <2>3. ~rerr /\ ~rerr' => ExpAsSaid'
    BY <1>3, FieldStepsSaid DEF SaidInv
  <2>4. pc = object /\ bad_opt' = bad_opt /\ (rerr => rerr')
    BY <2>1, Zenon DEF Says
  <2> QED BY <1>2, <2>2, <2>3, <2>4
<1>4. CASE RunSteps
  <2>1. PICK object \in {"run", "test"} : \E m, j, refused : RunSays(object, m, j, refused)
    BY <1>4, Zenon DEF RunSteps, NumRepetitions, Option, FileName, Afio, Afsb, Size
  <2>2. pc' = pc /\ pc = object /\ bad_opt' = bad_opt /\ (rerr => rerr')
    BY <2>1, Zenon DEF RunSays, Says
  <2>3. ~rerr /\ ~rerr' => ExpAsSaid'
    BY <1>4, RunStepsSaid DEF SaidInv
  <2> QED BY <1>2, <2>2, <2>3
<1>5. ASSUME NEW n \in 0 .. MaxRuns \cup {Bad}, Runs(n) PROVE SaidInv'
  <2>1. Says("exp", "runs", n, Refused(n)) /\ (pc' = pc \/ pc' = "runs")
    BY <1>5, Zenon DEF Runs
  <2>2. pc = "exp" /\ bad_opt' = bad_opt /\ (rerr => rerr')
    BY <2>1, Zenon DEF Says
  <2>3. ~rerr /\ ~rerr' => ExpAsSaid'
    BY <1>5, RunsStepSaid DEF SaidInv
  <2> QED BY <1>2, <2>1, <2>2, <2>3
<1>6. CASE ExpFree
  <2>1. /\ pc \in {"accepted", "refused"} /\ pc' = "freed"
        /\ UNCHANGED <<bad_opt, rerr, num_replications, run_order, runs, stex, said>>
    BY <1>6 DEF ExpFree, exp
  <2> QED BY <2>1, SaidUnchanged DEF SaidInv
<1>7. CASE UNCHANGED vars
  <2>1. UNCHANGED <<pc, bad_opt, rerr, num_replications, run_order, runs, stex, said>>
    BY <1>7 DEF vars, exp, hist
  <2> QED BY <2>1, SaidUnchanged DEF SaidInv
<1>8. CASE Next
  BY <1>1, <1>3, <1>4, <1>5, <1>6, <1>8, Zenon
  DEF Next, PcSteps, FieldSteps, RunSteps
<1> QED BY <1>7, <1>8

-------------------------------------------------------------------------------
(* The theorems.                                                           *)

\* IInv holds in every state of every behavior.
THEOREM Invariance == Spec => []IInv
<1>1. Init => IInv
  BY InitInv
<1>2. IInv /\ [Next]_vars => IInv'
  BY NextInv
<1> QED BY <1>1, <1>2, PTL DEF Spec

\* Fields keep their types, whatever files say.
THEOREM TypeCorrect == Spec => []TypeOK
<1>1. IInv => TypeOK
  BY DEF IInv, Typed
<1> QED BY <1>1, Invariance, PTL

\* Whatever arrays of runs the files have, runs are numbered by their places: the
\* numbers by which trec_run_start() finds the records of a run.
THEOREM RunsAlwaysNumbered == Spec => []RunsNumbered
<1>1. IInv => RunsNumbered
  BY DEF IInv
<1> QED BY <1>1, Invariance, PTL

\* Memory is corrupted, or a freed name kept, only with a file that is refused, or
\* with a storage backend or a distribution of sizes without parameters.
THEOREM MemoryAlwaysHolds == Spec => []MemoryHolds
<1>1. IInv => MemoryHolds
  BY Zenon DEF IInv, MemoryInv, MemoryHolds, SaysParameterless
<1> QED BY <1>1, Invariance, PTL

\* Whatever files are given, with whatever members in whatever order, an experiment
\* that is accepted is what they say when each is read as a whole.
THEOREM AcceptsWhatIsSaid == Spec => []AcceptedAsSaid
<1>1. Init => SaidInv
  BY InitSaid
<1>2. IInv /\ SaidInv /\ [Next]_vars => SaidInv'
  BY NextSaid
<1>3. SaidInv => AcceptedAsSaid
  BY DEF SaidInv, AcceptedAsSaid
<1> QED BY <1>1, <1>2, <1>3, Invariance, PTL DEF Spec

-------------------------------------------------------------------------------
(* The dictionary: the array stays filled from its start with entries of    *)
(* different keys.                                                         *)

\* dict_indexof() finds a key at its only place, or nowhere.
LEMMA IndexOfKey ==
  ASSUME DictIInv, NEW k
  PROVE  /\ Found(k) = {} => IndexOf(k) = -1
         /\ \A i \in Used : entry[i].key = k => IndexOf(k) = i
         /\ IndexOf(k) >= 0 => IndexOf(k) \in Used /\ entry[IndexOf(k)].key = k
<1>1. Found(k) = {} => IndexOf(k) = -1
  BY DEF IndexOf
<1>2. ASSUME NEW i \in Used, entry[i].key = k
      PROVE  IndexOf(k) = i
  <2>1. Found(k) = {i}
    BY <1>2 DEF Found, DictIInv, KeysDiffer
  <2>2. i <= i
    BY <1>2 DEF Used, DictIInv, DictTypeOK
  <2> QED BY <2>1, <2>2 DEF IndexOf
<1>3. ASSUME IndexOf(k) >= 0
      PROVE  IndexOf(k) \in Used /\ entry[IndexOf(k)].key = k
  <2>1. Found(k) # {}
    BY <1>1, <1>3
  <2>2. PICK i \in Used : entry[i].key = k
    BY <2>1 DEF Found
  <2> QED BY <1>2, <2>2
<1> QED BY <1>1, <1>2, <1>3

\* The room found for n entries is enough for them and no less than before.
LEMMA RoomFits ==
  ASSUME _capacity \in Nat, NEW n \in Nat
  PROVE  Room(n) \in Nat /\ n <= Room(n) /\ _capacity <= Room(n)
BY DEF Room

-------------------------------------------------------------------------------
LEMMA InitIInv == dict_newc => DictIInv
BY DictAssumption DEF dict_newc, DictIInv, DictTypeOK, Filled, KeysDiffer, Slot, Used

LEMMA InitcIInv ==
  ASSUME DictIInv, NEW c \in Capacities, dict_initc(c)
  PROVE  DictIInv'
BY DictAssumption
DEF dict_initc, DictIInv, DictTypeOK, Filled, KeysDiffer, Slot, Used

LEMMA SetOldIInv ==
  ASSUME DictIInv, NEW k \in Key, NEW v \in Val, SetOld(k, v)
  PROVE  DictIInv'
<1> DEFINE idx == IndexOf(k)
<1>1. idx \in Used
  BY IndexOfKey DEF SetOld
<1>2. idx \in Slot /\ entry[idx] \in Entry
  BY <1>1 DEF DictIInv, DictTypeOK, Filled, Used, Slot
<1>3. entry' = [entry EXCEPT ![idx].val = v]
  BY DEF SetOld
<1>4. entry'[idx] \in Entry /\ entry'[idx].key = entry[idx].key
  BY <1>2, <1>3 DEF DictIInv, DictTypeOK, Entry
<1> HIDE DEF idx
<1>5. \A i \in Slot : i # idx => entry'[i] = entry[i]
  BY <1>3 DEF DictIInv, DictTypeOK
<1>6. DictTypeOK'
  BY <1>2, <1>3, <1>4, <1>5 DEF DictIInv, DictTypeOK, SetOld, Slot
<1>7. Filled'
  BY <1>1, <1>2, <1>4, <1>5, DictAssumption DEF DictIInv, Filled, SetOld, Slot, Used
<1>8. \A i \in Used : entry'[i].key = entry[i].key
  BY <1>4, <1>5 DEF DictIInv, Filled, DictTypeOK, Used, Slot
<1>9. KeysDiffer'
  BY <1>8 DEF DictIInv, KeysDiffer, SetOld, Used
<1> QED BY <1>6, <1>7, <1>9 DEF DictIInv

\* Where the entries are after one was added.
LEMMA SetNewPlaces ==
  ASSUME DictIInv, NEW k \in Key, NEW v \in Val, SetNew(k, v)
  PROVE  /\ entry' \in [Slot' -> Entry \cup {NoValue}]
         /\ entry'[_length] \in Entry
         /\ entry'[_length].key = k /\ entry'[_length].val = v
         /\ \A i \in Used : entry'[i] = entry[i]
         /\ \A i \in Slot' : i \notin Used' => entry'[i] = NoValue
         /\ Used' = Used \cup {_length} /\ _length \notin Used
         /\ _capacity' \in Nat /\ _length' \in Nat /\ _length' <= _capacity'
<1> DEFINE new == [key |-> k, val |-> v]
           cap == Room(_length + 1)
<1>1. new \in Entry /\ new.key = k /\ new.val = v
  BY DEF Entry
<1>2. cap \in Nat /\ _length + 1 <= cap /\ _capacity <= cap
  BY RoomFits DEF DictIInv, DictTypeOK
<1>3. _capacity' = cap /\ _length' = _length + 1
  BY DEF SetNew
<1>4. entry' = [Resized(cap) EXCEPT ![_length] = new]
  BY <1>3 DEF SetNew
<1> HIDE DEF new, cap
<1>5. /\ Resized(cap) \in [0 .. cap - 1 -> Entry \cup {NoValue}]
      /\ \A i \in Used : Resized(cap)[i] = entry[i]
      /\ \A i \in 0 .. cap - 1 : i \notin Used => Resized(cap)[i] = NoValue
  BY <1>2 DEF Resized, DictIInv, DictTypeOK, Filled, Used, Slot
<1>6. entry' \in [0 .. cap - 1 -> Entry \cup {NoValue}]
  BY <1>1, <1>4, <1>5
<1>7. /\ entry'[_length] = new
      /\ \A i \in Used : entry'[i] = entry[i]
      /\ \A i \in 0 .. cap - 1 : i \notin Used /\ i # _length => entry'[i] = NoValue
  BY <1>2, <1>4, <1>5 DEF DictIInv, DictTypeOK, Used
<1>8. Used' = Used \cup {_length} /\ Slot' = 0 .. cap - 1 /\ _length \notin Used
  BY <1>3 DEF Used, Slot, DictIInv, DictTypeOK
<1> QED BY <1>1, <1>2, <1>3, <1>6, <1>7, <1>8 DEF DictIInv, DictTypeOK

LEMMA SetNewIInv ==
  ASSUME DictIInv, NEW k \in Key, NEW v \in Val, SetNew(k, v)
  PROVE  DictIInv'
<1>1. DictTypeOK'
  BY SetNewPlaces DEF DictIInv, DictTypeOK, SetNew
<1>2. \A i \in Used : entry[i] # NoValue
  BY DEF DictIInv, Filled, DictTypeOK, Used, Slot
<1>3. \A i \in Used' : entry'[i] # NoValue
  BY <1>2, SetNewPlaces, DictAssumption
<1>4. Filled'
  BY <1>3, SetNewPlaces DEF Filled
<1>5. \A i \in Used : entry[i].key # k
  BY IndexOfKey DEF SetNew, DictIInv, DictTypeOK, Used
<1>6. KeysDiffer'
  BY <1>5, SetNewPlaces DEF DictIInv, KeysDiffer
<1> QED BY <1>1, <1>4, <1>6 DEF DictIInv

\* Where the entries are after one was removed.
LEMMA RemovedPlaces ==
  ASSUME DictIInv, NEW k \in Key, dict_remove(k)
  PROVE  /\ IndexOf(k) \in Used
         /\ entry' \in [Slot -> Entry \cup {NoValue}]
         /\ \A i \in Used' : entry'[i] = IF i < IndexOf(k) THEN entry[i]
                                                          ELSE entry[i + 1]
         /\ \A i \in Slot : i \notin Used' => entry'[i] = NoValue
         /\ Used' = 0 .. _length - 2
         /\ _length - 1 \in Nat
<1> DEFINE idx == IndexOf(k)
<1>1. idx \in Used
  BY IndexOfKey DEF dict_remove
<1>2. /\ entry' = [i \in Slot |-> CASE i = _length - 1 -> NoValue
                    [] i \in idx .. _length - 2 -> entry[i + 1]
                    [] OTHER -> entry[i]]
      /\ _length' = _length - 1
  BY DEF dict_remove, Without
<1> HIDE DEF idx
<1>3. _length \in Nat /\ _capacity \in Nat /\ _length <= _capacity /\ idx \in 0 .. _length - 1
  BY <1>1 DEF DictIInv, DictTypeOK, Filled, Used
<1>4. Used' = 0 .. _length - 2 /\ _length - 1 \in Nat
  BY <1>2, <1>3 DEF Used
<1>5. ASSUME NEW i \in Slot
      PROVE  /\ i = _length - 1 => entry'[i] = NoValue
             /\ i \in idx .. _length - 2 => entry'[i] = entry[i + 1] /\ i + 1 \in Slot
             /\ i < idx \/ i > _length - 1 => entry'[i] = entry[i]
  BY <1>2, <1>3 DEF Slot
<1>6. entry' \in [Slot -> Entry \cup {NoValue}]
  <2>1. \A i \in Slot : entry'[i] \in Entry \cup {NoValue}
    BY <1>3, <1>5 DEF DictIInv, DictTypeOK, Slot
  <2> QED BY <1>2, <2>1
<1>7. \A i \in Used' : entry'[i] = IF i < idx THEN entry[i] ELSE entry[i + 1]
  BY <1>3, <1>4, <1>5 DEF Slot
<1>8. ASSUME NEW i \in Slot, i \notin Used'
      PROVE  entry'[i] = NoValue
  <2>1. i \in Int /\ (i = _length - 1 \/ i > _length - 1)
    BY <1>3, <1>4, <1>8 DEF Slot
  <2>2. i > _length - 1 => entry[i] = NoValue
    BY <1>3, <2>1 DEF DictIInv, Filled, Used
  <2> QED BY <1>5, <2>1, <2>2
<1> QED BY <1>1, <1>4, <1>6, <1>7, <1>8 DEF idx

LEMMA RemoveIInv ==
  ASSUME DictIInv, NEW k \in Key, dict_remove(k)
  PROVE  DictIInv'
<1>1. _length' = _length - 1 /\ UNCHANGED <<_capacity, got>>
  BY DEF dict_remove
<1>2. DictTypeOK'
  BY <1>1, RemovedPlaces DEF DictIInv, DictTypeOK, Slot
<1>3. Filled'
  BY <1>1, RemovedPlaces DEF DictIInv, DictTypeOK, Filled, Slot, Used
<1>4. KeysDiffer'
  BY <1>1, RemovedPlaces DEF DictIInv, DictTypeOK, KeysDiffer, Used
<1> QED BY <1>2, <1>3, <1>4 DEF DictIInv

LEMMA GetIInv ==
  ASSUME DictIInv, NEW k \in Key, dict_get(k)
  PROVE  DictIInv'
<1>1. IndexOf(k) >= 0 => entry[IndexOf(k)] \in Entry
  BY IndexOfKey DEF DictIInv, DictTypeOK, Filled, Used, Slot
<1>2. got' \in Val \cup {NoValue}
  BY <1>1 DEF dict_get, Entry
<1> QED BY <1>2 DEF dict_get, array, DictIInv, DictTypeOK, Filled, KeysDiffer, Slot, Used

LEMMA NextIInv ==
  ASSUME DictIInv, [DictNext]_dictVars
  PROVE  DictIInv'
<1>1. CASE UNCHANGED dictVars
  BY <1>1 DEF dictVars, array, DictIInv, DictTypeOK, Filled, KeysDiffer, Slot, Used
<1>2. ASSUME NEW c \in Capacities, dict_initc(c)
      PROVE  DictIInv'
  BY <1>2, InitcIInv
<1>3. ASSUME NEW k \in Key, dict_remove(k) \/ dict_get(k)
      PROVE  DictIInv'
  BY <1>3, RemoveIInv, GetIInv
<1>4. ASSUME NEW k \in Key, NEW v \in Val, SetOld(k, v) \/ SetNew(k, v)
      PROVE  DictIInv'
  BY <1>4, SetOldIInv, SetNewIInv
<1> QED BY <1>1, <1>2, <1>3, <1>4 DEF DictNext

\* The array is filled from its start with entries of different keys.
THEOREM DictInvariance == DictSpec => []DictIInv
<1>1. ASSUME DictIInv, [DictNext]_dictVars
      PROVE  DictIInv'
  BY <1>1, NextIInv
<1> QED BY <1>1, InitIInv, PTL DEF DictSpec

\* Entries fill the array from its start: behind them everything was cleared,
\* however dict_set(), dict_remove() and ensure_capacity() moved them.
THEOREM AlwaysFilled == DictSpec => []Filled
<1>1. DictIInv => Filled
  BY DEF DictIInv
<1> QED BY <1>1, DictInvariance, PTL

\* A key is never in the array twice, so dict_remove() removes all of it.
THEOREM KeysAlwaysDiffer == DictSpec => []KeysDiffer
<1>1. DictIInv => KeysDiffer
  BY DEF DictIInv
<1> QED BY <1>1, DictInvariance, PTL

-------------------------------------------------------------------------------
(* The dictionary: the array implements what is promised.                  *)

\* The map holds the keys that are in the array, with the value beside each.
MapExact ==
  /\ DOMAIN Map = {entry[i].key : i \in Used}
  /\ \A i \in Used : Map[entry[i].key] = entry[i].val

LEMMA MapValue == DictIInv => MapExact
<1> SUFFICES ASSUME DictIInv
             PROVE  MapExact
  OBVIOUS
<1>1. ASSUME NEW i \in Used
      PROVE  Map[entry[i].key] = entry[i].val
  <2>1. IndexOf(entry[i].key) = i
    BY IndexOfKey
  <2> QED BY <2>1 DEF Map
<1> QED BY <1>1 DEF MapExact, Map

\* A key is in the map exactly when dict_indexof() finds it.
LEMMA MapIndex ==
  ASSUME DictIInv, NEW k
  PROVE  /\ k \in DOMAIN Map <=> IndexOf(k) >= 0
         /\ IndexOf(k) >= 0 => Map[k] = entry[IndexOf(k)].val
<1>1. MapExact
  BY MapValue
<1>2. ASSUME k \in DOMAIN Map
      PROVE  IndexOf(k) >= 0
  <2>1. PICK i \in Used : entry[i].key = k
    BY <1>1, <1>2 DEF MapExact
  <2>2. IndexOf(k) = i
    BY <2>1, IndexOfKey
  <2> QED BY <2>2 DEF Used, DictIInv, DictTypeOK
<1>3. ASSUME IndexOf(k) >= 0
      PROVE  k \in DOMAIN Map /\ Map[k] = entry[IndexOf(k)].val
  <2>1. IndexOf(k) \in Used /\ entry[IndexOf(k)].key = k
    BY <1>3, IndexOfKey
  <2> QED BY <1>1, <2>1 DEF MapExact
<1> QED BY <1>2, <1>3

\* Map' is whatever function has the keys and the values of the next array.
LEMMA MapNext ==
  ASSUME MapExact', NEW f, f = [x \in DOMAIN f |-> f[x]],
         {entry'[i].key : i \in Used'} = DOMAIN f,
         \A i \in Used' : entry'[i].val = f[entry'[i].key]
  PROVE  Map' = f
<1>1. DOMAIN Map' = DOMAIN f
  BY DEF MapExact
<1>2. \A x \in DOMAIN f : Map'[x] = f[x]
  BY DEF MapExact
<1>3. Map' = [x \in DOMAIN Map' |-> Map'[x]]
  BY DEF Map
<1> QED BY <1>1, <1>2, <1>3

LEMMA InitMaps == dict_newc => Abstract!Init
BY DEF dict_newc, Abstract!Init, Abstract!Empty, Map, Used

LEMMA InitcMaps ==
  ASSUME DictIInv, DictIInv', NEW c \in Capacities, dict_initc(c)
  PROVE  Abstract!Clear
<1>1. Used' = {}
  BY DEF dict_initc, Used
<1> QED BY <1>1 DEF dict_initc, Abstract!Clear, Abstract!Empty, Map

LEMMA SetOldMaps ==
  ASSUME DictIInv, MapExact', NEW k \in Key, NEW v \in Val, SetOld(k, v)
  PROVE  Abstract!Set(k, v)
<1> DEFINE idx == IndexOf(k)
           f == [x \in DOMAIN Map \cup {k} |-> IF x = k THEN v ELSE Map[x]]
<1>1. MapExact
  BY MapValue
<1>2. idx \in Used /\ entry[idx].key = k
  BY IndexOfKey DEF SetOld
<1>3. entry' = [entry EXCEPT ![idx].val = v] /\ Used' = Used
  BY DEF SetOld, Used
<1>4. \A i \in Used : i \in Slot /\ entry[i] \in Entry
  BY DEF DictIInv, DictTypeOK, Filled, Used, Slot
<1>5. \A i \in Used : entry[i].key = k => i = idx
  BY IndexOfKey
<1> HIDE DEF idx
<1>6. entry'[idx].key = k /\ entry'[idx].val = v
  BY <1>2, <1>3, <1>4 DEF DictIInv, DictTypeOK, Entry
<1>7. \A i \in Used : i # idx => entry'[i] = entry[i]
  BY <1>3, <1>4 DEF DictIInv, DictTypeOK
<1>8. {entry'[i].key : i \in Used'} = DOMAIN f
  BY <1>1, <1>2, <1>3, <1>6, <1>7 DEF MapExact
<1>9. \A i \in Used' : entry'[i].val = f[entry'[i].key]
  BY <1>1, <1>2, <1>3, <1>5, <1>6, <1>7 DEF MapExact
<1>10. f = [x \in DOMAIN f |-> f[x]]
  OBVIOUS
<1> HIDE DEF f
<1>11. Map' = f
  BY <1>8, <1>9, <1>10, MapNext
<1> QED BY <1>11 DEF f, SetOld, Abstract!Set

LEMMA SetNewMaps ==
  ASSUME DictIInv, MapExact', NEW k \in Key, NEW v \in Val, SetNew(k, v)
  PROVE  Abstract!Set(k, v)
<1> DEFINE f == [x \in DOMAIN Map \cup {k} |-> IF x = k THEN v ELSE Map[x]]
<1>1. MapExact
  BY MapValue
<1>2. /\ Used' = Used \cup {_length}
      /\ \A i \in Used : entry'[i] = entry[i]
      /\ entry'[_length].key = k /\ entry'[_length].val = v
  BY SetNewPlaces
<1>3. k \notin DOMAIN Map
  <2>1. \A i \in Used : entry[i].key # k
    BY IndexOfKey DEF SetNew, DictIInv, DictTypeOK, Used
  <2> QED BY <1>1, <2>1 DEF MapExact
<1>4. {entry'[i].key : i \in Used'} = DOMAIN f
  BY <1>1, <1>2 DEF MapExact
<1>5. \A i \in Used' : entry'[i].val = f[entry'[i].key]
  BY <1>1, <1>2, <1>3 DEF MapExact
<1>6. f = [x \in DOMAIN f |-> f[x]]
  OBVIOUS
<1> HIDE DEF f
<1>7. Map' = f
  BY <1>4, <1>5, <1>6, MapNext
<1> QED BY <1>7 DEF f, SetNew, Abstract!Set

LEMMA RemoveMaps ==
  ASSUME DictIInv, MapExact', NEW k \in Key, dict_remove(k)
  PROVE  Abstract!Remove(k)
<1> DEFINE idx == IndexOf(k)
           f == [x \in DOMAIN Map \ {k} |-> Map[x]]
           from(i) == IF i < idx THEN i ELSE i + 1
<1>1. MapExact
  BY MapValue
<1>2. idx \in Used /\ \A i \in Used : entry[i].key = k <=> i = idx
  BY IndexOfKey DEF dict_remove
<1>3. \A i \in Used' : entry'[i] = IF i < idx THEN entry[i] ELSE entry[i + 1]
  BY RemovedPlaces
<1> HIDE DEF idx
<1>4. /\ _length \in Nat /\ idx \in 0 .. _length - 1
      /\ Used = 0 .. _length - 1 /\ Used' = 0 .. _length - 2
  BY <1>2, RemovedPlaces DEF DictIInv, DictTypeOK, Used
<1>5. ASSUME NEW i \in Used'
      PROVE  from(i) \in Used \ {idx} /\ entry'[i] = entry[from(i)]
  <2>1. from(i) \in Used \ {idx}
    BY <1>4
  <2> QED BY <1>3, <2>1
<1>6. ASSUME NEW j \in Used \ {idx}
      PROVE  \E i \in Used' : entry'[i] = entry[j]
  <2>1. CASE j < idx
    <3>1. j \in Used'
      BY <1>4, <2>1
    <3> QED BY <1>3, <2>1, <3>1
  <2>2. CASE j > idx
    <3>1. j - 1 \in Used' /\ ~ (j - 1 < idx) /\ (j - 1) + 1 = j
      BY <1>4, <2>2
    <3> QED BY <1>3, <3>1
  <2> QED BY <1>4, <2>1, <2>2
<1> HIDE DEF from
<1>7. DOMAIN f = {entry[j].key : j \in Used \ {idx}}
  BY <1>1, <1>2 DEF MapExact
<1>8. {entry'[i].key : i \in Used'} = DOMAIN f
  BY <1>5, <1>6, <1>7
<1>9. \A i \in Used' : entry'[i].val = f[entry'[i].key]
  BY <1>1, <1>2, <1>5 DEF MapExact
<1>10. f = [x \in DOMAIN f |-> f[x]]
  OBVIOUS
<1> HIDE DEF f
<1>11. Map' = f
  BY <1>8, <1>9, <1>10, MapNext
<1> QED BY <1>11 DEF f, dict_remove, Abstract!Remove

LEMMA GetMaps ==
  ASSUME DictIInv, NEW k \in Key, dict_get(k)
  PROVE  Abstract!Get(k)
<1>1. got' = IF k \in DOMAIN Map THEN Map[k] ELSE NoValue
  BY MapIndex DEF dict_get
<1>2. Map' = Map
  BY DEF dict_get, array, Map, IndexOf, Found, Used
<1> QED BY <1>1, <1>2 DEF Abstract!Get

\* Growing, moving and searching the array, the dictionary returns for every
\* key the value set last, or nothing once it was removed.
THEOREM DictImplements == DictSpec => DictionarySpec
<1>1. DictIInv => MapExact
  BY MapValue
<1>2. ASSUME DictIInv, DictIInv', MapExact', [DictNext]_dictVars
      PROVE  [Abstract!Next]_<<Map, got>>
  <2>1. CASE UNCHANGED dictVars
    BY <2>1 DEF dictVars, array, Map, IndexOf, Found, Used
  <2>2. ASSUME NEW c \in Capacities, dict_initc(c)
        PROVE  Abstract!Next
    BY <1>2, <2>2, InitcMaps DEF Abstract!Next
  <2>3. ASSUME NEW k \in Key, dict_remove(k)
        PROVE  Abstract!Next
    BY <1>2, <2>3, RemoveMaps DEF Abstract!Next
  <2>4. ASSUME NEW k \in Key, dict_get(k)
        PROVE  Abstract!Next
    BY <1>2, <2>4, GetMaps DEF Abstract!Next
  <2>5. ASSUME NEW k \in Key, NEW v \in Val, SetOld(k, v) \/ SetNew(k, v)
        PROVE  Abstract!Next
    <3>1. Abstract!Set(k, v)
      BY <1>2, <2>5, SetOldMaps, SetNewMaps
    <3> QED BY <3>1 DEF Abstract!Next
  <2> QED BY <1>2, <2>1, <2>2, <2>3, <2>4, <2>5 DEF DictNext
<1> QED
  BY <1>1, <1>2, InitMaps, DictInvariance, PTL
  DEF DictSpec, DictionarySpec, Abstract!Spec

===============================================================================
