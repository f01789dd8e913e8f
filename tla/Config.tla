-------------------------------- MODULE Config --------------------------------
(***************************************************************************)
(* From the command line to an experiment: the options of the command      *)
(* line, the files they name, and what the members of "experiment", "run", *)
(* "test" and "stex" objects make of the experiment, in any order and      *)
(* however often; the validation; and the memory that is freed on the way  *)
(* and in the end.  The program of one task.                               *)
(*                                                                         *)
(* The type and the workload of a test are in module Parser.  Here they    *)
(* are among the options, members that copy one value to one field, but    *)
(* for the sizes of an "offset" workload, whose distributions have memory  *)
(* of their own.  As there, a test has one kind of workload: no "dataset"  *)
(* is read over the distributions of an "offset".                          *)
(***************************************************************************)
EXTENDS Integers, Sequences, Functions, FiniteSetsExt

CONSTANTS
  NULL,       \* a null pointer
  Freed,      \* a pointer to memory that was freed
  Bad,        \* any JSON value that a check refuses
  Many,       \* an object with other than one member
  Undefined,  \* memory never written to, or no element of an enumeration
  UIntMod,    \* 2^w for an unsigned int of w bits
  Counts,     \* numbers of replications and repetitions, or Bad
  Names,      \* names of files, "" among them, or Bad
  Dirs,       \* names of directories for exports, or Bad
  Options,    \* the members of "test" that copy a value; a mere name each
  OptionVals, \* their values, or Bad
  AfioObjs,   \* the I/O backends described, Many or Bad
  SizeObjs,   \* what sizes are given by: arrays, distributions, Many or Bad
  AfsbObjs,   \* the storage backends described, Many or Bad
  ReportLists,\* the arrays of report types, or Bad
  MaxRuns,    \* a bound on the runs of an array
  MaxMembers  \* a bound on the members read

RunOrder == {"fixed", "random"}
Format == {"csv"}
Report == {"task", "test"}
AfioType == {"posix", "cstream", "mpiio"}
AfsbType == {"unset", "orangefs", "lustre"}

\* The parameters of a backend are a sequence of pairs, whose values may be Bad.
Obj(types) == [name : types \cup {Undefined}, params : Seq(STRING \X (STRING \cup {Bad}))]
Backends(objs) == objs \ {Bad, Many}

\* Either size is given by an array, with an element refused or without, or by a
\* distribution, whose parameters are an object or not; an empty array is no member.
SizeFields == {"data_size", "req_size"}
Arrays == {"sizes", "sizes refused"}
Distributions == {"params", "param refused", "no params", "no object"}

\* The members that are not options.
OwnMembers ==
  {"num_replications", "run_order", "runs", "report_type", "data_format", "export_dir",
   "num_repetitions", "file_name", "afio", "afsb", "other"} \cup SizeFields
MemberNames == OwnMembers \cup Options

\* The name that a test has by default.
DefaultName == "iore.tmp"

ASSUME ConfigAssumption ==
  /\ UIntMod \in Nat \ {0, 1}
  /\ MaxRuns \in Nat /\ MaxMembers \in Nat
  /\ Counts \subseteq Nat \cup {Bad} /\ Bad \notin Nat \cup {Many}
  /\ ReportLists \subseteq Seq(Report \cup {Bad}) \cup {Bad}
  /\ Backends(AfioObjs) \subseteq Obj(AfioType)
  /\ Backends(AfsbObjs) \subseteq Obj(AfsbType)
  /\ Freed \notin Names \cup {Undefined, Bad, NULL, DefaultName}
  /\ SizeObjs \subseteq Arrays \cup Distributions \cup {Many, Bad}
  /\ {Bad, Many} \cap (Arrays \cup Distributions) = {}
  /\ Undefined \notin {NULL, "dict"}
  /\ Options \cap OwnMembers = {}

VARIABLES
  pc,       \* "preempt", "args", the object being read ("exp", "stex", "runs",
            \* "run", "test"), "valid", "accepted" or "refused"; at last "usage",
            \* "aborted" (by iore_fatalf()), "crashed" or "freed"
  bad_opt,  \* an option was not known
  rerr,     \* something in the file was refused so far
  num_replications, run_order,
  runs,     \* the runs
  cur,      \* the run being read
  stex,     \* the export
  corrupt,  \* history: memory was freed that was not allocated
  said      \* history: the members read, in order

exp == <<num_replications, run_order, runs, stex>>
hist == <<corrupt, said>>
vars == <<pc, bad_opt, rerr, exp, cur, hist>>

-------------------------------------------------------------------------------
(* Initial values.                                                         *)

\* test_init(), wkld_init(), afio_init(): a name, sizes without a distribution, no
\* parameters of the backend, no afsb.  The parameters of a distribution or of an
\* afsb are a dictionary, or memory never written to.
DefaultTest == [file_name |-> DefaultName,
                options |-> [o \in Options |-> "default"],
                distribs |-> [f \in SizeFields |-> NULL],
                afio |-> "posix", params |-> <<>>,
                afsb |-> NULL]

\* run_init().
RunInit(id) == [id |-> id, num_repetitions |-> 1, test |-> DefaultTest]

\* stex_init().
StexInit == [reports |-> {}, data_format |-> Undefined, export_dir |-> NULL]

-------------------------------------------------------------------------------
(* Memory.  run_free() frees the file name, and the parameters of backends *)
(* and distributions.                                                      *)

Wild(run) ==
  \/ run.test.afsb # NULL /\ run.test.afsb.params = Undefined
  \/ \E f \in SizeFields : run.test.distribs[f] = Undefined
Dangling(run) == run.test.file_name = Freed

\* Freeing twice corrupts the memory; what freeing memory never allocated does
\* depends on what is found there.
RunsFreed ==
  \/ /\ \E i \in DOMAIN runs : Dangling(runs[i])
     /\ corrupt' = TRUE
  \/ /\ \A i \in DOMAIN runs : ~Dangling(runs[i])
     /\ corrupt' \in IF \E i \in DOMAIN runs : Wild(runs[i])
                      THEN {corrupt, TRUE} ELSE {corrupt}

-------------------------------------------------------------------------------
(* Checks of single values, and the history of what was read.              *)

UInt(j) == j % UIntMod
Refused(j) == j = Bad

\* A member of the object being read, of the run being read or of none (0).
Says(object, m, j, refused) ==
  /\ pc = object
  /\ Len(said) < MaxMembers
  /\ said' = Append(said, [m |-> m, run |-> cur, j |-> j])
  /\ rerr' = (rerr \/ refused)
  /\ UNCHANGED bad_opt

-------------------------------------------------------------------------------
(* The command line.                                                       *)

\* Help is looked for first; only the master shows it, and exits.
Preempt(help, master) ==
  /\ pc = "preempt"
  /\ pc' = IF help /\ master THEN "usage" ELSE "args"
  /\ UNCHANGED <<bad_opt, rerr, exp, cur, hist>>

UnknownOption ==
  /\ pc = "args"
  /\ bad_opt' = TRUE
  /\ UNCHANGED <<pc, rerr, exp, cur, hist>>

\* What parse() makes of a file by its name and its contents.  A name without a
\* dot has no extension, but file_get_extension() returns the address after
\* null; and for an extension that is not "json" the search for a parser goes on
\* behind the only one there is.  Neither has a defined result.
Opened(file) ==
  CASE file = "json" -> {"exp"}
    [] file \in {"missing", "unreadable", "empty", "dotfile"} -> {"aborted"}
    [] file \in {"no dot", "other extension"} -> {"aborted", "crashed"}
File == {"json", "missing", "unreadable", "empty", "dotfile", "no dot",
         "other extension"}
OptionFile(file) ==
  /\ pc = "args"
  /\ pc' \in Opened(file)
  /\ UNCHANGED <<bad_opt, rerr, exp, cur, hist>>

\* What was refused in a file aborts the program, of all tasks.
FileEnds ==
  /\ pc = "exp"
  /\ pc' = IF rerr THEN "aborted" ELSE "args"
  /\ UNCHANGED <<bad_opt, rerr, exp, cur, hist>>

ArgsEnd ==
  /\ pc = "args"
  /\ pc' = IF bad_opt THEN "refused" ELSE "valid"
  /\ UNCHANGED <<bad_opt, rerr, exp, cur, hist>>

-------------------------------------------------------------------------------
(* The members of "experiment".                                            *)

NumReplications(j) ==
  /\ Says("exp", "num_replications", j, Refused(j))
  /\ num_replications' = IF Refused(j) THEN num_replications ELSE UInt(j)
  /\ UNCHANGED <<pc, run_order, runs, stex, cur, corrupt>>

RunOrderIs(j) ==
  /\ Says("exp", "run_order", j, Refused(j))
  /\ run_order' = IF Refused(j) THEN run_order ELSE j
  /\ UNCHANGED <<pc, num_replications, runs, stex, cur, corrupt>>

\* json_exp_runs(): an array replaces the runs there are, an empty one does not.
\* One mutant numbers the runs of an array after those there are, another reuses
\* those there are.
Runs_Numbered(n) ==
  /\ Says("exp", "runs", n, Refused(n))
  /\ IF Refused(n) \/ n = 0 THEN UNCHANGED <<pc, runs, corrupt>>
     ELSE /\ runs' = [i \in 1 .. n |-> RunInit(i + Len(runs) - 1)]
          /\ RunsFreed
          /\ pc' = "runs"
  /\ UNCHANGED <<num_replications, run_order, stex, cur>>
Runs_Reused(n) ==
  /\ Says("exp", "runs", n, Refused(n))
  /\ IF Refused(n) \/ n = 0 THEN UNCHANGED <<pc, runs, corrupt>>
     ELSE /\ runs' = [i \in 1 .. n |-> IF i \in DOMAIN runs THEN runs[i] ELSE RunInit(i)]
          /\ pc' = "runs"
          /\ UNCHANGED corrupt
  /\ UNCHANGED <<num_replications, run_order, stex, cur>>
Runs(n) ==
  /\ Says("exp", "runs", n, Refused(n))
  /\ IF Refused(n) \/ n = 0 THEN UNCHANGED <<pc, runs, corrupt>>
     ELSE /\ runs' = [i \in 1 .. n |-> RunInit(i)]
          /\ RunsFreed
          /\ pc' = "runs"
  /\ UNCHANGED <<num_replications, run_order, stex, cur>>

\* The next element of the array.
NextRun ==
  /\ pc = "runs"
  /\ cur' = (cur + 1) % (Len(runs) + 1)
  /\ pc' = IF cur < Len(runs) THEN "run" ELSE "exp"
  /\ UNCHANGED <<bad_opt, rerr, exp, hist>>

\* An object within an object begins; and ends.
Stex == pc = "exp" /\ pc' = "stex"
        /\ UNCHANGED <<bad_opt, rerr, exp, cur, hist>>
Test == pc = "run" /\ pc' = "test"
        /\ UNCHANGED <<bad_opt, rerr, exp, cur, hist>>
ObjectEnds ==
  /\ \/ pc = "stex" /\ pc' = "exp"
     \/ pc = "test" /\ pc' = "run"
     \/ pc = "run" /\ pc' = "runs"
  /\ UNCHANGED <<bad_opt, rerr, exp, cur, hist>>

\* A member that is not known, or not an object where one is wanted.
OtherMember ==
  /\ \E object \in {"exp", "stex", "run", "test"} : Says(object, "other", Bad, TRUE)
  /\ UNCHANGED <<pc, exp, cur, corrupt>>

-------------------------------------------------------------------------------
(* The members of "stex".                                                  *)

StexSays(m, j) ==
  /\ Says("stex", m, j, Refused(j))
  /\ UNCHANGED <<pc, num_replications, run_order, runs, cur, corrupt>>

\* Types of reports are only ever added, those of a list that is refused for
\* another of its elements too.
ReportType(list) ==
  /\ Says("stex", "report_type", list, list = Bad \/ Bad \in Range(list))
  /\ stex' = IF list = Bad THEN stex
             ELSE [stex EXCEPT !.reports = @ \cup (Range(list) \ {Bad})]
  /\ UNCHANGED <<pc, num_replications, run_order, runs, cur, corrupt>>

DataFormat(j) ==
  /\ StexSays("data_format", j)
  /\ stex' = IF Refused(j) THEN stex ELSE [stex EXCEPT !.data_format = j]

ExportDir(j) ==
  /\ StexSays("export_dir", j)
  /\ stex' = IF Refused(j) THEN stex ELSE [stex EXCEPT !.export_dir = j]

-------------------------------------------------------------------------------
(* The members of "run" and "test".                                        *)

RunSays(object, m, j, refused) ==
  /\ Says(object, m, j, refused)
  /\ UNCHANGED <<pc, num_replications, run_order, stex, cur>>

NumRepetitions(j) ==
  /\ RunSays("run", "num_repetitions", j, Refused(j))
  /\ runs' = IF Refused(j) THEN runs
             ELSE [runs EXCEPT ![cur].num_repetitions = UInt(j)]
  /\ UNCHANGED corrupt

Option(o, j) ==
  /\ RunSays("test", o, j, Refused(j))
  /\ runs' = IF Refused(j) THEN runs
             ELSE [runs EXCEPT ![cur].test.options[o] = j]
  /\ UNCHANGED corrupt

\* The old name is freed before the new one is checked.  A mutant does so when
\* there is a new one, which it forgets to keep.
FileName_Lost(j) ==
  /\ RunSays("test", "file_name", j, Refused(j))
  /\ corrupt' = (corrupt \/ runs[cur].test.file_name = Freed)
  /\ runs' = [runs EXCEPT ![cur].test.file_name = Freed]
FileName(j) ==
  /\ RunSays("test", "file_name", j, Refused(j))
  /\ corrupt' = (corrupt \/ runs[cur].test.file_name = Freed)
  /\ runs' = [runs EXCEPT ![cur].test.file_name = IF Refused(j) THEN Freed ELSE j]

\* What there are of parameters of a distribution: none once there is an array, or
\* other than one distribution; a dictionary, which gets its memory when there is at
\* least one; or what was found where the distribution was allocated.
ParamsOf(j) ==
  IF j \in Arrays \cup {Many} THEN NULL
  ELSE IF j \in {"params", "param refused"} THEN "dict" ELSE Undefined
SizeRefused(j) == j \notin {"sizes", "params", "no params"}

\* Only another distribution frees the parameters of the one before.
Size(f, j) ==
  /\ RunSays("test", f, j, SizeRefused(j))
  /\ runs' = IF j = Bad THEN runs ELSE [runs EXCEPT ![cur].test.distribs[f] = ParamsOf(j)]
  /\ corrupt' \in IF j \in Distributions /\ runs[cur].test.distribs[f] = Undefined
                   THEN {corrupt, TRUE} ELSE {corrupt}

\* The dictionary that dict_set() makes of parameters, up to one refused.
DictOf(params) ==
  LET good == {i \in DOMAIN params : \A k \in 1 .. i : ~Refused(params[k][2])} IN
  [key \in {params[i][1] : i \in good} |->
     params[Max({i \in good : params[i][1] = key})][2]]
Dicts(objs) == {DictOf(j.params) : j \in Backends(objs)}

\* What a storage backend that was allocated may hold.
Afsbs == [type : AfsbType \cup {Undefined}, params : {Undefined} \cup Dicts(AfsbObjs)]
ASSUME AllocatedAssumption == Undefined \notin Dicts(AfsbObjs) /\ NULL \notin Afsbs

BackendRefused(j) ==
  j \in {Bad, Many} \/ \E i \in DOMAIN j.params : Refused(j.params[i][2])

\* The type of a backend whose name is not known was never written to.
TypesOf(j, types) == IF j.name = Undefined THEN types \cup {Undefined} ELSE {j.name}

\* Without parameters, those of a backend before stay.
Afio(j) ==
  /\ RunSays("test", "afio", j, BackendRefused(j))
  /\ CASE j = Bad -> UNCHANGED runs
       [] j = Many -> runs' = [runs EXCEPT ![cur].test.afio = Undefined]
       [] OTHER -> \E type \in TypesOf(j, AfioType) :
            runs' = [runs EXCEPT
              ![cur].test.afio = type,
              ![cur].test.params = IF j.params = <<>> THEN @ ELSE DictOf(j.params)]
  /\ UNCHANGED corrupt

\* A storage backend is allocated each time; its dictionary only gets memory
\* when there are parameters.
Afsb(j) ==
  /\ RunSays("test", "afsb", j, BackendRefused(j))
  /\ IF j \in {Bad, Many} THEN runs' = [runs EXCEPT ![cur].test.afsb = NULL]
     ELSE \E type \in TypesOf(j, AfsbType) :
       runs' = [runs EXCEPT ![cur].test.afsb =
         [type |-> type,
          params |-> IF j.params = <<>> THEN Undefined ELSE DictOf(j.params)]]
  /\ UNCHANGED corrupt

-------------------------------------------------------------------------------
(* The validation, the execution and the end.                              *)

\* A type never written to may be found to be none, or taken for one.  Distributions
\* are validated in module Parser: any may be refused here.
TestAccepted(test) == test.file_name # ""
TestDoubtful(test) ==
  \/ \E f \in SizeFields : test.distribs[f] # NULL
  \/ test.afio = Undefined
  \/ test.afsb # NULL /\ test.afsb.type = Undefined
StexValid ==
  stex.reports # {} => stex.data_format \in Format /\ stex.export_dir \notin {NULL, ""}
ExpAccepted ==
  /\ num_replications # 0
  /\ run_order \in RunOrder
  /\ \A i \in DOMAIN runs : runs[i].num_repetitions # 0 /\ TestAccepted(runs[i].test)
  /\ StexValid

\* exp_valid().
Validate ==
  /\ pc = "valid"
  /\ pc' \in IF ~ExpAccepted THEN {"refused"}
             ELSE IF \E i \in DOMAIN runs : TestDoubtful(runs[i].test)
             THEN {"refused", "accepted"} ELSE {"accepted"}
  /\ UNCHANGED <<bad_opt, rerr, exp, cur, hist>>

\* exp_free(), after the execution of what was accepted.
ExpFree ==
  /\ pc \in {"accepted", "refused"}
  /\ pc' = "freed"
  /\ RunsFreed
  /\ UNCHANGED <<bad_opt, rerr, exp, cur, said>>

-------------------------------------------------------------------------------
Init ==
  /\ pc = "preempt"
  /\ bad_opt = FALSE /\ rerr = FALSE
  /\ num_replications = 1 /\ run_order = "fixed"
  /\ runs = <<RunInit(1)>>
  /\ cur = 0
  /\ stex = StexInit
  /\ corrupt = FALSE
  /\ said = <<>>

Next ==
  \/ \E help, master \in BOOLEAN : Preempt(help, master)
  \/ UnknownOption \/ ArgsEnd \/ FileEnds
  \/ \E file \in File : OptionFile(file)
  \/ Stex \/ Test \/ NextRun \/ ObjectEnds \/ OtherMember
  \/ \E j \in Counts : NumReplications(j) \/ NumRepetitions(j)
  \/ \E j \in RunOrder \cup {Bad} : RunOrderIs(j)
  \/ \E n \in 0 .. MaxRuns \cup {Bad} : Runs(n)
  \/ \E list \in ReportLists : ReportType(list)
  \/ \E j \in Format \cup {Bad} : DataFormat(j)
  \/ \E j \in Dirs : ExportDir(j)
  \/ \E o \in Options, j \in OptionVals : Option(o, j)
  \/ \E j \in Names : FileName(j)
  \/ \E f \in SizeFields, j \in SizeObjs : Size(f, j)
  \/ \E j \in AfioObjs : Afio(j)
  \/ \E j \in AfsbObjs : Afsb(j)
  \/ Validate \/ ExpFree

Spec == Init /\ [][Next]_vars

-------------------------------------------------------------------------------
(* Properties.                                                             *)

TestType ==
  [file_name : Names \cup {DefaultName, Freed},
   options : [Options -> OptionVals \cup {"default"}],
   distribs : [SizeFields -> {NULL, "dict", Undefined}],
   afio : AfioType \cup {Undefined},
   params : {<<>>} \cup Dicts(AfioObjs),
   afsb : {NULL} \cup Afsbs]

\* Every field has a value of its kind: in particular a count is that of an unsigned
\* int, and the parameters of a backend are what dict_set() made of a description.
TypeOK ==
  /\ pc \in {"preempt", "args", "exp", "stex", "runs", "run", "test", "valid",
            "accepted", "refused", "usage", "aborted", "crashed", "freed"}
  /\ bad_opt \in BOOLEAN /\ rerr \in BOOLEAN
  /\ num_replications \in 0 .. UIntMod - 1 /\ run_order \in RunOrder
  /\ runs \in Seq([id : Nat, num_repetitions : 0 .. UIntMod - 1, test : TestType])
  /\ cur \in Nat
  /\ stex \in [reports : SUBSET Report, data_format : Format \cup {Undefined},
               export_dir : Dirs \cup {NULL}]
  /\ corrupt \in BOOLEAN
  /\ \A k \in DOMAIN said : said[k].m \in MemberNames /\ said[k].run \in Nat

\* Time records are found by the numbers of the runs, and the loops over runs go
\* from 1 to their number: whatever arrays a file has, and whichever files are
\* given, there are runs, and each is numbered by its place.
RunsNumbered ==
  /\ Len(runs) > 0
  /\ \A i \in DOMAIN runs : runs[i].id = i
  /\ pc \in {"run", "test"} => cur \in DOMAIN runs

\* No file name, and no dictionary of a backend or of a distribution, is freed twice
\* or without having been allocated, but where the file is refused with a message
\* anyway (json_test_file_name() frees a name before it refuses the next), or has a
\* storage backend or a distribution of sizes with an empty object of parameters.
Parameterless(k) ==
  \/ /\ said[k].m = "afsb" /\ said[k].j \notin {Bad, Many}
     /\ said[k].j.params = <<>>
  \/ said[k].m \in SizeFields /\ said[k].j = "no params"
MemoryHolds ==
  corrupt \/ (\E i \in DOMAIN runs : Dangling(runs[i])) =>
    rerr \/ \E k \in DOMAIN said : Parameterless(k)

\* What the files say of a field, all at once: the last word on it, those on runs
\* since the array of the run began; otherwise the default.
Words(m, i) ==
  {k \in DOMAIN said :
     /\ said[k].m = m /\ said[k].run = i
     /\ i > 0 => ~\E l \in k .. Len(said) : said[l].m = "runs" /\ said[l].j # 0}
LastWord(m, i, default) ==
  IF Words(m, i) = {} THEN default ELSE said[Max(Words(m, i))].j
ParamWords(i) == {k \in Words("afio", i) : said[k].j.params # <<>>}
ParamsSaid(i) ==
  IF ParamWords(i) = {} THEN <<>> ELSE DictOf(said[Max(ParamWords(i))].j.params)
AfioSaid(i) == LastWord("afio", i, [name |-> "posix", params |-> <<>>])
RunAsSaid(i) ==
  LET test == runs[i].test IN
  /\ runs[i].num_repetitions = UInt(LastWord("num_repetitions", i, 1))
  /\ test.file_name = LastWord("file_name", i, DefaultName)
  /\ \A o \in Options : test.options[o] = LastWord(o, i, "default")
  /\ \A f \in SizeFields : test.distribs[f] = ParamsOf(LastWord(f, i, "sizes"))
  /\ AfioSaid(i).name \in {test.afio, Undefined}
  /\ test.params = ParamsSaid(i)
  /\ (test.afsb = NULL) = (Words("afsb", i) = {})
ReportsSaid == UNION {Range(said[k].j) : k \in Words("report_type", 0)}
StexAsSaid ==
  /\ stex.reports = ReportsSaid
  /\ stex.data_format = LastWord("data_format", 0, Undefined)
  /\ stex.export_dir = LastWord("export_dir", 0, NULL)
RunArrays == {k \in DOMAIN said : said[k].m = "runs" /\ said[k].j # 0}
RunsSaid == IF RunArrays = {} THEN 1 ELSE said[Max(RunArrays)].j
ExpAsSaid ==
  /\ num_replications = UInt(LastWord("num_replications", 0, 1))
  /\ run_order = LastWord("run_order", 0, "fixed")
  /\ Len(runs) = RunsSaid
  /\ \A i \in DOMAIN runs : RunAsSaid(i)
  /\ StexAsSaid

\* An experiment that is accepted is what the files say when each is read as a
\* whole, over the defaults and the files before it: the runs are those of the last
\* array that has any, with nothing of the runs they replace.  Two things add up
\* rather than to be replaced: types of reports, and the parameters of an I/O
\* backend, which those of a backend without any do not take away.
AcceptedAsSaid == pc = "accepted" => ~rerr /\ ~bad_opt /\ ExpAsSaid

===============================================================================
