-------------------------------- MODULE Parser --------------------------------
(***************************************************************************)
(* What a "test" object of an experiment file makes of a test: the JSON    *)
(* parser takes its members one by one, in the order of the file, however  *)
(* often they occur, and test_valid() decides on the result.               *)
(*                                                                         *)
(* Modelled are the members whose fields depend on each other: the type    *)
(* and the workload.  A file describes one kind of workload: after an      *)
(* "offset" object no "dataset" object is read, nor the other way round.   *)
(* Enumerations and sizes are their values; numbers are not in quotes.     *)
(***************************************************************************)
EXTENDS Integers, Sequences, Functions

CONSTANTS
  NULL,      \* no value: a null pointer; a member not in the file
  Bad,       \* any JSON value that a check refuses
  Many,      \* an object with other than one member
  Undefined, \* memory never written to, or no element of an enumeration
  UIntMod,   \* 2^w for an unsigned int of w bits
  NumProcs,  \* ctx.num_procs
  TaskNums,  \* the numbers of tasks, or Bad
  Counts,    \* the numbers of variables and dimensions, or Bad
  UIntLists, \* the arrays of numbers, or Bad
  NameLists, \* the arrays of types of variables, or Bad
  SizeLists, \* the arrays of sizes, or Bad
  TestLists, \* the arrays of types of tests, or Bad
  DistObjs   \* the distributions: objects, Many or Bad

Field == {"data", "req"}
DistName == {"uniform", "normal", "geometric"}
DistObj == [name : DistName \cup {Undefined},
            params : {"complete", "lacking", "empty", Bad}]
ReadLists == Seq(Nat \cup {Undefined})

\* dset_var_size()
VarSize == [char |-> 1, integer |-> 4, long |-> 8, long_long |-> 8,
            float |-> 4, double |-> 8]
VarType == DOMAIN VarSize

IsList(v) == v \in UIntLists \/ v \in NameLists \/ v \in SizeLists \/ v \in TestLists

ASSUME ParserAssumption ==
  /\ UIntMod \in Nat \ {0} /\ NumProcs \in 1 .. UIntMod - 1
  /\ TaskNums \cup Counts \subseteq Nat \cup {Bad}
  /\ UIntLists \subseteq Seq(Nat \cup {Bad}) \cup {Bad}
  /\ NameLists \subseteq Seq(VarType \cup {Bad}) \cup {Bad}
  /\ SizeLists \subseteq Seq(Nat \cup {Bad}) \cup {Bad}
  /\ TestLists \subseteq Seq({"write", "read", Bad}) \cup {Bad}
  /\ DistObjs \subseteq DistObj \cup {Many, Bad}
  /\ NULL \notin ReadLists \cup DistObj \cup Nat \cup {"object", Bad, Many}
  /\ Bad \notin ReadLists \cup DistObj \cup Nat \cup VarType
  /\ Bad \notin {"object", "complete", "lacking", "empty", "write", "read", <<>>}
  /\ Many \notin DistObj \cup Nat \cup {"object", Bad}
  /\ ~IsList(NULL) /\ ~IsList(Many)
  /\ Undefined \notin VarType

Member == {"type", "num_tasks", "data_sizes", "req_sizes", "data_distrib",
           "req_distrib", "num_vars", "var_types", "num_dims", "dim_sizes",
           "dim_divs", "offset", "dataset", "cartesian", "other"}

VARIABLES
  pc,          \* the object being read: "test", "wkld", "oset", "dset" or
               \* "cart"; then "valid", and at last "accepted" or "refused",
               \* or "died" of the use of memory never written to
  rerr,        \* something was refused so far
  type,        \* the tests to do
  num_tasks,
  wtype,       \* "OFFSET" or "DATASET": which of the fields below are in use
  sizes,       \* by field, the sizes given
  sizes_len,   \* by field, _data_sizes_len and _req_sizes_len
  distrib,     \* by field, the distribution
  num_vars, var_types, vars_size,
  dtype,       \* "CARTESIAN" or no type
  num_dims, g_dim_sizes, g_dim_divs,
  given,       \* history: what the file gave for each member
  again        \* history: it gave something more than once

oset == <<sizes, sizes_len, distrib>>
dvars == <<num_vars, var_types, vars_size>>
cart == <<num_dims, g_dim_sizes, g_dim_divs>>
dset == <<dvars, dtype, cart>>
vars == <<pc, rerr, type, num_tasks, wtype, oset, dset, given, again>>

-------------------------------------------------------------------------------
(* The checks of single values.                                            *)

\* Whether json_check_uint(), json_check_enum() and the like refuse a value, or
\* an array or one of its elements.
Refused(j) == j = Bad
AnyRefused(list) == Refused(list) \/ \E i \in DOMAIN list : Refused(list[i])

\* A number is cut to an unsigned int.
UInt(j) == j % UIntMod

\* The field that a refused element is left in was never written to.
UInts(list) ==
  [i \in DOMAIN list |-> IF Refused(list[i]) THEN Undefined ELSE UInt(list[i])]
Values(list) ==
  [i \in DOMAIN list |-> IF Refused(list[i]) THEN Undefined ELSE list[i]]

\* The members of an object, one after the other.  What was given is forgotten
\* when something is given again, but for the kind of the workload.
Reading(object) == pc = object /\ pc' = object
Records(m, j) ==
  /\ again' = (again \/ given[m] # NULL)
  /\ given' = [k \in Member |->
       CASE again' /\ k \notin {"offset", "dataset"} -> NULL
         [] k = m -> j
         [] OTHER -> given[k]]

-------------------------------------------------------------------------------
(* The members of "test" and "workload".                                   *)

TestType(list) ==
  /\ Reading("test")
  /\ Records("type", list)
  /\ type' = IF Refused(list) THEN type ELSE Range(list) \ {Bad}
  /\ rerr' = (rerr \/ AnyRefused(list))
  /\ UNCHANGED <<num_tasks, wtype, oset, dset>>

NumTasks(j) ==
  /\ Reading("wkld")
  /\ Records("num_tasks", j)
  /\ num_tasks' = IF Refused(j) THEN num_tasks ELSE UInt(j)
  /\ rerr' = (rerr \/ Refused(j))
  /\ UNCHANGED <<type, wtype, oset, dset>>

\* A member that is not known, or not an object where one is wanted.
OtherMember ==
  /\ pc \in {"test", "wkld", "oset", "dset", "cart"}
  /\ Records("other", Bad)
  /\ rerr' = TRUE
  /\ UNCHANGED <<pc, type, num_tasks, wtype, oset, dset>>

\* An object within an object begins; and ends.
Workload ==
  /\ pc = "test" /\ pc' = "wkld"
  /\ UNCHANGED <<rerr, type, num_tasks, wtype, oset, dset, given, again>>

Offset ==
  /\ pc = "wkld" /\ given["dataset"] = NULL
  /\ pc' = "oset"
  /\ Records("offset", "object")
  /\ UNCHANGED <<rerr, type, num_tasks, wtype, oset, dset>>

\* The dataset is in a union with the default offset workload, which is not
\* taken away: the access pattern (0) is found as the number of variables, the
\* array of one size as their types, and its length (1) as the type of the
\* dataset, which is none.  The rest is only read when that is CARTESIAN.
Stale == <<Undefined, "char">>
Dataset ==
  /\ pc = "wkld" /\ given["offset"] = NULL
  /\ pc' = "dset"
  /\ Records("dataset", "object")
  /\ wtype' = "DATASET"
  /\ var_types' = IF wtype = "OFFSET" THEN Stale ELSE var_types
  /\ UNCHANGED <<rerr, type, num_tasks, oset, num_vars, vars_size, dtype, cart>>

\* json_wkld_dset_cart() starts anew; a mutant keeps the divisions there are.
Cartesian_Keep ==
  /\ pc = "dset" /\ pc' = "cart"
  /\ Records("cartesian", "object")
  /\ dtype' = "CARTESIAN"
  /\ num_dims' = 0 /\ g_dim_sizes' = NULL
  /\ UNCHANGED <<rerr, type, num_tasks, wtype, oset, dvars, g_dim_divs>>
Cartesian ==
  /\ pc = "dset" /\ pc' = "cart"
  /\ Records("cartesian", "object")
  /\ dtype' = "CARTESIAN"
  /\ num_dims' = 0 /\ g_dim_sizes' = NULL /\ g_dim_divs' = NULL
  /\ UNCHANGED <<rerr, type, num_tasks, wtype, oset, dvars>>

ObjectEnds ==
  /\ \/ pc = "wkld" /\ pc' = "test"
     \/ pc \in {"oset", "dset"} /\ pc' = "wkld"
     \/ pc = "cart" /\ pc' = "dset"
  /\ UNCHANGED <<rerr, type, num_tasks, wtype, oset, dset, given, again>>

-------------------------------------------------------------------------------
(* The members of "offset": sizes and distributions replace each other.    *)

\* An empty array is ignored.  A mutant leaves the distribution.
Sizes_Only(f, m, list) ==
  /\ Reading("oset")
  /\ Records(m, list)
  /\ IF Refused(list) \/ list = <<>> THEN UNCHANGED oset
     ELSE /\ sizes' = [sizes EXCEPT ![f] = Values(list)]
          /\ sizes_len' = [sizes_len EXCEPT ![f] = Len(list)]
          /\ UNCHANGED distrib
  /\ rerr' = (rerr \/ AnyRefused(list))
  /\ UNCHANGED <<type, num_tasks, wtype, dset>>
Sizes(f, m, list) ==
  /\ Reading("oset")
  /\ Records(m, list)
  /\ IF Refused(list) \/ list = <<>> THEN UNCHANGED oset
     ELSE /\ sizes' = [sizes EXCEPT ![f] = Values(list)]
          /\ sizes_len' = [sizes_len EXCEPT ![f] = Len(list)]
          /\ distrib' = [distrib EXCEPT ![f] = NULL]
  /\ rerr' = (rerr \/ AnyRefused(list))
  /\ UNCHANGED <<type, num_tasks, wtype, dset>>

\* The type of a distribution whose name is not known was never written to:
\* it is any, or none.  So were its parameters where they are an empty object,
\* or no object.
TypesOf(j) ==
  IF j.name = Undefined THEN DistName \cup {Undefined} ELSE {j.name}

Distrib(f, m, j) ==
  /\ Reading("oset")
  /\ Records(m, j)
  /\ CASE j = Bad -> UNCHANGED oset
       [] j = Many -> /\ distrib' = [distrib EXCEPT ![f] = NULL]
                        /\ UNCHANGED <<sizes, sizes_len>>
       [] OTHER -> /\ \E n \in TypesOf(j) :
                        distrib' = [distrib EXCEPT ![f] =
                                      [name |-> n, params |-> j.params]]
                   /\ sizes' = [sizes EXCEPT ![f] = NULL]
                   /\ sizes_len' = [sizes_len EXCEPT ![f] = 0]
  /\ rerr' = (rerr \/ j \in {Bad, Many} \/ Refused(j.params))
  /\ UNCHANGED <<type, num_tasks, wtype, dset>>

-------------------------------------------------------------------------------
(* The members of "dataset" and "cartesian": a count and the arrays it must *)
(* match, whichever comes first.                                           *)

NumVars(j) ==
  LET n == UInt(j) IN
  /\ Reading("dset")
  /\ Records("num_vars", j)
  /\ num_vars' = IF ~Refused(j) /\ num_vars = 0 THEN n ELSE num_vars
  /\ rerr' = (rerr \/ Refused(j) \/ (num_vars # 0 /\ n # num_vars))
  /\ UNCHANGED <<type, num_tasks, wtype, oset, var_types, vars_size, dtype, cart>>

\* Whether an array is ignored, or has as many elements as n says.
Ignored(list) == Refused(list) \/ list = <<>>
Fits(list, n) == n = 0 \/ Len(list) = n

\* The size of the variables up to the first that is refused.
VarsSize(list) ==
  SumFunction([i \in DOMAIN list |->
    IF \E k \in 1 .. i : Refused(list[k]) THEN 0 ELSE VarSize[list[i]]])

VarTypes(list) ==
  /\ Reading("dset")
  /\ Records("var_types", list)
  /\ IF Ignored(list) \/ ~Fits(list, num_vars) THEN UNCHANGED dvars
     ELSE /\ num_vars' = Len(list)
          /\ var_types' = Values(list)
          /\ vars_size' = VarsSize(list)
  /\ rerr' = (rerr \/ AnyRefused(list)
                   \/ (~Ignored(list) /\ ~Fits(list, num_vars)))
  /\ UNCHANGED <<type, num_tasks, wtype, oset, dtype, cart>>

NumDims(j) ==
  LET n == UInt(j) IN
  /\ Reading("cart")
  /\ Records("num_dims", j)
  /\ num_dims' = IF ~Refused(j) /\ num_dims = 0 THEN n ELSE num_dims
  /\ rerr' = (rerr \/ Refused(j) \/ (num_dims # 0 /\ n # num_dims))
  /\ UNCHANGED <<type, num_tasks, wtype, oset, dvars, dtype, g_dim_sizes, g_dim_divs>>

\* What the parsing of either array of dimensions has in common.
DimArray(m, list) ==
  /\ Reading("cart")
  /\ Records(m, list)
  /\ num_dims' = IF ~Ignored(list) /\ Fits(list, num_dims)
                 THEN Len(list) ELSE num_dims
  /\ rerr' = (rerr \/ AnyRefused(list)
                   \/ (~Ignored(list) /\ ~Fits(list, num_dims)))
  /\ UNCHANGED <<type, num_tasks, wtype, oset, dvars, dtype>>

DimSizes(list) ==
  /\ DimArray("dim_sizes", list)
  /\ g_dim_sizes' = IF ~Ignored(list) /\ Fits(list, num_dims)
                    THEN UInts(list) ELSE g_dim_sizes
  /\ UNCHANGED g_dim_divs

DimDivs(list) ==
  /\ DimArray("dim_divs", list)
  /\ g_dim_divs' = IF ~Ignored(list) /\ Fits(list, num_dims)
                   THEN UInts(list) ELSE g_dim_divs
  /\ UNCHANGED g_dim_sizes

-------------------------------------------------------------------------------
(* The end of the file, and the validation.                                *)

\* parse_cmdline_opts() aborts the program when the file was refused.
FileEnds ==
  /\ pc = "test"
  /\ pc' = IF rerr THEN "refused" ELSE "valid"
  /\ UNCHANGED <<rerr, type, num_tasks, wtype, oset, dset, given, again>>

\* Parameters never written to are those that are found there.
OsetValid(found) ==
  \A f \in Field :
    IF distrib[f] = NULL THEN sizes[f] # NULL /\ sizes_len[f] # 0
    ELSE /\ distrib[f].name # Undefined
         /\ distrib[f].params = "complete" \/ (distrib[f].params = "empty" /\ found)

\* tasks is num_tasks, cut to the number of processes.
Product(f) == FoldFunction(LAMBDA x, y : x * y, 1, f)
CartOK(tasks) ==
  /\ num_dims # 0 /\ g_dim_sizes # NULL /\ g_dim_divs # NULL
  /\ \A i \in 1 .. num_dims :
       g_dim_divs[i] \in 1 .. g_dim_sizes[i]
  /\ Product(g_dim_divs) % UIntMod = tasks

\* The size of the variables is computed where their types are read.  What is
\* found past the end of the types, if that can be read at all, decides nothing:
\* only Stale is too short, and its first element is refused anyway.
DsetValid(tasks) ==
  /\ num_vars # 0 /\ var_types # NULL
  /\ \A i \in 1 .. num_vars : i \in DOMAIN var_types => var_types[i] \in VarType
  /\ dtype = "CARTESIAN" /\ CartOK(tasks)
  /\ vars_size # 0

MinOf(a, b) == IF a < b THEN a ELSE b

\* A test of no type gets an error message, but is accepted.  A mutant looks at
\* the tasks of the file before it has cut them.
Validate_Early ==
  /\ pc = "valid"
  /\ \E found \in BOOLEAN :
       pc' = IF IF wtype = "OFFSET" THEN OsetValid(found) ELSE DsetValid(num_tasks)
             THEN "accepted" ELSE "refused"
  /\ type' = IF type = {} THEN {} ELSE type \cup {"write"}
  /\ num_tasks' = MinOf(num_tasks, NumProcs)
  /\ UNCHANGED <<rerr, wtype, oset, dset, given, again>>
Validate ==
  LET tasks == MinOf(num_tasks, NumProcs) IN
  /\ pc = "valid"
  /\ \E found \in BOOLEAN :
       pc' = IF IF wtype = "OFFSET" THEN OsetValid(found) ELSE DsetValid(tasks)
             THEN "accepted" ELSE "refused"
  /\ type' = IF type = {} THEN {} ELSE type \cup {"write"}
  /\ num_tasks' = tasks
  /\ UNCHANGED <<rerr, wtype, oset, dset, given, again>>

\* Memory that was never written to may be used: the parameters of a
\* distribution that another of the same field replaces, or those the validation
\* looks into, by a type that need be none; and what follows the types of the
\* variables when there are fewer of them than variables.
UsesUndefined ==
  \/ pc = "oset" /\ \E f \in Field :
       distrib[f] # NULL /\ distrib[f].params \in {"empty", Bad}
  \/ pc = "valid" /\ wtype = "OFFSET" /\ \E f \in Field :
       distrib[f] # NULL
         /\ (distrib[f].name = Undefined \/ distrib[f].params = "empty")
  \/ pc = "valid" /\ wtype = "DATASET" /\ var_types # NULL
       /\ num_vars > Len(var_types)

Dies ==
  /\ UsesUndefined
  /\ pc' = "died"
  /\ UNCHANGED <<rerr, type, num_tasks, wtype, oset, dset, given, again>>

-------------------------------------------------------------------------------
\* test_init() and wkld_init(): 1 MiB per task in requests of 256 KiB.
Init ==
  /\ pc = "test" /\ rerr = FALSE
  /\ type = {"write", "read"}
  /\ num_tasks = NumProcs
  /\ wtype = "OFFSET"
  /\ sizes = [data |-> <<1048576>>, req |-> <<262144>>]
  /\ sizes_len = [f \in Field |-> 1]
  /\ distrib = [f \in Field |-> NULL]
  /\ num_vars = 0 /\ var_types = NULL /\ vars_size = 0
  /\ dtype = Undefined
  /\ num_dims = 0 /\ g_dim_sizes = NULL /\ g_dim_divs = NULL
  /\ given = [m \in Member |-> NULL]
  /\ again = FALSE

Next ==
  \/ Workload \/ Offset \/ Dataset \/ Cartesian \/ ObjectEnds
  \/ OtherMember \/ FileEnds \/ Validate \/ Dies
  \/ \E list \in TestLists : TestType(list)
  \/ \E list \in SizeLists : \/ Sizes("data", "data_sizes", list)
                             \/ Sizes("req", "req_sizes", list)
  \/ \E j \in DistObjs : \/ Distrib("data", "data_distrib", j)
                         \/ Distrib("req", "req_distrib", j)
  \/ \E j \in TaskNums : NumTasks(j)
  \/ \E j \in Counts : NumVars(j) \/ NumDims(j)
  \/ \E list \in NameLists : VarTypes(list)
  \/ \E list \in UIntLists : DimSizes(list) \/ DimDivs(list)

Spec == Init /\ [][Next]_vars

-------------------------------------------------------------------------------
(* Properties.                                                             *)

Undef(S) == S \cup {Undefined}

\* The arrays of a dataset are as long as the counts by which all loops read
\* them say, in whatever order counts and arrays come, and are corrected or
\* repeated, with one exception: where a file has no types of variables, those
\* found in the default workload have any number of them, and the validation may
\* read past their end.  No such test is accepted: later loops never do.
CountsHold(array, n) == array # NULL => n > 0 /\ Len(array) = n
ArraysAgree ==
  /\ CountsHold(g_dim_sizes, num_dims)
  /\ CountsHold(g_dim_divs, num_dims)
  /\ CountsHold(var_types, num_vars) \/ (var_types = Stale /\ pc # "accepted")

\* A field of an offset workload has sizes of their own length or a distribution,
\* never both, and unless something was refused one of them: what is parsed last
\* takes the place of the default or of what came before.
OneSource ==
  \A f \in Field :
    /\ sizes[f] # NULL => sizes_len[f] = Len(sizes[f]) /\ sizes_len[f] > 0
    /\ sizes[f] = NULL => sizes_len[f] = 0
    /\ sizes[f] = NULL \/ distrib[f] = NULL
    /\ ~rerr => sizes[f] # NULL \/ distrib[f] # NULL

\* What the members of a file say, all at once: the test is well described.
\* "At least a write or read test must be set" is what test_valid() reports.
Given(m) == given[m] # NULL
TypeDescribed == Given("type") => given["type"] # <<>>
Matches(m, array) == Given(m) => given[m] = Len(given[array])
OsetDescribed ==
  \A m \in {"data_distrib", "req_distrib"} : Given(m) => given[m].params = "complete"
TasksGiven ==
  MinOf(IF Given("num_tasks") THEN given["num_tasks"] ELSE NumProcs, NumProcs)
DsetDescribed ==
  /\ Given("var_types") /\ given["var_types"] # <<>>
  /\ Matches("num_vars", "var_types")
  /\ Given("dim_sizes") /\ given["dim_sizes"] # <<>>
  /\ Given("dim_divs") /\ Len(given["dim_divs"]) = Len(given["dim_sizes"])
  /\ Matches("num_dims", "dim_sizes")
  /\ \A i \in DOMAIN given["dim_divs"] :
       given["dim_divs"][i] \in 1 .. given["dim_sizes"][i]
  /\ Product(given["dim_divs"]) = TasksGiven
Lists == {"type", "data_sizes", "req_sizes", "var_types", "dim_sizes", "dim_divs"}
RestDescribed ==
  /\ \A m \in Member : given[m] \notin {Bad, Many}
  /\ \A m \in Lists : Given(m) => \A i \in DOMAIN given[m] : given[m][i] # Bad
  /\ IF Given("dataset") THEN DsetDescribed ELSE OsetDescribed
Described == TypeDescribed /\ RestDescribed

\* Files to which the order of members does not matter: nothing is given twice
\* or both by sizes and by a distribution, which has a known name and parameters,
\* counts are in range, and neither a number in an array nor the product of the
\* divisions is cut.
InRange(S) == S \cap Nat \subseteq 1 .. UIntMod - 1
Uncut(list) == AnyRefused(list) \/ UInts(list) = list
Plain ==
  /\ ~again
  /\ ~(Given("data_sizes") /\ Given("data_distrib"))
  /\ ~(Given("req_sizes") /\ Given("req_distrib"))
  /\ \A m \in {"data_distrib", "req_distrib"} :
       given[m] \notin {NULL, Bad, Many} =>
         given[m].name # Undefined /\ given[m].params # "empty"
  /\ InRange({given[m] : m \in {"num_tasks", "num_vars", "num_dims"}})
  /\ \A m \in {"dim_sizes", "dim_divs"} : Given(m) => Uncut(given[m])
  /\ LET divs == given["dim_divs"] IN
       Given("dim_divs") /\ ~AnyRefused(divs) => UInt(Product(divs)) = Product(divs)

\* A plain file is accepted if and only if it describes a test, though its
\* members are taken one by one into a default that is not cleared, and what
\* one says is compared with what came before only.  The exception is a test
\* that neither writes nor reads: test_valid() says that one must be set, and
\* accepts the test if the rest of it is described.
AcceptsDescribed ==
  pc \in {"accepted", "refused"} /\ Plain =>
    IF TypeDescribed THEN pc = "accepted" <=> Described
                     ELSE pc = "accepted" <=> RestDescribed

===============================================================================
