----------------------------- MODULE Parser_proofs -----------------------------
(***************************************************************************)
(* Proofs about Parser, for all files: whatever members come in whatever   *)
(* order, counts and arrays agree where types of variables are given, and  *)
(* sizes and distributions exclude each other; and a plain file is         *)
(* accepted if and only if it describes a test, of whatever type.          *)
(***************************************************************************)
EXTENDS Parser, Operators_proofs, SequenceTheorems

\* As much of the types as the invariants rest on.
Typed ==
  /\ sizes \in [Field -> ReadLists \cup {NULL}]
  /\ sizes_len \in [Field -> Nat]
  /\ distrib \in [Field -> DistObj \cup {NULL}]
  /\ num_vars \in Nat /\ num_dims \in Nat

\* The arrays, of any state, agree with the counts unless types were never given.
ArraysFit ==
  /\ CountsHold(g_dim_sizes, num_dims)
  /\ CountsHold(g_dim_divs, num_dims)
  /\ var_types # Stale => CountsHold(var_types, num_vars)

IInv == Typed /\ ArraysFit /\ OneSource

\* What UInt() leaves of a number is one.
LEMMA UIntNat == ASSUME NEW j \in Nat PROVE UInt(j) \in Nat
BY ParserAssumption, SMT DEF UInt

\* A list that is read has the length of the one in the file.
LEMMA ValuesLen ==
  ASSUME NEW S, Bad \notin S, NEW list \in Seq(S \cup {Bad})
  PROVE  Values(list) \in Seq(S \cup {Undefined}) /\ Len(Values(list)) = Len(list)
<1>1. list \in [1 .. Len(list) -> S \cup {Bad}] /\ Len(list) \in Nat
  BY LenProperties
<1>2. Values(list) \in [1 .. Len(list) -> S \cup {Undefined}]
  BY <1>1, SMT DEF Values, Refused
<1>3. Values(list) \in Seq(S \cup {Undefined})
  BY <1>2, SeqDef
<1> QED BY <1>1, <1>2, <1>3, LenProperties, SMT

LEMMA UIntsLen ==
  ASSUME NEW list \in Seq(Nat \cup {Bad})
  PROVE  UInts(list) \in Seq(Nat \cup {Undefined}) /\ Len(UInts(list)) = Len(list)
<1>1. list \in [1 .. Len(list) -> Nat \cup {Bad}] /\ Len(list) \in Nat
  BY LenProperties
<1>2. UInts(list) \in [1 .. Len(list) -> Nat \cup {Undefined}]
  BY <1>1, UIntNat, SMT DEF UInts, Refused
<1>3. UInts(list) \in Seq(Nat \cup {Undefined})
  BY <1>2, SeqDef
<1> QED BY <1>1, <1>2, <1>3, LenProperties, SMT

\* The initial state is the default offset workload.
LEMMA InitInv == Init => IInv
<1> SUFFICES ASSUME Init PROVE IInv
  OBVIOUS
<1>1. <<1048576>> \in ReadLists /\ <<262144>> \in ReadLists
  BY SMT DEF ReadLists
<1>2. <<1048576>> # NULL /\ <<262144>> # NULL
  BY <1>1, ParserAssumption
<1>3. Typed
  BY <1>1, SMT DEF Init, Typed, Field
<1>4. ArraysFit
  BY DEF Init, ArraysFit, CountsHold
<1>5. OneSource
  BY <1>2, SMT DEF Init, OneSource, Field
<1> QED BY <1>3, <1>4, <1>5 DEF IInv

\* Steps that leave the fields of both workloads alone.
LEMMA OtherSteps ==
  ASSUME IInv, UNCHANGED <<oset, dset>>, rerr => rerr'
  PROVE  IInv'
BY SMT DEF IInv, Typed, ArraysFit, OneSource, CountsHold, oset, dset, dvars, cart, Stale

\* Sizes read take the place of a distribution.
LEMMA SizesStep ==
  ASSUME IInv, NEW f \in Field, NEW m, NEW list \in SizeLists, Sizes(f, m, list)
  PROVE  IInv'
<1>1. CASE Refused(list) \/ list = <<>>
  BY <1>1, OtherSteps DEF Sizes
<1>2. CASE ~(Refused(list) \/ list = <<>>)
  <2>1. list \in Seq(Nat \cup {Bad}) /\ list # <<>>
    BY <1>2, ParserAssumption DEF Refused
  <2>2. Bad \notin Nat
    BY ParserAssumption
  <2>3. /\ Values(list) \in ReadLists /\ Len(Values(list)) = Len(list)
        /\ Values(list) # NULL
    <3>1. Values(list) \in ReadLists /\ Len(Values(list)) = Len(list)
      BY <2>1, <2>2, ValuesLen DEF ReadLists
    <3>2. NULL \notin ReadLists
      BY ParserAssumption
    <3> QED BY <3>1, <3>2
  <2>4. Len(list) \in Nat /\ Len(list) > 0
    BY <2>1, SMT
  <2>5. /\ sizes' = [sizes EXCEPT ![f] = Values(list)]
        /\ sizes_len' = [sizes_len EXCEPT ![f] = Len(list)]
        /\ distrib' = [distrib EXCEPT ![f] = NULL]
        /\ (rerr => rerr') /\ UNCHANGED dset
    BY <1>2 DEF Sizes
  <2>6. Typed'
    BY <2>3, <2>4, <2>5, SMT DEF IInv, Typed, dset, dvars, cart
  <2>7. ArraysFit'
    BY <2>5 DEF IInv, ArraysFit, CountsHold, dset, dvars, cart, Stale
  <2>8. OneSource'
    BY <2>3, <2>4, <2>5, SMT DEF IInv, Typed, OneSource
  <2> QED BY <2>6, <2>7, <2>8 DEF IInv
<1> QED BY <1>1, <1>2

\* A distribution takes the place of sizes, or of nothing when it is refused.
LEMMA DistribStep ==
  ASSUME IInv, NEW f \in Field, NEW m, NEW j \in DistObjs, Distrib(f, m, j)
  PROVE  IInv'
<1> USE DEF IInv
<1>0. (rerr => rerr') /\ UNCHANGED dset
  BY DEF Distrib
<1>1. CASE j = Bad
  <2>1. UNCHANGED oset
    BY <1>1, ParserAssumption, SMT DEF Distrib
  <2> QED BY <1>0, <2>1, OtherSteps
<1>2. CASE j # Bad /\ j = Many
  <2>1. /\ distrib' = [distrib EXCEPT ![f] = NULL]
        /\ UNCHANGED <<sizes, sizes_len>> /\ rerr'
    BY <1>2 DEF Distrib
  <2>2. Typed'
    BY <1>0, <2>1, SMT DEF Typed, dset, dvars, cart
  <2>3. ArraysFit'
    BY <1>0 DEF ArraysFit, CountsHold, dset, dvars, cart, Stale
  <2>4. OneSource'
    BY <2>1, SMT DEF Typed, OneSource
  <2> QED BY <2>2, <2>3, <2>4
<1>3. CASE j # Bad /\ j # Many
  <2>1. j \in DistObj
    BY <1>3, ParserAssumption
  <2>2. PICK n \in TypesOf(j) :
          distrib' = [distrib EXCEPT ![f] = [name |-> n, params |-> j.params]]
    BY <1>3 DEF Distrib
  <2> DEFINE d == [name |-> n, params |-> j.params]
  <2>3. d \in DistObj /\ d # NULL
    BY <2>1, <2>2, ParserAssumption, SMT DEF DistObj, TypesOf
  <2>4. /\ sizes' = [sizes EXCEPT ![f] = NULL]
        /\ sizes_len' = [sizes_len EXCEPT ![f] = 0]
    BY <1>3 DEF Distrib
  <2>5. distrib' = [distrib EXCEPT ![f] = d]
    BY <2>2
  <2> HIDE DEF d
  <2>6. Typed'
    BY <1>0, <2>3, <2>4, <2>5, SMT DEF Typed, dset, dvars, cart
  <2>7. ArraysFit'
    BY <1>0 DEF ArraysFit, CountsHold, dset, dvars, cart, Stale
  <2>8. OneSource'
    BY <1>0, <2>3, <2>4, <2>5, SMT DEF Typed, OneSource
  <2> QED BY <2>6, <2>7, <2>8
<1> QED BY <1>1, <1>2, <1>3

\* What a step of a dataset must leave so, when it leaves the sizes alone.
LEMMA DsetSteps ==
  ASSUME IInv, UNCHANGED oset, rerr => rerr', num_vars' \in Nat, num_dims' \in Nat,
         ArraysFit'
  PROVE  IInv'
BY SMT DEF IInv, Typed, OneSource, oset

\* A count is set while there is no array only.
LEMMA CountSteps ==
  ASSUME IInv, NEW j \in Counts, NumVars(j) \/ NumDims(j)
  PROVE  IInv'
<1>1. ~Refused(j) => UInt(j) \in Nat
  BY UIntNat, ParserAssumption DEF Refused
<1>2. UNCHANGED oset /\ (rerr => rerr')
  BY DEF NumVars, NumDims
<1>3. CASE NumVars(j)
  <2>1. num_vars' \in Nat /\ (num_vars # 0 => num_vars' = num_vars)
        /\ UNCHANGED <<var_types, cart>>
    BY <1>1, <1>3 DEF NumVars, IInv, Typed
  <2>2. ArraysFit'
    BY <2>1, SMT DEF IInv, ArraysFit, CountsHold, cart, Stale
  <2> QED BY <1>2, <2>1, <2>2, DsetSteps DEF IInv, Typed, cart
<1>4. CASE NumDims(j)
  <2>1. num_dims' \in Nat /\ (num_dims # 0 => num_dims' = num_dims)
        /\ UNCHANGED <<dvars, g_dim_sizes, g_dim_divs>>
    BY <1>1, <1>4 DEF NumDims, IInv, Typed
  <2>2. ArraysFit'
    BY <2>1, SMT DEF IInv, ArraysFit, CountsHold, dvars, Stale
  <2> QED BY <1>2, <2>1, <2>2, DsetSteps DEF IInv, Typed, dvars
<1> QED BY <1>3, <1>4

\* An array is read while there is no count, or has as many elements.
LEMMA VarTypesStep ==
  ASSUME IInv, NEW list \in NameLists, VarTypes(list)
  PROVE  IInv'
<1>1. UNCHANGED <<oset, cart>> /\ (rerr => rerr')
  BY DEF VarTypes
<1>2. CASE Ignored(list) \/ ~Fits(list, num_vars)
  BY <1>1, <1>2, DsetSteps, SMT
  DEF VarTypes, IInv, Typed, ArraysFit, CountsHold, cart, dvars, Stale
<1>3. CASE ~(Ignored(list) \/ ~Fits(list, num_vars))
  <2>1. list \in Seq(VarType \cup {Bad}) /\ list # <<>>
    BY <1>3, ParserAssumption DEF Ignored, Refused
  <2>2. DOMAIN Values(list) = 1 .. Len(list) /\ Len(list) \in Nat /\ Len(list) > 0
    BY <2>1, SMT DEF Values
  <2>3. Len(Values(list)) = Len(list)
    BY <2>2, SMT
  <2>4. num_vars' = Len(list) /\ var_types' = Values(list)
    BY <1>3 DEF VarTypes
  <2>5. ArraysFit'
    BY <1>1, <2>2, <2>3, <2>4, SMT DEF IInv, ArraysFit, CountsHold, cart
  <2> QED BY <1>1, <2>2, <2>4, <2>5, DsetSteps DEF IInv, Typed, cart
<1> QED BY <1>2, <1>3

LEMMA DimArraySteps ==
  ASSUME IInv, NEW list \in UIntLists, DimSizes(list) \/ DimDivs(list)
  PROVE  IInv'
<1>1. UNCHANGED <<oset, dvars>> /\ (rerr => rerr')
  BY DEF DimSizes, DimDivs, DimArray
<1>2. CASE Ignored(list) \/ ~Fits(list, num_dims)
  <2>1. UNCHANGED cart
    BY <1>2 DEF DimSizes, DimDivs, DimArray, cart
  <2> QED BY <1>1, <2>1, DsetSteps, SMT
          DEF IInv, Typed, ArraysFit, CountsHold, cart, dvars, Stale
<1>3. CASE ~Ignored(list) /\ Fits(list, num_dims)
  <2>1. list \in Seq(Nat \cup {Bad}) /\ list # <<>>
    BY <1>3, ParserAssumption DEF Ignored, Refused
  <2>2. Len(list) \in Nat /\ Len(list) > 0 /\ Len(UInts(list)) = Len(list)
    BY <2>1, UIntsLen, SMT
  <2>3. num_dims' = Len(list) /\ (num_dims = 0 \/ num_dims' = num_dims)
    BY <1>3, SMT DEF DimSizes, DimDivs, DimArray, Fits
  <2>4. g_dim_sizes' \in {g_dim_sizes, UInts(list)}
        /\ g_dim_divs' \in {g_dim_divs, UInts(list)}
    BY <1>3 DEF DimSizes, DimDivs
  <2>5. ArraysFit'
    BY <1>1, <2>2, <2>3, <2>4, SMT DEF IInv, ArraysFit, CountsHold, dvars, Stale
  <2> QED BY <1>1, <2>2, <2>3, <2>5, DsetSteps DEF IInv, Typed, dvars
<1> QED BY <1>2, <1>3

\* Every step keeps the invariant.
LEMMA NextInv == IInv /\ [Next]_vars => IInv'
<1> SUFFICES ASSUME IInv, [Next]_vars PROVE IInv'
  OBVIOUS
<1>1. CASE Workload \/ Offset \/ ObjectEnds \/ OtherMember \/ FileEnds \/ Validate \/ Dies
  <2>1. UNCHANGED <<oset, dset>> /\ (rerr => rerr')
    BY <1>1 DEF Workload, Offset, ObjectEnds, OtherMember, FileEnds, Validate, Dies
  <2> QED BY <2>1, OtherSteps
<1>2. ASSUME NEW list \in TestLists, TestType(list) PROVE IInv'
  BY <1>2, OtherSteps DEF TestType
<1>3. ASSUME NEW j \in TaskNums, NumTasks(j) PROVE IInv'
  BY <1>3, OtherSteps DEF NumTasks
<1>4. CASE Dataset
  <2>1. /\ UNCHANGED <<oset, rerr, num_vars, cart>>
        /\ var_types' \in {Stale, var_types}
    BY <1>4 DEF Dataset
  <2>2. ArraysFit'
    BY <2>1 DEF IInv, ArraysFit, CountsHold, cart, Stale
  <2> QED BY <2>1, <2>2, DsetSteps DEF IInv, Typed, cart
<1>5. CASE Cartesian
  <2>1. /\ UNCHANGED <<oset, rerr, dvars>>
        /\ num_dims' = 0 /\ g_dim_sizes' = NULL /\ g_dim_divs' = NULL
    BY <1>5 DEF Cartesian
  <2>2. ArraysFit'
    BY <2>1 DEF IInv, ArraysFit, CountsHold, dvars, Stale
  <2> QED BY <2>1, <2>2, DsetSteps DEF IInv, Typed, dvars
<1>6. ASSUME NEW list \in SizeLists,
             Sizes("data", "data_sizes", list) \/ Sizes("req", "req_sizes", list)
      PROVE  IInv'
  BY <1>6, SizesStep DEF Field
<1>7. ASSUME NEW j \in DistObjs,
             Distrib("data", "data_distrib", j) \/ Distrib("req", "req_distrib", j)
      PROVE  IInv'
  BY <1>7, DistribStep DEF Field
<1>8. ASSUME NEW j \in Counts, NumVars(j) \/ NumDims(j) PROVE IInv'
  BY <1>8, CountSteps
<1>9. ASSUME NEW list \in NameLists, VarTypes(list) PROVE IInv'
  BY <1>9, VarTypesStep
<1>10. ASSUME NEW list \in UIntLists, DimSizes(list) \/ DimDivs(list) PROVE IInv'
  BY <1>10, DimArraySteps
<1>11. CASE UNCHANGED vars
  BY <1>11, OtherSteps DEF vars
<1> QED BY <1>1, <1>2, <1>3, <1>4, <1>5, <1>6, <1>7, <1>8, <1>9, <1>10, <1>11 DEF Next

\* What the default workload leaves in place of the types is in a dataset only,
\* and never in one that is accepted.
StalePlaces ==
  /\ pc \in {"dset", "cart"} => wtype = "DATASET"
  /\ wtype = "OFFSET" => var_types = NULL
  /\ pc = "accepted" => var_types = NULL \/ var_types # Stale

LEMMA StaleRefused ==
  ASSUME IInv, num_vars # 0, var_types = Stale,
         \A i \in 1 .. num_vars : i \in DOMAIN var_types => var_types[i] \in VarType
  PROVE  FALSE
<1>1. num_vars \in Nat
  BY DEF IInv, Typed
<1>2. 1 \in 1 .. num_vars
  BY <1>1
<1>3. 1 \in DOMAIN Stale /\ Stale[1] = Undefined
  BY DEF Stale
<1> QED BY <1>2, <1>3, ParserAssumption

LEMMA StaleNext == IInv /\ StalePlaces /\ [Next]_vars => StalePlaces'
<1> SUFFICES ASSUME IInv, StalePlaces, [Next]_vars PROVE StalePlaces'
  OBVIOUS
<1>1. CASE Workload \/ Offset \/ ObjectEnds \/ OtherMember \/ FileEnds \/ Dies
  <2>1. /\ UNCHANGED <<wtype, var_types>> /\ pc' # "accepted"
        /\ pc' \in {"dset", "cart"} => pc \in {"dset", "cart"}
    BY <1>1 DEF Workload, Offset, ObjectEnds, OtherMember, FileEnds, Dies, dset, dvars
  <2> QED BY <2>1 DEF StalePlaces
<1>2. CASE Dataset \/ Cartesian
  <2>1. pc' # "accepted" /\ wtype' = "DATASET"
    BY <1>2 DEF Dataset, Cartesian, StalePlaces
  <2> QED BY <2>1 DEF StalePlaces
<1>3. CASE Validate
  <2>1. UNCHANGED <<wtype, var_types>> /\ pc' \notin {"dset", "cart"}
    BY <1>3 DEF Validate, dset, dvars
  <2>2. ASSUME pc' = "accepted", var_types = Stale, var_types # NULL PROVE FALSE
    <3>1. wtype # "OFFSET"
      BY <2>2 DEF StalePlaces
    <3>2. DsetValid(MinOf(num_tasks, NumProcs))
      BY <1>3, <2>2, <3>1 DEF Validate
    <3> QED BY <2>2, <3>2, StaleRefused DEF DsetValid
  <2> QED BY <2>1, <2>2 DEF StalePlaces
<1>4. ASSUME NEW list \in TestLists, TestType(list) PROVE StalePlaces'
  BY <1>4 DEF TestType, Reading, StalePlaces, dset, dvars
<1>5. ASSUME NEW j \in TaskNums, NumTasks(j) PROVE StalePlaces'
  BY <1>5 DEF NumTasks, Reading, StalePlaces, dset, dvars
<1>6. ASSUME NEW list \in SizeLists,
             Sizes("data", "data_sizes", list) \/ Sizes("req", "req_sizes", list)
      PROVE  StalePlaces'
  BY <1>6 DEF Sizes, Reading, StalePlaces, dset, dvars
<1>7. ASSUME NEW j \in DistObjs,
             Distrib("data", "data_distrib", j) \/ Distrib("req", "req_distrib", j)
      PROVE  StalePlaces'
  BY <1>7 DEF Distrib, Reading, StalePlaces, dset, dvars
<1>8. ASSUME NEW j \in Counts, NumVars(j) \/ NumDims(j) PROVE StalePlaces'
  BY <1>8 DEF NumVars, NumDims, Reading, StalePlaces, dvars
<1>9. ASSUME NEW list \in NameLists, VarTypes(list) PROVE StalePlaces'
  <2>1. pc = "dset" /\ pc' = "dset" /\ wtype' = wtype
    BY <1>9 DEF VarTypes, Reading
  <2> QED BY <2>1 DEF StalePlaces
<1>10. ASSUME NEW list \in UIntLists, DimSizes(list) \/ DimDivs(list)
       PROVE  StalePlaces'
  BY <1>10 DEF DimSizes, DimDivs, DimArray, Reading, StalePlaces, dvars
<1>11. CASE UNCHANGED vars
  BY <1>11 DEF vars, StalePlaces, dset, dvars
<1> QED BY <1>1, <1>2, <1>3, <1>4, <1>5, <1>6, <1>7, <1>8, <1>9, <1>10, <1>11 DEF Next

\* For every file the arrays of a dataset agree with their counts, but for the
\* types of variables a file does not have, and for these too once accepted.
THEOREM ArraysAlwaysAgree == Spec => []ArraysAgree
<1>1. IInv /\ StalePlaces => ArraysAgree
  BY DEF IInv, ArraysFit, StalePlaces, ArraysAgree, CountsHold
<1>2. Init => StalePlaces
  BY DEF Init, StalePlaces
<1> QED BY InitInv, NextInv, StaleNext, <1>1, <1>2, PTL DEF Spec

\* Sizes and distributions always exclude each other, for every file.
THEOREM OneSourceOnly == Spec => []OneSource
<1>1. IInv => OneSource
  BY DEF IInv
<1> QED BY InitInv, NextInv, <1>1, PTL DEF Spec

-------------------------------------------------------------------------------
(* What a plain file has led to.                                           *)

\* Members are given in their objects only.
Places ==
  /\ \A m \in {"data_sizes", "req_sizes", "data_distrib", "req_distrib"} :
       Given(m) => Given("offset")
  /\ \A m \in {"num_vars", "var_types", "cartesian"} : Given(m) => Given("dataset")
  /\ \A m \in {"num_dims", "dim_sizes", "dim_divs"} : Given(m) => Given("cartesian")
  /\ ~(Given("offset") /\ Given("dataset"))
  /\ pc = "oset" => Given("offset")
  /\ pc \in {"dset", "cart"} => Given("dataset")
  /\ pc = "cart" => Given("cartesian")

\* Nothing is refused where it is read: neither a value for itself, nor a count
\* or an array that does not agree with another.
Dist == [data |-> "data_distrib", req |-> "req_distrib"]
GivenArray(m) == Given(m) /\ given[m] # <<>>
SoundValues ==
  /\ \A m \in Member : given[m] \notin {Bad, Many}
  /\ \A m \in Lists : Given(m) => \A i \in DOMAIN given[m] : given[m][i] # Bad
  /\ \A f \in Field : Given(Dist[f]) => given[Dist[f]].params # Bad
CountAgrees(m, array) ==
  Given(m) /\ GivenArray(array) => given[m] = Len(given[array])
CountsAgree ==
  /\ CountAgrees("num_vars", "var_types")
  /\ CountAgrees("num_dims", "dim_sizes")
  /\ CountAgrees("num_dims", "dim_divs")
  /\ GivenArray("dim_sizes") /\ GivenArray("dim_divs") =>
       Len(given["dim_sizes"]) = Len(given["dim_divs"])
WellRead == SoundValues /\ CountsAgree

\* What the fields are, when nothing was refused.
CountSaid(n, m, arrays) ==
  /\ Given(m) => n = given[m]
  /\ \A a \in arrays : GivenArray(a) => n = Len(given[a])
  /\ n # 0 => Given(m) \/ \E a \in arrays : GivenArray(a)
VarsSaid ==
  /\ CountSaid(num_vars, "num_vars", {"var_types"})
  /\ IF GivenArray("var_types")
     THEN var_types = given["var_types"] /\ vars_size # 0
     ELSE var_types \in {NULL, Stale}
CartSaid ==
  /\ CountSaid(num_dims, "num_dims", {"dim_sizes", "dim_divs"})
  /\ Given("cartesian") => dtype = "CARTESIAN"
  /\ g_dim_sizes = IF GivenArray("dim_sizes") THEN given["dim_sizes"] ELSE NULL
  /\ g_dim_divs = IF GivenArray("dim_divs") THEN given["dim_divs"] ELSE NULL
FieldsSaid ==
  /\ num_tasks = IF Given("num_tasks") THEN given["num_tasks"] ELSE NumProcs
  /\ wtype = IF Given("dataset") THEN "DATASET" ELSE "OFFSET"
  /\ distrib = [f \in Field |-> given[Dist[f]]]
  /\ VarsSaid
  /\ CartSaid

\* Whether a file that is being read, or waits for its validation, has led to
\* what it says; and whether a plain file has, to its end.
ReadAsSaid ==
  /\ Places
  /\ rerr <=> ~WellRead
  /\ ~rerr => FieldsSaid
PlainInv ==
  Plain =>
    IF pc \in {"accepted", "refused"} THEN (pc = "accepted" <=> RestDescribed)
    ELSE pc # "died" => ReadAsSaid /\ (pc = "valid" => ~rerr)

\* The values of the members.
InputsOf(m) ==
  CASE m = "type" -> TestLists
    [] m = "num_tasks" -> TaskNums
    [] m \in {"data_sizes", "req_sizes"} -> SizeLists
    [] m \in {"data_distrib", "req_distrib"} -> DistObjs
    [] m \in {"num_vars", "num_dims"} -> Counts
    [] m = "var_types" -> NameLists
    [] m \in {"dim_sizes", "dim_divs"} -> UIntLists
    [] m \in {"offset", "dataset", "cartesian"} -> {"object"}
    [] m = "other" -> {Bad}
GivenTyped ==
  /\ DOMAIN given = Member
  /\ \A m \in Member : given[m] \in InputsOf(m) \cup {NULL}

\* The objects whose members are read.
Objects == {"test", "wkld", "oset", "dset", "cart"}
SaidInv == IInv /\ GivenTyped /\ PlainInv

-------------------------------------------------------------------------------
(* What a member adds to what was given.                                   *)

\* What is given is one of the inputs of its member, which is a value.
LEMMA InputsAre ==
  ASSUME NEW m \in Member, NEW j \in InputsOf(m)
  PROVE  /\ j # NULL
         /\ m \notin {"data_distrib", "req_distrib"} => j # Many
<1>1. CASE m \in {"num_tasks", "num_vars", "num_dims"}
  BY <1>1, ParserAssumption, SMT DEF InputsOf
<1>2. CASE m \in Lists
  <2>1. IsList(j)
    BY <1>2 DEF InputsOf, IsList, Lists
  <2> QED BY <2>1, ParserAssumption
<1>3. CASE m \in {"data_distrib", "req_distrib"}
  BY <1>3, ParserAssumption DEF InputsOf
<1>4. CASE m \in {"offset", "dataset", "cartesian", "other"}
  BY <1>4, ParserAssumption DEF InputsOf
<1> QED BY <1>1, <1>2, <1>3, <1>4 DEF Member, Lists

LEMMA RecordsTyped ==
  ASSUME GivenTyped, NEW m \in Member, NEW j \in InputsOf(m), Records(m, j)
  PROVE  /\ GivenTyped'
         /\ ~again' => /\ ~again /\ given[m] = NULL
                       /\ given' = [given EXCEPT ![m] = j]
<1>1. given' = [k \in Member |->
        CASE again' /\ k \notin {"offset", "dataset"} -> NULL
          [] k = m -> j
          [] OTHER -> given[k]]
  BY DEF Records
<1>2. \A k \in Member : given'[k] \in {NULL, given[k]} \/ (k = m /\ given'[k] = j)
  <2>1. TAKE k \in Member
  <2>2. CASE again' /\ k \notin {"offset", "dataset"}
    BY <1>1, <2>2
  <2>3. CASE ~(again' /\ k \notin {"offset", "dataset"})
    BY <1>1, <2>3
  <2> QED BY <2>2, <2>3
<1>3. GivenTyped'
  BY <1>1, <1>2 DEF GivenTyped
<1>4. ASSUME ~again'
      PROVE  ~again /\ given[m] = NULL /\ given' = [given EXCEPT ![m] = j]
  <2>1. ~again /\ given[m] = NULL
    BY <1>4, Zenon DEF Records
  <2>2. \A k \in Member : given'[k] = IF k = m THEN j ELSE given[k]
    BY <1>1, <1>4
  <2>3. DOMAIN given' = Member /\ given' = [k \in Member |-> given'[k]]
    BY <1>1
  <2>4. given' = [k \in Member |-> IF k = m THEN j ELSE given[k]]
    BY <2>2, <2>3
  <2> QED BY <2>1, <2>4 DEF GivenTyped
<1> QED BY <1>3, <1>4

\* What a plain file starts with is plain.
LEMMA PlainBefore ==
  ASSUME GivenTyped, NEW m \in Member, NEW j, j # NULL, Plain',
         ~again, given[m] = NULL, given' = [given EXCEPT ![m] = j]
  PROVE  Plain
<1>1. \A k \in Member : given[k] # NULL => given'[k] = given[k] /\ given'[k] # NULL
  BY DEF GivenTyped
<1>2. /\ ~(Given("data_sizes") /\ Given("data_distrib"))
      /\ ~(Given("req_sizes") /\ Given("req_distrib"))
  BY <1>1 DEF Plain, Given, Member
<1>3. \A k \in {"data_distrib", "req_distrib"} :
        given[k] \notin {NULL, Bad, Many} =>
          given[k].name # Undefined /\ given[k].params # "empty"
  BY <1>1 DEF Plain, Member
<1>4. InRange({given[k] : k \in {"num_tasks", "num_vars", "num_dims"}})
  <2>1. ASSUME NEW k \in {"num_tasks", "num_vars", "num_dims"}, given[k] \in Nat
        PROVE  given[k] \in 1 .. UIntMod - 1
    <3>1. given'[k] = given[k]
      BY <1>1, <2>1, ParserAssumption DEF Member
    <3>2. InRange({given[n] : n \in {"num_tasks", "num_vars", "num_dims"}})'
      BY DEF Plain
    <3> QED BY <2>1, <3>1, <3>2 DEF InRange
  <2> QED BY <2>1 DEF InRange
<1>5. \A k \in {"dim_sizes", "dim_divs"} : Given(k) => Uncut(given[k])
  <2>1. TAKE k \in {"dim_sizes", "dim_divs"}
  <2>2. (Given(k) => Uncut(given[k]))'
    BY DEF Plain
  <2> QED BY <1>1, <2>2 DEF Given, Member
<1>6. LET divs == given["dim_divs"] IN
        Given("dim_divs") /\ ~AnyRefused(divs) => UInt(Product(divs)) = Product(divs)
  <2>1. (Given("dim_divs") /\ ~AnyRefused(given["dim_divs"]) =>
           UInt(Product(given["dim_divs"])) = Product(given["dim_divs"]))'
    BY DEF Plain
  <2> QED BY <1>1, <2>1 DEF Given, Member
<1> QED BY <1>2, <1>3, <1>4, <1>5, <1>6 DEF Plain

\* Before a member of a plain file is read, all that came before is as it says.
LEMMA PlainStep ==
  ASSUME SaidInv, NEW m \in Member, NEW j \in InputsOf(m), Records(m, j),
         pc \in Objects, Plain'
  PROVE  /\ given[m] = NULL /\ given' = [given EXCEPT ![m] = j] /\ j # NULL
         /\ DOMAIN given = Member
         /\ ReadAsSaid
<1>1. ~again'
  BY DEF Plain
<1>2. ~again /\ given[m] = NULL /\ given' = [given EXCEPT ![m] = j]
  BY <1>1, RecordsTyped DEF SaidInv
<1>3. j # NULL
  BY InputsAre
<1>4. Plain
  BY <1>2, <1>3, PlainBefore DEF SaidInv
<1> QED BY <1>2, <1>3, <1>4 DEF SaidInv, PlainInv, Objects, GivenTyped

\* Values are sound as long as what is added to them is.
SoundValue(m, j) ==
  /\ j \notin {Bad, Many}
  /\ m \in Lists => \A i \in DOMAIN j : j[i] # Bad
  /\ m \in {"data_distrib", "req_distrib"} => j.params # Bad
LEMMA SoundStep ==
  ASSUME DOMAIN given = Member, NEW m \in Member, NEW j, j # NULL,
         given[m] = NULL, given' = [given EXCEPT ![m] = j]
  PROVE  SoundValues' <=> SoundValues /\ SoundValue(m, j)
<1>1. SoundValues <=>
        \A k \in Member : given[k] # NULL => SoundValue(k, given[k])
  BY ParserAssumption DEF SoundValues, SoundValue, Given, Field, Dist, Lists, Member
<1>2. SoundValues' <=>
        \A k \in Member : given'[k] # NULL => SoundValue(k, given'[k])
  BY ParserAssumption DEF SoundValues, SoundValue, Given, Field, Dist, Lists, Member
<1>3. \A k \in Member : given'[k] = IF k = m THEN j ELSE given[k]
  OBVIOUS
<1> QED BY <1>1, <1>2, <1>3

\* A member that is no count and no array leaves what they agree on alone.
Counting == {"num_vars", "var_types", "num_dims", "dim_sizes", "dim_divs"}
LEMMA CountsStay ==
  ASSUME \A k \in Counting : given'[k] = given[k]
  PROVE  CountsAgree' <=> CountsAgree
BY DEF CountsAgree, CountAgrees, GivenArray, Given, Counting
LEMMA VarsStay ==
  ASSUME VarsSaid, given'["num_vars"] = given["num_vars"],
         given'["var_types"] = given["var_types"], UNCHANGED dvars
  PROVE  VarsSaid'
BY DEF VarsSaid, CountSaid, GivenArray, Given, dvars, Stale
LEMMA CartStays ==
  ASSUME CartSaid, UNCHANGED <<dtype, cart>>,
         \A k \in {"num_dims", "dim_sizes", "dim_divs", "cartesian"} :
           given'[k] = given[k]
  PROVE  CartSaid'
BY DEF CartSaid, CountSaid, GivenArray, Given, cart

\* The counts of a plain file are not cut.
LEMMA CountUncut ==
  ASSUME Plain', NEW m \in {"num_tasks", "num_vars", "num_dims"},
         NEW j, given'[m] = j, j \in TaskNums \cup Counts, j # Bad
  PROVE  UInt(j) = j /\ j \in Nat /\ j # 0
<1>1. InRange({given[n] : n \in {"num_tasks", "num_vars", "num_dims"}})'
  BY DEF Plain
<1>2. j \in Nat
  BY ParserAssumption
<1>3. j \in 1 .. UIntMod - 1
  BY <1>1, <1>2 DEF InRange
<1> QED BY <1>3, ParserAssumption, SMT DEF UInt

\* A file is refused for a member for its own value only, unless it counts.
LEMMA ReadStep ==
  ASSUME ReadAsSaid, DOMAIN given = Member, NEW m \in Member \ Counting, NEW j, j # NULL,
         given[m] = NULL, given' = [given EXCEPT ![m] = j],
         rerr' <=> (rerr \/ ~SoundValue(m, j))
  PROVE  rerr' <=> ~WellRead'
<1>1. CountsAgree' <=> CountsAgree
  <2>1. \A k \in Counting : given'[k] = given[k]
    OBVIOUS
  <2> QED BY <2>1, CountsStay
<1>2. SoundValues' <=> SoundValues /\ SoundValue(m, j)
  BY SoundStep
<1> QED BY <1>1, <1>2 DEF ReadAsSaid, WellRead

-------------------------------------------------------------------------------
(* The members, one by one.                                                *)

LEMMA TestTypeSaid ==
  ASSUME SaidInv, NEW list \in TestLists, TestType(list), Plain'
  PROVE  ReadAsSaid'
<1>1. /\ pc = "test" /\ pc' = "test" /\ Records("type", list)
      /\ UNCHANGED <<num_tasks, wtype, oset, dset>>
      /\ rerr' = (rerr \/ AnyRefused(list))
  BY DEF TestType, Reading
<1>2. "type" \in Member /\ list \in InputsOf("type") /\ "type" \in Lists
  BY DEF Member, InputsOf, Lists
<1>3. /\ given["type"] = NULL /\ given' = [given EXCEPT !["type"] = list]
      /\ list # NULL /\ DOMAIN given = Member /\ ReadAsSaid
  BY <1>1, <1>2, PlainStep DEF Objects
<1>4. Places'
  BY <1>1, <1>3 DEF ReadAsSaid, Places, Given
<1>5. rerr' <=> ~WellRead'
  <2>1. SoundValue("type", list) <=> ~AnyRefused(list)
    BY <1>2, InputsAre DEF SoundValue, AnyRefused, Refused
  <2>2. "type" \in Member \ Counting
    BY DEF Member, Counting
  <2> QED BY <1>1, <1>3, <2>1, <2>2, ReadStep
<1>6. ~rerr' => FieldsSaid'
  <2>1. ASSUME ~rerr' PROVE FieldsSaid'
    <3>1. ~rerr /\ FieldsSaid
      BY <1>1, <1>3, <2>1 DEF ReadAsSaid
    <3>2. VarsSaid' /\ CartSaid'
      BY <1>1, <1>3, <3>1, VarsStay, CartStays DEF FieldsSaid, dset, Member
    <3> QED BY <1>1, <1>3, <3>1, <3>2
            DEF FieldsSaid, Given, Member, Dist, Field, oset
  <2> QED BY <2>1
<1> QED BY <1>4, <1>5, <1>6 DEF ReadAsSaid

LEMMA NumTasksSaid ==
  ASSUME SaidInv, NEW j \in TaskNums, NumTasks(j), Plain'
  PROVE  ReadAsSaid'
<1>1. /\ pc = "wkld" /\ pc' = "wkld" /\ Records("num_tasks", j)
      /\ num_tasks' = (IF Refused(j) THEN num_tasks ELSE UInt(j))
      /\ UNCHANGED <<type, wtype, oset, dset>>
      /\ rerr' = (rerr \/ Refused(j))
  BY DEF NumTasks, Reading
<1>2. "num_tasks" \in Member /\ j \in InputsOf("num_tasks") /\ "num_tasks" \notin Lists
  BY DEF Member, InputsOf, Lists
<1>3. /\ given["num_tasks"] = NULL /\ given' = [given EXCEPT !["num_tasks"] = j]
      /\ j # NULL /\ DOMAIN given = Member /\ ReadAsSaid
  BY <1>1, <1>2, PlainStep DEF Objects
<1>4. Places'
  BY <1>1, <1>3 DEF ReadAsSaid, Places, Given
<1>5. rerr' <=> ~WellRead'
  <2>1. SoundValue("num_tasks", j) <=> ~Refused(j)
    BY <1>2, InputsAre DEF SoundValue, Refused
  <2>2. "num_tasks" \in Member \ Counting
    BY DEF Member, Counting
  <2> QED BY <1>1, <1>3, <2>1, <2>2, ReadStep
<1>6. ~rerr' => FieldsSaid'
  <2>1. ASSUME ~rerr' PROVE FieldsSaid'
    <3>1. ~rerr /\ FieldsSaid /\ ~Refused(j)
      BY <1>1, <1>3, <2>1 DEF ReadAsSaid
    <3>2. VarsSaid' /\ CartSaid'
      BY <1>1, <1>3, <3>1, VarsStay, CartStays DEF FieldsSaid, dset, Member
    <3>3. num_tasks' = j
      <4>1. given'["num_tasks"] = j
        BY <1>2, <1>3
      <4>2. UInt(j) = j
        BY <3>1, <4>1, CountUncut DEF Refused
      <4> QED BY <1>1, <3>1, <4>2
    <3> QED BY <1>1, <1>3, <3>1, <3>2, <3>3
            DEF FieldsSaid, Given, Member, Dist, Field, oset
  <2> QED BY <2>1
<1> QED BY <1>4, <1>5, <1>6 DEF ReadAsSaid

LEMMA OtherSaid ==
  ASSUME SaidInv, OtherMember, Plain'
  PROVE  ReadAsSaid'
<1>1. pc \in Objects /\ pc' = pc /\ Records("other", Bad) /\ rerr'
  BY DEF OtherMember, Objects
<1>2. "other" \in Member \ Counting /\ Bad \in InputsOf("other")
  BY DEF Member, InputsOf, Counting
<1>3. /\ given["other"] = NULL /\ given' = [given EXCEPT !["other"] = Bad]
      /\ Bad # NULL /\ DOMAIN given = Member /\ ReadAsSaid
  BY <1>1, <1>2, PlainStep
<1>4. Places'
  BY <1>1, <1>3 DEF ReadAsSaid, Places, Given
<1>5. rerr' <=> ~WellRead'
  BY <1>1, <1>2, <1>3, ReadStep DEF SoundValue
<1> QED BY <1>1, <1>4, <1>5 DEF ReadAsSaid

\* An object begins or ends, and nothing is given.
LEMMA ObjectSaid ==
  ASSUME SaidInv, Workload \/ ObjectEnds, Plain'
  PROVE  ReadAsSaid'
<1>1. /\ pc \in Objects
      /\ UNCHANGED <<rerr, type, num_tasks, wtype, oset, dset, given, again>>
      /\ pc' \notin {"oset", "cart"}
      /\ pc' = "dset" => pc = "cart"
  BY DEF Workload, ObjectEnds, Objects
<1>2. Plain
  BY <1>1 DEF Plain, Given
<1>3. ReadAsSaid
  BY <1>1, <1>2 DEF SaidInv, PlainInv, Objects
<1>4. Places'
  BY <1>1, <1>3 DEF ReadAsSaid, Places, Given
<1>5. rerr' <=> ~WellRead'
  <2>1. (SoundValues' <=> SoundValues) /\ (CountsAgree' <=> CountsAgree)
    BY <1>1 DEF SoundValues, CountsAgree, CountAgrees, GivenArray, Given
  <2> QED BY <1>1, <1>3, <2>1 DEF ReadAsSaid, WellRead
<1>6. ASSUME ~rerr' PROVE FieldsSaid'
  <2>1. FieldsSaid
    BY <1>1, <1>3, <1>6 DEF ReadAsSaid
  <2>2. VarsSaid' /\ CartSaid'
    BY <1>1, <2>1, VarsStay, CartStays DEF FieldsSaid, dset
  <2> QED BY <1>1, <2>1, <2>2 DEF FieldsSaid, Given, oset
<1> QED BY <1>4, <1>5, <1>6 DEF ReadAsSaid

LEMMA OffsetSaid ==
  ASSUME SaidInv, Offset, Plain'
  PROVE  ReadAsSaid'
<1>1. /\ pc = "wkld" /\ given["dataset"] = NULL /\ pc' = "oset"
      /\ Records("offset", "object")
      /\ UNCHANGED <<rerr, type, num_tasks, wtype, oset, dset>>
  BY DEF Offset
<1>2. /\ "offset" \in Member \ Counting /\ "object" \in InputsOf("offset")
      /\ SoundValue("offset", "object")
  BY ParserAssumption DEF Member, InputsOf, Counting, SoundValue, Lists
<1>3. /\ given["offset"] = NULL /\ given' = [given EXCEPT !["offset"] = "object"]
      /\ "object" # NULL /\ DOMAIN given = Member /\ ReadAsSaid
  BY <1>1, <1>2, PlainStep DEF Objects
<1>4. Places'
  BY <1>1, <1>3 DEF ReadAsSaid, Places, Given, Member
<1>5. rerr' <=> ~WellRead'
  BY <1>1, <1>2, <1>3, ReadStep
<1>6. ASSUME ~rerr' PROVE FieldsSaid'
  <2>1. FieldsSaid
    BY <1>1, <1>3, <1>6 DEF ReadAsSaid
  <2>2. VarsSaid' /\ CartSaid'
    BY <1>1, <1>3, <2>1, VarsStay, CartStays DEF FieldsSaid, dset, Member
  <2> QED BY <1>1, <1>3, <2>1, <2>2 DEF FieldsSaid, Given, Member, Dist, Field, oset
<1> QED BY <1>4, <1>5, <1>6 DEF ReadAsSaid

\* The union holds what an offset workload left, but nothing of a dataset yet.
LEMMA DatasetSaid ==
  ASSUME SaidInv, Dataset, Plain'
  PROVE  ReadAsSaid'
<1>1. /\ pc = "wkld" /\ given["offset"] = NULL /\ pc' = "dset"
      /\ Records("dataset", "object") /\ wtype' = "DATASET"
      /\ var_types' \in {var_types, Stale}
      /\ UNCHANGED <<rerr, type, num_tasks, oset, num_vars, vars_size, dtype, cart>>
  BY DEF Dataset
<1>2. /\ "dataset" \in Member \ Counting /\ "object" \in InputsOf("dataset")
      /\ SoundValue("dataset", "object")
  BY ParserAssumption DEF Member, InputsOf, Counting, SoundValue, Lists
<1>3. /\ given["dataset"] = NULL /\ given' = [given EXCEPT !["dataset"] = "object"]
      /\ "object" # NULL /\ DOMAIN given = Member /\ ReadAsSaid
  BY <1>1, <1>2, PlainStep DEF Objects
<1>4. Places'
  BY <1>1, <1>3 DEF ReadAsSaid, Places, Given, Member
<1>5. rerr' <=> ~WellRead'
  BY <1>1, <1>2, <1>3, ReadStep
<1>6. ASSUME ~rerr' PROVE FieldsSaid'
  <2>1. FieldsSaid
    BY <1>1, <1>3, <1>6 DEF ReadAsSaid
  <2>2. given["num_vars"] = NULL /\ given["var_types"] = NULL
    BY <1>3 DEF ReadAsSaid, Places, Given
  <2>3. VarsSaid'
    <3>1. given'["num_vars"] = NULL /\ given'["var_types"] = NULL
      BY <1>3, <2>2 DEF Member
    <3>2. VarsSaid
      BY <2>1 DEF FieldsSaid
    <3> QED BY <1>1, <2>2, <3>1, <3>2 DEF VarsSaid, CountSaid, GivenArray, Given, Stale
  <2>4. CartSaid'
    BY <1>1, <1>3, <2>1, CartStays DEF FieldsSaid, Member
  <2> QED BY <1>1, <1>3, <2>1, <2>3, <2>4 DEF FieldsSaid, Given, Member, Dist, Field, oset
<1> QED BY <1>4, <1>5, <1>6 DEF ReadAsSaid

LEMMA CartesianSaid ==
  ASSUME SaidInv, Cartesian, Plain'
  PROVE  ReadAsSaid'
<1>1. /\ pc = "dset" /\ pc' = "cart"
      /\ Records("cartesian", "object") /\ dtype' = "CARTESIAN"
      /\ num_dims' = 0 /\ g_dim_sizes' = NULL /\ g_dim_divs' = NULL
      /\ UNCHANGED <<rerr, type, num_tasks, wtype, oset, dvars>>
  BY DEF Cartesian
<1>2. /\ "cartesian" \in Member \ Counting /\ "object" \in InputsOf("cartesian")
      /\ SoundValue("cartesian", "object")
  BY ParserAssumption DEF Member, InputsOf, Counting, SoundValue, Lists
<1>3. /\ given["cartesian"] = NULL /\ given' = [given EXCEPT !["cartesian"] = "object"]
      /\ "object" # NULL /\ DOMAIN given = Member /\ ReadAsSaid
  BY <1>1, <1>2, PlainStep DEF Objects
<1>4. Places'
  BY <1>1, <1>3 DEF ReadAsSaid, Places, Given, Member
<1>5. rerr' <=> ~WellRead'
  BY <1>1, <1>2, <1>3, ReadStep
<1>6. ASSUME ~rerr' PROVE FieldsSaid'
  <2>1. FieldsSaid
    BY <1>1, <1>3, <1>6 DEF ReadAsSaid
  <2>2. VarsSaid'
    BY <1>1, <1>3, <2>1, VarsStay DEF FieldsSaid, Member
  <2>3. CartSaid'
    <3>1. \A k \in {"num_dims", "dim_sizes", "dim_divs"} : given'[k] = NULL
      BY <1>3 DEF ReadAsSaid, Places, Given, Member
    <3> QED BY <1>1, <3>1 DEF CartSaid, CountSaid, GivenArray, Given
  <2> QED BY <1>1, <1>3, <2>1, <2>2, <2>3 DEF FieldsSaid, Given, Member, Dist, Field, oset
<1> QED BY <1>4, <1>5, <1>6 DEF ReadAsSaid

\* Sizes are read where there is no distribution.
LEMMA SizesSaid ==
  ASSUME SaidInv, NEW f \in Field, NEW m \in {"data_sizes", "req_sizes"},
         f = "data" <=> m = "data_sizes",
         NEW list \in SizeLists, Sizes(f, m, list), Plain'
  PROVE  ReadAsSaid'
<1>1. /\ pc = "oset" /\ pc' = "oset" /\ Records(m, list)
      /\ rerr' = (rerr \/ AnyRefused(list))
      /\ distrib' \in {distrib, [distrib EXCEPT ![f] = NULL]}
      /\ UNCHANGED <<type, num_tasks, wtype, dset>>
  BY DEF Sizes, Reading, oset
<1>2. m \in Member \ Counting /\ list \in InputsOf(m) /\ m \in Lists
  BY DEF Member, InputsOf, Lists, Counting
<1>3. /\ given[m] = NULL /\ given' = [given EXCEPT ![m] = list]
      /\ list # NULL /\ DOMAIN given = Member /\ ReadAsSaid
  BY <1>1, <1>2, PlainStep DEF Objects
<1>4. Places'
  BY <1>1, <1>3 DEF ReadAsSaid, Places, Given
<1>5. rerr' <=> ~WellRead'
  <2>1. SoundValue(m, list) <=> ~AnyRefused(list)
    BY <1>2, InputsAre DEF SoundValue, AnyRefused, Refused
  <2> QED BY <1>1, <1>2, <1>3, <2>1, ReadStep
<1>6. ASSUME ~rerr' PROVE FieldsSaid'
  <2>1. FieldsSaid
    BY <1>1, <1>3, <1>6 DEF ReadAsSaid
  <2>2. VarsSaid' /\ CartSaid'
    BY <1>1, <1>3, <2>1, VarsStay, CartStays DEF FieldsSaid, dset, Member
  <2>3. given'[Dist[f]] = NULL
    BY <1>2, <1>3 DEF Plain, Given, Dist, Field
  <2>4. \A g \in Field : given'[Dist[g]] = given[Dist[g]]
    BY <1>3 DEF Dist, Field, Member
  <2>5. distrib = [g \in Field |-> given[Dist[g]]]
    BY <2>1 DEF FieldsSaid
  <2>6. distrib' = distrib
    BY <1>1, <2>3, <2>4, <2>5
  <2>7. distrib' = [g \in Field |-> given'[Dist[g]]]
    BY <2>4, <2>5, <2>6
  <2> QED BY <1>1, <1>3, <2>1, <2>2, <2>7 DEF FieldsSaid, Given, Member, Dist
<1> QED BY <1>4, <1>5, <1>6 DEF ReadAsSaid

\* A distribution is read as it is given, for its name is known.
LEMMA DistribSaid ==
  ASSUME SaidInv, NEW f \in Field, NEW m, m = Dist[f],
         NEW j \in DistObjs, Distrib(f, m, j), Plain'
  PROVE  ReadAsSaid'
<1>1. /\ pc = "oset" /\ pc' = "oset" /\ Records(m, j)
      /\ rerr' = (rerr \/ j \in {Bad, Many} \/ Refused(j.params))
      /\ UNCHANGED <<type, num_tasks, wtype, dset>>
  BY DEF Distrib, Reading
<1>2. /\ m \in {"data_distrib", "req_distrib"}
      /\ m \in Member \ Counting /\ j \in InputsOf(m) /\ m \notin Lists
  BY DEF Member, InputsOf, Lists, Counting, Dist, Field
<1>3. /\ given[m] = NULL /\ given' = [given EXCEPT ![m] = j]
      /\ j # NULL /\ DOMAIN given = Member /\ ReadAsSaid
  BY <1>1, <1>2, PlainStep DEF Objects
<1>4. Places'
  BY <1>1, <1>2, <1>3 DEF ReadAsSaid, Places, Given
<1>5. rerr' <=> ~WellRead'
  <2>1. SoundValue(m, j) <=> ~(j \in {Bad, Many} \/ Refused(j.params))
    BY <1>2 DEF SoundValue, Refused
  <2> QED BY <1>1, <1>2, <1>3, <2>1, ReadStep
<1>6. ASSUME ~rerr' PROVE FieldsSaid'
  <2>1. FieldsSaid
    BY <1>1, <1>3, <1>6 DEF ReadAsSaid
  <2>2. VarsSaid' /\ CartSaid'
    BY <1>1, <1>2, <1>3, <2>1, VarsStay, CartStays DEF FieldsSaid, dset, Member
  <2>3. distrib = [g \in Field |-> given[Dist[g]]]
    BY <2>1 DEF FieldsSaid
  <2>4. j \in DistObj /\ j \notin {Bad, Many}
    BY <1>1, <1>6, ParserAssumption
  <2>5. distrib' = [distrib EXCEPT ![f] = j]
    <3>1. j.name # Undefined
      <4>1. given'[m] = j
        BY <1>2, <1>3
      <4> QED BY <1>2, <1>3, <2>4, <4>1 DEF Plain
    <3>2. PICK n \in TypesOf(j) :
            distrib' = [distrib EXCEPT ![f] = [name |-> n, params |-> j.params]]
      BY <2>4 DEF Distrib
    <3>3. n = j.name
      BY <3>1, <3>2 DEF TypesOf
    <3>4. j = [name |-> j.name, params |-> j.params]
      BY <2>4 DEF DistObj
    <3> QED BY <3>2, <3>3, <3>4
  <2>6. \A g \in Field : given'[Dist[g]] = IF g = f THEN j ELSE given[Dist[g]]
    BY <1>2, <1>3 DEF Dist, Field, Member
  <2>7. distrib' = [g \in Field |-> given'[Dist[g]]]
    BY <2>3, <2>5, <2>6
  <2> QED BY <1>1, <1>2, <1>3, <2>1, <2>2, <2>7 DEF FieldsSaid, Given, Member
<1> QED BY <1>4, <1>5, <1>6 DEF ReadAsSaid

-------------------------------------------------------------------------------
(* Counts and arrays.                                                      *)

\* What was refused stays refused.
LEMMA RefusedStays ==
  ASSUME DOMAIN given = Member, NEW m \in Member, NEW j, j # NULL,
         given[m] = NULL, given' = [given EXCEPT ![m] = j]
  PROVE  WellRead' => WellRead /\ SoundValue(m, j)
<1>1. SoundValues' <=> SoundValues /\ SoundValue(m, j)
  BY SoundStep
<1>2. \A k \in Counting : given'[k] = given[k] \/ given[k] = NULL
  BY DEF Counting, Member
<1>3. CountsAgree' => CountsAgree
  <2>1. \A k \in Counting : given[k] # NULL => given'[k] = given[k] /\ given'[k] # NULL
    BY <1>2
  <2> QED BY <2>1 DEF CountsAgree, CountAgrees, GivenArray, Given, Counting
<1> QED BY <1>1, <1>3 DEF WellRead

\* A sound list has its values.
LEMMA SoundList ==
  ASSUME NEW S, NEW list \in Seq(S \cup {Bad}), ~AnyRefused(list)
  PROVE  Values(list) = list
BY DEF AnyRefused, Values, Refused

LEMMA NumVarsSaid ==
  ASSUME SaidInv, NEW j \in Counts, NumVars(j), Plain'
  PROVE  ReadAsSaid'
<1>1. /\ pc = "dset" /\ pc' = "dset" /\ Records("num_vars", j)
      /\ num_vars' = (IF ~Refused(j) /\ num_vars = 0 THEN UInt(j) ELSE num_vars)
      /\ rerr' = (rerr \/ Refused(j) \/ (num_vars # 0 /\ UInt(j) # num_vars))
      /\ UNCHANGED <<type, num_tasks, wtype, oset, var_types, vars_size, dtype, cart>>
  BY DEF NumVars, Reading
<1>2. "num_vars" \in Member /\ j \in InputsOf("num_vars") /\ "num_vars" \notin Lists
  BY DEF Member, InputsOf, Lists
<1>3. /\ given["num_vars"] = NULL /\ given' = [given EXCEPT !["num_vars"] = j]
      /\ j # NULL /\ DOMAIN given = Member /\ ReadAsSaid
  BY <1>1, <1>2, PlainStep DEF Objects
<1>4. Places'
  BY <1>1, <1>3 DEF ReadAsSaid, Places, Given
<1>5. SoundValue("num_vars", j) <=> ~Refused(j)
  BY <1>2, InputsAre DEF SoundValue, Refused
<1>6. SoundValues' <=> SoundValues /\ SoundValue("num_vars", j)
  BY <1>2, <1>3, SoundStep
<1>7. CASE rerr \/ Refused(j)
  <2>1. rerr'
    BY <1>1, <1>7
  <2>2. ~WellRead'
    BY <1>2, <1>3, <1>5, <1>7, RefusedStays DEF ReadAsSaid
  <2> QED BY <1>4, <2>1, <2>2 DEF ReadAsSaid
<1>8. CASE ~rerr /\ ~Refused(j)
  <2>1. FieldsSaid /\ WellRead
    BY <1>3, <1>8 DEF ReadAsSaid
  <2>2. VarsSaid
    BY <2>1 DEF FieldsSaid
  <2>3. UInt(j) = j /\ j # 0
    <3>1. given'["num_vars"] = j
      BY <1>2, <1>3
    <3> QED BY <1>8, <3>1, CountUncut DEF Refused
  <2>4. /\ given'["num_vars"] = j
        /\ \A k \in Member \ {"num_vars"} : given'[k] = given[k]
    BY <1>2, <1>3
  <2>5. GivenArray("var_types")' <=> GivenArray("var_types")
    BY <2>4 DEF GivenArray, Given, Member
  <2>6. GivenArray("var_types") => num_vars = Len(given["var_types"]) /\ num_vars # 0
    <3>1. ASSUME GivenArray("var_types") PROVE Len(given["var_types"]) # 0
      <4>1. given["var_types"] \in NameLists /\ given["var_types"] # Bad
        BY <2>1, <3>1 DEF SaidInv, GivenTyped, InputsOf, Member, GivenArray, Given,
                          WellRead, SoundValues
      <4>2. given["var_types"] \in Seq(VarType \cup {Bad})
        BY <4>1, ParserAssumption
      <4> QED BY <3>1, <4>2 DEF GivenArray
    <3> QED BY <2>2, <3>1 DEF VarsSaid, CountSaid
  <2>7. num_vars # 0 => GivenArray("var_types")
    BY <1>3, <2>2 DEF VarsSaid, CountSaid, Given
  <2>8. CountsAgree' <=> (num_vars # 0 => j = num_vars)
    <3>1. CountsAgree' <=> CountAgrees("num_vars", "var_types")' /\ CountsAgree
      BY <1>3, <2>4 DEF CountsAgree, CountAgrees, GivenArray, Given, Member
    <3>2. CountAgrees("num_vars", "var_types")' <=>
            (GivenArray("var_types") => j = Len(given["var_types"]))
      BY <1>3, <2>4, <2>5 DEF CountAgrees, Given, Member
    <3> QED BY <2>1, <2>6, <2>7, <3>1, <3>2 DEF WellRead
  <2>9. rerr' <=> ~WellRead'
    BY <1>1, <1>5, <1>6, <1>8, <2>1, <2>3, <2>8 DEF WellRead
  <2>10. ASSUME ~rerr' PROVE FieldsSaid'
    <3>1. num_vars' = j
      BY <1>1, <1>8, <2>3, <2>10
    <3>2. VarsSaid'
      <4>1. GivenArray("var_types") => j = Len(given["var_types"])
        BY <1>1, <2>3, <2>6, <2>10
      <4> QED BY <1>1, <1>3, <2>2, <2>4, <2>5, <3>1, <4>1
              DEF VarsSaid, CountSaid, Given, Member, Stale
    <3>3. CartSaid'
      BY <1>1, <2>1, <2>4, CartStays DEF FieldsSaid, Member
    <3> QED BY <1>1, <2>1, <2>4, <3>2, <3>3
            DEF FieldsSaid, Given, Member, Dist, Field, oset
  <2> QED BY <1>4, <2>9, <2>10 DEF ReadAsSaid
<1> QED BY <1>7, <1>8

\* Variables have sizes, and so have all together.
LEMMA VarsHaveSize ==
  ASSUME NEW list \in Seq(VarType), list # <<>>
  PROVE  VarsSize(list) # 0
<1> DEFINE f == [i \in DOMAIN list |->
                   IF \E k \in 1 .. i : Refused(list[k]) THEN 0 ELSE VarSize[list[i]]]
<1>1. DOMAIN list = 1 .. Len(list) /\ Len(list) \in Nat /\ Len(list) # 0
  OBVIOUS
<1>2. \A k \in DOMAIN list : ~Refused(list[k]) /\ list[k] \in VarType
  BY ParserAssumption DEF Refused
<1>3. \A t \in VarType : VarSize[t] \in Nat \ {0}
  BY SMT DEF VarType, VarSize
<1>4. ASSUME NEW i \in DOMAIN list PROVE f[i] \in Nat \ {0}
  <2>1. ~\E k \in 1 .. i : Refused(list[k])
    BY <1>1, <1>2
  <2> QED BY <1>2, <1>3, <2>1
<1>5. DOMAIN f = 1 .. Len(list)
  BY <1>1
<1>6. IsFiniteSet(DOMAIN f) /\ DOMAIN f # {}
  <2>1. IsFiniteSet(1 .. Len(list))
    BY <1>1, FS_Interval
  <2>2. 1 \in 1 .. Len(list)
    BY <1>1
  <2> QED BY <1>5, <2>1, <2>2
<1>7. \A i \in DOMAIN f : f[i] \in Nat \ {0}
  BY <1>1, <1>4, <1>5
<1>8. VarsSize(list) = SumFunctionOnSet(f, DOMAIN f)
  BY DEF VarsSize, SumFunction
<1> HIDE DEF f
<1> QED BY <1>6, <1>7, <1>8, SumsPositive

LEMMA VarTypesSaid ==
  ASSUME SaidInv, NEW list \in NameLists, VarTypes(list), Plain'
  PROVE  ReadAsSaid'
<1>1. /\ pc = "dset" /\ pc' = "dset" /\ Records("var_types", list)
      /\ rerr' = (rerr \/ AnyRefused(list)
                       \/ (~Ignored(list) /\ ~Fits(list, num_vars)))
      /\ UNCHANGED <<type, num_tasks, wtype, oset, dtype, cart>>
  BY DEF VarTypes, Reading
<1>2. "var_types" \in Member /\ list \in InputsOf("var_types") /\ "var_types" \in Lists
  BY DEF Member, InputsOf, Lists
<1>3. /\ given["var_types"] = NULL /\ given' = [given EXCEPT !["var_types"] = list]
      /\ list # NULL /\ DOMAIN given = Member /\ ReadAsSaid
  BY <1>1, <1>2, PlainStep DEF Objects
<1>4. Places'
  BY <1>1, <1>3 DEF ReadAsSaid, Places, Given
<1>5. SoundValue("var_types", list) <=> ~AnyRefused(list)
  BY <1>2, InputsAre DEF SoundValue, AnyRefused, Refused
<1>6. SoundValues' <=> SoundValues /\ SoundValue("var_types", list)
  BY <1>2, <1>3, SoundStep
<1>7. CASE rerr \/ AnyRefused(list)
  <2>1. rerr'
    BY <1>1, <1>7
  <2>2. ~WellRead'
    BY <1>2, <1>3, <1>5, <1>7, RefusedStays DEF ReadAsSaid
  <2> QED BY <1>4, <2>1, <2>2 DEF ReadAsSaid
<1>8. CASE ~rerr /\ ~AnyRefused(list)
  <2>1. FieldsSaid /\ WellRead /\ VarsSaid
    BY <1>3, <1>8 DEF ReadAsSaid, FieldsSaid
  <2>2. list \in Seq(VarType \cup {Bad}) /\ list # Bad
    BY <1>8, ParserAssumption DEF AnyRefused, Refused
  <2>3. Values(list) = list /\ list \in Seq(VarType)
    <3>1. Values(list) = list
      BY <1>8, <2>2, SoundList
    <3>2. \A i \in 1 .. Len(list) : list[i] \in VarType
      BY <1>8, <2>2 DEF AnyRefused, Refused
    <3> QED BY <2>2, <3>1, <3>2
  <2>4. /\ given'["var_types"] = list
        /\ \A k \in Member \ {"var_types"} : given'[k] = given[k]
    BY <1>2, <1>3
  <2>5. GivenArray("var_types")' <=> list # <<>>
    BY <1>3, <2>4 DEF GivenArray, Given
  <2>6. /\ Given("num_vars") => num_vars = given["num_vars"] /\ num_vars # 0
        /\ num_vars # 0 => Given("num_vars")
    <3>1. ASSUME Given("num_vars") PROVE given["num_vars"] # 0
      <4>1. given["num_vars"] \in Counts /\ given["num_vars"] # Bad
        BY <2>1, <3>1 DEF SaidInv, GivenTyped, InputsOf, Member, Given,
                          WellRead, SoundValues
      <4>2. given'["num_vars"] = given["num_vars"]
        BY <2>4 DEF Member
      <4> QED BY <4>1, <4>2, CountUncut
    <3>2. ~GivenArray("var_types")
      BY <1>3 DEF GivenArray, Given
    <3> QED BY <2>1, <3>1, <3>2 DEF VarsSaid, CountSaid
  <2>7. CountsAgree' <=> (list # <<>> => Fits(list, num_vars))
    <3>1. CountsAgree' <=> CountAgrees("num_vars", "var_types")' /\ CountsAgree
      BY <1>3, <2>4 DEF CountsAgree, CountAgrees, GivenArray, Given, Member
    <3>2. CountAgrees("num_vars", "var_types")' <=>
            (Given("num_vars") /\ list # <<>> => given["num_vars"] = Len(list))
      BY <2>4, <2>5 DEF CountAgrees, Given, Member
    <3> QED BY <2>1, <2>6, <3>1, <3>2 DEF WellRead, Fits
  <2>8. Ignored(list) <=> list = <<>>
    BY <2>2 DEF Ignored, Refused
  <2>9. rerr' <=> ~WellRead'
    BY <1>1, <1>5, <1>6, <1>8, <2>1, <2>7, <2>8 DEF WellRead
  <2>10. ASSUME ~rerr' PROVE FieldsSaid'
    <3>1. VarsSaid'
      <4>1. CASE list = <<>>
        <5>1. UNCHANGED dvars
          BY <2>8, <4>1 DEF VarTypes
        <5>2. ~GivenArray("var_types") /\ ~GivenArray("var_types")'
          BY <1>3, <2>5, <4>1 DEF GivenArray, Given
        <5> QED BY <2>1, <2>4, <5>1, <5>2 DEF VarsSaid, CountSaid, Given, Member, dvars, Stale
      <4>2. CASE list # <<>>
        <5>1. Fits(list, num_vars)
          BY <1>1, <2>8, <2>10, <4>2
        <5>2. /\ num_vars' = Len(list) /\ var_types' = list
              /\ vars_size' = VarsSize(list)
          BY <2>3, <2>8, <4>2, <5>1 DEF VarTypes
        <5>3. vars_size' # 0
          BY <2>3, <4>2, <5>2, VarsHaveSize
        <5>4. Given("num_vars")' => num_vars' = given'["num_vars"]
          BY <2>4, <2>6, <5>1, <5>2 DEF Given, Fits, Member
        <5> QED BY <2>4, <2>5, <4>2, <5>2, <5>3, <5>4 DEF VarsSaid, CountSaid
      <4> QED BY <4>1, <4>2
    <3>2. CartSaid'
      BY <1>1, <2>1, <2>4, CartStays DEF FieldsSaid, Member
    <3> QED BY <1>1, <2>1, <2>4, <3>1, <3>2
            DEF FieldsSaid, Given, Member, Dist, Field, oset
  <2> QED BY <1>4, <2>9, <2>10 DEF ReadAsSaid
<1> QED BY <1>7, <1>8

\* What was given of dimensions, before anything is refused.
LEMMA DimsGiven ==
  ASSUME GivenTyped, WellRead, NEW a \in {"dim_sizes", "dim_divs"}, GivenArray(a)
  PROVE  given[a] \in Seq(Nat) /\ Len(given[a]) \in Nat /\ Len(given[a]) # 0
<1>1. given[a] \in UIntLists /\ given[a] # Bad /\ \A i \in DOMAIN given[a] : given[a][i] # Bad
  BY DEF GivenTyped, InputsOf, Member, Lists, GivenArray, Given, WellRead, SoundValues
<1>2. given[a] \in Seq(Nat \cup {Bad})
  BY <1>1, ParserAssumption
<1>3. \A i \in 1 .. Len(given[a]) : given[a][i] \in Nat
  BY <1>1, <1>2
<1> QED BY <1>2, <1>3 DEF GivenArray

LEMMA NumDimsSaid ==
  ASSUME SaidInv, NEW j \in Counts, NumDims(j), Plain'
  PROVE  ReadAsSaid'
<1>1. /\ pc = "cart" /\ pc' = "cart" /\ Records("num_dims", j)
      /\ num_dims' = (IF ~Refused(j) /\ num_dims = 0 THEN UInt(j) ELSE num_dims)
      /\ rerr' = (rerr \/ Refused(j) \/ (num_dims # 0 /\ UInt(j) # num_dims))
      /\ UNCHANGED <<type, num_tasks, wtype, oset, dvars, dtype, g_dim_sizes, g_dim_divs>>
  BY DEF NumDims, Reading
<1>2. "num_dims" \in Member /\ j \in InputsOf("num_dims") /\ "num_dims" \notin Lists
  BY DEF Member, InputsOf, Lists
<1>3. /\ given["num_dims"] = NULL /\ given' = [given EXCEPT !["num_dims"] = j]
      /\ j # NULL /\ DOMAIN given = Member /\ ReadAsSaid
  BY <1>1, <1>2, PlainStep DEF Objects
<1>4. Places'
  BY <1>1, <1>3 DEF ReadAsSaid, Places, Given
<1>5. SoundValue("num_dims", j) <=> ~Refused(j)
  BY <1>2, InputsAre DEF SoundValue, Refused
<1>6. SoundValues' <=> SoundValues /\ SoundValue("num_dims", j)
  BY <1>2, <1>3, SoundStep
<1>7. CASE rerr \/ Refused(j)
  <2>1. rerr'
    BY <1>1, <1>7
  <2>2. ~WellRead'
    BY <1>2, <1>3, <1>5, <1>7, RefusedStays DEF ReadAsSaid
  <2> QED BY <1>4, <2>1, <2>2 DEF ReadAsSaid
<1>8. CASE ~rerr /\ ~Refused(j)
  <2>1. FieldsSaid /\ WellRead /\ CartSaid
    BY <1>3, <1>8 DEF ReadAsSaid, FieldsSaid
  <2>2. UInt(j) = j /\ j # 0
    <3>1. given'["num_dims"] = j
      BY <1>2, <1>3
    <3> QED BY <1>8, <3>1, CountUncut DEF Refused
  <2>3. /\ given'["num_dims"] = j
        /\ \A k \in Member \ {"num_dims"} : given'[k] = given[k]
    BY <1>2, <1>3
  <2>4. \A a \in {"dim_sizes", "dim_divs"} :
          /\ given'[a] = given[a]
          /\ GivenArray(a) => num_dims = Len(given[a]) /\ num_dims # 0
    BY <2>1, <2>3, DimsGiven DEF CartSaid, CountSaid, SaidInv, Member
  <2>5. num_dims # 0 => GivenArray("dim_sizes") \/ GivenArray("dim_divs")
    BY <1>3, <2>1 DEF CartSaid, CountSaid, Given
  <2>6. CountsAgree' <=> (num_dims # 0 => j = num_dims)
    <3>1. CountsAgree' <=> /\ CountsAgree
                           /\ GivenArray("dim_sizes") => j = Len(given["dim_sizes"])
                           /\ GivenArray("dim_divs") => j = Len(given["dim_divs"])
      BY <1>3, <2>3 DEF CountsAgree, CountAgrees, GivenArray, Given, Member
    <3> QED BY <2>1, <2>4, <2>5, <3>1 DEF WellRead
  <2>7. rerr' <=> ~WellRead'
    BY <1>1, <1>5, <1>6, <1>8, <2>1, <2>2, <2>6 DEF WellRead
  <2>8. ASSUME ~rerr' PROVE FieldsSaid'
    <3>1. num_dims' = j
      BY <1>1, <1>8, <2>2, <2>8
    <3>2. CartSaid'
      <4>1. \A a \in {"dim_sizes", "dim_divs"} : GivenArray(a) => j = Len(given[a])
        BY <1>1, <2>2, <2>4, <2>8
      <4> QED BY <1>1, <1>3, <2>1, <2>3, <3>1, <4>1
              DEF CartSaid, CountSaid, GivenArray, Given, Member
    <3>3. VarsSaid'
      BY <1>1, <2>1, <2>3, VarsStay DEF FieldsSaid, Member
    <3> QED BY <1>1, <2>1, <2>3, <3>2, <3>3
            DEF FieldsSaid, Given, Member, Dist, Field, oset
  <2> QED BY <1>4, <2>7, <2>8 DEF ReadAsSaid
<1> QED BY <1>7, <1>8

\* The arrays of the dimensions: m is read, and o is the other one.
LEMMA DimArraySaid ==
  ASSUME SaidInv, NEW m \in {"dim_sizes", "dim_divs"},
         NEW o \in {"dim_sizes", "dim_divs"}, o # m,
         NEW list \in UIntLists, DimArray(m, list), Plain',
         LET read == ~Ignored(list) /\ Fits(list, num_dims) IN
           /\ g_dim_sizes' = IF m = "dim_sizes" /\ read THEN UInts(list) ELSE g_dim_sizes
           /\ g_dim_divs' = IF m = "dim_divs" /\ read THEN UInts(list) ELSE g_dim_divs
  PROVE  ReadAsSaid'
<1> DEFINE read == ~Ignored(list) /\ Fits(list, num_dims)
<1>1. /\ pc = "cart" /\ pc' = "cart" /\ Records(m, list)
      /\ num_dims' = (IF read THEN Len(list) ELSE num_dims)
      /\ rerr' = (rerr \/ AnyRefused(list)
                       \/ (~Ignored(list) /\ ~Fits(list, num_dims)))
      /\ UNCHANGED <<type, num_tasks, wtype, oset, dvars, dtype>>
      /\ g_dim_sizes' = (IF m = "dim_sizes" /\ read THEN UInts(list) ELSE g_dim_sizes)
      /\ g_dim_divs' = (IF m = "dim_divs" /\ read THEN UInts(list) ELSE g_dim_divs)
  BY DEF DimArray, Reading
<1> HIDE DEF read
<1>2. m \in Member /\ list \in InputsOf(m) /\ m \in Lists
  BY DEF Member, InputsOf, Lists
<1>3. /\ given[m] = NULL /\ given' = [given EXCEPT ![m] = list]
      /\ list # NULL /\ DOMAIN given = Member /\ ReadAsSaid
  BY <1>1, <1>2, PlainStep DEF Objects
<1>4. Places'
  BY <1>1, <1>3 DEF ReadAsSaid, Places, Given
<1>5. SoundValue(m, list) <=> ~AnyRefused(list)
  BY <1>2, InputsAre DEF SoundValue, AnyRefused, Refused
<1>6. SoundValues' <=> SoundValues /\ SoundValue(m, list)
  BY <1>2, <1>3, SoundStep
<1>7. CASE rerr \/ AnyRefused(list)
  <2>1. rerr'
    BY <1>1, <1>7
  <2>2. ~WellRead'
    BY <1>2, <1>3, <1>5, <1>7, RefusedStays DEF ReadAsSaid
  <2> QED BY <1>4, <2>1, <2>2 DEF ReadAsSaid
<1>8. CASE ~rerr /\ ~AnyRefused(list)
  <2>1. FieldsSaid /\ WellRead /\ CartSaid
    BY <1>3, <1>8 DEF ReadAsSaid, FieldsSaid
  <2>2. list \in Seq(Nat \cup {Bad}) /\ list # Bad
    BY <1>8, ParserAssumption DEF AnyRefused, Refused
  <2>3. /\ given'[m] = list
        /\ \A k \in Member \ {m} : given'[k] = given[k]
    BY <1>2, <1>3
  <2>4. UInts(list) = list
    <3>1. (Given(m) => Uncut(given[m]))'
      BY DEF Plain
    <3>2. Uncut(list)
      BY <1>3, <2>3, <3>1 DEF Given
    <3> QED BY <1>8, <3>2 DEF Uncut
  <2>5. GivenArray(m)' <=> list # <<>>
    BY <1>3, <2>3 DEF GivenArray, Given
  <2>6. /\ given'["num_dims"] = given["num_dims"] /\ given'[o] = given[o]
        /\ GivenArray(o)' <=> GivenArray(o)
    BY <2>3 DEF GivenArray, Given, Member
  <2>7. /\ Given("num_dims") => num_dims = given["num_dims"] /\ num_dims # 0
        /\ GivenArray(o) => num_dims = Len(given[o]) /\ num_dims # 0
        /\ num_dims # 0 => Given("num_dims") \/ GivenArray(o)
    <3>1. ASSUME Given("num_dims") PROVE given["num_dims"] # 0
      <4>1. given["num_dims"] \in Counts /\ given["num_dims"] # Bad
        BY <2>1, <3>1 DEF SaidInv, GivenTyped, InputsOf, Member, Given,
                          WellRead, SoundValues
      <4> QED BY <2>6, <4>1, CountUncut
    <3>2. ~GivenArray(m)
      BY <1>3 DEF GivenArray, Given
    <3>3. CountSaid(num_dims, "num_dims", {m, o})
      <4>1. {m, o} = {"dim_sizes", "dim_divs"}
        OBVIOUS
      <4> QED BY <2>1, <4>1 DEF CartSaid, CountSaid
    <3>4. GivenArray(o) => Len(given[o]) # 0
      BY <2>1, DimsGiven DEF SaidInv
    <3> QED BY <3>1, <3>2, <3>3, <3>4 DEF CountSaid
  <2>8. CountsAgree' <=> (list # <<>> => Fits(list, num_dims))
    <3>1. CountsAgree' <=>
            /\ CountsAgree
            /\ Given("num_dims") /\ list # <<>> => given["num_dims"] = Len(list)
            /\ GivenArray(o) /\ list # <<>> => Len(given[o]) = Len(list)
      <4>1. CASE m = "dim_sizes" /\ o = "dim_divs"
        BY <1>3, <2>3, <2>5, <4>1 DEF CountsAgree, CountAgrees, GivenArray, Given, Member
      <4>2. CASE m = "dim_divs" /\ o = "dim_sizes"
        BY <1>3, <2>3, <2>5, <4>2 DEF CountsAgree, CountAgrees, GivenArray, Given, Member
      <4> QED BY <4>1, <4>2
    <3> QED BY <2>1, <2>7, <3>1 DEF WellRead, Fits
  <2>9. Ignored(list) <=> list = <<>>
    BY <2>2 DEF Ignored, Refused
  <2>10. rerr' <=> ~WellRead'
    BY <1>1, <1>5, <1>6, <1>8, <2>1, <2>8, <2>9 DEF WellRead
  <2>11. ASSUME ~rerr' PROVE FieldsSaid'
    <3>1. read <=> list # <<>>
      BY <1>1, <2>9, <2>11 DEF read
    <3>2. num_dims' = IF list # <<>> THEN Len(list) ELSE num_dims
      BY <1>1, <3>1
    <3>3. list # <<>> => Fits(list, num_dims)
      BY <3>1 DEF read
    <3>4. /\ Given("num_dims") => num_dims' = given["num_dims"]
          /\ GivenArray(o) => num_dims' = Len(given[o])
          /\ num_dims' # 0 => Given("num_dims") \/ GivenArray(o) \/ list # <<>>
      BY <2>7, <3>2, <3>3 DEF Fits
    <3>5. CountSaid(num_dims, "num_dims", {m, o})'
      BY <2>3, <2>5, <2>6, <3>2, <3>4 DEF CountSaid, Given
    <3>6. CountSaid(num_dims, "num_dims", {"dim_sizes", "dim_divs"})'
      <4>1. {m, o} = {"dim_sizes", "dim_divs"}
        OBVIOUS
      <4> QED BY <3>5, <4>1 DEF CountSaid
    <3>7. /\ g_dim_sizes' = IF GivenArray("dim_sizes")' THEN given'["dim_sizes"] ELSE NULL
          /\ g_dim_divs' = IF GivenArray("dim_divs")' THEN given'["dim_divs"] ELSE NULL
      <4>1. ~GivenArray(m)
        BY <1>3 DEF GivenArray, Given
      <4>2. CASE m = "dim_sizes" /\ o = "dim_divs"
        BY <1>1, <2>1, <2>3, <2>4, <2>5, <2>6, <3>1, <4>1, <4>2 DEF CartSaid
      <4>3. CASE m = "dim_divs" /\ o = "dim_sizes"
        BY <1>1, <2>1, <2>3, <2>4, <2>5, <2>6, <3>1, <4>1, <4>3 DEF CartSaid
      <4> QED BY <4>2, <4>3
    <3>8. CartSaid'
      BY <1>1, <2>1, <2>3, <3>6, <3>7 DEF CartSaid, Given, Member
    <3>9. VarsSaid'
      BY <1>1, <2>1, <2>3, VarsStay DEF FieldsSaid, Member
    <3> QED BY <1>1, <2>1, <2>3, <3>8, <3>9
            DEF FieldsSaid, Given, Member, Dist, Field, oset
  <2> QED BY <1>4, <2>10, <2>11 DEF ReadAsSaid
<1> QED BY <1>7, <1>8

-------------------------------------------------------------------------------
(* The end of the file, and the validation.                                *)

\* What is described is not refused on the way.
LEMMA DescribedIsRead ==
  ASSUME Places, RestDescribed
  PROVE  WellRead
<1>1. SoundValues
  <2>1. ASSUME NEW f \in Field, Given(Dist[f]) PROVE given[Dist[f]].params # Bad
    <3>1. Dist[f] \in {"data_distrib", "req_distrib"}
      BY DEF Dist, Field
    <3>2. ~Given("dataset")
      BY <2>1, <3>1 DEF Places
    <3>3. given[Dist[f]].params = "complete"
      BY <2>1, <3>1, <3>2 DEF RestDescribed, OsetDescribed
    <3> QED BY <3>3, ParserAssumption
  <2> QED BY <2>1 DEF SoundValues, RestDescribed
<1>2. CountsAgree
  <2>1. CASE Given("dataset")
    BY <2>1 DEF RestDescribed, DsetDescribed, Matches, CountsAgree, CountAgrees, GivenArray
  <2>2. CASE ~Given("dataset")
    BY <2>2 DEF Places, CountsAgree, CountAgrees, GivenArray
  <2> QED BY <2>1, <2>2
<1> QED BY <1>1, <1>2 DEF WellRead

\* An offset workload is valid if its distributions are complete.
LEMMA OffsetValid ==
  ASSUME SaidInv, Plain, ReadAsSaid, ~rerr, ~Given("dataset"), NEW found
  PROVE  OsetValid(found) <=> RestDescribed
<1>1. WellRead /\ FieldsSaid /\ OneSource
  BY DEF ReadAsSaid, SaidInv, IInv
<1>2. ASSUME NEW f \in Field
      PROVE  (IF distrib[f] = NULL THEN sizes[f] # NULL /\ sizes_len[f] # 0
              ELSE /\ distrib[f].name # Undefined
                   /\ \/ distrib[f].params = "complete"
                      \/ distrib[f].params = "empty" /\ found)
             <=> (Given(Dist[f]) => given[Dist[f]].params = "complete")
  <2>1. distrib[f] = given[Dist[f]]
    BY <1>1 DEF FieldsSaid
  <2>2. CASE distrib[f] = NULL
    <3>1. sizes[f] # NULL /\ sizes_len[f] # 0
      <4>1. /\ sizes[f] \in ReadLists \cup {NULL} /\ sizes_len[f] \in Nat
            /\ sizes[f] # NULL /\ sizes_len[f] > 0
        BY <1>1, <2>2 DEF OneSource, SaidInv, IInv, Typed
      <4> QED BY <4>1
    <3> QED BY <2>1, <2>2, <3>1 DEF Given
  <2>3. CASE distrib[f] # NULL
    <3>1. Dist[f] \in {"data_distrib", "req_distrib"} /\ Dist[f] \in Member
      BY DEF Dist, Field, Member
    <3>2. given[Dist[f]] \notin {NULL, Bad, Many}
      BY <1>1, <2>1, <2>3, <3>1 DEF WellRead, SoundValues
    <3>3. given[Dist[f]].name # Undefined /\ given[Dist[f]].params # "empty"
      BY <3>1, <3>2 DEF Plain
    <3> QED BY <2>1, <2>3, <3>3 DEF Given
  <2> QED BY <2>2, <2>3
<1>3. OsetValid(found) <=> \A f \in Field : Given(Dist[f]) => given[Dist[f]].params = "complete"
  BY <1>2 DEF OsetValid
<1>4. OsetValid(found) <=> OsetDescribed
  BY <1>3 DEF OsetDescribed, Dist, Field
<1> QED BY <1>1, <1>4 DEF RestDescribed, WellRead, SoundValues

\* The variables given, before anything is refused.
LEMMA VarsGiven ==
  ASSUME GivenTyped, WellRead, GivenArray("var_types")
  PROVE  /\ given["var_types"] \in Seq(VarType)
         /\ Len(given["var_types"]) \in Nat /\ Len(given["var_types"]) # 0
<1> DEFINE list == given["var_types"]
<1>1. list \in NameLists /\ list # Bad /\ \A i \in DOMAIN list : list[i] # Bad
  BY DEF GivenTyped, InputsOf, Member, Lists, GivenArray, Given, WellRead, SoundValues
<1>2. list \in Seq(VarType \cup {Bad}) /\ list # <<>>
  BY <1>1, ParserAssumption DEF GivenArray
<1>3. \A i \in 1 .. Len(list) : list[i] \in VarType
  BY <1>1, <1>2
<1> HIDE DEF list
<1>4. list \in Seq(VarType) /\ Len(list) \in Nat /\ Len(list) # 0
  BY <1>2, <1>3
<1> QED BY <1>4 DEF list

\* The variables of a dataset are valid if their types are given: what an offset
\* workload left in their place has no type.
VarsValid ==
  /\ num_vars # 0 /\ var_types # NULL
  /\ \A i \in 1 .. num_vars : i \in DOMAIN var_types => var_types[i] \in VarType
  /\ vars_size # 0
LEMMA VarsAreValid ==
  ASSUME SaidInv, WellRead, VarsSaid
  PROVE  VarsValid <=> GivenArray("var_types")
<1>1. ASSUME GivenArray("var_types") PROVE VarsValid
  <2>1. /\ given["var_types"] \in Seq(VarType)
        /\ Len(given["var_types"]) \in Nat /\ Len(given["var_types"]) # 0
    BY <1>1, VarsGiven DEF SaidInv
  <2>2. /\ var_types = given["var_types"] /\ vars_size # 0
        /\ num_vars = Len(given["var_types"])
    BY <1>1 DEF VarsSaid, CountSaid
  <2>3. var_types # NULL
    BY <1>1, <2>2 DEF GivenArray, Given
  <2>4. DOMAIN var_types = 1 .. num_vars /\ \A i \in 1 .. num_vars : var_types[i] \in VarType
    BY <2>1, <2>2
  <2> QED BY <2>1, <2>2, <2>3, <2>4 DEF VarsValid
<1>2. ASSUME VarsValid, ~GivenArray("var_types") PROVE FALSE
  <2>1. var_types = Stale
    BY <1>2 DEF VarsValid, VarsSaid
  <2> QED BY <1>2, <2>1, StaleRefused DEF VarsValid, SaidInv
<1> QED BY <1>1, <1>2

\* The grid is valid if it is described.
CartDescribed ==
  /\ GivenArray("dim_sizes") /\ GivenArray("dim_divs")
  /\ Len(given["dim_divs"]) = Len(given["dim_sizes"])
  /\ \A i \in DOMAIN given["dim_divs"] :
       given["dim_divs"][i] \in 1 .. given["dim_sizes"][i]
  /\ Product(given["dim_divs"]) = TasksGiven
LEMMA CartIsValid ==
  ASSUME SaidInv, Plain, WellRead, CartSaid
  PROVE  CartOK(TasksGiven) <=> CartDescribed
<1>1. /\ g_dim_sizes # NULL <=> GivenArray("dim_sizes")
      /\ g_dim_divs # NULL <=> GivenArray("dim_divs")
  BY DEF CartSaid, GivenArray, Given
<1>2. CASE ~(GivenArray("dim_sizes") /\ GivenArray("dim_divs"))
  BY <1>1, <1>2 DEF CartOK, CartDescribed
<1>3. CASE GivenArray("dim_sizes") /\ GivenArray("dim_divs")
  <2>1. /\ g_dim_sizes = given["dim_sizes"] /\ g_dim_divs = given["dim_divs"]
        /\ num_dims = Len(given["dim_sizes"]) /\ num_dims = Len(given["dim_divs"])
    BY <1>3 DEF CartSaid, CountSaid
  <2>2. /\ given["dim_sizes"] \in Seq(Nat) /\ given["dim_divs"] \in Seq(Nat)
        /\ num_dims \in Nat /\ num_dims # 0
    BY <1>3, <2>1, DimsGiven DEF SaidInv
  <2>3. DOMAIN given["dim_divs"] = 1 .. num_dims
    BY <2>1, <2>2
  <2>4. Product(given["dim_divs"]) % UIntMod = Product(given["dim_divs"])
    <3>1. ~AnyRefused(given["dim_divs"])
      BY <1>3 DEF WellRead, SoundValues, AnyRefused, Refused, GivenArray, Given,
                  Member, Lists
    <3>2. UInt(Product(given["dim_divs"])) = Product(given["dim_divs"])
      BY <1>3, <3>1 DEF Plain, GivenArray
    <3> QED BY <3>2 DEF UInt
  <2>5. CartOK(TasksGiven) <=>
          /\ \A i \in 1 .. num_dims : g_dim_divs[i] \in 1 .. g_dim_sizes[i]
          /\ Product(given["dim_divs"]) = TasksGiven
    BY <1>1, <1>3, <2>1, <2>2, <2>4 DEF CartOK
  <2> QED BY <1>3, <2>1, <2>3, <2>5 DEF CartDescribed
<1> QED BY <1>2, <1>3

LEMMA DatasetValid ==
  ASSUME SaidInv, Plain, ReadAsSaid, ~rerr, Given("dataset")
  PROVE  DsetValid(TasksGiven) <=> RestDescribed
<1>1. WellRead /\ VarsSaid /\ CartSaid /\ Places
  BY DEF ReadAsSaid, FieldsSaid
<1>2. DsetValid(TasksGiven) <=> VarsValid /\ dtype = "CARTESIAN" /\ CartOK(TasksGiven)
  BY DEF DsetValid, VarsValid
<1>3. CartDescribed => dtype = "CARTESIAN"
  BY <1>1 DEF CartDescribed, GivenArray, Places, CartSaid
<1>4. DsetValid(TasksGiven) <=> GivenArray("var_types") /\ CartDescribed
  BY <1>1, <1>2, <1>3, VarsAreValid, CartIsValid
<1>5. GivenArray("var_types") => Matches("num_vars", "var_types")
  BY <1>1 DEF WellRead, CountsAgree, CountAgrees, Matches
<1>6. GivenArray("dim_sizes") => Matches("num_dims", "dim_sizes")
  BY <1>1 DEF WellRead, CountsAgree, CountAgrees, Matches
<1>7. /\ Given("dim_sizes") /\ given["dim_sizes"] # <<>> /\ Given("dim_divs")
      /\ Len(given["dim_divs"]) = Len(given["dim_sizes"])
      => given["dim_divs"] # <<>>
  <2>1. ASSUME GivenArray("dim_sizes"), Len(given["dim_divs"]) = Len(given["dim_sizes"])
        PROVE  given["dim_divs"] # <<>>
    <3>1. Len(given["dim_sizes"]) # 0
      BY <1>1, <2>1, DimsGiven DEF SaidInv
    <3> QED BY <2>1, <3>1
  <2> QED BY <2>1 DEF GivenArray
<1>8. DsetDescribed <=> GivenArray("var_types") /\ CartDescribed
  BY <1>5, <1>6, <1>7 DEF DsetDescribed, CartDescribed, GivenArray
<1> QED BY <1>1, <1>4, <1>8 DEF RestDescribed, WellRead, SoundValues

LEMMA FileEndsSaid ==
  ASSUME SaidInv, FileEnds, Plain'
  PROVE  PlainInv'
<1>1. /\ pc = "test" /\ pc' = (IF rerr THEN "refused" ELSE "valid")
      /\ UNCHANGED <<rerr, type, num_tasks, wtype, oset, dset, given, again>>
  BY DEF FileEnds
<1>2. Plain
  BY <1>1 DEF Plain, Given
<1>3. ReadAsSaid
  BY <1>1, <1>2 DEF SaidInv, PlainInv
<1>4. RestDescribed' <=> RestDescribed
  BY <1>1 DEF RestDescribed, DsetDescribed, OsetDescribed, Matches, TasksGiven, Given
<1>5. CASE rerr
  <2>1. ~RestDescribed
    BY <1>3, <1>5, DescribedIsRead DEF ReadAsSaid
  <2> QED BY <1>1, <1>4, <1>5, <2>1 DEF PlainInv
<1>6. CASE ~rerr
  <2>1. Places'
    BY <1>1, <1>3, <1>6 DEF ReadAsSaid, Places, Given
  <2>2. WellRead' <=> WellRead
    BY <1>1 DEF WellRead, SoundValues, CountsAgree, CountAgrees, GivenArray, Given
  <2>3. FieldsSaid /\ WellRead
    BY <1>3, <1>6 DEF ReadAsSaid
  <2>4. VarsSaid' /\ CartSaid'
    BY <1>1, <2>3, VarsStay, CartStays DEF FieldsSaid, dset
  <2>5. FieldsSaid'
    BY <1>1, <2>3, <2>4 DEF FieldsSaid, Given, oset
  <2> QED BY <1>1, <1>6, <2>1, <2>2, <2>3, <2>5 DEF PlainInv, ReadAsSaid
<1> QED BY <1>5, <1>6

LEMMA ValidateSaid ==
  ASSUME SaidInv, Validate, Plain'
  PROVE  PlainInv'
<1>1. /\ pc = "valid" /\ UNCHANGED <<given, again>>
      /\ \E found \in BOOLEAN :
           pc' = IF IF wtype = "OFFSET" THEN OsetValid(found)
                    ELSE DsetValid(MinOf(num_tasks, NumProcs))
                 THEN "accepted" ELSE "refused"
  BY DEF Validate
<1>2. Plain
  BY <1>1 DEF Plain, Given
<1>3. ReadAsSaid /\ ~rerr /\ FieldsSaid
  BY <1>1, <1>2 DEF SaidInv, PlainInv, ReadAsSaid
<1>4. MinOf(num_tasks, NumProcs) = TasksGiven
  BY <1>3 DEF FieldsSaid, TasksGiven
<1>5. \A found \in BOOLEAN :
        (IF wtype = "OFFSET" THEN OsetValid(found) ELSE DsetValid(TasksGiven))
          <=> RestDescribed
  BY <1>2, <1>3, OffsetValid, DatasetValid DEF FieldsSaid
<1>6. pc' = IF RestDescribed THEN "accepted" ELSE "refused"
  BY <1>1, <1>4, <1>5
<1>7. RestDescribed' <=> RestDescribed
  BY <1>1 DEF RestDescribed, DsetDescribed, OsetDescribed, Matches, TasksGiven, Given
<1> QED BY <1>6, <1>7 DEF PlainInv

-------------------------------------------------------------------------------

LEMMA InitSaid == Init => SaidInv
<1> SUFFICES ASSUME Init PROVE SaidInv
  OBVIOUS
<1>1. GivenTyped
  BY DEF Init, GivenTyped
<1>2. pc = "test" /\ ~rerr /\ \A m \in Member : ~Given(m)
  BY DEF Init, Given
<1>3. Places
  BY <1>2 DEF Places, Member
<1>4. WellRead
  <2>1. SoundValues
    BY <1>2, ParserAssumption DEF Init, SoundValues, Given, Member, Lists, Dist, Field
  <2>2. CountsAgree
    BY <1>2 DEF CountsAgree, CountAgrees, GivenArray, Member
  <2> QED BY <2>1, <2>2 DEF WellRead
<1>5. FieldsSaid
  <2>1. VarsSaid
    BY <1>2 DEF Init, VarsSaid, CountSaid, GivenArray, Member
  <2>2. CartSaid
    BY <1>2 DEF Init, CartSaid, CountSaid, GivenArray, Member
  <2>3. distrib = [f \in Field |-> given[Dist[f]]]
    BY DEF Init, Dist, Field, Member
  <2> QED BY <1>2, <2>1, <2>2, <2>3 DEF Init, FieldsSaid, Member
<1> QED BY <1>1, <1>2, <1>3, <1>4, <1>5, InitInv DEF SaidInv, PlainInv, ReadAsSaid

\* Every member keeps what is given typed.
LEMMA NextTyped ==
  ASSUME GivenTyped, Next
  PROVE  GivenTyped'
<1> DEFINE Adds(m, j) == m \in Member /\ j \in InputsOf(m) /\ Records(m, j)
<1>1. UNCHANGED given \/ \E m, j : Adds(m, j)
  <2>1. CASE Workload \/ ObjectEnds \/ FileEnds \/ Validate \/ Dies
    BY <2>1 DEF Workload, ObjectEnds, FileEnds, Validate, Dies
  <2>2. CASE Offset \/ Dataset \/ Cartesian
    <3>1. \E m \in {"offset", "dataset", "cartesian"} : Records(m, "object")
      BY <2>2, Zenon DEF Offset, Dataset, Cartesian
    <3> QED BY <3>1 DEF Member, InputsOf
  <2>3. CASE OtherMember
    <3>1. Records("other", Bad)
      BY <2>3, Zenon DEF OtherMember
    <3> QED BY <3>1 DEF Member, InputsOf
  <2>4. ASSUME NEW list \in TestLists, TestType(list) PROVE Adds("type", list)
    <3>1. Records("type", list)
      BY <2>4, Zenon DEF TestType
    <3> QED BY <3>1 DEF Member, InputsOf
  <2>5. ASSUME NEW list \in SizeLists, NEW f, NEW m \in {"data_sizes", "req_sizes"},
               Sizes(f, m, list)
        PROVE  Adds(m, list)
    <3>1. Records(m, list)
      BY <2>5, Zenon DEF Sizes
    <3> QED BY <3>1 DEF Member, InputsOf
  <2>6. ASSUME NEW j \in DistObjs, NEW f, NEW m \in {"data_distrib", "req_distrib"},
               Distrib(f, m, j)
        PROVE  Adds(m, j)
    <3>1. Records(m, j)
      BY <2>6, Zenon DEF Distrib
    <3> QED BY <3>1 DEF Member, InputsOf
  <2>7. ASSUME NEW j \in TaskNums, NumTasks(j) PROVE Adds("num_tasks", j)
    <3>1. Records("num_tasks", j)
      BY <2>7, Zenon DEF NumTasks
    <3> QED BY <3>1 DEF Member, InputsOf
  <2>8. ASSUME NEW j \in Counts, NumVars(j) PROVE Adds("num_vars", j)
    <3>1. Records("num_vars", j)
      BY <2>8, Zenon DEF NumVars
    <3> QED BY <3>1 DEF Member, InputsOf
  <2>9. ASSUME NEW j \in Counts, NumDims(j) PROVE Adds("num_dims", j)
    <3>1. Records("num_dims", j)
      BY <2>9, Zenon DEF NumDims
    <3> QED BY <3>1 DEF Member, InputsOf
  <2>10. ASSUME NEW list \in NameLists, VarTypes(list) PROVE Adds("var_types", list)
    <3>1. Records("var_types", list)
      BY <2>10, Zenon DEF VarTypes
    <3> QED BY <3>1 DEF Member, InputsOf
  <2>11. ASSUME NEW list \in UIntLists, NEW m \in {"dim_sizes", "dim_divs"},
                DimArray(m, list)
         PROVE  Adds(m, list)
    <3>1. Records(m, list)
      BY <2>11, Zenon DEF DimArray
    <3> QED BY <3>1 DEF Member, InputsOf
  <2>12. \A list : /\ DimSizes(list) => DimArray("dim_sizes", list)
                   /\ DimDivs(list) => DimArray("dim_divs", list)
    BY Zenon DEF DimSizes, DimDivs
  <2> HIDE DEF Adds
  <2> QED BY <2>1, <2>2, <2>3, <2>4, <2>5, <2>6, <2>7, <2>8, <2>9, <2>10, <2>11, <2>12,
             Zenon DEF Next
<1>2. ASSUME NEW m, NEW j, Adds(m, j) PROVE GivenTyped'
  BY <1>2, RecordsTyped
<1>3. UNCHANGED given => GivenTyped'
  BY DEF GivenTyped
<1> HIDE DEF Adds
<1> QED BY <1>1, <1>2, <1>3

\* A file that is read remains one: no member ends it.
LEMMA ReadOn ==
  ASSUME ReadAsSaid', pc' \in Objects
  PROVE  PlainInv'
BY DEF PlainInv, Objects

LEMMA NextSaid == SaidInv /\ [Next]_vars => SaidInv'
<1> SUFFICES ASSUME SaidInv, [Next]_vars PROVE SaidInv'
  OBVIOUS
<1>1. IInv'
  BY NextInv DEF SaidInv
<1>2. CASE UNCHANGED vars
  <2>1. GivenTyped'
    BY <1>2 DEF SaidInv, GivenTyped, vars
  <2>2. PlainInv'
    BY <1>2 DEF SaidInv, PlainInv, Plain, ReadAsSaid, Places, WellRead, SoundValues,
      CountsAgree, CountAgrees, FieldsSaid, VarsSaid, CartSaid, CountSaid, GivenArray,
      Given, RestDescribed, DsetDescribed, OsetDescribed, Matches, TasksGiven, Stale,
      vars, oset, dset, dvars, cart
  <2> QED BY <1>1, <2>1, <2>2 DEF SaidInv
<1>3. CASE Next
  <2>1. GivenTyped'
    BY <1>3, NextTyped DEF SaidInv
  <2>2. ASSUME Plain' PROVE PlainInv'
    <3>1. CASE FileEnds \/ Validate
      BY <2>2, <3>1, FileEndsSaid, ValidateSaid
    <3>2. CASE Workload \/ ObjectEnds
      <4>1. pc' \in Objects
        BY <3>2 DEF Workload, ObjectEnds, Objects
      <4> QED BY <2>2, <3>2, <4>1, ObjectSaid, ReadOn
    <3>3. CASE Offset \/ Dataset \/ Cartesian \/ OtherMember
      <4>1. pc' \in Objects
        BY <3>3 DEF Offset, Dataset, Cartesian, OtherMember, Objects
      <4>2. ReadAsSaid'
        BY <2>2, <3>3, OffsetSaid, DatasetSaid, CartesianSaid, OtherSaid
      <4> QED BY <4>1, <4>2, ReadOn
    <3>4. ASSUME NEW list \in TestLists, TestType(list) PROVE PlainInv'
      <4>1. pc' \in Objects
        BY <3>4 DEF TestType, Reading, Objects
      <4> QED BY <2>2, <3>4, <4>1, TestTypeSaid, ReadOn
    <3>5. ASSUME NEW list \in SizeLists,
                 Sizes("data", "data_sizes", list) \/ Sizes("req", "req_sizes", list)
          PROVE  PlainInv'
      <4>1. pc' \in Objects
        BY <3>5 DEF Sizes, Reading, Objects
      <4>2. ReadAsSaid'
        BY <2>2, <3>5, SizesSaid DEF Field
      <4> QED BY <4>1, <4>2, ReadOn
    <3>6. ASSUME NEW j \in DistObjs,
                 Distrib("data", "data_distrib", j) \/ Distrib("req", "req_distrib", j)
          PROVE  PlainInv'
      <4>1. pc' \in Objects
        BY <3>6 DEF Distrib, Reading, Objects
      <4>2. ReadAsSaid'
        BY <2>2, <3>6, DistribSaid DEF Field, Dist
      <4> QED BY <4>1, <4>2, ReadOn
    <3>7. ASSUME NEW j \in TaskNums, NumTasks(j) PROVE PlainInv'
      <4>1. pc' \in Objects
        BY <3>7 DEF NumTasks, Reading, Objects
      <4> QED BY <2>2, <3>7, <4>1, NumTasksSaid, ReadOn
    <3>8. ASSUME NEW j \in Counts, NumVars(j) \/ NumDims(j) PROVE PlainInv'
      <4>1. pc' \in Objects
        BY <3>8 DEF NumVars, NumDims, Reading, Objects
      <4> QED BY <2>2, <3>8, <4>1, NumVarsSaid, NumDimsSaid, ReadOn
    <3>9. ASSUME NEW list \in NameLists, VarTypes(list) PROVE PlainInv'
      <4>1. pc' \in Objects
        BY <3>9 DEF VarTypes, Reading, Objects
      <4> QED BY <2>2, <3>9, <4>1, VarTypesSaid, ReadOn
    <3>10. ASSUME NEW list \in UIntLists, DimSizes(list) \/ DimDivs(list) PROVE PlainInv'
      <4>1. pc' \in Objects
        BY <3>10 DEF DimSizes, DimDivs, DimArray, Reading, Objects
      <4>2. CASE DimSizes(list)
        <5>1. ReadAsSaid'
          BY <2>2, <4>2, DimArraySaid DEF DimSizes
        <5> QED BY <4>1, <5>1, ReadOn
      <4>3. CASE DimDivs(list)
        <5>1. ReadAsSaid'
          BY <2>2, <4>3, DimArraySaid DEF DimDivs
        <5> QED BY <4>1, <5>1, ReadOn
      <4> QED BY <3>10, <4>2, <4>3
    <3>11. CASE Dies
      <4>1. pc' = "died"
        BY <3>11 DEF Dies
      <4> QED BY <4>1 DEF PlainInv
    <3> QED BY <1>3, <3>11, <3>1, <3>2, <3>3, <3>4, <3>5, <3>6, <3>7, <3>8, <3>9, <3>10 DEF Next
  <2>3. PlainInv'
    BY <2>2 DEF PlainInv
  <2> QED BY <1>1, <2>1, <2>3 DEF SaidInv
<1> QED BY <1>2, <1>3

\* A plain file is accepted if and only if it describes a test, for every file
\* and every number of processes, but that a test of no type is accepted too.
THEOREM AcceptsWhatIsDescribed == Spec => []AcceptsDescribed
<1>1. SaidInv => AcceptsDescribed
  BY DEF SaidInv, PlainInv, AcceptsDescribed, Described
<1> QED BY InitSaid, NextSaid, <1>1, PTL DEF Spec

===============================================================================
