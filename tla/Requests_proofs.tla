---------------------------- MODULE Requests_proofs ----------------------------
(***************************************************************************)
(* Proof that the sizes of an offset workload decide how its tests end,    *)
(* and that its requests transfer every byte of the files once, for any    *)
(* number of tasks and any workloads, given or drawn.                      *)
(*                                                                         *)
(* How tests end (IInv): sizes are natural numbers from the time they are  *)
(* needed on and are never drawn again, tasks act as themselves in the     *)
(* write test, so that its end shows that the data of every task fits in a *)
(* word, and nothing is transferred before every buffer has been filled    *)
(* and every list is as long as the task needs.                            *)
(*                                                                         *)
(* What is transferred (OInv): the data of the ids lie apart in the files  *)
(* and cover them; the list of an id has the offset of each place of its   *)
(* data once, in whatever order; what is left of a task's data follows     *)
(* from the requests it has made, so that the next one is of the size its  *)
(* place asks for; and drawing, which always takes the first id, lists the *)
(* offsets of one id after the other.                                      *)
(***************************************************************************)
EXTENDS Requests, Operators_proofs, SequenceTheorems

\* Where the sizes are: in the workload until they are needed, and then there.
HasSizes(sizes, given) ==
  /\ sizes \in Seq(Nat)
  /\ sizes = <<>> => given = <<>>
  /\ stage # "sizes" \/ phase = "read" => sizes # <<>>

\* What SizesDecide says of all ends but failures, which requests may cause.
Decided ==
  /\ stage = "died" =>
       \E id \in Task : \/ ReqSize(id) = 0 \/ DataSize(id) = 0
                       \/ Needed(id) >= WordMod \div 2
  /\ stage = "short" => \E id \in Task : Needed(id) >= WordMod
  /\ stage = "filling" => \E id \in Task : ReqSize(id) >= WordMod
  /\ stage = "done" =>
       \A id \in Task : /\ ReqSize(id) \in 1 .. WordMod - 1
                       /\ DataSize(id) < WordMod
                       /\ Needed(id) < WordMod \div 2
FailsBySize ==
  stage = "failed" =>
    \E id \in Task : DataSize(id) >= WordMod \/ ReqSize(id) >= WordMod \div 2

\* The invariant of sizes.
IInv ==
  /\ wkld \in Wklds
  /\ phase \in {"write", "read"}
  /\ HasSizes(data_sizes, wkld.data_sizes)
  /\ HasSizes(req_sizes, wkld.req_sizes)
  /\ stage \in {"xfer", "done"} => Dividable
  /\ stage = "xfer" => Filled
  /\ phase = "read" =>
       \A id \in Task : DataSize(id) < WordMod /\ ReqSize(id) < WordMod
  /\ stage = "done" => phase = "read"
  /\ Decided

-------------------------------------------------------------------------------
(* Arithmetic of sizes.                                                    *)

\* Products with a size keep the order.
LEMMA TimesGrows ==
  ASSUME NEW a \in Int, NEW b \in Int, a <= b, NEW r \in Nat
  PROVE  a * r \in Int /\ b * r \in Int /\ a * r <= b * r
<1>1. b - a \in Nat /\ (b - a) * r >= 0
  BY SMT
<1>2. (b - a) * r = b * r - a * r
  BY SMT
<1> QED BY <1>1, <1>2, SMT

\* One request more, and one less.
LEMMA TimesNext ==
  ASSUME NEW a \in Int, NEW r \in Nat
  PROVE  (a + 1) * r = a * r + r /\ (a - 1) * r = a * r - r /\ a * r \in Int
BY SMT

\* The number of requests that data needs: the last one is not empty, and all
\* of them hold it.
LEMMA RoundsUp ==
  ASSUME NEW d \in Nat, NEW r \in Nat \ {0}
  PROVE  LET n == (d + r - 1) \div r IN
           /\ n \in Nat
           /\ d = 0 => n = 0
           /\ d # 0 => n # 0 /\ (n - 1) * r < d /\ d <= n * r
<1> DEFINE n == (d + r - 1) \div r
           m == (d + r - 1) % r
<1>1. n \in Int /\ m \in 0 .. r - 1 /\ d + r - 1 = r * n + m
  BY SMT
<1> HIDE DEF n, m
<1>2. (n - 1) * r = r * n - r /\ r * n \in Int /\ n * r = r * n
  BY <1>1, SMT
<1>3. n >= 0
  <2>1. ASSUME n <= -1 PROVE FALSE
    <3>1. n * r <= (-1) * r
      BY <1>1, <2>1, TimesGrows
    <3> QED BY <1>1, <1>2, <3>1, SMT
  <2> QED BY <1>1, <2>1
<1>4. ASSUME d = 0 PROVE n = 0
  <2>1. ASSUME n >= 1 PROVE FALSE
    <3>1. 1 * r <= n * r
      BY <1>1, <2>1, TimesGrows
    <3> QED BY <1>1, <1>2, <1>4, <3>1, SMT
  <2> QED BY <1>1, <1>3, <2>1
<1>5. ASSUME d # 0 PROVE n # 0 /\ (n - 1) * r < d /\ d <= n * r
  <2>1. (n - 1) * r < d /\ d <= n * r
    BY <1>1, <1>2, SMT
  <2>2. n # 0
    BY <1>5, <2>1, SMT
  <2> QED BY <2>1, <2>2
<1> QED BY <1>1, <1>3, <1>4, <1>5 DEF n

\* A number is what is left of it in a word if and only if it fits in.
LEMMA Cut ==
  ASSUME NEW n \in Nat, NEW w \in Nat \ {0}
  PROVE  n % w = n <=> n < w
BY SMT

\* An int holds a number of less than half a word, and is never more than it.
LEMMA CutToInt ==
  ASSUME NEW n \in Nat
  PROVE  /\ ToInt(n) = n <=> n < WordMod \div 2
         /\ ToInt(n) \in 0 .. n - 1 => n >= WordMod
<1>1. WordMod \in Nat \ {0} /\ WordMod % 2 = 0
  BY RequestsAssumption
<1> DEFINE w == WordMod
           h == WordMod \div 2
           r == n % WordMod
<1>2. r \in 0 .. w - 1 /\ (r = n <=> n < w)
  BY <1>1, Cut, SMT
<1>3. h \in Nat /\ h < w
  BY <1>1, SMT
<1>4. ToInt(n) = IF r < h THEN r ELSE r - w
  BY DEF ToInt
<1> HIDE DEF w, h, r
<1>5. w \in Nat
  BY <1>1 DEF w
<1>6. /\ ToInt(n) = n <=> n < h
      /\ ToInt(n) \in 0 .. n - 1 => n >= w
  BY <1>2, <1>3, <1>4, <1>5
<1> QED BY <1>6 DEF w, h

\* A task acts as one of the tasks.
LEMMA IdIsTask ==
  ASSUME wkld \in Wklds, NEW t \in Task
  PROVE  Id(t) \in Task
<1>1. wkld.read_reorder_offset \in Nat /\ N \in Nat \ {0}
  BY RequestsAssumption DEF Wkld
<1>2. t + wkld.read_reorder_offset \in Nat
  BY <1>1 DEF Task
<1> QED BY <1>1, <1>2, SMT DEF Id, IdIn, Task

\* Cyclic use of sizes finds one, if there are any.
LEMMA CyclicFinds ==
  ASSUME NEW sizes \in Seq(Nat), sizes # <<>>, NEW id \in Nat
  PROVE  Cyclic(sizes, id) \in Nat
<1>1. Len(sizes) \in Nat \ {0}
  OBVIOUS
<1>2. (id % Len(sizes)) + 1 \in 1 .. Len(sizes)
  BY <1>1, SMT
<1> QED BY <1>2 DEF Cyclic

\* The distributions draw natural numbers, whatever their parameters.
LEMMA DrawnSizes ==
  ASSUME NEW d, Dist(d), NEW s \in test_sizes_prep(d)
  PROVE  s \in Seq(Nat) /\ s # <<>>
<1>1. Grain \in Nat \ {0} /\ MaxDraw \in Nat /\ N \in Nat \ {0}
  BY RequestsAssumption
<1>2. ASSUME NEW x \in prng_next_double(d)
      PROVE  x \in Int
  <2>1. CASE d.type = "unif"
    <3>1. PICK u \in 0 .. Grain - 1 : x = d.min * Grain + (d.max - d.min) * u
      BY <1>2, <2>1 DEF prng_next_double, unif_next_double
    <3>2. d.min \in Int /\ d.max \in Int /\ u \in Int
      BY <3>1 DEF Dist
    <3>3. d.min * Grain \in Int /\ (d.max - d.min) * u \in Int
      BY <1>1, <3>2
    <3> QED BY <3>1, <3>3
  <2>2. CASE d.type = "norm"
    BY <1>1, <1>2, <2>2 DEF prng_next_double, norm_next_double
  <2>3. CASE d.type = "geom"
    <3>1. PICK k \in 0 .. MaxDraw : x = k * Grain
      BY <1>2, <2>3 DEF prng_next_double, geom_next_double
    <3> QED BY <1>1, <3>1
  <2> QED BY <2>1, <2>2, <2>3 DEF Dist
<1>3. ASSUME NEW x \in Int
      PROVE  prng_next_size(x) \in Nat
  BY <1>1, SMT DEF prng_next_size
<1>4. s \in [1 .. N -> Nat]
  BY <1>2, <1>3 DEF test_sizes_prep
<1> QED BY <1>1, <1>4

\* The sizes used are those there are, or drawn.
LEMMA SizesFound ==
  ASSUME NEW sizes \in Seq(Nat), NEW given, NEW d, sizes = <<>> => Dist(d),
         NEW s \in SizesFor(sizes, given, d)
  PROVE  /\ s \in Seq(Nat) /\ s # <<>>
         /\ sizes # <<>> => s = sizes
BY DrawnSizes DEF SizesFor

\* With sizes, tasks have data and requests of some size.
LEMMA SizesAreNat ==
  ASSUME IInv, stage # "sizes" \/ phase = "read", NEW id \in Task
  PROVE  DataSize(id) \in Nat /\ ReqSize(id) \in Nat
BY CyclicFinds DEF IInv, HasSizes, DataSize, ReqSize, Task

-------------------------------------------------------------------------------
LEMMA InitInv == Init => IInv
<1> SUFFICES ASSUME Init PROVE IInv
  OBVIOUS
<1>1. wkld.data_sizes \in Seq(Nat) /\ wkld.req_sizes \in Seq(Nat)
  BY RequestsAssumption DEF Init, Wkld
<1> QED BY <1>1 DEF Init, IInv, HasSizes, Decided

\* Sizes are drawn once: those of the write test are those of the read test.
LEMMA SizesStep == IInv /\ Sizes => IInv'
<1> SUFFICES ASSUME IInv, Sizes PROVE IInv'
  OBVIOUS
<1>1. wkld' = wkld /\ phase' = phase /\ stage' = "offsets" /\ wkld \in Wklds
  BY DEF IInv, Sizes
<1>2. Wkld(wkld)
  BY <1>1, RequestsAssumption
<1>3. data_sizes' \in Seq(Nat) /\ data_sizes' # <<>>
        /\ (data_sizes # <<>> => data_sizes' = data_sizes)
  <2>1. data_sizes = <<>> => Dist(wkld.data_size_distrib)
    BY <1>2 DEF IInv, HasSizes, Wkld
  <2> QED BY <2>1, SizesFound DEF Sizes, IInv, HasSizes
<1>4. req_sizes' \in Seq(Nat) /\ req_sizes' # <<>>
  <2>1. req_sizes = <<>> => Dist(wkld.req_size_distrib)
    BY <1>2 DEF IInv, HasSizes, Wkld
  <2> QED BY <2>1, SizesFound DEF Sizes, IInv, HasSizes
<1>5. req_sizes # <<>> => req_sizes' = req_sizes
  BY DEF Sizes, SizesFor
<1>6. phase' = "read" =>
        \A id \in Task : DataSize(id)' < WordMod /\ ReqSize(id)' < WordMod
  BY <1>1, <1>3, <1>5 DEF IInv, HasSizes, DataSize, ReqSize
<1> QED BY <1>1, <1>3, <1>4, <1>6 DEF IInv, HasSizes, Decided

\* Sizes and what follows from them stay while the workload and they do.
LEMMA SizesStay ==
  ASSUME UNCHANGED <<wkld, phase, sizeVars>>
  PROVE  /\ data_sizes' = data_sizes /\ req_sizes' = req_sizes
         /\ wkld' = wkld /\ phase' = phase
         /\ \A id : /\ DataSize(id)' = DataSize(id) /\ ReqSize(id)' = ReqSize(id)
                    /\ Needed(id)' = Needed(id)
         /\ Dividable' = Dividable /\ Filled' = Filled
<1>1. /\ data_sizes' = data_sizes /\ req_sizes' = req_sizes
      /\ wkld' = wkld /\ phase' = phase
  BY DEF sizeVars
<1>2. \A id : DataSize(id)' = DataSize(id) /\ ReqSize(id)' = ReqSize(id)
  BY <1>1, Zenon DEF DataSize, ReqSize
<1>3. \A id : Needed(id)' = Needed(id) /\ NumReqs(id)' = NumReqs(id)
  BY <1>2, Zenon DEF Needed, NumReqs
<1>4. Dividable' = Dividable
  BY <1>2, <1>3, Zenon DEF Dividable
<1>5. Filled' = Filled
  BY <1>1, <1>2, Zenon DEF Filled, Fills
<1> QED BY <1>1, <1>2, <1>3, <1>4, <1>5

\* A step that leaves the workload, the phase and the sizes alone, and ends
\* neither the sizes nor a test, keeps the invariant.
LEMMA QuietStep ==
  ASSUME IInv, UNCHANGED <<wkld, phase, sizeVars>>, stage # "sizes" \/ stage' = stage,
         \/ stage' = stage
         \/ stage' = "xfer" /\ Dividable /\ Filled
         \/ stage' = "failed"
  PROVE  IInv'
BY SizesStay DEF IInv, HasSizes, Decided

\* The buffer of a request past an unsigned int is never filled.
LEMMA FillStep == ASSUME IInv, NEW t \in Task, Fill(t) PROVE IInv'
<1>1. /\ UNCHANGED <<wkld, phase, sizeVars>>
      /\ stage = "offsets" /\ stage' = "filling"
  BY DEF Fill
<1>2. \E id \in Task : ReqSize(id) >= WordMod
  BY IdIsTask DEF Fill, Fills, IInv
<1> QED BY <1>1, <1>2, SizesStay DEF IInv, HasSizes, Decided

\* The number of requests is zero only for no data.
LEMMA NeededIs ==
  ASSUME IInv, stage # "sizes", NEW id \in Task, ReqSize(id) # 0
  PROVE  /\ Needed(id) \in Nat /\ NumReqs(id) = ToInt(Needed(id))
         /\ Needed(id) = 0 => DataSize(id) = 0
<1>1. DataSize(id) \in Nat /\ ReqSize(id) \in Nat \ {0}
  BY SizesAreNat
<1> QED BY <1>1, RoundsUp DEF Needed, NumReqs

\* A task dies of its own sizes.
LEMMA DiesStep == ASSUME IInv, NEW t \in Task, Dies(t) PROVE IInv'
<1>1. /\ UNCHANGED <<wkld, phase, sizeVars>>
      /\ stage \in {"offsets", "filling"} /\ stage' = "died"
      /\ ~Listable(Id(t)) /\ Id(t) \in Task
  BY IdIsTask DEF Dies, IInv
<1> DEFINE id == Id(t)
<1>2. ASSUME ReqSize(id) # 0, DataSize(id) # 0
      PROVE  Needed(id) >= WordMod \div 2
  <2>1. /\ Needed(id) \in Nat \ {0} /\ NumReqs(id) = ToInt(Needed(id))
        /\ ~(NumReqs(id) > 0)
    BY <1>1, <1>2, NeededIs DEF Listable
  <2>2. WordMod \div 2 \in Int
    BY RequestsAssumption, SMT
  <2>3. ToInt(Needed(id)) = Needed(id) <=> Needed(id) < WordMod \div 2
    BY <2>1, CutToInt
  <2> HIDE DEF id
  <2> QED BY <2>1, <2>2, <2>3
<1>3. \E i \in Task : \/ ReqSize(i) = 0 \/ DataSize(i) = 0
                     \/ Needed(i) >= WordMod \div 2
  BY <1>1, <1>2
<1> QED BY <1>1, <1>3, SizesStay DEF IInv, HasSizes, Decided

\* A list is too short only if an unsigned int does not count the requests.
LEMMA ShorterStep == ASSUME IInv, NEW t \in Task, Shorter(t) PROVE IInv'
<1>1. /\ UNCHANGED <<wkld, phase, sizeVars>>
      /\ stage = "offsets" /\ stage' = "short" /\ Id(t) \in Task
      /\ ReqSize(Id(t)) # 0 /\ NumReqs(Id(t)) \in 0 .. Needed(Id(t)) - 1
  BY IdIsTask DEF Shorter, IInv
<1>2. Needed(Id(t)) >= WordMod
  BY <1>1, NeededIs, CutToInt
<1> QED BY <1>1, <1>2, SizesStay DEF IInv, HasSizes, Decided

\* Where all tasks have transferred their data in the write test, each of them as
\* itself, all data fits in a word.
LEMMA WrittenFits ==
  ASSUME IInv, Transferred, phase = "write", NEW id \in Task
  PROVE  DataSize(id) < WordMod
<1>1. Id(id) = id
  BY DEF Id, IdIn
<1>2. DataSize(id) \in Nat /\ WordMod \in Nat \ {0}
  BY SizesAreNat, RequestsAssumption DEF Transferred
<1>3. DataSize(id) % WordMod = DataSize(id)
  BY <1>1, <1>2 DEF Transferred, Bytes
<1> QED BY <1>2, <1>3, Cut

LEMMA WriteEndStep == IInv /\ WriteEnd => IInv'
<1> SUFFICES ASSUME IInv, WriteEnd PROVE IInv'
  OBVIOUS
<1>1. /\ data_sizes' = data_sizes /\ req_sizes' = req_sizes /\ wkld' = wkld
      /\ phase = "write" /\ phase' = "read"
      /\ stage = "xfer" /\ stage' = "sizes"
  BY DEF WriteEnd, Transferred, sizeVars
<1>2. \A id \in Task : DataSize(id)' < WordMod
  BY <1>1, WrittenFits DEF WriteEnd, DataSize
<1>3. \A id \in Task : ReqSize(id)' < WordMod
  <2> SUFFICES ASSUME NEW id \in Task PROVE ReqSize(id) < WordMod
    BY <1>1 DEF ReqSize
  <2>1. ReqSize(id) \in Nat /\ WordMod \in Nat
    BY <1>1, SizesAreNat, RequestsAssumption
  <2>2. ~(ReqSize(id) >= WordMod)
    BY <1>1 DEF IInv, Filled, Fills
  <2> QED BY <2>1, <2>2
<1> QED BY <1>1, <1>2, <1>3 DEF IInv, HasSizes, Decided

LEMMA ReadEndStep == IInv /\ ReadEnd => IInv'
<1> SUFFICES ASSUME IInv, ReadEnd PROVE IInv'
  OBVIOUS
<1>1. /\ data_sizes' = data_sizes /\ req_sizes' = req_sizes /\ wkld' = wkld
      /\ phase = "read" /\ phase' = phase
      /\ stage = "xfer" /\ stage' = "done"
  BY DEF ReadEnd, Transferred, sizeVars
<1>2. /\ \A id : /\ DataSize(id)' = DataSize(id) /\ ReqSize(id)' = ReqSize(id)
                 /\ Needed(id)' = Needed(id)
      /\ Dividable' = Dividable
  BY SizesStay DEF ReadEnd
<1>3. ASSUME NEW id \in Task
      PROVE  /\ ReqSize(id) \in 1 .. WordMod - 1
             /\ DataSize(id) < WordMod
             /\ Needed(id) < WordMod \div 2
  <2>1. ReqSize(id) \in Nat /\ WordMod \in Nat
    BY <1>1, SizesAreNat, RequestsAssumption
  <2>2. ReqSize(id) # 0 /\ NumReqs(id) = Needed(id)
    BY <1>1 DEF IInv, Dividable
  <2>3. ReqSize(id) < WordMod /\ DataSize(id) < WordMod
    BY <1>1 DEF IInv
  <2>4. Needed(id) < WordMod \div 2
    BY <1>1, <2>2, NeededIs, CutToInt
  <2> QED BY <2>1, <2>2, <2>3, <2>4
<1> QED BY <1>1, <1>2, <1>3 DEF IInv, HasSizes, Decided

LEMMA NextInv == IInv /\ [Next]_vars => IInv'
<1> SUFFICES ASSUME IInv, [Next]_vars PROVE IInv'
  OBVIOUS
<1>1. CASE Sizes
  BY <1>1, SizesStep
<1>2. ASSUME NEW t \in Task, Dies(t) PROVE IInv'
  BY <1>2, DiesStep
<1>3. CASE Prep
  BY <1>3, QuietStep DEF Prep
<1>4. ASSUME NEW u \in 0 .. Grain - 1, Draw(u) PROVE IInv'
  BY <1>4, QuietStep DEF Draw
<1>5. CASE DrawEnd
  BY <1>5, QuietStep DEF DrawEnd
<1>6. ASSUME NEW t \in Task, Xfer(t) PROVE IInv'
  BY <1>6, QuietStep DEF Xfer
<1>7. CASE XferAll
  BY <1>7, QuietStep DEF XferAll
<1>8. ASSUME NEW t \in Task, Fails(t) PROVE IInv'
  BY <1>8, QuietStep DEF Fails
<1>9. CASE WriteEnd
  BY <1>9, WriteEndStep
<1>10. CASE ReadEnd
  BY <1>10, ReadEndStep
<1>11. CASE UNCHANGED vars
  BY <1>11, QuietStep DEF vars
<1>12. ASSUME NEW t \in Task, Fill(t) PROVE IInv'
  BY <1>12, FillStep
<1>13. ASSUME NEW t \in Task, Shorter(t) PROVE IInv'
  BY <1>13, ShorterStep
<1> QED BY <1>1, <1>2, <1>3, <1>4, <1>5, <1>6, <1>7, <1>8, <1>9, <1>10, <1>11,
           <1>12, <1>13
        DEF Next

-------------------------------------------------------------------------------
(* What the requests are.                                                  *)

\* Where the data of an id begins in its file.
Before(id) ==
  IF wkld.file_mode = "NXN" THEN 0
  ELSE IF ~wkld.random THEN DataBelow(id)
  ELSE IF id = 0 THEN 0
  ELSE DataSize(0) + DataBelow(N) - DataBelow(id + 1)

\* The offset of the request at place j of the data, from 0 on, and of the last.
At(id, j) == Before(id) + j * ReqSize(id)

\* The last place, the size of the request at it, and at any; the offsets of the
\* first places, in order.
LastReq(id) == NumReqs(id) - 1
Short(id) == DataSize(id) - LastReq(id) * ReqSize(id)
Size(id, j) == IF j = LastReq(id) THEN Short(id) ELSE ReqSize(id)
InOrder(id, n) == [k \in 1 .. n |-> At(id, k - 1)]

\* The places of the requests of an id: where files are shared they are in order.
Place(id, k) == (offs[id][k] - Before(id)) \div ReqSize(id)

\* The list of an id has each of its places once.
Listed(id) ==
  /\ offs[id] \in [1 .. NumReqs(id) -> Nat]
  /\ \A k \in 1 .. NumReqs(id) :
       Place(id, k) \in 0 .. LastReq(id) /\ offs[id][k] = At(id, Place(id, k))
  /\ \A k, m \in 1 .. NumReqs(id) : Place(id, k) = Place(id, m) => k = m
  /\ \A j \in 0 .. LastReq(id) : \E k \in 1 .. NumReqs(id) : Place(id, k) = j
  /\ wkld.file_mode = "NX1" => offs[id] = InOrder(id, NumReqs(id))

\* What the requests made transfer, and what is left.
Block(id, k) ==
  { <<File(id), b, id, k - 1>> :
      b \in offs[id][k] .. offs[id][k] + Size(id, Place(id, k)) - 1 }

\* The last place may come early, in a shuffled list: then only whole requests
\* are left.
Ended(id, n) == \E k \in 1 .. n : Place(id, k) = LastReq(id)
LeftAfter(id, n) ==
  IF Ended(id, n) THEN (NumReqs(id) - n) * ReqSize(id)
                  ELSE (LastReq(id) - n) * ReqSize(id) + Short(id)

\* A task has made some of the requests of the id it acts as.
Made(t) ==
  \E id \in Task : \E n \in 0 .. NumReqs(id) :
    Id(t) = id /\ next[t] = n /\ left[t] = LeftAfter(id, n)

\* What holds while data are transferred, and after.
XferInv ==
  /\ Dividable
  /\ \A id \in Task : Listed(id)
  /\ next \in [Task -> Nat] /\ left \in [Task -> Nat]
  /\ \A t \in Task : Made(t)
  /\ \A x : x \in xferred <=>
       \E t, id \in Task : Id(t) = id /\ \E k \in 1 .. next[t] : x \in Block(id, k)

\* All files as a whole.
Whole == UNION {{File(id)} \X (0 .. FileSize(id) - 1) : id \in Task}

\* The bytes of some requests, whoever made them.
BytesOf(X) == {<<x[1], x[2]>> : x \in X}

\* Drawing goes through the ids in turn: those done with, the one that requests
\* are drawn for, and those that wait.
Turn(n) == [k \in 1 .. n |-> IF k = 1 /\ n < N THEN n ELSE k - 1]
Current(n) == IF n = N THEN 0 ELSE n
DoneWith(id, n) == n < N /\ (id = 0 \/ id > n)

\* n ids wait, the current one included, for which m requests were drawn.
DrawAt(n, m) ==
  LET c == Current(n) IN
  /\ tids = Turn(n) /\ DOMAIN offs = Task /\ DOMAIN remain = Task
  /\ \A id \in Task :
       /\ DoneWith(id, n) => offs[id] = InOrder(id, NumReqs(id))
       /\ ~DoneWith(id, n) /\ id # c => offs[id] = <<>> /\ remain[id] = DataSize(id)
  /\ n # 0 =>
       /\ m = 0 \/ m < NumReqs(c)
       /\ offs[c] = InOrder(c, m)
       /\ remain[c] = DataSize(c) - m * ReqSize(c)
       /\ off = At(c, m)
DrawInv == \E n \in 0 .. N : \E m \in 0 .. NumReqs(Current(n)) : DrawAt(n, m)

\* The invariant of requests.
OInv ==
  /\ IInv
  /\ stage \in {"sizes", "offsets", "filling", "died", "short", "xfer", "done", "failed"}
  /\ phase = "read" => written = Whole
  /\ stage = "sizes" => NoOverlap /\ (phase = "read" => BytesOf(xferred) = Whole)
  /\ stage \in {"offsets", "filling", "died", "short"} => xferred = {}
  /\ stage = "offsets" =>
       /\ next = [t \in Task |-> 0] /\ left = [t \in Task |-> DataSize(Id(t))]
       /\ Drawing /\ Dividable => DrawInv
  /\ stage \in {"xfer", "done", "failed"} => XferInv
-------------------------------------------------------------------------------
(* Sizes and requests.                                                     *)

\* The sizes of tasks and requests, once they are there.
SizesThere == \A id \in Task : DataSize(id) \in Nat /\ ReqSize(id) \in Nat

\* The data of an id is cut into requests, of which the last may be short.
LEMMA DataCut ==
  ASSUME SizesThere, Dividable, NEW id \in Task
  PROVE  /\ NumReqs(id) \in Nat /\ LastReq(id) = NumReqs(id) - 1
         /\ ReqSize(id) \in Nat \ {0} /\ DataSize(id) \in Nat
         /\ DataSize(id) = 0 <=> NumReqs(id) = 0
         /\ NumReqs(id) # 0 => Short(id) \in 1 .. ReqSize(id)
         /\ DataSize(id) = LastReq(id) * ReqSize(id) + Short(id)
         /\ Short(id) \in Int /\ LastReq(id) * ReqSize(id) \in Int
<1>1. ReqSize(id) \in Nat \ {0} /\ DataSize(id) \in Nat
  BY DEF SizesThere, Dividable
<1> DEFINE d == DataSize(id)
           r == ReqSize(id)
           n == NumReqs(id)
<1>2. /\ n \in Nat /\ (d = 0 => n = 0)
      /\ d # 0 => n # 0 /\ (n - 1) * r < d /\ d <= n * r
  <2>1. n = Needed(id)
    BY DEF Dividable
  <2> QED BY <1>1, <2>1, RoundsUp DEF Needed
<1>3. LastReq(id) = n - 1 /\ Short(id) = d - (n - 1) * r
  BY DEF LastReq, Short
<1> HIDE DEF d, r, n
<1>4. d \in Nat /\ r \in Nat \ {0}
  BY <1>1 DEF d, r
<1>5. (n - 1) * r = n * r - r /\ n * r \in Int
  BY <1>2, <1>4, TimesNext
<1>6. /\ n # 0 => d - (n - 1) * r \in 1 .. r
      /\ d = 0 <=> n = 0
      /\ d = (n - 1) * r + (d - (n - 1) * r)
      /\ d - (n - 1) * r \in Int /\ (n - 1) * r \in Int
  BY <1>2, <1>4, <1>5, SMT
<1> QED BY <1>1, <1>2, <1>3, <1>6 DEF d, r, n

\* Requests are of some size, within the data, and one after the other.
LEMMA Places ==
  ASSUME SizesThere, Dividable, NEW id \in Task, NEW j \in 0 .. LastReq(id)
  PROVE  /\ Size(id, j) \in 1 .. ReqSize(id)
         /\ j * ReqSize(id) \in Nat
         /\ j * ReqSize(id) + Size(id, j) <= DataSize(id)
         /\ j # LastReq(id) => j * ReqSize(id) + ReqSize(id) <= LastReq(id) * ReqSize(id)
         /\ \A i \in 0 .. LastReq(id) :
              i < j => i * ReqSize(id) + Size(id, i) <= j * ReqSize(id)
<1> DEFINE r == ReqSize(id)
           l == LastReq(id)
<1>1. /\ NumReqs(id) \in Nat /\ l = NumReqs(id) - 1 /\ r \in Nat \ {0}
      /\ NumReqs(id) # 0 => Short(id) \in 1 .. r
      /\ DataSize(id) = l * r + Short(id) /\ l * r \in Int
  BY DataCut
<1>2. NumReqs(id) # 0 /\ l \in Nat /\ j \in Nat
  BY <1>1
<1>3. \A i \in 0 .. l : Size(id, i) = IF i = l THEN Short(id) ELSE r
  BY DEF Size
<1> HIDE DEF r, l
<1>4. j * r \in Nat
  BY <1>1, <1>2, SMT
<1>5. ASSUME NEW i \in 0 .. l, NEW k \in 0 .. l, i < k
      PROVE  i * r + r <= k * r /\ i * r \in Int /\ k * r \in Int
  <2>1. (i + 1) * r <= k * r /\ k * r \in Int
    BY <1>1, <1>2, <1>5, TimesGrows
  <2>2. (i + 1) * r = i * r + r /\ i * r \in Int
    BY <1>1, TimesNext
  <2> QED BY <2>1, <2>2
<1>6. j # l => j * r + r <= l * r
  BY <1>2, <1>5 DEF l
<1>7. Size(id, j) \in 1 .. r /\ j * r + Size(id, j) <= DataSize(id)
  <2>1. CASE j = l
    BY <1>1, <1>2, <1>3, <1>4, <2>1, SMT DEF l
  <2>2. CASE j # l
    BY <1>1, <1>2, <1>3, <1>4, <1>6, <2>2, SMT DEF l
  <2> QED BY <2>1, <2>2
<1>8. ASSUME NEW i \in 0 .. l, i < j PROVE i * r + Size(id, i) <= j * r
  <2>1. i * r + r <= j * r /\ i * r \in Int /\ i # l
    BY <1>1, <1>2, <1>5, <1>8 DEF l
  <2> QED BY <1>1, <1>3, <1>8, <2>1
<1> QED BY <1>4, <1>6, <1>7, <1>8 DEF r, l

\* The data of the first ids.
LEMMA Below ==
  ASSUME SizesThere
  PROVE  /\ DataBelow(0) = 0
         /\ \A k \in 0 .. N : DataBelow(k) \in Nat
         /\ \A id \in Task : DataBelow(id + 1) = DataBelow(id) + DataSize(id)
<1> DEFINE f == [u \in Task |-> DataSize(u)]
<1>1. N \in Nat \ {0} /\ Task = 0 .. N - 1
  BY RequestsAssumption DEF Task
<1>2. \A i \in 0 .. N - 1 : f[i] \in Nat /\ f[i] = DataSize(i)
  BY <1>1 DEF SizesThere
<1>3. \A k : DataBelow(k) = SumFunctionOnSet(f, 0 .. k - 1)
  BY DEF DataBelow
<1> HIDE DEF f
<1>4. /\ SumFunctionOnSet(f, 0 .. 0 - 1) = 0
      /\ \A k \in 0 .. N : SumFunctionOnSet(f, 0 .. k - 1) \in Nat
      /\ \A k \in 0 .. N - 1 :
           SumFunctionOnSet(f, 0 .. (k + 1) - 1) = SumFunctionOnSet(f, 0 .. k - 1) + f[k]
  BY <1>1, <1>2, SumsBelow
<1> QED BY <1>1, <1>2, <1>3, <1>4

\* More ids have no less data.
LEMMA BelowGrows ==
  ASSUME SizesThere, NEW k \in 0 .. N, NEW m \in 0 .. N, k <= m
  PROVE  DataBelow(k) <= DataBelow(m)
<1> DEFINE M == {i \in Nat : k + i <= N => DataBelow(k) <= DataBelow(k + i)}
<1>1. N \in Nat \ {0} /\ Task = 0 .. N - 1
  BY RequestsAssumption DEF Task
<1>2. DataBelow(k) \in Nat
  BY Below
<1>3. 0 \in M
  BY <1>1, <1>2
<1>4. ASSUME NEW i \in Nat, i \in M PROVE i + 1 \in M
  <2>1. ASSUME k + (i + 1) <= N PROVE DataBelow(k) <= DataBelow(k + (i + 1))
    <3>1. k + i \in Task /\ k + i \in 0 .. N /\ (k + i) + 1 = k + (i + 1)
      BY <1>1, <2>1
    <3>2. DataBelow((k + i) + 1) = DataBelow(k + i) + DataSize(k + i)
      BY <3>1, Below
    <3>3. DataSize(k + i) \in Nat /\ DataBelow(k + i) \in Nat
      BY <3>1, Below DEF SizesThere
    <3>4. DataBelow(k) <= DataBelow(k + i)
      BY <1>4, <3>1
    <3> QED BY <1>2, <3>1, <3>2, <3>3, <3>4
  <2> QED BY <2>1
<1> HIDE DEF M
<1>5. m - k \in M
  BY <1>3, <1>4, NatSets
<1>6. k + (m - k) = m
  BY <1>1
<1> QED BY <1>5, <1>6 DEF M

\* Every place below the data of the first ids is one of an id.
LEMMA BelowCovers ==
  ASSUME SizesThere, NEW m \in 0 .. N, NEW c \in Nat, c < DataBelow(m)
  PROVE  \E id \in Task : id < m /\ DataBelow(id) <= c /\ c < DataBelow(id + 1)
<1> DEFINE M == {i \in Nat : i <= N /\ c < DataBelow(i) =>
                   \E id \in Task : id < i /\ DataBelow(id) <= c /\ c < DataBelow(id + 1)}
<1>1. N \in Nat \ {0} /\ Task = 0 .. N - 1
  BY RequestsAssumption DEF Task
<1>2. 0 \in M
  BY Below
<1>3. ASSUME NEW i \in Nat, i \in M PROVE i + 1 \in M
  <2>1. ASSUME i + 1 <= N, c < DataBelow(i + 1)
        PROVE  \E id \in Task : id < i + 1 /\ DataBelow(id) <= c /\ c < DataBelow(id + 1)
    <3>1. i \in Task /\ DataBelow(i) \in Nat
      BY <1>1, <2>1, Below
    <3>2. CASE c < DataBelow(i)
      <4>1. PICK id \in Task : id < i /\ DataBelow(id) <= c /\ c < DataBelow(id + 1)
        BY <1>1, <1>3, <2>1, <3>2
      <4>2. id < i + 1
        BY <1>1, <4>1
      <4> QED BY <4>1, <4>2
    <3>3. CASE DataBelow(i) <= c
      BY <2>1, <3>1, <3>3
    <3> QED BY <3>1, <3>2, <3>3
  <2> QED BY <2>1
<1> HIDE DEF M
<1>4. m \in M
  BY <1>1, <1>2, <1>3, NatSets
<1> QED BY <1>1, <1>4 DEF M
-------------------------------------------------------------------------------
(* Where the data of the ids is.                                           *)

\* The file modes there are.
Mode == wkld.file_mode \in {"NX1", "NXN"}

\* The data of an id lies in its file.
LEMMA Regions ==
  ASSUME SizesThere, Mode, NEW id \in Task
  PROVE  /\ Before(id) \in Nat /\ FileSize(id) \in Nat /\ DataSize(id) \in Nat
         /\ Before(id) + DataSize(id) <= FileSize(id)
         /\ wkld.file_mode = "NXN" => Before(id) = 0 /\ FileSize(id) = DataSize(id)
<1>1. N \in Nat \ {0} /\ Task = 0 .. N - 1 /\ 0 \in Task
  BY RequestsAssumption DEF Task
<1>2. DataSize(id) \in Nat /\ DataSize(0) \in Nat
  BY <1>1 DEF SizesThere
<1>3. /\ DataBelow(0) = 0 /\ DataBelow(id) \in Nat /\ DataBelow(N) \in Nat
      /\ DataBelow(id + 1) \in Nat /\ DataBelow(id + 1) = DataBelow(id) + DataSize(id)
  BY <1>1, Below
<1>4. DataBelow(id + 1) <= DataBelow(N)
  BY <1>1, BelowGrows
<1>5. id # 0 => DataSize(0) <= DataBelow(id)
  <2>1. DataBelow(0 + 1) = DataBelow(0) + DataSize(0)
    BY <1>1, Below
  <2>2. id # 0 => DataBelow(0 + 1) <= DataBelow(id)
    BY <1>1, BelowGrows
  <2> QED BY <1>2, <1>3, <2>1, <2>2
<1>6. CASE wkld.file_mode = "NXN"
  BY <1>2, <1>6 DEF Before, FileSize
<1>7. CASE wkld.file_mode = "NX1"
  <2>1. FileSize(id) = DataBelow(N)
    BY <1>7 DEF FileSize
  <2>2. CASE ~wkld.random
    BY <1>2, <1>3, <1>4, <1>7, <2>1, <2>2 DEF Before
  <2>3. CASE wkld.random
    <3>1. Before(id) = IF id = 0 THEN 0 ELSE DataSize(0) + DataBelow(N) - DataBelow(id + 1)
      BY <1>7, <2>3 DEF Before
    <3>2. CASE id = 0
      BY <1>2, <1>3, <1>4, <1>7, <2>1, <3>1, <3>2
    <3>3. CASE id # 0
      BY <1>2, <1>3, <1>4, <1>5, <1>7, <2>1, <3>1, <3>3
    <3> QED BY <3>2, <3>3
  <2> QED BY <2>2, <2>3
<1> QED BY <1>6, <1>7 DEF Mode

\* The data of two ids in one file lies apart.
LEMMA Apart ==
  ASSUME SizesThere, Mode, NEW i \in Task, NEW k \in Task, i < k, File(i) = File(k)
  PROVE  \/ Before(i) + DataSize(i) <= Before(k)
         \/ Before(k) + DataSize(k) <= Before(i)
<1>1. N \in Nat \ {0} /\ Task = 0 .. N - 1 /\ 0 \in Task
  BY RequestsAssumption DEF Task
<1>2. wkld.file_mode = "NX1"
  BY <1>1 DEF File, Mode
<1>3. /\ DataBelow(i) \in Nat /\ DataBelow(i + 1) \in Nat
      /\ DataBelow(k) \in Nat /\ DataBelow(k + 1) \in Nat /\ DataBelow(N) \in Nat
      /\ DataBelow(i + 1) = DataBelow(i) + DataSize(i)
      /\ DataBelow(k + 1) = DataBelow(k) + DataSize(k)
  BY <1>1, Below
<1>4. DataSize(i) \in Nat /\ DataSize(k) \in Nat /\ DataSize(0) \in Nat
  BY <1>1 DEF SizesThere
<1>5. DataBelow(i + 1) <= DataBelow(k) /\ DataBelow(k + 1) <= DataBelow(N)
  BY <1>1, BelowGrows
<1>6. CASE ~wkld.random
  BY <1>2, <1>3, <1>4, <1>5, <1>6 DEF Before
<1>7. CASE wkld.random
  <2>1. Before(k) = DataSize(0) + DataBelow(N) - DataBelow(k + 1)
    BY <1>1, <1>2, <1>7 DEF Before
  <2>2. CASE i = 0
    <3>1. Before(i) = 0
      BY <1>2, <1>7, <2>2 DEF Before
    <3> QED BY <1>3, <1>4, <1>5, <2>1, <2>2, <3>1
  <2>3. CASE i # 0
    <3>1. Before(i) = DataSize(0) + DataBelow(N) - DataBelow(i + 1)
      BY <1>2, <1>7, <2>3 DEF Before
    <3> QED BY <1>3, <1>4, <1>5, <2>1, <3>1
  <2> QED BY <2>2, <2>3
<1> QED BY <1>6, <1>7 DEF Mode

\* All of a file is the data of some id.
LEMMA Covered ==
  ASSUME SizesThere, Mode, NEW i \in Task, NEW b \in 0 .. FileSize(i) - 1
  PROVE  \E id \in Task : /\ File(id) = File(i)
                          /\ Before(id) <= b /\ b < Before(id) + DataSize(id)
<1>1. N \in Nat \ {0} /\ Task = 0 .. N - 1 /\ 0 \in Task /\ N \in 0 .. N
  BY RequestsAssumption DEF Task
<1>2. CASE wkld.file_mode = "NXN"
  BY <1>2, Regions
<1>3. CASE wkld.file_mode = "NX1"
  <2>1. FileSize(i) = DataBelow(N) /\ DataBelow(N) \in Nat
    BY <1>1, <1>3, Below DEF FileSize
  <2>2. \A id \in Task : File(id) = File(i)
    BY <1>3 DEF File
  <2>3. b \in Nat /\ b < DataBelow(N)
    BY <2>1
  <2>4. CASE ~wkld.random
    <3>1. PICK id \in Task : id < N /\ DataBelow(id) <= b /\ b < DataBelow(id + 1)
      BY <1>1, <2>3, BelowCovers
    <3>2. DataBelow(id + 1) = DataBelow(id) + DataSize(id)
      BY Below
    <3>3. Before(id) = DataBelow(id)
      BY <1>3, <2>4 DEF Before
    <3> QED BY <2>2, <3>1, <3>2, <3>3
  <2>5. CASE wkld.random
    <3>1. DataSize(0) \in Nat /\ DataBelow(0) = 0 /\ DataBelow(0 + 1) = DataBelow(0) + DataSize(0)
      BY <1>1, Below DEF SizesThere
    <3>2. CASE b < DataSize(0)
      <4>1. Before(0) = 0
        BY <1>3, <2>5 DEF Before
      <4> QED BY <1>1, <2>2, <2>3, <3>1, <3>2, <4>1
    <3>3. CASE b >= DataSize(0)
      <4> DEFINE c == DataBelow(N) + DataSize(0) - b - 1
      <4>1. c \in Nat /\ c < DataBelow(N) /\ c >= DataSize(0)
        BY <2>1, <2>3, <3>1, <3>3
      <4>2. PICK id \in Task : id < N /\ DataBelow(id) <= c /\ c < DataBelow(id + 1)
        <5> HIDE DEF c
        <5> QED BY <1>1, <4>1, BelowCovers
      <4>3. /\ DataBelow(id) \in Nat /\ DataSize(id) \in Nat /\ DataBelow(id + 1) \in Nat
            /\ DataBelow(id + 1) = DataBelow(id) + DataSize(id)
        <5>1. id + 1 \in 0 .. N /\ id \in 0 .. N
          BY <1>1
        <5> HIDE DEF c
        <5> QED BY <5>1, Below DEF SizesThere
      <4>4. id # 0
        BY <3>1, <4>1, <4>2
      <4>5. Before(id) = DataSize(0) + DataBelow(N) - DataBelow(id + 1)
        BY <1>3, <2>5, <4>4 DEF Before
      <4>6. Before(id) <= b /\ b < Before(id) + DataSize(id)
        BY <2>1, <2>3, <3>1, <4>2, <4>3, <4>5
      <4> QED BY <2>2, <4>6
    <3> QED BY <2>3, <3>1, <3>2, <3>3
  <2> QED BY <2>4, <2>5
<1> QED BY <1>2, <1>3 DEF Mode

-------------------------------------------------------------------------------
(* The ids tasks act as.                                                   *)

\* Division with a remainder.
LEMMA Quotient ==
  ASSUME NEW n \in Nat, NEW r \in Nat \ {0}
  PROVE  n = r * (n \div r) + (n % r) /\ n \div r \in Int /\ n % r \in 0 .. r - 1
BY SMT

\* No two tasks act as the same id.
LEMMA IdInjective ==
  ASSUME wkld \in Wklds, NEW s \in Task, NEW t \in Task, Id(s) = Id(t)
  PROVE  s = t
<1>1. wkld.read_reorder_offset \in Nat /\ N \in Nat \ {0}
  BY RequestsAssumption DEF Wkld
<1> DEFINE o == wkld.read_reorder_offset
<1>2. CASE phase = "write"
  BY <1>2 DEF Id, IdIn
<1>3. CASE phase # "write"
  <2>1. (s + o) % N = (t + o) % N
    BY <1>3 DEF Id, IdIn
  <2>2. o \in Nat
    BY <1>1
  <2> HIDE DEF o
  <2> DEFINE p == (s + o) \div N
             q == (t + o) \div N
             m == (s + o) % N
  <2>3. /\ s + o = N * p + m /\ t + o = N * q + m
        /\ p \in Int /\ q \in Int /\ m \in Int
    <3>1. s + o \in Nat /\ t + o \in Nat
      BY <1>1, <2>2 DEF Task
    <3>2. \A x \in Nat : /\ x = N * (x \div N) + (x % N) /\ x \div N \in Int
                         /\ x % N \in Int
      BY <1>1, Quotient
    <3>3. s + o = N * p + m /\ p \in Int /\ m \in Int
      BY <3>1, <3>2
    <3>4. t + o = N * q + ((t + o) % N) /\ q \in Int
      BY <3>1, <3>2
    <3> QED BY <2>1, <3>3, <3>4
  <2> HIDE DEF p, q, m
  <2>4. s - t = N * p - N * q /\ N * p \in Int /\ N * q \in Int
    BY <1>1, <2>2, <2>3, SMT DEF Task
  <2>5. N * p = p * N /\ N * q = q * N
    BY <1>1, <2>3, SMT
  <2>6. ASSUME p < q PROVE FALSE
    <3>1. (p + 1) * N <= q * N /\ (p + 1) * N = p * N + N
      BY <1>1, <2>3, <2>6, TimesGrows, TimesNext
    <3> QED BY <1>1, <2>4, <2>5, <3>1 DEF Task
  <2>7. ASSUME q < p PROVE FALSE
    <3>1. (q + 1) * N <= p * N /\ (q + 1) * N = q * N + N
      BY <1>1, <2>3, <2>7, TimesGrows, TimesNext
    <3> QED BY <1>1, <2>4, <2>5, <3>1 DEF Task
  <2>8. p = q
    BY <2>3, <2>6, <2>7
  <2> QED BY <2>4, <2>8 DEF Task
<1> QED BY <1>2, <1>3

\* Every id is one that a task acts as.
LEMMA IdOnto ==
  ASSUME wkld \in Wklds, NEW id \in Task
  PROVE  \E t \in Task : Id(t) = id
<1>1. N \in Nat /\ Task = 0 .. N - 1 /\ IsFiniteSet(Task)
  BY RequestsAssumption, FS_Interval DEF Task
<1> DEFINE f == [t \in Task |-> Id(t)]
<1>2. f \in [Task -> Task]
  BY IdIsTask
<1>3. f \in Injection(Task, Task)
  BY <1>2, IdInjective DEF Injection, IsInjective
<1>4. f \in Surjection(Task, Task)
  BY <1>1, <1>3, FS_Injection
<1> QED BY <1>4 DEF Surjection
-------------------------------------------------------------------------------
(* Lists of offsets.                                                       *)

\* What the lists of offsets are made from.
Ready == SizesThere /\ Mode /\ Dividable

\* Division undoes the product.
LEMMA Divides ==
  ASSUME NEW a \in Nat, NEW r \in Nat \ {0}
  PROVE  (a * r) \div r = a
<1> DEFINE q == (a * r) \div r
           m == (a * r) % r
<1>1. a * r \in Nat
  BY SMT
<1>2. a * r = r * q + m /\ q \in Int /\ m \in 0 .. r - 1
  BY <1>1, Quotient
<1> HIDE DEF q, m
<1>3. r * q = q * r /\ q * r \in Int
  BY <1>2, SMT
<1>4. ASSUME a < q PROVE FALSE
  <2>1. (a + 1) * r <= q * r /\ (a + 1) * r = a * r + r
    BY <1>2, <1>4, TimesGrows, TimesNext
  <2> QED BY <1>1, <1>2, <1>3, <2>1
<1>5. ASSUME q < a PROVE FALSE
  <2>1. (q + 1) * r <= a * r /\ (q + 1) * r = q * r + r
    BY <1>2, <1>5, TimesGrows, TimesNext
  <2> QED BY <1>1, <1>2, <1>3, <2>1
<1> QED BY <1>2, <1>4, <1>5 DEF q

\* An offset tells the place of its request.
LEMMA PlaceOf ==
  ASSUME Ready, NEW id \in Task, NEW k, NEW j \in 0 .. LastReq(id),
         offs[id][k] = At(id, j)
  PROVE  Place(id, k) = j /\ At(id, j) \in Nat
<1>1. ReqSize(id) \in Nat \ {0} /\ LastReq(id) \in Int
  BY DataCut DEF Ready
<1>2. Before(id) \in Nat
  BY Regions DEF Ready
<1>3. j \in Nat
  BY <1>1
<1> DEFINE p == j * ReqSize(id)
<1>4. p \in Nat /\ p \div ReqSize(id) = j
  BY <1>1, <1>3, Divides, SMT
<1>5. At(id, j) = Before(id) + p
  BY DEF At
<1> HIDE DEF p
<1>6. At(id, j) - Before(id) = p /\ At(id, j) \in Nat
  BY <1>2, <1>4, <1>5
<1> QED BY <1>4, <1>6 DEF Place

\* A list in order is a list of the places.
LEMMA InOrderListed ==
  ASSUME Ready, NEW id \in Task, offs[id] = InOrder(id, NumReqs(id))
  PROVE  Listed(id)
<1>1. NumReqs(id) \in Nat /\ LastReq(id) = NumReqs(id) - 1
  BY DataCut DEF Ready
<1>2. \A k \in 1 .. NumReqs(id) : offs[id][k] = At(id, k - 1) /\ k - 1 \in 0 .. LastReq(id)
  BY <1>1 DEF InOrder
<1>3. \A k \in 1 .. NumReqs(id) : Place(id, k) = k - 1 /\ At(id, k - 1) \in Nat
  BY <1>2, PlaceOf
<1>4. offs[id] \in [1 .. NumReqs(id) -> Nat]
  BY <1>3 DEF InOrder
<1>5. \A j \in 0 .. LastReq(id) : j + 1 \in 1 .. NumReqs(id) /\ (j + 1) - 1 = j
  BY <1>1
<1>6. \A j \in 0 .. LastReq(id) : \E k \in 1 .. NumReqs(id) : Place(id, k) = j
  BY <1>3, <1>5
<1>7. \A k, m \in 1 .. NumReqs(id) : Place(id, k) = Place(id, m) => k = m
  BY <1>1, <1>3
<1> QED BY <1>2, <1>3, <1>4, <1>6, <1>7 DEF Listed

\* Whatever order the offsets are shuffled to, each is there once.
LEMMA ShuffledListed ==
  ASSUME Ready, wkld.file_mode = "NXN", NEW id \in Task,
         LET inOrder == [k \in 1 .. NumReqs(id) |-> (k - 1) * ReqSize(id)]
         IN  offs[id] \in SetToSeqs(ToSet(inOrder))
  PROVE  Listed(id)
<1> DEFINE n == NumReqs(id)
           r == ReqSize(id)
           g == [k \in 1 .. n |-> (k - 1) * r]
           S == ToSet(g)
           f == offs[id]
<1>1. n \in Nat /\ LastReq(id) = n - 1 /\ r \in Nat \ {0}
  BY DataCut DEF Ready
<1>2. Before(id) = 0
  BY Regions DEF Ready
<1>3. \A k \in 1 .. n : g[k] = At(id, k - 1) /\ k - 1 \in 0 .. LastReq(id)
  <2>1. \A k \in 1 .. n : k - 1 \in Nat /\ (k - 1) * r \in Nat
    BY <1>1, SMT
  <2>2. \A k \in 1 .. n : g[k] = (k - 1) * r /\ At(id, k - 1) = 0 + (k - 1) * r
    BY <1>2 DEF At
  <2> HIDE DEF g, n, r
  <2> QED BY <1>1, <2>1, <2>2
<1>4. S = {g[k] : k \in 1 .. n}
  BY DEF ToSet
<1>5. g \in Injection(1 .. n, S) /\ g \in Surjection(1 .. n, S)
  <2>1. g \in [1 .. n -> S]
    BY <1>4
  <2>2. ASSUME NEW k \in 1 .. n, NEW m \in 1 .. n, g[k] = g[m] PROVE k = m
    <3>1. (k - 1) * r = (m - 1) * r
      BY <2>2
    <3>2. ((k - 1) * r) \div r = k - 1 /\ ((m - 1) * r) \div r = m - 1
      <4>1. \A a \in Nat : (a * r) \div r = a
        BY <1>1, Divides
      <4>2. k - 1 \in Nat /\ m - 1 \in Nat
        BY <1>1
      <4> QED BY <4>1, <4>2
    <3>3. k - 1 = m - 1
      BY <3>1, <3>2, Zenon
    <3> QED BY <3>3
  <2>3. \A x \in S : \E k \in 1 .. n : g[k] = x
    BY <1>4
  <2> HIDE DEF g, S, n, r
  <2>4. DOMAIN g = 1 .. n
    BY <2>1
  <2> QED BY <2>1, <2>2, <2>3, <2>4 DEF Injection, IsInjective, Surjection
<1>6. IsFiniteSet(S) /\ Cardinality(S) = n
  <2> HIDE DEF g, S, n, r
  <2>1. IsFiniteSet(1 .. n) /\ Cardinality(1 .. n) = n
    BY <1>1, FS_Interval
  <2> QED BY <1>5, <2>1, FS_Surjection
<1>7. f \in [1 .. Cardinality(S) -> S]
      /\ \A i, j \in 1 .. Cardinality(S) : i # j => f[i] # f[j]
  BY Zenon DEF SetToSeqs
<1> HIDE DEF g, S, n, r, f
<1>8. f \in Injection(1 .. n, S)
  BY <1>6, <1>7 DEF Injection, IsInjective
<1>9. f \in Surjection(1 .. n, S)
  <2>1. IsFiniteSet(1 .. n) /\ Cardinality(1 .. n) = n
    BY <1>1, FS_Interval
  <2> QED BY <1>6, <1>8, <2>1, FS_Injection
<1>10. ASSUME NEW k \in 1 .. n
       PROVE  \E j \in 0 .. LastReq(id) : f[k] = At(id, j) /\ Place(id, k) = j
                                        /\ At(id, j) \in Nat
  <2>1. PICK m \in 1 .. n : f[k] = g[m]
    BY <1>4, <1>6, <1>7
  <2>2. f[k] = At(id, m - 1) /\ m - 1 \in 0 .. LastReq(id)
    BY <1>3, <2>1
  <2>3. Place(id, k) = m - 1 /\ At(id, m - 1) \in Nat
    BY <2>2, PlaceOf DEF f
  <2> QED BY <2>2, <2>3
<1>11. f \in [1 .. n -> Nat]
  BY <1>6, <1>7, <1>10
<1>12. \A k \in 1 .. n : Place(id, k) \in 0 .. LastReq(id) /\ f[k] = At(id, Place(id, k))
  BY <1>10
<1>13. ASSUME NEW k \in 1 .. n, NEW m \in 1 .. n, Place(id, k) = Place(id, m) PROVE k = m
  BY <1>6, <1>7, <1>12, <1>13
<1>14. ASSUME NEW j \in 0 .. LastReq(id) PROVE \E k \in 1 .. n : Place(id, k) = j
  <2>1. j + 1 \in 1 .. n /\ (j + 1) - 1 = j
    BY <1>1
  <2>2. g[j + 1] = At(id, j) /\ g[j + 1] \in S
    BY <1>3, <1>4, <2>1
  <2>3. PICK k \in 1 .. n : f[k] = At(id, j)
    BY <1>9, <2>2 DEF Surjection
  <2>4. Place(id, k) = j
    BY <2>3, PlaceOf DEF f
  <2> QED BY <2>4
<1> QED BY <1>11, <1>12, <1>13, <1>14 DEF Listed, n, f

\* The lists that the preparation may make.
Given(id) == offs[id] \in IF wkld.file_mode = "NXN" THEN Offs_NXN(id) ELSE Offs_NX1Seq(id)

\* So are the lists of test_offs_prep() that are not drawn.
LEMMA GivenListed ==
  Ready /\ ~Drawing /\ (\A id \in Task : Given(id)) => \A id \in Task : Listed(id)
<1> SUFFICES ASSUME Ready, ~Drawing, NEW id \in Task, Given(id)
             PROVE  Listed(id)
  OBVIOUS
<1>1. \A m, j : At(id, j) = Before(id) + j * ReqSize(id)
  BY DEF At
<1>2. ReqSize(id) \in Nat /\ NumReqs(id) \in Nat
  BY DataCut DEF Ready
<1>3. CASE wkld.file_mode = "NXN"
  <2>1. CASE wkld.random
    <3>1. LET inOrder == [k \in 1 .. NumReqs(id) |-> (k - 1) * ReqSize(id)]
          IN  offs[id] \in SetToSeqs(ToSet(inOrder))
      BY <1>3, <2>1 DEF Given, Offs_NXN
    <3> QED BY <1>3, <3>1, ShuffledListed
  <2>2. CASE ~wkld.random
    <3>1. offs[id] = [k \in 1 .. NumReqs(id) |-> (k - 1) * ReqSize(id)]
      BY <1>3, <2>2 DEF Given, Offs_NXN
    <3>2. \A k \in 1 .. NumReqs(id) : (k - 1) * ReqSize(id) = At(id, k - 1)
      <4>1. \A k \in 1 .. NumReqs(id) : (k - 1) * ReqSize(id) \in Int
        BY <1>2, SMT
      <4>2. Before(id) = 0
        BY <1>3, Regions DEF Ready
      <4> QED BY <4>1, <4>2 DEF At
    <3>3. offs[id] = InOrder(id, NumReqs(id))
      BY <3>1, <3>2, Zenon DEF InOrder
    <3> QED BY <3>3, InOrderListed
  <2> QED BY <2>1, <2>2
<1>4. CASE wkld.file_mode = "NX1"
  <2>1. Before(id) = DataBelow(id)
    BY <1>4 DEF Before, Drawing
  <2>2. offs[id] = [k \in 1 .. NumReqs(id) |-> DataBelow(id) + (k - 1) * ReqSize(id)]
    BY <1>4, Zenon DEF Given, Offs_NX1Seq
  <2>3. offs[id] = InOrder(id, NumReqs(id))
    BY <2>1, <2>2, Zenon DEF InOrder, At
  <2> QED BY <2>3, InOrderListed
<1> QED BY <1>3, <1>4 DEF Ready, Mode
-------------------------------------------------------------------------------
(* Transfers.                                                              *)

\* Before the first request all of the data is left.
LEMMA XferStart ==
  /\ Ready /\ wkld \in Wklds
  /\ \A id \in Task : Listed(id)
  /\ next = [t \in Task |-> 0] /\ left = [t \in Task |-> DataSize(Id(t))]
  /\ xferred = {}
  => XferInv
<1> SUFFICES ASSUME Ready, wkld \in Wklds, \A id \in Task : Listed(id),
                    next = [t \in Task |-> 0], left = [t \in Task |-> DataSize(Id(t))],
                    xferred = {}
             PROVE  XferInv
  OBVIOUS
<1>1. \A t \in Task : Id(t) \in Task
  BY IdIsTask
<1>2. next \in [Task -> Nat] /\ left \in [Task -> Nat]
  BY <1>1 DEF Ready, SizesThere
<1>3. ASSUME NEW t \in Task PROVE Made(t)
  <2>1. /\ NumReqs(Id(t)) \in Nat
        /\ DataSize(Id(t)) = LastReq(Id(t)) * ReqSize(Id(t)) + Short(Id(t))
        /\ LastReq(Id(t)) \in Int
    BY <1>1, DataCut DEF Ready
  <2>2. ~Ended(Id(t), 0)
    BY DEF Ended
  <2>3. LastReq(Id(t)) - 0 = LastReq(Id(t))
    BY <2>1
  <2>4. LeftAfter(Id(t), 0) = DataSize(Id(t))
    BY <2>1, <2>2, <2>3, Zenon DEF LeftAfter
  <2>5. next[t] = 0 /\ left[t] = DataSize(Id(t))
    BY Zenon
  <2>6. 0 \in 0 .. NumReqs(Id(t))
    BY <2>1
  <2> QED BY <1>1, <2>4, <2>5, <2>6, Zenon DEF Made
<1>4. \A t \in Task : 1 .. next[t] = {}
  <2>1. 1 .. 0 = {}
    OBVIOUS
  <2> QED BY <2>1, Zenon
<1>5. \A x : x \in xferred <=>
        \E t, id \in Task : Id(t) = id /\ \E k \in 1 .. next[t] : x \in Block(id, k)
  BY <1>4
<1> QED BY <1>2, <1>3, <1>5, Zenon DEF XferInv, Ready

\* What is left after the first n requests of an id.
LEMMA Leaves ==
  ASSUME Ready, NEW id \in Task, Listed(id), NEW n \in 0 .. NumReqs(id)
  PROVE  /\ LeftAfter(id, n) \in Nat
         /\ LeftAfter(id, n) = 0 <=> n = NumReqs(id)
         /\ n < NumReqs(id) =>
              /\ LeftAfter(id, n + 1) = LeftAfter(id, n) - Size(id, Place(id, n + 1))
              /\ Size(id, Place(id, n + 1)) <= LeftAfter(id, n)
              /\ wkld.file_mode = "NX1" /\ Place(id, n + 1) = LastReq(id) =>
                   LeftAfter(id, n) = Size(id, Place(id, n + 1))
<1> DEFINE r == ReqSize(id)
           l == LastReq(id)
           s == Short(id)
           m == NumReqs(id)
<1>1. /\ m \in Nat /\ l = m - 1 /\ r \in Nat \ {0} /\ s \in Int
      /\ m # 0 => s \in 1 .. r
      /\ m = 0 => l * r + s = 0
      /\ l * r \in Int
  BY DataCut DEF Ready
<1>2. LeftAfter(id, n) = IF Ended(id, n) THEN (m - n) * r ELSE (l - n) * r + s
  BY DEF LeftAfter
<1>3. LeftAfter(id, n + 1) = IF Ended(id, n + 1) THEN (m - (n + 1)) * r ELSE (l - (n + 1)) * r + s
  BY DEF LeftAfter
<1>4. n = m /\ m # 0 => Ended(id, n)
  <2>1. l \in 0 .. l \/ m = 0
    BY <1>1
  <2> QED BY <2>1 DEF Listed, Ended
<1>5. \A j \in 0 .. l : Size(id, j) = IF j = l THEN s ELSE r
  BY DEF Size
<1>6. n < m => Place(id, n + 1) \in 0 .. l
  <2>1. n < m => n + 1 \in 1 .. m
    BY <1>1
  <2> QED BY <2>1 DEF Listed
<1>7. n < m => (Ended(id, n + 1) <=> Ended(id, n) \/ Place(id, n + 1) = l)
  <2>1. 1 .. n + 1 = 1 .. n \cup {n + 1}
    BY <1>1
  <2> QED BY <2>1 DEF Ended
<1>8. n < m /\ Ended(id, n) => Place(id, n + 1) # l /\ n + 1 <= m
  <2> SUFFICES ASSUME n < m, Ended(id, n), Place(id, n + 1) = l PROVE FALSE
    BY <1>1
  <2>1. PICK k \in 1 .. n : Place(id, k) = l
    BY DEF Ended
  <2>2. k \in 1 .. m /\ n + 1 \in 1 .. m /\ k # n + 1
    BY <1>1
  <2> QED BY <2>1, <2>2 DEF Listed
<1>9. n < m /\ ~Ended(id, n) /\ Place(id, n + 1) # l => n + 1 <= l
  <2> SUFFICES ASSUME n < m, ~Ended(id, n), Place(id, n + 1) # l PROVE n + 1 <= l
    OBVIOUS
  <2>1. l \in 0 .. l
    BY <1>1
  <2>2. PICK k \in 1 .. m : Place(id, k) = l
    BY <2>1 DEF Listed
  <2>3. k \notin 1 .. n /\ k # n + 1
    BY <2>2 DEF Ended
  <2> QED BY <1>1, <2>3
<1>10. wkld.file_mode = "NX1" /\ n < m => Place(id, n + 1) = n
  <2> SUFFICES ASSUME wkld.file_mode = "NX1", n < m PROVE Place(id, n + 1) = n
    OBVIOUS
  <2>1. offs[id] = InOrder(id, NumReqs(id)) /\ n + 1 \in 1 .. NumReqs(id)
    BY <1>1 DEF Listed
  <2>2. offs[id][n + 1] = At(id, (n + 1) - 1) /\ (n + 1) - 1 = n /\ n \in 0 .. LastReq(id)
    BY <1>1, <2>1 DEF InOrder
  <2> QED BY <2>2, PlaceOf
<1> DEFINE p == Place(id, n + 1)
           e == Ended(id, n)
           f == Ended(id, n + 1)
           z == Size(id, p)
<1>11. n < m => z = IF p = l THEN s ELSE r
  BY <1>5, <1>6
<1> HIDE DEF r, l, s, m, p, e, f, z
<1>12. n \in Nat /\ n <= m
  BY <1>1 DEF m
<1>13. /\ (m - n) * r \in Int /\ (l - n) * r \in Int
       /\ (m - (n + 1)) * r = (m - n) * r - r
       /\ (l - (n + 1)) * r = (l - n) * r - r
       /\ (m - n) * r = (l - n) * r + r
  <2>1. m - (n + 1) = (m - n) - 1 /\ l - (n + 1) = (l - n) - 1 /\ (m - n) - 1 = l - n
        /\ m - n \in Int /\ l - n \in Int
    BY <1>1, <1>12
  <2>2. ((m - n) - 1) * r = (m - n) * r - r /\ (m - n) * r \in Int
        /\ ((l - n) - 1) * r = (l - n) * r - r /\ (l - n) * r \in Int
    BY <1>1, <2>1, TimesNext
  <2> QED BY <1>1, <2>1, <2>2
<1>14. n < m => (l - n) * r >= 0
  <2>1. n < m => l - n \in Nat
    BY <1>1, <1>12
  <2>2. n < m => (l - n) * r \in Nat
    BY <1>1, <2>1, SMT
  <2> QED BY <2>2
<1>15. n + 1 <= l => (l - n) * r >= r
  <2> SUFFICES ASSUME n + 1 <= l PROVE (l - n) * r >= r
    OBVIOUS
  <2>1. l - (n + 1) \in Nat
    BY <1>1, <1>12
  <2>2. (l - (n + 1)) * r \in Nat
    BY <1>1, <2>1, SMT
  <2> QED BY <1>1, <1>13, <2>2
<1>16. n = m => (m - n) * r = 0 /\ (m = 0 => (l - n) * r + s = 0)
  <2>1. n = m => m - n = 0
    BY <1>1
  <2>2. 0 * r = 0
    BY <1>1, SMT
  <2>3. m = 0 /\ n = m => l - n = l
    BY <1>1
  <2> QED BY <1>1, <2>1, <2>2, <2>3
<1>17. n < m /\ p = l /\ wkld.file_mode = "NX1" => n = l /\ (l - n) * r = 0
  <2>1. n < m /\ p = l /\ wkld.file_mode = "NX1" => n = l /\ l - n = 0
    BY <1>1, <1>10, <1>12 DEF m, p
  <2>2. 0 * r = 0
    BY <1>1, SMT
  <2> QED BY <2>1, <2>2
<1> DEFINE a == LeftAfter(id, n)
           b == LeftAfter(id, n + 1)
           u == (m - n) * r
           v == (l - n) * r
<1>18. a = (IF e THEN u ELSE v + s) /\ b = (IF f THEN u - r ELSE v - r + s)
  BY <1>2, <1>3, <1>13, Zenon DEF e, f, m, l, r, s
<1>19. /\ u \in Int /\ v \in Int /\ u = v + r
       /\ n < m => v >= 0
       /\ n + 1 <= l => v >= r
       /\ n = m => u = 0 /\ (m = 0 => v + s = 0)
       /\ n < m /\ p = l /\ wkld.file_mode = "NX1" => v = 0
  BY <1>13, <1>14, <1>15, <1>16, <1>17
<1>20. /\ n = m /\ m # 0 => e
       /\ n < m => (f <=> e \/ p = l)
       /\ n < m /\ e => p # l
       /\ n < m /\ ~e /\ p # l => n + 1 <= l
  BY <1>4, <1>7, <1>8, <1>9 DEF e, f, p, m, l
<1> HIDE DEF a, b, u, v
<1>21. CASE n = m
  <2>1. a = 0
    BY <1>12, <1>18, <1>19, <1>20, <1>21
  <2> QED BY <1>12, <1>21, <2>1 DEF a, m
<1>22. CASE n < m
  <2>1. CASE e
    <3>1. a = u /\ b = u - r /\ z = r /\ p # l
      BY <1>11, <1>18, <1>20, <1>22, <2>1
    <3>2. a \in Nat /\ a # 0 /\ b = a - z /\ z <= a
      BY <1>1, <1>19, <1>22, <3>1
    <3> QED BY <1>12, <1>22, <3>1, <3>2 DEF a, b, z, p, l, m
  <2>2. CASE ~e /\ p = l
    <3>1. a = v + s /\ b = u - r /\ z = s
      BY <1>11, <1>18, <1>20, <1>22, <2>2
    <3>2. a \in Nat /\ a # 0 /\ b = a - z /\ z <= a /\ (wkld.file_mode = "NX1" => a = z)
      BY <1>1, <1>12, <1>19, <1>22, <2>2, <3>1
    <3> QED BY <1>12, <1>22, <3>1, <3>2 DEF a, b, z, p, l, m
  <2>3. CASE ~e /\ p # l
    <3>1. a = v + s /\ b = v - r + s /\ z = r /\ v >= r
      BY <1>11, <1>18, <1>19, <1>20, <1>22, <2>3
    <3>2. a \in Nat /\ a # 0 /\ b = a - z /\ z <= a
      BY <1>1, <1>12, <1>19, <1>22, <3>1
    <3> QED BY <1>12, <1>22, <2>3, <3>1, <3>2 DEF a, b, z, p, l, m
  <2> QED BY <2>1, <2>2, <2>3
<1>23. n = m \/ n < m
  BY <1>1, <1>12
<1> QED BY <1>21, <1>22, <1>23, Zenon
\* The next request of a task is that of the next offset of its list, and as large
\* as its place calls for.
LEMMA NextRequest ==
  ASSUME Ready, wkld \in Wklds, XferInv, NEW t \in Task, left[t] > 0
  PROVE  /\ next[t] \in Nat /\ next[t] + 1 \in 1 .. NumReqs(Id(t))
         /\ Request(t) = Size(Id(t), Place(Id(t), next[t] + 1))
         /\ Requested(t) = Block(Id(t), next[t] + 1)
         /\ left[t] - Request(t) \in Nat
         /\ left[t] - Request(t) = LeftAfter(Id(t), next[t] + 1)
<1> DEFINE id == Id(t)
           n == next[t]
           j == Place(id, n + 1)
           o == offs[id][n + 1]
           r == ReqSize(id)
           l == LastReq(id)
<1>1. id \in Task /\ Listed(id) /\ Made(t)
  BY IdIsTask DEF XferInv
<1>2. /\ NumReqs(id) \in Nat /\ l = NumReqs(id) - 1 /\ r \in Nat \ {0}
      /\ DataSize(id) = l * r + Short(id)
      /\ Short(id) \in Int /\ l * r \in Int
  BY <1>1, DataCut DEF Ready
<1>3. n \in 0 .. NumReqs(id) /\ left[t] = LeftAfter(id, n)
  BY <1>1 DEF Made
<1>4. n \in Nat /\ n < NumReqs(id) /\ n + 1 \in 1 .. NumReqs(id)
  <2> HIDE DEF id, n
  <2>1. LeftAfter(id, n) = 0 <=> n = NumReqs(id)
    BY <1>1, <1>3, Leaves
  <2>2. left[t] # 0
    OBVIOUS
  <2>3. n # NumReqs(id)
    BY <1>3, <2>1, <2>2
  <2>4. n \in Nat /\ n < NumReqs(id) /\ n + 1 \in 1 .. NumReqs(id)
    BY <1>2, <1>3, <2>3
  <2> QED BY <2>4 DEF n, id
<1>5. /\ LeftAfter(id, n) \in Nat
      /\ LeftAfter(id, n + 1) = LeftAfter(id, n) - Size(id, j)
      /\ Size(id, j) <= LeftAfter(id, n)
      /\ wkld.file_mode = "NX1" /\ j = l => LeftAfter(id, n) = Size(id, j)
  <2> HIDE DEF id, n
  <2> QED BY <1>1, <1>3, <1>4, Leaves DEF j, l
<1>6. j \in 0 .. l /\ o = At(id, j)
  <2> HIDE DEF id, n
  <2> QED BY <1>1, <1>4 DEF Listed, j, o, l
<1>7. /\ Size(id, j) \in 1 .. r /\ j * r \in Nat
      /\ j * r + Size(id, j) <= DataSize(id)
  BY <1>1, <1>6, Places DEF Ready
<1>8. /\ Before(id) \in Nat /\ FileSize(id) \in Nat /\ DataSize(id) \in Nat
      /\ Before(id) + DataSize(id) <= FileSize(id)
      /\ wkld.file_mode = "NXN" => Before(id) = 0 /\ FileSize(id) = DataSize(id)
  BY <1>1, Regions DEF Ready
<1>9. Size(id, j) = IF j = l THEN Short(id) ELSE r
  BY DEF Size
<1>10. o = Before(id) + j * r
  BY <1>6 DEF At
<1>11. Request(t) = LET full == IF r < left[t] THEN r ELSE left[t] IN
                    IF o > FileSize(id) THEN full
                    ELSE IF FileSize(id) - o < full THEN FileSize(id) - o ELSE full
  BY Zenon DEF Request, Smaller
<1>12. wkld.file_mode \in {"NX1", "NXN"}
  BY DEF Ready, Mode
<1> DEFINE z == Size(id, j)
           q == j * r
           b == Before(id)
           w == FileSize(id)
           a == LeftAfter(id, n)
<1>13. Request(t) = z
  <2>1. /\ a \in Nat /\ z <= a /\ z \in 1 .. r /\ b \in Nat /\ w \in Nat /\ q \in Nat
        /\ r \in Nat /\ o = b + q /\ q + z <= DataSize(id) /\ DataSize(id) \in Nat
        /\ b + DataSize(id) <= w
        /\ j # l => z = r
    BY <1>2, <1>5, <1>7, <1>8, <1>9, <1>10
  <2>2. j = l => q + z = DataSize(id)
    BY <1>2, <1>9
  <2>3. wkld.file_mode = "NX1" /\ j = l => a = z
    BY <1>5
  <2>4. wkld.file_mode = "NXN" => b = 0 /\ w = DataSize(id)
    BY <1>8
  <2>5. Request(t) = LET full == IF r < a THEN r ELSE a IN
                    IF o > w THEN full
                    ELSE IF w - o < full THEN w - o ELSE full
    BY <1>3, <1>11
  <2> DEFINE d == DataSize(id)
  <2>6. /\ q + z <= d /\ d \in Nat /\ b + d <= w
        /\ j = l => q + z = d
        /\ wkld.file_mode = "NXN" => b = 0 /\ w = d
    BY <2>1, <2>2, <2>4
  <2> HIDE DEF a, z, b, w, q, r, o, l, j, d
  <2>7. ~(o > w) /\ w - o \in Nat /\ z <= w - o
    BY <2>1, <2>6
  <2> DEFINE full == IF r < a THEN r ELSE a
  <2>8. full \in Nat /\ z <= full /\ full <= r /\ full <= a
    BY <2>1
  <2>9. Request(t) = IF w - o < full THEN w - o ELSE full
    BY <2>5, <2>7
  <2>10. j # l => full = z
    BY <2>1, <2>8
  <2>11. j = l => w - o = z \/ a = z
    BY <1>12, <2>1, <2>3, <2>6
  <2> HIDE DEF full
  <2> QED BY <2>1, <2>7, <2>8, <2>9, <2>10, <2>11
<1>14. Requested(t) = Block(id, n + 1)
  <2>1. Requested(t) = { <<File(id), x, id, n>> : x \in o .. o + Request(t) - 1 }
    BY Zenon DEF Requested
  <2>2. Block(id, n + 1) = { <<File(id), x, id, (n + 1) - 1>> : x \in o .. o + z - 1 }
    BY Zenon DEF Block
  <2>3. (n + 1) - 1 = n
    BY <1>4
  <2> QED BY <1>13, <2>1, <2>2, <2>3, Zenon
<1>15. left[t] - Request(t) \in Nat /\ left[t] - Request(t) = LeftAfter(id, n + 1)
  <2>1. a \in Nat /\ z \in Nat /\ z <= a
    BY <1>5, <1>7
  <2>2. a - z \in Nat
    <3> HIDE DEF a, z
    <3> QED BY <2>1
  <2>3. left[t] - Request(t) = a - z /\ LeftAfter(id, n + 1) = a - z
    BY <1>3, <1>5, <1>13
  <2> QED BY <2>2, <2>3, Zenon
<1> QED BY <1>4, <1>13, <1>14, <1>15

\* Tasks that make one request each.
Transfers(A) ==
  /\ \A t \in A : left[t] > 0
  /\ next' = [t \in Task |-> IF t \in A THEN next[t] + 1 ELSE next[t]]
  /\ left' = [t \in Task |-> IF t \in A THEN left[t] - Request(t) ELSE left[t]]
  /\ xferred' = xferred \cup UNION {Requested(t) : t \in A}
  /\ UNCHANGED <<wkld, phase, sizeVars, offs>>

\* What depends on the sizes stays as they do.
LEMMA SameSizes ==
  ASSUME UNCHANGED <<wkld, sizeVars>>
  PROVE  /\ \A id : /\ DataSize(id)' = DataSize(id) /\ ReqSize(id)' = ReqSize(id)
                    /\ NumReqs(id)' = NumReqs(id) /\ LastReq(id)' = LastReq(id)
                    /\ Short(id)' = Short(id) /\ DataBelow(id)' = DataBelow(id)
                    /\ FileSize(id)' = FileSize(id) /\ File(id)' = File(id)
                    /\ Before(id)' = Before(id)
                    /\ \A j : At(id, j)' = At(id, j)
                    /\ \A n : InOrder(id, n)' = InOrder(id, n)
                    /\ InOrder(id, NumReqs(id))' = InOrder(id, NumReqs(id))
         /\ Dividable' = Dividable /\ SizesThere' = SizesThere /\ Mode' = Mode
         /\ Ready' = Ready /\ Whole' = Whole
<1>1. data_sizes' = data_sizes /\ req_sizes' = req_sizes /\ wkld' = wkld
  BY DEF sizeVars
<1>2. \A id : DataSize(id)' = DataSize(id) /\ ReqSize(id)' = ReqSize(id)
  BY <1>1, Zenon DEF DataSize, ReqSize
<1>3. \A id : NumReqs(id)' = NumReqs(id) /\ Needed(id)' = Needed(id)
  BY <1>2, Zenon DEF NumReqs, Needed
<1>4. \A id : LastReq(id)' = LastReq(id)
  BY <1>3, Zenon DEF LastReq
<1>5. \A id : Short(id)' = Short(id)
  BY <1>2, <1>4, Zenon DEF Short
<1>6. \A id : DataBelow(id)' = DataBelow(id)
  BY <1>2, Zenon DEF DataBelow
<1>7. \A id : FileSize(id)' = FileSize(id) /\ File(id)' = File(id)
  BY <1>1, <1>2, <1>6, Zenon DEF FileSize, File
<1>8. \A id : Before(id)' = Before(id)
  BY <1>1, <1>2, <1>6, Zenon DEF Before
<1>9. Dividable' = Dividable /\ SizesThere' = SizesThere
  BY <1>2, <1>3, Zenon DEF Dividable, SizesThere
<1>10. Mode' = Mode
  BY <1>1 DEF Mode
<1>11. Ready' = Ready
  BY <1>9, <1>10, Zenon DEF Ready
<1>12. Whole' = Whole
  BY <1>7, Zenon DEF Whole
<1>13. \A id, j : At(id, j)' = At(id, j)
  BY <1>2, <1>8, Zenon DEF At
<1>14. \A id, n : InOrder(id, n)' = InOrder(id, n)
  BY <1>13, Zenon DEF InOrder
<1>15. \A id : InOrder(id, NumReqs(id))' = InOrder(id, NumReqs(id))
  <2> SUFFICES ASSUME NEW id PROVE InOrder(id, NumReqs(id))' = InOrder(id, NumReqs(id))
    OBVIOUS
  <2>1. NumReqs(id)' = NumReqs(id) /\ \A k : At(id, k - 1)' = At(id, k - 1)
    BY <1>3, <1>13
  <2> QED BY <2>1, Zenon DEF InOrder
<1> QED BY <1>2, <1>3, <1>4, <1>5, <1>6, <1>7, <1>8, <1>9, <1>10, <1>11, <1>12,
           <1>13, <1>14, <1>15, Zenon

\* The lists and the requests do too.
LEMMA SameLists ==
  ASSUME UNCHANGED <<wkld, phase, sizeVars, offs>>
  PROVE  /\ \A t : Id(t)' = Id(t)
         /\ \A id : /\ \A k : Place(id, k)' = Place(id, k) /\ Block(id, k)' = Block(id, k)
                    /\ \A n : LeftAfter(id, n)' = LeftAfter(id, n)
                    /\ Listed(id)' = Listed(id)
<1>1. offs' = offs /\ wkld' = wkld /\ phase' = phase
  OBVIOUS
<1>2. UNCHANGED <<wkld, sizeVars>>
  OBVIOUS
<1>3. \A id : /\ DataSize(id)' = DataSize(id) /\ ReqSize(id)' = ReqSize(id)
              /\ NumReqs(id)' = NumReqs(id) /\ LastReq(id)' = LastReq(id)
              /\ Short(id)' = Short(id) /\ File(id)' = File(id)
              /\ Before(id)' = Before(id)
              /\ \A j : At(id, j)' = At(id, j)
              /\ InOrder(id, NumReqs(id))' = InOrder(id, NumReqs(id))
  BY <1>2, SameSizes, Zenon
<1>4. \A t : Id(t)' = Id(t)
  BY <1>1, Zenon DEF Id, IdIn
<1>7. \A id, k : Place(id, k)' = Place(id, k)
  BY <1>1, <1>3, Zenon DEF Place
<1>8. \A id, k : Block(id, k)' = Block(id, k)
  <2>1. \A id, k : Size(id, Place(id, k))' = Size(id, Place(id, k))
    BY <1>3, <1>7, Zenon DEF Size
  <2> QED BY <1>1, <1>3, <2>1, Zenon DEF Block
<1>9. \A id, n : LeftAfter(id, n)' = LeftAfter(id, n)
  <2>1. \A id, n : Ended(id, n)' = Ended(id, n)
    BY <1>3, <1>7, Zenon DEF Ended
  <2> QED BY <1>3, <2>1, Zenon DEF LeftAfter
<1>10. \A id : Listed(id)' = Listed(id)
  <2>1. \A id, k : At(id, Place(id, k))' = At(id, Place(id, k))
    BY <1>3, <1>7, Zenon DEF At
  <2> QED BY <1>1, <1>3, <1>7, <2>1, Zenon DEF Listed
<1> QED BY <1>4, <1>7, <1>8, <1>9, <1>10, Zenon
\* Requests leave the transfer as it should be.
LEMMA TransfersStep ==
  ASSUME Ready, wkld \in Wklds, XferInv, NEW A \in SUBSET Task, Transfers(A)
  PROVE  XferInv'
<1>1. UNCHANGED <<wkld, sizeVars>> /\ UNCHANGED <<wkld, phase, sizeVars, offs>>
  BY DEF Transfers
<1>2. /\ Dividable' = Dividable /\ \A id : Listed(id)' = Listed(id)
      /\ \A t : Id(t)' = Id(t)
      /\ \A id : NumReqs(id)' = NumReqs(id)
      /\ \A id, n : LeftAfter(id, n)' = LeftAfter(id, n)
      /\ \A id, k : Block(id, k)' = Block(id, k)
  BY <1>1, SameSizes, SameLists, Zenon
<1>3. Dividable' /\ \A id \in Task : Listed(id)'
  BY <1>2 DEF XferInv
<1>4. \A t \in Task : next[t] \in Nat /\ left[t] \in Nat
  BY DEF XferInv
<1>5. \A t \in A : /\ next[t] \in Nat /\ next[t] + 1 \in 1 .. NumReqs(Id(t))
                   /\ Requested(t) = Block(Id(t), next[t] + 1)
                   /\ left[t] - Request(t) \in Nat
                   /\ left[t] - Request(t) = LeftAfter(Id(t), next[t] + 1)
  BY NextRequest DEF Transfers
<1>6. \A t \in Task : /\ next'[t] = IF t \in A THEN next[t] + 1 ELSE next[t]
                      /\ left'[t] = IF t \in A THEN left[t] - Request(t) ELSE left[t]
  BY Zenon DEF Transfers
<1>7. \A t \in Task : next'[t] \in Nat /\ left'[t] \in Nat
  BY <1>4, <1>5, <1>6
<1>8. next' \in [Task -> Nat] /\ left' \in [Task -> Nat]
  <2>1. next' = [t \in Task |-> next'[t]] /\ left' = [t \in Task |-> left'[t]]
    BY DEF Transfers
  <2> QED BY <1>7, <2>1
<1>9. ASSUME NEW t \in Task PROVE Made(t)'
  <2>1. Made(t)' <=> \E id \in Task : \E n \in 0 .. NumReqs(id) :
                       Id(t) = id /\ next'[t] = n /\ left'[t] = LeftAfter(id, n)
    BY <1>2, Zenon DEF Made
  <2>2. Id(t) \in Task
    BY IdIsTask
  <2>3. next[t] \in 0 .. NumReqs(Id(t)) /\ left[t] = LeftAfter(Id(t), next[t])
    BY DEF XferInv, Made
  <2>4. CASE t \in A
    <3>1. next'[t] = next[t] + 1 /\ left'[t] = LeftAfter(Id(t), next[t] + 1)
      BY <1>5, <1>6, <2>4
    <3>2. next[t] + 1 \in 0 .. NumReqs(Id(t))
      BY <1>5, <2>4
    <3> QED BY <2>1, <2>2, <3>1, <3>2, Zenon
  <2>5. CASE t \notin A
    BY <1>6, <2>1, <2>2, <2>3, <2>5, Zenon
  <2> QED BY <2>4, <2>5
<1>10. \A x : x \in xferred' <=> \E t \in Task : \E k \in 1 .. next'[t] : x \in Block(Id(t), k)
  <2> SUFFICES ASSUME NEW x
               PROVE  x \in xferred' <=> \E t \in Task : \E k \in 1 .. next'[t] : x \in Block(Id(t), k)
    OBVIOUS
  <2>1. x \in xferred' <=> x \in xferred \/ \E t \in A : x \in Requested(t)
    BY Zenon DEF Transfers
  <2>2. x \in xferred <=> \E t \in Task : \E k \in 1 .. next[t] : x \in Block(Id(t), k)
    BY IdIsTask, Zenon DEF XferInv
  <2>3. \A t \in Task : 1 .. next'[t] = IF t \in A THEN 1 .. next[t] \cup {next[t] + 1} ELSE 1 .. next[t]
    <3>1. \A n \in Nat : 1 .. n + 1 = 1 .. n \cup {n + 1}
      OBVIOUS
    <3> QED BY <1>4, <1>6, <3>1, Zenon
  <2>4. ASSUME x \in xferred'
        PROVE  \E t \in Task : \E k \in 1 .. next'[t] : x \in Block(Id(t), k)
    <3>1. CASE x \in xferred
      <4>1. PICK t \in Task : \E k \in 1 .. next[t] : x \in Block(Id(t), k)
        BY <2>2, <3>1
      <4>2. PICK k \in 1 .. next[t] : x \in Block(Id(t), k)
        BY <4>1
      <4>3. k \in 1 .. next'[t]
        BY <2>3
      <4> QED BY <4>2, <4>3
    <3>2. CASE \E t \in A : x \in Requested(t)
      <4>1. PICK t \in A : x \in Requested(t)
        BY <3>2
      <4>2. x \in Block(Id(t), next[t] + 1) /\ next[t] + 1 \in 1 .. next'[t]
        BY <1>5, <2>3, <4>1
      <4> QED BY <4>2
    <3> QED BY <2>1, <2>4, <3>1, <3>2
  <2>5. ASSUME NEW t \in Task, NEW k \in 1 .. next'[t], x \in Block(Id(t), k)
        PROVE  x \in xferred'
    <3>1. CASE k \in 1 .. next[t]
      BY <2>1, <2>2, <2>5, <3>1
    <3>2. CASE t \in A /\ k = next[t] + 1
      BY <1>5, <2>1, <2>5, <3>2
    <3> QED BY <2>3, <3>1, <3>2
  <2> QED BY <2>4, <2>5
<1>11. \A x : x \in xferred' <=>
         \E t, id \in Task : Id(t)' = id /\ \E k \in 1 .. next'[t] : x \in Block(id, k)'
  BY <1>2, <1>10, IdIsTask, Zenon
<1> QED BY <1>3, <1>8, <1>9, <1>11, Zenon DEF XferInv

\* It is as it was where it is left alone.
LEMMA XferStays ==
  ASSUME UNCHANGED <<wkld, phase, sizeVars, offs, xferVars>>, XferInv
  PROVE  XferInv'
<1>1. UNCHANGED <<wkld, sizeVars>> /\ UNCHANGED <<wkld, phase, sizeVars, offs>>
  OBVIOUS
<1>2. next' = next /\ left' = left /\ xferred' = xferred
  BY DEF xferVars
<1>3. /\ Dividable' = Dividable /\ \A id : Listed(id)' = Listed(id)
      /\ \A t : Id(t)' = Id(t)
      /\ \A id : NumReqs(id)' = NumReqs(id)
      /\ \A id, n : LeftAfter(id, n)' = LeftAfter(id, n)
      /\ \A id, k : Block(id, k)' = Block(id, k)
  BY <1>1, SameSizes, SameLists, Zenon
<1>4. \A t : Made(t)' = Made(t)
  BY <1>2, <1>3, Zenon DEF Made
<1> QED BY <1>2, <1>3, <1>4, Zenon DEF XferInv
-------------------------------------------------------------------------------
(* What the transfers are.                                                 *)

\* The bytes of a request: where they are, and to whom they belong.
LEMMA BlockIs ==
  ASSUME Ready, NEW id \in Task, Listed(id), NEW k \in 1 .. NumReqs(id),
         NEW x \in Block(id, k)
  PROVE  LET j == Place(id, k)
             b == Before(id) + j * ReqSize(id) IN
         /\ x = <<File(id), x[2], id, k - 1>>
         /\ x[1] = File(id) /\ x[2] \in Nat
         /\ j \in 0 .. LastReq(id) /\ b \in Nat
         /\ b <= x[2] /\ x[2] < b + Size(id, j)
         /\ Before(id) <= x[2] /\ x[2] < Before(id) + DataSize(id)
         /\ Before(id) + DataSize(id) <= FileSize(id)
<1> DEFINE j == Place(id, k)
           p == j * ReqSize(id)
           b == Before(id) + p
<1>1. j \in 0 .. LastReq(id) /\ offs[id][k] = b
  BY DEF Listed, At
<1>2. Size(id, j) \in 1 .. ReqSize(id) /\ p \in Nat /\ p + Size(id, j) <= DataSize(id)
  BY <1>1, Places DEF Ready
<1>3. /\ Before(id) \in Nat /\ FileSize(id) \in Nat /\ DataSize(id) \in Nat
      /\ Before(id) + DataSize(id) <= FileSize(id)
  BY Regions DEF Ready
<1>4. ReqSize(id) \in Nat
  BY DEF Ready, SizesThere
<1>5. PICK c \in offs[id][k] .. offs[id][k] + Size(id, Place(id, k)) - 1 :
        x = <<File(id), c, id, k - 1>>
  BY DEF Block
<1>6. x[1] = File(id) /\ x[2] = c /\ x = <<File(id), x[2], id, k - 1>>
  BY <1>5
<1>7. c \in b .. b + Size(id, j) - 1
  BY <1>1
<1> DEFINE z == Size(id, j)
<1>8. b \in Nat /\ c \in Nat /\ b <= c /\ c < b + z
      /\ Before(id) <= c /\ c < Before(id) + DataSize(id)
  <2>1. z \in 1 .. ReqSize(id) /\ p \in Nat /\ p + z <= DataSize(id) /\ c \in b .. b + z - 1
    BY <1>2, <1>7
  <2> HIDE DEF p, z
  <2> QED BY <1>3, <1>4, <2>1
<1> QED BY <1>1, <1>3, <1>6, <1>8

\* Requests of one id share no byte, nor do those of two.
LEMMA BlocksApart ==
  ASSUME Ready, NEW i \in Task, NEW h \in Task, Listed(i), Listed(h),
         NEW k \in 1 .. NumReqs(i), NEW m \in 1 .. NumReqs(h),
         NEW x \in Block(i, k), NEW y \in Block(h, m), x[1] = y[1], x[2] = y[2]
  PROVE  x = y
<1>1. /\ x = <<File(i), x[2], i, k - 1>> /\ x[1] = File(i) /\ x[2] \in Nat
      /\ Place(i, k) \in 0 .. LastReq(i)
      /\ Before(i) + Place(i, k) * ReqSize(i) <= x[2]
      /\ x[2] < Before(i) + Place(i, k) * ReqSize(i) + Size(i, Place(i, k))
      /\ Before(i) <= x[2] /\ x[2] < Before(i) + DataSize(i)
  BY BlockIs
<1>2. /\ y = <<File(h), y[2], h, m - 1>> /\ y[1] = File(h)
      /\ Place(h, m) \in 0 .. LastReq(h)
      /\ Before(h) + Place(h, m) * ReqSize(h) <= y[2]
      /\ y[2] < Before(h) + Place(h, m) * ReqSize(h) + Size(h, Place(h, m))
      /\ Before(h) <= y[2] /\ y[2] < Before(h) + DataSize(h)
  BY BlockIs
<1>3. File(i) = File(h)
  BY <1>1, <1>2
<1>4. /\ Before(i) \in Nat /\ DataSize(i) \in Nat
      /\ Before(h) \in Nat /\ DataSize(h) \in Nat
  BY Regions DEF Ready
<1>5. i = h
  <2>1. i < h => FALSE
    <3>1. i < h => \/ Before(i) + DataSize(i) <= Before(h)
                   \/ Before(h) + DataSize(h) <= Before(i)
      BY <1>3, Apart DEF Ready
    <3> QED BY <1>1, <1>2, <1>4, <3>1
  <2>2. h < i => FALSE
    <3>1. h < i => \/ Before(i) + DataSize(i) <= Before(h)
                   \/ Before(h) + DataSize(h) <= Before(i)
      BY <1>3, Apart DEF Ready
    <3> QED BY <1>1, <1>2, <1>4, <3>1
  <2>3. i \in Int /\ h \in Int
    BY RequestsAssumption DEF Task
  <2> QED BY <2>1, <2>2, <2>3
<1> DEFINE p == Place(i, k)
           q == Place(i, m)
           r == ReqSize(i)
<1>6. /\ q \in 0 .. LastReq(i)
      /\ Before(i) + q * r <= x[2]
      /\ x[2] < Before(i) + q * r + Size(i, q)
  BY <1>2, <1>5
<1>7. /\ p * r \in Nat /\ q * r \in Nat
      /\ Size(i, p) \in 1 .. r /\ Size(i, q) \in 1 .. r
      /\ p < q => p * r + Size(i, p) <= q * r
      /\ q < p => q * r + Size(i, q) <= p * r
  BY <1>1, <1>6, Places DEF Ready
<1>8. p \in Int /\ q \in Int /\ r \in Nat /\ x[2] \in Nat
      /\ Before(i) + p * r <= x[2] /\ x[2] < Before(i) + p * r + Size(i, p)
  BY <1>1, <1>6 DEF Ready, SizesThere
<1>9. p = q
  <2> DEFINE u == p * r
             v == q * r
             a == Size(i, p)
             c == Size(i, q)
             d == Before(i)
             w == x[2]
  <2>1. /\ u \in Nat /\ v \in Nat /\ a \in Nat /\ c \in Nat /\ d \in Nat /\ w \in Nat
        /\ p < q => u + a <= v
        /\ q < p => v + c <= u
        /\ d + u <= w /\ w < d + u + a /\ d + v <= w /\ w < d + v + c
        /\ p \in Int /\ q \in Int
    BY <1>4, <1>6, <1>7, <1>8
  <2> HIDE DEF p, q, u, v, a, c, d, w
  <2> QED BY <2>1
<1>10. k = m
  BY <1>5, <1>9 DEF Listed
<1> QED BY <1>1, <1>2, <1>5, <1>10

\* Different requests transfer different bytes.
LEMMA XferApart ==
  ASSUME Ready, wkld \in Wklds, XferInv
  PROVE  NoOverlap
<1> SUFFICES ASSUME NEW x \in xferred, NEW y \in xferred, x[1] = y[1], x[2] = y[2]
             PROVE  x = y
  BY DEF NoOverlap
<1>1. PICK t, i \in Task : Id(t) = i /\ \E k \in 1 .. next[t] : x \in Block(i, k)
  BY DEF XferInv
<1>2. PICK k \in 1 .. next[t] : x \in Block(i, k)
  BY <1>1
<1>3. PICK u, h \in Task : Id(u) = h /\ \E m \in 1 .. next[u] : y \in Block(h, m)
  BY DEF XferInv
<1>4. PICK m \in 1 .. next[u] : y \in Block(h, m)
  BY <1>3
<1>5. next[t] \in 0 .. NumReqs(i) /\ next[u] \in 0 .. NumReqs(h)
  BY <1>1, <1>3 DEF XferInv, Made
<1>6. NumReqs(i) \in Nat /\ NumReqs(h) \in Nat
  BY DataCut DEF Ready
<1>7. k \in 1 .. NumReqs(i) /\ m \in 1 .. NumReqs(h)
  BY <1>5, <1>6
<1>8. Listed(i) /\ Listed(h)
  BY DEF XferInv
<1> QED BY <1>2, <1>4, <1>7, <1>8, BlocksApart

\* Nothing is transferred past the ends of the files.
LEMMA XferWithin ==
  ASSUME Ready, wkld \in Wklds, XferInv, NEW x \in xferred
  PROVE  <<x[1], x[2]>> \in Whole
<1>1. PICK t, i \in Task : Id(t) = i /\ \E k \in 1 .. next[t] : x \in Block(i, k)
  BY DEF XferInv
<1>2. PICK k \in 1 .. next[t] : x \in Block(i, k)
  BY <1>1
<1>3. next[t] \in 0 .. NumReqs(i) /\ NumReqs(i) \in Nat
  BY <1>1, DataCut DEF XferInv, Made, Ready
<1>4. k \in 1 .. NumReqs(i) /\ Listed(i)
  BY <1>3 DEF XferInv
<1>5. /\ x[1] = File(i) /\ x[2] \in Nat /\ x[2] < Before(i) + DataSize(i)
      /\ Before(i) + DataSize(i) <= FileSize(i)
  BY <1>2, <1>4, BlockIs
<1>6. Before(i) \in Nat /\ DataSize(i) \in Nat /\ FileSize(i) \in Nat
  BY Regions DEF Ready
<1>7. x[2] \in 0 .. FileSize(i) - 1
  BY <1>5, <1>6
<1> QED BY <1>5, <1>7 DEF Whole

\* When nothing is left, all of the files has been.
LEMMA XferAllOf ==
  ASSUME Ready, wkld \in Wklds, XferInv, \A t \in Task : left[t] = 0
  PROVE  BytesOf(xferred) = Whole
<1>1. ASSUME NEW w \in BytesOf(xferred) PROVE w \in Whole
  BY <1>1, XferWithin DEF BytesOf
<1>2. ASSUME NEW i \in Task, NEW b \in 0 .. FileSize(i) - 1
      PROVE  \E x \in xferred : x[1] = File(i) /\ x[2] = b
  <2>1. PICK id \in Task : File(id) = File(i) /\ Before(id) <= b /\ b < Before(id) + DataSize(id)
    BY Covered DEF Ready
  <2>2. /\ NumReqs(id) \in Nat /\ LastReq(id) = NumReqs(id) - 1
        /\ ReqSize(id) \in Nat \ {0} /\ DataSize(id) \in Nat
        /\ DataSize(id) = LastReq(id) * ReqSize(id) + Short(id)
        /\ NumReqs(id) # 0 => Short(id) \in 1 .. ReqSize(id)
        /\ DataSize(id) = 0 <=> NumReqs(id) = 0
        /\ LastReq(id) * ReqSize(id) \in Int
    BY DataCut DEF Ready
  <2>3. Before(id) \in Nat /\ FileSize(i) \in Nat
    BY Regions DEF Ready
  <2> DEFINE c == b - Before(id)
             r == ReqSize(id)
             j == c \div r
             l == LastReq(id)
  <2>4. c \in Nat /\ c < DataSize(id) /\ NumReqs(id) # 0
    BY <2>1, <2>2, <2>3
  <2>5. c = r * j + (c % r) /\ j \in Int /\ c % r \in 0 .. r - 1
    BY <2>2, <2>4, Quotient
  <2>6. r * j = j * r /\ j * r \in Int
    BY <2>2, <2>5, SMT
  <2>7. j * r <= c /\ c < j * r + r
    <3> DEFINE f == c % r
               g == j * r
    <3>1. c = g + f /\ f \in 0 .. r - 1 /\ g \in Int /\ r \in Nat
      BY <2>2, <2>5, <2>6
    <3> HIDE DEF f, g, c, j, r
    <3>2. g <= c /\ c < g + r
      BY <3>1
    <3> QED BY <3>2 DEF g
  <2>8. j \in 0 .. l
    <3> HIDE DEF c, j
    <3>1. l \in Nat /\ r \in Nat
      BY <2>2, <2>4
    <3>2. j < 0 => FALSE
      <4>1. j < 0 => (j + 1) * r <= 0 * r /\ 0 * r = 0 /\ (j + 1) * r = j * r + r
        BY <2>5, <3>1, TimesGrows, TimesNext, SMT
      <4> QED BY <2>4, <2>6, <2>7, <3>1, <4>1
    <3>3. l < j => FALSE
      <4>1. l < j => (l + 1) * r <= j * r /\ (l + 1) * r = l * r + r
        <5>1. l \in Int
          BY <3>1
        <5> QED BY <2>5, <3>1, <5>1, TimesGrows, TimesNext
      <4> QED BY <2>2, <2>4, <2>6, <2>7, <3>1, <4>1
    <3> QED BY <2>5, <3>1, <3>2, <3>3
  <2>9. c < j * r + Size(id, j)
    <3> HIDE DEF c, j
    <3>1. CASE j = l
      BY <2>2, <2>4, <3>1 DEF Size
    <3>2. CASE j # l
      BY <2>7, <3>2 DEF Size
    <3> QED BY <3>1, <3>2
  <2>10. PICK t \in Task : Id(t) = id
    BY IdOnto
  <2>11. Listed(id)
    BY DEF XferInv
  <2>12. next[t] \in 0 .. NumReqs(id) /\ left[t] = LeftAfter(id, next[t])
    BY <2>10 DEF XferInv, Made
  <2>13. next[t] = NumReqs(id)
    BY <2>11, <2>12, Leaves
  <2>14. PICK k \in 1 .. NumReqs(id) : Place(id, k) = j
    <3> HIDE DEF j
    <3> QED BY <2>8, <2>11 DEF Listed
  <2>15. offs[id][k] = Before(id) + j * r
    BY <2>11, <2>14 DEF Listed, At
  <2>16. b \in offs[id][k] .. offs[id][k] + Size(id, Place(id, k)) - 1
    <3> DEFINE g == j * r
               z == Size(id, j)
               o == offs[id][k]
    <3>1. /\ b = Before(id) + c /\ g <= c /\ c < g + z /\ o = Before(id) + g
          /\ g \in Int /\ z \in Int /\ Before(id) \in Nat /\ c \in Nat
      <4>1. z \in Int
        BY <2>8, Places DEF Ready
      <4>2. b = Before(id) + c
        BY <2>3
      <4> QED BY <2>3, <2>4, <2>6, <2>7, <2>9, <2>15, <4>1, <4>2
    <3>2. Size(id, Place(id, k)) = z
      BY <2>14
    <3> HIDE DEF g, z, o, c
    <3>3. b \in o .. o + z - 1
      BY <3>1
    <3> QED BY <3>2, <3>3 DEF o
  <2> DEFINE x == <<File(id), b, id, k - 1>>
  <2>17. x \in Block(id, k)
    BY <2>16 DEF Block
  <2>18. x \in xferred
    <3> HIDE DEF x
    <3> QED BY <2>10, <2>13, <2>14, <2>17 DEF XferInv
  <2>19. x[1] = File(i) /\ x[2] = b
    BY <2>1
  <2> QED BY <2>18, <2>19
<1>3. ASSUME NEW w \in Whole PROVE w \in BytesOf(xferred)
  <2>1. PICK i \in Task : w \in {File(i)} \X (0 .. FileSize(i) - 1)
    BY <1>3 DEF Whole
  <2>2. PICK b \in 0 .. FileSize(i) - 1 : w = <<File(i), b>>
    BY <2>1
  <2>3. PICK x \in xferred : x[1] = File(i) /\ x[2] = b
    BY <1>2
  <2> QED BY <2>2, <2>3 DEF BytesOf
<1> QED BY <1>1, <1>3
-------------------------------------------------------------------------------
(* Drawing.                                                                *)

\* Each place begins where the one before ends.
LEMMA AtIs ==
  ASSUME Ready, NEW id \in Task, NEW j \in Nat
  PROVE  /\ At(id, j) \in Nat /\ At(id, 0) = Before(id)
         /\ At(id, j + 1) = At(id, j) + ReqSize(id)
         /\ j * ReqSize(id) \in Nat /\ 0 * ReqSize(id) = 0
         /\ (j + 1) * ReqSize(id) = j * ReqSize(id) + ReqSize(id)
<1>1. ReqSize(id) \in Nat /\ Before(id) \in Nat
  BY Regions DEF Ready, SizesThere
<1>2. /\ j * ReqSize(id) \in Nat /\ 0 * ReqSize(id) = 0
      /\ (j + 1) * ReqSize(id) = j * ReqSize(id) + ReqSize(id)
  BY <1>1, SMT
<1> DEFINE p == j * ReqSize(id)
<1>3. /\ At(id, j) = Before(id) + p /\ At(id, 0) = Before(id) + 0
      /\ At(id, j + 1) = Before(id) + (p + ReqSize(id))
  BY <1>2, Zenon DEF At
<1>4. p \in Nat
  BY <1>2
<1> HIDE DEF p
<1>5. /\ At(id, j) \in Nat /\ At(id, 0) = Before(id)
      /\ At(id, j + 1) = At(id, j) + ReqSize(id)
  BY <1>1, <1>3, <1>4
<1> QED BY <1>2, <1>5

\* A list in order is made by appending the next place.
LEMMA InOrderGrows ==
  ASSUME Ready, NEW id \in Task, NEW m \in Nat
  PROVE  /\ InOrder(id, 0) = <<>>
         /\ Len(InOrder(id, m)) = m
         /\ Append(InOrder(id, m), At(id, m)) = InOrder(id, m + 1)
<1>1. \A k \in Nat : At(id, k) \in Nat
  BY AtIs
<1>2. \A n \in Nat : InOrder(id, n) \in [1 .. n -> Nat]
  BY <1>1 DEF InOrder
<1>3. \A n \in Nat : InOrder(id, n) \in Seq(Nat) /\ Len(InOrder(id, n)) = n
  BY <1>2
<1>4. InOrder(id, 0) = <<>>
  BY <1>3
<1> DEFINE s == Append(InOrder(id, m), At(id, m))
<1>5. /\ s \in Seq(Nat) /\ Len(s) = m + 1
      /\ \A k \in 1 .. m : s[k] = InOrder(id, m)[k]
      /\ s[m + 1] = At(id, m)
  <2> DEFINE g == InOrder(id, m)
             e == At(id, m)
  <2>1. g \in Seq(Nat) /\ Len(g) = m /\ e \in Nat
    BY <1>1, <1>3
  <2> HIDE DEF g, e
  <2>2. /\ Append(g, e) \in Seq(Nat) /\ Len(Append(g, e)) = m + 1
        /\ \A k \in 1 .. m : Append(g, e)[k] = g[k]
        /\ Append(g, e)[m + 1] = e
    BY <2>1, AppendProperties
  <2> QED BY <2>2 DEF g, e
<1>6. \A k \in 1 .. m + 1 : s[k] = InOrder(id, m + 1)[k]
  <2> HIDE DEF s
  <2>1. \A k \in 1 .. m : InOrder(id, m)[k] = At(id, k - 1)
    BY DEF InOrder
  <2>2. \A k \in 1 .. m + 1 : InOrder(id, m + 1)[k] = At(id, k - 1)
    BY DEF InOrder
  <2>3. (m + 1) - 1 = m
    OBVIOUS
  <2> QED BY <1>5, <2>1, <2>2, <2>3
<1>7. s = InOrder(id, m + 1)
  <2> HIDE DEF s
  <2>1. InOrder(id, m + 1) \in Seq(Nat) /\ Len(InOrder(id, m + 1)) = m + 1
    BY <1>3
  <2> QED BY <1>5, <1>6, <2>1, SeqEqual
<1> QED BY <1>3, <1>4, <1>7

\* The loop begins with the first id.
LEMMA DrawStart ==
  /\ Ready /\ Drawing
  /\ tids = [k \in 1 .. N |-> k - 1] /\ remain = [id \in Task |-> DataSize(id)]
  /\ off = 0 /\ offs = [id \in Task |-> <<>>]
  => DrawInv
<1> SUFFICES ASSUME Ready, Drawing,
                    tids = [k \in 1 .. N |-> k - 1],
                    remain = [id \in Task |-> DataSize(id)],
                    off = 0, offs = [id \in Task |-> <<>>]
             PROVE  DrawInv
  OBVIOUS
<1>1. N \in Nat \ {0} /\ Task = 0 .. N - 1 /\ 0 \in Task
  BY RequestsAssumption DEF Task
<1>2. Current(N) = 0
  BY DEF Current
<1>3. tids = Turn(N)
  BY <1>1 DEF Turn
<1>4. \A id \in Task : ~DoneWith(id, N) /\ offs[id] = <<>> /\ remain[id] = DataSize(id)
  BY <1>1 DEF DoneWith
<1>5. offs[0] = InOrder(0, 0)
  BY <1>1, InOrderGrows
<1>6. Before(0) = 0
  BY DEF Before, Drawing
<1>7. off = At(0, 0)
  BY <1>1, <1>6, AtIs
<1>8. remain[0] = DataSize(0) - 0 * ReqSize(0)
  <2>1. DataSize(0) \in Nat /\ 0 * ReqSize(0) = 0
    BY <1>1, AtIs DEF Ready, SizesThere
  <2> QED BY <1>1, <2>1
<1>9. 0 \in 0 .. NumReqs(0) /\ N \in 0 .. N
  BY <1>1, DataCut DEF Ready
<1>10. DOMAIN offs = Task /\ DOMAIN remain = Task
  OBVIOUS
<1>11. DrawAt(N, 0)
  BY <1>2, <1>3, <1>4, <1>5, <1>7, <1>8, <1>10, Zenon DEF DrawAt
<1> QED BY <1>2, <1>9, <1>11, Zenon DEF DrawInv

\* Where nothing lacks, every id has its offsets in order.
LEMMA DrawnListed ==
  ASSUME Ready, DrawInv, ~OffsLack, NEW id \in Task
  PROVE  Listed(id)
<1>1. PICK n \in 0 .. N : \E m \in 0 .. NumReqs(Current(n)) : DrawAt(n, m)
  BY DEF DrawInv
<1>2. PICK m \in 0 .. NumReqs(Current(n)) : DrawAt(n, m)
  BY <1>1
<1>3. N \in Nat \ {0} /\ Task = 0 .. N - 1
  BY RequestsAssumption DEF Task
<1>4. Len(offs[id]) < NumReqs(id) => FALSE
  BY DEF OffsLack
<1>5. NumReqs(id) \in Nat
  BY DataCut DEF Ready
<1>6. CASE DoneWith(id, n)
  <2>1. offs[id] = InOrder(id, NumReqs(id))
    BY <1>2, <1>6, Zenon DEF DrawAt
  <2> QED BY <2>1, InOrderListed
<1>7. CASE ~DoneWith(id, n) /\ id # Current(n)
  <2>1. offs[id] = <<>>
    BY <1>2, <1>7, Zenon DEF DrawAt
  <2>2. NumReqs(id) = 0
    BY <1>4, <1>5, <2>1
  <2>3. offs[id] = InOrder(id, NumReqs(id))
    BY <2>1, <2>2, InOrderGrows
  <2> QED BY <2>3, InOrderListed
<1>8. CASE ~DoneWith(id, n) /\ id = Current(n)
  <2>1. n # 0
    BY <1>3, <1>8 DEF DoneWith
  <2>2. offs[id] = InOrder(id, m) /\ (m = 0 \/ m < NumReqs(id))
    BY <1>2, <1>8, <2>1, Zenon DEF DrawAt
  <2>3. m \in Nat /\ Len(offs[id]) = m
    <3>1. m \in Nat
      BY <1>5, <1>8
    <3> QED BY <2>2, <3>1, InOrderGrows
  <2>4. m = NumReqs(id)
    BY <1>4, <1>5, <2>2, <2>3
  <2> QED BY <2>2, <2>4, InOrderListed
<1> QED BY <1>6, <1>7, <1>8

\* The first of the ids left is always drawn: a number below 1 has no whole part.
LEMMA DrawnFirst ==
  ASSUME NEW u \in 0 .. Grain - 1, Len(tids) \in Nat
  PROVE  DrawIndex(u) + 1 = 1
<1>1. u \div Grain = 0
  BY RequestsAssumption, SMT
<1>2. 0 * Len(tids) = 0
  OBVIOUS
<1>3. DrawIndex(u) = 0
  BY <1>1, <1>2, Zenon DEF DrawIndex
<1> QED BY <1>3

\* The first id is the current one, and what is left without it is the turn of
\* one id less.
LEMMA TurnIs ==
  ASSUME NEW n \in 1 .. N
  PROVE  /\ Len(Turn(n)) = n /\ Turn(n) \in Seq(Nat)
         /\ Turn(n)[1] = Current(n) /\ Current(n) \in Task
         /\ tids = Turn(n) => Without(1) = Turn(n - 1)
<1>1. N \in Nat \ {0} /\ Task = 0 .. N - 1 /\ n \in Nat
  BY RequestsAssumption DEF Task
<1>2. Turn(n) \in [1 .. n -> Nat] /\ \A k \in 1 .. n : Turn(n)[k] = IF k = 1 /\ n < N THEN n ELSE k - 1
  BY <1>1 DEF Turn
<1>3. Turn(n) \in Seq(Nat) /\ Len(Turn(n)) = n
  BY <1>1, <1>2
<1>4. Turn(n)[1] = Current(n) /\ Current(n) \in Task
  BY <1>1, <1>2 DEF Current
<1>5. ASSUME tids = Turn(n) PROVE Without(1) = Turn(n - 1)
  <2> DEFINE s == [Turn(n) EXCEPT ![1] = Turn(n)[n]]
  <2>1. Without(1) = SubSeq(s, 1, n - 1)
    BY <1>3, <1>5 DEF Without
  <2>2. Turn(n)[n] \in Nat
    BY <1>2
  <2>3. s \in Seq(Nat) /\ Len(s) = n
        /\ \A k \in 1 .. n : s[k] = IF k = 1 THEN Turn(n)[n] ELSE Turn(n)[k]
    BY <1>2, <1>3, <2>2
  <2> HIDE DEF s
  <2>4. /\ SubSeq(s, 1, n - 1) \in Seq(Nat) /\ Len(SubSeq(s, 1, n - 1)) = n - 1
        /\ \A k \in 1 .. n - 1 : SubSeq(s, 1, n - 1)[k] = s[k]
    BY <1>1, <2>3
  <2>5. Turn(n - 1) \in [1 .. n - 1 -> Nat]
        /\ \A k \in 1 .. n - 1 : Turn(n - 1)[k] = IF k = 1 /\ n - 1 < N THEN n - 1 ELSE k - 1
    BY <1>1 DEF Turn
  <2>6. Turn(n - 1) \in Seq(Nat) /\ Len(Turn(n - 1)) = n - 1
    BY <1>1, <2>5
  <2>7. \A k \in 1 .. n - 1 : s[k] = Turn(n - 1)[k]
    <3> SUFFICES ASSUME NEW k \in 1 .. n - 1 PROVE s[k] = Turn(n - 1)[k]
      OBVIOUS
    <3>1. n >= 2 /\ k \in 1 .. n /\ n \in 1 .. n /\ n - 1 < N
      BY <1>1
    <3>2. Turn(n)[n] = n - 1
      BY <1>2, <3>1
    <3>3. s[k] = IF k = 1 THEN n - 1 ELSE k - 1
      BY <1>2, <2>3, <3>1, <3>2
    <3>4. Turn(n - 1)[k] = IF k = 1 THEN n - 1 ELSE k - 1
      BY <2>5, <3>1
    <3> QED BY <3>3, <3>4
  <2>8. \A k \in 1 .. n - 1 : SubSeq(s, 1, n - 1)[k] = Turn(n - 1)[k]
    BY <2>4, <2>7
  <2>9. SubSeq(s, 1, n - 1) = Turn(n - 1)
    BY <2>4, <2>6, <2>8, SeqEqual
  <2> QED BY <2>1, <2>9
<1> QED BY <1>3, <1>4, <1>5
\* What is left of the data of an id after its first requests.
LEMMA RemainIs ==
  ASSUME Ready, NEW id \in Task, NEW m \in 0 .. NumReqs(id), m = 0 \/ m < NumReqs(id)
  PROVE  LET rest == DataSize(id) - m * ReqSize(id) IN
         /\ rest \in Nat /\ m \in Nat /\ NumReqs(id) \in Nat
         /\ m + 1 < NumReqs(id) =>
              /\ Smaller(ReqSize(id), rest) = ReqSize(id) /\ rest # ReqSize(id)
              /\ rest - ReqSize(id) = DataSize(id) - (m + 1) * ReqSize(id)
         /\ ~(m + 1 < NumReqs(id)) =>
              /\ Smaller(ReqSize(id), rest) = rest
              /\ At(id, m) + rest = Before(id) + DataSize(id)
              /\ NumReqs(id) = IF m < NumReqs(id) THEN m + 1 ELSE 0
<1> DEFINE r == ReqSize(id)
           l == LastReq(id)
           s == Short(id)
           d == DataSize(id)
           p == m * r
           g == l * r
           q == NumReqs(id)
           b == Before(id)
<1>1. /\ q \in Nat /\ l = q - 1 /\ r \in Nat \ {0} /\ d \in Nat
      /\ d = 0 <=> q = 0
      /\ q # 0 => s \in 1 .. r
      /\ d = g + s /\ s \in Int /\ g \in Int
  BY DataCut DEF Ready
<1>2. m \in Nat /\ m <= q
  BY <1>1
<1>3. p \in Nat /\ (m + 1) * r = p + r /\ At(id, m) = b + p /\ b \in Nat
  BY <1>2, AtIs, Regions DEF At, Ready
<1>4. m + 1 < q => p + r <= g
  <2>1. m + 1 <= l => (m + 1) * r <= l * r
    BY <1>1, <1>2, TimesGrows
  <2> QED BY <1>1, <1>2, <1>3, <2>1
<1>5. ~(m + 1 < q) => (q = 0 /\ m = 0 /\ p = 0) \/ (m = l /\ p = g /\ q # 0)
  <2>1. m = 0 => p = 0
    BY <1>2, AtIs
  <2>2. m = l => p = g
    OBVIOUS
  <2>3. ~(m + 1 < q) => (q = 0 /\ m = 0) \/ (m = l /\ q # 0)
    BY <1>1, <1>2
  <2> QED BY <2>1, <2>2, <2>3
<1> DEFINE rest == d - p
<1>6. q # 0 /\ m < q
       => p + s <= d
  <2>1. m + 1 < q \/ m = l \/ ~(m < q)
    BY <1>1, <1>2
  <2> HIDE DEF p, g, s, d, r, q, l
  <2> QED BY <1>1, <1>3, <1>4, <1>5, <2>1
<1>7. q = 0 => m = 0 /\ p = 0 /\ d = 0
  BY <1>1, <1>2, <1>5
<1> HIDE DEF r, l, s, d, p, g, q, b
<1>8. rest \in Nat
  BY <1>1, <1>2, <1>3, <1>6, <1>7 DEF q
<1>9. ASSUME m + 1 < q
      PROVE  Smaller(r, rest) = r /\ rest # r /\ rest - r = d - (m + 1) * r
  BY <1>1, <1>2, <1>3, <1>4, <1>9 DEF Smaller
<1>10. ASSUME ~(m + 1 < q)
       PROVE  Smaller(r, rest) = rest /\ At(id, m) + rest = b + d
              /\ q = IF m < q THEN m + 1 ELSE 0
  <2>1. rest <= r
    BY <1>1, <1>2, <1>3, <1>5, <1>7, <1>10
  <2>2. Smaller(r, rest) = rest
    BY <1>1, <1>8, <2>1 DEF Smaller
  <2>3. At(id, m) + rest = b + d
    BY <1>1, <1>3
  <2>4. q = IF m < q THEN m + 1 ELSE 0
    BY <1>1, <1>2, <1>5, <1>10
  <2> QED BY <2>2, <2>3, <2>4
<1> QED BY <1>1, <1>2, <1>8, <1>9, <1>10 DEF rest, r, d, p, q, b

\* The data of the next id begins where that of the current one ends.
LEMMA NextBefore ==
  ASSUME Ready, Drawing, NEW n \in 1 .. N, n # 1
  PROVE  Before(n - 1) = Before(Current(n)) + DataSize(Current(n))
<1>1. N \in Nat \ {0} /\ Task = 0 .. N - 1 /\ 0 \in Task /\ n - 1 \in Task /\ n - 1 # 0
  BY RequestsAssumption DEF Task
<1>2. wkld.file_mode = "NX1" /\ wkld.random
  BY DEF Drawing
<1>3. DataBelow((n - 1) + 1) = DataBelow(n) /\ DataBelow(n) \in Nat /\ DataBelow(N) \in Nat
  <2>1. (n - 1) + 1 = n
    BY <1>1
  <2> QED BY <1>1, <2>1, Below DEF Ready
<1>4. Before(n - 1) = DataSize(0) + DataBelow(N) - DataBelow(n) /\ Before(0) = 0
      /\ DataSize(0) \in Nat
  BY <1>1, <1>2, <1>3 DEF Before, Ready, SizesThere
<1>5. CASE n = N
  BY <1>3, <1>4, <1>5 DEF Current
<1>6. CASE n # N
  <2>1. n \in Task /\ n # 0 /\ Current(n) = n
    BY <1>1, <1>6 DEF Current
  <2>2. DataBelow(n + 1) = DataBelow(n) + DataSize(n) /\ DataSize(n) \in Nat
    BY <2>1, Below DEF Ready, SizesThere
  <2>3. Before(n) = DataSize(0) + DataBelow(N) - DataBelow(n + 1)
    BY <1>2, <2>1 DEF Before
  <2> QED BY <1>3, <1>4, <2>1, <2>2, <2>3
<1> QED BY <1>5, <1>6

\* A turn of the loop draws the next request of the current id, or goes on to the
\* next id with its last one.
LEMMA DrawStep ==
  ASSUME Ready, DrawInv, NEW u \in 0 .. Grain - 1, Draw(u)
  PROVE  DrawInv'
<1>1. PICK n \in 0 .. N : \E m \in 0 .. NumReqs(Current(n)) : DrawAt(n, m)
  BY DEF DrawInv
<1>2. PICK m \in 0 .. NumReqs(Current(n)) : DrawAt(n, m)
  BY <1>1
<1>3. N \in Nat \ {0} /\ Task = 0 .. N - 1
  BY RequestsAssumption DEF Task
<1>4. UNCHANGED <<wkld, sizeVars>> /\ Drawing /\ OffsLack
  BY Zenon DEF Draw
<1>5. n # 0
  <2> SUFFICES ASSUME n = 0 PROVE FALSE
    OBVIOUS
  <2>1. PICK id \in Task : Len(offs[id]) < NumReqs(id)
    BY <1>4 DEF OffsLack
  <2>2. DoneWith(id, n)
    BY <1>3 DEF DoneWith
  <2>3. offs[id] = InOrder(id, NumReqs(id)) /\ NumReqs(id) \in Nat
    BY <1>2, <2>2, DataCut DEF DrawAt, Ready
  <2>4. Len(offs[id]) = NumReqs(id)
    BY <2>3, InOrderGrows
  <2> QED BY <2>1, <2>3, <2>4
<1>6. n \in 1 .. N
  BY <1>3, <1>5
<1> DEFINE c == Current(n)
           rest == DataSize(c) - m * ReqSize(c)
           req == Smaller(ReqSize(c), rest)
<1>7. tids = Turn(n) /\ tids[1] = c /\ c \in Task /\ Without(1) = Turn(n - 1) /\ Len(tids) \in Nat
  <2>1. tids = Turn(n)
    BY <1>2, Zenon DEF DrawAt
  <2> QED BY <1>6, <2>1, TurnIs
<1>8. /\ DOMAIN offs = Task /\ DOMAIN remain = Task
      /\ m = 0 \/ m < NumReqs(c)
      /\ offs[c] = InOrder(c, m) /\ remain[c] = rest /\ off = At(c, m)
  BY <1>2, <1>5, Zenon DEF DrawAt
<1>9. \A id \in Task :
       /\ DoneWith(id, n) => offs[id] = InOrder(id, NumReqs(id))
       /\ ~DoneWith(id, n) /\ id # c => offs[id] = <<>> /\ remain[id] = DataSize(id)
  BY <1>2, Zenon DEF DrawAt
<1>10. /\ rest \in Nat /\ m \in Nat /\ NumReqs(c) \in Nat
       /\ m + 1 < NumReqs(c) =>
            /\ req = ReqSize(c) /\ rest # ReqSize(c)
            /\ rest - ReqSize(c) = DataSize(c) - (m + 1) * ReqSize(c)
       /\ ~(m + 1 < NumReqs(c)) =>
            /\ req = rest
            /\ At(c, m) + rest = Before(c) + DataSize(c)
            /\ NumReqs(c) = IF m < NumReqs(c) THEN m + 1 ELSE 0
  BY <1>7, <1>8, RemainIs
<1>11. /\ Len(offs[c]) = m
       /\ InOrder(c, 0) = <<>>
       /\ Append(offs[c], off) = InOrder(c, m + 1)
  BY <1>7, <1>8, <1>10, InOrderGrows
<1>12. /\ offs' = IF m < NumReqs(c) THEN [offs EXCEPT ![c] = InOrder(c, m + 1)] ELSE offs
       /\ off' = At(c, m) + req
       /\ remain' = [remain EXCEPT ![c] = rest - req]
       /\ tids' = IF rest = req THEN Turn(n - 1) ELSE Turn(n)
  <2>1. DrawIndex(u) + 1 = 1
    BY <1>7, DrawnFirst
  <2>2. /\ offs' = IF Len(offs[c]) < NumReqs(c)
                   THEN [offs EXCEPT ![c] = Append(offs[c], off)] ELSE offs
        /\ off' = off + Smaller(ReqSize(c), remain[c])
        /\ remain' = [remain EXCEPT ![c] = remain[c] - Smaller(ReqSize(c), remain[c])]
        /\ tids' = IF remain[c] = Smaller(ReqSize(c), remain[c]) THEN Without(1) ELSE tids
    <3>1. tids[DrawIndex(u) + 1] = c /\ Without(DrawIndex(u) + 1) = Without(1)
      BY <1>7, <2>1, Zenon
    <3> HIDE DEF c
    <3> QED BY <3>1, Zenon DEF Draw
  <2> QED BY <1>7, <1>8, <1>11, <2>2, Zenon
<1>13. /\ \A id : /\ DataSize(id)' = DataSize(id) /\ ReqSize(id)' = ReqSize(id)
                  /\ NumReqs(id)' = NumReqs(id) /\ \A j : At(id, j)' = At(id, j)
                  /\ \A k : InOrder(id, k)' = InOrder(id, k)
                  /\ InOrder(id, NumReqs(id))' = InOrder(id, NumReqs(id))
  BY <1>4, SameSizes, Zenon
<1> HIDE DEF rest, req, c
<1>14. CASE m + 1 < NumReqs(c)
  <2>1. m < NumReqs(c) /\ m + 1 \in 0 .. NumReqs(c)
    BY <1>10, <1>14
  <2>2. /\ offs' = [offs EXCEPT ![c] = InOrder(c, m + 1)]
        /\ off' = At(c, m + 1)
        /\ remain' = [remain EXCEPT ![c] = DataSize(c) - (m + 1) * ReqSize(c)]
        /\ tids' = Turn(n)
    <3>1. At(c, m + 1) = At(c, m) + ReqSize(c)
      BY <1>7, <1>10, AtIs
    <3> QED BY <1>10, <1>12, <1>14, <2>1, <3>1
  <2>3. /\ DOMAIN offs' = Task /\ DOMAIN remain' = Task
        /\ offs'[c] = InOrder(c, m + 1)
        /\ remain'[c] = DataSize(c) - (m + 1) * ReqSize(c)
        /\ \A id \in Task : id # c => offs'[id] = offs[id] /\ remain'[id] = remain[id]
    BY <1>7, <1>8, <2>2
  <2>4. \A id \in Task : DoneWith(id, n) => id # c
    BY <1>3, <1>6 DEF DoneWith, Current, c
  <2>5. \A id \in Task :
          /\ DoneWith(id, n) => offs'[id] = InOrder(id, NumReqs(id))
          /\ ~DoneWith(id, n) /\ id # c => offs'[id] = <<>> /\ remain'[id] = DataSize(id)
    BY <1>9, <2>3, <2>4, Zenon
  <2>6. DrawAt(n, m + 1)'
    BY <1>13, <1>14, <2>2, <2>3, <2>5, Zenon DEF DrawAt, c
  <2> QED BY <1>13, <2>1, <2>6, Zenon DEF DrawInv, c
<1>15. CASE ~(m + 1 < NumReqs(c))
  <2> DEFINE d == Current(n - 1)
  <2>1. n - 1 \in 0 .. N /\ n - 1 < N /\ d = n - 1 /\ d \in Task
    BY <1>3, <1>6 DEF Current
  <2>2. /\ off' = Before(c) + DataSize(c) /\ tids' = Turn(n - 1)
    BY <1>10, <1>12, <1>15
  <2>3. /\ DOMAIN offs' = Task /\ DOMAIN remain' = Task
        /\ offs'[c] = InOrder(c, NumReqs(c))
        /\ \A id \in Task : id # c => offs'[id] = offs[id] /\ remain'[id] = remain[id]
    <3>1. CASE m < NumReqs(c)
      BY <1>7, <1>8, <1>10, <1>12, <1>15, <3>1
    <3>2. CASE ~(m < NumReqs(c))
      <4>1. NumReqs(c) = 0 /\ m = 0
        BY <1>8, <1>10, <1>15, <3>2
      <4> QED BY <1>7, <1>8, <1>12, <3>2, <4>1
    <3> QED BY <3>1, <3>2
  <2>4. \A id \in Task : /\ DoneWith(id, n - 1) => DoneWith(id, n) \/ id = c
                         /\ DoneWith(id, n) \/ id = c => DoneWith(id, n - 1)
    BY <1>3, <1>6 DEF DoneWith, Current, c
  <2>5. n - 1 # 0 => ~DoneWith(d, n - 1)
    BY <1>3, <2>1 DEF DoneWith
  <2>6. \A id \in Task :
          /\ DoneWith(id, n - 1) => offs'[id] = InOrder(id, NumReqs(id))
          /\ ~DoneWith(id, n - 1) => offs'[id] = <<>> /\ remain'[id] = DataSize(id)
    BY <1>9, <2>3, <2>4, Zenon
  <2>7. n - 1 # 0 => /\ offs'[d] = InOrder(d, 0) /\ remain'[d] = DataSize(d) - 0 * ReqSize(d)
                     /\ off' = At(d, 0)
    <3> SUFFICES ASSUME n - 1 # 0
                 PROVE  /\ offs'[d] = InOrder(d, 0) /\ remain'[d] = DataSize(d) - 0 * ReqSize(d)
                        /\ off' = At(d, 0)
      OBVIOUS
    <3>1. offs'[d] = <<>> /\ remain'[d] = DataSize(d)
      BY <2>1, <2>5, <2>6
    <3>2. InOrder(d, 0) = <<>>
      BY <2>1, InOrderGrows
    <3>3. At(d, 0) = Before(d) /\ 0 * ReqSize(d) = 0 /\ DataSize(d) \in Nat
      BY <2>1, AtIs DEF Ready, SizesThere
    <3>4. Before(d) = Before(c) + DataSize(c)
      <4>1. n # 1
        BY <1>6
      <4> QED BY <1>4, <1>6, <2>1, <4>1, NextBefore DEF c
    <3>5. DataSize(d) - 0 = DataSize(d)
      BY <3>3
    <3> QED BY <2>2, <3>1, <3>2, <3>3, <3>4, <3>5
  <2>8. 0 \in 0 .. NumReqs(d)
    BY <2>1, DataCut DEF Ready
  <2>9. DrawAt(n - 1, 0)'
    BY <1>13, <2>2, <2>3, <2>6, <2>7, Zenon DEF DrawAt, d
  <2> QED BY <1>13, <2>1, <2>8, <2>9, Zenon DEF DrawInv, d
<1> QED BY <1>14, <1>15
-------------------------------------------------------------------------------
(* The requests of all steps.                                              *)

\* With sizes to divide by, all is there that the requests depend on.
LEMMA ReadyNow == IInv /\ stage # "sizes" /\ Dividable => Ready
<1> SUFFICES ASSUME IInv, stage # "sizes", Dividable PROVE Ready
  OBVIOUS
<1>1. SizesThere
  BY SizesAreNat DEF SizesThere
<1>2. Mode
  BY RequestsAssumption DEF IInv, Wkld, Mode
<1> QED BY <1>1, <1>2 DEF Ready

\* Transfers come after everything that they need.
LEMMA ReadyXfer ==
  ASSUME OInv, stage \in {"xfer", "done", "failed"}
  PROVE  Ready /\ wkld \in Wklds /\ XferInv
<1>1. XferInv /\ IInv
  BY DEF OInv
<1>2. Dividable /\ wkld \in Wklds
  BY <1>1 DEF XferInv, IInv
<1> QED BY <1>1, <1>2, ReadyNow

\* Nothing has been transferred at first.
LEMMA InitOInv == Init => OInv
<1> SUFFICES ASSUME Init PROVE OInv
  OBVIOUS
<1>1. IInv
  BY InitInv
<1>2. stage = "sizes" /\ phase = "write" /\ xferred = {}
  BY Zenon DEF Init
<1>3. NoOverlap
  BY <1>2 DEF NoOverlap
<1> QED BY <1>1, <1>2, <1>3 DEF OInv

\* What was written stays the whole of the files while the sizes stay.
LEMMA StaysWhole ==
  ASSUME OInv, UNCHANGED <<wkld, phase, sizeVars, written>>
  PROVE  phase' = "read" => written' = Whole'
<1>1. Whole' = Whole
  BY SameSizes
<1> QED BY <1>1 DEF OInv

\* The data of the tasks, while the sizes and the ids stay.
LEMMA SameData ==
  ASSUME UNCHANGED <<wkld, phase, sizeVars>>
  PROVE  [t \in Task |-> DataSize(Id(t))]' = [t \in Task |-> DataSize(Id(t))]
<1>1. wkld' = wkld /\ phase' = phase /\ data_sizes' = data_sizes
  BY DEF sizeVars
<1>2. \A t : DataSize(Id(t))' = DataSize(Id(t))
  BY <1>1, Zenon DEF DataSize, Id, IdIn
<1> QED BY <1>2, Zenon

\* One lemma for each action: the sizes are read, with what the last test left.
LEMMA SizesOStep == OInv /\ Sizes => OInv'
<1> SUFFICES ASSUME OInv, Sizes PROVE OInv'
  OBVIOUS
<1>1. IInv /\ IInv'
  BY SizesStep DEF OInv
<1>2. /\ wkld' = wkld /\ phase' = phase /\ written' = written
      /\ stage = "sizes" /\ stage' = "offsets" /\ xferred' = {}
      /\ next' = [t \in Task |-> 0] /\ left' = [t \in Task |-> DataSize(Id(t))']
      /\ tids' = [k \in 1 .. N |-> k - 1] /\ remain' = [id \in Task |-> DataSize(id)']
      /\ off' = 0 /\ offs' = [id \in Task |-> <<>>]
  BY Zenon DEF Sizes
<1>3. phase' = "read" => written' = Whole'
  <2> SUFFICES ASSUME phase = "read" PROVE written' = Whole'
    BY <1>2
  <2>1. data_sizes # <<>> /\ req_sizes # <<>>
    BY <1>1 DEF IInv, HasSizes
  <2>2. data_sizes' = data_sizes /\ req_sizes' = req_sizes
    BY <2>1 DEF Sizes, SizesFor
  <2>3. UNCHANGED <<wkld, phase, sizeVars, written>>
    BY <1>2, <2>2 DEF sizeVars
  <2> QED BY <1>2, <2>3, StaysWhole
<1>4. Drawing' /\ Dividable' => DrawInv'
  <2>1. Dividable' => Ready'
    <3>1. (IInv /\ stage # "sizes" /\ Dividable)' => Ready'
      BY ReadyNow, PTL
    <3> QED BY <1>1, <1>2, <3>1
  <2>2. /\ Ready /\ Drawing
        /\ tids = [k \in 1 .. N |-> k - 1] /\ remain = [id \in Task |-> DataSize(id)]
        /\ off = 0 /\ offs = [id \in Task |-> <<>>]
        => DrawInv
    BY DrawStart
  <2>3. (/\ Ready /\ Drawing
         /\ tids = [k \in 1 .. N |-> k - 1] /\ remain = [id \in Task |-> DataSize(id)]
         /\ off = 0 /\ offs = [id \in Task |-> <<>>])'
        => DrawInv'
    BY DrawStart, PTL
  <2> QED BY <1>2, <2>1, <2>3, Zenon
<1> QED BY <1>1, <1>2, <1>3, <1>4, Zenon DEF OInv

\* A task ends, or never does, before it has all of its list.
LEMMA StopsOStep ==
  ASSUME OInv, IInv', NEW t \in Task, Fill(t) \/ Dies(t) \/ Shorter(t)
  PROVE  OInv'
<1>1. /\ UNCHANGED <<wkld, phase, sizeVars, written>> /\ xferred' = xferred
      /\ stage \in {"offsets", "filling"} /\ stage' \in {"filling", "died", "short"}
  BY DEF Fill, Dies, Shorter, xferVars
<1>2. phase' = "read" => written' = Whole'
  BY <1>1, StaysWhole
<1>3. xferred' = {}
  BY <1>1 DEF OInv
<1> QED BY <1>1, <1>2, <1>3 DEF OInv

\* The lists are made.
LEMMA PrepOStep == OInv /\ Prep => OInv'
<1> SUFFICES ASSUME OInv, Prep PROVE OInv'
  OBVIOUS
<1>1. IInv /\ IInv'
  BY QuietStep DEF OInv, Prep
<1>2. /\ UNCHANGED <<wkld, phase, sizeVars, written>> /\ UNCHANGED <<wkld, phase, sizeVars>>
      /\ UNCHANGED <<wkld, sizeVars>>
      /\ stage = "offsets" /\ stage' = "xfer" /\ ~Drawing /\ Dividable
      /\ next' = next /\ left' = left /\ xferred' = xferred
  BY DEF Prep, xferVars
<1>3. phase' = "read" => written' = Whole'
  BY <1>2, StaysWhole
<1>4. Ready /\ Ready' /\ wkld' \in Wklds
  <2>1. Ready
    BY <1>1, <1>2, ReadyNow
  <2>2. Ready' = Ready
    BY <1>2, SameSizes
  <2>3. wkld' = wkld
    BY <1>2
  <2> QED BY <1>1, <2>1, <2>2, <2>3 DEF IInv
<1>5. ~Drawing'
  BY <1>2 DEF Drawing
<1>6. \A id \in Task : Given(id)'
  <2> SUFFICES ASSUME NEW id \in Task PROVE Given(id)'
    OBVIOUS
  <2>1. offs'[id] \in IF wkld.file_mode = "NXN" THEN Offs_NXN(id) ELSE Offs_NX1Seq(id)
    BY Zenon DEF Prep
  <2>2. wkld' = wkld
    BY <1>2
  <2>3. NumReqs(id)' = NumReqs(id) /\ ReqSize(id)' = ReqSize(id) /\ DataBelow(id)' = DataBelow(id)
    BY <1>2, SameSizes
  <2>4. Offs_NXN(id)' = Offs_NXN(id)
    BY <2>2, <2>3, Zenon DEF Offs_NXN
  <2>5. Offs_NX1Seq(id)' = Offs_NX1Seq(id)
    BY <2>3, Zenon DEF Offs_NX1Seq
  <2> QED BY <2>1, <2>2, <2>4, <2>5, Zenon DEF Given
<1>7. \A id \in Task : Listed(id)'
  <2>1. (Ready /\ ~Drawing /\ (\A id \in Task : Given(id)))' => (\A id \in Task : Listed(id))'
    BY GivenListed, PTL
  <2> QED BY <1>4, <1>5, <1>6, <2>1
<1>8. /\ next' = [t \in Task |-> 0] /\ left' = [t \in Task |-> DataSize(Id(t))]'
      /\ xferred' = {}
  BY <1>2, SameData, Zenon DEF OInv
<1>9. XferInv'
  <2>1. (/\ Ready /\ wkld \in Wklds
         /\ \A id \in Task : Listed(id)
         /\ next = [t \in Task |-> 0] /\ left = [t \in Task |-> DataSize(Id(t))]
         /\ xferred = {})'
        => XferInv'
    BY XferStart, PTL
  <2> QED BY <1>4, <1>7, <1>8, <2>1, Zenon
<1> QED BY <1>1, <1>2, <1>3, <1>9, Zenon DEF OInv

\* An offset is drawn.
LEMMA DrawOStep == ASSUME OInv, NEW u \in 0 .. Grain - 1, Draw(u) PROVE OInv'
<1>1. IInv /\ IInv'
  BY QuietStep DEF OInv, Draw
<1>2. /\ UNCHANGED <<wkld, phase, sizeVars, written>> /\ UNCHANGED <<wkld, phase, sizeVars>>
      /\ stage = "offsets" /\ stage' = stage /\ Drawing /\ Dividable
      /\ next' = next /\ left' = left /\ xferred' = xferred
  BY Zenon DEF Draw, xferVars
<1>3. phase' = "read" => written' = Whole'
  BY <1>2, StaysWhole
<1>4. Ready
  BY <1>1, <1>2, ReadyNow
<1>5. DrawInv'
  BY <1>2, <1>4, DrawStep DEF OInv
<1>6. /\ next' = [t \in Task |-> 0] /\ left' = [t \in Task |-> DataSize(Id(t))]'
      /\ xferred' = {}
  BY <1>2, SameData, Zenon DEF OInv
<1> QED BY <1>1, <1>2, <1>3, <1>5, <1>6, Zenon DEF OInv

\* All offsets have been drawn.
LEMMA DrawEndOStep == OInv /\ DrawEnd => OInv'
<1> SUFFICES ASSUME OInv, DrawEnd PROVE OInv'
  OBVIOUS
<1>1. IInv /\ IInv'
  BY QuietStep DEF OInv, DrawEnd
<1>2. /\ UNCHANGED <<wkld, phase, sizeVars, written>>
      /\ UNCHANGED <<wkld, phase, sizeVars, offs, xferVars>>
      /\ stage = "offsets" /\ stage' = "xfer" /\ Drawing /\ Dividable /\ ~OffsLack
  BY DEF DrawEnd
<1>3. phase' = "read" => written' = Whole'
  BY <1>2, StaysWhole
<1>4. Ready /\ wkld \in Wklds
  BY <1>1, <1>2, ReadyNow DEF IInv
<1>5. \A id \in Task : Listed(id)
  BY <1>2, <1>4, DrawnListed DEF OInv
<1>6. XferInv
  BY <1>2, <1>4, <1>5, XferStart DEF OInv
<1>7. XferInv'
  BY <1>2, <1>6, XferStays
<1> QED BY <1>1, <1>2, <1>3, <1>7, Zenon DEF OInv

\* Requests, of one task or of all.
LEMMA TransfersOStep ==
  ASSUME OInv, stage = "xfer", UNCHANGED <<stage, written>>,
         NEW A \in SUBSET Task, Transfers(A)
  PROVE  OInv'
<1>1. /\ UNCHANGED <<wkld, phase, sizeVars, written>>
      /\ UNCHANGED <<wkld, phase, sizeVars>> /\ stage' = stage
  BY DEF Transfers
<1>2. IInv'
  BY <1>1, QuietStep DEF OInv
<1>3. phase' = "read" => written' = Whole'
  BY <1>1, StaysWhole
<1>4. XferInv'
  BY ReadyXfer, TransfersStep
<1> QED BY <1>1, <1>2, <1>3, <1>4, Zenon DEF OInv

\* A task makes its next request.
LEMMA XferOStep == ASSUME OInv, NEW t \in Task, Xfer(t) PROVE OInv'
<1>1. next \in [Task -> Nat] /\ left \in [Task -> Nat] /\ stage = "xfer"
  BY DEF OInv, XferInv, Xfer
<1>2. Transfers({t})
  <2>1. left[t] > 0 /\ xferred' = xferred \cup Requested(t)
        /\ UNCHANGED <<wkld, phase, sizeVars, offs>>
    BY DEF Xfer
  <2>2. next' = [u \in Task |-> IF u \in {t} THEN next[u] + 1 ELSE next[u]]
    BY <1>1 DEF Xfer
  <2>3. left' = [u \in Task |-> IF u \in {t} THEN left[u] - Request(u) ELSE left[u]]
    BY <1>1 DEF Xfer
  <2>4. UNION {Requested(u) : u \in {t}} = Requested(t)
    OBVIOUS
  <2> QED BY <2>1, <2>2, <2>3, <2>4, Zenon DEF Transfers
<1>3. UNCHANGED <<stage, written>>
  BY DEF Xfer
<1> QED BY <1>1, <1>2, <1>3, TransfersOStep

\* All tasks make their next requests.
LEMMA XferAllOStep == OInv /\ XferAll => OInv'
<1> SUFFICES ASSUME OInv, XferAll PROVE OInv'
  OBVIOUS
<1>1. Transfers(Task)
  <2>1. next' = [t \in Task |-> IF t \in Task THEN next[t] + 1 ELSE next[t]]
    BY DEF XferAll
  <2>2. left' = [t \in Task |-> IF t \in Task THEN left[t] - Request(t) ELSE left[t]]
    BY DEF XferAll
  <2> QED BY <2>1, <2>2, Zenon DEF Transfers, XferAll
<1>2. stage = "xfer" /\ UNCHANGED <<stage, written>>
  BY DEF XferAll
<1> QED BY <1>1, <1>2, TransfersOStep

\* A task has seemingly transferred too little.
LEMMA FailsOStep == ASSUME OInv, NEW t \in Task, Fails(t) PROVE OInv'
<1>1. IInv'
  BY QuietStep DEF OInv, Fails
<1>2. /\ UNCHANGED <<wkld, phase, sizeVars, written>>
      /\ UNCHANGED <<wkld, phase, sizeVars, offs, xferVars>>
      /\ stage = "xfer" /\ stage' = "failed"
  BY DEF Fails
<1>3. phase' = "read" => written' = Whole'
  BY <1>2, StaysWhole
<1>4. XferInv'
  BY <1>2, XferStays DEF OInv
<1> QED BY <1>1, <1>2, <1>3, <1>4, Zenon DEF OInv

\* The write test has written every byte of the files.
LEMMA WriteEndOStep == OInv /\ WriteEnd => OInv'
<1> SUFFICES ASSUME OInv, WriteEnd PROVE OInv'
  OBVIOUS
<1>1. IInv'
  BY WriteEndStep DEF OInv
<1>2. /\ UNCHANGED <<wkld, sizeVars>> /\ xferred' = xferred
      /\ stage = "xfer" /\ stage' = "sizes" /\ phase' = "read"
      /\ written' = BytesOf(xferred)
      /\ \A t \in Task : left[t] = 0
  BY DEF WriteEnd, Transferred, xferVars, BytesOf
<1>3. Ready /\ wkld \in Wklds /\ XferInv
  BY <1>2, ReadyXfer
<1>4. BytesOf(xferred) = Whole /\ NoOverlap
  BY <1>2, <1>3, XferAllOf, XferApart
<1>5. Whole' = Whole
  BY <1>2, SameSizes
<1>6. NoOverlap' /\ BytesOf(xferred)' = Whole'
  BY <1>2, <1>4, <1>5, Zenon DEF NoOverlap, BytesOf
<1>7. written' = Whole'
  BY <1>2, <1>4, <1>5
<1> QED BY <1>1, <1>2, <1>6, <1>7, Zenon DEF OInv

\* The read test ends.
LEMMA ReadEndOStep == OInv /\ ReadEnd => OInv'
<1> SUFFICES ASSUME OInv, ReadEnd PROVE OInv'
  OBVIOUS
<1>1. IInv'
  BY ReadEndStep DEF OInv
<1>2. /\ UNCHANGED <<wkld, phase, sizeVars, written>>
      /\ UNCHANGED <<wkld, phase, sizeVars, offs, xferVars>>
      /\ stage = "xfer" /\ stage' = "done"
  BY DEF ReadEnd, Transferred
<1>3. phase' = "read" => written' = Whole'
  BY <1>2, StaysWhole
<1>4. XferInv'
  BY <1>2, XferStays DEF OInv
<1> QED BY <1>1, <1>2, <1>3, <1>4, Zenon DEF OInv

\* Nothing happens.
LEMMA StillOStep == OInv /\ UNCHANGED vars => OInv'
<1> SUFFICES ASSUME OInv, UNCHANGED vars PROVE OInv'
  OBVIOUS
<1>1. IInv'
  BY QuietStep DEF OInv, vars
<1>2. /\ UNCHANGED <<wkld, phase, sizeVars, written>> /\ UNCHANGED <<wkld, phase, sizeVars>>
      /\ UNCHANGED <<wkld, phase, sizeVars, offs, xferVars>> /\ UNCHANGED <<wkld, sizeVars>>
      /\ stage' = stage /\ next' = next /\ left' = left /\ xferred' = xferred
      /\ tids' = tids /\ remain' = remain /\ off' = off /\ offs' = offs /\ phase' = phase
      /\ wkld' = wkld
  BY Zenon DEF vars, xferVars, drawVars
<1>3. phase' = "read" => written' = Whole'
  BY <1>2, StaysWhole
<1>4. stage' = "sizes" => NoOverlap' /\ (phase' = "read" => BytesOf(xferred)' = Whole')
  <2>1. Whole' = Whole
    BY <1>2, SameSizes
  <2>2. NoOverlap' = NoOverlap /\ BytesOf(xferred)' = BytesOf(xferred)
    BY <1>2, Zenon DEF NoOverlap, BytesOf
  <2> QED BY <1>2, <2>1, <2>2, Zenon DEF OInv
<1>5. stage' \in {"xfer", "done", "failed"} => XferInv'
  BY <1>2, XferStays DEF OInv
<1>6. Drawing' = Drawing /\ Dividable' = Dividable /\ DrawInv' = DrawInv
  <2>1. /\ \A id : /\ DataSize(id)' = DataSize(id) /\ ReqSize(id)' = ReqSize(id)
                   /\ NumReqs(id)' = NumReqs(id) /\ \A j : At(id, j)' = At(id, j)
                   /\ \A k : InOrder(id, k)' = InOrder(id, k)
                   /\ InOrder(id, NumReqs(id))' = InOrder(id, NumReqs(id))
        /\ Dividable' = Dividable
    BY <1>2, SameSizes, Zenon
  <2>2. \A n, m : DrawAt(n, m)' = DrawAt(n, m)
    BY <1>2, <2>1, Zenon DEF DrawAt
  <2>3. DrawInv' = DrawInv
    BY <2>1, <2>2, Zenon DEF DrawInv
  <2> QED BY <1>2, <2>1, <2>3 DEF Drawing
<1>7. stage' = "offsets" =>
       /\ next' = [t \in Task |-> 0] /\ left' = [t \in Task |-> DataSize(Id(t))]'
       /\ Drawing' /\ Dividable' => DrawInv'
  BY <1>2, <1>6, SameData, Zenon DEF OInv
<1> QED BY <1>1, <1>2, <1>3, <1>4, <1>5, <1>7, Zenon DEF OInv

\* Every step keeps the invariant.
LEMMA NextOInv == OInv /\ [Next]_vars => OInv'
<1> SUFFICES ASSUME OInv, [Next]_vars PROVE OInv'
  OBVIOUS
<1>1. CASE Sizes
  BY <1>1, SizesOStep
<1>2. ASSUME NEW t \in Task, Fill(t) \/ Dies(t) \/ Shorter(t) PROVE OInv'
  <2>1. IInv'
    BY <1>2, FillStep, DiesStep, ShorterStep DEF OInv
  <2> QED BY <1>2, <2>1, StopsOStep
<1>3. CASE Prep
  BY <1>3, PrepOStep
<1>4. ASSUME NEW u \in 0 .. Grain - 1, Draw(u) PROVE OInv'
  BY <1>4, DrawOStep
<1>5. CASE DrawEnd
  BY <1>5, DrawEndOStep
<1>6. ASSUME NEW t \in Task, Xfer(t) PROVE OInv'
  BY <1>6, XferOStep
<1>7. CASE XferAll
  BY <1>7, XferAllOStep
<1>8. ASSUME NEW t \in Task, Fails(t) PROVE OInv'
  BY <1>8, FailsOStep
<1>9. CASE WriteEnd
  BY <1>9, WriteEndOStep
<1>10. CASE ReadEnd
  BY <1>10, ReadEndOStep
<1>11. CASE UNCHANGED vars
  BY <1>11, StillOStep
<1> QED BY <1>1, <1>2, <1>3, <1>4, <1>5, <1>6, <1>7, <1>8, <1>9, <1>10, <1>11
        DEF Next

\* The invariant has all of the properties.
LEMMA OInvSays ==
  OInv => NoOverlap /\ WholeFiles /\ ReadsWritten /\ OffsFit /\ DrawnInTurn
<1> SUFFICES ASSUME OInv
             PROVE  NoOverlap /\ WholeFiles /\ ReadsWritten /\ OffsFit /\ DrawnInTurn
  OBVIOUS
<1>1. stage \in {"sizes", "offsets", "filling", "died", "short", "xfer", "done", "failed"}
  BY DEF OInv
<1>2. NoOverlap
  <2>1. CASE stage = "sizes"
    BY <2>1 DEF OInv
  <2>2. CASE stage \in {"offsets", "filling", "died", "short"}
    BY <2>2 DEF OInv, NoOverlap
  <2>3. CASE stage \in {"xfer", "done", "failed"}
    BY <2>3, ReadyXfer, XferApart
  <2> QED BY <1>1, <2>1, <2>2, <2>3
<1>3. Transferred => BytesOf(xferred) = Whole
  <2> SUFFICES ASSUME Transferred PROVE BytesOf(xferred) = Whole
    OBVIOUS
  <2>1. stage = "xfer" /\ \A t \in Task : left[t] = 0
    BY DEF Transferred
  <2> QED BY <2>1, ReadyXfer, XferAllOf
<1>4. WholeFiles
  BY <1>3, Zenon DEF WholeFiles, BytesOf, Whole
<1>5. ReadsWritten
  <2> SUFFICES ASSUME phase = "read"
               PROVE  /\ \A x \in xferred : <<x[1], x[2]>> \in written
                      /\ Transferred => written = {<<x[1], x[2]>> : x \in xferred}
    BY DEF ReadsWritten
  <2>1. written = Whole
    BY DEF OInv
  <2>2. \A x \in xferred : <<x[1], x[2]>> \in Whole
    <3>1. CASE stage = "sizes"
      <4>1. BytesOf(xferred) = Whole
        BY <3>1 DEF OInv
      <4> QED BY <4>1 DEF BytesOf
    <3>2. CASE stage \in {"offsets", "filling", "died", "short"}
      BY <3>2 DEF OInv
    <3>3. CASE stage \in {"xfer", "done", "failed"}
      BY <3>3, ReadyXfer, XferWithin
    <3> QED BY <1>1, <3>1, <3>2, <3>3
  <2> QED BY <1>3, <2>1, <2>2 DEF BytesOf
<1>6. OffsFit
  <2> SUFFICES ASSUME stage = "xfer", NEW t \in Task, left[t] > 0
               PROVE  next[t] < Len(offs[Id(t)])
    BY DEF OffsFit, OInv, IInv, Decided
  <2>1. Ready /\ wkld \in Wklds /\ XferInv
    BY ReadyXfer
  <2>2. next[t] \in Nat /\ next[t] + 1 \in 1 .. NumReqs(Id(t))
    BY <2>1, NextRequest
  <2>3. Id(t) \in Task
    BY <2>1, IdIsTask
  <2>4. offs[Id(t)] \in [1 .. NumReqs(Id(t)) -> Nat] /\ NumReqs(Id(t)) \in Nat
    BY <2>1, <2>3, DataCut DEF XferInv, Listed, Ready
  <2>5. Len(offs[Id(t)]) = NumReqs(Id(t))
    BY <2>4
  <2> QED BY <2>2, <2>4, <2>5
<1>7. DrawnInTurn
  <2> SUFFICES ASSUME stage = "xfer", Drawing, NEW id \in Task
               PROVE  LET before == IF id = 0 THEN 0
                                    ELSE DataSize(0) + DataBelow(N) - DataBelow(id + 1)
                      IN  offs[id] = [k \in 1 .. NumReqs(id) |-> before + (k - 1) * ReqSize(id)]
    BY Zenon DEF DrawnInTurn
  <2>1. Before(id) = IF id = 0 THEN 0 ELSE DataSize(0) + DataBelow(N) - DataBelow(id + 1)
    BY DEF Drawing, Before
  <2>2. offs[id] = InOrder(id, NumReqs(id))
    BY DEF Drawing, OInv, XferInv, Listed
  <2> QED BY <2>1, <2>2, Zenon DEF InOrder, At
<1> QED BY <1>2, <1>4, <1>5, <1>6, <1>7

\* A task that fails has more data than an unsigned int counts, or makes requests
\* of more than an int does.
LEMMA FailsStep ==
  OInv /\ FailsBySize /\ [Next]_vars => FailsBySize'
<1> SUFFICES ASSUME OInv, FailsBySize, [Next]_vars, stage' = "failed"
             PROVE  FailsBySize'
  BY DEF FailsBySize
<1>1. ASSUME NEW t \in Task, Fails(t)
      PROVE  FailsBySize'
  <2>1. UNCHANGED <<wkld, phase, sizeVars>> /\ stage = "xfer"
    BY <1>1 DEF Fails
  <2>2. Ready /\ wkld \in Wklds /\ XferInv /\ Id(t) \in Task
    BY <2>1, ReadyXfer, IdIsTask
  <2>3. /\ DataSize(Id(t)) \in Nat /\ ReqSize(Id(t)) \in Nat
        /\ WordMod \in Nat \ {0} /\ WordMod \div 2 \in Int
        /\ left[t] \in Nat
    <3>1. WordMod \in Nat \ {0} /\ WordMod \div 2 \in Int
      BY RequestsAssumption, SMT
    <3> QED BY <2>2, <3>1 DEF Ready, SizesThere, XferInv
  <2>4. CASE left[t] = 0 /\ Bytes(t) # DataSize(Id(t))
    <3>1. DataSize(Id(t)) % WordMod # DataSize(Id(t))
      BY <2>3, <2>4 DEF Bytes
    <3>2. DataSize(Id(t)) >= WordMod
      BY <2>3, <3>1, Cut
    <3> QED BY <2>1, <2>2, <3>2, SizesStay DEF FailsBySize
  <2>5. CASE TooLarge(t)
    <3>1. left[t] > 0 /\ Request(t) >= WordMod \div 2
      BY <2>5 DEF TooLarge
    <3>2. Request(t) \in Int /\ Request(t) <= ReqSize(Id(t))
      <4>1. /\ next[t] + 1 \in 1 .. NumReqs(Id(t))
            /\ Request(t) = Size(Id(t), Place(Id(t), next[t] + 1))
        BY <2>2, <3>1, NextRequest
      <4>2. Place(Id(t), next[t] + 1) \in 0 .. LastReq(Id(t))
        BY <2>2, <4>1 DEF XferInv, Listed
      <4>3. Size(Id(t), Place(Id(t), next[t] + 1)) \in 1 .. ReqSize(Id(t))
        BY <2>2, <4>2, Places DEF Ready
      <4> QED BY <2>3, <4>1, <4>3
    <3>3. ReqSize(Id(t)) >= WordMod \div 2
      BY <2>3, <3>1, <3>2
    <3> QED BY <2>1, <2>2, <3>3, SizesStay DEF FailsBySize
  <2> QED BY <1>1, <2>4, <2>5 DEF Fails
<1>2. CASE UNCHANGED vars
  <2>1. UNCHANGED <<wkld, phase, sizeVars>> /\ stage' = stage
    BY <1>2 DEF vars
  <2> QED BY <2>1, SizesStay DEF FailsBySize
<1>3. CASE Sizes \/ Prep \/ DrawEnd \/ XferAll \/ WriteEnd \/ ReadEnd
  BY <1>3, Zenon DEF Sizes, Prep, DrawEnd, XferAll, WriteEnd, ReadEnd, Transferred
<1>4. ASSUME NEW t \in Task, Fill(t) \/ Dies(t) \/ Shorter(t) \/ Xfer(t) PROVE FALSE
  BY <1>4 DEF Fill, Dies, Shorter, Xfer
<1>5. ASSUME NEW u \in 0 .. Grain - 1, Draw(u) PROVE FALSE
  BY <1>5 DEF Draw
<1> QED BY <1>1, <1>2, <1>3, <1>4, <1>5 DEF Next

-------------------------------------------------------------------------------
(* The properties of requests.                                             *)

\* The invariant holds in all reachable states.
LEMMA OInvAlways == Spec => []OInv
<1> QED BY InitOInv, NextOInv, PTL DEF Spec

\* No byte is transferred by two requests of a test of test_oset_exec(), of one
\* task or of two, for all numbers of tasks and all sizes, whether the offsets are
\* in order, shuffled or drawn.
THEOREM RequestsNeverOverlap == Spec => []NoOverlap
<1>1. OInv => NoOverlap
  BY OInvSays
<1> QED BY <1>1, OInvAlways, PTL

\* When all data has been transferred, it was every byte of every file: neither
\* the partial request at the end of a task's data nor the place it was shuffled
\* to leaves a gap.
THEOREM FilesAlwaysWhole == Spec => []WholeFiles
<1>1. OInv => WholeFiles
  BY OInvSays
<1> QED BY <1>1, OInvAlways, PTL

\* The read test reads only what the write test wrote, and all of it, although
\* its tasks act as other ids and its offsets are drawn and shuffled again.
THEOREM ReadsAlwaysWritten == Spec => []ReadsWritten
<1>1. OInv => ReadsWritten
  BY OInvSays
<1> QED BY <1>1, OInvAlways, PTL

\* write_oset() and read_oset() take no offset past the end of the list: there is
\* one for each request that data is left for, unless a task has so many that an
\* unsigned int does not count them.
THEOREM OffsAlwaysFit == Spec => []OffsFit
<1>1. OInv => OffsFit
  BY OInvSays
<1> QED BY <1>1, OInvAlways, PTL

\* test_offs_nx1_rnd_prep() does not do what its comment says, to generate the
\* task ids randomly: it lists the data of one id after the other, from 0 and then
\* from the last down, whatever numbers it draws.
THEOREM AlwaysDrawnInTurn == Spec => []DrawnInTurn
<1>1. OInv => DrawnInTurn
  BY OInvSays
<1> QED BY <1>1, OInvAlways, PTL

\* How a test of test_oset_exec() ends follows from its sizes alone: it dies only
\* of a zero or of more requests than an int counts, fails only for data past an
\* unsigned int or requests past an int, and ends only with sizes and numbers of
\* requests that these count, for all numbers of tasks and all workloads.
THEOREM SizesAlwaysDecide == Spec => []SizesDecide
<1>1. Init => FailsBySize
  BY DEF Init, FailsBySize
<1>2. OInv => IInv
  BY DEF OInv
<1>3. IInv /\ FailsBySize => SizesDecide
  BY DEF IInv, Decided, FailsBySize, SizesDecide
<1> QED BY <1>1, <1>2, <1>3, OInvAlways, FailsStep, PTL DEF Spec

===============================================================================
