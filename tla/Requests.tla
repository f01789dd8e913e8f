------------------------------- MODULE Requests -------------------------------
(***************************************************************************)
(* The requests of an offset workload: the sizes, given or drawn, the      *)
(* lists of offsets that test_offs_prep() makes for every task, and the    *)
(* loops of the backends' write_oset() and read_oset() that walk through   *)
(* them.                                                                   *)
(*                                                                         *)
(* A test writes, then reads; barriers separate preparation and transfer   *)
(* (module TestExec), so each is a stage that all tasks share.  Offsets    *)
(* belong to the id a task acts as.  The loop over random offsets of a     *)
(* shared file is the same in all tasks, which draw from the same seed     *)
(* and each keep the offsets drawn for their own id: it is one loop here.  *)
(* A task that dies, or reports a fatal error, takes all others with it.   *)
(* Sizes have 64 bits and are unbounded here; the ints and unsigned ints   *)
(* that they are converted to are of WordMod numbers each.                 *)
(***************************************************************************)
EXTENDS Integers, Sequences, SequencesExt

CONSTANTS
  N,     \* number of tasks
  Wklds, \* the workloads that may be given
  Grain, \* random numbers in [0,1) are multiples of 1 / Grain
  MaxDraw, \* a bound on the sizes that the unbounded distributions draw
  WordMod  \* one more than the largest unsigned int, of 32 bits

Task == 0 .. N - 1

\* A distribution, of numbers between min and max if it is uniform.
Dist(d) ==
  /\ d.type \in {"unif", "norm", "geom"}
  /\ d.min \in Int /\ d.max \in Int

\* The fields of iore_test_t and of its workload that decide the requests.
\* Sizes are given, or the list is empty and there is a distribution.
\* collective: AFIO_PARAM_COLLECTIVE_IO of the MPI-IO backend.  flush_per_req:
\* write_flush_per_req on that backend, where flushing is collective too.
\* flush: write_flush, once after the requests of a task, on that backend.
Wkld(w) ==
  /\ w.file_mode \in {"NX1", "NXN"}
  /\ w.random \in BOOLEAN /\ w.collective \in BOOLEAN
  /\ w.flush_per_req \in BOOLEAN /\ w.flush \in BOOLEAN
  /\ w.data_sizes \in Seq(Nat) /\ w.req_sizes \in Seq(Nat)
  /\ w.data_sizes = <<>> => Dist(w.data_size_distrib)
  /\ w.req_sizes = <<>> => Dist(w.req_size_distrib)
  /\ w.read_reorder_offset \in Nat

ASSUME RequestsAssumption ==
  /\ N \in Nat \ {0}
  /\ Grain \in Nat \ {0}
  /\ MaxDraw \in Nat
  /\ WordMod \in Nat \ {0} /\ WordMod % 2 = 0
  /\ \A w \in Wklds : Wkld(w)

VARIABLES
  wkld,    \* the workload; never changes
  phase,   \* IORE_TEST_TYPE_WRITE or IORE_TEST_TYPE_READ
  stage,   \* "sizes", "offsets", "xfer", "done"; "died", "failed" on errors;
           \* "filling" a buffer for ever; "short": a list misses offsets
  data_sizes, \* of the test, empty until drawn
  req_sizes,
  tids,    \* ids with offsets left to draw, l_tid up to l_tid_len
  remain,  \* data left of each id, l_remain
  off,     \* the offset to be drawn next
  offs,    \* the offsets of each id
  next,    \* requests made by each task
  left,    \* data left to be transferred by each task, remaining
  xferred, \* <<file, byte, id, request>>: transferred in this phase so far
  written  \* <<file, byte>>: written by the write test

sizeVars == <<data_sizes, req_sizes>>
drawVars == <<tids, remain, off>>
xferVars == <<next, left, xferred>>
vars == <<wkld, phase, stage, sizeVars, drawVars, offs, xferVars, written>>

-------------------------------------------------------------------------------
(* Sizes.                                                                  *)

\* An array of sizes is used cyclically.
Cyclic(sizes, id) == sizes[(id % Len(sizes)) + 1]
DataSize(id) == Cyclic(data_sizes, id)
ReqSize(id)  == Cyclic(req_sizes, id)

\* A size as an int.
ToInt(n) == LET w == n % WordMod IN IF w < WordMod \div 2 THEN w ELSE w - WordMod

\* The requests a task needs.  A mutant forgets the last, short one.
Needed_Whole(id) == DataSize(id) \div ReqSize(id)
Needed(id) == (DataSize(id) + ReqSize(id) - 1) \div ReqSize(id)

\* num_reqs, an int: the length of its list of offsets.
NumReqs(id) == ToInt(Needed(id))

\* The data of the ids below id.
DataBelow(id) == SumFunctionOnSet([u \in Task |-> DataSize(u)], 0 .. id - 1)
FileSize(id) == IF wkld.file_mode = "NXN" THEN DataSize(id) ELSE DataBelow(N)
File(id) == IF wkld.file_mode = "NXN" THEN id ELSE N

Smaller(a, b) == IF a < b THEN a ELSE b

\* The id task t acts as.
IdIn(type, t) == IF type = "write" THEN t ELSE (t + wkld.read_reorder_offset) % N
Id(t) == IdIn(phase, t)

\* What a distribution may draw, in units of 1 / Grain.
unif_next_double(d) == {d.min * Grain + (d.max - d.min) * u : u \in 0 .. Grain - 1}
norm_next_double == -Grain .. MaxDraw * Grain
geom_next_double == {k * Grain : k \in 0 .. MaxDraw}
prng_next_double(d) ==
  CASE d.type = "unif" -> unif_next_double(d)
    [] d.type = "norm" -> norm_next_double
    [] d.type = "geom" -> geom_next_double

\* The number as a size.
prng_next_size(x) == IF x < 0 THEN 0 ELSE x \div Grain

\* The sizes for a distribution: one for each task, of the same seed in all.
test_sizes_prep(d) == [1 .. N -> {prng_next_size(x) : x \in prng_next_double(d)}]

\* The sizes a test has, or else draws.  A mutant draws in every phase.
SizesFor_Redrawn(sizes, given, d) == IF given # <<>> THEN {sizes} ELSE test_sizes_prep(d)
SizesFor(sizes, given, d) == IF sizes # <<>> THEN {sizes} ELSE test_sizes_prep(d)

\* The sizes of test_oset_type_prep(), and what its loops begin with.
Sizes ==
  /\ stage = "sizes"
  /\ UNCHANGED <<wkld, phase, written>>
  /\ data_sizes' \in SizesFor(data_sizes, wkld.data_sizes, wkld.data_size_distrib)
  /\ req_sizes' \in SizesFor(req_sizes, wkld.req_sizes, wkld.req_size_distrib)
  /\ tids' = [k \in 1 .. N |-> k - 1]
  /\ remain' = [id \in Task |-> DataSize(id)']
  /\ off' = 0
  /\ offs' = [id \in Task |-> <<>>]
  /\ next' = [t \in Task |-> 0]
  /\ left' = [t \in Task |-> DataSize(Id(t))']
  /\ xferred' = {}
  /\ stage' = "offsets"

\* test_buf_prep() fills the buffer of a write test, as large as a request, in a
\* loop whose unsigned int never reaches a larger size.  The others wait for the
\* task.
Fills(id) == phase = "write" /\ ReqSize(id) >= WordMod
Fill(t) ==
  /\ stage = "offsets" /\ Fills(Id(t))
  /\ stage' = "filling"
  /\ UNCHANGED <<wkld, phase, sizeVars, drawVars, offs, xferVars, written>>

\* test_offs_prep() divides by the size of a request, and asserts that it gets
\* memory for the list of offsets: none is given for one of negative length, and
\* none may be given for an empty one.
Listable(id) == ReqSize(id) # 0 /\ NumReqs(id) > 0
Dies(t) ==
  /\ stage \in {"offsets", "filling"} /\ ~Fills(Id(t)) /\ ~Listable(Id(t))
  /\ stage' = "died"
  /\ UNCHANGED <<wkld, phase, sizeVars, drawVars, offs, xferVars, written>>

\* The list is shorter than the task needs.  The backend will walk past its end:
\* what follows is undefined, and left out.
Shorter(t) ==
  /\ stage = "offsets" /\ ~Fills(Id(t))
  /\ ReqSize(Id(t)) # 0 /\ NumReqs(Id(t)) \in 0 .. Needed(Id(t)) - 1
  /\ stage' = "short"
  /\ UNCHANGED <<wkld, phase, sizeVars, drawVars, offs, xferVars, written>>

\* No task goes on when one does not come through the above.
Dividable == \A id \in Task : ReqSize(id) # 0 /\ NumReqs(id) = Needed(id)
Filled == \A id \in Task : ~Fills(id)

-------------------------------------------------------------------------------
(* Offsets.                                                                *)

\* test_offs_nxn_prep(): the requests of a file in order, or shuffled.
Offs_NXN(id) ==
  LET inOrder == [k \in 1 .. NumReqs(id) |-> (k - 1) * ReqSize(id)]
  IN  IF wkld.random THEN SetToSeqs(ToSet(inOrder)) ELSE {inOrder}

\* test_offs_nx1_seq_prep(): the requests of a task follow those of the tasks
\* before it.  A mutant stops one short of them.
Offs_NX1Seq_Short(id) ==
  {[k \in 1 .. NumReqs(id) |-> DataBelow(id - 1) + (k - 1) * ReqSize(id)]}
Offs_NX1Seq(id) ==
  {[k \in 1 .. NumReqs(id) |-> DataBelow(id) + (k - 1) * ReqSize(id)]}

Drawing == wkld.file_mode = "NX1" /\ wkld.random

\* test_offs_prep(), when the offsets are not drawn.
Prep ==
  /\ stage = "offsets" /\ Filled /\ Dividable /\ ~Drawing
  /\ LET Lists(id) == IF wkld.file_mode = "NXN" THEN Offs_NXN(id)
                                                ELSE Offs_NX1Seq(id)
     IN  offs' \in {f \in [Task -> UNION {Lists(id) : id \in Task}] :
                     \A id \in Task : f[id] \in Lists(id)}
  /\ stage' = "xfer"
  /\ UNCHANGED <<wkld, phase, sizeVars, drawVars, xferVars, written>>

\* The place in l_tid that follows from a number u / Grain: prng_next_uint()
\* takes its integer part, which is then scaled.
DrawIndex(u) == (u \div Grain) * Len(tids)

\* Some task still lacks offsets: its loop goes on.
OffsLack == \E id \in Task : Len(offs[id]) < NumReqs(id)

\* The ids left when the one at place i has no data left: the last takes its
\* place.
Without(i) == SubSeq([tids EXCEPT ![i] = tids[Len(tids)]], 1, Len(tids) - 1)

\* The loop of test_offs_nx1_rnd_prep().
Draw(u) ==
  LET i   == DrawIndex(u) + 1
      tid == tids[i]
      req == Smaller(ReqSize(tid), remain[tid]) IN
  /\ stage = "offsets" /\ Filled /\ Dividable /\ Drawing /\ OffsLack
  /\ offs' = IF Len(offs[tid]) < NumReqs(tid)
             THEN [offs EXCEPT ![tid] = Append(@, off)] ELSE offs
  /\ off' = off + req
  /\ remain' = [remain EXCEPT ![tid] = @ - req]
  /\ tids' = IF remain[tid] = req THEN Without(i) ELSE tids
  /\ UNCHANGED <<wkld, phase, stage, sizeVars, xferVars, written>>

\* The loop of a task ends with the last of its offsets; all have ended here.
DrawEnd ==
  /\ stage = "offsets" /\ Filled /\ Dividable /\ Drawing /\ ~OffsLack
  /\ stage' = "xfer"
  /\ UNCHANGED <<wkld, phase, sizeVars, drawVars, offs, xferVars, written>>

-------------------------------------------------------------------------------
(* Transfers.                                                              *)

\* The size of the next request of task t.  Sizes are unsigned: an offset past
\* the end of the file leaves room for anything.  A mutant forgets the room.
Request_Unbounded(t) == Smaller(ReqSize(Id(t)), left[t])
Request(t) ==
  LET o    == offs[Id(t)][next[t] + 1]
      full == Smaller(ReqSize(Id(t)), left[t])
  IN  IF o > FileSize(Id(t)) THEN full ELSE Smaller(FileSize(Id(t)) - o, full)

\* The bytes the next request of task t transfers.
Requested(t) ==
  LET o == offs[Id(t)][next[t] + 1] IN
  { <<File(Id(t)), b, Id(t), next[t]>> : b \in o .. o + Request(t) - 1 }

\* Requests are collective among those that opened the file together.  A mutant
\* has files of single tasks opened by all.
Collective == wkld.collective \/ (phase = "write" /\ wkld.flush_per_req)
Together_Always == Collective
Together == Collective /\ wkld.file_mode = "NX1"

\* The next request of a task in write_oset() or read_oset().
Xfer(t) ==
  /\ stage = "xfer" /\ ~Together /\ left[t] > 0
  /\ xferred' = xferred \cup Requested(t)
  /\ left' = [left EXCEPT ![t] = @ - Request(t)]
  /\ next' = [next EXCEPT ![t] = @ + 1]
  /\ UNCHANGED <<wkld, phase, stage, sizeVars, drawVars, offs, written>>

\* MPI_File_write_at_all() and the like, or requests with MPI_File_sync() after
\* each: every task makes one.
XferAll ==
  /\ stage = "xfer" /\ Together
  /\ \A t \in Task : left[t] > 0
  /\ xferred' = xferred \cup UNION {Requested(t) : t \in Task}
  /\ left' = [t \in Task |-> left[t] - Request(t)]
  /\ next' = [t \in Task |-> next[t] + 1]
  /\ UNCHANGED <<wkld, phase, stage, sizeVars, drawVars, offs, written>>

\* The bytes transferred by a task, an unsigned int where they are compared with
\* the size of its data.  A mutant compares all of them.
Bytes_All(t) == DataSize(Id(t)) - left[t]
Bytes(t) == (DataSize(Id(t)) - left[t]) % WordMod

\* A request past an int may fail: it is a negative count in MPI-IO, and POSIX
\* systems transfer less of it.
TooLarge(t) == left[t] > 0 /\ Request(t) >= WordMod \div 2

\* A task that seems to have transferred other than its data fails.
Fails(t) ==
  /\ stage = "xfer"
  /\ (left[t] = 0 /\ Bytes(t) # DataSize(Id(t))) \/ TooLarge(t)
  /\ stage' = "failed"
  /\ UNCHANGED <<wkld, phase, sizeVars, drawVars, offs, xferVars, written>>

\* All tasks have transferred their data, and none will fail.
Transferred ==
  stage = "xfer" /\ \A t \in Task : left[t] = 0 /\ Bytes(t) = DataSize(Id(t))

\* MPI_File_sync() after the requests is for tasks that have transferred data, but
\* all that opened the file have to call it.
Flushes(t) == wkld.flush /\ DataSize(Id(t)) > 0
Flushed ==
  wkld.file_mode = "NX1" => \A t, u \in Task : Flushes(t) = Flushes(u)

\* The read test follows the write test.
WriteEnd ==
  /\ Transferred /\ Flushed /\ phase = "write"
  /\ phase' = "read"
  /\ stage' = "sizes"
  /\ written' = {<<x[1], x[2]>> : x \in xferred}
  /\ UNCHANGED <<wkld, sizeVars, drawVars, offs, xferVars>>

ReadEnd ==
  /\ Transferred /\ phase = "read"
  /\ stage' = "done"
  /\ UNCHANGED <<wkld, phase, sizeVars, drawVars, offs, xferVars, written>>

-------------------------------------------------------------------------------
Init ==
  /\ wkld \in Wklds
  /\ phase = "write"
  /\ stage = "sizes"
  /\ data_sizes = wkld.data_sizes /\ req_sizes = wkld.req_sizes
  /\ tids = <<>> /\ remain = [id \in Task |-> 0] /\ off = 0
  /\ offs = [id \in Task |-> <<>>]
  /\ next = [t \in Task |-> 0] /\ left = [t \in Task |-> 0]
  /\ xferred = {} /\ written = {}

Next ==
  \/ Sizes
  \/ \E t \in Task : Fill(t)
  \/ \E t \in Task : Dies(t)
  \/ \E t \in Task : Shorter(t)
  \/ Prep
  \/ \E u \in 0 .. Grain - 1 : Draw(u)
  \/ DrawEnd
  \/ \E t \in Task : Xfer(t)
  \/ XferAll
  \/ \E t \in Task : Fails(t)
  \/ WriteEnd \/ ReadEnd

Spec == Init /\ [][Next]_vars

\* Every loop goes on.
FairSpec == Spec /\ WF_vars(Next)

-------------------------------------------------------------------------------
(* Properties.                                                             *)

\* No byte is transferred by two requests of a phase, of one task or of two,
\* however sizes differ among tasks and whatever is drawn or shuffled.
NoOverlap ==
  \A x, y \in xferred : x[1] = y[1] /\ x[2] = y[2] => x = y

\* Each phase transfers its files as a whole and nothing past their ends, in
\* whatever places of the loop and by whatever tasks.
WholeFiles ==
  Transferred =>
    {<<x[1], x[2]>> : x \in xferred}
      = UNION {{File(id)} \X (0 .. FileSize(id) - 1) : id \in Task}

\* What a read test reads is what the write test before it wrote, by other tasks
\* and with sizes that may have been drawn: the two agree on them.
ReadsWritten ==
  phase = "read" =>
    /\ \A x \in xferred : <<x[1], x[2]>> \in written
    /\ Transferred => written = {<<x[1], x[2]>> : x \in xferred}

\* The loops over the requests stay within the lists of offsets, whose lengths
\* were computed from the sizes alone, and find each offset they need; the one
\* exception is a task of so many requests that an unsigned int does not count
\* them, which may get a list too short for its loop.
OffsFit ==
  /\ stage = "xfer" =>
       \A t \in Task : left[t] > 0 => next[t] < Len(offs[Id(t)])
  /\ stage = "short" => \E id \in Task : Needed(id) >= WordMod

\* Whatever is drawn, tasks get all their offsets of a shared file in a row and in
\* a fixed turn, the first one, then the others from the last on.  The comment on
\* test_offs_nx1_rnd_prep() says otherwise, "A task id is randomly generated for
\* the first offset": DrawIndex() is 0 for every number drawn.
DrawnInTurn ==
  stage = "xfer" /\ Drawing =>
    \A id \in Task :
      LET before == IF id = 0 THEN 0 ELSE DataSize(0) + DataBelow(N) - DataBelow(id + 1)
      IN  offs[id] = [k \in 1 .. NumReqs(id) |-> before + (k - 1) * ReqSize(id)]

\* How a test ends is decided by its sizes, before anything is transferred.  It
\* dies only of a size of zero, which the validation lets pass and normal and
\* geometric distributions draw, or of more requests than an int counts; it gets
\* a list of offsets too short only for more of them than an unsigned int counts;
\* it fills a buffer for ever only when that counts not even the bytes of a
\* request.  It fails only for data of a size past an unsigned int, or for
\* requests past an int, and it comes to its end only without all of that but
\* empty data and such requests.
SizesDecide ==
  /\ stage = "died" =>
       \E id \in Task : \/ ReqSize(id) = 0 \/ DataSize(id) = 0
                       \/ Needed(id) >= WordMod \div 2
  /\ stage = "short" => \E id \in Task : Needed(id) >= WordMod
  /\ stage = "filling" => \E id \in Task : ReqSize(id) >= WordMod
  /\ stage = "failed" =>
       \E id \in Task : \/ DataSize(id) >= WordMod
                       \/ ReqSize(id) >= WordMod \div 2
  /\ stage = "done" =>
       \A id \in Task : /\ ReqSize(id) \in 1 .. WordMod - 1
                       /\ DataSize(id) < WordMod
                       /\ Needed(id) < WordMod \div 2

TestEnded == stage \in {"done", "died", "failed", "short", "filling"}

\* Whatever the sizes of the requests, every task draws, writes and reads all of
\* them and comes to the end: no loop lacks an offset or waits for a request that
\* others do not make.  The README promises "parameters for specifying offset-
\* based workloads" with "different sizes per process".
Terminates == <>TestEnded

\* Some task of a shared file has fewer collective requests than another, or no
\* data to flush while another has.
Uneven ==
  /\ stage = "xfer" /\ wkld.file_mode = "NX1"
  /\ \/ Collective /\ \E t, u \in Task : Needed(Id(t)) # Needed(Id(u))
     \/ phase = "write" /\ ~Flushed

\* Every task comes to the end, except where one has fewer collective calls to
\* make than the others.  One end is no end of the program: the loop that fills
\* the buffer for a request whose size is past an unsigned int.
EndsUnlessUneven == <>(TestEnded \/ Uneven)

===============================================================================
