------------------------------- MODULE CartDset -------------------------------
(***************************************************************************)
(* A Cartesian dataset distributed among tasks: the block of a task that   *)
(* test_dset_cart_type_prep() finds, the offsets of its rows that          *)
(* dset_to_off() makes by counting through the block, and the requests of  *)
(* write_dset() and read_dset(), one per row; or, with a view of MPI-IO,   *)
(* one for the block.                                                      *)
(*                                                                         *)
(* Tasks do not interact here: the model follows any one of them.  The     *)
(* unit of sizes and offsets is one element, _vars_size bytes.             *)
(***************************************************************************)
EXTENDS Integers, Sequences, FiniteSetsExt, Functions

CONSTANTS
  Carts,  \* the datasets that may be given
  UIntMod \* 2^w for an unsigned int of w bits

\* Dimensions count from 0.
Dims(c) == 0 .. c.num_dims - 1
Product(f, S) == FoldFunctionOnSet(LAMBDA x, y : x * y, 1, f, S)
CeilDiv(a, b) == (a + b - 1) \div b

\* The sides of a block that is cut nowhere.
Whole(c) == [i \in Dims(c) |-> CeilDiv(c.g_dim_sizes[i], c.g_dim_divs[i])]

\* A dataset as wkld_dset_cart_valid() lets it pass.  Its sizes and its divisions are
\* such that an int has them, as max_dim_size_task, distance and fac do; and its blocks
\* have only as many elements as offs_len, a product of unsigned numbers, may count.
CartValid(c) ==
  /\ c.num_dims \in Nat \ {0}
  /\ c.g_dim_sizes \in [Dims(c) -> 1 .. UIntMod \div 2 - 1]
  /\ c.g_dim_divs \in [Dims(c) -> Nat \ {0}]
  /\ \A i \in Dims(c) : c.g_dim_divs[i] <= c.g_dim_sizes[i]
  /\ Product(c.g_dim_divs, Dims(c)) < UIntMod \div 2
  /\ Product(Whole(c), Dims(c)) < UIntMod
  /\ c.file_mode \in {"NX1", "NXN"}

ASSUME CartDsetAssumption ==
  /\ UIntMod \in Nat \ {0}
  /\ \A c \in Carts : CartValid(c)

VARIABLES
  cart,           \* the dataset; never changes
  access,         \* how the backend finds its places; never changes
  task_id,        \* the id the task acts as; never changes
  pc,             \* "prep", "row", "carry", "xfer", "view"; at last "done",
                  \* "failed" (the file cannot be opened, which aborts all tasks)
                  \* or "oversize"
  my_start_coord, \* the first element of the block
  my_dim_sizes,   \* the sizes of the block
  coord,          \* the first element of the row
  l,              \* the dimension counted through
  offs,           \* the offsets of the rows, so far
  nbytes,         \* elements transferred
  xferred         \* the places in the file they were transferred to or from, and
                  \* the place of each in the buffer

block == <<my_start_coord, my_dim_sizes>>
given == <<cart, access, task_id>>
vars == <<given, pc, block, coord, l, offs, nbytes, xferred>>

\* wkld_dset_cart_valid() wants as many tasks as there are divisions.
Tasks(c) == 0 .. Product(c.g_dim_divs, Dims(c)) - 1

\* lseek() or fseek(), a call that does both, their MPI counterparts, and a view.
Access == {"seek", "at", "mpi seek", "mpi at", "mpi view"}

Last == cart.num_dims - 1

-------------------------------------------------------------------------------
(* test_dset_cart_type_prep()                                              *)

MaxDimSize(i) == CeilDiv(cart.g_dim_sizes[i], cart.g_dim_divs[i])

\* The divisions of the dimensions below i; and a mutant that has its own too.
Fac_Own(i) == Product(cart.g_dim_divs, 0 .. i)
Fac(i) == Product(cart.g_dim_divs, 0 .. i - 1)

StartCoord(i) ==
  ((task_id \div Fac(i)) % cart.g_dim_divs[i]) * MaxDimSize(i)

\* The size of a block is cut at the end of the dimension; it is unsigned, the
\* distance is not.  A mutant does not cut it.
DimSize_Uncut(i) == MaxDimSize(i)
DimSize(i) ==
  LET distance == cart.g_dim_sizes[i] - StartCoord(i) IN
  (IF distance < MaxDimSize(i) THEN distance ELSE MaxDimSize(i)) % UIntMod

\* A block that starts behind the end of its dimension is so large that it
\* depends on the machine what becomes of it; the model ends there.
Oversize == \E i \in Dims(cart) : my_dim_sizes'[i] > MaxDimSize(i)

Prep ==
  /\ pc = "prep"
  /\ my_start_coord' = [i \in Dims(cart) |-> StartCoord(i)]
  /\ my_dim_sizes' = [i \in Dims(cart) |-> DimSize(i)]
  /\ coord' = my_start_coord'
  /\ pc' = IF Oversize THEN "oversize" ELSE IF access = "mpi view" THEN "view" ELSE "row"
  /\ UNCHANGED <<given, l, offs, nbytes, xferred>>

-------------------------------------------------------------------------------
(* dset_to_off()                                                           *)

\* The number of rows of the block; and a mutant that forgets a dimension.
OffsLen_Short == Product(my_dim_sizes, 1 .. Last - 1) % UIntMod
OffsLen == Product(my_dim_sizes, 0 .. Last - 1) % UIntMod

\* The place of the element at c in a file that all tasks share.
Linear(c) ==
  SumFunction([j \in Dims(cart) |->
    c[j] * Product(cart.g_dim_sizes, j + 1 .. Last)])

Offset ==
  IF cart.file_mode = "NX1" THEN Linear(coord)
                            ELSE (Len(offs) * my_dim_sizes[Last]) % UIntMod

\* Counting starts in the last dimension but one.  A dataset of one dimension
\* has none: what is counted up is next to the array, whatever is there.
Advanced == IF l' \in Dims(cart) THEN [coord EXCEPT ![l'] = @ + 1] ELSE coord

Row ==
  /\ pc = "row" /\ Len(offs) < OffsLen
  /\ offs' = Append(offs, Offset)
  /\ IF cart.file_mode = "NX1"
     THEN l' = Last - 1 /\ coord' = Advanced /\ pc' = "carry"
     ELSE UNCHANGED <<l, coord, pc>>
  /\ UNCHANGED <<given, block, nbytes, xferred>>

\* The block ends in dimension l, and there is one to carry to; and a mutant.
Full_First == l >= 0 /\ coord[l] = my_start_coord[l] + my_dim_sizes[l]
Full == l > 0 /\ coord[l] = my_start_coord[l] + my_dim_sizes[l]

\* The count goes on in the dimension before.
Carry ==
  /\ pc = "carry" /\ Full
  /\ l' = l - 1
  /\ coord' = [coord EXCEPT ![l] = my_start_coord[l], ![l - 1] = @ + 1]
  /\ UNCHANGED <<given, pc, block, offs, nbytes, xferred>>

CarryEnd ==
  /\ pc = "carry" /\ ~Full
  /\ pc' = "row"
  /\ UNCHANGED <<given, block, coord, l, offs, nbytes, xferred>>

RowsEnd ==
  /\ pc = "row" /\ Len(offs) = OffsLen
  /\ pc' = "xfer"
  /\ UNCHANGED <<given, block, coord, l, offs, nbytes, xferred>>

-------------------------------------------------------------------------------
(* write_dset() and read_dset()                                            *)

MySize == Product(my_dim_sizes, Dims(cart))
ReqSize == my_dim_sizes[Last]

\* The requests made so far, each of a row.
Requests == nbytes \div ReqSize

\* A row after the other of the buffer, but with MPI_File_seek(): then each
\* request has the first one.  Mutants do the same for all, or for none.
InBuffer_First(k) == k
InBuffer(k) == IF access = "mpi seek" THEN k ELSE nbytes + k
Xfer ==
  /\ pc = "xfer" /\ nbytes < MySize
  /\ LET o == offs[Requests + 1]
         Places == o .. o + ReqSize - 1 IN
       xferred' = [e \in DOMAIN xferred \cup Places |->
                     IF e \in Places THEN InBuffer(e - o) ELSE xferred[e]]
  /\ nbytes' = nbytes + ReqSize
  /\ UNCHANGED <<given, pc, block, coord, l, offs>>

XferEnd ==
  /\ pc = "xfer" /\ nbytes >= MySize
  /\ pc' = "done"
  /\ UNCHANGED <<given, block, coord, l, offs, nbytes, xferred>>

\* mpiio_set_file_view(): the block as a part of the whole dataset, in a file of
\* its own too.  MPI refuses a part that is empty.  One request then transfers all
\* places of the part, in their order.  A mutant takes the block's place for 0.
InView_Start(c) == \A i \in Dims(cart) : c[i] < my_dim_sizes[i]
InView(c) ==
  \A i \in Dims(cart) : c[i] - my_start_coord[i] \in 0 .. my_dim_sizes[i] - 1
View ==
  LET Coords == [Dims(cart) -> 0 .. Max(Range(cart.g_dim_sizes))] IN
  {Linear(c) : c \in {d \in Coords : InView(d)}}

XferView ==
  /\ pc = "view"
  /\ IF MySize = 0 THEN pc' = "failed" /\ UNCHANGED <<nbytes, xferred>>
     ELSE /\ xferred' = [e \in View |-> Cardinality({f \in View : f < e})]
          /\ nbytes' = MySize
          /\ pc' = "done"
  /\ UNCHANGED <<given, block, coord, l, offs>>

-------------------------------------------------------------------------------
Init ==
  /\ cart \in Carts
  /\ access \in Access
  /\ task_id \in Tasks(cart)
  /\ pc = "prep"
  /\ my_start_coord = <<>> /\ my_dim_sizes = <<>> /\ coord = <<>>
  /\ l = 0
  /\ offs = <<>>
  /\ nbytes = 0
  /\ xferred = <<>>

Next == Prep \/ Row \/ Carry \/ CarryEnd \/ RowsEnd \/ Xfer \/ XferEnd \/ XferView

Spec == Init /\ [][Next]_vars

-------------------------------------------------------------------------------
(* Properties.                                                             *)

\* The coordinates of the element at place e of the shared file, and the task
\* whose block it is in: a function, so that no two tasks have the same one.
CoordOf(e) ==
  [j \in Dims(cart) |-> (e \div Product(cart.g_dim_sizes, j + 1 .. Last))
                          % cart.g_dim_sizes[j]]
Owner(e) ==
  SumFunction([j \in Dims(cart) |->
    (CoordOf(e)[j] \div MaxDimSize(j)) * Product(cart.g_dim_divs, 0 .. j - 1)])

\* The tasks together write and read every element once: each exactly those of
\* its own block, in a file of its own all of them from the start.  With a view
\* also a file of its own has them where they are in the whole dataset.
OwnBlock ==
  pc = "done" =>
    DOMAIN xferred =
      IF cart.file_mode = "NX1" \/ access = "mpi view"
      THEN {e \in 0 .. Product(cart.g_dim_sizes, Dims(cart)) - 1 : Owner(e) = task_id}
      ELSE 0 .. MySize - 1

\* However its places are found, the block is in the buffer in the order of the
\* file, without gaps, so that one way reads what another has written; but with
\* MPI_File_seek() all rows are written from, and read to, the place of the first.
BufferInOrder ==
  pc = "done" => \A e \in DOMAIN xferred :
    LET rank == Cardinality({f \in DOMAIN xferred : f < e}) IN
    xferred[e] = IF access = "mpi seek" THEN rank % ReqSize ELSE rank

\* Of a dataset that divisions do not divide evenly, what the validation accepts
\* and the transfer cannot handle is never needed: a task whose block starts
\* behind the end, and a task whose part of the file is empty and is refused for
\* a view, owns no element.  (But it is among the tasks that must be there.)
OnlySurplusFails ==
  pc \in {"oversize", "failed"} =>
    \A e \in 0 .. Product(cart.g_dim_sizes, Dims(cart)) - 1 : Owner(e) # task_id

\* With collective I/O each request is one of all tasks.  The number of requests
\* is that of the first task, whose block is cut nowhere, just when the block is
\* not empty and is cut, if at all, in its last dimension.
CollectiveRequests ==
  pc = "done" /\ access # "mpi view" =>
    LET requests == IF ReqSize = 0 THEN 0 ELSE Requests IN
    (requests = Product([i \in Dims(cart) |-> MaxDimSize(i)], 0 .. Last - 1)) <=>
      /\ DOMAIN xferred # {}
      /\ \A i \in 0 .. Last - 1 : StartCoord(i) + MaxDimSize(i) <= cart.g_dim_sizes[i]

\* The loop of the backend, which ends by the size of the block alone, stays
\* within the list of offsets, whose length comes from all dimensions but one; and
\* counting through the block never leaves the coordinates, also after the last
\* row, but in a dataset of one dimension: there coord[num_dims - 2], the place
\* before the array, is counted up, although one dimension is allowed.
ArraysSuffice ==
  /\ pc = "xfer" /\ nbytes < MySize => Requests < Len(offs)
  /\ pc = "carry" => IF cart.num_dims = 1 THEN l = -1 ELSE l \in Dims(cart)

===============================================================================
