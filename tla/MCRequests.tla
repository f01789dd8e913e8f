------------------------------ MODULE MCRequests ------------------------------
(***************************************************************************)
(* Model-checking instances of Requests: the workloads that may be given.  *)
(***************************************************************************)
EXTENDS Requests

\* No distribution, and one of each kind, some of whose numbers are negative.
None == [type |-> "unif", min |-> 0, max |-> 0]
Unif == [type |-> "unif", min |-> -1, max |-> 4]
Norm == [type |-> "norm", min |-> 0, max |-> 0]
Geom == [type |-> "geom", min |-> 0, max |-> 0]

\* Data sizes per task or cyclic, with and without a last short request.
DataSizes == { <<3>>, <<4, 3>>, <<4, 1, 2>> }
ReqSizes  == { <<2>>, <<3, 1>>, <<2, 3, 1>> }

AllWklds ==
  { [file_mode |-> m, random |-> r, collective |-> FALSE,
     flush_per_req |-> FALSE, flush |-> TRUE, data_size_distrib |-> None,
     req_size_distrib |-> None, data_sizes |-> d, req_sizes |-> q,
     read_reorder_offset |-> o] :
      m \in {"NX1", "NXN"}, r \in BOOLEAN, d \in DataSizes, q \in ReqSizes,
      o \in {0, 1} }

\* Collective requests, of as many for each task.
EvenWklds ==
  { [file_mode |-> m, random |-> r, collective |-> c, flush_per_req |-> f,
     flush |-> TRUE, data_size_distrib |-> None, req_size_distrib |-> None,
     data_sizes |-> <<d>>, req_sizes |-> <<q>>, read_reorder_offset |-> o] :
      m \in {"NX1", "NXN"}, r \in BOOLEAN, d \in {2, 3}, q \in {1, 2},
      c \in BOOLEAN, f \in BOOLEAN, o \in {0, 1} }

\* Requests on files of single tasks, in MPI-IO terms collective.
SelfWklds ==
  { [file_mode |-> "NXN", random |-> FALSE, collective |-> c,
     flush_per_req |-> ~c, flush |-> TRUE, data_size_distrib |-> None,
     req_size_distrib |-> None, data_sizes |-> d, req_sizes |-> <<1>>,
     read_reorder_offset |-> 1] :
      d \in DataSizes, c \in BOOLEAN }

\* Collective requests, of as many as the sizes of each task need.
UnevenWklds ==
  { [file_mode |-> "NX1", random |-> FALSE, collective |-> c,
     flush_per_req |-> ~c, flush |-> FALSE, data_size_distrib |-> None,
     req_size_distrib |-> None, data_sizes |-> <<4, 2>>, req_sizes |-> <<q>>,
     read_reorder_offset |-> 0] : q \in {1, 2, 3}, c \in BOOLEAN }

\* A flush of the tasks that have data.
FlushWklds ==
  { [file_mode |-> m, random |-> r, collective |-> FALSE,
     flush_per_req |-> FALSE, flush |-> TRUE, data_size_distrib |-> None,
     req_size_distrib |-> None, data_sizes |-> d, req_sizes |-> <<1>>,
     read_reorder_offset |-> 1] :
      m \in {"NX1", "NXN"}, r \in BOOLEAN, d \in { <<2, 0>>, <<0>> } }

\* Sizes drawn, or zero, or around those of an int and an unsigned int: data (17),
\* numbers of requests (8, 16 and 17) and requests (8, 16).
SizeSources ==
  { << <<>>, <<2>>, None >>, << <<5, 2>>, <<>>, Geom >>,
    << <<3, 4>>, <<>>, Norm >>, << <<1, 0>>, <<1>>, None >>,
    << <<2>>, <<1, 0>>, None >>,
    << <<17, 1>>, <<8>>, None >>, << <<8, 2>>, <<1>>, None >>,
    << <<16, 2>>, <<1>>, None >>, << <<17, 1>>, <<1>>, None >>,
    << <<3, 0>>, <<16, 2>>, None >> }
DrawnWklds ==
  { [file_mode |-> m[1], random |-> m[2], collective |-> FALSE,
     flush_per_req |-> FALSE, flush |-> FALSE, data_size_distrib |-> Unif,
     req_size_distrib |-> p[3], data_sizes |-> p[1], req_sizes |-> p[2],
     read_reorder_offset |-> 1] :
      m \in { <<"NX1", FALSE>>, <<"NX1", TRUE>>, <<"NXN", FALSE>> },
      p \in SizeSources }

Checked ==
  UNION {AllWklds, EvenWklds, SelfWklds, UnevenWklds, FlushWklds, DrawnWklds}

===============================================================================
