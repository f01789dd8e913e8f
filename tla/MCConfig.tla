------------------------------- MODULE MCConfig -------------------------------
(***************************************************************************)
(* Values for Config: unsigned ints of 2 bits, up to 2 runs in an array.   *)
(***************************************************************************)
EXTENDS Config

\* 4 is cut to 0, and 5 to 1.
MCCounts == {2, 4, 5}
MCNames == {"", "file", Bad}
MCDirs == {"", "dir"}
MCOptionVals == {"set", Bad}
Given == << <<"key", "a">>, <<"key", "b">> >>
MCAfioObjs ==
  {[name |-> "mpiio", params |-> Given], [name |-> "cstream", params |-> <<>>],
   [name |-> Undefined, params |-> <<>>],
   [name |-> "posix", params |-> << <<"key", "a">>, <<"key", Bad>> >>], Many, Bad}
MCAfsbObjs ==
  {[name |-> "lustre", params |-> Given], [name |-> "lustre", params |-> <<>>], Many}
MCSizeObjs == {"sizes", "params", "no params", "no object", Many, Bad}
MCReportLists == {<<"task">>, <<"test", Bad>>}

===============================================================================
