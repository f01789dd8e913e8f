------------------------------- MODULE MCParser -------------------------------
\* Values for Parser: unsigned ints of 4 bits, 3 processes.
EXTENDS Parser

\* 4 tasks are cut to 3, and 18 to 2, as a count and in an array.
MCTaskNums == {2, 4}
\* 3 variables are one more than there are types where none are given.
MCCounts == {0, 2, 3, 18, Bad}
MCUIntLists == {<<>>, <<2>>, <<2, 2>>, <<3, 1>>, <<18, 1>>, <<Bad, 1>>}
MCNameLists == {<<"char">>, <<"char", "double">>, <<Bad, "char">>}
MCSizeLists == {<<>>, <<8, 4>>, <<8, Bad>>, Bad}
MCTestLists == {<<>>, <<"read">>}
MCDistObjs ==
  {[name |-> "normal", params |-> "complete"],
   [name |-> "normal", params |-> "lacking"],
   [name |-> "normal", params |-> "empty"],
   [name |-> Undefined, params |-> "complete"],
   Many, Bad}

===============================================================================
