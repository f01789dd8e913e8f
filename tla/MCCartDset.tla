------------------------------ MODULE MCCartDset ------------------------------
(***************************************************************************)
(* Model-checking instances of CartDset: the datasets that may be given.   *)
(***************************************************************************)
EXTENDS CartDset

\* All datasets of n dimensions of at most m elements each.
Datasets(n, m) ==
  {c \in [num_dims : {n}, g_dim_sizes : [0 .. n - 1 -> 1 .. m],
          g_dim_divs : [0 .. n - 1 -> 1 .. m], file_mode : {"NX1", "NXN"}] :
     CartValid(c)}

MCCarts == Datasets(1, 7) \cup Datasets(2, 5) \cup Datasets(3, 3)

===============================================================================
