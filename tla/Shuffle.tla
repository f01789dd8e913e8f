-------------------------------- MODULE Shuffle -------------------------------
(***************************************************************************)
(* shuffle(): each of the first n places of an array is swapped in turn    *)
(* with a place drawn at random.                                           *)
(***************************************************************************)
EXTENDS Integers

\* Swapping two elements through the buffer swp, and a mutant of it that
\* forgets the buffer.
Swapped_Unbuffered(a, j, k) == [a EXCEPT ![j] = a[k]]
Swapped(a, j, k) == [a EXCEPT ![j] = a[k], ![k] = a[j]]

\* What becomes of array a when draws[i] is drawn for place i.
Shuffled(a, n, draws) ==
  LET until[i \in 0 .. n] ==
        IF i = 0 THEN a
        ELSE IF draws[i] = i THEN until[i - 1]
        ELSE Swapped(until[i - 1], draws[i], i)
  IN  until[n]

===============================================================================
