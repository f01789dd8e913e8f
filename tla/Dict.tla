---------------------------------- MODULE Dict ---------------------------------
(***************************************************************************)
(* The dictionary of iore_dict.c, which holds the options of backends and  *)
(* distributions: an array of entries that grows, searched from its start  *)
(* to its end.                                                             *)
(***************************************************************************)
EXTENDS Integers

CONSTANTS
  Key,        \* keys, which are not empty
  Val,        \* values
  NoValue,    \* no value; no entry
  Capacities  \* the capacities that dictionaries are made with

Entry == [key : Key, val : Val]

ASSUME DictAssumption ==
  /\ NoValue \notin Val /\ NoValue \notin Entry
  /\ Capacities \subseteq Nat

VARIABLES
  entry,     \* the array
  _length,   \* how much of it is used
  _capacity, \* its size
  got        \* the value that dict_get() returned last

array == <<entry, _length, _capacity>>
dictVars == <<array, got>>

Slot == 0 .. _capacity - 1
Used == 0 .. _length - 1

-------------------------------------------------------------------------------
\* The places where key k is.
Found(k) == {i \in Used : entry[i].key = k}

\* dict_indexof() goes on when it has found one: the last counts.
IndexOf(k) ==
  IF Found(k) = {} THEN -1
  ELSE CHOOSE i \in Found(k) : \A j \in Found(k) : j <= i

\* The capacity that has room for n entries, in growing like a Java ArrayList;
\* and a mutant that grows when it is too late.
Room_Late(n) ==
  IF n <= _capacity + 1 THEN _capacity
  ELSE IF (_capacity * 3) \div 2 + 1 < n THEN n ELSE (_capacity * 3) \div 2 + 1
Room(n) ==
  IF n <= _capacity THEN _capacity
  ELSE IF (_capacity * 3) \div 2 + 1 < n THEN n ELSE (_capacity * 3) \div 2 + 1

\* The array when it has n slots.
Resized(n) ==
  IF n = _capacity THEN entry
  ELSE [i \in 0 .. n - 1 |-> IF i < _length THEN entry[i] ELSE NoValue]

\* dict_initc(), also of a dictionary in use that dict_init() made before; a
\* capacity of zero leaves it as it is.
dict_initc(capacity) ==
  /\ capacity > 0
  /\ entry' = [i \in 0 .. capacity - 1 |-> NoValue]
  /\ _length' = 0
  /\ _capacity' = capacity
  /\ UNCHANGED got

\* dict_set() of a key that is there.
SetOld(k, v) ==
  /\ IndexOf(k) >= 0
  /\ entry' = [entry EXCEPT ![IndexOf(k)].val = v]
  /\ UNCHANGED <<_length, _capacity, got>>

\* dict_set() of a key that is not.
SetNew(k, v) ==
  /\ IndexOf(k) < 0
  /\ _capacity' = Room(_length + 1)
  /\ entry' = [Resized(_capacity') EXCEPT ![_length] = [key |-> k, val |-> v]]
  /\ _length' = _length + 1
  /\ UNCHANGED got

\* What dict_remove() leaves when the entry at place idx goes: those after it
\* move up.  A mutant moves the next one only.
Without_Once(idx) ==
  [i \in Slot |-> CASE i = _length - 1 -> NoValue
                    [] i = idx /\ i # _length - 1 -> entry[i + 1]
                    [] OTHER -> entry[i]]
Without(idx) ==
  [i \in Slot |-> CASE i = _length - 1 -> NoValue
                    [] i \in idx .. _length - 2 -> entry[i + 1]
                    [] OTHER -> entry[i]]

dict_remove(k) ==
  /\ IndexOf(k) >= 0
  /\ entry' = Without(IndexOf(k))
  /\ _length' = _length - 1
  /\ UNCHANGED <<_capacity, got>>

dict_get(k) ==
  /\ got' = IF IndexOf(k) >= 0 THEN entry[IndexOf(k)].val ELSE NoValue
  /\ UNCHANGED array

-------------------------------------------------------------------------------
dict_newc ==
  /\ _capacity \in Capacities
  /\ _length = 0
  /\ entry = [i \in 0 .. _capacity - 1 |-> NoValue]
  /\ got = NoValue

DictNext ==
  \/ \E c \in Capacities : dict_initc(c)
  \/ \E k \in Key : \/ dict_remove(k) \/ dict_get(k)
                    \/ \E v \in Val : SetOld(k, v) \/ SetNew(k, v)

DictSpec == dict_newc /\ [][DictNext]_dictVars

-------------------------------------------------------------------------------
(* Properties.                                                             *)

DictTypeOK ==
  /\ _length \in Nat /\ _capacity \in Nat
  /\ entry \in [Slot -> Entry \cup {NoValue}]
  /\ got \in Val \cup {NoValue}

\* The entries fill the array from its start and never go over its end, and
\* whatever is behind them was cleared, though they move, grow and shrink.
Filled ==
  /\ _length <= _capacity
  /\ \A i \in Slot : entry[i] # NoValue <=> i \in Used

\* A key is in the array once: the search would hide a second entry, until the
\* removal of one brings the other to light.
KeysDiffer == \A i, j \in Used : entry[i].key = entry[j].key => i = j

DictIInv == DictTypeOK /\ Filled /\ KeysDiffer

\* The array is a dictionary: every value read is the one set last.
Map == [k \in {entry[i].key : i \in Used} |-> entry[IndexOf(k)].val]
Abstract == INSTANCE Dictionary WITH map <- Map, NULL <- NoValue
DictionarySpec == Abstract!Spec

===============================================================================
