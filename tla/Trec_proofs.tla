------------------------------ MODULE Trec_proofs ------------------------------
(***************************************************************************)
(* Proofs about the time records, for any number of replications, runs and *)
(* repetitions, and however many of them fail.                             *)
(*                                                                         *)
(* The calls of iore_trec.c do nothing when a pointer is null or an id too *)
(* large, and otherwise trust both.  The invariant says that they may: at  *)
(* each place of the program the records above that place are there, with  *)
(* as many records below them as the loops go through (Records); the       *)
(* pointers that are used there point to them, whatever others were left   *)
(* by a test that failed (Pointers); and what is below a run that is still *)
(* to come is not there yet (Ahead).                                       *)
(*                                                                         *)
(* What is exported needs more (EInv): that records have the numbers of    *)
(* the loops (Numbered, NumbersKept); that a record is committed if and    *)
(* only if its test was taken to its end (Recorded); that records of tests *)
(* to come are as calloc() left them (Fresh), so that times are those of   *)
(* the one execution of the test, in order (Timed, InOrder).               *)
(*                                                                         *)
(* What is shown in between needs this of the records (SInv): those shown  *)
(* are of tests begun, committed as long as the repetition lasts (Shown),  *)
(* and what is still committed after it was shown with the very times that *)
(* its end reduces (Summed), of actions taken in order (Taken).            *)
(***************************************************************************)
EXTENDS Trec, SequenceTheorems, TLAPS

\* Where the program is.
Loop    == {"exp", "repls", "runs", "export", "done"}
InTests == {"tests", "action", "rept_stop"}
InRun   == {"repts", "run_stop"} \cup InTests
InRepl  == {"runs"} \cup InRun

\* The path of the program is that of a replication, or of a repetition.
Places ==
  /\ pc \in Loop \cup InRun
  /\ pc \in Loop => \E i \in 0 .. NumRepls : at = <<i>>
  /\ pc = "runs" => at[1] # 0
  /\ pc \in InRun =>
       \E i \in 1 .. NumRepls, r \in RunIds \ todo :
         \E k \in 0 .. Runs[r].num_repetitions : at = <<i, r, k>>
  /\ pc \in InTests => at[3] # 0
  /\ todo \subseteq RunIds
  /\ types \in Seq(Type) /\ last \in 0 .. 4
  /\ pc = "action" => types # <<>> /\ last # 0

\* The records above the place of the program, and those below them.
Records ==
  /\ <<>> \in DOMAIN rec
  /\ \A p \in DOMAIN rec : "num" \in DOMAIN rec[p]
  /\ pc # "exp" =>
       rec[<<>>].num = NumRepls /\ \A i \in 1 .. NumRepls : <<i>> \in DOMAIN rec
  /\ pc \in InRepl =>
       /\ rec[<<at[1]>>].num = Len(Runs)
       /\ \A r \in RunIds : <<at[1], r>> \in DOMAIN rec
  /\ pc \in InRun =>
       /\ rec[<<at[1], at[2]>>].num = Runs[at[2]].num_repetitions
       /\ \A k \in 1 .. Runs[at[2]].num_repetitions :
            /\ <<at[1], at[2], k>> \in DOMAIN rec
            /\ \A type \in Type : <<at[1], at[2], k, type>> \in DOMAIN rec

\* The records of repetitions and tests are those of runs begun.
Ahead ==
  \A p \in DOMAIN rec : Len(p) >= 3 =>
    /\ p[1] \in 0 .. at[1]
    /\ p[1] = at[1] /\ pc \in InRepl => p[2] \notin todo

\* The pointers in use.
Pointers ==
  /\ DOMAIN st = {"trec_repl", "trec_run", "trec_rept", "trec_test", "test_action"}
  /\ pc \in InRepl => st.trec_repl = <<at[1]>>
  /\ pc \in InRun  => st.trec_run = <<at[1], at[2]>>
  /\ pc \in InTests => st.trec_rept = at
  /\ pc = "action" \/ (pc = "tests" /\ last # 0 /\ types # <<>>) =>
       st.trec_test = <<at[1], at[2], at[3], Head(types)>>

IInv == Places /\ Records /\ Ahead /\ Pointers

\* A step changes no record of a repetition but the one executed after it.
PastKept ==
  \A p \in DOMAIN rec : Len(p) >= 3 /\ rec'[p] # rec[p] => InRept(p, at')

-------------------------------------------------------------------------------
(* Paths.                                                                  *)

Elem == Nat \cup Type

LEMMA AppendIs ==
  ASSUME NEW s \in Seq(Elem), NEW e \in Elem, NEW t \in Seq(Elem),
         Len(t) = Len(s) + 1, t[Len(t)] = e,
         \A i \in 1 .. Len(s) : t[i] = s[i]
  PROVE  Append(s, e) = t
<1> DEFINE a == Append(s, e)
<1>1. /\ a \in Seq(Elem) /\ Len(a) = Len(s) + 1 /\ a[Len(s) + 1] = e
      /\ \A i \in 1 .. Len(s) : a[i] = s[i]
  BY AppendProperties
<1>2. Len(s) \in Nat
  OBVIOUS
<1>3. \A i \in 1 .. Len(a) : a[i] = t[i]
  <2> HIDE DEF a
  <2>1. TAKE i \in 1 .. Len(a)
  <2>2. i \in 1 .. Len(s) \/ i = Len(s) + 1
    BY <1>1, <1>2, <2>1
  <2> QED BY <1>1, <2>2
<1> QED BY <1>1, <1>3, SeqEqual

LEMMA Appended ==
  ASSUME NEW i \in Nat, NEW r \in Nat, NEW k \in Nat, NEW e \in Type
  PROVE  /\ Append(<<>>, i) = <<i>>
         /\ Append(<<i>>, r) = <<i, r>>
         /\ Append(<<i, r>>, k) = <<i, r, k>>
         /\ Append(<<i, r, k>>, e) = <<i, r, k, e>>
<1>1. i \in Elem /\ r \in Elem /\ k \in Elem /\ e \in Elem
  BY DEF Elem
<1>2. /\ <<>> \in Seq(Elem) /\ <<i>> \in Seq(Elem) /\ <<i, r>> \in Seq(Elem)
      /\ <<i, r, k>> \in Seq(Elem) /\ <<i, r, k, e>> \in Seq(Elem)
  BY <1>1
<1>3. Append(<<>>, i) = <<i>>
  BY <1>1, <1>2, AppendIs
<1>4. Append(<<i>>, r) = <<i, r>>
  <2> DEFINE s == <<i>>
             t == <<i, r>>
  <2>1. Len(s) = 1 /\ Len(t) = 1 + 1 /\ t[1 + 1] = r
    OBVIOUS
  <2>2. s[1] = t[1]
    OBVIOUS
  <2>3. s \in Seq(Elem) /\ t \in Seq(Elem)
    BY <1>2
  <2> HIDE DEF s, t
  <2>4. \A j \in 1 .. Len(s) : t[j] = s[j]
    BY <2>1, <2>2
  <2>5. Append(s, r) = t
    BY <1>1, <2>1, <2>3, <2>4, AppendIs
  <2> QED BY <2>5 DEF s, t
<1>5. Append(<<i, r>>, k) = <<i, r, k>>
  <2> DEFINE s == <<i, r>>
             t == <<i, r, k>>
  <2>1. Len(s) = 2 /\ Len(t) = 2 + 1 /\ t[2 + 1] = k
    OBVIOUS
  <2>2. s[1] = t[1] /\ s[2] = t[2]
    OBVIOUS
  <2>3. s \in Seq(Elem) /\ t \in Seq(Elem)
    BY <1>2
  <2> HIDE DEF s, t
  <2>4. \A j \in 1 .. Len(s) : t[j] = s[j]
    BY <2>1, <2>2
  <2>5. Append(s, k) = t
    BY <1>1, <2>1, <2>3, <2>4, AppendIs
  <2> QED BY <2>5 DEF s, t
<1>6. Append(<<i, r, k>>, e) = <<i, r, k, e>>
  <2> DEFINE s == <<i, r, k>>
             t == <<i, r, k, e>>
  <2>1. Len(s) = 3 /\ Len(t) = 3 + 1 /\ t[3 + 1] = e
    OBVIOUS
  <2>2. s[1] = t[1] /\ s[2] = t[2] /\ s[3] = t[3]
    OBVIOUS
  <2>3. s \in Seq(Elem) /\ t \in Seq(Elem)
    BY <1>2
  <2> HIDE DEF s, t
  <2>4. \A j \in 1 .. Len(s) : t[j] = s[j]
    BY <2>1, <2>2
  <2>5. Append(s, e) = t
    BY <1>1, <2>1, <2>3, <2>4, AppendIs
  <2> QED BY <2>5 DEF s, t
<1> QED BY <1>3, <1>4, <1>5, <1>6

LEMMA Prefix ==
  ASSUME NEW s \in Seq(Elem), NEW n \in 0 .. Len(s), NEW t \in Seq(Elem),
         Len(t) = n, \A i \in 1 .. n : t[i] = s[i]
  PROVE  SubSeq(s, 1, n) = t
<1> DEFINE a == SubSeq(s, 1, n)
<1>1. \A i \in 1 .. n : s[i] \in Elem
  OBVIOUS
<1>2. a \in Seq(Elem) /\ Len(a) = n /\ \A i \in 1 .. n : a[i] = s[i]
  BY <1>1, SubSeqProperties
<1>3. \A i \in 1 .. Len(a) : a[i] = t[i]
  BY <1>2
<1> QED BY <1>2, <1>3, SeqEqual

LEMMA Prefixes ==
  ASSUME NEW i \in Nat, NEW r \in Nat, NEW k \in Nat, NEW e \in Type
  PROVE  /\ SubSeq(<<i, r, k>>, 1, 2) = <<i, r>>
         /\ SubSeq(<<i, r, k>>, 1, 3) = <<i, r, k>>
         /\ SubSeq(<<i, r, k, e>>, 1, 3) = <<i, r, k>>
<1>1. i \in Elem /\ r \in Elem /\ k \in Elem /\ e \in Elem
  BY DEF Elem
<1>2. /\ <<i, r>> \in Seq(Elem) /\ <<i, r, k>> \in Seq(Elem)
      /\ <<i, r, k, e>> \in Seq(Elem)
  BY <1>1
<1>3. SubSeq(<<i, r, k>>, 1, 2) = <<i, r>>
  <2> DEFINE s == <<i, r, k>>
             t == <<i, r>>
  <2>1. Len(s) = 3 /\ Len(t) = 2
    OBVIOUS
  <2>2. s[1] = t[1] /\ s[2] = t[2]
    OBVIOUS
  <2>3. s \in Seq(Elem) /\ t \in Seq(Elem)
    BY <1>2
  <2> HIDE DEF s, t
  <2>4. \A j \in 1 .. 2 : t[j] = s[j]
    BY <2>2
  <2>5. SubSeq(s, 1, 2) = t
    BY <2>1, <2>3, <2>4, Prefix
  <2> QED BY <2>5 DEF s, t
<1>4. SubSeq(<<i, r, k>>, 1, 3) = <<i, r, k>>
  <2> DEFINE s == <<i, r, k>>
             t == <<i, r, k>>
  <2>1. Len(s) = 3 /\ Len(t) = 3
    OBVIOUS
  <2>2. s[1] = t[1] /\ s[2] = t[2] /\ s[3] = t[3]
    OBVIOUS
  <2>3. s \in Seq(Elem) /\ t \in Seq(Elem)
    BY <1>2
  <2> HIDE DEF s, t
  <2>4. \A j \in 1 .. 3 : t[j] = s[j]
    BY <2>2
  <2>5. SubSeq(s, 1, 3) = t
    BY <2>1, <2>3, <2>4, Prefix
  <2> QED BY <2>5 DEF s, t
<1>5. SubSeq(<<i, r, k, e>>, 1, 3) = <<i, r, k>>
  <2> DEFINE s == <<i, r, k, e>>
             t == <<i, r, k>>
  <2>1. Len(s) = 4 /\ Len(t) = 3
    OBVIOUS
  <2>2. s[1] = t[1] /\ s[2] = t[2] /\ s[3] = t[3]
    OBVIOUS
  <2>3. s \in Seq(Elem) /\ t \in Seq(Elem)
    BY <1>2
  <2> HIDE DEF s, t
  <2>4. \A j \in 1 .. 3 : t[j] = s[j]
    BY <2>2
  <2>5. SubSeq(s, 1, 3) = t
    BY <2>1, <2>3, <2>4, Prefix
  <2> QED BY <2>5 DEF s, t
<1> QED BY <1>3, <1>4, <1>5

LEMMA NotNull ==
  ASSUME NEW i \in Nat, NEW r \in Nat, NEW k \in Nat, NEW e \in Type
  PROVE  NULL \notin {<<i>>, <<i, r>>, <<i, r, k>>, <<i, r, k, e>>}
<1>1. i \in Elem /\ r \in Elem /\ k \in Elem /\ e \in Elem
  BY DEF Elem
<1>2. /\ <<i>> \in Seq(Elem) /\ <<i, r>> \in Seq(Elem)
      /\ <<i, r, k>> \in Seq(Elem) /\ <<i, r, k, e>> \in Seq(Elem)
  BY <1>1
<1> QED BY <1>2, TrecAssumption DEF Elem

\* Paths above those of repetitions.
LEMMA Shallow ==
  /\ ~(Len(<<>>) >= 3)
  /\ \A i : ~(Len(<<i>>) >= 3)
  /\ \A i, r : ~(Len(<<i, r>>) >= 3)
<1>1. ~(0 >= 3) /\ ~(1 >= 3) /\ ~(2 >= 3)
  OBVIOUS
<1>2. Len(<<>>) = 0 /\ (\A i : Len(<<i>>) = 1) /\ (\A i, r : Len(<<i, r>>) = 2)
  OBVIOUS
<1> QED BY <1>1, <1>2

\* The records below a path.
LEMMA BelowExp ==
  ASSUME NEW n \in Nat
  PROVE  /\ \A j \in 1 .. n : <<j>> \in Below(<<>>, n)
         /\ \A q \in Below(<<>>, n) : \E j \in 1 .. n : q = <<j>>
         /\ \A q \in Below(<<>>, n) : ~(Len(q) >= 3)
<1>1. \A j \in 1 .. n : Append(<<>>, j) = <<j>>
  <2>1. 1 .. n \subseteq Nat /\ "read" \in Type
    BY DEF Type
  <2> QED BY <2>1, Appended
<1>2. \A q \in Below(<<>>, n) : \E j \in 1 .. n : q = <<j>>
  BY <1>1 DEF Below
<1>3. \A q \in Below(<<>>, n) : ~(Len(q) >= 3)
  BY <1>2, Shallow
<1> QED BY <1>1, <1>2, <1>3 DEF Below

LEMMA BelowRepl ==
  ASSUME NEW i \in Nat, NEW n \in Nat
  PROVE  /\ \A j \in 1 .. n : <<i, j>> \in Below(<<i>>, n)
         /\ \A q \in Below(<<i>>, n) : \E j \in 1 .. n : q = <<i, j>>
         /\ \A q \in Below(<<i>>, n) : ~(Len(q) >= 3)
<1>1. \A j \in 1 .. n : Append(<<i>>, j) = <<i, j>>
  <2>1. 1 .. n \subseteq Nat /\ "read" \in Type
    BY DEF Type
  <2> QED BY <2>1, Appended
<1>2. \A q \in Below(<<i>>, n) : \E j \in 1 .. n : q = <<i, j>>
  BY <1>1 DEF Below
<1>3. \A q \in Below(<<i>>, n) : ~(Len(q) >= 3)
  BY <1>2, Shallow
<1> QED BY <1>1, <1>2, <1>3 DEF Below

LEMMA BelowRun ==
  ASSUME NEW i \in Nat, NEW r \in Nat, NEW n \in Nat
  PROVE  /\ \A j \in 1 .. n : <<i, r, j>> \in Below(<<i, r>>, n)
         /\ \A q \in Below(<<i, r>>, n) : \E j \in 1 .. n : q = <<i, r, j>>
<1>1. \A j \in 1 .. n : Append(<<i, r>>, j) = <<i, r, j>>
  <2>1. 1 .. n \subseteq Nat /\ "read" \in Type
    BY DEF Type
  <2> QED BY <2>1, Appended
<1> QED BY <1>1 DEF Below

\* The tests of repetitions.
LEMMA TestsAre ==
  ASSUME NEW i \in Nat, NEW r \in Nat, NEW ks \in SUBSET Nat, NEW ps,
         \A p \in ps : \E k \in ks : p = <<i, r, k>>,
         \A k \in ks : <<i, r, k>> \in ps
  PROVE  /\ \A k \in ks, type \in Type : <<i, r, k, type>> \in Tests(ps)
         /\ \A q \in Tests(ps) : \E k \in ks, type \in Type : q = <<i, r, k, type>>
<1>1. \A k \in ks, type \in Type : Append(<<i, r, k>>, type) = <<i, r, k, type>>
  BY Appended
<1>2. ASSUME NEW q \in Tests(ps)
      PROVE  \E k \in ks, type \in Type : q = <<i, r, k, type>>
  <2>1. PICK p \in ps, type \in Type : q = Append(p, type)
    BY DEF Tests
  <2> QED BY <1>1, <2>1
<1>3. ASSUME NEW k \in ks, NEW type \in Type
      PROVE  <<i, r, k, type>> \in Tests(ps)
  <2> DEFINE p == <<i, r, k>>
             t == <<i, r, k, type>>
  <2>1. p \in ps /\ t = Append(p, type)
    BY <1>1
  <2> HIDE DEF p
  <2>2. t \in Tests(ps)
    BY <2>1 DEF Tests
  <2> QED BY <2>2
<1> QED BY <1>2, <1>3

-------------------------------------------------------------------------------
(* Records.                                                                *)

\* A record that starts, and those made below it, are all that change.
LEMMA StartedIs ==
  ASSUME Records, NEW p \in DOMAIN rec, NEW below, p \notin below,
         NEW id, NEW n, rec' = Started(p, id, n, below)
  PROVE  /\ DOMAIN rec' = DOMAIN rec \cup below
         /\ rec'[p].num = n
         /\ \A q \in DOMAIN rec' : "num" \in DOMAIN rec'[q]
         /\ \A q \in DOMAIN rec \ below : q # p => rec'[q] = rec[q]
<1> DEFINE f == [q \in DOMAIN rec \cup below |->
                  IF q \in below THEN Zero ELSE rec[q]]
<1>1. "num" \in DOMAIN Zero
  BY DEF Zero
<1>2. \A q \in DOMAIN f : "num" \in DOMAIN f[q]
  BY <1>1 DEF Records
<1>3. /\ DOMAIN f = DOMAIN rec \cup below /\ p \in DOMAIN f
      /\ \A q \in DOMAIN rec \ below : f[q] = rec[q]
  OBVIOUS
<1>4. rec' = [f EXCEPT ![p].id = id, ![p].num = n, ![p].start = clock]
  BY DEF Started
<1> HIDE DEF f
<1>5. /\ DOMAIN rec' = DOMAIN f
      /\ \A q \in DOMAIN f : q # p => rec'[q] = f[q]
      /\ DOMAIN rec'[p] = DOMAIN f[p]
  BY <1>3, <1>4
<1>6. rec'[p].num = n
  BY <1>2, <1>3, <1>4
<1> QED BY <1>2, <1>3, <1>5, <1>6

\* What changes within records leaves their numbers.
Same ==
  /\ DOMAIN rec' = DOMAIN rec
  /\ \A p \in DOMAIN rec : /\ "num" \in DOMAIN rec'[p]
                           /\ rec'[p].num = rec[p].num

LEMMA SameRecords ==
  ASSUME Records, Same, pc # "exp",
         pc' \in InRepl => pc \in InRepl /\ at'[1] = at[1],
         pc' \in InRun => pc \in InRun /\ at'[2] = at[2],
         pc \in InRepl => at[1] \in 1 .. NumRepls,
         pc \in InRun => at[2] \in RunIds
  PROVE  Records'
<1>1. DOMAIN rec' = DOMAIN rec
  BY DEF Same
<1>2. \A p \in DOMAIN rec : rec'[p].num = rec[p].num /\ "num" \in DOMAIN rec'[p]
  BY DEF Same
<1>3. <<>> \in DOMAIN rec' /\ \A p \in DOMAIN rec' : "num" \in DOMAIN rec'[p]
  BY <1>1, <1>2 DEF Records
<1>4. rec'[<<>>].num = NumRepls /\ \A i \in 1 .. NumRepls : <<i>> \in DOMAIN rec'
  BY <1>1, <1>2 DEF Records
<1>5. ASSUME pc' \in InRepl
      PROVE  /\ rec'[<<at'[1]>>].num = Len(Runs)
             /\ \A r \in RunIds : <<at'[1], r>> \in DOMAIN rec'
  BY <1>1, <1>2, <1>5 DEF Records
<1>6. ASSUME pc' \in InRun
      PROVE  /\ rec'[<<at'[1], at'[2]>>].num = Runs[at'[2]].num_repetitions
             /\ \A k \in 1 .. Runs[at'[2]].num_repetitions :
                  /\ <<at'[1], at'[2], k>> \in DOMAIN rec'
                  /\ \A type \in Type : <<at'[1], at'[2], k, type>> \in DOMAIN rec'
  <2>1. /\ pc \in InRun /\ pc \in InRepl /\ at'[1] = at[1] /\ at'[2] = at[2]
        /\ <<at[1], at[2]>> \in DOMAIN rec
    BY <1>6 DEF Records, InRepl
  <2> QED BY <1>1, <1>2, <2>1 DEF Records
<1> QED BY <1>3, <1>4, <1>5, <1>6 DEF Records

LEMMA SameAhead ==
  ASSUME Ahead, DOMAIN rec' = DOMAIN rec, at'[1] = at[1], todo' \subseteq todo,
         pc' \in InRepl => pc \in InRepl
  PROVE  Ahead'
BY DEF Ahead

-------------------------------------------------------------------------------
(* Places.                                                                 *)

LEMMA Typed ==
  /\ NumRepls \in Nat
  /\ \A r \in RunIds : r \in Nat /\ Runs[r].num_repetitions \in Nat
<1> DEFINE S == [num_repetitions : Nat \ {0}, read : BOOLEAN, file_keep : BOOLEAN]
<1>1. \A s \in S : s.num_repetitions \in Nat
  OBVIOUS
<1>2. Runs \in Seq(S)
  BY TrecAssumption
<1> HIDE DEF S
<1>3. \A r \in RunIds : r \in Nat /\ Runs[r] \in S
  BY <1>2 DEF RunIds
<1> QED BY <1>1, <1>3, TrecAssumption

LEMMA AtLoop ==
  ASSUME Places, pc \in Loop
  PROVE  at = <<at[1]>> /\ at[1] \in 0 .. NumRepls /\ at[1] \in Nat
BY Typed DEF Places

LEMMA AtRun ==
  ASSUME Places, pc \in InRun
  PROVE  /\ at = <<at[1], at[2], at[3]>>
         /\ at[1] \in 1 .. NumRepls /\ at[2] \in RunIds \ todo
         /\ at[3] \in 0 .. Runs[at[2]].num_repetitions
         /\ at[1] \in Nat /\ at[2] \in Nat /\ at[3] \in Nat
         /\ pc \in InTests => at[3] \in 1 .. Runs[at[2]].num_repetitions
<1>0. PICK i \in 1 .. NumRepls, r \in RunIds \ todo :
        \E k \in 0 .. Runs[r].num_repetitions : at = <<i, r, k>>
  BY DEF Places
<1>1. PICK k \in 0 .. Runs[r].num_repetitions : at = <<i, r, k>>
  BY <1>0
<1>2. at[1] = i /\ at[2] = r /\ at[3] = k
  BY <1>1
<1>3. i \in Nat /\ r \in Nat /\ k \in Nat
  BY Typed
<1>4. pc \in InTests => k # 0
  BY <1>2 DEF Places
<1> QED BY <1>1, <1>2, <1>3, <1>4

LEMMA InitIInv ==
  ASSUME Init
  PROVE  IInv
<1> USE DEF Init
<1>1. Places
  <2>1. 0 \in 0 .. NumRepls
    BY Typed
  <2> QED BY <2>1 DEF Places, Loop, InRun, InTests
<1>2. Records
  BY DEF Records, Zero, InRepl, InRun, InTests
<1>3. Ahead
  <2>1. DOMAIN rec = {<<>>} /\ Len(<<>>) = 0
    OBVIOUS
  <2> QED BY <2>1 DEF Ahead
<1>4. Pointers
  BY DEF Pointers, InRepl, InRun, InTests
<1> QED BY <1>1, <1>2, <1>3, <1>4 DEF IInv

-------------------------------------------------------------------------------
(* Steps of the loops.                                                     *)

LEMMA ExpStartStep ==
  ASSUME IInv, ExpStart
  PROVE  IInv' /\ PastKept
<1> DEFINE below == Below(<<>>, NumRepls)
<1>1. /\ pc = "exp" /\ pc' = "repls" /\ at' = at /\ todo' = todo /\ types' = types
      /\ last' = last /\ st' = st
      /\ rec' = Started(<<>>, 0, NumRepls, below)
  BY DEF ExpStart, Call, trec_exp_start, progVars
<1>2. /\ \A j \in 1 .. NumRepls : <<j>> \in below
      /\ \A q \in below : q # <<>> /\ ~(Len(q) >= 3)
  BY Typed, BelowExp
<1> HIDE DEF below
<1>3. <<>> \in DOMAIN rec /\ <<>> \notin below
  BY <1>2 DEF IInv, Records
<1>4. /\ DOMAIN rec' = DOMAIN rec \cup below
      /\ rec'[<<>>].num = NumRepls
      /\ \A q \in DOMAIN rec' : "num" \in DOMAIN rec'[q]
      /\ \A q \in DOMAIN rec \ below : q # <<>> => rec'[q] = rec[q]
  BY <1>1, <1>3, StartedIs DEF IInv
<1>5. Places'
  BY <1>1 DEF IInv, Places, Loop, InRun, InTests
<1>6. Records'
  BY <1>1, <1>2, <1>3, <1>4 DEF Records, InRepl, InRun, InTests
<1>7. Ahead'
  <2>1. pc' \notin InRepl
    BY <1>1 DEF InRepl, InRun, InTests
  <2> QED BY <1>1, <1>2, <1>4, <2>1 DEF IInv, Ahead
<1>8. Pointers'
  BY <1>1 DEF IInv, Pointers, InRepl, InRun, InTests
<1>9. PastKept
  BY <1>2, <1>4, Shallow DEF PastKept
<1> QED BY <1>5, <1>6, <1>7, <1>8, <1>9 DEF IInv

LEMMA ReplStartStep ==
  ASSUME IInv, ReplStart
  PROVE  IInv' /\ PastKept
<1> DEFINE i == at[1] + 1
           below == Below(<<i>>, Len(Runs))
<1>1. /\ pc = "repls" /\ pc' = "runs" /\ at' = <<i>> /\ todo' = RunIds
      /\ types' = types /\ last' = last /\ at[1] < NumRepls
  BY DEF ReplStart, Call
<1>2. i \in 1 .. NumRepls /\ i \in Nat /\ at[1] \in Nat /\ i # at[1]
  BY <1>1, Typed, AtLoop DEF IInv, Loop
<1>3. rec[<<>>].num = NumRepls /\ <<i>> \in DOMAIN rec
  BY <1>1, <1>2 DEF IInv, Records
<1>4. /\ rec' = Started(<<i>>, i, Len(Runs), below)
      /\ st' = [st EXCEPT !.trec_repl = <<i>>]
  <2>1. i <= rec[<<>>].num
    BY <1>2, <1>3
  <2> QED BY <2>1 DEF ReplStart, trec_exp_repl_start
<1>5. /\ Len(Runs) \in Nat
      /\ \A j \in RunIds : <<i, j>> \in below
      /\ \A q \in below : q # <<>> /\ q # <<i>> /\ ~(Len(q) >= 3)
  <2>1. Len(Runs) \in Nat
    BY TrecAssumption
  <2>2. /\ \A j \in RunIds : <<i, j>> \in below
        /\ \A q \in below : \E j \in RunIds : q = <<i, j>>
        /\ \A q \in below : ~(Len(q) >= 3)
    BY <1>2, <2>1, BelowRepl DEF RunIds
  <2>3. \A j : <<i, j>> # <<>> /\ <<i, j>> # <<i>>
    <3>1. \A j : Len(<<i, j>>) = 2
      OBVIOUS
    <3>2. Len(<<i>>) = 1 /\ Len(<<>>) = 0
      OBVIOUS
    <3> QED BY <3>1, <3>2
  <2> HIDE DEF i, below
  <2> QED BY <2>1, <2>2, <2>3
<1>6. at'[1] = i
  BY <1>1
<1>7. <<i>> \notin below
  BY <1>5
<1> HIDE DEF i, below
<1>8. /\ DOMAIN rec' = DOMAIN rec \cup below
      /\ rec'[<<i>>].num = Len(Runs)
      /\ \A q \in DOMAIN rec' : "num" \in DOMAIN rec'[q]
      /\ \A q \in DOMAIN rec \ below : q # <<i>> => rec'[q] = rec[q]
  BY <1>3, <1>4, <1>7, StartedIs DEF IInv
<1>9. Places'
  <2>1. \E j \in 0 .. NumRepls : at' = <<j>>
    BY <1>1, <1>2
  <2>2. at'[1] # 0
    BY <1>2, <1>6
  <2> QED BY <1>1, <2>1, <2>2 DEF IInv, Places, Loop, InRun, InTests
<1>10. Records'
  <2>1. rec'[<<>>].num = NumRepls /\ <<>> \in DOMAIN rec'
    <3>1. <<>> \in DOMAIN rec
      BY DEF IInv, Records
    <3>2. <<>> # <<i>> /\ <<>> \notin below
      BY <1>5
    <3> QED BY <1>3, <1>8, <3>1, <3>2
  <2>2. \A j \in 1 .. NumRepls : <<j>> \in DOMAIN rec'
    BY <1>1, <1>8 DEF IInv, Records
  <2>3. pc' \notin InRun
    BY <1>1 DEF InRun, InTests
  <2> QED BY <1>5, <1>6, <1>8, <2>1, <2>2, <2>3 DEF Records
<1>11. Ahead'
  <2>1. ASSUME NEW p \in DOMAIN rec, Len(p) >= 3
        PROVE  p[1] \in 0 .. at[1]
    BY <2>1 DEF IInv, Ahead
  <2>2. \A j \in 0 .. at[1] : j \in 0 .. i /\ j # i
    BY <1>2 DEF i
  <2> QED BY <1>5, <1>6, <1>8, <2>1, <2>2 DEF Ahead
<1>12. Pointers'
  <2>1. /\ DOMAIN st' = DOMAIN st
        /\ st'.trec_repl = <<at'[1]>>
    BY <1>4, <1>6 DEF IInv, Pointers
  <2> QED BY <1>1, <2>1 DEF IInv, Pointers, InRun, InTests
<1>13. PastKept
  BY <1>5, <1>8, Shallow DEF PastKept
<1> QED BY <1>9, <1>10, <1>11, <1>12, <1>13 DEF IInv

LEMMA RunStartStep ==
  ASSUME IInv, NEW r \in RunIds, RunStart(r)
  PROVE  IInv' /\ PastKept
<1> DEFINE i == at[1]
           n == Runs[r].num_repetitions
           repts == Below(<<i, r>>, n)
           below == repts \cup Tests(repts)
<1>1. /\ pc = "runs" /\ pc' \in {"repts", "run_stop"} /\ at' = <<i, r, 0>>
      /\ todo' = todo \ {r} /\ r \in todo
      /\ types' = types /\ last' = last
  BY DEF RunStart, Call
<1>2. at = <<i>> /\ i \in 1 .. NumRepls /\ i \in Nat /\ r \in Nat /\ n \in Nat
  <2>1. at = <<i>> /\ i \in 0 .. NumRepls /\ i \in Nat
    BY <1>1, AtLoop DEF IInv, Loop
  <2>2. i # 0
    BY <1>1 DEF IInv, Places
  <2> QED BY <2>1, <2>2, Typed
<1>3. /\ st.trec_repl = <<i>> /\ rec[<<i>>].num = Len(Runs)
      /\ <<i, r>> \in DOMAIN rec
  BY <1>1 DEF IInv, Pointers, Records, InRepl
<1>4. Append(<<i>>, r) = <<i, r>> /\ <<i>> # NULL
  <2>1. 0 \in Nat /\ "read" \in Type
    BY DEF Type
  <2> QED BY <1>2, <2>1, Appended, NotNull
<1>5. /\ rec' = Started(<<i, r>>, r, n, below)
      /\ st' = [st EXCEPT !.trec_run = <<i, r>>]
  <2>1. st.trec_repl # NULL /\ r <= rec[st.trec_repl].num
    BY <1>3, <1>4 DEF RunIds
  <2> QED BY <1>3, <1>4, <2>1 DEF RunStart, trec_run_start
<1>6. /\ \A k \in 1 .. n : <<i, r, k>> \in repts
      /\ \A q \in repts : \E k \in 1 .. n : q = <<i, r, k>>
  BY <1>2, BelowRun
<1>7. /\ \A k \in 1 .. n, type \in Type : <<i, r, k, type>> \in Tests(repts)
      /\ \A q \in Tests(repts) :
           \E k \in 1 .. n, type \in Type : q = <<i, r, k, type>>
  <2> DEFINE ks == 1 .. n
  <2>1. ks \in SUBSET Nat
    OBVIOUS
  <2> HIDE DEF i, n, repts, ks
  <2>2. /\ \A q \in repts : \E k \in ks : q = <<i, r, k>>
        /\ \A k \in ks : <<i, r, k>> \in repts
    BY <1>6 DEF ks
  <2>3. /\ \A k \in ks, type \in Type : <<i, r, k, type>> \in Tests(repts)
        /\ \A q \in Tests(repts) :
             \E k \in ks, type \in Type : q = <<i, r, k, type>>
    BY <1>2, <2>1, <2>2, TestsAre
  <2> QED BY <2>3 DEF ks
<1>8. \A q \in below : Len(q) >= 3 /\ q[1] = i /\ q[2] = r
  BY <1>6, <1>7
<1>9. at'[1] = i /\ at'[2] = r
  BY <1>1
<1> HIDE DEF i, repts, n
<1>10. <<i, r>> \notin below /\ <<>> \notin below /\ <<i>> \notin below
       /\ (\A j \in RunIds : <<i, j>> \notin below)
       /\ (\A j \in 1 .. NumRepls : <<j>> \notin below)
  <2> HIDE DEF below
  <2> QED BY <1>8, Shallow
<1>11. /\ DOMAIN rec' = DOMAIN rec \cup below
       /\ rec'[<<i, r>>].num = n
       /\ \A q \in DOMAIN rec' : "num" \in DOMAIN rec'[q]
       /\ \A q \in DOMAIN rec \ below : q # <<i, r>> => rec'[q] = rec[q]
  <2> HIDE DEF below
  <2> QED BY <1>3, <1>5, <1>10, StartedIs DEF IInv
<1>12. Places'
  <2>1. r \in RunIds \ todo' /\ 0 \in 0 .. n
    BY <1>1, <1>2
  <2>2. \E k \in 0 .. Runs[r].num_repetitions : at' = <<i, r, k>>
    BY <1>1, <2>1 DEF n
  <2> QED BY <1>1, <1>2, <2>1, <2>2 DEF IInv, Places, Loop, InRun, InTests
<1>13. Records'
  <2>1. /\ <<>> \in DOMAIN rec /\ rec[<<>>].num = NumRepls
        /\ \A j \in 1 .. NumRepls : <<j>> \in DOMAIN rec
        /\ <<i>> \in DOMAIN rec
        /\ \A j \in RunIds : <<i, j>> \in DOMAIN rec
    BY <1>1, <1>2 DEF IInv, Records, InRepl, i
  <2>2. <<>> # <<i, r>> /\ <<i>> # <<i, r>>
    OBVIOUS
  <2>3. /\ <<>> \in DOMAIN rec' /\ rec'[<<>>].num = NumRepls
        /\ \A j \in 1 .. NumRepls : <<j>> \in DOMAIN rec'
        /\ rec'[<<i>>].num = Len(Runs)
        /\ \A j \in RunIds : <<i, j>> \in DOMAIN rec'
    <3> HIDE DEF below
    <3> QED BY <1>3, <1>10, <1>11, <2>1, <2>2
  <2>4. \A k \in 1 .. n : /\ <<i, r, k>> \in DOMAIN rec'
                          /\ \A type \in Type : <<i, r, k, type>> \in DOMAIN rec'
    BY <1>6, <1>7, <1>11
  <2> QED BY <1>1, <1>9, <1>11, <2>3, <2>4 DEF Records, n
<1>14. Ahead'
  <2> HIDE DEF below
  <2>1. ASSUME NEW p \in below
        PROVE  p[1] \in 0 .. at'[1] /\ p[2] \notin todo'
    BY <1>1, <1>2, <1>8, <1>9
  <2>2. ASSUME NEW p \in DOMAIN rec, Len(p) >= 3
        PROVE  /\ p[1] \in 0 .. at'[1]
               /\ p[1] = at'[1] => p[2] \notin todo'
    BY <1>1, <1>9, <2>2 DEF IInv, Ahead, InRepl, i
  <2> QED BY <1>11, <2>1, <2>2 DEF Ahead
<1>15. Pointers'
  <2>1. /\ DOMAIN st' = DOMAIN st
        /\ st'.trec_repl = <<at'[1]>>
        /\ st'.trec_run = <<at'[1], at'[2]>>
    BY <1>3, <1>5, <1>9 DEF IInv, Pointers
  <2> QED BY <1>1, <2>1 DEF IInv, Pointers, InRun, InTests
<1>16. PastKept
  <2> HIDE DEF below
  <2>1. \A p \in DOMAIN rec : Len(p) >= 3 => p \notin below
    BY <1>1, <1>8 DEF IInv, Ahead, InRepl, i
  <2> QED BY <1>11, <2>1, Shallow DEF PastKept
<1> QED BY <1>12, <1>13, <1>14, <1>15, <1>16 DEF IInv

LEMMA ReptStartStep ==
  ASSUME IInv, ReptStart
  PROVE  IInv' /\ PastKept
<1> DEFINE i == at[1]
           r == at[2]
           k == at[3] + 1
           p == <<i, r, k>>
<1>1. /\ pc = "repts" /\ pc' = "tests" /\ at' = [at EXCEPT ![3] = k]
      /\ todo' = todo /\ last' = 0 /\ types' \in Seq(Type)
      /\ at[3] < Runs[r].num_repetitions
  <2>1. <<"write", "read">> \in Seq(Type) /\ <<"write">> \in Seq(Type)
    BY DEF Type
  <2> QED BY <2>1 DEF ReptStart, Call
<1>2. /\ at = <<i, r, at[3]>>
      /\ i \in 1 .. NumRepls /\ i \in Nat /\ r \in Nat /\ r \in RunIds \ todo
      /\ at[3] \in Nat
  BY <1>1, AtRun DEF IInv, InRun
<1>3. k \in 1 .. Runs[r].num_repetitions /\ k \in Nat /\ k # 0
  BY <1>1, <1>2, Typed
<1>4. at' = p
  BY <1>1, <1>2
<1>5. /\ st.trec_repl = <<i>> /\ st.trec_run = <<i, r>>
      /\ rec[<<i, r>>].num = Runs[r].num_repetitions
      /\ p \in DOMAIN rec
  BY <1>1, <1>3 DEF IInv, Pointers, Records, InRepl, InRun
<1>6. Append(<<i, r>>, k) = p /\ <<i, r>> # NULL
  <2>1. "read" \in Type /\ i \in Nat /\ r \in Nat /\ k \in Nat
    BY <1>2, <1>3 DEF Type
  <2> HIDE DEF i, r, k
  <2>2. Append(<<i, r>>, k) = p
    BY <2>1, Appended
  <2>3. <<i, r>> # NULL
    BY <2>1, NotNull
  <2> QED BY <2>2, <2>3
<1>7. /\ rec' = Started(p, k, 0, {})
      /\ st' = [st EXCEPT !.trec_rept = p]
  <2>1. st.trec_run # NULL /\ k <= rec[st.trec_run].num
    BY <1>3, <1>5, <1>6
  <2> QED BY <1>5, <1>6, <2>1 DEF ReptStart, trec_run_rept_start
<1>8. p[1] = i /\ p[2] = r /\ p[3] = k /\ Len(p) = 3
  OBVIOUS
<1>9. p # <<>> /\ p # <<i>> /\ p # <<i, r>>
  <2>1. Len(p) >= 3
    BY <1>8
  <2> HIDE DEF i, r, p
  <2> QED BY <2>1, Shallow
<1>10. SubSeq(p, 1, 3) = p
  <2>1. "read" \in Type
    BY DEF Type
  <2> QED BY <1>2, <1>3, <2>1, Prefixes
<1> HIDE DEF i, r, k, p
<1>11. /\ DOMAIN rec' = DOMAIN rec
       /\ \A q \in DOMAIN rec' : "num" \in DOMAIN rec'[q]
       /\ \A q \in DOMAIN rec : q # p => rec'[q] = rec[q]
  BY <1>5, <1>7, StartedIs DEF IInv
<1>12. Places'
  <2>1. \E e \in 0 .. Runs[r].num_repetitions : at' = <<i, r, e>>
    BY <1>3, <1>4 DEF p
  <2>2. at'[3] # 0
    BY <1>3, <1>4, <1>8
  <2> QED BY <1>1, <1>2, <2>1, <2>2 DEF IInv, Places, Loop, InRun, InTests
<1>13. Records'
  <2>1. /\ <<>> \in DOMAIN rec /\ rec[<<>>].num = NumRepls
        /\ \A j \in 1 .. NumRepls : <<j>> \in DOMAIN rec
        /\ rec[<<i>>].num = Len(Runs)
        /\ <<i>> \in DOMAIN rec
        /\ <<i, r>> \in DOMAIN rec
        /\ \A j \in RunIds : <<i, j>> \in DOMAIN rec
        /\ \A j \in 1 .. Runs[r].num_repetitions :
             /\ <<i, r, j>> \in DOMAIN rec
             /\ \A type \in Type : <<i, r, j, type>> \in DOMAIN rec
    BY <1>1, <1>2 DEF IInv, Records, InRepl, InRun, i, r
  <2> QED BY <1>1, <1>4, <1>5, <1>8, <1>9, <1>11, <2>1 DEF Records
<1>14. Ahead'
  <2>1. at'[1] = at[1] /\ pc \in InRepl
    BY <1>1, <1>4, <1>8 DEF i, InRepl, InRun
  <2> QED BY <1>1, <1>11, <2>1, SameAhead DEF IInv
<1>15. Pointers'
  <2>1. /\ DOMAIN st' = DOMAIN st
        /\ st'.trec_repl = <<at'[1]>>
        /\ st'.trec_run = <<at'[1], at'[2]>>
        /\ st'.trec_rept = at'
    BY <1>4, <1>5, <1>7, <1>8 DEF IInv, Pointers
  <2> QED BY <1>1, <2>1 DEF IInv, Pointers
<1>16. PastKept
  BY <1>4, <1>8, <1>10, <1>11 DEF PastKept, InRept
<1> QED BY <1>12, <1>13, <1>14, <1>15, <1>16 DEF IInv

-------------------------------------------------------------------------------
(* Steps of a test.                                                        *)

\* Where a test is, its record and the pointers to it.
LEMMA TestAt ==
  ASSUME IInv, pc \in {"tests", "action"}, types # <<>>
  PROVE  LET p == <<at[1], at[2], at[3], Head(types)>> IN
         /\ Append(at, Head(types)) = p
         /\ p \in DOMAIN rec /\ p # NULL /\ at # NULL
         /\ SubSeq(p, 1, 3) = at
         /\ st.trec_rept = at
         /\ pc = "action" \/ last # 0 => st.trec_test = p
<1>1. pc \in InRun /\ pc \in InTests
  BY DEF InRun, InTests
<1>2. /\ at = <<at[1], at[2], at[3]>>
      /\ at[1] \in Nat /\ at[2] \in Nat /\ at[3] \in Nat
      /\ at[3] \in 1 .. Runs[at[2]].num_repetitions
  BY <1>1, AtRun DEF IInv
<1>3. Head(types) \in Type
  BY DEF IInv, Places
<1>4. <<at[1], at[2], at[3], Head(types)>> \in DOMAIN rec
  BY <1>1, <1>2, <1>3 DEF IInv, Records
<1>5. /\ Append(<<at[1], at[2], at[3]>>, Head(types))
           = <<at[1], at[2], at[3], Head(types)>>
      /\ SubSeq(<<at[1], at[2], at[3], Head(types)>>, 1, 3) = <<at[1], at[2], at[3]>>
      /\ NULL # <<at[1], at[2], at[3]>>
      /\ NULL # <<at[1], at[2], at[3], Head(types)>>
  <2> DEFINE i == at[1]
             r == at[2]
             k == at[3]
             e == Head(types)
  <2>1. i \in Nat /\ r \in Nat /\ k \in Nat /\ e \in Type
    BY <1>2, <1>3
  <2> HIDE DEF i, r, k, e
  <2>2. Append(<<i, r, k>>, e) = <<i, r, k, e>>
    BY <2>1, Appended
  <2>3. SubSeq(<<i, r, k, e>>, 1, 3) = <<i, r, k>>
    BY <2>1, Prefixes
  <2>4. NULL # <<i, r, k>> /\ NULL # <<i, r, k, e>>
    BY <2>1, NotNull
  <2> QED BY <2>2, <2>3, <2>4 DEF i, r, k, e
<1>6. /\ st.trec_rept = at
      /\ pc = "action" \/ last # 0 =>
           st.trec_test = <<at[1], at[2], at[3], Head(types)>>
  BY <1>1 DEF IInv, Pointers
<1> QED BY <1>2, <1>4, <1>5, <1>6

\* A step within a test that changes its record alone.
LEMMA TestStep ==
  ASSUME IInv, pc \in {"tests", "action"}, pc' \in {"tests", "action"},
         at' = at, todo' = todo, Same,
         NEW p, SubSeq(p, 1, 3) = at,
         \A q \in DOMAIN rec : q # p => rec'[q] = rec[q]
  PROVE  Records' /\ Ahead' /\ PastKept
<1>1. pc \in InRun /\ pc \in InRepl /\ pc # "exp"
  BY DEF InRepl, InRun, InTests
<1>2. at[1] \in 1 .. NumRepls /\ at[2] \in RunIds /\ at = <<at[1], at[2], at[3]>>
  BY <1>1, AtRun DEF IInv
<1>3. Records'
  BY <1>1, <1>2, SameRecords DEF IInv
<1>4. Ahead'
  BY <1>1, SameAhead DEF IInv, Same
<1>5. PastKept
  <2>1. Len(at) = 3
    BY <1>2
  <2> QED BY <2>1 DEF PastKept, InRept
<1> QED BY <1>3, <1>4, <1>5

LEMMA TestStartStep ==
  ASSUME IInv, TestStart
  PROVE  IInv' /\ PastKept
<1> DEFINE p == <<at[1], at[2], at[3], Head(types)>>
<1>1. /\ pc = "tests" /\ pc' = "action" /\ at' = at /\ todo' = todo
      /\ types' = types /\ types # <<>> /\ last' = last + 1 /\ last < LastAction
  BY DEF TestStart, Call
<1>2. /\ Append(at, Head(types)) = p /\ p \in DOMAIN rec /\ at # NULL
      /\ SubSeq(p, 1, 3) = at /\ st.trec_rept = at
  BY <1>1, TestAt
<1>3. /\ st' = [st EXCEPT !.trec_test = p, !.test_action = last + 1]
      /\ rec' = [rec EXCEPT ![p].time[last + 1][1] = clock]
  BY <1>2 DEF TestStart, trec_test_start
<1> HIDE DEF p
<1>4. Same
  BY <1>3 DEF Same, IInv, Records
<1>5. \A q \in DOMAIN rec : q # p => rec'[q] = rec[q]
  BY <1>3
<1>6. Records' /\ Ahead' /\ PastKept
  BY <1>1, <1>2, <1>4, <1>5, TestStep
<1>7. last' \in 0 .. 4 /\ last' # 0
  <2>1. LastAction \in {3, 4} /\ last \in 0 .. 4
    BY DEF LastAction, Close, Remove, IInv, Places
  <2> QED BY <1>1, <2>1
<1>8. Places'
  BY <1>1, <1>7 DEF IInv, Places, Loop, InRun, InTests
<1>9. Pointers'
  <2>1. /\ DOMAIN st' = DOMAIN st
        /\ st'.trec_repl = st.trec_repl /\ st'.trec_run = st.trec_run
        /\ st'.trec_rept = st.trec_rept /\ st'.trec_test = p
    BY <1>3 DEF IInv, Pointers
  <2> QED BY <1>1, <2>1 DEF IInv, Pointers, InRepl, InRun, InTests, p
<1> QED BY <1>6, <1>8, <1>9 DEF IInv

LEMMA TestStopStep ==
  ASSUME IInv, TestStop
  PROVE  IInv' /\ PastKept
<1> DEFINE p == <<at[1], at[2], at[3], Head(types)>>
<1>1. /\ pc = "action" /\ pc' = "tests" /\ at' = at /\ todo' = todo
      /\ types' = types /\ types # <<>> /\ last' = last
  BY DEF TestStop, Call, progVars, IInv, Places
<1>2. /\ p \in DOMAIN rec /\ SubSeq(p, 1, 3) = at /\ st.trec_test = p
  BY <1>1, TestAt
<1>3. /\ DOMAIN st' = DOMAIN st
      /\ st'.trec_repl = st.trec_repl /\ st'.trec_run = st.trec_run
      /\ st'.trec_rept = st.trec_rept /\ st'.trec_test = st.trec_test
  BY DEF TestStop, trec_test_stop, IInv, Pointers
<1> HIDE DEF p
<1>4. Same /\ \A q \in DOMAIN rec : q # p => rec'[q] = rec[q]
  <2>1. CASE UNCHANGED rec
    BY <2>1 DEF Same, IInv, Records
  <2>2. CASE rec' # rec
    <3> DEFINE a == st.test_action
               size == IF a = WriteRead THEN OwnSize ELSE rec[p].size
    <3>1. rec' = [rec EXCEPT ![p].time[a][2] = clock, ![p].size = size]
      BY <1>2, <2>2 DEF TestStop, trec_test_stop
    <3> HIDE DEF a, size
    <3> QED BY <1>2, <3>1 DEF Same, IInv, Records
  <2> QED BY <2>1, <2>2
<1>5. Records' /\ Ahead' /\ PastKept
  BY <1>1, <1>2, <1>4, TestStep
<1>6. Places'
  BY <1>1 DEF IInv, Places, Loop, InRun, InTests
<1>7. Pointers'
  BY <1>1, <1>2, <1>3 DEF IInv, Pointers, InRepl, InRun, InTests, p
<1> QED BY <1>5, <1>6, <1>7 DEF IInv

LEMMA CommitStep ==
  ASSUME IInv, Commit
  PROVE  IInv' /\ PastKept
<1> DEFINE p == <<at[1], at[2], at[3], Head(types)>>
<1>1. /\ pc = "tests" /\ pc' = "tests" /\ at' = at /\ todo' = todo
      /\ types' = Tail(types) /\ types # <<>> /\ last' = 0 /\ last = LastAction
  BY DEF Commit, Call
<1>2. last # 0
  BY <1>1 DEF LastAction, Close, Remove
<1>3. /\ p \in DOMAIN rec /\ SubSeq(p, 1, 3) = at /\ st.trec_test = p
  BY <1>1, <1>2, TestAt
<1>4. /\ DOMAIN st' = DOMAIN st
      /\ st'.trec_repl = st.trec_repl /\ st'.trec_run = st.trec_run
      /\ st'.trec_rept = st.trec_rept
  BY DEF Commit, trec_test_commit, IInv, Pointers
<1> HIDE DEF p
<1>5. Same /\ \A q \in DOMAIN rec : q # p => rec'[q] = rec[q]
  <2>1. rec' = rec \/ rec' = [rec EXCEPT ![p].committed = TRUE]
    BY <1>3 DEF Commit, trec_test_commit
  <2> QED BY <2>1, <1>3 DEF Same, IInv, Records
<1>6. Records' /\ Ahead' /\ PastKept
  BY <1>1, <1>3, <1>5, TestStep
<1>7. Places'
  <2>1. types' \in Seq(Type)
    BY <1>1 DEF IInv, Places
  <2> QED BY <1>1, <2>1 DEF IInv, Places, Loop, InRun, InTests
<1>8. Pointers'
  BY <1>1, <1>4 DEF IInv, Pointers, InRepl, InRun, InTests
<1> QED BY <1>6, <1>7, <1>8 DEF IInv

-------------------------------------------------------------------------------
(* The ends of the loops.                                                  *)

LEMMA ReptStopStep ==
  ASSUME IInv, NEW others \in SUBSET Type, ReptStop(others)
  PROVE  IInv' /\ PastKept
<1>1. /\ pc = "rept_stop" /\ pc' = "repts" /\ at' = at /\ todo' = todo
      /\ types' = types /\ last' = last
  BY DEF ReptStop, Call
<1>2. /\ pc \in InRun /\ pc \in InTests /\ pc \in InRepl /\ pc # "exp"
      /\ pc' \in InRun /\ pc' \notin InTests /\ pc' \in InRepl
  BY <1>1 DEF InRepl, InRun, InTests
<1>3. /\ at = <<at[1], at[2], at[3]>>
      /\ at[1] \in 1 .. NumRepls /\ at[2] \in RunIds
      /\ at[1] \in Nat /\ at[2] \in Nat /\ at[3] \in Nat
  BY <1>2, AtRun DEF IInv
<1>4. st.trec_rept = at
  BY <1>2 DEF IInv, Pointers
<1>5. /\ DOMAIN st' = DOMAIN st
      /\ st'.trec_repl = st.trec_repl /\ st'.trec_run = st.trec_run
  BY DEF ReptStop, trec_run_rept_stop, IInv, Pointers
<1>6. /\ Same
      /\ \A q \in DOMAIN rec : q # at /\ q \notin Tests({at}) => rec'[q] = rec[q]
  <2>1. CASE UNCHANGED rec
    BY <2>1 DEF Same, IInv, Records
  <2>2. CASE rec' # rec
    <3>1. rec' = [q \in DOMAIN rec |->
            CASE q = at           -> [rec[q] EXCEPT !.stop = clock]
              [] q \in Tests({at}) ->
                   [rec[q] EXCEPT !.committed = @ /\ q[4] \in others,
                                  !.test_time = Reduced(rec[q].time),
                                  !.test_size = ReducedSize(rec[q].size)]
              [] OTHER            -> rec[q]]
      BY <1>4, <2>2 DEF ReptStop, trec_run_rept_stop
    <3>2. ASSUME NEW q \in DOMAIN rec
          PROVE  /\ "num" \in DOMAIN rec'[q] /\ rec'[q].num = rec[q].num
                 /\ q # at /\ q \notin Tests({at}) => rec'[q] = rec[q]
      <4>1. "num" \in DOMAIN rec[q]
        BY DEF IInv, Records
      <4>2. CASE q = at
        BY <3>1, <4>1, <4>2
      <4>3. CASE q # at /\ q \in Tests({at})
        <5> DEFINE c == rec[q].committed /\ q[4] \in others
                   t == Reduced(rec[q].time)
                   s == ReducedSize(rec[q].size)
        <5>1. rec'[q] = [rec[q] EXCEPT !.committed = c, !.test_time = t,
                                       !.test_size = s]
          BY <3>1, <4>3
        <5> HIDE DEF c, t, s
        <5> QED BY <4>1, <4>3, <5>1
      <4>4. CASE q # at /\ q \notin Tests({at})
        BY <3>1, <4>1, <4>4
      <4> QED BY <4>2, <4>3, <4>4
    <3>3. DOMAIN rec' = DOMAIN rec
      BY <3>1
    <3> QED BY <3>2, <3>3 DEF Same
  <2> QED BY <2>1, <2>2
<1>7. \A q : q = at \/ q \in Tests({at}) => InRept(q, at)
  <2> DEFINE i == at[1]
             r == at[2]
             k == at[3]
  <2>1. i \in Nat /\ r \in Nat /\ k \in Nat /\ at = <<i, r, k>>
    BY <1>3
  <2> HIDE DEF i, r, k
  <2>2. "read" \in Type
    BY DEF Type
  <2>3. Len(at) = 3 /\ SubSeq(at, 1, 3) = at
    BY <2>1, <2>2, Prefixes
  <2>4. ASSUME NEW q \in Tests({at})
        PROVE  Len(q) = 4 /\ SubSeq(q, 1, 3) = at
    <3>1. PICK e \in Type : q = Append(at, e)
      BY DEF Tests
    <3>2. q = <<i, r, k, e>>
      BY <2>1, <3>1, Appended
    <3> QED BY <2>1, <3>2, Prefixes
  <2> QED BY <2>3, <2>4 DEF InRept
<1>8. Places'
  BY <1>1 DEF IInv, Places, Loop, InRun, InTests
<1>9. Records'
  BY <1>1, <1>2, <1>3, <1>6, SameRecords DEF IInv
<1>10. Ahead'
  BY <1>1, <1>2, <1>6, SameAhead DEF IInv, Same
<1>11. Pointers'
  BY <1>1, <1>2, <1>5 DEF IInv, Pointers
<1>12. PastKept
  BY <1>1, <1>6, <1>7 DEF PastKept
<1> QED BY <1>8, <1>9, <1>10, <1>11, <1>12 DEF IInv

LEMMA StopStep ==
  ASSUME IInv, NEW pointer \in {"trec_run", "trec_repl"}, Stop(pointer),
         ~(Len(st[pointer]) >= 3)
  PROVE  /\ Same /\ PastKept
         /\ DOMAIN st' = DOMAIN st
         /\ \A other \in DOMAIN st : other # pointer => st'[other] = st[other]
<1> DEFINE p == st[pointer]
<1>1. rec' = rec \/ rec' = [rec EXCEPT ![p].stop = clock]
  BY DEF Stop
<1>2. st' = st \/ st' = [st EXCEPT ![pointer] = NULL]
  BY DEF Stop
<1> HIDE DEF p
<1>3. Same
  BY <1>1 DEF Same, IInv, Records
<1>4. \A q \in DOMAIN rec : q # p => rec'[q] = rec[q]
  BY <1>1
<1>5. PastKept
  BY <1>4 DEF PastKept, p
<1> QED BY <1>2, <1>3, <1>5

LEMMA RunStopStep ==
  ASSUME IInv, RunStop
  PROVE  IInv' /\ PastKept
<1>1. /\ pc = "run_stop" /\ pc' = "runs" /\ at' = <<at[1]>> /\ todo' = todo
      /\ types' = types /\ last' = last /\ Stop("trec_run")
  BY DEF RunStop, Call
<1>2. /\ pc \in InRun /\ pc \in InRepl /\ pc # "exp"
      /\ pc' \notin InRun /\ pc' \in InRepl
  BY <1>1 DEF InRepl, InRun, InTests
<1>3. /\ at[1] \in 1 .. NumRepls /\ at[2] \in RunIds /\ at'[1] = at[1]
      /\ at[1] \in Nat
  BY <1>1, <1>2, AtRun DEF IInv
<1>4. ~(Len(st["trec_run"]) >= 3)
  BY <1>2, Shallow DEF IInv, Pointers
<1>5. /\ Same /\ PastKept /\ DOMAIN st' = DOMAIN st
      /\ \A other \in DOMAIN st : other # "trec_run" => st'[other] = st[other]
  BY <1>1, <1>4, StopStep
<1>6. Places'
  <2>1. at'[1] # 0 /\ \E i \in 0 .. NumRepls : at' = <<i>>
    BY <1>1, <1>3, Typed
  <2> QED BY <1>1, <1>2, <2>1 DEF IInv, Places, Loop, InRun, InTests
<1>7. Records'
  BY <1>2, <1>3, <1>5, SameRecords DEF IInv
<1>8. Ahead'
  BY <1>1, <1>2, <1>3, <1>5, SameAhead DEF IInv, Same
<1>9. Pointers'
  <2>1. st'.trec_repl = <<at'[1]>>
    BY <1>2, <1>3, <1>5 DEF IInv, Pointers
  <2> QED BY <1>1, <1>2, <1>5, <2>1 DEF IInv, Pointers, InRun, InTests
<1> QED BY <1>5, <1>6, <1>7, <1>8, <1>9 DEF IInv

LEMMA ReplStopStep ==
  ASSUME IInv, ReplStop
  PROVE  IInv' /\ PastKept
<1>1. /\ pc = "runs" /\ pc' = "repls" /\ at' = at /\ todo' = todo
      /\ types' = types /\ last' = last /\ Stop("trec_repl")
  BY DEF ReplStop, Call, progVars
<1>2. /\ pc \in InRepl /\ pc' \notin InRun /\ pc' \notin InRepl
      /\ pc \notin InRun
  BY <1>1 DEF InRepl, InRun, InTests
<1>3. ~(Len(st["trec_repl"]) >= 3)
  BY <1>2, Shallow DEF IInv, Pointers
<1>4. /\ Same /\ PastKept /\ DOMAIN st' = DOMAIN st
  BY <1>1, <1>3, StopStep
<1>5. at[1] \in 1 .. NumRepls
  <2>1. at[1] \in 0 .. NumRepls /\ at[1] # 0
    BY <1>1, AtLoop DEF IInv, Places, Loop
  <2> QED BY <2>1, Typed
<1>6. Places'
  BY <1>1 DEF IInv, Places, Loop, InRun, InTests
<1>7. Records'
  BY <1>1, <1>2, <1>4, <1>5, SameRecords DEF IInv
<1>8. Ahead'
  BY <1>1, <1>2, <1>4, SameAhead DEF IInv, Same
<1>9. Pointers'
  BY <1>1, <1>2, <1>4 DEF IInv, Pointers, InRun, InTests
<1> QED BY <1>4, <1>6, <1>7, <1>8, <1>9 DEF IInv

LEMMA ExpStopStep ==
  ASSUME IInv, ExpStop
  PROVE  IInv' /\ PastKept
<1>1. /\ pc = "repls" /\ pc' = "export" /\ at' = at /\ todo' = todo
      /\ types' = types /\ last' = last /\ st' = st
      /\ rec' = [rec EXCEPT ![<<>>].stop = clock]
  BY DEF ExpStop, Call, progVars
<1>2. /\ pc' \notin InRun /\ pc' \notin InRepl /\ pc \notin InRepl /\ pc \notin InRun
  BY <1>1 DEF InRepl, InRun, InTests
<1>3. Same
  BY <1>1 DEF Same, IInv, Records
<1>4. PastKept
  <2>1. \A q \in DOMAIN rec : q # <<>> => rec'[q] = rec[q]
    BY <1>1
  <2> QED BY <2>1, Shallow DEF PastKept
<1>5. Places'
  BY <1>1 DEF IInv, Places, Loop, InRun, InTests
<1>6. Records'
  BY <1>1, <1>2, <1>3, SameRecords DEF IInv
<1>7. Ahead'
  BY <1>1, <1>2, <1>3, SameAhead DEF IInv, Same
<1>8. Pointers'
  BY <1>1, <1>2 DEF IInv, Pointers, InRun, InTests
<1> QED BY <1>4, <1>5, <1>6, <1>7, <1>8 DEF IInv

\* Steps that leave the records and the pointers as they are.
LEMMA OtherSteps ==
  ASSUME IInv, Fail \/ TestsEnd \/ ReptsEnd \/ Export \/ UNCHANGED vars
  PROVE  IInv' /\ PastKept
<1>1. /\ at' = at /\ todo' = todo /\ types' = types /\ last' = last
      /\ rec' = rec /\ st' = st
  BY DEF Fail, TestsEnd, ReptsEnd, Export, vars, progVars, trecVars
<1>2. \/ pc' = pc
      \/ pc = "tests" /\ pc' = "rept_stop"
      \/ pc = "repts" /\ pc' = "run_stop"
      \/ pc = "export" /\ pc' = "done"
  BY DEF Fail, TestsEnd, ReptsEnd, Export, vars
<1>3. /\ pc' \in InRun <=> pc \in InRun
      /\ pc' \in InRepl <=> pc \in InRepl
      /\ pc' \in Loop <=> pc \in Loop
      /\ pc' \in InTests => pc \in InTests
      /\ pc' = "exp" <=> pc = "exp"
      /\ pc' = "runs" => pc = "runs"
      /\ pc' = "action" => pc = "action"
      /\ pc' = "tests" => pc = "tests"
  BY <1>2 DEF Loop, InRepl, InRun, InTests
<1>4. Places'
  BY <1>1, <1>3 DEF IInv, Places
<1>5. Records'
  BY <1>1, <1>3 DEF IInv, Records
<1>6. Ahead'
  BY <1>1, <1>3 DEF IInv, Ahead
<1>7. Pointers'
  BY <1>1, <1>3 DEF IInv, Pointers
<1>8. PastKept
  BY <1>1 DEF PastKept
<1> QED BY <1>4, <1>5, <1>6, <1>7, <1>8 DEF IInv

-------------------------------------------------------------------------------
(* The theorems about pointers and the past.                               *)

LEMMA NextStep ==
  ASSUME IInv, [Next]_vars
  PROVE  IInv' /\ PastKept
<1>1. CASE ExpStart
  BY <1>1, ExpStartStep
<1>2. CASE ReplStart
  BY <1>2, ReplStartStep
<1>3. ASSUME NEW r \in RunIds, RunStart(r)
      PROVE  IInv' /\ PastKept
  BY <1>3, RunStartStep
<1>4. CASE ReptStart
  BY <1>4, ReptStartStep
<1>5. CASE TestStart
  BY <1>5, TestStartStep
<1>6. CASE TestStop
  BY <1>6, TestStopStep
<1>7. CASE Commit
  BY <1>7, CommitStep
<1>8. ASSUME NEW others \in SUBSET Type, ReptStop(others)
      PROVE  IInv' /\ PastKept
  BY <1>8, ReptStopStep
<1>9. CASE RunStop
  BY <1>9, RunStopStep
<1>10. CASE ReplStop
  BY <1>10, ReplStopStep
<1>11. CASE ExpStop
  BY <1>11, ExpStopStep
<1>12. CASE Fail \/ TestsEnd \/ ReptsEnd \/ Export \/ UNCHANGED vars
  BY <1>12, OtherSteps
<1> QED
  BY <1>1, <1>2, <1>3, <1>4, <1>5, <1>6, <1>7, <1>8, <1>9, <1>10, <1>11, <1>12
  DEF Next

THEOREM Inductive == Spec => []IInv
<1>1. Init => IInv
  BY InitIInv
<1>2. IInv /\ [Next]_vars => IInv'
  BY NextStep
<1> QED BY <1>1, <1>2, PTL DEF Spec

\* Where a record stops it is there, and it is the one of the loop: whatever
\* failed before, trec_run_rept_stop(), trec_run_stop() and trec_repl_stop()
\* find their pointers, so no summary is asked of a null record.
THEOREM StopsAlwaysFind == Spec => []StopsFindRecords
<1>1. IInv => StopsFindRecords
  <2> SUFFICES ASSUME IInv PROVE StopsFindRecords
    OBVIOUS
  <2>1. ASSUME pc = "run_stop" PROVE st.trec_run = SubSeq(at, 1, 2)
    <3>1. pc \in InRun
      BY <2>1 DEF InRun
    <3> DEFINE i == at[1]
               r == at[2]
               k == at[3]
    <3>2. i \in Nat /\ r \in Nat /\ k \in Nat /\ at = <<i, r, k>>
      BY <3>1, AtRun DEF IInv
    <3>3. st.trec_run = <<i, r>>
      BY <3>1 DEF IInv, Pointers
    <3> HIDE DEF i, r, k
    <3>4. "read" \in Type
      BY DEF Type
    <3> QED BY <3>2, <3>3, <3>4, Prefixes
  <2>2. pc \in {"tests", "action", "rept_stop"} => st.trec_rept = at
    BY DEF IInv, Pointers, InTests
  <2>3. pc = "runs" => st.trec_repl = at
    BY AtLoop DEF IInv, Pointers, InRepl, Loop
  <2> QED BY <2>1, <2>2, <2>3 DEF StopsFindRecords
<1> QED BY <1>1, Inductive, PTL

\* A test that fails leaves its pointers behind, and still no step writes to the
\* record of a repetition, or of a test, but that of the repetition executed.
THEOREM PastAlwaysFixed == Spec => PastIsFixed
<1>1. IInv /\ [Next]_vars =>
        [\A p \in DOMAIN rec : Len(p) >= 3 /\ rec'[p] # rec[p] => InRept(p, at')]_vars
  BY NextStep DEF PastKept
<1> QED BY <1>1, Inductive, PTL DEF Spec, PastIsFixed

-------------------------------------------------------------------------------
(* What is exported.                                                       *)

\* The records of tests, and of those the ones of the repetition executed.
TestRecs   == {p \in DOMAIN rec : Len(p) = 4}
Current(p) == pc \in InTests /\ p[1] = at[1] /\ p[2] = at[2] /\ p[3] = at[3]

\* A record of a test has records above it, as the loops do.
Paths ==
  \A p \in TestRecs :
    /\ p = <<p[1], p[2], p[3], p[4]>>
    /\ p[1] \in 1 .. NumRepls /\ p[2] \in RunIds
    /\ p[3] \in 1 .. Runs[p[2]].num_repetitions /\ p[4] \in Type
    /\ <<p[1]>> \in DOMAIN rec /\ <<p[1], p[2]>> \in DOMAIN rec
    /\ <<p[1], p[2], p[3]>> \in DOMAIN rec
    /\ pc # "exp"

Fields == {"id", "num", "start", "stop", "committed", "time", "size",
           "test_time", "test_size"}
Shapes ==
  /\ \A p \in DOMAIN rec : /\ DOMAIN rec[p] = Fields
                           /\ rec[p].committed \in BOOLEAN
                           /\ rec[p].time \in [1 .. 4 -> Nat \X Nat]
  /\ clock \in Nat \ {0}

\* The records at the place of the program have its numbers, and so have those
\* above a test that was committed.
Numbered ==
  /\ pc \in InRepl => rec[<<at[1]>>].id = at[1]
  /\ pc \in InRun => rec[<<at[1], at[2]>>].id = at[2]
  /\ pc \in InTests => rec[at].id = at[3]
NumbersKept ==
  \A p \in TestRecs : rec[p].committed =>
    /\ rec[<<p[1]>>].id = p[1] /\ rec[<<p[1]>>].num = Len(Runs)
    /\ rec[<<p[1], p[2]>>].id = p[2]
    /\ rec[<<p[1], p[2]>>].num = Runs[p[2]].num_repetitions
    /\ rec[<<p[1], p[2], p[3]>>].id = p[3]

\* The tests left are in the order in which they are executed.
TypesLeft ==
  pc \in InTests =>
    IF Runs[at[2]].read THEN types \in {<<"write", "read">>, <<"read">>, <<>>}
                        ELSE types \in {<<"write">>, <<>>}

\* What is committed was taken to its end, by all tasks once the repetition ended.
Recorded ==
  /\ ended \subseteq TestRecs
  /\ \A p \in TestRecs :
       /\ Current(p) => p \notin ended /\ (rec[p].committed <=> p[4] \in Executed)
       /\ ~Current(p) => (rec[p].committed <=> p \in ended)

\* The records of tests to come in the run are as calloc() left them.
ToCome(p) ==
  /\ p[1] = at[1] /\ p[2] = at[2]
  /\ \/ p[3] > at[3]
     \/ pc \in {"tests", "action"} /\ p[3] = at[3] /\ types = <<"write", p[4]>>
Fresh ==
  pc \in InRun => \A p \in TestRecs :
    ToCome(p) => rec[p].time = NoTimes /\ ~rec[p].committed

\* The first n actions have times, one after the other until now; the others
\* have none.
Upto(time, n, now) ==
  \A a \in 1 .. n : /\ 0 < time[a][1] /\ time[a][1] < time[a][2] /\ time[a][2] < now
                    /\ a > 1 => time[a - 1][2] < time[a][1]
NoneAfter(time, n) == \A a \in 1 .. 4 : a > n => time[a] = <<0, 0>>
Timed ==
  types # <<>> =>
    LET time == rec[<<at[1], at[2], at[3], Head(types)>>].time IN
    /\ pc = "tests" => /\ Upto(time, last, clock) /\ NoneAfter(time, last)
                       /\ last # 0 => st.test_action = NoAction
    /\ pc = "action" =>
         /\ Upto(time, last - 1, clock) /\ NoneAfter(time, last)
         /\ 0 < time[last][1] /\ time[last][1] < clock
         /\ last > 1 => time[last - 1][2] < time[last][1]
         /\ st.test_action = last

\* The times of a test committed are in the order of its actions.
Succeed(time) ==
  \A a \in 1 .. 3 : time[a + 1][1] > 0 =>
    time[a][1] < time[a][2] /\ time[a][2] < time[a + 1][1]
InOrder == \A p \in TestRecs : rec[p].committed => Succeed(rec[p].time)

Exported == pc = "done" => rows = Rows("task")

EInv == /\ Paths /\ Shapes /\ Numbered /\ NumbersKept /\ TypesLeft
        /\ Recorded /\ Fresh /\ Timed /\ InOrder /\ Exported

-------------------------------------------------------------------------------
(* Steps outside tests.                                                    *)

LEMMA InitEInv ==
  ASSUME Init
  PROVE  EInv
<1>1. DOMAIN rec = {<<>>} /\ TestRecs = {} /\ rec[<<>>] = Zero
  BY DEF Init, TestRecs
<1>2. Shapes
  <2>1. NoTimes \in [1 .. 4 -> Nat \X Nat]
    BY DEF NoTimes
  <2>2. DOMAIN Zero = Fields /\ Zero.committed = FALSE /\ Zero.time = NoTimes
    BY DEF Zero, Fields
  <2>3. clock \in Nat \ {0}
    BY DEF Init
  <2> QED BY <1>1, <2>1, <2>2, <2>3 DEF Shapes
<1>3. Paths /\ NumbersKept /\ InOrder
  BY <1>1 DEF Paths, NumbersKept, InOrder
<1>4. pc = "exp" /\ pc \notin InRepl /\ pc \notin InRun /\ pc \notin InTests
  BY DEF Init, InRepl, InRun, InTests
<1>5. Numbered /\ TypesLeft /\ Fresh /\ Exported
  BY <1>4 DEF Numbered, TypesLeft, Fresh, Exported
<1>6. Recorded
  BY <1>1 DEF Recorded, Init
<1>7. Timed
  BY <1>4 DEF Timed
<1> QED BY <1>2, <1>3, <1>5, <1>6, <1>7 DEF EInv

\* What is exported of a record, and the numbers above it, stay as they are.
Alike ==
  /\ DOMAIN rec' = DOMAIN rec
  /\ \A p \in DOMAIN rec :
       /\ DOMAIN rec'[p] = DOMAIN rec[p]
       /\ rec'[p].id = rec[p].id /\ rec'[p].num = rec[p].num
       /\ rec'[p].committed = rec[p].committed /\ rec'[p].time = rec[p].time

LEMMA AlikeRecords ==
  ASSUME EInv, Alike, clock' \in {clock, clock + 3}, pc' # "exp"
  PROVE  TestRecs' = TestRecs /\ Paths' /\ Shapes' /\ NumbersKept' /\ InOrder'
<1>1. TestRecs' = TestRecs /\ \A p \in TestRecs : p \in DOMAIN rec
  BY DEF TestRecs, Alike
<1>2. Paths'
  BY <1>1 DEF EInv, Paths, Alike
<1>3. Shapes'
  BY DEF EInv, Shapes, Alike
<1>4. NumbersKept'
  <2> SUFFICES ASSUME NEW p \in TestRecs, rec'[p].committed
               PROVE  /\ rec'[<<p[1]>>].id = p[1] /\ rec'[<<p[1]>>].num = Len(Runs)
                      /\ rec'[<<p[1], p[2]>>].id = p[2]
                      /\ rec'[<<p[1], p[2]>>].num = Runs[p[2]].num_repetitions
                      /\ rec'[<<p[1], p[2], p[3]>>].id = p[3]
    BY <1>1 DEF NumbersKept
  <2>1. rec[p].committed
    BY <1>1 DEF Alike
  <2>2. /\ <<p[1]>> \in DOMAIN rec /\ <<p[1], p[2]>> \in DOMAIN rec
        /\ <<p[1], p[2], p[3]>> \in DOMAIN rec
    BY DEF EInv, Paths
  <2> QED BY <2>1, <2>2 DEF EInv, NumbersKept, Alike
<1>5. InOrder'
  <2> SUFFICES ASSUME NEW p \in TestRecs, rec'[p].committed
               PROVE  Succeed(rec'[p].time)
    BY <1>1 DEF InOrder
  <2>1. rec[p].committed /\ rec'[p].time = rec[p].time
    BY <1>1 DEF Alike
  <2> QED BY <2>1 DEF EInv, InOrder
<1> QED BY <1>1, <1>2, <1>3, <1>4, <1>5

LEMMA AlikeNumbered ==
  ASSUME IInv, EInv, Alike,
         pc' \in InRepl => pc \in InRepl /\ at'[1] = at[1],
         pc' \in InRun => pc \in InRun /\ at' = at,
         pc' \in InTests => pc \in InTests
  PROVE  Numbered'
<1>1. ASSUME pc' \in InRepl PROVE rec'[<<at'[1]>>].id = at'[1]
  <2>1. <<at[1]>> \in DOMAIN rec
    <3>1. at[1] \in 1 .. NumRepls /\ pc # "exp"
      <4>1. CASE pc \in InRun
        BY <4>1, AtRun DEF IInv, InRun, InTests
      <4>2. CASE pc = "runs"
        <5>1. at[1] \in 0 .. NumRepls /\ at[1] # 0 /\ at[1] \in Nat
          BY <4>2, AtLoop DEF IInv, Places, Loop
        <5> QED BY <4>2, <5>1, Typed
      <4> QED BY <1>1, <4>1, <4>2 DEF InRepl
    <3> QED BY <3>1 DEF IInv, Records
  <2> QED BY <1>1, <2>1 DEF EInv, Numbered, Alike
<1>2. ASSUME pc' \in InRun PROVE rec'[<<at'[1], at'[2]>>].id = at'[2]
  <2>1. <<at[1], at[2]>> \in DOMAIN rec
    <3>1. pc \in InRepl /\ at[2] \in RunIds
      BY <1>2, AtRun DEF IInv, InRepl
    <3> QED BY <3>1 DEF IInv, Records
  <2> QED BY <1>2, <2>1 DEF EInv, Numbered, Alike
<1>3. ASSUME pc' \in InTests PROVE rec'[at'].id = at'[3]
  <2>1. pc \in InTests /\ pc \in InRun /\ at' = at
    BY <1>3 DEF InRun
  <2>2. at \in DOMAIN rec
    <3>1. at = <<at[1], at[2], at[3]>> /\ at[3] \in 1 .. Runs[at[2]].num_repetitions
      BY <2>1, AtRun DEF IInv
    <3> QED BY <2>1, <3>1 DEF IInv, Records
  <2> QED BY <2>1, <2>2 DEF EInv, Numbered, Alike
<1> QED BY <1>1, <1>2, <1>3 DEF Numbered

\* Between loops.
LEMMA OutsideStep ==
  ASSUME IInv, EInv, Alike, clock' \in {clock, clock + 3}, ended' = ended,
         pc \notin InTests, pc' \notin InTests, pc' # "exp", pc' # "done",
         pc' \in InRepl => pc \in InRepl /\ at'[1] = at[1],
         pc' \in InRun => pc \in InRun /\ at' = at
  PROVE  EInv'
<1>1. TestRecs' = TestRecs /\ Paths' /\ Shapes' /\ NumbersKept' /\ InOrder'
  BY AlikeRecords
<1>2. Numbered'
  BY AlikeNumbered
<1>3. /\ pc \notin {"tests", "action"} /\ pc' \notin {"tests", "action"}
  BY DEF InTests
<1>4. \A p \in TestRecs : rec'[p].committed = rec[p].committed
                          /\ rec'[p].time = rec[p].time
  BY DEF TestRecs, Alike
<1>5. Recorded'
  BY <1>1, <1>4 DEF EInv, Recorded, Current
<1>6. Fresh'
  BY <1>1, <1>3, <1>4 DEF EInv, Fresh, ToCome
<1>7. TypesLeft' /\ Timed' /\ Exported'
  BY <1>3 DEF TypesLeft, Timed, Exported
<1> QED BY <1>1, <1>2, <1>5, <1>6, <1>7 DEF EInv

LEMMA StopAlike ==
  ASSUME EInv, NEW pointer, Stop(pointer)
  PROVE  Alike
<1> DEFINE p == st[pointer]
<1>1. rec' = rec \/ rec' = [rec EXCEPT ![p].stop = clock]
  BY DEF Stop
<1> HIDE DEF p
<1> QED BY <1>1 DEF Alike, EInv, Shapes, Fields

LEMMA LoopSteps ==
  ASSUME IInv, EInv, ReptsEnd \/ RunStop \/ ReplStop \/ ExpStop
  PROVE  EInv'
<1>1. CASE ReptsEnd
  <2>1. /\ pc = "repts" /\ pc' = "run_stop" /\ at' = at /\ ended' = ended
        /\ rec' = rec /\ clock' = clock
    BY <1>1 DEF ReptsEnd, progVars, trecVars
  <2>2. Alike
    BY <2>1 DEF Alike
  <2> QED BY <2>1, <2>2, OutsideStep DEF InRepl, InRun, InTests
<1>2. CASE RunStop
  <2>1. /\ pc = "run_stop" /\ pc' = "runs" /\ at' = <<at[1]>> /\ ended' = ended
        /\ clock' = clock + 3 /\ Stop("trec_run")
    BY <1>2 DEF RunStop, Call
  <2>2. Alike /\ at'[1] = at[1]
    BY <2>1, StopAlike
  <2> QED BY <2>1, <2>2, OutsideStep DEF InRepl, InRun, InTests
<1>3. CASE ReplStop
  <2>1. /\ pc = "runs" /\ pc' = "repls" /\ at' = at /\ ended' = ended
        /\ clock' = clock + 3 /\ Stop("trec_repl")
    BY <1>3 DEF ReplStop, Call, progVars
  <2>2. Alike
    BY <2>1, StopAlike
  <2> QED BY <2>1, <2>2, OutsideStep DEF InRepl, InRun, InTests
<1>4. CASE ExpStop
  <2>1. /\ pc = "repls" /\ pc' = "export" /\ at' = at /\ ended' = ended
        /\ clock' = clock + 3 /\ rec' = [rec EXCEPT ![<<>>].stop = clock]
    BY <1>4 DEF ExpStop, Call, progVars
  <2>2. Alike
    BY <2>1 DEF Alike, EInv, Shapes, Fields
  <2> QED BY <2>1, <2>2, OutsideStep DEF InRepl, InRun, InTests
<1> QED BY <1>1, <1>2, <1>3, <1>4

\* Export reads the records; and nothing follows it.
LEMMA ExportStep ==
  ASSUME IInv, EInv, Export
  PROVE  EInv'
<1>1. /\ pc = "export" /\ pc' = "done" /\ at' = at /\ ended' = ended /\ types' = types
      /\ last' = last /\ rec' = rec /\ clock' = clock /\ rows' = Rows("task")
  BY DEF Export, progVars, trecVars
<1>2. Alike
  BY <1>1 DEF Alike
<1>3. /\ pc \notin InTests /\ pc' \notin InTests /\ pc' # "exp" /\ pc' \notin InRepl
      /\ pc' \notin InRun /\ pc' \notin {"tests", "action"}
  BY <1>1 DEF InRepl, InRun, InTests
<1>4. TestRecs' = TestRecs /\ Paths' /\ Shapes' /\ NumbersKept' /\ InOrder'
  BY <1>1, <1>2, <1>3, AlikeRecords
<1>5. Recorded'
  BY <1>1, <1>3, <1>4 DEF EInv, Recorded, Current
<1>6. Numbered' /\ Fresh' /\ TypesLeft' /\ Timed'
  BY <1>3 DEF Numbered, Fresh, TypesLeft, Timed
<1>7. Exported'
  BY <1>1 DEF Exported, Rows, Committed, Ids, Times, Divided
<1> QED BY <1>4, <1>5, <1>6, <1>7 DEF EInv

\* The program is where it was, or leaves the tests of a repetition.
LEMMA LeavingStep ==
  ASSUME IInv, EInv, Fail \/ TestsEnd \/ UNCHANGED vars
  PROVE  EInv'
<1>1. /\ at' = at /\ todo' = todo /\ types' = types /\ last' = last /\ ended' = ended
      /\ rec' = rec /\ st' = st /\ clock' = clock /\ rows' = rows
  BY DEF Fail, TestsEnd, vars, progVars, trecVars, reportVars
<1>2. \/ pc' = pc
      \/ pc = "tests" /\ pc' = "rept_stop"
  BY DEF Fail, TestsEnd, vars
<1>3. /\ pc' \in InTests <=> pc \in InTests
      /\ pc' \in InRun <=> pc \in InRun /\ pc' \in InRun
      /\ pc' \in InRun => pc \in InRun
      /\ pc' \in InRepl => pc \in InRepl
      /\ pc' = "exp" => pc = "exp"
      /\ pc' = "done" => pc = "done"
      /\ pc' = "tests" => pc = "tests"
      /\ pc' = "action" => pc = "action"
  BY <1>2 DEF InRepl, InRun, InTests
<1>4. Alike /\ TestRecs' = TestRecs
  BY <1>1 DEF Alike, TestRecs
<1>5. Paths' /\ Shapes' /\ NumbersKept' /\ InOrder' /\ TypesLeft'
  BY <1>1, <1>3, <1>4
  DEF EInv, Paths, Shapes, NumbersKept, InOrder, Succeed, TypesLeft
<1>6. Numbered'
  BY <1>1, <1>3, <1>4, AlikeNumbered
<1>7. Executed' = Executed
  BY <1>1 DEF Executed
<1>8. Recorded'
  BY <1>1, <1>3, <1>4, <1>7 DEF EInv, Recorded, Current
<1>9. Fresh'
  BY <1>1, <1>3, <1>4 DEF EInv, Fresh, ToCome
<1>10. Timed'
  BY <1>1, <1>3 DEF EInv, Timed, Upto, NoneAfter
<1>11. Exported'
  <2>1. Rows("task")' = Rows("task")
    BY <1>1 DEF Rows, Committed, Ids, Times, Divided
  <2> QED BY <1>1, <1>3, <2>1 DEF EInv, Exported
<1> QED BY <1>5, <1>6, <1>8, <1>9, <1>10, <1>11 DEF EInv

-------------------------------------------------------------------------------
(* Records that start.                                                     *)

LEMMA StartedLooks ==
  ASSUME Records, Shapes, NEW p \in DOMAIN rec, NEW below, p \notin below,
         NEW id, NEW n, rec' = Started(p, id, n, below)
  PROVE  /\ rec'[p].id = id /\ rec'[p].committed = rec[p].committed
         /\ rec'[p].time = rec[p].time /\ DOMAIN rec'[p] = Fields
         /\ \A q \in below : rec'[q] = Zero
<1> DEFINE f == [q \in DOMAIN rec \cup below |->
                  IF q \in below THEN Zero ELSE rec[q]]
<1>1. /\ p \in DOMAIN f /\ f[p] = rec[p]
      /\ \A q \in below : q # p /\ q \in DOMAIN f /\ f[q] = Zero
  OBVIOUS
<1>2. rec' = [f EXCEPT ![p].id = id, ![p].num = n, ![p].start = clock]
  BY DEF Started
<1>3. DOMAIN rec[p] = Fields
  BY DEF Shapes
<1> HIDE DEF f
<1> QED BY <1>1, <1>2, <1>3 DEF Fields

LEMMA LongRecs == \A p \in TestRecs : p \in DOMAIN rec /\ Len(p) = 4 /\ Len(p) >= 3
<1>1. \A p \in TestRecs : p \in DOMAIN rec /\ Len(p) = 4
  BY DEF TestRecs
<1>2. 4 >= 3
  OBVIOUS
<1> QED BY <1>1, <1>2

LEMMA ZeroLooks ==
  /\ DOMAIN Zero = Fields /\ Zero.committed = FALSE /\ Zero.time = NoTimes
  /\ NoTimes \in [1 .. 4 -> Nat \X Nat]
BY DEF Zero, Fields, NoTimes

\* A record that starts and those below it: the types of all.
LEMMA StartedShapes ==
  ASSUME Records, Shapes, NEW p \in DOMAIN rec, NEW below, p \notin below,
         NEW id, NEW n, rec' = Started(p, id, n, below), clock' = clock + 3
  PROVE  Shapes'
<1>1. /\ DOMAIN rec' = DOMAIN rec \cup below
      /\ \A q \in DOMAIN rec \ below : q # p => rec'[q] = rec[q]
  BY StartedIs
<1>2. /\ rec'[p].committed = rec[p].committed
      /\ rec'[p].time = rec[p].time /\ DOMAIN rec'[p] = Fields
      /\ \A q \in below : rec'[q] = Zero
  BY StartedLooks
<1>3. ASSUME NEW q \in DOMAIN rec'
      PROVE  /\ DOMAIN rec'[q] = Fields /\ rec'[q].committed \in BOOLEAN
             /\ rec'[q].time \in [1 .. 4 -> Nat \X Nat]
  <2>1. CASE q \in below
    BY <1>2, <2>1, ZeroLooks
  <2>2. CASE q = p
    BY <1>2, <2>2 DEF Shapes
  <2>3. CASE q \notin below /\ q # p
    BY <1>1, <2>3 DEF Shapes
  <2> QED BY <2>1, <2>2, <2>3
<1>4. clock' \in Nat \ {0}
  BY DEF Shapes
<1> QED BY <1>3, <1>4 DEF Shapes

LEMMA ExpStartEnds ==
  ASSUME IInv, EInv, ExpStart
  PROVE  EInv'
<1> DEFINE below == Below(<<>>, NumRepls)
<1>1. /\ pc = "exp" /\ pc' = "repls" /\ at' = at /\ ended' = ended
      /\ rec' = Started(<<>>, 0, NumRepls, below) /\ clock' = clock + 3
  BY DEF ExpStart, Call, trec_exp_start, progVars
<1>2. \A q \in below : q # <<>> /\ ~(Len(q) >= 3) /\ Len(q) # 4
  <2>1. \A q \in below : \E j \in 1 .. NumRepls : q = <<j>>
    BY Typed, BelowExp
  <2>2. \A j : Len(<<j>>) = 1 /\ <<j>> # <<>>
    OBVIOUS
  <2> HIDE DEF below
  <2> QED BY <2>1, <2>2
<1> HIDE DEF below
<1>3. <<>> \in DOMAIN rec /\ <<>> \notin below /\ Records /\ Shapes
  BY <1>2 DEF IInv, Records, EInv
<1>4. DOMAIN rec' = DOMAIN rec \cup below
  BY <1>1, <1>3, StartedIs
<1>5. TestRecs = {} /\ TestRecs' = {}
  <2>1. TestRecs = {}
    BY <1>1 DEF EInv, Paths
  <2> QED BY <1>2, <1>4, <2>1 DEF TestRecs
<1>6. Shapes'
  BY <1>1, <1>3, StartedShapes
<1>7. Paths' /\ NumbersKept' /\ InOrder' /\ Recorded'
  BY <1>1, <1>5 DEF EInv, Paths, NumbersKept, InOrder, Recorded
<1>8. Numbered' /\ Fresh' /\ TypesLeft' /\ Timed' /\ Exported'
  BY <1>1, <1>5 DEF Numbered, Fresh, TypesLeft, Timed, Exported,
                    InRepl, InRun, InTests
<1> QED BY <1>6, <1>7, <1>8 DEF EInv

LEMMA ReplStartEnds ==
  ASSUME IInv, EInv, ReplStart
  PROVE  EInv'
<1> DEFINE i == at[1] + 1
           below == Below(<<i>>, Len(Runs))
<1>1. /\ pc = "repls" /\ pc' = "runs" /\ at' = <<i>> /\ at[1] < NumRepls
      /\ ended' = ended /\ clock' = clock + 3
  BY DEF ReplStart, Call
<1>2. i \in 1 .. NumRepls /\ i \in Nat /\ at[1] \in Nat /\ i # at[1]
  BY <1>1, Typed, AtLoop DEF IInv, Loop
<1>3. rec[<<>>].num = NumRepls /\ <<i>> \in DOMAIN rec
  BY <1>1, <1>2 DEF IInv, Records
<1>4. rec' = Started(<<i>>, i, Len(Runs), below)
  <2>1. i <= rec[<<>>].num
    BY <1>2, <1>3
  <2> QED BY <2>1 DEF ReplStart, trec_exp_repl_start
<1>5. \A q \in below : q # <<i>> /\ Len(q) = 2 /\ q[1] = i
  <2>1. Len(Runs) \in Nat
    BY TrecAssumption
  <2>2. \A q \in below : \E j \in 1 .. Len(Runs) : q = <<i, j>>
    BY <1>2, <2>1, BelowRepl
  <2>3. \A j : <<i, j>> # <<i>> /\ Len(<<i, j>>) = 2 /\ <<i, j>>[1] = i
    <3>1. \A j : Len(<<i, j>>) = 2
      OBVIOUS
    <3>2. Len(<<i>>) = 1
      OBVIOUS
    <3> QED BY <3>1, <3>2
  <2> HIDE DEF i, below
  <2> QED BY <2>2, <2>3
<1>6. at'[1] = i /\ Len(<<i>>) = 1 /\ <<i>>[1] = i
  BY <1>1
<1>7. <<i>> \notin below /\ Records /\ Shapes
  BY <1>5 DEF IInv, EInv
<1>8. pc \notin InTests /\ pc' \notin InTests
  BY <1>1 DEF InTests
<1>9. \A p \in TestRecs : p[1] \in Nat /\ p[1] # i
  <2>1. \A p \in TestRecs : p[1] \in 0 .. at[1]
    BY LongRecs DEF IInv, Ahead
  <2> QED BY <1>2, <2>1
<1> HIDE DEF i, below
<1>10. /\ DOMAIN rec' = DOMAIN rec \cup below
       /\ \A q \in DOMAIN rec \ below : q # <<i>> => rec'[q] = rec[q]
  BY <1>3, <1>4, <1>7, StartedIs
<1>11. rec'[<<i>>].id = i
  BY <1>3, <1>4, <1>7, StartedLooks
<1>12. Shapes'
  BY <1>1, <1>3, <1>4, <1>7, StartedShapes
<1>13. TestRecs' = TestRecs
  BY <1>5, <1>10 DEF TestRecs
<1>14. \A p \in TestRecs :
         /\ rec'[p] = rec[p] /\ rec'[<<p[1]>>] = rec[<<p[1]>>]
         /\ rec'[<<p[1], p[2]>>] = rec[<<p[1], p[2]>>]
         /\ rec'[<<p[1], p[2], p[3]>>] = rec[<<p[1], p[2], p[3]>>]
  <2> SUFFICES ASSUME NEW p \in TestRecs
               PROVE  /\ rec'[p] = rec[p] /\ rec'[<<p[1]>>] = rec[<<p[1]>>]
                      /\ rec'[<<p[1], p[2]>>] = rec[<<p[1], p[2]>>]
                      /\ rec'[<<p[1], p[2], p[3]>>] = rec[<<p[1], p[2], p[3]>>]
    OBVIOUS
  <2> DEFINE a == p[1]
             b == p[2]
             c == p[3]
  <2>1. a # i
    BY <1>9
  <2>2. /\ p \in DOMAIN rec /\ Len(p) = 4 /\ <<a>> \in DOMAIN rec
        /\ <<a, b>> \in DOMAIN rec /\ <<a, b, c>> \in DOMAIN rec
    BY DEF TestRecs, EInv, Paths
  <2> HIDE DEF a, b, c
  <2>3. /\ <<a>>[1] = a /\ Len(<<a>>) = 1 /\ <<a, b>>[1] = a /\ Len(<<a, b>>) = 2
        /\ Len(<<a, b, c>>) = 3
    OBVIOUS
  <2>4. /\ p \notin below /\ <<a>> \notin below /\ <<a, b>> \notin below
        /\ <<a, b, c>> \notin below
    BY <1>5, <2>1, <2>2, <2>3
  <2>5. p # <<i>> /\ <<a>> # <<i>> /\ <<a, b>> # <<i>> /\ <<a, b, c>> # <<i>>
    BY <1>6, <2>1, <2>2, <2>3
  <2>6. /\ rec'[p] = rec[p] /\ rec'[<<a>>] = rec[<<a>>]
        /\ rec'[<<a, b>>] = rec[<<a, b>>] /\ rec'[<<a, b, c>>] = rec[<<a, b, c>>]
    BY <1>10, <2>2, <2>4, <2>5
  <2> QED BY <2>6 DEF a, b, c
<1>15. Paths'
  BY <1>1, <1>10, <1>13 DEF EInv, Paths
<1>16. NumbersKept' /\ InOrder'
  <2>1. NumbersKept'
    BY <1>13, <1>14 DEF EInv, NumbersKept
  <2>2. InOrder'
    <3>1. \A p \in TestRecs : rec[p].committed => Succeed(rec[p].time)
      BY DEF EInv, InOrder
    <3> QED BY <1>13, <1>14, <3>1 DEF InOrder, Succeed
  <2> QED BY <2>1, <2>2
<1>17. Recorded'
  BY <1>1, <1>8, <1>13, <1>14 DEF EInv, Recorded, Current
<1>18. Numbered' /\ Fresh' /\ TypesLeft' /\ Timed' /\ Exported'
  BY <1>1, <1>6, <1>11 DEF Numbered, Fresh, TypesLeft, Timed, Exported,
                           InRun, InTests
<1> QED BY <1>12, <1>15, <1>16, <1>17, <1>18 DEF EInv

LEMMA RunStartEnds ==
  ASSUME IInv, EInv, NEW r \in RunIds, RunStart(r)
  PROVE  EInv'
<1> DEFINE i == at[1]
           n == Runs[r].num_repetitions
           repts == Below(<<i, r>>, n)
           below == repts \cup Tests(repts)
<1>1. /\ pc = "runs" /\ pc' \in {"repts", "run_stop"} /\ at' = <<i, r, 0>>
      /\ r \in todo /\ ended' = ended /\ clock' = clock + 3
  BY DEF RunStart, Call
<1>2. at = <<i>> /\ i \in 1 .. NumRepls /\ i \in Nat /\ r \in Nat /\ n \in Nat
  <2>1. at = <<i>> /\ i \in 0 .. NumRepls /\ i \in Nat
    BY <1>1, AtLoop DEF IInv, Loop
  <2>2. i # 0
    BY <1>1 DEF IInv, Places
  <2> QED BY <2>1, <2>2, Typed
<1>3. /\ st.trec_repl = <<i>> /\ rec[<<i>>].num = Len(Runs) /\ rec[<<i>>].id = i
      /\ <<i, r>> \in DOMAIN rec /\ <<i>> \in DOMAIN rec
  BY <1>1, <1>2 DEF IInv, Pointers, Records, InRepl, EInv, Numbered
<1>4. Append(<<i>>, r) = <<i, r>> /\ <<i>> # NULL
  <2>1. 0 \in Nat /\ "read" \in Type
    BY DEF Type
  <2> QED BY <1>2, <2>1, Appended, NotNull
<1>5. rec' = Started(<<i, r>>, r, n, below)
  <2>1. st.trec_repl # NULL /\ r <= rec[st.trec_repl].num
    BY <1>3, <1>4 DEF RunIds
  <2> QED BY <1>3, <1>4, <2>1 DEF RunStart, trec_run_start
<1>6. /\ \A k \in 1 .. n : <<i, r, k>> \in repts
      /\ \A q \in repts : \E k \in 1 .. n : q = <<i, r, k>>
  BY <1>2, BelowRun
<1>7. \A q \in Tests(repts) :
        \E k \in 1 .. n, type \in Type : q = <<i, r, k, type>>
  <2> DEFINE ks == 1 .. n
  <2>1. ks \in SUBSET Nat
    OBVIOUS
  <2> HIDE DEF i, n, repts, ks
  <2>2. /\ \A q \in repts : \E k \in ks : q = <<i, r, k>>
        /\ \A k \in ks : <<i, r, k>> \in repts
    BY <1>6 DEF ks
  <2>3. /\ \A k \in ks, type \in Type : <<i, r, k, type>> \in Tests(repts)
        /\ \A q \in Tests(repts) :
             \E k \in ks, type \in Type : q = <<i, r, k, type>>
    BY <1>2, <2>1, <2>2, TestsAre
  <2> QED BY <2>3 DEF ks
<1>8. \A q \in below : Len(q) >= 3 /\ q[1] = i /\ q[2] = r
  BY <1>6, <1>7
\* The records of tests among those made.
<1>9. \A q \in below : Len(q) = 4 =>
        \E k \in 1 .. n, type \in Type : q = <<i, r, k, type>>
  <2>1. \A k : Len(<<i, r, k>>) # 4
    OBVIOUS
  <2> HIDE DEF i, n
  <2> QED BY <1>6, <1>7, <2>1
<1>10. at'[1] = i /\ at'[2] = r
  BY <1>1
<1>11. \A p \in TestRecs : p[1] # i \/ p[2] # r
  BY <1>1, LongRecs DEF IInv, Ahead, InRepl, i
<1> HIDE DEF i, repts, n
<1>12. <<i, r>> \notin below /\ <<i>> \notin below
  <2> HIDE DEF below
  <2> QED BY <1>8, Shallow
<1>13. pc \notin InTests /\ pc' \notin InTests /\ pc' # "exp" /\ Records /\ Shapes
       /\ pc' \notin {"tests", "action"} /\ pc' # "done"
  BY <1>1 DEF InTests, IInv, EInv
<1>14. /\ DOMAIN rec' = DOMAIN rec \cup below
       /\ rec'[<<i, r>>].num = n
       /\ \A q \in DOMAIN rec' : "num" \in DOMAIN rec'[q]
       /\ \A q \in DOMAIN rec \ below : q # <<i, r>> => rec'[q] = rec[q]
  <2> HIDE DEF below
  <2> QED BY <1>3, <1>5, <1>12, StartedIs DEF IInv
<1>15. rec'[<<i, r>>].id = r /\ \A q \in below : rec'[q] = Zero
  <2> HIDE DEF below
  <2> QED BY <1>3, <1>5, <1>12, <1>13, StartedLooks
<1>16. Shapes'
  <2> HIDE DEF below
  <2> QED BY <1>1, <1>3, <1>5, <1>12, <1>13, StartedShapes
<1>17. \A p \in TestRecs' : p \in TestRecs \/ p \in below
  BY <1>14 DEF TestRecs
<1>18. TestRecs \subseteq TestRecs'
  BY <1>14 DEF TestRecs
<1>19. \A p \in TestRecs :
         /\ rec'[p] = rec[p] /\ rec'[<<p[1]>>] = rec[<<p[1]>>]
         /\ rec'[<<p[1], p[2]>>] = rec[<<p[1], p[2]>>]
         /\ rec'[<<p[1], p[2], p[3]>>] = rec[<<p[1], p[2], p[3]>>]
         /\ p \notin below
  <2> HIDE DEF below
  <2> SUFFICES ASSUME NEW p \in TestRecs
               PROVE  /\ rec'[p] = rec[p] /\ rec'[<<p[1]>>] = rec[<<p[1]>>]
                      /\ rec'[<<p[1], p[2]>>] = rec[<<p[1], p[2]>>]
                      /\ rec'[<<p[1], p[2], p[3]>>] = rec[<<p[1], p[2], p[3]>>]
                      /\ p \notin below
    OBVIOUS
  <2> DEFINE a == p[1]
             b == p[2]
             c == p[3]
  <2>1. a # i \/ b # r
    BY <1>11
  <2>2. /\ p \in DOMAIN rec /\ Len(p) = 4 /\ <<a>> \in DOMAIN rec
        /\ <<a, b>> \in DOMAIN rec /\ <<a, b, c>> \in DOMAIN rec
    BY DEF TestRecs, EInv, Paths
  <2>3. p \notin below
    BY <1>8, <2>1
  <2> HIDE DEF a, b, c
  <2>4. /\ <<a, b, c>>[1] = a /\ <<a, b, c>>[2] = b /\ Len(<<a, b, c>>) = 3
        /\ Len(<<a>>) = 1 /\ Len(<<i, r>>) = 2
    OBVIOUS
  <2>5. <<a>> \notin below /\ <<a, b>> \notin below /\ <<a, b, c>> \notin below
    BY <1>8, <2>1, <2>4, Shallow
  <2>6. /\ p # <<i, r>> /\ <<a>> # <<i, r>>
        /\ <<a, b>> # <<i, r>> /\ <<a, b, c>> # <<i, r>>
    <3>1. <<a, b>>[1] = a /\ <<a, b>>[2] = b /\ <<i, r>>[1] = i /\ <<i, r>>[2] = r
      OBVIOUS
    <3> QED BY <2>1, <2>2, <2>4, <3>1
  <2>7. /\ rec'[p] = rec[p] /\ rec'[<<a>>] = rec[<<a>>]
        /\ rec'[<<a, b>>] = rec[<<a, b>>] /\ rec'[<<a, b, c>>] = rec[<<a, b, c>>]
    BY <1>14, <2>2, <2>3, <2>5, <2>6
  <2> QED BY <2>3, <2>7 DEF a, b, c
<1>20. Paths'
  <2>1. ASSUME NEW p \in TestRecs'
        PROVE  /\ p = <<p[1], p[2], p[3], p[4]>>
               /\ p[1] \in 1 .. NumRepls /\ p[2] \in RunIds
               /\ p[3] \in 1 .. Runs[p[2]].num_repetitions /\ p[4] \in Type
               /\ <<p[1]>> \in DOMAIN rec' /\ <<p[1], p[2]>> \in DOMAIN rec'
               /\ <<p[1], p[2], p[3]>> \in DOMAIN rec'
    <3>1. CASE p \in TestRecs
      BY <1>14, <3>1 DEF EInv, Paths
    <3>2. CASE p \in below
      <4>1. PICK k \in 1 .. n, type \in Type : p = <<i, r, k, type>>
        <5>1. Len(p) = 4
          BY DEF TestRecs
        <5> QED BY <1>9, <3>2, <5>1
      <4>2. p[1] = i /\ p[2] = r /\ p[3] = k /\ p[4] = type
        BY <4>1
      <4>3. /\ <<i>> \in DOMAIN rec' /\ <<i, r>> \in DOMAIN rec'
            /\ <<i, r, k>> \in DOMAIN rec'
        BY <1>3, <1>6, <1>14
      <4> QED BY <1>2, <4>1, <4>2, <4>3 DEF n
    <3> QED BY <1>17, <3>1, <3>2
  <2> QED BY <1>13, <2>1 DEF Paths
<1>21. \A p \in TestRecs' : rec'[p].committed =>
         p \in TestRecs /\ rec[p].committed /\ rec'[p] = rec[p]
  BY <1>15, <1>17, <1>19, ZeroLooks
<1>22. NumbersKept'
  BY <1>19, <1>21 DEF EInv, NumbersKept
<1>23. InOrder'
  <2>1. \A p \in TestRecs : rec[p].committed => Succeed(rec[p].time)
    BY DEF EInv, InOrder
  <2> QED BY <1>21, <2>1 DEF InOrder, Succeed
<1>24. Recorded'
  <2>1. ended \subseteq TestRecs
    BY DEF EInv, Recorded
  <2>2. \A p \in TestRecs' : rec'[p].committed <=> p \in ended
    <3>1. \A p \in TestRecs : rec[p].committed <=> p \in ended
      BY <1>13 DEF EInv, Recorded, Current
    <3>2. \A p \in below : rec'[p].committed = FALSE
      BY <1>15, ZeroLooks
    <3> QED BY <1>17, <1>19, <2>1, <3>1, <3>2
  <2> QED BY <1>1, <1>13, <1>18, <2>1, <2>2 DEF Recorded, Current
<1>25. Fresh'
  <2>1. \A p \in TestRecs' : p[1] = i /\ p[2] = r => rec'[p] = Zero
    BY <1>11, <1>15, <1>17
  <2> QED BY <1>10, <2>1, ZeroLooks DEF Fresh, ToCome
<1>26. Numbered'
  <2>1. rec'[<<i>>] = rec[<<i>>]
    <3>1. <<i>> # <<i, r>>
      OBVIOUS
    <3> QED BY <1>3, <1>12, <1>14, <3>1
  <2> QED BY <1>3, <1>10, <1>13, <1>15, <2>1 DEF Numbered
<1>27. TypesLeft' /\ Timed' /\ Exported'
  BY <1>13 DEF TypesLeft, Timed, Exported
<1> QED BY <1>16, <1>20, <1>22, <1>23, <1>24, <1>25, <1>26, <1>27 DEF EInv

LEMMA ReadsOrNot == \A r \in RunIds : Runs[r].read \in BOOLEAN
<1> DEFINE S == [num_repetitions : Nat \ {0}, read : BOOLEAN, file_keep : BOOLEAN]
<1>1. \A s \in S : s.read \in BOOLEAN
  OBVIOUS
<1>2. Runs \in Seq(S)
  BY TrecAssumption
<1> HIDE DEF S
<1>3. \A r \in RunIds : Runs[r] \in S
  BY <1>2 DEF RunIds
<1> QED BY <1>1, <1>3

LEMMA ReptStartEnds ==
  ASSUME IInv, EInv, ReptStart
  PROVE  EInv'
<1> DEFINE i == at[1]
           r == at[2]
           k == at[3] + 1
           p == <<i, r, k>>
<1>1. /\ pc = "repts" /\ pc' = "tests" /\ at' = [at EXCEPT ![3] = k]
      /\ last' = 0 /\ ended' = ended /\ clock' = clock + 3
      /\ types' = IF Runs[r].read THEN <<"write", "read">> ELSE <<"write">>
      /\ at[3] < Runs[r].num_repetitions
  BY DEF ReptStart, Call
<1>2. /\ at = <<i, r, at[3]>>
      /\ i \in 1 .. NumRepls /\ i \in Nat /\ r \in Nat /\ r \in RunIds
      /\ at[3] \in Nat
  BY <1>1, AtRun DEF IInv, InRun
<1>3. k \in 1 .. Runs[r].num_repetitions /\ k \in Nat /\ k > at[3]
  BY <1>1, <1>2, Typed
<1>4. at' = p
  BY <1>1, <1>2
<1>5. /\ st.trec_repl = <<i>> /\ st.trec_run = <<i, r>>
      /\ rec[<<i, r>>].num = Runs[r].num_repetitions
      /\ p \in DOMAIN rec /\ <<i, r, k, "write">> \in DOMAIN rec
      /\ rec[<<i>>].id = i /\ rec[<<i, r>>].id = r
      /\ <<i>> \in DOMAIN rec /\ <<i, r>> \in DOMAIN rec
  BY <1>1, <1>2, <1>3
  DEF IInv, Pointers, Records, InRepl, InRun, EInv, Numbered, Type
<1>6. Append(<<i, r>>, k) = p /\ <<i, r>> # NULL
  <2>1. "read" \in Type /\ i \in Nat /\ r \in Nat /\ k \in Nat
    BY <1>2, <1>3 DEF Type
  <2> HIDE DEF i, r, k
  <2>2. Append(<<i, r>>, k) = p
    BY <2>1, Appended
  <2>3. <<i, r>> # NULL
    BY <2>1, NotNull
  <2> QED BY <2>2, <2>3
<1>7. rec' = Started(p, k, 0, {})
  <2>1. st.trec_run # NULL /\ k <= rec[st.trec_run].num
    BY <1>3, <1>5, <1>6
  <2> QED BY <1>5, <1>6, <2>1 DEF ReptStart, trec_run_rept_start
<1>8. p[1] = i /\ p[2] = r /\ p[3] = k /\ Len(p) = 3
  OBVIOUS
<1>9. p # <<i>> /\ p # <<i, r>> /\ (\A a : <<a>> # p) /\ (\A a, b : <<a, b>> # p)
  <2>1. Len(p) >= 3
    BY <1>8
  <2> HIDE DEF i, r, p
  <2> QED BY <2>1, Shallow
<1>10. /\ pc \in InRun /\ pc \notin InTests /\ pc' \in InRun /\ pc' \in InTests
       /\ pc' # "exp" /\ Records /\ Shapes
  BY <1>1 DEF InRun, InTests, IInv, EInv
<1>11. <<i, r, k, "write">>[1] = i /\ <<i, r, k, "write">>[2] = r
       /\ <<i, r, k, "write">>[3] = k /\ Len(<<i, r, k, "write">>) = 4
  OBVIOUS
<1>12. at[1] = i /\ at[2] = r
  OBVIOUS
<1> HIDE DEF i, r, k, p
<1>13. /\ DOMAIN rec' = DOMAIN rec
       /\ \A q \in DOMAIN rec' : "num" \in DOMAIN rec'[q]
       /\ \A q \in DOMAIN rec : q # p => rec'[q] = rec[q]
  <2>1. p \in DOMAIN rec /\ Records
    BY <1>5, <1>10
  <2> QED BY <1>7, <2>1, StartedIs
<1>14. rec'[p].id = k
  BY <1>5, <1>7, StartedLooks DEF IInv, EInv
<1>15. Shapes'
  BY <1>1, <1>5, <1>7, <1>10, StartedShapes
<1>16. TestRecs' = TestRecs /\ \A q \in TestRecs : rec'[q] = rec[q]
  <2>1. \A q \in TestRecs : q # p
    BY <1>8, LongRecs
  <2>2. \A q \in TestRecs : rec'[q] = rec[q]
    BY <1>13, <2>1, LongRecs
  <2> QED BY <1>13, <2>2 DEF TestRecs
<1>17. Paths'
  BY <1>10, <1>13, <1>16 DEF EInv, Paths
<1>18. NumbersKept'
  <2> SUFFICES ASSUME NEW q \in TestRecs, rec'[q].committed
               PROVE  /\ rec'[<<q[1]>>].id = q[1] /\ rec'[<<q[1]>>].num = Len(Runs)
                      /\ rec'[<<q[1], q[2]>>].id = q[2]
                      /\ rec'[<<q[1], q[2]>>].num = Runs[q[2]].num_repetitions
                      /\ rec'[<<q[1], q[2], q[3]>>].id = q[3]
    BY <1>16 DEF NumbersKept
  <2> DEFINE a == q[1]
             b == q[2]
             c == q[3]
  <2>1. rec[q].committed
    BY <1>16
  <2>2. /\ <<a>> \in DOMAIN rec /\ <<a, b>> \in DOMAIN rec
        /\ <<a, b, c>> \in DOMAIN rec
    BY DEF EInv, Paths
  <2>3. /\ rec[<<a>>].id = a /\ rec[<<a>>].num = Len(Runs)
        /\ rec[<<a, b>>].id = b
        /\ rec[<<a, b>>].num = Runs[b].num_repetitions
        /\ rec[<<a, b, c>>].id = c
    BY <2>1 DEF EInv, NumbersKept
  <2> HIDE DEF a, b, c
  <2>4. rec'[<<a>>] = rec[<<a>>] /\ rec'[<<a, b>>] = rec[<<a, b>>]
    BY <1>9, <1>13, <2>2
  <2>5. rec'[<<a, b, c>>].id = c
    <3>1. CASE <<a, b, c>> = p
      <4>1. c = k
        BY <3>1 DEF p
      <4> QED BY <1>14, <3>1, <4>1
    <3>2. CASE <<a, b, c>> # p
      BY <1>13, <2>2, <2>3, <3>2
    <3> QED BY <3>1, <3>2
  <2> QED BY <2>3, <2>4, <2>5 DEF a, b, c
<1>19. InOrder'
  <2>1. \A q \in TestRecs : rec[q].committed => Succeed(rec[q].time)
    BY DEF EInv, InOrder
  <2> QED BY <1>16, <2>1 DEF InOrder, Succeed
<1>20. \A q \in TestRecs : q[1] = i /\ q[2] = r /\ q[3] \in Nat /\ q[3] >= k =>
         rec[q].time = NoTimes /\ ~rec[q].committed /\ q \notin ended
  <2>1. \A q \in TestRecs : q[1] = i /\ q[2] = r /\ q[3] \in Nat /\ q[3] >= k =>
          rec[q].time = NoTimes /\ ~rec[q].committed
    <3>1. \A c \in Nat : c >= k => c > at[3]
      BY <1>2, <1>3
    <3> QED BY <1>10, <1>12, <3>1 DEF EInv, Fresh, ToCome
  <2> QED BY <1>10, <2>1 DEF EInv, Recorded, Current
<1>21. \A q \in TestRecs : q[3] \in Nat
  <2>1. \A q \in TestRecs : q[3] \in 1 .. Runs[q[2]].num_repetitions
    BY DEF EInv, Paths
  <2> QED BY <2>1
<1>22. Executed' = {}
  <2>1. at'[2] = r
    BY <1>4, <1>8
  <2>2. CASE Runs[r].read
    <3>1. types' = <<"write", "read">>
      BY <1>1, <2>2
    <3>2. types'[1] = "write" /\ types'[2] = "read" /\ DOMAIN types' = 1 .. 2
      BY <3>1
    <3> QED BY <2>1, <2>2, <3>2 DEF Executed, Type
  <2>3. CASE ~Runs[r].read
    <3>1. types' = <<"write">>
      BY <1>1, <2>3
    <3>2. types'[1] = "write" /\ DOMAIN types' = 1 .. 1
      BY <3>1
    <3> QED BY <2>1, <2>3, <3>2 DEF Executed
  <2> QED BY <2>2, <2>3
<1>23. Recorded'
  <2>1. \A q \in TestRecs : Current(q)' => q \notin ended /\ ~rec[q].committed
    <3>1. \A q \in TestRecs : Current(q)' => q[1] = i /\ q[2] = r /\ q[3] = k
      BY <1>4, <1>8 DEF Current
    <3>2. k >= k
      BY <1>3
    <3> QED BY <1>3, <1>20, <3>1, <3>2
  <2>2. \A q \in TestRecs : rec[q].committed <=> q \in ended
    BY <1>10 DEF EInv, Recorded, Current
  <2>3. ended' \subseteq TestRecs'
    BY <1>1, <1>16 DEF EInv, Recorded
  <2> QED BY <1>1, <1>16, <1>22, <2>1, <2>2, <2>3 DEF Recorded
<1>24. Fresh'
  <2>1. ASSUME NEW q \in TestRecs, ToCome(q)'
        PROVE  rec[q].time = NoTimes /\ ~rec[q].committed
    <3>1. q[1] = i /\ q[2] = r /\ (q[3] > k \/ q[3] = k)
      BY <1>4, <1>8, <2>1 DEF ToCome
    <3>2. q[3] >= k
      BY <1>3, <1>21, <3>1
    <3> QED BY <1>20, <1>21, <3>1, <3>2
  <2> QED BY <1>16, <2>1 DEF Fresh
<1>25. TypesLeft'
  BY <1>1, <1>4, <1>8 DEF TypesLeft
<1>26. Timed'
  <2> DEFINE w == <<i, r, k, "write">>
  <2>1. Head(types') = "write"
    BY <1>1
  <2>2. rec'[w].time = NoTimes
    <3>1. w \in TestRecs
      BY <1>5, <1>11 DEF TestRecs
    <3>2. k >= k
      BY <1>3
    <3> QED BY <1>3, <1>11, <1>16, <1>20, <3>1, <3>2
  <2> HIDE DEF w
  <2>3. <<at'[1], at'[2], at'[3], Head(types')>> = w
    BY <1>4, <1>8, <2>1 DEF w
  <2>4. \A a \in 1 .. 4 : NoTimes[a] = <<0, 0>>
    BY DEF NoTimes
  <2>5. 1 .. last' = {} /\ last' = 0 /\ pc' # "action"
    BY <1>1
  <2> QED BY <2>2, <2>3, <2>4, <2>5 DEF Timed, Upto, NoneAfter
<1>27. Numbered'
  BY <1>4, <1>5, <1>8, <1>9, <1>13, <1>14 DEF Numbered
<1>28. Exported'
  BY <1>1 DEF Exported
<1> QED
  BY <1>15, <1>17, <1>18, <1>19, <1>23, <1>24, <1>25, <1>26, <1>27, <1>28 DEF EInv

-------------------------------------------------------------------------------
(* Steps of a test, and its records.                                       *)

LEMMA PairSet ==
  ASSUME NEW t \in Nat \X Nat, NEW c \in Nat
  PROVE  [t EXCEPT ![1] = c] = <<c, t[2]>> /\ [t EXCEPT ![2] = c] = <<t[1], c>>
OBVIOUS

LEMMA ExecutedIs ==
  ASSUME IInv, EInv, pc \in InTests
  PROVE  /\ Runs[at[2]].read =>
              /\ types = <<"write", "read">> => Executed = {}
              /\ types = <<"read">> => Executed = {"write"}
              /\ types = <<>> => Executed = Type
         /\ ~Runs[at[2]].read =>
              /\ types = <<"write">> => Executed = {}
              /\ types = <<>> => Executed = {"write"}
<1>1. ASSUME types = <<"write", "read">>
      PROVE  {types[j] : j \in DOMAIN types} = Type
  <2>1. types[1] = "write" /\ types[2] = "read" /\ DOMAIN types = 1 .. 2
    BY <1>1
  <2> QED BY <2>1 DEF Type
<1>2. ASSUME NEW e, types = <<e>>
      PROVE  {types[j] : j \in DOMAIN types} = {e}
  <2>1. types[1] = e /\ DOMAIN types = 1 .. 1
    BY <1>2
  <2> QED BY <2>1
<1>3. ASSUME types = <<>>
      PROVE  {types[j] : j \in DOMAIN types} = {}
  <2>1. DOMAIN types = {}
    BY <1>3
  <2> QED BY <2>1
<1> QED BY <1>1, <1>2, <1>3 DEF Executed, Type

\* The record of the test executed.
LEMMA TestRecAt ==
  ASSUME IInv, EInv, pc \in {"tests", "action"}, types # <<>>
  PROVE  LET p == <<at[1], at[2], at[3], Head(types)>> IN
         /\ p \in TestRecs /\ p \in DOMAIN rec /\ Current(p)
         /\ p[1] = at[1] /\ p[2] = at[2] /\ p[3] = at[3] /\ p[4] = Head(types)
         /\ ~rec[p].committed /\ p \notin ended
         /\ DOMAIN rec[p] = Fields /\ rec[p].committed \in BOOLEAN
         /\ rec[p].time \in [1 .. 4 -> Nat \X Nat]
<1> DEFINE p == <<at[1], at[2], at[3], Head(types)>>
<1>1. p \in DOMAIN rec
  BY TestAt
<1>2. p[1] = at[1] /\ p[2] = at[2] /\ p[3] = at[3] /\ p[4] = Head(types) /\ Len(p) = 4
  OBVIOUS
<1>3. pc \in InTests
  BY DEF InTests
<1>4. Head(types) \notin Executed
  <2>1. Head(types) = types[1] /\ 1 \in DOMAIN types
    BY DEF IInv, Places
  <2> QED BY <2>1 DEF Executed
<1> HIDE DEF p
<1>5. p \in TestRecs /\ Current(p)
  BY <1>1, <1>2, <1>3 DEF TestRecs, Current
<1>6. ~rec[p].committed /\ p \notin ended
  BY <1>2, <1>4, <1>5 DEF EInv, Recorded
<1>7. /\ DOMAIN rec[p] = Fields /\ rec[p].committed \in BOOLEAN
      /\ rec[p].time \in [1 .. 4 -> Nat \X Nat]
  BY <1>1 DEF EInv, Shapes
<1> QED BY <1>1, <1>2, <1>5, <1>6, <1>7 DEF p

\* The records above a test, when only its own changes.
LEMMA TestKeeps ==
  ASSUME IInv, EInv, pc \in {"tests", "action"}, pc' \in {"tests", "action"},
         at' = at, clock' = clock + 3, DOMAIN rec' = DOMAIN rec,
         NEW p \in TestRecs, Current(p),
         \A q \in DOMAIN rec : q # p => rec'[q] = rec[q],
         DOMAIN rec'[p] = Fields, rec'[p].committed \in BOOLEAN,
         rec'[p].time \in [1 .. 4 -> Nat \X Nat]
  PROVE  Paths' /\ Shapes' /\ Numbered' /\ NumbersKept' /\ TestRecs' = TestRecs
<1>1. TestRecs' = TestRecs
  BY DEF TestRecs
<1>2. Paths'
  BY <1>1 DEF EInv, Paths
<1>3. Shapes'
  BY DEF EInv, Shapes
<1>4. Len(p) = 4 /\ p \in DOMAIN rec
  BY DEF TestRecs
<1>5. (\A a : <<a>> # p) /\ (\A a, b : <<a, b>> # p) /\ (\A a, b, c : <<a, b, c>> # p)
  <2>1. (\A a : Len(<<a>>) = 1) /\ (\A a, b : Len(<<a, b>>) = 2)
        /\ (\A a, b, c : Len(<<a, b, c>>) = 3)
    OBVIOUS
  <2>2. \A s : Len(s) \in {1, 2, 3} => s # p
    BY <1>4
  <2> QED BY <2>1, <2>2
<1>6. /\ pc \in InTests /\ pc \in InRun /\ pc \in InRepl
      /\ pc' \in InTests /\ pc' \in InRun /\ pc' \in InRepl
  BY DEF InRepl, InRun, InTests
<1>7. /\ at = <<at[1], at[2], at[3]>> /\ at[2] \in RunIds /\ at[1] \in 1 .. NumRepls
      /\ at[3] \in 1 .. Runs[at[2]].num_repetitions
  BY <1>6, AtRun DEF IInv
<1>8. /\ <<at[1]>> \in DOMAIN rec /\ <<at[1], at[2]>> \in DOMAIN rec
      /\ at \in DOMAIN rec
      /\ rec[<<at[1]>>].num = Len(Runs)
      /\ rec[<<at[1], at[2]>>].num = Runs[at[2]].num_repetitions
  BY <1>6, <1>7 DEF IInv, Records, InRepl
<1>9. /\ rec[<<at[1]>>].id = at[1] /\ rec[<<at[1], at[2]>>].id = at[2]
      /\ rec[at].id = at[3]
  BY <1>6 DEF EInv, Numbered
<1>10. at # p
  BY <1>5, <1>7
<1>11. Numbered'
  BY <1>5, <1>8, <1>9, <1>10 DEF Numbered
<1>12. NumbersKept'
  <2> SUFFICES ASSUME NEW q \in TestRecs, rec'[q].committed
               PROVE  /\ rec'[<<q[1]>>].id = q[1] /\ rec'[<<q[1]>>].num = Len(Runs)
                      /\ rec'[<<q[1], q[2]>>].id = q[2]
                      /\ rec'[<<q[1], q[2]>>].num = Runs[q[2]].num_repetitions
                      /\ rec'[<<q[1], q[2], q[3]>>].id = q[3]
    BY <1>1 DEF NumbersKept
  <2>1. /\ <<q[1]>> \in DOMAIN rec /\ <<q[1], q[2]>> \in DOMAIN rec
        /\ <<q[1], q[2], q[3]>> \in DOMAIN rec
    BY DEF EInv, Paths
  <2>2. /\ rec'[<<q[1]>>] = rec[<<q[1]>>]
        /\ rec'[<<q[1], q[2]>>] = rec[<<q[1], q[2]>>]
        /\ rec'[<<q[1], q[2], q[3]>>] = rec[<<q[1], q[2], q[3]>>]
    BY <1>5, <2>1
  <2>3. CASE q = p
    <3>1. q[1] = at[1] /\ q[2] = at[2] /\ q[3] = at[3]
      BY <2>3 DEF Current
    <3>2. at = <<q[1], q[2], q[3]>>
      BY <1>7, <3>1
    <3>3. /\ rec[<<q[1]>>].num = Len(Runs) /\ rec[<<q[1]>>].id = q[1]
          /\ rec[<<q[1], q[2]>>].num = Runs[q[2]].num_repetitions
          /\ rec[<<q[1], q[2]>>].id = q[2]
      BY <1>8, <1>9, <3>1
    <3>4. rec[<<q[1], q[2], q[3]>>].id = q[3]
      BY <1>9, <3>1, <3>2
    <3> QED BY <2>2, <3>3, <3>4
  <2>4. CASE q # p
    <3>1. q \in DOMAIN rec
      BY DEF TestRecs
    <3>2. rec[q].committed
      BY <2>4, <3>1
    <3> QED BY <2>2, <3>2 DEF EInv, NumbersKept
  <2> QED BY <2>3, <2>4
<1> QED BY <1>1, <1>2, <1>3, <1>11, <1>12

\* An action that begins or ends changes the times of the test that is executed.
LEMMA ActionKeeps ==
  ASSUME IInv, EInv, pc \in {"tests", "action"}, pc' \in {"tests", "action"},
         at' = at, clock' = clock + 3, types' = types, types # <<>>, ended' = ended,
         DOMAIN rec' = DOMAIN rec,
         NEW p, p = <<at[1], at[2], at[3], Head(types)>>,
         \A q \in DOMAIN rec : q # p => rec'[q] = rec[q],
         DOMAIN rec'[p] = DOMAIN rec[p], rec'[p].committed = rec[p].committed,
         rec'[p].time \in [1 .. 4 -> Nat \X Nat],
         Timed'
  PROVE  EInv'
<1>1. /\ p \in TestRecs /\ p \in DOMAIN rec /\ Current(p)
      /\ p[1] = at[1] /\ p[2] = at[2] /\ p[3] = at[3] /\ p[4] = Head(types)
      /\ ~rec[p].committed /\ p \notin ended
      /\ DOMAIN rec[p] = Fields /\ rec[p].committed \in BOOLEAN
  BY TestRecAt
<1>2. Paths' /\ Shapes' /\ Numbered' /\ NumbersKept' /\ TestRecs' = TestRecs
  BY <1>1, TestKeeps
<1>3. pc \in InTests /\ pc' \in InTests /\ pc \in InRun /\ pc' # "done"
  BY DEF InTests, InRun
<1>4. \A q \in TestRecs : rec'[q].committed = rec[q].committed
                          /\ (q # p => rec'[q] = rec[q])
  BY <1>1, LongRecs
<1>5. Executed' = Executed
  BY DEF Executed
<1>6. Recorded'
  BY <1>2, <1>3, <1>4, <1>5 DEF EInv, Recorded, Current
<1>7. InOrder'
  <2>1. \A q \in TestRecs : rec[q].committed => Succeed(rec[q].time)
    BY DEF EInv, InOrder
  <2>2. \A q \in TestRecs : rec'[q].committed => rec[q].committed /\ rec'[q] = rec[q]
    BY <1>1, <1>4
  <2> QED BY <1>2, <2>1, <2>2 DEF InOrder, Succeed
<1>8. Fresh'
  <2>1. ASSUME NEW q \in TestRecs, ToCome(q)'
        PROVE  q # p /\ ToCome(q)
    <3>1. ToCome(q)
      BY <2>1 DEF ToCome
    <3>2. CASE q[3] > at[3]
      <4>1. at[3] \in Nat
        BY <1>3, AtRun DEF IInv
      <4> QED BY <1>1, <3>1, <3>2, <4>1
    <3>3. CASE q[3] = at[3] /\ types = <<"write", q[4]>>
      <4>1. types = <<"write", "read">>
        <5>1. Len(<<"write", q[4]>>) = 2 /\ Len(<<"read">>) = 1
              /\ Len(<<"write">>) = 1 /\ Len(<<>>) = 0
          OBVIOUS
        <5> QED BY <1>3, <3>3, <5>1 DEF EInv, TypesLeft
      <4>2. q[4] = "read" /\ Head(types) = "write"
        BY <3>3, <4>1
      <4> QED BY <1>1, <3>1, <4>2
    <3> QED BY <3>1, <3>2, <3>3 DEF ToCome
  <2>2. \A q \in TestRecs : ToCome(q) => rec[q].time = NoTimes /\ ~rec[q].committed
    BY <1>3 DEF EInv, Fresh
  <2> QED BY <1>2, <1>4, <2>1, <2>2 DEF Fresh
<1>9. TypesLeft' /\ Exported'
  BY <1>3 DEF EInv, TypesLeft, Exported
<1> QED BY <1>2, <1>6, <1>7, <1>8, <1>9 DEF EInv

LEMMA TestStartEnds ==
  ASSUME IInv, EInv, TestStart
  PROVE  EInv'
<1> DEFINE p == <<at[1], at[2], at[3], Head(types)>>
           time == rec[p].time
           n == last + 1
<1>1. /\ pc = "tests" /\ pc' = "action" /\ at' = at /\ ended' = ended
      /\ types' = types /\ types # <<>> /\ last' = n /\ last < LastAction
      /\ clock' = clock + 3
  BY DEF TestStart, Call
<1>2. /\ Append(at, Head(types)) = p /\ at # NULL /\ st.trec_rept = at
  BY <1>1, TestAt
<1>3. /\ st' = [st EXCEPT !.trec_test = p, !.test_action = n]
      /\ rec' = [rec EXCEPT ![p].time[n][1] = clock]
  BY <1>2 DEF TestStart, trec_test_start
<1>4. n \in 1 .. 4 /\ last \in 0 .. 3
  <2>1. LastAction \in {3, 4} /\ last \in 0 .. 4
    BY DEF LastAction, Close, Remove, IInv, Places
  <2> QED BY <1>1, <2>1
<1>5. p \in DOMAIN rec /\ DOMAIN rec[p] = Fields /\ time \in [1 .. 4 -> Nat \X Nat]
  BY <1>1, TestRecAt
<1>6. /\ Upto(time, last, clock) /\ NoneAfter(time, last)
  BY <1>1 DEF EInv, Timed
<1>7. clock \in Nat \ {0}
  BY DEF EInv, Shapes
<1>8. <<at'[1], at'[2], at'[3], Head(types')>> = p
  BY <1>1
<1>9. "test_action" \in DOMAIN st
  BY DEF IInv, Pointers
<1> HIDE DEF p, n
<1>10. /\ DOMAIN rec' = DOMAIN rec
       /\ \A q \in DOMAIN rec : q # p => rec'[q] = rec[q]
       /\ DOMAIN rec'[p] = DOMAIN rec[p] /\ rec'[p].committed = rec[p].committed
       /\ rec'[p].time = [time EXCEPT ![n][1] = clock]
  BY <1>3, <1>5 DEF Fields
<1> DEFINE after == rec'[p].time
<1> HIDE DEF time
<1>11. /\ after[n] = <<clock, time[n][2]>>
       /\ \A a \in 1 .. 4 : a # n => after[a] = time[a]
  <2>1. time[n] \in Nat \X Nat
    BY <1>4, <1>5
  <2>2. after[n] = [time[n] EXCEPT ![1] = clock]
    BY <1>4, <1>5, <1>10
  <2> QED BY <1>4, <1>5, <1>7, <1>10, <2>1, <2>2, PairSet
<1>12. after \in [1 .. 4 -> Nat \X Nat]
  <2>1. <<clock, time[n][2]>> \in Nat \X Nat
    BY <1>4, <1>5, <1>7
  <2> QED BY <1>4, <1>5, <1>10, <1>11, <2>1
<1> HIDE DEF after
<1>13. /\ after[n][1] = clock
       /\ \A a \in 1 .. 4 : time[a][1] \in Nat /\ time[a][2] \in Nat
  BY <1>5, <1>11
<1>14. Upto(after, last, clock')
  <2> SUFFICES ASSUME NEW a \in 1 .. last
               PROVE  /\ 0 < after[a][1] /\ after[a][1] < after[a][2]
                      /\ after[a][2] < clock'
                      /\ a > 1 => after[a - 1][2] < after[a][1]
    BY DEF Upto
  <2>1. a \in 1 .. 4 /\ a # n /\ (a > 1 => a - 1 \in 1 .. 4 /\ a - 1 # n)
    BY <1>4 DEF n
  <2>2. after[a] = time[a] /\ (a > 1 => after[a - 1] = time[a - 1])
    BY <1>11, <2>1
  <2>3. /\ 0 < time[a][1] /\ time[a][1] < time[a][2] /\ time[a][2] < clock
        /\ a > 1 => time[a - 1][2] < time[a][1]
    BY <1>6 DEF Upto
  <2> QED BY <1>1, <1>7, <1>13, <2>1, <2>2, <2>3
<1>15. NoneAfter(after, n)
  <2>1. \A a \in 1 .. 4 : a > n => a # n /\ a > last
    BY <1>4 DEF n
  <2> QED BY <1>6, <1>11, <2>1 DEF NoneAfter
<1>16. n > 1 => after[n - 1][2] < after[n][1]
  <2> SUFFICES ASSUME n > 1 PROVE after[last][2] < clock
    BY <1>4, <1>13 DEF n
  <2>1. last \in 1 .. last /\ last \in 1 .. 4 /\ last # n
    BY <1>4 DEF n
  <2> QED BY <1>6, <1>11, <2>1 DEF Upto
<1>17. Timed'
  <2>1. after[n][1] < clock' /\ 0 < after[n][1]
    BY <1>1, <1>7, <1>13
  <2>2. st'.test_action = n
    BY <1>3, <1>9
  <2>3. n - 1 = last
    BY <1>4 DEF n
  <2>4. Upto(after, last' - 1, clock') /\ NoneAfter(after, last')
    BY <1>1, <1>14, <1>15, <2>3
  <2>5. last' = n /\ pc' = "action"
    BY <1>1
  <2> HIDE DEF Upto, NoneAfter
  <2> QED BY <1>8, <1>16, <2>1, <2>2, <2>4, <2>5 DEF Timed, after
<1> QED BY <1>1, <1>10, <1>12, <1>17, ActionKeeps DEF p, after

LEMMA TestStopEnds ==
  ASSUME IInv, EInv, TestStop
  PROVE  EInv'
<1> DEFINE p == <<at[1], at[2], at[3], Head(types)>>
           time == rec[p].time
<1>1. /\ pc = "action" /\ pc' = "tests" /\ at' = at /\ ended' = ended
      /\ types' = types /\ types # <<>> /\ last' = last
      /\ clock' = clock + 3
  BY DEF TestStop, Call, progVars, IInv, Places
<1>2. p # NULL /\ st.trec_test = p
  BY <1>1, TestAt
<1>3. last \in 1 .. 4 /\ last # NoAction
  <2>1. last \in 0 .. 4 /\ last # 0
    BY <1>1 DEF IInv, Places
  <2> QED BY <2>1 DEF NoAction
<1>4. /\ Upto(time, last - 1, clock) /\ NoneAfter(time, last)
      /\ 0 < time[last][1] /\ time[last][1] < clock
      /\ last > 1 => time[last - 1][2] < time[last][1]
      /\ st.test_action = last
  BY <1>1 DEF EInv, Timed
<1>5. p \in DOMAIN rec /\ DOMAIN rec[p] = Fields /\ time \in [1 .. 4 -> Nat \X Nat]
  BY <1>1, TestRecAt
<1>6. clock \in Nat \ {0}
  BY DEF EInv, Shapes
<1>7. <<at'[1], at'[2], at'[3], Head(types')>> = p
  BY <1>1
<1> DEFINE size == IF last = WriteRead THEN OwnSize ELSE rec[p].size
<1>8. /\ st' = [st EXCEPT !.test_action = NoAction]
      /\ rec' = [rec EXCEPT ![p].time[last][2] = clock, ![p].size = size]
  BY <1>2, <1>3, <1>4 DEF TestStop, trec_test_stop
<1>9. "test_action" \in DOMAIN st
  BY DEF IInv, Pointers
<1> HIDE DEF p, size
<1>10. /\ DOMAIN rec' = DOMAIN rec
       /\ \A q \in DOMAIN rec : q # p => rec'[q] = rec[q]
       /\ DOMAIN rec'[p] = DOMAIN rec[p] /\ rec'[p].committed = rec[p].committed
       /\ rec'[p].time = [time EXCEPT ![last][2] = clock]
  BY <1>5, <1>8 DEF Fields
<1> DEFINE after == rec'[p].time
<1> HIDE DEF time
<1>11. after[last] = <<time[last][1], clock>>
       /\ \A a \in 1 .. 4 : a # last => after[a] = time[a]
  <2>1. time[last] \in Nat \X Nat
    BY <1>3, <1>5
  <2>2. after[last] = [time[last] EXCEPT ![2] = clock]
    BY <1>3, <1>5, <1>10
  <2> QED BY <1>3, <1>5, <1>6, <1>10, <2>1, <2>2, PairSet
<1>12. after \in [1 .. 4 -> Nat \X Nat]
  <2>1. <<time[last][1], clock>> \in Nat \X Nat
    BY <1>3, <1>5, <1>6
  <2> QED BY <1>3, <1>5, <1>10, <1>11, <2>1
<1> HIDE DEF after
<1>13. /\ after[last][1] = time[last][1] /\ after[last][2] = clock
       /\ \A a \in 1 .. 4 : time[a][1] \in Nat /\ time[a][2] \in Nat
  BY <1>5, <1>11
<1>14. Upto(after, last, clock')
  <2> SUFFICES ASSUME NEW a \in 1 .. last
               PROVE  /\ 0 < after[a][1] /\ after[a][1] < after[a][2]
                      /\ after[a][2] < clock'
                      /\ a > 1 => after[a - 1][2] < after[a][1]
    BY DEF Upto
  <2>1. CASE a = last
    <3>1. last > 1 => after[last - 1] = time[last - 1]
      BY <1>3, <1>11
    <3> QED BY <1>1, <1>4, <1>6, <1>13, <2>1, <3>1
  <2>2. CASE a # last
    <3>1. a \in 1 .. last - 1 /\ a \in 1 .. 4
          /\ (a > 1 => a - 1 \in 1 .. 4 /\ a - 1 # last)
      BY <1>3, <2>2
    <3>2. after[a] = time[a] /\ (a > 1 => after[a - 1] = time[a - 1])
      BY <1>11, <2>2, <3>1
    <3>3. /\ 0 < time[a][1] /\ time[a][1] < time[a][2] /\ time[a][2] < clock
          /\ a > 1 => time[a - 1][2] < time[a][1]
      BY <1>4, <3>1 DEF Upto
    <3> QED BY <1>1, <1>6, <1>13, <3>1, <3>2, <3>3
  <2> QED BY <2>1, <2>2
<1>15. NoneAfter(after, last)
  <2>1. \A a \in 1 .. 4 : a > last => a # last
    BY <1>3
  <2> QED BY <1>4, <1>11, <2>1 DEF NoneAfter
<1>16. Timed'
  <2>1. st'.test_action = NoAction
    BY <1>8, <1>9
  <2> QED BY <1>1, <1>7, <1>14, <1>15, <2>1 DEF Timed, after
<1> QED BY <1>1, <1>10, <1>12, <1>16, ActionKeeps DEF p, after

\* The times of a test that is taken to its end.
LEMMA UptoSucceed ==
  ASSUME NEW time \in [1 .. 4 -> Nat \X Nat], NEW n \in {3, 4},
         NEW now, Upto(time, n, now), NoneAfter(time, n)
  PROVE  Succeed(time)
<1> SUFFICES ASSUME NEW a \in 1 .. 3, time[a + 1][1] > 0
             PROVE  time[a][1] < time[a][2] /\ time[a][2] < time[a + 1][1]
  BY DEF Succeed
<1>1. CASE a + 1 \in 1 .. n
  <2>1. a \in 1 .. n /\ a + 1 > 1 /\ (a + 1) - 1 = a
    BY <1>1
  <2> QED BY <1>1, <2>1 DEF Upto
<1>2. CASE a + 1 \notin 1 .. n
  <2>1. a + 1 \in 1 .. 4 /\ a + 1 > n
    BY <1>2
  <2>2. time[a + 1] = <<0, 0>>
    BY <2>1 DEF NoneAfter
  <2>3. time[a + 1][1] = 0
    BY <2>2
  <2> QED BY <2>3
<1> QED BY <1>1, <1>2

LEMMA TailsAre ==
  /\ Tail(<<"write", "read">>) = <<"read">>
  /\ Tail(<<"read">>) = <<>> /\ Tail(<<"write">>) = <<>>
<1>1. Tail(<<"write", "read">>) = <<"read">>
  <2> DEFINE s == <<"write", "read">>
             t == <<"read">>
  <2>1. s \in Seq(Type) /\ t \in Seq(Type) /\ s # <<>> /\ Len(s) = 2 /\ Len(t) = 1
        /\ s[2] = "read" /\ t[1] = "read"
    BY DEF Type
  <2> HIDE DEF s, t
  <2>2. /\ Tail(s) \in Seq(Type) /\ Len(Tail(s)) = 1
        /\ \A i \in 1 .. 1 : Tail(s)[i] = s[i + 1]
    BY <2>1, HeadTailProperties
  <2> DEFINE u == Tail(s)
  <2>3. u[1] = t[1]
    BY <2>1, <2>2
  <2>4. u \in Seq(Type) /\ Len(u) = 1
    BY <2>2
  <2> HIDE DEF u
  <2>5. \A i \in 1 .. Len(u) : u[i] = t[i]
    BY <2>3, <2>4
  <2>6. u = t
    BY <2>1, <2>4, <2>5, SeqEqual
  <2> QED BY <2>6 DEF s, t, u
<1>2. ASSUME NEW e \in Type PROVE Tail(<<e>>) = <<>>
  <2> DEFINE s == <<e>>
  <2>1. s \in Seq(Type) /\ s # <<>> /\ Len(s) = 1
    OBVIOUS
  <2> HIDE DEF s
  <2>2. Tail(s) \in Seq(Type) /\ Len(Tail(s)) = 0
    BY <2>1, HeadTailProperties
  <2>3. Tail(s) = <<>>
    BY <2>2, EmptySeq
  <2> QED BY <2>3 DEF s
<1>3. "write" \in Type /\ "read" \in Type
  BY DEF Type
<1> QED BY <1>1, <1>2, <1>3

LEMMA CommitEnds ==
  ASSUME IInv, EInv, Commit
  PROVE  EInv'
<1> DEFINE p == <<at[1], at[2], at[3], Head(types)>>
<1>1. /\ pc = "tests" /\ pc' = "tests" /\ at' = at /\ ended' = ended
      /\ types' = Tail(types) /\ types # <<>> /\ last' = 0 /\ last = LastAction
      /\ clock' = clock + 3
  BY DEF Commit, Call
<1>2. last \in {3, 4}
  BY <1>1 DEF LastAction, Close, Remove
<1>3. p # NULL /\ st.trec_test = p
  <2>1. last # 0
    BY <1>2
  <2> QED BY <1>1, <2>1, TestAt
<1>4. /\ Upto(rec[p].time, last, clock) /\ NoneAfter(rec[p].time, last)
      /\ st.test_action = NoAction
  BY <1>1, <1>2 DEF EInv, Timed
<1>5. rec' = [rec EXCEPT ![p].committed = TRUE]
  BY <1>3, <1>4 DEF Commit, trec_test_commit
<1>6. /\ p \in TestRecs /\ p \in DOMAIN rec /\ Current(p)
      /\ p[1] = at[1] /\ p[2] = at[2] /\ p[3] = at[3] /\ p[4] = Head(types)
      /\ p \notin ended /\ DOMAIN rec[p] = Fields
      /\ rec[p].time \in [1 .. 4 -> Nat \X Nat]
  BY <1>1, TestRecAt
<1>7. pc \in InTests /\ pc' \in InTests /\ pc \in InRun
  BY <1>1 DEF InTests, InRun
<1>8. <<at'[1], at'[2], at'[3]>> = <<at[1], at[2], at[3]>>
  BY <1>1
<1> HIDE DEF p
<1>9. /\ DOMAIN rec' = DOMAIN rec
      /\ \A q \in DOMAIN rec : q # p => rec'[q] = rec[q]
      /\ DOMAIN rec'[p] = Fields /\ rec'[p].committed = TRUE
      /\ rec'[p].time = rec[p].time
  BY <1>5, <1>6 DEF Fields
<1>10. Paths' /\ Shapes' /\ Numbered' /\ NumbersKept' /\ TestRecs' = TestRecs
  BY <1>1, <1>6, <1>9, TestKeeps
<1>11. \A q \in TestRecs : q # p => rec'[q] = rec[q]
  BY <1>9, LongRecs
\* The tests left, and those executed, before and after.
<1>12. \/ /\ Runs[at[2]].read
          /\ \/ /\ types = <<"write", "read">> /\ types' = <<"read">>
                /\ Executed = {} /\ Executed' = {"write"}
             \/ /\ types = <<"read">> /\ types' = <<>>
                /\ Executed = {"write"} /\ Executed' = Type
       \/ /\ ~Runs[at[2]].read
          /\ types = <<"write">> /\ types' = <<>>
          /\ Executed = {} /\ Executed' = {"write"}
  <2>1. \/ Runs[at[2]].read /\ types = <<"write", "read">>
        \/ Runs[at[2]].read /\ types = <<"read">>
        \/ ~Runs[at[2]].read /\ types = <<"write">>
    BY <1>1, <1>7 DEF EInv, TypesLeft
  <2>2. /\ types = <<"write", "read">> => types' = <<"read">>
        /\ types = <<"read">> => types' = <<>>
        /\ types = <<"write">> => types' = <<>>
    BY <1>1, TailsAre
  <2>3. types' = <<"read">> => {types'[j] : j \in DOMAIN types'} = {"read"}
    <3>1. ASSUME types' = <<"read">>
          PROVE  types'[1] = "read" /\ DOMAIN types' = 1 .. 1
      BY <3>1
    <3> QED BY <3>1
  <2>4. types' = <<>> => {types'[j] : j \in DOMAIN types'} = {}
    <3>1. ASSUME types' = <<>> PROVE DOMAIN types' = {}
      BY <3>1
    <3> QED BY <3>1
  <2>5. Executed' = (IF Runs[at[2]].read THEN Type ELSE {"write"})
                      \ {types'[j] : j \in DOMAIN types'}
    BY <1>1 DEF Executed
  <2>6. /\ types' = <<"read">> /\ Runs[at[2]].read => Executed' = {"write"}
        /\ types' = <<>> /\ Runs[at[2]].read => Executed' = Type
        /\ types' = <<>> /\ ~Runs[at[2]].read => Executed' = {"write"}
    BY <2>3, <2>4, <2>5 DEF Type
  <2> QED BY <1>7, <2>1, <2>2, <2>6, ExecutedIs
<1>13. /\ \A e \in Type : e \in Executed' <=> e \in Executed \/ e = Head(types)
       /\ \/ types' = <<>>
          \/ types = <<"write", "read">> /\ types' = <<"read">>
  <2>1. /\ types = <<"write", "read">> => Head(types) = "write"
        /\ types = <<"read">> => Head(types) = "read"
        /\ types = <<"write">> => Head(types) = "write"
    OBVIOUS
  <2> QED BY <1>12, <2>1 DEF Type
<1>14. \A q \in TestRecs : Current(q) /\ q[4] = Head(types) => q = p
  BY DEF EInv, Paths, Current, p
<1>15. Recorded'
  <2>1. ASSUME NEW q \in TestRecs, Current(q)
        PROVE  q \notin ended /\ (rec'[q].committed <=> q[4] \in Executed')
    <3>1. q[4] \in Type
      BY DEF EInv, Paths
    <3>2. CASE q = p
      BY <1>6, <1>9, <1>13, <3>1, <3>2
    <3>3. CASE q # p
      BY <1>11, <1>13, <1>14, <2>1, <3>1, <3>3 DEF EInv, Recorded
    <3> QED BY <3>2, <3>3
  <2>2. ASSUME NEW q \in TestRecs, ~Current(q)
        PROVE  rec'[q].committed <=> q \in ended
    BY <1>6, <1>11, <2>2 DEF EInv, Recorded
  <2>3. \A q : Current(q)' <=> Current(q)
    BY <1>1, <1>7 DEF Current
  <2>4. ended \subseteq TestRecs
    BY DEF EInv, Recorded
  <2> QED BY <1>1, <1>10, <2>1, <2>2, <2>3, <2>4 DEF Recorded
<1>16. InOrder'
  <2>1. \A q \in TestRecs : rec[q].committed => Succeed(rec[q].time)
    BY DEF EInv, InOrder
  <2>2. Succeed(rec[p].time)
    BY <1>2, <1>4, <1>6, UptoSucceed
  <2>3. ASSUME NEW q \in TestRecs, rec'[q].committed
        PROVE  Succeed(rec'[q].time)
    <3>1. CASE q = p
      BY <1>9, <2>2, <3>1
    <3>2. CASE q # p
      BY <1>11, <2>1, <2>3, <3>2
    <3> QED BY <3>1, <3>2
  <2> QED BY <1>10, <2>3 DEF InOrder, Succeed
<1>17. Fresh'
  <2>1. ASSUME NEW q \in TestRecs, ToCome(q)'
        PROVE  q # p /\ ToCome(q)
    <3>1. \A e : types' # <<"write", e>>
      <4>1. \A e : Len(<<"write", e>>) = 2
        OBVIOUS
      <4>2. Len(<<"read">>) = 1 /\ Len(<<>>) = 0
        OBVIOUS
      <4> QED BY <1>13, <4>1, <4>2
    <3>2. q[1] = at[1] /\ q[2] = at[2] /\ q[3] > at[3]
      BY <1>1, <2>1, <3>1 DEF ToCome
    <3>3. at[3] \in Nat
      BY <1>7, AtRun DEF IInv
    <3> QED BY <1>6, <3>2, <3>3 DEF ToCome
  <2>2. \A q \in TestRecs : ToCome(q) => rec[q].time = NoTimes /\ ~rec[q].committed
    BY <1>7 DEF EInv, Fresh
  <2> QED BY <1>10, <1>11, <2>1, <2>2 DEF Fresh
<1>18. TypesLeft'
  BY <1>1, <1>12 DEF TypesLeft
<1>19. Timed'
  <2> SUFFICES ASSUME types' # <<>>
               PROVE  LET time == rec'[<<at[1], at[2], at[3], Head(types')>>].time
                      IN  Upto(time, 0, clock') /\ NoneAfter(time, 0)
    <3>1. pc' # "action" /\ last' = 0
      BY <1>1
    <3> QED BY <1>1, <3>1 DEF Timed
  <2> DEFINE q == <<at[1], at[2], at[3], "read">>
  <2>1. types = <<"write", "read">> /\ Head(types') = "read" /\ Head(types) = "write"
    BY <1>13
  <2>2. q[1] = at[1] /\ q[2] = at[2] /\ q[3] = at[3] /\ q[4] = "read" /\ Len(q) = 4
    OBVIOUS
  <2>3. q \in DOMAIN rec
    <3>1. at[3] \in 1 .. Runs[at[2]].num_repetitions
      BY <1>7, AtRun DEF IInv
    <3> QED BY <1>7, <3>1 DEF IInv, Records, Type
  <2> HIDE DEF q
  <2>4. q \in TestRecs /\ q # p
    BY <1>6, <2>1, <2>2, <2>3 DEF TestRecs
  <2>5. ToCome(q)
    BY <1>1, <2>1, <2>2 DEF ToCome
  <2>6. rec'[q].time = NoTimes
    BY <1>7, <1>11, <2>4, <2>5 DEF EInv, Fresh
  <2>7. \A a \in 1 .. 4 : NoTimes[a] = <<0, 0>>
    BY DEF NoTimes
  <2>8. 1 .. 0 = {}
    OBVIOUS
  <2>9. Upto(rec'[q].time, 0, clock') /\ NoneAfter(rec'[q].time, 0)
    BY <2>6, <2>7, <2>8 DEF Upto, NoneAfter
  <2> QED BY <2>1, <2>9 DEF q
<1>20. Exported'
  BY <1>1 DEF Exported
<1> QED BY <1>10, <1>15, <1>16, <1>17, <1>18, <1>19, <1>20 DEF EInv

\* The end of a repetition: what changes, and which records are of its tests.
LEMMA ReptStopIs ==
  ASSUME IInv, EInv, NEW others \in SUBSET Type, ReptStop(others)
  PROVE  /\ pc \in InRun /\ pc \in InTests /\ pc \in InRepl
         /\ pc' \in InRun /\ pc' \notin InTests /\ pc' \in InRepl
         /\ at = <<at[1], at[2], at[3]>> /\ at[1] \in 1 .. NumRepls /\ at[2] \in RunIds
         /\ at[3] \in 1 .. Runs[at[2]].num_repetitions
         /\ at[1] \in Nat /\ at[2] \in Nat /\ at[3] \in Nat
         /\ \A e \in Type : Append(at, e) = <<at[1], at[2], at[3], e>>
         /\ at \notin Tests({at})
         /\ \A q \in TestRecs : q \in Tests({at}) <=> Current(q)
         /\ DOMAIN rec' = DOMAIN rec
         /\ \A q \in DOMAIN rec :
              /\ q = at => rec'[q] = [rec[q] EXCEPT !.stop = clock]
              /\ q # at /\ q \in Tests({at}) =>
                   rec'[q] = [rec[q] EXCEPT !.committed = @ /\ q[4] \in others,
                                            !.test_time = Reduced(rec[q].time),
                                            !.test_size = ReducedSize(rec[q].size)]
              /\ q # at /\ q \notin Tests({at}) => rec'[q] = rec[q]
<1>1. /\ pc = "rept_stop" /\ pc' = "repts" /\ at' = at /\ clock' = clock + 3
      /\ ended' = ended \cup {Append(at, type) : type \in Executed \cap others}
  BY DEF ReptStop, Call
<1>2. /\ pc \in InRun /\ pc \in InTests /\ pc \in InRepl /\ pc # "exp"
      /\ pc' \in InRun /\ pc' \notin InTests /\ pc' \in InRepl
      /\ pc' \notin {"tests", "action"} /\ pc \notin {"tests", "action"}
  BY <1>1 DEF InRepl, InRun, InTests
<1>3. /\ at = <<at[1], at[2], at[3]>> /\ at[1] \in 1 .. NumRepls /\ at[2] \in RunIds
      /\ at[3] \in 1 .. Runs[at[2]].num_repetitions
      /\ at[1] \in Nat /\ at[2] \in Nat /\ at[3] \in Nat
  BY <1>2, AtRun DEF IInv
<1>4. st.trec_rept = at /\ at # NULL
  <2>1. st.trec_rept = at
    BY <1>2 DEF IInv, Pointers
  <2>2. at # NULL
    <3> DEFINE i == at[1]
               r == at[2]
               k == at[3]
    <3>1. i \in Nat /\ r \in Nat /\ k \in Nat /\ at = <<i, r, k>>
      BY <1>3
    <3> HIDE DEF i, r, k
    <3>2. "read" \in Type
      BY DEF Type
    <3> QED BY <3>1, <3>2, NotNull
  <2> QED BY <2>1, <2>2
<1>5. \A e \in Type : Append(at, e) = <<at[1], at[2], at[3], e>>
  <2> DEFINE i == at[1]
             r == at[2]
             k == at[3]
  <2>1. i \in Nat /\ r \in Nat /\ k \in Nat /\ at = <<i, r, k>>
    BY <1>3
  <2> HIDE DEF i, r, k
  <2>2. \A e \in Type : Append(at, e) = <<i, r, k, e>>
    BY <2>1, Appended
  <2> QED BY <2>2 DEF i, r, k
<1>6. /\ \A q : q \in Tests({at}) <=> \E e \in Type : q = <<at[1], at[2], at[3], e>>
      /\ at \notin Tests({at})
  <2>1. \A q : q \in Tests({at}) <=> \E e \in Type : q = Append(at, e)
    BY DEF Tests
  <2>2. \A q : q \in Tests({at}) <=> \E e \in Type : q = <<at[1], at[2], at[3], e>>
    BY <1>5, <2>1
  <2>3. \A e : at # <<at[1], at[2], at[3], e>>
    <3>1. Len(at) = 3 /\ \A e : Len(<<at[1], at[2], at[3], e>>) = 4
      BY <1>3
    <3> QED BY <3>1
  <2> QED BY <2>2, <2>3
<1>7. \A q \in TestRecs : q \in Tests({at}) <=> Current(q)
  <2>1. \A q \in TestRecs : q \in Tests({at}) => Current(q)
    BY <1>2, <1>6 DEF Current
  <2>2. ASSUME NEW q \in TestRecs, Current(q) PROVE q \in Tests({at})
    <3>1. q = <<q[1], q[2], q[3], q[4]>> /\ q[4] \in Type
      BY DEF EInv, Paths
    <3>2. q[1] = at[1] /\ q[2] = at[2] /\ q[3] = at[3]
      BY <2>2 DEF Current
    <3>3. q = <<at[1], at[2], at[3], q[4]>>
      BY <3>1, <3>2
    <3> QED BY <1>6, <3>1, <3>3
  <2> QED BY <2>1, <2>2
<1>8. /\ DOMAIN rec' = DOMAIN rec
      /\ \A q \in DOMAIN rec :
           /\ q = at => rec'[q] = [rec[q] EXCEPT !.stop = clock]
           /\ q # at /\ q \in Tests({at}) =>
                rec'[q] = [rec[q] EXCEPT !.committed = @ /\ q[4] \in others,
                                         !.test_time = Reduced(rec[q].time),
                                         !.test_size = ReducedSize(rec[q].size)]
           /\ q # at /\ q \notin Tests({at}) => rec'[q] = rec[q]
  <2>1. st.trec_rept = at /\ st.trec_rept # NULL
    BY <1>4
  <2>2. trec_run_rept_stop(others)
    BY DEF ReptStop
  <2> DEFINE p == st.trec_rept
             stopped(q) == [rec[q] EXCEPT !.stop = clock]
             reduced(q) == [rec[q] EXCEPT !.committed = @ /\ q[4] \in others,
                                          !.test_time = Reduced(rec[q].time),
                                          !.test_size = ReducedSize(rec[q].size)]
  <2>3. rec' = [q \in DOMAIN rec |-> CASE q = p           -> stopped(q)
                                      [] q \in Tests({p}) -> reduced(q)
                                      [] OTHER           -> rec[q]]
    BY <2>1, <2>2, Zenon DEF trec_run_rept_stop
  <2>4. p = at /\ p \notin Tests({p})
    BY <1>6, <2>1
  <2> HIDE DEF p, stopped, reduced
  <2>5. /\ DOMAIN rec' = DOMAIN rec
        /\ \A q \in DOMAIN rec :
             rec'[q] = CASE q = p           -> stopped(q)
                         [] q \in Tests({p}) -> reduced(q)
                         [] OTHER           -> rec[q]
    BY <2>3
  <2>6. ASSUME NEW q \in DOMAIN rec
        PROVE  /\ q = p => rec'[q] = stopped(q)
               /\ q # p /\ q \in Tests({p}) => rec'[q] = reduced(q)
               /\ q # p /\ q \notin Tests({p}) => rec'[q] = rec[q]
    BY <2>4, <2>5
  <2>7. ASSUME NEW q \in DOMAIN rec
        PROVE  /\ q = at => rec'[q] = stopped(q)
               /\ q # at /\ q \in Tests({at}) => rec'[q] = reduced(q)
               /\ q # at /\ q \notin Tests({at}) => rec'[q] = rec[q]
    BY <2>4, <2>6
  <2> QED BY <2>5, <2>7, Zenon DEF stopped, reduced
<1> QED BY <1>2, <1>3, <1>5, <1>6, <1>7, <1>8

LEMMA ReptStopEnds ==
  ASSUME IInv, EInv, NEW others \in SUBSET Type, ReptStop(others)
  PROVE  EInv'
<1>1. /\ pc = "rept_stop" /\ pc' = "repts" /\ at' = at /\ clock' = clock + 3
      /\ ended' = ended \cup {Append(at, type) : type \in Executed \cap others}
  BY DEF ReptStop, Call
<1>2. /\ pc \in InRun /\ pc \in InTests /\ pc \in InRepl /\ pc # "exp"
      /\ pc' \in InRun /\ pc' \notin InTests /\ pc' \in InRepl
      /\ pc' \notin {"tests", "action"} /\ pc \notin {"tests", "action"}
  BY <1>1 DEF InRepl, InRun, InTests
<1>3. /\ at = <<at[1], at[2], at[3]>> /\ at[1] \in 1 .. NumRepls /\ at[2] \in RunIds
      /\ at[3] \in 1 .. Runs[at[2]].num_repetitions
      /\ at[1] \in Nat /\ at[2] \in Nat /\ at[3] \in Nat
  BY ReptStopIs
<1>4. \A e \in Type : Append(at, e) = <<at[1], at[2], at[3], e>>
  BY ReptStopIs
<1>5. at \notin Tests({at})
  BY ReptStopIs
<1>6. \A q \in TestRecs : q \in Tests({at}) <=> Current(q)
  BY ReptStopIs
<1>7. /\ DOMAIN rec' = DOMAIN rec
      /\ \A q \in DOMAIN rec :
           /\ q = at => rec'[q] = [rec[q] EXCEPT !.stop = clock]
           /\ q # at /\ q \in Tests({at}) =>
                rec'[q] = [rec[q] EXCEPT !.committed = @ /\ q[4] \in others,
                                         !.test_time = Reduced(rec[q].time),
                                         !.test_size = ReducedSize(rec[q].size)]
           /\ q # at /\ q \notin Tests({at}) => rec'[q] = rec[q]
  BY ReptStopIs
<1>8. ASSUME NEW q \in DOMAIN rec
      PROVE  /\ DOMAIN rec'[q] = Fields /\ rec'[q].time = rec[q].time
             /\ rec'[q].id = rec[q].id /\ rec'[q].num = rec[q].num
             /\ rec'[q].committed \in BOOLEAN
             /\ q = at \/ q \notin Tests({at}) =>
                  rec'[q].committed = rec[q].committed
             /\ q # at /\ q \in Tests({at}) =>
                  (rec'[q].committed <=> rec[q].committed /\ q[4] \in others)
  <2>1. DOMAIN rec[q] = Fields /\ rec[q].committed \in BOOLEAN
    BY DEF EInv, Shapes
  <2>2. CASE q = at
    <3>1. rec'[q] = [rec[q] EXCEPT !.stop = clock]
      BY <1>5, <1>7, <2>2
    <3> QED BY <2>1, <2>2, <3>1 DEF Fields
  <2>3. CASE q # at /\ q \in Tests({at})
    <3> DEFINE c == rec[q].committed /\ q[4] \in others
               t == Reduced(rec[q].time)
               s == ReducedSize(rec[q].size)
    <3>1. rec'[q] = [rec[q] EXCEPT !.committed = c, !.test_time = t, !.test_size = s]
      BY <1>7, <2>3
    <3>2. c \in BOOLEAN
      BY <2>1
    <3> HIDE DEF c, t, s
    <3>3. /\ DOMAIN rec'[q] = Fields /\ rec'[q].time = rec[q].time
          /\ rec'[q].id = rec[q].id /\ rec'[q].num = rec[q].num
          /\ rec'[q].committed = c
      BY <2>1, <3>1 DEF Fields
    <3> QED BY <2>3, <3>2, <3>3 DEF c
  <2>4. CASE q # at /\ q \notin Tests({at})
    <3>1. rec'[q] = rec[q]
      BY <1>7, <2>4
    <3> QED BY <2>1, <2>4, <3>1
  <2> QED BY <2>2, <2>3, <2>4
<1>9. DOMAIN rec' = DOMAIN rec /\ TestRecs' = TestRecs
  BY <1>7 DEF TestRecs
<1>10. \A q \in TestRecs :
         /\ rec'[q].time = rec[q].time
         /\ Current(q) => (rec'[q].committed <=> rec[q].committed /\ q[4] \in others)
         /\ ~Current(q) => (rec'[q].committed <=> rec[q].committed)
  <2>1. \A q \in TestRecs : q # at /\ q \in DOMAIN rec
    <3>1. Len(at) = 3
      BY <1>3
    <3> QED BY <3>1, LongRecs
  <2> QED BY <1>6, <1>8, <2>1
<1>11. Paths'
  BY <1>1, <1>9 DEF EInv, Paths
<1>12. Shapes'
  BY <1>1, <1>8, <1>9 DEF EInv, Shapes
<1>13. Numbered'
  <2>1. <<at[1]>> \in DOMAIN rec /\ <<at[1], at[2]>> \in DOMAIN rec
    BY <1>2, <1>3 DEF IInv, Records
  <2> QED BY <1>1, <1>2, <1>8, <2>1 DEF EInv, Numbered
<1>14. \A q \in TestRecs : rec'[q].committed => rec[q].committed
  BY <1>10
<1>15. NumbersKept'
  <2> SUFFICES ASSUME NEW p \in TestRecs, rec'[p].committed
               PROVE  /\ rec'[<<p[1]>>].id = p[1] /\ rec'[<<p[1]>>].num = Len(Runs)
                      /\ rec'[<<p[1], p[2]>>].id = p[2]
                      /\ rec'[<<p[1], p[2]>>].num = Runs[p[2]].num_repetitions
                      /\ rec'[<<p[1], p[2], p[3]>>].id = p[3]
    BY <1>9 DEF NumbersKept
  <2>1. /\ <<p[1]>> \in DOMAIN rec /\ <<p[1], p[2]>> \in DOMAIN rec
        /\ <<p[1], p[2], p[3]>> \in DOMAIN rec
    BY DEF EInv, Paths
  <2>2. rec[p].committed
    BY <1>14
  <2> QED BY <1>8, <2>1, <2>2 DEF EInv, NumbersKept
<1>16. InOrder'
  <2>1. \A q \in TestRecs : rec[q].committed => Succeed(rec[q].time)
    BY DEF EInv, InOrder
  <2>2. \A q \in TestRecs : rec'[q].committed => Succeed(rec'[q].time)
    BY <1>10, <1>14, <2>1
  <2> QED BY <1>9, <2>2 DEF InOrder, Succeed
<1>17. Recorded'
  <2>1. Executed \subseteq Type
    BY DEF Executed, Type
  <2>2. \A q : q \in ended' <=>
          \/ q \in ended
          \/ \E e \in Executed \cap others : q = <<at[1], at[2], at[3], e>>
    BY <1>1, <1>4, <2>1
  <2>3. ASSUME NEW e \in Type PROVE <<at[1], at[2], at[3], e>> \in TestRecs
    <3>1. /\ <<at[1], at[2], at[3], e>> \in DOMAIN rec
          /\ Len(<<at[1], at[2], at[3], e>>) = 4
      BY <1>2, <1>3 DEF IInv, Records
    <3> QED BY <3>1 DEF TestRecs
  <2>4. ended' \subseteq TestRecs
    BY <2>1, <2>2, <2>3 DEF EInv, Recorded
  <2>5. ASSUME NEW q \in TestRecs, Current(q)
        PROVE  rec'[q].committed <=> q \in ended'
    <3>1. q \notin ended /\ (rec[q].committed <=> q[4] \in Executed)
      BY <2>5 DEF EInv, Recorded
    <3>2. q = <<at[1], at[2], at[3], q[4]>>
      <4>1. q = <<q[1], q[2], q[3], q[4]>>
        BY DEF EInv, Paths
      <4>2. q[1] = at[1] /\ q[2] = at[2] /\ q[3] = at[3]
        BY <2>5 DEF Current
      <4> QED BY <4>1, <4>2
    <3>3. q \in ended' <=> q[4] \in Executed \cap others
      <4>1. \A e : q = <<at[1], at[2], at[3], e>> => e = q[4]
        BY <3>2
      <4> QED BY <2>2, <3>1, <3>2, <4>1
    <3> QED BY <1>10, <2>5, <3>1, <3>3
  <2>6. ASSUME NEW q \in TestRecs, ~Current(q)
        PROVE  rec'[q].committed <=> q \in ended'
    <3>1. rec[q].committed <=> q \in ended
      BY <2>6 DEF EInv, Recorded
    <3>2. ~(\E e \in Executed \cap others : q = <<at[1], at[2], at[3], e>>)
      BY <1>2, <2>6 DEF Current
    <3> QED BY <1>10, <2>2, <2>6, <3>1, <3>2
  <2> QED BY <1>2, <1>9, <2>4, <2>5, <2>6 DEF Recorded, Current
<1>18. Fresh'
  <2>1. \A q \in TestRecs : ToCome(q)' => ToCome(q)
    BY <1>1, <1>2 DEF ToCome
  <2>2. \A q \in TestRecs : ToCome(q) => rec[q].time = NoTimes /\ ~rec[q].committed
    BY <1>2 DEF EInv, Fresh
  <2> QED BY <1>9, <1>10, <1>14, <2>1, <2>2 DEF Fresh
<1>19. TypesLeft' /\ Timed' /\ Exported'
  BY <1>1, <1>2 DEF TypesLeft, Timed, Exported
<1> QED
  BY <1>11, <1>12, <1>13, <1>15, <1>16, <1>17, <1>18, <1>19 DEF EInv

LEMMA NextEnds ==
  ASSUME IInv, EInv, [Next]_vars
  PROVE  EInv'
<1>1. CASE ExpStart
  BY <1>1, ExpStartEnds
<1>2. CASE ReplStart
  BY <1>2, ReplStartEnds
<1>3. ASSUME NEW r \in RunIds, RunStart(r) PROVE EInv'
  BY <1>3, RunStartEnds
<1>4. CASE ReptStart
  BY <1>4, ReptStartEnds
<1>5. CASE TestStart
  BY <1>5, TestStartEnds
<1>6. CASE TestStop
  BY <1>6, TestStopEnds
<1>7. CASE Commit
  BY <1>7, CommitEnds
<1>8. ASSUME NEW others \in SUBSET Type, ReptStop(others) PROVE EInv'
  BY <1>8, ReptStopEnds
<1>9. CASE ReptsEnd \/ RunStop \/ ReplStop \/ ExpStop
  BY <1>9, LoopSteps
<1>10. CASE Fail \/ TestsEnd \/ UNCHANGED vars
  BY <1>10, LeavingStep
<1>11. CASE Export
  BY <1>11, ExportStep
<1> QED
  BY <1>1, <1>2, <1>3, <1>4, <1>5, <1>6, <1>7, <1>8, <1>9, <1>10, <1>11 DEF Next

\* A row: the test, the action and its times.
LEMMA RowIs ==
  ASSUME NEW i \in Nat, NEW r \in Nat, NEW k \in Nat, NEW e \in Type,
         NEW a, NEW t, NEW d
  PROVE  LET row == <<i, r, k, e>> \o <<a, t, d>> IN
         /\ SubSeq(row, 1, 4) = <<i, r, k, e>>
         /\ row[5] = a /\ row[6] = t /\ row[7] = d
<1> DEFINE S == Elem \cup {a, t, d}
           p == <<i, r, k, e>>
           s == <<a, t, d>>
           row == p \o s
<1>1. p \in Seq(Elem) /\ p \in Seq(S) /\ s \in Seq(S) /\ Len(p) = 4 /\ Len(s) = 3
      /\ s[1] = a /\ s[2] = t /\ s[3] = d
  <2>1. i \in Elem /\ r \in Elem /\ k \in Elem /\ e \in Elem
    BY DEF Elem
  <2> HIDE DEF Elem
  <2> QED BY <2>1
<1> HIDE DEF S, p, s
<1>2. /\ row \in Seq(S) /\ Len(row) = 7
      /\ \A j \in 1 .. 7 : row[j] = IF j <= 4 THEN p[j] ELSE s[j - 4]
  <2>1. /\ row \in Seq(S) /\ Len(row) = Len(p) + Len(s)
        /\ \A j \in 1 .. Len(p) + Len(s) :
             row[j] = IF j <= Len(p) THEN p[j] ELSE s[j - Len(p)]
    BY <1>1, ConcatProperties
  <2> HIDE DEF row
  <2>2. Len(p) + Len(s) = 7
    BY <1>1
  <2> QED BY <1>1, <2>1, <2>2
<1>3. row[5] = a /\ row[6] = t /\ row[7] = d
  <2>1. /\ 5 \in 1 .. 7 /\ ~(5 <= 4) /\ 5 - 4 = 1
        /\ 6 \in 1 .. 7 /\ ~(6 <= 4) /\ 6 - 4 = 2
        /\ 7 \in 1 .. 7 /\ ~(7 <= 4) /\ 7 - 4 = 3
    OBVIOUS
  <2> QED BY <1>1, <1>2, <2>1
<1>4. SubSeq(row, 1, 4) = p
  <2> DEFINE w == SubSeq(row, 1, 4)
  <2> HIDE DEF row
  <2>1. \A j \in 1 .. 4 : row[j] \in S
    <3>1. \A j \in 1 .. 4 : j \in 1 .. Len(row)
      BY <1>2
    <3> QED BY <1>2, <3>1, ElementOfSeq
  <2>2. w \in Seq(S) /\ Len(w) = 4 /\ \A j \in 1 .. 4 : w[j] = row[j]
    BY <2>1, SubSeqProperties
  <2> HIDE DEF w
  <2>3. \A j \in 1 .. Len(w) : w[j] = p[j]
    BY <1>2, <2>2
  <2>4. w = p
    BY <1>1, <2>2, <2>3, SeqEqual
  <2> QED BY <2>4 DEF w
<1> QED BY <1>3, <1>4 DEF p, s

\* The ids of the records above a test committed are the numbers of its path.
LEMMA IdsAre ==
  ASSUME IInv, EInv, pc = "done", NEW p \in TestRecs, rec[p].committed
  PROVE  /\ p \in Committed /\ Ids(p) = p
         /\ p = <<p[1], p[2], p[3], p[4]>>
         /\ p[1] \in Nat /\ p[2] \in Nat /\ p[3] \in Nat /\ p[4] \in Type
<1>1. p \in TestRecs /\ p \in DOMAIN rec /\ Len(p) = 4
  BY DEF TestRecs
<1>2. /\ p = <<p[1], p[2], p[3], p[4]>>
      /\ p[1] \in 1 .. NumRepls /\ p[2] \in RunIds /\ p[4] \in Type
      /\ p[3] \in 1 .. Runs[p[2]].num_repetitions
  BY <1>1 DEF EInv, Paths
<1>3. /\ rec[p].committed
      /\ rec[<<p[1]>>].id = p[1] /\ rec[<<p[1]>>].num = Len(Runs)
      /\ rec[<<p[1], p[2]>>].id = p[2]
      /\ rec[<<p[1], p[2]>>].num = Runs[p[2]].num_repetitions
      /\ rec[<<p[1], p[2], p[3]>>].id = p[3]
  BY <1>1 DEF EInv, NumbersKept
<1>4. rec[<<>>].num = NumRepls
  BY DEF IInv, Records
<1>5. p[1] \in Nat /\ p[2] \in Nat /\ p[3] \in Nat
  BY <1>2, Typed
<1>6. p \in Committed
  BY <1>1, <1>2, <1>3, <1>4, Typed DEF Committed, RunIds
<1>7. SubSeq(p, 1, 3) = <<p[1], p[2], p[3]>>
  <2> DEFINE i == p[1]
             r == p[2]
             k == p[3]
             e == p[4]
  <2>1. i \in Nat /\ r \in Nat /\ k \in Nat /\ e \in Type /\ p = <<i, r, k, e>>
    BY <1>2, <1>5
  <2> HIDE DEF i, r, k, e
  <2>2. SubSeq(p, 1, 3) = <<i, r, k>>
    BY <2>1, Prefixes
  <2> QED BY <2>2 DEF i, r, k
<1>8. Ids(p) = p
  BY <1>2, <1>3, <1>7 DEF Ids
<1> QED BY <1>2, <1>5, <1>6, <1>8

\* The rows exported in the end are those of the tests that all tasks took to
\* their ends, whatever failed between them, and the actions of each come one
\* after the other: csv_export_rows() finds no record that another repetition wrote.
THEOREM ExportsAlwaysExecuted == Spec => []ExportsExecuted
<1>1. Init => EInv
  BY InitEInv
<1>2. IInv /\ EInv /\ [Next]_vars => EInv'
  BY NextEnds
<1>3. IInv /\ EInv => ExportsExecuted
  <2> SUFFICES ASSUME IInv, EInv, pc = "done"
               PROVE  /\ {SubSeq(row, 1, 4) : row \in rows} = ended
                      /\ \A row, other \in rows :
                           SubSeq(row, 1, 4) = SubSeq(other, 1, 4) /\
                             row[5] = other[5] - 1 /\ other[6][1] > 0
                             => row[6][1] < row[6][2] /\ row[6][2] < other[6][1]
    BY DEF ExportsExecuted
  <2>1. pc \notin InTests /\ pc # "exp"
    BY DEF InTests
  <2>2. \A p \in TestRecs : rec[p].committed <=> p \in ended
    BY <2>1 DEF EInv, Recorded, Current
  <2>3. ASSUME NEW p \in ended
        PROVE  /\ p \in Committed /\ Ids(p) = p
               /\ p = <<p[1], p[2], p[3], p[4]>>
               /\ p[1] \in Nat /\ p[2] \in Nat /\ p[3] \in Nat /\ p[4] \in Type
    <3>1. p \in TestRecs /\ rec[p].committed
      BY <2>2 DEF EInv, Recorded
    <3> QED BY <3>1, IdsAre
  <2>4. Committed \subseteq ended
    BY <2>2 DEF Committed, TestRecs
  <2> DEFINE Row(p, a) == p \o <<a, rec[p].time[a], Divided(p, a)>>
  <2>5. \A row : row \in rows <=> \E p \in ended, a \in 1 .. 4 : row = Row(p, a)
    <3>1. rows = Rows("task")
      BY DEF EInv, Exported
    <3> DEFINE row(p, a) == Ids(p) \o <<a, Times(p, "task")[a], Divided(p, a)>>
    <3>2. rows = {row(p, a) : p \in Committed, a \in 1 .. 4}
      BY <3>1 DEF Rows
    <3>3. \A p, a : Times(p, "task")[a] = rec[p].time[a]
      BY DEF Times
    <3>4. \A p \in ended, a \in 1 .. 4 : row(p, a) = Row(p, a)
      BY <2>3, <3>3, Zenon
    <3>5. Committed = ended
      BY <2>3, <2>4
    <3> HIDE DEF Row, row
    <3> QED BY <3>2, <3>4, <3>5
  <2>6. ASSUME NEW p \in ended, NEW a \in 1 .. 4
        PROVE  /\ SubSeq(Row(p, a), 1, 4) = p
               /\ Row(p, a)[5] = a /\ Row(p, a)[6] = rec[p].time[a]
    <3> DEFINE i == p[1]
               r == p[2]
               k == p[3]
               e == p[4]
               t == rec[p].time[a]
               d == Divided(p, a)
    <3>1. i \in Nat /\ r \in Nat /\ k \in Nat /\ e \in Type /\ p = <<i, r, k, e>>
      BY <2>3
    <3> HIDE DEF i, r, k, e, t, d
    <3>2. LET row == <<i, r, k, e>> \o <<a, t, d>> IN
          SubSeq(row, 1, 4) = <<i, r, k, e>> /\ row[5] = a /\ row[6] = t
      BY <3>1, RowIs
    <3> QED BY <3>1, <3>2 DEF t, d
  <2> HIDE DEF Row
  <2>7. {SubSeq(row, 1, 4) : row \in rows} = ended
    <3>1. ASSUME NEW row \in rows PROVE SubSeq(row, 1, 4) \in ended
      <4>1. PICK p \in ended, a \in 1 .. 4 : row = Row(p, a)
        BY <2>5
      <4> QED BY <2>6, <4>1
    <3>2. ASSUME NEW p \in ended PROVE \E row \in rows : SubSeq(row, 1, 4) = p
      <4>1. Row(p, 1) \in rows /\ SubSeq(Row(p, 1), 1, 4) = p
        BY <2>5, <2>6
      <4> QED BY <4>1
    <3> QED BY <3>1, <3>2
  <2>8. ASSUME NEW row \in rows, NEW other \in rows,
               SubSeq(row, 1, 4) = SubSeq(other, 1, 4),
               row[5] = other[5] - 1, other[6][1] > 0
        PROVE  row[6][1] < row[6][2] /\ row[6][2] < other[6][1]
    <3>1. PICK p \in ended, a \in 1 .. 4 : row = Row(p, a)
      BY <2>5
    <3>2. PICK q \in ended, b \in 1 .. 4 : other = Row(q, b)
      BY <2>5
    <3>3. p = q
      BY <2>6, <2>8, <3>1, <3>2
    <3>4. row[5] = a /\ row[6] = rec[p].time[a]
      BY <2>6, <3>1
    <3>5. other[5] = b /\ other[6] = rec[p].time[b]
      BY <2>6, <3>2, <3>3
    <3>6. a \in 1 .. 3 /\ b = a + 1
      BY <2>8, <3>4, <3>5
    <3>7. Succeed(rec[p].time)
      BY <2>2 DEF EInv, InOrder, Recorded
    <3> QED BY <2>8, <3>4, <3>5, <3>6, <3>7 DEF Succeed
  <2> QED BY <2>7, <2>8
<1> QED BY <1>1, <1>2, <1>3, Inductive, PTL DEF Spec

-------------------------------------------------------------------------------
(* What is shown.                                                          *)

\* The summary of a test with the others as they are.
SummaryBy(time, size, sk) ==
  LET reduced == ReducedBy(time, sk) IN
  [latency |-> [a \in 1 .. 4 |-> reduced[a][2] - reduced[a][1]],
   total |-> Total(reduced), size |-> size + OtherSize]

\* A test that was taken to its end has all its actions, with or without the last.
TakenUpto(time, n) == NoneAfter(time, n) /\ \E now \in Nat : Upto(time, n, now)
Taken(time) == \E n \in {Close, Remove} : TakenUpto(time, n)

Sized == \A p \in DOMAIN rec : rec[p].size \in Nat

\* A test is shown at most once, and then it is executed and committed, or past.
Shown ==
  /\ DOMAIN shown \subseteq TestRecs
  /\ \A p \in DOMAIN shown : rec[p].time # NoTimes /\ (Current(p) => rec[p].committed)

\* What is committed has been shown as it is, and is reduced with its repetition.
Summed ==
  \A p \in TestRecs : rec[p].committed =>
    /\ p \in DOMAIN shown
    /\ shown[p] = SummaryBy(rec[p].time, rec[p].size, skew)
    /\ Taken(rec[p].time)
    /\ ~Current(p) => rec[p].test_time = ReducedBy(rec[p].time, skew)

Reported == testRows = IF pc = "done" THEN Rows("test") ELSE {}

\* The invariant of summaries.
SInv == skew \in Skews /\ Sized /\ Shown /\ Summed /\ Reported

\* The records of tests are not lost, and sizes are numbers.
LEMMA RecsStay ==
  ASSUME EInv, Sized, [Next]_vars
  PROVE  TestRecs \subseteq TestRecs' /\ Sized'
<1>1. \A p \in DOMAIN rec : DOMAIN rec[p] = Fields
  BY DEF EInv, Shapes
<1>2. /\ DOMAIN Zero = Fields /\ Zero.size = 0
      /\ {"id", "num", "start", "stop", "size", "committed", "test_time", "test_size",
          "time"} \subseteq Fields
  BY DEF Zero, Fields
<1> DEFINE Stays == /\ DOMAIN rec \subseteq DOMAIN rec'
                    /\ \A p \in DOMAIN rec' :
                         rec'[p].size = OwnSize \/ rec'[p].size = 0
                           \/ (p \in DOMAIN rec /\ rec'[p].size = rec[p].size)
<1>3. ASSUME NEW p, NEW id, NEW n, NEW below, rec' = Started(p, id, n, below)
      PROVE  Stays
  <2> DEFINE f == [q \in DOMAIN rec \cup below |-> IF q \in below THEN Zero ELSE rec[q]]
  <2>1. /\ DOMAIN f = DOMAIN rec \cup below
        /\ \A q \in DOMAIN f : /\ DOMAIN f[q] = Fields
                               /\ f[q].size = 0 \/ (q \in DOMAIN rec /\ f[q].size = rec[q].size)
    BY <1>1, <1>2
  <2>2. rec' = [f EXCEPT ![p].id = id, ![p].num = n, ![p].start = clock]
    BY <1>3 DEF Started
  <2> HIDE DEF f
  <2>3. DOMAIN rec' = DOMAIN f /\ \A q \in DOMAIN f : q # p => rec'[q] = f[q]
    BY <2>2
  <2>4. p \in DOMAIN f => rec'[p].size = f[p].size
    BY <1>2, <2>1, <2>2
  <2> QED BY <2>1, <2>3, <2>4
<1>4. ASSUME rec' = rec PROVE Stays
  BY <1>4
<1>5. ASSUME NEW p, rec' = [rec EXCEPT ![p].stop = clock] PROVE Stays
  BY <1>1, <1>2, <1>5
<1>6. Stays
  <2> HIDE DEF Stays
  <2>1. CASE ExpStart
    BY <1>3, <2>1 DEF ExpStart, trec_exp_start
  <2>2. CASE ReplStart
    BY <1>3, <1>4, <2>2 DEF ReplStart, trec_exp_repl_start
  <2>3. ASSUME NEW r \in RunIds, RunStart(r) PROVE Stays
    <3>1. trec_run_start(r, Runs[r].num_repetitions)
      BY <2>3 DEF RunStart
    <3> QED BY <1>3, <1>4, <3>1 DEF trec_run_start
  <2>4. CASE ReptStart
    BY <1>3, <1>4, <2>4 DEF ReptStart, trec_run_rept_start
  <2>5. CASE TestStart
    <3> DEFINE p == Append(st.trec_rept, Head(types))
    <3>1. rec' = rec \/ rec' = [rec EXCEPT ![p].time[last + 1][1] = clock]
      BY <2>5 DEF TestStart, trec_test_start
    <3> HIDE DEF p
    <3> QED BY <1>1, <1>2, <3>1 DEF Stays
  <2>6. CASE TestStop
    <3> DEFINE p == st.trec_test
               a == st.test_action
    <3>1. \/ rec' = rec
          \/ rec' = [rec EXCEPT ![p].time[a][2] = clock,
                                ![p].size = IF a = WriteRead THEN OwnSize ELSE @]
      BY <2>6 DEF TestStop, trec_test_stop
    <3> HIDE DEF p, a
    <3> QED BY <1>1, <1>2, <3>1 DEF Stays
  <2>7. CASE Commit
    <3> DEFINE p == st.trec_test
    <3>1. rec' = rec \/ rec' = [rec EXCEPT ![p].committed = TRUE]
      BY <2>7 DEF Commit, trec_test_commit
    <3> HIDE DEF p
    <3> QED BY <1>1, <1>2, <3>1 DEF Stays
  <2>8. ASSUME NEW others \in SUBSET Type, ReptStop(others) PROVE Stays
    <3>1. trec_run_rept_stop(others)
      BY <2>8 DEF ReptStop
    <3> DEFINE p == st.trec_rept
               stopped(q) == [rec[q] EXCEPT !.stop = clock]
               reduced(q) == [rec[q] EXCEPT !.committed = @ /\ q[4] \in others,
                                            !.test_time = Reduced(rec[q].time),
                                            !.test_size = ReducedSize(rec[q].size)]
    <3>2. \/ rec' = rec
          \/ rec' = [q \in DOMAIN rec |-> CASE q = p           -> stopped(q)
                                            [] q \in Tests({p}) -> reduced(q)
                                            [] OTHER           -> rec[q]]
      BY <3>1, Zenon DEF trec_run_rept_stop
    <3>3. \A q \in DOMAIN rec : stopped(q).size = rec[q].size /\ reduced(q).size = rec[q].size
      <4> TAKE q \in DOMAIN rec
      <4>1. stopped(q).size = rec[q].size
        BY <1>1, <1>2
      <4> DEFINE c == rec[q].committed /\ q[4] \in others
                 t == Reduced(rec[q].time)
                 s == ReducedSize(rec[q].size)
      <4>2. reduced(q) = [rec[q] EXCEPT !.committed = c, !.test_time = t, !.test_size = s]
        BY Zenon
      <4> HIDE DEF c, t, s, reduced
      <4>3. reduced(q).size = rec[q].size
        BY <1>1, <1>2, <4>2
      <4> QED BY <4>1, <4>3
    <3> HIDE DEF p, stopped, reduced
    <3>4. ASSUME rec' = [q \in DOMAIN rec |-> CASE q = p           -> stopped(q)
                                            [] q \in Tests({p}) -> reduced(q)
                                            [] OTHER           -> rec[q]]
          PROVE  Stays
      <4>1. DOMAIN rec' = DOMAIN rec
        BY <3>4
      <4>2. ASSUME NEW q \in DOMAIN rec PROVE rec'[q].size = rec[q].size
        <5>1. rec'[q] = CASE q = p           -> stopped(q)
                          [] q \in Tests({p}) -> reduced(q)
                          [] OTHER           -> rec[q]
          BY <3>4
        <5>2. rec'[q] = stopped(q) \/ rec'[q] = reduced(q) \/ rec'[q] = rec[q]
          BY <5>1
        <5> QED BY <3>3, <5>2
      <4> QED BY <4>1, <4>2 DEF Stays
    <3> QED BY <1>4, <3>2, <3>4
  <2>9. CASE RunStop \/ ReplStop
    <3>1. \E pointer : Stop(pointer)
      BY <2>9 DEF RunStop, ReplStop
    <3> QED BY <1>4, <1>5, <3>1 DEF Stop
  <2>10. CASE ExpStop
    BY <1>5, <2>10 DEF ExpStop
  <2>11. CASE ReptsEnd \/ Fail \/ TestsEnd \/ Export \/ UNCHANGED vars
    BY <1>4, <2>11 DEF ReptsEnd, Fail, TestsEnd, Export, vars, trecVars
  <2> QED BY <2>1, <2>2, <2>3, <2>4, <2>5, <2>6, <2>7, <2>8, <2>9, <2>10, <2>11 DEF Next
<1>7. OwnSize \in Nat
  BY TrecAssumption
<1>8. TestRecs \subseteq TestRecs'
  BY <1>6 DEF TestRecs
<1>9. Sized'
  BY <1>6, <1>7 DEF Sized
<1> QED BY <1>8, <1>9

\* What is shown stays, in a step that neither commits nor reduces a test.
LEMMA ShownStays ==
  ASSUME IInv, EInv, EInv', SInv, TestRecs \subseteq TestRecs', Sized',
         shown' = shown, skew' = skew, ended' = ended, testRows' = testRows,
         pc # "done", pc' # "done",
         \A p \in DOMAIN shown : rec'[p] = rec[p] /\ (Current(p)' => Current(p)),
         \A p \in TestRecs' : Current(p)' /\ rec'[p].committed =>
           p \in TestRecs /\ Current(p) /\ rec[p].committed
  PROVE  SInv'
<1>1. Shown'
  BY DEF SInv, Shown
<1>2. Summed'
  <2> SUFFICES ASSUME NEW p \in TestRecs', rec'[p].committed
               PROVE  /\ p \in DOMAIN shown
                      /\ shown[p] = SummaryBy(rec'[p].time, rec'[p].size, skew)
                      /\ Taken(rec'[p].time)
                      /\ ~Current(p)' => rec'[p].test_time = ReducedBy(rec'[p].time, skew)
    BY DEF Summed
  <2>1. /\ p \in TestRecs /\ rec[p].committed
        /\ ~Current(p)' => ~Current(p)
    <3>1. CASE Current(p)'
      BY <3>1
    <3>2. CASE ~Current(p)'
      <4>1. p \in ended /\ p \in TestRecs
        BY <3>2 DEF EInv, Recorded
      <4> QED BY <3>2, <4>1 DEF EInv, Recorded
    <3> QED BY <3>1, <3>2
  <2>2. /\ p \in DOMAIN shown
        /\ shown[p] = SummaryBy(rec[p].time, rec[p].size, skew)
        /\ Taken(rec[p].time)
        /\ ~Current(p) => rec[p].test_time = ReducedBy(rec[p].time, skew)
    BY <2>1 DEF SInv, Summed
  <2>3. rec'[p] = rec[p]
    BY <2>2
  <2> QED BY <2>1, <2>2, <2>3
<1>3. Reported'
  BY DEF SInv, Reported
<1> QED BY <1>1, <1>2, <1>3 DEF SInv

\* Steps outside tests.
LEMMA OutsideShown ==
  ASSUME IInv, EInv, EInv', SInv, PastKept, TestRecs \subseteq TestRecs', Sized',
         shown' = shown, skew' = skew, ended' = ended, testRows' = testRows,
         pc # "done", pc' # "done", pc' \notin InTests,
         \A p \in TestRecs : ~InRept(p, at')
  PROVE  SInv'
<1>1. \A p \in TestRecs : rec'[p] = rec[p]
  BY LongRecs DEF PastKept
<1>2. \A p : ~Current(p)'
  BY DEF Current
<1>3. DOMAIN shown \subseteq TestRecs
  BY DEF SInv, Shown
<1> QED BY <1>1, <1>2, <1>3, ShownStays

\* The loops over replications and runs show nothing.
LEMMA LoopsShown ==
  ASSUME IInv, EInv, EInv', SInv, PastKept, TestRecs \subseteq TestRecs', Sized',
         ExpStart \/ ReplStart \/ RunStop \/ ReplStop \/ ExpStop
  PROVE  SInv'
<1>1. /\ shown' = shown /\ skew' = skew /\ ended' = ended /\ testRows' = testRows
      /\ pc # "done" /\ pc' # "done" /\ pc' \notin InTests
  <2>1. CASE ExpStart
    BY <2>1 DEF ExpStart, Call, progVars, reportVars, InTests
  <2>2. CASE ReplStart
    BY <2>2 DEF ReplStart, Call, reportVars, InTests
  <2>3. CASE RunStop
    BY <2>3 DEF RunStop, Call, reportVars, InTests
  <2>4. CASE ReplStop
    BY <2>4 DEF ReplStop, Call, progVars, reportVars, InTests
  <2>5. CASE ExpStop
    BY <2>5 DEF ExpStop, Call, progVars, reportVars, InTests
  <2> QED BY <2>1, <2>2, <2>3, <2>4, <2>5
<1>2. \E i : at' = <<i>>
  <2>1. CASE ExpStart \/ ReplStop \/ ExpStop
    <3>1. pc \in Loop /\ at' = at
      BY <2>1 DEF ExpStart, ReplStop, ExpStop, Call, progVars, Loop
    <3> QED BY <3>1, AtLoop DEF IInv
  <2>2. CASE ReplStart
    BY <2>2 DEF ReplStart
  <2>3. CASE RunStop
    BY <2>3 DEF RunStop
  <2> QED BY <2>1, <2>2, <2>3
<1>3. \A p \in TestRecs : ~InRept(p, at')
  <2>1. \A i : Len(<<i>>) = 1
    OBVIOUS
  <2> QED BY <1>2, <2>1 DEF InRept
<1> QED BY <1>1, <1>3, OutsideShown

\* A test in a repetition: the numbers are those of its path.
LEMMA InReptIs ==
  ASSUME EInv, NEW p \in TestRecs, NEW i, NEW r, NEW k, InRept(p, <<i, r, k>>)
  PROVE  p[1] = i /\ p[2] = r /\ p[3] = k
<1> DEFINE a == p[1]
           b == p[2]
           c == p[3]
           e == p[4]
<1>1. p = <<a, b, c, e>> /\ a \in Nat /\ b \in Nat /\ c \in Nat /\ e \in Type
  <2>1. /\ p = <<a, b, c, e>> /\ a \in 1 .. NumRepls /\ b \in RunIds
        /\ c \in 1 .. Runs[b].num_repetitions /\ e \in Type
    BY DEF EInv, Paths
  <2> HIDE DEF a, b, c, e
  <2> QED BY <2>1, Typed
<1> HIDE DEF a, b, c, e
<1>2. SubSeq(p, 1, 3) = <<a, b, c>>
  BY <1>1, Prefixes
<1>3. <<a, b, c>> = <<i, r, k>>
  BY <1>2 DEF InRept
<1> QED BY <1>3 DEF a, b, c

\* A run that starts shows nothing: its tests are those of repetitions to come.
LEMMA RunStartShown ==
  ASSUME IInv, EInv, EInv', SInv, PastKept, TestRecs \subseteq TestRecs', Sized',
         NEW r \in RunIds, RunStart(r)
  PROVE  SInv'
<1>1. /\ shown' = shown /\ skew' = skew /\ ended' = ended /\ testRows' = testRows
      /\ pc # "done" /\ pc' # "done" /\ pc' \notin InTests /\ at' = <<at[1], r, 0>>
  BY DEF RunStart, Call, reportVars, InTests
<1>2. ASSUME NEW p \in TestRecs PROVE ~InRept(p, at')
  <2>1. p[2] \in RunIds /\ p[3] \in 1 .. Runs[p[2]].num_repetitions
    BY DEF EInv, Paths
  <2>2. p[3] # 0
    BY <2>1, Typed
  <2> QED BY <1>1, <2>2, InReptIs
<1> QED BY <1>1, <1>2, OutsideShown

\* Where records stay as they are.
LEMMA StillShown ==
  ASSUME IInv, EInv, EInv', SInv, TestRecs \subseteq TestRecs', Sized',
         ReptsEnd \/ Fail \/ TestsEnd \/ UNCHANGED vars
  PROVE  SInv'
<1>1. CASE UNCHANGED vars
  <2>1. /\ pc' = pc /\ at' = at /\ rec' = rec /\ skew' = skew /\ shown' = shown
        /\ testRows' = testRows
    BY <1>1 DEF vars, progVars, trecVars, reportVars
  <2>2. TestRecs' = TestRecs /\ \A p : Current(p)' <=> Current(p)
    BY <2>1 DEF TestRecs, Current
  <2>3. Shown' /\ Summed'
    BY <2>1, <2>2 DEF SInv, Shown, Summed
  <2>4. Reported'
    BY <2>1 DEF SInv, Reported, Rows, Committed, Ids, Times, Divided
  <2> QED BY <2>1, <2>3, <2>4 DEF SInv
<1>2. CASE ReptsEnd \/ Fail \/ TestsEnd
  <2>1. /\ shown' = shown /\ skew' = skew /\ ended' = ended /\ testRows' = testRows
        /\ at' = at /\ rec' = rec
    BY <1>2 DEF ReptsEnd, Fail, TestsEnd, progVars, trecVars, reportVars
  <2>2. \/ pc = "repts" /\ pc' = "run_stop"
        \/ pc = "tests" /\ pc' = "rept_stop"
    BY <1>2 DEF ReptsEnd, Fail, TestsEnd
  <2>3. pc # "done" /\ pc' # "done" /\ (pc' \in InTests => pc \in InTests)
    BY <2>2 DEF InTests
  <2>4. TestRecs' = TestRecs /\ \A p : Current(p)' => Current(p)
    BY <2>1, <2>3 DEF TestRecs, Current
  <2> QED BY <2>1, <2>3, <2>4, ShownStays
<1> QED BY <1>1, <1>2

\* A repetition that starts: none of its tests was shown, nor begun.
LEMMA ReptStartShown ==
  ASSUME IInv, EInv, EInv', SInv, PastKept, TestRecs \subseteq TestRecs', Sized',
         ReptStart
  PROVE  SInv'
<1> DEFINE k == at[3] + 1
<1>1. /\ shown' = shown /\ skew' = skew /\ ended' = ended /\ testRows' = testRows
      /\ pc = "repts" /\ pc' = "tests" /\ at' = [at EXCEPT ![3] = k]
      /\ types' = IF Runs[at[2]].read THEN <<"write", "read">> ELSE <<"write">>
  BY DEF ReptStart, Call, reportVars
<1>2. /\ at = <<at[1], at[2], at[3]>> /\ at[3] \in Nat /\ pc \in InRun
      /\ pc' \in InTests
  BY <1>1, AtRun DEF IInv, InRun, InTests
<1>3. at' = <<at[1], at[2], k>> /\ at'[1] = at[1] /\ at'[2] = at[2] /\ at'[3] = k
  BY <1>1, <1>2
<1>4. ASSUME NEW p \in TestRecs, InRept(p, at') \/ Current(p)'
      PROVE  p \notin DOMAIN shown /\ ToCome(p)
  <2>1. p[1] = at[1] /\ p[2] = at[2] /\ p[3] = k
    BY <1>3, <1>4, InReptIs DEF Current
  <2>2. ToCome(p)
    BY <1>2, <2>1 DEF ToCome
  <2>3. rec[p].time = NoTimes
    BY <1>2, <2>2 DEF EInv, Fresh
  <2> QED BY <2>2, <2>3 DEF SInv, Shown
<1>5. \A p \in DOMAIN shown : rec'[p] = rec[p] /\ ~Current(p)'
  BY <1>4, LongRecs DEF PastKept, SInv, Shown
<1>6. Executed' = {}
  <2>1. at'[2] = at[2] /\ (types' = <<"write", "read">> \/ types' = <<"write">>)
    BY <1>1, <1>3
  <2>2. types' = <<"write", "read">> => {types'[j] : j \in DOMAIN types'} = Type
    <3>1. ASSUME types' = <<"write", "read">>
          PROVE  types'[1] = "write" /\ types'[2] = "read" /\ DOMAIN types' = 1 .. 2
      BY <3>1
    <3> QED BY <3>1 DEF Type
  <2>3. types' = <<"write">> => {types'[j] : j \in DOMAIN types'} = {"write"}
    <3>1. ASSUME types' = <<"write">> PROVE types'[1] = "write" /\ DOMAIN types' = 1 .. 1
      BY <3>1
    <3> QED BY <3>1
  <2> QED BY <1>1, <2>1, <2>2, <2>3 DEF Executed
<1>7. \A p \in TestRecs' : Current(p)' => ~rec'[p].committed
  BY <1>6 DEF EInv, Recorded
<1> QED BY <1>1, <1>5, <1>7, ShownStays

\* An action begins or ends: its test was not shown.
LEMMA ActionShown ==
  ASSUME IInv, EInv, EInv', SInv, TestRecs \subseteq TestRecs', Sized',
         TestStart \/ TestStop
  PROVE  SInv'
<1> DEFINE p == <<at[1], at[2], at[3], Head(types)>>
<1>1. /\ shown' = shown /\ skew' = skew /\ ended' = ended /\ testRows' = testRows
      /\ pc \in {"tests", "action"} /\ pc' \in {"tests", "action"} /\ at' = at
      /\ types' = types /\ types # <<>>
  BY DEF TestStart, TestStop, Call, reportVars, progVars, IInv, Places
<1>2. /\ DOMAIN rec' = DOMAIN rec
      /\ \A q \in DOMAIN rec : q # p => rec'[q] = rec[q]
      /\ rec'[p].committed = rec[p].committed
  <2>1. /\ p \in DOMAIN rec /\ DOMAIN rec[p] = Fields /\ rec[p].committed \in BOOLEAN
    BY <1>1, TestRecAt
  <2>2. CASE TestStart
    <3>1. pc = "tests" /\ Append(at, Head(types)) = p /\ st.trec_rept = at /\ at # NULL
      BY <1>1, <2>2, TestAt DEF TestStart, Call
    <3>2. rec' = [rec EXCEPT ![p].time[last + 1][1] = clock]
      BY <2>2, <3>1 DEF TestStart, trec_test_start
    <3> HIDE DEF p
    <3> QED BY <2>1, <3>2 DEF Fields
  <2>3. CASE TestStop
    <3>1. pc = "action" /\ st.trec_test = p
      BY <1>1, <2>3, TestAt DEF TestStop, Call
    <3> DEFINE a == st.test_action
               size == IF a = WriteRead THEN OwnSize ELSE rec[p].size
    <3>2. rec' = rec \/ rec' = [rec EXCEPT ![p].time[a][2] = clock, ![p].size = size]
      BY <2>3, <3>1 DEF TestStop, trec_test_stop
    <3> HIDE DEF p, a, size
    <3> QED BY <2>1, <3>2 DEF Fields
  <2> QED BY <2>2, <2>3
<1>3. p \in TestRecs /\ Current(p) /\ ~rec[p].committed
  BY <1>1, TestRecAt
<1> HIDE DEF p
<1>4. pc \in InTests /\ pc' \in InTests /\ pc # "done" /\ pc' # "done"
  BY <1>1 DEF InTests
<1>5. TestRecs' = TestRecs /\ \A q : Current(q)' <=> Current(q)
  BY <1>1, <1>2, <1>4 DEF TestRecs, Current
<1>6. p \notin DOMAIN shown /\ DOMAIN shown \subseteq TestRecs
  BY <1>3 DEF SInv, Shown
<1>7. \A q \in DOMAIN shown : rec'[q] = rec[q] /\ (Current(q)' => Current(q))
  BY <1>2, <1>5, <1>6, LongRecs
<1>8. \A q \in TestRecs : rec'[q].committed = rec[q].committed
  BY <1>2, LongRecs
<1> QED BY <1>1, <1>4, <1>5, <1>7, <1>8, ShownStays

\* What stays committed was shown, and is reduced now as it was when it was shown.
LEMMA ReptStopShown ==
  ASSUME IInv, EInv, SInv, Sized', NEW others \in SUBSET Type, ReptStop(others)
  PROVE  SInv'
<1>1. /\ shown' = shown /\ skew' = skew /\ testRows' = testRows
      /\ pc # "done" /\ pc' # "done"
  BY DEF ReptStop, Call, reportVars
<1>2. /\ pc' \notin InTests /\ Len(at) = 3 /\ DOMAIN rec' = DOMAIN rec
      /\ \A q \in TestRecs : q \in Tests({at}) <=> Current(q)
  <2>1. at = <<at[1], at[2], at[3]>>
    BY ReptStopIs
  <2> QED BY <2>1, ReptStopIs
<1>3. TestRecs' = TestRecs /\ \A q : ~Current(q)'
  BY <1>2 DEF TestRecs, Current
<1>4. ASSUME NEW q \in TestRecs
      PROVE  /\ rec'[q].time = rec[q].time /\ rec'[q].size = rec[q].size
             /\ rec'[q].committed => rec[q].committed
             /\ Current(q) => rec'[q].test_time = ReducedBy(rec'[q].time, skew)
             /\ ~Current(q) => rec'[q] = rec[q]
  <2>1. q \in DOMAIN rec /\ q # at /\ DOMAIN rec[q] = Fields /\ rec[q].committed \in BOOLEAN
    <3>1. q \in DOMAIN rec /\ Len(q) = 4
      BY LongRecs
    <3>2. q # at
      BY <1>2, <3>1
    <3>3. DOMAIN rec[q] = Fields /\ rec[q].committed \in BOOLEAN
      BY <3>1 DEF EInv, Shapes
    <3> QED BY <3>1, <3>2, <3>3
  <2>2. CASE Current(q)
    <3> DEFINE c == rec[q].committed /\ q[4] \in others
               t == Reduced(rec[q].time)
               s == ReducedSize(rec[q].size)
    <3>1. rec'[q] = [rec[q] EXCEPT !.committed = c, !.test_time = t, !.test_size = s]
      BY <1>2, <2>1, <2>2, ReptStopIs
    <3>2. c => rec[q].committed
      OBVIOUS
    <3>3. t = ReducedBy(rec[q].time, skew)
      BY DEF Reduced, ReducedBy
    <3> HIDE DEF c, t, s
    <3>4. /\ rec'[q].time = rec[q].time /\ rec'[q].size = rec[q].size
          /\ rec'[q].committed = c /\ rec'[q].test_time = t
      BY <2>1, <3>1 DEF Fields
    <3> QED BY <2>2, <3>2, <3>3, <3>4
  <2>3. CASE ~Current(q)
    <3>1. rec'[q] = rec[q]
      BY <1>2, <2>1, <2>3, ReptStopIs
    <3> QED BY <2>3, <3>1
  <2> QED BY <2>2, <2>3
<1>5. Shown'
  BY <1>1, <1>3, <1>4 DEF SInv, Shown
<1>6. Summed'
  BY <1>1, <1>3, <1>4 DEF SInv, Summed
<1>7. Reported'
  BY <1>1 DEF SInv, Reported
<1> QED BY <1>1, <1>5, <1>6, <1>7 DEF SInv

\* A test is committed and shown: it was not shown before.
LEMMA CommitShown ==
  ASSUME IInv, EInv, SInv, Sized', Commit
  PROVE  SInv'
<1> DEFINE p == <<at[1], at[2], at[3], Head(types)>>
           time == rec[p].time
           summary == test_show_summary(rec[p])
<1>1. /\ pc = "tests" /\ pc' = "tests" /\ at' = at /\ types # <<>> /\ last = LastAction
      /\ skew' = skew /\ testRows' = testRows
  BY DEF Commit, Call, reportVars
<1>2. last \in {3, 4}
  BY <1>1 DEF LastAction, Close, Remove
<1>3. p # NULL /\ st.trec_test = p
  <2>1. last # 0
    BY <1>2
  <2> QED BY <1>1, <2>1, TestAt
<1>4. Upto(time, last, clock) /\ NoneAfter(time, last) /\ st.test_action = NoAction
  BY <1>1, <1>2 DEF EInv, Timed
<1>5. /\ rec' = [rec EXCEPT ![p].committed = TRUE]
      /\ shown' = [q \in DOMAIN shown \cup {p} |-> IF q = p THEN summary ELSE shown[q]]
  <2>1. shown' = [q \in DOMAIN shown \cup {p} |->
                   IF q = p THEN test_show_summary(rec[q]) ELSE shown[q]]
    BY <1>3, Zenon DEF Commit
  <2>2. rec' = [rec EXCEPT ![p].committed = TRUE]
    BY <1>3, <1>4 DEF Commit, trec_test_commit
  <2>3. \A q : q = p => test_show_summary(rec[q]) = summary
    OBVIOUS
  <2> HIDE DEF p, summary
  <2> QED BY <2>1, <2>2, <2>3
<1>6. /\ p \in TestRecs /\ p \in DOMAIN rec /\ Current(p) /\ ~rec[p].committed
      /\ DOMAIN rec[p] = Fields /\ time \in [1 .. 4 -> Nat \X Nat]
  BY <1>1, TestRecAt
<1>7. summary = SummaryBy(time, rec[p].size, skew)
  BY DEF test_show_summary, SummaryBy, Reduced, ReducedBy, ReducedSize
<1>8. p \notin DOMAIN shown
  BY <1>6 DEF SInv, Shown
<1>9. clock \in Nat
  BY DEF EInv, Shapes
<1> HIDE DEF p, summary
<1>10. /\ DOMAIN rec' = DOMAIN rec
       /\ \A q \in DOMAIN rec : q # p => rec'[q] = rec[q]
       /\ rec'[p].committed /\ rec'[p].time = time /\ rec'[p].size = rec[p].size
  BY <1>5, <1>6 DEF Fields
<1> HIDE DEF time
<1>11. /\ DOMAIN shown' = DOMAIN shown \cup {p} /\ shown'[p] = summary
       /\ \A q \in DOMAIN shown : shown'[q] = shown[q]
  BY <1>5, <1>8
<1>12. TestRecs' = TestRecs /\ \A q : Current(q)' <=> Current(q)
  <2>1. pc \in InTests /\ pc' \in InTests
    BY <1>1 DEF InTests
  <2> QED BY <1>1, <1>10, <2>1 DEF TestRecs, Current
<1>13. time # NoTimes
  <2>1. 0 < time[1][1]
    BY <1>2, <1>4 DEF Upto
  <2>2. NoTimes[1][1] = 0
    BY DEF NoTimes
  <2> QED BY <2>1, <2>2
<1>14. Taken(time)
  <2> HIDE DEF Upto, NoneAfter
  <2> QED BY <1>2, <1>4, <1>9 DEF Taken, TakenUpto, Close, Remove
<1>15. Shown'
  <2>1. DOMAIN shown' \subseteq TestRecs'
    BY <1>6, <1>11, <1>12 DEF SInv, Shown
  <2>2. ASSUME NEW q \in DOMAIN shown'
        PROVE  rec'[q].time # NoTimes /\ (Current(q)' => rec'[q].committed)
    <3>1. CASE q = p
      BY <1>10, <1>13, <3>1
    <3>2. CASE q # p
      <4>1. q \in DOMAIN shown /\ q \in TestRecs
        BY <1>11, <3>2 DEF SInv, Shown
      <4> QED BY <1>10, <1>12, <3>2, <4>1, LongRecs DEF SInv, Shown
    <3> QED BY <3>1, <3>2
  <2> QED BY <2>1, <2>2 DEF Shown
<1>16. Summed'
  <2> SUFFICES ASSUME NEW q \in TestRecs, rec'[q].committed
               PROVE  /\ q \in DOMAIN shown'
                      /\ shown'[q] = SummaryBy(rec'[q].time, rec'[q].size, skew)
                      /\ Taken(rec'[q].time)
                      /\ ~Current(q) => rec'[q].test_time = ReducedBy(rec'[q].time, skew)
    BY <1>1, <1>12 DEF Summed
  <2>1. CASE q = p
    BY <1>6, <1>7, <1>10, <1>11, <1>14, <2>1
  <2>2. CASE q # p
    <3>1. rec'[q] = rec[q] /\ rec[q].committed
      BY <1>10, <2>2, LongRecs
    <3>2. /\ q \in DOMAIN shown
          /\ shown[q] = SummaryBy(rec[q].time, rec[q].size, skew)
          /\ Taken(rec[q].time)
          /\ ~Current(q) => rec[q].test_time = ReducedBy(rec[q].time, skew)
      BY <3>1 DEF SInv, Summed
    <3> QED BY <1>11, <3>1, <3>2
  <2> QED BY <2>1, <2>2
<1>17. Reported'
  BY <1>1 DEF SInv, Reported
<1> QED BY <1>1, <1>15, <1>16, <1>17 DEF SInv

\* The rows exported are those of the records as they are.
LEMMA ExportShown ==
  ASSUME SInv, Export
  PROVE  SInv'
<1>1. /\ pc = "export" /\ pc' = "done" /\ at' = at /\ rec' = rec /\ skew' = skew
      /\ shown' = shown /\ testRows' = Rows("test")
  BY DEF Export, progVars, trecVars
<1>2. TestRecs' = TestRecs /\ \A p : Current(p)' <=> Current(p)
  BY <1>1 DEF TestRecs, Current, InTests
<1>3. Sized' /\ Shown' /\ Summed'
  BY <1>1, <1>2 DEF SInv, Sized, Shown, Summed
<1>4. Reported'
  BY <1>1 DEF Reported, Rows, Committed, Ids, Times, Divided
<1> QED BY <1>1, <1>3, <1>4 DEF SInv

\* In the beginning there is no test.
LEMMA InitSInv ==
  ASSUME Init
  PROVE  SInv
<1>1. DOMAIN rec = {<<>>} /\ TestRecs = {} /\ rec[<<>>] = Zero /\ skew \in Skews
      /\ DOMAIN shown = {} /\ testRows = {} /\ pc # "done"
  BY DEF Init, TestRecs
<1>2. Zero.size = 0
  BY DEF Zero
<1> QED BY <1>1, <1>2 DEF SInv, Sized, Shown, Summed, Reported

\* The invariant of summaries is inductive, with the other two.
LEMMA NextShown ==
  ASSUME IInv, EInv, SInv, [Next]_vars
  PROVE  SInv'
<1>1. EInv' /\ PastKept /\ TestRecs \subseteq TestRecs' /\ Sized'
  BY NextEnds, NextStep, RecsStay DEF SInv
<1>2. CASE ExpStart \/ ReplStart \/ RunStop \/ ReplStop \/ ExpStop
  BY <1>1, <1>2, LoopsShown
<1>3. ASSUME NEW r \in RunIds, RunStart(r) PROVE SInv'
  BY <1>1, <1>3, RunStartShown
<1>4. CASE ReptStart
  BY <1>1, <1>4, ReptStartShown
<1>5. CASE TestStart \/ TestStop
  BY <1>1, <1>5, ActionShown
<1>6. CASE Commit
  BY <1>1, <1>6, CommitShown
<1>7. ASSUME NEW others \in SUBSET Type, ReptStop(others) PROVE SInv'
  BY <1>1, <1>7, ReptStopShown
<1>8. CASE ReptsEnd \/ Fail \/ TestsEnd \/ UNCHANGED vars
  BY <1>1, <1>8, StillShown
<1>9. CASE Export
  BY <1>9, ExportShown
<1> QED BY <1>2, <1>3, <1>4, <1>5, <1>6, <1>7, <1>8, <1>9 DEF Next

\* Some number among a few is the largest.
LEMMA LatestIs ==
  ASSUME NEW a \in 1 .. 4, NEW f \in [1 .. 4 -> Int]
  PROVE  \E x \in {f[b] : b \in 1 .. a} : \A y \in {f[b] : b \in 1 .. a} : x >= y
<1>1. f[1] \in Int /\ f[2] \in Int /\ f[3] \in Int /\ f[4] \in Int
  OBVIOUS
<1>2. PICK c \in 1 .. a : \A b \in 1 .. a : f[c] >= f[b]
  <2>1. CASE a = 1
    BY <1>1, <2>1
  <2>2. CASE a = 2
    BY <1>1, <2>2
  <2>3. CASE a = 3
    BY <1>1, <2>3
  <2>4. CASE a = 4
    BY <1>1, <2>4
  <2> QED BY <2>1, <2>2, <2>3, <2>4
<1> QED BY <1>2

\* The others go on from action to action.
LEMMA OthersGoOn ==
  ASSUME NEW time \in [1 .. 4 -> Nat \X Nat], NEW sk \in [1 .. 4 -> Int \X Int],
         NEW a \in 1 .. 4, NEW b \in 1 .. 4, a <= b, NEW event \in {1, 2}
  PROVE  /\ Others(time, sk, a, event) \in Int
         /\ Others(time, sk, a, event) <= Others(time, sk, b, event)
<1> DEFINE f == [c \in 1 .. 4 |-> time[c][event] + sk[c][event]]
           S(n) == {f[c] : c \in 1 .. n}
<1>1. \A c \in 1 .. 4 : time[c][event] + sk[c][event] \in Int
  BY SMT
<1>2. f \in [1 .. 4 -> Int] /\ \A c \in 1 .. 4 : f[c] = time[c][event] + sk[c][event]
  BY <1>1
<1> HIDE DEF f
<1>3. ASSUME NEW n \in 1 .. 4
      PROVE  /\ Others(time, sk, n, event) = Max(S(n))
             /\ Max(S(n)) \in S(n) /\ \A y \in S(n) : Max(S(n)) >= y
  <2>1. {time[c][event] + sk[c][event] : c \in 1 .. n} = S(n)
    <3>1. \A c \in 1 .. n : c \in 1 .. 4
      BY SMT
    <3> QED BY <1>2, <3>1
  <2>2. \E x \in S(n) : \A y \in S(n) : x >= y
    BY <1>2, LatestIs
  <2> QED BY <2>1, <2>2, Zenon DEF Others, Max
<1>4. S(a) \subseteq S(b) /\ S(a) \subseteq Int /\ S(b) \subseteq Int
  <2>1. (\A c \in 1 .. a : c \in 1 .. b) /\ \A c \in 1 .. b : c \in 1 .. 4
    BY SMT
  <2> QED BY <1>2, <2>1
<1> HIDE DEF S
<1>5. Max(S(a)) \in Int /\ Max(S(b)) \in Int /\ Max(S(b)) >= Max(S(a))
  BY <1>3, <1>4
<1> QED BY <1>3, <1>5

\* Of the actions taken, all tasks start the first one first and stop the last
\* one last, and none of their times is that of an action not taken.
LEMMA TotalIs ==
  ASSUME NEW time \in [1 .. 4 -> Nat \X Nat], NEW sk \in Skews,
         NEW n \in {Close, Remove}, TakenUpto(time, n)
  PROVE  LET R == ReducedBy(time, sk) IN
         /\ Total(R) = R[n][2] - R[1][1]
         /\ \A b \in 1 .. 4 : R[b][2] > 0 <=> b <= n
         /\ \A b \in 1 .. n : R[1][1] <= R[b][1] /\ R[b][2] <= R[n][2]
         /\ \A b \in 1 .. 4 : R[b][1] \in Int /\ R[b][2] \in Int
<1> DEFINE R == ReducedBy(time, sk)
<1>1. PICK now \in Nat : Upto(time, n, now)
  BY DEF TakenUpto
<1>2. NoneAfter(time, n) /\ n \in {3, 4}
  BY DEF TakenUpto, Close, Remove
<1>3. \A b \in 1 .. 4 : /\ time[b][1] \in Nat /\ time[b][2] \in Nat
                        /\ Others(time, sk, b, 1) \in Int /\ Others(time, sk, b, 2) \in Int
  <2>1. sk \in [1 .. 4 -> Int \X Int]
    BY TrecAssumption
  <2>2. ASSUME NEW b \in 1 .. 4
        PROVE  Others(time, sk, b, 1) \in Int /\ Others(time, sk, b, 2) \in Int
    BY <2>1, OthersGoOn
  <2> QED BY <2>2
<1>4. \A b \in 1 .. n : /\ b \in 1 .. 4 /\ time[b] # <<0, 0>>
                        /\ 0 < time[b][1] /\ time[b][1] < time[b][2]
  <2>1. \A b \in 1 .. n : b \in 1 .. 4 /\ 0 < time[b][1] /\ time[b][1] < time[b][2]
    BY <1>1, <1>2 DEF Upto
  <2>2. <<0, 0>>[1] = 0
    OBVIOUS
  <2> QED BY <2>1, <2>2
<1>5. \A b \in 1 .. 4 : b > n => R[b] = <<0, 0>>
  BY <1>2 DEF ReducedBy, NoneAfter
<1>6. \A b \in 1 .. n :
        R[b] = << Smaller(time[b][1], Others(time, sk, b, 1)),
                  Larger(time[b][2], Others(time, sk, b, 2)) >>
  BY <1>2, <1>4 DEF ReducedBy
<1> HIDE DEF R
<1>7. ASSUME NEW b \in 1 .. n
      PROVE  /\ R[b][1] \in Int /\ R[b][2] \in Int
             /\ R[b][1] = Smaller(time[b][1], Others(time, sk, b, 1))
             /\ R[b][2] = Larger(time[b][2], Others(time, sk, b, 2))
             /\ R[b][1] <= time[b][1] /\ time[b][2] <= R[b][2]
             /\ R[b][1] < R[b][2] /\ 0 < R[b][2]
  <2>1. /\ R[b][1] = Smaller(time[b][1], Others(time, sk, b, 1))
        /\ R[b][2] = Larger(time[b][2], Others(time, sk, b, 2))
    BY <1>6
  <2>2. b \in 1 .. 4 /\ 0 < time[b][1] /\ time[b][1] < time[b][2]
    BY <1>4
  <2> QED BY <1>3, <2>1, <2>2 DEF Smaller, Larger
<1>8. ASSUME NEW a \in 1 .. n, NEW b \in 1 .. n, a < b
      PROVE  time[a][2] < time[b][1]
  <2>1. \A c \in 2 .. n : time[c - 1][2] < time[c][1]
    BY <1>1, <1>2 DEF Upto
  <2>2. /\ time[1][2] < time[2][1] /\ time[2][2] < time[3][1]
        /\ n = 4 => time[3][2] < time[4][1]
    BY <1>2, <2>1
  <2>3. /\ time[2][1] < time[2][2] /\ time[3][1] < time[3][2]
        /\ n = 4 => time[4][1] < time[4][2]
    BY <1>2, <1>4
  <2>4. \A c \in 1 .. 4 : time[c][1] \in Nat /\ time[c][2] \in Nat
    BY <1>3
  <2>5. \/ a = 1 /\ b = 2
        \/ b = 3 /\ a \in {1, 2}
        \/ n = 4 /\ b = 4 /\ a \in {1, 2, 3}
    BY <1>2, <1>8
  <2> QED BY <1>2, <2>2, <2>3, <2>4, <2>5
<1>9. ASSUME NEW a \in 1 .. n, NEW b \in 1 .. n, a < b
      PROVE  R[a][1] <= R[b][1] /\ R[a][2] <= R[b][2]
  <2>1. /\ time[a][1] < time[a][2] /\ time[a][2] < time[b][1] /\ time[b][1] < time[b][2]
        /\ a \in 1 .. 4 /\ b \in 1 .. 4
    BY <1>4, <1>8, <1>9
  <2>2. /\ Others(time, sk, a, 1) <= Others(time, sk, b, 1)
        /\ Others(time, sk, a, 2) <= Others(time, sk, b, 2)
    <3>1. a <= b /\ sk \in [1 .. 4 -> Int \X Int]
      BY <1>9, <2>1, TrecAssumption
    <3> QED BY <2>1, <3>1, OthersGoOn
  <2>3. /\ time[a][1] \in Nat /\ time[a][2] \in Nat /\ time[b][1] \in Nat /\ time[b][2] \in Nat
        /\ Others(time, sk, a, 1) \in Int /\ Others(time, sk, a, 2) \in Int
        /\ Others(time, sk, b, 1) \in Int /\ Others(time, sk, b, 2) \in Int
    BY <1>3, <2>1
  <2>4. time[a][1] <= time[b][1] /\ time[a][2] <= time[b][2]
    BY <2>1, <2>3
  <2>5. /\ R[a][1] = Smaller(time[a][1], Others(time, sk, a, 1))
        /\ R[a][2] = Larger(time[a][2], Others(time, sk, a, 2))
        /\ R[b][1] = Smaller(time[b][1], Others(time, sk, b, 1))
        /\ R[b][2] = Larger(time[b][2], Others(time, sk, b, 2))
    BY <1>7
  <2> QED BY <2>2, <2>3, <2>4, <2>5 DEF Smaller, Larger
<1>10. \A b \in 1 .. n : R[1][1] <= R[b][1] /\ R[b][2] <= R[n][2]
  <2>1. 1 \in 1 .. n /\ n \in 1 .. n
    BY <1>2
  <2> QED BY <1>2, <1>7, <1>9, <2>1
<1>11. \A b \in 1 .. 4 : b > n => R[b][1] = 0 /\ R[b][2] = 0
  BY <1>5
<1>12. \A b \in 1 .. 4 : b \in 1 .. n \/ b > n
  BY <1>2
<1>13. \A b \in 1 .. 4 : R[b][1] \in Int /\ R[b][2] \in Int
  BY <1>7, <1>11, <1>12
<1>14. \A b \in 1 .. 4 : R[b][2] > 0 <=> b <= n
  BY <1>2, <1>7, <1>11, <1>12
<1>15. Total(R) = R[n][2] - R[1][1]
  <2>1. CASE n = 4
    <3>1. R[4][2] - R[4][1] > 0
      BY <1>7, <1>13, <2>1
    <3> QED BY <2>1, <3>1 DEF Total, Remove, Close, CreateOpen
  <2>2. CASE n = 3
    <3>1. ~(R[4][2] - R[4][1] > 0)
      BY <1>11, <2>2
    <3> QED BY <2>2, <3>1 DEF Total, Remove, Close, CreateOpen
  <2> QED BY <1>2, <2>1, <2>2
<1> QED BY <1>10, <1>13, <1>14, <1>15 DEF R

\* The report per test agrees with what was shown of each test when it ended: the
\* latencies, the total and the size, though test_show_summary() and the end of the
\* repetition reduce the times each on its own, and csv_export_rows() comes after
\* repetitions that failed.
THEOREM SummariesAlwaysAgree == Spec => []SummaryAgrees
<1>1. Init => EInv /\ SInv
  BY InitEInv, InitSInv
<1>2. IInv /\ EInv /\ SInv /\ [Next]_vars => EInv' /\ SInv'
  BY NextEnds, NextShown
<1>3. IInv /\ EInv /\ SInv => SummaryAgrees
  <2> SUFFICES ASSUME IInv, EInv, SInv, NEW row \in testRows
               PROVE  LET p      == SubSeq(row, 1, 4)
                          ofTest == {other \in testRows :
                                       SubSeq(other, 1, 4) = p /\ other[6][2] > 0}
                      IN  /\ p \in DOMAIN shown
                          /\ shown[p].latency[row[5]] = row[6][2] - row[6][1]
                          /\ \A x, y \in ofTest : x[6][2] - y[6][1] <= shown[p].total
                          /\ \E x, y \in ofTest : x[6][2] - y[6][1] = shown[p].total
                          /\ row[5] = WriteRead => row[7] = shown[p].size - OtherSize
    BY DEF SummaryAgrees
  <2> DEFINE Row(p, a) == p \o <<a, rec[p].test_time[a], Divided(p, a)>>
  <2>1. pc = "done" /\ testRows = Rows("test")
    BY DEF SInv, Reported
  <2>2. \A p : ~Current(p)
    BY <2>1 DEF Current, InTests
  <2>3. \A p \in Committed : p \in TestRecs /\ rec[p].committed
    BY DEF Committed, TestRecs
  <2>4. \A p \in TestRecs : rec[p].committed => p \in Committed /\ Ids(p) = p
    BY <2>1, IdsAre
  <2>5. \A x : x \in testRows <=> \E p \in Committed, a \in 1 .. 4 : x = Row(p, a)
    <3> DEFINE made(p, a) == Ids(p) \o <<a, Times(p, "test")[a], Divided(p, a)>>
    <3>1. testRows = {made(p, a) : p \in Committed, a \in 1 .. 4}
      BY <2>1 DEF Rows
    <3>2. \A p, a : Times(p, "test")[a] = rec[p].test_time[a]
      BY DEF Times
    <3>3. \A p \in Committed, a \in 1 .. 4 : made(p, a) = Row(p, a)
      BY <2>3, <2>4, <3>2, Zenon
    <3> HIDE DEF Row, made
    <3> QED BY <3>1, <3>3
  <2>6. ASSUME NEW p \in Committed, NEW a \in 1 .. 4
        PROVE  /\ SubSeq(Row(p, a), 1, 4) = p /\ Row(p, a)[5] = a
               /\ Row(p, a)[6] = rec[p].test_time[a] /\ Row(p, a)[7] = Divided(p, a)
    <3> DEFINE i == p[1]
               r == p[2]
               k == p[3]
               e == p[4]
               t == rec[p].test_time[a]
               d == Divided(p, a)
    <3>1. i \in Nat /\ r \in Nat /\ k \in Nat /\ e \in Type /\ p = <<i, r, k, e>>
      BY <2>1, <2>3, IdsAre
    <3> HIDE DEF i, r, k, e, t, d
    <3>2. LET w == <<i, r, k, e>> \o <<a, t, d>> IN
          SubSeq(w, 1, 4) = <<i, r, k, e>> /\ w[5] = a /\ w[6] = t /\ w[7] = d
      BY <3>1, RowIs
    <3> QED BY <3>1, <3>2 DEF t, d
  <2> HIDE DEF Row
  <2>7. PICK p \in Committed, a \in 1 .. 4 : row = Row(p, a)
    BY <2>5
  <2> DEFINE time == rec[p].time
             R    == ReducedBy(time, skew)
             ofTest == {other \in testRows :
                          SubSeq(other, 1, 4) = p /\ other[6][2] > 0}
  <2>8. /\ SubSeq(row, 1, 4) = p /\ row[5] = a
        /\ row[6] = rec[p].test_time[a] /\ row[7] = Divided(p, a)
    BY <2>6, <2>7
  <2>9. /\ p \in TestRecs /\ p \in DOMAIN shown /\ Taken(time)
        /\ shown[p] = SummaryBy(time, rec[p].size, skew) /\ rec[p].test_time = R
    BY <2>2, <2>3 DEF SInv, Summed
  <2>10. time \in [1 .. 4 -> Nat \X Nat] /\ rec[p].size \in Nat /\ skew \in Skews
    BY <2>9, LongRecs DEF EInv, Shapes, SInv, Sized
  <2>11. PICK n \in {Close, Remove} : TakenUpto(time, n)
    BY <2>9 DEF Taken
  <2>12. /\ Total(R) = R[n][2] - R[1][1]
         /\ \A b \in 1 .. 4 : R[b][2] > 0 <=> b <= n
         /\ \A b \in 1 .. n : R[1][1] <= R[b][1] /\ R[b][2] <= R[n][2]
         /\ \A b \in 1 .. 4 : R[b][1] \in Int /\ R[b][2] \in Int
    BY <2>10, <2>11, TotalIs
  <2>13. /\ shown[p].latency = [b \in 1 .. 4 |-> R[b][2] - R[b][1]]
         /\ shown[p].total = Total(R) /\ shown[p].size = rec[p].size + OtherSize
    BY <2>9 DEF SummaryBy
  <2> HIDE DEF time, R
  <2>14. n \in 1 .. 4 /\ 1 \in 1 .. n
    BY DEF Close, Remove
  <2>15. \A b \in 1 .. n : Row(p, b) \in ofTest /\ Row(p, b)[6] = R[b]
    <3> TAKE b \in 1 .. n
    <3>1. b \in 1 .. 4 /\ b <= n
      BY <2>14
    <3>2. Row(p, b) \in testRows
      BY <2>5, <3>1
    <3> QED BY <2>6, <2>9, <2>12, <3>1, <3>2
  <2>16. \A x \in ofTest : \E b \in 1 .. n : x[6] = R[b]
    <3> TAKE x \in ofTest
    <3>1. PICK q \in Committed, b \in 1 .. 4 : x = Row(q, b)
      BY <2>5
    <3>2. q = p /\ x[6] = R[b] /\ R[b][2] > 0
      BY <2>6, <2>9, <3>1
    <3>3. b <= n
      BY <2>12, <3>2
    <3> QED BY <2>14, <3>2, <3>3
  <2>17. shown[p].latency[row[5]] = row[6][2] - row[6][1]
    BY <2>8, <2>9, <2>13
  <2>18. \A x, y \in ofTest : x[6][2] - y[6][1] <= shown[p].total
    <3> TAKE x, y \in ofTest
    <3>1. PICK b \in 1 .. n, c \in 1 .. n : x[6] = R[b] /\ y[6] = R[c]
      BY <2>16
    <3>2. R[b][2] <= R[n][2] /\ R[1][1] <= R[c][1]
      BY <2>12
    <3>3. /\ R[b][2] \in Int /\ R[n][2] \in Int /\ R[1][1] \in Int /\ R[c][1] \in Int
      BY <2>12, <2>14
    <3>4. R[b][2] - R[c][1] <= R[n][2] - R[1][1]
      BY <3>2, <3>3
    <3> QED BY <2>12, <2>13, <3>1, <3>4
  <2>19. \E x, y \in ofTest : x[6][2] - y[6][1] = shown[p].total
    <3>1. n \in 1 .. n
      BY <2>14
    <3>2. /\ Row(p, n) \in ofTest /\ Row(p, n)[6] = R[n]
          /\ Row(p, 1) \in ofTest /\ Row(p, 1)[6] = R[1]
      BY <2>14, <2>15, <3>1
    <3>3. shown[p].total = R[n][2] - R[1][1]
      BY <2>12, <2>13
    <3> HIDE DEF ofTest
    <3> QED BY <3>2, <3>3
  <2>20. row[5] = WriteRead => row[7] = shown[p].size - OtherSize
    <3>1. OtherSize \in Nat
      BY TrecAssumption
    <3> QED BY <2>8, <2>10, <2>13, <3>1 DEF Divided
  <2> QED BY <2>8, <2>9, <2>17, <2>18, <2>19, <2>20
<1> QED BY <1>1, <1>2, <1>3, Inductive, PTL DEF Spec

================================================================================
