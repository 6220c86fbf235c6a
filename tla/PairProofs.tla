------------------------------ MODULE PairProofs ------------------------------
(***************************************************************************)
(* Theorems about the scans over two legs, for any legs, windows, lags and *)
(* fits: a number of a finding is made of the closes its label says, and   *)
(* no window is lost or given twice.                                       *)
(*                                                                         *)
(* The reference speaks of the bars both legs have and of their ranks, the *)
(* code of indices into the columns its two cursors have filled.  Merged   *)
(* says how far the cursors and the columns agree; when a cursor has come  *)
(* to its end, the rank of a joint bar is its index.                       *)
(*                                                                         *)
(* A verdict about a structural break compares a fit with the median of    *)
(* the fits before it, which the code takes from a sorted copy: the sorted *)
(* copy is spoken of by the rank of a value among the values.              *)
(***************************************************************************)
EXTENDS ScanRun, SequenceTheorems, FiniteSetTheorems, TLAPS

PairPcs == {"enter", "join", "before", "kernel", "after", "emit", "fit", "done"}

JointClose == [ts : Int, a : Int, b : Int]
Fit == [from : Int, to : Int, p : PValues, beta : Int, lost : BOOLEAN, drift : BOOLEAN]

\* What run is given.
Feed == /\ job.size \in Int /\ job.step \in Int /\ job.floor \in Int
        /\ Ascends(legs[1]) /\ Ascends(legs[2])

\* The columns hold the joint bars the cursors have passed, and neither cursor has
\* passed a joint bar without the other.
Columns == /\ aligned \in Seq(JointClose)
           /\ \A i \in DOMAIN aligned : aligned[i].a = aligned[i].ts /\ aligned[i].b = aligned[i].ts
           /\ \A i, k \in DOMAIN aligned : i < k => aligned[i].ts < aligned[k].ts
Merged ==
  /\ ia \in 1..(Len(legs[1]) + 1) /\ ib \in 1..(Len(legs[2]) + 1)
  /\ \A i \in DOMAIN aligned :
       \E x \in 1..(ia - 1), y \in 1..(ib - 1) : aligned[i].ts = legs[1][x] /\ aligned[i].ts = legs[2][y]
  /\ \A x \in DOMAIN legs[1], y \in DOMAIN legs[2] :
       legs[1][x] = legs[2][y] /\ (x < ia \/ y < ib) =>
         \E i \in DOMAIN aligned : aligned[i].ts = legs[1][x]

\* The join is over and the parameters are accepted.
Passed == (ia > Len(legs[1]) \/ ib > Len(legs[2])) /\ Accepts(job)

\* The windows of the rolling fit.
Fitted ==
  /\ fits \in Seq(Fit)
  /\ ever \in BOOLEAN
  /\ \A i \in DOMAIN fits : /\ fits[i].from = 1 + (i - 1) * Step
                            /\ fits[i].to = fits[i].from + job.size - 1
                            /\ fits[i].to <= AlignedN
  /\ begin = 1 + Len(fits) * Step

\* The Result of window i, and all there is to write.
Window(i) == [start |-> aligned[fits[i].from].ts, end |-> aligned[fits[i].to].ts,
              uses |-> Closes(fits[i].from, fits[i].to), lost |-> fits[i].lost, drift |-> fits[i].drift]
Rolling == job.scan = "cointegration"

\* What has been written, and when.
Written ==
  /\ pc \in PairPcs
  /\ pc # "done" => res = "none"
  /\ pc \in {"before", "kernel", "after", "emit", "fit"} \/ out # <<>> => Passed
  /\ pc \notin {"emit", "done"} \/ res = "Kernel" => out = <<>>
  /\ pc = "kernel" => ~Rolling
  /\ pc = "fit" => Rolling
  /\ Rolling => /\ out \in Seq({Window(i) : i \in DOMAIN fits}) /\ Len(out) <= Len(fits)
                /\ \A i \in DOMAIN out : out[i] = Window(i)
                /\ pc \in {"after", "emit"} \/ out # <<>> => ~MoreWindows
  /\ ~Rolling => /\ pc # "done" => out = <<>>
                 /\ out \in {<<>>, <<Numbers>>}
  /\ res = "Ok" /\ ~cancel => /\ Passed
                              /\ IF Rolling THEN Len(out) = Len(fits) /\ ~MoreWindows
                                 ELSE out = <<Numbers>>

PairInv == Feed /\ Columns /\ Merged /\ Fitted /\ Written
IndInv == job.scan \in PairKinds => PairInv

----------------------------------------------------------------------------
(* Indices and ranks. *)

\* The joint bars are those of the columns.
LEMMA JointBars ==
  ASSUME Feed, Columns, Merged, Passed
  PROVE  Joint = {aligned[i].ts : i \in DOMAIN aligned}
<1>1. /\ DOMAIN legs[1] = 1..Len(legs[1]) /\ Len(legs[1]) \in Nat
      /\ DOMAIN legs[2] = 1..Len(legs[2]) /\ Len(legs[2]) \in Nat
  BY LenProperties DEF Feed, Ascends
<1>2. ASSUME NEW t \in Joint PROVE t \in {aligned[i].ts : i \in DOMAIN aligned}
  <2>1. PICK x \in DOMAIN legs[1], y \in DOMAIN legs[2] : legs[1][x] = t /\ legs[2][y] = t
    BY <1>2 DEF Joint, ToSet
  <2>2. x < ia \/ y < ib
    BY <1>1, <2>1, SMTT(30) DEF Merged, Passed
  <2> QED BY <2>1, <2>2 DEF Merged
<1>3. ASSUME NEW i \in DOMAIN aligned PROVE aligned[i].ts \in Joint
  <2>1. PICK x \in 1..(ia - 1), y \in 1..(ib - 1) :
               aligned[i].ts = legs[1][x] /\ aligned[i].ts = legs[2][y]
    BY <1>3 DEF Merged
  <2>2. x \in DOMAIN legs[1] /\ y \in DOMAIN legs[2]
    BY <1>1, <2>1 DEF Merged
  <2> QED BY <2>1, <2>2 DEF Joint, ToSet
<1> QED BY <1>2, <1>3

\* The rank of a joint bar is its index.
LEMMA RankIsIndex ==
  ASSUME Feed, Columns, Merged, Passed
  PROVE  /\ AlignedN \in Nat /\ DOMAIN aligned = 1..AlignedN
         /\ \A i \in 1..AlignedN : aligned[i].ts \in Int /\ Rank(aligned[i].ts) = i
         /\ Cardinality(Joint) = AlignedN
<1>1. AlignedN \in Nat /\ DOMAIN aligned = 1..AlignedN
  BY LenProperties DEF Columns, AlignedN
<1>2. \A i \in 1..AlignedN : aligned[i].ts \in Int
  <2>1. aligned \in [1..AlignedN -> JointClose]
    BY LenProperties DEF Columns, AlignedN
  <2> QED BY <2>1 DEF JointClose
<1>3. ASSUME NEW n \in 0..AlignedN
      PROVE  Cardinality({aligned[k].ts : k \in 1..n}) = n
  <2> DEFINE S == {aligned[k].ts : k \in 1..n}
             f == [k \in 1..n |-> aligned[k].ts]
  <2>1. f \in [1..n -> S] /\ \A t \in S : \E k \in 1..n : f[k] = t
    OBVIOUS
  <2>2. \A k, l \in 1..n : f[k] = f[l] => k = l
    BY <1>1, <1>2 DEF Columns
  <2>3. f \in Bijection(1..n, S)
    BY <2>1, <2>2 DEF Bijection, Injection, Surjection, IsInjective
  <2>4. ExistsBijection(1..n, S)
    BY <2>3 DEF ExistsBijection
  <2> QED BY <2>4, FS_CountingElements
<1>4. Joint = {aligned[k].ts : k \in 1..AlignedN}
  BY <1>1, JointBars
<1>5. ASSUME NEW i \in 1..AlignedN PROVE Rank(aligned[i].ts) = i
  <2>1. {u \in Joint : u <= aligned[i].ts} = {aligned[k].ts : k \in 1..i}
    BY <1>1, <1>2, <1>4, SMTT(30) DEF Columns
  <2> QED BY <1>1, <1>3, <2>1 DEF Rank
<1>6. Cardinality(Joint) = AlignedN
  BY <1>1, <1>3, <1>4
<1> QED BY <1>1, <1>2, <1>5, <1>6

\* The closes of the columns from one bar to another are those of the bars of these
\* ranks.
LEMMA ClosesOfBars ==
  ASSUME Feed, Columns, Merged, Passed, NEW m \in Int, NEW n \in Int, 1 <= m, n <= AlignedN
  PROVE  /\ Bars(m, n) = {aligned[i].ts : i \in m..n}
         /\ Closes(m, n) = BothLegs(Bars(m, n))
<1>1. /\ AlignedN \in Nat /\ DOMAIN aligned = 1..AlignedN
      /\ \A i \in 1..AlignedN : aligned[i].ts \in Int /\ Rank(aligned[i].ts) = i
      /\ Joint = {aligned[i].ts : i \in 1..AlignedN}
  BY RankIsIndex, JointBars
<1>2. Bars(m, n) = {aligned[i].ts : i \in m..n}
  BY <1>1 DEF Bars
<1>3. \A i \in m..n : aligned[i].a = aligned[i].ts /\ aligned[i].b = aligned[i].ts
  BY <1>1, SMTT(30) DEF Columns
<1>4. Closes(m, n) = {<<1, aligned[i].ts>> : i \in m..n} \cup {<<2, aligned[i].ts>> : i \in m..n}
  BY <1>3 DEF Closes
<1>5. Closes(m, n) = BothLegs(Bars(m, n))
  BY <1>2, <1>4 DEF BothLegs
<1> QED BY <1>2, <1>5

----------------------------------------------------------------------------
(* Steps. *)

\* A run over two legs takes the steps of PairNext.
LEMMA PairSteps ==
  ASSUME Written, [Next]_vars
  PROVE  PairNext \/ Interrupt \/ UNCHANGED vars
BY DEF Written, PairPcs, Next, Start, Params, PollRow, RunSeries, WriteFound, Stopped

\* Only the join moves the columns, and no step the request.
LEMMA Stays ==
  ASSUME Written, [Next]_vars
  PROVE  /\ UNCHANGED <<job, legs>>
         /\ UNCHANGED joinVars \/ JoinStep
         /\ cancel => cancel'
         /\ UNCHANGED fitVars \/ FitWindow
<1> USE DEF dataVars
<1>1. CASE PairNext
  <2>1. CASE Enter \/ Resolve \/ PollBefore \/ RunKernel
    BY <2>1 DEF Enter, Resolve, PollBefore, RunKernel
  <2>2. CASE PollAfter \/ EmitAll \/ FitsDone \/ EmitWindow
    BY <2>2 DEF PollAfter, EmitAll, FitsDone, EmitWindow
  <2>3. CASE JoinStep
    BY <2>3 DEF JoinStep
  <2>4. CASE FitWindow
    BY <2>4 DEF FitWindow
  <2> QED BY <1>1, <2>1, <2>2, <2>3, <2>4 DEF PairNext
<1>2. CASE Interrupt
  BY <1>2 DEF Interrupt, dataVars
<1>3. CASE UNCHANGED vars
  BY <1>3 DEF vars, dataVars
<1> QED BY <1>1, <1>2, <1>3, PairSteps

\* The request and the bars stay what they are.
LEMMA FeedStep ==
  ASSUME Feed, Written, [Next]_vars
  PROVE  Feed'
BY Stays DEF Feed

\* What is made of the columns does not move when they do not.
LEMMA Unmoved ==
  ASSUME UNCHANGED <<job, legs, joinVars>>
  PROVE  /\ AlignedN' = AlignedN /\ Numbers' = Numbers /\ Step' = Step
         /\ Passed' <=> Passed
         /\ \A m, n : Closes(m, n)' = Closes(m, n)
<1> USE DEF joinVars
<1>1. AlignedN' = AlignedN /\ ReturnsN' = ReturnsN /\ Step' = Step
  BY DEF AlignedN, ReturnsN, Step
<1>2. \A m, n : Closes(m, n)' = Closes(m, n)
  BY DEF Closes
<1>3. Passed' <=> Passed
  BY <1>1 DEF Passed, Accepts, RollingAccepts, LeadLagAccepts, EngleGrangerAccepts, CointegrationAccepts
<1>4. Numbers' = Numbers
  BY <1>1 DEF Numbers, Stamped, CorrWindows, OlsWindows, LagNumbers, EngleGrangerNumbers, ReturnOf, Closes
<1> QED BY <1>1, <1>2, <1>3, <1>4

LEMMA MergedNext ==
  ASSUME legs' = legs, ia' \in 1..(Len(legs[1]) + 1), ib' \in 1..(Len(legs[2]) + 1),
         \A i \in DOMAIN aligned' :
           \E x \in 1..(ia' - 1), y \in 1..(ib' - 1) :
             aligned'[i].ts = legs[1][x] /\ aligned'[i].ts = legs[2][y],
         \A x \in DOMAIN legs[1], y \in DOMAIN legs[2] :
           legs[1][x] = legs[2][y] /\ (x < ia' \/ y < ib') =>
             \E i \in DOMAIN aligned' : aligned'[i].ts = legs[1][x]
  PROVE  Merged'
BY DEF Merged

\* A cursor that goes past a bar the other one has passed, or does not have.
LEMMA NotJoined ==
  ASSUME Columns, Merged, legs' = legs, aligned' = aligned,
         ia' \in 1..(Len(legs[1]) + 1), ib' \in 1..(Len(legs[2]) + 1), ia <= ia', ib <= ib',
         Len(legs[1]) \in Nat, Len(legs[2]) \in Nat,
         \A x \in DOMAIN legs[1], y \in DOMAIN legs[2] :
           legs[1][x] = legs[2][y] /\ (x < ia' \/ y < ib') => x < ia \/ y < ib
  PROVE  (Columns /\ Merged)'
<1>1. Columns'
  BY DEF Columns
<1>2. {ia, ib, ia', ib'} \subseteq Int
  BY SMTT(30) DEF Merged
<1>3. 1..(ia - 1) \subseteq 1..(ia' - 1) /\ 1..(ib - 1) \subseteq 1..(ib' - 1)
  BY <1>2
<1>4. ASSUME NEW i \in DOMAIN aligned
      PROVE  \E x \in 1..(ia' - 1), y \in 1..(ib' - 1) : aligned[i].ts = legs[1][x] /\ aligned[i].ts = legs[2][y]
  BY <1>3 DEF Merged
<1>5. ASSUME NEW x \in DOMAIN legs[1], NEW y \in DOMAIN legs[2],
             legs[1][x] = legs[2][y], x < ia' \/ y < ib'
      PROVE  \E i \in DOMAIN aligned' : aligned'[i].ts = legs[1][x]
  <2>1. x < ia \/ y < ib
    BY <1>5, Zenon
  <2> QED BY <1>5, <2>1, Zenon DEF Merged
<1> QED BY <1>1, <1>4, <1>5, MergedNext, Zenon

LEMMA NextIndex ==
  ASSUME NEW n \in Nat, NEW c \in 1..n, NEW d, d = c + 1
  PROVE  d \in 1..(n + 1) /\ 1..c = 1..(d - 1)
OBVIOUS

\* Both cursors go past a joint bar.
LEMMA Joined ==
  ASSUME Columns, Merged, legs' = legs, NEW t \in Int,
         DOMAIN legs[1] = 1..Len(legs[1]), Len(legs[1]) \in Nat,
         DOMAIN legs[2] = 1..Len(legs[2]), Len(legs[2]) \in Nat,
         \A x \in 1..Len(legs[1]) : legs[1][x] \in Int /\ (legs[1][x] < t <=> x < ia),
         ia \in 1..Len(legs[1]), ib \in 1..Len(legs[2]),
         legs[1][ia] = t, legs[2][ib] = t, ia' = ia + 1, ib' = ib + 1,
         aligned' = Append(aligned, [ts |-> t, a |-> t, b |-> t])
  PROVE  (Columns /\ Merged)'
<1> DEFINE n == Len(aligned)
<1>1. /\ aligned' \in Seq(JointClose) /\ n \in Nat
      /\ DOMAIN aligned = 1..n /\ DOMAIN aligned' = 1..(n + 1)
      /\ \A i \in 1..n : aligned'[i] = aligned[i]
      /\ aligned'[n + 1].ts = t /\ aligned'[n + 1].a = t /\ aligned'[n + 1].b = t
  <2>1. [ts |-> t, a |-> t, b |-> t] \in JointClose
    BY DEF JointClose
  <2> QED BY <2>1, AppendProperties, LenProperties DEF Columns
<1>2. ASSUME NEW i \in 1..n
      PROVE  \E x \in 1..(ia - 1), y \in 1..(ib - 1) :
               aligned[i].ts = legs[1][x] /\ aligned[i].ts = legs[2][y]
  BY <1>1 DEF Merged
<1>3. ASSUME NEW i \in 1..n PROVE aligned[i].ts \in Int /\ aligned[i].ts < t
  <2>1. PICK x \in 1..(ia - 1) : aligned[i].ts = legs[1][x]
    BY <1>2
  <2>2. x \in 1..Len(legs[1]) /\ x < ia
    BY <2>1, SMTT(30)
  <2> QED BY <2>1, <2>2
<1> HIDE DEF n
<1>4. Columns'
  <2>1. \A i \in DOMAIN aligned' : aligned'[i].a = aligned'[i].ts /\ aligned'[i].b = aligned'[i].ts
    <3> SUFFICES ASSUME NEW i \in 1..(n + 1)
                 PROVE  aligned'[i].a = aligned'[i].ts /\ aligned'[i].b = aligned'[i].ts
      BY <1>1
    <3>1. CASE i \in 1..n
      BY <1>1, <3>1 DEF Columns
    <3>2. CASE i = n + 1
      BY <1>1, <3>2
    <3> QED BY <1>1, <3>1, <3>2
  <2>2. \A i, k \in DOMAIN aligned' : i < k => aligned'[i].ts < aligned'[k].ts
    <3> SUFFICES ASSUME NEW i \in 1..(n + 1), NEW k \in 1..(n + 1), i < k
                 PROVE  aligned'[i].ts < aligned'[k].ts
      BY <1>1
    <3>1. i \in 1..n
      BY <1>1
    <3>2. CASE k \in 1..n
      BY <1>1, <3>1, <3>2 DEF Columns
    <3>3. CASE k = n + 1
      BY <1>1, <1>3, <3>1, <3>3
    <3>4. k \in 1..n \/ k = n + 1
      BY <1>1
    <3> QED BY <3>2, <3>3, <3>4
  <2> QED BY <1>1, <2>1, <2>2 DEF Columns
<1>5. \A i \in DOMAIN aligned' :
        \E x \in 1..(ia' - 1), y \in 1..(ib' - 1) :
          aligned'[i].ts = legs[1][x] /\ aligned'[i].ts = legs[2][y]
  <2>1. 1..ia = 1..(ia' - 1)
    BY NextIndex, SMTT(30)
  <2>2. 1..ib = 1..(ib' - 1)
    BY NextIndex, SMTT(30)
  <2>3. ASSUME NEW i \in 1..n
        PROVE  \E x \in 1..(ia' - 1), y \in 1..(ib' - 1) :
                 aligned'[i].ts = legs[1][x] /\ aligned'[i].ts = legs[2][y]
    <3>1. PICK x \in 1..(ia - 1), y \in 1..(ib - 1) :
                 aligned[i].ts = legs[1][x] /\ aligned[i].ts = legs[2][y]
      BY <1>2, <2>3
    <3>2. x \in 1..(ia' - 1) /\ y \in 1..(ib' - 1)
      BY <3>1, <2>1, <2>2
    <3>3. aligned'[i] = aligned[i]
      BY <1>1, <2>3
    <3> QED BY <3>1, <3>2, <3>3, Zenon
  <2>4. \E x \in 1..(ia' - 1), y \in 1..(ib' - 1) :
          aligned'[n + 1].ts = legs[1][x] /\ aligned'[n + 1].ts = legs[2][y]
    <3>1. ia \in 1..(ia' - 1) /\ ib \in 1..(ib' - 1)
      BY SMTT(30)
    <3>2. aligned'[n + 1].ts = legs[1][ia] /\ aligned'[n + 1].ts = legs[2][ib]
      BY <1>1, Zenon
    <3> QED BY <3>1, <3>2, Zenon
  <2>5. \A i \in DOMAIN aligned' : i \in 1..n \/ i = n + 1
    BY <1>1
  <2> TAKE i \in DOMAIN aligned'
  <2>6. CASE i \in 1..n
    BY <2>3, <2>6
  <2>7. CASE i = n + 1
    BY <2>4, <2>7
  <2> QED BY <2>5, <2>6, <2>7
<1>6. ASSUME NEW x \in DOMAIN legs[1], NEW y \in DOMAIN legs[2],
             legs[1][x] = legs[2][y], x < ia' \/ y < ib'
      PROVE  \E i \in DOMAIN aligned' : aligned'[i].ts = legs[1][x]
  <2>1. CASE x = ia \/ y = ib
    <3>1. legs[1][x] = t /\ n + 1 \in DOMAIN aligned'
      BY <1>1, <1>6, <2>1, SMTT(30)
    <3> QED BY <1>1, <3>1, Zenon
  <2>2. CASE x # ia /\ y # ib
    <3>1. x < ia \/ y < ib
      BY <1>6, <2>2, SMTT(30)
    <3>2. PICK i \in DOMAIN aligned : aligned[i].ts = legs[1][x]
      BY <1>6, <3>1 DEF Merged
    <3> QED BY <1>1, <3>2
  <2> QED BY <2>1, <2>2
<1>7. ia' \in 1..(Len(legs[1]) + 1) /\ ib' \in 1..(Len(legs[2]) + 1)
  BY NextIndex, Zenon
<1>8. Merged'
  BY <1>5, <1>6, <1>7, MergedNext, Zenon
<1> QED BY <1>4, <1>8

LEMMA StillMerged ==
  ASSUME Columns, Merged, UNCHANGED <<legs, joinVars>>
  PROVE  (Columns /\ Merged)'
<1>1. legs' = legs /\ ia' = ia /\ ib' = ib /\ aligned' = aligned
  BY Zenon DEF joinVars
<1>2. Columns'
  BY <1>1, SMTT(30) DEF Columns
<1>3. Merged'
  BY <1>1, SMTT(30) DEF Merged
<1> QED BY <1>2, <1>3

\* The turn of the two cursors.
LEMMA MergedStep ==
  ASSUME Feed, Columns, Merged, Written, [Next]_vars
  PROVE  (Columns /\ Merged)'
<1>1. CASE UNCHANGED joinVars
  <2>1. legs' = legs
    BY Stays
  <2> QED BY <1>1, <2>1, StillMerged
<1>2. CASE JoinStep
  <2> DEFINE ta == legs[1][ia]
             tb == legs[2][ib]
  <2>1. /\ DOMAIN legs[1] = 1..Len(legs[1]) /\ Len(legs[1]) \in Nat
        /\ DOMAIN legs[2] = 1..Len(legs[2]) /\ Len(legs[2]) \in Nat
        /\ \A x \in 1..Len(legs[1]) : legs[1][x] \in Int
        /\ \A y \in 1..Len(legs[2]) : legs[2][y] \in Int
    BY LenProperties, ElementOfSeq DEF Feed, Ascends
  <2>2. /\ \A x, z \in 1..Len(legs[1]) : x < z => legs[1][x] < legs[1][z]
        /\ \A y, z \in 1..Len(legs[2]) : y < z => legs[2][y] < legs[2][z]
    BY <2>1 DEF Feed, Ascends
  <2>3. /\ ia \in 1..Len(legs[1]) /\ ib \in 1..Len(legs[2])
        /\ ta \in Int /\ tb \in Int /\ legs' = legs
    BY <1>2, <2>1 DEF JoinStep, Merged, dataVars
  <2>4. /\ \A x \in 1..Len(legs[1]) : legs[1][x] < ta <=> x < ia
        /\ \A y \in 1..Len(legs[2]) : legs[2][y] < tb <=> y < ib
    <3> HIDE DEF ta, tb
    <3>1. \A x \in 1..Len(legs[1]) : legs[1][x] < ta <=> x < ia
      BY <2>1, <2>2, <2>3 DEF ta
    <3>2. \A y \in 1..Len(legs[2]) : legs[2][y] < tb <=> y < ib
      BY <2>1, <2>2, <2>3 DEF tb
    <3> QED BY <3>1, <3>2
  <2>5. CASE ta < tb
    <3>1. ia' = ia + 1 /\ ib' = ib /\ aligned' = aligned
      BY <1>2, <2>3, <2>5 DEF JoinStep
    <3> HIDE DEF ta, tb
    <3>2. ASSUME NEW x \in 1..Len(legs[1]), NEW y \in 1..Len(legs[2]), legs[1][x] = legs[2][y], x < ia'
          PROVE  x < ia \/ y < ib
      <4>1. x < ia \/ x = ia
        BY <2>3, <3>1, <3>2
      <4>2. legs[1][ia] = ta
        BY DEF ta
      <4>3. x = ia => legs[2][y] < tb
        BY <2>5, <3>2, <4>2
      <4> QED BY <2>4, <4>1, <4>3
    <3>3. /\ ia' \in 1..(Len(legs[1]) + 1) /\ ib' \in 1..(Len(legs[2]) + 1)
          /\ ia <= ia' /\ ib <= ib'
      BY <2>1, <2>3, <3>1
    <3>4. \A x \in DOMAIN legs[1], y \in DOMAIN legs[2] :
            legs[1][x] = legs[2][y] /\ (x < ia' \/ y < ib') => x < ia \/ y < ib
      BY <2>1, <3>1, <3>2, Zenon
    <3> QED BY <2>1, <2>3, <3>1, <3>3, <3>4, NotJoined, Zenon
  <2>6. CASE ta > tb
    <3>1. ia' = ia /\ ib' = ib + 1 /\ aligned' = aligned
      BY <1>2, <2>3, <2>6 DEF JoinStep
    <3> HIDE DEF ta, tb
    <3>2. ASSUME NEW x \in 1..Len(legs[1]), NEW y \in 1..Len(legs[2]), legs[1][x] = legs[2][y], y < ib'
          PROVE  x < ia \/ y < ib
      <4>1. y < ib \/ y = ib
        BY <2>3, <3>1, <3>2
      <4>2. legs[2][ib] = tb
        BY DEF tb
      <4>3. y = ib => legs[1][x] < ta
        BY <2>3, <2>6, <3>2, <4>2
      <4> QED BY <2>4, <4>1, <4>3
    <3>3. /\ ia' \in 1..(Len(legs[1]) + 1) /\ ib' \in 1..(Len(legs[2]) + 1)
          /\ ia <= ia' /\ ib <= ib'
      BY <2>1, <2>3, <3>1
    <3>4. \A x \in DOMAIN legs[1], y \in DOMAIN legs[2] :
            legs[1][x] = legs[2][y] /\ (x < ia' \/ y < ib') => x < ia \/ y < ib
      BY <2>1, <3>1, <3>2, Zenon
    <3> QED BY <2>1, <2>3, <3>1, <3>3, <3>4, NotJoined, Zenon
  <2>7. CASE ta = tb
    <3>1. ia' = ia + 1 /\ ib' = ib + 1 /\ aligned' = Append(aligned, [ts |-> ta, a |-> ta, b |-> ta])
      BY <1>2, <2>3, <2>7 DEF JoinStep
    <3>2. legs[1][ia] = ta /\ legs[2][ib] = ta
      BY <2>7
    <3> HIDE DEF ta, tb
    <3>3. \A x \in 1..Len(legs[1]) : legs[1][x] \in Int /\ (legs[1][x] < ta <=> x < ia)
      BY <2>1, <2>4, Zenon
    <3> QED BY <2>1, <2>3, <3>1, <3>2, <3>3, Joined, Zenon
  <2> QED BY <2>3, <2>5, <2>6, <2>7
<1> QED BY <1>1, <1>2, Stays

\* The turn of the rolling fit.
LEMMA FittedStep ==
  ASSUME Feed, Columns, Fitted, Written, [Next]_vars
  PROVE  Fitted'
<1>1. AlignedN \in Nat /\ AlignedN' \in Int /\ AlignedN <= AlignedN' /\ Step' = Step /\ Step \in Int
  <2>1. AlignedN \in Nat
    BY LenProperties DEF Columns, AlignedN
  <2>2. Step' = Step /\ Step \in Int
    BY Stays DEF Step, OrDefault, Feed
  <2>3. CASE UNCHANGED joinVars
    BY <2>1, <2>2, <2>3 DEF AlignedN, joinVars
  <2>4. CASE JoinStep
    <3>1. \/ aligned' = aligned
          \/ aligned' = Append(aligned, [ts |-> legs[1][ia], a |-> legs[1][ia], b |-> legs[2][ib]])
      BY <2>4 DEF JoinStep
    <3>2. \A e : Len(Append(aligned, e)) = Len(aligned) + 1
      BY DEF Columns
    <3> QED BY <2>1, <2>2, <3>1, <3>2 DEF AlignedN
  <2> QED BY <2>3, <2>4, Stays
<1>2. CASE UNCHANGED fitVars
  <2> DEFINE n == Len(fits)
  <2>1. /\ fits' = fits /\ ever' = ever /\ begin' = begin /\ job' = job
    BY <1>2, Stays DEF fitVars
  <2>2. \A i \in DOMAIN fits : fits[i] \in Fit
    BY LenProperties DEF Fitted
  <2> QED BY <1>1, <2>1, <2>2 DEF Fitted, Fit
<1>3. CASE FitWindow
  <2> DEFINE n == Len(fits)
             new(f) == [from |-> begin, to |-> begin + job.size - 1, p |-> f.p, beta |-> f.beta,
                        lost |-> ever /\ f.p = "high", drift |-> BetaDrift(f.beta, history)]
  <2>1. PICK f \in Fits : fits' = Append(fits, new(f)) /\ ever' = (ever \/ f.p = "low")
    BY <1>3 DEF FitWindow
  <2>2. /\ begin' = begin + Step /\ job' = job /\ begin + job.size - 1 <= AlignedN
    BY <1>3 DEF FitWindow, MoreWindows, dataVars
  <2>3. f.p \in PValues /\ f.beta \in Int
    BY PairAssumption DEF NaN
  <2>4. n \in Nat /\ DOMAIN fits = 1..n /\ job.size \in Int /\ begin = 1 + n * Step /\ begin \in Int
    BY <1>1, LenProperties DEF Fitted, Feed
  <2>5. BetaDrift(f.beta, history) \in BOOLEAN
    BY DEF BetaDrift
  <2>6. new(f) \in Fit
    BY <2>3, <2>4, <2>5 DEF Fit
  <2>7. /\ fits' \in Seq(Fit) /\ Len(fits') = n + 1 /\ DOMAIN fits' = 1..(n + 1)
        /\ \A i \in 1..n : fits'[i] = fits[i]
        /\ fits'[n + 1] = new(f)
    BY <2>1, <2>6, AppendProperties, LenProperties DEF Fitted
  <2>8. ever' \in BOOLEAN
    BY <2>1 DEF Fitted
  <2> HIDE DEF n
  <2>9. begin' = 1 + Len(fits') * Step'
    BY <1>1, <2>2, <2>4, <2>7
  <2>10. \A i \in 1..n : /\ fits[i].from = 1 + (i - 1) * Step
                         /\ fits[i].to = fits[i].from + job.size - 1 /\ fits[i].to <= AlignedN
                         /\ fits[i] \in Fit
    BY <2>4, LenProperties DEF Fitted
  <2>11. ASSUME NEW i \in 1..(n + 1)
         PROVE  /\ fits'[i].from = 1 + (i - 1) * Step
                /\ fits'[i].to = fits'[i].from + job.size - 1
                /\ fits'[i].to <= AlignedN'
    <3>1. CASE i \in 1..n
      <4>1. fits'[i] = fits[i]
        BY <2>7, <3>1
      <4>2. fits[i].to \in Int /\ fits[i].to <= AlignedN
        BY <2>10, <3>1 DEF Fit
      <4>3. fits[i].to <= AlignedN'
        BY <1>1, <4>2
      <4> QED BY <2>10, <3>1, <4>1, <4>3
    <3>2. CASE i = n + 1
      <4>1. i - 1 = n
        BY <2>4, <3>2
      <4>2. fits'[i].from = begin /\ fits'[i].to = begin + job.size - 1
        BY <2>7, <3>2
      <4> QED BY <1>1, <2>2, <2>4, <4>1, <4>2, SMTT(30)
    <3> QED BY <2>4, <3>1, <3>2
  <2> QED BY <1>1, <2>2, <2>7, <2>8, <2>9, <2>11 DEF Fitted
<1> QED BY <1>2, <1>3, Stays

\* A step that writes nothing while nothing is written.
LEMMA UnwrittenStep ==
  ASSUME job' = job, out' = <<>>, pc' \in PairPcs, fits' \in Seq(Fit),
         pc' # "done" => res' = "none",
         pc' \in {"before", "kernel", "after", "emit", "fit"} => Passed',
         pc' = "kernel" => ~Rolling,
         pc' = "fit" => Rolling,
         Rolling /\ pc' \in {"after", "emit"} => ~MoreWindows',
         res' = "Ok" => cancel'
  PROVE  Written'
<1>1. out' \in Seq({Window(i)' : i \in DOMAIN fits'}) /\ Len(out') = 0 /\ DOMAIN out' = {}
  BY EmptySeq, LenProperties
<1>2. Len(fits') \in Nat
  BY LenProperties
<1> QED BY <1>1, <1>2 DEF Written, Rolling

\* Every step leaves what is written true.
LEMMA WrittenStep ==
  ASSUME Feed, Columns, Merged, Fitted, Written, [Next]_vars
  PROVE  Written'
<1>1. fits' \in Seq(Fit) /\ job' = job
  BY FittedStep, Stays DEF Fitted
<1>2. UNCHANGED <<job, legs, joinVars, fits>> => \A i : Window(i)' = Window(i)
  BY Unmoved DEF Window, joinVars
<1>3. UNCHANGED <<job, legs, joinVars>> => (Passed' <=> Passed) /\ Numbers' = Numbers
  BY Unmoved
<1>4. UNCHANGED <<job, legs, joinVars, fitVars>> => (MoreWindows' <=> MoreWindows)
  BY DEF joinVars, fitVars, MoreWindows, AlignedN
<1> USE DEF dataVars, PairPcs, Goto, Return, PollThen
<1>5. CASE Enter
  BY <1>1, <1>5, UnwrittenStep DEF Enter, Written
<1>6. CASE JoinStep
  BY <1>1, <1>6, UnwrittenStep DEF JoinStep, Written
<1>7. CASE Resolve
  <2>1. Accepts(job) => Passed
    BY <1>7 DEF Resolve, Passed
  <2> QED BY <1>1, <1>3, <1>7, <2>1, UnwrittenStep DEF Resolve, Written
<1>8. CASE PollBefore
  BY <1>1, <1>3, <1>8, UnwrittenStep DEF PollBefore, Written, Rolling
<1>9. CASE RunKernel
  BY <1>1, <1>3, <1>9, UnwrittenStep DEF RunKernel, Written, Rolling
<1>10. CASE PollAfter
  BY <1>1, <1>3, <1>4, <1>10, UnwrittenStep DEF PollAfter, Written, Rolling
<1>11. CASE FitWindow
  BY <1>1, <1>3, <1>11, UnwrittenStep DEF FitWindow, Written, Rolling
<1>12. CASE FitsDone
  BY <1>1, <1>3, <1>4, <1>12, UnwrittenStep DEF FitsDone, Written, Rolling
<1>13. CASE EmitAll
  <2>1. out = <<>> /\ ~Rolling /\ Passed /\ res = "none" /\ pc' = "done"
    BY <1>13 DEF EmitAll, Written, Rolling
  <2>2. UNCHANGED <<job, legs, joinVars, fitVars, cancel>>
    BY <1>13 DEF EmitAll
  <2>3. \/ out' = <<Numbers>> /\ res' = "Ok"
        \/ out' = <<>> /\ res' = "Miner"
    BY <1>13, <2>1 DEF EmitAll
  <2> QED BY <1>3, <2>1, <2>2, <2>3 DEF Written, Rolling
<1>14. CASE EmitWindow
  <2> DEFINE Wins == {Window(i) : i \in DOMAIN fits}
             n == Len(out)
  <2>1. /\ pc = "emit" /\ res = "none" /\ Rolling /\ Passed /\ ~MoreWindows
        /\ out \in Seq(Wins) /\ n <= Len(fits)
        /\ \A i \in DOMAIN out : out[i] = Window(i)
    BY <1>14 DEF EmitWindow, Written, Rolling
  <2>2. UNCHANGED <<job, legs, joinVars, fitVars, cancel>> /\ fits' = fits
    BY <1>14 DEF EmitWindow, fitVars
  <2>3. /\ Rolling' /\ Passed' /\ ~MoreWindows' /\ \A i : Window(i)' = Window(i)
    BY <1>2, <1>3, <1>4, <2>1, <2>2 DEF Rolling
  <2>4. Len(out) = n /\ n \in Nat /\ DOMAIN out = 1..n /\ Len(fits) \in Nat /\ DOMAIN fits = 1..Len(fits)
    BY <2>1, LenProperties DEF Fitted
  <2>5. n \in Nat /\ Len(fits) \in Nat /\ n <= Len(fits)
    BY <2>1, <2>4
  <2>6. \/ out' = out /\ pc' = "done" /\ res' \in {"Ok", "Miner"} /\ (res' = "Ok" => n = Len(fits) \/ cancel)
        \/ /\ n # Len(fits) /\ out' = Append(out, Window(n + 1))
           /\ pc' = "emit" /\ res' = "none"
    BY <1>14, <2>1 DEF EmitWindow, Window
  <2>7. out' \in Seq(Wins) /\ Len(out') <= Len(fits) /\ \A i \in DOMAIN out' : out'[i] = Window(i)
    <3>1. CASE out' = out
      BY <2>1, <3>1
    <3>2. CASE n # Len(fits) /\ out' = Append(out, Window(n + 1))
      <4>1. \A i \in DOMAIN fits : Window(i) \in Wins
        OBVIOUS
      <4> HIDE DEF Wins, n
      <4>2. n + 1 \in DOMAIN fits /\ Window(n + 1) \in Wins
        <5>1. n + 1 \in 1..Len(fits)
          BY <2>5, <3>2
        <5> QED BY <2>4, <4>1, <5>1
      <4>3. /\ out' \in Seq(Wins) /\ Len(out') = n + 1
            /\ \A i \in 1..n : out'[i] = out[i]
            /\ out'[n + 1] = Window(n + 1) /\ DOMAIN out' = 1..(n + 1)
        <5>1. out \in Seq(Wins)
          BY <2>1
        <5>2. /\ out' \in Seq(Wins) /\ Len(out') = Len(out) + 1
              /\ \A i \in 1..Len(out) : out'[i] = out[i]
              /\ out'[Len(out) + 1] = Window(n + 1)
          BY <3>2, <4>2, <5>1, AppendProperties
        <5> QED BY <2>4, <5>2, LenProperties
      <4>4. ASSUME NEW i \in DOMAIN out' PROVE out'[i] = Window(i)
        <5>1. i \in 1..n \/ i = n + 1
          BY <2>4, <4>3
        <5>2. CASE i \in 1..n
          BY <2>1, <2>4, <4>3, <5>2
        <5>3. CASE i = n + 1
          BY <4>3, <5>3
        <5> QED BY <5>1, <5>2, <5>3
      <4>5. n + 1 <= Len(fits)
        BY <2>4, <4>2
      <4> QED BY <4>3, <4>4, <4>5
    <3> QED BY <2>6, <3>1, <3>2
  <2>8. {Window(i)' : i \in DOMAIN fits'} = Wins
    BY <2>2, <2>3
  <2> HIDE DEF Wins, n
  <2>9. res' = "Ok" /\ ~cancel' => Len(out') = Len(fits')
    BY <2>2, <2>6 DEF n
  <2> QED BY <2>2, <2>3, <2>6, <2>7, <2>8, <2>9 DEF Written
<1>15. CASE Interrupt \/ UNCHANGED vars
  <2>1. /\ UNCHANGED <<job, legs, joinVars, fitVars, pc, out, res>> /\ fits' = fits
        /\ cancel => cancel'
    BY <1>15, Stays DEF Interrupt, vars, fitVars
  <2>2. /\ (Rolling' <=> Rolling) /\ (Passed' <=> Passed) /\ (MoreWindows' <=> MoreWindows)
        /\ Numbers' = Numbers /\ \A i : Window(i)' = Window(i)
    BY <1>2, <1>3, <1>4, <2>1 DEF Rolling
  <2>3. {Window(i)' : i \in DOMAIN fits'} = {Window(i) : i \in DOMAIN fits}
    BY <2>1, <2>2
  <2> QED BY <2>1, <2>2, <2>3 DEF Written
<1> QED BY <1>5, <1>6, <1>7, <1>8, <1>9, <1>10, <1>11, <1>12, <1>13, <1>14, <1>15, PairSteps DEF PairNext

----------------------------------------------------------------------------
(* The invariant. *)

\* A run over two legs starts with the invariant.
LEMMA InitInv == Init => IndInv
<1> SUFFICES ASSUME Init, job.scan \in PairKinds PROVE PairInv
  BY DEF IndInv
<1>1. PICK c \in PairCases : job \in c.jobs /\ legs \in c.frames /\ pc = "enter"
  BY PairAssumption DEF Init
<1>2. /\ ia = 1 /\ ib = 1 /\ aligned = <<>> /\ begin = 1 /\ fits = <<>> /\ ever = FALSE
      /\ out = <<>> /\ res = "none"
  BY DEF Init, PairInit
<1>3. Feed
  BY <1>1, CasesAssumption, PairAssumption DEF Feed
<1>4. Columns
  BY <1>2, EmptySeq DEF Columns
<1>5. Merged
  <2>1. /\ DOMAIN legs[1] = 1..Len(legs[1]) /\ Len(legs[1]) \in Nat
        /\ DOMAIN legs[2] = 1..Len(legs[2]) /\ Len(legs[2]) \in Nat
    BY <1>3, LenProperties DEF Feed, Ascends
  <2>2. \A x \in DOMAIN legs[1], y \in DOMAIN legs[2] : ~(x < 1 \/ y < 1)
    BY <2>1
  <2>3. 1 \in 1..(Len(legs[1]) + 1) /\ 1 \in 1..(Len(legs[2]) + 1)
    BY <2>1
  <2>4. DOMAIN aligned = {}
    BY <1>2
  <2> QED BY <1>2, <2>2, <2>3, <2>4 DEF Merged
<1>6. Fitted
  <2>1. Step \in Int
    BY <1>3 DEF Feed, Step, OrDefault
  <2>2. fits \in Seq(Fit) /\ Len(fits) = 0 /\ DOMAIN fits = {}
    BY <1>2, EmptySeq
  <2>3. begin = 1 + Len(fits) * Step
    BY <1>2, <2>1, <2>2
  <2> QED BY <1>2, <2>2, <2>3 DEF Fitted
<1>7. Written
  <2>1. out \in Seq({Window(i) : i \in DOMAIN fits}) /\ Len(out) = 0 /\ Len(fits) = 0 /\ DOMAIN out = {}
    BY <1>2, EmptySeq
  <2> QED BY <1>1, <1>2, <2>1 DEF Written, PairPcs
<1> QED BY <1>3, <1>4, <1>5, <1>6, <1>7 DEF PairInv

\* Every step keeps it.
LEMMA NextInv == IndInv /\ [Next]_vars => IndInv'
<1> SUFFICES ASSUME IndInv, [Next]_vars, job'.scan \in PairKinds PROVE PairInv'
  BY DEF IndInv
<1>1. job' = job
  BY DEF Next, Interrupt, PairNext, Enter, JoinStep, Resolve, PollBefore, RunKernel, PollAfter,
         EmitAll, FitWindow, FitsDone, EmitWindow, Start, Params, PollRow, RunSeries, WriteFound,
         Stopped, vars, dataVars
<1>2. PairInv
  BY <1>1 DEF IndInv
<1> QED BY <1>2, FeedStep, MergedStep, FittedStep, WrittenStep DEF PairInv

----------------------------------------------------------------------------
(* A number is made of the closes its label says. *)

\* What has been written tells where the run is.
LEMMA SomethingOut ==
  ASSUME PairInv, out # <<>> \/ (res = "Ok" /\ ~cancel)
  PROVE  /\ Passed
         /\ Rolling => /\ Len(out) \in Nat /\ DOMAIN out = 1..Len(out) /\ Len(out) <= Len(fits)
                       /\ Len(fits) \in Nat /\ DOMAIN fits = 1..Len(fits)
                       /\ \A i \in DOMAIN out : out[i] = Window(i)
                       /\ ~MoreWindows
         /\ ~Rolling => out = <<Numbers>>
<1>1. Passed
  BY DEF PairInv, Written
<1>2. ASSUME Rolling
      PROVE  /\ Len(out) \in Nat /\ DOMAIN out = 1..Len(out) /\ Len(out) <= Len(fits)
             /\ Len(fits) \in Nat /\ DOMAIN fits = 1..Len(fits)
             /\ \A i \in DOMAIN out : out[i] = Window(i)
             /\ ~MoreWindows
  <2>1. out \in Seq({Window(i) : i \in DOMAIN fits}) /\ fits \in Seq(Fit)
    BY <1>2 DEF PairInv, Written, Fitted
  <2>2. /\ Len(out) \in Nat /\ DOMAIN out = 1..Len(out)
        /\ Len(fits) \in Nat /\ DOMAIN fits = 1..Len(fits)
    BY <2>1, LenProperties
  <2> QED BY <1>2, <2>2 DEF PairInv, Written
<1>3. ~Rolling => out = <<Numbers>>
  BY DEF PairInv, Written
<1> QED BY <1>1, <1>2, <1>3

\* The bounds the parameters keep.
LEMMA Bounds ==
  ASSUME Feed, Columns, Passed, job.scan \in PairKinds
  PROVE  /\ job.size \in Int /\ AlignedN \in Nat /\ ReturnsN = AlignedN - 1 /\ AlignedN >= 1
         /\ job.scan \in {"corr", "ols"} => 3 <= job.size /\ job.size <= ReturnsN
         /\ job.scan = "lead_lag" => /\ OrDefault(job.size, DefaultMaxLag) \in Nat
                                    /\ 2 * OrDefault(job.size, DefaultMaxLag) < ReturnsN
         /\ Rolling => 2 <= job.size /\ job.size <= AlignedN /\ Step \in Nat \ {0}
<1>1. job.size \in Int /\ job.step \in Int /\ AlignedN \in Nat /\ ReturnsN = AlignedN - 1
  BY LenProperties DEF Feed, Columns, AlignedN, ReturnsN
<1>2. Accepts(job) /\ AlignedN >= 1
  BY <1>1 DEF Passed, Accepts
<1>3. CASE job.scan \in {"corr", "ols"}
  BY <1>1, <1>2, <1>3 DEF Accepts, RollingAccepts, Rolling
<1>4. CASE job.scan = "lead_lag"
  <2> DEFINE l == OrDefault(job.size, DefaultMaxLag)
  <2>1. l < ReturnsN \div 2 /\ (job.size = Absent \/ job.size >= 1) /\ ReturnsN >= 4
    BY <1>2, <1>4 DEF Accepts, LeadLagAccepts
  <2>2. l \in Nat
    BY <1>1, <2>1, PairAssumption DEF OrDefault, Absent
  <2> HIDE DEF l
  <2>3. 2 * l < ReturnsN
    BY <1>1, <2>1, <2>2
  <2> QED BY <1>1, <1>2, <1>4, <2>2, <2>3 DEF l, Rolling
<1>5. CASE job.scan = "engle_granger"
  BY <1>1, <1>2, <1>5 DEF Rolling
<1>6. CASE Rolling
  <2>1. CointegrationAccepts(job)
    BY <1>2, <1>6 DEF Accepts, Rolling
  <2> QED BY <1>1, <1>2, <1>6, <2>1 DEF CointegrationAccepts, Rolling, Step, OrDefault, Absent
<1> QED BY <1>3, <1>4, <1>5, <1>6 DEF PairKinds, Rolling

\* A positive factor keeps the order.
LEMMA TimesGrows ==
  ASSUME NEW s \in Nat \ {0}, NEW a \in Int, NEW b \in Int
  PROVE  a * s \in Int /\ (a < b <=> a * s < b * s)
<1>1. a * s \in Int /\ b * s \in Int
  BY SMT
<1>2. ASSUME NEW x \in Int, NEW y \in Int, x < y PROVE x * s < y * s
  <2>1. (y - x) * s >= s
    BY <1>2, SMT
  <2>2. (y - x) * s = y * s - x * s
    BY SMT
  <2>3. x * s \in Int /\ y * s \in Int
    BY SMT
  <2> QED BY <2>1, <2>2, <2>3, SMT
<1>3. CASE a < b
  BY <1>1, <1>2, <1>3
<1>4. CASE a = b
  BY <1>1, <1>4
<1>5. CASE b < a
  <2>1. b * s < a * s
    BY <1>2, <1>5
  <2> QED BY <1>1, <1>5, <2>1
<1> QED BY <1>1, <1>3, <1>4, <1>5

\* The columns ascend, so the joint bars between two of them are those of the
\* indices between, as many as indices.
LEMMA BarsBetween ==
  ASSUME Feed, Columns, Merged, Passed,
         NEW m \in 1..AlignedN, NEW n \in 1..AlignedN, m <= n
  PROVE  /\ {t \in Joint : aligned[m].ts <= t /\ t <= aligned[n].ts} = Bars(m, n)
         /\ Cardinality(Bars(m, n)) = n - m + 1
<1>1. /\ AlignedN \in Nat /\ DOMAIN aligned = 1..AlignedN
      /\ \A i \in 1..AlignedN : aligned[i].ts \in Int
      /\ Joint = {aligned[i].ts : i \in 1..AlignedN}
      /\ Bars(m, n) = {aligned[i].ts : i \in m..n}
  BY RankIsIndex, JointBars, ClosesOfBars, SMTT(30)
<1>2. \A i, k \in 1..AlignedN : i < k => aligned[i].ts < aligned[k].ts
  BY <1>1 DEF Columns
<1>3. \A i \in 1..AlignedN : aligned[m].ts <= aligned[i].ts /\ aligned[i].ts <= aligned[n].ts <=> i \in m..n
  <2> SUFFICES ASSUME NEW i \in 1..AlignedN
               PROVE  aligned[m].ts <= aligned[i].ts /\ aligned[i].ts <= aligned[n].ts <=> i \in m..n
    OBVIOUS
  <2>1. aligned[m].ts <= aligned[i].ts <=> m <= i
    BY <1>1, <1>2
  <2>2. aligned[i].ts <= aligned[n].ts <=> i <= n
    BY <1>1, <1>2
  <2> QED BY <1>1, <2>1, <2>2
<1>4. {t \in Joint : aligned[m].ts <= t /\ t <= aligned[n].ts} = Bars(m, n)
  <2>1. m..n \subseteq 1..AlignedN
    BY <1>1
  <2> QED BY <1>1, <1>3, <2>1
<1>5. Cardinality(Bars(m, n)) = n - m + 1
  <2> DEFINE len == n - m + 1
             f == [k \in 1..len |-> aligned[m + k - 1].ts]
  <2>1. len \in Nat /\ \A k \in 1..len : m + k - 1 \in m..n /\ m + k - 1 \in 1..AlignedN
    BY <1>1
  <2>2. f \in [1..len -> Bars(m, n)]
    BY <1>1, <2>1
  <2>3. \A k, j \in 1..len : f[k] = f[j] => k = j
    <3> SUFFICES ASSUME NEW k \in 1..len, NEW j \in 1..len, k < j PROVE f[k] < f[j]
      BY <1>1, <2>1
    <3> QED BY <1>2, <2>1
  <2>4. ASSUME NEW t \in Bars(m, n) PROVE \E k \in 1..len : f[k] = t
    <3>1. PICK i \in m..n : t = aligned[i].ts
      BY <1>1
    <3>2. i - m + 1 \in 1..len /\ m + (i - m + 1) - 1 = i
      BY <1>1, <3>1
    <3> QED BY <3>1, <3>2
  <2>5. f \in Bijection(1..len, Bars(m, n))
    BY <2>2, <2>3, <2>4 DEF Bijection, Injection, Surjection, IsInjective
  <2>6. ExistsBijection(1..len, Bars(m, n))
    BY <2>5 DEF ExistsBijection
  <2> QED BY <2>1, <2>6, FS_CountingElements
<1> QED BY <1>4, <1>5

\* The bars of window i.
LEMMA WindowBars ==
  ASSUME PairInv, Rolling, Passed, NEW i \in DOMAIN fits
  PROVE  /\ fits[i].from \in 1..AlignedN /\ fits[i].to \in 1..AlignedN
         /\ fits[i].from = 1 + (i - 1) * Step
         /\ fits[i].to = fits[i].from + job.size - 1
         /\ job.size \in Int /\ 2 <= job.size
<1>1. Feed /\ Columns /\ job.scan \in PairKinds
  BY DEF PairInv, Rolling, PairKinds
<1>2. AlignedN \in Nat /\ job.size \in Int /\ 2 <= job.size /\ Step \in Nat \ {0}
  BY <1>1, Bounds
<1>3. /\ fits[i].from = 1 + (i - 1) * Step /\ fits[i].to = fits[i].from + job.size - 1
      /\ fits[i].to <= AlignedN /\ i \in Nat \ {0}
  BY LenProperties DEF PairInv, Fitted
<1>4. (i - 1) * Step \in Nat
  <2>1. i - 1 \in Nat
    BY <1>3
  <2> QED BY <1>2, <2>1, SMT
<1> QED BY <1>2, <1>3, <1>4

\* A rolling fit reads the bars between its two stamps.
LEMMA RollingAligned ==
  ASSUME PairInv, Rolling, NEW r \in DOMAIN out
  PROVE  LET inside == {t \in Joint : out[r].start <= t /\ t <= out[r].end}
         IN out[r].uses = BothLegs(inside) /\ Cardinality(inside) = job.size
<1>1. out # <<>>
  OBVIOUS
<1>2. Passed /\ out[r] = Window(r) /\ r \in DOMAIN fits
  BY <1>1, SomethingOut
<1> DEFINE m == fits[r].from
           n == fits[r].to
<1>3. m \in 1..AlignedN /\ n \in 1..AlignedN /\ m <= n /\ n - m + 1 = job.size /\ AlignedN \in Int
  BY <1>2, WindowBars DEF AlignedN
<1>4. out[r].start = aligned[m].ts /\ out[r].end = aligned[n].ts /\ out[r].uses = Closes(m, n)
  BY <1>2 DEF Window
<1> HIDE DEF m, n
<1>5. Feed /\ Columns /\ Merged
  BY DEF PairInv
<1>6. /\ {t \in Joint : aligned[m].ts <= t /\ t <= aligned[n].ts} = Bars(m, n)
      /\ Cardinality(Bars(m, n)) = n - m + 1
  BY <1>2, <1>3, <1>5, BarsBetween
<1>7. Closes(m, n) = BothLegs(Bars(m, n))
  BY <1>2, <1>3, <1>5, ClosesOfBars
<1> QED BY <1>3, <1>4, <1>6, <1>7

\* The labels and the windows of a rolling correlation or regression.
LEMMA RollingNumbers ==
  ASSUME PairInv, Passed, job.scan \in {"corr", "ols"}
  PROVE  /\ DOMAIN Numbers = 1..(AlignedN - job.size)
         /\ \A i \in 1..(AlignedN - job.size) :
              /\ Numbers[i].label = aligned[i + 1].ts /\ Numbers[i].uses = Closes(i, i + job.size)
              /\ i + 1 \in 1..AlignedN /\ i \in 1..AlignedN /\ i + job.size \in 1..AlignedN
<1>1. Feed /\ Columns /\ job.scan \in PairKinds
  BY DEF PairInv, PairKinds
<1>2. job.size \in Int /\ AlignedN \in Nat /\ ReturnsN = AlignedN - 1 /\ 3 <= job.size /\ job.size <= ReturnsN
  BY <1>1, Bounds
<1>3. Numbers = [i \in 1..(ReturnsN - job.size + 1) |-> [label |-> aligned[i + 1].ts, uses |-> Closes(i, i + job.size)]]
  BY DEF Numbers, Stamped, CorrWindows, OlsWindows
<1>4. ReturnsN - job.size + 1 = AlignedN - job.size
  BY <1>2
<1>5. \A i \in 1..(AlignedN - job.size) :
        i + 1 \in 1..AlignedN /\ i \in 1..AlignedN /\ i + job.size \in 1..AlignedN
  BY <1>2
<1> QED BY <1>3, <1>4, <1>5

\* The return that ends at an index is the one that ends at the bar.
LEMMA ReturnIs ==
  ASSUME PairInv, Passed, NEW leg \in {1, 2}, NEW t \in 1..(AlignedN - 1)
  PROVE  /\ aligned[t + 1].ts \in LaterBars /\ Rank(aligned[t + 1].ts) = t + 1
         /\ ReturnOf(leg, t) = ReturnAt(leg, aligned[t + 1].ts)
<1>1. Feed /\ Columns /\ Merged
  BY DEF PairInv
<1>2. /\ AlignedN \in Nat /\ DOMAIN aligned = 1..AlignedN
      /\ \A i \in 1..AlignedN : aligned[i].ts \in Int /\ Rank(aligned[i].ts) = i
      /\ Cardinality(Joint) = AlignedN
      /\ Joint = {aligned[i].ts : i \in 1..AlignedN}
  BY <1>1, RankIsIndex, JointBars
<1>3. t \in 1..AlignedN /\ t + 1 \in 1..AlignedN /\ t + 1 \in 2..AlignedN
  BY <1>2
<1>4. Rank(aligned[t + 1].ts) = t + 1 /\ aligned[t + 1].ts \in Joint
  BY <1>2, <1>3
<1>5. aligned[t + 1].ts \in LaterBars
  BY <1>2, <1>3, <1>4 DEF LaterBars, Bars
<1>6. (CHOOSE u \in Joint : Rank(u) = Rank(aligned[t + 1].ts) - 1) = aligned[t].ts
  <2>1. aligned[t].ts \in Joint /\ Rank(aligned[t].ts) = Rank(aligned[t + 1].ts) - 1
    BY <1>2, <1>3, <1>4
  <2>2. \A u \in Joint : Rank(u) = Rank(aligned[t + 1].ts) - 1 => u = aligned[t].ts
    <3> SUFFICES ASSUME NEW i \in 1..AlignedN, Rank(aligned[i].ts) = Rank(aligned[t + 1].ts) - 1
                 PROVE  aligned[i].ts = aligned[t].ts
      BY <1>2
    <3>1. i = t
      BY <1>2, <1>4
    <3> QED BY <3>1
  <2> QED BY <2>1, <2>2
<1>7. ReturnOf(leg, t) = <<leg, aligned[t].ts, aligned[t + 1].ts>>
  <2>1. /\ aligned[t].a = aligned[t].ts /\ aligned[t].b = aligned[t].ts
        /\ aligned[t + 1].a = aligned[t + 1].ts /\ aligned[t + 1].b = aligned[t + 1].ts
    BY <1>1, <1>2, <1>3 DEF Columns
  <2> QED BY <2>1 DEF ReturnOf
<1> QED BY <1>4, <1>5, <1>6, <1>7 DEF ReturnAt

\* The pairs of returns the loop of lag k reads, m being |k|, and those k joint bars apart.
PairsRead(k, m) == {<<ReturnOf(1, IF k >= 0 THEN t ELSE t + m), ReturnOf(2, IF k >= 0 THEN t + m ELSE t)>> :
                      t \in 1..(ReturnsN - m)}
PairsApart(k) == {<<ReturnAt(1, p[1]), ReturnAt(2, p[2])>> :
                    p \in {q \in LaterBars \X LaterBars : Rank(q[2]) - Rank(q[1]) = k}}

LEMMA LagPairs ==
  ASSUME PairInv, Passed, job.scan = "lead_lag", NEW k \in Int, NEW m \in Nat, m = IF k >= 0 THEN k ELSE -k
  PROVE  PairsRead(k, m) = PairsApart(k)
<1> DEFINE a(t) == IF k >= 0 THEN t ELSE t + m
           b(t) == IF k >= 0 THEN t + m ELSE t
           bar(i) == aligned[i + 1].ts
           Wide == {q \in LaterBars \X LaterBars : Rank(q[2]) - Rank(q[1]) = k}
<1>1. AlignedN \in Nat /\ ReturnsN = AlignedN - 1 /\ Feed /\ Columns /\ Merged
  BY Bounds DEF PairInv, PairKinds
<1>2. ASSUME NEW i \in 1..ReturnsN
      PROVE  /\ bar(i) \in LaterBars /\ Rank(bar(i)) = i + 1
             /\ ReturnOf(1, i) = ReturnAt(1, bar(i)) /\ ReturnOf(2, i) = ReturnAt(2, bar(i))
  <2>1. i \in 1..(AlignedN - 1) /\ 1 \in {1, 2} /\ 2 \in {1, 2}
    BY <1>1
  <2> QED BY <2>1, ReturnIs
<1>3. ASSUME NEW u \in LaterBars PROVE \E i \in 1..ReturnsN : u = bar(i)
  <2>1. Bars(2, AlignedN) = {aligned[i].ts : i \in 2..AlignedN} /\ Cardinality(Joint) = AlignedN
    <3>1. Cardinality(Joint) = AlignedN
      BY <1>1, RankIsIndex
    <3>2. Bars(2, AlignedN) = {aligned[i].ts : i \in 2..AlignedN}
      BY <1>1, ClosesOfBars
    <3> QED BY <3>1, <3>2
  <2>2. PICK j \in 2..AlignedN : u = aligned[j].ts
    BY <2>1 DEF LaterBars
  <2>3. j - 1 \in 1..ReturnsN /\ (j - 1) + 1 = j
    BY <1>1, <2>2
  <2> QED BY <2>2, <2>3
<1>4. \A t \in 1..(ReturnsN - m) : a(t) \in 1..ReturnsN /\ b(t) \in 1..ReturnsN /\ b(t) - a(t) = k
  BY <1>1
<1>5. \A i, j \in 1..ReturnsN : j - i = k =>
        \E t \in 1..(ReturnsN - m) : a(t) = i /\ b(t) = j
  <2> SUFFICES ASSUME NEW i \in 1..ReturnsN, NEW j \in 1..ReturnsN, j - i = k
               PROVE  \E t \in 1..(ReturnsN - m) : a(t) = i /\ b(t) = j
    OBVIOUS
  <2>1. CASE k >= 0
    <3>1. i \in 1..(ReturnsN - m) /\ a(i) = i /\ b(i) = j
      BY <1>1, <2>1
    <3> QED BY <3>1
  <2>2. CASE k < 0
    <3>1. j \in 1..(ReturnsN - m) /\ a(j) = i /\ b(j) = j
      BY <1>1, <2>2
    <3> QED BY <3>1
  <2> QED BY <2>1, <2>2
<1> HIDE DEF a, b, bar
<1>6. ASSUME NEW t \in 1..(ReturnsN - m)
      PROVE  \E p \in Wide : <<ReturnOf(1, a(t)), ReturnOf(2, b(t))>> = <<ReturnAt(1, p[1]), ReturnAt(2, p[2])>>
  <2> DEFINE p == <<bar(a(t)), bar(b(t))>>
  <2>1. a(t) \in 1..ReturnsN /\ b(t) \in 1..ReturnsN /\ b(t) - a(t) = k
    BY <1>4
  <2>2. p \in LaterBars \X LaterBars /\ p[1] = bar(a(t)) /\ p[2] = bar(b(t))
    BY <1>2, <2>1
  <2>3. Rank(p[2]) - Rank(p[1]) = k
    BY <1>1, <1>2, <2>1, <2>2
  <2>4. ReturnOf(1, a(t)) = ReturnAt(1, p[1]) /\ ReturnOf(2, b(t)) = ReturnAt(2, p[2])
    BY <1>2, <2>1, <2>2
  <2> HIDE DEF p
  <2> QED BY <2>2, <2>3, <2>4
<1>7. ASSUME NEW p \in Wide
      PROVE  \E t \in 1..(ReturnsN - m) : <<ReturnOf(1, a(t)), ReturnOf(2, b(t))>> = <<ReturnAt(1, p[1]), ReturnAt(2, p[2])>>
  <2>1. PICK i \in 1..ReturnsN : p[1] = bar(i)
    BY <1>3
  <2>2. PICK j \in 1..ReturnsN : p[2] = bar(j)
    BY <1>3
  <2>3. j - i = k
    <3>1. Rank(p[1]) = i + 1 /\ Rank(p[2]) = j + 1
      BY <1>2, <2>1, <2>2
    <3> QED BY <1>1, <3>1
  <2>4. PICK t \in 1..(ReturnsN - m) : a(t) = i /\ b(t) = j
    BY <1>5, <2>3
  <2> QED BY <1>2, <2>1, <2>2, <2>4
<1>8. {<<ReturnOf(1, a(t)), ReturnOf(2, b(t))>> : t \in 1..(ReturnsN - m)}
      = {<<ReturnAt(1, p[1]), ReturnAt(2, p[2])>> : p \in Wide}
  BY <1>6, <1>7
<1> QED BY <1>8 DEF a, b, PairsRead, PairsApart

\* The labels and the pairs of a lead and lag.
LEMMA LagAligned ==
  ASSUME PairInv, Passed, job.scan = "lead_lag"
  PROVE  LET l == OrDefault(job.size, DefaultMaxLag)
         IN /\ l \in Nat /\ DOMAIN Numbers = 1..(2 * l + 1)
            /\ \A i \in 1..(2 * l + 1) :
                 /\ Numbers[i].label = i - l - 1
                 /\ Numbers[i].uses = PairsApart(i - l - 1)
<1> DEFINE l == OrDefault(job.size, DefaultMaxLag)
<1>1. l \in Nat
  BY Bounds DEF PairInv, PairKinds
<1>2. Numbers = LagNumbers(l)
  BY DEF Numbers
<1> HIDE DEF l
<1>3. DOMAIN Numbers = 1..(2 * l + 1)
  BY <1>2 DEF LagNumbers
<1>4. ASSUME NEW i \in 1..(2 * l + 1)
      PROVE  /\ Numbers[i].label = i - l - 1
             /\ Numbers[i].uses = PairsApart(i - l - 1)
  <2> DEFINE k == i - l - 1
             m == IF k >= 0 THEN k ELSE -k
  <2>1. k \in Int /\ m \in Nat
    BY <1>1
  <2>2. Numbers[i].label = k /\ Numbers[i].uses = PairsRead(k, m)
    BY <1>2, <1>4 DEF LagNumbers, PairsRead
  <2>3. m = IF k >= 0 THEN k ELSE -k
    OBVIOUS
  <2> HIDE DEF k, m
  <2>4. PairsRead(k, m) = PairsApart(k)
    BY <2>1, <2>3, LagPairs
  <2> QED BY <2>2, <2>4 DEF k
<1> QED BY <1>1, <1>3, <1>4 DEF l

\* So does a number of the scans that write one Result.
LEMMA NumbersAligned ==
  ASSUME PairInv, Passed, job.scan \in PairKinds, ~Rolling, NEW i \in DOMAIN Numbers
  PROVE  LET label == Numbers[i].label
             uses  == Numbers[i].uses
         IN CASE job.scan \in {"corr", "ols"} ->
                   /\ label \in Joint
                   /\ uses = BothLegs(Bars(Rank(label) - 1, Rank(label) + job.size - 1))
              [] job.scan = "lead_lag" -> uses = PairsApart(label)
              [] OTHER -> uses = BothLegs(Joint)
<1>1. Feed /\ Columns /\ Merged
  BY DEF PairInv
<1>2. /\ AlignedN \in Nat /\ DOMAIN aligned = 1..AlignedN
      /\ \A k \in 1..AlignedN : Rank(aligned[k].ts) = k
      /\ Joint = {aligned[k].ts : k \in 1..AlignedN}
  BY <1>1, RankIsIndex, JointBars
<1>3. CASE job.scan \in {"corr", "ols"}
  <2>1. /\ Numbers[i].label = aligned[i + 1].ts /\ Numbers[i].uses = Closes(i, i + job.size)
        /\ i + 1 \in 1..AlignedN /\ i \in 1..AlignedN /\ i + job.size \in 1..AlignedN
    BY <1>3, RollingNumbers
  <2>2. job.size \in Int
    BY <1>1 DEF Feed
  <2>3. Numbers[i].label \in Joint /\ Rank(Numbers[i].label) = i + 1
    BY <1>2, <2>1
  <2>4. Rank(Numbers[i].label) - 1 = i /\ Rank(Numbers[i].label) + job.size - 1 = i + job.size
    BY <2>1, <2>2, <2>3
  <2>5. Closes(i, i + job.size) = BothLegs(Bars(i, i + job.size))
    BY <1>1, <1>2, <2>1, ClosesOfBars
  <2> QED BY <1>3, <2>1, <2>3, <2>4, <2>5
<1>4. CASE job.scan = "lead_lag"
  BY <1>4, LagAligned
<1>5. CASE job.scan = "engle_granger"
  <2>1. Numbers = <<[label |-> Absent, uses |-> Closes(1, AlignedN)]>>
    BY <1>5 DEF Numbers, EngleGrangerNumbers
  <2>2. i = 1 /\ Numbers[i].uses = Closes(1, AlignedN)
    BY <2>1
  <2>3. Bars(1, AlignedN) = Joint /\ Closes(1, AlignedN) = BothLegs(Bars(1, AlignedN))
    BY <1>1, <1>2, ClosesOfBars
  <2> QED BY <1>5, <2>2, <2>3
<1> QED BY <1>3, <1>4, <1>5 DEF PairKinds, Rolling

\* What the invariant says of the numbers.
LEMMA InvAligned == IndInv => AlignedWindows
<1> SUFFICES ASSUME IndInv, job.scan \in PairKinds, NEW r \in DOMAIN out
             PROVE  IF job.scan = "cointegration"
                    THEN LET inside == {t \in Joint : out[r].start <= t /\ t <= out[r].end}
                         IN out[r].uses = BothLegs(inside) /\ Cardinality(inside) = job.size
                    ELSE \A i \in DOMAIN out[r] :
                      LET label == out[r][i].label
                          uses  == out[r][i].uses
                      IN CASE job.scan \in {"corr", "ols"} ->
                                /\ label \in Joint
                                /\ uses = BothLegs(Bars(Rank(label) - 1, Rank(label) + job.size - 1))
                           [] job.scan = "lead_lag" -> uses = PairsApart(label)
                           [] OTHER -> uses = BothLegs(Joint)
  BY DEF AlignedWindows, PairsApart
<1>1. PairInv
  BY DEF IndInv
<1>2. CASE Rolling
  BY <1>1, <1>2, RollingAligned DEF Rolling
<1>3. CASE ~Rolling
  <2>1. out # <<>>
    OBVIOUS
  <2>2. Passed /\ out = <<Numbers>>
    BY <1>1, <1>3, <2>1, SomethingOut
  <2>3. r = 1 /\ out[r] = Numbers
    BY <2>2
  <2> QED BY <1>1, <1>3, <2>2, <2>3, NumbersAligned DEF Rolling
<1> QED BY <1>2, <1>3

\* For any two legs, sizes, steps and fits, a number of a finding over two legs is made
\* of the closes of both legs at the bars its time, lag or stamps say: inner_join and
\* the kernels of scan/cross index alike.
THEOREM PairAlignedWindows == Spec => []AlignedWindows
<1>1. Init => IndInv
  BY InitInv
<1>2. IndInv /\ [Next]_vars => IndInv'
  BY NextInv
<1>3. IndInv => AlignedWindows
  BY InvAligned
<1> QED BY <1>1, <1>2, <1>3, PTL DEF Spec

----------------------------------------------------------------------------
(* No window is lost or given twice. *)

\* A multiple is what division leaves no rest of.
LEMMA Multiples ==
  ASSUME NEW s \in Nat \ {0}, NEW a \in Nat
  PROVE  a % s = 0 <=> \E c \in Nat : a = c * s
<1>1. a % s \in 0..(s - 1) /\ a \div s \in Nat /\ a = s * (a \div s) + (a % s)
  BY SMT
<1> DEFINE q == a \div s
           r == a % s
<1>2. r \in 0..(s - 1) /\ q \in Nat /\ a = s * q + r
  BY <1>1
<1> HIDE DEF q, r
<1>3. ASSUME r = 0 PROVE \E c \in Nat : a = c * s
  <2>1. a = q * s
    BY <1>2, <1>3, SMT
  <2> QED BY <1>2, <2>1
<1>4. ASSUME NEW c \in Nat, a = c * s PROVE r = 0
  <2>1. r = (c - q) * s
    BY <1>2, <1>4, SMT
  <2>2. c - q \in Int
    BY <1>2
  <2>3. c - q < 1
    <3>1. 1 * s = s /\ r < s
      BY <1>2
    <3> QED BY <2>1, <2>2, <3>1, TimesGrows
  <2>4. ~(c - q < 0)
    <3>1. 0 * s = 0 /\ r >= 0
      BY <1>2
    <3> QED BY <1>2, <2>1, <2>2, <3>1, TimesGrows
  <2>5. c - q = 0
    BY <2>2, <2>3, <2>4
  <2> QED BY <2>1, <2>5
<1>5. r = 0 <=> \E c \in Nat : a = c * s
  BY <1>3, <1>4
<1> QED BY <1>5 DEF r

\* The labels of the scans that write one Result are those wanted, in order.
LEMMA NumbersWanted ==
  ASSUME PairInv, Passed, job.scan \in PairKinds, ~Rolling
  PROVE  /\ \A i, j \in DOMAIN Numbers : i < j => Numbers[i].label < Numbers[j].label
         /\ {Numbers[i].label : i \in DOMAIN Numbers} = Wanted
<1>1. Feed /\ Columns /\ Merged
  BY DEF PairInv
<1>2. /\ AlignedN \in Nat /\ DOMAIN aligned = 1..AlignedN
      /\ \A k \in 1..AlignedN : Rank(aligned[k].ts) = k /\ aligned[k].ts \in Int
      /\ Cardinality(Joint) = AlignedN
  BY <1>1, RankIsIndex
<1>3. \A i, k \in 1..AlignedN : i < k => aligned[i].ts < aligned[k].ts
  BY <1>1, <1>2 DEF Columns
<1>4. CASE job.scan \in {"corr", "ols"}
  <2> DEFINE n == AlignedN - job.size
  <2>1. /\ DOMAIN Numbers = 1..n
        /\ \A i \in 1..n : Numbers[i].label = aligned[i + 1].ts /\ i + 1 \in 1..AlignedN
    BY <1>4, RollingNumbers
  <2>2. job.size \in Int /\ 3 <= job.size /\ job.size <= AlignedN - 1
    BY <1>1, <1>4, Bounds
  <2>3. \A i, j \in 1..n : i < j => Numbers[i].label < Numbers[j].label
    BY <1>3, <2>1
  <2>4. LaterBars = {aligned[q].ts : q \in 2..AlignedN}
    BY <1>1, <1>2, ClosesOfBars DEF LaterBars
  <2>5. Wanted = {t \in LaterBars : Rank(t) + job.size - 1 <= AlignedN}
    BY <1>2, <1>4 DEF Wanted
  <2>6. ASSUME NEW i \in 1..n PROVE Numbers[i].label \in Wanted
    <3>1. i + 1 \in 2..AlignedN /\ (i + 1) + job.size - 1 <= AlignedN
      BY <1>2, <2>2
    <3>2. Rank(aligned[i + 1].ts) = i + 1 /\ Numbers[i].label = aligned[i + 1].ts
      BY <1>2, <2>1, <3>1
    <3> QED BY <2>4, <2>5, <3>1, <3>2
  <2>7. ASSUME NEW t \in Wanted PROVE \E i \in 1..n : Numbers[i].label = t
    <3>1. PICK q \in 2..AlignedN : t = aligned[q].ts
      BY <2>4, <2>5
    <3>2. q + job.size - 1 <= AlignedN
      BY <1>2, <2>5, <3>1
    <3>3. q - 1 \in 1..n /\ (q - 1) + 1 = q
      BY <1>2, <2>2, <3>2
    <3>4. Numbers[q - 1].label = aligned[q].ts
      BY <2>1, <3>3
    <3> QED BY <3>1, <3>3, <3>4
  <2> QED BY <2>1, <2>3, <2>6, <2>7
<1>5. CASE job.scan = "lead_lag"
  <2> DEFINE l == OrDefault(job.size, DefaultMaxLag)
  <2>1. /\ l \in Nat /\ DOMAIN Numbers = 1..(2 * l + 1)
        /\ \A i \in 1..(2 * l + 1) : Numbers[i].label = i - l - 1
    BY <1>5, LagAligned
  <2>2. Wanted = -l..l
    BY <1>5 DEF Wanted
  <2> HIDE DEF l
  <2>3. \A i, j \in 1..(2 * l + 1) : i < j => Numbers[i].label < Numbers[j].label
    BY <2>1
  <2>4. \A i \in 1..(2 * l + 1) : Numbers[i].label \in -l..l
    BY <2>1
  <2>5. ASSUME NEW k \in -l..l PROVE \E i \in 1..(2 * l + 1) : Numbers[i].label = k
    <3>1. k + l + 1 \in 1..(2 * l + 1) /\ (k + l + 1) - l - 1 = k
      BY <2>1
    <3> QED BY <2>1, <3>1
  <2>6. {Numbers[i].label : i \in 1..(2 * l + 1)} = Wanted
    BY <2>2, <2>4, <2>5
  <2>7. 1..(2 * l + 1) = DOMAIN Numbers
    BY <2>1
  <2> QED BY <2>3, <2>6, <2>7, Zenon
<1>6. CASE job.scan = "engle_granger"
  <2>1. Numbers = <<[label |-> Absent, uses |-> Closes(1, AlignedN)]>>
    BY <1>6 DEF Numbers, EngleGrangerNumbers
  <2>2. DOMAIN Numbers = {1} /\ Numbers[1].label = Absent
    BY <2>1
  <2>3. Wanted = {Absent}
    BY <1>6 DEF Wanted
  <2> QED BY <2>2, <2>3
<1> QED BY <1>4, <1>5, <1>6 DEF PairKinds, Rolling

\* Where the windows of a rolling fit start, and which there should be.
LEMMA Starts ==
  ASSUME PairInv, Rolling, Passed
  PROVE  LET start(i) == aligned[1 + (i - 1) * Step].ts
         IN /\ \A i \in DOMAIN fits : Window(i).start = start(i)
            /\ \A i, j \in DOMAIN fits : i < j => start(i) < start(j)
            /\ \A i \in DOMAIN fits : start(i) \in Wanted
            /\ \A w \in Wanted : \E c \in Nat \ {0} :
                 /\ w = start(c) /\ 1 + (c - 1) * Step + job.size - 1 <= AlignedN
                 /\ \A i \in DOMAIN fits : w < start(i) => c < i
<1> DEFINE at(i) == 1 + (i - 1) * Step
           start(i) == aligned[at(i)].ts
<1>1. Feed /\ Columns /\ Merged /\ job.scan \in PairKinds
  BY DEF PairInv, Rolling, PairKinds
<1>2. /\ AlignedN \in Nat /\ DOMAIN aligned = 1..AlignedN
      /\ \A k \in 1..AlignedN : Rank(aligned[k].ts) = k /\ aligned[k].ts \in Int
      /\ Cardinality(Joint) = AlignedN
      /\ Joint = {aligned[k].ts : k \in 1..AlignedN}
  BY <1>1, RankIsIndex, JointBars
<1>3. \A i, k \in 1..AlignedN : i < k <=> aligned[i].ts < aligned[k].ts
  <2>1. \A i, k \in 1..AlignedN : i < k => aligned[i].ts < aligned[k].ts
    BY <1>1, <1>2 DEF Columns
  <2> QED BY <1>2, <2>1
<1>4. Step \in Nat \ {0} /\ job.size \in Int
  BY <1>1, Bounds
<1>5. ASSUME NEW i \in DOMAIN fits
      PROVE  at(i) \in 1..AlignedN /\ at(i) + job.size - 1 <= AlignedN /\ Window(i).start = start(i) /\ i \in Nat \ {0}
  <2>1. /\ fits[i].from \in 1..AlignedN /\ fits[i].to \in 1..AlignedN
        /\ fits[i].from = at(i) /\ fits[i].to = fits[i].from + job.size - 1
    BY WindowBars
  <2>2. i \in Nat \ {0}
    BY LenProperties DEF PairInv, Fitted
  <2> QED BY <2>1, <2>2 DEF Window
<1>6. Wanted = {t \in Joint : (Rank(t) - 1) % Step = 0 /\ Rank(t) + job.size - 1 <= AlignedN}
  BY <1>2 DEF Wanted, Rolling
<1>7. \A i, j \in Int : i < j <=> at(i) < at(j)
  <2> SUFFICES ASSUME NEW i \in Int, NEW j \in Int PROVE i < j <=> at(i) < at(j)
    OBVIOUS
  <2>1. i - 1 \in Int /\ j - 1 \in Int /\ (i < j <=> i - 1 < j - 1)
    OBVIOUS
  <2>2. (i - 1) * Step \in Int /\ (j - 1) * Step \in Int /\ (i - 1 < j - 1 <=> (i - 1) * Step < (j - 1) * Step)
    BY <1>4, <2>1, TimesGrows
  <2> QED BY <2>1, <2>2
<1>8. ASSUME NEW i \in DOMAIN fits PROVE start(i) \in Wanted
  <2>1. Rank(start(i)) = at(i) /\ start(i) \in Joint
    BY <1>2, <1>5
  <2>2. i - 1 \in Nat /\ at(i) - 1 = (i - 1) * Step /\ at(i) - 1 \in Nat
    <3>1. i - 1 \in Nat /\ (i - 1) * Step \in Int
      BY <1>4, <1>5, TimesGrows
    <3> QED BY <1>5, <3>1
  <2>3. (at(i) - 1) % Step = 0
    BY <1>4, <2>2, Multiples
  <2> QED BY <1>5, <1>6, <2>1, <2>3
<1>9. ASSUME NEW w \in Wanted
      PROVE  \E c \in Nat \ {0} : /\ w = start(c) /\ at(c) + job.size - 1 <= AlignedN
                                  /\ \A i \in DOMAIN fits : w < start(i) => c < i
  <2>1. PICK q \in 1..AlignedN : w = aligned[q].ts /\ q + job.size - 1 <= AlignedN /\ (q - 1) % Step = 0
    BY <1>2, <1>6
  <2>2. PICK d \in Nat : q - 1 = d * Step
    <3>1. q - 1 \in Nat
      BY <2>1
    <3> QED BY <1>4, <2>1, <3>1, Multiples
  <2>3. d + 1 \in Nat \ {0} /\ (d + 1) - 1 = d
    OBVIOUS
  <2>4. at(d + 1) = q
    BY <2>2, <2>3
  <2>5. ASSUME NEW i \in DOMAIN fits, w < start(i) PROVE d + 1 < i
    <3>1. q < at(i)
      BY <1>3, <1>5, <2>1, <2>5
    <3> HIDE DEF at
    <3>2. d + 1 \in Int /\ i \in Int
      BY <1>5
    <3>3. at(d + 1) < at(i)
      BY <2>4, <3>1
    <3> QED BY <1>7, <3>2, <3>3
  <2> QED BY <2>1, <2>3, <2>4, <2>5
<1>10. \A i, j \in DOMAIN fits : i < j => start(i) < start(j)
  BY <1>3, <1>5, <1>7
<1> QED BY <1>5, <1>8, <1>9, <1>10

\* What the invariant says of the labels.
LEMMA InvEvery == IndInv => EveryWindow
<1> SUFFICES ASSUME IndInv, job.scan \in PairKinds
             PROVE  /\ out # <<>> \/ (res = "Ok" /\ ~cancel) =>
                         /\ \A i, j \in DOMAIN LabelsGiven : i < j => LabelsGiven[i] < LabelsGiven[j]
                         /\ \A g \in ToSet(LabelsGiven), w \in Wanted : w < g => w \in ToSet(LabelsGiven)
                         /\ ToSet(LabelsGiven) \subseteq Wanted
                         /\ res = "Ok" /\ ~cancel => ToSet(LabelsGiven) = Wanted
                    /\ res = "Kernel" => out = <<>>
  BY DEF EveryWindow
<1>1. PairInv
  BY DEF IndInv
<1>2. res = "Kernel" => out = <<>>
  BY <1>1 DEF PairInv, Written
<1> SUFFICES ASSUME out # <<>> \/ (res = "Ok" /\ ~cancel)
             PROVE  /\ \A i, j \in DOMAIN LabelsGiven : i < j => LabelsGiven[i] < LabelsGiven[j]
                    /\ \A g \in ToSet(LabelsGiven), w \in Wanted : w < g => w \in ToSet(LabelsGiven)
                    /\ ToSet(LabelsGiven) \subseteq Wanted
                    /\ res = "Ok" /\ ~cancel => ToSet(LabelsGiven) = Wanted
  BY <1>2
<1>3. Passed
  BY <1>1, SomethingOut
<1>4. CASE ~Rolling
  <2>1. out = <<Numbers>>
    BY <1>1, <1>4, SomethingOut
  <2>2. LabelsGiven = [i \in DOMAIN Numbers |-> Numbers[i].label]
    BY <1>4, <2>1 DEF LabelsGiven, Rolling
  <2>3. DOMAIN LabelsGiven = DOMAIN Numbers /\ \A i \in DOMAIN Numbers : LabelsGiven[i] = Numbers[i].label
    BY <2>2
  <2>4. \A i, j \in DOMAIN LabelsGiven : i < j => LabelsGiven[i] < LabelsGiven[j]
    BY <1>1, <1>3, <1>4, <2>3, NumbersWanted
  <2>5. ToSet(LabelsGiven) = Wanted
    BY <1>1, <1>3, <1>4, <2>3, NumbersWanted DEF ToSet
  <2> QED BY <2>4, <2>5
<1>5. CASE Rolling
  <2> DEFINE start(i) == aligned[1 + (i - 1) * Step].ts
  <2>1. /\ Len(out) \in Nat /\ DOMAIN out = 1..Len(out) /\ Len(out) <= Len(fits)
        /\ Len(fits) \in Nat /\ DOMAIN fits = 1..Len(fits)
        /\ \A i \in DOMAIN out : out[i] = Window(i)
        /\ ~MoreWindows
    BY <1>1, <1>5, SomethingOut
  <2>2. /\ \A i \in DOMAIN fits : Window(i).start = start(i)
        /\ \A i, j \in DOMAIN fits : i < j => start(i) < start(j)
        /\ \A i \in DOMAIN fits : start(i) \in Wanted
        /\ \A w \in Wanted : \E c \in Nat \ {0} :
             /\ w = start(c) /\ 1 + (c - 1) * Step + job.size - 1 <= AlignedN
             /\ \A i \in DOMAIN fits : w < start(i) => c < i
    BY <1>1, <1>3, <1>5, Starts
  <2>3. DOMAIN LabelsGiven = DOMAIN out /\ \A i \in DOMAIN out : LabelsGiven[i] = out[i].start
    BY <1>5 DEF LabelsGiven, Rolling
  <2>4. \A i \in DOMAIN out : i \in DOMAIN fits /\ LabelsGiven[i] = start(i)
    BY <2>1, <2>2, <2>3
  <2>5. begin = 1 + Len(fits) * Step /\ job.size \in Int /\ AlignedN \in Nat /\ Step \in Nat \ {0}
    <3>1. Feed /\ Columns /\ job.scan \in PairKinds
      BY <1>1 DEF PairInv
    <3> QED BY <1>1, <1>3, <1>5, <3>1, Bounds DEF PairInv, Fitted
  <2>6. ASSUME Len(out) = Len(fits), NEW w \in Wanted PROVE \E c \in DOMAIN out : w = start(c)
    <3>1. PICK c \in Nat \ {0} : w = start(c) /\ 1 + (c - 1) * Step + job.size - 1 <= AlignedN
      BY <2>2
    <3>2. ~(1 + Len(fits) * Step + job.size - 1 <= AlignedN)
      BY <2>1, <2>5 DEF MoreWindows
    <3>3. c - 1 \in Int /\ (c - 1) * Step \in Int /\ Len(fits) * Step \in Int
          /\ (c - 1 < Len(fits) <=> (c - 1) * Step < Len(fits) * Step)
      <4>1. c - 1 \in Int /\ Len(fits) \in Int
        BY <2>1
      <4> QED BY <2>5, <4>1, TimesGrows
    <3>4. c - 1 < Len(fits)
      BY <2>5, <3>1, <3>2, <3>3, SMTT(30)
    <3>5. c \in DOMAIN out
      BY <2>1, <2>6, <3>4
    <3> QED BY <3>1, <3>5
  <2> HIDE DEF start
  <2>7. \A i, j \in DOMAIN LabelsGiven : i < j => LabelsGiven[i] < LabelsGiven[j]
    BY <2>2, <2>3, <2>4
  <2>8. ToSet(LabelsGiven) = {start(i) : i \in DOMAIN out}
    BY <2>3, <2>4 DEF ToSet
  <2>9. ToSet(LabelsGiven) \subseteq Wanted
    BY <2>2, <2>4, <2>8
  <2>10. ASSUME NEW g \in ToSet(LabelsGiven), NEW w \in Wanted, w < g PROVE w \in ToSet(LabelsGiven)
    <3>1. PICK i \in DOMAIN out : g = start(i)
      BY <2>8
    <3>2. PICK c \in Nat \ {0} : w = start(c) /\ \A k \in DOMAIN fits : w < start(k) => c < k
      BY <2>2
    <3>3. c < i
      BY <2>4, <2>10, <3>1, <3>2
    <3>4. c \in DOMAIN out
      BY <2>1, <3>3
    <3> QED BY <2>8, <3>2, <3>4
  <2>11. res = "Ok" /\ ~cancel => ToSet(LabelsGiven) = Wanted
    <3> SUFFICES ASSUME res = "Ok", ~cancel PROVE ToSet(LabelsGiven) = Wanted
      OBVIOUS
    <3>1. Len(out) = Len(fits)
      BY <1>1, <1>5 DEF PairInv, Written
    <3> QED BY <2>6, <2>8, <2>9, <3>1
  <2> QED BY <2>7, <2>9, <2>10, <2>11
<1> QED BY <1>4, <1>5

\* For any two legs, sizes, steps and fits, no window and no lag is lost or given twice,
\* and a kernel error has written nothing.
THEOREM PairEveryWindow == Spec => []EveryWindow
<1>1. Init => IndInv
  BY InitInv
<1>2. IndInv /\ [Next]_vars => IndInv'
  BY NextInv
<1>3. IndInv => EveryWindow
  BY InvEvery
<1> QED BY <1>1, <1>2, <1>3, PTL DEF Spec

----------------------------------------------------------------------------
(* The median of a sequence of natural numbers. *)

Naturals(s, n) == n \in Nat /\ s \in [1..n -> Nat]
Placed(s, i) == {j \in DOMAIN s : s[j] < s[i] \/ (s[j] = s[i] /\ j <= i)}
Smaller(s, v) == {j \in DOMAIN s : s[j] < v}
NoLarger(s, v) == {j \in DOMAIN s : s[j] <= v}

\* v is the k-th smallest of s.
Kth(s, k, v) == Cardinality(Smaller(s, v)) < k /\ k <= Cardinality(NoLarger(s, v))

LEMMA FiniteParts ==
  ASSUME NEW n, NEW s, Naturals(s, n), NEW i \in 1..n, NEW v
  PROVE  /\ IsFiniteSet(Placed(s, i)) /\ Cardinality(Placed(s, i)) \in 1..n
         /\ IsFiniteSet(Smaller(s, v)) /\ Cardinality(Smaller(s, v)) \in Nat
         /\ IsFiniteSet(NoLarger(s, v)) /\ Cardinality(NoLarger(s, v)) \in Nat
<1>1. n \in Nat /\ DOMAIN s = 1..n /\ \A j \in 1..n : s[j] \in Nat
  BY DEF Naturals
<1>2. IsFiniteSet(1..n) /\ Cardinality(1..n) = n
  BY <1>1, FS_Interval
<1>3. /\ Placed(s, i) \in SUBSET (1..n) /\ i \in Placed(s, i)
      /\ Smaller(s, v) \in SUBSET (1..n) /\ NoLarger(s, v) \in SUBSET (1..n)
  BY <1>1 DEF Placed, Smaller, NoLarger
<1>4. ASSUME NEW A \in SUBSET (1..n)
      PROVE  IsFiniteSet(A) /\ Cardinality(A) \in Nat /\ Cardinality(A) <= n
  BY <1>2, FS_Subset, FS_CardinalityType
<1>5. IsFiniteSet(Placed(s, i)) /\ Cardinality(Placed(s, i)) \in Nat /\ Cardinality(Placed(s, i)) <= n
  BY <1>3, <1>4
<1>6. Cardinality(Placed(s, i)) # 0
  BY <1>3, <1>5, FS_EmptySet
<1> QED BY <1>1, <1>3, <1>4, <1>5, <1>6

\* A smaller number, and of two that are equal the first, comes before.
LEMMA PlaceOrder ==
  ASSUME NEW n, NEW s, Naturals(s, n), NEW i \in 1..n, NEW j \in 1..n,
         s[i] < s[j] \/ (s[i] = s[j] /\ i < j)
  PROVE  Place(s, i) < Place(s, j)
<1>1. n \in Nat /\ DOMAIN s = 1..n /\ \A k \in 1..n : s[k] \in Nat
  BY DEF Naturals
<1>2. Placed(s, i) \in SUBSET Placed(s, j)
  BY <1>1 DEF Placed
<1>3. j \in Placed(s, j) /\ j \notin Placed(s, i)
  BY <1>1 DEF Placed
<1>4. /\ Cardinality(Placed(s, i)) <= Cardinality(Placed(s, j))
      /\ Cardinality(Placed(s, i)) # Cardinality(Placed(s, j))
  BY <1>2, <1>3, FiniteParts, FS_Subset
<1>5. \A k \in 1..n : Cardinality(Placed(s, k)) \in Nat
  <2> SUFFICES ASSUME NEW k \in 1..n PROVE Cardinality(Placed(s, k)) \in Nat
    OBVIOUS
  <2>1. Cardinality(Placed(s, k)) \in 1..n /\ Cardinality(Smaller(s, 0)) \in Nat
    BY FiniteParts
  <2> QED BY <1>1, <2>1
<1> QED BY <1>4, <1>5 DEF Place, Placed

\* Every place is taken.
LEMMA PlaceTaken ==
  ASSUME NEW n, NEW s, Naturals(s, n), NEW k \in 1..n
  PROVE  \E i \in 1..n : Place(s, i) = k
<1> DEFINE f == [i \in 1..n |-> Place(s, i)]
<1>1. n \in Nat /\ DOMAIN s = 1..n /\ \A j \in 1..n : s[j] \in Nat
  BY DEF Naturals
<1>2. \A i \in 1..n : Place(s, i) \in 1..n
  BY FiniteParts DEF Place, Placed
<1>3. ASSUME NEW i \in 1..n, NEW j \in 1..n, i # j PROVE Place(s, i) # Place(s, j)
  <2>1. \/ s[i] < s[j] \/ (s[i] = s[j] /\ i < j)
        \/ s[j] < s[i] \/ (s[j] = s[i] /\ j < i)
    BY <1>1, <1>3
  <2>2. Place(s, i) < Place(s, j) \/ Place(s, j) < Place(s, i)
    BY <2>1, PlaceOrder
  <2> QED BY <1>2, <2>2
<1>4. f \in [1..n -> 1..n] /\ \A i, j \in 1..n : f[i] = f[j] => i = j
  BY <1>2, <1>3
<1>5. f \in Injection(1..n, 1..n)
  BY <1>4 DEF Injection, IsInjective
<1>6. IsFiniteSet(1..n)
  BY <1>1, FS_Interval
<1>7. f \in Surjection(1..n, 1..n)
  <2> HIDE DEF f
  <2> QED BY <1>5, <1>6, FS_Injection, Zenon
<1>8. \E i \in 1..n : f[i] = k
  BY <1>7 DEF Surjection
<1> QED BY <1>8

\* The k-th of the sorted copy is the k-th smallest.
LEMMA SortedKth ==
  ASSUME NEW n, NEW s, Naturals(s, n), NEW k \in 1..n
  PROVE  /\ \E i \in 1..n : Sorted(s)[k] = s[i]
         /\ Kth(s, k, Sorted(s)[k])
<1>1. n \in Nat /\ DOMAIN s = 1..n /\ \A j \in 1..n : s[j] \in Nat
  BY DEF Naturals
<1> DEFINE at == CHOOSE i \in 1..n : Place(s, i) = k
<1>2. at \in 1..n /\ Place(s, at) = k
  BY PlaceTaken
<1>3. Sorted(s)[k] = s[at]
  BY <1>1 DEF Sorted
<1> HIDE DEF at
<1>4. PICK i \in 1..n : i = at /\ Sorted(s)[k] = s[i] /\ Place(s, i) = k
  BY <1>2, <1>3
<1>5. Cardinality(Placed(s, i)) = k
  BY <1>4 DEF Place, Placed
<1>6. /\ Smaller(s, s[i]) \in SUBSET Placed(s, i) /\ Placed(s, i) \in SUBSET NoLarger(s, s[i])
      /\ i \in Placed(s, i) /\ i \notin Smaller(s, s[i])
  BY <1>1 DEF Placed, Smaller, NoLarger
<1>7. /\ IsFiniteSet(Placed(s, i)) /\ IsFiniteSet(NoLarger(s, s[i]))
      /\ Cardinality(Smaller(s, s[i])) \in Nat /\ Cardinality(NoLarger(s, s[i])) \in Nat
  BY FiniteParts
<1>8. Cardinality(Smaller(s, s[i])) <= k /\ Cardinality(Smaller(s, s[i])) # k
  BY <1>5, <1>6, <1>7, FS_Subset
<1>9. k <= Cardinality(NoLarger(s, s[i]))
  BY <1>5, <1>6, <1>7, FS_Subset
<1> QED BY <1>4, <1>7, <1>8, <1>9 DEF Kth

\* There is one k-th smallest.
LEMMA OneKth ==
  ASSUME NEW n, NEW s, Naturals(s, n), NEW k \in 1..n, NEW i \in 1..n, NEW j \in 1..n,
         Kth(s, k, s[i]), Kth(s, k, s[j])
  PROVE  s[i] = s[j]
<1>1. n \in Nat /\ DOMAIN s = 1..n /\ \A m \in 1..n : s[m] \in Nat
  BY DEF Naturals
<1>2. ASSUME NEW v \in Nat, NEW w \in Nat, Kth(s, k, v), Kth(s, k, w) PROVE ~(v < w)
  <2> SUFFICES ASSUME v < w PROVE FALSE
    OBVIOUS
  <2>1. NoLarger(s, v) \in SUBSET Smaller(s, w)
    BY <1>1 DEF NoLarger, Smaller
  <2>2. /\ IsFiniteSet(Smaller(s, w))
        /\ Cardinality(Smaller(s, w)) \in Nat /\ Cardinality(NoLarger(s, v)) \in Nat
    BY FiniteParts
  <2>3. Cardinality(NoLarger(s, v)) <= Cardinality(Smaller(s, w))
    BY <2>1, <2>2, FS_Subset
  <2> QED BY <1>1, <1>2, <2>2, <2>3 DEF Kth
<1> QED BY <1>1, <1>2

\* As many of a window of numbers as of the same window counted from 1.
AsMany(A, lo) == Cardinality({lo - 1 + x : x \in A}) = Cardinality(A)

LEMMA Shifted ==
  ASSUME NEW m \in Nat, NEW lo \in Nat, NEW A \in SUBSET (1..m)
  PROVE  AsMany(A, lo)
<1> DEFINE B == {lo - 1 + x : x \in A}
           f == [x \in A |-> lo - 1 + x]
<1>1. IsFiniteSet(A)
  <2>1. IsFiniteSet(1..m) /\ A \subseteq 1..m
    BY FS_Interval
  <2> QED BY <2>1, FS_Subset, Zenon
<1>2. f \in [A -> B] /\ \A x, y \in A : f[x] = f[y] => x = y
  OBVIOUS
<1>3. \A b \in B : \E x \in A : f[x] = b
  OBVIOUS
<1>4. f \in Bijection(A, B)
  BY <1>2, <1>3 DEF Bijection, Injection, Surjection, IsInjective
<1> HIDE DEF f, B
<1>5. Cardinality(A) = Cardinality(B)
  <2>1. ExistsBijection(A, B) /\ IsFiniteSet(A)
    BY <1>1, <1>4 DEF ExistsBijection
  <2> QED BY <2>1, FS_Bijection, Zenon
<1> QED BY <1>5 DEF B, AsMany

\* The |beta| of the fits from lo to hi.
Betas(lo, hi) == [x \in 1..(hi - lo + 1) |-> fits[lo - 1 + x].beta]
NoneSingular == \A i \in DOMAIN fits : fits[i].beta # NaN

LEMMA BetasFacts ==
  ASSUME Fitted, \A i \in DOMAIN fits : fits[i].beta \in Nat,
         NEW lo \in Nat, lo >= 1, NEW hi \in 0..Len(fits)
  PROVE  /\ Len(fits) \in Nat /\ DOMAIN fits = 1..Len(fits)
         /\ lo <= hi => Naturals(Betas(lo, hi), hi - lo + 1)
         /\ \A x \in 1..(hi - lo + 1) : /\ lo - 1 + x \in lo..hi /\ lo - 1 + x \in DOMAIN fits
                                        /\ Betas(lo, hi)[x] = fits[lo - 1 + x].beta
         /\ \A i \in lo..hi : /\ i - lo + 1 \in 1..(hi - lo + 1) /\ i \in DOMAIN fits
                              /\ Betas(lo, hi)[i - lo + 1] = fits[i].beta
<1>1. Len(fits) \in Nat /\ DOMAIN fits = 1..Len(fits)
  BY LenProperties DEF Fitted
<1>2. \A x \in 1..(hi - lo + 1) : /\ lo - 1 + x \in lo..hi /\ lo - 1 + x \in DOMAIN fits
                                  /\ Betas(lo, hi)[x] = fits[lo - 1 + x].beta
  BY <1>1 DEF Betas
<1>3. lo <= hi => Naturals(Betas(lo, hi), hi - lo + 1)
  <2> SUFFICES ASSUME lo <= hi PROVE Naturals(Betas(lo, hi), hi - lo + 1)
    OBVIOUS
  <2>1. hi - lo + 1 \in Nat
    BY <1>1
  <2>2. Betas(lo, hi) \in [1..(hi - lo + 1) -> Nat]
    BY <1>2 DEF Betas
  <2> QED BY <2>1, <2>2 DEF Naturals
<1>4. ASSUME NEW i \in lo..hi
      PROVE  /\ i - lo + 1 \in 1..(hi - lo + 1) /\ i \in DOMAIN fits
             /\ Betas(lo, hi)[i - lo + 1] = fits[i].beta
  <2>1. i - lo + 1 \in 1..(hi - lo + 1) /\ lo - 1 + (i - lo + 1) = i
    BY <1>1
  <2> QED BY <1>2, <2>1
<1> QED BY <1>1, <1>2, <1>3, <1>4

\* The k-th smallest |beta| of a window of fits is the k-th of its sorted copy.
LEMMA RankedIs ==
  ASSUME Fitted, \A i \in DOMAIN fits : fits[i].beta \in Nat,
         NEW lo \in Nat, lo >= 1, NEW hi \in 0..Len(fits), lo <= hi,
         NEW k \in 1..(hi - lo + 1)
  PROVE  Ranked(k, lo..hi) = Sorted(Betas(lo, hi))[k] /\ Ranked(k, lo..hi) \in Nat
<1> DEFINE n == hi - lo + 1
           s == Betas(lo, hi)
<1>1. /\ Naturals(s, n) /\ n \in Nat /\ DOMAIN s = 1..n
      /\ \A x \in 1..n : /\ lo - 1 + x \in lo..hi /\ s[x] = fits[lo - 1 + x].beta
                         /\ s[x] \in Nat
      /\ \A i \in lo..hi : i - lo + 1 \in 1..n /\ s[i - lo + 1] = fits[i].beta
  BY BetasFacts DEF Naturals
<1> HIDE DEF n, s
<1>2. \A v : /\ {i \in lo..hi : fits[i].beta < v} = {lo - 1 + x : x \in Smaller(s, v)}
             /\ {i \in lo..hi : fits[i].beta <= v} = {lo - 1 + x : x \in NoLarger(s, v)}
  <2> SUFFICES ASSUME NEW v
               PROVE /\ {i \in lo..hi : fits[i].beta < v} = {lo - 1 + x : x \in Smaller(s, v)}
                     /\ {i \in lo..hi : fits[i].beta <= v} = {lo - 1 + x : x \in NoLarger(s, v)}
    OBVIOUS
  <2>1. \A i \in lo..hi : i = lo - 1 + (i - lo + 1)
    OBVIOUS
  <2>2. /\ \A x : x \in Smaller(s, v) <=> x \in 1..n /\ s[x] < v
        /\ \A x : x \in NoLarger(s, v) <=> x \in 1..n /\ s[x] <= v
    BY <1>1 DEF Smaller, NoLarger
  <2>3. ASSUME NEW i \in lo..hi
        PROVE  /\ fits[i].beta < v => i \in {lo - 1 + x : x \in Smaller(s, v)}
               /\ fits[i].beta <= v => i \in {lo - 1 + x : x \in NoLarger(s, v)}
    <3>1. PICK x \in 1..n : x = i - lo + 1 /\ i = lo - 1 + x /\ s[x] = fits[i].beta
      BY <1>1, <2>1
    <3> QED BY <2>2, <3>1
  <2>4. ASSUME NEW x \in 1..n
        PROVE  /\ lo - 1 + x \in lo..hi
               /\ s[x] < v => fits[lo - 1 + x].beta < v
               /\ s[x] <= v => fits[lo - 1 + x].beta <= v
    BY <1>1
  <2>5. /\ {i \in lo..hi : fits[i].beta < v} \subseteq {lo - 1 + x : x \in Smaller(s, v)}
        /\ {i \in lo..hi : fits[i].beta <= v} \subseteq {lo - 1 + x : x \in NoLarger(s, v)}
    BY <2>3, Zenon
  <2>6. /\ {lo - 1 + x : x \in Smaller(s, v)} \subseteq {i \in lo..hi : fits[i].beta < v}
        /\ {lo - 1 + x : x \in NoLarger(s, v)} \subseteq {i \in lo..hi : fits[i].beta <= v}
    BY <2>2, <2>4, Zenon
  <2> QED BY <2>5, <2>6, Zenon
<1>3. \A v : Smaller(s, v) \in SUBSET (1..n) /\ NoLarger(s, v) \in SUBSET (1..n)
  BY <1>1 DEF Smaller, NoLarger
<1>4. \A v : /\ Cardinality({i \in lo..hi : fits[i].beta < v}) = Cardinality(Smaller(s, v))
             /\ Cardinality({i \in lo..hi : fits[i].beta <= v}) = Cardinality(NoLarger(s, v))
  <2> SUFFICES ASSUME NEW v
      PROVE /\ Cardinality({i \in lo..hi : fits[i].beta < v}) = Cardinality(Smaller(s, v))
            /\ Cardinality({i \in lo..hi : fits[i].beta <= v}) = Cardinality(NoLarger(s, v))
    OBVIOUS
  <2>1. /\ Cardinality({lo - 1 + x : x \in Smaller(s, v)}) = Cardinality(Smaller(s, v))
        /\ Cardinality({lo - 1 + x : x \in NoLarger(s, v)}) = Cardinality(NoLarger(s, v))
    <3>1. n \in Nat /\ lo \in Nat
      BY <1>1
    <3>2. Smaller(s, v) \in SUBSET (1..n) /\ NoLarger(s, v) \in SUBSET (1..n)
      BY <1>3, Zenon
    <3>3. AsMany(Smaller(s, v), lo) /\ AsMany(NoLarger(s, v), lo)
      BY <3>1, <3>2, Shifted, Zenon
    <3> QED BY <3>3, Zenon DEF AsMany
  <2> QED BY <1>2, <2>1, Zenon
<1>5. Ranked(k, lo..hi) = CHOOSE v \in {fits[i].beta : i \in lo..hi} : Kth(s, k, v)
  BY <1>4 DEF Ranked, Kth
<1>6. k \in 1..n
  BY DEF n
<1>7. PICK a \in 1..n : Sorted(s)[k] = s[a] /\ Kth(s, k, s[a])
  <2>1. (\E i \in 1..n : Sorted(s)[k] = s[i]) /\ Kth(s, k, Sorted(s)[k])
    BY <1>1, <1>6, SortedKth, Zenon
  <2> QED BY <2>1, Zenon
<1>8. s[a] \in {fits[i].beta : i \in lo..hi}
  BY <1>1
<1>9. ASSUME NEW v \in {fits[i].beta : i \in lo..hi}, Kth(s, k, v) PROVE v = s[a]
  <2>1. PICK i \in lo..hi : v = fits[i].beta
    BY <1>9
  <2>2. PICK b \in 1..n : v = s[b]
    BY <1>1, <2>1
  <2>3. Naturals(s, n) /\ Kth(s, k, s[b]) /\ Kth(s, k, s[a])
    BY <1>1, <1>7, <1>9, <2>2, Zenon
  <2>4. s[b] = s[a]
    BY <1>6, <2>3, OneKth, Zenon
  <2> QED BY <2>2, <2>4
<1>10. Ranked(k, lo..hi) = s[a]
  BY <1>5, <1>7, <1>8, <1>9
<1> QED BY <1>1, <1>7, <1>10 DEF s

\* The two middle ranks of a list.
LEMMA Halves ==
  ASSUME NEW n \in Nat, n >= 1
  PROVE  /\ n % 2 = 1 => (n + 1) \div 2 = (n \div 2) + 1 /\ (n \div 2) + 1 \in 1..n
         /\ n % 2 # 1 => /\ (n + 1) \div 2 = n \div 2
                         /\ (n \div 2) + 1 \in 1..n /\ n \div 2 \in 1..n
OBVIOUS

\* The median of a window of fits is what the k-th smallest of it say.
LEMMA MedianOfFits ==
  ASSUME Fitted, \A i \in DOMAIN fits : fits[i].beta \in Nat,
         NEW lo \in Nat, lo >= 1, NEW hi \in 0..Len(fits), lo <= hi,
         NEW m, m = Cardinality(lo..hi)
  PROVE  /\ Median2(Betas(lo, hi)) = Ranked((m + 1) \div 2, lo..hi) + Ranked((m \div 2) + 1, lo..hi)
         /\ Median2(Betas(lo, hi)) \in Nat
<1> DEFINE s == Betas(lo, hi)
<1>1. m = hi - lo + 1 /\ m \in Nat /\ m >= 1
  BY FS_Interval
<1>2. Len(s) = m
  BY <1>1 DEF Betas
<1> HIDE DEF s
<1>3. Median2(s) = IF m % 2 = 1 THEN 2 * Sorted(s)[(m \div 2) + 1]
                   ELSE Sorted(s)[m \div 2] + Sorted(s)[(m \div 2) + 1]
  BY <1>2 DEF Median2
<1>4. \A k \in 1..m : Ranked(k, lo..hi) = Sorted(s)[k] /\ Ranked(k, lo..hi) \in Nat
  BY <1>1, RankedIs DEF s
<1>5. CASE m % 2 = 1
  <2>1. (m + 1) \div 2 = (m \div 2) + 1 /\ (m \div 2) + 1 \in 1..m
    BY <1>1, <1>5, Halves
  <2> QED BY <1>3, <1>4, <1>5, <2>1 DEF s
<1>6. CASE m % 2 # 1
  <2>1. (m + 1) \div 2 = m \div 2 /\ (m \div 2) + 1 \in 1..m /\ m \div 2 \in 1..m
    BY <1>1, <1>6, Halves
  <2> QED BY <1>3, <1>4, <1>6, <2>1 DEF s
<1> QED BY <1>5, <1>6

----------------------------------------------------------------------------
(* The verdict of a window rests on the windows before it. *)

EarlierLow(i) == \E k \in 1..(i - 1) : fits[k].p = "low"

\* What the detector has carried from fit to fit.
Lost == /\ \A i \in DOMAIN fits : fits[i].lost <=> (fits[i].p = "high" /\ EarlierLow(i))
        /\ ever <=> EarlierLow(Len(fits) + 1)

\* While no fit was singular, the history is the |beta| of every fit, and each verdict
\* was taken from those before it.
Drifts == NoneSingular =>
  /\ history = Betas(1, Len(fits))
  /\ \A i \in DOMAIN fits : fits[i].drift <=> BetaDrift(fits[i].beta, Betas(1, i - 1))

\* Where there is something to write no fit was singular, and a |beta| is a number.
Sound == /\ \A i \in DOMAIN fits : fits[i].beta \in Nat \cup {NaN}
         /\ Rolling /\ (pc \in {"after", "emit"} \/ out # <<>>) => NoneSingular

Verdicts == Lost /\ Drifts /\ Sound

\* The run over two legs starts with no fit.
LEMMA VerdictsInit == Init => (job.scan \in PairKinds => Verdicts)
<1> SUFFICES ASSUME Init, job.scan \in PairKinds PROVE Verdicts
  OBVIOUS
<1>1. PICK c \in PairCases : pc = "enter"
  BY PairAssumption DEF Init
<1>2. fits = <<>> /\ ever = FALSE /\ history = <<>> /\ out = <<>>
  BY DEF Init, PairInit
<1>3. DOMAIN fits = {} /\ Len(fits) = 0 /\ Len(fits) + 1 = 1 /\ 0 - 1 + 1 = 0 /\ 1..0 = {} /\ 1 - 1 = 0
  BY <1>2
<1>4. Lost
  <2>1. ~EarlierLow(1)
    BY <1>3 DEF EarlierLow
  <2> QED BY <1>2, <1>3, <2>1 DEF Lost
<1>5. Drifts
  <2>1. Betas(1, 0) = <<>>
    BY <1>3 DEF Betas
  <2> QED BY <1>2, <1>3, <2>1 DEF Drifts
<1>6. Sound
  BY <1>1, <1>2, <1>3 DEF Sound, NoneSingular
<1> QED BY <1>4, <1>5, <1>6 DEF Verdicts

\* A fit is judged by those before it and joins them.
LEMMA Judged ==
  ASSUME PairInv, Verdicts, FitWindow
  PROVE  Verdicts'
<1> DEFINE n == Len(fits)
           new(f) == [from |-> begin, to |-> begin + job.size - 1, p |-> f.p, beta |-> f.beta,
                      lost |-> ever /\ f.p = "high", drift |-> BetaDrift(f.beta, history)]
<1>1. PICK f \in Fits : /\ fits' = Append(fits, new(f)) /\ ever' = (ever \/ f.p = "low")
                        /\ history' = IF f.beta = NaN THEN history ELSE Append(history, f.beta)
  BY DEF FitWindow
<1>2. f.p \in PValues /\ f.beta \in Nat \cup {NaN}
  BY PairAssumption
<1>3. n \in Nat /\ DOMAIN fits = 1..n /\ fits \in Seq(Fit) /\ fits' \in Seq(Fit)
  <2>1. fits \in Seq(Fit) /\ Fitted'
    BY FittedStep DEF PairInv, Fitted, Next, PairNext
  <2> QED BY <2>1, LenProperties DEF Fitted
<1>4. /\ Len(fits') = n + 1 /\ DOMAIN fits' = 1..(n + 1)
      /\ \A i \in 1..n : fits'[i] = fits[i]
      /\ fits'[n + 1] = new(f)
  <2>1. fits' = Append(fits, new(f)) /\ fits \in Seq(Fit \cup {new(f)}) /\ new(f) \in Fit \cup {new(f)}
    BY <1>1, <1>3
  <2> HIDE DEF new
  <2>2. /\ Len(fits') = n + 1 /\ fits'[n + 1] = new(f)
        /\ \A i \in 1..n : fits'[i] = fits[i]
    BY <2>1, AppendProperties
  <2> QED BY <1>3, <2>2, LenProperties
<1>5. /\ fits'[n + 1].p = f.p /\ fits'[n + 1].beta = f.beta
      /\ fits'[n + 1].lost = (ever /\ f.p = "high")
      /\ fits'[n + 1].drift = BetaDrift(f.beta, history)
  BY <1>4
<1> PICK m : m = n
  OBVIOUS
<1>6. /\ m \in Nat /\ DOMAIN fits = 1..m /\ Len(fits) = m /\ DOMAIN fits' = 1..(m + 1) /\ Len(fits') = m + 1
      /\ \A i \in 1..m : fits'[i] = fits[i]
      /\ fits'[m + 1].p = f.p /\ fits'[m + 1].beta = f.beta
      /\ fits'[m + 1].lost = (ever /\ f.p = "high")
      /\ fits'[m + 1].drift = BetaDrift(f.beta, history)
  BY <1>3, <1>4, <1>5
<1> HIDE DEF n, new
<1>7. ASSUME NEW i \in 1..(m + 1)
      PROVE  (EarlierLow(i)' <=> EarlierLow(i)) /\ Betas(1, i - 1)' = Betas(1, i - 1)
  <2>1. \A k \in 1..(i - 1) : k \in 1..m /\ fits'[k] = fits[k]
    BY <1>6
  <2>2. EarlierLow(i)' <=> EarlierLow(i)
    BY <2>1 DEF EarlierLow
  <2>3. i - 1 - 1 + 1 = i - 1 /\ \A k \in 1..(i - 1) : 1 - 1 + k = k
    BY <1>6
  <2>4. Betas(1, i - 1)' = Betas(1, i - 1)
    BY <2>1, <2>3 DEF Betas
  <2> QED BY <2>2, <2>4
<1>8. Lost'
  <2>1. ever <=> EarlierLow(m + 1)
    BY <1>6 DEF Verdicts, Lost
  <2>2. EarlierLow(m + 2)' <=> EarlierLow(m + 1) \/ f.p = "low"
    <3>1. \A k \in 1..(m + 1) : k \in 1..m \/ k = m + 1
      BY <1>6
    <3>2. m + 1 \in 1..(m + 1) /\ m + 2 - 1 = m + 1 /\ m + 1 - 1 = m /\ 1..m \subseteq 1..(m + 1)
      BY <1>6
    <3> QED BY <1>6, <3>1, <3>2 DEF EarlierLow
  <2>3. ever' <=> EarlierLow(Len(fits) + 1)'
    <3>1. Len(fits') + 1 = m + 2
      BY <1>6
    <3>2. EarlierLow(Len(fits) + 1)' <=> EarlierLow(m + 2)'
      BY <3>1 DEF EarlierLow
    <3> QED BY <1>1, <2>1, <2>2, <3>2
  <2>4. ASSUME NEW i \in 1..(m + 1)
        PROVE  fits'[i].lost <=> (fits'[i].p = "high" /\ EarlierLow(i)')
    <3>1. CASE i \in 1..m
      BY <1>6, <1>7, <3>1 DEF Verdicts, Lost
    <3>2. CASE i = m + 1
      BY <1>6, <1>7, <2>1, <3>2
    <3> QED BY <1>6, <3>1, <3>2
  <2> QED BY <1>6, <2>3, <2>4 DEF Lost
<1>9. Drifts'
  <2> SUFFICES ASSUME NoneSingular'
               PROVE  /\ history' = Betas(1, Len(fits))'
                      /\ \A i \in DOMAIN fits' :
                           fits'[i].drift <=> BetaDrift(fits'[i].beta, Betas(1, i - 1)')
    BY DEF Drifts
  <2>1. \A i \in 1..(m + 1) : fits'[i].beta # NaN
    BY <1>6 DEF NoneSingular
  <2>2. NoneSingular /\ f.beta # NaN
    BY <1>6, <2>1 DEF NoneSingular
  <2>3. /\ history = Betas(1, m)
        /\ \A i \in 1..m : fits[i].drift <=> BetaDrift(fits[i].beta, Betas(1, i - 1))
    BY <1>6, <2>2 DEF Verdicts, Drifts
  <2>4. m + 1 \in 1..(m + 1) /\ m + 1 - 1 = m
    BY <1>6
  <2>5. ASSUME NEW i \in 1..(m + 1)
        PROVE  fits'[i].drift <=> BetaDrift(fits'[i].beta, Betas(1, i - 1)')
    <3>1. CASE i \in 1..m
      BY <1>6, <1>7, <2>3, <3>1
    <3>2. CASE i = m + 1
      BY <1>6, <1>7, <2>3, <2>4, <3>2
    <3> QED BY <1>6, <3>1, <3>2
  <2>6. history' = Betas(1, Len(fits))'
    <3>1. history' = Append(Betas(1, m), f.beta)
      BY <1>1, <2>2, <2>3
    <3>2. m - 1 + 1 = m /\ m + 1 - 1 + 1 = m + 1 /\ \A k \in 1..(m + 1) : 1 - 1 + k = k
      BY <1>6
    <3>3. /\ Betas(1, m) = [x \in 1..m |-> fits[x].beta]
          /\ Betas(1, Len(fits))' = [x \in 1..(m + 1) |-> fits'[x].beta]
      BY <1>6, <3>2 DEF Betas
    <3>4. Append([x \in 1..m |-> fits[x].beta], f.beta) = [x \in 1..(m + 1) |-> fits'[x].beta]
      <4> DEFINE s == [x \in 1..m |-> fits[x].beta]
                 T == {fits[x].beta : x \in 1..m} \cup {f.beta}
      <4>1. s \in Seq(T) /\ f.beta \in T /\ Len(s) = m
        BY <1>6
      <4>2. /\ Append(s, f.beta) \in Seq(T) /\ Len(Append(s, f.beta)) = m + 1
            /\ \A i \in 1..m : Append(s, f.beta)[i] = s[i]
            /\ Append(s, f.beta)[m + 1] = f.beta
        <5> HIDE DEF T, s
        <5> QED BY <4>1, AppendProperties
      <4>3. /\ Append(s, f.beta) = [x \in 1..(m + 1) |-> Append(s, f.beta)[x]]
        <5> HIDE DEF T, s
        <5> QED BY <4>2
      <4>4. \A x \in 1..(m + 1) : Append(s, f.beta)[x] = fits'[x].beta
        <5> SUFFICES ASSUME NEW x \in 1..(m + 1) PROVE Append(s, f.beta)[x] = fits'[x].beta
          OBVIOUS
        <5>1. CASE x \in 1..m
          BY <1>6, <4>2, <5>1
        <5>2. CASE x = m + 1
          BY <1>6, <4>2, <5>2
        <5> QED BY <1>6, <5>1, <5>2
      <4> QED BY <4>3, <4>4
    <3> QED BY <3>1, <3>3, <3>4
  <2> QED BY <1>6, <2>5, <2>6
<1>10. Sound'
  <2>1. \A i \in 1..(m + 1) : fits'[i].beta \in Nat \cup {NaN}
    <3>1. \A i \in 1..m : fits[i].beta \in Nat \cup {NaN}
      BY <1>6 DEF Verdicts, Sound
    <3> QED BY <1>2, <1>6, <3>1
  <2>2. pc' = "fit" /\ out' = <<>>
    BY DEF FitWindow, PairInv, Written
  <2> QED BY <1>6, <2>1, <2>2 DEF Sound
<1> QED BY <1>8, <1>9, <1>10 DEF Verdicts

\* Every other step leaves the fits alone, and FitsDone looks at each of them.
LEMMA VerdictsStep ==
  ASSUME PairInv, Verdicts, [Next]_vars
  PROVE  Verdicts'
<1>1. CASE FitWindow
  BY <1>1, Judged
<1>2. CASE UNCHANGED fitVars
  <2>1. fits' = fits /\ ever' = ever /\ history' = history
    BY <1>2 DEF fitVars
  <2>2. Lost' /\ Drifts'
    BY <2>1 DEF Verdicts, Lost, Drifts, EarlierLow, Betas, NoneSingular
  <2>3. NoneSingular' <=> NoneSingular
    BY <2>1 DEF NoneSingular
  <2>4. job' = job /\ (Rolling' <=> Rolling)
    BY Stays DEF PairInv, Rolling
  <2>5. Rolling /\ (pc' \in {"after", "emit"} \/ out' # <<>>) => NoneSingular
    <3> USE DEF Goto, Return, PollThen
    <3>1. CASE Enter \/ JoinStep \/ Resolve \/ PollBefore
      BY <3>1 DEF Enter, JoinStep, Resolve, PollBefore, PairInv, Written
    <3>2. CASE RunKernel \/ PollAfter
      BY <3>2 DEF RunKernel, PollAfter, Verdicts, Sound, PairInv, Written
    <3>3. CASE EmitAll
      BY <3>3 DEF EmitAll, Rolling
    <3>4. CASE FitsDone
      BY <3>4 DEF FitsDone, NoneSingular, PairInv, Written
    <3>5. CASE EmitWindow
      BY <3>5 DEF EmitWindow, Verdicts, Sound
    <3>6. CASE Interrupt \/ UNCHANGED vars
      BY <3>6 DEF Interrupt, vars, Verdicts, Sound
    <3>7. CASE FitWindow
      BY <3>7 DEF FitWindow, PairInv, Written
    <3> QED BY <3>1, <3>2, <3>3, <3>4, <3>5, <3>6, <3>7, PairSteps DEF PairNext, PairInv
  <2>6. Sound'
    BY <2>1, <2>3, <2>4, <2>5 DEF Verdicts, Sound
  <2> QED BY <2>2, <2>6 DEF Verdicts
<1> QED BY <1>1, <1>2, Stays DEF PairInv

LEMMA InTail ==
  ASSUME NEW k \in Nat, NEW b \in Nat, b >= 1, b <= k, NEW x \in 1..(k - b + 1)
  PROVE  x + b - 1 \in 1..k /\ 1 - 1 + (x + b - 1) = b - 1 + x /\ k - 1 + 1 = k
OBVIOUS

LEMMA OneOrMore == ASSUME NEW a \in Int PROVE Max({1, a}) = IF a >= 1 THEN a ELSE 1
<1> DEFINE v == IF a >= 1 THEN a ELSE 1
<1>1. v \in {1, a} /\ \A y \in {1, a} : v >= y
  OBVIOUS
<1>2. \A x \in {1, a} : (\A y \in {1, a} : x >= y) => x = v
  OBVIOUS
<1> HIDE DEF v
<1>3. Max({1, a}) = v
  BY <1>1, <1>2 DEF Max
<1> QED BY <1>3 DEF v

\* t is the part of s from lo to n.
PartOf(t, s, lo, n) ==
  /\ n \in Nat /\ lo \in Nat /\ lo >= 1 /\ lo <= n
  /\ \A i \in lo..n : s[i] \in Nat
  /\ DOMAIN t = 1..(n - lo + 1) /\ t = [x \in DOMAIN t |-> t[x]]
  /\ \A x \in 1..(n - lo + 1) : t[x] = s[x + lo - 1]

LEMMA SubSeqIs ==
  ASSUME NEW t, NEW s, NEW lo, NEW n, PartOf(t, s, lo, n)
  PROVE  SubSeq(s, lo, n) = t
<1> DEFINE u == SubSeq(s, lo, n)
           m == n - lo + 1
<1>1. u \in Seq(Nat) /\ Len(u) = m /\ \A i \in 1..m : u[i] = s[lo + i - 1]
  BY SubSeqProperties DEF PartOf
<1> HIDE DEF u
<1>2. u = [x \in 1..m |-> u[x]]
  BY <1>1
<1>3. \A x \in 1..m : lo + x - 1 = x + lo - 1
  BY DEF PartOf
<1>4. DOMAIN t = 1..m /\ t = [x \in DOMAIN t |-> t[x]] /\ \A x \in 1..m : t[x] = s[x + lo - 1]
  BY DEF PartOf
<1> HIDE DEF m
<1>5. \A x \in 1..m : u[x] = t[x]
  BY <1>1, <1>3, <1>4
<1>6. u = t
  BY <1>2, <1>4, <1>5
<1> QED BY <1>6 DEF u

LEMMA TailOfBetas ==
  ASSUME Fitted, \A i \in DOMAIN fits : fits[i].beta \in Nat,
         NEW n \in 1..Len(fits), NEW lo \in 1..n
  PROVE  SubSeq(Betas(1, n), lo, n) = Betas(lo, n)
<1> DEFINE past == Betas(1, n)
<1>1. n \in Nat /\ lo \in Nat /\ lo >= 1 /\ lo <= n
  BY LenProperties DEF Fitted
<1>2. ASSUME NEW i \in lo..n PROVE past[i] \in Nat
  <2>1. i \in 1..(n - 1 + 1) /\ 1 - 1 + i = i /\ i \in DOMAIN fits
    BY <1>1, LenProperties DEF Fitted
  <2> QED BY <2>1 DEF Betas
<1>3. ASSUME NEW x \in 1..(n - lo + 1) PROVE Betas(lo, n)[x] = past[x + lo - 1]
  <2>1. x + lo - 1 \in 1..n /\ 1 - 1 + (x + lo - 1) = lo - 1 + x /\ n - 1 + 1 = n
    BY <1>1, InTail
  <2> QED BY <2>1 DEF Betas
<1>4. DOMAIN Betas(lo, n) = 1..(n - lo + 1) /\ Betas(lo, n) = [x \in DOMAIN Betas(lo, n) |-> Betas(lo, n)[x]]
  BY DEF Betas
<1> HIDE DEF past
<1>5. PartOf(Betas(lo, n), past, lo, n)
  BY <1>1, <1>2, <1>3, <1>4 DEF PartOf
<1> QED BY <1>5, SubSeqIs, Zenon DEF past

\* What the detector computes is what the property says.
LEMMA DriftIs ==
  ASSUME Fitted, \A i \in DOMAIN fits : fits[i].beta \in Nat, NEW r \in DOMAIN fits,
         NEW lo, lo = Max({1, r - Lookback}),
         NEW m, m = Cardinality(lo..(r - 1)),
         NEW med2, med2 = Ranked((m + 1) \div 2, lo..(r - 1)) + Ranked((m \div 2) + 1, lo..(r - 1))
  PROVE  BetaDrift(fits[r].beta, Betas(1, r - 1))
           <=> /\ r > MinHistory
               /\ med2 > 0
               /\ 4 * (2 * fits[r].beta - med2) > med2 \/ -4 * (2 * fits[r].beta - med2) > med2
<1> DEFINE past == Betas(1, r - 1)
           n == r - 1
<1>1. /\ r \in Nat /\ r >= 1 /\ n \in 0..Len(fits) /\ n \in Nat /\ 1 - 1 + n = n /\ n - 1 + 1 = n
      /\ MinHistory \in Nat \ {0} /\ Lookback \in Nat \ {0}
  BY PairAssumption, LenProperties DEF Fitted
<1>2. Len(past) = n /\ DOMAIN past = 1..n
  BY <1>1 DEF Betas
<1>3. fits[r].beta \in Nat /\ fits[r].beta # NaN
  BY DEF NaN
<1>4. CASE n < MinHistory
  <2> HIDE DEF past
  <2>1. ~BetaDrift(fits[r].beta, past)
    BY <1>1, <1>2, <1>4 DEF BetaDrift
  <2> QED BY <1>1, <1>4, <2>1 DEF past
<1>5. CASE n >= MinHistory
  <2>1. lo \in Nat /\ lo >= 1 /\ lo <= n
        /\ lo = IF r - Lookback >= 1 THEN r - Lookback ELSE 1
    <3>1. r - Lookback \in Int
      BY <1>1
    <3>2. lo = IF r - Lookback >= 1 THEN r - Lookback ELSE 1
      BY <3>1, OneOrMore
    <3> PICK k, back : k = n /\ back = Lookback
      OBVIOUS
    <3>3. k \in Nat /\ r = k + 1 /\ back \in Nat \ {0} /\ k >= 1
      BY <1>1, <1>5
    <3>4. lo = IF r - back >= 1 THEN r - back ELSE 1
      BY <3>2
    <3>5. lo \in Nat /\ lo >= 1 /\ lo <= k
      BY <3>3, <3>4
    <3> QED BY <3>2, <3>5
  <2>2. Max({1, Len(past) - Lookback + 1}) = lo
    <3>1. Len(past) - Lookback + 1 = r - Lookback
      BY <1>1, <1>2
    <3> QED BY <3>1
  <2>3. SubSeq(past, lo, n) = Betas(lo, n)
    <3>1. n \in 1..Len(fits) /\ lo \in 1..n
      BY <1>1, <2>1
    <3> HIDE DEF n
    <3> QED BY <3>1, TailOfBetas DEF past, n
  <2>4. med2 = Median2(Betas(lo, n)) /\ med2 \in Nat
    <3> HIDE DEF past
    <3> QED BY <1>1, <2>1, MedianOfFits
  <2> HIDE DEF past
  <2>5. BetaDrift(fits[r].beta, past) <=> OutOfBand(fits[r].beta, med2)
    BY <1>2, <1>3, <1>5, <2>2, <2>3, <2>4 DEF BetaDrift
  <2>6. OutOfBand(fits[r].beta, med2) <=>
          med2 > 0 /\ (4 * (2 * fits[r].beta - med2) > med2 \/ -4 * (2 * fits[r].beta - med2) > med2)
    <3>1. PICK beta : beta = fits[r].beta
      OBVIOUS
    <3>2. beta \in Nat /\ med2 \in Nat
      BY <1>3, <2>4, <3>1
    <3>3. OutOfBand(beta, med2) <=>
            med2 > 0 /\ (4 * (2 * beta - med2) > med2 \/ -4 * (2 * beta - med2) > med2)
      BY <3>2 DEF OutOfBand
    <3> QED BY <3>1, <3>3, Zenon
  <2>7. r > MinHistory
    BY <1>1, <1>5
  <2> QED BY <2>5, <2>6, <2>7 DEF past
<1> QED BY <1>1, <1>4, <1>5

LEMMA VerdictsFromThePast ==
  ASSUME IndInv, job.scan \in PairKinds => Verdicts
  PROVE  BreakdownFromThePast
<1> SUFFICES ASSUME Rolling, NEW r \in DOMAIN out
             PROVE  LET past == Max({1, r - Lookback})..(r - 1)
                        m == Cardinality(past)
                        med2 == Ranked((m + 1) \div 2, past) + Ranked((m \div 2) + 1, past)
                        gap == 2 * fits[r].beta - med2
                    IN /\ out[r].lost <=> fits[r].p = "high" /\ \E i \in 1..(r - 1) : fits[i].p = "low"
                       /\ out[r].drift <=> /\ r > MinHistory
                                           /\ med2 > 0 /\ (4 * gap > med2 \/ -4 * gap > med2)
  BY DEF BreakdownFromThePast, Rolling
<1>1. PairInv /\ Verdicts
  BY DEF IndInv, Rolling, PairKinds
<1>2. out # <<>>
  OBVIOUS
<1>3. r \in DOMAIN fits /\ out[r] = Window(r)
  BY <1>1, <1>2, SomethingOut
<1>4. out[r].lost = fits[r].lost /\ out[r].drift = fits[r].drift
  BY <1>3 DEF Window
<1>5. NoneSingular /\ \A i \in DOMAIN fits : fits[i].beta \in Nat
  BY <1>1, <1>2 DEF Verdicts, Sound, NoneSingular
<1>6. out[r].lost <=> fits[r].p = "high" /\ \E i \in 1..(r - 1) : fits[i].p = "low"
  BY <1>1, <1>3, <1>4 DEF Verdicts, Lost, EarlierLow
<1>7. out[r].drift <=> BetaDrift(fits[r].beta, Betas(1, r - 1))
  BY <1>1, <1>3, <1>4, <1>5 DEF Verdicts, Drifts
<1>8. PICK lo : lo = Max({1, r - Lookback})
  OBVIOUS
<1>9. PICK m : m = Cardinality(lo..(r - 1))
  OBVIOUS
<1>10. PICK med2 : med2 = Ranked((m + 1) \div 2, lo..(r - 1)) + Ranked((m \div 2) + 1, lo..(r - 1))
  OBVIOUS
<1>11. Fitted
  BY <1>1 DEF PairInv
<1>12. BetaDrift(fits[r].beta, Betas(1, r - 1))
         <=> /\ r > MinHistory
             /\ med2 > 0
             /\ 4 * (2 * fits[r].beta - med2) > med2 \/ -4 * (2 * fits[r].beta - med2) > med2
  BY <1>3, <1>5, <1>8, <1>9, <1>10, <1>11, DriftIs
<1> QED BY <1>6, <1>7, <1>8, <1>9, <1>10, <1>12

\* For any fits, thresholds and numbers of windows, the verdict written with a window
\* of the rolling cointegration rests on the windows before it: rolling_cointegration
\* judges a fit before it adds it to what it remembers, and drops what is older than
\* its lookback.
THEOREM PairBreakdownFromThePast == Spec => []BreakdownFromThePast
<1> DEFINE Inv == IndInv /\ (job.scan \in PairKinds => Verdicts)
<1>1. Init => Inv
  BY InitInv, VerdictsInit
<1>2. Inv /\ [Next]_vars => Inv'
  <2> SUFFICES ASSUME Inv, [Next]_vars PROVE Inv'
    OBVIOUS
  <2>1. IndInv'
    BY NextInv
  <2>2. job'.scan \in PairKinds => Verdicts'
    <3> SUFFICES ASSUME job'.scan \in PairKinds PROVE Verdicts'
      OBVIOUS
    <3>1. job' = job
      BY DEF Next, Interrupt, PairNext, Enter, JoinStep, Resolve, PollBefore, RunKernel, PollAfter,
             EmitAll, FitWindow, FitsDone, EmitWindow, Start, Params, PollRow, RunSeries, WriteFound,
             Stopped, vars, dataVars
    <3> QED BY <3>1, VerdictsStep DEF IndInv
  <2> QED BY <2>1, <2>2
<1>3. Inv => BreakdownFromThePast
  BY VerdictsFromThePast
<1> QED BY <1>1, <1>2, <1>3, PTL DEF Spec
=============================================================================
