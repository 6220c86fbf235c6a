----------------------------- MODULE HygieneProofs -----------------------------
(***************************************************************************)
(* Theorems about HygieneStep, for every number of resamples and every     *)
(* poll cadence: the invariants of its runs, and how many steps a Result   *)
(* can take through it.                                                    *)
(***************************************************************************)
EXTENDS HygieneStep, Integers, TLAPS

Places == {"begin", "boot", "bootspec", "between", "null", "attach", "done"}

\* What the variables hold.
Types == /\ req \in Requests
         /\ cancel \in BOOLEAN
         /\ pc \in Places
         /\ k \in Nat /\ extreme \in Nat /\ late \in Nat
         /\ bootSpec \in BOOLEAN

\* The counters of a kernel: a resample is open only while one runs and below the number
\* asked for, and no surrogate is extreme that was not made.
Kernel == /\ k <= Resamples
          /\ draw # <<>> => pc \in {"boot", "null"} /\ k < Resamples
          /\ pc = "null" => extreme <= k

\* The two numbers, and when they may be there.
Sampled == /\ ci95 \in {0, Resamples}
           /\ pc \in {"begin", "boot"} => ci95 = 0
           /\ pc \notin {"attach", "done"} => pValue = Analytic
           /\ pValue # Analytic => /\ pValue.den = Resamples + 1
                                   /\ pValue.num \in 1..pValue.den

\* A number leaves what its replay needs, and the ways out attach it.
Recorded == /\ ci95 # 0 => pc = "bootspec" \/ bootSpec
            /\ pc = "null" \/ pValue # Analytic => req.null # "none"
            /\ pc = "done" /\ ci95 # 0 => repro.attached /\ repro.boot
            /\ pc = "done" /\ pValue # Analytic => repro.attached /\ repro.null

\* The resamples begun since the flag was set lie behind the last poll: it saw the flag
\* down.  An open resample counts, a poll that is due does not let one more begin.
Polls == /\ ~cancel => late = 0
         /\ late < Cadence
         /\ pc \in {"boot", "null"} =>
              IF draw = <<>> THEN k % Cadence # 0 => late < k % Cadence
              ELSE late <= k % Cadence

\* The open resample is one the method of the running kernel makes.
Drawn == draw # <<>> => draw \in IF pc = "boot" THEN BootDraws ELSE NullDraws

IndInv == Types /\ Kernel /\ Sampled /\ Recorded /\ Polls /\ Drawn

\* The places of a sample.
Bars == 1..Size

----------------------------------------------------------------------------
(* Division. *)

\* A number has one remainder.
LEMMA OneRemainder ==
  ASSUME NEW c \in Nat \ {0}, NEW q \in Int, NEW p \in Int,
         NEW r \in 0..(c - 1), NEW s \in 0..(c - 1), c * q + r = c * p + s
  PROVE  r = s
<1>1. ASSUME NEW x \in Int, NEW y \in Int, x >= y + 1
      PROVE  c * x >= c * y + c
  <2>1. c * x >= c * (y + 1)
    BY <1>1, SMT
  <2>2. c * (y + 1) = c * y + c
    BY SMT
  <2> QED BY <2>1, <2>2, SMT
<1>2. CASE q = p
  BY <1>2, SMT
<1>3. CASE q >= p + 1
  BY <1>1, <1>3, SMT
<1>4. CASE p >= q + 1
  BY <1>1, <1>4, SMT
<1> QED BY <1>2, <1>3, <1>4, SMT

\* The next number has the next remainder.
LEMMA RemainderNext ==
  ASSUME NEW c \in Nat \ {0}, NEW a \in Nat
  PROVE  /\ a % c \in 0..(c - 1)
         /\ (a + 1) % c = IF a % c = c - 1 THEN 0 ELSE (a % c) + 1
<1>1. ASSUME NEW x \in Nat
      PROVE  x % c \in 0..(c - 1) /\ x \div c \in Int /\ x = c * (x \div c) + (x % c)
  BY SMT
<1> DEFINE q == a \div c
           r == a % c
           p == (a + 1) \div c
           s == (a + 1) % c
<1>2. q \in Int /\ r \in 0..(c - 1) /\ a = c * q + r
  BY <1>1
<1>3. p \in Int /\ s \in 0..(c - 1) /\ a + 1 = c * p + s
  <2>1. a + 1 \in Nat
    BY SMT
  <2> QED BY <1>1, <2>1
<1> HIDE DEF q, r, p, s
<1>4. CASE r = c - 1
  <2>1. c * (q + 1) = c * q + c
    BY <1>2, SMT
  <2>2. c * (q + 1) + 0 = c * p + s /\ q + 1 \in Int /\ 0 \in 0..(c - 1)
    BY <1>2, <1>3, <1>4, <2>1, SMT
  <2>3. s = 0
    BY <1>3, <2>2, OneRemainder
  <2> QED BY <1>2, <1>4, <2>3 DEF r, s
<1>5. CASE r # c - 1
  <2>1. c * q + (r + 1) = c * p + s /\ r + 1 \in 0..(c - 1)
    BY <1>2, <1>3, <1>5, SMT
  <2>2. s = r + 1
    BY <1>2, <1>3, <2>1, OneRemainder
  <2> QED BY <1>2, <1>5, <2>2 DEF r, s
<1> QED BY <1>4, <1>5

----------------------------------------------------------------------------
(* The resampling methods.  The sizes are those of Sizes: a sample of three, too few  *)
(* for a phase scramble, and one of four, where blocks of three overlap the end.       *)

LEMMA LeastOfTwo ==
  ASSUME NEW a \in Int, NEW b \in Int
  PROVE  Min({a, b}) = IF a <= b THEN a ELSE b
<1> DEFINE m == IF a <= b THEN a ELSE b
<1>1. m \in {a, b} /\ \A y \in {a, b} : m <= y
  OBVIOUS
<1>2. ASSUME NEW x \in {a, b}, \A y \in {a, b} : x <= y
      PROVE  x = m
  BY <1>2
<1> HIDE DEF m
<1>3. Min({a, b}) = m
  BY <1>1, <1>2 DEF Min
<1> QED BY <1>3 DEF m

LEMMA SizeType == Size \in {1, 3, 4} /\ Size \in Sizes
BY DEF Size, Sizes

LEMMA BlockKeeps ==
  ASSUME NEW f \in BlockDraws[Size]
  PROVE  /\ f \in [Bars -> Bars]
         /\ \A i \in 2..Size : f[i] # Around(f[i - 1] + 1, Size) => i = 4
<1>1. PICK len \in BlockLens(Size), start \in [0..1 -> 1..Size] :
        f = [i \in 1..Size |-> Around(start[(i - 1) \div len] + ((i - 1) % len), Size)]
  <2>1. Size \in Sizes /\ f \in BlockDraws[Size]
    BY SizeType
  <2>2. BlockDraws[Size] =
          {[i \in 1..Size |-> Around(start[(i - 1) \div len] + ((i - 1) % len), Size)] :
             len \in BlockLens(Size), start \in [0..1 -> 1..Size]}
    BY <2>1, SMT DEF BlockDraws
  <2> QED BY <2>1, <2>2
<1>2. PICK b \in 3..5 : len = Min({b, Size})
  BY DEF BlockLens
<1>3. len = IF b <= Size THEN b ELSE Size
  BY <1>2, LeastOfTwo, SizeType
<1>4. /\ Size = 1 => len = 1
      /\ Size = 3 => len = 3
      /\ Size = 4 => len \in {3, 4}
  BY <1>3
<1>5. start[0] \in 1..Size /\ start[1] \in 1..Size
  OBVIOUS
<1>6. /\ 1 \in DOMAIN f /\ f[1] = Around(start[0], Size)
      /\ Size > 1 => 2 \in DOMAIN f /\ f[2] = Around(start[0] + 1, Size)
      /\ Size > 1 => 3 \in DOMAIN f /\ f[3] = Around(start[0] + 2, Size)
      /\ Size = 4 => 4 \in DOMAIN f /\ f[4] \in {Around(start[0] + 3, Size), Around(start[1], Size)}
  <2>1. CASE Size = 1
    BY <1>1, <1>4, <1>5, <2>1
  <2>2. CASE Size = 3
    BY <1>1, <1>4, <1>5, <2>2
  <2>3. CASE Size = 4 /\ len = 3
    BY <1>1, <1>5, <2>3
  <2>4. CASE Size = 4 /\ len = 4
    BY <1>1, <1>5, <2>4
  <2> QED BY SizeType, <1>4, <2>1, <2>2, <2>3, <2>4
<1>7. \A x \in Int : Around(x, Size) \in Bars
  BY SizeType DEF Around, Bars
<1>8. f \in [Bars -> Bars]
  <2>1. \A i \in Bars : f[i] \in Bars
    BY <1>5, <1>6, <1>7, SizeType DEF Bars
  <2> QED BY <1>1, <2>1 DEF Bars
<1>9. \A i \in 2..Size : f[i] # Around(f[i - 1] + 1, Size) => i = 4
  BY <1>5, <1>6, SizeType, SMTT(30) DEF Around
<1> QED BY <1>8, <1>9

LEMMA RotationKeeps ==
  ASSUME NEW f \in Rotations[Size]
  PROVE  /\ f \in [Bars -> Bars]
         /\ {f[i] : i \in Bars} = Bars
         /\ f[1] # 1
         /\ \A i \in 2..Size : f[i] = Around(f[i - 1] + 1, Size)
<1>1. PICK offset \in 1..(Size - 1) : f = [i \in 1..Size |-> Around(i + offset, Size)]
  BY SizeType, Zenon DEF Rotations
<1>2. Size \in {3, 4}
  BY <1>1, SizeType
<1>3. /\ 1 \in DOMAIN f /\ f[1] = Around(1 + offset, Size)
      /\ 2 \in DOMAIN f /\ f[2] = Around(2 + offset, Size)
      /\ 3 \in DOMAIN f /\ f[3] = Around(3 + offset, Size)
      /\ Size = 4 => 4 \in DOMAIN f /\ f[4] = Around(4 + offset, Size)
  BY <1>1, <1>2
<1> HIDE <1>1
<1>4. f[1] # 1 /\ \A i \in 2..Size : f[i] = Around(f[i - 1] + 1, Size)
  BY <1>2, <1>3 DEF Around
<1>5. f \in [Bars -> Bars]
  <2>1. \A i \in Bars : f[i] \in Bars
    <3>1. \A x \in Int : Around(x, Size) \in Bars
      BY <1>2 DEF Around, Bars
    <3> QED BY <1>2, <1>3, <3>1 DEF Bars
  <2> QED BY <1>1, <2>1 DEF Bars
<1>6. \A x \in Bars : \E i \in Bars : f[i] = x
  <2>1. CASE Size = 3
    <3>1. ASSUME NEW x \in 1..3 PROVE x \in {f[1], f[2], f[3]}
      BY <1>3, <2>1 DEF Around
    <3> QED BY <3>1, <2>1 DEF Bars
  <2>2. CASE Size = 4
    <3>1. ASSUME NEW x \in 1..4 PROVE x \in {f[1], f[2], f[3], f[4]}
      BY <1>3, <2>2 DEF Around
    <3> QED BY <3>1, <2>2 DEF Bars
  <2> QED BY <1>2, <2>1, <2>2
<1> QED BY <1>4, <1>5, <1>6

LEMMA ScrambleKeeps ==
  ASSUME NEW f \in Scrambles[Size]
  PROVE  f \in [Bars -> Bars] /\ {f[i] : i \in Bars} = Bars
<1>1. f \in [Bars -> Bars] /\ \A i, j \in Bars : f[i] = f[j] => i = j
  <2>1. f \in [1..Size -> 1..Size] /\ IsInjective(f)
    BY SizeType, Zenon DEF Scrambles
  <2> QED BY <2>1 DEF IsInjective, Bars
<1>2. \A x \in Bars : \E i \in Bars : f[i] = x
  <2>1. CASE Size = 1
    BY <1>1, <2>1 DEF Bars
  <2>2. CASE Size = 3
    <3>1. f[1] \in 1..3 /\ f[2] \in 1..3 /\ f[3] \in 1..3 /\ f[1] # f[2] /\ f[1] # f[3] /\ f[2] # f[3]
      BY <1>1, <2>2 DEF Bars
    <3>2. ASSUME NEW x \in 1..3 PROVE x \in {f[1], f[2], f[3]}
      BY <3>1
    <3> QED BY <3>2, <2>2 DEF Bars
  <2>3. CASE Size = 4
    <3>1. /\ f[1] \in 1..4 /\ f[2] \in 1..4 /\ f[3] \in 1..4 /\ f[4] \in 1..4
          /\ f[1] # f[2] /\ f[1] # f[3] /\ f[1] # f[4] /\ f[2] # f[3] /\ f[2] # f[4] /\ f[3] # f[4]
      BY <1>1, <2>3 DEF Bars
    <3>2. ASSUME NEW x \in 1..4 PROVE x \in {f[1], f[2], f[3], f[4]}
      BY <3>1
    <3> QED BY <3>2, <2>3 DEF Bars
  <2> QED BY SizeType, <2>1, <2>2, <2>3
<1> QED BY <1>1, <1>2

\* A draw gives each place its values, one of each leg.
LEMMA DrawType ==
  ASSUME NEW d \in BootDraws \cup NullDraws
  PROVE  DOMAIN d = Bars /\ Len(d) = Size /\ d # <<>>
<1>1. PICK f : f \in BootChains \cup NullChains /\ d \in {Joint(f), Alone(f), SecondLeg(f)}
  BY DEF BootDraws, NullDraws
<1>2. DOMAIN f = Bars
  BY <1>1, SizeType, BlockKeeps, RotationKeeps, ScrambleKeeps
     DEF BootChains, NullChains, StationaryDraws, Bars
<1>3. DOMAIN d = Bars /\ d = [i \in Bars |-> d[i]]
  BY <1>1, <1>2 DEF Joint, Alone, SecondLeg
<1>4. Len(d) = Size
  BY <1>3, SizeType DEF Bars
<1>5. DOMAIN d # {}
  BY <1>3, SizeType DEF Bars
<1> QED BY <1>3, <1>4, <1>5

----------------------------------------------------------------------------
(* The step. *)

LEMMA InitInv == Init => IndInv
<1> SUFFICES ASSUME Init PROVE IndInv
  OBVIOUS
<1> USE HygieneAssumption DEF Init
<1>1. Types
  BY DEF Types, Places
<1>2. Kernel /\ Sampled /\ Recorded /\ Drawn
  BY DEF Kernel, Sampled, Recorded, Drawn
<1>3. Polls
  BY DEF Polls
<1> QED BY <1>1, <1>2, <1>3 DEF IndInv

LEMMA TypesKept == IndInv /\ [Next]_vars => Types'
<1> SUFFICES ASSUME IndInv, [Next]_vars PROVE Types'
  OBVIOUS
<1> USE DEF IndInv, Types, Places
<1>1. CASE Interrupt
  BY <1>1 DEF Interrupt
<1>2. CASE Begin
  BY <1>2 DEF Begin
<1>3. CASE BootResample \/ NullResample
  BY <1>3 DEF BootResample, NullResample, Resample
<1>4. CASE BootScore \/ NullScore
  BY <1>4 DEF BootScore, NullScore, Score
<1>5. CASE BootDone \/ NullDone
  BY <1>5 DEF BootDone, NullDone
<1>6. CASE BootSpec
  BY <1>6 DEF BootSpec
<1>7. CASE Between
  BY <1>7 DEF Between
<1>8. CASE AttachRepro
  BY <1>8 DEF AttachRepro
<1>9. CASE UNCHANGED vars
  BY <1>9 DEF vars, effect
<1> QED BY <1>1, <1>2, <1>3, <1>4, <1>5, <1>6, <1>7, <1>8, <1>9 DEF Next, Step, Stopped

LEMMA KernelKept == IndInv /\ [Next]_vars => Kernel'
<1> SUFFICES ASSUME IndInv, [Next]_vars PROVE Kernel'
  OBVIOUS
<1> USE HygieneAssumption DEF IndInv, Types, Kernel
<1>1. CASE Interrupt
  BY <1>1 DEF Interrupt
<1>2. CASE Begin
  BY <1>2 DEF Begin
<1>3. CASE BootResample \/ NullResample
  BY <1>3 DEF BootResample, NullResample, Resample
<1>4. CASE BootScore \/ NullScore
  BY <1>4 DEF BootScore, NullScore, Score
<1>5. CASE BootDone \/ NullDone
  BY <1>5 DEF BootDone, NullDone
<1>6. CASE BootSpec
  BY <1>6 DEF BootSpec
<1>7. CASE Between
  BY <1>7 DEF Between
<1>8. CASE AttachRepro
  BY <1>8 DEF AttachRepro
<1>9. CASE UNCHANGED vars
  BY <1>9 DEF vars, effect
<1> QED BY <1>1, <1>2, <1>3, <1>4, <1>5, <1>6, <1>7, <1>8, <1>9 DEF Next, Step, Stopped

LEMMA SampledKept == IndInv /\ [Next]_vars => Sampled'
<1> SUFFICES ASSUME IndInv, [Next]_vars PROVE Sampled'
  OBVIOUS
<1> USE HygieneAssumption DEF IndInv, Types, Sampled, effect
<1>1. CASE Interrupt
  BY <1>1 DEF Interrupt
<1>2. CASE Begin
  BY <1>2 DEF Begin
<1>3. CASE BootResample \/ NullResample
  BY <1>3 DEF BootResample, NullResample, Resample
<1>4. CASE BootScore \/ NullScore
  BY <1>4 DEF BootScore, NullScore, Score
<1>5. CASE BootDone
  BY <1>5 DEF BootDone, Kernel
<1>6. CASE NullDone
  BY <1>6 DEF NullDone, Kernel
<1>7. CASE BootSpec
  BY <1>7 DEF BootSpec
<1>8. CASE Between
  BY <1>8 DEF Between
<1>9. CASE AttachRepro
  BY <1>9 DEF AttachRepro
<1>10. CASE UNCHANGED vars
  BY <1>10 DEF vars
<1> QED BY <1>1, <1>2, <1>3, <1>4, <1>5, <1>6, <1>7, <1>8, <1>9, <1>10 DEF Next, Step, Stopped

LEMMA RecordedKept == IndInv /\ [Next]_vars => Recorded'
<1> SUFFICES ASSUME IndInv, [Next]_vars PROVE Recorded'
  OBVIOUS
<1> USE DEF IndInv, Types, Recorded, effect
<1>1. CASE Interrupt
  BY <1>1 DEF Interrupt
<1>2. CASE Begin
  BY <1>2 DEF Begin, Sampled
<1>3. CASE BootResample \/ NullResample
  BY <1>3 DEF BootResample, NullResample, Resample
<1>4. CASE BootScore \/ NullScore
  BY <1>4 DEF BootScore, NullScore, Score
<1>5. CASE BootDone \/ NullDone
  BY <1>5 DEF BootDone, NullDone
<1>6. CASE BootSpec
  BY <1>6 DEF BootSpec
<1>7. CASE Between
  BY <1>7 DEF Between, Attach, Sampled
<1>8. CASE AttachRepro
  BY <1>8 DEF AttachRepro, Attach
<1>9. CASE UNCHANGED vars
  BY <1>9 DEF vars
<1> QED BY <1>1, <1>2, <1>3, <1>4, <1>5, <1>6, <1>7, <1>8, <1>9 DEF Next, Step, Stopped

LEMMA PollsKept == IndInv /\ [Next]_vars => Polls'
<1> SUFFICES ASSUME IndInv, [Next]_vars PROVE Polls'
  OBVIOUS
<1>0. /\ \A a \in Nat : a % Cadence \in 0..(Cadence - 1)
      /\ (k + 1) % Cadence = IF k % Cadence = Cadence - 1 THEN 0 ELSE (k % Cadence) + 1
  BY HygieneAssumption, RemainderNext DEF IndInv, Types
<1> USE HygieneAssumption DEF IndInv, Types, Polls
<1>1. CASE Interrupt
  BY <1>1 DEF Interrupt
<1>2. CASE Begin
  BY <1>0, <1>2 DEF Begin
<1>3. CASE BootResample \/ NullResample
  <2>1. draw = <<>> /\ draw' # <<>> /\ k' = k /\ pc' = pc /\ cancel' = cancel
    BY <1>3, DrawType DEF BootResample, NullResample, Resample
  <2>2. pc \in {"boot", "null"} /\ late' = IF cancel THEN late + 1 ELSE late
    BY <1>3 DEF BootResample, NullResample, Resample
  <2>3. cancel => k % Cadence # 0
    BY <1>3 DEF BootResample, NullResample, Resample, Polled
  <2>4. k % Cadence \in 0..(Cadence - 1) /\ k' % Cadence = k % Cadence
    BY <1>0, <2>1
  <2> DEFINE r == k % Cadence
  <2>5. late' <= r /\ r < Cadence
    BY <2>1, <2>2, <2>3, <2>4
  <2> QED BY <2>1, <2>2, <2>4, <2>5
<1>4. CASE BootScore \/ NullScore
  <2>1. /\ draw # <<>> /\ draw' = <<>> /\ k' = k + 1 /\ pc' = pc /\ pc \in {"boot", "null"}
        /\ cancel' = cancel /\ late' = late
    BY <1>4 DEF BootScore, NullScore, Score
  <2>2. /\ k % Cadence \in 0..(Cadence - 1)
        /\ k' % Cadence = IF k % Cadence = Cadence - 1 THEN 0 ELSE (k % Cadence) + 1
    BY <1>0, <2>1
  <2>3. k' % Cadence # 0 => late < k' % Cadence
    BY <2>1, <2>2
  <2> QED BY <2>1, <2>3
<1>5. CASE BootDone \/ NullDone
  BY <1>5 DEF BootDone, NullDone
<1>6. CASE BootSpec
  BY <1>6 DEF BootSpec
<1>7. CASE Between
  <2>1. 0 % Cadence \in 0..(Cadence - 1)
    BY <1>0
  <2>2. pc' = "null" => k' = 0 /\ ~cancel
    BY <1>7 DEF Between
  <2>3. pc' = "null" => (k' % Cadence # 0 => late < k' % Cadence)
    BY <2>1, <2>2
  <2> QED BY <1>7, <2>3 DEF Between, Kernel
<1>8. CASE AttachRepro
  BY <1>8 DEF AttachRepro
<1>9. CASE UNCHANGED vars
  BY <1>9 DEF vars
<1> QED BY <1>1, <1>2, <1>3, <1>4, <1>5, <1>6, <1>7, <1>8, <1>9 DEF Next, Step, Stopped

LEMMA DrawnKept == IndInv /\ [Next]_vars => Drawn'
<1> SUFFICES ASSUME IndInv, [Next]_vars PROVE Drawn'
  OBVIOUS
<1>0. req' = req => BootDraws' = BootDraws /\ NullDraws' = NullDraws
  BY DEF BootDraws, NullDraws, BootChains, NullChains, Size
<1> USE DEF IndInv, Drawn, Kernel
<1>1. CASE Interrupt
  BY <1>0, <1>1 DEF Interrupt
<1>2. CASE Begin
  BY <1>0, <1>2 DEF Begin
<1>3. CASE BootResample \/ NullResample
  BY <1>0, <1>3 DEF BootResample, NullResample, Resample
<1>4. CASE BootScore \/ NullScore
  BY <1>4 DEF BootScore, NullScore, Score
<1>5. CASE BootDone \/ NullDone
  BY <1>0, <1>5 DEF BootDone, NullDone
<1>6. CASE BootSpec
  BY <1>0, <1>6 DEF BootSpec
<1>7. CASE Between
  BY <1>0, <1>7 DEF Between
<1>8. CASE AttachRepro
  BY <1>0, <1>8 DEF AttachRepro
<1>9. CASE UNCHANGED vars
  BY <1>0, <1>9 DEF vars
<1> QED BY <1>1, <1>2, <1>3, <1>4, <1>5, <1>6, <1>7, <1>8, <1>9 DEF Next, Step, Stopped

LEMMA NextInv == IndInv /\ [Next]_vars => IndInv'
BY TypesKept, KernelKept, SampledKept, RecordedKept, PollsKept, DrawnKept DEF IndInv

LEMMA Invariant == Spec => []IndInv
BY InitInv, NextInv, PTL DEF Spec

----------------------------------------------------------------------------

\* The repro envelope replays every number that was resampled, whenever a SIGINT comes.
THEOREM HygieneReplayable == Spec => []Replayable
<1>1. IndInv => Replayable
  BY DEF IndInv, Recorded, Replayable
<1> QED BY <1>1, Invariant, PTL

\* Fewer resamples than a poll interval has are begun after a SIGINT, for every cadence
\* and whether the flag comes in the bootstrap, in the null or between them.
THEOREM HygienePromptCancel == Spec => []PromptCancel
<1>1. IndInv => PromptCancel
  BY DEF IndInv, Polls, PromptCancel
<1> QED BY <1>1, Invariant, PTL

\* The draw of a bootstrap keeps its blocks whole and its legs at the same bars.
LEMMA BootKeeps ==
  ASSUME Types, draw \in BootDraws, pc = "boot"
  PROVE  DrawKeeps
<1>1. PICK f \in BootChains : draw = IF req.pair THEN Joint(f) ELSE Alone(f)
  BY DEF BootDraws
<1>2. f \in [Bars -> Bars]
  BY <1>1, SizeType, BlockKeeps DEF BootChains, StationaryDraws, Bars
<1>3. req.boot = "block" => \A i \in 2..Size : f[i] # Around(f[i - 1] + 1, Size) => i = 4
  BY <1>1, BlockKeeps DEF BootChains
<1> DEFINE last == IF req.pair THEN 2 ELSE 1
<1>4. \A i \in Bars : draw[i][1] = f[i] /\ draw[i][last] = f[i]
  BY <1>1, <1>2 DEF Joint, Alone
<1>5. Len(draw) = Size
  BY DrawType
<1>6. ASSUME req.boot = "block", NEW i \in 2..Size, ~Follows(draw, i, 1)
      PROVE  i > 3 /\ \A j \in (i + 1)..Min({i + 2, Size}) : Follows(draw, j, 1)
  <2>1. i - 1 \in Bars /\ i \in Bars
    BY SizeType DEF Bars
  <2>2. i = 4 /\ Size = 4
    BY <1>3, <1>4, <1>6, <2>1, SizeType DEF Follows
  <2>3. Min({i + 2, Size}) = 4
    BY <2>2, LeastOfTwo
  <2> QED BY <2>2, <2>3
<1> HIDE DEF last
<1> QED BY <1>4, <1>5, <1>6 DEF DrawKeeps, Bars, last

\* The draw of a null keeps the first leg in place and loses no value of the second.
LEMMA NullKeeps ==
  ASSUME Types, draw \in NullDraws, pc = "null"
  PROVE  DrawKeeps
<1>1. PICK f \in NullChains : draw = IF req.pair THEN SecondLeg(f) ELSE Alone(f)
  BY DEF NullDraws
<1>2. f \in [Bars -> Bars] /\ {f[i] : i \in Bars} = Bars
  BY <1>1, RotationKeeps, ScrambleKeeps DEF NullChains
<1>3. req.null = "circular_shift" =>
        f[1] # 1 /\ \A i \in 2..Size : f[i] = Around(f[i - 1] + 1, Size)
  BY <1>1, RotationKeeps DEF NullChains
<1> DEFINE last == IF req.pair THEN 2 ELSE 1
<1>4. \A i \in Bars : draw[i][last] = f[i] /\ (req.pair => draw[i][1] = i)
  BY <1>1, <1>2 DEF SecondLeg, Alone
<1>5. Len(draw) = Size
  BY DrawType
<1>6. {draw[i][last] : i \in Bars} = Bars
  BY <1>2, <1>4
<1>7. req.null = "circular_shift" => draw[1][last] # 1 /\ \A i \in 2..Size : Follows(draw, i, last)
  <2>1. ASSUME NEW i \in 2..Size PROVE i - 1 \in Bars /\ i \in Bars
    BY SizeType DEF Bars
  <2>2. 1 \in Bars
    BY SizeType DEF Bars
  <2> QED BY <1>3, <1>4, <2>1, <2>2 DEF Follows
<1> HIDE DEF last
<1> QED BY <1>4, <1>5, <1>6, <1>7 DEF DrawKeeps, Bars, last

\* No number rests on a part of the resamples, and every resample keeps what its method
\* promises to keep.
THEOREM HygieneWholeSample == Spec => []WholeSample
<1>1. IndInv => WholeSample
  <2>1. IndInv /\ draw # <<>> => DrawKeeps
    BY BootKeeps, NullKeeps DEF IndInv, Kernel, Drawn
  <2> QED BY <2>1 DEF IndInv, Sampled, WholeSample
<1> QED BY <1>1, Invariant, PTL

----------------------------------------------------------------------------
(* The end of the step. *)

\* The most steps there may still be: two for each resample to come, one for each place
\* to come, and the SIGINT.
ResamplesLeft == 2 * (Resamples - k) - (IF draw = <<>> THEN 0 ELSE 1)
StepsLeft == (IF cancel THEN 0 ELSE 1) +
             CASE pc = "begin"    -> 4 * Resamples + 6
               [] pc = "boot"     -> 2 * Resamples + 5 + ResamplesLeft
               [] pc = "bootspec" -> 2 * Resamples + 4
               [] pc = "between"  -> 2 * Resamples + 3
               [] pc = "null"     -> 2 + ResamplesLeft
               [] pc = "attach"   -> 1
               [] pc = "done"     -> 0

\* The count is one of the steps left: never negative.
LEMMA StepsLeftType == IndInv => StepsLeft \in 0..(4 * Resamples + 7)
<1> SUFFICES ASSUME IndInv PROVE StepsLeft \in 0..(4 * Resamples + 7)
  OBVIOUS
<1>1. Resamples \in Nat \ {0} /\ k \in 0..Resamples /\ pc \in Places /\ cancel \in BOOLEAN
  BY HygieneAssumption DEF IndInv, Types, Kernel
<1>2. draw # <<>> => k < Resamples
  BY DEF IndInv, Kernel
<1>3. ResamplesLeft \in 0..(2 * Resamples)
  BY <1>1, <1>2, SMT DEF ResamplesLeft
<1> HIDE DEF ResamplesLeft
<1> QED BY <1>1, <1>3, SMT DEF StepsLeft, Places

LEMMA StepsFall == IndInv /\ [Next]_vars => StepsLeft' < StepsLeft \/ UNCHANGED vars
<1> SUFFICES ASSUME IndInv, Next PROVE StepsLeft' < StepsLeft \/ UNCHANGED vars
  OBVIOUS
<1>1. Resamples \in Nat \ {0} /\ k \in 0..Resamples /\ cancel \in BOOLEAN
  BY HygieneAssumption DEF IndInv, Types, Kernel
<1>2. draw = <<>> \/ k < Resamples
  BY DEF IndInv, Kernel
<1>3. ResamplesLeft \in Nat
  BY <1>1, <1>2, SMT DEF ResamplesLeft
<1>4. CASE Interrupt
  <2>1. pc' = pc /\ ResamplesLeft' = ResamplesLeft /\ ~cancel /\ cancel' /\ pc \in Places
    BY <1>4 DEF Interrupt, ResamplesLeft, IndInv, Types
  <2> HIDE DEF ResamplesLeft
  <2> QED BY <1>1, <1>3, <2>1, SMT DEF StepsLeft, Places
<1>5. CASE Begin
  <2>1. draw = <<>> /\ draw' = draw /\ k' = 0 /\ pc = "begin" /\ cancel' = cancel
        /\ pc' \in {"done", "between", "bootspec", "boot"}
    BY <1>5 DEF Begin, IndInv, Kernel
  <2>2. ResamplesLeft' = 2 * Resamples
    BY <1>1, <2>1, SMT DEF ResamplesLeft
  <2> HIDE DEF ResamplesLeft
  <2> QED BY <1>1, <2>1, <2>2, SMT DEF StepsLeft
<1>6. CASE BootResample \/ NullResample \/ BootScore \/ NullScore
  <2>1. pc' = pc /\ cancel' = cancel /\ pc \in {"boot", "null"}
    BY <1>6 DEF BootResample, NullResample, BootScore, NullScore
  <2>2. ResamplesLeft' = ResamplesLeft - 1
    <3>1. CASE BootResample \/ NullResample
      <4>1. draw = <<>> /\ k' = k
        BY <3>1 DEF BootResample, NullResample, Resample
      <4>2. draw' # <<>>
        <5>1. draw' \in BootDraws \/ draw' \in NullDraws
          BY <3>1 DEF BootResample, NullResample, Resample
        <5> QED BY <5>1, DrawType
      <4> QED BY <1>1, <4>1, <4>2, SMT DEF ResamplesLeft
    <3>2. CASE BootScore \/ NullScore
      <4>1. draw # <<>> /\ draw' = <<>> /\ k' = k + 1
        BY <3>2 DEF BootScore, NullScore, Score
      <4> QED BY <1>1, <4>1, SMT DEF ResamplesLeft
    <3> QED BY <1>6, <3>1, <3>2
  <2> HIDE DEF ResamplesLeft
  <2> QED BY <1>1, <1>3, <2>1, <2>2, SMT DEF StepsLeft
<1>7. CASE BootDone \/ NullDone
  <2>1. /\ cancel' = cancel
        /\ \/ pc = "boot" /\ pc' = "bootspec"
           \/ pc = "null" /\ pc' = "attach"
    BY <1>7 DEF BootDone, NullDone
  <2> HIDE DEF ResamplesLeft
  <2> QED BY <1>1, <1>3, <2>1, SMT DEF StepsLeft
<1>8. CASE BootSpec
  BY <1>1, <1>8, SMT DEF BootSpec, StepsLeft
<1>9. CASE Between
  <2>1. draw = <<>> /\ draw' = draw /\ k' = 0 /\ pc = "between" /\ cancel' = cancel
        /\ pc' \in {"done", "attach", "null"}
    BY <1>9 DEF Between, IndInv, Kernel
  <2>2. ResamplesLeft' = 2 * Resamples
    BY <1>1, <2>1, SMT DEF ResamplesLeft
  <2> HIDE DEF ResamplesLeft
  <2> QED BY <1>1, <2>1, <2>2, SMT DEF StepsLeft
<1>10. CASE AttachRepro
  BY <1>1, <1>10, SMT DEF AttachRepro, StepsLeft
<1> QED BY <1>4, <1>5, <1>6, <1>7, <1>8, <1>9, <1>10 DEF Next, Step, Stopped

\* Every kernel ends: whatever is asked for, and whenever a SIGINT comes, a Result is
\* through the hygiene step after at most two steps for each resample of the bootstrap and
\* of the null and seven more.  (That it is not stuck before is for TLC: Terminates.)
THEOREM HygieneEnds ==
  Spec => /\ [](StepsLeft \in 0..(4 * Resamples + 7))
          /\ [][StepsLeft' < StepsLeft]_vars
<1>1. IndInv => StepsLeft \in 0..(4 * Resamples + 7)
  BY StepsLeftType
<1>2. IndInv /\ [Next]_vars => [StepsLeft' < StepsLeft]_vars
  BY StepsFall
<1> QED BY <1>1, <1>2, Invariant, PTL DEF Spec
=============================================================================
