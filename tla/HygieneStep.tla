----------------------------- MODULE HygieneStep -----------------------------
(***************************************************************************)
(* What the engine does to one held-back Result when hygiene is active:    *)
(* apply_hygiene_mutations and apply_pair_hygiene, with the resampling     *)
(* kernels they call (scan/hygiene/bootstrap.rs, null.rs and the pair      *)
(* helpers of engine/hygiene_dispatch.rs).                                 *)
(*                                                                         *)
(* The kernels poll the cancel flag every Cadence resamples and give a NaN *)
(* when it is set; the caller polls it before the bootstrap and between    *)
(* the bootstrap and the null.  A resample is known by the values it is    *)
(* made of, a number by how many resamples it rests on; the surrogate      *)
(* p-value keeps its numerator and denominator.                            *)
(***************************************************************************)
EXTENDS Naturals, Sequences, FiniteSetsExt, Functions

CONSTANTS
  Resamples,   \* clamp_resample_n of the requested count
  Cadence      \* BOOTSTRAP_CANCEL_POLL_CADENCE

ASSUME HygieneAssumption ==
  /\ Resamples \in Nat \ {0}
  /\ Cadence \in Nat \ {0}

\* series: what the dispatch tables make of the scan and the bars.  "unwired"
\* has no input series, "short" fewer than 2 values, "scant" 2 or 3, too few for
\* phase scrambling; "none" for stat is a closure table entry that gives None.
Requests == [boot   : {"none", "stationary", "block"},
             null   : {"none", "circular_shift", "phase_scramble"},
             series : {"unwired", "short", "scant", "long"},
             pair   : BOOLEAN,
             stat   : {"none", "some"}]

VARIABLES
  req,       \* the request, as above
  cancel,    \* Arc<AtomicBool>
  pc,        \* where the engine is
  k,         \* the resample the running kernel is at
  extreme,   \* surrogates as extreme as the observed statistic
  ci95,      \* effect.ci95: the resamples it was made of, 0 for none
  pValue,    \* effect.p_value: Analytic, or the surrogates counted
  bootSpec,  \* BootstrapSpec made for the repro envelope
  repro,     \* ResultFinding.repro
  draw,      \* the resample the statistic was last computed over
  late       \* history: resamples begun after the flag was set

vars == <<req, cancel, pc, k, extreme, ci95, pValue, bootSpec, repro, draw, late>>
effect == <<ci95, pValue>>

Analytic == [num |-> 0, den |-> 0]
NoRepro  == [boot |-> FALSE, null |-> FALSE, attached |-> FALSE]

Init == /\ req \in Requests
        /\ req.pair => req.stat = "some"
        /\ cancel \in BOOLEAN
        /\ pc = "begin"
        /\ k = 0 /\ extreme = 0
        /\ ci95 = 0 /\ pValue = Analytic
        /\ bootSpec = FALSE /\ repro = NoRepro
        /\ draw = <<>>
        /\ late = 0

Interrupt == /\ pc # "done" /\ ~cancel
             /\ cancel' = TRUE
             /\ UNCHANGED <<req, pc, k, extreme, effect, bootSpec, repro, draw, late>>

\* The early returns: nothing asked, the flag set, the scan not in the tables or
\* too few values.  Then the bootstrap, if it was asked for.
Begin == /\ pc = "begin"
         /\ pc' = IF \/ req.boot = "none" /\ req.null = "none"
                     \/ cancel
                     \/ req.series \in {"unwired", "short"}
                  THEN "done"
                  ELSE IF req.boot = "none" THEN "between"
                  ELSE IF req.stat = "none" THEN "bootspec" ELSE "boot"
         /\ k' = 0
         /\ UNCHANGED <<req, cancel, extreme, effect, bootSpec, repro, draw, late>>

----------------------------------------------------------------------------
(* The resamples.  A resample of n values says for each place which value of the   *)
(* sample stands there; over two legs, which value of leg a and which of leg b.     *)

Sizes == 1..4
Size == CASE req.series = "scant" -> 3
          [] req.series = "long"  -> 4
          [] OTHER                -> 1

Around(i, n) == ((i - 1) % n) + 1

\* At each place the chain goes on to the next value or jumps anywhere.
StationaryDraws == [n \in Sizes |-> [1..n -> 1..n]]

\* block_length_pwppw is not finite or says how long, at least 3; at most the sample.
BlockLens(n) == {Min({b, n}) : b \in 3..5}

\* Mutant of BlockDraws: the chain jumps anywhere at each place.
BlockDrawsLoose == StationaryDraws

BlockDraws ==
  [n \in Sizes |->
     {[i \in 1..n |-> Around(start[(i - 1) \div len] + ((i - 1) % len), n)] :
        len \in BlockLens(n), start \in [0..1 -> 1..n]}]

\* Mutant of Rotations: the sample itself is one of them.
RotationsAndIdentity ==
  [n \in Sizes |-> {[i \in 1..n |-> Around(i + offset, n)] : offset \in 0..(n - 1)}]

\* offset in [1, n).
Rotations == [n \in Sizes |-> {[i \in 1..n |-> Around(i + offset, n)] : offset \in 1..(n - 1)}]

\* The rank shuffle puts every value of the sample back, in some order.
Scrambles == [n \in Sizes |-> {f \in [1..n -> 1..n] : IsInjective(f)}]

Joint(f)     == [i \in DOMAIN f |-> <<f[i], f[i]>>]
Alone(f)     == [i \in DOMAIN f |-> <<f[i]>>]
SecondLeg(f) == [i \in DOMAIN f |-> <<i, f[i]>>]

BootChains == IF req.boot = "block" THEN BlockDraws[Size] ELSE StationaryDraws[Size]
NullChains == IF req.null = "circular_shift" THEN Rotations[Size] ELSE Scrambles[Size]

\* Mutant of BootDraws: each leg is drawn for itself.
BootDrawsApart ==
  IF req.pair
  THEN {[i \in 1..Size |-> <<f[i], g[i]>>] : f, g \in {d \in BootChains : d[1] = 1}}
  ELSE {Alone(f) : f \in BootChains}

BootDraws == {IF req.pair THEN Joint(f) ELSE Alone(f) : f \in BootChains}
NullDraws == {IF req.pair THEN SecondLeg(f) ELSE Alone(f) : f \in NullChains}

----------------------------------------------------------------------------

\* Mutant of Polled: only the first resample polls.
PolledOnce == k = 0

\* Every kernel polls at the multiples of Cadence; a phase scramble over two legs
\* calls the one for one leg for each surrogate, which polls before it begins.
Polled == k % Cadence = 0 \/ (pc = "null" /\ req.pair /\ req.null = "phase_scramble")

Resample(draws) == /\ k < Resamples /\ draw = <<>>
                   /\ ~(Polled /\ cancel)
                   /\ draw' \in draws
                   /\ late' = IF cancel THEN late + 1 ELSE late

\* The statistic of the resample.
Score == draw # <<>> /\ draw' = <<>> /\ k' = k + 1

BootResample == /\ pc = "boot" /\ Resample(BootDraws)
                /\ UNCHANGED <<req, cancel, pc, k, extreme, effect, bootSpec, repro>>
BootScore == /\ pc = "boot" /\ Score
             /\ UNCHANGED <<req, cancel, pc, extreme, effect, bootSpec, repro, late>>

\* Mutant of BootDone: a set flag ends the loop, and the interval is taken of the
\* resamples made so far.
BootPartial == /\ pc = "boot" /\ draw = <<>>
               /\ \/ k < Resamples /\ Polled /\ cancel /\ ci95' = k
                  \/ k = Resamples /\ ci95' \in {0, k}
               /\ pc' = "bootspec"
               /\ UNCHANGED <<req, cancel, k, extreme, pValue, bootSpec, repro, draw, late>>

\* The kernel returns [NaN, NaN] on a set flag, and otherwise two order
\* statistics of the resamples, which may be NaN themselves; only finite ones
\* become ci95.
BootDone == /\ pc = "boot" /\ draw = <<>>
            /\ \/ k < Resamples /\ Polled /\ cancel /\ UNCHANGED ci95
               \/ k = Resamples /\ ci95' \in {0, k}
            /\ pc' = "bootspec"
            /\ UNCHANGED <<req, cancel, k, extreme, pValue, bootSpec, repro, draw, late>>

BootSpec == /\ pc = "bootspec"
            /\ bootSpec' = TRUE
            /\ pc' = "between"
            /\ UNCHANGED <<req, cancel, k, extreme, effect, repro, draw, late>>

Attach(b, n) == repro' = [boot |-> b, null |-> n, attached |-> TRUE]

\* Mutants of Between: the early return forgets the repro envelope; it waits for
\* the flag to clear.
BetweenBare == /\ pc = "between"
               /\ pc' = IF cancel THEN "done"
                        ELSE IF req.null = "none" \/ req.stat = "none" THEN "attach"
                        ELSE "null"
               /\ k' = 0 /\ extreme' = 0
               /\ UNCHANGED <<req, cancel, effect, bootSpec, repro, draw, late>>
BetweenWaits == /\ pc = "between"
                /\ pc' = IF cancel THEN "between" ELSE "attach"
                /\ UNCHANGED <<req, cancel, k, extreme, effect, bootSpec, repro, draw, late>>

\* The poll between the two: a set flag returns what the bootstrap made.
Between == /\ pc = "between"
           /\ IF cancel
              THEN pc' = "done" /\ Attach(bootSpec, FALSE)
              ELSE /\ pc' = IF req.null = "none" \/ req.stat = "none"
                               \/ (req.null = "phase_scramble" /\ req.series = "scant")
                            THEN "attach" ELSE "null"
                   /\ UNCHANGED repro
           /\ k' = 0 /\ extreme' = 0
           /\ UNCHANGED <<req, cancel, effect, bootSpec, draw, late>>

NullResample == /\ pc = "null" /\ Resample(NullDraws)
                /\ UNCHANGED <<req, cancel, pc, k, extreme, effect, bootSpec, repro>>
NullScore == /\ pc = "null" /\ Score
             /\ extreme' \in {extreme, extreme + 1}
             /\ UNCHANGED <<req, cancel, pc, effect, bootSpec, repro, late>>

\* NaN on a set flag, which leaves the analytic p-value in place; else
\* (1 + B) / (1 + N).
NullDone == /\ pc = "null" /\ draw = <<>>
            /\ \/ k < Resamples /\ Polled /\ cancel /\ UNCHANGED pValue
               \/ k = Resamples /\ pValue' = [num |-> extreme + 1, den |-> k + 1]
            /\ pc' = "attach"
            /\ UNCHANGED <<req, cancel, k, extreme, ci95, bootSpec, repro, draw, late>>

AttachRepro == /\ pc = "attach"
               /\ Attach(bootSpec, req.null # "none")
               /\ pc' = "done"
               /\ UNCHANGED <<req, cancel, k, extreme, effect, bootSpec, draw, late>>

Step == \/ Begin \/ BootResample \/ BootScore \/ BootDone \/ BootSpec
        \/ Between \/ NullResample \/ NullScore \/ NullDone \/ AttachRepro

Stopped == pc = "done" /\ UNCHANGED vars

Next == Interrupt \/ Step \/ Stopped

Spec == Init /\ [][Next]_vars
FairSpec == Spec /\ WF_vars(Step)

----------------------------------------------------------------------------
(* Properties. *)

\* The value at a place of a resample follows the one before it, around the end.
Follows(d, i, leg) == d[i][leg] = Around(d[i - 1][leg] + 1, Size)

\* A resample keeps what its method promises to keep.  Of a bootstrap both legs are
\* drawn at the same bars, and a block goes on for at least three values or to the
\* end.  Of a null the first leg stays in place, the series, or the second leg, loses
\* no value, and a circular shift keeps its order but never all of it in place.
DrawKeeps ==
  LET last == IF req.pair THEN 2 ELSE 1
      n == Len(draw)
  IN /\ n = Size
     /\ pc # "null" =>
          /\ \A i \in 1..n : draw[i][1] = draw[i][last]
          /\ req.boot = "block" =>
               \A i \in 2..n : ~Follows(draw, i, 1) =>
                  /\ i > 3
                  /\ \A j \in (i + 1)..Min({i + 2, n}) : Follows(draw, j, 1)
     /\ pc = "null" =>
          /\ req.pair => \A i \in 1..n : draw[i][1] = i
          /\ {draw[i][last] : i \in 1..n} = 1..n
          /\ req.null = "circular_shift" => /\ draw[1][last] # 1
                                            /\ \A i \in 2..n : Follows(draw, i, last)

\* A number that reaches the envelope rests on all the resamples the repro
\* envelope names: a SIGINT in the middle of a kernel never leaves an interval or
\* a p-value of the resamples made so far; and a surrogate p-value is in (0, 1],
\* the observed series counting as one of the sample.
WholeSample == /\ ci95 \in {0, Resamples}
               /\ pValue # Analytic => /\ pValue.den = Resamples + 1
                                       /\ pValue.num \in 1..pValue.den
               /\ draw # <<>> => DrawKeeps

\* Whatever was resampled into the Result can be replayed from its repro envelope,
\* also when a SIGINT ended the step early.
Replayable == pc = "done" =>
  /\ ci95 # 0 => repro.attached /\ repro.boot
  /\ pValue # Analytic => repro.attached /\ repro.null

\* After a SIGINT fewer resamples than a poll interval has are still begun, over the
\* bootstrap and the null together.
PromptCancel == late < Cadence

Terminates == <>(pc = "done")
=============================================================================
