---------------------------- MODULE EngineProofs ----------------------------
(***************************************************************************)
(* Theorems about Engine, for every bound, every set of requests and every *)
(* way a scan may fail: the types, that the counters, the outcome and the  *)
(* framing are those of the stream, that every sub-range of a run that is  *)
(* not cancelled is answered, that a SIGINT drops no Result of a scan that *)
(* ended with Ok, that a coalesced scan sees the whole sample and that     *)
(* hygiene leaves no Result beside the error of its scan.                  *)
(*                                                                         *)
(* None of them is inductive: a Result may be on the stream and not yet    *)
(* counted, held back and not yet on the stream, or due because the loop   *)
(* has passed its sub-range.  IndInv says which, by where the runner is.   *)
(*                                                                         *)
(* The second part is `miner scan`, the process and its runner together:   *)
(* every invariant of the runner holds with the SIGINTs of the whole       *)
(* process, the exit code tells what the two streams hold, and no run goes *)
(* on for ever.                                                            *)
(***************************************************************************)
EXTENDS ScanCommand, SequenceTheorems, FiniteSetTheorems, WellFoundedInduction, TLAPS

Env == [kind : Kinds, span : SUBSET (1..MaxSub), bare : BOOLEAN]

Early == {"enter", "open", "plan", "detect", "dispatch"}
Scanning == {"scan", "emit", "handle"}
Loop == {"loop", "load", "preload", "preloading", "fuse", "drain"} \cup Scanning

\* Where the runner is among the sub-ranges.
Place ==
  /\ pc \in Early => nsub = 0 /\ sub = 0 /\ loaded = 0 /\ unit = {}
  /\ pc \in Early \ {"dispatch"} => legsLeft \in {1, 2}
  /\ pc \in Loop => sub \in 1..(nsub + 1)
  /\ pc \in {"loop", "load"} => ~Coalescing
  /\ pc \in {"preload", "preloading", "fuse"} => Coalescing
  /\ pc \in {"preload", "preloading"} => loaded = sub - 1
  /\ pc \in {"load", "preloading"} => sub <= nsub /\ unit = {sub}
  /\ pc = "fuse" => cancel \/ loaded = nsub
  /\ pc \in Scanning \cup {"drain"} =>
       unit = IF Coalescing THEN 1..nsub ELSE {sub}
  /\ pc \in Scanning \cup {"drain"} /\ ~Coalescing => sub <= nsub

\* What the running scan.run has emitted, and where that is.
Emission ==
  /\ buffered <= emitted
  /\ pc \in Scanning => emitted <= EmitLimit
  /\ pc \in Scanning => buffered = IF req.hygiene THEN emitted ELSE 0
  /\ pc = "scan" /\ req.shape # "windows" => emitted = 0
  /\ pc = "handle" /\ scanRes = "Cancelled" => cancel
  /\ pc = "handle" /\ scanRes = "Ok" /\ ~cancel /\ req.shape # "breaks" => emitted > 0
  /\ pc = "handle" /\ scanRes # "Ok" /\ req.shape = "one" => emitted = 0

\* What is on the stream in the beginning.
Prelude ==
  /\ pc \in {"enter", "open"} => stream = <<>>
  /\ pc \in {"plan", "detect", "dispatch"} => KindsOf(stream) = <<"RunStart">>

\* The counters, one step behind the stream while a Result waits for its count.
Uncounted == IF pc \in Scanning THEN emitted ELSE 0
Counted ==
  /\ summary.errors = CountOf(stream, "ScanError")
  /\ summary.gaps = CountOf(stream, "GapAborted")
  /\ req.hygiene => CountOf(stream, "Result") = summary.results
  /\ ~req.hygiene /\ req.shape = "one" /\ ~cancel =>
       CountOf(stream, "Result") = summary.results + Uncounted
  /\ pc = "bail" => summary.errors > 0
  /\ Returned => (outcome = "HadScanErrors" <=> summary.errors > 0)

\* The sub-ranges an envelope of kind k stands for, and those behind the loop.
Over(k) == UNION {stream[j].span : j \in {x \in DOMAIN stream : stream[x].kind = k}}
Behind == IF Coalescing THEN {} ELSE 1..(sub - 1)

\* Where the answers may stand.
ErrorsBehind == pc \in Loop => Over("ScanError") \subseteq Behind
ResultsBehind ==
  req.hygiene =>
    /\ pc \in Loop \ {"drain"} => Over("Result") \subseteq Behind
    /\ pc = "drain" => Over("Result") \subseteq Behind \cup unit
    /\ pc = "fatal" => Over("Result") \cap unit = {}
Apart == req.hygiene => Over("Result") \cap Over("ScanError") = {}

\* The sub-ranges of S have their answer.
Answered(S) == S \subseteq Over("Result") \cup Over("ScanError")
Answers ==
  ~cancel /\ req.shape # "breaks" =>
    /\ pc \in Loop => Answered(Behind)
    /\ pc \in Scanning /\ ~req.hygiene /\ emitted > 0 => Answered(unit)
    /\ pc = "drain" => buffered > 0 \/ Answered(unit)
    /\ pc = "close" => Answered(1..nsub)

\* Where the Results of the running scan.run are: those behind it stand for other
\* sub-ranges, and it has on the stream what it does not hold back.
Delivering ==
  /\ pc \in Early \cup {"preload", "preloading", "fuse"} => scanRes = "none"
  /\ pc \in Loop \ (Scanning \cup {"drain"}) => Over("Result") \subseteq Behind
  /\ pc \in Scanning \cup {"drain"} => /\ Over("Result") \subseteq Behind \cup unit
                                       /\ Cardinality(OfUnit) + buffered = emitted
  /\ Delivered

\* Where the framing is.
Framed ==
  /\ outcome = "none" <=> pc # "done"
  /\ pc \notin {"enter", "open", "done"} => stream # <<>>
  /\ pc \in Loop \cup {"fatal"} => stream[Len(stream)].kind \in BodyKinds \cup {"RunStart"}

IndInv == /\ TypeOK /\ Place /\ Emission
          /\ Prelude /\ Counted
          /\ ErrorsBehind /\ ResultsBehind /\ Apart /\ Answers
          /\ Delivering /\ FusedWhole /\ Framed

----------------------------------------------------------------------------
(* The stream. *)

\* Every envelope the runner makes is one the stream may hold.
LEMMA EnvelopeTyped ==
  ASSUME NEW k \in Kinds, NEW span \in SUBSET (1..MaxSub)
  PROVE  /\ Envelope(k, span) \in Env
         /\ \A b \in BOOLEAN : [Envelope(k, span) EXCEPT !.bare = b] \in Env
BY DEF Envelope, Env

\* What a write does to the stream.
LEMMA Grown ==
  ASSUME NEW s \in Seq(Env), NEW e \in Env, NEW t, t = Append(s, e)
  PROVE  /\ t \in Seq(Env) /\ Len(t) = Len(s) + 1
         /\ DOMAIN t = DOMAIN s \cup {Len(s) + 1} /\ Len(s) + 1 \notin DOMAIN s
         /\ t[Len(s) + 1] = e
         /\ \A j \in DOMAIN s : t[j] = s[j]
BY AppendProperties

\* A write adds one to the count of its kind and leaves the other counts alone.
LEMMA CountGrown ==
  ASSUME NEW s \in Seq(Env), NEW e \in Env, NEW k \in Kinds
  PROVE  /\ CountOf(s, k) \in Nat
         /\ CountOf(Append(s, e), k) = CountOf(s, k) + IF e.kind = k THEN 1 ELSE 0
<1> DEFINE t == Append(s, e)
           Old == {i \in DOMAIN s : s[i].kind = k}
           New == {i \in DOMAIN t : t[i].kind = k}
<1>0. /\ DOMAIN t = DOMAIN s \cup {Len(s) + 1} /\ Len(s) + 1 \notin DOMAIN s
      /\ t[Len(s) + 1] = e
      /\ \A j \in DOMAIN s : t[j] = s[j]
  BY Grown
<1> SUFFICES /\ CountOf(s, k) \in Nat
             /\ CountOf(t, k) = CountOf(s, k) + IF e.kind = k THEN 1 ELSE 0
  OBVIOUS
<1> HIDE DEF t
<1>1. IsFiniteSet(Old)
  <2>1. IsFiniteSet(1..Len(s)) /\ DOMAIN s = 1..Len(s)
    BY FS_Interval, LenProperties
  <2> QED BY <2>1, FS_Subset
<1>2. Cardinality(Old) \in Nat
  BY <1>1, FS_CardinalityType
<1>3. CASE e.kind = k
  <2>1. New = Old \cup {Len(s) + 1} /\ Len(s) + 1 \notin Old
    BY <1>0, <1>3
  <2>2. Cardinality(New) = Cardinality(Old) + 1
    BY <2>1, <1>1, FS_AddElement
  <2> QED BY <1>2, <1>3, <2>2 DEF CountOf
<1>4. CASE e.kind # k
  <2>1. New = Old
    BY <1>0, <1>4
  <2>2. CountOf(t, k) = CountOf(s, k) /\ CountOf(s, k) \in Nat
    BY <1>2, <2>1 DEF CountOf
  <2> QED BY <1>4, <2>2
<1> QED BY <1>3, <1>4

----------------------------------------------------------------------------
(* Types, places and what a scan has emitted. *)

Shape == TypeOK /\ Place /\ Emission

LEMMA InitShape == Init => Shape
BY EngineAssumption DEF Init, Shape, TypeOK, Place, Emission, AllRequests, Shapes, Pcs,
   Early, Scanning, Loop, Coalescing

\* Nothing changes the request, and nothing clears the flag.
LEMMA Stays == [Next]_vars => req' = req /\ (cancel => cancel')
BY DEF Next, vars, runVars, scanVars, Interrupt, Runner, Stopped,
   Enter, OpenRun, MakePlan, DetectGaps, ReaderFails, Abort, Split,
   NextSubRange, Load, CacheFails, NextPreload, Preload, Fuse, ScanPoll, ScanEmit, ScanReturn,
   HandleOk, HandleCancelled, HandleKernel, HandleFatal, Drain, Fatal, Bail, Close

\* A step writes one envelope or none.
LEMMA StreamStep ==
  ASSUME TypeOK, [Next]_vars
  PROVE  stream' = stream \/ \E e \in Env : stream' = Append(stream, e)
<1>1. {} \in SUBSET (1..MaxSub) /\ unit \in SUBSET (1..MaxSub) /\ cancel \in BOOLEAN
  BY DEF TypeOK
<1>2. \A k \in Kinds : \A span \in {{}, unit} :
        /\ Envelope(k, span) \in Env
        /\ [Envelope(k, span) EXCEPT !.bare = cancel] \in Env
  BY <1>1, EnvelopeTyped
<1> QED BY <1>2 DEF Next, vars, runVars, scanVars, Interrupt, Runner, Stopped,
   Quiet, Written, WriteFails, Kinds,
   Enter, OpenRun, MakePlan, DetectGaps, ReaderFails, Abort, Split,
   NextSubRange, Load, CacheFails, NextPreload, Preload, Fuse, ScanPoll, ScanEmit, ScanReturn,
   HandleOk, HandleCancelled, HandleKernel, HandleFatal, Drain, Fatal, Bail, Close

Counters == [results : Nat, errors : Nat, gaps : Nat]

\* What a count does to the three counters.
LEMMA Counting ==
  ASSUME summary \in Counters
  PROVE  /\ Count("results") => /\ summary' \in Counters
                                /\ summary'.results = summary.results + 1
                                /\ summary'.errors = summary.errors
                                /\ summary'.gaps = summary.gaps
         /\ Count("errors") => /\ summary' \in Counters
                               /\ summary'.results = summary.results
                               /\ summary'.errors = summary.errors + 1
                               /\ summary'.gaps = summary.gaps
         /\ Count("gaps") => /\ summary' \in Counters
                             /\ summary'.results = summary.results
                             /\ summary'.errors = summary.errors
                             /\ summary'.gaps = summary.gaps + 1
BY DEF Count, Counters

\* A step counts at most once.
LEMMA SummaryStep ==
  ASSUME TypeOK, [Next]_vars
  PROVE  \/ summary' = summary
         \/ Count("results") \/ Count("errors") \/ Count("gaps")
BY DEF Next, vars, runVars, scanVars, Interrupt, Runner, Stopped,
   Quiet, WriteFails,
   Enter, OpenRun, MakePlan, DetectGaps, ReaderFails, Abort, Split,
   NextSubRange, Load, CacheFails, NextPreload, Preload, Fuse, ScanPoll, ScanEmit, ScanReturn,
   HandleOk, HandleCancelled, HandleKernel, HandleFatal, Drain, Fatal, Bail, Close

\* Types, place and emission are inductive on their own.
LEMMA ShapeStep == Shape /\ [Next]_vars => Shape'
<1> SUFFICES ASSUME Shape, [Next]_vars
             PROVE  Shape'
  OBVIOUS
<1> USE EngineAssumption DEF Shape
<1>a. /\ EmitLimit \in Nat /\ EmitLimit <= MaxEmit
      /\ EmitLimit' = EmitLimit /\ req' = req
  BY Stays DEF EmitLimit
<1>b. stream' \in Seq([kind : Kinds, span : SUBSET (1..MaxSub), bare : BOOLEAN])
  <2>1. stream \in Seq(Env)
    BY DEF TypeOK, Env
  <2>2. stream' = stream \/ \E e \in Env : stream' = Append(stream, e)
    BY StreamStep
  <2>3. ASSUME NEW e \in Env PROVE Append(stream, e) \in Seq(Env)
    BY <2>1, AppendProperties
  <2>4. stream' \in Seq(Env)
    BY <2>1, <2>2, <2>3
  <2> QED BY <2>4 DEF Env
<1>c. summary' \in [results : Nat, errors : Nat, gaps : Nat]
  BY SummaryStep, Counting DEF TypeOK, Counters
<1> DEFINE Typed == /\ cancel' \in BOOLEAN
                    /\ pc' \in Pcs
                    /\ nsub' \in 0..MaxSub /\ sub' \in 0..(MaxSub + 1) /\ loaded' \in 0..MaxSub
                    /\ unit' \in SUBSET (1..MaxSub)
                    /\ emitted' \in 0..MaxEmit /\ buffered' \in 0..MaxEmit
                    /\ scanRes' \in ScanErrors \cup {"none", "Ok"}
                    /\ legsLeft' \in 0..2
                    /\ outcome' \in RunOutcomes \cup {"none"}
<1> SUFFICES Typed /\ Place' /\ Emission'
  BY <1>a, <1>b, <1>c DEF TypeOK
<1>1. CASE Split
  <2>1. Typed
    BY <1>a, <1>1 DEF Split, Goto, Quiet, scanVars, TypeOK, Place, Pcs, Early
  <2>2. loaded' = 0 /\ sub' = 1 /\ nsub' \in Nat
    BY <1>a, <1>1 DEF Split, TypeOK, Place, Early
  <2>3. sub' \in 1..(nsub' + 1)
    <3>1. \A n \in Nat : 1 \in 1..(n + 1)
      OBVIOUS
    <3> QED BY <2>2, <3>1
  <2>4. ASSUME req.coalesce /\ nsub' > 1
        PROVE  Place'
    <3>1. pc' = "preload" /\ req'.coalesce /\ nsub' > 1
      BY <2>4, <1>a, <1>1 DEF Split, Goto
    <3>2. Coalescing' = TRUE
      BY <3>1 DEF Coalescing
    <3>3. loaded' = sub' - 1
      BY <2>2
    <3>4. /\ pc' \notin Early /\ pc' \notin Scanning \cup {"drain"}
          /\ pc' \notin {"loop", "load", "preloading", "fuse"}
      BY <3>1 DEF Early, Scanning
    <3>5. pc' = "preload"
      BY <3>1
    <3> QED BY <3>2, <3>3, <3>4, <2>3, <3>5 DEF Place
  <2>5. ASSUME ~(req.coalesce /\ nsub' > 1)
        PROVE  Place'
    <3>1. pc' = "loop" /\ ~Coalescing'
      BY <2>5, <1>a, <1>1 DEF Split, Goto, Coalescing
    <3> QED BY <3>1, <2>2, <2>3 DEF Place, Early, Loop, Scanning
  <2>6. Place'
    BY <2>4, <2>5
  <2>7. Emission'
    BY <1>a, <1>1
       DEF Split, Goto, Finish, BeginScan, runVars, scanVars, TypeOK, Emission, Scanning,
           EmitLimit, AllRequests, Shapes
  <2> QED BY <2>1, <2>6, <2>7
<1>2. CASE NextSubRange
  <2>1. pc' \in {"load", "preloading"} => unit' = {sub} /\ sub \in 1..MaxSub
    BY <1>2 DEF NextSubRange, Goto, TypeOK, Place, Loop, Scanning
  <2>2. unit' \in SUBSET (1..MaxSub)
    BY <2>1, <1>2 DEF NextSubRange, Goto, TypeOK
  <2>3. Typed
    BY <2>2, <1>a, <1>2
       DEF NextSubRange, Goto, Finish, Quiet, BeginScan, runVars, scanVars, TypeOK, Place, Pcs,
           Early, Loop, Scanning, ScanErrors
  <2>4. Place'
    BY <1>a, <1>2
       DEF NextSubRange, Goto, Finish, BeginScan, runVars, scanVars, TypeOK, Place, Early, Loop,
           Scanning, Coalescing
  <2>5. Emission'
    BY <1>a, <1>2
       DEF NextSubRange, Goto, Finish, BeginScan, runVars, scanVars, TypeOK, Emission, Scanning,
           EmitLimit, AllRequests, Shapes
  <2> QED BY <2>3, <2>4, <2>5
<1>3. CASE NextPreload
  <2>1. pc' \in {"load", "preloading"} => unit' = {sub} /\ sub \in 1..MaxSub
    BY <1>3 DEF NextPreload, Goto, TypeOK, Place, Loop, Scanning
  <2>2. unit' \in SUBSET (1..MaxSub)
    BY <2>1, <1>3 DEF NextPreload, Goto, TypeOK
  <2>3. Typed
    BY <2>2, <1>a, <1>3
       DEF NextPreload, Goto, Finish, Quiet, BeginScan, runVars, scanVars, TypeOK, Place, Pcs,
           Early, Loop, Scanning, ScanErrors
  <2>4. Place'
    BY <1>a, <1>3
       DEF NextPreload, Goto, Finish, BeginScan, runVars, scanVars, TypeOK, Place, Early, Loop,
           Scanning, Coalescing
  <2>5. Emission'
    BY <1>a, <1>3
       DEF NextPreload, Goto, Finish, BeginScan, runVars, scanVars, TypeOK, Emission, Scanning,
           EmitLimit, AllRequests, Shapes
  <2> QED BY <2>3, <2>4, <2>5
<1>4. CASE Fuse
  <2>1. 1..loaded \in SUBSET (1..MaxSub)
    BY DEF TypeOK
  <2>2. /\ unit' \in SUBSET (1..MaxSub) /\ emitted' \in 0..MaxEmit /\ buffered' \in 0..MaxEmit
        /\ scanRes' \in ScanErrors \cup {"none", "Ok"}
    <3>1. CASE loaded > 0 /\ ~cancel
      BY <2>1, <3>1, <1>4 DEF Fuse, BeginScan, TypeOK
    <3>2. CASE ~(loaded > 0 /\ ~cancel)
      BY <3>2, <1>4 DEF Fuse, scanVars, TypeOK
    <3> QED BY <3>1, <3>2
  <2>3. Typed
    BY <2>2, <1>a, <1>4
       DEF Fuse, Goto, Finish, Quiet, BeginScan, runVars, scanVars, TypeOK, Place, Pcs, Early,
           Loop, Scanning, ScanErrors
  <2>4. Place'
    BY <1>a, <1>4
       DEF Fuse, Goto, Finish, BeginScan, runVars, scanVars, TypeOK, Place, Early, Loop,
           Scanning, Coalescing
  <2>5. Emission'
    BY <1>a, <1>4
       DEF Fuse, Goto, Finish, BeginScan, runVars, scanVars, TypeOK, Emission, Scanning,
           EmitLimit, AllRequests, Shapes
  <2> QED BY <2>3, <2>4, <2>5
<1>5. CASE ScanReturn
  <2>1. Typed
    BY <1>a, <1>5
       DEF ScanReturn, Goto, Finish, Quiet, BeginScan, runVars, scanVars, TypeOK, Place, Pcs,
           Early, Loop, Scanning, ScanErrors, ScanDone
  <2>2. Place'
    BY <1>a, <1>5
       DEF ScanReturn, Goto, Finish, BeginScan, runVars, scanVars, TypeOK, Place, Early, Loop,
           Scanning, Coalescing, ScanDone
  <2>3. /\ scanRes' = "Cancelled" => cancel
        /\ scanRes' = "Ok" /\ req.shape # "breaks" => emitted > 0
        /\ scanRes' # "Ok" /\ req.shape = "one" => emitted = 0
        /\ emitted <= EmitLimit /\ buffered = IF req.hygiene THEN emitted ELSE 0
    <3>1. pc \in Scanning
      BY <1>5 DEF ScanReturn, ScanDone, Scanning
    <3>2. emitted \in Nat /\ "Ok" \notin EarlyErrors \cup LateErrors
      BY DEF TypeOK, ScanErrors
    <3>3. emitted <= EmitLimit /\ buffered = IF req.hygiene THEN emitted ELSE 0
      BY <3>1 DEF Emission
    <3> QED BY <1>5, <3>2, <3>3 DEF ScanReturn, ScanDone
  <2>4. Emission'
    BY <2>3, <1>a, <1>5
       DEF ScanReturn, Goto, Finish, BeginScan, runVars, scanVars, TypeOK, Emission, Scanning,
           EmitLimit, AllRequests, Shapes, ScanDone
  <2> QED BY <2>1, <2>2, <2>4
<1>6. CASE UNCHANGED vars
  BY <1>6 DEF vars, runVars, scanVars, TypeOK, Place, Emission, Coalescing, EmitLimit
<1> USE DEF TypeOK, Place, Emission, runVars, scanVars, Goto, Finish, WriteFails, BeginScan,
            Advance, Pcs, Early, Scanning, Loop, Coalescing, RunOutcomes, ScanErrors,
            AllRequests, Shapes, ScanDone, EmitLimit
<1>7. CASE Interrupt
  BY <1>a, <1>7 DEF Interrupt
<1>8. CASE Enter
  BY <1>a, <1>8 DEF Enter
<1>9. CASE OpenRun
  BY <1>a, <1>9 DEF OpenRun
<1>10. CASE MakePlan
  BY <1>a, <1>10 DEF MakePlan
<1>11. CASE DetectGaps
  BY <1>a, <1>11 DEF DetectGaps
<1>12. CASE ReaderFails
  BY <1>a, <1>12 DEF ReaderFails
<1>13. CASE Abort
  BY <1>a, <1>13 DEF Abort
<1>14. CASE Load
  BY <1>a, <1>14 DEF Load
<1>15. CASE CacheFails
  BY <1>a, <1>15 DEF CacheFails
<1>16. CASE Preload
  BY <1>a, <1>16 DEF Preload
<1>17. CASE ScanPoll
  BY <1>a, <1>17 DEF ScanPoll
<1>18. CASE ScanEmit
  BY <1>a, <1>18, SMTT(30) DEF ScanEmit
<1>19. CASE HandleOk
  BY <1>a, <1>19 DEF HandleOk
<1>20. CASE HandleCancelled
  BY <1>a, <1>20 DEF HandleCancelled
<1>21. CASE HandleKernel
  BY <1>a, <1>21, SMTT(30) DEF HandleKernel
<1>22. CASE HandleFatal
  BY <1>a, <1>22 DEF HandleFatal
<1>23. CASE Drain
  BY <1>a, <1>23, SMTT(30) DEF Drain
<1>24. CASE Fatal
  BY <1>a, <1>24 DEF Fatal
<1>25. CASE Bail
  BY <1>a, <1>25 DEF Bail
<1>26. CASE Close
  BY <1>a, <1>26 DEF Close
<1> QED BY <1>1, <1>2, <1>3, <1>4, <1>5, <1>6, <1>7, <1>8, <1>9, <1>10, <1>11, <1>12, <1>13,
           <1>14, <1>15, <1>16, <1>17, <1>18, <1>19, <1>20, <1>21, <1>22, <1>23, <1>24, <1>25,
           <1>26
           DEF Next, Runner, Stopped

----------------------------------------------------------------------------
(* What is on the stream. *)

Wrote(k, span) == \E e \in Env : e.kind = k /\ e.span = span /\ stream' = Append(stream, e)

LEMMA WrittenWrote ==
  ASSUME TypeOK, NEW k \in Kinds, NEW span \in {{}, unit}
  PROVE  /\ Written(k, span) => Wrote(k, span)
         /\ stream' = Append(stream, [Envelope(k, span) EXCEPT !.bare = cancel]) => Wrote(k, span)
<1>1. span \in SUBSET (1..MaxSub) /\ cancel \in BOOLEAN
  BY DEF TypeOK
<1>2. /\ Envelope(k, span) \in Env
      /\ [Envelope(k, span) EXCEPT !.bare = cancel] \in Env
  BY <1>1, EnvelopeTyped
<1>3. /\ Envelope(k, span).kind = k /\ Envelope(k, span).span = span
      /\ [Envelope(k, span) EXCEPT !.bare = cancel].kind = k
      /\ [Envelope(k, span) EXCEPT !.bare = cancel].span = span
  BY DEF Envelope
<1> QED BY <1>2, <1>3 DEF Wrote, Written

\* One envelope more, of one kind.
LEMMA WroteGrown ==
  ASSUME TypeOK, NEW k \in Kinds, NEW span, Wrote(k, span)
  PROVE  /\ \A l \in Kinds : /\ CountOf(stream, l) \in Nat
                             /\ CountOf(stream', l) = CountOf(stream, l) + IF l = k THEN 1 ELSE 0
         /\ \A l \in Kinds \ {k} : Over(l)' = Over(l)
         /\ Over(k)' = Over(k) \cup span
         /\ stream' # <<>> /\ stream'[Len(stream')].kind = k
<1>1. PICK e \in Env : e.kind = k /\ e.span = span /\ stream' = Append(stream, e)
  BY DEF Wrote
<1>2. stream \in Seq(Env)
  BY DEF TypeOK, Env
<1>3. /\ DOMAIN stream' = DOMAIN stream \cup {Len(stream) + 1}
      /\ Len(stream) + 1 \notin DOMAIN stream /\ Len(stream') = Len(stream) + 1
      /\ stream'[Len(stream) + 1] = e
      /\ \A j \in DOMAIN stream : stream'[j] = stream[j]
  BY <1>1, <1>2, Grown
<1>4. ASSUME NEW l \in Kinds
      PROVE  /\ CountOf(stream, l) \in Nat
             /\ CountOf(stream', l) = CountOf(stream, l) + IF l = k THEN 1 ELSE 0
  <2>1. /\ CountOf(stream, l) \in Nat
        /\ CountOf(Append(stream, e), l) = CountOf(stream, l) + IF e.kind = l THEN 1 ELSE 0
    BY <1>2, CountGrown, Zenon
  <2>2. CountOf(stream', l) = CountOf(Append(stream, e), l)
    BY <1>1
  <2>3. (IF e.kind = l THEN 1 ELSE 0) = (IF l = k THEN 1 ELSE 0)
    BY <1>1
  <2> QED BY <2>1, <2>2, <2>3
<1>5. ASSUME NEW l \in Kinds \ {k} PROVE Over(l)' = Over(l)
  <2>1. {x \in DOMAIN stream' : stream'[x].kind = l} = {x \in DOMAIN stream : stream[x].kind = l}
    BY <1>1, <1>3, <1>5
  <2> QED BY <2>1, <1>3 DEF Over
<1>6. Over(k)' = Over(k) \cup span
  <2> DEFINE Old == {x \in DOMAIN stream : stream[x].kind = k}
  <2>1. {x \in DOMAIN stream' : stream'[x].kind = k} = Old \cup {Len(stream) + 1}
    BY <1>1, <1>3
  <2>2. \A j \in Old : stream'[j].span = stream[j].span
    BY <1>3
  <2>3. stream'[Len(stream) + 1].span = span
    BY <1>1, <1>3
  <2> QED BY <2>1, <2>2, <2>3 DEF Over
<1>7. stream' # <<>> /\ stream'[Len(stream')].kind = k
  BY <1>1, <1>3
<1> QED BY <1>4, <1>5, <1>6, <1>7

\* A count is a number.
LEMMA Counts == ASSUME TypeOK, NEW k \in Kinds PROVE CountOf(stream, k) \in Nat
<1>1. IsFiniteSet(1..Len(stream)) /\ DOMAIN stream = 1..Len(stream)
  BY FS_Interval, LenProperties DEF TypeOK
<1>2. IsFiniteSet({i \in DOMAIN stream : stream[i].kind = k})
  BY <1>1, FS_Subset
<1> QED BY <1>2, FS_CardinalityType DEF CountOf

----------------------------------------------------------------------------
(* The beginning of the stream. *)

\* Nothing but RunStart is on the stream before the dispatch.
LEMMA PreludeStep ==
  ASSUME Shape, Prelude, [Next]_vars
  PROVE  Prelude'
<1>1. CASE OpenRun
  <2>1. CASE WriteFails
    BY <2>1 DEF WriteFails, Finish, Prelude
  <2>2. CASE Written("RunStart", {})
    <3>1. stream' = <<Envelope("RunStart", {})>> /\ pc' \notin {"enter", "open"}
      BY <1>1, <2>2 DEF OpenRun, Written, Goto, WriteFails, Finish, Prelude
    <3>2. KindsOf(stream') = <<"RunStart">>
      BY <3>1 DEF KindsOf, Envelope
    <3> QED BY <3>1, <3>2 DEF Prelude
  <2> QED BY <1>1, <2>1, <2>2 DEF OpenRun
<1>2. CASE pc' \notin {"enter", "open", "plan", "detect", "dispatch"}
  BY <1>2 DEF Prelude
<1>3. CASE UNCHANGED <<stream, pc>>
  BY <1>3 DEF Prelude, KindsOf
<1>4. CASE pc = "enter" /\ stream' = stream /\ pc' = "open"
  BY <1>4 DEF Prelude
<1>5. CASE pc = "detect" /\ stream' = stream /\ pc' \in {"detect", "dispatch"}
  BY <1>5 DEF Prelude, KindsOf
<1> QED BY <1>1, <1>2, <1>3, <1>4, <1>5
        DEF Next, Runner, Stopped, vars, Interrupt, Goto, Finish, Quiet, WriteFails, Advance,
            Enter, MakePlan, DetectGaps, ReaderFails, Abort, Split,
            NextSubRange, Load, CacheFails, NextPreload, Preload, Fuse, ScanPoll, ScanEmit, ScanReturn,
            HandleOk, HandleCancelled, HandleKernel, HandleFatal, Drain, Fatal, Bail, Close

\* Nothing stands for a sub-range before there is one.
LEMMA NothingOver ==
  ASSUME Prelude, pc \in Early
  PROVE  /\ \A k \in {"Result", "ScanError"} : Over(k) = {}
         /\ \A j \in DOMAIN stream : stream[j].kind # "Result"
<1>1. CASE pc \in {"enter", "open"}
  BY <1>1 DEF Prelude, Over
<1>2. CASE pc \in {"plan", "detect", "dispatch"}
  <2>1. KindsOf(stream) = <<"RunStart">>
    BY <1>2 DEF Prelude
  <2>2. DOMAIN KindsOf(stream) = DOMAIN stream /\ \A j \in DOMAIN stream : KindsOf(stream)[j] = stream[j].kind
    BY DEF KindsOf
  <2>3. \A j \in DOMAIN stream : stream[j].kind = "RunStart"
    BY <2>1, <2>2
  <2> QED BY <2>3 DEF Over
<1> QED BY <1>1, <1>2 DEF Early

----------------------------------------------------------------------------
(* The counters. *)

\* The counters keep up with the stream.
LEMMA CountedStep ==
  ASSUME Shape, Prelude, Counted, [Next]_vars
  PROVE  Counted'
<1> DEFINE R == CountOf(stream, "Result")
           E == CountOf(stream, "ScanError")
           G == CountOf(stream, "GapAborted")
<1> USE DEF Shape
<1>a. /\ req' = req /\ (cancel => cancel') /\ summary \in Counters
      /\ R \in Nat /\ E \in Nat /\ G \in Nat
  BY Stays, Counts DEF TypeOK, Counters, Kinds
<1>b. ASSUME NEW k \in Kinds, NEW span, Wrote(k, span)
      PROVE  /\ R' = R + (IF k = "Result" THEN 1 ELSE 0)
             /\ E' = E + (IF k = "ScanError" THEN 1 ELSE 0)
             /\ G' = G + (IF k = "GapAborted" THEN 1 ELSE 0)
  BY <1>b, WroteGrown DEF Kinds
<1>c. stream' = stream => R' = R /\ E' = E /\ G' = G
  OBVIOUS
<1>d. /\ summary.errors = E /\ summary.gaps = G
      /\ req.hygiene => R = summary.results
      /\ ~req.hygiene /\ req.shape = "one" /\ ~cancel => R = summary.results + Uncounted
      /\ pc = "bail" => summary.errors > 0
      /\ Returned => (outcome = "HadScanErrors" <=> summary.errors > 0)
  BY DEF Counted
<1>e. ASSUME /\ summary'.errors = E' /\ summary'.gaps = G'
             /\ req.hygiene => R' = summary'.results
             /\ ~req.hygiene /\ req.shape = "one" /\ ~cancel' => R' = summary'.results + Uncounted'
             /\ pc' = "bail" => summary'.errors > 0
             /\ Returned' => (outcome' = "HadScanErrors" <=> summary'.errors > 0)
      PROVE  Counted'
  BY <1>a, <1>e DEF Counted
<1>f. \A k \in {"RunStart", "DryRun", "GapAborted", "ScanError", "Result", "RunEnd"} :
        \A span \in {{}, unit} : /\ Written(k, span) => Wrote(k, span)
                                 /\ k \in Kinds
  BY WrittenWrote DEF Kinds
<1>g. pc = "enter" => E = 0
  <2>1. stream = <<>> => {i \in DOMAIN stream : stream[i].kind = "ScanError"} = {}
    OBVIOUS
  <2> QED BY <2>1, FS_EmptySet DEF CountOf, Prelude
<1>h. /\ Count("gaps") => /\ summary'.errors = summary.errors /\ summary'.gaps = summary.gaps + 1
                          /\ summary'.results = summary.results
      /\ Count("errors") => /\ summary'.errors = summary.errors + 1 /\ summary'.gaps = summary.gaps
                            /\ summary'.results = summary.results
      /\ Count("results") => /\ summary'.errors = summary.errors /\ summary'.gaps = summary.gaps
                             /\ summary'.results = summary.results + 1
  BY <1>a, Counting
<1>i. summary.errors \in Nat /\ summary.results \in Nat /\ summary.gaps \in Nat
  BY <1>a DEF Counters
<1> HIDE DEF R, E, G
<1>1. CASE OpenRun
  <2>1. CASE Written("RunStart", {}) /\ UNCHANGED summary
    <3>1. /\ R' = R + 0 /\ E' = E + 0 /\ G' = G + 0
      BY <1>a, <1>b, <1>f, <2>1
    <3> QED BY <1>a, <1>d, <1>e, <1>h, <1>i, <2>1, <3>1, <1>1
               DEF OpenRun, Goto, Finish, WriteFails, Advance, runVars, scanVars, Uncounted,
                   Scanning, Returned, Emission
  <2>2. CASE WriteFails
    BY <1>a, <1>c, <1>d, <1>e, <2>2, <1>1
       DEF OpenRun, Goto, Finish, WriteFails, Advance, runVars, scanVars, Uncounted, Scanning,
           Returned, Emission
  <2> QED BY <2>1, <2>2, <1>1 DEF OpenRun
<1>2. CASE MakePlan
  <2>1. CASE Written("DryRun", {}) /\ UNCHANGED summary
    <3>1. /\ R' = R + 0 /\ E' = E + 0 /\ G' = G + 0
      BY <1>a, <1>b, <1>f, <2>1
    <3> QED BY <1>a, <1>d, <1>e, <1>h, <1>i, <2>1, <3>1, <1>2
               DEF MakePlan, Goto, Finish, WriteFails, Advance, runVars, scanVars, Uncounted,
                   Scanning, Returned, Emission
  <2>2. CASE WriteFails
    BY <1>a, <1>c, <1>d, <1>e, <2>2, <1>2
       DEF MakePlan, Goto, Finish, WriteFails, Advance, runVars, scanVars, Uncounted, Scanning,
           Returned, Emission
  <2> QED BY <2>1, <2>2, <1>2 DEF MakePlan
<1>3. CASE Abort
  <2>1. CASE Written("GapAborted", {}) /\ Count("gaps")
    <3>1. /\ R' = R + 0 /\ E' = E + 0 /\ G' = G + 1
      BY <1>a, <1>b, <1>f, <2>1
    <3> QED BY <1>a, <1>d, <1>e, <1>h, <1>i, <2>1, <3>1, <1>3
               DEF Abort, Goto, Finish, WriteFails, Advance, runVars, scanVars, Uncounted,
                   Scanning, Returned, Emission
  <2>2. CASE WriteFails
    BY <1>a, <1>c, <1>d, <1>e, <2>2, <1>3
       DEF Abort, Goto, Finish, WriteFails, Advance, runVars, scanVars, Uncounted, Scanning,
           Returned, Emission
  <2> QED BY <2>1, <2>2, <1>3 DEF Abort
<1>4. CASE HandleKernel
  <2>1. CASE Written("ScanError", unit) /\ Count("errors")
    <3>1. /\ R' = R + 0 /\ E' = E + 1 /\ G' = G + 0
      BY <1>a, <1>b, <1>f, <2>1
    <3> QED BY <1>a, <1>d, <1>e, <1>h, <1>i, <2>1, <3>1, <1>4
               DEF HandleKernel, Goto, Finish, WriteFails, Advance, runVars, scanVars, Uncounted,
                   Scanning, Returned, Emission
  <2>2. CASE WriteFails
    BY <1>a, <1>c, <1>d, <1>e, <2>2, <1>4
       DEF HandleKernel, Goto, Finish, WriteFails, Advance, runVars, scanVars, Uncounted,
           Scanning, Returned, Emission
  <2> QED BY <2>1, <2>2, <1>4 DEF HandleKernel
<1>5. CASE Fatal
  <2>1. CASE Written("ScanError", unit) /\ Count("errors")
    <3>1. /\ R' = R + 0 /\ E' = E + 1 /\ G' = G + 0
      BY <1>a, <1>b, <1>f, <2>1
    <3> QED BY <1>a, <1>d, <1>e, <1>h, <1>i, <2>1, <3>1, <1>5
               DEF Fatal, Goto, Finish, WriteFails, Advance, runVars, scanVars, Uncounted,
                   Scanning, Returned, Emission
  <2>2. CASE WriteFails
    BY <1>a, <1>c, <1>d, <1>e, <2>2, <1>5
       DEF Fatal, Goto, Finish, WriteFails, Advance, runVars, scanVars, Uncounted, Scanning,
           Returned, Emission
  <2> QED BY <2>1, <2>2, <1>5 DEF Fatal
<1>6. CASE Bail
  <2>1. CASE Written("RunEnd", {}) /\ UNCHANGED summary
    <3>1. /\ R' = R + 0 /\ E' = E + 0 /\ G' = G + 0
      BY <1>a, <1>b, <1>f, <2>1
    <3> QED BY <1>a, <1>d, <1>e, <1>h, <1>i, <2>1, <3>1, <1>6
               DEF Bail, Goto, Finish, WriteFails, Advance, runVars, scanVars, Uncounted,
                   Scanning, Returned, Emission
  <2>2. CASE WriteFails
    BY <1>a, <1>c, <1>d, <1>e, <2>2, <1>6
       DEF Bail, Goto, Finish, WriteFails, Advance, runVars, scanVars, Uncounted, Scanning,
           Returned, Emission
  <2> QED BY <2>1, <2>2, <1>6 DEF Bail
<1>7. CASE Close
  <2>1. CASE Written("RunEnd", {}) /\ UNCHANGED summary
    <3>1. /\ R' = R + 0 /\ E' = E + 0 /\ G' = G + 0
      BY <1>a, <1>b, <1>f, <2>1
    <3> QED BY <1>a, <1>d, <1>e, <1>h, <1>i, <2>1, <3>1, <1>7
               DEF Close, Goto, Finish, WriteFails, Advance, runVars, scanVars, Uncounted,
                   Scanning, Returned, Emission
  <2>2. CASE WriteFails
    BY <1>a, <1>c, <1>d, <1>e, <2>2, <1>7
       DEF Close, Goto, Finish, WriteFails, Advance, runVars, scanVars, Uncounted, Scanning,
           Returned, Emission
  <2> QED BY <2>1, <2>2, <1>7 DEF Close
<1>8. CASE ScanEmit
  <2>1. CASE stream' = stream /\ (req.hygiene \/ emitted' = emitted)
    BY <1>a, <1>c, <1>d, <1>e, <2>1, <1>8 DEF ScanEmit, Goto, runVars, Uncounted, Scanning, Returned
  <2>2. CASE ~req.hygiene /\ Written("Result", unit) /\ emitted' = emitted + 1
    <3>1. R' = R + 1 /\ E' = E /\ G' = G
      BY <1>a, <1>b, <1>f, <2>2
    <3>2. emitted \in Nat
      BY DEF TypeOK
    <3>3. Uncounted = emitted /\ Uncounted' = emitted + 1
      BY <2>2, <1>8 DEF ScanEmit, Goto, Uncounted, Scanning
    <3>4. summary' = summary /\ cancel' = cancel /\ pc' \notin {"bail", "done"}
      BY <1>8 DEF ScanEmit, Goto
    <3>5. Uncounted \in Nat
      BY <3>2, <3>3
    <3> QED BY <1>a, <1>d, <1>e, <1>i, <2>2, <3>1, <3>3, <3>4, <3>5 DEF Returned
  <2> QED BY <2>1, <2>2, <1>8 DEF ScanEmit
<1>9. CASE HandleOk
  BY <1>a, <1>c, <1>d, <1>e, <1>h, <1>i, <1>9, SMTT(30)
     DEF HandleOk, Goto, Advance, Uncounted, Scanning, Returned, TypeOK, Emission, EmitLimit
<1>10. CASE Drain
  <2>1. CASE buffered = 0
    BY <1>a, <1>c, <1>d, <1>e, <2>1, <1>10
       DEF Drain, Goto, Advance, Quiet, Uncounted, Scanning, Returned
  <2>2. CASE WriteFails
    BY <1>a, <1>c, <1>d, <1>e, <2>2, <1>10
       DEF Drain, Finish, WriteFails, Uncounted, Scanning, Returned
  <2>3. CASE /\ stream' = Append(stream, [Envelope("Result", unit) EXCEPT !.bare = cancel])
             /\ Count("results") /\ UNCHANGED <<pc, outcome>>
    <3>1. Wrote("Result", unit)
      BY <2>3, WrittenWrote DEF Kinds
    <3>2. R' = R + 1 /\ E' = E /\ G' = G
      BY <1>a, <1>b, <1>f, <3>1
    <3> QED BY <1>a, <1>d, <1>e, <1>h, <1>i, <2>3, <3>2, <1>10
               DEF Drain, Uncounted, Scanning, Returned
  <2> QED BY <2>1, <2>2, <2>3, <1>10 DEF Drain
<1>11. CASE UNCHANGED vars
  BY <1>a, <1>c, <1>d, <1>e, <1>11 DEF vars, scanVars, Uncounted, Returned
<1> USE DEF Quiet, Goto, Finish, BeginScan, runVars, scanVars, Uncounted, Scanning, Returned,
            TypeOK, Emission, ScanDone
<1>12. CASE Interrupt
  BY <1>a, <1>c, <1>d, <1>e, <1>g, <1>12 DEF Interrupt
<1>13. CASE Enter
  BY <1>a, <1>c, <1>d, <1>e, <1>g, <1>13 DEF Enter
<1>14. CASE DetectGaps
  BY <1>a, <1>c, <1>d, <1>e, <1>g, <1>14 DEF DetectGaps
<1>15. CASE ReaderFails
  BY <1>a, <1>c, <1>d, <1>e, <1>g, <1>15 DEF ReaderFails
<1>16. CASE Split
  BY <1>a, <1>c, <1>d, <1>e, <1>g, <1>16 DEF Split
<1>17. CASE NextSubRange
  BY <1>a, <1>c, <1>d, <1>e, <1>g, <1>17 DEF NextSubRange
<1>18. CASE Load
  BY <1>a, <1>c, <1>d, <1>e, <1>g, <1>18 DEF Load
<1>19. CASE CacheFails
  BY <1>a, <1>c, <1>d, <1>e, <1>g, <1>19 DEF CacheFails
<1>20. CASE NextPreload
  BY <1>a, <1>c, <1>d, <1>e, <1>g, <1>20 DEF NextPreload
<1>21. CASE Preload
  BY <1>a, <1>c, <1>d, <1>e, <1>g, <1>21 DEF Preload
<1>22. CASE Fuse
  BY <1>a, <1>c, <1>d, <1>e, <1>g, <1>22 DEF Fuse
<1>23. CASE ScanPoll
  BY <1>a, <1>c, <1>d, <1>e, <1>g, <1>23 DEF ScanPoll
<1>24. CASE ScanReturn
  BY <1>a, <1>c, <1>d, <1>e, <1>g, <1>24 DEF ScanReturn
<1>25. CASE HandleCancelled
  BY <1>a, <1>c, <1>d, <1>e, <1>g, <1>25 DEF HandleCancelled
<1>26. CASE HandleFatal
  BY <1>a, <1>c, <1>d, <1>e, <1>g, <1>26 DEF HandleFatal
<1> QED BY <1>1, <1>2, <1>3, <1>4, <1>5, <1>6, <1>7, <1>8, <1>9, <1>10, <1>11, <1>12, <1>13,
           <1>14, <1>15, <1>16, <1>17, <1>18, <1>19, <1>20, <1>21, <1>22, <1>23, <1>24, <1>25,
           <1>26
           DEF Next, Runner, Stopped

----------------------------------------------------------------------------
(* The sub-ranges and their answers. *)

Placed == ErrorsBehind /\ ResultsBehind /\ Apart /\ Answers

\* Placed, for r and e in the place of the sub-ranges with Results and with errors.
PlacedAs(r, e) ==
  /\ pc \in Loop => e \subseteq Behind
  /\ req.hygiene => /\ pc \in Loop \ {"drain"} => r \subseteq Behind
                    /\ pc = "drain" => r \subseteq Behind \cup unit
                    /\ pc = "fatal" => r \cap unit = {}
                    /\ r \cap e = {}
  /\ ~cancel /\ req.shape # "breaks" =>
       /\ pc \in Loop => Behind \subseteq r \cup e
       /\ pc \in Scanning /\ ~req.hygiene /\ emitted > 0 => unit \subseteq r \cup e
       /\ pc = "drain" => buffered > 0 \/ unit \subseteq r \cup e
       /\ pc = "close" => 1..nsub \subseteq r \cup e

\* The running scan is ahead of what is behind the loop, and the loop passes it.
LEMMA Ahead ==
  ASSUME Shape, pc \in Scanning \cup {"drain"}
  PROVE  /\ Behind \cap unit = {}
         /\ Advance /\ UNCHANGED <<req, nsub>> =>
              \/ Coalescing /\ pc' = "close" /\ unit = 1..nsub
              \/ pc' = "loop" /\ Behind' = Behind \cup unit
<1> USE DEF Shape
<1>1. CASE Coalescing
  BY <1>1 DEF Behind, Advance, Goto, Place
<1>2. CASE ~Coalescing
  <2>1. Behind = 1..(sub - 1) /\ unit = {sub} /\ sub \in 1..(nsub + 1) /\ sub \in Nat
    BY <1>2 DEF Behind, Place, Loop, TypeOK
  <2>2. \A i \in Nat : i >= 1 => 1..i = 1..(i - 1) \cup {i} /\ i \notin 1..(i - 1)
    OBVIOUS
  <2>3. 1..sub = Behind \cup unit /\ Behind \cap unit = {}
    BY <2>1, <2>2
  <2>4. ASSUME Advance, UNCHANGED <<req, nsub>>
        PROVE  pc' = "loop" /\ Behind' = 1..sub
    <3>1. pc' = "loop" /\ sub' = sub + 1 /\ ~Coalescing'
      BY <1>2, <2>4 DEF Advance, Goto, Coalescing
    <3> QED BY <3>1, <2>1 DEF Behind
  <2> QED BY <2>3, <2>4
<1> QED BY <1>1, <1>2

\* The answers keep up with the loop, and errors stay apart from Results.
LEMMA PlacedStep ==
  ASSUME Shape, Prelude, Placed, [Next]_vars
  PROVE  Placed'
<1> DEFINE R == Over("Result")
           E == Over("ScanError")
<1> USE DEF Shape, PlacedAs
<1>a. req' = req /\ (cancel => cancel') /\ emitted \in Nat /\ buffered \in Nat /\ sub \in Nat /\ nsub \in Nat
  BY Stays DEF TypeOK
<1>b. ASSUME NEW k \in Kinds, NEW span, Wrote(k, span)
      PROVE  /\ R' = IF k = "Result" THEN R \cup span ELSE R
             /\ E' = IF k = "ScanError" THEN E \cup span ELSE E
  BY <1>b, WroteGrown DEF Kinds
<1>c. stream' = stream => R' = R /\ E' = E
  BY DEF Over
<1>d. PlacedAs(R, E)
  BY DEF Placed, ErrorsBehind, ResultsBehind, Apart, Answers, Answered
<1>e. PlacedAs(R, E)' => Placed'
  BY DEF Placed, ErrorsBehind, ResultsBehind, Apart, Answers, Answered
<1>f. \A k \in {"RunStart", "DryRun", "GapAborted", "ScanError", "Result", "RunEnd"} :
        \A span \in {{}, unit} : /\ Written(k, span) => Wrote(k, span)
                                 /\ k \in Kinds
  BY WrittenWrote DEF Kinds
<1>g. pc \in Early => R = {} /\ E = {} /\ unit = {} /\ nsub = 0
  BY NothingOver DEF Place
<1>l. pc \in Scanning \cup {"drain"} => Behind \cap unit = {}
  BY Ahead
<1>k. ASSUME pc \in Scanning \cup {"drain"}, Advance, UNCHANGED nsub
      PROVE  \/ Coalescing /\ pc' = "close" /\ unit = 1..nsub
             \/ pc' = "loop" /\ Behind' = Behind \cup unit
  BY <1>a, <1>k, Ahead
<1> HIDE DEF R, E
<1>1. CASE OpenRun
  <2>1. CASE Written("RunStart", {}) /\ UNCHANGED <<cancel, nsub, unit>>
    <3>1. R' = R /\ E' = E
      BY <1>b, <1>f, <2>1
    <3> QED BY <1>a, <1>d, <1>e, <1>g, <2>1, <3>1, <1>1
               DEF OpenRun, Goto, Finish, WriteFails, runVars, scanVars, Early, Loop, Scanning,
                   Behind, Coalescing, Place, Emission
  <2>2. CASE WriteFails
    BY <1>a, <1>c, <1>d, <1>e, <2>2, <1>1 DEF OpenRun, Finish, WriteFails, Loop, Scanning
  <2> QED BY <2>1, <2>2, <1>1 DEF OpenRun, runVars, scanVars
<1>2. CASE MakePlan
  <2>1. CASE Written("DryRun", {}) /\ UNCHANGED <<cancel, nsub, unit>>
    <3>1. R' = R /\ E' = E
      BY <1>b, <1>f, <2>1
    <3> QED BY <1>a, <1>d, <1>e, <1>g, <2>1, <3>1, <1>2
               DEF MakePlan, Goto, Finish, WriteFails, runVars, scanVars, Early, Loop, Scanning,
                   Behind, Coalescing, Place, Emission
  <2>2. CASE WriteFails
    BY <1>a, <1>c, <1>d, <1>e, <2>2, <1>2 DEF MakePlan, Finish, WriteFails, Loop, Scanning
  <2> QED BY <2>1, <2>2, <1>2 DEF MakePlan, runVars, scanVars
<1>3. CASE Abort
  <2>1. CASE Written("GapAborted", {}) /\ UNCHANGED <<cancel, nsub, unit>>
    <3>1. R' = R /\ E' = E
      BY <1>b, <1>f, <2>1
    <3> QED BY <1>a, <1>d, <1>e, <1>g, <2>1, <3>1, <1>3
               DEF Abort, Goto, Finish, WriteFails, runVars, scanVars, Early, Loop, Scanning,
                   Behind, Coalescing, Place, Emission
  <2>2. CASE WriteFails
    BY <1>a, <1>c, <1>d, <1>e, <2>2, <1>3 DEF Abort, Finish, WriteFails, Loop, Scanning
  <2> QED BY <2>1, <2>2, <1>3 DEF Abort, runVars, scanVars
<1>4. CASE Fatal
  <2>1. CASE Written("ScanError", unit) /\ UNCHANGED <<cancel, nsub, unit>>
    <3>1. R' = R /\ E' = E \cup unit
      BY <1>b, <1>f, <2>1
    <3> QED BY <1>a, <1>d, <1>e, <1>g, <2>1, <3>1, <1>4
               DEF Fatal, Goto, Finish, WriteFails, runVars, scanVars, Early, Loop, Scanning,
                   Behind, Coalescing, Place, Emission
  <2>2. CASE WriteFails
    BY <1>a, <1>c, <1>d, <1>e, <2>2, <1>4 DEF Fatal, Finish, WriteFails, Loop, Scanning
  <2> QED BY <2>1, <2>2, <1>4 DEF Fatal, runVars, scanVars
<1>5. CASE Bail
  <2>1. CASE Written("RunEnd", {}) /\ UNCHANGED <<cancel, nsub, unit>>
    <3>1. R' = R /\ E' = E
      BY <1>b, <1>f, <2>1
    <3> QED BY <1>a, <1>d, <1>e, <1>g, <2>1, <3>1, <1>5
               DEF Bail, Goto, Finish, WriteFails, runVars, scanVars, Early, Loop, Scanning,
                   Behind, Coalescing, Place, Emission
  <2>2. CASE WriteFails
    BY <1>a, <1>c, <1>d, <1>e, <2>2, <1>5 DEF Bail, Finish, WriteFails, Loop, Scanning
  <2> QED BY <2>1, <2>2, <1>5 DEF Bail, runVars, scanVars
<1>6. CASE Close
  <2>1. CASE Written("RunEnd", {}) /\ UNCHANGED <<cancel, nsub, unit>>
    <3>1. R' = R /\ E' = E
      BY <1>b, <1>f, <2>1
    <3> QED BY <1>a, <1>d, <1>e, <1>g, <2>1, <3>1, <1>6
               DEF Close, Goto, Finish, WriteFails, runVars, scanVars, Early, Loop, Scanning,
                   Behind, Coalescing, Place, Emission
  <2>2. CASE WriteFails
    BY <1>a, <1>c, <1>d, <1>e, <2>2, <1>6 DEF Close, Finish, WriteFails, Loop, Scanning
  <2> QED BY <2>1, <2>2, <1>6 DEF Close, runVars, scanVars
<1>7. CASE HandleKernel
  <2>1. CASE Written("ScanError", unit) /\ Advance
    <3>1. R' = R /\ E' = E \cup unit
      BY <1>b, <1>f, <2>1
    <3>2. pc \in Scanning /\ UNCHANGED <<cancel, nsub, unit>>
      BY <1>7 DEF HandleKernel, Scanning, scanVars
    <3>3. req.hygiene => R \subseteq Behind /\ R \cap (E \cup unit) = {}
      BY <1>d, <1>l, <3>2 DEF Loop, Scanning
    <3>4. CASE Coalescing /\ pc' = "close" /\ unit = 1..nsub
      BY <1>a, <1>d, <1>e, <3>1, <3>2, <3>4, <3>3 DEF Loop, Scanning
    <3>5. CASE pc' = "loop" /\ Behind' = Behind \cup unit
      BY <1>a, <1>d, <1>e, <3>1, <3>2, <3>5, <3>3 DEF Loop, Scanning
    <3> QED BY <1>k, <2>1, <3>2, <3>4, <3>5
  <2>2. CASE WriteFails
    BY <1>a, <1>c, <1>d, <1>e, <2>2, <1>7 DEF HandleKernel, Finish, WriteFails, Loop, Scanning
  <2> QED BY <2>1, <2>2, <1>7 DEF HandleKernel
<1>8. CASE ScanEmit
  <2>1. CASE stream' = stream /\ (req.hygiene \/ emitted' = emitted)
    BY <1>a, <1>c, <1>d, <1>e, <2>1, <1>8
       DEF ScanEmit, Goto, runVars, Loop, Scanning, Behind, Coalescing
  <2>2. CASE ~req.hygiene /\ Written("Result", unit) /\ emitted' = emitted + 1
    <3>1. R' = R \cup unit /\ E' = E
      BY <1>b, <1>f, <2>2
    <3> QED BY <1>a, <1>d, <1>e, <2>2, <3>1, <1>8
               DEF ScanEmit, Goto, runVars, Loop, Scanning, Behind, Coalescing
  <2> QED BY <2>1, <2>2, <1>8 DEF ScanEmit
<1>9. CASE HandleOk
  <2>1. CASE req.hygiene
    BY <1>a, <1>c, <1>d, <1>e, <2>1, <1>9
       DEF HandleOk, Goto, scanVars, Loop, Scanning, Behind, Coalescing, Emission
  <2>2. CASE ~req.hygiene
    <3>1. Advance /\ pc = "handle" /\ UNCHANGED <<cancel, nsub, unit, stream>>
      BY <2>2, <1>9 DEF HandleOk, scanVars
    <3>2. req.shape \in {"one", "windows"} /\ ~cancel => unit \subseteq R \cup E
      BY <1>d, <2>2, <1>9 DEF HandleOk, Emission, Scanning
    <3>3. req.shape \in {"one", "windows", "breaks"}
      BY EngineAssumption DEF TypeOK, AllRequests, Shapes
    <3>4. R' = R /\ E' = E /\ pc \in Scanning
      BY <1>c, <3>1 DEF Scanning
    <3>5. CASE Coalescing /\ pc' = "close" /\ unit = 1..nsub
      BY <1>a, <1>d, <1>e, <2>2, <3>1, <3>2, <3>5, <3>3, <3>4 DEF Loop, Scanning
    <3>6. CASE pc' = "loop" /\ Behind' = Behind \cup unit
      BY <1>a, <1>d, <1>e, <2>2, <3>1, <3>2, <3>6, <3>3, <3>4 DEF Loop, Scanning
    <3> QED BY <1>k, <3>1, <3>4, <3>5, <3>6
  <2> QED BY <2>1, <2>2
<1>10. CASE Drain
  <2>1. CASE buffered = 0
    <3>1. Advance /\ pc = "drain" /\ UNCHANGED <<cancel, nsub, unit, stream>>
      BY <2>1, <1>10 DEF Drain, Quiet
    <3> QED BY <1>a, <1>c, <1>d, <1>e, <1>k, <2>1, <3>1 DEF Loop, Scanning
  <2>2. CASE WriteFails
    BY <1>a, <1>c, <1>d, <1>e, <2>2, <1>10 DEF Drain, Finish, WriteFails, Loop, Scanning
  <2>3. CASE /\ stream' = Append(stream, [Envelope("Result", unit) EXCEPT !.bare = cancel])
             /\ UNCHANGED <<pc, sub>>
    <3>1. Wrote("Result", unit)
      BY <2>3, WrittenWrote DEF Kinds
    <3>2. R' = R \cup unit /\ E' = E
      BY <1>b, <1>f, <3>1
    <3>3. E \cap unit = {}
      BY <1>d, <1>a, <1>10 DEF Drain, Loop, Behind, Place
    <3> QED BY <1>a, <1>d, <1>e, <2>3, <3>2, <3>3, <1>10
               DEF Drain, Loop, Scanning, Behind, Coalescing
  <2> QED BY <2>1, <2>2, <2>3, <1>10 DEF Drain
<1>11. CASE UNCHANGED vars
  BY <1>a, <1>c, <1>d, <1>e, <1>11 DEF vars, runVars, scanVars, Behind, Coalescing
<1> USE DEF Quiet, Goto, Finish, BeginScan, runVars, scanVars, Early, Loop, Scanning, Behind,
            Coalescing, Place, Emission, ScanDone
<1>12. CASE Interrupt
  BY <1>a, <1>c, <1>d, <1>e, <1>g, <1>12 DEF Interrupt
<1>13. CASE Enter
  BY <1>a, <1>c, <1>d, <1>e, <1>g, <1>13 DEF Enter
<1>14. CASE DetectGaps
  BY <1>a, <1>c, <1>d, <1>e, <1>g, <1>14 DEF DetectGaps
<1>15. CASE ReaderFails
  BY <1>a, <1>c, <1>d, <1>e, <1>g, <1>15 DEF ReaderFails
<1>16. CASE Split
  BY <1>a, <1>c, <1>d, <1>e, <1>g, <1>16 DEF Split
<1>17. CASE NextSubRange
  BY <1>a, <1>c, <1>d, <1>e, <1>g, <1>17 DEF NextSubRange
<1>18. CASE Load
  BY <1>a, <1>c, <1>d, <1>e, <1>g, <1>18 DEF Load
<1>19. CASE CacheFails
  BY <1>a, <1>c, <1>d, <1>e, <1>g, <1>19 DEF CacheFails
<1>20. CASE NextPreload
  BY <1>a, <1>c, <1>d, <1>e, <1>g, <1>20 DEF NextPreload
<1>21. CASE Preload
  BY <1>a, <1>c, <1>d, <1>e, <1>g, <1>21 DEF Preload
<1>22. CASE Fuse
  BY <1>a, <1>c, <1>d, <1>e, <1>g, <1>22 DEF Fuse
<1>23. CASE ScanPoll
  BY <1>a, <1>c, <1>d, <1>e, <1>g, <1>23 DEF ScanPoll
<1>24. CASE ScanReturn
  BY <1>a, <1>c, <1>d, <1>e, <1>g, <1>24 DEF ScanReturn
<1>25. CASE HandleCancelled
  BY <1>a, <1>c, <1>d, <1>e, <1>g, <1>25 DEF HandleCancelled
<1>26. CASE HandleFatal
  BY <1>a, <1>c, <1>d, <1>e, <1>g, <1>26 DEF HandleFatal
<1> QED BY <1>1, <1>2, <1>3, <1>4, <1>5, <1>6, <1>7, <1>8, <1>9, <1>10, <1>11, <1>12, <1>13,
           <1>14, <1>15, <1>16, <1>17, <1>18, <1>19, <1>20, <1>21, <1>22, <1>23, <1>24, <1>25,
           <1>26
           DEF Next, Runner, Stopped

----------------------------------------------------------------------------
(* The Results of the running scan.run. *)

\* A Result over unit adds one to them, and no other write does.
LEMMA OfUnitGrown ==
  ASSUME TypeOK
  PROVE  /\ Cardinality(OfUnit) \in Nat
         /\ UNCHANGED <<stream, unit>> => Cardinality(OfUnit)' = Cardinality(OfUnit)
         /\ \A k \in Kinds \ {"Result"}, span \in {{}, unit} :
              Wrote(k, span) /\ unit' = unit => Cardinality(OfUnit)' = Cardinality(OfUnit)
         /\ Wrote("Result", unit) /\ unit' = unit =>
              Cardinality(OfUnit)' = Cardinality(OfUnit) + 1
<1>0. stream \in Seq(Env)
  BY DEF TypeOK, Env
<1>1. IsFiniteSet(OfUnit) /\ Cardinality(OfUnit) \in Nat
  <2>1. IsFiniteSet(1..Len(stream)) /\ DOMAIN stream = 1..Len(stream)
    BY FS_Interval, LenProperties DEF TypeOK
  <2>2. OfUnit \subseteq 1..Len(stream)
    BY <2>1 DEF OfUnit
  <2> QED BY <2>1, <2>2, FS_Subset, FS_CardinalityType
<1>2. UNCHANGED <<stream, unit>> => Cardinality(OfUnit)' = Cardinality(OfUnit)
  BY DEF OfUnit
<1>3. ASSUME NEW k \in Kinds, NEW span, Wrote(k, span), unit' = unit
      PROVE  /\ k # "Result" => OfUnit' = OfUnit
             /\ k = "Result" /\ span = unit => \E i : i \notin OfUnit /\ OfUnit' = OfUnit \cup {i}
  <2>1. PICK e \in Env : e.kind = k /\ e.span = span /\ stream' = Append(stream, e)
    BY <1>3 DEF Wrote
  <2>2. /\ DOMAIN stream' = DOMAIN stream \cup {Len(stream) + 1}
        /\ Len(stream) + 1 \notin DOMAIN stream
        /\ stream'[Len(stream) + 1] = e
        /\ \A j \in DOMAIN stream : stream'[j] = stream[j]
    BY <1>0, <2>1, Grown
  <2>3. k # "Result" => OfUnit' = OfUnit
    BY <1>3, <2>1, <2>2 DEF OfUnit
  <2>4. ASSUME k = "Result", span = unit
        PROVE  Len(stream) + 1 \notin OfUnit /\ OfUnit' = OfUnit \cup {Len(stream) + 1}
    BY <1>3, <2>1, <2>2, <2>4 DEF OfUnit
  <2> QED BY <2>3, <2>4
<1>4. ASSUME NEW k \in Kinds \ {"Result"}, NEW span \in {{}, unit}, Wrote(k, span), unit' = unit
      PROVE  Cardinality(OfUnit)' = Cardinality(OfUnit)
  <2>1. OfUnit' = OfUnit
    BY <1>3, <1>4
  <2> QED BY <2>1
<1>5. ASSUME Wrote("Result", unit), unit' = unit
      PROVE  Cardinality(OfUnit)' = Cardinality(OfUnit) + 1
  <2>1. PICK i : i \notin OfUnit /\ OfUnit' = OfUnit \cup {i}
    BY <1>3, <1>5 DEF Kinds
  <2>2. Cardinality(OfUnit \cup {i}) = Cardinality(OfUnit) + 1
    BY <1>1, <2>1, FS_AddElement
  <2> QED BY <2>1, <2>2
<1> QED BY <1>1, <1>2, <1>4, <1>5

\* There are none when a scan begins: every Result stands for a sub-range behind.
LEMMA NoneYet ==
  ASSUME stream' = stream, unit' # {}, Over("Result") \cap unit' = {}
  PROVE  Cardinality(OfUnit)' = 0
<1>1. OfUnit' = {}
  <2> SUFFICES ASSUME NEW j \in DOMAIN stream, stream[j].kind = "Result", stream[j].span = unit'
               PROVE  FALSE
    BY DEF OfUnit
  <2>1. unit' \subseteq Over("Result")
    BY DEF Over
  <2> QED BY <2>1
<1>2. Cardinality(OfUnit') = 0
  BY <1>1, FS_EmptySet
<1> QED BY <1>2

\* Delivering, for r and c in the place of the sub-ranges with Results and of the
\* number of those of the running scan.
DeliveringAs(r, c) ==
  /\ pc \in Early \cup {"preload", "preloading", "fuse"} => scanRes = "none"
  /\ pc \in Loop \ (Scanning \cup {"drain"}) => r \subseteq Behind
  /\ pc \in Scanning \cup {"drain"} => r \subseteq Behind \cup unit /\ c + buffered = emitted
  /\ pc \in {"loop", "close"} /\ scanRes = "Ok" => c = emitted

\* What the running scan has emitted is held back or on the stream, and on it when
\* the loop goes on.
LEMMA DeliveringStep ==
  ASSUME Shape, Prelude, Delivering, [Next]_vars
  PROVE  Delivering'
<1> DEFINE R == Over("Result")
           C == Cardinality(OfUnit)
<1> USE DEF Shape, DeliveringAs
<1>a. /\ req' = req /\ C \in Nat /\ emitted \in Nat /\ buffered \in Nat
      /\ sub \in Nat /\ nsub \in Nat /\ loaded \in Nat
  BY Stays, OfUnitGrown DEF TypeOK
<1>b. ASSUME NEW k \in Kinds \ {"Result"}, NEW span \in {{}, unit}, Wrote(k, span), unit' = unit
      PROVE  R' = R /\ C' = C
  BY <1>b, WroteGrown, OfUnitGrown DEF Kinds
<1>c. ASSUME Wrote("Result", unit), unit' = unit
      PROVE  R' = R \cup unit /\ C' = C + 1
  BY <1>c, WroteGrown, OfUnitGrown DEF Kinds
<1>d. stream' = stream => R' = R
  BY DEF Over
<1>e. UNCHANGED <<stream, unit>> => C' = C
  BY OfUnitGrown
<1>f. DeliveringAs(R, C) /\ (DeliveringAs(R, C)' => Delivering')
  BY DEF Delivering, Delivered
<1>g. \A k \in {"RunStart", "DryRun", "GapAborted", "ScanError", "RunEnd"} :
        \A span \in {{}, unit} : /\ Written(k, span) => Wrote(k, span)
                                 /\ k \in Kinds \ {"Result"}
  BY WrittenWrote DEF Kinds
<1>h. pc \in Early => R = {}
  BY NothingOver
<1>i. stream' = stream /\ unit' # {} /\ R \cap unit' = {} => C' = 0
  BY NoneYet
<1>k. ASSUME pc \in Scanning \cup {"drain"}, Advance, UNCHANGED nsub
      PROVE  \/ pc' = "close"
             \/ pc' = "loop" /\ Behind' = Behind \cup unit
  BY <1>a, <1>k, Ahead
<1> HIDE DEF R, C
<1>1. CASE pc' \in {"fatal", "bail", "done"}
  BY <1>1, <1>f DEF Early, Loop, Scanning
<1>2. CASE OpenRun \/ MakePlan \/ Abort
  <2>1. CASE \E k \in {"RunStart", "DryRun", "GapAborted"} : Written(k, {})
    <3>1. R' = R /\ C' = C
      BY <1>b, <1>g, <2>1, <1>2 DEF OpenRun, MakePlan, Abort, scanVars
    <3> QED BY <1>2, <1>f, <1>h, <3>1
            DEF OpenRun, MakePlan, Abort, Goto, WriteFails, Finish, scanVars, runVars, Early, Loop,
                Scanning, Behind
  <2> QED BY <2>1, <1>1, <1>2 DEF OpenRun, MakePlan, Abort, WriteFails, Finish
<1>3. CASE HandleKernel
  <2>1. CASE Written("ScanError", unit) /\ Advance
    <3>1. R' = R /\ C' = C
      BY <1>b, <1>g, <2>1, <1>3 DEF HandleKernel, scanVars
    <3>2. pc \in Scanning /\ scanRes' = "Kernel" /\ UNCHANGED nsub
      BY <1>3 DEF HandleKernel, Scanning, scanVars
    <3> QED BY <1>f, <1>k, <2>1, <3>1, <3>2 DEF Early, Loop, Scanning
  <2> QED BY <2>1, <1>1, <1>3 DEF HandleKernel, WriteFails, Finish
<1>4. CASE ScanEmit
  <2>1. pc \in Scanning /\ pc' \in Scanning /\ UNCHANGED <<unit, req, nsub, sub>>
    BY <1>4 DEF ScanEmit, Goto, runVars, Scanning
  <2>2. Behind' = Behind
    BY <2>1 DEF Behind, Coalescing
  <2>3. CASE Written("Result", unit) /\ emitted' = emitted + 1 /\ buffered' = buffered
    <3>1. R' = R \cup unit /\ C' = C + 1
      BY <1>c, <2>1, <2>3, WrittenWrote DEF Kinds
    <3> QED BY <1>a, <1>f, <2>1, <2>2, <2>3, <3>1 DEF Early, Loop, Scanning
  <2>4. CASE /\ stream' = stream
             /\ \/ emitted' = emitted + 1 /\ buffered' = buffered + 1
                \/ emitted' = emitted /\ buffered' = buffered
    <3>1. R' = R /\ C' = C
      BY <1>d, <1>e, <2>1, <2>4
    <3> QED BY <1>a, <1>f, <2>1, <2>2, <2>4, <3>1 DEF Early, Loop, Scanning
  <2> QED BY <2>3, <2>4, <1>4 DEF ScanEmit
<1>5. CASE Drain
  <2>1. pc = "drain" /\ UNCHANGED <<unit, req, nsub, emitted, scanRes>>
    BY <1>5 DEF Drain
  <2>2. CASE buffered = 0 /\ Advance /\ UNCHANGED <<stream, buffered>>
    <3>1. R' = R /\ C' = C /\ C = emitted
      BY <1>a, <1>d, <1>e, <1>f, <2>1, <2>2
    <3> QED BY <1>f, <1>k, <2>1, <2>2, <3>1 DEF Early, Loop, Scanning
  <2>3. CASE /\ stream' = Append(stream, [Envelope("Result", unit) EXCEPT !.bare = cancel])
             /\ buffered' = buffered - 1 /\ UNCHANGED <<pc, sub>>
    <3>1. R' = R \cup unit /\ C' = C + 1
      BY <1>c, <2>1, <2>3, WrittenWrote DEF Kinds
    <3>2. Behind' = Behind
      BY <2>1, <2>3 DEF Behind, Coalescing
    <3> QED BY <1>a, <1>f, <2>1, <2>3, <3>1, <3>2 DEF Early, Loop, Scanning
  <2> QED BY <2>2, <2>3, <1>1, <1>5 DEF Drain, Quiet, WriteFails, Finish
<1>6. CASE HandleOk
  <2>1. pc = "handle" /\ scanRes = "Ok" /\ UNCHANGED <<stream, unit, req, nsub, emitted, buffered, scanRes>>
    BY <1>6 DEF HandleOk, scanVars
  <2>2. R' = R /\ C' = C
    BY <1>d, <1>e, <2>1
  <2>3. CASE pc' = "drain" /\ sub' = sub
    BY <1>f, <2>1, <2>2, <2>3 DEF Early, Loop, Scanning, Behind, Coalescing
  <2>4. CASE ~req.hygiene /\ Advance
    <3>1. C = emitted
      BY <1>a, <1>f, <2>1, <2>4 DEF Emission, Scanning
    <3> QED BY <1>f, <1>k, <2>1, <2>2, <2>4, <3>1 DEF Early, Loop, Scanning
  <2> QED BY <2>3, <2>4, <1>6 DEF HandleOk, Goto
<1>7. CASE Load
  <2>1. pc = "load" /\ pc' = "scan" /\ UNCHANGED <<stream, req, nsub, sub>>
    BY <1>7 DEF Load, Goto, Quiet, runVars
  <2>2. unit' = {sub} /\ emitted' = 0 /\ buffered' = 0 /\ Behind = 1..(sub - 1) /\ Behind' = Behind
    BY <1>7, <2>1 DEF Load, BeginScan, Place, Behind, Coalescing
  <2>3. R \subseteq Behind /\ R \cap unit' = {}
    BY <1>a, <1>f, <2>1, <2>2 DEF Loop, Scanning
  <2>4. C' = 0 /\ R' = R
    BY <1>d, <1>i, <2>1, <2>2, <2>3
  <2> QED BY <1>f, <2>1, <2>2, <2>3, <2>4 DEF Early, Loop, Scanning
<1>8. CASE Fuse
  <2>1. pc = "fuse" /\ UNCHANGED <<stream, req, nsub, sub>> /\ Coalescing /\ Behind = {} /\ Behind' = {}
    BY <1>8 DEF Fuse, Quiet, runVars, Place, Behind, Coalescing
  <2>2. R = {} /\ R' = R /\ scanRes = "none"
    BY <1>d, <1>f, <2>1 DEF Loop, Scanning
  <2>3. CASE pc' = "scan" /\ loaded > 0 /\ BeginScan(1..loaded)
    <3>1. unit' # {} /\ emitted' = 0 /\ buffered' = 0
      BY <1>a, <2>3 DEF BeginScan
    <3>2. C' = 0
      BY <1>i, <2>1, <2>2, <3>1
    <3> QED BY <1>f, <2>2, <2>3, <3>1, <3>2 DEF Early, Loop, Scanning
  <2>4. CASE pc' = "close" /\ UNCHANGED scanVars
    BY <1>f, <2>2, <2>4 DEF Early, Loop, Scanning, scanVars
  <2> QED BY <2>3, <2>4, <1>8 DEF Fuse, Goto
<1>9. CASE UNCHANGED vars
  BY <1>d, <1>e, <1>f, <1>9 DEF vars, runVars, scanVars, Behind, Coalescing
<1> USE DEF Quiet, Goto, Finish, runVars, scanVars, Early, Loop, Scanning, Behind, Coalescing,
            Place, ScanDone
<1>10. CASE Interrupt
  BY <1>d, <1>e, <1>f, <1>10 DEF Interrupt
<1>11. CASE Enter \/ DetectGaps \/ ReaderFails
  BY <1>d, <1>e, <1>f, <1>h, <1>11 DEF Enter, DetectGaps, ReaderFails
<1>12. CASE Split
  BY <1>a, <1>d, <1>e, <1>f, <1>h, <1>12 DEF Split
<1>13. CASE NextSubRange
  BY <1>a, <1>d, <1>e, <1>f, <1>13 DEF NextSubRange
<1>14. CASE NextPreload
  BY <1>a, <1>d, <1>e, <1>f, <1>14 DEF NextPreload
<1>15. CASE Preload
  BY <1>a, <1>d, <1>e, <1>f, <1>15 DEF Preload
<1>16. CASE ScanPoll
  BY <1>a, <1>d, <1>e, <1>f, <1>16 DEF ScanPoll
<1>17. CASE ScanReturn
  BY <1>a, <1>d, <1>e, <1>f, <1>17 DEF ScanReturn
<1>18. CASE HandleCancelled
  BY <1>a, <1>d, <1>e, <1>f, <1>18 DEF HandleCancelled
<1>19. CASE CacheFails \/ HandleFatal \/ Fatal \/ Bail \/ Close
  BY <1>1, <1>19 DEF CacheFails, HandleFatal, Fatal, Bail, Close, WriteFails
<1> QED BY <1>2, <1>3, <1>4, <1>5, <1>6, <1>7, <1>8, <1>9, <1>10, <1>11, <1>12, <1>13, <1>14,
           <1>15, <1>16, <1>17, <1>18, <1>19
           DEF Next, Runner, Stopped

----------------------------------------------------------------------------
(* The coalesced run. *)

\* A step that leaves the dispatch as it is writes no Result, or one over unit.
LEMMA ResultStep ==
  ASSUME Shape, [Next]_vars
  PROVE  \/ stream' = stream /\ (Split \/ UNCHANGED <<req, nsub>>)
         \/ /\ UNCHANGED <<req, nsub>>
            /\ \E k \in Kinds \ {"Result"}, span \in {{}, unit} : Wrote(k, span)
         \/ /\ UNCHANGED <<req, nsub>> /\ Wrote("Result", unit)
            /\ pc \in Scanning \cup {"drain"}
<1> USE DEF Shape
<1>1. \A k \in Kinds : \A span \in {{}, unit} :
        /\ Written(k, span) => Wrote(k, span)
        /\ stream' = Append(stream, [Envelope(k, span) EXCEPT !.bare = cancel]) => Wrote(k, span)
  BY WrittenWrote
<1>2. CASE Drain
  BY <1>1, <1>2 DEF Drain, Quiet, WriteFails, Kinds
<1>3. CASE ScanEmit
  BY <1>1, <1>3 DEF ScanEmit, runVars, Scanning, Kinds
<1> QED BY <1>1, <1>2, <1>3
        DEF Next, vars, runVars, scanVars, Interrupt, Runner, Stopped,
            Quiet, WriteFails, Kinds,
            Enter, OpenRun, MakePlan, DetectGaps, ReaderFails, Abort, Split,
            NextSubRange, Load, CacheFails, NextPreload, Preload, Fuse, ScanPoll, ScanReturn,
            HandleOk, HandleCancelled, HandleKernel, HandleFatal, Fatal, Bail, Close

\* Only a coalesced run writes over several sub-ranges, and then over all of them.
LEMMA FusedStep ==
  ASSUME Shape, Prelude, FusedWhole, [Next]_vars
  PROVE  FusedWhole'
<1> SUFFICES ASSUME Coalescing', NEW j \in DOMAIN stream', stream'[j].kind = "Result"
             PROVE  stream'[j].span = 1..nsub'
  BY DEF FusedWhole
<1>1. CASE stream' = stream /\ Split
  BY <1>1, NothingOver DEF Split, Early
<1>2. CASE stream' = stream /\ UNCHANGED <<req, nsub>>
  BY <1>2 DEF FusedWhole, Coalescing
<1>3. ASSUME UNCHANGED <<req, nsub>>, NEW k \in Kinds, NEW span, Wrote(k, span),
             k = "Result" => span = 1..nsub
      PROVE  stream'[j].span = 1..nsub'
  <2>1. PICK e \in Env : e.kind = k /\ e.span = span /\ stream' = Append(stream, e)
    BY <1>3 DEF Wrote
  <2>2. stream \in Seq(Env)
    BY DEF Shape, TypeOK, Env
  <2>3. /\ DOMAIN stream' = DOMAIN stream \cup {Len(stream) + 1}
        /\ stream'[Len(stream) + 1] = e
        /\ \A i \in DOMAIN stream : stream'[i] = stream[i]
    BY <2>1, <2>2, Grown
  <2>4. Coalescing
    BY <1>3 DEF Coalescing
  <2>5. CASE j \in DOMAIN stream
    BY <1>3, <2>3, <2>4, <2>5 DEF FusedWhole
  <2>6. CASE j = Len(stream) + 1
    BY <1>3, <2>1, <2>3, <2>6
  <2> QED BY <2>3, <2>5, <2>6
<1>4. ASSUME UNCHANGED <<req, nsub>>, pc \in Scanning \cup {"drain"}
      PROVE  unit = 1..nsub
  BY <1>4 DEF Shape, Place, Coalescing
<1>5. "Result" \in Kinds
  BY DEF Kinds
<1> QED BY <1>1, <1>2, <1>3, <1>4, <1>5, ResultStep

----------------------------------------------------------------------------
(* The framing. *)

\* What a step does to the framing: nothing, a write, or the end.
Silent == /\ stream' = stream /\ outcome' = outcome
          /\ pc' = "done" <=> pc = "done"
          /\ pc' \notin {"enter", "open", "done"} => pc \notin {"enter", "open", "done"}
          /\ pc' \in Loop \cup {"fatal"} => pc \in Loop \cup {"fatal", "detect", "dispatch"}
Ends(from, outcomes) == pc \in from /\ pc' = "done" /\ outcome' \in outcomes
Writes(k) == /\ \E span \in {{}, unit} : Wrote(k, span)
             /\ outcome' = outcome
             /\ pc # "done" /\ pc' # "done"
Frames ==
  \/ Silent
  \/ stream' = stream /\ Ends({"enter"}, {"Ok"})
  \/ stream' = stream /\ Ends(Pcs \ {"done"}, {"Preflight", "SinkError"})
  \/ pc = "open" /\ Writes("RunStart")
  \/ pc = "plan" /\ Writes("DryRun") /\ pc' = "close"
  \/ pc \in Loop \cup {"dispatch", "fatal"} /\ \E k \in BodyKinds : Writes(k)
  \/ (\E span \in {{}, unit} : Wrote("RunEnd", span)) /\ Ends({"bail", "close"}, {"Ok", "HadScanErrors"})

\* Until the dispatch, RunStart is the last envelope.
LEMMA OnlyRunStart ==
  ASSUME TypeOK, Prelude, pc \in {"plan", "detect", "dispatch"}
  PROVE  stream # <<>> /\ stream[Len(stream)].kind = "RunStart"
<1>1. KindsOf(stream) = <<"RunStart">>
  BY DEF Prelude
<1>2. DOMAIN KindsOf(stream) = DOMAIN stream /\ \A j \in DOMAIN stream : KindsOf(stream)[j] = stream[j].kind
  BY DEF KindsOf
<1>3. DOMAIN stream = {1} /\ Len(stream) = 1
  BY <1>1, <1>2, LenProperties DEF TypeOK
<1> QED BY <1>1, <1>2, <1>3

\* Every step is one of these.
LEMMA FramesStep == Shape /\ [Next]_vars => Frames
<1> SUFFICES ASSUME Shape, [Next]_vars PROVE Frames
  OBVIOUS
<1> USE DEF Shape, Frames, Silent, Writes, Ends, Loop, Scanning, BodyKinds, Pcs
<1>0. pc \in Pcs
  BY DEF TypeOK
<1>1. \A k \in Kinds : \A span \in {{}, unit} :
        /\ Written(k, span) => Wrote(k, span)
        /\ stream' = Append(stream, [Envelope(k, span) EXCEPT !.bare = cancel]) => Wrote(k, span)
  BY WrittenWrote
<1>2. CASE Drain
  BY <1>0, <1>1, <1>2 DEF Drain, Quiet, WriteFails, Finish, Advance, Goto, Kinds
<1>3. CASE ScanEmit
  BY <1>1, <1>3 DEF ScanEmit, Goto, Kinds
<1>4. CASE Close
  BY <1>1, <1>4 DEF Close, WriteFails, Finish, Kinds
<1>5. CASE HandleKernel
  BY <1>1, <1>5 DEF HandleKernel, WriteFails, Finish, Advance, Goto, Kinds
<1>6. CASE OpenRun
  BY <1>0, <1>1, <1>6 DEF OpenRun, WriteFails, Goto, Finish, Kinds
<1>7. CASE MakePlan
  BY <1>0, <1>1, <1>7 DEF MakePlan, WriteFails, Goto, Finish, Kinds
<1>8. CASE Abort
  BY <1>0, <1>1, <1>8 DEF Abort, WriteFails, Goto, Finish, Kinds
<1>9. CASE Fatal
  BY <1>0, <1>1, <1>9 DEF Fatal, WriteFails, Goto, Finish, Kinds
<1>10. CASE Bail
  BY <1>0, <1>1, <1>10 DEF Bail, WriteFails, Goto, Finish, Kinds
<1>11. CASE Interrupt \/ Stopped \/ Enter \/ DetectGaps \/ ReaderFails
  BY <1>0, <1>11
     DEF Interrupt, Stopped, Enter, DetectGaps, ReaderFails, Quiet, Goto, Finish, Advance, vars
<1>12. CASE Split \/ NextSubRange \/ Load \/ CacheFails \/ NextPreload \/ Preload \/ Fuse
  BY <1>0, <1>12
     DEF Split, NextSubRange, Load, CacheFails, NextPreload, Preload, Fuse, Quiet, Goto, Finish,
         Advance, vars
<1>13. CASE ScanPoll \/ ScanReturn \/ HandleOk \/ HandleCancelled \/ HandleFatal
  BY <1>0, <1>13
     DEF ScanPoll, ScanDone, ScanReturn, HandleOk, HandleCancelled, HandleFatal, Quiet, Goto,
         Finish, Advance, vars
<1>14. CASE UNCHANGED vars
  BY <1>14 DEF vars
<1> QED BY <1>2, <1>3, <1>4, <1>5, <1>6, <1>7, <1>8, <1>9, <1>10, <1>11, <1>12, <1>13, <1>14
           DEF Next, Runner

\* The body stays open until the runner goes to one of its ends.
LEMMA FramedStep ==
  ASSUME Shape, Prelude, Framed, [Next]_vars
  PROVE  Framed'
<1> USE DEF Framed, Loop, Scanning
<1>a. Frames /\ TypeOK
  BY FramesStep DEF Shape
<1>b. ASSUME NEW k \in Kinds, NEW span, Wrote(k, span)
      PROVE  stream' # <<>> /\ stream'[Len(stream')].kind = k
  BY <1>a, <1>b, WroteGrown, Zenon
<1>c. pc \in {"detect", "dispatch"} => stream # <<>> /\ stream[Len(stream)].kind = "RunStart"
  BY <1>a, OnlyRunStart
<1>1. CASE Silent
  BY <1>1, <1>c DEF Silent
<1>2. ASSUME NEW k \in Kinds, Writes(k), k \in BodyKinds \cup {"RunStart"} \/ pc' = "close"
      PROVE  Framed'
  BY <1>2, <1>b DEF Writes
<1>3. ASSUME NEW from, NEW outcomes, Ends(from, outcomes), "none" \notin outcomes
      PROVE  Framed'
  BY <1>3 DEF Ends
<1> QED BY <1>a, <1>1, <1>2, <1>3 DEF Frames, Kinds, BodyKinds

----------------------------------------------------------------------------
(* The inductive invariant. *)

LEMMA InitInv == Init => IndInv
<1> SUFFICES ASSUME Init PROVE IndInv
  OBVIOUS
<1>1. Shape
  BY InitShape
<1>2. stream = <<>> /\ pc = "enter" /\ DOMAIN stream = {}
  BY DEF Init
<1>3. \A k : CountOf(stream, k) = 0 /\ Over(k) = {}
  <2>1. \A k : {i \in DOMAIN stream : stream[i].kind = k} = {}
    BY <1>2
  <2>2. Cardinality({}) = 0
    BY FS_EmptySet
  <2> QED BY <2>1, <2>2 DEF CountOf, Over
<1>4. Counted
  BY <1>2, <1>3 DEF Init, Counted, Uncounted, Scanning, Returned
<1>5. ErrorsBehind /\ ResultsBehind /\ Apart /\ Answers /\ Delivering
  BY <1>2, <1>3 DEF Init, ErrorsBehind, ResultsBehind, Apart, Answers, Delivering, Delivered,
                    Loop, Scanning
<1>6. Prelude /\ FusedWhole
  BY <1>2 DEF Prelude, FusedWhole
<1>7. Framed
  BY <1>2 DEF Init, Framed, Loop, Scanning
<1> QED BY <1>1, <1>4, <1>5, <1>6, <1>7 DEF IndInv, Shape

LEMMA NextInv == IndInv /\ [Next]_vars => IndInv'
<1> SUFFICES ASSUME IndInv, [Next]_vars PROVE IndInv'
  OBVIOUS
<1>1. Shape /\ Prelude /\ Counted /\ Placed /\ Delivering /\ FusedWhole /\ Framed
  BY DEF IndInv, Shape, Placed
<1>2. Shape' /\ Prelude' /\ Counted' /\ Placed' /\ Delivering' /\ FusedWhole' /\ Framed'
  BY <1>1, ShapeStep, PreludeStep, CountedStep, PlacedStep, DeliveringStep, FusedStep, FramedStep
<1> QED BY <1>2 DEF IndInv, Shape, Placed

LEMMA EngineInv == Spec => []IndInv
BY InitInv, NextInv, PTL DEF Spec

----------------------------------------------------------------------------
(* What follows for every run. *)

\* A sub-range is over a kind when an envelope of that kind stands for it.
LEMMA OnOver == \A i, k : On(i, k) # {} <=> i \in Over(k)
BY DEF On, Over

\* Every variable keeps its type, within the bounds of the sub-ranges and of a scan's Results.
THEOREM EngineTypeOK == Spec => []TypeOK
<1>1. IndInv => TypeOK
  BY DEF IndInv
<1> QED BY <1>1, EngineInv, PTL

\* RunEnd's summary counts the stream it closes.
THEOREM EngineCountersMatch == Spec => []CountersMatch
<1>1. IndInv => CountersMatch
  <2> SUFFICES ASSUME IndInv, Returned PROVE CountersMatch
    BY DEF CountersMatch
  <2>1. Counted /\ TypeOK
    BY DEF IndInv
  <2>2. Uncounted = 0
    BY DEF Returned, Uncounted, Scanning
  <2>3. summary.results \in Nat
    BY <2>1 DEF TypeOK
  <2> QED BY <2>1, <2>2, <2>3 DEF Counted, CountersMatch
<1> QED BY <1>1, EngineInv, PTL

\* HadScanErrors is returned exactly when there is a ScanError on the stream.
THEOREM EngineOutcomeMatches == Spec => []OutcomeMatches
<1>1. IndInv => OutcomeMatches
  BY DEF IndInv, Counted, OutcomeMatches
<1> QED BY <1>1, EngineInv, PTL

\* A run that was not cancelled closes with an answer for every sub-range, and a
\* SIGINT drops no Result of a scan.run that returned Ok.
THEOREM EngineAccounted == Spec => []Accounted
<1>1. IndInv => NoneSilenced
  <2> SUFFICES ASSUME IndInv, pc = "close", ~cancel, req.shape # "breaks", NEW i \in 1..nsub
               PROVE  On(i, "Result") \cup On(i, "ScanError") # {}
    BY DEF NoneSilenced
  <2>1. i \in Over("Result") \cup Over("ScanError")
    BY DEF IndInv, Answers, Answered
  <2> QED BY <2>1, OnOver
<1>2. IndInv => Accounted
  BY <1>1 DEF IndInv, Delivering, Accounted
<1> QED BY <1>2, EngineInv, PTL

\* A coalesced scan sees every sub-range or does not run.
THEOREM EngineFusedWhole == Spec => []FusedWhole
<1>1. IndInv => FusedWhole
  BY DEF IndInv
<1> QED BY <1>1, EngineInv, PTL

\* With hygiene active no sub-range has a Result beside its ScanError.
THEOREM EngineDroppedOnFailure == Spec => []DroppedOnFailure
<1>1. IndInv => DroppedOnFailure
  <2> SUFFICES ASSUME IndInv, req.hygiene, NEW i \in 1..nsub
               PROVE  On(i, "Result") = {} \/ On(i, "ScanError") = {}
    BY DEF DroppedOnFailure
  <2>1. ~(i \in Over("Result") /\ i \in Over("ScanError"))
    BY DEF IndInv, Apart
  <2> QED BY <2>1, OnOver
<1> QED BY <1>1, EngineInv, PTL

----------------------------------------------------------------------------
(* The engine implements the framing contract of RunStream. *)

\* The initial states are initial states of RunStream.
LEMMA FramingInit == Init => Framing!Init
<1> SUFFICES ASSUME Init PROVE Framing!Init
  OBVIOUS
<1>1. KindsOf(stream) = <<>>
  BY DEF Init, KindsOf
<1> QED BY <1>1 DEF Init, Framing!Init

\* A write appends its kind to the kinds.
LEMMA OutGrown ==
  ASSUME TypeOK, NEW k, NEW span, Wrote(k, span)
  PROVE  KindsOf(stream)' = Append(KindsOf(stream), k)
<1>1. PICK e \in Env : e.kind = k /\ stream' = Append(stream, e)
  BY DEF Wrote
<1>2. stream \in Seq(Env)
  BY DEF TypeOK, Env
<1> QED BY <1>1, <1>2 DEF KindsOf

\* Every step of the engine is a step of RunStream or leaves it alone.
LEMMA FramingStep == IndInv /\ [Next]_vars => [Framing!Next]_Framing!vars
<1> SUFFICES ASSUME IndInv, [Next]_vars
             PROVE  [Framing!Next]_Framing!vars
  OBVIOUS
<1> DEFINE out == KindsOf(stream)
           fate == CASE outcome = "none" -> "running"
                     [] outcome \in {"Ok", "HadScanErrors"} -> "returned"
                     [] OTHER -> "failed"
<1>a. TypeOK /\ Frames /\ Framed /\ Prelude
  BY FramesStep DEF IndInv, Shape
<1>b. stream' = stream => out' = out
  OBVIOUS
<1>c. \A k, span : Wrote(k, span) => out' = Append(out, k)
  BY <1>a, OutGrown
<1>d. stream # <<>> => out # <<>> /\ out[Len(out)] = stream[Len(stream)].kind
  <2>1. DOMAIN out = DOMAIN stream /\ \A j \in DOMAIN stream : out[j] = stream[j].kind
    BY DEF KindsOf
  <2> QED BY <1>a, <2>1, LenProperties DEF TypeOK
<1>e. pc # "done" => fate = "running"
  BY <1>a DEF Framed
<1>f. outcome' = outcome => fate' = fate
  OBVIOUS
<1> HIDE DEF out, fate
<1>g. UNCHANGED <<out, fate>> => [Framing!Next]_Framing!vars
  BY DEF Framing!vars, out, fate
<1>1. CASE Silent
  BY <1>1, <1>b, <1>f, <1>g DEF Silent
<1>2. CASE stream' = stream /\ Ends({"enter"}, {"Ok"})
  <2>1. out = <<>>
    BY <1>a, <1>2 DEF Ends, Prelude, KindsOf, out
  <2>2. fate = "running" /\ fate' = "returned" /\ out' = out
    BY <1>2, <1>b, <1>e DEF Ends, fate
  <2>3. Framing!Leave
    BY <2>1, <2>2 DEF Framing!Leave, out, fate
  <2> QED BY <2>3 DEF Framing!Next, Framing!BodyKinds, BodyKinds
<1>3. CASE stream' = stream /\ Ends(Pcs \ {"done"}, {"Preflight", "SinkError"})
  <2>1. fate = "running" /\ fate' = "failed" /\ out' = out
    BY <1>3, <1>b, <1>e DEF Ends, fate
  <2>2. Framing!Fail
    BY <2>1 DEF Framing!Fail, out, fate
  <2> QED BY <2>2 DEF Framing!Next
<1>4. ASSUME NEW k, Writes(k)
      PROVE  Framing!Write(k)
  <2>1. fate = "running" /\ fate' = fate /\ out' = Append(out, k)
    BY <1>4, <1>c, <1>e, <1>f DEF Writes
  <2> QED BY <2>1 DEF Framing!Write, out, fate
<1>5. CASE pc = "open" /\ Writes("RunStart")
  <2>1. out = <<>>
    BY <1>a, <1>5 DEF Prelude, KindsOf, out
  <2>2. Framing!Open
    BY <1>4, <1>5, <2>1 DEF Framing!Open, out
  <2> QED BY <2>2 DEF Framing!Next
<1>6. CASE pc = "plan" /\ Writes("DryRun")
  <2>1. out = <<"RunStart">>
    BY <1>a, <1>6 DEF Prelude, out
  <2>2. Framing!Plan
    BY <1>4, <1>6, <2>1 DEF Framing!Plan, out
  <2> QED BY <2>2 DEF Framing!Next
<1>7. ASSUME pc \in Loop \cup {"dispatch", "fatal"}, NEW k \in BodyKinds, Writes(k)
      PROVE  Framing!Next
  <2>1. stream # <<>> /\ stream[Len(stream)].kind \in BodyKinds \cup {"RunStart"}
    BY <1>a, <1>7, OnlyRunStart DEF Framed, Loop, Scanning
  <2>2. Framing!InBody
    BY <1>d, <2>1 DEF Framing!InBody, Framing!Last, Framing!BodyKinds, BodyKinds, out
  <2>3. Framing!Body(k)
    BY <1>4, <1>7, <2>2 DEF Framing!Body
  <2> QED BY <2>3 DEF Framing!Next, Framing!BodyKinds, BodyKinds
<1>8. CASE /\ \E span \in {{}, unit} : Wrote("RunEnd", span)
           /\ Ends({"bail", "close"}, {"Ok", "HadScanErrors"})
  <2>1. out' = Append(out, "RunEnd")
    BY <1>8, <1>c
  <2>2. out # <<>>
    BY <1>8, <1>a, <1>d DEF Ends, Framed
  <2>3. fate = "running" /\ fate' = "returned"
    BY <1>8, <1>e DEF Ends, fate
  <2>4. Framing!Close
    BY <2>1, <2>2, <2>3 DEF Framing!Close, out, fate
  <2> QED BY <2>4 DEF Framing!Next
<1> QED BY <1>a, <1>1, <1>2, <1>3, <1>5, <1>6, <1>7, <1>8 DEF Frames

\* The stream of a run keeps the framing contract: RunStart, a plan or a body, RunEnd.
THEOREM EngineFraming == Spec => FramingKept
BY EngineInv, FramingInit, FramingStep, PTL DEF Spec, FramingKept, Framing!Spec

----------------------------------------------------------------------------
(* `miner scan`. *)

NumEnds == CountOf(stream, "RunEnd")

\* What a runner that has returned leaves behind.
Settled ==
  /\ NumEnds = IF Returned /\ stream # <<>> THEN 1 ELSE 0
  /\ Returned /\ stream = <<>> => cancel /\ outcome = "Ok"
  /\ outcome = "Preflight" => stream = <<>>
  /\ outcome = "Ok" /\ ~cancel /\ req.shape # "breaks" => Answered(1..nsub)

\* A Result goes out bare only behind the flag.
BareCut == \A j \in DOMAIN stream : stream[j].bare => cancel

RunInv == IndInv /\ Settled /\ BareCut

\* Where main is, and what that says of the runner.
Before == {"start", "parse", "config", "sink", "args"}
ProcInv ==
  /\ phase \in Before \cup {"run", "exit", "gone"}
  /\ phase \in Before => outcome = "none" /\ stream = <<>> /\ wires = 0
  /\ phase = "run" => wires = 0
  /\ phase \notin {"run", "gone"} \cup Before =>
       IF outcome = "none" THEN stream = <<>> /\ wires = 1
       ELSE wires = IF outcome = "Preflight" THEN 1 ELSE 0
  /\ phase # "gone" => exit = Proc!Running
  /\ phase = "gone" =>
       \/ outcome = "none" /\ stream = <<>> /\ exit = 130
       \/ outcome = "none" /\ stream = <<>> /\ exit = 2 /\ wires = 0
       \/ outcome = "none" /\ stream = <<>> /\ exit = 1 /\ wires \in {0, 1}
       \/ /\ outcome # "none" /\ exit = ComputeExitCode(cancel, outcome)
          /\ wires = IF outcome = "Preflight" THEN 1 ELSE 0

----------------------------------------------------------------------------
(* The runner. *)

LEMMA SettledStep ==
  ASSUME IndInv, Settled, [Next]_vars
  PROVE  Settled'
<1>a. Shape /\ TypeOK /\ Framed /\ Prelude /\ Frames
  BY FramesStep DEF IndInv, Shape
<1>b. ASSUME NEW k \in Kinds, NEW span, Wrote(k, span)
      PROVE  /\ NumEnds' = NumEnds + IF k = "RunEnd" THEN 1 ELSE 0
             /\ stream' # <<>>
  BY <1>a, <1>b, WroteGrown DEF Kinds, NumEnds
<1>c. NumEnds \in Nat /\ (stream' = stream => NumEnds' = NumEnds)
  BY <1>a, Counts DEF Kinds, NumEnds
<1>d. req' = req /\ (cancel => cancel') /\ (outcome = "none" <=> pc # "done")
  BY <1>a, Stays DEF Framed
<1>e. NumEnds = IF Returned /\ stream # <<>> THEN 1 ELSE 0
  BY DEF Settled
<1>1. NumEnds' = (IF Returned /\ stream # <<>> THEN 1 ELSE 0)'
  <2>1. CASE Silent
    BY <1>c, <1>d, <1>e, <2>1 DEF Silent, Returned
  <2>2. CASE stream' = stream /\ Ends({"enter"}, {"Ok"})
    BY <1>a, <1>c, <1>e, <2>2 DEF Ends, Returned, Prelude
  <2>3. CASE stream' = stream /\ Ends(Pcs \ {"done"}, {"Preflight", "SinkError"})
    BY <1>c, <1>e, <2>3 DEF Ends, Returned
  <2>4. ASSUME NEW k \in Kinds, Writes(k), k # "RunEnd"
        PROVE  NumEnds' = (IF Returned /\ stream # <<>> THEN 1 ELSE 0)'
    BY <1>b, <1>c, <1>e, <2>4 DEF Writes, Returned
  <2>5. CASE (\E span \in {{}, unit} : Wrote("RunEnd", span)) /\ Ends({"bail", "close"}, {"Ok", "HadScanErrors"})
    BY <1>b, <1>c, <1>e, <2>5 DEF Ends, Returned, Kinds
  <2> QED BY <1>a, <2>1, <2>2, <2>3, <2>4, <2>5 DEF Frames, Kinds, BodyKinds
<1>2. (Returned /\ stream = <<>> => cancel /\ outcome = "Ok")'
  <2>1. CASE Silent
    BY <1>d, <2>1 DEF Silent, Returned, Settled
  <2>2. CASE pc = "enter" /\ pc' = "done"
    BY <1>d, <2>2 DEF Next, Runner, vars, Stopped, Interrupt,
         Enter, Finish, Goto, Returned,
         OpenRun, MakePlan, DetectGaps, ReaderFails, Abort, Split,
         NextSubRange, Load, CacheFails, NextPreload, Preload, Fuse, ScanPoll, ScanEmit, ScanReturn, ScanDone,
         HandleOk, HandleCancelled, HandleKernel, HandleFatal, Drain, Fatal, Bail, Close
  <2>3. CASE Ends(Pcs \ {"done"}, {"Preflight", "SinkError"})
    BY <2>3 DEF Ends, Returned
  <2>4. ASSUME NEW k \in Kinds, NEW span, Wrote(k, span)
        PROVE  (Returned /\ stream = <<>> => cancel /\ outcome = "Ok")'
    BY <1>b, <2>4
  <2> QED BY <1>a, <2>1, <2>2, <2>3, <2>4 DEF Frames, Kinds, BodyKinds, Writes, Ends
<1>3. (outcome = "Preflight" => stream = <<>>)'
  <2>1. outcome' = "Preflight" => outcome = "Preflight" \/ (pc = "enter" /\ stream' = stream)
    BY DEF Next, Runner, vars, Stopped, Interrupt, Finish, Goto, WriteFails, Quiet, Advance,
         Enter, OpenRun, MakePlan, DetectGaps, ReaderFails, Abort, Split,
         NextSubRange, Load, CacheFails, NextPreload, Preload, Fuse, ScanPoll, ScanEmit, ScanReturn, ScanDone,
         HandleOk, HandleCancelled, HandleKernel, HandleFatal, Drain, Fatal, Bail, Close
  <2>2. outcome = "Preflight" => UNCHANGED stream
    BY <1>a, <1>d DEF Frames, Silent, Ends, Writes, Loop, Scanning
  <2> QED BY <1>a, <2>1, <2>2 DEF Settled, Prelude
<1>4. (outcome = "Ok" /\ ~cancel /\ req.shape # "breaks" => Answered(1..nsub))'
  <2> SUFFICES ASSUME outcome' = "Ok", ~cancel', req'.shape # "breaks"
               PROVE  Answered(1..nsub)'
    OBVIOUS
  <2>0. ~cancel /\ req.shape # "breaks"
    BY <1>d
  <2>1. CASE outcome = "Ok"
    <3>1. UNCHANGED <<stream, nsub>>
      BY <1>d, <2>1 DEF Next, Runner, vars, runVars, Stopped, Interrupt,
         Enter, OpenRun, MakePlan, DetectGaps, ReaderFails, Abort, Split,
         NextSubRange, Load, CacheFails, NextPreload, Preload, Fuse, ScanPoll, ScanEmit, ScanReturn, ScanDone,
         HandleOk, HandleCancelled, HandleKernel, HandleFatal, Drain, Fatal, Bail, Close
    <3> QED BY <2>0, <2>1, <3>1 DEF Settled, Answered, Over
  <2>2. CASE outcome # "Ok"
    <3>1. Close /\ Written("RunEnd", {})
      BY <1>d, <2>0, <2>2 DEF Next, Runner, vars, Stopped, Interrupt, Finish, Goto, WriteFails, Quiet, Advance,
         Enter, OpenRun, MakePlan, DetectGaps, ReaderFails, Abort, Split,
         NextSubRange, Load, CacheFails, NextPreload, Preload, Fuse, ScanPoll, ScanEmit, ScanReturn, ScanDone,
         HandleOk, HandleCancelled, HandleKernel, HandleFatal, Drain, Fatal, Bail, Close
    <3>2. nsub' = nsub /\ Answered(1..nsub)
      BY <2>0, <3>1 DEF Close, runVars, IndInv, Answers
    <3>3. Wrote("RunEnd", {})
      BY <1>a, <3>1, WrittenWrote DEF Kinds
    <3>4. Over("Result")' = Over("Result") /\ Over("ScanError")' = Over("ScanError")
      BY <1>a, <3>3, WroteGrown DEF Kinds
    <3> QED BY <3>2, <3>4 DEF Answered
  <2> QED BY <2>1, <2>2
<1> QED BY <1>1, <1>2, <1>3, <1>4 DEF Settled

LEMMA BareCutStep ==
  ASSUME TypeOK, BareCut, [Next]_vars
  PROVE  BareCut'
<1>1. CASE stream' = stream
  BY <1>1, Stays DEF BareCut
<1>2. CASE \E e \in Env : (e.bare => cancel) /\ stream' = Append(stream, e)
  <2>1. PICK e \in Env : (e.bare => cancel) /\ stream' = Append(stream, e)
    BY <1>2
  <2>2. stream \in Seq(Env)
    BY DEF TypeOK, Env
  <2>3. /\ DOMAIN stream' = DOMAIN stream \cup {Len(stream) + 1}
        /\ stream'[Len(stream) + 1] = e
        /\ \A j \in DOMAIN stream : stream'[j] = stream[j]
    BY <2>1, <2>2, Grown
  <2> QED BY <2>1, <2>3, Stays DEF BareCut
<1>3. stream' = stream \/ \E e \in Env : (e.bare => cancel) /\ stream' = Append(stream, e)
  <2>1. {} \in SUBSET (1..MaxSub) /\ unit \in SUBSET (1..MaxSub) /\ cancel \in BOOLEAN
    BY DEF TypeOK
  <2>2. \A k \in Kinds : \A span \in {{}, unit} :
          /\ Envelope(k, span) \in Env /\ ~Envelope(k, span).bare
          /\ [Envelope(k, span) EXCEPT !.bare = cancel] \in Env
          /\ [Envelope(k, span) EXCEPT !.bare = cancel].bare = cancel
    BY <2>1, EnvelopeTyped DEF Envelope
  <2> QED BY <2>2 DEF Next, vars, runVars, scanVars, Interrupt, Runner, Stopped,
     Quiet, Written, WriteFails, Kinds,
     Enter, OpenRun, MakePlan, DetectGaps, ReaderFails, Abort, Split,
     NextSubRange, Load, CacheFails, NextPreload, Preload, Fuse, ScanPoll, ScanEmit, ScanReturn,
     HandleOk, HandleCancelled, HandleKernel, HandleFatal, Drain, Fatal, Bail, Close
<1> QED BY <1>1, <1>2, <1>3

\* The flag may also rise when the runner has returned.
LEMMA SignalStep ==
  ASSUME RunInv, cancel' = TRUE,
         UNCHANGED <<req, pc, stream, summary, runVars, scanVars, legsLeft, outcome>>
  PROVE  RunInv'
<1> USE DEF RunInv, IndInv, runVars, scanVars
<1>1. TypeOK'
  BY DEF TypeOK
<1>2. Place' /\ Emission' /\ Prelude'
  BY DEF Place, Emission, Prelude, Coalescing, EmitLimit
<1>3. Counted'
  BY DEF Counted, Uncounted, Returned
<1>4. ErrorsBehind' /\ ResultsBehind' /\ Apart' /\ Answers'
  BY DEF ErrorsBehind, ResultsBehind, Apart, Answers, Answered, Over, Behind, Coalescing
<1>5. Delivering' /\ FusedWhole' /\ Framed'
  BY DEF Delivering, Delivered, OfUnit, Over, Behind, FusedWhole, Framed, Coalescing
<1>6. Settled' /\ BareCut'
  BY DEF Settled, NumEnds, BareCut, Returned, Answered, Over
<1> QED BY <1>1, <1>2, <1>3, <1>4, <1>5, <1>6

----------------------------------------------------------------------------
(* The process. *)

LEMMA CmdInitInv == CmdInit => RunInv /\ ProcInv
<1> SUFFICES ASSUME CmdInit PROVE RunInv /\ ProcInv
  OBVIOUS
<1>1. Init /\ ~cancel /\ stream = <<>> /\ outcome = "none" /\ phase = "start"
      /\ wires = 0 /\ exit = Proc!Running
  BY DEF CmdInit, Init, Proc!ProcInit
<1>2. NumEnds = 0
  <2>1. {i \in DOMAIN stream : stream[i].kind = "RunEnd"} = {}
    BY <1>1
  <2> QED BY <2>1, FS_EmptySet DEF NumEnds, CountOf
<1>3. Settled /\ BareCut
  BY <1>1, <1>2 DEF Settled, BareCut, Returned
<1>4. ProcInv
  BY <1>1 DEF ProcInv, Before
<1> QED BY <1>1, <1>3, <1>4, InitInv DEF RunInv

LEMMA RunStep == RunInv /\ [CmdNext]_allVars => RunInv'
<1> SUFFICES ASSUME RunInv, [CmdNext]_allVars PROVE RunInv'
  OBVIOUS
<1>1. CASE [Next]_vars
  BY <1>1, NextInv, SettledStep, BareCutStep DEF RunInv, IndInv
<1>2. CASE CmdSignal
  BY <1>2, SignalStep DEF CmdSignal, Proc!Signal
<1> QED BY <1>1, <1>2 DEF CmdNext, CmdRunner, CmdProcess, CmdGone, allVars, Next

LEMMA ProcStep == RunInv /\ ProcInv /\ [CmdNext]_allVars => ProcInv'
<1> SUFFICES ASSUME RunInv, ProcInv, [CmdNext]_allVars PROVE ProcInv'
  OBVIOUS
<1> USE DEF ProcInv, Before
<1>1. CASE CmdRunner
  BY <1>1 DEF CmdRunner
<1>2. CASE CmdSignal
  BY <1>2 DEF CmdSignal, Proc!Signal, Proc!procVars
<1>3. CASE Proc!ProcStep /\ UNCHANGED vars
  <2>1. UNCHANGED <<stream, outcome, cancel>>
    BY <1>3 DEF vars
  <2>2. CASE Proc!Exit
    BY <2>1, <2>2 DEF Proc!Exit, Proc!Leave, Proc!Result, Proc!ComputeExitCode, ComputeExitCode
  <2>3. CASE Proc!TakeOutcome
    BY <2>1, <2>3 DEF Proc!TakeOutcome, Proc!Become
  <2>4. CASE Proc!Install \/ Proc!Parse \/ Proc!Configure \/ Proc!OpenSink \/ Proc!TakeArgs
    BY <2>1, <2>4 DEF Proc!Install, Proc!Parse, Proc!Configure, Proc!OpenSink, Proc!TakeArgs,
                      Proc!Become, Proc!Leave
  <2> QED BY <1>3, <2>2, <2>3, <2>4 DEF Proc!ProcStep
<1>4. CASE UNCHANGED allVars
  BY <1>4 DEF allVars, vars
<1> QED BY <1>1, <1>2, <1>3, <1>4 DEF CmdNext, CmdProcess, CmdGone

LEMMA CmdInv == CmdSpec => [](RunInv /\ ProcInv)
BY CmdInitInv, RunStep, ProcStep, PTL DEF CmdSpec

\* Behind a clean return nothing is unanswered: no ScanError, and a Result for every
\* sub-range, unless the flag is up.
LEMMA CleanReturn ==
  ASSUME RunInv, outcome = "Ok", ~cancel
  PROVE  /\ CountOf(stream, "ScanError") = 0
         /\ NumEnds = 1
         /\ req.shape # "breaks" => \A i \in 1..nsub : On(i, "Result") # {}
<1> USE DEF RunInv, IndInv
<1>1. Returned
  BY DEF Framed, Returned
<1>2. CountOf(stream, "ScanError") = 0
  <2>1. ~(summary.errors > 0) /\ summary.errors = CountOf(stream, "ScanError")
    BY <1>1 DEF Counted
  <2> QED BY <2>1, Counts DEF Kinds
<1>3. NumEnds = 1
  BY <1>1 DEF Settled
<1>4. Over("ScanError") = {}
  <2> DEFINE Errors == {j \in DOMAIN stream : stream[j].kind = "ScanError"}
  <2>1. IsFiniteSet(Errors)
    <3>1. IsFiniteSet(1..Len(stream)) /\ DOMAIN stream = 1..Len(stream)
      BY FS_Interval, LenProperties DEF TypeOK
    <3> QED BY <3>1, FS_Subset
  <2>2. Errors = {}
    BY <1>2, <2>1, FS_EmptySet DEF CountOf
  <2> QED BY <2>2 DEF Over
<1>5. ASSUME req.shape # "breaks", NEW i \in 1..nsub
      PROVE  On(i, "Result") # {}
  <2>1. i \in Over("Result")
    BY <1>4, <1>5 DEF Settled, Answered
  <2> QED BY <2>1, OnOver
<1> QED BY <1>2, <1>3, <1>5

\* The exit code tells what is on stdout and on stderr, for every bound, every set of
\* requests and every moment of a SIGINT.
THEOREM ScanExitCodes == CmdSpec => []ExitCodes
<1>1. ASSUME RunInv, ProcInv PROVE ExitCodes
  <2> USE <1>1
  <2>0. /\ outcome \in RunOutcomes \cup {"none"}
        /\ NumEnds = IF Returned /\ stream # <<>> THEN 1 ELSE 0
        /\ Returned <=> outcome \in {"Ok", "HadScanErrors"}
        /\ Returned /\ stream = <<>> => cancel /\ outcome = "Ok"
        /\ outcome = "Preflight" => stream = <<>>
    BY DEF RunInv, IndInv, TypeOK, Settled, Framed, Returned
  <2>1. phase # "gone" => exit = 999
    BY DEF ProcInv, Proc!Running
  <2>2. ExitZero
    <3> SUFFICES ASSUME exit = 0 PROVE ExitZero
      BY DEF ExitZero
    <3>1. outcome = "Ok" /\ ~cancel /\ wires = 0
      BY <2>0, <2>1 DEF ProcInv, ComputeExitCode, RunOutcomes
    <3> QED BY <3>1, CleanReturn DEF ExitZero, NumEnds
  <2>3. ExitTwo
    <3> SUFFICES ASSUME exit = 2 PROVE ExitTwo
      BY DEF ExitTwo
    <3>1. \/ stream = <<>> /\ wires = 0
          \/ outcome = "HadScanErrors" /\ ~cancel
      BY <2>0, <2>1 DEF ProcInv, ComputeExitCode, RunOutcomes
    <3>2. CASE outcome = "HadScanErrors"
      <4>1. Returned /\ stream # <<>> /\ NumEnds = 1
        BY <2>0, <3>2
      <4>2. CountOf(stream, "ScanError") > 0
        BY <3>2, <4>1 DEF RunInv, IndInv, Counted
      <4> QED BY <4>1, <4>2 DEF ExitTwo, NumEnds
    <3> QED BY <3>1, <3>2 DEF ExitTwo
  <2>4. ExitOne
    <3> SUFFICES ASSUME exit = 1 PROVE ExitOne
      BY DEF ExitOne
    <3>1. \/ outcome = "none" /\ stream = <<>>
          \/ outcome = "Preflight" /\ wires = 1
          \/ outcome = "SinkError" /\ wires = 0
      BY <2>0, <2>1 DEF ProcInv, ComputeExitCode, RunOutcomes
    <3>2. outcome \in {"none", "SinkError"} => NumEnds = 0
      BY <2>0
    <3> QED BY <2>0, <3>1, <3>2 DEF ExitOne, NumEnds
  <2>5. CutExits130
    <3> SUFFICES ASSUME phase = "gone" PROVE CutExits130
      BY DEF CutExits130
    <3>1. outcome # "none" => exit = ComputeExitCode(cancel, outcome)
      BY DEF ProcInv
    <3>2. outcome # "none" /\ cancel => exit = 130
      BY <3>1 DEF ComputeExitCode
    <3>3. ASSUME NEW j \in DOMAIN stream, stream[j].bare PROVE cancel
      BY <3>3 DEF RunInv, BareCut
    <3> QED BY <3>2, <3>3, CleanReturn DEF CutExits130
  <2> QED BY <2>2, <2>3, <2>4, <2>5 DEF ExitCodes
<1> QED BY <1>1, CmdInv, PTL

\* The process implements the framing contract as its runner does.
THEOREM ScanFraming == CmdSpec => FramingKept
<1>1. CmdInit => Framing!Init
  BY FramingInit DEF CmdInit
<1>2. RunInv /\ [CmdNext]_allVars => [Framing!Next]_Framing!vars
  <2> SUFFICES ASSUME RunInv, [CmdNext]_allVars PROVE [Framing!Next]_Framing!vars
    OBVIOUS
  <2>1. CASE [Next]_vars
    BY <2>1, FramingStep DEF RunInv
  <2>2. CASE CmdSignal
    BY <2>2 DEF CmdSignal, Framing!vars, KindsOf
  <2> QED BY <2>1, <2>2 DEF CmdNext, CmdRunner, CmdProcess, CmdGone, allVars, Next
<1> QED BY <1>1, <1>2, CmdInv, PTL DEF CmdSpec, FramingKept, Framing!Spec

----------------------------------------------------------------------------
(* The end of the process. *)

\* How far main, the runner and the running scan.run are from their ends, the slowest
\* hand first: the place of main, the part of the run, the legs or the sub-ranges to come,
\* the place in the round of one sub-range, what is to be emitted or drained, the SIGINT.
Main == CASE phase = "start"  -> 7 [] phase = "parse" -> 6 [] phase = "config" -> 5
          [] phase = "sink"   -> 4 [] phase = "args"  -> 3 [] phase = "run"    -> 2
          [] phase = "exit"   -> 1 [] OTHER -> 0
Part == CASE pc = "enter"    -> 8
          [] pc = "open"     -> 7
          [] pc \in {"plan", "detect"} -> 6
          [] pc = "dispatch" -> 5
          [] pc \in {"preload", "preloading", "fuse"} -> 4
          [] pc \in {"loop", "load", "drain"} \cup Scanning -> 3
          [] pc \in {"close", "fatal"} -> 2
          [] pc = "bail"     -> 1
          [] OTHER -> 0
ToCome == IF pc = "detect" THEN legsLeft ELSE MaxSub + 1 - sub
Round == CASE pc \in {"loop", "preload"} -> 5
           [] pc \in {"load", "preloading"} -> 4
           [] pc \in {"scan", "emit"} -> 3
           [] pc = "handle" -> 2
           [] pc = "drain"  -> 1
           [] OTHER -> 0
Unsaid == CASE pc = "scan"  -> 2 * (MaxEmit - emitted) + 1
            [] pc = "emit"  -> 2 * (MaxEmit - emitted)
            [] pc = "drain" -> buffered
            [] OTHER -> 0
Clock == <<Main, Part, ToCome, Round, Unsaid, IF cancel THEN 0 ELSE 1>>

\* The clocks, and the order in which they run down.
Clocks == [1..6 -> Nat]
Descent == LexProductOrdering({p \in Nat \X Nat : p[1] < p[2]}, Nat, 6)

\* A step runs the clock down.
Tick == <<Clock', Clock>> \in Descent

\* No clock runs down for ever.
LEMMA DescentEnds == IsWellFoundedOn(Descent, Clocks)
<1>1. IsWellFoundedOn({p \in Nat \X Nat : p[1] < p[2]}, Nat)
  BY NatLessThanWellFounded DEF OpToRel
<1> QED BY <1>1, WFLexProductOrdering, Zenon DEF Descent, Clocks

\* A clock runs down when one hand falls and the slower ones stand.
FallsAt(a, b, i) == a[i] < b[i] /\ \A j \in 1..6 : j < i => a[j] = b[j]

LEMMA RunsDown ==
  ASSUME NEW a \in Clocks, NEW b \in Clocks, NEW i \in 1..6, FallsAt(a, b, i)
  PROVE  <<a, b>> \in Descent
<1>0. a[i] < b[i] /\ \A j \in 1..6 : j < i => a[j] = b[j]
  BY DEF FallsAt
<1>1. \A j \in 1..(i - 1) : a[j] = b[j]
  BY <1>0
<1>2. a[i] \in Nat /\ b[i] \in Nat
  BY DEF Clocks
<1>3. <<a[i], b[i]>> \in {p \in Nat \X Nat : p[1] < p[2]}
  BY <1>0, <1>2
<1> QED BY <1>1, <1>3 DEF Descent, LexProductOrdering, Clocks

LEMMA ClockType == RunInv /\ ProcInv => Clock \in Clocks
<1> SUFFICES ASSUME RunInv, ProcInv PROVE Clock \in Clocks
  OBVIOUS
<1>0. /\ MaxSub \in Nat /\ MaxEmit \in Nat /\ legsLeft \in Nat
      /\ sub \in 0..(MaxSub + 1) /\ emitted \in 0..MaxEmit /\ buffered \in Nat
  BY EngineAssumption DEF RunInv, IndInv, TypeOK
<1>1. Main \in Nat
  BY DEF Main
<1>2. Part \in Nat
  BY DEF Part
<1>3. ToCome \in Nat
  BY <1>0 DEF ToCome
<1>4. Round \in Nat
  BY DEF Round
<1>5. Unsaid \in Nat
  BY <1>0 DEF Unsaid
<1>6. (IF cancel THEN 0 ELSE 1) \in Nat
  OBVIOUS
<1> QED BY <1>1, <1>2, <1>3, <1>4, <1>5, <1>6 DEF Clock, Clocks

\* What a step of the runner leaves of its hands.
LEMMA RunnerFalls ==
  ASSUME RunInv, Runner, TypeOK'
  PROVE  \/ Part' < Part
         \/ Part' = Part /\ ToCome' < ToCome
         \/ Part' = Part /\ ToCome' = ToCome /\ Round' < Round
         \/ Part' = Part /\ ToCome' = ToCome /\ Round' = Round /\ Unsaid' < Unsaid
<1>0. /\ MaxSub \in Nat /\ MaxEmit \in Nat
      /\ sub \in 0..(MaxSub + 1) /\ emitted \in 0..MaxEmit
      /\ sub' \in 0..(MaxSub + 1) /\ emitted' \in 0..MaxEmit
  BY EngineAssumption DEF RunInv, IndInv, TypeOK
<1>1. CASE Enter \/ OpenRun \/ MakePlan \/ ReaderFails \/ Abort \/ Split \/ CacheFails
           \/ Fuse \/ HandleCancelled \/ HandleFatal \/ Fatal \/ Bail \/ Close
  <2>1. Part' < Part
    BY <1>1 DEF Part, Scanning, Finish, Goto, WriteFails, Enter, OpenRun, MakePlan, ReaderFails,
         Abort, Split, CacheFails, Fuse, HandleCancelled, HandleFatal, Fatal, Bail, Close
  <2> QED BY <2>1
<1>2. CASE DetectGaps
  <2>1. pc = "detect" /\ legsLeft \in {1, 2} /\ legsLeft' = legsLeft - 1
        /\ pc' = IF legsLeft > 1 THEN "detect" ELSE "dispatch"
    BY <1>2 DEF DetectGaps, Goto, RunInv, IndInv, Place, Early
  <2>2. CASE legsLeft > 1
    <3>1. pc = "detect" /\ pc' = "detect" /\ legsLeft = 2 /\ legsLeft' = 1
      BY <2>1, <2>2
    <3>2. Part' = Part
      BY <3>1 DEF Part
    <3>3. ToCome' < ToCome
      BY <3>1 DEF ToCome
    <3> QED BY <3>2, <3>3
  <2>3. CASE ~(legsLeft > 1)
    BY <2>1, <2>3 DEF Part, Scanning
  <2> QED BY <2>2, <2>3
<1>3. CASE NextSubRange
  <2>1. pc = "loop" /\ pc' \in {"close", "load"} /\ sub' = sub
    BY <1>3 DEF NextSubRange, Goto, runVars
  <2> QED BY <2>1 DEF Part, ToCome, Round, Scanning
<1>4. CASE Load
  <2>1. pc = "load" /\ pc' = "scan" /\ sub' = sub
    BY <1>4 DEF Load, Goto, runVars
  <2> QED BY <2>1 DEF Part, ToCome, Round, Scanning
<1>5. CASE NextPreload
  <2>1. pc = "preload" /\ pc' \in {"fuse", "preloading"} /\ sub' = sub
    BY <1>5 DEF NextPreload, Goto, runVars
  <2> QED BY <2>1 DEF Part, ToCome, Round, Scanning
<1>6. CASE Preload
  <2>1. pc = "preloading" /\ pc' = "preload" /\ sub' = sub + 1
    BY <1>6 DEF Preload, Goto
  <2> QED BY <1>0, <2>1 DEF Part, ToCome, Scanning
<1>7. CASE ScanPoll
  <2>1. pc = "scan" /\ pc' \in {"handle", "emit"} /\ sub' = sub /\ emitted' = emitted
    BY <1>7 DEF ScanPoll, Goto, runVars
  <2> QED BY <1>0, <2>1 DEF Part, ToCome, Round, Unsaid, Scanning
<1>8. CASE ScanEmit
  <2>1. pc = "emit" /\ sub' = sub
        /\ (pc' = "handle" \/ (pc' \in {"scan", "emit"} /\ emitted' = emitted + 1))
    BY <1>8 DEF ScanEmit, Goto, runVars
  <2> QED BY <1>0, <2>1 DEF Part, ToCome, Round, Unsaid, Scanning
<1>9. CASE ScanReturn
  <2>1. pc \in {"scan", "emit"} /\ pc' = "handle" /\ sub' = sub
    BY <1>9 DEF ScanReturn, ScanDone, Goto, runVars
  <2> QED BY <2>1 DEF Part, ToCome, Round, Scanning
<1>10. CASE HandleOk \/ HandleKernel \/ (Drain /\ buffered = 0)
  <2>1. pc \in {"handle", "drain"}
        /\ \/ pc = "handle" /\ pc' = "drain" /\ sub' = sub
           \/ pc' \in {"close", "done"}
           \/ pc' = "loop" /\ sub' = sub + 1
    BY <1>10 DEF HandleOk, HandleKernel, Drain, Advance, Goto, Finish, WriteFails
  <2> QED BY <1>0, <2>1 DEF Part, ToCome, Round, Scanning
<1>11. CASE Drain /\ buffered # 0
  <2>1. pc = "drain" /\ buffered \in Nat
        /\ (pc' = "done" \/ (pc' = pc /\ sub' = sub /\ buffered' = buffered - 1))
    BY <1>11 DEF Drain, Finish, WriteFails, RunInv, IndInv, TypeOK
  <2> QED BY <2>1 DEF Part, ToCome, Round, Unsaid, Scanning
<1> QED BY <1>1, <1>2, <1>3, <1>4, <1>5, <1>6, <1>7, <1>8, <1>9, <1>10, <1>11 DEF Runner

\* And what a step of the process leaves of the clock.
LEMMA ClockFalls ==
  ASSUME RunInv, RunInv', CmdNext, Clock \in Clocks, Clock' \in Clocks
  PROVE  Tick \/ UNCHANGED allVars
<1>1. Clock \in Clocks /\ Clock' \in Clocks
  OBVIOUS
<1>2. /\ Clock[1] = Main /\ Clock[2] = Part /\ Clock[3] = ToCome
      /\ Clock[4] = Round /\ Clock[5] = Unsaid /\ Clock[6] = IF cancel THEN 0 ELSE 1
  BY DEF Clock
<1>3. /\ Clock'[1] = Main' /\ Clock'[2] = Part' /\ Clock'[3] = ToCome'
      /\ Clock'[4] = Round' /\ Clock'[5] = Unsaid' /\ Clock'[6] = IF cancel' THEN 0 ELSE 1
  BY DEF Clock
<1> HIDE DEF Clock
<1>4. CASE CmdRunner
  <2>1. Main' = Main
    BY <1>4 DEF CmdRunner, Main
  <2>2. \/ Part' < Part
        \/ Part' = Part /\ ToCome' < ToCome
        \/ Part' = Part /\ ToCome' = ToCome /\ Round' < Round
        \/ Part' = Part /\ ToCome' = ToCome /\ Round' = Round /\ Unsaid' < Unsaid
    BY <1>4, RunnerFalls DEF CmdRunner, RunInv, IndInv
  <2>3. \E i \in 2..5 : FallsAt(Clock', Clock, i)
    <3>1. ASSUME NEW j \in 1..6 PROVE j \in {1, 2, 3, 4, 5, 6}
      OBVIOUS
    <3> QED BY <1>2, <1>3, <2>1, <2>2, <3>1 DEF FallsAt
  <2>9. <<Clock', Clock>> \in Descent
    BY <1>1, <2>3, RunsDown
  <2> QED BY <2>9 DEF Tick
<1>5. CASE CmdProcess
  <2>1. Main' < Main
    BY <1>5 DEF CmdProcess, Main, Proc!ProcStep, Proc!Install, Proc!Parse, Proc!Configure,
         Proc!OpenSink, Proc!TakeArgs, Proc!TakeOutcome, Proc!Exit, Proc!Leave, Proc!Become
  <2>2. FallsAt(Clock', Clock, 1)
    BY <1>2, <1>3, <2>1 DEF FallsAt
  <2>9. <<Clock', Clock>> \in Descent
    BY <1>1, <2>2, RunsDown
  <2> QED BY <2>9 DEF Tick
<1>6. CASE CmdSignal
  <2>1. ~cancel /\ cancel' /\ Main' = Main /\ Part' = Part /\ ToCome' = ToCome
        /\ Round' = Round /\ Unsaid' = Unsaid
    BY <1>6 DEF CmdSignal, Proc!Signal, Proc!procVars, Main, Part, ToCome, Round, Unsaid,
         runVars, scanVars
  <2>2. FallsAt(Clock', Clock, 6)
    <3>1. ASSUME NEW j \in 1..6 PROVE j \in {1, 2, 3, 4, 5, 6}
      OBVIOUS
    <3> QED BY <1>2, <1>3, <2>1, <3>1 DEF FallsAt
  <2>9. <<Clock', Clock>> \in Descent
    BY <1>1, <2>2, RunsDown
  <2> QED BY <2>9 DEF Tick
<1>7. CASE CmdGone
  BY <1>7 DEF CmdGone
<1> QED BY <1>4, <1>5, <1>6, <1>7 DEF CmdNext

\* Whatever fails under it and whenever a SIGINT comes, the process takes only so many
\* steps: each runs a clock down that cannot run down for ever.  (That it is not stuck
\* before it has exited is for TLC: Exits.)
THEOREM ScanEnds ==
  /\ IsWellFoundedOn(Descent, Clocks)
  /\ CmdSpec => /\ [](Clock \in Clocks)
                /\ [][Tick]_allVars
<1>1. IsWellFoundedOn(Descent, Clocks)
  BY DescentEnds
<1>2. RunInv /\ ProcInv => Clock \in Clocks
  BY ClockType
<1>3. /\ RunInv /\ RunInv' /\ [CmdNext]_allVars
      /\ Clock \in Clocks /\ (Clock \in Clocks)'
      => [Tick]_allVars
  BY ClockFalls
<1> QED BY <1>1, <1>2, <1>3, CmdInv, PTL DEF CmdSpec
=============================================================================
