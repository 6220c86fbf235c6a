----------------------------- MODULE SweepProofs -----------------------------
(***************************************************************************)
(* Theorems about Sweep, for every number of jobs and threads, every work  *)
(* a job may leave and every assignment of scans to families: the types,   *)
(* the order of the stream, that a cut stream is a prefix of the whole one *)
(* and that a SweepSummary speaks for the whole sweep.                     *)
(*                                                                         *)
(* None of the three is inductive: each rests on where the drain stands,   *)
(* and on which buffers are whole when it takes one up.  IndInv says that. *)
(*                                                                         *)
(* The second part is the totals of SweepSummary and RunEnd, the outcome   *)
(* and the framing, all against the stream.  The drain counts a finding    *)
(* before it writes it, so that the totals are those of the stream but     *)
(* where the sink refused one.  Ledger says where that is; it rests on     *)
(* IndInv for the end of the drain.                                        *)
(*                                                                         *)
(* The third is the families of the summary: at each level the step-up     *)
(* test rejects those whose q-value is not above it (StepUp), and the      *)
(* entries of a family follow the stream one by one (Followed).            *)
(*                                                                         *)
(* The fourth is `miner sweep`, the process and its runner together: the   *)
(* exit code tells what the two streams hold and no run goes on for ever,  *)
(* for any number of jobs and threads and any moment of a SIGINT.          *)
(***************************************************************************)
EXTENDS SweepCommand, SequenceTheorems, FiniteSetTheorems, WellFoundedInduction, TLAPS

BeforeDrain == {"enter", "open", "expand", "cover", "fanout"}

\* Where the drain stands: nowhere before it begins, then inside a buffer.
Cursor ==
  /\ pc \in BeforeDrain => cur = 0 /\ fnd = 0
  /\ cur > 0 => fnd <= Len(buf[cur])

\* The pool has not been used before expand, and is done when the drain begins.
PoolPhase ==
  /\ pc \in {"enter", "open", "expand"} => \A j \in Jobs : status[j] = "waiting"
  /\ pc \in {"drain", "settle"} => AllDone

\* Buffers nothing interrupted.  Once one envelope was drained with the flag
\* down, all of them are, whatever the flag says later.
Whole == \A j \in Jobs : buf[j] = work[j]
Undisturbed ==
  /\ pc \in {"fanout", "drain", "settle"} /\ ~cancel =>
       \A j \in Jobs : status[j] = "done" => buf[j] = work[j]
  /\ pc = "summary" => Whole
  /\ Body # {} => Whole

\* The drain ran to its end unless the flag ended it.
RanOut == cur = N /\ JobDrained
DrainEnd ==
  /\ pc = "settle" => cancel \/ RanOut
  /\ pc = "summary" => RanOut

\* The envelopes of jobs on the stream are those up to the cursor.
Passed(j, i) == j < cur \/ (j = cur /\ i <= fnd)
OnlyPassed ==
  \A k \in Body : /\ stream[k].job \in Jobs
                  /\ stream[k].idx \in DOMAIN buf[stream[k].job]
                  /\ Passed(stream[k].job, stream[k].idx)
AllPassed ==
  \A j \in Jobs : \A i \in DOMAIN buf[j] : Passed(j, i) => OnStream(Finding(j, i))

IndInv ==
  /\ TypeOK
  /\ Cursor
  /\ PoolPhase
  /\ Undisturbed
  /\ DrainEnd
  /\ OnlyPassed
  /\ AllPassed
  /\ DrainOrder
  /\ SummaryComplete

----------------------------------------------------------------------------
(* Types. *)

LEMMA FramingType == \A k \in Kinds : Framing(k) \in Envelope
BY SweepAssumption DEF Framing, Envelope

LEMMA StreamGrows ==
  ASSUME TypeOK, NEW e \in Envelope
  PROVE  Append(stream, e) \in Seq(Envelope)
BY AppendProperties DEF TypeOK

\* An envelope the drain is about to write, and where it goes.
LEMMA NextFinding ==
  ASSUME TypeOK, Cursor, ~JobDrained
  PROVE  /\ cur \in Jobs
         /\ fnd + 1 \in DOMAIN buf[cur]
         /\ buf[cur][fnd + 1] \in Units
         /\ Finding(cur, fnd + 1) \in Envelope
<1>1. cur \in Jobs /\ fnd # Len(buf[cur])
  BY SweepAssumption DEF TypeOK, JobDrained, Jobs
<1>2. buf[cur] \in Seq(Units) /\ fnd < Len(buf[cur]) /\ fnd \in Nat
  <2>1. buf[cur] \in Seq(Units) /\ fnd \in Nat /\ cur > 0
    BY <1>1, SweepAssumption DEF TypeOK, Jobs
  <2>2. fnd <= Len(buf[cur]) /\ Len(buf[cur]) \in Nat
    BY <2>1, LenProperties DEF Cursor
  <2> QED BY <1>1, <2>1, <2>2
<1>3. fnd + 1 \in DOMAIN buf[cur] /\ buf[cur][fnd + 1] \in Units
  BY <1>2
<1>4. buf[cur][fnd + 1].kind \in Kinds
  BY <1>3 DEF Units, BodyKinds, Kinds
<1> QED
  BY <1>1, <1>2, <1>3, <1>4, SweepAssumption DEF Finding, Envelope, Jobs

LEMMA InitShape == Init => TypeOK /\ Cursor
BY SweepAssumption DEF Init, TypeOK, Cursor, Pcs, BeforeDrain, RunOutcomes, Families

LEMMA ShapeStep == TypeOK /\ Cursor /\ [Next]_vars => TypeOK' /\ Cursor'
<1> SUFFICES ASSUME TypeOK, Cursor, [Next]_vars
             PROVE  TypeOK' /\ Cursor'
  OBVIOUS
<1> USE SweepAssumption
<1>1. CASE Interrupt
  BY <1>1 DEF Interrupt, TypeOK, Cursor, Manifest, poolVars, drainVars
<1>2. CASE Enter
  BY <1>2 DEF Enter, Goto, Finish, TypeOK, Cursor, Manifest, poolVars, drainVars,
              Pcs, BeforeDrain, RunOutcomes
<1>3. CASE OpenRun
  <2>1. stream' \in Seq(Envelope)
    <3>1. Append(stream, Framing("RunStart")) \in Seq(Envelope)
      BY FramingType, StreamGrows DEF Kinds
    <3> QED BY <1>3, <3>1 DEF OpenRun, Written, WriteFails, TypeOK
  <2> QED BY <1>3, <2>1 DEF OpenRun, Written, WriteFails, Goto, Finish, TypeOK, Cursor,
              Manifest, poolVars, drainVars, Pcs, BeforeDrain, RunOutcomes
<1>4. CASE Expand
  BY <1>4 DEF Expand, Goto, Finish, TypeOK, Cursor, Manifest, poolVars, drainVars,
              Pcs, BeforeDrain, RunOutcomes
<1>5. CASE MakePlan
  <2>1. stream' \in Seq(Envelope)
    <3>1. Append(stream, Framing("DryRun")) \in Seq(Envelope)
      BY FramingType, StreamGrows DEF Kinds
    <3> QED BY <1>5, <3>1 DEF MakePlan, Written, WriteFails, TypeOK
  <2> QED BY <1>5, <2>1 DEF MakePlan, Written, WriteFails, Goto, Finish, TypeOK, Cursor,
              Manifest, poolVars, drainVars, Pcs, BeforeDrain, RunOutcomes
<1>6. ASSUME NEW j \in Jobs, Worker(j)
      PROVE  TypeOK' /\ Cursor'
  <2>1. CASE Cover(j)
    BY <2>1 DEF Cover, TypeOK, Cursor, Manifest, drainVars, BeforeDrain
  <2>2. CASE StartJob(j)
    BY <2>2 DEF StartJob, TypeOK, Cursor, Manifest, drainVars, BeforeDrain
  <2>3. CASE FinishJob(j)
    <3>1. \A b \in Prefixes(work[j]) \cup {work[j]} : b \in Seq(Units)
      <4>1. work[j] \in Seq(Units)
        BY DEF TypeOK
      <4>2. ASSUME NEW n \in 0..Len(work[j])
            PROVE  SubSeq(work[j], 1, n) \in Seq(Units)
        BY <4>1, SubSeqProperties
      <4> QED BY <4>1, <4>2 DEF Prefixes
    <3>2. PICK b \in Seq(Units) : buf' = [buf EXCEPT ![j] = b]
      BY <2>3, <3>1 DEF FinishJob
    <3>3. buf' \in [Jobs -> Seq(Units)]
      BY <3>2 DEF TypeOK
    <3>4. cur = 0 /\ fnd = 0
      BY <2>3 DEF FinishJob, Cursor, BeforeDrain
    <3> QED BY <2>3, <3>3, <3>4 DEF FinishJob, TypeOK, Cursor, Manifest, drainVars
  <2> QED BY <1>6, <2>1, <2>2, <2>3 DEF Worker
<1>7. CASE Join
  BY <1>7 DEF Join, Goto, TypeOK, Cursor, Manifest, poolVars, drainVars, Pcs, BeforeDrain
<1>8. CASE NextJob
  <2>1. CASE cur < N
    <3>1. totals' \in [jobs : Nat, results : Nat, errors : Nat, gaps : Nat]
      <4>1. totals \in [jobs : Nat, results : Nat, errors : Nat, gaps : Nat]
        BY DEF TypeOK
      <4>2. totals' = [totals EXCEPT !.jobs = @ + 1]
        BY <1>8, <2>1 DEF NextJob
      <4> QED BY <4>1, <4>2
    <3>2. cur' \in Jobs /\ fnd' = 0 /\ buf' = buf /\ pc' = "drain"
      BY <1>8, <2>1 DEF NextJob, TypeOK, poolVars, Jobs
    <3>3. Len(buf[cur']) \in Nat
      BY <3>2 DEF TypeOK
    <3>4. UNCHANGED <<work, dryRun, cancel, pc, status, buf, covered, stream, families,
                      outcome>>
      BY <1>8, <2>1 DEF NextJob, Manifest, poolVars
    <3>5. TypeOK'
      <4>1. cur' \in 0..N /\ fnd' \in Nat
        BY <3>2 DEF Jobs
      <4> QED BY <3>1, <3>4, <4>1 DEF TypeOK
    <3>6. Cursor'
      BY <3>2, <3>3 DEF Cursor, BeforeDrain
    <3> QED BY <3>5, <3>6
  <2>2. CASE ~(cur < N)
    BY <1>8, <2>2 DEF NextJob, Goto, TypeOK, Cursor, Manifest, poolVars, Pcs, BeforeDrain
  <2> QED BY <2>1, <2>2
<1>9. CASE DrainOne
  <2>1. CASE cancel
    BY <1>9, <2>1 DEF DrainOne, Goto, TypeOK, Cursor, Manifest, poolVars, Pcs, BeforeDrain
  <2>2. CASE ~cancel
    <3>1. ~JobDrained
      BY <1>9 DEF DrainOne
    <3> DEFINE u == buf[cur][fnd + 1]
    <3>2. u.kind \in BodyKinds
      BY <3>1, NextFinding DEF Units
    <3>3. totals' \in [jobs : Nat, results : Nat, errors : Nat, gaps : Nat]
      <4>1. CounterOf[u.kind] \in {"results", "errors", "gaps"}
        BY <3>2 DEF CounterOf, BodyKinds
      <4>2. totals' = [totals EXCEPT ![CounterOf[u.kind]] = @ + 1]
        BY <1>9, <2>2 DEF DrainOne, Tally
      <4>3. totals \in [jobs : Nat, results : Nat, errors : Nat, gaps : Nat]
        BY DEF TypeOK
      <4> QED BY <4>1, <4>2, <4>3
    <3>4. families' \in [Families -> Seq(Jobs \X Nat)]
      <4>1. <<cur, fnd + 1>> \in Jobs \X Nat
        BY <3>1, NextFinding DEF TypeOK
      <4>2. families \in [Families -> Seq(Jobs \X Nat)]
        BY DEF TypeOK
      <4>3. Scopes[cur] \in Families \/ Scopes[cur] = NoFamily
        BY <4>1 DEF Families
      <4>4. \A f \in Families : Append(families[f], <<cur, fnd + 1>>) \in Seq(Jobs \X Nat)
        BY <4>1, <4>2, AppendProperties
      <4>5. \/ families' = families
            \/ /\ Scopes[cur] # NoFamily
               /\ families' = [families EXCEPT ![Scopes[cur]] = Append(@, <<cur, fnd + 1>>)]
        BY <1>9, <2>2 DEF DrainOne, Scope
      <4> QED BY <4>2, <4>3, <4>4, <4>5
    <3>5. /\ fnd' \in {fnd, fnd + 1}
          /\ pc' \in {"drain", "giveup"}
          /\ outcome' = outcome
          /\ stream' \in {stream, Append(stream, Finding(cur, fnd + 1))}
      BY <1>9, <2>2 DEF DrainOne, Written, Goto
    <3>7. stream' \in Seq(Envelope)
      <4>1. stream \in Seq(Envelope)
        BY DEF TypeOK
      <4>2. Append(stream, Finding(cur, fnd + 1)) \in Seq(Envelope)
        BY <3>1, NextFinding, StreamGrows
      <4> QED BY <3>5, <4>1, <4>2
    <3>8. UNCHANGED <<work, dryRun, cancel, status, buf, covered, cur>>
      BY <1>9 DEF DrainOne, Manifest, poolVars
    <3>6. fnd < Len(buf[cur]) /\ fnd + 1 <= Len(buf[cur])
      <4>1. cur \in Jobs /\ fnd + 1 \in DOMAIN buf[cur]
        BY <3>1, NextFinding
      <4>2. buf[cur] \in Seq(Units) /\ fnd \in Nat
        BY <4>1 DEF TypeOK
      <4> QED BY <4>1, <4>2, LenProperties
    <3>9. TypeOK'
      BY <3>3, <3>4, <3>5, <3>7, <3>8 DEF TypeOK, Pcs
    <3>10. Cursor'
      BY <3>5, <3>6, <3>8 DEF Cursor, BeforeDrain
    <3> QED BY <3>9, <3>10
  <2> QED BY <2>1, <2>2
<1>10. CASE GiveUp
  <2>1. stream' \in Seq(Envelope)
    <3>1. Append(stream, Framing("RunEnd")) \in Seq(Envelope)
      BY FramingType, StreamGrows DEF Kinds
    <3> QED BY <1>10, <3>1 DEF GiveUp, Written, WriteFails, TypeOK
  <2> QED BY <1>10, <2>1 DEF GiveUp, Finish, TypeOK, Cursor,
              Manifest, poolVars, drainVars, Pcs, BeforeDrain, RunOutcomes
<1>11. CASE Settle
  BY <1>11 DEF Settle, Goto, TypeOK, Cursor, Manifest, poolVars, drainVars, Pcs, BeforeDrain
<1>12. CASE Summarise
  <2>1. stream' \in Seq(Envelope)
    <3>1. Append(stream, Framing("SweepSummary")) \in Seq(Envelope)
      BY FramingType, StreamGrows DEF Kinds
    <3> QED BY <1>12, <3>1 DEF Summarise, Written, WriteFails, TypeOK
  <2> QED BY <1>12, <2>1 DEF Summarise, Written, WriteFails, Goto, Finish, TypeOK, Cursor,
              Manifest, poolVars, drainVars, Pcs, BeforeDrain, RunOutcomes
<1>13. CASE CloseCut \/ Close
  <2>1. stream' \in Seq(Envelope)
    <3>1. Append(stream, Framing("RunEnd")) \in Seq(Envelope)
      BY FramingType, StreamGrows DEF Kinds
    <3> QED BY <1>13, <3>1 DEF CloseCut, Close, Written, WriteFails, TypeOK
  <2> QED BY <1>13, <2>1 DEF CloseCut, Close, Written, WriteFails, Finish, TypeOK, Cursor,
              Manifest, poolVars, drainVars, Pcs, BeforeDrain, RunOutcomes
<1>14. CASE Stopped \/ UNCHANGED vars
  BY <1>14 DEF Stopped, vars, TypeOK, Cursor, poolVars, drainVars
<1> QED
  BY <1>1, <1>2, <1>3, <1>4, <1>5, <1>6, <1>7, <1>8, <1>9, <1>10, <1>11, <1>12,
     <1>13, <1>14 DEF Next, Main

\* The state stays in the sets the code's types allow, for every manifest.
THEOREM SweepTypeOK == Spec => []TypeOK
<1>1. Init => TypeOK /\ Cursor
  BY InitShape
<1>2. TypeOK /\ Cursor /\ [Next]_vars => (TypeOK /\ Cursor)'
  BY ShapeStep
<1> QED
  BY <1>1, <1>2, PTL DEF Spec

----------------------------------------------------------------------------
(* What a step does to the stream and the cursor. *)

FramingKinds == Kinds \ BodyKinds

\* Nothing; one framing envelope; one finding of the job the drain is at; on to
\* the next job; a buffer is handed in.
Still    == UNCHANGED <<work, buf, stream, cur, fnd>>
Frames   == /\ \E k \in FramingKinds : /\ stream' = Append(stream, Framing(k))
                                       /\ k = "SweepSummary" => pc = "summary"
            /\ UNCHANGED <<work, buf, cur, fnd>>
Writes   == /\ pc = "drain" /\ ~cancel /\ ~JobDrained
            /\ stream' = Append(stream, Finding(cur, fnd + 1))
            /\ fnd' = fnd + 1
            /\ UNCHANGED <<work, buf, cur>>
Advances == /\ pc = "drain" /\ JobDrained /\ cur < N
            /\ cur' = cur + 1 /\ fnd' = 0
            /\ UNCHANGED <<work, buf, stream>>
Buffers  == pc = "fanout" /\ UNCHANGED <<work, stream, cur, fnd>>

LEMMA StreamStep ==
  ASSUME [Next]_vars
  PROVE  Still \/ Frames \/ Writes \/ Advances \/ Buffers
<1>1. {"RunStart", "DryRun", "SweepSummary", "RunEnd"} \subseteq FramingKinds
  BY DEF FramingKinds, Kinds, BodyKinds
<1>2. CASE Interrupt \/ Enter \/ Expand \/ Join \/ Settle \/ Stopped \/ UNCHANGED vars
  BY <1>2 DEF Interrupt, Enter, Expand, Join, Settle, Stopped, vars, Still,
              Manifest, poolVars, drainVars
<1>3. CASE OpenRun
  BY <1>1, <1>3 DEF OpenRun, Written, WriteFails, Still, Frames, Manifest, poolVars, drainVars
<1>4. CASE MakePlan
  BY <1>1, <1>4 DEF MakePlan, Written, WriteFails, Still, Frames, Manifest, poolVars, drainVars
<1>5. CASE GiveUp
  BY <1>1, <1>5 DEF GiveUp, Still, Frames, Manifest, poolVars, drainVars
<1>6. CASE Summarise
  BY <1>1, <1>6 DEF Summarise, Written, WriteFails, Still, Frames, Manifest, poolVars, drainVars
<1>7. CASE CloseCut \/ Close
  BY <1>1, <1>7 DEF CloseCut, Close, Written, WriteFails, Still, Frames, Manifest, poolVars,
                    drainVars
<1>8. CASE NextJob
  BY <1>8 DEF NextJob, Advances, Still, Manifest, poolVars
<1>9. CASE DrainOne
  BY <1>9 DEF DrainOne, Written, Writes, Still, Manifest, poolVars
<1>10. ASSUME NEW j \in Jobs, Worker(j)
       PROVE  Still \/ Buffers
  BY <1>10 DEF Worker, Cover, StartJob, FinishJob, Still, Buffers, Manifest, drainVars
<1> QED
  BY <1>2, <1>3, <1>4, <1>5, <1>6, <1>7, <1>8, <1>9, <1>10 DEF Next, Main

\* The stream keeps its envelopes and their places.
LEMMA Appended ==
  ASSUME TypeOK, NEW e \in Envelope, stream' = Append(stream, e)
  PROVE  /\ Len(stream) \in Nat
         /\ DOMAIN stream = 1..Len(stream)
         /\ DOMAIN stream' = 1..(Len(stream) + 1)
         /\ \A k \in DOMAIN stream : stream'[k] = stream[k]
         /\ stream'[Len(stream) + 1] = e
<1>1. stream \in Seq(Envelope)
  BY DEF TypeOK
<1>2. stream' \in Seq(Envelope)
  BY StreamGrows
<1> QED BY <1>1, <1>2, AppendProperties, LenProperties

LEMMA BodyTyped ==
  ASSUME TypeOK, NEW k \in Body
  PROVE  stream[k].job \in Nat /\ stream[k].idx \in Nat
<1>1. stream \in Seq(Envelope) /\ k \in 1..Len(stream)
  BY LenProperties DEF TypeOK, Body
<1>2. stream[k] \in Envelope
  BY <1>1, ElementOfSeq
<1> QED BY <1>2, SweepAssumption DEF Envelope

LEMMA BodyFramed ==
  ASSUME TypeOK, Frames
  PROVE  Body' = Body /\ \A k \in DOMAIN stream : k \in DOMAIN stream' /\ stream'[k] = stream[k]
<1>1. PICK k \in FramingKinds : stream' = Append(stream, Framing(k))
  BY DEF Frames
<1>2. Framing(k) \in Envelope /\ Framing(k).job = 0
  BY FramingType DEF FramingKinds, Framing
<1> QED BY <1>1, <1>2, Appended DEF Body

LEMMA BodyWritten ==
  ASSUME TypeOK, Cursor, Writes
  PROVE  /\ Body' = Body \cup {Len(stream) + 1}
         /\ \A k \in DOMAIN stream :
              k \in DOMAIN stream' /\ stream'[k] = stream[k] /\ k < Len(stream) + 1
         /\ stream'[Len(stream) + 1] = Finding(cur, fnd + 1)
         /\ Len(stream) + 1 \in DOMAIN stream'
<1>1. Finding(cur, fnd + 1) \in Envelope /\ cur \in Jobs
  BY NextFinding DEF Writes
<1>2. Finding(cur, fnd + 1).job = cur /\ cur # 0
  BY <1>1, SweepAssumption DEF Finding, Jobs
<1>3. stream' = Append(stream, Finding(cur, fnd + 1))
  BY DEF Writes
<1> QED BY <1>1, <1>2, <1>3, Appended DEF Body

\* No envelope of a job is on the stream before the drain begins.
LEMMA NothingYet ==
  ASSUME Cursor, OnlyPassed, pc = "fanout"
  PROVE  Body = {} /\ cur = 0 /\ fnd = 0 /\ \A j \in Jobs : ~(j < cur \/ j = cur)
BY SweepAssumption DEF Cursor, OnlyPassed, Passed, BeforeDrain, Jobs

----------------------------------------------------------------------------
(* The invariant, conjunct by conjunct. *)

LEMMA PoolPhaseStep ==
  ASSUME TypeOK, PoolPhase, [Next]_vars
  PROVE  PoolPhase'
<1>1. ASSUME NEW j \in Jobs, Worker(j)
      PROVE  PoolPhase'
  BY <1>1 DEF Worker, Cover, StartJob, FinishJob, PoolPhase
<1>2. CASE UNCHANGED status
  BY <1>2 DEF PoolPhase, AllDone, Next, Main, Interrupt, Enter, OpenRun, Expand, MakePlan,
     Join, NextJob, DrainOne, GiveUp, Settle, Summarise, CloseCut, Close, Stopped, vars,
     Goto, Finish, WriteFails, Worker, Cover, StartJob, FinishJob
<1> QED
  BY <1>1, <1>2 DEF Next, Main, Interrupt, Enter, OpenRun, Expand, MakePlan, Join, NextJob,
     DrainOne, GiveUp, Settle, Summarise, CloseCut, Close, Stopped, vars, poolVars

LEMMA FlagStays == [Next]_vars => work' = work /\ (cancel => cancel')
BY DEF Next, Main, Interrupt, Enter, OpenRun, Expand, MakePlan, Join, NextJob, DrainOne, GiveUp,
   Settle, Summarise, CloseCut, Close, Stopped, Worker, Cover, StartJob, FinishJob, vars, Manifest

LEMMA UndisturbedStep ==
  ASSUME TypeOK, Cursor, PoolPhase, Undisturbed, OnlyPassed, [Next]_vars
  PROVE  Undisturbed'
<1>1. ASSUME pc' \in {"fanout", "drain", "settle"}, ~cancel', NEW j \in Jobs, status'[j] = "done"
      PROVE  buf'[j] = work'[j]
  <2>1. ~cancel /\ work' = work
    BY <1>1, FlagStays
  <2>2. ASSUME NEW i \in Jobs, FinishJob(i)
        PROVE  buf'[j] = work'[j]
    <3>1. pc = "fanout" /\ buf' = [buf EXCEPT ![i] = work[i]] /\ (j # i => status[j] = "done")
      BY <1>1, <2>1, <2>2 DEF FinishJob, TypeOK
    <3> QED BY <2>1, <3>1 DEF Undisturbed, TypeOK
  <2>3. ASSUME NEW i \in Jobs, StartJob(i)
        PROVE  buf'[j] = work'[j]
    <3>1. pc = "fanout" /\ buf' = buf /\ status[j] = "done"
      BY <1>1, <2>1, <2>3 DEF StartJob, TypeOK
    <3> QED BY <2>1, <3>1 DEF Undisturbed
  <2>4. ~\E i \in Jobs : Cover(i)
    BY <1>1 DEF Cover
  <2>5. CASE ~\E i \in Jobs : Worker(i)
    <3>1. UNCHANGED <<buf, status>>
      BY <2>5 DEF Next, Main, Interrupt, Enter, OpenRun, Expand, MakePlan, Join, NextJob,
         DrainOne, GiveUp, Settle, Summarise, CloseCut, Close, Stopped, vars, poolVars
    <3>2. pc \in {"expand", "fanout", "drain", "settle"}
      BY <1>1, <2>5 DEF Next, Main, Interrupt, Enter, OpenRun, Expand, MakePlan, Join, NextJob,
         DrainOne, GiveUp, Settle, Summarise, CloseCut, Close, Stopped, vars, Goto, Finish,
         WriteFails
    <3> QED BY <1>1, <2>1, <3>1, <3>2 DEF Undisturbed, PoolPhase
  <2> QED BY <2>2, <2>3, <2>4, <2>5 DEF Worker
<1>2. pc' = "summary" => Whole'
  <2>1. CASE Settle
    BY <2>1 DEF Settle, Goto, Manifest, poolVars, Undisturbed, Whole, PoolPhase, AllDone
  <2>2. CASE ~Settle
    <3>1. pc' = "summary" => pc = "summary" /\ UNCHANGED <<work, buf>>
      BY <2>2 DEF Next, Main, Interrupt, Enter, OpenRun, Expand, MakePlan, Join, NextJob,
         DrainOne, GiveUp, Summarise, CloseCut, Close, Stopped, Worker, Cover, StartJob,
         FinishJob, vars, Goto, Finish, WriteFails, Manifest, poolVars
    <3> QED BY <3>1 DEF Undisturbed, Whole
  <2> QED BY <2>1, <2>2
<1>3. Body' # {} => Whole'
  <2>1. CASE Still \/ Frames \/ Advances
    BY <2>1, BodyFramed DEF Still, Frames, Advances, Body, Undisturbed, Whole
  <2>2. CASE Writes
    BY <2>2 DEF Writes, Undisturbed, Whole, PoolPhase, AllDone
  <2>3. CASE Buffers
    BY <2>3, NothingYet DEF Buffers, Body
  <2> QED BY <2>1, <2>2, <2>3, StreamStep
<1> QED BY <1>1, <1>2, <1>3 DEF Undisturbed

LEMMA DrainEndStep ==
  ASSUME TypeOK, DrainEnd, [Next]_vars
  PROVE  DrainEnd'
<1>1. CASE NextJob
  BY <1>1, SweepAssumption
     DEF NextJob, Goto, DrainEnd, RanOut, JobDrained, TypeOK, Manifest, poolVars
<1>2. CASE DrainOne
  BY <1>2 DEF DrainOne, Goto, DrainEnd, Manifest
<1>3. CASE Settle
  BY <1>3 DEF Settle, Goto, DrainEnd, RanOut, JobDrained, Manifest, poolVars, drainVars
<1>4. CASE ~NextJob /\ ~DrainOne /\ ~Settle
  <2>1. pc' \in {"settle", "summary"} => pc' = pc /\ UNCHANGED <<cur, fnd, buf>>
    BY <1>4 DEF Next, Main, Interrupt, Enter, OpenRun, Expand, MakePlan, Join, GiveUp, Summarise,
       CloseCut, Close, Stopped, Worker, Cover, StartJob, FinishJob, vars, Goto, Finish,
       WriteFails, poolVars, drainVars
  <2> QED BY <2>1, FlagStays DEF DrainEnd, RanOut, JobDrained
<1> QED BY <1>1, <1>2, <1>3, <1>4

LEMMA OnlyPassedStep ==
  ASSUME TypeOK, Cursor, OnlyPassed, [Next]_vars
  PROVE  OnlyPassed'
<1>1. CASE Still
  BY <1>1 DEF Still, OnlyPassed, Passed, Body
<1>2. CASE Frames
  BY <1>2, BodyFramed DEF Frames, OnlyPassed, Passed, Body
<1>3. CASE Writes
  <2>0. PICK n : n = Len(stream) + 1
    OBVIOUS
  <2>1. UNCHANGED <<cur, buf>> /\ fnd' = fnd + 1 /\ fnd \in Nat /\ ~JobDrained
    BY <1>3 DEF Writes, TypeOK
  <2>2. ASSUME NEW k \in Body
        PROVE  /\ stream'[k].job \in Jobs
               /\ stream'[k].idx \in DOMAIN buf'[stream'[k].job]
               /\ Passed(stream[k].job, stream[k].idx)'
    <3>1. stream'[k] = stream[k] /\ stream[k].idx \in Nat
      BY <1>3, <2>2, BodyWritten, BodyTyped DEF Body
    <3>2. /\ stream[k].job \in Jobs /\ stream[k].idx \in DOMAIN buf[stream[k].job]
          /\ Passed(stream[k].job, stream[k].idx)
      BY DEF OnlyPassed
    <3>3. Passed(stream[k].job, stream[k].idx)'
      BY <2>1, <3>1, <3>2 DEF Passed
    <3> QED BY <2>1, <3>1, <3>2, <3>3 DEF Passed
  <2>3. /\ stream'[n].job \in Jobs
        /\ stream'[n].idx \in DOMAIN buf'[stream'[n].job]
        /\ Passed(stream[n].job, stream[n].idx)'
    <3>1. stream'[n].job = cur /\ stream'[n].idx = fnd + 1
      BY <1>3, <2>0, BodyWritten DEF Finding
    <3> QED BY <2>1, <3>1, NextFinding DEF Passed
  <2>4. Body' = Body \cup {n}
    BY <1>3, <2>0, BodyWritten
  <2> QED BY <2>2, <2>3, <2>4 DEF OnlyPassed
<1>4. CASE Advances
  <2>1. \A k \in Body : stream[k].job \in Nat /\ stream[k].idx \in Nat
    BY BodyTyped
  <2>2. \A j, i \in Nat : Passed(j, i) => Passed(j, i)'
    BY <1>4 DEF Advances, Passed, TypeOK
  <2> QED BY <1>4, <2>1, <2>2 DEF Advances, OnlyPassed, Body
<1>5. CASE Buffers
  BY <1>5, NothingYet DEF Buffers, OnlyPassed, Body
<1> QED BY <1>1, <1>2, <1>3, <1>4, <1>5, StreamStep

LEMMA AllPassedStep ==
  ASSUME TypeOK, Cursor, OnlyPassed, AllPassed, [Next]_vars
  PROVE  AllPassed'
<1>1. CASE Still
  BY <1>1 DEF Still, AllPassed, Passed, OnStream, Finding
<1>2. CASE Frames
  BY <1>2, BodyFramed DEF Frames, AllPassed, Passed, OnStream, Finding
<1>3. CASE Writes
  <2> SUFFICES ASSUME NEW j \in Jobs, NEW i \in DOMAIN buf'[j], Passed(j, i)'
               PROVE  OnStream(Finding(j, i))'
    BY DEF AllPassed
  <2>1. buf' = buf /\ cur' = cur /\ fnd' = fnd + 1 /\ fnd \in Nat
    BY <1>3 DEF Writes, TypeOK
  <2>2. Finding(j, i)' = Finding(j, i)
    BY <2>1 DEF Finding
  <2>3. CASE Passed(j, i)
    BY <1>3, <2>1, <2>2, <2>3, BodyWritten DEF AllPassed, OnStream
  <2>4. CASE j = cur /\ i = fnd + 1
    BY <1>3, <2>2, <2>4, BodyWritten DEF OnStream
  <2>5. i \in Nat
    BY <2>1, LenProperties DEF TypeOK
  <2> QED BY <2>1, <2>3, <2>4, <2>5 DEF Passed
<1>4. CASE Advances
  <2> SUFFICES ASSUME NEW j \in Jobs, NEW i \in DOMAIN buf'[j], Passed(j, i)'
               PROVE  OnStream(Finding(j, i))'
    BY DEF AllPassed
  <2>1. buf' = buf /\ stream' = stream /\ cur' = cur + 1 /\ fnd' = 0 /\ cur \in Nat
    BY <1>4, SweepAssumption DEF Advances, TypeOK
  <2>2. buf[j] \in Seq(Units) /\ i \in 1..Len(buf[j])
    BY <2>1, LenProperties DEF TypeOK
  <2>3. j <= cur
    BY <2>1, <2>2, LenProperties, SweepAssumption DEF Passed, Jobs
  <2>4. Passed(j, i)
    BY <1>4, <2>1, <2>2, <2>3, LenProperties, SweepAssumption DEF Advances, JobDrained, Passed, Jobs
  <2> QED BY <2>1, <2>4 DEF AllPassed, OnStream, Finding
<1>5. CASE Buffers
  <2> SUFFICES ASSUME NEW j \in Jobs, NEW i \in DOMAIN buf'[j]
               PROVE  ~Passed(j, i)'
    BY DEF AllPassed
  <2> QED BY <1>5, NothingYet DEF Buffers, Passed
<1> QED BY <1>1, <1>2, <1>3, <1>4, <1>5, StreamStep

LEMMA DrainOrderStep ==
  ASSUME TypeOK, Cursor, OnlyPassed, DrainOrder, [Next]_vars
  PROVE  DrainOrder'
<1>1. CASE Still \/ Advances \/ Buffers
  BY <1>1 DEF Still, Advances, Buffers, DrainOrder, Before, Body
<1>2. CASE Frames
  BY <1>2, BodyFramed DEF DrainOrder, Before, Body
<1>3. CASE Writes
  <2> DEFINE new == Len(stream) + 1
  <2>1. stream'[new].job = cur /\ stream'[new].idx = fnd + 1
    BY <1>3, BodyWritten DEF Finding
  <2>2. ASSUME NEW k \in Body
        PROVE  k < new /\ Before(stream'[k].job, stream'[k].idx, cur, fnd + 1)
    <3>1. stream'[k] = stream[k] /\ k < new
      BY <1>3, BodyWritten DEF Body
    <3>2. Passed(stream[k].job, stream[k].idx) /\ stream[k].idx \in Nat /\ fnd \in Nat
      BY BodyTyped DEF OnlyPassed, TypeOK
    <3> QED BY <3>1, <3>2 DEF Passed, Before
  <2>3. ASSUME NEW k1 \in Body, NEW k2 \in Body, k1 < k2
        PROVE  Before(stream'[k1].job, stream'[k1].idx, stream'[k2].job, stream'[k2].idx)
    BY <1>3, <2>3, BodyWritten DEF DrainOrder, Body, Before
  <2>4. \A k \in Body : k \in Nat
    BY LenProperties DEF Body, TypeOK
  <2>5. new \in Nat
    BY LenProperties DEF TypeOK
  <2> QED BY <1>3, <2>1, <2>2, <2>3, <2>4, <2>5, BodyWritten DEF DrainOrder
<1> QED BY <1>1, <1>2, <1>3, StreamStep

LEMMA SummaryCompleteStep ==
  ASSUME TypeOK, Cursor, Undisturbed, DrainEnd, AllPassed, SummaryComplete, [Next]_vars
  PROVE  SummaryComplete'
<1>1. CASE Still \/ Advances \/ Buffers
  BY <1>1 DEF Still, Advances, Buffers, SummaryComplete, Has, OnStream, Expected
<1>2. CASE Frames
  <2>1. PICK k \in FramingKinds : /\ stream' = Append(stream, Framing(k))
                                  /\ k = "SweepSummary" => pc = "summary"
    BY <1>2 DEF Frames
  <2>2. Framing(k) \in Envelope /\ Framing(k).kind = k
    BY FramingType DEF FramingKinds, Framing
  <2>3. Has("SweepSummary")' => Has("SweepSummary") \/ k = "SweepSummary"
    BY <2>1, <2>2, Appended DEF Has
  <2>4. \A e : OnStream(e) => OnStream(e)'
    BY <1>2, BodyFramed DEF OnStream
  <2>5. ASSUME pc = "summary", NEW j \in Jobs, NEW i \in DOMAIN work[j]
        PROVE  OnStream(Expected(j, i))
    <3>1. Whole /\ cur = N /\ JobDrained
      BY <2>5 DEF Undisturbed, DrainEnd, RanOut
    <3>2. Expected(j, i) = Finding(j, i) /\ i \in DOMAIN buf[j]
      BY <3>1 DEF Whole, Expected, Finding
    <3>3. i \in 1..Len(buf[j])
      BY <3>2, LenProperties DEF TypeOK
    <3>4. Passed(j, i)
      BY <3>1, <3>3, LenProperties, SweepAssumption DEF Passed, JobDrained, Jobs, TypeOK
    <3> QED BY <3>2, <3>4 DEF AllPassed
  <2>6. work' = work
    BY <1>2 DEF Frames
  <2> QED BY <2>1, <2>3, <2>4, <2>5, <2>6 DEF SummaryComplete, Expected
<1>3. CASE Writes
  <2>1. Finding(cur, fnd + 1).kind # "SweepSummary"
    BY <1>3, NextFinding DEF Writes, Finding, Units, BodyKinds
  <2>2. Has("SweepSummary")' => Has("SweepSummary")
    <3>1. stream' = Append(stream, Finding(cur, fnd + 1)) /\ Finding(cur, fnd + 1) \in Envelope
      BY <1>3, NextFinding DEF Writes
    <3> QED BY <2>1, <3>1, Appended DEF Has
  <2>3. \A e : OnStream(e) => OnStream(e)'
    BY <1>3, BodyWritten DEF OnStream
  <2> QED BY <1>3, <2>2, <2>3 DEF Writes, SummaryComplete, Expected
<1> QED BY <1>1, <1>2, <1>3, StreamStep

LEMMA InitInv == Init => IndInv
<1> SUFFICES ASSUME Init PROVE IndInv
  OBVIOUS
<1>1. TypeOK /\ Cursor
  BY InitShape
<1>2. DOMAIN stream = {} /\ Body = {}
  BY DEF Init, Body
<1>3. PoolPhase /\ Undisturbed /\ DrainEnd
  BY <1>2 DEF Init, PoolPhase, Undisturbed, DrainEnd
<1>4. OnlyPassed /\ DrainOrder /\ SummaryComplete
  BY <1>2 DEF OnlyPassed, DrainOrder, SummaryComplete, Has
<1>5. AllPassed
  BY SweepAssumption DEF Init, AllPassed, Passed, Jobs
<1> QED BY <1>1, <1>3, <1>4, <1>5 DEF IndInv

LEMMA NextInv == IndInv /\ [Next]_vars => IndInv'
BY ShapeStep, PoolPhaseStep, UndisturbedStep, DrainEndStep, OnlyPassedStep, AllPassedStep,
   DrainOrderStep, SummaryCompleteStep DEF IndInv

LEMMA SweepInv == Spec => []IndInv
BY InitInv, NextInv, PTL DEF Spec

----------------------------------------------------------------------------
(* What follows for every sweep. *)

\* Whatever the order in which the workers finish, the stream is in manifest order.
THEOREM SweepDrainOrder == Spec => []DrainOrder
<1>1. IndInv => DrainOrder
  BY DEF IndInv
<1> QED BY <1>1, SweepInv, PTL

\* A SweepSummary is never written over a partial sweep.
THEOREM SweepSummaryComplete == Spec => []SummaryComplete
<1>1. IndInv => SummaryComplete
  BY DEF IndInv
<1> QED BY <1>1, SweepInv, PTL

\* Whenever the sweep is cut, what is on the stream is a prefix of the whole one.
THEOREM SweepPrefix == Spec => []PrefixOfComplete
<1>1. IndInv => PrefixOfComplete
  <2> SUFFICES ASSUME IndInv, NEW k \in Body, NEW j \in Jobs, NEW i \in DOMAIN work[j]
               PROVE  \/ OnStream(Expected(j, i))
                      \/ Before(stream[k].job, stream[k].idx, j, i)
    BY DEF PrefixOfComplete
  <2>1. Whole
    BY DEF IndInv, Undisturbed
  <2>2. Expected(j, i) = Finding(j, i) /\ i \in DOMAIN buf[j]
    BY <2>1 DEF Whole, Expected, Finding
  <2>3. CASE Passed(j, i)
    BY <2>2, <2>3 DEF IndInv, AllPassed
  <2>4. CASE ~Passed(j, i)
    <3>1. i \in Nat /\ j \in Nat /\ cur \in Nat /\ fnd \in Nat
      BY LenProperties, SweepAssumption DEF IndInv, TypeOK, Jobs
    <3>2. /\ Passed(stream[k].job, stream[k].idx)
          /\ stream[k].job \in Nat /\ stream[k].idx \in Nat
      BY BodyTyped DEF IndInv, OnlyPassed
    <3> QED BY <2>4, <3>1, <3>2 DEF Passed, Before
  <2> QED BY <2>3, <2>4
<1> QED BY <1>1, SweepInv, PTL

----------------------------------------------------------------------------
(* The totals. *)

Count(k) == CountOf(stream, k)

\* The totals and the ends of a sweep against the counts of its stream: results, errors,
\* gap aborts, summaries and RunEnds.
Balanced(results, errors, gaps, summaries, ends) ==
  /\ totals.jobs = cur
  /\ ends > 0 => pc = "done"
  /\ summaries > 0 => pc \in {"close", "done"} /\ cur = N
  /\ pc = "close" => summaries > 0
  /\ pc \notin {"giveup", "done"} \/ outcome \in {"Ok", "HadScanErrors", "Preflight"} =>
       totals.results = results /\ totals.errors = errors /\ totals.gaps = gaps
  /\ pc = "giveup" \/ (outcome = "SinkError" /\ ends > 0) =>
       /\ totals.results + totals.errors + totals.gaps = results + errors + gaps + 1
       /\ summaries = 0
  /\ outcome = "none" <=> pc # "done"
  /\ outcome = "HadScanErrors" => summaries > 0 /\ ends > 0 /\ totals.errors > 0
  /\ outcome = "Ok" /\ summaries > 0 => totals.errors = 0
  /\ outcome = "Preflight" => ends = 0

Ledger == Balanced(Count("Result"), Count("ScanError"), Count("GapAborted"),
                   Count("SweepSummary"), Count("RunEnd"))

\* The envelopes of jobs are those of the three kinds a job leaves.
Bodies == Cardinality(Body) = Count("Result") + Count("ScanError") + Count("GapAborted")

----------------------------------------------------------------------------
(* Counting. *)

\* A count is a number, and is above zero when there is something to count.
LEMMA Counted ==
  ASSUME TypeOK, NEW k \in Kinds
  PROVE  Count(k) \in Nat /\ (Has(k) <=> Count(k) > 0)
<1> DEFINE Those == {i \in DOMAIN stream : stream[i].kind = k}
<1>1. IsFiniteSet(1..Len(stream)) /\ DOMAIN stream = 1..Len(stream)
  BY FS_Interval, LenProperties DEF TypeOK
<1>2. IsFiniteSet(Those)
  BY <1>1, FS_Subset
<1>3. Cardinality(Those) \in Nat /\ (Cardinality(Those) = 0 <=> Those = {})
  BY <1>2, FS_CardinalityType, FS_EmptySet
<1> QED BY <1>3 DEF Count, CountOf, Has

\* A write adds one to the count of its kind and leaves the other counts alone.
LEMMA CountWritten ==
  ASSUME TypeOK, NEW e \in Envelope, stream' = Append(stream, e), NEW k \in Kinds
  PROVE  Count(k)' = Count(k) + IF e.kind = k THEN 1 ELSE 0
<1> DEFINE Old == {i \in DOMAIN stream : stream[i].kind = k}
           New == {i \in DOMAIN stream' : stream'[i].kind = k}
<1>1. IsFiniteSet(Old)
  <2>1. IsFiniteSet(1..Len(stream)) /\ DOMAIN stream = 1..Len(stream)
    BY FS_Interval, LenProperties DEF TypeOK
  <2> QED BY <2>1, FS_Subset
<1>2. /\ DOMAIN stream' = DOMAIN stream \cup {Len(stream) + 1}
      /\ Len(stream) + 1 \notin DOMAIN stream
      /\ \A i \in DOMAIN stream : stream'[i] = stream[i]
      /\ stream'[Len(stream) + 1] = e
  BY Appended
<1>3. CASE e.kind = k
  <2>1. New = Old \cup {Len(stream) + 1} /\ Len(stream) + 1 \notin Old
    BY <1>2, <1>3
  <2>2. Cardinality(New) = Cardinality(Old) + 1
    BY <1>1, <2>1, FS_AddElement
  <2> QED BY <1>3, <2>2 DEF Count, CountOf
<1>4. CASE e.kind # k
  <2>1. New = Old
    BY <1>2, <1>4
  <2>2. Count(k)' = Count(k) /\ Count(k) \in Nat
    BY <2>1, Counted DEF Count, CountOf
  <2> QED BY <1>4, <2>2
<1> QED BY <1>3, <1>4

\* The counts after a framing envelope.
LEMMA FramingCounted ==
  ASSUME TypeOK, NEW k \in FramingKinds, stream' = Append(stream, Framing(k))
  PROVE  \A l \in Kinds : Count(l)' = Count(l) + IF k = l THEN 1 ELSE 0
<1>1. Framing(k) \in Envelope /\ Framing(k).kind = k
  BY FramingType DEF FramingKinds, Framing
<1>2. ASSUME NEW l \in Kinds
      PROVE  Count(l)' = Count(l) + IF Framing(k).kind = l THEN 1 ELSE 0
  BY <1>1, <1>2, CountWritten, Zenon
<1> QED BY <1>1, <1>2

\* The counts after a finding.
LEMMA FindingCounted ==
  ASSUME TypeOK, Cursor, ~JobDrained, stream' = Append(stream, Finding(cur, fnd + 1))
  PROVE  /\ buf[cur][fnd + 1].kind \in BodyKinds
         /\ \A l \in Kinds : Count(l)' = Count(l) + IF buf[cur][fnd + 1].kind = l THEN 1 ELSE 0
<1>1. Finding(cur, fnd + 1) \in Envelope /\ buf[cur][fnd + 1] \in Units
  BY NextFinding
<1>2. Finding(cur, fnd + 1).kind = buf[cur][fnd + 1].kind
  BY DEF Finding
<1>3. ASSUME NEW l \in Kinds
      PROVE  Count(l)' = Count(l) + IF Finding(cur, fnd + 1).kind = l THEN 1 ELSE 0
  BY <1>1, <1>3, CountWritten, Zenon
<1> QED BY <1>1, <1>2, <1>3 DEF Units

----------------------------------------------------------------------------

LEMMA LedgerStep ==
  ASSUME IndInv, Ledger, [Next]_vars
  PROVE  Ledger'
<1> DEFINE R == Count("Result")
           E == Count("ScanError")
           G == Count("GapAborted")
           S == Count("SweepSummary")
           F == Count("RunEnd")
<1>a. TypeOK /\ Cursor /\ DrainEnd
  BY DEF IndInv
<1>b. /\ R \in Nat /\ E \in Nat /\ G \in Nat /\ S \in Nat /\ F \in Nat
      /\ cur \in 0..N /\ N \in Nat
      /\ totals \in [jobs : Nat, results : Nat, errors : Nat, gaps : Nat]
  BY <1>a, Counted, SweepAssumption DEF Kinds, TypeOK
<1>c. stream' = stream => R' = R /\ E' = E /\ G' = G /\ S' = S /\ F' = F
  BY DEF Count
<1>d. ASSUME NEW k \in {"RunStart", "DryRun", "SweepSummary", "RunEnd"}, Written(Framing(k))
      PROVE  /\ R' = R /\ E' = E /\ G' = G
             /\ S' = S + (IF k = "SweepSummary" THEN 1 ELSE 0)
             /\ F' = F + (IF k = "RunEnd" THEN 1 ELSE 0)
  BY <1>a, <1>b, <1>d, FramingCounted DEF Written, FramingKinds, Kinds, BodyKinds
<1>e. Balanced(R, E, G, S, F)' => Ledger'
  BY DEF Ledger
<1>f. Balanced(R, E, G, S, F)
  BY DEF Ledger
<1> USE DEF Balanced
<1> HIDE DEF R, E, G, S, F
<1>1. CASE /\ UNCHANGED <<stream, totals, cur, outcome>>
           /\ pc \notin {"giveup", "done", "close"} /\ pc' \notin {"giveup", "done", "close"}
  BY <1>1, <1>b, <1>c, <1>e, <1>f
<1>2. CASE UNCHANGED <<stream, totals, cur, outcome, pc>>
  BY <1>2, <1>b, <1>c, <1>e, <1>f
<1>3. CASE /\ pc \in {"enter", "expand"} /\ UNCHANGED <<stream, totals, cur>>
           /\ pc' = "done" /\ outcome' \in {"Ok", "Preflight"}
  BY <1>3, <1>b, <1>c, <1>e, <1>f
<1>4. CASE /\ pc \notin {"giveup", "done"} /\ UNCHANGED <<stream, totals, cur>>
           /\ pc' = "done" /\ outcome' = "SinkError"
  BY <1>4, <1>b, <1>c, <1>e, <1>f
<1>5. CASE OpenRun
  <2>1. CASE Written(Framing("RunStart"))
    BY <1>5, <2>1, <1>b, <1>d, <1>e, <1>f DEF OpenRun, Goto, WriteFails, Finish, drainVars
  <2> QED BY <1>4, <1>5, <2>1 DEF OpenRun, WriteFails, Finish, drainVars
<1>6. CASE MakePlan
  <2>1. CASE Written(Framing("DryRun"))
    BY <1>6, <2>1, <1>b, <1>d, <1>e, <1>f DEF MakePlan, Goto, WriteFails, Finish, drainVars
  <2> QED BY <1>4, <1>6, <2>1 DEF MakePlan, WriteFails, Finish, drainVars
<1>7. CASE NextJob
  <2>1. CASE cur < N
    <3>1. totals' = [totals EXCEPT !.jobs = @ + 1] /\ cur' = cur + 1 /\ pc = "drain"
          /\ UNCHANGED <<stream, pc, outcome>>
      BY <1>7, <2>1 DEF NextJob
    <3>2. /\ totals'.jobs = totals.jobs + 1 /\ totals'.results = totals.results
          /\ totals'.errors = totals.errors /\ totals'.gaps = totals.gaps
      BY <3>1, <1>b
    <3> QED BY <3>1, <3>2, <1>b, <1>c, <1>e, <1>f
  <2>2. CASE ~(cur < N)
    BY <1>1, <1>7, <2>2 DEF NextJob, Goto
  <2> QED BY <2>1, <2>2
<1>8. CASE DrainOne
  <2>1. CASE cancel
    BY <1>1, <1>8, <2>1 DEF DrainOne, Goto
  <2>2. CASE ~cancel
    <3> DEFINE u == buf[cur][fnd + 1]
    <3>1. /\ ~JobDrained /\ pc = "drain" /\ cur' = cur
          /\ totals' = [totals EXCEPT ![CounterOf[u.kind]] = @ + 1]
          /\ \/ Written(Finding(cur, fnd + 1)) /\ UNCHANGED <<pc, outcome>>
             \/ pc' = "giveup" /\ UNCHANGED <<stream, outcome>>
      BY <1>8, <2>2 DEF DrainOne, Tally, Goto
    <3>2. u.kind \in BodyKinds
      BY <1>a, <3>1, NextFinding DEF Units
    <3>3. /\ totals'.jobs = totals.jobs
          /\ totals'.results = totals.results + (IF u.kind = "Result" THEN 1 ELSE 0)
          /\ totals'.errors = totals.errors + (IF u.kind = "ScanError" THEN 1 ELSE 0)
          /\ totals'.gaps = totals.gaps + (IF u.kind = "GapAborted" THEN 1 ELSE 0)
      <4> HIDE DEF u
      <4>1. CASE u.kind = "Result"
        <5>0. CounterOf[u.kind] = "results"
          BY <4>1 DEF CounterOf
        <5>1. totals' = [totals EXCEPT !.results = @ + 1]
          BY <3>1, <5>0
        <5> QED BY <1>b, <4>1, <5>1
      <4>2. CASE u.kind = "ScanError"
        <5>0. CounterOf[u.kind] = "errors"
          BY <4>2 DEF CounterOf
        <5>1. totals' = [totals EXCEPT !.errors = @ + 1]
          BY <3>1, <5>0
        <5> QED BY <1>b, <4>2, <5>1
      <4>3. CASE u.kind = "GapAborted"
        <5>0. CounterOf[u.kind] = "gaps"
          BY <4>3 DEF CounterOf
        <5>1. totals' = [totals EXCEPT !.gaps = @ + 1]
          BY <3>1, <5>0
        <5> QED BY <1>b, <4>3, <5>1
      <4> QED BY <3>2, <4>1, <4>2, <4>3 DEF BodyKinds
    <3>4. CASE Written(Finding(cur, fnd + 1)) /\ UNCHANGED <<pc, outcome>>
      <4>1. \A l \in Kinds : Count(l)' = Count(l) + IF u.kind = l THEN 1 ELSE 0
        BY <1>a, <3>1, <3>4, FindingCounted DEF Written
      <4>2. /\ R' = R + (IF u.kind = "Result" THEN 1 ELSE 0)
            /\ E' = E + (IF u.kind = "ScanError" THEN 1 ELSE 0)
            /\ G' = G + (IF u.kind = "GapAborted" THEN 1 ELSE 0)
            /\ S' = S + (IF u.kind = "SweepSummary" THEN 1 ELSE 0)
            /\ F' = F + (IF u.kind = "RunEnd" THEN 1 ELSE 0)
        BY <4>1 DEF Kinds, R, E, G, S, F
      <4> HIDE DEF u
      <4> QED BY <1>b, <1>e, <1>f, <3>1, <3>2, <3>3, <3>4, <4>2 DEF BodyKinds
    <3>5. CASE pc' = "giveup" /\ UNCHANGED <<stream, outcome>>
      <4> HIDE DEF u
      <4> QED BY <1>b, <1>c, <1>e, <1>f, <3>1, <3>2, <3>3, <3>5 DEF BodyKinds
    <3> QED BY <3>1, <3>4, <3>5
  <2> QED BY <2>1, <2>2
<1>9. CASE GiveUp
  <2>1. CASE Written(Framing("RunEnd"))
    BY <1>9, <2>1, <1>b, <1>d, <1>e, <1>f DEF GiveUp, Finish, drainVars
  <2>2. CASE stream' = stream
    BY <1>9, <2>2, <1>b, <1>c, <1>e, <1>f DEF GiveUp, Finish, drainVars
  <2> QED BY <1>9, <2>1, <2>2 DEF GiveUp, Written
<1>10. CASE Summarise
  <2>1. CASE Written(Framing("SweepSummary"))
    <3>1. cur = N
      BY <1>10, <1>a DEF Summarise, DrainEnd, RanOut
    <3> QED BY <1>10, <2>1, <3>1, <1>b, <1>d, <1>e, <1>f
            DEF Summarise, Goto, WriteFails, Finish, drainVars
  <2> QED BY <1>4, <1>10, <2>1 DEF Summarise, WriteFails, Finish, drainVars
<1>11. CASE CloseCut
  <2>1. CASE Written(Framing("RunEnd")) /\ Finish("Ok")
    BY <1>11, <2>1, <1>b, <1>d, <1>e, <1>f DEF CloseCut, Finish, drainVars
  <2> QED BY <1>4, <1>11, <2>1 DEF CloseCut, WriteFails, Finish, drainVars
<1>12. CASE Close
  <2>1. CASE /\ Written(Framing("RunEnd"))
             /\ Finish(IF totals.errors > 0 THEN "HadScanErrors" ELSE "Ok")
    BY <1>12, <2>1, <1>b, <1>d, <1>e, <1>f DEF Close, Finish, drainVars
  <2> QED BY <1>4, <1>12, <2>1 DEF Close, WriteFails, Finish, drainVars
<1>13. CASE Enter \/ Expand
  BY <1>1, <1>3, <1>13 DEF Enter, Expand, Goto, Finish, drainVars
<1>14. CASE Join \/ Settle
  BY <1>1, <1>14 DEF Join, Settle, Goto, drainVars
<1>15. CASE Interrupt \/ (\E j \in Jobs : Worker(j)) \/ Stopped \/ UNCHANGED vars
  BY <1>2, <1>15 DEF Interrupt, Worker, Cover, StartJob, FinishJob, Stopped, vars, drainVars
<1> QED BY <1>5, <1>6, <1>7, <1>8, <1>9, <1>10, <1>11, <1>12, <1>13, <1>14, <1>15 DEF Next, Main

LEMMA BodiesStep ==
  ASSUME IndInv, Bodies, [Next]_vars
  PROVE  Bodies'
<1>1. /\ TypeOK /\ Cursor
      /\ IsFiniteSet(Body)
      /\ Count("Result") \in Nat /\ Count("ScanError") \in Nat /\ Count("GapAborted") \in Nat
  <2>1. TypeOK /\ Cursor
    BY DEF IndInv
  <2>2. IsFiniteSet(1..Len(stream)) /\ DOMAIN stream = 1..Len(stream)
    BY <2>1, FS_Interval, LenProperties DEF TypeOK
  <2>3. IsFiniteSet(Body)
    BY <2>2, FS_Subset DEF Body
  <2> QED BY <2>1, <2>3, Counted DEF Kinds
<1>2. CASE Still \/ Advances \/ Buffers
  BY <1>2 DEF Still, Advances, Buffers, Bodies, Body, Count
<1>3. CASE Frames
  <2>1. PICK k \in FramingKinds : stream' = Append(stream, Framing(k))
    BY <1>3 DEF Frames
  <2>2. Body' = Body
    BY <1>1, <1>3, BodyFramed
  <2>3. \A l \in BodyKinds : Count(l)' = Count(l) + 0
    BY <1>1, <2>1, FramingCounted DEF FramingKinds, BodyKinds, Kinds
  <2> QED BY <1>1, <2>2, <2>3 DEF Bodies, BodyKinds
<1>4. CASE Writes
  <2>1. Body' = Body \cup {Len(stream) + 1} /\ Len(stream) + 1 \notin Body
    BY <1>1, <1>4, BodyWritten DEF Body
  <2>2. Cardinality(Body') = Cardinality(Body) + 1
    BY <1>1, <2>1, FS_AddElement
  <2> DEFINE kind == buf[cur][fnd + 1].kind
  <2>3. /\ kind \in BodyKinds
        /\ \A l \in Kinds : Count(l)' = Count(l) + IF kind = l THEN 1 ELSE 0
    BY <1>1, <1>4, FindingCounted DEF Writes
  <2> HIDE DEF kind
  <2>4. Count("Result")' + Count("ScanError")' + Count("GapAborted")' =
          Count("Result") + Count("ScanError") + Count("GapAborted") + 1
    BY <1>1, <2>3 DEF Kinds, BodyKinds
  <2> QED BY <2>2, <2>4 DEF Bodies
<1> QED BY <1>2, <1>3, <1>4, StreamStep

LEMMA InitLedger == Init => Ledger /\ Bodies
<1> SUFFICES ASSUME Init PROVE Ledger /\ Bodies
  OBVIOUS
<1>1. stream = <<>> /\ pc = "enter" /\ DOMAIN stream = {}
  BY DEF Init
<1>2. \A k : Count(k) = 0
  <2>1. \A k : {i \in DOMAIN stream : stream[i].kind = k} = {}
    BY <1>1
  <2> QED BY <2>1, FS_EmptySet DEF Count, CountOf
<1>3. Body = {}
  BY <1>1 DEF Body
<1>4. Cardinality(Body) = 0
  BY <1>3, FS_EmptySet
<1> QED BY <1>1, <1>2, <1>4 DEF Init, Ledger, Balanced, Bodies

LEMMA LedgerInv == Spec => [](IndInv /\ Ledger /\ Bodies)
<1>1. Init => IndInv /\ Ledger /\ Bodies
  BY InitInv, InitLedger
<1>2. IndInv /\ Ledger /\ Bodies /\ [Next]_vars => (IndInv /\ Ledger /\ Bodies)'
  BY NextInv, LedgerStep, BodiesStep
<1> QED BY <1>1, <1>2, PTL DEF Spec

\* The totals are those of the stream; only a finding the sink refused is counted beside it.
THEOREM SweepTotalsMatch == Spec => []TotalsMatch
<1>1. IndInv /\ Ledger /\ Bodies => TotalsMatch
  <2> SUFFICES ASSUME IndInv, Ledger, Bodies PROVE TotalsMatch
    OBVIOUS
  <2>1. TypeOK
    BY DEF IndInv
  <2>2. \A k \in Kinds : Count(k) \in Nat /\ (Has(k) <=> Count(k) > 0)
    BY <2>1, Counted
  <2>3. /\ Has("RunEnd") <=> Count("RunEnd") > 0
        /\ Has("SweepSummary") <=> Count("SweepSummary") > 0
    BY <2>2 DEF Kinds
  <2>4. pc = "giveup" \/ (outcome = "SinkError" /\ Has("RunEnd")) =>
          totals.results + totals.errors + totals.gaps = Cardinality(Body) + 1
    BY <2>3 DEF Ledger, Balanced, Bodies
  <2>5. pc # "giveup" /\ outcome # "SinkError" =>
          /\ Has("SweepSummary") => totals.jobs = N
          /\ totals.results = Count("Result")
          /\ totals.errors = Count("ScanError")
          /\ totals.gaps = Count("GapAborted")
    BY <2>1, <2>3 DEF Ledger, Balanced, TypeOK, RunOutcomes
  <2> QED BY <2>4, <2>5 DEF TotalsMatch, Count
<1> QED BY <1>1, LedgerInv, PTL

\* HadScanErrors is for a sweep that was not cut and has a ScanError on its closed stream.
THEOREM SweepOutcomeMatches == Spec => []OutcomeMatches
<1>1. IndInv /\ Ledger => OutcomeMatches
  <2> SUFFICES ASSUME IndInv, Ledger PROVE OutcomeMatches
    OBVIOUS
  <2>1. TypeOK
    BY DEF IndInv
  <2>2. \A k \in Kinds : Count(k) \in Nat /\ (Has(k) <=> Count(k) > 0)
    BY <2>1, Counted
  <2>3. /\ Has("RunEnd") <=> Count("RunEnd") > 0
        /\ Has("SweepSummary") <=> Count("SweepSummary") > 0
        /\ Has("ScanError") <=> Count("ScanError") > 0
        /\ Count("SweepSummary") \in Nat /\ Count("ScanError") \in Nat
    BY <2>2 DEF Kinds
  <2> QED BY <2>1, <2>3 DEF Ledger, Balanced, OutcomeMatches, TypeOK, RunOutcomes
<1> QED BY <1>1, LedgerInv, PTL

----------------------------------------------------------------------------
(* The step-up test, on any p-values of a family. *)

Quotients == [num : Nat, den : Nat \ {0}]

LEMMA AtMostTotal ==
  ASSUME NEW a \in Quotients, NEW b \in Quotients
  PROVE  AtMost(a, b) \/ AtMost(b, a)
<1>1. a.num * b.den \in Nat /\ b.num * a.den \in Nat
  BY DEF Quotients
<1> QED BY <1>1 DEF AtMost

LEMMA AtMostTrans ==
  ASSUME NEW a \in Quotients, NEW b \in Quotients, NEW c \in Quotients,
         AtMost(a, b), AtMost(b, c)
  PROVE  AtMost(a, c)
<1> DEFINE x == a.num * c.den
           y == c.num * a.den
<1>1. /\ a.num \in Nat /\ b.num \in Nat /\ c.num \in Nat
      /\ a.den \in Nat \ {0} /\ b.den \in Nat \ {0} /\ c.den \in Nat \ {0}
  BY DEF Quotients
<1>2. \A p, q \in Nat, r \in Nat \ {0} : p <= q => p * r <= q * r
  OBVIOUS
<1>3. (a.num * b.den) * c.den <= (b.num * a.den) * c.den
  <2>1. a.num * b.den \in Nat /\ b.num * a.den \in Nat
    BY <1>1
  <2> QED BY <1>1, <1>2, <2>1 DEF AtMost
<1>4. (b.num * c.den) * a.den <= (c.num * b.den) * a.den
  <2>1. b.num * c.den \in Nat /\ c.num * b.den \in Nat
    BY <1>1
  <2> QED BY <1>1, <1>2, <2>1 DEF AtMost
<1>5. /\ (a.num * b.den) * c.den = x * b.den
      /\ (b.num * a.den) * c.den = (b.num * c.den) * a.den
      /\ (c.num * b.den) * a.den = y * b.den
  BY <1>1
<1>6. x \in Nat /\ y \in Nat
  BY <1>1
<1>7. x * b.den <= y * b.den
  <2>1. (a.num * b.den) * c.den \in Nat /\ (b.num * a.den) * c.den \in Nat
        /\ (c.num * b.den) * a.den \in Nat
    BY <1>1
  <2> HIDE DEF x, y
  <2> QED BY <1>3, <1>4, <1>5, <2>1
<1>8. \A p, q \in Nat, r \in Nat \ {0} : p * r <= q * r => p <= q
  OBVIOUS
<1> HIDE DEF x, y
<1>9. x <= y
  BY <1>1, <1>6, <1>7, <1>8
<1> QED BY <1>9 DEF AtMost, x, y

\* Every set of natural numbers has a least element.
LEMMA LeastCount ==
  ASSUME NEW T \in SUBSET Nat, T # {}
  PROVE  \E x \in T : \A y \in T : x <= y
<1>1. IsWellFoundedOn(OpToRel(<, Nat), Nat)
  BY NatLessThanWellFounded
<1>2. PICK x \in T : \A y \in T : ~(<<y, x>> \in OpToRel(<, Nat))
  BY <1>1, WFMin
<1>3. \A y \in T : ~(y < x)
  BY <1>2 DEF OpToRel
<1> QED BY <1>3

\* A set inside a finite one that lacks an element of it has fewer.
LEMMA Fewer ==
  ASSUME NEW T, IsFiniteSet(T), NEW S \in SUBSET T
  PROVE  /\ IsFiniteSet(S) /\ Cardinality(S) \in Nat /\ Cardinality(T) \in Nat
         /\ Cardinality(S) <= Cardinality(T)
         /\ S # T => Cardinality(S) < Cardinality(T)
         /\ S # {} => Cardinality(S) > 0
<1>1. IsFiniteSet(S) /\ Cardinality(S) <= Cardinality(T)
      /\ (Cardinality(S) = Cardinality(T) => S = T)
  BY FS_Subset
<1>2. Cardinality(S) \in Nat /\ Cardinality(T) \in Nat
  BY <1>1, FS_CardinalityType
<1>3. S # {} => Cardinality(S) # 0
  BY <1>1, FS_EmptySet
<1> QED BY <1>1, <1>2, <1>3

\* Among finitely many quotients one is the least.
LEMMA LeastQuotient ==
  ASSUME NEW J, IsFiniteSet(J), J # {}, NEW g \in [J -> Quotients]
  PROVE  \E i \in J : \A j \in J : AtMost(g[i], g[j])
<1> DEFINE Under(i) == {j \in J : AtMost(g[j], g[i])}
           size == [i \in J |-> Cardinality(Under(i))]
<1>1. \A i \in J : Under(i) \in SUBSET J /\ IsFiniteSet(Under(i)) /\ Cardinality(Under(i)) \in Nat
  <2> TAKE i \in J
  <2>1. Under(i) \in SUBSET J
    OBVIOUS
  <2> HIDE DEF Under
  <2> QED BY <2>1, Fewer
<1>2. PICK i \in J : \A j \in J : Cardinality(Under(i)) <= Cardinality(Under(j))
  <2>1. size \in [J -> Nat]
    BY <1>1
  <2> HIDE DEF size
  <2> DEFINE T == {size[i] : i \in J}
  <2>2. T \in SUBSET Nat /\ T # {}
    BY <2>1
  <2>4. PICK x \in T : \A y \in T : x <= y
    <3> HIDE DEF T
    <3> QED BY <2>2, LeastCount
  <2>5. PICK m \in J : x = size[m]
    OBVIOUS
  <2>6. \A j \in J : size[j] \in T
    OBVIOUS
  <2>3. \E i \in J : \A j \in J : size[i] <= size[j]
    <3> HIDE DEF T
    <3> QED BY <2>4, <2>5, <2>6
  <2> QED BY <2>3 DEF size
<1>3. ASSUME NEW j \in J, ~AtMost(g[i], g[j]) PROVE FALSE
  <2>1. g[i] \in Quotients /\ g[j] \in Quotients
    OBVIOUS
  <2>2. AtMost(g[j], g[i])
    BY <1>3, <2>1, AtMostTotal
  <2>3. Under(j) \in SUBSET Under(i)
    <3> SUFFICES ASSUME NEW m \in J, AtMost(g[m], g[j]) PROVE AtMost(g[m], g[i])
      OBVIOUS
    <3>1. g[m] \in Quotients
      OBVIOUS
    <3> QED BY <2>1, <2>2, <3>1, AtMostTrans
  <2>4. i \in Under(i) /\ i \notin Under(j)
    BY <1>3, <2>1, AtMostTotal
  <2>5. Under(i) # Under(j)
    BY <2>4
  <2> HIDE DEF Under
  <2>6. Cardinality(Under(j)) < Cardinality(Under(i))
    BY <1>1, <2>3, <2>5, Fewer
  <2> QED BY <1>1, <1>2, <2>6
<1> QED BY <1>3

----------------------------------------------------------------------------
(* Ranks. *)

\* ps are the p-values of a family of n.
Family(ps, n) == n \in Nat /\ ps \in [1..n -> 0..Scale]

Ranked(ps, i) == {j \in DOMAIN ps : ps[j] < ps[i] \/ (ps[j] = ps[i] /\ j <= i)}
Lower(ps, p) == {m \in DOMAIN ps : ps[m] <= p}

LEMMA RankFacts ==
  ASSUME NEW n, NEW ps, Family(ps, n), NEW i \in 1..n
  PROVE  /\ Numbers(ps) = 1..n /\ Cardinality(1..n) = n
         /\ Rank(ps, i) = Cardinality(Ranked(ps, i))
         /\ Within(ps, ps[i]) = Cardinality(Lower(ps, ps[i]))
         /\ IsFiniteSet(Ranked(ps, i)) /\ IsFiniteSet(Lower(ps, ps[i]))
         /\ Rank(ps, i) \in Nat \ {0} /\ Within(ps, ps[i]) \in Nat
         /\ Rank(ps, i) <= Within(ps, ps[i]) /\ Within(ps, ps[i]) <= n
<1>1. n \in Nat /\ DOMAIN ps = 1..n /\ (\A j \in 1..n : ps[j] \in 0..Scale /\ ps[j] \in Nat)
  BY FdrAssumption DEF Family
<1>2. Numbers(ps) = 1..n
  BY <1>1 DEF Numbers, NaN
<1>3. IsFiniteSet(1..n) /\ Cardinality(1..n) = n
  BY <1>1, FS_Interval
<1>4. Rank(ps, i) = Cardinality(Ranked(ps, i))
  BY <1>1, <1>2 DEF Rank, Ranked
<1>5. Within(ps, ps[i]) = Cardinality(Lower(ps, ps[i]))
  BY DEF Within, Lower
<1>6. Ranked(ps, i) \in SUBSET Lower(ps, ps[i]) /\ Lower(ps, ps[i]) \in SUBSET (1..n)
      /\ i \in Ranked(ps, i)
  BY <1>1 DEF Ranked, Lower
<1>7. IsFiniteSet(Lower(ps, ps[i])) /\ Cardinality(Lower(ps, ps[i])) \in Nat
      /\ Cardinality(Lower(ps, ps[i])) <= n
  BY <1>3, <1>6, Fewer
<1>8. IsFiniteSet(Ranked(ps, i)) /\ Cardinality(Ranked(ps, i)) \in Nat
      /\ Cardinality(Ranked(ps, i)) > 0
      /\ Cardinality(Ranked(ps, i)) <= Cardinality(Lower(ps, ps[i]))
  BY <1>6, <1>7, Fewer
<1> QED BY <1>2, <1>3, <1>4, <1>5, <1>7, <1>8

\* A higher rank is no lower p-value.
LEMMA RankOrder ==
  ASSUME NEW n, NEW ps, Family(ps, n), NEW i \in 1..n, NEW j \in 1..n,
         Rank(ps, j) >= Rank(ps, i)
  PROVE  ps[i] <= ps[j]
<1>1. DOMAIN ps = 1..n /\ (\A k \in 1..n : ps[k] \in Nat) /\ n \in Nat
  BY FdrAssumption DEF Family
<1> SUFFICES ASSUME ps[j] < ps[i] PROVE FALSE
  BY <1>1
<1>2. Ranked(ps, j) \in SUBSET Ranked(ps, i)
  BY <1>1 DEF Ranked
<1>3. i \in Ranked(ps, i) /\ i \notin Ranked(ps, j)
  BY <1>1 DEF Ranked
<1>4. Cardinality(Ranked(ps, j)) < Cardinality(Ranked(ps, i))
  <2>1. Ranked(ps, j) # Ranked(ps, i)
    BY <1>3
  <2> QED BY <1>2, <2>1, RankFacts, Fewer
<1>5. /\ Rank(ps, i) = Cardinality(Ranked(ps, i)) /\ Rank(ps, j) = Cardinality(Ranked(ps, j))
      /\ Rank(ps, i) \in Nat /\ Rank(ps, j) \in Nat
  BY RankFacts
<1> QED BY <1>4, <1>5

\* The last of those that tie has as rank the number of those that are no higher, and
\* no p-value up to it has a higher rank.
LEMMA LastOfTies ==
  ASSUME NEW n, NEW ps, Family(ps, n), NEW k \in 1..n
  PROVE  \E t \in 1..n : /\ ps[t] = ps[k] /\ Rank(ps, t) = Within(ps, ps[k])
                         /\ \A i \in 1..n : ps[i] <= ps[k] => Rank(ps, t) >= Rank(ps, i)
<1>1. DOMAIN ps = 1..n /\ (\A m \in 1..n : ps[m] \in Nat) /\ n \in Nat
  BY FdrAssumption DEF Family
<1> DEFINE Ties == {m \in 1..n : ps[m] = ps[k]}
           Rest == {n - m : m \in Ties}
<1>2. PICK t \in Ties : \A m \in Ties : m <= t
  <2>1. Rest \in SUBSET Nat /\ Rest # {}
    BY <1>1
  <2>2. PICK x \in Rest : \A y \in Rest : x <= y
    BY <2>1, LeastCount
  <2>3. PICK t \in Ties : x = n - t
    OBVIOUS
  <2>4. ASSUME NEW m \in Ties PROVE m <= t
    <3>1. n - m \in Rest
      OBVIOUS
    <3>2. n - t <= n - m
      BY <2>2, <2>3, <3>1
    <3> QED BY <1>1, <3>2
  <2> QED BY <2>4
<1>3. t \in 1..n /\ ps[t] = ps[k]
  OBVIOUS
<1>4. Ranked(ps, t) = Lower(ps, ps[k])
  BY <1>1, <1>2, <1>3 DEF Ranked, Lower
<1>5. Rank(ps, t) = Within(ps, ps[k])
  BY <1>3, <1>4, RankFacts
<1>6. ASSUME NEW i \in 1..n, ps[i] <= ps[k] PROVE Rank(ps, t) >= Rank(ps, i)
  <2>1. Ranked(ps, i) \in SUBSET Lower(ps, ps[k])
    BY <1>1, <1>6 DEF Ranked, Lower
  <2>2. IsFiniteSet(Lower(ps, ps[k])) /\ Rank(ps, i) = Cardinality(Ranked(ps, i))
        /\ Rank(ps, t) = Cardinality(Lower(ps, ps[k]))
    BY <1>3, <1>5, RankFacts
  <2>3. Cardinality(Ranked(ps, i)) <= Cardinality(Lower(ps, ps[k]))
        /\ Cardinality(Ranked(ps, i)) \in Nat /\ Cardinality(Lower(ps, ps[k])) \in Nat
    BY <2>1, <2>2, Fewer
  <2> QED BY <2>2, <2>3
<1> QED BY <1>3, <1>5, <1>6

\* No p-value is above the highest, within which they all are.
LEMMA Highest ==
  ASSUME NEW n, NEW ps, Family(ps, n), n # 0
  PROVE  \E h \in 1..n : (\A m \in 1..n : ps[m] <= ps[h]) /\ Within(ps, ps[h]) = n
<1>1. DOMAIN ps = 1..n /\ (\A m \in 1..n : ps[m] \in 0..Scale) /\ n \in Nat /\ Scale \in Nat
  BY FdrAssumption DEF Family
<1> DEFINE Rest == {Scale - ps[m] : m \in 1..n}
<1>2. PICK h \in 1..n : \A m \in 1..n : ps[m] <= ps[h]
  <2>1. Rest \in SUBSET Nat /\ Rest # {}
    <3>1. \A m \in 1..n : Scale - ps[m] \in Nat
      BY <1>1
    <3>2. 1 \in 1..n
      BY <1>1
    <3> QED BY <3>1, <3>2
  <2>2. PICK x \in Rest : \A y \in Rest : x <= y
    BY <2>1, LeastCount
  <2>3. PICK h \in 1..n : x = Scale - ps[h]
    OBVIOUS
  <2>4. ASSUME NEW m \in 1..n PROVE ps[m] <= ps[h]
    <3>1. Scale - ps[m] \in Rest
      OBVIOUS
    <3>2. Scale - ps[h] <= Scale - ps[m]
      BY <2>2, <2>3, <3>1
    <3> QED BY <1>1, <3>2
  <2> QED BY <2>4
<1>3. Lower(ps, ps[h]) = 1..n
  BY <1>1, <1>2 DEF Lower
<1> QED BY <1>2, <1>3, RankFacts

----------------------------------------------------------------------------
(* bh_fdr and the step-up test. *)

LEMMA RawFacts ==
  ASSUME NEW n, NEW ps, Family(ps, n), NEW i \in 1..n
  PROVE  /\ RawQ(ps, i) \in Quotients /\ One \in Quotients
         /\ LET q == [num |-> ps[i] * n, den |-> Rank(ps, i)]
            IN q \in Quotients /\ RawQ(ps, i) = IF AtMost(q, One) THEN q ELSE One
<1>1. ps[i] \in Nat /\ n \in Nat /\ Scale \in Nat
  BY FdrAssumption DEF Family
<1>2. Numbers(ps) = 1..n /\ Cardinality(1..n) = n /\ Rank(ps, i) \in Nat \ {0}
  BY RankFacts
<1> DEFINE q == [num |-> ps[i] * n, den |-> Rank(ps, i)]
<1>3. q \in Quotients /\ One \in Quotients
  <2>1. ps[i] * n \in Nat
    BY <1>1
  <2> QED BY <1>1, <1>2, <2>1 DEF Quotients, One
<1>4. RawQ(ps, i) = IF AtMost(q, One) THEN q ELSE One
  BY <1>2 DEF RawQ
<1> HIDE DEF q
<1>5. RawQ(ps, i) \in Quotients
  BY <1>3, <1>4
<1> QED BY <1>3, <1>4, <1>5 DEF q

\* The q-value is the least of the raw ones from its rank on.
LEMMA BhLeast ==
  ASSUME NEW n, NEW ps, Family(ps, n), NEW i \in 1..n
  PROVE  /\ BhFdr(ps)[i] \in Quotients
         /\ \E j \in 1..n : Rank(ps, j) >= Rank(ps, i) /\ BhFdr(ps)[i] = RawQ(ps, j)
         /\ \A j \in 1..n : Rank(ps, j) >= Rank(ps, i) => AtMost(BhFdr(ps)[i], RawQ(ps, j))
<1>1. DOMAIN ps = 1..n /\ ps[i] # NaN /\ n \in Nat
  BY FdrAssumption DEF Family, NaN
<1>2. Numbers(ps) = 1..n /\ IsFiniteSet(1..n) /\ Rank(ps, i) \in Nat
  BY <1>1, RankFacts, FS_Interval
<1> DEFINE J == {k \in 1..n : Rank(ps, k) >= Rank(ps, i)}
           seen == {RawQ(ps, j) : j \in J}
           g == [j \in J |-> RawQ(ps, j)]
<1>3. BhFdr(ps)[i] = CHOOSE q \in seen : \A r \in seen : AtMost(q, r)
  BY <1>1, <1>2 DEF BhFdr
<1>4. IsFiniteSet(J) /\ J # {} /\ J \in SUBSET (1..n)
  <2>1. i \in J /\ J \in SUBSET (1..n)
    BY <1>2
  <2> HIDE DEF J
  <2> QED BY <1>2, <2>1, Fewer
<1>5. g \in [J -> Quotients]
  BY RawFacts
<1>6. \E j \in J : \A k \in J : AtMost(g[j], g[k])
  <2> HIDE DEF J, g
  <2> QED BY <1>4, <1>5, LeastQuotient
<1>7. \E q \in seen : \A r \in seen : AtMost(q, r)
  BY <1>6
<1>8. BhFdr(ps)[i] \in seen /\ \A r \in seen : AtMost(BhFdr(ps)[i], r)
  <2> HIDE DEF seen
  <2> QED BY <1>3, <1>7
<1>9. PICK j \in J : BhFdr(ps)[i] = RawQ(ps, j)
  BY <1>8
<1> QED BY <1>8, <1>9, RawFacts

\* A level that is met by a hypothesis: its p-value is within its share of it.
Meets(ps, n, level, k) == ps[k] * n * level.den <= level.num * Within(ps, ps[k])

\* A level that is not below the quotient by the rank is met.
LEMMA RankMeets ==
  ASSUME NEW n, NEW ps, Family(ps, n), NEW j \in 1..n, NEW level \in Quotients,
         AtMost([num |-> ps[j] * n, den |-> Rank(ps, j)], level)
  PROVE  Meets(ps, n, level, j)
<1>1. Rank(ps, j) \in Nat /\ Within(ps, ps[j]) \in Nat /\ Rank(ps, j) <= Within(ps, ps[j])
  BY RankFacts
<1>2. level.num \in Nat
  BY DEF Quotients
<1>3. level.num * Rank(ps, j) <= level.num * Within(ps, ps[j])
  <2>1. \A a, b, c \in Nat : b <= c => a * b <= a * c
    OBVIOUS
  <2> QED BY <1>1, <1>2, <2>1
<1>4. ps[j] * n * level.den <= level.num * Rank(ps, j)
  BY DEF AtMost
<1>5. ps[j] * n * level.den \in Nat /\ level.num * Rank(ps, j) \in Nat
      /\ level.num * Within(ps, ps[j]) \in Nat
  <2>1. ps[j] \in Nat /\ n \in Nat /\ level.den \in Nat
    BY FdrAssumption DEF Family, Quotients
  <2>2. ps[j] * n \in Nat
    BY <2>1
  <2> QED BY <1>1, <1>2, <2>1, <2>2
<1> QED BY <1>3, <1>4, <1>5 DEF Meets

\* The level 1.0 rejects all of them, by the highest.
LEMMA OneMeets ==
  ASSUME NEW n, NEW ps, Family(ps, n), NEW h \in 1..n, Within(ps, ps[h]) = n,
         NEW level \in Quotients, AtMost(One, level)
  PROVE  Meets(ps, n, level, h)
<1>1. /\ ps[h] \in 0..Scale /\ ps[h] \in Nat /\ n \in Nat /\ Scale \in Nat
      /\ level.num \in Nat /\ level.den \in Nat
  BY FdrAssumption DEF Family, Quotients
<1>2. Scale * level.den <= level.num
  BY <1>1 DEF AtMost, One
<1>3. \A a, b, c \in Nat : a <= b => a * c <= b * c
  OBVIOUS
<1>4. ps[h] * level.den <= Scale * level.den /\ ps[h] * level.den \in Nat
      /\ Scale * level.den \in Nat
  BY <1>1, <1>3
<1>5. ps[h] * level.den <= level.num
  BY <1>1, <1>2, <1>4
<1>6. (ps[h] * level.den) * n <= level.num * n
  BY <1>1, <1>3, <1>4, <1>5
<1>7. (ps[h] * level.den) * n = ps[h] * n * level.den
  BY <1>1
<1> QED BY <1>6, <1>7 DEF Meets

\* For every level, the step-up test rejects exactly those whose q-value is not above it.
LEMMA StepUp ==
  ASSUME NEW n, NEW ps, Family(ps, n), NEW i \in 1..n, NEW level \in Quotients
  PROVE  Rejects(ps, level, ps[i]) <=> AtMost(BhFdr(ps)[i], level)
<1>1. DOMAIN ps = 1..n /\ n \in Nat /\ n # 0 /\ (\A m \in 1..n : ps[m] \in Nat)
  BY FdrAssumption DEF Family
<1>2. Rejects(ps, level, ps[i]) <=> \E k \in 1..n : ps[i] <= ps[k] /\ Meets(ps, n, level, k)
  BY <1>1, RankFacts DEF Rejects, Meets
<1>3. BhFdr(ps)[i] \in Quotients
  BY BhLeast
<1>4. ASSUME AtMost(BhFdr(ps)[i], level)
      PROVE  \E k \in 1..n : ps[i] <= ps[k] /\ Meets(ps, n, level, k)
  <2>1. PICK j \in 1..n : Rank(ps, j) >= Rank(ps, i) /\ BhFdr(ps)[i] = RawQ(ps, j)
    BY BhLeast
  <2> DEFINE q == [num |-> ps[j] * n, den |-> Rank(ps, j)]
  <2>2. RawQ(ps, j) = IF AtMost(q, One) THEN q ELSE One
    BY RawFacts
  <2>3. CASE AtMost(q, level)
    BY <2>1, <2>3, RankOrder, RankMeets
  <2>4. CASE AtMost(One, level)
    <3>1. PICK h \in 1..n : (\A m \in 1..n : ps[m] <= ps[h]) /\ Within(ps, ps[h]) = n
      BY <1>1, Highest
    <3> QED BY <2>4, <3>1, OneMeets
  <2> QED BY <1>4, <2>1, <2>2, <2>3, <2>4
<1>5. ASSUME NEW k \in 1..n, ps[i] <= ps[k], Meets(ps, n, level, k)
      PROVE  AtMost(BhFdr(ps)[i], level)
  <2>1. PICK t \in 1..n : /\ ps[t] = ps[k] /\ Rank(ps, t) = Within(ps, ps[k])
                          /\ Rank(ps, t) >= Rank(ps, i)
    BY <1>5, LastOfTies
  <2> DEFINE q == [num |-> ps[t] * n, den |-> Rank(ps, t)]
  <2>2. q \in Quotients /\ One \in Quotients /\ RawQ(ps, t) = IF AtMost(q, One) THEN q ELSE One
    BY RawFacts
  <2>3. AtMost(q, level)
    BY <1>5, <2>1 DEF Meets, AtMost
  <2> HIDE DEF q
  <2>4. AtMost(RawQ(ps, t), level) /\ RawQ(ps, t) \in Quotients
    <3>1. CASE AtMost(q, One)
      BY <2>2, <2>3, <3>1
    <3>2. CASE ~AtMost(q, One)
      <4>1. AtMost(One, q)
        BY <2>2, <3>2, AtMostTotal
      <4> QED BY <2>2, <2>3, <3>2, <4>1, AtMostTrans
    <3> QED BY <3>1, <3>2
  <2>5. AtMost(BhFdr(ps)[i], RawQ(ps, t))
    BY <2>1, BhLeast
  <2> QED BY <1>3, <2>4, <2>5, AtMostTrans
<1> QED BY <1>2, <1>4, <1>5

----------------------------------------------------------------------------
(* The families and the stream. *)

\* Every finding on the stream is of a job.
Labelled == \A k \in DOMAIN stream : stream[k].kind \in BodyKinds => k \in Body

\* Where the Results with a p-value of family f are on the stream, and their ranks there.
Places(f) == {m \in DOMAIN stream : Carries(f, stream[m])}
Nth(f, k) == Cardinality({m \in Places(f) : m <= k})

\* A family names them in this order; the drain is ahead by one where the sink refused one.
InStep(f) == /\ Len(families[f]) = Cardinality(Places(f))
             /\ \A k \in Places(f) : families[f][Nth(f, k)] = Place(stream[k])
Due == pc \notin {"giveup", "done"} \/ Has("SweepSummary")
Followed == Due => \A f \in Families : InStep(f)

LEMMA LabelledStep ==
  ASSUME IndInv, Labelled, [Next]_vars
  PROVE  Labelled'
<1>1. TypeOK /\ Cursor
  BY DEF IndInv
<1>2. CASE Still \/ Advances \/ Buffers
  BY <1>2 DEF Still, Advances, Buffers, Labelled, Body
<1>3. CASE Frames
  <2>1. PICK k \in FramingKinds : stream' = Append(stream, Framing(k))
    BY <1>3 DEF Frames
  <2>2. Framing(k) \in Envelope /\ Framing(k).kind \notin BodyKinds
    BY FramingType DEF FramingKinds, Framing
  <2> QED BY <1>1, <2>1, <2>2, Appended DEF Labelled, Body
<1>4. CASE Writes
  <2>1. stream' = Append(stream, Finding(cur, fnd + 1)) /\ Finding(cur, fnd + 1) \in Envelope
    BY <1>1, <1>4, NextFinding DEF Writes
  <2>2. Body' = Body \cup {Len(stream) + 1}
    BY <1>1, <1>4, BodyWritten
  <2> QED BY <1>1, <2>1, <2>2, Appended DEF Labelled
<1> QED BY <1>2, <1>3, <1>4, StreamStep

\* A step that leaves the families in need of agreeing writes a finding and scopes it, or
\* does neither.
LEMMA FamiliesStep ==
  ASSUME IndInv, Ledger, [Next]_vars, Due'
  PROVE  /\ Due
         /\ \/ (Still \/ Frames \/ Advances \/ Buffers) /\ families' = families
            \/ Writes /\ Scope(cur, fnd + 1)
<1>1. TypeOK
  BY DEF IndInv
<1>2. Has("SweepSummary") => pc \in {"close", "done"}
  <2>1. Has("SweepSummary") => Count("SweepSummary") > 0
    BY <1>1, Counted DEF Kinds
  <2> QED BY <2>1 DEF Ledger, Balanced
<1>3. CASE DrainOne
  <2>1. pc = "drain" /\ Due
    BY <1>3 DEF DrainOne, Due
  <2>2. CASE cancel
    BY <1>3, <2>1, <2>2 DEF DrainOne, Still, Manifest, poolVars
  <2>3. CASE ~cancel
    <3>1. Scope(cur, fnd + 1) /\ UNCHANGED <<work, buf, cur>> /\ ~JobDrained
      BY <1>3, <2>3 DEF DrainOne, Manifest, poolVars
    <3>2. CASE Written(Finding(cur, fnd + 1)) /\ fnd' = fnd + 1
      BY <2>1, <2>3, <3>1, <3>2 DEF Writes, Written
    <3>3. CASE pc' = "giveup" /\ stream' = stream
      BY <1>2, <2>1, <3>3 DEF Due, Has
    <3> QED BY <1>3, <2>3, <3>2, <3>3 DEF DrainOne, Goto
  <2> QED BY <2>2, <2>3
<1>4. CASE ~DrainOne
  <2>1. ~Writes
    <3>1. pc = "drain" => UNCHANGED stream
      BY <1>4 DEF Next, Main, Interrupt, Enter, OpenRun, Expand, MakePlan, Join, NextJob,
         GiveUp, Settle, Summarise, CloseCut, Close, Stopped, Worker, Cover, StartJob,
         FinishJob, vars
    <3>2. Writes => pc = "drain" /\ Len(stream') = Len(stream) + 1 /\ Len(stream) \in Nat
      <4>1. Writes => stream' = Append(stream, Finding(cur, fnd + 1)) /\ pc = "drain"
        BY DEF Writes
      <4> QED BY <1>1, <4>1, AppendProperties, LenProperties DEF TypeOK
    <3> QED BY <3>1, <3>2
  <2>2. families' = families
    BY <1>4 DEF Next, Main, Interrupt, Enter, OpenRun, Expand, MakePlan, Join, NextJob,
       GiveUp, Settle, Summarise, CloseCut, Close, Stopped, Worker, Cover, StartJob,
       FinishJob, vars, drainVars
  <2>3. Due
    <3>1. CASE GiveUp
      <4>1. ~Has("SweepSummary") /\ pc' = "done"
        BY <1>2, <3>1 DEF GiveUp, Finish
      <4>2. ~Has("SweepSummary")'
        <5>1. CASE stream' = stream
          BY <4>1, <5>1 DEF Has
        <5>2. CASE stream' = Append(stream, Framing("RunEnd"))
          <6>1. Framing("RunEnd") \in Envelope /\ Framing("RunEnd").kind = "RunEnd"
            BY FramingType DEF Kinds, Framing
          <6> QED BY <1>1, <4>1, <5>2, <6>1, Appended DEF Has
        <5> QED BY <3>1, <5>1, <5>2 DEF GiveUp
      <4> QED BY <4>1, <4>2 DEF Due
    <3>2. CASE ~GiveUp
      <4>1. pc # "giveup" \/ UNCHANGED <<pc, stream>>
        BY <1>4, <3>2 DEF Next, Main, Interrupt, Enter, OpenRun, Expand, MakePlan, Join,
           NextJob, Settle, Summarise, CloseCut, Close, Stopped, Worker, Cover, StartJob,
           FinishJob, vars
      <4>2. pc # "done" \/ UNCHANGED <<pc, stream>>
        BY <1>4, <3>2 DEF Next, Main, Interrupt, Enter, OpenRun, Expand, MakePlan, Join,
           NextJob, Settle, Summarise, CloseCut, Close, Stopped, Worker, Cover, StartJob,
           FinishJob, vars
      <4> QED BY <4>1, <4>2 DEF Due, Has
    <3> QED BY <3>1, <3>2
  <2> QED BY <2>1, <2>2, <2>3, StreamStep
<1> QED BY <1>3, <1>4

\* Ranks on the stream are from 1 to their number.
LEMMA PlacesFacts ==
  ASSUME TypeOK, NEW f
  PROVE  /\ IsFiniteSet(Places(f)) /\ Cardinality(Places(f)) \in Nat
         /\ Places(f) \in SUBSET (1..Len(stream)) /\ Len(stream) \in Nat
         /\ \A k \in Places(f) : Nth(f, k) \in 1..Cardinality(Places(f))
<1>1. IsFiniteSet(1..Len(stream)) /\ DOMAIN stream = 1..Len(stream) /\ Len(stream) \in Nat
  BY FS_Interval, LenProperties DEF TypeOK
<1>2. Places(f) \in SUBSET (1..Len(stream))
  BY <1>1 DEF Places
<1>3. IsFiniteSet(Places(f)) /\ Cardinality(Places(f)) \in Nat
  BY <1>1, <1>2, Fewer
<1>4. ASSUME NEW k \in Places(f) PROVE Nth(f, k) \in 1..Cardinality(Places(f))
  <2> DEFINE S == {m \in Places(f) : m <= k}
  <2>1. S \in SUBSET Places(f) /\ k \in S
    BY <1>1, <1>2
  <2> HIDE DEF S
  <2>2. /\ Cardinality(S) \in Nat /\ Cardinality(S) > 0
        /\ Cardinality(S) <= Cardinality(Places(f))
    BY <1>3, <2>1, Fewer
  <2> QED BY <1>3, <2>2 DEF Nth, S
<1> QED BY <1>1, <1>2, <1>3, <1>4

\* What is carried is read from buffers that no longer change.
LEMMA PlacesLater ==
  ASSUME buf' = buf, NEW f
  PROVE  Places(f)' = {m \in DOMAIN stream' : Carries(f, stream'[m])}
BY DEF Places, Carries

\* A finding that joins family f comes last in it; any other leaves it alone.
LEMMA FollowedFinding ==
  ASSUME IndInv, Writes, Scope(cur, fnd + 1), NEW f \in Families, InStep(f)
  PROVE  InStep(f)'
<1> DEFINE u == buf[cur][fnd + 1]
<1>0. PICK new : new = Len(stream) + 1
  OBVIOUS
<1>1. TypeOK /\ Cursor
  BY DEF IndInv
<1>2. /\ stream' = Append(stream, Finding(cur, fnd + 1)) /\ Finding(cur, fnd + 1) \in Envelope
      /\ UNCHANGED <<buf, cur>> /\ cur \in Jobs
  BY <1>1, NextFinding DEF Writes
<1>3. /\ DOMAIN stream = 1..Len(stream) /\ DOMAIN stream' = 1..new /\ Len(stream) \in Nat
      /\ \A k \in DOMAIN stream : stream'[k] = stream[k]
      /\ stream'[new] = Finding(cur, fnd + 1)
  BY <1>0, <1>1, <1>2, Appended
<1>4. /\ stream'[new].kind = u.kind /\ stream'[new].job = cur /\ stream'[new].idx = fnd + 1
  BY <1>3 DEF Finding
<1>5. Carries(f, stream'[new]) <=> u.kind = "Result" /\ Scopes[cur] = f /\ u.p \notin {NaN, Absent}
  BY <1>4 DEF Carries
<1>6. Places(f)' = {m \in DOMAIN stream' : Carries(f, stream'[m])}
  BY <1>2, PlacesLater
<1>7. /\ families \in [Families -> Seq(Jobs \X Nat)] /\ fnd \in Nat
      /\ f # NoFamily /\ (Scopes[cur] # NoFamily => Scopes[cur] \in Families)
  BY <1>1, <1>2 DEF TypeOK, Families
<1>8. /\ IsFiniteSet(Places(f)) /\ Cardinality(Places(f)) \in Nat
      /\ Places(f) \in SUBSET (1..Len(stream))
      /\ \A k \in Places(f) : Nth(f, k) \in 1..Cardinality(Places(f))
  BY <1>1, PlacesFacts
<1>9. Len(families[f]) = Cardinality(Places(f)) /\ families[f] \in Seq(Jobs \X Nat)
      /\ \A k \in Places(f) : families[f][Nth(f, k)] = Place(stream[k])
  BY <1>7 DEF InStep
<1>10. CASE Carries(f, stream'[new])
  <2>1. Places(f)' = Places(f) \cup {new} /\ new \notin Places(f)
    BY <1>0, <1>3, <1>6, <1>10 DEF Places
  <2>2. Cardinality(Places(f)') = Cardinality(Places(f)) + 1
    BY <1>8, <2>1, FS_AddElement
  <2>3. families'[f] = Append(families[f], <<cur, fnd + 1>>)
    BY <1>5, <1>7, <1>10 DEF Scope
  <2>4. /\ Len(families'[f]) = Len(families[f]) + 1
        /\ \A i \in 1..Len(families[f]) : families'[f][i] = families[f][i]
        /\ families'[f][Len(families[f]) + 1] = <<cur, fnd + 1>>
    <3>1. <<cur, fnd + 1>> \in Jobs \X Nat
      BY <1>2, <1>7
    <3> HIDE DEF u
    <3> QED BY <1>9, <2>3, <3>1, AppendProperties
  <2>5. ASSUME NEW k \in Places(f)
        PROVE  families'[f][Nth(f, k)'] = Place(stream[k])'
    <3>1. k < new /\ k \in DOMAIN stream
      BY <1>0, <1>3, <1>8
    <3>2. {m \in Places(f)' : m <= k} = {m \in Places(f) : m <= k}
      <4>1. k \in Nat /\ new \in Nat /\ ~(new <= k)
        BY <1>0, <1>3, <3>1
      <4> QED BY <2>1, <4>1
    <3>3. Nth(f, k)' = Nth(f, k)
      BY <3>2 DEF Nth
    <3>4. Place(stream[k])' = Place(stream[k])
      BY <1>3, <3>1 DEF Place
    <3> QED BY <1>8, <1>9, <2>4, <3>3, <3>4
  <2>6. families'[f][Nth(f, new)'] = <<cur, fnd + 1>>
    <3>1. {m \in Places(f)' : m <= new} = Places(f)'
      BY <1>0, <1>3, <1>8, <2>1
    <3>2. Nth(f, new)' = Cardinality(Places(f)')
      BY <3>1 DEF Nth
    <3> QED BY <1>9, <2>2, <2>4, <3>2
  <2>7. Place(stream[new])' = <<cur, fnd + 1>>
    BY <1>4 DEF Place
  <2> QED BY <1>9, <2>1, <2>2, <2>4, <2>5, <2>6, <2>7 DEF InStep
<1>11. CASE ~Carries(f, stream'[new])
  <2>1. Places(f)' = Places(f)
    BY <1>0, <1>3, <1>6, <1>11 DEF Places
  <2>2. families'[f] = families[f]
    BY <1>5, <1>7, <1>11 DEF Scope
  <2>3. \A k \in Places(f) : Nth(f, k)' = Nth(f, k) /\ Place(stream[k])' = Place(stream[k])
    BY <1>3, <1>8, <2>1 DEF Nth, Place
  <2> QED BY <1>9, <2>1, <2>2, <2>3 DEF InStep
<1> QED BY <1>10, <1>11

LEMMA FollowedStep ==
  ASSUME IndInv, Ledger, Labelled, Followed, [Next]_vars
  PROVE  Followed'
<1> SUFFICES ASSUME Due', NEW f \in Families
             PROVE  InStep(f)'
  <2>1. Families' = Families
    BY DEF Families
  <2> QED BY <2>1 DEF Followed
<1>1. TypeOK /\ Cursor /\ OnlyPassed
  BY DEF IndInv
<1>2. InStep(f)
  BY FamiliesStep DEF Followed
<1>3. /\ IsFiniteSet(Places(f)) /\ Places(f) \in SUBSET DOMAIN stream
  BY <1>1, PlacesFacts DEF Places
<1>4. ASSUME families' = families, Places(f)' = Places(f), NEW k \in DOMAIN stream,
             \A m \in DOMAIN stream : stream'[m] = stream[m]
      PROVE  Nth(f, k)' = Nth(f, k) /\ Place(stream[k])' = Place(stream[k])
  BY <1>4 DEF Nth, Place
<1>5. ASSUME families' = families, Places(f)' = Places(f),
             \A m \in DOMAIN stream : stream'[m] = stream[m]
      PROVE  InStep(f)'
  BY <1>2, <1>3, <1>4, <1>5 DEF InStep
<1>6. CASE (Still \/ Advances) /\ families' = families
  <2>1. stream' = stream /\ Places(f)' = Places(f)
    BY <1>6 DEF Still, Advances, Places, Carries
  <2> QED BY <1>5, <1>6, <2>1
<1>7. CASE Frames /\ families' = families
  <2>1. PICK k \in FramingKinds : stream' = Append(stream, Framing(k)) /\ buf' = buf
    BY <1>7 DEF Frames
  <2>2. Framing(k) \in Envelope /\ Framing(k).kind # "Result"
    BY FramingType DEF FramingKinds, Framing, BodyKinds
  <2>3. /\ DOMAIN stream' = 1..(Len(stream) + 1) /\ DOMAIN stream = 1..Len(stream)
        /\ Len(stream) \in Nat
        /\ \A m \in DOMAIN stream : stream'[m] = stream[m]
        /\ stream'[Len(stream) + 1] = Framing(k)
    BY <1>1, <2>1, <2>2, Appended
  <2>4. Places(f)' = {m \in DOMAIN stream' : Carries(f, stream'[m])}
    BY <2>1, PlacesLater
  <2>5. ~Carries(f, stream'[Len(stream) + 1])
    BY <2>2, <2>3 DEF Carries
  <2>6. Places(f)' = Places(f)
    BY <2>3, <2>4, <2>5 DEF Places
  <2> QED BY <1>5, <1>7, <2>3, <2>6
<1>8. CASE Buffers /\ families' = families
  <2>1. stream' = stream /\ Body = {}
    BY <1>1, <1>8, NothingYet DEF Buffers
  <2>2. \A m \in DOMAIN stream : stream[m].kind # "Result"
    BY <2>1 DEF Labelled, BodyKinds
  <2>3. Places(f) = {} /\ Places(f)' = {}
    BY <2>1, <2>2 DEF Places, Carries
  <2> QED BY <1>5, <1>8, <2>1, <2>3
<1>9. CASE Writes /\ Scope(cur, fnd + 1)
  BY <1>2, <1>9, FollowedFinding
<1> QED BY <1>6, <1>7, <1>8, <1>9, FamiliesStep

LEMMA InitFollowed == Init => Labelled /\ Followed
<1> SUFFICES ASSUME Init PROVE Labelled /\ \A f \in Families : InStep(f)
  BY DEF Followed
<1>1. stream = <<>> /\ DOMAIN stream = {} /\ families = [f \in Families |-> <<>>]
  BY DEF Init
<1>2. \A f \in Families : Places(f) = {} /\ Len(families[f]) = 0
  BY <1>1 DEF Places
<1> QED BY <1>1, <1>2, FS_EmptySet DEF Labelled, InStep

----------------------------------------------------------------------------
(* The q-values and the p-values on the stream. *)

\* The test asks for p-values, and not where they are.
LEMMA Moved ==
  ASSUME NEW n, NEW qs, Family(qs, n), NEW ps, IsFiniteSet(DOMAIN ps),
         NEW b \in Bijection(DOMAIN ps, 1..n), \A k \in DOMAIN ps : qs[b[k]] = ps[k]
  PROVE  /\ Cardinality(DOMAIN ps) = n
         /\ \A k \in DOMAIN ps : Within(ps, ps[k]) = Within(qs, ps[k])
         /\ \A level, p : Rejects(ps, level, p) <=> Rejects(qs, level, p)
<1>1. /\ n \in Nat /\ DOMAIN qs = 1..n /\ b \in [DOMAIN ps -> 1..n]
      /\ \A k, l \in DOMAIN ps : b[k] = b[l] => k = l
      /\ \A i \in 1..n : \E k \in DOMAIN ps : b[k] = i
  BY DEF Family, Bijection, Injection, Surjection, IsInjective
<1>2. Cardinality(DOMAIN ps) = n /\ Cardinality(1..n) = n /\ IsFiniteSet(1..n)
  <2>1. ExistsBijection(DOMAIN ps, 1..n)
    BY DEF ExistsBijection
  <2> QED BY <1>1, <2>1, FS_Bijection, FS_Interval
<1>3. ASSUME NEW p PROVE Within(ps, p) = Within(qs, p)
  <2> DEFINE S == {m \in DOMAIN ps : ps[m] <= p}
             T == {m \in DOMAIN qs : qs[m] <= p}
             c == [m \in S |-> b[m]]
  <2>1. c \in Bijection(S, T)
    <3>1. c \in [S -> T]
      BY <1>1
    <3>2. \A k, l \in S : c[k] = c[l] => k = l
      BY <1>1
    <3>3. \A i \in T : \E k \in S : c[k] = i
      BY <1>1
    <3> HIDE DEF S, T, c
    <3> QED BY <3>1, <3>2, <3>3 DEF Bijection, Injection, Surjection, IsInjective
  <2>2. IsFiniteSet(S)
    <3>1. S \in SUBSET DOMAIN ps
      OBVIOUS
    <3> HIDE DEF S
    <3> QED BY <3>1, Fewer
  <2>3. ExistsBijection(S, T)
    <3> HIDE DEF S, T, c
    <3> QED BY <2>1 DEF ExistsBijection
  <2>4. Cardinality(S) = Cardinality(T)
    <3> HIDE DEF S, T
    <3> QED BY <2>2, <2>3, FS_Bijection
  <2> QED BY <2>4 DEF Within
<1>4. ASSUME NEW level, NEW p PROVE Rejects(ps, level, p) <=> Rejects(qs, level, p)
  <2>1. \A k \in DOMAIN ps : qs[b[k]] = ps[k] /\ b[k] \in DOMAIN qs
    BY <1>1
  <2>2. Cardinality(DOMAIN qs) = Cardinality(DOMAIN ps)
    BY <1>1, <1>2
  <2>3. ASSUME NEW k \in DOMAIN ps
        PROVE  /\ Within(ps, ps[k]) = Within(qs, qs[b[k]])
               /\ p <= ps[k] <=> p <= qs[b[k]]
    BY <1>3, <2>1
  <2>4. Rejects(ps, level, p) => Rejects(qs, level, p)
    BY <2>1, <2>2, <2>3 DEF Rejects
  <2>5. Rejects(qs, level, p) => Rejects(ps, level, p)
    BY <1>1, <2>1, <2>2, <2>3 DEF Rejects
  <2> QED BY <2>4, <2>5
<1> QED BY <1>2, <1>3, <1>4

\* The p-values of a family as bh_fdr is given them.
Given(f) == [n \in DOMAIN families[f] |-> buf[families[f][n][1]][families[f][n][2]].p]

LEMMA GivenFacts ==
  ASSUME IndInv, Labelled, NEW f \in Families, InStep(f)
  PROVE  /\ Family(Given(f), Len(families[f])) /\ IsFiniteSet(DOMAIN Tested(f))
         /\ DOMAIN Tested(f) = Places(f)
         /\ \E b \in Bijection(DOMAIN Tested(f), 1..Len(families[f])) :
              \A k \in DOMAIN Tested(f) : b[k] = Nth(f, k) /\ Given(f)[b[k]] = Tested(f)[k]
<1> DEFINE D == Places(f)
           n == Len(families[f])
           b == [k \in D |-> Nth(f, k)]
<1>1. TypeOK /\ OnlyPassed /\ DOMAIN Tested(f) = D
  BY DEF IndInv, Tested, Places
<1>2. /\ families[f] \in Seq(Jobs \X Nat) /\ DOMAIN families[f] = 1..n /\ n \in Nat
  BY <1>1 DEF TypeOK
<1>3. /\ IsFiniteSet(D) /\ Cardinality(D) = n
      /\ D \in SUBSET (1..Len(stream)) /\ Len(stream) \in Nat
      /\ \A k \in D : Nth(f, k) \in 1..n
  BY <1>1, PlacesFacts DEF InStep
<1>4. b \in [D -> 1..n]
  BY <1>3
<1>5. ASSUME NEW k \in D, NEW l \in D, k < l PROVE b[k] < b[l]
  <2> DEFINE S == {m \in D : m <= k}
             T == {m \in D : m <= l}
  <2>1. S \in SUBSET T /\ S # T /\ T \in SUBSET D
    <3>1. l \in T /\ l \notin S
      BY <1>3, <1>5
    <3>2. \A m \in S : m \in T
      BY <1>3, <1>5
    <3> QED BY <3>1, <3>2
  <2>2. b[k] = Cardinality(S) /\ b[l] = Cardinality(T)
    BY DEF Nth
  <2> HIDE DEF S, T, b
  <2> QED BY <1>3, <2>1, <2>2, Fewer
<1>6. b \in Bijection(D, 1..n)
  <2>1. \A k, l \in D : b[k] = b[l] => k = l
    <3> SUFFICES ASSUME NEW k \in D, NEW l \in D, b[k] = b[l] PROVE k = l
      OBVIOUS
    <3>1. k \in Nat /\ l \in Nat /\ b[k] \in Nat
      BY <1>3, <1>4
    <3>2. ~(k < l) /\ ~(l < k)
      <4> HIDE DEF b
      <4> QED BY <1>5, <3>1
    <3> QED BY <3>1, <3>2
  <2> HIDE DEF b, D, n
  <2>2. b \in Injection(D, 1..n)
    BY <1>4, <2>1 DEF Injection, IsInjective
  <2>3. IsFiniteSet(1..n) /\ Cardinality(1..n) = n
    BY <1>2, FS_Interval
  <2>4. b \in Surjection(D, 1..n)
    BY <1>3, <2>2, <2>3, FS_Injection
  <2> QED BY <2>2, <2>4 DEF Bijection
<1>7. ASSUME NEW k \in D
      PROVE  Given(f)[b[k]] = Tested(f)[k] /\ Tested(f)[k] \in 0..Scale
  <2>1. families[f][b[k]] = <<stream[k].job, stream[k].idx>> /\ b[k] \in DOMAIN families[f]
    BY <1>2, <1>4 DEF InStep, Place
  <2>2. Given(f)[b[k]] = buf[stream[k].job][stream[k].idx].p
    <3> HIDE DEF b
    <3> QED BY <2>1 DEF Given
  <2>3. Tested(f)[k] = buf[stream[k].job][stream[k].idx].p
    BY DEF Tested, Places
  <2>4. k \in DOMAIN stream /\ stream[k].kind = "Result" /\ Tested(f)[k] \notin {NaN, Absent}
    BY <2>3 DEF Places, Carries
  <2>5. k \in Body
    BY <2>4 DEF Labelled, BodyKinds
  <2>6. stream[k].job \in Jobs /\ stream[k].idx \in DOMAIN buf[stream[k].job]
    BY <1>1, <2>5 DEF OnlyPassed
  <2>7. buf[stream[k].job][stream[k].idx] \in Units
    BY <1>1, <2>6, LenProperties, ElementOfSeq DEF TypeOK
  <2>8. Tested(f)[k] \in PValues
    BY <2>3, <2>7 DEF Units
  <2> QED BY <2>2, <2>3, <2>4, <2>8 DEF PValues
<1>8. Family(Given(f), n)
  <2>1. \A i \in 1..n : \E k \in D : b[k] = i
    <3> HIDE DEF b, D, n
    <3> QED BY <1>6 DEF Bijection, Surjection
  <2>2. \A i \in 1..n : Given(f)[i] \in 0..Scale
    <3> HIDE DEF b, D, n
    <3> QED BY <1>7, <2>1
  <2>3. DOMAIN Given(f) = 1..n /\ Given(f) = [i \in 1..n |-> Given(f)[i]]
    BY <1>2 DEF Given
  <2> HIDE DEF n
  <2> QED BY <1>2, <2>2, <2>3 DEF Family
<1> HIDE DEF D, n
<1>9. \A k \in D : b[k] = Nth(f, k)
  OBVIOUS
<1> HIDE DEF b
<1> QED BY <1>1, <1>3, <1>6, <1>7, <1>8, <1>9 DEF D, n

\* The families and q-values of a SweepSummary are those of the stream it closes, for
\* any number of jobs, any assignment to families and any p-values.
THEOREM SweepFamiliesMatch == Spec => []FamiliesMatch
<1> DEFINE Inv == IndInv /\ Ledger /\ Labelled /\ Followed
<1>1. Init => Inv
  BY InitInv, InitLedger, InitFollowed
<1>2. Inv /\ [Next]_vars => Inv'
  BY NextInv, LedgerStep, LabelledStep, FollowedStep
<1>3. Inv => FamiliesMatch
  <2> SUFFICES ASSUME Inv, Has("SweepSummary"), NEW f \in Families
               PROVE  LET ps == Tested(f)
                          nth(k) == Cardinality({m \in DOMAIN ps : m <= k})
                      IN /\ Len(FdrOf(f)) = Cardinality(DOMAIN ps)
                         /\ \A k \in DOMAIN ps :
                              LET entry == FdrOf(f)[nth(k)]
                              IN /\ entry.place = Place(stream[k])
                                 /\ \A level \in Levels(ps) \cup {entry.q} :
                                      Rejects(ps, level, ps[k]) <=> AtMost(entry.q, level)
    BY DEF FamiliesMatch
  <2> DEFINE ps == Tested(f)
             qs == Given(f)
             n == Len(families[f])
  <2>1. TypeOK /\ InStep(f)
    BY DEF Followed, Due, IndInv
  <2>2. Family(qs, n) /\ IsFiniteSet(DOMAIN ps) /\ DOMAIN ps = Places(f)
    BY <2>1, GivenFacts
  <2>3. PICK b \in Bijection(DOMAIN ps, 1..n) :
               \A k \in DOMAIN ps : b[k] = Nth(f, k) /\ qs[b[k]] = ps[k]
    BY <2>1, GivenFacts
  <2>4. /\ DOMAIN families[f] = 1..n /\ n \in Nat
    BY <2>1 DEF TypeOK
  <2>5. /\ DOMAIN FdrOf(f) = 1..n
        /\ \A i \in 1..n : FdrOf(f)[i] = [place |-> families[f][i], q |-> BhFdr(qs)[i]]
    BY <2>4 DEF FdrOf, Given
  <2>6. Cardinality(DOMAIN ps) = n
    BY <2>1, <2>2 DEF InStep
  <2>7. Len(FdrOf(f)) = n
    <3>1. FdrOf(f) = [i \in 1..n |-> FdrOf(f)[i]]
      BY <2>4 DEF FdrOf
    <3> HIDE DEF n
    <3> QED BY <2>4, <2>5, <3>1
  <2> HIDE DEF ps, qs, n
  <2>8. ASSUME NEW k \in DOMAIN ps
        PROVE  LET entry == FdrOf(f)[Cardinality({m \in DOMAIN ps : m <= k})]
               IN /\ entry.place = Place(stream[k])
                  /\ \A level \in Levels(ps) \cup {entry.q} :
                       Rejects(ps, level, ps[k]) <=> AtMost(entry.q, level)
    <3> DEFINE i == Nth(f, k)
               entry == FdrOf(f)[i]
    <3>1. i = Cardinality({m \in DOMAIN ps : m <= k})
      BY <2>2 DEF Nth
    <3>2. i \in 1..n /\ qs[i] = ps[k] /\ i = b[k]
      BY <2>3 DEF Bijection, Injection
    <3> HIDE DEF i
    <3>3. entry.place = Place(stream[k]) /\ entry.q = BhFdr(qs)[i]
      BY <2>1, <2>2, <2>5, <3>2 DEF InStep, i
    <3>4. BhFdr(qs)[i] \in Quotients
      BY <2>2, <3>2, BhLeast
    <3>5. Levels(ps) \in SUBSET Quotients
      <4> SUFFICES ASSUME NEW l \in DOMAIN ps
                   PROVE  [num |-> ps[l] * n, den |-> Within(ps, ps[l])] \in Quotients
        BY <2>6 DEF Levels
      <4>1. Within(ps, ps[l]) = Within(qs, qs[b[l]]) /\ qs[b[l]] = ps[l] /\ b[l] \in 1..n
        BY <2>2, <2>3, Moved DEF Bijection, Injection
      <4>2. Within(qs, qs[b[l]]) \in Nat \ {0}
        BY <2>2, <4>1, RankFacts
      <4>3. ps[l] \in Nat
        BY <2>2, <4>1, FdrAssumption DEF Family
      <4>4. ps[l] * n \in Nat
        BY <2>4, <4>3
      <4> QED BY <4>1, <4>2, <4>4 DEF Quotients
    <3>6. ASSUME NEW level \in Quotients
          PROVE  Rejects(ps, level, ps[k]) <=> AtMost(entry.q, level)
      <4>1. Rejects(qs, level, qs[i]) <=> AtMost(BhFdr(qs)[i], level)
        BY <2>2, <3>2, StepUp
      <4>2. Rejects(ps, level, ps[k]) <=> Rejects(qs, level, ps[k])
        BY <2>2, <2>3, Moved
      <4> QED BY <3>2, <3>3, <4>1, <4>2
    <3> HIDE DEF entry
    <3>7. \A level \in Levels(ps) \cup {entry.q} :
            Rejects(ps, level, ps[k]) <=> AtMost(entry.q, level)
      BY <3>3, <3>4, <3>5, <3>6
    <3> QED BY <3>1, <3>3, <3>7 DEF entry
  <2> QED BY <2>6, <2>7, <2>8 DEF ps
<1> HIDE DEF Inv
<1>4. Spec => []Inv
  BY <1>1, <1>2, PTL DEF Spec
<1> QED BY <1>3, <1>4, PTL

----------------------------------------------------------------------------
(* The framing: Sweep implements RunStream. *)

\* The last envelope of a stream that is still open for findings.
Open == stream # <<>> /\ stream[Len(stream)].kind \in BodyKinds \cup {"RunStart"}

\* Where the framing is.
Framed ==
  /\ outcome = "none" <=> pc # "done"
  /\ pc \in {"enter", "open"} => stream = <<>>
  /\ pc \in {"expand", "cover", "fanout"} => KindsOf(stream) = <<"RunStart">>
  /\ pc \in {"drain", "giveup", "settle", "summary"} => Open
  /\ pc \in {"cut", "close"} => stream # <<>>

\* What a step does to the framing: nothing, a write, or the end.
Silent == /\ UNCHANGED <<stream, outcome>>
          /\ \/ pc' = pc
             \/ pc = "enter" /\ pc' = "open"
             \/ pc = "expand" /\ pc' \in {"cover", "fanout"}
             \/ pc = "fanout" /\ pc' = "drain"
             \/ pc = "drain" /\ pc' \in {"giveup", "settle"}
             \/ pc = "settle" /\ pc' \in {"cut", "summary"}
Ends(from, outcomes) == pc \in from /\ pc' = "done" /\ outcome' \in outcomes
Puts(e) == stream' = Append(stream, e)
Outlines ==
  \/ Silent
  \/ stream' = stream /\ Ends({"enter"}, {"Ok"})
  \/ stream' = stream /\ Ends(Pcs \ {"done"}, {"Preflight", "SinkError"})
  \/ pc = "open" /\ Puts(Framing("RunStart")) /\ pc' = "expand" /\ outcome' = outcome
  \/ pc = "cover" /\ Puts(Framing("DryRun")) /\ pc' = "cut" /\ outcome' = outcome
  \/ pc = "drain" /\ ~JobDrained /\ Puts(Finding(cur, fnd + 1)) /\ UNCHANGED <<pc, outcome>>
  \/ pc = "summary" /\ Puts(Framing("SweepSummary")) /\ pc' = "close" /\ outcome' = outcome
  \/ /\ Puts(Framing("RunEnd"))
     /\ Ends({"giveup", "cut", "close"}, {"SinkError", "Ok", "HadScanErrors"})

LEMMA OutlinesStep == [Next]_vars => Outlines
<1> SUFFICES ASSUME [Next]_vars PROVE Outlines
  OBVIOUS
<1> USE DEF Outlines, Silent, Ends, Puts, Pcs, Goto, Finish, Written, WriteFails
<1>1. CASE Interrupt \/ Stopped \/ UNCHANGED vars
  BY <1>1 DEF Interrupt, Stopped, vars
<1>2. ASSUME NEW j \in Jobs, Worker(j) PROVE Outlines
  BY <1>2 DEF Worker, Cover, StartJob, FinishJob
<1>3. CASE Enter \/ OpenRun \/ Expand
  BY <1>3 DEF Enter, OpenRun, Expand
<1>4. CASE MakePlan \/ Join \/ NextJob
  BY <1>4 DEF MakePlan, Join, NextJob
<1>5. CASE DrainOne \/ GiveUp
  BY <1>5 DEF DrainOne, GiveUp
<1>6. CASE Settle \/ Summarise
  BY <1>6 DEF Settle, Summarise
<1>7. CASE CloseCut \/ Close
  BY <1>7 DEF CloseCut, Close
<1> QED BY <1>1, <1>2, <1>3, <1>4, <1>5, <1>6, <1>7 DEF Next, Main

\* An envelope appended: the last one, and the last of the kinds.
LEMMA PutLast ==
  ASSUME TypeOK, NEW e \in Envelope, Puts(e)
  PROVE  /\ stream' # <<>> /\ stream'[Len(stream')].kind = e.kind
         /\ KindsOf(stream)' = Append(KindsOf(stream), e.kind)
<1>1. stream \in Seq(Envelope) /\ stream' = Append(stream, e)
  BY DEF TypeOK, Puts
<1>2. /\ Len(stream') = Len(stream) + 1 /\ Len(stream) \in Nat /\ stream' \in Seq(Envelope)
      /\ stream'[Len(stream) + 1] = e
  BY <1>1, AppendProperties, LenProperties
<1>3. stream' # <<>>
  BY <1>2, EmptySeq, LenProperties
<1>4. KindsOf(stream)' = Append(KindsOf(stream), e.kind)
  BY <1>1 DEF KindsOf
<1> QED BY <1>2, <1>3, <1>4

\* A stream of one RunStart is open.
LEMMA JustOpened ==
  ASSUME TypeOK, KindsOf(stream) = <<"RunStart">>
  PROVE  Open
<1>1. /\ DOMAIN KindsOf(stream) = DOMAIN stream
      /\ \A j \in DOMAIN stream : KindsOf(stream)[j] = stream[j].kind
  BY DEF KindsOf
<1>2. DOMAIN stream = {1} /\ Len(stream) = 1
  BY <1>1, LenProperties DEF TypeOK
<1> QED BY <1>1, <1>2 DEF Open

\* The envelopes a step may write are of their types.
LEMMA Wellformed ==
  ASSUME TypeOK, Cursor
  PROVE  /\ \A k \in {"RunStart", "DryRun", "SweepSummary", "RunEnd"} :
              Framing(k) \in Envelope /\ Framing(k).kind = k
         /\ ~JobDrained => /\ Finding(cur, fnd + 1) \in Envelope
                           /\ Finding(cur, fnd + 1).kind \in BodyKinds
<1>1. ~JobDrained => /\ Finding(cur, fnd + 1) \in Envelope
                     /\ Finding(cur, fnd + 1).kind = buf[cur][fnd + 1].kind
                     /\ buf[cur][fnd + 1] \in Units
  BY NextFinding DEF Finding
<1>2. \A k \in {"RunStart", "DryRun", "SweepSummary", "RunEnd"} :
        Framing(k) \in Envelope /\ Framing(k).kind = k
  BY FramingType DEF Framing, Kinds
<1> QED BY <1>1, <1>2 DEF Units

LEMMA FramedStep ==
  ASSUME TypeOK, Cursor, Framed, [Next]_vars
  PROVE  Framed'
<1>a. Outlines
  BY OutlinesStep
<1>b. \A k \in {"RunStart", "DryRun", "SweepSummary", "RunEnd"} :
        Puts(Framing(k)) => /\ stream' # <<>> /\ stream'[Len(stream')].kind = k
                            /\ KindsOf(stream)' = Append(KindsOf(stream), k)
  BY Wellformed, PutLast
<1>c. ~JobDrained /\ Puts(Finding(cur, fnd + 1)) => Open'
  BY Wellformed, PutLast DEF Open
<1>d. pc \in {"fanout", "cover"} => Open
  BY JustOpened DEF Framed
<1>e. Open => stream # <<>>
  BY DEF Open
<1>f. KindsOf(stream)' = KindsOf(stream') /\ (stream' = stream => Open' = Open)
  BY DEF Open
<1>g. stream = <<>> => KindsOf(stream) = <<>>
  BY DEF KindsOf
<1> USE DEF Framed
<1>1. CASE Silent
  BY <1>1, <1>d, <1>e, <1>f DEF Silent
<1>2. ASSUME NEW from, NEW outcomes, Ends(from, outcomes), "none" \notin outcomes
      PROVE  Framed'
  BY <1>2 DEF Ends
<1>3. CASE pc = "open" /\ Puts(Framing("RunStart")) /\ pc' = "expand" /\ outcome' = outcome
  BY <1>3, <1>b, <1>g
<1>4. CASE pc = "cover" /\ Puts(Framing("DryRun")) /\ pc' = "cut" /\ outcome' = outcome
  BY <1>4, <1>b
<1>5. CASE pc = "drain" /\ ~JobDrained /\ Puts(Finding(cur, fnd + 1)) /\ UNCHANGED <<pc, outcome>>
  BY <1>5, <1>c
<1>6. CASE pc = "summary" /\ Puts(Framing("SweepSummary")) /\ pc' = "close" /\ outcome' = outcome
  BY <1>6, <1>b
<1> QED BY <1>a, <1>1, <1>2, <1>3, <1>4, <1>5, <1>6 DEF Outlines

LEMMA ContractInit == Init => Framed /\ Contract!Init
<1> SUFFICES ASSUME Init PROVE Framed /\ Contract!Init
  OBVIOUS
<1>1. KindsOf(stream) = <<>>
  BY DEF Init, KindsOf
<1> QED BY <1>1 DEF Init, Framed, Contract!Init

LEMMA ContractStep ==
  TypeOK /\ Cursor /\ Framed /\ [Next]_vars => [Contract!Next]_Contract!vars
<1> SUFFICES ASSUME TypeOK, Cursor, Framed, [Next]_vars
             PROVE  [Contract!Next]_Contract!vars
  OBVIOUS
<1> DEFINE out == KindsOf(stream)
           fate == CASE outcome = "none" -> "running"
                     [] outcome \in {"Ok", "HadScanErrors"} -> "returned"
                     [] OTHER -> "failed"
<1>a. Outlines
  BY OutlinesStep
<1>b. /\ \A k \in {"RunStart", "DryRun", "SweepSummary", "RunEnd"} :
           Puts(Framing(k)) => out' = Append(out, k)
      /\ ~JobDrained /\ Puts(Finding(cur, fnd + 1)) =>
           \E k \in BodyKinds : out' = Append(out, k)
  BY Wellformed, PutLast
<1>c. stream' = stream => out' = out
  OBVIOUS
<1>d. stream # <<>> => out # <<>> /\ out[Len(out)] = stream[Len(stream)].kind
  <2>1. DOMAIN out = DOMAIN stream /\ \A j \in DOMAIN stream : out[j] = stream[j].kind
    BY DEF KindsOf
  <2> QED BY <2>1, LenProperties DEF TypeOK
<1>e. pc # "done" => fate = "running"
  BY DEF Framed
<1>f. outcome' = outcome => fate' = fate
  OBVIOUS
<1>g. Open => Contract!InBody
  BY <1>d DEF Open, Contract!InBody, Contract!Last, Contract!BodyKinds, BodyKinds
<1>h. Open => stream # <<>>
  BY DEF Open
<1> HIDE DEF out, fate
<1>i. UNCHANGED <<out, fate>> => [Contract!Next]_Contract!vars
  BY DEF Contract!vars, out, fate
<1>j. ASSUME NEW k, out' = Append(out, k), outcome' = outcome, pc # "done"
      PROVE  Contract!Write(k)
  BY <1>j, <1>e, <1>f DEF Contract!Write, out, fate
<1>1. CASE Silent
  BY <1>1, <1>c, <1>f, <1>i DEF Silent
<1>2. CASE stream' = stream /\ Ends({"enter"}, {"Ok"})
  <2>1. out = <<>>
    BY <1>2 DEF Ends, Framed, KindsOf, out
  <2>2. fate = "running" /\ fate' = "returned" /\ out' = out
    BY <1>2, <1>c, <1>e DEF Ends, fate
  <2>3. Contract!Leave
    BY <2>1, <2>2 DEF Contract!Leave, out, fate
  <2> QED BY <2>3 DEF Contract!Next
<1>3. CASE stream' = stream /\ Ends(Pcs \ {"done"}, {"Preflight", "SinkError"})
  <2>1. fate = "running" /\ fate' = "failed" /\ out' = out
    BY <1>3, <1>c, <1>e DEF Ends, fate
  <2>2. Contract!Fail
    BY <2>1 DEF Contract!Fail, out, fate
  <2> QED BY <2>2 DEF Contract!Next
<1>4. CASE pc = "open" /\ Puts(Framing("RunStart")) /\ outcome' = outcome
  <2>1. out = <<>>
    BY <1>4 DEF Framed, KindsOf, out
  <2>2. Contract!Open
    BY <1>4, <1>b, <1>j, <2>1 DEF Contract!Open, out
  <2> QED BY <2>2 DEF Contract!Next
<1>5. CASE pc = "cover" /\ Puts(Framing("DryRun")) /\ outcome' = outcome
  <2>1. out = <<"RunStart">>
    BY <1>5 DEF Framed, out
  <2>2. Contract!Plan
    BY <1>5, <1>b, <1>j, <2>1 DEF Contract!Plan, out
  <2> QED BY <2>2 DEF Contract!Next
<1>6. CASE pc = "drain" /\ ~JobDrained /\ Puts(Finding(cur, fnd + 1)) /\ outcome' = outcome
  <2>1. PICK k \in BodyKinds : out' = Append(out, k)
    BY <1>6, <1>b
  <2>2. Contract!Body(k)
    BY <1>6, <1>g, <1>j, <2>1 DEF Framed, Contract!Body
  <2> QED BY <2>2 DEF Contract!Next, Contract!BodyKinds, BodyKinds
<1>7. CASE pc = "summary" /\ Puts(Framing("SweepSummary")) /\ outcome' = outcome
  <2>1. Contract!Summarise
    BY <1>7, <1>b, <1>g, <1>j DEF Framed, Contract!Summarise
  <2> QED BY <2>1 DEF Contract!Next
<1>8. CASE /\ Puts(Framing("RunEnd"))
           /\ Ends({"giveup", "cut", "close"}, {"SinkError", "Ok", "HadScanErrors"})
  <2>1. out' = Append(out, "RunEnd")
    BY <1>8, <1>b
  <2>2. out # <<>>
    BY <1>8, <1>d, <1>h DEF Ends, Framed
  <2>3. fate = "running" /\ fate' \in {"returned", "failed"}
    BY <1>8, <1>e DEF Ends, fate
  <2>4. Contract!Close
    BY <2>1, <2>2, <2>3 DEF Contract!Close, out, fate
  <2> QED BY <2>4 DEF Contract!Next
<1> QED BY <1>a, <1>1, <1>2, <1>3, <1>4, <1>5, <1>6, <1>7, <1>8 DEF Outlines

\* The stream of a sweep keeps the framing contract: RunStart, a plan or a body, a summary
\* of what was not cut, RunEnd and nothing after it.
THEOREM SweepFraming == Spec => FramingKept
<1>1. Init => TypeOK /\ Cursor /\ Framed /\ Contract!Init
  BY InitShape, ContractInit
<1>2. TypeOK /\ Cursor /\ Framed /\ [Next]_vars => (TypeOK /\ Cursor /\ Framed)'
  BY ShapeStep, FramedStep
<1>3. TypeOK /\ Cursor /\ Framed /\ [Next]_vars => [Contract!Next]_Contract!vars
  BY ContractStep
<1> QED BY <1>1, <1>2, <1>3, PTL DEF Spec, FramingKept, Contract!Spec

----------------------------------------------------------------------------
(* `miner sweep`. *)

\* The two ways through a sweep, and what each has on the stream at its end.
Planned == Has("DryRun") /\ covered = Jobs
Ways ==
  /\ pc = "cover" => dryRun /\ (~cancel => \A j \in Jobs : status[j] = "done" => j \in covered)
  /\ pc \in {"fanout", "drain", "giveup", "settle", "summary", "close"} => ~dryRun
  /\ dryRun => cur = 0
  /\ pc = "cut" /\ ~cancel => dryRun /\ Planned
  /\ outcome = "Ok" /\ ~cancel =>
       Has("RunEnd") /\ IF dryRun THEN Planned ELSE Has("SweepSummary")

RunInv == IndInv /\ Ledger /\ Bodies /\ Ways

\* Where main is, and what that says of the runner.
Early == {"start", "parse", "config", "sink", "args"}
ProcInv ==
  /\ phase \in Early \cup {"run", "exit", "gone"}
  /\ phase \in Early => outcome = "none" /\ stream = <<>> /\ wires = 0
  /\ phase = "run" => wires = 0
  /\ phase \notin {"run", "gone"} \cup Early =>
       IF outcome = "none" THEN stream = <<>> /\ wires = 1
       ELSE wires = IF outcome = "Preflight" THEN 1 ELSE 0
  /\ phase # "gone" => exit = Proc!Running
  /\ phase = "gone" =>
       \/ outcome = "none" /\ stream = <<>> /\ exit = 130
       \/ outcome = "none" /\ stream = <<>> /\ exit = 2 /\ wires = 0
       \/ outcome = "none" /\ stream = <<>> /\ exit = 1 /\ wires \in {0, 1}
       \/ /\ outcome # "none" /\ exit = ComputeExitCode(cancel, outcome)
          /\ wires = IF outcome = "Preflight" THEN 1 ELSE 0

----------------------------------------------------------------------------
(* The runner. *)

\* The envelopes that are there stay, and a new one is there.
LEMMA HasGrown ==
  ASSUME TypeOK, NEW e \in Envelope, Puts(e)
  PROVE  (\A k \in Kinds : Has(k) => Has(k)') /\ Has(e.kind)'
<1>1. /\ DOMAIN stream = 1..Len(stream) /\ Len(stream) \in Nat
      /\ DOMAIN stream' = 1..(Len(stream) + 1)
      /\ \A k \in DOMAIN stream : stream'[k] = stream[k]
      /\ stream'[Len(stream) + 1] = e
  BY Appended DEF Puts
<1> QED BY <1>1 DEF Has

LEMMA WaysStep ==
  ASSUME TypeOK, Cursor, PoolPhase, Ledger, Ways, outcome = "none" <=> pc # "done", [Next]_vars
  PROVE  Ways'
<1>a. \A k \in {"RunStart", "DryRun", "SweepSummary", "RunEnd"} :
        /\ k \in Kinds /\ Framing(k) \in Envelope /\ Framing(k).kind = k
  BY FramingType DEF Kinds, Framing
<1>b. ASSUME NEW k \in {"RunStart", "DryRun", "SweepSummary", "RunEnd"}, Puts(Framing(k))
      PROVE  (\A l \in {"RunStart", "DryRun", "SweepSummary", "RunEnd"} : Has(l) => Has(l)') /\ Has(k)'
  BY <1>a, <1>b, HasGrown
<1>c. stream' = stream => \A l : Has(l)' = Has(l)
  BY DEF Has
<1> USE DEF Ways, Goto, Finish, Written, WriteFails, Planned
<1>1. CASE Interrupt \/ Stopped \/ UNCHANGED vars
  BY <1>1, <1>c DEF Interrupt, Stopped, vars, Manifest, poolVars, drainVars
<1>2. ASSUME NEW j \in Jobs, Cover(j) PROVE Ways'
  <2>1. status \in [Jobs -> {"waiting", "running", "done"}]
    BY DEF TypeOK
  <2> QED BY <1>2, <1>c, <2>1 DEF Cover, Manifest, drainVars
<1>3. ASSUME NEW j \in Jobs, StartJob(j) \/ FinishJob(j) PROVE Ways'
  BY <1>3, <1>c DEF StartJob, FinishJob, Manifest, drainVars
<1>4. CASE Enter \/ Join \/ Settle
  BY <1>4, <1>c DEF Enter, Join, Settle, Manifest, poolVars, drainVars
<1>5. CASE OpenRun
  BY <1>5, <1>b, <1>c DEF OpenRun, Manifest, poolVars, drainVars
<1>6. CASE Expand
  BY <1>6, <1>c DEF Expand, Manifest, poolVars, drainVars, PoolPhase
<1>7. CASE MakePlan
  <2>1. CASE Written(Framing("DryRun")) /\ Goto("cut")
    <3>1. Has("DryRun")'
      BY <2>1, <1>b DEF Puts
    <3> QED BY <1>7, <2>1, <3>1 DEF MakePlan, AllDone, Manifest, poolVars, drainVars, TypeOK
  <2>2. CASE WriteFails
    BY <1>7, <1>c, <2>2 DEF MakePlan, Manifest, poolVars, drainVars
  <2> QED BY <1>7, <2>1, <2>2 DEF MakePlan
<1>8. CASE NextJob
  BY <1>8, <1>c DEF NextJob, Manifest, poolVars
<1>9. CASE DrainOne
  BY <1>9 DEF DrainOne, Manifest, poolVars
<1>10. CASE GiveUp
  BY <1>10 DEF GiveUp, Manifest, poolVars, drainVars
<1>11. CASE Summarise
  BY <1>11 DEF Summarise, Manifest, poolVars, drainVars
<1>12. CASE CloseCut
  <2>1. CASE Written(Framing("RunEnd")) /\ Finish("Ok")
    <3>1. Has("RunEnd")' /\ (Has("DryRun") => Has("DryRun")')
      BY <2>1, <1>b DEF Puts
    <3> QED BY <1>12, <2>1, <3>1 DEF CloseCut, Manifest, poolVars, drainVars
  <2>2. CASE WriteFails
    BY <1>12, <2>2 DEF CloseCut, Manifest, poolVars, drainVars
  <2> QED BY <1>12, <2>1, <2>2 DEF CloseCut
<1>13. CASE Close
  <2>1. CASE Written(Framing("RunEnd"))
    <3>1. Has("SweepSummary")
      <4>1. Count("SweepSummary") > 0
        BY <1>13 DEF Close, Ledger, Balanced
      <4> QED BY <4>1, Counted DEF Kinds
    <3>2. Has("RunEnd")' /\ Has("SweepSummary")'
      BY <2>1, <3>1, <1>b DEF Puts
    <3> QED BY <1>13, <2>1, <3>2 DEF Close, Manifest, poolVars, drainVars
  <2>2. CASE WriteFails
    BY <1>13, <2>2 DEF Close, Manifest, poolVars, drainVars
  <2> QED BY <1>13, <2>1, <2>2 DEF Close
<1> QED BY <1>1, <1>2, <1>3, <1>4, <1>5, <1>6, <1>7, <1>8, <1>9, <1>10, <1>11, <1>12, <1>13
           DEF Next, Main, Worker

\* The flag may also rise when the runner has returned.
LEMMA SignalStep ==
  ASSUME RunInv, cancel' = TRUE,
         UNCHANGED <<Manifest, pc, poolVars, stream, drainVars, outcome>>
  PROVE  RunInv'
<1> USE DEF RunInv, IndInv, Manifest, poolVars, drainVars
<1>1. TypeOK' /\ Cursor' /\ PoolPhase'
  BY DEF TypeOK, Cursor, PoolPhase, AllDone
<1>2. Undisturbed' /\ DrainEnd'
  BY DEF Undisturbed, Whole, Body, DrainEnd, RanOut, JobDrained
<1>3. OnlyPassed' /\ AllPassed'
  BY DEF OnlyPassed, AllPassed, Body, Passed, OnStream, Finding
<1>4. DrainOrder' /\ SummaryComplete'
  BY DEF DrainOrder, SummaryComplete, Body, Has, OnStream, Expected
<1>5. Ledger' /\ Bodies' /\ Ways'
  BY DEF Ledger, Balanced, Bodies, Body, Count, Ways, Planned, Has
<1> QED BY <1>1, <1>2, <1>3, <1>4, <1>5

----------------------------------------------------------------------------
(* The process. *)

LEMMA CmdInitInv == CmdInit => RunInv /\ ProcInv
<1> SUFFICES ASSUME CmdInit PROVE RunInv /\ ProcInv
  OBVIOUS
<1>1. Init /\ stream = <<>> /\ outcome = "none" /\ phase = "start"
      /\ wires = 0 /\ exit = Proc!Running
  BY DEF CmdInit, Init, Proc!ProcInit
<1>2. Ways
  BY <1>1 DEF Init, Ways
<1>3. ProcInv
  BY <1>1 DEF ProcInv, Early
<1> QED BY <1>1, <1>2, <1>3, InitInv, InitLedger DEF RunInv

LEMMA RunStep == RunInv /\ [CmdNext]_allVars => RunInv'
<1> SUFFICES ASSUME RunInv, [CmdNext]_allVars PROVE RunInv'
  OBVIOUS
<1>1. CASE [Next]_vars
  <2>1. IndInv' /\ Ledger' /\ Bodies'
    BY <1>1, NextInv, LedgerStep, BodiesStep DEF RunInv
  <2>2. outcome = "none" <=> pc # "done"
    BY DEF RunInv, Ledger, Balanced
  <2>3. Ways'
    BY <1>1, <2>2, WaysStep DEF RunInv, IndInv
  <2> QED BY <2>1, <2>3 DEF RunInv
<1>2. CASE CmdSignal
  BY <1>2, SignalStep DEF CmdSignal, Proc!Signal
<1> QED BY <1>1, <1>2 DEF CmdNext, Runner, CmdProcess, CmdGone, allVars, Next

LEMMA ProcStep == RunInv /\ ProcInv /\ [CmdNext]_allVars => ProcInv'
<1> SUFFICES ASSUME RunInv, ProcInv, [CmdNext]_allVars PROVE ProcInv'
  OBVIOUS
<1> USE DEF ProcInv, Early
<1>1. CASE Runner
  BY <1>1 DEF Runner
<1>2. CASE CmdSignal
  BY <1>2 DEF CmdSignal, Proc!Signal, Proc!procVars
<1>3. CASE Proc!ProcStep /\ UNCHANGED vars
  <2>1. UNCHANGED <<stream, outcome, cancel>>
    BY <1>3 DEF vars
  <2>2. CASE Proc!Exit
    BY <2>1, <2>2 DEF Proc!Exit, Proc!Leave, Proc!Result, Proc!ComputeExitCode, ComputeExitCode
  <2>3. CASE Proc!TakeOutcome
    BY <2>1, <2>3 DEF Proc!TakeOutcome, Proc!Become
  <2>4. CASE Proc!Install \/ Proc!Parse \/ Proc!Configure \/ Proc!OpenSink \/ Proc!TakeArgs
    BY <2>1, <2>4 DEF Proc!Install, Proc!Parse, Proc!Configure, Proc!OpenSink, Proc!TakeArgs,
                      Proc!Become, Proc!Leave
  <2> QED BY <1>3, <2>2, <2>3, <2>4 DEF Proc!ProcStep
<1>4. CASE UNCHANGED allVars
  BY <1>4 DEF allVars, vars
<1> QED BY <1>1, <1>2, <1>3, <1>4 DEF CmdNext, CmdProcess, CmdGone

LEMMA CmdInv == CmdSpec => [](RunInv /\ ProcInv)
BY CmdInitInv, RunStep, ProcStep, PTL DEF CmdSpec

\* No job of a dry run has anything on the stream.
LEMMA PlanHasNoError ==
  ASSUME RunInv, dryRun
  PROVE  ~Has("ScanError")
<1> USE DEF RunInv, IndInv
<1>1. Body = {}
  BY SweepAssumption DEF Ways, OnlyPassed, Passed, Jobs, Cursor
<1>2. Count("Result") + Count("ScanError") + Count("GapAborted") = 0
  BY <1>1, FS_EmptySet DEF Bodies
<1>3. \A k \in Kinds : Count(k) \in Nat /\ (Has(k) <=> Count(k) > 0)
  BY Counted
<1>4. /\ Count("Result") \in Nat /\ Count("ScanError") \in Nat /\ Count("GapAborted") \in Nat
      /\ Has("ScanError") <=> Count("ScanError") > 0
  BY <1>3 DEF Kinds
<1> QED BY <1>2, <1>4

\* Behind a clean return is the whole plan, or the whole of what the jobs found and no error.
LEMMA CleanReturn ==
  ASSUME RunInv, outcome = "Ok", ~cancel
  PROVE  /\ ~Has("ScanError") /\ Has("RunEnd")
         /\ IF dryRun THEN Planned
            ELSE /\ Has("SweepSummary")
                 /\ \A j \in Jobs : \A i \in DOMAIN work[j] : OnStream(Expected(j, i))
<1> USE DEF RunInv, IndInv
<1>1. Has("RunEnd") /\ IF dryRun THEN Planned ELSE Has("SweepSummary")
  BY DEF Ways
<1>2. CASE dryRun
  BY <1>1, <1>2, PlanHasNoError
<1>3. CASE ~dryRun
  <2>1. \A k \in Kinds : Count(k) \in Nat /\ (Has(k) <=> Count(k) > 0)
    BY Counted
  <2>2. /\ Count("SweepSummary") > 0
        /\ Count("ScanError") \in Nat /\ (Has("ScanError") <=> Count("ScanError") > 0)
    BY <1>1, <1>3, <2>1 DEF Kinds
  <2>3. totals.errors = 0 /\ totals.errors = Count("ScanError")
    BY <2>2 DEF Ledger, Balanced
  <2> QED BY <1>1, <1>3, <2>2, <2>3 DEF SummaryComplete
<1> QED BY <1>2, <1>3

\* The exit code tells what is on stdout and on stderr.
THEOREM SweepExitCodes == CmdSpec => []ExitCodes
<1>1. ASSUME RunInv, ProcInv PROVE ExitCodes
  <2> USE <1>1
  <2>0. outcome \in RunOutcomes \cup {"none"}
    BY DEF RunInv, IndInv, TypeOK
  <2>1. phase # "gone" => exit = 999
    BY DEF ProcInv, Proc!Running
  <2>2. ExitZero
    <3> SUFFICES ASSUME exit = 0 PROVE ExitZero
      BY DEF ExitZero
    <3>1. outcome = "Ok" /\ ~cancel /\ wires = 0
      BY <2>0, <2>1 DEF ProcInv, ComputeExitCode, RunOutcomes
    <3> QED BY <3>1, CleanReturn DEF ExitZero, Planned
  <2>3. ExitTwo
    <3> SUFFICES ASSUME exit = 2 PROVE ExitTwo
      BY DEF ExitTwo
    <3>1. \/ stream = <<>> /\ wires = 0
          \/ outcome = "HadScanErrors"
      BY <2>0, <2>1 DEF ProcInv, ComputeExitCode, RunOutcomes
    <3>2. CASE outcome = "HadScanErrors"
      <4>1. \A k \in Kinds : Count(k) \in Nat /\ (Has(k) <=> Count(k) > 0)
        BY Counted DEF RunInv, IndInv
      <4>2. Count("SweepSummary") > 0 /\ Count("RunEnd") > 0 /\ totals.errors > 0
            /\ totals.errors = Count("ScanError")
        BY <3>2 DEF RunInv, Ledger, Balanced
      <4> QED BY <4>1, <4>2 DEF ExitTwo, Kinds
    <3> QED BY <3>1, <3>2 DEF ExitTwo
  <2>4. CutExits130
    <3> SUFFICES ASSUME phase = "gone", outcome = "Ok", ~dryRun, ~Has("SweepSummary") PROVE exit = 130
      BY DEF CutExits130, Ended
    <3>1. cancel
      BY CleanReturn
    <3> QED BY <3>1 DEF ProcInv, ComputeExitCode
  <2> QED BY <2>2, <2>3, <2>4 DEF ExitCodes
<1> QED BY <1>1, CmdInv, PTL

\* SIGINTs before and after the runner change nothing of what Framed speaks of.
LEMMA RunnerOrQuiet ==
  [CmdNext]_allVars => [Next]_vars \/ (cancel' = TRUE /\ UNCHANGED <<Manifest, pc, poolVars, stream, drainVars, outcome>>)
BY DEF CmdNext, Runner, CmdProcess, CmdSignal, CmdGone, Proc!Signal, allVars, Next

\* The process around the executor keeps the framing contract too.
THEOREM SweepCmdFraming == CmdSpec => FramingKept
<1>1. CmdInit => Framed /\ Contract!Init
  BY ContractInit DEF CmdInit
<1>2. RunInv /\ Framed /\ [CmdNext]_allVars => Framed'
  <2> SUFFICES ASSUME RunInv, Framed, [CmdNext]_allVars PROVE Framed'
    OBVIOUS
  <2>1. CASE [Next]_vars
    BY <2>1, FramedStep DEF RunInv, IndInv
  <2>2. CASE UNCHANGED <<pc, stream, outcome>>
    BY <2>2 DEF Framed, Open, KindsOf
  <2> QED BY <2>1, <2>2, RunnerOrQuiet
<1>3. RunInv /\ Framed /\ [CmdNext]_allVars => [Contract!Next]_Contract!vars
  <2> SUFFICES ASSUME RunInv, Framed, [CmdNext]_allVars PROVE [Contract!Next]_Contract!vars
    OBVIOUS
  <2>1. CASE [Next]_vars
    BY <2>1, ContractStep DEF RunInv, IndInv
  <2>2. CASE UNCHANGED <<pc, stream, outcome>>
    BY <2>2 DEF Contract!vars, KindsOf
  <2> QED BY <2>1, <2>2, RunnerOrQuiet
<1> QED BY <1>1, <1>2, <1>3, CmdInv, PTL DEF CmdSpec, FramingKept, Contract!Spec

----------------------------------------------------------------------------
(* The end of the process. *)

\* How far main, the executor, the pool and the drain are from their ends, the slowest hand
\* first: the place of main, the part of the sweep, the jobs not done, those of them not
\* taken up, the buffers and the findings to be drained, the SIGINT.
Ahead == CASE phase = "start"  -> 7 [] phase = "parse" -> 6 [] phase = "config" -> 5
           [] phase = "sink"   -> 4 [] phase = "args"  -> 3 [] phase = "run"    -> 2
           [] phase = "exit"   -> 1 [] OTHER -> 0
Part == CASE pc = "enter"   -> 8
          [] pc = "open"    -> 7
          [] pc = "expand"  -> 6
          [] pc \in {"cover", "fanout"} -> 5
          [] pc = "drain"   -> 4
          [] pc = "settle"  -> 3
          [] pc = "summary" -> 2
          [] pc \in {"cut", "close", "giveup"} -> 1
          [] OTHER -> 0
Undone == {j \in Jobs : status[j] # "done"}
Untaken == {j \in Jobs : status[j] = "waiting"}
Undrained == IF cur = 0 THEN 0 ELSE Len(buf[cur]) - fnd
Clock == <<Ahead, Part, Cardinality(Undone), Cardinality(Untaken), N - cur, Undrained,
           IF cancel THEN 0 ELSE 1>>

\* The clocks, and the order in which they run down.
Clocks == [1..7 -> Nat]
Descent == LexProductOrdering({p \in Nat \X Nat : p[1] < p[2]}, Nat, 7)

\* A step runs the clock down.
Tick == <<Clock', Clock>> \in Descent

\* No clock runs down for ever.
LEMMA DescentEnds == IsWellFoundedOn(Descent, Clocks)
<1>1. IsWellFoundedOn({p \in Nat \X Nat : p[1] < p[2]}, Nat)
  BY NatLessThanWellFounded DEF OpToRel
<1> QED BY <1>1, WFLexProductOrdering, Zenon DEF Descent, Clocks

\* A clock runs down when one hand falls and the slower ones stand.
FallsAt(a, b, i) == a[i] < b[i] /\ \A j \in 1..7 : j < i => a[j] = b[j]

LEMMA RunsDown ==
  ASSUME NEW a \in Clocks, NEW b \in Clocks, NEW i \in 1..7, FallsAt(a, b, i)
  PROVE  <<a, b>> \in Descent
<1>0. a[i] < b[i] /\ \A j \in 1..7 : j < i => a[j] = b[j]
  BY DEF FallsAt
<1>1. \A j \in 1..(i - 1) : a[j] = b[j]
  BY <1>0
<1>2. a[i] \in Nat /\ b[i] \in Nat
  BY DEF Clocks
<1>3. <<a[i], b[i]>> \in {p \in Nat \X Nat : p[1] < p[2]}
  BY <1>0, <1>2
<1> QED BY <1>1, <1>3 DEF Descent, LexProductOrdering, Clocks

\* The jobs in hand are finitely many.
LEMMA JobsFinite ==
  ASSUME NEW S \in SUBSET Jobs
  PROVE  IsFiniteSet(S) /\ Cardinality(S) \in Nat
<1>1. IsFiniteSet(Jobs)
  BY SweepAssumption, FS_Interval DEF Jobs
<1> QED BY <1>1, FS_Subset, FS_CardinalityType

\* There are fewer of them when one leaves.
LEMMA OneLess ==
  ASSUME NEW S \in SUBSET Jobs, NEW T \in SUBSET S, NEW j \in S, j \notin T
  PROVE  Cardinality(T) < Cardinality(S)
<1>1. IsFiniteSet(S) /\ T # S /\ T \subseteq S
  BY JobsFinite
<1>2. Cardinality(S) \in Nat /\ Cardinality(T) \in Nat
  BY JobsFinite
<1>3. Cardinality(T) <= Cardinality(S) /\ (Cardinality(S) = Cardinality(T) => S = T)
  BY <1>1, FS_Subset, Zenon
<1> QED BY <1>1, <1>2, <1>3

LEMMA ClockType == RunInv => Clock \in Clocks
<1> SUFFICES ASSUME RunInv PROVE Clock \in Clocks
  OBVIOUS
<1>0. TypeOK /\ Cursor
  BY DEF RunInv, IndInv
<1>1. Ahead \in Nat
  BY DEF Ahead
<1>2. Part \in Nat
  BY DEF Part
<1>3. Cardinality(Undone) \in Nat /\ Cardinality(Untaken) \in Nat
  BY JobsFinite DEF Undone, Untaken
<1>4. N - cur \in Nat
  BY <1>0, SweepAssumption DEF TypeOK
<1>5. Undrained \in Nat
  <2>1. CASE cur = 0
    BY <2>1 DEF Undrained
  <2>2. CASE cur # 0
    <3>1. cur \in Jobs /\ cur > 0 /\ fnd \in Nat
      BY <1>0, <2>2, SweepAssumption DEF TypeOK, Jobs
    <3>2. Len(buf[cur]) \in Nat /\ fnd <= Len(buf[cur])
      BY <1>0, <3>1, LenProperties DEF TypeOK, Cursor
    <3> QED BY <2>2, <3>1, <3>2 DEF Undrained
  <2> QED BY <2>1, <2>2
<1>6. (IF cancel THEN 0 ELSE 1) \in Nat
  OBVIOUS
<1> QED BY <1>1, <1>2, <1>3, <1>4, <1>5, <1>6 DEF Clock, Clocks

\* What a step of a worker leaves of the pool.
LEMMA WorkerFalls ==
  ASSUME TypeOK, NEW j \in Jobs, Worker(j)
  PROVE  /\ Part' = Part
         /\ \/ Cardinality(Undone') < Cardinality(Undone)
            \/ Undone' = Undone /\ Cardinality(Untaken') < Cardinality(Untaken)
<1>0. /\ Undone \in SUBSET Jobs /\ Untaken \in SUBSET Jobs
      /\ status \in [Jobs -> {"waiting", "running", "done"}]
  BY DEF Undone, Untaken, TypeOK
<1>1. Part' = Part
  BY DEF Worker, Cover, StartJob, FinishJob, Part
<1>2. PICK s \in {"running", "done"} :
        status[j] # "done" /\ status' = [status EXCEPT ![j] = s]
        /\ (s = "running" => status[j] = "waiting")
  BY DEF Worker, Cover, StartJob, FinishJob
<1>3. CASE s = "done"
  <2>1. j \in Undone /\ j \notin Undone' /\ Undone' \in SUBSET Undone
    BY <1>0, <1>2, <1>3 DEF Undone
  <2>2. Cardinality(Undone') < Cardinality(Undone)
    BY <1>0, <2>1, OneLess
  <2> QED BY <1>1, <2>2
<1>4. CASE s = "running"
  <2>1. Undone' = Undone
    BY <1>0, <1>2, <1>4 DEF Undone
  <2>2. j \in Untaken /\ j \notin Untaken' /\ Untaken' \in SUBSET Untaken
    BY <1>0, <1>2, <1>4 DEF Untaken
  <2>3. Cardinality(Untaken') < Cardinality(Untaken)
    BY <1>0, <2>2, OneLess
  <2> QED BY <1>1, <2>1, <2>3
<1> QED BY <1>2, <1>3, <1>4

\* What a step of the executor's own thread leaves of its hands.
LEMMA MainFalls ==
  ASSUME TypeOK, Cursor, Main
  PROVE  \/ Part' < Part
         \/ /\ Part' = Part /\ Undone' = Undone /\ Untaken' = Untaken
            /\ \/ N - cur' < N - cur
               \/ cur' = cur /\ Undrained' < Undrained
<1>1. CASE Enter \/ OpenRun \/ Expand \/ MakePlan \/ Join \/ GiveUp
           \/ Settle \/ Summarise \/ CloseCut \/ Close
  <2>1. Part' < Part
    BY <1>1 DEF Part, Goto, Finish, WriteFails, Enter, OpenRun, Expand, MakePlan, Join,
         GiveUp, Settle, Summarise, CloseCut, Close
  <2> QED BY <2>1
<1>2. CASE NextJob
  <2>1. CASE cur < N
    <3>1. pc' = pc /\ status' = status /\ cur' = cur + 1
      BY <1>2, <2>1 DEF NextJob, poolVars
    <3>2. N - cur' < N - cur
      BY <3>1, SweepAssumption DEF TypeOK
    <3> QED BY <3>1, <3>2 DEF Part, Undone, Untaken
  <2>2. CASE ~(cur < N)
    <3>1. pc = "drain" /\ pc' = "settle"
      BY <1>2, <2>2 DEF NextJob, Goto
    <3> QED BY <3>1 DEF Part
  <2> QED BY <2>1, <2>2
<1>3. CASE DrainOne
  <2>1. CASE pc' = pc
    <3>1. /\ fnd' = fnd + 1 /\ cur' = cur /\ buf' = buf /\ status' = status /\ ~JobDrained
      BY <1>3, <2>1 DEF DrainOne, Goto, poolVars
    <3>2. cur \in Jobs /\ fnd \in Nat /\ Len(buf[cur]) \in Nat
      BY <3>1, NextFinding, LenProperties DEF TypeOK
    <3>3. Undrained' < Undrained
      BY <3>1, <3>2 DEF Undrained, Jobs
    <3> QED BY <2>1, <3>1, <3>3 DEF Part, Undone, Untaken
  <2>2. CASE pc' # pc
    <3>1. pc = "drain" /\ pc' \in {"settle", "giveup"}
      BY <1>3, <2>2 DEF DrainOne, Goto
    <3> QED BY <3>1 DEF Part
  <2> QED BY <2>1, <2>2
<1> QED BY <1>1, <1>2, <1>3 DEF Main

\* And what a step of the process leaves of the clock.
LEMMA ClockFalls ==
  ASSUME RunInv, CmdNext, Clock \in Clocks, Clock' \in Clocks
  PROVE  Tick \/ UNCHANGED allVars
<1>1. Clock \in Clocks /\ Clock' \in Clocks /\ TypeOK /\ Cursor
  BY DEF RunInv, IndInv
<1>2. /\ Clock[1] = Ahead /\ Clock[2] = Part
      /\ Clock[3] = Cardinality(Undone) /\ Clock[4] = Cardinality(Untaken)
      /\ Clock[5] = N - cur /\ Clock[6] = Undrained /\ Clock[7] = IF cancel THEN 0 ELSE 1
  BY DEF Clock
<1>3. /\ Clock'[1] = Ahead' /\ Clock'[2] = Part'
      /\ Clock'[3] = Cardinality(Undone') /\ Clock'[4] = Cardinality(Untaken')
      /\ Clock'[5] = N - cur' /\ Clock'[6] = Undrained' /\ Clock'[7] = IF cancel' THEN 0 ELSE 1
  BY DEF Clock
<1> HIDE DEF Clock
<1>4. ASSUME NEW j \in 1..7 PROVE j \in {1, 2, 3, 4, 5, 6, 7}
  OBVIOUS
<1>5. CASE Runner
  <2>1. Ahead' = Ahead
    BY <1>5 DEF Runner, Ahead
  <2>2. \E i \in 2..6 : FallsAt(Clock', Clock, i)
    <3>1. ASSUME NEW j \in Jobs, Worker(j)
          PROVE  \E i \in 2..6 : FallsAt(Clock', Clock, i)
      <4>1. /\ Part' = Part
            /\ \/ Cardinality(Undone') < Cardinality(Undone)
               \/ Undone' = Undone /\ Cardinality(Untaken') < Cardinality(Untaken)
        BY <1>1, <3>1, WorkerFalls
      <4> QED BY <1>2, <1>3, <1>4, <2>1, <4>1 DEF FallsAt
    <3>2. CASE Main
      <4>1. \/ Part' < Part
            \/ /\ Part' = Part /\ Undone' = Undone /\ Untaken' = Untaken
               /\ \/ N - cur' < N - cur
                  \/ cur' = cur /\ Undrained' < Undrained
        BY <1>1, <3>2, MainFalls
      <4> QED BY <1>2, <1>3, <1>4, <2>1, <4>1 DEF FallsAt
    <3> QED BY <1>5, <3>1, <3>2 DEF Runner
  <2>3. <<Clock', Clock>> \in Descent
    BY <1>1, <2>2, RunsDown
  <2> QED BY <2>3 DEF Tick
<1>6. CASE CmdProcess
  <2>1. Ahead' < Ahead
    BY <1>6 DEF CmdProcess, Ahead, Proc!ProcStep, Proc!Install, Proc!Parse, Proc!Configure,
         Proc!OpenSink, Proc!TakeArgs, Proc!TakeOutcome, Proc!Exit, Proc!Leave, Proc!Become
  <2>2. FallsAt(Clock', Clock, 1)
    BY <1>2, <1>3, <2>1 DEF FallsAt
  <2>3. <<Clock', Clock>> \in Descent
    BY <1>1, <2>2, RunsDown
  <2> QED BY <2>3 DEF Tick
<1>7. CASE CmdSignal
  <2>1. ~cancel /\ cancel' /\ UNCHANGED <<phase, pc, status, buf, cur, fnd>>
    BY <1>7 DEF CmdSignal, Proc!Signal, Proc!procVars, poolVars, drainVars
  <2>2. /\ Ahead' = Ahead /\ Part' = Part /\ Undone' = Undone /\ Untaken' = Untaken
        /\ cur' = cur /\ Undrained' = Undrained
    BY <2>1 DEF Ahead, Part, Undone, Untaken, Undrained
  <2>3. FallsAt(Clock', Clock, 7)
    BY <1>2, <1>3, <1>4, <2>1, <2>2 DEF FallsAt
  <2>4. <<Clock', Clock>> \in Descent
    BY <1>1, <2>3, RunsDown
  <2> QED BY <2>4 DEF Tick
<1>8. CASE CmdGone
  BY <1>8 DEF CmdGone
<1> QED BY <1>5, <1>6, <1>7, <1>8 DEF CmdNext

\* In whatever order the jobs run, whatever they leave and whenever a SIGINT comes, the
\* process takes only so many steps: each runs a clock down that cannot run down for ever.
\* (That it is not stuck before it has exited is for TLC: Exits.)
THEOREM SweepEnds ==
  /\ IsWellFoundedOn(Descent, Clocks)
  /\ CmdSpec => /\ [](Clock \in Clocks)
                /\ [][Tick]_allVars
<1>1. IsWellFoundedOn(Descent, Clocks)
  BY DescentEnds
<1>2. RunInv => Clock \in Clocks
  BY ClockType
<1>3. RunInv /\ [CmdNext]_allVars /\ Clock \in Clocks /\ (Clock \in Clocks)' => [Tick]_allVars
  BY ClockFalls
<1> QED BY <1>1, <1>2, <1>3, CmdInv, PTL DEF CmdSpec
=============================================================================
