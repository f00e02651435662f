------------------------- MODULE ResourceControlProofs -------------------------
(***************************************************************************)
(* Proofs about ResourceControl for any requests at once, any number of    *)
(* candidates and any bounds: its types, that no calibration is replaced   *)
(* by an older one, and that the recommended worker count is the best one  *)
(* measured.                                                               *)
(***************************************************************************)
EXTENDS ResourceControl, FiniteSetTheorems, SequenceTheorems, TLAPS

-----------------------------------------------------------------------------
(* The inductive invariant.                                                  *)
Queued == {c \in Callers : pc[c] = "queued"}
Busy   == {"sweep", "store", "unlock"}

(* Every request is queued or has had its turn.                              *)
Counted == IsFiniteSet(Queued) /\ requested = started + Cardinality(Queued)

(* Whoever is past the mutex holds it, and builds the latest calibration.    *)
Exclusive ==
  /\ \A c \in Callers : pc[c] \in Busy <=> mutex = c
  /\ \A c \in Callers : pc[c] \in Busy => result[c].run = started
  /\ last # None => last.run <= started

(* What a sweep has found after any number of candidates.                    *)
Fastest(r) ==
  /\ r.best \in 0..Len(r.samples)
  /\ r.best = 0 => \A i \in DOMAIN r.samples : Score(r.samples[i]) = 0
  /\ r.best # 0 =>
       /\ Score(r.samples[r.best]) > 0
       /\ \A i \in DOMAIN r.samples :
            /\ Score(r.samples[i]) <= Score(r.samples[r.best])
            /\ i < r.best => Score(r.samples[i]) < Score(r.samples[r.best])

Swept ==
  /\ \A c \in Callers : Fastest(result[c])
  /\ \A c \in Callers : pc[c] = "sweep" => Len(result[c].samples) < Candidates
  /\ last # None => Fastest(last)

IInv == TypeOK /\ Counted /\ Exclusive /\ Swept

-----------------------------------------------------------------------------
LEMMA ScoreType == \A s \in Sample : Score(s) \in Rates
  BY SweepAssumption DEF Sample, Rates, Score

(* A calibration that has measured nothing yet.                              *)
LEMMA FreshResult ==
  ASSUME NEW n \in 0..MaxRuns
  PROVE  LET r == [Empty EXCEPT !.run = n]
         IN  r \in Results /\ r.run = n /\ Len(r.samples) = 0 /\ Fastest(r)
  <1> DEFINE r == [Empty EXCEPT !.run = n]
  <1>1. r = [run |-> n, best |-> 0, samples |-> <<>>]
    BY DEF Empty
  <1>2. <<>> \in Seq(Sample) /\ Len(<<>>) = 0 /\ DOMAIN <<>> = {}
    OBVIOUS
  <1>3. r.run = n /\ r.best = 0 /\ r.samples = <<>>
    BY <1>1
  <1>4. 0 \in 0..Candidates
    BY SweepAssumption
  <1>5. r \in Results
    BY <1>1, <1>2, <1>4 DEF Results
  <1>6. Fastest(r)
    BY <1>2, <1>3 DEF Fastest
  <1> QED
    BY <1>2, <1>3, <1>5, <1>6

LEMMA EmptyResult == Empty \in Results /\ Len(Empty.samples) = 0 /\ Fastest(Empty)
  <1>1. Empty = [Empty EXCEPT !.run = 0] /\ 0 \in 0..MaxRuns
    BY RunsAssumption DEF Empty
  <1> QED
    BY <1>1, FreshResult

(* One more candidate keeps the result that of the fastest so far.           *)
LEMMA AddKeeps ==
  ASSUME NEW r \in Results, NEW s \in Sample, Fastest(r), Len(r.samples) < Candidates
  PROVE  /\ Add(r, s) \in Results
         /\ Add(r, s).run = r.run
         /\ Len(Add(r, s).samples) = Len(r.samples) + 1
         /\ Fastest(Add(r, s))
  <1> DEFINE n == Len(r.samples)
             t == Append(r.samples, s)
             a == Add(r, s)
  <1>1. /\ r.samples \in Seq(Sample) /\ n \in Nat
        /\ r.best \in 0..n
        /\ \A i \in 1..n : r.samples[i] \in Sample
        /\ DOMAIN r.samples = 1..n
    BY DEF Results, Fastest
  <1>2. /\ t \in Seq(Sample) /\ Len(t) = n + 1 /\ DOMAIN t = 1..(n + 1)
        /\ \A i \in 1..n : t[i] = r.samples[i]
        /\ t[n + 1] = s
    BY <1>1, AppendProperties
  <1>3. /\ a.samples = t /\ a.best = Best(r, s) /\ a.run = r.run
        /\ a = [run |-> r.run, best |-> Best(r, s), samples |-> t]
    <2>1. DOMAIN r = {"run", "best", "samples"}
      BY DEF Results
    <2> HIDE DEF t
    <2>2. a = [r EXCEPT !.samples = t, !.best = Best(r, s)]
      BY DEF Add, t
    <2> QED
      BY <2>1, <2>2
  <1>4. \A i \in 1..n : Score(r.samples[i]) \in Nat
    BY <1>1, ScoreType, SweepAssumption DEF Rates
  <1>5. Score(s) \in Nat
    BY ScoreType, SweepAssumption DEF Rates
  <1>6. Best(r, s) \in 0..(n + 1)
    BY <1>1 DEF Best
  <1>7. a \in Results
    BY <1>1, <1>2, <1>3, <1>6, SweepAssumption DEF Results
  <1>8. Fastest(a)
    <2>1. CASE r.best = 0
      <3>1. \A i \in 1..n : Score(t[i]) = 0
        BY <1>1, <1>2, <2>1 DEF Fastest
      <3>2. CASE Score(s) > 0
        <4>1. a.best = n + 1
          BY <1>3, <2>1, <3>2 DEF Best
        <4> QED
          BY <1>1, <1>2, <1>3, <1>5, <3>1, <3>2, <4>1 DEF Fastest
      <3>3. CASE ~(Score(s) > 0)
        <4>1. a.best = 0 /\ Score(s) = 0
          BY <1>3, <1>5, <2>1, <3>3 DEF Best
        <4> QED
          BY <1>1, <1>2, <1>3, <3>1, <4>1 DEF Fastest
      <3> QED
        BY <3>2, <3>3
    <2>2. CASE r.best # 0
      <3>1. /\ Score(t[r.best]) > 0
            /\ Score(t[r.best]) = Score(r.samples[r.best])
            /\ Score(t[r.best]) \in Nat
            /\ r.best \in 1..n
            /\ \A i \in 1..n : /\ Score(t[i]) \in Nat
                               /\ Score(t[i]) <= Score(t[r.best])
                               /\ i < r.best => Score(t[i]) < Score(t[r.best])
        BY <1>1, <1>2, <1>4, <2>2 DEF Fastest
      <3>2. CASE Score(s) > Score(r.samples[r.best])
        <4>1. a.best = n + 1
          BY <1>3, <2>2, <3>2 DEF Best
        <4> QED
          BY <1>1, <1>2, <1>3, <1>5, <3>1, <3>2, <4>1 DEF Fastest
      <3>3. CASE ~(Score(s) > Score(r.samples[r.best]))
        <4>1. a.best = r.best
          BY <1>3, <2>2, <3>3 DEF Best
        <4> QED
          BY <1>1, <1>2, <1>3, <1>5, <3>1, <3>3, <4>1 DEF Fastest
      <3> QED
        BY <3>2, <3>3
    <2> QED
      BY <2>1, <2>2
  <1> QED
    BY <1>2, <1>3, <1>7, <1>8

-----------------------------------------------------------------------------
LEMMA InitInvariant == Init => IInv
  <1> SUFFICES ASSUME Init PROVE IInv
    OBVIOUS
  <1>1. TypeOK
    BY EmptyResult, RunsAssumption, SweepAssumption DEF Init, TypeOK
  <1>2. Counted
    <2>1. Queued = {}
      BY DEF Init, Queued
    <2> QED
      BY <2>1, FS_EmptySet DEF Init, Counted
  <1>3. Exclusive
    BY CallersAssumption DEF Init, Exclusive, Busy
  <1>4. Swept
    BY EmptyResult DEF Init, Swept
  <1> QED
    BY <1>1, <1>2, <1>3, <1>4 DEF IInv

(* A step of one handler that neither enters nor leaves the queue.           *)
LEMMA KeepsCount ==
  ASSUME Counted, NEW c \in Callers, NEW place,
         pc \in [Callers -> {"idle", "queued", "sweep", "store", "unlock"}],
         pc' = [pc EXCEPT ![c] = place], pc[c] # "queued", place # "queued",
         UNCHANGED <<requested, started>>
  PROVE  Counted'
  <1>1. Queued' = Queued
    BY DEF Queued
  <1> QED
    BY <1>1 DEF Counted

LEMMA NextInvariant == IInv /\ [Next]_vars => IInv'
  <1> SUFFICES ASSUME IInv, [Next]_vars PROVE IInv'
    OBVIOUS
  <1>t. /\ pc \in [Callers -> {"idle", "queued", "sweep", "store", "unlock"}]
        /\ ctx \in [Callers -> {"live", "ended"}]
        /\ result \in [Callers -> Results]
        /\ requested \in 0..MaxRuns /\ started \in 0..requested
    BY DEF IInv, TypeOK
  <1>1. ASSUME NEW c \in Callers, Request(c) PROVE IInv'
    <2>1. TypeOK'
      BY <1>1, <1>t, RunsAssumption DEF IInv, TypeOK, Request
    <2>2. Counted'
      <3>1. Queued' = Queued \cup {c} /\ c \notin Queued
        BY <1>1, <1>t DEF Request, Queued
      <3>2. Cardinality(Queued') = Cardinality(Queued) + 1 /\ IsFiniteSet(Queued')
        BY <3>1, FS_AddElement DEF IInv, Counted
      <3> QED
        BY <1>1, <1>t, <3>2, FS_CardinalityType DEF IInv, Counted, Request
    <2>3. Exclusive' /\ Swept'
      BY <1>1, <1>t DEF IInv, Exclusive, Swept, Busy, Request, Fastest
    <2> QED
      BY <2>1, <2>2, <2>3 DEF IInv
  <1>2. ASSUME NEW c \in Callers, ContextEnds(c) PROVE IInv'
    BY <1>2 DEF IInv, TypeOK, Counted, Queued, Exclusive, Swept, Fastest, ContextEnds
  <1>3. ASSUME NEW c \in Callers, Lock(c) PROVE IInv'
    <2> DEFINE fresh == [Empty EXCEPT !.run = started']
    <2>1. /\ Queued' = Queued \ {c} /\ c \in Queued
          /\ IsFiniteSet(Queued) /\ Cardinality(Queued) \in Nat
      BY <1>3, <1>t, FS_CardinalityType DEF Lock, Queued, IInv, Counted
    <2>2. Cardinality(Queued') = Cardinality(Queued) - 1 /\ IsFiniteSet(Queued')
      BY <2>1, FS_RemoveElement
    <2>3. Cardinality(Queued) # 0
      BY <2>1, FS_EmptySet
    <2>4. started' = started + 1 /\ started' \in 0..requested /\ started' \in 0..MaxRuns
      BY <1>3, <1>t, <2>1, <2>3, RunsAssumption DEF Lock, IInv, Counted
    <2>5. /\ fresh \in Results /\ fresh.run = started' /\ Len(fresh.samples) = 0
          /\ Fastest(fresh)
      BY <2>4, FreshResult
    <2>6. result' = [result EXCEPT ![c] = fresh]
      BY <1>3 DEF Lock
    <2>7. TypeOK'
      BY <1>3, <1>t, <2>4, <2>5, <2>6, SweepAssumption DEF IInv, TypeOK, Lock
    <2>8. Counted'
      BY <1>3, <1>t, <2>1, <2>2, <2>4 DEF IInv, Counted, Lock
    <2>9. Exclusive'
      <3>1. \A d \in Callers : pc[d] \notin Busy
        BY <1>3, CallersAssumption DEF IInv, Exclusive, Lock
      <3>2. \A d \in Callers : pc'[d] \in Busy <=> d = c
        BY <1>3, <1>t, <3>1 DEF Lock, Busy
      <3>3. result'[c].run = started'
        BY <1>t, <2>5, <2>6
      <3>4. last # None => last.run \in Nat /\ last.run <= started
        BY DEF IInv, TypeOK, Results, Exclusive
      <3>5. last' # None => last'.run <= started'
        BY <1>3, <1>t, <2>4, <3>4 DEF Lock
      <3>6. mutex' = c
        BY <1>3 DEF Lock
      <3> QED
        BY <3>2, <3>3, <3>5, <3>6 DEF Exclusive
    <2>10. Swept'
      BY <1>3, <1>t, <2>5, <2>6, SweepAssumption DEF IInv, Swept, Lock, Fastest
    <2> QED
      BY <2>7, <2>8, <2>9, <2>10 DEF IInv
  <1>4. ASSUME NEW c \in Callers, MeasureCandidate(c) PROVE IInv'
    <2> DEFINE r == result[c]
    <2>1. /\ pc[c] = "sweep" /\ r \in Results /\ Fastest(r) /\ Len(r.samples) < Candidates
          /\ UNCHANGED <<mutex, last, requested, started>>
      BY <1>4, <1>t DEF MeasureCandidate, Measuring, IInv, Swept
    <2>2. ctx' \in [Callers -> {"live", "ended"}]
      BY <1>4, <1>t DEF MeasureCandidate, Measuring
    <2>3. \A before, after : Measures(before, after) \subseteq Sample
      BY SweepAssumption DEF Measures, Sample, Rates
    <2>4. PICK s \in Sample : result' = [result EXCEPT ![c] = Add(r, s)]
      BY <1>4, <2>3 DEF MeasureCandidate, Measuring
    <2>5. /\ Add(r, s) \in Results /\ Add(r, s).run = r.run
          /\ Len(Add(r, s).samples) = Len(r.samples) + 1
          /\ Fastest(Add(r, s))
      BY <2>1, AddKeeps
    <2>6. PICK place \in {"sweep", "store"} :
            /\ pc' = [pc EXCEPT ![c] = place]
            /\ Len(r.samples) + 1 = Candidates => place = "store"
      <3>1. CASE pc' = pc
        <4>1. pc' = [pc EXCEPT ![c] = "sweep"] /\ Len(r.samples) + 1 # Candidates
          BY <1>4, <1>t, <2>1, <3>1 DEF MeasureCandidate, Measuring
        <4> QED
          BY <4>1
      <3>2. CASE pc' # pc
        BY <1>4, <3>2 DEF MeasureCandidate, Measuring
      <3> QED
        BY <3>1, <3>2
    <2>7. Len(r.samples) \in Nat
      BY <2>1, LenProperties DEF Results
    <2>8. TypeOK'
      BY <1>t, <2>1, <2>2, <2>4, <2>5, <2>6, <2>7, SweepAssumption DEF IInv, TypeOK
    <2>9. Counted'
      BY <1>t, <2>1, <2>6, KeepsCount DEF IInv
    <2>10. Exclusive'
      BY <1>t, <2>1, <2>4, <2>5, <2>6 DEF IInv, Exclusive, Busy
    <2>11. Swept'
      BY <1>t, <2>1, <2>4, <2>5, <2>6, <2>7, SweepAssumption DEF IInv, Swept, Fastest
    <2> QED
      BY <2>8, <2>9, <2>10, <2>11 DEF IInv
  <1>5. ASSUME NEW c \in Callers, Store(c) PROVE IInv'
    <2>1. TypeOK'
      BY <1>5, <1>t DEF IInv, TypeOK, Store
    <2>2. Counted'
      BY <1>5, <1>t, KeepsCount DEF IInv, Store
    <2>3. Exclusive'
      BY <1>5, <1>t DEF IInv, Exclusive, Busy, Store
    <2>4. Swept'
      BY <1>5, <1>t DEF IInv, Swept, Store, Fastest
    <2> QED
      BY <2>1, <2>2, <2>3, <2>4 DEF IInv
  <1>6. ASSUME NEW c \in Callers, Reply(c) PROVE IInv'
    <2>1. TypeOK'
      BY <1>6, <1>t, EmptyResult, SweepAssumption DEF IInv, TypeOK, Reply
    <2>2. Counted'
      BY <1>6, <1>t, KeepsCount DEF IInv, Reply
    <2>3. Exclusive'
      BY <1>6, <1>t, CallersAssumption DEF IInv, Exclusive, Busy, Reply
    <2>4. Swept'
      BY <1>6, <1>t, EmptyResult DEF IInv, Swept, Reply, Fastest
    <2> QED
      BY <2>1, <2>2, <2>3, <2>4 DEF IInv
  <1>7. CASE UNCHANGED vars
    BY <1>7 DEF vars, IInv, TypeOK, Counted, Queued, Exclusive, Swept, Fastest
  <1> QED
    BY <1>1, <1>2, <1>3, <1>4, <1>5, <1>6, <1>7 DEF Next, Run

(* The inductive invariant: the mutex serialises sweeps and the storing of   *)
(* their results, and every result names the fastest of its candidates.      *)
THEOREM Invariant == Spec => []IInv
  <1> QED
    BY InitInvariant, NextInvariant, PTL DEF Spec

(* Every variable keeps its type.                                            *)
THEOREM TypeCorrect == Spec => []TypeOK
  <1>1. IInv => TypeOK
    BY DEF IInv
  <1> QED
    BY <1>1, Invariant, PTL

(* However many calibrations overlap, the one that /v1/host and              *)
(* /v1/placement see is never replaced by an older one.                      *)
THEOREM NewestIsKept == Spec => LastIsNewest
  <1>1. ASSUME IInv, [Next]_vars, last # None PROVE last'.run >= last.run
    <2>1. last \in Results /\ last.run <= started /\ last.run \in Nat /\ started \in Nat
      BY <1>1 DEF IInv, TypeOK, Exclusive, Results
    <2>2. ASSUME NEW c \in Callers, Store(c) PROVE last'.run >= last.run
      BY <1>1, <2>1, <2>2 DEF IInv, Exclusive, Busy, Store
    <2>3. CASE UNCHANGED last
      BY <2>1, <2>3
    <2> QED
      BY <1>1, <2>2, <2>3
      DEF Next, Request, ContextEnds, Lock, Run, MeasureCandidate, Measuring, Reply, vars
  <1>2. IInv /\ [Next]_vars => [last # None => last'.run >= last.run]_vars
    BY <1>1
  <1> QED
    BY <1>2, Invariant, PTL DEF Spec, LastIsNewest

(* The recommended worker count is the smallest of those with the best worst *)
(* throughput, wherever the sweep was cut off.                               *)
THEOREM RecommendsFastest == Spec => []BestIsFastest
  <1>1. IInv => BestIsFastest
    BY DEF IInv, TypeOK, Swept, Fastest, BestIsFastest
  <1> QED
    BY <1>1, Invariant, PTL
=============================================================================
