---------------------------- MODULE Council_proofs ----------------------------
(***************************************************************************)
(* Safety of the council engine, for every team, every pool size and any    *)
(* number of jobs: the invariants of Council, by one inductive invariant    *)
(* over the record of a job (GoodJob) and over a stored pause (GoodRun).    *)
(***************************************************************************)
EXTENDS Council, FiniteSetTheorems, WellFoundedInduction, TLAPS

-----------------------------------------------------------------------------
(* The inductive invariant                                                 *)

Answers(r, S) == \A s \in S : r.trace[s] \in {"ok", "error"}

\* What succeeded is what the trace says, and no step is called that the
\* trace has a result for.
Bookkeeping(r) ==
    /\ r.heard = Seed(r.trace)
    /\ \A s \in r.flight \cup r.queued : r.trace[s] = "none"
    /\ r.flight \cap r.queued = {}
    /\ IsFiniteSet(r.flight) /\ Cardinality(r.flight) <= PoolSize

\* Where a job can be, by its shape, and what can be in flight there.
InPlace(r) ==
    /\ r.pc = "single" => Shape = "single" /\ r.flight \subseteq {Team[1]}
    /\ r.pc \in {"plan", "work"} => Shape = "pipeline"
    /\ r.pc = "plan" => council.coordinated /\ r.flight \subseteq {Plan}
    /\ r.pc = "work" => r.flight \subseteq {FirstOf(Having(r.trace, "none") \cap Workers)}
    /\ r.pc = "final" => Shape # "single" /\ r.flight \subseteq {Final}
    /\ r.pc = "final" /\ Shape = "pipeline" => council.coordinated
    /\ r.pc \in {"pool", "drain"} => Shape = "parallel" /\ r.flight \subseteq Workers
    /\ r.pc \in {"idle", "paused", "finished"} => r.flight = {}
    /\ r.pc # "pool" => r.queued = {}

\* The step a job has come to has no result yet.
IsDue(r) ==
    /\ r.pc = "single" => r.trace[Team[1]] = "none"
    /\ r.pc = "plan" => r.trace[Plan] = "none"
    /\ r.pc = "work" => Having(r.trace, "none") \cap Workers # {}
    /\ r.pc = "final" => r.trace[Final] = "none"
    /\ r.pc \in {"plan", "work", "pool"} => r.trace[Final] \in {"none", "ok"}

\* Credit failures stop a job at once; in the pool, others may be answered, but
\* a role that is not in sight any more was cancelled for a credit failure.
CreditStops(r) ==
    /\ r.pc \in OneByOne => Having(r.trace, "credit") = {}
    /\ r.pc = "pool" => \/ Having(r.trace, "credit") # {}
                        \/ \A w \in Workers : r.trace[w] = "none" => w \in r.queued \cup r.flight
    /\ r.pc = "final" => Answers(r, Workers)
    /\ r.pc = "finished" =>
          \/ Answers(r, Owed)
          \/ Shape = "pipeline" /\ r.trace[Plan] = "error"
          \/ Shape = "pipeline" /\ council.build /\ r.trace[Team[1]] = "error"
    /\ r.pc = "paused" /\ Shape = "single" => r.trace[Team[1]] # "ok"

\* In a coordinated pipeline the plan comes first.
PlanFirst(r) ==
    Shape = "pipeline" /\ council.coordinated =>
        /\ r.pc \in {"work", "final"} => r.trace[Plan] = "ok"
        /\ r.trace[Plan] # "ok" => r.flight \cup Having(r.trace, "ok") \subseteq {Plan}

GoodJob(r) ==
    Bookkeeping(r) /\ InPlace(r) /\ IsDue(r) /\ CreditStops(r) /\ PlanFirst(r)

GoodRun(run) ==
    /\ run.heard = run.seed
    /\ Shape = "single" => Team[1] \notin run.seed
    /\ Shape = "pipeline" /\ council.coordinated /\ Plan \notin run.seed => run.seed = {}

GoodJobs == {r \in Job : GoodJob(r)}
GoodRuns == {run \in Run : GoodRun(run)}

IInv ==
    /\ council \in Request
    /\ paused \subseteq GoodRuns
    /\ job \in [Jobs -> GoodJobs]

-----------------------------------------------------------------------------
(* The team                                                                *)

\* A set of naturals has a least element.
LEMMA LeastElement ==
    ASSUME NEW S \in SUBSET Nat, S # {}
    PROVE  \E i \in S : \A k \in S : i <= k
<1> DEFINE R == {ss \in Nat \X Nat : ss[1] < ss[2]}
<1>1. IsWellFoundedOn(R, Nat)
  BY NatLessThanWellFounded DEF OpToRel
<1>2. PICK i \in S : \A k \in S : <<k, i>> \notin R
  BY <1>1, WFMin
<1>3. ASSUME NEW k \in S
      PROVE  i <= k
  <2>1. <<k, i>> \notin R /\ <<k, i>> \in Nat \X Nat
    BY <1>2
  <2>2. ~(k < i)
    BY <2>1
  <2> QED
    BY <2>2
<1> QED
  BY <1>3

\* The team is a list with a first worker.
LEMMA FirstWorker ==
    /\ DOMAIN Team = 1..Len(Team) /\ Len(Team) \in Nat
    /\ Team[1] \in Workers
<1>1. Team \in Seq(Workers) /\ Team # << >>
  BY TeamIsAList
<1>2. Len(Team) \in Nat /\ DOMAIN Team = 1..Len(Team) /\ Len(Team) # 0
  BY <1>1
<1>3. 1 \in DOMAIN Team
  BY <1>2
<1> QED
  BY <1>2, <1>3 DEF Workers

\* The first of some workers is one of them.
LEMMA FirstIsOneOfThem ==
    ASSUME NEW S, S \subseteq Workers, S # {}
    PROVE  FirstOf(S) \in S
<1> DEFINE places == {i \in DOMAIN Team : Team[i] \in S}
           IsFirst(i) == Team[i] \in S /\ \A k \in 1..(i - 1) : Team[k] \notin S
<1>1. places \in SUBSET Nat /\ places # {}
  BY FirstWorker DEF Workers
<1>2. PICK i \in places : \A k \in places : i <= k
  BY <1>1, LeastElement
<1>3. \A k \in 1..(i - 1) : Team[k] \notin S
  <2> SUFFICES ASSUME NEW k \in 1..(i - 1), Team[k] \in S
               PROVE  FALSE
    OBVIOUS
  <2>1. i \in 1..Len(Team) /\ Len(Team) \in Nat
    BY <1>2, FirstWorker
  <2>2. k \in places
    BY <2>1, FirstWorker
  <2> QED
    BY <1>2, <2>1, <2>2
<1>4. \E n \in DOMAIN Team : IsFirst(n)
  BY <1>2, <1>3
<1>5. IsFirst(CHOOSE n \in DOMAIN Team : IsFirst(n))
  BY <1>4
<1> QED
  BY <1>5 DEF FirstOf

-----------------------------------------------------------------------------
(* Records                                                                 *)

\* Which records are good depends on the request only.
LEMMA GoodStaysGood ==
    ASSUME council' = council
    PROVE  GoodJobs' = GoodJobs /\ GoodRuns' = GoodRuns
BY DEF GoodJobs, GoodRuns, GoodJob, GoodRun, Bookkeeping, InPlace, IsDue, CreditStops,
       PlanFirst, Answers, Owed, Shape

\* A job that is not there is good.
LEMMA NoJobIsGood == NoJob \in GoodJobs
<1>1. NoJob \in Job
  BY DEF NoJob, Job, Results
<1>2. Bookkeeping(NoJob)
  BY FS_EmptySet, PoolIsNotEmpty DEF Bookkeeping, NoJob, Seed, Having
<1>3. InPlace(NoJob) /\ IsDue(NoJob) /\ CreditStops(NoJob)
  BY DEF InPlace, IsDue, CreditStops, NoJob, OneByOne
<1>4. PlanFirst(NoJob)
  BY DEF PlanFirst, NoJob, Having
<1> QED
  BY <1>1, <1>2, <1>3, <1>4 DEF GoodJobs, GoodJob

\* Where a pipeline goes after its plan, a worker, or what was resumed.
LEMMA AfterWorkersIsGood ==
    ASSUME NEW r \in Job, Bookkeeping(r), r.flight = {}, r.queued = {},
           council \in Request, Shape = "pipeline",
           Having(r.trace, "credit") = {}, r.trace[Final] \in {"none", "ok"},
           council.coordinated => r.trace[Plan] = "ok",
           r.pc = AfterWorkers(r.trace)
    PROVE  r \in GoodJobs
<1>1. CASE Having(r.trace, "none") \cap Workers # {}
  <2>1. r.pc = "work"
    BY <1>1 DEF AfterWorkers
  <2> QED
    BY <1>1, <2>1 DEF GoodJobs, GoodJob, InPlace, IsDue, CreditStops, PlanFirst, OneByOne
<1>2. CASE Having(r.trace, "none") \cap Workers = {}
  <2>1. Answers(r, Workers)
    BY <1>2 DEF Answers, Having, Job, Results, Steps
  <2>2. CASE council.coordinated /\ r.trace[Final] # "ok"
    <3>1. r.pc = "final"
      BY <1>2, <2>2 DEF AfterWorkers
    <3> QED
      BY <2>1, <2>2, <3>1 DEF GoodJobs, GoodJob, InPlace, IsDue, CreditStops, PlanFirst, OneByOne
  <2>3. CASE ~(council.coordinated /\ r.trace[Final] # "ok")
    <3>1. r.pc = "finished"
      BY <1>2, <2>3 DEF AfterWorkers
    <3>2. Answers(r, Owed)
      BY <2>1, <2>3 DEF Answers, Owed
    <3> QED
      BY <3>1, <3>2 DEF GoodJobs, GoodJob, InPlace, IsDue, CreditStops, PlanFirst, OneByOne
  <2> QED
    BY <2>2, <2>3
<1> QED
  BY <1>1, <1>2

\* A job begun from nothing, or from a good pause, is good.
LEMMA BeginningIsGood ==
    ASSUME NEW run \in GoodRuns, council \in Request, NEW j \in Jobs,
           job \in [Jobs -> GoodJobs], Begins(j, run.seed, run.heard)
    PROVE  job' \in [Jobs -> GoodJobs]
<1> DEFINE trace == [s \in Steps |-> IF s \in run.seed THEN "ok" ELSE "none"]
           pc == CASE Shape = "single" -> "single"
                   [] Shape = "parallel" -> "pool"
                   [] OTHER -> IF council.coordinated /\ Plan \notin run.seed
                               THEN "plan" ELSE AfterWorkers(trace)
           queued == IF Shape = "parallel" THEN Workers \ run.seed ELSE {}
           r == [NoJob EXCEPT !.pc = pc, !.trace = trace, !.queued = queued, !.heard = run.heard]
<1>1. job' = [job EXCEPT ![j] = r]
  BY DEF Begins, Becomes
<1>2. run \in Run /\ GoodRun(run) /\ run.seed \subseteq Steps /\ run.heard = run.seed
  BY DEF GoodRuns, GoodRun, Run
<1>3. trace \in [Steps -> Results] /\ pc \in {"single", "plan", "work", "pool", "final", "finished"}
  BY DEF Results, AfterWorkers
<1>4. /\ r.pc = pc /\ r.trace = trace /\ r.queued = queued /\ r.heard = run.heard
      /\ r.flight = {} /\ r.stopped = FALSE
  BY DEF NoJob
<1>5. r \in Job
  BY <1>2, <1>3 DEF NoJob, Job
<1>6. /\ Plan \in Steps /\ Final \in Steps /\ Team[1] \in Workers /\ Workers \subseteq Steps
      /\ Shape \in {"single", "parallel", "pipeline"}
  BY FirstWorker DEF Steps, Shape
<1>7. Having(trace, "credit") = {} /\ Seed(trace) = run.seed /\ trace[Final] \in {"none", "ok"}
  BY <1>2, <1>6 DEF Having, Seed
<1>8. Bookkeeping(r)
  <2>1. \A s \in r.queued : trace[s] = "none"
    BY <1>4, <1>6
  <2> QED
    BY <1>2, <1>4, <1>7, <2>1, FS_EmptySet, PoolIsNotEmpty DEF Bookkeeping
<1> HIDE DEF r, trace, pc, queued
<1>9. r \in GoodJobs
  <2>1. CASE Shape = "single"
    <3>1. r.pc = "single" /\ r.queued = {} /\ trace[Team[1]] = "none"
      BY <1>2, <1>4, <1>6, <2>1 DEF pc, queued, trace, GoodRun
    <3> QED
      BY <1>4, <1>5, <1>7, <1>8, <2>1, <3>1
      DEF GoodJobs, GoodJob, InPlace, IsDue, CreditStops, PlanFirst, OneByOne
  <2>2. CASE Shape = "parallel"
    <3>1. r.pc = "pool" /\ r.queued = Workers \ run.seed
      BY <1>4, <2>2 DEF pc, queued
    <3>2. \A w \in Workers : trace[w] = "none" => w \in r.queued \cup r.flight
      BY <1>6, <3>1 DEF trace
    <3> QED
      BY <1>4, <1>5, <1>7, <1>8, <2>2, <3>1, <3>2
      DEF GoodJobs, GoodJob, InPlace, IsDue, CreditStops, PlanFirst, OneByOne
  <2>3. CASE Shape = "pipeline" /\ council.coordinated /\ Plan \notin run.seed
    <3>1. r.pc = "plan" /\ r.queued = {} /\ trace[Plan] = "none"
      BY <1>4, <1>6, <2>3 DEF pc, queued, trace
    <3>2. Having(trace, "ok") = {}
      BY <1>2, <1>7, <2>3 DEF Seed, GoodRun
    <3> QED
      BY <1>4, <1>5, <1>7, <1>8, <2>3, <3>1, <3>2
      DEF GoodJobs, GoodJob, InPlace, IsDue, CreditStops, PlanFirst, OneByOne
  <2>4. CASE Shape = "pipeline" /\ ~(council.coordinated /\ Plan \notin run.seed)
    <3>1. r.pc = AfterWorkers(trace) /\ r.queued = {}
      BY <1>4, <2>4 DEF pc, queued
    <3>2. council.coordinated => trace[Plan] = "ok"
      BY <1>6, <2>4 DEF trace
    <3> QED
      BY <1>4, <1>5, <1>7, <1>8, <2>4, <3>1, <3>2, AfterWorkersIsGood
  <2> QED
    BY <1>6, <2>1, <2>2, <2>3, <2>4
<1> QED
  BY <1>1, <1>9

-----------------------------------------------------------------------------
(* The steps of a job                                                      *)

\* The names of the steps.
LEMMA StepNames ==
    /\ Plan \in Steps /\ Final \in Steps /\ Workers \subseteq Steps
    /\ Team[1] \in Workers /\ Plan # Final /\ Plan \notin Workers /\ Final \notin Workers
    /\ Shape \in {"single", "parallel", "pipeline"}
BY FirstWorker, StepsDiffer DEF Steps, Shape

\* The record of one job is replaced by a good one.
LEMMA OneJobBecomes ==
    ASSUME job \in [Jobs -> GoodJobs], NEW j \in Jobs, NEW n \in GoodJobs, Becomes(j, n)
    PROVE  job' \in [Jobs -> GoodJobs]
BY DEF Becomes

\* A call is made for the step the job has come to, which is called for the
\* first time.
LEMMA CallIsGood ==
    ASSUME NEW j \in Jobs, job[j] \in GoodJobs, At(j, OneByOne), job[j].flight = {}
    PROVE  [job[j] EXCEPT !.flight = {Due(j)}] \in GoodJobs
<1> DEFINE r == job[j]
           n == [r EXCEPT !.flight = {Due(j)}]
<1>1. r \in Job /\ Bookkeeping(r) /\ InPlace(r) /\ IsDue(r) /\ CreditStops(r) /\ PlanFirst(r)
  BY DEF GoodJobs, GoodJob
<1>2. r.pc \in OneByOne /\ r.queued = {}
  BY <1>1 DEF At, InPlace, OneByOne
<1>3. /\ r.pc = "single" => Due(j) = Team[1]
      /\ r.pc = "plan" => Due(j) = Plan
      /\ r.pc = "final" => Due(j) = Final
      /\ r.pc = "work" => /\ Due(j) = FirstOf(Having(r.trace, "none") \cap Workers)
                          /\ Due(j) \in Having(r.trace, "none") \cap Workers
  <2>1. r.pc = "work" =>
            FirstOf(Having(r.trace, "none") \cap Workers) \in Having(r.trace, "none") \cap Workers
    BY <1>1, FirstIsOneOfThem DEF IsDue
  <2> QED
    BY <2>1 DEF Due, At
<1>4. Due(j) \in Steps /\ r.trace[Due(j)] = "none"
  BY <1>1, <1>2, <1>3, StepNames DEF IsDue, OneByOne, Having
<1>5. /\ n \in Job /\ n.pc = r.pc /\ n.trace = r.trace /\ n.queued = {}
      /\ n.heard = r.heard /\ n.flight = {Due(j)}
  BY <1>1, <1>2, <1>4 DEF Job
<1>6. IsFiniteSet({Due(j)}) /\ Cardinality({Due(j)}) = 1
  BY FS_Singleton
<1> HIDE DEF n
<1>7. Bookkeeping(n)
  BY <1>1, <1>4, <1>5, <1>6, PoolIsNotEmpty DEF Bookkeeping
<1>8. InPlace(n)
  BY <1>1, <1>2, <1>3, <1>5 DEF InPlace, OneByOne
<1>9. IsDue(n) /\ CreditStops(n)
  BY <1>1, <1>2, <1>5 DEF IsDue, CreditStops, Answers, OneByOne
<1>10. PlanFirst(n)
  BY <1>1, <1>2, <1>3, <1>5 DEF PlanFirst, InPlace, OneByOne
<1> QED
  BY <1>5, <1>7, <1>8, <1>9, <1>10 DEF GoodJobs, GoodJob, n

\* n is r after the answer to the call of s.
IsAnswer(n, r, s, result) ==
    /\ n.trace = [r.trace EXCEPT ![s] = result]
    /\ n.flight = r.flight \ {s} /\ n.queued = r.queued
    /\ n.heard = IF result = "ok" THEN r.heard \cup {s} ELSE r.heard

\* An answer keeps the books.
LEMMA AnswerIsBooked ==
    ASSUME NEW r \in Job, Bookkeeping(r), NEW s \in r.flight, NEW result \in Outcomes,
           NEW n \in Job, IsAnswer(n, r, s, result)
    PROVE  /\ Bookkeeping(n)
           /\ \A t \in Steps \ {s} : n.trace[t] = r.trace[t]
           /\ s \in Steps /\ r.trace[s] = "none" /\ n.trace[s] = result
           /\ \A x \in Results \ {result} : Having(n.trace, x) = Having(r.trace, x) \ {s}
<1> USE DEF IsAnswer
<1>1. s \in Steps /\ r.trace \in [Steps -> Results] /\ r.trace[s] = "none"
  BY DEF Job, Bookkeeping
<1>2. /\ \A t \in Steps \ {s} : n.trace[t] = r.trace[t]
      /\ n.trace[s] = result
  BY <1>1
<1>3. \A x \in Results \ {result} : Having(n.trace, x) = Having(r.trace, x) \ {s}
  BY <1>1, <1>2 DEF Having
<1>4. n.heard = Seed(n.trace)
  BY <1>1, <1>2 DEF Bookkeeping, Seed, Having, Outcomes, Results
<1>5. IsFiniteSet(n.flight) /\ Cardinality(n.flight) <= PoolSize
  <2>1. IsFiniteSet(n.flight) /\ Cardinality(n.flight) <= Cardinality(r.flight)
    BY FS_Subset DEF Bookkeeping
  <2>2. Cardinality(n.flight) \in Nat /\ Cardinality(r.flight) \in Nat
    BY <2>1, FS_CardinalityType DEF Bookkeeping
  <2> QED
    BY <2>1, <2>2, PoolIsNotEmpty DEF Bookkeeping
<1>6. \A t \in n.flight \cup n.queued : t # s /\ t \in Steps /\ n.trace[t] = "none"
  BY <1>1, <1>2, StepNames DEF Bookkeeping, Job
<1> QED
  BY <1>1, <1>2, <1>3, <1>4, <1>5, <1>6 DEF Bookkeeping

\* An answer takes a job on, ends it or pauses it.
LEMMA AnswerIsGood ==
    ASSUME council \in Request, NEW r \in GoodJobs, r.pc \in OneByOne,
           NEW s \in r.flight, NEW result \in Outcomes,
           NEW n \in Job, IsAnswer(n, r, s, result),
           n.pc = AfterAnswer(r.pc, s, result, n.trace)
    PROVE  n \in GoodJobs
<1>1. r \in Job /\ Bookkeeping(r) /\ InPlace(r) /\ IsDue(r) /\ CreditStops(r) /\ PlanFirst(r)
  BY DEF GoodJobs, GoodJob
<1>2. r.queued = {} /\ s \in Steps /\ result \in {"ok", "error", "credit"}
  BY <1>1 DEF InPlace, OneByOne, Job, Outcomes, Results
<1>3. /\ Bookkeeping(n)
      /\ \A t \in Steps \ {s} : n.trace[t] = r.trace[t]
      /\ r.trace[s] = "none" /\ n.trace[s] = result
      /\ \A x \in Results \ {result} : Having(n.trace, x) = Having(r.trace, x) \ {s}
  BY <1>1, AnswerIsBooked
<1>4. n.flight = {} /\ n.queued = {}
  BY <1>1, <1>2 DEF InPlace, OneByOne, IsAnswer
<1>5. result # "credit" => Having(n.trace, "credit") = {}
  BY <1>1, <1>2, <1>3 DEF CreditStops, Results
<1>6. CASE r.pc = "single"
  <2>1. Shape = "single" /\ s = Team[1]
    BY <1>1, <1>6 DEF InPlace
  <2>2. n.pc = IF result = "credit" THEN "paused" ELSE "finished"
    BY <1>6 DEF AfterAnswer
  <2>3. result # "credit" => Answers(n, Owed)
    BY <1>2, <1>3, <2>1 DEF Answers, Owed
  <2> QED
    BY <1>2, <1>3, <1>4, <2>1, <2>2, <2>3
    DEF GoodJobs, GoodJob, InPlace, IsDue, CreditStops, PlanFirst, OneByOne
<1>7. CASE r.pc = "plan"
  <2>1. Shape = "pipeline" /\ council.coordinated /\ s = Plan
    BY <1>1, <1>7 DEF InPlace
  <2>2. Having(r.trace, "ok") \subseteq {Plan}
    BY <1>3, <2>1, <1>1 DEF PlanFirst
  <2>3. CASE result = "ok"
    <3>1. n.pc = AfterWorkers(n.trace)
      BY <1>7, <2>3 DEF AfterAnswer
    <3>2. n.trace[Final] \in {"none", "ok"}
      BY <1>1, <1>3, <1>7, <2>1, StepNames DEF IsDue
    <3> QED
      BY <1>3, <1>4, <1>5, <2>1, <2>3, <3>1, <3>2, AfterWorkersIsGood
  <2>4. CASE result # "ok"
    <3>1. n.pc = IF result = "credit" THEN "paused" ELSE "finished"
      BY <1>2, <1>7, <2>4 DEF AfterAnswer
    <3>2. Having(n.trace, "ok") \subseteq {Plan}
      BY <1>3, <2>2, <2>4 DEF Results
    <3>3. result = "error" => n.trace[Plan] = "error"
      BY <1>3, <2>1
    <3> QED
      BY <1>2, <1>3, <1>4, <2>1, <2>4, <3>1, <3>2, <3>3
      DEF GoodJobs, GoodJob, InPlace, IsDue, CreditStops, PlanFirst, OneByOne
  <2> QED
    BY <2>3, <2>4
<1>8. CASE r.pc = "work"
  <2>1. Shape = "pipeline" /\ s \in Workers
    <3>1. s \in {FirstOf(Having(r.trace, "none") \cap Workers)}
      BY <1>1, <1>8 DEF InPlace
    <3> QED
      BY <1>1, <1>8, <3>1, FirstIsOneOfThem DEF InPlace, IsDue
  <2>2. council.coordinated => n.trace[Plan] = "ok"
    BY <1>1, <1>3, <1>8, <2>1, StepNames DEF PlanFirst
  <2>3. CASE result = "credit" \/ (result = "error" /\ IsArchitect(s))
    <3>1. n.pc = IF result = "credit" THEN "paused" ELSE "finished"
      BY <1>8, <2>3 DEF AfterAnswer
    <3>2. result = "error" => council.build /\ n.trace[Team[1]] = "error"
      BY <1>3, <2>3 DEF IsArchitect
    <3> QED
      BY <1>2, <1>3, <1>4, <2>1, <2>2, <2>3, <3>1, <3>2
      DEF GoodJobs, GoodJob, InPlace, IsDue, CreditStops, PlanFirst, OneByOne
  <2>4. CASE ~(result = "credit" \/ (result = "error" /\ IsArchitect(s)))
    <3>1. n.pc = AfterWorkers(n.trace)
      BY <1>8, <2>4 DEF AfterAnswer
    <3>2. n.trace[Final] \in {"none", "ok"}
      BY <1>1, <1>3, <1>8, <2>1, StepNames DEF IsDue
    <3> QED
      BY <1>3, <1>4, <1>5, <2>1, <2>2, <2>4, <3>1, <3>2, AfterWorkersIsGood
  <2> QED
    BY <2>3, <2>4
<1>9. CASE r.pc = "final"
  <2>1. Shape # "single" /\ s = Final /\ (Shape = "pipeline" => council.coordinated)
    BY <1>1, <1>9 DEF InPlace
  <2>2. n.pc = IF result = "credit" THEN "paused" ELSE "finished"
    BY <1>9 DEF AfterAnswer
  <2>3. Shape = "pipeline" => n.trace[Plan] = "ok"
    BY <1>1, <1>3, <1>9, <2>1, StepNames DEF PlanFirst
  <2>4. result # "credit" => Answers(n, Owed)
    <3>1. Answers(n, Workers)
      BY <1>1, <1>3, <1>9, <2>1, StepNames DEF CreditStops, Answers
    <3> QED
      BY <1>2, <1>3, <2>1, <2>3, <3>1, StepNames DEF Answers, Owed
  <2> QED
    BY <1>2, <1>3, <1>4, <2>1, <2>2, <2>3, <2>4
    DEF GoodJobs, GoodJob, InPlace, IsDue, CreditStops, PlanFirst, OneByOne
<1>10. r.pc \in {"single", "plan", "work", "final"}
  BY DEF OneByOne
<1> QED
  BY <1>6, <1>7, <1>8, <1>9, <1>10

\* A free thread takes a role, or stops taking roles.
LEMMA PoolCallIsGood ==
    ASSUME NEW r \in GoodJobs, r.pc = "pool", r.queued # {},
           Cardinality(r.flight) < PoolSize
    PROVE  LET w == FirstOf(r.queued)
           IN  /\ [r EXCEPT !.pc = "drain", !.queued = {}] \in GoodJobs
               /\ [r EXCEPT !.queued = @ \ {w}, !.flight = @ \cup {w}] \in GoodJobs
<1> DEFINE w == FirstOf(r.queued)
           d == [r EXCEPT !.pc = "drain", !.queued = {}]
           n == [r EXCEPT !.queued = r.queued \ {w}, !.flight = r.flight \cup {w}]
<1>1. r \in Job /\ Bookkeeping(r) /\ InPlace(r) /\ IsDue(r) /\ CreditStops(r) /\ PlanFirst(r)
  BY DEF GoodJobs, GoodJob
<1>2. r.queued \subseteq Workers /\ Shape = "parallel" /\ r.flight \subseteq Workers
  BY <1>1 DEF Job, InPlace
<1>3. w \in r.queued /\ w \in Workers /\ w \in Steps
  BY <1>2, FirstIsOneOfThem, StepNames
<1> HIDE DEF w
<1>4. /\ d \in Job /\ d.pc = "drain" /\ d.trace = r.trace /\ d.queued = {}
      /\ d.heard = r.heard /\ d.flight = r.flight
  BY <1>1 DEF Job
<1>5. /\ n \in Job /\ n.pc = "pool" /\ n.trace = r.trace /\ n.queued = r.queued \ {w}
      /\ n.heard = r.heard /\ n.flight = r.flight \cup {w}
  BY <1>1, <1>3 DEF Job
<1>6. IsFiniteSet(n.flight) /\ Cardinality(n.flight) <= PoolSize
  <2>1. IsFiniteSet(r.flight) /\ w \notin r.flight
    BY <1>1, <1>3 DEF Bookkeeping
  <2>2. Cardinality(r.flight) \in Nat
    BY <2>1, FS_CardinalityType
  <2>3. IsFiniteSet(n.flight) /\ Cardinality(n.flight) = Cardinality(r.flight) + 1
    BY <1>5, <2>1, FS_AddElement
  <2> QED
    BY <2>2, <2>3, PoolIsNotEmpty
<1> HIDE DEF d, n
<1>7. d \in GoodJobs
  BY <1>1, <1>2, <1>4
  DEF GoodJobs, GoodJob, Bookkeeping, InPlace, IsDue, CreditStops, PlanFirst, OneByOne
<1>8. n \in GoodJobs
  BY <1>1, <1>2, <1>3, <1>5, <1>6
  DEF GoodJobs, GoodJob, Bookkeeping, InPlace, IsDue, CreditStops, PlanFirst, OneByOne
<1> QED
  BY <1>7, <1>8 DEF d, n, w

\* An answer in the pool leaves the pool where it is.
LEMMA PoolAnswerIsGood ==
    ASSUME NEW r \in GoodJobs, r.pc \in {"pool", "drain"},
           NEW s \in r.flight, NEW result \in Outcomes,
           NEW n \in Job, IsAnswer(n, r, s, result), n.pc = r.pc
    PROVE  n \in GoodJobs
<1>1. r \in Job /\ Bookkeeping(r) /\ InPlace(r) /\ IsDue(r) /\ CreditStops(r) /\ PlanFirst(r)
  BY DEF GoodJobs, GoodJob
<1>2. /\ Bookkeeping(n)
      /\ \A t \in Steps \ {s} : n.trace[t] = r.trace[t]
      /\ r.trace[s] = "none" /\ n.trace[s] = result
      /\ \A x \in Results \ {result} : Having(n.trace, x) = Having(r.trace, x) \ {s}
  BY <1>1, AnswerIsBooked
<1>3. Shape = "parallel" /\ s \in Workers /\ s # Final /\ result # "none"
  BY <1>1, StepNames DEF InPlace, Outcomes
<1>4. n.flight = r.flight \ {s} /\ n.queued = r.queued
  BY DEF IsAnswer
<1>5. InPlace(n) /\ PlanFirst(n)
  BY <1>1, <1>3, <1>4 DEF InPlace, PlanFirst
<1>6. IsDue(n)
  BY <1>1, <1>2, <1>3, StepNames DEF IsDue
<1>7. CreditStops(n)
  <2>1. Having(r.trace, "credit") # {} => Having(n.trace, "credit") # {}
    BY <1>2, <1>3 DEF Having
  <2>2. \A w \in Workers : n.trace[w] = "none" => r.trace[w] = "none" /\ w # s
    BY <1>2, <1>3, StepNames
  <2> QED
    BY <1>1, <1>4, <2>1, <2>2 DEF CreditStops, OneByOne
<1> QED
  BY <1>2, <1>5, <1>6, <1>7 DEF GoodJobs, GoodJob

\* A stopped pool only empties.
LEMMA PoolStopIsGood ==
    ASSUME NEW r \in GoodJobs, r.pc \in {"pool", "drain"}, NEW w \in r.flight
    PROVE  [r EXCEPT !.pc = "drain", !.queued = {}, !.flight = @ \ {w}] \in GoodJobs
<1> DEFINE n == [r EXCEPT !.pc = "drain", !.queued = {}, !.flight = r.flight \ {w}]
<1>1. r \in Job /\ Bookkeeping(r) /\ InPlace(r) /\ IsDue(r) /\ CreditStops(r) /\ PlanFirst(r)
  BY DEF GoodJobs, GoodJob
<1>2. Shape = "parallel" /\ r.flight \subseteq Workers
  BY <1>1 DEF InPlace
<1>3. /\ n \in Job /\ n.pc = "drain" /\ n.trace = r.trace /\ n.queued = {}
      /\ n.heard = r.heard /\ n.flight = r.flight \ {w}
  BY <1>1 DEF Job
<1>4. IsFiniteSet(n.flight) /\ Cardinality(n.flight) <= PoolSize
  <2>1. IsFiniteSet(r.flight) /\ Cardinality(r.flight) <= PoolSize
    BY <1>1 DEF Bookkeeping
  <2>2. IsFiniteSet(n.flight) /\ Cardinality(n.flight) <= Cardinality(r.flight)
    BY <1>3, <2>1, FS_Subset
  <2>3. Cardinality(n.flight) \in Nat /\ Cardinality(r.flight) \in Nat
    BY <2>1, <2>2, FS_CardinalityType
  <2> QED
    BY <2>1, <2>2, <2>3, PoolIsNotEmpty
<1> HIDE DEF n
<1>5. n \in GoodJobs
  BY <1>1, <1>2, <1>3, <1>4
  DEF GoodJobs, GoodJob, Bookkeeping, InPlace, IsDue, CreditStops, PlanFirst, OneByOne
<1> QED
  BY <1>5 DEF n

\* After a credit failure, the roles that wait may be cancelled.
LEMMA CancelIsGood ==
    ASSUME NEW r \in GoodJobs, r.pc = "pool", Having(r.trace, "credit") # {}
    PROVE  [r EXCEPT !.queued = {}] \in GoodJobs
<1> DEFINE n == [r EXCEPT !.queued = {}]
<1>1. r \in Job /\ Bookkeeping(r) /\ InPlace(r) /\ IsDue(r) /\ CreditStops(r) /\ PlanFirst(r)
  BY DEF GoodJobs, GoodJob
<1>2. /\ n \in Job /\ n.pc = "pool" /\ n.trace = r.trace /\ n.queued = {}
      /\ n.heard = r.heard /\ n.flight = r.flight
  BY <1>1 DEF Job
<1> HIDE DEF n
<1>3. n \in GoodJobs
  BY <1>1, <1>2
  DEF GoodJobs, GoodJob, Bookkeeping, InPlace, IsDue, CreditStops, PlanFirst, OneByOne
<1> QED
  BY <1>3 DEF n

\* An empty pool pauses the job, ends it or leads to the synthesis.
LEMMA PoolDoneIsGood ==
    ASSUME NEW r \in GoodJobs, r.pc = "pool", r.queued = {}, r.flight = {}
    PROVE  [r EXCEPT !.pc = IF Having(r.trace, "credit") # {} THEN "paused"
                            ELSE IF r.trace[Final] = "ok" THEN "finished" ELSE "final"]
               \in GoodJobs
<1> DEFINE pc == IF Having(r.trace, "credit") # {} THEN "paused"
                 ELSE IF r.trace[Final] = "ok" THEN "finished" ELSE "final"
           n == [r EXCEPT !.pc = pc]
<1>1. r \in Job /\ Bookkeeping(r) /\ InPlace(r) /\ IsDue(r) /\ CreditStops(r) /\ PlanFirst(r)
  BY DEF GoodJobs, GoodJob
<1>2. pc \in {"paused", "finished", "final"} /\ Shape = "parallel"
  BY <1>1 DEF InPlace
<1>3. /\ n \in Job /\ n.pc = pc /\ n.trace = r.trace /\ n.queued = {}
      /\ n.heard = r.heard /\ n.flight = {}
  BY <1>1, <1>2 DEF Job
<1>4. Having(r.trace, "credit") = {} => Answers(r, Workers)
  BY <1>1, StepNames DEF CreditStops, Answers, Having, Job, Results
<1>5. pc = "finished" => Answers(r, Owed)
  BY <1>2, <1>4 DEF Answers, Owed
<1>6. pc = "final" => Having(r.trace, "credit") = {} /\ r.trace[Final] = "none"
  BY <1>1 DEF IsDue
<1>7. pc # "paused" => Answers(r, Workers)
  BY <1>4
<1> HIDE DEF n, pc
<1>8. Bookkeeping(n) /\ InPlace(n) /\ PlanFirst(n)
  BY <1>1, <1>2, <1>3 DEF Bookkeeping, InPlace, PlanFirst
<1>9. IsDue(n) /\ CreditStops(n)
  BY <1>1, <1>2, <1>3, <1>5, <1>6, <1>7 DEF IsDue, CreditStops, Answers, OneByOne
<1> QED
  BY <1>3, <1>8, <1>9 DEF GoodJobs, GoodJob, n, pc

\* Being told to stop changes nothing yet.
LEMMA StopIsGood ==
    ASSUME NEW r \in GoodJobs
    PROVE  [r EXCEPT !.stopped = TRUE] \in GoodJobs
<1> DEFINE n == [r EXCEPT !.stopped = TRUE]
<1>1. r \in Job /\ Bookkeeping(r) /\ InPlace(r) /\ IsDue(r) /\ CreditStops(r) /\ PlanFirst(r)
  BY DEF GoodJobs, GoodJob
<1>2. /\ n \in Job /\ n.pc = r.pc /\ n.trace = r.trace /\ n.queued = r.queued
      /\ n.heard = r.heard /\ n.flight = r.flight
  BY <1>1 DEF Job
<1> HIDE DEF n
<1>3. n \in GoodJobs
  BY <1>1, <1>2
  DEF GoodJobs, GoodJob, Bookkeeping, InPlace, IsDue, CreditStops, Answers, PlanFirst, OneByOne
<1> QED
  BY <1>3 DEF n

\* What a paused job stores can be resumed from.
LEMMA StoredIsGood ==
    ASSUME NEW r \in GoodJobs, r.pc = "paused"
    PROVE  [seed |-> Seed(r.trace), heard |-> r.heard] \in GoodRuns
<1> DEFINE run == [seed |-> Seed(r.trace), heard |-> r.heard]
<1>1. r \in Job /\ Bookkeeping(r) /\ CreditStops(r) /\ PlanFirst(r)
  BY DEF GoodJobs, GoodJob
<1>2. run \in Run /\ run.seed = Seed(r.trace) /\ run.heard = Seed(r.trace)
  BY <1>1 DEF Run, Seed, Having, Bookkeeping, Job
<1> HIDE DEF run
<1>3. Shape = "single" => Team[1] \notin run.seed
  BY <1>1, <1>2 DEF CreditStops, Seed, Having
<1>4. Shape = "pipeline" /\ council.coordinated /\ Plan \notin run.seed => run.seed = {}
  <2> SUFFICES ASSUME Shape = "pipeline", council.coordinated, Plan \notin run.seed
               PROVE  run.seed = {}
    OBVIOUS
  <2>1. r.trace[Plan] # "ok"
    BY <1>2, StepNames DEF Seed, Having
  <2> QED
    BY <1>1, <1>2, <2>1 DEF PlanFirst, Seed
<1> QED
  BY <1>2, <1>3, <1>4 DEF GoodRuns, GoodRun, run

-----------------------------------------------------------------------------
(* The invariant                                                           *)

\* The invariant holds at first.
LEMMA InitIsGood == Init => IInv
BY NoJobIsGood DEF Init, IInv

\* Every action keeps the request, and leaves good jobs and good pauses.
LEMMA StepIsGood ==
    ASSUME IInv, Next
    PROVE  council' = council /\ paused' \subseteq GoodRuns /\ job' \in [Jobs -> GoodJobs]
<1>1. council \in Request /\ paused \subseteq GoodRuns /\ job \in [Jobs -> GoodJobs]
  BY DEF IInv
<1>2. PICK j \in Jobs :
        \/ Start(j) \/ Resume(j)
        \/ Call(j) \/ StopBeforeRetry(j)
        \/ \E s \in Steps, result \in Outcomes : Answer(j, s, result)
        \/ PoolCall(j) \/ CancelOthers(j) \/ PoolDone(j) \/ Drained(j)
        \/ \E w \in Workers, result \in Outcomes : PoolAnswer(j, w, result)
        \/ \E w \in Workers : PoolStopBeforeRetry(j, w)
        \/ Store(j) \/ StoreFails(j) \/ Stop(j) \/ Die(j)
  BY DEF Next
<1>3. job[j] \in GoodJobs /\ job[j] \in Job
  BY <1>1 DEF GoodJobs
<1>4. CASE Start(j)
  <2>1. [seed |-> {}, heard |-> {}] \in GoodRuns
    BY DEF GoodRuns, GoodRun, Run
  <2>2. council' = council /\ paused' = paused /\ Begins(j, {}, {})
    BY <1>4 DEF Start
  <2>3. PICK run \in GoodRuns : run.seed = {} /\ run.heard = {}
    BY <2>1
  <2>4. job' \in [Jobs -> GoodJobs]
    BY <1>1, <2>2, <2>3, BeginningIsGood
  <2> QED
    BY <1>1, <2>2, <2>4
<1>5. CASE Resume(j)
  <2>1. PICK run \in paused : Begins(j, run.seed, run.heard)
    BY <1>5 DEF Resume
  <2> QED
    BY <1>1, <1>5, <2>1, BeginningIsGood DEF Resume
<1>6. CASE Call(j)
  <2>1. [job[j] EXCEPT !.flight = {Due(j)}] \in GoodJobs
    BY <1>3, <1>6, CallIsGood DEF Call
  <2> QED
    BY <1>1, <1>6, <2>1, NoJobIsGood, OneJobBecomes DEF Call
<1>7. CASE StopBeforeRetry(j)
  BY <1>1, <1>7, NoJobIsGood, OneJobBecomes DEF StopBeforeRetry
<1>8. CASE \E s \in Steps, result \in Outcomes : Answer(j, s, result)
  <2>1. PICK s \in Steps, result \in Outcomes : Answer(j, s, result)
    BY <1>8
  <2> DEFINE next == Answered(j, s, result)
             n == [next EXCEPT !.pc = AfterAnswer(@, s, result, next.trace)]
  <2>2. job[j].pc \in OneByOne /\ s \in job[j].flight /\ Becomes(j, n)
    BY <2>1 DEF Answer, At
  <2>3. /\ AfterAnswer(job[j].pc, s, result, next.trace) \in {"paused", "finished", "work", "final"}
        /\ result \in Results
    BY DEF AfterAnswer, AfterWorkers, Outcomes
  <2>4. n \in Job /\ IsAnswer(n, job[j], s, result)
    BY <1>3, <2>3 DEF Answered, Job, IsAnswer
  <2>5. n.pc = AfterAnswer(job[j].pc, s, result, n.trace)
    BY <1>3, <2>3 DEF Answered, Job
  <2> HIDE DEF n, next
  <2>6. n \in GoodJobs
    BY <1>1, <1>3, <2>2, <2>4, <2>5, AnswerIsGood
  <2> QED
    BY <1>1, <2>1, <2>2, <2>6, OneJobBecomes DEF Answer
<1>9. CASE PoolCall(j)
  <2>1. job[j].pc = "pool" /\ job[j].queued # {} /\ Cardinality(job[j].flight) < PoolSize
    BY <1>9 DEF PoolCall, At
  <2>2. LET w == FirstOf(job[j].queued)
        IN  /\ [job[j] EXCEPT !.pc = "drain", !.queued = {}] \in GoodJobs
            /\ [job[j] EXCEPT !.queued = @ \ {w}, !.flight = @ \cup {w}] \in GoodJobs
    BY <1>3, <2>1, PoolCallIsGood
  <2> QED
    BY <1>1, <1>9, <2>2, OneJobBecomes DEF PoolCall
<1>10. CASE CancelOthers(j)
  <2>1. [job[j] EXCEPT !.queued = {}] \in GoodJobs
    BY <1>3, <1>10, CancelIsGood DEF CancelOthers, At
  <2> QED
    BY <1>1, <1>10, <2>1, OneJobBecomes DEF CancelOthers
<1>11. CASE PoolDone(j)
  <2> DEFINE n == [job[j] EXCEPT
                     !.pc = IF Having(job[j].trace, "credit") # {} THEN "paused"
                            ELSE IF job[j].trace[Final] = "ok" THEN "finished" ELSE "final"]
  <2>1. n \in GoodJobs
    BY <1>3, <1>11, PoolDoneIsGood DEF PoolDone, At
  <2>2. Becomes(j, n)
    BY <1>11 DEF PoolDone
  <2> HIDE DEF n
  <2> QED
    BY <1>1, <1>11, <2>1, <2>2, OneJobBecomes DEF PoolDone
<1>12. CASE Drained(j)
  BY <1>1, <1>12, NoJobIsGood, OneJobBecomes DEF Drained
<1>13. CASE \E w \in Workers, result \in Outcomes : PoolAnswer(j, w, result)
  <2>1. PICK w \in Workers, result \in Outcomes : PoolAnswer(j, w, result)
    BY <1>13
  <2> DEFINE n == Answered(j, w, result)
  <2>2. job[j].pc \in {"pool", "drain"} /\ w \in job[j].flight /\ Becomes(j, n)
    BY <2>1 DEF PoolAnswer, At
  <2>3. n \in Job /\ n.pc = job[j].pc /\ IsAnswer(n, job[j], w, result)
    <3>1. result \in Results /\ w \in Steps
      BY StepNames DEF Outcomes
    <3> QED
      BY <1>3, <3>1 DEF Answered, Job, IsAnswer
  <2> HIDE DEF n
  <2>4. n \in GoodJobs
    BY <1>3, <2>2, <2>3, PoolAnswerIsGood
  <2> QED
    BY <1>1, <2>1, <2>2, <2>4, OneJobBecomes DEF PoolAnswer
<1>14. CASE \E w \in Workers : PoolStopBeforeRetry(j, w)
  <2>1. PICK w \in Workers : PoolStopBeforeRetry(j, w)
    BY <1>14
  <2>2. [job[j] EXCEPT !.pc = "drain", !.queued = {}, !.flight = @ \ {w}] \in GoodJobs
    BY <1>3, <2>1, PoolStopIsGood DEF PoolStopBeforeRetry, At
  <2> QED
    BY <1>1, <2>1, <2>2, OneJobBecomes DEF PoolStopBeforeRetry
<1>15. CASE Store(j)
  <2>1. job' \in [Jobs -> GoodJobs]
    BY <1>1, <1>15, NoJobIsGood, OneJobBecomes DEF Store
  <2>2. paused' \subseteq GoodRuns
    BY <1>1, <1>3, <1>15, StoredIsGood DEF Store, At
  <2> QED
    BY <1>15, <2>1, <2>2 DEF Store
<1>16. CASE StoreFails(j)
  BY <1>1, <1>16, NoJobIsGood, OneJobBecomes DEF StoreFails
<1>17. CASE Stop(j)
  <2>1. [job[j] EXCEPT !.stopped = TRUE] \in GoodJobs
    BY <1>3, StopIsGood
  <2> QED
    BY <1>1, <1>17, <2>1, OneJobBecomes DEF Stop
<1>18. CASE Die(j)
  BY <1>1, <1>18, NoJobIsGood, OneJobBecomes DEF Die
<1> QED
  BY <1>2, <1>4, <1>5, <1>6, <1>7, <1>8, <1>9, <1>10, <1>11, <1>12, <1>13, <1>14, <1>15,
     <1>16, <1>17, <1>18

\* The invariant is inductive.
LEMMA NextIsGood == IInv /\ [Next]_vars => IInv'
<1> SUFFICES ASSUME IInv, [Next]_vars
             PROVE  IInv'
  OBVIOUS
<1>1. council' = council /\ paused' \subseteq GoodRuns /\ job' \in [Jobs -> GoodJobs]
  BY StepIsGood DEF IInv, vars
<1>2. GoodJobs' = GoodJobs /\ GoodRuns' = GoodRuns
  BY <1>1, GoodStaysGood
<1> QED
  BY <1>1, <1>2 DEF IInv

\* The invariant always holds.
LEMMA AlwaysGood == Spec => []IInv
BY InitIsGood, NextIsGood, PTL DEF Spec

-----------------------------------------------------------------------------
(* The theorems                                                            *)

\* Requests, stored pauses and jobs keep their types, and no job has more calls
\* in flight than its pool has threads.
THEOREM TypesHold == Spec => []TypeOK
<1>1. IInv => TypeOK
  BY DEF IInv, TypeOK, GoodJobs, GoodRuns, GoodJob, Bookkeeping
<1> QED
  BY <1>1, AlwaysGood, PTL

\* However often a run is paused and resumed, no step that succeeded along the
\* way is called again, in any shape of job.
THEOREM SuccessIsNotRecalled == Spec => []NotRecalled
<1>1. ASSUME IInv, NEW j \in Jobs
      PROVE  job[j].flight \cap job[j].heard = {}
  <2>1. job[j] \in Job /\ Bookkeeping(job[j])
    BY <1>1 DEF IInv, GoodJobs, GoodJob
  <2> QED
    BY <2>1 DEF Bookkeeping, Seed, Having
<1>2. IInv => NotRecalled
  BY <1>1 DEF NotRecalled
<1> QED
  BY <1>2, AlwaysGood, PTL

\* The final answer is asked for, and a job ends for good, only when no step it
\* owes is missing for lack of credit.
THEOREM CreditIsNotWalkedAround == Spec => []NeverWalksAround
<1>1. ASSUME IInv, NEW j \in Jobs
      PROVE  /\ Final \in job[j].flight => Settled(j, Workers)
             /\ At(j, {"finished"}) =>
                   \/ Settled(j, Owed)
                   \/ Shape = "pipeline" /\ job[j].trace[Plan] = "error"
                   \/ Shape = "pipeline" /\ council.build /\ job[j].trace[Team[1]] = "error"
  <2> DEFINE r == job[j]
  <2>1. r \in Job /\ Bookkeeping(r) /\ InPlace(r) /\ CreditStops(r)
    BY <1>1 DEF IInv, GoodJobs, GoodJob
  <2>2. ASSUME NEW S, S \subseteq Steps, Answers(r, S)
        PROVE  Settled(j, S)
    BY <2>1, <2>2 DEF Answers, Settled, Bookkeeping, Seed, Having
  <2>3. Workers \subseteq Steps /\ Owed \subseteq Steps
    BY StepNames DEF Owed
  <2>4. Final \in r.flight => r.pc = "final"
    <3>1. Final # Team[1] /\ Final # Plan /\ Final \notin Workers
      BY StepNames
    <3>2. r.pc = "work" => r.flight \subseteq Workers
      <4>1. r.pc = "work" => Having(r.trace, "none") \cap Workers # {}
        BY <1>1 DEF IInv, GoodJobs, GoodJob, IsDue
      <4> QED
        BY <2>1, <4>1, FirstIsOneOfThem DEF InPlace
    <3> QED
      BY <2>1, <3>1, <3>2 DEF InPlace, Job
  <2> QED
    BY <2>1, <2>2, <2>3, <2>4 DEF CreditStops, At
<1>2. IInv => NeverWalksAround
  BY <1>1 DEF NeverWalksAround
<1> QED
  BY <1>2, AlwaysGood, PTL

\* In a coordinated pipeline nobody is called before there is a plan.
THEOREM PlanComesFirst == Spec => []NoWorkBeforePlan
<1>1. IInv => NoWorkBeforePlan
  BY DEF IInv, NoWorkBeforePlan, GoodJobs, GoodJob, PlanFirst
<1> QED
  BY <1>1, AlwaysGood, PTL

\* In a stopped job no call is begun.
THEOREM StoppedIsStopped == Spec => StopCallsNoOne
<1> DEFINE OnlyOf(j) == \A i \in Jobs \ {j} : job'[i] = job[i]
           Calms(i) == job[i].stopped => job'[i].flight \subseteq job[i].flight
<1>1. ASSUME IInv, Next
      PROVE  \A i \in Jobs : Calms(i)
  <2>1. job \in [Jobs -> Job]
    BY <1>1 DEF IInv, GoodJobs
  <2>2. PICK j \in Jobs :
          \/ Start(j) \/ Resume(j)
          \/ Call(j) \/ StopBeforeRetry(j)
          \/ \E s \in Steps, result \in Outcomes : Answer(j, s, result)
          \/ PoolCall(j) \/ CancelOthers(j) \/ PoolDone(j) \/ Drained(j)
          \/ \E w \in Workers, result \in Outcomes : PoolAnswer(j, w, result)
          \/ \E w \in Workers : PoolStopBeforeRetry(j, w)
          \/ Store(j) \/ StoreFails(j) \/ Stop(j) \/ Die(j)
    BY <1>1 DEF Next
  <2>3. ASSUME NEW n, Becomes(j, n)
        PROVE  OnlyOf(j) /\ job'[j] = n
    BY <2>1, <2>3 DEF Becomes
  <2> SUFFICES OnlyOf(j) /\ Calms(j)
    OBVIOUS
  <2>4. NoJob.flight = {}
    BY DEF NoJob
  <2>5. CASE StopBeforeRetry(j) \/ Drained(j) \/ Store(j) \/ StoreFails(j) \/ Die(j)
    <3>1. Becomes(j, NoJob)
      BY <2>5 DEF StopBeforeRetry, Drained, Store, StoreFails, Die
    <3> QED
      BY <2>3, <2>4, <3>1
  <2>6. ASSUME NEW seed, NEW heard, Begins(j, seed, heard)
        PROVE  OnlyOf(j) /\ Calms(j)
    BY <2>1, <2>6 DEF Begins, Becomes, NoJob
  <2>7. CASE Start(j) \/ Resume(j)
    BY <2>6, <2>7 DEF Start, Resume
  <2>8. CASE Call(j)
    BY <2>1, <2>4, <2>8 DEF Call, Becomes
  <2>9. ASSUME NEW s, NEW result, Answer(j, s, result)
        PROVE  OnlyOf(j) /\ Calms(j)
    BY <2>1, <2>9 DEF Answer, Answered, Becomes, Job
  <2>10. CASE PoolCall(j)
    BY <2>1, <2>10 DEF PoolCall, Becomes, Job
  <2>11. ASSUME NEW w, NEW result, PoolAnswer(j, w, result)
         PROVE  OnlyOf(j) /\ Calms(j)
    BY <2>1, <2>11 DEF PoolAnswer, Answered, Becomes, Job
  <2>12. ASSUME NEW w, PoolStopBeforeRetry(j, w)
         PROVE  OnlyOf(j) /\ Calms(j)
    BY <2>1, <2>12 DEF PoolStopBeforeRetry, Becomes, Job
  <2>13. CASE CancelOthers(j) \/ PoolDone(j) \/ Stop(j)
    BY <2>1, <2>13 DEF CancelOthers, PoolDone, Stop, Becomes, Job
  <2> QED
    BY <2>2, <2>5, <2>7, <2>8, <2>9, <2>10, <2>11, <2>12, <2>13
<1>2. IInv /\ [Next]_vars =>
          [\A j \in Jobs : job[j].stopped => job'[j].flight \subseteq job[j].flight]_vars
  BY <1>1
<1> QED
  BY <1>2, AlwaysGood, PTL DEF Spec, StopCallsNoOne
=============================================================================
