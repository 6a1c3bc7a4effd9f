------------------------------- MODULE Council -------------------------------
(***************************************************************************)
(* Orchestr8's council engine: _execute_job, run_job and resume_job of      *)
(* services/orchestrator.py, the pause of services/credit_pause.py and the  *)
(* cancel flag of services/job_monitor.py.                                  *)
(*                                                                         *)
(* A job asks the roles of a team, one model call each: a lone role, or a   *)
(* pipeline (coordinator's plan, workers in order, coordinator's final), or *)
(* all workers from a thread pool and then a synthesis.  A call succeeds,   *)
(* fails ordinarily, or is rejected for lack of credit; the last pauses the *)
(* job, whose successful steps a later job resumes from.                    *)
(***************************************************************************)
EXTENDS Naturals, Sequences, FiniteSets

CONSTANTS
    Jobs,        \* job threads of the gateway
    Team,        \* the workers, in execution order
    Plan,        \* the coordinator's plan, as a step of the trace
    Final,       \* the coordinator's final answer, or the synthesis
    PoolSize     \* threads of the parallel mode: 6 in the code

Workers == {Team[i] : i \in DOMAIN Team}

ASSUME TeamIsAList ==
    /\ Team \in Seq(Workers) /\ Team # << >>
    /\ \A i, k \in DOMAIN Team : Team[i] = Team[k] => i = k
ASSUME StepsDiffer == Plan # Final /\ Plan \notin Workers /\ Final \notin Workers
ASSUME PoolIsNotEmpty == PoolSize \in Nat \ {0}

VARIABLES
    council,     \* the request: mode, a coordinator?, a build spec with an architect?
    paused,      \* what the stored bundles of paused runs are resumed from
    job          \* the jobs in progress

vars == <<council, paused, job>>

Steps == Workers \cup {Plan, Final}
Results == {"none", "ok", "error", "credit"}
Modes == {"single", "parallel", "pipeline"}

\* `heard` is history: the steps that succeeded in the job or in a run it resumes.
Job == [pc: {"idle", "single", "plan", "work", "pool", "final", "paused", "finished", "drain"},
        trace: [Steps -> Results], queued: SUBSET Workers, flight: SUBSET Steps,
        stopped: BOOLEAN, heard: SUBSET Steps]

NoJob == [pc |-> "idle", trace |-> [s \in Steps |-> "none"], queued |-> {}, flight |-> {},
          stopped |-> FALSE, heard |-> {}]

Request == [mode: Modes, coordinated: BOOLEAN, build: BOOLEAN]
Run == [seed: SUBSET Steps, heard: SUBSET Steps]

TypeOK ==
    /\ council \in Request
    /\ paused \subseteq Run
    /\ job \in [Jobs -> Job]
    /\ \A j \in Jobs : Cardinality(job[j].flight) <= PoolSize

Init ==
    /\ council \in Request
    /\ paused = {}
    /\ job = [j \in Jobs |-> NoJob]

-----------------------------------------------------------------------------
(* The team and the trace                                                  *)

\* Which branch of _execute_job the request takes.  Team[1] stands for the one
\* role that a single job asks, be it a worker or the coordinator.
Shape ==
    IF council.mode = "single" \/ (Len(Team) = 1 /\ ~council.coordinated) THEN "single"
    ELSE IF council.mode = "parallel" /\ Len(Team) > 1 THEN "parallel"
    ELSE "pipeline"

\* order_build_spec_roles puts the architect of a build spec first.
IsArchitect(s) == council.build /\ s = Team[1]

\* The first of a set of workers in execution order.
FirstOf(S) == Team[CHOOSE i \in DOMAIN Team : Team[i] \in S /\ \A k \in 1..(i - 1) : Team[k] \notin S]

Having(trace, result) == {s \in Steps : trace[s] = result}

\* Mutant: the steps of the coordinator are not recognised in the seed.
SeedOfWorkers(trace) == Having(trace, "ok") \cap Workers

\* seed_trace: successful steps only.
Seed(trace) == Having(trace, "ok")

\* The pipeline after the plan or a worker: the next worker, or the final answer.
AfterWorkers(trace) ==
    IF Having(trace, "none") \cap Workers # {} THEN "work"
    ELSE IF council.coordinated /\ trace[Final] # "ok" THEN "final"
    ELSE "finished"

-----------------------------------------------------------------------------
(* Starting and resuming                                                   *)

Becomes(j, next) == job' = [job EXCEPT ![j] = next]

At(j, pcs) == job[j].pc \in pcs

\* _execute_job up to its first call, with the steps it need not call.
Begins(j, seed, heard) ==
    LET trace == [s \in Steps |-> IF s \in seed THEN "ok" ELSE "none"]
    IN  Becomes(j, [NoJob EXCEPT
            !.pc = CASE Shape = "single" -> "single"
                     [] Shape = "parallel" -> "pool"
                     [] OTHER -> IF council.coordinated /\ Plan \notin seed
                                 THEN "plan" ELSE AfterWorkers(trace),
            !.trace = trace,
            !.queued = IF Shape = "parallel" THEN Workers \ seed ELSE {},
            !.heard = heard])

\* run_job.  The operator does not start over what can be resumed.
Start(j) ==
    /\ At(j, {"idle"}) /\ paused = {}
    /\ Begins(j, {}, {})
    /\ UNCHANGED <<council, paused>>

\* resume_job, from any stored bundle that is paused.
Resume(j) ==
    /\ At(j, {"idle"})
    /\ \E run \in paused : Begins(j, run.seed, run.heard)
    /\ UNCHANGED <<council, paused>>

-----------------------------------------------------------------------------
(* One call after the other: the lone role, the pipeline and the synthesis *)

\* The step the job has come to.
Due(j) ==
    CASE At(j, {"single"}) -> Team[1]
      [] At(j, {"plan"}) -> Plan
      [] At(j, {"final"}) -> Final
      [] OTHER -> FirstOf(Having(job[j].trace, "none") \cap Workers)

OneByOne == {"single", "plan", "work", "final"}

\* monitor.check, and then the call; a stopped job ends there and stores nothing.
Call(j) ==
    /\ At(j, OneByOne) /\ job[j].flight = {}
    /\ Becomes(j, IF job[j].stopped THEN NoJob ELSE [job[j] EXCEPT !.flight = {Due(j)}])
    /\ UNCHANGED <<council, paused>>

\* Mutant: whatever goes wrong is taken for a lack of credit.
AfterAnswerPausing(pc, s, result, trace) ==
    IF result # "ok" THEN "paused"
    ELSE IF pc \in {"single", "final"} THEN "finished"
    ELSE AfterWorkers(trace)

\* Mutant: a plan that failed ordinarily does not stop the pipeline.
AfterAnswerWalkingOn(pc, s, result, trace) ==
    IF result = "credit" THEN "paused"
    ELSE IF pc \in {"single", "final"} \/ (result = "error" /\ IsArchitect(s))
    THEN "finished"
    ELSE AfterWorkers(trace)

\* Where the job goes with an answer: credit pauses it, a plan or an architect
\* that failed ends it, and other failures are walked around.
AfterAnswer(pc, s, result, trace) ==
    IF result = "credit" THEN "paused"
    ELSE IF \/ pc \in {"single", "final"}
            \/ result = "error" /\ (pc = "plan" \/ IsArchitect(s))
    THEN "finished"
    ELSE AfterWorkers(trace)

\* _run_agent returns the step of call s.
Answered(j, s, result) ==
    [job[j] EXCEPT !.trace[s] = result, !.flight = @ \ {s},
                   !.heard = IF result = "ok" THEN @ \cup {s} ELSE @]

Answer(j, s, result) ==
    LET next == Answered(j, s, result)
    IN  /\ At(j, OneByOne) /\ s \in job[j].flight
        /\ Becomes(j, [next EXCEPT !.pc = AfterAnswer(@, s, result, next.trace)])
        /\ UNCHANGED <<council, paused>>

\* An attempt failed in a way worth retrying, but the job was stopped meanwhile.
StopBeforeRetry(j) ==
    /\ At(j, OneByOne) /\ job[j].flight # {} /\ job[j].stopped
    /\ Becomes(j, NoJob)
    /\ UNCHANGED <<council, paused>>

-----------------------------------------------------------------------------
(* The thread pool of the parallel mode                                    *)

\* Mutant: the pool does not look at the cancel flag.
PoolCallUnchecked(j) ==
    /\ At(j, {"pool"}) /\ job[j].queued # {}
    /\ Cardinality(job[j].flight) < PoolSize
    /\ LET w == FirstOf(job[j].queued)
       IN  Becomes(j, [job[j] EXCEPT !.queued = @ \ {w}, !.flight = @ \cup {w}])
    /\ UNCHANGED <<council, paused>>

\* Mutant: one thread too many.
PoolCallOneMore(j) ==
    /\ At(j, {"pool"}) /\ job[j].queued # {}
    /\ Cardinality(job[j].flight) <= PoolSize
    /\ LET w == FirstOf(job[j].queued)
       IN  Becomes(j, [job[j] EXCEPT !.queued = @ \ {w}, !.flight = @ \cup {w}])
    /\ UNCHANGED <<council, paused>>

\* A free thread takes the next role.  In a stopped job it raises instead, as
\* do all that follow; what is in flight is waited for.
PoolCall(j) ==
    /\ At(j, {"pool"}) /\ job[j].queued # {}
    /\ Cardinality(job[j].flight) < PoolSize
    /\ LET w == FirstOf(job[j].queued)
       IN  Becomes(j, IF job[j].stopped
                      THEN [job[j] EXCEPT !.pc = "drain", !.queued = {}]
                      ELSE [job[j] EXCEPT !.queued = @ \ {w}, !.flight = @ \cup {w}])
    /\ UNCHANGED <<council, paused>>

PoolAnswer(j, w, result) ==
    /\ At(j, {"pool", "drain"}) /\ w \in job[j].flight
    /\ Becomes(j, Answered(j, w, result))
    /\ UNCHANGED <<council, paused>>

PoolStopBeforeRetry(j, w) ==
    /\ At(j, {"pool", "drain"}) /\ w \in job[j].flight /\ job[j].stopped
    /\ Becomes(j, [job[j] EXCEPT !.pc = "drain", !.queued = {}, !.flight = @ \ {w}])
    /\ UNCHANGED <<council, paused>>

\* The main thread comes to a credit failure and cancels what has not begun.
CancelOthers(j) ==
    /\ At(j, {"pool"}) /\ job[j].queued # {}
    /\ Having(job[j].trace, "credit") # {}
    /\ Becomes(j, [job[j] EXCEPT !.queued = {}])
    /\ UNCHANGED <<council, paused>>

\* Mutant: credit failures pause the job only when nothing else was answered.
PoolDoneForgettingCredit(j) ==
    /\ At(j, {"pool"}) /\ job[j].queued = {} /\ job[j].flight = {}
    /\ Becomes(j, [job[j] EXCEPT
           !.pc = IF Having(job[j].trace, "ok") = {} THEN "paused" ELSE "final"])
    /\ UNCHANGED <<council, paused>>

\* All futures are done: pause, or go on to the synthesis.
PoolDone(j) ==
    /\ At(j, {"pool"}) /\ job[j].queued = {} /\ job[j].flight = {}
    /\ Becomes(j, [job[j] EXCEPT
           !.pc = IF Having(job[j].trace, "credit") # {} THEN "paused"
                  ELSE IF job[j].trace[Final] = "ok" THEN "finished" ELSE "final"])
    /\ UNCHANGED <<council, paused>>

\* The exception of a stopped role leaves the pool once its calls are over.
Drained(j) ==
    /\ At(j, {"drain"}) /\ job[j].flight = {}
    /\ Becomes(j, NoJob)
    /\ UNCHANGED <<council, paused>>

-----------------------------------------------------------------------------
(* The end of a job                                                        *)

\* _persist_run stores the bundle and the result is handed over.  Of a bundle
\* that is not paused nothing can be resumed.
Store(j) ==
    /\ At(j, {"paused", "finished"})
    /\ paused' = IF At(j, {"paused"})
                 THEN paused \cup {[seed |-> Seed(job[j].trace), heard |-> job[j].heard]}
                 ELSE paused
    /\ Becomes(j, NoJob)
    /\ UNCHANGED council

\* A failed write is logged: the result is handed over, and nothing is stored.
StoreFails(j) ==
    /\ At(j, {"paused", "finished"})
    /\ Becomes(j, NoJob)
    /\ UNCHANGED <<council, paused>>

\* The console stopped or closed: the stream sets the cancel flag.
Stop(j) ==
    /\ ~At(j, {"idle"}) /\ ~job[j].stopped
    /\ Becomes(j, [job[j] EXCEPT !.stopped = TRUE])
    /\ UNCHANGED <<council, paused>>

\* The gateway goes away; its job threads are daemons.
Die(j) ==
    /\ ~At(j, {"idle"})
    /\ Becomes(j, NoJob)
    /\ UNCHANGED <<council, paused>>

Outcomes == Results \ {"none"}

Next ==
    \E j \in Jobs :
        \/ Start(j) \/ Resume(j)
        \/ Call(j) \/ StopBeforeRetry(j)
        \/ \E s \in Steps, result \in Outcomes : Answer(j, s, result)
        \/ PoolCall(j) \/ CancelOthers(j) \/ PoolDone(j) \/ Drained(j)
        \/ \E w \in Workers, result \in Outcomes : PoolAnswer(j, w, result)
        \/ \E w \in Workers : PoolStopBeforeRetry(j, w)
        \/ Store(j) \/ StoreFails(j) \/ Stop(j) \/ Die(j)

Spec == Init /\ [][Next]_vars

\* What keeps a job from its answer, whatever the code does.  Losing a job at
\* its end is no loss when nothing was left to store.
Hindered(j) ==
    \/ Stop(j)
    \/ (Die(j) \/ StoreFails(j)) /\ ~Store(j)
    \/ \E s \in Steps : Answer(j, s, "credit") \/ PoolAnswer(j, s, "credit")

\* Threads run, calls return, and the operator resumes what is paused; from
\* some point on there is credit and nobody stops or kills the job.
FairSpec ==
    /\ Spec
    /\ \A j \in Jobs :
          /\ WF_vars(Resume(j)) /\ WF_vars(Call(j)) /\ WF_vars(Store(j))
          /\ WF_vars(\E s \in Steps, result \in Outcomes : Answer(j, s, result))
          /\ WF_vars(PoolCall(j)) /\ WF_vars(PoolDone(j)) /\ WF_vars(Drained(j))
          /\ WF_vars(\E w \in Workers, result \in Outcomes : PoolAnswer(j, w, result))
    /\ <>[][\A j \in Jobs : ~Hindered(j)]_vars

-----------------------------------------------------------------------------
(* Properties                                                              *)

\* "Successful steps are not re-called": however often a run is paused and
\* resumed, no role that succeeded along the way is in flight again.
NotRecalled == \A j \in Jobs : job[j].flight \cap job[j].heard = {}

\* The steps a job of this shape asks for, if nothing ends it early.
Owed ==
    CASE Shape = "single" -> {Team[1]}
      [] Shape = "parallel" -> Workers \cup {Final}
      [] OTHER -> Workers \cup IF council.coordinated THEN {Plan, Final} ELSE {}

\* Each of the steps succeeded, in this job or before, or failed ordinarily.
Settled(j, S) == \A s \in S : s \in job[j].heard \/ job[j].trace[s] = "error"

\* "The pipeline never walks around a credit failure": a final answer is asked
\* for after every worker answered or failed ordinarily, and a job that ends
\* for good has settled all it owed, unless its plan or its architect failed.
NeverWalksAround ==
    \A j \in Jobs :
        /\ Final \in job[j].flight => Settled(j, Workers)
        /\ At(j, {"finished"}) =>
              \/ Settled(j, Owed)
              \/ Shape = "pipeline" /\ job[j].trace[Plan] = "error"
              \/ Shape = "pipeline" /\ council.build /\ job[j].trace[Team[1]] = "error"

\* A plan that failed must not cascade into the later roles: in a coordinated
\* pipeline nobody is called, now or in a run that resumes it, before a plan.
NoWorkBeforePlan ==
    \A j \in Jobs :
        Shape = "pipeline" /\ council.coordinated /\ job[j].trace[Plan] # "ok" =>
            job[j].flight \cup Having(job[j].trace, "ok") \subseteq {Plan}

\* Stop: no further role is called; what is in flight finishes.
StopCallsNoOne ==
    [][\A j \in Jobs : job[j].stopped => job'[j].flight \subseteq job[j].flight]_vars

\* Once there is credit again, resuming a paused run leads to an answer,
\* whichever step it was paused at.
PausedGetsAnswered == paused # {} ~> \E j \in Jobs : At(j, {"finished"})
=============================================================================
