------------------------------ MODULE Platform ------------------------------
(***************************************************************************)
(* The services every request or job of the API passes through, side by    *)
(* side: idempotency keys, rate limits, the runner's lock and integration  *)
(* jobs.  They share no variable but the weather, so a step of one leaves  *)
(* the others alone.  A behaviour exercises one of them.                   *)
(***************************************************************************)
EXTENDS Idempotency, RateLimit, JobRunner, IntegrationJobs

VARIABLE focus      \* the service this behaviour exercises

platformVars == <<calm, focus, idemVars, rateVars, runnerVars, jobsVars>>

PlatformInit ==
    /\ focus \in {"idempotency", "rateLimit", "runner", "jobs"}
    /\ IdemInit /\ RateInit /\ RunnerInit /\ JobsInit

IdempotencyRuns == focus = "idempotency" /\ IdemNext /\ UNCHANGED <<rateVars, runnerVars, jobsVars>>
RateLimitRuns == focus = "rateLimit" /\ RateNext /\ UNCHANGED <<idemVars, runnerVars, jobsVars>>
RunnerRuns == focus = "runner" /\ RunnerNext /\ UNCHANGED <<idemVars, rateVars, jobsVars>>
JobsRun == focus = "jobs" /\ JobsNext /\ UNCHANGED <<idemVars, rateVars, runnerVars>>

PlatformNext == (IdempotencyRuns \/ RateLimitRuns \/ RunnerRuns \/ JobsRun) /\ UNCHANGED <<calm, focus>>

PlatformSpec == PlatformInit /\ [][PlatformNext]_platformVars

-----------------------------------------------------------------------------
(* Every variable of the four services keeps to its type.                  *)
PlatformTypeOK == IdemTypeOK /\ RateTypeOK /\ RunnerTypeOK /\ JobsTypeOK
=============================================================================
