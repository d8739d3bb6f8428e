---------------------------- MODULE RateLimiter ----------------------------
(***************************************************************************)
(* The API Gateway's rate limiter (services/api_gateway/app/               *)
(* rate_limiter.py) for one bucket ratelimit:{user}:{endpoint}: a Redis    *)
(* sorted set of request stamps, shared by every worker of the gateway.    *)
(*                                                                         *)
(* A request reads the clock, and only then awaits the pipeline that       *)
(* trims, adds, counts, renews the expiry and reads the oldest entry in    *)
(* one MULTI/EXEC.  Requests in flight may therefore reach Redis in        *)
(* another order than the one their stamps have, and any time later.       *)
(* Time is counted in ticks, TicksPerSecond to the second.                 *)
(***************************************************************************)
EXTENDS Naturals, FiniteSets

CONSTANTS
    Requests,       \* the requests of this user to this endpoint
    MaxRequests,    \* max_requests: how many a window admits
    WindowSeconds,  \* WINDOW_SIZE_SECONDS
    TicksPerSecond, \* resolution of the clock
    MaxTime,        \* bound: the last tick
    MaxFaults       \* bound: failures and restarts of Redis

ASSUME RateLimiterAssumption ==
    /\ MaxRequests \in Nat \ {0}
    /\ WindowSeconds \in Nat \ {0}
    /\ TicksPerSecond \in Nat \ {0}
    /\ MaxTime \in Nat
    /\ MaxFaults \in Nat

VARIABLES
    clock,    \* the current tick
    bucket,   \* the requests with an entry in the sorted set
    deadline, \* when Redis drops the key
    epoch,    \* how many times Redis has lost its data
    stage,    \* stage[r]: "new", "stamped", or how r was answered
    stamp,    \* stamp[r]: "now", the score of the entry of r
    done,     \* done[r]: when the pipeline of r was executed ...
    during,   \* during[r]: ... and in which epoch
    retry,    \* retry[r]: the Retry-After of r, in seconds
    faults

redisVars   == <<bucket, deadline, epoch>>
requestVars == <<stage, stamp, done, during, retry>>
vars == <<clock, redisVars, requestVars, faults>>

Answers == {"admitted", "rejected", "failed_open"}
Stages  == {"new", "stamped"} \cup Answers
Window  == WindowSeconds * TicksPerSecond

(* The requests whose pipeline was executed and whose answer obeyed it. *)
Checked  == {r \in Requests : stage[r] \in {"admitted", "rejected"}}
Admitted == {r \in Requests : stage[r] = "admitted"}

-----------------------------------------------------------------------------
Init ==
    /\ clock = 0
    /\ bucket = {} /\ deadline = 0 /\ epoch = 0
    /\ stage = [r \in Requests |-> "new"]
    /\ stamp = [r \in Requests |-> 0]
    /\ done = [r \in Requests |-> 0]
    /\ during = [r \in Requests |-> 0]
    /\ retry = [r \in Requests |-> 0]
    /\ faults = 0

Tick ==
    /\ clock < MaxTime
    /\ clock' = clock + 1
    /\ UNCHANGED <<redisVars, requestVars, faults>>

(* Redis restarts without its data. *)
RestartRedis ==
    /\ faults < MaxFaults
    /\ faults' = faults + 1
    /\ bucket' = {}
    /\ epoch' = epoch + 1
    /\ UNCHANGED <<clock, deadline, requestVars>>

(* _check_rate_limit reads time.time(). *)
Stamp(r) ==
    /\ stage[r] = "new"
    /\ stage' = [stage EXCEPT ![r] = "stamped"]
    /\ stamp' = [stamp EXCEPT ![r] = clock]
    /\ UNCHANGED <<clock, redisVars, done, during, retry, faults>>

(* Mutant of Trimmed: no ZREMRANGEBYSCORE, only the key's expiry. *)
MutantNotTrimmed(r) == IF clock < deadline THEN bucket ELSE {}

(* The sorted set after ZREMRANGEBYSCORE -inf .. now - window.             *)
Trimmed(r) ==
    IF clock < deadline
    THEN {q \in bucket : stamp[q] + Window > stamp[r]}
    ELSE {}

(* The pipeline up to ZCARD and EXPIRE. *)
Record(r) ==
    /\ bucket' = Trimmed(r) \cup {r}
    /\ deadline' = clock + 2 * Window
    /\ done' = [done EXCEPT ![r] = clock]
    /\ during' = [during EXCEPT ![r] = epoch]

RequestCount(r) == Cardinality(Trimmed(r) \cup {r})

(* The entry that ZRANGE 0 0 returns. *)
IsOldest(q, entries) ==
    q \in entries /\ \A x \in entries : stamp[q] <= stamp[x]

(* Mutant of RetryAfter: without the max(retry_after, 1). *)
MutantRetryAfter(r, oldest) == (stamp[oldest] + Window - stamp[r]) \div TicksPerSecond

(* int(oldest + window - now), at least one second. *)
RetryAfter(r, oldest) ==
    LET seconds == (stamp[oldest] + Window - stamp[r]) \div TicksPerSecond
    IN  IF seconds < 1 THEN 1 ELSE seconds

(* Mutant of Admit: >= MaxRequests instead of > MaxRequests. *)
MutantAdmit(r) ==
    /\ stage[r] = "stamped"
    /\ Record(r)
    /\ RequestCount(r) <= MaxRequests + 1
    /\ stage' = [stage EXCEPT ![r] = "admitted"]
    /\ UNCHANGED <<clock, epoch, stamp, retry, faults>>

Admit(r) ==
    /\ stage[r] = "stamped"
    /\ Record(r)
    /\ RequestCount(r) <= MaxRequests
    /\ stage' = [stage EXCEPT ![r] = "admitted"]
    /\ UNCHANGED <<clock, epoch, stamp, retry, faults>>

(* A request over the limit is answered 429 and stays in the sorted set.   *)
Reject(r) ==
    /\ stage[r] = "stamped"
    /\ Record(r)
    /\ RequestCount(r) > MaxRequests
    /\ stage' = [stage EXCEPT ![r] = "rejected"]
    /\ \E q \in Requests :
          /\ IsOldest(q, Trimmed(r) \cup {r})
          /\ retry' = [retry EXCEPT ![r] = RetryAfter(r, q)]
    /\ UNCHANGED <<clock, epoch, stamp, faults>>

(* The pipeline raises, whether or not Redis executed it: fail open.       *)
FailOpen(r) ==
    /\ stage[r] = "stamped"
    /\ faults < MaxFaults
    /\ faults' = faults + 1
    /\ Record(r) \/ UNCHANGED <<bucket, deadline, done, during>>
    /\ stage' = [stage EXCEPT ![r] = "failed_open"]
    /\ UNCHANGED <<clock, epoch, stamp, retry>>

Next ==
    \/ Tick \/ RestartRedis
    \/ \E r \in Requests : Stamp(r) \/ Admit(r) \/ Reject(r) \/ FailOpen(r)

Spec == Init /\ [][Next]_vars

-----------------------------------------------------------------------------
(* Every variable holds a value the program can hold.                      *)
TypeOK ==
    /\ clock \in Nat /\ deadline \in Nat /\ epoch \in Nat /\ faults \in Nat
    /\ bucket \subseteq Requests
    /\ stage \in [Requests -> Stages]
    /\ stamp \in [Requests -> Nat]
    /\ done \in [Requests -> Nat]
    /\ during \in [Requests -> Nat]
    /\ retry \in [Requests -> Nat]

(* The requests admitted by a check that fell, from reading the clock to   *)
(* the execution of the pipeline, within the window that begins at t.      *)
AdmittedWithin(t, e) ==
    {r \in Admitted : during[r] = e /\ t <= stamp[r] /\ done[r] < t + Window}

(* No boundary spike (rate_limiter.py:11-13): of the checks that begin and *)
(* end within one window, wherever the window begins and however the       *)
(* requests overtake each other, at most MaxRequests admit, as long as     *)
(* Redis keeps its data.                                                   *)
NoBoundarySpike ==
    \A r \in Admitted :
        Cardinality(AdmittedWithin(stamp[r], during[r])) <= MaxRequests

(* A rejection has a cause: at its check the window held MaxRequests other *)
(* requests, each of which has been answered; a user who was silent for a  *)
(* window is not rejected.                                                 *)
RejectionHasCause ==
    \A r \in Requests : stage[r] = "rejected" =>
        Cardinality({q \in Requests \ {r} :
            /\ stage[q] \in Answers /\ during[q] = during[r]
            /\ done[q] <= done[r] /\ stamp[q] + Window > stamp[r]}) >= MaxRequests

(* A Retry-After is at least a second and at most the window, however late *)
(* the entries of overtaken requests are.                                  *)
RetryAfterInRange ==
    \A r \in Requests : stage[r] = "rejected" => retry[r] \in 1..WindowSeconds
=============================================================================
