------------------------- MODULE ConcurrentLimiter -------------------------
(***************************************************************************)
(* The concurrent request limiter (indexer/src/rateLimit/                  *)
(* concurrentLimiter.js) for one client: requests on any instance share    *)
(* one Redis counter, INCR on arrival and DECR after the response, with a  *)
(* time to live set anew after each INCR.  Each Redis command is a step.   *)
(* An absent key reads as 0; a DECR of it makes a key without a time to    *)
(* live.  A request lasts as long as it likes, so the key may expire at    *)
(* any moment.                                                             *)
(***************************************************************************)
EXTENDS Integers, FiniteSets

CONSTANTS
    Requests,           \* requests that can be in progress at once
    Limit,              \* getConcLimit of the client's tier
    MaxLimiterFaults,   \* bound: failed commands and lost decrements
    MaxExpiries         \* bound: expiries of the key

ASSUME LimiterAssumption ==
    /\ IsFiniteSet(Requests)
    /\ Limit \in Nat /\ MaxLimiterFaults \in Nat /\ MaxExpiries \in Nat

VARIABLES
    counter,    \* conc:{clientId}
    ttl,        \* does the key have a time to live?
    request,    \* a request's place, and the count its INCR returned
    leaked,     \* history: decrements missed since the key last expired
    forgotten,  \* history: requests counted when the key last expired
    limiterFaults, expiries

limiterVars == <<counter, ttl, request, leaked, forgotten, limiterFaults, expiries>>

NoRequest == [at |-> "none", got |-> 0]

LimiterInit ==
    /\ counter = 0 /\ ttl = FALSE
    /\ request = [r \in Requests |-> NoRequest]
    /\ leaked = 0 /\ forgotten = 0 /\ limiterFaults = 0 /\ expiries = 0

LimiterFault == limiterFaults < MaxLimiterFaults /\ limiterFaults' = limiterFaults + 1

Goes(r, place) == request' = [request EXCEPT ![r].at = place]

\* Redis is not ready, or the INCR fails before it is executed.
PassThrough(r) ==
    /\ request[r].at = "none"
    /\ Goes(r, "uncounted")
    /\ UNCHANGED <<counter, ttl, leaked, forgotten, limiterFaults, expiries>>

Increment(r) ==
    /\ request[r].at = "none"
    /\ counter' = counter + 1
    /\ request' = [request EXCEPT ![r] = [at |-> "counted", got |-> counter + 1]]
    /\ UNCHANGED <<ttl, leaked, forgotten, limiterFaults, expiries>>

\* The INCR is executed and its answer is lost: the request passes, no one decrements.
IncrementUnanswered(r) ==
    /\ request[r].at = "none" /\ LimiterFault
    /\ counter' = counter + 1 /\ leaked' = leaked + 1
    /\ Goes(r, "uncounted")
    /\ UNCHANGED <<ttl, forgotten, expiries>>

\* EXPIRE, then the comparison with the count read before it.
RefreshTtl(r) ==
    /\ request[r].at = "counted"
    /\ ttl' = TRUE
    /\ Goes(r, IF request[r].got > Limit THEN "rejecting" ELSE "served")
    /\ UNCHANGED <<counter, leaked, forgotten, limiterFaults, expiries>>

\* An EXPIRE that throws, executed or not, lets the request pass with its INCR left.
RefreshFails(r) ==
    /\ request[r].at = "counted" /\ LimiterFault
    /\ ttl' \in {ttl, TRUE} /\ leaked' = leaked + 1
    /\ request' = [request EXCEPT ![r] = [at |-> "uncounted", got |-> 0]]
    /\ UNCHANGED <<counter, forgotten, expiries>>

\* The response is finished; its DECR is still to come.
Finish(r) ==
    /\ request[r].at = "served"
    /\ Goes(r, "leaving")
    /\ UNCHANGED <<counter, ttl, leaked, forgotten, limiterFaults, expiries>>

UncountedEnds(r) ==
    /\ request[r].at = "uncounted"
    /\ Goes(r, "none")
    /\ UNCHANGED <<counter, ttl, leaked, forgotten, limiterFaults, expiries>>

\* Mutant: the finish listener is there before the limit is looked at, so that the
\* 503 answer decrements as well.
DecrementTwice(r) ==
    /\ request[r].at \in {"rejecting", "leaving"}
    /\ counter' = counter - 1
    /\ request' = [request EXCEPT ![r] = IF @.at = "rejecting" THEN [@ EXCEPT !.at = "leaving"]
                                         ELSE NoRequest]
    /\ UNCHANGED <<ttl, leaked, forgotten, limiterFaults, expiries>>

\* DECR, of a rejected request or after the response.
Decrement(r) ==
    /\ request[r].at \in {"rejecting", "leaving"}
    /\ counter' = counter - 1
    /\ request' = [request EXCEPT ![r] = NoRequest]
    /\ UNCHANGED <<ttl, leaked, forgotten, limiterFaults, expiries>>

\* The client goes away before 'finish', Redis is not ready, the DECR fails, or the
\* process dies.
NotDecremented(r) ==
    /\ request[r].at \in {"counted", "served", "rejecting", "leaving"} /\ LimiterFault
    /\ leaked' = leaked + 1
    /\ request' = [request EXCEPT ![r] = NoRequest]
    /\ UNCHANGED <<counter, ttl, forgotten, expiries>>

\* Requests whose INCR was answered and whose DECR is still to come.
Counted == {r \in Requests : request[r].at \in {"counted", "served", "rejecting", "leaving"}}

\* TTL_CONC_SAFETY: leaks are forgiven, and requests in progress forgotten.
KeyExpires ==
    /\ ttl /\ expiries < MaxExpiries
    /\ expiries' = expiries + 1
    /\ counter' = 0 /\ ttl' = FALSE
    /\ leaked' = 0 /\ forgotten' = Cardinality(Counted)
    /\ UNCHANGED <<request, limiterFaults>>

LimiterNext ==
    \/ \E r \in Requests :
          \/ PassThrough(r) \/ Increment(r) \/ IncrementUnanswered(r)
          \/ RefreshTtl(r) \/ RefreshFails(r)
          \/ Finish(r) \/ UncountedEnds(r) \/ Decrement(r) \/ NotDecremented(r)
    \/ KeyExpires

LimiterSpec == LimiterInit /\ [][LimiterNext]_limiterVars
-----------------------------------------------------------------------------
(* Properties. *)

LimiterTypeOK ==
    /\ counter \in Int /\ ttl \in BOOLEAN
    /\ request \in [Requests -> [at : {"none", "uncounted", "counted", "served", "rejecting", "leaving"},
                                 got : Int]]
    /\ leaked \in Nat /\ forgotten \in Nat
    /\ limiterFaults \in 0..MaxLimiterFaults /\ expiries \in 0..MaxExpiries

Served == {r \in Requests : request[r].at = "served"}

\* Let through without a count: Redis is not ready, or the INCR or the EXPIRE failed.
Uncounted == {r \in Requests : request[r].at = "uncounted"}

InProgress == Served \cup Uncounted

\* "Enforces a per-client cap on the number of in-flight HTTP requests": whatever
\* increments, rejections, responses, lost decrements and expiries interleave, the cap
\* is exceeded by at most the requests the counter forgot when its key last expired and
\* those let through uncounted, of which there may be any number.
LimitHolds == Cardinality(InProgress) <= Limit + forgotten + Cardinality(Uncounted)
=============================================================================
