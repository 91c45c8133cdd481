------------------------------ MODULE RateLimit ------------------------------
(***************************************************************************)
(* RateLimitGuard and RateLimitService: one Redis counter per window of an *)
(* action, incremented and read back by every process of the API.  The     *)
(* three commands are pipelined, not in a MULTI: commands of another       *)
(* process may come between them.  A process whose Redis connection fails  *)
(* lets everything pass from then on.                                      *)
(*                                                                         *)
(* One action of one organization.  In calm weather every process has a    *)
(* Redis it reaches, Redis keeps answering and nobody resets a counter.    *)
(***************************************************************************)
EXTENDS Naturals, FiniteSets, Weather

CONSTANTS
    Servers,        \* API processes
    Calls,          \* requests to the limited route
    Limit,          \* options.limit
    Window,         \* options.windowSec, in ticks of the clock
    MaxTime         \* bound on the clock

ASSUME RateAssumption ==
    /\ Servers # {} /\ IsFiniteSet(Calls)
    /\ Limit \in Nat /\ Window \in Nat \ {0} /\ MaxTime \in Nat

VARIABLES
    now,            \* Date.now(); the processes' clocks agree
    counter,        \* Redis: the count of a window, by its start; 0 is "no key"
    ttl,            \* when Redis drops that key
    enabled,        \* the servers whose _isEnabled is true
    check           \* the state of each request

rateVars == <<now, counter, ttl, enabled, check>>

Times == 0..MaxTime
WindowStart(t) == t - (t % Window)
Starts == {WindowStart(t) : t \in Times}

(* A request: its server, when it was checked, and how far it is.          *)
NewCheck == [pc |-> "new", server |-> CHOOSE s \in Servers : TRUE, at |-> 0]

RateInit ==
    /\ now = 0
    /\ counter = [w \in Starts |-> 0]
    /\ ttl = [w \in Starts |-> 0]
    /\ enabled \in IF calm THEN {Servers} ELSE SUBSET Servers     \* those with a Redis URL they can reach
    /\ check = [c \in Calls |-> NewCheck]

Count(w) == IF ttl[w] > now THEN counter[w] ELSE 0

(* The clock.  ioredis gives up on a command after commandTimeout, less    *)
(* than the spare second of EXPIRE: in calm weather no pipeline is older   *)
(* than one tick.                                                          *)
Tick ==
    /\ now < MaxTime
    /\ calm => \A c \in Calls : check[c].pc \in {"incr", "get"} => check[c].at = now
    /\ now' = now + 1
    /\ UNCHANGED <<counter, ttl, enabled, check>>

(* The guard lets the request pass at once when limiting is disabled       *)
(* (skipIfDisabled) ...                                                    *)
CheckDisabled(c) ==
    /\ check[c].pc = "new"
    /\ \E s \in Servers \ enabled : check' = [check EXCEPT ![c] = [pc |-> "allowed", server |-> s, at |-> now]]
    /\ UNCHANGED <<now, counter, ttl, enabled>>

(* ... or computes the key of the current window and sends the pipeline.   *)
CheckStart(c) ==
    /\ check[c].pc = "new"
    /\ \E s \in enabled : check' = [check EXCEPT ![c] = [pc |-> "incr", server |-> s, at |-> now]]
    /\ UNCHANGED <<now, counter, ttl, enabled>>

(* Fault: the key expires with its window, without the spare second.       *)
IncrementNoSpare(c) ==
    /\ check[c].pc = "incr" /\ check[c].server \in enabled
    /\ LET w == WindowStart(check[c].at)
       IN  /\ counter' = [counter EXCEPT ![w] = Count(w) + 1]
           /\ ttl' = [ttl EXCEPT ![w] = now + Window]
    /\ check' = [check EXCEPT ![c].pc = "get"]
    /\ UNCHANGED <<now, enabled>>

(* INCR and EXPIRE (window + 1 s) ...                                      *)
Increment(c) ==
    /\ check[c].pc = "incr" /\ check[c].server \in enabled
    /\ LET w == WindowStart(check[c].at)
       IN  /\ counter' = [counter EXCEPT ![w] = Count(w) + 1]
           /\ ttl' = [ttl EXCEPT ![w] = now + Window + 1]
    /\ check' = [check EXCEPT ![c].pc = "get"]
    /\ UNCHANGED <<now, enabled>>

(* ... and GET: at most limit requests of a window are allowed.            *)
Verdict(c) ==
    /\ check[c].pc = "get" /\ check[c].server \in enabled
    /\ check' = [check EXCEPT ![c].pc = IF Count(WindowStart(check[c].at)) <= Limit THEN "allowed" ELSE "refused"]
    /\ UNCHANGED <<now, counter, ttl, enabled>>

(* The connection of a server fails: limiting is off for good, and what    *)
(* was waiting for an answer passes.                                       *)
RedisFails(s) ==
    /\ ~calm /\ s \in enabled
    /\ enabled' = enabled \ {s}
    /\ check' = [c \in Calls |-> IF check[c].server = s /\ check[c].pc \in {"incr", "get"}
                                   THEN [check[c] EXCEPT !.pc = "allowed"] ELSE check[c]]
    /\ UNCHANGED <<now, counter, ttl>>

(* A command times out: the request passes, limiting stays on.             *)
CommandTimesOut(c) ==
    /\ ~calm /\ check[c].pc \in {"incr", "get"}
    /\ check' = [check EXCEPT ![c].pc = "allowed"]
    /\ UNCHANGED <<now, counter, ttl, enabled>>

(* resetLimit deletes the counters of every window.                        *)
ResetLimit ==
    /\ ~calm /\ enabled # {} /\ \E w \in Starts : Count(w) > 0
    /\ counter' = [w \in Starts |-> 0]
    /\ UNCHANGED <<now, ttl, enabled, check>>

RateNext ==
    \/ Tick \/ ResetLimit
    \/ \E c \in Calls : CheckDisabled(c) \/ CheckStart(c) \/ Increment(c) \/ Verdict(c) \/ CommandTimesOut(c)
    \/ \E s \in Servers : RedisFails(s)

RateSpec == RateInit /\ [][RateNext /\ UNCHANGED calm]_<<rateVars, calm>>

-----------------------------------------------------------------------------
Allowed(S) == Cardinality({c \in Calls : check[c].pc = "allowed" /\ check[c].at \in S})

RateTypeOK ==
    /\ now \in Times
    /\ counter \in [Starts -> 0..Cardinality(Calls)]
    /\ ttl \in [Starts -> 0..MaxTime + Window + 1]
    /\ enabled \subseteq Servers
    /\ check \in [Calls -> [pc : {"new", "incr", "get", "allowed", "refused"}, server : Servers, at : Times]]

(* However the commands of several servers interleave in Redis, one window *)
(* admits at most Limit requests while Redis answers -- and twice as many, *)
(* but no more, get through in any stretch as long as a window, because    *)
(* the windows are fixed.  And whatever fails or is reset, a request is    *)
(* refused only in a window that saw more than Limit of them.              *)
WindowLimit ==
    /\ calm => /\ \A w \in Starts : Allowed(w..w + Window - 1) <= Limit
               /\ \A t \in Times : Allowed(t..t + Window - 1) <= 2 * Limit
    /\ \A c \in Calls : check[c].pc = "refused" =>
          Cardinality({d \in Calls : check[d].pc # "new" /\ WindowStart(check[d].at) = WindowStart(check[c].at)}) > Limit
=============================================================================
