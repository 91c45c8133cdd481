----------------------------- MODULE MCPlatform -----------------------------
(***************************************************************************)
(* The platform on small instances, in calm weather or not.                *)
(***************************************************************************)
EXTENDS Platform, TLC

CONSTANTS c1, c2, c3, s1, s2, p1, p2, x1, x2, y1, r1, r2, q1, q2, w1, w2,
          KeyA, CartA, CartB, Pay

(* Two carts of as many lines and different customers, and the payment of  *)
(* a sale; the paths of different sales are normalised to the same one.    *)
MCOperations ==
    {[path |-> "sales", id |-> "new", top |-> CartA, nested |-> CartA],
     [path |-> "sales", id |-> "new", top |-> CartB, nested |-> CartA],
     [path |-> "sales/:id/pay", id |-> "s", top |-> Pay, nested |-> Pay]}
MCPoolOf == x1 :> p1 @@ x2 :> p1 @@ y1 :> p2
MCRunBy == r1 :> p1 @@ r2 :> p1 @@ c1 :> p2

(* The runner initialised last, as its own tests have it.  In the order of *)
(* integrations.module.ts it is the first, and the behaviours are those of *)
(* this instance in which no entry is taken.                               *)
MCRunnerLast == [JobRunnerService |-> 3, BullMqQueueAdapter |-> 1, IntegrationQueueService |-> 2]

MCInit ==
    /\ calm \in BOOLEAN
    /\ focus \in {"idempotency", "rateLimit", "runner", "jobs"}
    /\ IdemInit /\ RateInit /\ RunnerInit
    /\ focus # "runner" => pool = Conns
    /\ enabled = IF calm \/ focus # "rateLimit" THEN Servers ELSE {s1}
    /\ slot = [s \in Slots |-> IdleSlot(CHOOSE r \in Rows : TRUE)]
    \* Two jobs when nothing fails; when anything may, one, and perhaps an
    \* earlier one that has used up its attempts and is kept in Redis.
    /\ \E old \in {FALSE, ~calm /\ focus = "jobs"} :
          LET Over(q) == old /\ q = q2 IN
          /\ jobRow = [r \in Rows |-> IF Over(r[1]) /\ r[2] = "first" THEN [status |-> "FAILED", attempts |-> MaxAttempts] ELSE NoJob]
          /\ entry = [r \in Rows |-> IF Over(r[1]) /\ r[2] = "first"
                                       THEN [NoEntry EXCEPT !.state = "failed", !.made = MaxAttempts] ELSE NoEntry]
          /\ call = [q \in Requests |-> IF Over(q) THEN [pc |-> "queued", key |-> KeyA]
                                         ELSE [pc |-> IF calm \/ q = q1 THEN "new" ELSE "refused", key |-> NoDedupe]]

MCSpec == MCInit /\ [][PlatformNext]_platformVars
=============================================================================
