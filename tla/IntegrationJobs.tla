--------------------------- MODULE IntegrationJobs ---------------------------
(***************************************************************************)
(* IntegrationQueueService with its two adapters, IntegrationJobsService   *)
(* and the BullMQ worker of JobRunnerService.  A job is a row of the table *)
(* IntegrationJob and, when a worker process enqueued it, an entry of the  *)
(* BullMQ queue that names the row.  The row counts its failures in        *)
(* attempts, BullMQ counts the entry's attempts on its own; nothing but    *)
(* the order of the calls keeps the two counts together.  An API process   *)
(* only writes the row, and nothing ever fetches rows (fetchNext has no    *)
(* caller).                                                                *)
(*                                                                         *)
(* A worker process consumes the entries only if its JobRunnerService was  *)
(* initialised after the queue had its adapter: onModuleInit looks once.   *)
(*                                                                         *)
(* In calm weather the database and Redis answer and no worker dies or     *)
(* loses the lock of an entry.                                             *)
(***************************************************************************)
EXTENDS Naturals, FiniteSets, Weather

CONSTANTS
    InitAt,         \* when onModuleInit of each provider is called
    Requests,       \* calls of enqueue
    DedupeKeys, NoDedupe,
    Slots, NoSlot,  \* jobs the workers run at once (INTEGRATION_WORKER_CONCURRENCY)
    MaxAttempts,    \* maxAttempts of markFailed and attempts of the BullMQ queue
    MaxStalled      \* maxStalledCount of the worker

ASSUME JobsAssumption ==
    /\ MaxAttempts \in Nat \ {0} /\ MaxStalled \in Nat
    /\ Requests # {} /\ IsFiniteSet(Slots) /\ NoSlot \notin Slots

(* The row of the adapter, and the row DbAdapter makes when it failed.     *)
Rows == Requests \X {"first", "fallback"}

VARIABLES
    jobRow,     \* IntegrationJob: status and attempts
    entry,      \* the BullMQ job of each row
    call,       \* the state of each enqueue
    slot        \* the state of each processBullJob

jobsVars == <<jobRow, entry, call, slot>>

NoJob == [status |-> "none", attempts |-> 0]
NoEntry == [state |-> "none", made |-> 0, stalled |-> 0, owner |-> NoSlot]
IdleSlot(r) == [pc |-> "idle", row |-> r, seen |-> 0]

JobsInit ==
    /\ jobRow = [r \in Rows |-> NoJob]
    /\ entry = [r \in Rows |-> NoEntry]
    /\ call = [q \in Requests |-> [pc |-> "new", key |-> NoDedupe]]
    /\ slot = [s \in Slots |-> IdleSlot(CHOOSE r \in Rows : TRUE)]

(* onModuleInit of IntegrationQueueService takes the adapter if that is    *)
(* enabled, and the one of JobRunnerService starts the worker if the queue *)
(* has it.  Nest calls the hooks of a module in the order of its list of   *)
(* providers, in which JobRunnerService is the first of the three: as      *)
(* deployed the worker does not start, and no entry is ever taken.         *)
BullSelected == InitAt.BullMqQueueAdapter < InitAt.IntegrationQueueService
WorkerStarts == BullSelected /\ InitAt.IntegrationQueueService < InitAt.JobRunnerService

First(q) == <<q, "first">>
CreateRow(r) == jobRow' = [jobRow EXCEPT ![r].status = "PENDING"]
CallGoes(q, pc) == call' = [call EXCEPT ![q].pc = pc]

-----------------------------------------------------------------------------
(* The webhook endpoint passes no organization: the WebhookEvent is saved, *)
(* enqueue throws, and in "refused" the event has no job.                  *)
ReceiveWebhook(q) ==
    /\ call[q].pc = "new"
    /\ CallGoes(q, "refused")
    /\ UNCHANGED <<jobRow, entry, slot>>

(* enqueue of an API process, and of any process with QUEUE_MODE=db.       *)
EnqueueDb(q) ==
    /\ call[q].pc = "new"
    /\ CreateRow(First(q)) /\ CallGoes(q, "rowOnly")
    /\ UNCHANGED <<entry, slot>>

(* enqueue of BullMqQueueAdapter: the row first ...                        *)
EnqueueBull(q) ==
    /\ call[q].pc = "new" /\ BullSelected
    /\ \E k \in DedupeKeys \cup {NoDedupe} : call' = [call EXCEPT ![q] = [pc |-> "add", key |-> k]]
    /\ CreateRow(First(q))
    /\ UNCHANGED <<entry, slot>>

(* Fault: the jobId is made of the key even when there is none.            *)
CollidesWithoutKey(q) == \E p \in Requests : p # q /\ call[p].key = call[q].key /\ entry[<<p, "first">>].state # "none"

(* ... then queue.add, which does nothing when an entry of the same jobId  *)
(* is in Redis: completed entries are removed, failed ones stay.           *)
InRedis(r) == entry[r].state \in {"waiting", "active", "failed"}
Duplicate(q) ==
    \E p \in Requests : p # q /\ call[q].key # NoDedupe /\ call[p].key = call[q].key /\ InRedis(First(p))
AddEntry(q) == entry' = [entry EXCEPT ![First(q)].state = IF Duplicate(q) THEN "none" ELSE "waiting"]

QueueAdd(q) ==
    /\ call[q].pc = "add"
    /\ AddEntry(q) /\ CallGoes(q, IF Duplicate(q) THEN "deduped" ELSE "queued")
    /\ UNCHANGED <<jobRow, slot>>

(* Redis fails, before or after it has the entry; the caller makes a row   *)
(* again, through DbAdapter ...                                            *)
QueueAddFails(q) ==
    /\ ~calm /\ call[q].pc = "add"
    /\ AddEntry(q) \/ UNCHANGED entry
    /\ CallGoes(q, "fallback")
    /\ UNCHANGED <<jobRow, slot>>

FallbackToDb(q) ==
    /\ call[q].pc = "fallback"
    /\ CreateRow(<<q, "fallback">>) /\ CallGoes(q, "rowOnly")
    /\ UNCHANGED <<entry, slot>>

(* ... or dies between the two.                                            *)
EnqueuerDies(q) ==
    /\ ~calm /\ call[q].pc \in {"add", "fallback"}
    /\ CallGoes(q, "lost")
    /\ UNCHANGED <<jobRow, entry, slot>>

-----------------------------------------------------------------------------
(* The worker takes an entry and runs processBullJob.                      *)
TakeJob(s, r) ==
    /\ WorkerStarts /\ slot[s].pc = "idle" /\ entry[r].state = "waiting"
    /\ entry' = [entry EXCEPT ![r].state = "active", ![r].owner = s]
    /\ slot' = [slot EXCEPT ![s] = [pc |-> "mark", row |-> r, seen |-> 0]]
    /\ UNCHANGED <<jobRow, call>>

SlotAt(s, pc) == slot[s].pc = pc
SlotGoes(s, pc) == slot' = [slot EXCEPT ![s].pc = pc]
SetStatus(s, status) == jobRow' = [jobRow EXCEPT ![slot[s].row].status = status]

(* markProcessing is outside the try: if it throws, nothing is counted.    *)
MarkProcessing(s) ==
    /\ SlotAt(s, "mark")
    /\ \/ SetStatus(s, "PROCESSING") /\ SlotGoes(s, "work")
       \/ ~calm /\ SlotGoes(s, "reject") /\ UNCHANGED jobRow
    /\ UNCHANGED <<entry, call>>

(* markDone, the only thing left in the try, may throw.                    *)
MarkDone(s) ==
    /\ SlotAt(s, "work")
    /\ \/ SetStatus(s, "DONE") /\ SlotGoes(s, "resolve")
       \/ ~calm /\ SlotGoes(s, "failRead") /\ UNCHANGED jobRow
    /\ UNCHANGED <<entry, call>>

(* markFailed reads the count ...                                          *)
MarkFailedRead(s) ==
    /\ SlotAt(s, "failRead")
    /\ slot' = [slot EXCEPT ![s].pc = "failWrite", ![s].seen = jobRow[slot[s].row].attempts]
    /\ UNCHANGED <<jobRow, entry, call>>

(* Fault: one attempt too few.                                             *)
FailsEarly(s) == IF slot[s].seen + 2 >= MaxAttempts THEN "FAILED" ELSE "PENDING"

(* ... and writes the next one, with PENDING and a new runAt, or FAILED.   *)
StatusAfterFailure(s) == IF slot[s].seen + 1 >= MaxAttempts THEN "FAILED" ELSE "PENDING"

MarkFailedWrite(s) ==
    /\ SlotAt(s, "failWrite")
    /\ jobRow' = [jobRow EXCEPT ![slot[s].row] = [status |-> StatusAfterFailure(s), attempts |-> slot[s].seen + 1]]
    /\ SlotGoes(s, "reject")
    /\ UNCHANGED <<entry, call>>

(* markFailed throws as well.                                              *)
MarkFailedThrows(s) ==
    /\ ~calm /\ slot[s].pc \in {"failRead", "failWrite"}
    /\ SlotGoes(s, "reject")
    /\ UNCHANGED <<jobRow, entry, call>>

(* Fault: the failed attempts are counted and never compared.              *)
RejectedUnlimited(e) == [e EXCEPT !.state = "waiting", !.made = @ + 1, !.owner = NoSlot]

(* BullMQ ends the attempt of a worker that still holds the entry's lock:  *)
(* the entry goes, is tried again or is kept as failed.                    *)
EntryRejected(e) ==
    IF e.made + 1 >= MaxAttempts
      THEN [e EXCEPT !.state = "failed", !.made = @ + 1, !.owner = NoSlot]
      ELSE [e EXCEPT !.state = "waiting", !.made = @ + 1, !.owner = NoSlot]

JobResolved(s) ==
    /\ SlotAt(s, "resolve")
    /\ entry' = [entry EXCEPT ![slot[s].row] =
                    IF @.owner = s THEN [@ EXCEPT !.state = "completed", !.owner = NoSlot] ELSE @]
    /\ SlotGoes(s, "idle")
    /\ UNCHANGED <<jobRow, call>>

JobRejected(s) ==
    /\ SlotAt(s, "reject")
    /\ entry' = [entry EXCEPT ![slot[s].row] = IF @.owner = s THEN EntryRejected(@) ELSE @]
    /\ SlotGoes(s, "idle")
    /\ UNCHANGED <<jobRow, call>>

(* The lock of an active entry runs out, whether its worker is dead or     *)
(* only slow: the entry is given to another, maxStalledCount times.        *)
JobStalls(r) ==
    /\ ~calm /\ entry[r].state = "active"
    /\ entry' = [entry EXCEPT ![r].state = IF @ = "active" /\ entry[r].stalled >= MaxStalled THEN "failed" ELSE "waiting",
                              ![r].stalled = @ + 1, ![r].owner = NoSlot]
    /\ UNCHANGED <<jobRow, call, slot>>

SlotDies(s) ==
    /\ ~calm /\ ~SlotAt(s, "idle")
    /\ SlotGoes(s, "idle")
    /\ UNCHANGED <<jobRow, entry, call>>

SlotStep(s) ==
    \/ MarkProcessing(s) \/ MarkDone(s) \/ MarkFailedRead(s) \/ MarkFailedWrite(s) \/ MarkFailedThrows(s)
    \/ JobResolved(s) \/ JobRejected(s)

CallStep(q) == QueueAdd(q) \/ QueueAddFails(q) \/ FallbackToDb(q)

JobsNext ==
    \/ \E q \in Requests :
          ReceiveWebhook(q) \/ EnqueueDb(q) \/ EnqueueBull(q) \/ CallStep(q) \/ EnqueuerDies(q)
    \/ \E s \in Slots : SlotStep(s) \/ SlotDies(s) \/ \E r \in Rows : TakeJob(s, r)
    \/ \E r \in Rows : JobStalls(r)

JobsSpec == JobsInit /\ [][JobsNext /\ UNCHANGED calm]_<<jobsVars, calm>>

-----------------------------------------------------------------------------
JobsTypeOK ==
    /\ jobRow \in [Rows -> [status : {"none", "PENDING", "PROCESSING", "DONE", "FAILED"}, attempts : Nat]]
    /\ entry \in [Rows -> [state : {"none", "waiting", "active", "completed", "failed"}, made : 0..MaxAttempts,
                           stalled : 0..MaxStalled + 1, owner : Slots \cup {NoSlot}]]
    /\ call \in [Requests -> [pc : {"new", "refused", "rowOnly", "add", "queued", "deduped", "fallback", "lost"},
                              key : DedupeKeys \cup {NoDedupe}]]
    /\ slot \in [Slots -> [pc : {"idle", "mark", "work", "failRead", "failWrite", "resolve", "reject"},
                           row : Rows, seen : Nat]]

Busy(r) == \E s \in Slots : slot[s].row = r /\ ~SlotAt(s, "idle")

(* The row never gives up on a job before BullMQ does: whatever queries    *)
(* failed on the way, FAILED means that the last attempt is being, or has  *)
(* been, rejected.  Only entries that stalled, and are run twice, may      *)
(* escape this, and then by one failure per stall at most.                 *)
FailedMeansExhausted ==
    \A r \in Rows :
        /\ jobRow[r].status = "FAILED" /\ entry[r].stalled = 0 =>
              entry[r].made >= MaxAttempts - 1 /\ (entry[r].state = "failed" \/ Busy(r) \/ entry[r].state = "active")
        /\ jobRow[r].attempts <= MaxAttempts + MaxStalled

(* Whatever fails, dies or stalls, a job that enqueue has put in the queue *)
(* is DONE, or will run, or has used up its attempts or its stalls; and    *)
(* one that it has dropped as a duplicate is dropped for the sake of       *)
(* another job with its key, which was put in the queue.                   *)
InHand(r) ==
    \/ jobRow[r].status = "DONE"
    \/ entry[r].state \in {"waiting", "active"}
    \/ entry[r].state = "failed" /\ (entry[r].made >= MaxAttempts \/ entry[r].stalled > MaxStalled)
    \/ entry[r].state = "completed" /\ entry[r].stalled > 0
JobAccounted ==
    \A q \in Requests :
        /\ call[q].pc = "queued" => InHand(First(q))
        /\ call[q].pc = "deduped" =>
              \E p \in Requests \ {q} :
                  call[p].key = call[q].key /\ call[q].key # NoDedupe /\ entry[First(p)].state # "none"
=============================================================================
