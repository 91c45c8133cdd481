----------------------------- MODULE Idempotency -----------------------------
(***************************************************************************)
(* IdempotencyInterceptor and IdempotencyService: what is meant to make    *)
(* "create a sale" and "pay a sale" safe to retry.  A row of the table     *)
(* IdempotencyKey is found under the client's key and the normalised path; *)
(* it holds a hash of the body and, once a call has succeeded, its answer. *)
(* begin runs before the handler, complete or fail after it, in a tap that *)
(* nobody awaits; every database error is swallowed (fail open).           *)
(*                                                                         *)
(* One user of one organization: both are part of the unique index.  Calls *)
(* of one key may overlap as they like.  In calm weather the database      *)
(* answers, no process dies and no key gets 24 hours old; no property here *)
(* is stated for calm weather.                                             *)
(*                                                                         *)
(* With Installed the module is the interceptor as IdempotencyModule       *)
(* provides it; app.module.ts does not put it among the application's      *)
(* interceptors, so that the deployed API is the case ~Installed.          *)
(***************************************************************************)
EXTENDS Naturals, FiniteSets, Weather

CONSTANTS
    Callers,        \* HTTP calls; each is sent once, a retry is another one
    NoCaller,
    Keys,           \* values of the header Idempotency-Key
    NoKey,          \* the header is missing
    Operations,     \* what a call asks for: [path, id, top, nested]
    Installed,      \* the interceptor is among the application's interceptors
    NoHash,
    OrgOnRequest    \* somebody has set request.organizationId

ASSUME IdemAssumption ==
    /\ NoCaller \notin Callers /\ NoKey \notin Keys
    /\ Operations # {}
    /\ Installed \in BOOLEAN /\ OrgOnRequest \in BOOLEAN

VARIABLES
    keyRow,     \* IdempotencyKey, by path and key
    idem        \* the state of each call

idemVars == <<keyRow, idem>>

(* The path is stored with ids replaced by :id, the hash ignores fields of *)
(* nested objects unless a top-level field has the same name (the second   *)
(* argument of JSON.stringify is applied at every level): neither tells    *)
(* apart two sales, or two carts of as many lines.                         *)
NormalizePath(op) == op.path
RequestHash(op) == op.top

Paths == {op.path : op \in Operations}
Hashes == {op.top : op \in Operations}

NoRecord == [state |-> "none", hash |-> NoHash, answer |-> NoCaller, expired |-> FALSE]
Pending(op) == [state |-> "pending", hash |-> RequestHash(op), answer |-> NoCaller, expired |-> FALSE]

(* A call has not come, is at a query of begin ("find", "delete",          *)
(* "insert", "reread"), in the handler ("run"), in complete or fail, or    *)
(* over.  ran tells whether its handler committed, answer whose response   *)
(* it got.  alone is history: its time in the server was its own (no other *)
(* call of its key was there, its process did not die), and since it came  *)
(* the row of its key has not expired and no query of begin has failed for *)
(* a call of its key.                                                      *)
NewIdem == [pc |-> "new", key |-> NoKey, op |-> CHOOSE op \in Operations : TRUE,
            ran |-> FALSE, answer |-> NoCaller, alone |-> TRUE]

IdemInit ==
    /\ keyRow = [p \in Paths |-> [k \in Keys |-> NoRecord]]
    /\ idem = [c \in Callers |-> NewIdem]

IdemAt(c, pc) == idem[c].pc = pc
Goto(c, pc) == idem' = [idem EXCEPT ![c].pc = pc]
Record(c) == keyRow[NormalizePath(idem[c].op)][idem[c].key]
SetRecord(c, rec) == keyRow' = [keyRow EXCEPT ![NormalizePath(idem[c].op)][idem[c].key] = rec]
Exists(rec) == rec.state # "none"

InProgress(c) == idem[c].pc \notin {"new", "over"}

(* The calls in S are not alone.                                           *)
Disturbed(S) == [d \in Callers |-> IF d \in S THEN [idem[d] EXCEPT !.alone = FALSE] ELSE idem[d]]
OfKey(p, k) == {d \in Callers : idem[d].key = k /\ NormalizePath(idem[d].op) = p}

-----------------------------------------------------------------------------
(* A call arrives.  Without the interceptor the handler simply runs;       *)
(* without the header it is refused; without request.organizationId it is  *)
(* let through.                                                            *)
Arrive(c) ==
    /\ IdemAt(c, "new")
    /\ \E k \in Keys \cup {NoKey}, op \in Operations :
          LET met == {d \in OfKey(NormalizePath(op), k) : InProgress(d)}
          IN  idem' = [Disturbed(met) EXCEPT ![c] =
                  [NewIdem EXCEPT !.key = k, !.op = op, !.alone = (met = {}),
                       !.pc = IF ~Installed THEN "run"
                              ELSE IF k = NoKey THEN "over"
                              ELSE IF ~OrgOnRequest THEN "run" ELSE "find"]]
    /\ UNCHANGED keyRow

(* Fault: the body is not compared.                                        *)
DecideOnKeyOnly(c, rec) ==
    idem' = [idem EXCEPT ![c].pc = IF rec.state = "cached" THEN "over" ELSE "run", ![c].answer = rec.answer]

(* A record that has not expired settles the matter: 409 for another body, *)
(* the stored answer if there is one, and a record that is still pending   *)
(* lets the call through.                                                  *)
Decide(c, rec) ==
    idem' = [idem EXCEPT
        ![c].pc = IF rec.hash # RequestHash(idem[c].op) \/ rec.state = "cached" THEN "over" ELSE "run",
        ![c].answer = IF rec.hash = RequestHash(idem[c].op) THEN rec.answer ELSE NoCaller]

BeginFind(c) ==
    /\ IdemAt(c, "find")
    /\ LET rec == Record(c)
       IN  IF Exists(rec) /\ ~rec.expired
             THEN Decide(c, rec)
             ELSE Goto(c, IF Exists(rec) THEN "delete" ELSE "insert")
    /\ UNCHANGED keyRow

(* The expired row goes; if it is gone already the error lets the call     *)
(* through.  (Deletion is by id: a row inserted since stays.)              *)
BeginDelete(c) ==
    /\ IdemAt(c, "delete")
    /\ IF Exists(Record(c)) /\ Record(c).expired
         THEN SetRecord(c, NoRecord) /\ Goto(c, "insert")
         ELSE Goto(c, "run") /\ UNCHANGED keyRow

BeginInsert(c) ==
    /\ IdemAt(c, "insert")
    /\ IF Exists(Record(c))
         THEN Goto(c, "reread") /\ UNCHANGED keyRow
         ELSE SetRecord(c, Pending(idem[c].op)) /\ Goto(c, "run")

(* The insert hit the unique index: read the winner's row.                 *)
BeginReread(c) ==
    /\ IdemAt(c, "reread")
    /\ LET rec == Record(c)
       IN  IF Exists(rec) /\ ~rec.expired THEN Decide(c, rec) ELSE Goto(c, "run")
    /\ UNCHANGED keyRow

(* Any query of begin fails: the call goes on as if the key were new.      *)
BeginFails(c) ==
    /\ ~calm /\ idem[c].pc \in {"find", "delete", "insert", "reread"}
    /\ idem' = [Disturbed(OfKey(NormalizePath(idem[c].op), idem[c].key)) EXCEPT ![c].pc = "run"]
    /\ UNCHANGED keyRow

(* The handler.  Its transaction commits or it throws.                     *)
After(c, pc) == IF Installed /\ OrgOnRequest THEN pc ELSE "over"

HandlerSucceeds(c) ==
    /\ IdemAt(c, "run")
    /\ idem' = [idem EXCEPT ![c].ran = TRUE, ![c].answer = c, ![c].pc = After(c, "complete")]
    /\ UNCHANGED keyRow

HandlerThrows(c) ==
    /\ IdemAt(c, "run")
    /\ Goto(c, After(c, "fail"))
    /\ UNCHANGED keyRow

(* Fault: complete is not reached after a success.                         *)
CompleteForgets(c) == IdemAt(c, "complete") /\ Goto(c, "over") /\ UNCHANGED keyRow

(* updateMany and deleteMany by key: they write whatever row is there,     *)
(* whoever created it.                                                     *)
Complete(c) ==
    /\ IdemAt(c, "complete")
    /\ IF Exists(Record(c))
         THEN SetRecord(c, [Record(c) EXCEPT !.state = "cached", !.answer = c])
         ELSE UNCHANGED keyRow
    /\ Goto(c, "over")

Fail(c) ==
    /\ IdemAt(c, "fail")
    /\ SetRecord(c, NoRecord)
    /\ Goto(c, "over")

(* The process dies, or complete or fail meets a database error.           *)
IdemCrash(c) ==
    /\ ~calm /\ InProgress(c)
    /\ idem' = [Disturbed({c}) EXCEPT ![c].pc = "over"]
    /\ UNCHANGED keyRow

(* 24 hours pass.                                                          *)
KeyExpires(p, k) ==
    /\ ~calm /\ Exists(keyRow[p][k]) /\ ~keyRow[p][k].expired
    /\ keyRow' = [keyRow EXCEPT ![p][k].expired = TRUE]
    /\ idem' = Disturbed(OfKey(p, k) \ {c \in Callers : IdemAt(c, "new")})

(* A server starts and removes every expired row.                          *)
CleanupExpired ==
    /\ keyRow' = [p \in Paths |-> [k \in Keys |-> IF keyRow[p][k].expired THEN NoRecord ELSE keyRow[p][k]]]
    /\ keyRow' # keyRow
    /\ idem' = Disturbed({c \in Callers : InProgress(c) /\ idem[c].key # NoKey /\ Record(c).expired})

IdemStep(c) ==
    \/ Arrive(c) \/ BeginFind(c) \/ BeginDelete(c) \/ BeginInsert(c) \/ BeginReread(c) \/ BeginFails(c)
    \/ HandlerSucceeds(c) \/ HandlerThrows(c) \/ Complete(c) \/ Fail(c) \/ IdemCrash(c)

IdemNext ==
    \/ \E c \in Callers : IdemStep(c)
    \/ \E p \in Paths, k \in Keys : KeyExpires(p, k)
    \/ CleanupExpired

IdemSpec == IdemInit /\ [][IdemNext /\ UNCHANGED calm]_<<idemVars, calm>>

-----------------------------------------------------------------------------
IdemTypeOK ==
    /\ keyRow \in [Paths -> [Keys -> [state : {"none", "pending", "cached"}, hash : Hashes \cup {NoHash},
                                      answer : Callers \cup {NoCaller}, expired : BOOLEAN]]]
    /\ idem \in [Callers -> [pc : {"new", "find", "delete", "insert", "reread", "run", "complete", "fail", "over"},
                             key : Keys \cup {NoKey}, op : Operations, ran : BOOLEAN,
                             answer : Callers \cup {NoCaller}, alone : BOOLEAN]]

SameKey(c, d) ==
    /\ idem[c].key = idem[d].key /\ idem[c].key # NoKey
    /\ NormalizePath(idem[c].op) = NormalizePath(idem[d].op)

(* IDEMPOTENCY.md: "The second request does NOT create a new sale".  Once  *)
(* a call has committed undisturbed and is over, no call of its key takes  *)
(* effect any more, whichever calls race and crash after it, until the key *)
(* is 24 hours old.  alone names what the code cannot promise: calls that  *)
(* overlap (a record still pending lets the second one through), and a     *)
(* failed query, which lets its call through.                              *)
OncePerKey ==
    [][\A c, d \in Callers :
          c # d /\ SameKey(c, d) /\ idem[c].ran /\ idem[c].pc = "over" /\ idem[c].alone
              => idem'[d].ran = idem[d].ran]_idemVars

(* Whatever races, crashes and expires, an answer a client gets is the     *)
(* answer of a call that did commit, made under the client's own key; and  *)
(* it is an answer to the same body if that call met no other of its key   *)
(* and no fault (without which a row may be completed by the wrong call).  *)
AnswerIsOurs ==
    \A c \in Callers : LET q == idem[c].answer IN
        q # NoCaller =>
            /\ idem[q].ran
            /\ q = c \/ SameKey(c, q)
            /\ idem[q].alone => RequestHash(idem[q].op) = RequestHash(idem[c].op)
=============================================================================
