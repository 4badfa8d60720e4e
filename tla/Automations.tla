----------------------------- MODULE Automations -----------------------------
(***************************************************************************)
(* One automation rule of a tenant, its runs and the messages they send:   *)
(* AutomationsService.trigger, retry, verifyWorkflowPack, sendRun and      *)
(* upsert.  A run is known by its idempotency key, and the same key is     *)
(* triggered again and again: twice by one booking update (once more by    *)
(* the workflow), by every overdue scan and by every lead scan.            *)
(*                                                                         *)
(* A worker is one such call and one action one statement; what a worker   *)
(* decides, it decides on what it read before.  The message provider is    *)
(* external: it accepts a message or not, and its answer may be lost.      *)
(***************************************************************************)
EXTENDS Naturals

CONSTANTS
    Keys,       \* idempotency keys of the rule's trigger
    Workers,    \* calls in progress at the same time
    MaxRetries, \* bound on the retries by hand
    MaxFaults,  \* bound on exceptions and crashes
    NONE

ASSUME LimitsAssumption == MaxRetries \in Nat /\ MaxFaults \in Nat

RunStatus == {"PENDING", "SENT", "FAILED", "SKIPPED"}
Rule      == [active : BOOLEAN, delayed : BOOLEAN, blank : BOOLEAN]
Run       == [status : RunStatus, later : BOOLEAN, blank : BOOLEAN]

ASSUME NoneAssumption == NONE \notin Keys \cup Rule \cup Run

VARIABLES
    phones,   \* keys whose customer has a phone number; none is ever changed
    rule,     \* the AutomationRule row: active, delayMinutes > 0, empty template
    run,      \* AutomationRun by key: status, scheduled for later, no content
    log,      \* number of MessageLog rows of a run
    accepted, \* external: number of messages of a run the provider accepted
    pc,       \* next await of each worker
    key,      \* the key it works on
    seen,     \* the rule it found
    verifies, \* the workers that run verifyWorkflowPack
    excused,  \* history: keys that may be sent again
    crashed,  \* history: the process died, or a statement failed outside the try
    retries, faults

rows  == <<phones, rule, run, log>>
local == <<key, seen, verifies>>
vars  == <<rows, accepted, pc, local, excused, crashed, retries, faults>>

Sending   == {"read", "send", "log", "mark", "catch"}
Delivered == {"log", "mark", "catch"}

\* buildTemplateData: the phone of the context's customer.
HasPhone(k) == k \in phones

\* A definition that is used nowhere is a faulty variant of the next one.
AnyId(k) == TRUE

Exists(k) == run[k] # NONE

SendAgain(r, due) == due /\ r.status # "SKIPPED"

\* A trigger sends the run it finds or creates if it is pending and the rule
\* has no delay: scheduledFor is computed anew, the stored one is not read.
\* The verification sends whatever is pending.
SendsNow(r, due) == r.status = "PENDING" /\ due

Init ==
    /\ phones \in SUBSET Keys
    /\ rule \in Rule \cup {NONE}
    /\ run = [k \in Keys |-> NONE]
    /\ log = [k \in Keys |-> 0]
    /\ accepted = [k \in Keys |-> 0]
    /\ pc = [w \in Workers |-> "idle"]
    /\ key = [w \in Workers |-> NONE]
    /\ seen = [w \in Workers |-> NONE]
    /\ verifies = {}
    /\ excused = {}
    /\ crashed = FALSE
    /\ retries = 0
    /\ faults = 0

Goto(w, label) == pc' = [pc EXCEPT ![w] = label]

\* The call of w is over, whatever came of it.
Leave(w) ==
    /\ Goto(w, "idle")
    /\ key' = [key EXCEPT ![w] = NONE]
    /\ seen' = [seen EXCEPT ![w] = NONE]
    /\ verifies' = verifies \ {w}

\* Worker w goes on to send k; if another one is at it, both may send.
StartSending(w, k) ==
    /\ Goto(w, "read")
    /\ excused' = IF \E v \in Workers \ {w} : key[v] = k /\ pc[v] \in Sending
                    THEN excused \cup {k} ELSE excused

SetStatus(w, status) == run' = [run EXCEPT ![key[w]].status = status]

(***************************************************************************)
(* trigger                                                                 *)
(***************************************************************************)
FindRule(w, k) ==
    /\ pc[w] = "idle"
    /\ rule # NONE /\ rule.active
    /\ Goto(w, "upsert")
    /\ key' = [key EXCEPT ![w] = k]
    /\ seen' = [seen EXCEPT ![w] = rule]
    /\ UNCHANGED <<rows, accepted, verifies, excused, crashed, retries, faults>>

\* Without a phone a SKIPPED run is inserted, which the unique key refuses
\* the second time.
SkipRun(w) ==
    /\ pc[w] = "upsert" /\ ~HasPhone(key[w])
    /\ run' = IF Exists(key[w]) THEN run
              ELSE [run EXCEPT ![key[w]] =
                      [status |-> "SKIPPED", later |-> FALSE, blank |-> seen[w].blank]]
    /\ Leave(w)
    /\ UNCHANGED <<phones, rule, log, accepted, excused, crashed, retries, faults>>

UpsertRun(w) ==
    LET k == key[w]
        new == [status |-> "PENDING", later |-> seen[w].delayed, blank |-> seen[w].blank]
        row == IF Exists(k) THEN run[k] ELSE new
    IN /\ pc[w] = "upsert" /\ HasPhone(k)
       /\ run' = [run EXCEPT ![k] = row]
       /\ IF SendsNow(row, w \in verifies \/ ~seen[w].delayed)
            THEN StartSending(w, k) /\ UNCHANGED local
            ELSE Leave(w) /\ UNCHANGED excused
       /\ UNCHANGED <<phones, rule, log, accepted, crashed, retries, faults>>

(***************************************************************************)
(* sendRun                                                                 *)
(***************************************************************************)
ReadRun(w) ==
    /\ pc[w] = "read"
    /\ Goto(w, IF HasPhone(key[w]) /\ ~run[key[w]].blank THEN "send" ELSE "skip")
    /\ UNCHANGED <<rows, accepted, local, excused, crashed, retries, faults>>

MarkSkipped(w) ==
    /\ pc[w] = "skip"
    /\ SetStatus(w, "SKIPPED")
    /\ Leave(w)
    /\ UNCHANGED <<phones, rule, log, accepted, excused, crashed, retries, faults>>

Send(w) ==
    /\ pc[w] = "send"
    /\ accepted' = [accepted EXCEPT ![key[w]] = @ + 1]
    /\ Goto(w, "log")
    /\ UNCHANGED <<rows, local, excused, crashed, retries, faults>>

LogMessage(w) ==
    /\ pc[w] = "log"
    /\ log' = [log EXCEPT ![key[w]] = @ + 1]
    /\ Goto(w, "mark")
    /\ UNCHANGED <<phones, rule, run, accepted, local, excused, crashed, retries, faults>>

MarkSent(w) ==
    /\ pc[w] = "mark"
    /\ SetStatus(w, "SENT")
    /\ Goto(w, "audit")
    /\ UNCHANGED <<phones, rule, log, accepted, local, excused, crashed, retries, faults>>

\* The audit record of a message that was sent is still inside the try.
AuditSent(w) ==
    /\ pc[w] = "audit"
    /\ Leave(w)
    /\ UNCHANGED <<rows, accepted, excused, crashed, retries, faults>>

FailureHidden(w) == "SENT"
StillPending(w) == "PENDING"

FailureStatus(w) == "FAILED"

MarkFailed(w) ==
    /\ pc[w] = "catch"
    /\ SetStatus(w, FailureStatus(w))
    /\ Leave(w)
    /\ UNCHANGED <<phones, rule, log, accepted, excused, crashed, retries, faults>>

(***************************************************************************)
(* retry and verifyWorkflowPack                                            *)
(***************************************************************************)
FindRun(w, k) ==
    /\ pc[w] = "idle"
    /\ Exists(k)
    /\ retries < MaxRetries
    /\ retries' = retries + 1
    /\ Goto(w, "retry")
    /\ key' = [key EXCEPT ![w] = k]
    /\ UNCHANGED <<rows, accepted, seen, verifies, excused, crashed, faults>>

\* Any run, also a SENT one, becomes PENDING and is sent.
Retry(w) ==
    /\ pc[w] = "retry"
    /\ SetStatus(w, "PENDING")
    /\ Goto(w, "read")
    /\ excused' = excused \cup {key[w]}
    /\ UNCHANGED <<phones, rule, log, accepted, local, crashed, retries, faults>>

\* The rule the verification makes has a template, and no delay.
VerificationRule == [active |-> TRUE, delayed |-> FALSE, blank |-> FALSE]

\* The verification makes a new booking for a customer with a phone, so its
\* key has no run, and switches the rule on.
EnableRule(w, k) ==
    /\ pc[w] = "idle"
    /\ ~Exists(k) /\ HasPhone(k)
    /\ rule' = IF rule = NONE THEN VerificationRule
               ELSE [rule EXCEPT !.active = TRUE]
    /\ key' = [key EXCEPT ![w] = k]
    /\ verifies' = verifies \cup {w}
    /\ Goto(w, "find")
    /\ UNCHANGED <<phones, run, log, accepted, seen, excused, crashed, retries, faults>>

FindEnabledRule(w) ==
    /\ pc[w] = "find"
    /\ IF rule.active
         THEN /\ Goto(w, "upsert")
              /\ seen' = [seen EXCEPT ![w] = rule]
              /\ UNCHANGED <<key, verifies>>
         ELSE Leave(w)
    /\ UNCHANGED <<rows, accepted, excused, crashed, retries, faults>>

(***************************************************************************)
(* upsert: a manager creates or edits the rule.                            *)
(***************************************************************************)
EditRule(r) ==
    /\ rule' = r
    /\ UNCHANGED <<phones, run, log, accepted, pc, local, excused, crashed, retries, faults>>

(***************************************************************************)
(* Faults.  The provider refuses a message, or accepts it and the answer   *)
(* is lost; a statement inside the try fails.  All of these are caught.    *)
(***************************************************************************)
Throw(w) ==
    /\ faults < MaxFaults
    /\ pc[w] \in {"send", "log", "mark", "audit"}
    /\ faults' = faults + 1
    /\ Goto(w, "catch")
    /\ \/ UNCHANGED accepted
       \/ pc[w] = "send" /\ accepted' = [accepted EXCEPT ![key[w]] = @ + 1]
    /\ UNCHANGED <<rows, local, excused, crashed, retries>>

Abort(w) ==
    /\ faults < MaxFaults
    /\ pc[w] # "idle"
    /\ faults' = faults + 1
    /\ crashed' = TRUE
    /\ excused' = IF pc[w] \in Delivered THEN excused \cup {key[w]} ELSE excused
    /\ Leave(w)
    /\ UNCHANGED <<rows, accepted, retries>>

\* What a worker that has started does next.
Continue(w) ==
    \/ SkipRun(w) \/ UpsertRun(w) \/ Retry(w) \/ FindEnabledRule(w)
    \/ ReadRun(w) \/ MarkSkipped(w)
    \/ Send(w) \/ LogMessage(w) \/ MarkSent(w) \/ AuditSent(w) \/ MarkFailed(w)

Begin(w) == \E k \in Keys : FindRule(w, k) \/ FindRun(w, k) \/ EnableRule(w, k)

Next ==
    \/ \E w \in Workers : Begin(w) \/ Continue(w) \/ Throw(w) \/ Abort(w)
    \/ \E r \in Rule : EditRule(r)

Spec == Init /\ [][Next]_vars

FairSpec == Spec /\ \A w \in Workers : WF_vars(Continue(w))

-----------------------------------------------------------------------------
Labels == {"idle", "upsert", "retry", "find", "read", "skip", "send", "log",
           "mark", "audit", "catch"}

\* Every variable stays in its domain; whoever triggers has found a
\* rule, and whoever sends has a run.
TypeOK ==
    /\ phones \subseteq Keys
    /\ rule \in Rule \cup {NONE}
    /\ run \in [Keys -> Run \cup {NONE}]
    /\ log \in [Keys -> Nat] /\ accepted \in [Keys -> Nat]
    /\ pc \in [Workers -> Labels]
    /\ key \in [Workers -> Keys \cup {NONE}]
    /\ seen \in [Workers -> Rule \cup {NONE}]
    /\ verifies \subseteq Workers
    /\ excused \subseteq Keys
    /\ crashed \in BOOLEAN
    /\ retries \in 0..MaxRetries /\ faults \in 0..MaxFaults
    /\ \A w \in Workers : pc[w] # "idle" => key[w] \in Keys
    /\ \A w \in Workers : pc[w] = "upsert" => seen[w] \in Rule
    /\ \A w \in Workers : pc[w] = "find" => rule \in Rule
    /\ \A w \in Workers :
         pc[w] \in Labels \ {"idle", "upsert", "find"} => run[key[w]] \in Run

\* A customer gets at most one message of a run, however often its key is
\* triggered and whatever exception ends a send, unless somebody retries the
\* run, two calls send it at once, or the process dies after a send.
OneMessageUnlessExcused ==
    \A k \in Keys \ excused : accepted[k] <= 1

Shows(k, status) == run[k] # NONE /\ run[k].status = status

\* A run that shows SENT has a message row, and every message row stands for
\* a message the provider accepted, with sends of one run overlapping.
SentIsLogged ==
    \A k \in Keys :
        /\ Shows(k, "SENT") => log[k] > 0
        /\ log[k] <= accepted[k]

\* Unless the process dies, a run that is due at once does not stay PENDING:
\* it ends SENT, FAILED or SKIPPED, and a FAILED one is listed for retry.
DueRunsEnd ==
    \A k \in Keys :
        Shows(k, "PENDING") /\ ~run[k].later ~> ~Shows(k, "PENDING") \/ crashed
=============================================================================
