-------------------------- MODULE AutomationsProofs --------------------------
(***************************************************************************)
(* What Automations promises for every set of keys and workers: states are *)
(* well typed, nobody gets a message twice without an excuse, and a run    *)
(* that shows SENT has its message row.                                    *)
(***************************************************************************)
EXTENDS Automations, FiniteSets, FiniteSetTheorems, TLAPS

\* Values the steps store.
USE DEF Labels

\* No stored row is the missing row.
LEMMA RowsExist ==
    /\ \A r \in Rule : r # NONE
    /\ \A r \in Run : r # NONE
    /\ \A k \in Keys : k # NONE
BY NoneAssumption

\* The initial states are well typed.
LEMMA InitTyped == Init => TypeOK
<1> SUFFICES ASSUME Init PROVE TypeOK
    OBVIOUS
<1>1. phones \subseteq Keys
    BY DEF Init
<1>2. retries \in 0..MaxRetries /\ faults \in 0..MaxFaults
    BY LimitsAssumption DEF Init
<1>3. \A w \in Workers : pc[w] = "idle"
    BY DEF Init
<1> QED BY <1>1, <1>2, <1>3 DEF Init, TypeOK

\* Every statement of a call keeps the rows and the local variables typed.
LEMMA StepTyped == TypeOK /\ [Next]_vars => TypeOK'
<1> SUFFICES ASSUME TypeOK, [Next]_vars PROVE TypeOK'
    OBVIOUS
<1> USE LimitsAssumption, RowsExist DEF TypeOK
<1>1. ASSUME NEW w \in Workers, NEW k \in Keys, FindRule(w, k) PROVE TypeOK'
    BY <1>1 DEF FindRule, Goto, rows
<1>2. ASSUME NEW w \in Workers, NEW k \in Keys, FindRun(w, k) PROVE TypeOK'
    BY <1>2 DEF FindRun, Goto, rows, Exists
<1>3. ASSUME NEW w \in Workers, NEW k \in Keys, EnableRule(w, k) PROVE TypeOK'
    BY <1>3 DEF EnableRule, VerificationRule, Goto, Exists, Rule
<1>4. ASSUME NEW w \in Workers, SkipRun(w) PROVE TypeOK'
    BY <1>4 DEF SkipRun, Leave, Goto, Exists, Run, Rule, RunStatus
<1>5. ASSUME NEW w \in Workers, UpsertRun(w) PROVE TypeOK'
    <2> DEFINE new == [status |-> "PENDING", later |-> seen[w].delayed,
                       blank |-> seen[w].blank]
               row == IF run[key[w]] # NONE THEN run[key[w]] ELSE new
    <2>1. pc[w] = "upsert" /\ key[w] \in Keys /\ seen[w] \in Rule
        BY <1>5 DEF UpsertRun
    <2>2. row \in Run
        BY <2>1 DEF Rule, Run, RunStatus
    <2>3. run' = [run EXCEPT ![key[w]] = row]
        BY <1>5 DEF UpsertRun, Exists
    <2>4. run' \in [Keys -> Run \cup {NONE}] /\ run'[key[w]] \in Run
        BY <2>1, <2>2, <2>3
    <2> HIDE DEF new, row
    <2>5. CASE StartSending(w, key[w]) /\ UNCHANGED local
        BY <1>5, <2>1, <2>2, <2>3, <2>4, <2>5 DEF UpsertRun, StartSending, Goto, local
    <2>6. CASE Leave(w) /\ UNCHANGED excused
        BY <1>5, <2>1, <2>2, <2>3, <2>4, <2>6 DEF UpsertRun, Leave, Goto
    <2>7. (StartSending(w, key[w]) /\ UNCHANGED local) \/ (Leave(w) /\ UNCHANGED excused)
        BY <1>5 DEF UpsertRun
    <2> QED BY <2>5, <2>6, <2>7
<1>6. ASSUME NEW w \in Workers, Retry(w) PROVE TypeOK'
    BY <1>6 DEF Retry, SetStatus, Goto, Run, RunStatus, local
<1>7. ASSUME NEW w \in Workers, FindEnabledRule(w) PROVE TypeOK'
    BY <1>7 DEF FindEnabledRule, Leave, Goto, rows
<1>8. ASSUME NEW w \in Workers, ReadRun(w) PROVE TypeOK'
    BY <1>8 DEF ReadRun, Goto, rows, local
<1>9. ASSUME NEW w \in Workers, MarkSkipped(w) PROVE TypeOK'
    BY <1>9 DEF MarkSkipped, SetStatus, Leave, Goto, Run, RunStatus
<1>10. ASSUME NEW w \in Workers, Send(w) PROVE TypeOK'
    BY <1>10 DEF Send, Goto, rows, local
<1>11. ASSUME NEW w \in Workers, LogMessage(w) PROVE TypeOK'
    BY <1>11 DEF LogMessage, Goto, local
<1>12. ASSUME NEW w \in Workers, MarkSent(w) PROVE TypeOK'
    BY <1>12 DEF MarkSent, SetStatus, Goto, Run, RunStatus, local
<1>13. ASSUME NEW w \in Workers, AuditSent(w) PROVE TypeOK'
    BY <1>13 DEF AuditSent, Leave, Goto, rows
<1>14. ASSUME NEW w \in Workers, MarkFailed(w) PROVE TypeOK'
    BY <1>14 DEF MarkFailed, FailureStatus, SetStatus, Leave, Goto, Run, RunStatus
<1>15. ASSUME NEW w \in Workers, Throw(w) PROVE TypeOK'
    BY <1>15 DEF Throw, Goto, rows, local
<1>16. ASSUME NEW w \in Workers, Abort(w) PROVE TypeOK'
    BY <1>16 DEF Abort, Leave, Goto, rows
<1>17. ASSUME NEW r \in Rule, EditRule(r) PROVE TypeOK'
    BY <1>17 DEF EditRule, local
<1>18. CASE UNCHANGED vars
    BY <1>18 DEF vars, rows, local
<1> QED BY <1>1, <1>2, <1>3, <1>4, <1>5, <1>6, <1>7, <1>8, <1>9, <1>10, <1>11,
           <1>12, <1>13, <1>14, <1>15, <1>16, <1>17, <1>18 DEF Next, Begin, Continue

\* Rows, snapshots and local variables of the calls stay in their domains,
\* and whoever sends, retries or marks a run has one.
THEOREM TypeCorrect == Spec => []TypeOK
BY InitTyped, StepTyped, PTL DEF Spec

-----------------------------------------------------------------------------
\* Worker w is on its way to a message of run k, or behind it.
Busy(w, k) == key[w] = k /\ pc[w] \in Sending \cup {"audit"}

\* Why run k gets no second message while it has no excuse: one worker at
\* most is busy with it, and after the message either that worker still is,
\* or the run is no longer pending.
Single(k) ==
    /\ accepted[k] <= 1
    /\ \A v, w \in Workers : Busy(v, k) /\ Busy(w, k) => v = w
    /\ \A w \in Workers : key[w] = k =>
         /\ pc[w] \in {"read", "send"} => accepted[k] = 0
         /\ pc[w] = "audit" => run[k].status # "PENDING"
    /\ accepted[k] # 0 =>
         /\ run[k] \in Run
         /\ \/ run[k].status # "PENDING"
            \/ \E w \in Workers : key[w] = k /\ pc[w] \in Delivered

SendInv == TypeOK /\ \A k \in Keys \ excused : Single(k)

USE DEF Busy, Sending, Delivered

\* Nothing has been sent at first.
LEMMA InitSingle == Init => SendInv
<1> SUFFICES ASSUME Init PROVE \A k \in Keys : Single(k)
    BY InitTyped DEF SendInv
<1>1. \A k \in Keys : accepted[k] = 0
    BY DEF Init
<1>2. \A w \in Workers : pc[w] = "idle"
    BY DEF Init
<1> SUFFICES ASSUME NEW k \in Keys PROVE Single(k)
    OBVIOUS
<1>3. accepted[k] = 0
    BY <1>1
<1>4. \A w \in Workers : ~Busy(w, k) /\ pc[w] \notin {"read", "send", "audit"}
    BY <1>2
<1> QED BY <1>3, <1>4 DEF Single

\* An excuse is never taken back.
LEMMA ExcusesStay == TypeOK /\ [Next]_vars => excused \subseteq excused'
BY ZenonT(40) DEF Next, Begin, Continue, vars, FindRule, FindRun, EnableRule, SkipRun, UpsertRun,
       StartSending, Leave, Retry, FindEnabledRule, ReadRun, MarkSkipped, Send,
       LogMessage, MarkSent, AuditSent, MarkFailed, Throw, Abort, EditRule

\* Setting the status of a run touches no other run ...
LEMMA OtherRun ==
    ASSUME TypeOK, NEW w \in Workers, NEW s, SetStatus(w, s),
           NEW k \in Keys, key[w] # k
    PROVE  run'[k] = run[k]
BY DEF SetStatus, TypeOK

\* ... and gives the run of the worker that status.
LEMMA OwnRun ==
    ASSUME TypeOK, NEW w \in Workers, NEW s \in RunStatus, SetStatus(w, s),
           key[w] \in Keys, run[key[w]] \in Run
    PROVE  run'[key[w]] \in Run /\ run'[key[w]].status = s
BY DEF SetStatus, TypeOK, Run

\* Each statement keeps the reason why a run without excuse is sent once.
LEMMA StepSingle == SendInv /\ [Next]_vars => SendInv'
<1> SUFFICES ASSUME TypeOK, TypeOK', [Next]_vars, NEW k \in Keys,
                    k \notin excused', Single(k)
             PROVE  Single(k)'
    BY StepTyped, ExcusesStay DEF SendInv
<1> USE RowsExist DEF TypeOK, Single
<1>1. ASSUME NEW w \in Workers, NEW j \in Keys, FindRule(w, j) PROVE Single(k)'
    BY <1>1 DEF FindRule, Goto, rows
<1>2. ASSUME NEW w \in Workers, NEW j \in Keys, FindRun(w, j) PROVE Single(k)'
    BY <1>2 DEF FindRun, Goto, rows
<1>3. ASSUME NEW w \in Workers, NEW j \in Keys, EnableRule(w, j) PROVE Single(k)'
    BY <1>3 DEF EnableRule, Goto
<1>4. ASSUME NEW w \in Workers, SkipRun(w) PROVE Single(k)'
    BY <1>4 DEF SkipRun, Leave, Goto, Exists, Run
<1>5. ASSUME NEW w \in Workers, UpsertRun(w) PROVE Single(k)'
    BY <1>5 DEF UpsertRun, StartSending, SendsNow, Leave, Goto, Exists, Run, local
<1>6. ASSUME NEW w \in Workers, Retry(w) PROVE Single(k)'
    BY <1>6 DEF Retry, SetStatus, Goto, Run, local
<1>7. ASSUME NEW w \in Workers, FindEnabledRule(w) PROVE Single(k)'
    BY <1>7 DEF FindEnabledRule, Leave, Goto, rows
<1>8. ASSUME NEW w \in Workers, ReadRun(w) PROVE Single(k)'
    BY <1>8 DEF ReadRun, Goto, rows, local
<1>9. ASSUME NEW w \in Workers, MarkSkipped(w) PROVE Single(k)'
    <2>1. SetStatus(w, "SKIPPED") /\ Leave(w) /\ pc[w] = "skip"
          /\ UNCHANGED <<accepted, excused>>
        BY <1>9 DEF MarkSkipped
    <2>2. key[w] # k => run'[k] = run[k]
        BY <2>1, OtherRun
    <2>3. run'[key[w]] \in Run /\ run'[key[w]].status = "SKIPPED"
        BY <2>1, OwnRun DEF RunStatus
    <2> QED BY <2>1, <2>2, <2>3 DEF Leave, Goto
<1>10. ASSUME NEW w \in Workers, Send(w) PROVE Single(k)'
    BY <1>10 DEF Send, Goto, rows, local
<1>11. ASSUME NEW w \in Workers, LogMessage(w) PROVE Single(k)'
    BY <1>11 DEF LogMessage, Goto, local
<1>12. ASSUME NEW w \in Workers, MarkSent(w) PROVE Single(k)'
    BY <1>12 DEF MarkSent, SetStatus, Goto, Run, local
<1>13. ASSUME NEW w \in Workers, AuditSent(w) PROVE Single(k)'
    BY <1>13 DEF AuditSent, Leave, Goto, rows
<1>14. ASSUME NEW w \in Workers, MarkFailed(w) PROVE Single(k)'
    <2>1. SetStatus(w, "FAILED") /\ Leave(w) /\ pc[w] = "catch"
          /\ UNCHANGED <<accepted, excused>>
        BY <1>14 DEF MarkFailed, FailureStatus
    <2>2. key[w] # k => run'[k] = run[k]
        BY <2>1, OtherRun
    <2>3. run'[key[w]] \in Run /\ run'[key[w]].status = "FAILED"
        BY <2>1, OwnRun DEF RunStatus
    <2> QED BY <2>1, <2>2, <2>3 DEF Leave, Goto
<1>15. ASSUME NEW w \in Workers, Throw(w) PROVE Single(k)'
    BY <1>15 DEF Throw, Goto, rows, local
<1>16. ASSUME NEW w \in Workers, Abort(w) PROVE Single(k)'
    BY <1>16 DEF Abort, Leave, Goto, rows
<1>17. ASSUME NEW r \in Rule, EditRule(r) PROVE Single(k)'
    BY <1>17 DEF EditRule, local
<1>18. CASE UNCHANGED vars
    BY <1>18 DEF vars, rows, local
<1> QED BY <1>1, <1>2, <1>3, <1>4, <1>5, <1>6, <1>7, <1>8, <1>9, <1>10, <1>11,
           <1>12, <1>13, <1>14, <1>15, <1>16, <1>17, <1>18 DEF Next, Begin, Continue

\* However many triggers, scans and retries of however many runs interleave,
\* with exceptions and crashes at any await: a run that was neither retried,
\* nor sent by two calls at once, nor cut off by a crash after its message,
\* sends one message at most.
THEOREM OneMessagePerRun == Spec => []OneMessageUnlessExcused
<1>1. SendInv => OneMessageUnlessExcused
    BY DEF SendInv, Single, OneMessageUnlessExcused
<1> QED BY InitSingle, StepSingle, <1>1, PTL DEF Spec

-----------------------------------------------------------------------------
\* The workers that have sent a message of run k and not yet logged it.
Logging(k) == {w \in Workers : key[w] = k /\ pc[w] = "log"}

\* A run shows SENT, or is about to, only after a message row.
Logged(k) ==
    /\ Shows(k, "SENT") => log[k] > 0
    /\ \A w \in Workers : key[w] = k /\ pc[w] = "mark" => log[k] > 0

\* Every message row, written or about to be, has an accepted message.
Counted(k) ==
    /\ IsFiniteSet(Logging(k))
    /\ log[k] + Cardinality(Logging(k)) <= accepted[k]

LogInv == TypeOK /\ \A k \in Keys : Logged(k) /\ Counted(k)

\* Nothing has been sent, logged or shown at first.
LEMMA InitLogged == Init => LogInv
<1> SUFFICES ASSUME Init, NEW k \in Keys PROVE Logged(k) /\ Counted(k)
    BY InitTyped DEF LogInv
<1>1. run[k] = NONE /\ log[k] = 0 /\ accepted[k] = 0
    BY DEF Init
<1>2. \A w \in Workers : pc[w] = "idle"
    BY DEF Init
<1>3. Logging(k) = {}
    BY <1>2 DEF Logging
<1> QED BY <1>1, <1>2, <1>3, FS_EmptySet DEF Logged, Counted, Shows

\* Only a message row being written, or a status, touches what Logged says.
LEMMA StepLogged ==
    ASSUME TypeOK, [Next]_vars, NEW k \in Keys, Logged(k)
    PROVE  Logged(k)'
<1> USE RowsExist DEF TypeOK, Logged, Shows
<1>1. ASSUME NEW w \in Workers, NEW j \in Keys, FindRule(w, j) PROVE Logged(k)'
    BY <1>1 DEF FindRule, Goto, rows
<1>2. ASSUME NEW w \in Workers, NEW j \in Keys, FindRun(w, j) PROVE Logged(k)'
    BY <1>2 DEF FindRun, Goto, rows
<1>3. ASSUME NEW w \in Workers, NEW j \in Keys, EnableRule(w, j) PROVE Logged(k)'
    BY <1>3 DEF EnableRule, Goto
<1>4. ASSUME NEW w \in Workers, SkipRun(w) PROVE Logged(k)'
    BY <1>4 DEF SkipRun, Leave, Goto, Exists, Run
<1>5. ASSUME NEW w \in Workers, UpsertRun(w) PROVE Logged(k)'
    <2>1. pc[w] = "upsert" /\ log' = log /\ key[w] \in Keys
          /\ \/ pc' = [pc EXCEPT ![w] = "read"] /\ key' = key
             \/ pc' = [pc EXCEPT ![w] = "idle"] /\ key' = [key EXCEPT ![w] = NONE]
        BY <1>5 DEF UpsertRun, StartSending, Leave, Goto, rows, local
    <2>2. run'[k] = run[k] \/ run'[k].status = "PENDING"
        BY <1>5 DEF UpsertRun, Exists
    <2> QED BY <2>1, <2>2
<1>6. ASSUME NEW w \in Workers, Retry(w) PROVE Logged(k)'
    <2>1. SetStatus(w, "PENDING") /\ Goto(w, "read") /\ pc[w] = "retry"
          /\ UNCHANGED <<key, log>>
        BY <1>6 DEF Retry, local
    <2>2. key[w] # k => run'[k] = run[k]
        BY <2>1, OtherRun
    <2>3. run'[key[w]].status = "PENDING"
        BY <2>1, OwnRun DEF RunStatus
    <2> QED BY <2>1, <2>2, <2>3 DEF Goto
<1>7. ASSUME NEW w \in Workers, FindEnabledRule(w) PROVE Logged(k)'
    BY <1>7 DEF FindEnabledRule, Leave, Goto, rows
<1>8. ASSUME NEW w \in Workers, ReadRun(w) PROVE Logged(k)'
    BY <1>8 DEF ReadRun, Goto, rows, local
<1>9. ASSUME NEW w \in Workers, MarkSkipped(w) PROVE Logged(k)'
    <2>1. SetStatus(w, "SKIPPED") /\ Leave(w) /\ pc[w] = "skip" /\ log' = log
        BY <1>9 DEF MarkSkipped
    <2>2. key[w] # k => run'[k] = run[k]
        BY <2>1, OtherRun
    <2>3. run'[key[w]].status = "SKIPPED"
        BY <2>1, OwnRun DEF RunStatus
    <2> QED BY <2>1, <2>2, <2>3 DEF Leave, Goto
<1>10. ASSUME NEW w \in Workers, Send(w) PROVE Logged(k)'
    BY <1>10 DEF Send, Goto, rows, local
<1>11. ASSUME NEW w \in Workers, LogMessage(w) PROVE Logged(k)'
    BY <1>11 DEF LogMessage, Goto, local
<1>12. ASSUME NEW w \in Workers, MarkSent(w) PROVE Logged(k)'
    <2>1. SetStatus(w, "SENT") /\ Goto(w, "audit") /\ pc[w] = "mark"
          /\ UNCHANGED <<key, log>>
        BY <1>12 DEF MarkSent, local
    <2>2. key[w] # k => run'[k] = run[k]
        BY <2>1, OtherRun
    <2> QED BY <2>1, <2>2 DEF Goto
<1>13. ASSUME NEW w \in Workers, AuditSent(w) PROVE Logged(k)'
    BY <1>13 DEF AuditSent, Leave, Goto, rows
<1>14. ASSUME NEW w \in Workers, MarkFailed(w) PROVE Logged(k)'
    <2>1. SetStatus(w, "FAILED") /\ Leave(w) /\ pc[w] = "catch" /\ log' = log
        BY <1>14 DEF MarkFailed, FailureStatus
    <2>2. key[w] # k => run'[k] = run[k]
        BY <2>1, OtherRun
    <2>3. run'[key[w]].status = "FAILED"
        BY <2>1, OwnRun DEF RunStatus
    <2> QED BY <2>1, <2>2, <2>3 DEF Leave, Goto
<1>15. ASSUME NEW w \in Workers, Throw(w) PROVE Logged(k)'
    BY <1>15 DEF Throw, Goto, rows, local
<1>16. ASSUME NEW w \in Workers, Abort(w) PROVE Logged(k)'
    BY <1>16 DEF Abort, Leave, Goto, rows
<1>17. ASSUME NEW r \in Rule, EditRule(r) PROVE Logged(k)'
    BY <1>17 DEF EditRule, local
<1>18. CASE UNCHANGED vars
    BY <1>18 DEF vars, rows, local
<1> QED BY <1>1, <1>2, <1>3, <1>4, <1>5, <1>6, <1>7, <1>8, <1>9, <1>10, <1>11,
           <1>12, <1>13, <1>14, <1>15, <1>16, <1>17, <1>18 DEF Next, Begin, Continue

\* Who leaves the statement, or never was there, takes nothing from the
\* count if no row is written.
LEMMA CountWithout ==
    ASSUME TypeOK, TypeOK', NEW k \in Keys, Counted(k), NEW w \in Workers,
           Logging(k)' = Logging(k) \ {w},
           log'[k] = log[k], accepted'[k] >= accepted[k]
    PROVE  Counted(k)'
<1> DEFINE n == Cardinality(Logging(k))
           m == Cardinality(Logging(k)')
<1>1. IsFiniteSet(Logging(k)) /\ log[k] + n <= accepted[k]
    BY DEF Counted
<1>2. IsFiniteSet(Logging(k)') /\ m = IF w \in Logging(k) THEN n - 1 ELSE n
    BY <1>1, FS_RemoveElement
<1>3. n \in Nat /\ m \in Nat
    BY <1>1, <1>2, FS_CardinalityType
<1>4. log[k] \in Nat /\ accepted[k] \in Nat /\ accepted'[k] \in Nat
    BY DEF TypeOK
<1> HIDE DEF n, m
<1>5. log'[k] + m <= accepted'[k]
    BY <1>1, <1>2, <1>3, <1>4
<1> QED BY <1>2, <1>5 DEF m, Counted

\* A worker that goes elsewhere, with its key or without, is not logging.
LEMMA Elsewhere ==
    ASSUME TypeOK, NEW k \in Keys, NEW w \in Workers, NEW label \in Labels,
           Goto(w, label), label # "log",
           \A v \in Workers \ {w} : key'[v] = key[v]
    PROVE  Logging(k)' = Logging(k) \ {w}
BY DEF Goto, Logging, TypeOK

\* Each statement keeps a message behind every row.
LEMMA StepCounted ==
    ASSUME TypeOK, [Next]_vars, NEW k \in Keys, Counted(k)
    PROVE  Counted(k)'
<1> TypeOK'
    BY StepTyped
<1>1. SUFFICES ASSUME Next PROVE Counted(k)'
    BY DEF vars, rows, local, Counted, Logging
<1>2. ASSUME NEW w \in Workers, Send(w) PROVE Counted(k)'
    <2>1. pc[w] = "send" /\ log' = log /\ key' = key
          /\ accepted' = [accepted EXCEPT ![key[w]] = accepted[key[w]] + 1]
          /\ pc' = [pc EXCEPT ![w] = "log"]
        BY <1>2 DEF Send, Goto, rows, local
    <2>2. CASE key[w] # k
        <3>1. Logging(k)' = Logging(k) \ {w}
            BY <2>1, <2>2 DEF Logging, TypeOK
        <3>2. accepted'[k] = accepted[k] /\ accepted[k] \in Nat
            BY <2>1, <2>2 DEF TypeOK
        <3> QED BY <2>1, <3>1, <3>2, CountWithout
    <2>3. CASE key[w] = k
        <3>1. Logging(k)' = Logging(k) \cup {w} /\ w \notin Logging(k)
            BY <2>1, <2>3 DEF Logging, TypeOK
        <3>2. accepted'[k] = accepted[k] + 1 /\ accepted[k] \in Nat /\ log[k] \in Nat
            BY <2>1, <2>3 DEF TypeOK
        <3>3. IsFiniteSet(Logging(k)) /\ log[k] + Cardinality(Logging(k)) <= accepted[k]
            BY DEF Counted
        <3>4. /\ IsFiniteSet(Logging(k)')
              /\ Cardinality(Logging(k)') = Cardinality(Logging(k)) + 1
              /\ Cardinality(Logging(k)) \in Nat
            BY <3>1, <3>3, FS_AddElement, FS_CardinalityType
        <3> DEFINE n == Cardinality(Logging(k))
                   m == Cardinality(Logging(k)')
        <3>5. m = n + 1 /\ n \in Nat /\ log[k] + n <= accepted[k]
            BY <3>3, <3>4
        <3> HIDE DEF n, m
        <3>6. log'[k] + m <= accepted'[k]
            BY <2>1, <3>2, <3>5
        <3> QED BY <3>4, <3>6 DEF m, Counted
    <2> QED BY <2>2, <2>3
<1>3. ASSUME NEW w \in Workers, LogMessage(w) PROVE Counted(k)'
    <2>1. pc[w] = "log" /\ accepted' = accepted /\ key' = key
          /\ log' = [log EXCEPT ![key[w]] = log[key[w]] + 1] /\ Goto(w, "mark")
        BY <1>3 DEF LogMessage, local
    <2>2. Logging(k)' = Logging(k) \ {w}
        BY <2>1, Elsewhere DEF Labels
    <2>3. CASE key[w] # k
        <3>1. log'[k] = log[k] /\ accepted[k] \in Nat
            BY <2>1, <2>3 DEF TypeOK
        <3> QED BY <2>1, <2>2, <3>1, CountWithout
    <2>4. CASE key[w] = k
        <3>1. w \in Logging(k)
            BY <2>1, <2>4 DEF Logging
        <3>2. log'[k] = log[k] + 1 /\ accepted[k] \in Nat /\ log[k] \in Nat
            BY <2>1, <2>4 DEF TypeOK
        <3>3. IsFiniteSet(Logging(k)) /\ log[k] + Cardinality(Logging(k)) <= accepted[k]
            BY DEF Counted
        <3>4. /\ IsFiniteSet(Logging(k)')
              /\ Cardinality(Logging(k)') = Cardinality(Logging(k)) - 1
              /\ Cardinality(Logging(k)) \in Nat
            BY <2>2, <3>1, <3>3, FS_RemoveElement, FS_CardinalityType
        <3> DEFINE n == Cardinality(Logging(k))
                   m == Cardinality(Logging(k)')
        <3>5. m = n - 1 /\ n \in Nat /\ log[k] + n <= accepted[k]
            BY <3>3, <3>4
        <3> HIDE DEF n, m
        <3>6. log'[k] + m <= accepted'[k]
            BY <2>1, <3>2, <3>5
        <3> QED BY <3>4, <3>6 DEF m, Counted
    <2> QED BY <2>3, <2>4
<1>4. ASSUME NEW w \in Workers, NEW label \in Labels \ {"log"}, Goto(w, label),
             \A v \in Workers \ {w} : key'[v] = key[v],
             log' = log, accepted'[k] >= accepted[k]
      PROVE  Counted(k)'
    BY <1>4, Elsewhere, CountWithout
<1>5. accepted[k] \in Nat
    BY DEF TypeOK
<1>6. ASSUME NEW w \in Workers, Begin(w) PROVE Counted(k)'
    <2> PICK label \in Labels \ {"log"} : Goto(w, label)
        BY <1>6 DEF Begin, FindRule, FindRun, EnableRule
    <2>1. log' = log /\ accepted' = accepted /\ \A v \in Workers \ {w} : key'[v] = key[v]
        BY <1>6 DEF Begin, FindRule, FindRun, EnableRule, rows, TypeOK
    <2> QED BY <1>4, <1>5, <2>1
<1>7. ASSUME NEW w \in Workers, Continue(w), ~Send(w), ~LogMessage(w) PROVE Counted(k)'
    <2> PICK label \in Labels \ {"log"} : Goto(w, label)
        BY <1>7 DEF Continue, SkipRun, UpsertRun, StartSending, Leave, Retry,
                    FindEnabledRule, ReadRun, MarkSkipped, MarkSent, AuditSent, MarkFailed
    <2>1. log' = log /\ accepted' = accepted /\ \A v \in Workers \ {w} : key'[v] = key[v]
        BY <1>7 DEF Continue, SkipRun, UpsertRun, Leave, Retry, FindEnabledRule,
                    ReadRun, MarkSkipped, MarkSent, AuditSent, MarkFailed, rows, local, TypeOK
    <2> QED BY <1>4, <1>5, <2>1
<1>8. ASSUME NEW w \in Workers, Throw(w) PROVE Counted(k)'
    <2>1. Goto(w, "catch") /\ log' = log /\ key' = key
        BY <1>8 DEF Throw, rows, local
    <2>2. accepted'[k] >= accepted[k]
        BY <1>5, <1>8 DEF Throw, TypeOK
    <2> QED BY <1>4, <2>1, <2>2 DEF Labels
<1>9. ASSUME NEW w \in Workers, Abort(w) PROVE Counted(k)'
    <2>1. Goto(w, "idle") /\ log' = log /\ accepted' = accepted
          /\ \A v \in Workers \ {w} : key'[v] = key[v]
        BY <1>9 DEF Abort, Leave, rows, TypeOK
    <2> QED BY <1>4, <1>5, <2>1 DEF Labels
<1>10. ASSUME NEW r \in Rule, EditRule(r) PROVE Counted(k)'
    BY <1>10 DEF EditRule, local, Counted, Logging
<1> QED BY <1>1, <1>2, <1>3, <1>6, <1>7, <1>8, <1>9, <1>10 DEF Next

\* However calls on one run overlap and wherever they fail: a run that shows
\* SENT has a message row, and no message row lacks an accepted message.
THEOREM SentRunsAreLogged == Spec => []SentIsLogged
<1>1. LogInv => SentIsLogged
    <2> SUFFICES ASSUME LogInv, NEW k \in Keys
                 PROVE  (Shows(k, "SENT") => log[k] > 0) /\ log[k] <= accepted[k]
        BY DEF SentIsLogged
    <2> DEFINE n == Cardinality(Logging(k))
    <2>1. n \in Nat /\ log[k] + n <= accepted[k]
        BY FS_CardinalityType DEF LogInv, Counted
    <2>2. log[k] \in Nat /\ accepted[k] \in Nat
        BY DEF LogInv, TypeOK
    <2> HIDE DEF n
    <2>3. log[k] <= accepted[k]
        BY <2>1, <2>2
    <2> QED BY <2>3 DEF LogInv, Logged
<1>2. LogInv /\ [Next]_vars => LogInv'
    <2> SUFFICES ASSUME LogInv, [Next]_vars, NEW k \in Keys
                 PROVE  Logged(k)' /\ Counted(k)'
        BY StepTyped DEF LogInv
    <2> QED BY StepLogged, StepCounted DEF LogInv
<1> QED BY InitLogged, <1>1, <1>2, PTL DEF Spec
=============================================================================
