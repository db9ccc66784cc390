---------------------------- MODULE Notifications ----------------------------
(***************************************************************************)
(* E-mail (apps/api/src/notifications): notify() writes a log row per       *)
(* recipient of an event and enqueues its job; the send job hands the mail  *)
(* to SES and then writes SENT; SES reports bounces and complaints later,   *)
(* possibly twice and in any order; a sweep re-adds what was never          *)
(* enqueued; HR retries failed rows.                                        *)
(***************************************************************************)
EXTENDS Jobs

CONSTANTS
    Events,     \* dedupe keys
    Users,
    Actor,      \* the user who causes the events
    MaxSends    \* bounds the mails SES accepts for one row

Rows == Events \X Users   \* unique (dedupe key, recipient)

ASSUME MailAssumption == Rows \subseteq JobIds /\ MaxSends \in Nat

VARIABLES
    log,          \* notification_log: [status, msg], or status "none"
    active,       \* users that are active and have an address
    suppressed,   \* email_suppressions
    accepted,     \* mails SES accepted for each row; the n-th has message id n
    bounced,      \* the bounces handled: <<row, message id>>
    asked,        \* mails asked for: the first, and one per retry written
    unrecorded    \* mails accepted whose SENT was not written

mailVars == <<log, active, suppressed, accepted, bounced, asked, unrecorded>>

MailInit ==
    /\ log = [r \in Rows |-> [status |-> "none", msg |-> 0]]
    /\ active = Users /\ suppressed = {} /\ bounced = {}
    /\ accepted = [r \in Rows |-> 0]
    /\ asked = [r \in Rows |-> 0] /\ unrecorded = [r \in Rows |-> 0]

(* notify(): the active recipients but the actor get a row unless they have *)
(* one (createMany, skipDuplicates), and the queued ones a job.  The caller *)
(* may be lost, or Redis down, in between: notify() throws nothing.         *)
resolve(to) == {u \in to : u \in active /\ u # Actor}
notify(h, e, to) ==
    LET new == {r \in {e} \X resolve(to) : log[r].status = "none"} IN
    /\ h \in Clients /\ resolve(to) # {}
    /\ log' = [r \in Rows |-> IF r \in new THEN [status |-> "QUEUED", msg |-> 0] ELSE log[r]]
    /\ asked' = [r \in Rows |-> IF r \in new THEN 1 ELSE asked[r]]
    /\ Begin(h, [pc |-> "enqueueRows", e |-> e, to |-> resolve(to)])
    /\ UNCHANGED <<active, suppressed, accepted, bounced, unrecorded, jobVars>>

EnqueueRows(h) ==
    LET rows == {r \in {calls[h].e} \X calls[h].to : log[r].status = "QUEUED"} IN
    /\ calls[h].pc = "enqueueRows"
    /\ jobs' = WithJobs(rows) /\ UNCHANGED faults
    /\ Finish(h) /\ UNCHANGED mailVars

(* send(): nothing for a row that is not queued; the suppression list is    *)
(* read, SES is called, SENT is written.                                    *)
(* Mutant of Sendable: any row. *)
SendableAlways(r) == TRUE

Sendable(r) == log[r].status = "QUEUED"

send(w, r) ==
    /\ Take(w, r, IF ~Sendable(r) THEN "jobDone" ELSE "checkSuppressed")
    /\ UNCHANGED <<mailVars, jobVars>>

(* The row is gone or settled. *)
JobDone(w) ==
    /\ calls[w].pc = "jobDone"
    /\ jobs' = Completed(calls[w].job) /\ UNCHANGED faults
    /\ Finish(w) /\ UNCHANGED mailVars

(* SesEmailSender.send(): a suppressed address fails the row without a      *)
(* retry.                                                                   *)
Suppressed(u) == u \in suppressed

CheckSuppressed(w) ==
    /\ calls[w].pc = "checkSuppressed"
    /\ Continue(w, [calls[w] EXCEPT !.pc = IF Suppressed(calls[w].job[2]) THEN "failSuppressed" ELSE "callSes"])
    /\ UNCHANGED <<mailVars, jobVars>>

CallSes(w) ==
    LET r == calls[w].job IN
    /\ calls[w].pc = "callSes" /\ accepted[r] < MaxSends
    /\ accepted' = [accepted EXCEPT ![r] = @ + 1]
    /\ Continue(w, [calls[w] EXCEPT !.pc = "writeSent"])
    /\ UNCHANGED <<log, active, suppressed, bounced, asked, unrecorded, jobVars>>

WriteSent(w) ==
    LET r == calls[w].job IN
    /\ calls[w].pc = "writeSent"
    /\ log' = [log EXCEPT ![r] = [status |-> "SENT", msg |-> accepted[r]]]
    /\ jobs' = Completed(r) /\ UNCHANGED faults
    /\ Finish(w)
    /\ UNCHANGED <<active, suppressed, accepted, bounced, asked, unrecorded>>

(* SES refuses the call, or the row cannot be written: the catch block.     *)
SendFails(w) ==
    LET r == calls[w].job IN
    /\ calls[w].pc \in {"callSes", "writeSent"} /\ Fault
    /\ Continue(w, [calls[w] EXCEPT !.pc = "recordFailure"])
    /\ unrecorded' = [unrecorded EXCEPT ![r] = IF calls[w].pc = "writeSent" THEN @ + 1 ELSE @]
    /\ UNCHANGED <<log, active, suppressed, accepted, bounced, asked, jobs>>

(* FAILED on the last attempt or for a suppressed address; the latter does  *)
(* not throw.                                                               *)
FinalStatus(r, refused) == IF refused \/ LastAttempt(r) THEN "FAILED" ELSE log[r].status

RecordFailure(w) ==
    LET r == calls[w].job
        refused == calls[w].pc = "failSuppressed" IN
    /\ calls[w].pc \in {"failSuppressed", "recordFailure"}
    /\ log' = [log EXCEPT ![r].status = FinalStatus(r, refused)]
    /\ jobs' = IF refused THEN Completed(r) ELSE Threw(r)
    /\ Finish(w)
    /\ UNCHANGED <<active, suppressed, accepted, bounced, asked, unrecorded, faults>>

(* sweep(): every queued row (an age is not modelled) gets a job; the rows  *)
(* are read first.                                                          *)
sweep(rows) ==
    /\ jobs' = WithJobs(rows)
    /\ UNCHANGED <<mailVars, callVars, faults>>
(* Mutant of StaleQueued: what failed is taken up. *)
StaleQueuedFailed == {r \in Rows : log[r].status = "FAILED" /\ jobs[r] = NoJob}

StaleQueued == {r \in Rows : log[r].status = "QUEUED" /\ jobs[r] = NoJob}
Sweep == StaleQueued # {} /\ sweep(StaleQueued)

(* A sweep whose rows were read before the mail went out. *)
BeginSweep(h) ==
    /\ h \in Clients /\ \E r \in Rows : log[r].status = "QUEUED"
    /\ Begin(h, [pc |-> "sweepRows", rows |-> {r \in Rows : log[r].status = "QUEUED"}])
    /\ UNCHANGED <<mailVars, jobVars>>
SweepRows(h) ==
    /\ calls[h].pc = "sweepRows"
    /\ jobs' = WithJobs(calls[h].rows) /\ UNCHANGED faults
    /\ Finish(h) /\ UNCHANGED mailVars

(* retry(): a row read FAILED is queued again, and enqueued. *)
Retriable(r) == log[r].status = "FAILED"

retry(h, r) ==
    /\ h \in Clients /\ Retriable(r)
    /\ Begin(h, [pc |-> "requeue", r |-> r])
    /\ UNCHANGED <<mailVars, jobVars>>
Requeue(h) ==
    LET r == calls[h].r IN
    /\ calls[h].pc = "requeue"
    /\ log' = [log EXCEPT ![r].status = "QUEUED"]
    /\ asked' = [asked EXCEPT ![r] = @ + 1]
    /\ Continue(h, [calls[h] EXCEPT !.pc = "enqueueRetry"])
    /\ UNCHANGED <<active, suppressed, accepted, bounced, unrecorded, jobVars>>
EnqueueRetry(h) ==
    /\ calls[h].pc = "enqueueRetry"
    /\ jobs' = WithJobs({calls[h].r}) /\ UNCHANGED faults
    /\ Finish(h) /\ UNCHANGED mailVars

(* handleSesEvent(): a permanent bounce suppresses the address, any bounce  *)
(* fails the row whose message id it names; SNS may deliver it again.       *)
Bounces(r, n) == log[r].msg = n

bounce(h, r, n, permanent) ==
    /\ h \in Clients /\ n \in 1..accepted[r]
    /\ suppressed' = IF permanent THEN suppressed \cup {r[2]} ELSE suppressed
    /\ Begin(h, [pc |-> "failRow", r |-> r, n |-> n])
    /\ UNCHANGED <<log, active, accepted, bounced, asked, unrecorded, jobVars>>
FailRow(h) ==
    LET c == calls[h] IN
    /\ c.pc = "failRow"
    /\ log' = [log EXCEPT ![c.r].status = IF Bounces(c.r, c.n) THEN "FAILED" ELSE @]
    /\ bounced' = bounced \cup {<<c.r, c.n>>}
    /\ Finish(h)
    /\ UNCHANGED <<active, suppressed, accepted, asked, unrecorded, jobVars>>

(* A complaint suppresses only; lift() removes an address. *)
complaint(r) ==
    /\ AtOnce /\ accepted[r] > 0
    /\ suppressed' = suppressed \cup {r[2]}
    /\ UNCHANGED <<log, active, accepted, bounced, asked, unrecorded, jobVars>>
lift(u) ==
    /\ AtOnce /\ u \in suppressed
    /\ suppressed' = suppressed \ {u}
    /\ UNCHANGED <<log, active, accepted, bounced, asked, unrecorded, jobVars>>

(* A user is deactivated, or active again. *)
ToggleUser(u) ==
    /\ AtOnce /\ u # Actor
    /\ active' = IF u \in active THEN active \ {u} ELSE active \cup {u}
    /\ UNCHANGED <<log, suppressed, accepted, bounced, asked, unrecorded, jobVars>>

(* A process is lost; a worker's job stays. *)
MailLose(h) ==
    /\ Fault /\ Lose(h)
    /\ unrecorded' = IF calls[h].pc = "writeSent" THEN [unrecorded EXCEPT ![calls[h].job] = @ + 1] ELSE unrecorded
    /\ UNCHANGED <<log, active, suppressed, accepted, bounced, asked, jobs>>

GoOn(w) == JobDone(w) \/ CheckSuppressed(w) \/ CallSes(w) \/ WriteSent(w) \/ RecordFailure(w)
Client(h) ==
    \/ \E e \in Events, to \in SUBSET Users : notify(h, e, to)
    \/ \E r \in Rows : retry(h, r) \/ \E n \in 1..MaxSends, p \in BOOLEAN : bounce(h, r, n, p)
    \/ EnqueueRows(h) \/ BeginSweep(h) \/ SweepRows(h) \/ Requeue(h) \/ EnqueueRetry(h) \/ FailRow(h)
MailNext ==
    \/ \E w \in Workers : (\E r \in Rows : send(w, r)) \/ GoOn(w) \/ SendFails(w)
    \/ \E h \in Clients : Client(h)
    \/ \E h \in Handlers : MailLose(h)
    \/ Sweep
    \/ \E r \in Rows : complaint(r)
    \/ \E u \in Users : lift(u) \/ ToggleUser(u)

(* The queue is first in, first out, so a job that waits is taken; workers   *)
(* go on with theirs; the sweep is scheduled every ten minutes.              *)
MailFairness ==
    /\ \A r \in Rows : SF_<<mailVars, callVars, jobVars>>(\E w \in Workers : send(w, r))
    /\ WF_<<mailVars, callVars, jobVars>>(\E w \in Workers : GoOn(w))
    /\ WF_<<mailVars, callVars, jobVars>>(Sweep)
=============================================================================
