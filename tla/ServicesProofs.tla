---------------------------- MODULE ServicesProofs ----------------------------
(***************************************************************************)
(* Proofs about e-mail, documents, settlements and payroll settings.        *)
(***************************************************************************)
EXTENDS ServicesProperties, FiniteSetTheorems, TLAPS

(* The calls of a calm behaviour never overlap. *)
AtMostOne == calm => \A h, g \in Handlers : calls[h] # Idle /\ calls[g] # Idle => h = g

LEMMA BegunAlone ==
  ASSUME NEW h \in Handlers, NEW d, Begin(h, d)
  PROVE  /\ calls' = [calls EXCEPT ![h] = d]
         /\ calm' => calm /\ \A g \in Handlers : calls[g] = Idle
         /\ calm' = (calm /\ Quiet) /\ calls[h] = Idle
BY DEF Begin, Counted, Quiet, Running

LEMMA GoneOnAlone ==
  ASSUME AtMostOne, NEW h \in Handlers, NEW d, Continue(h, d), calls[h] # Idle
  PROVE  /\ calls' = [calls EXCEPT ![h] = d] /\ calm' = calm
         /\ calm' => \A g \in Handlers \ {h} : calls[g] = Idle
BY DEF AtMostOne, Continue

LEMMA TakenAlone ==
  ASSUME NEW w \in Handlers, NEW j, NEW pc, Take(w, j, pc)
  PROVE  /\ calls' = [calls EXCEPT ![w] = [job |-> j, pc |-> pc]] /\ calls[w] = Idle
         /\ calm' = (calm /\ Quiet) /\ (calm' => calm /\ \A g \in Handlers : calls[g] = Idle)
         /\ jobs[j] # NoJob /\ \A v \in Workers : calls[v] # Idle => calls[v].job # j
BY DEF Take, Taken, Quiet, Running

(* A worker is Idle or has a job; a client has no worker's step.            *)
LEMMA WhoIsWho == \A h \in Handlers : h \in Workers \/ h \in Clients
BY DEF Clients

-----------------------------------------------------------------------------
(* E-mail. *)
MailSpec == CallsInit /\ JobsInit /\ MailInit /\ [][MailNext]_<<callVars, jobVars, mailVars>>

Begun(r) == log[r].status # "none"
MailTypes ==
    /\ log \in [Rows -> [status : {"none", "QUEUED", "SENT", "FAILED"}, msg : Nat]]
    /\ accepted \in [Rows -> Nat] /\ asked \in [Rows -> Nat] /\ unrecorded \in [Rows -> Nat]
    /\ jobs = [j \in JobIds |-> jobs[j]] /\ bounced \subseteq Rows \X Nat

MailPcs == {"jobDone", "checkSuppressed", "failSuppressed", "callSes", "writeSent", "recordFailure"}
MailCall(h, c) ==
    /\ h \in Workers /\ c # Idle => c = [job |-> c.job, pc |-> c.pc] /\ c.job \in Rows /\ c.pc \in MailPcs
    /\ h \in Clients => c.pc \in {"idle", "enqueueRows", "sweepRows", "requeue", "enqueueRetry", "failRow"}
    /\ c.pc \in {"requeue", "enqueueRetry", "failRow"} => c.r \in Rows
    /\ c.pc = "sweepRows" => c.rows \subseteq Rows
    /\ c.pc = "requeue" => c = [pc |-> c.pc, r |-> c.r]
    /\ c.pc = "failRow" => c.n \in Nat
MailRows(h, c) ==
    /\ h \in Workers /\ c # Idle => Begun(c.job)
    /\ c.pc \in {"requeue", "enqueueRetry", "failRow"} => Begun(c.r)
    /\ c.pc = "sweepRows" => \A r \in c.rows : Begun(r)
    /\ c.pc = "failRow" => c.n <= accepted[c.r]

(* One worker at most has a row's job; it is about to send the mail, or has *)
(* sent it and is about to say so.                                          *)
OneEach == \A v, w \in Workers : v # w /\ calls[v] # Idle /\ calls[w] # Idle => calls[v].job # calls[w].job
Has(w, r, pcs) == calls[w] # Idle /\ calls[w].job = r /\ calls[w].pc \in pcs
Sending(r) == \E w \in Workers : Has(w, r, {"checkSuppressed", "callSes"})
Recording(r) == \E w \in Workers : Has(w, r, {"writeSent"})

(* A mail that will be sent has been asked for once more than SES accepted. *)
SendsOK(r) ==
    /\ accepted[r] <= asked[r] + unrecorded[r]
    /\ Sending(r) \/ (log[r].status = "QUEUED" /\ ~Recording(r)) => accepted[r] < asked[r] + unrecorded[r]
    /\ ~Begun(r) => accepted[r] = 0
CalmMail ==
    /\ \A w \in Workers : calls[w].pc = "callSes" => calls[w].job[2] \notin suppressed
    /\ \A w \in Workers : calls[w].pc = "writeSent" => <<calls[w].job, accepted[calls[w].job]>> \notin bounced
    /\ \A r \in Rows : log[r].status = "SENT" => <<r, log[r].msg>> \notin bounced

MailInv ==
    /\ calls = [h \in Handlers |-> calls[h]] /\ calm \in BOOLEAN /\ AtMostOne
    /\ MailTypes /\ OneEach
    /\ \A b \in bounced : b[2] <= accepted[b[1]]
    /\ \A r \in Rows : jobs[r] # NoJob => Begun(r)
    /\ \A r \in Rows : SendsOK(r)
    /\ \A h \in Handlers : MailCall(h, calls[h]) /\ MailRows(h, calls[h])
    /\ calm => CalmMail

LEMMA MailStarts == ASSUME CallsInit, JobsInit, MailInit PROVE MailInv
<1>1. /\ calls = [h \in Handlers |-> calls[h]] /\ calm = TRUE /\ \A h \in Handlers : calls[h] = Idle
  BY DEF CallsInit
<1>2. MailTypes /\ bounced = {}
  BY DEF MailInit, JobsInit, MailTypes
<1>3. \A w \in Workers : calls[w] = Idle
  BY <1>1, JobsAssumption
<1>4. \A r \in Rows : ~Begun(r) /\ SendsOK(r) /\ log[r].status = "none" /\ jobs[r] = NoJob
  BY <1>3, MailAssumption DEF MailInit, JobsInit, Begun, SendsOK, Sending, Has
<1>5. OneEach
  BY <1>3 DEF OneEach
<1>6. CalmMail
  BY <1>2, <1>3 DEF CalmMail, Idle
<1>7. \A h \in Handlers : MailCall(h, calls[h]) /\ MailRows(h, calls[h])
  BY <1>1 DEF MailCall, MailRows, Idle
<1> QED BY <1>1, <1>2, <1>4, <1>5, <1>6, <1>7 DEF MailInv, AtMostOne

(* One call moves on, the rows only grow. *)
MailGrows == \A r \in Rows : (Begun(r) => Begun(r)') /\ accepted[r] <= accepted'[r]
LEMMA MailMoves ==
  ASSUME MailInv, NEW h \in Handlers, NEW d, calls' = [calls EXCEPT ![h] = d],
         MailGrows, MailTypes', MailCall(h, d), MailRows(h, d)',
         calm' \in BOOLEAN, calm' => calm, calm' /\ d # Idle => \A g \in Handlers \ {h} : calls[g] = Idle
  PROVE  /\ calls' = [g \in Handlers |-> calls'[g]] /\ AtMostOne'
         /\ \A g \in Handlers : calls'[g] = IF g = h THEN d ELSE calls[g]
         /\ \A g \in Handlers : MailCall(g, calls[g])' /\ MailRows(g, calls[g])'
<1>1. calls' = [g \in Handlers |-> calls'[g]] /\ \A g \in Handlers : calls'[g] = IF g = h THEN d ELSE calls[g]
  BY DEF MailInv
<1>2. AtMostOne'
  BY <1>1 DEF MailInv, AtMostOne
<1>3. ASSUME NEW g \in Handlers PROVE MailCall(g, calls[g])' /\ MailRows(g, calls[g])'
  <2>1. CASE g = h
    <3>1. calls'[g] = d
      BY <1>1, <2>1
    <3> QED BY <2>1, <3>1 DEF MailCall, MailRows
  <2>2. CASE g # h
    <3>1. PICK c : c = calls[g]
      OBVIOUS
    <3>2. calls'[g] = c /\ MailCall(g, c) /\ MailRows(g, c)
      BY <1>1, <2>2, <3>1 DEF MailInv
    <3>3. MailCall(g, c)'
      BY <3>2 DEF MailCall
    <3>4. \A r \in Rows : Begun(r) => Begun(r)'
      BY DEF MailGrows
    <3>5. c.pc = "failRow" => c.n <= accepted'[c.r]
      BY <3>2 DEF MailCall, MailRows, MailGrows, MailInv, MailTypes
    <3>6. MailRows(g, c)'
      BY <3>2, <3>4, <3>5 DEF MailCall, MailRows
    <3> QED BY <3>2, <3>3, <3>6
  <2> QED BY <2>1, <2>2
<1> QED BY <1>1, <1>2, <1>3

(* What a worker's step changes in who sends and who records. *)
LEMMA WorkerMoves ==
  ASSUME OneEach, NEW h \in Workers, NEW d, NEW r,
         \A g \in Workers : calls'[g] = IF g = h THEN d ELSE calls[g],
         d # Idle => d.job = r,
         calls[h] # Idle => calls[h].job = r,
         calls[h] = Idle => \A v \in Workers : calls[v] # Idle => calls[v].job # r
  PROVE  /\ OneEach'
         /\ \A q \in Rows \ {r} : (Sending(q)' <=> Sending(q)) /\ (Recording(q)' <=> Recording(q))
         /\ Sending(r)' <=> d # Idle /\ d.pc \in {"checkSuppressed", "callSes"}
         /\ Recording(r)' <=> d # Idle /\ d.pc = "writeSent"
         /\ calls[h] # Idle => /\ Sending(r) <=> calls[h].pc \in {"checkSuppressed", "callSes"}
                               /\ Recording(r) <=> calls[h].pc = "writeSent"
         /\ calls[h] = Idle => ~Sending(r) /\ ~Recording(r)
<1>1. \A v \in Workers \ {h} : calls[v] # Idle => calls[v].job # r
  BY DEF OneEach
<1>2. OneEach'
  BY <1>1 DEF OneEach
<1>3. ASSUME NEW pcs PROVE  /\ \A q \in Rows \ {r} : (\E w \in Workers : Has(w, q, pcs)') <=> \E w \in Workers : Has(w, q, pcs)
                            /\ (\E w \in Workers : Has(w, r, pcs)') <=> d # Idle /\ d.pc \in pcs
                            /\ calls[h] # Idle => ((\E w \in Workers : Has(w, r, pcs)) <=> calls[h].pc \in pcs)
                            /\ calls[h] = Idle => ~\E w \in Workers : Has(w, r, pcs)
  <2>1. \A w \in Workers \ {h} : calls'[w] = calls[w]
    OBVIOUS
  <2>2. calls'[h] = d
    OBVIOUS
  <2>3. ASSUME NEW q \in Rows \ {r}
        PROVE  (\E w \in Workers : Has(w, q, pcs)') <=> \E w \in Workers : Has(w, q, pcs)
    <3>1. ~Has(h, q, pcs) /\ ~Has(h, q, pcs)'
      BY <2>2 DEF Has
    <3>2. \A w \in Workers \ {h} : Has(w, q, pcs)' <=> Has(w, q, pcs)
      BY <2>1 DEF Has
    <3> QED BY <3>1, <3>2
  <2>4. \A w \in Workers \ {h} : ~Has(w, r, pcs) /\ ~Has(w, r, pcs)'
    BY <1>1, <2>1 DEF Has
  <2>5. (Has(h, r, pcs)' <=> d # Idle /\ d.pc \in pcs) /\ (calls[h] = Idle => ~Has(h, r, pcs))
        /\ (calls[h] # Idle => (Has(h, r, pcs) <=> calls[h].pc \in pcs))
    BY <2>2 DEF Has
  <2>6. (\E w \in Workers : Has(w, r, pcs)') <=> Has(h, r, pcs)'
    BY <2>4
  <2>7. (\E w \in Workers : Has(w, r, pcs)) <=> Has(h, r, pcs)
    BY <2>4
  <2> QED BY <2>3, <2>5, <2>6, <2>7
<1>4. /\ \A q \in Rows \ {r} : Sending(q)' <=> Sending(q)
      /\ Sending(r)' <=> d # Idle /\ d.pc \in {"checkSuppressed", "callSes"}
      /\ calls[h] # Idle => (Sending(r) <=> calls[h].pc \in {"checkSuppressed", "callSes"})
      /\ calls[h] = Idle => ~Sending(r)
  BY <1>3 DEF Sending
<1>5. /\ \A q \in Rows \ {r} : Recording(q)' <=> Recording(q)
      /\ Recording(r)' <=> d # Idle /\ d.pc \in {"writeSent"}
      /\ calls[h] # Idle => (Recording(r) <=> calls[h].pc \in {"writeSent"})
      /\ calls[h] = Idle => ~Recording(r)
  BY <1>3 DEF Recording
<1> QED BY <1>2, <1>4, <1>5

LEMMA ClientMoves ==
  ASSUME MailInv, NEW h \in Handlers, h \notin Workers, NEW d, calls' = [calls EXCEPT ![h] = d]
  PROVE  OneEach' /\ \A r \in Rows : (Sending(r)' <=> Sending(r)) /\ (Recording(r)' <=> Recording(r))
<1>1. \A w \in Workers : calls'[w] = calls[w]
  OBVIOUS
<1>2. OneEach'
  BY <1>1 DEF OneEach, MailInv
<1> QED BY <1>1, <1>2 DEF Sending, Recording, Has

(* A step that only moves a call on, or a job. *)
LEMMA MailTablesStay ==
  ASSUME MailInv, NEW h \in Handlers, NEW d, calls' = [calls EXCEPT ![h] = d],
         UNCHANGED <<log, suppressed, accepted, bounced, asked, unrecorded>>,
         jobs' = [j \in JobIds |-> jobs'[j]], \A r \in Rows : jobs'[r] # NoJob => Begun(r),
         MailCall(h, d), MailRows(h, d),
         calm' \in BOOLEAN, calm' => calm, calm' /\ d # Idle => \A g \in Handlers \ {h} : calls[g] = Idle,
         d.pc # "writeSent", calls[h].pc # "writeSent",
         h \in Workers /\ d # Idle =>
           /\ d.pc \in {"checkSuppressed", "callSes"} => accepted[d.job] < asked[d.job] + unrecorded[d.job]
           /\ calls[h] # Idle => d.job = calls[h].job
           /\ calls[h] = Idle => \A v \in Workers : calls[v] # Idle => calls[v].job # d.job,
         h \in Workers /\ d = Idle => calls[h] # Idle,
         calm' /\ d.pc = "callSes" => d.job[2] \notin suppressed
  PROVE  MailInv'
<1>1. MailGrows /\ MailTypes' /\ MailRows(h, d)'
  BY DEF MailInv, MailTypes, MailGrows, MailRows, Begun
<1>2. /\ calls' = [g \in Handlers |-> calls'[g]] /\ AtMostOne'
      /\ \A g \in Handlers : calls'[g] = IF g = h THEN d ELSE calls[g]
      /\ \A g \in Handlers : MailCall(g, calls[g])' /\ MailRows(g, calls[g])'
  BY <1>1, MailMoves
<1>3. OneEach' /\ \A r \in Rows : SendsOK(r)'
  <2>1. CASE h \notin Workers
    <3>1. OneEach' /\ \A r \in Rows : (Sending(r)' <=> Sending(r)) /\ (Recording(r)' <=> Recording(r))
      BY <2>1, ClientMoves
    <3> QED BY <3>1 DEF MailInv, SendsOK, Begun
  <2>2. CASE h \in Workers
    <3>1. PICK r : r = IF d # Idle THEN d.job ELSE calls[h].job
      OBVIOUS
    <3>2. /\ d # Idle => d.job = r
          /\ calls[h] # Idle => calls[h].job = r
          /\ calls[h] = Idle => \A v \in Workers : calls[v] # Idle => calls[v].job # r
      BY <2>2, <3>1
    <3>3. r \in Rows
      BY <2>2, <3>2 DEF MailCall, MailInv
    <3>4. \A g \in Workers : calls'[g] = IF g = h THEN d ELSE calls[g]
      BY <1>2, JobsAssumption
    <3>5. /\ OneEach'
          /\ \A q \in Rows \ {r} : (Sending(q)' <=> Sending(q)) /\ (Recording(q)' <=> Recording(q))
          /\ Sending(r)' <=> d # Idle /\ d.pc \in {"checkSuppressed", "callSes"}
          /\ calls[h] # Idle => (Recording(r) <=> calls[h].pc = "writeSent")
          /\ calls[h] = Idle => ~Recording(r)
      <4>1. OneEach
        BY DEF MailInv
      <4> QED BY ONLY <2>2, <3>2, <3>4, <4>1, WorkerMoves
    <3>6. Sending(r)' => accepted[r] < asked[r] + unrecorded[r]
      BY <2>2, <3>2, <3>5
    <3>7. SendsOK(r)'
      BY <3>3, <3>5, <3>6 DEF MailInv, SendsOK, Begun
    <3>8. \A q \in Rows \ {r} : SendsOK(q)'
      BY <3>5 DEF MailInv, SendsOK, Begun
    <3> QED BY <3>5, <3>7, <3>8
  <2> QED BY <2>1, <2>2
<1>4. (\A b \in bounced' : b[2] <= accepted'[b[1]]) /\ \A r \in Rows : jobs'[r] # NoJob => Begun(r)'
  BY DEF MailInv, Begun
<1>5. ASSUME calm' PROVE CalmMail'
  <2>1. CalmMail
    BY <1>5 DEF MailInv
  <2>2. ASSUME NEW w \in Workers
        PROVE  /\ calls'[w].pc = "callSes" => calls'[w].job[2] \notin suppressed
               /\ calls'[w].pc = "writeSent" => <<calls'[w].job, accepted[calls'[w].job]>> \notin bounced
    <3>1. calls'[w] = IF w = h THEN d ELSE calls[w]
      BY <1>2, JobsAssumption
    <3>2. CASE w = h
      BY <3>1, <3>2, <1>5
    <3>3. CASE w # h
      <4>1. PICK c : c = calls[w]
        OBVIOUS
      <4>2. calls'[w] = c
        BY <3>1, <3>3, <4>1
      <4>3. /\ c.pc = "callSes" => c.job[2] \notin suppressed
            /\ c.pc = "writeSent" => <<c.job, accepted[c.job]>> \notin bounced
        BY <2>1, <4>1 DEF CalmMail
      <4> QED BY <4>2, <4>3
    <3> QED BY <3>2, <3>3
  <2>3. UNCHANGED <<log, suppressed, accepted, bounced>>
    OBVIOUS
  <2>4. \A r \in Rows : log'[r].status = "SENT" => <<r, log'[r].msg>> \notin bounced'
    BY ONLY <2>1, <2>3 DEF CalmMail
  <2>5. \A w \in Workers : calls'[w].pc = "callSes" => calls'[w].job[2] \notin suppressed'
    BY ONLY <2>2, <2>3
  <2>6. \A w \in Workers : calls'[w].pc = "writeSent" => <<calls'[w].job, accepted'[calls'[w].job]>> \notin bounced'
    BY ONLY <2>2, <2>3
  <2> QED BY ONLY <2>4, <2>5, <2>6 DEF CalmMail
<1>6. calm' \in BOOLEAN /\ MailTypes' /\ (calm' => CalmMail')
  BY <1>1, <1>5
<1> QED BY ONLY <1>2, <1>3, <1>4, <1>6 DEF MailInv

LEMMA AddedJobs ==
  ASSUME MailInv, NEW s, jobs' = WithJobs(s), \A r \in Rows : r \in s => Begun(r)
  PROVE  jobs' = [j \in JobIds |-> jobs'[j]] /\ \A r \in Rows : jobs'[r] # NoJob => Begun(r)
BY MailAssumption DEF WithJobs, MailInv

(* The steps of callers, of HR and of the sweep that touch no row. *)
LEMMA ClientJobsStep ==
  ASSUME MailInv, NEW h \in Clients,
         EnqueueRows(h) \/ BeginSweep(h) \/ SweepRows(h) \/ EnqueueRetry(h) \/ \E r \in Rows : retry(h, r)
  PROVE  MailInv'
<1>0. PICK c : c = calls[h]
  OBVIOUS
<1>1. h \in Handlers /\ h \notin Workers /\ MailCall(h, c) /\ MailRows(h, c)
  BY <1>0 DEF MailInv, Clients
<1>2. c.pc # "writeSent"
  BY <1>1 DEF MailCall
<1>3. ASSUME EnqueueRows(h) \/ SweepRows(h) \/ EnqueueRetry(h) PROVE MailInv'
  <2>1. UNCHANGED mailVars /\ Continue(h, Idle) /\ c # Idle
    BY <1>0, <1>3 DEF EnqueueRows, SweepRows, EnqueueRetry, Finish, Idle
  <2>2. PICK s : jobs' = WithJobs(s) /\ \A r \in Rows : r \in s => Begun(r)
    <3>1. CASE EnqueueRows(h)
      <4>1. PICK s : s = {r \in {c.e} \X c.to : log[r].status = "QUEUED"}
        OBVIOUS
      <4>2. jobs' = WithJobs(s) /\ \A r \in Rows : r \in s => Begun(r)
        BY <1>0, <3>1, <4>1 DEF EnqueueRows, Begun
      <4> QED BY <4>2
    <3>2. CASE SweepRows(h)
      BY <1>0, <1>1, <3>2 DEF SweepRows, MailRows
    <3>3. CASE EnqueueRetry(h)
      BY <1>0, <1>1, <3>3 DEF EnqueueRetry, MailRows
    <3> QED BY <1>3, <3>1, <3>2, <3>3
  <2>3. jobs' = [j \in JobIds |-> jobs'[j]] /\ \A r \in Rows : jobs'[r] # NoJob => Begun(r)
    BY <2>2, AddedJobs
  <2>4. calls' = [calls EXCEPT ![h] = Idle] /\ calm' = calm /\ calm \in BOOLEAN
    BY <2>1 DEF Continue, MailInv
  <2>5. MailCall(h, Idle) /\ MailRows(h, Idle) /\ Idle.pc = "idle"
    BY DEF MailCall, MailRows, Idle
  <2> QED BY <1>0, <1>1, <1>2, <2>1, <2>3, <2>4, <2>5, MailTablesStay DEF mailVars
<1>4. ASSUME NEW d, Begin(h, d), UNCHANGED <<mailVars, jobVars>>, MailCall(h, d), MailRows(h, d) PROVE MailInv'
  <2>1. /\ calls' = [calls EXCEPT ![h] = d] /\ calls[h] = Idle
        /\ calm' => calm /\ \A g \in Handlers : calls[g] = Idle
        /\ calm' = (calm /\ Quiet)
    BY <1>1, <1>4, BegunAlone
  <2>2. calm' \in BOOLEAN
    BY <2>1 DEF MailInv
  <2>3. jobs' = jobs /\ UNCHANGED <<log, suppressed, accepted, bounced, asked, unrecorded>>
    BY <1>4 DEF mailVars, jobVars
  <2>4. jobs' = [j \in JobIds |-> jobs'[j]] /\ \A r \in Rows : jobs'[r] # NoJob => Begun(r)
    BY <2>3 DEF MailInv, MailTypes
  <2>5. d.pc \notin {"writeSent", "callSes"}
    BY <1>1, <1>4 DEF MailCall, Clients
  <2> QED BY <1>0, <1>1, <1>2, <1>4, <2>1, <2>2, <2>3, <2>4, <2>5, MailTablesStay
<1>5. ASSUME BeginSweep(h) PROVE MailInv'
  <2>1. PICK d : d = [pc |-> "sweepRows", rows |-> {r \in Rows : log[r].status = "QUEUED"}]
    OBVIOUS
  <2>2. Begin(h, d) /\ UNCHANGED <<mailVars, jobVars>>
    BY <1>5, <2>1 DEF BeginSweep
  <2>3. MailCall(h, d) /\ MailRows(h, d)
    BY <1>1, <2>1 DEF MailCall, MailRows, Begun
  <2> QED BY <1>4, <2>2, <2>3
<1>6. ASSUME NEW r \in Rows, retry(h, r) PROVE MailInv'
  <2>1. PICK d : d = [pc |-> "requeue", r |-> r]
    OBVIOUS
  <2>2. Begin(h, d) /\ UNCHANGED <<mailVars, jobVars>> /\ log[r].status = "FAILED"
    BY <1>6, <2>1 DEF retry, Retriable
  <2>3. MailCall(h, d) /\ MailRows(h, d)
    BY <1>1, <2>1, <2>2 DEF MailCall, MailRows, Begun
  <2> QED BY <1>4, <2>2, <2>3
<1> QED BY <1>3, <1>5, <1>6

(* A worker's steps that touch no row.                                      *)
LEMMA WorkerJobsStep ==
  ASSUME MailInv, NEW w \in Workers,
         JobDone(w) \/ CheckSuppressed(w) \/ (SendFails(w) /\ calls[w].pc = "callSes") \/ \E r \in Rows : send(w, r)
  PROVE  MailInv'
<1>0. PICK c : c = calls[w]
  OBVIOUS
<1>1. w \in Handlers /\ MailCall(w, c) /\ MailRows(w, c) /\ calm \in BOOLEAN
  BY <1>0, JobsAssumption DEF MailInv
<1>2. MailTypes /\ \A r \in Rows : SendsOK(r) /\ (jobs[r] # NoJob => Begun(r))
  BY DEF MailInv
<1>3. Idle.pc = "idle" /\ MailCall(w, Idle) /\ MailRows(w, Idle)
  BY DEF MailCall, MailRows, Idle
<1>4. ASSUME NEW d, Continue(w, d), c # Idle,
             UNCHANGED <<log, suppressed, accepted, bounced, asked, unrecorded>>,
             jobs' = [j \in JobIds |-> jobs'[j]], \A r \in Rows : jobs'[r] # NoJob => Begun(r),
             d = Idle \/ (d.pc \in MailPcs /\ d = [job |-> c.job, pc |-> d.pc]),
             d.pc # "writeSent", c.pc # "writeSent",
             d.pc \in {"checkSuppressed", "callSes"} => c.pc \in {"checkSuppressed", "callSes"},
             d.pc = "callSes" => c.job[2] \notin suppressed
      PROVE  MailInv'
  <2>1. calls' = [calls EXCEPT ![w] = d] /\ calm' = calm
    BY <1>4 DEF Continue
  <2>2. c.job \in Rows /\ Begun(c.job) /\ c.pc \in MailPcs
    BY <1>1, <1>4 DEF MailCall, MailRows
  <2>3. MailCall(w, d) /\ MailRows(w, d)
    <3>1. CASE d = Idle
      BY <1>3, <3>1
    <3>2. CASE d # Idle
      BY <1>1, <1>4, <2>2, <3>2, WhoIsWho DEF MailCall, MailRows, MailPcs, Clients
    <3> QED BY <3>1, <3>2
  <2>4. calm' => \A g \in Handlers \ {w} : calls[g] = Idle
    BY <1>0, <1>1, <1>4, <2>1 DEF MailInv, AtMostOne
  <2>5. c.pc \in {"checkSuppressed", "callSes"} => accepted[c.job] < asked[c.job] + unrecorded[c.job]
    <3>1. c.pc \in {"checkSuppressed", "callSes"} => Sending(c.job)
      BY <1>0, <1>4 DEF Sending, Has
    <3> QED BY <1>2, <2>2, <3>1 DEF SendsOK
  <2>6. d # Idle => d.job = c.job
    BY <1>4
  <2>7. d # Idle =>
          /\ d.pc \in {"checkSuppressed", "callSes"} => accepted[d.job] < asked[d.job] + unrecorded[d.job]
          /\ d.job = calls[w].job
    BY <1>0, <1>4, <2>5, <2>6
  <2>8. d.pc = "callSes" => d.job[2] \notin suppressed
    BY <1>3, <1>4, <2>6
  <2> QED BY <1>0, <1>1, <1>4, <2>1, <2>3, <2>4, <2>7, <2>8, MailTablesStay
<1>5. CASE JobDone(w)
  <2>1. /\ Continue(w, Idle) /\ c.pc = "jobDone" /\ UNCHANGED mailVars
        /\ jobs' = [jobs EXCEPT ![c.job] = NoJob]
    BY <1>0, <1>5 DEF JobDone, Finish, Completed
  <2>2. jobs' = [j \in JobIds |-> jobs'[j]] /\ \A r \in Rows : jobs'[r] # NoJob => Begun(r)
    BY <1>2, <2>1, MailAssumption DEF MailTypes
  <2>3. c # Idle
    BY <1>3, <2>1
  <2> QED BY <1>3, <1>4, <2>1, <2>2, <2>3 DEF mailVars
<1>6. CASE CheckSuppressed(w)
  <2>1. PICK x : x = IF Suppressed(c.job[2]) THEN "failSuppressed" ELSE "callSes"
    OBVIOUS
  <2>2. Continue(w, [c EXCEPT !.pc = x]) /\ c.pc = "checkSuppressed" /\ UNCHANGED mailVars /\ UNCHANGED jobVars
    BY <1>0, <1>6, <2>1 DEF CheckSuppressed
  <2>3. c # Idle
    BY <1>3, <2>2
  <2>4. PICK d : d = [job |-> c.job, pc |-> x]
    OBVIOUS
  <2>5. [c EXCEPT !.pc = x] = d /\ d.pc = x /\ d.job = c.job
    BY <1>1, <2>3, <2>4 DEF MailCall
  <2>6. jobs' = [j \in JobIds |-> jobs'[j]] /\ \A r \in Rows : jobs'[r] # NoJob => Begun(r)
    BY <1>2, <2>2 DEF MailTypes, jobVars
  <2>7. x \in {"failSuppressed", "callSes"} /\ (x = "callSes" => c.job[2] \notin suppressed)
    BY <2>1 DEF Suppressed
  <2>8. Continue(w, d)
    BY <2>2, <2>5
  <2>9. UNCHANGED <<log, suppressed, accepted, bounced, asked, unrecorded>>
    BY <2>2 DEF mailVars
  <2> QED BY <1>4, <2>2, <2>3, <2>4, <2>5, <2>6, <2>7, <2>8, <2>9 DEF MailPcs
<1>7. CASE SendFails(w) /\ calls[w].pc = "callSes"
  <2>1. /\ Continue(w, [c EXCEPT !.pc = "recordFailure"]) /\ c.pc = "callSes"
        /\ unrecorded' = [unrecorded EXCEPT ![c.job] = unrecorded[c.job]]
        /\ UNCHANGED <<log, suppressed, accepted, bounced, asked, jobs>>
    BY <1>0, <1>7 DEF SendFails
  <2>2. unrecorded' = unrecorded
    BY <1>2, <2>1 DEF MailTypes
  <2>3. c # Idle
    BY <1>3, <2>1
  <2>4. PICK d : d = [job |-> c.job, pc |-> "recordFailure"]
    OBVIOUS
  <2>5. [c EXCEPT !.pc = "recordFailure"] = d /\ d.pc = "recordFailure"
    BY <1>1, <2>3, <2>4 DEF MailCall
  <2>6. jobs' = [j \in JobIds |-> jobs'[j]] /\ \A r \in Rows : jobs'[r] # NoJob => Begun(r)
    BY <1>2, <2>1 DEF MailTypes
  <2>7. Continue(w, d)
    BY <2>1, <2>5
  <2> QED BY <1>4, <2>1, <2>2, <2>3, <2>4, <2>5, <2>6, <2>7 DEF MailPcs
<1>8. ASSUME NEW r \in Rows, send(w, r) PROVE MailInv'
  <2>1. PICK x : x = IF ~Sendable(r) THEN "jobDone" ELSE "checkSuppressed"
    OBVIOUS
  <2>2. Take(w, r, x) /\ UNCHANGED <<mailVars, jobVars>>
    BY <1>8, <2>1 DEF send
  <2>3. PICK d : d = [job |-> r, pc |-> x]
    OBVIOUS
  <2>4. /\ calls' = [calls EXCEPT ![w] = d] /\ c = Idle
        /\ calm' = (calm /\ Quiet) /\ (calm' => calm /\ \A g \in Handlers : calls[g] = Idle)
        /\ jobs[r] # NoJob /\ \A v \in Workers : calls[v] # Idle => calls[v].job # r
    BY <1>0, <1>1, <2>2, <2>3, TakenAlone
  <2>5. x \in {"jobDone", "checkSuppressed"} /\ (x = "checkSuppressed" => log[r].status = "QUEUED")
    BY <2>1 DEF Sendable
  <2>6. Begun(r) /\ SendsOK(r)
    BY <1>2, <2>4
  <2>7. MailCall(w, d) /\ MailRows(w, d)
    BY <2>3, <2>5, <2>6 DEF MailCall, MailRows, MailPcs, Clients
  <2>8. x = "checkSuppressed" => accepted[r] < asked[r] + unrecorded[r]
    <3>1. ~Recording(r)
      BY <2>4 DEF Recording, Has
    <3> QED BY <2>5, <2>6, <3>1 DEF SendsOK
  <2>9. jobs' = [j \in JobIds |-> jobs'[j]] /\ \A q \in Rows : jobs'[q] # NoJob => Begun(q)
    BY <1>2, <2>2 DEF MailTypes, jobVars
  <2>10. UNCHANGED <<log, suppressed, accepted, bounced, asked, unrecorded>>
    BY <2>2 DEF mailVars
  <2>11. calm' \in BOOLEAN
    BY <2>4
  <2>12. d.pc = x /\ d.job = r /\ d # Idle /\ c.pc = "idle"
    BY <2>3, <2>4 DEF Idle
  <2> QED BY <1>0, <1>1, <2>4, <2>5, <2>7, <2>8, <2>9, <2>10, <2>11, <2>12, MailTablesStay
<1> QED BY <1>5, <1>6, <1>7, <1>8

(* A step of a call that changes its row r.                                 *)
LEMMA MailRowChanges ==
  ASSUME MailInv, NEW h \in Handlers, NEW d, NEW r \in Rows, NEW l, NEW a \in Nat, NEW k \in Nat, NEW u \in Nat,
         calls' = [calls EXCEPT ![h] = d], calm' \in BOOLEAN, calm' => calm, calls[h] # Idle,
         log' = [log EXCEPT ![r] = l], l \in [status : {"QUEUED", "SENT", "FAILED"}, msg : Nat],
         accepted' = [accepted EXCEPT ![r] = a], asked' = [asked EXCEPT ![r] = k],
         unrecorded' = [unrecorded EXCEPT ![r] = u],
         Begun(r), accepted[r] <= a, a <= k + u,
         jobs' = [j \in JobIds |-> jobs'[j]], \A q \in Rows : jobs'[q] # NoJob => Begun(q),
         MailCall(h, d), MailRows(h, d)', d.pc \notin {"checkSuppressed", "callSes"},
         h \in Workers => calls[h].job = r /\ (d # Idle => d.job = r),
         h \in Workers /\ l.status = "QUEUED" /\ d.pc # "writeSent" => a < k + u,
         h \notin Workers /\ (Sending(r) \/ (l.status = "QUEUED" /\ ~Recording(r))) => a < k + u,
         \A b \in bounced' : b \in bounced \/ (b = <<r, b[2]>> /\ b[2] \in Nat /\ b[2] <= a),
         calm' /\ d.pc = "writeSent" => <<r, a>> \notin bounced',
         calm' /\ l.status = "SENT" => <<r, l.msg>> \notin bounced'
  PROVE  MailInv'
<1>1. MailTypes /\ OneEach
  BY DEF MailInv
<1>2. /\ log' = [q \in Rows |-> IF q = r THEN l ELSE log[q]]
      /\ accepted' = [q \in Rows |-> IF q = r THEN a ELSE accepted[q]]
      /\ asked' = [q \in Rows |-> IF q = r THEN k ELSE asked[q]]
      /\ unrecorded' = [q \in Rows |-> IF q = r THEN u ELSE unrecorded[q]]
  BY <1>1 DEF MailTypes
<1>3. MailGrows
  BY <1>1, <1>2 DEF MailGrows, Begun, MailTypes
<1>4. MailTypes'
  <2>1. log' \in [Rows -> [status : {"none", "QUEUED", "SENT", "FAILED"}, msg : Nat]]
    BY <1>1, <1>2 DEF MailTypes
  <2>2. accepted' \in [Rows -> Nat] /\ asked' \in [Rows -> Nat] /\ unrecorded' \in [Rows -> Nat]
    BY <1>1, <1>2 DEF MailTypes
  <2>3. bounced' \subseteq Rows \X Nat
    BY <1>1 DEF MailTypes
  <2> QED BY <2>1, <2>2, <2>3 DEF MailTypes
<1>5. calm' => \A g \in Handlers \ {h} : calls[g] = Idle
  BY DEF MailInv, AtMostOne
<1>6. /\ calls' = [g \in Handlers |-> calls'[g]] /\ AtMostOne'
      /\ \A g \in Handlers : calls'[g] = IF g = h THEN d ELSE calls[g]
      /\ \A g \in Handlers : MailCall(g, calls[g])' /\ MailRows(g, calls[g])'
  BY <1>3, <1>4, <1>5, MailMoves
<1>7. /\ OneEach' /\ \A q \in Rows \ {r} : (Sending(q)' <=> Sending(q)) /\ (Recording(q)' <=> Recording(q))
      /\ Sending(r)' \/ (l.status = "QUEUED" /\ ~Recording(r)') => a < k + u
  <2>1. CASE h \notin Workers
    <3>1. OneEach' /\ \A q \in Rows : (Sending(q)' <=> Sending(q)) /\ (Recording(q)' <=> Recording(q))
      BY <2>1, ClientMoves
    <3> QED BY <2>1, <3>1
  <2>2. CASE h \in Workers
    <3>1. \A g \in Workers : calls'[g] = IF g = h THEN d ELSE calls[g]
      BY <1>6, JobsAssumption
    <3>2. /\ OneEach'
          /\ \A q \in Rows \ {r} : (Sending(q)' <=> Sending(q)) /\ (Recording(q)' <=> Recording(q))
          /\ Sending(r)' <=> d # Idle /\ d.pc \in {"checkSuppressed", "callSes"}
          /\ Recording(r)' <=> d # Idle /\ d.pc = "writeSent"
      <4>1. OneEach /\ h \in Workers /\ calls[h].job = r /\ (d # Idle => d.job = r)
        BY <1>1, <2>2
      <4>2. calls[h] # Idle
        OBVIOUS
      <4> QED BY ONLY <3>1, <4>1, <4>2, WorkerMoves
    <3>3. d.pc = "writeSent" => d # Idle
      BY DEF Idle
    <3> QED BY <2>2, <3>2, <3>3
  <2> QED BY <2>1, <2>2
<1>8. \A q \in Rows : SendsOK(q)'
  <2>1. SendsOK(r)'
    BY <1>2, <1>3, <1>7 DEF SendsOK, MailGrows
  <2>2. ASSUME NEW q \in Rows \ {r} PROVE SendsOK(q)'
    BY <1>2, <1>7 DEF SendsOK, MailInv, Begun
  <2> QED BY <2>1, <2>2
<1>9. (\A b \in bounced' : b[2] <= accepted'[b[1]]) /\ \A q \in Rows : jobs'[q] # NoJob => Begun(q)'
  <2>1. \A b \in bounced : b \in Rows \X Nat /\ b[2] <= accepted[b[1]]
    BY <1>1 DEF MailInv, MailTypes
  <2>2. ASSUME NEW b \in bounced' PROVE b[2] <= accepted'[b[1]]
    <3>1. CASE b \in bounced
      <4>1. b[1] \in Rows /\ b[2] \in Nat /\ b[2] <= accepted[b[1]] /\ accepted[b[1]] <= accepted'[b[1]]
        BY <1>3, <2>1, <3>1 DEF MailGrows
      <4>2. accepted[b[1]] \in Nat /\ accepted'[b[1]] \in Nat
        BY <1>1, <1>4, <4>1 DEF MailTypes
      <4> QED BY <4>1, <4>2
    <3>2. CASE b \notin bounced
      <4>1. b = <<r, b[2]>> /\ b[2] <= a
        BY <3>2
      <4>2. b[1] = r
        BY <4>1
      <4> QED BY <1>2, <4>1, <4>2
    <3> QED BY <3>1, <3>2
  <2> QED BY <1>3, <2>2 DEF MailGrows
<1>10. ASSUME calm' PROVE CalmMail'
  <2>1. CalmMail
    BY <1>10 DEF MailInv
  <2>2. \A w \in Workers : calls'[w] = IF w = h THEN d ELSE Idle
    BY <1>5, <1>6, <1>10, JobsAssumption
  <2>3. ASSUME NEW w \in Workers
        PROVE  calls'[w].pc # "callSes" /\ (calls'[w].pc = "writeSent" => <<calls'[w].job, accepted'[calls'[w].job]>> \notin bounced')
    <3>1. CASE w = h
      <4>1. calls'[w] = d
        BY <2>2, <3>1
      <4>2. d.pc = "writeSent" => d # Idle
        BY DEF Idle
      <4> QED BY <1>2, <1>10, <3>1, <4>1, <4>2
    <3>2. CASE w # h
      <4>1. calls'[w].pc = "idle"
        BY <2>2, <3>2 DEF Idle
      <4> QED BY <4>1
    <3> QED BY <3>1, <3>2
  <2>4. ASSUME NEW q \in Rows, log'[q].status = "SENT" PROVE <<q, log'[q].msg>> \notin bounced'
    <3>1. CASE q = r
      BY <1>2, <1>10, <2>4, <3>1
    <3>2. CASE q # r
      <4>1. <<q, log[q].msg>> \notin bounced /\ log'[q] = log[q]
        BY <1>2, <2>1, <2>4, <3>2 DEF CalmMail
      <4> QED BY <3>2, <4>1
    <3> QED BY <3>1, <3>2
  <2> QED BY ONLY <2>3, <2>4 DEF CalmMail
<1>11. calm' => CalmMail'
  BY <1>10
<1> QED BY <1>4, <1>6, <1>7, <1>8, <1>9, <1>11 DEF MailInv

(* The worker's steps that write a row.                                     *)
LEMMA WorkerRowStep ==
  ASSUME MailInv, NEW w \in Workers,
         CallSes(w) \/ WriteSent(w) \/ RecordFailure(w) \/ (SendFails(w) /\ calls[w].pc = "writeSent")
  PROVE  MailInv'
<1>0. PICK c : c = calls[w]
  OBVIOUS
<1>1. w \in Handlers /\ MailCall(w, c) /\ MailRows(w, c) /\ calm \in BOOLEAN
  BY <1>0, JobsAssumption DEF MailInv
<1>2. c # Idle
  BY <1>0 DEF CallSes, WriteSent, RecordFailure, SendFails, Idle
<1>3. PICK r : r = c.job
  OBVIOUS
<1>4. r \in Rows /\ c = [job |-> r, pc |-> c.pc] /\ Begun(r)
  BY <1>1, <1>2, <1>3 DEF MailCall, MailRows
<1>5. SendsOK(r) /\ MailTypes /\ (\A b \in bounced : b \in Rows \X Nat /\ b[2] <= accepted[b[1]])
      /\ (calm => CalmMail) /\ \A q \in Rows : jobs[q] # NoJob => Begun(q)
  BY <1>4 DEF MailInv, MailTypes
<1>6. PICK l, a, k, u : l = log[r] /\ a = accepted[r] /\ k = asked[r] /\ u = unrecorded[r]
  OBVIOUS
<1>7. /\ a \in Nat /\ k \in Nat /\ u \in Nat /\ a <= k + u
      /\ l \in [status : {"QUEUED", "SENT", "FAILED"}, msg : Nat]
  BY <1>4, <1>5, <1>6 DEF MailTypes, SendsOK, Begun
<1>8. /\ log = [log EXCEPT ![r] = l] /\ accepted = [accepted EXCEPT ![r] = a]
      /\ asked = [asked EXCEPT ![r] = k] /\ unrecorded = [unrecorded EXCEPT ![r] = u]
      /\ jobs = [j \in JobIds |-> jobs[j]]
  BY <1>5, <1>6 DEF MailTypes
<1>9. /\ c.pc = "callSes" => a < k + u
      /\ c.pc # "writeSent" => ~Recording(r)
  <2>1. c.pc = "callSes" => Sending(r)
    BY <1>0, <1>2, <1>3 DEF Sending, Has
  <2>2. c.pc # "writeSent" => ~Recording(r)
    BY <1>0, <1>2, <1>3 DEF Recording, Has, MailInv, OneEach
  <2> QED BY <1>5, <1>6, <2>1, <2>2 DEF SendsOK
<1>10. MailCall(w, Idle) /\ MailRows(w, Idle)' /\ Idle.pc = "idle"
  BY DEF MailCall, MailRows, Idle
<1>11. ASSUME NEW x \in MailPcs PROVE MailCall(w, [job |-> r, pc |-> x]) /\ [job |-> r, pc |-> x] # Idle
  BY <1>4, <1>11 DEF MailCall, MailPcs, Clients, Idle
<1>12. ASSUME NEW x \in MailPcs, Begun(r)' PROVE MailRows(w, [job |-> r, pc |-> x])'
  BY <1>12 DEF MailRows, MailPcs
<1>13. CASE CallSes(w)
  <2>1. PICK d : d = [job |-> r, pc |-> "writeSent"]
    OBVIOUS
  <2>2. /\ c.pc = "callSes" /\ accepted' = [accepted EXCEPT ![r] = a + 1]
        /\ calls' = [calls EXCEPT ![w] = [c EXCEPT !.pc = "writeSent"]] /\ calm' = calm
        /\ UNCHANGED <<log, bounced, asked, unrecorded, jobs>>
    BY <1>0, <1>3, <1>6, <1>13 DEF CallSes, Continue, jobVars
  <2>3. calls' = [calls EXCEPT ![w] = d] /\ d.pc = "writeSent" /\ d.job = r
    <3>1. [c EXCEPT !.pc = "writeSent"] = d
      BY <1>4, <2>1
    <3>2. d.pc = "writeSent" /\ d.job = r
      BY <2>1
    <3>3. calls' = [calls EXCEPT ![w] = d]
      BY ONLY <2>2, <3>1
    <3> QED BY ONLY <3>2, <3>3
  <2>4. MailCall(w, d) /\ MailRows(w, d)'
    BY <1>4, <1>11, <1>12, <2>1, <2>2 DEF MailPcs, Begun
  <2>5. <<r, a + 1>> \notin bounced
    BY <1>5, <1>6, <1>7
  <2>6. calm /\ l.status = "SENT" => <<r, l.msg>> \notin bounced
    BY <1>4, <1>5, <1>6 DEF CalmMail
  <2>7. /\ log' = [log EXCEPT ![r] = l] /\ asked' = [asked EXCEPT ![r] = k]
        /\ unrecorded' = [unrecorded EXCEPT ![r] = u] /\ jobs' = [j \in JobIds |-> jobs'[j]]
    BY <1>8, <2>2
  <2>8. a + 1 \in Nat /\ a + 1 <= k + u /\ accepted[r] <= a + 1
    BY <1>6, <1>7, <1>9, <2>2
  <2>9. \A q \in Rows : jobs'[q] # NoJob => Begun(q)
    BY <1>5, <2>2
  <2>10. /\ d.pc \notin {"checkSuppressed", "callSes"} /\ calls[w] # Idle /\ calls[w].job = r /\ d.job = r
         /\ Begun(r) /\ calm' \in BOOLEAN /\ (calm' => calm) /\ bounced' = bounced
    BY <1>0, <1>1, <1>2, <1>3, <1>4, <2>2, <2>3
  <2>11. (calm' => <<r, a + 1>> \notin bounced') /\ (calm' /\ l.status = "SENT" => <<r, l.msg>> \notin bounced')
    BY <2>5, <2>6, <2>10
  <2>12. MailInv /\ w \in Workers
    OBVIOUS
  <2>13. PICK b : b = a + 1
    OBVIOUS
  <2>14. /\ accepted' = [accepted EXCEPT ![r] = b] /\ b \in Nat /\ b <= k + u /\ accepted[r] <= b
         /\ calm' /\ d.pc = "writeSent" => <<r, b>> \notin bounced'
         /\ w \in Workers /\ l.status = "QUEUED" /\ d.pc # "writeSent" => b < k + u
         /\ w \notin Workers /\ (Sending(r) \/ (l.status = "QUEUED" /\ ~Recording(r))) => b < k + u
    BY ONLY <2>2, <2>3, <2>8, <2>11, <2>12, <2>13
  <2> QED BY ONLY <1>1, <1>4, <1>7, <2>3, <2>4, <2>7, <2>9, <2>10, <2>11, <2>12, <2>14, MailRowChanges
<1>14. CASE WriteSent(w)
  <2>1. PICK m : m = [status |-> "SENT", msg |-> a]
    OBVIOUS
  <2>2. /\ c.pc = "writeSent" /\ log' = [log EXCEPT ![r] = m]
        /\ jobs' = [jobs EXCEPT ![r] = NoJob]
        /\ calls' = [calls EXCEPT ![w] = Idle] /\ calm' = calm
        /\ UNCHANGED <<accepted, bounced, asked, unrecorded>>
    BY <1>0, <1>3, <1>6, <1>14, <2>1 DEF WriteSent, Finish, Continue, Completed
  <2>3. calm => <<r, a>> \notin bounced
    BY <1>0, <1>3, <1>5, <1>6, <2>2 DEF CalmMail
  <2>4. m \in [status : {"QUEUED", "SENT", "FAILED"}, msg : Nat] /\ m.status = "SENT" /\ m.msg = a
    BY <1>7, <2>1
  <2>5. /\ accepted' = [accepted EXCEPT ![r] = a] /\ asked' = [asked EXCEPT ![r] = k]
        /\ unrecorded' = [unrecorded EXCEPT ![r] = u]
    BY <1>8, <2>2
  <2>6. jobs' = [j \in JobIds |-> jobs'[j]] /\ \A q \in Rows : jobs'[q] # NoJob => Begun(q)
    BY <1>5, <1>8, <2>2, MailAssumption
  <2>7. accepted[r] <= a
    BY <1>6, <1>7
  <2> QED BY <1>0, <1>1, <1>2, <1>3, <1>4, <1>7, <1>10, <2>2, <2>3, <2>4, <2>5, <2>6, <2>7, MailRowChanges
<1>15. CASE RecordFailure(w)
  <2>1. PICK y : y = FinalStatus(r, c.pc = "failSuppressed")
    OBVIOUS
  <2>2. PICK m : m = [l EXCEPT !.status = y]
    OBVIOUS
  <2>3. /\ c.pc \in {"failSuppressed", "recordFailure"}
        /\ log' = [log EXCEPT ![r].status = y]
        /\ jobs' = IF c.pc = "failSuppressed" THEN Completed(r) ELSE Threw(r)
        /\ calls' = [calls EXCEPT ![w] = Idle] /\ calm' = calm
        /\ UNCHANGED <<accepted, bounced, asked, unrecorded>>
    BY <1>0, <1>3, <1>15, <2>1 DEF RecordFailure, Finish, Continue
  <2>4. log' = [log EXCEPT ![r] = m]
    BY <1>6, <2>2, <2>3
  <2>5. y \in {"FAILED", l.status}
    BY <1>6, <2>1 DEF FinalStatus
  <2>6. m \in [status : {"QUEUED", "SENT", "FAILED"}, msg : Nat] /\ m.status = y /\ m.msg = l.msg
    BY <1>7, <2>2, <2>5
  <2>7. calm /\ m.status = "SENT" => <<r, m.msg>> \notin bounced
    BY <1>4, <1>5, <1>6, <2>5, <2>6 DEF CalmMail
  <2>8. l.status = "QUEUED" => a < k + u
    BY <1>5, <1>6, <1>9, <2>3 DEF SendsOK
  <2>9. /\ accepted' = [accepted EXCEPT ![r] = a] /\ asked' = [asked EXCEPT ![r] = k]
        /\ unrecorded' = [unrecorded EXCEPT ![r] = u]
    BY <1>8, <2>3
  <2>10. jobs' = [j \in JobIds |-> jobs'[j]] /\ \A q \in Rows : jobs'[q] # NoJob => Begun(q)
    <3>1. PICK z : jobs' = [jobs EXCEPT ![r] = z]
      BY <2>3 DEF Completed, Threw
    <3> QED BY <1>4, <1>5, <1>8, <3>1, MailAssumption
  <2>11. accepted[r] <= a
    BY <1>6, <1>7
  <2>12. m.status = "QUEUED" => a < k + u
    BY <2>5, <2>6, <2>8
  <2> QED BY <1>0, <1>1, <1>2, <1>3, <1>4, <1>7, <1>10, <2>3, <2>4, <2>6, <2>7, <2>12, <2>9, <2>10, <2>11, MailRowChanges
<1>16. CASE SendFails(w) /\ calls[w].pc = "writeSent"
  <2>1. PICK d : d = [job |-> r, pc |-> "recordFailure"]
    OBVIOUS
  <2>2. /\ c.pc = "writeSent" /\ unrecorded' = [unrecorded EXCEPT ![r] = u + 1]
        /\ calls' = [calls EXCEPT ![w] = [c EXCEPT !.pc = "recordFailure"]] /\ calm' = calm
        /\ UNCHANGED <<log, accepted, bounced, asked, jobs>>
    BY <1>0, <1>3, <1>6, <1>16 DEF SendFails, Continue
  <2>3. calls' = [calls EXCEPT ![w] = d] /\ d.pc = "recordFailure" /\ d.job = r
    <3>1. [c EXCEPT !.pc = "recordFailure"] = d
      BY <1>4, <2>1
    <3>2. d.pc = "recordFailure" /\ d.job = r
      BY <2>1
    <3>3. calls' = [calls EXCEPT ![w] = d]
      BY ONLY <2>2, <3>1
    <3> QED BY ONLY <3>2, <3>3
  <2>4. MailCall(w, d) /\ MailRows(w, d)'
    BY <1>4, <1>11, <1>12, <2>1, <2>2 DEF MailPcs, Begun
  <2>6. calm /\ l.status = "SENT" => <<r, l.msg>> \notin bounced
    BY <1>4, <1>5, <1>6 DEF CalmMail
  <2>7. /\ log' = [log EXCEPT ![r] = l] /\ asked' = [asked EXCEPT ![r] = k]
        /\ accepted' = [accepted EXCEPT ![r] = a] /\ jobs' = [j \in JobIds |-> jobs'[j]]
    BY <1>8, <2>2
  <2>8. u + 1 \in Nat /\ a < k + (u + 1) /\ a <= k + (u + 1) /\ accepted[r] <= a
    BY <1>6, <1>7
  <2>9. \A q \in Rows : jobs'[q] # NoJob => Begun(q)
    BY <1>5, <2>2
  <2> QED BY <1>0, <1>1, <1>2, <1>3, <1>4, <1>7, <2>2, <2>3, <2>4, <2>6, <2>7, <2>8, <2>9, MailRowChanges
<1> QED BY <1>13, <1>14, <1>15, <1>16

(* HR and SES write a row: queued again, or failed by a bounce.             *)
LEMMA ClientRowStep ==
  ASSUME MailInv, NEW h \in Clients, Requeue(h) \/ FailRow(h)
  PROVE  MailInv'
<1>0. PICK c : c = calls[h]
  OBVIOUS
<1>1. h \in Handlers /\ h \notin Workers /\ MailCall(h, c) /\ MailRows(h, c) /\ calm \in BOOLEAN
  BY <1>0 DEF MailInv, Clients
<1>2. c # Idle /\ c.pc \in {"requeue", "failRow"}
  BY <1>0 DEF Requeue, FailRow, Idle
<1>3. PICK r : r = c.r
  OBVIOUS
<1>4. r \in Rows /\ Begun(r)
  BY <1>1, <1>2, <1>3 DEF MailCall, MailRows
<1>5. SendsOK(r) /\ MailTypes /\ (calm => CalmMail) /\ \A q \in Rows : jobs[q] # NoJob => Begun(q)
  BY <1>4 DEF MailInv
<1>6. PICK l, a, k, u : l = log[r] /\ a = accepted[r] /\ k = asked[r] /\ u = unrecorded[r]
  OBVIOUS
<1>7. /\ a \in Nat /\ k \in Nat /\ u \in Nat /\ a <= k + u /\ accepted[r] <= a
      /\ l \in [status : {"QUEUED", "SENT", "FAILED"}, msg : Nat]
      /\ Sending(r) \/ (l.status = "QUEUED" /\ ~Recording(r)) => a < k + u
  BY <1>4, <1>5, <1>6 DEF MailTypes, SendsOK, Begun
<1>8. /\ accepted = [accepted EXCEPT ![r] = a] /\ asked = [asked EXCEPT ![r] = k]
      /\ unrecorded = [unrecorded EXCEPT ![r] = u] /\ jobs = [j \in JobIds |-> jobs[j]]
  BY <1>5, <1>6 DEF MailTypes
<1>9. CASE Requeue(h)
  <2>1. PICK m : m = [l EXCEPT !.status = "QUEUED"]
    OBVIOUS
  <2>2. PICK d : d = [pc |-> "enqueueRetry", r |-> r]
    OBVIOUS
  <2>3. PICK e : e = [c EXCEPT !.pc = "enqueueRetry"]
    OBVIOUS
  <2>4. /\ c.pc = "requeue" /\ log' = [log EXCEPT ![r].status = "QUEUED"]
        /\ asked' = [asked EXCEPT ![r] = k + 1]
        /\ calls' = [calls EXCEPT ![h] = e] /\ calm' = calm
        /\ UNCHANGED <<accepted, bounced, unrecorded, jobs>>
    BY <1>0, <1>3, <1>6, <1>9, <2>3 DEF Requeue, Continue, jobVars
  <2>5. e = d
    BY <1>1, <1>3, <2>2, <2>3, <2>4 DEF MailCall
  <2>6. log' = [log EXCEPT ![r] = m]
    BY <1>6, <2>1, <2>4
  <2>7. m \in [status : {"QUEUED", "SENT", "FAILED"}, msg : Nat] /\ m.status = "QUEUED"
    BY <1>7, <2>1
  <2>8. PICK b : b = k + 1
    OBVIOUS
  <2>9. b \in Nat /\ a < b + u /\ a <= b + u /\ asked' = [asked EXCEPT ![r] = b]
    BY <1>7, <2>4, <2>8
  <2>10. /\ calls' = [calls EXCEPT ![h] = d] /\ d.pc = "enqueueRetry" /\ d.r = r /\ d # Idle
    BY <2>2, <2>4, <2>5 DEF Idle
  <2>11. MailCall(h, d) /\ MailRows(h, d)'
    BY <1>1, <1>4, <2>6, <2>7, <2>10 DEF MailCall, MailRows, Begun, MailInv, MailTypes
  <2>12. /\ accepted' = [accepted EXCEPT ![r] = a] /\ unrecorded' = [unrecorded EXCEPT ![r] = u]
         /\ jobs' = [j \in JobIds |-> jobs'[j]] /\ \A q \in Rows : jobs'[q] # NoJob => Begun(q)
    BY <1>5, <1>8, <2>4
  <2> QED BY <1>0, <1>1, <1>2, <1>4, <1>7, <2>4, <2>6, <2>7, <2>9, <2>10, <2>11, <2>12, MailRowChanges
<1>10. CASE FailRow(h)
  <2>1. PICK y : y = IF Bounces(r, c.n) THEN "FAILED" ELSE l.status
    OBVIOUS
  <2>2. PICK m : m = [l EXCEPT !.status = y]
    OBVIOUS
  <2>3. /\ c.pc = "failRow" /\ log' = [log EXCEPT ![r].status = y]
        /\ bounced' = bounced \cup {<<r, c.n>>}
        /\ calls' = [calls EXCEPT ![h] = Idle] /\ calm' = calm
        /\ UNCHANGED <<accepted, asked, unrecorded, jobs>>
    BY <1>0, <1>3, <1>6, <1>10, <2>1 DEF FailRow, Finish, Continue, jobVars
  <2>4. log' = [log EXCEPT ![r] = m]
    BY <1>6, <2>2, <2>3
  <2>5. /\ m \in [status : {"QUEUED", "SENT", "FAILED"}, msg : Nat] /\ m.msg = l.msg
        /\ m.status = IF l.msg = c.n THEN "FAILED" ELSE l.status
    BY <1>6, <1>7, <2>1, <2>2 DEF Bounces
  <2>6. calm /\ m.status = "SENT" => <<r, m.msg>> \notin bounced'
    BY <1>4, <1>5, <1>6, <2>3, <2>5 DEF CalmMail
  <2>7. c.n \in Nat /\ c.n <= a
    BY <1>1, <1>3, <1>6, <2>3 DEF MailCall, MailRows
  <2>8. \A b \in bounced' : b \in bounced \/ (b = <<r, b[2]>> /\ b[2] \in Nat /\ b[2] <= a)
    BY <2>3, <2>7
  <2>9. MailCall(h, Idle) /\ MailRows(h, Idle)' /\ Idle.pc = "idle"
    BY DEF MailCall, MailRows, Idle
  <2>10. (Sending(r) \/ (m.status = "QUEUED" /\ ~Recording(r))) => a < k + u
    BY <1>7, <2>5
  <2>11. /\ accepted' = [accepted EXCEPT ![r] = a] /\ unrecorded' = [unrecorded EXCEPT ![r] = u]
         /\ asked' = [asked EXCEPT ![r] = k]
         /\ jobs' = [j \in JobIds |-> jobs'[j]] /\ \A q \in Rows : jobs'[q] # NoJob => Begun(q)
    BY <1>5, <1>8, <2>3
  <2> QED BY <1>0, <1>1, <1>2, <1>4, <1>7, <2>3, <2>4, <2>5, <2>6, <2>8, <2>9, <2>10, <2>11, MailRowChanges
<1> QED BY <1>9, <1>10

(* notify() gives rows to those that have none.                             *)
LEMMA NotifyStep ==
  ASSUME MailInv, NEW h \in Clients, NEW e \in Events, NEW to \in SUBSET Users, notify(h, e, to)
  PROVE  MailInv'
<1>1. PICK new : new = {r \in {e} \X resolve(to) : log[r].status = "none"}
  OBVIOUS
<1>2. PICK d : d = [pc |-> "enqueueRows", e |-> e, to |-> resolve(to)]
  OBVIOUS
<1>3. h \in Handlers /\ h \notin Workers
  BY DEF Clients
<1>4. /\ log' = [r \in Rows |-> IF r \in new THEN [status |-> "QUEUED", msg |-> 0] ELSE log[r]]
      /\ asked' = [r \in Rows |-> IF r \in new THEN 1 ELSE asked[r]]
      /\ Begin(h, d) /\ UNCHANGED <<suppressed, accepted, bounced, unrecorded, jobs>>
  BY <1>1, <1>2 DEF notify, jobVars
<1>5. \A r \in new : r \in Rows /\ ~Begun(r)
  BY <1>1 DEF resolve, Rows, Begun
<1>6. /\ calls' = [calls EXCEPT ![h] = d]
      /\ calm' => calm /\ \A g \in Handlers : calls[g] = Idle
      /\ calm' = (calm /\ Quiet)
  BY <1>3, <1>4, BegunAlone
<1>7. MailTypes /\ (\A r \in Rows : SendsOK(r) /\ (jobs[r] # NoJob => Begun(r))) /\ (calm => CalmMail)
  BY DEF MailInv
<1>8. \A r \in new : accepted[r] = 0 /\ log[r].status = "none" /\ unrecorded[r] \in Nat
  BY <1>5, <1>7 DEF SendsOK, Begun, MailTypes
<1>9. MailGrows /\ MailTypes'
  <2>1. log' \in [Rows -> [status : {"none", "QUEUED", "SENT", "FAILED"}, msg : Nat]]
    BY <1>4, <1>7 DEF MailTypes
  <2>2. asked' \in [Rows -> Nat]
    BY <1>4, <1>7 DEF MailTypes
  <2>3. MailTypes'
    BY <1>4, <1>7, <2>1, <2>2 DEF MailTypes
  <2>4. \A r \in Rows : Begun(r) => Begun(r)'
    BY <1>4, <1>5 DEF Begun
  <2> QED BY <1>4, <1>7, <2>3, <2>4 DEF MailGrows, MailTypes
<1>10. MailCall(h, d) /\ MailRows(h, d)' /\ calm' \in BOOLEAN
  BY <1>2, <1>3, <1>6 DEF MailCall, MailRows
<1>11. /\ calls' = [g \in Handlers |-> calls'[g]] /\ AtMostOne'
       /\ \A g \in Handlers : calls'[g] = IF g = h THEN d ELSE calls[g]
       /\ \A g \in Handlers : MailCall(g, calls[g])' /\ MailRows(g, calls[g])'
  BY <1>3, <1>6, <1>9, <1>10, MailMoves
<1>12. OneEach' /\ \A r \in Rows : (Sending(r)' <=> Sending(r)) /\ (Recording(r)' <=> Recording(r))
  BY <1>3, <1>6, ClientMoves
<1>13. ASSUME NEW r \in Rows PROVE SendsOK(r)'
  <2>1. CASE r \in new
    <3>1. accepted'[r] = 0 /\ asked'[r] = 1 /\ unrecorded'[r] \in Nat
      BY <1>4, <1>8, <2>1
    <3> QED BY <3>1 DEF SendsOK
  <2>2. CASE r \notin new
    BY <1>4, <1>7, <1>12, <2>2 DEF SendsOK, Begun
  <2> QED BY <2>1, <2>2
<1>14. (\A b \in bounced' : b[2] <= accepted'[b[1]]) /\ \A r \in Rows : jobs'[r] # NoJob => Begun(r)'
  BY <1>4, <1>7, <1>9 DEF MailInv, MailGrows
<1>15. ASSUME calm' PROVE CalmMail'
  <2>1. \A w \in Workers : calls'[w].pc = "idle"
    BY <1>3, <1>6, <1>11, <1>15, JobsAssumption DEF Idle
  <2>2. \A r \in Rows : log'[r].status = "SENT" => <<r, log'[r].msg>> \notin bounced'
    BY <1>4, <1>6, <1>7, <1>15 DEF CalmMail
  <2> QED BY <2>1, <2>2 DEF CalmMail
<1>16. calm' => CalmMail'
  BY <1>15
<1> QED BY <1>9, <1>10, <1>11, <1>12, <1>13, <1>14, <1>16 DEF MailInv

(* A bounce is heard of.                                                    *)
LEMMA BounceStep ==
  ASSUME MailInv, NEW h \in Clients, NEW r \in Rows, NEW n \in Nat, NEW p, bounce(h, r, n, p)
  PROVE  MailInv'
<1>1. PICK d : d = [pc |-> "failRow", r |-> r, n |-> n]
  OBVIOUS
<1>2. h \in Handlers /\ h \notin Workers
  BY DEF Clients
<1>3. n \in 1..accepted[r] /\ Begin(h, d) /\ UNCHANGED <<log, accepted, bounced, asked, unrecorded, jobs>>
  BY <1>1 DEF bounce, jobVars
<1>4. /\ calls' = [calls EXCEPT ![h] = d]
      /\ calm' => calm /\ \A g \in Handlers : calls[g] = Idle
      /\ calm' = (calm /\ Quiet)
  BY <1>2, <1>3, BegunAlone
<1>5. MailTypes /\ (\A q \in Rows : SendsOK(q) /\ (jobs[q] # NoJob => Begun(q))) /\ (calm => CalmMail)
  BY DEF MailInv
<1>6. Begun(r)
  <2>1. SendsOK(r) /\ accepted[r] \in Nat /\ accepted[r] # 0
    <3>1. accepted[r] \in Nat /\ n \in 1..accepted[r]
      BY <1>3, <1>5 DEF MailTypes
    <3> QED BY <1>5, <3>1
  <2> QED BY <2>1 DEF SendsOK
<1>7. MailGrows /\ MailTypes'
  BY <1>3, <1>5 DEF MailGrows, MailTypes, Begun
<1>8. MailCall(h, d) /\ MailRows(h, d)' /\ calm' \in BOOLEAN
  BY <1>1, <1>2, <1>3, <1>4, <1>5, <1>6 DEF MailCall, MailRows, Begun, MailTypes
<1>9. /\ calls' = [g \in Handlers |-> calls'[g]] /\ AtMostOne'
      /\ \A g \in Handlers : calls'[g] = IF g = h THEN d ELSE calls[g]
      /\ \A g \in Handlers : MailCall(g, calls[g])' /\ MailRows(g, calls[g])'
  BY <1>2, <1>4, <1>7, <1>8, MailMoves
<1>10. OneEach' /\ \A q \in Rows : (Sending(q)' <=> Sending(q)) /\ (Recording(q)' <=> Recording(q))
  BY <1>2, <1>4, ClientMoves
<1>11. \A q \in Rows : SendsOK(q)'
  BY <1>3, <1>5, <1>10 DEF SendsOK, Begun
<1>12. (\A b \in bounced' : b[2] <= accepted'[b[1]]) /\ \A q \in Rows : jobs'[q] # NoJob => Begun(q)'
  BY <1>3, <1>5, <1>7 DEF MailInv, MailGrows
<1>13. ASSUME calm' PROVE CalmMail'
  <2>1. \A w \in Workers : calls'[w].pc = "idle"
    BY <1>2, <1>4, <1>9, <1>13, JobsAssumption DEF Idle
  <2>2. \A q \in Rows : log'[q].status = "SENT" => <<q, log'[q].msg>> \notin bounced'
    BY <1>3, <1>4, <1>5, <1>13 DEF CalmMail
  <2> QED BY <2>1, <2>2 DEF CalmMail
<1>14. calm' => CalmMail'
  BY <1>13
<1> QED BY <1>7, <1>8, <1>9, <1>10, <1>11, <1>12, <1>14 DEF MailInv

(* No call moves: an address is suppressed or lifted, a user toggled, the   *)
(* sweep adds jobs, or nothing happens.                                     *)
LEMMA MailCallsStay ==
  ASSUME MailInv, UNCHANGED <<calls, log, accepted, bounced, asked, unrecorded>>,
         jobs' = [j \in JobIds |-> jobs'[j]], \A r \in Rows : jobs'[r] # NoJob => Begun(r),
         calm' \in BOOLEAN, calm' => calm /\ (Quiet \/ suppressed' = suppressed)
  PROVE  MailInv'
<1>1. MailTypes' /\ OneEach' /\ AtMostOne' /\ calls' = [h \in Handlers |-> calls'[h]]
  BY DEF MailInv, MailTypes, OneEach, AtMostOne
<1>2. \A r \in Rows : SendsOK(r)' /\ (jobs'[r] # NoJob => Begun(r)')
  BY DEF MailInv, SendsOK, Begun, Sending, Recording, Has
<1>3. \A h \in Handlers : MailCall(h, calls[h])' /\ MailRows(h, calls[h])'
  BY DEF MailInv, MailCall, MailRows, Begun
<1>4. ASSUME calm' PROVE CalmMail'
  <2>1. CalmMail
    BY <1>4 DEF MailInv
  <2>2. \A w \in Workers : calls[w].pc = "callSes" => calls[w].job[2] \notin suppressed'
    <3>1. CASE Quiet
      BY <3>1, JobsAssumption DEF Quiet, Running, Idle
    <3>2. CASE suppressed' = suppressed
      BY <2>1, <3>2 DEF CalmMail
    <3> QED BY <1>4, <3>1, <3>2
  <2> QED BY <2>1, <2>2 DEF CalmMail
<1>5. (\A b \in bounced' : b[2] <= accepted'[b[1]]) /\ (calm' => CalmMail')
  BY <1>4 DEF MailInv
<1> QED BY <1>1, <1>2, <1>3, <1>5 DEF MailInv

LEMMA MailAtOnceStep ==
  ASSUME MailInv,
         \/ Sweep \/ (\E r \in Rows : complaint(r)) \/ (\E u \in Users : lift(u) \/ ToggleUser(u))
         \/ UNCHANGED <<callVars, jobVars, mailVars>>
  PROVE  MailInv'
<1>1. MailTypes /\ (\A r \in Rows : jobs[r] # NoJob => Begun(r)) /\ calm \in BOOLEAN
  BY DEF MailInv
<1>2. ASSUME Sweep PROVE MailInv'
  <2>1. jobs' = WithJobs(StaleQueued) /\ UNCHANGED <<mailVars, callVars>>
    BY <1>2 DEF Sweep, sweep
  <2>2. \A r \in Rows : r \in StaleQueued => Begun(r)
    BY DEF StaleQueued, Begun
  <2>3. jobs' = [j \in JobIds |-> jobs'[j]] /\ \A r \in Rows : jobs'[r] # NoJob => Begun(r)
    BY <2>1, <2>2, AddedJobs
  <2>4. UNCHANGED <<calls, calm, log, accepted, bounced, asked, unrecorded, suppressed>>
    BY <2>1 DEF mailVars, callVars
  <2> QED BY <1>1, <2>3, <2>4, MailCallsStay
<1>3. ASSUME AtOnce, UNCHANGED <<log, accepted, bounced, asked, unrecorded, jobs>> PROVE MailInv'
  <2>1. calls' = calls /\ calm' = (calm /\ Quiet)
    BY <1>3 DEF AtOnce, Counted
  <2>2. jobs' = [j \in JobIds |-> jobs'[j]] /\ \A r \in Rows : jobs'[r] # NoJob => Begun(r)
    BY <1>1, <1>3 DEF MailTypes
  <2>3. calm' \in BOOLEAN /\ (calm' => calm /\ Quiet)
    BY <2>1
  <2> QED BY <1>3, <2>1, <2>2, <2>3, MailCallsStay
<1>4. ASSUME \/ \E r \in Rows : complaint(r)
             \/ \E u \in Users : lift(u) \/ ToggleUser(u)
      PROVE  MailInv'
  BY <1>3, <1>4 DEF complaint, lift, ToggleUser, jobVars
<1>5. ASSUME UNCHANGED <<callVars, jobVars, mailVars>> PROVE MailInv'
  <2>1. UNCHANGED <<calls, calm, log, accepted, bounced, asked, unrecorded, suppressed, jobs>>
    BY <1>5 DEF mailVars, callVars, jobVars
  <2>2. jobs' = [j \in JobIds |-> jobs'[j]] /\ \A r \in Rows : jobs'[r] # NoJob => Begun(r)
    BY <1>1, <2>1 DEF MailTypes
  <2> QED BY <1>1, <2>1, <2>2, MailCallsStay
<1> QED BY <1>2, <1>4, <1>5

(* A process is lost, perhaps between SES and SENT.                         *)
LEMMA MailLoseStep ==
  ASSUME MailInv, NEW h \in Handlers, MailLose(h)
  PROVE  MailInv'
<1>0. PICK c : c = calls[h]
  OBVIOUS
<1>1. MailCall(h, c) /\ MailRows(h, c) /\ MailTypes /\ (\A r \in Rows : SendsOK(r) /\ (jobs[r] # NoJob => Begun(r)))
  BY <1>0 DEF MailInv
<1>2. /\ c # Idle /\ calls' = [calls EXCEPT ![h] = Idle] /\ calm' = FALSE
      /\ unrecorded' = IF c.pc = "writeSent" THEN [unrecorded EXCEPT ![c.job] = @ + 1] ELSE unrecorded
      /\ UNCHANGED <<log, suppressed, accepted, bounced, asked, jobs>>
  BY <1>0 DEF MailLose, Lose
<1>3. MailCall(h, Idle) /\ MailRows(h, Idle) /\ MailRows(h, Idle)' /\ Idle.pc = "idle"
  BY DEF MailCall, MailRows, Idle
<1>4. jobs' = [j \in JobIds |-> jobs'[j]] /\ \A r \in Rows : jobs'[r] # NoJob => Begun(r)
  BY <1>1, <1>2 DEF MailTypes
<1>5. CASE c.pc # "writeSent"
  <2>1. UNCHANGED <<log, suppressed, accepted, bounced, asked, unrecorded>>
    BY <1>2, <1>5
  <2> QED BY <1>0, <1>2, <1>3, <1>4, <1>5, <2>1, MailTablesStay
<1>6. CASE c.pc = "writeSent"
  <2>1. h \in Workers
    BY <1>1, <1>6, WhoIsWho DEF MailCall
  <2>2. PICK r : r = c.job
    OBVIOUS
  <2>3. r \in Rows /\ Begun(r)
    BY <1>1, <1>2, <2>1, <2>2 DEF MailCall, MailRows
  <2>4. PICK l, a, k, u : l = log[r] /\ a = accepted[r] /\ k = asked[r] /\ u = unrecorded[r] + 1
    OBVIOUS
  <2>5. /\ a \in Nat /\ k \in Nat /\ u \in Nat /\ a <= k + u /\ a < k + u /\ accepted[r] <= a
        /\ l \in [status : {"QUEUED", "SENT", "FAILED"}, msg : Nat]
    <3>1. SendsOK(r) /\ accepted[r] \in Nat /\ asked[r] \in Nat /\ unrecorded[r] \in Nat
      BY <1>1, <2>3 DEF MailTypes
    <3>2. l \in [status : {"QUEUED", "SENT", "FAILED"}, msg : Nat]
      BY <1>1, <2>3, <2>4 DEF MailTypes, Begun
    <3>3. a \in Nat /\ k \in Nat /\ u \in Nat /\ a <= k + (u - 1)
      BY <2>4, <3>1 DEF SendsOK
    <3> QED BY <2>4, <3>2, <3>3
  <2>6. /\ log' = [log EXCEPT ![r] = l] /\ accepted' = [accepted EXCEPT ![r] = a]
        /\ asked' = [asked EXCEPT ![r] = k] /\ unrecorded' = [unrecorded EXCEPT ![r] = u]
    BY <1>1, <1>2, <1>6, <2>2, <2>4 DEF MailTypes
  <2> QED BY <1>0, <1>2, <1>3, <1>4, <2>1, <2>2, <2>3, <2>5, <2>6, MailRowChanges
<1> QED BY <1>5, <1>6

LEMMA MailSteps == ASSUME MailInv, [MailNext]_<<callVars, jobVars, mailVars>> PROVE MailInv'
<1>1. ASSUME NEW w \in Workers, (\E r \in Rows : send(w, r)) \/ GoOn(w) \/ SendFails(w) PROVE MailInv'
  <2>1. SendFails(w) => calls[w].pc \in {"callSes", "writeSent"}
    BY DEF SendFails
  <2> QED BY <1>1, <2>1, WorkerJobsStep, WorkerRowStep DEF GoOn
<1>2. ASSUME NEW h \in Clients, Client(h) PROVE MailInv'
  <2>1. ASSUME NEW e \in Events, NEW to \in SUBSET Users, notify(h, e, to) PROVE MailInv'
    BY <2>1, NotifyStep
  <2>2. ASSUME NEW r \in Rows, NEW n \in 1..MaxSends, NEW p \in BOOLEAN, bounce(h, r, n, p) PROVE MailInv'
    <3>1. n \in Nat
      BY MailAssumption
    <3> QED BY <2>2, <3>1, BounceStep
  <2>3. CASE EnqueueRows(h) \/ BeginSweep(h) \/ SweepRows(h) \/ EnqueueRetry(h) \/ \E r \in Rows : retry(h, r)
    BY <2>3, ClientJobsStep
  <2>4. CASE Requeue(h) \/ FailRow(h)
    BY <2>4, ClientRowStep
  <2> QED BY <1>2, <2>1, <2>2, <2>3, <2>4 DEF Client
<1>3. ASSUME NEW h \in Handlers, MailLose(h) PROVE MailInv'
  BY <1>3, MailLoseStep
<1>4. CASE \/ Sweep \/ (\E r \in Rows : complaint(r)) \/ (\E u \in Users : lift(u) \/ ToggleUser(u))
           \/ UNCHANGED <<callVars, jobVars, mailVars>>
  BY <1>4, MailAtOnceStep
<1> QED BY <1>1, <1>2, <1>3, <1>4 DEF MailNext

(* Whatever callers, sweeps, retries, workers and losses overlap, a mail is *)
(* sent once for each asking; and one call at a time, none goes to an       *)
(* address on the suppression list and no handled bounce is hidden by SENT  *)
(* (apps/api/src/notifications).                                            *)
THEOREM MailIsSentOnce == MailSpec => []MailAddsUp
<1>1. CallsInit /\ JobsInit /\ MailInit => MailInv
  BY MailStarts
<1>2. MailInv /\ [MailNext]_<<callVars, jobVars, mailVars>> => MailInv'
  BY MailSteps
<1>3. MailInv => MailAddsUp
  BY DEF MailInv, CalmMail, SendsOK, MailAddsUp, EachAskSendsOnce, NoMailToSuppressed, BounceShows
<1> QED BY <1>1, <1>2, <1>3, PTL DEF MailSpec

-----------------------------------------------------------------------------
(* Documents. *)
DocSpec == CallsInit /\ JobsInit /\ DocInit /\ [][DocNext]_<<callVars, jobVars, docVars>>

Written(f) == row[f].scan # "none"
DocTypes ==
    /\ row \in [Files -> [scan : {"none", "PENDING_SCAN", "CLEAN", "INFECTED", "SCAN_FAILED"}, live : BOOLEAN]]
    /\ jobs = [j \in JobIds |-> jobs[j]] /\ stored \subseteq Files /\ calm \in BOOLEAN

ScanPcs == {"scanDone", "download", "scanThrew", "deleteObject", "writeClean", "writeInfected"}
UploadPcs == {"createRow", "dropObject", "retire", "enqueueScan"}
DocCall(h, c) ==
    /\ h \in Workers /\ c # Idle => c = [job |-> c.job, pc |-> c.pc] /\ c.job \in Files /\ c.pc \in ScanPcs
    /\ h \in Clients /\ c # Idle => c = [pc |-> c.pc, f |-> c.f] /\ c.f \in Files /\ c.pc \in UploadPcs
DocRows(h, c) ==
    /\ h \in Workers /\ c # Idle =>
         /\ Written(c.job)
         /\ c.pc = "writeInfected" => c.job \notin stored
         /\ c.pc = "writeClean" => c.job \notin Infected
    /\ h \in Clients /\ c # Idle =>
         /\ Written(c.f) <=> c.pc \in {"retire", "enqueueScan"}
         /\ c.pc = "retire" => c.f \in Attached /\ (calm => row[c.f].live)

(* Each upload has a file of its own.                                       *)
OneUpload == \A g, h \in Clients : g # h /\ calls[g] # Idle /\ calls[h] # Idle => calls[g].f # calls[h].f
Uploading(f) == \E h \in Clients : calls[h] # Idle /\ calls[h].f = f
FileOK(f) ==
    /\ row[f].scan = "INFECTED" => f \notin stored
    /\ row[f].scan = "CLEAN" => f \notin Infected
    /\ jobs[f] # NoJob => Written(f)
    /\ f \in stored => Written(f) \/ f \in orphaned \/ Uploading(f)
OneLive == \A f, g \in Attached : row[f].live /\ row[g].live => f = g
Retiring == \E h \in Clients : calls[h].pc = "retire"

DocInv ==
    /\ calls = [h \in Handlers |-> calls[h]] /\ AtMostOne
    /\ DocTypes /\ OneUpload
    /\ \A h \in Handlers : DocCall(h, calls[h]) /\ DocRows(h, calls[h])
    /\ \A f \in Files : FileOK(f)
    /\ calm => Retiring \/ OneLive

LEMMA DocStarts == ASSUME CallsInit, JobsInit, DocInit PROVE DocInv
<1>1. /\ calls = [h \in Handlers |-> calls[h]] /\ calm = TRUE /\ \A h \in Handlers : calls[h] = Idle
  BY DEF CallsInit
<1>2. DocTypes
  BY <1>1 DEF DocInit, JobsInit, DocTypes, NoRow
<1>3. \A f \in Files : FileOK(f) /\ ~row[f].live
  BY DocumentsAssumption DEF DocInit, JobsInit, FileOK, NoRow, Written
<1>4. OneUpload /\ OneLive
  BY <1>1, <1>3, DocumentsAssumption DEF OneUpload, OneLive, Clients
<1>5. \A h \in Handlers : DocCall(h, calls[h]) /\ DocRows(h, calls[h])
  BY <1>1 DEF DocCall, DocRows
<1> QED BY <1>1, <1>2, <1>3, <1>4, <1>5 DEF DocInv, AtMostOne

(* One call moves from c to d; rows and objects change only as its own file *)
(* does.                                                                    *)
LEMMA DocMoves ==
  ASSUME DocInv, NEW h \in Handlers, NEW c, NEW d, c = calls[h], calls' = [calls EXCEPT ![h] = d],
         DocTypes', DocCall(h, d), DocRows(h, d)',
         calm' => calm /\ \A g \in Handlers \ {h} : calls[g] = Idle,
         h \in Clients /\ d # Idle => \A g \in Clients \ {h} : calls[g] # Idle => calls[g].f # d.f,
         \A f \in Files : Written(f) => Written(f)',
         \A f \in Files : Written(f)' => Written(f) \/ (h \in Clients /\ c # Idle /\ f = c.f),
         \A f \in Files : row'[f].scan = "INFECTED" => row[f].scan = "INFECTED" \/ f \notin stored',
         \A f \in Files : row'[f].scan = "CLEAN" => row[f].scan = "CLEAN" \/ f \notin Infected,
         \A f \in Files : jobs'[f] # NoJob => Written(f)',
         \A f \in Files : f \in stored' => f \in stored \/ (~Written(f) /\ h \in Clients /\ d # Idle /\ d.f = f),
         orphaned \subseteq orphaned',
         h \in Clients /\ c # Idle /\ (d = Idle \/ d.f # c.f) => c.f \notin stored' \/ Written(c.f)' \/ c.f \in orphaned',
         calm' => (h \in Clients /\ d.pc = "retire") \/ OneLive'
  PROVE  DocInv'
<1>1. calls' = [g \in Handlers |-> calls'[g]] /\ \A g \in Handlers : calls'[g] = IF g = h THEN d ELSE calls[g]
  BY DEF DocInv
<1>2. AtMostOne'
  BY <1>1 DEF DocInv, AtMostOne
<1>3. OneUpload'
  BY <1>1 DEF DocInv, OneUpload, Clients
<1>4. ASSUME NEW g \in Handlers PROVE DocCall(g, calls[g])' /\ DocRows(g, calls[g])'
  <2>1. CASE g = h
    <3>1. calls'[g] = d
      BY <1>1, <2>1
    <3> QED BY <2>1, <3>1 DEF DocCall, DocRows
  <2>2. CASE g # h
    <3>1. PICK e : e = calls[g]
      OBVIOUS
    <3>2. calls'[g] = e /\ DocCall(g, e) /\ DocRows(g, e)
      BY <1>1, <2>2, <3>1 DEF DocInv
    <3>3. DocCall(g, e)'
      BY <3>2 DEF DocCall
    <3>4. g \in Workers /\ e # Idle => Written(e.job)' /\ (e.pc = "writeInfected" => e.job \notin stored')
      BY <3>2 DEF DocCall, DocRows
    <3>5. ASSUME g \in Clients, e # Idle
          PROVE  (Written(e.f)' <=> e.pc \in {"retire", "enqueueScan"}) /\ ~calm'
      <4>1. e.f \in Files /\ (h \in Clients /\ c # Idle => e.f # c.f)
        BY <2>2, <3>1, <3>2, <3>5 DEF DocCall, DocInv, OneUpload
      <4>2. Written(e.f)' <=> Written(e.f)
        BY <4>1
      <4>3. ~calm'
        BY <2>2, <3>1, <3>5
      <4> QED BY <3>2, <3>5, <4>2, <4>3 DEF DocRows
    <3>6. DocRows(g, e)'
      BY <3>2, <3>4, <3>5 DEF DocRows
    <3> QED BY <3>2, <3>3, <3>6
  <2> QED BY <2>1, <2>2
<1>5. ASSUME NEW f \in Files PROVE FileOK(f)'
  <2>1. FileOK(f)
    BY DEF DocInv
  <2>2. row'[f].scan = "INFECTED" => f \notin stored'
    BY <2>1 DEF FileOK, Written
  <2>3. ASSUME f \in stored' PROVE Written(f)' \/ f \in orphaned' \/ Uploading(f)'
    <3>1. CASE f \notin stored
      BY <1>1, <2>3, <3>1 DEF Uploading
    <3>2. CASE f \in stored /\ Uploading(f)
      <4>1. PICK g \in Clients : calls[g] # Idle /\ calls[g].f = f
        BY <3>2 DEF Uploading
      <4>2. CASE g = h
        BY <1>1, <2>3, <4>1, <4>2 DEF Uploading
      <4>3. CASE g # h
        BY <1>1, <4>1, <4>3 DEF Uploading, Clients
      <4> QED BY <4>2, <4>3
    <3> QED BY <2>1, <3>1, <3>2 DEF FileOK
  <2> QED BY <2>1, <2>2, <2>3 DEF FileOK
<1>6. calm' => Retiring' \/ OneLive'
  BY <1>1 DEF Retiring
<1> QED BY <1>1, <1>2, <1>3, <1>4, <1>5, <1>6 DEF DocInv

(* No call moves.                                                           *)
LEMMA DocCallsStay ==
  ASSUME DocInv, UNCHANGED <<calls, stored, orphaned>>, DocTypes',
         \A f \in Files : row'[f].scan = row[f].scan /\ (row'[f].live => row[f].live),
         \A f \in Files : jobs'[f] # NoJob => Written(f),
         calm' => calm /\ (Quiet \/ row' = row)
  PROVE  DocInv'
<1>1. \A f \in Files : (Written(f)' <=> Written(f)) /\ (Uploading(f)' <=> Uploading(f)) /\ FileOK(f)
  BY DEF Written, Uploading, DocInv
<1>2. \A f \in Files : FileOK(f)'
  BY <1>1 DEF FileOK
<1>3. ASSUME NEW h \in Handlers PROVE DocCall(h, calls[h])' /\ DocRows(h, calls[h])'
  <2>1. PICK c : c = calls[h]
    OBVIOUS
  <2>2. calls'[h] = c /\ DocCall(h, c) /\ DocRows(h, c)
    BY <2>1 DEF DocInv
  <2>3. DocCall(h, c)'
    BY <2>2 DEF DocCall
  <2>4. calm' /\ c # Idle => row' = row
    BY <2>1 DEF Quiet, Running
  <2>5. DocRows(h, c)'
    BY <1>1, <2>2, <2>4 DEF DocRows, DocCall
  <2> QED BY <2>2, <2>3, <2>5
<1>4. ASSUME calm' PROVE Retiring' \/ OneLive'
  BY <1>4, DocumentsAssumption DEF DocInv, Retiring, OneLive
<1>5. OneUpload' /\ AtMostOne' /\ calls' = [h \in Handlers |-> calls'[h]]
  BY DEF DocInv, OneUpload, AtMostOne
<1>6. calm' => Retiring' \/ OneLive'
  BY <1>4
<1> QED BY <1>2, <1>3, <1>5, <1>6 DEF DocInv

(* The worker's steps: it takes a job, goes on, or ends with a verdict.     *)
LEMMA ScanStep ==
  ASSUME DocInv, NEW w \in Workers, (\E f \in Files : scanDocument(w, f)) \/ DocGoOn(w) \/ ScanFails(w)
  PROVE  DocInv'
<1>0. PICK c : c = calls[w]
  OBVIOUS
<1>1. w \in Handlers /\ w \notin Clients /\ DocCall(w, c) /\ DocRows(w, c)
  BY <1>0, JobsAssumption DEF DocInv, Clients
<1>2. DocTypes /\ \A f \in Files : FileOK(f)
  BY DEF DocInv
<1>3. DocCall(w, Idle) /\ DocRows(w, Idle)' /\ Idle.pc = "idle"
  BY <1>1 DEF DocCall, DocRows, Idle
<1>4. ASSUME NEW d, calls' = [calls EXCEPT ![w] = d], calm' => calm /\ \A g \in Handlers \ {w} : calls[g] = Idle,
             calm' \in BOOLEAN, UNCHANGED <<row, stored, orphaned>>, jobs' = [j \in JobIds |-> jobs'[j]],
             \A f \in Files : jobs'[f] # NoJob => Written(f), DocCall(w, d), DocRows(w, d)
      PROVE  DocInv'
  <2>1. DocTypes'
    BY <1>2, <1>4 DEF DocTypes
  <2>2. DocRows(w, d)'
    BY <1>1, <1>4 DEF DocRows, Written
  <2>3. \A f \in Files : Written(f)' <=> Written(f)
    BY <1>4 DEF Written
  <2>4. calm' => OneLive'
    <3>1. ASSUME calm' PROVE ~Retiring
      <4>1. \A h \in Clients : calls[h] = Idle
        BY <1>1, <1>4, <3>1 DEF Clients
      <4> QED BY <4>1 DEF Retiring, Idle
    <3> QED BY <1>4, <3>1 DEF DocInv, OneLive
  <2>5. \A f \in Files : row'[f] = row[f] /\ (f \in stored' <=> f \in stored) /\ (jobs'[f] # NoJob => Written(f)')
    BY <1>4, <2>3
  <2>6. \A f \in Files : FileOK(f)
    BY DEF DocInv
  <2> QED BY <1>0, <1>1, <1>4, <2>1, <2>2, <2>3, <2>4, <2>5, DocMoves
<1>5. calls[w] # Idle => (calm => \A g \in Handlers \ {w} : calls[g] = Idle)
  BY <1>1 DEF DocInv, AtMostOne
<1>6. PICK f : f = c.job
  OBVIOUS
<1>7. c # Idle => f \in Files /\ c = [job |-> f, pc |-> c.pc] /\ Written(f)
  BY <1>1, <1>6 DEF DocCall, DocRows
<1>8. ASSUME NEW g \in Files, scanDocument(w, g) PROVE DocInv'
  <2>1. PICK x : x = IF Decided(g) THEN "scanDone" ELSE "download"
    OBVIOUS
  <2>2. PICK d : d = [job |-> g, pc |-> x]
    OBVIOUS
  <2>3. Take(w, g, x) /\ UNCHANGED <<docVars, jobVars>>
    BY <1>8, <2>1 DEF scanDocument
  <2>4. /\ calls' = [calls EXCEPT ![w] = d] /\ jobs[g] # NoJob
        /\ calm' = (calm /\ Quiet) /\ (calm' => calm /\ \A h \in Handlers : calls[h] = Idle)
    BY <1>1, <2>2, <2>3, TakenAlone
  <2>5. Written(g)
    BY <1>2, <2>4 DEF FileOK
  <2>6. DocCall(w, d) /\ DocRows(w, d)
    BY <1>1, <2>1, <2>2, <2>5 DEF DocCall, DocRows, ScanPcs
  <2>7. /\ UNCHANGED <<row, stored, orphaned>> /\ jobs' = [j \in JobIds |-> jobs'[j]]
        /\ \A q \in Files : jobs'[q] # NoJob => Written(q)
    BY <1>2, <2>3 DEF docVars, jobVars, DocTypes, FileOK
  <2>8. calm' \in BOOLEAN /\ (calm' => calm /\ \A h \in Handlers \ {w} : calls[h] = Idle)
    BY <2>4
  <2> QED BY <1>4, <2>4, <2>6, <2>7, <2>8
<1>9. ASSUME NEW x, x \in ScanPcs \ {"writeInfected"}, x = "writeClean" => f \notin Infected, c # Idle,
             Continue(w, [c EXCEPT !.pc = x]), UNCHANGED <<row, stored, orphaned, jobs>>
      PROVE  DocInv'
  <2>1. PICK d : d = [job |-> f, pc |-> x]
    OBVIOUS
  <2>2. [c EXCEPT !.pc = x] = d
    BY <1>7, <1>9, <2>1
  <2>3. calls' = [calls EXCEPT ![w] = d] /\ calm' = calm
    BY ONLY <1>9, <2>2 DEF Continue
  <2>4. DocCall(w, d) /\ DocRows(w, d)
    BY <1>1, <1>7, <1>9, <2>1 DEF DocCall, DocRows
  <2>5. jobs' = [j \in JobIds |-> jobs'[j]] /\ (\A q \in Files : jobs'[q] # NoJob => Written(q)) /\ calm' \in BOOLEAN
    BY <1>2, <1>9, <2>3 DEF DocTypes, FileOK
  <2>6. calm' => calm /\ \A g \in Handlers \ {w} : calls[g] = Idle
    BY <1>0, <1>5, <1>9, <2>3
  <2> QED BY <1>4, <1>9, <2>3, <2>4, <2>5, <2>6
<1>10. CASE ScanDone(w)
  <2>1. /\ calls' = [calls EXCEPT ![w] = Idle] /\ calm' = calm /\ c.pc = "scanDone"
        /\ jobs' = [jobs EXCEPT ![f] = NoJob] /\ UNCHANGED docVars
    BY <1>0, <1>6, <1>10 DEF ScanDone, Finish, Continue, Completed
  <2>2. jobs' = [j \in JobIds |-> jobs'[j]] /\ \A q \in Files : jobs'[q] # NoJob => Written(q)
    BY <1>2, <2>1, DocumentsAssumption DEF DocTypes, FileOK
  <2>3. c # Idle
    BY <1>3, <2>1
  <2>4. calm' \in BOOLEAN /\ (calm' => calm /\ \A g \in Handlers \ {w} : calls[g] = Idle)
    BY <1>0, <1>2, <1>5, <2>1, <2>3 DEF DocTypes
  <2>5. UNCHANGED <<row, stored, orphaned>> /\ DocRows(w, Idle)
    BY <1>1, <2>1 DEF docVars, DocRows
  <2> QED BY <1>3, <1>4, <2>1, <2>2, <2>4, <2>5
<1>11. CASE Scan(w)
  <2>1. PICK x : x = IF f \in Infected THEN "deleteObject" ELSE "writeClean"
    OBVIOUS
  <2>2. Continue(w, [c EXCEPT !.pc = x]) /\ UNCHANGED <<row, stored, orphaned, jobs>> /\ c.pc = "download"
    BY <1>0, <1>6, <1>11, <2>1 DEF Scan, docVars, jobVars
  <2>3. c # Idle /\ x \in ScanPcs \ {"writeInfected"} /\ (x = "writeClean" => f \notin Infected)
    BY <1>3, <2>1, <2>2 DEF ScanPcs
  <2> QED BY <1>9, <2>2, <2>3
<1>12. CASE ScanFails(w)
  <2>1. Continue(w, [c EXCEPT !.pc = "scanThrew"]) /\ UNCHANGED <<row, stored, orphaned, jobs>> /\ c.pc = "download"
    BY <1>0, <1>12 DEF ScanFails, docVars
  <2>2. c # Idle /\ "scanThrew" \in ScanPcs \ {"writeInfected"}
    BY <1>3, <2>1 DEF ScanPcs
  <2> QED BY <1>9, <2>1, <2>2
<1>13. ASSUME NEW s, c # Idle, s \in {"SCAN_FAILED", "CLEAN", "INFECTED"}, NEW z,
              s = "CLEAN" => f \notin Infected, s = "INFECTED" => f \notin stored,
              row' = [row EXCEPT ![f].scan = s], UNCHANGED <<stored, orphaned>>,
              jobs' = [jobs EXCEPT ![f] = z], Continue(w, Idle)
       PROVE  DocInv'
  <2>1. calls' = [calls EXCEPT ![w] = Idle] /\ calm' = calm
    BY <1>13 DEF Continue
  <2>2. PICK y : y = [row[f] EXCEPT !.scan = s]
    OBVIOUS
  <2>3. row' = [row EXCEPT ![f] = y]
    BY <1>13, <2>2
  <2>4. y \in [scan : {"none", "PENDING_SCAN", "CLEAN", "INFECTED", "SCAN_FAILED"}, live : BOOLEAN]
        /\ y.scan = s /\ y.live = row[f].live
    BY <1>2, <1>7, <1>13, <2>2 DEF DocTypes
  <2>5. /\ row' \in [Files -> [scan : {"none", "PENDING_SCAN", "CLEAN", "INFECTED", "SCAN_FAILED"}, live : BOOLEAN]]
        /\ \A q \in Files : row'[q].live = row[q].live /\ row'[q].scan = IF q = f THEN s ELSE row[q].scan
    BY <1>2, <1>7, <1>13, <2>3, <2>4 DEF DocTypes
  <2>6. jobs' = [j \in JobIds |-> jobs'[j]] /\ DocTypes'
    BY <1>2, <1>13, <2>1, <2>5 DEF DocTypes
  <2>7. \A q \in Files : Written(q)' <=> Written(q)
    BY <1>7, <1>13, <2>5 DEF Written
  <2>8. \A q \in Files : jobs'[q] # NoJob => Written(q)'
    BY <1>2, <1>7, <1>13, <2>7, DocumentsAssumption DEF DocTypes, FileOK
  <2>9. calm' => calm /\ \A g \in Handlers \ {w} : calls[g] = Idle
    BY <1>0, <1>5, <1>13, <2>1
  <2>10. calm' => OneLive'
    <3>1. ASSUME calm' PROVE ~Retiring
      <4>1. \A h \in Clients : calls[h] = Idle
        BY <1>1, <2>9, <3>1 DEF Clients
      <4> QED BY <4>1 DEF Retiring, Idle
    <3> QED BY <2>1, <2>5, <3>1, DocumentsAssumption DEF DocInv, OneLive
  <2>11. /\ \A q \in Files : row'[q].scan = "INFECTED" => row[q].scan = "INFECTED" \/ q \notin stored'
         /\ \A q \in Files : row'[q].scan = "CLEAN" => row[q].scan = "CLEAN" \/ q \notin Infected
         /\ \A q \in Files : q \in stored' => q \in stored
    BY <1>13, <2>5
  <2> QED BY <1>0, <1>1, <1>3, <1>13, <2>1, <2>6, <2>7, <2>8, <2>9, <2>10, <2>11, DocMoves
<1>14. CASE ScanThrew(w)
  <2>1. /\ c.pc = "scanThrew" /\ row' = IF LastAttempt(f) THEN [row EXCEPT ![f].scan = "SCAN_FAILED"] ELSE row
        /\ jobs' = Threw(f) /\ Continue(w, Idle) /\ UNCHANGED <<stored, orphaned>>
    BY <1>0, <1>6, <1>14 DEF ScanThrew, Finish
  <2>2. c # Idle
    BY <1>3, <2>1
  <2>3. PICK z : jobs' = [jobs EXCEPT ![f] = z]
    BY <2>1 DEF Threw
  <2>4. CASE LastAttempt(f)
    <3>1. PICK s : s = "SCAN_FAILED"
      OBVIOUS
    <3>2. row' = [row EXCEPT ![f].scan = s] /\ Continue(w, Idle) /\ UNCHANGED <<stored, orphaned>>
      BY <2>1, <2>4, <3>1
    <3>3. s \in {"SCAN_FAILED", "CLEAN", "INFECTED"} /\ s # "CLEAN" /\ s # "INFECTED"
      BY <3>1
    <3> QED BY ONLY <1>13, <2>2, <2>3, <3>2, <3>3
  <2>5. CASE ~LastAttempt(f)
    <3>1. UNCHANGED <<row, stored, orphaned>> /\ calls' = [calls EXCEPT ![w] = Idle] /\ calm' = calm
      BY <2>1, <2>5 DEF Continue
    <3>2. jobs' = [j \in JobIds |-> jobs'[j]] /\ \A q \in Files : jobs'[q] # NoJob => Written(q)
      BY <1>2, <1>7, <2>2, <2>3, DocumentsAssumption DEF DocTypes, FileOK
    <3>3. calm' \in BOOLEAN /\ (calm' => calm /\ \A g \in Handlers \ {w} : calls[g] = Idle)
      BY <1>0, <1>2, <1>5, <2>2, <3>1 DEF DocTypes
    <3>4. DocRows(w, Idle)
      BY <1>1 DEF DocRows
    <3> QED BY <1>3, <1>4, <3>1, <3>2, <3>3, <3>4
  <2> QED BY <2>4, <2>5
<1>15. CASE Verdict(w)
  <2>1. CASE c.pc = "deleteObject"
    <3>1. /\ stored' = stored \ {f} /\ Continue(w, [c EXCEPT !.pc = "writeInfected"])
          /\ UNCHANGED <<row, orphaned, jobs>>
      BY <1>0, <1>6, <1>15, <2>1 DEF Verdict, jobVars
    <3>2. c # Idle
      BY <1>3, <2>1
    <3>3. PICK d : d = [job |-> f, pc |-> "writeInfected"]
      OBVIOUS
    <3>4. [c EXCEPT !.pc = "writeInfected"] = d
      BY <1>7, <3>2, <3>3
    <3>5. calls' = [calls EXCEPT ![w] = d] /\ calm' = calm
      BY ONLY <3>1, <3>4 DEF Continue
    <3>6. DocCall(w, d) /\ DocRows(w, d)'
      BY <1>1, <1>7, <3>1, <3>2, <3>3 DEF DocCall, DocRows, ScanPcs, Written
    <3>7. DocTypes' /\ \A q \in Files : (Written(q)' <=> Written(q)) /\ (jobs'[q] # NoJob => Written(q)')
      BY <1>2, <3>1, <3>5 DEF DocTypes, Written, FileOK
    <3>8. calm' => calm /\ \A g \in Handlers \ {w} : calls[g] = Idle
      BY <1>0, <1>5, <3>2, <3>5
    <3>9. calm' => OneLive'
      <4>1. ASSUME calm' PROVE ~Retiring
        <5>1. \A h \in Clients : calls[h] = Idle
          BY <1>1, <3>8, <4>1 DEF Clients
        <5> QED BY <5>1 DEF Retiring, Idle
      <4> QED BY <3>1, <3>5, <4>1 DEF DocInv, OneLive
    <3>10. \A q \in Files : row'[q] = row[q] /\ (q \in stored' => q \in stored)
      BY <3>1
    <3> QED BY <1>0, <1>1, <3>1, <3>5, <3>6, <3>7, <3>8, <3>9, <3>10, DocMoves
  <2>2. CASE c.pc \in {"writeClean", "writeInfected"}
    <3>1. PICK s : s = IF c.pc = "writeClean" THEN "CLEAN" ELSE "INFECTED"
      OBVIOUS
    <3>2. /\ row' = [row EXCEPT ![f].scan = s] /\ jobs' = [jobs EXCEPT ![f] = NoJob]
          /\ Continue(w, Idle) /\ UNCHANGED <<stored, orphaned>>
      BY <1>0, <1>6, <1>15, <2>2, <3>1 DEF Verdict, Finish, Completed
    <3>3. c # Idle
      BY <1>3, <2>2
    <3>4. (s = "CLEAN" => f \notin Infected) /\ (s = "INFECTED" => f \notin stored) /\ s \in {"CLEAN", "INFECTED"}
      BY <1>1, <1>6, <2>2, <3>1, <3>3 DEF DocRows
    <3> QED BY <1>13, <3>2, <3>3, <3>4
  <2> QED BY <1>0, <1>15, <2>1, <2>2 DEF Verdict
<1> QED BY <1>8, <1>10, <1>11, <1>12, <1>14, <1>15 DEF DocGoOn

(* The steps of an upload.                                                  *)
LEMMA UploadStep ==
  ASSUME DocInv, NEW h \in Clients,
         (\E f \in Files : upload(h, f)) \/ CreateRow(h) \/ createFails(h) \/ DropObject(h) \/ Retire(h) \/ EnqueueScan(h)
  PROVE  DocInv'
<1>0. PICK c : c = calls[h]
  OBVIOUS
<1>1. h \in Handlers /\ h \notin Workers /\ DocCall(h, c) /\ DocRows(h, c)
  BY <1>0 DEF DocInv, Clients
<1>2. DocTypes /\ (\A f \in Files : FileOK(f)) /\ (calm => Retiring \/ OneLive)
  BY DEF DocInv
<1>3. DocCall(h, Idle) /\ DocRows(h, Idle)' /\ Idle.pc = "idle"
  BY <1>1 DEF DocCall, DocRows, Idle
<1>4. c # Idle => (calm => \A g \in Handlers \ {h} : calls[g] = Idle)
  BY <1>0, <1>1 DEF DocInv, AtMostOne
<1>5. PICK f : f = c.f
  OBVIOUS
<1>6. c # Idle => /\ f \in Files /\ c = [pc |-> c.pc, f |-> f] /\ c.pc \in UploadPcs
                  /\ \A g \in Clients \ {h} : calls[g] # Idle => calls[g].f # f
                  /\ Written(f) <=> c.pc \in {"retire", "enqueueScan"}
  BY <1>0, <1>1, <1>5 DEF DocCall, DocRows, DocInv, OneUpload
<1>7. \A q \in Files : jobs[q] # NoJob => Written(q)
  BY <1>2 DEF FileOK
<1>8. calm /\ c # Idle /\ c.pc # "retire" => OneLive
  <2>1. ASSUME calm, c # Idle, c.pc # "retire" PROVE ~Retiring
    <3>1. \A g \in Clients : g = h \/ calls[g] = Idle
      BY <1>4, <2>1 DEF Clients
    <3> QED BY <1>0, <2>1, <3>1 DEF Retiring, Idle
  <2> QED BY <1>2, <2>1
<1>9. ASSUME NEW q \in Files, upload(h, q) PROVE DocInv'
  <2>1. PICK d : d = [pc |-> "createRow", f |-> q]
    OBVIOUS
  <2>2. /\ row[q] = NoRow /\ q \notin {calls[g].f : g \in {k \in Clients : calls[k] # Idle}}
        /\ stored' = stored \cup {q} /\ Begin(h, d) /\ UNCHANGED <<row, orphaned, jobs>>
    BY <1>9, <2>1 DEF upload, jobVars
  <2>3. /\ calls' = [calls EXCEPT ![h] = d] /\ calm' = (calm /\ Quiet) /\ c = Idle
        /\ (calm' => calm /\ \A g \in Handlers : calls[g] = Idle)
    BY <1>0, <1>1, <2>2, BegunAlone
  <2>4. ~Written(q) /\ \A g \in Clients \ {h} : calls[g] # Idle => calls[g].f # q
    BY <2>2 DEF Written, NoRow
  <2>5. DocCall(h, d) /\ DocRows(h, d)'
    BY <1>1, <2>1, <2>2, <2>4 DEF DocCall, DocRows, UploadPcs, Written
  <2>6. DocTypes' /\ \A g \in Files : (Written(g)' <=> Written(g)) /\ (jobs'[g] # NoJob => Written(g)')
    BY <1>2, <1>7, <2>2, <2>3 DEF DocTypes, Written
  <2>7. calm' => OneLive'
    <3>1. ASSUME calm' PROVE ~Retiring
      BY <2>3, <3>1 DEF Retiring, Idle, Clients
    <3> QED BY <1>2, <2>2, <2>3, <3>1 DEF OneLive
  <2>8. /\ \A g \in Files : row'[g].scan = "INFECTED" => row[g].scan = "INFECTED" \/ g \notin stored'
        /\ \A g \in Files : row'[g].scan = "CLEAN" => row[g].scan = "CLEAN" \/ g \notin Infected
        /\ \A g \in Files : g \in stored' => g \in stored \/ (~Written(g) /\ h \in Clients /\ d # Idle /\ d.f = g)
    BY <2>1, <2>2, <2>4 DEF Idle
  <2>9. h \in Clients /\ d # Idle => \A g \in Clients \ {h} : calls[g] # Idle => calls[g].f # d.f
    BY <2>1, <2>4
  <2> QED BY <1>0, <1>1, <2>2, <2>3, <2>5, <2>6, <2>7, <2>8, <2>9, DocMoves
<1>10. ASSUME NEW x, x \in UploadPcs, c # Idle, Continue(h, [c EXCEPT !.pc = x])
       PROVE  /\ calls' = [calls EXCEPT ![h] = [pc |-> x, f |-> f]] /\ calm' = calm
              /\ DocCall(h, [pc |-> x, f |-> f])
              /\ calm' => calm /\ \A g \in Handlers \ {h} : calls[g] = Idle
  <2>1. PICK d : d = [pc |-> x, f |-> f]
    OBVIOUS
  <2>2. [c EXCEPT !.pc = x] = d
    BY <1>6, <1>10, <2>1
  <2>3. calls' = [calls EXCEPT ![h] = d] /\ calm' = calm
    BY ONLY <1>10, <2>2 DEF Continue
  <2>4. DocCall(h, d)
    BY <1>1, <1>6, <1>10, <2>1 DEF DocCall
  <2> QED BY <1>4, <1>10, <2>1, <2>3, <2>4
<1>11. CASE CreateRow(h)
  <2>1. PICK x : x = IF f \in Attached THEN "retire" ELSE "enqueueScan"
    OBVIOUS
  <2>2. PICK y : y = [scan |-> "PENDING_SCAN", live |-> TRUE]
    OBVIOUS
  <2>3. /\ c.pc = "createRow" /\ row' = [row EXCEPT ![f] = y]
        /\ Continue(h, [c EXCEPT !.pc = x]) /\ UNCHANGED <<stored, orphaned, jobs>>
    BY <1>0, <1>5, <1>11, <2>1, <2>2 DEF CreateRow, jobVars
  <2>4. c # Idle /\ x \in UploadPcs
    BY <1>3, <2>1, <2>3 DEF UploadPcs
  <2>5. PICK d : d = [pc |-> x, f |-> f]
    OBVIOUS
  <2>6. /\ calls' = [calls EXCEPT ![h] = d] /\ calm' = calm /\ DocCall(h, d)
        /\ calm' => calm /\ \A g \in Handlers \ {h} : calls[g] = Idle
    BY <1>10, <2>3, <2>4, <2>5
  <2>7. /\ row' \in [Files -> [scan : {"none", "PENDING_SCAN", "CLEAN", "INFECTED", "SCAN_FAILED"}, live : BOOLEAN]]
        /\ row'[f] = y /\ \A g \in Files \ {f} : row'[g] = row[g]
    BY <1>2, <1>6, <2>2, <2>3, <2>4 DEF DocTypes
  <2>8. DocTypes'
    BY <1>2, <2>3, <2>6, <2>7 DEF DocTypes
  <2>9. /\ \A g \in Files : Written(g) => Written(g)'
        /\ \A g \in Files : Written(g)' => Written(g) \/ (h \in Clients /\ c # Idle /\ g = c.f)
        /\ Written(f)'
    BY <1>5, <2>2, <2>4, <2>7 DEF Written
  <2>10. \A g \in Files : jobs'[g] # NoJob => Written(g)'
    BY <1>7, <2>3, <2>9
  <2>11. DocRows(h, d)'
    BY <1>1, <2>1, <2>2, <2>5, <2>7, <2>9 DEF DocRows
  <2>12. calm' => (h \in Clients /\ d.pc = "retire") \/ OneLive'
    <3>1. CASE f \in Attached
      BY <2>1, <2>5, <3>1
    <3>2. CASE f \notin Attached
      <4>1. \A g \in Attached : row'[g] = row[g]
        BY <2>7, <3>2, DocumentsAssumption
      <4> QED BY <1>8, <2>3, <2>4, <2>6, <4>1 DEF OneLive
    <3> QED BY <3>1, <3>2
  <2>13. /\ \A g \in Files : row'[g].scan = "INFECTED" => row[g].scan = "INFECTED" \/ g \notin stored'
         /\ \A g \in Files : row'[g].scan = "CLEAN" => row[g].scan = "CLEAN" \/ g \notin Infected
    BY <2>2, <2>7
  <2>14. h \in Clients /\ d # Idle => \A g \in Clients \ {h} : calls[g] # Idle => calls[g].f # d.f
    BY <1>6, <2>4, <2>5
  <2>15. d # Idle /\ d.f = c.f
    BY <1>5, <2>4, <2>5 DEF Idle, UploadPcs
  <2> QED BY <1>0, <1>1, <2>3, <2>6, <2>8, <2>9, <2>10, <2>11, <2>12, <2>13, <2>14, <2>15, DocMoves
<1>12. CASE createFails(h)
  <2>1. /\ c.pc = "createRow" /\ Continue(h, [c EXCEPT !.pc = "dropObject"])
        /\ UNCHANGED <<row, stored, orphaned, jobs>>
    BY <1>0, <1>12 DEF createFails
  <2>2. c # Idle /\ "dropObject" \in UploadPcs
    BY <1>3, <2>1 DEF UploadPcs
  <2>3. PICK d : d = [pc |-> "dropObject", f |-> f]
    OBVIOUS
  <2>4. /\ calls' = [calls EXCEPT ![h] = d] /\ calm' = calm /\ DocCall(h, d)
        /\ calm' => calm /\ \A g \in Handlers \ {h} : calls[g] = Idle
    BY <1>10, <2>1, <2>2, <2>3
  <2>5. DocTypes' /\ \A g \in Files : (Written(g)' <=> Written(g)) /\ (jobs'[g] # NoJob => Written(g)')
    BY <1>2, <1>7, <2>1, <2>4 DEF DocTypes, Written
  <2>6. DocRows(h, d)'
    BY <1>1, <1>6, <2>1, <2>2, <2>3, <2>5 DEF DocRows
  <2>7. calm' => OneLive'
    BY <1>8, <2>1, <2>2, <2>4 DEF OneLive
  <2>8. h \in Clients /\ d # Idle => \A g \in Clients \ {h} : calls[g] # Idle => calls[g].f # d.f
    BY <1>6, <2>2, <2>3
  <2>9. d # Idle /\ d.f = c.f
    BY <1>5, <2>2, <2>3 DEF Idle
  <2>10. \A g \in Files : row'[g] = row[g] /\ (g \in stored' => g \in stored)
    BY <2>1
  <2> QED BY <1>0, <1>1, <2>1, <2>4, <2>5, <2>6, <2>7, <2>8, <2>9, <2>10, DocMoves
<1>13. CASE DropObject(h)
  <2>1. /\ c.pc = "dropObject" /\ Continue(h, Idle) /\ UNCHANGED <<row, jobs>>
        /\ orphaned \subseteq orphaned' /\ stored' \subseteq stored /\ (f \notin stored' \/ f \in orphaned')
    BY <1>0, <1>5, <1>13 DEF DropObject, Finish
  <2>2. c # Idle
    BY <1>3, <2>1
  <2>3. calls' = [calls EXCEPT ![h] = Idle] /\ calm' = calm
    BY <2>1 DEF Continue
  <2>4. DocTypes' /\ \A g \in Files : (Written(g)' <=> Written(g)) /\ (jobs'[g] # NoJob => Written(g)')
    BY <1>2, <1>7, <2>1, <2>3 DEF DocTypes, Written
  <2>5. calm' => OneLive'
    BY <1>8, <2>1, <2>2, <2>3 DEF OneLive
  <2>6. calm' => calm /\ \A g \in Handlers \ {h} : calls[g] = Idle
    BY <1>4, <2>2, <2>3
  <2>7. \A g \in Files : row'[g] = row[g] /\ (g \in stored' => g \in stored)
    BY <2>1
  <2> QED BY <1>0, <1>1, <1>3, <1>5, <2>1, <2>2, <2>3, <2>4, <2>5, <2>6, <2>7, DocMoves
<1>14. CASE Retire(h)
  <2>1. /\ c.pc = "retire" /\ Continue(h, [c EXCEPT !.pc = "enqueueScan"]) /\ UNCHANGED <<stored, orphaned, jobs>>
        /\ row' = [g \in Files |-> IF g \in Attached \ {f} THEN [row[g] EXCEPT !.live = FALSE] ELSE row[g]]
    BY <1>0, <1>5, <1>14 DEF Retire, Retired, jobVars
  <2>2. c # Idle /\ "enqueueScan" \in UploadPcs
    BY <1>3, <2>1 DEF UploadPcs
  <2>3. PICK d : d = [pc |-> "enqueueScan", f |-> f]
    OBVIOUS
  <2>4. /\ calls' = [calls EXCEPT ![h] = d] /\ calm' = calm /\ DocCall(h, d)
        /\ calm' => calm /\ \A g \in Handlers \ {h} : calls[g] = Idle
    BY <1>10, <2>1, <2>2, <2>3
  <2>5. /\ row' \in [Files -> [scan : {"none", "PENDING_SCAN", "CLEAN", "INFECTED", "SCAN_FAILED"}, live : BOOLEAN]]
        /\ \A g \in Files : row'[g].scan = row[g].scan /\ (g \in Attached \ {f} => ~row'[g].live)
    BY <1>2, <2>1 DEF DocTypes
  <2>6. DocTypes'
    BY <1>2, <2>1, <2>4, <2>5 DEF DocTypes
  <2>7. \A g \in Files : (Written(g)' <=> Written(g)) /\ (jobs'[g] # NoJob => Written(g)')
    BY <1>7, <2>1, <2>5 DEF Written
  <2>8. DocRows(h, d)'
    BY <1>1, <1>6, <2>1, <2>2, <2>3, <2>7 DEF DocRows
  <2>9. OneLive'
    BY <2>5, DocumentsAssumption DEF OneLive
  <2>10. h \in Clients /\ d # Idle => \A g \in Clients \ {h} : calls[g] # Idle => calls[g].f # d.f
    BY <1>6, <2>2, <2>3
  <2>11. d # Idle /\ d.f = c.f
    BY <1>5, <2>2, <2>3 DEF Idle
  <2>12. \A g \in Files : row'[g].scan = row[g].scan /\ (g \in stored' => g \in stored)
    BY <2>1, <2>5
  <2> QED BY <1>0, <1>1, <2>1, <2>4, <2>6, <2>7, <2>8, <2>9, <2>10, <2>11, <2>12, DocMoves
<1>15. CASE EnqueueScan(h)
  <2>1. /\ c.pc = "enqueueScan" /\ Continue(h, Idle) /\ UNCHANGED docVars /\ jobs' \in {jobs, WithJobs({f})}
    BY <1>0, <1>5, <1>15 DEF EnqueueScan, Finish
  <2>2. c # Idle
    BY <1>3, <2>1
  <2>3. calls' = [calls EXCEPT ![h] = Idle] /\ calm' = calm /\ UNCHANGED <<row, stored, orphaned>>
    BY <2>1 DEF Continue, docVars
  <2>4. jobs' = [j \in JobIds |-> jobs'[j]] /\ \A g \in Files : jobs'[g] # NoJob => Written(g)
    BY <1>2, <1>6, <1>7, <2>1, <2>2, DocumentsAssumption DEF WithJobs, DocTypes
  <2>5. DocTypes' /\ \A g \in Files : (Written(g)' <=> Written(g)) /\ (jobs'[g] # NoJob => Written(g)')
    BY <1>2, <2>3, <2>4 DEF DocTypes, Written
  <2>6. calm' => OneLive'
    BY <1>8, <2>1, <2>2, <2>3 DEF OneLive
  <2>7. calm' => calm /\ \A g \in Handlers \ {h} : calls[g] = Idle
    BY <1>4, <2>2, <2>3
  <2>8. c.f \in Files /\ Written(c.f)'
    BY <1>5, <1>6, <2>1, <2>2, <2>5
  <2>9. \A g \in Files : row'[g] = row[g] /\ (g \in stored' => g \in stored)
    BY <2>3
  <2> QED BY <1>0, <1>1, <1>3, <2>2, <2>3, <2>5, <2>6, <2>7, <2>8, <2>9, DocMoves
<1> QED BY <1>9, <1>11, <1>12, <1>13, <1>14, <1>15

(* A process is lost; what an upload stored without a row is orphaned.      *)
LEMMA DocLoseStep ==
  ASSUME DocInv, NEW h \in Handlers, DocLose(h)
  PROVE  DocInv'
<1>0. PICK c : c = calls[h]
  OBVIOUS
<1>1. DocCall(h, c) /\ DocRows(h, c) /\ DocTypes /\ \A f \in Files : FileOK(f)
  BY <1>0 DEF DocInv
<1>2. /\ c # Idle /\ calls' = [calls EXCEPT ![h] = Idle] /\ calm' = FALSE
      /\ orphaned' = IF c.pc \in {"createRow", "dropObject"} THEN orphaned \cup {c.f} ELSE orphaned
      /\ UNCHANGED <<row, stored, jobs>>
  BY <1>0 DEF DocLose, Lose
<1>3. DocCall(h, Idle) /\ DocRows(h, Idle)'
  BY DEF DocCall, DocRows
<1>4. DocTypes' /\ \A g \in Files : (Written(g)' <=> Written(g)) /\ (jobs'[g] # NoJob => Written(g)')
  BY <1>1, <1>2 DEF DocTypes, Written, FileOK
<1>5. h \in Clients => c.f \in orphaned' \/ Written(c.f)'
  BY <1>1, <1>2, <1>4 DEF DocCall, DocRows, UploadPcs
<1>6. \A g \in Files : row'[g] = row[g] /\ (g \in stored' => g \in stored)
  BY <1>2
<1>7. orphaned \subseteq orphaned'
  BY <1>2
<1> QED BY <1>0, <1>2, <1>3, <1>4, <1>5, <1>6, <1>7, DocMoves

LEMMA DocAtOnceStep ==
  ASSUME DocInv,
         \/ \E f \in Files : getDownloadUrl(f) \/ softDelete(f)
         \/ SweepScans \/ SwitchScanningOn \/ UNCHANGED <<callVars, jobVars, docVars>>
  PROVE  DocInv'
<1>1. DocTypes /\ \A f \in Files : jobs[f] # NoJob => Written(f)
  BY DEF DocInv, FileOK
<1>2. ASSUME UNCHANGED <<calls, calm, row, stored, orphaned>>, jobs' = [j \in JobIds |-> jobs'[j]],
             \A f \in Files : jobs'[f] # NoJob => Written(f)
      PROVE  DocInv'
  <2>1. DocTypes'
    BY <1>1, <1>2 DEF DocTypes
  <2> QED BY <1>2, <2>1, DocCallsStay
<1>3. ASSUME NEW f \in Files, getDownloadUrl(f) PROVE DocInv'
  <2>1. UNCHANGED <<calls, row, stored, orphaned, jobs>> /\ calm' = (calm /\ Quiet)
    BY <1>3 DEF getDownloadUrl, AtOnce, Counted, jobVars
  <2>2. DocTypes'
    BY <1>1, <2>1 DEF DocTypes
  <2>3. calm' => calm /\ (Quiet \/ row' = row)
    BY <2>1
  <2>4. \A g \in Files : row'[g] = row[g] /\ (jobs'[g] # NoJob => Written(g))
    BY <1>1, <2>1
  <2> QED BY <2>1, <2>2, <2>3, <2>4, DocCallsStay
<1>4. ASSUME NEW f \in Files, softDelete(f) PROVE DocInv'
  <2>1. /\ UNCHANGED <<calls, stored, orphaned, jobs>> /\ calm' = (calm /\ Quiet)
        /\ row' = [row EXCEPT ![f].live = FALSE]
    BY <1>4 DEF softDelete, AtOnce, Counted, jobVars
  <2>2. /\ row' \in [Files -> [scan : {"none", "PENDING_SCAN", "CLEAN", "INFECTED", "SCAN_FAILED"}, live : BOOLEAN]]
        /\ \A g \in Files : row'[g].scan = row[g].scan /\ (row'[g].live => row[g].live)
    BY <1>1, <2>1 DEF DocTypes
  <2>3. DocTypes'
    BY <1>1, <2>1, <2>2 DEF DocTypes
  <2>4. calm' => calm /\ (Quiet \/ row' = row)
    BY <2>1
  <2>5. \A g \in Files : jobs'[g] # NoJob => Written(g)
    BY <1>1, <2>1
  <2> QED BY <2>1, <2>2, <2>3, <2>4, <2>5, DocCallsStay
<1>5. CASE SweepScans
  <2>1. jobs' = WithJobs(Unscanned) /\ UNCHANGED <<docVars, callVars>>
    BY <1>5 DEF SweepScans
  <2>2. \A f \in Unscanned : Written(f)
    BY DEF Unscanned, Written
  <2>3. jobs' = [j \in JobIds |-> jobs'[j]] /\ \A f \in Files : jobs'[f] # NoJob => Written(f)
    BY <1>1, <2>1, <2>2, DocumentsAssumption DEF WithJobs
  <2> QED BY <1>2, <2>1, <2>3 DEF docVars, callVars
<1>6. CASE SwitchScanningOn
  BY <1>1, <1>2, <1>6 DEF SwitchScanningOn, callVars, jobVars, DocTypes
<1>7. CASE UNCHANGED <<callVars, jobVars, docVars>>
  BY <1>1, <1>2, <1>7 DEF callVars, jobVars, docVars, DocTypes
<1> QED BY <1>3, <1>4, <1>5, <1>6, <1>7

LEMMA DocSteps == ASSUME DocInv, [DocNext]_<<callVars, jobVars, docVars>> PROVE DocInv'
<1>1. ASSUME NEW w \in Workers, (\E f \in Files : scanDocument(w, f)) \/ DocGoOn(w) \/ ScanFails(w) PROVE DocInv'
  BY <1>1, ScanStep
<1>2. ASSUME NEW h \in Clients,
             (\E f \in Files : upload(h, f)) \/ CreateRow(h) \/ createFails(h) \/ DropObject(h) \/ Retire(h) \/ EnqueueScan(h)
      PROVE DocInv'
  BY <1>2, UploadStep
<1>3. ASSUME NEW h \in Handlers, DocLose(h) PROVE DocInv'
  BY <1>3, DocLoseStep
<1>4. CASE \/ \E f \in Files : getDownloadUrl(f) \/ softDelete(f)
           \/ SweepScans \/ SwitchScanningOn \/ UNCHANGED <<callVars, jobVars, docVars>>
  BY <1>4, DocAtOnceStep
<1> QED BY <1>1, <1>2, <1>3, <1>4 DEF DocNext

LEMMA OneOrNone == ASSUME NEW S, \A x, y \in S : x = y PROVE Cardinality(S) <= 1
<1>1. CASE S = {}
  BY <1>1, FS_EmptySet
<1>2. CASE S # {}
  <2>1. PICK x : x \in S
    BY <1>2
  <2>2. S = {x}
    BY <2>1
  <2> QED BY <2>2, FS_Singleton
<1> QED BY <1>1, <1>2

(* Whatever uploads, scans, sweeps and losses overlap, no infected object   *)
(* stays in the bucket and every object has a row, or is known to be        *)
(* orphaned; uploads one at a time leave one attachment                     *)
(* (apps/api/src/documents).                                                *)
THEOREM DocumentsStayWhole == DocSpec => []DocumentsAddUp
<1>1. CallsInit /\ JobsInit /\ DocInit => DocInv
  BY DocStarts
<1>2. DocInv /\ [DocNext]_<<callVars, jobVars, docVars>> => DocInv'
  BY DocSteps
<1>3. ASSUME DocInv PROVE DocumentsAddUp
  <2>1. \A f \in Files : FileOK(f)
    BY <1>3 DEF DocInv
  <2>2. InfectedIsGone
    BY <2>1 DEF InfectedIsGone, FileOK
  <2>3. OneAttachment
    <3>1. ASSUME calm /\ Quiet PROVE Cardinality({f \in Attached : row[f].live}) <= 1
      <4>1. ~Retiring
        BY <3>1 DEF Quiet, Running, Retiring, Idle, Clients
      <4>2. \A f, g \in {k \in Attached : row[k].live} : f = g
        BY <1>3, <3>1, <4>1 DEF DocInv, OneLive
      <4> QED BY <4>2, OneOrNone
    <3> QED BY <3>1 DEF OneAttachment
  <2>4. ObjectsHaveRows
    <3>1. stored \subseteq Files
      BY <1>3 DEF DocInv, DocTypes
    <3>2. ASSUME NEW f \in stored
          PROVE  row[f] # NoRow \/ f \in orphaned \/ \E h \in Clients : calls[h] # Idle /\ calls[h].f = f
      <4>1. Written(f) \/ f \in orphaned \/ Uploading(f)
        BY <2>1, <3>1 DEF FileOK
      <4>2. Written(f) => row[f] # NoRow
        BY DEF Written, NoRow
      <4> QED BY <4>1, <4>2 DEF Uploading
    <3> QED BY <3>2 DEF ObjectsHaveRows
  <2> QED BY <2>2, <2>3, <2>4 DEF DocumentsAddUp
<1>4. DocInv => DocumentsAddUp
  BY <1>3
<1> QED BY <1>1, <1>2, <1>4, PTL DEF DocSpec

(* What one step may do with a download and with the live attachments.      *)
LEMMA DocDecisions ==
  ASSUME DocInv, [DocNext]_<<callVars, jobVars, docVars>>
  PROVE  /\ \A f \in Files \cap Infected : f \in served' \ served => ~scanningEnabled
         /\ calm' /\ (\E f \in Attached : row[f].live) /\ (\A f \in Attached : ~row'[f].live)
              => ~\E h \in Clients : calls[h] # Idle
<1>1. DocTypes /\ (\A f \in Files : FileOK(f)) /\ \A h \in Handlers : DocCall(h, calls[h]) /\ DocRows(h, calls[h])
  BY DEF DocInv
<1>2. ASSUME NEW f \in Files \cap Infected, f \in served' \ served PROVE ~scanningEnabled
  <2>1. getDownloadUrl(f)
    BY <1>2 DEF DocNext, DocGoOn, scanDocument, ScanFails, ScanDone, Scan, ScanThrew, Verdict, upload, CreateRow,
       createFails, DropObject, Retire, EnqueueScan, DocLose, softDelete, SweepScans, SwitchScanningOn, docVars,
       getDownloadUrl
  <2>2. Downloadable(f)
    BY <2>1 DEF getDownloadUrl
  <2>3. scanningEnabled => row[f].scan \in {"CLEAN", "UNSCANNED"}
    BY <2>2 DEF Downloadable, reportedScanStatus
  <2>4. row[f].scan # "UNSCANNED" /\ row[f].scan # "CLEAN"
    BY <1>1 DEF DocTypes, FileOK
  <2> QED BY <2>3, <2>4
<1>3. ASSUME calm', NEW a \in Attached, row[a].live, \A f \in Attached : ~row'[f].live, NEW h \in Clients, calls[h] # Idle
      PROVE  FALSE
  <2>1. row'[a] # row[a] /\ a \in Files
    BY <1>3, DocumentsAssumption
  <2>2. CASE \E g \in Clients : CreateRow(g) \/ Retire(g)
    <3>1. PICK g \in Clients : CreateRow(g) \/ Retire(g)
      BY <2>2
    <3>2. PICK f : f = calls[g].f
      OBVIOUS
    <3>3. calm /\ calls[g] # Idle /\ g \in Handlers
      <4>1. calls[g].pc \in {"createRow", "retire"} /\ calm' = calm
        BY <3>1 DEF CreateRow, Retire, Continue
      <4>2. calls[g] # Idle
        BY ONLY <4>1 DEF Idle
      <4> QED BY <1>3, <4>1, <4>2 DEF Clients
    <3>4. f \in Files
      BY <1>1, <3>2, <3>3 DEF DocCall
    <3>5. CASE CreateRow(g)
      <4>1. row' = [row EXCEPT ![f] = [scan |-> "PENDING_SCAN", live |-> TRUE]]
        BY <3>2, <3>5 DEF CreateRow
      <4>2. row'[a].live
        BY <1>1, <1>3, <2>1, <3>4, <4>1 DEF DocTypes
      <4> QED BY <1>3, <4>2
    <3>6. CASE Retire(g)
      <4>1. calls[g].pc = "retire" /\ row'[f] = row[f]
        BY <3>2, <3>4, <3>6 DEF Retire, Retired
      <4>2. f \in Attached /\ row[f].live
        BY <1>1, <3>1, <3>2, <3>3, <4>1 DEF DocRows
      <4> QED BY <1>3, <4>1, <4>2
    <3> QED BY <3>1, <3>5, <3>6
  <2>3. CASE \E f \in Files : softDelete(f)
    <3>1. Quiet
      BY <1>3, <2>3 DEF softDelete, AtOnce, Counted
    <3> QED BY <1>3, <3>1 DEF Quiet, Running, Clients
  <2>4. CASE \E w \in Workers : ScanThrew(w) \/ Verdict(w)
    <3>1. PICK w \in Workers : ScanThrew(w) \/ Verdict(w)
      BY <2>4
    <3>2. PICK f : f = calls[w].job
      OBVIOUS
    <3>3. row' = row \/ \E s : row' = [row EXCEPT ![f].scan = s]
      BY <3>1, <3>2 DEF ScanThrew, Verdict
    <3>4. row'[a].live = row[a].live
      BY <1>1, <2>1, <3>3 DEF DocTypes
    <3> QED BY <1>3, <3>4
  <2> QED BY <2>1, <2>2, <2>3, <2>4 DEF DocNext, DocGoOn, scanDocument, ScanFails, ScanDone, Scan, upload,
          createFails, DropObject, EnqueueScan, DocLose, SweepScans, SwitchScanningOn, docVars, getDownloadUrl
<1> QED BY <1>2, <1>3

(* Malware is served only where nothing is scanned, and an upload never     *)
(* leaves a record without the attachment it had.                           *)
THEOREM DownloadsAreClean == DocSpec => MalwareIsNotServed /\ AttachmentKept
<1>1. CallsInit /\ JobsInit /\ DocInit => DocInv
  BY DocStarts
<1>2. DocInv /\ [DocNext]_<<callVars, jobVars, docVars>> => DocInv'
  BY DocSteps
<1>3. DocInv /\ [DocNext]_<<callVars, jobVars, docVars>> =>
        [\A f \in Files \cap Infected : f \in served' \ served => ~scanningEnabled]_<<docVars>>
  BY DocDecisions
<1>4. DocInv /\ [DocNext]_<<callVars, jobVars, docVars>> =>
        [calm' /\ (\E f \in Attached : row[f].live) /\ (\A f \in Attached : ~row'[f].live)
           => ~\E h \in Clients : calls[h] # Idle]_<<docVars, callVars>>
  BY DocDecisions
<1> QED BY <1>1, <1>2, <1>3, <1>4, PTL DEF DocSpec, MalwareIsNotServed, AttachmentKept

-----------------------------------------------------------------------------
(* Settlements, the salary import and the tax tables, side by side. *)
SettlementsNext ==
    \/ \E h \in Handlers : FnfNext(h) \/ SalariesNext(h) \/ TaxNext(h)
    \/ ChangeAdmins \/ (\E e \in Paid : EditSalary(e)) \/ \E sent \in BOOLEAN : saveConfig(sent)
SettlementsSpec == CallsInit /\ SettlementsInit /\ [][SettlementsNext]_<<callVars, settlementVars>>

GoodRows == {i \in 1..Len(sheet) : RowIsGood(i)}
FnfRecord == [status : {"none", "DRAFT", "APPROVED", "PAID"}, parts : Int, advance : Int, net : Int]
SettleTypes ==
    /\ fnf \in [Leavers -> FnfRecord] /\ revisions \in [Paid -> Nat] /\ calm \in BOOLEAN /\ config \in BOOLEAN
    /\ salary = [e \in Paid |-> salary[e]] /\ Len(sheet) \in Nat

SettleCall(c) ==
    \/ c = Idle
    \/ c.pc = "createFnf" /\ c.e \in Leavers /\ c.parts \in Int /\ c.advance \in Int
    \/ /\ c.pc = "writeFnf" /\ c.e \in Leavers /\ c.parts \in Int /\ c.advance \in Int
       /\ c.op \in {"advance", "approve", "markPaid"}
    \/ c.pc = "importRows" /\ c = [pc |-> "importRows", had |-> c.had, left |-> c.left] /\ c.left \subseteq GoodRows
    \/ /\ c.pc \in {"seedSlabs", "seedConfig", "replace", "read"}
       /\ c = [pc |-> c.pc, then |-> c.then, starts |-> c.starts]
       /\ c.then \in {"replace", "read"} /\ (c.then = "replace" => 0 \in c.starts)
       /\ c.pc \in {"replace", "read"} => c.pc = c.then
SettleRows(c) ==
    /\ c.pc = "writeFnf" => fnf[c.e].status # "none" /\ fnf[c.e].parts = c.parts
    /\ c.pc = "importRows" => c.left \cap reported = {}
    /\ calm => /\ c.pc = "writeFnf" => fnf[c.e].status = IF c.op = "markPaid" THEN "APPROVED" ELSE "DRAFT"
               /\ c.pc = "seedSlabs" => slabs = {} /\ ~config
               /\ c.pc = "seedConfig" => slabs = DefaultStarts
               /\ c.pc = "replace" => slabs # {}

OneImport == \A g, h \in Handlers : calls[g].pc = "importRows" /\ calls[h].pc = "importRows" => g = h
FnfOK == \A e \in Leavers : fnf[e].net = fnf[e].parts - fnf[e].advance
ImportOK ==
    /\ reported \subseteq GoodRows
    /\ \A e \in Paid : revisions[e] = IF \E i \in reported : sheet[i].who = e THEN 1 ELSE 0
Seeding == \E h \in Handlers : calls[h].pc = "seedConfig"
TaxOK == slabs \in {{}, DefaultStarts, edited} /\ (Seeding \/ (slabs # {} <=> config))

SettleInv ==
    /\ calls = [h \in Handlers |-> calls[h]] /\ AtMostOne
    /\ SettleTypes /\ OneImport /\ FnfOK /\ ImportOK
    /\ \A h \in Handlers : SettleCall(calls[h]) /\ SettleRows(calls[h])
    /\ calm => TaxOK

LEMMA SettlementsStart == ASSUME CallsInit, SettlementsInit PROVE SettleInv
<1>1. /\ calls = [h \in Handlers |-> calls[h]] /\ calm = TRUE /\ \A h \in Handlers : calls[h] = Idle
  BY DEF CallsInit
<1>2. SettleTypes
  <2>1. fnf \in [Leavers -> FnfRecord]
    BY DEF SettlementsInit, NoFnf, FnfRecord
  <2>2. revisions \in [Paid -> Nat] /\ config \in BOOLEAN /\ salary = [e \in Paid |-> salary[e]] /\ Len(sheet) \in Nat
    BY SettlementsAssumption DEF SettlementsInit
  <2> QED BY <1>1, <2>1, <2>2 DEF SettleTypes
<1>3. FnfOK /\ ImportOK /\ TaxOK
  BY DEF SettlementsInit, FnfOK, ImportOK, TaxOK, NoFnf
<1>4. \A h \in Handlers : calls[h].pc = "idle" /\ SettleCall(calls[h]) /\ SettleRows(calls[h])
  BY <1>1 DEF SettleCall, SettleRows, Idle
<1> QED BY <1>1, <1>2, <1>3, <1>4 DEF SettleInv, AtMostOne, OneImport

(* One call moves from c to d; a settlement's parts stay, and only an       *)
(* import reports rows.                                                     *)
LEMMA SettlementMoves ==
  ASSUME SettleInv, NEW h \in Handlers, NEW c, NEW d, c = calls[h], calls' = [calls EXCEPT ![h] = d],
         calm' => calm /\ \A g \in Handlers \ {h} : calls[g] = Idle,
         SettleTypes', FnfOK', ImportOK', SettleCall(d), SettleRows(d)', calm' => TaxOK', sheet' = sheet,
         d.pc = "importRows" => \A g \in Handlers \ {h} : calls[g].pc # "importRows",
         \A e \in Leavers : fnf[e].status # "none" => fnf'[e].status # "none" /\ fnf'[e].parts = fnf[e].parts,
         reported' = reported \/ c.pc = "importRows"
  PROVE  SettleInv'
<1>1. calls' = [g \in Handlers |-> calls'[g]] /\ \A g \in Handlers : calls'[g] = IF g = h THEN d ELSE calls[g]
  BY DEF SettleInv
<1>2. AtMostOne' /\ OneImport'
  BY <1>1 DEF SettleInv, AtMostOne, OneImport
<1>3. GoodRows' = GoodRows
  BY DEF GoodRows, RowIsGood
<1>4. ASSUME NEW g \in Handlers PROVE SettleCall(calls[g])' /\ SettleRows(calls[g])'
  <2>1. CASE g = h
    <3>1. calls'[g] = d
      BY <1>1, <2>1
    <3> QED BY <1>3, <3>1 DEF SettleCall, SettleRows
  <2>2. CASE g # h
    <3>1. PICK e : e = calls[g]
      OBVIOUS
    <3>2. calls'[g] = e /\ SettleCall(e) /\ SettleRows(e) /\ (calm' => e = Idle)
      BY <1>1, <2>2, <3>1 DEF SettleInv
    <3>3. SettleCall(e)'
      BY <1>3, <3>2 DEF SettleCall
    <3>4. e.pc = "importRows" => reported' = reported
      BY <2>2, <3>1 DEF SettleInv, OneImport
    <3>5. e.pc = "writeFnf" => fnf'[e.e].status # "none" /\ fnf'[e.e].parts = e.parts
      BY <3>2 DEF SettleCall, SettleRows, Idle
    <3>6. calm' => e.pc = "idle"
      BY <3>2 DEF Idle
    <3>7. SettleRows(e)'
      BY <3>2, <3>4, <3>5, <3>6 DEF SettleRows
    <3> QED BY <3>2, <3>3, <3>7
  <2> QED BY <2>1, <2>2
<1> QED BY <1>1, <1>2, <1>4 DEF SettleInv

(* A call begins, or ends, and no table changes.                            *)
LEMMA SettlementTablesStay ==
  ASSUME SettleInv, NEW h \in Handlers, NEW c, NEW d, c = calls[h], calls' = [calls EXCEPT ![h] = d],
         calm' \in BOOLEAN, calm' => calm /\ \A g \in Handlers \ {h} : calls[g] = Idle,
         UNCHANGED settlementVars, SettleCall(d), SettleRows(d)', calm' => c.pc # "seedConfig",
         d.pc = "importRows" => \A g \in Handlers \ {h} : calls[g].pc # "importRows"
  PROVE  SettleInv'
<1>1. SettleTypes' /\ FnfOK' /\ ImportOK'
  BY DEF SettleInv, settlementVars, SettleTypes, FnfOK, ImportOK, GoodRows, RowIsGood
<1>2. ASSUME calm' PROVE TaxOK'
  <2>1. \A g \in Handlers : calls[g].pc # "seedConfig"
    BY <1>2 DEF Idle
  <2> QED BY <1>2, <2>1 DEF SettleInv, TaxOK, Seeding, settlementVars
<1>3. sheet' = sheet /\ reported' = reported /\ fnf' = fnf /\ (calm' => TaxOK')
  BY <1>2 DEF settlementVars
<1> QED BY <1>1, <1>3, SettlementMoves

LEMMA SettlementCallsStay ==
  ASSUME SettleInv, UNCHANGED <<calls, fnf, revisions, reported, sheet, slabs, edited, config>>,
         salary' = [e \in Paid |-> salary'[e]], calm' \in BOOLEAN, calm' => calm
  PROVE  SettleInv'
<1>1. SettleTypes' /\ FnfOK' /\ ImportOK' /\ GoodRows' = GoodRows
  BY DEF SettleInv, SettleTypes, FnfOK, ImportOK, GoodRows, RowIsGood
<1>2. AtMostOne' /\ OneImport' /\ (calm' => TaxOK') /\ calls' = [h \in Handlers |-> calls'[h]]
  BY DEF SettleInv, AtMostOne, OneImport, TaxOK, Seeding
<1>3. ASSUME NEW h \in Handlers PROVE SettleCall(calls[h])' /\ SettleRows(calls[h])'
  BY <1>1 DEF SettleInv, SettleCall, SettleRows
<1> QED BY <1>1, <1>2, <1>3 DEF SettleInv

(* The steps that begin a call, or end it without a write.                  *)
LEMMA SettlementBegins ==
  ASSUME SettleInv, NEW h \in Handlers, NEW d, Begin(h, d), UNCHANGED settlementVars, SettleCall(d),
         SettleRows(d)', d.pc = "importRows" => \A g \in Handlers \ {h} : calls[g].pc # "importRows"
  PROVE  SettleInv'
<1>1. PICK c : c = calls[h]
  OBVIOUS
<1>2. /\ calls' = [calls EXCEPT ![h] = d] /\ calm' = (calm /\ Quiet) /\ c = Idle
      /\ (calm' => calm /\ \A g \in Handlers : calls[g] = Idle)
  BY <1>1, BegunAlone
<1>3. calm' \in BOOLEAN /\ c.pc # "seedConfig" /\ (calm' => calm /\ \A g \in Handlers \ {h} : calls[g] = Idle)
  BY <1>2 DEF Idle
<1> QED BY <1>1, <1>2, <1>3, SettlementTablesStay

LEMMA SettlementEnds ==
  ASSUME SettleInv, NEW h \in Handlers, calls[h] # Idle, calls[h].pc # "seedConfig" \/ ~calm',
         calls' = [calls EXCEPT ![h] = Idle], calm' = calm \/ calm' = FALSE, UNCHANGED settlementVars
  PROVE  SettleInv'
<1>1. PICK c : c = calls[h]
  OBVIOUS
<1>2. Idle.pc = "idle" /\ SettleCall(Idle) /\ SettleRows(Idle)'
  BY DEF SettleCall, SettleRows, Idle
<1>3. calm' \in BOOLEAN /\ (calm' => calm /\ \A g \in Handlers \ {h} : calls[g] = Idle)
  <2>1. calm \in BOOLEAN /\ AtMostOne
    BY DEF SettleInv, SettleTypes
  <2>2. calm' \in BOOLEAN /\ (calm' => calm)
    <3>1. CASE calm' = calm
      BY ONLY <2>1, <3>1
    <3>2. CASE calm' = FALSE
      BY ONLY <3>2
    <3> QED BY <3>1, <3>2
  <2>3. ASSUME calm', NEW g \in Handlers \ {h}, calls[g] # Idle PROVE FALSE
    <3>1. calm /\ g \in Handlers /\ g # h
      BY <2>2, <2>3
    <3> QED BY <2>1, <2>3, <3>1 DEF AtMostOne
  <2> QED BY <2>2, <2>3
<1> QED BY <1>1, <1>2, <1>3, SettlementTablesStay

LEMMA FnfStep ==
  ASSUME SettleInv, NEW h \in Handlers, FnfNext(h)
  PROVE  SettleInv'
<1>0. PICK c : c = calls[h]
  OBVIOUS
<1>1. SettleCall(c) /\ SettleRows(c) /\ SettleTypes
  BY <1>0 DEF SettleInv
<1>2. ASSUME NEW e \in Leavers, NEW p \in Amounts, NEW a \in Amounts, generate(h, e, p, a) PROVE SettleInv'
  <2>1. PICK d : d = [pc |-> "createFnf", e |-> e, parts |-> p, advance |-> a]
    OBVIOUS
  <2>2. Begin(h, d) /\ UNCHANGED settlementVars
    BY <1>2, <2>1 DEF generate
  <2>3. SettleCall(d) /\ SettleRows(d)' /\ d.pc # "importRows"
    BY <2>1, SettlementsAssumption DEF SettleCall, SettleRows
  <2> QED BY <2>2, <2>3, SettlementBegins
<1>3. ASSUME NEW e \in Leavers, NEW op \in {"advance", "approve", "markPaid"}, NEW a \in Int, Decide(h, e, op, a)
      PROVE  SettleInv'
  <2>1. PICK d : d = [pc |-> "writeFnf", e |-> e, op |-> op, advance |-> a, parts |-> fnf[e].parts]
    OBVIOUS
  <2>2. Begin(h, d) /\ UNCHANGED settlementVars /\ fnf[e].status = IF op = "markPaid" THEN "APPROVED" ELSE "DRAFT"
    BY <1>3, <2>1 DEF Decide, From
  <2>3. SettleCall(d) /\ d.pc # "importRows"
    BY <1>1, <2>1 DEF SettleCall, SettleTypes, FnfRecord
  <2>4. SettleRows(d)'
    BY <2>1, <2>2 DEF SettleRows, settlementVars
  <2> QED BY <2>2, <2>3, <2>4, SettlementBegins
<1>4. ASSUME NEW e \in Leavers, NEW y \in FnfRecord, c # Idle, c.pc \in {"createFnf", "writeFnf"}, Continue(h, Idle),
             fnf' = [fnf EXCEPT ![e] = y], UNCHANGED <<importVars_, configVars>>,
             y.net = y.parts - y.advance, fnf[e].status # "none" => y.status # "none" /\ y.parts = fnf[e].parts
      PROVE  SettleInv'
  <2>1. calls' = [calls EXCEPT ![h] = Idle] /\ calm' = calm
    BY <1>4 DEF Continue
  <2>2. fnf' = [q \in Leavers |-> IF q = e THEN y ELSE fnf[q]]
    BY <1>1, <1>4 DEF SettleTypes
  <2>3. UNCHANGED <<revisions, salary, sheet, reported, slabs, edited, config>>
    BY <1>4 DEF importVars_, configVars
  <2>4. SettleTypes'
    BY <1>1, <1>4, <2>1, <2>2, <2>3 DEF SettleTypes
  <2>5. FnfOK'
    BY <1>4, <2>2 DEF FnfOK, SettleInv
  <2>6. ImportOK'
    BY <2>3 DEF SettleInv, ImportOK, GoodRows, RowIsGood
  <2>7. calm' => calm /\ \A g \in Handlers \ {h} : calls[g] = Idle
    BY <1>0, <1>4, <2>1 DEF SettleInv, AtMostOne
  <2>8. calm' => TaxOK'
    <3>1. ASSUME calm' PROVE ~Seeding
      BY <1>0, <1>4, <2>7, <3>1 DEF Seeding, Idle
    <3> QED BY <2>1, <2>3, <3>1 DEF SettleInv, TaxOK
  <2>9. Idle.pc = "idle" /\ SettleCall(Idle) /\ SettleRows(Idle)'
    BY DEF SettleCall, SettleRows, Idle
  <2>10. \A q \in Leavers : fnf[q].status # "none" => fnf'[q].status # "none" /\ fnf'[q].parts = fnf[q].parts
    BY <1>4, <2>2
  <2> QED BY <1>0, <2>1, <2>3, <2>4, <2>5, <2>6, <2>7, <2>8, <2>9, <2>10, SettlementMoves
<1>5. c.pc \in {"createFnf", "writeFnf"} => c # Idle /\ c.e \in Leavers /\ fnf[c.e] \in FnfRecord /\ c.parts \in Int
                                            /\ c.advance \in Int /\ fnf[c.e].net = fnf[c.e].parts - fnf[c.e].advance
  BY <1>1 DEF SettleCall, Idle, SettleTypes, SettleInv, FnfOK
<1>6. PICK e : e = c.e
  OBVIOUS
<1>7. CASE CreateFnf(h)
  <2>1. /\ c.pc = "createFnf" /\ Continue(h, Idle) /\ UNCHANGED <<importVars_, configVars>>
    BY <1>0, <1>7 DEF CreateFnf, Finish
  <2>2. PICK y : y = IF fnf[e] # NoFnf THEN fnf[e]
                     ELSE [status |-> "DRAFT", parts |-> c.parts, advance |-> c.advance, net |-> c.parts - c.advance]
    OBVIOUS
  <2>3. fnf' = [fnf EXCEPT ![e] = y]
    BY <1>0, <1>1, <1>5, <1>6, <1>7, <2>1, <2>2 DEF CreateFnf, SettleTypes
  <2>4. y \in FnfRecord /\ y.net = y.parts - y.advance
    BY <1>5, <1>6, <2>1, <2>2 DEF FnfRecord
  <2>5. fnf[e].status # "none" => y = fnf[e]
    BY <2>2 DEF NoFnf
  <2> QED BY <1>4, <1>5, <1>6, <2>1, <2>3, <2>4, <2>5
<1>8. CASE WriteFnf(h)
  <2>1. /\ c.pc = "writeFnf" /\ Continue(h, Idle) /\ UNCHANGED <<importVars_, configVars>>
        /\ fnf' = [fnf EXCEPT ![e] = Decision(c)]
    BY <1>0, <1>6, <1>8 DEF WriteFnf, Finish
  <2>2. fnf[e].status # "none" /\ fnf[e].parts = c.parts
    BY <1>1, <1>6, <2>1 DEF SettleRows
  <2>3. PICK y : y = Decision(c)
    OBVIOUS
  <2>4. y \in FnfRecord /\ y.net = y.parts - y.advance /\ y.parts = fnf[e].parts /\ y.status # "none"
    <3>1. PICK r : r = fnf[e]
      OBVIOUS
    <3>2. r \in FnfRecord /\ r.net = r.parts - r.advance /\ r.parts = c.parts /\ r.status # "none"
      BY <1>5, <1>6, <2>1, <2>2, <3>1
    <3>3. y = IF c.op = "advance" THEN [r EXCEPT !.advance = c.advance, !.net = c.parts - c.advance]
              ELSE [r EXCEPT !.status = IF c.op = "approve" THEN "APPROVED" ELSE "PAID"]
      BY <1>6, <2>3, <3>1 DEF Decision
    <3>4. CASE c.op = "advance"
      <4>1. PICK n : n = c.parts - c.advance
        OBVIOUS
      <4>2. c.advance \in Int /\ c.parts \in Int /\ n \in Int
        BY <1>5, <2>1, <4>1
      <4>3. y = [r EXCEPT !.advance = c.advance, !.net = n]
        BY <3>3, <3>4, <4>1
      <4>4. y = [status |-> r.status, parts |-> r.parts, advance |-> c.advance, net |-> n]
        BY <3>2, <4>3 DEF FnfRecord
      <4>5. y.net = n /\ y.parts = r.parts /\ y.advance = c.advance /\ y.status = r.status
        BY <4>4
      <4>6. y \in FnfRecord
        BY <3>2, <4>2, <4>4 DEF FnfRecord
      <4> QED BY <3>1, <3>2, <4>1, <4>5, <4>6
    <3>5. CASE c.op # "advance"
      BY <1>5, <2>1, <3>1, <3>2, <3>3, <3>5 DEF FnfRecord
    <3> QED BY <3>4, <3>5
  <2>5. fnf' = [fnf EXCEPT ![e] = y]
    BY <2>1, <2>3
  <2> QED BY <1>4, <1>5, <1>6, <2>1, <2>4, <2>5
<1>9. CASE Lose(h) /\ UNCHANGED settlementVars
  BY <1>9, SettlementEnds DEF Lose
<1>10. \A a \in Amounts : a \in Int
  BY SettlementsAssumption
<1> QED BY <1>2, <1>3, <1>7, <1>8, <1>9, <1>10 DEF FnfNext

(* Each row of the file writes for an employee no row before it named.      *)
LEMMA GoodRowsDiffer ==
  ASSUME Len(sheet) \in Nat
  PROVE  \A i, j \in GoodRows : sheet[i].who = sheet[j].who => i = j
<1>1. ASSUME NEW i \in GoodRows, NEW j \in GoodRows, i < j PROVE sheet[i].who # sheet[j].who
  <2>1. i \in 1..(j - 1)
    BY <1>1 DEF GoodRows
  <2> QED BY <2>1 DEF GoodRows, RowIsGood
<1>2. \A i, j \in GoodRows : i < j \/ j < i \/ i = j
  BY DEF GoodRows
<1> QED BY <1>1, <1>2

LEMMA SalariesStep ==
  ASSUME SettleInv, NEW h \in Handlers, SalariesNext(h)
  PROVE  SettleInv'
<1>0. PICK c : c = calls[h]
  OBVIOUS
<1>1. SettleCall(c) /\ SettleRows(c) /\ SettleTypes /\ ImportOK
  BY <1>0 DEF SettleInv
<1>2. CASE importSalaries(h)
  <2>1. PICK l : l = {i \in 1..Len(sheet) : RowIsGood(i)}
    OBVIOUS
  <2>2. PICK s : s = {e \in Paid : salary[e] # 0}
    OBVIOUS
  <2>3. PICK d : d = [pc |-> "importRows", had |-> s, left |-> l]
    OBVIOUS
  <2>4. Begin(h, d) /\ UNCHANGED settlementVars /\ reported = {} /\ ~\E g \in Running : calls[g].pc = "importRows"
    BY <1>2, <2>1, <2>2, <2>3 DEF importSalaries
  <2>5. \A g \in Handlers : calls[g].pc # "importRows"
    BY <2>4 DEF Running, Idle
  <2>6. SettleCall(d) /\ SettleRows(d)'
    BY <2>1, <2>3, <2>4 DEF SettleCall, SettleRows, settlementVars, GoodRows
  <2> QED BY <2>4, <2>5, <2>6, SettlementBegins
<1>3. ASSUME NEW i \in 1..Len(sheet), ImportRow(h, i) PROVE SettleInv'
  <2>1. PICK e : e = sheet[i].who
    OBVIOUS
  <2>2. PICK d : d = [pc |-> "importRows", had |-> c.had, left |-> c.left \ {i}]
    OBVIOUS
  <2>3. c.pc = "importRows" /\ i \in c.left /\ Continue(h, [c EXCEPT !.left = c.left \ {i}])
        /\ UNCHANGED <<sheet, fnfVars, configVars>>
    BY <1>0, <1>3 DEF ImportRow
  <2>4. c = [pc |-> "importRows", had |-> c.had, left |-> c.left] /\ c.left \subseteq GoodRows /\ c # Idle
    BY <1>1, <2>3 DEF SettleCall, Idle
  <2>5. [c EXCEPT !.left = c.left \ {i}] = d
    <3>1. PICK l : l = c.left \ {i}
      OBVIOUS
    <3>2. PICK s, t : s = c.had /\ t = c.left
      OBVIOUS
    <3>3. c = [pc |-> "importRows", had |-> s, left |-> t]
      BY <2>4, <3>2
    <3>4. [c EXCEPT !.left = l] = [pc |-> "importRows", had |-> s, left |-> l]
      BY ONLY <3>3
    <3> QED BY <2>2, <3>1, <3>2, <3>4
  <2>6. calls' = [calls EXCEPT ![h] = d] /\ calm' = calm
    BY ONLY <2>3, <2>5 DEF Continue
  <2>7. i \in GoodRows /\ i \notin reported /\ e \in Paid
    BY <1>1, <2>1, <2>3, <2>4 DEF SettleRows, GoodRows, RowIsGood
  <2>8. \A k \in reported : k \in GoodRows /\ sheet[k].who # e
    BY <1>1, <2>1, <2>7, GoodRowsDiffer DEF ImportOK, SettleTypes
  <2>9. revisions[e] = 0
    BY <1>1, <2>7, <2>8 DEF ImportOK
  <2>10. UNCHANGED <<sheet, fnf, slabs, edited, config>>
    BY <2>3 DEF fnfVars, configVars
  <2>11. GoodRows' = GoodRows
    BY <2>10 DEF GoodRows, RowIsGood
  <2>12. \/ reported' = reported /\ revisions' = revisions /\ salary' = salary
         \/ /\ reported' = reported \cup {i} /\ revisions' = [revisions EXCEPT ![e] = 1]
            /\ salary' = [salary EXCEPT ![e] = sheet[i].ctc]
    BY <1>0, <1>3, <2>1, <2>9 DEF ImportRow
  <2>13. SettleTypes'
    BY <1>1, <2>6, <2>7, <2>10, <2>12 DEF SettleTypes
  <2>14. ImportOK'
    <3>1. CASE reported' = reported /\ revisions' = revisions /\ salary' = salary
      BY <1>1, <2>10, <2>11, <3>1 DEF ImportOK
    <3>2. CASE reported' = reported \cup {i} /\ revisions' = [revisions EXCEPT ![e] = 1]
      <4>1. reported' \subseteq GoodRows
        BY <1>1, <2>7, <3>2 DEF ImportOK
      <4>2. ASSUME NEW q \in Paid PROVE revisions'[q] = IF \E k \in reported' : sheet[k].who = q THEN 1 ELSE 0
        <5>1. CASE q = e
          <6>1. \E k \in reported' : sheet[k].who = q
            BY <2>1, <3>2, <5>1
          <6> QED BY <1>1, <2>7, <3>2, <5>1, <6>1 DEF SettleTypes
        <5>2. CASE q # e
          <6>1. revisions'[q] = revisions[q]
            BY <1>1, <3>2, <5>2 DEF SettleTypes
          <6>2. (\E k \in reported' : sheet[k].who = q) <=> \E k \in reported : sheet[k].who = q
            BY <2>1, <3>2, <5>2
          <6> QED BY <1>1, <6>1, <6>2 DEF ImportOK
        <5> QED BY <5>1, <5>2
      <4> QED BY <2>10, <2>11, <4>1, <4>2 DEF ImportOK
    <3> QED BY <2>12, <3>1, <3>2
  <2>15. FnfOK' /\ \A q \in Leavers : fnf'[q] = fnf[q]
    BY <2>10 DEF SettleInv, FnfOK
  <2>16. calm' => calm /\ \A g \in Handlers \ {h} : calls[g] = Idle
    BY <1>0, <2>4, <2>6 DEF SettleInv, AtMostOne
  <2>17. calm' => TaxOK'
    <3>1. ASSUME calm' PROVE ~Seeding
      BY <1>0, <2>3, <2>16, <3>1 DEF Seeding, Idle
    <3> QED BY <2>6, <2>10, <3>1 DEF SettleInv, TaxOK
  <2>18. SettleCall(d)
    BY <2>2, <2>4 DEF SettleCall
  <2>19. SettleRows(d)'
    BY <1>1, <2>2, <2>3, <2>12 DEF SettleRows
  <2>20. \A g \in Handlers \ {h} : calls[g].pc # "importRows"
    BY <1>0, <2>3 DEF SettleInv, OneImport
  <2> QED BY <1>0, <2>3, <2>6, <2>10, <2>13, <2>14, <2>15, <2>16, <2>17, <2>18, <2>19, <2>20, SettlementMoves
<1>4. CASE ImportDone(h)
  <2>1. calls[h].pc = "importRows" /\ UNCHANGED settlementVars /\ calls' = [calls EXCEPT ![h] = Idle] /\ calm' = calm
    BY <1>4 DEF ImportDone, Finish, Continue
  <2>2. calls[h] # Idle
    BY ONLY <2>1 DEF Idle
  <2> QED BY <2>1, <2>2, SettlementEnds
<1>5. CASE Lose(h) /\ UNCHANGED settlementVars
  BY <1>5, SettlementEnds DEF Lose
<1> QED BY <1>2, <1>3, <1>4, <1>5 DEF SalariesNext

LEMMA TaxStep ==
  ASSUME SettleInv, NEW h \in Handlers, TaxNext(h)
  PROVE  SettleInv'
<1>0. PICK c : c = calls[h]
  OBVIOUS
<1>1. SettleCall(c) /\ SettleRows(c) /\ SettleTypes /\ FnfOK /\ ImportOK /\ (calm => TaxOK)
  BY <1>0 DEF SettleInv
<1>2. ASSUME NEW then \in {"read", "replace"}, NEW starts, then = "replace" => 0 \in starts, getTaxConfig(h, then, starts)
      PROVE  SettleInv'
  <2>1. PICK x : x = IF Unseeded THEN "seedSlabs" ELSE then
    OBVIOUS
  <2>2. PICK d : d = [pc |-> x, then |-> then, starts |-> starts]
    OBVIOUS
  <2>3. Begin(h, d) /\ UNCHANGED settlementVars
    BY <1>2, <2>1, <2>2 DEF getTaxConfig
  <2>4. SettleCall(d) /\ d.pc # "importRows" /\ d.pc \in {"seedSlabs", "read", "replace"}
    BY <1>2, <2>1, <2>2 DEF SettleCall
  <2>5. SettleRows(d)'
    <3>1. calm' => calm /\ \A g \in Handlers : calls[g] = Idle
      BY <2>3, BegunAlone
    <3>2. calm' => ~Seeding
      BY <3>1 DEF Seeding, Idle
    <3>3. calm' => (slabs # {} <=> config)
      BY <1>1, <3>1, <3>2 DEF TaxOK
    <3>4. d.pc = "seedSlabs" => slabs = {} /\ ~config
      BY <1>2, <2>1, <2>2 DEF Unseeded
    <3>5. d.pc = "replace" => slabs # {} \/ config
      BY <1>2, <2>1, <2>2 DEF Unseeded
    <3>6. slabs' = slabs /\ config' = config
      BY <2>3 DEF settlementVars
    <3> QED BY <2>4, <3>3, <3>4, <3>5, <3>6 DEF SettleRows
  <2> QED BY <2>3, <2>4, <2>5, SettlementBegins
<1>3. ASSUME NEW d, c # Idle, calls' = [calls EXCEPT ![h] = d], calm' = calm, UNCHANGED <<fnfVars, importVars_>>,
             config' \in BOOLEAN, SettleCall(d), d.pc # "importRows", d.pc # "writeFnf",
             calm => (SettleRows(d)' /\ slabs' \in {{}, DefaultStarts, edited'}
                      /\ (d.pc = "seedConfig" \/ (slabs' # {} <=> config')))
      PROVE  SettleInv'
  <2>1. UNCHANGED <<fnf, salary, revisions, reported, sheet>>
    BY <1>3 DEF fnfVars, importVars_
  <2>2. SettleTypes' /\ FnfOK' /\ ImportOK'
    BY <1>1, <1>3, <2>1 DEF SettleTypes, FnfOK, ImportOK, GoodRows, RowIsGood
  <2>3. calm' => calm /\ \A g \in Handlers \ {h} : calls[g] = Idle
    BY <1>0, <1>3 DEF SettleInv, AtMostOne
  <2>4. SettleRows(d)'
    BY <1>3 DEF SettleRows
  <2>5. calm' => TaxOK'
    <3>1. calls'[h] = d
      BY <1>3 DEF SettleInv
    <3> QED BY <1>3, <3>1 DEF TaxOK, Seeding
  <2>6. \A q \in Leavers : fnf'[q] = fnf[q]
    BY <2>1
  <2> QED BY <1>0, <1>3, <2>1, <2>2, <2>3, <2>4, <2>5, <2>6, SettlementMoves
<1>4. c.pc \in {"seedSlabs", "seedConfig", "replace", "read"} =>
        /\ c # Idle /\ c = [pc |-> c.pc, then |-> c.then, starts |-> c.starts]
        /\ c.then \in {"replace", "read"} /\ (c.then = "replace" => 0 \in c.starts)
        /\ c.pc \in {"replace", "read"} => c.pc = c.then
  BY <1>1 DEF SettleCall, Idle
<1>5. calm /\ c # Idle /\ c.pc # "seedConfig" => (slabs # {} <=> config)
  <2>1. ASSUME calm, c # Idle, c.pc # "seedConfig" PROVE ~Seeding
    <3>1. \A g \in Handlers : g = h \/ calls[g] = Idle
      BY <1>0, <2>1 DEF SettleInv, AtMostOne
    <3> QED BY <1>0, <2>1, <3>1 DEF Seeding, Idle
  <2> QED BY <1>1, <2>1 DEF TaxOK
<1>6. CASE SeedSlabs(h)
  <2>1. PICK d : d = [pc |-> "seedConfig", then |-> c.then, starts |-> c.starts]
    OBVIOUS
  <2>2. /\ c.pc = "seedSlabs" /\ slabs' = slabs \cup DefaultStarts /\ Continue(h, [c EXCEPT !.pc = "seedConfig"])
        /\ UNCHANGED <<edited, config, fnfVars, importVars_>>
    BY <1>0, <1>6 DEF SeedSlabs
  <2>3. [c EXCEPT !.pc = "seedConfig"] = d
    BY <1>4, <2>1, <2>2
  <2>4. calls' = [calls EXCEPT ![h] = d] /\ calm' = calm
    BY ONLY <2>2, <2>3 DEF Continue
  <2>5. SettleCall(d) /\ d.pc = "seedConfig"
    BY <1>4, <2>1, <2>2 DEF SettleCall
  <2>6. calm => slabs' = DefaultStarts
    BY <1>1, <2>2 DEF SettleRows
  <2>7. calm => SettleRows(d)'
    BY <2>5, <2>6 DEF SettleRows
  <2>8. config' \in BOOLEAN
    BY <1>1, <2>2 DEF SettleTypes
  <2> QED BY <1>3, <1>4, <2>2, <2>4, <2>5, <2>6, <2>7, <2>8
<1>7. CASE SeedConfig(h)
  <2>1. PICK d : d = IF c.then = "read" THEN Idle ELSE [pc |-> c.then, then |-> c.then, starts |-> c.starts]
    OBVIOUS
  <2>2. /\ c.pc = "seedConfig" /\ config' = TRUE
        /\ Continue(h, IF c.then = "read" THEN Idle ELSE [c EXCEPT !.pc = c.then])
        /\ UNCHANGED <<slabs, edited, fnfVars, importVars_>>
    BY <1>0, <1>7 DEF SeedConfig
  <2>3. [c EXCEPT !.pc = c.then] = [pc |-> c.then, then |-> c.then, starts |-> c.starts]
    BY <1>4, <2>2
  <2>4. (IF c.then = "read" THEN Idle ELSE [c EXCEPT !.pc = c.then]) = d
    BY <2>1, <2>3
  <2>5. calls' = [calls EXCEPT ![h] = d] /\ calm' = calm
    BY ONLY <2>2, <2>4 DEF Continue
  <2>6. SettleCall(d) /\ d.pc \in {"idle", "replace"}
    BY <1>4, <2>1, <2>2 DEF SettleCall, Idle
  <2>7. calm => slabs' = DefaultStarts
    BY <1>1, <2>2 DEF SettleRows
  <2>8. DefaultStarts # {}
    BY DEF DefaultStarts
  <2>9. calm => SettleRows(d)'
    BY <2>6, <2>7, <2>8 DEF SettleRows
  <2>10. config' \in BOOLEAN /\ config'
    BY <2>2
  <2> QED BY <1>3, <1>4, <2>2, <2>5, <2>6, <2>7, <2>8, <2>9, <2>10
<1>8. CASE replaceTaxSlabs(h)
  <2>1. /\ c.pc = "replace" /\ slabs' = c.starts /\ edited' = c.starts /\ Continue(h, Idle)
        /\ UNCHANGED <<config, fnfVars, importVars_>>
    BY <1>0, <1>8 DEF replaceTaxSlabs, Finish
  <2>2. calls' = [calls EXCEPT ![h] = Idle] /\ calm' = calm
    BY <2>1 DEF Continue
  <2>3. Idle.pc = "idle" /\ SettleCall(Idle) /\ SettleRows(Idle)'
    BY DEF SettleCall, SettleRows, Idle
  <2>4. slabs' # {} /\ slabs' = edited'
    BY <1>4, <2>1
  <2>5. calm => config
    BY <1>1, <1>4, <1>5, <2>1 DEF SettleRows
  <2>6. config' \in BOOLEAN /\ config' = config
    BY <1>1, <2>1 DEF SettleTypes
  <2>7. calm => (slabs' # {} <=> config')
    BY <2>4, <2>5, <2>6
  <2> QED BY <1>3, <1>4, <2>1, <2>2, <2>3, <2>4, <2>6, <2>7
<1>9. CASE TaxRead(h)
  <2>1. calls[h].pc = "read" /\ UNCHANGED settlementVars /\ calls' = [calls EXCEPT ![h] = Idle] /\ calm' = calm
    BY <1>9 DEF TaxRead, Finish, Continue
  <2>2. calls[h] # Idle
    BY ONLY <2>1 DEF Idle
  <2> QED BY <2>1, <2>2, SettlementEnds
<1>10. CASE Lose(h) /\ UNCHANGED settlementVars
  BY <1>10, SettlementEnds DEF Lose
<1>11. ASSUME NEW starts, validateTaxSlabs(starts), getTaxConfig(h, "replace", starts) PROVE SettleInv'
  BY <1>2, <1>11 DEF validateTaxSlabs
<1>12. CASE getTaxConfig(h, "read", {})
  BY <1>2, <1>12
<1> QED BY <1>6, <1>7, <1>8, <1>9, <1>10, <1>11, <1>12 DEF TaxNext

LEMMA SettlementSteps ==
  ASSUME SettleInv, [SettlementsNext]_<<callVars, settlementVars>>
  PROVE  SettleInv'
<1>1. SettleTypes
  BY DEF SettleInv
<1>2. ASSUME UNCHANGED <<calls, fnf, revisions, reported, sheet, slabs, edited, config>>,
             salary' = [e \in Paid |-> salary'[e]], calm' = calm \/ calm' = (calm /\ Quiet)
      PROVE  SettleInv'
  <2>1. calm' \in BOOLEAN /\ (calm' => calm)
    <3>1. calm \in BOOLEAN
      BY <1>1 DEF SettleTypes
    <3>2. CASE calm' = calm
      BY ONLY <3>1, <3>2
    <3>3. CASE calm' = (calm /\ Quiet)
      BY ONLY <3>3
    <3> QED BY <1>2, <3>2, <3>3
  <2> QED BY <1>2, <2>1, SettlementCallsStay
<1>3. CASE ChangeAdmins
  BY <1>1, <1>2, <1>3 DEF ChangeAdmins, AtOnce, Counted, importVars_, configVars, SettleTypes
<1>4. ASSUME NEW e \in Paid, EditSalary(e) PROVE SettleInv'
  <2>1. salary' = [salary EXCEPT ![e] = 7] /\ UNCHANGED <<calls, revisions, reported, sheet, fnfVars, configVars>>
        /\ calm' = (calm /\ Quiet)
    BY <1>4 DEF EditSalary, AtOnce, Counted
  <2>2. salary' = [q \in Paid |-> salary'[q]]
    BY <1>1, <2>1 DEF SettleTypes
  <2>3. UNCHANGED <<calls, fnf, revisions, reported, sheet, slabs, edited, config>>
    BY <2>1 DEF fnfVars, configVars
  <2> QED BY <1>2, <2>1, <2>2, <2>3
<1>5. ASSUME NEW sent, saveConfig(sent) PROVE SettleInv'
  BY <1>1, <1>2, <1>5 DEF saveConfig, AtOnce, Counted, importVars_, fnfVars, SettleTypes
<1>6. CASE UNCHANGED <<callVars, settlementVars>>
  BY <1>1, <1>2, <1>6 DEF callVars, settlementVars, SettleTypes
<1> QED BY <1>3, <1>4, <1>5, <1>6, FnfStep, SalariesStep, TaxStep DEF SettlementsNext

(* A settlement's net is always its parts less the advance; the import      *)
(* writes one structure per employee and reports just those; and a tax      *)
(* table read or replaced one call at a time is the seeded one or the one   *)
(* saved last, with its rates (apps/api/src/payroll).                       *)
THEOREM PaySettingsStayWhole == SettlementsSpec => []PaySettingsAddUp
<1>1. CallsInit /\ SettlementsInit => SettleInv
  BY SettlementsStart
<1>2. SettleInv /\ [SettlementsNext]_<<callVars, settlementVars>> => SettleInv'
  BY SettlementSteps
<1>3. ASSUME SettleInv PROVE PaySettingsAddUp
  <2>1. SettlementAddsUp
    BY <1>3 DEF SettleInv, FnfOK, SettlementAddsUp
  <2>2. ASSUME NEW e \in Paid
        PROVE  revisions[e] = Cardinality({i \in reported : sheet[i].who = e}) /\ revisions[e] <= 1
    <3>1. PICK s : s = {i \in reported : sheet[i].who = e}
      OBVIOUS
    <3>2. ImportOK /\ SettleTypes
      BY <1>3 DEF SettleInv
    <3>3. \A i, j \in s : i = j
      BY <3>1, <3>2, GoodRowsDiffer DEF ImportOK, SettleTypes
    <3>4. revisions[e] = IF s # {} THEN 1 ELSE 0
      BY <3>1, <3>2 DEF ImportOK
    <3>5. CASE s = {}
      <4>1. Cardinality(s) = 0
        BY <3>5, FS_EmptySet
      <4> QED BY <3>1, <3>4, <3>5, <4>1
    <3>6. CASE s # {}
      <4>1. PICK i : s = {i}
        BY <3>3, <3>6
      <4>2. Cardinality(s) = 1
        BY <4>1, FS_Singleton
      <4> QED BY <3>1, <3>4, <3>6, <4>2
    <3> QED BY <3>5, <3>6
  <2>3. TablesDoNotMix
    BY <1>3 DEF SettleInv, TaxOK, TablesDoNotMix
  <2>4. RatesExist
    <3>1. ASSUME calm /\ Quiet PROVE slabs # {} <=> config
      <4>1. ~Seeding
        BY <3>1 DEF Quiet, Running, Seeding, Idle
      <4> QED BY <1>3, <3>1, <4>1 DEF SettleInv, TaxOK
    <3> QED BY <3>1 DEF RatesExist
  <2> QED BY <2>1, <2>2, <2>3, <2>4 DEF PaySettingsAddUp, OneRevisionPerEmployee
<1>4. SettleInv => PaySettingsAddUp
  BY <1>3
<1> QED BY <1>1, <1>2, <1>4, PTL DEF SettlementsSpec

LEMMA SettlementDecisions ==
  ASSUME SettleInv, [SettlementsNext]_<<callVars, settlementVars>>
  PROVE  /\ calm' => \A e \in Leavers : fnf[e].status \in {"APPROVED", "PAID"} =>
              fnf'[e] \in {fnf[e], [fnf[e] EXCEPT !.status = "PAID"]}
         /\ \A e \in Paid : salary[e] = 7 /\ salary'[e] # 7 =>
              /\ \E h \in Handlers : calls[h].pc = "importRows" /\ e \in calls[h].had
              /\ revisions[e] = 0 /\ revisions'[e] = 1
<1>1. SettleTypes /\ ImportOK /\ \A h \in Handlers : SettleCall(calls[h]) /\ SettleRows(calls[h])
  BY DEF SettleInv
<1>2. ASSUME calm', NEW e \in Leavers, fnf[e].status \in {"APPROVED", "PAID"}
      PROVE  fnf'[e] \in {fnf[e], [fnf[e] EXCEPT !.status = "PAID"]}
  <2>1. CASE \E h \in Handlers : CreateFnf(h)
    <3>1. PICK h \in Handlers : CreateFnf(h)
      BY <2>1
    <3>2. PICK q : q = calls[h].e
      OBVIOUS
    <3>3. \/ fnf' = fnf
          \/ fnf[q] = NoFnf /\ \E y : fnf' = [fnf EXCEPT ![q] = y]
      BY <3>1, <3>2 DEF CreateFnf
    <3>4. fnf[e] # NoFnf
      BY <1>2 DEF NoFnf
    <3>5. fnf'[e] = fnf[e]
      BY <1>1, <3>3, <3>4 DEF SettleTypes
    <3> QED BY <3>5
  <2>2. CASE \E h \in Handlers : WriteFnf(h)
    <3>1. PICK h \in Handlers : WriteFnf(h)
      BY <2>2
    <3>2. PICK c : c = calls[h]
      OBVIOUS
    <3>3. c.pc = "writeFnf" /\ calm /\ fnf' = [fnf EXCEPT ![c.e] = Decision(c)]
      BY <1>2, <3>1, <3>2 DEF WriteFnf, Finish, Continue
    <3>4. c.e \in Leavers /\ c.op \in {"advance", "approve", "markPaid"}
          /\ fnf[c.e].status = IF c.op = "markPaid" THEN "APPROVED" ELSE "DRAFT"
      <4>1. SettleCall(c) /\ SettleRows(c)
        BY <1>1, <3>2
      <4> QED BY <3>3, <4>1 DEF SettleCall, SettleRows, Idle
    <3>5. CASE c.e # e
      BY <1>1, <3>3, <3>5 DEF SettleTypes
    <3>6. CASE c.e = e
      <4>1. c.op = "markPaid"
        BY <1>2, <3>4, <3>6
      <4>2. Decision(c) = [fnf[e] EXCEPT !.status = "PAID"]
        BY <3>6, <4>1 DEF Decision
      <4>3. fnf'[e] = [fnf[e] EXCEPT !.status = "PAID"]
        BY <1>1, <3>3, <3>6, <4>2 DEF SettleTypes
      <4> QED BY <4>3
    <3> QED BY <3>5, <3>6
  <2>3. CASE fnf' = fnf
    BY <2>3
  <2> QED BY <2>1, <2>2, <2>3 DEF SettlementsNext, FnfNext, SalariesNext, TaxNext, generate, Decide, ChangeAdmins,
          importSalaries, ImportRow, ImportDone, EditSalary, getTaxConfig, SeedSlabs, SeedConfig, replaceTaxSlabs,
          TaxRead, saveConfig, settlementVars, fnfVars
<1>3. ASSUME NEW e \in Paid, salary[e] = 7, salary'[e] # 7
      PROVE  /\ \E h \in Handlers : calls[h].pc = "importRows" /\ e \in calls[h].had
             /\ revisions[e] = 0 /\ revisions'[e] = 1
  <2>1. CASE \E h \in Handlers, i \in 1..Len(sheet) : ImportRow(h, i)
    <3>1. PICK h \in Handlers, i \in 1..Len(sheet) : ImportRow(h, i)
      BY <2>1
    <3>2. PICK q, c : q = sheet[i].who /\ c = calls[h]
      OBVIOUS
    <3>3. /\ c.pc = "importRows" /\ i \in c.left
          /\ \/ salary' = salary
             \/ /\ Writable(c.had, q) /\ salary' = [salary EXCEPT ![q] = sheet[i].ctc]
                /\ revisions' = [revisions EXCEPT ![q] = @ + 1]
      BY <3>1, <3>2 DEF ImportRow
    <3>4. q = e /\ Writable(c.had, q) /\ revisions' = [revisions EXCEPT ![e] = @ + 1]
      BY <1>1, <1>3, <3>3 DEF SettleTypes
    <3>5. e \in c.had
      BY <1>3, <3>4 DEF Writable
    <3>6. i \in GoodRows /\ i \notin reported /\ reported \subseteq GoodRows
      <4>1. c.left \subseteq GoodRows
        <5>1. SettleCall(c)
          BY <1>1, <3>2
        <5>2. c # Idle /\ c.pc \notin {"createFnf", "writeFnf", "seedSlabs", "seedConfig", "replace", "read"}
          BY ONLY <3>3 DEF Idle
        <5> QED BY ONLY <5>1, <5>2 DEF SettleCall
      <4>2. c.left \cap reported = {}
        BY <1>1, <3>2, <3>3 DEF SettleRows
      <4> QED BY <1>1, <3>3, <4>1, <4>2 DEF ImportOK
    <3>7. \A j \in reported : sheet[j].who # e
      BY <1>1, <3>2, <3>4, <3>6, GoodRowsDiffer DEF SettleTypes
    <3>8. revisions[e] = 0 /\ revisions \in [Paid -> Nat]
      BY <1>1, <3>7 DEF ImportOK, SettleTypes
    <3>9. revisions'[e] = 1
      BY <3>4, <3>8
    <3> QED BY <3>2, <3>3, <3>5, <3>8, <3>9
  <2>2. CASE \E q \in Paid : EditSalary(q)
    BY <1>1, <1>3, <2>2 DEF EditSalary, SettleTypes
  <2>3. CASE salary' = salary
    BY <1>3, <2>3
  <2> QED BY <2>1, <2>2, <2>3 DEF SettlementsNext, FnfNext, SalariesNext, TaxNext, generate, Decide, ChangeAdmins,
          CreateFnf, WriteFnf, importSalaries, ImportDone, getTaxConfig, SeedSlabs, SeedConfig, replaceTaxSlabs,
          TaxRead, saveConfig, settlementVars, importVars_
<1> QED BY <1>2, <1>3

(* An approved settlement's figures stand, decisions one at a time; and     *)
(* what HR wrote is replaced only by the import's one update of a structure *)
(* that it had found (full-and-final.service.ts, salary-import.service.ts). *)
THEOREM SalariesStand == SettlementsSpec => SettlementStands /\ EditedSalaryStands
<1>1. CallsInit /\ SettlementsInit => SettleInv
  BY SettlementsStart
<1>2. SettleInv /\ [SettlementsNext]_<<callVars, settlementVars>> => SettleInv'
  BY SettlementSteps
<1>3. SettleInv /\ [SettlementsNext]_<<callVars, settlementVars>> =>
        [calm' => \A e \in Leavers : fnf[e].status \in {"APPROVED", "PAID"} =>
           fnf'[e] \in {fnf[e], [fnf[e] EXCEPT !.status = "PAID"]}]_<<fnfVars, callVars>>
  BY SettlementDecisions
<1>4. SettleInv /\ [SettlementsNext]_<<callVars, settlementVars>> =>
        [\A e \in Paid : salary[e] = 7 /\ salary'[e] # 7 =>
           /\ \E h \in Handlers : calls[h].pc = "importRows" /\ e \in calls[h].had
           /\ revisions[e] = 0 /\ revisions'[e] = 1]_<<importVars_, callVars>>
  BY SettlementDecisions
<1> QED BY <1>1, <1>2, <1>3, <1>4, PTL DEF SettlementsSpec, SettlementStands, EditedSalaryStands

-----------------------------------------------------------------------------
(* A behaviour of the services is about mail, about documents or about      *)
(* payroll's settings, as their tables are disjoint.                        *)
ServicesSpec ==
    \/ MailSpec /\ [][FALSE]_<<docVars>> /\ [][FALSE]_<<settlementVars>>
    \/ DocSpec /\ [][FALSE]_<<settlementVars>>
    \/ SettlementsSpec /\ [][FALSE]_<<docVars>>

(* Verdicts, attachments, settlements and salaries are not undone by what   *)
(* comes later: the two facts above, whichever service moves.               *)
THEOREM ServicesStand == ServicesSpec => WhatIsDecidedStands
<1>1. [FALSE]_<<docVars>> =>
         /\ [\A f \in Files \cap Infected : f \in served' \ served => ~scanningEnabled]_<<docVars>>
         /\ [calm' /\ (\E f \in Attached : row[f].live) /\ (\A f \in Attached : ~row'[f].live)
               => ~\E h \in Clients : calls[h] # Idle]_<<docVars, callVars>>
  BY DEF docVars
<1>2. [FALSE]_<<settlementVars>> =>
         /\ [calm' => \A e \in Leavers : fnf[e].status \in {"APPROVED", "PAID"} =>
               fnf'[e] \in {fnf[e], [fnf[e] EXCEPT !.status = "PAID"]}]_<<fnfVars, callVars>>
         /\ [\A e \in Paid : salary[e] = 7 /\ salary'[e] # 7 =>
               /\ \E h \in Handlers : calls[h].pc = "importRows" /\ e \in calls[h].had
               /\ revisions[e] = 0 /\ revisions'[e] = 1]_<<importVars_, callVars>>
  BY DEF settlementVars
<1> QED BY <1>1, <1>2, DownloadsAreClean, SalariesStand, PTL
        DEF ServicesSpec, WhatIsDecidedStands, MalwareIsNotServed, AttachmentKept, SettlementStands, EditedSalaryStands
=============================================================================
