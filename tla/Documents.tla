------------------------------ MODULE Documents ------------------------------
(***************************************************************************)
(* Uploaded files (apps/api/src/documents): the object is stored, the row   *)
(* written, the owner's previous attachment retired and a scan enqueued, in *)
(* four steps; the scan worker downloads, scans, deletes an infected object *)
(* and writes the verdict; a sweep re-adds what was never decided.          *)
(***************************************************************************)
EXTENDS Jobs

CONSTANTS
    Files,            \* uploads, in the order they are made
    Attached,         \* the ones attached to one leave request or
                      \* regularization; the others are profile documents
    Infected          \* the ones whose content is malware

ASSUME DocumentsAssumption == Files \subseteq JobIds /\ Attached \subseteq Files

VARIABLES
    row,      \* documents: [scan, live], or NoRow
    stored,   \* the objects in the bucket
    served,   \* the ones a download URL was issued for
    orphaned, \* objects whose removal was given up or never came
    scanningEnabled   \* DOCUMENT_SCANNING_ENABLED of this deployment

docVars == <<row, stored, served, orphaned, scanningEnabled>>

NoRow == [scan |-> "none", live |-> FALSE]
DocInit == row = [f \in Files |-> NoRow] /\ stored = {} /\ served = {} /\ orphaned = {}
           /\ scanningEnabled \in BOOLEAN

(* upload() *)
upload(h, f) ==
    /\ h \in Clients /\ row[f] = NoRow /\ f \notin stored /\ f \notin orphaned
    /\ f \notin {calls[g].f : g \in {k \in Clients : calls[k] # Idle}}
    /\ stored' = stored \cup {f}
    /\ Begin(h, [pc |-> "createRow", f |-> f])
    /\ UNCHANGED <<row, served, orphaned, jobVars, scanningEnabled>>

CreateRow(h) ==
    LET f == calls[h].f IN
    /\ calls[h].pc = "createRow"
    /\ row' = [row EXCEPT ![f] = [scan |-> "PENDING_SCAN", live |-> TRUE]]
    /\ Continue(h, [calls[h] EXCEPT !.pc = IF f \in Attached THEN "retire" ELSE "enqueueScan"])
    /\ UNCHANGED <<stored, served, orphaned, jobVars, scanningEnabled>>

(* The row is refused: the object goes. *)
createFails(h) ==
    /\ calls[h].pc = "createRow" /\ Fault
    /\ Continue(h, [calls[h] EXCEPT !.pc = "dropObject"])
    /\ UNCHANGED <<row, stored, served, orphaned, jobs, scanningEnabled>>
DropObject(h) ==
    /\ calls[h].pc = "dropObject"
    /\ \/ stored' = stored \ {calls[h].f} /\ UNCHANGED <<orphaned, faults>>
       \/ Fault /\ orphaned' = orphaned \cup {calls[h].f} /\ UNCHANGED stored
    /\ Finish(h)
    /\ UNCHANGED <<row, served, jobs, scanningEnabled>>

(* The owner's other live attachments are retired. *)
(* Mutant of Retired: this one too. *)
RetiredAll(f) == Attached

Retired(f) == Attached \ {f}

Retire(h) ==
    /\ calls[h].pc = "retire"
    /\ row' = [g \in Files |-> IF g \in Retired(calls[h].f) THEN [row[g] EXCEPT !.live = FALSE] ELSE row[g]]
    /\ Continue(h, [calls[h] EXCEPT !.pc = "enqueueScan"])
    /\ UNCHANGED <<stored, served, orphaned, jobVars, scanningEnabled>>

(* enqueueScan(): best effort, and not at all with scanning off. *)
EnqueueScan(h) ==
    /\ calls[h].pc = "enqueueScan"
    /\ \/ jobs' = (IF scanningEnabled THEN WithJobs({calls[h].f}) ELSE jobs)
          /\ UNCHANGED faults
       \/ Fault /\ UNCHANGED jobs
    /\ Finish(h) /\ UNCHANGED docVars

(* getDownloadUrl() *)
reportedScanStatus(f) ==
    IF ~scanningEnabled /\ row[f].scan \in {"PENDING_SCAN", "SCAN_FAILED"} THEN "UNSCANNED" ELSE row[f].scan
Downloadable(f) == row[f].live /\ reportedScanStatus(f) \in {"CLEAN", "UNSCANNED"}

getDownloadUrl(f) ==
    /\ AtOnce /\ Downloadable(f)
    /\ served' = served \cup {f}
    /\ UNCHANGED <<row, stored, orphaned, jobVars, scanningEnabled>>

(* softDelete(): the row, not the object. *)
softDelete(f) ==
    /\ AtOnce /\ row[f].live
    /\ row' = [row EXCEPT ![f].live = FALSE]
    /\ UNCHANGED <<stored, served, orphaned, jobVars, scanningEnabled>>

(* scanDocument() *)
Decided(f) == ~row[f].live \/ row[f].scan \in {"CLEAN", "INFECTED"}
scanDocument(w, f) ==
    /\ Take(w, f, IF Decided(f) THEN "scanDone" ELSE "download")
    /\ UNCHANGED <<docVars, jobVars>>
ScanDone(w) ==
    /\ calls[w].pc = "scanDone"
    /\ jobs' = Completed(calls[w].job) /\ UNCHANGED faults
    /\ Finish(w) /\ UNCHANGED docVars

(* The verdict on the content, if the object is there and clamd answers.    *)
Scan(w) ==
    LET f == calls[w].job IN
    /\ calls[w].pc = "download" /\ f \in stored
    /\ Continue(w, [calls[w] EXCEPT !.pc = IF f \in Infected THEN "deleteObject" ELSE "writeClean"])
    /\ UNCHANGED <<docVars, jobVars>>
ScanFails(w) ==
    /\ calls[w].pc = "download"
    /\ \/ calls[w].job \notin stored /\ UNCHANGED faults
       \/ calls[w].job \in stored /\ Fault
    /\ Continue(w, [calls[w] EXCEPT !.pc = "scanThrew"])
    /\ UNCHANGED <<docVars, jobs>>
ScanThrew(w) ==
    LET f == calls[w].job IN
    /\ calls[w].pc = "scanThrew"
    /\ row' = IF LastAttempt(f) THEN [row EXCEPT ![f].scan = "SCAN_FAILED"] ELSE row
    /\ jobs' = Threw(f) /\ UNCHANGED faults
    /\ Finish(w)
    /\ UNCHANGED <<stored, served, orphaned, scanningEnabled>>

(* Mutant of Verdict: the row is written, the object is kept. *)
VerdictRowFirst(w) ==
    LET f == calls[w].job IN
    /\ calls[w].pc \in {"writeClean", "deleteObject"}
    /\ row' = [row EXCEPT ![f].scan = IF f \in Infected THEN "INFECTED" ELSE "CLEAN"]
    /\ jobs' = Completed(f) /\ UNCHANGED faults
    /\ Finish(w)
    /\ UNCHANGED <<stored, served, orphaned, scanningEnabled>>

(* A clean row is written; an infected object is deleted first.             *)
Verdict(w) ==
    LET f == calls[w].job IN
    \/ /\ calls[w].pc = "deleteObject"
       /\ stored' = stored \ {f}
       /\ Continue(w, [calls[w] EXCEPT !.pc = "writeInfected"])
       /\ UNCHANGED <<row, served, orphaned, jobVars, scanningEnabled>>
    \/ /\ calls[w].pc \in {"writeClean", "writeInfected"}
       /\ row' = [row EXCEPT ![f].scan = IF calls[w].pc = "writeClean" THEN "CLEAN" ELSE "INFECTED"]
       /\ jobs' = Completed(f) /\ UNCHANGED faults
       /\ Finish(w)
       /\ UNCHANGED <<stored, served, orphaned, scanningEnabled>>

(* sweep(): what was never scanned, and what failed.                        *)
Unscanned == {f \in Files : row[f].live /\ row[f].scan \in {"PENDING_SCAN", "SCAN_FAILED"} /\ jobs[f] = NoJob}
SweepScans ==
    /\ scanningEnabled /\ Unscanned # {}
    /\ jobs' = WithJobs(Unscanned)
    /\ UNCHANGED <<docVars, callVars, faults>>

(* The deployment is given a scanner. *)
SwitchScanningOn ==
    /\ ~scanningEnabled /\ scanningEnabled' = TRUE
    /\ UNCHANGED <<row, stored, served, orphaned, callVars, jobVars>>

(* A process is lost; an upload leaves what it had done.                    *)
DocLose(h) ==
    /\ Fault /\ Lose(h)
    /\ orphaned' = IF calls[h].pc \in {"createRow", "dropObject"} THEN orphaned \cup {calls[h].f} ELSE orphaned
    /\ UNCHANGED <<row, stored, served, jobs, scanningEnabled>>

DocGoOn(w) ==
    \/ ScanDone(w) \/ Scan(w) \/ ScanThrew(w) \/ Verdict(w)
    \/ calls[w].pc = "download" /\ calls[w].job \notin stored /\ ScanFails(w)
DocNext ==
    \/ \E w \in Workers : (\E f \in Files : scanDocument(w, f)) \/ DocGoOn(w) \/ ScanFails(w)
    \/ \E h \in Clients : (\E f \in Files : upload(h, f)) \/ CreateRow(h) \/ createFails(h) \/ DropObject(h)
                          \/ Retire(h) \/ EnqueueScan(h)
    \/ \E h \in Handlers : DocLose(h)
    \/ \E f \in Files : getDownloadUrl(f) \/ softDelete(f)
    \/ SweepScans \/ SwitchScanningOn

(* As in Notifications; the sweep is scheduled every quarter of an hour.     *)
DocFairness ==
    /\ \A f \in Files : SF_<<docVars, callVars, jobVars>>(\E w \in Workers : scanDocument(w, f))
    /\ WF_<<docVars, callVars, jobVars>>(\E w \in Workers : DocGoOn(w))
    /\ WF_<<docVars, callVars, jobVars>>(SweepScans)
=============================================================================
