------------------------------ MODULE JobQueue ------------------------------
(* The OCR jobs of documents with scanned pages (app/jobs/queue.py,          *)
(* jobs/models.py, ingest/ocr.py), and the workers that drain them.  The     *)
(* worker's loop is not in the repository; it is modelled from how ADR-0011  *)
(* and these modules expect to be called: claim, run, mark and commit in one *)
(* transaction, which a worker that dies takes with it.                      *)
EXTENDS Integers

CONSTANTS
    Documents,      \* documents, each with at most one job: that of its upload
    Pages,          \* the page numbers of each
    Workers,
    None,           \* no document
    MAX_ATTEMPTS, BACKOFF_BASE, BACKOFF_CAP, MAX_BACKOFF_DOUBLINGS,
    MaxDeaths       \* bound: how often a worker dies

ASSUME NoneAssumption == None \notin Documents
ASSUME BudgetAssumption == /\ MAX_ATTEMPTS \in Nat \ {0} /\ MaxDeaths \in Nat
                           /\ BACKOFF_BASE \in Nat \ {0} /\ BACKOFF_CAP \in Nat \ {0}
                           /\ MAX_BACKOFF_DOUBLINGS \in Nat
\* The clamp lies beyond the cap: 30 s doubled 16 times is more than 30 min.
ASSUME ClampAssumption == BACKOFF_BASE * 2 ^ MAX_BACKOFF_DOUBLINGS >= BACKOFF_CAP
\* (For the proofs: the provers know nothing of powers.)
ASSUME PowerAssumption ==
    \A n \in 0 .. MAX_BACKOFF_DOUBLINGS : 2 ^ n \in Nat /\ 2 ^ (n + 1) = 2 * 2 ^ n

VARIABLES
    job,     \* the job rows, by the document their payload names
    page,    \* the text of each page: native, unread, or what OCR made of it
    status,  \* Document.ocr_status, "absent" before the upload and "gone" after deletion
    worker,  \* the workers, each with its transaction
    now,     \* the clock
    taken,   \* history: how often a job was claimed,
    lost     \* ... and how often its claim was rolled back
    
vars == <<job, page, status, worker, now, taken, lost>>

-----------------------------------------------------------------------------
JobStatus == {"none", "queued", "running", "succeeded", "failed"}
\* "not_read" stands for document_bytes_missing, ocr_engine_unavailable and ocr_engine_failed.
ErrorClass == {"none", "document_not_found", "not_read"}
Texts == {"native", "unread", "illegible", "read"}
OnRecord(d) == status[d] \notin {"absent", "gone"}

\* Mutant: the first retry already doubles.
MutBackoffFor(attempts) ==
    LET delay == BACKOFF_BASE * 2 ^ attempts
    IN  IF delay < BACKOFF_CAP THEN delay ELSE BACKOFF_CAP

\* The delay after the n-th attempt: doubled each time, clamped before and capped after.
backoff_for(attempts) ==
    LET least(a, b) == IF a < b THEN a ELSE b
        doublings == least(IF attempts > 1 THEN attempts - 1 ELSE 0, MAX_BACKOFF_DOUBLINGS)
        delay == BACKOFF_BASE * 2 ^ doublings
    IN  least(delay, BACKOFF_CAP)

Resting == [at |-> "idle", doc |-> None, error |-> "none"]
Init ==
    /\ job = [d \in Documents |-> [status |-> "none", attempts |-> 0, run_after |-> 0, error |-> "none"]]
    /\ page = [d \in Documents |-> [p \in Pages |-> "unread"]]
    /\ status = [d \in Documents |-> "absent"]
    /\ worker = [w \in Workers |-> Resting]
    /\ now = 0
    /\ taken = [d \in Documents |-> 0] /\ lost = [d \in Documents |-> 0]

Rest(w) == worker' = [worker EXCEPT ![w] = Resting]
Goes(w, step) == worker' = [worker EXCEPT ![w].at = step]
FailsWith(w, e) == worker' = [worker EXCEPT ![w].at = "failed", ![w].error = e]

\* What the workers' transactions lock: the job they claimed, and the document if they have
\* marked it processing.  A document that says so already from an earlier attempt is not
\* written, so not locked.
LocksJob(w, d)      == worker[w].doc = d
LocksDocument(w, d) == /\ worker[w].doc = d /\ status[d] = "needs_ocr"
                       /\ worker[w].at = "read" \/ worker[w].error = "not_read"

-----------------------------------------------------------------------------
\* An upload commits a document that has pages without text, and its job (enqueue_ocr).
Enqueue(d, texts) ==
    /\ status[d] = "absent"
    /\ \E p \in Pages : texts[p] = "unread"
    /\ page' = [page EXCEPT ![d] = texts]
    /\ status' = [status EXCEPT ![d] = "needs_ocr"]
    /\ job' = [job EXCEPT ![d].status = "queued", ![d].run_after = now]
    /\ UNCHANGED <<worker, now, taken, lost>>

\* Mutant: whatever its status.
MutRunnable(d) == job[d].status # "none" /\ job[d].run_after <= now

Runnable(d) == job[d].status = "queued" /\ job[d].run_after <= now

\* Mutant: FOR UPDATE without SKIP LOCKED or a second look at the row.
MutClaim(w) ==
    /\ worker[w].at = "idle"
    /\ \E d \in Documents :
          /\ Runnable(d)
          /\ worker' = [worker EXCEPT ![w] = [at |-> "claimed", doc |-> d, error |-> "none"]]
          /\ taken' = [taken EXCEPT ![d] = @ + 1]
    /\ UNCHANGED <<job, page, status, now, lost>>

\* claim_next: the job that has waited longest of those nobody has locked.
Claim(w) ==
    LET free == {d \in Documents : Runnable(d) /\ \A v \in Workers : ~ LocksJob(v, d)} IN
    /\ worker[w].at = "idle"
    /\ \E d \in free :
          /\ \A other \in free : job[d].run_after <= job[other].run_after
          /\ worker' = [worker EXCEPT ![w] = [at |-> "claimed", doc |-> d, error |-> "none"]]
          /\ taken' = [taken EXCEPT ![d] = @ + 1]
    /\ UNCHANGED <<job, page, status, now, lost>>

-----------------------------------------------------------------------------
\* run_ocr_for_document looks for the document ...
FindDocument(w) ==
    /\ worker[w].at = "claimed"
    /\ CASE status[worker[w].doc] = "gone"       -> FailsWith(w, "document_not_found")
         [] status[worker[w].doc] = "processing" -> Goes(w, "read")
         [] OTHER                                -> Goes(w, "found")
    /\ UNCHANGED <<job, page, status, now, taken, lost>>

\* ... marks it processing, in this transaction ...
MarkProcessing(w) ==
    /\ worker[w].at = "found" /\ OnRecord(worker[w].doc)
    /\ Goes(w, "read")
    /\ UNCHANGED <<job, page, status, now, taken, lost>>

\* ... and, if it was deleted before this or the last UPDATE of it, raises StaleDataError:
\* no OcrFailure, so the transaction is rolled back, ...
DocumentVanished(w) ==
    /\ worker[w].at \in {"found", "read"} /\ ~ OnRecord(worker[w].doc)
    /\ lost' = [lost EXCEPT ![worker[w].doc] = @ + 1]
    /\ Rest(w)
    /\ UNCHANGED <<job, page, status, now, taken>>

\* Mutant: a missing file is taken for a missing document.
MutReadFails(w) ==
    /\ worker[w].at = "read" /\ FailsWith(w, "document_not_found")
    /\ UNCHANGED <<job, page, status, now, taken, lost>>

\* ... fails to get its bytes or to have them read ...
ReadFails(w) ==
    /\ worker[w].at = "read" /\ FailsWith(w, "not_read")
    /\ UNCHANGED <<job, page, status, now, taken, lost>>

\* Mutant: what the engine read replaces any text.
MutFilled(text, result) == IF result = "nothing" THEN text ELSE result

\* ... or gets a result for some pages, with or without text: it goes to those without.
Filled(text, result) == IF text \in {"native", "read"} \/ result = "nothing" THEN text ELSE result

\* Mutant: complete as soon as some page has text.
MutReadStatus(texts) == IF \E p \in Pages : texts[p] \in {"native", "read"} THEN "complete" ELSE "needs_ocr"

ReadStatus(texts) == IF \A p \in Pages : texts[p] \in {"native", "read"} THEN "complete" ELSE "needs_ocr"

\* The engine answers, the pages and the document are written, mark_succeeded, commit.
Succeed(w) ==
    LET d == worker[w].doc IN
    /\ worker[w].at = "read" /\ OnRecord(d)
    /\ \E result \in [Pages -> {"nothing", "illegible", "read"}] :
          LET texts == [p \in Pages |-> Filled(page[d][p], result[p])] IN
          /\ page' = [page EXCEPT ![d] = texts]
          /\ status' = [status EXCEPT ![d] = ReadStatus(texts)]
    /\ job' = [job EXCEPT ![d].status = "succeeded", ![d].attempts = @ + 1, ![d].error = "none"]
    /\ Rest(w)
    /\ UNCHANGED <<now, taken, lost>>

\* Mutant: the budget is compared with the attempts before this one.
MutGivesUp(attempts) == attempts > MAX_ATTEMPTS

GivesUp(attempts) == attempts >= MAX_ATTEMPTS

\* Mutant: a job to be retried is left running.
MutMarkFailed(w) ==
    LET d == worker[w].doc IN
    /\ worker[w].at = "failed"
    /\ job' = [job EXCEPT ![d].attempts = @ + 1, ![d].error = worker[w].error,
                          ![d].status = IF GivesUp(job[d].attempts + 1) THEN "failed" ELSE "running"]
    /\ Rest(w)
    /\ UNCHANGED <<page, status, now, taken, lost>>

\* mark_failed, commit: with the class of the failure, and the document as it was left.
MarkFailed(w) ==
    LET d == worker[w].doc
        attempts == job[d].attempts + 1 IN
    /\ worker[w].at = "failed"
    /\ job' = [job EXCEPT ![d] =
                 IF GivesUp(attempts)
                 THEN [@ EXCEPT !.status = "failed", !.attempts = attempts, !.error = worker[w].error]
                 ELSE [status |-> "queued", attempts |-> attempts, error |-> worker[w].error,
                       run_after |-> now + backoff_for(attempts)]]
    /\ status' = [status EXCEPT ![d] = IF @ = "needs_ocr" /\ worker[w].error = "not_read"
                                      THEN "processing" ELSE @]
    /\ Rest(w)
    /\ UNCHANGED <<page, now, taken, lost>>

-----------------------------------------------------------------------------
\* A worker dies, or its connection is lost: its transaction is rolled back.
Die(w) ==
    /\ worker[w].at # "idle"
    /\ lost[worker[w].doc] < MaxDeaths
    /\ lost' = [lost EXCEPT ![worker[w].doc] = @ + 1]
    /\ Rest(w)
    /\ UNCHANGED <<job, page, status, now, taken>>

\* The account of the document is deleted; the job refers to no row and stays.
Delete(d) ==
    /\ OnRecord(d) /\ \A w \in Workers : ~ LocksDocument(w, d)
    /\ status' = [status EXCEPT ![d] = "gone"]
    /\ page' = [page EXCEPT ![d] = [p \in Pages |-> "unread"]]
    /\ UNCHANGED <<job, worker, now, taken, lost>>

\* The clock, as far as a job waits for it: nothing else compares times.
Tick ==
    /\ \E d \in Documents : job[d].status = "queued" /\ job[d].run_after > now
    /\ now' = now + 1
    /\ UNCHANGED <<job, page, status, worker, taken, lost>>

Work(w) == \/ Claim(w) \/ FindDocument(w) \/ MarkProcessing(w) \/ DocumentVanished(w)
           \/ ReadFails(w) \/ Succeed(w) \/ MarkFailed(w)

Next ==
    \/ \E d \in Documents, texts \in [Pages -> {"native", "unread"}] : Enqueue(d, texts)
    \/ \E w \in Workers : Work(w) \/ Die(w)
    \/ \E d \in Documents : Delete(d)
    \/ Tick

Spec == Init /\ [][Next]_vars

\* Some worker goes on working as long as it can, and time passes.
FairSpec == Spec /\ WF_vars(Tick) /\ \A w \in Workers : WF_vars(Work(w))
-----------------------------------------------------------------------------
\* Every variable keeps its type, attempts their limit: a row is at most MAX_ATTEMPTS times
\* counted, and never seen as running.
TypeOK ==
    /\ job \in [Documents -> [status : JobStatus \ {"running"}, attempts : 0 .. MAX_ATTEMPTS,
                              run_after : Nat, error : ErrorClass]]
    /\ page \in [Documents -> [Pages -> Texts]]
    /\ status \in [Documents -> {"absent", "needs_ocr", "processing", "complete", "gone"}]
    /\ worker \in [Workers -> [at : {"idle", "claimed", "found", "read", "failed"},
                               doc : Documents \cup {None}, error : ErrorClass]]
    /\ now \in Nat /\ taken \in [Documents -> Nat] /\ lost \in [Documents -> Nat]

\* Every claim of a job is counted as an attempt, was lost with its worker, or is the one
\* being worked on; and a job waits exactly as long as its budget lasts (jobs/models.py:28-30,
\* jobs/queue.py:46-90).
RunsAccounted ==
    \A d \in Documents :
        /\ taken[d] = job[d].attempts + lost[d]
                       + (IF \E w \in Workers : LocksJob(w, d) THEN 1 ELSE 0)
        /\ job[d].status = "queued" => job[d].attempts < MAX_ATTEMPTS
        /\ job[d].status = "failed" => job[d].attempts = MAX_ATTEMPTS

\* "A document is complete only when every page has text" (ADR-0011), and is when it has.
CompleteMeansRead ==
    \A d \in Documents : OnRecord(d) =>
        (status[d] = "complete" <=> \A p \in Pages : page[d][p] \in {"native", "read"})

\* What the document says of its reading fits what became of its job.  A document whose job
\* has failed for good says "processing": nothing sets OcrStatus.failed.
StatusExplained ==
    \A d \in Documents :
        /\ status[d] = "needs_ocr" => \/ job[d].status = "queued" /\ job[d].attempts = 0
                                      \/ job[d].status = "succeeded"
        /\ status[d] = "processing" => /\ job[d].status \in {"queued", "failed"}
                                       /\ job[d].error = "not_read"
        /\ status[d] = "complete" => job[d].status = "succeeded"
        /\ job[d].error = "document_not_found" => status[d] = "gone"

\* A job that has succeeded or failed is never worked on again, whatever other workers do.
OutcomeFinal ==
    [][\A d \in Documents : job[d].status \in {"succeeded", "failed"} => job'[d] = job[d]]_vars

\* "OCR only fills pages that have no text layer" (ADR-0011): text is never replaced.
TextKept ==
    [][\A d \in Documents, p \in Pages :
          OnRecord(d) /\ OnRecord(d)' /\ page[d][p] \in {"native", "read"}
              => page'[d][p] = page[d][p]]_vars

\* A job does not wait for ever behind others, nor is it retried for ever, when workers die
\* only so often.
EveryJobEnds ==
    \A d \in Documents : job[d].status = "queued" ~> job[d].status \in {"succeeded", "failed"}

\* The delays that lie before a job double from base to cap, beyond its budget too: the
\* clamp changes none of them (jobs/queue.py:19-29).
BackoffDoubles ==
    LET capped(delay) == IF delay < BACKOFF_CAP THEN delay ELSE BACKOFF_CAP
    IN  \A d \in Documents : \A n \in job[d].attempts + 1 .. MAX_BACKOFF_DOUBLINGS + 4 :
            backoff_for(n) = capped(IF n = 1 THEN BACKOFF_BASE ELSE 2 * backoff_for(n - 1))
=============================================================================
