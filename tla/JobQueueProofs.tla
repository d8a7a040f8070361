---------------------------- MODULE JobQueueProofs ----------------------------
(* Proofs about JobQueue, for any documents, pages, workers and budgets.     *)
EXTENDS JobQueue, TLAPS

\* What a worker's transaction has come to, and what it can rely on by then: its job stays
\* as it was claimed, and a document it did not find is gone for good.
Placed(w) ==
    /\ worker[w].at = "idle" <=> worker[w].doc = None
    /\ worker[w].at = "failed" <=> worker[w].error # "none"
    /\ worker[w].at # "idle" => job[worker[w].doc].status = "queued"
    /\ worker[w].error = "document_not_found" => status[worker[w].doc] = "gone"

\* SKIP LOCKED: no two workers have claimed the same job.
Apart(v, w) == worker[v].doc = worker[w].doc => worker[v].doc = None

\* A document and its job come together.
Listed(d) == /\ job[d].status = "none" <=> status[d] = "absent"
             /\ job[d].status = "none" => job[d].attempts = 0 /\ job[d].error = "none"

Rows == RunsAccounted /\ CompleteMeansRead /\ StatusExplained /\ \A d \in Documents : Listed(d)

IInv == /\ TypeOK /\ Rows
        /\ \A w \in Workers : Placed(w)
        /\ \A v, w \in Workers : v # w => Apart(v, w)
-----------------------------------------------------------------------------
\* The delay after n attempts is the base, doubled as often as the clamp lets it, and capped.
Doubled(k)    == BACKOFF_BASE * 2 ^ k
Capped(delay) == IF delay < BACKOFF_CAP THEN delay ELSE BACKOFF_CAP
Doublings(n)  == IF n - 1 < MAX_BACKOFF_DOUBLINGS THEN n - 1 ELSE MAX_BACKOFF_DOUBLINGS

LEMMA Doubling ==
    /\ \A k \in 0 .. MAX_BACKOFF_DOUBLINGS : Doubled(k) \in Nat /\ Doubled(k + 1) = 2 * Doubled(k)
    /\ Doubled(0) = BACKOFF_BASE
    /\ Doubled(MAX_BACKOFF_DOUBLINGS) >= BACKOFF_CAP
<1>1. ASSUME NEW k \in 0 .. MAX_BACKOFF_DOUBLINGS
      PROVE  Doubled(k) \in Nat /\ Doubled(k + 1) = 2 * Doubled(k)
  <2> DEFINE p == 2 ^ k
             q == 2 ^ (k + 1)
  <2>1. p \in Nat /\ q = 2 * p
    BY PowerAssumption
  <2> HIDE DEF p, q
  <2>2. BACKOFF_BASE * p \in Nat /\ BACKOFF_BASE * q = 2 * (BACKOFF_BASE * p)
    BY <2>1, BudgetAssumption
  <2> QED BY <2>2 DEF Doubled, p, q
<1>2. Doubled(0) = BACKOFF_BASE
  <2>1. 2 ^ 0 = 1
    OBVIOUS
  <2> QED BY <2>1, BudgetAssumption DEF Doubled
<1>3. Doubled(MAX_BACKOFF_DOUBLINGS) >= BACKOFF_CAP
  BY ClampAssumption DEF Doubled
<1> QED BY <1>1, <1>2, <1>3

LEMMA Delay == ASSUME NEW n \in Nat \ {0}
               PROVE  /\ Doublings(n) \in 0 .. MAX_BACKOFF_DOUBLINGS
                      /\ backoff_for(n) = Capped(Doubled(Doublings(n)))
<1>1. Doublings(n) \in 0 .. MAX_BACKOFF_DOUBLINGS
  BY BudgetAssumption DEF Doublings
<1> DEFINE k == IF n > 1 THEN n - 1 ELSE 0
<1>2. k = n - 1
  OBVIOUS
<1>3. backoff_for(n) = Capped(Doubled(IF k < MAX_BACKOFF_DOUBLINGS THEN k
                                                                 ELSE MAX_BACKOFF_DOUBLINGS))
  BY DEF backoff_for, Capped, Doubled
<1> HIDE DEF k
<1> QED BY <1>1, <1>2, <1>3 DEF Doublings

\* For any number of attempts, not only those of a budget.
LEMMA DelayDoubles ==
    ASSUME NEW n \in Nat \ {0}
    PROVE  backoff_for(n) = Capped(IF n = 1 THEN BACKOFF_BASE ELSE 2 * backoff_for(n - 1))
<1>1. CASE n = 1
  <2>1. Doublings(n) = 0
    BY <1>1, BudgetAssumption DEF Doublings
  <2> QED BY <1>1, <2>1, Delay, Doubling
<1>2. CASE n > 1
  <2> DEFINE k == Doublings(n - 1)
  <2>1. k \in 0 .. MAX_BACKOFF_DOUBLINGS /\ backoff_for(n - 1) = Capped(Doubled(k))
    BY <1>2, Delay
  <2>2. \/ Doublings(n) = k + 1
        \/ k = MAX_BACKOFF_DOUBLINGS /\ Doublings(n) = k
    BY <1>2, BudgetAssumption DEF Doublings
  <2>3. backoff_for(n) = Capped(Doubled(Doublings(n)))
    BY Delay
  <2>4. /\ Doubled(k) \in Nat /\ Doubled(k + 1) = 2 * Doubled(k)
        /\ Doubled(MAX_BACKOFF_DOUBLINGS) >= BACKOFF_CAP
    BY <2>1, Doubling
  <2> HIDE DEF k
  <2> QED BY <1>2, <2>1, <2>2, <2>3, <2>4, BudgetAssumption DEF Capped
<1> QED BY <1>1, <1>2

LEMMA DelayIsNumber == ASSUME NEW n \in Nat \ {0} PROVE backoff_for(n) \in Nat
BY Delay, Doubling, BudgetAssumption DEF Capped

\* A worker that ends its transaction was the only one with that job.
LEMMA Rests ==
  ASSUME IInv, NEW w \in Workers, Rest(w), worker[w].at # "idle"
  PROVE  /\ worker' \in [Workers -> [at : {"idle", "claimed", "found", "read", "failed"},
                                     doc : Documents \cup {None}, error : ErrorClass]]
         /\ worker[w].doc \in Documents /\ job[worker[w].doc].status = "queued"
         /\ worker'[w] = Resting /\ \A v \in Workers \ {w} : worker'[v] = worker[v]
         /\ \A v \in Workers \ {w} : worker[v].doc # worker[w].doc
         /\ \A d \in Documents : (\E v \in Workers : LocksJob(v, d)')
                <=> (\E v \in Workers : LocksJob(v, d)) /\ d # worker[w].doc
         /\ LocksJob(w, worker[w].doc)
<1>1. /\ worker' = [worker EXCEPT ![w] = Resting]
      /\ worker \in [Workers -> [at : {"idle", "claimed", "found", "read", "failed"},
                                 doc : Documents \cup {None}, error : ErrorClass]]
  BY DEF Rest, IInv, TypeOK
<1>2. worker[w].doc \in Documents /\ job[worker[w].doc].status = "queued"
  BY <1>1 DEF IInv, Placed
<1>3. /\ worker'[w] = Resting /\ \A v \in Workers \ {w} : worker'[v] = worker[v]
      /\ Resting.doc = None
      /\ worker' \in [Workers -> [at : {"idle", "claimed", "found", "read", "failed"},
                                  doc : Documents \cup {None}, error : ErrorClass]]
  BY <1>1 DEF Resting, ErrorClass
<1>4. \A v \in Workers \ {w} : worker[v].doc # worker[w].doc
  BY <1>2, NoneAssumption DEF IInv, Apart
<1>5. \A d \in Documents : (\E v \in Workers : LocksJob(v, d)')
                <=> (\E v \in Workers : LocksJob(v, d)) /\ d # worker[w].doc
  BY <1>3, <1>4, NoneAssumption DEF LocksJob
<1> QED BY <1>2, <1>3, <1>4, <1>5 DEF LocksJob

\* ... and leaves the other workers as they were, when it has changed rows of its own job only.
LEMMA RestsApart ==
  ASSUME IInv, NEW w \in Workers, Rest(w), worker[w].at # "idle",
         \A d \in Documents \ {worker[w].doc} : job'[d] = job[d] /\ status'[d] = status[d],
         TypeOK', Rows'
  PROVE  IInv'
<1>1. /\ worker'[w] = Resting /\ \A v \in Workers \ {w} : worker'[v] = worker[v]
      /\ \A v \in Workers \ {w} : worker[v].doc # worker[w].doc
  BY Rests
<1>2. ASSUME NEW v \in Workers PROVE Placed(v)'
  <2>1. CASE v = w
    BY <2>1, <1>1 DEF Placed, Resting
  <2>2. CASE v # w
    <3>1. worker'[v] = worker[v] /\ Placed(v) /\ worker[v].doc \in Documents \cup {None}
      BY <2>2, <1>1 DEF IInv, TypeOK
    <3>2. worker[v].doc # None => /\ job'[worker[v].doc] = job[worker[v].doc]
                                  /\ status'[worker[v].doc] = status[worker[v].doc]
      BY <2>2, <1>1, <3>1
    <3>3. worker[v].error # "none" => worker[v].doc # None
      BY <3>1 DEF Placed
    <3> QED BY <3>1, <3>2, <3>3 DEF Placed
  <2> QED BY <2>1, <2>2
<1>3. ASSUME NEW u \in Workers, NEW v \in Workers, u # v PROVE Apart(u, v)'
  BY <1>1, <1>3 DEF IInv, Apart, Resting
<1> QED BY <1>2, <1>3 DEF IInv

\* A worker that goes on with its job.
LEMMA GoesOn ==
  ASSUME IInv, NEW w \in Workers, NEW step \in {"found", "read", "failed"}, NEW e \in ErrorClass,
         worker' = [worker EXCEPT ![w].at = step, ![w].error = e],
         worker[w].at # "idle", step = "failed" <=> e # "none",
         e = "document_not_found" => status[worker[w].doc] = "gone",
         UNCHANGED <<job, page, status, now, taken, lost>>
  PROVE  IInv'
<1> DEFINE x == [worker[w] EXCEPT !.at = step, !.error = e]
<1>t. /\ TypeOK /\ Rows /\ Placed(w) /\ worker' = [worker EXCEPT ![w] = x]
      /\ worker \in [Workers -> [at : {"idle", "claimed", "found", "read", "failed"},
                                 doc : Documents \cup {None}, error : ErrorClass]]
  BY DEF IInv, TypeOK
<1>x. /\ x.doc = worker[w].doc /\ x.at = step /\ x.error = e
      /\ x \in [at : {"idle", "claimed", "found", "read", "failed"},
                doc : Documents \cup {None}, error : ErrorClass]
  BY <1>t
<1> HIDE DEF x
<1>r. worker'[w] = x /\ \A v \in Workers \ {w} : worker'[v] = worker[v]
  BY <1>t
<1>u. /\ job' = job /\ page' = page /\ status' = status
      /\ now' = now /\ taken' = taken /\ lost' = lost
  OBVIOUS
<1>1. TypeOK'
  <2>1. worker' \in [Workers -> [at : {"idle", "claimed", "found", "read", "failed"},
                                doc : Documents \cup {None}, error : ErrorClass]]
    BY <1>t, <1>x
  <2> QED BY <1>t, <1>u, <2>1 DEF TypeOK
<1>2. Rows'
  <2>1. \A d \in Documents : (\E v \in Workers : LocksJob(v, d)') <=> \E v \in Workers : LocksJob(v, d)
    <3>1. \A v \in Workers : worker'[v].doc = worker[v].doc
      BY <1>r, <1>x
    <3> QED BY <3>1 DEF LocksJob
  <2>2. RunsAccounted'
    BY <2>1, <1>t DEF Rows, RunsAccounted
  <2> QED BY <2>2, <1>t DEF Rows, CompleteMeansRead, OnRecord, StatusExplained, Listed
<1>3. ASSUME NEW v \in Workers PROVE Placed(v)'
  <2>1. CASE v = w
    BY <2>1, <1>r, <1>x, <1>t DEF Placed
  <2>2. CASE v # w
    <3>1. Placed(v) /\ worker'[v] = worker[v]
      BY <2>2, <1>r DEF IInv
    <3> QED BY <3>1, <1>u DEF Placed
  <2> QED BY <2>1, <2>2
<1>4. ASSUME NEW u \in Workers, NEW v \in Workers, u # v PROVE Apart(u, v)'
  <2>1. worker'[u].doc = worker[u].doc /\ worker'[v].doc = worker[v].doc
    BY <1>r, <1>x
  <2>2. Apart(u, v)
    BY <1>4 DEF IInv
  <2> QED BY <2>1, <2>2 DEF Apart
<1> QED BY <1>1, <1>2, <1>3, <1>4 DEF IInv
-----------------------------------------------------------------------------
LEMMA Claims == ASSUME IInv, NEW w \in Workers, Claim(w) PROVE IInv'
<1>1. PICK d \in Documents :
         /\ Runnable(d) /\ \A v \in Workers : ~ LocksJob(v, d)
         /\ worker' = [worker EXCEPT ![w] = [at |-> "claimed", doc |-> d, error |-> "none"]]
         /\ taken' = [taken EXCEPT ![d] = @ + 1]
  BY DEF Claim
<1>t. /\ TypeOK /\ Rows /\ worker[w].at = "idle"
      /\ UNCHANGED <<job, page, status, now, lost>>
      /\ worker \in [Workers -> [at : {"idle", "claimed", "found", "read", "failed"},
                                 doc : Documents \cup {None}, error : ErrorClass]]
  BY DEF Claim, IInv, TypeOK
<1>r. /\ worker'[w] = [at |-> "claimed", doc |-> d, error |-> "none"]
      /\ \A v \in Workers \ {w} : worker'[v] = worker[v]
  BY <1>1, <1>t
<1>2. TypeOK'
  <2>1. worker' \in [Workers -> [at : {"idle", "claimed", "found", "read", "failed"},
                                 doc : Documents \cup {None}, error : ErrorClass]]
    BY <1>1, <1>t DEF ErrorClass
  <2>2. taken' \in [Documents -> Nat]
    BY <1>1, <1>t DEF TypeOK
  <2> QED BY <2>1, <2>2, <1>t DEF TypeOK
<1>3. Rows'
  <2>1. worker[w].doc = None
    BY <1>t DEF IInv, Placed
  <2>2. ASSUME NEW c \in Documents
        PROVE  taken'[c] = job[c].attempts + lost[c]
                           + (IF \E v \in Workers : LocksJob(v, c)' THEN 1 ELSE 0)
    <3>1. taken[c] = job[c].attempts + lost[c] + (IF \E v \in Workers : LocksJob(v, c) THEN 1 ELSE 0)
      BY <1>t DEF Rows, RunsAccounted
    <3>2. job[c].attempts \in Nat /\ lost[c] \in Nat /\ taken[c] \in Nat
      BY <1>t, BudgetAssumption DEF TypeOK
    <3>3. CASE c = d
      <4>1. LocksJob(w, c)' /\ ~ \E v \in Workers : LocksJob(v, c)
        BY <3>3, <1>1, <1>r DEF LocksJob
      <4>2. taken'[c] = taken[c] + 1
        BY <3>3, <1>1, <1>t DEF TypeOK
      <4> QED BY <3>1, <3>2, <4>1, <4>2
    <3>4. CASE c # d
      <4>1. (\E v \in Workers : LocksJob(v, c)') <=> \E v \in Workers : LocksJob(v, c)
        BY <3>4, <2>1, <1>r, NoneAssumption DEF LocksJob
      <4>2. taken'[c] = taken[c]
        BY <3>4, <1>1, <1>t DEF TypeOK
      <4> QED BY <3>1, <4>1, <4>2
    <3> QED BY <3>3, <3>4
  <2>3. RunsAccounted'
    BY <2>2, <1>t DEF Rows, RunsAccounted
  <2> QED BY <2>3, <1>t DEF Rows, CompleteMeansRead, OnRecord, StatusExplained, Listed
<1>4. ASSUME NEW v \in Workers PROVE Placed(v)'
  <2>1. CASE v = w
    BY <2>1, <1>r, <1>1, <1>t, NoneAssumption DEF Placed, Runnable
  <2>2. CASE v # w
    BY <2>2, <1>r, <1>t DEF IInv, Placed
  <2> QED BY <2>1, <2>2
<1>5. ASSUME NEW u \in Workers, NEW v \in Workers, u # v PROVE Apart(u, v)'
  <2>1. Apart(u, v) /\ worker[u].doc # d /\ worker[v].doc # d
    BY <1>5, <1>1 DEF IInv, LocksJob
  <2> QED BY <2>1, <1>r, <1>5 DEF Apart
<1> QED BY <1>2, <1>3, <1>4, <1>5 DEF IInv

LEMMA Finds == ASSUME IInv, NEW w \in Workers, FindDocument(w) PROVE IInv'
<1>t. /\ worker \in [Workers -> [at : {"idle", "claimed", "found", "read", "failed"},
                                 doc : Documents \cup {None}, error : ErrorClass]]
      /\ Placed(w) /\ worker[w].at = "claimed" /\ worker[w].error = "none"
      /\ UNCHANGED <<job, page, status, now, taken, lost>>
  BY DEF FindDocument, IInv, TypeOK, Placed
<1>1. CASE status[worker[w].doc] = "gone"
  <2>1. FailsWith(w, "document_not_found")
    BY <1>1 DEF FindDocument
  <2> QED BY <2>1, <1>1, <1>t, GoesOn DEF FailsWith, ErrorClass
<1>2. CASE status[worker[w].doc] # "gone"
  <2>1. Goes(w, "read") \/ Goes(w, "found")
    BY <1>2 DEF FindDocument
  <2>2. PICK step \in {"found", "read"} : worker' = [worker EXCEPT ![w].at = step]
    BY <2>1 DEF Goes
  <2>3. worker' = [worker EXCEPT ![w].at = step, ![w].error = "none"]
    BY <2>2, <1>t
  <2> QED BY <2>3, <1>t, GoesOn DEF ErrorClass
<1> QED BY <1>1, <1>2

LEMMA Marks == ASSUME IInv, NEW w \in Workers, MarkProcessing(w) PROVE IInv'
<1>t. /\ worker \in [Workers -> [at : {"idle", "claimed", "found", "read", "failed"},
                                 doc : Documents \cup {None}, error : ErrorClass]]
      /\ worker[w].at = "found" /\ worker[w].error = "none"
      /\ UNCHANGED <<job, page, status, now, taken, lost>>
      /\ worker' = [worker EXCEPT ![w].at = "read"]
  BY DEF MarkProcessing, Goes, IInv, TypeOK, Placed
<1>1. worker' = [worker EXCEPT ![w].at = "read", ![w].error = "none"]
  BY <1>t
<1> QED BY <1>1, <1>t, GoesOn DEF ErrorClass

LEMMA Fails == ASSUME IInv, NEW w \in Workers, ReadFails(w) PROVE IInv'
BY GoesOn DEF ReadFails, FailsWith, ErrorClass

\* The claim of a worker that dies or gives up its transaction is lost.
LEMMA Loses ==
  ASSUME IInv, NEW w \in Workers, Rest(w), worker[w].at # "idle",
         lost' = [lost EXCEPT ![worker[w].doc] = @ + 1],
         UNCHANGED <<job, page, status, now, taken>>
  PROVE  IInv'
<1>t. TypeOK /\ Rows
  BY DEF IInv
<1>1. /\ worker[w].doc \in Documents /\ LocksJob(w, worker[w].doc)
      /\ worker' \in [Workers -> [at : {"idle", "claimed", "found", "read", "failed"},
                                  doc : Documents \cup {None}, error : ErrorClass]]
      /\ \A d \in Documents : (\E v \in Workers : LocksJob(v, d)')
              <=> (\E v \in Workers : LocksJob(v, d)) /\ d # worker[w].doc
  BY Rests
<1>2. TypeOK'
  BY <1>t, <1>1 DEF TypeOK
<1>3. ASSUME NEW c \in Documents
      PROVE  taken[c] = job[c].attempts + lost'[c]
                        + (IF \E v \in Workers : LocksJob(v, c)' THEN 1 ELSE 0)
  <2>1. taken[c] = job[c].attempts + lost[c] + (IF \E v \in Workers : LocksJob(v, c) THEN 1 ELSE 0)
    BY <1>t DEF Rows, RunsAccounted
  <2>2. job[c].attempts \in Nat /\ lost[c] \in Nat
    BY <1>t, BudgetAssumption DEF TypeOK
  <2>3. lost'[c] = IF c = worker[w].doc THEN lost[c] + 1 ELSE lost[c]
    BY <1>t DEF TypeOK
  <2> QED BY <2>1, <2>2, <2>3, <1>1
<1>4. RunsAccounted'
  BY <1>3, <1>t DEF Rows, RunsAccounted
<1>5. Rows'
  BY <1>4, <1>t DEF Rows, CompleteMeansRead, OnRecord, StatusExplained, Listed
<1> QED BY <1>2, <1>5, RestsApart
\* A worker that commits what became of its job: one attempt is counted, and what is to be
\* shown is about the rows of that document.
LEMMA Counts ==
  ASSUME IInv, NEW w \in Workers, Rest(w), worker[w].at # "idle", TypeOK',
         \A d \in Documents \ {worker[w].doc} :
            job'[d] = job[d] /\ status'[d] = status[d] /\ page'[d] = page[d],
         UNCHANGED <<taken, lost>>,
         LET d == worker[w].doc IN
         /\ job'[d].attempts = job[d].attempts + 1
         /\ job'[d].status \in {"queued", "failed", "succeeded"} /\ status'[d] # "absent"
         /\ job'[d].status = "queued" => job'[d].attempts < MAX_ATTEMPTS
         /\ job'[d].status = "failed" => job'[d].attempts = MAX_ATTEMPTS
         /\ status'[d] = "needs_ocr" => job'[d].status = "succeeded"
         /\ status'[d] = "processing" => /\ job'[d].status \in {"queued", "failed"}
                                         /\ job'[d].error = "not_read"
         /\ status'[d] = "complete" => job'[d].status = "succeeded"
         /\ job'[d].error = "document_not_found" => status'[d] = "gone"
         /\ status'[d] # "gone" =>
               (status'[d] = "complete" <=> \A p \in Pages : page'[d][p] \in {"native", "read"})
  PROVE  IInv'
<1> DEFINE d == worker[w].doc
<1>t. TypeOK /\ Rows
  BY DEF IInv
<1>1. /\ d \in Documents /\ LocksJob(w, d)
      /\ \A c \in Documents : (\E v \in Workers : LocksJob(v, c)')
              <=> (\E v \in Workers : LocksJob(v, c)) /\ c # d
  BY Rests
<1>h. /\ \A c \in Documents \ {d} : job'[c] = job[c] /\ status'[c] = status[c] /\ page'[c] = page[c]
      /\ job'[d].attempts = job[d].attempts + 1
      /\ job'[d].status \in {"queued", "failed", "succeeded"} /\ status'[d] # "absent"
      /\ job'[d].status = "queued" => job'[d].attempts < MAX_ATTEMPTS
      /\ job'[d].status = "failed" => job'[d].attempts = MAX_ATTEMPTS
      /\ status'[d] = "needs_ocr" => job'[d].status = "succeeded"
      /\ status'[d] = "processing" => /\ job'[d].status \in {"queued", "failed"}
                                      /\ job'[d].error = "not_read"
      /\ status'[d] = "complete" => job'[d].status = "succeeded"
      /\ job'[d].error = "document_not_found" => status'[d] = "gone"
      /\ status'[d] # "gone" =>
            (status'[d] = "complete" <=> \A p \in Pages : page'[d][p] \in {"native", "read"})
  OBVIOUS
<1> HIDE DEF d
<1>2. RunsAccounted'
  <2>1. ASSUME NEW c \in Documents
        PROVE  taken[c] = job'[c].attempts + lost[c]
                          + (IF \E v \in Workers : LocksJob(v, c)' THEN 1 ELSE 0)
    <3>1. taken[c] = job[c].attempts + lost[c] + (IF \E v \in Workers : LocksJob(v, c) THEN 1 ELSE 0)
      BY <1>t DEF Rows, RunsAccounted
    <3>2. job[c].attempts \in Nat /\ lost[c] \in Nat
      BY <1>t, BudgetAssumption DEF TypeOK
    <3>3. CASE c = d
      BY <3>1, <3>2, <3>3, <1>1, <1>h
    <3>4. CASE c # d
      BY <3>1, <3>4, <1>1, <1>h
    <3> QED BY <3>3, <3>4
  <2>2. ASSUME NEW c \in Documents
        PROVE  /\ job'[c].status = "queued" => job'[c].attempts < MAX_ATTEMPTS
               /\ job'[c].status = "failed" => job'[c].attempts = MAX_ATTEMPTS
    BY <1>t, <1>h DEF Rows, RunsAccounted
  <2> QED BY <2>1, <2>2 DEF RunsAccounted
<1>3. CompleteMeansRead' /\ StatusExplained' /\ \A c \in Documents : Listed(c)'
  <2>1. CompleteMeansRead'
    BY <1>t, <1>h DEF Rows, CompleteMeansRead, OnRecord
  <2>2. StatusExplained'
    BY <1>t, <1>h DEF Rows, StatusExplained
  <2>3. \A c \in Documents : Listed(c)'
    BY <1>t, <1>h DEF Rows, Listed
  <2> QED BY <2>1, <2>2, <2>3
<1> QED BY <1>2, <1>3, RestsApart DEF Rows, d

LEMMA Succeeds == ASSUME IInv, NEW w \in Workers, Succeed(w) PROVE IInv'
<1> DEFINE d == worker[w].doc
<1>1. PICK result \in [Pages -> {"nothing", "illegible", "read"}] :
         LET texts == [p \in Pages |-> Filled(page[d][p], result[p])] IN
         /\ page' = [page EXCEPT ![d] = texts]
         /\ status' = [status EXCEPT ![d] = ReadStatus(texts)]
  BY DEF Succeed
<1> DEFINE texts == [p \in Pages |-> Filled(page[d][p], result[p])]
<1>2. page' = [page EXCEPT ![d] = texts] /\ status' = [status EXCEPT ![d] = ReadStatus(texts)]
  BY <1>1
<1>a. /\ worker[w].at = "read" /\ Rest(w) /\ UNCHANGED <<now, taken, lost>>
      /\ job' = [job EXCEPT ![d].status = "succeeded", ![d].attempts = @ + 1, ![d].error = "none"]
  BY DEF Succeed
<1>t. TypeOK /\ Rows
  BY DEF IInv
<1>3. /\ d \in Documents /\ job[d].status = "queued"
      /\ worker' \in [Workers -> [at : {"idle", "claimed", "found", "read", "failed"},
                                  doc : Documents \cup {None}, error : ErrorClass]]
  BY <1>a, Rests
<1>4. texts \in [Pages -> Texts]
  BY <1>t, <1>3 DEF TypeOK, Texts, Filled
<1>5. /\ ReadStatus(texts) \in {"complete", "needs_ocr"}
      /\ ReadStatus(texts) = "complete" <=> \A p \in Pages : texts[p] \in {"native", "read"}
  BY DEF ReadStatus
<1> HIDE DEF d, texts
<1>6. job[d].attempts \in 0 .. MAX_ATTEMPTS /\ job[d].attempts < MAX_ATTEMPTS
  BY <1>t, <1>3 DEF TypeOK, Rows, RunsAccounted
<1>7. /\ job'[d].status = "succeeded" /\ job'[d].attempts = job[d].attempts + 1
      /\ job'[d].error = "none"
      /\ job' \in [Documents -> [status : JobStatus \ {"running"}, attempts : 0 .. MAX_ATTEMPTS,
                                 run_after : Nat, error : ErrorClass]]
      /\ \A c \in Documents \ {d} : job'[c] = job[c]
  BY <1>a, <1>t, <1>3, <1>6, BudgetAssumption DEF TypeOK, JobStatus, ErrorClass
<1>8. TypeOK'
  BY <1>2, <1>3, <1>4, <1>5, <1>7, <1>a, <1>t DEF TypeOK
<1>9. /\ page'[d] = texts /\ status'[d] = ReadStatus(texts)
      /\ \A c \in Documents \ {d} : page'[c] = page[c] /\ status'[c] = status[c]
  BY <1>2, <1>3, <1>t DEF TypeOK
<1> QED BY <1>a, <1>5, <1>7, <1>8, <1>9, Counts DEF d

LEMMA MarksFailed == ASSUME IInv, NEW w \in Workers, MarkFailed(w) PROVE IInv'
<1> DEFINE d == worker[w].doc
           n == job[d].attempts + 1
<1>a. /\ worker[w].at = "failed" /\ Rest(w) /\ UNCHANGED <<page, now, taken, lost>>
      /\ job' = [job EXCEPT ![d] =
                 IF GivesUp(n)
                 THEN [@ EXCEPT !.status = "failed", !.attempts = n, !.error = worker[w].error]
                 ELSE [status |-> "queued", attempts |-> n, error |-> worker[w].error,
                       run_after |-> now + backoff_for(n)]]
      /\ status' = [status EXCEPT ![d] = IF @ = "needs_ocr" /\ worker[w].error = "not_read"
                                         THEN "processing" ELSE @]
  BY DEF MarkFailed
<1>t. TypeOK /\ Rows /\ Placed(w)
  BY DEF IInv
<1>3. /\ d \in Documents /\ job[d].status = "queued"
      /\ worker' \in [Workers -> [at : {"idle", "claimed", "found", "read", "failed"},
                                  doc : Documents \cup {None}, error : ErrorClass]]
  BY <1>a, Rests
<1>4. worker[w].error \in {"not_read", "document_not_found"}
  BY <1>a, <1>t DEF TypeOK, ErrorClass, Placed
<1>5. /\ job[d].attempts \in 0 .. MAX_ATTEMPTS /\ job[d].attempts < MAX_ATTEMPTS
      /\ n \in 0 .. MAX_ATTEMPTS /\ n \in Nat
      /\ GivesUp(n) <=> n = MAX_ATTEMPTS
  <2>1. job[d].attempts \in 0 .. MAX_ATTEMPTS /\ job[d].attempts < MAX_ATTEMPTS
    BY <1>t, <1>3 DEF TypeOK, Rows, RunsAccounted
  <2> QED BY <2>1, BudgetAssumption DEF GivesUp
<1>6. now + backoff_for(n) \in Nat
  BY <1>5, <1>t, DelayIsNumber DEF TypeOK
<1>s. /\ status'[d] = IF status[d] = "needs_ocr" /\ worker[w].error = "not_read"
                      THEN "processing" ELSE status[d]
      /\ \A c \in Documents \ {d} : status'[c] = status[c]
      /\ status' \in [Documents -> {"absent", "needs_ocr", "processing", "complete", "gone"}]
      /\ status[d] \in {"absent", "needs_ocr", "processing", "complete", "gone"}
  BY <1>a, <1>3, <1>t DEF TypeOK
<1>g. worker[w].error = "document_not_found" => status[d] = "gone"
  BY <1>t DEF Placed
<1> HIDE DEF d
<1>7. /\ job'[d].status = (IF n = MAX_ATTEMPTS THEN "failed" ELSE "queued")
      /\ job'[d].attempts = n /\ job'[d].error = worker[w].error
      /\ \A c \in Documents \ {d} : job'[c] = job[c]
      /\ job' \in [Documents -> [status : JobStatus \ {"running"}, attempts : 0 .. MAX_ATTEMPTS,
                                 run_after : Nat, error : ErrorClass]]
  <2> HIDE DEF n
  <2>1. job \in [Documents -> [status : JobStatus \ {"running"}, attempts : 0 .. MAX_ATTEMPTS,
                               run_after : Nat, error : ErrorClass]]
    BY <1>t DEF TypeOK
  <2>2. CASE n = MAX_ATTEMPTS
    <3> DEFINE y == [job[d] EXCEPT !.status = "failed", !.attempts = n, !.error = worker[w].error]
    <3>1. job' = [job EXCEPT ![d] = y]
      BY <2>2, <1>a, <1>5
    <3>2. /\ y \in [status : JobStatus \ {"running"}, attempts : 0 .. MAX_ATTEMPTS,
                    run_after : Nat, error : ErrorClass]
          /\ y.status = "failed" /\ y.attempts = n /\ y.error = worker[w].error
      BY <2>1, <1>3, <1>4, <1>5 DEF JobStatus, ErrorClass
    <3> HIDE DEF y
    <3> QED BY <3>1, <3>2, <2>1, <2>2, <1>3
  <2>3. CASE n # MAX_ATTEMPTS
    BY <2>1, <2>3, <1>a, <1>3, <1>4, <1>5, <1>6 DEF JobStatus, ErrorClass
  <2> QED BY <2>2, <2>3
<1>8. TypeOK'
  BY <1>3, <1>7, <1>s, <1>a, <1>t DEF TypeOK
<1>9. /\ status[d] # "absent" /\ status[d] # "complete"
      /\ status'[d] # "needs_ocr" \/ worker[w].error # "not_read"
  BY <1>t, <1>3, <1>s DEF Rows, Listed, StatusExplained
<1>10. status'[d] \in {"processing", "gone"}
  BY <1>9, <1>s, <1>g, <1>4
<1>11. status'[d] = "processing" =>
         worker[w].error = "not_read" /\ ~ \A p \in Pages : page'[d][p] \in {"native", "read"}
  BY <1>10, <1>s, <1>g, <1>4, <1>3, <1>a, <1>t DEF Rows, CompleteMeansRead, OnRecord
<1>12. n \in 0 .. MAX_ATTEMPTS /\ (n # MAX_ATTEMPTS => n < MAX_ATTEMPTS)
  BY <1>5, BudgetAssumption
<1>13. /\ job'[d].status = "queued" => job'[d].attempts < MAX_ATTEMPTS
       /\ job'[d].status = "failed" => job'[d].attempts = MAX_ATTEMPTS
       /\ job'[d].status \in {"queued", "failed"}
       /\ job'[d].attempts = job[d].attempts + 1
  BY <1>7, <1>12
<1>14. job'[d].error = "document_not_found" => status'[d] = "gone"
  BY <1>7, <1>g, <1>s
<1> HIDE DEF n
<1> QED BY <1>a, <1>7, <1>8, <1>10, <1>11, <1>13, <1>14, <1>s, Counts DEF d
-----------------------------------------------------------------------------
\* Nobody works on a job that is not there yet.
LEMMA Enqueues ==
  ASSUME IInv, NEW d \in Documents, NEW texts \in [Pages -> {"native", "unread"}], Enqueue(d, texts)
  PROVE  IInv'
<1>t. TypeOK /\ Rows
  BY DEF IInv
<1>a. /\ status[d] = "absent" /\ \E p \in Pages : texts[p] = "unread"
      /\ page' = [page EXCEPT ![d] = texts] /\ status' = [status EXCEPT ![d] = "needs_ocr"]
      /\ job' = [job EXCEPT ![d].status = "queued", ![d].run_after = now]
      /\ UNCHANGED <<worker, now, taken, lost>>
  BY DEF Enqueue
<1>1. job[d].status = "none" /\ job[d].attempts = 0 /\ job[d].error = "none"
  BY <1>a, <1>t DEF Rows, Listed
<1> DEFINE JobRow == [status : JobStatus \ {"running"}, attempts : 0 .. MAX_ATTEMPTS,
                      run_after : Nat, error : ErrorClass]
           row == [job[d] EXCEPT !.status = "queued", !.run_after = now]
<1>j. job \in [Documents -> JobRow] /\ now \in Nat
  BY <1>t DEF TypeOK
<1>r. /\ row \in JobRow /\ row.status = "queued"
      /\ row.attempts = job[d].attempts /\ row.error = job[d].error
  BY <1>j DEF JobStatus
<1>e. job' = [job EXCEPT ![d] = row]
  BY <1>a, <1>j
<1>2. /\ job'[d].status = "queued" /\ job'[d].attempts = 0 /\ job'[d].error = "none"
      /\ job' \in [Documents -> [status : JobStatus \ {"running"}, attempts : 0 .. MAX_ATTEMPTS,
                                 run_after : Nat, error : ErrorClass]]
      /\ \A c \in Documents \ {d} : job'[c] = job[c]
  <2> HIDE DEF row
  <2>1. job' \in [Documents -> JobRow]
    BY <1>j, <1>r, <1>e
  <2>2. job'[d] = row /\ \A c \in Documents \ {d} : job'[c] = job[c]
    BY <1>j, <1>e
  <2> QED BY <2>1, <2>2, <1>r, <1>1
<1> HIDE DEF row
<1>3. /\ page'[d] = texts /\ status'[d] = "needs_ocr"
      /\ \A c \in Documents \ {d} : page'[c] = page[c] /\ status'[c] = status[c]
      /\ page' \in [Documents -> [Pages -> Texts]]
  BY <1>a, <1>t DEF TypeOK, Texts
<1>4. TypeOK'
  BY <1>2, <1>3, <1>a, <1>t DEF TypeOK
<1>5. Rows'
  <2>1. RunsAccounted'
    <3>1. \A c \in Documents : job'[c].attempts = job[c].attempts
      BY <1>1, <1>2
    <3>2. \A c \in Documents : (\E w \in Workers : LocksJob(w, c)') <=> \E w \in Workers : LocksJob(w, c)
      BY <1>a DEF LocksJob
    <3>3. \A c \in Documents : /\ job'[c].status = "queued" => job'[c].attempts < MAX_ATTEMPTS
                               /\ job'[c].status = "failed" => job'[c].attempts = MAX_ATTEMPTS
      BY <1>2, <1>t, BudgetAssumption DEF Rows, RunsAccounted
    <3> QED BY <3>1, <3>2, <3>3, <1>a, <1>t DEF Rows, RunsAccounted
  <2>2. CompleteMeansRead'
    BY <1>3, <1>a, <1>t DEF Rows, CompleteMeansRead, OnRecord
  <2>3. StatusExplained'
    BY <1>2, <1>3, <1>t DEF Rows, StatusExplained
  <2>4. \A c \in Documents : Listed(c)'
    BY <1>2, <1>3, <1>t DEF Rows, Listed
  <2> QED BY <2>1, <2>2, <2>3, <2>4 DEF Rows
<1>6. ASSUME NEW w \in Workers PROVE Placed(w)'
  <2>1. Placed(w) /\ worker[w].doc \in Documents \cup {None} /\ worker' = worker
    BY <1>a DEF IInv, TypeOK
  <2>2. worker[w].doc # d
    BY <2>1, <1>1, NoneAssumption DEF Placed
  <2>3. worker[w].error # "none" => worker[w].doc # None
    BY <2>1 DEF Placed
  <2> QED BY <2>1, <2>2, <2>3, <1>2, <1>3 DEF Placed
<1>7. ASSUME NEW v \in Workers, NEW w \in Workers, v # w PROVE Apart(v, w)'
  BY <1>7, <1>a DEF IInv, Apart
<1> QED BY <1>4, <1>5, <1>6, <1>7 DEF IInv

LEMMA Removes == ASSUME IInv, NEW d \in Documents, Delete(d) PROVE IInv'
<1>t. TypeOK /\ Rows
  BY DEF IInv
<1>a. /\ OnRecord(d) /\ status' = [status EXCEPT ![d] = "gone"]
      /\ page' = [page EXCEPT ![d] = [p \in Pages |-> "unread"]]
      /\ UNCHANGED <<job, worker, now, taken, lost>>
  BY DEF Delete
<1>1. /\ status'[d] = "gone" /\ status[d] # "absent"
      /\ \A c \in Documents \ {d} : status'[c] = status[c] /\ page'[c] = page[c]
  BY <1>a, <1>t DEF TypeOK, OnRecord
<1>2. TypeOK'
  BY <1>a, <1>t DEF TypeOK, Texts
<1>3. RunsAccounted'
  BY <1>a, <1>t DEF Rows, RunsAccounted, LocksJob
<1>4. CompleteMeansRead' /\ StatusExplained' /\ \A c \in Documents : Listed(c)'
  <2>1. CompleteMeansRead'
    BY <1>1, <1>t DEF Rows, CompleteMeansRead, OnRecord
  <2>2. StatusExplained'
    BY <1>1, <1>a, <1>t DEF Rows, StatusExplained
  <2>3. \A c \in Documents : Listed(c)'
    BY <1>1, <1>a, <1>t DEF Rows, Listed
  <2> QED BY <2>1, <2>2, <2>3
<1>5. ASSUME NEW w \in Workers PROVE Placed(w)'
  <2>1. Placed(w) /\ worker[w].doc \in Documents \cup {None}
    BY DEF IInv, TypeOK
  <2>2. worker[w].error # "none" => worker[w].doc # None
    BY <2>1 DEF Placed
  <2> QED BY <2>1, <2>2, <1>1, <1>a DEF Placed
<1>6. ASSUME NEW v \in Workers, NEW w \in Workers, v # w PROVE Apart(v, w)'
  BY <1>6, <1>a DEF IInv, Apart
<1> QED BY <1>2, <1>3, <1>4, <1>5, <1>6 DEF IInv, Rows

\* Steps that change no row and no worker.
LEMMA Waits ==
  ASSUME IInv, now' \in Nat, UNCHANGED <<job, page, status, worker, taken, lost>>
  PROVE  IInv'
<1>t. TypeOK /\ Rows
  BY DEF IInv
<1>1. TypeOK'
  BY <1>t DEF TypeOK
<1>2. Rows'
  BY <1>t DEF Rows, RunsAccounted, LocksJob, CompleteMeansRead, OnRecord, StatusExplained, Listed
<1>3. ASSUME NEW w \in Workers PROVE Placed(w)'
  BY DEF IInv, Placed
<1>4. ASSUME NEW v \in Workers, NEW w \in Workers, v # w PROVE Apart(v, w)'
  BY <1>4 DEF IInv, Apart
<1> QED BY <1>1, <1>2, <1>3, <1>4 DEF IInv
-----------------------------------------------------------------------------
LEMMA InitInv == Init => IInv
<1> SUFFICES ASSUME Init PROVE IInv
  OBVIOUS
<1>1. /\ \A d \in Documents : /\ job[d].status = "none" /\ job[d].attempts = 0
                              /\ job[d].error = "none" /\ status[d] = "absent"
                              /\ taken[d] = 0 /\ lost[d] = 0
      /\ \A w \in Workers : worker[w].at = "idle" /\ worker[w].doc = None /\ worker[w].error = "none"
  BY DEF Init, Resting
<1>2. TypeOK
  BY BudgetAssumption DEF Init, TypeOK, Resting, JobStatus, ErrorClass, Texts
<1>3. Rows
  <2>1. RunsAccounted
    <3>1. \A d \in Documents : ~ \E w \in Workers : LocksJob(w, d)
      BY <1>1, NoneAssumption DEF LocksJob
    <3>2. ASSUME NEW d \in Documents
          PROVE  taken[d] = job[d].attempts + lost[d]
                            + (IF \E w \in Workers : LocksJob(w, d) THEN 1 ELSE 0)
      <4>1. (IF \E w \in Workers : LocksJob(w, d) THEN 1 ELSE 0) = 0
        BY <3>1
      <4>2. taken[d] = 0 /\ job[d].attempts = 0 /\ lost[d] = 0
        BY <1>1
      <4> QED BY <4>1, <4>2
    <3>3. \A d \in Documents : job[d].status # "queued" /\ job[d].status # "failed"
      BY <1>1
    <3> QED BY <3>2, <3>3 DEF RunsAccounted
  <2> QED BY <2>1, <1>1 DEF Rows, CompleteMeansRead, OnRecord, StatusExplained, Listed
<1>4. \A w \in Workers : Placed(w)
  BY <1>1 DEF Placed
<1>5. \A v, w \in Workers : Apart(v, w)
  BY <1>1 DEF Apart
<1> QED BY <1>2, <1>3, <1>4, <1>5 DEF IInv

LEMMA StepInv == IInv /\ [Next]_vars => IInv'
<1> SUFFICES ASSUME IInv, [Next]_vars PROVE IInv'
  OBVIOUS
<1>n. now \in Nat
  BY DEF IInv, TypeOK
<1>1. CASE UNCHANGED vars
  BY <1>1, <1>n, Waits DEF vars
<1>2. ASSUME NEW d \in Documents, NEW texts \in [Pages -> {"native", "unread"}], Enqueue(d, texts)
      PROVE  IInv'
  BY <1>2, Enqueues
<1>3. ASSUME NEW w \in Workers, Work(w) PROVE IInv'
  <2>1. CASE DocumentVanished(w)
    BY <2>1, Loses DEF DocumentVanished
  <2> QED BY <1>3, <2>1, Claims, Finds, Marks, Fails, Succeeds, MarksFailed DEF Work
<1>4. ASSUME NEW w \in Workers, Die(w) PROVE IInv'
  BY <1>4, Loses DEF Die
<1>5. ASSUME NEW d \in Documents, Delete(d) PROVE IInv'
  BY <1>5, Removes
<1>6. CASE Tick
  BY <1>6, <1>n, Waits DEF Tick
<1> QED BY <1>1, <1>2, <1>3, <1>4, <1>5, <1>6 DEF Next

\* Every state that can be reached has the invariant.
THEOREM Inductive == Spec => []IInv
BY InitInv, StepInv, PTL DEF Spec

\* Every variable keeps its type in every reachable state, attempts their limit.
THEOREM TypeCorrect == Spec => []TypeOK
<1>1. IInv => TypeOK
  BY DEF IInv
<1> QED BY <1>1, Inductive, PTL

\* Every claim of a job is an attempt on record, was rolled back, or is being worked on by
\* the only worker that has it (jobs/queue.py:46-90).
THEOREM ClaimsAccounted == Spec => []RunsAccounted
<1>1. IInv => RunsAccounted
  BY DEF IInv, Rows
<1> QED BY <1>1, Inductive, PTL

\* A document says "complete" exactly when every page has text (ingest/ocr.py:127-133).
THEOREM CompleteIsRead == Spec => []CompleteMeansRead
<1>1. IInv => CompleteMeansRead
  BY DEF IInv, Rows
<1> QED BY <1>1, Inductive, PTL

\* What a document says of its reading fits what became of its job (ingest/ocr.py:86-133).
THEOREM StatusFitsJob == Spec => []StatusExplained
<1>1. IInv => StatusExplained
  BY DEF IInv, Rows
<1> QED BY <1>1, Inductive, PTL

\* The delays before a job double from base to cap, and the clamp changes none of them, for
\* any number of attempts (jobs/queue.py:19-29).
THEOREM DelaysDouble == Spec => []BackoffDoubles
<1>1. TypeOK => BackoffDoubles
  <2> SUFFICES ASSUME TypeOK, NEW d \in Documents,
                      NEW n \in job[d].attempts + 1 .. MAX_BACKOFF_DOUBLINGS + 4
               PROVE  backoff_for(n)
                        = Capped(IF n = 1 THEN BACKOFF_BASE ELSE 2 * backoff_for(n - 1))
    BY DEF BackoffDoubles, Capped
  <2>1. job[d].attempts \in Nat
    BY BudgetAssumption DEF TypeOK
  <2>2. n \in Nat \ {0}
    BY <2>1, BudgetAssumption
  <2> QED BY <2>2, DelayDoubles
<1> QED BY <1>1, TypeCorrect, PTL
-----------------------------------------------------------------------------
\* A job that has succeeded or failed is never worked on again (jobs/queue.py:53-61).
THEOREM OutcomesAreFinal == Spec => OutcomeFinal
<1> DEFINE Final == \A d \in Documents : job[d].status \in {"succeeded", "failed"} => job'[d] = job[d]
<1>1. ASSUME IInv, [Next]_vars PROVE Final
  <2> SUFFICES ASSUME NEW d \in Documents, job[d].status \in {"succeeded", "failed"}
               PROVE  job'[d] = job[d]
    OBVIOUS
  <2>t. TypeOK /\ Rows
    BY <1>1 DEF IInv
  <2>1. ASSUME NEW w \in Workers, Succeed(w) \/ MarkFailed(w) PROVE job'[d] = job[d]
    <3>1. Rest(w) /\ worker[w].at # "idle"
      BY <2>1 DEF Succeed, MarkFailed
    <3>2. worker[w].doc # d /\ worker[w].doc \in Documents
      BY <3>1, <1>1, Rests
    <3> QED BY <3>2, <2>1, <2>t DEF Succeed, MarkFailed, TypeOK
  <2>2. ASSUME NEW c \in Documents, NEW texts, Enqueue(c, texts) PROVE job'[d] = job[d]
    <3>1. c # d
      BY <2>2, <2>t DEF Enqueue, Rows, Listed
    <3> QED BY <3>1, <2>2, <2>t DEF Enqueue, TypeOK
  <2>3. CASE UNCHANGED job
    BY <2>3
  <2> QED
    BY <1>1, <2>1, <2>2, <2>3
    DEF Next, Work, Claim, FindDocument, MarkProcessing, DocumentVanished, ReadFails, Die,
        Delete, Tick, vars
<1> QED BY <1>1, Inductive, PTL DEF OutcomeFinal, Spec

\* No attempt replaces text that a page has, native or read (ingest/ocr.py:116-125).
THEOREM TextStays == Spec => TextKept
<1> DEFINE Kept == \A d \in Documents, p \in Pages :
              OnRecord(d) /\ OnRecord(d)' /\ page[d][p] \in {"native", "read"}
                  => page'[d][p] = page[d][p]
<1>1. ASSUME IInv, [Next]_vars PROVE Kept
  <2> SUFFICES ASSUME NEW d \in Documents, NEW p \in Pages, OnRecord(d), OnRecord(d)',
                      page[d][p] \in {"native", "read"}
               PROVE  page'[d][p] = page[d][p]
    OBVIOUS
  <2>t. TypeOK /\ Rows
    BY <1>1 DEF IInv
  <2>1. ASSUME NEW w \in Workers, Succeed(w) PROVE page'[d][p] = page[d][p]
    <3>1. PICK result \in [Pages -> {"nothing", "illegible", "read"}] :
             page' = [page EXCEPT ![worker[w].doc] =
                        [q \in Pages |-> Filled(page[worker[w].doc][q], result[q])]]
      BY <2>1 DEF Succeed
    <3> QED BY <3>1, <2>t DEF TypeOK, Filled
  <2>2. ASSUME NEW c \in Documents, NEW texts, Enqueue(c, texts) PROVE page'[d][p] = page[d][p]
    <3>1. c # d
      BY <2>2 DEF Enqueue, OnRecord
    <3> QED BY <3>1, <2>2, <2>t DEF Enqueue, TypeOK
  <2>3. ASSUME NEW c \in Documents, Delete(c) PROVE page'[d][p] = page[d][p]
    <3>1. c # d
      BY <2>3, <2>t DEF Delete, OnRecord, TypeOK
    <3> QED BY <3>1, <2>3, <2>t DEF Delete, TypeOK
  <2>4. CASE UNCHANGED page
    BY <2>4
  <2> QED
    BY <1>1, <2>1, <2>2, <2>3, <2>4
    DEF Next, Work, Claim, FindDocument, MarkProcessing, DocumentVanished, ReadFails,
        MarkFailed, Die, Tick, vars
<1> QED BY <1>1, Inductive, PTL DEF TextKept, Spec
=============================================================================
