--------------------------- MODULE AutomationProofs ---------------------------
(***************************************************************************)
(* For any number of runs and host threads and every limit of the policy:  *)
(* a job is at most at one of its runs, it stays in the store, and a run   *)
(* the log calls running is the one the job is marked with.                *)
(*                                                                         *)
(* Every call loads the file, changes a copy and saves it, truncating the  *)
(* file before it fills it.  While calls do not overlap and writes are     *)
(* whole, one of them at a time has something to save (FileInv).  So a job *)
(* that may not leave is in everything that is held for it, the file and   *)
(* the copies (KeptInv); and so is the mark of a run, but for the one that *)
(* is only just saving it (MarkInv).                                       *)
(***************************************************************************)
EXTENDS Automation, SequenceTheorems, TLAPS

\* What a call can save: any job but the one an empty file reads as.
Copies == {j \in Jobs : j.errors >= 0}

\* Only whole jobs are saved, and no time is later than now.
TypeInv ==
  /\ TypeOK
  /\ file \in Copies \cup {Torn}
  /\ saves \in [Procs -> Seq(Copies)]
  /\ cut \in [Procs -> BOOLEAN]
  /\ end \in [Runs -> [status : {"none", "succeeded", "failed", "cancelled"}, at : 0 .. now]]
  /\ log \in [Runs -> [status : Statuses, at : 0 .. now]]

\* What the log, the history and the calls say of a run fits how far it is; a host
\* that is about to clear a run has cancelled one.
EndInv ==
  /\ \A r \in Runs : end[r].status # "none" =>
       /\ pc[r] \notin {"idle", "woken"}
       /\ log[r].status = "running" => log[r].at <= end[r].at
  /\ \A r \in Runs : log[r].status = "running" =>
       /\ pc[r] \notin {"idle", "woken"}
       /\ pc[r] = "done" => end[r].status # "none" \/ r \in unsaved
  /\ \A r \in Runs : pc[r] = "lost" => saves[r] = <<>>
  /\ \A r \in spent : end[r].status # "none"
  /\ \A h \in Hosts : host[h] # NoRun => "second" \in excuses

\* No two calls overlapped on the file, and no write of it was cut off.
Apart == "overlap" \notin excuses /\ "torn" \notin excuses

\* Then one call at a time has something to save, and the file is torn only while that
\* call fills it.
FileInv ==
  Apart =>
    /\ \A p, q \in Procs : saves[p] # <<>> /\ saves[q] # <<>> => p = q
    /\ \A p \in Procs : cut[p] => file = Torn
    /\ file = Torn => \E p \in Procs : cut[p]

\* The file and every copy that is to be saved are among some jobs.
HeldIn(S) ==
  /\ file # Torn => file \in S
  /\ \A p \in Procs : \A i \in DOMAIN saves[p] : saves[p][i] \in S

\* The job may be gone.
Gone ==
  \/ "delete" \in excuses
  \/ \E w \in won : w.remove = "yes" \/ (w.remove = "default" /\ w.trigger = "oneShot")

\* While it may not, the file has it, and so has every copy.
There == {j \in Copies : j.exists}
KeptInv == Apart /\ ~Gone => HeldIn(There)

\* What a run has done to the job is in everything that is held, or, as long as it is
\* saving it, in the copy it saves last.
Sees(r, S) == IF saves[r] = <<>> THEN HeldIn(S) ELSE saves[r][Len(saves[r])] \in S

MarkedWith(r) == {j \in Copies : j.running = r}
Disabled == {j \in Copies : ~j.enabled}

\* The job is marked with the run that is live or that the log calls running, and it
\* is disabled, or gone, and at no run, once its one shot is spent.
MarkInv ==
  excuses = {} =>
    /\ \A r \in Runs :
         Live(r) \/ (log[r].status = "running" /\ r \notin unsaved) => Sees(r, MarkedWith(r))
    /\ \A r \in spent : Sees(r, Disabled) /\ \A q \in Runs : ~Live(q)

\* What the constants are.
LEMMA Bounds ==
  /\ Every \in Nat /\ Every > 0 /\ Backoff \in Nat
  /\ MaxTime \in Nat /\ MaxCalls \in Nat /\ MaxFaults \in Nat
  /\ 0 \in 0 .. MaxTime
  /\ Triggers \subseteq {"oneShot", "interval", "manual"}
BY AutomationAssumption

\* The period after t is within one period of it.
LEMMA NextPeriod ==
  ASSUME NEW t \in Nat
  PROVE  /\ (t \div Every + 1) * Every \in Nat
         /\ (t \div Every + 1) * Every <= t + Every
<1>1. Every \in Nat /\ Every > 0
  BY Bounds
<1>2. t \div Every \in Nat /\ t = Every * (t \div Every) + (t % Every) /\ t % Every >= 0
  BY <1>1
<1> QED
  BY <1>1, <1>2

\* The times a job may be due.
NextRange == Never .. MaxTime + (IF Every > Backoff THEN Every ELSE Backoff)

\* The next time of a job is within the bounds of the type.
LEMMA ComputeNextType ==
  ASSUME NEW job \in Jobs, NEW t \in 0 .. MaxTime
  PROVE  ComputeNext(job, t) \in NextRange
<1>1. Every \in Nat /\ Every > 0 /\ Backoff \in Nat /\ MaxTime \in Nat /\ t \in Nat
  BY AutomationAssumption
<1>2. job.trigger \in {"oneShot", "interval", "manual"} /\ job.enabled \in BOOLEAN
  BY AutomationAssumption DEF Jobs
<1>3. Never \in NextRange /\ Every \in NextRange
  BY <1>1 DEF NextRange, Never
<1>4. (t \div Every + 1) * Every \in NextRange
  <2> DEFINE n == (t \div Every + 1) * Every
  <2>1. n \in Nat /\ n <= t + Every
    BY <1>1, NextPeriod
  <2> HIDE DEF n
  <2>2. n \in NextRange
    BY <1>1, <2>1 DEF NextRange, Never
  <2> QED
    BY <2>2 DEF n
<1> QED
  BY <1>2, <1>3, <1>4 DEF ComputeNext

\* No job, for the types.
LEMMA NoJobType ==
  /\ NoJob \in Jobs /\ NoJob \in Copies
  /\ NoJob.exists = FALSE /\ NoJob.running = NoRun /\ NoJob.errors = 0 /\ ~NoJob.enabled
<1>1. NoJob \in Jobs
  BY Bounds DEF NoJob, Jobs, Never
<1>2. NoJob.exists = FALSE /\ NoJob.running = NoRun /\ NoJob.errors = 0 /\ ~NoJob.enabled
  BY DEF NoJob
<1> QED
  BY <1>1, <1>2 DEF Copies

\* A job without its mark is a job.
LEMMA IdleType == \A job \in Copies : Idle(job) \in Copies /\ Idle(job).running = NoRun
                                      /\ Idle(job).exists = job.exists
                                      /\ Idle(job).enabled = job.enabled
<1> SUFFICES ASSUME NEW job \in Copies
             PROVE  Idle(job) \in Copies /\ Idle(job).running = NoRun
                    /\ Idle(job).exists = job.exists /\ Idle(job).enabled = job.enabled
  OBVIOUS
<1>1. job \in Jobs /\ job.errors >= 0
  BY DEF Copies
<1>2. Idle(job) \in Jobs
  BY <1>1, Bounds DEF Idle, Jobs
<1>3. Idle(job).running = NoRun /\ Idle(job).exists = job.exists /\ Idle(job).errors = job.errors
      /\ Idle(job).enabled = job.enabled
  BY <1>1 DEF Idle, Jobs
<1> QED
  BY <1>1, <1>2, <1>3 DEF Copies

\* What is read is a job that can be saved.
LEMMA LoadedType ==
  ASSUME TypeInv
  PROVE  Stored \in Copies /\ Loaded \in Copies
<1>1. NoJob \in Copies
  BY NoJobType
<1>2. Stored \in Copies
  BY <1>1 DEF Stored, TypeInv
<1> QED
  BY <1>2, IdleType DEF Loaded

\* What a run makes of its job can be saved; the job is not marked, and is there
\* unless the run succeeded under a policy that removes it, or it was not there
\* before.  A one-shot is disabled unless the run failed.
LEMMA AfterType ==
  ASSUME NEW job \in Copies, NEW status \in {"succeeded", "failed", "cancelled"},
         NEW t \in 0 .. MaxTime
  PROVE  /\ After(job, status, t) \in Copies
         /\ After(job, status, t).running = NoRun
         /\ ~(status = "succeeded" /\ DeletesAfterSuccess(job))
              => After(job, status, t).exists = job.exists
         /\ status = "succeeded" /\ job.trigger = "oneShot" => ~After(job, status, t).enabled
<1>1. /\ Idle(job) \in Copies /\ Idle(job).running = NoRun /\ Idle(job).exists = job.exists
  BY IdleType
<1>2. /\ ComputeNext(job, t) \in NextRange /\ Never \in NextRange
  BY ComputeNextType, AutomationAssumption DEF Copies, NextRange, Never
<1>4. ASSUME NEW n \in NextRange, NEW e \in Nat, NEW j,
             \/ j = [Idle(job) EXCEPT !.errors = e, !.next = n]
             \/ j = [Idle(job) EXCEPT !.errors = e, !.enabled = FALSE, !.next = n]
      PROVE  j \in Copies /\ j.running = NoRun /\ j.exists = job.exists
  <2> DEFINE k == Idle(job)
  <2>1. k \in Jobs /\ k.running = NoRun /\ k.exists = job.exists
    BY <1>1 DEF Copies
  <2> HIDE DEF k
  <2>3. \/ j = [k EXCEPT !.errors = e, !.next = n]
        \/ j = [k EXCEPT !.errors = e, !.enabled = FALSE, !.next = n]
    BY <1>4 DEF k
  <2>4. j \in Jobs
    BY <2>1, <2>3 DEF Jobs, NextRange
  <2>5. j.errors = e /\ j.running = k.running /\ j.exists = k.exists
    BY <2>1, <2>3 DEF Jobs
  <2> QED
    BY <2>1, <2>4, <2>5 DEF Copies
<1>5. CASE status = "failed"
  <2> DEFINE e == job.errors + 1
             n == IF job.errors < job.policy.retries THEN t + Backoff ELSE Idle(job).next
  <2>1. e \in Nat
    BY DEF Copies, Jobs
  <2>2. n \in NextRange
    <3>1. t + Backoff \in NextRange
      BY AutomationAssumption DEF NextRange, Never
    <3>2. Idle(job).next \in NextRange
      BY <1>1 DEF Copies, Jobs, NextRange
    <3> QED
      BY <3>1, <3>2
  <2>3. After(job, status, t) = [Idle(job) EXCEPT !.errors = e, !.next = n]
    BY <1>5 DEF After
  <2> HIDE DEF e, n
  <2> QED
    BY <1>4, <1>5, <2>1, <2>2, <2>3
<1>6. CASE status = "succeeded" /\ DeletesAfterSuccess(job)
  BY NoJobType, <1>6 DEF After
<1>8. CASE status # "failed" /\ ~(status = "succeeded" /\ DeletesAfterSuccess(job))
           /\ job.trigger = "oneShot"
  <2> DEFINE k == Idle(job)
             j == [k EXCEPT !.errors = 0, !.enabled = FALSE, !.next = Never]
  <2>1. After(job, status, t) = j
    BY <1>8 DEF After
  <2>2. ~j.enabled
    <3>1. k \in Jobs
      BY <1>1 DEF Copies
    <3> HIDE DEF k
    <3> QED
      BY <3>1 DEF Jobs
  <2>3. j \in Copies /\ j.running = NoRun /\ j.exists = job.exists
    BY <1>2, <1>4
  <2> HIDE DEF j
  <2> QED
    BY <1>8, <2>1, <2>2, <2>3
<1>9. CASE status # "failed" /\ ~(status = "succeeded" /\ DeletesAfterSuccess(job))
           /\ job.trigger # "oneShot"
  <2> DEFINE n == ComputeNext(job, t)
             j == [Idle(job) EXCEPT !.errors = 0, !.next = n]
  <2>1. After(job, status, t) = j
    BY <1>9 DEF After
  <2>2. n \in NextRange
    BY <1>2
  <2> HIDE DEF n
  <2>3. j \in Copies /\ j.running = NoRun /\ j.exists = job.exists
    BY <1>4, <2>2
  <2> HIDE DEF j
  <2> QED
    BY <1>9, <2>1, <2>3
<1> QED
  BY <1>5, <1>6, <1>8, <1>9

-----------------------------------------------------------------------------
(* A load and what follows from it *)

\* A call of p loads, and will save copies.
LoadStep(p, copies) ==
  /\ Load(p, copies)
  /\ UNCHANGED <<now, file, cut, unsaved>>
  /\ excuses \cup Overlapping(p) \subseteq excuses'

\* The lists of copies a call has: none, or one.
Lists == {<<>>} \cup {<<j>> : j \in Copies}

\* The copies of a call that loaded.
LEMMA LoadSaves ==
  ASSUME TypeInv, NEW p \in Procs, NEW copies \in Lists, LoadStep(p, copies)
  PROVE  /\ saves' \in [Procs -> Seq(Copies)]
         /\ saves[p] = <<>>
         /\ \A q \in Procs \ {p} : saves'[q] = saves[q]
         /\ Len(saves'[p]) <= 2
         /\ \A i \in DOMAIN saves'[p] : saves'[p][i] = Loaded \/ copies = <<saves'[p][i]>>
         /\ \A j : copies = <<j>> => saves'[p] # <<>> /\ saves'[p][Len(saves'[p])] = j
         /\ copies = <<>> => saves'[p] = ExpirySave
<1>1. /\ saves \in [Procs -> Seq(Copies)] /\ saves[p] = <<>>
      /\ saves' = [saves EXCEPT ![p] = ExpirySave \o copies]
  BY DEF LoadStep, Load, TypeInv
<1>2. Loaded \in Copies
  BY LoadedType
<1>3. ExpirySave \in {<<>>, <<Loaded>>}
  BY DEF ExpirySave
<1>4. CASE copies = <<>>
  <2>1. \A e \in {<<>>, <<Loaded>>} : e \o <<>> = e /\ e \in Seq(Copies)
    <3>1. <<Loaded>> \in Seq(Copies) /\ <<>> \in Seq(Copies)
      BY <1>2
    <3> QED
      BY <3>1, ConcatEmptySeq
  <2>2. saves'[p] = ExpirySave /\ ExpirySave \in Seq(Copies)
    BY <1>1, <1>3, <1>4, <2>1
  <2>3. Len(ExpirySave) <= 2 /\ \A i \in DOMAIN ExpirySave : ExpirySave[i] = Loaded
    BY <1>3
  <2> QED
    BY <1>1, <1>4, <2>2, <2>3
<1>5. ASSUME NEW j \in Copies, copies = <<j>>
      PROVE  ExpirySave \o copies \in {<<j>>, <<Loaded, j>>}
  <2>1. <<>> \o <<j>> = <<j>> /\ <<Loaded>> \o <<j>> = <<Loaded, j>>
    <3>1. <<Loaded>> \in Seq(Copies) /\ <<>> \in Seq(Copies) /\ <<j>> \in Seq(Copies)
      BY <1>2
    <3>2. <<Loaded>> \o <<j>> \in Seq(Copies) /\ Len(<<Loaded>> \o <<j>>) = 2
          /\ (<<Loaded>> \o <<j>>)[1] = Loaded /\ (<<Loaded>> \o <<j>>)[2] = j
      BY <3>1, ConcatProperties
    <3>3. /\ <<Loaded, j>> \in Seq(Copies) /\ Len(<<Loaded, j>>) = 2
          /\ <<Loaded, j>>[1] = Loaded /\ <<Loaded, j>>[2] = j
      BY <1>2
    <3>4. <<Loaded>> \o <<j>> = <<Loaded, j>>
      <4>1. \A i \in 1 .. 2 : (<<Loaded>> \o <<j>>)[i] = <<Loaded, j>>[i]
        BY <3>2, <3>3
      <4> QED
        BY <3>2, <3>3, <4>1, SeqEqual
    <3> QED
      BY <3>1, <3>4, ConcatEmptySeq
  <2> QED
    BY <1>3, <1>5, <2>1
<1>6. CASE copies # <<>>
  <2>1. PICK j \in Copies : copies = <<j>>
    BY <1>6 DEF Lists
  <2>2. saves'[p] \in {<<j>>, <<Loaded, j>>}
    BY <1>1, <1>5, <2>1
  <2>3. /\ saves'[p] \in Seq(Copies) /\ Len(saves'[p]) <= 2 /\ saves'[p] # <<>>
        /\ saves'[p][Len(saves'[p])] = j
        /\ \A i \in DOMAIN saves'[p] : saves'[p][i] \in {Loaded, j}
    <3> DEFINE s == saves'[p]
    <3>1. CASE s = <<j>>
      <4>1. <<j>> \in Seq(Copies) /\ Len(<<j>>) = 1 /\ <<j>> # <<>> /\ <<j>>[1] = j
        OBVIOUS
      <4>2. s \in Seq(Copies) /\ Len(s) = 1 /\ s # <<>> /\ s[1] = j
        BY <3>1, <4>1
      <4> HIDE DEF s
      <4>3. DOMAIN s = 1 .. 1
        BY <4>2, LenProperties
      <4>4. Len(s) <= 2 /\ s[Len(s)] = j /\ \A i \in DOMAIN s : s[i] \in {Loaded, j}
        BY <4>2, <4>3
      <4> QED
        BY <4>2, <4>4 DEF s
    <3>2. CASE s = <<Loaded, j>>
      <4>1. /\ <<Loaded, j>> \in Seq(Copies) /\ Len(<<Loaded, j>>) = 2
            /\ <<Loaded, j>> # <<>> /\ <<Loaded, j>>[1] = Loaded /\ <<Loaded, j>>[2] = j
        BY <1>2
      <4>2. s \in Seq(Copies) /\ Len(s) = 2 /\ s # <<>> /\ s[1] = Loaded /\ s[2] = j
        BY <3>2, <4>1
      <4> HIDE DEF s
      <4>3. DOMAIN s = 1 .. 2
        BY <4>2, LenProperties
      <4>4. Len(s) <= 2 /\ s[Len(s)] = j /\ \A i \in DOMAIN s : s[i] \in {Loaded, j}
        BY <4>2, <4>3
      <4> QED
        BY <4>2, <4>4 DEF s
    <3> QED
      BY <2>2, <3>1, <3>2
  <2> QED
    BY <1>1, <2>1, <2>2, <2>3
<1> QED
  BY <1>4, <1>6

\* A load that overlaps nothing finds every call done and the file whole.
LEMMA LoadAlone ==
  ASSUME TypeInv, FileInv, NEW p \in Procs, NEW copies \in Lists, LoadStep(p, copies),
         Apart'
  PROVE  /\ Apart
         /\ \A q \in Procs : saves[q] = <<>>
         /\ \A q \in Procs \ {p} : saves'[q] = <<>>
         /\ file \in Copies /\ file # Torn /\ Stored = file /\ file' = file
<1>1. Apart /\ Overlapping(p) = {}
  BY DEF LoadStep, Apart, Overlapping
<1>2. \A q \in Procs : saves[q] = <<>>
  BY <1>1, LoadSaves DEF Overlapping
<1>3. \A q \in Procs : ~cut[q]
  BY <1>2 DEF TypeInv, TypeOK
<1>4. file # Torn /\ file \in Copies /\ Stored = file
  BY <1>1, <1>3 DEF FileInv, TypeInv, Stored
<1>5. \A q \in Procs \ {p} : saves'[q] = <<>>
  BY <1>2, LoadSaves
<1>6. file' = file
  BY DEF LoadStep
<1> QED
  BY <1>1, <1>2, <1>4, <1>5, <1>6

\* If all that it read and will save is among some jobs, then so is all that is held.
LEMMA LoadHolds ==
  ASSUME TypeInv, FileInv, NEW p \in Procs, NEW copies \in Lists, LoadStep(p, copies),
         Apart', NEW S, file \in S, Loaded \in S, \A j \in Copies : copies = <<j>> => j \in S
  PROVE  HeldIn(S)' /\ \A r \in Procs : Sees(r, S)'
<1>1. /\ \A q \in Procs \ {p} : saves'[q] = <<>>
      /\ file' = file /\ saves'[p] \in Seq(Copies)
  BY LoadAlone, LoadSaves
<1>2. ASSUME NEW i \in DOMAIN saves'[p] PROVE saves'[p][i] \in S
  <2>1. saves'[p][i] \in Copies
    BY <1>1
  <2>2. saves'[p][i] = Loaded \/ copies = <<saves'[p][i]>>
    BY LoadSaves
  <2> QED
    BY <2>1, <2>2
<1>3. ASSUME NEW q \in Procs, NEW i \in DOMAIN saves'[q] PROVE saves'[q][i] \in S
  <2>1. CASE q = p
    BY <1>2, <1>3, <2>1
  <2>2. CASE q # p
    <3>1. DOMAIN <<>> = {}
      OBVIOUS
    <3> QED
      BY <1>1, <1>3, <2>2, <3>1
  <2> QED
    BY <2>1, <2>2
<1>4. HeldIn(S)'
  BY <1>1, <1>3 DEF HeldIn
<1>5. ASSUME NEW r \in Procs, saves'[r] # <<>> PROVE saves'[r][Len(saves'[r])] \in S
  <2>1. r = p
    BY <1>1, <1>5
  <2>2. Len(saves'[r]) \in DOMAIN saves'[r]
    BY <1>1, <1>5, <2>1, EmptySeq, LenProperties
  <2> QED
    BY <1>3, <2>2
<1> QED
  BY <1>4, <1>5 DEF Sees

-----------------------------------------------------------------------------
(* Type *)

\* The copies of a run that starts and of a cancel that clears.
MarkedBy(r) == [Loaded EXCEPT !.running = r, !.since = now]
Cleared ==
  [Idle(Loaded) EXCEPT !.next = IF Loaded.enabled THEN ComputeNext(Loaded, now) ELSE @]

\* They, and that of an update, are jobs.
LEMMA CopyTypes ==
  ASSUME TypeInv
  PROVE  /\ \A r \in Runs : /\ MarkedBy(r) \in Copies /\ MarkedBy(r).running = r
                            /\ MarkedBy(r).exists = Loaded.exists
         /\ \A b \in BOOLEAN, trigger \in Triggers, policy \in Policies :
              /\ Patched(b, trigger, policy) \in Copies
              /\ Patched(b, trigger, policy).exists = Loaded.exists
              /\ Patched(b, trigger, policy).running = Loaded.running
              /\ Patched(b, trigger, policy).enabled = b
         /\ Cleared \in Copies /\ Cleared.exists = Loaded.exists
<1>1. Loaded \in Copies /\ Loaded \in Jobs /\ Loaded.errors >= 0
  BY LoadedType DEF Copies
<1>2. now \in 0 .. MaxTime
  BY DEF TypeInv, TypeOK
<1>4. ASSUME NEW k \in Jobs, k.errors >= 0, NEW n \in NextRange, NEW j,
             j = [k EXCEPT !.next = n]
      PROVE  j \in Copies /\ j.running = k.running /\ j.exists = k.exists
             /\ j.enabled = k.enabled
  <2>1. j \in Jobs /\ j.errors = k.errors /\ j.running = k.running /\ j.exists = k.exists
        /\ j.enabled = k.enabled
    BY <1>4 DEF Jobs, NextRange
  <2> QED
    BY <1>4, <2>1 DEF Copies
<1>5. ASSUME NEW r \in Runs, NEW j, j = [Loaded EXCEPT !.running = r, !.since = now]
      PROVE  j \in Copies /\ j.running = r /\ j.exists = Loaded.exists
  <2>1. j \in Jobs /\ j.errors = Loaded.errors /\ j.running = r /\ j.exists = Loaded.exists
    BY <1>1, <1>2, <1>5 DEF Jobs
  <2> QED
    BY <1>1, <2>1 DEF Copies
<1>6. ASSUME NEW b \in BOOLEAN, NEW trigger \in Triggers, NEW policy \in Policies
      PROVE  /\ Patched(b, trigger, policy) \in Copies
             /\ Patched(b, trigger, policy).running = Loaded.running
             /\ Patched(b, trigger, policy).exists = Loaded.exists
             /\ Patched(b, trigger, policy).enabled = b
  <2> DEFINE k == [Loaded EXCEPT !.enabled = b, !.trigger = trigger, !.policy = policy]
             n == ComputeNext(k, now)
             j == [k EXCEPT !.next = n]
  <2>1. /\ k.errors = Loaded.errors /\ k.running = Loaded.running
        /\ k.exists = Loaded.exists /\ k.enabled = b
    BY <1>1, <1>6 DEF Jobs
  <2>2. k \in Jobs
    BY <1>1, <1>6 DEF Jobs
  <2>3. n \in NextRange
    BY <1>2, <2>2, ComputeNextType
  <2>4. Patched(b, trigger, policy) = j
    BY DEF Patched
  <2> HIDE DEF k, n
  <2>5. /\ j \in Copies /\ j.running = k.running /\ j.exists = k.exists
        /\ j.enabled = k.enabled
    BY <1>1, <1>4, <2>1, <2>2, <2>3
  <2> HIDE DEF j
  <2> QED
    BY <2>1, <2>4, <2>5
<1>7. ASSUME NEW j, j = [Idle(Loaded) EXCEPT !.next = IF Loaded.enabled
                                                        THEN ComputeNext(Loaded, now) ELSE @]
      PROVE  j \in Copies /\ j.exists = Loaded.exists
  <2> DEFINE k == Idle(Loaded)
             n == IF Loaded.enabled THEN ComputeNext(Loaded, now) ELSE k.next
  <2>1. k \in Jobs /\ k.errors >= 0 /\ k.exists = Loaded.exists
    BY <1>1, IdleType DEF Copies
  <2>2. n \in NextRange
    <3>1. ComputeNext(Loaded, now) \in NextRange
      BY <1>1, <1>2, ComputeNextType
    <3>2. k.next \in NextRange
      BY <2>1 DEF Jobs, NextRange
    <3> QED
      BY <3>1, <3>2
  <2>3. j = [k EXCEPT !.next = n]
    BY <1>7
  <2> HIDE DEF k, n
  <2> QED
    BY <1>4, <2>1, <2>2, <2>3
<1> QED
  <2>1. \A r \in Runs : /\ MarkedBy(r) \in Copies /\ MarkedBy(r).running = r
                        /\ MarkedBy(r).exists = Loaded.exists
    BY <1>5 DEF MarkedBy
  <2>3. Cleared \in Copies /\ Cleared.exists = Loaded.exists
    <3>1. Cleared = [Idle(Loaded) EXCEPT !.next = IF Loaded.enabled
                                                    THEN ComputeNext(Loaded, now) ELSE @]
      BY DEF Cleared
    <3> QED
      BY <1>7, <3>1
  <2> QED
    BY <1>6, <2>1, <2>3

\* What the log may say.
Logs == [Runs -> [status : Statuses, at : 0 .. now]]

\* A record changes the entry of its run, if it is not older.
LEMMA RecordType ==
  ASSUME NEW l \in Logs, NEW r \in Runs, NEW status \in Statuses, NEW at \in 0 .. now,
         now \in Nat
  PROVE  /\ Record(l, r, status, at) \in Logs
         /\ \A q \in Runs \ {r} : Record(l, r, status, at)[q] = l[q]
         /\ Record(l, r, status, at)[r] \in {l[r], [status |-> status, at |-> at]}
         /\ at >= l[r].at => Record(l, r, status, at)[r] = [status |-> status, at |-> at]
BY DEF Record, Logs

\* The log after an expiry: the run that expired is not running any more.
LEMMA ExpiryType ==
  ASSUME TypeInv
  PROVE  /\ now \in Nat /\ ExpiryLogged \in Logs
         /\ Expired => Stored.running \in Runs
         /\ \A q \in Runs : IF Expired /\ q = Stored.running
                            THEN ExpiryLogged[q] = [status |-> "expired", at |-> now]
                            ELSE ExpiryLogged[q] = log[q]
<1>1. now \in Nat /\ log \in Logs
  BY Bounds DEF TypeInv, TypeOK, Logs
<1>2. Expired => Stored.running \in Runs
  BY LoadedType DEF Expired, Copies, Jobs
<1>3. CASE Expired
  <2>1. now \in 0 .. now /\ "expired" \in Statuses /\ now >= log[Stored.running].at
    BY <1>1, <1>2, <1>3 DEF Statuses, Logs
  <2> QED
    BY <1>1, <1>2, <1>3, <2>1, RecordType DEF ExpiryLogged
<1>4. CASE ~Expired
  BY <1>1, <1>4 DEF ExpiryLogged
<1> QED
  BY <1>2, <1>3, <1>4

\* The reasons that excuse.
Excuses == {"overlap", "delete", "second", "torn"}

\* A load keeps the types if the rest of the call does.
LEMMA LoadKeepsType ==
  ASSUME TypeInv, NEW p \in Procs, NEW copies \in Lists, LoadStep(p, copies),
         log' \in Logs, pc' \in [Runs -> {"idle", "woken", "live", "done", "lost"}],
         end' = end, host' \in [Hosts -> Runs \cup {NoRun}], calls' \in 0 .. MaxCalls,
         excuses' \subseteq Excuses, faults' = faults, spent' \subseteq Runs
  PROVE  TypeInv'
<1>1. UNCHANGED <<now, file, cut, unsaved>>
  BY DEF LoadStep
<1>2. \A q \in Procs : Len(saves'[q]) <= 2 /\ (cut'[q] => saves'[q] # <<>>)
  BY <1>1, LoadSaves DEF TypeInv, TypeOK
<1>3. saves' \in [Procs -> Seq(Copies)]
  BY LoadSaves
<1>4. \A r \in Runs : log'[r].status \in Statuses /\ log'[r].at <= now
  BY DEF Logs, TypeInv, TypeOK
<1>5. TypeOK'
  BY <1>1, <1>2, <1>4 DEF TypeInv, TypeOK, Excuses
<1> QED
  BY <1>1, <1>3, <1>5 DEF TypeInv, Logs

\* Every call of a run or of the host loads, and will save at most one copy.
LEMMA WakeLoads ==
  ASSUME TypeInv, NEW r \in Runs, Wake(r)
  PROVE  LoadStep(r, <<Loaded>>) /\ <<Loaded>> \in Lists
BY LoadedType DEF Wake, LoadStep, Lists, truth

\* A run that is woken skips, is refused, or starts and marks the job.
LEMMA PrepareLoads ==
  ASSUME TypeInv, NEW r \in Runs, NEW mode, Prepare(r, mode)
  PROVE  /\ <<>> \in Lists /\ <<Loaded>> \in Lists /\ <<MarkedBy(r)>> \in Lists
         /\ \/ /\ LoadStep(r, <<>>) /\ log' = ExpiryLogged
               /\ pc' = [pc EXCEPT ![r] = "done"]
            \/ /\ LoadStep(r, <<Loaded>>) /\ log' = Record(ExpiryLogged, r, "skipped", now)
               /\ pc' = [pc EXCEPT ![r] = "done"]
            \/ /\ Loaded.exists /\ ~Refused(mode)
               /\ LoadStep(r, <<MarkedBy(r)>>)
               /\ log' = Record(ExpiryLogged, r, "running", now)
               /\ pc' = [pc EXCEPT ![r] = "live"]
<1>1. <<>> \in Lists /\ <<Loaded>> \in Lists /\ <<MarkedBy(r)>> \in Lists
  BY LoadedType, CopyTypes DEF Lists
<1>2. CASE ~Loaded.exists
  BY <1>1, <1>2 DEF Prepare, LoadStep, truth
<1>3. CASE Loaded.exists /\ Refused(mode)
  BY <1>1, <1>3 DEF Prepare, LoadStep, truth
<1>4. CASE Loaded.exists /\ ~Refused(mode)
  BY <1>1, <1>4 DEF Prepare, LoadStep, MarkedBy, truth
<1> QED
  BY <1>2, <1>3, <1>4

\* What a run makes of the job that it finds.
Outcome(r) == IF Loaded.exists THEN After(Loaded, end[r].status, end[r].at) ELSE NoJob

\* It can be saved; the mark is gone, the job only if the run succeeded under a policy
\* that removes it, and a one-shot that succeeded is not enabled.
LEMMA OutcomeType ==
  ASSUME TypeInv, NEW r \in Runs, end[r].status # "none"
  PROVE  /\ end[r].status \in {"succeeded", "failed", "cancelled"} /\ end[r].at \in 0 .. now
         /\ Outcome(r) \in Copies /\ Outcome(r).running = NoRun
         /\ ~(end[r].status = "succeeded" /\ DeletesAfterSuccess(Loaded))
              => Outcome(r).exists = Loaded.exists
         /\ end[r].status = "succeeded" /\ Loaded.trigger = "oneShot" => ~Outcome(r).enabled
<1>1. /\ end[r].status \in {"succeeded", "failed", "cancelled"}
      /\ end[r].at \in 0 .. now /\ end[r].at \in 0 .. MaxTime
  BY Bounds DEF TypeInv, TypeOK
<1>2. Loaded \in Copies /\ Loaded.exists \in BOOLEAN
  BY LoadedType DEF Copies, Jobs
<1>3. CASE Loaded.exists
  <2>1. Outcome(r) = After(Loaded, end[r].status, end[r].at)
    BY <1>3 DEF Outcome
  <2> DEFINE e == end[r].status
             t == end[r].at
             l == Loaded
             j == After(l, e, t)
  <2>2. e \in {"succeeded", "failed", "cancelled"} /\ t \in 0 .. MaxTime /\ l \in Copies
    BY <1>1, <1>2
  <2> HIDE DEF e, t, l
  <2>3. /\ j \in Copies /\ j.running = NoRun
        /\ ~(e = "succeeded" /\ DeletesAfterSuccess(l)) => j.exists = l.exists
        /\ e = "succeeded" /\ l.trigger = "oneShot" => ~j.enabled
    BY <2>2, AfterType
  <2> HIDE DEF j
  <2>4. Outcome(r) = j
    BY <2>1 DEF e, t, l, j
  <2>5. /\ Outcome(r) \in Copies /\ Outcome(r).running = NoRun
        /\ ~(e = "succeeded" /\ DeletesAfterSuccess(l)) => Outcome(r).exists = l.exists
        /\ e = "succeeded" /\ l.trigger = "oneShot" => ~Outcome(r).enabled
    BY <2>3, <2>4
  <2> QED
    BY <1>1, <2>5 DEF e, l
<1>4. CASE ~Loaded.exists
  <2>1. Outcome(r) = NoJob
    BY <1>4 DEF Outcome
  <2>2. /\ Outcome(r) \in Copies /\ Outcome(r).running = NoRun
        /\ ~Outcome(r).enabled /\ Outcome(r).exists = FALSE
    BY <2>1, NoJobType, Zenon
  <2>3. Outcome(r).exists = Loaded.exists
    BY <1>2, <1>4, <2>2
  <2> QED
    BY <1>1, <2>2, <2>3
<1> QED
  BY <1>3, <1>4

\* A run that ended saves what it makes of the job.
LEMMA FinalizeLoads ==
  ASSUME TypeInv, NEW r \in Runs, Finalize(r)
  PROVE  LoadStep(r, <<Outcome(r)>>) /\ <<Outcome(r)>> \in Lists
<1>1. <<Outcome(r)>> \in Lists
  BY OutcomeType DEF Finalize, Lists
<1> QED
  BY <1>1 DEF Finalize, LoadStep, Outcome

\* To list the jobs saves nothing but an expiry.
LEMMA ListLoads ==
  ASSUME TypeInv, NEW h \in Hosts, List(h)
  PROVE  LoadStep(h, <<>>) /\ <<>> \in Lists
BY DEF List, LoadStep, Lists, truth

\* An update saves the job with its next time computed anew.
LEMMA UpdateLoads ==
  ASSUME TypeInv, NEW h \in Hosts, NEW b \in BOOLEAN, NEW trigger \in Triggers,
         NEW policy \in Policies, Update(h, b, trigger, policy)
  PROVE  /\ LoadStep(h, <<Patched(b, trigger, policy)>>)
         /\ <<Patched(b, trigger, policy)>> \in Lists
BY CopyTypes DEF Update, LoadStep, Lists

\* A delete saves a file without the job.
LEMMA DeleteLoads ==
  ASSUME TypeInv, NEW h \in Hosts, Delete(h)
  PROVE  LoadStep(h, <<NoJob>>) /\ <<NoJob>> \in Lists /\ "delete" \in excuses'
BY NoJobType DEF Delete, LoadStep, Lists, truth

\* A cancel saves nothing before it records the run.
LEMMA CancelLoads ==
  ASSUME TypeInv, NEW h \in Hosts, CancelRun(h)
  PROVE  LoadStep(h, <<>>) /\ <<>> \in Lists /\ "second" \in excuses'
BY DEF CancelRun, LoadStep, Lists, truth

\* Then it clears the mark of the job that it finds.
LEMMA ClearsLoads ==
  ASSUME TypeInv, NEW h \in Hosts, CancelClears(h)
  PROVE  \E j \in Copies : LoadStep(h, <<j>>) /\ (Loaded.exists => j.exists)
<1>1. CASE Loaded.exists
  BY <1>1, CopyTypes DEF CancelClears, LoadStep, Cleared, truth
<1>2. CASE ~Loaded.exists
  BY <1>2, NoJobType DEF CancelClears, LoadStep, truth
<1> QED
  BY <1>1, <1>2

\* The first state.
LEMMA InitType == Init => TypeInv /\ file.exists
<1> SUFFICES ASSUME Init PROVE TypeInv /\ file.exists
  OBVIOUS
<1>1. now = 0 /\ now \in 0 .. MaxTime
  BY Bounds DEF Init
<1>2. file \in Copies /\ file \in Jobs /\ file.exists
  <2>1. PICK trigger \in Triggers, policy \in Policies :
          LET job == [NoJob EXCEPT !.enabled = TRUE, !.exists = TRUE,
                                   !.trigger = trigger, !.policy = policy]
          IN  file = [job EXCEPT !.next = ComputeNext(job, 0)]
    BY DEF Init
  <2> DEFINE job == [NoJob EXCEPT !.enabled = TRUE, !.exists = TRUE,
                                  !.trigger = trigger, !.policy = policy]
  <2>2. job \in Jobs /\ job.errors = 0 /\ job.exists
    BY NoJobType DEF Jobs
  <2>3. file = [job EXCEPT !.next = ComputeNext(job, 0)]
    BY <2>1
  <2> HIDE DEF job
  <2>4. ComputeNext(job, 0) \in NextRange
    BY <1>1, <2>2, ComputeNextType
  <2>5. file \in Jobs /\ file.errors = 0 /\ file.exists
    BY <2>2, <2>3, <2>4 DEF Jobs, NextRange
  <2> QED
    BY <2>5 DEF Copies
<1> USE DEF Init
<1>3. saves \in [Procs -> Seq(Copies)] /\ cut \in [Procs -> BOOLEAN]
      /\ \A p \in Procs : Len(saves[p]) <= 2 /\ ~cut[p]
  OBVIOUS
<1>4. 0 \in 0 .. now /\ 0 <= now /\ "none" \in Statuses
  BY <1>1 DEF Statuses
<1>5. /\ end \in [Runs -> [status : {"none", "succeeded", "failed", "cancelled"}, at : 0 .. now]]
      /\ log \in [Runs -> [status : Statuses, at : 0 .. now]]
  BY <1>4
<1>6. \A r \in Runs : log[r].status \in Statuses /\ log[r].at <= now
  <2>1. \A r \in Runs : log[r] = [status |-> "none", at |-> 0]
    OBVIOUS
  <2> HIDE DEF Init
  <2>2. ASSUME NEW r \in Runs PROVE log[r].status \in Statuses /\ log[r].at <= now
    <3>1. log[r].status = "none" /\ log[r].at = 0
      BY <2>1
    <3> QED
      BY <1>4, <3>1
  <2> QED
    BY <2>2
<1>7. pc \in [Runs -> {"idle", "woken", "live", "done", "lost"}]
      /\ host \in [Hosts -> Runs \cup {NoRun}] /\ excuses = {} /\ calls \in 0 .. MaxCalls
      /\ faults \in 0 .. MaxFaults /\ spent = {} /\ unsaved = {}
  BY Bounds
<1> HIDE DEF Init
<1> QED
  BY <1>1, <1>2, <1>3, <1>5, <1>6, <1>7 DEF TypeInv, TypeOK

\* Taking the first copy off a list of one or two.
LEMMA TailTakes ==
  ASSUME TypeInv, NEW p \in Procs, saves[p] # <<>>, saves' = [saves EXCEPT ![p] = Tail(@)]
  PROVE  /\ Head(saves[p]) = saves[p][1] /\ saves[p][1] \in Copies
         /\ Len(saves[p]) \in {1, 2}
         /\ saves' \in [Procs -> Seq(Copies)]
         /\ \A q \in Procs \ {p} : saves'[q] = saves[q]
         /\ \/ Len(saves[p]) = 1 /\ saves'[p] = <<>>
            \/ Len(saves[p]) = 2 /\ saves'[p] # <<>> /\ Len(saves'[p]) = 1
               /\ saves'[p][1] = saves[p][2]
<1>1. saves[p] \in Seq(Copies) /\ saves[p] # <<>> /\ Len(saves[p]) \in {1, 2}
  <2>1. saves[p] \in Seq(Copies) /\ saves[p] # <<>> /\ Len(saves[p]) <= 2
    BY DEF TypeInv, TypeOK
  <2>2. Len(saves[p]) \in Nat \ {0}
    BY <2>1, EmptySeq
  <2>3. \A n \in Nat \ {0} : n <= 2 => n \in {1, 2}
    OBVIOUS
  <2> QED
    BY <2>1, <2>2, <2>3
<1>2. Head(saves[p]) = saves[p][1] /\ saves[p][1] \in Copies
  BY <1>1
<1>3. Tail(saves[p]) \in Seq(Copies) /\ Len(Tail(saves[p])) = Len(saves[p]) - 1
  BY <1>1
<1>5. /\ saves' \in [Procs -> Seq(Copies)] /\ saves'[p] = Tail(saves[p])
      /\ \A q \in Procs \ {p} : saves'[q] = saves[q]
  BY <1>3 DEF TypeInv
<1>6. CASE Len(saves[p]) = 1
  <2>1. Tail(saves[p]) = <<>>
    <3>1. Len(Tail(saves[p])) = 0
      BY <1>3, <1>6
    <3> QED
      BY <1>3, <3>1, EmptySeq
  <2> QED
    BY <1>1, <1>2, <1>5, <1>6, <2>1
<1>7. CASE Len(saves[p]) = 2
  <2>1. Tail(saves[p])[1] = saves[p][2] /\ Len(Tail(saves[p])) = 1 /\ Tail(saves[p]) # <<>>
    <3>1. Len(Tail(saves[p])) = 1
      BY <1>3, <1>7
    <3>2. Tail(saves[p])[1] = saves[p][2]
      BY <1>1, <1>7
    <3> QED
      BY <1>3, <3>1, <3>2, EmptySeq
  <2> QED
    BY <1>1, <1>2, <1>5, <1>7, <2>1
<1> QED
  BY <1>1, <1>6, <1>7

\* Then no list is longer than it was, and only who has something to save truncated.
LEMMA TailKeeps ==
  ASSUME TypeInv, NEW p \in Procs, saves[p] # <<>>, saves' = [saves EXCEPT ![p] = Tail(@)],
         cut' = [cut EXCEPT ![p] = FALSE]
  PROVE  /\ cut' \in [Procs -> BOOLEAN] /\ saves' \in [Procs -> Seq(Copies)]
         /\ \A q \in Procs : Len(saves'[q]) <= 2 /\ (cut'[q] => saves'[q] # <<>>)
<1>1. cut' \in [Procs -> BOOLEAN] /\ ~cut'[p] /\ \A q \in Procs \ {p} : cut'[q] = cut[q]
  BY DEF TypeInv
<1>2. Len(saves'[p]) <= 2
  <2>1. Len(<<>>) = 0
    OBVIOUS
  <2>2. saves'[p] = <<>> \/ Len(saves'[p]) = 1
    BY TailTakes
  <2>3. \A n : n = 0 \/ n = 1 => n <= 2
    OBVIOUS
  <2>4. Len(saves'[p]) = 0 \/ Len(saves'[p]) = 1
    BY <2>1, <2>2, Zenon
  <2> QED
    BY <2>3, <2>4, Zenon
<1>3. saves' \in [Procs -> Seq(Copies)] /\ \A q \in Procs \ {p} : saves'[q] = saves[q]
  BY TailTakes
<1> QED
  BY <1>1, <1>2, <1>3 DEF TypeInv, TypeOK

\* Filling the file takes one copy off the list.
LEMMA FillTakes ==
  ASSUME TypeInv, NEW p \in Procs, Fill(p)
  PROVE  /\ saves[p] # <<>> /\ saves' = [saves EXCEPT ![p] = Tail(@)]
         /\ file' \in Copies \cup {Torn}
         /\ file = Torn => file' = saves[p][1]
<1>1. saves[p] # <<>> /\ saves' = [saves EXCEPT ![p] = Tail(@)]
  BY DEF Fill, TypeInv, TypeOK
<1>2. Head(saves[p]) = saves[p][1] /\ saves[p][1] \in Copies
  BY <1>1, TailTakes
<1> QED
  BY <1>1, <1>2 DEF Fill

\* A torn file has the fields of a job, and is none that a call saves.
LEMMA TornType == Torn \in Jobs /\ Torn.errors = -1 /\ ~Torn.exists /\ Torn \notin Copies
<1>1. Torn \in Jobs /\ Torn.errors = -1 /\ ~Torn.exists
  BY NoJobType DEF Torn, Jobs
<1> QED
  BY <1>1 DEF Copies

\* Every step keeps the types.
LEMMA TypeNext == TypeInv /\ [Next]_vars => TypeInv'
<1> SUFFICES ASSUME TypeInv, [Next]_vars PROVE TypeInv'
  OBVIOUS
<1> DEFINE States == {"idle", "woken", "live", "done", "lost"}
<1>1. /\ now \in Nat /\ now \in 0 .. MaxTime /\ log \in Logs
      /\ pc \in [Runs -> States] /\ host \in [Hosts -> Runs \cup {NoRun}]
      /\ calls \in 0 .. MaxCalls /\ faults \in 0 .. MaxFaults
      /\ excuses \subseteq Excuses /\ spent \subseteq Runs /\ unsaved \subseteq Runs
  BY Bounds DEF TypeInv, TypeOK, Logs, Excuses
<1>2. ExpiryLogged \in Logs
  BY ExpiryType
<1>3. ASSUME NEW l \in Logs, NEW r \in Runs, NEW status \in Statuses, NEW at \in 0 .. now
      PROVE  Record(l, r, status, at) \in Logs
  BY <1>1, <1>3, RecordType
<1>4. /\ \A p \in Procs : Overlapping(p) \subseteq Excuses
      /\ LiveExpired \subseteq Excuses /\ {"delete", "second", "torn"} \subseteq Excuses
  BY DEF Overlapping, LiveExpired, Excuses
<1>5. now \in 0 .. now /\ {"running", "skipped", "cancelled"} \subseteq Statuses
      /\ Runs \subseteq Procs /\ Hosts \subseteq Procs
  BY <1>1 DEF Statuses, Procs
<1>6. ASSUME NEW r \in Runs, Wake(r) PROVE TypeInv'
  BY <1>1, <1>2, <1>4, <1>5, <1>6, WakeLoads, LoadKeepsType DEF Wake, truth
<1>7. ASSUME NEW r \in Runs, NEW mode \in {"due", "manual", "force"}, Prepare(r, mode)
      PROVE  TypeInv'
  <2>1. log' \in Logs /\ pc' \in [Runs -> States]
    <3>1. /\ log' \in {ExpiryLogged, Record(ExpiryLogged, r, "skipped", now),
                      Record(ExpiryLogged, r, "running", now)}
          /\ pc' \in {[pc EXCEPT ![r] = "done"], [pc EXCEPT ![r] = "live"]}
      BY <1>7, PrepareLoads
    <3>2. /\ Record(ExpiryLogged, r, "skipped", now) \in Logs
          /\ Record(ExpiryLogged, r, "running", now) \in Logs
      BY <1>2, <1>3, <1>5
    <3>3. [pc EXCEPT ![r] = "done"] \in [Runs -> States] /\ [pc EXCEPT ![r] = "live"] \in [Runs -> States]
      BY <1>1
    <3> QED
      BY <1>2, <3>1, <3>2, <3>3
  <2>2. excuses' \subseteq Excuses
    BY <1>1, <1>4, <1>5, <1>7 DEF Prepare
  <2>3. /\ end' = end /\ host' \in [Hosts -> Runs \cup {NoRun}] /\ calls' \in 0 .. MaxCalls
        /\ faults' = faults /\ spent' \subseteq Runs
    BY <1>1, <1>7 DEF Prepare, truth
  <2> QED
    BY <1>5, <1>7, <2>1, <2>2, <2>3, PrepareLoads, LoadKeepsType
<1>8. ASSUME NEW r \in Runs, NEW status \in {"succeeded", "failed", "cancelled"},
             RunEnds(r, status)
      PROVE  TypeInv'
  <2>1. end' \in [Runs -> [status : {"none", "succeeded", "failed", "cancelled"}, at : 0 .. now]]
    BY <1>5, <1>8 DEF RunEnds, TypeInv
  <2>2. UNCHANGED <<now, file, saves, cut, pc, log, host, calls, faults, spent, unsaved, excuses>>
    BY <1>8 DEF RunEnds, truth
  <2> QED
    BY <2>1, <2>2 DEF TypeInv, TypeOK
<1>9. ASSUME NEW r \in Runs, Finalize(r) PROVE TypeInv'
  <2>1. end[r].status \in Statuses /\ end[r].at \in 0 .. now
    BY <1>9, OutcomeType DEF Finalize, Statuses
  <2>2. log' \in Logs /\ pc' \in [Runs -> States]
    BY <1>1, <1>2, <1>3, <1>9, <2>1 DEF Finalize
  <2>3. spent' \subseteq Runs
    BY <1>1, <1>9 DEF Finalize
  <2> QED
    BY <1>1, <1>4, <1>5, <1>9, <2>2, <2>3, FinalizeLoads, LoadKeepsType DEF Finalize
<1>10. ASSUME NEW h \in Hosts, List(h) PROVE TypeInv'
  BY <1>1, <1>2, <1>4, <1>5, <1>10, ListLoads, LoadKeepsType DEF List, truth
<1>11. calls < MaxCalls => calls + 1 \in 0 .. MaxCalls
  BY <1>1, Bounds
<1>12. ASSUME NEW h \in Hosts, NEW b \in BOOLEAN, NEW trigger \in Triggers,
              NEW policy \in Policies, Update(h, b, trigger, policy)
       PROVE  TypeInv'
  <2>1. calls' \in 0 .. MaxCalls
    BY <1>11, <1>12 DEF Update, Call
  <2> QED
    BY <1>1, <1>2, <1>4, <1>5, <1>12, <2>1, UpdateLoads, LoadKeepsType DEF Update
<1>13. ASSUME NEW h \in Hosts, Delete(h) PROVE TypeInv'
  <2>1. calls' \in 0 .. MaxCalls
    BY <1>11, <1>13 DEF Delete, Call
  <2> QED
    BY <1>1, <1>2, <1>4, <1>5, <1>13, <2>1, DeleteLoads, LoadKeepsType DEF Delete, truth
<1>14. ASSUME NEW h \in Hosts, CancelRun(h) PROVE TypeInv'
  <2>1. calls' \in 0 .. MaxCalls
    BY <1>11, <1>14 DEF CancelRun, Call
  <2>2. Loaded.running \in Runs
    BY <1>14, LoadedType DEF CancelRun, Copies, Jobs
  <2>3. log' \in Logs /\ host' \in [Hosts -> Runs \cup {NoRun}]
    BY <1>1, <1>3, <1>5, <1>14, <2>2 DEF CancelRun
  <2> QED
    BY <1>1, <1>4, <1>5, <1>14, <2>1, <2>3, CancelLoads, LoadKeepsType DEF CancelRun, truth
<1>15. ASSUME NEW h \in Hosts, CancelClears(h) PROVE TypeInv'
  <2>1. PICK j \in Copies : LoadStep(h, <<j>>)
    BY <1>15, ClearsLoads
  <2>2. <<j>> \in Lists
    BY DEF Lists
  <2>3. host' \in [Hosts -> Runs \cup {NoRun}]
    BY <1>1, <1>15 DEF CancelClears
  <2> QED
    BY <1>1, <1>2, <1>4, <1>5, <1>15, <2>1, <2>2, <2>3, LoadKeepsType DEF CancelClears, truth
<1>16. CASE Tick
  <2>1. now' \in 0 .. MaxTime /\ \A n \in 0 .. now : n \in 0 .. now' /\ n <= now'
    BY <1>1, <1>16, Bounds DEF Tick
  <2>2. UNCHANGED <<file, saves, cut, pc, end, log, host, calls, faults, spent, unsaved, excuses>>
    BY <1>16 DEF Tick, truth
  <2>3. \A r \in Runs : log[r].status \in Statuses /\ log[r].at \in 0 .. now
    BY <1>1 DEF Logs
  <2>4. TypeOK'
    BY <2>1, <2>2, <2>3 DEF TypeInv, TypeOK
  <2>5. /\ end' \in [Runs -> [status : {"none", "succeeded", "failed", "cancelled"}, at : 0 .. now']]
        /\ log' \in [Runs -> [status : Statuses, at : 0 .. now']]
    BY <2>1, <2>2 DEF TypeInv
  <2> QED
    BY <2>2, <2>4, <2>5 DEF TypeInv
<1>17. ASSUME NEW p \in Procs, Truncate(p) PROVE TypeInv'
  <2>1. /\ file' = Torn /\ cut' = [cut EXCEPT ![p] = TRUE] /\ saves[p] # <<>>
        /\ UNCHANGED <<now, saves, pc, end, log, host, calls, faults, spent, unsaved, excuses>>
    BY <1>17 DEF Truncate, truth
  <2>2. Torn \in Jobs
    BY TornType
  <2>3. cut' \in [Procs -> BOOLEAN] /\ \A q \in Procs : cut'[q] => saves[q] # <<>>
    BY <2>1 DEF TypeInv, TypeOK
  <2> QED
    BY <2>1, <2>2, <2>3 DEF TypeInv, TypeOK
<1>18. ASSUME NEW p \in Procs, Fill(p) PROVE TypeInv'
  <2>1. /\ cut' = [cut EXCEPT ![p] = FALSE]
        /\ UNCHANGED <<now, pc, end, log, host, calls, faults, spent, unsaved, excuses>>
    BY <1>18 DEF Fill, truth
  <2>2. Torn \in Jobs /\ Copies \subseteq Jobs
    BY TornType DEF Copies
  <2>3. /\ cut' \in [Procs -> BOOLEAN] /\ saves' \in [Procs -> Seq(Copies)]
        /\ \A q \in Procs : Len(saves'[q]) <= 2 /\ (cut'[q] => saves'[q] # <<>>)
    BY <1>18, <2>1, FillTakes, TailKeeps
  <2>4. file' \in Copies \cup {Torn} /\ file' \in Jobs
    BY <1>18, <2>2, FillTakes
  <2> QED
    BY <2>1, <2>3, <2>4 DEF TypeInv, TypeOK
<1>19. CASE Crash
  <2>1. /\ saves' = [p \in Procs |-> <<>>] /\ cut' = [p \in Procs |-> FALSE]
        /\ UNCHANGED <<now, file, end, log, calls>>
        /\ unsaved' = unsaved \cup Unsaved /\ spent' = spent \ Unsaved
        /\ faults < MaxFaults /\ faults' = faults + 1
    BY <1>19 DEF Crash
  <2>2. /\ saves' \in [Procs -> Seq(Copies)] /\ cut' \in [Procs -> BOOLEAN]
        /\ \A p \in Procs : Len(saves'[p]) <= 2 /\ ~cut'[p]
    BY <2>1
  <2>3. pc' \in [Runs -> States] /\ host' \in [Hosts -> Runs \cup {NoRun}]
        /\ excuses' \subseteq Excuses
    BY <1>1, <1>4, <1>19 DEF Crash
  <2>4. unsaved' \subseteq Runs /\ spent' \subseteq Runs /\ faults' \in 0 .. MaxFaults
    BY <1>1, <2>1, Bounds DEF Unsaved
  <2>5. TypeOK'
    BY <2>1, <2>2, <2>3, <2>4 DEF TypeInv, TypeOK, Excuses
  <2> QED
    BY <2>1, <2>2, <2>5 DEF TypeInv
<1>20. CASE UNCHANGED vars
  BY <1>20 DEF vars, truth, TypeInv, TypeOK
<1>23. ASSUME NEW p \in Procs, SaveFails(p) PROVE TypeInv'
  <2>1. /\ cut' = [cut EXCEPT ![p] = FALSE] /\ saves[p] # <<>>
        /\ saves' = [saves EXCEPT ![p] = Tail(@)] /\ file' \in {file, Torn}
        /\ UNCHANGED <<now, end, log, host, calls>>
        /\ faults < MaxFaults /\ faults' = faults + 1
    BY <1>23 DEF SaveFails
  <2>2. file' \in Jobs /\ file' \in Copies \cup {Torn}
    BY <2>1, TornType DEF TypeInv, TypeOK
  <2>3. /\ cut' \in [Procs -> BOOLEAN] /\ saves' \in [Procs -> Seq(Copies)]
        /\ \A q \in Procs : Len(saves'[q]) <= 2 /\ (cut'[q] => saves'[q] # <<>>)
    BY <2>1, TailKeeps
  <2>4. PICK own \in SUBSET Runs : /\ pc' = [r \in Runs |-> IF r \in own THEN "done" ELSE pc[r]]
                                  /\ unsaved' = unsaved \cup own /\ spent' = spent \ own
    BY <1>23 DEF SaveFails
  <2>5. /\ pc' \in [Runs -> States] /\ excuses' \subseteq Excuses
        /\ unsaved' \subseteq Runs /\ spent' \subseteq Runs /\ faults' \in 0 .. MaxFaults
    <3>1. excuses' \subseteq Excuses
      BY <1>1, <1>4, <1>23 DEF SaveFails
    <3>2. faults' \in 0 .. MaxFaults
      BY <1>1, <2>1, Bounds
    <3> QED
      BY <1>1, <2>4, <3>1, <3>2
  <2>6. TypeOK'
    BY <2>1, <2>2, <2>3, <2>5 DEF TypeInv, TypeOK, Excuses
  <2> QED
    BY <2>1, <2>2, <2>3, <2>6 DEF TypeInv
<1>21. ASSUME NEW r \in Runs, RunStep(r) PROVE TypeInv'
  BY <1>6, <1>7, <1>8, <1>9, <1>21 DEF RunStep
<1>22. ASSUME NEW h \in Hosts, HostStep(h) PROVE TypeInv'
  BY <1>10, <1>12, <1>13, <1>14, <1>15, <1>22 DEF HostStep
<1> QED
  BY <1>16, <1>17, <1>18, <1>19, <1>20, <1>21, <1>22, <1>23 DEF Next

-----------------------------------------------------------------------------
(* Invariants *)

\* A run ends, and a host clears, after what they say happened before.
LEMMA EndNext == TypeInv /\ EndInv /\ [Next]_vars => EndInv'
<1> SUFFICES ASSUME TypeInv, EndInv, [Next]_vars PROVE EndInv'
  OBVIOUS
<1>1. /\ now \in Nat /\ log \in Logs /\ pc \in [Runs -> {"idle", "woken", "live", "done", "lost"}]
      /\ host \in [Hosts -> Runs \cup {NoRun}]
      /\ \A r \in Runs : end[r].at \in 0 .. now
      /\ Runs \subseteq Procs /\ Hosts \subseteq Procs
  BY Bounds DEF TypeInv, TypeOK, Logs, Procs
<1>2. ExpiryLogged \in Logs /\ \A q \in Runs : ExpiryLogged[q].status = "running"
                                                => ExpiryLogged[q] = log[q]
  <2>1. ASSUME NEW q \in Runs, ExpiryLogged[q].status = "running"
        PROVE  ExpiryLogged[q] = log[q]
    BY <2>1, ExpiryType
  <2> QED
    BY <2>1, ExpiryType
<1>3. ASSUME NEW l \in Logs, NEW r \in Runs, NEW status \in Statuses, NEW at \in 0 .. now
       PROVE  /\ \A q \in Runs \ {r} : Record(l, r, status, at)[q] = l[q]
              /\ \/ Record(l, r, status, at)[r] = l[r]
                 \/ Record(l, r, status, at)[r].status = status
  BY <1>1, <1>3 DEF Record, Logs
<1>4. \A r \in Runs : end[r].status # "none" => pc[r] \notin {"idle", "woken"}
  BY DEF EndInv
<1>5. \A r \in Runs : end[r].status # "none" /\ log[r].status = "running" => log[r].at <= end[r].at
  BY DEF EndInv
\* No step but a start makes a run "running", or moves it back.
<1>6. ASSUME end' = end, excuses \subseteq excuses', unsaved \subseteq unsaved',
             \A r \in Runs : pc'[r] \in {"idle", "woken"} => pc[r] \in {"idle", "woken"},
             \A r \in Runs : /\ end[r].status # "none" /\ log'[r].status = "running"
                             => log'[r] = log[r],
             \A r \in Runs : log'[r].status = "running" =>
               \/ pc'[r] \in {"live", "lost"}
               \/ pc'[r] = "done" /\ (end[r].status # "none" \/ r \in unsaved')
               \/ log[r].status = "running" /\ pc'[r] = pc[r],
             \A r \in Runs : pc'[r] = "lost" => saves'[r] = <<>>,
             \A r \in spent' : end[r].status # "none",
             \A h \in Hosts : host'[h] # NoRun => host[h] # NoRun \/ "second" \in excuses'
      PROVE  EndInv'
  <2>1. ASSUME NEW r \in Runs, log'[r].status = "running"
        PROVE  /\ pc'[r] \notin {"idle", "woken"}
               /\ pc'[r] = "done" => end[r].status # "none" \/ r \in unsaved'
    BY <1>6, <2>1 DEF EndInv
  <2> QED
    BY <1>6, <2>1 DEF EndInv
\* A run that is lost has nothing to save.
<1>7. ASSUME NEW p \in Procs, NEW copies \in Lists, LoadStep(p, copies),
             p \in Runs => pc'[p] # "lost", \A r \in Runs \ {p} : pc'[r] = pc[r]
      PROVE  \A r \in Runs : pc'[r] = "lost" => saves'[r] = <<>>
  BY <1>1, <1>7, LoadSaves DEF EndInv
<1>8. ASSUME NEW r \in Runs, Wake(r) PROVE EndInv'
  <2>1. /\ pc' = [pc EXCEPT ![r] = "woken"] /\ pc[r] = "idle" /\ unsaved' = unsaved
        /\ log' = ExpiryLogged /\ excuses \subseteq excuses' /\ end' = end /\ host' = host
        /\ spent' = spent
    BY <1>8 DEF Wake, truth
  <2>2. pc'[r] = "woken" /\ \A q \in Runs \ {r} : pc'[q] = pc[q]
    BY <1>1, <2>1
  <2>3. \A q \in Runs : pc'[q] = "lost" => saves'[q] = <<>>
    BY <1>1, <1>7, <1>8, <2>2, WakeLoads
  <2>4. log[r].status # "running" /\ end[r].status = "none"
    BY <2>1 DEF EndInv
  <2>5. \A q \in Runs : log'[q].status = "running" => log'[q] = log[q] /\ q # r
    BY <1>2, <2>1, <2>4
  <2>6. \A q \in spent' : end[q].status # "none"
    BY <2>1 DEF EndInv
  <2> QED
    BY <1>6, <2>1, <2>2, <2>3, <2>5, <2>6
<1>9. ASSUME NEW r \in Runs, NEW mode \in {"due", "manual", "force"}, Prepare(r, mode)
      PROVE  EndInv'
  <2>1. /\ pc[r] \in {"idle", "woken"} /\ excuses \subseteq excuses' /\ end' = end /\ host' = host
        /\ unsaved' = unsaved /\ spent' = spent
    BY <1>9 DEF Prepare, truth
  <2>2. end[r].status = "none" /\ log[r].status # "running"
    BY <2>1 DEF EndInv
  <2>3. /\ \/ log' = ExpiryLogged /\ pc' = [pc EXCEPT ![r] = "done"]
           \/ log' = Record(ExpiryLogged, r, "skipped", now) /\ pc' = [pc EXCEPT ![r] = "done"]
           \/ log' = Record(ExpiryLogged, r, "running", now) /\ pc' = [pc EXCEPT ![r] = "live"]
        /\ \E copies \in Lists : LoadStep(r, copies)
    BY <1>9, PrepareLoads
  <2>4. /\ \A q \in Runs \ {r} : log'[q] = ExpiryLogged[q]
        /\ pc'[r] = "live" \/ (pc'[r] = "done" /\ log'[r].status # "running")
    <3>1. "skipped" \in Statuses /\ "running" \in Statuses /\ now \in 0 .. now
      BY <1>1 DEF Statuses
    <3>2. /\ \A q \in Runs \ {r} : /\ Record(ExpiryLogged, r, "skipped", now)[q] = ExpiryLogged[q]
                                   /\ Record(ExpiryLogged, r, "running", now)[q] = ExpiryLogged[q]
          /\ ExpiryLogged[r].status # "running"
          /\ Record(ExpiryLogged, r, "skipped", now)[r].status # "running"
      BY <1>2, <1>3, <2>2, <3>1
    <3> QED
      BY <1>1, <2>3, <3>2
  <2>5. \A q \in Runs \ {r} : pc'[q] = pc[q]
    BY <1>1, <2>3
  <2>6. \A q \in Runs : pc'[q] = "lost" => saves'[q] = <<>>
    BY <1>1, <1>7, <2>3, <2>4, <2>5
  <2>7. \A q \in spent' : end[q].status # "none"
    BY <2>1 DEF EndInv
  <2>8. \A q \in Runs \ {r} : log'[q].status = "running" => log'[q] = log[q]
    BY <1>2, <2>4
  <2> QED
    BY <1>6, <2>1, <2>2, <2>4, <2>5, <2>6, <2>7, <2>8
<1>10. ASSUME NEW r \in Runs, NEW status \in {"succeeded", "failed", "cancelled"},
             RunEnds(r, status)
      PROVE  EndInv'
  <2>1. /\ end' = [end EXCEPT ![r] = [status |-> status, at |-> now]]
        /\ pc[r] = "live" /\ UNCHANGED <<saves, pc, log, host, excuses, spent, unsaved>>
    BY <1>10 DEF RunEnds, Live, truth
  <2>2. end'[r].at = now /\ end'[r].status = status /\ \A q \in Runs \ {r} : end'[q] = end[q]
    BY <2>1 DEF TypeInv
  <2>3. log[r].at <= now
    BY <1>1 DEF Logs
  <2>4. spent \subseteq Runs
    BY DEF TypeInv, TypeOK
  <2> QED
    BY <1>4, <1>5, <2>1, <2>2, <2>3, <2>4 DEF EndInv
<1>11. ASSUME NEW r \in Runs, Finalize(r) PROVE EndInv'
  <2>1. /\ pc' = [pc EXCEPT ![r] = "done"] /\ end[r].status # "none"
        /\ log' = Record(ExpiryLogged, r, end[r].status, end[r].at)
        /\ excuses \subseteq excuses' /\ end' = end /\ host' = host /\ unsaved' = unsaved
        /\ spent' \subseteq spent \cup {r}
    BY <1>11 DEF Finalize
  <2>2. end[r].status \in Statuses /\ end[r].status # "running" /\ end[r].at \in 0 .. now
    BY <2>1, OutcomeType DEF Statuses
  <2>3. /\ \A q \in Runs \ {r} : log'[q] = ExpiryLogged[q]
        /\ log'[r] = ExpiryLogged[r] \/ log'[r].status = end[r].status
    BY <1>2, <1>3, <2>1, <2>2
  <2>4. \A q \in Runs : log'[q].status = "running" => log'[q] = log[q]
    BY <1>2, <2>2, <2>3
  <2>5. pc'[r] = "done" /\ \A q \in Runs \ {r} : pc'[q] = pc[q]
    BY <1>1, <2>1
  <2>6. \A q \in Runs : pc'[q] = "lost" => saves'[q] = <<>>
    BY <1>1, <1>7, <1>11, <2>5, FinalizeLoads
  <2>7. \A q \in spent' : end[q].status # "none"
    BY <2>1 DEF EndInv
  <2> QED
    BY <1>6, <2>1, <2>4, <2>5, <2>6, <2>7
\* A call of the host moves no run, and ends none but the one it cancels.
<1>12. ASSUME NEW h \in Hosts, NEW copies \in Lists, LoadStep(h, copies),
              pc' = pc, end' = end, excuses \subseteq excuses', spent' \subseteq spent,
              \A q \in Runs : log'[q].status = "running" => log'[q] = log[q],
              \A q \in Hosts : host'[q] # NoRun => host[q] # NoRun \/ "second" \in excuses'
       PROVE  EndInv'
  <2>1. unsaved' = unsaved
    BY <1>12 DEF LoadStep
  <2>2. \A q \in Runs : pc'[q] = "lost" => saves'[q] = <<>>
    <3>1. h \notin Runs
      BY AutomationAssumption
    <3> QED
      BY <1>1, <1>7, <1>12, <3>1
  <2>3. \A q \in spent' : end[q].status # "none"
    BY <1>12 DEF EndInv
  <2> QED
    BY <1>6, <1>12, <2>1, <2>2, <2>3
<1>13. ASSUME NEW h \in Hosts, NEW copies \in Lists, LoadStep(h, copies),
              pc' = pc, end' = end, excuses \subseteq excuses', spent' \subseteq spent,
              log' = ExpiryLogged, host' \in {host, [host EXCEPT ![h] = NoRun]}
       PROVE  EndInv'
  <2>1. \A q \in Hosts : host'[q] # NoRun => host[q] # NoRun
    BY <1>1, <1>13
  <2> QED
    BY <1>2, <1>12, <1>13, <2>1
<1>14. ASSUME NEW h \in Hosts, List(h) PROVE EndInv'
  BY <1>13, <1>14, ListLoads DEF List, truth
<1>15. ASSUME NEW h \in Hosts, Delete(h) PROVE EndInv'
  BY <1>13, <1>15, DeleteLoads DEF Delete, truth
<1>16. ASSUME NEW h \in Hosts, CancelClears(h) PROVE EndInv'
  <2>1. PICK j \in Copies : LoadStep(h, <<j>>)
    BY <1>16, ClearsLoads
  <2>2. <<j>> \in Lists
    BY DEF Lists
  <2> QED
    BY <1>13, <1>16, <2>1, <2>2 DEF CancelClears, truth
<1>17. ASSUME NEW h \in Hosts, NEW b \in BOOLEAN, NEW trigger \in Triggers,
              NEW policy \in Policies, Update(h, b, trigger, policy)
       PROVE  EndInv'
  BY <1>13, <1>17, UpdateLoads DEF Update
<1>18. ASSUME NEW h \in Hosts, CancelRun(h) PROVE EndInv'
  <2>1. /\ pc' = pc /\ excuses \subseteq excuses' /\ end' = end /\ "second" \in excuses'
        /\ log' = Record(log, Loaded.running, "cancelled", now) /\ Loaded.running # NoRun
        /\ spent' = spent
    BY <1>18 DEF CancelRun, truth
  <2>2. Loaded.running \in Runs
    BY <2>1, LoadedType DEF Copies, Jobs
  <2>3. "cancelled" \in Statuses /\ now \in 0 .. now
    BY <1>1 DEF Statuses
  <2>4. \A q \in Runs : log'[q].status = "running" => log'[q] = log[q]
    <3>1. /\ \A q \in Runs \ {Loaded.running} : log'[q] = log[q]
          /\ \/ log'[Loaded.running] = log[Loaded.running]
             \/ log'[Loaded.running].status = "cancelled"
      BY <1>1, <1>3, <2>1, <2>2, <2>3
    <3> QED
      BY <3>1
  <2> QED
    BY <1>12, <1>18, <2>1, <2>4, CancelLoads
<1>19. CASE Crash
  <2>1. /\ pc' = [r \in Runs |-> IF pc[r] \in {"live", "woken"} THEN "lost" ELSE pc[r]]
        /\ host' = [h \in Hosts |-> NoRun] /\ excuses \subseteq excuses'
        /\ saves' = [p \in Procs |-> <<>>] /\ unsaved \subseteq unsaved'
        /\ spent' \subseteq spent /\ end' = end /\ log' = log
    BY <1>19 DEF Crash
  <2>2. \A q \in Runs : saves'[q] = <<>>
    BY <1>1, <2>1
  <2>3. \A q \in spent' : end[q].status # "none"
    BY <2>1 DEF EndInv
  <2> QED
    BY <1>6, <2>1, <2>2, <2>3
<1>20. ASSUME NEW p \in Procs, SaveFails(p) PROVE EndInv'
  <2>1. PICK own \in SUBSET Runs : /\ pc' = [r \in Runs |-> IF r \in own THEN "done" ELSE pc[r]]
                                  /\ unsaved' = unsaved \cup own /\ spent' = spent \ own
    BY <1>20 DEF SaveFails
  <2>2. /\ saves[p] # <<>> /\ saves' = [saves EXCEPT ![p] = Tail(@)]
        /\ end' = end /\ log' = log /\ host' = host /\ excuses \subseteq excuses'
    BY <1>20 DEF SaveFails
  <2>3. \A q \in Runs : pc'[q] = "lost" => saves'[q] = <<>>
    BY <1>1, <2>1, <2>2, TailTakes DEF EndInv
  <2>4. \A q \in spent' : end[q].status # "none"
    BY <2>1 DEF EndInv
  <2>5. \A q \in Runs : \/ pc'[q] = pc[q]
                        \/ pc'[q] = "done" /\ q \in unsaved'
    BY <2>1
  <2>6. unsaved \subseteq unsaved'
    BY <2>1
  <2> QED
    BY <1>6, <2>2, <2>3, <2>4, <2>5, <2>6
<1>21. ASSUME UNCHANGED <<saves, pc, end, log, host, spent, unsaved, excuses>> PROVE EndInv'
  BY <1>21 DEF EndInv
<1>22. ASSUME NEW p \in Procs, Truncate(p) PROVE EndInv'
  BY <1>21, <1>22 DEF Truncate, truth
<1>23. ASSUME NEW p \in Procs, Fill(p) PROVE EndInv'
  <2>1. UNCHANGED <<pc, end, log, host, spent, unsaved, excuses>>
    BY <1>23 DEF Fill, truth
  <2>2. \A q \in Runs : pc'[q] = "lost" => saves'[q] = <<>>
    BY <1>1, <1>23, <2>1, FillTakes, TailTakes DEF EndInv
  <2> QED
    BY <1>6, <2>1, <2>2 DEF EndInv
<1>24. CASE Tick \/ UNCHANGED vars
  BY <1>21, <1>24 DEF Tick, vars, truth
<1>25. ASSUME NEW r \in Runs, RunStep(r) PROVE EndInv'
  BY <1>8, <1>9, <1>10, <1>11, <1>25 DEF RunStep
<1>26. ASSUME NEW h \in Hosts, HostStep(h) PROVE EndInv'
  BY <1>14, <1>15, <1>16, <1>17, <1>18, <1>26 DEF HostStep
<1> QED
  BY <1>19, <1>20, <1>22, <1>23, <1>24, <1>25, <1>26 DEF Next

\* Every step of a run or of the host, but the end of a turn, loads.
LEMMA StepsLoad ==
  ASSUME TypeInv
  PROVE  /\ \A r \in Runs : RunStep(r) =>
              \/ \E copies \in Lists : LoadStep(r, copies)
              \/ \E status \in {"succeeded", "failed", "cancelled"} : RunEnds(r, status)
         /\ \A h \in Hosts : HostStep(h) => \E copies \in Lists : LoadStep(h, copies)
<1>1. ASSUME NEW r \in Runs, NEW mode \in {"due", "manual", "force"}, Prepare(r, mode)
      PROVE  \E copies \in Lists : LoadStep(r, copies)
  BY <1>1, PrepareLoads
<1>2. ASSUME NEW h \in Hosts, CancelClears(h)
      PROVE  \E copies \in Lists : LoadStep(h, copies)
  BY <1>2, ClearsLoads DEF Lists
<1>3. ASSUME NEW r \in Runs, Wake(r) \/ Finalize(r)
      PROVE  \E copies \in Lists : LoadStep(r, copies)
  BY <1>3, WakeLoads, FinalizeLoads
<1>4. ASSUME NEW h \in Hosts, List(h) \/ Delete(h) \/ CancelRun(h)
      PROVE  \E copies \in Lists : LoadStep(h, copies)
  BY <1>4, ListLoads, DeleteLoads, CancelLoads
<1>5. ASSUME NEW h \in Hosts, NEW b \in BOOLEAN, NEW trigger \in Triggers,
             NEW policy \in Policies, Update(h, b, trigger, policy)
      PROVE  \E copies \in Lists : LoadStep(h, copies)
  BY <1>5, UpdateLoads
<1>6. ASSUME NEW r \in Runs, RunStep(r)
      PROVE  \/ \E copies \in Lists : LoadStep(r, copies)
             \/ \E status \in {"succeeded", "failed", "cancelled"} : RunEnds(r, status)
  BY <1>1, <1>3, <1>6 DEF RunStep
<1>7. ASSUME NEW h \in Hosts, HostStep(h) PROVE \E copies \in Lists : LoadStep(h, copies)
  BY <1>2, <1>4, <1>5, <1>7 DEF HostStep
<1> QED
  BY <1>6, <1>7

\* Without an overlap the file is torn only by the one call that has something to save.
LEMMA FileNext == TypeInv /\ FileInv /\ [Next]_vars => FileInv'
<1> SUFFICES ASSUME TypeInv, FileInv, [Next]_vars, Apart' PROVE FileInv'
  BY DEF FileInv
<1>1. ASSUME NEW p \in Procs, NEW copies \in Lists, LoadStep(p, copies) PROVE FileInv'
  <2>1. /\ file' = file /\ cut' = cut /\ Apart /\ \A q \in Procs : saves[q] = <<>>
    BY <1>1, LoadAlone DEF LoadStep
  <2>2. \A q \in Procs \ {p} : saves'[q] = <<>>
    BY <1>1, <2>1, LoadSaves
  <2> QED
    BY <2>1, <2>2 DEF FileInv
<1>2. ASSUME NEW p \in Procs, Truncate(p) PROVE FileInv'
  <2>1. /\ file' = Torn /\ cut' = [cut EXCEPT ![p] = TRUE] /\ saves' = saves
        /\ excuses' = excuses
    BY <1>2 DEF Truncate
  <2>2. cut'[p]
    BY <2>1 DEF TypeInv
  <2> QED
    BY <2>1, <2>2 DEF FileInv, Apart
\* The call that writes is the one that has something to save.
<1>3. ASSUME NEW p \in Procs, saves[p] # <<>>, Apart
      PROVE  \A q \in Procs \ {p} : saves[q] = <<>> /\ ~cut[q]
  BY <1>3 DEF FileInv, TypeInv, TypeOK
<1>4. ASSUME NEW p \in Procs, Fill(p) PROVE FileInv'
  <2>1. /\ cut' = [cut EXCEPT ![p] = FALSE] /\ cut[p] /\ excuses' = excuses
    BY <1>4 DEF Fill
  <2>2. Apart /\ file = Torn /\ saves[p] # <<>>
    BY <1>4, <2>1, FillTakes DEF FileInv, Apart
  <2>3. \A q \in Procs \ {p} : saves[q] = <<>> /\ ~cut[q]
    BY <1>3, <2>2
  <2>4. file' \in Copies /\ file' # Torn
    BY <1>4, <2>2, FillTakes, TailTakes, TornType
  <2>5. \A q \in Procs : ~cut'[q]
    BY <2>1, <2>3 DEF TypeInv
  <2>6. \A q \in Procs \ {p} : saves'[q] = <<>>
    BY <1>4, <2>3, FillTakes, TailTakes
  <2> QED
    BY <2>4, <2>5, <2>6 DEF FileInv
<1>5. ASSUME NEW p \in Procs, SaveFails(p) PROVE FileInv'
  <2>1. /\ saves[p] # <<>> /\ saves' = [saves EXCEPT ![p] = Tail(@)]
        /\ cut' = [cut EXCEPT ![p] = FALSE] /\ excuses \subseteq excuses'
        /\ cut[p] => "torn" \in excuses'
        /\ ~cut[p] => file' = file
    BY <1>5 DEF SaveFails
  <2>2. Apart /\ ~cut[p]
    BY <2>1 DEF Apart
  <2>3. \A q \in Procs \ {p} : saves[q] = <<>> /\ ~cut[q]
    BY <1>3, <2>1, <2>2
  <2>4. \A q \in Procs : ~cut'[q] /\ ~cut[q]
    BY <2>1, <2>2, <2>3 DEF TypeInv
  <2>5. file' # Torn
    BY <2>1, <2>2, <2>4 DEF FileInv
  <2>6. \A q \in Procs \ {p} : saves'[q] = <<>>
    BY <2>1, <2>3, TailTakes
  <2> QED
    BY <2>4, <2>5, <2>6 DEF FileInv
<1>6. CASE Crash
  <2>1. /\ saves' = [p \in Procs |-> <<>>] /\ cut' = [p \in Procs |-> FALSE] /\ file' = file
        /\ excuses \subseteq excuses'
        /\ (\E p \in Procs : cut[p]) => "torn" \in excuses'
    BY <1>6 DEF Crash
  <2>2. Apart /\ \A p \in Procs : ~cut[p]
    BY <2>1 DEF Apart
  <2>3. file # Torn
    BY <2>2 DEF FileInv
  <2> QED
    BY <2>1, <2>3 DEF FileInv
<1>7. ASSUME UNCHANGED <<file, saves, cut, excuses>> PROVE FileInv'
  BY <1>7 DEF FileInv, Apart
<1>8. CASE Tick \/ UNCHANGED vars
  BY <1>7, <1>8 DEF Tick, vars
<1>9. ASSUME NEW r \in Runs, NEW status, RunEnds(r, status) PROVE FileInv'
  BY <1>7, <1>9 DEF RunEnds
<1>10. ASSUME NEW r \in Runs, RunStep(r) PROVE FileInv'
  BY <1>1, <1>9, <1>10, StepsLoad DEF Procs
<1>11. ASSUME NEW h \in Hosts, HostStep(h) PROVE FileInv'
  BY <1>1, <1>11, StepsLoad DEF Procs
<1> QED
  BY <1>2, <1>4, <1>5, <1>6, <1>8, <1>10, <1>11 DEF Next

\* What was a reason for the job to be gone stays one.
LEMMA GoneStays ==
  ASSUME [Next]_vars, Gone
  PROVE  Gone'
<1>1. excuses \subseteq excuses' /\ won \subseteq won'
  <2>1. ASSUME NEW r \in Runs, RunStep(r) PROVE excuses \subseteq excuses' /\ won \subseteq won'
    BY <2>1 DEF RunStep, Wake, Prepare, RunEnds, Finalize, truth
  <2>2. ASSUME NEW h \in Hosts, HostStep(h) PROVE excuses \subseteq excuses' /\ won \subseteq won'
    BY <2>2 DEF HostStep, List, Update, Delete, CancelRun, CancelClears, truth
  <2> QED
    BY <2>1, <2>2 DEF Next, vars, truth, Tick, Crash, Truncate, Fill, SaveFails
<1> QED
  BY <1>1 DEF Gone

\* A write takes nothing from what is held but what it saves, and adds nothing.
LEMMA WriteHolds ==
  ASSUME TypeInv, NEW p \in Procs, saves[p] # <<>>, NEW S, HeldIn(S),
         saves' = saves \/ saves' = [saves EXCEPT ![p] = Tail(@)],
         file' \in {file, Torn, saves[p][1]}
  PROVE  HeldIn(S)'
<1>1. Len(saves[p]) \in {1, 2} /\ saves[p] \in Seq(Copies)
  <2>1. saves[p] \in Seq(Copies) /\ Len(saves[p]) <= 2
    BY DEF TypeInv, TypeOK
  <2>2. Len(saves[p]) \in Nat \ {0}
    BY <2>1, EmptySeq
  <2>3. \A n \in Nat \ {0} : n <= 2 => n \in {1, 2}
    OBVIOUS
  <2> QED
    BY <2>1, <2>2, <2>3
<1>2. 1 \in DOMAIN saves[p] /\ (Len(saves[p]) = 2 => 2 \in DOMAIN saves[p])
  BY <1>1, LenProperties
<1>3. file' # Torn => file' \in S
  BY <1>2 DEF HeldIn
<1>4. CASE saves' = saves
  BY <1>3, <1>4 DEF HeldIn
<1>5. CASE saves' = [saves EXCEPT ![p] = Tail(@)]
  <2>1. ASSUME NEW i \in DOMAIN saves'[p] PROVE saves'[p][i] \in S
    <3>1. DOMAIN <<>> = {}
      OBVIOUS
    <3>2. Len(saves[p]) = 2 /\ Len(saves'[p]) = 1 /\ saves'[p][1] = saves[p][2]
          /\ saves'[p] \in Seq(Copies)
      BY <1>5, <2>1, <3>1, TailTakes
    <3>3. i = 1
      BY <2>1, <3>2
    <3> QED
      BY <1>2, <3>2, <3>3 DEF HeldIn
  <2>2. \A q \in Procs \ {p} : saves'[q] = saves[q]
    BY <1>5, TailTakes
  <2>3. ASSUME NEW q \in Procs, NEW i \in DOMAIN saves'[q] PROVE saves'[q][i] \in S
    BY <2>1, <2>2, <2>3 DEF HeldIn
  <2> QED
    BY <1>3, <2>3 DEF HeldIn
<1> QED
  BY <1>4, <1>5

\* A job that may not leave is in everything that is held.
LEMMA KeptNext == TypeInv /\ FileInv /\ KeptInv /\ [Next]_vars => KeptInv'
<1> SUFFICES ASSUME TypeInv, FileInv, KeptInv, [Next]_vars, Apart', ~Gone'
             PROVE  HeldIn(There)'
  BY DEF KeptInv, There
<1>1. ~Gone
  BY GoneStays
<1>2. Apart => HeldIn(There)
  BY <1>1 DEF KeptInv
<1>3. ASSUME NEW p \in Procs, NEW copies \in Lists, LoadStep(p, copies),
             Loaded.exists => \A j \in Copies : copies = <<j>> => j.exists
      PROVE  HeldIn(There)'
  <2>1. Apart /\ file \in Copies /\ file # Torn /\ Stored = file
    BY <1>3, LoadAlone
  <2>2. file \in There
    BY <1>2, <2>1 DEF HeldIn
  <2>3. Loaded \in There
    BY <2>1, <2>2, IdleType DEF Loaded, There
  <2>4. \A j \in Copies : copies = <<j>> => j \in There
    BY <1>3, <2>3 DEF There
  <2> QED
    BY <1>3, <2>2, <2>3, <2>4, LoadHolds
<1>4. Runs \subseteq Procs /\ Hosts \subseteq Procs
  BY DEF Procs
<1>5. ASSUME NEW r \in Runs, Wake(r) PROVE HeldIn(There)'
  <2>1. \A j \in Copies : <<Loaded>> = <<j>> => j = Loaded
    OBVIOUS
  <2> QED
    BY <1>3, <1>4, <1>5, <2>1, WakeLoads
<1>6. ASSUME NEW r \in Runs, NEW mode \in {"due", "manual", "force"}, Prepare(r, mode)
      PROVE  HeldIn(There)'
  <2>1. MarkedBy(r).exists = Loaded.exists
    BY CopyTypes
  <2>2. \A j \in Copies : /\ <<>> # <<j>> /\ (<<Loaded>> = <<j>> => j = Loaded)
                          /\ <<MarkedBy(r)>> = <<j>> => j = MarkedBy(r)
    OBVIOUS
  <2> QED
    BY <1>3, <1>4, <1>6, <2>1, <2>2, PrepareLoads
<1>7. ASSUME NEW r \in Runs, Finalize(r) PROVE HeldIn(There)'
  <2>1. /\ end[r].status # "none"
        /\ Loaded.exists /\ end[r].status = "succeeded" =>
             [trigger |-> Loaded.trigger, remove |-> Loaded.policy.remove] \in won'
    BY <1>7 DEF Finalize
  <2>2. ASSUME Loaded.exists, end[r].status = "succeeded", DeletesAfterSuccess(Loaded)
        PROVE  FALSE
    <3> DEFINE w == [trigger |-> Loaded.trigger, remove |-> Loaded.policy.remove]
    <3>1. w \in won' /\ w.trigger = Loaded.trigger /\ w.remove = Loaded.policy.remove
      BY <2>1, <2>2
    <3> HIDE DEF w
    <3> QED
      BY <2>2, <3>1 DEF Gone, DeletesAfterSuccess
  <2>3. Loaded.exists => Outcome(r).exists
    BY <2>1, <2>2, OutcomeType
  <2>4. \A j \in Copies : <<Outcome(r)>> = <<j>> => j = Outcome(r)
    OBVIOUS
  <2> QED
    BY <1>3, <1>4, <1>7, <2>3, <2>4, FinalizeLoads
<1>8. ASSUME NEW h \in Hosts, List(h) \/ CancelRun(h) PROVE HeldIn(There)'
  <2>1. \A j \in Copies : <<>> # <<j>>
    OBVIOUS
  <2> QED
    BY <1>3, <1>4, <1>8, <2>1, ListLoads, CancelLoads
<1>9. ASSUME NEW h \in Hosts, NEW b \in BOOLEAN, NEW trigger \in Triggers,
             NEW policy \in Policies, Update(h, b, trigger, policy)
      PROVE  HeldIn(There)'
  <2> DEFINE k == Patched(b, trigger, policy)
  <2>1. k.exists = Loaded.exists
    BY CopyTypes
  <2>2. LoadStep(h, <<k>>) /\ <<k>> \in Lists
    BY <1>9, UpdateLoads
  <2> HIDE DEF k
  <2>3. \A j \in Copies : <<k>> = <<j>> => j = k
    OBVIOUS
  <2> QED
    BY <1>3, <1>4, <2>1, <2>2, <2>3
<1>10. ASSUME NEW h \in Hosts, Delete(h) PROVE HeldIn(There)'
  BY <1>10, DeleteLoads DEF Gone
<1>11. ASSUME NEW h \in Hosts, CancelClears(h) PROVE HeldIn(There)'
  <2>1. PICK k \in Copies : LoadStep(h, <<k>>) /\ (Loaded.exists => k.exists)
    BY <1>11, ClearsLoads
  <2>2. <<k>> \in Lists /\ \A j \in Copies : <<k>> = <<j>> => j = k
    BY DEF Lists
  <2> QED
    BY <1>3, <1>4, <2>1, <2>2
<1>12. ASSUME NEW p \in Procs, Truncate(p) PROVE HeldIn(There)'
  <2>1. saves[p] # <<>> /\ saves' = saves /\ file' = Torn /\ excuses' = excuses
    BY <1>12 DEF Truncate
  <2> QED
    BY <1>2, <2>1, WriteHolds DEF Apart
<1>13. ASSUME NEW p \in Procs, Fill(p) PROVE HeldIn(There)'
  <2>1. excuses' = excuses /\ saves[p] # <<>> /\ Head(saves[p]) = saves[p][1]
    BY <1>13, FillTakes, TailTakes DEF Fill
  <2>2. saves' = [saves EXCEPT ![p] = Tail(@)] /\ file' \in {Torn, saves[p][1]}
    BY <1>13, <2>1, FillTakes DEF Fill
  <2> QED
    BY <1>2, <2>1, <2>2, WriteHolds DEF Apart
<1>14. ASSUME NEW p \in Procs, SaveFails(p) PROVE HeldIn(There)'
  <2>1. /\ excuses \subseteq excuses' /\ saves[p] # <<>> /\ file' \in {file, Torn}
        /\ saves' = [saves EXCEPT ![p] = Tail(@)]
    BY <1>14 DEF SaveFails
  <2> QED
    BY <1>2, <2>1, WriteHolds DEF Apart
<1>15. CASE Crash
  <2>1. /\ excuses \subseteq excuses' /\ file' = file /\ saves' = [p \in Procs |-> <<>>]
    BY <1>15 DEF Crash
  <2>2. DOMAIN <<>> = {}
    OBVIOUS
  <2> QED
    BY <1>2, <2>1, <2>2 DEF HeldIn, Apart
<1>16. ASSUME UNCHANGED <<file, saves, excuses>> PROVE HeldIn(There)'
  BY <1>2, <1>16 DEF HeldIn, Apart, There
<1>17. CASE Tick \/ UNCHANGED vars
  BY <1>16, <1>17 DEF Tick, vars
<1>18. ASSUME NEW r \in Runs, RunStep(r) PROVE HeldIn(There)'
  <2>1. ASSUME NEW status, RunEnds(r, status) PROVE HeldIn(There)'
    BY <1>16, <2>1 DEF RunEnds
  <2> QED
    BY <1>5, <1>6, <1>7, <1>18, <2>1 DEF RunStep
<1>19. ASSUME NEW h \in Hosts, HostStep(h) PROVE HeldIn(There)'
  BY <1>8, <1>9, <1>10, <1>11, <1>19 DEF HostStep
<1> QED
  BY <1>12, <1>13, <1>14, <1>15, <1>17, <1>18, <1>19 DEF Next

\* A load of a job that nothing excuses finds no run expired that is live, the mark of
\* that run, and a job that is spent disabled.
LEMMA QuietLoad ==
  ASSUME TypeInv, FileInv, MarkInv, NEW p \in Procs, NEW copies \in Lists,
         LoadStep(p, copies), excuses' = {}, LiveExpired \subseteq excuses'
  PROVE  /\ excuses = {} /\ Apart'
         /\ \A r \in Runs : Live(r) \/ (ExpiryLogged[r].status = "running" /\ r \notin unsaved)
              => /\ ~Expired /\ Loaded.running = r
                 /\ file \in MarkedWith(r) /\ Loaded \in MarkedWith(r)
         /\ spent # {} => /\ file \in Disabled /\ Loaded \in Disabled
                          /\ \A q \in Runs : ~Live(q)
<1>1. excuses = {} /\ Apart'
  BY DEF LoadStep, Apart
<1>2. /\ file \in Copies /\ file # Torn /\ Stored = file
      /\ \A q \in Procs : saves[q] = <<>>
  BY <1>1, LoadAlone
<1>3. ASSUME NEW r \in Runs, NEW S, Sees(r, S) PROVE file \in S
  BY <1>2, <1>3 DEF Sees, HeldIn, Procs
<1>4. ASSUME NEW r \in Runs, Live(r) \/ (log[r].status = "running" /\ r \notin unsaved)
      PROVE  file \in MarkedWith(r) /\ file.running = r
  BY <1>1, <1>3, <1>4 DEF MarkInv, MarkedWith
<1>5. ASSUME NEW r \in Runs, Live(r) \/ (ExpiryLogged[r].status = "running" /\ r \notin unsaved)
      PROVE  ~Expired
  <2> SUFFICES ASSUME Expired PROVE FALSE
    OBVIOUS
  <2>1. CASE Live(r)
    <3>1. Live(Stored.running)
      BY <1>2, <1>4, <2>1
    <3> QED
      BY <3>1 DEF LiveExpired
  <2>2. CASE ExpiryLogged[r].status = "running" /\ r \notin unsaved
    <3>1. r # Stored.running /\ ExpiryLogged[r] = log[r]
      BY <2>2, ExpiryType
    <3> QED
      BY <1>2, <1>4, <2>2, <3>1
  <2> QED
    BY <1>5, <2>1, <2>2
<1>6. ASSUME NEW r \in Runs, Live(r) \/ (ExpiryLogged[r].status = "running" /\ r \notin unsaved)
      PROVE  /\ ~Expired /\ Loaded.running = r
             /\ file \in MarkedWith(r) /\ Loaded \in MarkedWith(r)
  <2>1. ~Expired
    BY <1>5, <1>6
  <2>2. Live(r) \/ (log[r].status = "running" /\ r \notin unsaved)
    BY <1>6, <2>1, ExpiryType
  <2>3. Loaded = file
    BY <1>2, <2>1 DEF Loaded
  <2> QED
    BY <1>4, <2>1, <2>2, <2>3
<1>7. ASSUME spent # {}
      PROVE  /\ file \in Disabled /\ Loaded \in Disabled
             /\ \A q \in Runs : ~Live(q)
  <2>1. PICK r \in spent : r \in Runs
    BY <1>7 DEF TypeInv, TypeOK
  <2>2. file \in Disabled /\ \A q \in Runs : ~Live(q)
    BY <1>1, <1>3, <2>1 DEF MarkInv
  <2> QED
    BY <1>2, <2>2, IdleType DEF Loaded, Disabled
<1> QED
  BY <1>1, <1>6, <1>7

\* The copy a call saves last is what its run sees.
LEMMA LastSeen ==
  ASSUME TypeInv, NEW p \in Procs, NEW copies \in Lists, LoadStep(p, copies),
         NEW j \in Copies, copies = <<j>>, NEW S, j \in S
  PROVE  Sees(p, S)'
BY LoadSaves DEF Sees

\* What a run sees it still sees when a call truncates, ...
LEMMA TruncateKeeps ==
  ASSUME TypeInv, NEW p \in Procs, Truncate(p), NEW r \in Procs, NEW S, Sees(r, S)
  PROVE  Sees(r, S)'
<1>1. saves[p] # <<>> /\ saves' = saves /\ file' = Torn
  BY DEF Truncate
<1>2. HeldIn(S) => HeldIn(S)'
  BY <1>1, WriteHolds
<1> QED
  BY <1>1, <1>2 DEF Sees

\* ... when it fills the file with what it saves, ...
LEMMA FillKeeps ==
  ASSUME TypeInv, FileInv, Apart, NEW p \in Procs, Fill(p), NEW r \in Procs, NEW S,
         Sees(r, S)
  PROVE  Sees(r, S)'
<1>1. /\ saves[p] # <<>> /\ saves' = [saves EXCEPT ![p] = Tail(@)] /\ cut[p]
      /\ file = Torn /\ file' = saves[p][1]
  BY FillTakes DEF Fill, FileInv
<1>2. /\ Len(saves[p]) \in {1, 2}
      /\ \A q \in Procs \ {p} : saves[q] = <<>> /\ saves'[q] = <<>>
      /\ \/ Len(saves[p]) = 1 /\ saves'[p] = <<>>
         \/ Len(saves[p]) = 2 /\ saves'[p] # <<>> /\ Len(saves'[p]) = 1
            /\ saves'[p][1] = saves[p][2]
  BY <1>1, TailTakes DEF FileInv
<1>3. CASE r # p
  <2>1. HeldIn(S) /\ saves'[r] = <<>>
    BY <1>2, <1>3 DEF Sees
  <2>2. HeldIn(S)'
    BY <1>1, <2>1, WriteHolds
  <2> QED
    BY <2>1, <2>2 DEF Sees
<1>4. CASE r = p /\ Len(saves[p]) = 1
  <2>1. saves[p][1] \in S
    BY <1>1, <1>4 DEF Sees
  <2>2. \A q \in Procs : saves'[q] = <<>>
    BY <1>2, <1>4
  <2>3. DOMAIN <<>> = {}
    OBVIOUS
  <2> QED
    BY <1>1, <2>1, <2>2, <2>3 DEF Sees, HeldIn
<1>5. CASE r = p /\ Len(saves[p]) = 2
  BY <1>1, <1>2, <1>5 DEF Sees
<1> QED
  BY <1>2, <1>3, <1>4, <1>5

\* ... and when a save fails that is not its last.
LEMMA FailKeeps ==
  ASSUME TypeInv, NEW p \in Procs, SaveFails(p), NEW r \in Procs, NEW S, Sees(r, S),
         ~(r = p /\ Len(saves[p]) = 1)
  PROVE  Sees(r, S)'
<1>1. saves[p] # <<>> /\ saves' = [saves EXCEPT ![p] = Tail(@)] /\ file' \in {file, Torn}
  BY DEF SaveFails
<1>2. HeldIn(S) => HeldIn(S)'
  BY <1>1, WriteHolds
<1>3. CASE r # p
  <2>1. saves'[r] = saves[r]
    BY <1>1, <1>3, TailTakes
  <2> QED
    BY <1>2, <2>1 DEF Sees
<1>4. CASE r = p /\ Len(saves[p]) = 2
  <2>1. saves'[p] # <<>> /\ Len(saves'[p]) = 1 /\ saves'[p][1] = saves[p][2]
    BY <1>1, <1>4, TailTakes
  <2> QED
    BY <1>1, <1>4, <2>1 DEF Sees
<1> QED
  BY <1>1, <1>3, <1>4, TailTakes

\* The mark follows the run that is live.
LEMMA MarkNext == TypeInv /\ EndInv /\ FileInv /\ MarkInv /\ [Next]_vars => MarkInv'
<1> SUFFICES ASSUME TypeInv, EndInv, FileInv, MarkInv, [Next]_vars, excuses' = {}
             PROVE  MarkInv'
  BY DEF MarkInv
<1>1. /\ now \in Nat /\ log \in Logs /\ ExpiryLogged \in Logs
      /\ pc \in [Runs -> {"idle", "woken", "live", "done", "lost"}]
      /\ Runs \subseteq Procs /\ Hosts \subseteq Procs /\ spent \subseteq Runs
  BY ExpiryType DEF TypeInv, TypeOK, Logs, Procs
\* A call that keeps the mark, and neither starts a run nor enables the job.
<1>2. ASSUME NEW p \in Procs, NEW copies \in Lists, LoadStep(p, copies),
             LiveExpired \subseteq excuses',
             \A j \in Copies : copies = <<j>> =>
               /\ j.running = Loaded.running
               /\ spent' # {} /\ ~Loaded.enabled => ~j.enabled,
             \A r \in Runs : Live(r)' => Live(r),
             \A r \in Runs : log'[r].status = "running" => log'[r] = ExpiryLogged[r],
             spent' \subseteq spent
      PROVE  MarkInv'
  <2>1. unsaved' = unsaved /\ Apart'
    BY <1>2, QuietLoad DEF LoadStep
  <2>2. ASSUME NEW r \in Runs, Live(r)' \/ (log'[r].status = "running" /\ r \notin unsaved')
        PROVE  Sees(r, MarkedWith(r))'
    <3>1. Live(r) \/ (ExpiryLogged[r].status = "running" /\ r \notin unsaved)
      BY <1>2, <2>1, <2>2
    <3>2. /\ Loaded.running = r /\ file \in MarkedWith(r) /\ Loaded \in MarkedWith(r)
      BY <1>2, <3>1, QuietLoad
    <3>3. \A j \in Copies : copies = <<j>> => j \in MarkedWith(r)
      BY <1>2, <3>2 DEF MarkedWith
    <3>4. ASSUME NEW S, file \in S, Loaded \in S,
                 \A j \in Copies : copies = <<j>> => j \in S
          PROVE  Sees(r, S)'
      BY <1>1, <1>2, <2>1, <3>4, LoadHolds
    <3> QED
      BY <3>2, <3>3, <3>4 DEF MarkedWith
  <2>3. ASSUME NEW r \in spent'
        PROVE  Sees(r, Disabled)' /\ \A q \in Runs : ~Live(q)'
    <3>1. /\ spent # {} /\ file \in Disabled /\ Loaded \in Disabled
          /\ \A q \in Runs : ~Live(q)
      BY <1>2, <2>3, QuietLoad
    <3>2. \A j \in Copies : copies = <<j>> => j \in Disabled
      BY <1>2, <2>3, <3>1 DEF Disabled
    <3>3. \A q \in Procs : Sees(q, Disabled)'
      BY <1>2, <2>1, <3>1, <3>2, LoadHolds
    <3> QED
      BY <1>1, <1>2, <3>1, <3>3
  <2> QED
    BY <2>2, <2>3 DEF MarkInv
<1>3. ASSUME NEW r \in Runs, Wake(r) PROVE MarkInv'
  <2>1. /\ LiveExpired \subseteq excuses' /\ log' = ExpiryLogged /\ spent' = spent
        /\ \A q \in Runs : Live(q)' => Live(q)
    BY <1>1, <1>3 DEF Wake, Live, truth
  <2>2. LoadStep(r, <<Loaded>>) /\ <<Loaded>> \in Lists
    BY <1>3, WakeLoads
  <2>3. \A j \in Copies : <<Loaded>> = <<j>> => j = Loaded
    OBVIOUS
  <2> QED
    BY <1>1, <1>2, <2>1, <2>2, <2>3
<1>4. ASSUME NEW r \in Runs, NEW mode \in {"due", "manual", "force"}, Prepare(r, mode)
      PROVE  MarkInv'
  <2>1. /\ LiveExpired \subseteq excuses' /\ mode # "force" /\ spent' = spent
    BY <1>4 DEF Prepare, truth
  <2>2. \A status \in {"skipped", "running"} :
          /\ \A q \in Runs \ {r} : Record(ExpiryLogged, r, status, now)[q] = ExpiryLogged[q]
          /\ \/ Record(ExpiryLogged, r, status, now)[r] = ExpiryLogged[r]
             \/ Record(ExpiryLogged, r, status, now)[r].status = status
    BY <1>1 DEF Record, Logs
  <2>3. CASE /\ LoadStep(r, <<>>) /\ log' = ExpiryLogged
             /\ pc' = [pc EXCEPT ![r] = "done"]
    <3>1. <<>> \in Lists /\ \A j \in Copies : <<>> # <<j>>
      BY DEF Lists
    <3>2. \A q \in Runs : Live(q)' => Live(q)
      BY <1>1, <2>3 DEF Live
    <3> QED
      BY <1>1, <1>2, <2>1, <2>3, <3>1, <3>2
  <2>4. CASE /\ LoadStep(r, <<Loaded>>) /\ log' = Record(ExpiryLogged, r, "skipped", now)
             /\ pc' = [pc EXCEPT ![r] = "done"]
    <3>1. <<Loaded>> \in Lists /\ \A j \in Copies : <<Loaded>> = <<j>> => j = Loaded
      BY LoadedType DEF Lists
    <3>2. \A q \in Runs : Live(q)' => Live(q)
      BY <1>1, <2>4 DEF Live
    <3>3. \A q \in Runs : log'[q].status = "running" => log'[q] = ExpiryLogged[q]
      BY <2>2, <2>4
    <3> QED
      BY <1>1, <1>2, <2>1, <2>4, <3>1, <3>2, <3>3
  <2>5. CASE /\ Loaded.exists /\ ~Refused(mode) /\ LoadStep(r, <<MarkedBy(r)>>)
             /\ log' = Record(ExpiryLogged, r, "running", now)
             /\ pc' = [pc EXCEPT ![r] = "live"]
    <3>1. Loaded.running = NoRun /\ Loaded.enabled
      BY <2>1, <2>5 DEF Refused
    <3>2. <<MarkedBy(r)>> \in Lists /\ MarkedBy(r) \in MarkedWith(r) /\ MarkedBy(r) \in Copies
      BY CopyTypes DEF Lists, MarkedWith
    <3>3. NoRun \notin Runs
      BY AutomationAssumption DEF NoRun
    <3>4. \A q \in Runs : ~Live(q) /\ (ExpiryLogged[q].status = "running" => q \in unsaved)
      BY <1>1, <2>1, <2>5, <3>1, <3>2, <3>3, QuietLoad
    <3>5. spent' = {}
      BY <1>1, <2>1, <2>5, <3>1, <3>2, QuietLoad DEF Disabled
    <3>6. unsaved' = unsaved
      BY <2>5 DEF LoadStep
    <3>7. \A q \in Runs : Live(q)' \/ (log'[q].status = "running" /\ q \notin unsaved')
                            => q = r
      BY <1>1, <2>2, <2>5, <3>4, <3>6 DEF Live
    <3>8. Sees(r, MarkedWith(r))'
      <4>1. \A S : MarkedBy(r) \in S => Sees(r, S)'
        BY <1>1, <2>5, <3>2, LastSeen
      <4> QED
        BY <3>2, <4>1 DEF MarkedWith
    <3> QED
      BY <3>5, <3>7, <3>8 DEF MarkInv
  <2> QED
    BY <1>4, <2>3, <2>4, <2>5, PrepareLoads
<1>5. ASSUME NEW r \in Runs, Finalize(r) PROVE MarkInv'
  <2>1. /\ Live(r) /\ end[r].status # "none" /\ LiveExpired \subseteq excuses'
        /\ log' = Record(ExpiryLogged, r, end[r].status, end[r].at)
        /\ pc' = [pc EXCEPT ![r] = "done"] /\ unsaved' = unsaved
        /\ \/ spent' = spent
           \/ /\ spent' = spent \cup {r} /\ end[r].status = "succeeded"
              /\ Loaded.trigger = "oneShot"
    BY <1>5 DEF Finalize
  <2>2. LoadStep(r, <<Outcome(r)>>) /\ <<Outcome(r)>> \in Lists
    BY <1>5, FinalizeLoads
  <2>3. ~Expired /\ Loaded.running = r /\ spent = {}
    BY <1>1, <2>1, <2>2, QuietLoad
  <2>4. \A q \in Runs \ {r} :
          ~Live(q) /\ (ExpiryLogged[q].status = "running" => q \in unsaved)
    BY <1>1, <2>1, <2>2, <2>3, QuietLoad
  <2>5. /\ end[r].status \in {"succeeded", "failed", "cancelled"} /\ end[r].at \in 0 .. now
        /\ Outcome(r) \in Copies
        /\ end[r].status = "succeeded" /\ Loaded.trigger = "oneShot" => ~Outcome(r).enabled
    BY <2>1, OutcomeType
  <2>6. /\ \A q \in Runs \ {r} : log'[q] = ExpiryLogged[q]
        /\ \/ log'[r] = ExpiryLogged[r] /\ ~(end[r].at >= ExpiryLogged[r].at)
           \/ log'[r].status = end[r].status
    BY <1>1, <2>1, <2>5 DEF Record, Logs
  <2>7. log'[r].status # "running"
    <3>1. ExpiryLogged[r] = log[r]
      BY <2>3, ExpiryType
    <3>2. log[r].status = "running" => log[r].at <= end[r].at
      BY <2>1 DEF EndInv
    <3>3. log[r].at \in Nat /\ end[r].at \in Nat
      BY <1>1, <2>5 DEF Logs
    <3> QED
      BY <2>5, <2>6, <3>1, <3>2, <3>3
  <2>8. \A q \in Runs : ~Live(q)' /\ (log'[q].status = "running" => q \in unsaved')
    BY <1>1, <2>1, <2>4, <2>6, <2>7 DEF Live
  <2>9. ASSUME NEW q \in spent' PROVE Sees(q, Disabled)'
    <3>1. q = r /\ Outcome(r) \in Disabled
      BY <2>1, <2>3, <2>5, <2>9 DEF Disabled
    <3> QED
      BY <1>1, <2>2, <2>5, <3>1, LastSeen
  <2> QED
    BY <2>8, <2>9 DEF MarkInv
<1>6. ASSUME NEW h \in Hosts, List(h) PROVE MarkInv'
  <2>1. /\ LiveExpired \subseteq excuses' /\ log' = ExpiryLogged /\ spent' = spent
        /\ \A q \in Runs : Live(q)' => Live(q)
    BY <1>6 DEF List, Live, truth
  <2>2. LoadStep(h, <<>>) /\ <<>> \in Lists /\ \A j \in Copies : <<>> # <<j>>
    BY <1>6, ListLoads
  <2> QED
    BY <1>1, <1>2, <2>1, <2>2
<1>7. ASSUME NEW h \in Hosts, NEW b \in BOOLEAN, NEW trigger \in Triggers,
             NEW policy \in Policies, Update(h, b, trigger, policy)
      PROVE  MarkInv'
  <2> DEFINE k == Patched(b, trigger, policy)
  <2>1. /\ LiveExpired \subseteq excuses' /\ log' = ExpiryLogged
        /\ spent' = IF b THEN {} ELSE spent
        /\ \A q \in Runs : Live(q)' => Live(q)
    BY <1>7 DEF Update, Live
  <2>2. LoadStep(h, <<k>>) /\ <<k>> \in Lists
    BY <1>7, UpdateLoads
  <2>3. k.running = Loaded.running /\ k.enabled = b
    BY CopyTypes
  <2> HIDE DEF k
  <2>4. \A j \in Copies : <<k>> = <<j>> => j = k
    OBVIOUS
  <2> QED
    BY <1>1, <1>2, <2>1, <2>2, <2>3, <2>4
\* The others are excuses, or come after one.
<1>8. ASSUME NEW h \in Hosts, Delete(h) \/ CancelRun(h) \/ CancelClears(h) PROVE FALSE
  <2>1. CASE Delete(h) \/ CancelRun(h)
    BY <2>1, DeleteLoads, CancelLoads
  <2>2. CASE CancelClears(h)
    BY <2>2 DEF CancelClears, EndInv
  <2> QED
    BY <1>8, <2>1, <2>2
\* A step that only writes the file, or fails to.
<1>9. ASSUME excuses = {}, log' = log, unsaved \subseteq unsaved', spent' \subseteq spent,
             \A r \in Runs : Live(r)' => Live(r),
             \A r \in Runs : \A S : Sees(r, S) =>
               \/ Sees(r, S)'
               \/ /\ ~Live(r)' /\ r \notin spent'
                  /\ log[r].status = "running" => r \in unsaved'
      PROVE  MarkInv'
  <2>1. ASSUME NEW r \in Runs, Live(r)' \/ (log'[r].status = "running" /\ r \notin unsaved')
        PROVE  Sees(r, MarkedWith(r))'
    <3>1. Sees(r, MarkedWith(r))
      BY <1>9, <2>1 DEF MarkInv
    <3> QED
      BY <1>9, <2>1, <3>1 DEF MarkedWith
  <2>2. ASSUME NEW r \in spent' PROVE Sees(r, Disabled)' /\ \A q \in Runs : ~Live(q)'
    BY <1>1, <1>9, <2>2 DEF MarkInv
  <2> QED
    BY <2>1, <2>2 DEF MarkInv
<1>10. ASSUME NEW p \in Procs, Truncate(p) PROVE MarkInv'
  <2>1. UNCHANGED <<pc, log, excuses, spent, unsaved>>
    BY <1>10 DEF Truncate, truth
  <2>2. \A r \in Runs : \A S : Sees(r, S) => Sees(r, S)'
    BY <1>1, <1>10, TruncateKeeps
  <2> QED
    BY <1>9, <2>1, <2>2 DEF Live
<1>11. ASSUME NEW p \in Procs, Fill(p) PROVE MarkInv'
  <2>1. UNCHANGED <<pc, log, excuses, spent, unsaved>> /\ Apart
    BY <1>11 DEF Fill, truth, Apart
  <2>2. \A r \in Runs : \A S : Sees(r, S) => Sees(r, S)'
    BY <1>1, <1>11, <2>1, FillKeeps
  <2> QED
    BY <1>9, <2>1, <2>2 DEF Live
\* Only a run that is live or has ended saves something while the log calls it running.
<1>12. ASSUME NEW r \in Runs, saves[r] # <<>>,
              Live(r) \/ r \in spent \/ (log[r].status = "running" /\ r \notin unsaved)
       PROVE  r \in Unsaved
  <2>1. CASE Live(r) \/ r \in spent
    BY <1>12, <2>1 DEF Unsaved, EndInv
  <2>2. CASE log[r].status = "running" /\ r \notin unsaved
    <3>1. pc[r] \notin {"idle", "woken", "lost"}
      BY <1>12, <2>2 DEF EndInv
    <3>2. pc[r] = "done" => end[r].status # "none"
      BY <2>2 DEF EndInv
    <3>3. pc[r] \in {"live", "done"}
      BY <1>1, <3>1
    <3> QED
      BY <1>12, <3>2, <3>3 DEF Unsaved, Live
  <2> QED
    BY <1>12, <2>1, <2>2
<1>13. ASSUME NEW p \in Procs, SaveFails(p) PROVE MarkInv'
  <2> DEFINE own == {p} \cap Unsaved \cap {r \in Runs : Len(saves[r]) = 1}
  <2>1. /\ pc' = [r \in Runs |-> IF r \in own THEN "done" ELSE pc[r]]
        /\ unsaved' = unsaved \cup own /\ spent' = spent \ own
        /\ log' = log /\ excuses \subseteq excuses' /\ saves[p] # <<>>
    BY <1>13 DEF SaveFails
  <2>2. p \in Runs /\ Len(saves[p]) = 1 /\ p \in Unsaved => p \in own
    OBVIOUS
  <2> HIDE DEF own
  <2>3. \A r \in Runs : Live(r)' => Live(r) /\ r \notin own
    BY <1>1, <2>1 DEF Live
  <2>4. ASSUME NEW r \in Runs, NEW S, Sees(r, S)
        PROVE  \/ Sees(r, S)'
               \/ /\ ~Live(r)' /\ r \notin spent'
                  /\ log[r].status = "running" => r \in unsaved'
    <3>1. CASE ~(r = p /\ Len(saves[p]) = 1)
      BY <1>1, <1>13, <2>4, <3>1, FailKeeps
    <3>2. CASE r = p /\ Len(saves[p]) = 1
      BY <1>12, <2>1, <2>2, <2>3, <3>2
    <3> QED
      BY <3>1, <3>2
  <2> QED
    BY <1>9, <2>1, <2>3, <2>4
<1>14. CASE Crash
  <2>1. /\ pc' = [r \in Runs |-> IF pc[r] \in {"live", "woken"} THEN "lost" ELSE pc[r]]
        /\ log' = log /\ excuses \subseteq excuses' /\ file' = file
        /\ saves' = [p \in Procs |-> <<>>]
        /\ unsaved' = unsaved \cup Unsaved /\ spent' = spent \ Unsaved
    BY <1>14 DEF Crash
  <2>2. \A r \in Runs : ~Live(r)'
    BY <1>1, <2>1 DEF Live
  <2>3. ASSUME NEW r \in Runs, NEW S, Sees(r, S)
        PROVE  \/ Sees(r, S)'
               \/ /\ ~Live(r)' /\ r \notin spent'
                  /\ log[r].status = "running" => r \in unsaved'
    <3>1. CASE saves[r] = <<>>
      <4>1. DOMAIN <<>> = {} /\ r \in Procs /\ \A q \in Procs : saves'[q] = <<>>
        BY <1>1, <2>1
      <4>2. HeldIn(S)
        BY <2>3, <3>1 DEF Sees
      <4>3. HeldIn(S)'
        BY <2>1, <4>1, <4>2 DEF HeldIn
      <4> QED
        BY <4>1, <4>3 DEF Sees
    <3>2. CASE saves[r] # <<>>
      BY <1>12, <2>1, <2>2, <3>2
    <3> QED
      BY <3>1, <3>2
  <2> QED
    BY <1>9, <2>1, <2>2, <2>3
<1>15. ASSUME UNCHANGED <<file, saves, pc, log, excuses, spent, unsaved>> PROVE MarkInv'
  <2>1. \A r \in Runs : \A S : Sees(r, S) => Sees(r, S)'
    BY <1>15 DEF Sees, HeldIn
  <2> QED
    BY <1>9, <1>15, <2>1 DEF Live
<1>16. CASE Tick \/ UNCHANGED vars
  BY <1>15, <1>16 DEF Tick, vars, truth
<1>17. ASSUME NEW r \in Runs, RunStep(r) PROVE MarkInv'
  <2>1. ASSUME NEW status, RunEnds(r, status) PROVE MarkInv'
    BY <1>15, <2>1 DEF RunEnds, truth
  <2> QED
    BY <1>3, <1>4, <1>5, <1>17, <2>1 DEF RunStep
<1>18. ASSUME NEW h \in Hosts, HostStep(h) PROVE MarkInv'
  BY <1>6, <1>7, <1>8, <1>18 DEF HostStep
<1> QED
  BY <1>10, <1>11, <1>13, <1>14, <1>16, <1>17, <1>18 DEF Next

-----------------------------------------------------------------------------
(* Theorems *)

\* All of it.
AutomationInv == TypeInv /\ EndInv /\ FileInv /\ KeptInv /\ MarkInv

\* A job that was just created is at none of its runs.
LEMMA InitAutomation == Init => AutomationInv
<1> SUFFICES ASSUME Init PROVE AutomationInv
  OBVIOUS
<1>1. TypeInv /\ file.exists
  BY InitType
<1>2. /\ saves = [p \in Procs |-> <<>>] /\ cut = [p \in Procs |-> FALSE] /\ excuses = {}
      /\ pc = [r \in Runs |-> "idle"] /\ host = [h \in Hosts |-> NoRun]
      /\ end = [r \in Runs |-> [status |-> "none", at |-> 0]]
      /\ log = [r \in Runs |-> [status |-> "none", at |-> 0]]
      /\ spent = {}
  BY DEF Init
<1>3. file # Torn /\ DOMAIN <<>> = {} /\ file \in Copies
  BY <1>1, TornType DEF TypeInv
<1>4. \A r \in Runs : log[r].status = "none" /\ end[r].status = "none" /\ pc[r] = "idle"
  BY <1>2
<1>5. EndInv /\ FileInv
  BY <1>2, <1>3, <1>4 DEF EndInv, FileInv
<1>6. KeptInv
  BY <1>1, <1>2, <1>3 DEF KeptInv, HeldIn, There
<1>7. MarkInv
  BY <1>2, <1>4 DEF MarkInv, Live
<1> QED
  BY <1>1, <1>5, <1>6, <1>7 DEF AutomationInv

\* The parts are inductive together.
LEMMA AutomationInductive == Spec => []AutomationInv
<1>1. AutomationInv /\ [Next]_vars => AutomationInv'
  BY TypeNext, EndNext, FileNext, KeptNext, MarkNext DEF AutomationInv
<1> QED
  BY <1>1, InitAutomation, PTL DEF Spec

\* The clock, the file, the runs and the log are well typed, for any number of runs
\* and host threads and every policy.
THEOREM TypeCorrect == Spec => []TypeOK
<1>1. AutomationInv => TypeOK
  BY DEF AutomationInv, TypeInv
<1> QED
  BY <1>1, AutomationInductive, PTL

\* A job is at most at one of its runs, and a one-shot that is spent at none, unless
\* calls overlapped on the file, a live run outlived its time, a run was forced or
\* cancelled, the job was deleted or a write cut off (runner.rs:51-94, 376-411).
THEOREM OneRunAlways == Spec => []OneRunAtOnce
<1>1. AutomationInv => OneLiveRun
  <2> SUFFICES ASSUME AutomationInv, excuses = {}, NEW r \in Runs, NEW s \in Runs,
                      Live(r), Live(s), r # s
               PROVE  FALSE
    BY DEF OneLiveRun
  <2>1. Sees(r, MarkedWith(r)) /\ Sees(s, MarkedWith(s)) /\ Apart /\ TypeInv /\ FileInv
    BY DEF AutomationInv, MarkInv, Apart
  <2>2. \A j : ~(j \in MarkedWith(r) /\ j \in MarkedWith(s))
    BY DEF MarkedWith
  <2>3. {r, s} \subseteq Procs
    BY DEF Procs
  <2>4. ASSUME NEW a \in {r, s}, NEW b \in {r, s}, a # b, saves[a] # <<>>
        PROVE  FALSE
    <3>1. saves[b] = <<>>
      BY <2>1, <2>3, <2>4 DEF FileInv
    <3>2. saves[a][Len(saves[a])] \in MarkedWith(a) /\ HeldIn(MarkedWith(b))
      BY <2>1, <2>4, <3>1 DEF Sees
    <3>3. Len(saves[a]) \in DOMAIN saves[a]
      <4>1. saves[a] \in Seq(Copies)
        BY <2>1, <2>3 DEF TypeInv
      <4> QED
        BY <2>4, <4>1, EmptySeq, LenProperties
    <3> QED
      BY <2>2, <2>3, <2>4, <3>2, <3>3 DEF HeldIn
  <2>5. CASE saves[r] = <<>> /\ saves[s] = <<>>
    <3>1. HeldIn(MarkedWith(r)) /\ HeldIn(MarkedWith(s))
      BY <2>1, <2>5 DEF Sees
    <3>2. file = Torn
      BY <2>2, <3>1 DEF HeldIn
    <3>3. PICK p \in Procs : saves[p] # <<>>
      BY <2>1, <3>2 DEF FileInv, TypeInv, TypeOK
    <3>4. 1 \in DOMAIN saves[p]
      <4>1. saves[p] \in Seq(Copies)
        BY <2>1 DEF TypeInv
      <4> QED
        BY <3>3, <4>1, EmptySeq, LenProperties
    <3> QED
      BY <2>2, <3>1, <3>4 DEF HeldIn
  <2> QED
    BY <2>4, <2>5
<1>2. AutomationInv => OneShotOnce
  BY DEF AutomationInv, MarkInv, OneShotOnce
<1> QED
  BY <1>1, <1>2, AutomationInductive, PTL DEF OneRunAtOnce

\* With calls that do not overlap and whole writes the job leaves the store only when it
\* is deleted or a run succeeded under a policy that removes it (store.rs:27-37,
\* runner.rs:404-411).
THEOREM JobKeptAlways == Spec => []JobKept
<1>1. AutomationInv => JobKept
  <2> SUFFICES ASSUME AutomationInv, file = NoJob, Apart, ~Gone PROVE FALSE
    BY DEF JobKept, Apart, Gone
  <2>1. file # Torn /\ file.exists = FALSE
    BY NoJobType, TornType
  <2> QED
    BY <2>1 DEF AutomationInv, KeptInv, HeldIn, There
<1> QED
  BY <1>1, AutomationInductive, PTL

\* A run the log calls running is the one the job is marked with, or is about to be,
\* also after a kill, but for the runs whose start was logged and never saved
\* (store.rs:39-89, runner.rs:115).
THEOREM RunningMarkedAlways == Spec => []RunningIsMarked
<1>1. AutomationInv => RunningIsMarked
  <2> SUFFICES ASSUME AutomationInv, excuses = {}, NEW r \in Runs \ unsaved,
                      log[r].status = "running"
               PROVE  \/ file # Torn /\ file.running = r
                      \/ \E p \in Procs : \E i \in DOMAIN saves[p] : saves[p][i].running = r
    BY DEF RunningIsMarked
  <2>1. Sees(r, MarkedWith(r)) /\ Apart /\ TypeInv /\ FileInv /\ r \in Procs
    BY DEF AutomationInv, MarkInv, Apart, Procs
  <2>2. ASSUME NEW p \in Procs, saves[p] # <<>>
        PROVE  1 \in DOMAIN saves[p] /\ Len(saves[p]) \in DOMAIN saves[p]
    <3>1. saves[p] \in Seq(Copies)
      BY <2>1 DEF TypeInv
    <3> QED
      BY <2>2, <3>1, EmptySeq, LenProperties
  <2>3. CASE saves[r] # <<>>
    <3>1. saves[r][Len(saves[r])].running = r
      BY <2>1, <2>3 DEF Sees, MarkedWith
    <3> QED
      BY <2>1, <2>2, <2>3, <3>1
  <2>4. CASE saves[r] = <<>> /\ file # Torn
    BY <2>1, <2>4 DEF Sees, HeldIn, MarkedWith
  <2>5. CASE saves[r] = <<>> /\ file = Torn
    <3>1. PICK p \in Procs : saves[p] # <<>>
      BY <2>1, <2>5 DEF FileInv, TypeInv, TypeOK
    <3>2. saves[p][1].running = r
      BY <2>1, <2>2, <2>5, <3>1 DEF Sees, HeldIn, MarkedWith
    <3> QED
      BY <2>2, <3>1, <3>2
  <2> QED
    BY <2>3, <2>4, <2>5
<1> QED
  BY <1>1, AutomationInductive, PTL
=============================================================================
