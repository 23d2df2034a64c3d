------------------------- MODULE ChangeSetCaptureProofs -------------------------
(***************************************************************************)
(* Proofs about ChangeSetCapture, for every set of tasks, every list of      *)
(* artifacts and every bound.  The invariant says, for each writer, which of *)
(* the artifacts of its job are rows, files or handles at each of its steps;  *)
(* no other writer touches them, so that the writers can be treated one by    *)
(* one.                                                                      *)
(***************************************************************************)
EXTENDS ChangeSetCapture, TLAPS

Whats == {"policy", "report"} \cup Captures
Jobs == [step : Steps, what : Whats, i : 0 .. Len(Parts), res : Results,
         outer : BOOLEAN]

StoreType ==
  /\ handle \in [Artifacts -> HandleStates]
  /\ temp \in [Artifacts -> BOOLEAN] /\ final \in [Artifacts -> BOOLEAN]
  /\ faults \in 0 .. MaxFaults

TableType ==
  /\ crashes \in 0 .. MaxCrashes
  /\ rows \subseteq Artifacts /\ lock \in Tasks \cup {"free"}
  /\ task \in [Tasks -> {"none", "running", "succeeded", "failed", "cancelled"}]
  /\ cs \in [Tasks -> {"none"} \cup Captures]
  /\ run \in [Tasks -> {"running", "cancelled"}] /\ leased \in [Tasks -> BOOLEAN]

JobType == job \in [Tasks -> Jobs]

\* The artifacts of a job, by their place.
Count(w) == IF w \in Captures THEN Len(Parts) ELSE 1
Nth(t, w, k) == IF w \in Captures THEN <<t, Parts[k]>> ELSE <<t, w>>
Places(t) == 1 .. Count(job[t].what)
The(t, k) == Nth(t, job[t].what, k)
Policy(t) == <<t, "policy">>
Report(t) == <<t, "report">>

\* The steps of a job whose transaction has not been committed.
Failures == {"error", "lost", "unresolved"}
Open == {"stage", "begin", "publish", "linked", "insert", "commit", "abort"}

\* Which step a job can be at, and what it will report.
FormInv(t) ==
  /\ job[t].i \in Places(t)
  /\ job[t].step \in {"start", "drop", "unlink", "agent"} => job[t].what = "policy"
  /\ At(t, "finish") => job[t].what = "report"
  /\ At(t, "insert") => Capturing(t)
  /\ job[t].step \in {"finalize", "reconcile"} => job[t].res \in {"ok", "interrupted"}
  /\ At(t, "abort") => job[t].res \in Failures

\* Which artifacts of a writer have rows.
TableInv(t) ==
  /\ job[t].step \in Open => \A k \in Places(t) : The(t, k) \notin rows
  /\ At(t, "finalize") => \A k \in Places(t) : The(t, k) \in rows
  /\ job[t].what # "policy" \/ job[t].step \in {"start", "agent"} => Policy(t) \in rows
  /\ At(t, "unlink") => Policy(t) \notin rows
  /\ task[t] # "none" => Policy(t) \in rows
  /\ job[t].what = "policy" => Report(t) \notin rows

\* Which files of a job are complete.
FileInv(t) ==
  /\ job[t].step \in {"publish", "linked"} => \A k \in Places(t) : k < job[t].i => Readable(The(t, k))
  /\ job[t].step \in {"insert", "commit"} => \A k \in Places(t) : Readable(The(t, k))

\* A ChangeSet that is not there at all.
Absent(t) ==
  /\ cs[t] = "none"
  /\ \A k \in 1 .. Len(Parts) : <<t, Parts[k]>> \notin rows /\ ~final[<<t, Parts[k]>>]

\* The capture of a writer: absent before it begins, and undone by its abort.
CaptureInv(t) ==
  /\ ~Capturing(t) => Absent(t)
  /\ Capturing(t) =>
       /\ job[t].step \in Open => cs[t] = "none"
       /\ job[t].step \in {"stage", "begin"} => \A k \in Places(t) : ~final[The(t, k)]
       /\ At(t, "publish") => \A k \in Places(t) :
            IF k < job[t].i THEN handle[The(t, k)] = "published" ELSE ~final[The(t, k)]
       /\ At(t, "linked") => \A k \in Places(t) :
            /\ k < job[t].i => handle[The(t, k)] = "published"
            /\ k > job[t].i => ~final[The(t, k)]
       /\ job[t].step \in {"insert", "commit", "reconcile"} =>
            \A k \in Places(t) : handle[The(t, k)] = "published"
       /\ At(t, "abort") => \A k \in Places(t) :
            /\ k <= job[t].i => handle[The(t, k)] \in {"published", "cleanup_required"} \/ ~final[The(t, k)]
            /\ k > job[t].i /\ job[t].res # "unresolved" => ~final[The(t, k)]
       /\ At(t, "finalize") => /\ cs[t] = job[t].what /\ task[t] = Target(job[t].what)
                               /\ \A k \in Places(t) : k < job[t].i => handle[The(t, k)] = "finalized"
       /\ At(t, "done") /\ job[t].res \in {"error", "lost"} => Absent(t)
       /\ At(t, "done") /\ job[t].res \in {"ok", "interrupted"} =>
            /\ cs[t] = job[t].what /\ task[t] = Target(job[t].what)
            /\ \A k \in Places(t) : The(t, k) \in rows /\ handle[The(t, k)] = "finalized"

WriterInv(t) == FormInv(t) /\ TableInv(t) /\ FileInv(t) /\ CaptureInv(t)

StorageInv ==
  /\ StoreType /\ TableType /\ JobType
  /\ RowsReadable
  /\ \A t \in Tasks : WriterInv(t)

-------------------------------------------------------------------------------
(* Facts about artifacts and jobs *)

LEMMA PartFacts ==
  /\ Len(Parts) \in Nat \ {0} /\ DOMAIN Parts = 1 .. Len(Parts)
  /\ \A k \in 1 .. Len(Parts) : Parts[k] \in Names /\ Parts[k] \notin {"policy", "report"}
  /\ \A k, m \in 1 .. Len(Parts) : Parts[k] = Parts[m] => k = m
<1>1. Len(Parts) \in Nat /\ DOMAIN Parts = 1 .. Len(Parts) /\ Parts # <<>>
  BY PartsAssumption
<1>2. Len(Parts) # 0
  BY <1>1, PartsAssumption
<1> QED
  BY <1>1, <1>2, PartsAssumption DEF Names

LEMMA PlaceFacts ==
  ASSUME NEW w \in Whats
  PROVE  /\ Count(w) \in 1 .. Len(Parts)
         /\ \A t \in Tasks, k \in 1 .. Count(w) : Nth(t, w, k) \in Artifacts /\ Nth(t, w, k)[1] = t
         /\ \A t \in Tasks, k, m \in 1 .. Count(w) : Nth(t, w, k) = Nth(t, w, m) => k = m
         /\ \A t \in Tasks, k \in 1 .. Count(w) :
              w \in Captures => Nth(t, w, k) # Policy(t) /\ Nth(t, w, k) # Report(t)
<1>1. CASE w \in Captures
  BY <1>1, PartFacts DEF Count, Nth, Artifacts, Policy, Report
<1>2. CASE w \notin Captures
  <2>1. w \in Names /\ Count(w) = 1
    BY <1>2 DEF Whats, Names, Count
  <2> QED
    BY <1>2, <2>1, PartFacts DEF Nth, Artifacts
<1> QED
  BY <1>1, <1>2

LEMMA JobFields ==
  ASSUME NEW j \in Jobs
  PROVE  j.step \in Steps /\ j.what \in Whats /\ j.i \in 0 .. Len(Parts) /\ j.res \in Results
BY DEF Jobs

LEMMA ItemFacts ==
  ASSUME JobType, NEW t \in Tasks, job[t].i \in Places(t)
  PROVE  /\ Len(Items(t)) = Count(job[t].what)
         /\ Item(t) = The(t, job[t].i) /\ Item(t) \in Artifacts /\ Item(t)[1] = t
         /\ Last(t) <=> job[t].i = Count(job[t].what)
         /\ Ids(t) = {The(t, k) : k \in Places(t)}
         /\ Count(job[t].what) \in 1 .. Len(Parts)
         /\ job[t].what \in Whats
<1>1. job[t].what \in Whats
  BY JobFields DEF JobType
<1>2. /\ DOMAIN Items(t) = Places(t) /\ Len(Items(t)) = Count(job[t].what)
      /\ \A k \in Places(t) : Items(t)[k] = The(t, k)
  <2>1. CASE Capturing(t)
    <3>1. Items(t) = [k \in 1 .. Len(Parts) |-> <<t, Parts[k]>>]
      BY <2>1, PartFacts DEF Items
    <3>2. Len(Items(t)) = Len(Parts)
      BY <3>1, PartFacts
    <3> QED
      BY <2>1, <3>1, <3>2 DEF Capturing, Count, Places, The, Nth
  <2>2. CASE ~Capturing(t)
    <3>1. Items(t) = <<<<t, job[t].what>>>>
      BY <2>2 DEF Items
    <3>2. Len(Items(t)) = 1 /\ DOMAIN Items(t) = 1 .. 1 /\ Items(t)[1] = <<t, job[t].what>>
      BY <3>1
    <3> QED
      BY <2>2, <3>2 DEF Capturing, Count, Places, The, Nth
  <2> QED
    BY <2>1, <2>2
<1>3. Ids(t) = {The(t, k) : k \in Places(t)}
  BY <1>2 DEF Ids
<1>4. The(t, job[t].i) \in Artifacts /\ The(t, job[t].i)[1] = t /\ Count(job[t].what) \in 1 .. Len(Parts)
  BY <1>1, PlaceFacts DEF The, Places
<1> QED
  BY <1>1, <1>2, <1>3, <1>4 DEF Item, Last

\* A step that replaces the job of one writer.
Moves(t) ==
  /\ job' \in [Tasks -> Jobs]
  /\ \A u \in Tasks \ {t} : job'[u] = job[u]

LEMMA GotoFacts ==
  ASSUME JobType, NEW t \in Tasks, NEW s \in Steps, NEW k \in 0 .. Len(Parts), Goto(t, s, k)
  PROVE  /\ Moves(t) /\ job'[t].step = s /\ job'[t].i = k
         /\ job'[t].what = job[t].what /\ job'[t].res = job[t].res
<1> DEFINE j == [job[t] EXCEPT !.step = s, !.i = k]
<1>1. job[t] \in Jobs
  BY DEF JobType
<1>2. j \in Jobs /\ j.step = s /\ j.i = k /\ j.what = job[t].what /\ j.res = job[t].res
  BY <1>1 DEF Jobs
<1>3. job' = [job EXCEPT ![t] = j]
  BY DEF Goto, JobType
<1>4. job' \in [Tasks -> Jobs] /\ job'[t] = j /\ \A u \in Tasks \ {t} : job'[u] = job[u]
  BY <1>2, <1>3 DEF JobType
<1> QED
  BY <1>2, <1>4 DEF Moves

\* A job that goes on at another step, with what it will report.
Turn(t, s, k, x) == job' = [job EXCEPT ![t].step = s, ![t].i = k, ![t].res = x]

LEMMA TurnFacts ==
  ASSUME JobType, NEW t \in Tasks, NEW s \in Steps, NEW k \in 0 .. Len(Parts), NEW x \in Results,
         Turn(t, s, k, x)
  PROVE  /\ Moves(t) /\ job'[t].step = s /\ job'[t].i = k
         /\ job'[t].what = job[t].what /\ job'[t].res = x
<1> DEFINE j == [job[t] EXCEPT !.step = s, !.i = k, !.res = x]
<1>1. job[t] \in Jobs
  BY DEF JobType
<1>2. j \in Jobs /\ j.step = s /\ j.i = k /\ j.what = job[t].what /\ j.res = x
  BY <1>1 DEF Jobs
<1>3. job' = [job EXCEPT ![t] = j]
  BY DEF JobType, Turn
<1>4. job' \in [Tasks -> Jobs] /\ job'[t] = j /\ \A u \in Tasks \ {t} : job'[u] = job[u]
  BY <1>2, <1>3 DEF JobType
<1> QED
  BY <1>2, <1>4 DEF Moves

LEMMA NewJob ==
  ASSUME NEW s \in Steps, NEW w \in Whats
  PROVE  /\ Job(s, w) \in Jobs /\ Job(s, w).step = s /\ Job(s, w).what = w
         /\ Job(s, w).i = 1 /\ Job(s, w).res = "none"
<1>1. 1 \in 0 .. Len(Parts)
  BY PartFacts
<1> QED
  BY <1>1 DEF Job, Jobs, Results

LEMMA AgainJob ==
  /\ Again \in Jobs /\ Again.step = "stage" /\ Again.what = "abandoned"
  /\ Again.i = 1 /\ Again.res = "none"
<1>1. "stage" \in Steps /\ "abandoned" \in Whats
  BY DEF Steps, Whats, Captures
<1>2. PICK j \in Jobs : /\ j = Job("stage", "abandoned") /\ j.step = "stage" /\ j.what = "abandoned"
                        /\ j.i = 1 /\ j.res = "none"
  BY <1>1, NewJob
<1>3. Again = [j EXCEPT !.outer = TRUE]
  BY <1>2 DEF Again
<1> QED
  BY <1>2, <1>3 DEF Jobs

\* What a handler does when a job has ended with x.
LEMMA EndFacts ==
  ASSUME JobType, NEW t \in Tasks, NEW x \in Results, EndJob(t, x)
  PROVE  /\ Moves(t)
         /\ \/ /\ job'[t].step = "done" /\ job'[t].what = job[t].what
               /\ job'[t].i = job[t].i /\ job'[t].res = x
            \/ job[t].what = "policy" /\ x = "ok" /\ job'[t] = Job("start", "policy")
            \/ job[t].what = "report" /\ x = "ok" /\ job'[t] = Job("stage", "captured")
            \/ /\ job[t].what = "report" \/ (job[t].what \in Captures /\ x = "error")
               /\ job'[t] = Again
<1> DEFINE over == [job[t] EXCEPT !.step = "done", !.res = x]
<1>1. job[t] \in Jobs /\ {"done", "start", "stage"} \subseteq Steps
  BY DEF JobType, Steps
<1>2. /\ over \in Jobs /\ over.step = "done" /\ over.what = job[t].what
      /\ over.i = job[t].i /\ over.res = x
  BY <1>1 DEF Jobs
<1>3. \/ Following(t, x) = over
      \/ job[t].what = "policy" /\ x = "ok" /\ Following(t, x) = Job("start", "policy")
      \/ job[t].what = "report" /\ x = "ok" /\ Following(t, x) = Job("stage", "captured")
      \/ /\ job[t].what = "report" \/ (job[t].what \in Captures /\ x = "error")
         /\ Following(t, x) = Again
  <2> HIDE DEF over
  <2>0. job[t].what \in Whats
    BY <1>1, JobFields
  <2>1. CASE job[t].what = "policy"
    BY <2>1 DEF Following, over
  <2>2. CASE job[t].what = "report" /\ x = "ok"
    BY <2>2 DEF Following, over
  <2>3. CASE job[t].what = "report" /\ x # "ok"
    BY <2>3 DEF Following, over
  <2>4. CASE job[t].what \in Captures /\ x = "error"
    BY <2>4 DEF Following, over, Captures
  <2>5. CASE job[t].what \in Captures /\ x # "error"
    BY <2>5 DEF Following, over, Captures
  <2> QED
    BY <2>0, <2>1, <2>2, <2>3, <2>4, <2>5 DEF Whats, Captures
<1>4. Following(t, x) \in Jobs
  BY <1>1, <1>2, <1>3, NewJob, AgainJob DEF Whats, Captures
<1>5. job' \in [Tasks -> Jobs] /\ job'[t] = Following(t, x) /\ \A u \in Tasks \ {t} : job'[u] = job[u]
  BY <1>4 DEF EndJob, JobType
<1> HIDE DEF over
<1> QED
  BY <1>2, <1>3, <1>5 DEF Moves

-------------------------------------------------------------------------------
(* Facts about the store *)

\* A step that touches the files and the handle of one artifact.
Touches(a) ==
  /\ StoreType'
  /\ \A b \in Artifacts \ {a} : /\ handle'[b] = handle[b]
                                /\ temp'[b] <=> temp[b]
                                /\ final'[b] <=> final[b]

LEMMA PutFacts ==
  ASSUME StoreType, NEW a \in Artifacts, NEW h \in HandleStates, NEW t \in BOOLEAN, NEW f \in BOOLEAN,
         NEW bad \in BOOLEAN, Put(a, h, t, f, bad)
  PROVE  Touches(a) /\ handle'[a] = h /\ (temp'[a] <=> t) /\ (final'[a] <=> f)
<1>1. faults' \in 0 .. MaxFaults
  BY FaultAssumption DEF StoreType, Put
<1>2. handle' \in [Artifacts -> HandleStates] /\ handle'[a] = h
      /\ \A b \in Artifacts \ {a} : handle'[b] = handle[b]
  BY DEF StoreType, Put
<1>3. temp' \in [Artifacts -> BOOLEAN] /\ temp'[a] = t
      /\ \A b \in Artifacts \ {a} : temp'[b] = temp[b]
  BY DEF StoreType, Put
<1>4. final' \in [Artifacts -> BOOLEAN] /\ final'[a] = f
      /\ \A b \in Artifacts \ {a} : final'[b] = final[b]
  BY DEF StoreType, Put
<1> QED
  BY <1>1, <1>2, <1>3, <1>4 DEF StoreType, Touches

LEMMA StoreFields ==
  ASSUME StoreType, NEW a \in Artifacts
  PROVE  handle[a] \in HandleStates /\ temp[a] \in BOOLEAN /\ final[a] \in BOOLEAN
BY DEF StoreType

\* What each operation of the store does to its artifact.
LEMMA StageFacts ==
  ASSUME StoreType, NEW a \in Artifacts, WriteTemp(a) \/ WriteTempFails(a) \/ LinkFails(a)
  PROVE  Touches(a) /\ (final'[a] <=> final[a])
<1>0. /\ handle[a] \in HandleStates /\ temp[a] \in BOOLEAN /\ final[a] \in BOOLEAN
      /\ TRUE \in BOOLEAN /\ FALSE \in BOOLEAN /\ {"none", "staged", "discarded"} \subseteq HandleStates
  BY StoreFields DEF HandleStates
<1>1. CASE WriteTemp(a)
  BY <1>0, <1>1, PutFacts DEF WriteTemp
<1>2. CASE WriteTempFails(a)
  <2>1. PICK left \in BOOLEAN : Put(a, "none", left, final[a], TRUE)
    BY <1>2 DEF WriteTempFails
  <2> QED
    BY <1>0, <2>1, PutFacts
<1>3. CASE LinkFails(a)
  <2>1. CASE final[a]
    <3>1. Put(a, "discarded", FALSE, TRUE, FALSE)
      BY <1>3, <2>1 DEF LinkFails
    <3> QED
      BY <1>0, <2>1, <3>1, PutFacts
  <2>2. CASE ~final[a]
    <3>1. Put(a, "staged", temp[a], FALSE, TRUE)
      BY <1>3, <2>2 DEF LinkFails
    <3> QED
      BY <1>0, <2>2, <3>1, PutFacts
  <2> QED
    BY <2>1, <2>2
<1> QED
  BY <1>1, <1>2, <1>3

LEMMA LinkFacts ==
  ASSUME StoreType, NEW a \in Artifacts, Link(a)
  PROVE  Touches(a)
BY StoreFields, PutFacts DEF Link, HandleStates

LEMMA PublishFacts ==
  ASSUME StoreType, NEW a \in Artifacts, FinishPublish(a)
  PROVE  Touches(a) /\ handle'[a] = "published" /\ final'[a] /\ ~temp'[a]
<1>1. "published" \in HandleStates /\ TRUE \in BOOLEAN /\ FALSE \in BOOLEAN
  BY DEF HandleStates
<1> QED
  BY <1>1, PutFacts DEF FinishPublish

LEMMA UnpublishFacts ==
  ASSUME StoreType, NEW a \in Artifacts, FinishPublishFails(a)
  PROVE  Touches(a) /\ (handle'[a] = "cleanup_required" \/ ~final'[a])
<1>1. PICK t \in BOOLEAN, f \in BOOLEAN : Put(a, IF f THEN "cleanup_required" ELSE "rolled_back", t, f, TRUE)
  BY DEF FinishPublishFails
<1>2. (IF f THEN "cleanup_required" ELSE "rolled_back") \in HandleStates /\ TRUE \in BOOLEAN
  BY DEF HandleStates
<1>3. /\ Touches(a) /\ handle'[a] = (IF f THEN "cleanup_required" ELSE "rolled_back") /\ (final'[a] <=> f)
  BY <1>1, <1>2, PutFacts
<1> QED
  BY <1>3

LEMMA FinalizeFacts ==
  ASSUME StoreType, NEW a \in Artifacts, Finalize(a)
  PROVE  Touches(a) /\ handle'[a] = "finalized" /\ final'[a] /\ ~temp'[a]
<1>1. "finalized" \in HandleStates /\ TRUE \in BOOLEAN /\ FALSE \in BOOLEAN
  BY DEF HandleStates
<1> QED
  BY <1>1, PutFacts DEF Finalize

LEMMA FinalizeFailsFacts ==
  ASSUME StoreType, NEW a \in Artifacts, FinalizeFails(a)
  PROVE  Touches(a) /\ handle'[a] = handle[a] /\ (temp'[a] <=> temp[a]) /\ (final'[a] <=> final[a])
BY StoreFields, PutFacts DEF FinalizeFails

LEMMA DeleteFacts ==
  ASSUME StoreType, NEW a \in Artifacts, DeleteFile(a)
  PROVE  Touches(a)
<1>1. PICK f \in BOOLEAN : Put(a, handle[a], temp[a], f /\ final[a], f)
  BY DEF DeleteFile
<1>2. (f /\ final[a]) \in BOOLEAN
  OBVIOUS
<1> QED
  BY <1>1, <1>2, StoreFields, PutFacts

\* An abort that could remove everything leaves no published file.
LEMMA AbortFacts ==
  ASSUME StoreType, NEW a \in Artifacts, Abort(a)
  PROVE  /\ Touches(a)
         /\ /\ handle'[a] = "discarded"
            /\ handle[a] \in {"published", "cleanup_required"} \/ ~final[a]
            => ~final'[a]
<1> DEFINE owns == handle[a] \in {"published", "cleanup_required"}
           h(f, t) == CASE t /\ (f \/ ~owns) -> handle[a]
                        [] t /\ ~f /\ owns -> "rolled_back"
                        [] ~t /\ f -> "cleanup_required"
                        [] ~t /\ ~f -> "discarded"
<1>1. PICK f \in BOOLEAN, t \in BOOLEAN :
        /\ f => owns /\ final[a]
        /\ t => temp[a] /\ handle[a] # "discarded"
        /\ Put(a, h(f, t), t, IF owns THEN f ELSE final[a], f \/ t)
  BY DEF Abort
<1>2. handle[a] \in HandleStates /\ final[a] \in BOOLEAN /\ (f \/ t) \in BOOLEAN
      /\ (IF owns THEN f ELSE final[a]) \in BOOLEAN
  BY StoreFields
<1>3. h(f, t) \in HandleStates /\ (h(f, t) = "discarded" => ~t /\ ~f)
  <2>1. CASE t /\ (f \/ ~owns)
    BY <1>1, <1>2, <2>1
  <2>2. CASE t /\ ~f /\ owns
    BY <2>2 DEF HandleStates
  <2>3. CASE ~t /\ f
    BY <2>3 DEF HandleStates
  <2>4. CASE ~t /\ ~f
    BY <2>4 DEF HandleStates
  <2> QED
    BY <2>1, <2>2, <2>3, <2>4
<1> HIDE DEF h
<1>4. /\ Touches(a) /\ handle'[a] = h(f, t) /\ (final'[a] <=> IF owns THEN f ELSE final[a])
  BY <1>1, <1>2, <1>3, PutFacts
<1> QED
  BY <1>3, <1>4
-------------------------------------------------------------------------------
(* One writer at a time *)

\* A step of one writer leaves the others' jobs, rows, files and handles alone.
Apart(t) ==
  /\ Moves(t)
  /\ \A u \in Tasks \ {t} : task'[u] = task[u] /\ cs'[u] = cs[u]
  /\ \A a \in Artifacts : a[1] # t => /\ handle'[a] = handle[a]
                                      /\ temp'[a] <=> temp[a]
                                      /\ final'[a] <=> final[a]
                                      /\ a \in rows' <=> a \in rows

LEMMA OthersKept ==
  ASSUME JobType, NEW t \in Tasks, Apart(t), NEW u \in Tasks \ {t}, WriterInv(u)
  PROVE  WriterInv(u)'
<1>1. /\ job'[u] = job[u] /\ task'[u] = task[u] /\ cs'[u] = cs[u]
  BY DEF Apart, Moves
<1>2. ASSUME NEW n \in Names
      PROVE  /\ handle'[<<u, n>>] = handle[<<u, n>>]
             /\ temp'[<<u, n>>] <=> temp[<<u, n>>]
             /\ final'[<<u, n>>] <=> final[<<u, n>>]
             /\ <<u, n>> \in rows' <=> <<u, n>> \in rows
  <2>1. <<u, n>> \in Artifacts /\ <<u, n>>[1] # t
    BY DEF Artifacts
  <2> QED
    BY <2>1 DEF Apart
<1>3. /\ Places(u)' = Places(u) /\ \A k : The(u, k)' = The(u, k)
      /\ Capturing(u)' <=> Capturing(u)
  BY <1>1 DEF Places, The, Capturing
<1>4. ASSUME NEW k \in Places(u)
      PROVE  /\ handle'[The(u, k)] = handle[The(u, k)]
             /\ temp'[The(u, k)] <=> temp[The(u, k)]
             /\ final'[The(u, k)] <=> final[The(u, k)]
             /\ The(u, k) \in rows' <=> The(u, k) \in rows
  <2>1. job[u].what \in Whats
    BY JobFields DEF JobType
  <2>2. The(u, k) \in Artifacts /\ The(u, k)[1] = u
    BY <2>1, PlaceFacts DEF The, Places
  <2>3. The(u, k)[1] # t
    BY <2>2
  <2> QED
    BY <2>2, <2>3 DEF Apart
<1>5. "policy" \in Names /\ "report" \in Names /\ \A k \in 1 .. Len(Parts) : Parts[k] \in Names
  BY PartFacts DEF Names
<1>6. FormInv(u)'
  BY <1>1, <1>3 DEF WriterInv, FormInv, At
<1>7. TableInv(u)'
  BY <1>1, <1>2, <1>3, <1>4, <1>5 DEF WriterInv, TableInv, At, Policy, Report
<1>8. FileInv(u)'
  BY <1>1, <1>3, <1>4 DEF WriterInv, FileInv, Readable
<1>9. Absent(u)' <=> Absent(u)
  BY <1>1, <1>2, <1>5 DEF Absent
<1>10. CaptureInv(u)'
  <2>1. ~Capturing(u)' => Absent(u)'
    BY <1>3, <1>9 DEF WriterInv, CaptureInv
  <2> HIDE <1>2
  <2> QED
    BY <1>1, <1>3, <1>4, <1>9, <2>1 DEF WriterInv, CaptureInv, At, Target
<1> QED
  BY <1>6, <1>7, <1>8, <1>10 DEF WriterInv

\* A step of a writer outside of the tables, on one of its artifacts.
QuietWork(t, a) ==
  /\ Moves(t) /\ Touches(a) /\ a \in Artifacts /\ a[1] = t
  /\ UNCHANGED <<rows, task, cs, run, leased, crashes>> /\ lock' \in Tasks \cup {"free"}
  /\ \/ a \notin rows
     \/ final'[a] /\ ~temp'[a]
     \/ (final'[a] <=> final[a]) /\ (temp'[a] <=> temp[a])

LEMMA QuietKeeps ==
  ASSUME StorageInv, NEW t \in Tasks, NEW a, QuietWork(t, a), WriterInv(t)'
  PROVE  StorageInv'
<1>1. Apart(t)
  <2>1. ASSUME NEW b \in Artifacts, b[1] # t PROVE b \in Artifacts \ {a}
    BY <2>1 DEF QuietWork
  <2> QED
    BY <2>1 DEF QuietWork, Apart, Touches
<1>2. StoreType' /\ TableType' /\ JobType'
  BY DEF StorageInv, QuietWork, Touches, TableType, JobType, Moves
<1>3. RowsReadable'
  <2>1. SUFFICES ASSUME NEW b \in rows PROVE final'[b] /\ ~temp'[b]
    BY DEF QuietWork, RowsReadable, Readable
  <2>2. final[b] /\ ~temp[b] /\ b \in Artifacts
    BY DEF StorageInv, RowsReadable, Readable, TableType
  <2>3. CASE b = a
    BY <2>1, <2>2, <2>3 DEF QuietWork
  <2>4. CASE b # a
    BY <2>2, <2>4 DEF QuietWork, Touches
  <2> QED
    BY <2>3, <2>4
<1>4. \A u \in Tasks : WriterInv(u)'
  BY <1>1, OthersKept DEF StorageInv
<1> QED
  BY <1>2, <1>3, <1>4 DEF StorageInv

\* What a step of t finds.
LEMMA Basics ==
  ASSUME StorageInv, NEW t \in Tasks
  PROVE  /\ StoreType /\ TableType /\ JobType /\ RowsReadable
         /\ FormInv(t) /\ TableInv(t) /\ FileInv(t) /\ CaptureInv(t)
         /\ job[t].i \in Places(t) /\ job[t].what \in Whats
         /\ Count(job[t].what) \in 1 .. Len(Parts) /\ Len(Parts) \in Nat
         /\ Len(Items(t)) = Count(job[t].what)
         /\ Item(t) = The(t, job[t].i) /\ Item(t) \in Artifacts /\ Item(t)[1] = t
         /\ Last(t) <=> job[t].i = Count(job[t].what)
         /\ Ids(t) = {The(t, k) : k \in Places(t)}
<1>1. /\ StoreType /\ TableType /\ JobType /\ RowsReadable
      /\ FormInv(t) /\ TableInv(t) /\ FileInv(t) /\ CaptureInv(t)
      /\ job[t].i \in Places(t)
  BY DEF StorageInv, WriterInv, FormInv
<1> QED
  BY <1>1, ItemFacts, PartFacts

\* The artifacts of the same job, other than the one a step is about.
LEMMA OtherPlaces ==
  ASSUME NEW t \in Tasks, job[t].what \in Whats, NEW i \in Places(t), Touches(The(t, i))
  PROVE  /\ \A k \in Places(t) : k # i =>
              /\ handle'[The(t, k)] = handle[The(t, k)]
              /\ temp'[The(t, k)] <=> temp[The(t, k)]
              /\ final'[The(t, k)] <=> final[The(t, k)]
         /\ ~Capturing(t) => \A k \in 1 .. Len(Parts) : final'[<<t, Parts[k]>>] <=> final[<<t, Parts[k]>>]
<1>1. ASSUME NEW k \in Places(t), k # i PROVE The(t, k) \in Artifacts \ {The(t, i)}
  BY <1>1, PlaceFacts DEF The, Places
<1>2. ASSUME ~Capturing(t), NEW k \in 1 .. Len(Parts) PROVE <<t, Parts[k]>> \in Artifacts \ {The(t, i)}
  <2>1. The(t, i) = <<t, job[t].what>> /\ job[t].what \in {"policy", "report"}
    BY <1>2 DEF The, Nth, Capturing, Whats
  <2>2. <<t, Parts[k]>> \in Artifacts /\ Parts[k] # job[t].what
    BY <2>1, PartFacts DEF Artifacts
  <2> QED
    BY <2>1, <2>2
<1> QED
  BY <1>1, <1>2 DEF Touches

LEMMA SameJob ==
  ASSUME NEW t \in Tasks, job'[t].what = job[t].what
  PROVE  /\ Places(t)' = Places(t) /\ \A k : The(t, k)' = The(t, k)
         /\ Capturing(t)' <=> Capturing(t)
BY DEF Places, The, Capturing

\* A job that has ended, and the next one of its handler.
LEMMA EndKeeps ==
  ASSUME StorageInv, NEW t \in Tasks, NEW x \in Results, EndJob(t, x), UNCHANGED <<rows, task, cs>>,
         job[t].step \in Open \cup {"reconcile", "finalize"},
         job[t].what = "policy" /\ x = "ok" => Policy(t) \in rows,
         ~Capturing(t) => Absent(t)',
         Capturing(t) /\ x \in {"error", "lost"} => Absent(t)',
         Capturing(t) /\ x \in {"ok", "interrupted"} =>
           /\ cs[t] = job[t].what /\ task[t] = Target(job[t].what)
           /\ \A k \in Places(t) : The(t, k) \in rows /\ handle'[The(t, k)] = "finalized"
  PROVE  WriterInv(t)'
<1>0. /\ JobType /\ FormInv(t) /\ TableInv(t) /\ CaptureInv(t)
      /\ job[t].i \in Places(t) /\ job[t].what \in Whats
  BY Basics
<1>1. CASE /\ job'[t].step = "done" /\ job'[t].what = job[t].what
           /\ job'[t].i = job[t].i /\ job'[t].res = x
  <2>1. /\ Places(t)' = Places(t) /\ \A k : The(t, k)' = The(t, k)
        /\ Capturing(t)' <=> Capturing(t)
    BY <1>1, SameJob
  <2>2. FormInv(t)'
    BY <1>0, <1>1, <2>1 DEF FormInv, At
  <2>3. TableInv(t)' /\ FileInv(t)'
    BY <1>0, <1>1, <2>1 DEF TableInv, FileInv, At, Policy, Report, Open
  <2>4. CaptureInv(t)'
    BY <1>0, <1>1, <2>1 DEF CaptureInv, At, Target, Open
  <2> QED
    BY <2>2, <2>3, <2>4 DEF WriterInv
<1>2. CASE job[t].what = "policy" /\ x = "ok" /\ job'[t] = Job("start", "policy")
  <2>1. /\ job'[t].step = "start" /\ job'[t].what = "policy" /\ job'[t].i = 1 /\ job'[t].res = "none"
    BY <1>2, NewJob DEF Steps, Whats
  <2>2. /\ Places(t)' = 1 .. 1 /\ ~Capturing(t)' /\ ~Capturing(t)
    BY <1>2, <2>1 DEF Places, Capturing, Count, Captures
  <2>3. FormInv(t)'
    BY <2>1, <2>2 DEF FormInv, At
  <2>4. TableInv(t)' /\ FileInv(t)'
    BY <1>0, <1>2, <2>1 DEF TableInv, FileInv, At, Policy, Report, Open
  <2>5. CaptureInv(t)'
    BY <2>2 DEF CaptureInv
  <2> QED
    BY <2>3, <2>4, <2>5 DEF WriterInv
<1>3. ASSUME NEW w \in Captures, job'[t] = Job("stage", w) \/ (w = "abandoned" /\ job'[t] = Again),
             job[t].what = "report" \/ (Capturing(t) /\ x = "error")
      PROVE  WriterInv(t)'
  <2>0. "stage" \in Steps /\ w \in Whats
    BY DEF Steps, Whats
  <2>1. /\ job'[t].step = "stage" /\ job'[t].what = w /\ job'[t].i = 1 /\ job'[t].res = "none"
    BY <1>3, <2>0, NewJob, AgainJob
  <2>2. /\ Places(t)' = 1 .. Len(Parts) /\ Capturing(t)'
        /\ \A k \in 1 .. Len(Parts) : The(t, k)' = <<t, Parts[k]>>
    BY <2>1 DEF Places, Capturing, Count, The, Nth
  <2>3. Absent(t)'
    BY <1>3 DEF Capturing, Captures
  <2>4. Policy(t) \in rows /\ w # "policy"
    BY <1>0, <1>3 DEF TableInv, Captures, Capturing
  <2>5. FormInv(t)'
    BY <2>1, <2>2, PartFacts DEF FormInv, At
  <2>6. TableInv(t)' /\ FileInv(t)'
    BY <2>1, <2>2, <2>3, <2>4 DEF TableInv, FileInv, At, Policy, Report, Open, Absent
  <2>7. CaptureInv(t)'
    BY <2>1, <2>2, <2>3 DEF CaptureInv, At, Absent, Open
  <2> QED
    BY <2>5, <2>6, <2>7 DEF WriterInv
<1> QED
  BY <1>0, <1>1, <1>2, <1>3, EndFacts DEF Captures, Capturing

\* A body that fails: what was made goes on to be aborted.
LEMMA FailKeeps ==
  ASSUME StorageInv, NEW t \in Tasks, NEW made \in Places(t), BodyFails(t, made),
         UNCHANGED <<rows, task, cs>>, job[t].step \in Open,
         ~Capturing(t) => Absent(t)',
         Capturing(t) => \A k \in Places(t) :
           /\ k <= made => handle'[The(t, k)] \in {"published", "cleanup_required"} \/ ~final'[The(t, k)]
           /\ k > made => ~final'[The(t, k)]
  PROVE  WriterInv(t)' /\ Moves(t) /\ lock' \in Tasks \cup {"free"}
<1>0. /\ JobType /\ TableType /\ TableInv(t) /\ CaptureInv(t)
      /\ job[t].what \in Whats /\ Count(job[t].what) \in 1 .. Len(Parts)
  BY Basics
<1>1. /\ made \in 0 .. Len(Parts) /\ "abort" \in Steps
      /\ Raised(t) \in {"error", "lost"} /\ Raised(t) \in Results
  BY <1>0, PartFacts DEF Places, Steps, Results, Raised
<1>2. /\ Moves(t) /\ job'[t].step = "abort" /\ job'[t].i = made
      /\ job'[t].what = job[t].what /\ job'[t].res \in {"error", "lost"}
  <2>1. Turn(t, "abort", made, Raised(t))
    BY DEF BodyFails, Turn
  <2>2. JobType
    BY <1>0
  <2> QED
    BY <1>1, <2>1, <2>2, TurnFacts
<1>3. /\ Places(t)' = Places(t) /\ \A k : The(t, k)' = The(t, k)
      /\ Capturing(t)' <=> Capturing(t)
  BY <1>2, SameJob
<1>4. lock' \in Tasks \cup {"free"}
  BY <1>0 DEF BodyFails, TableType
<1>5. FormInv(t)'
  BY <1>2, <1>3 DEF FormInv, At, Failures
<1>6. TableInv(t)' /\ FileInv(t)'
  BY <1>0, <1>2, <1>3 DEF TableInv, FileInv, At, Policy, Report, Open
<1>7. CaptureInv(t)'
  BY <1>0, <1>2, <1>3 DEF CaptureInv, At, Open
<1> QED
  BY <1>2, <1>4, <1>5, <1>6, <1>7 DEF WriterInv

-------------------------------------------------------------------------------
(* Jobs, step by step *)

\* A ChangeSet that is absent stays absent when the touched file does not appear.
LEMMA AbsentKept ==
  ASSUME NEW t \in Tasks, Absent(t), UNCHANGED <<rows, cs>>,
         \A k \in 1 .. Len(Parts) : final'[<<t, Parts[k]>>] <=> final[<<t, Parts[k]>>]
  PROVE  Absent(t)'
BY DEF Absent

LEMMA StageKeeps ==
  ASSUME StorageInv, NEW t \in Tasks, Stage(t) PROVE StorageInv'
<1>0. /\ StoreType /\ TableType /\ JobType /\ FormInv(t) /\ TableInv(t) /\ CaptureInv(t)
      /\ job[t].i \in Places(t) /\ job[t].what \in Whats
      /\ Count(job[t].what) \in 1 .. Len(Parts) /\ Len(Parts) \in Nat
      /\ Item(t) = The(t, job[t].i) /\ Item(t) \in Artifacts /\ Item(t)[1] = t
      /\ Last(t) <=> job[t].i = Count(job[t].what)
  BY Basics
<1>1. /\ At(t, "stage") /\ WriteTemp(Item(t)) /\ UNCHANGED <<lock, rows, task, cs, run, leased, crashes>>
      /\ job[t].step = "stage"
  BY DEF Stage, dbVars, envVars, At
<1>2. Touches(Item(t)) /\ (final'[Item(t)] <=> final[Item(t)])
  BY <1>0, <1>1, StageFacts
<1>3. \A k \in Places(t) : final'[The(t, k)] <=> final[The(t, k)]
  BY <1>0, <1>2, OtherPlaces
<1>4. PICK s \in {"stage", "begin"}, k \in Places(t) : Goto(t, s, k)
  <2>1. Advance(t, "begin")
    BY DEF Stage
  <2>2. CASE Last(t)
    BY <1>0, <2>1, <2>2 DEF Advance, Places
  <2>3. CASE ~Last(t)
    <3>1. Goto(t, "stage", job[t].i + 1)
      BY <1>1, <2>1, <2>3 DEF Advance
    <3>2. job[t].i + 1 \in Places(t)
      BY <1>0, <2>3 DEF Places
    <3> QED
      BY <3>1, <3>2
  <2> QED
    BY <2>2, <2>3
<1>5. s \in Steps /\ k \in 0 .. Len(Parts)
  BY <1>0 DEF Steps, Places
<1>6. /\ Moves(t) /\ job'[t].step = s /\ job'[t].i = k
      /\ job'[t].what = job[t].what /\ job'[t].res = job[t].res
  BY <1>0, <1>4, <1>5, GotoFacts
<1>7. /\ Places(t)' = Places(t) /\ \A m : The(t, m)' = The(t, m)
      /\ Capturing(t)' <=> Capturing(t)
  BY <1>6, SameJob
<1>8. FormInv(t)'
  BY <1>6, <1>7 DEF FormInv, At
<1>9. TableInv(t)' /\ FileInv(t)'
  BY <1>0, <1>1, <1>6, <1>7 DEF TableInv, FileInv, At, Policy, Report, Open
<1>10. ~Capturing(t) => Absent(t)'
  BY <1>0, <1>1, <1>2, OtherPlaces, AbsentKept DEF CaptureInv
<1>11. CaptureInv(t)'
  BY <1>0, <1>1, <1>3, <1>6, <1>7, <1>10 DEF CaptureInv, At, Open
<1>12. QuietWork(t, Item(t))
  <2>1. Item(t) \notin rows
    BY <1>0, <1>1 DEF TableInv, Open
  <2> QED
    BY <1>0, <1>1, <1>2, <1>6, <2>1 DEF QuietWork, TableType
<1> QED
  BY <1>8, <1>9, <1>11, <1>12, QuietKeeps DEF WriterInv

LEMMA StageFailsKeeps ==
  ASSUME StorageInv, NEW t \in Tasks, StageFails(t) PROVE StorageInv'
<1>0. /\ StoreType /\ TableType /\ JobType /\ FormInv(t) /\ TableInv(t) /\ CaptureInv(t)
      /\ job[t].i \in Places(t) /\ job[t].what \in Whats
      /\ Count(job[t].what) \in 1 .. Len(Parts) /\ Len(Parts) \in Nat
      /\ Item(t) = The(t, job[t].i) /\ Item(t) \in Artifacts /\ Item(t)[1] = t
  BY Basics
<1>1. /\ job[t].step = "stage" /\ WriteTempFails(Item(t)) /\ UNCHANGED <<rows, task, cs, run, leased, crashes>>
  BY DEF StageFails, dbVars, envVars, At
<1>2. Touches(Item(t)) /\ (final'[Item(t)] <=> final[Item(t)])
  BY <1>0, <1>1, StageFacts
<1>3. \A k \in Places(t) : final'[The(t, k)] <=> final[The(t, k)]
  BY <1>0, <1>2, OtherPlaces
<1>4. ~Capturing(t) => Absent(t)'
  BY <1>0, <1>1, <1>2, OtherPlaces, AbsentKept DEF CaptureInv
<1>5. Capturing(t) => \A k \in Places(t) : ~final'[The(t, k)]
  BY <1>0, <1>1, <1>3 DEF CaptureInv
<1>6. Item(t) \notin rows
  BY <1>0, <1>1 DEF TableInv, Open
<1>7. CASE Capturing(t) /\ job[t].i > 1
  <2>1. PICK made \in Places(t) : BodyFails(t, made)
    <3>1. job[t].i - 1 \in Places(t)
      BY <1>0, <1>7 DEF Places
    <3> QED
      BY <1>7, <3>1 DEF StageFails
  <2>2. WriterInv(t)' /\ Moves(t) /\ lock' \in Tasks \cup {"free"}
    BY <1>1, <1>4, <1>5, <2>1, FailKeeps DEF Open
  <2> QED
    BY <1>0, <1>1, <1>2, <1>6, <2>2, QuietKeeps DEF QuietWork
<1>8. CASE ~(Capturing(t) /\ job[t].i > 1)
  <2>1. EndJob(t, "error") /\ UNCHANGED lock /\ "error" \in Results
    BY <1>8 DEF StageFails, Results
  <2>2. Capturing(t) => Absent(t)'
    <3>1. SUFFICES ASSUME Capturing(t) PROVE Absent(t)'
      OBVIOUS
    <3>2. /\ Capturing(t) /\ Places(t) = 1 .. Len(Parts)
          /\ \A k \in Places(t) : The(t, k) = <<t, Parts[k]>>
      BY <3>1 DEF Capturing, Captures, Places, Count, The, Nth
    <3> QED
      BY <1>0, <1>1, <1>5, <3>2 DEF Absent, CaptureInv, TableInv, Open
  <2>3. WriterInv(t)'
    BY <1>1, <1>4, <2>1, <2>2, EndKeeps DEF Open
  <2>4. Moves(t)
    BY <1>0, <2>1, EndFacts
  <2> QED
    BY <1>0, <1>1, <1>2, <1>6, <2>1, <2>3, <2>4, QuietKeeps DEF QuietWork, TableType
<1> QED
  BY <1>7, <1>8

\* A step that leaves the files alone touches none.
LEMMA NothingTouched ==
  ASSUME StoreType, NEW a, UNCHANGED <<handle, temp, final>>, faults' \in 0 .. MaxFaults
  PROVE  Touches(a)
BY DEF StoreType, Touches

LEMMA BeginKeeps ==
  ASSUME StorageInv, NEW t \in Tasks, Begin(t) PROVE StorageInv'
<1>0. /\ StoreType /\ TableType /\ JobType /\ FormInv(t) /\ TableInv(t) /\ CaptureInv(t)
      /\ job[t].i \in Places(t) /\ job[t].what \in Whats
      /\ Count(job[t].what) \in 1 .. Len(Parts) /\ Len(Parts) \in Nat
      /\ Item(t) \in Artifacts /\ Item(t)[1] = t /\ Len(Items(t)) = Count(job[t].what)
  BY Basics
<1>1. /\ job[t].step = "begin" /\ UNCHANGED <<handle, temp, final, faults, rows, task, cs, run, leased, crashes>>
  BY DEF Begin, storeVars, dbVars, envVars, At
<1>2. Touches(Item(t))
  BY <1>0, <1>1, NothingTouched DEF StoreType
<1>3. ~Capturing(t) => Absent(t)'
  BY <1>0, <1>1, AbsentKept DEF CaptureInv
<1>4. CASE Goto(t, "publish", 1) /\ lock' = t
  <2>1. 1 \in Places(t) /\ 1 \in 0 .. Len(Parts) /\ "publish" \in Steps
    BY <1>0 DEF Places, Steps
  <2>2. /\ Moves(t) /\ job'[t].step = "publish" /\ job'[t].i = 1
        /\ job'[t].what = job[t].what /\ job'[t].res = job[t].res
    BY <1>0, <1>4, <2>1, GotoFacts
  <2>3. /\ Places(t)' = Places(t) /\ \A m : The(t, m)' = The(t, m)
        /\ Capturing(t)' <=> Capturing(t)
    BY <2>2, SameJob
  <2>4. \A k \in Places(t) : ~(k < 1)
    BY DEF Places
  <2>5. FormInv(t)' /\ FileInv(t)'
    BY <2>1, <2>2, <2>3, <2>4 DEF FormInv, FileInv, At
  <2>6. TableInv(t)'
    BY <1>0, <1>1, <2>2, <2>3 DEF TableInv, At, Policy, Report, Open
  <2>7. CaptureInv(t)'
    BY <1>0, <1>1, <1>3, <2>2, <2>3, <2>4 DEF CaptureInv, At, Open
  <2> QED
    BY <1>0, <1>1, <1>2, <1>4, <2>2, <2>5, <2>6, <2>7, QuietKeeps DEF QuietWork, WriterInv
<1>5. CASE BodyFails(t, Len(Items(t)))
  <2>1. PICK made \in Places(t) : made = Count(job[t].what) /\ BodyFails(t, made)
    BY <1>0, <1>5 DEF Places
  <2>2. Capturing(t) => \A k \in Places(t) : ~final'[The(t, k)]
    BY <1>0, <1>1 DEF CaptureInv
  <2>3. WriterInv(t)' /\ Moves(t) /\ lock' \in Tasks \cup {"free"}
    BY <1>1, <1>3, <2>1, <2>2, FailKeeps DEF Open
  <2> QED
    BY <1>0, <1>1, <1>2, <2>3, QuietKeeps DEF QuietWork
<1> QED
  BY <1>4, <1>5 DEF Begin

LEMMA PublishKeeps ==
  ASSUME StorageInv, NEW t \in Tasks, Publish(t) \/ OverQuota(t) PROVE StorageInv'
<1>0. /\ StoreType /\ TableType /\ JobType /\ FormInv(t) /\ TableInv(t) /\ FileInv(t) /\ CaptureInv(t)
      /\ job[t].i \in Places(t) /\ job[t].what \in Whats
      /\ Count(job[t].what) \in 1 .. Len(Parts) /\ Len(Parts) \in Nat
      /\ Item(t) = The(t, job[t].i) /\ Item(t) \in Artifacts /\ Item(t)[1] = t
      /\ Len(Items(t)) = Count(job[t].what)
  BY Basics
<1>1. /\ job[t].step = "publish" /\ UNCHANGED <<rows, task, cs, run, leased, crashes>>
  BY DEF Publish, OverQuota, dbVars, envVars, At
<1>2. Item(t) \notin rows
  BY <1>0, <1>1 DEF TableInv, Open
<1>3. CASE Link(Item(t)) /\ Goto(t, "linked", job[t].i) /\ UNCHANGED lock
  <2>0. Touches(Item(t))
    BY <1>0, <1>3, LinkFacts
  <2>1. "linked" \in Steps /\ job[t].i \in 0 .. Len(Parts)
    BY <1>0 DEF Places, Steps
  <2>2. /\ Moves(t) /\ job'[t].step = "linked" /\ job'[t].i = job[t].i
        /\ job'[t].what = job[t].what /\ job'[t].res = job[t].res
    BY <1>0, <1>3, <2>1, GotoFacts
  <2>3. /\ Places(t)' = Places(t) /\ \A m : The(t, m)' = The(t, m)
        /\ Capturing(t)' <=> Capturing(t)
    BY <2>2, SameJob
  <2>4. /\ \A k \in Places(t) : k # job[t].i =>
             /\ handle'[The(t, k)] = handle[The(t, k)]
             /\ temp'[The(t, k)] <=> temp[The(t, k)]
             /\ final'[The(t, k)] <=> final[The(t, k)]
        /\ ~Capturing(t) => Absent(t)'
    BY <1>0, <1>1, <2>0, OtherPlaces, AbsentKept DEF CaptureInv
  <2>5. \A k \in Places(t) : (k < job[t].i => k # job[t].i) /\ (k > job[t].i => k # job[t].i /\ ~(k < job[t].i))
    BY <1>0 DEF Places
  <2>6. FormInv(t)'
    BY <1>0, <2>2, <2>3 DEF FormInv, At
  <2>7. TableInv(t)'
    BY <1>0, <1>1, <2>2, <2>3 DEF TableInv, At, Policy, Report, Open
  <2>8. FileInv(t)'
    BY <1>0, <1>1, <2>2, <2>3, <2>4, <2>5 DEF FileInv, Readable
  <2>9. CaptureInv(t)'
    BY <1>0, <1>1, <2>2, <2>3, <2>4, <2>5 DEF CaptureInv, At, Open
  <2> QED
    BY <1>0, <1>1, <1>2, <1>3, <2>0, <2>2, <2>6, <2>7, <2>8, <2>9, QuietKeeps
    DEF QuietWork, WriterInv, TableType
<1>4. CASE BodyFails(t, Len(Items(t)))
  <2>0. Touches(Item(t)) /\ (final'[Item(t)] <=> final[Item(t)])
    <3>1. CASE LinkFails(Item(t))
      BY <1>0, <3>1, StageFacts
    <3>2. CASE UNCHANGED <<handle, temp, final, faults>>
      BY <1>0, <3>2, NothingTouched DEF StoreType
    <3>3. CASE Link(Item(t)) /\ Goto(t, "linked", job[t].i)
      <4>1. job'[t].step = "linked"
        BY <1>0, <3>3, GotoFacts DEF Steps, Places
      <4>2. Turn(t, "abort", Count(job[t].what), Raised(t)) /\ Raised(t) \in Results
        BY <1>0, <1>4 DEF BodyFails, Turn, Raised, Results
      <4>3. job'[t].step = "abort"
        BY <1>0, <4>2, TurnFacts DEF Steps
      <4> QED
        BY <4>1, <4>3
    <3> QED
      BY <3>1, <3>2, <3>3 DEF Publish, OverQuota, storeVars
  <2>1. PICK made \in Places(t) : made = Count(job[t].what) /\ BodyFails(t, made)
    BY <1>0, <1>4 DEF Places
  <2>2. /\ \A k \in Places(t) : k # job[t].i =>
             /\ handle'[The(t, k)] = handle[The(t, k)]
             /\ final'[The(t, k)] <=> final[The(t, k)]
        /\ ~Capturing(t) => Absent(t)'
    BY <1>0, <1>1, <2>0, OtherPlaces, AbsentKept DEF CaptureInv
  <2>3. Capturing(t) => \A k \in Places(t) :
          handle'[The(t, k)] \in {"published", "cleanup_required"} \/ ~final'[The(t, k)]
    <3>1. SUFFICES ASSUME Capturing(t), NEW k \in Places(t)
                   PROVE  handle'[The(t, k)] = "published" \/ ~final'[The(t, k)]
      OBVIOUS
    <3>2. CASE k = job[t].i
      BY <1>0, <1>1, <2>0, <3>1, <3>2 DEF CaptureInv, At, Places
    <3>3. CASE k # job[t].i
      BY <1>0, <1>1, <2>2, <3>1, <3>3 DEF CaptureInv, At
    <3> QED
      BY <3>2, <3>3
  <2>4. \A k \in Places(t) : ~(k > made)
    BY <1>0, <2>1 DEF Places
  <2>5. WriterInv(t)' /\ Moves(t) /\ lock' \in Tasks \cup {"free"}
    BY <1>1, <2>1, <2>2, <2>3, <2>4, FailKeeps DEF Open
  <2> QED
    BY <1>0, <1>1, <1>2, <2>0, <2>5, QuietKeeps DEF QuietWork
<1> QED
  BY <1>3, <1>4 DEF Publish, OverQuota

LEMMA RegisterKeeps ==
  ASSUME StorageInv, NEW t \in Tasks, Register(t) PROVE StorageInv'
<1>0. /\ StoreType /\ TableType /\ JobType /\ FormInv(t) /\ TableInv(t) /\ FileInv(t) /\ CaptureInv(t)
      /\ job[t].i \in Places(t) /\ job[t].what \in Whats
      /\ Count(job[t].what) \in 1 .. Len(Parts) /\ Len(Parts) \in Nat
      /\ Item(t) = The(t, job[t].i) /\ Item(t) \in Artifacts /\ Item(t)[1] = t
      /\ Last(t) <=> job[t].i = Count(job[t].what)
  BY Basics
<1>1. /\ job[t].step = "linked" /\ FinishPublish(Item(t))
      /\ UNCHANGED <<lock, rows, task, cs, run, leased, crashes>>
  BY DEF Register, dbVars, envVars, At
<1>2. Touches(Item(t)) /\ handle'[Item(t)] = "published" /\ final'[Item(t)] /\ ~temp'[Item(t)]
  BY <1>0, <1>1, PublishFacts
<1>3. /\ \A k \in Places(t) : k # job[t].i =>
           /\ handle'[The(t, k)] = handle[The(t, k)]
           /\ temp'[The(t, k)] <=> temp[The(t, k)]
           /\ final'[The(t, k)] <=> final[The(t, k)]
      /\ ~Capturing(t) => Absent(t)'
  BY <1>0, <1>1, <1>2, OtherPlaces, AbsentKept DEF CaptureInv
<1>4. /\ \A k \in Places(t) : k <= job[t].i => final'[The(t, k)] /\ ~temp'[The(t, k)]
      /\ Capturing(t) => \A k \in Places(t) : /\ k <= job[t].i => handle'[The(t, k)] = "published"
                                              /\ k > job[t].i => ~final'[The(t, k)]
  <2>1. ASSUME NEW k \in Places(t), k < job[t].i
        PROVE  /\ final'[The(t, k)] /\ ~temp'[The(t, k)]
               /\ Capturing(t) => handle'[The(t, k)] = "published"
    <3>1. k # job[t].i
      BY <2>1, <1>0 DEF Places
    <3> QED
      BY <1>0, <1>1, <1>3, <2>1, <3>1 DEF FileInv, Readable, CaptureInv, At
  <2>2. ASSUME NEW k \in Places(t), k > job[t].i, Capturing(t) PROVE ~final'[The(t, k)]
    <3>1. k # job[t].i
      BY <2>2, <1>0 DEF Places
    <3> QED
      BY <1>0, <1>1, <1>3, <2>2, <3>1 DEF CaptureInv, At
  <2>3. \A k \in Places(t) : k <= job[t].i => k < job[t].i \/ k = job[t].i
    BY <1>0 DEF Places
  <2> QED
    BY <1>0, <1>2, <2>1, <2>2, <2>3
<1>5. PICK s \in {"publish", "insert", "commit"}, m \in Places(t) :
        /\ Goto(t, s, m)
        /\ s = "publish" => m = job[t].i + 1
        /\ s # "publish" => Last(t)
        /\ s = "insert" => Capturing(t)
  <2>1. CASE Last(t)
    <3>1. 1 \in Places(t)
      BY <1>0 DEF Places
    <3> QED
      BY <2>1, <3>1 DEF Register
  <2>2. CASE ~Last(t)
    <3>1. job[t].i + 1 \in Places(t)
      BY <1>0, <2>2 DEF Places
    <3> QED
      BY <2>2, <3>1 DEF Register
  <2> QED
    BY <2>1, <2>2
<1>6. s \in Steps /\ m \in 0 .. Len(Parts)
  BY <1>0 DEF Steps, Places
<1>7. /\ Moves(t) /\ job'[t].step = s /\ job'[t].i = m
      /\ job'[t].what = job[t].what /\ job'[t].res = job[t].res
  BY <1>0, <1>5, <1>6, GotoFacts
<1>8. /\ Places(t)' = Places(t) /\ \A k : The(t, k)' = The(t, k)
      /\ Capturing(t)' <=> Capturing(t)
  BY <1>7, SameJob
<1>9. /\ s # "publish" => \A k \in Places(t) : k <= job[t].i
      /\ s = "publish" => \A k \in Places(t) : IF k < m THEN k <= job[t].i ELSE k > job[t].i
  BY <1>0, <1>5 DEF Places
<1>10. FormInv(t)'
  BY <1>5, <1>7, <1>8 DEF FormInv, At
<1>11. TableInv(t)'
  BY <1>0, <1>1, <1>7, <1>8 DEF TableInv, At, Policy, Report, Open
<1>12. FileInv(t)'
  BY <1>4, <1>7, <1>8, <1>9 DEF FileInv, Readable
<1>13. CaptureInv(t)'
  BY <1>0, <1>1, <1>3, <1>4, <1>7, <1>8, <1>9 DEF CaptureInv, At, Open
<1> QED
  BY <1>0, <1>1, <1>2, <1>7, <1>10, <1>11, <1>12, <1>13, QuietKeeps DEF QuietWork, WriterInv, TableType

LEMMA RegisterFailsKeeps ==
  ASSUME StorageInv, NEW t \in Tasks, RegisterFails(t) PROVE StorageInv'
<1>0. /\ StoreType /\ TableType /\ JobType /\ FormInv(t) /\ TableInv(t) /\ CaptureInv(t)
      /\ job[t].i \in Places(t) /\ job[t].what \in Whats
      /\ Count(job[t].what) \in 1 .. Len(Parts) /\ Len(Parts) \in Nat
      /\ Item(t) = The(t, job[t].i) /\ Item(t) \in Artifacts /\ Item(t)[1] = t
      /\ Len(Items(t)) = Count(job[t].what)
  BY Basics
<1>1. /\ job[t].step = "linked" /\ FinishPublishFails(Item(t)) /\ BodyFails(t, Len(Items(t)))
      /\ UNCHANGED <<rows, task, cs, run, leased, crashes>>
  BY DEF RegisterFails, dbVars, envVars, At
<1>2. Touches(Item(t)) /\ (handle'[Item(t)] = "cleanup_required" \/ ~final'[Item(t)])
  BY <1>0, <1>1, UnpublishFacts
<1>3. /\ \A k \in Places(t) : k # job[t].i =>
           /\ handle'[The(t, k)] = handle[The(t, k)]
           /\ final'[The(t, k)] <=> final[The(t, k)]
      /\ ~Capturing(t) => Absent(t)'
  BY <1>0, <1>1, <1>2, OtherPlaces, AbsentKept DEF CaptureInv
<1>4. Capturing(t) => \A k \in Places(t) :
        handle'[The(t, k)] \in {"published", "cleanup_required"} \/ ~final'[The(t, k)]
  <2>1. SUFFICES ASSUME Capturing(t), NEW k \in Places(t)
                 PROVE  handle'[The(t, k)] \in {"published", "cleanup_required"} \/ ~final'[The(t, k)]
    OBVIOUS
  <2>2. CASE k = job[t].i
    BY <1>0, <1>2, <2>2
  <2>3. CASE k < job[t].i
    BY <1>0, <1>1, <1>3, <2>1, <2>3 DEF CaptureInv, At, Places
  <2>4. CASE k > job[t].i
    BY <1>0, <1>1, <1>3, <2>1, <2>4 DEF CaptureInv, At, Places
  <2> QED
    BY <1>0, <2>2, <2>3, <2>4 DEF Places
<1>5. PICK made \in Places(t) : made = Count(job[t].what) /\ BodyFails(t, made)
  BY <1>0, <1>1 DEF Places
<1>6. \A k \in Places(t) : ~(k > made)
  BY <1>0, <1>5 DEF Places
<1>7. WriterInv(t)' /\ Moves(t) /\ lock' \in Tasks \cup {"free"}
  BY <1>1, <1>3, <1>4, <1>5, <1>6, FailKeeps DEF Open
<1>8. Item(t) \notin rows
  BY <1>0, <1>1 DEF TableInv, Open
<1> QED
  BY <1>0, <1>1, <1>2, <1>7, <1>8, QuietKeeps DEF QuietWork

LEMMA InsertKeeps ==
  ASSUME StorageInv, NEW t \in Tasks, InsertCapture(t) PROVE StorageInv'
<1>0. /\ StoreType /\ TableType /\ JobType /\ FormInv(t) /\ TableInv(t) /\ FileInv(t) /\ CaptureInv(t)
      /\ job[t].i \in Places(t) /\ job[t].what \in Whats
      /\ Count(job[t].what) \in 1 .. Len(Parts) /\ Len(Parts) \in Nat
      /\ Item(t) \in Artifacts /\ Item(t)[1] = t /\ Len(Items(t)) = Count(job[t].what)
  BY Basics
<1>1. /\ job[t].step = "insert" /\ Capturing(t)
      /\ UNCHANGED <<handle, temp, final, rows, task, cs, run, leased, crashes>>
  BY <1>0 DEF InsertCapture, dbVars, envVars, At, FormInv
<1>2. Touches(Item(t))
  <2>1. faults' \in 0 .. MaxFaults
    BY <1>0, FaultAssumption DEF InsertCapture, StoreType
  <2> QED
    BY <1>0, <1>1, <2>1, NothingTouched
<1>3. CASE Goto(t, "commit", 1) /\ UNCHANGED lock
  <2>1. 1 \in Places(t) /\ 1 \in 0 .. Len(Parts) /\ "commit" \in Steps
    BY <1>0 DEF Places, Steps
  <2>2. /\ Moves(t) /\ job'[t].step = "commit" /\ job'[t].i = 1
        /\ job'[t].what = job[t].what /\ job'[t].res = job[t].res
    BY <1>0, <1>3, <2>1, GotoFacts
  <2>3. /\ Places(t)' = Places(t) /\ \A m : The(t, m)' = The(t, m)
        /\ Capturing(t)' <=> Capturing(t)
    BY <2>2, SameJob
  <2>4. FormInv(t)' /\ FileInv(t)'
    BY <1>0, <1>1, <2>1, <2>2, <2>3 DEF FormInv, FileInv, At, Readable
  <2>5. TableInv(t)'
    BY <1>0, <1>1, <2>2, <2>3 DEF TableInv, At, Policy, Report, Open
  <2>6. CaptureInv(t)'
    BY <1>0, <1>1, <2>2, <2>3 DEF CaptureInv, At, Open
  <2> QED
    BY <1>0, <1>1, <1>2, <1>3, <2>2, <2>4, <2>5, <2>6, QuietKeeps DEF QuietWork, WriterInv, TableType
<1>4. CASE BodyFails(t, Len(Items(t)))
  <2>1. PICK made \in Places(t) : made = Count(job[t].what) /\ BodyFails(t, made)
    BY <1>0, <1>4 DEF Places
  <2>2. \A k \in Places(t) : handle'[The(t, k)] = "published" /\ ~(k > made)
    BY <1>0, <1>1, <2>1 DEF CaptureInv, Places
  <2>3. WriterInv(t)' /\ Moves(t) /\ lock' \in Tasks \cup {"free"}
    BY <1>1, <2>1, <2>2, FailKeeps DEF Open
  <2> QED
    BY <1>0, <1>1, <1>2, <2>3, QuietKeeps DEF QuietWork
<1> QED
  BY <1>3, <1>4 DEF InsertCapture

\* What a commit makes durable.
LEMMA PersistFacts ==
  ASSUME StorageInv, NEW t \in Tasks, Persist(t)
  PROVE  /\ rows' = rows \cup {The(t, k) : k \in Places(t)} /\ rows' \subseteq Artifacts
         /\ cs' \in [Tasks -> {"none"} \cup Captures]
         /\ task' \in [Tasks -> {"none", "running", "succeeded", "failed", "cancelled"}]
         /\ \A u \in Tasks \ {t} : task'[u] = task[u] /\ cs'[u] = cs[u]
         /\ \A a \in Artifacts : a[1] # t => (a \in rows' <=> a \in rows)
         /\ IF Capturing(t) THEN cs'[t] = job[t].what /\ task'[t] = Target(job[t].what)
                            ELSE cs'[t] = cs[t] /\ task'[t] = task[t]
<1>0. TableType /\ job[t].what \in Whats /\ Ids(t) = {The(t, k) : k \in Places(t)}
  BY Basics
<1>1. \A k \in Places(t) : The(t, k) \in Artifacts /\ The(t, k)[1] = t
  BY <1>0, PlaceFacts DEF The, Places
<1>2. /\ rows' = rows \cup {The(t, k) : k \in Places(t)} /\ rows' \subseteq Artifacts
      /\ \A a \in Artifacts : a[1] # t => (a \in rows' <=> a \in rows)
  BY <1>0, <1>1 DEF Persist, TableType
<1>3. CASE Capturing(t)
  <2>1. job[t].what \in Captures /\ Target(job[t].what) \in {"succeeded", "failed"}
    BY <1>3 DEF Capturing, Target
  <2> QED
    BY <1>0, <1>2, <1>3, <2>1 DEF Persist, TableType
<1>4. CASE ~Capturing(t)
  BY <1>0, <1>2, <1>4 DEF Persist, TableType
<1> QED
  BY <1>3, <1>4

LEMMA CommitKeeps ==
  ASSUME StorageInv, NEW t \in Tasks, Commit(t) \/ CommitRaises(t) PROVE StorageInv'
<1>0. /\ StoreType /\ TableType /\ JobType /\ RowsReadable
      /\ FormInv(t) /\ TableInv(t) /\ FileInv(t) /\ CaptureInv(t)
      /\ job[t].i \in Places(t) /\ job[t].what \in Whats
      /\ Count(job[t].what) \in 1 .. Len(Parts) /\ Len(Parts) \in Nat
  BY Basics
<1>1. /\ job[t].step = "commit" /\ lock' = "free"
      /\ UNCHANGED <<handle, temp, final, run, leased, crashes>>
      /\ Persist(t) \/ UNCHANGED <<rows, task, cs>>
  BY DEF Commit, CommitRaises, dbVars, envVars, storeVars, At
<1>2. StoreType'
  <2>1. faults' \in 0 .. MaxFaults
    BY <1>0, FaultAssumption DEF Commit, CommitRaises, StoreType, storeVars
  <2> QED
    BY <1>0, <1>1, <2>1 DEF StoreType
<1>3. PICK s \in {"finalize", "reconcile"}, x \in {"ok", "interrupted"} :
        /\ Turn(t, s, 1, x)
        /\ s = "finalize" => Persist(t)
  BY DEF Commit, CommitRaises, Turn
<1>4. s \in Steps /\ x \in Results /\ 1 \in 0 .. Len(Parts) /\ 1 \in Places(t)
  BY <1>0 DEF Steps, Results, Places
<1>5. /\ Moves(t) /\ job'[t].step = s /\ job'[t].i = 1
      /\ job'[t].what = job[t].what /\ job'[t].res = x
  BY <1>0, <1>3, <1>4, TurnFacts
<1>6. /\ Places(t)' = Places(t) /\ \A m : The(t, m)' = The(t, m)
      /\ Capturing(t)' <=> Capturing(t)
  BY <1>5, SameJob
<1>7. /\ rows' \subseteq Artifacts /\ rows \subseteq rows'
      /\ rows' \subseteq rows \cup {The(t, k) : k \in Places(t)}
      /\ s = "finalize" => \A k \in Places(t) : The(t, k) \in rows'
      /\ cs' \in [Tasks -> {"none"} \cup Captures]
      /\ task' \in [Tasks -> {"none", "running", "succeeded", "failed", "cancelled"}]
      /\ \A u \in Tasks \ {t} : task'[u] = task[u] /\ cs'[u] = cs[u]
      /\ \A a \in Artifacts : a[1] # t => (a \in rows' <=> a \in rows)
      /\ ~Capturing(t) => cs'[t] = cs[t] /\ task'[t] = task[t]
      /\ s = "finalize" /\ Capturing(t) => cs'[t] = job[t].what /\ task'[t] = Target(job[t].what)
  <2>1. CASE Persist(t)
    BY <2>1, PersistFacts
  <2>2. CASE UNCHANGED <<rows, task, cs>> /\ s # "finalize"
    BY <1>0, <2>2 DEF TableType
  <2> QED
    BY <1>1, <1>3, <2>1, <2>2
<1>8. TableType'
  BY <1>0, <1>1, <1>7 DEF TableType
<1>9. RowsReadable'
  BY <1>0, <1>1, <1>7 DEF RowsReadable, FileInv, Readable
<1>10. Apart(t)
  BY <1>1, <1>5, <1>7 DEF Apart
<1>11. FormInv(t)' /\ FileInv(t)'
  BY <1>3, <1>4, <1>5, <1>6 DEF FormInv, FileInv, At
<1>12. Absent(t)' \/ Capturing(t)
  <2>1. SUFFICES ASSUME ~Capturing(t) PROVE Absent(t)'
    OBVIOUS
  <2>2. \A k \in 1 .. Len(Parts), m \in Places(t) : <<t, Parts[k]>> # The(t, m)
    BY <1>0, <2>1, PartFacts DEF The, Nth, Capturing, Whats
  <2> QED
    BY <1>0, <1>1, <1>7, <2>1, <2>2 DEF CaptureInv, Absent
<1>13. TableInv(t)'
  <2>1. job[t].what = "policy" => Report(t) \notin rows'
    <3>1. job[t].what = "policy" => \A m \in Places(t) : The(t, m) = Policy(t)
      BY DEF The, Nth, Captures, Policy
    <3>2. Policy(t) # Report(t)
      BY DEF Policy, Report
    <3> QED
      BY <1>0, <1>7, <3>1, <3>2 DEF TableInv
  <2>2. job[t].what # "policy" => Policy(t) \in rows'
    BY <1>0, <1>7 DEF TableInv
  <2>3. task'[t] # "none" => Policy(t) \in rows'
    <3>1. CASE Capturing(t)
      BY <2>2, <3>1 DEF Capturing, Captures
    <3>2. CASE ~Capturing(t)
      BY <1>0, <1>7, <3>2 DEF TableInv
    <3> QED
      BY <3>1, <3>2
  <2> QED
    BY <1>3, <1>5, <1>6, <1>7, <2>1, <2>2, <2>3 DEF TableInv, At, Policy, Report, Open
<1>14. CaptureInv(t)'
  <2>1. \A k \in Places(t) : ~(k < 1)
    BY <1>0 DEF Places
  <2> QED
    BY <1>0, <1>1, <1>3, <1>5, <1>6, <1>7, <1>12, <2>1 DEF CaptureInv, At, Open
<1>15. \A u \in Tasks : WriterInv(u)'
  BY <1>0, <1>10, <1>11, <1>13, <1>14, OthersKept DEF StorageInv, WriterInv
<1> QED
  BY <1>2, <1>5, <1>8, <1>9, <1>15 DEF StorageInv, JobType, Moves

LEMMA ReconcileCaptureKeeps ==
  ASSUME StorageInv, NEW t \in Tasks, ReconcileCapture(t) \/ ReconcileCaptureFails(t) PROVE StorageInv'
<1>0. /\ StoreType /\ TableType /\ JobType /\ FormInv(t) /\ TableInv(t) /\ CaptureInv(t)
      /\ job[t].i \in Places(t) /\ job[t].what \in Whats
      /\ Count(job[t].what) \in 1 .. Len(Parts) /\ Len(Parts) \in Nat
      /\ Item(t) \in Artifacts /\ Item(t)[1] = t /\ Len(Items(t)) = Count(job[t].what)
      /\ Ids(t) = {The(t, k) : k \in Places(t)}
  BY Basics
<1>1. /\ job[t].step = "reconcile" /\ Capturing(t)
      /\ UNCHANGED <<handle, temp, final, faults, lock, rows, task, cs, run, leased, crashes>>
  BY DEF ReconcileCapture, ReconcileCaptureFails, dbVars, envVars, storeVars, At
<1>2. Touches(Item(t))
  BY <1>0, <1>1, NothingTouched DEF StoreType
<1>3. SUFFICES WriterInv(t)' /\ Moves(t)
  BY <1>0, <1>1, <1>2, QuietKeeps DEF QuietWork, TableType
<1>4. CASE CaptureCommitted(t) /\ Goto(t, "finalize", 1)
  <2>1. 1 \in Places(t) /\ 1 \in 0 .. Len(Parts) /\ "finalize" \in Steps
    BY <1>0 DEF Places, Steps
  <2>2. /\ Moves(t) /\ job'[t].step = "finalize" /\ job'[t].i = 1
        /\ job'[t].what = job[t].what /\ job'[t].res = job[t].res
    BY <1>0, <1>4, <2>1, GotoFacts
  <2>3. /\ Places(t)' = Places(t) /\ \A m : The(t, m)' = The(t, m)
        /\ Capturing(t)' <=> Capturing(t)
    BY <2>2, SameJob
  <2>4. /\ \A k \in Places(t) : The(t, k) \in rows
        /\ cs[t] = job[t].what /\ task[t] = Target(job[t].what)
    BY <1>0, <1>4 DEF CaptureCommitted, VerifiedRecord, Loads
  <2>5. \A k \in Places(t) : ~(k < 1)
    BY <1>0 DEF Places
  <2>6. FormInv(t)' /\ FileInv(t)'
    BY <1>0, <1>1, <2>1, <2>2, <2>3 DEF FormInv, FileInv, At
  <2>7. TableInv(t)'
    BY <1>0, <1>1, <2>2, <2>3, <2>4 DEF TableInv, At, Policy, Report, Open
  <2>8. CaptureInv(t)'
    BY <1>1, <2>2, <2>3, <2>4, <2>5 DEF CaptureInv, At, Open
  <2> QED
    BY <2>2, <2>6, <2>7, <2>8 DEF WriterInv
<1>5. CASE CaptureRolledBack(t) /\ Turn(t, "abort", Len(Items(t)), "error")
  <2>1. PICK made \in Places(t) : made = Count(job[t].what) /\ Turn(t, "abort", made, "error")
    BY <1>0, <1>5 DEF Places
  <2>2. made \in 0 .. Len(Parts) /\ "abort" \in Steps /\ "error" \in Results
    BY <1>0 DEF Places, Steps, Results
  <2>3. /\ Moves(t) /\ job'[t].step = "abort" /\ job'[t].i = made
        /\ job'[t].what = job[t].what /\ job'[t].res = "error"
    BY <1>0, <2>1, <2>2, TurnFacts
  <2>4. /\ Places(t)' = Places(t) /\ \A m : The(t, m)' = The(t, m)
        /\ Capturing(t)' <=> Capturing(t)
    BY <2>3, SameJob
  <2>5. (\A k \in Places(t) : The(t, k) \notin rows) /\ cs[t] = "none"
    BY <1>0, <1>5 DEF CaptureRolledBack
  <2>6. \A k \in Places(t) : handle[The(t, k)] = "published" /\ ~(k > made)
    BY <1>0, <1>1, <2>1 DEF CaptureInv, Places
  <2>7. FormInv(t)' /\ FileInv(t)'
    BY <2>3, <2>4 DEF FormInv, FileInv, At, Failures
  <2>8. TableInv(t)'
    BY <1>0, <1>1, <2>3, <2>4, <2>5 DEF TableInv, At, Policy, Report, Open
  <2>9. CaptureInv(t)'
    BY <1>1, <2>3, <2>4, <2>5, <2>6 DEF CaptureInv, At, Open
  <2> QED
    BY <2>3, <2>7, <2>8, <2>9 DEF WriterInv
<1>6. CASE EndJob(t, "unresolved")
  <2>1. "unresolved" \in Results
    BY DEF Results
  <2> QED
    BY <1>0, <1>1, <1>6, <2>1, EndFacts, EndKeeps
<1> QED
  BY <1>4, <1>5, <1>6 DEF ReconcileCapture, ReconcileCaptureFails, Turn

LEMMA ReconcileCreateKeeps ==
  ASSUME StorageInv, NEW t \in Tasks, ReconcileCreate(t) PROVE StorageInv'
<1>0. /\ StoreType /\ TableType /\ JobType /\ FormInv(t) /\ TableInv(t) /\ CaptureInv(t)
      /\ job[t].i \in Places(t) /\ job[t].what \in Whats
      /\ Item(t) = The(t, job[t].i) /\ Item(t) \in Artifacts /\ Item(t)[1] = t
  BY Basics
<1>1. /\ job[t].step = "reconcile" /\ ~Capturing(t) /\ Absent(t)
      /\ UNCHANGED <<lock, rows, task, cs, run, leased, crashes>>
  BY <1>0 DEF ReconcileCreate, dbVars, envVars, At, CaptureInv
<1>2. job[t].res \in {"ok", "interrupted"}
  BY <1>0, <1>1 DEF FormInv
<1>3. PICK x \in Results :
        /\ EndJob(t, x) /\ Touches(Item(t))
        /\ Item(t) \notin rows \/ (final'[Item(t)] /\ ~temp'[Item(t)])
        /\ x = "ok" => Item(t) \in rows
  <2>1. CASE Item(t) \in rows
    <3>1. Finalize(Item(t)) /\ EndJob(t, job[t].res)
      BY <2>1 DEF ReconcileCreate
    <3>2. Touches(Item(t)) /\ final'[Item(t)] /\ ~temp'[Item(t)]
      BY <1>0, <3>1, FinalizeFacts
    <3>3. job[t].res \in Results
      BY <1>2 DEF Results
    <3> QED
      BY <2>1, <3>1, <3>2, <3>3
  <2>2. CASE Item(t) \notin rows
    <3>1. Abort(Item(t)) /\ \E x \in {"error", "unresolved"} : EndJob(t, x)
      BY <2>2 DEF ReconcileCreate
    <3>2. Touches(Item(t))
      BY <1>0, <3>1, AbortFacts
    <3>3. {"error", "unresolved"} \subseteq Results
      BY DEF Results
    <3> QED
      BY <2>2, <3>1, <3>2, <3>3
  <2> QED
    BY <2>1, <2>2
<1>4. Absent(t)'
  BY <1>0, <1>1, <1>3, OtherPlaces, AbsentKept
<1>5. job[t].what = "policy" /\ x = "ok" => Policy(t) \in rows
  BY <1>0, <1>1, <1>3 DEF The, Nth, Capturing, Policy
<1>6. WriterInv(t)'
  BY <1>1, <1>3, <1>4, <1>5, EndKeeps
<1>7. Moves(t)
  BY <1>0, <1>3, EndFacts
<1> QED
  BY <1>0, <1>1, <1>3, <1>6, <1>7, QuietKeeps DEF QuietWork, TableType

LEMMA FinalizeKeeps ==
  ASSUME StorageInv, NEW t \in Tasks, FinalizePublished(t) PROVE StorageInv'
<1>0. /\ StoreType /\ TableType /\ JobType /\ FormInv(t) /\ TableInv(t) /\ CaptureInv(t)
      /\ job[t].i \in Places(t) /\ job[t].what \in Whats
      /\ Count(job[t].what) \in 1 .. Len(Parts) /\ Len(Parts) \in Nat
      /\ Item(t) = The(t, job[t].i) /\ Item(t) \in Artifacts /\ Item(t)[1] = t
      /\ Last(t) <=> job[t].i = Count(job[t].what)
  BY Basics
<1>1. /\ job[t].step = "finalize" /\ UNCHANGED <<lock, rows, task, cs, run, leased, crashes>>
  BY DEF FinalizePublished, dbVars, envVars, At
<1>2. /\ job[t].res \in {"ok", "interrupted"} /\ job[t].res \in Results
      /\ \A k \in Places(t) : The(t, k) \in rows
      /\ Capturing(t) => cs[t] = job[t].what /\ task[t] = Target(job[t].what)
  BY <1>0, <1>1 DEF FormInv, TableInv, CaptureInv, At, Results
<1>3. job[t].what = "policy" => Policy(t) \in rows
  <2>1. job[t].what = "policy" => The(t, job[t].i) = Policy(t)
    BY DEF The, Nth, Captures, Policy
  <2> QED
    BY <1>0, <1>2, <2>1
<1>4. CASE Finalize(Item(t))
  <2>1. Touches(Item(t)) /\ handle'[Item(t)] = "finalized" /\ final'[Item(t)] /\ ~temp'[Item(t)]
    BY <1>0, <1>4, FinalizeFacts
  <2>2. /\ \A k \in Places(t) : k # job[t].i => handle'[The(t, k)] = handle[The(t, k)]
        /\ ~Capturing(t) => Absent(t)'
    BY <1>0, <1>1, <2>1, OtherPlaces, AbsentKept DEF CaptureInv
  <2>3. Capturing(t) => \A k \in Places(t) : k <= job[t].i => handle'[The(t, k)] = "finalized"
    <3>1. \A k \in Places(t) : k <= job[t].i => k = job[t].i \/ (k < job[t].i /\ k # job[t].i)
      BY <1>0 DEF Places
    <3> QED
      BY <1>0, <1>1, <2>1, <2>2, <3>1 DEF CaptureInv, At
  <2>4. SUFFICES WriterInv(t)' /\ Moves(t)
    BY <1>0, <1>1, <2>1, QuietKeeps DEF QuietWork, TableType
  <2>5. CASE EndJob(t, job[t].res) /\ Last(t)
    <3>1. \A k \in Places(t) : k <= job[t].i
      BY <1>0, <2>5 DEF Places
    <3>2. WriterInv(t)'
      BY <1>1, <1>2, <1>3, <2>2, <2>3, <2>5, <3>1, EndKeeps
    <3> QED
      BY <1>0, <1>2, <2>5, <3>2, EndFacts
  <2>6. CASE ~Last(t) /\ Goto(t, "finalize", job[t].i + 1)
    <3>1. PICK m \in Places(t) : m = job[t].i + 1 /\ Goto(t, "finalize", m)
      BY <1>0, <2>6 DEF Places
    <3>2. m \in 0 .. Len(Parts) /\ "finalize" \in Steps
      BY <1>0 DEF Places, Steps
    <3>3. /\ Moves(t) /\ job'[t].step = "finalize" /\ job'[t].i = m
          /\ job'[t].what = job[t].what /\ job'[t].res = job[t].res
      BY <1>0, <3>1, <3>2, GotoFacts
    <3>4. /\ Places(t)' = Places(t) /\ \A k : The(t, k)' = The(t, k)
          /\ Capturing(t)' <=> Capturing(t)
      BY <3>3, SameJob
    <3>5. \A k \in Places(t) : k < m => k <= job[t].i
      BY <1>0, <3>1 DEF Places
    <3>6. FormInv(t)' /\ FileInv(t)'
      BY <1>2, <3>3, <3>4 DEF FormInv, FileInv, At
    <3>7. TableInv(t)'
      BY <1>0, <1>1, <1>2, <3>3, <3>4 DEF TableInv, At, Policy, Report, Open
    <3>8. CaptureInv(t)'
      BY <1>0, <1>1, <1>2, <2>2, <2>3, <3>3, <3>4, <3>5 DEF CaptureInv, At, Open
    <3> QED
      BY <3>3, <3>6, <3>7, <3>8 DEF WriterInv
  <2>7. CASE FinalizeFails(Item(t)) /\ EndJob(t, "unresolved")
    <3>1. "unresolved" \in Results
      BY DEF Results
    <3>2. WriterInv(t)'
      BY <1>1, <2>2, <2>7, <3>1, EndKeeps
    <3> QED
      BY <1>0, <2>7, <3>1, <3>2, EndFacts
  <2> QED
    BY <2>5, <2>6, <2>7 DEF FinalizePublished
<1>5. CASE FinalizeFails(Item(t)) /\ EndJob(t, "unresolved")
  <2>1. /\ Touches(Item(t)) /\ handle'[Item(t)] = handle[Item(t)]
        /\ (temp'[Item(t)] <=> temp[Item(t)]) /\ (final'[Item(t)] <=> final[Item(t)])
    BY <1>0, <1>5, FinalizeFailsFacts
  <2>2. ~Capturing(t) => Absent(t)'
    BY <1>0, <1>1, <2>1, OtherPlaces, AbsentKept DEF CaptureInv
  <2>3. "unresolved" \in Results
    BY DEF Results
  <2>4. WriterInv(t)'
    BY <1>1, <1>5, <2>2, <2>3, EndKeeps
  <2>5. Moves(t)
    BY <1>0, <1>5, <2>3, EndFacts
  <2> QED
    BY <1>0, <1>1, <2>1, <2>4, <2>5, QuietKeeps DEF QuietWork, TableType
<1> QED
  BY <1>4, <1>5 DEF FinalizePublished

\* An abort that goes on with the artifact before.
Back(t, k, x) == job' = [job EXCEPT ![t].i = k, ![t].res = x]

LEMMA BackFacts ==
  ASSUME JobType, NEW t \in Tasks, NEW k \in 0 .. Len(Parts), NEW x \in Results, Back(t, k, x)
  PROVE  /\ Moves(t) /\ job'[t].step = job[t].step /\ job'[t].i = k
         /\ job'[t].what = job[t].what /\ job'[t].res = x
<1> DEFINE j == [job[t] EXCEPT !.i = k, !.res = x]
<1>1. job[t] \in Jobs
  BY DEF JobType
<1>2. j \in Jobs /\ j.step = job[t].step /\ j.i = k /\ j.what = job[t].what /\ j.res = x
  BY <1>1 DEF Jobs
<1>3. job' = [job EXCEPT ![t] = j]
  BY DEF JobType, Back
<1>4. job' \in [Tasks -> Jobs] /\ job'[t] = j /\ \A u \in Tasks \ {t} : job'[u] = job[u]
  BY <1>2, <1>3 DEF JobType
<1> QED
  BY <1>2, <1>4 DEF Moves

LEMMA AbortKeeps ==
  ASSUME StorageInv, NEW t \in Tasks, AbortStaged(t) PROVE StorageInv'
<1>0. /\ StoreType /\ TableType /\ JobType /\ FormInv(t) /\ TableInv(t) /\ CaptureInv(t)
      /\ job[t].i \in Places(t) /\ job[t].what \in Whats
      /\ Count(job[t].what) \in 1 .. Len(Parts) /\ Len(Parts) \in Nat
      /\ Item(t) = The(t, job[t].i) /\ Item(t) \in Artifacts /\ Item(t)[1] = t
  BY Basics
<1>1. /\ job[t].step = "abort" /\ Abort(Item(t)) /\ UNCHANGED <<lock, rows, task, cs, run, leased, crashes>>
  BY DEF AbortStaged, dbVars, envVars, At
<1>2. /\ job[t].res \in Failures /\ Failures \subseteq Results
      /\ \A k \in Places(t) : The(t, k) \notin rows
      /\ Capturing(t) => cs[t] = "none"
  BY <1>0, <1>1 DEF FormInv, TableInv, CaptureInv, At, Open, Results, Failures
<1>3. /\ Touches(Item(t))
      /\ /\ handle'[Item(t)] = "discarded"
         /\ handle[Item(t)] \in {"published", "cleanup_required"} \/ ~final[Item(t)]
         => ~final'[Item(t)]
  BY <1>0, <1>1, AbortFacts
<1>4. /\ \A k \in Places(t) : k # job[t].i =>
           /\ handle'[The(t, k)] = handle[The(t, k)]
           /\ final'[The(t, k)] <=> final[The(t, k)]
      /\ ~Capturing(t) => Absent(t)'
  BY <1>0, <1>1, <1>3, OtherPlaces, AbsentKept DEF CaptureInv
<1>5. PICK x \in Failures :
        /\ x # "unresolved" => job[t].res = x /\ (Capturing(t) => handle'[Item(t)] = "discarded")
        /\ IF job[t].i = 1 THEN EndJob(t, x) ELSE Back(t, job[t].i - 1, x)
  <2> DEFINE y == IF Capturing(t) /\ handle'[Item(t)] # "discarded" THEN "unresolved" ELSE job[t].res
  <2>1. IF job[t].i = 1 THEN EndJob(t, y) ELSE Back(t, job[t].i - 1, y)
    BY DEF AbortStaged, Back
  <2>2. y \in Failures
    BY <1>2 DEF Failures
  <2>3. y # "unresolved" => job[t].res = y /\ (Capturing(t) => handle'[Item(t)] = "discarded")
    OBVIOUS
  <2> HIDE DEF y
  <2> QED
    BY <2>1, <2>2, <2>3
<1>6. Capturing(t) => \A k \in Places(t) :
        /\ k < job[t].i => handle'[The(t, k)] \in {"published", "cleanup_required"} \/ ~final'[The(t, k)]
        /\ k >= job[t].i /\ x # "unresolved" => ~final'[The(t, k)]
  <2>1. SUFFICES ASSUME Capturing(t), NEW k \in Places(t)
                 PROVE  /\ k < job[t].i => handle'[The(t, k)] \in {"published", "cleanup_required"} \/ ~final'[The(t, k)]
                        /\ k >= job[t].i /\ x # "unresolved" => ~final'[The(t, k)]
    OBVIOUS
  <2>2. CASE k = job[t].i
    <3>1. ~(k < job[t].i) /\ k <= job[t].i
      BY <1>0, <2>2 DEF Places
    <3>2. handle[Item(t)] \in {"published", "cleanup_required"} \/ ~final[Item(t)]
      BY <1>0, <1>1, <2>1, <2>2, <3>1 DEF CaptureInv, At
    <3> QED
      BY <1>0, <1>3, <1>5, <2>1, <2>2, <3>1, <3>2
  <2>3. CASE k < job[t].i
    <3>1. ~(k >= job[t].i) /\ k <= job[t].i /\ k # job[t].i
      BY <1>0, <2>3 DEF Places
    <3>2. handle[The(t, k)] \in {"published", "cleanup_required"} \/ ~final[The(t, k)]
      BY <1>0, <1>1, <2>1, <3>1 DEF CaptureInv, At
    <3> QED
      BY <1>4, <3>1, <3>2
  <2>4. CASE k > job[t].i
    <3>1. ~(k < job[t].i) /\ k # job[t].i
      BY <1>0, <2>4 DEF Places
    <3>2. x # "unresolved" => ~final[The(t, k)]
      BY <1>0, <1>1, <1>5, <2>1, <2>4 DEF CaptureInv, At
    <3> QED
      BY <1>4, <3>1, <3>2
  <2> QED
    BY <1>0, <2>2, <2>3, <2>4 DEF Places
<1>7. SUFFICES WriterInv(t)' /\ Moves(t)
  <2>1. Item(t) \notin rows
    BY <1>0, <1>2
  <2> QED
    BY <1>0, <1>1, <1>3, <1>7, <2>1, QuietKeeps DEF QuietWork, TableType
<1>8. CASE job[t].i = 1
  <2>1. EndJob(t, x) /\ x \in Results
    BY <1>2, <1>5, <1>8
  <2>2. Capturing(t) /\ x \in {"error", "lost"} => Absent(t)'
    <3>1. SUFFICES ASSUME Capturing(t), x # "unresolved" PROVE Absent(t)'
      OBVIOUS
    <3>2. /\ Capturing(t) /\ Places(t) = 1 .. Len(Parts)
          /\ \A k \in Places(t) : The(t, k) = <<t, Parts[k]>>
      BY <3>1 DEF Capturing, Captures, Places, Count, The, Nth
    <3>3. \A k \in Places(t) : k >= job[t].i
      BY <1>8 DEF Places
    <3> QED
      BY <1>1, <1>2, <1>6, <3>1, <3>2, <3>3 DEF Absent
  <2>3. WriterInv(t)'
    <3>1. x \notin {"ok", "interrupted"}
      BY DEF Failures
    <3> QED
      BY <1>1, <1>4, <2>1, <2>2, <3>1, EndKeeps DEF Open
  <2> QED
    BY <1>0, <2>1, <2>3, EndFacts
<1>9. CASE job[t].i # 1
  <2>1. PICK m \in Places(t) : m = job[t].i - 1 /\ Back(t, m, x)
    BY <1>0, <1>5, <1>9 DEF Places
  <2>2. m \in 0 .. Len(Parts) /\ x \in Results
    BY <1>0, <1>2 DEF Places
  <2>3. /\ Moves(t) /\ job'[t].step = "abort" /\ job'[t].i = m
        /\ job'[t].what = job[t].what /\ job'[t].res = x
    BY <1>0, <1>1, <2>1, <2>2, BackFacts
  <2>4. /\ Places(t)' = Places(t) /\ \A k : The(t, k)' = The(t, k)
        /\ Capturing(t)' <=> Capturing(t)
    BY <2>3, SameJob
  <2>5. \A k \in Places(t) : (k <= m => k < job[t].i) /\ (k > m => k >= job[t].i)
    BY <1>0, <2>1 DEF Places
  <2>6. FormInv(t)' /\ FileInv(t)'
    BY <1>5, <2>3, <2>4 DEF FormInv, FileInv, At
  <2>7. TableInv(t)'
    BY <1>0, <1>1, <1>2, <2>3, <2>4 DEF TableInv, At, Policy, Report, Open
  <2>8. CaptureInv(t)'
    BY <1>1, <1>2, <1>4, <1>6, <2>3, <2>4, <2>5 DEF CaptureInv, At, Open
  <2> QED
    BY <2>3, <2>6, <2>7, <2>8 DEF WriterInv
<1> QED
  BY <1>8, <1>9

-------------------------------------------------------------------------------
(* The handler around its jobs, and the environment *)

LEMMA ApartKeeps ==
  ASSUME StorageInv, NEW t \in Tasks, Apart(t), StoreType', TableType', RowsReadable', WriterInv(t)'
  PROVE  StorageInv'
<1>1. JobType'
  BY DEF Apart, Moves, JobType
<1>2. \A u \in Tasks : WriterInv(u)'
  BY OthersKept DEF StorageInv
<1> QED
  BY <1>1, <1>2 DEF StorageInv

\* A step of a handler in the tables: it may change its task's status and delete its policy.
DeskWork(t) ==
  /\ Moves(t)
  /\ UNCHANGED <<handle, temp, final, lock, cs>> /\ faults' \in 0 .. MaxFaults
  /\ run' \in [Tasks -> {"running", "cancelled"}] /\ leased' \in [Tasks -> BOOLEAN]
  /\ crashes' \in 0 .. MaxCrashes
  /\ rows' = rows \/ rows' = rows \ {Policy(t)}
  /\ task' \in [Tasks -> {"none", "running", "succeeded", "failed", "cancelled"}]
  /\ \A u \in Tasks \ {t} : task'[u] = task[u]

LEMMA DeskKeeps ==
  ASSUME StorageInv, NEW t \in Tasks, DeskWork(t), WriterInv(t)'
  PROVE  StorageInv'
<1>0. StoreType /\ TableType /\ RowsReadable
  BY Basics
<1>1. StoreType' /\ TableType'
  BY <1>0 DEF DeskWork, StoreType, TableType
<1>2. RowsReadable'
  BY <1>0 DEF DeskWork, RowsReadable, Readable
<1>3. Apart(t)
  <2>1. ASSUME NEW a \in Artifacts, a[1] # t PROVE a \in rows' <=> a \in rows
    BY <2>1 DEF DeskWork, Policy
  <2> QED
    BY <2>1 DEF DeskWork, Apart
<1> QED
  BY <1>1, <1>2, <1>3, ApartKeeps

LEMMA AbsentStays ==
  ASSUME NEW t \in Tasks, Absent(t), UNCHANGED <<final, cs>>, rows' \subseteq rows
  PROVE  Absent(t)'
BY DEF Absent

\* A handler between two jobs: what its steps have to keep.
LEMMA BetweenJobs ==
  ASSUME NEW t \in Tasks, Absent(t)', job'[t].what \in {"policy", "report"}, job'[t].i = 1,
         job'[t].step \in {"start", "drop", "unlink", "agent", "finish", "done"},
         job'[t].step \in {"start", "drop", "unlink", "agent"} => job'[t].what = "policy",
         job'[t].step = "finish" => job'[t].what = "report",
         TableInv(t)'
  PROVE  WriterInv(t)'
<1>1. ~Capturing(t)' /\ Places(t)' = 1 .. 1
  BY DEF Capturing, Captures, Places, Count
<1>2. FormInv(t)' /\ FileInv(t)'
  BY <1>1 DEF FormInv, FileInv, At
<1>3. CaptureInv(t)'
  BY <1>1 DEF CaptureInv
<1> QED
  BY <1>2, <1>3 DEF WriterInv

LEMMA StartKeeps ==
  ASSUME StorageInv, NEW t \in Tasks, StartTask(t) PROVE StorageInv'
<1>0. /\ StoreType /\ TableType /\ JobType /\ FormInv(t) /\ TableInv(t) /\ CaptureInv(t) /\ Len(Parts) \in Nat
      /\ Count(job[t].what) \in 1 .. Len(Parts)
  BY Basics
<1>1. /\ job[t].step = "start" /\ UNCHANGED <<handle, temp, final, lock, rows, cs, run, leased, crashes>>
  BY DEF StartTask, envVars, At
<1>2. /\ job[t].what = "policy" /\ Policy(t) \in rows /\ Report(t) \notin rows /\ Absent(t)
  BY <1>0, <1>1 DEF FormInv, TableInv, CaptureInv, Capturing, Captures, At
<1>3. PICK s \in {"agent", "drop"} : Goto(t, s, 1)
  BY DEF StartTask
<1>4. s \in Steps /\ 1 \in 0 .. Len(Parts)
  BY <1>0 DEF Steps
<1>5. /\ Moves(t) /\ job'[t].step = s /\ job'[t].i = 1
      /\ job'[t].what = "policy" /\ job'[t].res = job[t].res
  BY <1>0, <1>2, <1>3, <1>4, GotoFacts
<1>6. faults' \in 0 .. MaxFaults
  BY <1>0, FaultAssumption DEF StartTask, StoreType
<1>7. /\ task' \in [Tasks -> {"none", "running", "succeeded", "failed", "cancelled"}]
      /\ \A u \in Tasks \ {t} : task'[u] = task[u]
  <2>1. task' = [task EXCEPT ![t] = "running"] \/ task' = task
    BY DEF StartTask
  <2> QED
    BY <1>0, <2>1 DEF TableType
<1>8. Absent(t)'
  BY <1>1, <1>2, AbsentStays
<1>9. TableInv(t)'
  BY <1>1, <1>2, <1>5 DEF TableInv, At, Policy, Report, Open
<1>10. WriterInv(t)'
  BY <1>5, <1>8, <1>9, BetweenJobs
<1> QED
  BY <1>0, <1>1, <1>5, <1>6, <1>7, <1>10, DeskKeeps DEF DeskWork, TableType

LEMMA DropKeeps ==
  ASSUME StorageInv, NEW t \in Tasks, DropPolicy(t) PROVE StorageInv'
<1>0. /\ StoreType /\ TableType /\ JobType /\ FormInv(t) /\ TableInv(t) /\ CaptureInv(t) /\ Len(Parts) \in Nat
      /\ Count(job[t].what) \in 1 .. Len(Parts)
  BY Basics
<1>1. /\ job[t].step = "drop" /\ UNCHANGED <<handle, temp, final, faults, lock, task, cs, run, leased, crashes>>
  BY DEF DropPolicy, envVars, storeVars, At
<1>2. /\ job[t].what = "policy" /\ Report(t) \notin rows /\ Absent(t)
      /\ task[t] # "none" => Policy(t) \in rows
  BY <1>0, <1>1 DEF FormInv, TableInv, CaptureInv, Capturing, Captures, At
<1>3. PICK s \in {"unlink", "done"} :
        /\ Goto(t, s, 1)
        /\ s = "unlink" => rows' = rows \ {Policy(t)} /\ task[t] = "none"
        /\ s = "done" => rows' = rows
  <2>1. CASE Deletable(<<t, "policy">>)
    BY <2>1 DEF DropPolicy, Deletable, Policy
  <2>2. CASE ~Deletable(<<t, "policy">>)
    BY <2>2 DEF DropPolicy
  <2> QED
    BY <2>1, <2>2
<1>4. s \in Steps /\ 1 \in 0 .. Len(Parts)
  BY <1>0 DEF Steps
<1>5. /\ Moves(t) /\ job'[t].step = s /\ job'[t].i = 1
      /\ job'[t].what = "policy" /\ job'[t].res = job[t].res
  BY <1>0, <1>2, <1>3, <1>4, GotoFacts
<1>6. rows' = rows \/ rows' = rows \ {Policy(t)}
  BY <1>3
<1>7. Absent(t)'
  BY <1>1, <1>2, <1>6, AbsentStays
<1>8. TableInv(t)'
  BY <1>1, <1>2, <1>3, <1>5, <1>6 DEF TableInv, At, Policy, Report, Open
<1>9. WriterInv(t)'
  BY <1>5, <1>7, <1>8, BetweenJobs
<1> QED
  BY <1>0, <1>1, <1>5, <1>6, <1>9, DeskKeeps DEF DeskWork, TableType, StoreType

LEMMA UnlinkKeeps ==
  ASSUME StorageInv, NEW t \in Tasks, UnlinkPolicy(t) PROVE StorageInv'
<1>0. /\ StoreType /\ TableType /\ JobType /\ FormInv(t) /\ TableInv(t) /\ CaptureInv(t) /\ Len(Parts) \in Nat
      /\ Count(job[t].what) \in 1 .. Len(Parts)
  BY Basics
<1>1. /\ job[t].step = "unlink" /\ DeleteFile(Policy(t)) /\ Goto(t, "done", 1)
      /\ UNCHANGED <<lock, rows, task, cs, run, leased, crashes>>
  BY DEF UnlinkPolicy, dbVars, envVars, At, Policy
<1>2. /\ job[t].what = "policy" /\ Report(t) \notin rows /\ Absent(t) /\ Policy(t) \notin rows
      /\ task[t] = "none"
  BY <1>0, <1>1 DEF FormInv, TableInv, CaptureInv, Capturing, Captures, At
<1>3. Policy(t) \in Artifacts /\ Policy(t)[1] = t
  BY DEF Policy, Artifacts, Names
<1>4. Touches(Policy(t))
  BY <1>0, <1>1, <1>3, DeleteFacts
<1>5. "done" \in Steps /\ 1 \in 0 .. Len(Parts)
  BY <1>0 DEF Steps
<1>6. /\ Moves(t) /\ job'[t].step = "done" /\ job'[t].i = 1
      /\ job'[t].what = "policy" /\ job'[t].res = job[t].res
  BY <1>0, <1>1, <1>2, <1>5, GotoFacts
<1>7. Absent(t)'
  <2>1. \A k \in 1 .. Len(Parts) : <<t, Parts[k]>> \in Artifacts \ {Policy(t)}
    BY PartFacts DEF Policy, Artifacts
  <2> QED
    BY <1>1, <1>2, <1>4, <2>1, AbsentKept DEF Touches
<1>8. TableInv(t)'
  BY <1>1, <1>2, <1>6 DEF TableInv, At, Policy, Report, Open
<1>9. WriterInv(t)'
  BY <1>6, <1>7, <1>8, BetweenJobs
<1> QED
  BY <1>0, <1>1, <1>2, <1>3, <1>4, <1>6, <1>9, QuietKeeps DEF QuietWork, TableType

\* The next job of a handler.
Takes(t, j) == job' = [job EXCEPT ![t] = j]

LEMMA TakeFacts ==
  ASSUME JobType, NEW t \in Tasks, NEW j \in Jobs, Takes(t, j)
  PROVE  Moves(t) /\ job'[t] = j
BY DEF JobType, Takes, Moves

LEMMA AgentKeeps ==
  ASSUME StorageInv, NEW t \in Tasks, AgentEnds(t) PROVE StorageInv'
<1>0. /\ StoreType /\ TableType /\ JobType /\ FormInv(t) /\ TableInv(t) /\ CaptureInv(t) /\ Len(Parts) \in Nat
      /\ Count(job[t].what) \in 1 .. Len(Parts)
  BY Basics
<1>1. /\ job[t].step = "agent"
      /\ UNCHANGED <<handle, temp, final, faults, lock, rows, task, cs, run, leased, crashes>>
  BY DEF AgentEnds, dbVars, envVars, storeVars, At
<1>2. /\ job[t].what = "policy" /\ Report(t) \notin rows /\ Absent(t) /\ Policy(t) \in rows
  BY <1>0, <1>1 DEF FormInv, TableInv, CaptureInv, Capturing, Captures, At
<1>3. Absent(t)'
  BY <1>1, <1>2, AbsentStays
<1>4. SUFFICES WriterInv(t)' /\ Moves(t)
  BY <1>0, <1>1, <1>4, DeskKeeps DEF DeskWork, TableType, StoreType
<1>5. PICK s \in {"stage", "finish"}, w \in {"report", "abandoned"} :
        /\ Takes(t, Job(s, w)) \/ (s = "stage" /\ w = "abandoned" /\ Takes(t, Again))
        /\ s = "finish" => w = "report"
  BY DEF AgentEnds, Takes
<1>6. s \in Steps /\ w \in Whats
  BY DEF Steps, Whats, Captures
<1>7. /\ Moves(t) /\ job'[t].step = s /\ job'[t].what = w /\ job'[t].i = 1 /\ job'[t].res = "none"
  <2>1. CASE Takes(t, Job(s, w))
    BY <1>0, <1>6, <2>1, NewJob, TakeFacts
  <2>2. CASE s = "stage" /\ w = "abandoned" /\ Takes(t, Again)
    BY <1>0, <2>2, AgainJob, TakeFacts
  <2> QED
    BY <1>5, <2>1, <2>2
<1>8. CASE w = "report"
  <2>1. /\ ~Capturing(t)' /\ Places(t)' = 1 .. 1 /\ \A k : The(t, k)' = Report(t)
    BY <1>7, <1>8 DEF Capturing, Captures, Places, Count, The, Nth, Report
  <2>2. FormInv(t)' /\ FileInv(t)'
    BY <1>7, <1>8, <2>1 DEF FormInv, FileInv, At
  <2>3. TableInv(t)'
    BY <1>1, <1>2, <1>7, <1>8, <2>1 DEF TableInv, At, Policy, Report, Open
  <2>4. CaptureInv(t)'
    BY <1>3, <2>1 DEF CaptureInv
  <2> QED
    BY <1>7, <2>2, <2>3, <2>4 DEF WriterInv
<1>9. CASE w = "abandoned"
  <2>1. /\ Capturing(t)' /\ Places(t)' = 1 .. Len(Parts)
        /\ \A k \in 1 .. Len(Parts) : The(t, k)' = <<t, Parts[k]>>
    BY <1>7, <1>9 DEF Capturing, Captures, Places, Count, The, Nth
  <2>2. s = "stage"
    BY <1>5, <1>9
  <2>3. FormInv(t)' /\ FileInv(t)'
    BY <1>7, <1>9, <2>1, <2>2, PartFacts DEF FormInv, FileInv, At
  <2>4. TableInv(t)'
    BY <1>1, <1>2, <1>3, <1>7, <1>9, <2>1, <2>2 DEF TableInv, At, Policy, Report, Open, Absent
  <2>5. CaptureInv(t)'
    BY <1>3, <1>7, <2>1, <2>2 DEF CaptureInv, At, Absent, Open
  <2> QED
    BY <1>7, <2>3, <2>4, <2>5 DEF WriterInv
<1> QED
  BY <1>8, <1>9

LEMMA FinishKeeps ==
  ASSUME StorageInv, NEW t \in Tasks, FinishTask(t) PROVE StorageInv'
<1>0. /\ StoreType /\ TableType /\ JobType /\ FormInv(t) /\ TableInv(t) /\ CaptureInv(t)
      /\ job[t].i \in Places(t)
  BY Basics
<1>1. /\ job[t].step = "finish" /\ UNCHANGED <<handle, temp, final, faults, lock, rows, cs, run, leased, crashes>>
  BY DEF FinishTask, envVars, storeVars, At
<1>2. /\ job[t].what = "report" /\ Absent(t) /\ Policy(t) \in rows
  BY <1>0, <1>1 DEF FormInv, TableInv, CaptureInv, Capturing, Captures, At
<1>3. job[t].i = 1
  BY <1>0, <1>2 DEF Places, Count, Captures
<1> DEFINE j == [job[t] EXCEPT !.step = "done", !.res = "error"]
<1>4. j \in Jobs /\ j.step = "done" /\ j.what = "report" /\ j.i = 1
  <2>1. job[t] \in Jobs /\ "done" \in Steps /\ "error" \in Results
    BY <1>0 DEF JobType, Steps, Results
  <2> QED
    BY <1>2, <1>3, <2>1 DEF Jobs
<1>5. Takes(t, j)
  BY <1>0 DEF FinishTask, Takes, JobType
<1> HIDE DEF j
<1>6. Moves(t) /\ job'[t].step = "done" /\ job'[t].what = "report" /\ job'[t].i = 1
  BY <1>0, <1>4, <1>5, TakeFacts
<1>7. /\ task' \in [Tasks -> {"none", "running", "succeeded", "failed", "cancelled"}]
      /\ \A u \in Tasks \ {t} : task'[u] = task[u]
  <2>1. task' = [task EXCEPT ![t] = "failed"] \/ task' = task
    BY DEF FinishTask
  <2> QED
    BY <1>0, <2>1 DEF TableType
<1>8. Absent(t)'
  BY <1>1, <1>2, AbsentStays
<1>9. TableInv(t)'
  BY <1>1, <1>2, <1>6 DEF TableInv, At, Policy, Report, Open
<1>10. WriterInv(t)'
  BY <1>6, <1>8, <1>9, BetweenJobs
<1> QED
  BY <1>0, <1>1, <1>6, <1>7, <1>10, DeskKeeps DEF DeskWork, TableType, StoreType

LEMMA CancelKeeps ==
  ASSUME StorageInv, NEW t \in Tasks, CancelRun(t) PROVE StorageInv'
<1>0. /\ StoreType /\ TableType /\ JobType /\ FormInv(t) /\ TableInv(t) /\ FileInv(t) /\ CaptureInv(t)
  BY Basics
<1>1. UNCHANGED <<handle, temp, final, faults, lock, rows, cs, leased, job, crashes>>
  BY DEF CancelRun, storeVars
<1>2. run' \in [Tasks -> {"running", "cancelled"}]
  BY <1>0 DEF CancelRun, TableType
<1>3. /\ task' \in [Tasks -> {"none", "running", "succeeded", "failed", "cancelled"}]
      /\ \A u \in Tasks \ {t} : task'[u] = task[u]
      /\ task'[t] = AfterCancel(task[t])
  <2>1. /\ task \in [Tasks -> {"none", "running", "succeeded", "failed", "cancelled"}]
        /\ task' = [task EXCEPT ![t] = AfterCancel(task[t])]
    BY <1>0 DEF CancelRun, TableType
  <2>2. AfterCancel(task[t]) \in {"none", "running", "succeeded", "failed", "cancelled"}
    BY <2>1 DEF AfterCancel
  <2> QED
    BY <2>1, <2>2
<1>4. /\ task'[t] # "none" => task[t] # "none"
      /\ \A w : task[t] = Target(w) => task'[t] = Target(w)
  BY <1>3 DEF AfterCancel, Target
<1>5. Moves(t)
  BY <1>0, <1>1 DEF JobType, Moves
<1>6. /\ Places(t)' = Places(t) /\ \A k : The(t, k)' = The(t, k)
      /\ Capturing(t)' <=> Capturing(t)
  BY <1>1, SameJob
<1>7. Absent(t)' <=> Absent(t)
  BY <1>1 DEF Absent
<1>8. FormInv(t)' /\ FileInv(t)'
  BY <1>0, <1>1, <1>6 DEF FormInv, FileInv, At, Readable
<1>9. TableInv(t)'
  BY <1>0, <1>1, <1>4, <1>6 DEF TableInv, At, Policy, Report
<1>10. CaptureInv(t)'
  BY <1>0, <1>1, <1>4, <1>6, <1>7 DEF CaptureInv, At
<1>11. WriterInv(t)'
  BY <1>8, <1>9, <1>10 DEF WriterInv
<1> QED
  BY <1>0, <1>1, <1>2, <1>3, <1>5, <1>11, DeskKeeps DEF DeskWork, TableType, StoreType

\* Nothing that the invariant speaks of has changed.
LEMMA Untouched ==
  ASSUME StorageInv, UNCHANGED <<handle, temp, final, faults, rows, lock, task, cs, run, job, crashes>>,
         leased' \in [Tasks -> BOOLEAN]
  PROVE  StorageInv'
<1>1. StoreType' /\ TableType' /\ JobType' /\ RowsReadable'
  BY DEF StorageInv, StoreType, TableType, JobType, RowsReadable, Readable
<1>2. ASSUME NEW t \in Tasks PROVE WriterInv(t)'
  <2>1. /\ Places(t)' = Places(t) /\ \A k : The(t, k)' = The(t, k)
        /\ Capturing(t)' <=> Capturing(t)
    BY SameJob
  <2>2. WriterInv(t) /\ (Absent(t)' <=> Absent(t))
    BY DEF StorageInv, Absent
  <2>3. FormInv(t)' /\ TableInv(t)' /\ FileInv(t)'
    BY <2>1, <2>2 DEF WriterInv, FormInv, TableInv, FileInv, At, Readable
  <2>4. CaptureInv(t)'
    BY <2>1, <2>2 DEF WriterInv, CaptureInv, At
  <2> QED
    BY <2>3, <2>4 DEF WriterInv
<1> QED
  BY <1>1, <1>2 DEF StorageInv

LEMMA LoseKeeps ==
  ASSUME StorageInv, NEW t \in Tasks, LoseLease(t) PROVE StorageInv'
<1>1. leased' \in [Tasks -> BOOLEAN]
  BY DEF LoseLease, StorageInv, TableType
<1> QED
  BY <1>1, Untouched DEF LoseLease, storeVars, dbVars

\* A process that dies forgets its handles; its rows and files stay as they are.
LEMMA CrashKeeps ==
  ASSUME StorageInv, NEW t \in Tasks, Crash(t) PROVE StorageInv'
<1>0. /\ StoreType /\ TableType /\ JobType /\ RowsReadable /\ FormInv(t) /\ TableInv(t) /\ CaptureInv(t)
      /\ job[t].i \in Places(t) /\ Len(Parts) \in Nat /\ Count(job[t].what) \in 1 .. Len(Parts)
  BY Basics
<1>1. UNCHANGED <<temp, final, faults, rows, task, cs, run, leased>> /\ crashes' \in 0 .. MaxCrashes
  BY <1>0, SizeAssumption DEF Crash, Forget, dbVars, TableType
<1>2. /\ handle' \in [Artifacts -> HandleStates]
      /\ \A a \in Artifacts : a[1] # t => handle'[a] = handle[a]
  <2>1. handle' = [a \in Artifacts |-> IF a \in {t} \X Names THEN "none" ELSE handle[a]]
    BY <1>0 DEF Crash, Forget, StoreType
  <2>2. "none" \in HandleStates
    BY DEF HandleStates
  <2>3. \A a \in {t} \X Names : a[1] = t
    OBVIOUS
  <2> QED
    BY <1>0, <2>1, <2>2, <2>3 DEF StoreType
<1>3. lock' \in Tasks \cup {"free"}
  BY <1>0 DEF Crash, TableType
<1> DEFINE j == [job[t] EXCEPT !.step = "dead"]
<1>4. j \in Jobs /\ j.step = "dead" /\ j.what = job[t].what /\ j.i = job[t].i
  <2>1. job[t] \in Jobs /\ "dead" \in Steps
    BY <1>0 DEF JobType, Steps
  <2> QED
    BY <2>1 DEF Jobs
<1>5. Takes(t, j)
  BY <1>0 DEF Crash, Takes, JobType
<1> HIDE DEF j
<1>6. Moves(t) /\ job'[t].step = "dead" /\ job'[t].what = job[t].what /\ job'[t].i = job[t].i
  BY <1>0, <1>4, <1>5, TakeFacts
<1>7. /\ Places(t)' = Places(t) /\ \A k : The(t, k)' = The(t, k)
      /\ Capturing(t)' <=> Capturing(t)
  BY <1>6, SameJob
<1>8. Absent(t)' <=> Absent(t)
  BY <1>1 DEF Absent
<1>9. FormInv(t)' /\ FileInv(t)'
  BY <1>0, <1>6, <1>7 DEF FormInv, FileInv, At
<1>10. TableInv(t)'
  BY <1>0, <1>1, <1>6, <1>7 DEF TableInv, At, Policy, Report, Open
<1>11. CaptureInv(t)'
  BY <1>0, <1>6, <1>7, <1>8 DEF CaptureInv, At, Open
<1>12. WriterInv(t)'
  BY <1>9, <1>10, <1>11 DEF WriterInv
<1>13. StoreType' /\ TableType' /\ RowsReadable'
  BY <1>0, <1>1, <1>2, <1>3 DEF StoreType, TableType, RowsReadable, Readable
<1>14. Apart(t)
  BY <1>1, <1>2, <1>6 DEF Apart
<1> QED
  BY <1>12, <1>13, <1>14, ApartKeeps

-------------------------------------------------------------------------------
(* The invariant *)

LEMMA InitStores ==
  ASSUME Init PROVE StorageInv
<1>1. StoreType
  BY FaultAssumption DEF Init, StoreType, HandleStates
<1>2. TableType
  BY SizeAssumption DEF Init, TableType
<1>3. "stage" \in Steps /\ "policy" \in Whats
  BY DEF Steps, Whats
<1>4. JobType
  BY <1>3, NewJob DEF Init, JobType
<1>5. RowsReadable
  BY DEF Init, RowsReadable
<1>6. ASSUME NEW t \in Tasks PROVE WriterInv(t)
  <2>1. /\ job[t].step = "stage" /\ job[t].what = "policy" /\ job[t].i = 1
    BY <1>3, NewJob DEF Init
  <2>2. ~Capturing(t) /\ Places(t) = 1 .. 1
    BY <2>1 DEF Capturing, Captures, Places, Count
  <2>3. FormInv(t) /\ FileInv(t)
    BY <2>1, <2>2 DEF FormInv, FileInv, At
  <2>4. TableInv(t)
    BY <2>1 DEF TableInv, At, Init
  <2>5. Absent(t)
    <3>1. \A k \in 1 .. Len(Parts) : <<t, Parts[k]>> \in Artifacts
      BY PartFacts DEF Artifacts
    <3> QED
      BY <3>1 DEF Init, Absent
  <2>6. CaptureInv(t)
    BY <2>2, <2>5 DEF CaptureInv
  <2> QED
    BY <2>3, <2>4, <2>6 DEF WriterInv
<1> QED
  BY <1>1, <1>2, <1>4, <1>5, <1>6 DEF StorageInv

LEMMA NextStores ==
  ASSUME StorageInv, [Next]_vars PROVE StorageInv'
<1>1. CASE UNCHANGED vars
  <2>1. leased' \in [Tasks -> BOOLEAN]
    BY <1>1 DEF vars, StorageInv, TableType
  <2> QED
    BY <1>1, <2>1, Untouched DEF vars
<1>2. ASSUME NEW t \in Tasks, Work(t) PROVE StorageInv'
  <2>1. CASE Stage(t) \/ StageFails(t) \/ Begin(t) \/ Publish(t) \/ OverQuota(t)
    BY <2>1, StageKeeps, StageFailsKeeps, BeginKeeps, PublishKeeps
  <2>2. CASE Register(t) \/ RegisterFails(t) \/ InsertCapture(t) \/ Commit(t) \/ CommitRaises(t)
    BY <2>2, RegisterKeeps, RegisterFailsKeeps, InsertKeeps, CommitKeeps
  <2>3. CASE \/ ReconcileCapture(t) \/ ReconcileCaptureFails(t) \/ ReconcileCreate(t)
             \/ FinalizePublished(t) \/ AbortStaged(t)
    BY <2>3, ReconcileCaptureKeeps, ReconcileCreateKeeps, FinalizeKeeps, AbortKeeps
  <2>4. CASE StartTask(t) \/ DropPolicy(t) \/ UnlinkPolicy(t) \/ AgentEnds(t) \/ FinishTask(t)
    BY <2>4, StartKeeps, DropKeeps, UnlinkKeeps, AgentKeeps, FinishKeeps
  <2> QED
    BY <1>2, <2>1, <2>2, <2>3, <2>4 DEF Work
<1>3. ASSUME NEW t \in Tasks, CancelRun(t) \/ LoseLease(t) \/ Crash(t) PROVE StorageInv'
  BY <1>3, CancelKeeps, LoseKeeps, CrashKeeps
<1> QED
  BY <1>1, <1>2, <1>3 DEF Next

\* Every writer's rows, files and handles are what the step of its job says.
THEOREM StorageInvariant == Spec => []StorageInv
<1>1. Init => StorageInv
  BY InitStores
<1>2. StorageInv /\ [Next]_vars => StorageInv'
  BY NextStores
<1> QED
  BY <1>1, <1>2, PTL DEF Spec

\* Every variable keeps its type (handles, files, tables and the writers' jobs).
THEOREM CaptureTyped == Spec => []TypeOK
<1>1. StorageInv => TypeOK
  BY DEF StorageInv, StoreType, TableType, JobType, TypeOK, Jobs, Whats
<1> QED
  BY <1>1, StorageInvariant, PTL

\* A committed artifact can always be read back, whatever transaction failed, was retried or
\* was interrupted, and wherever a process died (artifact_repository.get_and_verify).
THEOREM CommittedIsReadable == Spec => []RowsReadable
<1>1. StorageInv => RowsReadable
  BY DEF StorageInv
<1> QED
  BY <1>1, StorageInvariant, PTL

\* A task that was ever started keeps the artifact of its policy (_delete_unbound_policy).
THEOREM StartedKeepsPolicy == Spec => []StartedHasPolicy
<1>1. StorageInv => StartedHasPolicy
  BY DEF StorageInv, WriterInv, TableInv, StartedHasPolicy, Policy
<1> QED
  BY <1>1, StorageInvariant, PTL

\* A capture that reports an error or a lost lease has left nothing, be it the first, the one
\* kept as abandoned after it or the one tried once more after that; one that returns is durable as a whole
\* (persist_capture, _reconcile_capture_commit, _abort_staged_artifacts).
THEOREM CapturesAllOrNothing == Spec => []AllOrNothing
<1>1. ASSUME StorageInv PROVE AllOrNothing
  <2>1. SUFFICES ASSUME NEW t \in Tasks
        PROVE  /\ \/ Capturing(t) /\ At(t, "done") /\ job[t].res \in {"error", "lost"}
                  \/ job[t].what = "abandoned" /\ At(t, "stage") /\ job[t].i = 1
                  => /\ cs[t] = "none"
                     /\ \A i \in DOMAIN Parts : <<t, Parts[i]>> \notin rows /\ ~final[<<t, Parts[i]>>]
               /\ Capturing(t) /\ At(t, "done") /\ job[t].res \in {"ok", "interrupted"}
                  => /\ cs[t] = job[t].what /\ task[t] = Target(job[t].what)
                     /\ VerifiedRecord(t) /\ \A a \in Ids(t) : handle[a] = "finalized"
    BY DEF AllOrNothing
  <2>0. /\ RowsReadable /\ TableInv(t) /\ CaptureInv(t) /\ Ids(t) = {The(t, k) : k \in Places(t)}
        /\ DOMAIN Parts = 1 .. Len(Parts)
    BY <1>1, Basics, PartFacts
  <2>2. ASSUME Capturing(t), At(t, "done"), job[t].res \in {"error", "lost"} PROVE Absent(t)
    BY <2>0, <2>2 DEF CaptureInv
  <2>3. ASSUME job[t].what = "abandoned", At(t, "stage") PROVE Absent(t)
    <3>1. /\ Capturing(t) /\ Places(t) = 1 .. Len(Parts)
          /\ \A k \in Places(t) : The(t, k) = <<t, Parts[k]>>
      BY <2>3 DEF Capturing, Captures, Places, Count, The, Nth
    <3> QED
      BY <2>0, <2>3, <3>1 DEF Absent, CaptureInv, TableInv, Open, At
  <2>4. ASSUME Capturing(t), At(t, "done"), job[t].res \in {"ok", "interrupted"}
        PROVE  /\ cs[t] = job[t].what /\ task[t] = Target(job[t].what)
               /\ VerifiedRecord(t) /\ \A a \in Ids(t) : handle[a] = "finalized"
    <3>1. /\ cs[t] = job[t].what /\ task[t] = Target(job[t].what)
          /\ \A k \in Places(t) : The(t, k) \in rows /\ handle[The(t, k)] = "finalized"
      BY <2>0, <2>4 DEF CaptureInv
    <3> QED
      BY <2>0, <3>1 DEF VerifiedRecord, Loads, RowsReadable
  <2> QED
    BY <2>0, <2>2, <2>3, <2>4 DEF Absent
<1> QED
  BY <1>1, StorageInvariant, PTL

================================================================================
