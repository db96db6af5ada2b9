---------------------------- MODULE ChannelProofs ----------------------------
(***************************************************************************)
(* Theorems about Generation when one channel brings the provider's        *)
(* answers, the poller or the webhook, and the process is not killed: for  *)
(* any number of users, jobs, deliveries and prices, every job is charged  *)
(* or refunded but never both, stays as it finished, reports what it was   *)
(* charged, waits for its fallback and holds its tokens exactly as long as *)
(* it runs.  With two channels, or a crash, the code breaks the first of   *)
(* these, and with a submission that ends well without an audio URL the    *)
(* last (see the README).                                                  *)
(*                                                                         *)
(* The argument: nobody but the request works on a job before its request  *)
(* id is recorded, and one task of the channel at a time afterwards, since *)
(* the poller has one row in hand and an event is claimed once; what such  *)
(* a task read of the row is therefore still so when it handles the row.   *)
(***************************************************************************)
EXTENDS GenerationProofs

OneChannel == MaxCrashes = 0 /\ (Hooks = {} \/ ~PollEnabled)

\* The tasks that bring the provider's answers.
Channels == Hooks \cup {Poller}

\* Where such a task is outside the pipeline.
OffPCs == {"idle", "claimed", "ack"}

\* The places of a request that creates a job.
RequestPCs == {"idle", "add", "reserve", "submit", "setstage", "release",
               "markfailed", "replied"}

\* The poller or a delivery works on job j.
Works(t, j) == JobOf(t) = j /\ task[t].pc \notin OffPCs

Worked(j) == \E t \in Channels : Works(t, j)

RowFor(j) == [job |-> j, stage |-> job[j].stage, rid |-> job[j].rid,
              model |-> job[j].model]

\* There was no crash, so the sweep has nothing to do.
Quiet == orphans = {} /\ At(Sweep, "idle")

\* A poller that is not started has nothing in hand.
PollerOff == ~PollEnabled => todo = {} /\ At(Poller, "idle")

\* What the poller read is still so.
TodoFresh ==
  \A row \in todo : \E j \in Jobs : row = RowFor(j) /\ Active(j) /\ ~Worked(j)

\* A delivery is about a submission that ended, and no other is about the same.
ClaimsApart ==
  \A h \in Hooks :
    ~At(h, "idle") =>
      /\ Finished(JobOf(h), task[h].event)
      /\ \A g \in Hooks :
           ~At(g, "idle") /\ JobOf(g) = JobOf(h) /\ task[g].event = task[h].event =>
             g = h

AmountOf(j) == -ledger[<<j, "debit_capture">>].amount

\* The request makes the row and is done when it has recorded the request
\* id; the channel handles active jobs whose request has ended, each by one
\* task, and a delivery only while the job waits for its event.
OneWorker(j) ==
  /\ task[j].pc \in RequestPCs
  /\ task[j].pc \in {"idle", "add"} => job[j].status = "absent"
  /\ task[j].pc \notin {"idle", "add", "replied"} => job[j].status = "queued"
  /\ job[j].rid # "none" =>
       task[j].pc = "replied" /\ Posted(j, "debit_reserve")
  /\ job[j].status = "processing" => job[j].rid # "none"
  /\ Worked(j) => job[j].rid # "none" /\ ~Terminal(j)
  /\ job[j].rid # "none" /\ (Worked(j) \/ Terminal(j)) =>
       Finished(j, job[j].rid)
  /\ \A s, t \in Channels : Works(s, j) /\ Works(t, j) => s = t
  /\ \A h \in Hooks : Works(h, j) => task[h].event = job[j].rid

\* The final status is written right after the settlement, by the task that
\* settled, with the amount it settled.
SettledAsSaid(j) ==
  /\ j \in tracks => job[j].status = "succeeded"
  /\ Posted(j, "debit_capture") =>
       \/ job[j].status = "succeeded"
       \/ \E t \in Channels : Works(t, j) /\ At(t, "commit")
  /\ Posted(j, "credit_release") =>
       \/ job[j].status = "failed"
       \/ At(j, "markfailed")
       \/ \E t \in Channels : Works(t, j) /\ At(t, "markfailed")
  /\ \A t \in Channels :
       Works(t, j) /\ At(t, "commit") => task[t].captured = AmountOf(j)
  /\ job[j].status = "succeeded" => job[j].captured = AmountOf(j)

AloneOf(j) == OneWorker(j) /\ SettledAsSaid(j)

\* The channel as a whole.
ChannelFits == Quiet /\ PollerOff /\ TodoFresh /\ ClaimsApart

Alone == ChannelFits /\ \A j \in Jobs : AloneOf(j)

-----------------------------------------------------------------------------
(* A step of one task concerns one job. *)

\* What the promises made of job i are about is as it was.
Same(i) ==
  /\ job'[i] = job[i]
  /\ task'[i] = task[i]
  /\ i \in tracks' <=> i \in tracks
  /\ \A kind \in Kinds : ledger'[<<i, kind>>] = ledger[<<i, kind>>]
  /\ \A k \in SubmitKinds : Finished(i, k) => Finished(i, k)'
  /\ \A t \in Channels : /\ Works(t, i)' <=> Works(t, i)
                         /\ Works(t, i) => task'[t] = task[t]

LEMMA SameKeeps ==
  ASSUME GenInv, NEW i \in Jobs, AloneOf(i), Same(i)
  PROVE  AloneOf(i)'
<1>1. job[i] \in Job
  BY DEF GenInv, GenTypeOK
<1>2. Worked(i)' <=> Worked(i)
  BY DEF Same, Worked
<1>3. \A t \in Channels, pc \in PCs :
        (Works(t, i) /\ At(t, pc))' <=> Works(t, i) /\ At(t, pc)
  BY DEF Same, At
<1>4. /\ Posted(i, "debit_reserve")' <=> Posted(i, "debit_reserve")
      /\ Posted(i, "debit_capture")' <=> Posted(i, "debit_capture")
      /\ Posted(i, "credit_release")' <=> Posted(i, "credit_release")
      /\ AmountOf(i)' = AmountOf(i)
  BY KindTypes DEF Same, Posted, AmountOf
<1>5. OneWorker(i)'
  <2>1. OneWorker(i)
    BY DEF AloneOf
  <2>2. \A s, t \in Channels : (Works(s, i) /\ Works(t, i))' => s = t
    BY <2>1 DEF OneWorker, Same
  <2>3. \A h \in Hooks : Works(h, i)' => task'[h].event = job'[i].rid
    BY <2>1 DEF OneWorker, Same, Channels
  <2>4. job[i].rid # "none" /\ Finished(i, job[i].rid) => Finished(i, job[i].rid)'
    BY <1>1 DEF Same, Job
  <2>5. /\ task'[i].pc = task[i].pc /\ job'[i].rid = job[i].rid
        /\ job'[i].status = job[i].status /\ (Terminal(i)' <=> Terminal(i))
    BY DEF Same, Terminal
  <2> QED
    BY <1>2, <1>4, <2>1, <2>2, <2>3, <2>4, <2>5 DEF OneWorker, Same, Finished
<1>6. SettledAsSaid(i)'
  <2>1. SettledAsSaid(i)
    BY DEF AloneOf
  <2>2. "commit" \in PCs /\ "markfailed" \in PCs
    BY DEF PCs
  <2>3. At(i, "markfailed")' <=> At(i, "markfailed")
    BY DEF Same, At
  <2>4. \A t \in Channels :
          (Works(t, i) /\ At(t, "commit"))' => task'[t].captured = AmountOf(i)'
    BY <1>3, <1>4, <2>1, <2>2 DEF SettledAsSaid, Same
  <2> QED
    BY <1>3, <1>4, <2>1, <2>2, <2>3, <2>4 DEF SettledAsSaid, Same
<1> QED
  BY <1>5, <1>6 DEF AloneOf

\* The step leaves every other job alone.
Elsewhere(j) ==
  /\ \A i \in Jobs \ {j} :
       /\ job'[i] = job[i]
       /\ i \in tracks' <=> i \in tracks
       /\ \A kind \in Kinds : ledger'[<<i, kind>>] = ledger[<<i, kind>>]
  /\ \A i \in Jobs, k \in SubmitKinds : Finished(i, k) => Finished(i, k)'
  /\ todo' \subseteq todo
  /\ orphans' = orphans

\* The locals x of a task of the channel that goes on with its job and its
\* event, or ends.
Stays(t, j, x) == x.pc = "idle" \/ (x.job = j /\ x.event = task[t].event)

\* What a delivery is about.
LEMMA ClaimType ==
  ASSUME GenInv, NEW h \in Hooks, ~At(h, "idle")
  PROVE  JobOf(h) \in Jobs /\ task[h].event \in SubmitKinds
<1>1. <<JobOf(h), task[h].event>> \in seen
  BY TaskNames DEF GenInv, LocalsHold, LocalsOf
<1> QED
  BY <1>1 DEF GenInv, GenTypeOK

LEMMA ChannelNames ==
  \A t \in Channels : t \in Tasks /\ t \notin Jobs /\ t # Sweep
  BY TaskNames, NamesAssumption DEF Channels, Poller, Sweep

\* A step of a delivery or of the request of a job leaves the claims apart.
LEMMA ClaimsKept ==
  ASSUME GenInv, ClaimsApart, NEW t \in Tasks, NEW j \in Jobs, NEW x,
         task' = [task EXCEPT ![t] = x],
         t \in Hooks => Stays(t, JobOf(t), x) /\ ~At(t, "idle"),
         \A i \in Jobs, k \in SubmitKinds : Finished(i, k) => Finished(i, k)'
  PROVE  ClaimsApart'
<1>1. task'[t] = x /\ \A s \in Tasks \ {t} : task'[s] = task[s]
  BY DEF GenInv, GenTypeOK
<1>2. ASSUME NEW h \in Hooks, ~At(h, "idle")'
      PROVE  /\ ~At(h, "idle") /\ JobOf(h)' = JobOf(h)
             /\ task'[h].event = task[h].event
  BY <1>1, <1>2, TaskNames DEF Stays, At, JobOf
<1>3. ASSUME NEW h \in Hooks, ~At(h, "idle")'
      PROVE  Finished(JobOf(h), task[h].event)'
  <2>1. Finished(JobOf(h), task[h].event)
    BY <1>2, <1>3 DEF ClaimsApart
  <2>2. JobOf(h) \in Jobs /\ task[h].event \in SubmitKinds
    BY <1>2, <1>3, ClaimType
  <2>3. fal'[JobOf(h)][task[h].event] \in AllOutcomes
    BY <2>1, <2>2 DEF Finished
  <2> QED
    BY <1>2, <1>3, <2>3 DEF Finished
<1> QED
  BY <1>2, <1>3 DEF ClaimsApart

LEMMA TaskStep ==
  ASSUME GenInv, Alone, NEW t \in Tasks, NEW j \in Jobs, NEW x,
         task' = [task EXCEPT ![t] = x],
         \/ t = j /\ task[j].pc # "replied"
         \/ t \in Channels /\ Works(t, j) /\ Stays(t, j, x),
         Elsewhere(j),
         AloneOf(j)'
  PROVE  Alone'
<1>1. /\ task \in [Tasks -> Task] /\ j \in Tasks /\ Sweep \in Tasks
      /\ Sweep \notin Jobs /\ \A s \in Channels : s \in Tasks /\ s # Sweep
  BY TaskNames, ChannelNames DEF GenInv, GenTypeOK
<1>2. task'[t] = x /\ \A s \in Tasks \ {t} : task'[s] = task[s]
  BY <1>1
<1>3. Quiet'
  BY <1>1, <1>2 DEF Alone, ChannelFits, Quiet, Elsewhere, At
<1>4. ASSUME NEW i \in Jobs \ {j}, NEW s \in Channels
      PROVE  /\ Works(s, i)' <=> Works(s, i)
             /\ Works(s, i) => task'[s] = task[s]
  BY <1>1, <1>2, ChannelNames DEF Works, JobOf, Stays, OffPCs
<1>5. \A i \in Jobs \ {j} : Worked(i)' <=> Worked(i)
  BY <1>4 DEF Worked
<1>6. ASSUME NEW i \in Jobs \ {j}
      PROVE  AloneOf(i)'
  <2>1. task'[i] = task[i]
    BY <1>1, <1>2, TaskNames, ChannelNames
  <2>2. Same(i)
    BY <1>4, <2>1 DEF Same, Elsewhere
  <2> QED
    BY <2>2, SameKeeps DEF Alone
<1>7. TodoFresh'
  <2> SUFFICES ASSUME NEW row \in todo'
               PROVE  \E i \in Jobs : (row = RowFor(i) /\ Active(i) /\ ~Worked(i))'
    BY DEF TodoFresh
  <2>1. PICK i \in Jobs : row = RowFor(i) /\ Active(i) /\ ~Worked(i)
    BY DEF Alone, ChannelFits, TodoFresh, Elsewhere
  <2>2. i # j
    BY <2>1 DEF Alone, AloneOf, OneWorker, Active, Worked
  <2>3. job'[i] = job[i] /\ ~Worked(i)'
    BY <1>5, <2>1, <2>2 DEF Elsewhere
  <2> QED
    BY <2>1, <2>3 DEF RowFor, Active
<1>8. PollerOff'
  <2>1. t = Poller => ~At(Poller, "idle")
    BY TaskNames DEF Works, OffPCs, At
  <2> QED
    BY <1>2, <2>1, TaskNames DEF Alone, ChannelFits, PollerOff, Elsewhere, At
<1>9. ClaimsApart'
  <2>1. t \in Hooks => Stays(t, JobOf(t), x) /\ ~At(t, "idle")
    BY TaskNames DEF Works, OffPCs, At
  <2> QED
    BY <2>1, ClaimsKept DEF Alone, ChannelFits, Elsewhere
<1> QED
  BY <1>3, <1>6, <1>7, <1>8, <1>9 DEF Alone, ChannelFits

\* A submission takes no outcome away.
LEMMA SubmittedKeeps ==
  ASSUME GenInv, NEW j \in Jobs, NEW kind \in SubmitKinds, Submitted(j, kind)
  PROVE  \A i \in Jobs, k \in SubmitKinds : Finished(i, k) => Finished(i, k)'
<1>1. fal \in [Jobs -> [SubmitKinds -> AllOutcomes \cup {"none", "running"}]]
  BY DEF GenInv, GenTypeOK
<1>2. fal' = [fal EXCEPT ![j][kind] = IF @ = "none" THEN "running" ELSE @]
  BY DEF Submitted
<1> QED
  BY <1>1, <1>2 DEF Finished, AllOutcomes

LEMMA WalletElsewhere ==
  ASSUME UNCHANGED walletVars
  PROVE  \A i \in Jobs, kind \in Kinds : ledger'[<<i, kind>>] = ledger[<<i, kind>>]
  BY DEF walletVars

\* Who runs the pipeline: a request at its end, or a task of the channel.
LEMMA WhoRuns ==
  ASSUME GenInv, Alone, NEW t \in Tasks, PipelineStep(t)
  PROVE  /\ JobOf(t) \in Jobs
         /\ task[t] \in Task
         /\ \/ t \in Jobs /\ JobOf(t) = t
               /\ task[t].pc \in {"setstage", "release", "markfailed"}
            \/ t \in Channels /\ Works(t, JobOf(t))
<1>1. task[t].pc \in {"advance", "persist", "refine", "tts", "saveclone",
                      "speech", "finalize", "commit", "setstage", "fail",
                      "fallback", "release", "markfailed"}
  BY DEF PipelineStep, Advance, PersistRuntime, SubmitRefine, CloneVoice,
         SaveClonedVoice, SubmitSpeech, RecordSubmission, FinalizeWithoutAudio,
         CaptureTokens, CommitTrack, Fail, MarkFallback, ReleaseHold, FailJob, At
<1>2. /\ JobOf(t) \in Jobs /\ task[t] \in Task
      /\ t \in Jobs => JobOf(t) = t
  BY <1>1, RunningTask DEF NoJobPCs, LocalsOf
<1>3. CASE t \in Jobs
  BY <1>1, <1>2, <1>3 DEF Alone, AloneOf, OneWorker, RequestPCs
<1>4. CASE t \in Channels
  BY <1>1, <1>2, <1>4 DEF Works, OffPCs
<1>5. t # Sweep
  BY <1>1 DEF Alone, ChannelFits, Quiet, At
<1> QED
  BY <1>2, <1>3, <1>4, <1>5 DEF Tasks, Channels

\* A task of the channel leaves the pipeline: it is off, or goes on with its
\* event.
LEMMA ChannelLeaves ==
  ASSUME NEW t \in Channels, NEW j \in Jobs, JobOf(t) = j
  PROVE  /\ Idle.pc \in OffPCs /\ Stays(t, j, Idle)
         /\ Returned(t).pc \in OffPCs /\ Stays(t, j, Returned(t))
         /\ Raise(t) => task' = [task EXCEPT ![t] = Idle]
         /\ \A pc \in PCs : Only(t, pc).pc = pc /\ Stays(t, j, Only(t, pc))
<1>1. t \notin Jobs
  BY ChannelNames
<1>2. Idle.pc = "idle"
  BY DEF Idle
<1>3. \A pc : /\ Only(t, pc).pc = pc /\ Only(t, pc).job = j
              /\ Only(t, pc).event = task[t].event
  BY DEF Only, Idle
<1>4. Returned(t) \in {Idle, Only(t, "ack")}
  BY <1>1 DEF Returned
<1> QED
  BY <1>1, <1>2, <1>3, <1>4 DEF OffPCs, Stays, Raise

\* What the row, the task and the ledger say of a job that a task of the
\* channel works on.
LEMMA WorkedFacts ==
  ASSUME GenInv, Alone, NEW t \in Channels, NEW j \in Jobs, Works(t, j)
  PROVE  /\ task[j].pc = "replied"
         /\ job[j] \in Job
         /\ job[j].rid # "none" /\ job[j].rid \in SubmitKinds
         /\ Finished(j, job[j].rid)
         /\ job[j].status \notin {"succeeded", "failed"}
         /\ j \notin tracks
         /\ Posted(j, "debit_reserve")
         /\ task[t].pc # "commit" => ~Posted(j, "debit_capture")
         /\ task[t].pc # "markfailed" => ~Posted(j, "credit_release")
         /\ task[t].pc = "commit" => task[t].captured = AmountOf(j)
         /\ \A s \in Channels : Works(s, j) => s = t
<1>1. job[j] \in Job
  BY DEF GenInv, GenTypeOK
<1>2. OneWorker(j) /\ SettledAsSaid(j) /\ Worked(j)
  BY DEF Alone, AloneOf, Worked
<1>3. /\ job[j].rid # "none" /\ task[j].pc = "replied"
      /\ job[j].status \notin {"succeeded", "failed"}
      /\ Posted(j, "debit_reserve") /\ Finished(j, job[j].rid)
      /\ \A s \in Channels : Works(s, j) => s = t
  BY <1>2 DEF OneWorker, Terminal
<1> QED
  <2>1. j \notin tracks
    BY <1>2, <1>3 DEF SettledAsSaid
  <2>2. task[t].pc # "commit" => ~Posted(j, "debit_capture")
    BY <1>2, <1>3 DEF SettledAsSaid, At
  <2>3. task[t].pc # "markfailed" => ~Posted(j, "credit_release")
    BY <1>2, <1>3 DEF SettledAsSaid, At
  <2>4. task[t].pc = "commit" => task[t].captured = AmountOf(j)
    BY <1>2 DEF SettledAsSaid, At
  <2>5. job[j].rid \in SubmitKinds
    BY <1>1, <1>3 DEF Job
  <2> QED
    BY <1>1, <1>3, <2>1, <2>2, <2>3, <2>4, <2>5

\* What a task of the channel needs when it works for j: it ends, or stays
\* the one that works for an unfinished job and its request.
LEMMA StillOneWorker ==
  ASSUME GenInv, Alone, NEW t \in Channels, NEW j \in Jobs, Works(t, j), NEW x,
         NEW row,
         task' = [task EXCEPT ![t] = x], Stays(t, j, x),
         job'[j] = row, row.rid # "none",
         x.pc \notin OffPCs =>
           row.rid = job[j].rid /\ row.status \notin {"succeeded", "failed"},
         row.status \in {"succeeded", "failed"} => row.rid = job[j].rid,
         Posted(j, "debit_reserve")',
         \A k \in SubmitKinds : Finished(j, k) => Finished(j, k)'
  PROVE  /\ OneWorker(j)'
         /\ \A s \in Channels : Works(s, j)' => s = t
<1>1. /\ task \in [Tasks -> Task] /\ t \in Tasks /\ t \notin Jobs
      /\ j \in Tasks /\ \A s \in Channels : s \in Tasks
  BY TaskNames, ChannelNames DEF GenInv, GenTypeOK
<1>2. task'[t] = x /\ \A s \in Tasks \ {t} : task'[s] = task[s]
  BY <1>1
<1>3. task'[j] = task[j] /\ task[j].pc = "replied"
  BY <1>1, <1>2, WorkedFacts
<1>4. \A s \in Channels : Works(s, j) => s = t
  BY WorkedFacts
<1>5. \A s \in Channels : Works(s, j)' => s = t
  BY <1>1, <1>2, <1>4 DEF Works, JobOf
<1>6. Worked(j)' => row.rid = job[j].rid /\ row.status \notin {"succeeded", "failed"}
  BY <1>2, <1>5 DEF Worked, Works
<1>7. row.rid = job[j].rid => Finished(j, row.rid)'
  BY WorkedFacts
<1>8. \A h \in Hooks : Works(h, j)' => task'[h].event = row.rid
  <2> SUFFICES ASSUME NEW h \in Hooks, Works(h, j)'
               PROVE  task'[h].event = row.rid
    OBVIOUS
  <2>1. h = t
    BY <1>5 DEF Channels
  <2>2. x.pc \notin OffPCs
    BY <1>2, <2>1 DEF Works
  <2>3. x.event = task[t].event /\ row.rid = job[j].rid
    BY <2>2 DEF Stays, OffPCs
  <2>4. task[t].event = job[j].rid
    BY <2>1 DEF Alone, AloneOf, OneWorker
  <2> QED
    BY <1>2, <2>1, <2>3, <2>4
<1>9. (Worked(j) \/ Terminal(j) => Finished(j, job[j].rid))'
  BY <1>6, <1>7 DEF Terminal, Finished
<1>10. OneWorker(j)'
  BY <1>3, <1>5, <1>6, <1>8, <1>9 DEF OneWorker, RequestPCs, Terminal
<1> QED
  BY <1>5, <1>10

\* A task of the channel goes on without touching a table.
LEMMA WorkerMove ==
  ASSUME GenInv, Alone, NEW t \in Channels, NEW j \in Jobs, Works(t, j), NEW x,
         task[t].pc \notin {"commit", "markfailed"},
         x.pc # "commit", Stays(t, j, x),
         task' = [task EXCEPT ![t] = x],
         UNCHANGED <<walletVars, job, tracks, orphans>>, todo' \subseteq todo,
         \A i \in Jobs, k \in SubmitKinds : Finished(i, k) => Finished(i, k)'
  PROVE  Alone'
<1>1. \A i \in Jobs, kind \in Kinds : ledger'[<<i, kind>>] = ledger[<<i, kind>>]
  BY WalletElsewhere
<1>2. Elsewhere(j)
  BY <1>1 DEF Elsewhere
<1>3. /\ task[j].pc = "replied" /\ Posted(j, "debit_reserve")
      /\ job[j].rid # "none" /\ job[j].status \notin {"succeeded", "failed"}
      /\ j \notin tracks
      /\ ~Posted(j, "debit_capture") /\ ~Posted(j, "credit_release")
  BY WorkedFacts
<1>4. /\ Posted(j, "debit_reserve")'
      /\ ~Posted(j, "debit_capture")' /\ ~Posted(j, "credit_release")'
  BY <1>3 DEF Posted, walletVars
<1>5. /\ OneWorker(j)'
      /\ \A s \in Channels : Works(s, j)' => s = t
  <2> DEFINE row == job[j]
  <2>1. /\ job'[j] = row /\ row.rid # "none" /\ row.rid = job[j].rid
        /\ row.status \notin {"succeeded", "failed"}
    BY <1>3
  <2> HIDE DEF row
  <2>2. \A k \in SubmitKinds : Finished(j, k) => Finished(j, k)'
    OBVIOUS
  <2> QED
    BY <1>4, <2>1, <2>2, StillOneWorker
<1>6. SettledAsSaid(j)'
  <2>1. task'[t] = x /\ task'[j] = task[j]
    BY TaskNames, ChannelNames DEF GenInv, GenTypeOK
  <2> QED
    BY <1>3, <1>4, <1>5, <2>1 DEF SettledAsSaid, At
<1>7. t \in Tasks
  BY ChannelNames
<1> QED
  BY <1>2, <1>5, <1>6, <1>7, TaskStep DEF AloneOf

-----------------------------------------------------------------------------
(* The steps of the pipeline that change locals and the provider's side. *)

LEMMA MovingSteps ==
  ASSUME GenInv, Alone, NEW t \in Tasks,
         Advance(t) \/ SubmitRefine(t) \/ CloneVoice(t) \/ SubmitSpeech(t) \/ Fail(t)
  PROVE  Alone'
<1> DEFINE j == JobOf(t)
<1>1. /\ j \in Jobs /\ task[t] \in Task /\ t \in Channels /\ Works(t, j)
      /\ task[t].pc \notin {"commit", "markfailed"}
  <2>1. /\ task[t].pc \in {"advance", "refine", "tts", "speech", "fail"}
        /\ PipelineStep(t)
    BY DEF Advance, SubmitRefine, CloneVoice, SubmitSpeech, Fail, At, PipelineStep
  <2> QED
    BY <2>1, WhoRuns
<1>2. UNCHANGED <<walletVars, job, tracks, orphans>>
  BY DEF Advance, SubmitRefine, CloneVoice, SubmitSpeech, Fail
<1>3. todo' \subseteq todo
  BY DEF Advance, SubmitRefine, CloneVoice, SubmitSpeech, Fail, ProviderError,
         Raise
<1>4. \A i \in Jobs, k \in SubmitKinds : Finished(i, k) => Finished(i, k)'
  <2>1. CASE UNCHANGED fal
    BY <2>1 DEF Finished
  <2>2. ASSUME NEW kind \in SubmitKinds, Submitted(j, kind)
        PROVE  \A i \in Jobs, k \in SubmitKinds : Finished(i, k) => Finished(i, k)'
    BY <1>1, <2>2, SubmittedKeeps
  <2>3. /\ "refine" \in SubmitKinds /\ "tts" \in SubmitKinds
        /\ \A plan \in Plans : FallbacksOf(plan) \subseteq SubmitKinds
    BY DEF SubmitKinds, MusicKinds, FallbacksOf, FallbackKinds
  <2>4. PlanOf(t) \in Plans
    BY <1>1, PlanAssumption DEF PlanOf
  <2>5. \/ UNCHANGED fal
        \/ \E kind \in SubmitKinds : Submitted(j, kind)
    BY <2>3, <2>4 DEF Advance, SubmitRefine, CloneVoice, SubmitSpeech, Fail
  <2> QED
    BY <2>1, <2>2, <2>5
<1>5. \E x : /\ task' = [task EXCEPT ![t] = x]
             /\ x.pc # "commit"
             /\ Stays(t, j, x)
  <2> DEFINE good(x) == x.pc # "commit" /\ Stays(t, j, x)
  <2>1. ASSUME Return(t) \/ Raise(t)
        PROVE  \E x : task' = [task EXCEPT ![t] = x] /\ good(x)
    <3>1. good(Returned(t)) /\ good(Idle)
      BY <1>1, ChannelLeaves DEF OffPCs
    <3> QED
      BY <1>1, <2>1, <3>1, ChannelLeaves DEF Return
  <2>2. ASSUME NEW pc \in PCs \ {"commit"}, NEW kind
        PROVE  good(Only(t, pc)) /\ good([Only(t, pc) EXCEPT !.rid = kind])
    <3>1. /\ Only(t, pc).pc = pc /\ Only(t, pc).job = j
          /\ Only(t, pc).event = task[t].event
      BY DEF Only, Idle
    <3>2. /\ [Only(t, pc) EXCEPT !.rid = kind].pc = pc
          /\ [Only(t, pc) EXCEPT !.rid = kind].job = j
          /\ [Only(t, pc) EXCEPT !.rid = kind].event = task[t].event
      BY DEF Only, Idle
    <3> QED
      BY <2>2, <3>1, <3>2 DEF Stays
  <2>3. ASSUME NEW pc, pc # "commit", NEW out, NEW code
        PROVE  /\ good([task[t] EXCEPT !.pc = pc, !.out = out])
               /\ good([task[t] EXCEPT !.pc = pc, !.code = code])
               /\ good([task[t] EXCEPT !.pc = pc])
    BY <1>1, <2>3 DEF Task, JobOf, Stays
  <2> HIDE DEF good
  <2> SUFFICES \E x : task' = [task EXCEPT ![t] = x] /\ good(x)
    BY DEF good
  <2>4. {"setstage", "release", "fallback"} \subseteq PCs \ {"commit"}
    BY DEF PCs
  <2>5. task \in [Tasks -> Task]
    BY DEF GenInv, GenTypeOK
  <2>6. CASE Advance(t)
    <3>1. CASE Return(t)
      BY <2>1, <3>1
    <3>2. CASE ~Return(t)
      <4> DEFINE out == IF task[t].audio THEN RowOf(t).out \cup {task[t].stage}
                        ELSE RowOf(t).out \ {task[t].stage}
      <4>1. task' = [task EXCEPT ![t].pc = "persist", ![t].out = out]
        BY <2>6, <3>2 DEF Advance
      <4>2. task' = [task EXCEPT ![t] = [task[t] EXCEPT !.pc = "persist", !.out = out]]
        BY <2>5, <4>1
      <4> HIDE DEF out
      <4> QED
        BY <2>3, <4>2
    <3> QED
      BY <3>1, <3>2
  <2>7. CASE SubmitRefine(t)
    <3>1. CASE task' = [task EXCEPT ![t] = [Only(t, "setstage") EXCEPT !.rid = "refine"]]
      BY <2>2, <2>4, <3>1
    <3>2. CASE Raise(t)
      BY <2>1, <3>2
    <3>3. CASE task' = [task EXCEPT ![t].pc = IF PlanOf(t).voice THEN "tts" ELSE "finalize",
                                    ![t].out = RowOf(t).out]
      <4> DEFINE pc == IF PlanOf(t).voice THEN "tts" ELSE "finalize"
      <4>1. task' = [task EXCEPT ![t] = [task[t] EXCEPT !.pc = pc, !.out = RowOf(t).out]]
        BY <2>5, <3>3
      <4>2. pc # "commit"
        OBVIOUS
      <4> HIDE DEF pc
      <4> QED
        BY <2>3, <4>1, <4>2
    <3>4. ASSUME NEW code, task' = [task EXCEPT ![t].pc = "fail", ![t].code = code]
          PROVE  \E x : task' = [task EXCEPT ![t] = x] /\ good(x)
      <4>1. task' = [task EXCEPT ![t] = [task[t] EXCEPT !.pc = "fail", !.code = code]]
        BY <2>5, <3>4
      <4> QED
        BY <2>3, <4>1
    <3> QED
      BY <2>7, <3>1, <3>2, <3>3, <3>4 DEF SubmitRefine, ProviderError
  <2>8. CASE CloneVoice(t)
    <3>1. PICK pc \in {"finalize", "speech", "saveclone"} :
            task' = [task EXCEPT ![t].pc = pc, ![t].out = RowOf(t).out]
      BY <2>8 DEF CloneVoice
    <3>2. task' = [task EXCEPT ![t] = [task[t] EXCEPT !.pc = pc, !.out = RowOf(t).out]]
      BY <2>5, <3>1
    <3> QED
      BY <2>3, <3>2
  <2>9. CASE SubmitSpeech(t)
    <3>1. CASE task' = [task EXCEPT ![t] = [Only(t, "setstage") EXCEPT !.rid = "tts"]]
      BY <2>2, <2>4, <3>1
    <3>2. CASE GoTo(t, "finalize")
      <4>1. task' = [task EXCEPT ![t] = [task[t] EXCEPT !.pc = "finalize"]]
        BY <2>5, <3>2 DEF GoTo
      <4> QED
        BY <2>3, <4>1
    <3> QED
      BY <2>9, <3>1, <3>2 DEF SubmitSpeech
  <2>10. CASE Fail(t)
    <3>1. CASE task' = [task EXCEPT ![t] = Only(t, "release")]
      BY <2>2, <2>4, <3>1
    <3>2. ASSUME NEW kind, task' = [task EXCEPT ![t] = [Only(t, "fallback") EXCEPT !.rid = kind]]
          PROVE  \E x : task' = [task EXCEPT ![t] = x] /\ good(x)
      BY <2>2, <2>4, <3>2
    <3> QED
      BY <2>10, <3>1, <3>2 DEF Fail
  <2> QED
    BY <2>6, <2>7, <2>8, <2>9, <2>10
<1> QED
  BY <1>1, <1>2, <1>3, <1>4, <1>5, WorkerMove

-----------------------------------------------------------------------------
(* The steps of the pipeline that write the row. *)

LEMMA RowWrite ==
  ASSUME GenInv, Alone, NEW t \in Tasks, NEW j \in Jobs, NEW x, NEW row,
         task' = [task EXCEPT ![t] = x],
         \/ t = j /\ task[j].pc # "replied"
         \/ t \in Channels /\ Works(t, j) /\ Stays(t, j, x),
         job' = [job EXCEPT ![j] = row],
         \A i \in Jobs \ {j} : i \in tracks' <=> i \in tracks,
         todo' \subseteq todo,
         UNCHANGED <<walletVars, fal, orphans>>,
         AloneOf(j)'
  PROVE  Alone'
<1>1. \A i \in Jobs \ {j} : job'[i] = job[i]
  BY DEF GenInv, GenTypeOK
<1>2. Elsewhere(j)
  BY <1>1, WalletElsewhere DEF Elsewhere, Finished
<1> QED
  BY <1>2, TaskStep

\* A task of the channel writes a row that is not finished yet.
LEMMA WorkerWrites ==
  ASSUME GenInv, Alone, NEW t \in Channels, NEW j \in Jobs, Works(t, j), NEW x,
         NEW row,
         task[t].pc \notin {"commit", "markfailed"},
         task' = [task EXCEPT ![t] = x],
         x.pc # "commit", Stays(t, j, x),
         job' = [job EXCEPT ![j] = row],
         row.rid # "none", row.status \notin {"succeeded", "failed"},
         x.pc \notin OffPCs => row.rid = job[j].rid,
         UNCHANGED <<walletVars, tracks, fal, todo, orphans>>
  PROVE  Alone'
<1>1. /\ t \in Tasks /\ t \notin Jobs
      /\ task'[t] = x /\ task'[j] = task[j] /\ job'[j] = row
  BY TaskNames, ChannelNames DEF GenInv, GenTypeOK
<1>2. /\ task[j].pc = "replied" /\ Posted(j, "debit_reserve") /\ j \notin tracks
      /\ ~Posted(j, "debit_capture") /\ ~Posted(j, "credit_release")
  BY WorkedFacts
<1>3. /\ Posted(j, "debit_reserve")'
      /\ ~Posted(j, "debit_capture")' /\ ~Posted(j, "credit_release")'
  BY <1>2 DEF Posted, walletVars
<1>4. \A k \in SubmitKinds : Finished(j, k) => Finished(j, k)'
  BY DEF Finished
<1>5. OneWorker(j)' /\ \A s \in Channels : Works(s, j)' => s = t
  BY <1>1, <1>3, <1>4, StillOneWorker
<1>6. SettledAsSaid(j)'
  BY <1>1, <1>2, <1>3, <1>5 DEF SettledAsSaid, At
<1> QED
  BY <1>1, <1>5, <1>6, RowWrite DEF AloneOf

LEMMA WorkerWriteSteps ==
  ASSUME GenInv, Alone, NEW t \in Channels,
         PersistRuntime(t) \/ SaveClonedVoice(t) \/ MarkFallback(t) \/ RecordSubmission(t)
  PROVE  Alone'
<1> DEFINE j == JobOf(t)
<1>1. /\ task[t].pc \in {"persist", "saveclone", "fallback", "setstage"}
      /\ PipelineStep(t) /\ t \in Tasks
  BY ChannelNames
     DEF PersistRuntime, SaveClonedVoice, MarkFallback, RecordSubmission, At,
         PipelineStep
<1>2. j \in Jobs /\ task[t] \in Task /\ Works(t, j) /\ task \in [Tasks -> Task]
  BY <1>1, WhoRuns, ChannelNames DEF GenInv, GenTypeOK
<1>3. /\ job[j] \in Job /\ job \in [Jobs -> Job] /\ job[j].rid # "none"
      /\ job[j].status \notin {"succeeded", "failed"}
  BY <1>2, WorkedFacts DEF GenInv, GenTypeOK
<1>4. CASE PersistRuntime(t)
  <2> DEFINE pc == NextStep(PlanOf(t), task[t].stage)
             x == [task[t] EXCEPT !.pc = pc]
             row == [job[j] EXCEPT !.out = task[t].out]
  <2>1. /\ task' = [task EXCEPT ![t] = x]
        /\ job' = [job EXCEPT ![j] = row]
        /\ UNCHANGED <<walletVars, tracks, fal, todo, orphans>>
    BY <1>1, <1>2, <1>3, <1>4 DEF PersistRuntime, GoTo
  <2>2. x.pc = pc /\ Stays(t, j, x) /\ pc # "commit"
    BY <1>2 DEF Task, JobOf, NextStep, Stays
  <2>3. row.rid = job[j].rid /\ row.status = job[j].status
    BY <1>3 DEF Job
  <2> HIDE DEF pc, x, row
  <2> QED
    BY <1>1, <1>2, <1>3, <2>1, <2>2, <2>3, WorkerWrites
<1>5. CASE SaveClonedVoice(t)
  <2> DEFINE x == [task[t] EXCEPT !.pc = "speech"]
             row == [job[j] EXCEPT !.cloned = TRUE]
  <2>1. /\ task' = [task EXCEPT ![t] = x]
        /\ job' = [job EXCEPT ![j] = row]
        /\ UNCHANGED <<walletVars, tracks, fal, todo, orphans>>
    BY <1>1, <1>2, <1>3, <1>5 DEF SaveClonedVoice, GoTo
  <2>2. x.pc = "speech" /\ Stays(t, j, x)
    BY <1>2 DEF Task, JobOf, Stays
  <2>3. row.rid = job[j].rid /\ row.status = job[j].status
    BY <1>3 DEF Job
  <2> HIDE DEF x, row
  <2> QED
    BY <1>1, <1>2, <1>3, <2>1, <2>2, <2>3, WorkerWrites
<1>6. ASSUME Return(t), NEW row, job' = [job EXCEPT ![j] = row],
             row.rid # "none", row.status \notin {"succeeded", "failed"},
             UNCHANGED <<walletVars, tracks, fal, todo, orphans>>
      PROVE  Alone'
  <2> DEFINE x == Returned(t)
  <2>1. x.pc \in OffPCs /\ Stays(t, j, x)
    BY <1>2, ChannelLeaves
  <2>2. task' = [task EXCEPT ![t] = x]
    BY <1>6 DEF Return
  <2> HIDE DEF x
  <2> QED
    BY <1>1, <1>2, <1>6, <2>1, <2>2, WorkerWrites DEF OffPCs
<1>7. CASE MarkFallback(t)
  <2> DEFINE row == [job[j] EXCEPT !.fallbackUsed = TRUE, !.model = task[t].rid,
                                   !.rid = task[t].rid]
  <2>1. task[t].rid \in FallbackKinds
    BY <1>1, <1>7, RunningTask DEF MarkFallback, LocalsOf
  <2>2. /\ Return(t)
        /\ UNCHANGED <<walletVars, tracks, fal, todo, orphans>>
    BY <1>7 DEF MarkFallback
  <2>3. job' = [job EXCEPT ![j] = row]
    BY <1>2, <1>3, <1>7 DEF MarkFallback
  <2>4. row.rid # "none" /\ row.status = job[j].status
    BY <1>3, <2>1 DEF Job, FallbackKinds
  <2> HIDE DEF row
  <2> QED
    BY <1>3, <1>6, <2>2, <2>3, <2>4
<1>8. CASE RecordSubmission(t)
  <2> DEFINE row == [job[j] EXCEPT !.status = "processing",
                                   !.stage = StageOf(task[t].rid),
                                   !.rid = task[t].rid]
  <2>1. task[t].rid \in SubmitKinds
    BY <1>1, <1>8, RunningTask DEF RecordSubmission, LocalsOf
  <2>2. /\ Return(t)
        /\ UNCHANGED <<walletVars, tracks, fal, todo, orphans>>
    BY <1>8 DEF RecordSubmission
  <2>3. job' = [job EXCEPT ![j] = row]
    BY <1>2, <1>3, <1>8 DEF RecordSubmission, SetCurrentStage
  <2>4. row.rid # "none" /\ row.status = "processing"
    BY <1>3, <2>1 DEF Job, SubmitKinds, MusicKinds
  <2> HIDE DEF row
  <2> QED
    BY <1>6, <2>2, <2>3, <2>4
<1> QED
  BY <1>4, <1>5, <1>7, <1>8

\* Until it has recorded the request id the request is alone with its job.
LEMMA RequestFacts ==
  ASSUME GenInv, Alone, NEW j \in Jobs, task[j].pc # "replied"
  PROVE  /\ job[j] \in Job
         /\ job[j].rid = "none" /\ j \notin tracks
         /\ \A t \in Channels : ~Works(t, j)
         /\ task[j].pc \in RequestPCs
         /\ task[j].pc \in {"idle", "add"} => job[j].status = "absent"
         /\ task[j].pc \notin {"idle", "add"} => job[j].status = "queued"
         /\ ~Posted(j, "debit_capture")
         /\ task[j].pc # "markfailed" => ~Posted(j, "credit_release")
<1>1. job[j] \in Job
  BY DEF GenInv, GenTypeOK
<1>2. OneWorker(j) /\ SettledAsSaid(j)
  BY DEF Alone, AloneOf
<1>3. /\ job[j].rid = "none" /\ \A t \in Channels : ~Works(t, j)
      /\ task[j].pc \in RequestPCs
      /\ task[j].pc \in {"idle", "add"} => job[j].status = "absent"
      /\ task[j].pc \notin {"idle", "add"} => job[j].status = "queued"
  BY <1>2 DEF OneWorker, Worked
<1> QED
  BY <1>1, <1>2, <1>3 DEF SettledAsSaid, At, RequestPCs

\* A step of the request that creates j.
LEMMA RequestStep ==
  ASSUME GenInv, Alone, NEW j \in Jobs, task[j].pc # "replied", NEW x, NEW row,
         task' = [task EXCEPT ![j] = x],
         job' = [job EXCEPT ![j] = row],
         x.pc \in RequestPCs,
         x.pc \in {"idle", "add"} => row.status = "absent",
         x.pc \notin {"idle", "add", "replied"} => row.status = "queued",
         row.rid # "none" => /\ x.pc = "replied"
                             /\ Posted(j, "debit_reserve")'
                             /\ row.status = "processing",
         row.status = "processing" => row.rid # "none",
         row.status # "succeeded",
         ~Posted(j, "debit_capture")',
         Posted(j, "credit_release")' => x.pc = "markfailed" \/ row.status = "failed",
         \A i \in Jobs \ {j}, kind \in Kinds : ledger'[<<i, kind>>] = ledger[<<i, kind>>],
         UNCHANGED <<tracks, orphans>>, todo' \subseteq todo,
         \A i \in Jobs, k \in SubmitKinds : Finished(i, k) => Finished(i, k)'
  PROVE  Alone'
<1>1. /\ task \in [Tasks -> Task] /\ j \in Tasks /\ job \in [Jobs -> Job]
      /\ \A t \in Channels : t \in Tasks /\ t # j
  BY TaskNames, ChannelNames DEF GenInv, GenTypeOK
<1>2. /\ task'[j] = x /\ job'[j] = row
      /\ \A t \in Channels : task'[t] = task[t]
      /\ \A i \in Jobs \ {j} : job'[i] = job[i]
  BY <1>1
<1>3. (\A t \in Channels : ~Works(t, j)') /\ j \notin tracks'
  BY <1>2, RequestFacts DEF Works, JobOf
<1>4. ~Worked(j)' /\ \A h \in Hooks : ~Works(h, j)'
  BY <1>3 DEF Worked, Channels
<1>5. Elsewhere(j)
  BY <1>2 DEF Elsewhere
<1>6. OneWorker(j)'
  BY <1>2, <1>3, <1>4 DEF OneWorker, Terminal
<1>7. SettledAsSaid(j)'
  BY <1>2, <1>3 DEF SettledAsSaid, At
<1> QED
  BY <1>1, <1>5, <1>6, <1>7, TaskStep DEF AloneOf

-----------------------------------------------------------------------------
(* The steps of the request that creates a job. *)

\* An entry of job j is the only thing a call for j writes.
LEMMA PostForJob ==
  ASSUME GenInv, NEW j \in Jobs, NEW kind \in Kinds, NEW u, NEW amount, NEW a,
         NEW h, NEW prev, Post(u, j, kind, amount, a, h, prev)
  PROVE  /\ ledger'[<<j, kind>>].amount = amount
         /\ \A i \in Jobs, other \in Kinds :
              <<i, other>> # <<j, kind>> =>
                ledger'[<<i, other>>] = ledger[<<i, other>>]
<1> DEFINE e == EntryFor(u, Moved(wallet[u], a, h), amount, prev)
<1>1. ledger' = [ledger EXCEPT ![<<j, kind>>] = e]
  BY DEF Post
<1>2. e.amount = amount
  BY DEF EntryFor
<1>3. \A i \in Jobs, other \in Kinds : <<i, other>> \in DOMAIN ledger
  BY RefTypes DEF GenInv, GenTypeOK, WalletTypeOK, Keys
<1> HIDE DEF e
<1> QED
  BY <1>1, <1>2, <1>3

LEMMA ReturnedRequest ==
  ASSUME NEW j \in Jobs
  PROVE  Returned(j).pc = "replied"
  BY DEF Returned, Idle

\* What a step of the request needs when it leaves the row and the provider
\* alone.
LEMMA RequestMove ==
  ASSUME GenInv, Alone, NEW j \in Jobs, NEW x,
         task[j].pc \notin {"replied", "markfailed"},
         task' = [task EXCEPT ![j] = x],
         x.pc \in RequestPCs,
         x.pc \in {"idle", "add"} => job[j].status = "absent",
         x.pc \notin {"idle", "add", "replied"} => job[j].status = "queued",
         ~Posted(j, "debit_capture")',
         Posted(j, "credit_release")' => x.pc = "markfailed",
         \A i \in Jobs \ {j}, kind \in Kinds : ledger'[<<i, kind>>] = ledger[<<i, kind>>],
         UNCHANGED <<job, tracks, orphans, todo>>,
         \A i \in Jobs, k \in SubmitKinds : Finished(i, k) => Finished(i, k)'
  PROVE  Alone'
<1>1. job' = [job EXCEPT ![j] = job[j]]
  BY DEF GenInv, GenTypeOK
<1>2. job[j].rid = "none" /\ job[j].status \in {"absent", "queued"}
  BY RequestFacts DEF RequestPCs
<1> QED
  BY <1>1, <1>2, RequestStep

LEMMA CreateJobSteps ==
  ASSUME GenInv, Alone, NEW j \in Jobs, CreateJob(j)
  PROVE  Alone'
<1>1. /\ task[j] \in Task /\ j \in Tasks
      /\ task[j].pc \in {"idle", "add", "reserve", "submit"}
  BY RunningTask, TaskNames
     DEF CreateJob, LookUpKey, AddJob, ReserveTokens, SubmitMusic, At
<1>2. /\ job[j].rid = "none"
      /\ task[j].pc \in {"idle", "add"} => job[j].status = "absent"
      /\ task[j].pc \notin {"idle", "add"} => job[j].status = "queued"
      /\ ~Posted(j, "debit_capture") /\ ~Posted(j, "credit_release")
  BY <1>1, RequestFacts
<1>3. /\ Returned(j).pc = "replied"
      /\ Return(j) => task' = [task EXCEPT ![j] = Returned(j)]
  BY ReturnedRequest DEF Return
<1>4. ASSUME UNCHANGED walletVars
      PROVE  /\ ~Posted(j, "debit_capture")' /\ ~Posted(j, "credit_release")'
             /\ \A i \in Jobs \ {j}, kind \in Kinds :
                  ledger'[<<i, kind>>] = ledger[<<i, kind>>]
  BY <1>2, <1>4 DEF Posted, walletVars
<1>5. ASSUME UNCHANGED fal
      PROVE  \A i \in Jobs, k \in SubmitKinds : Finished(i, k) => Finished(i, k)'
  BY <1>5 DEF Finished
<1>6. ASSUME NEW pc, GoTo(j, pc)
      PROVE  \E x : task' = [task EXCEPT ![j] = x] /\ x.pc = pc
  <2> DEFINE x == [task[j] EXCEPT !.pc = pc]
  <2>1. task' = [task EXCEPT ![j] = x] /\ x.pc = pc
    BY <1>1, <1>6 DEF GoTo, Task
  <2> HIDE DEF x
  <2> QED
    BY <2>1
<1>7. CASE LookUpKey(j)
  <2> DEFINE x == [Idle EXCEPT !.job = j,
                     !.pc = IF Existing(j) = {} THEN "add" ELSE "replied"]
  <2>1. /\ task' = [task EXCEPT ![j] = x] /\ At(j, "idle")
        /\ UNCHANGED <<walletVars, job, tracks, fal, orphans, todo>>
    BY <1>7 DEF LookUpKey
  <2>2. x.pc \in {"add", "replied"}
    BY DEF Idle
  <2> HIDE DEF x
  <2> QED
    BY <1>2, <1>4, <1>5, <2>1, <2>2, RequestMove DEF RequestPCs, At
<1>8. CASE AddJob(j)
  <2>1. At(j, "add") /\ UNCHANGED <<walletVars, tracks, fal, orphans, todo>>
    BY <1>8 DEF AddJob
  <2>2. CASE job' = [job EXCEPT ![j] = QueuedJob] /\ GoTo(j, "reserve")
    <3>1. QueuedJob.status = "queued" /\ QueuedJob.rid = "none"
      BY DEF QueuedJob, NoJob
    <3>2. PICK x : task' = [task EXCEPT ![j] = x] /\ x.pc = "reserve"
      BY <1>6, <2>2
    <3> QED
      BY <1>4, <1>5, <2>1, <2>2, <3>1, <3>2, RequestStep DEF RequestPCs, At
  <2>3. CASE Return(j) /\ UNCHANGED job
    BY <1>1, <1>3, <1>4, <1>5, <2>1, <2>3, RequestMove DEF RequestPCs, At
  <2> QED
    BY <1>8, <2>2, <2>3 DEF AddJob
<1>9. CASE ReserveTokens(j)
  <2>1. At(j, "reserve") /\ UNCHANGED <<job, tracks, fal, orphans, todo>>
    BY <1>9 DEF ReserveTokens
  <2>2. CASE Reserve(Owner[j], Price[j], j) /\ GoTo(j, "submit")
    <3>1. Post(Owner[j], j, "debit_reserve", -Price[j], -Price[j], Price[j], 0)
      BY <2>2 DEF Reserve
    <3>2. \A i \in Jobs, other \in Kinds :
            <<i, other>> # <<j, "debit_reserve">> =>
              ledger'[<<i, other>>] = ledger[<<i, other>>]
      BY <3>1, PostForJob, KindTypes
    <3>3. /\ ~Posted(j, "debit_capture")' /\ ~Posted(j, "credit_release")'
          /\ \A i \in Jobs \ {j}, kind \in Kinds :
               ledger'[<<i, kind>>] = ledger[<<i, kind>>]
      BY <1>2, <3>2, KindTypes DEF Posted
    <3>4. PICK x : task' = [task EXCEPT ![j] = x] /\ x.pc = "submit"
      BY <1>6, <2>2
    <3> QED
      BY <1>2, <1>5, <2>1, <3>3, <3>4, RequestMove DEF RequestPCs, At
  <2>3. CASE ReserveRefused(Owner[j], Price[j], j) /\ Return(j)
    BY <1>1, <1>3, <1>4, <1>5, <2>1, <2>3, RequestMove
       DEF RequestPCs, At, ReserveRefused
  <2> QED
    BY <1>9, <2>2, <2>3 DEF ReserveTokens
<1>10. CASE SubmitMusic(j)
  <2>1. At(j, "submit") /\ UNCHANGED <<walletVars, job, tracks, orphans, todo>>
    BY <1>10 DEF SubmitMusic
  <2>2. CASE /\ Submitted(j, "music")
             /\ task' = [task EXCEPT ![j].pc = "setstage", ![j].rid = "music"]
    <3> DEFINE x == [task[j] EXCEPT !.pc = "setstage", !.rid = "music"]
    <3>1. task' = [task EXCEPT ![j] = x] /\ x.pc = "setstage"
      BY <1>1, <2>2 DEF Task, GenInv, GenTypeOK
    <3>2. \A i \in Jobs, k \in SubmitKinds : Finished(i, k) => Finished(i, k)'
      BY <2>2, SubmittedKeeps DEF SubmitKinds, MusicKinds
    <3> HIDE DEF x
    <3> QED
      BY <1>2, <1>4, <2>1, <3>1, <3>2, RequestMove DEF RequestPCs, At
  <2>3. CASE GoTo(j, "release") /\ UNCHANGED fal
    <3>1. PICK x : task' = [task EXCEPT ![j] = x] /\ x.pc = "release"
      BY <1>6, <2>3
    <3> QED
      BY <1>2, <1>4, <1>5, <2>1, <2>3, <3>1, RequestMove DEF RequestPCs, At
  <2> QED
    BY <1>10, <2>2, <2>3 DEF SubmitMusic
<1> QED
  BY <1>7, <1>8, <1>9, <1>10 DEF CreateJob

-----------------------------------------------------------------------------
(* The end of a job. *)

\* The request records the request id, gives the tokens back or fails the
\* job.
LEMMA RequestEnds ==
  ASSUME GenInv, Alone, NEW j \in Jobs,
         RecordSubmission(j) \/ ReleaseHold(j) \/ FailJob(j)
  PROVE  Alone'
<1>1. /\ task[j] \in Task /\ j \in Tasks /\ PipelineStep(j)
      /\ task[j].pc \in {"setstage", "release", "markfailed"}
  BY RunningTask, TaskNames
     DEF RecordSubmission, ReleaseHold, FailJob, At, PipelineStep
<1>2. /\ JobOf(j) = j /\ LocalsOf(j)
      /\ job[j] \in Job /\ job \in [Jobs -> Job]
  BY <1>1, RunningTask, TaskNames DEF LocalsOf, NoJobPCs, GenInv, GenTypeOK
<1>3. /\ job[j].rid = "none" /\ job[j].status = "queued"
      /\ ~Posted(j, "debit_capture")
      /\ task[j].pc # "markfailed" => ~Posted(j, "credit_release")
  BY <1>1, RequestFacts
<1>4. UNCHANGED <<tracks, orphans, todo>> /\
      \A i \in Jobs, k \in SubmitKinds : Finished(i, k) => Finished(i, k)'
  BY DEF RecordSubmission, ReleaseHold, FailJob, Finished
<1>5. ASSUME UNCHANGED walletVars
      PROVE  /\ ~Posted(j, "debit_capture")'
             /\ Posted(j, "credit_release")' <=> Posted(j, "credit_release")
             /\ Posted(j, "debit_reserve")' <=> Posted(j, "debit_reserve")
             /\ \A i \in Jobs \ {j}, kind \in Kinds :
                  ledger'[<<i, kind>>] = ledger[<<i, kind>>]
  BY <1>3, <1>5 DEF Posted, walletVars
<1>6. Return(j) => \E x : task' = [task EXCEPT ![j] = x] /\ x.pc = "replied"
  BY ReturnedRequest DEF Return
<1>7. CASE RecordSubmission(j)
  <2> DEFINE row == [job[j] EXCEPT !.status = "processing",
                                   !.stage = StageOf(task[j].rid),
                                   !.rid = task[j].rid]
  <2>1. /\ task[j].pc = "setstage" /\ task[j].rid \in SubmitKinds
        /\ Posted(j, "debit_reserve") /\ UNCHANGED walletVars
    BY <1>2, <1>7 DEF RecordSubmission, At, LocalsOf, UnheldPCs, NoJobPCs
  <2>2. job' = [job EXCEPT ![j] = row]
    BY <1>2, <1>7 DEF RecordSubmission, SetCurrentStage
  <2>3. row.status = "processing" /\ row.rid # "none"
    BY <1>2, <2>1 DEF Job, SubmitKinds, MusicKinds
  <2>4. PICK x : task' = [task EXCEPT ![j] = x] /\ x.pc = "replied"
    BY <1>6, <1>7 DEF RecordSubmission
  <2> HIDE DEF row
  <2> QED
    BY <1>3, <1>4, <1>5, <2>1, <2>2, <2>3, <2>4, RequestStep DEF RequestPCs
<1>8. CASE ReleaseHold(j)
  <2> DEFINE x == [task[j] EXCEPT !.pc = "markfailed"]
  <2>1. /\ task' = [task EXCEPT ![j] = x] /\ x.pc = "markfailed"
        /\ task[j].pc = "release" /\ UNCHANGED job
    BY <1>1, <1>8 DEF ReleaseHold, GoTo, Task, At
  <2>2. /\ ~Posted(j, "debit_capture")'
        /\ \A i \in Jobs \ {j}, kind \in Kinds :
             ledger'[<<i, kind>>] = ledger[<<i, kind>>]
    <3> DEFINE back == Least(Price[j], wallet[Owner[j]].reserved)
    <3>1. CASE Post(Owner[j], j, "credit_release", back, back, -back, 0)
      <4> HIDE DEF back
      <4>1. \A i \in Jobs, other \in Kinds :
              <<i, other>> # <<j, "credit_release">> =>
                ledger'[<<i, other>>] = ledger[<<i, other>>]
        BY <3>1, KindTypes, PostForJob
      <4> QED
        BY <1>3, <4>1, KindTypes DEF Posted
    <3>2. CASE UNCHANGED walletVars
      BY <1>5, <3>2
    <3> QED
      BY <1>2, <1>8, <3>1, <3>2 DEF ReleaseHold, Release, Duplicate
  <2> HIDE DEF x
  <2> QED
    BY <1>3, <1>4, <2>1, <2>2, RequestMove DEF RequestPCs
<1>9. CASE FailJob(j)
  <2> DEFINE row == [job[j] EXCEPT !.status = "failed"]
  <2>1. /\ job' = [job EXCEPT ![j] = row]
        /\ row.status = "failed" /\ row.rid = "none"
        /\ UNCHANGED walletVars
    BY <1>2, <1>3, <1>9 DEF FailJob, MarkFailed, Job
  <2>2. PICK x : task' = [task EXCEPT ![j] = x] /\ x.pc = "replied"
    BY <1>6, <1>9 DEF FailJob
  <2> HIDE DEF row
  <2> QED
    BY <1>1, <1>4, <1>5, <2>1, <2>2, RequestStep DEF RequestPCs
<1> QED
  BY <1>7, <1>8, <1>9

\* A step of the channel that settles the tokens or writes the final status.
LEMMA WorkerStep ==
  ASSUME GenInv, Alone, NEW t \in Channels, NEW j \in Jobs, Works(t, j), NEW x,
         NEW row,
         task' = [task EXCEPT ![t] = x],
         Stays(t, j, x),
         job' = [job EXCEPT ![j] = row],
         row.rid = job[j].rid,
         x.pc \notin OffPCs => row.status \notin {"succeeded", "failed"},
         Posted(j, "debit_reserve")',
         \A i \in Jobs \ {j}, kind \in Kinds : ledger'[<<i, kind>>] = ledger[<<i, kind>>],
         \A i \in Jobs \ {j} : i \in tracks' <=> i \in tracks,
         j \in tracks' => row.status = "succeeded",
         Posted(j, "debit_capture")' => row.status = "succeeded" \/ x.pc = "commit",
         Posted(j, "credit_release")' => row.status = "failed" \/ x.pc = "markfailed",
         x.pc = "commit" => x.captured = AmountOf(j)',
         row.status = "succeeded" => row.captured = AmountOf(j)',
         UNCHANGED <<fal, orphans>>, todo' \subseteq todo
  PROVE  Alone'
<1>1. /\ t \in Tasks /\ t \notin Jobs /\ job \in [Jobs -> Job]
      /\ task'[t] = x /\ task'[j] = task[j] /\ job'[j] = row
      /\ \A i \in Jobs \ {j} : job'[i] = job[i]
  BY TaskNames, ChannelNames DEF GenInv, GenTypeOK
<1>2. task[j].pc = "replied" /\ row.rid # "none"
  BY WorkedFacts
<1>3. \A i \in Jobs, k \in SubmitKinds : Finished(i, k) => Finished(i, k)'
  BY DEF Finished
<1>4. Elsewhere(j)
  BY <1>1, <1>3 DEF Elsewhere
<1>5. OneWorker(j)' /\ \A s \in Channels : Works(s, j)' => s = t
  BY <1>1, <1>2, <1>3, StillOneWorker
<1>6. x.pc \in {"commit", "markfailed"} => Works(t, j)'
  <2>1. x.pc \in {"commit", "markfailed"} => x.job = j
    BY DEF Stays
  <2> QED
    BY <1>1, <2>1 DEF Works, OffPCs, JobOf
<1>7. SettledAsSaid(j)'
  BY <1>1, <1>2, <1>5, <1>6 DEF SettledAsSaid, At
<1> QED
  BY <1>1, <1>4, <1>5, <1>7, TaskStep DEF AloneOf

LEMMA WorkerEnds ==
  ASSUME GenInv, Alone, NEW t \in Channels,
         \/ FinalizeWithoutAudio(t) \/ CaptureTokens(t) \/ CommitTrack(t)
         \/ ReleaseHold(t) \/ FailJob(t)
  PROVE  Alone'
<1>1. /\ task[t].pc \in {"finalize", "commit", "release", "markfailed"}
      /\ PipelineStep(t) /\ t \in Tasks
  BY ChannelNames
     DEF FinalizeWithoutAudio, CaptureTokens, CommitTrack, ReleaseHold, FailJob,
         At, PipelineStep
<1> PICK j \in Jobs : j = JobOf(t)
  BY <1>1, WhoRuns
<1>2. /\ task[t] \in Task /\ Works(t, j) /\ job \in [Jobs -> Job]
  <2>1. Works(t, JobOf(t)) /\ task[t] \in Task
    BY <1>1, WhoRuns, ChannelNames
  <2> QED
    BY <2>1 DEF GenInv, GenTypeOK
<1>3. /\ job[j] \in Job
      /\ job[j].status \notin {"succeeded", "failed"}
      /\ j \notin tracks
      /\ Posted(j, "debit_reserve")
      /\ task[t].pc # "commit" => ~Posted(j, "debit_capture")
      /\ task[t].pc # "markfailed" => ~Posted(j, "credit_release")
      /\ task[t].pc = "commit" => task[t].captured = AmountOf(j)
  BY <1>2, WorkedFacts
<1>4. /\ UNCHANGED <<fal, orphans>> /\ todo' \subseteq todo
  BY DEF FinalizeWithoutAudio, CaptureTokens, CommitTrack, ReleaseHold, FailJob,
         Raise
<1>5. ASSUME UNCHANGED walletVars
      PROVE  /\ Posted(j, "debit_capture")' <=> Posted(j, "debit_capture")
             /\ Posted(j, "credit_release")' <=> Posted(j, "credit_release")
             /\ Posted(j, "debit_reserve")'
             /\ AmountOf(j)' = AmountOf(j)
             /\ \A i \in Jobs \ {j}, kind \in Kinds :
                  ledger'[<<i, kind>>] = ledger[<<i, kind>>]
  BY <1>3, <1>5 DEF Posted, AmountOf, walletVars
<1>6. ASSUME NEW row, Return(t), job' = [job EXCEPT ![j] = row],
             row.rid = job[j].rid, UNCHANGED walletVars,
             \A i \in Jobs \ {j} : i \in tracks' <=> i \in tracks,
             j \in tracks' => row.status = "succeeded",
             Posted(j, "debit_capture") => row.status = "succeeded",
             Posted(j, "credit_release") => row.status = "failed",
             row.status = "succeeded" => row.captured = AmountOf(j)
      PROVE  Alone'
  <2> DEFINE x == Returned(t)
  <2>1. x.pc \in OffPCs /\ Stays(t, j, x)
    BY ChannelLeaves
  <2>2. task' = [task EXCEPT ![t] = x]
    BY <1>6 DEF Return
  <2> HIDE DEF x
  <2> QED
    BY <1>2, <1>4, <1>5, <1>6, <2>1, <2>2, WorkerStep DEF OffPCs
<1>7. CASE FinalizeWithoutAudio(t) \/ FailJob(t)
  <2> DEFINE row == [job[j] EXCEPT !.status = "failed"]
  <2>1. /\ MarkFailed(j) /\ Return(t) /\ UNCHANGED <<walletVars, tracks>>
        /\ task[t].pc \in {"finalize", "markfailed"}
    BY <1>7 DEF FinalizeWithoutAudio, FailJob, At
  <2>2. /\ job' = [job EXCEPT ![j] = row]
        /\ row.status = "failed" /\ row.rid = job[j].rid
    BY <1>2, <1>3, <2>1 DEF MarkFailed, Job
  <2>3. ~Posted(j, "debit_capture")
    BY <1>3, <2>1
  <2> HIDE DEF row
  <2> QED
    BY <1>3, <1>6, <2>1, <2>2, <2>3
<1>8. CASE CommitTrack(t)
  <2> DEFINE row == [job[j] EXCEPT !.status = "succeeded", !.stage = "finalize",
                                   !.captured = task[t].captured]
  <2>1. /\ task[t].pc = "commit" /\ UNCHANGED walletVars
        /\ tracks' = tracks \cup {j} /\ Return(t)
        /\ MarkSucceeded(j, task[t].captured)
    BY <1>3, <1>8 DEF CommitTrack, At
  <2>2. job' = [job EXCEPT ![j] = row]
    BY <1>2, <2>1 DEF MarkSucceeded
  <2>3. /\ row.status = "succeeded" /\ row.rid = job[j].rid
        /\ row.captured = task[t].captured
    BY <1>3 DEF Job
  <2>4. \A i \in Jobs \ {j} : i \in tracks' <=> i \in tracks
    BY <2>1
  <2> HIDE DEF row
  <2> QED
    BY <1>3, <1>6, <2>1, <2>2, <2>3, <2>4
<1>9. job' = job => job' = [job EXCEPT ![j] = job[j]]
  BY <1>2
<1>10. CASE CaptureTokens(t)
  <2>1. task[t].pc = "finalize" /\ UNCHANGED <<job, tracks>>
    BY <1>10 DEF CaptureTokens, At
  <2>2. ASSUME NEW n \in Charge[j], Capture(Owner[j], n, Price[j], j),
               task' = [task EXCEPT ![t] = [Only(t, "commit") EXCEPT !.captured = n]]
        PROVE  Alone'
    <3> DEFINE x == [Only(t, "commit") EXCEPT !.captured = n]
    <3>1. x.pc = "commit" /\ x.captured = n /\ Stays(t, j, x)
      BY DEF Only, Idle, Stays
    <3>2. n \in Int
      <4>1. Price[j] \in Nat
        BY RefTypes
      <4> QED
        BY <4>1, ChargeAssumption
    <3>3. Post(Owner[j], j, "debit_capture", -n, Price[j] - n, -Price[j], Price[j])
      BY <2>2 DEF Capture
    <3>4. /\ ledger'[<<j, "debit_capture">>].amount = -n
          /\ \A i \in Jobs, other \in Kinds :
               <<i, other>> # <<j, "debit_capture">> =>
                 ledger'[<<i, other>>] = ledger[<<i, other>>]
      BY <3>3, KindTypes, PostForJob
    <3>5. /\ AmountOf(j)' = n
          /\ Posted(j, "debit_reserve")' /\ ~Posted(j, "credit_release")'
      <4>1. AmountOf(j)' = n
        BY <3>2, <3>4 DEF AmountOf
      <4> QED
        BY <1>3, <2>1, <3>4, <4>1, KindTypes DEF Posted
    <3>6. \A i \in Jobs \ {j}, kind \in Kinds :
            ledger'[<<i, kind>>] = ledger[<<i, kind>>]
      BY <3>4
    <3>7. task' = [task EXCEPT ![t] = x]
      BY <2>2
    <3> HIDE DEF x
    <3> QED
      BY <1>2, <1>3, <1>4, <1>9, <2>1, <3>1, <3>5, <3>6, <3>7, WorkerStep
  <2>3. CASE CaptureAborts(Owner[j], Price[j], j) /\ Raise(t)
    <3> DEFINE x == Idle
    <3>1. UNCHANGED walletVars /\ task' = [task EXCEPT ![t] = x]
      BY <2>3, ChannelLeaves DEF CaptureAborts
    <3>2. x.pc \in OffPCs /\ Stays(t, j, x)
      BY ChannelLeaves
    <3> HIDE DEF x
    <3> QED
      BY <1>2, <1>3, <1>4, <1>5, <1>9, <2>1, <3>1, <3>2, WorkerStep DEF OffPCs
  <2> QED
    BY <1>3, <1>10, <2>1, <2>2, <2>3 DEF CaptureTokens, Duplicate
<1>11. CASE ReleaseHold(t)
  <2> DEFINE x == [task[t] EXCEPT !.pc = "markfailed"]
  <2>1. /\ task' = [task EXCEPT ![t] = x] /\ x.pc = "markfailed" /\ Stays(t, j, x)
        /\ task[t].pc = "release" /\ UNCHANGED <<job, tracks>>
    BY <1>1, <1>2, <1>11
       DEF ReleaseHold, GoTo, Task, At, GenInv, GenTypeOK, JobOf, Stays
  <2>2. /\ ~Posted(j, "debit_capture")' /\ Posted(j, "debit_reserve")'
        /\ \A i \in Jobs \ {j}, kind \in Kinds :
             ledger'[<<i, kind>>] = ledger[<<i, kind>>]
    <3> DEFINE back == Least(Price[j], wallet[Owner[j]].reserved)
    <3>1. CASE Post(Owner[j], j, "credit_release", back, back, -back, 0)
      <4> HIDE DEF back
      <4>1. \A i \in Jobs, other \in Kinds :
              <<i, other>> # <<j, "credit_release">> =>
                ledger'[<<i, other>>] = ledger[<<i, other>>]
        BY <3>1, KindTypes, PostForJob
      <4> QED
        BY <1>3, <2>1, <4>1, KindTypes DEF Posted
    <3>2. CASE UNCHANGED walletVars
      BY <1>3, <1>5, <2>1, <3>2
    <3> QED
      BY <1>11, <3>1, <3>2 DEF ReleaseHold, Release, Duplicate
  <2> HIDE DEF x
  <2> QED
    BY <1>2, <1>3, <1>4, <1>9, <2>1, <2>2, WorkerStep
<1> QED
  BY <1>7, <1>8, <1>10, <1>11

-----------------------------------------------------------------------------
(* The steps outside the pipeline. *)

\* A step that runs no task and touches no job.
LEMMA QuietStep ==
  ASSUME GenInv, Alone, UNCHANGED <<job, tracks, task, orphans>>,
         \A i \in Jobs, kind \in Kinds : ledger'[<<i, kind>>] = ledger[<<i, kind>>],
         \A i \in Jobs, k \in SubmitKinds : Finished(i, k) => Finished(i, k)',
         todo' = todo \/ (PollEnabled /\ TodoFresh')
  PROVE  Alone'
<1>1. \A i \in Jobs : Same(i)
  BY DEF Same, Works, JobOf
<1>2. \A i \in Jobs : AloneOf(i)'
  BY <1>1, SameKeeps DEF Alone
<1>3. TodoFresh'
  BY DEF Alone, ChannelFits, TodoFresh, RowFor, Active, Worked, Works, JobOf
<1>4. Quiet' /\ PollerOff'
  BY DEF Alone, ChannelFits, Quiet, PollerOff, At
<1>5. ClaimsApart'
  <2>1. \A h \in Hooks : ~At(h, "idle") =>
          JobOf(h) \in Jobs /\ task[h].event \in SubmitKinds
    BY ClaimType
  <2>2. \A h \in Hooks : ~At(h, "idle") =>
          fal'[JobOf(h)][task[h].event] \in AllOutcomes
    BY <2>1 DEF Alone, ChannelFits, ClaimsApart, Finished
  <2> QED
    BY <2>2 DEF Alone, ChannelFits, ClaimsApart, Finished, At, JobOf
<1> QED
  BY <1>2, <1>3, <1>4, <1>5 DEF Alone, ChannelFits

\* A task of the channel that was outside the pipeline concerns at most the
\* job it takes up.
LEMMA OffKeeps ==
  ASSUME GenInv, Alone, NEW t \in Channels, task[t].pc \in OffPCs, NEW x,
         task' = [task EXCEPT ![t] = x],
         UNCHANGED <<walletVars, job, tracks, fal, orphans>>, todo' \subseteq todo,
         t = Poller => PollEnabled,
         \A row \in todo' : x.pc \in OffPCs \/ row.job # x.job
  PROVE  /\ Quiet' /\ PollerOff' /\ TodoFresh'
         /\ \A i \in Jobs : x.pc \in OffPCs \/ i # x.job => AloneOf(i)'
<1>1. /\ task \in [Tasks -> Task] /\ Sweep \in Tasks
      /\ \A s \in Channels : s \in Tasks /\ s # Sweep
  BY TaskNames, ChannelNames DEF GenInv, GenTypeOK
<1>2. task'[t] = x /\ \A s \in Tasks \ {t} : task'[s] = task[s]
  BY <1>1
<1>3. Quiet'
  BY <1>1, <1>2 DEF Alone, ChannelFits, Quiet, At
<1>4. PollerOff'
  BY <1>2, TaskNames DEF Alone, ChannelFits, PollerOff, At
<1>5. ASSUME NEW i \in Jobs, x.pc \in OffPCs \/ i # x.job, NEW s \in Channels
      PROVE  /\ Works(s, i)' <=> Works(s, i)
             /\ Works(s, i) => task'[s] = task[s]
  BY <1>1, <1>2, <1>5 DEF Works, JobOf
<1>6. ASSUME NEW i \in Jobs, x.pc \in OffPCs \/ i # x.job
      PROVE  AloneOf(i)'
  <2>1. task'[i] = task[i]
    BY <1>1, <1>2, TaskNames, ChannelNames
  <2>2. Same(i)
    BY <1>5, <1>6, <2>1, WalletElsewhere DEF Same, Finished
  <2> QED
    BY <2>2, SameKeeps DEF Alone
<1>7. TodoFresh'
  <2> SUFFICES ASSUME NEW row \in todo'
               PROVE  \E i \in Jobs : (row = RowFor(i) /\ Active(i) /\ ~Worked(i))'
    BY DEF TodoFresh
  <2>1. PICK i \in Jobs : row = RowFor(i) /\ Active(i) /\ ~Worked(i)
    BY DEF Alone, ChannelFits, TodoFresh
  <2>2. row.job = i
    BY <2>1 DEF RowFor
  <2>3. ~Worked(i)'
    BY <1>5, <2>1, <2>2 DEF Worked
  <2> QED
    BY <2>1, <2>3 DEF RowFor, Active
<1> QED
  BY <1>3, <1>4, <1>6, <1>7

\* It takes up a job nobody works on, whose request has ended.
LEMMA TakesUp ==
  ASSUME GenInv, Alone, NEW t \in Channels, task[t].pc \in OffPCs, NEW x,
         task' = [task EXCEPT ![t] = x],
         UNCHANGED <<walletVars, job, tracks, fal, orphans>>, todo' \subseteq todo,
         t = Poller => PollEnabled,
         NEW j \in Jobs, x.job = j, x.pc \in {"advance", "fail"},
         \A row \in todo' : row.job # j,
         t \in Hooks => x.event = job[j].rid /\ ~At(t, "idle") /\ Stays(t, JobOf(t), x),
         \A s \in Channels : ~Works(s, j),
         job[j].rid # "none", Finished(j, job[j].rid), ~Terminal(j)
  PROVE  Alone'
<1>1. /\ Quiet' /\ PollerOff' /\ TodoFresh'
      /\ \A i \in Jobs \ {j} : AloneOf(i)'
  BY OffKeeps
<1>2. /\ t \in Tasks /\ task'[t] = x /\ task'[j] = task[j]
      /\ \A s \in Channels \ {t} : task'[s] = task[s]
  BY TaskNames, ChannelNames DEF GenInv, GenTypeOK
<1>3. ClaimsApart'
  BY <1>2, ClaimsKept DEF Alone, ChannelFits, Finished
<1>4. \A s \in Channels : Works(s, j)' => s = t
  BY <1>2 DEF Works, JobOf
<1>5. OneWorker(j) /\ SettledAsSaid(j)
  BY DEF Alone, AloneOf
<1>6. /\ task[j].pc = "replied" /\ Posted(j, "debit_reserve") /\ j \notin tracks
      /\ job[j].status \notin {"succeeded", "failed"}
      /\ ~Posted(j, "debit_capture") /\ ~Posted(j, "credit_release")
  BY <1>5 DEF OneWorker, SettledAsSaid, Terminal, At
<1>7. /\ Posted(j, "debit_reserve")'
      /\ ~Posted(j, "debit_capture")' /\ ~Posted(j, "credit_release")'
  BY <1>6 DEF Posted, walletVars
<1>8. OneWorker(j)'
  <2>1. \A h \in Hooks : Works(h, j)' => task'[h].event = job'[j].rid
    BY <1>2, <1>4 DEF Channels
  <2> QED
    BY <1>2, <1>4, <1>6, <1>7, <2>1 DEF OneWorker, RequestPCs, Terminal, Finished
<1>9. SettledAsSaid(j)'
  BY <1>2, <1>4, <1>6, <1>7 DEF SettledAsSaid, At
<1> QED
  BY <1>1, <1>3, <1>8, <1>9 DEF Alone, ChannelFits, AloneOf

\* The poller hands the row of j to advance or fail, with locals x.
Hands(row, j, x) ==
  /\ row = RowFor(j) /\ Active(j)
  /\ \A s \in Channels : ~Works(s, j)
  /\ \E outcome \in Reported(row) :
       x = [Dispatched(Poller, CurrentStage(row.stage), outcome)
              EXCEPT !.job = row.job]
  /\ task' = [task EXCEPT ![Poller] = x]
  /\ x.job = j /\ x.pc \in {"advance", "fail"}

LEMMA PollerTakes ==
  ASSUME OneChannel, GenInv, Alone, NEW row \in todo, PollFinished(row)
  PROVE  PollEnabled /\ Hooks = {} /\ \E j \in Jobs : \E x : Hands(row, j, x)
<1>1. PICK j \in Jobs : row = RowFor(j) /\ Active(j) /\ ~Worked(j)
  BY DEF Alone, ChannelFits, TodoFresh
<1>2. PICK outcome \in Reported(row) :
        task' = [task EXCEPT ![Poller] =
          [Dispatched(Poller, CurrentStage(row.stage), outcome)
             EXCEPT !.job = row.job]]
  BY DEF PollFinished
<1> DEFINE x == [Dispatched(Poller, CurrentStage(row.stage), outcome)
                   EXCEPT !.job = row.job]
<1>3. task[Poller] \in Task
  BY TaskNames DEF GenInv, GenTypeOK
<1>4. x.job = j /\ x.pc \in {"advance", "fail"}
  BY <1>1, <1>3 DEF Dispatched, Task, RowFor
<1>5. PollEnabled /\ Hooks = {}
  BY DEF OneChannel, Alone, ChannelFits, PollerOff
<1>6. Hands(row, j, x)
  BY <1>1, <1>2, <1>4 DEF Worked, Hands
<1> QED
  BY <1>5, <1>6

LEMMA PollSteps ==
  ASSUME OneChannel, GenInv, Alone, Poll
  PROVE  Alone'
<1>1. CASE FetchActiveJobs
  <2>1. /\ UNCHANGED <<walletVars, job, tracks, fal, task, orphans>>
        /\ At(Poller, "idle") /\ PollEnabled
    BY <1>1 DEF FetchActiveJobs
  <2>2. \A j \in Jobs : ~Worked(j)
    BY <2>1 DEF OneChannel, Worked, Channels, Works, OffPCs, At
  <2>3. ASSUME NEW row \in todo'
        PROVE  \E j \in Jobs : (row = RowFor(j) /\ Active(j) /\ ~Worked(j))'
    <3>1. PICK j \in Jobs : row = RowFor(j) /\ Active(j)
      BY <1>1, <2>3 DEF FetchActiveJobs, RowFor
    <3> QED
      BY <2>1, <2>2, <3>1 DEF RowFor, Active, Worked, Works, JobOf
  <2>4. TodoFresh'
    BY <2>3 DEF TodoFresh
  <2> QED
    BY <2>1, <2>4, WalletElsewhere, QuietStep DEF Finished
<1>2. ASSUME NEW row \in todo, PollPending(row)
      PROVE  Alone'
  <2>1. /\ UNCHANGED <<walletVars, job, tracks, fal, task, orphans>>
        /\ todo' \subseteq todo
    BY <1>2 DEF PollPending
  <2>2. TodoFresh' /\ PollEnabled
    BY <2>1 DEF Alone, ChannelFits, PollerOff, TodoFresh, RowFor, Active, Worked,
                Works, JobOf
  <2> QED
    BY <2>1, <2>2, WalletElsewhere, QuietStep DEF Finished
<1>3. ASSUME NEW row \in todo, PollFinished(row)
      PROVE  Alone'
  <2>1. PollEnabled /\ Hooks = {} /\ \E j \in Jobs : \E x : Hands(row, j, x)
    BY <1>3, PollerTakes
  <2> PICK j \in Jobs : \E x : Hands(row, j, x)
    BY <2>1
  <2> PICK x : Hands(row, j, x)
    OBVIOUS
  <2>2. /\ At(Poller, "idle") /\ todo' = todo \ {row}
        /\ UNCHANGED <<walletVars, job, tracks, fal, orphans>>
    BY <1>3 DEF PollFinished
  <2>3. job[j].rid # "none" /\ ~Terminal(j)
    BY DEF Hands, RowFor, Active, Terminal
  <2>4. Finished(j, job[j].rid)
    BY DEF Hands, Reported, RowFor
  <2>5. ASSUME NEW other \in todo'
        PROVE  other.job # j
    <3>1. PICK i \in Jobs : other = RowFor(i)
      BY <2>2, <2>5 DEF Alone, ChannelFits, TodoFresh
    <3>2. i # j
      BY <2>2, <2>5, <3>1 DEF Hands
    <3> QED
      BY <3>1, <3>2 DEF RowFor
  <2>6. Poller \in Channels /\ task[Poller].pc \in OffPCs
    BY <2>2 DEF Channels, OffPCs, At
  <2> QED
    BY <2>1, <2>2, <2>3, <2>4, <2>5, <2>6, TakesUp DEF Hands
<1> QED
  BY <1>1, <1>2, <1>3 DEF Poll

\* A delivery before and after the pipeline.
LEMMA HookOff ==
  ASSUME GenInv, Alone, NEW h \in Hooks, task[h].pc \in OffPCs, NEW x,
         x.pc \in OffPCs, task' = [task EXCEPT ![h] = x],
         UNCHANGED <<walletVars, job, tracks, fal, todo, orphans>>,
         ClaimsApart'
  PROVE  Alone'
<1>1. h \in Channels /\ h # Poller
  BY TaskNames DEF Channels
<1>2. Quiet' /\ PollerOff' /\ TodoFresh' /\ \A i \in Jobs : AloneOf(i)'
  BY <1>1, OffKeeps
<1> QED
  BY <1>2 DEF Alone, ChannelFits

\* The job that a delivery takes up waits for its event, and nobody works on it.
LEMMA HookTakes ==
  ASSUME OneChannel, GenInv, Alone, NEW h \in Hooks, LookUpRequest(h),
         NEW j \in Jobs, j = JobOf(h),
         job[j].rid = task[h].event, ~Terminal(j)
  PROVE  \E x : /\ x = Dispatched(h, CurrentStage(job[j].stage), fal[j][job[j].rid])
                /\ task' = [task EXCEPT ![h] = x]
                /\ x.job = j /\ x.event = task[h].event
                /\ x.pc \in {"advance", "fail"}
                /\ \A s \in Channels : ~Works(s, j)
                /\ job[j].rid # "none" /\ Finished(j, job[j].rid)
                /\ ~At(h, "idle") /\ todo = {}
<1>1. /\ task[h] \in Task /\ At(h, "claimed") /\ ~At(h, "idle")
      /\ task' = [task EXCEPT ![h] =
                    Dispatched(h, CurrentStage(job[j].stage), fal[j][job[j].rid])]
  BY TaskNames DEF LookUpRequest, GenInv, GenTypeOK, At
<1>2. /\ Finished(j, job[j].rid) /\ job[j].rid \in SubmitKinds
      /\ \A g \in Hooks :
           ~At(g, "idle") /\ JobOf(g) = j /\ task[g].event = job[j].rid => g = h
  BY <1>1, ClaimType DEF Alone, ChannelFits, ClaimsApart
<1>3. todo = {} /\ At(Poller, "idle")
  BY DEF OneChannel, Alone, ChannelFits, PollerOff
<1>4. ASSUME NEW s \in Channels, Works(s, j)
      PROVE  FALSE
  <2>1. s \in Hooks /\ ~At(s, "idle") /\ JobOf(s) = j
    BY <1>3, <1>4 DEF Works, OffPCs, Channels, At
  <2>2. task[s].event = job[j].rid
    BY <1>4, <2>1 DEF Alone, AloneOf, OneWorker
  <2>3. s = h
    BY <1>2, <2>1, <2>2
  <2> QED
    BY <1>1, <1>4, <2>3 DEF Works, OffPCs, At
<1>5. job[j].rid # "none"
  BY <1>2 DEF SubmitKinds, MusicKinds
<1> DEFINE x == Dispatched(h, CurrentStage(job[j].stage), fal[j][job[j].rid])
<1>6. x.job = j /\ x.event = task[h].event /\ x.pc \in {"advance", "fail"}
  BY <1>1 DEF Dispatched, Task, JobOf
<1> QED
  BY <1>1, <1>2, <1>3, <1>4, <1>5, <1>6

LEMMA WebhookSteps ==
  ASSUME OneChannel, GenInv, Alone, NEW h \in Hooks, Webhook(h)
  PROVE  Alone'
<1>1. h \in Tasks /\ h \in Channels /\ h # Poller /\ task \in [Tasks -> Task]
  BY TaskNames DEF GenInv, GenTypeOK, Channels
<1>2. ASSUME NEW j \in Jobs, NEW kind \in SubmitKinds, ClaimEvent(h, j, kind)
      PROVE  Alone'
  <2> DEFINE x == [Idle EXCEPT !.pc = "claimed", !.job = j, !.event = kind]
  <2>1. /\ task' = [task EXCEPT ![h] = x]
        /\ UNCHANGED <<walletVars, job, tracks, fal, todo, orphans>>
        /\ At(h, "idle") /\ Finished(j, kind) /\ <<j, kind>> \notin seen
    BY <1>2 DEF ClaimEvent
  <2>2. x.pc = "claimed" /\ x.job = j /\ x.event = kind
    BY DEF Idle
  <2> HIDE DEF x
  <2>3. task'[h] = x /\ \A g \in Hooks \ {h} : task'[g] = task[g]
    BY <1>1, <2>1, TaskNames
  <2>4. ASSUME NEW g \in Hooks \ {h}, ~At(g, "idle")
        PROVE  ~(JobOf(g) = j /\ task[g].event = kind)
    BY <2>1, <2>4, TaskNames DEF GenInv, LocalsHold, LocalsOf
  <2>5. ClaimsApart'
    <3>1. Finished(JobOf(h), task[h].event)'
      BY <2>1, <2>2, <2>3 DEF Finished, JobOf
    <3>2. \A g \in Hooks \ {h} :
            ~At(g, "idle") => Finished(JobOf(g), task[g].event)'
      BY <2>1, <2>3 DEF Alone, ChannelFits, ClaimsApart, Finished, JobOf
    <3> QED
      BY <2>2, <2>3, <2>4, <3>1, <3>2 DEF Alone, ChannelFits, ClaimsApart, JobOf, At
  <2>6. task[h].pc \in OffPCs /\ x.pc \in OffPCs
    BY <2>1, <2>2 DEF OffPCs, At
  <2> QED
    BY <2>1, <2>5, <2>6, HookOff
<1>3. ASSUME NEW x, task' = [task EXCEPT ![h] = x], ~At(h, "idle"),
             task[h].pc \in OffPCs, x.pc \in OffPCs, Stays(h, JobOf(h), x),
             UNCHANGED <<walletVars, job, tracks, fal, todo, orphans>>
      PROVE  Alone'
  <2>1. \A i \in Jobs, k \in SubmitKinds : Finished(i, k) => Finished(i, k)'
    BY <1>3 DEF Finished
  <2>2. ClaimsApart'
    <3>1. PICK j \in Jobs : j = JobOf(h)
      BY <1>3, ClaimType
    <3> QED
      BY <1>1, <1>3, <2>1, <3>1, ClaimsKept DEF Alone, ChannelFits
  <2> QED
    BY <1>3, <2>2, HookOff
<1>4. ASSUME ~At(h, "idle")
      PROVE  /\ JobOf(h) \in Jobs
             /\ Returned(h).pc \in OffPCs /\ Stays(h, JobOf(h), Returned(h))
             /\ Idle.pc \in OffPCs /\ Stays(h, JobOf(h), Idle)
  BY <1>1, <1>4, ClaimType, ChannelLeaves
<1>5. CASE LookUpRequest(h)
  <2>1. /\ At(h, "claimed") /\ ~At(h, "idle") /\ task[h].pc \in OffPCs
        /\ UNCHANGED <<walletVars, job, tracks, fal, todo, orphans>>
    BY <1>5 DEF LookUpRequest, At, OffPCs
  <2>2. PICK j \in Jobs : j = JobOf(h)
    BY <1>4, <2>1
  <2>3. CASE job[j].rid # task[h].event \/ Terminal(j)
    <3>1. task' = [task EXCEPT ![h] = Returned(h)]
      BY <1>5, <2>2, <2>3 DEF LookUpRequest
    <3> QED
      BY <1>3, <1>4, <2>1, <3>1
  <2>4. CASE job[j].rid = task[h].event /\ ~Terminal(j)
    <3>1. PICK x :
            /\ task' = [task EXCEPT ![h] = x]
            /\ x.job = j /\ x.event = task[h].event
            /\ x.pc \in {"advance", "fail"}
            /\ \A s \in Channels : ~Works(s, j)
            /\ job[j].rid # "none" /\ Finished(j, job[j].rid)
            /\ todo = {}
      BY <1>5, <2>2, <2>4, HookTakes
    <3>2. Stays(h, JobOf(h), x)
      BY <2>2, <3>1 DEF Stays
    <3> QED
      BY <1>1, <2>1, <2>4, <3>1, <3>2, TakesUp
  <2> QED
    BY <2>3, <2>4
<1>6. CASE MarkApplied(h)
  <2>1. /\ ~At(h, "idle") /\ task[h].pc \in OffPCs
        /\ task' = [task EXCEPT ![h] = Idle]
        /\ UNCHANGED <<walletVars, job, tracks, fal, todo, orphans>>
    BY <1>6 DEF MarkApplied, At, OffPCs
  <2> QED
    BY <1>3, <1>4, <2>1
<1> QED
  BY <1>2, <1>5, <1>6 DEF Webhook

LEMMA EnvironmentSteps ==
  ASSUME GenInv, Alone, Environment
  PROVE  Alone'
<1>1. ASSUME NEW j \in Jobs, NEW kind \in SubmitKinds, NEW outcome \in Outcomes,
             FinishSubmission(j, kind, outcome)
      PROVE  Alone'
  <2>1. /\ fal \in [Jobs -> [SubmitKinds -> AllOutcomes \cup {"none", "running"}]]
        /\ fal[j][kind] = "running" /\ fal' = [fal EXCEPT ![j][kind] = outcome]
        /\ UNCHANGED <<walletVars, job, tracks, task, todo, orphans>>
    BY <1>1 DEF FinishSubmission, GenInv, GenTypeOK
  <2>2. \A i \in Jobs, k \in SubmitKinds : Finished(i, k) => Finished(i, k)'
    BY <2>1, OutcomesAssumption DEF Finished, AllOutcomes
  <2> QED
    BY <2>1, <2>2, WalletElsewhere, QuietStep
<1>2. ASSUME NEW u \in Users, NEW n \in Amounts, NEW r \in Credits, Grant(u, n, r)
      PROVE  Alone'
  <2>1. /\ ledger' = [ledger EXCEPT ![<<r, "credit_subscription_grant">>] =
                        EntryFor(u, Moved(wallet[u], n, 0), n, 0)]
        /\ UNCHANGED genVars
    BY <1>2 DEF Grant, Credit, Post
  <2>2. \A i \in Jobs, kind \in Kinds : ledger'[<<i, kind>>] = ledger[<<i, kind>>]
    BY <2>1, RefsAssumption, RefTypes DEF GenInv, GenTypeOK, WalletTypeOK, Keys
  <2>3. \A i \in Jobs, k \in SubmitKinds : Finished(i, k) => Finished(i, k)'
    BY <2>1 DEF genVars, Finished
  <2> QED
    BY <2>1, <2>2, <2>3, QuietStep DEF genVars
<1>3. ASSUME NEW u \in Users, NEW frozen \in Freezes, Freeze(u, frozen)
      PROVE  Alone'
  <2>1. UNCHANGED ledger /\ UNCHANGED genVars
    BY <1>3 DEF Freeze, SetFrozen
  <2> QED
    BY <2>1, QuietStep DEF genVars, Finished
<1> QED
  BY <1>1, <1>2, <1>3 DEF Environment

-----------------------------------------------------------------------------
(* The invariant and what follows from it. *)

LEMMA PipelineAlone ==
  ASSUME OneChannel, GenInv, Alone, NEW t \in Tasks, PipelineStep(t)
  PROVE  Alone'
<1>1. \/ t \in Channels
      \/ t \in Jobs /\ task[t].pc \in {"setstage", "release", "markfailed"}
  BY WhoRuns
<1>2. CASE t \in Channels
  BY <1>2, MovingSteps, WorkerWriteSteps, WorkerEnds DEF PipelineStep
<1>3. CASE t \in Jobs /\ task[t].pc \in {"setstage", "release", "markfailed"}
  <2>1. RecordSubmission(t) \/ ReleaseHold(t) \/ FailJob(t)
    BY <1>3
       DEF PipelineStep, Advance, PersistRuntime, SubmitRefine, CloneVoice,
           SaveClonedVoice, SubmitSpeech, FinalizeWithoutAudio, CaptureTokens,
           CommitTrack, Fail, MarkFallback, At
  <2> QED
    BY <1>3, <2>1, RequestEnds
<1> QED
  BY <1>1, <1>2, <1>3

LEMMA AloneStep ==
  ASSUME OneChannel, GenInv, Alone, [GenNext]_vars
  PROVE  Alone'
<1>1. ~Crash
  BY DEF Crash, OneChannel, GenInv, GenTypeOK
<1>2. \A j \in Jobs : ~RecoverOrphan(j)
  BY DEF RecoverOrphan, Alone, ChannelFits, Quiet
<1>3. CASE UNCHANGED vars
  BY <1>3, WalletElsewhere, QuietStep DEF vars, genVars, Finished
<1>4. CASE GenNext
  BY <1>1, <1>2, <1>4, CreateJobSteps, PipelineAlone, PollSteps,
     WebhookSteps, EnvironmentSteps DEF GenNext
<1> QED
  BY <1>3, <1>4

LEMMA AloneInit ==
  ASSUME GenInit
  PROVE  Alone
<1>1. \A j \in Jobs, kind \in Kinds : ~Posted(j, kind)
  BY RefTypes DEF GenInit, WalletInit, Posted, Keys
<1>2. \A t \in Tasks : task[t].pc = "idle"
  BY DEF GenInit, Idle
<1>3. Quiet /\ PollerOff
  BY <1>2, TaskNames DEF GenInit, Quiet, PollerOff, At
<1>4. TodoFresh /\ ClaimsApart
  BY <1>2, TaskNames DEF GenInit, TodoFresh, ClaimsApart, At
<1>5. ASSUME NEW j \in Jobs
      PROVE  AloneOf(j)
  <2>1. /\ job[j].status = "absent" /\ job[j].rid = "none" /\ j \notin tracks
        /\ task[j].pc = "idle"
        /\ ~Posted(j, "debit_capture") /\ ~Posted(j, "credit_release")
    BY <1>1, <1>2, TaskNames, KindTypes DEF GenInit, NoJob
  <2>2. \A t \in Channels : ~Works(t, j)
    BY <1>2, ChannelNames DEF Works, OffPCs
  <2> QED
    BY <2>1, <2>2, ChannelNames
       DEF AloneOf, OneWorker, SettledAsSaid, RequestPCs, Terminal, Worked,
           Channels, At
<1> QED
  BY <1>3, <1>4, <1>5 DEF Alone, ChannelFits

LEMMA AlwaysAlone == OneChannel /\ GenSpec => [](GenInv /\ Alone)
<1> SUFFICES ASSUME OneChannel
             PROVE  GenSpec => [](GenInv /\ Alone)
  OBVIOUS
<1>1. GenInv /\ Alone /\ [GenNext]_vars => Alone'
  BY AloneStep
<1>2. GenInit => Alone
  BY AloneInit
<1> QED
  BY <1>1, <1>2, AlwaysInv, PTL DEF GenSpec

\* Where one channel brings the answers, the tokens of a job are charged or
\* given back, never both, for any number of jobs: the poller hands one row at
\* a time to advance or fail, the webhook an event that no other delivery has
\* claimed, and the request has ended before (Pipeline._finalize against
\* Pipeline.fail and the rollback of create_job).
THEOREM SettledOnce == OneChannel /\ GenSpec => []ChargedOrReturned
<1>1. Alone => ChargedOrReturned
  <2> SUFFICES ASSUME Alone, NEW j \in Jobs,
                      Posted(j, "debit_capture"), Posted(j, "credit_release")
               PROVE  FALSE
    BY DEF ChargedOrReturned
  <2>1. OneWorker(j) /\ SettledAsSaid(j)
    BY DEF Alone, AloneOf
  <2>2. CASE job[j].status = "succeeded"
    BY <2>1, <2>2 DEF SettledAsSaid, OneWorker, Worked, Terminal, At
  <2>3. ASSUME NEW t \in Channels, Works(t, j), At(t, "commit")
        PROVE  FALSE
    BY <2>1, <2>3 DEF SettledAsSaid, OneWorker, Worked, Terminal, At
  <2> QED
    BY <2>1, <2>2, <2>3 DEF SettledAsSaid
<1> QED
  BY <1>1, AlwaysAlone, PTL

\* There a succeeded job reports exactly what the ledger charged for it: the
\* amount _finalize captured is the one it commits with the track.
THEOREM ReportedAsCharged == OneChannel /\ GenSpec => []ChargeIsReported
<1>1. Alone => ChargeIsReported
  BY DEF Alone, AloneOf, SettledAsSaid, ChargeIsReported, AmountOf
<1> QED
  BY <1>1, AlwaysAlone, PTL

\* There a job whose fallback is running is not failed: the channel takes it up
\* again only when the new request has ended (Pipeline.fail and _mark_fallback).
THEOREM FallbackIsAwaited == OneChannel /\ GenSpec => []FallbackAwaited
<1>1. Alone => FallbackAwaited
  <2> SUFFICES ASSUME Alone, NEW j \in Jobs, job[j].rid \in FallbackKinds,
                      fal[j][job[j].rid] = "running"
               PROVE  job[j].status # "failed"
    BY DEF FallbackAwaited
  <2>1. ~Finished(j, job[j].rid) /\ job[j].rid # "none"
    BY DEF Finished, AllOutcomes, FallbackKinds
  <2> QED
    BY <2>1 DEF Alone, AloneOf, OneWorker, Terminal
<1> QED
  BY <1>1, AlwaysAlone, PTL

\* There a job that is processing has its tokens set aside until the task that
\* settled them writes the final status.
THEOREM HeldWhileProcessing == OneChannel /\ GenSpec => []ProcessingIsHeld
<1>1. GenInv /\ Alone => ProcessingIsHeld
  <2> SUFFICES ASSUME Alone, NEW j \in Jobs, job[j].status = "processing"
               PROVE  \/ OpenHold(j)
                      \/ \E t \in Tasks : /\ JobOf(t) = j
                                          /\ task[t].pc \in {"commit", "markfailed"}
    BY DEF ProcessingIsHeld
  <2>1. OneWorker(j) /\ SettledAsSaid(j)
    BY DEF Alone, AloneOf
  <2>2. Posted(j, "debit_reserve") /\ task[j].pc = "replied"
    BY <2>1 DEF OneWorker
  <2> QED
    BY <2>1, <2>2, ChannelNames DEF SettledAsSaid, OpenHold, Works, At
<1> QED
  BY <1>1, AlwaysAlone, PTL

\* Who writes a row finds its job unfinished.
LEMMA FinishedStays ==
  ASSUME OneChannel, GenInv, Alone, [GenNext]_vars, NEW j \in Jobs, Terminal(j)
  PROVE  job'[j].status = job[j].status
<1>1. job \in [Jobs -> Job]
  BY DEF GenInv, GenTypeOK
<1>2. CASE UNCHANGED job
  BY <1>2
<1>3. ASSUME NEW i \in Jobs, AddJob(i)
      PROVE  job'[j].status = job[j].status
  <2>1. job[i].status = "absent"
    BY <1>3, RequestFacts DEF AddJob, At
  <2>2. i # j
    BY <2>1 DEF Terminal
  <2> QED
    BY <1>1, <1>3, <2>2 DEF AddJob
<1>4. ASSUME NEW t \in Tasks, PipelineStep(t)
      PROVE  job'[j].status = job[j].status
  <2>1. /\ JobOf(t) \in Jobs
        /\ \/ t \in Jobs /\ JobOf(t) = t
              /\ task[t].pc \in {"setstage", "release", "markfailed"}
           \/ t \in Channels /\ Works(t, JobOf(t))
    BY <1>4, WhoRuns
  <2>2. ~Terminal(JobOf(t))
    <3>1. CASE t \in Jobs /\ JobOf(t) = t
               /\ task[t].pc \in {"setstage", "release", "markfailed"}
      BY <3>1, RequestFacts DEF Terminal
    <3>2. CASE t \in Channels /\ Works(t, JobOf(t))
      BY <2>1, <3>2, WorkedFacts DEF Terminal
    <3> QED
      BY <2>1, <3>1, <3>2
  <2>3. JobOf(t) # j
    BY <2>2
  <2>4. job'[j] = job[j]
    BY <1>1, <1>4, <2>3
       DEF PipelineStep, Advance, PersistRuntime, SubmitRefine, CloneVoice,
           SaveClonedVoice, SubmitSpeech, RecordSubmission,
           FinalizeWithoutAudio, CaptureTokens, CommitTrack, Fail, MarkFallback,
           ReleaseHold, FailJob, SetCurrentStage, MarkFailed, MarkSucceeded
  <2> QED
    BY <2>4
<1>5. \/ UNCHANGED job
      \/ \E i \in Jobs : AddJob(i)
      \/ \E t \in Tasks : PipelineStep(t)
  BY DEF GenNext, CreateJob, LookUpKey, AddJob, ReserveTokens, SubmitMusic,
         Webhook, ClaimEvent, LookUpRequest, MarkApplied, Poll, FetchActiveJobs,
         PollPending, PollFinished, Crash, RecoverOrphan, Environment,
         FinishSubmission, Grant, Freeze, vars, genVars
<1> QED
  BY <1>2, <1>3, <1>4, <1>5

\* There a finished job stays as it finished: the channel takes up active jobs
\* only, and nobody else finishes one meanwhile (FalPoller._fetch_active_jobs
\* and FalPoller._apply, finalize_from_webhook).
THEOREM FinalStatusKept == OneChannel /\ GenSpec => FinalStatus
<1> SUFFICES ASSUME OneChannel
             PROVE  GenSpec => FinalStatus
  OBVIOUS
<1>1. GenInv /\ Alone /\ [GenNext]_vars => [FinalStatusStep]_vars
  BY FinishedStays DEF FinalStatusStep
<1> QED
  BY <1>1, AlwaysAlone, PTL DEF GenSpec, FinalStatus

-----------------------------------------------------------------------------
(* A finished job holds nothing.  That needs one assumption more: a job that *)
(* ends without an audio URL is failed without giving the tokens back        *)
(* (Pipeline._finalize), so no submission may end well and leave none.       *)

Sounding == "empty" \notin Outcomes

NoSilence == \A j \in Jobs, k \in SubmitKinds : fal[j][k] # "empty"

\* The row waits for the stage of its request, and asks for a refinement or a
\* voice only when it has the music.
RowSounds(r) ==
  /\ r.rid # "none" => r.stage \in {StageOf(r.rid), "finalize"}
  /\ r.rid \in {"refine", "tts"} => "music" \in r.out

\* The task of the channel with locals p carries the audio of the row r to the
\* end: it is called for the stage of the request the row waits for.
Carries(p, r) ==
  /\ p.pc \in {"advance", "persist", "refine", "fail"} => p.stage = StageOf(r.rid)
  /\ p.pc \in {"advance", "persist", "refine"} => p.audio
  /\ p.pc \in {"persist", "saveclone", "speech", "finalize"} => "music" \in p.out
  /\ p.pc \in {"refine", "tts", "saveclone", "speech", "setstage"} =>
       "music" \in r.out
  /\ p.pc = "setstage" => p.rid \in {"refine", "tts"}
  /\ p.pc = "fallback" => r.rid \in MusicKinds

HeardOf(j) ==
  /\ At(j, "setstage") => task[j].rid = "music"
  /\ RowSounds(job[j])
  /\ job[j].status = "failed" \/ At(j, "markfailed") => Posted(j, "credit_release")
  /\ \A t \in Channels :
       Works(t, j) => /\ Carries(task[t], job[j])
                      /\ At(t, "markfailed") => Posted(j, "credit_release")

Heard == NoSilence /\ \A j \in Jobs : HeardOf(j)

ReturnsStay ==
  \A i \in Jobs : Posted(i, "credit_release") => Posted(i, "credit_release")'

LEMMA PostedStays ==
  ASSUME GenInv, [GenNext]_vars
  PROVE  ReturnsStay
<1>1. WalletTypeOK' /\ JournalStep
  BY UsesWallet, WalletStep DEF GenInv, GenTypeOK
<1> QED
  BY <1>1, JournalGrows, RefTypes, KindTypes DEF WalletGrows, ReturnsStay

LEMMA NoSilenceStep ==
  ASSUME Sounding, GenInv, NoSilence, [GenNext]_vars
  PROVE  NoSilence'
<1>1. fal \in [Jobs -> [SubmitKinds -> AllOutcomes \cup {"none", "running"}]]
  BY DEF GenInv, GenTypeOK
<1>2. ASSUME NEW j \in Jobs, NEW kind \in SubmitKinds, Submitted(j, kind)
      PROVE  NoSilence'
  BY <1>1, <1>2 DEF Submitted, NoSilence
<1>3. CASE UNCHANGED fal
  BY <1>3 DEF NoSilence
<1>4. /\ "music" \in SubmitKinds /\ "refine" \in SubmitKinds /\ "tts" \in SubmitKinds
      /\ \A plan \in Plans : FallbacksOf(plan) \subseteq SubmitKinds
  BY DEF SubmitKinds, MusicKinds, FallbacksOf, FallbackKinds
<1>5. ASSUME NEW j \in Jobs, SubmitMusic(j)
      PROVE  NoSilence'
  BY <1>2, <1>3, <1>4, <1>5 DEF SubmitMusic
<1>6. ASSUME NEW t \in Tasks, SubmitRefine(t) \/ SubmitSpeech(t) \/ Fail(t)
      PROVE  NoSilence'
  <2>1. JobOf(t) \in Jobs /\ PlanOf(t) \in Plans
    BY <1>6, RunningTask DEF SubmitRefine, SubmitSpeech, Fail, At, NoJobPCs
  <2> QED
    BY <1>2, <1>3, <1>4, <1>6, <2>1 DEF SubmitRefine, SubmitSpeech, Fail
<1>7. ASSUME NEW j \in Jobs, NEW kind \in SubmitKinds, NEW outcome \in Outcomes,
             FinishSubmission(j, kind, outcome)
      PROVE  NoSilence'
  BY <1>1, <1>7 DEF FinishSubmission, NoSilence, Sounding
<1>8. \/ UNCHANGED fal
      \/ \E j \in Jobs : SubmitMusic(j)
      \/ \E t \in Tasks : SubmitRefine(t) \/ SubmitSpeech(t) \/ Fail(t)
      \/ \E j \in Jobs, kind \in SubmitKinds, outcome \in Outcomes :
           FinishSubmission(j, kind, outcome)
  BY DEF GenNext, CreateJob, LookUpKey, AddJob, ReserveTokens, PipelineStep,
         Advance, PersistRuntime, CloneVoice, SaveClonedVoice,
         RecordSubmission, FinalizeWithoutAudio, CaptureTokens, CommitTrack,
         MarkFallback, ReleaseHold, FailJob, Webhook, ClaimEvent,
         LookUpRequest, MarkApplied, Poll, FetchActiveJobs, PollPending,
         PollFinished, Crash, RecoverOrphan, Environment, Grant, Freeze, vars,
         genVars
<1> QED
  BY <1>3, <1>5, <1>6, <1>7, <1>8

\* The step of a task for job j leaves what is heard of other jobs alone.
LEMMA HeardStep ==
  ASSUME GenInv, \A i \in Jobs : HeardOf(i), ReturnsStay,
         NEW t \in Tasks, NEW j \in Jobs, NEW x, NEW row,
         task' = [task EXCEPT ![t] = x],
         \/ t = j
         \/ t \in Channels /\ (x.pc \in OffPCs \/ x.job = j),
         job' = [job EXCEPT ![j] = row],
         HeardOf(j)'
  PROVE  \A i \in Jobs : HeardOf(i)'
<1>1. /\ task \in [Tasks -> Task] /\ job \in [Jobs -> Job]
      /\ \A i \in Jobs : i \in Tasks
      /\ \A s \in Channels : s \in Tasks /\ s \notin Jobs
  BY TaskNames, ChannelNames DEF GenInv, GenTypeOK
<1>2. task'[t] = x /\ \A s \in Tasks \ {t} : task'[s] = task[s]
  BY <1>1
<1>3. ASSUME NEW i \in Jobs \ {j}
      PROVE  HeardOf(i)'
  <2>1. job'[i] = job[i] /\ task'[i] = task[i]
    BY <1>1, <1>2
  <2>2. ASSUME NEW s \in Channels, Works(s, i)'
        PROVE  Works(s, i) /\ task'[s] = task[s]
    BY <1>1, <1>2, <2>2 DEF Works, JobOf
  <2>3. HeardOf(i) /\ (Posted(i, "credit_release") => Posted(i, "credit_release")')
    BY DEF ReturnsStay
  <2>4. ASSUME NEW s \in Channels, Works(s, i)'
        PROVE  /\ Carries(task[s], job[i])'
               /\ At(s, "markfailed")' => Posted(i, "credit_release")'
    <3>1. /\ Carries(task[s], job[i])
          /\ At(s, "markfailed") => Posted(i, "credit_release")
      BY <2>2, <2>3, <2>4 DEF HeardOf
    <3> QED
      BY <2>1, <2>2, <2>3, <2>4, <3>1 DEF Carries, At
  <2> QED
    BY <2>1, <2>3, <2>4 DEF HeardOf, RowSounds, At
<1> QED
  BY <1>3

\* A step of a task of the channel for job j.
LEMMA WorkerHears ==
  ASSUME GenInv, Alone, \A i \in Jobs : HeardOf(i), ReturnsStay,
         NEW t \in Channels, NEW j \in Jobs, Works(t, j), NEW x, NEW row,
         task' = [task EXCEPT ![t] = x],
         job' = [job EXCEPT ![j] = row],
         RowSounds(row),
         row.status = "failed" => Posted(j, "credit_release")',
         \/ x.pc \in OffPCs
         \/ /\ x.job = j
            /\ Carries(x, row)
            /\ x.pc = "markfailed" => Posted(j, "credit_release")'
  PROVE  \A i \in Jobs : HeardOf(i)'
<1>1. /\ task \in [Tasks -> Task] /\ job \in [Jobs -> Job] /\ j \in Tasks
      /\ \A s \in Channels : s \in Tasks /\ s \notin Jobs
  BY TaskNames, ChannelNames DEF GenInv, GenTypeOK
<1>2. /\ task'[t] = x /\ task'[j] = task[j] /\ job'[j] = row
      /\ \A s \in Channels \ {t} : task'[s] = task[s]
  BY <1>1
<1>3. task[j].pc = "replied" /\ \A s \in Channels : Works(s, j) => s = t
  BY WorkedFacts
<1>4. \A s \in Channels : Works(s, j)' => s = t
  BY <1>2, <1>3 DEF Works, JobOf
<1>5. HeardOf(j)'
  <2>1. ASSUME NEW s \in Channels, Works(s, j)'
        PROVE  /\ Carries(task[s], job[j])'
               /\ At(s, "markfailed")' => Posted(j, "credit_release")'
    <3>1. task'[s] = x
      BY <1>2, <1>4, <2>1
    <3>2. Carries(x, row) /\ (x.pc = "markfailed" => Posted(j, "credit_release")')
      BY <2>1, <3>1 DEF Works
    <3> QED
      BY <1>2, <3>1, <3>2 DEF Carries, At
  <2>2. RowSounds(job[j])'
    BY <1>2 DEF RowSounds
  <2>3. ~At(j, "setstage")' /\ ~At(j, "markfailed")'
    BY <1>2, <1>3 DEF At
  <2> QED
    BY <1>2, <2>1, <2>2, <2>3 DEF HeardOf
<1> QED
  BY <1>1, <1>5, HeardStep

\* A step of the request that creates j.
LEMMA RequestHears ==
  ASSUME GenInv, Alone, \A i \in Jobs : HeardOf(i), ReturnsStay,
         NEW j \in Jobs, task[j].pc # "replied", NEW x, NEW row,
         task' = [task EXCEPT ![j] = x],
         job' = [job EXCEPT ![j] = row],
         x.pc = "setstage" => x.rid = "music",
         RowSounds(row),
         row.status = "failed" \/ x.pc = "markfailed" => Posted(j, "credit_release")'
  PROVE  \A i \in Jobs : HeardOf(i)'
<1>1. /\ task \in [Tasks -> Task] /\ job \in [Jobs -> Job] /\ j \in Tasks
      /\ \A s \in Channels : s \in Tasks /\ s # j
  BY TaskNames, ChannelNames DEF GenInv, GenTypeOK
<1>2. /\ task'[j] = x /\ job'[j] = row
      /\ \A s \in Channels : task'[s] = task[s]
  BY <1>1
<1>3. \A s \in Channels : ~Works(s, j)'
  BY <1>2, RequestFacts DEF Works, JobOf
<1>4. HeardOf(j)'
  BY <1>2, <1>3 DEF HeardOf, RowSounds, At
<1> QED
  BY <1>1, <1>4, HeardStep

LEMMA CreateJobHears ==
  ASSUME GenInv, Alone, \A i \in Jobs : HeardOf(i), ReturnsStay,
         NEW j \in Jobs, CreateJob(j)
  PROVE  \A i \in Jobs : HeardOf(i)'
<1>1. /\ task[j] \in Task /\ task \in [Tasks -> Task] /\ job \in [Jobs -> Job]
      /\ task[j].pc \in {"idle", "add", "reserve", "submit"}
  BY RunningTask, TaskNames
     DEF CreateJob, LookUpKey, AddJob, ReserveTokens, SubmitMusic, At, GenInv,
         GenTypeOK
<1>2. job[j].rid = "none" /\ job[j].status # "failed"
  BY <1>1, RequestFacts
<1>3. QueuedJob.rid = "none" /\ QueuedJob.status = "queued"
  BY DEF QueuedJob, NoJob
<1>4. PICK row : /\ job' = [job EXCEPT ![j] = row]
                 /\ row.rid = "none" /\ row.status # "failed"
  <2>1. job' = [job EXCEPT ![j] = job[j]] \/ job' = [job EXCEPT ![j] = QueuedJob]
    BY <1>1 DEF CreateJob, LookUpKey, AddJob, ReserveTokens, SubmitMusic
  <2> QED
    BY <1>2, <1>3, <2>1
<1>5. PICK x : /\ task' = [task EXCEPT ![j] = x]
               /\ x.pc # "markfailed"
               /\ x.pc = "setstage" => x.rid = "music"
  <2> DEFINE good(x) == x.pc # "markfailed" /\ (x.pc = "setstage" => x.rid = "music")
  <2>1. good(Returned(j))
    BY ReturnedRequest
  <2>2. ASSUME NEW pc \in {"reserve", "submit", "release"}
        PROVE  good([task[j] EXCEPT !.pc = pc])
    BY <1>1, <2>2 DEF Task
  <2>3. good([task[j] EXCEPT !.pc = "setstage", !.rid = "music"])
    BY <1>1 DEF Task
  <2>4. good([Idle EXCEPT !.job = j, !.pc = IF Existing(j) = {} THEN "add" ELSE "replied"])
    BY DEF Idle
  <2>5. CASE LookUpKey(j)
    BY <2>4, <2>5 DEF LookUpKey
  <2> HIDE DEF good
  <2>6. CASE Return(j)
    BY <2>1, <2>6 DEF Return, good
  <2>7. ASSUME NEW pc \in {"reserve", "submit", "release"}, GoTo(j, pc)
        PROVE  \E x : task' = [task EXCEPT ![j] = x] /\ good(x)
    <3>1. task' = [task EXCEPT ![j] = [task[j] EXCEPT !.pc = pc]]
      BY <1>1, <2>7 DEF GoTo
    <3> QED
      BY <2>2, <2>7, <3>1
  <2>8. CASE task' = [task EXCEPT ![j].pc = "setstage", ![j].rid = "music"]
    <3>1. task' = [task EXCEPT ![j] =
                     [task[j] EXCEPT !.pc = "setstage", !.rid = "music"]]
      BY <1>1, <2>8
    <3> QED
      BY <2>3, <3>1 DEF good
  <2> QED
    BY <2>5, <2>6, <2>7, <2>8
       DEF CreateJob, AddJob, ReserveTokens, SubmitMusic, good
<1> QED
  BY <1>1, <1>2, <1>4, <1>5, RequestHears DEF RowSounds

\* The release leaves its entry, or found it.
LEMMA ReleasePosts ==
  ASSUME GenInv, NEW t \in Tasks, ReleaseHold(t), NEW j \in Jobs, j = JobOf(t)
  PROVE  Posted(j, "credit_release")'
<1> DEFINE back == Least(Price[j], wallet[Owner[j]].reserved)
<1>1. CASE Release(Owner[j], Price[j], j)
  <2>1. /\ JobCall(j)
        /\ Post(Owner[j], j, "credit_release", back, back, -back, 0)
    BY <1>1 DEF JobCall, Release
  <2>2. back \in Nat
    <3>1. Price[j] \in Nat /\ wallet[Owner[j]].reserved \in Nat
      BY RefTypes, BalanceType DEF GenInv, GenTypeOK
    <3> QED
      BY <3>1, LeastType
  <2>3. back \in Int /\ 0 \in Nat
    BY <2>2
  <2> HIDE DEF back
  <2> QED
    BY <2>1, <2>3, KindTypes, JobCallWrites
<1>2. CASE Duplicate(j, "credit_release")
  BY <1>2 DEF Duplicate, Posted, walletVars
<1> QED
  BY <1>1, <1>2 DEF ReleaseHold

LEMMA RequestEndsHeard ==
  ASSUME GenInv, Alone, \A i \in Jobs : HeardOf(i), ReturnsStay,
         NEW j \in Jobs, RecordSubmission(j) \/ ReleaseHold(j) \/ FailJob(j)
  PROVE  \A i \in Jobs : HeardOf(i)'
<1>1. /\ task[j] \in Task /\ j \in Tasks
      /\ task[j].pc \in {"setstage", "release", "markfailed"}
  BY RunningTask, TaskNames DEF RecordSubmission, ReleaseHold, FailJob, At
<1>2. /\ JobOf(j) = j
      /\ job[j] \in Job /\ job \in [Jobs -> Job]
      /\ job[j].rid = "none" /\ job[j].status = "queued"
      /\ HeardOf(j)
  BY <1>1, RunningTask, RequestFacts
     DEF LocalsOf, NoJobPCs, GenInv, GenTypeOK
<1>3. Return(j) => \E x : task' = [task EXCEPT ![j] = x] /\ x.pc = "replied"
  BY ReturnedRequest DEF Return
<1>4. CASE RecordSubmission(j)
  <2> DEFINE row == [job[j] EXCEPT !.status = "processing", !.stage = "music",
                                   !.rid = "music"]
  <2>1. task[j].rid = "music"
    BY <1>2, <1>4 DEF RecordSubmission, HeardOf
  <2>2. job' = [job EXCEPT ![j] = row]
    BY <1>2, <1>4, <2>1 DEF RecordSubmission, SetCurrentStage, StageOf, MusicKinds
  <2>3. row.status = "processing" /\ row.stage = "music" /\ row.rid = "music"
    BY <1>2 DEF Job
  <2>4. StageOf("music") = "music"
    BY DEF StageOf, MusicKinds
  <2> HIDE DEF row
  <2> QED
    BY <1>1, <1>3, <1>4, <2>2, <2>3, <2>4, RequestHears
       DEF RecordSubmission, RowSounds
<1>5. CASE ReleaseHold(j)
  <2> DEFINE x == [task[j] EXCEPT !.pc = "markfailed"]
  <2>1. /\ task' = [task EXCEPT ![j] = x] /\ x.pc = "markfailed"
        /\ job' = [job EXCEPT ![j] = job[j]]
    BY <1>1, <1>2, <1>5 DEF ReleaseHold, GoTo, Task
  <2>2. Posted(j, "credit_release")'
    BY <1>1, <1>2, <1>5, ReleasePosts
  <2> HIDE DEF x
  <2> QED
    BY <1>1, <1>2, <2>1, <2>2, RequestHears DEF RowSounds
<1>6. CASE FailJob(j)
  <2> DEFINE row == [job[j] EXCEPT !.status = "failed"]
  <2>1. job' = [job EXCEPT ![j] = row] /\ row.rid = "none"
    BY <1>2, <1>6 DEF FailJob, MarkFailed, Job
  <2>2. Posted(j, "credit_release")'
    BY <1>1, <1>2, <1>6 DEF FailJob, HeardOf, ReturnsStay, Posted, At
  <2> HIDE DEF row
  <2> QED
    BY <1>1, <1>2, <1>3, <1>6, <2>1, <2>2, RequestHears DEF FailJob, RowSounds
<1> QED
  BY <1>4, <1>5, <1>6

\* The task of the channel keeps the audio in sight through the whole pipeline.
LEMMA WorkerCarries ==
  ASSUME GenInv, Alone, Heard, ReturnsStay, NEW t \in Channels, PipelineStep(t)
  PROVE  \A i \in Jobs : HeardOf(i)'
<1> PICK j \in Jobs : j = JobOf(t) /\ Works(t, j)
  BY WhoRuns, ChannelNames
<1>1. /\ task \in [Tasks -> Task] /\ task[t] \in Task /\ t \in Tasks
      /\ job \in [Jobs -> Job] /\ job[j] \in Job
      /\ t \notin Jobs
      /\ task[t].job = j /\ RowOf(t) = job[j] /\ PlanOf(t) = Plan[j]
  BY ChannelNames DEF GenInv, GenTypeOK, JobOf, RowOf, PlanOf
<1>2. /\ \A i \in Jobs : HeardOf(i)
      /\ Carries(task[t], job[j])
      /\ task[t].pc = "markfailed" => Posted(j, "credit_release")'
      /\ RowSounds(job[j]) /\ job[j].rid \in SubmitKinds
      /\ job[j].stage # "finalize"
      /\ job[j].status # "failed"
  <2>1. \A i \in Jobs : HeardOf(i)
    BY DEF Heard
  <2>2. HeardOf(j)
    BY <2>1
  <2>3. Carries(task[t], job[j]) /\ (At(t, "markfailed") => Posted(j, "credit_release"))
    BY <2>2 DEF HeardOf
  <2>4. RowSounds(job[j])
    BY <2>2 DEF HeardOf
  <2>5. Posted(j, "credit_release") => Posted(j, "credit_release")'
    BY DEF ReturnsStay
  <2>6. job[j].rid \in SubmitKinds /\ job[j].status \notin {"succeeded", "failed"}
    BY WorkedFacts
  <2>7. job[j].stage # "finalize"
    BY <2>6 DEF GenInv, FinalizeIsLast, Terminal
  <2> QED
    BY <2>1, <2>3, <2>4, <2>5, <2>6, <2>7 DEF At
<1>3. Idle.pc \in OffPCs /\ Returned(t).pc \in OffPCs
  BY <1>1, ChannelLeaves
<1>4. StageOf("refine") = "refine" /\ StageOf("tts") = "tts"
  BY DEF StageOf, MusicKinds
<1>5. ASSUME NEW x, task' = [task EXCEPT ![t] = x], job' = job,
             \/ x.pc \in OffPCs
             \/ /\ x.job = j /\ Carries(x, job[j])
                /\ x.pc = "markfailed" => Posted(j, "credit_release")'
      PROVE  \A i \in Jobs : HeardOf(i)'
  <2>1. job' = [job EXCEPT ![j] = job[j]]
    BY <1>1, <1>5
  <2> QED
    BY <1>2, <1>5, <2>1, WorkerHears
<1>6. ASSUME Return(t) \/ Raise(t), job' = job
      PROVE  \A i \in Jobs : HeardOf(i)'
  <2>1. task' = [task EXCEPT ![t] = Idle] \/ task' = [task EXCEPT ![t] = Returned(t)]
    BY <1>1, <1>6, ChannelLeaves DEF Return
  <2> QED
    BY <1>3, <1>5, <1>6, <2>1
<1>7. ASSUME NEW row, Return(t), job' = [job EXCEPT ![j] = row],
             RowSounds(row),
             row.status = "failed" => Posted(j, "credit_release")'
      PROVE  \A i \in Jobs : HeardOf(i)'
  BY <1>2, <1>3, <1>7, WorkerHears DEF Return
<1>8. CASE Advance(t)
  <2>1. UNCHANGED job /\ task[t].pc = "advance"
    BY <1>8 DEF Advance, At
  <2>2. CASE Return(t)
    BY <1>6, <2>1, <2>2
  <2>3. CASE ~Return(t)
    <3> DEFINE x == [task[t] EXCEPT !.pc = "persist",
                                    !.out = RowOf(t).out \cup {task[t].stage}]
    <3>1. task[t].audio /\ task[t].stage = StageOf(job[j].rid)
      BY <1>2, <2>1 DEF Carries
    <3>2. task' = [task EXCEPT ![t].pc = "persist",
                               ![t].out = RowOf(t).out \cup {task[t].stage}]
      BY <1>8, <2>3, <3>1 DEF Advance
    <3>3. task' = [task EXCEPT ![t] = x]
      BY <1>1, <3>2
    <3>4. /\ x.pc = "persist" /\ x.job = j /\ x.audio
          /\ x.stage = task[t].stage /\ x.out = job[j].out \cup {task[t].stage}
      BY <1>1, <3>1 DEF Task
    <3>6. "music" \in job[j].out \cup {StageOf(job[j].rid)}
      BY <1>2 DEF RowSounds, SubmitKinds, StageOf
    <3> HIDE DEF x
    <3>5. Carries(x, job[j])
      BY <1>2, <3>1, <3>4, <3>6 DEF Carries
    <3> QED
      BY <1>5, <2>1, <3>3, <3>4, <3>5
  <2> QED
    BY <2>2, <2>3
<1>9. CASE PersistRuntime(t)
  <2> DEFINE pc == NextStep(PlanOf(t), task[t].stage)
             x == [task[t] EXCEPT !.pc = pc]
             row == [job[j] EXCEPT !.out = task[t].out]
  <2>1. /\ task[t].audio /\ "music" \in task[t].out
        /\ task[t].stage = StageOf(job[j].rid)
    BY <1>2, <1>9 DEF PersistRuntime, At, Carries
  <2>2. /\ task' = [task EXCEPT ![t] = x]
        /\ job' = [job EXCEPT ![j] = row]
    BY <1>1, <1>9 DEF PersistRuntime, GoTo
  <2>3. /\ x.pc \in {"refine", "tts", "finalize"} /\ x.job = j
        /\ x.audio /\ x.out = task[t].out /\ x.stage = task[t].stage
    BY <1>1, <2>1 DEF Task, NextStep
  <2>4. /\ row.rid = job[j].rid /\ row.status = job[j].status
        /\ row.stage = job[j].stage /\ row.out = task[t].out
    BY <1>1 DEF Job
  <2> HIDE DEF x, row
  <2>5. Carries(x, row) /\ RowSounds(row)
    BY <1>2, <2>1, <2>3, <2>4 DEF Carries, RowSounds
  <2> QED
    BY <1>2, <2>2, <2>3, <2>4, <2>5, WorkerHears
<1>10. CASE SubmitRefine(t)
  <2>1. /\ UNCHANGED job /\ task[t].audio /\ "music" \in job[j].out
    BY <1>2, <1>10 DEF SubmitRefine, At, Carries
  <2>2. CASE task' = [task EXCEPT ![t] = [Only(t, "setstage") EXCEPT !.rid = "refine"]]
    <3> DEFINE x == [Only(t, "setstage") EXCEPT !.rid = "refine"]
    <3>1. x.pc = "setstage" /\ x.job = j /\ x.rid = "refine"
      BY <1>1 DEF Only, Idle, JobOf
    <3> HIDE DEF x
    <3>2. Carries(x, job[j])
      BY <1>2, <2>1, <3>1 DEF Carries
    <3>3. task' = [task EXCEPT ![t] = x]
      BY <2>2 DEF x
    <3> QED
      BY <1>5, <2>1, <3>1, <3>2, <3>3
  <2>3. CASE Raise(t)
    BY <1>6, <2>1, <2>3
  <2>4. ASSUME NEW code, task' = [task EXCEPT ![t].pc = "fail", ![t].code = code]
        PROVE  \A i \in Jobs : HeardOf(i)'
    <3> DEFINE x == [task[t] EXCEPT !.pc = "fail", !.code = code]
    <3>1. task' = [task EXCEPT ![t] = x]
      BY <1>1, <2>4
    <3>2. x.pc = "fail" /\ x.job = j /\ x.stage = task[t].stage
      BY <1>1 DEF Task
    <3>3. task[t].stage = StageOf(job[j].rid)
      BY <1>2, <1>10 DEF SubmitRefine, At, Carries
    <3> HIDE DEF x
    <3>4. Carries(x, job[j])
      BY <3>2, <3>3 DEF Carries
    <3> QED
      BY <1>5, <2>1, <3>1, <3>2, <3>4
  <2> QED
    BY <1>1, <1>10, <2>1, <2>2, <2>3, <2>4 DEF SubmitRefine, ProviderError
<1>11. CASE CloneVoice(t)
  <2>1. PICK pc \in {"finalize", "speech", "saveclone"} :
          task' = [task EXCEPT ![t].pc = pc, ![t].out = RowOf(t).out]
    BY <1>11 DEF CloneVoice
  <2> DEFINE x == [task[t] EXCEPT !.pc = pc, !.out = RowOf(t).out]
  <2>2. UNCHANGED job /\ "music" \in job[j].out
    BY <1>2, <1>11 DEF CloneVoice, At, Carries
  <2>3. task' = [task EXCEPT ![t] = x]
    BY <1>1, <2>1
  <2>4. x.pc = pc /\ x.job = j /\ "music" \in x.out
    BY <1>1, <2>2 DEF Task
  <2> HIDE DEF x
  <2>5. Carries(x, job[j])
    BY <1>2, <2>2, <2>4 DEF Carries
  <2> QED
    BY <1>5, <2>2, <2>3, <2>4, <2>5
<1>12. CASE SaveClonedVoice(t)
  <2> DEFINE x == [task[t] EXCEPT !.pc = "speech"]
             row == [job[j] EXCEPT !.cloned = TRUE]
  <2>1. "music" \in task[t].out /\ "music" \in job[j].out
    BY <1>2, <1>12 DEF SaveClonedVoice, At, Carries
  <2>2. /\ task' = [task EXCEPT ![t] = x]
        /\ job' = [job EXCEPT ![j] = row]
    BY <1>1, <1>12 DEF SaveClonedVoice, GoTo
  <2>3. x.pc = "speech" /\ x.job = j /\ x.out = task[t].out
    BY <1>1 DEF Task
  <2>4. /\ row.rid = job[j].rid /\ row.status = job[j].status
        /\ row.stage = job[j].stage /\ row.out = job[j].out
    BY <1>1 DEF Job
  <2> HIDE DEF x, row
  <2>5. Carries(x, row) /\ RowSounds(row)
    BY <1>2, <2>1, <2>3, <2>4 DEF Carries, RowSounds
  <2> QED
    BY <1>2, <2>2, <2>3, <2>4, <2>5, WorkerHears
<1>13. CASE SubmitSpeech(t)
  <2>1. UNCHANGED job /\ "music" \in task[t].out /\ "music" \in job[j].out
    BY <1>2, <1>13 DEF SubmitSpeech, At, Carries
  <2>2. CASE task' = [task EXCEPT ![t] = [Only(t, "setstage") EXCEPT !.rid = "tts"]]
    <3> DEFINE x == [Only(t, "setstage") EXCEPT !.rid = "tts"]
    <3>1. x.pc = "setstage" /\ x.job = j /\ x.rid = "tts"
      BY <1>1 DEF Only, Idle, JobOf
    <3> HIDE DEF x
    <3>2. Carries(x, job[j])
      BY <1>2, <2>1, <3>1 DEF Carries
    <3>3. task' = [task EXCEPT ![t] = x]
      BY <2>2 DEF x
    <3> QED
      BY <1>5, <2>1, <3>1, <3>2, <3>3
  <2>3. CASE GoTo(t, "finalize")
    <3> DEFINE x == [task[t] EXCEPT !.pc = "finalize"]
    <3>1. task' = [task EXCEPT ![t] = x]
      BY <1>1, <2>3 DEF GoTo
    <3>2. x.pc = "finalize" /\ x.job = j /\ "music" \in x.out
      BY <1>1, <2>1 DEF Task
    <3> HIDE DEF x
    <3>3. Carries(x, job[j])
      BY <1>2, <3>2 DEF Carries
    <3> QED
      BY <1>5, <2>1, <3>1, <3>2, <3>3
  <2> QED
    BY <1>13, <2>2, <2>3 DEF SubmitSpeech
<1>14. CASE RecordSubmission(t)
  <2> DEFINE row == [job[j] EXCEPT !.status = "processing",
                                   !.stage = StageOf(task[t].rid),
                                   !.rid = task[t].rid]
  <2>1. /\ task[t].rid \in {"refine", "tts"} /\ Return(t)
        /\ "music" \in job[j].out
    BY <1>2, <1>14 DEF RecordSubmission, At, Carries
  <2>2. job' = [job EXCEPT ![j] = row]
    BY <1>1, <1>14 DEF RecordSubmission, SetCurrentStage, JobOf
  <2>3. /\ row.status = "processing" /\ row.rid = task[t].rid
        /\ row.stage = StageOf(task[t].rid) /\ row.out = job[j].out
    BY <1>1 DEF Job
  <2> HIDE DEF row
  <2>4. RowSounds(row)
    BY <2>1, <2>3 DEF RowSounds
  <2> QED
    BY <1>7, <2>1, <2>2, <2>3, <2>4
<1>15. CASE FinalizeWithoutAudio(t)
  BY <1>2, <1>15 DEF FinalizeWithoutAudio, At, Carries, HasAudio
<1>16. CASE CaptureTokens(t)
  <2>1. UNCHANGED job
    BY <1>16 DEF CaptureTokens
  <2>2. ASSUME NEW n, task' = [task EXCEPT ![t] = [Only(t, "commit") EXCEPT !.captured = n]]
        PROVE  \A i \in Jobs : HeardOf(i)'
    <3> DEFINE x == [Only(t, "commit") EXCEPT !.captured = n]
    <3>1. x.pc = "commit" /\ x.job = j
      BY <1>1 DEF Only, Idle, JobOf
    <3> HIDE DEF x
    <3>2. Carries(x, job[j])
      BY <1>2, <2>1, <3>1 DEF Carries
    <3>3. task' = [task EXCEPT ![t] = x]
      BY <2>2 DEF x
    <3> QED
      BY <1>5, <2>1, <3>1, <3>2, <3>3
  <2>3. CASE Raise(t)
    BY <1>6, <2>1, <2>3
  <2> QED
    BY <1>16, <2>2, <2>3 DEF CaptureTokens
<1>17. CASE CommitTrack(t)
  <2> DEFINE row == [job[j] EXCEPT !.status = "succeeded", !.stage = "finalize",
                                   !.captured = task[t].captured]
  <2>1. CASE MarkSucceeded(j, task[t].captured) /\ Return(t)
    <3>1. job' = [job EXCEPT ![j] = row]
      BY <1>1, <2>1 DEF MarkSucceeded
    <3>2. /\ row.status = "succeeded" /\ row.stage = "finalize"
          /\ row.rid = job[j].rid /\ row.out = job[j].out
      BY <1>1 DEF Job
    <3> HIDE DEF row
    <3>3. RowSounds(row)
      BY <1>2, <3>2 DEF RowSounds
    <3> QED
      BY <1>7, <2>1, <3>1, <3>2, <3>3
  <2>2. CASE Raise(t) /\ UNCHANGED job
    BY <1>6, <2>2
  <2> QED
    BY <1>1, <1>17, <2>1, <2>2 DEF CommitTrack, JobOf
<1>18. CASE Fail(t)
  <2>1. UNCHANGED job /\ task[t].stage = StageOf(job[j].rid)
    BY <1>2, <1>18 DEF Fail, At, Carries
  <2>2. ASSUME NEW x, task' = [task EXCEPT ![t] = x], x.job = j,
               \/ x.pc = "release"
               \/ x.pc = "fallback" /\ task[t].stage = "music"
        PROVE  \A i \in Jobs : HeardOf(i)'
    <3>1. x.pc = "fallback" => job[j].rid \in MusicKinds
      BY <1>2, <2>1, <2>2, <1>4 DEF SubmitKinds
    <3>2. Carries(x, job[j])
      BY <2>2, <3>1 DEF Carries
    <3> QED
      BY <1>5, <2>1, <2>2, <3>2
  <2>3. Only(t, "release").pc = "release" /\ Only(t, "release").job = j
    BY <1>1 DEF Only, Idle, JobOf
  <2>4. ASSUME NEW kind
        PROVE  /\ [Only(t, "fallback") EXCEPT !.rid = kind].pc = "fallback"
               /\ [Only(t, "fallback") EXCEPT !.rid = kind].job = j
    BY <1>1 DEF Only, Idle, JobOf
  <2> QED
    BY <1>18, <2>2, <2>3, <2>4 DEF Fail, MayFallBack
<1>19. CASE MarkFallback(t)
  <2> DEFINE row == [job[j] EXCEPT !.fallbackUsed = TRUE, !.model = task[t].rid,
                                   !.rid = task[t].rid]
  <2>1. job' = [job EXCEPT ![j] = row] /\ Return(t)
    BY <1>1, <1>19 DEF MarkFallback, JobOf
  <2>2. /\ row.stage = job[j].stage /\ row.status = job[j].status
        /\ row.rid = task[t].rid /\ row.out = job[j].out
    BY <1>1 DEF Job
  <2>3. job[j].rid \in MusicKinds
    BY <1>2, <1>19 DEF MarkFallback, At, Carries
  <2>4. task[t].rid \in FallbackKinds
    BY <1>1, <1>19 DEF MarkFallback, GenInv, LocalsHold, LocalsOf
  <2> HIDE DEF row
  <2>5. RowSounds(row)
    BY <1>2, <2>2, <2>3, <2>4 DEF RowSounds, StageOf, MusicKinds, FallbackKinds
  <2> QED
    BY <1>2, <1>7, <2>1, <2>2, <2>5
<1>20. CASE ReleaseHold(t)
  <2> DEFINE x == [task[t] EXCEPT !.pc = "markfailed"]
  <2>1. task' = [task EXCEPT ![t] = x] /\ UNCHANGED job
    BY <1>1, <1>20 DEF ReleaseHold, GoTo
  <2>2. x.pc = "markfailed" /\ x.job = j
    BY <1>1 DEF Task
  <2> HIDE DEF x
  <2>3. Carries(x, job[j])
    BY <1>2, <2>2 DEF Carries
  <2>4. Posted(j, "credit_release")'
    BY <1>1, <1>20, ReleasePosts DEF JobOf
  <2> QED
    BY <1>5, <2>1, <2>2, <2>3, <2>4
<1>21. CASE FailJob(t)
  <2> DEFINE row == [job[j] EXCEPT !.status = "failed"]
  <2>1. job' = [job EXCEPT ![j] = row] /\ Return(t)
    BY <1>1, <1>21 DEF FailJob, MarkFailed, JobOf
  <2>2. /\ row.stage = job[j].stage /\ row.rid = job[j].rid
        /\ row.out = job[j].out /\ Posted(j, "credit_release")'
    BY <1>1, <1>2, <1>21 DEF Job, FailJob, At
  <2> HIDE DEF row
  <2>3. RowSounds(row)
    BY <1>2, <2>2 DEF RowSounds
  <2> QED
    BY <1>7, <2>1, <2>2, <2>3
<1> QED
  BY <1>8, <1>9, <1>10, <1>11, <1>12, <1>13, <1>14, <1>15, <1>16, <1>17, <1>18,
     <1>19, <1>20, <1>21 DEF PipelineStep

\* The task of the channel takes up a job for the stage its row waits for.
LEMMA TaskHears ==
  ASSUME GenInv, Alone, Heard, ReturnsStay, UNCHANGED job,
         NEW t \in Channels, NEW j \in Jobs, ~Terminal(j), job[j].rid # "none",
         \A s \in Channels : ~Works(s, j),
         NEW x, task' = [task EXCEPT ![t] = x],
         x.job = j, x.pc \in {"advance", "fail"},
         x.stage = CurrentStage(job[j].stage), x.pc = "advance" => x.audio
  PROVE  \A i \in Jobs : HeardOf(i)'
<1>1. /\ task \in [Tasks -> Task] /\ job \in [Jobs -> Job] /\ job[j] \in Job
      /\ t \in Tasks /\ j \in Tasks /\ t # j
      /\ \A s \in Channels : s \in Tasks
  BY TaskNames, ChannelNames DEF GenInv, GenTypeOK
<1>2. HeardOf(j) /\ RowSounds(job[j])
  BY DEF Heard, HeardOf
<1>3. x.stage = StageOf(job[j].rid)
  <2>1. job[j].stage # "finalize"
    BY DEF GenInv, FinalizeIsLast
  <2>2. job[j].stage = StageOf(job[j].rid)
    BY <1>2, <2>1 DEF RowSounds
  <2>3. StageOf(job[j].rid) # "none"
    BY DEF StageOf
  <2> QED
    BY <2>2, <2>3 DEF CurrentStage
<1>4. Carries(x, job[j])
  BY <1>3 DEF Carries
<1>5. /\ task'[t] = x /\ task'[j] = task[j]
      /\ \A s \in Channels \ {t} : task'[s] = task[s]
  BY <1>1
<1>6. \A s \in Channels : Works(s, j)' => s = t
  BY <1>5 DEF Works, JobOf
<1>7. HeardOf(j)'
  <2>1. ASSUME NEW s \in Channels, Works(s, j)'
        PROVE  /\ Carries(task[s], job[j])'
               /\ At(s, "markfailed")' => Posted(j, "credit_release")'
    <3>1. task'[s] = x
      BY <1>5, <1>6, <2>1
    <3> QED
      BY <1>4, <3>1 DEF Carries, At
  <2>2. Posted(j, "credit_release") => Posted(j, "credit_release")'
    BY DEF ReturnsStay
  <2> QED
    BY <1>2, <1>5, <2>1, <2>2 DEF HeardOf, RowSounds, At
<1>8. job' = [job EXCEPT ![j] = job[j]]
  BY <1>1
<1> QED
  BY <1>1, <1>2, <1>5, <1>7, <1>8, HeardStep DEF Heard

LEMMA PollHears ==
  ASSUME OneChannel, GenInv, Alone, Heard, ReturnsStay, NEW row \in todo,
         PollFinished(row)
  PROVE  \A i \in Jobs : HeardOf(i)'
<1> PICK j \in Jobs : \E x : Hands(row, j, x)
  BY PollerTakes
<1> PICK x : Hands(row, j, x)
  OBVIOUS
<1>1. /\ row = RowFor(j) /\ Active(j) /\ x.job = j
      /\ \A s \in Channels : ~Works(s, j)
      /\ task' = [task EXCEPT ![Poller] = x]
  BY DEF Hands
<1>2. PICK outcome \in Reported(row) :
        x = [Dispatched(Poller, CurrentStage(row.stage), outcome)
               EXCEPT !.job = row.job]
  BY DEF Hands
<1>3. /\ task[Poller] \in Task /\ Poller \in Channels /\ UNCHANGED job
      /\ job[j].rid # "none" /\ ~Terminal(j)
  BY <1>1, TaskNames
     DEF GenInv, GenTypeOK, Channels, PollFinished, Active, Terminal
<1>4. outcome \in AllOutcomes \ {"empty"}
  <2>1. job[j].rid \in SubmitKinds
    BY <1>3 DEF GenInv, GenTypeOK, Job
  <2> QED
    BY <1>1, <2>1 DEF Reported, RowFor, Finished, AllOutcomes, Heard, NoSilence
<1>5. /\ x.pc \in {"advance", "fail"} /\ (x.pc = "advance" => x.audio)
      /\ x.stage = CurrentStage(job[j].stage)
  BY <1>1, <1>2, <1>3, <1>4 DEF Dispatched, Task, RowFor, AllOutcomes
<1> QED
  BY <1>1, <1>3, <1>5, TaskHears

LEMMA HookHears ==
  ASSUME OneChannel, GenInv, Alone, Heard, ReturnsStay, NEW h \in Hooks,
         Webhook(h)
  PROVE  \A i \in Jobs : HeardOf(i)'
<1>1. /\ h \in Channels /\ h \in Tasks /\ task[h] \in Task
      /\ job \in [Jobs -> Job] /\ UNCHANGED job
      /\ \A i \in Jobs : HeardOf(i) /\ job[i] \in Job
  BY TaskNames
     DEF Channels, GenInv, GenTypeOK, Heard, Webhook, ClaimEvent, LookUpRequest,
         MarkApplied
<1>2. ASSUME NEW j \in Jobs, NEW x, task' = [task EXCEPT ![h] = x],
             task[h].pc \in OffPCs, x.pc \in OffPCs
      PROVE  \A i \in Jobs : HeardOf(i)'
  <2>1. /\ task'[j] = task[j] /\ task'[h] = x
        /\ \A s \in Channels \ {h} : task'[s] = task[s]
    BY <1>2, TaskNames, ChannelNames DEF GenInv, GenTypeOK
  <2>2. ASSUME NEW s \in Channels, Works(s, j)'
        PROVE  /\ Carries(task[s], job[j])'
               /\ At(s, "markfailed")' => Posted(j, "credit_release")'
    <3>1. task'[s] = task[s] /\ Works(s, j)
      BY <1>2, <2>1, <2>2 DEF Works, JobOf
    <3>2. Carries(task[s], job[j]) /\ (At(s, "markfailed") => Posted(j, "credit_release"))
      BY <1>1, <3>1 DEF HeardOf
    <3>3. Posted(j, "credit_release") => Posted(j, "credit_release")'
      BY DEF ReturnsStay
    <3> QED
      BY <1>1, <3>1, <3>2, <3>3 DEF Carries, At
  <2>3. HeardOf(j)'
    BY <1>1, <2>1, <2>2 DEF HeardOf, RowSounds, At, ReturnsStay
  <2>4. job' = [job EXCEPT ![j] = job[j]]
    BY <1>1
  <2> QED
    BY <1>1, <1>2, <2>3, <2>4, HeardStep
<1>3. ASSUME ~At(h, "idle")
      PROVE  JobOf(h) \in Jobs /\ Returned(h).pc \in OffPCs
  BY <1>1, <1>3, ClaimType, ChannelLeaves
<1>4. "claimed" \in OffPCs /\ "ack" \in OffPCs /\ "idle" \in OffPCs
  BY DEF OffPCs
<1>5. ASSUME NEW j \in Jobs, NEW kind \in SubmitKinds, ClaimEvent(h, j, kind)
      PROVE  \A i \in Jobs : HeardOf(i)'
  <2> DEFINE x == [Idle EXCEPT !.pc = "claimed", !.job = j, !.event = kind]
  <2>1. task' = [task EXCEPT ![h] = x] /\ task[h].pc = "idle"
    BY <1>5 DEF ClaimEvent, At
  <2>2. x.pc = "claimed"
    BY DEF Idle
  <2> HIDE DEF x
  <2> QED
    BY <1>2, <1>4, <2>1, <2>2
<1>6. CASE LookUpRequest(h)
  <2>1. task[h].pc = "claimed" /\ ~At(h, "idle")
    BY <1>6 DEF LookUpRequest, At
  <2>2. PICK j \in Jobs : j = JobOf(h)
    BY <1>3, <2>1
  <2>3. CASE job[j].rid # task[h].event \/ Terminal(j)
    <3>1. task' = [task EXCEPT ![h] = Returned(h)]
      BY <1>6, <2>2, <2>3 DEF LookUpRequest
    <3> QED
      BY <1>2, <1>3, <1>4, <2>1, <3>1
  <2>4. CASE job[j].rid = task[h].event /\ ~Terminal(j)
    <3>1. PICK x :
            /\ x = Dispatched(h, CurrentStage(job[j].stage), fal[j][job[j].rid])
            /\ task' = [task EXCEPT ![h] = x]
            /\ x.job = j
            /\ \A s \in Channels : ~Works(s, j)
            /\ job[j].rid # "none" /\ Finished(j, job[j].rid)
      BY <1>6, <2>2, <2>4, HookTakes
    <3>2. PICK outcome \in AllOutcomes \ {"empty"} : outcome = fal[j][job[j].rid]
      <4>1. job[j].rid \in SubmitKinds
        BY <1>1, <3>1 DEF Job
      <4> QED
        BY <3>1, <4>1 DEF Finished, Heard, NoSilence
    <3>3. /\ x.pc \in {"advance", "fail"} /\ (x.pc = "advance" => x.audio)
          /\ x.stage = CurrentStage(job[j].stage)
      BY <1>1, <3>1, <3>2 DEF Dispatched, Task, AllOutcomes
    <3> QED
      BY <1>1, <2>4, <3>1, <3>3, TaskHears
  <2> QED
    BY <2>3, <2>4
<1>7. CASE MarkApplied(h)
  <2>1. task' = [task EXCEPT ![h] = Idle] /\ task[h].pc = "ack" /\ Idle.pc = "idle"
    BY <1>7 DEF MarkApplied, At, Idle
  <2>2. PICK j \in Jobs : j = JobOf(h)
    BY <1>3, <2>1 DEF At
  <2> QED
    BY <1>2, <1>4, <2>1
<1> QED
  BY <1>5, <1>6, <1>7 DEF Webhook

LEMMA HeardAlways ==
  ASSUME OneChannel, Sounding, GenInv, Alone, Heard, [GenNext]_vars
  PROVE  Heard'
<1>1. NoSilence' /\ ReturnsStay /\ \A i \in Jobs : HeardOf(i)
  BY NoSilenceStep, PostedStays DEF Heard
<1> SUFFICES \A i \in Jobs : HeardOf(i)'
  BY <1>1 DEF Heard
<1>2. ASSUME UNCHANGED <<job, task>>
      PROVE  \A i \in Jobs : HeardOf(i)'
  <2> SUFFICES ASSUME NEW i \in Jobs
               PROVE  HeardOf(i)'
    OBVIOUS
  <2>1. HeardOf(i) /\ (Posted(i, "credit_release") => Posted(i, "credit_release")')
    BY <1>1 DEF ReturnsStay
  <2>2. ASSUME NEW s \in Channels, Works(s, i)'
        PROVE  /\ Carries(task[s], job[i])'
               /\ At(s, "markfailed")' => Posted(i, "credit_release")'
    <3>1. Works(s, i)
      BY <1>2, <2>2 DEF Works, JobOf
    <3>2. Carries(task[s], job[i]) /\ (At(s, "markfailed") => Posted(i, "credit_release"))
      BY <2>1, <3>1 DEF HeardOf
    <3> QED
      BY <1>2, <2>1, <3>2 DEF Carries, At
  <2> QED
    BY <1>2, <2>1, <2>2 DEF HeardOf, RowSounds, At
<1>3. ASSUME NEW t \in Tasks, PipelineStep(t)
      PROVE  \A i \in Jobs : HeardOf(i)'
  <2>1. CASE t \in Channels
    BY <1>1, <1>3, <2>1, WorkerCarries
  <2>2. CASE t \in Jobs /\ task[t].pc \in {"setstage", "release", "markfailed"}
    <3>1. RecordSubmission(t) \/ ReleaseHold(t) \/ FailJob(t)
      BY <1>3, <2>2
         DEF PipelineStep, Advance, PersistRuntime, SubmitRefine, CloneVoice,
             SaveClonedVoice, SubmitSpeech, FinalizeWithoutAudio,
             CaptureTokens, CommitTrack, Fail, MarkFallback, At
    <3> QED
      BY <1>1, <2>2, <3>1, RequestEndsHeard
  <2> QED
    BY <1>3, <2>1, <2>2, WhoRuns
<1>4. ASSUME NEW j \in Jobs, CreateJob(j)
      PROVE  \A i \in Jobs : HeardOf(i)'
  BY <1>1, <1>4, CreateJobHears
<1>5. CASE Poll
  <2>1. ASSUME NEW row \in todo, PollFinished(row)
        PROVE  \A i \in Jobs : HeardOf(i)'
    BY <1>1, <2>1, PollHears
  <2>2. UNCHANGED <<job, task>> \/ \E row \in todo : PollFinished(row)
    BY <1>5 DEF Poll, FetchActiveJobs, PollPending
  <2> QED
    BY <1>2, <2>1, <2>2
<1>6. CASE Environment \/ UNCHANGED vars
  <2>1. UNCHANGED <<job, task>>
    BY <1>6 DEF Environment, FinishSubmission, Grant, Freeze, vars, genVars
  <2> QED
    BY <1>2, <2>1
<1>7. ~Crash
  BY DEF Crash, OneChannel, GenInv, GenTypeOK
<1>8. \A j \in Jobs : ~RecoverOrphan(j)
  BY DEF RecoverOrphan, Alone, ChannelFits, Quiet
<1>9. ASSUME NEW h \in Hooks, Webhook(h)
      PROVE  \A i \in Jobs : HeardOf(i)'
  BY <1>1, <1>9, HookHears
<1>10. CASE GenNext
  BY <1>3, <1>4, <1>5, <1>6, <1>7, <1>8, <1>9, <1>10 DEF GenNext
<1> QED
  BY <1>6, <1>10

LEMMA HeardInit ==
  ASSUME GenInit
  PROVE  Heard
<1>1. \A t \in Tasks : task[t].pc = "idle"
  BY DEF GenInit, Idle
<1>2. NoSilence
  BY DEF GenInit, NoSilence
<1>3. ASSUME NEW j \in Jobs
      PROVE  HeardOf(j)
  <2>1. job[j].status = "absent" /\ job[j].rid = "none"
    BY DEF GenInit, NoJob
  <2>2. task[j].pc = "idle" /\ \A s \in Channels : ~Works(s, j)
    BY <1>1, TaskNames, ChannelNames DEF Works, OffPCs
  <2> QED
    BY <2>1, <2>2 DEF HeardOf, RowSounds, At
<1> QED
  BY <1>2, <1>3 DEF Heard

\* Where one channel brings the answers and every finished submission leaves an
\* audio URL, a job holds its tokens exactly as long as it runs: the refinement
\* and the voice are asked for with the music at hand, so _finalize has it, and
\* who writes "failed" has released before (Pipeline.fail, create_job).
THEOREM HeldExactlyWhileOpen ==
  OneChannel /\ Sounding /\ GenSpec => []HeldWhileOpen
<1> SUFFICES ASSUME OneChannel, Sounding
             PROVE  GenSpec => []HeldWhileOpen
  OBVIOUS
<1>1. GenInv /\ Alone /\ Heard /\ [GenNext]_vars => Heard'
  BY HeardAlways
<1>2. GenInit => Heard
  BY HeardInit
<1>3. GenInv /\ Heard => FinishedHoldsNothing
  <2> SUFFICES ASSUME GenInv, Heard, NEW j \in Jobs, Terminal(j)
               PROVE  ~OpenHold(j)
    BY DEF FinishedHoldsNothing
  <2>1. CASE job[j].status = "succeeded"
    BY <2>1 DEF GenInv, PaidBeforeDelivered, OpenHold
  <2>2. CASE job[j].status = "failed"
    BY <2>2 DEF Heard, HeardOf, OpenHold
  <2> QED
    BY <2>1, <2>2 DEF Terminal
<1>4. FinishedHoldsNothing /\ ProcessingIsHeld => HeldWhileOpen
  BY DEF HeldWhileOpen
<1>5. GenSpec => []ProcessingIsHeld
  BY HeldWhileProcessing
<1>6. GenSpec => [](GenInv /\ Alone)
  BY AlwaysAlone
<1>7. GenSpec => []Heard
  BY <1>1, <1>2, <1>6, PTL DEF GenSpec
<1> QED
  BY <1>3, <1>4, <1>5, <1>6, <1>7, PTL
=============================================================================
