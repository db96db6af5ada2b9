-------------------------- MODULE GenerationProofs --------------------------
(***************************************************************************)
(* Theorems about Generation, for any number of users, jobs, concurrent    *)
(* webhooks and crashes: it uses the wallet only through the operations of *)
(* Wallet, no job is worked on or charged without a hold, no track is      *)
(* delivered unpaid, and no two jobs share a key.                          *)
(*                                                                         *)
(* The inductive invariant adds LocalsHold to the properties: what a task  *)
(* did before an await (the hold, the charge) is needed to justify what it *)
(* does after it.  One job for a key needs RowsExist besides: no task      *)
(* writes a row that was never inserted.                                   *)
(***************************************************************************)
EXTENDS Generation, WalletProofs

\* Only a finished job is in the stage finalize, so no task advances it.
FinalizeIsLast == \A j \in Jobs : job[j].stage = "finalize" => Terminal(j)

GenInv ==
  /\ GenTypeOK
  /\ LocalsHold
  /\ FinalizeIsLast
  /\ PaidBeforeDelivered
  /\ WorkIsHeld

\* What every step does to the wallet: the balances stay well formed and no
\* entry disappears.
WalletGrows ==
  /\ WalletTypeOK'
  /\ \A r \in Refs, kind \in Kinds : Posted(r, kind) => Posted(r, kind)'

LEMMA JournalGrows ==
  ASSUME WalletTypeOK', JournalStep
  PROVE  WalletGrows
<1>1. ASSUME NEW r \in Refs, NEW kind \in Kinds, Posted(r, kind)
      PROVE  Posted(r, kind)'
  BY <1>1 DEF JournalStep, Posted, Keys
<1> QED
  BY <1>1 DEF WalletGrows

LEMMA UnchangedGrows ==
  ASSUME WalletTypeOK, UNCHANGED walletVars
  PROVE  WalletGrows
  BY DEF WalletGrows, WalletTypeOK, Posted, walletVars

LEMMA TaskNames ==
  /\ \A j \in Jobs : j \in Tasks
  /\ \A h \in Hooks : h \in Tasks /\ h \notin Jobs
  /\ Poller \in Tasks /\ Poller \notin Jobs /\ Poller \notin Hooks
  /\ Sweep \in Tasks /\ Sweep \notin Jobs /\ Sweep \notin Hooks
  BY NamesAssumption DEF Tasks

LEMMA KindTypes ==
  /\ "debit_reserve" \in Kinds /\ "debit_capture" \in Kinds
  /\ "credit_release" \in Kinds
  BY DEF Kinds

\* What task t finds true when it runs, and the types of its locals.
LEMMA RunningTask ==
  ASSUME GenInv, NEW t \in Tasks
  PROVE  /\ task[t] \in Task
         /\ task[t].pc \in PCs
         /\ LocalsOf(t)
         /\ task[t].pc \notin NoJobPCs =>
              /\ JobOf(t) \in Jobs
              /\ RowOf(t) \in Job
              /\ PlanOf(t) \in Plans
  BY PlanAssumption DEF GenInv, GenTypeOK, LocalsHold, LocalsOf, Task, JobOf,
     RowOf, PlanOf

-----------------------------------------------------------------------------
(* A step changes the locals of one task: what is left to show of it. *)

LEMMA OneTask ==
  ASSUME GenInv, WalletGrows,
         NEW t \in Tasks, NEW x \in Task,
         task' = [task EXCEPT ![t] = x],
         LocalsOf(t)',
         seen \subseteq seen'
  PROVE  task' \in [Tasks -> Task] /\ LocalsHold'
<1>1. task' \in [Tasks -> Task]
  BY DEF GenInv, GenTypeOK
<1>2. ASSUME NEW s \in Tasks, s # t
      PROVE  LocalsOf(s)'
  <2>1. task'[s] = task[s]
    BY <1>2 DEF GenInv, GenTypeOK
  <2>2. LocalsOf(s)
    BY DEF GenInv, LocalsHold
  <2>3. task[s].pc \notin NoJobPCs => JobOf(s) \in Refs
    BY <2>2, RefTypes DEF LocalsOf
  <2> QED
    BY <2>1, <2>2, <2>3, KindTypes
       DEF LocalsOf, WalletGrows, JobOf, At, UnheldPCs, NoJobPCs
<1> QED
  BY <1>1, <1>2 DEF LocalsHold

\* A step of one task that leaves rows, tracks, ledger and provider alone.
LEMMA LocalStep ==
  ASSUME GenInv,
         NEW t \in Tasks, NEW x \in Task,
         task' = [task EXCEPT ![t] = x],
         LocalsOf(t)',
         UNCHANGED <<walletVars, job, tracks, fal, crashes>>,
         seen \subseteq seen', seen' \subseteq Jobs \X SubmitKinds,
         applied' \subseteq seen',
         todo' \subseteq todo, orphans' \subseteq orphans
  PROVE  GenInv'
<1>1. WalletGrows
  BY UnchangedGrows DEF GenInv, GenTypeOK
<1>2. task' \in [Tasks -> Task] /\ LocalsHold'
  BY <1>1, OneTask
<1>3. GenTypeOK'
  BY <1>1, <1>2 DEF GenInv, GenTypeOK, WalletGrows
<1>4. PaidBeforeDelivered' /\ WorkIsHeld' /\ FinalizeIsLast'
  BY DEF GenInv, PaidBeforeDelivered, WorkIsHeld, FinalizeIsLast, Terminal,
     Posted, walletVars
<1> QED
  BY <1>2, <1>3, <1>4 DEF GenInv

\* A step that runs no task and leaves rows, tracks, ledger and provider
\* alone.
LEMMA IdleStep ==
  ASSUME GenInv,
         UNCHANGED <<walletVars, job, tracks, fal, seen, applied, task,
                     orphans, crashes>>,
         todo' \subseteq Snapshot
  PROVE  GenInv'
<1>1. GenTypeOK'
  BY DEF GenInv, GenTypeOK, WalletTypeOK, walletVars
<1>2. LocalsHold'
  BY DEF GenInv, LocalsHold, LocalsOf, JobOf, At, Posted, walletVars
<1>3. PaidBeforeDelivered' /\ WorkIsHeld' /\ FinalizeIsLast'
  BY DEF GenInv, PaidBeforeDelivered, WorkIsHeld, FinalizeIsLast, Terminal,
     Posted, walletVars
<1> QED
  BY <1>1, <1>2, <1>3 DEF GenInv

LEMMA IdleTask == Idle \in Task
  BY DEF Idle, Task, PCs, Stages

LEMMA OnlyTask ==
  ASSUME GenInv, NEW t \in Tasks, NEW pc \in PCs
  PROVE  /\ Only(t, pc) \in Task
         /\ Only(t, pc).pc = pc
         /\ Only(t, pc).job = JobOf(t)
         /\ Only(t, pc).event = task[t].event
<1>1. task[t] \in Task
  BY RunningTask
<1> QED
  BY <1>1, IdleTask DEF Only, Idle, Task, JobOf

\* Leaving the pipeline is always safe: what remains of the locals is the
\* event a webhook has claimed.
LEMMA ReturnedFits ==
  ASSUME GenInv, NEW t \in Tasks, task[t].pc \notin NoJobPCs
  PROVE  /\ Returned(t) \in Task
         /\ Returned(t).pc \in {"idle", "replied", "ack"}
         /\ Returned(t).pc = "ack" => /\ t \in Hooks
                                      /\ Returned(t).job = JobOf(t)
                                      /\ Returned(t).event = task[t].event
         /\ t \in Hooks => Returned(t).pc = "ack"
<1>1. CASE t \in Jobs
  <2>1. Returned(t) = [Idle EXCEPT !.pc = "replied"]
    BY <1>1 DEF Returned
  <2> QED
    BY <1>1, <2>1, IdleTask, TaskNames DEF Idle, Task, PCs
<1>2. CASE t \in Hooks
  <2>1. Returned(t) = Only(t, "ack")
    BY <1>2, TaskNames DEF Returned
  <2> QED
    BY <1>2, <2>1, OnlyTask DEF PCs
<1>3. CASE t \notin Jobs /\ t \notin Hooks
  <2>1. Returned(t) = Idle
    BY <1>3 DEF Returned
  <2> QED
    BY <1>3, <2>1, IdleTask DEF Idle
<1> QED
  BY <1>1, <1>2, <1>3

\* The two ways out of a method, as the step OneTask and LocalStep ask for.
LEMMA ReturnStep ==
  ASSUME GenInv, NEW t \in Tasks, task[t].pc \notin NoJobPCs,
         Return(t), seen \subseteq seen'
  PROVE  /\ Returned(t) \in Task
         /\ task' = [task EXCEPT ![t] = Returned(t)]
         /\ LocalsOf(t)'
<1>1. /\ Returned(t) \in Task
      /\ Returned(t).pc \in {"idle", "replied", "ack"}
      /\ Returned(t).pc = "ack" => /\ t \in Hooks
                                   /\ Returned(t).job = JobOf(t)
                                   /\ Returned(t).event = task[t].event
      /\ t \in Hooks => Returned(t).pc = "ack"
  BY ReturnedFits
<1>2. /\ task' = [task EXCEPT ![t] = Returned(t)]
      /\ task'[t] = Returned(t)
  BY DEF Return, GenInv, GenTypeOK
<1>3. /\ JobOf(t) \in Jobs
      /\ t \in Hooks => <<JobOf(t), task[t].event>> \in seen
      /\ t \in Hooks => t \notin Jobs
  BY RunningTask, TaskNames DEF LocalsOf, At, NoJobPCs
<1> QED
  BY <1>1, <1>2, <1>3 DEF LocalsOf, JobOf, At, NoJobPCs, UnheldPCs

LEMMA RaiseStep ==
  ASSUME GenInv, NEW t \in Tasks, task[t].pc \notin NoJobPCs, Raise(t)
  PROVE  \E x \in Task : /\ task' = [task EXCEPT ![t] = x]
                         /\ LocalsOf(t)'
                         /\ todo' \subseteq todo
<1>1. CASE t \in Jobs
  <2>1. /\ Returned(t) \in Task
        /\ task' = [task EXCEPT ![t] = Returned(t)]
        /\ Returned(t).pc = "replied"
        /\ t \notin Hooks
    BY <1>1, ReturnedFits, TaskNames, IdleTask DEF Raise, Returned, Idle, Task
  <2>2. task'[t] = Returned(t)
    BY <2>1 DEF GenInv, GenTypeOK
  <2>3. LocalsOf(t)'
    BY <2>1, <2>2 DEF LocalsOf, At, NoJobPCs, UnheldPCs
  <2> QED
    BY <2>1, <2>3 DEF Raise
<1>2. CASE t \notin Jobs
  <2>1. /\ Idle \in Task
        /\ task' = [task EXCEPT ![t] = Idle]
        /\ Idle.pc = "idle"
    BY <1>2, IdleTask DEF Raise, Idle
  <2>2. task'[t] = Idle
    BY <2>1 DEF GenInv, GenTypeOK
  <2>3. LocalsOf(t)'
    BY <2>1, <2>2 DEF LocalsOf, At, NoJobPCs, UnheldPCs
  <2> QED
    BY <2>1, <2>3 DEF Raise
<1> QED
  BY <1>1, <1>2

LEMMA GoToStep ==
  ASSUME GenInv, NEW t \in Tasks, NEW pc \in PCs, GoTo(t, pc)
  PROVE  \E x \in Task : /\ task' = [task EXCEPT ![t] = x]
                         /\ task'[t] = x
                         /\ x.pc = pc
                         /\ x.job = task[t].job
                         /\ x.event = task[t].event
                         /\ x.rid = task[t].rid
<1> DEFINE x == [task[t] EXCEPT !.pc = pc]
<1>1. task[t] \in Task /\ task \in [Tasks -> Task]
  BY DEF GenInv, GenTypeOK
<1>2. /\ x \in Task
      /\ x.pc = pc
      /\ x.job = task[t].job /\ x.event = task[t].event
      /\ x.rid = task[t].rid
  BY <1>1 DEF Task
<1>3. task' = [task EXCEPT ![t] = x] /\ task'[t] = x
  BY <1>1 DEF GoTo
<1> QED
  BY <1>2, <1>3

-----------------------------------------------------------------------------
(* The actions that keep to the locals of one task. *)

LEMMA LookUpKeyStep ==
  ASSUME GenInv, NEW j \in Jobs, LookUpKey(j)
  PROVE  GenInv'
<1> DEFINE x == [Idle EXCEPT !.job = j,
                     !.pc = IF Existing(j) = {} THEN "add" ELSE "replied"]
<1>1. j \in Tasks /\ j \notin Hooks
  BY TaskNames, NamesAssumption
<1>2. task' = [task EXCEPT ![j] = x] /\ task'[j] = x
  BY <1>1 DEF LookUpKey, GenInv, GenTypeOK
<1>3. x \in Task /\ x.job = j /\ x.pc \in {"add", "replied"}
  BY IdleTask DEF Idle, Task, PCs
<1> HIDE DEF x
<1>4. LocalsOf(j)'
  BY <1>1, <1>2, <1>3 DEF LocalsOf, JobOf, At, NoJobPCs, UnheldPCs
<1> QED
  BY <1>1, <1>2, <1>3, <1>4, LocalStep DEF LookUpKey, GenInv, GenTypeOK

LEMMA AdvanceStep ==
  ASSUME GenInv, NEW t \in Tasks, Advance(t)
  PROVE  GenInv'
<1>1. /\ task[t] \in Task /\ task[t].pc = "advance" /\ LocalsOf(t)
      /\ RowOf(t) \in Job
  BY RunningTask DEF Advance, At, NoJobPCs
<1>2. CASE Return(t)
  BY <1>1, <1>2, ReturnStep, LocalStep
     DEF Advance, NoJobPCs, GenInv, GenTypeOK
<1>3. CASE ~Return(t)
  <2> DEFINE out == IF task[t].audio THEN RowOf(t).out \cup {task[t].stage}
                                     ELSE RowOf(t).out \ {task[t].stage}
             x == [task[t] EXCEPT !.pc = "persist", !.out = out]
  <2>1. /\ task' = [task EXCEPT ![t].pc = "persist", ![t].out = out]
        /\ UNCHANGED <<walletVars, job, tracks, fal, seen, applied, todo,
                       orphans, crashes>>
    BY <1>3 DEF Advance
  <2>2. task[t].stage \in AsyncStages
    BY <1>1 DEF LocalsOf, At
  <2>3. out \in SUBSET AsyncStages
    BY <1>1, <2>2 DEF Job
  <2> HIDE DEF out
  <2>4. /\ x \in Task
        /\ x.pc = "persist" /\ x.job = task[t].job /\ x.event = task[t].event
    BY <1>1, <2>3 DEF Task, PCs
  <2>5. task' = [task EXCEPT ![t] = x] /\ task'[t] = x
    BY <2>1 DEF GenInv, GenTypeOK
  <2> HIDE DEF x
  <2>6. LocalsOf(t)'
    BY <1>1, <2>1, <2>4, <2>5
       DEF LocalsOf, JobOf, At, NoJobPCs, UnheldPCs, Posted, walletVars
  <2> QED
    BY <2>1, <2>4, <2>5, <2>6, LocalStep DEF GenInv, GenTypeOK
<1> QED
  BY <1>2, <1>3

LEMMA CloneVoiceStep ==
  ASSUME GenInv, NEW t \in Tasks, CloneVoice(t)
  PROVE  GenInv'
<1>1. /\ task[t] \in Task /\ task[t].pc = "tts" /\ LocalsOf(t)
      /\ RowOf(t) \in Job
  BY RunningTask DEF CloneVoice, At, NoJobPCs
<1>2. PICK pc \in {"finalize", "speech", "saveclone"} :
        task' = [task EXCEPT ![t].pc = pc, ![t].out = RowOf(t).out]
  BY DEF CloneVoice
<1> DEFINE x == [task[t] EXCEPT !.pc = pc, !.out = RowOf(t).out]
<1>3. /\ x \in Task
      /\ x.pc = pc /\ x.job = task[t].job /\ x.event = task[t].event
  BY <1>1 DEF Task, PCs, Job
<1>4. task' = [task EXCEPT ![t] = x] /\ task'[t] = x
  BY <1>2 DEF GenInv, GenTypeOK
<1> HIDE DEF x
<1>5. UNCHANGED <<walletVars, job, tracks, fal, seen, applied, todo, orphans,
                  crashes>>
  BY DEF CloneVoice
<1>6. LocalsOf(t)'
  BY <1>1, <1>3, <1>4, <1>5
     DEF LocalsOf, JobOf, At, NoJobPCs, UnheldPCs, Posted, walletVars
<1> QED
  BY <1>3, <1>4, <1>5, <1>6, LocalStep DEF GenInv, GenTypeOK

LEMMA DispatchedType ==
  ASSUME NEW t, task[t] \in Task, NEW stage \in AsyncStages, NEW outcome
  PROVE  LET x == Dispatched(t, stage, outcome)
         IN  /\ x \in Task
             /\ x.pc \in {"advance", "fail"} /\ x.stage = stage
             /\ x.job = task[t].job /\ x.event = task[t].event
<1> DEFINE pc    == IF outcome \in {"ok", "empty"} THEN "advance" ELSE "fail"
           audio == outcome = "ok"
           code  == IF outcome = "failed" THEN "PROVIDER_FAILED"
                    ELSE IF outcome = "canceled" THEN "PROVIDER_CANCELED"
                    ELSE "none"
<1>1. /\ pc \in {"advance", "fail"} /\ pc \in PCs
      /\ audio \in BOOLEAN
      /\ code \in Codes \cup {"none"}
      /\ stage \in Stages
  BY DEF PCs, Codes, Stages
<1>2. Dispatched(t, stage, outcome) =
        [task[t] EXCEPT !.pc = pc, !.stage = stage, !.audio = audio,
                        !.code = code]
  BY DEF Dispatched
<1> HIDE DEF pc, audio, code
<1> QED
  BY <1>1, <1>2 DEF Task

LEMMA LookUpRequestStep ==
  ASSUME GenInv, NEW h \in Hooks, LookUpRequest(h)
  PROVE  GenInv'
<1>1. /\ h \in Tasks /\ task[h].pc = "claimed" /\ LocalsOf(h)
      /\ task[h].pc \notin NoJobPCs
      /\ JobOf(h) \in Jobs /\ task[h] \in Task /\ job[JobOf(h)] \in Job
  BY TaskNames, RunningTask DEF LookUpRequest, At, NoJobPCs, RowOf
<1>2. UNCHANGED <<walletVars, job, tracks, fal, seen, applied, todo, orphans,
                  crashes>>
  BY DEF LookUpRequest
<1>3. CASE Return(h)
  BY <1>1, <1>2, <1>3, ReturnStep, LocalStep DEF GenInv, GenTypeOK
<1>4. CASE ~Return(h)
  <2> DEFINE stage == CurrentStage(job[JobOf(h)].stage)
             x == Dispatched(h, stage, fal[JobOf(h)][task[h].event])
  <2>1. /\ task' = [task EXCEPT ![h] = x]
        /\ ~Terminal(JobOf(h))
    BY <1>4 DEF LookUpRequest, Return
  <2>2. stage \in AsyncStages
    BY <1>1, <2>1
       DEF GenInv, FinalizeIsLast, CurrentStage, Job, Stages, AsyncStages
  <2> HIDE DEF stage
  <2>3. /\ x \in Task
        /\ x.pc \in {"advance", "fail"} /\ x.stage = stage
        /\ x.job = task[h].job /\ x.event = task[h].event
    BY <1>1, <2>2, DispatchedType
  <2>4. task'[h] = x
    BY <1>1, <2>1 DEF GenInv, GenTypeOK
  <2> HIDE DEF x
  <2>5. LocalsOf(h)'
    BY <1>1, <1>2, <2>2, <2>3, <2>4
       DEF LocalsOf, JobOf, At, NoJobPCs, UnheldPCs, Posted, walletVars
  <2> QED
    BY <1>1, <1>2, <2>1, <2>3, <2>5, LocalStep DEF GenInv, GenTypeOK
<1> QED
  BY <1>3, <1>4

\* A finished submission is one of a job whose tokens are set aside.
LEMMA FinishedIsHeld ==
  ASSUME GenInv, NEW j \in Jobs, NEW kind \in SubmitKinds, Finished(j, kind)
  PROVE  Posted(j, "debit_reserve")
<1>1. fal[j][kind] # "none"
  BY DEF Finished, AllOutcomes
<1> QED
  BY <1>1 DEF GenInv, WorkIsHeld

LEMMA ClaimEventStep ==
  ASSUME GenInv, NEW h \in Hooks, NEW j \in Jobs, NEW kind \in SubmitKinds,
         ClaimEvent(h, j, kind)
  PROVE  GenInv'
<1> DEFINE x == [Idle EXCEPT !.pc = "claimed", !.job = j, !.event = kind]
<1>1. h \in Tasks /\ h \notin Jobs
  BY TaskNames
<1>2. task' = [task EXCEPT ![h] = x] /\ task'[h] = x
  BY <1>1 DEF ClaimEvent, GenInv, GenTypeOK
<1>3. x \in Task /\ x.pc = "claimed" /\ x.job = j /\ x.event = kind
  BY IdleTask DEF Idle, Task, PCs
<1> HIDE DEF x
<1>4. /\ UNCHANGED <<walletVars, job, tracks, fal, applied, todo, orphans,
                     crashes>>
      /\ seen' = seen \cup {<<j, kind>>}
  BY DEF ClaimEvent
<1>5. Posted(j, "debit_reserve")
  BY FinishedIsHeld DEF ClaimEvent
<1>6. LocalsOf(h)'
  BY <1>1, <1>2, <1>3, <1>4, <1>5
     DEF LocalsOf, JobOf, At, NoJobPCs, Posted, walletVars
<1>7. /\ seen \subseteq seen' /\ seen' \subseteq Jobs \X SubmitKinds
      /\ applied' \subseteq seen'
  BY <1>4 DEF GenInv, GenTypeOK
<1> QED
  BY <1>1, <1>2, <1>3, <1>4, <1>6, <1>7, LocalStep

LEMMA MarkAppliedStep ==
  ASSUME GenInv, NEW h \in Hooks, MarkApplied(h)
  PROVE  GenInv'
<1>1. /\ h \in Tasks /\ task[h].pc = "ack" /\ LocalsOf(h)
  BY TaskNames, RunningTask DEF MarkApplied, At
<1>2. /\ applied' = applied \cup {<<JobOf(h), task[h].event>>}
      /\ task' = [task EXCEPT ![h] = Idle]
      /\ task'[h] = Idle
      /\ UNCHANGED <<walletVars, job, tracks, fal, seen, todo, orphans,
                     crashes>>
  BY <1>1 DEF MarkApplied, GenInv, GenTypeOK
<1>3. <<JobOf(h), task[h].event>> \in seen
  BY <1>1 DEF LocalsOf, At
<1>4. Idle \in Task /\ Idle.pc = "idle"
  BY IdleTask DEF Idle
<1>5. LocalsOf(h)'
  BY <1>2, <1>4 DEF LocalsOf, At, NoJobPCs, UnheldPCs
<1>6. /\ seen \subseteq seen' /\ seen' \subseteq Jobs \X SubmitKinds
      /\ applied' \subseteq seen'
  BY <1>2, <1>3 DEF GenInv, GenTypeOK
<1> QED
  BY <1>1, <1>2, <1>4, <1>5, <1>6, LocalStep

LEMMA FetchActiveJobsStep ==
  ASSUME GenInv, FetchActiveJobs
  PROVE  GenInv'
<1>1. ASSUME NEW j \in Jobs, Active(j)
      PROVE  [job |-> j, stage |-> job[j].stage, rid |-> job[j].rid,
              model |-> job[j].model] \in Snapshot
  <2>1. job[j] \in Job
    BY DEF GenInv, GenTypeOK
  <2>2. job[j].stage # "finalize"
    BY <1>1 DEF GenInv, FinalizeIsLast, Active, Terminal
  <2> QED
    BY <1>1, <2>1, <2>2 DEF Active, Job, Snapshot
<1>2. todo' \subseteq Snapshot
  BY <1>1 DEF FetchActiveJobs
<1> QED
  BY <1>2, IdleStep DEF FetchActiveJobs

LEMMA PollPendingStep ==
  ASSUME GenInv, NEW row \in todo, PollPending(row)
  PROVE  GenInv'
<1>1. todo' \subseteq Snapshot
  BY DEF PollPending, GenInv, GenTypeOK
<1> QED
  BY <1>1, IdleStep DEF PollPending

LEMMA PollFinishedStep ==
  ASSUME GenInv, NEW row \in todo, PollFinished(row)
  PROVE  GenInv'
<1>1. /\ row.job \in Jobs /\ row.rid \in SubmitKinds
      /\ row.stage \in Stages \ {"finalize"}
  BY DEF GenInv, GenTypeOK, Snapshot
<1>2. /\ Poller \in Tasks /\ Poller \notin Jobs /\ Poller \notin Hooks
      /\ task[Poller] \in Task
  BY TaskNames, RunningTask
<1> DEFINE stage == CurrentStage(row.stage)
<1>3. stage \in AsyncStages
  BY <1>1 DEF CurrentStage, Stages, AsyncStages
<1>4. PICK outcome \in Reported(row) :
        task' = [task EXCEPT ![Poller] =
                   [Dispatched(Poller, stage, outcome) EXCEPT !.job = row.job]]
  BY DEF PollFinished
<1> HIDE DEF stage
<1> DEFINE d == Dispatched(Poller, stage, outcome)
           x == [d EXCEPT !.job = row.job]
<1>5. d \in Task /\ d.pc \in {"advance", "fail"} /\ d.stage = stage
  BY <1>2, <1>3, DispatchedType
<1> HIDE DEF d
<1>6. /\ x \in Task
      /\ x.pc \in {"advance", "fail"} /\ x.stage = stage /\ x.job = row.job
  BY <1>1, <1>5 DEF Task
<1>7. task' = [task EXCEPT ![Poller] = x] /\ task'[Poller] = x
  BY <1>2, <1>4 DEF GenInv, GenTypeOK, d
<1> HIDE DEF x
<1>8. UNCHANGED <<walletVars, job, tracks, fal, seen, applied, orphans,
                  crashes>> /\ todo' \subseteq todo
  BY DEF PollFinished
<1>9. Posted(row.job, "debit_reserve")
  <2>1. Finished(row.job, row.rid)
    BY <1>4 DEF Reported
  <2> QED
    BY <1>1, <2>1, FinishedIsHeld
<1>10. LocalsOf(Poller)'
  BY <1>1, <1>2, <1>3, <1>6, <1>7, <1>8, <1>9
     DEF LocalsOf, JobOf, At, NoJobPCs, Posted, walletVars
<1> QED
  BY <1>2, <1>6, <1>7, <1>8, <1>10, LocalStep DEF GenInv, GenTypeOK

-----------------------------------------------------------------------------
(* The actions that write a row of jobs. *)

LEMMA RowStep ==
  ASSUME GenInv,
         NEW t \in Tasks, NEW x \in Task,
         task' = [task EXCEPT ![t] = x],
         LocalsOf(t)',
         UNCHANGED <<walletVars, tracks, fal, seen, applied, todo, orphans,
                     crashes>>,
         NEW j \in Jobs, NEW row \in Job,
         job' = [job EXCEPT ![j] = row],
         row.status = "succeeded" => job[j].status = "succeeded",
         row.stage = "finalize" => row.status \in {"succeeded", "failed"}
  PROVE  GenInv'
<1>1. WalletGrows
  BY UnchangedGrows DEF GenInv, GenTypeOK
<1>2. task' \in [Tasks -> Task] /\ LocalsHold'
  BY <1>1, OneTask
<1>3. GenTypeOK'
  BY <1>1, <1>2 DEF GenInv, GenTypeOK, WalletGrows
<1>4. job'[j] = row /\ \A i \in Jobs : i # j => job'[i] = job[i]
  BY DEF GenInv, GenTypeOK
<1>5. PaidBeforeDelivered' /\ WorkIsHeld' /\ FinalizeIsLast'
  BY <1>4 DEF GenInv, PaidBeforeDelivered, WorkIsHeld, FinalizeIsLast,
              Terminal, Posted, walletVars
<1> QED
  BY <1>2, <1>3, <1>5 DEF GenInv

LEMMA QueuedJobType ==
  QueuedJob \in Job /\ QueuedJob.status = "queued" /\ QueuedJob.stage = "none"
  BY DEF QueuedJob, NoJob, Job, Statuses, Stages, MusicKinds

LEMMA AddJobStep ==
  ASSUME GenInv, NEW j \in Jobs, AddJob(j)
  PROVE  GenInv'
<1>1. /\ j \in Tasks /\ j \notin Hooks
      /\ task[j].pc = "add" /\ LocalsOf(j) /\ task[j].pc \notin NoJobPCs
      /\ JobOf(j) = j
      /\ UNCHANGED <<walletVars, tracks, fal, seen, applied, todo, orphans,
                     crashes>>
  BY TaskNames, NamesAssumption, RunningTask
     DEF AddJob, At, NoJobPCs, LocalsOf
<1>2. CASE /\ job' = [job EXCEPT ![j] = QueuedJob]
           /\ GoTo(j, "reserve")
  <2>1. PICK x \in Task : /\ task' = [task EXCEPT ![j] = x] /\ task'[j] = x
                          /\ x.pc = "reserve" /\ x.job = task[j].job
    BY <1>1, <1>2, GoToStep DEF PCs
  <2>2. LocalsOf(j)'
    BY <1>1, <2>1 DEF LocalsOf, JobOf, At, NoJobPCs, UnheldPCs
  <2> QED
    BY <1>1, <1>2, <2>1, <2>2, QueuedJobType, RowStep
<1>3. CASE Return(j) /\ UNCHANGED job
  BY <1>1, <1>3, ReturnStep, LocalStep DEF GenInv, GenTypeOK
<1> QED
  BY <1>2, <1>3 DEF AddJob

\* A task that goes on within a method whose next step needs the hold.
LEMMA GoOnStep ==
  ASSUME GenInv, NEW t \in Tasks, NEW pc \in PCs, GoTo(t, pc),
         task[t].pc \notin UnheldPCs,
         pc \notin UnheldPCs \cup {"setstage", "fallback", "commit", "advance"},
         UNCHANGED <<walletVars, seen>>
  PROVE  \E x \in Task : task' = [task EXCEPT ![t] = x] /\ LocalsOf(t)'
<1>1. PICK x \in Task : /\ task' = [task EXCEPT ![t] = x] /\ task'[t] = x
                        /\ x.pc = pc /\ x.job = task[t].job
                        /\ x.event = task[t].event
  BY GoToStep
<1>2. LocalsOf(t)
  BY RunningTask
<1>3. LocalsOf(t)'
  BY <1>1, <1>2
     DEF LocalsOf, JobOf, At, NoJobPCs, UnheldPCs, Posted, walletVars
<1> QED
  BY <1>1, <1>3

LEMMA PersistRuntimeStep ==
  ASSUME GenInv, NEW t \in Tasks, PersistRuntime(t)
  PROVE  GenInv'
<1>1. /\ task[t] \in Task /\ task[t].pc = "persist"
      /\ JobOf(t) \in Jobs /\ RowOf(t) \in Job
      /\ UNCHANGED <<walletVars, tracks, fal, seen, applied, todo, orphans,
                     crashes>>
  BY RunningTask DEF PersistRuntime, At, NoJobPCs
<1> DEFINE row == [RowOf(t) EXCEPT !.out = task[t].out]
<1>2. job' = [job EXCEPT ![JobOf(t)] = row]
  BY DEF PersistRuntime, RowOf
<1>3. /\ row \in Job
      /\ row.status = RowOf(t).status /\ row.stage = RowOf(t).stage
  BY <1>1 DEF Job, Task
<1> HIDE DEF row
<1>4. row.stage = "finalize" => row.status \in {"succeeded", "failed"}
  BY <1>1, <1>3 DEF GenInv, FinalizeIsLast, Terminal, RowOf
<1>5. NextStep(PlanOf(t), task[t].stage) \in {"refine", "tts", "finalize"}
  BY DEF NextStep
<1>6. PICK x \in Task : task' = [task EXCEPT ![t] = x] /\ LocalsOf(t)'
  BY <1>1, <1>5, GoOnStep DEF PersistRuntime, PCs, UnheldPCs, NoJobPCs
<1> QED
  BY <1>1, <1>2, <1>3, <1>4, <1>6, RowStep DEF RowOf

LEMMA SaveClonedVoiceStep ==
  ASSUME GenInv, NEW t \in Tasks, SaveClonedVoice(t)
  PROVE  GenInv'
<1>1. /\ task[t] \in Task /\ task[t].pc = "saveclone"
      /\ JobOf(t) \in Jobs /\ RowOf(t) \in Job
      /\ UNCHANGED <<walletVars, tracks, fal, seen, applied, todo, orphans,
                     crashes>>
  BY RunningTask DEF SaveClonedVoice, At, NoJobPCs
<1> DEFINE row == [RowOf(t) EXCEPT !.cloned = TRUE]
<1>2. job' = [job EXCEPT ![JobOf(t)] = row]
  BY DEF SaveClonedVoice, RowOf
<1>3. /\ row \in Job
      /\ row.status = RowOf(t).status /\ row.stage = RowOf(t).stage
  BY <1>1 DEF Job
<1> HIDE DEF row
<1>4. row.stage = "finalize" => row.status \in {"succeeded", "failed"}
  BY <1>1, <1>3 DEF GenInv, FinalizeIsLast, Terminal, RowOf
<1>5. PICK x \in Task : task' = [task EXCEPT ![t] = x] /\ LocalsOf(t)'
  BY <1>1, GoOnStep DEF SaveClonedVoice, PCs, UnheldPCs, NoJobPCs
<1> QED
  BY <1>1, <1>2, <1>3, <1>4, <1>5, RowStep DEF RowOf

\* Whoever returns from the pipeline after a write of its row.
LEMMA ReturnRowStep ==
  ASSUME GenInv, NEW t \in Tasks, task[t].pc \notin NoJobPCs, Return(t),
         UNCHANGED <<walletVars, tracks, fal, seen, applied, todo, orphans,
                     crashes>>,
         NEW row \in Job,
         job' = [job EXCEPT ![JobOf(t)] = row],
         row.status = "succeeded" => RowOf(t).status = "succeeded",
         row.stage = "finalize" => row.status \in {"succeeded", "failed"}
  PROVE  GenInv'
<1>1. JobOf(t) \in Jobs
  BY RunningTask
<1> QED
  BY <1>1, ReturnStep, RowStep DEF RowOf

LEMMA RecordSubmissionStep ==
  ASSUME GenInv, NEW t \in Tasks, RecordSubmission(t)
  PROVE  GenInv'
<1>1. /\ task[t].pc = "setstage" /\ task[t].pc \notin NoJobPCs
      /\ task[t].rid \in SubmitKinds
      /\ RowOf(t) \in Job
  BY RunningTask DEF RecordSubmission, At, NoJobPCs, LocalsOf
<1> DEFINE row == [RowOf(t) EXCEPT !.status = "processing",
                     !.stage = StageOf(task[t].rid), !.rid = task[t].rid]
<1>2. job' = [job EXCEPT ![JobOf(t)] = row]
  BY DEF RecordSubmission, SetCurrentStage, RowOf
<1>3. StageOf(task[t].rid) \in AsyncStages
  BY <1>1 DEF StageOf, SubmitKinds, AsyncStages
<1>4. /\ row \in Job /\ row.status = "processing"
      /\ row.stage # "finalize"
  BY <1>1, <1>3 DEF Job, Statuses, Stages, AsyncStages
<1> HIDE DEF row
<1> QED
  BY <1>1, <1>2, <1>4, ReturnRowStep DEF RecordSubmission

LEMMA FailedRow ==
  ASSUME GenInv, NEW j \in Jobs, MarkFailed(j)
  PROVE  \E row \in Job : job' = [job EXCEPT ![j] = row] /\ row.status = "failed"
<1> DEFINE row == [job[j] EXCEPT !.status = "failed"]
<1>1. row \in Job /\ row.status = "failed"
  BY DEF GenInv, GenTypeOK, Job, Statuses
<1>2. job' = [job EXCEPT ![j] = row]
  BY DEF MarkFailed
<1> QED
  BY <1>1, <1>2

LEMMA FinalizeWithoutAudioStep ==
  ASSUME GenInv, NEW t \in Tasks, FinalizeWithoutAudio(t)
  PROVE  GenInv'
<1>1. task[t].pc \notin NoJobPCs /\ JobOf(t) \in Jobs
  BY RunningTask DEF FinalizeWithoutAudio, At, NoJobPCs
<1> QED
  BY <1>1, FailedRow, ReturnRowStep DEF FinalizeWithoutAudio

LEMMA FailJobStep ==
  ASSUME GenInv, NEW t \in Tasks, FailJob(t)
  PROVE  GenInv'
<1>1. task[t].pc \notin NoJobPCs /\ JobOf(t) \in Jobs
  BY RunningTask DEF FailJob, At, NoJobPCs
<1> QED
  BY <1>1, FailedRow, ReturnRowStep DEF FailJob

LEMMA MarkFallbackStep ==
  ASSUME GenInv, NEW t \in Tasks, MarkFallback(t)
  PROVE  GenInv'
<1>1. /\ task[t].pc = "fallback" /\ task[t].pc \notin NoJobPCs
      /\ task[t].rid \in FallbackKinds
      /\ RowOf(t) \in Job /\ JobOf(t) \in Jobs
  BY RunningTask DEF MarkFallback, At, NoJobPCs, LocalsOf
<1> DEFINE row == [RowOf(t) EXCEPT !.fallbackUsed = TRUE,
                     !.model = task[t].rid, !.rid = task[t].rid]
<1>2. job' = [job EXCEPT ![JobOf(t)] = row]
  BY DEF MarkFallback, RowOf
<1>3. /\ row \in Job
      /\ row.status = RowOf(t).status /\ row.stage = RowOf(t).stage
  BY <1>1 DEF Job, FallbackKinds, MusicKinds, SubmitKinds
<1> HIDE DEF row
<1>4. row.stage = "finalize" => row.status \in {"succeeded", "failed"}
  BY <1>1, <1>3 DEF GenInv, FinalizeIsLast, Terminal, RowOf
<1> QED
  BY <1>1, <1>2, <1>3, <1>4, ReturnRowStep DEF MarkFallback

-----------------------------------------------------------------------------
(* The actions that submit to the provider. *)

LEMMA SubmittedType ==
  ASSUME GenInv, NEW j \in Jobs, NEW kind \in SubmitKinds, Submitted(j, kind)
  PROVE  /\ fal' \in [Jobs -> [SubmitKinds -> AllOutcomes \cup {"none", "running"}]]
         /\ \A i \in Jobs : i # j => fal'[i] = fal[i]
  BY DEF Submitted, GenInv, GenTypeOK

\* A submission for a job whose tokens are set aside.
LEMMA SubmitStep ==
  ASSUME GenInv,
         NEW t \in Tasks, NEW x \in Task,
         task' = [task EXCEPT ![t] = x],
         LocalsOf(t)',
         UNCHANGED <<walletVars, job, tracks, seen, applied, todo, orphans,
                     crashes>>,
         NEW j \in Jobs, NEW kind \in SubmitKinds, Submitted(j, kind),
         Posted(j, "debit_reserve")
  PROVE  GenInv'
<1>1. WalletGrows
  BY UnchangedGrows DEF GenInv, GenTypeOK
<1>2. task' \in [Tasks -> Task] /\ LocalsHold'
  BY <1>1, OneTask
<1>3. /\ fal' \in [Jobs -> [SubmitKinds -> AllOutcomes \cup {"none", "running"}]]
      /\ \A i \in Jobs : i # j => fal'[i] = fal[i]
  BY SubmittedType
<1>4. GenTypeOK'
  BY <1>1, <1>2, <1>3 DEF GenInv, GenTypeOK, WalletGrows
<1>5. PaidBeforeDelivered' /\ FinalizeIsLast'
  BY DEF GenInv, PaidBeforeDelivered, FinalizeIsLast, Terminal, Posted,
         walletVars
<1>6. WorkIsHeld'
  BY <1>3 DEF GenInv, WorkIsHeld, Posted, walletVars
<1> QED
  BY <1>2, <1>4, <1>5, <1>6 DEF GenInv

LEMMA SubmitMusicStep ==
  ASSUME GenInv, NEW j \in Jobs, SubmitMusic(j)
  PROVE  GenInv'
<1>1. /\ j \in Tasks /\ j \notin Hooks
      /\ task[j] \in Task /\ task[j].pc = "submit" /\ JobOf(j) = j
      /\ Posted(j, "debit_reserve")
      /\ UNCHANGED <<walletVars, job, tracks, seen, applied, todo, orphans,
                     crashes>>
  BY TaskNames, NamesAssumption, RunningTask
     DEF SubmitMusic, At, NoJobPCs, UnheldPCs, LocalsOf
<1>2. CASE /\ Submitted(j, "music")
           /\ task' = [task EXCEPT ![j].pc = "setstage", ![j].rid = "music"]
  <2> DEFINE x == [task[j] EXCEPT !.pc = "setstage", !.rid = "music"]
  <2>1. /\ x \in Task
        /\ x.pc = "setstage" /\ x.job = task[j].job /\ x.rid = "music"
    BY <1>1 DEF Task, PCs, SubmitKinds, MusicKinds
  <2>2. task' = [task EXCEPT ![j] = x] /\ task'[j] = x
    BY <1>1, <1>2 DEF GenInv, GenTypeOK
  <2> HIDE DEF x
  <2>3. LocalsOf(j)'
    BY <1>1, <2>1, <2>2
       DEF LocalsOf, JobOf, At, NoJobPCs, Posted, walletVars, SubmitKinds,
           MusicKinds
  <2>4. "music" \in SubmitKinds
    BY DEF SubmitKinds, MusicKinds
  <2> QED
    BY <1>1, <1>2, <2>1, <2>2, <2>3, <2>4, SubmitStep
<1>3. CASE GoTo(j, "release") /\ UNCHANGED fal
  <2>1. PICK x \in Task : /\ task' = [task EXCEPT ![j] = x] /\ task'[j] = x
                          /\ x.pc = "release" /\ x.job = task[j].job
    BY <1>1, <1>3, GoToStep DEF PCs
  <2>2. LocalsOf(j)'
    BY <1>1, <2>1 DEF LocalsOf, JobOf, At, NoJobPCs, UnheldPCs
  <2> QED
    BY <1>1, <1>3, <2>1, <2>2, LocalStep DEF GenInv, GenTypeOK
<1> QED
  BY <1>2, <1>3 DEF SubmitMusic

\* The locals after a submission inside the pipeline: the request id that
\* the next step records.
LEMMA SubmittedFits ==
  ASSUME GenInv, NEW t \in Tasks, task[t].pc \notin UnheldPCs,
         NEW kind \in SubmitKinds, NEW pc \in {"setstage", "fallback"},
         pc = "fallback" => kind \in FallbackKinds,
         task' = [task EXCEPT ![t] = [Only(t, pc) EXCEPT !.rid = kind]],
         UNCHANGED <<walletVars, seen>>
  PROVE  \E x \in Task : task' = [task EXCEPT ![t] = x] /\ LocalsOf(t)'
<1> DEFINE o == Only(t, pc)
           x == [o EXCEPT !.rid = kind]
<1>1. o \in Task /\ o.pc = pc /\ o.job = JobOf(t) /\ o.event = task[t].event
  BY OnlyTask DEF PCs
<1> HIDE DEF o
<1>2. /\ x \in Task /\ x.pc = pc /\ x.job = JobOf(t) /\ x.rid = kind
      /\ x.event = task[t].event
  BY <1>1 DEF Task
<1>3. task' = [task EXCEPT ![t] = x] /\ task'[t] = x
  BY DEF GenInv, GenTypeOK, o
<1> HIDE DEF x
<1>4. LocalsOf(t)
  BY RunningTask
<1>5. LocalsOf(t)'
  BY <1>2, <1>3, <1>4
     DEF LocalsOf, JobOf, At, NoJobPCs, UnheldPCs, Posted, walletVars
<1> QED
  BY <1>2, <1>3, <1>5

\* fail() entered for a provider error, and the plain next method.
LEMMA FailCodeFits ==
  ASSUME GenInv, NEW t \in Tasks, task[t].pc \notin UnheldPCs,
         NEW code \in Codes,
         task' = [task EXCEPT ![t].pc = "fail", ![t].code = code],
         UNCHANGED <<walletVars, seen>>
  PROVE  \E x \in Task : task' = [task EXCEPT ![t] = x] /\ LocalsOf(t)'
<1> DEFINE x == [task[t] EXCEPT !.pc = "fail", !.code = code]
<1>1. task[t] \in Task /\ LocalsOf(t)
  BY RunningTask
<1>2. /\ x \in Task /\ x.pc = "fail" /\ x.job = task[t].job
      /\ x.event = task[t].event
  BY <1>1 DEF Task, PCs
<1>3. task' = [task EXCEPT ![t] = x] /\ task'[t] = x
  BY DEF GenInv, GenTypeOK
<1> HIDE DEF x
<1>4. LocalsOf(t)'
  BY <1>1, <1>2, <1>3
     DEF LocalsOf, JobOf, At, NoJobPCs, UnheldPCs, Posted, walletVars
<1> QED
  BY <1>2, <1>3, <1>4

LEMMA SubmitRefineStep ==
  ASSUME GenInv, NEW t \in Tasks, SubmitRefine(t)
  PROVE  GenInv'
<1>1. /\ task[t] \in Task /\ task[t].pc = "refine" /\ LocalsOf(t)
      /\ task[t].pc \notin UnheldPCs /\ task[t].pc \notin NoJobPCs
      /\ JobOf(t) \in Jobs /\ RowOf(t) \in Job
      /\ Posted(JobOf(t), "debit_reserve")
      /\ UNCHANGED <<walletVars, job, tracks, seen, applied, orphans, crashes>>
  BY RunningTask DEF SubmitRefine, At, NoJobPCs, UnheldPCs, LocalsOf
<1>2. "refine" \in SubmitKinds
  BY DEF SubmitKinds
<1>3. CASE /\ Submitted(JobOf(t), "refine")
           /\ task' = [task EXCEPT ![t] = [Only(t, "setstage") EXCEPT !.rid = "refine"]]
           /\ UNCHANGED todo
  BY <1>1, <1>2, <1>3, SubmittedFits, SubmitStep
<1>4. CASE ProviderError(t) /\ UNCHANGED fal
  <2>1. CASE t \in Hooks
    <3>1. PICK code \in {"PROVIDER_FAILED", "PROVIDER_TIMEOUT"} :
            task' = [task EXCEPT ![t].pc = "fail", ![t].code = code]
      BY <1>4, <2>1 DEF ProviderError
    <3>2. code \in Codes /\ UNCHANGED todo
      BY <1>4, <2>1 DEF Codes, ProviderError
    <3> QED
      BY <1>1, <1>4, <3>1, <3>2, FailCodeFits, LocalStep DEF GenInv, GenTypeOK
  <2>2. CASE t \notin Hooks
    BY <1>1, <1>4, <2>2, RaiseStep, LocalStep
       DEF ProviderError, GenInv, GenTypeOK
  <2> QED
    BY <2>1, <2>2
<1>5. CASE /\ task' = [task EXCEPT
                ![t].pc = IF PlanOf(t).voice THEN "tts" ELSE "finalize",
                ![t].out = RowOf(t).out]
           /\ UNCHANGED <<fal, todo>>
  <2>1. PICK pc \in {"tts", "finalize"} :
          task' = [task EXCEPT ![t].pc = pc, ![t].out = RowOf(t).out]
    BY <1>5
  <2> DEFINE x == [task[t] EXCEPT !.pc = pc, !.out = RowOf(t).out]
  <2>2. /\ x \in Task
        /\ x.pc = pc /\ x.job = task[t].job /\ x.event = task[t].event
    BY <1>1 DEF Task, PCs, Job
  <2>3. task' = [task EXCEPT ![t] = x] /\ task'[t] = x
    BY <2>1 DEF GenInv, GenTypeOK
  <2> HIDE DEF x
  <2>4. LocalsOf(t)'
    BY <1>1, <2>2, <2>3
       DEF LocalsOf, JobOf, At, NoJobPCs, UnheldPCs, Posted, walletVars
  <2> QED
    BY <1>1, <1>5, <2>2, <2>3, <2>4, LocalStep DEF GenInv, GenTypeOK
<1> QED
  BY <1>3, <1>4, <1>5 DEF SubmitRefine

LEMMA SubmitSpeechStep ==
  ASSUME GenInv, NEW t \in Tasks, SubmitSpeech(t)
  PROVE  GenInv'
<1>1. /\ task[t].pc = "speech" /\ LocalsOf(t)
      /\ task[t].pc \notin UnheldPCs
      /\ JobOf(t) \in Jobs
      /\ Posted(JobOf(t), "debit_reserve")
      /\ UNCHANGED <<walletVars, job, tracks, seen, applied, todo, orphans,
                     crashes>>
  BY RunningTask DEF SubmitSpeech, At, NoJobPCs, UnheldPCs, LocalsOf
<1>2. "tts" \in SubmitKinds
  BY DEF SubmitKinds
<1>3. CASE /\ Submitted(JobOf(t), "tts")
           /\ task' = [task EXCEPT ![t] = [Only(t, "setstage") EXCEPT !.rid = "tts"]]
  BY <1>1, <1>2, <1>3, SubmittedFits, SubmitStep
<1>4. CASE GoTo(t, "finalize") /\ UNCHANGED fal
  <2>1. \E x \in Task : task' = [task EXCEPT ![t] = x] /\ LocalsOf(t)'
    BY <1>1, <1>4, GoOnStep DEF PCs, UnheldPCs, NoJobPCs
  <2> QED
    BY <1>1, <1>4, <2>1, LocalStep DEF GenInv, GenTypeOK
<1> QED
  BY <1>3, <1>4 DEF SubmitSpeech

LEMMA FailStep ==
  ASSUME GenInv, NEW t \in Tasks, Fail(t)
  PROVE  GenInv'
<1>1. /\ task[t].pc = "fail" /\ LocalsOf(t)
      /\ task[t].pc \notin UnheldPCs
      /\ JobOf(t) \in Jobs
      /\ t \in Jobs => JobOf(t) = t
      /\ Posted(JobOf(t), "debit_reserve")
      /\ UNCHANGED <<walletVars, job, tracks, seen, applied, todo, orphans,
                     crashes>>
  BY RunningTask DEF Fail, At, NoJobPCs, UnheldPCs, LocalsOf
<1>2. ASSUME NEW kind \in FallbacksOf(PlanOf(t)),
             Submitted(JobOf(t), kind),
             task' = [task EXCEPT ![t] = [Only(t, "fallback") EXCEPT !.rid = kind]]
      PROVE  GenInv'
  <2>1. kind \in FallbackKinds /\ kind \in SubmitKinds
    BY DEF FallbacksOf, FallbackKinds, SubmitKinds, MusicKinds
  <2> QED
    BY <1>1, <1>2, <2>1, SubmittedFits, SubmitStep
<1>3. CASE task' = [task EXCEPT ![t] = Only(t, "release")] /\ UNCHANGED fal
  <2>1. /\ Only(t, "release") \in Task
        /\ Only(t, "release").pc = "release"
        /\ Only(t, "release").job = JobOf(t)
        /\ Only(t, "release").event = task[t].event
    BY OnlyTask DEF PCs
  <2>2. task'[t] = Only(t, "release")
    BY <1>3 DEF GenInv, GenTypeOK
  <2>3. LocalsOf(t)'
    BY <1>1, <2>1, <2>2 DEF LocalsOf, JobOf, At, NoJobPCs, UnheldPCs
  <2> QED
    BY <1>1, <1>3, <2>1, <2>3, LocalStep DEF GenInv, GenTypeOK
<1> QED
  BY <1>2, <1>3 DEF Fail

-----------------------------------------------------------------------------
(* The actions that call the wallet. *)

LEMMA PostWrites ==
  ASSUME WalletTypeOK, WalletTypeOK',
         NEW u \in Users, NEW r \in Refs, NEW kind \in Kinds,
         NEW amount \in Int, NEW a, NEW h, NEW prev \in Nat,
         Post(u, r, kind, amount, a, h, prev)
  PROVE  /\ Posted(r, kind)'
         /\ \A k \in Keys : k # <<r, kind>> => ledger'[k] = ledger[k]
<1> DEFINE w == Moved(wallet[u], a, h)
           e == EntryFor(u, w, amount, prev)
<1>1. /\ wallet' = [wallet EXCEPT ![u] = w]
      /\ ledger' = [ledger EXCEPT ![<<r, kind>>] = e]
  BY DEF Post
<1>2. <<r, kind>> \in Keys
  BY DEF Keys
<1> HIDE DEF w
<1>3. w \in Balance
  BY <1>1 DEF WalletTypeOK
<1>4. e # None
  BY <1>3, EntryType
<1> HIDE DEF e
<1>5. ledger'[<<r, kind>>] = e
  BY <1>1, <1>2 DEF WalletTypeOK
<1>6. \A k \in Keys : k # <<r, kind>> => ledger'[k] = ledger[k]
  BY <1>1 DEF WalletTypeOK
<1> QED
  BY <1>4, <1>5, <1>6 DEF Posted

\* A call for job j that posts under one kind.
LEMMA JobCallWrites ==
  ASSUME GenInv, NEW j \in Jobs, NEW kind \in Kinds, JobCall(j),
         NEW amount \in Int, NEW a, NEW h, NEW prev \in Nat,
         Post(Owner[j], j, kind, amount, a, h, prev)
  PROVE  /\ WalletGrows
         /\ Posted(j, kind)'
         /\ \A i \in Jobs, other \in Kinds :
              <<i, other>> # <<j, kind>> /\ Posted(i, other)' => Posted(i, other)
<1>1. WalletTypeOK /\ Owner[j] \in Users /\ j \in Refs
  BY RefTypes DEF GenInv, GenTypeOK
<1>2. WalletTypeOK' /\ JournalStep
  BY <1>1, JobCallStep
<1>3. /\ Posted(j, kind)'
      /\ \A k \in Keys : k # <<j, kind>> => ledger'[k] = ledger[k]
  BY <1>1, <1>2, PostWrites
<1>4. ASSUME NEW i \in Jobs, NEW other \in Kinds,
             <<i, other>> # <<j, kind>>, Posted(i, other)'
      PROVE  Posted(i, other)
  BY <1>3, <1>4, RefTypes DEF Posted, Keys
<1> QED
  BY <1>2, <1>3, <1>4, JournalGrows

\* A step of one task that moves tokens.
LEMMA WalletUseStep ==
  ASSUME GenInv, WalletGrows,
         NEW t \in Tasks, NEW x \in Task,
         task' = [task EXCEPT ![t] = x],
         LocalsOf(t)',
         UNCHANGED <<job, tracks, fal, seen, applied, orphans, crashes>>,
         todo' \subseteq todo,
         \A i \in Jobs : Posted(i, "debit_capture")' =>
            Posted(i, "debit_capture") \/ Posted(i, "debit_reserve")
  PROVE  GenInv'
<1>1. task' \in [Tasks -> Task] /\ LocalsHold'
  BY OneTask
<1>2. GenTypeOK'
  BY <1>1 DEF GenInv, GenTypeOK, WalletGrows
<1>3. \A i \in Jobs :
        /\ Posted(i, "debit_capture") => Posted(i, "debit_capture")'
        /\ Posted(i, "debit_reserve") => Posted(i, "debit_reserve")'
  BY RefTypes, KindTypes DEF WalletGrows
<1>4. PaidBeforeDelivered' /\ FinalizeIsLast'
  BY <1>3 DEF GenInv, PaidBeforeDelivered, FinalizeIsLast, Terminal
<1>5. WorkIsHeld'
  BY <1>3 DEF GenInv, WorkIsHeld
<1> QED
  BY <1>1, <1>2, <1>4, <1>5 DEF GenInv

LEMMA ReserveTokensStep ==
  ASSUME GenInv, NEW j \in Jobs, ReserveTokens(j)
  PROVE  GenInv'
<1>1. /\ j \in Tasks /\ j \notin Hooks
      /\ task[j] \in Task /\ task[j].pc = "reserve" /\ JobOf(j) = j
      /\ task[j].pc \notin NoJobPCs
      /\ UNCHANGED <<job, tracks, fal, seen, applied, todo, orphans, crashes>>
  BY TaskNames, NamesAssumption, RunningTask
     DEF ReserveTokens, At, NoJobPCs, LocalsOf
<1>2. CASE Reserve(Owner[j], Price[j], j) /\ GoTo(j, "submit")
  <2>1. /\ JobCall(j)
        /\ Post(Owner[j], j, "debit_reserve", -Price[j], -Price[j], Price[j], 0)
        /\ Price[j] \in Nat
    BY <1>2, RefTypes DEF JobCall, Reserve
  <2>2. -Price[j] \in Int /\ 0 \in Nat
    BY <2>1
  <2>3. /\ WalletGrows
        /\ Posted(j, "debit_reserve")'
        /\ \A i \in Jobs, other \in Kinds :
             <<i, other>> # <<j, "debit_reserve">> /\ Posted(i, other)' =>
               Posted(i, other)
    BY <2>1, <2>2, KindTypes, JobCallWrites
  <2>4. PICK x \in Task : /\ task' = [task EXCEPT ![j] = x] /\ task'[j] = x
                          /\ x.pc = "submit" /\ x.job = task[j].job
    BY <1>1, <1>2, GoToStep DEF PCs
  <2>5. LocalsOf(j)'
    BY <1>1, <2>3, <2>4 DEF LocalsOf, JobOf, At, NoJobPCs
  <2>6. \A i \in Jobs : Posted(i, "debit_capture")' => Posted(i, "debit_capture")
    BY <2>3, KindTypes
  <2> QED
    BY <1>1, <2>3, <2>4, <2>5, <2>6, WalletUseStep
<1>3. CASE ReserveRefused(Owner[j], Price[j], j) /\ Return(j)
  BY <1>1, <1>3, ReturnStep, LocalStep DEF ReserveRefused, GenInv, GenTypeOK
<1> QED
  BY <1>2, <1>3 DEF ReserveTokens

LEMMA ReleaseHoldStep ==
  ASSUME GenInv, NEW t \in Tasks, ReleaseHold(t)
  PROVE  GenInv'
<1> DEFINE j == JobOf(t)
<1>1. /\ task[t].pc = "release" /\ LocalsOf(t)
      /\ j \in Jobs
      /\ GoTo(t, "markfailed")
      /\ UNCHANGED <<job, tracks, fal, seen, applied, todo, orphans, crashes>>
  BY RunningTask DEF ReleaseHold, At, NoJobPCs
<1>2. PICK x \in Task : /\ task' = [task EXCEPT ![t] = x] /\ task'[t] = x
                        /\ x.pc = "markfailed" /\ x.job = task[t].job
                        /\ x.event = task[t].event
  BY <1>1, GoToStep DEF PCs
<1>3. LocalsOf(t)'
  BY <1>1, <1>2 DEF LocalsOf, JobOf, At, NoJobPCs, UnheldPCs
<1>4. CASE Release(Owner[j], Price[j], j)
  <2> DEFINE back == Least(Price[j], wallet[Owner[j]].reserved)
  <2>1. /\ JobCall(j)
        /\ Post(Owner[j], j, "credit_release", back, back, -back, 0)
    BY <1>4 DEF JobCall, Release
  <2>2. back \in Nat /\ back \in Int /\ 0 \in Nat
    <3>1. /\ Price[j] \in Nat /\ wallet[Owner[j]].reserved \in Nat
      BY <1>1, RefTypes, BalanceType DEF GenInv, GenTypeOK
    <3>2. back \in Nat
      BY <3>1, LeastType
    <3> QED
      BY <3>2
  <2> HIDE DEF back
  <2>3. /\ WalletGrows
        /\ \A i \in Jobs, other \in Kinds :
             <<i, other>> # <<j, "credit_release">> /\ Posted(i, other)' =>
               Posted(i, other)
    BY <1>1, <2>1, <2>2, KindTypes, JobCallWrites
  <2>4. \A i \in Jobs : Posted(i, "debit_capture")' => Posted(i, "debit_capture")
    BY <2>3, KindTypes
  <2> QED
    BY <1>1, <1>2, <1>3, <2>3, <2>4, WalletUseStep
<1>5. CASE Duplicate(j, "credit_release")
  BY <1>1, <1>2, <1>3, <1>5, LocalStep DEF Duplicate, GenInv, GenTypeOK
<1> QED
  BY <1>4, <1>5 DEF ReleaseHold

LEMMA CaptureTokensStep ==
  ASSUME GenInv, NEW t \in Tasks, CaptureTokens(t)
  PROVE  GenInv'
<1> PICK j \in Jobs : j = JobOf(t)
  BY RunningTask DEF CaptureTokens, At, NoJobPCs
<1>1. /\ task[t].pc = "finalize" /\ LocalsOf(t)
      /\ task[t].pc \notin NoJobPCs
      /\ Price[j] \in Nat
      /\ Posted(j, "debit_reserve")
      /\ UNCHANGED <<job, tracks, fal, seen, applied, orphans, crashes>>
  BY RunningTask, RefTypes
     DEF CaptureTokens, At, NoJobPCs, UnheldPCs, LocalsOf
<1>2. ASSUME NEW n \in 1 .. Price[j],
             \/ Capture(Owner[j], n, Price[j], j)
             \/ Duplicate(j, "debit_capture"),
             task' = [task EXCEPT ![t] = [Only(t, "commit") EXCEPT !.captured = n]],
             UNCHANGED todo
      PROVE  GenInv'
  <2> DEFINE o == Only(t, "commit")
             x == [o EXCEPT !.captured = n]
  <2>1. n \in Nat /\ n \in 0 .. Price[j] /\ -n \in Int
    BY <1>1
  <2>2. o \in Task /\ o.pc = "commit" /\ o.job = j /\ o.event = task[t].event
    BY OnlyTask DEF PCs
  <2> HIDE DEF o
  <2>3. x \in Task /\ x.pc = "commit" /\ x.job = j /\ x.event = task[t].event
    BY <2>1, <2>2 DEF Task
  <2>4. task' = [task EXCEPT ![t] = x] /\ task'[t] = x
    BY <1>2 DEF GenInv, GenTypeOK, o
  <2> HIDE DEF x
  <2>5. /\ WalletGrows
        /\ Posted(j, "debit_capture")'
        /\ \A i \in Jobs : Posted(i, "debit_capture")' =>
             Posted(i, "debit_capture") \/ i = j
    <3>1. CASE Capture(Owner[j], n, Price[j], j)
      <4>1. /\ JobCall(j)
            /\ Post(Owner[j], j, "debit_capture", -n, Price[j] - n, -Price[j],
                    Price[j])
        BY <2>1, <3>1 DEF JobCall, Capture
      <4>2. /\ WalletGrows
            /\ Posted(j, "debit_capture")'
            /\ \A i \in Jobs, other \in Kinds :
                 <<i, other>> # <<j, "debit_capture">> /\ Posted(i, other)' =>
                   Posted(i, other)
        BY <1>1, <2>1, <4>1, KindTypes, JobCallWrites
      <4> QED
        BY <4>2, KindTypes
    <3>2. CASE Duplicate(j, "debit_capture")
      BY <3>2, UnchangedGrows
         DEF Duplicate, GenInv, GenTypeOK, Posted, walletVars
    <3> QED
      BY <1>2, <3>1, <3>2
  <2>6. Posted(j, "debit_reserve")'
    BY <1>1, <2>5, RefTypes, KindTypes DEF WalletGrows
  <2>7. LocalsOf(t)'
    BY <1>1, <2>3, <2>4, <2>5, <2>6
       DEF LocalsOf, JobOf, At, NoJobPCs, UnheldPCs
  <2> QED
    BY <1>1, <1>2, <2>3, <2>4, <2>5, <2>7, WalletUseStep
<1>3. CASE CaptureAborts(Owner[j], Price[j], j) /\ Raise(t)
  BY <1>1, <1>3, RaiseStep, LocalStep DEF CaptureAborts, GenInv, GenTypeOK
<1>4. Charge[j] \subseteq 1 .. Price[j]
  BY ChargeAssumption
<1> QED
  BY <1>2, <1>3, <1>4 DEF CaptureTokens

-----------------------------------------------------------------------------
(* Delivery, crashes and the environment. *)

LEMMA CommitTrackStep ==
  ASSUME GenInv, NEW t \in Tasks, CommitTrack(t)
  PROVE  GenInv'
<1> PICK j \in Jobs : j = JobOf(t)
  BY RunningTask DEF CommitTrack, At, NoJobPCs
<1>1. /\ task[t] \in Task
      /\ task[t].pc \notin NoJobPCs
      /\ job[j] \in Job
      /\ Posted(j, "debit_capture")
      /\ UNCHANGED <<walletVars, fal, seen, applied, orphans, crashes>>
  BY RunningTask DEF CommitTrack, At, NoJobPCs, LocalsOf, RowOf
<1>2. CASE /\ tracks' = tracks \cup {j}
           /\ MarkSucceeded(j, task[t].captured)
           /\ Return(t)
           /\ UNCHANGED todo
  <2> DEFINE row == [job[j] EXCEPT !.status = "succeeded",
                                   !.stage = "finalize",
                                   !.captured = task[t].captured]
  <2>1. row \in Job /\ row.status = "succeeded"
    BY <1>1 DEF Job, Task, Statuses, Stages
  <2>2. job' = [job EXCEPT ![j] = row] /\ job'[j] = row
    BY <1>2 DEF MarkSucceeded, GenInv, GenTypeOK
  <2> HIDE DEF row
  <2>3. WalletGrows
    BY <1>1, UnchangedGrows DEF GenInv, GenTypeOK
  <2>4. task' \in [Tasks -> Task] /\ LocalsHold'
    BY <1>1, <1>2, <2>3, ReturnStep, OneTask
  <2>5. GenTypeOK'
    BY <1>1, <1>2, <2>1, <2>2, <2>3, <2>4 DEF GenInv, GenTypeOK, WalletGrows
  <2>6. \A i \in Jobs : i # j => job'[i] = job[i]
    BY <2>2 DEF GenInv, GenTypeOK
  <2>7. PaidBeforeDelivered' /\ FinalizeIsLast' /\ WorkIsHeld'
    BY <1>1, <1>2, <2>1, <2>2, <2>6
       DEF GenInv, PaidBeforeDelivered, FinalizeIsLast, WorkIsHeld, Terminal,
           Posted, walletVars
  <2> QED
    BY <2>4, <2>5, <2>7 DEF GenInv
<1>3. CASE Raise(t) /\ UNCHANGED <<job, tracks>>
  BY <1>1, <1>3, RaiseStep, LocalStep DEF GenInv, GenTypeOK
<1> QED
  BY <1>2, <1>3 DEF CommitTrack

LEMMA CrashStep ==
  ASSUME GenInv, Crash
  PROVE  GenInv'
<1> DEFINE lost == [Idle EXCEPT !.pc = "dead"]
<1>1. /\ Idle \in Task /\ Idle.pc = "idle"
      /\ lost \in Task /\ lost.pc = "dead"
  BY IdleTask DEF Idle, Task, PCs
<1>2. \A t \in Tasks : \/ task'[t] = lost /\ t \in Jobs
                       \/ task'[t] = Idle
  BY DEF Crash
<1> HIDE DEF lost
<1>3. task' \in [Tasks -> Task]
  BY <1>1, <1>2 DEF Crash
<1>4. \A t \in Jobs : t \notin Hooks
  BY NamesAssumption
<1>5. LocalsHold'
  BY <1>1, <1>2, <1>4 DEF LocalsHold, LocalsOf, At, NoJobPCs, UnheldPCs
<1>6. /\ UNCHANGED <<walletVars, job, tracks, fal, seen, applied>>
      /\ todo' = {} /\ orphans' \subseteq Jobs
      /\ crashes' \in 0 .. MaxCrashes
  BY SwitchAssumption DEF Crash, GenInv, GenTypeOK
<1>7. GenTypeOK'
  BY <1>3, <1>6 DEF GenInv, GenTypeOK, WalletTypeOK, walletVars
<1>8. PaidBeforeDelivered' /\ FinalizeIsLast' /\ WorkIsHeld'
  BY <1>6 DEF GenInv, PaidBeforeDelivered, FinalizeIsLast, WorkIsHeld,
              Terminal, Posted, walletVars
<1> QED
  BY <1>5, <1>7, <1>8 DEF GenInv

LEMMA RecoverOrphanStep ==
  ASSUME GenInv, NEW j \in Jobs, RecoverOrphan(j)
  PROVE  GenInv'
<1> DEFINE x == [Idle EXCEPT !.pc = "release", !.job = j]
<1>1. Sweep \in Tasks /\ Sweep \notin Jobs /\ Sweep \notin Hooks
  BY TaskNames
<1>2. x \in Task /\ x.pc = "release" /\ x.job = j
  BY IdleTask DEF Idle, Task, PCs
<1>3. task' = [task EXCEPT ![Sweep] = x] /\ task'[Sweep] = x
  BY <1>1 DEF RecoverOrphan, GenInv, GenTypeOK
<1> HIDE DEF x
<1>4. LocalsOf(Sweep)'
  BY <1>1, <1>2, <1>3 DEF LocalsOf, JobOf, At, NoJobPCs, UnheldPCs
<1> QED
  BY <1>1, <1>2, <1>3, <1>4, LocalStep DEF RecoverOrphan, GenInv, GenTypeOK

LEMMA FinishSubmissionStep ==
  ASSUME GenInv, NEW j \in Jobs, NEW kind \in SubmitKinds,
         NEW outcome \in Outcomes, FinishSubmission(j, kind, outcome)
  PROVE  GenInv'
<1>1. /\ fal' \in [Jobs -> [SubmitKinds -> AllOutcomes \cup {"none", "running"}]]
      /\ \A i \in Jobs, k \in SubmitKinds :
           fal'[i][k] # "none" => fal[i][k] # "none"
  BY OutcomesAssumption
     DEF FinishSubmission, GenInv, GenTypeOK, AllOutcomes
<1>2. UNCHANGED <<walletVars, job, tracks, seen, applied, task, todo,
                  orphans, crashes>>
  BY DEF FinishSubmission
<1>3. GenTypeOK'
  BY <1>1, <1>2 DEF GenInv, GenTypeOK, WalletTypeOK, walletVars
<1>4. LocalsHold'
  BY <1>2 DEF GenInv, LocalsHold, LocalsOf, JobOf, At, Posted, walletVars
<1>5. PaidBeforeDelivered' /\ FinalizeIsLast'
  BY <1>2 DEF GenInv, PaidBeforeDelivered, FinalizeIsLast, Terminal, Posted,
              walletVars
<1>6. WorkIsHeld'
  BY <1>1, <1>2 DEF GenInv, WorkIsHeld, Posted, walletVars
<1> QED
  BY <1>3, <1>4, <1>5, <1>6 DEF GenInv

\* The billing side moves tokens and never posts under a job.
LEMMA OtherWalletStep ==
  ASSUME GenInv, WalletGrows, UNCHANGED genVars,
         \A i \in Jobs : Posted(i, "debit_capture")' => Posted(i, "debit_capture")
  PROVE  GenInv'
<1>1. \A i \in Jobs :
        /\ Posted(i, "debit_capture") => Posted(i, "debit_capture")'
        /\ Posted(i, "debit_reserve") => Posted(i, "debit_reserve")'
  BY RefTypes, KindTypes DEF WalletGrows
<1>2. GenTypeOK'
  BY DEF GenInv, GenTypeOK, WalletGrows, genVars
<1>3. ASSUME NEW t \in Tasks
      PROVE  LocalsOf(t)'
  <2>1. /\ LocalsOf(t) /\ UNCHANGED <<task, seen>>
        /\ task[t].pc \notin NoJobPCs => JobOf(t) \in Jobs
    BY DEF GenInv, LocalsHold, LocalsOf, genVars
  <2> QED
    BY <1>1, <2>1 DEF LocalsOf, JobOf, At, NoJobPCs, UnheldPCs
<1>4. LocalsHold'
  BY <1>3 DEF LocalsHold
<1>5. PaidBeforeDelivered' /\ FinalizeIsLast' /\ WorkIsHeld'
  BY <1>1 DEF GenInv, PaidBeforeDelivered, FinalizeIsLast, WorkIsHeld,
              Terminal, genVars
<1> QED
  BY <1>2, <1>4, <1>5 DEF GenInv

LEMMA GrantStep ==
  ASSUME GenInv, NEW u \in Users, NEW n \in Amounts, NEW r \in Credits,
         Grant(u, n, r)
  PROVE  GenInv'
<1> DEFINE kind == "credit_subscription_grant"
<1>1. /\ WalletTypeOK /\ n \in Nat /\ n \in Int /\ 0 \in Nat /\ r \in Refs
      /\ kind \in GrantKinds /\ kind \in Kinds
  BY RefTypes DEF GenInv, GenTypeOK, GrantKinds, Kinds
<1>2. /\ Credit(u, n, kind, r) /\ Post(u, r, kind, n, n, 0, 0)
      /\ UNCHANGED genVars
  BY DEF Grant, Credit
<1>3. WalletTypeOK' /\ JournalStep
  BY <1>1, <1>2, CreditStep
<1>4. \A k \in Keys : k # <<r, kind>> => ledger'[k] = ledger[k]
  BY <1>1, <1>2, <1>3, PostWrites
<1>5. \A i \in Jobs : Posted(i, "debit_capture")' => Posted(i, "debit_capture")
  BY <1>4, RefTypes, KindTypes DEF Posted, Keys
<1> QED
  BY <1>2, <1>3, <1>5, JournalGrows, OtherWalletStep

LEMMA FreezeStep ==
  ASSUME GenInv, NEW u \in Users, NEW frozen \in Freezes, Freeze(u, frozen)
  PROVE  GenInv'
<1>1. WalletTypeOK /\ frozen \in BOOLEAN
  BY SwitchAssumption DEF GenInv, GenTypeOK
<1>2. SetFrozen(u, frozen) /\ UNCHANGED genVars /\ ledger' = ledger
  BY DEF Freeze, SetFrozen
<1>3. WalletTypeOK' /\ JournalStep
  BY <1>1, <1>2, SetFrozenStep
<1> QED
  BY <1>2, <1>3, JournalGrows, OtherWalletStep DEF Posted

-----------------------------------------------------------------------------
(* The invariant, and what follows from it. *)

LEMMA InitInv == GenInit => GenInv
<1> SUFFICES ASSUME GenInit PROVE GenInv
  OBVIOUS
<1>1. WalletTypeOK
  BY WalletInitType DEF GenInit
<1>2. NoJob \in Job /\ NoJob.status = "absent" /\ NoJob.stage = "none"
  BY DEF NoJob, Job, Statuses, Stages, MusicKinds
<1>3. Idle \in Task /\ Idle.pc = "idle"
  BY IdleTask DEF Idle
<1>4. GenTypeOK
  BY <1>1, <1>2, <1>3, SwitchAssumption DEF GenInit, GenTypeOK
<1>5. LocalsHold
  BY <1>3 DEF GenInit, LocalsHold, LocalsOf, At, NoJobPCs, UnheldPCs
<1>6. FinalizeIsLast /\ PaidBeforeDelivered
  BY <1>2 DEF GenInit, FinalizeIsLast, PaidBeforeDelivered
<1>7. \A j \in Jobs : ~Posted(j, "debit_capture")
  BY RefTypes, KindTypes DEF GenInit, WalletInit, Posted, Keys
<1>8. WorkIsHeld
  BY <1>7 DEF GenInit, WorkIsHeld
<1> QED
  BY <1>4, <1>5, <1>6, <1>8 DEF GenInv

LEMMA StutterInv ==
  ASSUME GenInv, UNCHANGED vars
  PROVE  GenInv'
<1>1. todo' \subseteq Snapshot
  BY DEF vars, genVars, GenInv, GenTypeOK
<1> QED
  BY <1>1, IdleStep DEF vars, genVars

LEMMA PipelineInv ==
  ASSUME GenInv, NEW t \in Tasks, PipelineStep(t)
  PROVE  GenInv'
  BY AdvanceStep, PersistRuntimeStep, SubmitRefineStep, CloneVoiceStep,
     SaveClonedVoiceStep, SubmitSpeechStep, RecordSubmissionStep,
     FinalizeWithoutAudioStep, CaptureTokensStep, CommitTrackStep, FailStep,
     MarkFallbackStep, ReleaseHoldStep, FailJobStep
     DEF PipelineStep

LEMMA StepInv ==
  ASSUME GenInv, [GenNext]_vars
  PROVE  GenInv'
<1>1. ASSUME NEW j \in Jobs, CreateJob(j)
      PROVE  GenInv'
  BY <1>1, LookUpKeyStep, AddJobStep, ReserveTokensStep, SubmitMusicStep
     DEF CreateJob
<1>2. ASSUME NEW t \in Tasks, PipelineStep(t)
      PROVE  GenInv'
  BY <1>2, PipelineInv
<1>3. ASSUME NEW h \in Hooks, Webhook(h)
      PROVE  GenInv'
  BY <1>3, ClaimEventStep, LookUpRequestStep, MarkAppliedStep DEF Webhook
<1>4. CASE Poll
  BY <1>4, FetchActiveJobsStep, PollPendingStep, PollFinishedStep DEF Poll
<1>5. CASE Crash
  BY <1>5, CrashStep
<1>6. ASSUME NEW j \in Jobs, RecoverOrphan(j)
      PROVE  GenInv'
  BY <1>6, RecoverOrphanStep
<1>7. CASE Environment
  BY <1>7, FinishSubmissionStep, GrantStep, FreezeStep DEF Environment
<1>8. CASE UNCHANGED vars
  BY <1>8, StutterInv
<1> QED
  BY <1>1, <1>2, <1>3, <1>4, <1>5, <1>6, <1>7, <1>8 DEF GenNext

LEMMA AlwaysInv == GenSpec => []GenInv
<1>1. GenInv /\ [GenNext]_vars => GenInv'
  BY StepInv
<1> QED
  BY <1>1, InitInv, PTL DEF GenSpec

\* Every variable keeps its type: no balance goes below zero, a job is only
\* ever advanced from an asynchronous stage, and only claimed events are
\* marked applied, for every number of jobs, webhooks and crashes.
THEOREM GenerationType == GenSpec => []GenTypeOK
<1>1. GenInv => GenTypeOK
  BY DEF GenInv
<1> QED
  BY <1>1, AlwaysInv, PTL

\* A delivered track was charged for and a succeeded job has its track: the
\* order in which Pipeline._finalize captures, inserts and marks protects it
\* against every interleaving of webhooks, poller and crashes.
THEOREM DeliveryIsPaid == GenSpec => []PaidBeforeDelivered
<1>1. GenInv => PaidBeforeDelivered
  BY DEF GenInv
<1> QED
  BY <1>1, AlwaysInv, PTL

\* The provider works on a job, and the job is charged, only after its
\* tokens were set aside (create_job before Pipeline.start).
THEOREM WorkNeedsHold == GenSpec => []WorkIsHeld
<1>1. GenInv => WorkIsHeld
  BY DEF GenInv
<1> QED
  BY <1>1, AlwaysInv, PTL

\* What a coroutine of the pipeline knew before an await is still so after
\* it: its job, the hold, the charge and the event it claimed.
THEOREM LocalsStayTrue == GenSpec => []LocalsHold
<1>1. GenInv => LocalsHold
  BY DEF GenInv
<1> QED
  BY <1>1, AlwaysInv, PTL

-----------------------------------------------------------------------------
(* Generation implements the wallet. *)

\* What a step does with the wallet.
WalletUse ==
  \/ \E j \in Jobs : JobCall(j)
  \/ \E u \in Users, n \in Amounts, r \in Credits :
       Credit(u, n, "credit_subscription_grant", r)
  \/ \E u \in Users, frozen \in BOOLEAN : SetFrozen(u, frozen)
  \/ UNCHANGED walletVars

LEMMA WalletUsed ==
  ASSUME GenInv, [GenNext]_vars
  PROVE  WalletUse
<1>1. ASSUME NEW j \in Jobs, CreateJob(j)
      PROVE  WalletUse
  <2>1. CASE ReserveTokens(j)
    <3>1. JobCall(j)
      BY <2>1 DEF ReserveTokens, JobCall
    <3> QED
      BY <3>1 DEF WalletUse
  <2>2. CASE LookUpKey(j) \/ AddJob(j) \/ SubmitMusic(j)
    BY <2>2 DEF LookUpKey, AddJob, SubmitMusic, WalletUse, walletVars
  <2> QED
    BY <1>1, <2>1, <2>2 DEF CreateJob
<1>2. ASSUME NEW t \in Tasks, PipelineStep(t)
      PROVE  WalletUse
  <2>1. CASE CaptureTokens(t)
    <3>1. JobOf(t) \in Jobs /\ Price[JobOf(t)] \in Nat
      BY <2>1, RunningTask, RefTypes DEF CaptureTokens, At, NoJobPCs
    <3>2. Charge[JobOf(t)] \subseteq 0 .. Price[JobOf(t)]
      BY <3>1, ChargeAssumption
    <3>3. JobCall(JobOf(t))
      BY <2>1, <3>2 DEF CaptureTokens, JobCall
    <3> QED
      BY <3>1, <3>3 DEF WalletUse
  <2>2. CASE ReleaseHold(t)
    <3>1. JobOf(t) \in Jobs
      BY <2>2, RunningTask DEF ReleaseHold, At, NoJobPCs
    <3>2. JobCall(JobOf(t))
      BY <2>2 DEF ReleaseHold, JobCall
    <3> QED
      BY <3>1, <3>2 DEF WalletUse
  <2>3. CASE ~CaptureTokens(t) /\ ~ReleaseHold(t)
    BY <1>2, <2>3
       DEF PipelineStep, Advance, PersistRuntime, SubmitRefine, CloneVoice,
           SaveClonedVoice, SubmitSpeech, RecordSubmission,
           FinalizeWithoutAudio, CommitTrack, Fail, MarkFallback, FailJob,
           WalletUse, walletVars
  <2> QED
    BY <2>1, <2>2, <2>3
<1>3. ASSUME NEW h \in Hooks, Webhook(h)
      PROVE  WalletUse
  BY <1>3 DEF Webhook, ClaimEvent, LookUpRequest, MarkApplied, WalletUse,
              walletVars
<1>4. CASE Poll \/ Crash \/ \E j \in Jobs : RecoverOrphan(j)
  BY <1>4 DEF Poll, FetchActiveJobs, PollPending, PollFinished, Crash,
              RecoverOrphan, WalletUse, walletVars
<1>5. CASE Environment
  <2>1. ASSUME NEW j \in Jobs, NEW kind \in SubmitKinds,
               NEW outcome \in Outcomes, FinishSubmission(j, kind, outcome)
        PROVE  WalletUse
    BY <2>1 DEF FinishSubmission, WalletUse, walletVars
  <2>2. ASSUME NEW u \in Users, NEW n \in Amounts, NEW r \in Credits,
               Grant(u, n, r)
        PROVE  WalletUse
    BY <2>2 DEF Grant, WalletUse
  <2>3. ASSUME NEW u \in Users, NEW frozen \in Freezes, Freeze(u, frozen)
        PROVE  WalletUse
    BY <2>3, SwitchAssumption DEF Freeze, WalletUse
  <2> QED
    BY <1>5, <2>1, <2>2, <2>3 DEF Environment
<1>6. CASE UNCHANGED vars
  BY <1>6 DEF vars, WalletUse
<1> QED
  BY <1>1, <1>2, <1>3, <1>4, <1>5, <1>6 DEF GenNext

LEMMA UsesWallet ==
  ASSUME GenInv, [GenNext]_vars
  PROVE  [WalletNext]_walletVars
<1>1. WalletUse
  BY WalletUsed
<1>2. ASSUME NEW u \in Users, NEW n \in Amounts, NEW r \in Credits,
             Credit(u, n, "credit_subscription_grant", r)
      PROVE  BillingCall(u, n, r)
  BY <1>2 DEF BillingCall, GrantKinds
<1> QED
  BY <1>1, <1>2 DEF WalletUse, WalletNext

\* The jobs, the webhooks, the poller and the sweep touch the wallet only
\* through its methods, so whatever holds of Wallet holds of Generation.
THEOREM GenerationUsesWallet == GenSpec => WalletSpec
<1>1. GenInit => WalletInit
  BY DEF GenInit
<1>2. GenInv /\ [GenNext]_vars => [WalletNext]_walletVars
  BY UsesWallet
<1> QED
  BY <1>1, <1>2, AlwaysInv, PTL DEF GenSpec, WalletSpec

\* The journal stays append-only and exact under every interleaving of the
\* pipeline tasks (wallet_service.py under generation_service.py, pipeline.py
\* and recovery.py).
THEOREM GenerationJournaled == GenSpec => Journaled
  BY GenerationUsesWallet, WalletJournaled

\* The balances can be rebuilt from the ledger at every moment of every
\* interleaving of the pipeline (token_wallets against token_ledger).
THEOREM GenerationRebuilds == GenSpec => []BalancesRebuild
  BY GenerationUsesWallet, WalletRebuilds

-----------------------------------------------------------------------------
(* One job for a key.  That only one insert succeeds is not enough: a task  *)
(* that writes a row must have one.  It has, for it holds the tokens of its *)
(* job, runs after the request made the row, or repairs one the sweep read. *)

Made(j) == job[j].status # "absent"

\* The places where a task has a row and may hold no tokens.
RowPCs == {"reserve", "release", "markfailed"}

RowsExist ==
  /\ \A j \in Jobs : Posted(j, "debit_reserve") => Made(j)
  /\ \A t \in Tasks : task[t].pc \in RowPCs => Made(JobOf(t))
  /\ \A j \in orphans : Made(j)

\* A step that writes a row writes one that is there, or makes the first one
\* of its key.
RowsKept == \A j \in Jobs : Made(j)' <=> Made(j)

LEMMA TaskHasRow ==
  ASSUME GenInv, RowsExist, NEW t \in Tasks,
         task[t].pc \notin NoJobPCs \cup {"add", "ack"}
  PROVE  JobOf(t) \in Jobs /\ Made(JobOf(t))
<1>1. JobOf(t) \in Jobs /\ LocalsOf(t)
  BY RunningTask
<1>2. CASE task[t].pc \in RowPCs
  BY <1>1, <1>2 DEF RowsExist
<1>3. CASE task[t].pc \notin RowPCs
  <2>1. Posted(JobOf(t), "debit_reserve")
    BY <1>1, <1>3 DEF LocalsOf, UnheldPCs, RowPCs
  <2> QED
    BY <1>1, <2>1 DEF RowsExist
<1> QED
  BY <1>1, <1>2, <1>3

\* What every step but AddJob does to the rows.
LEMMA PipelineKeepsRows ==
  ASSUME GenInv, RowsExist, NEW t \in Tasks, PipelineStep(t)
  PROVE  RowsKept
<1>1. job \in [Jobs -> Job]
  BY DEF GenInv, GenTypeOK
<1>2. task[t].pc \in {"persist", "saveclone", "setstage", "finalize", "commit",
                      "fallback", "markfailed"} =>
        JobOf(t) \in Jobs /\ Made(JobOf(t))
  BY TaskHasRow DEF NoJobPCs
<1>3. CASE PersistRuntime(t)
  BY <1>1, <1>2, <1>3 DEF PersistRuntime, At, RowsKept, Made, Job
<1>4. CASE SaveClonedVoice(t)
  BY <1>1, <1>2, <1>4 DEF SaveClonedVoice, At, RowsKept, Made, Job
<1>5. CASE RecordSubmission(t)
  BY <1>1, <1>2, <1>5 DEF RecordSubmission, SetCurrentStage, At, RowsKept, Made, Job
<1>6. CASE FinalizeWithoutAudio(t)
  BY <1>1, <1>2, <1>6 DEF FinalizeWithoutAudio, MarkFailed, At, RowsKept, Made, Job
<1>7. CASE CommitTrack(t)
  BY <1>1, <1>2, <1>7 DEF CommitTrack, MarkSucceeded, At, RowsKept, Made, Job
<1>8. CASE MarkFallback(t)
  BY <1>1, <1>2, <1>8 DEF MarkFallback, At, RowsKept, Made, Job
<1>9. CASE FailJob(t)
  BY <1>1, <1>2, <1>9 DEF FailJob, MarkFailed, At, RowsKept, Made, Job
<1>10. CASE \/ Advance(t) \/ SubmitRefine(t) \/ CloneVoice(t)
            \/ SubmitSpeech(t) \/ CaptureTokens(t) \/ Fail(t) \/ ReleaseHold(t)
  BY <1>10 DEF Advance, SubmitRefine, CloneVoice, SubmitSpeech, CaptureTokens,
               Fail, ReleaseHold, RowsKept, Made
<1> QED
  BY <1>3, <1>4, <1>5, <1>6, <1>7, <1>8, <1>9, <1>10 DEF PipelineStep

LEMMA StepKeepsRows ==
  ASSUME GenInv, RowsExist, [GenNext]_vars,
         \A j \in Jobs : ~(AddJob(j) /\ job' # job)
  PROVE  RowsKept
<1>1. ASSUME NEW j \in Jobs, CreateJob(j)
      PROVE  job' = job
  BY <1>1 DEF CreateJob, LookUpKey, AddJob, ReserveTokens, SubmitMusic
<1>2. ASSUME NEW t \in Tasks, PipelineStep(t)
      PROVE  RowsKept
  BY <1>2, PipelineKeepsRows
<1>3. ASSUME NEW h \in Hooks, Webhook(h)
      PROVE  job' = job
  BY <1>3 DEF Webhook, ClaimEvent, LookUpRequest, MarkApplied
<1>4. CASE Poll \/ Crash \/ \E j \in Jobs : RecoverOrphan(j)
  BY <1>4 DEF Poll, FetchActiveJobs, PollPending, PollFinished, Crash,
              RecoverOrphan, RowsKept, Made
<1>5. CASE Environment
  BY <1>5 DEF Environment, FinishSubmission, Grant, Freeze, genVars, RowsKept,
              Made
<1>6. CASE UNCHANGED vars
  BY <1>6 DEF vars, genVars, RowsKept, Made
<1> QED
  BY <1>1, <1>2, <1>3, <1>4, <1>5, <1>6 DEF GenNext, RowsKept, Made

\* AddJob makes a row only when no other of its key is there.
LEMMA AddJobRow ==
  ASSUME GenInv, NEW j \in Jobs, AddJob(j), job' # job
  PROVE  /\ Existing(j) = {}
         /\ Made(j)'
         /\ \A i \in Jobs \ {j} : Made(i)' <=> Made(i)
         /\ GoTo(j, "reserve")
         /\ UNCHANGED <<walletVars, orphans>>
<1>1. job \in [Jobs -> Job] /\ QueuedJob.status = "queued"
  BY DEF GenInv, GenTypeOK, QueuedJob, NoJob
<1>2. /\ Existing(j) = {}
      /\ job' = [job EXCEPT ![j] = QueuedJob]
      /\ GoTo(j, "reserve")
      /\ UNCHANGED <<walletVars, orphans>>
  BY DEF AddJob
<1> QED
  BY <1>1, <1>2 DEF Made

\* What the tasks need of a step that runs one of them.
LEMMA RowsExistStep ==
  ASSUME GenInv, RowsExist,
         NEW t \in Tasks, NEW x,
         task' = [task EXCEPT ![t] = x],
         x.pc \in RowPCs => x.job \in Jobs /\ job'[x.job].status # "absent",
         \A j \in Jobs : Made(j) => Made(j)',
         \A j \in Jobs : Posted(j, "debit_reserve")' =>
            Posted(j, "debit_reserve") \/ Made(j),
         orphans' \subseteq orphans
  PROVE  RowsExist'
<1>1. \A j \in Jobs : Posted(j, "debit_reserve")' => Made(j)'
  BY DEF RowsExist
<1>2. \A j \in orphans' : Made(j)'
  BY DEF RowsExist, GenInv, GenTypeOK
<1>3. ASSUME NEW s \in Tasks, task'[s].pc \in RowPCs
      PROVE  Made(JobOf(s))'
  <2>1. CASE s = t
    <3>1. task'[s] = x
      BY <2>1 DEF GenInv, GenTypeOK
    <3> QED
      BY <1>3, <3>1 DEF JobOf, Made
  <2>2. CASE s # t
    <3>1. task'[s] = task[s]
      BY <2>2 DEF GenInv, GenTypeOK
    <3>2. Made(JobOf(s)) /\ JobOf(s) \in Jobs
      BY <1>3, <3>1, RunningTask DEF RowsExist, RowPCs, NoJobPCs
    <3> QED
      BY <3>1, <3>2 DEF JobOf, Made
  <2> QED
    BY <2>1, <2>2
<1> QED
  BY <1>1, <1>2, <1>3 DEF RowsExist

\* A step that leaves the wallet alone posts nothing.
LEMMA NothingPosted ==
  ASSUME UNCHANGED walletVars
  PROVE  \A j \in Jobs : Posted(j, "debit_reserve")' => Posted(j, "debit_reserve")
  BY DEF Posted, walletVars

LEMMA CreateJobRows ==
  ASSUME GenInv, RowsExist, NEW j \in Jobs, CreateJob(j)
  PROVE  RowsExist'
<1>1. /\ j \in Tasks /\ task \in [Tasks -> Task]
      /\ task[j].pc \notin NoJobPCs => JobOf(j) = j
  BY TaskNames, RunningTask DEF GenInv, GenTypeOK, LocalsOf
<1>2. CASE LookUpKey(j)
  <2> DEFINE x == [Idle EXCEPT !.job = j,
                     !.pc = IF Existing(j) = {} THEN "add" ELSE "replied"]
  <2>1. x.pc \notin RowPCs
    BY DEF Idle, RowPCs
  <2>2. /\ task' = [task EXCEPT ![j] = x]
        /\ UNCHANGED <<walletVars, job, orphans>>
    BY <1>2 DEF LookUpKey
  <2> HIDE DEF x
  <2> QED
    BY <1>1, <2>1, <2>2, NothingPosted, RowsExistStep DEF Made
<1>3. CASE AddJob(j)
  <2>1. CASE job' # job
    <3>1. /\ Made(j)'
          /\ \A i \in Jobs : Made(i) => Made(i)'
          /\ GoTo(j, "reserve")
          /\ UNCHANGED <<walletVars, orphans>>
      BY <1>3, <2>1, AddJobRow
    <3>2. PICK x \in Task : /\ task' = [task EXCEPT ![j] = x]
                            /\ x.job = task[j].job
      BY <1>1, <3>1, GoToStep DEF PCs
    <3>3. x.job = j
      BY <1>1, <1>3, <3>2 DEF AddJob, At, NoJobPCs, JobOf
    <3> QED
      BY <1>1, <3>1, <3>2, <3>3, NothingPosted, RowsExistStep DEF Made
  <2>2. CASE job' = job
    <3>1. job \in [Jobs -> Job]
      BY DEF GenInv, GenTypeOK
    <3>2. CASE Return(j)
      <4>1. Returned(j) = [Idle EXCEPT !.pc = "replied"]
        BY DEF Returned
      <4>2. Returned(j).pc \notin RowPCs
        BY <4>1 DEF Idle, RowPCs
      <4> QED
        BY <1>1, <1>3, <2>2, <3>2, <4>2, NothingPosted, RowsExistStep
           DEF Made, Return, AddJob
    <3>3. CASE ~Return(j)
      <4>1. job' = [job EXCEPT ![j] = QueuedJob] /\ GoTo(j, "reserve")
        BY <1>3, <3>3 DEF AddJob
      <4>2. Made(j)
        BY <2>2, <3>1, <4>1 DEF Made, QueuedJob, NoJob
      <4>3. PICK x \in Task : /\ task' = [task EXCEPT ![j] = x]
                              /\ x.job = task[j].job
        BY <1>1, <4>1, GoToStep DEF PCs
      <4>4. x.job = j
        BY <1>1, <1>3, <4>3 DEF AddJob, At, NoJobPCs, JobOf
      <4> QED
        BY <1>1, <1>3, <2>2, <4>2, <4>3, <4>4, NothingPosted, RowsExistStep
           DEF Made, AddJob
    <3> QED
      BY <3>2, <3>3
  <2> QED
    BY <2>1, <2>2
<1>4. CASE ReserveTokens(j)
  <2>1. /\ task[j].pc = "reserve" /\ Made(j)
        /\ UNCHANGED <<job, orphans>>
    BY <1>1, <1>4 DEF ReserveTokens, At, RowsExist, RowPCs, NoJobPCs, JobOf
  <2>2. CASE Reserve(Owner[j], Price[j], j) /\ GoTo(j, "submit")
    <3>1. /\ JobCall(j)
          /\ Post(Owner[j], j, "debit_reserve", -Price[j], -Price[j], Price[j], 0)
          /\ -Price[j] \in Int /\ 0 \in Nat
      BY <2>2, RefTypes DEF JobCall, Reserve
    <3>2. \A i \in Jobs : Posted(i, "debit_reserve")' =>
            Posted(i, "debit_reserve") \/ i = j
      BY <3>1, KindTypes, JobCallWrites
    <3>3. PICK x \in Task : task' = [task EXCEPT ![j] = x] /\ x.pc = "submit"
      BY <1>1, <2>2, GoToStep DEF PCs
    <3> QED
      BY <1>1, <2>1, <3>2, <3>3, RowsExistStep DEF Made, RowPCs
  <2>3. CASE ReserveRefused(Owner[j], Price[j], j) /\ Return(j)
    <3>1. Returned(j) = [Idle EXCEPT !.pc = "replied"]
      BY DEF Returned
    <3>2. Returned(j).pc \notin RowPCs
      BY <3>1 DEF Idle, RowPCs
    <3> QED
      BY <1>1, <2>1, <2>3, <3>2, NothingPosted, RowsExistStep
         DEF Made, Return, ReserveRefused
  <2> QED
    BY <1>4, <2>2, <2>3 DEF ReserveTokens
<1>5. CASE SubmitMusic(j)
  <2>1. /\ Made(j) /\ JobOf(j) = j
        /\ UNCHANGED <<walletVars, job, orphans>>
    BY <1>1, <1>5, TaskHasRow DEF SubmitMusic, At, NoJobPCs
  <2>2. CASE GoTo(j, "release")
    <3>1. PICK x \in Task : /\ task' = [task EXCEPT ![j] = x]
                            /\ x.job = task[j].job
      BY <1>1, <2>2, GoToStep DEF PCs
    <3> QED
      BY <1>1, <2>1, <3>1, NothingPosted, RowsExistStep DEF Made, JobOf
  <2>3. CASE task' = [task EXCEPT ![j].pc = "setstage", ![j].rid = "music"]
    <3> DEFINE x == [task[j] EXCEPT !.pc = "setstage", !.rid = "music"]
    <3>1. task' = [task EXCEPT ![j] = x] /\ x.pc = "setstage"
      BY <1>1, <2>3 DEF Task
    <3> HIDE DEF x
    <3> QED
      BY <1>1, <2>1, <3>1, NothingPosted, RowsExistStep DEF Made, RowPCs
  <2> QED
    BY <1>5, <2>2, <2>3 DEF SubmitMusic
<1> QED
  BY <1>2, <1>3, <1>4, <1>5 DEF CreateJob

\* A task that leaves the pipeline needs no row any more.
LEMMA LeavingNeedsNoRow ==
  ASSUME NEW t \in Tasks
  PROVE  /\ Returned(t).pc \notin RowPCs
         /\ Idle.pc \notin RowPCs
         /\ \A pc \in PCs : Only(t, pc).pc = pc /\ Only(t, pc).job = JobOf(t)
<1>1. Idle.pc = "idle"
  BY DEF Idle
<1>2. \A pc \in PCs : Only(t, pc).pc = pc /\ Only(t, pc).job = JobOf(t)
  BY DEF Only, Idle
<1>3. Returned(t).pc \in {"replied", "ack", "idle"}
  BY DEF Returned, Only, Idle
<1> QED
  BY <1>1, <1>2, <1>3 DEF RowPCs

LEMMA PipelineRows ==
  ASSUME GenInv, RowsExist, NEW t \in Tasks, PipelineStep(t)
  PROVE  RowsExist'
<1> DEFINE kept == /\ \A j \in Jobs : Made(j) => Made(j)'
                   /\ \A j \in Jobs : Posted(j, "debit_reserve")' =>
                         Posted(j, "debit_reserve") \/ Made(j)
                   /\ orphans' \subseteq orphans
<1>1. \A j \in Jobs : Made(j) <=> Made(j)'
  BY PipelineKeepsRows DEF RowsKept
<1>2. ASSUME NEW x, task' = [task EXCEPT ![t] = x], kept,
             x.pc \in RowPCs => x.job = JobOf(t) /\ task[t].pc \in {"submit", "fail", "release"}
      PROVE  RowsExist'
  <2>1. x.pc \in RowPCs => x.job \in Jobs /\ job'[x.job].status # "absent"
    BY <1>2, TaskHasRow DEF NoJobPCs, Made
  <2> HIDE DEF kept
  <2> QED
    BY <1>2, <2>1, RowsExistStep DEF kept
<1>3. UNCHANGED <<walletVars, orphans>> => kept
  BY <1>1, NothingPosted
<1>4. task[t] \in Task
  BY RunningTask
<1> HIDE DEF kept
<1>5. ASSUME UNCHANGED <<walletVars, orphans>>, Return(t) \/ Raise(t)
      PROVE  RowsExist'
  <2>1. task' = [task EXCEPT ![t] = Returned(t)] \/ task' = [task EXCEPT ![t] = Idle]
    BY <1>5 DEF Return, Raise
  <2> QED
    BY <1>2, <1>3, <1>5, <2>1, LeavingNeedsNoRow
<1>6. ASSUME UNCHANGED <<walletVars, orphans>>,
             NEW x, task' = [task EXCEPT ![t] = x], x.pc \notin RowPCs
      PROVE  RowsExist'
  BY <1>2, <1>3, <1>6
<1>7. CASE Advance(t)
  <2> DEFINE x == [task[t] EXCEPT !.pc = "persist",
                     !.out = IF task[t].audio THEN RowOf(t).out \cup {task[t].stage}
                             ELSE RowOf(t).out \ {task[t].stage}]
  <2>1. Return(t) \/ task' = [task EXCEPT ![t] = x]
    BY <1>7 DEF Advance
  <2>2. x.pc = "persist"
    BY <1>4 DEF Task
  <2>3. UNCHANGED <<walletVars, orphans>>
    BY <1>7 DEF Advance
  <2> HIDE DEF x
  <2> QED
    BY <1>5, <1>6, <2>1, <2>2, <2>3 DEF RowPCs
<1>8. CASE PersistRuntime(t)
  <2> DEFINE x == [task[t] EXCEPT !.pc = NextStep(PlanOf(t), task[t].stage)]
  <2>1. /\ task' = [task EXCEPT ![t] = x]
        /\ UNCHANGED <<walletVars, orphans>>
    BY <1>8 DEF PersistRuntime, GoTo
  <2>2. x.pc \in {"refine", "tts", "finalize"}
    BY <1>4 DEF Task, NextStep
  <2> HIDE DEF x
  <2> QED
    BY <1>6, <2>1, <2>2 DEF RowPCs
<1>9. CASE SubmitRefine(t)
  <2>1. UNCHANGED <<walletVars, orphans>>
    BY <1>9 DEF SubmitRefine
  <2>2. CASE task' = [task EXCEPT ![t] = [Only(t, "setstage") EXCEPT !.rid = "refine"]]
    <3>1. [Only(t, "setstage") EXCEPT !.rid = "refine"].pc = "setstage"
      BY DEF Only, Idle
    <3> QED
      BY <1>6, <2>1, <2>2, <3>1 DEF RowPCs
  <2>3. CASE ProviderError(t)
    <3>1. CASE Raise(t)
      BY <1>5, <2>1, <3>1
    <3>2. ASSUME NEW code, task' = [task EXCEPT ![t].pc = "fail", ![t].code = code]
          PROVE  RowsExist'
      <4> DEFINE x == [task[t] EXCEPT !.pc = "fail", !.code = code]
      <4>1. task' = [task EXCEPT ![t] = x] /\ x.pc = "fail"
        BY <1>4, <3>2 DEF Task
      <4> HIDE DEF x
      <4> QED
        BY <1>6, <2>1, <4>1 DEF RowPCs
    <3> QED
      BY <2>3, <3>1, <3>2 DEF ProviderError
  <2>4. CASE task' = [task EXCEPT ![t].pc = IF PlanOf(t).voice THEN "tts" ELSE "finalize",
                                  ![t].out = RowOf(t).out]
    <3> DEFINE x == [task[t] EXCEPT !.pc = IF PlanOf(t).voice THEN "tts" ELSE "finalize",
                                    !.out = RowOf(t).out]
    <3>1. task' = [task EXCEPT ![t] = x] /\ x.pc \in {"tts", "finalize"}
      BY <1>4, <2>4 DEF Task
    <3> HIDE DEF x
    <3> QED
      BY <1>6, <2>1, <3>1 DEF RowPCs
  <2> QED
    BY <1>9, <2>2, <2>3, <2>4 DEF SubmitRefine
<1>10. CASE CloneVoice(t)
  <2>1. PICK pc \in {"finalize", "speech", "saveclone"} :
          task' = [task EXCEPT ![t].pc = pc, ![t].out = RowOf(t).out]
    BY <1>10 DEF CloneVoice
  <2> DEFINE x == [task[t] EXCEPT !.pc = pc, !.out = RowOf(t).out]
  <2>2. task' = [task EXCEPT ![t] = x] /\ x.pc = pc
    BY <1>4, <2>1 DEF Task
  <2>3. UNCHANGED <<walletVars, orphans>>
    BY <1>10 DEF CloneVoice
  <2> HIDE DEF x
  <2> QED
    BY <1>6, <2>2, <2>3 DEF RowPCs
<1>11. CASE SaveClonedVoice(t)
  <2> DEFINE x == [task[t] EXCEPT !.pc = "speech"]
  <2>1. /\ task' = [task EXCEPT ![t] = x] /\ x.pc = "speech"
        /\ UNCHANGED <<walletVars, orphans>>
    BY <1>4, <1>11 DEF SaveClonedVoice, GoTo, Task
  <2> HIDE DEF x
  <2> QED
    BY <1>6, <2>1 DEF RowPCs
<1>12. CASE SubmitSpeech(t)
  <2>1. UNCHANGED <<walletVars, orphans>>
    BY <1>12 DEF SubmitSpeech
  <2>2. CASE task' = [task EXCEPT ![t] = [Only(t, "setstage") EXCEPT !.rid = "tts"]]
    <3>1. [Only(t, "setstage") EXCEPT !.rid = "tts"].pc = "setstage"
      BY DEF Only, Idle
    <3> QED
      BY <1>6, <2>1, <2>2, <3>1 DEF RowPCs
  <2>3. CASE GoTo(t, "finalize")
    <3> DEFINE x == [task[t] EXCEPT !.pc = "finalize"]
    <3>1. task' = [task EXCEPT ![t] = x] /\ x.pc = "finalize"
      BY <1>4, <2>3 DEF GoTo, Task
    <3> HIDE DEF x
    <3> QED
      BY <1>6, <2>1, <3>1 DEF RowPCs
  <2> QED
    BY <1>12, <2>2, <2>3 DEF SubmitSpeech
<1>13. CASE RecordSubmission(t) \/ FinalizeWithoutAudio(t) \/ CommitTrack(t)
            \/ MarkFallback(t) \/ FailJob(t)
  <2>1. UNCHANGED <<walletVars, orphans>> /\ (Return(t) \/ Raise(t))
    BY <1>13 DEF RecordSubmission, FinalizeWithoutAudio, CommitTrack,
                 MarkFallback, FailJob
  <2> QED
    BY <1>5, <2>1
<1>14. CASE Fail(t)
  <2>1. UNCHANGED <<walletVars, orphans>> /\ task[t].pc = "fail"
    BY <1>14 DEF Fail, At
  <2>2. CASE task' = [task EXCEPT ![t] = Only(t, "release")]
    <3>1. Only(t, "release").job = JobOf(t)
      BY LeavingNeedsNoRow DEF PCs
    <3> QED
      BY <1>2, <1>3, <2>1, <2>2, <3>1
  <2>3. ASSUME NEW kind, task' = [task EXCEPT ![t] = [Only(t, "fallback") EXCEPT !.rid = kind]]
        PROVE  RowsExist'
    <3>1. [Only(t, "fallback") EXCEPT !.rid = kind].pc = "fallback"
      BY DEF Only, Idle
    <3> QED
      BY <1>6, <2>1, <2>3, <3>1 DEF RowPCs
  <2> QED
    BY <1>14, <2>2, <2>3 DEF Fail
<1>15. CASE ReleaseHold(t)
  <2> DEFINE j == JobOf(t)
             x == [task[t] EXCEPT !.pc = "markfailed"]
  <2>1. /\ task[t].pc = "release" /\ orphans' = orphans
        /\ j \in Jobs
        /\ task' = [task EXCEPT ![t] = x] /\ x.job = JobOf(t)
    BY <1>4, <1>15, RunningTask DEF ReleaseHold, At, GoTo, Task, NoJobPCs, JobOf
  <2>2. \A i \in Jobs : Posted(i, "debit_reserve")' => Posted(i, "debit_reserve")
    <3>1. CASE Release(Owner[j], Price[j], j)
      <4> DEFINE back == Least(Price[j], wallet[Owner[j]].reserved)
      <4>1. /\ JobCall(j)
            /\ Post(Owner[j], j, "credit_release", back, back, -back, 0)
            /\ back \in Int /\ 0 \in Nat
        BY <2>1, <3>1, RefTypes, BalanceType, LeastType
           DEF JobCall, Release, GenInv, GenTypeOK
      <4> QED
        BY <2>1, <4>1, KindTypes, JobCallWrites
    <3>2. CASE Duplicate(j, "credit_release")
      BY <3>2, NothingPosted DEF Duplicate
    <3> QED
      BY <1>15, <3>1, <3>2 DEF ReleaseHold
  <2>3. kept
    BY <1>1, <2>1, <2>2 DEF kept
  <2> HIDE DEF x
  <2> QED
    BY <1>2, <2>1, <2>3
<1>16. CASE CaptureTokens(t)
  <2> DEFINE j == JobOf(t)
  <2>1. /\ orphans' = orphans /\ j \in Jobs
    BY <1>16, RunningTask DEF CaptureTokens, At, NoJobPCs
  <2>2. \A i \in Jobs : Posted(i, "debit_reserve")' => Posted(i, "debit_reserve")
    <3>1. ASSUME NEW n \in Charge[j], Capture(Owner[j], n, Price[j], j)
          PROVE  \A i \in Jobs : Posted(i, "debit_reserve")' => Posted(i, "debit_reserve")
      <4>1. n \in 0 .. Price[j] /\ n \in Int /\ Price[j] \in Nat /\ -n \in Int
        BY <2>1, RefTypes, ChargeAssumption
      <4>2. /\ JobCall(j)
            /\ Post(Owner[j], j, "debit_capture", -n, Price[j] - n, -Price[j], Price[j])
        BY <3>1, <4>1 DEF JobCall, Capture
      <4> QED
        BY <2>1, <4>1, <4>2, KindTypes, JobCallWrites
    <3>2. CASE UNCHANGED walletVars
      BY <3>2, NothingPosted
    <3> QED
      BY <1>16, <3>1, <3>2 DEF CaptureTokens, Duplicate, CaptureAborts
  <2>3. kept
    BY <1>1, <2>1, <2>2 DEF kept
  <2>4. CASE Raise(t)
    <3>1. task' = [task EXCEPT ![t] = Returned(t)] \/ task' = [task EXCEPT ![t] = Idle]
      BY <2>4 DEF Raise
    <3> QED
      BY <1>2, <2>3, <3>1, LeavingNeedsNoRow
  <2>5. ASSUME NEW n, task' = [task EXCEPT ![t] = [Only(t, "commit") EXCEPT !.captured = n]]
        PROVE  RowsExist'
    <3>1. [Only(t, "commit") EXCEPT !.captured = n].pc = "commit"
      BY DEF Only, Idle
    <3> QED
      BY <1>2, <2>3, <2>5, <3>1 DEF RowPCs
  <2> QED
    BY <1>16, <2>4, <2>5 DEF CaptureTokens
<1> QED
  BY <1>7, <1>8, <1>9, <1>10, <1>11, <1>12, <1>13, <1>14, <1>15, <1>16
     DEF PipelineStep

LEMMA OtherTaskRows ==
  ASSUME GenInv, RowsExist,
         \/ \E h \in Hooks : Webhook(h)
         \/ Poll
         \/ \E j \in Jobs : RecoverOrphan(j)
  PROVE  RowsExist'
<1> USE DEF RowPCs
<1>1. /\ UNCHANGED <<walletVars, job>> /\ orphans' \subseteq orphans
      /\ \A j \in Jobs : Made(j) => Made(j)'
      /\ \A j \in Jobs : Posted(j, "debit_reserve")' => Posted(j, "debit_reserve")
  <2>1. UNCHANGED <<walletVars, job>> /\ orphans' \subseteq orphans
    BY DEF Webhook, ClaimEvent, LookUpRequest, MarkApplied, Poll,
           FetchActiveJobs, PollPending, PollFinished, RecoverOrphan
  <2> QED
    BY <2>1, NothingPosted DEF Made
<1>2. ASSUME NEW t \in Tasks, NEW x, task' = [task EXCEPT ![t] = x],
             x.pc \in RowPCs => x.job \in Jobs /\ Made(x.job)
      PROVE  RowsExist'
  BY <1>1, <1>2, RowsExistStep DEF Made
<1>3. ASSUME NEW h \in Hooks, Webhook(h)
      PROVE  RowsExist'
  <2>1. h \in Tasks /\ task[h] \in Task
    BY TaskNames, RunningTask
  <2>2. ASSUME NEW j \in Jobs, NEW kind \in SubmitKinds, ClaimEvent(h, j, kind)
        PROVE  RowsExist'
    <3> DEFINE x == [Idle EXCEPT !.pc = "claimed", !.job = j, !.event = kind]
    <3>1. task' = [task EXCEPT ![h] = x] /\ x.pc = "claimed"
      BY <2>2 DEF ClaimEvent, Idle
    <3> HIDE DEF x
    <3> QED
      BY <1>2, <2>1, <3>1
  <2>3. CASE LookUpRequest(h)
    <3> DEFINE x == Dispatched(h, CurrentStage(job[JobOf(h)].stage),
                               fal[JobOf(h)][task[h].event])
    <3>1. task' = [task EXCEPT ![h] = Returned(h)] \/ task' = [task EXCEPT ![h] = x]
      BY <2>3 DEF LookUpRequest
    <3>2. x.pc \in {"advance", "fail"}
      BY <2>1 DEF Dispatched, Task
    <3> HIDE DEF x
    <3> QED
      BY <1>2, <2>1, <3>1, <3>2, LeavingNeedsNoRow
  <2>4. CASE MarkApplied(h)
    BY <1>2, <2>1, <2>4, LeavingNeedsNoRow DEF MarkApplied
  <2> QED
    BY <1>3, <2>2, <2>3, <2>4 DEF Webhook
<1>4. CASE Poll
  <2>1. Poller \in Tasks /\ task[Poller] \in Task
    BY TaskNames, RunningTask
  <2>2. ASSUME NEW row, PollFinished(row)
        PROVE  RowsExist'
    <3>1. PICK outcome \in Reported(row) :
            task' = [task EXCEPT ![Poller] =
              [Dispatched(Poller, CurrentStage(row.stage), outcome)
                 EXCEPT !.job = row.job]]
      BY <2>2 DEF PollFinished
    <3> DEFINE x == [Dispatched(Poller, CurrentStage(row.stage), outcome)
                       EXCEPT !.job = row.job]
    <3>2. x.pc \in {"advance", "fail"}
      BY <2>1 DEF Dispatched, Task
    <3>3. task' = [task EXCEPT ![Poller] = x]
      BY <3>1
    <3> HIDE DEF x
    <3> QED
      BY <1>2, <2>1, <3>2, <3>3
  <2>3. CASE UNCHANGED task
    <3>1. task' = [task EXCEPT ![Poller] = task[Poller]]
      BY <2>3 DEF GenInv, GenTypeOK
    <3>2. task[Poller].pc \in RowPCs => /\ JobOf(Poller) \in Jobs
                                        /\ Made(JobOf(Poller))
      BY <2>1, TaskHasRow DEF NoJobPCs
    <3> QED
      BY <1>2, <2>1, <3>1, <3>2 DEF JobOf
  <2> QED
    BY <1>4, <2>2, <2>3 DEF Poll, FetchActiveJobs, PollPending
<1>5. ASSUME NEW j \in Jobs, RecoverOrphan(j)
      PROVE  RowsExist'
  <2> DEFINE x == [Idle EXCEPT !.pc = "release", !.job = j]
  <2>1. task' = [task EXCEPT ![Sweep] = x] /\ x.job = j
    BY <1>5 DEF RecoverOrphan, Idle
  <2>2. Made(j)
    BY <1>5 DEF RecoverOrphan, RowsExist
  <2> HIDE DEF x
  <2> QED
    BY <1>2, <2>1, <2>2, TaskNames
<1> QED
  BY <1>3, <1>4, <1>5

LEMMA OtherRows ==
  ASSUME GenInv, RowsExist, Crash \/ Environment \/ UNCHANGED vars
  PROVE  RowsExist'
<1>1. CASE Crash
  <2>1. /\ \A j \in Jobs : Posted(j, "debit_reserve")' => Posted(j, "debit_reserve")
        /\ job' = job
    BY <1>1, NothingPosted DEF Crash
  <2>2. \A t \in Tasks : task'[t].pc \notin RowPCs
    BY <1>1 DEF Crash, RowPCs, Idle
  <2>3. \A j \in orphans' : Made(j)'
    BY <1>1, <2>1 DEF Crash, Orphaned, Made
  <2> QED
    BY <2>1, <2>2, <2>3 DEF RowsExist, Made
<1>2. ASSUME UNCHANGED <<job, task, orphans>>,
             \A j \in Jobs : Posted(j, "debit_reserve")' => Posted(j, "debit_reserve")
      PROVE  RowsExist'
  BY <1>2 DEF RowsExist, Made, JobOf
<1>3. CASE Environment
  <2>1. ASSUME NEW j \in Jobs, NEW kind \in SubmitKinds,
               NEW outcome \in Outcomes, FinishSubmission(j, kind, outcome)
        PROVE  RowsExist'
    BY <1>2, <2>1, NothingPosted DEF FinishSubmission
  <2>2. ASSUME NEW u \in Users, NEW n \in Amounts, NEW r \in Credits,
               Grant(u, n, r)
        PROVE  RowsExist'
    <3>1. ledger' = [ledger EXCEPT ![<<r, "credit_subscription_grant">>] =
                       EntryFor(u, Moved(wallet[u], n, 0), n, 0)]
      BY <2>2 DEF Grant, Credit, Post
    <3>2. \A j \in Jobs : ledger'[<<j, "debit_reserve">>] = ledger[<<j, "debit_reserve">>]
      BY <3>1, RefTypes, KindTypes DEF GenInv, GenTypeOK, WalletTypeOK, Keys
    <3> QED
      BY <1>2, <2>2, <3>2 DEF Grant, genVars, Posted
  <2>3. ASSUME NEW u \in Users, NEW frozen \in Freezes, Freeze(u, frozen)
        PROVE  RowsExist'
    BY <1>2, <2>3 DEF Freeze, SetFrozen, genVars, Posted
  <2> QED
    BY <1>3, <2>1, <2>2, <2>3 DEF Environment
<1>4. CASE UNCHANGED vars
  BY <1>2, <1>4, NothingPosted DEF vars, genVars
<1> QED
  BY <1>1, <1>3, <1>4

LEMMA RowsExistAlways ==
  ASSUME GenInv, RowsExist, [GenNext]_vars
  PROVE  RowsExist'
  BY CreateJobRows, PipelineRows, OtherTaskRows, OtherRows DEF GenNext

LEMMA OneJobStep ==
  ASSUME GenInv, RowsExist, OneJobPerKey, [GenNext]_vars
  PROVE  OneJobPerKey'
<1>1. CASE \A j \in Jobs : ~(AddJob(j) /\ job' # job)
  <2>1. RowsKept
    BY <1>1, StepKeepsRows
  <2> QED
    BY <2>1 DEF RowsKept, OneJobPerKey, Made, SameKey
<1>2. ASSUME NEW j \in Jobs, AddJob(j), job' # job
      PROVE  OneJobPerKey'
  <2>1. /\ Existing(j) = {}
        /\ \A i \in Jobs \ {j} : Made(i)' <=> Made(i)
    BY <1>2, AddJobRow
  <2>2. \A i \in Jobs : Made(i) => ~SameKey(i, j)
    BY <2>1 DEF Existing, Made
  <2>3. \A i, k \in Jobs : SameKey(i, k) <=> SameKey(k, i)
    BY DEF SameKey
  <2> QED
    BY <2>1, <2>2, <2>3 DEF OneJobPerKey, Made, SameKey
<1> QED
  BY <1>1, <1>2

\* Two requests of one user with the same Idempotency-Key never make two jobs,
\* for any number of requests, webhooks and crashes: the unique index stops the
\* second insert, and no task ever writes a row that was not inserted
\* (create_job, Pipeline and recover_orphan_jobs).
THEOREM OneJobForKey == GenSpec => []OneJobPerKey
<1>1. GenInit => RowsExist /\ OneJobPerKey
  <2> SUFFICES ASSUME GenInit PROVE RowsExist /\ OneJobPerKey
    OBVIOUS
  <2>1. \A j \in Jobs : ~Posted(j, "debit_reserve")
    BY RefTypes, KindTypes DEF GenInit, WalletInit, Posted, Keys
  <2>2. /\ \A t \in Tasks : task[t].pc = "idle"
        /\ \A j \in Jobs : job[j].status = "absent"
        /\ orphans = {}
    BY DEF GenInit, Idle, NoJob
  <2> QED
    BY <2>1, <2>2 DEF RowsExist, OneJobPerKey, RowPCs
<1>2. GenInv /\ RowsExist /\ OneJobPerKey /\ [GenNext]_vars =>
        RowsExist' /\ OneJobPerKey'
  BY RowsExistAlways, OneJobStep
<1> QED
  BY <1>1, <1>2, AlwaysInv, PTL DEF GenSpec

=============================================================================
