----------------------------- MODULE Generation -----------------------------
(***************************************************************************)
(* Track generation: create_job, the stage pipeline, the fal webhook, the  *)
(* fal poller and the recovery sweep at startup, over one wallet.          *)
(*                                                                         *)
(* A task is a running coroutine: the request that creates a job (named by *)
(* the job), a webhook delivery (Hooks), the poller, the sweep.  A task    *)
(* keeps its local variables between two database transactions or provider *)
(* calls, and each of these is one action; the tasks interleave at every   *)
(* await.  Pipeline.advance, Pipeline.fail and Pipeline._finalize are      *)
(* shared by the tasks, as in the code.                                    *)
(*                                                                         *)
(* The provider (fal) is external.  A submission is known by its job and   *)
(* kind, for the idempotency key "<job>:<kind>" travels with it.  The rows *)
(* of job_stage_log, which no branch of the pipeline but a display reads,  *)
(* are left out.                                                           *)
(***************************************************************************)
EXTENDS Wallet

CONSTANTS Charge,      \* Charge[j]: what the track of j may turn out to cost
          ClientKey,   \* ClientKey[j]: the Idempotency-Key header, or None
          Plan,        \* Plan[j]: which optional stages the payload asks for
          Hooks,       \* names for concurrent webhook deliveries
          PollEnabled, \* MUSIC_POLL_ENABLED
          Outcomes,    \* how the provider may finish a submission
          MaxCrashes,  \* bound on the crashes of the process
          Freezes      \* values the billing side may set "frozen" to

Poller == "poller"
Sweep == "sweep"

\* The submissions of a job: the music model, its two fallbacks, the
\* refinement and the vocal.
MusicKinds == {"music", "ace", "stable"}
FallbackKinds == {"ace", "stable"}
SubmitKinds == MusicKinds \cup {"refine", "tts"}

AsyncStages == {"music", "refine", "tts"}
StageOf(kind) == IF kind \in MusicKinds THEN "music" ELSE kind

AllOutcomes == {"ok", "empty", "failed", "canceled"}

\* exc.code of FalProviderError, FalTimeout and of a canceled request.
Codes == {"PROVIDER_FAILED", "PROVIDER_TIMEOUT", "PROVIDER_CANCELED"}

Plans == [refine : BOOLEAN, voice : BOOLEAN, lyrics : BOOLEAN]

ASSUME ChargeAssumption == \A j \in Jobs : Charge[j] \subseteq 1 .. Price[j]
ASSUME PlanAssumption == Plan \in [Jobs -> Plans]
ASSUME OutcomesAssumption == Outcomes \subseteq AllOutcomes
ASSUME SwitchAssumption == /\ PollEnabled \in BOOLEAN
                            /\ MaxCrashes \in Nat
                            /\ Freezes \subseteq BOOLEAN
ASSUME NamesAssumption ==
  /\ None \notin Jobs
  /\ Poller \notin Jobs \cup Hooks
  /\ Sweep \notin Jobs \cup Hooks
  /\ Jobs \cap Hooks = {}

VARIABLES job,      \* job[j]: the row of jobs
          tracks,   \* the jobs that have a row in tracks
          fal,      \* fal[j][k]: the provider's side of a submission
          seen,     \* fal events in processed_webhooks
          applied,  \* those with outcome "applied"
          task,     \* task[t]: the local variables of a coroutine
          todo,     \* rows the current poll iteration has still to look at
          orphans,  \* jobs the sweep has still to repair
          crashes

genVars == <<job, tracks, fal, seen, applied, task, todo, orphans, crashes>>
vars == <<walletVars, genVars>>

Tasks == Jobs \cup Hooks \cup {Poller, Sweep}

Statuses == {"absent", "queued", "processing", "succeeded", "failed"}
Stages == AsyncStages \cup {"none", "finalize"}

\* out is _runtime in input_payload: the stages that left an audio URL.
Job == [status : Statuses, stage : Stages, rid : SubmitKinds \cup {"none"},
        model : MusicKinds, fallbackUsed : BOOLEAN, cloned : BOOLEAN,
        out : SUBSET AsyncStages, captured : Nat]

PCs == {"idle", "add", "reserve", "submit", "claimed", "advance", "persist",
        "refine", "tts", "saveclone", "speech", "finalize", "commit",
        "setstage", "fail", "fallback", "release", "markfailed", "ack",
        "replied", "dead"}

\* job, stage, code, audio, out, captured: locals of the pipeline methods;
\* event: the submission a webhook is about; rid: the one just submitted.
Task == [pc : PCs, job : Jobs \cup {None}, stage : Stages,
         code : Codes \cup {"none"}, audio : BOOLEAN,
         out : SUBSET AsyncStages, event : SubmitKinds \cup {"none"},
         rid : SubmitKinds \cup {"none"}, captured : Nat]

\* What _fetch_active_jobs selects of a row.
Snapshot == [job : Jobs, stage : Stages \ {"finalize"}, rid : SubmitKinds,
             model : MusicKinds]

GenTypeOK ==
  /\ WalletTypeOK
  /\ job \in [Jobs -> Job]
  /\ tracks \subseteq Jobs
  /\ fal \in [Jobs -> [SubmitKinds -> AllOutcomes \cup {"none", "running"}]]
  /\ seen \subseteq Jobs \X SubmitKinds
  /\ applied \subseteq seen
  /\ task \in [Tasks -> Task]
  /\ todo \subseteq Snapshot
  /\ orphans \subseteq Jobs
  /\ crashes \in 0 .. MaxCrashes

NoJob == [status |-> "absent", stage |-> "none", rid |-> "none",
          model |-> "music", fallbackUsed |-> FALSE, cloned |-> FALSE,
          out |-> {}, captured |-> 0]

QueuedJob == [NoJob EXCEPT !.status = "queued"]

Idle == [pc |-> "idle", job |-> None, stage |-> "none", code |-> "none",
         audio |-> FALSE, out |-> {}, event |-> "none", rid |-> "none",
         captured |-> 0]

GenInit ==
  /\ WalletInit
  /\ job = [j \in Jobs |-> NoJob]
  /\ tracks = {}
  /\ fal = [j \in Jobs |-> [k \in SubmitKinds |-> "none"]]
  /\ seen = {}
  /\ applied = {}
  /\ task = [t \in Tasks |-> Idle]
  /\ todo = {}
  /\ orphans = {}
  /\ crashes = 0

-----------------------------------------------------------------------------
(* Rows and tasks *)

At(t, pc) == task[t].pc = pc
JobOf(t) == task[t].job
RowOf(t) == job[JobOf(t)]
PlanOf(t) == Plan[JobOf(t)]

\* The lifespan serves requests only after the sweep has returned.
Serving == orphans = {} /\ At(Sweep, "idle")

GoTo(t, pc) == task' = [task EXCEPT ![t].pc = pc]

\* The locals of t that matter in every method: at pc, and nothing else.
Only(t, pc) == [Idle EXCEPT !.pc = pc, !.job = JobOf(t),
                            !.event = task[t].event]

\* The coroutine t leaves the pipeline normally: a request replies, a
\* webhook goes on to mark its event, the poller and the sweep go on.
Returned(t) ==
  IF t \in Jobs THEN [Idle EXCEPT !.pc = "replied"]
  ELSE IF t \in Hooks THEN Only(t, "ack")
  ELSE Idle

Return(t) == task' = [task EXCEPT ![t] = Returned(t)]

\* The coroutine t is left by an exception nobody in the pipeline handles:
\* the poll iteration ends with its remaining rows, a webhook answers 500.
Raise(t) ==
  /\ task' = [task EXCEPT ![t] =
                IF t \in Jobs THEN Returned(t) ELSE Idle]
  /\ todo' = IF t = Poller THEN {} ELSE todo

SetCurrentStage(j, stage, kind) ==
  job' = [job EXCEPT ![j].status = "processing", ![j].stage = stage,
                     ![j].rid = kind]

MarkFailed(j) == job' = [job EXCEPT ![j].status = "failed"]

\* Mutant of MarkSucceeded: the hold is reported instead of the charge.
MarkSucceededWithHold(j, captured) ==
  job' = [job EXCEPT ![j].status = "succeeded", ![j].stage = "finalize",
                     ![j].captured = Price[j]]

MarkSucceeded(j, captured) ==
  job' = [job EXCEPT ![j].status = "succeeded", ![j].stage = "finalize",
                     ![j].captured = captured]

\* The provider accepts the submission; one it already knows by its
\* idempotency key goes on as it was.
Submitted(j, kind) ==
  fal' = [fal EXCEPT ![j][kind] = IF @ = "none" THEN "running" ELSE @]

-----------------------------------------------------------------------------
(* create_job *)

SameKey(i, j) ==
  Owner[i] = Owner[j] /\ ClientKey[i] = ClientKey[j] /\ ClientKey[i] # None

\* The row an earlier request with the same key left.
Existing(j) == {i \in Jobs : job[i].status # "absent" /\ SameKey(i, j)}

\* The gate and the beat refuse a request without a trace; past them the key
\* is looked up.
LookUpKey(j) ==
  /\ Serving
  /\ At(j, "idle")
  /\ task' = [task EXCEPT ![j] =
       [Idle EXCEPT !.job = j,
                    !.pc = IF Existing(j) = {} THEN "add" ELSE "replied"]]
  /\ UNCHANGED <<walletVars, job, tracks, fal, seen, applied, todo, orphans,
                 crashes>>

\* Mutant of AddJob: no unique index.
AddJobUnindexed(j) ==
  /\ At(j, "add")
  /\ job' = [job EXCEPT ![j] = QueuedJob]
  /\ GoTo(j, "reserve")
  /\ UNCHANGED <<walletVars, tracks, fal, seen, applied, todo, orphans,
                 crashes>>

\* A URL that is not reachable or a model without a price still refuses the
\* request; the unique index on (user_id, client_idempotency_key) stops the
\* second of two that both found no row.
AddJob(j) ==
  /\ At(j, "add")
  /\ \/ /\ Existing(j) = {}
        /\ job' = [job EXCEPT ![j] = QueuedJob]
        /\ GoTo(j, "reserve")
     \/ Return(j) /\ UNCHANGED job
  /\ UNCHANGED <<walletVars, tracks, fal, seen, applied, todo, orphans,
                 crashes>>

\* Mutant of ReserveTokens: a refusal is swallowed.
ReserveTokensLax(j) ==
  /\ At(j, "reserve")
  /\ Reserve(Owner[j], Price[j], j) \/ ReserveRefused(Owner[j], Price[j], j)
  /\ GoTo(j, "submit")
  /\ UNCHANGED <<job, tracks, fal, seen, applied, todo, orphans, crashes>>

\* A refusal leaves create_job with the row already committed.
ReserveTokens(j) ==
  /\ At(j, "reserve")
  /\ \/ Reserve(Owner[j], Price[j], j) /\ GoTo(j, "submit")
     \/ ReserveRefused(Owner[j], Price[j], j) /\ Return(j)
  /\ UNCHANGED <<job, tracks, fal, seen, applied, todo, orphans, crashes>>

SubmitMusic(j) ==
  /\ At(j, "submit")
  /\ \/ /\ Submitted(j, "music")
        /\ task' = [task EXCEPT ![j].pc = "setstage", ![j].rid = "music"]
     \/ GoTo(j, "release") /\ UNCHANGED fal
  /\ UNCHANGED <<walletVars, job, tracks, seen, applied, todo, orphans,
                 crashes>>

-----------------------------------------------------------------------------
(* Pipeline.advance *)

\* The guard against reordering: only the completed stage is compared.
StageMoved(t) == RowOf(t).stage \notin {"none", task[t].stage}

Advance(t) ==
  /\ At(t, "advance")
  /\ \/ StageMoved(t) /\ Return(t)
     \/ /\ ~StageMoved(t)
        /\ task' = [task EXCEPT
             ![t].pc = "persist",
             ![t].out = IF task[t].audio
                        THEN RowOf(t).out \cup {task[t].stage}
                        ELSE RowOf(t).out \ {task[t].stage}]
  /\ UNCHANGED <<walletVars, job, tracks, fal, seen, applied, todo, orphans,
                 crashes>>

Sings(plan) == plan.voice /\ plan.lyrics

NextStep(plan, stage) ==
  IF stage = "music" /\ plan.refine THEN "refine"
  ELSE IF stage \in {"music", "refine"} /\ Sings(plan) THEN "tts"
  ELSE "finalize"

PersistRuntime(t) ==
  /\ At(t, "persist")
  /\ job' = [job EXCEPT ![JobOf(t)].out = task[t].out]
  /\ GoTo(t, NextStep(PlanOf(t), task[t].stage))
  /\ UNCHANGED <<walletVars, tracks, fal, seen, applied, todo, orphans,
                 crashes>>

\* A provider error in a submission of advance: finalize_from_webhook turns
\* it into fail() for the stage that had completed, the poller lets it end
\* the iteration.
ProviderError(t) ==
  IF t \in Hooks
  THEN /\ \E code \in {"PROVIDER_FAILED", "PROVIDER_TIMEOUT"} :
            task' = [task EXCEPT ![t].pc = "fail", ![t].code = code]
       /\ UNCHANGED todo
  ELSE Raise(t)

\* Without an audio URL the stage is skipped; _after_refine_skip then asks
\* for the voice only.
SubmitRefine(t) ==
  /\ At(t, "refine")
  /\ \/ /\ task[t].audio
        /\ Submitted(JobOf(t), "refine")
        /\ task' = [task EXCEPT ![t] = [Only(t, "setstage") EXCEPT !.rid = "refine"]]
        /\ UNCHANGED todo
     \/ task[t].audio /\ ProviderError(t) /\ UNCHANGED fal
     \/ /\ ~task[t].audio
        /\ task' = [task EXCEPT
             ![t].pc = IF PlanOf(t).voice THEN "tts" ELSE "finalize",
             ![t].out = RowOf(t).out]
        /\ UNCHANGED <<fal, todo>>
  /\ UNCHANGED <<walletVars, job, tracks, seen, applied, orphans, crashes>>

\* Rereads the payload; without a voice or lyrics, and when the voice cannot
\* be cloned, the pipeline finalizes with the runtime it just read.
CloneVoice(t) ==
  /\ At(t, "tts")
  /\ \E pc \in IF ~Sings(PlanOf(t)) THEN {"finalize"}
               ELSE IF RowOf(t).cloned THEN {"speech"}
               ELSE {"saveclone", "finalize"} :
       task' = [task EXCEPT ![t].pc = pc, ![t].out = RowOf(t).out]
  /\ UNCHANGED <<walletVars, job, tracks, fal, seen, applied, todo, orphans,
                 crashes>>

SaveClonedVoice(t) ==
  /\ At(t, "saveclone")
  /\ job' = [job EXCEPT ![JobOf(t)].cloned = TRUE]
  /\ GoTo(t, "speech")
  /\ UNCHANGED <<walletVars, tracks, fal, seen, applied, todo, orphans,
                 crashes>>

\* A failed submission costs the vocal only.
SubmitSpeech(t) ==
  /\ At(t, "speech")
  /\ \/ /\ Submitted(JobOf(t), "tts")
        /\ task' = [task EXCEPT ![t] = [Only(t, "setstage") EXCEPT !.rid = "tts"]]
     \/ GoTo(t, "finalize") /\ UNCHANGED fal
  /\ UNCHANGED <<walletVars, job, tracks, seen, applied, todo, orphans,
                 crashes>>

\* _set_current_stage, the last thing a submitting task does: whatever the
\* status was, it is processing now.
RecordSubmission(t) ==
  /\ At(t, "setstage")
  /\ SetCurrentStage(JobOf(t), StageOf(task[t].rid), task[t].rid)
  /\ Return(t)
  /\ UNCHANGED <<walletVars, tracks, fal, seen, applied, todo, orphans,
                 crashes>>

-----------------------------------------------------------------------------
(* Pipeline._finalize *)

\* mix_master needs the music as well as the vocal.
HasAudio(out) == out \cap {"music", "refine"} # {}

FinalizeWithoutAudio(t) ==
  /\ At(t, "finalize")
  /\ ~HasAudio(task[t].out)
  /\ MarkFailed(JobOf(t))
  /\ Return(t)
  /\ UNCHANGED <<walletVars, tracks, fal, seen, applied, todo, orphans,
                 crashes>>

\* Mutant of CaptureTokens: an aborted capture is swallowed.
CaptureTokensLax(t) ==
  LET j == JobOf(t)
  IN  /\ At(t, "finalize")
      /\ HasAudio(task[t].out)
      /\ \E n \in Charge[j] :
           /\ \/ Capture(Owner[j], n, Price[j], j)
              \/ Duplicate(j, "debit_capture")
              \/ CaptureAborts(Owner[j], Price[j], j)
           /\ task' = [task EXCEPT ![t] = [Only(t, "commit") EXCEPT !.captured = n]]
      /\ UNCHANGED <<job, tracks, fal, seen, applied, todo, orphans, crashes>>

\* The price of the actual duration, at most the tokens of the hold.
CaptureTokens(t) ==
  LET j == JobOf(t)
  IN  /\ At(t, "finalize")
      /\ HasAudio(task[t].out)
      /\ \/ \E n \in Charge[j] :
              /\ \/ Capture(Owner[j], n, Price[j], j)
                 \/ Duplicate(j, "debit_capture")
              /\ task' = [task EXCEPT ![t] = [Only(t, "commit") EXCEPT !.captured = n]]
              /\ UNCHANGED todo
         \/ CaptureAborts(Owner[j], Price[j], j) /\ Raise(t)
      /\ UNCHANGED <<job, tracks, fal, seen, applied, orphans, crashes>>

\* A second task may find the track, or run into the unique constraint on
\* tracks.job_id when it had not found it yet.
CommitTrack(t) ==
  /\ At(t, "commit")
  /\ \/ /\ tracks' = tracks \cup {JobOf(t)}
        /\ MarkSucceeded(JobOf(t), task[t].captured)
        /\ Return(t)
        /\ UNCHANGED todo
     \/ JobOf(t) \in tracks /\ Raise(t) /\ UNCHANGED <<job, tracks>>
  /\ UNCHANGED <<walletVars, fal, seen, applied, orphans, crashes>>

-----------------------------------------------------------------------------
(* Pipeline.fail *)

MayFallBack(t) ==
  /\ task[t].stage = "music"
  /\ task[t].code = "PROVIDER_FAILED"
  /\ ~RowOf(t).fallbackUsed
  /\ RowOf(t).model = "music"

\* ace-step sings and needs lyrics; stable-audio is the last resort.
FallbacksOf(plan) == IF plan.lyrics THEN FallbackKinds ELSE {"stable"}

\* Mutant of Fail: the hold is not released.
FailUnreleased(t) ==
  /\ At(t, "fail")
  /\ task' = [task EXCEPT ![t] = Only(t, "markfailed")]
  /\ UNCHANGED <<walletVars, job, tracks, fal, seen, applied, todo, orphans,
                 crashes>>

Fail(t) ==
  /\ At(t, "fail")
  /\ \/ /\ MayFallBack(t)
        /\ \E kind \in FallbacksOf(PlanOf(t)) :
             /\ Submitted(JobOf(t), kind)
             /\ task' = [task EXCEPT ![t] = [Only(t, "fallback") EXCEPT !.rid = kind]]
     \/ task' = [task EXCEPT ![t] = Only(t, "release")] /\ UNCHANGED fal
  /\ UNCHANGED <<walletVars, job, tracks, seen, applied, todo, orphans,
                 crashes>>

\* Mutants of MarkFallback: the model is forgotten, and the job is failed
\* although its fallback runs.
MarkFallbackOldModel(t) ==
  /\ At(t, "fallback")
  /\ job' = [job EXCEPT ![JobOf(t)].fallbackUsed = TRUE,
                        ![JobOf(t)].rid = task[t].rid]
  /\ Return(t)
  /\ UNCHANGED <<walletVars, tracks, fal, seen, applied, todo, orphans,
                 crashes>>

MarkFallbackThenFail(t) ==
  /\ At(t, "fallback")
  /\ job' = [job EXCEPT ![JobOf(t)].fallbackUsed = TRUE,
                        ![JobOf(t)].model = task[t].rid,
                        ![JobOf(t)].rid = task[t].rid]
  /\ task' = [task EXCEPT ![t] = Only(t, "release")]
  /\ UNCHANGED <<walletVars, tracks, fal, seen, applied, todo, orphans,
                 crashes>>

\* _mark_fallback leaves the status and the stage alone.
MarkFallback(t) ==
  /\ At(t, "fallback")
  /\ job' = [job EXCEPT ![JobOf(t)].fallbackUsed = TRUE,
                        ![JobOf(t)].model = task[t].rid,
                        ![JobOf(t)].rid = task[t].rid]
  /\ Return(t)
  /\ UNCHANGED <<walletVars, tracks, fal, seen, applied, todo, orphans,
                 crashes>>

\* The release shared by fail, by the rollback of create_job and by the
\* sweep; none of them looks at the status of the job.
ReleaseHold(t) ==
  LET j == JobOf(t)
  IN  /\ At(t, "release")
      /\ \/ Release(Owner[j], Price[j], j)
         \/ Duplicate(j, "credit_release")
      /\ GoTo(t, "markfailed")
      /\ UNCHANGED <<job, tracks, fal, seen, applied, todo, orphans, crashes>>

FailJob(t) ==
  /\ At(t, "markfailed")
  /\ MarkFailed(JobOf(t))
  /\ Return(t)
  /\ UNCHANGED <<walletVars, tracks, fal, seen, applied, todo, orphans,
                 crashes>>

-----------------------------------------------------------------------------
(* The fal webhook *)

Finished(j, kind) == fal[j][kind] \in AllOutcomes

\* Mutant of ClaimEvent: a redelivered event is processed again.
ClaimAgain(h, j, kind) ==
  /\ Serving
  /\ At(h, "idle")
  /\ Finished(j, kind)
  /\ seen' = seen \cup {<<j, kind>>}
  /\ task' = [task EXCEPT ![h] = [Idle EXCEPT !.pc = "claimed", !.job = j,
                                              !.event = kind]]
  /\ UNCHANGED <<walletVars, job, tracks, fal, applied, todo, orphans,
                 crashes>>

\* Phase 1 of fal_webhook.  A redelivered event is answered "duplicate" and
\* changes nothing, so only first deliveries are steps.
ClaimEvent(h, j, kind) ==
  /\ Serving
  /\ At(h, "idle")
  /\ Finished(j, kind)
  /\ <<j, kind>> \notin seen
  /\ seen' = seen \cup {<<j, kind>>}
  /\ task' = [task EXCEPT ![h] = [Idle EXCEPT !.pc = "claimed", !.job = j,
                                              !.event = kind]]
  /\ UNCHANGED <<walletVars, job, tracks, fal, applied, todo, orphans,
                 crashes>>

Terminal(j) == job[j].status \in {"succeeded", "failed"}

\* current_stage or music_generation, as the webhook and the poller read it.
CurrentStage(stage) == IF stage = "none" THEN "music" ELSE stage

\* What the locals of t become when it calls advance or fail for a
\* submission that ended with the given outcome.
Dispatched(t, stage, outcome) ==
  [task[t] EXCEPT
     !.pc = IF outcome \in {"ok", "empty"} THEN "advance" ELSE "fail",
     !.stage = stage,
     !.audio = outcome = "ok",
     !.code = IF outcome = "failed" THEN "PROVIDER_FAILED"
              ELSE IF outcome = "canceled" THEN "PROVIDER_CANCELED"
              ELSE "none"]

\* finalize_from_webhook: the job is found by its latest request id alone;
\* an event of an unknown request or of a finished job is skipped.
LookUpRequest(h) ==
  LET j == JobOf(h)
      kind == task[h].event
      skipped == job[j].rid # kind \/ Terminal(j)
  IN  /\ At(h, "claimed")
      /\ task' = [task EXCEPT ![h] =
           IF skipped THEN Returned(h)
           ELSE Dispatched(h, CurrentStage(job[j].stage), fal[j][kind])]
      /\ UNCHANGED <<walletVars, job, tracks, fal, seen, applied, todo,
                     orphans, crashes>>

MarkApplied(h) ==
  /\ At(h, "ack")
  /\ applied' = applied \cup {<<JobOf(h), task[h].event>>}
  /\ task' = [task EXCEPT ![h] = Idle]
  /\ UNCHANGED <<walletVars, job, tracks, fal, seen, todo, orphans, crashes>>

-----------------------------------------------------------------------------
(* The poller *)

\* Mutant of Active: finished jobs are polled too.
ActiveForever(j) == job[j].rid # "none"

Active(j) == job[j].status \in {"queued", "processing"} /\ job[j].rid # "none"

FetchActiveJobs ==
  /\ PollEnabled
  /\ Serving
  /\ At(Poller, "idle")
  /\ todo = {}
  /\ todo' = {[job |-> j, stage |-> job[j].stage, rid |-> job[j].rid,
               model |-> job[j].model] : j \in {i \in Jobs : Active(i)}}
  /\ UNCHANGED <<walletVars, job, tracks, fal, seen, applied, task, orphans,
                 crashes>>

\* The status URL is built from the music model of the row: the refinement
\* and the vocal run under models of their own, and the 404 they answer is
\* read as IN_QUEUE.
Visible(row) == row.rid = row.model

\* A finished request whose result cannot be fetched is reported as failed.
Reported(row) ==
  IF ~Visible(row) \/ ~Finished(row.job, row.rid) THEN {}
  ELSE {fal[row.job][row.rid]} \cup
       (IF fal[row.job][row.rid] \in {"ok", "empty"} THEN {"failed"} ELSE {})

\* Nothing is known of the row: it is in the queue, or the status could not
\* be fetched.
PollPending(row) ==
  /\ At(Poller, "idle")
  /\ row \in todo
  /\ todo' = todo \ {row}
  /\ UNCHANGED <<walletVars, job, tracks, fal, seen, applied, task, orphans,
                 crashes>>

PollFinished(row) ==
  /\ At(Poller, "idle")
  /\ row \in todo
  /\ todo' = todo \ {row}
  /\ \E outcome \in Reported(row) :
       task' = [task EXCEPT ![Poller] =
         [Dispatched(Poller, CurrentStage(row.stage), outcome)
            EXCEPT !.job = row.job]]
  /\ UNCHANGED <<walletVars, job, tracks, fal, seen, applied, orphans,
                 crashes>>

-----------------------------------------------------------------------------
(* Crash and recovery *)

\* list_orphans at the startup that follows.
Orphaned(j) == job[j].status = "queued" /\ job[j].rid = "none"

\* The coroutines are lost, the database stays, and the sweep of the next
\* start reads its orphans.
Crash ==
  /\ crashes < MaxCrashes
  /\ crashes' = crashes + 1
  /\ task' = [t \in Tasks |->
                IF t \in Jobs /\ ~At(t, "idle") THEN [Idle EXCEPT !.pc = "dead"]
                ELSE Idle]
  /\ todo' = {}
  /\ orphans' = {j \in Jobs : Orphaned(j)}
  /\ UNCHANGED <<walletVars, job, tracks, fal, seen, applied>>

\* recover_orphan_jobs: release, then mark failed, job by job.
RecoverOrphan(j) ==
  /\ At(Sweep, "idle")
  /\ j \in orphans
  /\ orphans' = orphans \ {j}
  /\ task' = [task EXCEPT ![Sweep] = [Idle EXCEPT !.pc = "release",
                                                  !.job = j]]
  /\ UNCHANGED <<walletVars, job, tracks, fal, seen, applied, todo, crashes>>

-----------------------------------------------------------------------------
(* The environment *)

FinishSubmission(j, kind, outcome) ==
  /\ fal[j][kind] = "running"
  /\ fal' = [fal EXCEPT ![j][kind] = outcome]
  /\ UNCHANGED <<walletVars, job, tracks, seen, applied, task, todo, orphans,
                 crashes>>

\* The billing webhooks work on the same wallets.
Grant(u, n, r) ==
  /\ Credit(u, n, "credit_subscription_grant", r)
  /\ UNCHANGED genVars

Freeze(u, frozen) == SetFrozen(u, frozen) /\ UNCHANGED genVars

-----------------------------------------------------------------------------

CreateJob(j) ==
  LookUpKey(j) \/ AddJob(j) \/ ReserveTokens(j) \/ SubmitMusic(j)

PipelineStep(t) ==
  \/ Advance(t) \/ PersistRuntime(t) \/ SubmitRefine(t) \/ CloneVoice(t)
  \/ SaveClonedVoice(t) \/ SubmitSpeech(t) \/ RecordSubmission(t)
  \/ FinalizeWithoutAudio(t) \/ CaptureTokens(t) \/ CommitTrack(t)
  \/ Fail(t) \/ MarkFallback(t) \/ ReleaseHold(t) \/ FailJob(t)

Webhook(h) ==
  \/ \E j \in Jobs, kind \in SubmitKinds : ClaimEvent(h, j, kind)
  \/ LookUpRequest(h)
  \/ MarkApplied(h)

Poll ==
  \/ FetchActiveJobs
  \/ \E row \in todo : PollPending(row) \/ PollFinished(row)

Environment ==
  \/ \E j \in Jobs, kind \in SubmitKinds, outcome \in Outcomes :
       FinishSubmission(j, kind, outcome)
  \/ \E u \in Users, n \in Amounts, r \in Credits : Grant(u, n, r)
  \/ \E u \in Users, frozen \in Freezes : Freeze(u, frozen)

GenNext ==
  \/ \E j \in Jobs : CreateJob(j)
  \/ \E t \in Tasks : PipelineStep(t)
  \/ \E h \in Hooks : Webhook(h)
  \/ Poll
  \/ Crash
  \/ \E j \in Jobs : RecoverOrphan(j)
  \/ Environment

GenSpec == GenInit /\ [][GenNext]_vars

\* The event loop runs every coroutine on; the provider finishes what it
\* accepted; a status or a submission may be refused, but not forever.  No
\* fairness is asked of the clients, of the billing side and of crashes.
Fairness ==
  /\ \A j \in Jobs :
       /\ WF_vars(AddJob(j) \/ ReserveTokens(j) \/ SubmitMusic(j))
       /\ SF_vars(\E row \in todo : row.job = j /\ PollFinished(row))
       /\ \A kind \in SubmitKinds :
            WF_vars(\E outcome \in Outcomes :
                      FinishSubmission(j, kind, outcome))
  /\ \A t \in Tasks :
       /\ WF_vars(PipelineStep(t))
       /\ SF_vars(SubmitRefine(t) /\ task'[t].pc = "setstage")
  /\ WF_vars(Poll)

FairGenSpec == GenSpec /\ Fairness

-----------------------------------------------------------------------------
(* Properties *)

OpenHold(j) ==
  /\ Posted(j, "debit_reserve")
  /\ ~Posted(j, "debit_capture")
  /\ ~Posted(j, "credit_release")

\* A delivered track was paid for, and a job says "succeeded" only when its
\* track is there: _finalize captures before the transaction that inserts the
\* track and marks the job, whichever tasks run it at once, whatever crashes.
PaidBeforeDelivered ==
  \A j \in Jobs :
    /\ j \in tracks => Posted(j, "debit_capture")
    /\ job[j].status = "succeeded" => j \in tracks

\* The provider works on a job only after the tokens of that job were set
\* aside, and only such a job is ever charged (create_job reserves before
\* Pipeline.start).
WorkIsHeld ==
  \A j \in Jobs :
    (\E kind \in SubmitKinds : fal[j][kind] # "none") \/
    Posted(j, "debit_capture") => Posted(j, "debit_reserve")

\* What the coroutine t relies on between two awaits.  Only its own request
\* works on a job before the job exists; every task past the reserve knows
\* the tokens are set aside, and the one about to commit that they are spent.
NoJobPCs == {"idle", "replied", "dead"}
UnheldPCs == NoJobPCs \cup {"add", "reserve", "release", "markfailed", "ack"}

LocalsOf(t) ==
  /\ task[t].pc \notin NoJobPCs => /\ JobOf(t) \in Jobs
                                   /\ t \in Jobs => JobOf(t) = t
  /\ task[t].pc \notin UnheldPCs => Posted(JobOf(t), "debit_reserve")
  /\ At(t, "advance") => task[t].stage \in AsyncStages
  /\ At(t, "setstage") => task[t].rid \in SubmitKinds
  /\ At(t, "fallback") => task[t].rid \in FallbackKinds
  /\ At(t, "commit") => Posted(JobOf(t), "debit_capture")
  /\ t \in Hooks /\ ~At(t, "idle") => <<JobOf(t), task[t].event>> \in seen

\* What a coroutine read or did before an await still holds when it goes on,
\* whatever ran meanwhile: its job, the hold, the charge, the claimed event.
LocalsHold == \A t \in Tasks : LocalsOf(t)

\* Two requests of one user with the same Idempotency-Key never make two
\* jobs, however they interleave (lookup and unique index in create_job).
OneJobPerKey ==
  \A i, j \in Jobs :
    job[i].status # "absent" /\ job[j].status # "absent" /\ SameKey(i, j) =>
      i = j

\* The tokens of a job are charged or given back, never both (_finalize
\* against fail and the rollback of create_job).
ChargedOrReturned ==
  \A j \in Jobs : ~(Posted(j, "debit_capture") /\ Posted(j, "credit_release"))

\* No token goes back to the owner of a job that was charged.  A release can
\* return tokens after the capture only out of the hold of another job:
\* WalletService.release clamps it by what the user has reserved.
NothingBackOnCharge ==
  \A j \in Jobs :
    Posted(j, "debit_capture") /\ Posted(j, "credit_release") =>
      ledger[<<j, "credit_release">>].amount = 0

HoldsOf(u) == {j \in Jobs : Owner[j] = u /\ OpenHold(j)}

\* reserved_tokens is the sum of the prices of the jobs whose hold is open:
\* no release or capture reaches into the hold of another job.
ReservedIsOpenHolds ==
  \A u \in Users : wallet[u].reserved = SumFunctionOnSet(Price, HoldsOf(u))

\* A finished job keeps no tokens set aside (fail and _finalize settle the
\* hold before they write the final status).
FinishedHoldsNothing == \A j \in Jobs : Terminal(j) => ~OpenHold(j)

\* A job the provider may still deliver for has its tokens set aside until
\* the very task that settles them is about to write the final status.
ProcessingIsHeld ==
  \A j \in Jobs :
    job[j].status = "processing" =>
      \/ OpenHold(j)
      \/ \E t \in Tasks : JobOf(t) = j /\ task[t].pc \in {"commit", "markfailed"}

\* While the fallback of a failed music stage is running, the job is not
\* failed: it waits for the new request (Pipeline.fail).
FallbackAwaited ==
  \A j \in Jobs :
    job[j].rid \in FallbackKinds /\ fal[j][job[j].rid] = "running" =>
      job[j].status # "failed"

\* An event whose outcome is "applied" was applied: its request is no longer
\* the one its job waits for (fal_webhook, finalize_from_webhook).
AppliedIsConsumed ==
  \A e \in applied : job[e[1]].rid = e[2] => Terminal(e[1])

\* captured_tokens of a finished job is what the ledger charged.
ChargeIsReported ==
  \A j \in Jobs :
    job[j].status = "succeeded" =>
      job[j].captured = -ledger[<<j, "debit_capture">>].amount

\* A job holds its tokens as long as the provider may still deliver for it,
\* and no longer.
HeldWhileOpen == FinishedHoldsNothing /\ ProcessingIsHeld

\* All that is promised of the tokens of a job, at any moment of any
\* interleaving: charged or returned, set aside exactly while it runs, never
\* given up under a running fallback, and reported as they were charged.
TokensSettled ==
  ChargedOrReturned /\ ReservedIsOpenHolds /\ HeldWhileOpen /\ FallbackAwaited
  /\ ChargeIsReported

\* A finished job stays as it finished, whatever webhooks and polls follow.
FinalStatusStep ==
  \A j \in Jobs : Terminal(j) => job'[j].status = job[j].status
FinalStatus == [][FinalStatusStep]_vars

\* A succeeded job is not taken up again: a repeated COMPLETED is ignored
\* (FalPoller._apply and Pipeline.advance).
NotReopenedStep ==
  \A j \in Jobs : job[j].status = "succeeded" => job'[j].status # "processing"
NotReopened == [][NotReopenedStep]_vars

\* The jobs and the wallet together keep the promise of TokenAccount.
Fate(j) ==
  IF Posted(j, "debit_capture") THEN "spent"
  ELSE IF Posted(j, "credit_release") THEN "returned"
  ELSE IF Posted(j, "debit_reserve") THEN "open"
  ELSE "none"

Account == INSTANCE TokenAccount WITH
  free <- [u \in Users |-> wallet[u].available],
  held <- [u \in Users |-> wallet[u].reserved],
  hold <- [j \in Jobs |-> Fate(j)],
  spent <- [j \in Jobs |-> IF Posted(j, "debit_capture")
                           THEN -ledger[<<j, "debit_capture">>].amount
                           ELSE 0]

\* Generation implements TokenAccount: every step of the pipeline, the
\* poller, the webhooks and create_job is a step of the account or no step.
KeepsAccount == Account!AccountSpec

\* Polling alone brings every job the provider works on to its end
\* (FalPoller, the way to the result when webhooks do not arrive).
PollingDelivers ==
  \A j \in Jobs : job[j].status = "processing" ~> Terminal(j)

=============================================================================
