# Verification of the music backend

The backend sells tokens, spends them on music generated by an external
provider (fal.ai), and must neither lose tokens nor deliver unpaid work while
HTTP requests, provider webhooks, a poller, billing webhooks and restarts
interleave over one PostgreSQL database. Around that core stand a rate limiter,
the migrations that run at every start, and the scripts that fill and move the
catalog of beats and samples. This directory models all of these in TLA+,
checks them with TLC and proves what it can with TLAPS.

- [Inventory](#inventory)
- [Modules and how they correspond to the code](#modules)
- [What the runs check](#runs), [bounds](#bounds), [fairness](#fairness)
- [Where the code departs from what it says](#disagreements)
- [What is proved](#proofs)
- [What is only checked, abstracted or left out](#limits)
- [Plan](#plan)

Run everything from this directory: `tlc -workers 2 -config MCGenPoll.cfg
MCGeneration`, `tlapm GenerationProofs.tla`.

<a name="inventory"></a>
## Inventory

| Component (source under `src/app/`) | State | Operations | Interacts with | Hard behaviour |
|---|---|---|---|---|
| Wallet and ledger (`music/services/wallet_service.py`, `repositories/ledger.py`, `wallets.py`) | `token_wallets` (available, reserved, frozen), `token_ledger` with a unique `idempotency_key` | reserve, capture, release, credit, credit_in_session, set_frozen | called by everything else, inside one transaction that locks the wallet row | repeats, clamping, CHECK constraints, one key met by two users |
| Track generation (`generation_service.py`, `api/v1/music/tracks.py`) | row of `jobs`, client Idempotency-Key | create_job, finalize_from_webhook | wallet, gate, pricing, pipeline | two requests with one key; a step fails after the row is committed |
| Pipeline (`pipeline.py`) | `jobs` (status, current_stage, provider_request_id, provider_model, `input_payload._runtime`), `tracks`, `job_stage_log` | start, advance, fail, the fallback, refinement, vocal, _finalize | fal, wallet | every method has several awaits; three callers run it at once on one job |
| fal webhook (`api/v1/music/webhooks.py`, `repositories/webhooks.py`) | `processed_webhooks` | claim, dispatch, mark applied | generation | duplicates, early arrival, overlap with the poller |
| Poller (`poller.py`) | the rows of one iteration, in memory | select active jobs, ask fal, dispatch | pipeline, fal | acts on a row that changed since; one exception ends the iteration |
| Recovery (`recovery.py`, `main.py`) | – | release and fail queued jobs without a request id | wallet, jobs | meets jobs at every stage of create_job |
| fal client (`providers/fal/client.py`) | – | submit, fetch_status, parse_webhook_event | external provider | a result that cannot be fetched is reported as a failure; a 404 as "in queue" |
| Billing webhooks (`webhook_billing.py`, `repositories/users.py`, `subscriptions.py`) | `subscription_state`, `processed_webhooks`, wallet | claim, apply (subscription, wallet, mark) in one transaction | wallet | events in any order, twice, two at once; failure between the phases |
| Subscription gate (`subscription_gate.py`) | `subscription_state`, wallet.frozen | ensure_active with lazy expiry | wallet | races with a renewal |
| Billing parsers (`providers/billing/adapty.py`, `rf.py`) and their endpoints in `webhooks.py` | – | parse a payload into a normalized event, answer tests and refusals | billing webhooks | one field under several names; the access flag overrides the type |
| Pricing (`pricing_service.py`, `repositories/pricing.py`) | `pricing_rules` | pick the rule in force, precharge, capture price | generation, pipeline | decimal rounding before ceil/floor; an actual price above the hold |
| Rate limiting (`middleware/rate_limit.py`) | one token bucket per user, in the memory of the process | consume, dispatch | the API key map of the settings | the cap while idle, rounding of Retry-After, several keys of one user |
| Migrations and deployment (`migrations/versions/`, `entrypoint.sh`, `deploy/scripts/deploy.sh`; models in `db/models/`) | schema, `alembic_version`, `pricing_rules`, `token_products` | upgrade, downgrade, start of a new image | every table of the service | an upgrade after any downgrade; seed data applied once; image and database of different ages |
| Seeds and catalog (`scripts/seed_*.py`, `migrate_to_local_storage.py`, `rewrite_seed_to_local.py`, `music/seed/`, `music/tags.py`, the beats and samples endpoints) | seed files, `build/`, the static files of nginx, `beats`, `samples` | search and download, push, scp, rm, wipe, reseed, migrate, rewrite, list | files, image and rows of three places | commands given one by one by hand while clients read; any of them cut off |
| Stage log, audio, URL checks, authentication, fal stub, `smoke.py`, `e2e_prod.py` | see `PROJECT.json` | | | read-only, pure I/O or outside the service |

What makes each of them correct:

- *Wallet*: balances never go negative; the ledger is append-only and alone
  explains the balances; a repeated call moves nothing.
- *Generation*: at most one job for an Idempotency-Key; the provider works
  only against tokens set aside; the tokens of a job are charged or given back
  and never both; no job settles with the hold of another; a finished job holds
  nothing, stays finished, reports what was charged; no track without a charge.
- *Pipeline*: what a coroutine read before an await is still true after it; a
  fallback that runs is waited for.
- *Poller, webhook*: either alone settles every job correctly; polling alone
  ends every job.
- *Rate limiting*: no stretch of time lets through more than the burst and the
  rate allow; a client that obeys Retry-After is let through.
- *Migrations*: every downgrade undoes its upgrade, so no history leaves a
  database on which an image that knows its revision cannot start; the models
  find what they declare; jobs are lost only with their table, and not while
  they refer to a rule of the image's `pricing.json`.
- *Catalog*: files come before the rows that name them; an item is the sound it
  is titled after; no sound is offered twice; seed files and rows name the same
  files, but for rows whose download failed.
- *Billing*: each period, pack and grant counts once in whatever order and
  however often events come; the wallet is frozen exactly with an expired
  subscription; the end of a subscription never moves back; no acknowledged
  event is lost.

<a name="modules"></a>
## Modules

```
TokenAccount            what a wallet promises the owner of a job (abstract)
   ^ refinement
Wallet  <-- Generation  (EXTENDS: create_job, pipeline, webhook, poller, sweep)
        <-- Billing     (EXTENDS: billing webhooks, gate)
Pricing                 prices and charges, the constants of MCGeneration
BillingEvents           the parsers, the source of the events of MCBilling
RateLimit               the middleware in front of every request
Migrations <-- Deployment                    schema as data; releases and starts
Seeds <-- SeedScripts <-- Catalog            tables; scripts; server and clients
MCWallet, MCGeneration, MCBilling, MCRateLimit, MCDeployment, MCCatalog
                                             instances for TLC
WalletProofs <-- GenerationProofs <-- ChannelProofs <-- AccountProofs
             <-- BillingProofs
DeploymentProofs;  CatalogProofs;  RateLimitProofs     theorems and proofs
```

**`Wallet`.** Every method of `WalletService` is one transaction that first
locks the wallet row (`WalletsRepository.ensure_exists`, FOR UPDATE), so every
method is one action. Its outcomes are separate operators (`Reserve`,
`ReserveRefused`, `Duplicate`, `CaptureAborts`, ...), because callers branch on
them. `ledger[<<ref, kind>>]` is the row with the key `ref_type:ref_id:kind`.
`CaptureAborts` is the CHECK constraint on `reserved_tokens`. `WalletNext` is
the wallet under any caller.

**`TokenAccount`** has no ledger and no retries: tokens are set aside once and
then spent in part or returned in full, once. `Generation` maps to it by
`Fate(j)`, read off the ledger keys of the job.

**`Generation`.** A *task* is a coroutine: a request that creates a job, a
webhook delivery, the poller, the startup sweep. `task[t]` holds its locals
and `pc` the place between two awaits; each database transaction or provider
call is one action. `Advance` … `FailJob` are the bodies of `Pipeline.advance`,
`_finalize` and `fail`, shared by the tasks as in the code.

| `pc` | next action | code |
|---|---|---|
| `idle` → `add` → `reserve` → `submit` | `LookUpKey`, `AddJob`, `ReserveTokens`, `SubmitMusic` | `create_job`, `Pipeline.start` |
| `claimed`, `ack` | `LookUpRequest`, `MarkApplied` | `fal_webhook`, `finalize_from_webhook` |
| `advance`, `persist` | `Advance`, `PersistRuntime` | `Pipeline.advance` |
| `refine`, `tts`, `saveclone`, `speech`, `setstage` | `SubmitRefine`, `CloneVoice`, `SaveClonedVoice`, `SubmitSpeech`, `RecordSubmission` | the optional stages |
| `finalize`, `commit` | `FinalizeWithoutAudio`, `CaptureTokens`, `CommitTrack` | `_finalize` |
| `fail`, `fallback`, `release`, `markfailed` | `Fail`, `MarkFallback`, `ReleaseHold`, `FailJob` | `fail`, rollback of `create_job`, the sweep |

`fal[j][kind]` is the provider's side of a submission. `FetchActiveJobs`
copies rows into `todo`, and `PollFinished` works on the copy, as the poller
does. `Crash` drops all tasks and keeps the database; requests are served again
when the sweep has finished.

**`Billing`.** A delivery claims its event in one transaction and applies it in
another. The second one is split where other users' transactions can
overlap: `BeginApply` takes the locks of its user and looks for the ledger
entry, `CommitApply` makes every change at once. `CreditNotFound` is
`credit_in_session` after that look: balance first, `INSERT ... ON CONFLICT DO
NOTHING` second.

**`Pricing`** and **`BillingEvents`** are pure: operators without state.
`Generation` is parameterised by `Price[j]`, what a job sets aside, and
`Charge[j]`, what its track may turn out to cost; `MCGeneration` computes both
from pricing rules with `Precharge` and `Captured`, for actual durations below,
at and above the requested one, an unknown one, and the model of a fallback. A
`Decimal` is a fraction rounded half-even to `Digits` significant digits, as
Python's context does; the runs use 3. `Billing` is parameterised by
`EventOf`; `MCBilling` gets it from payloads, as the endpoints `AdaptyWebhook` and
`RfWebhook` make them, refused and test payloads included.

**`RateLimit`.** `dispatch` is the middleware: a path of `SKIP_PATHS` and an
unknown key pass by, any other request is `Allow` or `Refuse`, the two
outcomes of `TokenBucket.consume`. Time is in ticks and a bucket in parts of a
request (`Cost` parts each), so the refill of a tick is the integer
`PerMinute`. `opened` and `granted` are a window of time that may begin at any
moment (`Open`), `due` what the client was promised; `Restart` empties
the dictionary of buckets.

**`Migrations`** holds 0001 … 0005 as data: each a sequence of DDL operations on a
schema of tables (columns, columns an INSERT must give, unique sets, foreign
keys, enum columns, indexes). `Execute` refuses what PostgreSQL refuses, `Run`
folds it over a migration. **`Deployment`** moves one database through
releases:

| Action | Code |
|---|---|
| `Release`, `Stop` | another image, newer or older, `docker compose up -d` in `deploy/scripts/deploy.sh` |
| `Start` | `entrypoint.sh`: all pending migrations in one transaction, then uvicorn; a failure, or a revision the image does not have (`Located`), leaves `api = "failed"` |
| `Downgrade(to)` | `alembic downgrade`, with what the downgrade of 0002 deletes and the foreign key that stops it |
| `StartJob(rule)` | a track request, as the row that refers to a pricing rule |

`Models` and `Members` are the ORM's side: the columns, unique sets and enum
members the code relies on.

**`Seeds`** has the tag vocabulary, the importers' checks and the search tables
of the three Freesound scripts (`Plan`: one slot per search; the nested loops of
the code are the index arithmetic of `Outer` and `Inner`); **`SeedScripts`** runs a
script slot by slot, `MoveOn` going to the next search that may find anything
(`Fruitful`; the proofs are for any set of them):
`fetch_and_upload` (`seed_content.py`), `FetchSamples`, `FetchBeat` (the 3x
scripts), `WriteBeats`, `WriteSamples`, `Abort`, `Rewrite`
(`rewrite_seed_to_local.py`). **`Catalog`** adds the server. An operator follows a
programme of tasks (`Programmes`); `Runbook` gives for each the commands that
go with it, in their order: those `seed_content.py` and `seed_beats_3x.py` print, and
for `seed_samples_3x.py`, which prints none, those its files need; `step` is the next one, and a task may be left
out. `MigrateBegin` … `MigrateCommit` are
`migrate_to_local_storage.py`, row by row: the rows change in one transaction,
the files at once, and `MigrateCrash` keeps only the files. `Reseed` is
`run_seed`, `list_beats`, `list_samples` and `group_samples_by_category` are
what the clients get.

<a name="runs"></a>
## Runs

| Run | Asks | Answer |
|---|---|---|
| `wallet` | Do any orders of all wallet calls, two users meeting under one reference, leave balances the ledger explains? | yes |
| `poll` | Two jobs of one user, poller alone, fallbacks, freezes: settled exactly once, `TokenAccount` kept? | yes |
| `hook` | The same with webhooks alone, two deliveries at once, a job with all optional stages | yes |
| `all` | Webhook, poller, sweep, crash, every provider outcome at once: nothing unpaid, locals valid, ledger exact? | yes |
| `live` | One job for one key; polling alone ends every job without optional stages | yes |
| `bill_life` | A subscription's life in every order with duplicates: everything counted once | yes |
| `bill_faults` | Failed second phases and crashes, two users: nothing half-applied | yes |
| `ratelimit` | Two keys of one user at one bucket: the window bound, and a Retry-After that is long enough | yes |
| `deploy` | Every history of releases forward and back, starts and downgrades: schema right, start stuck only for an image older than the database, jobs lost only with their table | yes |
| `catalog` | The repository's history of catalog tasks, with failed searches and downloads, a cut-off and tasks left out: seed files without a sound twice, files before the rows that name them, items play what they say, seed files and rows agree | yes |
| `vio_two_channels`, `vio_lost` | see below | no |

Each passing property has a mutant: a variant of a mapped definition (the
operators commented "Mutant of ...") that must break it.

`ReservedIsOpenHolds`, `ChargedOrReturned` and the other settlement properties
are checked with one channel and without crashes, because with both channels
or with a crash the code breaks them: that is what `vio_two_channels` and the
list below show. With both channels and crashes the weaker facts of `all` are
what remains true, and those are also proved; so are all the properties of
`poll` and `hook`, for any number of jobs and deliveries. `poll` and `hook` leave the
outcome "completed without audio" out, because of `MCGenVioNoAudio` below.

Some properties are conjunctions of the parts of one promise: `HeldWhileOpen`
(a processing job has its hold, a finished one has none), `TokensSettled` (the
settlement properties of `poll`, for `hook`), `EventsSettled` (everything
counted once and frozen with its status, after faults), `SeedFilesSound` (the files load, no sound
and no URL twice).

<a name="bounds"></a>
### Bounds

- *Jobs*: two jobs of one user with prices 2 and 1 and grants of 2 or 3: the
  grant pays for one or for both, so a job can take the other's hold. All
  interactions of jobs go through one wallet, pairwise. `all` has one job, since
  three channels and the optional stages already meet on it.
- *Hooks*: two deliveries overlap in `hook`; more only repeat the same steps, as
  an event is claimed once.
- *MaxCrashes = 1*: a second crash finds states of the same kind; the proofs
  hold for any number.
- *Outcomes*: ok, empty (no audio), failed, canceled; a failed poll of a
  result adds "failed".
- *Billing*: two deliveries at once, times 0..3, periods ending at different
  times, tokens 1 and 2, refunds larger than what is left; `Horizon` and
  `MaxFaults` are the only caps.
- *Rate limit*: 25 a minute with a burst of 2 is one request every 2.4 seconds, so
  Retry-After must round; 15 ticks let a bucket drain, be refused, refill and
  reach its cap again. The proofs cover every rate, burst and clock.
- *Deployment*: nothing is bounded but the editions of the seed files: three.
  The second adds a model and a subscription; the third re-dates one rule, drops
  the other and a pack, and adds a pack. Any image from 0002 on may follow any
  other, with any edition, so rows of one edition meet another after a downgrade.
- *Catalog*: three sounds (interchangeable, hence the symmetry), one genre, one
  tagged and one untagged category, two sounds per tag, so that sounds run out,
  repeat and leave numbers free; `MaxCrashes = 1`. `seed_samples_3x.py` searches
  for the tag alone and `seed_beats_3x.py` for two of its three titles; `SlotsLoad`
  evaluates the complete tables.
  `Histories` are content, local, beats_3x and samples_3x in this order, with any of
  them left out, and samples_3x repeated. The committed seed files show that all four
  were run, and the files that the `rm` of `seed_beats_3x` removes are made by the
  migration alone.
- `CHECK_DEADLOCK FALSE` wherever clients have finite work: once every request
  is answered and nothing is running, the system rests. `wallet` can always
  step and keeps the deadlock check.

<a name="fairness"></a>
### Fairness (`FairGenSpec`, run `live`)

- Weak fairness of `PipelineStep(t)` and of the steps of `create_job`: asyncio
  runs every coroutine on; each await has a timeout.
- Weak fairness of `Poll`: `_run` loops for ever and catches every exception.
- Weak fairness of `FinishSubmission`: fal ends what it accepted.
- Strong fairness of `PollFinished` per job and of an accepted `SubmitRefine`:
  a status or submission may be refused again and again, not for ever. This is
  an assumption about fal and the network, not about this code.
- None for clients, billing, crashes.

<a name="disagreements"></a>
## Where the code departs from what it says

Two runs check a sentence of the repository that the code does not keep;
`PROJECT.json` quotes it under "findings".

| Run | Property | What happens |
|---|---|---|
| `vio_two_channels` | `NothingBackOnCharge` | The webhook captures; the poller, whose result request got an error (`client.py:503-509` reports that as FAILED), releases the same job. |
| `vio_lost` | `NoEventLost` | The claim of a billing event survives a rollback of phase 2; every redelivery is answered `duplicate` with 200. |

What `NothingBackOnCharge` says needs two jobs of one user. `WalletService.release`
clamps by all the user has reserved, so the release of a job whose hold is spent
returns tokens out of the hold of the other job; with no other job it posts an entry
of 0 and returns nothing, and if the release comes before the charge, the capture
aborts on the CHECK constraint. In front of the release `fail()` tries a
fallback, so this happens where fal refuses the fallback or it was used before.

More disagreements have a configuration here, to be run in the same way
(`tlc -config <cfg> <module>`), and each ends with a counterexample:

| Configuration | Property | What happens |
|---|---|---|
| `MCGenVioPhantom` | `ReservedIsOpenHolds` | A crash between the insert of a job and its reserve (`generation_service.py:118`, `:130`): the sweep releases a hold that was never made, out of another job's hold. |
| `MCGenVioNoAudio` | `FinishedHoldsNothing` | A completed stage without an audio URL: `_finalize` marks the job failed and never releases the hold (`pipeline.py:586-596`; `tokens.py:43-44` promises a return). |
| `MCGenVioCrashInFail` | `NothingBackOnCharge` | A crash between capture and commit of the track leaves a charged job that is polled again; a result request that fails then releases it. |
| `MCGenVioFallback` | `FallbackAwaited` | Webhook starts the fallback, the poller with its older row sees `_music_fallback_used` and fails the job. |
| `MCGenVioEarlyHook` | `AppliedIsConsumed` | A webhook that comes before `set_current_stage` is committed finds no job and is marked applied. |
| `MCGenVioReopened` | `NotReopened` | A task that decided on the next stage before another one finished the job writes `processing` over `succeeded` (`pipeline.py:723`). |
| `MCGenVioPollRefine` | `PollingDelivers` | The poller builds the status URL from `jobs.provider_model`, the music model, also for a refinement; the 404 is read as IN_QUEUE for ever. |
| `MCBillVioPeriod` | `CreditedOnce` | The key of a period grant has no user: the second user of a product with the same end gets nothing. |
| `MCBillVioUnrecorded` | `BalancesRebuild` | Two such transactions overlap: two balances move, one entry is written. |
| `MCBillVioCanceled` | `AdmittedMaySpend` | "canceled" after "expired": the gate admits, the frozen wallet refuses. |
| `MCBillVioNoEnd` | `GateWaitsForExpiry` | An active subscription without `expires_at` is expired at the first request. |
| `MCDeployVioListed` | `SubscriptionsHidden` | 0002 inserts the products without `is_subscription`, 0005 adds the column as false for every row, and nothing sets it: subscriptions are listed as token packs (`product.py:51-53`). |
| `MCDeployVioSeeds` | `SeedsApplied` | 0002 runs once for a database: a model or product added to the seed files later is never inserted (`README.md:324` of the repository). |
| `MCDeployVioJobs` | `NoJobLost` | A later `pricing.json` drops or re-dates a rule: 0002's downgrade does not delete the old one (`0002:84-93`), its foreign key stops nothing, and 0001's drops the jobs. |
| `MCCatalogVioRemoved` | `ServedFilesExist` | After content and local, the `rm` that `seed_beats_3x.py:153` prints takes `{genre}.mp3`; the rows of those files stay, as the reseed upserts by URL. |
| `MCCatalogVioUnmigrated` | `SeedFilesReflectRows` | A download of the migration fails and its row stays at fal; the rewrite gives its seed row a local URL, so loading the files adds a second row, without a file. |
| `MCCatalogVioReused` | `PlaysWhatItSays` | A second round of content is migrated: the new beat of a genre gets the file name of the old one, which exists and is kept (`migrate_to_local_storage.py:58`, `:61`). |
| `MCCatalogVioPartial` | `ServedFilesWhole` | A `write_bytes` that is cut off leaves half a file, and the next run takes it for downloaded (`migrate_to_local_storage.py:61`). |
| `MCCatalogVioTies` | `ListingOrderTotal` | Rows of the same category, `sort_order` and title tie in ORDER BY, so pages by OFFSET may repeat or miss one (`repositories/samples.py:26`). |

<a name="proofs"></a>
## What is proved

For every set of users, jobs, references, hooks, events, every price, plan, key,
rate, edition of the seed files, sound, programme and bound, TLAPS proves:

| Theorem | Statement |
|---|---|
| `WalletType` | `WalletSpec => []WalletTypeOK`: no balance below zero, no malformed entry |
| `WalletJournaled` | `WalletSpec => Journaled`: append-only, every move stated exactly by a new entry |
| `GenerationType` | `GenSpec => []GenTypeOK` |
| `DeliveryIsPaid` | `GenSpec => []PaidBeforeDelivered`: no track and no "succeeded" without a charge |
| `WorkNeedsHold` | `GenSpec => []WorkIsHeld`: no provider work and no charge without a hold |
| `LocalsStayTrue` | `GenSpec => []LocalsHold` |
| `GenerationUsesWallet` | `GenSpec => WalletSpec`: `Generation` implements the wallet specification |
| `GenerationJournaled` | `GenSpec => Journaled` |
| `OneJobForKey` | `GenSpec => []OneJobPerKey` |
| `SettledOnce` | `OneChannel /\ GenSpec => []ChargedOrReturned` |
| `ReportedAsCharged` | `OneChannel /\ GenSpec => []ChargeIsReported` |
| `FallbackIsAwaited` | `OneChannel /\ GenSpec => []FallbackAwaited` |
| `FinalStatusKept` | `OneChannel /\ GenSpec => FinalStatus` |
| `HeldWhileProcessing` | `OneChannel /\ GenSpec => []ProcessingIsHeld` |
| `HeldExactlyWhileOpen` | `OneChannel /\ Sounding /\ GenSpec => []HeldWhileOpen` |
| `WalletRebuilds` | `WalletSpec => []BalancesRebuild`: the balances are the sums of the ledger |
| `GenerationRebuilds` | `GenSpec => []BalancesRebuild` |
| `ReservedUnderSettling` | `GenSpec /\ []SettlesHolds => []ReservedIsOpenHolds`: reserved tokens are the sum of the open holds |
| `AccountUnderSettling` | `GenSpec /\ []SettlesHolds => KeepsAccount`: `Generation` implements `TokenAccount` |
| `NoPhantomReturn` | `MaxCrashes = 0 /\ GenSpec => []ReturnedWasHeld`: nothing is returned that was never held |
| `ChannelReserves` | `OneChannel /\ GenSpec => []ReservedIsOpenHolds` |
| `ChannelKeepsAccount` | `OneChannel /\ GenSpec => KeepsAccount` |
| `ChannelSettlesTokens` | `OneChannel /\ Sounding /\ GenSpec => []TokensSettled` |
| `BillingTypeCorrect` | `BillingSpec => []BillingTypeOK` |
| `FrozenFollowsStatus` | `BillingSpec => []FrozenWithStatus`: the wallet is frozen exactly by an expired subscription |
| `ExpiryKept` | `BillingSpec => ExpiryNeverShrinks` |
| `NothingLostUnlessFault` | with `MaxFaults = 0`, `BillingSpec => []NoEventLost` |
| `EventsCreditedOnce` | with `UsersApart`, `BillingSpec => []CreditedOnce` |
| `BillingSettles` | with `UsersApart`, `BillingSpec => []EventsSettled` |
| `BillingJournaled` | with `UsersApart`, `BillingSpec => Journaled` |
| `BillingRebuilds` | with `UsersApart`, `BillingSpec => []BalancesRebuild` |
| `DeploymentType` | `Spec => []DeploymentTypeOK` of `Deployment`, for any editions |
| `SchemaFollowsRevision` | with `MigrationsSound`, `Spec => []SchemaMatchesRevision` |
| `UpgradesSucceed` | with `MigrationsSound` and `SeedsApart`, `Spec => []UpgradeNeverStuck` |
| `JobsSurvive` | with `MigrationsSound`, `Spec => JobsKept`: jobs go only with their table, and not while a rule of the image's file has one and 0002 is to be undone |
| `SchemaServes` | with `MigrationsSound`, `Spec => []ServedSchemaFits` |
| `TablesSound` | the search tables load, and claim no number or file twice |
| `TypeCorrect` | `Spec => []CatalogTypeOK` of `Catalog`, from `ShapeHolds` |
| `SeedsSound` | no `beats_3x` before `local`: `Spec => []SeedFilesSound` |
| `FilesFirst` | `Spec => FilesComeFirst`: for any order of tasks, no step but the `rm` takes the file of a listed item or lists one without a file |
| `RowsAgree` | neither 3x task before `local`: `Spec => []MigrationAgrees` |
| `PlaysRight` | the same and no `local` before `content`: `Spec => []PlaysWhatItSays` |
| `OnTrackHolds`, `UploadsHold`, `StagedHolds` | the invariants these rest on |
| `RateTypeCorrect` | `Spec => []RateTypeOK` of `RateLimit`: a bucket stays within its capacity |
| `WindowBounded` | `Spec => []WindowBound` |
| `RetryAfterKept` | `Spec => []RetryAfterHonoured` |

Assumptions: those named in the modules. `OwnerAssumption`, `PriceAssumption`
(prices are positive: `PricingService` takes `max(1, ...)`),
`ChargeAssumption` (a charge is at least 1 and at most the price: `_finalize`
takes `min(captured, reserved)`), `DigitsAssumption`,
`AmountsAssumption`, `NoneAssumption`, `PerTagAssumption`, `FruitfulAssumption`,
`ProgrammesAssumption`, `CrashesAssumption` (of the catalog, types only),
`RefsAssumption` (the `ref_type` of a
job differs from those of billing), `PlanAssumption`, `OutcomesAssumption`,
`SwitchAssumption`, `NamesAssumption` (names of tasks are distinct),
`EventsAssumption`, `ProductsAssumption`, `BoundsAssumption` (events, products
and bounds are of their types), `CreditsAssumption` (the references of events
are among `Credits`), `PeriodsAssumption` (a period is no event: the `ref_type`
of a grant for a period is "subscription_period", of any other credit it is
another), `RateAssumption` (the rate is positive, as `main.py`
mounts the limiter only then). TLC evaluates them in every run that uses the
module, and `SeedFilesType` (each edition is a set of rules and one of products)
in `deploy`.

Hypotheses beyond them are part of a theorem's statement: `OneChannel` and
`Sounding`, `SettlesHolds`, `UsersApart`, `MigrationsSound`, `SeedsApart`, and for
the catalog that one task never comes after another in a programme. For each
the paragraphs below say where it holds and what breaks without it.

*Wallet.* `WalletTypeOK` is inductive: one lemma per call, resting on
`PostType` (what `Post` writes is a balance and an entry when the moved balances
are naturals) and `LeastType` (the clamps). The journal step is proved per call
by `PostJournal`, `EntryJournal` and `FlagJournal`.

*Sums.* `BalancesRebuild` says that a balance is the sum of what the entries of its
user say. The library's sum is a recursion over subsets, and the induction
theorems are out of reach, so `WalletProofs` proves what is needed (the order of
the elements does not matter; adding, removing or changing an element
changes the sum by its share) from the fact that a nonempty set of subsets of a
finite set has a minimal element, taken for the set of counterexamples. A step
then keeps the sums because it writes at most one entry, and
that entry states the move of both balances: `WalletRebuilds`. As the sums follow
from the wallet's own steps, `GenerationRebuilds` comes with `GenerationUsesWallet`.

*Generation.* `PaidBeforeDelivered` is not inductive: `CommitTrack` needs to
know that its own task captured before, while anything could have run in
between. So

    GenInv == GenTypeOK /\ LocalsHold /\ FinalizeIsLast
              /\ PaidBeforeDelivered /\ WorkIsHeld

`LocalsHold` says of each task what its place in the code entitles it to rely on:
its job, that the reserve is posted once it is past it, that the capture is
posted in front of the commit. It survives other tasks because ledger entries
are never removed (`Journaled`). `FinalizeIsLast` ties the stage
`finalize` to `succeeded`. One lemma per action, combined in the inductive step;
`GenerationUsesWallet` then needs only that each action makes a wallet call or
none, and `GenerationJournaled` follows from it by `WalletJournaled`.

*One job for a key.* Only `AddJob` inserts a row, under the unique index on user
and key, but every action of the pipeline writes rows too. That none of them
writes a row that was never inserted is `RowsExist`: a posted reserve has a row,
a task between the insert and its end has one, and so do the orphans of the
sweep. It is inductive relative to `GenInv`, and then a step either keeps the
set of rows or is the `AddJob` whose guard is the unique index (`OneJobStep`).

*One channel.* The settlement properties need two hypotheses, stated in the
theorems and met by the runs `poll` and `hook`: `OneChannel` (the poller or the
webhook, as the switch of the settings has it, and no crash) and, for
`HeldExactlyWhileOpen`, `Sounding` (no submission ends well without an audio
URL). Each is needed: `vio_two_channels`, `MCGenVioCrashInFail` and
`MCGenVioNoAudio` break the properties without them. The invariant `Alone` says
that the request is the only one to work on its job until it has recorded the
request id, and that afterwards one task of the channel does, for an unfinished
job whose request has ended (`OneWorker`). For the poller that is so because it has
one row in hand and the rows of the current iteration are still as they were
read (`TodoFresh`). For the webhook any number of deliveries run at once: no two
hold the claim of one event (`ClaimsApart`, from the unique key of
`processed_webhooks`), and a delivery inside the pipeline is about the very request
the row still waits for, so two of them on one job would be about one event.
Then a posted capture or release is followed by the final status, written by the
same task with the same amount (`SettledAsSaid`). `SameKeeps` and `TaskStep` reduce
a step to the job it is about, and `RequestStep`, `WorkerWrites`, `WorkerMove` and
`WorkerStep` to the few conditions on the new row and locals; `TakesUp` is the
step by which the poller or a delivery takes up a job. For
`HeldExactlyWhileOpen`, `Heard` adds that the music URL is in the runtime of the row
whenever it waits for a refinement or a voice (`RowSounds`), and in the locals of the
task or in the row from `advance` to `_finalize` (`Carries`), so that every job
that is finalized has its music.

*The account.* Under all channels and crashes the code can return tokens it has
charged (`vio_two_channels`) or never set aside (`MCGenVioPhantom`). That these two
are the only ways to break the promise of `TokenAccount` is the content of
`ReservedUnderSettling` and `AccountUnderSettling`: in every behaviour in which
neither happens (`SettlesHolds`), whatever channels run and whatever crashes,
the reserved balance is the sum of the open holds, so the clamp of `Release` never
cuts and no capture meets the CHECK constraint, and each step maps to one of
`TokenAccount` or to a stutter. `WalletUse` reduces a step of `Generation` to a wallet call
for one job, `AccountMove` to a call on an open or a new hold, and `AccountStep` maps
that. The second condition holds whenever nothing crashes (`NoPhantomReturn`: a
task about to release holds a posted reserve), the first under
`OneChannel` (`SettledOnce`), so polling alone and the webhook alone have the
refinement without a condition.

*Billing.* `BillingInv == BillingTypeOK /\ UnderWay`: a delivery under way has
an event. Each branch of `CommitApply` is a lemma over the tables of its user
(the subscription, the wallet and the frozen flag move together), which gives
`FrozenFollowsStatus` and `ExpiryKept` directly. Without faults a claimed event
is applied or has a delivery under way (`ClaimsKept`); `vio_lost` shows
that one fault is enough to break it.

`CreditedOnce` compares the sum of a user's credits in the ledger with the sum of
what the applied periods, grants and packs are worth. `CreditInv` adds that what a
delivery found in the ledger before it writes is still so when it commits, as
it holds the rows of its user (`LocksHold`), and that every credit entry belongs to an
applied event and conversely (`CreditsExplained`). Then a commit either writes
the one new entry and adds its event to what is owed, or does neither. The
hypothesis `UsersApart` says that events with one reference have one user. The key of
a period names the product and the end and not the user
(`webhook_billing.py:120-128`), so the code does not guarantee it: without it
the lock of a user no longer protects the entry, and `MCBillVioPeriod` and
`MCBillVioUnrecorded` break `CreditedOnce` and `BalancesRebuild`. Events of one
user per product and end, as in `bill_life`, satisfy it.

*Deployment.* What a migration does to a schema is a fold over its operations,
and folds are out of the prover's reach. But the migrations are data: that
the path between any two revisions leads from the one's schema to the other's, and that a
rule with jobs stays, and that the newest schema has what the models declare
(`Fits`), has no variable and no constant, and TLC evaluates it once and for all
(`MigrationsSound`, with `MCDeployPaths.cfg`, which TLC passes; `deploy` walks the same
paths). From that the theorems follow for histories of any length, images in any
order and any seed files. `JobsSurvive` rests on `jobs \subseteq rules` of
`DeploymentTypeOK`: a downgrade from 0002 or later to nothing deletes the rules of the
image's file first, and a job that refers to one of them stops it. A rule that this
file no longer has is not deleted, and its jobs go with the table
(`MCDeployVioJobs`). `RowsFit` adds that the code and external id of every product are
those of one in some edition, so an insert of 0002 after any downgrade cannot meet the
unique constraint unless two products of the editions have one external id
(`SeedsApart`). `SchemaServes` needs one invariant more,
`UpToDate`: while the API serves, the database is at the newest revision of its
image, because the entrypoint starts uvicorn only after the upgrade.

*Catalog.* The proofs are for any sounds, fruitful searches, programmes and
number of cut-offs, and for the complete tables: `TablesSound` says of every
slot, by the index arithmetic of the loops, what a reseed and the numbering
need. The invariant is a chain, each link using the ones before it:

| Link | Says |
|---|---|
| `Shape` | types and places: which command, script or migration is under way; URLs are unique in the table and in what a migration sees |
| `OnTrack` | the task at hand and those ahead follow each other in a programme |
| `Drafted`, `Kept`, `BeatsApart` | each row of the draft, and then of the files, has a sound and a number of its own |
| `Uploads` | an object of fal's storage holds the sound of every row that names it, in draft, file, image and table |
| `Staged` | what the place in a runbook entitles to: after `push` the image has the seed files, after `scp` the server has the files the new seed file names, before `reseed` the tables are empty, after `rewrite` every URL is local |
| `Served` | a local URL in the table, or in what a migration sees, has its file |
| `Agreed` | from before a migration to its end, each row is a row of the seed files but for its URL |
| `NothingBuilt`, `LocalsHeld`, `BuildsHeld`, `Played` | the file a row names, or would name after a migration, holds the sound of the row |

A migration is the hard part: the rows it has moved are seen by its own
transaction only, its files by everybody at once, and a crash drops the one and keeps
the other. So the links speak of the table and of that view, and of files before any
row names them.

That no step but the `rm` takes the file of a listed item, or lists an item without
one (`FilesFirst`), needs none of the hypotheses below: `ViewThere` says that what a
migration will commit is a row the table has or one whose file is there. That every
listed file is there at every moment is not so, in the very order of the history
(`MCCatalogVioRemoved`).

The hypotheses of the others exclude orders of tasks against which the code has no
protection; `Histories` of `MCCatalog`, the order of the repository's history among
them, satisfies all. `rewrite_seed_to_local.py` gives the beats of a genre one file
name, so after `seed_beats_3x.py`, which makes three of a genre, two rows of
`beats.json` have one URL (`SeedsSound`, `RowsAgree`). The rows that the reseed of
`seed_samples_3x.py` leaves beside its own are in no seed file (`RowsAgree`). A file
name that is used again breaks `PlaysRight`: `content` and `local` after `local`
(`MCCatalogVioReused`) or after `samples_3x`. With such an order for `Programmes`, TLC
finds each of these counterexamples on the instance of `MCCatalog`. Only for the
hypothesis of `PlaysRight` that no `beats_3x` comes before `local` it finds none: the
proof rests on it, the property may not. `RowsAgree` says nothing of a reseed before
the migration has been run again: a row whose download failed has another URL than
its seed row, and such a reseed doubles it (`MCCatalogVioUnmigrated`).

*Rate limit.* `WindowBound` is not inductive. `BucketInv` adds what is in the
bucket to what was let through: `tokens + Cost * granted` is at most the
capacity and the refill since the window began, as of the bucket's last refill. For
Retry-After it says that what the bucket lacks is refilled by the promised
moment, so refusals in between, which only refill, keep the promise. The arithmetic of
the refill (`Refilled` of a refilled bucket, the rounding of `RetryAfter`) is
in lemmas of their own.

<a name="limits"></a>
## What is only checked, abstracted or left out

*Model-checked only.* Liveness (fairness is out of the prover's reach);
`MigrationsSound` (`MCDeployPaths.cfg`), a closed formula about folds over the
migrations. Every other property of a passing run is also a theorem. That `Pricing` keeps
`ChargeAssumption` is checked by TLC for the instances: the decimal shift is
found by a CHOOSE whose existence needs induction.

*Abstractions.*
- fal honours `X-Idempotency-Key` (`<job>:<kind>`): an assumption about an
  external service, from `_submit` in `client.py`.
- A submission answered with an error is one fal did not accept.
- Which of the amounts in `Charge[j]` a track costs is a free choice of every
  capture: the duration comes from the provider or the file. `reserved_tokens`
  is fixed when the job is created. Pricing rules do not change during a run;
  the proofs hold for any `Charge` within the price.
- `Decimal` in the runs has 3 digits, not 28, so that TLC's integers hold it.
  With 28 the same rounding makes 100 seconds at 3 tokens a minute cost 6.
- A fallback model without a pricing rule (`PricingRuleMissing` in `_finalize`)
  is not modelled: the seed has a rule for each.
- The poller's `LIMIT 50` and the statuses `ERROR` (handled like `FAILED`) and
  `in_progress` (nothing happens) are left out.
- Two inserts of one track: the loser runs into the unique constraint, the
  `Raise` disjunct of `CommitTrack`.
- `Wallet.Credit` is atomic. Two users under one key, whose transactions lock
  different rows, are modelled in `Billing` (`CreditNotFound`).
- Columns only shown to users are left out: errors, timestamps, provider,
  product, `canceled_at`. So are signature checks and date formats. Fields of
  a payload that are empty rather than absent count as absent.
- In each billing instance all events come from one provider. The keys
  `subscription_event`, `purchase` and `refund` of the ledger hold no provider, so equal ids of
  two providers would share an entry.
- mix_master reads and writes no shared state but the runtime of its caller;
  it succeeds or leaves the music as it was.

- The rate limiter is one process: several workers have a bucket each. Floats
  are exact fractions, so a bucket that misses a request by a rounding error is
  not seen.
- `Migrations` leaves out column types, lengths and CHECK constraints
  (those of the wallet are in `Wallet`), `Deployment` the containers, TLS and
  backups around the API.
- `Catalog` leaves out durations, attribution, bpm and keys. The sounds of fal's
  storage stay available. A download into `build/` is whole or absent, and so is a
  seed file that a script writes: a `write_text` that is cut off leaves JSON no command
  can load, which the operator takes from git again. `rewrite_seed_to_local.py`
  writes its two files in one step: no command comes between, and a second run
  writes the same.
- The date of a request is left open, so `StartJob` may take any rule of the table,
  and not only the one in force.

*Known and without a property*: the poller's 50 rows without an order;
`PricingRuleMissing` for a fallback; a stage left running in `job_stage_log`
when the process stops in it; the keys of billing entries without a provider;
buckets that are empty after a restart or per worker. They are named above or
in the hazards of `PROJECT.json`.

*Not modelled.* The stage log (read only for display, planned); the mixer, the
duration probe and uploads (I/O on files without shared state); URL checks
(read-only requests before a job exists); authentication beyond the key map; the
fal stub; schemas and error formats; the balance endpoint and the history of a
wallet, which only read; `smoke.py` and `e2e_prod.py`, clients of the API.

<a name="plan"></a>
## Plan

1. *Done*: `Wallet`, `TokenAccount`, `Generation`, `Billing`, their instances,
   `WalletProofs`, `GenerationProofs`.
2. *Done*: `Pricing` and `BillingEvents`, used by the instances; `RateLimit` and
   its proofs; `Migrations` and `Deployment`; `Seeds`, `SeedScripts` and
   `Catalog`; the proofs of `OneJobPerKey` and of `Billing`.
3. `StageLog`: `record_stage_event` and the stages recorded by each pipeline
   method; every finished job has a complete log.
4. `Service`: `Billing` and `Generation` over one wallet, instead of the
   abstract `Grant` and `Freeze`.
5. Proofs: *done* for the settlement properties with one channel, the poller or
   the webhook (`ChannelProofs`), sums and the refinement of `TokenAccount`
   (`WalletProofs`, `AccountProofs`), the credits of `Billing`, `Deployment` and
   `Catalog`. Left: the bounds of `Precharge` and `Captured`, from which
   `ChargeAssumption` follows.
