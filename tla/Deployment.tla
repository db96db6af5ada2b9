----------------------------- MODULE Deployment -----------------------------
(***************************************************************************)
(* The database across releases: an image carries the migrations up to a   *)
(* revision and the seed files of its day, its entrypoint runs             *)
(* alembic upgrade head in one transaction before it starts the API, and   *)
(* an operator may downgrade the database while the API is stopped.        *)
(***************************************************************************)
EXTENDS Migrations

CONSTANTS SeedFiles     \* pricing.json and token_products.json, edition by edition

(* A rule is known by its model and the date it is active from, a product by its code. *)
RuleRow == [provider_model : STRING, active_from : Nat]
ProductRow == [code : STRING, external : STRING, is_subscription : BOOLEAN]

(* An edition may add, drop and change rules and products as it likes. *)
ASSUME SeedFilesType ==
  /\ SeedFiles \in Seq([rules : SUBSET RuleRow, products : SUBSET ProductRow])
  /\ SeedFiles # <<>>

AllRules == UNION {SeedFiles[s].rules : s \in DOMAIN SeedFiles}
AllProducts == UNION {SeedFiles[s].products : s \in DOMAIN SeedFiles}

VARIABLES image,        \* the deployed image: its newest revision, its seed files
          revision,     \* alembic_version
          schema,       \* what Migrations says of the tables
          rules,        \* pricing_rules
          products,     \* token_products
          jobs,         \* jobs, each by the pricing rule it refers to
          api           \* "down", "up", or "failed": the entrypoint has exited

vars == <<image, revision, schema, rules, products, jobs, api>>

(***************************************************************************)
(* What the ORM declares: the columns every SELECT and INSERT names, and   *)
(* the unique sets the code relies on (its ON CONFLICT targets, and the    *)
(* inserts it lets fail).                                                  *)
(***************************************************************************)
MusicUser == [columns |-> {"id", "external_id", "meta"} \cup Stamps,
              unique  |-> {{"external_id"}}, enums |-> <<>>]
TokenWallet ==
  [columns |-> {"id", "user_id", "available_tokens", "reserved_tokens", "frozen"}
               \cup Stamps,
   unique  |-> {{"user_id"}}, enums |-> <<>>]
SubscriptionState ==
  [columns |-> {"user_id", "status", "provider", "product_external_id", "started_at",
                "expires_at", "canceled_at", "last_event_id",
                "last_event_occurred_at"} \cup Stamps,
   unique  |-> {{"user_id"}},
   enums   |-> [status |-> "subscription_status", provider |-> "billing_provider"]]
PricingRule ==
  [columns |-> {"id", "provider_model", "billing_mode", "token_rate", "rounding_mode",
                "precharge_default_units", "active_from", "created_at"},
   unique  |-> {{"provider_model", "active_from"}},
   enums   |-> [billing_mode |-> "pricing_billing_mode", rounding_mode |-> "rounding_mode"]]
TokenProduct ==
  [columns |-> {"id", "code", "platform", "external_product_id", "token_amount",
                "price_minor", "currency", "active", "is_subscription"} \cup Stamps,
   unique  |-> {{"code"}, {"platform", "external_product_id"}},
   enums   |-> [platform |-> "billing_platform"]]
Beat ==
  [columns |-> {"id", "genre", "tags", "title", "audio_url", "duration_seconds", "bpm",
                "key", "preview_url", "active", "sort_order", "meta"} \cup Stamps,
   unique  |-> {{"audio_url"}}, enums |-> [genre |-> "beat_genre"]]
Sample ==
  [columns |-> {"id", "category", "tags", "title", "audio_url", "duration_seconds",
                "active", "sort_order", "meta"} \cup Stamps,
   unique  |-> {{"audio_url"}}, enums |-> [category |-> "sample_category"]]
JobModel ==
  [columns |-> {"id", "user_id", "status", "stage", "current_stage", "provider_model",
                "provider_request_id", "pricing_rule_id", "reserved_tokens",
                "captured_tokens", "input_payload", "store_stems",
                "client_idempotency_key", "error_code", "error_message", "started_at",
                "finished_at"} \cup Stamps,
   unique  |-> {{"user_id", "client_idempotency_key"}},
   enums   |-> [status |-> "job_status", stage |-> "job_stage", current_stage |-> "job_stage"]]
Track == [columns |-> {"id", "job_id", "user_id", "audio_url", "duration_seconds",
                       "stems", "meta", "created_at"},
          unique  |-> {{"job_id"}}, enums |-> <<>>]
TokenLedgerEntry ==
  [columns |-> {"id", "user_id", "wallet_id", "kind", "amount",
                "balance_after_available", "balance_after_reserved", "ref_type",
                "ref_id", "idempotency_key", "meta", "created_at"},
   unique  |-> {{"idempotency_key"}}, enums |-> [kind |-> "token_ledger_kind"]]
ProcessedWebhook ==
  [columns |-> {"provider", "event_id", "received_at", "payload_digest", "outcome", "meta"},
   unique  |-> {{"provider", "event_id"}}, enums |-> [provider |-> "webhook_provider"]]
JobStageLog ==
  [columns |-> {"id", "job_id", "stage", "status", "started_at", "finished_at", "error",
                "created_at"},
   unique  |-> {{"job_id", "stage"}}, enums |-> [stage |-> "job_stage"]]

Models ==
  [music_users |-> MusicUser, token_wallets |-> TokenWallet,
   subscription_state |-> SubscriptionState, pricing_rules |-> PricingRule,
   token_products |-> TokenProduct, beats |-> Beat, samples |-> Sample,
   jobs |-> JobModel, tracks |-> Track, token_ledger |-> TokenLedgerEntry,
   processed_webhooks |-> ProcessedWebhook, job_stage_log |-> JobStageLog]

(* The members of the Python enums, by the name of the type they are stored in. *)
Members ==
  [subscription_status  |-> {"none", "active", "canceled", "expired"},
   billing_provider     |-> {"adapty", "rustore"},
   billing_platform     |-> {"adapty", "rustore"},
   pricing_billing_mode |-> {"per_track", "per_minute"},
   rounding_mode        |-> {"ceil", "floor", "nearest"},
   token_ledger_kind    |-> {"credit_purchase", "credit_subscription_grant",
                             "debit_reserve", "debit_capture", "credit_release",
                             "credit_refund", "debit_adjustment", "credit_adjustment"},
   beat_genre           |-> {"electronic_dance", "rap", "lofi", "global_groove",
                             "relaxing_meditation"},
   sample_category      |-> {"harmonic_bass", "harmonic_lead", "harmonic_chord",
                             "drums_kick", "drums_snare", "drums_closed_hihat",
                             "drums_open_hihat", "drums_auxiliary", "mixing",
                             "sound_effects"},
   job_status           |-> {"queued", "processing", "succeeded", "failed", "canceled"},
   job_stage            |-> {"prepare_prompt", "lyrics", "music_generation",
                             "audio_to_audio_refine", "vocal_tts", "mix_master",
                             "upload_cdn", "finalize"},
   webhook_provider     |-> {"fal", "adapty", "rustore"}]

UniqueSets(table) ==
  LET unique == {i \in DOMAIN table.indexes : table.indexes[i].unique}
  IN  table.keys \cup {table.indexes[i].columns : i \in unique}

(* The queries of the ORM work on a table of a database with these types. *)
Serves(table, model, types) ==
  /\ model.columns \subseteq table.columns
  /\ table.needs \subseteq model.columns
  /\ model.unique \subseteq UniqueSets(table)
  /\ \A c \in DOMAIN model.enums :
       /\ c \in DOMAIN table.enums
       /\ table.enums[c] = model.enums[c]
       /\ Members[model.enums[c]] \subseteq types[table.enums[c]]

Fits(db) ==
  \A t \in DOMAIN Models : t \in DOMAIN db.tables /\ Serves(db.tables[t], Models[t], db.types)

-----------------------------------------------------------------------------
Init ==
  /\ image = [newest |-> 2, seed |-> 1]
  /\ revision = 0
  /\ schema = EmptySchema
  /\ rules = {} /\ products = {} /\ jobs = {}
  /\ api = "down"

Seed == SeedFiles[image.seed]

(* Another image: further migrations or edited seed files, or an image of
   before, to which the operator goes back.  compose stops the old container
   before it starts the new one. *)
Release ==
  /\ \E r \in 2..Newest, s \in DOMAIN SeedFiles :
       /\ <<r, s>> # <<image.newest, image.seed>>
       /\ image' = [newest |-> r, seed |-> s]
  /\ api' = "down"
  /\ UNCHANGED <<revision, schema, rules, products, jobs>>

Stop ==
  /\ api # "down"
  /\ api' = "down"
  /\ UNCHANGED <<image, revision, schema, rules, products, jobs>>

(* The products 0002 inserts, ON CONFLICT (code) DO NOTHING; it does not name
   is_subscription, which is added by 0005 with the default false. *)
Codes(ps) == {p.code : p \in ps}
Inserted == {[p EXCEPT !.is_subscription = FALSE] :
               p \in {q \in Seed.products : q.code \notin Codes(products)}}

(* Two codes with one external product id break uq_token_products_platform_external. *)
Clash(ps) == \E p, q \in ps : p.code # q.code /\ p.external = q.external

(* What upgrading from one revision to another leaves in the seeded tables. *)
SeededRules(from, to) == IF from < 2 /\ 2 <= to THEN rules \cup Seed.rules ELSE rules
SeededProducts(from, to) ==
  LET seeded == IF from < 2 /\ 2 <= to THEN products \cup Inserted ELSE products
  IN  IF from < 5 /\ 5 <= to THEN {[p EXCEPT !.is_subscription = FALSE] : p \in seeded}
                             ELSE seeded

(* alembic locates the revision of the database only in an image that has it. *)
Located == revision <= image.newest

(* entrypoint.sh: every pending migration in one transaction, then uvicorn;
   with set -e a migration that fails, or a database of a revision the image
   does not know, keeps the API from starting. A start that is killed during
   the migrations rolls back and leaves the API down, as before. *)
Start ==
  LET target == image.newest
      migrated == Run(UpgradePath(revision, target), schema)
      stocked == SeededProducts(revision, target)
  IN /\ api = "down"
     /\ IF Located /\ migrated.ok /\ ~Clash(stocked)
        THEN /\ schema' = migrated
             /\ revision' = target
             /\ rules' = SeededRules(revision, target)
             /\ products' = stocked
             /\ api' = "up"
        ELSE /\ api' = "failed"
             /\ UNCHANGED <<schema, revision, rules, products>>
     /\ UNCHANGED <<image, jobs>>

(* What 0002's downgrade deletes: the rules of the pricing.json in the image by
   model and date, so that a rule of another edition stays; and whether a
   foreign key stops it. *)
DeletedRules(from, to) == IF to < 2 /\ 2 <= from THEN rules \cap Seed.rules ELSE {}
Referenced(rs) == jobs \cap rs # {}
RulesRestricted == schema.tables["jobs"].parents["pricing_rules"] = "RESTRICT"

(* alembic downgrade <to>, also one transaction; below 1 the tables go. *)
Downgrade(to) ==
  LET reverted == Run(DowngradePath(revision, to), schema)
      deleted == DeletedRules(revision, to)
  IN /\ api = "down"
     /\ to < revision /\ Located
     /\ reverted.ok
     /\ ~(Referenced(deleted) /\ RulesRestricted)
     /\ schema' = reverted
     /\ revision' = to
     /\ rules' = IF to = 0 THEN {} ELSE rules \ deleted
     /\ products' = CASE to = 0 -> {}
                      [] to = 1 -> {p \in products : p.code \notin Codes(Seed.products)}
                      [] OTHER -> products
     /\ jobs' = IF to = 0 THEN {} ELSE jobs \ deleted
     /\ UNCHANGED <<image, api>>

\* Mutant of StartJob: the pricing rule is not looked up.
StartJobUnpriced(rule) ==
  /\ api = "up"
  /\ jobs' = jobs \cup {rule}
  /\ UNCHANGED <<image, revision, schema, rules, products, api>>

(* A track request adds a job that refers to a rule of its model; which of the
   rules of the model is in force depends on the date, which is left open. *)
StartJob(rule) ==
  /\ api = "up"
  /\ rule \in rules
  /\ jobs' = jobs \cup {rule}
  /\ UNCHANGED <<image, revision, schema, rules, products, api>>

Next ==
  \/ Release
  \/ Stop
  \/ Start
  \/ \E to \in 0..Newest : Downgrade(to)
  \/ \E rule \in AllRules : StartJob(rule)

Spec == Init /\ [][Next]_vars

-----------------------------------------------------------------------------
(* The rows are those of some edition of the seed files, a job refers to a rule
   that is there, and the schema was left by a migration that succeeded. *)
DeploymentTypeOK ==
  /\ image \in [newest : 2..Newest, seed : DOMAIN SeedFiles]
  /\ revision \in 0..Newest
  /\ schema.ok
  /\ rules \subseteq AllRules
  /\ jobs \subseteq rules
  /\ Codes(products) \subseteq Codes(AllProducts)
  /\ api \in {"down", "up", "failed"}

(* Every downgrade undoes its upgrade: whatever way a revision was reached,
   the schema is the one a fresh database has there. *)
SchemaMatchesRevision == schema = SchemaAt[revision]

(* Closed facts behind it, about any two revisions rather than histories: the
   migrations of a path, up or down, lead from the schema of the one revision to
   that of the other, from 0001 on a pricing rule that has jobs stays, and the
   schema of the newest revision has what the models declare. *)
MigrationsSound ==
  /\ SchemaAt[0] = EmptySchema
  /\ \A from, to \in 0..Newest :
       IF from <= to
       THEN Run(UpgradePath(from, to), SchemaAt[from]) = SchemaAt[to] /\ SchemaAt[to].ok
       ELSE Run(DowngradePath(from, to), SchemaAt[from]) = SchemaAt[to]
  /\ \A r \in 1..Newest :
       SchemaAt[r].tables["jobs"].parents["pricing_rules"] = "RESTRICT"
  /\ Fits(SchemaAt[Newest])

(* No history of releases and downgrades leaves a database on which the
   pending migrations fail: the API cannot start only from an image that is
   older than the database, where alembic does not find the revision. *)
UpgradeNeverStuck == api = "failed" => ~Located

(* While the API of the newest image serves, the migrated tables have what
   its models declare: columns, unique sets, enum labels. *)
ServedSchemaFits ==
  api = "up" /\ image.newest = Newest => Fits(schema)

(* No step loses a job, except a downgrade that drops the table, and that one
   not while a job refers to a rule of the image's pricing.json and 0002 is still
   to be undone: 0002's downgrade stops at the foreign key of such a job. *)
JobsKept ==
  [][\/ jobs \subseteq jobs'
     \/ revision' = 0 /\ (revision < 2 \/ jobs \cap Seed.rules = {})]_vars

(* The stronger wish that no step loses a job at all. It does not hold: a rule
   that a later pricing.json drops or re-dates is not deleted by 0002's
   downgrade, nothing stops that, and 0001's drops the jobs that refer to it. *)
NoJobLost == [][jobs \subseteq jobs']_vars

(* What product.py and 0005 say of the list of token packs: a subscription
   product is not in it. *)
Purchasable == {p.code : p \in {q \in products : ~q.is_subscription}}
SubscriptionsHidden ==
  api = "up" /\ revision = Newest =>
    \A p \in Seed.products : p.is_subscription => p.code \notin Purchasable

(* What the README says of 0002: the rules of pricing.json and the products
   of token_products.json are applied by the migrations. *)
SeedsApplied ==
  api = "up" => Seed.rules \subseteq rules /\ Codes(Seed.products) \subseteq Codes(products)
=============================================================================
