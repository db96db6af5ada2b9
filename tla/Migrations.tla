----------------------------- MODULE Migrations -----------------------------
(***************************************************************************)
(* The Alembic migrations of the music database, 0001 .. 0005, as data: a  *)
(* migration is a sequence of DDL operations, and Run gives the schema     *)
(* that PostgreSQL has after a sequence of them, or ok = FALSE when one is *)
(* refused.                                                                *)
(*                                                                         *)
(* A table is its columns, the NOT NULL columns without a server default   *)
(* (needs), its unique column sets (keys, the primary key included), the   *)
(* tables its foreign keys point to with their ON DELETE rule, the columns *)
(* of an enum type, and its secondary indexes.                             *)
(***************************************************************************)
EXTENDS Integers, Sequences, SequencesExt

Stamps == {"created_at", "updated_at"}
Index(columns) == [columns |-> columns, unique |-> FALSE]

MusicUsers ==
  [columns |-> {"id", "external_id", "meta"} \cup Stamps,
   needs   |-> {"external_id"},
   keys    |-> {{"id"}, {"external_id"}},
   parents |-> <<>>,
   enums   |-> <<>>,
   indexes |-> [ix_music_users_external_id |-> Index({"external_id"})]]

TokenWallets ==
  [columns |-> {"id", "user_id", "available_tokens", "reserved_tokens", "frozen"}
               \cup Stamps,
   needs   |-> {"user_id"},
   keys    |-> {{"id"}, {"user_id"}},
   parents |-> [music_users |-> "CASCADE"],
   enums   |-> <<>>,
   indexes |-> [ix_token_wallets_user_id |-> Index({"user_id"})]]

SubscriptionStates ==
  [columns |-> {"user_id", "status", "provider", "product_external_id",
                "started_at", "expires_at", "canceled_at", "last_event_id",
                "last_event_occurred_at"} \cup Stamps,
   needs   |-> {"user_id"},
   keys    |-> {{"user_id"}},
   parents |-> [music_users |-> "CASCADE"],
   enums   |-> [status |-> "subscription_status", provider |-> "billing_provider"],
   indexes |-> [ix_subscription_state_status_expires_at |-> Index({"status", "expires_at"})]]

PricingRules ==
  [columns |-> {"id", "provider_model", "billing_mode", "token_rate", "rounding_mode",
                "precharge_default_units", "active_from", "created_at"},
   needs   |-> {"provider_model", "billing_mode", "token_rate", "active_from"},
   keys    |-> {{"id"}, {"provider_model", "active_from"}},
   parents |-> <<>>,
   enums   |-> [billing_mode |-> "pricing_billing_mode", rounding_mode |-> "rounding_mode"],
   indexes |-> [ix_pricing_rules_model_active_from |->
                  Index({"provider_model", "active_from"})]]

TokenProducts ==
  [columns |-> {"id", "code", "platform", "external_product_id", "token_amount",
                "price_minor", "currency", "active"} \cup Stamps,
   needs   |-> {"code", "platform", "external_product_id", "token_amount"},
   keys    |-> {{"id"}, {"code"}, {"platform", "external_product_id"}},
   parents |-> <<>>,
   enums   |-> [platform |-> "billing_platform"],
   indexes |-> <<>>]

Beats ==
  [columns |-> {"id", "genre", "title", "audio_url", "duration_seconds", "bpm", "key",
                "preview_url", "active", "sort_order", "meta"} \cup Stamps,
   needs   |-> {"genre", "title", "audio_url"},
   keys    |-> {{"id"}, {"audio_url"}},
   parents |-> <<>>,
   enums   |-> [genre |-> "beat_genre"],
   indexes |-> [ix_beats_genre_active_sort_order |-> Index({"genre", "active", "sort_order"})]]

Samples ==
  [columns |-> {"id", "category", "tags", "title", "audio_url", "duration_seconds",
                "active", "sort_order", "meta"} \cup Stamps,
   needs   |-> {"category", "title", "audio_url"},
   keys    |-> {{"id"}, {"audio_url"}},
   parents |-> <<>>,
   enums   |-> [category |-> "sample_category"],
   indexes |-> [ix_samples_category_active |-> Index({"category", "active"}),
                ix_samples_tags_gin        |-> Index({"tags"})]]

\* Mutant of JobParents: deleting a pricing rule deletes its jobs.
JobParentsCascade == [music_users |-> "CASCADE", pricing_rules |-> "CASCADE"]

JobParents == [music_users |-> "CASCADE", pricing_rules |-> "RESTRICT"]

Jobs ==
  [columns |-> {"id", "user_id", "status", "stage", "provider_model",
                "provider_request_id", "pricing_rule_id", "reserved_tokens",
                "captured_tokens", "input_payload", "store_stems", "error_code",
                "error_message", "started_at", "finished_at"} \cup Stamps,
   needs   |-> {"user_id", "status", "provider_model", "pricing_rule_id",
                "input_payload"},
   keys    |-> {{"id"}},
   parents |-> JobParents,
   enums   |-> [status |-> "job_status", stage |-> "job_stage"],
   indexes |-> [ix_jobs_user_id_created_at  |-> Index({"user_id", "created_at"}),
                ix_jobs_active_status       |-> Index({"status"}),
                ix_jobs_provider_request_id |-> Index({"provider_request_id"})]]

Tracks ==
  [columns |-> {"id", "job_id", "user_id", "audio_url", "duration_seconds", "stems",
                "meta", "created_at"},
   needs   |-> {"job_id", "user_id", "audio_url", "duration_seconds"},
   keys    |-> {{"id"}, {"job_id"}},
   parents |-> [jobs |-> "CASCADE", music_users |-> "CASCADE"],
   enums   |-> <<>>,
   indexes |-> [ix_tracks_user_id_created_at |-> Index({"user_id", "created_at"})]]

TokenLedger ==
  [columns |-> {"id", "user_id", "wallet_id", "kind", "amount",
                "balance_after_available", "balance_after_reserved", "ref_type",
                "ref_id", "idempotency_key", "meta", "created_at"},
   needs   |-> {"user_id", "wallet_id", "kind", "amount", "balance_after_available",
                "balance_after_reserved", "ref_type", "ref_id", "idempotency_key"},
   keys    |-> {{"id"}, {"idempotency_key"}},
   parents |-> [music_users |-> "CASCADE", token_wallets |-> "CASCADE"],
   enums   |-> [kind |-> "token_ledger_kind"],
   indexes |-> [ix_token_ledger_user_id_created_at |-> Index({"user_id", "created_at"}),
                ix_token_ledger_user_id            |-> Index({"user_id"})]]

ProcessedWebhooks ==
  [columns |-> {"provider", "event_id", "received_at", "payload_digest", "outcome",
                "meta"},
   needs   |-> {"provider", "event_id", "payload_digest", "outcome"},
   keys    |-> {{"provider", "event_id"}},
   parents |-> <<>>,
   enums   |-> [provider |-> "webhook_provider"],
   indexes |-> [ix_processed_webhooks_received_at |-> Index({"received_at"})]]

StageLogTable ==
  [columns |-> {"id", "job_id", "stage", "status", "started_at", "finished_at",
                "error", "created_at"},
   needs   |-> {"job_id", "stage", "status"},
   keys    |-> {{"id"}, {"job_id", "stage"}},
   parents |-> [jobs |-> "CASCADE"],
   enums   |-> [stage |-> "job_stage"],
   indexes |-> [ix_job_stage_log_job_id |-> Index({"job_id"})]]

(* The enum types of 0001 with their labels. *)
EnumTypes ==
  [subscription_status  |-> {"none", "active", "canceled", "expired"},
   billing_provider     |-> {"adapty", "rustore"},
   billing_platform     |-> {"adapty", "rustore"},
   pricing_billing_mode |-> {"per_track", "per_minute"},
   rounding_mode        |-> {"ceil", "floor", "nearest"},
   token_ledger_kind    |-> {"credit_purchase", "credit_subscription_grant",
                             "debit_reserve", "debit_capture", "credit_release",
                             "credit_refund", "debit_adjustment", "credit_adjustment"},
   beat_genre           |-> {"electronic_dance", "rap", "lofi", "global_groove",
                             "relaxing_meditation"},
   sample_category      |-> {"harmonic_bass", "harmonic_lead", "harmonic_chord",
                             "drums_kick", "drums_snare", "drums_closed_hihat",
                             "drums_open_hihat", "drums_auxiliary", "mixing",
                             "sound_effects"},
   job_status           |-> {"queued", "processing", "succeeded", "failed", "canceled"},
   job_stage            |-> {"prepare_prompt", "lyrics", "music_generation",
                             "audio_to_audio_refine", "vocal_tts", "mix_master",
                             "upload_cdn", "finalize"},
   webhook_provider     |-> {"fal", "adapty", "rustore"}]

(***************************************************************************)
(* DDL operations.                                                         *)
(***************************************************************************)
CreateType(type) == [op |-> "create type", name |-> type, labels |-> EnumTypes[type]]
CreateTable(name, table) == [op |-> "create table", name |-> name, table |-> table]
AddColumn(name, column, enum) ==
  [op |-> "add column", name |-> name, column |-> column, enum |-> enum]
CreateIndex(name, index, columns, unique) ==
  [op |-> "create index", name |-> name, index |-> index, columns |-> columns,
   unique |-> unique]
DropIndex(name, index) == [op |-> "drop index", name |-> name, index |-> index]
DropColumn(name, column) == [op |-> "drop column", name |-> name, column |-> column]
DropTable(name) == [op |-> "drop table", name |-> name]
DropType(type) == [op |-> "drop type", name |-> type]

Plain == "plain"                        \* the column is not of an enum type

EmptySchema == [ok |-> TRUE, types |-> <<>>, tables |-> <<>>]

Without(f, x) == [y \in DOMAIN f \ {x} |-> f[y]]
With(f, x, v) == [y \in DOMAIN f \cup {x} |-> IF y = x THEN v ELSE f[y]]
TypesOf(table) == {table.enums[c] : c \in DOMAIN table.enums}
IndexesOf(db) == UNION {DOMAIN db.tables[t].indexes : t \in DOMAIN db.tables}

(* What PostgreSQL requires of an operation, beside that its table is there. *)
Allowed(db, o) ==
  CASE o.op = "create type" -> TRUE             \* checkfirst=True
    [] o.op = "create table" ->
         /\ o.name \notin DOMAIN db.tables
         /\ DOMAIN o.table.parents \subseteq DOMAIN db.tables
         /\ TypesOf(o.table) \subseteq DOMAIN db.types
         /\ DOMAIN o.table.indexes \cap IndexesOf(db) = {}
    [] o.op = "add column" -> /\ o.column \notin db.tables[o.name].columns
                              /\ o.enum \in DOMAIN db.types \cup {Plain}
    [] o.op = "create index" -> /\ o.columns \subseteq db.tables[o.name].columns
                                /\ o.index \notin IndexesOf(db)
    [] o.op = "drop index" -> o.index \in DOMAIN db.tables[o.name].indexes
    [] o.op = "drop column" -> o.column \in db.tables[o.name].columns
    [] o.op = "drop table" -> \A t \in DOMAIN db.tables \ {o.name} :
                                o.name \notin DOMAIN db.tables[t].parents
    [] o.op = "drop type" -> \A t \in DOMAIN db.tables : o.name \notin TypesOf(db.tables[t])

(* The table after an operation that changes it. *)
Altered(t, o) ==
  CASE o.op = "add column" ->
         [t EXCEPT !.columns = @ \cup {o.column},
                   !.enums = IF o.enum = Plain THEN @ ELSE With(@, o.column, o.enum)]
    [] o.op = "create index" ->
         [t EXCEPT !.indexes = With(@, o.index, [columns |-> o.columns, unique |-> o.unique])]
    [] o.op = "drop index" ->
         [t EXCEPT !.indexes = Without(@, o.index)]
    [] o.op = "drop column" ->
         [t EXCEPT !.columns = @ \ {o.column},
                   !.keys = {k \in @ : o.column \notin k},
                   !.enums = Without(@, o.column),
                   !.indexes = [i \in {j \in DOMAIN @ : o.column \notin t.indexes[j].columns}
                                  |-> t.indexes[i]]]

(* The schema after an operation; a type that is there already is left as it
   is, and one that is not there is not dropped (checkfirst=True). *)
Effect(db, o) ==
  CASE o.op = "create type" ->
         IF o.name \in DOMAIN db.types THEN db
         ELSE [db EXCEPT !.types = With(@, o.name, o.labels)]
    [] o.op = "drop type" -> [db EXCEPT !.types = Without(@, o.name)]
    [] o.op = "create table" -> [db EXCEPT !.tables = With(@, o.name, o.table)]
    [] o.op = "drop table" -> [db EXCEPT !.tables = Without(@, o.name)]
    [] OTHER -> [db EXCEPT !.tables[o.name] = Altered(@, o)]

OnTable(o) == o.op \notin {"create type", "create table", "drop type"}

Execute(db, o) ==
  CASE ~db.ok -> db
    [] db.ok /\ (OnTable(o) => o.name \in DOMAIN db.tables) /\ Allowed(db, o) -> Effect(db, o)
    [] OTHER -> [db EXCEPT !.ok = FALSE]

Run(ops, db) == FoldLeft(Execute, db, ops)

(***************************************************************************)
(* The migrations.                                                         *)
(***************************************************************************)
CreateTypes ==
  <<CreateType("subscription_status"), CreateType("billing_provider"),
    CreateType("billing_platform"), CreateType("pricing_billing_mode"),
    CreateType("rounding_mode"), CreateType("token_ledger_kind"),
    CreateType("beat_genre"), CreateType("sample_category"), CreateType("job_status"),
    CreateType("job_stage"), CreateType("webhook_provider")>>

CreateTables ==
  <<CreateTable("token_wallets", TokenWallets),
    CreateTable("subscription_state", SubscriptionStates),
    CreateTable("pricing_rules", PricingRules),
    CreateTable("token_products", TokenProducts),
    CreateTable("beats", Beats),
    CreateTable("samples", Samples),
    CreateTable("jobs", Jobs),
    CreateTable("tracks", Tracks),
    CreateTable("token_ledger", TokenLedger),
    CreateTable("processed_webhooks", ProcessedWebhooks)>>

Upgrade1 == <<CreateTable("music_users", MusicUsers)>> \o CreateTypes \o CreateTables

Downgrade1 ==
  <<DropIndex("processed_webhooks", "ix_processed_webhooks_received_at"),
    DropTable("processed_webhooks"),
    DropIndex("token_ledger", "ix_token_ledger_user_id"),
    DropIndex("token_ledger", "ix_token_ledger_user_id_created_at"),
    DropTable("token_ledger"),
    DropIndex("tracks", "ix_tracks_user_id_created_at"),
    DropTable("tracks"),
    DropIndex("jobs", "ix_jobs_provider_request_id"),
    DropIndex("jobs", "ix_jobs_active_status"),
    DropIndex("jobs", "ix_jobs_user_id_created_at"),
    DropTable("jobs"),
    DropIndex("samples", "ix_samples_tags_gin"),
    DropIndex("samples", "ix_samples_category_active"),
    DropTable("samples"),
    DropIndex("beats", "ix_beats_genre_active_sort_order"),
    DropTable("beats"),
    DropTable("token_products"),
    DropIndex("pricing_rules", "ix_pricing_rules_model_active_from"),
    DropTable("pricing_rules"),
    DropIndex("subscription_state", "ix_subscription_state_status_expires_at"),
    DropTable("subscription_state"),
    DropIndex("token_wallets", "ix_token_wallets_user_id"),
    DropTable("token_wallets"),
    DropIndex("music_users", "ix_music_users_external_id"),
    DropTable("music_users"),
    DropType("webhook_provider"), DropType("job_stage"), DropType("job_status"),
    DropType("sample_category"), DropType("beat_genre"), DropType("token_ledger_kind"),
    DropType("rounding_mode"), DropType("pricing_billing_mode"),
    DropType("billing_platform"), DropType("billing_provider"),
    DropType("subscription_status")>>

\* Mutant of Upgrade3: no unique index for the keys of the clients.
Upgrade3Unkeyed ==
  <<AddColumn("jobs", "current_stage", "job_stage"),
    AddColumn("jobs", "client_idempotency_key", Plain),
    CreateIndex("jobs", "uq_jobs_user_id_client_idempotency_key",
                {"user_id", "client_idempotency_key"}, FALSE),
    CreateTable("job_stage_log", StageLogTable)>>

Upgrade3 ==
  <<AddColumn("jobs", "current_stage", "job_stage"),
    AddColumn("jobs", "client_idempotency_key", Plain),
    CreateIndex("jobs", "uq_jobs_user_id_client_idempotency_key",
                {"user_id", "client_idempotency_key"}, TRUE),
    CreateTable("job_stage_log", StageLogTable)>>

\* Mutant of Downgrade3: a table that did not exist before 0003 stays.
Downgrade3Partly ==
  <<DropIndex("jobs", "uq_jobs_user_id_client_idempotency_key"),
    DropColumn("jobs", "client_idempotency_key"),
    DropColumn("jobs", "current_stage")>>

Downgrade3 ==
  <<DropIndex("job_stage_log", "ix_job_stage_log_job_id"),
    DropTable("job_stage_log"),
    DropIndex("jobs", "uq_jobs_user_id_client_idempotency_key"),
    DropColumn("jobs", "client_idempotency_key"),
    DropColumn("jobs", "current_stage")>>

Upgrade4 == <<AddColumn("beats", "tags", Plain),
              CreateIndex("beats", "ix_beats_tags_gin", {"tags"}, FALSE)>>

\* Mutant of Downgrade4: the column stays.
Downgrade4Partly == <<DropIndex("beats", "ix_beats_tags_gin")>>

Downgrade4 == <<DropIndex("beats", "ix_beats_tags_gin"), DropColumn("beats", "tags")>>

Upgrade5 == <<AddColumn("token_products", "is_subscription", Plain)>>

Downgrade5 == <<DropColumn("token_products", "is_subscription")>>

Newest == 5

(* 0002 changes rows only; see Deployment. *)
Upgrades == <<Upgrade1, <<>>, Upgrade3, Upgrade4, Upgrade5>>
Downgrades == <<Downgrade1, <<>>, Downgrade3, Downgrade4, Downgrade5>>

(* The migrations from one revision to another, and back. *)
UpgradePath(from, to) == FlattenSeq(SubSeq(Upgrades, from + 1, to))
DowngradePath(from, to) == FlattenSeq(Reverse(SubSeq(Downgrades, to + 1, from)))

(* The schema of each revision when it is reached from an empty database. *)
SchemaAt == [r \in 0..Newest |-> Run(UpgradePath(0, r), EmptySchema)]
=============================================================================
