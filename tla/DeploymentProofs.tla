-------------------------- MODULE DeploymentProofs --------------------------
(***************************************************************************)
(* Theorems about Deployment, for any editions of the seed files and any   *)
(* history of releases, starts, downgrades and jobs.                       *)
(*                                                                         *)
(* What the migrations do to a schema is a fold over their operations.     *)
(* MigrationsSound states it for the pairs of revisions, which are data    *)
(* without variables or parameters; the theorems carry it to histories of  *)
(* any length, together with the rows that the migrations insert, delete   *)
(* and keep.                                                               *)
(***************************************************************************)
EXTENDS Deployment, TLAPS

\* In all editions together, no two codes have one external id.
SeedsApart == ~Clash(AllProducts)

LEMMA Editions ==
  ASSUME NEW s \in DOMAIN SeedFiles
  PROVE  /\ SeedFiles[s].rules \subseteq AllRules
         /\ SeedFiles[s].products \subseteq AllProducts
         /\ SeedFiles[s].products \subseteq ProductRow
<1> DEFINE Edition == [rules : SUBSET RuleRow, products : SUBSET ProductRow]
<1>1. SeedFiles \in Seq(Edition)
  BY SeedFilesType
<1> HIDE DEF Edition
<1>2. SeedFiles[s] \in Edition
  BY <1>1
<1>3. SeedFiles[s].products \subseteq ProductRow
  BY <1>2 DEF Edition
<1> QED
  BY <1>3 DEF AllRules, AllProducts

(***************************************************************************)
(* The rows, in whatever way the migrations change the schema.             *)
(***************************************************************************)

\* The products are rows whose code and external id are those of a product of
\* some edition: the migrations change nothing but is_subscription.
Stocked(ps) ==
  /\ ps \subseteq ProductRow
  /\ \A p \in ps : \E q \in AllProducts : p.code = q.code /\ p.external = q.external

RowsFit == DeploymentTypeOK /\ Stocked(products)

LEMMA StockedApart ==
  ASSUME NEW ps, Stocked(ps), SeedsApart
  PROVE  ~Clash(ps)
  BY DEF Stocked, SeedsApart, Clash

LEMMA StockedCodes ==
  ASSUME NEW ps, Stocked(ps)
  PROVE  Codes(ps) \subseteq Codes(AllProducts)
  BY DEF Stocked, Codes

LEMMA PlainRow ==
  ASSUME NEW p \in ProductRow
  PROVE  /\ [p EXCEPT !.is_subscription = FALSE] \in ProductRow
         /\ [p EXCEPT !.is_subscription = FALSE].code = p.code
         /\ [p EXCEPT !.is_subscription = FALSE].external = p.external
  BY DEF ProductRow

LEMMA PlainStocked ==
  ASSUME NEW ps, Stocked(ps)
  PROVE  Stocked({[p EXCEPT !.is_subscription = FALSE] : p \in ps})
<1> DEFINE plain == {[p EXCEPT !.is_subscription = FALSE] : p \in ps}
<1>1. ASSUME NEW r \in plain
      PROVE  r \in ProductRow
             /\ \E q \in AllProducts : r.code = q.code /\ r.external = q.external
  <2>1. PICK p \in ps : r = [p EXCEPT !.is_subscription = FALSE]
    OBVIOUS
  <2>2. p \in ProductRow
    BY DEF Stocked
  <2>3. r \in ProductRow /\ r.code = p.code /\ r.external = p.external
    BY <2>1, <2>2, PlainRow
  <2> QED
    BY <2>3 DEF Stocked
<1> HIDE DEF plain
<1>2. Stocked(plain)
  BY <1>1 DEF Stocked
<1> QED
  BY <1>2 DEF plain

\* Whatever an upgrade seeds comes from the seed file of the image.
LEMMA SeededStocked ==
  ASSUME RowsFit, NEW from \in 0..Newest, NEW to \in 0..Newest
  PROVE  Stocked(SeededProducts(from, to))
<1>1. image.seed \in DOMAIN SeedFiles /\ Stocked(products)
  BY DEF RowsFit, DeploymentTypeOK
<1>2. Seed.products \subseteq ProductRow /\ Seed.products \subseteq AllProducts
  BY <1>1, Editions DEF Seed
<1> DEFINE fresh == {q \in Seed.products : q.code \notin Codes(products)}
           seeded == IF from < 2 /\ 2 <= to THEN products \cup Inserted ELSE products
<1>3. Stocked(fresh)
  BY <1>2 DEF Stocked
<1>4. Stocked(Inserted)
  BY <1>3, PlainStocked DEF Inserted
<1>5. Stocked(products \cup Inserted)
  BY <1>1, <1>4 DEF Stocked
<1>6. Stocked(seeded)
  BY <1>1, <1>5
<1> HIDE DEF seeded
<1>7. Stocked({[p EXCEPT !.is_subscription = FALSE] : p \in seeded})
  BY <1>6, PlainStocked
<1>8. SeededProducts(from, to) =
        IF from < 5 /\ 5 <= to THEN {[p EXCEPT !.is_subscription = FALSE] : p \in seeded}
                               ELSE seeded
  BY DEF SeededProducts, seeded
<1> QED
  BY <1>6, <1>7, <1>8

LEMMA RowsInit == Init => RowsFit
<1> SUFFICES ASSUME Init PROVE RowsFit
  OBVIOUS
<1>1. 1 \in DOMAIN SeedFiles
  BY SeedFilesType
<1>2. image \in [newest : 2..Newest, seed : DOMAIN SeedFiles]
  BY <1>1 DEF Init, Newest
<1>3. DeploymentTypeOK
  BY <1>2 DEF DeploymentTypeOK, Init, EmptySchema, Codes, Newest
<1> QED
  BY <1>3 DEF RowsFit, Init, Stocked

LEMMA ReleaseRows ==
  ASSUME RowsFit, Release
  PROVE  RowsFit'
<1>1. image' \in [newest : 2..Newest, seed : DOMAIN SeedFiles]
  BY DEF Release
<1>2. DeploymentTypeOK'
  BY <1>1 DEF RowsFit, DeploymentTypeOK, Release, Codes
<1> QED
  BY <1>2 DEF RowsFit, Release, Stocked

LEMMA StartRows ==
  ASSUME RowsFit, Start
  PROVE  RowsFit'
<1> DEFINE migrated == Run(UpgradePath(revision, image.newest), schema)
           stocked == SeededProducts(revision, image.newest)
<1> HIDE DEF migrated, stocked
<1>1. /\ image \in [newest : 2..Newest, seed : DOMAIN SeedFiles]
      /\ revision \in 0..Newest
  BY DEF RowsFit, DeploymentTypeOK
<1>2. CASE Located /\ migrated.ok /\ ~Clash(stocked)
  <2>1. /\ schema' = migrated /\ revision' = image.newest
        /\ rules' = SeededRules(revision, image.newest)
        /\ products' = stocked /\ api' = "up"
        /\ image' = image /\ jobs' = jobs
    BY <1>2 DEF Start, migrated, stocked
  <2>2. Stocked(products')
    BY <1>1, <2>1, SeededStocked DEF stocked, Newest
  <2>3. Codes(products') \subseteq Codes(AllProducts)
    BY <2>2, StockedCodes
  <2>4. Seed.rules \subseteq AllRules
    BY <1>1, Editions DEF Seed
  <2>5. rules \subseteq rules' /\ rules' \subseteq AllRules
    BY <2>1, <2>4 DEF RowsFit, DeploymentTypeOK, SeededRules
  <2>6. DeploymentTypeOK'
    BY <1>1, <1>2, <2>1, <2>3, <2>5 DEF RowsFit, DeploymentTypeOK, Codes, Newest
  <2> QED
    BY <2>2, <2>6 DEF RowsFit, Stocked
<1>3. CASE ~(Located /\ migrated.ok /\ ~Clash(stocked))
  <2>1. api' = "failed" /\ UNCHANGED <<schema, revision, rules, products, image, jobs>>
    BY <1>3 DEF Start, migrated, stocked
  <2> QED
    BY <2>1 DEF RowsFit, DeploymentTypeOK, Stocked, Codes
<1> QED
  BY <1>2, <1>3

LEMMA DowngradeRows ==
  ASSUME RowsFit, NEW to \in 0..Newest, Downgrade(to)
  PROVE  RowsFit'
<1> DEFINE reverted == Run(DowngradePath(revision, to), schema)
           deleted == DeletedRules(revision, to)
<1> HIDE DEF reverted, deleted
<1>1. /\ image \in [newest : 2..Newest, seed : DOMAIN SeedFiles]
      /\ rules \subseteq AllRules /\ jobs \subseteq rules
      /\ api \in {"down", "up", "failed"}
  BY DEF RowsFit, DeploymentTypeOK
<1>2. /\ reverted.ok
      /\ schema' = reverted /\ revision' = to
      /\ rules' = IF to = 0 THEN {} ELSE rules \ deleted
      /\ jobs' = IF to = 0 THEN {} ELSE jobs \ deleted
      /\ products' = CASE to = 0 -> {}
                       [] to = 1 -> {p \in products : p.code \notin Codes(Seed.products)}
                       [] OTHER -> products
      /\ image' = image /\ api' = api
  BY DEF Downgrade, reverted, deleted
<1>3. products' \subseteq products
  <2>1. CASE to = 0
    BY <1>2, <2>1
  <2>2. CASE to = 1
    BY <1>2, <2>2
  <2>3. CASE to # 0 /\ to # 1
    BY <1>2, <2>3
  <2> QED
    BY <2>1, <2>2, <2>3
<1>4. Stocked(products')
  BY <1>3 DEF RowsFit, Stocked
<1>5. Codes(products') \subseteq Codes(AllProducts)
  BY <1>4, StockedCodes
<1>6. rules' \subseteq rules /\ jobs' \subseteq rules'
  BY <1>1, <1>2
<1>7. DeploymentTypeOK'
  BY <1>1, <1>2, <1>5, <1>6 DEF DeploymentTypeOK, Codes
<1> QED
  BY <1>4, <1>7 DEF RowsFit, Stocked

LEMMA RowsStep == RowsFit /\ [Next]_vars => RowsFit'
<1> SUFFICES ASSUME RowsFit, [Next]_vars PROVE RowsFit'
  OBVIOUS
<1>1. CASE Release
  BY <1>1, ReleaseRows
<1>2. CASE Stop
  BY <1>2 DEF Stop, RowsFit, DeploymentTypeOK, Stocked, Codes
<1>3. CASE Start
  BY <1>3, StartRows
<1>4. ASSUME NEW to \in 0..Newest, Downgrade(to) PROVE RowsFit'
  BY <1>4, DowngradeRows
<1>5. ASSUME NEW rule \in AllRules, StartJob(rule) PROVE RowsFit'
  BY <1>5 DEF StartJob, RowsFit, DeploymentTypeOK, Stocked, Codes
<1>6. CASE UNCHANGED vars
  BY <1>6 DEF vars, RowsFit, DeploymentTypeOK, Stocked, Codes
<1> QED
  BY <1>1, <1>2, <1>3, <1>4, <1>5, <1>6 DEF Next

\* The rows of a database are rules and codes of some edition of the seed files,
\* whatever the editions add, drop and re-date and in whatever order they are
\* released; a job always refers to a rule that is there, and neither entrypoint.sh
\* nor alembic downgrade leaves a schema behind of which an operation was refused.
THEOREM DeploymentType == Spec => []DeploymentTypeOK
<1>1. RowsFit => DeploymentTypeOK
  BY DEF RowsFit
<1> QED
  BY <1>1, RowsInit, RowsStep, PTL DEF Spec

(***************************************************************************)
(* The schema.                                                             *)
(***************************************************************************)

DeployInv ==
  /\ RowsFit
  /\ SchemaMatchesRevision

LEMMA PathSchema ==
  ASSUME MigrationsSound, NEW from \in 0..Newest, NEW to \in 0..Newest
  PROVE  /\ from <= to => /\ Run(UpgradePath(from, to), SchemaAt[from]) = SchemaAt[to]
                          /\ SchemaAt[to].ok
         /\ to < from => Run(DowngradePath(from, to), SchemaAt[from]) = SchemaAt[to]
         /\ 1 <= from =>
              SchemaAt[from].tables["jobs"].parents["pricing_rules"] = "RESTRICT"
<1>1. from \in Int /\ to \in Int /\ (1 <= from => from \in 1..Newest)
  BY DEF Newest
<1> QED
  BY <1>1 DEF MigrationsSound

LEMMA SchemaInit ==
  ASSUME Init, MigrationsSound
  PROVE  SchemaMatchesRevision
  BY DEF Init, SchemaMatchesRevision, MigrationsSound

\* A start that succeeds brings the schema to the newest revision of the image,
\* and where no two codes have one external id it does succeed, unless the
\* image is older than the database.
LEMMA StartSchema ==
  ASSUME MigrationsSound, DeployInv, Start
  PROVE  SchemaMatchesRevision' /\ (SeedsApart => UpgradeNeverStuck')
<1> DEFINE migrated == Run(UpgradePath(revision, image.newest), schema)
           stocked == SeededProducts(revision, image.newest)
<1> HIDE DEF migrated, stocked
<1>1. /\ image.newest \in 0..Newest /\ revision \in 0..Newest
      /\ schema = SchemaAt[revision]
      /\ Stocked(products)
  BY DEF DeployInv, RowsFit, DeploymentTypeOK, SchemaMatchesRevision, Newest
<1>2. Located => migrated = SchemaAt[image.newest] /\ migrated.ok
  BY <1>1, PathSchema DEF migrated, Located
<1>3. SeedsApart => ~Clash(stocked)
  BY <1>1, SeededStocked, StockedApart DEF DeployInv, stocked
<1>4. CASE Located /\ ~Clash(stocked)
  <2>1. schema' = migrated /\ revision' = image.newest /\ api' = "up"
    BY <1>2, <1>4 DEF Start, migrated, stocked
  <2> QED
    BY <1>2, <1>4, <2>1 DEF SchemaMatchesRevision, UpgradeNeverStuck
<1>5. CASE ~Located \/ Clash(stocked)
  <2>1. UNCHANGED <<schema, revision, image>>
    BY <1>5 DEF Start, stocked
  <2> QED
    BY <1>1, <1>3, <1>5, <2>1 DEF SchemaMatchesRevision, UpgradeNeverStuck, Located
<1> QED
  BY <1>4, <1>5

LEMMA DowngradeSchema ==
  ASSUME MigrationsSound, DeployInv, NEW to \in 0..Newest, Downgrade(to)
  PROVE  SchemaMatchesRevision' /\ UpgradeNeverStuck'
<1>1. revision \in 0..Newest /\ schema = SchemaAt[revision]
  BY DEF DeployInv, RowsFit, DeploymentTypeOK, SchemaMatchesRevision
<1>2. /\ to < revision /\ revision' = to /\ api' # "failed"
      /\ schema' = Run(DowngradePath(revision, to), schema)
  BY DEF Downgrade
<1>3. schema' = SchemaAt[to]
  BY <1>1, <1>2, PathSchema
<1> QED
  BY <1>2, <1>3 DEF SchemaMatchesRevision, UpgradeNeverStuck

LEMMA SchemaStep ==
  ASSUME MigrationsSound, DeployInv, [Next]_vars
  PROVE  DeployInv' /\ (SeedsApart /\ UpgradeNeverStuck => UpgradeNeverStuck')
<1>1. RowsFit'
  BY RowsStep DEF DeployInv
<1>2. SchemaMatchesRevision' /\ (SeedsApart /\ UpgradeNeverStuck => UpgradeNeverStuck')
  <2>1. CASE Release
    BY <2>1 DEF Release, DeployInv, SchemaMatchesRevision, UpgradeNeverStuck
  <2>2. CASE Stop
    BY <2>2 DEF Stop, DeployInv, SchemaMatchesRevision, UpgradeNeverStuck
  <2>3. CASE Start
    BY <2>3, StartSchema
  <2>4. ASSUME NEW to \in 0..Newest, Downgrade(to)
        PROVE  SchemaMatchesRevision' /\ UpgradeNeverStuck'
    BY <2>4, DowngradeSchema
  <2>5. ASSUME NEW rule \in AllRules, StartJob(rule)
        PROVE  SchemaMatchesRevision' /\ UpgradeNeverStuck'
    BY <2>5 DEF StartJob, DeployInv, SchemaMatchesRevision, UpgradeNeverStuck
  <2>6. CASE UNCHANGED vars
    BY <2>6 DEF vars, DeployInv, SchemaMatchesRevision, UpgradeNeverStuck, Located
  <2> QED
    BY <2>1, <2>2, <2>3, <2>4, <2>5, <2>6 DEF Next
<1> QED
  BY <1>1, <1>2 DEF DeployInv

LEMMA DeployInit ==
  ASSUME MigrationsSound, Init
  PROVE  DeployInv
  BY RowsInit, SchemaInit DEF DeployInv

LEMMA DeployAlways ==
  ASSUME MigrationsSound
  PROVE  Spec => []DeployInv
<1>1. Init => DeployInv
  BY DeployInit
<1>2. DeployInv /\ [Next]_vars => DeployInv'
  BY SchemaStep
<1> QED
  BY <1>1, <1>2, PTL DEF Spec

\* Whatever way a revision was reached, through any number of releases,
\* downgrades and jobs, its schema is the one a fresh database has there: the
\* downgrade() of every migration undoes its upgrade().
THEOREM SchemaFollowsRevision ==
  ASSUME MigrationsSound
  PROVE  Spec => []SchemaMatchesRevision
<1>1. DeployInv => SchemaMatchesRevision
  BY DEF DeployInv
<1> QED
  BY <1>1, DeployAlways, PTL

\* No history of releases, of newer and of older images, and of downgrades leaves
\* a database on which the alembic upgrade head of entrypoint.sh fails, unless the
\* image is older than the database, for any seed files in which no two products
\* have one external id (0002 inserts under uq_token_products_platform_external).
THEOREM UpgradesSucceed ==
  ASSUME MigrationsSound, SeedsApart
  PROVE  Spec => []UpgradeNeverStuck
<1>1. Init => UpgradeNeverStuck
  BY DEF Init, UpgradeNeverStuck
<1>2. DeployInv /\ UpgradeNeverStuck /\ [Next]_vars => UpgradeNeverStuck'
  BY SchemaStep
<1> QED
  BY <1>1, <1>2, DeployAlways, PTL DEF Spec

\* While the API serves, the database is at the revision of its image: a release
\* stops the API, and a downgrade needs it stopped.
UpToDate == api = "up" => revision = image.newest

LEMMA UpToDateStep ==
  ASSUME UpToDate, [Next]_vars
  PROVE  UpToDate'
<1>1. CASE Start
  <2>1. CASE api' = "up"
    BY <1>1, <2>1 DEF Start, UpToDate
  <2>2. CASE api' # "up"
    BY <2>2 DEF UpToDate
  <2> QED
    BY <2>1, <2>2
<1>2. ASSUME NEW to \in 0..Newest, Downgrade(to)
      PROVE  UpToDate'
  BY <1>2 DEF Downgrade, UpToDate
<1>3. CASE Release \/ Stop \/ (\E rule \in AllRules : StartJob(rule)) \/ UNCHANGED vars
  BY <1>3 DEF Release, Stop, StartJob, vars, UpToDate
<1> QED
  BY <1>1, <1>2, <1>3 DEF Next

\* While the API of the newest image serves, the tables have the columns, unique sets
\* and enum labels its models declare, after any history of releases and downgrades:
\* the entrypoint starts uvicorn only when alembic upgrade head has succeeded.
THEOREM SchemaServes ==
  ASSUME MigrationsSound
  PROVE  Spec => []ServedSchemaFits
<1>1. Init => UpToDate
  BY DEF Init, UpToDate
<1>2. UpToDate /\ [Next]_vars => UpToDate'
  BY UpToDateStep
<1>3. ASSUME DeployInv, UpToDate
      PROVE  ServedSchemaFits
  <2>1. SUFFICES ASSUME api = "up", image.newest = Newest
                 PROVE  Fits(schema)
    BY DEF ServedSchemaFits
  <2>2. schema = SchemaAt[Newest]
    BY <1>3, <2>1 DEF UpToDate, DeployInv, SchemaMatchesRevision
  <2>3. Fits(SchemaAt[Newest])
    BY DEF MigrationsSound
  <2> QED
    BY <2>2, <2>3
<1> QED
  BY <1>1, <1>2, <1>3, DeployAlways, PTL DEF Spec

(***************************************************************************)
(* The jobs.                                                               *)
(***************************************************************************)

\* A downgrade to nothing drops the jobs with their table, but where 0002 is
\* undone on the way it deletes the image's rules first and stops at one that
\* has a job.
LEMMA DowngradeJobs ==
  ASSUME MigrationsSound, DeployInv, NEW to \in 0..Newest, Downgrade(to)
  PROVE  \/ jobs \subseteq jobs'
         \/ revision' = 0 /\ (revision < 2 \/ jobs \cap Seed.rules = {})
<1>1. /\ revision \in 0..Newest /\ schema = SchemaAt[revision]
      /\ jobs \subseteq rules
  BY DEF DeployInv, RowsFit, DeploymentTypeOK, SchemaMatchesRevision
<1>2. /\ to < revision /\ revision' = to
      /\ ~(jobs \cap DeletedRules(revision, to) # {} /\ RulesRestricted)
      /\ jobs' = IF to = 0 THEN {} ELSE jobs \ DeletedRules(revision, to)
  BY DEF Downgrade, Referenced
<1>3. RulesRestricted
  <2>1. 1 <= revision
    BY <1>1, <1>2 DEF Newest
  <2> QED
    BY <1>1, <2>1, PathSchema DEF RulesRestricted
<1>4. jobs \cap DeletedRules(revision, to) = {}
  BY <1>2, <1>3
<1>5. CASE to = 0 /\ 2 <= revision
  <2>1. DeletedRules(revision, to) = rules \cap Seed.rules
    BY <1>5 DEF DeletedRules
  <2> QED
    BY <1>1, <1>2, <1>4, <1>5, <2>1
<1>6. CASE to = 0 /\ revision < 2
  BY <1>2, <1>6
<1>7. CASE to # 0
  BY <1>2, <1>4, <1>7
<1> QED
  BY <1>1, <1>5, <1>6, <1>7 DEF Newest

LEMMA JobsStep ==
  ASSUME MigrationsSound, DeployInv, [Next]_vars
  PROVE  \/ jobs \subseteq jobs'
         \/ revision' = 0 /\ (revision < 2 \/ jobs \cap Seed.rules = {})
<1>1. ASSUME NEW to \in 0..Newest, Downgrade(to)
      PROVE  \/ jobs \subseteq jobs'
             \/ revision' = 0 /\ (revision < 2 \/ jobs \cap Seed.rules = {})
  BY <1>1, DowngradeJobs
<1>2. CASE ~\E to \in 0..Newest : Downgrade(to)
  BY <1>2 DEF Next, Release, Stop, Start, StartJob, vars
<1> QED
  BY <1>1, <1>2

\* Whatever the editions of the seed files add, drop and re-date: no release, start
\* or downgrade loses a job except by dropping its table, and no downgrade that has
\* 0002 to undo drops it while a job refers to a rule of the image's pricing.json,
\* because the foreign key of jobs.pricing_rule_id is ON DELETE RESTRICT in 0001.
THEOREM JobsSurvive ==
  ASSUME MigrationsSound
  PROVE  Spec => JobsKept
<1>1. DeployInv /\ [Next]_vars =>
        [\/ jobs \subseteq jobs'
         \/ revision' = 0 /\ (revision < 2 \/ jobs \cap Seed.rules = {})]_vars
  BY JobsStep
<1> QED
  BY <1>1, DeployAlways, PTL DEF Spec, JobsKept
=============================================================================
