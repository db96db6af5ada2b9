------------------------------ MODULE Catalog ------------------------------
(* The catalog of beats and samples on the server: the files nginx serves, the  *)
(* tables beats and samples, and the commands that bring the output of the seed *)
(* scripts there: push, scp, rm, DELETE, run_seed, migrate_to_local_storage,    *)
(* rewrite_seed_to_local. The clients read GET /v1/beats and GET /v1/samples at *)
(* any moment.                                                                  *)
EXTENDS SeedScripts

CONSTANTS Programmes,  \* the orders of tasks the operator may follow
          MaxCrashes   \* how many scripts and migrations may be cut off

ASSUME CrashesAssumption == MaxCrashes \in Nat

VARIABLES
  deployed,  \* the seed files inside the api image
  static,    \* /opt/music-backend/static: file -> [sound, whole]
  rows,      \* the rows of beats and samples, all of them active
  mig,       \* migrate_to_local_storage, when it runs
  task, step,  \* the task the operator is at or did last, the next of its commands
  ahead,     \* and the tasks to come
  crashes

vars == <<script, pos, used, out, seeds, build, fal, deployed, static, rows, mig, task, step,
          ahead, crashes>>

(* What each task consists of. seed_content and seed_beats_3x print their commands
   (the latter names push and run_seed in a comment), rewrite_seed_to_local says
   when it runs. seed_samples_3x prints no command: it writes the same kind of
   files as seed_beats_3x, and they are brought to the server in the same way. *)
Runbook ==
  [none |-> <<>>,
   content |-> <<"seed_content", "push", "wipe", "reseed">>,
   local |-> <<"migrate", "rewrite", "push">>,
   samples_3x |-> <<"seed_samples_3x", "scp", "push", "reseed_samples">>,
   beats_3x |-> <<"seed_beats_3x", "scp", "rm", "push", "reseed_beats">>]

Tasks == {"content", "local", "samples_3x", "beats_3x"}

ASSUME ProgrammesAssumption == Programmes \subseteq Seq(Tasks)

Loaded == [reseed |-> {"beat", "sample"}, reseed_samples |-> {"sample"}, reseed_beats |-> {"beat"}]

Idle == [phase |-> "idle"]
Given(command) == step \in DOMAIN Runbook[task] /\ Runbook[task][step] = command
AtRest == step > Len(Runbook[task])
Stay == UNCHANGED <<task, step, ahead>>
Done == step' = step + 1 /\ UNCHANGED <<task, ahead>>

-----------------------------------------------------------------------------
(* The commands. *)

(* git push: the image with the seed files of the repository is deployed. *)
Push ==
  /\ Given("push") /\ Done
  /\ deployed' = seeds
  /\ UNCHANGED <<script, pos, used, out, seeds, build, fal, static, rows, mig, crashes>>

(* scp build/.../ *.mp3: the files replace those of the same name.
   Mutant of Scp: a file that is there already is kept. *)
Copies == [f \in DOMAIN build |-> [sound |-> build[f], whole |-> TRUE]]

ScpKeepOld ==
  /\ Given("scp") /\ Done
  /\ static' = Over(static, Copies)
  /\ UNCHANGED <<script, pos, used, out, seeds, build, fal, deployed, rows, mig, crashes>>

Scp ==
  /\ Given("scp") /\ Done
  /\ static' = Over(Copies, static)
  /\ UNCHANGED <<script, pos, used, out, seeds, build, fal, deployed, rows, mig, crashes>>

(* rm of the one file a genre had before: {genre}.mp3. *)
Rm ==
  /\ Given("rm") /\ Done
  /\ static' = Restrict(static, {f \in DOMAIN static : f.kind # "beat" \/ f.n # 0})
  /\ UNCHANGED <<script, pos, used, out, seeds, build, fal, deployed, rows, mig, crashes>>

(* DELETE FROM samples; DELETE FROM beats. *)
Wipe ==
  /\ Given("wipe") /\ Done
  /\ rows' = {}
  /\ UNCHANGED <<script, pos, used, out, seeds, build, fal, deployed, static, mig, crashes>>

(* INSERT ... ON CONFLICT (audio_url) DO UPDATE for each row of a file: a row
   with the URL of an earlier one, of the table or the file, takes its place.
   Mutant of Upsert: without the conflict clause and the unique column. *)
SameKey(r, o) == r.kind = o.kind /\ r.url = o.url

UpsertInsert(table, file) == table \cup Range(file)

Upsert(table, file) ==
  {r \in table : \A i \in DOMAIN file : ~SameKey(r, file[i])}
  \cup {file[i] : i \in {j \in DOMAIN file :
                         \A k \in DOMAIN file : k > j => ~SameKey(file[k], file[j])}}

(* python -m app.music.seed.run_seed: both files in one transaction, the beats
   first, rolled back when an importer raises. *)
Reseed(command) ==
  /\ Given(command) /\ Done
  /\ LET loads == /\ "beat" \in Loaded[command] => parse_beats(deployed["beat"])
                  /\ "sample" \in Loaded[command] => parse_samples(deployed["sample"])
         beats == IF "beat" \in Loaded[command] THEN Upsert(rows, deployed["beat"]) ELSE rows
         both == IF "sample" \in Loaded[command] THEN Upsert(beats, deployed["sample"]) ELSE beats
     IN rows' = IF loads THEN both ELSE rows
  /\ UNCHANGED <<script, pos, used, out, seeds, build, fal, deployed, static, mig, crashes>>

RewriteFiles ==
  /\ Given("rewrite") /\ Done /\ Rewrite
  /\ UNCHANGED <<deployed, static, rows, mig, crashes>>

(* migrate_to_local_storage: one transaction over the rows of both tables, the
   beats first. "view" is what the transaction sees, "left" the rows to come. *)
MigrateBegin ==
  /\ Given("migrate") /\ mig = Idle
  /\ mig' = [phase |-> "rows", view |-> rows, left |-> rows]
  /\ UNCHANGED <<script, pos, used, out, seeds, build, fal, deployed, static, rows, crashes>> /\ Stay

MigrateAt(r) ==
  /\ mig.phase = "rows" /\ r \in mig.left
  /\ r.kind = "sample" => \A b \in mig.left : b.kind = "sample"

LocalUrl(r) ==
  Local(r.kind, r.group, IF r.kind = "beat" THEN 0 ELSE r.sort_order)

(* UPDATE ... SET audio_url: a URL another row has raises (the column is unique)
   and rolls the whole transaction back; the script ends. *)
Point(r, static_) ==
  LET url == LocalUrl(r)
      taken == \E o \in mig.view : o.kind = r.kind /\ o.url = url
  IN /\ static' = static_
     /\ mig' = IF taken THEN Idle
               ELSE [phase |-> "rows", left |-> mig.left \ {r},
                     view |-> (mig.view \ {r}) \cup {[r EXCEPT !.url = url]}]
     /\ IF taken THEN Done ELSE Stay

(* A row that is local already is skipped; a file that exists is used as it is.
   Mutant of MigrateRow: a download that failed does not skip the row. *)
MigrateRowAnyway(r) ==
  /\ MigrateAt(r)
  /\ IF r.url.host = "local"
     THEN mig' = [mig EXCEPT !.left = @ \ {r}] /\ UNCHANGED static /\ Stay
     ELSE Point(r, static)

MigrateRow(r) ==
  /\ MigrateAt(r)
  /\ \/ /\ \/ r.url.host = "local"
           \/ LocalUrl(r) \notin DOMAIN static   \* the download fails
        /\ mig' = [mig EXCEPT !.left = @ \ {r}]
        /\ UNCHANGED static /\ Stay
     \/ /\ r.url.host = "fal" /\ LocalUrl(r) \in DOMAIN static
        /\ Point(r, static)
     \/ /\ r.url.host = "fal" /\ LocalUrl(r) \notin DOMAIN static
        /\ static' = Over([f \in {LocalUrl(r)} |-> [sound |-> fal[r.url.n], whole |-> FALSE]], static)
        /\ mig' = [phase |-> "writing", view |-> mig.view, left |-> mig.left, row |-> r]
        /\ Stay

MigrateRows ==
  /\ \E r \in rows : MigrateRow(r)
  /\ UNCHANGED <<script, pos, used, out, seeds, build, fal, deployed, rows, crashes>>

(* write_bytes comes to its end, or fails: the row is skipped, what has been
   written of the file stays. *)
MigrateWritten ==
  /\ mig.phase = "writing"
  /\ \/ Point(mig.row, [static EXCEPT ![LocalUrl(mig.row)].whole = TRUE])
     \/ /\ mig' = [phase |-> "rows", view |-> mig.view, left |-> mig.left \ {mig.row}]
        /\ UNCHANGED static /\ Stay
  /\ UNCHANGED <<script, pos, used, out, seeds, build, fal, deployed, rows, crashes>>

MigrateCommit ==
  /\ mig.phase = "rows" /\ mig.left = {}
  /\ rows' = mig.view /\ mig' = Idle /\ Done
  /\ UNCHANGED <<script, pos, used, out, seeds, build, fal, deployed, static, crashes>>

(* The migration is cut off: the database rolls back, the files stay. *)
MigrateCrash ==
  /\ mig # Idle /\ crashes < MaxCrashes
  /\ mig' = Idle /\ crashes' = crashes + 1
  /\ UNCHANGED <<script, pos, used, out, seeds, build, fal, deployed, static, rows>> /\ Stay

-----------------------------------------------------------------------------
(* The operator takes the tasks of a programme in order and may leave out any; a
   command that was cut off is given again. *)
server == <<deployed, static, rows, mig>>

Begin ==
  /\ AtRest
  /\ \E t \in DOMAIN ahead :
       /\ task' = ahead[t] /\ step' = 1
       /\ ahead' = SubSeq(ahead, t + 1, Len(ahead))
  /\ UNCHANGED <<script, pos, used, out, seeds, build, fal, deployed, static, rows, mig, crashes>>

RunScript ==
  \/ /\ \E s \in Scripts : Given(s) /\ StartScript(s)
     /\ Stay /\ UNCHANGED crashes /\ UNCHANGED server
  \/ /\ ScriptStep
     /\ IF script' = "none" THEN Done ELSE Stay
     /\ UNCHANGED crashes /\ UNCHANGED server
  \/ /\ crashes < MaxCrashes /\ Abort
     /\ crashes' = crashes + 1
     /\ Stay /\ UNCHANGED server

Init ==
  /\ ScriptInit
  /\ deployed = seeds /\ static = <<>> /\ rows = {} /\ mig = Idle
  /\ task = "none" /\ step = 1 /\ ahead \in Programmes /\ crashes = 0

Finished == AtRest /\ ahead = <<>> /\ UNCHANGED vars

Next ==
  \/ Begin \/ RunScript \/ Push \/ Scp \/ Rm \/ Wipe \/ RewriteFiles
  \/ \E c \in DOMAIN Loaded : Reseed(c)
  \/ MigrateBegin \/ MigrateRows \/ MigrateWritten \/ MigrateCommit \/ MigrateCrash
  \/ Finished

Spec == Init /\ [][Next]_vars

-----------------------------------------------------------------------------
(* What the clients get. *)
Every == "every"

list_beats(genre) == {r \in rows : r.kind = "beat" /\ (genre = Every \/ r.group = genre)}

list_samples(category, tag) ==
  {r \in rows : /\ r.kind = "sample"
                /\ category = Every \/ r.group = category
                /\ tag = Every \/ tag \in ToSet(r.tags)}

category_response_key ==
  [harmonic_bass |-> "bass", harmonic_lead |-> "lead", harmonic_chord |-> "chord",
   drums_kick |-> "kick", drums_snare |-> "snare", drums_closed_hihat |-> "closed_hi_hat",
   drums_open_hihat |-> "open_hi_hat", drums_auxiliary |-> "auxiliary",
   mixing |-> "mixing", sound_effects |-> "sound_effects"]

group_samples_by_category(samples) ==
  [k \in Range(category_response_key) |-> {s \in samples : category_response_key[s.group] = k}]

(* ORDER BY of the listings. *)
SortKey(r) == <<r.kind, r.group, r.sort_order, r.title>>

Listed == list_beats(Every) \cup UNION Range(group_samples_by_category(list_samples(Every, Every)))

-----------------------------------------------------------------------------
CatalogTypeOK ==
  /\ \A r \in rows :
       /\ IF r.kind = "beat" THEN r.group \in BeatGenre ELSE r.group \in SampleCategory
       /\ IF r.url.host = "fal" THEN r.url.n \in DOMAIN fal
          ELSE r.url.kind = r.kind /\ r.url.group = r.group
       /\ r.sort_order \in Nat \ {0} /\ r.sound \in Sounds
       /\ \A o \in rows : o.kind = r.kind /\ o.url = r.url => o = r
  /\ \A f \in DOMAIN static : f.host = "local" /\ static[f].sound \in Sounds
  /\ mig.phase \in {"idle", "rows", "writing"}
  /\ script \in Scripts \cup {"none"} /\ pos \in Nat \ {0} /\ used \subseteq Sounds
  /\ task \in DOMAIN Runbook /\ ToSet(ahead) \subseteq DOMAIN Runbook
  /\ crashes \in 0..MaxCrashes

SoundAt(url) == IF url.host = "fal" THEN fal[url.n] ELSE static[url].sound

(* The audio file of every item a client is shown is there, at every moment. Not
   so after the rm that seed_beats_3x prints: it takes the file of a beat whose
   row no later command deletes. *)
ServedFilesExist ==
  \A r \in Listed : r.url.host = "local" => r.url \in DOMAIN static

(* Files come before the rows that name them, whatever fails, is cut off or is
   rolled back: no step shows an item whose file is not there, and none takes
   the file of an item that is shown, except the rm, which takes no other than
   the one file a genre had before. *)
FilesComeFirst ==
  [][\A r \in Listed' : r.url.host = "local" /\ r.url \notin DOMAIN static' =>
       /\ r \in Listed
       /\ \/ r.url \notin DOMAIN static
          \/ Given("rm") /\ r.kind = "beat" /\ r.url.n = 0]_vars

(* Once a task is done, an item of the current seed files plays the sound it was
   seeded with, and so the one it is titled after. *)
PlaysWhatItSays ==
  AtRest =>
    \A r \in Listed : \A i \in DOMAIN deployed[r.kind] :
      deployed[r.kind][i] = r => SoundAt(r.url) = r.sound

(* After migrate_to_local_storage and rewrite_seed_to_local every local row is a
   row of the seed files in the image, and so is, but for its URL, a row that was
   left at fal because its download failed: it will be one when the migration is
   run again. Until then a reseed would add a second row for it. *)
MigrationAgrees ==
  AtRest /\ task = "local" =>
    \A r \in rows : \E i \in DOMAIN deployed[r.kind] :
      deployed[r.kind][i] = IF r.url.host = "local" THEN r
                            ELSE [r EXCEPT !.url = LocalUrl(r)]

(* What rewrite_seed_to_local says it is for: the seed files name the URLs that
   the rows have, so that run_seed adds no row. It rewrites all of them, and a
   row whose download failed keeps the URL it had. *)
SeedFilesReflectRows ==
  AtRest /\ task = "local" =>
    \A k \in DOMAIN deployed : \A i \in DOMAIN deployed[k] :
      \E r \in rows : SameKey(r, deployed[k][i])

(* Two pages of a listing never share or miss an item while the catalog stays as
   it is: no two items tie in ORDER BY. *)
ListingOrderTotal ==
  \A r, o \in Listed : r # o => SortKey(r) # SortKey(o)

(* A file that is served is complete. *)
ServedFilesWhole ==
  \A r \in Listed : r.url.host = "local" /\ r.url \in DOMAIN static => static[r.url].whole
=============================================================================
