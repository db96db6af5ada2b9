---------------------------- MODULE SeedScripts ----------------------------
(* scripts/seed_content.py, seed_samples_3x.py and seed_beats_3x.py: each runs  *)
(* on a developer's machine, searches Freesound slot by slot, keeps the sounds  *)
(* (uploaded to fal's storage, or as files under build/) and at the end writes  *)
(* the seed files of the repository. A search may find nothing, a download may  *)
(* fail and the script may stop at any point.                                   *)
EXTENDS Seeds

CONSTANTS Sounds,   \* what Freesound has
          Fruitful  \* script -> the searches that may find anything

VARIABLES
  script,  \* the script that runs, or "none"
  pos,     \* the slot it is at
  used,    \* used / used_ids: the sounds it has taken
  out,     \* beats_out and samples_out
  seeds,   \* beats.json and samples.json
  build,   \* build/beats and build/samples: file -> sound
  fal      \* the sounds uploaded to fal's storage

scriptVars == <<script, pos, used, out, seeds, build, fal>>

(* Files copied to a directory replace those of the same name. *)
Over(files, directory) ==
  [f \in DOMAIN files \cup DOMAIN directory |->
     IF f \in DOMAIN files THEN files[f] ELSE directory[f]]

Kinds == {"beat", "sample"}
Scripts == {"seed_content", "seed_samples_3x", "seed_beats_3x"}

Plan == [seed_content |-> ContentPlan, seed_samples_3x |-> SamplesPlan,
         seed_beats_3x |-> BeatsPlan]

ASSUME FruitfulAssumption == \A s \in Scripts : Fruitful[s] \subseteq DOMAIN Plan[s]

slot == Plan[script][pos]
AtSlot == script # "none" /\ pos \in DOMAIN Plan[script]
AtEnd == script # "none" /\ pos > Len(Plan[script])

(* A URL is an object of fal's storage or a file under the public base. *)
Fal(n) == [host |-> "fal", n |-> n]
Local(kind, group, n) == [host |-> "local", kind |-> kind, group |-> group, n |-> n]

(* cat_sort and sort_order count the rows made so far: of the category for a
   sample, of the whole file for a beat. *)
Counted(rows, s) == {i \in DOMAIN rows : s.kind = "beat" \/ rows[i].group = s.group}

NextOrder(rows, s) == IF s.order # Dense THEN s.order ELSE Cardinality(Counted(rows, s)) + 1

(* A row of a seed file. "sound" is not in the file: it is what the row's URL
   led to when the row was written. *)
SeedRow(s, order, url, sound) ==
  [kind |-> s.kind, group |-> s.group, tags |-> s.tags,
   title |-> IF s.title = FromSound THEN sound ELSE s.title,
   url |-> url, sort_order |-> order, sound |-> sound]

NoRows == [k \in Kinds |-> <<>>]

(* The next search that may find anything, or the end of the tables. *)
MoveOn(s, from) ==
  \E next \in Fruitful[s] \cup {Len(Plan[s]) + 1} :
    /\ next > from /\ \A q \in Fruitful[s] : q > from => q >= next
    /\ pos' = next

StartScript(s) ==
  /\ script = "none"
  /\ script' = s /\ used' = {} /\ out' = NoRows /\ MoveOn(s, 0)
  /\ UNCHANGED <<seeds, build, fal>>

(* fetch_and_upload tries its queries in turn; a sound whose download or upload
   fails stays used, and the next query is tried.
   Mutant of fetch_and_upload: pick_unique does not mark what it picks. *)
Uploaded(sound) ==
  /\ fal' = Append(fal, sound)
  /\ out' = [out EXCEPT ![slot.kind] =
               Append(@, SeedRow(slot, NextOrder(@, slot), Fal(Len(fal) + 1), sound))]

fetch_and_upload_unmarked ==
  /\ script = "seed_content" /\ AtSlot
  /\ \E chosen \in Sounds : Uploaded(chosen)
  /\ MoveOn(script, pos)
  /\ UNCHANGED <<script, used, seeds, build>>

fetch_and_upload ==
  /\ script = "seed_content" /\ AtSlot
  /\ \E failed \in SUBSET (Sounds \ used) :
       /\ Cardinality(failed) <= slot.tries
       /\ \/ used' = used \cup failed /\ UNCHANGED <<out, fal>>
          \/ /\ Cardinality(failed) < slot.tries
             /\ \E chosen \in Sounds \ (used \cup failed) :
                  used' = used \cup failed \cup {chosen} /\ Uploaded(chosen)
  /\ MoveOn(script, pos)
  /\ UNCHANGED <<script, seeds, build>>

(* pick_n over the queries of a slot takes up to "want" sounds not used before,
   in the order of the search; "kept" are those that could be downloaded. *)
Picks == {p \in UNION {[1..n -> Sounds \ used] : n \in 0..slot.want} : IsInjective(p)}

(* Those kept are saved under the next numbers of the category, and each gives
   a row. *)
FetchSamples ==
  /\ script = "seed_samples_3x" /\ AtSlot
  /\ \E kept \in Picks, failed \in SUBSET (Sounds \ used) :
       LET first == NextOrder(out["sample"], slot)
           fileOf == [i \in DOMAIN kept |-> Local("sample", slot.group, first + i - 1)]
       IN /\ failed \cap Range(kept) = {} /\ Cardinality(failed) + Len(kept) <= slot.want
          /\ used' = used \cup failed \cup Range(kept)
          /\ build' = Over([f \in Range(fileOf) |-> kept[f.n - first + 1]], build)
          /\ out' = [out EXCEPT !["sample"] =
                       @ \o [i \in DOMAIN kept |->
                               SeedRow(slot, first + i - 1, fileOf[i], kept[i])]]
  /\ MoveOn(script, pos)
  /\ UNCHANGED <<script, seeds, fal>>

(* seed_beats_3x takes the first sound not used; a download that fails is not
   caught and ends the script (Abort). *)
FetchBeat ==
  /\ script = "seed_beats_3x" /\ AtSlot
  /\ \/ UNCHANGED <<used, build, out>>
     \/ \E chosen \in Sounds \ used :
          LET file == Local("beat", slot.group, slot.file)
          IN /\ used' = used \cup {chosen}
             /\ build' = Over([f \in {file} |-> chosen], build)
             /\ out' = [out EXCEPT !["beat"] =
                          Append(@, SeedRow(slot, NextOrder(@, slot), file, chosen))]
  /\ MoveOn(script, pos)
  /\ UNCHANGED <<script, seeds, fal>>

Ended == script' = "none" /\ pos' = 1 /\ used' = {} /\ out' = NoRows

(* beats.json is written before samples.json; the 3x scripts write one of them.
   A write_text is whole or absent here: one that is cut off leaves a file no
   command can load, which the operator takes from git again. *)
WriteBeats ==
  /\ AtEnd /\ script # "seed_samples_3x" /\ pos = Len(Plan[script]) + 1
  /\ seeds' = [seeds EXCEPT !["beat"] = out["beat"]]
  /\ IF script = "seed_content"
     THEN pos' = pos + 1 /\ UNCHANGED <<script, used, out>>
     ELSE Ended
  /\ UNCHANGED <<build, fal>>

WriteSamples ==
  /\ AtEnd /\ script # "seed_beats_3x"
  /\ script = "seed_content" => pos = Len(Plan[script]) + 2
  /\ seeds' = [seeds EXCEPT !["sample"] = out["sample"]]
  /\ Ended
  /\ UNCHANGED <<build, fal>>

(* The script stops: killed, or by an exception it does not catch. *)
Abort ==
  /\ script # "none"
  /\ Ended
  /\ UNCHANGED <<seeds, build, fal>>

ScriptStep == fetch_and_upload \/ FetchSamples \/ FetchBeat \/ WriteBeats \/ WriteSamples

(* rewrite_seed_to_local.py: every URL of both files becomes the URL of the
   local file of the row, whether or not that file exists.  The two files are
   written in one step: no command comes between, and the script run again
   after a cut-off writes the same.
   Mutant of RewrittenUrl: a beat is numbered too. *)
RewrittenUrlNumbered(r) == Local(r.kind, r.group, r.sort_order)

RewrittenUrl(r) ==
  IF r.kind = "beat" THEN Local("beat", r.group, 0) ELSE Local("sample", r.group, r.sort_order)

Rewrite ==
  /\ script = "none"
  /\ seeds' = [k \in Kinds |->
                 [i \in DOMAIN seeds[k] |->
                    [seeds[k][i] EXCEPT !.url = RewrittenUrl(seeds[k][i])]]]
  /\ UNCHANGED <<script, pos, used, out, build, fal>>

ScriptInit ==
  /\ script = "none" /\ pos = 1 /\ used = {} /\ out = NoRows
  /\ seeds = NoRows /\ build = <<>> /\ fal = <<>>

-----------------------------------------------------------------------------
(* A reseed of the files never stops at the importers' checks: the tags the
   scripts write are those app/music/tags.py accepts for the genre or category,
   also those of the searches that find nothing here. *)
SlotsLoad ==
  \A s \in Scripts : \A i \in DOMAIN Plan[s] :
    IF Plan[s][i].kind = "beat" THEN parse_beats(<<Plan[s][i]>>)
                                ELSE parse_samples(<<Plan[s][i]>>)

SeedFilesLoad == parse_beats(seeds["beat"]) /\ parse_samples(seeds["sample"]) /\ SlotsLoad

(* No seed file offers a sound twice, and no two of its rows share a URL: the
   upsert by audio_url (run_seed.py) would keep only the last of them. *)
SeedRowsDistinct ==
  \A k \in Kinds : \A i, j \in DOMAIN seeds[k] :
    i # j => seeds[k][i].sound # seeds[k][j].sound /\ seeds[k][i].url # seeds[k][j].url

(* A reseed takes the seed files as they are: every row passes, and stays. *)
SeedFilesSound == SeedFilesLoad /\ SeedRowsDistinct
=============================================================================
