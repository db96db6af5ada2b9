------------------------------- MODULE Seeds -------------------------------
(* The seed files of beats and samples: the vocabulary of tags                *)
(* (app/music/tags.py), the checks of the importers (seed/importers.py) and   *)
(* the tables from which the three Freesound scripts under scripts/ fill the   *)
(* files. A table row keeps what the files, the database and the API tell      *)
(* apart: the text of a search query, the bpm and the key are left out.        *)
EXTENDS Integers, Sequences, FiniteSets, SequencesExt

CONSTANT PerTag  \* PER_TAG of seed_samples_3x: 3 in the code

ASSUME PerTagAssumption == PerTag \in Nat

HARMONIC_TAGS == {"all_instruments", "acoustic_guitars", "global_ensemble",
                  "acoustic_instruments", "chill_keys", "seventies_fusion",
                  "jazz_trio", "rock_n_roll", "soft_rock", "classical_strings",
                  "synth_haven", "smooth_pop", "carolina_trap_set", "brass_and_winds"}

DRUM_TAGS == {"all_drums", "acoustic", "dusty", "edm", "experimental", "trap_808",
              "vintage_electronic"}

HARMONIC_CATEGORIES == {"harmonic_bass", "harmonic_lead", "harmonic_chord"}

DRUMS_CATEGORIES == {"drums_kick", "drums_snare", "drums_closed_hihat",
                     "drums_open_hihat", "drums_auxiliary"}

UNTAGGED_CATEGORIES == {"mixing", "sound_effects"}

SampleCategory == HARMONIC_CATEGORIES \cup DRUMS_CATEGORIES \cup UNTAGGED_CATEGORIES

BEAT_SUBGENRE_TAGS ==
  [electronic_dance |-> {"house", "techno", "edm", "trance", "dubstep",
                         "drum_and_bass", "future_bass", "electro"},
   rap |-> {"trap", "boom_bap", "cloud_rap", "drill", "lo_fi_rap", "old_school", "phonk"},
   lofi |-> {"lofi_hip_hop", "chillhop", "jazz_lofi", "vinyl", "study_beats", "rainy"},
   global_groove |-> {"afrobeat", "latin", "bossa_nova", "reggaeton", "world", "samba",
                      "amapiano"},
   relaxing_meditation |-> {"ambient", "nature", "binaural", "drone", "spa", "yoga", "sleep"}]

BeatGenre == DOMAIN BEAT_SUBGENRE_TAGS

allowed_tags_for_category(category) ==
  CASE category \in HARMONIC_CATEGORIES -> HARMONIC_TAGS
    [] category \in DRUMS_CATEGORIES -> DRUM_TAGS
    [] OTHER -> {}

(* validate_tags and validate_beat_tags raise unless these hold. A tag stands
   for what strip().lower() makes of it; the empty one is skipped. *)
validate_tags(category, tags) ==
  IF category \in UNTAGGED_CATEGORIES
  THEN tags = <<>>
  ELSE ToSet(tags) \ {""} \subseteq allowed_tags_for_category(category)

validate_beat_tags(genre, tags) == ToSet(tags) \ {""} \subseteq BEAT_SUBGENRE_TAGS[genre]

(* parse_beats and parse_samples raise at the first row that is not such. *)
parse_beats(file) ==
  \A i \in DOMAIN file : file[i].group \in BeatGenre
                         /\ validate_beat_tags(file[i].group, file[i].tags)

parse_samples(file) ==
  \A i \in DOMAIN file : file[i].group \in SampleCategory
                         /\ validate_tags(file[i].group, file[i].tags)

-----------------------------------------------------------------------------
(* What the scripts look for. A slot is one search: "title" is the title of the
   row, or FromSound when the row is named after the sound; "order" and "file"
   are the sort_order and the number in the file name, or Dense for the next
   free one; "tries" searches are made for it and "want" sounds taken. *)
FromSound == ""
Dense == 0

Slot(kind, group, tags, title, order, file, tries, want) ==
  [kind |-> kind, group |-> group, tags |-> tags, title |-> title, order |-> order,
   file |-> file, tries |-> tries, want |-> want]

(* The tables shared by seed_content.py and seed_samples_3x.py, in their order. *)
HARMONIC_TAG_QUERIES ==
  <<"all_instruments", "acoustic_guitars", "global_ensemble", "acoustic_instruments",
    "chill_keys", "seventies_fusion", "jazz_trio", "rock_n_roll", "soft_rock",
    "classical_strings", "synth_haven", "smooth_pop", "carolina_trap_set",
    "brass_and_winds">>

DRUM_TAG_QUERIES ==
  <<"all_drums", "acoustic", "dusty", "edm", "experimental", "trap_808",
    "vintage_electronic">>

HarmonicQueries == <<"harmonic_bass", "harmonic_lead", "harmonic_chord">>

DrumQueries == <<"drums_kick", "drums_snare", "drums_closed_hihat", "drums_open_hihat",
                 "drums_auxiliary">>

MISC_QUERIES ==
  <<<<"mixing", <<"Master Saturator", "Bus Compressor Glue", "Reverb Tail">>>>,
    <<"sound_effects", <<"Riser FX", "Vinyl Crackle", "Atmospheric Whoosh">>>>>>

ContentBeats ==
  <<<<"electronic_dance", "Pulse 124">>, <<"rap", "Trap Cinematic">>,
    <<"lofi", "Rainy Window">>, <<"global_groove", "Afro Sunrise">>,
    <<"relaxing_meditation", "Forest Breath">>>>

BEATS_QUERIES ==
  <<<<"electronic_dance", <<<<"House Pulse 124", <<"house", "edm">>>>,
                            <<"Techno Driver", <<"techno", "edm">>>>,
                            <<"Dub Pressure", <<"dubstep", "drum_and_bass">>>>>>>>,
    <<"rap", <<<<"Trap Cinematic", <<"trap", "phonk">>>>,
               <<"Boom Bap Classic", <<"boom_bap", "old_school">>>>,
               <<"Drill Tension", <<"drill">>>>>>>>,
    <<"lofi", <<<<"Rainy Window", <<"lofi_hip_hop", "rainy">>>>,
                <<"Chillhop Cafe", <<"chillhop", "jazz_lofi">>>>,
                <<"Study Vinyl", <<"study_beats", "vinyl">>>>>>>>,
    <<"global_groove", <<<<"Afro Sunrise", <<"afrobeat", "world">>>>,
                         <<"Latin Heat", <<"latin", "samba">>>>,
                         <<"Reggaeton Vibes", <<"reggaeton">>>>>>>>,
    <<"relaxing_meditation", <<<<"Forest Breath", <<"ambient", "nature">>>>,
                               <<"Spa Drone", <<"drone", "spa">>>>,
                               <<"Sleep Waves", <<"binaural", "sleep">>>>>>>>>>

-----------------------------------------------------------------------------
(* The searches of each script, in order. *)

(* The tags of a sample found for one tag: the tag of the whole family first. *)
TagsField(family, tag) == IF tag = family THEN <<family>> ELSE <<family, tag>>

(* The loops of the scripts are nested: turn i of an inner loop of n turns. *)
Outer(i, n) == ((i - 1) \div n) + 1
Inner(i, n) == ((i - 1) % n) + 1

Grid(categories, tags, family, tries, want) ==
  [i \in 1..(Len(categories) * Len(tags)) |->
     Slot("sample", categories[Outer(i, Len(tags))], TagsField(family, tags[Inner(i, Len(tags))]),
          FromSound, Dense, Dense, tries, want)]

(* Three titles for each of the two categories, numbered inside the category. *)
Misc(tries) ==
  [i \in 1..6 |->
     Slot("sample", MISC_QUERIES[Outer(i, 3)][1], <<>>, MISC_QUERIES[Outer(i, 3)][2][Inner(i, 3)],
          Inner(i, 3), Inner(i, 3), tries, 1)]

Harmonic(want) == Grid(HarmonicQueries, HARMONIC_TAG_QUERIES, "all_instruments", 3, want)
Drums(want) == Grid(DrumQueries, DRUM_TAG_QUERIES, "all_drums", 3, want)

(* seed_content: one beat for a genre, one sample for a category and a tag. *)
ContentPlan ==
  [i \in DOMAIN ContentBeats |->
     Slot("beat", ContentBeats[i][1], <<>>, ContentBeats[i][2], i, Dense, 2, 1)]
  \o Harmonic(1) \o Drums(1) \o Misc(1)

(* seed_samples_3x: up to PER_TAG samples for a category and a tag. *)
SamplesPlan == Harmonic(PerTag) \o Drums(PerTag) \o Misc(1)

(* seed_beats_3x: three beats for a genre; the file is numbered inside its
   genre, the order runs over all genres. *)
BeatsPlan ==
  [i \in 1..15 |->
     LET genre == BEATS_QUERIES[Outer(i, 3)][1]
         beat == BEATS_QUERIES[Outer(i, 3)][2][Inner(i, 3)]
     IN Slot("beat", genre, beat[2], beat[1], Dense, Inner(i, 3), 1, 1)]
=============================================================================
