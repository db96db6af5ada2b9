----------------------------- MODULE MCCatalog -----------------------------
EXTENDS Catalog

CONSTANTS s1, s2, s3

(* The order of the repository's history, of which any task may be left out: the
   seed files in it are rewritten to local URLs, the rm of seed_beats_3x is for
   the files that the migration made, and the beats and samples of today are
   those of the 3x scripts. And the samples made a second time. *)
Histories == {<<"content", "local", "beats_3x", "samples_3x">>, <<"samples_3x", "samples_3x">>}
History == {<<"content", "local", "beats_3x", "samples_3x">>}
ContentOnly == {<<"content", "local">>}
LocalTwice == {<<"content", "local", "content", "local">>}

(* Searches that may find anything: one genre, one tag of one category of drums
   and one title without a tag in seed_content; that tag, for which seed_samples_3x
   keeps two sounds; and two of the three titles of the genre in seed_beats_3x. *)
SlotsOf(Taken(_)) == [s \in Scripts |-> {i \in DOMAIN Plan[s] : Taken(Plan[s][i])}]

InGenre(slt) == slt.group = "rap" /\ slt.file < 3
OneTag(slt) == slt.group = "drums_kick" /\ "edm" \in ToSet(slt.tags)

TwoSlots ==
  LET Taken(slt) == InGenre(slt) \/ OneTag(slt)
  IN SlotsOf(Taken)

Untagged == {i \in DOMAIN ContentPlan : ContentPlan[i].title = "Reverb Tail"}

FewSlots == [TwoSlots EXCEPT !["seed_content"] = @ \cup Untagged]

(* The genre and two tags of that category. *)
TwoTags ==
  LET Taken(slt) == \/ slt.group = "rap"
                    \/ slt.group = "drums_kick" /\ ToSet(slt.tags) \subseteq {"all_drums", "edm"}
  IN SlotsOf(Taken)

SoundSymmetry == Permutations(Sounds)
=============================================================================
