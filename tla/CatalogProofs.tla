---------------------------- MODULE CatalogProofs ----------------------------
(* The catalog scripts, proved for every table of PerTag, every set of sounds,  *)
(* every choice of searches that find something, any number of crashes and     *)
(* every set of programmes: the tables, the shape of the state, the order of   *)
(* the tasks, the seed files and what the rows of the server lead to. Where a  *)
(* theorem needs two tasks never to follow each other it says so with Follows. *)
EXTENDS Catalog, FiniteSetTheorems, TLAPS

-----------------------------------------------------------------------------
(* The tables of the scripts. *)

\* What the importers accept of a slot.
Loads(s) ==
  /\ s.kind \in Kinds
  /\ s.kind = "beat" => s.group \in BeatGenre /\ validate_beat_tags(s.group, s.tags)
  /\ s.kind = "sample" => s.group \in SampleCategory /\ validate_tags(s.group, s.tags)

Numbers(s) == s.order \in Nat /\ s.file \in Nat /\ s.tries \in Nat /\ s.want \in Nat

\* A slot of a sample in a category of harmonic sounds or of drums.
DenseSlot(s) ==
  /\ Loads(s) /\ Numbers(s)
  /\ s.kind = "sample" /\ s.order = Dense /\ s.group \notin UNTAGGED_CATEGORIES

IsSeq(sq, n) == sq = [i \in 1..n |-> sq[i]]

LEMMA SlotFields ==
  ASSUME NEW kind, NEW group, NEW tags, NEW title, NEW order, NEW file, NEW tries, NEW want
  PROVE  LET s == Slot(kind, group, tags, title, order, file, tries, want)
         IN /\ s.kind = kind /\ s.group = group /\ s.tags = tags /\ s.title = title
            /\ s.order = order /\ s.file = file /\ s.tries = tries /\ s.want = want
BY DEF Slot

LEMMA TurnsInRange ==
  ASSUME NEW n \in Nat \ {0}, NEW m \in Nat, NEW i \in 1..(m * n)
  PROVE  Outer(i, n) \in 1..m /\ Inner(i, n) \in 1..n
BY DEF Outer, Inner

LEMMA TagsFieldSet ==
  ASSUME NEW family, NEW tag
  PROVE  ToSet(TagsField(family, tag)) \subseteq {family, tag}
<1>1. CASE tag = family
  <2>1. TagsField(family, tag) = <<family>>
    BY <1>1 DEF TagsField
  <2>2. DOMAIN <<family>> = {1} /\ <<family>>[1] = family
    OBVIOUS
  <2> QED
    BY <2>1, <2>2 DEF ToSet
<1>2. CASE tag # family
  <2>1. TagsField(family, tag) = <<family, tag>>
    BY <1>2 DEF TagsField
  <2>2. DOMAIN <<family, tag>> = {1, 2} /\ <<family, tag>>[1] = family /\ <<family, tag>>[2] = tag
    OBVIOUS
  <2> QED
    BY <2>1, <2>2 DEF ToSet
<1> QED
  BY <1>1, <1>2

LEMMA GridIsDense ==
  ASSUME NEW categories, NEW tags, NEW family, NEW tries \in Nat, NEW want \in Nat,
         Len(categories) \in Nat, Len(tags) \in Nat \ {0},
         \A c \in 1..Len(categories) : categories[c] \in SampleCategory \ UNTAGGED_CATEGORIES,
         \A c \in 1..Len(categories) : \A t \in 1..Len(tags) :
           {family, tags[t]} \subseteq allowed_tags_for_category(categories[c])
  PROVE  LET grid == Grid(categories, tags, family, tries, want)
         IN /\ IsSeq(grid, Len(categories) * Len(tags))
            /\ \A i \in 1..(Len(categories) * Len(tags)) : DenseSlot(grid[i])
<1>0. PICK m \in Nat, n \in Nat \ {0} : m = Len(categories) /\ n = Len(tags)
  OBVIOUS
<1> DEFINE cell(i) == Slot("sample", categories[Outer(i, n)],
                           TagsField(family, tags[Inner(i, n)]), FromSound, Dense, Dense,
                           tries, want)
<1>2. ASSUME NEW i \in 1..(m * n)
      PROVE  DenseSlot(cell(i))
  <2>1. PICK c \in 1..m : c = Outer(i, n)
    BY TurnsInRange
  <2>2. PICK t \in 1..n : t = Inner(i, n)
    BY TurnsInRange
  <2>3. PICK category : category = categories[c]
    OBVIOUS
  <2>4. category \in SampleCategory \ UNTAGGED_CATEGORIES
    BY <1>0, <2>3
  <2>5. PICK tag : tag = tags[t]
    OBVIOUS
  <2>6. {family, tag} \subseteq allowed_tags_for_category(category)
    BY <1>0, <2>5, <2>3
  <2>7. PICK field : field = TagsField(family, tag)
    OBVIOUS
  <2>8. ToSet(field) \subseteq {family, tag}
    BY <2>7, TagsFieldSet
  <2>9. PICK s : s = Slot("sample", category, field, FromSound, Dense, Dense, tries, want)
    OBVIOUS
  <2>10. s.kind = "sample" /\ s.group = category /\ s.tags = field /\ s.order = 0
         /\ s.file = 0 /\ s.tries = tries /\ s.want = want
    BY <2>9, SlotFields DEF Dense
  <2>11. validate_tags(category, field)
    BY <2>4, <2>6, <2>8 DEF validate_tags
  <2>12. DenseSlot(s)
    BY <2>10, <2>11, <2>4 DEF DenseSlot, Loads, Numbers, Dense, Kinds
  <2> QED
    BY <2>1, <2>2, <2>3, <2>5, <2>7, <2>9, <2>12
<1> HIDE DEF cell
<1>3. Grid(categories, tags, family, tries, want) = [i \in 1..(m * n) |-> cell(i)]
  BY <1>0 DEF Grid, cell
<1> QED
  BY <1>0, <1>2, <1>3 DEF IsSeq

LEMMA HarmonicSlots ==
  ASSUME NEW want \in Nat
  PROVE  IsSeq(Harmonic(want), 42) /\ \A i \in 1..42 : DenseSlot(Harmonic(want)[i])
<1>1. Len(HarmonicQueries) = 3 /\ \A c \in 1..3 : HarmonicQueries[c] \in HARMONIC_CATEGORIES
  BY DEF HarmonicQueries, HARMONIC_CATEGORIES
<1>2. Len(HARMONIC_TAG_QUERIES) = 14
      /\ \A t \in 1..14 : HARMONIC_TAG_QUERIES[t] \in HARMONIC_TAGS
  <2>1. Len(HARMONIC_TAG_QUERIES) = 14
    BY DEF HARMONIC_TAG_QUERIES
  <2>2. \A t \in 1..14 : t \in 1..7 \/ t \in 8..14
    OBVIOUS
  <2>3. \A t \in 1..7 : HARMONIC_TAG_QUERIES[t] \in HARMONIC_TAGS
    BY DEF HARMONIC_TAG_QUERIES, HARMONIC_TAGS
  <2>4. \A t \in 8..14 : HARMONIC_TAG_QUERIES[t] \in HARMONIC_TAGS
    BY DEF HARMONIC_TAG_QUERIES, HARMONIC_TAGS
  <2> QED
    BY <2>1, <2>2, <2>3, <2>4
<1>3. \A c \in HARMONIC_CATEGORIES : c \in SampleCategory \ UNTAGGED_CATEGORIES
                                     /\ allowed_tags_for_category(c) = HARMONIC_TAGS
  <2>1. \A c \in HARMONIC_CATEGORIES : allowed_tags_for_category(c) = HARMONIC_TAGS
    <3>1. HARMONIC_CATEGORIES \cap DRUMS_CATEGORIES = {}
      BY DEF HARMONIC_CATEGORIES, DRUMS_CATEGORIES
    <3> QED
      BY <3>1 DEF allowed_tags_for_category
  <2>2. \A c \in HARMONIC_CATEGORIES : c \in SampleCategory \ UNTAGGED_CATEGORIES
    <3>1. HARMONIC_CATEGORIES \cap UNTAGGED_CATEGORIES = {}
      BY DEF HARMONIC_CATEGORIES, UNTAGGED_CATEGORIES
    <3> QED
      BY <3>1 DEF SampleCategory
  <2> QED
    BY <2>1, <2>2
<1>4. "all_instruments" \in HARMONIC_TAGS
  BY DEF HARMONIC_TAGS
<1>5. \A c \in 1..3 : \A t \in 1..14 :
        {"all_instruments", HARMONIC_TAG_QUERIES[t]}
          \subseteq allowed_tags_for_category(HarmonicQueries[c])
  BY <1>1, <1>2, <1>3, <1>4
<1>6. \A c \in 1..3 : HarmonicQueries[c] \in SampleCategory \ UNTAGGED_CATEGORIES
  BY <1>1, <1>3
<1>7. IsSeq(Harmonic(want), 3 * 14) /\ \A i \in 1..(3 * 14) : DenseSlot(Harmonic(want)[i])
  <2> DEFINE H == HarmonicQueries
             T == HARMONIC_TAG_QUERIES
  <2>1. PICK family : family = "all_instruments"
    OBVIOUS
  <2>2. \A c \in 1..3 : \A t \in 1..14 :
          {family, T[t]} \subseteq allowed_tags_for_category(H[c])
    BY <1>5, <2>1
  <2>3. \A c \in 1..3 : H[c] \in SampleCategory \ UNTAGGED_CATEGORIES
    BY <1>6
  <2>4. 3 = Len(H) /\ 14 = Len(T) /\ Harmonic(want) = Grid(H, T, family, 3, want)
    BY <1>1, <1>2, <2>1 DEF Harmonic
  <2> HIDE DEF H, T
  <2>5. /\ \A c \in 1..Len(H) : H[c] \in SampleCategory \ UNTAGGED_CATEGORIES
        /\ \A c \in 1..Len(H) : \A t \in 1..Len(T) :
             {family, T[t]} \subseteq allowed_tags_for_category(H[c])
    BY <2>2, <2>3, <2>4
  <2>6. Len(H) \in Nat /\ Len(T) \in Nat \ {0}
    BY <2>4
  <2>7. /\ IsSeq(Grid(H, T, family, 3, want), Len(H) * Len(T))
        /\ \A i \in 1..(Len(H) * Len(T)) : DenseSlot(Grid(H, T, family, 3, want)[i])
    BY <2>5, <2>6, GridIsDense
  <2> QED
    BY <2>7, <2>4
<1> QED
  BY <1>7, 3 * 14 = 42

LEMMA DrumSlots ==
  ASSUME NEW want \in Nat
  PROVE  IsSeq(Drums(want), 35) /\ \A i \in 1..35 : DenseSlot(Drums(want)[i])
<1>1. Len(DrumQueries) = 5 /\ \A c \in 1..5 : DrumQueries[c] \in DRUMS_CATEGORIES
  BY DEF DrumQueries, DRUMS_CATEGORIES
<1>2. Len(DRUM_TAG_QUERIES) = 7
      /\ \A t \in 1..7 : DRUM_TAG_QUERIES[t] \in DRUM_TAGS
  BY DEF DRUM_TAG_QUERIES, DRUM_TAGS
<1>3. \A c \in DRUMS_CATEGORIES : c \in SampleCategory \ UNTAGGED_CATEGORIES
                                  /\ allowed_tags_for_category(c) = DRUM_TAGS
  BY DEF DRUMS_CATEGORIES, HARMONIC_CATEGORIES, SampleCategory, UNTAGGED_CATEGORIES,
         allowed_tags_for_category
<1>4. "all_drums" \in DRUM_TAGS
  BY DEF DRUM_TAGS
<1>5. \A c \in 1..5 : \A t \in 1..7 :
        {"all_drums", DRUM_TAG_QUERIES[t]}
          \subseteq allowed_tags_for_category(DrumQueries[c])
  BY <1>1, <1>2, <1>3, <1>4
<1>6. \A c \in 1..5 : DrumQueries[c] \in SampleCategory \ UNTAGGED_CATEGORIES
  BY <1>1, <1>3
<1>7. IsSeq(Drums(want), 5 * 7) /\ \A i \in 1..(5 * 7) : DenseSlot(Drums(want)[i])
  <2> DEFINE H == DrumQueries
             T == DRUM_TAG_QUERIES
  <2>1. PICK family : family = "all_drums"
    OBVIOUS
  <2>2. \A c \in 1..5 : \A t \in 1..7 :
          {family, T[t]} \subseteq allowed_tags_for_category(H[c])
    BY <1>5, <2>1
  <2>3. \A c \in 1..5 : H[c] \in SampleCategory \ UNTAGGED_CATEGORIES
    BY <1>6
  <2>4. 5 = Len(H) /\ 7 = Len(T) /\ Drums(want) = Grid(H, T, family, 3, want)
    BY <1>1, <1>2, <2>1 DEF Drums
  <2> HIDE DEF H, T
  <2>5. /\ \A c \in 1..Len(H) : H[c] \in SampleCategory \ UNTAGGED_CATEGORIES
        /\ \A c \in 1..Len(H) : \A t \in 1..Len(T) :
             {family, T[t]} \subseteq allowed_tags_for_category(H[c])
    BY <2>2, <2>3, <2>4
  <2>6. Len(H) \in Nat /\ Len(T) \in Nat \ {0}
    BY <2>4
  <2>7. /\ IsSeq(Grid(H, T, family, 3, want), Len(H) * Len(T))
        /\ \A i \in 1..(Len(H) * Len(T)) : DenseSlot(Grid(H, T, family, 3, want)[i])
    BY <2>5, <2>6, GridIsDense
  <2> QED
    BY <2>7, <2>4
<1> QED
  BY <1>7, 5 * 7 = 35

\* A slot of a sample in one of the categories without tags.
Titled(s) ==
  /\ Loads(s) /\ Numbers(s)
  /\ s.kind = "sample" /\ s.order # Dense /\ s.want = 1 /\ s.group \in UNTAGGED_CATEGORIES

LEMMA MiscSlots ==
  ASSUME NEW tries \in Nat
  PROVE  /\ IsSeq(Misc(tries), 6)
         /\ \A i \in 1..6 : Titled(Misc(tries)[i])
         /\ \A i, j \in 1..6 : i # j => \/ Misc(tries)[i].group # Misc(tries)[j].group
                                        \/ Misc(tries)[i].order # Misc(tries)[j].order
<1>1. \A i \in 1..6 : Outer(i, 3) = (IF i <= 3 THEN 1 ELSE 2)
                      /\ Inner(i, 3) = (IF i <= 3 THEN i ELSE i - 3)
  BY DEF Outer, Inner
<1>2. MISC_QUERIES[1][1] = "mixing" /\ MISC_QUERIES[2][1] = "sound_effects"
  BY DEF MISC_QUERIES
<1> DEFINE title(i) == MISC_QUERIES[Outer(i, 3)][2][Inner(i, 3)]
           cell(i) == Slot("sample", MISC_QUERIES[Outer(i, 3)][1], <<>>, title(i),
                           Inner(i, 3), Inner(i, 3), tries, 1)
<1>3. \A i \in 1..6 : /\ cell(i).kind = "sample" /\ cell(i).tags = <<>>
                      /\ cell(i).group = (IF i <= 3 THEN "mixing" ELSE "sound_effects")
                      /\ cell(i).order = (IF i <= 3 THEN i ELSE i - 3)
                      /\ cell(i).file = (IF i <= 3 THEN i ELSE i - 3)
                      /\ cell(i).tries = tries /\ cell(i).want = 1
  <2> HIDE DEF title
  <2> QED
    BY <1>1, <1>2, SlotFields
<1>4. Misc(tries) = [i \in 1..6 |-> cell(i)]
  BY DEF Misc
<1> HIDE DEF cell
<1>5. {"mixing", "sound_effects"} = UNTAGGED_CATEGORIES
      /\ UNTAGGED_CATEGORIES \subseteq SampleCategory
  BY DEF UNTAGGED_CATEGORIES, SampleCategory
<1>6. \A i \in 1..6 : Titled(cell(i))
  <2>1. ASSUME NEW i \in 1..6
        PROVE  Titled(cell(i))
    <3>1. PICK c : c = cell(i)
      OBVIOUS
    <3>2. c.kind = "sample" /\ c.tags = <<>> /\ c.group \in UNTAGGED_CATEGORIES
      BY <3>1, <1>3, <1>5
    <3>3. c.order \in 1..3 /\ c.file \in 1..3 /\ c.tries \in Nat /\ c.want = 1
      BY <3>1, <1>3
    <3>4. Loads(c)
      BY <3>2, <1>5 DEF Loads, validate_tags, Kinds
    <3> QED
      BY <3>1, <3>2, <3>3, <3>4 DEF Titled, Numbers, Dense
  <2> QED
    BY <2>1
<1>7. \A i, j \in 1..6 : i # j => cell(i).group # cell(j).group \/ cell(i).order # cell(j).order
  BY <1>3
<1> QED
  BY <1>4, <1>6, <1>7 DEF IsSeq

\* a \o b under a name of its own: what is proved of it needs no more of \o.
Joined(a, b) == a \o b

LEMMA JoinedSeq ==
  ASSUME NEW a, NEW b, NEW m \in Nat, NEW n \in Nat, NEW k, k = m + n, IsSeq(a, m), IsSeq(b, n)
  PROVE  /\ IsSeq(Joined(a, b), k)
         /\ \A i \in 1..m : Joined(a, b)[i] = a[i]
         /\ \A i \in (m + 1)..k : Joined(a, b)[i] = b[i - m]
<1> DEFINE S == {a[i] : i \in 1..m} \cup {b[i] : i \in 1..n}
<1>1. a \in Seq(S) /\ Len(a) = m
  BY DEF IsSeq
<1>2. b \in Seq(S) /\ Len(b) = n
  BY DEF IsSeq
<1> HIDE DEF S
<1> QED
  BY <1>1, <1>2 DEF IsSeq, Joined

LEMMA SamplesPart ==
  ASSUME NEW want \in Nat, NEW all, all = Joined(Joined(Harmonic(want), Drums(want)), Misc(1))
  PROVE  /\ IsSeq(all, 83)
         /\ \A i \in 1..77 : DenseSlot(all[i])
         /\ \A i \in 78..83 : all[i] = Misc(1)[i - 77]
<1>1. PICK h, d, x : h = Harmonic(want) /\ d = Drums(want) /\ x = Misc(1)
  OBVIOUS
<1>2. IsSeq(h, 42) /\ IsSeq(d, 35) /\ IsSeq(x, 6)
  BY <1>1, HarmonicSlots, DrumSlots, MiscSlots
<1>3. /\ \A i \in 1..42 : DenseSlot(h[i])
      /\ \A i \in 1..35 : DenseSlot(d[i])
  BY <1>1, HarmonicSlots, DrumSlots
<1>4. PICK hd : hd = Joined(h, d)
  OBVIOUS
<1>5. /\ IsSeq(hd, 77)
      /\ \A i \in 1..42 : hd[i] = h[i]
      /\ \A i \in 43..77 : hd[i] = d[i - 42]
  BY <1>2, <1>4, JoinedSeq
<1>6. /\ IsSeq(all, 83)
      /\ \A i \in 1..77 : all[i] = hd[i]
      /\ \A i \in 78..83 : all[i] = x[i - 77]
  <2>1. all = Joined(hd, x)
    BY <1>1, <1>4
  <2>2. IsSeq(hd, 77) /\ IsSeq(x, 6)
    BY <1>2, <1>5
  <2> QED
    BY <2>1, <2>2, JoinedSeq
<1>7. \A i \in 1..77 : DenseSlot(hd[i])
  BY <1>3, <1>5
<1> QED
  BY <1>1, <1>6, <1>7

\* The slot of the beat of a genre that seed_content makes.
BeatOf(s, i) ==
  /\ Loads(s) /\ Numbers(s) /\ s.kind = "beat" /\ s.order = i

LEMMA ContentGenres ==
  /\ DOMAIN ContentBeats = 1..5
  /\ ContentBeats[1][1] = "electronic_dance"
  /\ ContentBeats[2][1] = "rap"
  /\ ContentBeats[3][1] = "lofi"
  /\ ContentBeats[4][1] = "global_groove"
  /\ ContentBeats[5][1] = "relaxing_meditation"
  /\ BeatGenre = {"electronic_dance", "rap", "lofi", "global_groove", "relaxing_meditation"}
<1>1. BeatGenre = {"electronic_dance", "rap", "lofi", "global_groove", "relaxing_meditation"}
  BY DEF BeatGenre, BEAT_SUBGENRE_TAGS
<1>2. DOMAIN ContentBeats = 1..5
  BY DEF ContentBeats
<1> QED
  BY <1>1, <1>2 DEF ContentBeats

LEMMA ContentBeatSlots ==
  ASSUME NEW b, b = [i \in DOMAIN ContentBeats |->
                       Slot("beat", ContentBeats[i][1], <<>>, ContentBeats[i][2], i, Dense, 2, 1)]
  PROVE  /\ IsSeq(b, 5)
         /\ \A i \in 1..5 : BeatOf(b[i], i)
         /\ \A i, j \in 1..5 : i # j => b[i].group # b[j].group
<1>1. DOMAIN ContentBeats = 1..5
  BY ContentGenres
<1>2. \A i \in 1..5 : i = 1 \/ i = 2 \/ i = 3 \/ i = 4 \/ i = 5
  OBVIOUS
<1>4. /\ \A i \in 1..5 : ContentBeats[i][1] \in BeatGenre
      /\ \A i, j \in 1..5 : i # j => ContentBeats[i][1] # ContentBeats[j][1]
  <2>1. \A i \in 1..5 : ContentBeats[i][1] \in BeatGenre
    BY <1>2, ContentGenres
  <2>2. \A i, j \in 1..5 : i < j => ContentBeats[i][1] # ContentBeats[j][1]
    BY <1>2, ContentGenres
  <2> QED
    BY <2>1, <2>2
<1> HIDE DEF ContentBeats
<1>5. ASSUME NEW i \in 1..5
      PROVE  BeatOf(b[i], i) /\ b[i].group = ContentBeats[i][1]
  <2>1. PICK genre, title : genre = ContentBeats[i][1] /\ title = ContentBeats[i][2]
    OBVIOUS
  <2>2. b[i] = Slot("beat", genre, <<>>, title, i, Dense, 2, 1)
    BY <1>1, <2>1
  <2>3. PICK x : x = b[i]
    OBVIOUS
  <2>4. /\ x.kind = "beat" /\ x.group = genre /\ x.tags = <<>> /\ x.order = i
        /\ x.file = 0 /\ x.tries = 2 /\ x.want = 1
    BY <2>2, <2>3, SlotFields DEF Dense
  <2>5. validate_beat_tags(genre, <<>>)
    BY DEF validate_beat_tags, ToSet
  <2>6. Loads(x)
    BY <2>1, <2>4, <2>5, <1>4 DEF Loads, Kinds
  <2>7. BeatOf(x, i)
    BY <2>4, <2>6 DEF BeatOf, Numbers
  <2> QED
    BY <2>1, <2>3, <2>4, <2>7
<1> QED
  BY <1>1, <1>4, <1>5 DEF IsSeq

\* The slot of one of the beats of seed_beats_3x.
BeatFile(s) ==
  /\ Loads(s) /\ Numbers(s) /\ s.kind = "beat" /\ s.order = Dense /\ s.file # 0

LEMMA BeatGenres ==
  /\ BEATS_QUERIES[1][1] = "electronic_dance"
  /\ BEATS_QUERIES[2][1] = "rap"
  /\ BEATS_QUERIES[3][1] = "lofi"
  /\ BEATS_QUERIES[4][1] = "global_groove"
  /\ BEATS_QUERIES[5][1] = "relaxing_meditation"
BY DEF BEATS_QUERIES

LEMMA TagsOfBeat ==
  ASSUME NEW a, NEW b
  PROVE  ToSet(<<a>>) = {a} /\ ToSet(<<a, b>>) = {a, b}
<1>1. DOMAIN <<a>> = {1} /\ <<a>>[1] = a
  OBVIOUS
<1>2. DOMAIN <<a, b>> = {1, 2} /\ <<a, b>>[1] = a /\ <<a, b>>[2] = b
  OBVIOUS
<1> QED
  BY <1>1, <1>2 DEF ToSet

LEMMA BeatQueries ==
  ASSUME NEW g \in 1..5, NEW e \in 1..3
  PROVE  validate_beat_tags(BEATS_QUERIES[g][1], BEATS_QUERIES[g][2][e][2])
<1>1. g = 1 \/ g = 2 \/ g = 3 \/ g = 4 \/ g = 5
  OBVIOUS
<1>2. e = 1 \/ e = 2 \/ e = 3
  OBVIOUS
<1>3. CASE g = 1
  <2>1. /\ BEATS_QUERIES[1][2][1][2] = <<"house", "edm">>
        /\ BEATS_QUERIES[1][2][2][2] = <<"techno", "edm">>
        /\ BEATS_QUERIES[1][2][3][2] = <<"dubstep", "drum_and_bass">>
    BY DEF BEATS_QUERIES
  <2>2. /\ ToSet(BEATS_QUERIES[1][2][1][2]) \subseteq BEAT_SUBGENRE_TAGS["electronic_dance"]
        /\ ToSet(BEATS_QUERIES[1][2][2][2]) \subseteq BEAT_SUBGENRE_TAGS["electronic_dance"]
        /\ ToSet(BEATS_QUERIES[1][2][3][2]) \subseteq BEAT_SUBGENRE_TAGS["electronic_dance"]
    <3>1. /\ ToSet(<<"house", "edm">>) = {"house", "edm"}
          /\ ToSet(<<"techno", "edm">>) = {"techno", "edm"}
          /\ ToSet(<<"dubstep", "drum_and_bass">>) = {"dubstep", "drum_and_bass"}
      BY TagsOfBeat, Zenon
    <3>2. {"drum_and_bass", "dubstep", "edm", "house", "techno"} \subseteq BEAT_SUBGENRE_TAGS["electronic_dance"]
      BY DEF BEAT_SUBGENRE_TAGS
    <3> QED
      BY <2>1, <3>1, <3>2
  <2> QED
    BY <1>2, <1>3, <2>2, BeatGenres DEF validate_beat_tags
<1>4. CASE g = 2
  <2>1. /\ BEATS_QUERIES[2][2][1][2] = <<"trap", "phonk">>
        /\ BEATS_QUERIES[2][2][2][2] = <<"boom_bap", "old_school">>
        /\ BEATS_QUERIES[2][2][3][2] = <<"drill">>
    BY DEF BEATS_QUERIES
  <2>2. /\ ToSet(BEATS_QUERIES[2][2][1][2]) \subseteq BEAT_SUBGENRE_TAGS["rap"]
        /\ ToSet(BEATS_QUERIES[2][2][2][2]) \subseteq BEAT_SUBGENRE_TAGS["rap"]
        /\ ToSet(BEATS_QUERIES[2][2][3][2]) \subseteq BEAT_SUBGENRE_TAGS["rap"]
    <3>1. /\ ToSet(<<"trap", "phonk">>) = {"trap", "phonk"}
          /\ ToSet(<<"boom_bap", "old_school">>) = {"boom_bap", "old_school"}
          /\ ToSet(<<"drill">>) = {"drill"}
      BY TagsOfBeat, Zenon
    <3>2. {"boom_bap", "drill", "old_school", "phonk", "trap"} \subseteq BEAT_SUBGENRE_TAGS["rap"]
      BY DEF BEAT_SUBGENRE_TAGS
    <3> QED
      BY <2>1, <3>1, <3>2
  <2> QED
    BY <1>2, <1>4, <2>2, BeatGenres DEF validate_beat_tags
<1>5. CASE g = 3
  <2>1. /\ BEATS_QUERIES[3][2][1][2] = <<"lofi_hip_hop", "rainy">>
        /\ BEATS_QUERIES[3][2][2][2] = <<"chillhop", "jazz_lofi">>
        /\ BEATS_QUERIES[3][2][3][2] = <<"study_beats", "vinyl">>
    BY DEF BEATS_QUERIES
  <2>2. /\ ToSet(BEATS_QUERIES[3][2][1][2]) \subseteq BEAT_SUBGENRE_TAGS["lofi"]
        /\ ToSet(BEATS_QUERIES[3][2][2][2]) \subseteq BEAT_SUBGENRE_TAGS["lofi"]
        /\ ToSet(BEATS_QUERIES[3][2][3][2]) \subseteq BEAT_SUBGENRE_TAGS["lofi"]
    <3>1. /\ ToSet(<<"lofi_hip_hop", "rainy">>) = {"lofi_hip_hop", "rainy"}
          /\ ToSet(<<"chillhop", "jazz_lofi">>) = {"chillhop", "jazz_lofi"}
          /\ ToSet(<<"study_beats", "vinyl">>) = {"study_beats", "vinyl"}
      BY TagsOfBeat, Zenon
    <3>2. {"chillhop", "jazz_lofi", "lofi_hip_hop", "rainy", "study_beats", "vinyl"} \subseteq BEAT_SUBGENRE_TAGS["lofi"]
      BY DEF BEAT_SUBGENRE_TAGS
    <3> QED
      BY <2>1, <3>1, <3>2
  <2> QED
    BY <1>2, <1>5, <2>2, BeatGenres DEF validate_beat_tags
<1>6. CASE g = 4
  <2>1. /\ BEATS_QUERIES[4][2][1][2] = <<"afrobeat", "world">>
        /\ BEATS_QUERIES[4][2][2][2] = <<"latin", "samba">>
        /\ BEATS_QUERIES[4][2][3][2] = <<"reggaeton">>
    BY DEF BEATS_QUERIES
  <2>2. /\ ToSet(BEATS_QUERIES[4][2][1][2]) \subseteq BEAT_SUBGENRE_TAGS["global_groove"]
        /\ ToSet(BEATS_QUERIES[4][2][2][2]) \subseteq BEAT_SUBGENRE_TAGS["global_groove"]
        /\ ToSet(BEATS_QUERIES[4][2][3][2]) \subseteq BEAT_SUBGENRE_TAGS["global_groove"]
    <3>1. /\ ToSet(<<"afrobeat", "world">>) = {"afrobeat", "world"}
          /\ ToSet(<<"latin", "samba">>) = {"latin", "samba"}
          /\ ToSet(<<"reggaeton">>) = {"reggaeton"}
      BY TagsOfBeat, Zenon
    <3>2. {"afrobeat", "latin", "reggaeton", "samba", "world"} \subseteq BEAT_SUBGENRE_TAGS["global_groove"]
      BY DEF BEAT_SUBGENRE_TAGS
    <3> QED
      BY <2>1, <3>1, <3>2
  <2> QED
    BY <1>2, <1>6, <2>2, BeatGenres DEF validate_beat_tags
<1>7. CASE g = 5
  <2>1. /\ BEATS_QUERIES[5][2][1][2] = <<"ambient", "nature">>
        /\ BEATS_QUERIES[5][2][2][2] = <<"drone", "spa">>
        /\ BEATS_QUERIES[5][2][3][2] = <<"binaural", "sleep">>
    BY DEF BEATS_QUERIES
  <2>2. /\ ToSet(BEATS_QUERIES[5][2][1][2]) \subseteq BEAT_SUBGENRE_TAGS["relaxing_meditation"]
        /\ ToSet(BEATS_QUERIES[5][2][2][2]) \subseteq BEAT_SUBGENRE_TAGS["relaxing_meditation"]
        /\ ToSet(BEATS_QUERIES[5][2][3][2]) \subseteq BEAT_SUBGENRE_TAGS["relaxing_meditation"]
    <3>1. /\ ToSet(<<"ambient", "nature">>) = {"ambient", "nature"}
          /\ ToSet(<<"drone", "spa">>) = {"drone", "spa"}
          /\ ToSet(<<"binaural", "sleep">>) = {"binaural", "sleep"}
      BY TagsOfBeat, Zenon
    <3>2. {"ambient", "binaural", "drone", "nature", "sleep", "spa"} \subseteq BEAT_SUBGENRE_TAGS["relaxing_meditation"]
      BY DEF BEAT_SUBGENRE_TAGS
    <3> QED
      BY <2>1, <3>1, <3>2
  <2> QED
    BY <1>2, <1>7, <2>2, BeatGenres DEF validate_beat_tags
<1> QED
  BY <1>1, <1>3, <1>4, <1>5, <1>6, <1>7

LEMMA BeatsPlanSlots ==
  /\ IsSeq(BeatsPlan, 15)
  /\ \A i \in 1..15 : BeatFile(BeatsPlan[i])
  /\ \A i, j \in 1..15 : i # j => \/ BeatsPlan[i].group # BeatsPlan[j].group
                                  \/ BeatsPlan[i].file # BeatsPlan[j].file
<1>1. \A i \in 1..15 : Outer(i, 3) \in 1..5 /\ Inner(i, 3) \in 1..3
                       /\ i = 3 * (Outer(i, 3) - 1) + Inner(i, 3)
  BY DEF Outer, Inner
<1>2. \A g, h \in 1..5 : /\ BEATS_QUERIES[g][1] \in BeatGenre
                         /\ g # h => BEATS_QUERIES[g][1] # BEATS_QUERIES[h][1]
  <2>1. \A g \in 1..5 : g = 1 \/ g = 2 \/ g = 3 \/ g = 4 \/ g = 5
    OBVIOUS
  <2>2. \A g \in 1..5 : BEATS_QUERIES[g][1] \in BeatGenre
    BY <2>1, BeatGenres, ContentGenres
  <2>3. \A g, h \in 1..5 : g < h => BEATS_QUERIES[g][1] # BEATS_QUERIES[h][1]
    BY <2>1, BeatGenres
  <2> QED
    BY <2>2, <2>3
<1> DEFINE cell(i) == LET genre == BEATS_QUERIES[Outer(i, 3)][1]
                          beat == BEATS_QUERIES[Outer(i, 3)][2][Inner(i, 3)]
                      IN Slot("beat", genre, beat[2], beat[1], Dense, Inner(i, 3), 1, 1)
<1>3. BeatsPlan = [i \in 1..15 |-> cell(i)]
  BY DEF BeatsPlan
<1>4. ASSUME NEW i \in 1..15
      PROVE  /\ BeatFile(cell(i))
             /\ cell(i).group = BEATS_QUERIES[Outer(i, 3)][1] /\ cell(i).file = Inner(i, 3)
  <2>1. PICK g \in 1..5, e \in 1..3 : g = Outer(i, 3) /\ e = Inner(i, 3)
    BY <1>1
  <2>2. PICK genre, tags, title : /\ genre = BEATS_QUERIES[g][1]
                                  /\ tags = BEATS_QUERIES[g][2][e][2]
                                  /\ title = BEATS_QUERIES[g][2][e][1]
    OBVIOUS
  <2>3. cell(i) = Slot("beat", genre, tags, title, Dense, e, 1, 1)
    BY <2>1, <2>2
  <2> HIDE DEF cell
  <2>4. PICK x : x = cell(i)
    OBVIOUS
  <2>5. /\ x.kind = "beat" /\ x.group = genre /\ x.tags = tags /\ x.order = 0
        /\ x.file = e /\ x.tries = 1 /\ x.want = 1
    BY <2>3, <2>4, SlotFields DEF Dense
  <2>6. validate_beat_tags(genre, tags) /\ genre \in BeatGenre
    BY <2>2, BeatQueries, <1>2
  <2>7. Loads(x)
    BY <2>5, <2>6 DEF Loads, Kinds
  <2>8. BeatFile(x)
    BY <2>5, <2>7 DEF BeatFile, Numbers, Dense
  <2> QED
    BY <2>1, <2>2, <2>4, <2>5, <2>8
<1> HIDE DEF cell
<1>5. ASSUME NEW i \in 1..15, NEW j \in 1..15, i # j
      PROVE  cell(i).group # cell(j).group \/ cell(i).file # cell(j).file
  <2>1. Outer(i, 3) # Outer(j, 3) \/ Inner(i, 3) # Inner(j, 3)
    BY <1>1, <1>5
  <2>2. Outer(i, 3) \in 1..5 /\ Outer(j, 3) \in 1..5
    BY <1>1
  <2> QED
    BY <2>1, <2>2, <1>2, <1>4
<1> QED
  BY <1>3, <1>4, <1>5 DEF IsSeq

LEMMA ContentPlanSlots ==
  /\ IsSeq(ContentPlan, 88)
  /\ \A i \in 1..5 : BeatOf(ContentPlan[i], i)
  /\ \A i, j \in 1..5 : i # j => ContentPlan[i].group # ContentPlan[j].group
  /\ \A i \in 6..82 : DenseSlot(ContentPlan[i])
  /\ \A i \in 83..88 : ContentPlan[i] = Misc(1)[i - 82]
<1> DEFINE beats == [i \in DOMAIN ContentBeats |->
                       Slot("beat", ContentBeats[i][1], <<>>, ContentBeats[i][2], i, Dense, 2, 1)]
<1>1. PICK b, h, d, x : b = beats /\ h = Harmonic(1) /\ d = Drums(1) /\ x = Misc(1)
  OBVIOUS
<1>2. PICK bh : bh = Joined(b, h)
  OBVIOUS
<1>3. PICK bhd : bhd = Joined(bh, d)
  OBVIOUS
<1>4. PICK all : all = Joined(bhd, x)
  OBVIOUS
<1>5. ContentPlan = all
  BY <1>1, <1>2, <1>3, <1>4, Zenon DEF ContentPlan, Joined
<1>6. /\ IsSeq(b, 5)
      /\ \A i \in 1..5 : BeatOf(b[i], i)
      /\ \A i, j \in 1..5 : i # j => b[i].group # b[j].group
  BY <1>1, ContentBeatSlots
<1>7. IsSeq(h, 42) /\ IsSeq(d, 35) /\ IsSeq(x, 6)
  BY <1>1, HarmonicSlots, DrumSlots, MiscSlots
<1>8. /\ \A i \in 1..42 : DenseSlot(h[i])
      /\ \A i \in 1..35 : DenseSlot(d[i])
  BY <1>1, HarmonicSlots, DrumSlots
<1>9. /\ IsSeq(bh, 47)
      /\ \A i \in 1..5 : bh[i] = b[i]
      /\ \A i \in 6..47 : bh[i] = h[i - 5]
  BY <1>2, <1>6, <1>7, JoinedSeq
<1>10. /\ IsSeq(bhd, 82)
       /\ \A i \in 1..47 : bhd[i] = bh[i]
       /\ \A i \in 48..82 : bhd[i] = d[i - 47]
  BY SMTT(30), <1>3, <1>7, <1>9, JoinedSeq
<1>11. /\ IsSeq(all, 88)
       /\ \A i \in 1..82 : all[i] = bhd[i]
       /\ \A i \in 83..88 : all[i] = x[i - 82]
  BY SMTT(30), <1>4, <1>7, <1>10, JoinedSeq
<1>12. \A i \in 6..82 : DenseSlot(all[i])
  BY <1>8, <1>9, <1>10, <1>11
<1>13. \A i \in 1..5 : all[i] = b[i]
  BY <1>9, <1>10, <1>11
<1>14. /\ \A i \in 1..5 : BeatOf(all[i], i)
       /\ \A i, j \in 1..5 : i # j => all[i].group # all[j].group
  BY <1>6, <1>13
<1>15. \A i \in 83..88 : all[i] = Misc(1)[i - 82]
  BY <1>1, <1>11
<1> QED
  BY <1>5, <1>11, <1>12, <1>14, <1>15

LEMMA SamplesPlanSlots ==
  /\ IsSeq(SamplesPlan, 83)
  /\ \A i \in 1..77 : DenseSlot(SamplesPlan[i])
  /\ \A i \in 78..83 : SamplesPlan[i] = Misc(1)[i - 77]
<1>1. SamplesPlan = Joined(Joined(Harmonic(PerTag), Drums(PerTag)), Misc(1))
  BY Zenon DEF SamplesPlan, Joined
<1> QED
  BY <1>1, SamplesPart, PerTagAssumption

\* What the proofs about the scripts need of a table: its rows are numbered, the
\* importers take them, and samples are numbered by their category, or by the table.
PlanSlots(pl) ==
  /\ Len(pl) \in Nat /\ DOMAIN pl = 1..Len(pl)
  /\ \A i \in DOMAIN pl : Loads(pl[i]) /\ Numbers(pl[i])

SampleOrders(pl) ==
  \A i \in DOMAIN pl : pl[i].kind = "sample" =>
    \/ pl[i].order = Dense /\ pl[i].group \notin UNTAGGED_CATEGORIES
    \/ pl[i].order # Dense /\ pl[i].group \in UNTAGGED_CATEGORIES /\ pl[i].want = 1

OrdersOnce(pl) ==
  \A i, j \in DOMAIN pl :
    /\ i # j /\ pl[i].kind = "sample" /\ pl[j].kind = "sample"
    /\ pl[i].group = pl[j].group /\ pl[i].order # Dense
    => pl[i].order # pl[j].order

\* The tables of beats: one of each genre, or files of their own.
OneBeatAGenre(pl) ==
  /\ \A i \in DOMAIN pl : pl[i].kind = "beat" => pl[i].order # Dense
  /\ \A i, j \in DOMAIN pl :
       i # j /\ pl[i].kind = "beat" /\ pl[j].kind = "beat" => pl[i].group # pl[j].group

BeatFiles(pl) ==
  /\ \A i \in DOMAIN pl : pl[i].kind = "beat" /\ pl[i].order = Dense /\ pl[i].file # 0
  /\ \A i, j \in DOMAIN pl : i # j => pl[i].group # pl[j].group \/ pl[i].file # pl[j].file

\* The tables of the three scripts (seed_content.py, seed_samples_3x.py and
\* seed_beats_3x.py): the importers accept every row they can give, samples of one
\* category never share a number, content has one beat for a genre and beats_3x one
\* file name for a beat.
THEOREM TablesSound ==
  /\ PlanSlots(ContentPlan) /\ SampleOrders(ContentPlan) /\ OrdersOnce(ContentPlan)
  /\ OneBeatAGenre(ContentPlan)
  /\ PlanSlots(SamplesPlan) /\ SampleOrders(SamplesPlan) /\ OrdersOnce(SamplesPlan)
  /\ \A i \in DOMAIN SamplesPlan : SamplesPlan[i].kind = "sample"
  /\ PlanSlots(BeatsPlan) /\ BeatFiles(BeatsPlan)
<1>1. PICK c, p, b : c = ContentPlan /\ p = SamplesPlan /\ b = BeatsPlan
  OBVIOUS
<1>3. PICK x : x = Misc(1)
  OBVIOUS
<1>4. /\ \A i \in 1..6 : Titled(x[i])
      /\ \A i, j \in 1..6 : i # j => x[i].group # x[j].group \/ x[i].order # x[j].order
  BY <1>3, MiscSlots
<1>5. /\ IsSeq(c, 88)
      /\ \A i \in 1..5 : BeatOf(c[i], i)
      /\ \A i, j \in 1..5 : i # j => c[i].group # c[j].group
      /\ \A i \in 6..82 : DenseSlot(c[i])
      /\ \A i \in 83..88 : c[i] = x[i - 82]
  BY <1>1, <1>3, ContentPlanSlots
<1>6. /\ IsSeq(p, 83)
      /\ \A i \in 1..77 : DenseSlot(p[i])
      /\ \A i \in 78..83 : p[i] = x[i - 77]
  BY <1>1, <1>3, SamplesPlanSlots
<1>7. /\ IsSeq(b, 15)
      /\ \A i \in 1..15 : BeatFile(b[i])
      /\ \A i, j \in 1..15 : i # j => b[i].group # b[j].group \/ b[i].file # b[j].file
  BY <1>1, BeatsPlanSlots
<1>8. /\ Len(c) = 88 /\ DOMAIN c = 1..88
      /\ Len(p) = 83 /\ DOMAIN p = 1..83
      /\ Len(b) = 15 /\ DOMAIN b = 1..15
  <2>1. ASSUME NEW pl, NEW n \in Nat, IsSeq(pl, n)
        PROVE  Len(pl) = n /\ DOMAIN pl = 1..n
    <3>1. DOMAIN pl = 1..n
      BY <2>1 DEF IsSeq
    <3>2. pl \in Seq({pl[i] : i \in 1..n})
      BY <2>1 DEF IsSeq
    <3> QED
      BY <3>1, <3>2
  <2>2. Len(c) = 88 /\ DOMAIN c = 1..88
    BY <1>5, <2>1
  <2>3. Len(p) = 83 /\ DOMAIN p = 1..83
    BY ZenonT(30), <1>6, <2>1
  <2>4. Len(b) = 15 /\ DOMAIN b = 1..15
    BY <1>7, <2>1
  <2> QED
    BY <2>2, <2>3, <2>4
<1>9. ASSUME NEW i \in 1..88
      PROVE  /\ Loads(c[i]) /\ Numbers(c[i])
             /\ i \in 1..5 => c[i].kind = "beat" /\ c[i].order # Dense
             /\ i \in 6..82 => DenseSlot(c[i])
             /\ i \in 83..88 => Titled(c[i])
  <2>1. CASE i \in 1..5
    <3>1. BeatOf(c[i], i)
      BY <2>1, <1>5
    <3> QED
      BY <2>1, <3>1 DEF BeatOf, Dense
  <2>2. CASE i \in 6..82
    <3>1. DenseSlot(c[i])
      BY <2>2, <1>5
    <3> QED
      BY <2>2, <3>1 DEF DenseSlot
  <2>3. CASE i \in 83..88
    <3>1. PICK k \in 1..6 : k = i - 82
      BY <2>3
    <3>2. c[i] = x[k]
      BY <2>3, <3>1, <1>5
    <3>3. Titled(c[i])
      BY <3>2, <1>4
    <3> QED
      BY <2>3, <3>3 DEF Titled
  <2> QED
    BY <2>1, <2>2, <2>3
<1>10. ASSUME NEW i \in 1..83
       PROVE  /\ Loads(p[i]) /\ Numbers(p[i])
              /\ i \in 1..77 => DenseSlot(p[i])
              /\ i \in 78..83 => Titled(p[i])
  <2>1. CASE i \in 1..77
    <3>1. DenseSlot(p[i])
      BY <2>1, <1>6
    <3> QED
      BY <2>1, <3>1 DEF DenseSlot
  <2>2. CASE i \in 78..83
    <3>1. PICK k \in 1..6 : k = i - 77
      BY <2>2
    <3>2. p[i] = x[k]
      BY <2>2, <3>1, <1>6
    <3>3. Titled(p[i])
      BY <3>2, <1>4
    <3> QED
      BY <2>2, <3>3 DEF Titled
  <2> QED
    BY <2>1, <2>2
<1>11. ASSUME NEW i \in 83..88, NEW j \in 83..88, i # j
       PROVE  c[i].group # c[j].group \/ c[i].order # c[j].order
  <2>1. PICK k \in 1..6, l \in 1..6 : k = i - 82 /\ l = j - 82
    OBVIOUS
  <2>2. c[i] = x[k] /\ c[j] = x[l] /\ k # l
    BY <2>1, <1>11, <1>5
  <2> QED
    BY <2>2, <1>4
<1>12. ASSUME NEW i \in 78..83, NEW j \in 78..83, i # j
       PROVE  p[i].group # p[j].group \/ p[i].order # p[j].order
  <2>1. PICK k \in 1..6, l \in 1..6 : k = i - 77 /\ l = j - 77
    OBVIOUS
  <2>2. p[i] = x[k] /\ p[j] = x[l] /\ k # l
    BY <2>1, <1>12, <1>6
  <2> QED
    BY <2>2, <1>4
<1>13. \A i \in 1..15 : Loads(b[i]) /\ Numbers(b[i]) /\ b[i].kind = "beat"
                        /\ b[i].order = Dense /\ b[i].file # 0
  BY <1>7 DEF BeatFile
<1>14. PlanSlots(c) /\ PlanSlots(p) /\ PlanSlots(b)
  <2>1. PlanSlots(c)
    <3>1. \A i \in DOMAIN c : Loads(c[i]) /\ Numbers(c[i])
      BY ZenonT(30), <1>8, <1>9
    <3>2. Len(c) \in Nat /\ DOMAIN c = 1..Len(c)
      BY <1>8
    <3> QED
      BY <3>1, <3>2 DEF PlanSlots
  <2>2. PlanSlots(p)
    <3>1. \A i \in DOMAIN p : Loads(p[i]) /\ Numbers(p[i])
      BY ZenonT(30), <1>8, <1>10
    <3>2. Len(p) \in Nat /\ DOMAIN p = 1..Len(p)
      BY <1>8
    <3> QED
      BY <3>1, <3>2 DEF PlanSlots
  <2>3. PlanSlots(b)
    BY <1>8, <1>13 DEF PlanSlots
  <2> QED
    BY <2>1, <2>2, <2>3
<1>15. SampleOrders(c) /\ OrdersOnce(c)
  <2>1. ASSUME NEW i \in 1..88, c[i].kind = "sample"
        PROVE  \/ i \in 6..82 /\ c[i].order = Dense /\ c[i].group \notin UNTAGGED_CATEGORIES
               \/ /\ i \in 83..88 /\ c[i].order # Dense /\ c[i].group \in UNTAGGED_CATEGORIES
                  /\ c[i].want = 1
    <3>1. i \in 1..5 \/ i \in 6..82 \/ i \in 83..88
      OBVIOUS
    <3>2. i \in 1..5 => c[i].kind = "beat"
      BY <1>9
    <3>3. i \notin 1..5
      BY <2>1, <3>2
    <3> QED
      BY <3>1, <3>3, <1>9 DEF DenseSlot, Titled
  <2>2. ASSUME NEW i \in 1..88, NEW j \in 1..88, i # j, c[i].kind = "sample",
               c[j].kind = "sample", c[i].group = c[j].group, c[i].order # Dense
        PROVE  c[i].order # c[j].order
    BY <2>1, <2>2, <1>11
  <2>3. SampleOrders(c)
    BY ZenonT(30), <2>1, <1>8 DEF SampleOrders
  <2>4. OrdersOnce(c)
    <3>1. DOMAIN c = 1..88
      BY <1>8
    <3>2. SUFFICES ASSUME NEW i \in 1..88, NEW j \in 1..88, i # j, c[i].kind = "sample",
                          c[j].kind = "sample", c[i].group = c[j].group,
                          c[i].order # Dense
                   PROVE  c[i].order # c[j].order
      BY <3>1, Zenon DEF OrdersOnce
    <3> QED
      BY <2>2, <3>2
  <2> QED
    BY <2>3, <2>4
<1>16. SampleOrders(p) /\ OrdersOnce(p) /\ \A i \in 1..83 : p[i].kind = "sample"
  <2>1. ASSUME NEW i \in 1..83
        PROVE  \/ /\ i \in 1..77 /\ p[i].kind = "sample"
                  /\ p[i].order = Dense /\ p[i].group \notin UNTAGGED_CATEGORIES
               \/ /\ i \in 78..83 /\ p[i].kind = "sample"
                  /\ p[i].order # Dense /\ p[i].group \in UNTAGGED_CATEGORIES
                  /\ p[i].want = 1
    <3>1. i \in 1..77 \/ i \in 78..83
      OBVIOUS
    <3> QED
      BY <3>1, <1>10 DEF DenseSlot, Titled
  <2>2. ASSUME NEW i \in 1..83, NEW j \in 1..83, i # j, p[i].group = p[j].group,
               p[i].order # Dense
        PROVE  p[i].order # p[j].order
    BY <2>1, <2>2, <1>12
  <2>3. SampleOrders(p)
    BY <2>1, <1>8 DEF SampleOrders
  <2>4. OrdersOnce(p)
    <3>1. DOMAIN p = 1..83
      BY <1>8
    <3>2. SUFFICES ASSUME NEW i \in 1..83, NEW j \in 1..83, i # j, p[i].kind = "sample",
                          p[j].kind = "sample", p[i].group = p[j].group,
                          p[i].order # Dense
                   PROVE  p[i].order # p[j].order
      BY <3>1, Zenon DEF OrdersOnce
    <3> QED
      BY <2>2, <3>2
  <2> QED
    BY <2>1, <2>3, <2>4
<1>17. BeatFiles(b)
  <2>1. DOMAIN b = 1..15
    BY <1>8
  <2>2. \A i \in DOMAIN b : b[i].kind = "beat" /\ b[i].order = Dense /\ b[i].file # 0
    BY <2>1, <1>13
  <2>3. \A i, j \in DOMAIN b : i # j => b[i].group # b[j].group \/ b[i].file # b[j].file
    BY <2>1, <1>7, Zenon
  <2> QED
    BY <2>2, <2>3, Zenon DEF BeatFiles
<1>18. OneBeatAGenre(c)
  <2>1. ASSUME NEW i \in 1..88, c[i].kind = "beat"
        PROVE  i \in 1..5 /\ c[i].order # Dense
    <3>1. i \in 1..5 \/ i \in 6..82 \/ i \in 83..88
      OBVIOUS
    <3> QED
      BY <2>1, <3>1, <1>9 DEF DenseSlot, Titled
  <2>2. \A i, j \in 1..88 : i # j /\ c[i].kind = "beat" /\ c[j].kind = "beat"
          => c[i].group # c[j].group
    BY <2>1, <1>5
  <2> QED
    <3>1. DOMAIN c = 1..88
      BY <1>8
    <3>2. \A i \in DOMAIN c : c[i].kind = "beat" => c[i].order # Dense
      BY <2>1, <3>1
    <3>3. \A i, j \in DOMAIN c :
            i # j /\ c[i].kind = "beat" /\ c[j].kind = "beat" => c[i].group # c[j].group
      BY <2>2, <3>1, Zenon
    <3> QED
      BY <3>2, <3>3, Zenon DEF OneBeatAGenre
<1>19. \A i \in DOMAIN p : p[i].kind = "sample"
  BY SMTT(30), <1>8, <1>16
<1> QED
  BY Zenon, <1>1, <1>14, <1>15, <1>16, <1>17, <1>18, <1>19
-----------------------------------------------------------------------------
(* The shape of the state. *)

IsFile(sq) == Len(sq) \in Nat /\ sq = [i \in 1..Len(sq) |-> sq[i]]

GoodRow(r, uploads) ==
  /\ r = [kind |-> r.kind, group |-> r.group, tags |-> r.tags, title |-> r.title,
          url |-> r.url, sort_order |-> r.sort_order, sound |-> r.sound]
  /\ r.kind \in Kinds
  /\ r.kind = "beat" => r.group \in BeatGenre
  /\ r.kind = "sample" => r.group \in SampleCategory
  /\ \/ r.url = Fal(r.url.n) /\ r.url.n \in 1..uploads
     \/ r.url = Local(r.kind, r.group, r.url.n)
  /\ r.sort_order \in Nat \ {0} /\ r.sound \in Sounds

GoodFile(file, k, uploads) ==
  /\ IsFile(file)
  /\ \A i \in 1..Len(file) : GoodRow(file[i], uploads) /\ file[i].kind = k

GoodFiles(files, uploads) ==
  /\ files = [k \in Kinds |-> files[k]]
  /\ \A k \in Kinds : GoodFile(files[k], k, uploads)

\* audio_url is a unique column of each of the two tables.
GoodTable(table, uploads) ==
  \A r \in table : GoodRow(r, uploads) /\ \A o \in table : SameKey(r, o) => o = r

Mapping(directory) == directory = [f \in DOMAIN directory |-> directory[f]]

GoodDirectory(directory) ==
  /\ Mapping(directory)
  /\ \A f \in DOMAIN directory : f = Local(f.kind, f.group, f.n)

GoodMigration(m, table, uploads) ==
  \/ m = Idle
  \/ /\ \/ m = [phase |-> "rows", view |-> m.view, left |-> m.left]
        \/ /\ m = [phase |-> "writing", view |-> m.view, left |-> m.left, row |-> m.row]
           /\ m.row \in m.left /\ m.row.url.host = "fal"
     /\ GoodTable(m.view, uploads) /\ m.left \subseteq m.view /\ m.left \subseteq table

ScriptShape ==
  /\ script \in Scripts \cup {"none"} /\ pos \in Nat \ {0} /\ used \subseteq Sounds
  /\ IsFile(fal) /\ \A n \in 1..Len(fal) : fal[n] \in Sounds
  /\ GoodFiles(out, Len(fal)) /\ GoodFiles(seeds, Len(fal))
  /\ GoodDirectory(build) /\ \A f \in DOMAIN build : build[f] \in Sounds

ServerShape ==
  /\ GoodFiles(deployed, Len(fal))
  /\ GoodDirectory(static)
  /\ \A f \in DOMAIN static :
       /\ static[f] = [sound |-> static[f].sound, whole |-> static[f].whole]
       /\ static[f].sound \in Sounds
  /\ GoodTable(rows, Len(fal))
  /\ GoodMigration(mig, rows, Len(fal))

\* Where in the runbook a script or a migration runs.
TaskOf == [seed_content |-> "content", seed_samples_3x |-> "samples_3x",
           seed_beats_3x |-> "beats_3x"]

OrderShape ==
  /\ task \in Tasks \cup {"none"} /\ step \in Nat \ {0}
  /\ IsFile(ahead) /\ \A i \in 1..Len(ahead) : ahead[i] \in Tasks
  /\ crashes \in 0..MaxCrashes
  /\ script # "none" => task = TaskOf[script] /\ step = 1
  /\ mig # Idle => task = "local" /\ step = 1

Shape == ScriptShape /\ ServerShape /\ OrderShape

\* Task b comes after task a in some programme.
Follows(a, b) ==
  \E p \in Programmes : \E i, j \in DOMAIN p : i < j /\ p[i] = a /\ p[j] = b

OnTrack ==
  /\ task # "none" => \A i \in 1..Len(ahead) : Follows(task, ahead[i])
  /\ \A i, j \in 1..Len(ahead) : i < j => Follows(ahead[i], ahead[j])

LEMMA RunbookRows ==
  /\ Len(Runbook["none"]) = 0 /\ DOMAIN Runbook["none"] = {}
  /\ Len(Runbook["content"]) = 4 /\ DOMAIN Runbook["content"] = 1..4
  /\ Runbook["content"][1] = "seed_content" /\ Runbook["content"][2] = "push"
  /\ Runbook["content"][3] = "wipe" /\ Runbook["content"][4] = "reseed"
  /\ Len(Runbook["local"]) = 3 /\ DOMAIN Runbook["local"] = 1..3
  /\ Runbook["local"][1] = "migrate" /\ Runbook["local"][2] = "rewrite"
  /\ Runbook["local"][3] = "push"
  /\ Len(Runbook["samples_3x"]) = 4 /\ DOMAIN Runbook["samples_3x"] = 1..4
  /\ Runbook["samples_3x"][1] = "seed_samples_3x" /\ Runbook["samples_3x"][2] = "scp"
  /\ Runbook["samples_3x"][3] = "push" /\ Runbook["samples_3x"][4] = "reseed_samples"
  /\ Len(Runbook["beats_3x"]) = 5 /\ DOMAIN Runbook["beats_3x"] = 1..5
  /\ Runbook["beats_3x"][1] = "seed_beats_3x" /\ Runbook["beats_3x"][2] = "scp"
  /\ Runbook["beats_3x"][3] = "rm" /\ Runbook["beats_3x"][4] = "push"
  /\ Runbook["beats_3x"][5] = "reseed_beats"
<1>1. /\ Runbook["none"] = <<>>
      /\ Runbook["content"] = <<"seed_content", "push", "wipe", "reseed">>
      /\ Runbook["local"] = <<"migrate", "rewrite", "push">>
      /\ Runbook["samples_3x"] = <<"seed_samples_3x", "scp", "push", "reseed_samples">>
      /\ Runbook["beats_3x"] = <<"seed_beats_3x", "scp", "rm", "push", "reseed_beats">>
  BY DEF Runbook
<1>2. Len(Runbook["none"]) = 0 /\ DOMAIN Runbook["none"] = {}
  BY <1>1
<1>3. Len(Runbook["content"]) = 4 /\ DOMAIN Runbook["content"] = 1..4
  BY <1>1
<1>4. Len(Runbook["local"]) = 3 /\ DOMAIN Runbook["local"] = 1..3
  BY <1>1
<1>5. Len(Runbook["samples_3x"]) = 4 /\ DOMAIN Runbook["samples_3x"] = 1..4
  BY <1>1
<1>6. Len(Runbook["beats_3x"]) = 5 /\ DOMAIN Runbook["beats_3x"] = 1..5
  BY <1>1
<1> QED
  BY <1>1, <1>2, <1>3, <1>4, <1>5, <1>6

\* Which command is given where.
LEMMA Commands ==
  ASSUME NEW t \in Tasks \cup {"none"}, NEW s \in Nat \ {0}, NEW c,
         s \in DOMAIN Runbook[t], Runbook[t][s] = c
  PROVE  \/ t = "content" /\ s = 1 /\ c = "seed_content"
         \/ t = "content" /\ s = 2 /\ c = "push"
         \/ t = "content" /\ s = 3 /\ c = "wipe"
         \/ t = "content" /\ s = 4 /\ c = "reseed"
         \/ t = "local" /\ s = 1 /\ c = "migrate"
         \/ t = "local" /\ s = 2 /\ c = "rewrite"
         \/ t = "local" /\ s = 3 /\ c = "push"
         \/ t = "samples_3x" /\ s = 1 /\ c = "seed_samples_3x"
         \/ t = "samples_3x" /\ s = 2 /\ c = "scp"
         \/ t = "samples_3x" /\ s = 3 /\ c = "push"
         \/ t = "samples_3x" /\ s = 4 /\ c = "reseed_samples"
         \/ t = "beats_3x" /\ s = 1 /\ c = "seed_beats_3x"
         \/ t = "beats_3x" /\ s = 2 /\ c = "scp"
         \/ t = "beats_3x" /\ s = 3 /\ c = "rm"
         \/ t = "beats_3x" /\ s = 4 /\ c = "push"
         \/ t = "beats_3x" /\ s = 5 /\ c = "reseed_beats"
<1>1. CASE t = "none"
  BY <1>1, RunbookRows
<1>2. CASE t = "content"
  <2>1. s = 1 \/ s = 2 \/ s = 3 \/ s = 4
    BY <1>2, RunbookRows
  <2> QED
    BY <1>2, <2>1, RunbookRows
<1>3. CASE t = "local"
  <2>1. s = 1 \/ s = 2 \/ s = 3
    BY <1>3, RunbookRows
  <2> QED
    BY <1>3, <2>1, RunbookRows
<1>4. CASE t = "samples_3x"
  <2>1. s = 1 \/ s = 2 \/ s = 3 \/ s = 4
    BY <1>4, RunbookRows
  <2> QED
    BY <1>4, <2>1, RunbookRows
<1>5. CASE t = "beats_3x"
  <2>1. s = 1 \/ s = 2 \/ s = 3 \/ s = 4 \/ s = 5
    BY <1>5, RunbookRows
  <2> QED
    BY <1>5, <2>1, RunbookRows
<1> QED
  BY <1>1, <1>2, <1>3, <1>4, <1>5 DEF Tasks

LEMMA GivenWhere ==
  ASSUME OrderShape
  PROVE  /\ Given("push") => \/ task = "content" /\ step = 2
                             \/ task = "local" /\ step = 3
                             \/ task = "samples_3x" /\ step = 3
                             \/ task = "beats_3x" /\ step = 4
         /\ Given("scp") => task \in {"samples_3x", "beats_3x"} /\ step = 2
         /\ Given("rm") => task = "beats_3x" /\ step = 3
         /\ Given("wipe") => task = "content" /\ step = 3
         /\ Given("reseed") => task = "content" /\ step = 4
         /\ Given("reseed_samples") => task = "samples_3x" /\ step = 4
         /\ Given("reseed_beats") => task = "beats_3x" /\ step = 5
         /\ Given("migrate") => task = "local" /\ step = 1
         /\ Given("rewrite") => task = "local" /\ step = 2
         /\ \A s \in Scripts : Given(s) => task = TaskOf[s] /\ step = 1
<1>1. PICK t, s : t = task /\ s = step
  OBVIOUS
<1>2. t \in Tasks \cup {"none"} /\ s \in Nat \ {0}
  BY <1>1 DEF OrderShape
<1>3. /\ TaskOf["seed_content"] = "content" /\ TaskOf["seed_samples_3x"] = "samples_3x"
      /\ TaskOf["seed_beats_3x"] = "beats_3x"
  BY DEF TaskOf
<1>4. \A c : Given(c) => s \in DOMAIN Runbook[t] /\ Runbook[t][s] = c
  BY <1>1 DEF Given
<1> HIDE DEF Given
<1>5. ASSUME NEW c, Given(c), c \notin Scripts
      PROVE  /\ c = "push" => \/ t = "content" /\ s = 2
                              \/ t = "local" /\ s = 3
                              \/ t = "samples_3x" /\ s = 3
                              \/ t = "beats_3x" /\ s = 4
             /\ c = "scp" => t \in {"samples_3x", "beats_3x"} /\ s = 2
             /\ c = "rm" => t = "beats_3x" /\ s = 3
             /\ c = "wipe" => t = "content" /\ s = 3
             /\ c = "reseed" => t = "content" /\ s = 4
             /\ c = "reseed_samples" => t = "samples_3x" /\ s = 4
             /\ c = "reseed_beats" => t = "beats_3x" /\ s = 5
             /\ c = "migrate" => t = "local" /\ s = 1
             /\ c = "rewrite" => t = "local" /\ s = 2
  BY <1>2, <1>4, <1>5, Commands
<1>6. ASSUME NEW c \in Scripts, Given(c)
      PROVE  t = TaskOf[c] /\ s = 1
  <2>1. c = "seed_content" \/ c = "seed_samples_3x" \/ c = "seed_beats_3x"
    BY DEF Scripts
  <2> QED
    BY <2>1, <1>2, <1>3, <1>4, <1>6, Commands
<1>7. \A c \in {"push", "scp", "rm", "wipe", "reseed", "reseed_samples", "reseed_beats",
                "migrate", "rewrite"} : c \notin Scripts
  BY DEF Scripts
<1> QED
  BY <1>1, <1>5, <1>6, <1>7

LEMMA RestWhere ==
  ASSUME NEW t \in Tasks \cup {"none"}, NEW s \in Nat \ {0}
  PROVE  s > Len(Runbook[t]) <=> \/ t = "none"
                                 \/ t = "content" /\ s > 4
                                 \/ t = "local" /\ s > 3
                                 \/ t = "samples_3x" /\ s > 4
                                 \/ t = "beats_3x" /\ s > 5
<1>1. t = "none" \/ t = "content" \/ t = "local" \/ t = "samples_3x" \/ t = "beats_3x"
  BY DEF Tasks
<1>2. CASE t = "none"
  BY <1>2, RunbookRows
<1>3. CASE t = "content"
  BY <1>3, RunbookRows
<1>4. CASE t = "local"
  BY <1>4, RunbookRows
<1>5. CASE t = "samples_3x"
  BY <1>5, RunbookRows
<1>6. CASE t = "beats_3x"
  BY <1>6, RunbookRows
<1> QED
  BY <1>1, <1>2, <1>3, <1>4, <1>5, <1>6

LEMMA NotAtRest ==
  ASSUME NEW c, Given(c), OrderShape
  PROVE  ~AtRest
<1>1. Len(Runbook[task]) \in Nat /\ DOMAIN Runbook[task] = 1..Len(Runbook[task])
  BY RunbookRows DEF OrderShape, Tasks
<1> QED
  BY <1>1 DEF Given, AtRest

-----------------------------------------------------------------------------
(* Files, rows and directories. *)

LEMMA FileOf ==
  ASSUME NEW sq, NEW n \in Nat, sq = [i \in 1..n |-> sq[i]]
  PROVE  IsFile(sq) /\ Len(sq) = n /\ DOMAIN sq = 1..n
<1>1. sq \in Seq({sq[i] : i \in 1..n}) /\ DOMAIN sq = 1..n
  OBVIOUS
<1>2. Len(sq) = n
  BY <1>1
<1> QED
  BY <1>1, <1>2 DEF IsFile

LEMMA SeqIsFile ==
  ASSUME NEW S, NEW sq \in Seq(S)
  PROVE  IsFile(sq)
BY DEF IsFile

LEMMA FileDomain ==
  ASSUME NEW sq, IsFile(sq)
  PROVE  DOMAIN sq = 1..Len(sq) /\ Len(sq) \in Nat
BY DEF IsFile

LEMMA EmptyFile == IsFile(<<>>) /\ Len(<<>>) = 0
BY DEF IsFile

\* Append(sq, e), in the way of Joined.
Appended(sq, e) == Append(sq, e)

LEMMA AppendFile ==
  ASSUME NEW sq, IsFile(sq), NEW e, NEW new, new = Appended(sq, e)
  PROVE  /\ IsFile(new) /\ Len(new) = Len(sq) + 1
         /\ \A i \in 1..Len(sq) : new[i] = sq[i]
         /\ new[Len(sq) + 1] = e
<1>0. new = Append(sq, e)
  BY DEF Appended
<1>1. PICK n \in Nat : n = Len(sq)
  BY DEF IsFile
<1>2. PICK S : S = {sq[i] : i \in 1..n} \cup {e}
  OBVIOUS
<1>3. sq \in Seq(S) /\ e \in S
  BY <1>1, <1>2 DEF IsFile
<1>4. Append(sq, e) \in Seq(S) /\ Len(Append(sq, e)) = n + 1
      /\ \A i \in 1..n : Append(sq, e)[i] = sq[i]
      /\ Append(sq, e)[n + 1] = e
  BY <1>1, <1>3
<1>5. new \in Seq(S) /\ Len(new) = n + 1
  BY <1>0, <1>4
<1>6. IsFile(new)
  BY <1>5, SeqIsFile
<1>7. (\A i \in 1..n : new[i] = sq[i]) /\ new[n + 1] = e
  BY <1>0, <1>4
<1> QED
  BY <1>1, <1>5, <1>6, <1>7, Zenon

Extended(new, a, b) ==
  /\ IsFile(new) /\ Len(new) = Len(a) + Len(b)
  /\ \A i \in 1..Len(a) : new[i] = a[i]
  /\ \A i \in 1..Len(b) : new[Len(a) + i] = b[i]

LEMMA JoinFile ==
  ASSUME NEW a, IsFile(a), NEW b, IsFile(b), NEW new, new = Joined(a, b)
  PROVE  Extended(new, a, b)
<1>1. PICK m \in Nat, n \in Nat : m = Len(a) /\ n = Len(b)
  BY DEF IsFile
<1>2. PICK k \in Nat : k = m + n
  OBVIOUS
<1>3. IsSeq(a, m) /\ IsSeq(b, n)
  BY <1>1 DEF IsFile, IsSeq
<1>4. /\ IsSeq(new, k)
      /\ \A i \in 1..m : new[i] = a[i]
      /\ \A i \in (m + 1)..k : new[i] = b[i - m]
  BY <1>2, <1>3, JoinedSeq
<1>5. IsFile(new) /\ Len(new) = k
  BY <1>4, FileOf DEF IsSeq
<1>6. \A i \in 1..n : new[m + i] = b[i]
  <2>1. ASSUME NEW i \in 1..n
        PROVE  new[m + i] = b[i]
    <3>1. PICK j \in (m + 1)..k : j = m + i
      BY <1>2
    <3>2. new[j] = b[j - m]
      BY <1>4
    <3>3. j - m = i
      BY <3>1
    <3> QED
      BY <3>1, <3>2, <3>3
  <2> QED
    BY <2>1
<1> QED
  BY <1>1, <1>2, <1>4, <1>5, <1>6 DEF Extended

LEMMA SubFile ==
  ASSUME NEW sq, IsFile(sq), NEW t \in 1..Len(sq), NEW new, new = SubSeq(sq, t + 1, Len(sq))
  PROVE  /\ IsFile(new) /\ Len(new) = Len(sq) - t
         /\ \A i \in 1..Len(new) : new[i] = sq[t + i]
<1>1. PICK n \in Nat : n = Len(sq)
  BY DEF IsFile
<1>2. PICK S : S = {sq[i] : i \in 1..n}
  OBVIOUS
<1>3. sq \in Seq(S)
  BY <1>1, <1>2 DEF IsFile
<1>4. PICK m \in Nat : m = n - t
  BY <1>1
<1>5. /\ SubSeq(sq, t + 1, n) \in Seq(S)
      /\ Len(SubSeq(sq, t + 1, n)) = m
      /\ \A i \in 1..m : SubSeq(sq, t + 1, n)[i] = sq[t + i]
  BY <1>1, <1>3, <1>4
<1>6. new = [i \in 1..m |-> new[i]]
  BY SMTT(30), <1>1, <1>5
<1> QED
  BY <1>1, <1>4, <1>5, <1>6 DEF IsFile

Overlaid(d, new, old) ==
  /\ Mapping(d) /\ DOMAIN d = DOMAIN new \cup DOMAIN old
  /\ \A f \in DOMAIN new : d[f] = new[f]
  /\ \A f \in DOMAIN old : f \notin DOMAIN new => d[f] = old[f]

LEMMA OverFacts ==
  ASSUME NEW new, NEW old
  PROVE  Overlaid(Over(new, old), new, old)
BY DEF Over, Mapping, Overlaid

LEMMA LocalFields ==
  ASSUME NEW k, NEW g, NEW n, NEW u, u = Local(k, g, n)
  PROVE  u.host = "local" /\ u.kind = k /\ u.group = g /\ u.n = n
         /\ u = Local(u.kind, u.group, u.n)
BY DEF Local

LEMMA FalFields ==
  ASSUME NEW n, NEW u, u = Fal(n)
  PROVE  u.host = "fal" /\ u.n = n /\ u = Fal(u.n)
BY DEF Fal

LEMMA SeedRowFields ==
  ASSUME NEW s, NEW order, NEW url, NEW sound, NEW r, r = SeedRow(s, order, url, sound)
  PROVE  /\ r = [kind |-> r.kind, group |-> r.group, tags |-> r.tags, title |-> r.title,
                 url |-> r.url, sort_order |-> r.sort_order, sound |-> r.sound]
         /\ r.kind = s.kind /\ r.group = s.group /\ r.tags = s.tags
         /\ r.url = url /\ r.sort_order = order /\ r.sound = sound
BY DEF SeedRow

LEMMA MoreUploads ==
  ASSUME NEW m \in Nat, NEW n \in Nat, m <= n
  PROVE  /\ \A r : GoodRow(r, m) => GoodRow(r, n)
         /\ \A f, k : GoodFile(f, k, m) => GoodFile(f, k, n)
         /\ \A fs : GoodFiles(fs, m) => GoodFiles(fs, n)
         /\ \A t : GoodTable(t, m) => GoodTable(t, n)
         /\ \A mg, t : GoodMigration(mg, t, m) => GoodMigration(mg, t, n)
<1>1. ASSUME NEW r, GoodRow(r, m) PROVE GoodRow(r, n)
  <2>1. 1..m \subseteq 1..n
    OBVIOUS
  <2> QED
    BY <1>1, <2>1 DEF GoodRow
<1>2. ASSUME NEW f, NEW k, GoodFile(f, k, m) PROVE GoodFile(f, k, n)
  BY <1>1, <1>2 DEF GoodFile
<1>3. ASSUME NEW fs, GoodFiles(fs, m) PROVE GoodFiles(fs, n)
  BY <1>2, <1>3 DEF GoodFiles
<1>4. ASSUME NEW t, GoodTable(t, m) PROVE GoodTable(t, n)
  BY <1>1, <1>4 DEF GoodTable
<1>5. ASSUME NEW mg, NEW t, GoodMigration(mg, t, m) PROVE GoodMigration(mg, t, n)
  BY <1>4, <1>5 DEF GoodMigration
<1> QED
  BY <1>1, <1>2, <1>3, <1>4, <1>5

-----------------------------------------------------------------------------
(* What a step of a script does. *)

LEMMA PlansSound ==
  ASSUME NEW s \in Scripts
  PROVE  PlanSlots(Plan[s]) /\ Fruitful[s] \subseteq 1..Len(Plan[s])
<1>1. /\ Plan["seed_content"] = ContentPlan /\ Plan["seed_samples_3x"] = SamplesPlan
      /\ Plan["seed_beats_3x"] = BeatsPlan
  BY DEF Plan
<1>2. s = "seed_content" \/ s = "seed_samples_3x" \/ s = "seed_beats_3x"
  BY DEF Scripts
<1>3. PlanSlots(Plan[s])
  BY <1>1, <1>2, TablesSound
<1>4. Fruitful[s] \subseteq DOMAIN Plan[s]
  BY FruitfulAssumption
<1> QED
  BY <1>3, <1>4 DEF PlanSlots

LEMMA SlotSound ==
  ASSUME ScriptShape, AtSlot
  PROVE  /\ script \in Scripts /\ pos \in 1..Len(Plan[script]) /\ slot = Plan[script][pos]
         /\ Loads(slot) /\ Numbers(slot)
<1>1. script \in Scripts
  BY DEF AtSlot, ScriptShape
<1>2. pos \in DOMAIN Plan[script]
  BY DEF AtSlot
<1> QED
  BY <1>1, <1>2, PlansSound DEF PlanSlots, slot

LEMMA MovesOn ==
  ASSUME NEW s \in Scripts, NEW from \in Nat, MoveOn(s, from)
  PROVE  pos' \in Nat \ {0} /\ pos' > from /\ pos' \in Fruitful[s] \cup {Len(Plan[s]) + 1}
<1>1. Len(Plan[s]) \in Nat /\ Fruitful[s] \subseteq 1..Len(Plan[s])
  BY PlansSound DEF PlanSlots
<1> QED
  BY <1>1 DEF MoveOn

LEMMA OrderSound ==
  ASSUME NEW rs, IsFile(rs), NEW s, Numbers(s)
  PROVE  /\ IsFiniteSet(Counted(rs, s)) /\ Cardinality(Counted(rs, s)) \in Nat
         /\ NextOrder(rs, s) \in Nat \ {0}
<1>1. Counted(rs, s) \subseteq 1..Len(rs) /\ Len(rs) \in Nat
  BY FileDomain DEF Counted
<1>2. IsFiniteSet(1..Len(rs))
  BY <1>1, FS_Interval
<1>3. IsFiniteSet(Counted(rs, s))
  BY <1>1, <1>2, FS_Subset
<1>4. Cardinality(Counted(rs, s)) \in Nat
  BY <1>3, FS_CardinalityType
<1> QED
  BY <1>3, <1>4 DEF NextOrder, Numbers, Dense

\* A search made for the slot adds n rows to its file, for sounds not used before.
Gain(n, kept, first) ==
  LET k == slot.kind
      old == out[k]
      new == out'[k]
  IN /\ n \in Nat /\ first = NextOrder(old, slot)
     /\ IsFile(new) /\ Len(new) = Len(old) + n
     /\ \A i \in 1..Len(old) : new[i] = old[i]
     /\ \A i \in 1..n :
          new[Len(old) + i] = SeedRow(slot, first + i - 1, new[Len(old) + i].url, kept[i])
     /\ out' = [c \in Kinds |-> IF c = k THEN new ELSE out[c]]
     /\ \A i \in 1..n : kept[i] \in Sounds \ used /\ kept[i] \in used'
     /\ \A i, j \in 1..n : i # j => kept[i] # kept[j]
     /\ used \subseteq used' /\ used' \subseteq Sounds

Searched ==
  AtSlot /\ MoveOn(script, pos) /\ script' = script /\ seeds' = seeds

UploadGain(n, kept, first) ==
  /\ script = "seed_content" /\ Searched /\ Gain(n, kept, first) /\ build' = build
  /\ n \in {0, 1} /\ IsFile(fal') /\ Len(fal') = Len(fal) + n
  /\ \A i \in 1..Len(fal) : fal'[i] = fal[i]
  /\ n = 1 => /\ fal'[Len(fal) + 1] = kept[1]
              /\ out'[slot.kind][Len(out[slot.kind]) + 1].url = Fal(Len(fal) + 1)

FilesGain(n, kept, first, names) ==
  /\ Searched /\ Gain(n, kept, first) /\ fal' = fal
  /\ \A i \in 1..n : out'[slot.kind][Len(out[slot.kind]) + i].url = names[i]
  /\ Mapping(build')
  /\ DOMAIN build' = DOMAIN build \cup {names[i] : i \in 1..n}
  /\ \A i \in 1..n : build'[names[i]] = kept[i]
  /\ \A f \in DOMAIN build : (\A i \in 1..n : f # names[i]) => build'[f] = build[f]

LEMMA UploadGains ==
  ASSUME ScriptShape, fetch_and_upload
  PROVE  \E n, kept, first : UploadGain(n, kept, first)
<1>1. /\ script = "seed_content" /\ AtSlot /\ MoveOn(script, pos)
      /\ script' = script /\ seeds' = seeds /\ build' = build
  BY DEF fetch_and_upload
<1>2. Loads(slot) /\ Numbers(slot)
  BY <1>1, SlotSound
<1>3. PICK k \in Kinds : k = slot.kind
  BY <1>2 DEF Loads
<1>4. /\ out = [c \in Kinds |-> out[c]] /\ IsFile(out[k]) /\ used \subseteq Sounds
      /\ IsFile(fal) /\ Len(fal) \in Nat /\ Len(out[k]) \in Nat
  BY DEF ScriptShape, GoodFiles, GoodFile, IsFile
<1>5. PICK failed \in SUBSET (Sounds \ used) :
        \/ used' = used \cup failed /\ out' = out /\ fal' = fal
        \/ \E chosen \in Sounds \ (used \cup failed) :
             used' = used \cup failed \cup {chosen} /\ Uploaded(chosen)
  BY DEF fetch_and_upload
<1>6. CASE used' = used \cup failed /\ out' = out /\ fal' = fal
  <2>1. PICK kept, first : first = NextOrder(out[k], slot)
    OBVIOUS
  <2>2. out' = [c \in Kinds |-> IF c = k THEN out'[k] ELSE out[c]]
    BY <1>4, <1>6
  <2>3. Gain(0, kept, first)
    <3>1. 0 \in Nat /\ Len(out'[k]) = Len(out[k]) + 0 /\ \A i \in 1..0 : FALSE
      BY <1>4, <1>6
    <3>2. IsFile(out'[k]) /\ \A i \in 1..Len(out[k]) : out'[k][i] = out[k][i]
      BY <1>4, <1>6
    <3>3. used \subseteq used' /\ used' \subseteq Sounds
      BY <1>4, <1>6
    <3> QED
      BY <1>3, <2>1, <2>2, <3>1, <3>2, <3>3 DEF Gain
  <2>4. UploadGain(0, kept, first)
    <3>1. IsFile(fal') /\ Len(fal') = Len(fal) + 0 /\ \A i \in 1..Len(fal) : fal'[i] = fal[i]
      BY <1>4, <1>6
    <3>2. 0 \in {0, 1} /\ ~(0 = 1)
      OBVIOUS
    <3> QED
      BY <1>1, <2>3, <3>1, <3>2 DEF UploadGain, Searched
  <2> QED
    BY <2>4
<1>7. ASSUME NEW chosen \in Sounds \ (used \cup failed),
             used' = used \cup failed \cup {chosen}, Uploaded(chosen)
      PROVE  \E n, kept, first : UploadGain(n, kept, first)
  <2>1. PICK first : first = NextOrder(out[k], slot)
    OBVIOUS
  <2>2. PICK row : row = SeedRow(slot, first, Fal(Len(fal) + 1), chosen)
    OBVIOUS
  <2>3. /\ fal' = Append(fal, chosen)
        /\ out' = [out EXCEPT ![k] = Append(out[k], row)]
    BY <1>3, <1>7, <2>1, <2>2 DEF Uploaded
  <2>4. /\ IsFile(fal') /\ Len(fal') = Len(fal) + 1
        /\ \A i \in 1..Len(fal) : fal'[i] = fal[i]
        /\ fal'[Len(fal) + 1] = chosen
    <3>1. IsFile(fal) /\ fal' = Appended(fal, chosen)
      BY <1>4, <2>3 DEF Appended
    <3> QED
      BY <3>1, AppendFile
  <2>5. PICK new : new = Append(out[k], row)
    OBVIOUS
  <2>6. /\ IsFile(new) /\ Len(new) = Len(out[k]) + 1
        /\ \A i \in 1..Len(out[k]) : new[i] = out[k][i]
        /\ new[Len(out[k]) + 1] = row
    <3>1. IsFile(out[k]) /\ new = Appended(out[k], row)
      BY <1>4, <2>5 DEF Appended
    <3> QED
      BY <3>1, AppendFile
  <2>7. out' = [c \in Kinds |-> IF c = k THEN new ELSE out[c]] /\ out'[k] = new
    BY <1>4, <2>3, <2>5
  <2>8. row.url = Fal(Len(fal) + 1)
    BY <2>2, SeedRowFields
  <2>9. PICK kept : kept = [i \in {1} |-> chosen]
    OBVIOUS
  <2>10. kept[1] = chosen /\ chosen \in Sounds \ used /\ chosen \in used'
         /\ used \subseteq used' /\ used' \subseteq Sounds
    BY <1>4, <1>7, <2>9
  <2>11. first + 1 - 1 = first
    BY <1>2, <1>4, <2>1, OrderSound
  <2>12. Gain(1, kept, first)
    <3>1. 1 \in Nat
      OBVIOUS
    <3>2. \A i \in 1..1 : i = 1
      OBVIOUS
    <3>3. \A i \in 1..1 : new[Len(out[k]) + i]
             = SeedRow(slot, first + i - 1, new[Len(out[k]) + i].url, kept[i])
      BY <3>2, <2>2, <2>6, <2>8, <2>10, <2>11
    <3> QED
      BY <1>3, <2>1, <2>6, <2>7, <2>10, <3>1, <3>2, <3>3 DEF Gain
  <2>13. UploadGain(1, kept, first)
    BY <1>1, <1>3, <2>4, <2>6, <2>7, <2>8, <2>10, <2>12 DEF UploadGain, Searched
  <2> QED
    BY <2>13
<1> QED
  BY <1>5, <1>6, <1>7

LEMMA BeatGains ==
  ASSUME ScriptShape, FetchBeat
  PROVE  /\ script = "seed_beats_3x"
         /\ \E n, kept, first :
              /\ n <= 1
              /\ FilesGain(n, kept, first, [i \in 1..n |-> Local("beat", slot.group, slot.file)])
<1> DEFINE file == Local("beat", slot.group, slot.file)
<1>1. /\ script = "seed_beats_3x" /\ AtSlot /\ MoveOn(script, pos)
      /\ script' = script /\ seeds' = seeds /\ fal' = fal
  BY DEF FetchBeat
<1>2. slot.kind = "beat" /\ Numbers(slot)
  <2>1. Plan["seed_beats_3x"] = BeatsPlan
    BY DEF Plan
  <2>2. pos \in DOMAIN BeatsPlan /\ slot = BeatsPlan[pos]
    BY <1>1, <2>1 DEF AtSlot, slot
  <2> QED
    BY <1>1, <2>2, TablesSound, SlotSound DEF BeatFiles
<1>3. "beat" \in Kinds
  BY DEF Kinds
<1>4. /\ out = [c \in Kinds |-> out[c]] /\ IsFile(out["beat"]) /\ used \subseteq Sounds
      /\ Len(out["beat"]) \in Nat /\ Mapping(build)
  BY <1>3 DEF ScriptShape, GoodFiles, GoodFile, IsFile, GoodDirectory
<1>5. \/ used' = used /\ build' = build /\ out' = out
      \/ \E chosen \in Sounds \ used :
           /\ used' = used \cup {chosen}
           /\ build' = Over([f \in {file} |-> chosen], build)
           /\ out' = [out EXCEPT !["beat"] =
                        Append(@, SeedRow(slot, NextOrder(@, slot), file, chosen))]
  BY DEF FetchBeat
<1> HIDE DEF file
<1>6. ASSUME used' = used, build' = build, out' = out
      PROVE  \E kept, first : FilesGain(0, kept, first, [i \in 1..0 |-> file])
  <2>1. PICK kept, first : first = NextOrder(out["beat"], slot)
    OBVIOUS
  <2>2. out' = [c \in Kinds |-> IF c = "beat" THEN out'["beat"] ELSE out[c]]
    BY <1>4, <1>6
  <2>0. \A i \in 1..0 : FALSE
    OBVIOUS
  <2>3. Gain(0, kept, first)
    <3>1. 0 \in Nat /\ Len(out'["beat"]) = Len(out["beat"]) + 0
      BY <1>4, <1>6
    <3>2. IsFile(out'["beat"]) /\ \A i \in 1..Len(out["beat"]) : out'["beat"][i] = out["beat"][i]
      BY <1>4, <1>6
    <3>3. used \subseteq used' /\ used' \subseteq Sounds
      BY <1>4, <1>6
    <3> QED
      BY <1>2, <2>0, <2>1, <2>2, <3>1, <3>2, <3>3 DEF Gain
  <2>4. FilesGain(0, kept, first, [i \in 1..0 |-> file])
    <3>1. PICK names : names = [i \in 1..0 |-> file]
      OBVIOUS
    <3>2. DOMAIN build' = DOMAIN build \cup {names[i] : i \in 1..0}
      BY <1>6, <2>0
    <3>3. Mapping(build')
      BY <1>4, <1>6
    <3> QED
      BY <1>1, <1>6, <2>0, <2>3, <3>1, <3>2, <3>3 DEF FilesGain, Searched
  <2> QED
    BY <2>4
<1>7. ASSUME NEW chosen \in Sounds \ used, used' = used \cup {chosen},
             build' = Over([f \in {file} |-> chosen], build),
             out' = [out EXCEPT !["beat"] =
                        Append(@, SeedRow(slot, NextOrder(@, slot), file, chosen))]
      PROVE  \E kept, first : FilesGain(1, kept, first, [i \in 1..1 |-> file])
  <2>1. PICK first : first = NextOrder(out["beat"], slot)
    OBVIOUS
  <2>2. PICK row : row = SeedRow(slot, first, file, chosen)
    OBVIOUS
  <2>3. out' = [out EXCEPT !["beat"] = Appended(out["beat"], row)]
    BY <1>7, <2>1, <2>2 DEF Appended
  <2>5. PICK new : new = Appended(out["beat"], row)
    OBVIOUS
  <2>6. /\ IsFile(new) /\ Len(new) = Len(out["beat"]) + 1
        /\ \A i \in 1..Len(out["beat"]) : new[i] = out["beat"][i]
        /\ new[Len(out["beat"]) + 1] = row
    BY <1>4, <2>5, AppendFile
  <2>7. out' = [c \in Kinds |-> IF c = "beat" THEN new ELSE out[c]] /\ out'["beat"] = new
    BY <1>3, <1>4, <2>3, <2>5
  <2>8. row.url = file
    BY <2>2, SeedRowFields
  <2>9. PICK kept : kept = [i \in {1} |-> chosen]
    OBVIOUS
  <2>10. kept[1] = chosen /\ chosen \in Sounds \ used /\ chosen \in used'
         /\ used \subseteq used' /\ used' \subseteq Sounds
    BY <1>4, <1>7, <2>9
  <2>11. first + 1 - 1 = first
    BY <1>2, <1>4, <2>1, OrderSound
  <2>12. \A i \in 1..1 : i = 1
    OBVIOUS
  <2>13. Gain(1, kept, first)
    <3>1. 1 \in Nat
      OBVIOUS
    <3>3. \A i \in 1..1 : new[Len(out["beat"]) + i]
             = SeedRow(slot, first + i - 1, new[Len(out["beat"]) + i].url, kept[i])
      BY <2>12, <2>2, <2>6, <2>8, <2>10, <2>11
    <3> QED
      BY <1>2, <2>1, <2>6, <2>7, <2>10, <2>12, <3>1, <3>3 DEF Gain
  <2>14. PICK names : names = [i \in 1..1 |-> file]
    OBVIOUS
  <2>15. names[1] = file /\ {names[i] : i \in 1..1} = {file}
    BY <2>14
  <2>16. PICK fetched : fetched = [f \in {file} |-> chosen]
    OBVIOUS
  <2>17. /\ DOMAIN build' = {file} \cup DOMAIN build
         /\ Mapping(build')
         /\ build'[file] = chosen
         /\ \A f \in DOMAIN build : f # file => build'[f] = build[f]
    <3>1. DOMAIN fetched = {file} /\ fetched[file] = chosen /\ build' = Over(fetched, build)
      BY <1>7, <2>16
    <3>2. Overlaid(build', fetched, build)
      BY <3>1, OverFacts
    <3> QED
      BY <3>1, <3>2 DEF Overlaid
  <2>18. FilesGain(1, kept, first, names)
    <3>1. \A i \in 1..1 : out'["beat"][Len(out["beat"]) + i].url = names[i]
      BY <2>6, <2>7, <2>8, <2>12, <2>15
    <3>2. \A i \in 1..1 : build'[names[i]] = kept[i]
      BY <2>10, <2>12, <2>15, <2>17
    <3>3. 1 \in 1..1
      OBVIOUS
    <3>4. DOMAIN build' = DOMAIN build \cup {names[i] : i \in 1..1}
      BY <2>15, <2>17
    <3>5. \A f \in DOMAIN build : (\A i \in 1..1 : f # names[i]) => build'[f] = build[f]
      BY <2>15, <2>17, <3>3
    <3> QED
      BY <1>1, <1>2, <2>13, <2>17, <3>1, <3>2, <3>4, <3>5 DEF FilesGain, Searched
  <2> QED
    BY <2>14, <2>18
<1> QED
  <2>1. 0 <= 1 /\ 1 <= 1
    OBVIOUS
  <2>2. CASE used' = used /\ build' = build /\ out' = out
    <3>1. PICK kept, first : FilesGain(0, kept, first, [i \in 1..0 |-> file])
      BY <1>6, <2>2
    <3> QED
      BY <1>1, <2>1, <3>1 DEF file
  <2>3. CASE ~(used' = used /\ build' = build /\ out' = out)
    <3>1. PICK kept, first : FilesGain(1, kept, first, [i \in 1..1 |-> file])
      BY <1>5, <1>7, <2>3
    <3> QED
      BY <1>1, <2>1, <3>1 DEF file
  <2> QED
    BY <2>2, <2>3

LEMMA PicksFacts ==
  ASSUME NEW kept \in Picks
  PROVE  \E n \in 0..slot.want :
           /\ kept = [i \in 1..n |-> kept[i]] /\ DOMAIN kept = 1..n
           /\ \A i \in 1..n : kept[i] \in Sounds \ used
           /\ \A i, j \in 1..n : i # j => kept[i] # kept[j]
<1>1. PICK n \in 0..slot.want : kept \in [1..n -> Sounds \ used]
  BY DEF Picks
<1>2. IsInjective(kept)
  BY DEF Picks
<1>3. kept = [i \in 1..n |-> kept[i]] /\ DOMAIN kept = 1..n
      /\ \A i \in 1..n : kept[i] \in Sounds \ used
  BY <1>1
<1>4. \A i, j \in 1..n : i # j => kept[i] # kept[j]
  BY <1>2, <1>3 DEF IsInjective
<1> QED
  BY <1>3, <1>4

LEMMA SampleGains ==
  ASSUME ScriptShape, FetchSamples
  PROVE  /\ script = "seed_samples_3x"
         /\ \E n, kept, first :
              /\ n <= slot.want /\ first = NextOrder(out["sample"], slot)
              /\ FilesGain(n, kept, first,
                           [i \in 1..n |-> Local("sample", slot.group, first + i - 1)])
<1>1. /\ script = "seed_samples_3x" /\ AtSlot /\ MoveOn(script, pos)
      /\ script' = script /\ seeds' = seeds /\ fal' = fal
  BY DEF FetchSamples
<1>2. slot.kind = "sample" /\ Numbers(slot)
  <2>1. Plan["seed_samples_3x"] = SamplesPlan
    BY DEF Plan
  <2>2. pos \in DOMAIN SamplesPlan /\ slot = SamplesPlan[pos]
    BY <1>1, <2>1 DEF AtSlot, slot
  <2> QED
    BY <1>1, <2>2, TablesSound, SlotSound
<1>3. "sample" \in Kinds
  BY DEF Kinds
<1>4. /\ out = [c \in Kinds |-> out[c]] /\ IsFile(out["sample"]) /\ used \subseteq Sounds
      /\ Len(out["sample"]) \in Nat /\ Mapping(build)
  BY <1>3 DEF ScriptShape, GoodFiles, GoodFile, IsFile, GoodDirectory
<1>5. PICK first \in Nat \ {0} : first = NextOrder(out["sample"], slot)
  BY <1>2, <1>4, OrderSound
<1>6. PICK kept \in Picks, failed \in SUBSET (Sounds \ used) :
        LET fileOf == [i \in DOMAIN kept |-> Local("sample", slot.group, first + i - 1)]
        IN /\ used' = used \cup failed \cup Range(kept)
           /\ build' = Over([f \in Range(fileOf) |-> kept[f.n - first + 1]], build)
           /\ out' = [out EXCEPT !["sample"] =
                       @ \o [i \in DOMAIN kept |->
                               SeedRow(slot, first + i - 1, fileOf[i], kept[i])]]
  BY ZenonT(30), <1>5 DEF FetchSamples
<1>7. PICK n \in 0..slot.want :
        /\ kept = [i \in 1..n |-> kept[i]] /\ DOMAIN kept = 1..n
        /\ \A i \in 1..n : kept[i] \in Sounds \ used
        /\ \A i, j \in 1..n : i # j => kept[i] # kept[j]
  BY PicksFacts
<1>8. n \in Nat /\ n <= slot.want
  BY <1>2 DEF Numbers
<1>9. PICK names : names = [i \in 1..n |-> Local("sample", slot.group, first + i - 1)]
  OBVIOUS
<1>10. PICK more : more = [i \in 1..n |-> SeedRow(slot, first + i - 1, names[i], kept[i])]
  OBVIOUS
<1>11. IsFile(more) /\ Len(more) = n /\ DOMAIN more = 1..n
  BY <1>8, <1>10, FileOf
<1>12. PICK new : new = Joined(out["sample"], more)
  OBVIOUS
<1>13. /\ IsFile(new) /\ Len(new) = Len(out["sample"]) + n
       /\ \A i \in 1..Len(out["sample"]) : new[i] = out["sample"][i]
       /\ \A i \in 1..n : new[Len(out["sample"]) + i] = more[i]
  <2>1. PICK old : old = out["sample"]
    OBVIOUS
  <2>2. IsFile(old) /\ IsFile(more) /\ new = Joined(old, more)
    BY <1>4, <1>11, <1>12, <2>1
  <2>3. /\ IsFile(new) /\ Len(new) = Len(old) + Len(more)
        /\ \A i \in 1..Len(old) : new[i] = old[i]
        /\ \A i \in 1..Len(more) : new[Len(old) + i] = more[i]
    <3>1. Extended(new, old, more)
      BY <2>2, JoinFile
    <3> QED
      BY <3>1 DEF Extended
  <2>4. Len(more) = n
    BY <1>11
  <2>5. /\ IsFile(new) /\ Len(new) = Len(old) + n
        /\ \A i \in 1..Len(old) : new[i] = old[i]
        /\ \A i \in 1..n : new[Len(old) + i] = more[i]
    BY <2>3, <2>4, Zenon
  <2> QED
    BY <2>1, <2>5, Zenon
<1>14. out' = [out EXCEPT !["sample"] = new]
  BY <1>6, <1>7, <1>9, <1>10, <1>12 DEF Joined
<1>15. out' = [c \in Kinds |-> IF c = "sample" THEN new ELSE out[c]] /\ out'["sample"] = new
  BY <1>3, <1>4, <1>14
<1>16. \A i \in 1..n : more[i].url = names[i]
  <2>1. ASSUME NEW i \in 1..n
        PROVE  more[i].url = names[i]
    <3>1. more[i] = SeedRow(slot, first + i - 1, names[i], kept[i])
      BY <1>10
    <3> QED
      BY <3>1, SeedRowFields
  <2> QED
    BY <2>1
<1>17. Range(kept) = {kept[i] : i \in 1..n}
  BY <1>7 DEF Range
<1>18. /\ \A i \in 1..n : kept[i] \in used'
       /\ used \subseteq used' /\ used' \subseteq Sounds
  BY <1>4, <1>6, <1>7, <1>17
<1>19. Gain(n, kept, first)
  <2>1. \A i \in 1..n : new[Len(out["sample"]) + i]
           = SeedRow(slot, first + i - 1, new[Len(out["sample"]) + i].url, kept[i])
    BY <1>10, <1>13, <1>16
  <2> QED
    BY <1>2, <1>5, <1>7, <1>8, <1>13, <1>15, <1>18, <2>1 DEF Gain
<1>20. PICK fetched : fetched = [f \in {names[i] : i \in 1..n} |-> kept[f.n - first + 1]]
  OBVIOUS
<1>21. DOMAIN fetched = {names[i] : i \in 1..n} /\ \A i \in 1..n : fetched[names[i]] = kept[i]
  <2>1. ASSUME NEW i \in 1..n
        PROVE  fetched[names[i]] = kept[i]
    <3>1. names[i] = Local("sample", slot.group, first + i - 1)
      BY <1>9
    <3>2. names[i].n = first + i - 1
      BY <3>1, LocalFields
    <3>3. names[i].n - first + 1 = i
      BY <1>5, <1>8, <3>2
    <3> QED
      BY <1>20, <3>3
  <2> QED
    BY <1>20, <2>1
<1>22. build' = Over(fetched, build)
  <2>1. Range(names) = {names[i] : i \in 1..n}
    BY <1>9 DEF Range
  <2>2. build' = Over([f \in Range(names) |-> kept[f.n - first + 1]], build)
    BY <1>6, <1>7, <1>9
  <2> QED
    BY <1>20, <2>1, <2>2
<1>23. Overlaid(build', fetched, build)
  BY <1>22, OverFacts
<1>24. FilesGain(n, kept, first, names)
  <2>1. \A i \in 1..n : out'["sample"][Len(out["sample"]) + i].url = names[i]
    BY <1>13, <1>15, <1>16
  <2>2. DOMAIN build' = DOMAIN build \cup {names[i] : i \in 1..n} /\ Mapping(build')
    BY <1>21, <1>23 DEF Overlaid
  <2>3. \A i \in 1..n : build'[names[i]] = kept[i]
    BY <1>21, <1>23 DEF Overlaid
  <2>4. \A f \in DOMAIN build : (\A i \in 1..n : f # names[i]) => build'[f] = build[f]
    BY <1>21, <1>23 DEF Overlaid
  <2> QED
    BY <1>1, <1>2, <1>19, <2>1, <2>2, <2>3, <2>4 DEF FilesGain, Searched
<1> QED
  BY <1>1, <1>5, <1>8, <1>9, <1>24

\* The URLs of the rows gained: n of them after the first m of rs, for slot s.
NewUrls(rs, m, n, s, uploads) ==
  \A i \in 1..n :
    \/ rs[m + i].url = Fal(rs[m + i].url.n) /\ rs[m + i].url.n \in 1..uploads
    \/ rs[m + i].url = Local(s.kind, s.group, rs[m + i].url.n)

LEMMA GainShape ==
  ASSUME ScriptShape, AtSlot, NEW n, NEW kept, NEW first, Gain(n, kept, first),
         NEW uploads \in Nat, Len(fal) <= uploads,
         NEW rs, rs = out'[slot.kind], NEW m, m = Len(out[slot.kind]),
         NewUrls(rs, m, n, slot, uploads)
  PROVE  GoodFiles(out', uploads)
<1>1. Loads(slot) /\ Numbers(slot)
  BY SlotSound
<1>2. PICK k \in Kinds : k = slot.kind
  BY <1>1 DEF Loads
<1>3. /\ GoodFiles(out, Len(fal)) /\ Len(fal) \in Nat
  BY DEF ScriptShape, IsFile
<1>4. GoodFiles(out, uploads)
  BY <1>3, MoreUploads
<1>5. \A c \in Kinds : GoodFile(out[c], c, uploads)
  BY <1>4 DEF GoodFiles
<1>6. IsFile(out[k]) /\ m \in Nat /\ \A i \in 1..m : GoodRow(out[k][i], uploads) /\ out[k][i].kind = k
  BY <1>2, <1>5 DEF GoodFile, IsFile
<1>7. first \in Nat \ {0}
  BY <1>1, <1>2, <1>6, OrderSound DEF Gain
<1>0. n \in Nat
  BY DEF Gain
<1>8. /\ n \in Nat /\ IsFile(rs) /\ Len(rs) = m + n
      /\ \A i \in 1..m : rs[i] = out[k][i]
      /\ \A i \in 1..n : rs[m + i] = SeedRow(slot, first + i - 1, rs[m + i].url, kept[i])
      /\ out' = [c \in Kinds |-> IF c = k THEN rs ELSE out[c]]
      /\ \A i \in 1..n : kept[i] \in Sounds
  BY <1>2 DEF Gain
<1>9. ASSUME NEW i \in 1..n
      PROVE  GoodRow(rs[m + i], uploads) /\ rs[m + i].kind = k
  <2>1. PICK r : r = rs[m + i]
    OBVIOUS
  <2>2. r = SeedRow(slot, first + i - 1, r.url, kept[i])
    BY <1>8, <2>1
  <2>3. /\ r = [kind |-> r.kind, group |-> r.group, tags |-> r.tags, title |-> r.title,
                url |-> r.url, sort_order |-> r.sort_order, sound |-> r.sound]
        /\ r.kind = slot.kind /\ r.group = slot.group /\ r.tags = slot.tags
        /\ r.sort_order = first + i - 1 /\ r.sound = kept[i]
    BY <2>2, SeedRowFields
  <2>4. first + i - 1 \in Nat \ {0}
    BY <1>7, <1>0
  <2>5. \/ r.url = Fal(r.url.n) /\ r.url.n \in 1..uploads
        \/ r.url = Local(r.kind, r.group, r.url.n)
    <3>1. \/ r.url = Fal(r.url.n) /\ r.url.n \in 1..uploads
          \/ r.url = Local(slot.kind, slot.group, r.url.n)
      BY <2>1 DEF NewUrls
    <3>2. slot.kind = r.kind /\ slot.group = r.group
      BY <2>3
    <3> QED
      BY <3>1, <3>2
  <2>6. kept[i] \in Sounds
    BY <1>8
  <2>7. GoodRow(r, uploads)
    BY <1>1, <2>3, <2>4, <2>5, <2>6 DEF GoodRow, Loads
  <2> QED
    BY <1>2, <2>1, <2>3, <2>7
<1>10. GoodFile(rs, k, uploads)
  <2>1. ASSUME NEW i \in 1..Len(rs)
        PROVE  GoodRow(rs[i], uploads) /\ rs[i].kind = k
    <3>0. i \in Nat \ {0} /\ i <= m + n
      <4>1. Len(rs) = m + n
        BY <1>8
      <4>2. m \in Nat
        BY <1>6
      <4> QED
        BY <4>1, <4>2, <1>0
    <3>1. CASE i <= m
      <4>1. i \in 1..m
        BY <3>0, <3>1, <1>6
      <4>2. rs[i] = out[k][i]
        BY <4>1, <1>8
      <4>3. GoodRow(out[k][i], uploads) /\ out[k][i].kind = k
        BY <4>1, <1>6
      <4> QED
        BY <4>2, <4>3
    <3>2. CASE ~(i <= m)
      <4>1. PICK j \in 1..n : i = m + j
        <5>1. i - m \in 1..n /\ i = m + (i - m)
          BY <3>0, <3>2, <1>6, <1>0
        <5> QED
          BY <5>1
      <4> QED
        BY <4>1, <1>9
    <3> QED
      BY <3>1, <3>2
  <2> QED
    BY <1>8, <2>1 DEF GoodFile
<1>11. \A c \in Kinds : GoodFile(out'[c], c, uploads)
  BY <1>5, <1>8, <1>10
<1>12. out' = [c \in Kinds |-> out'[c]]
  BY <1>8
<1> QED
  BY <1>11, <1>12 DEF GoodFiles

LEMMA FilesShape ==
  ASSUME ScriptShape, NEW n, NEW kept, NEW first, NEW names, FilesGain(n, kept, first, names),
         \A i \in 1..n : names[i] = Local(slot.kind, slot.group, names[i].n)
  PROVE  ScriptShape'
<1>1. AtSlot /\ Gain(n, kept, first) /\ fal' = fal /\ MoveOn(script, pos)
      /\ script' = script /\ seeds' = seeds
  BY DEF FilesGain, Searched
<1>2. PICK rs, m : rs = out'[slot.kind] /\ m = Len(out[slot.kind])
  OBVIOUS
<1>3. Len(fal) \in Nat
  BY DEF ScriptShape, IsFile
<1>4. \A i \in 1..n : rs[m + i].url = Local(slot.kind, slot.group, rs[m + i].url.n)
  BY <1>2 DEF FilesGain
<1>5. GoodFiles(out', Len(fal))
  <2>1. PICK uploads \in Nat : uploads = Len(fal) /\ Len(fal) <= uploads
    BY <1>3
  <2>2. NewUrls(rs, m, n, slot, uploads)
    BY <1>4 DEF NewUrls
  <2> QED
    BY <1>1, <1>2, <2>1, <2>2, GainShape
<1>6. script \in Scripts /\ pos \in Nat
  BY <1>1, SlotSound DEF ScriptShape
<1>7. pos' \in Nat \ {0}
  BY <1>1, <1>6, MovesOn
<1>8. used' \subseteq Sounds /\ \A i \in 1..n : kept[i] \in Sounds
  BY <1>1 DEF Gain
<1>9. GoodDirectory(build')
  <2>1. ASSUME NEW f \in DOMAIN build'
        PROVE  f = Local(f.kind, f.group, f.n)
    <3>1. f \in DOMAIN build \/ \E i \in 1..n : f = names[i]
      BY DEF FilesGain
    <3>2. CASE f \in DOMAIN build
      BY <3>2 DEF ScriptShape, GoodDirectory
    <3>3. CASE \E i \in 1..n : f = names[i]
      <4>1. PICK i \in 1..n : f = names[i]
        BY <3>3
      <4>2. f = Local(slot.kind, slot.group, names[i].n)
        BY <4>1
      <4> QED
        BY <4>2, LocalFields
    <3> QED
      BY <3>1, <3>2, <3>3
  <2>2. Mapping(build')
    BY DEF FilesGain
  <2> QED
    BY <2>1, <2>2 DEF GoodDirectory
<1>10. \A f \in DOMAIN build' : build'[f] \in Sounds
  <2>1. ASSUME NEW f \in DOMAIN build'
        PROVE  build'[f] \in Sounds
    <3>1. CASE \E i \in 1..n : f = names[i]
      <4>1. PICK i \in 1..n : f = names[i]
        BY <3>1
      <4>2. build'[f] = kept[i]
        BY <4>1 DEF FilesGain
      <4> QED
        BY <4>2, <1>8
    <3>2. CASE \A i \in 1..n : f # names[i]
      <4>1. f \in DOMAIN build /\ build'[f] = build[f]
        BY <3>2 DEF FilesGain
      <4> QED
        BY <4>1 DEF ScriptShape
    <3> QED
      BY <3>1, <3>2
  <2> QED
    BY <2>1
<1> QED
  BY <1>1, <1>5, <1>6, <1>7, <1>8, <1>9, <1>10 DEF ScriptShape

LEMMA UploadShape ==
  ASSUME ScriptShape, NEW n, NEW kept, NEW first, UploadGain(n, kept, first)
  PROVE  ScriptShape' /\ Len(fal') \in Nat /\ Len(fal) <= Len(fal')
<1>1. /\ AtSlot /\ Gain(n, kept, first) /\ MoveOn(script, pos)
      /\ script' = script /\ seeds' = seeds /\ build' = build
      /\ n \in {0, 1} /\ IsFile(fal') /\ Len(fal') = Len(fal) + n
      /\ \A i \in 1..Len(fal) : fal'[i] = fal[i]
  BY DEF UploadGain, Searched
<1>2. PICK rs, m : rs = out'[slot.kind] /\ m = Len(out[slot.kind])
  OBVIOUS
<1>3. Len(fal) \in Nat /\ Len(fal') \in Nat /\ Len(fal) <= Len(fal')
  BY <1>1 DEF ScriptShape, IsFile
<1>4. ASSUME NEW i \in 1..n
      PROVE  rs[m + i].url = Fal(rs[m + i].url.n) /\ rs[m + i].url.n \in 1..Len(fal')
  <2>1. n = 1 /\ i = 1
    BY <1>1
  <2>2. rs[m + i].url = Fal(Len(fal) + 1) /\ Len(fal') = Len(fal) + 1
    BY <1>1, <1>2, <2>1 DEF UploadGain
  <2>3. rs[m + i].url.n = Len(fal) + 1
    BY <2>2, FalFields
  <2> QED
    BY <1>3, <2>2, <2>3
<1>5. PICK uploads \in Nat : uploads = Len(fal') /\ Len(fal) <= uploads
  BY <1>3
<1>6. GoodFiles(out', uploads)
  <2>1. NewUrls(rs, m, n, slot, uploads)
    BY <1>4, <1>5 DEF NewUrls
  <2> QED
    <3>1. Gain(n, kept, first) /\ AtSlot /\ Len(fal) <= uploads
      BY <1>1, <1>5
    <3> QED
      BY <1>2, <2>1, <3>1, GainShape
<1>7. GoodFiles(seeds', uploads)
  BY <1>1, <1>3, <1>5, MoreUploads DEF ScriptShape
<1>8. script \in Scripts /\ pos \in Nat
  BY <1>1, SlotSound DEF ScriptShape
<1>9. pos' \in Nat \ {0}
  BY <1>1, <1>8, MovesOn
<1>10. used' \subseteq Sounds /\ \A i \in 1..n : kept[i] \in Sounds
  BY <1>1 DEF Gain
<1>11. \A i \in 1..Len(fal') : fal'[i] \in Sounds
  <2>1. ASSUME NEW i \in 1..Len(fal')
        PROVE  fal'[i] \in Sounds
    <3>1. CASE i <= Len(fal)
      BY <3>1, <1>1, <1>3 DEF ScriptShape
    <3>2. CASE ~(i <= Len(fal))
      <4>1. n = 1 /\ i = Len(fal) + 1
        BY <3>2, <1>1, <1>3
      <4>2. fal'[i] = kept[1] /\ 1 \in 1..n
        BY <4>1 DEF UploadGain
      <4> QED
        BY <4>2, <1>10
    <3> QED
      BY <3>1, <3>2
  <2> QED
    BY <2>1
<1>12. GoodDirectory(build') /\ \A f \in DOMAIN build' : build'[f] \in Sounds
  BY <1>1 DEF ScriptShape
<1>13. ScriptShape'
  BY <1>1, <1>5, <1>6, <1>7, <1>8, <1>9, <1>10, <1>11, <1>12 DEF ScriptShape
<1> QED
  BY <1>3, <1>13

LEMMA RepointRow ==
  ASSUME NEW r, NEW uploads, GoodRow(r, uploads), NEW n,
         NEW q, q = [r EXCEPT !.url = Local(r.kind, r.group, n)]
  PROVE  /\ GoodRow(q, uploads) /\ q.url = Local(r.kind, r.group, n)
         /\ q.kind = r.kind /\ q.group = r.group /\ q.tags = r.tags /\ q.title = r.title
         /\ q.sort_order = r.sort_order /\ q.sound = r.sound
<1>1. PICK u : u = Local(r.kind, r.group, n)
  OBVIOUS
<1>2. r = [kind |-> r.kind, group |-> r.group, tags |-> r.tags, title |-> r.title,
           url |-> r.url, sort_order |-> r.sort_order, sound |-> r.sound]
  BY DEF GoodRow
<1>3. q = [kind |-> r.kind, group |-> r.group, tags |-> r.tags, title |-> r.title,
           url |-> u, sort_order |-> r.sort_order, sound |-> r.sound]
  BY <1>1, <1>2
<1>4. u.n = n
  BY <1>1, LocalFields
<1> QED
  BY <1>1, <1>3, <1>4 DEF GoodRow

LEMMA LocalUrls ==
  ASSUME NEW r, r.kind \in Kinds
  PROVE  /\ RewrittenUrl(r) = LocalUrl(r)
         /\ \E n : LocalUrl(r) = Local(r.kind, r.group, n)
BY DEF RewrittenUrl, LocalUrl, Kinds

LEMMA NoRowsShape == ASSUME NEW uploads PROVE GoodFiles(NoRows, uploads)
<1>1. PICK empty : empty = <<>>
  OBVIOUS
<1>2. IsFile(empty) /\ Len(empty) = 0
  BY <1>1, EmptyFile
<1>3. NoRows = [k \in Kinds |-> empty]
  BY <1>1 DEF NoRows
<1>4. \A k \in Kinds : GoodFile(empty, k, uploads)
  BY <1>2 DEF GoodFile
<1> QED
  BY <1>3, <1>4 DEF GoodFiles

LEMMA PutFile ==
  ASSUME NEW fs, NEW uploads, GoodFiles(fs, uploads), NEW k \in Kinds, NEW file,
         GoodFile(file, k, uploads), NEW new, new = [fs EXCEPT ![k] = file]
  PROVE  GoodFiles(new, uploads)
<1>1. fs = [c \in Kinds |-> fs[c]] /\ \A c \in Kinds : GoodFile(fs[c], c, uploads)
  BY DEF GoodFiles
<1>2. new = [c \in Kinds |-> IF c = k THEN file ELSE fs[c]]
  BY <1>1
<1>3. \A c \in Kinds : GoodFile(new[c], c, uploads)
  BY <1>1, <1>2
<1>4. new = [c \in Kinds |-> new[c]]
  BY <1>2
<1> QED
  BY <1>3, <1>4 DEF GoodFiles

\* The seed files after rewrite_seed_to_local.
RewrittenRow(r) == [r EXCEPT !.url = RewrittenUrl(r)]

LEMMA RewriteFacts ==
  ASSUME NEW k \in Kinds, IsFile(seeds[k]), Rewrite
  PROVE  /\ IsFile(seeds'[k]) /\ Len(seeds'[k]) = Len(seeds[k])
         /\ \A i \in 1..Len(seeds[k]) : seeds'[k][i] = RewrittenRow(seeds[k][i])
<1>1. PICK n \in Nat : n = Len(seeds[k]) /\ DOMAIN seeds[k] = 1..n
  BY FileDomain
<1>2. seeds'[k] = [i \in 1..n |-> RewrittenRow(seeds[k][i])]
  BY <1>1 DEF Rewrite, RewrittenRow
<1>3. seeds'[k] = [i \in 1..n |-> seeds'[k][i]]
  BY <1>2
<1>4. IsFile(seeds'[k]) /\ Len(seeds'[k]) = n
  BY <1>3, FileOf
<1> QED
  BY <1>1, <1>2, <1>4

LEMMA RewrittenRowFacts ==
  ASSUME NEW r, NEW uploads, GoodRow(r, uploads), NEW q, q = RewrittenRow(r)
  PROVE  /\ GoodRow(q, uploads) /\ q.url = LocalUrl(r) /\ q.url = LocalUrl(q)
         /\ q.kind = r.kind /\ q.group = r.group /\ q.tags = r.tags /\ q.title = r.title
         /\ q.sort_order = r.sort_order /\ q.sound = r.sound
<1>1. r.kind \in Kinds
  BY DEF GoodRow
<1>2. PICK n : LocalUrl(r) = Local(r.kind, r.group, n)
  BY <1>1, LocalUrls
<1>3. q = [r EXCEPT !.url = Local(r.kind, r.group, n)]
  BY <1>1, <1>2, LocalUrls DEF RewrittenRow
<1>4. /\ GoodRow(q, uploads) /\ q.url = Local(r.kind, r.group, n)
      /\ q.kind = r.kind /\ q.group = r.group /\ q.tags = r.tags /\ q.title = r.title
      /\ q.sort_order = r.sort_order /\ q.sound = r.sound
  BY <1>3, RepointRow
<1>5. LocalUrl(q) = LocalUrl(r)
  BY <1>4 DEF LocalUrl
<1> QED
  BY <1>2, <1>4, <1>5

LEMMA RewriteShape ==
  ASSUME ScriptShape, Rewrite
  PROVE  ScriptShape'
<1>1. PICK uploads : uploads = Len(fal)
  OBVIOUS
<1>2. \A k \in Kinds : GoodFile(seeds[k], k, uploads)
  BY <1>1 DEF ScriptShape, GoodFiles
<1>3. ASSUME NEW k \in Kinds
      PROVE  GoodFile(seeds'[k], k, uploads)
  <2>1. IsFile(seeds[k])
        /\ \A i \in 1..Len(seeds[k]) : GoodRow(seeds[k][i], uploads) /\ seeds[k][i].kind = k
    BY <1>2 DEF GoodFile
  <2>2. /\ IsFile(seeds'[k]) /\ Len(seeds'[k]) = Len(seeds[k])
        /\ \A i \in 1..Len(seeds[k]) : seeds'[k][i] = RewrittenRow(seeds[k][i])
    BY <2>1, RewriteFacts
  <2>3. ASSUME NEW i \in 1..Len(seeds[k])
        PROVE  GoodRow(seeds'[k][i], uploads) /\ seeds'[k][i].kind = k
    <3>1. PICK r, q : r = seeds[k][i] /\ q = RewrittenRow(r)
      OBVIOUS
    <3>2. GoodRow(r, uploads) /\ r.kind = k
      BY <2>1, <3>1
    <3>3. GoodRow(q, uploads) /\ q.kind = r.kind
      BY <3>1, <3>2, RewrittenRowFacts
    <3> QED
      BY <2>2, <3>1, <3>2, <3>3
  <2> QED
    BY <2>2, <2>3 DEF GoodFile
<1>4. seeds' = [k \in Kinds |-> seeds'[k]]
  BY DEF Rewrite
<1>5. GoodFiles(seeds', uploads)
  BY <1>3, <1>4 DEF GoodFiles
<1>6. /\ script' = script /\ pos' = pos /\ used' = used /\ out' = out /\ build' = build
      /\ fal' = fal
  BY DEF Rewrite
<1> QED
  BY <1>1, <1>5, <1>6 DEF ScriptShape

LEMMA EndShape ==
  ASSUME ScriptShape, Ended, build' = build, fal' = fal, GoodFiles(seeds', Len(fal))
  PROVE  ScriptShape'
<1>1. GoodFiles(out', Len(fal))
  BY NoRowsShape DEF Ended
<1>2. pos' \in Nat \ {0} /\ script' = "none" /\ used' = {}
  BY DEF Ended
<1> QED
  BY <1>1, <1>2 DEF ScriptShape

LEMMA ScriptStepShape ==
  ASSUME ScriptShape, ScriptStep
  PROVE  ScriptShape' /\ Len(fal') \in Nat /\ Len(fal) <= Len(fal')
<1>0. Len(fal) \in Nat
  BY DEF ScriptShape, IsFile
<1>1. CASE fetch_and_upload
  <2>1. PICK n, kept, first : UploadGain(n, kept, first)
    BY <1>1, UploadGains
  <2> QED
    BY <2>1, UploadShape
<1>2. CASE FetchSamples
  <2>1. PICK n, kept, first :
          FilesGain(n, kept, first, [i \in 1..n |-> Local("sample", slot.group, first + i - 1)])
    BY <1>2, SampleGains
  <2>2. n \in Nat /\ fal' = fal
    BY <2>1 DEF FilesGain, Gain
  <2>3. slot.kind = "sample"
    <3>1. script = "seed_samples_3x" /\ pos \in DOMAIN Plan[script]
      BY <1>2 DEF FetchSamples, AtSlot
    <3>2. Plan["seed_samples_3x"] = SamplesPlan
      BY DEF Plan
    <3> QED
      BY <3>1, <3>2, TablesSound DEF slot
  <2>4. ScriptShape'
    <3>1. PICK names : names = [i \in 1..n |-> Local("sample", slot.group, first + i - 1)]
      OBVIOUS
    <3>2. ASSUME NEW i \in 1..n
          PROVE  names[i] = Local("sample", slot.group, names[i].n)
      <4>1. names[i] = Local("sample", slot.group, first + i - 1)
        BY <3>1
      <4>2. names[i].n = first + i - 1
        BY <4>1, LocalFields
      <4> QED
        BY <4>1, <4>2
    <3> QED
      BY <2>1, <2>3, <3>1, <3>2, FilesShape
  <2> QED
    BY <1>0, <2>2, <2>4
<1>3. CASE FetchBeat
  <2>1. PICK n, kept, first :
          FilesGain(n, kept, first, [i \in 1..n |-> Local("beat", slot.group, slot.file)])
    BY <1>3, BeatGains
  <2>2. n \in Nat /\ fal' = fal
    BY <2>1 DEF FilesGain, Gain
  <2>3. slot.kind = "beat"
    <3>1. script = "seed_beats_3x" /\ pos \in DOMAIN Plan[script]
      BY <1>3 DEF FetchBeat, AtSlot
    <3>2. Plan["seed_beats_3x"] = BeatsPlan
      BY DEF Plan
    <3> QED
      BY <3>1, <3>2, TablesSound DEF slot, BeatFiles
  <2>4. ScriptShape'
    <3>1. PICK names : names = [i \in 1..n |-> Local("beat", slot.group, slot.file)]
      OBVIOUS
    <3>2. ASSUME NEW i \in 1..n
          PROVE  names[i] = Local("beat", slot.group, names[i].n)
      <4>1. names[i] = Local("beat", slot.group, slot.file)
        BY <3>1
      <4>2. names[i].n = slot.file
        BY <4>1, LocalFields
      <4> QED
        BY <4>1, <4>2
    <3> QED
      BY <2>1, <2>3, <3>1, <3>2, FilesShape
  <2> QED
    BY <1>0, <2>2, <2>4
<1>4. CASE WriteBeats
  <2>1. GoodFile(out["beat"], "beat", Len(fal)) /\ GoodFiles(seeds, Len(fal)) /\ "beat" \in Kinds
    BY DEF ScriptShape, GoodFiles, Kinds
  <2>2. seeds' = [seeds EXCEPT !["beat"] = out["beat"]] /\ build' = build /\ fal' = fal
    BY <1>4 DEF WriteBeats
  <2>3. GoodFiles(seeds', Len(fal))
    BY <2>1, <2>2, PutFile
  <2>4. CASE Ended
    BY <1>0, <2>2, <2>3, <2>4, EndShape
  <2>5. CASE pos' = pos + 1 /\ script' = script /\ used' = used /\ out' = out
    BY <1>0, <2>2, <2>3, <2>5 DEF ScriptShape
  <2> QED
    BY <1>4, <2>4, <2>5 DEF WriteBeats
<1>5. CASE WriteSamples
  <2>1. GoodFile(out["sample"], "sample", Len(fal)) /\ GoodFiles(seeds, Len(fal))
        /\ "sample" \in Kinds
    BY DEF ScriptShape, GoodFiles, Kinds
  <2>2. /\ seeds' = [seeds EXCEPT !["sample"] = out["sample"]] /\ build' = build
        /\ fal' = fal /\ Ended
    BY <1>5 DEF WriteSamples
  <2>3. GoodFiles(seeds', Len(fal))
    BY <2>1, <2>2, PutFile
  <2> QED
    BY <1>0, <2>2, <2>3, EndShape
<1> QED
  BY <1>1, <1>2, <1>3, <1>4, <1>5 DEF ScriptStep

LEMMA StartShape ==
  ASSUME ScriptShape, NEW s \in Scripts, StartScript(s)
  PROVE  ScriptShape'
<1>1. /\ script' = s /\ used' = {} /\ out' = NoRows /\ MoveOn(s, 0)
      /\ seeds' = seeds /\ build' = build /\ fal' = fal
  BY DEF StartScript
<1>2. pos' \in Nat \ {0}
  BY <1>1, MovesOn
<1>3. GoodFiles(out', Len(fal))
  BY <1>1, NoRowsShape
<1> QED
  BY <1>1, <1>2, <1>3 DEF ScriptShape

LEMMA AbortShape ==
  ASSUME ScriptShape, Abort
  PROVE  ScriptShape'
BY EndShape DEF Abort, ScriptShape

-----------------------------------------------------------------------------
(* The server keeps its shape. *)

LEMMA UpsertFacts ==
  ASSUME NEW table, NEW file, IsFile(file), NEW x
  PROVE  x \in Upsert(table, file) <=>
           \/ x \in table /\ \A i \in 1..Len(file) : ~SameKey(x, file[i])
           \/ \E i \in 1..Len(file) :
                x = file[i] /\ \A k \in 1..Len(file) : k > i => ~SameKey(file[k], file[i])
BY FileDomain DEF Upsert

LEMMA UpsertShape ==
  ASSUME NEW table, NEW file, NEW kind, NEW uploads,
         GoodTable(table, uploads), GoodFile(file, kind, uploads)
  PROVE  GoodTable(Upsert(table, file), uploads)
<1> DEFINE Latest(i) == \A k \in 1..Len(file) : k > i => ~SameKey(file[k], file[i])
           Free(x) == \A i \in 1..Len(file) : ~SameKey(x, file[i])
<1>1. IsFile(file) /\ Len(file) \in Nat /\ \A i \in 1..Len(file) : GoodRow(file[i], uploads)
  BY DEF GoodFile, IsFile
<1>2. \A x \in Upsert(table, file) :
        \/ x \in table /\ Free(x)
        \/ \E i \in 1..Len(file) : x = file[i] /\ Latest(i)
  BY <1>1, UpsertFacts
<1> HIDE DEF Latest, Free
<1>3. ASSUME NEW x \in Upsert(table, file)
      PROVE  GoodRow(x, uploads)
  BY <1>1, <1>2 DEF GoodTable
<1>4. ASSUME NEW x \in Upsert(table, file), NEW y \in Upsert(table, file), SameKey(x, y)
      PROVE  y = x
  <2>1. SameKey(y, x)
    BY <1>4 DEF SameKey
  <2>2. CASE x \in table /\ Free(x)
    <3>1. y \in table
      BY <1>2, <1>4, <2>2 DEF Free
    <3> QED
      BY <2>2, <3>1, <1>4 DEF GoodTable
  <2>3. CASE \E i \in 1..Len(file) : x = file[i] /\ Latest(i)
    <3>1. PICK i \in 1..Len(file) : x = file[i] /\ Latest(i)
      BY <2>3
    <3>2. ~(y \in table /\ Free(y))
      BY <2>1, <3>1 DEF Free
    <3>3. PICK j \in 1..Len(file) : y = file[j] /\ Latest(j)
      BY <1>2, <3>2
    <3>4. ~(i > j) /\ ~(j > i)
      BY <1>4, <2>1, <3>1, <3>3 DEF Latest
    <3> QED
      BY <1>1, <3>1, <3>3, <3>4
  <2> QED
    BY <1>2, <2>2, <2>3
<1> QED
  BY <1>3, <1>4 DEF GoodTable

LEMMA ReseedFacts ==
  ASSUME NEW c \in DOMAIN Loaded, Reseed(c)
  PROVE  /\ Given(c) /\ Done
         /\ \/ rows' = rows
            \/ c = "reseed" /\ rows' = Upsert(Upsert(rows, deployed["beat"]), deployed["sample"])
            \/ c = "reseed_samples" /\ rows' = Upsert(rows, deployed["sample"])
            \/ c = "reseed_beats" /\ rows' = Upsert(rows, deployed["beat"])
         /\ UNCHANGED <<script, pos, used, out, seeds, build, fal, deployed, static, mig, crashes>>
<1>1. /\ Loaded["reseed"] = {"beat", "sample"} /\ Loaded["reseed_samples"] = {"sample"}
      /\ Loaded["reseed_beats"] = {"beat"}
  BY DEF Loaded
<1>2. c = "reseed" \/ c = "reseed_samples" \/ c = "reseed_beats"
  BY DEF Loaded
<1>3. Given(c) /\ Done
      /\ UNCHANGED <<script, pos, used, out, seeds, build, fal, deployed, static, mig, crashes>>
  BY DEF Reseed
<1>4. PICK beats, both :
        /\ beats = IF "beat" \in Loaded[c] THEN Upsert(rows, deployed["beat"]) ELSE rows
        /\ both = IF "sample" \in Loaded[c] THEN Upsert(beats, deployed["sample"]) ELSE beats
        /\ rows' = both \/ rows' = rows
  BY Zenon DEF Reseed
<1>5. CASE c = "reseed"
  BY <1>1, <1>3, <1>4, <1>5
<1>6. CASE c = "reseed_samples"
  BY <1>1, <1>3, <1>4, <1>6
<1>7. CASE c = "reseed_beats"
  BY <1>1, <1>3, <1>4, <1>7
<1> QED
  BY <1>2, <1>5, <1>6, <1>7

LEMMA ReseedShape ==
  ASSUME ScriptShape, ServerShape, NEW c \in DOMAIN Loaded, Reseed(c), mig = Idle
  PROVE  ServerShape'
<1>1. PICK uploads : uploads = Len(fal)
  OBVIOUS
<1>2. GoodTable(rows, uploads) /\ \A k \in Kinds : GoodFile(deployed[k], k, uploads)
  BY <1>1 DEF ServerShape, GoodFiles
<1>3. "beat" \in Kinds /\ "sample" \in Kinds
  BY DEF Kinds
<1>4. GoodTable(Upsert(rows, deployed["beat"]), uploads)
  BY <1>2, <1>3, UpsertShape
<1>5. GoodTable(Upsert(rows, deployed["sample"]), uploads)
  BY <1>2, <1>3, UpsertShape
<1>6. GoodTable(Upsert(Upsert(rows, deployed["beat"]), deployed["sample"]), uploads)
  BY <1>2, <1>3, <1>4, UpsertShape
<1>7. GoodTable(rows', uploads)
  BY <1>2, <1>4, <1>5, <1>6, ReseedFacts
<1>8. deployed' = deployed /\ static' = static /\ mig' = mig /\ fal' = fal
  BY ReseedFacts
<1>9. GoodMigration(mig', rows', uploads)
  BY <1>8 DEF GoodMigration
<1> QED
  BY <1>1, <1>7, <1>8, <1>9 DEF ServerShape

\* What the rows and the migration get from one row of it.
LEMMA PointShape ==
  ASSUME ScriptShape, ServerShape, NEW r \in mig.left, mig # Idle, r.url.host = "fal",
         NEW files, Point(r, files)
  PROVE  GoodMigration(mig', rows, Len(fal)) /\ static' = files
<1>1. PICK uploads : uploads = Len(fal)
  OBVIOUS
<1>2. GoodTable(mig.view, uploads) /\ mig.left \subseteq mig.view /\ mig.left \subseteq rows
  BY <1>1 DEF ServerShape, GoodMigration
<1>3. PICK url : url = LocalUrl(r)
  OBVIOUS
<1>4. r \in mig.view /\ GoodRow(r, uploads) /\ r.kind \in Kinds
  BY <1>2 DEF GoodTable, GoodRow
<1>5. PICK q : q = [r EXCEPT !.url = url]
  OBVIOUS
<1>6. GoodRow(q, uploads) /\ q.url = url /\ q.kind = r.kind
  BY <1>3, <1>4, <1>5, LocalUrls, RepointRow
<1>7. static' = files
  BY DEF Point
<1>8. CASE \E o \in mig.view : o.kind = r.kind /\ o.url = url
  <2>1. mig' = Idle
    BY <1>3, <1>8 DEF Point
  <2> QED
    BY <1>7, <2>1 DEF GoodMigration
<1>9. CASE ~\E o \in mig.view : o.kind = r.kind /\ o.url = url
  <2>1. PICK view, left : view = (mig.view \ {r}) \cup {q} /\ left = mig.left \ {r}
    OBVIOUS
  <2>2. mig' = [phase |-> "rows", left |-> left, view |-> view]
    BY <1>3, <1>5, <1>9, <2>1 DEF Point
  <2>3. mig'.view = view /\ mig'.left = left
        /\ mig' = [phase |-> "rows", view |-> mig'.view, left |-> mig'.left]
    BY <2>2
  <2>4. left \subseteq view /\ left \subseteq rows
    BY <1>2, <2>1
  <2>5. GoodTable(view, uploads)
    <3>1. ASSUME NEW x \in view
          PROVE  GoodRow(x, uploads)
      BY <1>2, <1>6, <2>1 DEF GoodTable
    <3>2. ASSUME NEW x \in view, NEW y \in view, SameKey(x, y)
          PROVE  y = x
      <4>1. CASE x = q /\ y = q
        BY <4>1
      <4>2. CASE x # q /\ y # q
        BY <4>2, <1>2, <2>1, <3>2 DEF GoodTable
      <4>3. CASE x = q /\ y # q
        BY <4>3, <1>6, <1>9, <2>1, <3>2 DEF SameKey
      <4>4. CASE x # q /\ y = q
        BY <4>4, <1>6, <1>9, <2>1, <3>2 DEF SameKey
      <4> QED
        BY <4>1, <4>2, <4>3, <4>4
    <3> QED
      BY <3>1, <3>2 DEF GoodTable
  <2> QED
    BY <1>1, <1>7, <2>3, <2>4, <2>5 DEF GoodMigration
<1> QED
  BY <1>8, <1>9

\* The files of the server after a download.
StaticShape(files) ==
  /\ GoodDirectory(files)
  /\ \A f \in DOMAIN files :
       /\ files[f] = [sound |-> files[f].sound, whole |-> files[f].whole]
       /\ files[f].sound \in Sounds

LEMMA OverlaidShape ==
  ASSUME NEW new, NEW old, StaticShape(new), StaticShape(old), NEW d, Overlaid(d, new, old)
  PROVE  StaticShape(d)
<1>1. ASSUME NEW f \in DOMAIN d
      PROVE  /\ f = Local(f.kind, f.group, f.n)
             /\ d[f] = [sound |-> d[f].sound, whole |-> d[f].whole] /\ d[f].sound \in Sounds
  <2>1. CASE f \in DOMAIN new
    BY <2>1 DEF Overlaid, StaticShape, GoodDirectory
  <2>2. CASE f \notin DOMAIN new
    BY <2>2 DEF Overlaid, StaticShape, GoodDirectory
  <2> QED
    BY <2>1, <2>2
<1>2. Mapping(d)
  BY DEF Overlaid
<1> QED
  BY <1>1, <1>2 DEF StaticShape, GoodDirectory

LEMMA MigrateRowShape ==
  ASSUME ScriptShape, ServerShape, NEW r \in rows, MigrateRow(r)
  PROVE  GoodMigration(mig', rows, Len(fal)) /\ StaticShape(static') /\ mig # Idle
<1>1. mig.phase = "rows" /\ r \in mig.left
  BY DEF MigrateRow, MigrateAt
<1>2. mig # Idle
  BY <1>1 DEF Idle
<1>3. PICK uploads \in Nat : uploads = Len(fal)
  BY DEF ScriptShape, IsFile
<1>4. /\ mig = [phase |-> "rows", view |-> mig.view, left |-> mig.left]
      /\ GoodTable(mig.view, uploads) /\ mig.left \subseteq mig.view /\ mig.left \subseteq rows
  BY <1>1, <1>2, <1>3 DEF ServerShape, GoodMigration
<1>5. StaticShape(static)
  BY DEF ServerShape, StaticShape
<1>6. GoodRow(r, uploads)
  BY <1>3 DEF ServerShape, GoodTable
<1>7. CASE mig' = [mig EXCEPT !.left = @ \ {r}] /\ static' = static
  <2>1. mig' = [phase |-> "rows", view |-> mig.view, left |-> mig.left \ {r}]
    BY <1>4, <1>7
  <2>2. /\ mig'.view = mig.view /\ mig'.left = mig.left \ {r}
        /\ mig' = [phase |-> "rows", view |-> mig'.view, left |-> mig'.left]
    BY <2>1
  <2> QED
    BY <1>2, <1>3, <1>4, <1>5, <1>7, <2>2 DEF GoodMigration
<1>8. CASE r.url.host = "fal" /\ Point(r, static)
  <2>1. GoodMigration(mig', rows, Len(fal)) /\ static' = static
    BY <1>1, <1>2, <1>8, PointShape
  <2> QED
    BY <1>2, <1>5, <2>1
<1>9. CASE /\ r.url.host = "fal"
           /\ static' = Over([f \in {LocalUrl(r)} |-> [sound |-> fal[r.url.n], whole |-> FALSE]],
                             static)
           /\ mig' = [phase |-> "writing", view |-> mig.view, left |-> mig.left, row |-> r]
  <2>1. PICK url, sound : url = LocalUrl(r) /\ sound = fal[r.url.n]
    OBVIOUS
  <2>2. sound \in Sounds
    <3>1. r.url.n \in 1..uploads
      <4>1. r.url # Local(r.kind, r.group, r.url.n)
        <5>1. Local(r.kind, r.group, r.url.n).host = "local"
          BY LocalFields
        <5> QED
          BY <1>9, <5>1
      <4> QED
        BY <1>6, <4>1 DEF GoodRow
    <3> QED
      BY <1>3, <2>1, <3>1 DEF ScriptShape
  <2>3. url = Local(url.kind, url.group, url.n)
    <3>1. PICK n : url = Local(r.kind, r.group, n)
      BY <1>6, <2>1, LocalUrls DEF GoodRow
    <3> QED
      BY <3>1, LocalFields
  <2>4. PICK started : started = [f \in {url} |-> [sound |-> sound, whole |-> FALSE]]
    OBVIOUS
  <2>5. StaticShape(started)
    <3>1. DOMAIN started = {url} /\ started[url] = [sound |-> sound, whole |-> FALSE]
          /\ Mapping(started)
      BY <2>4 DEF Mapping
    <3>2. /\ started[url] = [sound |-> started[url].sound, whole |-> started[url].whole]
          /\ started[url].sound = sound
      BY <3>1
    <3> QED
      BY <2>2, <2>3, <3>1, <3>2 DEF StaticShape, GoodDirectory
  <2>6. static' = Over(started, static)
    BY <1>9, <2>1, <2>4
  <2>7. Overlaid(static', started, static)
    BY <2>6, OverFacts
  <2>8. StaticShape(static')
    BY <1>5, <2>5, <2>7, OverlaidShape
  <2>9. PICK m : m = mig'
    OBVIOUS
  <2>10. /\ m.view = mig.view /\ m.left = mig.left /\ m.row = r
         /\ m = [phase |-> "writing", view |-> m.view, left |-> m.left, row |-> m.row]
    BY <1>9, <2>9
  <2>11. GoodMigration(m, rows, uploads)
    BY <1>1, <1>4, <1>9, <2>10 DEF GoodMigration
  <2> QED
    BY <1>2, <1>3, <2>8, <2>9, <2>11
<1> QED
  BY <1>7, <1>8, <1>9 DEF MigrateRow

LEMMA WrittenShape ==
  ASSUME ScriptShape, ServerShape, MigrateWritten
  PROVE  GoodMigration(mig', rows, Len(fal)) /\ StaticShape(static') /\ mig # Idle
<1>1. mig.phase = "writing" /\ mig # Idle
  BY DEF MigrateWritten, Idle
<1>2. PICK uploads \in Nat : uploads = Len(fal)
  BY DEF ScriptShape, IsFile
<1>3. /\ mig = [phase |-> "writing", view |-> mig.view, left |-> mig.left, row |-> mig.row]
      /\ mig.row \in mig.left /\ mig.row.url.host = "fal"
      /\ GoodTable(mig.view, uploads) /\ mig.left \subseteq mig.view /\ mig.left \subseteq rows
  BY <1>1, <1>2 DEF ServerShape, GoodMigration
<1>4. StaticShape(static)
  BY DEF ServerShape, StaticShape
<1>5. CASE Point(mig.row, [static EXCEPT ![LocalUrl(mig.row)].whole = TRUE])
  <2>1. PICK url, files : url = LocalUrl(mig.row) /\ files = [static EXCEPT ![url].whole = TRUE]
    OBVIOUS
  <2>2. GoodMigration(mig', rows, Len(fal)) /\ static' = files
    BY <1>1, <1>3, <1>5, <2>1, PointShape
  <2>3. DOMAIN files = DOMAIN static /\ Mapping(files)
    BY <1>4, <2>1 DEF StaticShape, GoodDirectory, Mapping
  <2>4. ASSUME NEW f \in DOMAIN files
        PROVE  files[f] = [sound |-> files[f].sound, whole |-> files[f].whole]
               /\ files[f].sound \in Sounds
    <3>1. /\ static[f] = [sound |-> static[f].sound, whole |-> static[f].whole]
          /\ static[f].sound \in Sounds
      BY <1>4, <2>3 DEF StaticShape
    <3>2. files[f] = static[f] \/ files[f] = [static[f] EXCEPT !.whole = TRUE]
      BY <1>4, <2>1, <2>3 DEF StaticShape, GoodDirectory, Mapping
    <3> QED
      BY <3>1, <3>2
  <2>5. StaticShape(files)
    BY <1>4, <2>3, <2>4 DEF StaticShape, GoodDirectory
  <2> QED
    BY <1>1, <2>2, <2>5
<1>6. CASE /\ mig' = [phase |-> "rows", view |-> mig.view, left |-> mig.left \ {mig.row}]
           /\ static' = static
  <2>1. PICK m : m = mig'
    OBVIOUS
  <2>2. /\ m.view = mig.view /\ m.left = mig.left \ {mig.row}
        /\ m = [phase |-> "rows", view |-> m.view, left |-> m.left]
    BY <1>6, <2>1
  <2>3. GoodMigration(m, rows, uploads)
    BY <1>3, <2>2 DEF GoodMigration
  <2> QED
    BY <1>1, <1>2, <1>4, <1>6, <2>1, <2>3
<1> QED
  BY <1>5, <1>6 DEF MigrateWritten

LEMMA CopiesShape ==
  ASSUME ScriptShape
  PROVE  StaticShape(Copies)
<1>1. DOMAIN Copies = DOMAIN build /\ Mapping(Copies)
  BY DEF Copies, Mapping
<1>2. ASSUME NEW f \in DOMAIN build
      PROVE  /\ f = Local(f.kind, f.group, f.n)
             /\ Copies[f] = [sound |-> Copies[f].sound, whole |-> Copies[f].whole]
             /\ Copies[f].sound \in Sounds
  <2>1. Copies[f] = [sound |-> build[f], whole |-> TRUE]
    BY DEF Copies
  <2> QED
    BY <2>1 DEF ScriptShape, GoodDirectory
<1> QED
  BY <1>1, <1>2 DEF StaticShape, GoodDirectory

LEMMA CommandShape ==
  ASSUME ScriptShape, ServerShape, mig = Idle
  PROVE  /\ Push => ServerShape'
         /\ Scp => ServerShape'
         /\ Rm => ServerShape'
         /\ Wipe => ServerShape'
<1> USE DEF GoodMigration
<1>1. ASSUME Push PROVE ServerShape'
  <2>1. deployed' = seeds /\ UNCHANGED <<fal, static, rows, mig>>
    BY <1>1 DEF Push
  <2> QED
    BY <2>1 DEF ScriptShape, ServerShape
<1>2. ASSUME Scp PROVE ServerShape'
  <2>1. static' = Over(Copies, static) /\ UNCHANGED <<fal, deployed, rows, mig>>
    BY <1>2 DEF Scp
  <2>2. Overlaid(static', Copies, static)
    BY <2>1, OverFacts
  <2>3. StaticShape(static')
    BY <2>2, CopiesShape, OverlaidShape DEF ServerShape, StaticShape
  <2> QED
    BY <2>1, <2>3 DEF ServerShape, StaticShape
<1>3. ASSUME Rm PROVE ServerShape'
  <2>1. static' = Restrict(static, {f \in DOMAIN static : f.kind # "beat" \/ f.n # 0})
        /\ UNCHANGED <<fal, deployed, rows, mig>>
    BY <1>3 DEF Rm
  <2>2. PICK S : S = {f \in DOMAIN static : f.kind # "beat" \/ f.n # 0}
    OBVIOUS
  <2>3. static' = [f \in S |-> static[f]] /\ S \subseteq DOMAIN static
    BY <2>1, <2>2 DEF Restrict
  <2>4. Mapping(static') /\ DOMAIN static' = S /\ \A f \in S : static'[f] = static[f]
    BY <2>3 DEF Mapping
  <2>5. StaticShape(static')
    BY <2>3, <2>4 DEF ServerShape, StaticShape, GoodDirectory
  <2> QED
    BY <2>1, <2>5 DEF ServerShape, StaticShape
<1>4. ASSUME Wipe PROVE ServerShape'
  <2>1. rows' = {} /\ UNCHANGED <<fal, deployed, static, mig>>
    BY <1>4 DEF Wipe
  <2> QED
    BY <2>1 DEF ServerShape, GoodTable
<1> QED
  BY <1>1, <1>2, <1>3, <1>4

-----------------------------------------------------------------------------
(* The shape of the state is kept by every step. *)

LEMMA ScriptTasks ==
  ASSUME NEW s \in Scripts
  PROVE  TaskOf[s] \in {"content", "samples_3x", "beats_3x"}
BY DEF TaskOf, Scripts

\* Between two commands no script and no migration runs.
LEMMA QuietLater ==
  ASSUME OrderShape, script \in Scripts \cup {"none"}, step # 1
  PROVE  script = "none" /\ mig = Idle
BY DEF OrderShape

LEMMA QuietAtRest ==
  ASSUME OrderShape, script \in Scripts \cup {"none"}, AtRest
  PROVE  script = "none" /\ mig = Idle
<1>1. PICK t \in Tasks \cup {"none"}, s \in Nat \ {0} : t = task /\ s = step
  BY DEF OrderShape
<1>2. s > Len(Runbook[t])
  BY <1>1 DEF AtRest
<1>3. ~(s = 1 /\ t \in {"content", "samples_3x", "beats_3x", "local"})
  BY <1>2, RestWhere
<1> QED
  BY <1>1, <1>3, ScriptTasks DEF OrderShape

LEMMA DoneShape ==
  ASSUME OrderShape, Done, script' = "none", mig' = Idle, crashes' = crashes
  PROVE  OrderShape'
<1>1. step' \in Nat \ {0}
  BY DEF OrderShape, Done
<1> QED
  BY <1>1 DEF OrderShape, Done

LEMMA MigrationMoves ==
  /\ \A r \in rows : MigrateRow(r) => Stay \/ (Done /\ mig' = Idle)
  /\ MigrateWritten => Stay \/ (Done /\ mig' = Idle)
<1>1. \A r, files : Point(r, files) => Stay \/ (Done /\ mig' = Idle)
  BY DEF Point
<1>2. ASSUME NEW r \in rows, MigrateRow(r)
      PROVE  Stay \/ (Done /\ mig' = Idle)
  BY <1>1, <1>2 DEF MigrateRow
<1>3. ASSUME MigrateWritten
      PROVE  Stay \/ (Done /\ mig' = Idle)
  BY <1>1, <1>3 DEF MigrateWritten
<1> QED
  BY <1>2, <1>3

LEMMA ScriptMoves ==
  ASSUME ScriptStep
  PROVE  script # "none" /\ script' \in {script, "none"}
BY DEF ScriptStep, fetch_and_upload, FetchSamples, FetchBeat, WriteBeats, WriteSamples,
       AtSlot, AtEnd, Ended

LEMMA CommandOrder ==
  ASSUME OrderShape, script \in Scripts \cup {"none"},
         NEW c \in {"push", "scp", "rm", "wipe", "reseed", "reseed_samples", "reseed_beats",
                    "rewrite"}, Given(c)
  PROVE  script = "none" /\ mig = Idle
<1>1. step # 1
  BY GivenWhere
<1> QED
  BY <1>1, QuietLater

LEMMA OrderStep ==
  ASSUME Shape, Next
  PROVE  OrderShape'
<1>0. OrderShape /\ script \in Scripts \cup {"none"}
  BY DEF Shape, ScriptShape
<1>1. CASE Begin
  <2>1. script = "none" /\ mig = Idle
    BY <1>0, <1>1, QuietAtRest DEF Begin
  <2>2. PICK t \in DOMAIN ahead : /\ task' = ahead[t] /\ step' = 1
                                  /\ ahead' = SubSeq(ahead, t + 1, Len(ahead))
    BY <1>1 DEF Begin
  <2>3. IsFile(ahead) /\ \A i \in 1..Len(ahead) : ahead[i] \in Tasks
    BY <1>0 DEF OrderShape
  <2>4. t \in 1..Len(ahead) /\ Len(ahead) \in Nat
    BY <2>3, FileDomain
  <2>5. /\ IsFile(ahead') /\ Len(ahead') = Len(ahead) - t
        /\ \A i \in 1..Len(ahead') : ahead'[i] = ahead[t + i]
    <3>1. PICK later : later = ahead'
      OBVIOUS
    <3>2. /\ IsFile(later) /\ Len(later) = Len(ahead) - t
          /\ \A i \in 1..Len(later) : later[i] = ahead[t + i]
      BY ZenonT(30), <2>2, <2>3, <2>4, <3>1, SubFile
    <3> QED
      BY <3>1, <3>2
  <2>6. ASSUME NEW i \in 1..Len(ahead')
        PROVE  ahead'[i] \in Tasks
    <3>1. PICK m \in Nat : m = Len(ahead)
      BY <2>4
    <3>2. t \in 1..m /\ i \in 1..(m - t)
      BY <2>4, <2>5, <3>1
    <3>3. t + i \in 1..m
      BY <3>2
    <3> QED
      BY <2>3, <2>5, <3>1, <3>3
  <2>7. script' = script /\ mig' = mig /\ crashes' = crashes
    BY <1>1 DEF Begin
  <2> QED
    BY <1>0, <2>1, <2>2, <2>3, <2>4, <2>5, <2>6, <2>7 DEF OrderShape
<1>2. CASE RunScript
  <2>1. ASSUME NEW s \in Scripts, Given(s), StartScript(s), Stay, crashes' = crashes, mig' = mig
        PROVE  OrderShape'
    <3>1. task = TaskOf[s] /\ step = 1
      BY <1>0, <2>1, GivenWhere
    <3>2. script' = s
      BY <2>1 DEF StartScript
    <3> QED
      BY <1>0, <2>1, <3>1, <3>2 DEF OrderShape, Stay
  <2>2. ASSUME ScriptStep, IF script' = "none" THEN Done ELSE Stay, crashes' = crashes,
               mig' = mig
        PROVE  OrderShape'
    <3>1. script # "none" /\ script' \in {script, "none"}
      BY <2>2, ScriptMoves
    <3>2. CASE script' = "none"
      <4>1. task # "local"
        BY <1>0, <3>1, ScriptTasks DEF OrderShape
      <4>2. mig = Idle
        BY <1>0, <4>1 DEF OrderShape
      <4> QED
        BY <1>0, <2>2, <3>2, <4>2, DoneShape
    <3>3. CASE script' = script
      BY <1>0, <2>2, <3>1, <3>3 DEF OrderShape, Stay
    <3> QED
      BY <3>1, <3>2, <3>3
  <2>3. ASSUME crashes < MaxCrashes, Abort, crashes' = crashes + 1, Stay, mig' = mig
        PROVE  OrderShape'
    <3>1. script' = "none"
      BY <2>3 DEF Abort, Ended
    <3>2. crashes' \in 0..MaxCrashes
      BY <1>0, <2>3, CrashesAssumption DEF OrderShape
    <3> QED
      BY <1>0, <2>3, <3>1, <3>2 DEF OrderShape, Stay
  <2> QED
    BY <1>2, <2>1, <2>2, <2>3 DEF RunScript, server
<1>3. CASE \/ Push \/ Scp \/ Rm \/ Wipe \/ RewriteFiles \/ \E c \in DOMAIN Loaded : Reseed(c)
  <2>1. \E c \in {"push", "scp", "rm", "wipe", "reseed", "reseed_samples", "reseed_beats",
                  "rewrite"} : Given(c)
    <3>1. CASE Push
      BY <3>1 DEF Push
    <3>2. CASE Scp
      BY <3>2 DEF Scp
    <3>3. CASE Rm
      BY <3>3 DEF Rm
    <3>4. CASE Wipe
      BY <3>4 DEF Wipe
    <3>5. CASE RewriteFiles
      BY <3>5 DEF RewriteFiles
    <3>6. CASE \E c \in DOMAIN Loaded : Reseed(c)
      <4>1. PICK c \in DOMAIN Loaded : Given(c)
        BY <3>6 DEF Reseed
      <4>2. c \in {"reseed", "reseed_samples", "reseed_beats"}
        BY DEF Loaded
      <4> QED
        BY <4>1, <4>2
    <3> QED
      BY <1>3, <3>1, <3>2, <3>3, <3>4, <3>5, <3>6
  <2>2. script = "none" /\ mig = Idle
    BY <1>0, <2>1, CommandOrder
  <2>3. Done /\ script' = script /\ mig' = mig /\ crashes' = crashes
    BY <1>3 DEF Push, Scp, Rm, Wipe, RewriteFiles, Rewrite, Reseed
  <2> QED
    BY <1>0, <2>2, <2>3, DoneShape
<1>4. CASE MigrateBegin
  <2>1. task = "local" /\ step = 1
    BY <1>0, <1>4, GivenWhere DEF MigrateBegin
  <2>2. script' = script /\ crashes' = crashes /\ task' = task /\ step' = step /\ ahead' = ahead
    BY <1>4 DEF MigrateBegin, Stay
  <2>3. script = "none"
    BY <1>0, <2>1, ScriptTasks DEF OrderShape
  <2> QED
    BY <1>0, <2>1, <2>2, <2>3 DEF OrderShape
<1>5. CASE MigrateRows \/ MigrateWritten \/ MigrateCommit
  <2>1. mig # Idle
    <3>1. mig.phase = "rows" \/ mig.phase = "writing"
      BY <1>5 DEF MigrateRows, MigrateRow, MigrateAt, MigrateWritten, MigrateCommit
    <3> QED
      BY <3>1 DEF Idle
  <2>2. task = "local" /\ step = 1
    BY <1>0, <2>1 DEF OrderShape
  <2>3. script = "none"
    BY <1>0, <2>2, ScriptTasks DEF OrderShape
  <2>4. script' = script /\ crashes' = crashes
    BY <1>5 DEF MigrateRows, MigrateWritten, MigrateCommit
  <2>5. Stay \/ (Done /\ mig' = Idle)
    BY <1>5, MigrationMoves DEF MigrateRows, MigrateCommit
  <2>6. CASE Stay
    BY <1>0, <2>2, <2>3, <2>4, <2>6 DEF Stay, OrderShape
  <2>7. CASE Done /\ mig' = Idle
    BY <1>0, <2>3, <2>4, <2>7, DoneShape
  <2> QED
    BY <2>5, <2>6, <2>7
<1>6. CASE MigrateCrash
  <2>1. crashes' \in 0..MaxCrashes
    BY <1>0, <1>6, CrashesAssumption DEF MigrateCrash, OrderShape
  <2> QED
    BY <1>0, <1>6, <2>1 DEF MigrateCrash, Stay, OrderShape
<1>7. CASE Finished
  BY <1>0, <1>7 DEF Finished, vars, OrderShape
<1> QED
  BY <1>1, <1>2, <1>3, <1>4, <1>5, <1>6, <1>7 DEF Next

LEMMA ServerStep ==
  ASSUME Shape, Next
  PROVE  ScriptShape' /\ ServerShape'
<1>0. ScriptShape /\ ServerShape /\ OrderShape /\ script \in Scripts \cup {"none"}
  BY DEF Shape, ScriptShape
<1>1. ASSUME UNCHANGED <<script, pos, used, out, seeds, build, fal>>
      PROVE  ScriptShape'
  BY <1>0, <1>1 DEF ScriptShape
<1>2. ASSUME UNCHANGED server, Len(fal') \in Nat, Len(fal) <= Len(fal')
      PROVE  ServerShape'
  <2>1. Len(fal) \in Nat
    BY <1>0 DEF ScriptShape, IsFile
  <2>2. GoodFiles(deployed, Len(fal'))
    BY <1>0, <1>2, <2>1, MoreUploads DEF ServerShape
  <2>3. GoodTable(rows, Len(fal'))
    BY <1>0, <1>2, <2>1, MoreUploads DEF ServerShape
  <2>4. GoodMigration(mig, rows, Len(fal'))
    BY <1>0, <1>2, <2>1, MoreUploads DEF ServerShape
  <2> QED
    BY <1>0, <1>2, <2>2, <2>3, <2>4 DEF ServerShape, server
<1>3. Len(fal) \in Nat
  BY <1>0 DEF ScriptShape, IsFile
<1>4. CASE Begin
  BY <1>0, <1>1, <1>2, <1>3, <1>4 DEF Begin, server
<1>5. CASE RunScript
  <2>1. UNCHANGED server
    BY <1>5 DEF RunScript
  <2>2. ASSUME NEW s \in Scripts, StartScript(s)
        PROVE  ScriptShape' /\ fal' = fal
    BY <1>0, <2>2, StartShape DEF StartScript
  <2>3. ASSUME Abort
        PROVE  ScriptShape' /\ fal' = fal
    BY <1>0, <2>3, AbortShape DEF Abort
  <2>4. ASSUME ScriptStep
        PROVE  ScriptShape' /\ Len(fal') \in Nat /\ Len(fal) <= Len(fal')
    BY <1>0, <2>4, ScriptStepShape
  <2>5. ScriptShape' /\ Len(fal') \in Nat /\ Len(fal) <= Len(fal')
    BY <1>3, <1>5, <2>2, <2>3, <2>4 DEF RunScript
  <2> QED
    BY <1>2, <2>1, <2>5
<1>6. CASE RewriteFiles
  <2>1. Rewrite /\ UNCHANGED <<deployed, static, rows, mig>>
    BY <1>6 DEF RewriteFiles
  <2>2. fal' = fal
    BY <2>1 DEF Rewrite
  <2> QED
    BY <1>0, <1>2, <1>3, <2>1, <2>2, RewriteShape DEF server
<1>7. CASE Push \/ Scp \/ Rm \/ Wipe
  <2>1. UNCHANGED <<script, pos, used, out, seeds, build, fal>>
    BY <1>7 DEF Push, Scp, Rm, Wipe
  <2>2. \E c \in {"push", "scp", "rm", "wipe"} : Given(c)
    BY <1>7 DEF Push, Scp, Rm, Wipe
  <2>3. mig = Idle
    BY <1>0, <2>2, CommandOrder
  <2> QED
    BY <1>0, <1>1, <1>7, <2>1, <2>3, CommandShape
<1>8. CASE \E c \in DOMAIN Loaded : Reseed(c)
  <2>1. PICK c \in DOMAIN Loaded : Reseed(c)
    BY <1>8
  <2>2. Given(c) /\ UNCHANGED <<script, pos, used, out, seeds, build, fal>>
    BY <2>1 DEF Reseed
  <2>3. c \in {"reseed", "reseed_samples", "reseed_beats"}
    BY DEF Loaded
  <2>4. mig = Idle
    BY <1>0, <2>2, <2>3, CommandOrder
  <2> QED
    BY <1>0, <1>1, <2>1, <2>2, <2>4, ReseedShape
<1>9. CASE MigrateBegin
  <2>1. PICK m : m = mig'
    OBVIOUS
  <2>2. /\ UNCHANGED <<script, pos, used, out, seeds, build, fal, deployed, static, rows>>
        /\ m = [phase |-> "rows", view |-> rows, left |-> rows]
    BY <1>9, <2>1 DEF MigrateBegin
  <2>3. /\ m.view = rows /\ m.left = rows
        /\ m = [phase |-> "rows", view |-> m.view, left |-> m.left]
    BY <2>2
  <2>4. GoodMigration(m, rows, Len(fal))
    BY <1>0, <2>3 DEF ServerShape, GoodMigration
  <2> QED
    BY <1>0, <1>1, <2>1, <2>2, <2>4 DEF ServerShape
<1>10. CASE MigrateRows \/ MigrateWritten
  <2>1. UNCHANGED <<script, pos, used, out, seeds, build, fal, deployed, rows>>
    BY <1>10 DEF MigrateRows, MigrateWritten
  <2>2. GoodMigration(mig', rows, Len(fal)) /\ StaticShape(static')
    BY <1>0, <1>10, MigrateRowShape, WrittenShape DEF MigrateRows
  <2> QED
    BY <1>0, <1>1, <2>1, <2>2 DEF ServerShape, StaticShape
<1>11. CASE MigrateCommit
  <2>1. /\ UNCHANGED <<script, pos, used, out, seeds, build, fal, deployed, static>>
        /\ rows' = mig.view /\ mig' = Idle /\ mig # Idle
    BY <1>11 DEF MigrateCommit, Idle
  <2>2. GoodTable(mig.view, Len(fal))
    BY <1>0, <2>1 DEF ServerShape, GoodMigration
  <2> QED
    BY <1>0, <1>1, <2>1, <2>2 DEF ServerShape, GoodMigration
<1>12. CASE MigrateCrash
  <2>1. /\ UNCHANGED <<script, pos, used, out, seeds, build, fal, deployed, static, rows>>
        /\ mig' = Idle
    BY <1>12 DEF MigrateCrash
  <2> QED
    BY <1>0, <1>1, <2>1 DEF ServerShape, GoodMigration
<1>13. CASE Finished
  BY <1>0, <1>1, <1>2, <1>3, <1>13 DEF Finished, vars, server
<1> QED
  BY <1>4, <1>5, <1>6, <1>7, <1>8, <1>9, <1>10, <1>11, <1>12, <1>13 DEF Next

LEMMA InitShape ==
  ASSUME Init
  PROVE  Shape
<1>1. /\ script = "none" /\ pos = 1 /\ used = {} /\ out = NoRows /\ seeds = NoRows
      /\ build = <<>> /\ fal = <<>> /\ deployed = seeds /\ static = <<>> /\ rows = {}
      /\ mig = Idle /\ task = "none" /\ step = 1 /\ ahead \in Programmes /\ crashes = 0
  BY DEF Init, ScriptInit
<1>2. PICK empty : empty = <<>>
  OBVIOUS
<1>3. IsFile(empty) /\ Len(empty) = 0 /\ DOMAIN empty = {} /\ Mapping(empty)
  BY <1>2, EmptyFile DEF Mapping
<1>4. GoodFiles(NoRows, 0)
  BY NoRowsShape
<1>5. ScriptShape
  BY <1>1, <1>2, <1>3, <1>4 DEF ScriptShape, GoodDirectory
<1>6. ServerShape
  BY <1>1, <1>2, <1>3, <1>4 DEF ServerShape, GoodDirectory, GoodTable, GoodMigration
<1>7. IsFile(ahead) /\ \A i \in 1..Len(ahead) : ahead[i] \in Tasks
  <2>1. ahead \in Seq(Tasks)
    BY <1>1, ProgrammesAssumption
  <2> QED
    BY <2>1 DEF IsFile
<1>8. OrderShape
  BY <1>1, <1>7, CrashesAssumption DEF OrderShape
<1> QED
  BY <1>5, <1>6, <1>8 DEF Shape

\* The rows, files and directories of every state have the shape given above, a
\* script or a migration runs only at its command, and a URL names at most one row.
THEOREM ShapeHolds == Spec => []Shape
<1>1. ASSUME Shape, Next
      PROVE  Shape'
  BY <1>1, OrderStep, ServerStep DEF Shape
<1>2. ASSUME Shape, UNCHANGED vars
      PROVE  Shape'
  BY <1>2 DEF Shape, ScriptShape, ServerShape, OrderShape, vars
<1> QED
  BY <1>1, <1>2, InitShape, PTL DEF Spec

\* CatalogTypeOK (run catalog): what the tables, the files and the scripts hold; the
\* importers' genres and categories are the database's, and audio_url stays unique.
THEOREM TypeCorrect == Spec => []CatalogTypeOK
<1>1. ASSUME Shape
      PROVE  CatalogTypeOK
  <2>1. ScriptShape /\ ServerShape /\ OrderShape
    BY <1>1 DEF Shape
  <2>2. DOMAIN Runbook = Tasks \cup {"none"}
    BY DEF Runbook, Tasks
  <2>3. ToSet(ahead) \subseteq DOMAIN Runbook
    BY <2>1, <2>2, FileDomain DEF OrderShape, ToSet
  <2>4. ASSUME NEW r \in rows
        PROVE  /\ IF r.kind = "beat" THEN r.group \in BeatGenre ELSE r.group \in SampleCategory
               /\ IF r.url.host = "fal" THEN r.url.n \in DOMAIN fal
                  ELSE r.url.kind = r.kind /\ r.url.group = r.group
               /\ r.sort_order \in Nat \ {0} /\ r.sound \in Sounds
               /\ \A o \in rows : o.kind = r.kind /\ o.url = r.url => o = r
    <3>1. GoodRow(r, Len(fal)) /\ \A o \in rows : SameKey(r, o) => o = r
      BY <2>1 DEF ServerShape, GoodTable
    <3>2. DOMAIN fal = 1..Len(fal)
      BY <2>1, FileDomain DEF ScriptShape
    <3>3. CASE r.url = Fal(r.url.n) /\ r.url.n \in 1..Len(fal)
      <4>1. r.url.host = "fal"
        BY <3>3, FalFields
      <4> QED
        BY <3>1, <3>2, <3>3, <4>1 DEF GoodRow, Kinds, SameKey
    <3>4. CASE r.url = Local(r.kind, r.group, r.url.n)
      <4>1. r.url.host = "local" /\ r.url.kind = r.kind /\ r.url.group = r.group
        BY <3>4, LocalFields
      <4> QED
        BY <3>1, <4>1 DEF GoodRow, Kinds, SameKey
    <3> QED
      BY <3>1, <3>3, <3>4 DEF GoodRow
  <2>5. ASSUME NEW f \in DOMAIN static
        PROVE  f.host = "local" /\ static[f].sound \in Sounds
    BY <2>1, LocalFields DEF ServerShape, GoodDirectory
  <2>6. mig.phase \in {"idle", "rows", "writing"}
    BY <2>1 DEF ServerShape, GoodMigration, Idle
  <2> QED
    BY <2>1, <2>2, <2>3, <2>4, <2>5, <2>6 DEF ScriptShape, OrderShape, CatalogTypeOK
<1> QED
  BY <1>1, ShapeHolds, PTL

-----------------------------------------------------------------------------
(* The order of the tasks. *)

\* Task t is under way or to come.
Coming(t) == \E i \in 1..Len(ahead) : ahead[i] = t
Pending(t) == task = t \/ Coming(t)

LEMMA BeginFacts ==
  ASSUME OrderShape, Begin
  PROVE  \E t \in 1..Len(ahead) :
           /\ task' = ahead[t] /\ step' = 1 /\ task' \in Tasks
           /\ Len(ahead) \in Nat /\ IsFile(ahead') /\ Len(ahead') = Len(ahead) - t
           /\ \A i \in 1..Len(ahead') : t + i \in 1..Len(ahead) /\ ahead'[i] = ahead[t + i]
<1>1. PICK t \in DOMAIN ahead : /\ task' = ahead[t] /\ step' = 1
                                /\ ahead' = SubSeq(ahead, t + 1, Len(ahead))
  BY DEF Begin
<1>2. IsFile(ahead) /\ \A i \in 1..Len(ahead) : ahead[i] \in Tasks
  BY DEF OrderShape
<1>3. t \in 1..Len(ahead) /\ Len(ahead) \in Nat
  BY <1>2, FileDomain
<1>4. /\ IsFile(ahead') /\ Len(ahead') = Len(ahead) - t
      /\ \A i \in 1..Len(ahead') : ahead'[i] = ahead[t + i]
  <2>1. PICK later : later = ahead'
    OBVIOUS
  <2>2. /\ IsFile(later) /\ Len(later) = Len(ahead) - t
        /\ \A i \in 1..Len(later) : later[i] = ahead[t + i]
    BY ZenonT(30), <1>1, <1>2, <1>3, <2>1, SubFile
  <2> QED
    BY <2>1, <2>2
<1>5. ASSUME NEW i \in 1..Len(ahead')
      PROVE  t + i \in 1..Len(ahead)
  <2>1. PICK m \in Nat : m = Len(ahead)
    BY <1>3
  <2>2. t \in 1..m /\ i \in 1..(m - t)
    BY <1>3, <1>4, <2>1
  <2>3. t + i \in 1..m
    BY <2>2
  <2> QED
    BY <2>1, <2>3
<1>6. task' \in Tasks
  BY <1>1, <1>2, <1>3
<1> QED
  BY <1>1, <1>3, <1>4, <1>5, <1>6

\* A step begins a task or goes on with the one under way.
GoesOn == task' = task /\ ahead' = ahead /\ step' \in {step, step + 1}

LEMMA TaskMoves ==
  ASSUME Next
  PROVE  Begin \/ GoesOn
<1>1. CASE RunScript
  BY <1>1 DEF RunScript, Done, Stay, GoesOn
<1>2. CASE \/ Push \/ Scp \/ Rm \/ Wipe \/ RewriteFiles \/ \E c \in DOMAIN Loaded : Reseed(c)
  BY <1>2 DEF Push, Scp, Rm, Wipe, RewriteFiles, Reseed, Done, GoesOn
<1>3. CASE MigrateRows \/ MigrateWritten
  BY <1>3, MigrationMoves DEF MigrateRows, Done, Stay, GoesOn
<1>4. CASE MigrateBegin \/ MigrateCommit \/ MigrateCrash
  BY <1>4 DEF MigrateBegin, MigrateCommit, MigrateCrash, Done, Stay, GoesOn
<1>5. CASE Finished
  BY <1>5 DEF Finished, vars, GoesOn
<1> QED
  BY <1>1, <1>2, <1>3, <1>4, <1>5 DEF Next

LEMMA LessIsPending ==
  ASSUME OrderShape, Next, NEW t
  PROVE  /\ Coming(t)' => Coming(t)
         /\ Pending(t)' => Pending(t)
         /\ Begin /\ Pending(t)' => Coming(t)
<1>1. CASE Begin
  <2>1. PICK b \in 1..Len(ahead) :
          /\ task' = ahead[b] /\ IsFile(ahead')
          /\ \A i \in 1..Len(ahead') : b + i \in 1..Len(ahead) /\ ahead'[i] = ahead[b + i]
    BY <1>1, BeginFacts
  <2>2. Coming(t)' => Coming(t)
    BY <2>1 DEF Coming
  <2>3. task' = t => Coming(t)
    BY <2>1 DEF Coming
  <2> QED
    BY <2>2, <2>3 DEF Pending
<1>2. CASE ~Begin
  <2>1. task' = task /\ ahead' = ahead
    BY <1>2, TaskMoves DEF GoesOn
  <2> QED
    BY <1>2, <2>1 DEF Coming, Pending
<1> QED
  BY <1>1, <1>2

LEMMA OnTrackStep ==
  ASSUME OrderShape, OnTrack, Next
  PROVE  OnTrack'
<1>1. CASE Begin
  <2>1. PICK b \in 1..Len(ahead) :
          /\ task' = ahead[b] /\ Len(ahead) \in Nat /\ Len(ahead') = Len(ahead) - b
          /\ \A i \in 1..Len(ahead') : b + i \in 1..Len(ahead) /\ ahead'[i] = ahead[b + i]
    BY <1>1, BeginFacts
  <2>2. ASSUME NEW i \in 1..Len(ahead')
        PROVE  Follows(task', ahead'[i])
    <3>1. PICK j \in 1..Len(ahead) : j = b + i /\ ahead'[i] = ahead[j]
      BY <2>1
    <3>2. b < j
      BY <3>1
    <3>3. Follows(ahead[b], ahead[j])
      BY <3>1, <3>2 DEF OnTrack
    <3> QED
      BY <2>1, <3>1, <3>3
  <2>3. ASSUME NEW i \in 1..Len(ahead'), NEW j \in 1..Len(ahead'), i < j
        PROVE  Follows(ahead'[i], ahead'[j])
    <3>1. PICK x \in 1..Len(ahead), y \in 1..Len(ahead) :
            x = b + i /\ y = b + j /\ ahead'[i] = ahead[x] /\ ahead'[j] = ahead[y]
      BY <2>1
    <3>2. x < y
      BY <2>3, <3>1
    <3>3. Follows(ahead[x], ahead[y])
      BY <3>2 DEF OnTrack
    <3> QED
      BY <3>1, <3>3
  <2> QED
    BY <2>2, <2>3 DEF OnTrack, Follows
<1>2. CASE ~Begin
  <2>1. task' = task /\ ahead' = ahead
    BY <1>2, TaskMoves DEF GoesOn
  <2> QED
    BY <2>1 DEF OnTrack, Follows
<1> QED
  BY <1>1, <1>2

\* The tasks come in the order of a programme: what is still to come follows the
\* task under way in one of them.
THEOREM OnTrackHolds == Spec => []OnTrack
<1>1. ASSUME Init
      PROVE  OnTrack
  <2>1. task = "none" /\ ahead \in Programmes /\ ahead \in Seq(Tasks)
    BY <1>1, ProgrammesAssumption DEF Init
  <2>2. DOMAIN ahead = 1..Len(ahead)
    BY <2>1
  <2> QED
    BY <2>1, <2>2 DEF OnTrack, Follows
<1>2. ASSUME Shape, OnTrack, [Next]_vars
      PROVE  OnTrack'
  <2>1. CASE Next
    BY <1>2, <2>1, OnTrackStep DEF Shape
  <2>2. CASE UNCHANGED vars
    BY <1>2, <2>2 DEF vars, OnTrack, Follows
  <2> QED
    BY <1>2, <2>1, <2>2
<1> QED
  BY <1>1, <1>2, ShapeHolds, PTL DEF Spec

\* A task that no programme has after the one under way is not to come.
LEMMA NotAfter ==
  ASSUME OnTrack, NEW a \in Tasks, NEW b, task = a, ~Follows(a, b)
  PROVE  ~Coming(b)
<1>1. a # "none"
  BY DEF Tasks
<1> QED
  BY <1>1 DEF OnTrack, Coming

-----------------------------------------------------------------------------
(* What the scripts gather, and the seed files they leave. *)

\* The slot a row of a draft was gathered for.
Source(s, r) ==
  /\ s.kind = r.kind /\ s.group = r.group
  /\ s.order # Dense => r.sort_order = s.order
  /\ r.kind = "beat" /\ r.url.host = "local" => r.url.n = s.file

Differ(a, b) == a.sound # b.sound /\ a.url # b.url

Apart(file) == \A i, j \in 1..Len(file) : i # j => Differ(file[i], file[j])

NumberedApart(file) ==
  \A i, j \in 1..Len(file) :
    i # j /\ file[i].group = file[j].group => file[i].sort_order # file[j].sort_order

\* The samples of a category are numbered from 1 on.
Filled(file) ==
  \A i \in 1..Len(file) :
    file[i].group \notin UNTAGGED_CATEGORIES
    => file[i].sort_order <= Cardinality(Counted(file, file[i]))

OneEach(file) == \A i, j \in 1..Len(file) : i # j => file[i].group # file[j].group

\* The sound of a row is in a directory of the developer's machine.
Builds(r, directory) == r.url \in DOMAIN directory /\ directory[r.url] = r.sound

\* What script s has put into a file of rows before slot p.
Drawn(r, s, p, taken, directory) ==
  /\ Loads(r) /\ r.sound \in taken
  /\ \E q \in 1..Len(Plan[s]) : q < p /\ Source(Plan[s][q], r)
  /\ IF s = "seed_content" THEN r.url.host = "fal"
                           ELSE r.url.host = "local" /\ Builds(r, directory)

Draft(file, s, p, taken, directory) ==
  Apart(file) /\ \A i \in 1..Len(file) : Drawn(file[i], s, p, taken, directory)

Drafted ==
  script # "none" =>
    /\ \A k \in Kinds : Draft(out[k], script, pos, used, build)
    /\ NumberedApart(out["sample"]) /\ Filled(out["sample"])
    /\ script = "seed_content" => OneEach(out["beat"])
    /\ script = "seed_samples_3x" =>
         \A i \in 1..Len(out["sample"]) : out["sample"][i].url = LocalUrl(out["sample"][i])

Kept ==
  /\ \A k \in Kinds : \A i \in 1..Len(seeds[k]) : Loads(seeds[k][i])
  /\ \A k \in Kinds : \A i, j \in 1..Len(seeds[k]) : i # j => seeds[k][i].sound # seeds[k][j].sound
  /\ NumberedApart(seeds["sample"]) /\ Apart(seeds["sample"])

BeatsApart ==
  /\ Apart(seeds["beat"])
  /\ Pending("local") => OneEach(seeds["beat"])

LEMMA SplitIndex ==
  ASSUME NEW m \in Nat, NEW n \in Nat, NEW i \in 1..(m + n)
  PROVE  i \in 1..m \/ \E j \in 1..n : i = m + j
<1>1. CASE i <= m
  BY <1>1
<1>2. CASE ~(i <= m)
  <2>1. i - m \in 1..n /\ i = m + (i - m)
    BY <1>2
  <2> QED
    BY <2>1
<1> QED
  BY <1>1, <1>2

\* rs is old with n more rows.
Longer(rs, old, n) ==
  /\ IsFile(rs) /\ IsFile(old) /\ n \in Nat /\ Len(rs) = Len(old) + n
  /\ \A i \in 1..Len(old) : rs[i] = old[i]

LEMMA CountedGrows ==
  ASSUME NEW rs, NEW old, NEW n, Longer(rs, old, n), NEW r, r.kind # "beat"
  PROVE  /\ Cardinality(Counted(old, r)) \in Nat /\ Cardinality(Counted(rs, r)) \in Nat
         /\ Cardinality(Counted(old, r)) <= Cardinality(Counted(rs, r))
         /\ (\A i \in 1..n : rs[Len(old) + i].group = r.group)
            => Cardinality(Counted(rs, r)) = Cardinality(Counted(old, r)) + n
<1>1. PICK m \in Nat : m = Len(old)
  BY DEF Longer, IsFile
<1>2. n \in Nat /\ DOMAIN old = 1..m /\ DOMAIN rs = 1..(m + n) /\ \A i \in 1..m : rs[i] = old[i]
  BY <1>1, FileDomain DEF Longer
<1>3. PICK before, after : before = Counted(old, r) /\ after = Counted(rs, r)
  OBVIOUS
<1>4. before = {i \in 1..m : old[i].group = r.group}
  BY <1>2, <1>3 DEF Counted
<1>5. after = {i \in 1..(m + n) : rs[i].group = r.group}
  BY <1>2, <1>3 DEF Counted
<1>6. before \subseteq after
  <2>1. 1..m \subseteq 1..(m + n)
    BY <1>2
  <2> QED
    BY <1>2, <1>4, <1>5, <2>1
<1>7. IsFiniteSet(after) /\ IsFiniteSet(before) /\ IsFiniteSet(1..(m + n))
  <2>1. m + n \in Int
    BY <1>2
  <2>2. IsFiniteSet(1..(m + n))
    BY <2>1, FS_Interval
  <2> QED
    BY <1>5, <1>6, <2>2, FS_Subset
<1>8. Cardinality(before) \in Nat /\ Cardinality(after) \in Nat
      /\ Cardinality(before) <= Cardinality(after)
  BY <1>6, <1>7, FS_Subset, FS_CardinalityType
<1>9. ASSUME \A i \in 1..n : rs[m + i].group = r.group
      PROVE  Cardinality(after) = Cardinality(before) + n
  <2>1. PICK more : more = (m + 1)..(m + n)
    OBVIOUS
  <2>2. IsFiniteSet(more) /\ Cardinality(more) = n
    <3>1. PICK a \in Int, b \in Int : a = m + 1 /\ b = m + n
      BY <1>2
    <3>2. IsFiniteSet(a..b) /\ Cardinality(a..b) = IF a > b THEN 0 ELSE b - a + 1
      BY FS_Interval
    <3>3. (IF a > b THEN 0 ELSE b - a + 1) = n
      BY <1>2, <3>1
    <3> QED
      BY <2>1, <3>1, <3>2, <3>3
  <2>3. more \subseteq after
    <3>1. ASSUME NEW i \in more
          PROVE  i \in after
      <4>1. i \in 1..(m + n) /\ i - m \in 1..n /\ m + (i - m) = i
        BY <1>2, <2>1
      <4>2. rs[m + (i - m)].group = r.group
        BY <1>9, <4>1
      <4> QED
        BY <1>5, <4>1, <4>2
    <3> QED
      BY <3>1
  <2>4. after = before \cup more
    <3>1. ASSUME NEW i \in after
          PROVE  i \in before \cup more
      <4>1. i \in 1..(m + n) /\ rs[i].group = r.group
        BY <1>5
      <4>2. i \in 1..m \/ i \in more
        BY <1>2, <2>1, <4>1
      <4> QED
        BY <1>2, <1>4, <4>1, <4>2
    <3> QED
      BY <1>6, <2>3, <3>1
  <2>5. before \cap more = {}
    BY <1>2, <1>4, <2>1
  <2>6. /\ Cardinality(before \cup more)
             = Cardinality(before) + Cardinality(more) - Cardinality(before \cap more)
        /\ Cardinality({}) = 0
    BY <1>7, <2>2, FS_Union, FS_EmptySet
  <2>7. PICK x \in Nat, y \in Nat : x = Cardinality(before) /\ y = Cardinality(after)
    BY <1>8
  <2>8. y = x + n - 0
    BY <2>2, <2>4, <2>5, <2>6, <2>7
  <2>9. y = x + n
    BY <1>2, <2>7, <2>8
  <2> QED
    BY <2>7, <2>9
<1> QED
  BY <1>1, <1>3, <1>8, <1>9

\* The rows gained for slot s are numbered from "first" on.
NewNumbers(rs, old, n, s, first) ==
  /\ s.kind = "sample" /\ Numbers(s) /\ first = NextOrder(old, s)
  /\ \A i \in 1..Len(rs) : rs[i].kind = "sample" /\ rs[i].sort_order \in Nat
  /\ \A i \in 1..n : /\ rs[Len(old) + i].group = s.group
                     /\ rs[Len(old) + i].sort_order = first + i - 1
  /\ \/ s.order = Dense /\ s.group \notin UNTAGGED_CATEGORIES
     \/ /\ s.order # Dense /\ s.group \in UNTAGGED_CATEGORIES /\ n <= 1
        /\ \A j \in 1..Len(old) : old[j].group = s.group => old[j].sort_order # s.order

LEMMA NumbersGrow ==
  ASSUME NEW rs, NEW old, NEW n, Longer(rs, old, n), NEW s, NEW first,
         NewNumbers(rs, old, n, s, first), NumberedApart(old), Filled(old)
  PROVE  NumberedApart(rs) /\ Filled(rs)
<1>0. /\ s.kind = "sample" /\ Numbers(s) /\ first = NextOrder(old, s)
      /\ \A i \in 1..Len(rs) : rs[i].kind = "sample" /\ rs[i].sort_order \in Nat
      /\ \A i \in 1..n : /\ rs[Len(old) + i].group = s.group
                         /\ rs[Len(old) + i].sort_order = first + i - 1
      /\ \/ s.order = Dense /\ s.group \notin UNTAGGED_CATEGORIES
         \/ /\ s.order # Dense /\ s.group \in UNTAGGED_CATEGORIES /\ n <= 1
            /\ \A j \in 1..Len(old) : old[j].group = s.group => old[j].sort_order # s.order
  BY DEF NewNumbers
<1>1. PICK m \in Nat : m = Len(old)
  BY DEF Longer, IsFile
<1>2. n \in Nat /\ Len(rs) = m + n /\ \A i \in 1..m : rs[i] = old[i]
  BY <1>1 DEF Longer
<1>3. PICK c : c = Cardinality(Counted(old, s))
  OBVIOUS
<1>4. c \in Nat /\ Cardinality(Counted(rs, s)) = c + n
  BY <1>0, <1>1, <1>3, CountedGrows
<1>5. first \in Nat /\ (s.order = Dense => first = c + 1) /\ (s.order # Dense => first = s.order)
  BY <1>0, <1>3, <1>4 DEF NextOrder, Numbers
<1>6. \A i \in 1..n : rs[m + i].group = s.group /\ rs[m + i].sort_order = first + i - 1
  BY <1>0, <1>1
<1>7. 1..m \subseteq 1..(m + n) /\ \A i \in 1..n : m + i \in 1..(m + n)
  BY <1>2
<1>8. \A i \in 1..m : old[i].kind = "sample" /\ old[i].sort_order \in Nat
  BY <1>0, <1>2, <1>7
<1>9. ASSUME NEW i \in 1..m, old[i].group = s.group, s.group \notin UNTAGGED_CATEGORIES
      PROVE  old[i].sort_order <= c
  <2>1. old[i].sort_order <= Cardinality(Counted(old, old[i]))
    BY <1>1, <1>9 DEF Filled
  <2>2. Counted(old, old[i]) = Counted(old, s)
    BY <1>0, <1>8, <1>9 DEF Counted
  <2> QED
    BY <1>3, <2>1, <2>2
<1>10. ASSUME NEW i \in 1..m, NEW j \in 1..n, old[i].group = s.group
       PROVE  old[i].sort_order # rs[m + j].sort_order
  <2>1. rs[m + j].sort_order = first + j - 1 /\ old[i].sort_order \in Nat
    BY <1>6, <1>8
  <2>2. CASE s.order = Dense /\ s.group \notin UNTAGGED_CATEGORIES
    <3>1. old[i].sort_order <= c
      BY <1>9, <1>10, <2>2
    <3>2. rs[m + j].sort_order > c
      BY <1>2, <1>4, <1>5, <2>1, <2>2
    <3> QED
      BY <1>4, <2>1, <3>1, <3>2
  <2>3. CASE s.order # Dense
    <3>1. n <= 1 /\ old[i].sort_order # s.order
      BY <1>0, <1>1, <1>10, <2>3
    <3>2. j = 1
      BY <1>2, <3>1
    <3> QED
      BY <1>5, <2>1, <2>3, <3>1, <3>2
  <2> QED
    BY <1>0, <2>2, <2>3
<1>11. NumberedApart(rs)
  <2>1. ASSUME NEW i \in 1..(m + n), NEW j \in 1..(m + n), i # j, rs[i].group = rs[j].group
        PROVE  rs[i].sort_order # rs[j].sort_order
    <3>1. CASE i \in 1..m /\ j \in 1..m
      BY <1>1, <1>2, <2>1, <3>1 DEF NumberedApart
    <3>2. ASSUME i \in 1..m, NEW b \in 1..n, j = m + b
          PROVE  rs[i].sort_order # rs[j].sort_order
      BY <1>2, <1>6, <1>10, <2>1, <3>2
    <3>3. ASSUME j \in 1..m, NEW a \in 1..n, i = m + a
          PROVE  rs[i].sort_order # rs[j].sort_order
      BY <1>2, <1>6, <1>10, <2>1, <3>3
    <3>4. ASSUME NEW a \in 1..n, i = m + a, NEW b \in 1..n, j = m + b
          PROVE  rs[i].sort_order # rs[j].sort_order
      <4>1. a # b
        BY <2>1, <3>4
      <4>2. rs[i].sort_order = first + a - 1 /\ rs[j].sort_order = first + b - 1
        BY <1>6, <3>4
      <4> QED
        BY <1>2, <1>5, <4>1, <4>2
    <3> QED
      BY <1>2, <3>1, <3>2, <3>3, <3>4, SplitIndex
  <2> QED
    BY <1>2, <2>1 DEF NumberedApart
<1>12. Filled(rs)
  <2>1. ASSUME NEW i \in 1..(m + n), rs[i].group \notin UNTAGGED_CATEGORIES
        PROVE  rs[i].sort_order <= Cardinality(Counted(rs, rs[i]))
    <3>1. rs[i].kind = "sample" /\ rs[i].sort_order \in Nat
      BY <1>0, <1>2
    <3>2. CASE i \in 1..m
      <4>1. rs[i] = old[i] /\ old[i].sort_order <= Cardinality(Counted(old, old[i]))
        BY <1>1, <1>2, <2>1, <3>2 DEF Filled
      <4>2. /\ Cardinality(Counted(old, old[i])) \in Nat /\ Cardinality(Counted(rs, old[i])) \in Nat
            /\ Cardinality(Counted(old, old[i])) <= Cardinality(Counted(rs, old[i]))
        BY <3>1, <4>1, CountedGrows
      <4> QED
        BY <3>1, <4>1, <4>2
    <3>3. ASSUME NEW j \in 1..n, i = m + j
          PROVE  rs[i].sort_order <= Cardinality(Counted(rs, rs[i]))
      <4>1. rs[i].group = s.group /\ rs[i].sort_order = first + j - 1
        BY <1>6, <3>3
      <4>2. Counted(rs, rs[i]) = Counted(rs, s)
        BY <1>0, <3>1, <4>1 DEF Counted
      <4>3. s.order = Dense
        BY <1>0, <2>1, <4>1
      <4> QED
        BY <1>2, <1>4, <1>5, <4>1, <4>2, <4>3
    <3> QED
      BY <1>2, <3>2, <3>3, SplitIndex
  <2> QED
    BY <1>2, <2>1 DEF Filled
<1> QED
  BY <1>11, <1>12

\* The URLs of the rows gained: the n rows after the first m of rs, for slot s.
FreshUrls(rs, m, n, s, scr, directory) ==
  \A i \in 1..n :
    /\ \A j \in 1..m : rs[m + i].url # rs[j].url
    /\ \A j \in 1..n : i # j => rs[m + i].url # rs[m + j].url
    /\ s.kind = "beat" /\ rs[m + i].url.host = "local" => rs[m + i].url.n = s.file
    /\ IF scr = "seed_content" THEN rs[m + i].url.host = "fal"
                               ELSE rs[m + i].url.host = "local" /\ Builds(rs[m + i], directory)

LEMMA DrawnLater ==
  ASSUME NEW r, NEW s, NEW p \in Nat, NEW taken, NEW directory, Drawn(r, s, p, taken, directory),
         NEW p2 \in Nat, p2 >= p, NEW more, taken \subseteq more, NEW later,
         Builds(r, directory) => Builds(r, later), Len(Plan[s]) \in Nat
  PROVE  Drawn(r, s, p2, more, later)
<1>1. PICK q \in 1..Len(Plan[s]) : q < p /\ Source(Plan[s][q], r)
  BY DEF Drawn
<1>2. q < p2
  BY <1>1
<1> QED
  BY <1>1, <1>2 DEF Drawn

LEMMA ApartGrows ==
  ASSUME NEW m \in Nat, NEW n \in Nat, NEW rs, Len(rs) = m + n,
         \A i, j \in 1..m : i # j => Differ(rs[i], rs[j]),
         \A i \in 1..n : \A j \in 1..m : Differ(rs[m + i], rs[j]),
         \A i, j \in 1..n : i # j => Differ(rs[m + i], rs[m + j])
  PROVE  Apart(rs)
<1>1. \A a, b : Differ(a, b) => Differ(b, a)
  BY DEF Differ
<1>2. ASSUME NEW i \in 1..(m + n), NEW j \in 1..(m + n), i # j
      PROVE  Differ(rs[i], rs[j])
  <2>1. CASE i \in 1..m /\ j \in 1..m
    BY <1>2, <2>1
  <2>2. ASSUME i \in 1..m, NEW b \in 1..n, j = m + b
        PROVE  Differ(rs[i], rs[j])
    BY <1>1, <2>2
  <2>3. ASSUME j \in 1..m, NEW a \in 1..n, i = m + a
        PROVE  Differ(rs[i], rs[j])
    BY <2>3
  <2>4. ASSUME NEW a \in 1..n, i = m + a, NEW b \in 1..n, j = m + b
        PROVE  Differ(rs[i], rs[j])
    <3>1. a # b
      BY <1>2, <2>4
    <3> QED
      BY <2>4, <3>1
  <2>5. i \in 1..m \/ \E a \in 1..n : i = m + a
    BY SplitIndex
  <2>6. j \in 1..m \/ \E b \in 1..n : j = m + b
    BY SplitIndex
  <2> QED
    BY <2>1, <2>2, <2>3, <2>4, <2>5, <2>6
<1> QED
  BY <1>2 DEF Apart

LEMMA GainDraft ==
  ASSUME ScriptShape, AtSlot, Drafted, script' = script, MoveOn(script, pos),
         NEW n, NEW kept, NEW first, Gain(n, kept, first), n <= 1 \/ slot.order = Dense,
         NEW rs, rs = out'[slot.kind], NEW m, m = Len(out[slot.kind]),
         FreshUrls(rs, m, n, slot, script, build'),
         \A c \in Kinds : \A i \in 1..Len(out[c]) : Builds(out[c][i], build) => Builds(out[c][i], build')
  PROVE  /\ \A c \in Kinds : Draft(out'[c], script, pos', used', build')
         /\ Longer(rs, out[slot.kind], n)
         /\ \A i \in 1..n : rs[m + i].group = slot.group /\ rs[m + i].sort_order = first + i - 1
         /\ out' = [c \in Kinds |-> IF c = slot.kind THEN rs ELSE out[c]]
<1>1. /\ script \in Scripts /\ pos \in 1..Len(Plan[script]) /\ slot = Plan[script][pos]
      /\ Loads(slot) /\ Numbers(slot)
  BY SlotSound
<1>2. PICK k \in Kinds : k = slot.kind
  BY <1>1 DEF Loads
<1>3. PICK old : old = out[k]
  OBVIOUS
<1>4. /\ \A c \in Kinds : GoodFile(out[c], c, Len(fal))
      /\ \A c \in Kinds : Draft(out[c], script, pos, used, build)
  BY <1>1 DEF ScriptShape, GoodFiles, Drafted, AtSlot
<1>5. IsFile(old) /\ m \in Nat /\ m = Len(old)
  BY <1>2, <1>3, <1>4 DEF GoodFile, IsFile
<1>6. /\ n \in Nat /\ IsFile(rs) /\ Len(rs) = m + n /\ first = NextOrder(old, slot)
      /\ \A i \in 1..m : rs[i] = old[i]
      /\ \A i \in 1..n : rs[m + i] = SeedRow(slot, first + i - 1, rs[m + i].url, kept[i])
      /\ out' = [c \in Kinds |-> IF c = k THEN rs ELSE out[c]]
      /\ \A i \in 1..n : kept[i] \in Sounds \ used /\ kept[i] \in used'
      /\ \A i, j \in 1..n : i # j => kept[i] # kept[j]
      /\ used \subseteq used'
  BY <1>2, <1>3, <1>5 DEF Gain
<1>7. first \in Nat \ {0}
  BY <1>1, <1>5, <1>6, OrderSound
<1>8. ASSUME NEW i \in 1..n
      PROVE  /\ rs[m + i].kind = k /\ rs[m + i].group = slot.group /\ rs[m + i].tags = slot.tags
             /\ rs[m + i].sort_order = first + i - 1 /\ rs[m + i].sound = kept[i]
  <2>1. rs[m + i] = SeedRow(slot, first + i - 1, rs[m + i].url, kept[i])
    BY <1>6
  <2> QED
    BY <1>2, <2>1, SeedRowFields
<1>9. Longer(rs, old, n)
  BY <1>5, <1>6 DEF Longer
<1>10. pos \in Nat /\ pos' \in Nat /\ pos' > pos /\ Len(Plan[script]) \in Nat
  BY <1>1, MovesOn, PlansSound DEF ScriptShape, PlanSlots
<1>11. ASSUME NEW i \in 1..n
       PROVE  Drawn(rs[m + i], script, pos', used', build')
  <2>1. PICK r : r = rs[m + i]
    OBVIOUS
  <2>2. /\ r.kind = k /\ r.group = slot.group /\ r.tags = slot.tags
        /\ r.sort_order = first + i - 1 /\ r.sound = kept[i]
    BY <1>8, <2>1
  <2>3. Loads(r)
    BY <1>1, <1>2, <2>2 DEF Loads
  <2>4. r.sound \in used'
    BY <1>6, <2>2
  <2>5. slot.order # Dense => r.sort_order = slot.order
    <3>1. ASSUME slot.order # Dense
          PROVE  r.sort_order = slot.order
      <4>1. first = slot.order
        BY <1>6, <3>1 DEF NextOrder
      <4>2. i = 1
        BY <1>6, <3>1
      <4> QED
        BY <1>7, <2>2, <4>1, <4>2
    <3> QED
      BY <3>1
  <2>6. /\ slot.kind = "beat" /\ r.url.host = "local" => r.url.n = slot.file
        /\ IF script = "seed_content" THEN r.url.host = "fal"
                                      ELSE r.url.host = "local" /\ Builds(r, build')
    BY <2>1 DEF FreshUrls
  <2>7. Source(slot, r)
    BY <1>2, <2>2, <2>5, <2>6 DEF Source
  <2>8. \E q \in 1..Len(Plan[script]) : q < pos' /\ Source(Plan[script][q], r)
    BY <1>1, <1>10, <2>7
  <2> QED
    BY <2>1, <2>3, <2>4, <2>6, <2>8 DEF Drawn
<1>12. ASSUME NEW c \in Kinds, NEW i \in 1..Len(out[c])
       PROVE  Drawn(out[c][i], script, pos', used', build')
  <2>1. Drawn(out[c][i], script, pos, used, build)
    BY <1>4 DEF Draft
  <2>2. Builds(out[c][i], build) => Builds(out[c][i], build')
    OBVIOUS
  <2>3. pos' >= pos
    BY <1>10
  <2> QED
    BY <1>6, <1>10, <2>1, <2>2, <2>3, DrawnLater
<1>13. Apart(rs)
  <2>1. \A i, j \in 1..m : i # j => Differ(rs[i], rs[j])
    BY <1>3, <1>4, <1>5, <1>6 DEF Draft, Apart
  <2>2. ASSUME NEW i \in 1..n, NEW j \in 1..m
        PROVE  Differ(rs[m + i], rs[j])
    <3>1. rs[j].sound \in used
      BY <1>3, <1>4, <1>5, <1>6 DEF Draft, Drawn
    <3>2. rs[m + i].sound \notin used
      BY <1>6, <1>8
    <3>3. rs[m + i].url # rs[j].url
      BY DEF FreshUrls
    <3> QED
      BY <3>1, <3>2, <3>3 DEF Differ
  <2>3. ASSUME NEW i \in 1..n, NEW j \in 1..n, i # j
        PROVE  Differ(rs[m + i], rs[m + j])
    <3>1. rs[m + i].sound # rs[m + j].sound
      <4>1. rs[m + i].sound = kept[i] /\ rs[m + j].sound = kept[j]
        BY <1>8
      <4>2. kept[i] # kept[j]
        BY <1>6, <2>3
      <4> QED
        BY <4>1, <4>2
    <3>2. rs[m + i].url # rs[m + j].url
      BY <2>3 DEF FreshUrls
    <3> QED
      BY <3>1, <3>2 DEF Differ
  <2> QED
    BY <1>5, <1>6, <2>1, <2>2, <2>3, ApartGrows
<1>14. Draft(rs, script, pos', used', build')
  <2>1. ASSUME NEW i \in 1..(m + n)
        PROVE  Drawn(rs[i], script, pos', used', build')
    <3>1. CASE i \in 1..m
      BY <1>2, <1>3, <1>5, <1>6, <1>12, <3>1
    <3> QED
      BY <1>5, <1>6, <1>11, <3>1, SplitIndex
  <2> QED
    BY <1>6, <1>13, <2>1 DEF Draft
<1>15. ASSUME NEW c \in Kinds
       PROVE  Draft(out'[c], script, pos', used', build')
  <2>1. CASE c = k
    BY <1>6, <1>14, <2>1
  <2>2. CASE c # k
    <3>1. out'[c] = out[c]
      BY <1>6, <2>2
    <3>2. Apart(out[c])
      BY <1>4 DEF Draft
    <3> QED
      BY <1>12, <3>1, <3>2 DEF Draft
  <2> QED
    BY <2>1, <2>2
<1> QED
  BY <1>2, <1>3, <1>6, <1>8, <1>9, <1>15

\* What a gain of rows says of the file they are added to.
Gained(n, kept, first, rs, m) ==
  /\ slot.kind \in Kinds /\ m \in Nat /\ n \in Nat /\ first \in Nat \ {0}
  /\ Longer(rs, out[slot.kind], n) /\ first = NextOrder(out[slot.kind], slot)
  /\ \A i \in 1..n : /\ rs[m + i].kind = slot.kind /\ rs[m + i].group = slot.group
                     /\ rs[m + i].sort_order = first + i - 1
                     /\ rs[m + i].sound = kept[i]
  /\ \A i \in 1..m : rs[i] = out[slot.kind][i] /\ GoodRow(rs[i], Len(fal)) /\ rs[i].kind = slot.kind
  /\ out' = [c \in Kinds |-> IF c = slot.kind THEN rs ELSE out[c]]

LEMMA GainRows ==
  ASSUME ScriptShape, AtSlot, NEW n, NEW kept, NEW first, Gain(n, kept, first),
         NEW rs, rs = out'[slot.kind], NEW m, m = Len(out[slot.kind])
  PROVE  Gained(n, kept, first, rs, m)
<1>1. Loads(slot) /\ Numbers(slot)
  BY SlotSound
<1>2. PICK k \in Kinds : k = slot.kind
  BY <1>1 DEF Loads
<1>3. PICK old : old = out[k]
  OBVIOUS
<1>4. GoodFile(old, k, Len(fal))
  BY <1>3 DEF ScriptShape, GoodFiles
<1>5. IsFile(old) /\ m \in Nat /\ m = Len(old)
  BY <1>2, <1>3, <1>4 DEF GoodFile, IsFile
<1>6. /\ n \in Nat /\ IsFile(rs) /\ Len(rs) = m + n /\ first = NextOrder(old, slot)
      /\ \A i \in 1..m : rs[i] = old[i]
      /\ \A i \in 1..n : rs[m + i] = SeedRow(slot, first + i - 1, rs[m + i].url, kept[i])
      /\ out' = [c \in Kinds |-> IF c = k THEN rs ELSE out[c]]
  BY <1>2, <1>3, <1>5 DEF Gain
<1>7. first \in Nat \ {0}
  BY <1>1, <1>5, <1>6, OrderSound
<1>8. ASSUME NEW i \in 1..n
      PROVE  /\ rs[m + i].kind = k /\ rs[m + i].group = slot.group
             /\ rs[m + i].sort_order = first + i - 1 /\ rs[m + i].sound = kept[i]
  <2>1. rs[m + i] = SeedRow(slot, first + i - 1, rs[m + i].url, kept[i])
    BY <1>6
  <2> QED
    BY <1>2, <2>1, SeedRowFields
<1>9. Longer(rs, old, n)
  BY <1>5, <1>6 DEF Longer
<1>10. \A i \in 1..m : rs[i] = old[i] /\ GoodRow(rs[i], Len(fal)) /\ rs[i].kind = k
  BY <1>4, <1>5, <1>6 DEF GoodFile
<1> QED
  BY <1>2, <1>3, <1>5, <1>6, <1>7, <1>8, <1>9, <1>10 DEF Gained

LEMMA GainNumbers ==
  ASSUME ScriptShape, AtSlot, Drafted, NEW n, NEW kept, NEW first, Gain(n, kept, first),
         slot.kind = "sample", SampleOrders(Plan[script]), OrdersOnce(Plan[script]),
         n <= 1 \/ slot.order = Dense, NEW rs, rs = out'["sample"]
  PROVE  NumberedApart(rs) /\ Filled(rs)
<1>1. PICK m : m = Len(out["sample"])
  OBVIOUS
<1>2. PICK old : old = out["sample"]
  OBVIOUS
<1>3. /\ m \in Nat /\ n \in Nat /\ first \in Nat \ {0}
      /\ Longer(rs, old, n) /\ first = NextOrder(old, slot)
      /\ \A i \in 1..n : /\ rs[m + i].kind = "sample" /\ rs[m + i].group = slot.group
                         /\ rs[m + i].sort_order = first + i - 1
      /\ \A i \in 1..m : GoodRow(rs[i], Len(fal)) /\ rs[i].kind = "sample"
  <2>1. Gained(n, kept, first, rs, m)
    BY <1>1, GainRows
  <2> QED
    BY <1>2, <2>1 DEF Gained
<1>4. /\ script \in Scripts /\ pos \in 1..Len(Plan[script]) /\ slot = Plan[script][pos]
      /\ Numbers(slot) /\ PlanSlots(Plan[script])
  BY SlotSound, PlansSound
<1>5. "sample" \in Kinds /\ script # "none"
  BY DEF Kinds, AtSlot
<1>6. NumberedApart(old) /\ Filled(old) /\ Draft(old, script, pos, used, build)
  BY <1>2, <1>5 DEF Drafted
<1>7. Len(rs) = m + n
  BY <1>1, <1>2, <1>3 DEF Longer
<1>8. ASSUME NEW i \in 1..Len(rs)
      PROVE  rs[i].kind = "sample" /\ rs[i].sort_order \in Nat
  <2>1. CASE i \in 1..m
    BY <1>3, <2>1 DEF GoodRow
  <2>2. ASSUME NEW j \in 1..n, i = m + j
        PROVE  rs[i].kind = "sample" /\ rs[i].sort_order \in Nat
    <3>1. first + j - 1 \in Nat
      BY <1>3
    <3> QED
      BY <1>3, <2>2, <3>1
  <2> QED
    BY <1>3, <1>7, <2>1, <2>2, SplitIndex
<1>9. \/ slot.order = Dense /\ slot.group \notin UNTAGGED_CATEGORIES
      \/ slot.order # Dense /\ slot.group \in UNTAGGED_CATEGORIES
  BY <1>4 DEF SampleOrders, PlanSlots
<1>10. ASSUME slot.order # Dense, NEW j \in 1..Len(old), old[j].group = slot.group
       PROVE  old[j].sort_order # slot.order
  <2>1. PICK q \in 1..Len(Plan[script]) : q < pos /\ Source(Plan[script][q], old[j])
    BY <1>6 DEF Draft, Drawn
  <2>2. old[j].kind = "sample"
    BY <1>1, <1>2, <1>3 DEF Longer
  <2>3. q # pos /\ q \in DOMAIN Plan[script] /\ pos \in DOMAIN Plan[script]
    BY <1>4, <2>1 DEF PlanSlots
  <2>4. Plan[script][q].kind = "sample" /\ Plan[script][q].group = slot.group
    BY <1>10, <2>1, <2>2 DEF Source
  <2>5. Plan[script][pos].order # Plan[script][q].order
    BY <1>4, <1>10, <2>3, <2>4 DEF OrdersOnce
  <2>6. Plan[script][q].order # Dense
    BY <1>9, <1>10, <2>3, <2>4 DEF SampleOrders
  <2> QED
    BY <1>4, <2>1, <2>5, <2>6 DEF Source
<1>11. \/ slot.order = Dense /\ slot.group \notin UNTAGGED_CATEGORIES
       \/ /\ slot.order # Dense /\ slot.group \in UNTAGGED_CATEGORIES /\ n <= 1
          /\ \A j \in 1..Len(old) : old[j].group = slot.group => old[j].sort_order # slot.order
  BY <1>9, <1>10
<1>12. NewNumbers(rs, old, n, slot, first)
  BY <1>1, <1>2, <1>3, <1>4, <1>8, <1>11 DEF NewNumbers
<1> QED
  BY <1>3, <1>6, <1>12, NumbersGrow

LEMMA ContentPlanRows ==
  ASSUME script = "seed_content"
  PROVE  SampleOrders(Plan[script]) /\ OrdersOnce(Plan[script]) /\ OneBeatAGenre(Plan[script])
BY TablesSound DEF Plan

LEMMA UploadDraft ==
  ASSUME ScriptShape, Drafted, fetch_and_upload
  PROVE  Drafted'
<1>1. PICK n, kept, first : UploadGain(n, kept, first)
  BY UploadGains
<1>2. /\ script = "seed_content" /\ AtSlot /\ MoveOn(script, pos) /\ script' = script
      /\ Gain(n, kept, first) /\ build' = build /\ n \in {0, 1} /\ Len(fal) \in Nat
      /\ n = 1 => out'[slot.kind][Len(out[slot.kind]) + 1].url = Fal(Len(fal) + 1)
  BY <1>1 DEF UploadGain, Searched, ScriptShape, IsFile
<1>3. PICK rs, m : rs = out'[slot.kind] /\ m = Len(out[slot.kind])
  OBVIOUS
<1>0. Gained(n, kept, first, rs, m)
  BY <1>2, <1>3, GainRows
<1>4. PICK k \in Kinds : k = slot.kind
  BY <1>0 DEF Gained
<1>04. PICK old : old = out[k]
  OBVIOUS
<1>5. /\ m \in Nat /\ n \in Nat /\ Longer(rs, old, n) /\ m = Len(old)
      /\ \A i \in 1..n : rs[m + i].kind = k /\ rs[m + i].group = slot.group
      /\ \A i \in 1..m : rs[i] = old[i] /\ GoodRow(rs[i], Len(fal)) /\ rs[i].kind = k
      /\ out' = [c \in Kinds |-> IF c = k THEN rs ELSE out[c]]
  BY <1>0, <1>3, <1>4, <1>04 DEF Gained
<1>6. FreshUrls(rs, m, n, slot, script, build')
  <2>1. ASSUME NEW i \in 1..n
        PROVE  i = 1 /\ n = 1 /\ rs[m + i].url = Fal(Len(fal) + 1)
    BY <1>2, <1>3
  <2>2. ASSUME NEW i \in 1..n, NEW j \in 1..m
        PROVE  rs[m + i].url # rs[j].url
    <3>1. rs[m + i].url.host = "fal" /\ rs[m + i].url.n = Len(fal) + 1
      BY <2>1, FalFields
    <3>2. \/ rs[j].url = Fal(rs[j].url.n) /\ rs[j].url.n \in 1..Len(fal)
          \/ rs[j].url = Local(rs[j].kind, rs[j].group, rs[j].url.n)
      BY <1>5 DEF GoodRow
    <3>3. rs[j].url.n \in 1..Len(fal) \/ rs[j].url.host = "local"
      BY <3>2, LocalFields
    <3> QED
      BY <1>2, <3>1, <3>3
  <2>3. \A i \in 1..n : rs[m + i].url.host = "fal"
    BY <2>1, FalFields
  <2>4. \A i, j \in 1..n : i = j
    BY <2>1
  <2> QED
    BY <1>2, <2>2, <2>3, <2>4 DEF FreshUrls
<1>7. n <= 1
  BY <1>2
<1>8. \A c \in Kinds : Draft(out'[c], script, pos', used', build')
  BY <1>2, <1>3, <1>6, <1>7, GainDraft
<1>9. SampleOrders(Plan[script]) /\ OrdersOnce(Plan[script]) /\ OneBeatAGenre(Plan[script])
  BY <1>2, ContentPlanRows
<1>10. "beat" \in Kinds /\ "sample" \in Kinds /\ k \in {"beat", "sample"}
  BY DEF Kinds
<1>11. NumberedApart(out'["sample"]) /\ Filled(out'["sample"])
  <2>1. CASE k = "sample"
    BY <1>2, <1>4, <1>7, <1>9, <2>1, GainNumbers
  <2>2. CASE k # "sample"
    <3>1. out'["sample"] = out["sample"]
      BY <1>5, <1>10, <2>2
    <3> QED
      BY <1>2, <3>1 DEF Drafted
  <2> QED
    BY <2>1, <2>2
<1>12. OneEach(out'["beat"])
  <2>1. CASE k = "beat"
    <3>1. ASSUME NEW i \in 1..m
          PROVE  rs[i].group # slot.group
      <4>1. Draft(old, script, pos, used, build)
        BY <1>2, <1>04 DEF Drafted
      <4>2. PICK q \in 1..Len(Plan[script]) : q < pos /\ Source(Plan[script][q], rs[i])
        BY <1>5, <4>1 DEF Draft, Drawn
      <4>3. /\ pos \in 1..Len(Plan[script]) /\ slot = Plan[script][pos]
            /\ DOMAIN Plan[script] = 1..Len(Plan[script])
        BY <1>2, SlotSound, PlansSound DEF PlanSlots
      <4>4. q # pos /\ Plan[script][q].kind = "beat" /\ Plan[script][q].group = rs[i].group
        BY <1>5, <2>1, <4>2, <4>3 DEF Source
      <4> QED
        BY <1>4, <1>9, <2>1, <4>2, <4>3, <4>4 DEF OneBeatAGenre
    <3>2. OneEach(old)
      BY <1>2, <1>04, <2>1 DEF Drafted
    <3>3. ASSUME NEW i \in 1..(m + n), NEW j \in 1..(m + n), i # j
          PROVE  rs[i].group # rs[j].group
      <4>1. CASE i \in 1..m /\ j \in 1..m
        BY <1>5, <3>2, <3>3, <4>1 DEF OneEach
      <4>2. ASSUME i \in 1..m, NEW b \in 1..n, j = m + b
            PROVE  rs[i].group # rs[j].group
        BY <1>5, <3>1, <4>2
      <4>3. ASSUME j \in 1..m, NEW a \in 1..n, i = m + a
            PROVE  rs[i].group # rs[j].group
        BY <1>5, <3>1, <4>3
      <4>4. ASSUME NEW a \in 1..n, i = m + a, NEW b \in 1..n, j = m + b
            PROVE  FALSE
        BY <1>2, <3>3, <4>4
      <4>5. i \in 1..m \/ \E a \in 1..n : i = m + a
        BY <1>5, SplitIndex
      <4>6. j \in 1..m \/ \E b \in 1..n : j = m + b
        BY <1>5, SplitIndex
      <4> QED
        BY <4>1, <4>2, <4>3, <4>4, <4>5, <4>6
    <3>4. Len(rs) = m + n /\ out'["beat"] = rs
      BY <1>3, <1>4, <1>5, <2>1 DEF Longer
    <3> QED
      BY <3>3, <3>4 DEF OneEach
  <2>2. CASE k # "beat"
    <3>1. out'["beat"] = out["beat"]
      BY <1>5, <1>10, <2>2
    <3> QED
      BY <1>2, <3>1 DEF Drafted
  <2> QED
    BY <2>1, <2>2
<1> QED
  BY <1>2, <1>8, <1>11, <1>12 DEF Drafted

\* A directory keeps the sounds of the rows drawn before.
LEMMA OldFilesKept ==
  ASSUME ScriptShape, NEW n, NEW kept, NEW first, NEW names, FilesGain(n, kept, first, names),
         NEW r, Builds(r, build), \A i \in 1..n : names[i] # r.url
  PROVE  Builds(r, build')
BY DEF FilesGain, Builds

LEMMA OtherKind ==
  ASSUME NEW r, NEW uploads, GoodRow(r, uploads), NEW k, r.kind # k, NEW g, NEW n
  PROVE  r.url # Local(k, g, n)
<1>1. PICK u : u = Local(k, g, n)
  OBVIOUS
<1>2. u.host = "local" /\ u.kind = k
  BY <1>1, LocalFields
<1>3. r.url.host = "fal" \/ r.url.kind = r.kind
  <2>1. r.url = Fal(r.url.n) \/ r.url = Local(r.kind, r.group, r.url.n)
    BY DEF GoodRow
  <2> QED
    BY <2>1, FalFields, LocalFields
<1> QED
  BY <1>1, <1>2, <1>3

LEMMA FilesDraft ==
  ASSUME ScriptShape, Drafted, AtSlot, script' = script, MoveOn(script, pos), script # "seed_content",
         NEW n, NEW kept, NEW first, NEW names, FilesGain(n, kept, first, names),
         n <= 1 \/ slot.order = Dense, NEW rs, rs = out'[slot.kind], NEW m, m = Len(out[slot.kind]),
         \A i \in 1..n : /\ names[i] = Local(slot.kind, slot.group, names[i].n)
                         /\ slot.kind = "beat" => names[i].n = slot.file
                         /\ \A j \in 1..m : names[i] # rs[j].url
                         /\ \A j \in 1..n : i # j => names[i] # names[j]
  PROVE  \A c \in Kinds : Draft(out'[c], script, pos', used', build')
<1>1. Gain(n, kept, first)
  BY DEF FilesGain
<1>2. Gained(n, kept, first, rs, m)
  BY <1>1, GainRows
<1>3. /\ slot.kind \in Kinds /\ m \in Nat /\ n \in Nat
      /\ \A i \in 1..n : rs[m + i].sound = kept[i]
      /\ \A i \in 1..m : rs[i] = out[slot.kind][i]
  BY <1>2 DEF Gained
<1>4. /\ \A i \in 1..n : rs[m + i].url = names[i]
      /\ DOMAIN build' = DOMAIN build \cup {names[i] : i \in 1..n}
      /\ \A i \in 1..n : build'[names[i]] = kept[i]
  BY DEF FilesGain
<1>5. ASSUME NEW i \in 1..n
      PROVE  rs[m + i].url.host = "local" /\ Builds(rs[m + i], build')
  <2>1. names[i].host = "local"
    BY LocalFields
  <2>2. names[i] \in DOMAIN build' /\ build'[names[i]] = kept[i]
    BY <1>4
  <2>3. rs[m + i].url = names[i] /\ rs[m + i].sound = kept[i]
    BY <1>3, <1>4
  <2> QED
    BY <2>1, <2>2, <2>3 DEF Builds
<1>6. FreshUrls(rs, m, n, slot, script, build')
  BY <1>4, <1>5 DEF FreshUrls
<1>7. ASSUME NEW c \in Kinds, NEW i \in 1..Len(out[c]), Builds(out[c][i], build)
      PROVE  Builds(out[c][i], build')
  <2>1. CASE c = slot.kind
    BY SMTT(30), <1>3, <1>7, <2>1, OldFilesKept
  <2>2. CASE c # slot.kind
    <3>1. GoodRow(out[c][i], Len(fal)) /\ out[c][i].kind = c
      BY DEF ScriptShape, GoodFiles, GoodFile
    <3>2. \A j \in 1..n : names[j] # out[c][i].url
      BY <2>2, <3>1, OtherKind
    <3> QED
      BY <1>7, <3>2, OldFilesKept
  <2> QED
    BY <2>1, <2>2
<1> QED
  BY <1>1, <1>6, <1>7, GainDraft

LEMMA SampleDraft ==
  ASSUME ScriptShape, Drafted, FetchSamples
  PROVE  Drafted'
<1>1. script = "seed_samples_3x"
  BY SampleGains
<1>2. PICK n, kept, first :
        /\ n <= slot.want /\ first = NextOrder(out["sample"], slot)
        /\ FilesGain(n, kept, first, [i \in 1..n |-> Local("sample", slot.group, first + i - 1)])
  BY SampleGains
<1>3. PICK names : names = [i \in 1..n |-> Local("sample", slot.group, first + i - 1)]
  OBVIOUS
<1>4. FilesGain(n, kept, first, names)
  BY <1>2, <1>3
<1>5. AtSlot /\ MoveOn(script, pos) /\ script' = script /\ Gain(n, kept, first)
  BY <1>4 DEF FilesGain, Searched
<1>6. /\ Plan[script] = SamplesPlan /\ SampleOrders(Plan[script]) /\ OrdersOnce(Plan[script])
      /\ \A i \in DOMAIN SamplesPlan : SamplesPlan[i].kind = "sample"
  BY <1>1, TablesSound DEF Plan
<1>7. /\ pos \in 1..Len(Plan[script]) /\ slot = Plan[script][pos] /\ PlanSlots(Plan[script])
      /\ Numbers(slot)
  BY <1>5, SlotSound, PlansSound
<1>8. slot.kind = "sample" /\ pos \in DOMAIN Plan[script]
  BY <1>6, <1>7 DEF PlanSlots
<1>9. n <= 1 \/ slot.order = Dense
  BY <1>2, <1>6, <1>7, <1>8 DEF SampleOrders
<1>10. PICK rs, m : rs = out'["sample"] /\ m = Len(out["sample"])
  OBVIOUS
<1>11. Gained(n, kept, first, rs, m)
  BY <1>5, <1>8, <1>10, GainRows
<1>12. /\ m \in Nat /\ n \in Nat /\ first \in Nat
       /\ \A i \in 1..n : /\ rs[m + i].kind = "sample" /\ rs[m + i].group = slot.group
                          /\ rs[m + i].sort_order = first + i - 1
       /\ \A i \in 1..m : rs[i] = out["sample"][i] /\ rs[i].kind = "sample"
       /\ out' = [c \in Kinds |-> IF c = "sample" THEN rs ELSE out[c]]
       /\ Len(rs) = m + n
  BY <1>8, <1>10, <1>11 DEF Gained, Longer
<1>13. NumberedApart(rs) /\ Filled(rs)
  BY <1>5, <1>6, <1>8, <1>9, <1>10, GainNumbers
<1>14. \A i \in 1..m : rs[i].url = LocalUrl(rs[i])
  BY <1>1, <1>10, <1>12 DEF Drafted
<1>15. ASSUME NEW i \in 1..n
       PROVE  rs[m + i].url = LocalUrl(rs[m + i]) /\ names[i] = LocalUrl(rs[m + i])
  <2>1. rs[m + i].url = names[i]
    BY <1>4, <1>8, <1>10 DEF FilesGain
  <2>2. names[i] = LocalUrl(rs[m + i])
    BY <1>3, <1>12 DEF LocalUrl
  <2> QED
    BY <2>1, <2>2
<1>16. ASSUME NEW i \in 1..(m + n), NEW j \in 1..(m + n), i # j,
              rs[i].kind = "sample", rs[j].kind = "sample"
       PROVE  LocalUrl(rs[i]) # LocalUrl(rs[j])
  <2>1. rs[i].group # rs[j].group \/ rs[i].sort_order # rs[j].sort_order
    BY <1>12, <1>13, <1>16 DEF NumberedApart
  <2>2. /\ LocalUrl(rs[i]).group = rs[i].group /\ LocalUrl(rs[i]).n = rs[i].sort_order
        /\ LocalUrl(rs[j]).group = rs[j].group /\ LocalUrl(rs[j]).n = rs[j].sort_order
    BY <1>16, LocalFields DEF LocalUrl
  <2> QED
    BY <2>1, <2>2
<1>17. ASSUME NEW i \in 1..n
       PROVE  /\ names[i] = Local(slot.kind, slot.group, names[i].n)
              /\ slot.kind = "beat" => names[i].n = slot.file
              /\ \A j \in 1..m : names[i] # rs[j].url
              /\ \A j \in 1..n : i # j => names[i] # names[j]
  <2>1. names[i] = Local(slot.kind, slot.group, first + i - 1)
    BY <1>3, <1>8
  <2>2. names[i] = Local(slot.kind, slot.group, names[i].n)
    BY <2>1, LocalFields
  <2>3. m + i \in 1..(m + n) /\ 1..m \subseteq 1..(m + n)
    BY <1>12
  <2>4. ASSUME NEW j \in 1..m
        PROVE  names[i] # rs[j].url
    <3>1. m + i # j
      BY <1>12
    <3> QED
      BY <1>12, <1>14, <1>15, <1>16, <2>3, <3>1
  <2>5. ASSUME NEW j \in 1..n, i # j
        PROVE  names[i] # names[j]
    <3>1. m + i # m + j /\ m + j \in 1..(m + n)
      BY <1>12, <2>5
    <3> QED
      BY SMTT(30), <1>12, <1>15, <1>16, <2>3, <3>1
  <2> QED
    BY <1>8, <2>2, <2>4, <2>5
<1>18. \A c \in Kinds : Draft(out'[c], script, pos', used', build')
  BY <1>1, <1>4, <1>5, <1>8, <1>9, <1>10, <1>17, FilesDraft
<1>19. ASSUME NEW i \in 1..Len(rs)
       PROVE  rs[i].url = LocalUrl(rs[i])
  <2>1. i \in 1..m \/ \E j \in 1..n : i = m + j
    BY <1>12, SplitIndex
  <2> QED
    BY <1>14, <1>15, <2>1
<1> QED
  BY <1>1, <1>5, <1>10, <1>13, <1>18, <1>19 DEF Drafted

LEMMA BeatDraft ==
  ASSUME ScriptShape, Drafted, FetchBeat
  PROVE  Drafted'
<1>1. script = "seed_beats_3x"
  BY BeatGains
<1>2. PICK n, kept, first :
        /\ n <= 1
        /\ FilesGain(n, kept, first, [i \in 1..n |-> Local("beat", slot.group, slot.file)])
  BY BeatGains
<1>3. PICK names : names = [i \in 1..n |-> Local("beat", slot.group, slot.file)]
  OBVIOUS
<1>4. FilesGain(n, kept, first, names)
  BY <1>2, <1>3
<1>5. AtSlot /\ MoveOn(script, pos) /\ script' = script /\ Gain(n, kept, first)
  BY <1>4 DEF FilesGain, Searched
<1>6. Plan[script] = BeatsPlan /\ BeatFiles(Plan[script])
  BY <1>1, TablesSound DEF Plan
<1>7. /\ pos \in 1..Len(Plan[script]) /\ slot = Plan[script][pos] /\ PlanSlots(Plan[script])
  BY <1>5, SlotSound, PlansSound
<1>8. slot.kind = "beat" /\ pos \in DOMAIN Plan[script]
  BY <1>6, <1>7 DEF PlanSlots, BeatFiles
<1>9. PICK rs, m : rs = out'["beat"] /\ m = Len(out["beat"])
  OBVIOUS
<1>10. Gained(n, kept, first, rs, m)
  BY <1>5, <1>8, <1>9, GainRows
<1>11. /\ m \in Nat /\ n \in Nat
       /\ \A i \in 1..m : rs[i] = out["beat"][i] /\ rs[i].kind = "beat" /\ GoodRow(rs[i], Len(fal))
       /\ out' = [c \in Kinds |-> IF c = "beat" THEN rs ELSE out[c]]
  BY <1>8, <1>9, <1>10 DEF Gained
<1>12. "beat" \in Kinds /\ "sample" \in Kinds
  BY DEF Kinds
<1>13. ASSUME NEW i \in 1..n, NEW j \in 1..m
       PROVE  names[i] # rs[j].url
  <2>1. Draft(out["beat"], script, pos, used, build)
    BY <1>1, <1>12 DEF Drafted
  <2>2. Drawn(rs[j], script, pos, used, build)
    BY <1>9, <1>11, <2>1 DEF Draft
  <2>3. PICK q \in 1..Len(Plan[script]) : q < pos /\ Source(Plan[script][q], rs[j])
    BY <2>2 DEF Drawn
  <2>4. rs[j].url.host = "local"
    BY <1>1, <2>2 DEF Drawn
  <2>5. rs[j].group = Plan[script][q].group /\ rs[j].url.n = Plan[script][q].file
    BY <1>11, <2>3, <2>4 DEF Source
  <2>6. rs[j].url.group = rs[j].group
    <3>1. rs[j].url = Fal(rs[j].url.n) \/ rs[j].url = Local(rs[j].kind, rs[j].group, rs[j].url.n)
      BY <1>11 DEF GoodRow
    <3>2. rs[j].url = Local(rs[j].kind, rs[j].group, rs[j].url.n)
      BY <2>4, <3>1, FalFields
    <3> QED
      BY <3>2, LocalFields
  <2>7. q # pos /\ q \in DOMAIN Plan[script]
    BY <1>7, <2>3 DEF PlanSlots
  <2>8. slot.group # Plan[script][q].group \/ slot.file # Plan[script][q].file
    BY <1>6, <1>7, <1>8, <2>7 DEF BeatFiles
  <2>9. names[i].group = slot.group /\ names[i].n = slot.file
    BY <1>3, LocalFields
  <2> QED
    BY <2>5, <2>6, <2>8, <2>9
<1>14. ASSUME NEW i \in 1..n
       PROVE  /\ names[i] = Local(slot.kind, slot.group, names[i].n)
              /\ slot.kind = "beat" => names[i].n = slot.file
              /\ \A j \in 1..m : names[i] # rs[j].url
              /\ \A j \in 1..n : i # j => names[i] # names[j]
  <2>1. names[i] = Local(slot.kind, slot.group, slot.file)
    BY <1>3, <1>8
  <2>2. names[i] = Local(slot.kind, slot.group, names[i].n) /\ names[i].n = slot.file
    BY <2>1, LocalFields
  <2>3. \A j \in 1..n : i = j
    BY <1>2, <1>11
  <2> QED
    BY <1>13, <2>2, <2>3
<1>15. \A c \in Kinds : Draft(out'[c], script, pos', used', build')
  BY <1>1, <1>2, <1>4, <1>5, <1>8, <1>9, <1>14, FilesDraft
<1>16. out'["sample"] = out["sample"]
  BY <1>11, <1>12
<1> QED
  BY <1>1, <1>5, <1>15, <1>16 DEF Drafted

\* What a step does to the scripts.
LEMMA ScriptChanges ==
  ASSUME Next
  PROVE  \/ ScriptStep
         \/ \E s \in Scripts : Given(s) /\ StartScript(s)
         \/ Abort
         \/ RewriteFiles
         \/ UNCHANGED scriptVars
<1>1. CASE RunScript
  BY <1>1 DEF RunScript
<1>2. CASE Begin \/ Finished
  BY <1>2 DEF Begin, Finished, vars, scriptVars
<1>3. CASE Push \/ Scp \/ Rm \/ Wipe
  BY <1>3 DEF Push, Scp, Rm, Wipe, scriptVars
<1>4. CASE \E c \in DOMAIN Loaded : Reseed(c)
  BY <1>4 DEF Reseed, scriptVars
<1>5. CASE MigrateBegin \/ MigrateRows \/ MigrateWritten \/ MigrateCommit \/ MigrateCrash
  BY <1>5 DEF MigrateBegin, MigrateRows, MigrateWritten, MigrateCommit, MigrateCrash, scriptVars
<1> QED
  BY <1>1, <1>2, <1>3, <1>4, <1>5 DEF Next

LEMMA NoDraft ==
  ASSUME NEW s, NEW p, NEW taken, NEW directory, NEW k \in Kinds
  PROVE  /\ Draft(NoRows[k], s, p, taken, directory) /\ NumberedApart(NoRows[k])
         /\ Filled(NoRows[k]) /\ OneEach(NoRows[k]) /\ Len(NoRows[k]) = 0
<1>1. PICK empty : empty = NoRows[k]
  OBVIOUS
<1>2. Len(empty) = 0
  BY <1>1, EmptyFile DEF NoRows
<1>3. \A i \in 1..Len(empty) : FALSE
  BY <1>2
<1> QED
  BY <1>1, <1>2, <1>3 DEF Draft, Apart, NumberedApart, Filled, OneEach

LEMMA DraftStep ==
  ASSUME Shape, Drafted, Next
  PROVE  Drafted'
<1>0. ScriptShape /\ "beat" \in Kinds /\ "sample" \in Kinds
  BY DEF Shape, Kinds
<1>1. CASE fetch_and_upload \/ FetchSamples \/ FetchBeat
  BY <1>0, <1>1, UploadDraft, SampleDraft, BeatDraft
<1>2. CASE WriteBeats
  <2>1. CASE script = "seed_content"
    <3>1. /\ script' = script /\ pos' = pos + 1 /\ used' = used /\ out' = out /\ build' = build
      BY <1>2, <2>1 DEF WriteBeats
    <3>2. pos \in Nat /\ Len(Plan[script]) \in Nat /\ script # "none"
      <4>1. script \in Scripts
        BY <2>1 DEF Scripts
      <4> QED
        BY <1>0, <2>1, <4>1, PlansSound DEF ScriptShape, PlanSlots
    <3>3. ASSUME NEW c \in Kinds
          PROVE  Draft(out'[c], script', pos', used', build')
      <4>1. Draft(out[c], script, pos, used, build)
        BY <3>2 DEF Drafted
      <4>2. pos + 1 \in Nat /\ pos + 1 >= pos
        BY <3>2
      <4>3. ASSUME NEW i \in 1..Len(out[c])
            PROVE  Drawn(out[c][i], script, pos + 1, used, build)
        <5>1. Drawn(out[c][i], script, pos, used, build)
          BY <4>1 DEF Draft
        <5> QED
          BY <3>2, <4>2, <5>1, DrawnLater
      <4> QED
        BY <3>1, <4>1, <4>3 DEF Draft
    <3> QED
      BY <2>1, <3>1, <3>2, <3>3 DEF Drafted
  <2>2. CASE script # "seed_content"
    BY <1>2, <2>2 DEF WriteBeats, Ended, Drafted
  <2> QED
    BY <2>1, <2>2
<1>3. CASE WriteSamples \/ Abort
  BY <1>3 DEF WriteSamples, Abort, Ended, Drafted
<1>4. CASE \E s \in Scripts : StartScript(s)
  <2>1. out' = NoRows
    BY <1>4 DEF StartScript
  <2>2. \A i \in 1..Len(out'["sample"]) : FALSE
    BY <1>0, <2>1, NoDraft
  <2> QED
    BY <1>0, <2>1, <2>2, NoDraft DEF Drafted
<1>5. CASE RewriteFiles \/ UNCHANGED scriptVars
  BY <1>5 DEF RewriteFiles, Rewrite, scriptVars, Drafted
<1> QED
  BY <1>1, <1>2, <1>3, <1>4, <1>5, ScriptChanges DEF ScriptStep

\* What a step does to the seed files.
LEMMA SeedChanges ==
  ASSUME Next
  PROVE  seeds' = seeds \/ WriteBeats \/ WriteSamples \/ RewriteFiles
BY ScriptChanges DEF ScriptStep, fetch_and_upload, FetchSamples, FetchBeat, StartScript, Abort,
   scriptVars

LEMMA WrittenBeats ==
  ASSUME Shape, WriteBeats
  PROVE  /\ script # "none" /\ script # "seed_samples_3x" /\ seeds'["beat"] = out["beat"]
         /\ seeds'["sample"] = seeds["sample"] /\ seeds' = [k \in Kinds |-> seeds'[k]]
<1>1. seeds = [k \in Kinds |-> seeds[k]]
  BY DEF Shape, ScriptShape, GoodFiles
<1>2. seeds' = [seeds EXCEPT !["beat"] = out["beat"]] /\ script # "none" /\ script # "seed_samples_3x"
  BY DEF WriteBeats, AtEnd
<1> QED
  BY <1>1, <1>2 DEF Kinds

LEMMA WrittenSamples ==
  ASSUME Shape, WriteSamples
  PROVE  /\ script # "none" /\ script # "seed_beats_3x" /\ seeds'["sample"] = out["sample"]
         /\ seeds'["beat"] = seeds["beat"] /\ seeds' = [k \in Kinds |-> seeds'[k]]
<1>1. seeds = [k \in Kinds |-> seeds[k]]
  BY DEF Shape, ScriptShape, GoodFiles
<1>2. seeds' = [seeds EXCEPT !["sample"] = out["sample"]] /\ script # "none" /\ script # "seed_beats_3x"
  BY DEF WriteSamples, AtEnd
<1> QED
  BY <1>1, <1>2 DEF Kinds

\* A rewritten seed file is the file before, under the local URLs.
Rewritten(new, old) ==
  /\ Len(new) = Len(old)
  /\ \A i \in 1..Len(old) :
       /\ new[i].url = LocalUrl(old[i]) /\ new[i].url = LocalUrl(new[i])
       /\ new[i].kind = old[i].kind /\ new[i].group = old[i].group /\ new[i].tags = old[i].tags
       /\ new[i].title = old[i].title /\ new[i].sort_order = old[i].sort_order
       /\ new[i].sound = old[i].sound

LEMMA RewrittenFiles ==
  ASSUME Shape, RewriteFiles, NEW k \in Kinds
  PROVE  Rewritten(seeds'[k], seeds[k])
<1>1. GoodFile(seeds[k], k, Len(fal)) /\ Rewrite
  BY DEF Shape, ScriptShape, GoodFiles, RewriteFiles
<1>2. IsFile(seeds[k]) /\ \A i \in 1..Len(seeds[k]) : GoodRow(seeds[k][i], Len(fal))
  BY <1>1 DEF GoodFile
<1>3. /\ Len(seeds'[k]) = Len(seeds[k])
      /\ \A i \in 1..Len(seeds[k]) : seeds'[k][i] = RewrittenRow(seeds[k][i])
  BY <1>1, <1>2, RewriteFacts
<1>4. ASSUME NEW i \in 1..Len(seeds[k]), NEW r, r = seeds[k][i], NEW q, q = seeds'[k][i]
      PROVE  /\ q.url = LocalUrl(r) /\ q.url = LocalUrl(q)
             /\ q.kind = r.kind /\ q.group = r.group /\ q.tags = r.tags /\ q.title = r.title
             /\ q.sort_order = r.sort_order /\ q.sound = r.sound
  <2>1. q = RewrittenRow(r) /\ GoodRow(r, Len(fal))
    BY <1>2, <1>3, <1>4
  <2> QED
    BY <2>1, RewrittenRowFacts
<1> QED
  BY <1>3, <1>4 DEF Rewritten

LEMMA RewriteApart ==
  ASSUME NEW new, NEW old, Rewritten(new, old), NEW k \in Kinds,
         \A i \in 1..Len(old) : old[i].kind = k,
         \A i, j \in 1..Len(old) : i # j => old[i].sound # old[j].sound,
         IF k = "beat" THEN OneEach(old) ELSE NumberedApart(old)
  PROVE  Apart(new)
<1>1. ASSUME NEW i \in 1..Len(old), NEW j \in 1..Len(old), i # j
      PROVE  Differ(new[i], new[j])
  <2>1. new[i].sound # new[j].sound
    BY <1>1 DEF Rewritten
  <2>2. new[i].url = LocalUrl(old[i]) /\ new[j].url = LocalUrl(old[j])
    BY DEF Rewritten
  <2>3. /\ LocalUrl(old[i]).group = old[i].group /\ LocalUrl(old[j]).group = old[j].group
        /\ k # "beat" => /\ LocalUrl(old[i]).n = old[i].sort_order
                         /\ LocalUrl(old[j]).n = old[j].sort_order
    BY LocalFields DEF LocalUrl
  <2>4. old[i].group # old[j].group \/ (k # "beat" /\ old[i].sort_order # old[j].sort_order)
    BY <1>1 DEF OneEach, NumberedApart
  <2>5. new[i].url # new[j].url
    BY <2>2, <2>3, <2>4
  <2> QED
    BY <2>1, <2>5 DEF Differ
<1>2. Len(new) = Len(old)
  BY DEF Rewritten
<1> QED
  BY <1>1, <1>2 DEF Apart

LEMMA KeptStep ==
  ASSUME Shape, Drafted, Kept, Next
  PROVE  Kept'
<1>0. "beat" \in Kinds /\ "sample" \in Kinds /\ \A k \in Kinds : k = "beat" \/ k = "sample"
  BY DEF Kinds
<1>1. ASSUME NEW k \in Kinds, script # "none"
      PROVE  /\ \A i \in 1..Len(out[k]) : Loads(out[k][i])
             /\ \A i, j \in 1..Len(out[k]) : i # j => out[k][i].sound # out[k][j].sound
             /\ Apart(out[k])
  <2>1. Draft(out[k], script, pos, used, build)
    BY <1>1 DEF Drafted
  <2> QED
    BY <2>1 DEF Draft, Drawn, Apart, Differ
<1>2. CASE seeds' = seeds
  BY <1>2 DEF Kept
<1>3. CASE WriteBeats
  <2>1. /\ script # "none" /\ seeds'["beat"] = out["beat"] /\ seeds'["sample"] = seeds["sample"]
    BY <1>3, WrittenBeats
  <2>2. ASSUME NEW k \in Kinds
        PROVE  /\ \A i \in 1..Len(seeds'[k]) : Loads(seeds'[k][i])
               /\ \A i, j \in 1..Len(seeds'[k]) : i # j => seeds'[k][i].sound # seeds'[k][j].sound
    <3>1. CASE k = "beat"
      BY <1>1, <2>1, <3>1
    <3>2. CASE k = "sample"
      BY <2>1, <3>2 DEF Kept
    <3> QED
      BY <1>0, <3>1, <3>2
  <2> QED
    BY <2>1, <2>2 DEF Kept
<1>4. CASE WriteSamples
  <2>1. /\ script # "none" /\ seeds'["sample"] = out["sample"] /\ seeds'["beat"] = seeds["beat"]
    BY <1>4, WrittenSamples
  <2>2. ASSUME NEW k \in Kinds
        PROVE  /\ \A i \in 1..Len(seeds'[k]) : Loads(seeds'[k][i])
               /\ \A i, j \in 1..Len(seeds'[k]) : i # j => seeds'[k][i].sound # seeds'[k][j].sound
    <3>1. CASE k = "sample"
      BY <1>1, <2>1, <3>1
    <3>2. CASE k = "beat"
      BY <2>1, <3>2 DEF Kept
    <3> QED
      BY <1>0, <3>1, <3>2
  <2>3. NumberedApart(out["sample"]) /\ Apart(out["sample"])
    BY <1>0, <1>1, <2>1 DEF Drafted
  <2> QED
    BY <2>1, <2>2, <2>3 DEF Kept
<1>5. CASE RewriteFiles
  <2>1. \A k \in Kinds : Rewritten(seeds'[k], seeds[k])
    BY <1>5, RewrittenFiles
  <2>2. ASSUME NEW k \in Kinds
        PROVE  /\ \A i \in 1..Len(seeds'[k]) : Loads(seeds'[k][i])
               /\ \A i, j \in 1..Len(seeds'[k]) : i # j => seeds'[k][i].sound # seeds'[k][j].sound
    BY <2>1 DEF Kept, Rewritten, Loads
  <2>3. NumberedApart(seeds'["sample"])
    BY <1>0, <2>1 DEF Kept, Rewritten, NumberedApart
  <2>4. Apart(seeds'["sample"])
    <3>1. \A i \in 1..Len(seeds["sample"]) : seeds["sample"][i].kind = "sample"
      BY <1>0 DEF Shape, ScriptShape, GoodFiles, GoodFile
    <3>2. /\ \A i, j \in 1..Len(seeds["sample"]) : i # j => seeds["sample"][i].sound # seeds["sample"][j].sound
          /\ NumberedApart(seeds["sample"])
      BY <1>0 DEF Kept
    <3> QED
      BY <1>0, <2>1, <3>1, <3>2, RewriteApart
  <2> QED
    BY <2>2, <2>3, <2>4 DEF Kept
<1> QED
  BY <1>2, <1>3, <1>4, <1>5, SeedChanges

LEMMA BeatsApartStep ==
  ASSUME Shape, OnTrack, Drafted, Kept, BeatsApart, Next, ~Follows("beats_3x", "local")
  PROVE  BeatsApart'
<1>0. "beat" \in Kinds /\ OrderShape /\ (Pending("local")' => Pending("local"))
  BY LessIsPending DEF Kinds, Shape
<1>1. CASE seeds' = seeds
  BY <1>0, <1>1 DEF BeatsApart
<1>2. CASE WriteSamples
  BY <1>0, <1>2, WrittenSamples DEF BeatsApart
<1>3. CASE WriteBeats
  <2>1. /\ script # "none" /\ script # "seed_samples_3x" /\ seeds'["beat"] = out["beat"]
    BY <1>3, WrittenBeats
  <2>2. Apart(out["beat"])
    BY <1>0, <2>1 DEF Drafted, Draft
  <2>3. CASE script = "seed_content"
    BY <2>1, <2>2, <2>3 DEF Drafted, BeatsApart
  <2>4. CASE script = "seed_beats_3x"
    <3>1. task = "beats_3x"
      BY <1>0, <2>4 DEF OrderShape, TaskOf
    <3>2. ~Coming("local")
      BY <3>1, NotAfter DEF Tasks
    <3>3. ~Pending("local")
      BY <3>1, <3>2 DEF Pending
    <3> QED
      BY <1>0, <2>1, <2>2, <3>3 DEF BeatsApart
  <2>5. script \in Scripts
    BY <2>1 DEF Shape, ScriptShape
  <2> QED
    BY <2>1, <2>3, <2>4, <2>5 DEF Scripts
<1>4. CASE RewriteFiles
  <2>1. Pending("local")
    BY <1>0, <1>4, GivenWhere DEF RewriteFiles, Pending
  <2>2. Rewritten(seeds'["beat"], seeds["beat"])
    BY <1>0, <1>4, RewrittenFiles
  <2>3. OneEach(seeds["beat"])
    BY <2>1 DEF BeatsApart
  <2>4. OneEach(seeds'["beat"])
    BY <2>2, <2>3 DEF OneEach, Rewritten
  <2>5. \A i \in 1..Len(seeds["beat"]) : seeds["beat"][i].kind = "beat"
    BY <1>0 DEF Shape, ScriptShape, GoodFiles, GoodFile
  <2>6. \A i, j \in 1..Len(seeds["beat"]) : i # j => seeds["beat"][i].sound # seeds["beat"][j].sound
    BY <1>0 DEF Kept
  <2>7. Apart(seeds'["beat"])
    BY <1>0, <2>2, <2>3, <2>5, <2>6, RewriteApart
  <2> QED
    BY <2>4, <2>7 DEF BeatsApart
<1> QED
  BY <1>1, <1>2, <1>3, <1>4, SeedChanges

LEMMA InitDrafted ==
  ASSUME Init
  PROVE  Drafted /\ Kept /\ BeatsApart
<1>1. script = "none" /\ seeds = NoRows
  BY DEF Init, ScriptInit
<1>2. "beat" \in Kinds /\ "sample" \in Kinds
  BY DEF Kinds
<1>3. ASSUME NEW k \in Kinds
      PROVE  /\ Apart(seeds[k]) /\ NumberedApart(seeds[k]) /\ OneEach(seeds[k])
             /\ \A i \in 1..Len(seeds[k]) : FALSE
  <2>1. /\ Draft(seeds[k], 1, 1, {}, {}) /\ NumberedApart(seeds[k]) /\ OneEach(seeds[k])
        /\ Len(seeds[k]) = 0
    BY <1>1, NoDraft
  <2>2. \A i \in 1..Len(seeds[k]) : FALSE
    BY <2>1
  <2> QED
    BY <2>1, <2>2 DEF Draft
<1>4. Drafted
  BY <1>1 DEF Drafted
<1>5. Kept
  BY <1>2, <1>3 DEF Kept
<1>6. BeatsApart
  BY <1>2, <1>3 DEF BeatsApart
<1> QED
  BY <1>4, <1>5, <1>6

LEMMA DraftsHold == Spec => [](Drafted /\ Kept)
<1>1. ASSUME Shape, Drafted /\ Kept, [Next]_vars
      PROVE  (Drafted /\ Kept)'
  <2>1. CASE Next
    BY <1>1, <2>1, DraftStep, KeptStep
  <2>2. CASE UNCHANGED vars
    BY <1>1, <2>2 DEF vars, Drafted, Kept
  <2> QED
    BY <1>1, <2>1, <2>2
<1> QED
  BY <1>1, InitDrafted, ShapeHolds, PTL DEF Spec

LEMMA ApartHolds == ~Follows("beats_3x", "local") => (Spec => []BeatsApart)
<1>1. ASSUME ~Follows("beats_3x", "local"), Shape, OnTrack, Drafted /\ Kept, BeatsApart, [Next]_vars
      PROVE  BeatsApart'
  <2>1. CASE Next
    BY <1>1, <2>1, BeatsApartStep
  <2>2. CASE UNCHANGED vars
    BY <1>1, <2>2 DEF vars, BeatsApart, Pending, Coming
  <2> QED
    BY <1>1, <2>1, <2>2
<1>2. SUFFICES ASSUME ~Follows("beats_3x", "local")
               PROVE  Spec => []BeatsApart
  OBVIOUS
<1>3. Shape /\ OnTrack /\ Drafted /\ Kept /\ BeatsApart /\ [Next]_vars => BeatsApart'
  BY <1>1, <1>2
<1> QED
  BY <1>3, InitDrafted, ShapeHolds, OnTrackHolds, DraftsHold, PTL DEF Spec

\* SeedFilesSound (run catalog): as long as the seed files are not rewritten to local
\* URLs after seed_beats_3x.py, which gives a genre several beats, the importers accept
\* every row of them and the upsert by audio_url keeps every row.
THEOREM SeedsSound == ~Follows("beats_3x", "local") => (Spec => []SeedFilesSound)
<1>1. SlotsLoad
  <2>1. ASSUME NEW s \in Scripts, NEW i \in DOMAIN Plan[s]
        PROVE  IF Plan[s][i].kind = "beat" THEN parse_beats(<<Plan[s][i]>>)
                                           ELSE parse_samples(<<Plan[s][i]>>)
    <3>1. PICK r : r = Plan[s][i]
      OBVIOUS
    <3>2. Loads(r)
      BY <3>1, PlansSound DEF PlanSlots
    <3>3. DOMAIN <<r>> = {1} /\ <<r>>[1] = r
      OBVIOUS
    <3> QED
      BY <3>1, <3>2, <3>3 DEF Loads, parse_beats, parse_samples, Kinds
  <2> QED
    BY <2>1 DEF SlotsLoad
<1>2. ASSUME Shape, Kept, BeatsApart
      PROVE  SeedFilesSound
  <2>1. "beat" \in Kinds /\ "sample" \in Kinds /\ \A k \in Kinds : k = "beat" \/ k = "sample"
    BY DEF Kinds
  <2>2. \A k \in Kinds : /\ DOMAIN seeds[k] = 1..Len(seeds[k])
                         /\ \A i \in 1..Len(seeds[k]) : seeds[k][i].kind = k
    BY <1>2, FileDomain DEF Shape, ScriptShape, GoodFiles, GoodFile
  <2>3. parse_beats(seeds["beat"])
    BY <1>2, <2>1, <2>2 DEF Kept, Loads, parse_beats
  <2>4. parse_samples(seeds["sample"])
    BY <1>2, <2>1, <2>2 DEF Kept, Loads, parse_samples
  <2>5. \A k \in Kinds : Apart(seeds[k])
    BY <1>2, <2>1 DEF Kept, BeatsApart
  <2>6. SeedRowsDistinct
    BY <2>2, <2>5 DEF SeedRowsDistinct, Apart, Differ
  <2> QED
    BY <1>1, <2>3, <2>4, <2>6 DEF SeedFilesSound, SeedFilesLoad
<1>3. SUFFICES ASSUME ~Follows("beats_3x", "local")
               PROVE  Spec => []SeedFilesSound
  OBVIOUS
<1>4. Spec => []BeatsApart
  BY <1>3, ApartHolds
<1> QED
  BY <1>2, <1>4, ShapeHolds, DraftsHold, PTL

-----------------------------------------------------------------------------
(* The steps of the migration. *)

View == IF mig = Idle THEN {} ELSE mig.view

SoundsKept(new, old) == DOMAIN new = DOMAIN old /\ \A f \in DOMAIN old : new[f].sound = old[f].sound

\* It gives up; it leaves a row as it is; it points one to its local file; it begins
\* to write a file.
GivesUp == mig' = Idle /\ SoundsKept(static', static)

Leaves == mig'.phase = "rows" /\ mig'.view = mig.view /\ SoundsKept(static', static) /\ Stay

Repoints(r) ==
  /\ r \in mig.left /\ r.url.host = "fal" /\ LocalUrl(r) \in DOMAIN static
  /\ mig'.phase = "rows" /\ mig'.view = (mig.view \ {r}) \cup {[r EXCEPT !.url = LocalUrl(r)]}
  /\ SoundsKept(static', static) /\ Stay

Fetches(r) ==
  /\ r \in mig.left /\ r \in rows /\ r.url.host = "fal" /\ LocalUrl(r) \notin DOMAIN static
  /\ mig'.phase = "writing" /\ mig'.view = mig.view /\ mig'.row = r
  /\ DOMAIN static' = DOMAIN static \cup {LocalUrl(r)}
  /\ static'[LocalUrl(r)].sound = fal[r.url.n]
  /\ \A f \in DOMAIN static : static'[f] = static[f]
  /\ Stay

\* A file that is being written is there.
WritingThere == mig.phase = "writing" => LocalUrl(mig.row) \in DOMAIN static

LEMMA PointFacts ==
  ASSUME NEW r, NEW files, Point(r, files), r \in mig.left, r.url.host = "fal",
         LocalUrl(r) \in DOMAIN static, SoundsKept(files, static)
  PROVE  GivesUp \/ Repoints(r)
<1>1. PICK taken \in BOOLEAN :
        /\ static' = files
        /\ mig' = IF taken THEN Idle
                  ELSE [phase |-> "rows", left |-> mig.left \ {r},
                        view |-> (mig.view \ {r}) \cup {[r EXCEPT !.url = LocalUrl(r)]}]
        /\ IF taken THEN Done ELSE Stay
  BY DEF Point
<1>2. CASE taken
  BY <1>1, <1>2 DEF GivesUp
<1>3. CASE ~taken
  <2>1. PICK seen : seen = (mig.view \ {r}) \cup {[r EXCEPT !.url = LocalUrl(r)]}
    OBVIOUS
  <2>2. mig' = [phase |-> "rows", left |-> mig.left \ {r}, view |-> seen] /\ Stay
    BY <1>1, <1>3, <2>1
  <2>3. mig'.phase = "rows" /\ mig'.view = seen
    BY <2>2
  <2> QED
    BY <1>1, <2>1, <2>2, <2>3 DEF Repoints
<1> QED
  BY <1>2, <1>3

LEMMA MigrationFacts ==
  ASSUME Shape, WritingThere, MigrateRows \/ MigrateWritten
  PROVE  /\ mig # Idle /\ mig.phase \in {"rows", "writing"}
         /\ \/ GivesUp \/ Leaves
            \/ \E r : Repoints(r) \/ Fetches(r)
<1>0. SoundsKept(static, static)
  BY DEF SoundsKept
<1>1. mig.phase \in {"rows", "writing"}
  BY DEF MigrateRows, MigrateRow, MigrateAt, MigrateWritten
<1>2. mig # Idle
  BY <1>1 DEF Idle
<1>3. /\ \/ mig = [phase |-> "rows", view |-> mig.view, left |-> mig.left]
         \/ /\ mig = [phase |-> "writing", view |-> mig.view, left |-> mig.left, row |-> mig.row]
            /\ mig.row \in mig.left /\ mig.row.url.host = "fal"
  BY <1>2 DEF Shape, ServerShape, GoodMigration
<1>4. ASSUME NEW r \in rows, MigrateRow(r)
      PROVE  GivesUp \/ Leaves \/ Repoints(r) \/ Fetches(r)
  <2>1. mig.phase = "rows" /\ r \in mig.left
    BY <1>4 DEF MigrateRow, MigrateAt
  <2>2. mig = [phase |-> "rows", view |-> mig.view, left |-> mig.left]
    BY <1>3, <2>1
  <2>3. CASE mig' = [mig EXCEPT !.left = @ \ {r}] /\ UNCHANGED static /\ Stay
    <3>1. mig' = [phase |-> "rows", view |-> mig.view, left |-> mig.left \ {r}]
      BY <2>2, <2>3
    <3>2. mig'.phase = "rows" /\ mig'.view = mig.view
      BY <3>1
    <3> QED
      BY <1>0, <2>3, <3>2 DEF Leaves
  <2>4. CASE r.url.host = "fal" /\ LocalUrl(r) \in DOMAIN static /\ Point(r, static)
    BY <1>0, <2>1, <2>4, PointFacts
  <2>5. CASE /\ r.url.host = "fal" /\ LocalUrl(r) \notin DOMAIN static
             /\ static' = Over([f \in {LocalUrl(r)} |-> [sound |-> fal[r.url.n], whole |-> FALSE]],
                               static)
             /\ mig' = [phase |-> "writing", view |-> mig.view, left |-> mig.left, row |-> r]
             /\ Stay
    <3>1. PICK u : u = LocalUrl(r)
      OBVIOUS
    <3>2. PICK row : row = [sound |-> fal[r.url.n], whole |-> FALSE]
      OBVIOUS
    <3>5. PICK file : file = [f \in {u} |-> row]
      OBVIOUS
    <3>6. static' = Over(file, static)
      BY <2>5, <3>1, <3>2, <3>5
    <3>7. Overlaid(static', file, static)
      BY <3>6, OverFacts
    <3>8. DOMAIN file = {u} /\ file[u] = row /\ row.sound = fal[r.url.n] /\ u \notin DOMAIN static
      BY <2>5, <3>1, <3>2, <3>5
    <3>3. /\ DOMAIN static' = DOMAIN static \cup {LocalUrl(r)}
          /\ static'[LocalUrl(r)].sound = fal[r.url.n]
          /\ \A f \in DOMAIN static : static'[f] = static[f]
      BY <3>1, <3>7, <3>8 DEF Overlaid
    <3>4. mig'.phase = "writing" /\ mig'.view = mig.view /\ mig'.row = r
      BY <2>5
    <3> QED
      BY <2>1, <2>5, <3>3, <3>4 DEF Fetches
  <2> QED
    BY <1>4, <2>3, <2>4, <2>5 DEF MigrateRow
<1>5. ASSUME MigrateWritten
      PROVE  GivesUp \/ Leaves \/ Repoints(mig.row)
  <2>1. mig.phase = "writing"
    BY <1>5 DEF MigrateWritten
  <2>2. mig.row \in mig.left /\ mig.row.url.host = "fal" /\ LocalUrl(mig.row) \in DOMAIN static
    BY <1>3, <2>1 DEF WritingThere
  <2>3. CASE Point(mig.row, [static EXCEPT ![LocalUrl(mig.row)].whole = TRUE])
    <3>1. PICK u : u = LocalUrl(mig.row)
      OBVIOUS
    <3>2. PICK files : files = [static EXCEPT ![u].whole = TRUE]
      OBVIOUS
    <3>3. /\ static = [f \in DOMAIN static |-> static[f]]
          /\ \A f \in DOMAIN static :
               static[f] = [sound |-> static[f].sound, whole |-> static[f].whole]
      BY DEF Shape, ServerShape, GoodDirectory, Mapping
    <3>4. PICK row : row = [static[u] EXCEPT !.whole = TRUE]
      OBVIOUS
    <3>5. files = [static EXCEPT ![u] = row]
      BY <3>2, <3>4
    <3>6. row.sound = static[u].sound
      BY <2>2, <3>1, <3>3, <3>4
    <3>7. DOMAIN files = DOMAIN static /\ files[u] = row
          /\ \A f \in DOMAIN static : f # u => files[f] = static[f]
      BY <2>2, <3>1, <3>3, <3>5
    <3>8. SoundsKept(files, static)
      BY <3>6, <3>7 DEF SoundsKept
    <3> QED
      BY <2>2, <2>3, <3>1, <3>2, <3>8, PointFacts
  <2>4. CASE /\ mig' = [phase |-> "rows", view |-> mig.view, left |-> mig.left \ {mig.row}]
             /\ UNCHANGED static /\ Stay
    <3>1. mig'.phase = "rows" /\ mig'.view = mig.view
      BY <2>4
    <3> QED
      BY <1>0, <2>4, <3>1 DEF Leaves
  <2> QED
    BY <1>5, <2>3, <2>4 DEF MigrateWritten
<1> QED
  BY <1>1, <1>2, <1>4, <1>5 DEF MigrateRows

-----------------------------------------------------------------------------
(* Which steps change what. *)

Migrating == MigrateRows \/ MigrateWritten
Reseeds == \E c \in DOMAIN Loaded : Reseed(c)

LEMMA FalChanges ==
  ASSUME Next
  PROVE  fal' = fal \/ fetch_and_upload
BY ScriptChanges DEF ScriptStep, FetchSamples, FetchBeat, WriteBeats, WriteSamples, StartScript,
   Abort, RewriteFiles, Rewrite, scriptVars

LEMMA BuildChanges ==
  ASSUME Next
  PROVE  build' = build \/ FetchSamples \/ FetchBeat
BY ScriptChanges DEF ScriptStep, fetch_and_upload, WriteBeats, WriteSamples, StartScript,
   Abort, RewriteFiles, Rewrite, scriptVars

\* What a step does to the server.
LEMMA ServerChanges ==
  ASSUME Next
  PROVE  \/ UNCHANGED server
         \/ Push \/ Scp \/ Rm \/ Wipe \/ Reseeds
         \/ MigrateBegin \/ Migrating \/ MigrateCommit \/ MigrateCrash
<1>1. CASE RunScript
  BY <1>1 DEF RunScript
<1>2. CASE Begin \/ Finished
  BY <1>2 DEF Begin, Finished, vars, server
<1>3. CASE RewriteFiles
  BY <1>3 DEF RewriteFiles, server
<1> QED
  BY <1>1, <1>2, <1>3 DEF Next, Reseeds, Migrating

LEMMA DeployedChanges ==
  ASSUME Next
  PROVE  deployed' = deployed \/ Push
BY ServerChanges DEF server, Scp, Rm, Wipe, Reseeds, Reseed, MigrateBegin, Migrating, MigrateRows,
   MigrateWritten, MigrateCommit, MigrateCrash

LEMMA RowsChanges ==
  ASSUME Next
  PROVE  rows' = rows \/ Wipe \/ Reseeds \/ MigrateCommit
BY ServerChanges DEF server, Push, Scp, Rm, MigrateBegin, Migrating, MigrateRows, MigrateWritten,
   MigrateCrash

LEMMA StaticChanges ==
  ASSUME Next
  PROVE  static' = static \/ Scp \/ Rm \/ Migrating
BY ServerChanges DEF server, Push, Wipe, Reseeds, Reseed, MigrateBegin, MigrateCommit, MigrateCrash

LEMMA MigrationChanges ==
  ASSUME Next
  PROVE  mig' = mig \/ MigrateBegin \/ Migrating \/ MigrateCommit \/ MigrateCrash
BY ServerChanges DEF server, Push, Scp, Rm, Wipe, Reseeds, Reseed

\* The rows after a step: of the table before, of the seed files of the image, or what
\* the migration made of the table.
LEMMA RowsFrom ==
  ASSUME Shape, Next, NEW r \in rows'
  PROVE  \/ r \in rows
         \/ Given("reseed") /\ \E k \in Kinds : \E i \in 1..Len(deployed[k]) : r = deployed[k][i]
         \/ Given("reseed_samples") /\ \E i \in 1..Len(deployed["sample"]) : r = deployed["sample"][i]
         \/ Given("reseed_beats") /\ \E i \in 1..Len(deployed["beat"]) : r = deployed["beat"][i]
         \/ MigrateCommit /\ r \in View
<1>1. "beat" \in Kinds /\ "sample" \in Kinds
  BY DEF Kinds
<1>2. IsFile(deployed["beat"]) /\ IsFile(deployed["sample"])
  BY <1>1 DEF Shape, ServerShape, GoodFiles, GoodFile
<1>3. CASE Wipe
  BY <1>3 DEF Wipe
<1>4. CASE Reseeds
  <2>1. PICK c \in DOMAIN Loaded : Reseed(c)
    BY <1>4 DEF Reseeds
  <2>2. /\ Given(c)
        /\ \/ rows' = rows
           \/ c = "reseed" /\ rows' = Upsert(Upsert(rows, deployed["beat"]), deployed["sample"])
           \/ c = "reseed_samples" /\ rows' = Upsert(rows, deployed["sample"])
           \/ c = "reseed_beats" /\ rows' = Upsert(rows, deployed["beat"])
    BY <2>1, ReseedFacts
  <2>3. ASSUME c = "reseed_samples", rows' = Upsert(rows, deployed["sample"])
        PROVE  r \in rows \/ \E i \in 1..Len(deployed["sample"]) : r = deployed["sample"][i]
    BY <1>2, <2>3, UpsertFacts
  <2>4. ASSUME c = "reseed_beats", rows' = Upsert(rows, deployed["beat"])
        PROVE  r \in rows \/ \E i \in 1..Len(deployed["beat"]) : r = deployed["beat"][i]
    BY <1>2, <2>4, UpsertFacts
  <2>5. ASSUME c = "reseed", rows' = Upsert(Upsert(rows, deployed["beat"]), deployed["sample"])
        PROVE  r \in rows \/ \E k \in Kinds : \E i \in 1..Len(deployed[k]) : r = deployed[k][i]
    <3>1. PICK both : both = Upsert(rows, deployed["beat"])
      OBVIOUS
    <3>2. r \in both \/ \E i \in 1..Len(deployed["sample"]) : r = deployed["sample"][i]
      BY <1>2, <2>5, <3>1, UpsertFacts
    <3>3. r \in both => r \in rows \/ \E i \in 1..Len(deployed["beat"]) : r = deployed["beat"][i]
      BY <1>2, <3>1, UpsertFacts
    <3> QED
      BY <1>1, <3>2, <3>3
  <2> QED
    BY <2>2, <2>3, <2>4, <2>5
<1>5. CASE MigrateCommit
  <2>1. rows' = mig.view /\ mig # Idle
    BY <1>5 DEF MigrateCommit, Idle
  <2> QED
    BY <1>5, <2>1 DEF View
<1> QED
  BY <1>3, <1>4, <1>5, RowsChanges

\* Where the migration has a row from.
LEMMA ViewFrom ==
  ASSUME Shape, WritingThere, Next, NEW r \in View'
  PROVE  \/ r \in View
         \/ MigrateBegin /\ r \in rows
         \/ \E o \in View : /\ r = [o EXCEPT !.url = LocalUrl(o)]
                            /\ LocalUrl(o) \in DOMAIN static /\ LocalUrl(o) \in DOMAIN static'
<1>1. CASE mig' = mig
  BY <1>1 DEF View
<1>2. CASE MigrateBegin
  <2>1. mig' = [phase |-> "rows", view |-> rows, left |-> rows]
    BY <1>2 DEF MigrateBegin
  <2>2. mig'.view = rows
    BY <2>1
  <2> QED
    BY <1>2, <2>2 DEF View
<1>3. CASE MigrateCommit \/ MigrateCrash
  BY <1>3 DEF MigrateCommit, MigrateCrash, View
<1>4. CASE Migrating
  <2>1. mig # Idle /\ (GivesUp \/ Leaves \/ \E o : Repoints(o) \/ Fetches(o))
    BY <1>4, MigrationFacts DEF Migrating
  <2>2. mig.left \subseteq mig.view
    BY <2>1 DEF Shape, ServerShape, GoodMigration
  <2>3. mig' # Idle /\ r \in mig'.view /\ ~GivesUp
    BY DEF View, GivesUp
  <2>4. View = mig.view
    BY <2>1 DEF View
  <2>5. ASSUME NEW o, Repoints(o)
        PROVE  r \in View \/ \E q \in View :
                  /\ r = [q EXCEPT !.url = LocalUrl(q)]
                  /\ LocalUrl(q) \in DOMAIN static /\ LocalUrl(q) \in DOMAIN static'
    <3>1. PICK new : new = [o EXCEPT !.url = LocalUrl(o)]
      OBVIOUS
    <3>2. /\ o \in mig.left /\ LocalUrl(o) \in DOMAIN static
          /\ mig'.view = (mig.view \ {o}) \cup {new} /\ DOMAIN static' = DOMAIN static
      BY <2>5, <3>1 DEF Repoints, SoundsKept
    <3>3. r \in mig.view \/ r = new
      BY <2>3, <3>2
    <3> QED
      BY <2>2, <2>4, <3>1, <3>2, <3>3
  <2>6. ASSUME Leaves \/ \E o : Fetches(o)
        PROVE  r \in View
    BY <2>3, <2>4, <2>6 DEF Leaves, Fetches
  <2> QED
    BY <2>1, <2>3, <2>5, <2>6
<1> QED
  BY <1>1, <1>2, <1>3, <1>4, MigrationChanges

\* A migration runs at the first command of its task.
LEMMA MigratingWhere ==
  ASSUME Shape, Next
  PROVE  /\ MigrateBegin => task = "local" /\ step = 1 /\ script = "none"
         /\ MigrateCommit \/ MigrateCrash \/ Migrating =>
              mig # Idle /\ task = "local" /\ step = 1 /\ script = "none"
<1>1. OrderShape /\ script \in Scripts \cup {"none"}
  BY DEF Shape, ScriptShape
<1>2. \A s \in Scripts : TaskOf[s] # "local"
  BY ScriptTasks
<1>3. task = "local" => script = "none"
  BY <1>1, <1>2 DEF OrderShape
<1>4. MigrateBegin => task = "local" /\ step = 1
  BY <1>1, GivenWhere DEF MigrateBegin
<1>5. MigrateCommit \/ MigrateCrash \/ Migrating => mig # Idle
  <2>1. Idle.phase = "idle"
    BY DEF Idle
  <2>2. \A r : MigrateRow(r) => mig # Idle
    BY <2>1 DEF MigrateRow, MigrateAt
  <2>3. MigrateWritten \/ MigrateCommit \/ MigrateCrash => mig # Idle
    BY <2>1 DEF MigrateCommit, MigrateCrash, MigrateWritten
  <2> QED
    BY <2>2, <2>3 DEF Migrating, MigrateRows
<1>6. mig # Idle => task = "local" /\ step = 1
  BY <1>1 DEF OrderShape
<1> QED
  BY <1>3, <1>4, <1>5, <1>6

LEMMA WritingThereHolds == Spec => []WritingThere
<1>1. ASSUME Shape, WritingThere, Next
      PROVE  WritingThere'
  <2>1. CASE UNCHANGED <<mig, static>>
    BY <1>1, <2>1 DEF WritingThere, LocalUrl
  <2>2. CASE mig'.phase # "writing"
    BY <2>2 DEF WritingThere
  <2>3. CASE Migrating
    <3>1. GivesUp \/ Leaves \/ \E o : Repoints(o) \/ Fetches(o)
      BY <1>1, <2>3, MigrationFacts DEF Migrating
    <3>2. ASSUME GivesUp \/ Leaves \/ \E o : Repoints(o)
          PROVE  mig'.phase # "writing"
      BY <3>2 DEF GivesUp, Leaves, Repoints, Idle
    <3>3. ASSUME NEW o, Fetches(o)
          PROVE  WritingThere'
      BY <3>3 DEF Fetches, WritingThere, LocalUrl
    <3> QED
      BY <2>2, <3>1, <3>2, <3>3
  <2>4. CASE MigrateBegin \/ MigrateCommit \/ MigrateCrash
    <3>1. mig'.phase # "writing"
      BY <2>4 DEF MigrateBegin, MigrateCommit, MigrateCrash, Idle
    <3> QED
      BY <2>2, <3>1
  <2>5. CASE Push \/ Scp \/ Rm \/ Wipe \/ Reseeds
    <3>1. mig' = mig /\ \E c \in {"push", "scp", "rm", "wipe", "reseed", "reseed_samples",
                                  "reseed_beats"} : Given(c)
      BY <2>5 DEF Push, Scp, Rm, Wipe, Reseeds, Reseed, Loaded
    <3>2. mig = Idle
      BY <1>1, <3>1, CommandOrder DEF Shape, ScriptShape
    <3> QED
      BY <2>2, <3>1, <3>2 DEF Idle
  <2>6. CASE UNCHANGED server
    BY <2>1, <2>6 DEF server
  <2> QED
    BY <1>1, <2>3, <2>4, <2>5, <2>6, ServerChanges
<1>2. ASSUME WritingThere, UNCHANGED vars
      PROVE  WritingThere'
  BY <1>2 DEF WritingThere, vars, LocalUrl
<1>3. ASSUME Init
      PROVE  WritingThere
  BY <1>3 DEF Init, WritingThere, Idle
<1> QED
  BY <1>1, <1>2, <1>3, ShapeHolds, PTL DEF Spec

-----------------------------------------------------------------------------
(* A row at fal's storage plays the sound it is written with. *)

Right(r, uploads) == r.url.host = "fal" => uploads[r.url.n] = r.sound

AllRight(file, uploads) == \A i \in 1..Len(file) : Right(file[i], uploads)

Uploads ==
  /\ script = "seed_content" => \A k \in Kinds : AllRight(out[k], fal)
  /\ \A k \in Kinds : AllRight(seeds[k], fal) /\ AllRight(deployed[k], fal)
  /\ \A r \in rows \cup View : Right(r, fal)

LEMMA StillRight ==
  ASSUME Shape, Next
  PROVE  /\ \A r : GoodRow(r, Len(fal)) /\ Right(r, fal) => Right(r, fal')
         /\ \A file, k : GoodFile(file, k, Len(fal)) /\ AllRight(file, fal) => AllRight(file, fal')
<1>1. ASSUME NEW r, GoodRow(r, Len(fal)), Right(r, fal)
      PROVE  Right(r, fal')
  <2>1. CASE fal' = fal
    BY <1>1, <2>1
  <2>2. CASE fetch_and_upload
    <3>1. \A i \in 1..Len(fal) : fal'[i] = fal[i]
      BY <2>2, UploadGains DEF UploadGain, Shape
    <3>2. r.url.host = "fal" => r.url.n \in 1..Len(fal)
      BY <1>1, LocalFields DEF GoodRow
    <3> QED
      BY <1>1, <3>1, <3>2 DEF Right
  <2> QED
    BY <2>1, <2>2, FalChanges
<1>2. ASSUME NEW file, NEW k, GoodFile(file, k, Len(fal)), AllRight(file, fal)
      PROVE  AllRight(file, fal')
  BY <1>1, <1>2 DEF GoodFile, AllRight
<1> QED
  BY <1>1, <1>2

\* What is gathered: only seed_content uploads, the other scripts keep files.
LEMMA OutRight ==
  ASSUME Shape, Drafted, Uploads, script # "none", NEW k \in Kinds
  PROVE  AllRight(out[k], fal)
<1>1. CASE script = "seed_content"
  BY <1>1 DEF Uploads
<1>2. CASE script # "seed_content"
  BY <1>2 DEF Drafted, Draft, Drawn, AllRight, Right
<1> QED
  BY <1>1, <1>2

LEMMA OutRightStep ==
  ASSUME Shape, Uploads, Next, script' = "seed_content", NEW k \in Kinds
  PROVE  AllRight(out'[k], fal')
<1>1. AllRight(NoRows[k], fal')
  <2>1. Len(NoRows[k]) = 0
    BY NoDraft
  <2> QED
    BY <2>1 DEF AllRight
<1>2. CASE UNCHANGED <<out, fal, script>>
  BY <1>2 DEF Uploads
<1>3. CASE out' = NoRows
  BY <1>1, <1>3
<1>4. CASE fetch_and_upload
  <2>1. PICK n, kept, first : UploadGain(n, kept, first)
    BY <1>4, UploadGains DEF Shape
  <2>2. PICK rs, m, c : rs = out'[slot.kind] /\ m = Len(out[slot.kind]) /\ c = slot.kind
    OBVIOUS
  <2>3. Gained(n, kept, first, rs, m) /\ script = "seed_content"
    BY <2>1, <2>2, GainRows DEF UploadGain, Searched, Shape
  <2>4. /\ n \in {0, 1} /\ Len(fal) \in Nat
        /\ n = 1 => fal'[Len(fal) + 1] = kept[1] /\ rs[m + 1].url = Fal(Len(fal) + 1)
    BY <2>1, <2>2 DEF UploadGain, Shape, ScriptShape, IsFile
  <2>5. /\ c \in Kinds /\ m \in Nat /\ Len(rs) = m + n /\ Len(out[c]) = m
        /\ n = 1 => rs[m + 1].sound = kept[1]
        /\ \A i \in 1..m : rs[i] = out[c][i]
        /\ out' = [d \in Kinds |-> IF d = c THEN rs ELSE out[d]]
    <3>1. /\ c \in Kinds /\ m \in Nat /\ Longer(rs, out[c], n)
          /\ \A i \in 1..n : rs[m + i].sound = kept[i]
          /\ \A i \in 1..m : rs[i] = out[c][i]
          /\ out' = [d \in Kinds |-> IF d = c THEN rs ELSE out[d]]
      BY <2>2, <2>3 DEF Gained
    <3>2. n = 1 => rs[m + 1].sound = kept[1]
      BY <3>1
    <3>3. Len(rs) = m + n
      BY <2>2, <3>1 DEF Longer
    <3> QED
      BY <2>2, <3>1, <3>2, <3>3
  <2>6. \A d \in Kinds : AllRight(out[d], fal')
    <3>1. \A d \in Kinds : AllRight(out[d], fal) /\ GoodFile(out[d], d, Len(fal))
      BY <2>3 DEF Uploads, Shape, ScriptShape, GoodFiles
    <3> QED
      BY <3>1, StillRight
  <2>7. \A i \in 1..m : Right(rs[i], fal')
    BY <2>5, <2>6 DEF AllRight
  <2>8. n = 1 => Right(rs[m + 1], fal')
    BY <2>4, <2>5, FalFields DEF Right
  <2>9. AllRight(rs, fal')
    <3>1. \A i \in 1..(m + n) : i \in 1..m \/ (n = 1 /\ i = m + 1)
      BY <2>4, <2>5
    <3> QED
      BY <2>5, <2>7, <2>8, <3>1 DEF AllRight
  <2> QED
    BY <2>5, <2>6, <2>9
<1>5. CASE FetchSamples \/ FetchBeat
  BY <1>5 DEF FetchSamples, FetchBeat
<1>6. CASE WriteBeats \/ WriteSamples \/ Abort
  BY <1>1, <1>2, <1>6 DEF WriteBeats, WriteSamples, Abort, Ended
<1> QED
  BY <1>2, <1>3, <1>4, <1>5, <1>6, ScriptChanges
  DEF ScriptStep, StartScript, RewriteFiles, Rewrite, scriptVars

LEMMA SeedsRightStep ==
  ASSUME Shape, Drafted, Uploads, Next, NEW k \in Kinds
  PROVE  AllRight(seeds'[k], fal')
<1>1. AllRight(seeds[k], fal')
  <2>1. AllRight(seeds[k], fal) /\ GoodFile(seeds[k], k, Len(fal))
    BY DEF Uploads, Shape, ScriptShape, GoodFiles
  <2> QED
    BY <2>1, StillRight
<1>2. ASSUME script # "none"
      PROVE  AllRight(out[k], fal')
  <2>1. AllRight(out[k], fal) /\ GoodFile(out[k], k, Len(fal))
    BY <1>2, OutRight DEF Shape, ScriptShape, GoodFiles
  <2> QED
    BY <2>1, StillRight
<1>3. k = "beat" \/ k = "sample"
  BY DEF Kinds
<1>4. CASE WriteBeats
  BY <1>1, <1>2, <1>3, <1>4, WrittenBeats
<1>5. CASE WriteSamples
  BY <1>1, <1>2, <1>3, <1>5, WrittenSamples
<1>6. CASE RewriteFiles
  <2>1. Rewritten(seeds'[k], seeds[k])
    BY <1>6, RewrittenFiles
  <2>2. \A r : LocalUrl(r).host = "local"
    BY LocalFields DEF LocalUrl
  <2> QED
    BY <2>1, <2>2 DEF Rewritten, AllRight, Right
<1> QED
  BY <1>1, <1>4, <1>5, <1>6, SeedChanges

LEMMA DeployedRightStep ==
  ASSUME Shape, Uploads, Next, NEW k \in Kinds
  PROVE  AllRight(deployed'[k], fal')
<1>1. /\ AllRight(seeds[k], fal) /\ GoodFile(seeds[k], k, Len(fal))
      /\ AllRight(deployed[k], fal) /\ GoodFile(deployed[k], k, Len(fal))
  BY DEF Uploads, Shape, ScriptShape, ServerShape, GoodFiles
<1>2. AllRight(seeds[k], fal') /\ AllRight(deployed[k], fal')
  BY <1>1, StillRight
<1> QED
  BY <1>2, DeployedChanges DEF Push

LEMMA RowsRightStep ==
  ASSUME Shape, WritingThere, Uploads, Next, NEW r \in rows' \cup View'
  PROVE  Right(r, fal')
<1>1. ASSUME NEW o \in rows \cup View
      PROVE  Right(o, fal')
  <2>1. GoodRow(o, Len(fal))
    BY <1>1 DEF View, Shape, ServerShape, GoodTable, GoodMigration
  <2>2. Right(o, fal)
    BY <1>1 DEF Uploads
  <2> QED
    BY <2>1, <2>2, StillRight
<1>2. ASSUME NEW k \in Kinds, NEW i \in 1..Len(deployed[k])
      PROVE  Right(deployed[k][i], fal')
  <2>1. GoodRow(deployed[k][i], Len(fal)) /\ Right(deployed[k][i], fal)
    BY DEF Uploads, AllRight, Shape, ServerShape, GoodFiles, GoodFile
  <2> QED
    BY <2>1, StillRight
<1>3. CASE r \in rows'
  <2>1. "beat" \in Kinds /\ "sample" \in Kinds
    BY DEF Kinds
  <2> QED
    BY <1>1, <1>2, <1>3, <2>1, RowsFrom
<1>4. CASE r \in View'
  <2>1. ASSUME NEW o \in View, r = [o EXCEPT !.url = LocalUrl(o)]
        PROVE  Right(r, fal')
    <3>1. GoodRow(o, Len(fal))
      BY <2>1 DEF View, Shape, ServerShape, GoodTable, GoodMigration
    <3>2. r.url = LocalUrl(o)
      BY <2>1, <3>1 DEF GoodRow
    <3>3. r.url.host = "local"
      BY <3>2, LocalFields DEF LocalUrl
    <3> QED
      BY <3>3 DEF Right
  <2> QED
    BY <1>1, <1>4, <2>1, ViewFrom
<1> QED
  BY <1>3, <1>4

\* The sound uploaded for a row stays the one its URL leads to: in the drafts, the seed
\* files, the image, the tables and the migration.
THEOREM UploadsHold == Spec => []Uploads
<1>1. ASSUME Shape, WritingThere, Drafted /\ Kept, Uploads, Next
      PROVE  Uploads'
  BY <1>1, OutRightStep, SeedsRightStep, DeployedRightStep, RowsRightStep DEF Uploads
<1>2. ASSUME Uploads, UNCHANGED vars
      PROVE  Uploads'
  BY <1>2 DEF Uploads, vars, View
<1>3. ASSUME Init
      PROVE  Uploads
  <2>1. /\ script = "none" /\ seeds = NoRows /\ deployed = NoRows /\ rows = {} /\ View = {}
    BY <1>3 DEF Init, ScriptInit, View
  <2>2. \A k \in Kinds : AllRight(NoRows[k], fal)
    BY NoDraft DEF AllRight
  <2> QED
    BY <2>1, <2>2 DEF Uploads
<1> QED
  BY <1>1, <1>2, <1>3, ShapeHolds, WritingThereHolds, DraftsHold, PTL DEF Spec

-----------------------------------------------------------------------------
(* What has been done at each command of the runbook. *)

\* A script runs at the first command of its task.
LEMMA RunningWhere ==
  ASSUME Shape, script # "none"
  PROVE  /\ task = TaskOf[script] /\ step = 1 /\ mig = Idle /\ script \in Scripts
         /\ script = "seed_content" => task = "content"
         /\ script = "seed_samples_3x" => task = "samples_3x"
         /\ script = "seed_beats_3x" => task = "beats_3x"
         /\ task \in {"content", "samples_3x", "beats_3x"}
<1>1. script \in Scripts /\ task = TaskOf[script] /\ step = 1
  BY DEF Shape, ScriptShape, OrderShape
<1>2. task # "local"
  BY <1>1, ScriptTasks
<1> QED
  BY <1>1, <1>2, ScriptTasks DEF Shape, OrderShape, TaskOf

\* The step that ends a command.
LEMMA Advances ==
  ASSUME Shape, Next, ~Begin, step' # step
  PROVE  /\ task' = task /\ ahead' = ahead /\ step' = step + 1
         /\ \/ step = 1 /\ ((ScriptStep /\ script' = "none") \/ Migrating \/ MigrateCommit)
            \/ Push \/ Scp \/ Rm \/ Wipe \/ RewriteFiles \/ Reseeds
<1>1. task' = task /\ ahead' = ahead /\ step' = step + 1
  BY TaskMoves DEF GoesOn
<1>2. CASE RunScript
  <2>1. ScriptStep /\ script' = "none"
    BY <1>2 DEF RunScript, Stay
  <2>2. step = 1
    BY <2>1, ScriptMoves, RunningWhere
  <2> QED
    BY <1>1, <2>1, <2>2
<1>3. CASE MigrateBegin \/ MigrateCrash \/ Finished
  BY <1>3 DEF MigrateBegin, MigrateCrash, Finished, Stay, vars
<1>4. CASE Migrating \/ MigrateCommit
  BY <1>1, <1>4, MigratingWhere
<1> QED
  BY <1>1, <1>2, <1>3, <1>4 DEF Next, Reseeds, Migrating

LEMMA ReseedsWhere ==
  ASSUME Shape, Reseeds
  PROVE  /\ \/ task = "content" /\ step = 4 /\ Given("reseed")
            \/ task = "samples_3x" /\ step = 4 /\ Given("reseed_samples")
            \/ task = "beats_3x" /\ step = 5 /\ Given("reseed_beats")
         /\ seeds' = seeds /\ deployed' = deployed /\ static' = static /\ build' = build
         /\ Done
<1>1. PICK c \in DOMAIN Loaded : Reseed(c)
  BY DEF Reseeds
<1>2. c = "reseed" \/ c = "reseed_samples" \/ c = "reseed_beats"
  BY DEF Loaded
<1> QED
  BY <1>1, <1>2, GivenWhere DEF Reseed, Shape

Pushed ==
  \/ task = "none"
  \/ task = "content" /\ step > 2
  \/ task = "local" /\ step > 3
  \/ task = "samples_3x" /\ step > 3
  \/ task = "beats_3x" /\ step > 4

LEMMA PushedBefore ==
  ASSUME Shape, Next, Pushed'
  PROVE  Push \/ Pushed
<1>1. OrderShape /\ step \in Nat /\ "none" \notin Tasks
  BY DEF Shape, OrderShape, Tasks
<1>2. CASE Begin
  <2>1. task' \in Tasks /\ step' = 1
    BY <1>1, <1>2, BeginFacts
  <2> QED
    BY <1>1, <2>1 DEF Pushed
<1>3. CASE ~Begin /\ step' = step
  BY <1>3, TaskMoves DEF GoesOn, Pushed
<1>4. CASE ~Begin /\ step' # step
  <2>1. task' = task /\ step' = step + 1
    BY <1>4, Advances
  <2>2. CASE step = 1
    BY <1>1, <2>1, <2>2 DEF Pushed
  <2>3. CASE Scp
    BY <1>1, <2>1, <2>3, GivenWhere DEF Scp, Pushed
  <2>4. CASE Rm
    BY <1>1, <2>1, <2>4, GivenWhere DEF Rm, Pushed
  <2>5. CASE Wipe
    BY <1>1, <2>1, <2>5, GivenWhere DEF Wipe, Pushed
  <2>6. CASE RewriteFiles
    BY <1>1, <2>1, <2>6, GivenWhere DEF RewriteFiles, Pushed
  <2>7. CASE Reseeds
    BY <2>7, ReseedsWhere DEF Pushed
  <2> QED
    BY <1>4, <2>2, <2>3, <2>4, <2>5, <2>6, <2>7, Advances
<1> QED
  BY <1>2, <1>3, <1>4

\* The seed files change under a script, or when they are rewritten.
LEMMA SeedsMoveWhere ==
  ASSUME Shape, Next, seeds' # seeds
  PROVE  /\ task' = task /\ deployed' = deployed /\ rows' = rows /\ static' = static
         /\ build' = build /\ mig = Idle /\ mig' = Idle
         /\ \/ /\ WriteBeats \/ WriteSamples
               /\ script # "none" /\ task \in {"content", "samples_3x", "beats_3x"}
               /\ step = 1 /\ step' \in {1, 2}
            \/ RewriteFiles /\ task = "local" /\ step = 2 /\ step' = 3 /\ script = "none"
<1>1. CASE WriteBeats \/ WriteSamples
  <2>1. script # "none" /\ build' = build
    BY <1>1 DEF WriteBeats, WriteSamples, AtEnd
  <2>2. task \in {"content", "samples_3x", "beats_3x"} /\ step = 1 /\ mig = Idle
    BY <2>1, RunningWhere
  <2>3. ~Begin
    <3>1. ~(seeds' = seeds)
      OBVIOUS
    <3> QED
      BY <3>1 DEF Begin
  <2>4. task' = task /\ step' \in {1, 2}
    BY <2>2, <2>3, TaskMoves DEF GoesOn
  <2>5. UNCHANGED server
    <3>1. ~(seeds' = seeds)
      OBVIOUS
    <3> QED
      BY <3>1, ServerChanges DEF Push, Scp, Rm, Wipe, Reseeds, Reseed, MigrateBegin, Migrating,
         MigrateRows, MigrateWritten, MigrateCommit, MigrateCrash
  <2> QED
    BY <1>1, <2>1, <2>2, <2>4, <2>5 DEF server
<1>2. CASE RewriteFiles
  <2>1. Given("rewrite") /\ Done /\ UNCHANGED <<deployed, rows, static, mig>> /\ build' = build
    BY <1>2 DEF RewriteFiles, Rewrite
  <2>2. task = "local" /\ step = 2 /\ script = "none" /\ mig = Idle
    BY <2>1, GivenWhere, QuietLater DEF Shape, ScriptShape
  <2> QED
    BY <1>2, <2>1, <2>2 DEF Done
<1> QED
  BY <1>1, <1>2, SeedChanges

\* From a push on until the seed files change again the image has them.
Released == Pushed => deployed = seeds

LEMMA ReleasedStep ==
  ASSUME Shape, Released, Next
  PROVE  Released'
<1>1. ASSUME Pushed', seeds' = seeds
      PROVE  deployed' = seeds'
  <2>1. CASE Push
    BY <1>1, <2>1 DEF Push
  <2>2. CASE ~Push
    BY <1>1, <2>2, PushedBefore, DeployedChanges DEF Released
  <2> QED
    BY <2>1, <2>2
<1>2. ASSUME seeds' # seeds
      PROVE  ~Pushed'
  <2>1. /\ task' = task
        /\ \/ task \in {"content", "samples_3x", "beats_3x"} /\ step' \in {1, 2}
           \/ task = "local" /\ step' = 3
    BY <1>2, SeedsMoveWhere
  <2> QED
    BY <2>1 DEF Pushed
<1> QED
  BY <1>1, <1>2 DEF Released

\* seed_beats_3x.py numbers its files from 1 on, so none has the name of the one file
\* that rewrite_seed_to_local.py gives a genre.
NumberedBuild == \A f \in DOMAIN build : f.kind = "beat" => f.n # 0

LEMMA NumberedBuildStep ==
  ASSUME Shape, NumberedBuild, Next
  PROVE  NumberedBuild'
<1>1. CASE FetchSamples
  <2>1. PICK n, kept, first :
          FilesGain(n, kept, first, [i \in 1..n |-> Local("sample", slot.group, first + i - 1)])
    BY <1>1, SampleGains DEF Shape
  <2>2. PICK names : names = [i \in 1..n |-> Local("sample", slot.group, first + i - 1)]
    OBVIOUS
  <2>3. DOMAIN build' = DOMAIN build \cup {names[i] : i \in 1..n}
    BY <2>1, <2>2 DEF FilesGain
  <2>4. \A i \in 1..n : names[i].kind = "sample"
    BY <2>2, LocalFields
  <2> QED
    BY <2>3, <2>4 DEF NumberedBuild
<1>2. CASE FetchBeat
  <2>1. PICK n, kept, first :
          FilesGain(n, kept, first, [i \in 1..n |-> Local("beat", slot.group, slot.file)])
    BY <1>2, BeatGains DEF Shape
  <2>2. PICK names : names = [i \in 1..n |-> Local("beat", slot.group, slot.file)]
    OBVIOUS
  <2>3. DOMAIN build' = DOMAIN build \cup {names[i] : i \in 1..n}
    BY <2>1, <2>2 DEF FilesGain
  <2>4. slot.file # 0
    <3>1. script = "seed_beats_3x" /\ AtSlot
      BY <1>2 DEF FetchBeat
    <3>2. pos \in DOMAIN BeatsPlan /\ slot = BeatsPlan[pos]
      BY <3>1 DEF AtSlot, slot, Plan
    <3> QED
      BY <3>2, TablesSound DEF BeatFiles
  <2>5. \A i \in 1..n : names[i].n = slot.file
    BY <2>2, LocalFields
  <2> QED
    BY <2>3, <2>4, <2>5 DEF NumberedBuild
<1> QED
  BY <1>1, <1>2, BuildChanges DEF NumberedBuild

LEMMA NotBegun ==
  ASSUME Shape, Next, step' # 1
  PROVE  ~Begin /\ task' = task /\ ahead' = ahead /\ step' \in {step, step + 1}
<1>1. ~Begin
  BY DEF Begin
<1> QED
  BY <1>1, TaskMoves DEF GoesOn

AtFal(file) == \A i \in 1..Len(file) : file[i].url.host = "fal"

\* seed_content.py leaves the URLs of fal's storage in both files.
ContentAtFal ==
  /\ task = "content" /\ step > 1 => \A k \in Kinds : AtFal(seeds[k])
  /\ script = "seed_content" /\ pos = Len(Plan[script]) + 2 => AtFal(seeds["beat"])

LEMMA ContentHalf ==
  ASSUME Shape, Drafted, ContentAtFal, Next, script' = "seed_content",
         pos' = Len(Plan[script']) + 2
  PROVE  AtFal(seeds'["beat"])
<1>1. "seed_content" \in Scripts /\ pos \in Nat /\ script \in Scripts \cup {"none"}
  BY DEF Scripts, Shape, ScriptShape
<1>2. PICK n \in Nat : /\ n = Len(Plan["seed_content"])
                       /\ Fruitful["seed_content"] \subseteq 1..n
  BY <1>1, PlansSound DEF PlanSlots
<1>3. ASSUME NEW from \in Nat, MoveOn("seed_content", from)
      PROVE  FALSE
  <2>1. pos' \in Fruitful["seed_content"] \cup {n + 1}
    BY <1>1, <1>2, <1>3, MovesOn
  <2>2. pos' = n + 2
    BY <1>2
  <2>3. pos' \in 1..(n + 1)
    BY <1>2, <2>1
  <2> QED
    BY <1>2, <2>2, <2>3
<1>4. CASE fetch_and_upload \/ FetchSamples \/ FetchBeat
  <2>1. script' = script /\ MoveOn(script, pos)
    BY <1>4 DEF fetch_and_upload, FetchSamples, FetchBeat
  <2> QED
    BY <1>1, <1>3, <2>1
<1>5. CASE \E s \in Scripts : StartScript(s)
  <2>1. MoveOn("seed_content", 0)
    BY <1>5 DEF StartScript
  <2> QED
    BY <1>3, <2>1
<1>6. CASE WriteBeats
  <2>1. script # "none" /\ seeds'["beat"] = out["beat"]
    BY <1>6, WrittenBeats
  <2>2. script = "seed_content"
    BY <1>6 DEF WriteBeats, Ended
  <2>3. Draft(out["beat"], script, pos, used, build)
    BY <2>1 DEF Drafted, Kinds
  <2> QED
    BY <2>1, <2>2, <2>3 DEF Draft, Drawn, AtFal
<1>7. CASE WriteSamples \/ Abort
  BY <1>7 DEF WriteSamples, Abort, Ended
<1>8. CASE RewriteFiles
  BY <1>8 DEF RewriteFiles, Rewrite
<1>9. CASE UNCHANGED scriptVars
  BY <1>9 DEF scriptVars, ContentAtFal
<1> QED
  BY <1>4, <1>5, <1>6, <1>7, <1>8, <1>9, ScriptChanges DEF ScriptStep

LEMMA ContentStep ==
  ASSUME Shape, Shape', Drafted, ContentAtFal, Next
  PROVE  ContentAtFal'
<1>1. ASSUME task' = "content", step' > 1, NEW k \in Kinds
      PROVE  AtFal(seeds'[k])
  <2>1. step \in Nat /\ step' \in Nat /\ (k = "beat" \/ k = "sample") /\ k \in Kinds
    BY DEF Shape, OrderShape, Kinds
  <2>2. ~Begin /\ task = "content" /\ step' \in {step, step + 1}
    BY <1>1, NotBegun
  <2>3. CASE WriteSamples
    <3>1. /\ script # "none" /\ seeds'["sample"] = out["sample"] /\ seeds'["beat"] = seeds["beat"]
      BY <2>3, WrittenSamples
    <3>2. script = "seed_content"
      BY <2>2, <3>1, RunningWhere DEF Scripts
    <3>3. AtFal(seeds["beat"])
      BY <2>3, <3>2 DEF WriteSamples, ContentAtFal
    <3>4. Draft(out["sample"], script, pos, used, build)
      BY <3>1 DEF Drafted, Kinds
    <3>5. AtFal(out["sample"])
      BY <3>2, <3>4 DEF Draft, Drawn, AtFal
    <3> QED
      BY <2>1, <3>1, <3>3, <3>5
  <2>4. CASE ~WriteSamples
    <3>1. script' = "none"
      BY <1>1 DEF Shape, OrderShape
    <3>2. ASSUME script # "none", ScriptStep
          PROVE  FALSE
      <4>1. script = "seed_content"
        BY <2>2, <3>2, RunningWhere DEF Scripts
      <4> QED
        BY <2>4, <3>1, <3>2, <4>1 DEF ScriptStep, fetch_and_upload, FetchSamples, FetchBeat, WriteBeats
    <3>3. seeds' = seeds
      <4>1. ASSUME seeds' # seeds
            PROVE  ScriptStep /\ script # "none"
        BY <2>2, <2>4, <4>1, SeedsMoveWhere DEF ScriptStep
      <4> QED
        BY <3>2, <4>1
    <3>4. step > 1
      <4>1. ASSUME step = 1
            PROVE  FALSE
        <5>1. \/ ScriptStep \/ Migrating \/ MigrateCommit
              \/ Push \/ Scp \/ Rm \/ Wipe \/ RewriteFiles \/ Reseeds
          BY <1>1, <2>1, <2>2, <4>1, Advances
        <5>2. ~ScriptStep
          BY <3>2, ScriptMoves
        <5>3. ~Migrating /\ ~MigrateCommit
          BY <2>2, MigratingWhere
        <5>4. ~Push /\ ~Scp /\ ~Rm /\ ~Wipe /\ ~RewriteFiles
          BY <4>1, GivenWhere DEF Push, Scp, Rm, Wipe, RewriteFiles, Shape
        <5>5. ~Reseeds
          BY <4>1, ReseedsWhere
        <5> QED
          BY <5>1, <5>2, <5>3, <5>4, <5>5
      <4> QED
        BY <4>1, <2>1, <2>2, <1>1 DEF Shape, OrderShape
    <3> QED
      BY <2>2, <3>3, <3>4 DEF ContentAtFal
  <2> QED
    BY <2>3, <2>4
<1> QED
  BY <1>1, ContentHalf DEF ContentAtFal

\* The tables are empty when the content is loaded.
Emptied == task = "content" /\ step = 4 => rows = {}

LEMMA EmptiedStep ==
  ASSUME Shape, Emptied, Next
  PROVE  Emptied'
<1>1. SUFFICES ASSUME task' = "content", step' = 4
               PROVE  rows' = {}
  BY DEF Emptied
<1>2. ~Begin /\ task = "content" /\ step' \in {step, step + 1} /\ step \in Nat
  BY <1>1, NotBegun DEF Shape, OrderShape
<1>3. CASE step' = step
  <2>1. ~Wipe /\ ~Reseeds /\ ~MigrateCommit
    BY <1>2, <1>3, ReseedsWhere DEF Wipe, MigrateCommit, Done
  <2> QED
    BY <1>1, <1>2, <1>3, <2>1, RowsChanges DEF Emptied
<1>4. CASE step' # step
  <2>1. step = 3
    BY <1>1, <1>2, <1>4
  <2>2. Push \/ Scp \/ Rm \/ Wipe \/ RewriteFiles \/ Reseeds
    BY <1>2, <1>4, <2>1, Advances
  <2>3. ~Push /\ ~Scp /\ ~Rm /\ ~RewriteFiles /\ ~Reseeds
    BY <1>2, <2>1, GivenWhere, ReseedsWhere DEF Push, Scp, Rm, RewriteFiles, Shape
  <2> QED
    BY <2>2, <2>3 DEF Wipe
<1> QED
  BY <1>3, <1>4

\* The sound of a row is among the files nginx serves.
Plays(r, files) == r.url \in DOMAIN files /\ files[r.url].sound = r.sound

\* What the scripts seed_samples_3x.py and seed_beats_3x.py left is on the server once
\* their files have been copied, and stays there when the single files are removed.
Threefold(k) == task = IF k = "beat" THEN "beats_3x" ELSE "samples_3x"

Built(k) ==
  \A i \in 1..Len(seeds[k]) : seeds[k][i].url.host = "local" /\ Builds(seeds[k][i], build)

Copied(k) == \A i \in 1..Len(seeds[k]) : Plays(seeds[k][i], static)

Threefolds ==
  \A k \in Kinds : Threefold(k) => (step > 1 => Built(k)) /\ (step > 2 => Copied(k))

LEMMA BuiltStep ==
  ASSUME Shape, Drafted, Threefolds, Next, NEW k \in Kinds, Threefold(k)', step' > 1
  PROVE  Built(k)'
<1>1. step \in Nat /\ (k = "beat" \/ k = "sample")
  BY DEF Shape, OrderShape, Kinds
<1>2. ~Begin /\ task' = task /\ step' \in {step, step + 1} /\ Threefold(k)
  BY NotBegun DEF Threefold
<1>3. CASE step = 1
  <2>1. step' # step
    BY <1>3
  <2>2. \/ ScriptStep /\ script' = "none"
        \/ Migrating \/ MigrateCommit
        \/ Push \/ Scp \/ Rm \/ Wipe \/ RewriteFiles \/ Reseeds
    BY <1>2, <2>1, Advances
  <2>3. ~Migrating /\ ~MigrateCommit
    BY <1>2, MigratingWhere DEF Threefold
  <2>4. ~Push /\ ~Scp /\ ~Rm /\ ~Wipe /\ ~RewriteFiles
    BY <1>3, GivenWhere DEF Push, Scp, Rm, Wipe, RewriteFiles, Shape
  <2>5. ~Reseeds
    BY <1>3, ReseedsWhere
  <2>6. ScriptStep /\ script' = "none" /\ script # "none"
    BY <2>2, <2>3, <2>4, <2>5, ScriptMoves
  <2>7. WriteBeats \/ WriteSamples
    BY <2>6 DEF ScriptStep, fetch_and_upload, FetchSamples, FetchBeat
  <2>8. script = IF k = "beat" THEN "seed_beats_3x" ELSE "seed_samples_3x"
    BY <1>1, <1>2, <2>6, RunningWhere DEF Threefold, Scripts
  <2>9. seeds'[k] = out[k]
    BY <1>1, <2>7, <2>8, WrittenBeats, WrittenSamples
  <2>10. Draft(out[k], script, pos, used, build)
    BY <2>6 DEF Drafted
  <2>11. build' = build
    BY <2>7 DEF WriteBeats, WriteSamples
  <2>12. \A i \in 1..Len(out[k]) : out[k][i].url.host = "local" /\ Builds(out[k][i], build)
    BY <2>8, <2>10 DEF Draft, Drawn
  <2> QED
    BY <2>9, <2>11, <2>12 DEF Built, Builds
<1>4. CASE step # 1
  <2>1. script = "none"
    BY <1>4, RunningWhere
  <2>2. seeds' = seeds
    BY <1>2, <1>4, SeedsMoveWhere DEF Threefold
  <2>3. build' = build
    BY <2>1, BuildChanges DEF FetchSamples, FetchBeat, AtSlot
  <2>4. step > 1
    BY <1>1, <1>4 DEF Shape, OrderShape
  <2> QED
    BY <1>2, <2>2, <2>3, <2>4 DEF Threefolds, Built, Builds
<1> QED
  BY <1>3, <1>4

LEMMA ScpFacts ==
  ASSUME Shape, Scp
  PROVE  /\ DOMAIN static' = DOMAIN build \cup DOMAIN static
         /\ \A f \in DOMAIN build : static'[f].sound = build[f]
         /\ \A f \in DOMAIN static : f \notin DOMAIN build => static'[f] = static[f]
         /\ \A r : Builds(r, build) => Plays(r, static')
<1>1. Overlaid(static', Copies, static)
  BY OverFacts DEF Scp
<1>2. DOMAIN Copies = DOMAIN build /\ \A f \in DOMAIN build : Copies[f].sound = build[f]
  BY DEF Copies
<1>3. /\ DOMAIN static' = DOMAIN build \cup DOMAIN static
      /\ \A f \in DOMAIN build : static'[f].sound = build[f]
      /\ \A f \in DOMAIN static : f \notin DOMAIN build => static'[f] = static[f]
  BY <1>1, <1>2 DEF Overlaid
<1> QED
  BY <1>3 DEF Builds, Plays

LEMMA RmFacts ==
  ASSUME Rm
  PROVE  /\ DOMAIN static' = {f \in DOMAIN static : f.kind # "beat" \/ f.n # 0}
         /\ \A f \in DOMAIN static' : static'[f] = static[f]
BY DEF Rm, Restrict

LEMMA CopiedStep ==
  ASSUME Shape, NumberedBuild, Threefolds, Next, NEW k \in Kinds, Threefold(k)', step' > 2
  PROVE  Copied(k)'
<1>1. step \in Nat /\ (k = "beat" \/ k = "sample") /\ step' \in Nat
  <2>1. step \in Nat /\ step' \in {1, step, step + 1}
    BY TaskMoves DEF Shape, OrderShape, Begin, GoesOn
  <2> QED
    BY <2>1 DEF Kinds
<1>2. ~Begin /\ task' = task /\ step' \in {step, step + 1} /\ Threefold(k)
  BY <1>1, NotBegun DEF Threefold
<1>3. step > 1
  BY <1>1, <1>2
<1>4. seeds' = seeds /\ Built(k)
  BY <1>2, <1>3, SeedsMoveWhere DEF Threefold, Threefolds
<1>5. CASE step = 2
  <2>1. Push \/ Scp \/ Rm \/ Wipe \/ RewriteFiles \/ Reseeds
    BY <1>1, <1>2, <1>5, Advances
  <2>2. ~Push /\ ~Rm /\ ~Wipe /\ ~RewriteFiles
    BY <1>2, <1>5, GivenWhere DEF Push, Rm, Wipe, RewriteFiles, Shape, Threefold
  <2>3. ~Reseeds
    BY <1>5, ReseedsWhere
  <2>4. \A r : Builds(r, build) => Plays(r, static')
    BY <2>1, <2>2, <2>3, ScpFacts
  <2> QED
    BY <1>4, <2>4 DEF Built, Copied, Plays
<1>6. CASE step # 2
  <2>1. step > 2 /\ Copied(k)
    BY <1>1, <1>2, <1>3, <1>6 DEF Threefolds
  <2>2. CASE static' = static
    BY <1>4, <2>1, <2>2 DEF Copied, Plays
  <2>3. CASE Rm
    <3>1. k = "beat"
      BY <1>1, <1>2, <2>3, GivenWhere DEF Rm, Shape, Threefold
    <3>2. ASSUME NEW i \in 1..Len(seeds[k]), NEW r, r = seeds[k][i]
          PROVE  Plays(r, static')
      <4>1. Plays(r, static) /\ r.url \in DOMAIN build
        BY <1>4, <2>1, <3>2 DEF Built, Builds, Copied
      <4>2. r.url \in DOMAIN static /\ (r.url.kind # "beat" \/ r.url.n # 0)
        BY <4>1 DEF NumberedBuild, Plays
      <4>3. r.url \in DOMAIN static' /\ static'[r.url] = static[r.url]
        BY <2>3, <4>2, RmFacts
      <4> QED
        BY <4>1, <4>3 DEF Plays
    <3> QED
      BY <1>4, <3>2 DEF Copied, Plays
  <2>4. ~Scp
    BY <1>6, GivenWhere DEF Scp, Shape
  <2>5. ~Migrating
    BY <1>3, MigratingWhere
  <2> QED
    BY <2>2, <2>3, <2>4, <2>5, StaticChanges
<1> QED
  BY <1>5, <1>6

\* rewrite_seed_to_local.py leaves local URLs in both files.
Localized ==
  task = "local" /\ step > 2 =>
    \A k \in Kinds : \A i \in 1..Len(seeds[k]) : seeds[k][i].url = LocalUrl(seeds[k][i])

LEMMA LocalizedStep ==
  ASSUME Shape, Localized, Next
  PROVE  Localized'
<1>1. SUFFICES ASSUME task' = "local", step' > 2, NEW k \in Kinds, NEW i \in 1..Len(seeds'[k])
               PROVE  seeds'[k][i].url = LocalUrl(seeds'[k][i])
  BY DEF Localized, LocalUrl
<1>2. step \in Nat /\ step' \in {1, step, step + 1}
  BY TaskMoves DEF Shape, OrderShape, Begin, GoesOn
<1>3. ~Begin /\ task = "local" /\ step' \in {step, step + 1}
  BY <1>1, <1>2, NotBegun
<1>4. CASE RewriteFiles
  BY <1>1, <1>4, RewrittenFiles DEF Rewritten
<1>5. CASE ~RewriteFiles
  <2>1. seeds' = seeds
    BY <1>3, <1>5, SeedsMoveWhere
  <2>2. step > 2
    <3>1. ASSUME step = 2
          PROVE  FALSE
      <4>1. Push \/ Scp \/ Rm \/ Wipe \/ Reseeds
        BY <1>1, <1>2, <1>3, <1>5, <3>1, Advances
      <4>2. ~Push /\ ~Scp /\ ~Rm /\ ~Wipe
        BY <1>3, <3>1, GivenWhere DEF Push, Scp, Rm, Wipe, Shape
      <4> QED
        BY <3>1, <4>1, <4>2, ReseedsWhere
    <3> QED
      BY <1>1, <1>2, <1>3, <3>1
  <2> QED
    BY <1>1, <1>3, <2>1, <2>2 DEF Localized
<1> QED
  BY <1>4, <1>5

Staged == Released /\ NumberedBuild /\ ContentAtFal /\ Emptied /\ Threefolds /\ Localized

\* What has been done at each command of the runbook: the image has the seed files after
\* a push, the files of a 3x script are on the server after scp and after rm, the tables
\* are empty before the content is loaded, and the rewritten files name local files.
THEOREM StagedHolds == Spec => []Staged
<1>1. ASSUME Shape, Shape', Drafted /\ Kept, Staged, Next
      PROVE  Staged'
  <2>1. Released' /\ NumberedBuild' /\ ContentAtFal' /\ Emptied' /\ Localized'
    BY <1>1, ReleasedStep, NumberedBuildStep, ContentStep, EmptiedStep, LocalizedStep DEF Staged
  <2>2. Threefolds'
    BY <1>1, BuiltStep, CopiedStep DEF Staged, Threefolds
  <2> QED
    BY <2>1, <2>2 DEF Staged
<1>2. ASSUME Staged, UNCHANGED vars
      PROVE  Staged'
  BY <1>2 DEF Staged, Released, Pushed, NumberedBuild, ContentAtFal, AtFal, Emptied, Threefolds,
     Threefold, Built, Builds, Copied, Plays, Localized, LocalUrl, vars
<1>3. ASSUME Init
      PROVE  Staged
  <2>1. /\ deployed = seeds /\ build = <<>> /\ script = "none" /\ rows = {} /\ task = "none"
    BY <1>3 DEF Init, ScriptInit
  <2>2. DOMAIN <<>> = {}
    OBVIOUS
  <2> QED
    BY <2>1, <2>2 DEF Staged, Released, NumberedBuild, ContentAtFal, Emptied, Threefolds,
       Threefold, Localized
<1> QED
  BY <1>1, <1>2, <1>3, ShapeHolds, DraftsHold, PTL DEF Spec

-----------------------------------------------------------------------------
(* The files of the rows are there. *)

There(r, files) == r.url.host = "local" => r.url \in DOMAIN files

\* A beat at the one file its genre had before seed_beats_3x.py.
Single(r) == r.kind = "beat" /\ r.url.host = "local" /\ r.url.n = 0

NoSingles ==
  /\ \A r \in rows : ~Single(r)
  /\ \A i \in 1..Len(seeds["beat"]) : ~Single(seeds["beat"][i])
  /\ \A i \in 1..Len(deployed["beat"]) : ~Single(deployed["beat"][i])

\* The rows may name single files that seed_beats_3x.py's task removes only when it
\* follows a migration to local files.
Standing == Pending("local") \/ ~Follows("local", "beats_3x")

BeforeRm == Coming("beats_3x") \/ (task = "beats_3x" /\ step <= 3)

Served ==
  /\ Standing => \A r \in rows \cup View : There(r, static)
  /\ ~Follows("local", "beats_3x") /\ BeforeRm => NoSingles

LEMMA BeforeRmStep ==
  ASSUME Shape, OnTrack, Next, BeforeRm', ~Follows("local", "beats_3x")
  PROVE  BeforeRm /\ task # "local"
<1>0. OrderShape /\ step \in Nat /\ "beats_3x" # "local" /\ "local" \in Tasks
  BY DEF Shape, OrderShape, Tasks
<1>1. BeforeRm
  <2>1. CASE Coming("beats_3x")'
    BY <1>0, <2>1, LessIsPending DEF BeforeRm
  <2>2. CASE task' = "beats_3x" /\ step' <= 3
    <3>1. CASE Begin
      <4>1. Pending("beats_3x")'
        BY <2>2 DEF Pending
      <4> QED
        BY <1>0, <3>1, <4>1, LessIsPending DEF BeforeRm
    <3>2. CASE ~Begin
      BY <1>0, <2>2, <3>2, TaskMoves DEF GoesOn, BeforeRm
    <3> QED
      BY <3>1, <3>2
  <2> QED
    BY <2>1, <2>2 DEF BeforeRm
<1>2. task # "local"
  <2>1. ASSUME task = "local"
        PROVE  FALSE
    <3>1. ~Coming("beats_3x")
      BY <1>0, <2>1, NotAfter
    <3> QED
      BY <1>0, <1>1, <2>1, <3>1 DEF BeforeRm
  <2> QED
    BY <2>1
<1> QED
  BY <1>1, <1>2

LEMMA NoSinglesStep ==
  ASSUME Shape, OnTrack, Drafted, Served, Next, BeforeRm', ~Follows("local", "beats_3x")
  PROVE  NoSingles'
<1>1. task # "local" /\ NoSingles
  BY BeforeRmStep DEF Served
<1>2. ASSUME NEW i \in 1..Len(seeds'["beat"])
      PROVE  ~Single(seeds'["beat"][i])
  <2>1. CASE seeds' = seeds
    BY <1>1, <2>1 DEF NoSingles
  <2>2. CASE WriteSamples
    <3>1. seeds'["beat"] = seeds["beat"]
      BY <2>2, WrittenSamples
    <3> QED
      BY <1>1, <3>1 DEF NoSingles
  <2>3. CASE WriteBeats
    <3>1. script # "none" /\ script # "seed_samples_3x" /\ seeds'["beat"] = out["beat"]
      BY <2>3, WrittenBeats
    <3>2. PICK r : r = out["beat"][i]
      OBVIOUS
    <3>3. Drawn(r, script, pos, used, build)
      BY <3>1, <3>2 DEF Drafted, Draft, Kinds
    <3>4. CASE script = "seed_content"
      BY <3>1, <3>2, <3>3, <3>4 DEF Drawn, Single
    <3>5. CASE script = "seed_beats_3x"
      <4>1. PICK q \in 1..Len(Plan[script]) : Source(Plan[script][q], r)
        BY <3>3 DEF Drawn
      <4>2. Plan[script] = BeatsPlan /\ DOMAIN BeatsPlan = 1..Len(BeatsPlan)
        BY <3>5, TablesSound DEF Plan, PlanSlots
      <4>3. Plan[script][q].file # 0
        BY <4>1, <4>2, TablesSound DEF BeatFiles
      <4> QED
        BY <3>1, <3>2, <4>1, <4>3 DEF Source, Single
    <3> QED
      BY <3>1, <3>4, <3>5, RunningWhere DEF Scripts
  <2>4. ~RewriteFiles
    BY <1>1, GivenWhere DEF RewriteFiles, Shape
  <2> QED
    BY <2>1, <2>2, <2>3, <2>4, SeedChanges
<1>3. ASSUME NEW i \in 1..Len(deployed'["beat"])
      PROVE  ~Single(deployed'["beat"][i])
  BY <1>1, DeployedChanges DEF Push, NoSingles
<1>4. ASSUME NEW r \in rows'
      PROVE  ~Single(r)
  <2>1. ~MigrateCommit
    BY <1>1, MigratingWhere
  <2>2. ASSUME NEW k \in Kinds, NEW i \in 1..Len(deployed[k]), r = deployed[k][i]
        PROVE  ~Single(r)
    <3>1. r.kind = k /\ (k = "beat" \/ k = "sample")
      BY <2>2 DEF Shape, ServerShape, GoodFiles, GoodFile, Kinds
    <3> QED
      BY <1>1, <2>2, <3>1 DEF NoSingles, Single
  <2>3. "beat" \in Kinds /\ "sample" \in Kinds
    BY DEF Kinds
  <2> QED
    BY <1>1, <2>1, <2>2, <2>3, RowsFrom DEF NoSingles
<1> QED
  BY <1>2, <1>3, <1>4 DEF NoSingles

\* The rows a reseed takes from the image are those of the seed files, and their files
\* are there.
LEMMA LoadedThere ==
  ASSUME Shape, Staged, Next, NEW r \in rows'
  PROVE  \/ r \in rows
         \/ /\ task = "content" /\ r.url.host = "fal"
            /\ \E k \in Kinds : \E i \in 1..Len(seeds[k]) : r = seeds[k][i]
         \/ /\ task = "samples_3x" /\ r.kind = "sample" /\ Plays(r, static)
         \/ /\ task = "beats_3x" /\ r.kind = "beat" /\ Plays(r, static)
         \/ MigrateCommit /\ r \in View
<1>0. "beat" \in Kinds /\ "sample" \in Kinds
  BY DEF Kinds
<1>1. CASE Given("reseed") /\ \E k \in Kinds : \E i \in 1..Len(deployed[k]) : r = deployed[k][i]
  <2>1. task = "content" /\ step = 4
    BY <1>1, GivenWhere DEF Shape
  <2>2. deployed = seeds /\ \A k \in Kinds : AtFal(seeds[k])
    BY <2>1 DEF Staged, Released, Pushed, ContentAtFal
  <2> QED
    BY <1>1, <2>1, <2>2 DEF AtFal
<1>2. CASE Given("reseed_samples") /\ \E i \in 1..Len(deployed["sample"]) : r = deployed["sample"][i]
  <2>1. task = "samples_3x" /\ step = 4
    BY <1>2, GivenWhere DEF Shape
  <2>2. deployed = seeds
    BY <2>1 DEF Staged, Released, Pushed
  <2>3. Copied("sample") /\ \A i \in 1..Len(seeds["sample"]) : seeds["sample"][i].kind = "sample"
    BY <1>0, <2>1 DEF Staged, Threefolds, Threefold, Shape, ScriptShape, GoodFiles, GoodFile
  <2> QED
    BY <1>2, <2>1, <2>2, <2>3 DEF Copied
<1>3. CASE Given("reseed_beats") /\ \E i \in 1..Len(deployed["beat"]) : r = deployed["beat"][i]
  <2>1. task = "beats_3x" /\ step = 5
    BY <1>3, GivenWhere DEF Shape
  <2>2. deployed = seeds
    BY <2>1 DEF Staged, Released, Pushed
  <2>3. Copied("beat") /\ \A i \in 1..Len(seeds["beat"]) : seeds["beat"][i].kind = "beat"
    BY <1>0, <2>1 DEF Staged, Threefolds, Threefold, Shape, ScriptShape, GoodFiles, GoodFile
  <2> QED
    BY <1>3, <2>1, <2>2, <2>3 DEF Copied
<1> QED
  BY <1>1, <1>2, <1>3, RowsFrom

LEMMA StandingStep ==
  ASSUME Shape, WritingThere, OnTrack, Staged, Served, Next, Standing', NEW r \in rows' \cup View',
         ~Follows("local", "beats_3x") \/ ~Follows("beats_3x", "local")
  PROVE  There(r, static')
<1>1. Standing
  BY LessIsPending DEF Standing, Follows, Shape
<1>2. \A o \in rows \cup View : There(o, static)
  BY <1>1 DEF Served
<1>3. \/ There(r, static)
      \/ r.url.host = "local" /\ r.url \in DOMAIN static'
  <2>1. CASE r \in rows'
    BY <1>2, <2>1, LoadedThere DEF There, Plays
  <2>2. CASE r \in View'
    <3>1. ASSUME NEW o \in View, r = [o EXCEPT !.url = LocalUrl(o)], LocalUrl(o) \in DOMAIN static
          PROVE  There(r, static)
      <4>1. GoodRow(o, Len(fal))
        BY <3>1 DEF View, Shape, ServerShape, GoodTable, GoodMigration
      <4>2. r.url = LocalUrl(o)
        BY <3>1, <4>1 DEF GoodRow
      <4> QED
        BY <3>1, <4>2 DEF There
    <3> QED
      BY <1>2, <2>2, <3>1, ViewFrom
  <2> QED
    BY <2>1, <2>2
<1>4. CASE DOMAIN static \subseteq DOMAIN static'
  BY <1>3, <1>4 DEF There
<1>5. CASE Rm
  <2>1. task = "beats_3x" /\ step = 3 /\ rows' = rows /\ mig' = mig /\ mig = Idle
    BY <1>5, GivenWhere DEF Rm, Shape, OrderShape
  <2>2. r \in rows
    BY <2>1 DEF View
  <2>3. ~Follows("local", "beats_3x")
    <3>1. ASSUME Follows("local", "beats_3x")
          PROVE  FALSE
      <4>1. ~Coming("local")
        BY <2>1, <3>1, NotAfter DEF Tasks
      <4> QED
        BY <1>1, <2>1, <3>1, <4>1 DEF Standing, Pending
    <3> QED
      BY <3>1
  <2>4. ~Single(r) /\ There(r, static)
    BY <1>2, <2>1, <2>2, <2>3 DEF Served, BeforeRm, NoSingles
  <2>5. r.url.host = "local" => r.url.kind = r.kind
    <3>1. GoodRow(r, Len(fal))
      BY <2>2 DEF Shape, ServerShape, GoodTable
    <3> QED
      BY <3>1, FalFields, LocalFields DEF GoodRow
  <2> QED
    BY <1>5, <2>4, <2>5, RmFacts DEF There, Single
<1>6. CASE Migrating
  <2>1. DOMAIN static \subseteq DOMAIN static'
    BY <1>6, MigrationFacts DEF Migrating, GivesUp, Leaves, Repoints, Fetches, SoundsKept
  <2> QED
    BY <1>4, <2>1
<1>7. CASE Scp
  BY <1>4, <1>7, ScpFacts
<1> QED
  BY <1>4, <1>5, <1>6, <1>7, StaticChanges

LEMMA ServedHolds ==
  ~Follows("local", "beats_3x") \/ ~Follows("beats_3x", "local") => (Spec => []Served)
<1>1. SUFFICES ASSUME ~Follows("local", "beats_3x") \/ ~Follows("beats_3x", "local")
               PROVE  Spec => []Served
  OBVIOUS
<1>2. Shape /\ WritingThere /\ OnTrack /\ Drafted /\ Kept /\ Staged /\ Served /\ Next => Served'
  <2>1. SUFFICES ASSUME Shape, WritingThere, OnTrack, Drafted, Kept, Staged, Served, Next
                 PROVE  Served'
    OBVIOUS
  <2>2. Standing' => \A r \in rows' \cup View' : There(r, static')
    BY <1>1, <2>1, StandingStep
  <2>3. ~Follows("local", "beats_3x") /\ BeforeRm' => NoSingles'
    BY <2>1, NoSinglesStep
  <2> QED
    BY <2>2, <2>3 DEF Served, Follows
<1>3. Served /\ UNCHANGED vars => Served'
  BY DEF Served, Standing, Pending, Coming, BeforeRm, NoSingles, View, vars, Follows
<1>4. Init => Served
  <2>1. SUFFICES ASSUME Init
                 PROVE  Served
    OBVIOUS
  <2>2. seeds = NoRows /\ deployed = NoRows /\ rows = {} /\ View = {}
    BY <2>1 DEF Init, ScriptInit, View
  <2>3. \A i \in 1..Len(NoRows["beat"]) : FALSE
    <3>1. Len(NoRows["beat"]) = 0
      BY NoDraft DEF Kinds
    <3> QED
      BY <3>1
  <2> QED
    BY <2>2, <2>3 DEF Served, NoSingles
<1> QED
  BY <1>2, <1>3, <1>4, ShapeHolds, WritingThereHolds, OnTrackHolds, DraftsHold, StagedHolds,
     PTL DEF Spec

LEMMA ListedRows ==
  ASSUME NEW r \in Listed
  PROVE  r \in rows
BY DEF Listed, list_beats, group_samples_by_category, list_samples, Range

\* What a client is shown depends on an item's row alone.
LEMMA StaysListed ==
  ASSUME NEW r \in Listed', r \in rows
  PROVE  r \in Listed
<1> DEFINE shown == UNION Range(group_samples_by_category(list_samples(Every, Every)))
<1>1. /\ r \in list_beats(Every)' \/ r \in shown'
      /\ list_beats(Every) \cup shown = Listed
  BY DEF Listed
<1>2. CASE r \in list_beats(Every)'
  BY <1>1, <1>2 DEF list_beats
<1>3. CASE r \in shown'
  <2>1. PICK k \in Range(category_response_key) :
          r \in {s \in list_samples(Every, Every)' : category_response_key[s.group] = k}
    BY <1>3 DEF group_samples_by_category, Range
  <2>2. r \in {s \in list_samples(Every, Every) : category_response_key[s.group] = k}
    BY <2>1 DEF list_samples
  <2> QED
    BY <1>1, <2>2 DEF group_samples_by_category, Range
<1> QED
  BY <1>1, <1>2, <1>3

\* While a migration runs, what it will commit is a row that the tables have or
\* one whose file is there.
ViewThere == \A r \in View : r \in rows \/ There(r, static)

LEMMA FilesGrow ==
  ASSUME Shape, WritingThere, Next, ~Rm
  PROVE  DOMAIN static \subseteq DOMAIN static'
<1>1. CASE Migrating
  BY <1>1, MigrationFacts DEF Migrating, GivesUp, Leaves, Repoints, Fetches, SoundsKept
<1>2. CASE Scp
  BY <1>2, ScpFacts
<1> QED
  BY <1>1, <1>2, StaticChanges

LEMMA ViewThereStep ==
  ASSUME Shape, WritingThere, ViewThere, Next, NEW r \in View'
  PROVE  r \in rows' \/ There(r, static')
<1>0. OrderShape /\ task \in Tasks \cup {"none"} /\ step \in Nat \ {0}
  BY DEF Shape, OrderShape
<1>1. mig # Idle \/ MigrateBegin
  BY MigrationChanges, MigratingWhere DEF View
<1>2. task = "local" /\ step = 1
  BY <1>0, <1>1, MigratingWhere DEF OrderShape
<1>3. ~Rm /\ ~Wipe /\ ~Reseeds
  BY <1>0, <1>2, GivenWhere, ReseedsWhere DEF Rm, Wipe
<1>4. rows' = rows
  <2>1. MigrateCommit => mig' = Idle
    BY DEF MigrateCommit
  <2> QED
    BY <1>3, <2>1, RowsChanges DEF View
<1>5. DOMAIN static \subseteq DOMAIN static'
  BY <1>3, FilesGrow
<1>6. CASE r \in View
  BY <1>4, <1>5, <1>6 DEF ViewThere, There
<1>7. CASE MigrateBegin /\ r \in rows
  BY <1>4, <1>7
<1>8. ASSUME NEW o \in View, r = [o EXCEPT !.url = LocalUrl(o)], LocalUrl(o) \in DOMAIN static'
      PROVE  There(r, static')
  <2>1. GoodRow(o, Len(fal))
    BY <1>8 DEF View, Shape, ServerShape, GoodTable, GoodMigration
  <2>2. r.url = LocalUrl(o)
    BY <1>8, <2>1 DEF GoodRow
  <2> QED
    BY <1>8, <2>2 DEF There
<1> QED
  BY <1>6, <1>7, <1>8, ViewFrom

LEMMA ViewThereHolds == Spec => []ViewThere
<1>1. Shape /\ WritingThere /\ ViewThere /\ Next => ViewThere'
  BY ViewThereStep DEF ViewThere
<1>2. ViewThere /\ UNCHANGED vars => ViewThere'
  BY DEF ViewThere, View, There, vars
<1>3. Init => ViewThere
  BY DEF Init, ViewThere, View
<1> QED
  BY <1>1, <1>2, <1>3, ShapeHolds, WritingThereHolds, PTL DEF Spec

LEMMA FilesFirstStep ==
  ASSUME Shape, WritingThere, Staged, ViewThere, Next, NEW r \in Listed',
         r.url.host = "local", r.url \notin DOMAIN static'
  PROVE  /\ r \in Listed
         /\ \/ r.url \notin DOMAIN static
            \/ Given("rm") /\ r.kind = "beat" /\ r.url.n = 0
<1>1. r \in rows'
  BY DEF Listed, list_beats, group_samples_by_category, list_samples, Range
<1>2. CASE Rm
  <2>1. rows' = rows /\ Given("rm") /\ r \in rows
    BY <1>1, <1>2 DEF Rm
  <2>2. GoodRow(r, Len(fal))
    BY <2>1 DEF Shape, ServerShape, GoodTable
  <2>3. r.url.kind = r.kind
    BY <2>2, FalFields, LocalFields DEF GoodRow
  <2>4. r.url \in DOMAIN static => r.url.kind = "beat" /\ r.url.n = 0
    BY <1>2, RmFacts
  <2> QED
    BY <2>1, <2>3, <2>4, StaysListed
<1>3. CASE ~Rm
  <2>1. r.url \notin DOMAIN static
    BY <1>3, FilesGrow
  <2>2. r \in rows
    BY <1>1, <2>1, LoadedThere DEF Plays, ViewThere, There
  <2> QED
    BY <2>1, <2>2, StaysListed
<1> QED
  BY <1>2, <1>3

\* FilesComeFirst (run catalog): whatever the operator does in whatever order, and
\* whatever fails or is cut off, no command shows an item whose audio file is not
\* there, and none but the rm that seed_beats_3x.py prints takes the file of an item
\* that is shown; that one takes only the file a genre had before.
THEOREM FilesFirst == Spec => FilesComeFirst
<1>1. Shape /\ WritingThere /\ Staged /\ ViewThere /\ [Next]_vars =>
        [\A r \in Listed' : r.url.host = "local" /\ r.url \notin DOMAIN static' =>
           /\ r \in Listed
           /\ \/ r.url \notin DOMAIN static
              \/ Given("rm") /\ r.kind = "beat" /\ r.url.n = 0]_vars
  BY FilesFirstStep
<1> QED
  BY <1>1, ShapeHolds, WritingThereHolds, StagedHolds, ViewThereHolds, PTL
  DEF Spec, FilesComeFirst

-----------------------------------------------------------------------------
(* The rows and the seed files agree through a migration to local files. *)

Same(d, r) ==
  /\ d.kind = r.kind /\ d.group = r.group /\ d.tags = r.tags /\ d.title = r.title
  /\ d.sort_order = r.sort_order /\ d.sound = r.sound

\* A row of the tables is one of the seed files, at fal's storage or at its local file.
Matched(r, files) ==
  /\ r.url.host = "fal" \/ r.url = LocalUrl(r)
  /\ \E i \in 1..Len(files[r.kind]) : Same(files[r.kind][i], r)

MigrationNear == (AtRest /\ Coming("local")) \/ task = "local"

Agreed ==
  /\ MigrationNear => \A r \in rows : Matched(r, seeds)
  /\ \A r \in View : Matched(r, seeds)

LEMMA RepointMatched ==
  ASSUME NEW o, NEW uploads, GoodRow(o, uploads), NEW files, Matched(o, files),
         NEW r, r = [o EXCEPT !.url = LocalUrl(o)]
  PROVE  Matched(r, files) /\ r.url = LocalUrl(r)
<1>1. PICK u : u = LocalUrl(o)
  OBVIOUS
<1>2. /\ r.url = u /\ r.kind = o.kind /\ r.group = o.group /\ r.tags = o.tags
      /\ r.title = o.title /\ r.sort_order = o.sort_order /\ r.sound = o.sound
  BY <1>1 DEF GoodRow
<1>3. LocalUrl(r) = u
  BY <1>1, <1>2 DEF LocalUrl
<1>4. PICK i \in 1..Len(files[o.kind]) : Same(files[o.kind][i], o)
  BY DEF Matched
<1>5. Same(files[r.kind][i], r)
  BY <1>2, <1>4 DEF Same
<1> QED
  BY <1>2, <1>3, <1>4, <1>5 DEF Matched

LEMMA RewriteMatched ==
  ASSUME Shape, RewriteFiles, NEW r, r.kind \in Kinds, Matched(r, seeds)
  PROVE  Matched(r, seeds')
<1>1. PICK i \in 1..Len(seeds[r.kind]) : Same(seeds[r.kind][i], r)
  BY DEF Matched
<1>2. Rewritten(seeds'[r.kind], seeds[r.kind])
  BY RewrittenFiles
<1>3. i \in 1..Len(seeds'[r.kind]) /\ Same(seeds'[r.kind][i], r)
  BY <1>1, <1>2 DEF Rewritten, Same
<1> QED
  BY <1>3 DEF Matched

\* A migration comes near when the content has just been loaded.
LEMMA ComesNear ==
  ASSUME Shape, OnTrack, Next, MigrationNear',
         ~Follows("beats_3x", "local"), ~Follows("samples_3x", "local")
  PROVE  \/ MigrationNear /\ ~Reseeds
         \/ Reseeds /\ task = "content" /\ step = 4
<1>0. /\ OrderShape /\ step \in Nat \ {0} /\ task \in Tasks \cup {"none"} /\ "local" \in Tasks
      /\ "beats_3x" \in Tasks /\ "samples_3x" \in Tasks
  BY DEF Shape, OrderShape, Tasks
<1>1. CASE Begin
  <2>1. task' \in Tasks /\ step' = 1 /\ AtRest /\ ~Reseeds
    <3>1. ~Reseeds
      <4>1. ASSUME Reseeds
            PROVE  FALSE
        BY <1>0, <1>1, <4>1, ReseedsWhere, NotAtRest DEF Begin
      <4> QED
        BY <4>1
    <3> QED
      BY <1>0, <1>1, <3>1, BeginFacts DEF Begin
  <2>2. ~AtRest'
    <3>1. PICK t \in Tasks : t = task'
      BY <2>1
    <3>2. ~(1 > Len(Runbook[t]))
      BY <3>1, RestWhere DEF Tasks
    <3> QED
      BY <2>1, <3>1, <3>2 DEF AtRest
  <2>3. Coming("local")
    BY <1>0, <1>1, <2>2, LessIsPending DEF MigrationNear, Pending
  <2> QED
    BY <2>1, <2>3 DEF MigrationNear
<1>2. CASE ~Begin /\ step' = step
  <2>1. task' = task /\ ahead' = ahead
    BY <1>2, TaskMoves DEF GoesOn
  <2>2. MigrationNear
    BY <1>2, <2>1 DEF MigrationNear, AtRest, Coming
  <2>3. ~Reseeds
    <3>1. ASSUME Reseeds
          PROVE  FALSE
      BY <1>0, <1>2, <3>1, ReseedsWhere DEF Done
    <3> QED
      BY <3>1
  <2> QED
    BY <2>2, <2>3
<1>3. CASE ~Begin /\ step' # step
  <2>1. task' = task /\ ahead' = ahead /\ step' = step + 1
    BY <1>3, Advances
  <2>2. CASE task = "local"
    BY <2>2, ReseedsWhere DEF MigrationNear
  <2>3. CASE task # "local"
    <3>1. AtRest' /\ Coming("local")
      BY <2>1, <2>3 DEF MigrationNear, Coming
    <3>2. task # "beats_3x" /\ task # "samples_3x"
      BY <1>0, <3>1, NotAfter
    <3>3. CASE AtRest
      <4>1. ~Reseeds
        <5>1. ASSUME Reseeds
              PROVE  FALSE
          BY <1>0, <3>3, <5>1, ReseedsWhere, NotAtRest
        <5> QED
          BY <5>1
      <4> QED
        BY <3>1, <3>3, <4>1 DEF MigrationNear
    <3>4. CASE ~AtRest
      <4>1. PICK t \in Tasks \cup {"none"}, s \in Nat \ {0} : t = task /\ s = step
        BY <1>0
      <4>2. ~(s > Len(Runbook[t])) /\ s + 1 > Len(Runbook[t])
        BY <2>1, <3>1, <3>4, <4>1 DEF AtRest
      <4>3. t = "content" /\ s = 4
        <5>1. s + 1 \in Nat \ {0}
          OBVIOUS
        <5> QED
          BY <2>3, <3>2, <4>1, <4>2, <5>1, RestWhere DEF Tasks
      <4>4. \/ Push \/ Scp \/ Rm \/ Wipe \/ RewriteFiles \/ Reseeds
        BY <1>3, <4>1, <4>3, Advances
      <4>5. ~Push /\ ~Scp /\ ~Rm /\ ~Wipe /\ ~RewriteFiles
        BY <1>0, <4>1, <4>3, GivenWhere DEF Push, Scp, Rm, Wipe, RewriteFiles
      <4> QED
        BY <4>1, <4>3, <4>4, <4>5
    <3> QED
      BY <3>3, <3>4
  <2> QED
    BY <2>2, <2>3
<1> QED
  BY <1>1, <1>2, <1>3

LEMMA RowsAgreeStep ==
  ASSUME Shape, OnTrack, Staged, Agreed, Next, MigrationNear', NEW r \in rows',
         ~Follows("beats_3x", "local"), ~Follows("samples_3x", "local")
  PROVE  Matched(r, seeds')
<1>0. OrderShape
  BY DEF Shape
<1>1. CASE Reseeds /\ task = "content" /\ step = 4
  <2>1. rows = {} /\ seeds' = seeds
    BY <1>1, ReseedsWhere DEF Staged, Emptied
  <2>2. ~MigrateCommit
    BY <1>1, MigratingWhere
  <2>3. /\ r.url.host = "fal"
        /\ \E k \in Kinds : \E i \in 1..Len(seeds[k]) : r = seeds[k][i]
    BY <1>1, <2>1, <2>2, LoadedThere
  <2>4. PICK k \in Kinds, i \in Nat : i \in 1..Len(seeds[k]) /\ r = seeds[k][i]
    BY <2>3
  <2>5. r.kind = k
    BY <2>4 DEF Shape, ScriptShape, GoodFiles, GoodFile
  <2> QED
    BY <2>1, <2>3, <2>4, <2>5 DEF Matched, Same
<1>2. CASE MigrationNear /\ ~Reseeds
  <2>1. \A o \in rows \cup View : Matched(o, seeds)
    BY <1>2 DEF Agreed
  <2>2. Matched(r, seeds)
    <3>1. rows' \subseteq rows \cup View
      <4>1. CASE MigrateCommit
        <5>1. mig # Idle /\ rows' = mig.view
          BY <4>1 DEF MigrateCommit, Idle
        <5> QED
          BY <5>1 DEF View
      <4> QED
        BY <1>2, <4>1, RowsChanges DEF Wipe
    <3> QED
      BY <2>1, <3>1
  <2>3. CASE seeds' = seeds
    BY <2>2, <2>3
  <2>4. CASE RewriteFiles
    <3>1. r \in rows
      BY <2>4 DEF RewriteFiles
    <3>2. r.kind \in Kinds
      BY <3>1 DEF Shape, ServerShape, GoodTable, GoodRow
    <3> QED
      BY <2>2, <2>4, <3>2, RewriteMatched
  <2>5. CASE seeds' # seeds /\ ~RewriteFiles
    <3>1. /\ task' = task /\ task \in {"content", "samples_3x", "beats_3x"}
          /\ step = 1 /\ step' \in {1, 2}
      BY <2>5, SeedsMoveWhere
    <3>2. ~AtRest'
      <4>1. PICK t \in Tasks \cup {"none"}, s \in Nat \ {0} : t = task' /\ s = step'
        BY <3>1 DEF Tasks
      <4>2. ~(s > Len(Runbook[t]))
        BY <3>1, <4>1, RestWhere
      <4> QED
        BY <4>1, <4>2 DEF AtRest
    <3> QED
      BY <3>1, <3>2 DEF MigrationNear
  <2> QED
    BY <2>3, <2>4, <2>5
<1> QED
  BY <1>1, <1>2, ComesNear

LEMMA ViewAgreeStep ==
  ASSUME Shape, WritingThere, Agreed, Next, NEW r \in View'
  PROVE  Matched(r, seeds')
<1>1. seeds' = seeds
  <2>1. ASSUME seeds' # seeds
        PROVE  FALSE
    BY <2>1, SeedsMoveWhere DEF View
  <2> QED
    BY <2>1
<1>2. CASE r \in View
  BY <1>1, <1>2 DEF Agreed
<1>3. CASE MigrateBegin /\ r \in rows
  BY <1>1, <1>3, MigratingWhere DEF Agreed, MigrationNear
<1>4. ASSUME NEW o \in View, r = [o EXCEPT !.url = LocalUrl(o)]
      PROVE  Matched(r, seeds')
  <2>1. GoodRow(o, Len(fal)) /\ Matched(o, seeds)
    BY <1>4 DEF Agreed, View, Shape, ServerShape, GoodTable, GoodMigration
  <2> QED
    BY <1>1, <1>4, <2>1, RepointMatched
<1> QED
  BY <1>2, <1>3, <1>4, ViewFrom

LEMMA AgreedHolds ==
  ~Follows("beats_3x", "local") /\ ~Follows("samples_3x", "local") => (Spec => []Agreed)
<1>1. SUFFICES ASSUME ~Follows("beats_3x", "local"), ~Follows("samples_3x", "local")
               PROVE  Spec => []Agreed
  OBVIOUS
<1>2. Shape /\ WritingThere /\ OnTrack /\ Staged /\ Agreed /\ Next => Agreed'
  <2>1. SUFFICES ASSUME Shape, WritingThere, OnTrack, Staged, Agreed, Next
                 PROVE  Agreed'
    OBVIOUS
  <2>2. MigrationNear' => \A r \in rows' : Matched(r, seeds')
    BY <1>1, <2>1, RowsAgreeStep
  <2>3. \A r \in View' : Matched(r, seeds')
    BY <2>1, ViewAgreeStep
  <2> QED
    BY <2>2, <2>3 DEF Agreed, Matched, LocalUrl, Same
<1>3. Agreed /\ UNCHANGED vars => Agreed'
  BY DEF Agreed, MigrationNear, AtRest, Coming, View, Matched, LocalUrl, Same, vars
<1>4. Init => Agreed
  BY DEF Init, Agreed, View
<1> QED
  BY <1>2, <1>3, <1>4, ShapeHolds, WritingThereHolds, OnTrackHolds, StagedHolds, PTL DEF Spec

\* MigrationAgrees (run catalog): as long as the rows of the 3x scripts are not migrated,
\* migrate_to_local_storage and rewrite_seed_to_local leave every local row of the tables
\* as a row of the seed files, and every row whose download failed as one but for the
\* URL it will have once the migration is run again.
THEOREM RowsAgree ==
  ~Follows("beats_3x", "local") /\ ~Follows("samples_3x", "local")
    => (Spec => []MigrationAgrees)
<1>1. SUFFICES ASSUME ~Follows("beats_3x", "local"), ~Follows("samples_3x", "local")
               PROVE  Spec => []MigrationAgrees
  OBVIOUS
<1>2. ASSUME Shape, Staged, Agreed
      PROVE  MigrationAgrees
  <2>1. SUFFICES ASSUME AtRest, task = "local", NEW r \in rows
                 PROVE  \E i \in DOMAIN deployed[r.kind] :
                          deployed[r.kind][i] = IF r.url.host = "local" THEN r
                                                ELSE [r EXCEPT !.url = LocalUrl(r)]
    BY DEF MigrationAgrees
  <2>2. step > 3
    <3>1. PICK t \in Tasks \cup {"none"}, s \in Nat \ {0} : t = task /\ s = step
      BY <1>2 DEF Shape, OrderShape
    <3>2. s > Len(Runbook[t])
      BY <2>1, <3>1 DEF AtRest
    <3> QED
      BY <2>1, <3>1, <3>2, RestWhere
  <2>3. deployed = seeds
    BY <1>2, <2>1, <2>2 DEF Staged, Released, Pushed
  <2>4. GoodRow(r, Len(fal)) /\ Matched(r, seeds)
    BY <1>2, <2>1 DEF Shape, ServerShape, GoodTable, Agreed, MigrationNear
  <2>5. PICK i \in 1..Len(seeds[r.kind]) : Same(seeds[r.kind][i], r)
    BY <2>4 DEF Matched
  <2>6. PICK d : d = seeds[r.kind][i]
    OBVIOUS
  <2>7. r.kind \in Kinds
    BY <2>4 DEF GoodRow
  <2>8. GoodRow(d, Len(fal)) /\ IsFile(seeds[r.kind])
    BY <1>2, <2>5, <2>6, <2>7 DEF Shape, ScriptShape, GoodFiles, GoodFile
  <2>9. d.url = LocalUrl(d)
    <3>1. step \in Nat /\ step > 2
      BY <1>2, <2>2 DEF Shape, OrderShape
    <3> QED
      BY <1>2, <2>1, <2>5, <2>6, <2>7, <3>1 DEF Staged, Localized
  <2>10. LocalUrl(d) = LocalUrl(r)
    BY <2>5, <2>6 DEF Same, LocalUrl
  <2>11. PICK u : u = LocalUrl(r)
    OBVIOUS
  <2>12. d.url = u
    BY <2>9, <2>10, <2>11
  <2>13. r.url.host = "local" => r.url = u
    BY <2>4, <2>11 DEF Matched
  <2>14. d = [r EXCEPT !.url = u]
    BY <2>4, <2>5, <2>6, <2>8, <2>12 DEF GoodRow, Same
  <2>15. r.url.host = "local" => d = r
    BY <2>4, <2>5, <2>6, <2>8, <2>12, <2>13 DEF GoodRow, Same
  <2> QED
    BY <2>3, <2>5, <2>6, <2>8, <2>11, <2>14, <2>15, FileDomain
<1>3. Spec => []Agreed
  BY <1>1, AgreedHolds
<1> QED
  BY <1>2, <1>3, ShapeHolds, StagedHolds, PTL

-----------------------------------------------------------------------------
(* The files of the rows hold their sounds. *)

\* The 3x scripts, which leave files on the developer's machine, run after every
\* migration to local files; so do the tasks after which a file is there before the
\* content is made.
NothingBuilt ==
  /\ Pending("local") => DOMAIN build = {}
  /\ Pending("local") /\ Pending("content") => DOMAIN static = {}

\* The task of a 3x script is not under way while a migration may come.
LEMMA NoThreefold ==
  ASSUME OnTrack, Pending("local"), ~Follows("beats_3x", "local"), ~Follows("samples_3x", "local")
  PROVE  task # "samples_3x" /\ task # "beats_3x"
<1>1. ASSUME NEW t \in {"samples_3x", "beats_3x"}, task = t
      PROVE  FALSE
  <2>1. t \in Tasks /\ ~Follows(t, "local") /\ t # "local"
    BY DEF Tasks
  <2>2. ~Coming("local")
    BY <1>1, <2>1, NotAfter
  <2> QED
    BY <1>1, <2>1, <2>2 DEF Pending
<1> QED
  BY <1>1

LEMMA NothingBuiltStep ==
  ASSUME Shape, WritingThere, OnTrack, NothingBuilt, Next, ~Follows("beats_3x", "local"),
         ~Follows("samples_3x", "local"), ~Follows("local", "content")
  PROVE  NothingBuilt'
<1>0. OrderShape /\ \A t : Pending(t)' => Pending(t)
  BY LessIsPending DEF Shape
<1>1. ASSUME Pending("local")
      PROVE  task # "samples_3x" /\ task # "beats_3x"
  BY <1>1, NoThreefold
<1>2. ASSUME Pending("local")
      PROVE  DOMAIN build' = {}
  <2>1. ~FetchSamples /\ ~FetchBeat
    BY <1>1, <1>2, RunningWhere DEF FetchSamples, FetchBeat
  <2> QED
    BY <1>2, <2>1, BuildChanges DEF NothingBuilt
<1>3. ASSUME Pending("local"), Pending("content")
      PROVE  DOMAIN static' = {}
  <2>1. DOMAIN static = {}
    BY <1>3 DEF NothingBuilt
  <2>2. ~Scp
    BY <1>0, <1>1, <1>3, GivenWhere DEF Scp
  <2>3. ~Migrating
    <3>1. ASSUME Migrating
          PROVE  FALSE
      <4>1. task = "local"
        BY <3>1, MigratingWhere
      <4>2. ~Coming("content")
        BY <4>1, NotAfter DEF Tasks
      <4> QED
        BY <1>3, <4>1, <4>2 DEF Pending
    <3> QED
      BY <3>1
  <2>4. CASE Rm
    BY <2>1, <2>4, RmFacts
  <2> QED
    BY <2>1, <2>2, <2>3, <2>4, StaticChanges
<1> QED
  BY <1>0, <1>2, <1>3 DEF NothingBuilt

\* The file a migration would use for a row has the row's sound.
Held(r, files) == LocalUrl(r) \in DOMAIN files => files[LocalUrl(r)].sound = r.sound

LocalsHeld ==
  Pending("local") => \A k \in Kinds : \A i \in 1..Len(seeds[k]) : Held(seeds[k][i], static)

\* Two rows of the seed files do not have the same local file.
LEMMA LocalsApart ==
  ASSUME Shape, Kept, BeatsApart, Pending("local"), NEW k \in Kinds, NEW d \in Kinds,
         NEW i \in 1..Len(seeds[k]), NEW j \in 1..Len(seeds[d]),
         NEW o, Same(seeds[d][j], o), LocalUrl(seeds[k][i]) = LocalUrl(o)
  PROVE  o.sound = seeds[k][i].sound
<1>1. PICK r, q : r = seeds[k][i] /\ q = seeds[d][j]
  OBVIOUS
<1>2. r.kind = k /\ q.kind = d
  BY <1>1 DEF Shape, ScriptShape, GoodFiles, GoodFile
<1>3. q.kind = o.kind /\ q.group = o.group /\ q.sort_order = o.sort_order /\ q.sound = o.sound
  BY <1>1 DEF Same
<1>4. LocalUrl(r) = LocalUrl(o)
  BY <1>1
<1>5. /\ LocalUrl(r).kind = r.kind /\ LocalUrl(r).group = r.group
      /\ r.kind # "beat" => LocalUrl(r).n = r.sort_order
      /\ LocalUrl(o).kind = o.kind /\ LocalUrl(o).group = o.group
      /\ o.kind # "beat" => LocalUrl(o).n = o.sort_order
  BY LocalFields DEF LocalUrl
<1>6. k = d /\ r.group = q.group /\ (k # "beat" => r.sort_order = q.sort_order)
  BY <1>2, <1>3, <1>4, <1>5
<1>7. i = j
  <2>1. CASE k = "beat"
    <3>1. OneEach(seeds["beat"])
      BY DEF BeatsApart
    <3> QED
      BY <1>1, <1>6, <2>1, <3>1 DEF OneEach
  <2>2. CASE k = "sample"
    <3>1. NumberedApart(seeds["sample"])
      BY DEF Kept
    <3> QED
      BY <1>1, <1>6, <2>2, <3>1 DEF NumberedApart
  <2> QED
    BY <2>1, <2>2 DEF Kinds
<1> QED
  BY <1>1, <1>3, <1>6, <1>7

LEMMA LocalsHeldStep ==
  ASSUME Shape, WritingThere, OnTrack, Kept, BeatsApart, Uploads, Agreed, NothingBuilt,
         LocalsHeld, Next, Pending("local")', ~Follows("beats_3x", "local"),
         ~Follows("samples_3x", "local"), NEW k \in Kinds, NEW i \in 1..Len(seeds'[k])
  PROVE  Held(seeds'[k][i], static')
<1>0. OrderShape /\ Pending("local")
  BY LessIsPending DEF Shape
<1>1. task # "samples_3x" /\ task # "beats_3x"
  BY <1>0, NoThreefold
<1>2. CASE seeds' # seeds
  <2>1. static' = static
    BY <1>2, SeedsMoveWhere
  <2>2. CASE RewriteFiles
    <3>1. Rewritten(seeds'[k], seeds[k])
      BY <2>2, RewrittenFiles
    <3>2. i \in 1..Len(seeds[k])
      BY <3>1 DEF Rewritten
    <3>3. PICK r, q : r = seeds[k][i] /\ q = seeds'[k][i]
      OBVIOUS
    <3>4. q.kind = r.kind /\ q.group = r.group /\ q.sort_order = r.sort_order /\ q.sound = r.sound
      BY <3>1, <3>2, <3>3 DEF Rewritten
    <3>5. Held(r, static)
      BY <1>0, <3>2, <3>3 DEF LocalsHeld
    <3>6. LocalUrl(q) = LocalUrl(r)
      BY <3>4 DEF LocalUrl
    <3>7. Held(q, static)
      BY <3>4, <3>5, <3>6 DEF Held
    <3> QED
      BY <2>1, <3>3, <3>7
  <2>3. CASE ~RewriteFiles
    <3>1. task = "content"
      BY <1>1, <1>2, <2>3, SeedsMoveWhere
    <3>2. DOMAIN static = {}
      BY <1>0, <3>1 DEF NothingBuilt, Pending
    <3> QED
      BY <2>1, <3>2 DEF Held
  <2> QED
    BY <2>2, <2>3
<1>3. CASE seeds' = seeds
  <2>0. i \in 1..Len(seeds[k])
    BY <1>3
  <2>1. PICK r : r = seeds[k][i]
    OBVIOUS
  <2>2. Held(r, static) /\ seeds'[k][i] = r
    BY <1>0, <1>3, <2>0, <2>1 DEF LocalsHeld
  <2>3. CASE Rm
    BY <2>2, <2>3, RmFacts DEF Held
  <2>4. ~Scp
    BY <1>0, <1>1, GivenWhere DEF Scp
  <2>5. CASE Migrating
    <3>1. SoundsKept(static', static) \/ \E o : Fetches(o)
      BY <2>5, MigrationFacts DEF Migrating, GivesUp, Leaves, Repoints
    <3>2. CASE SoundsKept(static', static)
      BY <2>2, <3>2 DEF SoundsKept, Held
    <3>3. ASSUME NEW o, Fetches(o)
          PROVE  Held(r, static')
      <4>1. mig # Idle /\ mig.left \subseteq mig.view
        BY <2>5, MigrationFacts DEF Migrating, Shape, ServerShape, GoodMigration
      <4>2. o \in View
        BY <3>3, <4>1 DEF Fetches, View
      <4>3. o.url.host = "fal" /\ fal[o.url.n] = o.sound
        BY <3>3, <4>2 DEF Fetches, Uploads, Right
      <4>4. GoodRow(o, Len(fal)) /\ Matched(o, seeds)
        BY <4>2 DEF Agreed, View, Shape, ServerShape, GoodTable, GoodMigration
      <4>5. PICK j : j \in 1..Len(seeds[o.kind]) /\ Same(seeds[o.kind][j], o)
        BY <4>4 DEF Matched
      <4>6. o.kind \in Kinds
        BY <4>4 DEF GoodRow
      <4>7. ASSUME LocalUrl(r) = LocalUrl(o)
            PROVE  o.sound = r.sound
        BY <1>0, <2>0, <2>1, <4>5, <4>6, <4>7, LocalsApart
      <4>8. PICK u, v : u = LocalUrl(r) /\ v = LocalUrl(o)
        OBVIOUS
      <4>9. /\ DOMAIN static' = DOMAIN static \cup {v} /\ static'[v].sound = o.sound
            /\ \A f \in DOMAIN static : static'[f] = static[f]
        BY <3>3, <4>3, <4>8 DEF Fetches
      <4>10. u \in DOMAIN static => static[u].sound = r.sound
        BY <2>2, <4>8 DEF Held
      <4>11. u \in DOMAIN static' => static'[u].sound = r.sound
        <5>1. CASE u = v
          BY <4>7, <4>8, <4>9, <5>1
        <5>2. CASE u # v
          BY <4>9, <4>10, <5>2
        <5> QED
          BY <5>1, <5>2
      <4> QED
        BY <4>8, <4>11 DEF Held
    <3> QED
      BY <2>2, <3>1, <3>2, <3>3
  <2> QED
    BY <2>2, <2>3, <2>4, <2>5, StaticChanges
<1> QED
  BY <1>2, <1>3

LEMMA LocalsHold ==
  ~Follows("beats_3x", "local") /\ ~Follows("samples_3x", "local") /\ ~Follows("local", "content")
    => (Spec => [](NothingBuilt /\ LocalsHeld))
<1>1. SUFFICES ASSUME ~Follows("beats_3x", "local"), ~Follows("samples_3x", "local"),
                      ~Follows("local", "content")
               PROVE  Spec => [](NothingBuilt /\ LocalsHeld)
  OBVIOUS
<1>2. /\ Shape /\ WritingThere /\ OnTrack /\ Drafted /\ Kept /\ BeatsApart /\ Uploads /\ Agreed
      /\ NothingBuilt /\ LocalsHeld /\ Next
      => (NothingBuilt /\ LocalsHeld)'
  <2>1. SUFFICES ASSUME Shape, WritingThere, OnTrack, Kept, BeatsApart, Uploads, Agreed,
                        NothingBuilt, LocalsHeld, Next
                 PROVE  NothingBuilt' /\ LocalsHeld'
    OBVIOUS
  <2>2. NothingBuilt'
    BY <1>1, <2>1, NothingBuiltStep
  <2>3. LocalsHeld'
    <3>1. SUFFICES ASSUME Pending("local")', NEW k \in Kinds, NEW i \in 1..Len(seeds'[k])
                   PROVE  Held(seeds'[k][i], static')
      BY DEF LocalsHeld, Held, LocalUrl
    <3> QED
      BY <1>1, <2>1, <3>1, LocalsHeldStep
  <2> QED
    BY <2>2, <2>3
<1>3. NothingBuilt /\ LocalsHeld /\ UNCHANGED vars => (NothingBuilt /\ LocalsHeld)'
  BY DEF NothingBuilt, LocalsHeld, Held, LocalUrl, Pending, Coming, vars
<1>4. Init => NothingBuilt /\ LocalsHeld
  <2>1. SUFFICES ASSUME Init
                 PROVE  NothingBuilt /\ LocalsHeld
    OBVIOUS
  <2>2. build = <<>> /\ static = <<>>
    BY <2>1 DEF Init, ScriptInit
  <2>3. DOMAIN <<>> = {}
    OBVIOUS
  <2> QED
    BY <2>2, <2>3 DEF NothingBuilt, LocalsHeld, Held
<1>5. Spec => []BeatsApart
  BY <1>1, ApartHolds
<1>6. Spec => []Agreed
  BY <1>1, AgreedHolds
<1> QED
  BY <1>2, <1>3, <1>4, <1>5, <1>6, ShapeHolds, WritingThereHolds, OnTrackHolds, DraftsHold,
     UploadsHold, PTL DEF Spec

\* A file of the developer's machine that a seed file names has the sound of the row,
\* but while a 3x script writes its files and has not yet written the seed file.
BuildHeld(r, directory) == r.url \in DOMAIN directory => directory[r.url] = r.sound

BuildsHeld ==
  \A k \in Kinds : ~(Threefold(k) /\ step = 1) =>
    \A i \in 1..Len(seeds[k]) : BuildHeld(seeds[k][i], build)

\* The files a script saves are of its own kind.
LEMMA OwnFiles ==
  ASSUME Shape, FetchSamples \/ FetchBeat, NEW k \in Kinds, ~Threefold(k),
         NEW u, u.kind = k
  PROVE  (u \in DOMAIN build' <=> u \in DOMAIN build)
         /\ (u \in DOMAIN build => build'[u] = build[u])
<1>1. CASE FetchSamples
  <2>1. PICK n, kept, first :
          FilesGain(n, kept, first, [i \in 1..n |-> Local("sample", slot.group, first + i - 1)])
    BY <1>1, SampleGains DEF Shape
  <2>2. PICK names : names = [i \in 1..n |-> Local("sample", slot.group, first + i - 1)]
    OBVIOUS
  <2>3. /\ DOMAIN build' = DOMAIN build \cup {names[i] : i \in 1..n}
        /\ \A f \in DOMAIN build : (\A i \in 1..n : f # names[i]) => build'[f] = build[f]
    BY <2>1, <2>2 DEF FilesGain
  <2>4. \A i \in 1..n : names[i].kind = "sample"
    BY <2>2, LocalFields
  <2>5. k # "sample"
    BY <1>1, RunningWhere DEF FetchSamples, Threefold
  <2> QED
    BY <2>3, <2>4, <2>5
<1>2. CASE FetchBeat
  <2>1. PICK n, kept, first :
          FilesGain(n, kept, first, [i \in 1..n |-> Local("beat", slot.group, slot.file)])
    BY <1>2, BeatGains DEF Shape
  <2>2. PICK names : names = [i \in 1..n |-> Local("beat", slot.group, slot.file)]
    OBVIOUS
  <2>3. /\ DOMAIN build' = DOMAIN build \cup {names[i] : i \in 1..n}
        /\ \A f \in DOMAIN build : (\A i \in 1..n : f # names[i]) => build'[f] = build[f]
    BY <2>1, <2>2 DEF FilesGain
  <2>4. \A i \in 1..n : names[i].kind = "beat"
    BY <2>2, LocalFields
  <2>5. k # "beat"
    BY <1>2, RunningWhere DEF FetchBeat, Threefold
  <2> QED
    BY <2>3, <2>4, <2>5
<1> QED
  BY <1>1, <1>2

LEMMA FalNotBuilt ==
  ASSUME Shape, NEW r, r.url.host = "fal"
  PROVE  BuildHeld(r, build)
<1>1. r.url \notin DOMAIN build
  <2>1. ASSUME r.url \in DOMAIN build
        PROVE  FALSE
    <3>1. r.url = Local(r.url.kind, r.url.group, r.url.n)
      BY <2>1 DEF Shape, ScriptShape, GoodDirectory
    <3> QED
      BY <3>1, LocalFields
  <2> QED
    BY <2>1
<1> QED
  BY <1>1 DEF BuildHeld

\* A seed file of the other kind is left as it is by a 3x script.
LEMMA OtherSeeds ==
  ASSUME Shape, Next, NEW k \in Kinds, ~Threefold(k), task \in {"samples_3x", "beats_3x"}
  PROVE  seeds'[k] = seeds[k]
<1>1. CASE seeds' = seeds
  BY <1>1
<1>2. CASE seeds' # seeds
  <2>1. /\ WriteBeats \/ WriteSamples
        /\ script # "none"
    BY <1>2, SeedsMoveWhere
  <2>2. CASE task = "samples_3x"
    <3>1. k = "beat" /\ script = "seed_samples_3x"
      BY <2>1, <2>2, RunningWhere DEF Threefold, Kinds, Scripts
    <3> QED
      BY <2>1, <3>1, WrittenBeats, WrittenSamples
  <2>3. CASE task = "beats_3x"
    <3>1. k = "sample" /\ script = "seed_beats_3x"
      BY <2>1, <2>3, RunningWhere DEF Threefold, Kinds, Scripts
    <3> QED
      BY <2>1, <3>1, WrittenBeats, WrittenSamples
  <2> QED
    BY <2>2, <2>3
<1> QED
  BY <1>1, <1>2

LEMMA BuildsHeldStep ==
  ASSUME Shape, Shape', Drafted, Staged, NothingBuilt, BuildsHeld, Next,
         NEW k \in Kinds, ~(Threefold(k)' /\ step' = 1), NEW i \in 1..Len(seeds'[k])
  PROVE  BuildHeld(seeds'[k][i], build')
<1>0. OrderShape /\ step \in Nat \ {0} /\ step' \in Nat \ {0} /\ (k = "beat" \/ k = "sample")
  BY DEF Shape, OrderShape, Kinds
<1>1. CASE Threefold(k)'
  <2>1. step' > 1
    BY <1>0, <1>1
  <2>2. Built(k)'
    BY <1>1, <2>1, BuiltStep DEF Staged
  <2> QED
    BY <2>2 DEF Built, Builds, BuildHeld
<1>2. CASE ~Threefold(k)' /\ Begin
  <2>1. ~(Threefold(k) /\ step = 1)
    <3>1. ASSUME Threefold(k), step = 1
          PROVE  FALSE
      <4>1. PICK t \in Tasks : t = task
        BY <1>0, <3>1 DEF Threefold, Tasks
      <4>2. ~(1 > Len(Runbook[t]))
        BY <4>1, RestWhere DEF Tasks
      <4> QED
        BY <1>2, <3>1, <4>1, <4>2 DEF Begin, AtRest
    <3> QED
      BY <3>1
  <2>2. seeds' = seeds /\ build' = build
    BY <1>2 DEF Begin
  <2> QED
    BY <2>1, <2>2 DEF BuildsHeld, BuildHeld
<1>3. CASE ~Threefold(k)' /\ ~Begin
  <2>1. task' = task /\ ~Threefold(k)
    BY <1>3, TaskMoves DEF GoesOn, Threefold
  <2>2. \A j \in 1..Len(seeds[k]) : BuildHeld(seeds[k][j], build)
    BY <2>1 DEF BuildsHeld
  <2>3. CASE seeds' = seeds /\ build' = build
    BY <2>2, <2>3
  <2>4. CASE FetchSamples \/ FetchBeat
    <3>1. seeds' = seeds
      BY <2>4 DEF FetchSamples, FetchBeat
    <3>2. PICK r : r = seeds[k][i]
      OBVIOUS
    <3>3. GoodRow(r, Len(fal)) /\ r.kind = k /\ BuildHeld(r, build)
      BY <2>2, <3>1, <3>2 DEF Shape, ScriptShape, GoodFiles, GoodFile
    <3>4. \/ r.url.host = "fal"
          \/ r.url.kind = k
      BY <3>3, FalFields, LocalFields DEF GoodRow
    <3>5. CASE r.url.host = "fal"
      <4>1. BuildHeld(r, build')
        <5>1. r.url \notin DOMAIN build'
          <6>1. ASSUME r.url \in DOMAIN build'
                PROVE  FALSE
            <7>1. r.url = Local(r.url.kind, r.url.group, r.url.n)
              BY <6>1 DEF Shape, ScriptShape, GoodDirectory
            <7> QED
              BY <3>5, <7>1, LocalFields
          <6> QED
            BY <6>1
        <5> QED
          BY <5>1 DEF BuildHeld
      <4> QED
        BY <3>1, <3>2, <4>1
    <3>6. CASE r.url.kind = k
      <4>1. /\ r.url \in DOMAIN build' <=> r.url \in DOMAIN build
            /\ r.url \in DOMAIN build => build'[r.url] = build[r.url]
        BY <2>1, <2>4, <3>6, OwnFiles
      <4>2. BuildHeld(r, build')
        BY <3>3, <4>1 DEF BuildHeld
      <4> QED
        BY <3>1, <3>2, <4>2
    <3> QED
      BY <3>4, <3>5, <3>6
  <2>5. CASE seeds' # seeds
    <3>1. build' = build
      BY <2>5, SeedsMoveWhere
    <3>2. CASE task \in {"samples_3x", "beats_3x"}
      BY <2>1, <2>2, <3>1, <3>2, OtherSeeds
    <3>3. CASE task = "content"
      <4>1. (WriteBeats \/ WriteSamples) /\ script = "seed_content"
        BY <2>5, <3>3, SeedsMoveWhere, RunningWhere DEF Scripts
      <4>2. seeds'[k] = seeds[k] \/ seeds'[k] = out[k]
        BY <1>0, <4>1, WrittenBeats, WrittenSamples
      <4>3. CASE seeds'[k] = seeds[k]
        BY <2>2, <3>1, <4>3
      <4>4. CASE seeds'[k] = out[k]
        <5>1. Draft(out[k], script, pos, used, build)
          BY <4>1 DEF Drafted
        <5>2. out[k][i].url.host = "fal"
          BY <4>1, <4>4, <5>1 DEF Draft, Drawn
        <5> QED
          BY <3>1, <4>4, <5>2, FalNotBuilt
      <4> QED
        BY <4>2, <4>3, <4>4
    <3>4. CASE task = "local"
      <4>1. DOMAIN build = {}
        BY <3>4 DEF NothingBuilt, Pending
      <4> QED
        BY <3>1, <4>1 DEF BuildHeld
    <3> QED
      BY <2>5, <3>2, <3>3, <3>4, SeedsMoveWhere
  <2> QED
    BY <2>3, <2>4, <2>5, BuildChanges
<1> QED
  BY <1>1, <1>2, <1>3

LEMMA BuildsHold ==
  ~Follows("beats_3x", "local") /\ ~Follows("samples_3x", "local") /\ ~Follows("local", "content")
    => (Spec => []BuildsHeld)
<1>1. SUFFICES ASSUME ~Follows("beats_3x", "local"), ~Follows("samples_3x", "local"),
                      ~Follows("local", "content")
               PROVE  Spec => []BuildsHeld
  OBVIOUS
<1>2. Shape /\ Shape' /\ Drafted /\ Kept /\ Staged /\ NothingBuilt /\ BuildsHeld /\ Next => BuildsHeld'
  <2>1. SUFFICES ASSUME Shape, Shape', Drafted, Staged, NothingBuilt, BuildsHeld, Next
                 PROVE  BuildsHeld'
    OBVIOUS
  <2>2. SUFFICES ASSUME NEW k \in Kinds, ~(Threefold(k)' /\ step' = 1), NEW i \in 1..Len(seeds'[k])
                 PROVE  BuildHeld(seeds'[k][i], build')
    BY DEF BuildsHeld, BuildHeld, Threefold
  <2> QED
    BY <2>1, <2>2, BuildsHeldStep
<1>3. BuildsHeld /\ UNCHANGED vars => BuildsHeld'
  BY DEF BuildsHeld, BuildHeld, Threefold, vars
<1>4. Init => BuildsHeld
  <2>1. SUFFICES ASSUME Init
                 PROVE  BuildsHeld
    OBVIOUS
  <2>2. build = <<>>
    BY <2>1 DEF Init, ScriptInit
  <2>3. DOMAIN <<>> = {}
    OBVIOUS
  <2> QED
    BY <2>2, <2>3 DEF BuildsHeld, BuildHeld
<1>5. Spec => [](NothingBuilt /\ LocalsHeld)
  BY <1>1, LocalsHold
<1> QED
  BY <1>2, <1>3, <1>4, <1>5, ShapeHolds, DraftsHold, StagedHolds, PTL DEF Spec

\* A kind is settled between two tasks and during the task of the other kind's 3x script:
\* a local row of its seed file plays its sound.
Settled(k) ==
  \/ AtRest
  \/ task = "samples_3x" /\ k = "beat"
  \/ task = "beats_3x" /\ k = "sample"

Played ==
  \A k \in Kinds : Settled(k) =>
    \A i \in 1..Len(seeds[k]) :
      seeds[k][i] \in rows /\ seeds[k][i].url.host = "local" => Plays(seeds[k][i], static)

\* Between two tasks nothing happens but that the next one begins.
LEMMA RestIsStill ==
  ASSUME Shape, Next, AtRest, ~Begin
  PROVE  UNCHANGED vars
<1>0. OrderShape /\ script = "none" /\ mig = Idle
  BY QuietAtRest DEF Shape, ScriptShape
<1>1. \A c : ~Given(c)
  BY <1>0, NotAtRest
<1>2. ~RunScript
  <2>1. ~ScriptStep
    BY <1>0, ScriptMoves
  <2> QED
    BY <1>0, <1>1, <2>1 DEF RunScript, Abort
<1>3. ~Push /\ ~Scp /\ ~Rm /\ ~Wipe /\ ~RewriteFiles /\ ~MigrateBegin
  BY <1>1 DEF Push, Scp, Rm, Wipe, RewriteFiles, MigrateBegin
<1>4. \A c \in DOMAIN Loaded : ~Reseed(c)
  BY <1>1 DEF Reseed
<1>5. ~Migrating /\ ~MigrateCommit /\ ~MigrateCrash
  BY <1>0, MigratingWhere
<1> QED
  BY <1>2, <1>3, <1>4, <1>5 DEF Next, Migrating, Finished

\* During the task of a 3x script the rows of the other kind keep their files.
LEMMA OtherPlays ==
  ASSUME Shape, Staged, BuildsHeld, Next, NEW k \in Kinds, ~Threefold(k),
         task \in {"samples_3x", "beats_3x"}, ~Begin, NEW i \in 1..Len(seeds[k]),
         NEW r, r = seeds[k][i], r.url.host = "local", Plays(r, static)
  PROVE  Plays(r, static')
<1>0. OrderShape /\ (k = "beat" \/ k = "sample")
  BY DEF Shape, Kinds
<1>1. CASE static' = static
  BY <1>1
<1>2. CASE Scp
  <2>1. BuildHeld(r, build)
    BY DEF BuildsHeld
  <2>2. CASE r.url \in DOMAIN build
    <3>1. Builds(r, build)
      BY <2>1, <2>2 DEF BuildHeld, Builds
    <3> QED
      BY <1>2, <3>1, ScpFacts
  <2>3. CASE r.url \notin DOMAIN build
    BY <1>2, <2>3, ScpFacts DEF Plays
  <2> QED
    BY <2>2, <2>3
<1>3. CASE Rm
  <2>1. k = "sample"
    BY <1>0, <1>3, GivenWhere DEF Rm, Threefold
  <2>2. GoodRow(r, Len(fal)) /\ r.kind = k
    BY DEF Shape, ScriptShape, GoodFiles, GoodFile
  <2>3. r.url.kind = "sample"
    BY <2>1, <2>2, FalFields, LocalFields DEF GoodRow
  <2> QED
    BY <1>3, <2>3, RmFacts DEF Plays
<1>4. ~Migrating
  BY MigratingWhere
<1> QED
  BY <1>1, <1>2, <1>3, <1>4, StaticChanges

LEMMA PlayedStep ==
  ASSUME Shape, Shape', Drafted, OnTrack, Staged, Served, LocalsHeld, BuildsHeld, Played, Next,
         NEW k \in Kinds, Settled(k)', NEW i \in 1..Len(seeds'[k]),
         NEW r, r = seeds'[k][i], r \in rows', r.url.host = "local"
  PROVE  Plays(r, static')
<1>0. /\ OrderShape /\ step \in Nat \ {0} /\ (k = "beat" \/ k = "sample")
      /\ task \in Tasks \cup {"none"}
  BY DEF Shape, OrderShape, Kinds
<1>1. CASE AtRest
  <2>1. UNCHANGED <<seeds, rows, static>>
    <3>1. CASE Begin
      BY <3>1 DEF Begin
    <3>2. CASE ~Begin
      BY <1>1, <3>2, RestIsStill DEF vars
    <3> QED
      BY <3>1, <3>2
  <2> QED
    BY <1>1, <2>1 DEF Played, Settled
<1>2. CASE ~AtRest
  <2>1. ~Begin /\ task' = task /\ step' \in {step, step + 1}
    BY <1>2, TaskMoves DEF Begin, GoesOn
  <2>2. CASE task \in {"samples_3x", "beats_3x"} /\ ~Threefold(k)
    <3>1. seeds'[k] = seeds[k]
      BY <2>2, OtherSeeds
    <3>2. r \in rows
      <4>1. r.kind = k
        BY DEF Shape, ScriptShape, GoodFiles, GoodFile
      <4>2. ~MigrateCommit
        BY <2>2, MigratingWhere
      <4>3. ~(task = "samples_3x" /\ r.kind = "sample") /\ ~(task = "beats_3x" /\ r.kind = "beat")
        BY <2>2, <4>1 DEF Threefold
      <4> QED
        BY <2>2, <4>2, <4>3, LoadedThere
    <3>3. Settled(k)
      BY <1>0, <2>2 DEF Settled, Threefold
    <3>4. r = seeds[k][i] /\ i \in 1..Len(seeds[k])
      BY <3>1
    <3>5. Plays(r, static)
      BY <3>2, <3>3, <3>4 DEF Played
    <3> QED
      BY <2>1, <2>2, <3>4, <3>5, OtherPlays
  <2>3. CASE ~(task \in {"samples_3x", "beats_3x"} /\ ~Threefold(k))
    <3>1. AtRest'
      BY <1>0, <2>1, <2>3 DEF Settled, Threefold
    <3>2. step' = step + 1 /\ ~(step' = step)
      <4>1. step' # step
        BY <1>2, <2>1, <3>1 DEF AtRest
      <4> QED
        BY <2>1, <4>1
    <3>3. PICK t \in Tasks \cup {"none"}, s \in Nat \ {0} : t = task /\ s = step
      BY <1>0
    <3>4. ~(s > Len(Runbook[t])) /\ s + 1 > Len(Runbook[t])
      BY <1>2, <2>1, <3>1, <3>2, <3>3 DEF AtRest
    <3>5. \/ t = "content" /\ s = 4
          \/ t = "local" /\ s = 3
          \/ t = "samples_3x" /\ s = 4
          \/ t = "beats_3x" /\ s = 5
      <4>1. s + 1 \in Nat \ {0}
        OBVIOUS
      <4> QED
        BY <3>3, <3>4, <4>1, RestWhere
    <3>6. seeds' = seeds
      BY <3>3, <3>5, SeedsMoveWhere
    <3>7. CASE t = "content"
      <4>1. rows = {}
        BY <3>3, <3>5, <3>7 DEF Staged, Emptied
      <4>2. ~MigrateCommit
        BY <3>3, <3>7, MigratingWhere
      <4> QED
        BY <3>3, <3>7, <4>1, <4>2, LoadedThere
    <3>8. CASE t = "local"
      <4>1. \/ Push \/ Scp \/ Rm \/ Wipe \/ RewriteFiles \/ Reseeds
        BY <2>1, <3>2, <3>3, <3>5, <3>8, Advances
      <4>2. ~Scp /\ ~Rm /\ ~Wipe /\ ~RewriteFiles
        BY <1>0, <3>3, <3>5, <3>8, GivenWhere DEF Scp, Rm, Wipe, RewriteFiles
      <4>3. ~Reseeds
        BY <3>3, <3>8, ReseedsWhere
      <4>4. rows' = rows /\ static' = static
        BY <4>1, <4>2, <4>3 DEF Push
      <4>5. Pending("local")
        BY <3>3, <3>8 DEF Pending
      <4>6. r.url \in DOMAIN static
        BY <4>4, <4>5 DEF Served, Standing, There
      <4>7. r = seeds[k][i] /\ i \in 1..Len(seeds[k])
        BY <3>6
      <4>8. r.url = LocalUrl(r)
        BY <3>3, <3>5, <3>8, <4>7 DEF Staged, Localized
      <4>9. Held(r, static)
        BY <4>5, <4>7 DEF LocalsHeld
      <4> QED
        BY <4>4, <4>6, <4>8, <4>9 DEF Held, Plays
    <3>9. CASE t = "samples_3x" \/ t = "beats_3x"
      <4>1. Threefold(k)' /\ step' > 2
        BY <1>0, <2>1, <2>3, <3>2, <3>3, <3>5, <3>9 DEF Threefold
      <4>2. Copied(k)'
        BY <4>1, CopiedStep DEF Staged
      <4> QED
        BY <4>2 DEF Copied
    <3> QED
      BY <3>5, <3>7, <3>8, <3>9
  <2> QED
    BY <2>2, <2>3
<1> QED
  BY <1>1, <1>2

\* PlaysWhatItSays (run catalog): as long as the content is not made again after a
\* migration to local files and the rows of the 3x scripts are not migrated, between two
\* tasks every item of the current seed files plays the sound it was seeded with.
THEOREM PlaysRight ==
  ~Follows("beats_3x", "local") /\ ~Follows("samples_3x", "local") /\ ~Follows("local", "content")
    => (Spec => []PlaysWhatItSays)
<1>1. SUFFICES ASSUME ~Follows("beats_3x", "local"), ~Follows("samples_3x", "local"),
                      ~Follows("local", "content")
               PROVE  Spec => []PlaysWhatItSays
  OBVIOUS
<1>2. /\ Shape /\ Shape' /\ Drafted /\ Kept /\ OnTrack /\ Staged /\ Served
      /\ NothingBuilt /\ LocalsHeld /\ BuildsHeld /\ Played /\ Next
      => Played'
  <2>1. SUFFICES ASSUME Shape, Shape', Drafted, OnTrack, Staged, Served, LocalsHeld, BuildsHeld,
                        Played, Next
                 PROVE  Played'
    OBVIOUS
  <2>2. SUFFICES ASSUME NEW k \in Kinds, Settled(k)', NEW i \in 1..Len(seeds'[k]),
                        seeds'[k][i] \in rows', seeds'[k][i].url.host = "local"
                 PROVE  Plays(seeds'[k][i], static')
    BY DEF Played, Settled, AtRest, Plays
  <2> QED
    BY <2>1, <2>2, PlayedStep
<1>3. Played /\ UNCHANGED vars => Played'
  BY DEF Played, Settled, AtRest, Plays, vars
<1>4. Init => Played
  BY DEF Init, Played
<1>5. Spec => [](NothingBuilt /\ LocalsHeld)
  BY <1>1, LocalsHold
<1>6. Spec => []BuildsHeld
  BY <1>1, BuildsHold
<1>7. Spec => []Served
  BY <1>1, ServedHolds
<1>8. Shape /\ Staged /\ Uploads /\ Played => PlaysWhatItSays
  <2>1. SUFFICES ASSUME Shape, Staged, Uploads, Played, AtRest, NEW r \in Listed,
                        NEW i \in DOMAIN deployed[r.kind], deployed[r.kind][i] = r
                 PROVE  SoundAt(r.url) = r.sound
    BY DEF PlaysWhatItSays
  <2>2. Pushed
    <3>1. PICK t \in Tasks \cup {"none"}, s \in Nat \ {0} : t = task /\ s = step
      BY <2>1 DEF Shape, OrderShape
    <3>2. s > Len(Runbook[t])
      BY <2>1, <3>1 DEF AtRest
    <3>3. \/ t = "none"
          \/ t = "content" /\ s > 4
          \/ t = "local" /\ s > 3
          \/ t = "samples_3x" /\ s > 4
          \/ t = "beats_3x" /\ s > 5
      BY <3>2, RestWhere
    <3> QED
      BY <3>1, <3>3 DEF Pushed
  <2>3. deployed = seeds
    BY <2>1, <2>2 DEF Staged, Released
  <2>4. r \in rows
    BY ListedRows
  <2>5. GoodRow(r, Len(fal)) /\ Right(r, fal)
    BY <2>1, <2>4 DEF Shape, ServerShape, GoodTable, Uploads
  <2>6. r.kind \in Kinds
    BY <2>5 DEF GoodRow
  <2>7. DOMAIN seeds[r.kind] = 1..Len(seeds[r.kind])
    BY <2>1, <2>6, FileDomain DEF Shape, ScriptShape, GoodFiles, GoodFile
  <2>8. CASE r.url.host = "fal"
    BY <2>5, <2>8 DEF Right, SoundAt
  <2>9. CASE r.url.host # "fal"
    <3>1. r.url.host = "local"
      BY <2>5, <2>9, FalFields, LocalFields DEF GoodRow
    <3>2. Plays(r, static)
      BY <2>1, <2>3, <2>4, <2>6, <2>7, <3>1 DEF Played, Settled
    <3> QED
      BY <2>9, <3>2 DEF Plays, SoundAt
  <2> QED
    BY <2>8, <2>9
<1> QED
  BY <1>2, <1>3, <1>4, <1>5, <1>6, <1>7, <1>8, ShapeHolds, OnTrackHolds, DraftsHold, StagedHolds,
     UploadsHold, PTL DEF Spec
=============================================================================
