---------------------------- MODULE MCGeneration ----------------------------
(* Instances of Generation.  j1 and j2 are requests of one user; the grant *)
(* pays for one job at a time or for both.                                 *)
EXTENDS Generation, Pricing, TLC

CONSTANTS u1, j1, j2, g1, h1, h2, key1

OneUser == {u1}
OneJob == {j1}
TwoJobs == {j1, j2}
OneGrant == {g1}
OneHook == {h1}
TwoHooks == {h1, h2}
NoHook == {}

OneOwner == j1 :> u1
TwoOwner == j1 :> u1 @@ j2 :> u1
\* The music is sold by the minute, a fallback by the track; j1 asks for 80
\* seconds, j2 for 30, and a track may have 20 or 80 or an unknown length.
MCRules ==
  {[model |-> "music", mode |-> "per_track", rate |-> <<9, 1>>,
    rounding |-> "ceil", units |-> Unset, from |-> 0],
   [model |-> "music", mode |-> "per_minute", rate |-> <<3, 2>>,
    rounding |-> "ceil", units |-> <<1, 1>>, from |-> 1],
   [model |-> "ace", mode |-> "per_track", rate |-> <<1, 1>>,
    rounding |-> "nearest", units |-> Unset, from |-> 0],
   [model |-> "stable", mode |-> "per_track", rate |-> <<1, 4>>,
    rounding |-> "floor", units |-> Unset, from |-> 0]}
MCRule(model) == ActiveRule(MCRules, model, 2)
Priced(requested) == Precharge(MCRule("music"), requested)
Charges(requested) ==
  {Captured(MCRule(model), actual, Priced(requested)) :
     model \in MusicKinds, actual \in {0, 20, 80}}

\* Definitions of their own: TLC keeps the value of these, not of those that
\* the configurations put for a constant.
Price80 == Priced(80)
Price30 == Priced(30)
Charge80 == Charges(80)
Charge30 == Charges(30)

OnePrice == j1 :> Price80
TwoPrice == j1 :> Price80 @@ j2 :> Price30
OneCharge == j1 :> Charge80
TwoCharge == j1 :> Charge80 @@ j2 :> Charge30
OneKey == j1 :> None
TwoKeys == j1 :> None @@ j2 :> None
SameKeys == j1 :> key1 @@ j2 :> key1

Plain == [refine |-> FALSE, voice |-> FALSE, lyrics |-> FALSE]
Song == [refine |-> FALSE, voice |-> FALSE, lyrics |-> TRUE]
Refined == [refine |-> TRUE, voice |-> FALSE, lyrics |-> FALSE]
Sung == [refine |-> FALSE, voice |-> TRUE, lyrics |-> TRUE]
Hummed == [refine |-> TRUE, voice |-> TRUE, lyrics |-> FALSE]
Full == [refine |-> TRUE, voice |-> TRUE, lyrics |-> TRUE]

OnePlain == j1 :> Plain
OneRefined == j1 :> Refined
OneHummed == j1 :> Hummed
TwoPlain == j1 :> Plain @@ j2 :> Plain
TwoSongs == j1 :> Song @@ j2 :> Song
SongAndSung == j1 :> Song @@ j2 :> Sung
FullAndPlain == j1 :> Full @@ j2 :> Plain

Grant3 == {3}
Grant2 == {2}
Grant23 == {2, 3}

=============================================================================
