---------------------------- MODULE MCDeployment ----------------------------
EXTENDS Deployment

Rule(model, date) == [provider_model |-> model, active_from |-> date]
Product(code, subscription) == [code |-> code, external |-> code, is_subscription |-> subscription]

(* Three editions of the seed files: a model and a subscription are added; then
   the one rule is re-dated, the other and the pack are dropped and a pack comes. *)
Editions ==
  <<[rules |-> {Rule("minimax", 1)}, products |-> {Product("pack", FALSE)}],
    [rules |-> {Rule("minimax", 1), Rule("ace_step", 1)},
     products |-> {Product("pack", FALSE), Product("week", TRUE)}],
    [rules |-> {Rule("minimax", 2)},
     products |-> {Product("week", TRUE), Product("pack_v2", FALSE)}]>>
=============================================================================
