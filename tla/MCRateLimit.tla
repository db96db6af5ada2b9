---------------------------- MODULE MCRateLimit ----------------------------
EXTENDS RateLimit, TLC

(* Two keys of one user; 25 requests a minute are one every 2.4 seconds. *)
Keys == "k1" :> "u1" @@ "k2" :> "u1"
=============================================================================
