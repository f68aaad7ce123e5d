--------------------------- MODULE MCRatesService ---------------------------
(* Two request goroutines, two rates, a TTL of two ticks and a clock of   *)
(* four: long enough for a cached rate to expire while a reader is still  *)
(* between its Unlock and its read.                                       *)
EXTENDS RatesService, TLC

MCSymmetry == Permutations(Goroutines)
=============================================================================
