------------------------------ MODULE FiniteSums ------------------------------
(***************************************************************************)
(* The sum of the amounts a finite table holds for some of its keys, as    *)
(* the auction house and the entropy coordinator relate their running      *)
(* totals to single bids, sales and credits.                               *)
(***************************************************************************)
EXTENDS Integers, FiniteSetsExt

SumOver(f, S) == MapThenSumSet(LAMBDA x : f[x], S)
===============================================================================
