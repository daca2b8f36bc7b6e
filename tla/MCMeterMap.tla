----------------------------- MODULE MCMeterMap -----------------------------
(* MeterMap with its constants fixed for TLC: the meters are alike, the     *)
(* levels are not, because the alias reads one of them.                     *)
EXTENDS MeterMap

CONSTANTS m1, m2, watts, swr

MCMeter == {m1, m2}
MCLevel == {watts, swr}
=============================================================================
