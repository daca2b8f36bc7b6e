---------------------------- MODULE MCHamlibServer ----------------------------
(* HamlibServer with its constants fixed for TLC.                           *)
EXTENDS HamlibServer

CONSTANTS a, b

MCClients == {a, b}
=============================================================================
