--------------------------- MODULE MCSmartSDRProxy ---------------------------
(* SmartSDRProxy with its constants fixed for TLC.                         *)
EXTENDS SmartSDRProxy, TLC

CONSTANTS c1, c2, h1, h2, p1, s1

MCConns2 == {c1, c2}
MCHandles2 == {h1, h2}
MCPans == {p1}
MCSlices == {s1}
NoPans == {}

(* Connections and handles are interchangeable; the ids are of two kinds.  *)
Symmetry == Permutations(MCConns2) \cup Permutations(MCHandles2)
=============================================================================
