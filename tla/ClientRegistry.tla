--------------------------- MODULE ClientRegistry ---------------------------
(***************************************************************************)
(* What RadioContext.Clients promises the discovery relay and the web UI   *)
(* that read it: every proxied connection is listed at most once, under a  *)
(* handle nobody else holds at that moment, and is struck off only on its  *)
(* own behalf.  The abstract counterpart of SmartSDRProxy.                 *)
(***************************************************************************)
CONSTANTS
    Conns,      \* proxied client connections
    Handles,    \* handles the radio hands out
    None        \* no connection, no handle

VARIABLES
    clients,    \* clients[h]: the connection listed under h, or None
    served      \* the connections that have been listed so far

vars == <<clients, served>>

Init ==
    /\ clients = [h \in Handles |-> None]
    /\ served = {}

(* RegisterClient: a connection learns its handle and is listed.           *)
Join(c, h) ==
    /\ c \notin served
    /\ clients[h] = None
    /\ clients' = [clients EXCEPT ![h] = c]
    /\ served' = served \cup {c}

(* UnregisterClient: the connection listed under h goes away.              *)
Leave(c, h) ==
    /\ clients[h] = c
    /\ clients' = [clients EXCEPT ![h] = None]
    /\ UNCHANGED served

Next == \E c \in Conns, h \in Handles : Join(c, h) \/ Leave(c, h)

Spec == Init /\ [][Next]_vars
=============================================================================
