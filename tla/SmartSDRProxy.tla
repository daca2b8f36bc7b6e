---------------------------- MODULE SmartSDRProxy ----------------------------
(***************************************************************************)
(* The SmartSDR proxy of cmd/flexy/proxy.go: one session per accepted      *)
(* client connection, each made of two goroutines (the client-to-radio     *)
(* reader and the radio-to-client main loop), the RadioContext registry    *)
(* they share, and the cleanup a departing session runs against the radio. *)
(*                                                                         *)
(* Lines are reduced to the two kinds that change the session's            *)
(* bookkeeping (the H-line and a status line naming an owner) and to the   *)
(* two commands that change who owns a panadapter or slice.  The line      *)
(* rewriting of the same loops is the subject of ClientStream.             *)
(***************************************************************************)
EXTENDS Naturals, Sequences, FiniteSets

CONSTANTS
    Conns,        \* client TCP connections, each accepted once
    Handles,      \* handles the radio can assign
    Pans,         \* panadapter ids the radio can assign
    Slices,       \* slice indices the radio can assign
    Direct,       \* the handle of a client connected to the radio itself
    None,         \* the empty handle, a free pan or slice, no connection
    MaxCmds,      \* bound: commands one client sends
    MaxDirect     \* bound: pans and slices the direct client creates

Items == Pans \cup Slices

ASSUME NamesAssumption ==
    /\ None \notin Conns \cup Handles \cup Items
    /\ Direct \notin Handles \cup {None}
    /\ Pans \cap Slices = {}

ASSUME BoundsAssumption == MaxCmds \in Nat /\ MaxDirect \in Nat

VARIABLES
    \* --- the proxy ---
    phase,        \* phase[c]: where handleSmartSDRClient(c) is
    reader,       \* reader[c]: where its client-to-radio goroutine is
    handle,       \* handle[c]: pc.Handle, None while ""
    owned,        \* owned[c]: pc.OwnedPans and pc.OwnedSlices together
    toRemove,     \* toRemove[c]: what the cleanup loops have yet to write
    deadline,     \* deadline[c]: radioConn's read deadline has been forced
    clients,      \* RadioContext.Clients, None where there is no entry
    \* --- the sockets ---
    client,       \* client[c]: the client's end of its connection
    link,         \* link[c]: the connection to the radio
    c2p,          \* c2p[c]: commands sent by the client, not yet scanned
    p2r,          \* p2r[c]: commands written to the radio, not yet executed
    r2p,          \* r2p[c]: lines from the radio, not yet scanned
    \* --- the radio and the clients' budgets ---
    radioHandle,  \* radioHandle[c]: the handle the radio gave connection c
    owner,        \* owner[i]: the handle that pan or slice i belongs to
    granted,      \* history: <<handle, item>> pairs the radio has announced
    sent,         \* sent[c]: commands client c has sent
    directs       \* creations by the direct client

proxyVars == <<phase, reader, handle, owned, toRemove, deadline, clients>>
sockVars  == <<client, link, c2p, p2r, r2p>>
radioVars == <<radioHandle, owner, granted>>
vars == <<proxyVars, sockVars, radioVars, sent, directs>>

-----------------------------------------------------------------------------
(* Lines and commands.                                                     *)

HLine(h) == [tag |-> "H", item |-> None, handle |-> h]
OwnerLine(i, h) == [tag |-> "owner", item |-> i, handle |-> h]
Line == {HLine(h) : h \in Handles}
          \cup {OwnerLine(i, h) : i \in Items, h \in Handles \cup {Direct}}

Create == [op |-> "create", item |-> None]
Remove(i) == [op |-> "remove", item |-> i]
Command == {Create} \cup {Remove(i) : i \in Items}

Phase == {"idle", "dialing", "loop", "unregister", "check", "remove",
          "closeRadio", "closeClient", "ended"}

Init ==
    /\ phase = [c \in Conns |-> "idle"]
    /\ reader = [c \in Conns |-> "none"]
    /\ handle = [c \in Conns |-> None]
    /\ owned = [c \in Conns |-> {}]
    /\ toRemove = [c \in Conns |-> {}]
    /\ deadline = [c \in Conns |-> FALSE]
    /\ clients = [h \in Handles |-> None]
    /\ client = [c \in Conns |-> "absent"]
    /\ link = [c \in Conns |-> "none"]
    /\ c2p = [c \in Conns |-> <<>>]
    /\ p2r = [c \in Conns |-> <<>>]
    /\ r2p = [c \in Conns |-> <<>>]
    /\ radioHandle = [c \in Conns |-> None]
    /\ owner = [i \in Items |-> None]
    /\ granted = {}
    /\ sent = [c \in Conns |-> 0]
    /\ directs = 0

-----------------------------------------------------------------------------
(* Session set-up.                                                         *)

(* A client connects and startSmartSDRProxy's loop accepts it.             *)
Accept(c) ==
    /\ phase[c] = "idle"
    /\ phase' = [phase EXCEPT ![c] = "dialing"]
    /\ client' = [client EXCEPT ![c] = "connected"]
    /\ UNCHANGED <<reader, handle, owned, toRemove, deadline, clients, link,
                   c2p, p2r, r2p, radioVars, sent, directs>>

(* dialer.Dial succeeds: the radio gives the connection a handle it has    *)
(* not used before and greets it with the H-line; the reader is started.   *)
DialOk(c, h) ==
    /\ phase[c] = "dialing"
    /\ \A d \in Conns : radioHandle[d] # h
    /\ radioHandle' = [radioHandle EXCEPT ![c] = h]
    /\ link' = [link EXCEPT ![c] = "up"]
    /\ r2p' = [r2p EXCEPT ![c] = <<HLine(h)>>]
    /\ phase' = [phase EXCEPT ![c] = "loop"]
    /\ reader' = [reader EXCEPT ![c] = "scan"]
    /\ UNCHANGED <<handle, owned, toRemove, deadline, clients, client, c2p,
                   p2r, owner, granted, sent, directs>>

(* dialer.Dial fails: only the deferred clientConn.Close has been pushed.  *)
DialFails(c) ==
    /\ phase[c] = "dialing"
    /\ phase' = [phase EXCEPT ![c] = "closeClient"]
    /\ UNCHANGED <<reader, handle, owned, toRemove, deadline, clients,
                   sockVars, radioVars, sent, directs>>

-----------------------------------------------------------------------------
(* The client-to-radio goroutine.                                          *)

(* One line is scanned and written to the radio.  Writing to a link the    *)
(* proxy closed fails; writing to one the radio dropped fails or is lost.  *)
(* On a failed write the goroutine returns without touching the deadline.  *)
ForwardLine(c) ==
    /\ reader[c] = "scan"
    /\ c2p[c] # <<>>
    /\ c2p' = [c2p EXCEPT ![c] = Tail(@)]
    /\ \/ /\ link[c] = "up"
          /\ p2r' = [p2r EXCEPT ![c] = Append(@, Head(c2p[c]))]
          /\ UNCHANGED reader
       \/ /\ link[c] = "dropped"
          /\ UNCHANGED <<p2r, reader>>
       \/ /\ link[c] \in {"dropped", "closed"}
          /\ reader' = [reader EXCEPT ![c] = "done"]
          /\ UNCHANGED p2r
    /\ UNCHANGED <<phase, handle, owned, toRemove, deadline, clients, client,
                   link, r2p, radioVars, sent, directs>>

(* Mutant of ReaderEOF: the goroutine returns without the forced deadline. *)
ReaderEOFNoDeadline(c) ==
    /\ reader[c] = "scan"
    /\ \/ client[c] = "closed" /\ c2p[c] = <<>>
       \/ phase[c] = "ended"
    /\ reader' = [reader EXCEPT ![c] = "done"]
    /\ UNCHANGED <<phase, handle, owned, toRemove, deadline, clients,
                   sockVars, radioVars, sent, directs>>

(* The scanner meets the end of the client's stream, or a connection the   *)
(* main goroutine has closed, and forces radioConn's read deadline.  Lines *)
(* the main loop's scanner had buffered survive; the rest is never read.   *)
ReaderEOF(c) ==
    /\ reader[c] = "scan"
    /\ \/ client[c] = "closed" /\ c2p[c] = <<>>
       \/ phase[c] = "ended"
    /\ reader' = [reader EXCEPT ![c] = "done"]
    /\ deadline' = [deadline EXCEPT ![c] = TRUE]
    /\ \E n \in 0..Len(r2p[c]) : r2p' = [r2p EXCEPT ![c] = SubSeq(@, 1, n)]
    /\ UNCHANGED <<phase, handle, owned, toRemove, clients, client, link,
                   c2p, p2r, radioVars, sent, directs>>

-----------------------------------------------------------------------------
(* The radio-to-client loop, run by the session's main goroutine.          *)

(* pc.Handle after line l: the first H-line sets it.                       *)
LearnHandle(c, l) ==
    IF handle[c] = None /\ l.tag = "H" THEN l.handle ELSE handle[c]

(* Mutant of TrackOwned: the handle on the status line is not compared.    *)
TrackOwnedOfAnyone(c, l) ==
    IF handle[c] # None /\ l.tag = "owner" THEN owned[c] \cup {l.item} ELSE owned[c]

(* OwnedPans and OwnedSlices after line l: a status line that names our    *)
(* own handle adds its pan or slice; nothing ever takes one out.           *)
TrackOwned(c, l) ==
    IF handle[c] # None /\ l.tag = "owner" /\ l.handle = handle[c]
    THEN owned[c] \cup {l.item} ELSE owned[c]

(* One line is scanned: handle and registration, ownership, and the write  *)
(* to the client, which ends the loop if it fails.                         *)
ReadLine(c) ==
    /\ phase[c] = "loop"
    /\ r2p[c] # <<>>
    /\ LET l == Head(r2p[c]) IN
       /\ handle' = [handle EXCEPT ![c] = LearnHandle(c, l)]
       /\ clients' = IF handle[c] = None /\ l.tag = "H"
                     THEN [clients EXCEPT ![l.handle] = c]   \* RegisterClient
                     ELSE clients
       /\ owned' = [owned EXCEPT ![c] = TrackOwned(c, l)]
    /\ \/ /\ r2p' = [r2p EXCEPT ![c] = Tail(@)]
          /\ UNCHANGED phase
       \/ /\ client[c] = "closed"
          /\ phase' = [phase EXCEPT ![c] = "unregister"]
          /\ r2p' = [r2p EXCEPT ![c] = <<>>]
    /\ UNCHANGED <<reader, toRemove, deadline, client, link, c2p, p2r,
                   radioVars, sent, directs>>

(* The scanner meets the deadline or the end of the radio's stream.        *)
ReadEOF(c) ==
    /\ phase[c] = "loop"
    /\ r2p[c] = <<>>
    /\ deadline[c] \/ link[c] = "dropped"
    /\ phase' = [phase EXCEPT ![c] = "unregister"]
    /\ UNCHANGED <<reader, handle, owned, toRemove, deadline, clients,
                   sockVars, radioVars, sent, directs>>

-----------------------------------------------------------------------------
(* The deferred calls of handleSmartSDRClient, last pushed first run:      *)
(* cleanupProxyClient, close(done), radioConn.Close, clientConn.Close.     *)

(* Mutant of Unregister: a session that owns nothing returns before the    *)
(* registration is removed.                                                *)
UnregisterOwnersOnly(c) ==
    /\ phase[c] = "unregister"
    /\ IF handle[c] = None \/ owned[c] = {}
       THEN /\ phase' = [phase EXCEPT ![c] = "closeRadio"]
            /\ UNCHANGED clients
       ELSE /\ phase' = [phase EXCEPT ![c] = "check"]
            /\ clients' = [clients EXCEPT ![handle[c]] = None]
    /\ UNCHANGED <<reader, handle, owned, toRemove, deadline, sockVars,
                   radioVars, sent, directs>>

(* Mutant of Unregister: the registry is emptied.                          *)
UnregisterAll(c) ==
    /\ phase[c] = "unregister"
    /\ clients' = [h \in Handles |-> None]
    /\ phase' = [phase EXCEPT
          ![c] = IF handle[c] = None \/ owned[c] = {} THEN "closeRadio"
                                                      ELSE "check"]
    /\ UNCHANGED <<reader, handle, owned, toRemove, deadline, sockVars,
                   radioVars, sent, directs>>

(* cleanupProxyClient up to its first return: the registration goes, and a *)
(* session without a handle or without pans and slices has no more to do.  *)
Unregister(c) ==
    /\ phase[c] = "unregister"
    /\ clients' = [h \in Handles |-> IF h = handle[c] THEN None ELSE clients[h]]
    /\ phase' = [phase EXCEPT
          ![c] = IF handle[c] = None \/ owned[c] = {} THEN "closeRadio"
                                                      ELSE "check"]
    /\ UNCHANGED <<reader, handle, owned, toRemove, deadline, sockVars,
                   radioVars, sent, directs>>

Registered == {h \in Handles : clients[h] # None}

(* Mutant of CheckOthers: the session counts itself among the others.      *)
CheckOthersStale(c) ==
    /\ phase[c] = "check"
    /\ phase' = [phase EXCEPT ![c] = "closeRadio"]
    /\ UNCHANGED <<reader, handle, owned, toRemove, deadline, clients, sockVars,
                   radioVars, sent, directs>>

(* len(rc.Clients) > 0, read under the lock, which is then released.       *)
CheckOthers(c) ==
    /\ phase[c] = "check"
    /\ IF Registered # {}
       THEN /\ phase' = [phase EXCEPT ![c] = "closeRadio"]
            /\ UNCHANGED toRemove
       ELSE /\ phase' = [phase EXCEPT ![c] = "remove"]
            /\ toRemove' = [toRemove EXCEPT ![c] = owned[c]]
    /\ UNCHANGED <<reader, handle, owned, deadline, clients, sockVars,
                   radioVars, sent, directs>>

(* One "display pan remove" or, once the pans are through, "slice remove". *)
(* An error of the write is ignored. (The radio is taken to accept each    *)
(* within the two seconds proxy.go:511 gives them all.)                    *)
RemoveOwned(c, i) ==
    /\ phase[c] = "remove"
    /\ i \in toRemove[c]
    /\ i \in Slices => toRemove[c] \cap Pans = {}
    /\ toRemove' = [toRemove EXCEPT ![c] = @ \ {i}]
    /\ p2r' = IF link[c] = "up" THEN [p2r EXCEPT ![c] = Append(@, Remove(i))]
                                ELSE p2r
    /\ UNCHANGED <<phase, reader, handle, owned, deadline, clients, client,
                   link, c2p, r2p, radioVars, sent, directs>>

RemovesWritten(c) ==
    /\ phase[c] = "remove"
    /\ toRemove[c] = {}
    /\ phase' = [phase EXCEPT ![c] = "closeRadio"]
    /\ UNCHANGED <<reader, handle, owned, toRemove, deadline, clients,
                   sockVars, radioVars, sent, directs>>

(* close(done) and radioConn.Close: what was written still reaches the     *)
(* radio, what the radio had sent is discarded.                            *)
CloseRadio(c) ==
    /\ phase[c] = "closeRadio"
    /\ phase' = [phase EXCEPT ![c] = "closeClient"]
    /\ link' = [link EXCEPT ![c] = "closed"]
    /\ r2p' = [r2p EXCEPT ![c] = <<>>]
    /\ UNCHANGED <<reader, handle, owned, toRemove, deadline, clients, client,
                   c2p, p2r, radioVars, sent, directs>>

(* clientConn.Close: the client's unread commands are discarded.           *)
CloseClient(c) ==
    /\ phase[c] = "closeClient"
    /\ phase' = [phase EXCEPT ![c] = "ended"]
    /\ client' = [client EXCEPT ![c] = "closed"]
    /\ c2p' = [c2p EXCEPT ![c] = <<>>]
    /\ UNCHANGED <<reader, handle, owned, toRemove, deadline, clients, link,
                   p2r, r2p, radioVars, sent, directs>>

-----------------------------------------------------------------------------
(* The environment: the clients, the radio, a client that bypasses Flexy.  *)

ClientSend(c, cmd) ==
    /\ client[c] = "connected"
    /\ sent[c] < MaxCmds
    /\ sent' = [sent EXCEPT ![c] = @ + 1]
    /\ c2p' = [c2p EXCEPT ![c] = Append(@, cmd)]
    /\ UNCHANGED <<proxyVars, client, link, p2r, r2p, radioVars, directs>>

ClientClose(c) ==
    /\ client[c] = "connected"
    /\ client' = [client EXCEPT ![c] = "closed"]
    /\ UNCHANGED <<proxyVars, link, c2p, p2r, r2p, radioVars, sent, directs>>

(* A status line goes to every connection whose session still reads.       *)
Announce(i, h) ==
    r2p' = [c \in Conns |->
              IF phase[c] = "loop" /\ link[c] = "up" /\ ~deadline[c]
              THEN Append(r2p[c], OwnerLine(i, h)) ELSE r2p[c]]

Own(i, h) ==
    /\ owner[i] = None
    /\ owner' = [owner EXCEPT ![i] = h]
    /\ granted' = granted \cup {<<h, i>>}
    /\ Announce(i, h)

(* The radio executes one command: a creation takes a free id, if any; a   *)
(* removal is honoured whoever asks (a radio may be stricter).             *)
RadioExec(c) ==
    /\ p2r[c] # <<>>
    /\ p2r' = [p2r EXCEPT ![c] = Tail(@)]
    /\ LET cmd == Head(p2r[c]) IN
       IF cmd.op = "create"
       THEN \/ \E i \in Items : Own(i, radioHandle[c])
            \/ /\ \A i \in Items : owner[i] # None
               /\ UNCHANGED <<owner, granted, r2p>>
       ELSE /\ owner' = [owner EXCEPT ![cmd.item] = None]
            /\ UNCHANGED <<granted, r2p>>
    /\ UNCHANGED <<proxyVars, client, link, c2p, radioHandle, sent, directs>>

(* The radio, or the network between, ends connection c.                   *)
RadioDrop(c) ==
    /\ link[c] = "up"
    /\ link' = [link EXCEPT ![c] = "dropped"]
    /\ p2r' = [p2r EXCEPT ![c] = <<>>]
    /\ UNCHANGED <<proxyVars, client, c2p, r2p, radioVars, sent, directs>>

DirectCreate(i) ==
    /\ directs < MaxDirect
    /\ directs' = directs + 1
    /\ Own(i, Direct)
    /\ UNCHANGED <<proxyVars, client, link, c2p, p2r, radioHandle, sent>>

DirectRemove(i) ==
    /\ owner[i] = Direct
    /\ owner' = [owner EXCEPT ![i] = None]
    /\ UNCHANGED <<proxyVars, sockVars, radioHandle, granted, sent, directs>>

-----------------------------------------------------------------------------
Reader(c) == ForwardLine(c) \/ ReaderEOF(c)

Main(c) ==
    \/ \E h \in Handles : DialOk(c, h)
    \/ DialFails(c)
    \/ ReadLine(c)
    \/ ReadEOF(c)
    \/ Unregister(c)
    \/ CheckOthers(c)
    \/ \E i \in Items : RemoveOwned(c, i)
    \/ RemovesWritten(c)
    \/ CloseRadio(c)
    \/ CloseClient(c)

Environment ==
    \/ \E c \in Conns : \/ Accept(c)
                        \/ \E cmd \in Command : ClientSend(c, cmd)
                        \/ ClientClose(c)
                        \/ RadioExec(c)
                        \/ RadioDrop(c)
    \/ \E i \in Items : DirectCreate(i) \/ DirectRemove(i)

(* Every client has gone, its session is over and the radio is idle.       *)
Quiet ==
    \A c \in Conns : /\ phase[c] = "ended"
                     /\ reader[c] \in {"none", "done"}
                     /\ p2r[c] = <<>>

Next ==
    \/ \E c \in Conns : Reader(c) \/ Main(c)
    \/ Environment
    \/ Quiet /\ UNCHANGED vars

Spec == Init /\ [][Next]_vars

(* The Go scheduler runs every goroutine that can run; the radio works off *)
(* what it was sent.  Clients owe nothing.                                 *)
Fairness ==
    \A c \in Conns : /\ WF_vars(Reader(c))
                     /\ WF_vars(Main(c))
                     /\ WF_vars(RadioExec(c))

FairSpec == Spec /\ Fairness

-----------------------------------------------------------------------------
(* Types.                                                                  *)

TypeOK ==
    /\ phase \in [Conns -> Phase]
    /\ reader \in [Conns -> {"none", "scan", "done"}]
    /\ handle \in [Conns -> Handles \cup {None}]
    /\ owned \in [Conns -> SUBSET Items]
    /\ toRemove \in [Conns -> SUBSET Items]
    /\ deadline \in [Conns -> BOOLEAN]
    /\ clients \in [Handles -> Conns \cup {None}]
    /\ client \in [Conns -> {"absent", "connected", "closed"}]
    /\ link \in [Conns -> {"none", "up", "dropped", "closed"}]
    /\ c2p \in [Conns -> Seq(Command)]
    /\ p2r \in [Conns -> Seq(Command)]
    /\ r2p \in [Conns -> Seq(Line)]
    /\ radioHandle \in [Conns -> Handles \cup {None}]
    /\ owner \in [Items -> Handles \cup {Direct, None}]
    /\ granted \subseteq (Handles \cup {Direct}) \X Items
    /\ sent \in [Conns -> 0..MaxCmds]
    /\ directs \in 0..MaxDirect

-----------------------------------------------------------------------------
(* Safety.                                                                 *)

(* The sessions the registry should list: from the H-line until the        *)
(* session's cleanup has begun.                                            *)
Listed(c) == handle[c] # None /\ phase[c] \in {"loop", "unregister"}

(* The registry the discovery relay and the web UI read is exact: a handle *)
(* maps to c just when c is a session that learned that handle and has not *)
(* begun its cleanup, whatever order sessions come and go in, however they *)
(* end (client gone, radio gone, write error).                             *)
RegistryExact ==
    \A h \in Handles, c \in Conns :
        clients[h] = c <=> Listed(c) /\ handle[c] = h

(* What the session records as its own is all it was ever given: the pans  *)
(* and slices the radio ever announced for its handle are those in         *)
(* OwnedPans and OwnedSlices together with those still on the wire to it.  *)
(* A line for another session's handle never counts, and none of its own   *)
(* is dropped, because the H-line is always scanned first.  Its cleanup    *)
(* never names a pan or slice that was not, at some time, this session's   *)
(* own.  Nothing is taken out of the sets, though: what the client gave up *)
(* stays in them, also when it has become somebody else's.                 *)
OwnedTracksGrants ==
    \A c \in Conns :
        LET everOwned == {i \in Items : <<radioHandle[c], i>> \in granted}
            announced == {i \in Items : \E k \in 1..Len(r2p[c]) :
                              r2p[c][k] = OwnerLine(i, radioHandle[c])} IN
        /\ phase[c] = "loop" /\ ~deadline[c] => everOwned = owned[c] \cup announced
        /\ toRemove[c] \subseteq everOwned

(* The registry implements its abstract specification.                     *)
Registry == INSTANCE ClientRegistry
              WITH served <- {c \in Conns : handle[c] # None}

RegistrySpec == Registry!Spec

-----------------------------------------------------------------------------
(* Liveness, under FairSpec.                                               *)

(* Once the client has closed its end, or the radio has dropped its        *)
(* connection, the session runs to its end, and so releases both           *)
(* connections, its registration and its relays; a radio that falls silent *)
(* cannot hold it, because the reader forces the deadline the main loop is *)
(* blocked on, nor a client that does, once the radio has gone.            *)
EitherEndEnds ==
    \A c \in Conns :
        client[c] = "closed" \/ link[c] = "dropped" ~> phase[c] = "ended"

(* When the last registered session cleans up, each pan and slice it       *)
(* tracked is freed on the radio, unless the link breaks first.  (The      *)
(* close that follows the removal commands does not overtake them.)        *)
LastOneCleans ==
    \A c \in Conns, i \in Items :
        (phase[c] = "check" /\ Registered = {} /\ i \in owned[c])
            ~> (owner[i] # handle[c] \/ link[c] = "dropped" \/ Registered # {})

=============================================================================
