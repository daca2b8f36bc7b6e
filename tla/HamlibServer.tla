----------------------------- MODULE HamlibServer -----------------------------
(***************************************************************************)
(* The rigctld server of cmd/flexy/hamlib.go: Run's accept loop, the       *)
(* goroutine that closes everything on shutdown, one goroutine per client, *)
(* and the RWMutex they share.  A command is handled under the read lock,  *)
(* the wait for the radio and the write of the reply included; joining,    *)
(* leaving and the shutdown take the write lock.                           *)
(*                                                                         *)
(* sync.RWMutex: a writer that waits keeps new readers out; when it is     *)
(* done, the readers that came meanwhile go before the next writer.        *)
(***************************************************************************)
EXTENDS Naturals, FiniteSets

CONSTANTS
    Clients,    \* Hamlib clients, each connecting at most once
    None,       \* nobody
    MaxLines    \* bound: lines a client sends

ASSUME ServerAssumption ==
    /\ Clients \cap {None, "nobody", "run", "closer"} = {}
    /\ MaxLines \in Nat

VARIABLES
    \* --- the server ---
    run,        \* where Run's accept loop is
    adding,     \* the connection Run has accepted and not yet added
    closer,     \* where the goroutine that waits for ctx is
    conns,      \* s.clients
    hamlibClients,  \* the registry the web UI lists
    sess,       \* sess[c]: where handleClient(c) is
    cmd,        \* cmd[c]: the kind of the line it handles
    \* --- the lock ---
    readers,    \* who holds it for reading
    waiting,    \* who waits to read
    writer,     \* who holds it for writing, or waits for the readers to go
    \* --- the context and the sockets ---
    cancelled,  \* rootCtx is done
    listening,  \* the listener is open
    backlog,    \* connections not yet accepted
    lines,      \* lines[c]: how many c has sent that were not scanned
    sent,       \* sent[c]: how many c has sent
    client,     \* client[c]: c's end, "new" until it connects, "open", "closed"
    serverOpen  \* serverOpen[c]: the server has not closed its end

serverVars == <<run, adding, closer, conns, hamlibClients>>
sessVars == <<sess, cmd>>
lockVars == <<readers, waiting, writer>>
netVars == <<cancelled, listening, backlog, lines, sent, client, serverOpen>>
vars == <<serverVars, sessVars, lockVars, netVars>>

Kinds == {"quick", "radio", "quit"}

Init ==
    /\ run = "accept"
    /\ adding = None
    /\ closer = "wait"
    /\ conns = {}
    /\ hamlibClients = {}
    /\ sess = [c \in Clients |-> "none"]
    /\ cmd = [c \in Clients |-> "quick"]
    /\ readers = {}
    /\ waiting = {}
    /\ writer = "nobody"
    /\ cancelled = FALSE
    /\ listening = TRUE
    /\ backlog = {}
    /\ lines = [c \in Clients |-> 0]
    /\ sent = [c \in Clients |-> 0]
    /\ client = [c \in Clients |-> "new"]
    /\ serverOpen = [c \in Clients |-> FALSE]

-----------------------------------------------------------------------------
(* The lock: w is "run", "closer" or a client that leaves.                 *)

Announce(w) == writer = "nobody" /\ writer' = w /\ UNCHANGED <<readers, waiting>>

Exclusive(w) == writer = w /\ readers = {}

Unlock == writer' = "nobody" /\ readers' = waiting /\ waiting' = {}

RUnlock(c) == readers' = readers \ {c} /\ UNCHANGED <<waiting, writer>>

-----------------------------------------------------------------------------
(* Run.                                                                    *)

Accept(c) ==
    /\ run = "accept"
    /\ listening
    /\ c \in backlog
    /\ backlog' = backlog \ {c}
    /\ serverOpen' = [serverOpen EXCEPT ![c] = TRUE]
    /\ adding' = c
    /\ hamlibClients' = hamlibClients \cup {c}     \* registerHamlibClient
    /\ run' = "lock"
    /\ UNCHANGED <<closer, conns, sessVars, lockVars, cancelled, listening,
                   lines, sent, client>>

RunLock ==
    /\ run = "lock"
    /\ Announce("run")
    /\ run' = "add"
    /\ UNCHANGED <<adding, closer, conns, hamlibClients, sessVars, netVars>>

(* s.clients = append(s.clients, conn), and the client's goroutine.        *)
RunAdd ==
    /\ run = "add"
    /\ Exclusive("run")
    /\ conns' = conns \cup {adding}
    /\ sess' = [sess EXCEPT ![adding] = "scan"]
    /\ adding' = None
    /\ run' = "accept"
    /\ Unlock
    /\ UNCHANGED <<closer, hamlibClients, cmd, netVars>>

AcceptFails ==
    /\ run = "accept"
    /\ ~listening
    /\ run' = "out"
    /\ UNCHANGED <<adding, closer, conns, hamlibClients, sessVars, lockVars,
                   netVars>>

Run == (\E c \in Clients : Accept(c)) \/ RunLock \/ RunAdd \/ AcceptFails

-----------------------------------------------------------------------------
(* The goroutine that waits for ctx.Done.                                  *)

CloserLock ==
    /\ closer = "wait"
    /\ cancelled
    /\ Announce("closer")
    /\ closer' = "sweep"
    /\ UNCHANGED <<run, adding, conns, hamlibClients, sessVars, netVars>>

(* Mutant of CloserSweep: the listener stays open.                         *)
CloserSweepClients ==
    /\ closer = "sweep"
    /\ Exclusive("closer")
    /\ serverOpen' = [c \in Clients |-> serverOpen[c] /\ c \notin conns]
    /\ closer' = "done"
    /\ Unlock
    /\ UNCHANGED <<run, adding, conns, hamlibClients, sessVars, cancelled,
                   listening, backlog, lines, sent, client>>

(* s.listener.Close, and every connection in s.clients is closed.          *)
CloserSweep ==
    /\ closer = "sweep"
    /\ Exclusive("closer")
    /\ listening' = FALSE
    /\ backlog' = {}
    /\ serverOpen' = [c \in Clients |-> serverOpen[c] /\ c \notin conns]
    /\ closer' = "done"
    /\ Unlock
    /\ UNCHANGED <<run, adding, conns, hamlibClients, sessVars, cancelled,
                   lines, sent, client>>

Closer == CloserLock \/ CloserSweep

-----------------------------------------------------------------------------
(* handleClient and handleCmd.                                             *)

(* A line is scanned; handleCmd asks for the read lock, which it gets      *)
(* unless somebody holds or waits for the write lock.                      *)
ScanLine(c, k) ==
    /\ sess[c] = "scan"
    /\ serverOpen[c]
    /\ lines[c] > 0
    /\ lines' = [lines EXCEPT ![c] = @ - 1]
    /\ cmd' = [cmd EXCEPT ![c] = k]
    /\ sess' = [sess EXCEPT ![c] = "handle"]
    /\ IF writer = "nobody"
       THEN readers' = readers \cup {c} /\ UNCHANGED waiting
       ELSE waiting' = waiting \cup {c} /\ UNCHANGED readers
    /\ UNCHANGED <<serverVars, writer, cancelled, listening, backlog, sent,
                   client, serverOpen>>

(* Mutant of Quit: the read lock is not given back.                        *)
QuitLocked(c) ==
    /\ sess[c] = "handle"
    /\ c \in readers
    /\ cmd[c] = "quit"
    /\ sess' = [sess EXCEPT ![c] = "leave"]
    /\ UNCHANGED <<serverVars, cmd, lockVars, netVars>>

Quit(c) ==
    /\ sess[c] = "handle"
    /\ c \in readers
    /\ cmd[c] = "quit"
    /\ sess' = [sess EXCEPT ![c] = "leave"]
    /\ RUnlock(c)
    /\ UNCHANGED <<serverVars, cmd, netVars>>

(* Mutant of HandlerReturns: the wait for the radio ignores the context.   *)
HandlerReturnsUncancelled(c) ==
    /\ sess[c] = "handle"
    /\ c \in readers
    /\ cmd[c] = "quick"
    /\ sess' = [sess EXCEPT ![c] = "write"]
    /\ UNCHANGED <<serverVars, cmd, lockVars, netVars>>

(* A callback that asks the radio nothing, or whose context is done.       *)
HandlerReturns(c) ==
    /\ sess[c] = "handle"
    /\ c \in readers
    /\ \/ cmd[c] = "quick"
       \/ cmd[c] = "radio" /\ cancelled
    /\ sess' = [sess EXCEPT ![c] = "write"]
    /\ UNCHANGED <<serverVars, cmd, lockVars, netVars>>

(* The radio answers a command the callback waits for.                     *)
RadioAnswers(c) ==
    /\ sess[c] = "handle"
    /\ c \in readers
    /\ cmd[c] = "radio"
    /\ sess' = [sess EXCEPT ![c] = "write"]
    /\ UNCHANGED <<serverVars, cmd, lockVars, netVars>>

(* conn.Write, whose error is ignored, and the deferred RUnlock.           *)
WriteReply(c) ==
    /\ sess[c] = "write"
    /\ sess' = [sess EXCEPT ![c] = "scan"]
    /\ RUnlock(c)
    /\ UNCHANGED <<serverVars, cmd, netVars>>

(* Scan meets the end of the client's stream, or a connection the closer   *)
(* has closed.                                                             *)
ScanEnds(c) ==
    /\ sess[c] = "scan"
    /\ ~serverOpen[c] \/ (client[c] = "closed" /\ lines[c] = 0)
    /\ sess' = [sess EXCEPT ![c] = "leave"]
    /\ UNCHANGED <<serverVars, cmd, lockVars, netVars>>

LeaveLock(c) ==
    /\ sess[c] = "leave"
    /\ Announce(c)
    /\ sess' = [sess EXCEPT ![c] = "remove"]
    /\ UNCHANGED <<serverVars, cmd, netVars>>

(* The loop looks for conn, a *Conn, among the Conn values of s.clients    *)
(* and finds none: s.clients stays as it is.  The connection is closed.    *)
Leave(c) ==
    /\ sess[c] = "remove"
    /\ Exclusive(c)
    /\ serverOpen' = [serverOpen EXCEPT ![c] = FALSE]
    /\ sess' = [sess EXCEPT ![c] = "left"]
    /\ Unlock
    /\ UNCHANGED <<serverVars, cmd, cancelled, listening, backlog, lines, sent,
                   client>>

(* The deferred unregisterHamlibClient.                                    *)
Unregister(c) ==
    /\ sess[c] = "left"
    /\ hamlibClients' = hamlibClients \ {c}
    /\ sess' = [sess EXCEPT ![c] = "gone"]
    /\ UNCHANGED <<run, adding, closer, conns, cmd, lockVars, netVars>>

Session(c) ==
    \/ \E k \in Kinds : ScanLine(c, k)
    \/ Quit(c) \/ HandlerReturns(c) \/ WriteReply(c)
    \/ ScanEnds(c) \/ LeaveLock(c) \/ Leave(c) \/ Unregister(c)

-----------------------------------------------------------------------------
(* The clients and the signal.                                             *)

Connect(c) ==
    /\ listening
    /\ client[c] = "new"
    /\ client' = [client EXCEPT ![c] = "open"]
    /\ backlog' = backlog \cup {c}
    /\ UNCHANGED <<serverVars, sessVars, lockVars, cancelled, listening, lines,
                   sent, serverOpen>>

Send(c) ==
    /\ client[c] = "open"
    /\ sent[c] < MaxLines
    /\ sent' = [sent EXCEPT ![c] = @ + 1]
    /\ lines' = [lines EXCEPT ![c] = @ + 1]
    /\ UNCHANGED <<serverVars, sessVars, lockVars, cancelled, listening, backlog,
                   client, serverOpen>>

Close(c) ==
    /\ client[c] = "open"
    /\ client' = [client EXCEPT ![c] = "closed"]
    /\ UNCHANGED <<serverVars, sessVars, lockVars, cancelled, listening, backlog,
                   lines, sent, serverOpen>>

Cancel ==
    /\ ~cancelled
    /\ cancelled' = TRUE
    /\ UNCHANGED <<serverVars, sessVars, lockVars, listening, backlog, lines,
                   sent, client, serverOpen>>

Next ==
    \/ Run
    \/ Closer
    \/ \E c \in Clients : \/ Session(c) \/ RadioAnswers(c)
                          \/ Connect(c) \/ Send(c) \/ Close(c)
    \/ Cancel

Spec == Init /\ [][Next]_vars

(* Goroutines run, and a writer that asks for the lock gets it in the end: *)
(* sync.Mutex, which orders the writers of a sync.RWMutex, hands itself to *)
(* one that has waited a millisecond.  Clients owe nothing, except that    *)
(* they read replies: a write that blocks for ever is not modelled.        *)
FairSpec ==
    /\ Spec
    /\ SF_vars(RunLock) /\ WF_vars(RunAdd) /\ WF_vars(AcceptFails)
    /\ SF_vars(CloserLock) /\ WF_vars(CloserSweep)
    /\ \A c \in Clients : WF_vars(Session(c)) /\ SF_vars(LeaveLock(c))

-----------------------------------------------------------------------------
TypeOK ==
    /\ run \in {"accept", "lock", "add", "out"}
    /\ adding \in Clients \cup {None}
    /\ closer \in {"wait", "sweep", "done"}
    /\ conns \subseteq Clients
    /\ hamlibClients \subseteq Clients
    /\ sess \in [Clients -> {"none", "scan", "handle", "write", "leave",
                             "remove", "left", "gone"}]
    /\ cmd \in [Clients -> Kinds]
    /\ readers \subseteq Clients
    /\ waiting \subseteq Clients
    /\ writer \in Clients \cup {"nobody", "run", "closer"}
    /\ cancelled \in BOOLEAN
    /\ listening \in BOOLEAN
    /\ backlog \subseteq Clients
    /\ lines \in [Clients -> 0..MaxLines]
    /\ sent \in [Clients -> 0..MaxLines]
    /\ client \in [Clients -> {"new", "open", "closed"}]
    /\ serverOpen \in [Clients -> BOOLEAN]

(* The shutdown closes every connection but, at most, the one Run had      *)
(* accepted and not yet added when the sweep took place.                   *)
SweepMissesAtMostOne ==
    closer = "done" =>
        Cardinality({c \in Clients : serverOpen[c] /\ sess[c] # "none"}
                      \cup ({adding} \ {None})) <= 1

(* The shutdown comes to its end, so that main's outerWg.Wait returns: the *)
(* write lock it needs is held up by no command, because every handler's   *)
(* wait for the radio ends with the context.  The radio owes no answer.    *)
ShutdownCompletes == cancelled ~> run = "out"

WaitsForRadio(c) == sess[c] = "handle" /\ c \in readers /\ cmd[c] = "radio"

(* A command is answered, or ends its session, whoever joins, leaves or    *)
(* shuts down beside it and holds or wants the lock: the only thing that   *)
(* can hold it up is a command the radio has not answered.                 *)
CommandAnswered ==
    \A c \in Clients : sess[c] = "handle"
        ~> (sess[c] \in {"scan", "gone"} \/ \E d \in Clients : WaitsForRadio(d))
=============================================================================
