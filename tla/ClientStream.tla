---------------------------- MODULE ClientStream ----------------------------
(***************************************************************************)
(* What one session of cmd/flexy/proxy.go does to the lines that cross it: *)
(* the reader goroutine remembers "client ip" sequence numbers and swaps   *)
(* the port of "client udpport" for a UDP relay of its own; the main loop  *)
(* rewrites addresses on the way back.  The two goroutines share           *)
(* clientIPSeqs under a mutex; the relays live until close(done).          *)
(*                                                                         *)
(* An address is a sequence of characters, because the code rewrites       *)
(* addresses by text replacement.  Of a line's message the model keeps one *)
(* text and how it stands there: "bare", the message is that text; "ip",   *)
(* it is the one word ip=text; "more", it has several words, the field     *)
(* ip=text among them.                                                     *)
(***************************************************************************)
EXTENDS Naturals, Sequences, SequencesExt

CONSTANTS
    RadioIP,      \* cfg.RadioIP
    ProxyIP,      \* proxyIPStr
    ProxyLanIP,   \* the proxy's address as the radio sees it
    ClientIP,     \* clientAddr.IP
    StatusIPs,    \* the addresses the radio's status lines mention
    Answers,      \* the messages of other successful responses: [form, text]
    ClientPorts,  \* UDP ports the client listens on
    RadioVITA,    \* the radio's stream port
    LocalPorts,   \* UDP ports the OS can give a relay
    MaxCmds,      \* bound: commands the client sends
    MaxStatus     \* bound: status lines the radio sends unasked

ASSUME PortsAssumption ==
    /\ 0 \notin ClientPorts \cup LocalPorts
    /\ ClientPorts \cap LocalPorts = {}
    /\ RadioVITA \notin ClientPorts \cup LocalPorts

Forms == {"bare", "ip", "more"}
ASSUME AnswersAssumption == \A b \in Answers : b.form \in Forms

ASSUME LanAssumption == ProxyLanIP # <<>>

ASSUME BoundsAssumption == MaxCmds \in Nat /\ MaxStatus \in Nat

VARIABLES
    \* --- the session ---
    main,       \* the main goroutine: scanning, or past its deferred calls
    reader,     \* the client-to-radio goroutine
    line,       \* the line that goroutine holds
    seqs,       \* clientIPSeqs
    relays,     \* relays[p]: client port served by local port p, 0 if none
    pcRelay,    \* the local port of pc.Relay, 0 while nil
    deadline,   \* radioConn's read deadline has been forced
    hole,       \* hole[p]: a NAT on the way lets the radio's datagrams to p pass
    \* --- sockets, client and radio ---
    open,       \* the client has not closed its end
    c2p,        \* commands sent, not yet scanned
    p2r,        \* commands written to the radio, not yet executed
    r2p,        \* lines from the radio, not yet scanned
    radioUp,    \* the radio has not dropped the connection
    udpDest,    \* where the radio sends this client's stream: [port, asked]
    asked,      \* asked[s]: the kind of command the client numbered s
    sent,       \* commands sent so far
    statuses,   \* status lines sent so far
    got         \* the last line delivered: what came in and what went out

vars == <<main, reader, line, seqs, relays, pcRelay, deadline, hole, open,
          c2p, p2r, r2p, radioUp, udpDest, asked, sent, statuses, got>>

-----------------------------------------------------------------------------
Kinds == {"ip", "udpport", "other"}
(* A command: its number, what it is, the port it carries, and the port    *)
(* the client itself wrote there.                                          *)
Cmd(s, k, p) == [seq |-> s, kind |-> k, port |-> p, asked |-> p]
NoCmd == Cmd(0, "other", 0)

Bare(text) == [form |-> "bare", text |-> text]
Response(s, ok, b) ==
    [tag |-> "R", seq |-> s, ok |-> ok, form |-> b.form, text |-> b.text]
Status(a) == [tag |-> "S", seq |-> 0, ok |-> TRUE, form |-> "more", text |-> a]
NoLine == Status(<<>>)

Init ==
    /\ main = "loop"
    /\ reader = "scan"
    /\ line = NoCmd
    /\ seqs = {}
    /\ relays = [p \in LocalPorts |-> 0]
    /\ pcRelay = 0
    /\ deadline = FALSE
    /\ hole = [p \in LocalPorts |-> FALSE]
    /\ open = TRUE
    /\ c2p = <<>>
    /\ p2r = <<>>
    /\ r2p = <<>>
    /\ radioUp = TRUE
    /\ udpDest = [port |-> 0, asked |-> 0]
    /\ asked = [s \in 1..MaxCmds |-> "other"]
    /\ sent = 0
    /\ statuses = 0
    /\ got = [in |-> NoLine, out |-> NoLine]

-----------------------------------------------------------------------------
(* The client-to-radio goroutine.                                          *)

(* Mutant of Scan: the number is remembered once its line has been sent.   *)
ScanRecordsLate ==
    /\ reader = "scan"
    /\ c2p # <<>>
    /\ c2p' = Tail(c2p)
    /\ line' = Head(c2p)
    /\ seqs' = IF line.kind = "ip" THEN seqs \cup {line.seq} ELSE seqs
    /\ reader' = IF Head(c2p).kind = "udpport" /\ Head(c2p).port # 0
                 THEN "relay" ELSE "forward"
    /\ UNCHANGED <<main, relays, pcRelay, deadline, open, p2r, r2p,
                   radioUp, udpDest, asked, sent, statuses, got, hole>>

(* A line is scanned; a "client ip" number is remembered under the mutex.  *)
Scan ==
    /\ reader = "scan"
    /\ c2p # <<>>
    /\ c2p' = Tail(c2p)
    /\ line' = Head(c2p)
    /\ seqs' = IF Head(c2p).kind = "ip" THEN seqs \cup {Head(c2p).seq} ELSE seqs
    /\ reader' = IF Head(c2p).kind = "udpport" /\ Head(c2p).port # 0
                 THEN "relay" ELSE "forward"
    /\ UNCHANGED <<main, relays, pcRelay, deadline, open, p2r, r2p,
                   radioUp, udpDest, asked, sent, statuses, got, hole>>

(* startUDPRelay: a socket of its own, and a datagram to the radio's       *)
(* stream port, for any NAT on the way.                                    *)
OpenRelay(p) ==
    /\ relays[p] = 0
    /\ relays' = [relays EXCEPT ![p] = line.port]
    /\ hole' = [hole EXCEPT ![p] = RadioIP # <<>>]
    /\ pcRelay' = p
    /\ line' = [line EXCEPT !.port = p]

(* Mutant of StartRelay: the session keeps the relay it already has.       *)
StartRelayOnce ==
    /\ reader = "relay"
    /\ reader' = "forward"
    /\ IF pcRelay # 0
       THEN /\ line' = [line EXCEPT !.port = pcRelay]
            /\ UNCHANGED <<relays, pcRelay, hole>>
       ELSE \E p \in LocalPorts : OpenRelay(p)
    /\ UNCHANGED <<main, seqs, deadline, open, c2p, p2r, r2p, radioUp,
                   udpDest, asked, sent, statuses, got>>

(* "client udpport N", N # 0: the relay's port replaces N in the line; if  *)
(* no relay can be opened the line stays as it is.                         *)
StartRelay ==
    /\ reader = "relay"
    /\ reader' = "forward"
    /\ \/ \E p \in LocalPorts : OpenRelay(p)
       \/ UNCHANGED <<relays, pcRelay, hole, line>>
    /\ UNCHANGED <<main, seqs, deadline, open, c2p, p2r, r2p, radioUp,
                   udpDest, asked, sent, statuses, got>>

(* The line is written to the radio.  A failed write ends the goroutine;   *)
(* one to a link the radio has dropped may also go unnoticed.              *)
Forward ==
    /\ reader = "forward"
    /\ \/ /\ main = "loop"
          /\ p2r' = IF radioUp THEN Append(p2r, line) ELSE p2r
          /\ reader' = "scan"
       \/ /\ main = "ended" \/ ~radioUp
          /\ reader' = "done"
          /\ UNCHANGED p2r
    /\ UNCHANGED <<main, line, seqs, relays, pcRelay, deadline, open, c2p, r2p,
                   radioUp, udpDest, asked, sent, statuses, got, hole>>

(* End of the client's stream, or of the connection the session closed.    *)
(* Lines the main loop's scanner had buffered survive the deadline.        *)
ReaderEOF ==
    /\ reader = "scan"
    /\ \/ ~open /\ c2p = <<>>
       \/ main = "ended"
    /\ reader' = "done"
    /\ deadline' = TRUE
    /\ \E n \in 0..Len(r2p) : r2p' = SubSeq(r2p, 1, n)
    /\ UNCHANGED <<main, line, seqs, relays, pcRelay, open, c2p, p2r,
                   radioUp, udpDest, asked, sent, statuses, got, hole>>

-----------------------------------------------------------------------------
(* The radio-to-client loop.                                               *)

(* Mutant of RewriteAddress: the lines pass as they are.                   *)
RewriteNothing(a) == a

(* strings.ReplaceAll(line, "ip="+cfg.RadioIP, "ip="+proxyIPStr) on a      *)
(* field ip=a: the text that follows the radio's address stays behind it.  *)
RewriteAddress(a) ==
    IF ProxyIP # <<>> /\ RadioIP # <<>> /\ IsPrefix(RadioIP, a)
    THEN ProxyIP \o SubSeq(a, Len(RadioIP) + 1, Len(a))
    ELSE a

(* Every line, a response too: its ip= field, if it has one.               *)
Rewritten(l) == IF l.form = "bare" THEN l ELSE [l EXCEPT !.text = RewriteAddress(@)]

(* clientIPRespRe: a successful response of exactly one word.              *)
OneWord(l) == l.form = "ip" \/ (l.form = "bare" /\ l.text # <<>>)
IsIPResponse(l) == l.tag = "R" /\ l.ok /\ OneWord(l)

(* What the client is sent for line l.                                     *)
Outgoing(l) ==
    IF IsIPResponse(Rewritten(l)) /\ l.seq \in seqs
    THEN [l EXCEPT !.form = "bare", !.text = ClientIP]
    ELSE Rewritten(l)

(* One line is scanned, rewritten and written to the client; the write may *)
(* fail once the client has gone, which ends the loop.                     *)
Deliver ==
    /\ main = "loop"
    /\ r2p # <<>>
    /\ LET l == Head(r2p) IN
       /\ seqs' = IF IsIPResponse(Rewritten(l)) THEN seqs \ {l.seq} ELSE seqs
       /\ got' = [in |-> l, out |-> Outgoing(l)]
    /\ \/ r2p' = Tail(r2p) /\ UNCHANGED main
       \/ ~open /\ main' = "ended" /\ r2p' = <<>>
    /\ UNCHANGED <<reader, line, relays, pcRelay, deadline, open, c2p,
                   p2r, radioUp, udpDest, asked, sent, statuses, hole>>

(* The loop meets the deadline or the radio's end; the deferred calls run, *)
(* close(done) among them (their order is SmartSDRProxy's subject).        *)
EndSession ==
    /\ main = "loop"
    /\ r2p = <<>>
    /\ deadline \/ ~radioUp
    /\ main' = "ended"
    /\ UNCHANGED <<reader, line, seqs, relays, pcRelay, deadline, open,
                   c2p, p2r, r2p, radioUp, udpDest, asked, sent, statuses, got, hole>>

(* Mutant of CloseRelay: only the relay in pc.Relay is closed.             *)
CloseRelayCurrent(p) ==
    /\ main = "ended"
    /\ p = pcRelay
    /\ relays[p] # 0
    /\ relays' = [relays EXCEPT ![p] = 0]
    /\ hole' = [hole EXCEPT ![p] = FALSE]
    /\ UNCHANGED <<main, reader, line, seqs, pcRelay, deadline, open,
                   c2p, p2r, r2p, radioUp, udpDest, asked, sent, statuses, got>>

(* The goroutine of relay p that waits for done closes its socket, which   *)
(* ends the goroutine that reads from it.                                  *)
CloseRelay(p) ==
    /\ main = "ended"
    /\ relays[p] # 0
    /\ relays' = [relays EXCEPT ![p] = 0]
    /\ hole' = [hole EXCEPT ![p] = FALSE]
    /\ UNCHANGED <<main, reader, line, seqs, pcRelay, deadline, open,
                   c2p, p2r, r2p, radioUp, udpDest, asked, sent, statuses, got>>

(* Mutant of Keepalive: only the relay in pc.Relay is kept alive.          *)
KeepaliveCurrent(p) ==
    /\ main = "loop" /\ p = pcRelay /\ relays[p] # 0 /\ RadioIP # <<>> /\ ~hole[p]
    /\ hole' = [hole EXCEPT ![p] = TRUE]
    /\ UNCHANGED <<main, reader, line, seqs, relays, pcRelay, deadline, open,
                   c2p, p2r, r2p, radioUp, udpDest, asked, sent, statuses, got>>

(* The ticker of relay p, until done is closed.                            *)
Keepalive(p) ==
    /\ main = "loop" /\ relays[p] # 0 /\ RadioIP # <<>> /\ ~hole[p]
    /\ hole' = [hole EXCEPT ![p] = TRUE]
    /\ UNCHANGED <<main, reader, line, seqs, relays, pcRelay, deadline, open,
                   c2p, p2r, r2p, radioUp, udpDest, asked, sent, statuses, got>>

HoleCloses(p) ==
    /\ hole[p]
    /\ hole' = [hole EXCEPT ![p] = FALSE]
    /\ UNCHANGED <<main, reader, line, seqs, relays, pcRelay, deadline, open,
                   c2p, p2r, r2p, radioUp, udpDest, asked, sent, statuses, got>>

(* Where relay p sends a datagram that comes from the radio's stream port  *)
(* or from a port of the client: what is not exactly the client's is taken *)
(* for the radio's.                                                        *)
Carried(p, from) == IF from = relays[p] THEN RadioVITA ELSE relays[p]

(* The environment: the client numbers its commands in order; the radio    *)
(* executes them in order, with success or not, and sends status lines.    *)

ClientSend(k, p) ==
    /\ open
    /\ sent < MaxCmds
    /\ (k = "udpport") \/ p = 0
    /\ sent' = sent + 1
    /\ asked' = [asked EXCEPT ![sent + 1] = k]
    /\ c2p' = Append(c2p, Cmd(sent + 1, k, p))
    /\ UNCHANGED <<main, reader, line, seqs, relays, pcRelay, deadline, open,
                   p2r, r2p, radioUp, udpDest, statuses, got, hole>>

ClientClose ==
    /\ open
    /\ open' = FALSE
    /\ UNCHANGED <<main, reader, line, seqs, relays, pcRelay, deadline,
                   c2p, p2r, r2p, radioUp, udpDest, asked, sent, statuses, got, hole>>

(* What the radio's lines reach: a session that still reads.               *)
ToSession(l) == IF main = "loop" /\ ~deadline THEN Append(r2p, l) ELSE r2p

RadioExec ==
    /\ radioUp
    /\ p2r # <<>>
    /\ p2r' = Tail(p2r)
    /\ LET cmd == Head(p2r) IN
       \/ /\ r2p' = ToSession(Response(cmd.seq, FALSE, Bare(<<>>)))
          /\ UNCHANGED udpDest
       \/ /\ \E b \in IF cmd.kind = "ip" THEN {Bare(ProxyLanIP)} ELSE Answers :
                r2p' = ToSession(Response(cmd.seq, TRUE, b))
          /\ udpDest' = IF cmd.kind = "udpport"
                        THEN [port |-> cmd.port, asked |-> cmd.asked]
                        ELSE udpDest
    /\ UNCHANGED <<main, reader, line, seqs, relays, pcRelay, deadline, open,
                   c2p, radioUp, asked, sent, statuses, got, hole>>

RadioStatus(a) ==
    /\ radioUp
    /\ statuses < MaxStatus
    /\ statuses' = statuses + 1
    /\ r2p' = ToSession(Status(a))
    /\ UNCHANGED <<main, reader, line, seqs, relays, pcRelay, deadline, open,
                   c2p, p2r, radioUp, udpDest, asked, sent, got, hole>>

RadioDrop ==
    /\ radioUp
    /\ radioUp' = FALSE
    /\ p2r' = <<>>
    /\ UNCHANGED <<main, reader, line, seqs, relays, pcRelay, deadline, open,
                   c2p, r2p, udpDest, asked, sent, statuses, got, hole>>

-----------------------------------------------------------------------------
Reader == Scan \/ StartRelay \/ Forward \/ ReaderEOF
Main == Deliver \/ EndSession

Environment ==
    \/ \E k \in Kinds, p \in ClientPorts \cup {0} : ClientSend(k, p)
    \/ ClientClose
    \/ RadioExec
    \/ \E a \in StatusIPs : RadioStatus(a)
    \/ RadioDrop

Over == main = "ended" /\ reader = "done" /\ \A p \in LocalPorts : relays[p] = 0

Next ==
    \/ Reader
    \/ Main
    \/ \E p \in LocalPorts : CloseRelay(p) \/ Keepalive(p) \/ HoleCloses(p)
    \/ Environment
    \/ Over /\ UNCHANGED vars

Spec == Init /\ [][Next]_vars

(* Goroutines and tickers run; neither the client nor the radio owes       *)
(* anything.                                                               *)
FairSpec == /\ Spec
            /\ WF_vars(Reader)
            /\ WF_vars(Main)
            /\ \A p \in LocalPorts : WF_vars(CloseRelay(p)) /\ WF_vars(Keepalive(p))

-----------------------------------------------------------------------------
CmdType == [seq : 0..MaxCmds, kind : Kinds,
            port : ClientPorts \cup LocalPorts \cup {0},
            asked : ClientPorts \cup {0}]

TypeOK ==
    /\ main \in {"loop", "ended"}
    /\ reader \in {"scan", "relay", "forward", "done"}
    /\ line \in CmdType
    /\ seqs \subseteq 1..MaxCmds
    /\ relays \in [LocalPorts -> ClientPorts \cup {0}]
    /\ pcRelay \in LocalPorts \cup {0}
    /\ deadline \in BOOLEAN
    /\ open \in BOOLEAN
    /\ c2p \in Seq(CmdType)
    /\ p2r \in Seq(CmdType)
    /\ radioUp \in BOOLEAN
    /\ udpDest.port \in ClientPorts \cup LocalPorts \cup {0}
    /\ asked \in [1..MaxCmds -> Kinds]
    /\ sent \in 0..MaxCmds
    /\ statuses \in 0..MaxStatus

(* A client that asks for its address is told its own, never the proxy's:  *)
(* the number is remembered before the command leaves, so however the two  *)
(* goroutines interleave the answer finds it (proxy.go:580-585, 633-650).  *)
(* Any other response reaches it as every line does, with the radio's      *)
(* address replaced in a field ip= and else as it is, though the pattern   *)
(* that recognises the answer matches every successful response of one     *)
(* word, and whatever numbers failed "client ip" commands have left behind.*)
OwnAddressAnswered ==
    got.in.tag = "R" =>
        got.out = IF got.in.ok /\ asked[got.in.seq] = "ip"
                  THEN [got.in EXCEPT !.form = "bare", !.text = ClientIP]
                  ELSE Rewritten(got.in)

(* While the session runs, what the radio streams to a relay port reaches  *)
(* the port the client named in that very command, and what the client     *)
(* sends from there reaches the radio.                                     *)
StreamReachesClient ==
    main = "loop" /\ udpDest.port \in LocalPorts
        => /\ Carried(udpDest.port, RadioVITA) = udpDest.asked
           /\ Carried(udpDest.port, udpDest.asked) = RadioVITA

(* Where a line of the radio's, status or response, has its address in a   *)
(* field ip=, the client reads the proxy's (proxy.go:629-631).             *)
RadioAddressHidden ==
    got.in.form # "bare" /\ got.in.text = RadioIP
        => got.out = [got.in EXCEPT !.text = ProxyIP]

(* When the client has gone the session ends, however it was interrupted,  *)
(* and no relay outlives it: also the one the reader opens while the       *)
(* session is being closed, and all those a client's repeated "client      *)
(* udpport" commands have left behind.                                     *)
RelaysEnd ==
    <>[](~open \/ main = "ended" =>
             main = "ended" /\ \A p \in LocalPorts : relays[p] = 0)

(* The way to a relay port that the radio streams to is opened again       *)
(* whenever it closes, also when that is no longer the relay the session   *)
(* shows: the radio may refuse a later "client udpport", or not have       *)
(* executed it yet.                                                        *)
HoleReopens ==
    \A p \in LocalPorts : []<>(main = "loop" /\ udpDest.port = p => hole[p])
=============================================================================
