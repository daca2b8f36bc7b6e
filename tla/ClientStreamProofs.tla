------------------------- MODULE ClientStreamProofs --------------------------
(* What ClientStream promises for any addresses, ports and numbers of      *)
(* commands and status lines: its types, and that "client ip" is answered  *)
(* with the client's own address.                                          *)
EXTENDS ClientStream, SequenceTheorems, TLAPS

(* The types, those of the lines to the client included.                   *)
Texts == StatusIPs \cup {b.text : b \in Answers} \cup {ProxyLanIP, <<>>}
Line == [tag : {"R", "S"}, seq : 0..MaxCmds, ok : BOOLEAN, form : Forms, text : Texts]
Dest == [port : ClientPorts \cup LocalPorts \cup {0}, asked : ClientPorts \cup {0}]
Types == TypeOK /\ r2p \in Seq(Line) /\ got.in \in Line /\ udpDest \in Dest

(* The reader holds a line it has not passed on.                           *)
Busy == reader \in {"relay", "forward"}

(* Numbers in the order of the queue.                                      *)
Increasing(q) == \A i, j \in 1..Len(q) : i < j => q[i].seq < q[j].seq
ResponsesIncreasing(q) ==
    \A i, j \in 1..Len(q) :
        i < j /\ q[i].tag = "R" /\ q[j].tag = "R" => q[i].seq < q[j].seq

(* Commands overtake nothing on the way to the radio, and the radio's      *)
(* answers come in their order: no number is in two places.                *)
InOrder ==
    /\ Increasing(c2p) /\ Increasing(p2r) /\ ResponsesIncreasing(r2p)
    /\ \A i \in 1..Len(c2p) : line.seq < c2p[i].seq
    /\ \A i \in 1..Len(p2r) : /\ p2r[i].seq <= line.seq
                              /\ Busy => p2r[i].seq < line.seq
    /\ \A i \in 1..Len(r2p) : r2p[i].tag = "R" =>
          /\ r2p[i].seq <= line.seq
          /\ Busy => r2p[i].seq < line.seq
          /\ \A j \in 1..Len(p2r) : r2p[i].seq < p2r[j].seq

(* A number stands for the command the client gave it to.                  *)
Numbered ==
    /\ line.seq <= sent
    /\ Busy => line.seq >= 1 /\ asked[line.seq] = line.kind
    /\ \A q \in {c2p, p2r} : \A i \in 1..Len(q) :
          q[i].seq \in 1..sent /\ asked[q[i].seq] = q[i].kind
    /\ \A i \in 1..Len(r2p) : r2p[i].tag = "R" => r2p[i].seq \in 1..sent
    /\ got.in.tag = "R" => got.in.seq \in 1..sent

(* A "client ip" is remembered until its answer has passed, and that       *)
(* answer is an address, not a field.                                      *)
IPAnswer(l) == l.form = "bare" /\ (l.ok => l.text = ProxyLanIP)
Remembered ==
    /\ \A s \in seqs : s <= sent /\ asked[s] = "ip"
    /\ Busy /\ line.kind = "ip" => line.seq \in seqs
    /\ \A i \in 1..Len(p2r) : p2r[i].kind = "ip" => p2r[i].seq \in seqs
    /\ \A i \in 1..Len(r2p) : r2p[i].tag = "R" /\ asked[r2p[i].seq] = "ip" =>
          r2p[i].seq \in seqs /\ IPAnswer(r2p[i])

(* A relay's port stands for the port the client named in its command.     *)
Served(x) == x.port \in LocalPorts => x.asked # 0 /\ relays[x.port] = x.asked
Rewired ==
    /\ \A i \in 1..Len(c2p) : c2p[i].port = c2p[i].asked
    /\ reader = "relay" => line.port = line.asked /\ line.port # 0
    /\ main = "loop" =>
          /\ Served(line) /\ Served(udpDest)
          /\ \A i \in 1..Len(p2r) : Served(p2r[i])

IInv == Types /\ InOrder /\ Numbered /\ Remembered /\ OwnAddressAnswered /\ Rewired

-----------------------------------------------------------------------------
(* Taking the first of a queue, adding to it, and losing its end.          *)
LEMMA QueueFacts ==
    ASSUME NEW S, NEW q \in Seq(S), q # <<>>
    PROVE  /\ Len(q) \in Nat /\ Len(q) >= 1 /\ Head(q) = q[1] /\ Head(q) \in S
           /\ Tail(q) \in Seq(S) /\ Len(Tail(q)) = Len(q) - 1
           /\ \A i \in 1..Len(Tail(q)) : /\ Tail(q)[i] = q[i + 1]
                                         /\ i + 1 \in 1..Len(q) /\ i + 1 > 1
<1>1. Len(q) \in Nat /\ Len(q) >= 1
  <2>1. Len(q) \in Nat \ {0}
    BY EmptySeq
  <2>. QED
    BY <2>1
<1>2. /\ Head(q) \in S /\ Tail(q) \in Seq(S) /\ Len(Tail(q)) = Len(q) - 1
      /\ \A i \in 1..Len(Tail(q)) : Tail(q)[i] = q[i + 1]
  BY HeadTailProperties
<1>3. Head(q) = q[1]
  OBVIOUS
<1>. QED
  BY <1>1, <1>2, <1>3

LEMMA AppendFacts ==
    ASSUME NEW S, NEW q \in Seq(S), NEW x \in S
    PROVE  /\ Append(q, x) \in Seq(S) /\ Len(Append(q, x)) = Len(q) + 1
           /\ Len(q) \in Nat
           /\ \A i \in 1..Len(Append(q, x)) :
                 \/ i \in 1..Len(q) /\ Append(q, x)[i] = q[i]
                 \/ i = Len(q) + 1 /\ Append(q, x)[i] = x
<1>1. Len(q) \in Nat
  BY LenProperties
<1>2. /\ Append(q, x) \in Seq(S) /\ Len(Append(q, x)) = Len(q) + 1
      /\ \A i \in 1..Len(q) : Append(q, x)[i] = q[i]
      /\ Append(q, x)[Len(q) + 1] = x
  BY AppendProperties
<1>. QED
  BY <1>1, <1>2

LEMMA PrefixFacts ==
    ASSUME NEW S, NEW q \in Seq(S), NEW n \in 0..Len(q)
    PROVE  /\ SubSeq(q, 1, n) \in Seq(S) /\ Len(SubSeq(q, 1, n)) = n
           /\ \A i \in 1..n : i \in 1..Len(q) /\ SubSeq(q, 1, n)[i] = q[i]
<1>1. Len(q) \in Nat
  BY LenProperties
<1>2. \A i \in 1..n : i \in 1..Len(q) /\ q[i] \in S
  BY <1>1, ElementOfSeq
<1>3. Len(SubSeq(q, 1, n)) = n /\ \A i \in 1..n : SubSeq(q, 1, n)[i] = q[i]
  BY <1>1, SubSeqProperties
<1>4. SubSeq(q, 1, n) \in Seq(S)
  BY <1>1, <1>2, SubSeqProperties
<1>. QED
  BY <1>2, <1>3, <1>4

(* The numbers that are compared are naturals.                             *)
LEMMA Numbers ==
    ASSUME Types
    PROVE  /\ line.seq \in Nat /\ sent \in Nat
           /\ Len(c2p) \in Nat /\ Len(p2r) \in Nat /\ Len(r2p) \in Nat
           /\ \A i \in 1..Len(c2p) : c2p[i] \in CmdType /\ c2p[i].seq \in Nat
           /\ \A i \in 1..Len(p2r) : p2r[i] \in CmdType /\ p2r[i].seq \in Nat
           /\ \A i \in 1..Len(r2p) : r2p[i] \in Line /\ r2p[i].seq \in Nat
<1>1. c2p \in Seq(CmdType) /\ p2r \in Seq(CmdType) /\ r2p \in Seq(Line)
  BY DEF Types, TypeOK
<1>2. /\ \A x \in CmdType : x.seq \in Nat
      /\ \A x \in Line : x.seq \in Nat
  BY BoundsAssumption DEF CmdType, Line
<1>3. line.seq \in Nat /\ sent \in Nat
  BY <1>2, BoundsAssumption DEF Types, TypeOK
<1>. QED
  BY <1>1, <1>2, <1>3, LenProperties, ElementOfSeq

LEMMA InitIInv == Init => IInv
<1>. SUFFICES ASSUME Init PROVE IInv
  OBVIOUS
<1>1. 0 \in 0..MaxCmds /\ 0 \in 0..MaxStatus
  BY BoundsAssumption
<1>2. NoCmd \in CmdType
  BY <1>1 DEF NoCmd, Cmd, CmdType, Kinds
<1>3. NoLine \in Line
  BY <1>1 DEF NoLine, Status, Line, Forms, Texts
<1>4. Types
  <2>1. /\ relays \in [LocalPorts -> ClientPorts \cup {0}]
        /\ asked \in [1..MaxCmds -> Kinds]
    BY DEF Init, Kinds
  <2>2. c2p \in Seq(CmdType) /\ p2r \in Seq(CmdType) /\ r2p \in Seq(Line)
    BY DEF Init
  <2>3. udpDest \in Dest /\ udpDest.port \in ClientPorts \cup LocalPorts \cup {0}
    BY DEF Init, Dest
  <2>4. got.in \in Line /\ line \in CmdType
    BY <1>2, <1>3 DEF Init
  <2>5. /\ main \in {"loop", "ended"} /\ reader \in {"scan", "relay", "forward", "done"}
        /\ seqs \subseteq 1..MaxCmds /\ pcRelay \in LocalPorts \cup {0}
        /\ deadline \in BOOLEAN /\ open \in BOOLEAN /\ radioUp \in BOOLEAN
    BY DEF Init
  <2>6. sent \in 0..MaxCmds /\ statuses \in 0..MaxStatus
    BY <1>1 DEF Init
  <2>. QED
    BY <2>1, <2>2, <2>3, <2>4, <2>5, <2>6 DEF Types, TypeOK
<1>5. /\ Len(c2p) = 0 /\ Len(p2r) = 0 /\ Len(r2p) = 0
      /\ line.seq = 0 /\ line.port = 0 /\ udpDest.port = 0 /\ got.in.tag = "S"
      /\ ~Busy /\ sent = 0 /\ seqs = {} /\ reader # "relay"
  BY EmptySeq DEF Init, NoCmd, Cmd, NoLine, Status, Busy
<1>6. InOrder
  BY <1>5 DEF InOrder, Increasing, ResponsesIncreasing
<1>7. Numbered /\ Remembered
  BY <1>5 DEF Numbered, Remembered
<1>8. OwnAddressAnswered /\ Rewired
  BY <1>5, PortsAssumption DEF OwnAddressAnswered, Rewired, Served
<1>. QED
  BY <1>4, <1>6, <1>7, <1>8 DEF IInv

-----------------------------------------------------------------------------
(* The client-to-radio goroutine.                                          *)

LEMMA ScanStep == ASSUME IInv, Scan PROVE IInv'
<1>. USE DEF IInv, Scan
<1>1. c2p \in Seq(CmdType) /\ c2p # <<>>
  BY DEF Types, TypeOK
<1>2. /\ Len(c2p) \in Nat /\ Len(c2p) >= 1 /\ Head(c2p) = c2p[1] /\ Head(c2p) \in CmdType
      /\ c2p' \in Seq(CmdType) /\ Len(c2p') = Len(c2p) - 1
      /\ \A i \in 1..Len(c2p') : c2p'[i] = c2p[i + 1] /\ i + 1 \in 1..Len(c2p) /\ i + 1 > 1
  BY <1>1, QueueFacts
<1>3. line' = c2p[1] /\ 1 \in 1..Len(c2p) /\ line'.seq \in 1..sent
      /\ asked[line'.seq] = line'.kind /\ line.seq < line'.seq
  BY <1>2 DEF Numbered, InOrder
<1>4. Types'
  <2>1. seqs' \subseteq 1..MaxCmds
    <3>1. sent \in 0..MaxCmds /\ seqs \subseteq 1..MaxCmds
      BY DEF Types, TypeOK
    <3>2. line'.seq \in 1..MaxCmds
      BY <1>3, <3>1, BoundsAssumption
    <3>. QED
      BY <1>2, <1>3, <3>1, <3>2
  <2>2. reader' \in {"scan", "relay", "forward", "done"}
    OBVIOUS
  <2>. QED
    BY <1>2, <1>3, <2>1, <2>2 DEF Types, TypeOK
<1>5. InOrder'
  <2>1. Increasing(c2p')
    BY <1>2, Numbers DEF InOrder, Increasing
  <2>2. \A i \in 1..Len(c2p') : line'.seq < c2p'[i].seq
    BY <1>2, <1>3 DEF InOrder, Increasing
  <2>3. \A i \in 1..Len(p2r) : p2r[i].seq < line'.seq
    BY <1>3, Numbers DEF InOrder
  <2>4. \A i \in 1..Len(r2p) : r2p[i].tag = "R" => r2p[i].seq < line'.seq
    BY <1>3, Numbers DEF InOrder
  <2>5. line'.seq \in Nat
    BY <1>3, Numbers
  <2>. QED
    BY <2>1, <2>2, <2>3, <2>4, <2>5, Numbers DEF InOrder
<1>6. Numbered'
  BY <1>2, <1>3, Numbers DEF Numbered
<1>7. Remembered'
  <2>1. seqs' = IF line'.kind = "ip" THEN seqs \cup {line'.seq} ELSE seqs
    BY <1>2, <1>3
  <2>. QED
    BY <1>3, <2>1, Numbers DEF Remembered
<1>8. OwnAddressAnswered'
  BY DEF OwnAddressAnswered
<1>9. Rewired'
  <2>1. line'.port = line'.asked
    BY <1>3 DEF Rewired
  <2>2. line'.port \notin LocalPorts
    BY <1>2, <2>1, PortsAssumption DEF CmdType
  <2>3. reader' = "relay" => line'.port # 0
    BY <1>2
  <2>4. \A i \in 1..Len(c2p') : c2p'[i].port = c2p'[i].asked
    BY <1>2 DEF Rewired
  <2>. QED
    BY <2>1, <2>2, <2>3, <2>4 DEF Rewired, Served
<1>. QED
  BY <1>4, <1>5, <1>6, <1>7, <1>8, <1>9

(* The new relay's port stands for the one the client named.               *)
LEMMA StartRelayStep == ASSUME IInv, StartRelay PROVE IInv'
<1>. USE DEF IInv, StartRelay
<1>1. /\ line.port = line.asked /\ line.port # 0 /\ line \in CmdType
      /\ relays \in [LocalPorts -> ClientPorts \cup {0}]
  BY DEF Rewired, Types, TypeOK
<1>2. /\ line.seq \in 0..MaxCmds /\ line.kind \in Kinds /\ line.asked \in ClientPorts \cup {0}
      /\ line.port \in ClientPorts
  <2>1. line.port \in ClientPorts \cup LocalPorts \cup {0} /\ line.asked \in ClientPorts \cup {0}
    BY <1>1 DEF CmdType
  <2>. QED
    BY <1>1, <2>1 DEF CmdType
<1>3. CASE UNCHANGED <<relays, pcRelay, hole, line>>
  <2>1. Types' /\ InOrder' /\ Numbered' /\ Remembered' /\ OwnAddressAnswered'
    BY <1>3 DEF Types, TypeOK, InOrder, Numbered, Remembered, OwnAddressAnswered, Busy
  <2>2. Rewired'
    BY <1>3 DEF Rewired, Served
  <2>. QED
    BY <2>1, <2>2
<1>4. ASSUME NEW p \in LocalPorts, OpenRelay(p) PROVE IInv'
  <2>. USE <1>4 DEF OpenRelay
  <2>1. /\ line'.seq = line.seq /\ line'.kind = line.kind /\ line'.asked = line.asked
        /\ line'.port = p /\ line' \in CmdType
    BY <1>1, <1>2 DEF CmdType
  <2>2. Types'
    <3>1. relays' \in [LocalPorts -> ClientPorts \cup {0}]
      BY <1>1, <1>2
    <3>. QED
      BY <2>1, <3>1 DEF Types, TypeOK
  <2>3. InOrder' /\ Numbered' /\ Remembered'
    BY <2>1 DEF InOrder, Numbered, Remembered, Busy
  <2>4. OwnAddressAnswered'
    BY DEF OwnAddressAnswered
  <2>5. relays[p] = 0 /\ relays'[p] = line.asked
        /\ \A q \in LocalPorts : q # p => relays'[q] = relays[q]
    BY <1>1
  <2>7. Served(line)'
    BY <1>1, <2>1, <2>5 DEF Served
  <2>8. main = "loop" => Served(udpDest)' /\ \A i \in 1..Len(p2r) : Served(p2r[i])'
    BY <2>5 DEF Served, Rewired
  <2>9. Rewired'
    BY <2>7, <2>8, <2>5 DEF Rewired, Served
  <2>. QED
    BY <2>2, <2>3, <2>4, <2>9
<1>. QED
  BY <1>3, <1>4

LEMMA ForwardStep == ASSUME IInv, Forward PROVE IInv'
<1>. USE DEF IInv, Forward
<1>1. Busy /\ ~Busy'
  BY DEF Busy
<1>2. CASE p2r' = Append(p2r, line)
  <2>1. line \in CmdType /\ p2r \in Seq(CmdType)
    BY DEF Types, TypeOK
  <2>2. /\ p2r' \in Seq(CmdType) /\ Len(p2r') = Len(p2r) + 1 /\ Len(p2r) \in Nat
        /\ \A i \in 1..Len(p2r') : \/ i \in 1..Len(p2r) /\ p2r'[i] = p2r[i]
                                   \/ i = Len(p2r) + 1 /\ p2r'[i] = line
    BY <1>2, <2>1, AppendFacts
  <2>3. Types'
    BY <2>2 DEF Types, TypeOK
  <2>4. InOrder'
    <3>1. Increasing(p2r')
      BY <1>1, <2>2 DEF InOrder, Increasing
    <3>2. \A i \in 1..Len(p2r') : p2r'[i].seq <= line.seq
      BY <2>2, Numbers DEF InOrder
    <3>3. \A i \in 1..Len(r2p) : r2p[i].tag = "R" =>
             \A j \in 1..Len(p2r') : r2p[i].seq < p2r'[j].seq
      BY <1>1, <2>2 DEF InOrder
    <3>. QED
      BY <1>1, <3>1, <3>2, <3>3 DEF InOrder
  <2>5. Numbered'
    <3>1. line.seq \in 1..sent
      BY <1>1, Numbers DEF Numbered
    <3>. QED
      BY <1>1, <2>2, <3>1 DEF Numbered
  <2>6. Remembered'
    BY <1>1, <2>2 DEF Remembered
  <2>7. OwnAddressAnswered'
    BY DEF OwnAddressAnswered
  <2>8. Rewired'
    BY <2>2 DEF Rewired, Served
  <2>. QED
    BY <2>3, <2>4, <2>5, <2>6, <2>7, <2>8
<1>3. CASE UNCHANGED p2r
  <2>1. Types' /\ InOrder' /\ Numbered' /\ Remembered' /\ OwnAddressAnswered'
    BY <1>1, <1>3 DEF Types, TypeOK, InOrder, Numbered, Remembered, OwnAddressAnswered
  <2>2. Rewired'
    BY <1>3 DEF Rewired, Served
  <2>. QED
    BY <2>1, <2>2
<1>. QED
  BY <1>2, <1>3

LEMMA ReaderEOFStep == ASSUME IInv, ReaderEOF PROVE IInv'
<1>. USE DEF IInv, ReaderEOF
<1>1. r2p \in Seq(Line) /\ ~Busy'
  BY DEF Types, Busy
<1>2. PICK n \in 0..Len(r2p) : r2p' = SubSeq(r2p, 1, n)
  OBVIOUS
<1>3. /\ r2p' \in Seq(Line) /\ Len(r2p') = n
      /\ \A i \in 1..Len(r2p') : i \in 1..Len(r2p) /\ r2p'[i] = r2p[i]
  BY <1>1, <1>2, PrefixFacts
<1>4. Types'
  BY <1>3 DEF Types, TypeOK
<1>5. InOrder'
  BY <1>1, <1>3 DEF InOrder, ResponsesIncreasing
<1>6. Numbered' /\ Remembered'
  BY <1>1, <1>3 DEF Numbered, Remembered
<1>7. OwnAddressAnswered' /\ Rewired'
  BY DEF OwnAddressAnswered, Rewired, Served
<1>. QED
  BY <1>4, <1>5, <1>6, <1>7

-----------------------------------------------------------------------------
(* The radio-to-client loop.                                               *)

(* The rewriting leaves everything but the text of a line alone.           *)
LEMMA RewrittenFields ==
    ASSUME NEW l \in Line
    PROVE  /\ Rewritten(l).tag = l.tag /\ Rewritten(l).seq = l.seq
           /\ Rewritten(l).ok = l.ok /\ Rewritten(l).form = l.form
BY DEF Rewritten, Line

(* The line that is delivered gets the client's address exactly when it    *)
(* answers a "client ip", and the number is not forgotten by another's.    *)
LEMMA DeliverStep == ASSUME IInv, Deliver PROVE IInv'
<1>. USE DEF IInv, Deliver
<1>. DEFINE l == Head(r2p)
<1>1. /\ r2p \in Seq(Line) /\ Len(r2p) \in Nat /\ Len(r2p) >= 1 /\ 1 \in 1..Len(r2p)
      /\ l = r2p[1] /\ l \in Line
      /\ Tail(r2p) \in Seq(Line) /\ Len(Tail(r2p)) = Len(r2p) - 1
      /\ \A i \in 1..Len(Tail(r2p)) : /\ Tail(r2p)[i] = r2p[i + 1]
                                      /\ i + 1 \in 1..Len(r2p) /\ i + 1 > 1
  <2>1. r2p \in Seq(Line) /\ r2p # <<>>
    BY DEF Types
  <2>. QED
    BY <2>1, QueueFacts
<1>2. \/ r2p' = Tail(r2p)
      \/ r2p' = <<>> /\ main' = "ended"
  OBVIOUS
<1>3. /\ r2p' \in Seq(Line)
      /\ \A i \in 1..Len(r2p') : /\ r2p'[i] = r2p[i + 1]
                                 /\ i + 1 \in 1..Len(r2p) /\ i + 1 > 1
      /\ Len(r2p') \in Nat
  <2>1. CASE r2p' = Tail(r2p)
    BY <1>1, <2>1
  <2>2. CASE r2p' = <<>>
    BY <2>2
  <2>. QED
    BY <1>2, <2>1, <2>2
<1>4. /\ seqs' = IF IsIPResponse(Rewritten(l)) THEN seqs \ {l.seq} ELSE seqs
      /\ got' = [in |-> l, out |-> Outgoing(l)]
  OBVIOUS
<1>5. l.tag = "R" => l.seq \in 1..sent
  BY <1>1 DEF Numbered
<1>6. main' \in {"loop", "ended"} /\ main = "loop"
  OBVIOUS
<1>. HIDE DEF l
<1>7. Types'
  <2>1. seqs' \subseteq 1..MaxCmds
    BY <1>4 DEF Types, TypeOK
  <2>2. got'.in \in Line
    BY <1>1, <1>4
  <2>3. UNCHANGED <<reader, line, relays, pcRelay, deadline, open, c2p, p2r, radioUp,
                    udpDest, asked, sent, statuses>>
    OBVIOUS
  <2>4. Types /\ main' \in {"loop", "ended"} /\ r2p' \in Seq(Line)
    BY <1>3, <1>6
  <2>. HIDE DEF Deliver, IInv
  <2>. QED
    BY <2>1, <2>2, <2>3, <2>4 DEF Types, TypeOK
<1>8. InOrder'
  <2>1. ResponsesIncreasing(r2p')
    <3>. SUFFICES ASSUME NEW i \in 1..Len(r2p'), NEW j \in 1..Len(r2p'), i < j,
                         r2p'[i].tag = "R", r2p'[j].tag = "R"
                  PROVE  r2p'[i].seq < r2p'[j].seq
      BY DEF ResponsesIncreasing
    <3>1. /\ i + 1 \in 1..Len(r2p) /\ j + 1 \in 1..Len(r2p) /\ i + 1 < j + 1
          /\ r2p'[i] = r2p[i + 1] /\ r2p'[j] = r2p[j + 1]
      BY <1>3
    <3>2. ResponsesIncreasing(r2p)
      BY DEF InOrder
    <3>. HIDE DEF Deliver, IInv
    <3>. QED
      BY <3>1, <3>2 DEF ResponsesIncreasing
  <2>. QED
    BY <1>3, <2>1 DEF InOrder, Busy
<1>9. Numbered'
  BY <1>3, <1>4, <1>5 DEF Numbered, Busy
<1>10. Remembered'
  <2>1. CASE IsIPResponse(Rewritten(l))
    <3>1. l.tag = "R" /\ seqs' = seqs \ {l.seq} /\ l.seq \in Nat
      BY <1>1, <1>4, <1>5, <2>1, RewrittenFields DEF IsIPResponse
    <3>2. Busy => line.seq # l.seq
      BY <1>1, <3>1, Numbers DEF InOrder
    <3>3. \A i \in 1..Len(p2r) : p2r[i].seq # l.seq
      BY <1>1, <3>1, Numbers DEF InOrder
    <3>4. \A i \in 1..Len(r2p') : r2p'[i].tag = "R" => r2p'[i].seq # l.seq
      BY <1>1, <1>3, <3>1, Numbers DEF InOrder, ResponsesIncreasing
    <3>. QED
      BY <1>3, <3>1, <3>2, <3>3, <3>4 DEF Remembered, Busy
  <2>2. CASE ~IsIPResponse(Rewritten(l))
    BY <1>3, <1>4, <2>2 DEF Remembered, Busy
  <2>. QED
    BY <2>1, <2>2
<1>11. OwnAddressAnswered'
  <2>1. l.tag = "R" => (l.seq \in seqs <=> asked[l.seq] = "ip")
    BY <1>1 DEF Remembered
  <2>2. l.tag = "R" => Outgoing(l) = IF l.ok /\ asked[l.seq] = "ip"
                                     THEN [l EXCEPT !.form = "bare", !.text = ClientIP]
                                     ELSE Rewritten(l)
    <3>1. CASE l.tag = "R" /\ asked[l.seq] = "ip"
      <4>1. (Rewritten(l) = l /\ OneWord(l)) \/ ~l.ok
        BY <1>1, <3>1, LanAssumption DEF Remembered, IPAnswer, Rewritten, OneWord
      <4>. QED
        BY <1>1, <2>1, <3>1, <4>1, RewrittenFields DEF Outgoing, IsIPResponse
    <3>2. CASE l.tag = "R" /\ asked[l.seq] # "ip"
      BY <2>1, <3>2 DEF Outgoing
    <3>. QED
      BY <3>1, <3>2
  <2>3. got'.in = l /\ got'.out = Outgoing(l)
    BY <1>4
  <2>. QED
    BY <2>2, <2>3 DEF OwnAddressAnswered
<1>12. Rewired'
  BY <1>6 DEF Rewired, Served
<1>. QED
  BY <1>7, <1>8, <1>9, <1>10, <1>11, <1>12

-----------------------------------------------------------------------------
(* What ends a session, the sockets of its relays, and a client that goes. *)
LEMMA EndStep ==
    ASSUME IInv,
           \/ EndSession \/ ClientClose
           \/ \E p \in LocalPorts : CloseRelay(p) \/ Keepalive(p) \/ HoleCloses(p)
    PROVE  IInv'
<1>. USE DEF IInv, EndSession, ClientClose, CloseRelay, Keepalive, HoleCloses
<1>1. /\ main' \in {"loop", "ended"} /\ open' \in BOOLEAN
      /\ main' = "loop" => main = "loop" /\ relays' = relays
      /\ relays' \in [LocalPorts -> ClientPorts \cup {0}]
  BY DEF Types, TypeOK
<1>2. UNCHANGED <<reader, line, seqs, pcRelay, deadline, c2p, p2r, r2p, radioUp, udpDest,
                  asked, sent, statuses, got>>
  OBVIOUS
<1>3. Types'
  BY <1>1, <1>2 DEF Types, TypeOK
<1>4. InOrder' /\ Numbered' /\ Remembered' /\ OwnAddressAnswered'
  BY <1>2 DEF InOrder, Numbered, Remembered, OwnAddressAnswered, Busy
<1>5. Rewired'
  BY <1>1, <1>2 DEF Rewired, Served
<1>. QED
  BY <1>3, <1>4, <1>5

-----------------------------------------------------------------------------
(* The client's commands and the radio.                                    *)

LEMMA ClientSendStep ==
    ASSUME IInv, NEW k \in Kinds, NEW p \in ClientPorts \cup {0}, ClientSend(k, p)
    PROVE  IInv'
<1>. USE DEF IInv, ClientSend
<1>. DEFINE cmd == Cmd(sent + 1, k, p)
<1>1. sent \in 0..MaxCmds /\ sent + 1 \in 1..MaxCmds /\ sent' = sent + 1
      /\ asked \in [1..MaxCmds -> Kinds]
  BY BoundsAssumption DEF Types, TypeOK
<1>2. /\ cmd \in CmdType /\ cmd.seq = sent + 1 /\ cmd.kind = k
      /\ cmd.port = p /\ cmd.asked = p
  BY <1>1 DEF Cmd, CmdType
<1>3. c2p' = Append(c2p, cmd) /\ c2p \in Seq(CmdType)
  BY DEF Types, TypeOK
<1>. HIDE DEF cmd
<1>4. /\ c2p' \in Seq(CmdType) /\ Len(c2p') = Len(c2p) + 1 /\ Len(c2p) \in Nat
      /\ \A i \in 1..Len(c2p') : \/ i \in 1..Len(c2p) /\ c2p'[i] = c2p[i]
                                 \/ i = Len(c2p) + 1 /\ c2p'[i] = cmd
  BY <1>2, <1>3, AppendFacts
<1>5. /\ asked' \in [1..MaxCmds -> Kinds] /\ asked'[sent + 1] = k
      /\ \A s \in 1..sent : asked'[s] = asked[s]
  BY <1>1
<1>6. Types'
  <2>1. sent' \in 0..MaxCmds
    BY <1>1
  <2>2. UNCHANGED <<main, reader, line, seqs, relays, pcRelay, deadline, open, p2r, r2p,
                    radioUp, udpDest, statuses, got>>
    OBVIOUS
  <2>. QED
    BY <1>4, <1>5, <2>1, <2>2 DEF Types, TypeOK
<1>7. InOrder'
  <2>1. \A i \in 1..Len(c2p) : c2p[i].seq <= sent
    BY Numbers DEF Numbered
  <2>2. Increasing(c2p')
    BY <1>2, <1>4, <2>1, Numbers DEF InOrder, Increasing
  <2>3. \A i \in 1..Len(c2p') : line.seq < c2p'[i].seq
    BY <1>2, <1>4, Numbers DEF InOrder, Numbered
  <2>. QED
    BY <2>2, <2>3 DEF InOrder, Busy
<1>8. Numbered'
  <2>1. line.seq <= sent'
    BY <1>1, Numbers DEF Numbered
  <2>2. Busy' => line.seq >= 1 /\ asked'[line.seq] = line.kind
    BY <1>5, Numbers DEF Numbered, Busy
  <2>3. \A i \in 1..Len(p2r) : p2r[i].seq \in 1..sent' /\ asked'[p2r[i].seq] = p2r[i].kind
    BY <1>1, <1>5, Numbers DEF Numbered
  <2>4. \A i \in 1..Len(c2p') : c2p'[i].seq \in 1..sent' /\ asked'[c2p'[i].seq] = c2p'[i].kind
    BY <1>1, <1>2, <1>4, <1>5, Numbers DEF Numbered
  <2>5. /\ \A i \in 1..Len(r2p) : r2p[i].tag = "R" => r2p[i].seq \in 1..sent'
        /\ got.in.tag = "R" => got.in.seq \in 1..sent'
    BY <1>1, Numbers DEF Numbered
  <2>. QED
    BY <2>1, <2>2, <2>3, <2>4, <2>5 DEF Numbered
<1>9. Remembered'
  <2>1. \A s \in seqs : s \in 1..sent
    BY <1>1 DEF Remembered, Types, TypeOK
  <2>2. \A s \in seqs : s <= sent' /\ asked'[s] = "ip"
    BY <1>1, <1>5, <2>1 DEF Remembered
  <2>3. \A i \in 1..Len(r2p) : r2p[i].tag = "R" /\ asked'[r2p[i].seq] = "ip"
            => r2p[i].seq \in seqs /\ IPAnswer(r2p[i])
    BY <1>5 DEF Remembered, Numbered
  <2>. QED
    BY <2>2, <2>3 DEF Remembered, Busy
<1>10. OwnAddressAnswered'
  BY <1>5 DEF OwnAddressAnswered, Numbered
<1>11. Rewired'
  BY <1>2, <1>4 DEF Rewired, Served
<1>. QED
  BY <1>6, <1>7, <1>8, <1>9, <1>10, <1>11

(* What a line from the radio adds to those it has sent, if it reaches the *)
(* session at all.                                                         *)
LEMMA ToSessionFacts ==
    ASSUME IInv, NEW x \in Line, r2p' = ToSession(x)
    PROVE  /\ r2p' \in Seq(Line)
           /\ \A i \in 1..Len(r2p') : \/ i \in 1..Len(r2p) /\ r2p'[i] = r2p[i]
                                      \/ i = Len(r2p) + 1 /\ r2p'[i] = x
<1>1. r2p \in Seq(Line) /\ Len(r2p) \in Nat
  BY Numbers DEF IInv, Types
<1>2. CASE r2p' = Append(r2p, x)
  BY <1>1, <1>2, AppendFacts
<1>3. CASE r2p' = r2p
  BY <1>1, <1>3
<1>. QED
  BY <1>2, <1>3 DEF ToSession

LEMMA RadioStatusStep ==
    ASSUME IInv, NEW a \in StatusIPs, RadioStatus(a)
    PROVE  IInv'
<1>. USE DEF IInv, RadioStatus
<1>1. Status(a) \in Line /\ Status(a).tag = "S"
  BY BoundsAssumption DEF Status, Line, Forms, Texts
<1>2. /\ r2p' \in Seq(Line) /\ Len(r2p) \in Nat /\ Len(r2p') \in Nat
      /\ \A i \in 1..Len(r2p') : \/ i \in 1..Len(r2p) /\ r2p'[i] = r2p[i]
                                 \/ r2p'[i].tag = "S"
  <2>1. r2p' = ToSession(Status(a))
    OBVIOUS
  <2>2. r2p' \in Seq(Line)
    BY <1>1, <2>1, ToSessionFacts
  <2>. QED
    BY <1>1, <2>1, <2>2, ToSessionFacts, Numbers, LenProperties
<1>3. Types'
  <2>1. statuses' \in 0..MaxStatus
    BY BoundsAssumption DEF Types, TypeOK
  <2>. QED
    BY <1>2, <2>1 DEF Types, TypeOK
<1>4. InOrder'
  BY <1>2 DEF InOrder, ResponsesIncreasing, Busy
<1>5. Numbered' /\ Remembered'
  BY <1>2 DEF Numbered, Remembered, Busy
<1>6. OwnAddressAnswered' /\ Rewired'
  BY DEF OwnAddressAnswered, Rewired, Served
<1>. QED
  BY <1>3, <1>4, <1>5, <1>6

LEMMA RadioDropStep == ASSUME IInv, RadioDrop PROVE IInv'
<1>. USE DEF IInv, RadioDrop
<1>1. p2r' \in Seq(CmdType) /\ Len(p2r') = 0
  OBVIOUS
<1>2. Types'
  BY <1>1 DEF Types, TypeOK
<1>3. InOrder' /\ Numbered' /\ Remembered'
  BY <1>1 DEF InOrder, Increasing, Numbered, Remembered, Busy
<1>4. OwnAddressAnswered' /\ Rewired'
  BY <1>1 DEF OwnAddressAnswered, Rewired, Served
<1>. QED
  BY <1>2, <1>3, <1>4

(* The radio's response to a command: an answer to "client ip" is bare.    *)
Message(cmd, ok, b) ==
    \/ ~ok /\ b = Bare(<<>>)
    \/ ok /\ b = Bare(ProxyLanIP) /\ cmd.kind = "ip"
    \/ ok /\ b \in Answers /\ cmd.kind # "ip"

LEMMA ResponseType ==
    ASSUME NEW cmd \in CmdType, NEW ok \in BOOLEAN, NEW b, Message(cmd, ok, b)
    PROVE  LET x == Response(cmd.seq, ok, b)
           IN  /\ x \in Line /\ x.tag = "R" /\ x.seq = cmd.seq
               /\ cmd.kind = "ip" => IPAnswer(x)
<1>1. b.form \in Forms /\ b.text \in Texts
  BY AnswersAssumption DEF Message, Bare, Forms, Texts
<1>2. cmd.seq \in 0..MaxCmds
  BY DEF CmdType
<1>3. cmd.kind = "ip" => b.form = "bare" /\ (ok => b.text = ProxyLanIP)
  BY DEF Message, Bare
<1>. QED
  BY <1>1, <1>2, <1>3 DEF Response, Line, IPAnswer

(* The answer takes the place of its command in the order.                 *)
LEMMA RadioExecStep == ASSUME IInv, RadioExec PROVE IInv'
<1>. DEFINE cmd == Head(p2r)
<1>1. /\ p2r \in Seq(CmdType) /\ Len(p2r) \in Nat /\ 1 \in 1..Len(p2r)
      /\ cmd = p2r[1] /\ cmd \in CmdType
      /\ p2r' \in Seq(CmdType) /\ Len(p2r') \in Nat
      /\ \A i \in 1..Len(p2r') : /\ p2r'[i] = p2r[i + 1]
                                 /\ i + 1 \in 1..Len(p2r) /\ i + 1 > 1
  <2>1. p2r \in Seq(CmdType) /\ p2r # <<>> /\ p2r' = Tail(p2r)
    BY DEF IInv, Types, TypeOK, RadioExec
  <2>. QED
    BY <2>1, QueueFacts, LenProperties
<1>2. PICK ok, b : /\ ok \in BOOLEAN /\ Message(cmd, ok, b)
                   /\ r2p' = ToSession(Response(cmd.seq, ok, b))
  BY DEF RadioExec, Message
<1>. DEFINE x == Response(cmd.seq, ok, b)
<1>3. udpDest' \in {udpDest, [port |-> cmd.port, asked |-> cmd.asked]}
  BY DEF RadioExec
<1>4. UNCHANGED <<main, reader, line, seqs, relays, pcRelay, deadline, open, c2p, radioUp,
                  asked, sent, statuses, got>>
  BY DEF RadioExec
<1>. HIDE DEF cmd
<1>5. cmd.seq \in 0..MaxCmds /\ cmd.port \in ClientPorts \cup LocalPorts \cup {0}
      /\ cmd.asked \in ClientPorts \cup {0}
  BY <1>1 DEF CmdType
<1>6. /\ x \in Line /\ x.tag = "R" /\ x.seq = cmd.seq
      /\ cmd.kind = "ip" => IPAnswer(x)
      /\ r2p' = ToSession(x)
  BY <1>1, <1>2, ResponseType
<1>. HIDE DEF x
<1>7. /\ r2p' \in Seq(Line) /\ Len(r2p) \in Nat /\ Len(r2p') \in Nat
      /\ \A i \in 1..Len(r2p') : \/ i \in 1..Len(r2p) /\ r2p'[i] = r2p[i]
                                 \/ i = Len(r2p) + 1 /\ r2p'[i] = x
  <2>1. r2p' \in Seq(Line)
    BY <1>6, ToSessionFacts
  <2>. QED
    BY <1>6, <2>1, ToSessionFacts, Numbers, LenProperties DEF IInv
<1>8. /\ cmd.seq \in 1..sent /\ asked[cmd.seq] = cmd.kind /\ cmd.seq <= line.seq
      /\ Busy => cmd.seq < line.seq
      /\ cmd.kind = "ip" => cmd.seq \in seqs
      /\ main = "loop" => Served(cmd)
      /\ \A i \in 1..Len(r2p) : r2p[i].tag = "R" => r2p[i].seq < cmd.seq
      /\ \A i \in 1..Len(p2r') : cmd.seq < p2r'[i].seq
  <2>1. /\ cmd.seq \in 1..sent /\ asked[cmd.seq] = cmd.kind
    BY <1>1 DEF IInv, Numbered
  <2>2. /\ cmd.seq <= line.seq
        /\ Busy => cmd.seq < line.seq
    BY <1>1 DEF IInv, InOrder
  <2>3. \A i \in 1..Len(r2p) : r2p[i].tag = "R" => r2p[i].seq < cmd.seq
    BY <1>1 DEF IInv, InOrder
  <2>4. \A i \in 1..Len(p2r') : cmd.seq < p2r'[i].seq
    BY <1>1 DEF IInv, InOrder, Increasing
  <2>5. cmd.kind = "ip" => cmd.seq \in seqs
    BY <1>1 DEF IInv, Remembered
  <2>6. main = "loop" => Served(cmd)
    BY <1>1 DEF IInv, Rewired
  <2>. QED
    BY <2>1, <2>2, <2>3, <2>4, <2>5, <2>6
<1>9. Types'
  <2>1. udpDest' \in Dest /\ udpDest'.port \in ClientPorts \cup LocalPorts \cup {0}
    BY <1>3, <1>5 DEF IInv, Types, TypeOK, Dest
  <2>. QED
    BY <1>1, <1>4, <1>7, <2>1 DEF IInv, Types, TypeOK
<1>10. InOrder'
  <2>1. Increasing(p2r')
    <3>. SUFFICES ASSUME NEW i \in 1..Len(p2r'), NEW j \in 1..Len(p2r'), i < j
                  PROVE  p2r'[i].seq < p2r'[j].seq
      BY DEF Increasing
    <3>1. /\ i + 1 \in 1..Len(p2r) /\ j + 1 \in 1..Len(p2r) /\ i + 1 < j + 1
          /\ p2r'[i] = p2r[i + 1] /\ p2r'[j] = p2r[j + 1]
      BY <1>1
    <3>2. Increasing(p2r)
      BY DEF IInv, InOrder
    <3>. QED
      BY <3>1, <3>2 DEF Increasing
  <2>2. ResponsesIncreasing(r2p')
    BY <1>6, <1>7, <1>8 DEF IInv, InOrder, ResponsesIncreasing
  <2>3. \A i \in 1..Len(r2p') : r2p'[i].tag = "R" =>
           /\ r2p'[i].seq <= line.seq
           /\ Busy => r2p'[i].seq < line.seq
    BY <1>6, <1>7, <1>8 DEF IInv, InOrder
  <2>4. \A i \in 1..Len(r2p') : r2p'[i].tag = "R" =>
           \A j \in 1..Len(p2r') : r2p'[i].seq < p2r'[j].seq
    BY <1>1, <1>6, <1>7, <1>8 DEF IInv, InOrder
  <2>5. \A i \in 1..Len(p2r') : /\ p2r'[i].seq <= line.seq
                                /\ Busy => p2r'[i].seq < line.seq
    BY <1>1 DEF IInv, InOrder
  <2>. QED
    BY <1>4, <2>1, <2>2, <2>3, <2>4, <2>5 DEF IInv, InOrder, Busy
<1>11. Numbered'
  <2>1. Numbered /\ UNCHANGED <<c2p, asked, sent, line, got, Busy>>
    BY <1>4 DEF IInv, Busy
  <2>2. \A i \in 1..Len(p2r') : p2r'[i].seq \in 1..sent /\ asked[p2r'[i].seq] = p2r'[i].kind
    BY <1>1, <2>1 DEF Numbered
  <2>3. \A i \in 1..Len(r2p') : r2p'[i].tag = "R" => r2p'[i].seq \in 1..sent
    BY <1>6, <1>7, <1>8, <2>1 DEF Numbered
  <2>. QED
    BY <2>1, <2>2, <2>3 DEF Numbered
<1>12. Remembered'
  <2>1. /\ Remembered
        /\ UNCHANGED <<seqs, asked, sent, line, Busy>>
    BY <1>4 DEF IInv, Busy
  <2>2. \A i \in 1..Len(p2r') : p2r'[i].kind = "ip" => p2r'[i].seq \in seqs
    BY <1>1, <2>1 DEF Remembered
  <2>3. \A i \in 1..Len(r2p') : r2p'[i].tag = "R" /\ asked[r2p'[i].seq] = "ip"
            => r2p'[i].seq \in seqs /\ IPAnswer(r2p'[i])
    BY <1>6, <1>7, <1>8, <2>1 DEF Remembered
  <2>. QED
    BY <2>1, <2>2, <2>3 DEF Remembered
<1>13. OwnAddressAnswered'
  BY <1>4 DEF IInv, OwnAddressAnswered
<1>14. Rewired'
  <2>1. main = "loop" => Served(udpDest)'
    BY <1>3, <1>4, <1>8 DEF IInv, Rewired, Served
  <2>. QED
    BY <1>1, <1>4, <2>1 DEF IInv, Rewired, Served
<1>. QED
  BY <1>9, <1>10, <1>11, <1>12, <1>13, <1>14 DEF IInv

-----------------------------------------------------------------------------
LEMMA NextIInv == IInv /\ [Next]_vars => IInv'
<1>. SUFFICES ASSUME IInv, [Next]_vars PROVE IInv'
  OBVIOUS
<1>1. CASE Reader
  BY <1>1, ScanStep, StartRelayStep, ForwardStep, ReaderEOFStep DEF Reader
<1>2. CASE Main
  BY <1>2, DeliverStep, EndStep DEF Main
<1>3. CASE \E p \in LocalPorts : CloseRelay(p) \/ Keepalive(p) \/ HoleCloses(p)
  BY <1>3, EndStep
<1>4. CASE Environment
  BY <1>4, ClientSendStep, EndStep, RadioExecStep, RadioStatusStep, RadioDropStep
     DEF Environment
<1>5. CASE UNCHANGED vars
  <2>1. Types' /\ InOrder' /\ Numbered'
    BY <1>5 DEF vars, IInv, Types, TypeOK, InOrder, Numbered, Busy
  <2>2. Remembered' /\ OwnAddressAnswered' /\ Rewired'
    BY <1>5 DEF vars, IInv, Remembered, OwnAddressAnswered, Rewired, Served, Busy
  <2>. QED
    BY <2>1, <2>2 DEF IInv
<1>. QED
  BY <1>1, <1>2, <1>3, <1>4, <1>5 DEF Next

LEMMA Invariant == Spec => []IInv
BY InitIInv, NextIInv, PTL DEF Spec

-----------------------------------------------------------------------------
(* For any addresses, ports and numbers of lines, a session keeps its      *)
(* types.                                                                  *)
THEOREM TypeCorrect == Spec => []TypeOK
<1>1. IInv => TypeOK
  BY DEF IInv, Types
<1>. QED
  BY Invariant, <1>1, PTL

(* For any number of commands and however the two goroutines interleave, a *)
(* client that asks for its address is told its own, and every other       *)
(* response is changed only as every line is, in a field ip=.              *)
THEOREM OwnAddressCorrect == Spec => []OwnAddressAnswered
<1>1. IInv => OwnAddressAnswered
  BY DEF IInv
<1>. QED
  BY Invariant, <1>1, PTL

(* For any ports and any number of "client udpport" commands, the radio's  *)
(* stream reaches the port the client named in the command that started it *)
(* and the client's datagrams reach the radio.                             *)
THEOREM StreamCorrect == Spec => []StreamReachesClient
<1>1. IInv => StreamReachesClient
  <2>. SUFFICES ASSUME IInv, main = "loop", udpDest.port \in LocalPorts
                PROVE  /\ Carried(udpDest.port, RadioVITA) = udpDest.asked
                       /\ Carried(udpDest.port, udpDest.asked) = RadioVITA
    BY DEF StreamReachesClient
  <2>1. relays[udpDest.port] = udpDest.asked /\ udpDest.asked # 0
    BY DEF IInv, Rewired, Served
  <2>2. udpDest.asked \in ClientPorts
    BY <2>1 DEF IInv, Types, Dest
  <2>3. RadioVITA # udpDest.asked
    BY <2>2, PortsAssumption
  <2>. QED
    BY <2>1, <2>3 DEF Carried
<1>. QED
  BY Invariant, <1>1, PTL
(* The replacement at work on the radio's own address: nothing is left of  *)
(* it, and nothing follows the proxy's.                                    *)
LEMMA RewriteRadio ==
    ASSUME RadioIP \in Seq(Nat) \ {<<>>}, ProxyIP \in Seq(Nat) \ {<<>>}
    PROVE  RewriteAddress(RadioIP) = ProxyIP
<1>1. Len(RadioIP) \in Nat
  BY LenProperties
<1>2. IsPrefix(RadioIP, RadioIP)
  BY <1>1 DEF IsPrefix
<1>3. SubSeq(RadioIP, Len(RadioIP) + 1, Len(RadioIP)) = <<>>
  BY <1>1
<1>4. ProxyIP \o <<>> = ProxyIP
  BY ConcatProperties, EmptySeq
<1>. QED
  BY <1>2, <1>3, <1>4 DEF RewriteAddress

(* For any two addresses, and whatever the radio's lines mention, the      *)
(* client reads the proxy's address in a field ip= where the radio put its *)
(* own, in status lines and responses: strings.ReplaceAll runs over every  *)
(* line (proxy.go:629-631), and no answer to "client ip" is such a field.  *)
THEOREM AddressHidden ==
    ASSUME RadioIP \in Seq(Nat) \ {<<>>}, ProxyIP \in Seq(Nat) \ {<<>>}
    PROVE  Spec => []RadioAddressHidden
<1>1. Init => RadioAddressHidden
  BY DEF Init, NoLine, Status, RadioAddressHidden
<1>2. IInv /\ RadioAddressHidden /\ [Next]_vars => RadioAddressHidden'
  <2>. SUFFICES ASSUME IInv, RadioAddressHidden, [Next]_vars PROVE RadioAddressHidden'
    OBVIOUS
  <2>1. CASE Deliver
    <3>. DEFINE l == Head(r2p)
    <3>1. got' = [in |-> l, out |-> Outgoing(l)]
      BY <2>1 DEF Deliver
    <3>2. l \in Line /\ l = r2p[1] /\ 1 \in 1..Len(r2p)
      BY <2>1, QueueFacts DEF Deliver, IInv, Types
    <3>. HIDE DEF l
    <3>3. ASSUME l.form # "bare", l.text = RadioIP
          PROVE  Outgoing(l) = [l EXCEPT !.text = ProxyIP]
      <4>1. Rewritten(l) = [l EXCEPT !.text = ProxyIP]
        BY <3>2, <3>3, RewriteRadio DEF Rewritten, Line
      <4>2. l.tag = "R" => l.seq \notin seqs
        BY <3>2, <3>3 DEF IInv, Remembered, IPAnswer
      <4>. QED
        BY <3>2, <4>1, <4>2, RewrittenFields DEF Outgoing, IsIPResponse
    <3>. QED
      BY <3>1, <3>3 DEF RadioAddressHidden
  <2>2. CASE UNCHANGED got
    BY <2>2 DEF RadioAddressHidden
  <2>. QED
    BY <2>1, <2>2 DEF Next, vars, Reader, Main, Environment, Scan, StartRelay, Forward,
       ReaderEOF, EndSession, CloseRelay, Keepalive, HoleCloses, ClientSend, ClientClose,
       RadioExec, RadioStatus, RadioDrop
<1>. QED
  BY <1>1, <1>2, Invariant, PTL DEF Spec
=============================================================================
