------------------------- MODULE HamlibServerProofs --------------------------
(* What HamlibServer promises for any number of clients and lines.         *)
EXTENDS HamlibServer, FiniteSetTheorems, TLAPS

-----------------------------------------------------------------------------
(* The lock.                                                               *)

(* The RWMutex is held, or waited for, by exactly those whose code says    *)
(* so: commands being handled hold it for reading or wait to, and a reply  *)
(* is written under it; whoever joins, leaves or sweeps has claimed it.    *)
LockExact ==
    /\ readers \cup waiting = {c \in Clients : sess[c] \in {"handle", "write"}}
    /\ readers \cap waiting = {}
    /\ \A c \in waiting : sess[c] = "handle"
    /\ writer = "nobody" => waiting = {}
    /\ writer = "run" <=> run = "add"
    /\ writer = "closer" <=> closer = "sweep"
    /\ \A c \in Clients : writer = c <=> sess[c] = "remove"

(* The web UI lists a client from its Accept until its goroutine has ended *)
(* and at no other time, whichever way it ends.                            *)
ListedWhileServed ==
    hamlibClients = {c \in Clients : c = adding \/ sess[c] \notin {"none", "gone"}}

(* A client is on its way in at one place at a time, and has no goroutine  *)
(* before the accept loop has added it.                                    *)
Arriving ==
    /\ \A c \in Clients : client[c] = "new" => c \notin backlog
    /\ \A c \in Clients : client[c] = "new" \/ c \in backlog =>
                              sess[c] = "none" /\ c # adding
    /\ adding # None => sess[adding] = "none"
    /\ run \in {"lock", "add"} <=> adding # None

(* The connections a sweep leaves open.                                    *)
Missed == {c \in Clients : serverOpen[c] /\ sess[c] # "none"} \cup ({adding} \ {None})

(* Every client with a goroutine is in s.clients, so the sweep closes it;  *)
(* once it has closed the listener as well, nobody new is accepted.        *)
Swept ==
    /\ \A c \in Clients : sess[c] # "none" => c \in conns
    /\ closer = "done" => /\ ~listening /\ backlog = {}
                          /\ \A c, d \in Missed : c = d

(* What waits to be scanned has been sent.                                 *)
Unscanned == \A c \in Clients : lines[c] <= sent[c]

IInv == TypeOK /\ LockExact /\ ListedWhileServed /\ Arriving /\ Swept /\ Unscanned

LEMMA InitIInv == Init => IInv
<1>. SUFFICES ASSUME Init PROVE IInv
  OBVIOUS
<1>1. TypeOK
  <2>1. 0 \in 0..MaxLines
    BY ServerAssumption
  <2>2. /\ lines \in [Clients -> 0..MaxLines]
        /\ sent \in [Clients -> 0..MaxLines]
    BY <2>1 DEF Init
  <2>3. /\ sess \in [Clients -> {"none", "scan", "handle", "write", "leave", "remove",
                                  "left", "gone"}]
        /\ cmd \in [Clients -> Kinds]
        /\ client \in [Clients -> {"new", "open", "closed"}]
        /\ serverOpen \in [Clients -> BOOLEAN]
    BY DEF Init, Kinds
  <2>. QED
    BY <2>2, <2>3 DEF Init, TypeOK
<1>2. LockExact
  BY ServerAssumption DEF Init, LockExact
<1>3. ListedWhileServed /\ Arriving /\ Swept
  BY ServerAssumption DEF Init, ListedWhileServed, Arriving, Swept
<1>4. Unscanned
  BY DEF Init, Unscanned
<1>. QED
  BY <1>1, <1>2, <1>3, <1>4 DEF IInv

-----------------------------------------------------------------------------
(* Run.                                                                    *)

LEMMA AcceptStep == ASSUME IInv, NEW c \in Clients, Accept(c) PROVE IInv'
<1>. USE ServerAssumption DEF IInv, Accept, sessVars, lockVars
<1>1. TypeOK'
  BY DEF TypeOK
<1>2. LockExact'
  BY DEF LockExact
<1>3. ListedWhileServed'
  BY DEF ListedWhileServed, Arriving, TypeOK
<1>4. Arriving'
  BY DEF Arriving, TypeOK
<1>5. Swept' /\ Unscanned'
  BY DEF Swept, TypeOK, Unscanned
<1>. QED
  BY <1>1, <1>2, <1>3, <1>4, <1>5

LEMMA RunLockStep == ASSUME IInv, RunLock PROVE IInv'
<1>. USE ServerAssumption DEF IInv, RunLock, Announce, sessVars, netVars
<1>1. TypeOK' /\ ListedWhileServed' /\ Arriving' /\ Swept' /\ Unscanned'
  BY DEF TypeOK, ListedWhileServed, Arriving, Swept, Missed, Unscanned
<1>2. LockExact'
  BY DEF LockExact
<1>. QED
  BY <1>1, <1>2

(* The client being added gets its goroutine and its place in s.clients.   *)
LEMMA RunAddStep == ASSUME IInv, RunAdd PROVE IInv'
<1>. USE ServerAssumption DEF IInv, RunAdd, Exclusive, Unlock, netVars
<1>1. adding \in Clients /\ sess[adding] = "none"
  BY DEF Arriving, TypeOK
<1>2. \A c \in Clients : sess'[c] = IF c = adding THEN "scan" ELSE sess[c]
  BY DEF TypeOK
<1>3. TypeOK'
  BY <1>1 DEF TypeOK
<1>4. LockExact'
  BY <1>1, <1>2 DEF LockExact
<1>5. ListedWhileServed'
  BY <1>1, <1>2 DEF ListedWhileServed
<1>6. Arriving'
  BY <1>1, <1>2 DEF Arriving
<1>7. Missed' \subseteq Missed
  BY <1>1, <1>2 DEF Missed
<1>8. Swept' /\ Unscanned'
  BY <1>1, <1>2, <1>7 DEF Swept, Unscanned
<1>. QED
  BY <1>3, <1>4, <1>5, <1>6, <1>8

LEMMA AcceptFailsStep == ASSUME IInv, AcceptFails PROVE IInv'
BY DEF IInv, AcceptFails, sessVars, lockVars, netVars, TypeOK, LockExact,
       ListedWhileServed, Arriving, Swept, Missed, Unscanned

-----------------------------------------------------------------------------
(* The shutdown.                                                           *)

LEMMA CloserLockStep == ASSUME IInv, CloserLock PROVE IInv'
<1>. USE ServerAssumption DEF IInv, CloserLock, Announce, sessVars, netVars
<1>1. TypeOK' /\ ListedWhileServed' /\ Arriving' /\ Swept' /\ Unscanned'
  BY DEF TypeOK, ListedWhileServed, Arriving, Swept, Missed, Unscanned
<1>2. LockExact'
  BY DEF LockExact
<1>. QED
  BY <1>1, <1>2

(* All that is left open is the connection being added.                    *)
LEMMA CloserSweepStep == ASSUME IInv, CloserSweep PROVE IInv'
<1>. USE ServerAssumption DEF IInv, CloserSweep, Exclusive, Unlock, sessVars
<1>1. TypeOK'
  BY DEF TypeOK
<1>2. LockExact'
  BY DEF LockExact
<1>3. ListedWhileServed' /\ Arriving'
  BY DEF ListedWhileServed, Arriving
<1>4. \A c \in Clients : serverOpen'[c] => c \notin conns
  OBVIOUS
<1>5. Missed' \subseteq {adding}
  BY <1>4 DEF Missed, Swept
<1>6. Swept' /\ Unscanned'
  BY <1>5 DEF Swept, Unscanned
<1>. QED
  BY <1>1, <1>2, <1>3, <1>6

-----------------------------------------------------------------------------
(* The clients' goroutines.                                                *)

(* The steps of a command: it is between scan and leave throughout.        *)
LEMMA CommandStep ==
    ASSUME IInv, NEW c \in Clients,
           (\E k \in Kinds : ScanLine(c, k)) \/ Quit(c) \/ HandlerReturns(c)
           \/ RadioAnswers(c) \/ WriteReply(c) \/ ScanEnds(c)
    PROVE  IInv'
<1>. USE DEF IInv, serverVars, netVars, lockVars, RUnlock, ScanLine, Quit,
             HandlerReturns, RadioAnswers, WriteReply, ScanEnds
<1>1. \A d \in Clients : d # c => sess'[d] = sess[d]
  BY DEF TypeOK
<1>2. /\ sess[c] \in {"scan", "handle", "write"}
      /\ sess'[c] \in {"scan", "handle", "write", "leave"}
  BY DEF TypeOK
<1>3. UNCHANGED <<serverVars, writer, cancelled, listening, backlog, sent, client,
                  serverOpen>>
  OBVIOUS
<1>4. TypeOK'
  <2>1. lines' \in [Clients -> 0..MaxLines]
    BY ServerAssumption DEF TypeOK
  <2>2. readers' \subseteq Clients /\ waiting' \subseteq Clients /\ cmd' \in [Clients -> Kinds]
    BY DEF TypeOK
  <2>3. sess' \in [Clients -> {"none", "scan", "handle", "write", "leave", "remove",
                               "left", "gone"}]
    BY DEF TypeOK
  <2>. QED
    BY <1>3, <2>1, <2>2, <2>3 DEF TypeOK
<1>5. LockExact'
  <2>1. CASE \E k \in Kinds : ScanLine(c, k)
    BY <2>1 DEF TypeOK, LockExact
  <2>2. CASE Quit(c)
    BY <2>2 DEF TypeOK, LockExact
  <2>3. CASE HandlerReturns(c) \/ RadioAnswers(c)
    BY <2>3 DEF TypeOK, LockExact
  <2>4. CASE WriteReply(c)
    BY <2>4 DEF TypeOK, LockExact
  <2>5. CASE ScanEnds(c)
    BY <2>5 DEF TypeOK, LockExact
  <2>. QED
    BY <2>1, <2>2, <2>3, <2>4, <2>5
<1>6. ListedWhileServed'
  BY <1>1, <1>2, <1>3 DEF ListedWhileServed
<1>7. Arriving'
  BY <1>1, <1>2, <1>3, ServerAssumption DEF Arriving, TypeOK
<1>8. Missed' = Missed
  BY <1>1, <1>2, <1>3 DEF Missed
<1>9. Swept'
  BY <1>1, <1>2, <1>3, <1>8 DEF Swept
<1>10. Unscanned'
  BY ServerAssumption DEF TypeOK, Unscanned
<1>. QED
  BY <1>4, <1>5, <1>6, <1>7, <1>9, <1>10

LEMMA LeaveStep ==
    ASSUME IInv, NEW c \in Clients, LeaveLock(c) \/ Leave(c) \/ Unregister(c)
    PROVE  IInv'
<1>. USE ServerAssumption DEF IInv, serverVars, netVars, lockVars, Announce, Exclusive,
             Unlock, LeaveLock, Leave, Unregister
<1>1. \A d \in Clients : d # c => sess'[d] = sess[d]
  BY DEF TypeOK
<1>2. /\ sess[c] \in {"leave", "remove", "left"}
      /\ sess'[c] \in {"remove", "left", "gone"}
      /\ sess'[c] = "gone" <=> Unregister(c)
  BY DEF TypeOK
<1>3. UNCHANGED <<run, adding, closer, conns, listening, backlog, client>>
  OBVIOUS
<1>4. TypeOK'
  BY DEF TypeOK
<1>5. LockExact'
  <2>1. CASE LeaveLock(c)
    BY <2>1 DEF TypeOK, LockExact
  <2>2. CASE Leave(c)
    BY <2>2 DEF TypeOK, LockExact
  <2>3. CASE Unregister(c)
    BY <2>3 DEF TypeOK, LockExact
  <2>. QED
    BY <2>1, <2>2, <2>3
<1>6. ListedWhileServed'
  <2>1. c # adding
    BY <1>2 DEF Arriving
  <2>2. hamlibClients' = IF Unregister(c) THEN hamlibClients \ {c} ELSE hamlibClients
    OBVIOUS
  <2>. QED
    BY <1>1, <1>2, <1>3, <2>1, <2>2 DEF ListedWhileServed
<1>7. Arriving'
  BY <1>1, <1>2, <1>3 DEF Arriving, TypeOK
<1>8. Missed' \subseteq Missed
  <2>1. \A d \in Clients : serverOpen'[d] => serverOpen[d]
    BY DEF TypeOK
  <2>. QED
    BY <1>1, <1>2, <1>3, <2>1 DEF Missed
<1>9. Swept'
  BY <1>1, <1>2, <1>3, <1>8 DEF Swept
<1>10. Unscanned'
  BY ServerAssumption DEF TypeOK, Unscanned
<1>. QED
  BY <1>4, <1>5, <1>6, <1>7, <1>9, <1>10

-----------------------------------------------------------------------------
(* The clients and the signal.                                             *)

LEMMA OutsideStep ==
    ASSUME IInv, (\E c \in Clients : Connect(c) \/ Send(c) \/ Close(c)) \/ Cancel
    PROVE  IInv'
<1>. USE DEF IInv, serverVars, sessVars, lockVars
<1>1. ASSUME NEW c \in Clients, Connect(c) PROVE IInv'
  BY <1>1 DEF Connect, TypeOK, LockExact, ListedWhileServed, Arriving, Swept, Missed,
                Unscanned
<1>2. ASSUME NEW c \in Clients, Send(c) PROVE IInv'
  <2>1. sent[c] \in 0..MaxLines /\ lines[c] \in 0..MaxLines /\ lines[c] <= sent[c]
    BY DEF TypeOK, Unscanned
  <2>2. sent[c] + 1 \in 0..MaxLines /\ lines[c] + 1 \in 0..MaxLines
    BY <1>2, <2>1, ServerAssumption DEF Send
  <2>3. TypeOK'
    BY <1>2, <2>2 DEF Send, TypeOK
  <2>4. Unscanned'
    BY <1>2, <2>1 DEF Send, TypeOK, Unscanned
  <2>. QED
    BY <1>2, <2>3, <2>4 DEF Send, LockExact, ListedWhileServed, Arriving, Swept, Missed
<1>3. ASSUME NEW c \in Clients, Close(c) PROVE IInv'
  BY <1>3 DEF Close, TypeOK, LockExact, ListedWhileServed, Arriving, Swept, Missed,
                Unscanned
<1>4. CASE Cancel
  BY <1>4 DEF Cancel, TypeOK, LockExact, ListedWhileServed, Arriving, Swept, Missed,
                Unscanned
<1>. QED
  BY <1>1, <1>2, <1>3, <1>4

LEMMA NextIInv == IInv /\ [Next]_vars => IInv'
<1>. SUFFICES ASSUME IInv, [Next]_vars PROVE IInv'
  OBVIOUS
<1>1. CASE Run
  BY <1>1, AcceptStep, RunLockStep, RunAddStep, AcceptFailsStep DEF Run
<1>2. CASE Closer
  BY <1>2, CloserLockStep, CloserSweepStep DEF Closer
<1>3. ASSUME NEW c \in Clients, Session(c) \/ RadioAnswers(c) PROVE IInv'
  BY <1>3, CommandStep, LeaveStep DEF Session
<1>4. CASE (\E c \in Clients : Connect(c) \/ Send(c) \/ Close(c)) \/ Cancel
  BY <1>4, OutsideStep
<1>5. CASE UNCHANGED vars
  BY <1>5 DEF vars, serverVars, sessVars, lockVars, netVars, IInv, TypeOK, LockExact,
              ListedWhileServed, Arriving, Swept, Missed, Unscanned
<1>. QED
  BY <1>1, <1>2, <1>3, <1>4, <1>5 DEF Next

LEMMA Invariant == Spec => []IInv
BY InitIInv, NextIInv, PTL DEF Spec

-----------------------------------------------------------------------------
(* For any number of clients, the server's state keeps its types.          *)
THEOREM TypeCorrect == Spec => []TypeOK
<1>1. IInv => TypeOK
  BY DEF IInv
<1>. QED
  BY Invariant, <1>1, PTL

(* For any number of clients, no path through a session, the accept loop   *)
(* or the shutdown keeps the lock, or gives back one it does not hold.     *)
THEOREM LockCorrect == Spec => []LockExact
<1>1. IInv => LockExact
  BY DEF IInv
<1>. QED
  BY Invariant, <1>1, PTL

(* For any number of clients, the registry of the web UI lists exactly     *)
(* those that have been accepted and whose goroutine has not ended.        *)
THEOREM ListCorrect == Spec => []ListedWhileServed
<1>1. IInv => ListedWhileServed
  BY DEF IInv
<1>. QED
  BY Invariant, <1>1, PTL

(* For any number of clients, the shutdown misses one connection at most.  *)
THEOREM SweepCorrect == Spec => []SweepMissesAtMostOne
<1>1. IInv => SweepMissesAtMostOne
  <2>. SUFFICES ASSUME IInv, closer = "done" PROVE Cardinality(Missed) <= 1
    BY DEF SweepMissesAtMostOne, Missed
  <2>1. CASE Missed = {}
    BY <2>1, FS_EmptySet
  <2>2. CASE Missed # {}
    <3>1. PICK c \in Missed : TRUE
      BY <2>2
    <3>2. \A d \in Missed : d = c
      BY <3>1 DEF IInv, Swept
    <3>3. Missed = {c}
      BY <3>1, <3>2
    <3>4. Cardinality({c}) = 1
      BY FS_Singleton
    <3>. QED
      BY <3>3, <3>4
  <2>. QED
    BY <2>1, <2>2
<1>. QED
  BY Invariant, <1>1, PTL
=============================================================================
