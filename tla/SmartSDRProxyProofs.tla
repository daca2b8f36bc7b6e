------------------------ MODULE SmartSDRProxyProofs ------------------------
(***************************************************************************)
(* Theorems about SmartSDRProxy, for every set of connections, handles,    *)
(* pans and slices and every bound: the types, the exactness of the client *)
(* registry, its refinement of ClientRegistry, and the exactness of what a *)
(* session believes it owns.                                               *)
(***************************************************************************)
EXTENDS SmartSDRProxy, SequenceTheorems, TLAPS

-----------------------------------------------------------------------------
(* The lines and commands that are written are lines and commands.         *)
LEMMA MessageTypes ==
    /\ \A h \in Handles : HLine(h) \in Line
    /\ \A i \in Items, h \in Handles \cup {Direct} : OwnerLine(i, h) \in Line
    /\ Create \in Command
    /\ \A i \in Items : Remove(i) \in Command
  BY DEF Line, Create, Command

(* What a line carries, by its tag.                                        *)
LEMMA LineFields ==
    ASSUME NEW l \in Line
    PROVE  /\ l.tag = "H" => l.handle \in Handles /\ l = HLine(l.handle)
           /\ l.tag = "owner" => /\ l.item \in Items
                                 /\ l.handle \in Handles \cup {Direct}
           /\ l.tag \in {"H", "owner"}
  BY DEF Line, HLine, OwnerLine

(* A removal command names a pan or slice.                                 *)
LEMMA CommandFields ==
    ASSUME NEW cmd \in Command, cmd.op # "create"
    PROVE  cmd.item \in Items
  BY DEF Command, Create, Remove

(* A prefix of a sequence is a sequence over the same set.                 *)
LEMMA PrefixType ==
    ASSUME NEW S, NEW s \in Seq(S), NEW n \in 0..Len(s)
    PROVE  SubSeq(s, 1, n) \in Seq(S)
  <1>1. \A i \in 1..n : s[i] \in S
    BY ElementOfSeq, LenProperties
  <1>2. QED
    BY <1>1, SubSeqProperties, LenProperties

(* The first element and the rest of a queue that is not empty.            *)
LEMMA QueueType ==
    ASSUME NEW S, NEW s \in Seq(S), s # <<>>
    PROVE  Head(s) \in S /\ Tail(s) \in Seq(S)
  BY HeadTailProperties

-----------------------------------------------------------------------------
(* Every variable keeps its type: in particular the queues only ever carry *)
(* lines and commands, and the registry and the owned sets only names.     *)
LEMMA TypeInit == Init => TypeOK
  BY BoundsAssumption DEF Init, TypeOK, Phase

LEMMA AnnounceType ==
    ASSUME TypeOK, NEW i \in Items, NEW h \in Handles \cup {Direct},
           Announce(i, h)
    PROVE  r2p' \in [Conns -> Seq(Line)]
  <1>1. OwnerLine(i, h) \in Line
    BY MessageTypes
  <1>2. \A c \in Conns : Append(r2p[c], OwnerLine(i, h)) \in Seq(Line)
    BY <1>1, AppendProperties DEF TypeOK
  <1>3. QED
    BY <1>2 DEF TypeOK, Announce

LEMMA OwnType ==
    ASSUME TypeOK, NEW i \in Items, NEW h \in Handles \cup {Direct}, Own(i, h)
    PROVE  /\ owner' \in [Items -> Handles \cup {Direct, None}]
           /\ granted' \subseteq (Handles \cup {Direct}) \X Items
           /\ r2p' \in [Conns -> Seq(Line)]
  BY AnnounceType DEF TypeOK, Own

LEMMA SetUpType ==
    ASSUME TypeOK, NEW c \in Conns
    PROVE  /\ Accept(c) => TypeOK'
           /\ \A h \in Handles : DialOk(c, h) => TypeOK'
           /\ DialFails(c) => TypeOK'
  <1>1. Accept(c) => TypeOK'
    BY DEF TypeOK, Accept, Phase, radioVars
  <1>2. ASSUME NEW h \in Handles, DialOk(c, h) PROVE TypeOK'
    <2>1. <<HLine(h)>> \in Seq(Line)
      BY MessageTypes
    <2>2. QED
      BY <1>2, <2>1 DEF TypeOK, DialOk, Phase
  <1>3. DialFails(c) => TypeOK'
    BY DEF TypeOK, DialFails, Phase, sockVars, radioVars
  <1>4. QED
    BY <1>1, <1>2, <1>3

LEMMA ReaderType ==
    ASSUME TypeOK, NEW c \in Conns, Reader(c)
    PROVE  TypeOK'
  <1>1. CASE ForwardLine(c)
    <2>1. Head(c2p[c]) \in Command /\ Tail(c2p[c]) \in Seq(Command)
      BY <1>1, QueueType DEF TypeOK, ForwardLine
    <2>2. Append(p2r[c], Head(c2p[c])) \in Seq(Command)
      BY <2>1, AppendProperties DEF TypeOK
    <2>3. c2p' \in [Conns -> Seq(Command)]
      BY <1>1, <2>1 DEF TypeOK, ForwardLine
    <2>4. p2r' \in [Conns -> Seq(Command)]
      BY <1>1, <2>2 DEF TypeOK, ForwardLine
    <2>5. reader' \in [Conns -> {"none", "scan", "done"}]
      BY <1>1 DEF TypeOK, ForwardLine
    <2>6. QED
      BY <1>1, <2>3, <2>4, <2>5 DEF TypeOK, ForwardLine, radioVars
  <1>2. CASE ReaderEOF(c)
    <2>1. PICK n \in 0..Len(r2p[c]) :
             r2p' = [r2p EXCEPT ![c] = SubSeq(@, 1, n)]
      BY <1>2 DEF ReaderEOF
    <2>2. SubSeq(r2p[c], 1, n) \in Seq(Line)
      BY PrefixType DEF TypeOK
    <2>3. QED
      BY <1>2, <2>1, <2>2 DEF TypeOK, ReaderEOF, radioVars
  <1>3. QED
    BY <1>1, <1>2 DEF Reader

LEMMA ReadLineType ==
    ASSUME TypeOK, NEW c \in Conns, ReadLine(c)
    PROVE  TypeOK'
  <1> DEFINE l == Head(r2p[c])
  <1>1. l \in Line /\ Tail(r2p[c]) \in Seq(Line)
    BY QueueType DEF TypeOK, ReadLine
  <1>2. LearnHandle(c, l) \in Handles \cup {None}
    BY <1>1, LineFields DEF TypeOK, LearnHandle
  <1>3. TrackOwned(c, l) \subseteq Items
    BY <1>1, LineFields DEF TypeOK, TrackOwned
  <1>4. handle' \in [Conns -> Handles \cup {None}]
        /\ owned' \in [Conns -> SUBSET Items]
    BY <1>2, <1>3 DEF TypeOK, ReadLine
  <1>5. clients' \in [Handles -> Conns \cup {None}]
    BY <1>1, LineFields DEF TypeOK, ReadLine
  <1>6. r2p' \in [Conns -> Seq(Line)]
    <2>1. <<>> \in Seq(Line)
      BY EmptySeq
    <2>2. PICK q \in Seq(Line) : r2p' = [r2p EXCEPT ![c] = q]
      BY <1>1, <2>1 DEF ReadLine
    <2>3. QED
      BY <2>2 DEF TypeOK
  <1>7. phase' \in [Conns -> Phase]
    <2>1. \/ phase' = phase
          \/ phase' = [phase EXCEPT ![c] = "unregister"]
      BY DEF ReadLine
    <2>2. QED
      BY <2>1 DEF TypeOK, Phase
  <1>8. QED
    BY <1>4, <1>5, <1>6, <1>7 DEF TypeOK, ReadLine, radioVars

LEMMA LeaveType ==
    ASSUME TypeOK, NEW c \in Conns
    PROVE  /\ ReadEOF(c) => TypeOK'
           /\ Unregister(c) => TypeOK'
           /\ CheckOthers(c) => TypeOK'
           /\ \A i \in Items : RemoveOwned(c, i) => TypeOK'
           /\ RemovesWritten(c) => TypeOK'
           /\ CloseRadio(c) => TypeOK'
           /\ CloseClient(c) => TypeOK'
  <1>1. ReadEOF(c) => TypeOK'
    BY DEF TypeOK, ReadEOF, Phase, sockVars, radioVars
  <1>2. Unregister(c) => TypeOK'
    BY DEF TypeOK, Unregister, Phase, sockVars, radioVars
  <1>3. ASSUME CheckOthers(c) PROVE TypeOK'
    <2>1. PICK p \in Phase : phase' = [phase EXCEPT ![c] = p]
      BY <1>3 DEF CheckOthers, Phase
    <2>2. \/ toRemove' = toRemove
          \/ toRemove' = [toRemove EXCEPT ![c] = owned[c]]
      BY <1>3 DEF CheckOthers
    <2>3. QED
      BY <1>3, <2>1, <2>2 DEF TypeOK, CheckOthers, sockVars, radioVars
  <1>4. ASSUME NEW i \in Items, RemoveOwned(c, i) PROVE TypeOK'
    <2>1. Append(p2r[c], Remove(i)) \in Seq(Command)
      BY MessageTypes, AppendProperties DEF TypeOK
    <2>2. p2r' \in [Conns -> Seq(Command)]
      BY <1>4, <2>1 DEF TypeOK, RemoveOwned
    <2>3. toRemove' \in [Conns -> SUBSET Items]
      BY <1>4 DEF TypeOK, RemoveOwned
    <2>4. QED
      BY <1>4, <2>2, <2>3 DEF TypeOK, RemoveOwned, radioVars
  <1>5. RemovesWritten(c) => TypeOK'
    BY DEF TypeOK, RemovesWritten, Phase, sockVars, radioVars
  <1>6. CloseRadio(c) => TypeOK'
    BY EmptySeq DEF TypeOK, CloseRadio, Phase, radioVars
  <1>7. CloseClient(c) => TypeOK'
    BY EmptySeq DEF TypeOK, CloseClient, Phase, radioVars
  <1>8. QED
    BY <1>1, <1>2, <1>3, <1>4, <1>5, <1>6, <1>7

LEMMA ClientType ==
    ASSUME TypeOK, NEW c \in Conns
    PROVE  /\ \A cmd \in Command : ClientSend(c, cmd) => TypeOK'
           /\ ClientClose(c) => TypeOK'
           /\ RadioDrop(c) => TypeOK'
  <1>1. ASSUME NEW cmd \in Command, ClientSend(c, cmd) PROVE TypeOK'
    <2>1. c2p' \in [Conns -> Seq(Command)]
      BY <1>1, AppendProperties DEF TypeOK, ClientSend
    <2>2. sent' \in [Conns -> 0..MaxCmds]
      BY <1>1, BoundsAssumption DEF TypeOK, ClientSend
    <2>3. QED
      BY <1>1, <2>1, <2>2 DEF TypeOK, ClientSend, proxyVars, radioVars
  <1>2. ClientClose(c) => TypeOK'
    BY DEF TypeOK, ClientClose, proxyVars, radioVars
  <1>3. ASSUME RadioDrop(c) PROVE TypeOK'
    <2>1. p2r' \in [Conns -> Seq(Command)]
      BY <1>3, EmptySeq DEF TypeOK, RadioDrop
    <2>2. link' \in [Conns -> {"none", "up", "dropped", "closed"}]
      BY <1>3 DEF TypeOK, RadioDrop
    <2>3. QED
      BY <1>3, <2>1, <2>2 DEF TypeOK, RadioDrop, proxyVars, radioVars
  <1>4. QED
    BY <1>1, <1>2, <1>3

(* The radio executes a command it was sent: the sender has a handle.      *)
LEMMA RadioExecType ==
    ASSUME TypeOK, NEW c \in Conns, RadioExec(c), radioHandle[c] \in Handles
    PROVE  TypeOK'
  <1> DEFINE cmd == Head(p2r[c])
  <1>1. cmd \in Command /\ Tail(p2r[c]) \in Seq(Command)
    BY QueueType DEF TypeOK, RadioExec
  <1>2. p2r' \in [Conns -> Seq(Command)]
    BY <1>1 DEF TypeOK, RadioExec
  <1>3. /\ owner' \in [Items -> Handles \cup {Direct, None}]
        /\ granted' \subseteq (Handles \cup {Direct}) \X Items
        /\ r2p' \in [Conns -> Seq(Line)]
    <2>1. CASE \E i \in Items : Own(i, radioHandle[c])
      BY <2>1, OwnType
    <2>2. CASE UNCHANGED <<owner, granted, r2p>>
      BY <2>2 DEF TypeOK
    <2>3. CASE cmd.op # "create"
      BY <2>3, <1>1, CommandFields DEF TypeOK, RadioExec
    <2>4. QED
      BY <2>1, <2>2, <2>3 DEF RadioExec
  <1>4. QED
    BY <1>2, <1>3 DEF TypeOK, RadioExec, proxyVars

LEMMA DirectType ==
    ASSUME TypeOK, NEW i \in Items
    PROVE  /\ DirectCreate(i) => TypeOK'
           /\ DirectRemove(i) => TypeOK'
  <1>1. ASSUME DirectCreate(i) PROVE TypeOK'
    <2>1. /\ owner' \in [Items -> Handles \cup {Direct, None}]
          /\ granted' \subseteq (Handles \cup {Direct}) \X Items
          /\ r2p' \in [Conns -> Seq(Line)]
      BY <1>1, OwnType DEF DirectCreate
    <2>2. directs' \in 0..MaxDirect
      BY <1>1, BoundsAssumption DEF TypeOK, DirectCreate
    <2>3. QED
      BY <1>1, <2>1, <2>2 DEF TypeOK, DirectCreate, proxyVars
  <1>2. DirectRemove(i) => TypeOK'
    BY DEF TypeOK, DirectRemove, proxyVars, sockVars
  <1>3. QED
    BY <1>1, <1>2

-----------------------------------------------------------------------------
(* The inductive invariant.                                                *)

(* Before its dial has succeeded a session has nothing; from then on the   *)
(* radio knows it by a handle.                                             *)
Greeted ==
    \A c \in Conns :
        /\ phase[c] \in {"idle", "dialing"} =>
              /\ radioHandle[c] = None
              /\ handle[c] = None
              /\ link[c] = "none"
        /\ phase[c] \in {"loop", "unregister", "check", "remove", "closeRadio"}
              => radioHandle[c] \in Handles
        /\ link[c] # "none" => radioHandle[c] \in Handles
        /\ p2r[c] # <<>> => radioHandle[c] \in Handles

(* The lines a connection with handle h can carry: no H-line but its own.  *)
LinesFor(h) == {l \in Line : l.tag = "H" => l.handle = h}

(* Handles are unique, and the one a session has learned is its own.       *)
OwnHandle ==
    /\ \A c, d \in Conns :
          radioHandle[c] = radioHandle[d] /\ radioHandle[c] # None => c = d
    /\ \A c \in Conns : handle[c] # None => handle[c] = radioHandle[c]
    /\ \A c \in Conns : r2p[c] \in Seq(LinesFor(radioHandle[c]))

IInv == TypeOK /\ Greeted /\ OwnHandle /\ RegistryExact

LEMMA TypeStep ==
    ASSUME TypeOK, Greeted, [Next]_vars
    PROVE  TypeOK'
  <1>1. ASSUME NEW c \in Conns, Main(c) PROVE TypeOK'
    BY <1>1, SetUpType, ReadLineType, LeaveType DEF Main
  <1>2. CASE Environment
    <2>1. ASSUME NEW c \in Conns, RadioExec(c) PROVE TypeOK'
      BY <2>1, RadioExecType DEF Greeted, RadioExec
    <2>2. QED
      BY <1>2, <2>1, SetUpType, ClientType, DirectType DEF Environment
  <1>3. CASE UNCHANGED vars
    BY <1>3 DEF vars, proxyVars, sockVars, radioVars, TypeOK
  <1>4. QED
    BY <1>1, <1>2, <1>3, ReaderType DEF Next

LEMMA GreetedStep ==
    ASSUME TypeOK, Greeted, [Next]_vars
    PROVE  Greeted'
  <1>1. ASSUME NEW c \in Conns, Reader(c) PROVE Greeted'
    <2>1. CASE ForwardLine(c)
      BY <2>1 DEF Greeted, TypeOK, ForwardLine, radioVars
    <2>2. CASE ReaderEOF(c)
      BY <2>2 DEF Greeted, TypeOK, ReaderEOF, radioVars
    <2>3. QED
      BY <1>1, <2>1, <2>2 DEF Reader
  <1>2. ASSUME NEW c \in Conns, Main(c) PROVE Greeted'
    <2>1. ASSUME NEW h \in Handles, DialOk(c, h) PROVE Greeted'
      BY <2>1 DEF Greeted, TypeOK, DialOk
    <2>2. CASE DialFails(c)
      BY <2>2 DEF Greeted, TypeOK, DialFails, sockVars, radioVars
    <2>3. CASE ReadLine(c)
      BY <2>3 DEF Greeted, TypeOK, ReadLine, radioVars
    <2>4. CASE ReadEOF(c)
      BY <2>4 DEF Greeted, TypeOK, ReadEOF, sockVars, radioVars
    <2>5. CASE Unregister(c)
      BY <2>5 DEF Greeted, TypeOK, Unregister, sockVars, radioVars
    <2>6. CASE CheckOthers(c)
      BY <2>6 DEF Greeted, TypeOK, CheckOthers, sockVars, radioVars
    <2>7. ASSUME NEW i \in Items, RemoveOwned(c, i) PROVE Greeted'
      BY <2>7 DEF Greeted, TypeOK, RemoveOwned, radioVars
    <2>8. CASE RemovesWritten(c)
      BY <2>8 DEF Greeted, TypeOK, RemovesWritten, sockVars, radioVars
    <2>9. CASE CloseRadio(c)
      BY <2>9 DEF Greeted, TypeOK, CloseRadio, radioVars
    <2>10. CASE CloseClient(c)
      BY <2>10 DEF Greeted, TypeOK, CloseClient, radioVars
    <2>11. QED
      BY <1>2, <2>1, <2>2, <2>3, <2>4, <2>5, <2>6, <2>7, <2>8, <2>9, <2>10
         DEF Main
  <1>3. CASE Environment
    <2>1. ASSUME NEW c \in Conns, Accept(c) PROVE Greeted'
      BY <2>1 DEF Greeted, TypeOK, Accept, radioVars
    <2>2. ASSUME NEW c \in Conns, NEW cmd \in Command, ClientSend(c, cmd)
          PROVE  Greeted'
      BY <2>2 DEF Greeted, TypeOK, ClientSend, proxyVars, radioVars
    <2>3. ASSUME NEW c \in Conns, ClientClose(c) PROVE Greeted'
      BY <2>3 DEF Greeted, TypeOK, ClientClose, proxyVars, radioVars
    <2>4. ASSUME NEW c \in Conns, RadioExec(c) PROVE Greeted'
      BY <2>4 DEF Greeted, TypeOK, RadioExec, proxyVars
    <2>5. ASSUME NEW c \in Conns, RadioDrop(c) PROVE Greeted'
      BY <2>5 DEF Greeted, TypeOK, RadioDrop, proxyVars, radioVars
    <2>6. ASSUME NEW i \in Items, DirectCreate(i) \/ DirectRemove(i)
          PROVE  Greeted'
      BY <2>6 DEF Greeted, TypeOK, DirectCreate, DirectRemove, proxyVars,
                  sockVars
    <2>7. QED
      BY <1>3, <2>1, <2>2, <2>3, <2>4, <2>5, <2>6 DEF Environment
  <1>4. CASE UNCHANGED vars
    BY <1>4 DEF Greeted, vars, proxyVars, sockVars, radioVars
  <1>5. QED
    BY <1>1, <1>2, <1>3, <1>4 DEF Next

-----------------------------------------------------------------------------
(* OwnHandle: the H-line a session scans is the one the radio sent it.     *)

LEMMA OwnHandleFrame ==
    ASSUME OwnHandle, UNCHANGED <<handle, radioHandle, r2p>>
    PROVE  OwnHandle'
  BY DEF OwnHandle

(* A queue that changed into a queue of the same connection's lines.       *)
LEMMA OwnHandleLines ==
    ASSUME OwnHandle, UNCHANGED <<handle, radioHandle>>,
           \A c \in Conns : r2p'[c] \in Seq(LinesFor(radioHandle[c]))
    PROVE  OwnHandle'
  BY DEF OwnHandle

LEMMA AnnounceLines ==
    ASSUME OwnHandle, NEW i \in Items, NEW h \in Handles \cup {Direct},
           Announce(i, h)
    PROVE  \A c \in Conns : r2p'[c] \in Seq(LinesFor(radioHandle[c]))
  <1> SUFFICES ASSUME NEW c \in Conns
               PROVE  r2p'[c] \in Seq(LinesFor(radioHandle[c]))
    OBVIOUS
  <1>1. OwnerLine(i, h) \in LinesFor(radioHandle[c])
    BY MessageTypes DEF LinesFor, OwnerLine
  <1>2. r2p[c] \in Seq(LinesFor(radioHandle[c]))
    BY DEF OwnHandle
  <1>3. QED
    BY <1>1, <1>2, AppendProperties DEF Announce

LEMMA ReadLineOwnHandle ==
    ASSUME TypeOK, OwnHandle, NEW c \in Conns, ReadLine(c)
    PROVE  OwnHandle'
  <1> DEFINE l == Head(r2p[c])
  <1>1. l \in LinesFor(radioHandle[c])
        /\ Tail(r2p[c]) \in Seq(LinesFor(radioHandle[c]))
    BY QueueType DEF OwnHandle, ReadLine
  <1>2. LearnHandle(c, l) # None => LearnHandle(c, l) = radioHandle[c]
    BY <1>1 DEF OwnHandle, LearnHandle, LinesFor
  <1>3. \A d \in Conns : handle'[d] # None => handle'[d] = radioHandle'[d]
    BY <1>2 DEF TypeOK, OwnHandle, ReadLine, radioVars
  <1>4. \A d \in Conns : r2p'[d] \in Seq(LinesFor(radioHandle'[d]))
    <2>1. <<>> \in Seq(LinesFor(radioHandle[c]))
      BY EmptySeq
    <2>2. PICK q \in Seq(LinesFor(radioHandle[c])) :
             r2p' = [r2p EXCEPT ![c] = q]
      BY <1>1, <2>1 DEF ReadLine
    <2>3. radioHandle' = radioHandle
      BY DEF ReadLine, radioVars
    <2>4. QED
      BY <2>2, <2>3 DEF TypeOK, OwnHandle
  <1>5. QED
    BY <1>3, <1>4 DEF OwnHandle, ReadLine, radioVars

LEMMA DialOkOwnHandle ==
    ASSUME TypeOK, Greeted, OwnHandle, NEW c \in Conns, NEW h \in Handles,
           DialOk(c, h)
    PROVE  OwnHandle'
  <1>1. h # None /\ handle[c] = None
    BY NamesAssumption DEF DialOk, Greeted
  <1>2. <<HLine(h)>> \in Seq(LinesFor(h))
    BY MessageTypes DEF LinesFor, HLine
  <1>3. \A d \in Conns : r2p'[d] \in Seq(LinesFor(radioHandle'[d]))
    BY <1>2 DEF TypeOK, OwnHandle, DialOk
  <1>4. \A d, e \in Conns :
           radioHandle'[d] = radioHandle'[e] /\ radioHandle'[d] # None => d = e
    BY DEF TypeOK, OwnHandle, DialOk
  <1>5. \A d \in Conns : handle'[d] # None => handle'[d] = radioHandle'[d]
    BY <1>1 DEF TypeOK, OwnHandle, DialOk
  <1>6. QED
    BY <1>3, <1>4, <1>5 DEF OwnHandle

LEMMA OwnHandleStep ==
    ASSUME TypeOK, Greeted, OwnHandle, [Next]_vars
    PROVE  OwnHandle'
  <1>1. ASSUME NEW c \in Conns, Reader(c) PROVE OwnHandle'
    <2>1. CASE ForwardLine(c)
      BY <2>1, OwnHandleFrame DEF ForwardLine, radioVars
    <2>2. CASE ReaderEOF(c)
      <3>1. PICK n \in 0..Len(r2p[c]) :
               r2p' = [r2p EXCEPT ![c] = SubSeq(@, 1, n)]
        BY <2>2 DEF ReaderEOF
      <3>2. SubSeq(r2p[c], 1, n) \in Seq(LinesFor(radioHandle[c]))
        BY PrefixType DEF OwnHandle
      <3>3. \A d \in Conns : r2p'[d] \in Seq(LinesFor(radioHandle[d]))
        BY <3>1, <3>2 DEF TypeOK, OwnHandle
      <3>4. QED
        BY <2>2, <3>3, OwnHandleLines DEF ReaderEOF, radioVars
    <2>3. QED
      BY <1>1, <2>1, <2>2 DEF Reader
  <1>2. ASSUME NEW c \in Conns, Main(c) PROVE OwnHandle'
    <2>1. ASSUME NEW h \in Handles, DialOk(c, h) PROVE OwnHandle'
      BY <2>1, DialOkOwnHandle
    <2>2. CASE ReadLine(c)
      BY <2>2, ReadLineOwnHandle
    <2>3. CASE CloseRadio(c)
      <3>1. <<>> \in Seq(LinesFor(radioHandle[c]))
        BY EmptySeq
      <3>2. \A d \in Conns : r2p'[d] \in Seq(LinesFor(radioHandle[d]))
        BY <2>3, <3>1 DEF TypeOK, OwnHandle, CloseRadio
      <3>3. QED
        BY <2>3, <3>2, OwnHandleLines DEF CloseRadio, radioVars
    <2>4. CASE \/ DialFails(c) \/ ReadEOF(c) \/ Unregister(c)
               \/ CheckOthers(c) \/ RemovesWritten(c) \/ CloseClient(c)
               \/ \E i \in Items : RemoveOwned(c, i)
      BY <2>4, OwnHandleFrame
         DEF DialFails, ReadEOF, Unregister, CheckOthers, RemovesWritten,
             CloseClient, RemoveOwned, sockVars, radioVars
    <2>5. QED
      BY <1>2, <2>1, <2>2, <2>3, <2>4 DEF Main
  <1>3. CASE Environment
    <2>1. ASSUME NEW c \in Conns, RadioExec(c) PROVE OwnHandle'
      <3>1. CASE r2p' = r2p
        BY <2>1, <3>1, OwnHandleFrame DEF RadioExec, proxyVars
      <3>2. CASE \E i \in Items : Announce(i, radioHandle[c])
        <4>1. radioHandle[c] \in Handles
          BY <2>1 DEF Greeted, RadioExec
        <4>2. \A d \in Conns : r2p'[d] \in Seq(LinesFor(radioHandle[d]))
          BY <3>2, <4>1, AnnounceLines
        <4>3. QED
          BY <2>1, <4>2, OwnHandleLines DEF RadioExec, proxyVars
      <3>3. QED
        BY <2>1, <3>1, <3>2 DEF RadioExec, Own
    <2>2. ASSUME NEW i \in Items, DirectCreate(i) PROVE OwnHandle'
      <3>1. \A d \in Conns : r2p'[d] \in Seq(LinesFor(radioHandle[d]))
        BY <2>2, AnnounceLines DEF DirectCreate, Own
      <3>2. QED
        BY <2>2, <3>1, OwnHandleLines DEF DirectCreate, proxyVars
    <2>3. ASSUME NEW c \in Conns,
                 \/ Accept(c) \/ ClientClose(c) \/ RadioDrop(c)
                 \/ \E cmd \in Command : ClientSend(c, cmd)
          PROVE  OwnHandle'
      BY <2>3, OwnHandleFrame
         DEF Accept, ClientClose, RadioDrop, ClientSend, proxyVars, radioVars
    <2>4. ASSUME NEW i \in Items, DirectRemove(i) PROVE OwnHandle'
      BY <2>4, OwnHandleFrame DEF DirectRemove, proxyVars, sockVars
    <2>5. QED
      BY <1>3, <2>1, <2>2, <2>3, <2>4 DEF Environment
  <1>4. CASE UNCHANGED vars
    BY <1>4, OwnHandleFrame DEF vars, proxyVars, sockVars, radioVars
  <1>5. QED
    BY <1>1, <1>2, <1>3, <1>4 DEF Next

-----------------------------------------------------------------------------
(* RegistryExact: only the H-line lists a session, only its cleanup strikes *)
(* it off.                                                                 *)

(* Steps that touch neither the registry nor who should be in it.          *)
LEMMA RegistryFrame ==
    ASSUME RegistryExact, UNCHANGED <<clients, handle>>,
           \A c \in Conns : Listed(c)' <=> Listed(c)
    PROVE  RegistryExact'
  BY DEF RegistryExact

(* Steps that leave the phases alone as well.                              *)
LEMMA RegistryStill ==
    ASSUME RegistryExact, UNCHANGED <<clients, handle, phase>>
    PROVE  RegistryExact'
  BY DEF RegistryExact, Listed

(* Registering: no one else holds the handle, because the radio gave it to *)
(* this connection alone.                                                  *)
LEMMA ReadLineRegistry ==
    ASSUME TypeOK, OwnHandle, RegistryExact, NEW c \in Conns, ReadLine(c)
    PROVE  RegistryExact'
  <1> DEFINE l == Head(r2p[c])
  <1>0. l \in LinesFor(radioHandle[c])
    BY QueueType DEF OwnHandle, ReadLine
  <1>1. l \in LinesFor(radioHandle[c]) /\ l \in Line
    BY <1>0 DEF LinesFor
  <1>2. \A d \in Conns : phase'[d] \in {"loop", "unregister"}
                           <=> phase[d] \in {"loop", "unregister"}
    <2>1. PICK p \in {"loop", "unregister"} : phase' = [phase EXCEPT ![c] = p]
      BY DEF TypeOK, ReadLine
    <2>2. QED
      BY <2>1 DEF TypeOK, ReadLine
  <1>3. CASE handle[c] = None /\ l.tag = "H"
    <2>1. l.handle = radioHandle[c] /\ l.handle \in Handles
      BY <1>1, <1>3, LineFields DEF LinesFor
    <2>2. l.handle # None
      BY <2>1, NamesAssumption
    <2>3. clients' = [clients EXCEPT ![l.handle] = c]
          /\ handle' = [handle EXCEPT ![c] = l.handle]
      BY <1>3 DEF ReadLine, LearnHandle
    <2>4. \A d \in Conns : d # c => handle[d] # l.handle
      BY <2>1, <2>2 DEF OwnHandle
    <2>5. phase[c] = "loop" /\ c # None
      BY NamesAssumption DEF ReadLine
    <2>6. ASSUME NEW h \in Handles, NEW d \in Conns
          PROVE  clients'[h] = d <=> Listed(d)' /\ handle'[d] = h
      <3>1. CASE h = l.handle
        BY <3>1, <1>2, <2>1, <2>2, <2>3, <2>4, <2>5 DEF TypeOK, Listed
      <3>2. CASE h # l.handle /\ d = c
        <4>1. clients'[h] = clients[h] /\ handle'[c] = l.handle
          BY <3>2, <2>3 DEF TypeOK
        <4>2. clients[h] # c
          BY <1>3 DEF RegistryExact, Listed
        <4>3. QED
          BY <3>2, <4>1, <4>2
      <3>3. CASE h # l.handle /\ d # c
        <4>1. clients'[h] = clients[h] /\ handle'[d] = handle[d]
          BY <3>3, <2>3 DEF TypeOK
        <4>2. Listed(d)' <=> Listed(d)
          BY <4>1, <1>2 DEF Listed
        <4>3. QED
          BY <4>1, <4>2 DEF RegistryExact
      <3>4. QED
        BY <3>1, <3>2, <3>3
    <2>7. QED
      BY <2>6 DEF RegistryExact
  <1>4. CASE ~(handle[c] = None /\ l.tag = "H")
    <2>1. UNCHANGED <<clients, handle>>
      BY <1>4 DEF TypeOK, ReadLine, LearnHandle
    <2>2. QED
      BY <1>2, <2>1, RegistryFrame DEF Listed
  <1>5. QED
    BY <1>3, <1>4

LEMMA UnregisterRegistry ==
    ASSUME TypeOK, OwnHandle, RegistryExact, NEW c \in Conns, Unregister(c)
    PROVE  RegistryExact'
  <1>1. phase'[c] \in {"closeRadio", "check"}
        /\ \A d \in Conns : d # c => phase'[d] = phase[d]
    BY DEF TypeOK, Unregister
  <1>2. handle' = handle
    BY DEF Unregister
  <1>3. \A d \in Conns : Listed(d)' <=> Listed(d) /\ d # c
    BY <1>1, <1>2 DEF Listed
  <1>4. \A d \in Conns : d # c /\ handle[d] # None => handle[d] # handle[c]
    BY DEF OwnHandle
  <1>5. \A h \in Handles :
           clients'[h] = IF h = handle[c] THEN None ELSE clients[h]
    BY DEF Unregister
  <1>6. \A d \in Conns : d # None
    BY NamesAssumption
  <1>7. QED
    BY <1>2, <1>3, <1>4, <1>5, <1>6 DEF RegistryExact, Listed

LEMMA RegistryStep ==
    ASSUME TypeOK, Greeted, OwnHandle, RegistryExact, [Next]_vars
    PROVE  RegistryExact'
  <1>1. ASSUME NEW c \in Conns, Reader(c) PROVE RegistryExact'
    BY <1>1, RegistryStill DEF Reader, ForwardLine, ReaderEOF
  <1>2. ASSUME NEW c \in Conns, Main(c) PROVE RegistryExact'
    <2>1. ASSUME NEW h \in Handles, DialOk(c, h) PROVE RegistryExact'
      <3>1. handle[c] = None
        BY <2>1 DEF Greeted, DialOk
      <3>2. \A d \in Conns : Listed(d)' <=> Listed(d)
        BY <2>1, <3>1 DEF TypeOK, DialOk, Listed
      <3>3. QED
        BY <2>1, <3>2, RegistryFrame DEF DialOk
    <2>2. CASE ReadLine(c)
      BY <2>2, ReadLineRegistry
    <2>3. CASE Unregister(c)
      BY <2>3, UnregisterRegistry
    <2>4. CASE DialFails(c) \/ ReadEOF(c) \/ CheckOthers(c) \/ RemovesWritten(c)
               \/ CloseRadio(c) \/ CloseClient(c)
      <3>1. \A d \in Conns : Listed(d)' <=> Listed(d)
        <4>1. CASE DialFails(c)
          <5>1. handle[c] = None
            BY <4>1 DEF Greeted, DialFails
          <5>2. QED
            BY <4>1, <5>1 DEF TypeOK, DialFails, Listed
        <4>2. CASE ReadEOF(c)
          BY <4>2 DEF TypeOK, ReadEOF, Listed
        <4>3. CASE CheckOthers(c)
          <5>1. PICK p \in {"closeRadio", "remove"} :
                   phase' = [phase EXCEPT ![c] = p]
            BY <4>3 DEF CheckOthers
          <5>2. phase[c] = "check" /\ handle' = handle
            BY <4>3 DEF CheckOthers
          <5>3. QED
            BY <5>1, <5>2 DEF TypeOK, Listed
        <4>4. CASE RemovesWritten(c)
          BY <4>4 DEF TypeOK, RemovesWritten, Listed
        <4>5. CASE CloseRadio(c)
          BY <4>5 DEF TypeOK, CloseRadio, Listed
        <4>6. CASE CloseClient(c)
          BY <4>6 DEF TypeOK, CloseClient, Listed
        <4>7. QED
          BY <2>4, <4>1, <4>2, <4>3, <4>4, <4>5, <4>6
      <3>2. UNCHANGED <<clients, handle>>
        BY <2>4 DEF DialFails, ReadEOF, CheckOthers, RemovesWritten, CloseRadio,
                    CloseClient
      <3>3. QED
        BY <3>1, <3>2, RegistryFrame
    <2>5. ASSUME NEW i \in Items, RemoveOwned(c, i) PROVE RegistryExact'
      BY <2>5, RegistryStill DEF RemoveOwned
    <2>6. QED
      BY <1>2, <2>1, <2>2, <2>3, <2>4, <2>5 DEF Main
  <1>3. CASE Environment
    <2>1. ASSUME NEW c \in Conns, Accept(c) PROVE RegistryExact'
      <3>1. handle[c] = None
        BY <2>1 DEF Greeted, Accept
      <3>2. \A d \in Conns : Listed(d)' <=> Listed(d)
        BY <2>1, <3>1 DEF TypeOK, Accept, Listed
      <3>3. QED
        BY <2>1, <3>2, RegistryFrame DEF Accept
    <2>2. CASE UNCHANGED proxyVars
      BY <2>2, RegistryStill DEF proxyVars
    <2>3. QED
      BY <1>3, <2>1, <2>2
         DEF Environment, ClientSend, ClientClose, RadioExec, RadioDrop,
             DirectCreate, DirectRemove
  <1>4. CASE UNCHANGED vars
    BY <1>4, RegistryStill DEF vars, proxyVars
  <1>5. QED
    BY <1>1, <1>2, <1>3, <1>4 DEF Next

-----------------------------------------------------------------------------
(* The inductive invariant holds in every reachable state.                 *)
LEMMA InitIInv == Init => IInv
  <1> SUFFICES ASSUME Init PROVE IInv
    OBVIOUS
  <1>1. Greeted
    BY DEF Init, Greeted
  <1>2. OwnHandle
    BY EmptySeq DEF Init, OwnHandle
  <1>3. RegistryExact
    BY NamesAssumption DEF Init, RegistryExact, Listed
  <1>4. QED
    BY <1>1, <1>2, <1>3, TypeInit DEF IInv

LEMMA StepIInv == IInv /\ [Next]_vars => IInv'
  BY TypeStep, GreetedStep, OwnHandleStep, RegistryStep DEF IInv

LEMMA SpecIInv == Spec => []IInv
  BY InitIInv, StepIInv, PTL DEF Spec

(* The proxy's variables keep their types in every behaviour.              *)
THEOREM TypeCorrect == Spec => []TypeOK
  <1>1. IInv => TypeOK
    BY DEF IInv
  <1>2. QED
    BY <1>1, SpecIInv, PTL

(* The client registry is exact in every behaviour: a handle maps to just  *)
(* the running session that learned it, for any number of sessions ending  *)
(* in any order and in any way (RegisterClient, UnregisterClient).         *)
THEOREM RegistryCorrect == Spec => []RegistryExact
  <1>1. IInv => RegistryExact
    BY DEF IInv
  <1>2. QED
    BY <1>1, SpecIInv, PTL

-----------------------------------------------------------------------------
(* Refinement: the registry's steps are ClientRegistry's.                  *)

LEMMA InitRegistry == Init => Registry!Init
  BY DEF Init, Registry!Init

(* A scanned line lists the session, under a free handle, or changes       *)
(* nothing the registry shows.                                             *)
LEMMA ReadLineJoins ==
    ASSUME IInv, NEW c \in Conns, ReadLine(c)
    PROVE  [Registry!Next]_(Registry!vars)
  <1> DEFINE l == Head(r2p[c])
  <1>0. l \in LinesFor(radioHandle[c])
    BY QueueType DEF IInv, OwnHandle, ReadLine
  <1>1. l \in Line /\ (l.tag = "H" => l.handle = radioHandle[c])
    BY <1>0 DEF LinesFor
  <1>2. CASE handle[c] = None /\ l.tag = "H"
    <2>1. l.handle = radioHandle[c] /\ l.handle \in Handles
      BY <1>1, <1>2, LineFields
    <2>2. l.handle # None
      BY <2>1, NamesAssumption
    <2>3. clients' = [clients EXCEPT ![l.handle] = c]
          /\ handle' = [handle EXCEPT ![c] = l.handle]
      BY <1>2 DEF ReadLine, LearnHandle
    <2>4. clients[l.handle] = None
      <3>1. \A d \in Conns : handle[d] # l.handle
        BY <1>2, <2>1, <2>2 DEF IInv, OwnHandle
      <3>2. \A d \in Conns : clients[l.handle] # d
        BY <2>1, <3>1 DEF IInv, RegistryExact
      <3>3. QED
        BY <2>1, <3>2 DEF IInv, TypeOK
    <2>5. {d \in Conns : handle'[d] # None}
            = {d \in Conns : handle[d] # None} \cup {c}
      BY <2>2, <2>3 DEF IInv, TypeOK
    <2>6. PICK h \in Handles : h = l.handle
      BY <2>1
    <2>7. Registry!Join(c, h)
      BY <1>2, <2>3, <2>4, <2>5, <2>6 DEF Registry!Join
    <2>8. QED
      BY <2>7 DEF Registry!Next
  <1>3. CASE ~(handle[c] = None /\ l.tag = "H")
    BY <1>3 DEF ReadLine, LearnHandle, Registry!vars, IInv, TypeOK
  <1>4. QED
    BY <1>2, <1>3

(* The cleanup strikes off the session's own entry, or had none.           *)
LEMMA UnregisterLeaves ==
    ASSUME IInv, NEW c \in Conns, Unregister(c)
    PROVE  [Registry!Next]_(Registry!vars)
  <1>1. handle' = handle
    BY DEF Unregister
  <1>2. CASE handle[c] = None
    <2>1. \A h \in Handles : h # None
      BY NamesAssumption
    <2>2. clients' = clients
      BY <1>2, <2>1 DEF Unregister, IInv, TypeOK
    <2>3. QED
      BY <1>1, <2>2 DEF Registry!vars
  <1>3. CASE handle[c] # None
    <2>1. handle[c] \in Handles
      BY <1>3 DEF IInv, TypeOK
    <2>2. clients[handle[c]] = c
      BY <1>3, <2>1 DEF IInv, RegistryExact, Listed, Unregister
    <2>3. clients' = [clients EXCEPT ![handle[c]] = None]
      BY <2>1 DEF Unregister, IInv, TypeOK
    <2>4. Registry!Leave(c, handle[c])
      BY <1>1, <2>2, <2>3 DEF Registry!Leave
    <2>5. QED
      BY <2>1, <2>4 DEF Registry!Next
  <1>4. QED
    BY <1>2, <1>3

LEMMA StepRegistry ==
    IInv /\ [Next]_vars => [Registry!Next]_(Registry!vars)
  <1> SUFFICES ASSUME IInv, [Next]_vars
               PROVE  [Registry!Next]_(Registry!vars)
    OBVIOUS
  <1>1. CASE UNCHANGED <<clients, handle>>
    BY <1>1 DEF Registry!vars
  <1>2. CASE \E c \in Conns : ReadLine(c)
    BY <1>2, ReadLineJoins
  <1>3. CASE \E c \in Conns : Unregister(c)
    BY <1>3, UnregisterLeaves
  <1>4. QED
    BY <1>1, <1>2, <1>3
       DEF Next, Reader, Main, Environment, ForwardLine, ReaderEOF, DialOk,
           DialFails, ReadEOF, CheckOthers, RemoveOwned, RemovesWritten,
           CloseRadio, CloseClient, Accept, ClientSend, ClientClose, RadioExec,
           RadioDrop, DirectCreate, DirectRemove, vars, proxyVars

(* The sessions' bookkeeping implements ClientRegistry: a connection is    *)
(* listed once, under a handle nobody holds, and only its own cleanup      *)
(* strikes it off.                                                         *)
THEOREM ImplementsRegistry == Spec => RegistrySpec
  BY InitRegistry, StepRegistry, SpecIInv, PTL DEF Spec, RegistrySpec, Registry!Spec

-----------------------------------------------------------------------------
(* OwnedTracksGrants: what the radio announced is what the session tracks. *)

(* The pans and slices that the lines of q name as handle h's.             *)
NamedIn(q, h) ==
    {i \in Items : \E k \in 1..Len(q) : q[k] = OwnerLine(i, h)}

EverOwned(c) == {i \in Items : <<radioHandle[c], i>> \in granted}
Announced(c) == NamedIn(r2p[c], radioHandle[c])
Tracking(c) == phase[c] = "loop" /\ ~deadline[c]

(* The radio grants only to handles it has given out.                      *)
GrantsGiven ==
    \A h \in Handles, i \in Items :
        <<h, i>> \in granted => \E c \in Conns : radioHandle[c] = h

(* Until it is scanned, the H-line is in front of every status line.       *)
HLineFirst ==
    \A c \in Conns :
        Tracking(c) /\ handle[c] = None
            => r2p[c] # <<>> /\ r2p[c][1].tag = "H"

(* A running session has a link; a link the radio dropped carries nothing. *)
DroppedDry ==
    \A c \in Conns : /\ phase[c] = "loop" => link[c] \in {"up", "dropped"}
                     /\ link[c] = "dropped" => p2r[c] = <<>>

(* Nothing is tracked, announced or to be removed that was not granted.    *)
OnlyOwn ==
    \A c \in Conns :
        owned[c] \cup toRemove[c] \cup Announced(c) \subseteq EverOwned(c)

(* Nothing granted is missed while the session tracks.                     *)
NoneMissed ==
    \A c \in Conns :
        Tracking(c) => EverOwned(c) \subseteq owned[c] \cup Announced(c)

OInv == GrantsGiven /\ HLineFirst /\ DroppedDry /\ OnlyOwn /\ NoneMissed

(* What appending, scanning, cutting and discarding do to the names.       *)
LEMMA NamedAppend ==
    ASSUME NEW q \in Seq(Line), NEW j \in Items, NEW g, NEW h,
           OwnerLine(j, g) \in Line
    PROVE  /\ g = h => NamedIn(Append(q, OwnerLine(j, g)), h)
                         = NamedIn(q, h) \cup {j}
           /\ g # h => NamedIn(Append(q, OwnerLine(j, g)), h) = NamedIn(q, h)
  <1> DEFINE l == OwnerLine(j, g)
             a == Append(q, l)
  <1>1. /\ Len(q) \in Nat
        /\ Len(a) = Len(q) + 1
        /\ a[Len(q) + 1] = l
        /\ \A k \in 1..Len(q) : a[k] = q[k]
    BY AppendProperties, LenProperties
  <1>2. ASSUME NEW i \in Items
        PROVE  i \in NamedIn(a, h) <=> i \in NamedIn(q, h) \/ l = OwnerLine(i, h)
    <2> HIDE DEF l, a
    <2>1. 1..Len(a) = 1..Len(q) \cup {Len(q) + 1}
      BY <1>1
    <2>2. QED
      BY <1>1, <2>1 DEF NamedIn
  <1>3. ASSUME NEW i \in Items PROVE l = OwnerLine(i, h) <=> i = j /\ g = h
    <2>1. l = OwnerLine(i, h) => l.item = OwnerLine(i, h).item
                                 /\ l.handle = OwnerLine(i, h).handle
      OBVIOUS
    <2>2. QED
      BY <2>1 DEF OwnerLine
  <1>4. NamedIn(a, h) \subseteq Items /\ NamedIn(q, h) \subseteq Items
    BY DEF NamedIn
  <1>5. QED
    <2> HIDE DEF l, a
    <2>1. g = h => NamedIn(a, h) = NamedIn(q, h) \cup {j}
      BY <1>2, <1>3, <1>4
    <2>2. g # h => NamedIn(a, h) = NamedIn(q, h)
      BY <1>2, <1>3, <1>4
    <2>3. QED
      BY <2>1, <2>2 DEF a, l

LEMMA NamedTail ==
    ASSUME NEW q \in Seq(Line), q # <<>>, NEW h
    PROVE  /\ NamedIn(Tail(q), h) \subseteq NamedIn(q, h)
           /\ \A i \in NamedIn(q, h) :
                 i \in NamedIn(Tail(q), h) \/ q[1] = OwnerLine(i, h)
           /\ \A i \in Items : q[1] = OwnerLine(i, h) => i \in NamedIn(q, h)
  <1>1. /\ Len(q) \in Nat \ {0}
        /\ Len(Tail(q)) = Len(q) - 1
        /\ \A k \in 1..Len(Tail(q)) : Tail(q)[k] = q[k + 1]
    BY HeadTailProperties, LenProperties, EmptySeq
  <1>2. ASSUME NEW i \in NamedIn(Tail(q), h) PROVE i \in NamedIn(q, h)
    <2>1. PICK k \in 1..Len(Tail(q)) : Tail(q)[k] = OwnerLine(i, h)
      BY DEF NamedIn
    <2>2. k + 1 \in 1..Len(q) /\ q[k + 1] = OwnerLine(i, h)
      BY <1>1, <2>1
    <2>3. QED
      BY <2>2 DEF NamedIn
  <1>3. ASSUME NEW i \in NamedIn(q, h), q[1] # OwnerLine(i, h)
        PROVE  i \in NamedIn(Tail(q), h)
    <2>1. PICK k \in 1..Len(q) : q[k] = OwnerLine(i, h)
      BY DEF NamedIn
    <2>2. k - 1 \in 1..Len(Tail(q)) /\ (k - 1) + 1 = k
      BY <1>1, <1>3, <2>1
    <2>3. Tail(q)[k - 1] = OwnerLine(i, h)
      BY <1>1, <2>1, <2>2
    <2>4. QED
      BY <2>2, <2>3 DEF NamedIn
  <1>4. \A i \in Items : q[1] = OwnerLine(i, h) => i \in NamedIn(q, h)
    <2>1. 1 \in 1..Len(q)
      BY <1>1
    <2>2. QED
      BY <2>1 DEF NamedIn
  <1>5. QED
    BY <1>2, <1>3, <1>4

LEMMA NamedPrefix ==
    ASSUME NEW q \in Seq(Line), NEW n \in 0..Len(q), NEW h
    PROVE  NamedIn(SubSeq(q, 1, n), h) \subseteq NamedIn(q, h)
  <1>1. /\ Len(SubSeq(q, 1, n)) = n
        /\ \A k \in 1..n : SubSeq(q, 1, n)[k] = q[k]
    BY SubSeqProperties, ElementOfSeq, LenProperties
  <1>2. 1..n \subseteq 1..Len(q)
    BY LenProperties
  <1>3. QED
    BY <1>1, <1>2 DEF NamedIn

LEMMA NamedNone ==
    ASSUME NEW g, NEW h
    PROVE  NamedIn(<<>>, h) = {} /\ NamedIn(<<HLine(g)>>, h) = {}
  <1>1. NamedIn(<<>>, h) = {}
    BY DEF NamedIn
  <1>2. NamedIn(<<HLine(g)>>, h) = {}
    <2>1. \A i \in Items : HLine(g) # OwnerLine(i, h)
      BY DEF HLine, OwnerLine
    <2>2. QED
      BY <2>1 DEF NamedIn
  <1>3. QED
    BY <1>1, <1>2

(* A step that leaves grants, lines and tracking alone, and starts no loop. *)
LEMMA OwnFrame ==
    ASSUME OInv, UNCHANGED <<handle, owned, r2p, radioHandle, granted>>,
           \A c \in Conns :
              /\ phase'[c] = "loop" => phase[c] = "loop"
              /\ deadline[c] => deadline'[c]
              /\ toRemove'[c] \subseteq owned[c] \cup toRemove[c]
              /\ phase'[c] = "loop" => link'[c] \in {"up", "dropped"}
              /\ link'[c] = "dropped" => p2r'[c] = <<>>
    PROVE  OInv'
  <1>1. GrantsGiven'
    BY DEF OInv, GrantsGiven
  <1>2. \A c \in Conns : Tracking(c)' => Tracking(c)
    BY DEF Tracking
  <1>3. \A c \in Conns : EverOwned(c)' = EverOwned(c) /\ Announced(c)' = Announced(c)
    BY DEF EverOwned, Announced
  <1>4. HLineFirst'
    BY <1>2 DEF OInv, HLineFirst
  <1>5. DroppedDry'
    BY DEF DroppedDry
  <1>6. OnlyOwn'
    BY <1>3 DEF OInv, OnlyOwn
  <1>7. NoneMissed'
    BY <1>2, <1>3 DEF OInv, NoneMissed
  <1>8. QED
    BY <1>1, <1>4, <1>5, <1>6, <1>7 DEF OInv

(* Dialing: the new handle has been granted nothing, nor had None before.  *)
LEMMA DialOkOwn ==
    ASSUME IInv, OInv, NEW c \in Conns, NEW h \in Handles, DialOk(c, h)
    PROVE  OInv'
  <1>1. /\ granted' = granted /\ owned' = owned /\ toRemove' = toRemove
        /\ handle' = handle /\ p2r' = p2r /\ deadline' = deadline
        /\ phase' = [phase EXCEPT ![c] = "loop"]
        /\ link' = [link EXCEPT ![c] = "up"]
        /\ r2p' = [r2p EXCEPT ![c] = <<HLine(h)>>]
        /\ radioHandle' = [radioHandle EXCEPT ![c] = h]
    BY DEF DialOk
  <1>2. \A i \in Items : <<None, i>> \notin granted
    BY NamesAssumption DEF IInv, TypeOK
  <1>3. radioHandle[c] = None
    BY DEF IInv, Greeted, DialOk
  <1>4. EverOwned(c) = {}
    BY <1>2, <1>3 DEF EverOwned
  <1>5. owned[c] = {} /\ toRemove[c] = {}
    BY <1>4 DEF OInv, OnlyOwn
  <1>6. \A i \in Items : <<h, i>> \notin granted
    BY DEF OInv, GrantsGiven, DialOk
  <1>7. EverOwned(c)' = {}
    BY <1>1, <1>6 DEF EverOwned, IInv, TypeOK
  <1>8. Announced(c)' = {}
    <2>1. r2p'[c] = <<HLine(h)>>
      BY <1>1 DEF IInv, TypeOK
    <2>2. QED
      BY <2>1, NamedNone DEF Announced
  <1>9. \A d \in Conns : d # c =>
           /\ EverOwned(d)' = EverOwned(d) /\ Announced(d)' = Announced(d)
           /\ Tracking(d)' = Tracking(d) /\ r2p'[d] = r2p[d]
    BY <1>1 DEF EverOwned, Announced, Tracking, IInv, TypeOK
  <1>10. GrantsGiven'
    <2>1. ASSUME NEW g \in Handles, NEW i \in Items, <<g, i>> \in granted
          PROVE  \E d \in Conns : radioHandle'[d] = g
      <3>1. PICK d \in Conns : radioHandle[d] = g
        BY <2>1 DEF OInv, GrantsGiven
      <3>2. d # c
        BY <1>3, <3>1, NamesAssumption
      <3>3. radioHandle'[d] = g
        BY <1>1, <3>1, <3>2 DEF IInv, TypeOK
      <3>4. QED
        BY <3>3
    <2>2. QED
      BY <1>1, <2>1 DEF GrantsGiven
  <1>11. HLineFirst'
    <2>1. r2p'[c] = <<HLine(h)>> /\ r2p'[c] # <<>> /\ r2p'[c][1] = HLine(h)
      BY <1>1 DEF IInv, TypeOK
    <2>2. r2p'[c][1].tag = "H"
      BY <2>1 DEF HLine
    <2>3. QED
      BY <1>1, <1>9, <2>1, <2>2 DEF OInv, HLineFirst
  <1>12. DroppedDry'
    BY <1>1 DEF OInv, DroppedDry, IInv, TypeOK
  <1>13. OnlyOwn'
    BY <1>1, <1>5, <1>7, <1>8, <1>9 DEF OInv, OnlyOwn
  <1>14. NoneMissed'
    BY <1>1, <1>7, <1>9 DEF OInv, NoneMissed
  <1>15. QED
    BY <1>10, <1>11, <1>12, <1>13, <1>14 DEF OInv

(* Scanning: the line that goes from the wire is the one that is tracked.  *)
LEMMA ReadLineOwn ==
    ASSUME IInv, OInv, NEW c \in Conns, ReadLine(c)
    PROVE  OInv'
  <1> DEFINE l == r2p[c][1]
             h == radioHandle[c]
  <1>0. /\ r2p[c] \in Seq(Line) /\ r2p[c] # <<>> /\ Head(r2p[c]) = l
        /\ l \in Line
    <2>1. r2p[c] \in Seq(Line) /\ r2p[c] # <<>>
      BY DEF ReadLine, IInv, TypeOK
    <2>2. QED
      BY <2>1, QueueType
  <1>1. /\ granted' = granted /\ toRemove' = toRemove /\ p2r' = p2r
        /\ deadline' = deadline /\ link' = link /\ radioHandle' = radioHandle
    BY DEF ReadLine, radioVars
  <1>2. /\ handle'[c] = LearnHandle(c, l)
        /\ owned'[c] = TrackOwned(c, l)
        /\ \A d \in Conns : d # c =>
              /\ handle'[d] = handle[d] /\ owned'[d] = owned[d]
              /\ phase'[d] = phase[d] /\ r2p'[d] = r2p[d]
    BY <1>0 DEF ReadLine, IInv, TypeOK
  <1>3. \/ r2p'[c] = Tail(r2p[c]) /\ phase'[c] = "loop"
        \/ r2p'[c] = <<>> /\ phase'[c] = "unregister"
    BY DEF ReadLine, IInv, TypeOK
  <1>4. \A d \in Conns : EverOwned(d)' = EverOwned(d)
    BY <1>1 DEF EverOwned
  <1>5. \A d \in Conns : d # c =>
           /\ Announced(d)' = Announced(d) /\ Tracking(d)' = Tracking(d)
    BY <1>1, <1>2 DEF Announced, Tracking
  <1>6. /\ Announced(c)' \subseteq Announced(c)
        /\ \A i \in Items : l = OwnerLine(i, h) => i \in Announced(c)
    BY <1>0, <1>1, <1>3, NamedTail, NamedNone DEF Announced
  <1>7. owned[c] \subseteq owned'[c]
    BY <1>2 DEF TrackOwned
  <1>8. ASSUME NEW i \in owned'[c] PROVE i \in owned[c] \cup Announced(c)
    <2>1. CASE i \in owned[c]
      BY <2>1
    <2>2. CASE i \notin owned[c]
      <3>1. /\ handle[c] # None /\ l.tag = "owner" /\ l.handle = handle[c]
            /\ i = l.item
        BY <1>2, <2>2 DEF TrackOwned
      <3>2. handle[c] = h
        BY <3>1 DEF IInv, OwnHandle
      <3>3. l = OwnerLine(l.item, l.handle) /\ l.item \in Items
        BY <1>0, <3>1 DEF Line, HLine, OwnerLine
      <3>4. QED
        BY <1>6, <3>1, <3>2, <3>3
    <2>3. QED
      BY <2>1, <2>2
  <1>9. GrantsGiven'
    BY <1>1 DEF OInv, GrantsGiven
  <1>10. HLineFirst'
    <2>1. Tracking(c)' => Tracking(c)
      BY <1>1 DEF Tracking, ReadLine
    <2>2. Tracking(c) => handle'[c] # None
      <3>1. ASSUME Tracking(c), handle[c] = None PROVE LearnHandle(c, l) # None
        <4>1. l.tag = "H"
          BY <3>1 DEF OInv, HLineFirst
        <4>2. l.handle \in Handles
          BY <1>0, <4>1, LineFields
        <4>3. QED
          BY <3>1, <4>1, <4>2, NamesAssumption DEF LearnHandle
      <3>2. handle[c] # None => LearnHandle(c, l) # None
        BY DEF LearnHandle
      <3>3. QED
        BY <1>2, <3>1, <3>2
    <2>3. QED
      BY <1>2, <1>5, <2>1, <2>2 DEF OInv, HLineFirst
  <1>11. DroppedDry'
    <2>1. \A d \in Conns : phase'[d] = "loop" => phase[d] = "loop"
      BY <1>2 DEF ReadLine
    <2>2. QED
      BY <1>1, <2>1 DEF OInv, DroppedDry
  <1>12. OnlyOwn'
    BY <1>1, <1>2, <1>4, <1>5, <1>6, <1>8 DEF OInv, OnlyOwn
  <1>13. NoneMissed'
    <2>1. ASSUME Tracking(c)' PROVE EverOwned(c) \subseteq owned'[c] \cup Announced(c)'
      <3>1. Tracking(c) /\ r2p'[c] = Tail(r2p[c])
        BY <2>1, <1>1, <1>3 DEF Tracking, ReadLine
      <3>2. ASSUME NEW i \in EverOwned(c), i \notin owned[c]
            PROVE  i \in owned'[c] \cup Announced(c)'
        <4>1. i \in NamedIn(r2p[c], h)
          BY <3>1, <3>2 DEF OInv, NoneMissed, Announced
        <4>2. CASE i \in NamedIn(Tail(r2p[c]), h)
          BY <1>1, <3>1, <4>2 DEF Announced
        <4>3. CASE l = OwnerLine(i, h)
          <5>1. l.tag = "owner" /\ l.handle = h /\ l.item = i
            BY <4>3 DEF OwnerLine
          <5>2. handle[c] # None
            BY <3>1, <5>1 DEF OInv, HLineFirst
          <5>3. handle[c] = h
            BY <5>2 DEF IInv, OwnHandle
          <5>4. QED
            BY <1>2, <5>1, <5>2, <5>3 DEF TrackOwned
        <4>4. QED
          BY <1>0, <4>1, <4>2, <4>3, NamedTail
      <3>3. QED
        BY <1>7, <3>2
    <2>2. QED
      BY <1>2, <1>4, <1>5, <2>1 DEF OInv, NoneMissed
  <1>14. QED
    BY <1>9, <1>10, <1>11, <1>12, <1>13 DEF OInv

(* Lines cut off or discarded: only a session that tracks no more loses.   *)
LEMMA OwnCut ==
    ASSUME IInv, OInv, NEW c \in Conns, NEW q,
           r2p' = [r2p EXCEPT ![c] = q],
           \A h : NamedIn(q, h) \subseteq NamedIn(r2p[c], h),
           UNCHANGED <<handle, owned, toRemove, radioHandle, granted, p2r>>,
           \A d \in Conns : /\ Tracking(d)' => Tracking(d) /\ d # c
                            /\ phase'[d] = "loop" => /\ phase[d] = "loop"
                                                     /\ link'[d] = link[d]
                            /\ link'[d] = "dropped" => link[d] = "dropped"
    PROVE  OInv'
  <1>1. \A d \in Conns : EverOwned(d)' = EverOwned(d)
    BY DEF EverOwned
  <1>2. \A d \in Conns : d # c => r2p'[d] = r2p[d]
    BY DEF IInv, TypeOK
  <1>3. \A d \in Conns : d # c => Announced(d)' = Announced(d)
    BY <1>2 DEF Announced
  <1>4. Announced(c)' \subseteq Announced(c)
    <2>1. r2p'[c] = q
      BY DEF IInv, TypeOK
    <2>2. QED
      BY <2>1 DEF Announced
  <1>5. GrantsGiven'
    BY DEF OInv, GrantsGiven
  <1>6. HLineFirst'
    BY <1>2 DEF OInv, HLineFirst
  <1>7. DroppedDry'
    BY DEF OInv, DroppedDry
  <1>8. OnlyOwn'
    BY <1>1, <1>3, <1>4 DEF OInv, OnlyOwn
  <1>9. NoneMissed'
    BY <1>1, <1>3 DEF OInv, NoneMissed
  <1>10. QED
    BY <1>5, <1>6, <1>7, <1>8, <1>9 DEF OInv

(* A grant reaches every session that tracks, and names its own only.      *)
LEMMA GrantOwn ==
    ASSUME IInv, OInv, NEW i \in Items, NEW h \in Handles \cup {Direct},
           Own(i, h), h # Direct => \E d \in Conns : radioHandle[d] = h,
           \A d \in Conns :
              radioHandle[d] = h /\ phase[d] = "loop" => link[d] = "up",
           UNCHANGED <<proxyVars, link, radioHandle>>,
           \A d \in Conns : p2r[d] = <<>> => p2r'[d] = <<>>
    PROVE  OInv'
  <1>1. /\ phase' = phase /\ handle' = handle /\ owned' = owned
        /\ toRemove' = toRemove /\ deadline' = deadline
        /\ granted' = granted \cup {<<h, i>>}
        /\ \A d \in Conns :
              r2p'[d] = IF phase[d] = "loop" /\ link[d] = "up" /\ ~deadline[d]
                        THEN Append(r2p[d], OwnerLine(i, h)) ELSE r2p[d]
    BY DEF proxyVars, Own, Announce
  <1>2. \A d \in Conns : r2p[d] \in Seq(Line)
    BY DEF IInv, TypeOK
  <1>3. \A d \in Conns :
           /\ radioHandle[d] = h => EverOwned(d)' = EverOwned(d) \cup {i}
           /\ radioHandle[d] # h => EverOwned(d)' = EverOwned(d)
    BY <1>1 DEF EverOwned
  <1>4. OwnerLine(i, h) \in Line
    BY MessageTypes
  <1>5. ASSUME NEW d \in Conns
        PROVE  /\ Announced(d) \subseteq Announced(d)'
               /\ Announced(d)' \subseteq Announced(d) \cup {i}
               /\ radioHandle[d] # h => Announced(d)' = Announced(d)
               /\ radioHandle[d] = h /\ Tracking(d) => i \in Announced(d)'
    <2>1. CASE phase[d] = "loop" /\ link[d] = "up" /\ ~deadline[d]
      <3>1. r2p'[d] = Append(r2p[d], OwnerLine(i, h))
        BY <1>1, <2>1
      <3>2. /\ h = radioHandle[d] => Announced(d)' = Announced(d) \cup {i}
            /\ h # radioHandle[d] => Announced(d)' = Announced(d)
        BY <1>2, <1>4, <3>1, NamedAppend DEF Announced
      <3>3. QED
        BY <3>2
    <2>2. CASE ~(phase[d] = "loop" /\ link[d] = "up" /\ ~deadline[d])
      <3>1. r2p'[d] = r2p[d]
        BY <1>1, <2>2
      <3>2. Announced(d)' = Announced(d)
        BY <3>1 DEF Announced
      <3>3. ~(radioHandle[d] = h /\ Tracking(d))
        BY <2>2 DEF Tracking
      <3>4. QED
        BY <3>2, <3>3
    <2>3. QED
      BY <2>1, <2>2
  <1>6. GrantsGiven'
    BY <1>1, NamesAssumption DEF OInv, GrantsGiven
  <1>7. HLineFirst'
    <2>1. ASSUME NEW d \in Conns, Tracking(d), handle[d] = None
          PROVE  r2p'[d] # <<>> /\ r2p'[d][1].tag = "H"
      <3>1. r2p[d] # <<>> /\ r2p[d][1].tag = "H"
        BY <2>1 DEF OInv, HLineFirst
      <3>2. Len(r2p[d]) \in Nat \ {0}
        BY <1>2, <3>1, EmptySeq, LenProperties
      <3>3. LET a == Append(r2p[d], OwnerLine(i, h))
            IN  a # <<>> /\ a[1] = r2p[d][1]
        BY <1>2, <1>4, <3>2, AppendProperties
      <3>4. QED
        BY <1>1, <3>1, <3>3
    <2>2. QED
      BY <1>1, <2>1 DEF HLineFirst, Tracking
  <1>8. DroppedDry'
    BY <1>1 DEF OInv, DroppedDry
  <1>9. OnlyOwn'
    <2>1. ASSUME NEW d \in Conns
          PROVE  owned[d] \cup toRemove[d] \cup Announced(d)' \subseteq EverOwned(d)'
      <3>1. owned[d] \cup toRemove[d] \cup Announced(d) \subseteq EverOwned(d)
        BY DEF OInv, OnlyOwn
      <3>2. QED
        BY <3>1, <1>3, <1>5
    <2>2. QED
      BY <1>1, <2>1 DEF OnlyOwn
  <1>10. NoneMissed'
    <2>1. ASSUME NEW d \in Conns, Tracking(d)
          PROVE  EverOwned(d)' \subseteq owned[d] \cup Announced(d)'
      <3>1. EverOwned(d) \subseteq owned[d] \cup Announced(d)
        BY <2>1 DEF OInv, NoneMissed
      <3>2. QED
        BY <2>1, <3>1, <1>3, <1>5
    <2>2. QED
      BY <1>1, <2>1 DEF NoneMissed, Tracking
  <1>11. QED
    BY <1>6, <1>7, <1>8, <1>9, <1>10 DEF OInv

LEMMA RadioExecOwn ==
    ASSUME IInv, OInv, NEW c \in Conns, RadioExec(c)
    PROVE  OInv'
  <1>1. radioHandle[c] \in Handles
    BY DEF IInv, Greeted, RadioExec
  <1>2. UNCHANGED <<proxyVars, link, radioHandle>>
    BY DEF RadioExec
  <1>3. \A d \in Conns : p2r[d] = <<>> => p2r'[d] = <<>>
    <2>1. \A d \in Conns : d # c => p2r'[d] = p2r[d]
      BY DEF RadioExec, IInv, TypeOK
    <2>2. p2r[c] # <<>>
      BY DEF RadioExec
    <2>3. QED
      BY <2>1, <2>2
  <1>4. CASE \E i \in Items : Own(i, radioHandle[c])
    <2>1. \A d \in Conns : radioHandle[d] = radioHandle[c] => d = c
      BY <1>1, NamesAssumption DEF IInv, OwnHandle
    <2>2. phase[c] = "loop" => link[c] = "up"
      BY DEF OInv, DroppedDry, RadioExec
    <2>3. QED
      BY <1>1, <1>2, <1>3, <1>4, <2>1, <2>2, GrantOwn
  <1>5. CASE UNCHANGED <<granted, r2p>>
    <2>1. UNCHANGED <<handle, owned, toRemove, r2p, radioHandle, granted,
                      phase, deadline, link>>
      BY <1>2, <1>5 DEF proxyVars
    <2>2. \A d \in Conns : /\ phase[d] = "loop" => link[d] \in {"up", "dropped"}
                           /\ link[d] = "dropped" => p2r[d] = <<>>
      BY DEF OInv, DroppedDry
    <2>3. QED
      BY <1>3, <2>1, <2>2, OwnFrame
  <1>6. QED
    BY <1>4, <1>5 DEF RadioExec

LEMMA DirectCreateOwn ==
    ASSUME IInv, OInv, NEW i \in Items, DirectCreate(i)
    PROVE  OInv'
  <1>1. Own(i, Direct) /\ UNCHANGED <<proxyVars, link, p2r, radioHandle>>
    BY DEF DirectCreate
  <1>2. \A d \in Conns : radioHandle[d] # Direct
    BY NamesAssumption DEF IInv, TypeOK
  <1>3. QED
    BY <1>1, <1>2, GrantOwn

LEMMA ReaderOwn ==
    ASSUME IInv, OInv, NEW c \in Conns, Reader(c)
    PROVE  OInv'
  <1>1. CASE ForwardLine(c)
    <2>1. \A d \in Conns : link[d] = "dropped" => p2r'[d] = <<>>
      BY <1>1 DEF ForwardLine, OInv, DroppedDry, IInv, TypeOK
    <2>2. \A d \in Conns : phase[d] = "loop" => link[d] \in {"up", "dropped"}
      BY DEF OInv, DroppedDry
    <2>3. UNCHANGED <<handle, owned, toRemove, r2p, radioHandle, granted,
                      phase, deadline, link>>
      BY <1>1 DEF ForwardLine, radioVars
    <2>4. QED
      BY <2>1, <2>2, <2>3, OwnFrame
  <1>2. CASE ReaderEOF(c)
    <2>1. PICK n \in 0..Len(r2p[c]) : r2p' = [r2p EXCEPT ![c] = SubSeq(@, 1, n)]
      BY <1>2 DEF ReaderEOF
    <2>2. r2p[c] \in Seq(Line)
      BY DEF IInv, TypeOK
    <2>3. \A h : NamedIn(SubSeq(r2p[c], 1, n), h) \subseteq NamedIn(r2p[c], h)
      BY <2>2, NamedPrefix
    <2>4. /\ UNCHANGED <<handle, owned, toRemove, radioHandle, granted, p2r>>
          /\ phase' = phase /\ link' = link
          /\ deadline' = [deadline EXCEPT ![c] = TRUE]
      BY <1>2 DEF ReaderEOF, radioVars
    <2>5. \A d \in Conns : Tracking(d)' => Tracking(d) /\ d # c
      BY <2>4 DEF Tracking, IInv, TypeOK
    <2>6. QED
      BY <2>1, <2>3, <2>4, <2>5, OwnCut
  <1>3. QED
    BY <1>1, <1>2 DEF Reader

LEMMA MainOwn ==
    ASSUME IInv, OInv, NEW c \in Conns, Main(c)
    PROVE  OInv'
  <1>1. ASSUME NEW h \in Handles, DialOk(c, h) PROVE OInv'
    BY <1>1, DialOkOwn
  <1>2. CASE ReadLine(c)
    BY <1>2, ReadLineOwn
  <1>3. CASE CloseRadio(c)
    <2>1. /\ phase' = [phase EXCEPT ![c] = "closeClient"]
          /\ link' = [link EXCEPT ![c] = "closed"]
          /\ r2p' = [r2p EXCEPT ![c] = <<>>]
          /\ UNCHANGED <<handle, owned, toRemove, radioHandle, granted, p2r,
                         deadline>>
      BY <1>3 DEF CloseRadio, radioVars
    <2>2. \A h : NamedIn(<<>>, h) \subseteq NamedIn(r2p[c], h)
      BY NamedNone
    <2>3. \A d \in Conns : /\ d # c => /\ phase'[d] = phase[d]
                                       /\ link'[d] = link[d]
                           /\ phase'[c] = "closeClient" /\ link'[c] = "closed"
      BY <2>1 DEF IInv, TypeOK
    <2>4. \A d \in Conns : Tracking(d)' => Tracking(d) /\ d # c
      BY <2>1, <2>3 DEF Tracking
    <2>5. QED
      BY <2>1, <2>2, <2>3, <2>4, OwnCut
  <1>4. ASSUME UNCHANGED <<handle, owned, r2p, radioHandle, granted, deadline,
                           link>>,
               NEW p \in Phase \ {"loop"}, phase' = [phase EXCEPT ![c] = p],
               \/ toRemove' = toRemove
               \/ toRemove' = [toRemove EXCEPT ![c] = owned[c]],
               p2r' = p2r
        PROVE  OInv'
    <2>1. \A d \in Conns : /\ phase'[d] = "loop" => phase[d] = "loop"
                           /\ toRemove'[d] \subseteq owned[d] \cup toRemove[d]
      <3>1. \A d \in Conns : phase'[d] = "loop" => phase[d] = "loop"
        BY <1>4 DEF IInv, TypeOK
      <3>2. \A d \in Conns : toRemove'[d] \subseteq owned[d] \cup toRemove[d]
        <4>1. CASE toRemove' = toRemove
          BY <4>1
        <4>2. CASE toRemove' = [toRemove EXCEPT ![c] = owned[c]]
          BY <4>2 DEF IInv, TypeOK
        <4>3. QED
          BY <1>4, <4>1, <4>2
      <3>3. QED
        BY <3>1, <3>2
    <2>2. \A d \in Conns : /\ phase[d] = "loop" => link[d] \in {"up", "dropped"}
                           /\ link[d] = "dropped" => p2r[d] = <<>>
      BY DEF OInv, DroppedDry
    <2>3. QED
      BY <1>4, <2>1, <2>2, OwnFrame
  <1>5. CASE DialFails(c) \/ ReadEOF(c) \/ Unregister(c) \/ CheckOthers(c)
             \/ RemovesWritten(c) \/ CloseClient(c)
    <2>1. UNCHANGED <<handle, owned, r2p, radioHandle, granted, deadline, link,
                      p2r>>
      BY <1>5 DEF DialFails, ReadEOF, Unregister, CheckOthers, RemovesWritten,
                  CloseClient, sockVars, radioVars
    <2>2. \/ toRemove' = toRemove
          \/ toRemove' = [toRemove EXCEPT ![c] = owned[c]]
      BY <1>5 DEF DialFails, ReadEOF, Unregister, CheckOthers, RemovesWritten,
                  CloseClient
    <2>3. \E p \in Phase \ {"loop"} : phase' = [phase EXCEPT ![c] = p]
      BY <1>5 DEF DialFails, ReadEOF, Unregister, CheckOthers, RemovesWritten,
                  CloseClient, Phase
    <2>4. QED
      BY <1>4, <2>1, <2>2, <2>3
  <1>6. ASSUME NEW i \in Items, RemoveOwned(c, i) PROVE OInv'
    <2>1. UNCHANGED <<handle, owned, r2p, radioHandle, granted, deadline, link,
                      phase>>
      BY <1>6 DEF RemoveOwned, radioVars
    <2>2. \A d \in Conns : toRemove'[d] \subseteq toRemove[d]
      BY <1>6 DEF RemoveOwned, IInv, TypeOK
    <2>3. \A d \in Conns : link[d] = "dropped" => p2r'[d] = <<>>
      BY <1>6 DEF RemoveOwned, OInv, DroppedDry, IInv, TypeOK
    <2>4. \A d \in Conns : phase[d] = "loop" => link[d] \in {"up", "dropped"}
      BY DEF OInv, DroppedDry
    <2>5. QED
      BY <2>1, <2>2, <2>3, <2>4, OwnFrame
  <1>7. QED
    BY <1>1, <1>2, <1>3, <1>5, <1>6 DEF Main

LEMMA EnvironmentOwn ==
    ASSUME IInv, OInv, Environment
    PROVE  OInv'
  <1>1. \A d \in Conns : /\ phase[d] = "loop" => link[d] \in {"up", "dropped"}
                         /\ link[d] = "dropped" => p2r[d] = <<>>
    BY DEF OInv, DroppedDry
  <1>2. ASSUME NEW c \in Conns, Accept(c) PROVE OInv'
    <2>1. UNCHANGED <<handle, owned, toRemove, r2p, radioHandle, granted,
                      deadline, link, p2r>>
      BY <1>2 DEF Accept, radioVars
    <2>2. \A d \in Conns : phase'[d] = "loop" => phase[d] = "loop"
      BY <1>2 DEF Accept, IInv, TypeOK
    <2>3. QED
      BY <1>1, <2>1, <2>2, OwnFrame
  <1>3. ASSUME NEW c \in Conns,
               ClientClose(c) \/ \E cmd \in Command : ClientSend(c, cmd)
        PROVE  OInv'
    <2>1. UNCHANGED <<phase, handle, owned, toRemove, r2p, radioHandle,
                      granted, deadline, link, p2r>>
      BY <1>3 DEF ClientClose, ClientSend, proxyVars, radioVars
    <2>2. QED
      BY <1>1, <2>1, OwnFrame
  <1>4. ASSUME NEW c \in Conns, RadioExec(c) PROVE OInv'
    BY <1>4, RadioExecOwn
  <1>5. ASSUME NEW c \in Conns, RadioDrop(c) PROVE OInv'
    <2>1. /\ UNCHANGED <<phase, handle, owned, toRemove, r2p, radioHandle,
                         granted, deadline>>
          /\ link' = [link EXCEPT ![c] = "dropped"]
          /\ p2r' = [p2r EXCEPT ![c] = <<>>]
      BY <1>5 DEF RadioDrop, proxyVars, radioVars
    <2>2. \A d \in Conns : /\ phase[d] = "loop" => link'[d] \in {"up", "dropped"}
                           /\ link'[d] = "dropped" => p2r'[d] = <<>>
      BY <1>1, <2>1 DEF IInv, TypeOK
    <2>3. QED
      BY <2>1, <2>2, OwnFrame
  <1>6. ASSUME NEW i \in Items, DirectCreate(i) PROVE OInv'
    BY <1>6, DirectCreateOwn
  <1>7. ASSUME NEW i \in Items, DirectRemove(i) PROVE OInv'
    <2>1. UNCHANGED <<phase, handle, owned, toRemove, r2p, radioHandle,
                      granted, deadline, link, p2r>>
      BY <1>7 DEF DirectRemove, proxyVars, sockVars
    <2>2. QED
      BY <1>1, <2>1, OwnFrame
  <1>8. QED
    BY <1>2, <1>3, <1>4, <1>5, <1>6, <1>7 DEF Environment

LEMMA InitOInv == Init => OInv
  <1> SUFFICES ASSUME Init PROVE OInv
    OBVIOUS
  <1>1. \A c \in Conns : Announced(c) = {} /\ ~Tracking(c)
    BY NamedNone DEF Init, Announced, Tracking
  <1>2. GrantsGiven
    BY DEF Init, GrantsGiven
  <1>3. HLineFirst /\ NoneMissed
    BY <1>1 DEF HLineFirst, NoneMissed
  <1>4. DroppedDry
    BY DEF Init, DroppedDry
  <1>5. OnlyOwn
    BY <1>1 DEF Init, OnlyOwn
  <1>6. QED
    BY <1>2, <1>3, <1>4, <1>5 DEF OInv

LEMMA StepOInv == IInv /\ OInv /\ [Next]_vars => OInv'
  <1> SUFFICES ASSUME IInv, OInv, [Next]_vars PROVE OInv'
    OBVIOUS
  <1>1. CASE UNCHANGED vars
    <2>1. UNCHANGED <<phase, handle, owned, toRemove, r2p, radioHandle,
                      granted, deadline, link, p2r>>
      BY <1>1 DEF vars, proxyVars, sockVars, radioVars
    <2>2. \A d \in Conns : /\ phase[d] = "loop" => link[d] \in {"up", "dropped"}
                           /\ link[d] = "dropped" => p2r[d] = <<>>
      BY DEF OInv, DroppedDry
    <2>3. QED
      BY <2>1, <2>2, OwnFrame
  <1>2. QED
    BY <1>1, ReaderOwn, MainOwn, EnvironmentOwn DEF Next

(* In every behaviour a running session's owned pans and slices are all    *)
(* those the radio ever granted to its handle, but for the lines still on  *)
(* the wire, those it gave up since included, and its cleanup removes      *)
(* nothing that was not at some time its own (proxy.go:664-676, 485-540).  *)
THEOREM OwnershipTracked == Spec => []OwnedTracksGrants
  <1>1. OInv => OwnedTracksGrants
    <2>1. ASSUME OInv, NEW c \in Conns
          PROVE  /\ Tracking(c) => EverOwned(c) = owned[c] \cup Announced(c)
                 /\ toRemove[c] \subseteq EverOwned(c)
      BY <2>1 DEF OInv, OnlyOwn, NoneMissed
    <2>2. QED
      BY <2>1 DEF OwnedTracksGrants, EverOwned, Announced, NamedIn, Tracking
  <1>2. QED
    BY <1>1, InitOInv, StepOInv, SpecIInv, PTL DEF Spec
=============================================================================
