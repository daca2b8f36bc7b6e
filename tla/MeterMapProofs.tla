--------------------------- MODULE MeterMapProofs ---------------------------
(***************************************************************************)
(* What holds of MeterMap for every set of meters and levels, any number   *)
(* of rounds and any bound on the traffic.                                 *)
(***************************************************************************)
EXTENDS MeterMap, SequenceTheorems, TLAPS

(* The three ways meterUpdate edits the maps keep their types.             *)
LEMMA MeterUpdateType ==
    ASSUME TypeOK, NEW u \in Update, MeterUpdate(u)
    PROVE  /\ flexToHamlib' \in [Meter -> Level \cup {None}]
           /\ hamlibToFlex' \in [Level -> Meter \cup {None}]
           /\ meterVal' \in [Meter -> Kind \cup {Zero}]
<1>1. CASE Remove(u.meter) BY <1>1 DEF TypeOK, Update, Remove, maps, Kind
<1>2. CASE u.kind \in Level /\ Map(u.meter, u.kind)
    BY <1>2 DEF TypeOK, Update, Map
<1>3. CASE UNCHANGED maps BY <1>3 DEF TypeOK, maps
<1> QED BY <1>1, <1>2, <1>3 DEF MeterUpdate

LEMMA MeterPacketType ==
    ASSUME TypeOK, NEW p \in Packet, MeterPacket(p)
    PROVE  /\ flexToHamlib' \in [Meter -> Level \cup {None}]
           /\ hamlibToFlex' \in [Level -> Meter \cup {None}]
           /\ meterVal' \in [Meter -> Kind \cup {Zero}]
BY DEF TypeOK, MeterPacket, Packet, Kind, Written

LEMMA ResetType ==
    ASSUME Reset
    PROVE  /\ flexToHamlib' \in [Meter -> Level \cup {None}]
           /\ hamlibToFlex' \in [Level -> Meter \cup {None}]
           /\ meterVal' \in [Meter -> Kind \cup {Zero}]
BY DEF Reset, Kind

(* What ApplyUpdate says of everything but its history.                    *)
LEMMA ApplyUpdateFacts ==
    ASSUME NEW r \in Round, ApplyUpdate(r)
    PROVE  /\ handler[r] = "update" /\ MeterUpdate(held[r])
           /\ late' = IF r < round \/ phase = "idle" THEN late \cup {r} ELSE late
           /\ phase' = phase
<1>1. main' = main BY Zenon DEF ApplyUpdate
<1>2. phase' = phase BY <1>1 DEF main
<1> QED BY <1>2, Zenon DEF ApplyUpdate

(* The types are kept by every step.                                       *)
LEMMA TypeStep == TypeOK /\ [Next]_vars => TypeOK'
<1> SUFFICES ASSUME TypeOK, [Next]_vars PROVE TypeOK' OBVIOUS
<1> USE MeterAssumption DEF Round
<1>1. CASE StartRound
  <2>1. round + 1 \in Round /\ round' \in 0..MaxRounds
    BY <1>1 DEF StartRound, TypeOK
  <2>2. CASE metering
    BY <1>1, <2>1, <2>2, ResetType DEF StartRound, TypeOK, ClearHistory, Kind
  <2>3. CASE ~metering
    BY <1>1, <2>1, <2>3 DEF StartRound, TypeOK, maps, history, Kind
  <2> QED BY <2>2, <2>3
<1>2. CASE RoundCancelled
  BY <1>2 DEF RoundCancelled, TypeOK, maps, radio, history
<1>3. CASE CloseClient
  BY <1>3 DEF CloseClient, TypeOK, maps, radio, history
<1>4. CASE EndRound
  BY <1>4, ResetType DEF EndRound, TypeOK, ClearHistory, radio
<1>5. CASE SetMetering
  BY <1>5 DEF SetMetering, TypeOK, maps, radio, history
<1>6. ASSUME NEW r \in Round, TakeUpdate(r) PROVE TypeOK'
  <2>1. Head(events) \in Update /\ Tail(events) \in Seq(Update)
    BY <1>6, HeadTailProperties DEF TakeUpdate, TypeOK
  <2> QED BY <1>6, <2>1 DEF TakeUpdate, TypeOK, maps, main, radio, history
<1>7. ASSUME NEW r \in Round, TakePacket(r) PROVE TypeOK'
  <2>1. packets[r] \in Seq(Packet) /\ packets[r] # <<>>
    BY <1>7 DEF TakePacket, TypeOK
  <2>2. Head(packets[r]) \in Packet /\ Tail(packets[r]) \in Seq(Packet)
    BY <2>1, HeadTailProperties
  <2> QED BY <1>7, <2>2 DEF TakePacket, TypeOK, maps, main, radio, history
<1>8. ASSUME NEW r \in Round, ApplyUpdate(r) PROVE TypeOK'
  <2>a. handler[r] = "update" BY <1>8, ApplyUpdateFacts, Zenon
  <2>b. held[r] \in Update BY <2>a DEF TypeOK
  <2>c. MeterUpdate(held[r]) BY <1>8, ApplyUpdateFacts, Zenon
  <2>1. held[r] \in Update /\ MeterUpdate(held[r]) BY <2>b, <2>c
  <2>2. crossed' \subseteq Meter /\ displaced' \subseteq Meter /\ late' \subseteq Round
    BY <1>8, <2>1 DEF ApplyUpdate, TypeOK, Update
  <2> QED BY <1>8, <2>1, <2>2, MeterUpdateType DEF ApplyUpdate, TypeOK, main, radio
<1>9. ASSUME NEW r \in Round, ApplyPacket(r) PROVE TypeOK'
  <2>a. held[r] \in Packet
    <3>1. handler[r] = "packet" BY <1>9, Zenon DEF ApplyPacket
    <3> QED BY <3>1 DEF TypeOK
  <2>b. MeterPacket(held[r])
    BY <1>9, Zenon DEF ApplyPacket
  <2>1. held[r] \in Packet /\ MeterPacket(held[r])
    BY <2>a, <2>b
  <2>2. crossed' \subseteq Meter /\ displaced' \subseteq Meter
    BY <1>9 DEF ApplyPacket, TypeOK, Written
  <2> QED BY <1>9, <2>1, <2>2, MeterPacketType DEF ApplyPacket, TypeOK, main, radio
<1>10. ASSUME NEW r \in Round, HandlerDone(r) PROVE TypeOK'
  <2>1. <<>> \in Seq(Packet) BY EmptySeq
  <2> QED BY <1>10, <2>1 DEF HandlerDone, TypeOK, maps, main, radio, history
<1>11. ASSUME NEW m \in Meter, NEW k \in Kind, Announce(m, k) PROVE TypeOK'
  <2>1. [meter |-> m, kind |-> k] \in Update BY DEF Update
  <2>2. events' \in Seq(Update)
    BY <1>11, <2>1, AppendProperties DEF Announce, TypeOK
  <2> QED BY <1>11, <2>2 DEF Announce, TypeOK, maps, main, history
<1>12. ASSUME NEW ms \in SUBSET Meter, Transmit(ms) PROVE TypeOK'
  <2> DEFINE p == [m \in Meter |-> IF m \in ms THEN measures[m] ELSE None]
  <2>1. p \in Packet BY DEF TypeOK, Packet, Kind
  <2>2. round \in Round BY <1>12 DEF Transmit, Subscribed, TypeOK
  <2>3. Append(packets[round], p) \in Seq(Packet)
    BY <2>1, <2>2, AppendProperties DEF TypeOK
  <2>4. packets' = [packets EXCEPT ![round] = Append(@, p)] BY <1>12 DEF Transmit
  <2> HIDE DEF p
  <2> QED BY <1>12, <2>2, <2>3, <2>4 DEF Transmit, TypeOK, maps, main, history
<1>13. CASE UNCHANGED vars
  BY <1>13 DEF vars, TypeOK, maps, main, radio, history
<1> QED
  BY <1>1, <1>2, <1>3, <1>4, <1>5, <1>6, <1>7, <1>8, <1>9, <1>10, <1>11, <1>12, <1>13
  DEF Next, HandleMeters

(* The state always has its types, whatever the constants.                 *)
THEOREM TypeCorrect == Spec => []TypeOK
<1>1. Init => TypeOK
  BY MeterAssumption, EmptySeq DEF Init, TypeOK, Round, Kind
<1> QED BY <1>1, TypeStep, PTL DEF Spec

(* A level's reverse entry follows its meter through every edit: a meter   *)
(* that takes a level over is first made its only one.                     *)
LEMMA MeterUpdateAgrees ==
    ASSUME TypeOK, MapsAgree, NEW u \in Update, MeterUpdate(u)
    PROVE  MapsAgree'
<1> USE MeterAssumption
<1>1. CASE Remove(u.meter)
    BY <1>1 DEF TypeOK, MapsAgree, Update, Remove, maps
<1>2. CASE u.kind \in Level /\ Map(u.meter, u.kind)
    BY <1>2 DEF TypeOK, MapsAgree, Update, Map
<1>3. CASE UNCHANGED maps BY <1>3 DEF MapsAgree, maps
<1> QED BY <1>1, <1>2, <1>3 DEF MeterUpdate

LEMMA AgreeStep == TypeOK /\ MapsAgree /\ [Next]_vars => MapsAgree'
<1> SUFFICES ASSUME TypeOK, MapsAgree, [Next]_vars PROVE MapsAgree' OBVIOUS
<1>1. CASE Reset BY <1>1 DEF Reset, MapsAgree
<1>2. CASE UNCHANGED <<flexToHamlib, hamlibToFlex>>
  BY <1>2 DEF MapsAgree
<1>3. ASSUME NEW r \in Round, ApplyUpdate(r) PROVE MapsAgree'
  <2>1. handler[r] = "update" BY <1>3, ApplyUpdateFacts, Zenon
  <2>2. held[r] \in Update BY <2>1 DEF TypeOK
  <2>3. MeterUpdate(held[r]) BY <1>3, ApplyUpdateFacts, Zenon
  <2> QED BY <2>2, <2>3, MeterUpdateAgrees
<1>4. ASSUME NEW r \in Round, HandleMeters(r), ~ApplyUpdate(r)
      PROVE  UNCHANGED <<flexToHamlib, hamlibToFlex>>
  BY <1>4 DEF HandleMeters, TakeUpdate, TakePacket, ApplyPacket, MeterPacket,
              HandlerDone, maps
<1>5. CASE StartRound \/ RoundCancelled \/ CloseClient \/ EndRound \/ SetMetering
  BY <1>1, <1>2, <1>5
  DEF StartRound, RoundCancelled, CloseClient, EndRound, SetMetering, maps
<1>6. CASE (\E m \in Meter, k \in Kind : Announce(m, k))
           \/ (\E ms \in SUBSET Meter : Transmit(ms)) \/ UNCHANGED vars
  BY <1>2, <1>6 DEF Announce, Transmit, vars, maps
<1> QED BY <1>2, <1>3, <1>4, <1>5, <1>6 DEF Next

(* Two meters never feed one level, and a level's meter is the one mapped  *)
(* to it, through every announcement, removal, displacement and reset.     *)
THEOREM MapsAlwaysAgree == Spec => []MapsAgree
<1>1. Init => MapsAgree BY DEF Init, MapsAgree
<1>2. Spec => []TypeOK BY TypeCorrect
<1> QED BY <1>1, <1>2, AgreeStep, PTL DEF Spec

-----------------------------------------------------------------------------
(* While no round is up the maps are empty, unless a handler of a finished *)
(* round applied an update after the reset.                                *)
IdleIsEmpty ==
    phase = "idle" /\ late = {} =>
        /\ flexToHamlib = [m \in Meter |-> None]
        /\ hamlibToFlex = [l \in Level |-> None]

LEMMA IdleStep == TypeOK /\ IdleIsEmpty /\ [Next]_vars => IdleIsEmpty'
<1> SUFFICES ASSUME TypeOK, IdleIsEmpty, [Next]_vars,
                    phase' = "idle", late' = {}
             PROVE  /\ flexToHamlib' = [m \in Meter |-> None]
                    /\ hamlibToFlex' = [l \in Level |-> None]
  BY DEF IdleIsEmpty
<1>1. CASE EndRound BY <1>1 DEF EndRound, Reset
<1>2. CASE UNCHANGED <<flexToHamlib, hamlibToFlex, phase, late>>
  BY <1>2 DEF IdleIsEmpty
<1>3. ASSUME NEW r \in Round, ApplyUpdate(r) PROVE FALSE
  <2>1. UNCHANGED phase /\ late' = (IF r < round \/ phase = "idle" THEN late \cup {r} ELSE late)
    BY <1>3, ApplyUpdateFacts, Zenon
  <2> QED BY <2>1
<1>4. ASSUME NEW r \in Round, HandleMeters(r), ~ApplyUpdate(r)
      PROVE  UNCHANGED <<flexToHamlib, hamlibToFlex, phase, late>>
  BY <1>4 DEF HandleMeters, TakeUpdate, TakePacket, ApplyPacket, MeterPacket,
              HandlerDone, maps, main, history
<1>5. CASE StartRound \/ RoundCancelled \/ CloseClient
  BY <1>5 DEF StartRound, RoundCancelled, CloseClient
<1>6. CASE \/ SetMetering \/ UNCHANGED vars
           \/ (\E m \in Meter, k \in Kind : Announce(m, k))
           \/ (\E ms \in SUBSET Meter : Transmit(ms))
  BY <1>2, <1>6 DEF SetMetering, Announce, Transmit, vars, maps, main, history
<1> QED BY <1>1, <1>2, <1>3, <1>4, <1>5, <1>6 DEF Next

(* Between two rounds neither reader gives a level of the old radio.       *)
THEOREM NothingLeftBetweenRounds == Spec => []NothingBetweenRounds
<1>1. Init => IdleIsEmpty BY DEF Init, IdleIsEmpty
<1>2. IdleIsEmpty => NothingBetweenRounds
  <2> SUFFICES ASSUME hamlibToFlex = [l \in Level |-> None]
               PROVE  /\ Page = {}
                      /\ \A l \in Level \cup {Alias} : GetLevel(l) = "Error"
    BY DEF IdleIsEmpty, NothingBetweenRounds
  <2>1. Page = {} BY DEF Page
  <2>2. ASSUME NEW l \in Level \cup {Alias} PROVE GetLevel(l) = "Error"
    <3>1. Source(l) \in Level BY MeterAssumption DEF Source
    <3> QED BY <3>1 DEF GetLevel
  <2> QED BY <2>1, <2>2
<1>3. Spec => []TypeOK BY TypeCorrect
<1> QED BY <1>1, <1>2, <1>3, IdleStep, PTL DEF Spec

-----------------------------------------------------------------------------
(* MapFollowsRadio: the updates on their way from the radio to the maps.   *)

(* The announcements not yet applied, by position: 0 is the one the        *)
(* round's handler holds, 1 and on are those on the way to it.             *)
Pending == 1..Len(events) \cup (IF handler[round] = "update" THEN {0} ELSE {})
Queue == [k \in Pending |-> IF k = 0 THEN held[round] ELSE events[k]]

Removes(u, m) == u.meter = m /\ u.kind = None

(* Two kinds of one meter are separated by its removal: between a map and  *)
(* an update, between two updates, and between either and what the radio   *)
(* measures now.  D are positions, U the updates there, f the forward map, *)
(* g what the meters measure.                                              *)
FirstFits(D, U, f) ==
    \A j \in D : \/ U[j].kind = None
                 \/ f[U[j].meter] \in {None, U[j].kind}
                 \/ \E k \in D : k < j /\ Removes(U[k], U[j].meter)
Alternate(D, U) ==
    \A i, j \in D : i < j /\ U[i].meter = U[j].meter =>
                 \/ None \in {U[i].kind, U[j].kind}
                 \/ U[i].kind = U[j].kind
                 \/ \E k \in D : i < k /\ k < j /\ Removes(U[k], U[j].meter)
LastSays(D, U, g) ==
    \A j \in D : \/ U[j].kind \in {None, g[U[j].meter]}
                 \/ \E k \in D : j < k /\ Removes(U[k], U[j].meter)
MapSays(D, U, f, g) ==
    \A m \in Meter : \/ f[m] \in {None, g[m]}
                     \/ \E k \in D : Removes(U[k], m)
Orderly(D, U, f, g) ==
    FirstFits(D, U, f) /\ Alternate(D, U) /\ LastSays(D, U, g) /\ MapSays(D, U, f, g)

(* Positions one apart keep their order.                                  *)
LEMMA OneApart ==
    ASSUME NEW i \in Int, NEW k \in Int
    PROVE  /\ i + 1 < k <=> i < k - 1
           /\ k < i + 1 <=> k - 1 < i
OBVIOUS

(* Renumbering the positions, as when the handler takes the next update.   *)
LEMMA OrderlyShift ==
    ASSUME NEW D \in SUBSET Int, NEW E \in SUBSET Int, NEW U, NEW V, NEW f, NEW g,
           \A k \in D : k - 1 \in E, \A k \in E : k + 1 \in D,
           \A k \in E : V[k] = U[k + 1], Orderly(D, U, f, g)
    PROVE  Orderly(E, V, f, g)
<1>0. (\A k \in D : k \in Int) /\ (\A k \in E : k \in Int) OBVIOUS
<1>1. \A j \in D : U[j] = V[j - 1]
  <2> TAKE j \in D
  <2>1. j - 1 \in E /\ (j - 1) + 1 = j BY <1>0
  <2> QED BY <2>1
<1>2. FirstFits(E, V, f)
  <2> SUFFICES ASSUME NEW j \in E, V[j].kind # None,
                      f[V[j].meter] \notin {None, V[j].kind}
               PROVE  \E k \in E : k < j /\ Removes(V[k], V[j].meter)
    BY DEF FirstFits
  <2>1. PICK k \in D : k < j + 1 /\ Removes(U[k], U[j + 1].meter)
    BY DEF Orderly, FirstFits
  <2>2. k - 1 \in E /\ V[k - 1] = U[k] BY <1>1, <2>1
  <2>c. k \in Int /\ j \in Int BY <1>0
  <2>3. k - 1 < j BY <2>c, <2>1, OneApart
  <2>4. U[j + 1].meter = V[j].meter OBVIOUS
  <2> QED BY <2>1, <2>2, <2>3, <2>4
<1>3. Alternate(E, V)
  <2> SUFFICES ASSUME NEW i \in E, NEW j \in E, i < j, V[i].meter = V[j].meter,
                      None \notin {V[i].kind, V[j].kind}, V[i].kind # V[j].kind
               PROVE  \E k \in E : i < k /\ k < j /\ Removes(V[k], V[j].meter)
    BY DEF Alternate
  <2>a. i \in Int /\ j \in Int BY <1>0
  <2>b. i + 1 < j + 1 BY <2>a
  <2>f. U[i + 1] = V[i] /\ U[j + 1] = V[j] OBVIOUS
  <2>g. i + 1 \in D /\ j + 1 \in D OBVIOUS
  <2>0. /\ i + 1 < j + 1 /\ i + 1 \in D /\ j + 1 \in D
        /\ U[i + 1] = V[i] /\ U[j + 1] = V[j]
    BY <2>b, <2>f, <2>g
  <2>1. PICK k \in D : i + 1 < k /\ k < j + 1 /\ Removes(U[k], U[j + 1].meter)
    BY <2>0 DEF Orderly, Alternate
  <2>2. k - 1 \in E /\ V[k - 1] = U[k] BY <1>1, <2>1
  <2>c. k \in Int BY <1>0
  <2>d. i < k - 1 BY <2>a, <2>c, <2>1, OneApart
  <2>e. k - 1 < j BY <2>a, <2>c, <2>1, OneApart
  <2>3. i < k - 1 /\ k - 1 < j BY <2>d, <2>e
  <2>4. U[j + 1].meter = V[j].meter BY <2>0
  <2> QED BY <2>1, <2>2, <2>3, <2>4
<1>4. LastSays(E, V, g)
  <2> SUFFICES ASSUME NEW j \in E, V[j].kind \notin {None, g[V[j].meter]}
               PROVE  \E k \in E : j < k /\ Removes(V[k], V[j].meter)
    BY DEF LastSays
  <2>1. PICK k \in D : j + 1 < k /\ Removes(U[k], U[j + 1].meter)
    BY DEF Orderly, LastSays
  <2>2. k - 1 \in E /\ V[k - 1] = U[k] BY <1>1, <2>1
  <2>c. k \in Int /\ j \in Int BY <1>0
  <2>3. j < k - 1 BY <2>c, <2>1, OneApart
  <2>4. U[j + 1].meter = V[j].meter OBVIOUS
  <2> QED BY <2>1, <2>2, <2>3, <2>4
<1>5. MapSays(E, V, f, g)
  <2> SUFFICES ASSUME NEW m \in Meter, f[m] \notin {None, g[m]}
               PROVE  \E k \in E : Removes(V[k], m)
    BY DEF MapSays
  <2>1. PICK k \in D : Removes(U[k], m) BY DEF Orderly, MapSays
  <2>2. k - 1 \in E /\ V[k - 1] = U[k] BY <1>0, <1>1, <2>1
  <2> QED BY <2>1, <2>2
<1> QED BY <1>2, <1>3, <1>4, <1>5 DEF Orderly

(* Applying the update at position 0, the first.                           *)
LEMMA OrderlyApply ==
    ASSUME NEW D \in SUBSET Nat, 0 \in D, NEW U, NEW V, NEW f, NEW e, NEW g,
           Orderly(D, U, f, g), \A k \in D \ {0} : V[k] = U[k],
           \A n \in Meter : n # U[0].meter => e[n] \in {None, f[n]},
           \A k \in D : U[k].meter \in Meter,
           LET m == U[0].meter IN
              IF U[0].kind = None THEN e[m] = None ELSE e[m] \in {f[m], U[0].kind}
    PROVE  Orderly(D \ {0}, V, e, g)
<1> DEFINE m == U[0].meter
           u == U[0].kind
           E == D \ {0}
<1>0. /\ \A k \in E : V[k] = U[k] /\ 0 < k /\ k \in D
      /\ m \in Meter
  OBVIOUS
<1>b. \A i \in E, k \in D : i < k => k \in E OBVIOUS
<1>1. FirstFits(E, V, e)
  <2> SUFFICES ASSUME NEW j \in E, U[j].kind # None,
                      e[U[j].meter] \notin {None, U[j].kind}
               PROVE  \E k \in E : k < j /\ Removes(U[k], U[j].meter)
    BY <1>0 DEF FirstFits
  <2>1. CASE U[j].meter # m
    <3>1. e[U[j].meter] = f[U[j].meter] BY <2>1, <1>0
    <3>2. PICK k \in D : k < j /\ Removes(U[k], U[j].meter)
      BY <3>1, <1>0 DEF Orderly, FirstFits
    <3> QED BY <2>1, <3>2 DEF Removes
  <2>2. CASE U[j].meter = m
    <3>1. u # None /\ e[m] \in {f[m], u} BY <2>2
    <3>2. CASE e[m] = u
      <4>1. PICK k \in D : 0 < k /\ k < j /\ Removes(U[k], U[j].meter)
        BY <1>0, <2>2, <3>1, <3>2 DEF Orderly, Alternate
      <4> QED BY <4>1
    <3>3. CASE e[m] = f[m]
      <4>1. PICK k \in D : k < j /\ Removes(U[k], U[j].meter)
        BY <1>0, <2>2, <3>3 DEF Orderly, FirstFits
      <4>2. k # 0 BY <3>1, <4>1 DEF Removes
      <4> QED BY <4>1, <4>2
    <3> QED BY <3>1, <3>2, <3>3
  <2> QED BY <2>1, <2>2
<1>2. Alternate(E, V)
  <2> SUFFICES ASSUME NEW i \in E, NEW j \in E, i < j, U[i].meter = U[j].meter,
                      None \notin {U[i].kind, U[j].kind}, U[i].kind # U[j].kind
               PROVE  \E k \in E : i < k /\ k < j /\ Removes(U[k], U[j].meter)
    BY <1>0 DEF Alternate
  <2>1. PICK k \in D : i < k /\ k < j /\ Removes(U[k], U[j].meter)
    BY <1>0 DEF Orderly, Alternate
  <2> QED BY <2>1, <1>b
<1>3. LastSays(E, V, g)
  <2> SUFFICES ASSUME NEW j \in E, U[j].kind \notin {None, g[U[j].meter]}
               PROVE  \E k \in E : j < k /\ Removes(U[k], U[j].meter)
    BY <1>0 DEF LastSays
  <2>1. PICK k \in D : j < k /\ Removes(U[k], U[j].meter)
    BY <1>0 DEF Orderly, LastSays
  <2> QED BY <2>1, <1>b
<1>4. MapSays(E, V, e, g)
  <2> SUFFICES ASSUME NEW n \in Meter, e[n] \notin {None, g[n]}
               PROVE  \E k \in E : Removes(U[k], n)
    BY <1>0 DEF MapSays
  <2>1. CASE n # m
    <3>1. PICK k \in D : Removes(U[k], n)
      BY <2>1 DEF Orderly, MapSays
    <3> QED BY <2>1, <3>1 DEF Removes
  <2>2. CASE n = m
    <3>1. u # None /\ e[m] \in {f[m], u} BY <2>2
    <3>2. CASE e[m] = u
      <4>1. PICK k \in D : 0 < k /\ Removes(U[k], m)
        BY <2>2, <3>1, <3>2 DEF Orderly, LastSays
      <4> QED BY <2>2, <4>1
    <3>3. CASE e[m] = f[m]
      <4>1. PICK k \in D : Removes(U[k], m)
        BY <2>2, <3>3 DEF Orderly, MapSays
      <4> QED BY <2>2, <3>1, <4>1 DEF Removes
    <3> QED BY <3>1, <3>2, <3>3
  <2> QED BY <2>1, <2>2
<1> QED BY <1>1, <1>2, <1>3, <1>4 DEF Orderly

(* A further announcement: a removal, or a kind of a meter that had none.  *)
LEMMA OrderlyAdd ==
    ASSUME NEW D \in SUBSET Nat, NEW n \in Nat, \A k \in D : k < n,
           NEW U, NEW V, NEW f, NEW g \in [Meter -> Kind], NEW m \in Meter,
           NEW a \in Kind, Orderly(D, U, f, g), \A k \in D : V[k] = U[k],
           \A k \in D : U[k].meter \in Meter,
           V[n] = [meter |-> m, kind |-> a], a = None \/ g[m] \in {None, a}
    PROVE  Orderly(D \cup {n}, V, f, [g EXCEPT ![m] = a])
<1> DEFINE E == D \cup {n}
           h == [g EXCEPT ![m] = a]
<1>0. /\ n \in E /\ n \notin D /\ V[n].meter = m /\ V[n].kind = a
      /\ \A k \in D : k \in E /\ V[k] = U[k] /\ k < n
      /\ h[m] = a /\ \A l \in Meter : l # m => h[l] = g[l]
  <2>1. n \in E /\ n \notin D OBVIOUS
  <2>2. V[n].meter = m /\ V[n].kind = a OBVIOUS
  <2>3. \A k \in D : k \in E /\ V[k] = U[k] /\ k < n OBVIOUS
  <2>4. h[m] = a /\ \A l \in Meter : l # m => h[l] = g[l] OBVIOUS
  <2> QED BY <2>1, <2>2, <2>3, <2>4
<1>a. a = None => Removes(V[n], m) BY <1>0 DEF Removes
<1> HIDE DEF h, E
<1>1. FirstFits(E, V, f)
  <2>1. ASSUME NEW j \in D, U[j].kind # None, f[U[j].meter] \notin {None, U[j].kind}
        PROVE  \E k \in E : k < j /\ Removes(V[k], V[j].meter)
    <3>1. PICK k \in D : k < j /\ Removes(U[k], U[j].meter)
      BY <2>1 DEF Orderly, FirstFits
    <3> QED BY <3>1, <1>0
  <2>2. ASSUME a # None, f[m] \notin {None, a}
        PROVE  \E k \in E : k < n /\ Removes(V[k], m)
    <3>1. f[m] \notin {None, g[m]} BY <2>2
    <3>2. PICK k \in D : Removes(U[k], m) BY <3>1 DEF Orderly, MapSays
    <3> QED BY <3>2, <1>0
  <2> QED BY <1>0, <2>1, <2>2 DEF FirstFits, E
<1>2. Alternate(E, V)
  <2>1. ASSUME NEW i \in D, NEW j \in D, i < j, U[i].meter = U[j].meter,
               None \notin {U[i].kind, U[j].kind}, U[i].kind # U[j].kind
        PROVE  \E k \in E : i < k /\ k < j /\ Removes(V[k], V[j].meter)
    <3>1. PICK k \in D : i < k /\ k < j /\ Removes(U[k], U[j].meter)
      BY <2>1 DEF Orderly, Alternate
    <3> QED BY <3>1, <1>0
  <2>2. ASSUME NEW i \in D, U[i].meter = m,
               None \notin {U[i].kind, a}, U[i].kind # a
        PROVE  \E k \in E : i < k /\ k < n /\ Removes(V[k], m)
    <3>1. U[i].kind \notin {None, g[m]} BY <2>2
    <3>2. PICK k \in D : i < k /\ Removes(U[k], m)
      BY <2>2, <3>1 DEF Orderly, LastSays
    <3> QED BY <3>2, <1>0
  <2>3. \A j \in D : ~(n < j) BY <1>0
  <2>4. ~(n < n) OBVIOUS
  <2> SUFFICES ASSUME NEW i \in E, NEW j \in E, i < j, V[i].meter = V[j].meter,
                      None \notin {V[i].kind, V[j].kind}, V[i].kind # V[j].kind
               PROVE  \E k \in E : i < k /\ k < j /\ Removes(V[k], V[j].meter)
    BY DEF Alternate
  <2>5. i \in D BY <2>3, <2>4 DEF E
  <2>6. CASE j \in D BY <1>0, <2>1, <2>5, <2>6
  <2>7. CASE j = n BY <1>0, <2>2, <2>5, <2>7
  <2> QED BY <2>6, <2>7 DEF E
<1>3. LastSays(E, V, h)
  <2>1. ASSUME NEW j \in D, U[j].kind \notin {None, h[U[j].meter]}
        PROVE  \E k \in E : j < k /\ Removes(V[k], V[j].meter)
    <3>1. CASE U[j].kind \notin {None, g[U[j].meter]}
      <4>1. PICK k \in D : j < k /\ Removes(U[k], U[j].meter)
        BY <3>1 DEF Orderly, LastSays
      <4> QED BY <4>1, <1>0
    <3>2. CASE U[j].kind = g[U[j].meter]
      <4>1. U[j].meter = m BY <1>0, <2>1, <3>2
      <4>2. a = None BY <1>0, <2>1, <3>2, <4>1
      <4> QED BY <1>0, <1>a, <4>1, <4>2
    <3> QED BY <2>1, <3>1, <3>2
  <2>2. V[n].kind = h[V[n].meter] BY <1>0
  <2> QED BY <1>0, <2>1, <2>2 DEF LastSays, E
<1>4. MapSays(E, V, f, h)
  <2> SUFFICES ASSUME NEW l \in Meter, f[l] \notin {None, h[l]}
               PROVE  \E k \in E : Removes(V[k], l)
    BY DEF MapSays
  <2>1. CASE f[l] # g[l]
    <3>1. PICK k \in D : Removes(U[k], l) BY <2>1 DEF Orderly, MapSays
    <3> QED BY <3>1, <1>0
  <2>2. CASE f[l] = g[l]
    <3>1. l = m /\ a = None BY <1>0, <2>2
    <3> QED BY <3>1, <1>0, <1>a
  <2> QED BY <2>1, <2>2
<1> QED BY <1>1, <1>2, <1>3, <1>4 DEF Orderly, E, h

-----------------------------------------------------------------------------
(* The strengthening of MapFollowsRadio and ValueOfLevel.                  *)

(* A round that has not begun has no handler.                              *)
Unborn == \A r \in Round : r > round => handler[r] = "none"

(* No announcement outlives the connection it came over.                   *)
Drained == phase \in {"idle", "closed"} => events = <<>>

(* The update in the handler's hand fits what its meter is mapped to, even *)
(* when the ones behind it are gone with the connection.                   *)
HeldFits ==
    late = {} /\ phase # "idle" /\ round \in Round =>
        (handler[round] = "update" /\ held[round].kind \in Level =>
            flexToHamlib[held[round].meter] \in {None, held[round].kind})

(* The converse of MapsAgree.                                              *)
Back ==
    late = {} =>
        \A l \in Level : hamlibToFlex[l] # None =>
                            flexToHamlib[hamlibToFlex[l]] = l

Follows == late = {} /\ Subscribed => Orderly(Pending, Queue, flexToHamlib, measures)

(* A value is that of the level its meter is mapped to, whoever asks.      *)
Values ==
    late = {} => \A m \in Meter \ (crossed \cup displaced) :
                    meterVal[m] \in {None, Zero, flexToHamlib[m]}

FInv == Unborn /\ Drained /\ HeldFits /\ Back /\ Follows /\ Values

LEMMA QueueFacts ==
    ASSUME TypeOK, round \in Round
    PROVE  /\ Pending \in SUBSET Nat
           /\ 0 \in Pending <=> handler[round] = "update"
           /\ Len(events) \in Nat
           /\ \A k \in Pending : /\ k <= Len(events)
                                 /\ Queue[k] \in Update
                                 /\ Queue[k].meter \in Meter
                                 /\ Queue[k].kind \in Kind
<1>1. Len(events) \in Nat /\ \A k \in 1..Len(events) : events[k] \in Update
  BY LenProperties, ElementOfSeq DEF TypeOK
<1>2. handler[round] = "update" => held[round] \in Update BY DEF TypeOK
<1>3. \A k \in Pending : Queue[k] \in Update BY <1>1, <1>2 DEF Pending, Queue
<1>4. \A u \in Update : u.meter \in Meter /\ u.kind \in Kind BY DEF Update
<1> QED BY <1>1, <1>3, <1>4 DEF Pending

(* Steps that leave the pending updates and what they are compared to.     *)
LEMMA FollowFrame ==
    ASSUME Follows, late' = {} => late = {}, Subscribed' => Subscribed,
           UNCHANGED <<round, events, measures, flexToHamlib>>,
           \/ handler'[round] = handler[round] /\ held'[round] = held[round]
           \/ handler[round] # "update" /\ handler'[round] # "update"
    PROVE  Follows'
<1>1. Pending' = Pending BY DEF Pending
<1>2. Queue' = Queue
  <2>1. CASE held'[round] = held[round] BY <1>1, <2>1 DEF Queue
  <2>2. CASE handler[round] # "update"
    <3>1. \A k \in Pending : k # 0 BY <2>2 DEF Pending
    <3> QED BY <1>1, <3>1 DEF Queue
  <2> QED BY <2>1, <2>2
<1> QED BY <1>1, <1>2 DEF Follows

LEMMA FInvFrame ==
    ASSUME FInv, UNCHANGED <<maps, round, phase, handler, held, events, measures, history>>
    PROVE  FInv'
<1>1. Subscribed' = Subscribed BY DEF Subscribed
<1>2. Follows' BY <1>1, FollowFrame DEF FInv, maps, history
<1>3. Unborn' /\ Drained' BY DEF FInv, Unborn, Drained
<1>4. HeldFits' /\ Back' /\ Values' BY DEF FInv, HeldFits, Back, Values, maps, history
<1> QED BY <1>2, <1>3, <1>4 DEF FInv

(* Empty maps satisfy all that is said of maps.                            *)
LEMMA ResetFInv ==
    ASSUME Reset
    PROVE  /\ Back' /\ Values'
           /\ \A U, g : Orderly({}, U, flexToHamlib', g)
<1>1. Back' BY DEF Reset, Back
<1>2. Values' BY DEF Reset, Values
<1>3. \A U, g : Orderly({}, U, flexToHamlib', g)
  BY DEF Reset, Orderly, FirstFits, Alternate, LastSays, MapSays
<1> QED BY <1>1, <1>2, <1>3

LEMMA RoundFInv ==
    ASSUME TypeOK, FInv
    PROVE  /\ StartRound => FInv'
           /\ RoundCancelled => FInv'
           /\ CloseClient => FInv'
           /\ EndRound => FInv'
<1> USE MeterAssumption
<1>1. ASSUME StartRound, metering PROVE FInv'
  <2>1. /\ Reset /\ round' = round + 1 /\ events' = events
        /\ handler' = [handler EXCEPT ![round + 1] = "select"]
        /\ phase = "idle" /\ phase' = "up"
    BY <1>1 DEF StartRound
  <2>2. events = <<>> BY <2>1 DEF FInv, Drained
  <2>3. round + 1 \in Round BY <1>1 DEF StartRound, TypeOK, Round
  <2>4. handler'[round'] = "select" BY <2>1, <2>3 DEF TypeOK
  <2>5. Pending' = {} BY <2>1, <2>2, <2>4 DEF Pending
  <2>6. Follows' BY <2>1, <2>5, ResetFInv DEF Follows
  <2>7. Unborn' BY <2>1 DEF FInv, Unborn, TypeOK, Round
  <2>8. Drained' BY <2>1 DEF Drained
  <2>9. HeldFits' BY <2>4 DEF HeldFits
  <2> QED BY <2>1, <2>6, <2>7, <2>8, <2>9, ResetFInv DEF FInv
<1>2. ASSUME StartRound, ~metering PROVE FInv'
  <2>1. /\ UNCHANGED <<maps, handler, history>> /\ round' = round + 1
        /\ phase' = "up"
    BY <1>2 DEF StartRound
  <2>2. round + 1 \in Round BY <1>2 DEF StartRound, TypeOK, Round
  <2>3. handler'[round'] = "none"
    <3>1. round + 1 > round BY DEF TypeOK
    <3> QED BY <2>1, <2>2, <3>1 DEF FInv, Unborn
  <2>4. HeldFits' /\ Follows' BY <2>3 DEF HeldFits, Follows, Subscribed
  <2>5. Unborn' BY <2>1 DEF FInv, Unborn, TypeOK, Round
  <2>6. Drained' BY <2>1 DEF Drained
  <2>7. Back' /\ Values' BY <2>1 DEF FInv, Back, Values, maps, history
  <2> QED BY <2>4, <2>5, <2>6, <2>7 DEF FInv
<1>3. ASSUME RoundCancelled PROVE FInv'
  <2>1. /\ UNCHANGED <<maps, round, handler, held, events, measures, history>>
        /\ phase = "up" /\ phase' = "ending"
    BY <1>3 DEF RoundCancelled, radio
  <2>2. Subscribed' = Subscribed BY <2>1 DEF Subscribed
  <2>3. Follows' BY <2>1, <2>2, FollowFrame DEF FInv, maps, history
  <2>4. Unborn' /\ Drained' BY <2>1 DEF FInv, Unborn, Drained
  <2>5. HeldFits' BY <2>1 DEF FInv, HeldFits, maps, history
  <2>6. Back' /\ Values' BY <2>1 DEF FInv, Back, Values, maps, history
  <2> QED BY <2>3, <2>4, <2>5, <2>6 DEF FInv
<1>4. ASSUME CloseClient PROVE FInv'
  <2>1. /\ UNCHANGED <<maps, round, handler, held, history>>
        /\ phase = "ending" /\ phase' = "closed" /\ events' = <<>>
    BY <1>4 DEF CloseClient
  <2>2. Follows' BY <2>1 DEF Follows, Subscribed
  <2>3. Unborn' /\ Drained' BY <2>1 DEF FInv, Unborn, Drained
  <2>4. HeldFits' BY <2>1 DEF FInv, HeldFits, maps, history
  <2>5. Back' /\ Values' BY <2>1 DEF FInv, Back, Values, maps, history
  <2> QED BY <2>2, <2>3, <2>4, <2>5 DEF FInv
<1>5. ASSUME EndRound PROVE FInv'
  <2>1. /\ UNCHANGED <<round, handler, held, events>> /\ Reset
        /\ phase = "closed" /\ phase' = "idle"
    BY <1>5 DEF EndRound
  <2>2. Follows' /\ HeldFits' BY <2>1 DEF Follows, Subscribed, HeldFits
  <2>3. Unborn' /\ Drained' BY <2>1 DEF FInv, Unborn, Drained
  <2> QED BY <2>1, <2>2, <2>3, ResetFInv DEF FInv
<1> QED BY <1>1, <1>2, <1>3, <1>4, <1>5

(* Steps that leave the maps and their history.                            *)
LEMMA HandlerFInv ==
    ASSUME FInv, UNCHANGED <<maps, round, phase, history>>
    PROVE  /\ Back' /\ Values'
           /\ UNCHANGED <<handler, held>> => HeldFits'
  BY DEF FInv, Back, Values, HeldFits, maps, history

(* The next update in the queue is the first: it fits its meter's mapping. *)
LEMMA TakeUpdateFInv ==
    ASSUME TypeOK, FInv, NEW r \in Round, TakeUpdate(r)
    PROVE  FInv'
<1>1. /\ r = round /\ handler[r] = "select" /\ events # <<>>
      /\ handler' = [handler EXCEPT ![r] = "update"]
      /\ held' = [held EXCEPT ![r] = Head(events)]
      /\ events' = Tail(events)
      /\ UNCHANGED <<maps, round, phase, measures, history>>
  BY DEF TakeUpdate, main, radio
<1>2. handler'[round] = "update" /\ held'[round] = Head(events)
  BY <1>1 DEF TypeOK
<1>3. Subscribed
  BY <1>1 DEF FInv, Drained, TypeOK, Subscribed, Round
<1>4. /\ Len(events) \in Nat \ {0} /\ Head(events) = events[1]
      /\ Len(Tail(events)) = Len(events) - 1
      /\ \A k \in 1..Len(Tail(events)) : Tail(events)[k] = events[k + 1]
  <2>1. events \in Seq(Update) BY DEF TypeOK
  <2> QED BY <1>1, <2>1, HeadTailProperties, EmptySeq, LenProperties
<1>5. Pending = 1..Len(events) BY <1>1 DEF Pending
<1>6. Pending' = 0..(Len(events) - 1) BY <1>1, <1>2, <1>4 DEF Pending
<1>7. \A k \in Pending' : Queue'[k] = Queue[k + 1]
  <2>1. ASSUME NEW k \in Pending' PROVE Queue'[k] = Queue[k + 1]
    <3>1. k \in 0..(Len(events) - 1) BY <1>6
    <3>2. Queue[k + 1] = events[k + 1] BY <3>1, <1>4, <1>5 DEF Queue
    <3>3. CASE k = 0
      <4>1. Queue'[0] = Head(events) BY <1>1, <1>2, <3>3 DEF Queue
      <4> QED BY <3>2, <3>3, <4>1, <1>4
    <3>4. CASE k # 0
      <4>1. k \in 1..Len(Tail(events)) BY <1>4, <3>1, <3>4
      <4>2. Queue'[k] = Tail(events)[k] BY <1>1, <3>4 DEF Queue
      <4> QED BY <1>4, <3>2, <4>1, <4>2
    <3> QED BY <3>3, <3>4
  <2> QED BY <2>1
<1>8. late = {} => Orderly(Pending, Queue, flexToHamlib, measures)
  BY <1>3 DEF FInv, Follows
<1>9. Follows'
  <2>1. Pending \in SUBSET Int /\ Pending' \in SUBSET Int
    BY <1>4, <1>5, <1>6
  <2>2. (\A k \in Pending : k - 1 \in Pending') /\ (\A k \in Pending' : k + 1 \in Pending)
    BY <1>4, <1>5, <1>6
  <2>3. late = {} => Orderly(Pending', Queue', flexToHamlib, measures)
    BY <1>7, <1>8, <2>1, <2>2, OrderlyShift
  <2> QED BY <1>1, <2>3 DEF Follows, maps, history
<1>10. HeldFits'
  <2> SUFFICES ASSUME late = {}, Head(events).kind \in Level
               PROVE  flexToHamlib[Head(events).meter]
                        \in {None, Head(events).kind}
    BY <1>1, <1>2 DEF HeldFits, maps, history
  <2>1. 1 \in Pending /\ Queue[1] = Head(events) BY <1>4, <1>5 DEF Queue
  <2>2. \A k \in Pending : ~(k < 1) BY <1>4, <1>5
  <2>3. Head(events).kind # None BY MeterAssumption
  <2> QED BY <1>8, <2>1, <2>2, <2>3 DEF Orderly, FirstFits
<1>11. Unborn' BY <1>1 DEF FInv, Unborn, TypeOK
<1>12. Drained' BY <1>1, <1>3 DEF Drained, Subscribed
<1> QED BY <1>1, <1>9, <1>10, <1>11, <1>12, HandlerFInv DEF FInv

LEMMA OtherHandlerFInv ==
    ASSUME TypeOK, FInv, NEW r \in Round
    PROVE  TakePacket(r) \/ HandlerDone(r) => FInv'
<1> SUFFICES ASSUME TakePacket(r) \/ HandlerDone(r) PROVE FInv'
  OBVIOUS
<1>1. /\ handler[r] = "select"
      /\ UNCHANGED <<maps, round, phase, events, measures, history>>
      /\ \A q \in Round \ {r} : handler'[q] = handler[q] /\ held'[q] = held[q]
      /\ handler'[r] \in {"packet", "none"}
  BY DEF TakePacket, HandlerDone, TypeOK, main, radio
<1>2. Subscribed' => Subscribed BY <1>1 DEF Subscribed, TypeOK, Round
<1>3. Follows'
  <2>1. CASE round \in Round
    <3>1. \/ handler'[round] = handler[round] /\ held'[round] = held[round]
          \/ handler[round] # "update" /\ handler'[round] # "update"
      BY <1>1, <2>1
    <3> QED BY <1>1, <1>2, <3>1, FollowFrame DEF FInv, maps, history
  <2>2. CASE round \notin Round
    <3>1. ~Subscribed BY <2>2 DEF Subscribed, TypeOK, Round
    <3> QED BY <1>2, <3>1 DEF Follows
  <2> QED BY <2>1, <2>2
<1>4. HeldFits'
  <2>1. CASE round = r BY <1>1, <2>1 DEF HeldFits
  <2>2. CASE round # r BY <1>1, <2>2 DEF FInv, HeldFits, maps, history
  <2> QED BY <2>1, <2>2
<1>5. Unborn'
  <2>1. ~(r > round) BY <1>1 DEF FInv, Unborn
  <2> QED BY <1>1, <2>1 DEF FInv, Unborn
<1>6. Drained' BY <1>1 DEF FInv, Drained
<1> QED BY <1>1, <1>3, <1>4, <1>5, <1>6, HandlerFInv DEF FInv

(* A packet writes values only, and each as its meter is mapped.           *)
LEMMA ApplyPacketFInv ==
    ASSUME TypeOK, FInv, NEW r \in Round, ApplyPacket(r)
    PROVE  FInv'
<1>0. handler[r] = "packet" /\ MeterPacket(held[r])
  BY Zenon DEF ApplyPacket
<1>a. held[r] \in Packet BY <1>0 DEF TypeOK
<1>1. /\ UNCHANGED <<flexToHamlib, hamlibToFlex, round, phase, events, measures, late>>
      /\ handler' = [handler EXCEPT ![r] = "select"]
      /\ held' = [held EXCEPT ![r] = Nothing]
  BY <1>0 DEF ApplyPacket, MeterPacket, main, radio
<1>2. /\ handler'[r] = "select"
      /\ \A q \in Round \ {r} : handler'[q] = handler[q] /\ held'[q] = held[q]
  BY <1>1 DEF TypeOK
<1>3. Subscribed' => Subscribed BY <1>0, <1>1, <1>2 DEF Subscribed, TypeOK, Round
<1>4. Follows'
  <2>1. CASE round \in Round
    <3>1. \/ handler'[round] = handler[round] /\ held'[round] = held[round]
          \/ handler[round] # "update" /\ handler'[round] # "update"
      BY <1>0, <1>2, <2>1
    <3> QED BY <1>1, <1>3, <3>1, FollowFrame DEF FInv
  <2>2. CASE round \notin Round
    <3>1. ~Subscribed BY <2>2 DEF Subscribed, TypeOK, Round
    <3> QED BY <1>3, <3>1 DEF Follows
  <2> QED BY <2>1, <2>2
<1>5. HeldFits'
  <2>1. CASE round = r BY <1>1, <1>2, <2>1 DEF HeldFits
  <2>2. CASE round # r BY <1>1, <1>2, <2>2 DEF FInv, HeldFits
  <2> QED BY <2>1, <2>2
<1>6. Unborn'
  <2>1. ~(r > round) BY <1>0 DEF FInv, Unborn
  <2> QED BY <1>1, <1>2, <2>1 DEF FInv, Unborn
<1>7. Drained' /\ Back' BY <1>1 DEF FInv, Drained, Back
<1>8. Values'
  <2> DEFINE p == held[r]
             W == Written(held[r])
  <2>1. crossed' = (crossed \ W) \cup {m \in W : p[m] # flexToHamlib[m]}
        /\ displaced' = displaced \ W
    BY DEF ApplyPacket
  <2>2. \A m \in Meter : meterVal'[m] = IF m \in W THEN p[m] ELSE meterVal[m]
    BY <1>0 DEF MeterPacket
  <2> HIDE DEF W, p
  <2>3. ASSUME late = {}, NEW m \in Meter, m \notin crossed' \cup displaced'
        PROVE  meterVal'[m] \in {None, Zero, flexToHamlib[m]}
    <3>1. CASE m \in W BY <2>1, <2>2, <2>3, <3>1
    <3>2. CASE m \notin W
      <4>1. m \notin crossed \cup displaced BY <2>1, <2>3, <3>2
      <4> QED BY <2>2, <2>3, <3>2, <4>1 DEF FInv, Values
    <3> QED BY <3>1, <3>2
  <2> QED BY <1>1, <2>3 DEF Values
<1> QED BY <1>4, <1>5, <1>6, <1>7, <1>8 DEF FInv

LEMMA AnnounceFInv ==
    ASSUME TypeOK, FInv, NEW m \in Meter, NEW a \in Kind, Announce(m, a)
    PROVE  FInv'
<1>1. /\ Subscribed /\ UNCHANGED <<maps, round, phase, handler, held, history>>
      /\ a = None \/ measures[m] \in {None, a}
      /\ measures' = [measures EXCEPT ![m] = a]
      /\ events' = Append(events, [meter |-> m, kind |-> a])
  BY DEF Announce, main
<1> DEFINE u == [meter |-> m, kind |-> a]
           n == Len(events) + 1
<1>2. /\ Len(events) \in Nat /\ Len(events') = n /\ events'[n] = u
      /\ \A k \in 1..Len(events) : events'[k] = events[k]
  <2>1. u \in Update /\ events \in Seq(Update) BY DEF TypeOK, Update
  <2> QED BY <1>1, <2>1, AppendProperties, LenProperties
<1>3. round \in Round BY <1>1 DEF TypeOK, Subscribed, Round
<1>4. Pending' = Pending \cup {n} BY <1>1, <1>2 DEF Pending
<1>5. \A k \in Pending : k < n /\ Queue[k].meter \in Meter
  BY <1>2, <1>3, QueueFacts
<1>6. \A k \in Pending : Queue'[k] = Queue[k]
  BY <1>1, <1>2, <1>4 DEF Pending, Queue
<1>7. Queue'[n] = u BY <1>2, <1>4 DEF Queue
<1>8. Follows'
  <2> SUFFICES ASSUME late = {}
               PROVE  Orderly(Pending', Queue', flexToHamlib, measures')
    BY <1>1 DEF Follows, maps, history
  <2>1. Orderly(Pending, Queue, flexToHamlib, measures)
    BY <1>1 DEF FInv, Follows
  <2>2. Pending \in SUBSET Nat /\ n \in Nat /\ measures \in [Meter -> Kind]
    BY <1>2, <1>3, QueueFacts DEF TypeOK
  <2> HIDE DEF u, n
  <2>3. Queue'[n] = [meter |-> m, kind |-> a] BY <1>7 DEF u
  <2> QED BY <1>1, <1>4, <1>5, <1>6, <2>1, <2>2, <2>3, OrderlyAdd
<1>9. Unborn' BY <1>1 DEF FInv, Unborn
<1>10. Drained' BY <1>1 DEF Drained, Subscribed
<1> QED BY <1>1, <1>8, <1>9, <1>10, HandlerFInv DEF FInv

(* An update that fits its meter's mapping leaves every map and value      *)
(* right: it displaces at most the meter it takes the level from.          *)
LEMMA MeterUpdateKeeps ==
    ASSUME TypeOK, MapsAgree, NEW u \in Update, MeterUpdate(u),
           u.kind \in Level => flexToHamlib[u.meter] \in {None, u.kind},
           \A l \in Level : hamlibToFlex[l] # None =>
                               flexToHamlib[hamlibToFlex[l]] = l,
           \A m \in Meter \ (crossed \cup displaced) :
               meterVal[m] \in {None, Zero, flexToHamlib[m]},
           LET old == IF u.kind \in Level THEN hamlibToFlex[u.kind] ELSE None
           IN  displaced' = IF old \notin {None, u.meter}
                              THEN displaced \cup {old} ELSE displaced,
           crossed' = IF flexToHamlib[u.meter] # None /\ u.kind = None
                        THEN crossed \ {u.meter} ELSE crossed
    PROVE  /\ \A l \in Level : hamlibToFlex'[l] # None =>
                                  flexToHamlib'[hamlibToFlex'[l]] = l
           /\ \A m \in Meter \ (crossed' \cup displaced') :
                  meterVal'[m] \in {None, Zero, flexToHamlib'[m]}
           /\ \A m \in Meter : m # u.meter => flexToHamlib'[m] \in {None, flexToHamlib[m]}
           /\ IF u.kind = None THEN flexToHamlib'[u.meter] = None
              ELSE flexToHamlib'[u.meter] \in {flexToHamlib[u.meter], u.kind}
<1> USE MeterAssumption
<1> DEFINE v == u.meter
           rev == flexToHamlib[v]
<1>0. v \in Meter /\ u.kind \in Kind /\ rev \in Level \cup {None}
  BY DEF TypeOK, Update
<1>1. CASE u.kind = None /\ Remove(v)
  <2>0. displaced' = displaced BY <1>1
  <2>1. CASE rev = None
    <3>1. UNCHANGED <<flexToHamlib, hamlibToFlex, meterVal, crossed>>
      BY <1>1, <2>1 DEF Remove, maps
    <3> QED BY <1>1, <2>0, <2>1, <3>1
  <2>2. CASE rev # None
    <3>1. /\ flexToHamlib' = [flexToHamlib EXCEPT ![v] = None]
          /\ hamlibToFlex' = [hamlibToFlex EXCEPT ![rev] = None]
          /\ meterVal' = [meterVal EXCEPT ![v] = Zero]
      BY <1>1, <2>2 DEF Remove
    <3>2. crossed' = crossed \ {v} BY <1>1, <2>2
    <3>3. /\ flexToHamlib'[v] = None /\ meterVal'[v] = Zero
          /\ \A m \in Meter \ {v} : /\ flexToHamlib'[m] = flexToHamlib[m]
                                    /\ meterVal'[m] = meterVal[m]
      BY <1>0, <3>1 DEF TypeOK
    <3>4. /\ hamlibToFlex'[rev] = None
          /\ \A l \in Level \ {rev} : hamlibToFlex'[l] = hamlibToFlex[l]
      BY <1>0, <2>2, <3>1 DEF TypeOK
    <3>5. ASSUME NEW l \in Level, hamlibToFlex'[l] # None
          PROVE  flexToHamlib'[hamlibToFlex'[l]] = l
      <4>1. l # rev /\ hamlibToFlex'[l] = hamlibToFlex[l] BY <3>4, <3>5
      <4>2. hamlibToFlex[l] \in Meter BY <3>5, <4>1 DEF TypeOK
      <4>3. flexToHamlib[hamlibToFlex[l]] = l BY <3>5, <4>1
      <4>4. hamlibToFlex[l] # v BY <4>1, <4>3
      <4> QED BY <3>3, <4>1, <4>2, <4>3, <4>4
    <3>6. ASSUME NEW m \in Meter \ (crossed' \cup displaced')
          PROVE  meterVal'[m] \in {None, Zero, flexToHamlib'[m]}
      BY <2>0, <3>2, <3>3, <3>6
    <3> QED BY <1>1, <3>3, <3>5, <3>6
  <2> QED BY <2>1, <2>2
<1>2. CASE u.kind \in Level /\ Map(v, u.kind)
  <2> DEFINE old == hamlibToFlex[u.kind]
  <2>1. /\ \A n \in Meter : flexToHamlib'[n] =
              IF n = v THEN u.kind ELSE IF n = old THEN None ELSE flexToHamlib[n]
        /\ hamlibToFlex' = [hamlibToFlex EXCEPT ![u.kind] = v]
        /\ meterVal' = meterVal
    BY <1>2 DEF Map
  <2>2. hamlibToFlex'[u.kind] = v
        /\ \A l \in Level \ {u.kind} : hamlibToFlex'[l] = hamlibToFlex[l]
    BY <1>2, <2>1 DEF TypeOK
  <2>3. rev \in {None, u.kind} BY <1>2
  <2>4. u.kind # None /\ crossed' = crossed BY <1>2
  <2>5. /\ displaced \subseteq displaced'
        /\ old \notin {None, v} => old \in displaced'
    BY <1>2
  <2>6. ASSUME NEW l \in Level, hamlibToFlex'[l] # None
        PROVE  flexToHamlib'[hamlibToFlex'[l]] = l
    <3>1. CASE l = u.kind BY <1>0, <2>1, <2>2, <3>1
    <3>2. CASE l # u.kind
      <4>1. hamlibToFlex'[l] = hamlibToFlex[l] BY <2>2, <3>2
      <4>2. hamlibToFlex[l] \in Meter BY <2>6, <4>1 DEF TypeOK
      <4>3. flexToHamlib[hamlibToFlex[l]] = l BY <2>6, <4>1
      <4>4. hamlibToFlex[l] # v BY <2>3, <3>2, <4>3
      <4>5. hamlibToFlex[l] # old
        <5>1. old # None => flexToHamlib[old] = u.kind BY <1>2
        <5> QED BY <2>6, <3>2, <4>1, <4>3, <5>1
      <4> QED BY <2>1, <4>1, <4>2, <4>3, <4>4, <4>5
    <3> QED BY <3>1, <3>2
  <2>7. ASSUME NEW m \in Meter \ (crossed' \cup displaced')
        PROVE  meterVal'[m] \in {None, Zero, flexToHamlib'[m]}
    <3>1. m \notin crossed \cup displaced BY <2>4, <2>5
    <3>2. meterVal[m] \in {None, Zero, flexToHamlib[m]} BY <3>1
    <3>3. CASE m = v BY <2>1, <2>3, <3>2, <3>3
    <3>4. CASE m # v
      <4>1. m # old BY <2>5, <3>4 DEF TypeOK
      <4> QED BY <2>1, <3>2, <3>4, <4>1
    <3> QED BY <3>3, <3>4
  <2> QED BY <1>0, <2>1, <2>4, <2>6, <2>7
<1>3. CASE UNCHANGED maps /\ u.kind # None
  <2>1. UNCHANGED <<flexToHamlib, hamlibToFlex, meterVal>> /\ crossed' = crossed
    BY <1>3 DEF maps
  <2>2. displaced \subseteq displaced' OBVIOUS
  <2> QED BY <1>3, <2>1, <2>2
<1>4. CASE u.kind = Other /\ Other = None BY <1>4
<1> QED BY <1>1, <1>2, <1>3, <1>4 DEF MeterUpdate

(* The update applied is that of this round, or the excuse is recorded.    *)
LEMMA ApplyUpdateFInv ==
    ASSUME TypeOK, MapsAgree, FInv, NEW r \in Round, ApplyUpdate(r)
    PROVE  FInv'
<1> DEFINE u == held[r]
<1>0. handler[r] = "update" /\ MeterUpdate(u) BY ApplyUpdateFacts, Zenon
<1>a. u \in Update BY <1>0 DEF TypeOK
<1>1. /\ UNCHANGED <<round, phase, events, measures>>
      /\ handler' = [handler EXCEPT ![r] = "select"]
  BY Zenon DEF ApplyUpdate, main, radio
<1>b. late' = IF r < round \/ phase = "idle" THEN late \cup {r} ELSE late
  BY ApplyUpdateFacts, Zenon
<1>2. /\ handler'[r] = "select"
      /\ \A q \in Round \ {r} : handler'[q] = handler[q]
  BY <1>1 DEF TypeOK
<1>3. ~(r > round) BY <1>0 DEF FInv, Unborn
<1>4. late' = {} => late = {} /\ phase # "idle" /\ r = round
  <2>1. r \in Nat /\ round \in Nat BY DEF TypeOK, Round
  <2> QED BY <1>b, <1>3, <2>1
<1>5. Unborn' BY <1>1, <1>2, <1>3 DEF FInv, Unborn
<1>6. Drained' BY <1>1 DEF FInv, Drained
<1>7. HeldFits' BY <1>1, <1>2, <1>4 DEF HeldFits
<1>8. ASSUME late' = {}
      PROVE  /\ Back' /\ Values'
             /\ \A m \in Meter : m # u.meter =>
                    flexToHamlib'[m] \in {None, flexToHamlib[m]}
             /\ IF u.kind = None THEN flexToHamlib'[u.meter] = None
                ELSE flexToHamlib'[u.meter] \in {flexToHamlib[u.meter], u.kind}
  <2>1. u.kind \in Level => flexToHamlib[u.meter] \in {None, u.kind}
    BY <1>0, <1>4, <1>8 DEF FInv, HeldFits
  <2>2. /\ \A l \in Level : hamlibToFlex[l] # None =>
                               flexToHamlib[hamlibToFlex[l]] = l
        /\ \A m \in Meter \ (crossed \cup displaced) :
               meterVal[m] \in {None, Zero, flexToHamlib[m]}
    BY <1>4, <1>8 DEF FInv, Back, Values
  <2>3. /\ LET old == IF u.kind \in Level THEN hamlibToFlex[u.kind] ELSE None
           IN  displaced' = IF old \notin {None, u.meter}
                              THEN displaced \cup {old} ELSE displaced
        /\ crossed' = IF flexToHamlib[u.meter] # None /\ u.kind = None
                        THEN crossed \ {u.meter} ELSE crossed
    BY DEF ApplyUpdate
  <2>4. UNCHANGED late BY <1>4, <1>8
  <2> HIDE DEF u
  <2>5. /\ \A l \in Level : hamlibToFlex'[l] # None =>
                               flexToHamlib'[hamlibToFlex'[l]] = l
        /\ \A m \in Meter \ (crossed' \cup displaced') :
               meterVal'[m] \in {None, Zero, flexToHamlib'[m]}
        /\ \A m \in Meter : m # u.meter => flexToHamlib'[m] \in {None, flexToHamlib[m]}
        /\ IF u.kind = None THEN flexToHamlib'[u.meter] = None
           ELSE flexToHamlib'[u.meter] \in {flexToHamlib[u.meter], u.kind}
    BY <1>0, <1>a, <2>1, <2>2, <2>3, MeterUpdateKeeps
  <2> QED BY <2>5 DEF Back, Values
<1>9. Back' /\ Values'
  <2>1. CASE late' = {} BY <1>8, <2>1
  <2>2. CASE late' # {} BY <2>2 DEF Back, Values
  <2> QED BY <2>1, <2>2
<1>10. Follows'
  <2> SUFFICES ASSUME late' = {}, Subscribed'
               PROVE  Orderly(Pending', Queue', flexToHamlib', measures)
    BY <1>1 DEF Follows
  <2>1. late = {} /\ r = round BY <1>4
  <2>2. Subscribed BY <1>0, <1>1, <2>1 DEF Subscribed
  <2>3. Orderly(Pending, Queue, flexToHamlib, measures)
    BY <2>1, <2>2 DEF FInv, Follows
  <2>4. round \in Round /\ handler[round] = "update" BY <1>0, <2>1
  <2>5. /\ Pending \in SUBSET Nat /\ 0 \in Pending
        /\ \A k \in Pending : Queue[k].meter \in Meter
    BY <2>4, QueueFacts
  <2>6. Pending' = Pending \ {0} BY <1>1, <1>2, <2>1, <2>4 DEF Pending
  <2>7. Queue[0] = u BY <2>1, <2>5 DEF Queue
  <2>8. \A k \in Pending \ {0} : Queue'[k] = Queue[k]
    BY <1>1, <2>6 DEF Queue
  <2> HIDE DEF u
  <2>9. \A n \in Meter : n # Queue[0].meter => flexToHamlib'[n] \in {None, flexToHamlib[n]}
    BY <1>8, <2>7
  <2>10. LET m == Queue[0].meter IN
            IF Queue[0].kind = None THEN flexToHamlib'[m] = None
            ELSE flexToHamlib'[m] \in {flexToHamlib[m], Queue[0].kind}
    BY <1>8, <2>7
  <2> QED BY <2>3, <2>5, <2>6, <2>8, <2>9, <2>10, OrderlyApply
<1> QED BY <1>5, <1>6, <1>7, <1>9, <1>10 DEF FInv

LEMMA StepFInv == TypeOK /\ MapsAgree /\ FInv /\ [Next]_vars => FInv'
<1> SUFFICES ASSUME TypeOK, MapsAgree, FInv, [Next]_vars PROVE FInv' OBVIOUS
<1>1. CASE StartRound \/ RoundCancelled \/ CloseClient \/ EndRound
  BY <1>1, RoundFInv
<1>2. ASSUME NEW r \in Round, HandleMeters(r) PROVE FInv'
  BY <1>2, TakeUpdateFInv, OtherHandlerFInv, ApplyUpdateFInv, ApplyPacketFInv
  DEF HandleMeters
<1>3. ASSUME NEW m \in Meter, NEW a \in Kind, Announce(m, a) PROVE FInv'
  BY <1>3, AnnounceFInv
<1>4. CASE SetMetering
  BY <1>4, FInvFrame DEF SetMetering, radio
<1>5. ASSUME NEW ms \in SUBSET Meter, Transmit(ms) PROVE FInv'
  BY <1>5, FInvFrame DEF Transmit, main
<1>6. CASE UNCHANGED vars
  BY <1>6, FInvFrame DEF vars, main, radio
<1> QED BY <1>1, <1>2, <1>3, <1>4, <1>5, <1>6 DEF Next

LEMMA SpecFInv == Spec => [](TypeOK /\ FInv)
<1>1. Init => FInv
  <2> SUFFICES ASSUME Init PROVE FInv OBVIOUS
  <2>1. Unborn /\ Drained /\ HeldFits /\ Back
    BY DEF Init, Unborn, Drained, HeldFits, Back
  <2>2. Follows BY DEF Init, Follows, Subscribed
  <2>3. Values BY DEF Init, Values
  <2> QED BY <2>1, <2>2, <2>3 DEF FInv
<1>2. Spec => []TypeOK BY TypeCorrect
<1>3. Spec => []MapsAgree BY MapsAlwaysAgree
<1> QED BY <1>1, <1>2, <1>3, StepFInv, PTL DEF Spec

(* Whenever no announcement of the round is outstanding, the two maps are  *)
(* what the radio's meters measure, however numbers were announced, taken  *)
(* over, removed and used again before.                                    *)
THEOREM MapsFollowTheRadio == Spec => []MapFollowsRadio
<1>1. TypeOK /\ FInv => MapFollowsRadio
  <2> SUFFICES ASSUME TypeOK, FInv, Settled
               PROVE  /\ \A m \in Meter : flexToHamlib[m] \in {None, measures[m]}
                      /\ \A l \in Level : hamlibToFlex[l] # None =>
                                              measures[hamlibToFlex[l]] = l
    BY DEF MapFollowsRadio
  <2>1. Pending = {} BY DEF Settled, Pending
  <2>2. Orderly(Pending, Queue, flexToHamlib, measures)
    BY DEF FInv, Follows, Settled
  <2>3. \A m \in Meter : flexToHamlib[m] \in {None, measures[m]}
    BY <2>1, <2>2 DEF Orderly, MapSays
  <2>4. ASSUME NEW l \in Level, hamlibToFlex[l] # None
        PROVE  measures[hamlibToFlex[l]] = l
    <3>1. hamlibToFlex[l] \in Meter BY <2>4 DEF TypeOK
    <3>2. flexToHamlib[hamlibToFlex[l]] = l
      BY <2>4 DEF FInv, Back, Settled
    <3>3. l # None BY MeterAssumption
    <3> QED BY <2>3, <3>1, <3>2, <3>3
  <2> QED BY <2>3, <2>4
<1> QED BY <1>1, SpecFInv, PTL

(* What a level reads, over Hamlib or on the status page, was measured for *)
(* that level, unless a packet crossed the announcement of its meter, that *)
(* meter had lost a level to another, or a handler of an earlier round     *)
(* wrote its update late (get_level_metering).                             *)
THEOREM LevelsReadTheirOwn == Spec => []ValueOfLevel
<1>1. TypeOK /\ FInv => ValueOfLevel
  <2> SUFFICES ASSUME TypeOK, FInv PROVE ValueOfLevel OBVIOUS
  <2>1. ASSUME NEW s \in Level, hamlibToFlex[s] # None, late = {},
               hamlibToFlex[s] \notin crossed \cup displaced
        PROVE  meterVal[hamlibToFlex[s]] \in {None, Zero, s}
    <3>1. hamlibToFlex[s] \in Meter BY <2>1 DEF TypeOK
    <3>2. flexToHamlib[hamlibToFlex[s]] = s BY <2>1 DEF FInv, Back
    <3> QED BY <2>1, <3>1, <3>2 DEF FInv, Values
  <2>2. ASSUME NEW l \in Level \cup {Alias}
        PROVE  GetLevel(l) \in {"Error", Zero, Source(l)} \/ Excused(l)
    <3>1. Source(l) \in Level BY MeterAssumption DEF Source
    <3> QED BY <2>1, <3>1 DEF GetLevel, Excused
  <2>3. ASSUME NEW e \in Page PROVE e.val \in {Zero, e.level} \/ Excused(e.level)
    <3>1. /\ e.level \in Level /\ e.val \in Level \cup {Zero, Other}
          /\ hamlibToFlex[e.level] # None
          /\ meterVal[hamlibToFlex[e.level]] = e.val
      BY DEF Page
    <3>2. Source(e.level) = e.level BY <3>1, MeterAssumption DEF Source
    <3>3. e.val # None BY <3>1, MeterAssumption
    <3> QED BY <2>1, <3>1, <3>2, <3>3 DEF Excused
  <2> QED BY <2>2, <2>3 DEF ValueOfLevel
<1> QED BY <1>1, SpecFInv, PTL
=============================================================================
