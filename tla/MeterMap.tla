------------------------------ MODULE MeterMap ------------------------------
(***************************************************************************)
(* The meters of cmd/flexy/metering.go: the maps between the radio's meter *)
(* numbers and Hamlib's level names, the handleMeters goroutine of each    *)
(* radio round that fills them, and the two readers, get_level and the     *)
(* status page's /api/meters.                                              *)
(*                                                                         *)
(* A reading is modelled by what it measures: a packet carries, for each   *)
(* meter in it, the level that meter measured when the packet was sent.    *)
(* An announcement comes over TCP, a packet over UDP, so neither waits for *)
(* the other and a packet may be lost.                                     *)
(***************************************************************************)
EXTENDS Naturals, Sequences

CONSTANTS
    Meter,       \* the radio's meter numbers
    Level,       \* the Hamlib levels that name a meter, one per case of meterUpdate
    Other,       \* what a meter measures when no case of meterUpdate names it
    None,        \* no entry
    Zero,        \* the 0 a removal stores
    Alias,       \* RFPOWER_METER: read through another level's meter
    AliasOf,     \* RFPOWER_METER_WATTS
    MaxRounds,   \* bound: radio rounds
    MaxEvents,   \* bound: announcements and removals, all rounds together
    MaxPackets,  \* bound: packets, all rounds together
    PacketBuf    \* room in meterPackets (50)

ASSUME MeterAssumption ==
    /\ None \notin Meter \cup Level \cup {Other, Zero}
    /\ Zero \notin Level /\ Alias \notin Level /\ AliasOf \in Level
    /\ MaxRounds \in Nat /\ PacketBuf \in Nat

Round == 1..MaxRounds
Kind == Level \cup {Other, None}
Update == [meter : Meter, kind : Kind]      \* kind None: a removal
Packet == [Meter -> Kind]                   \* None: the meter is not in it
Nothing == <<>>

VARIABLES
    \* --- metering.go's globals ---
    flexToHamlib, hamlibToFlex,
    meterVal,    \* a meter's value: the level it was measured for, Zero, or None
    \* --- the rounds ---
    round,       \* the current or last round
    phase,       \* runRadio: "idle", "up", "ending", "closed"
    metering,    \* cfg.Metering
    handler,     \* handler[r]: handleMeters: "none", "select", "update", "packet"
    held,        \* held[r]: what it received and has not applied
    events,      \* the announcements on their way to meterEvents
    packets,     \* packets[r]: the meterPackets channel of round r
    measures,    \* radio: what each meter measures
    sent, shot,  \* announcements and packets so far
    \* --- history ---
    crossed,     \* meters whose value a packet older than their mapping set
    displaced,   \* meters that lost their level to another and kept their value
    late         \* rounds whose handler applied an update after their last reset

maps == <<flexToHamlib, hamlibToFlex, meterVal>>
main == <<round, phase, metering>>
radio == <<measures, sent, shot>>
history == <<crossed, displaced, late>>
vars == <<maps, main, handler, held, events, packets, radio, history>>

Init ==
    /\ flexToHamlib = [m \in Meter |-> None]
    /\ hamlibToFlex = [l \in Level |-> None]
    /\ meterVal = [m \in Meter |-> None]
    /\ round = 0 /\ phase = "idle" /\ metering = TRUE
    /\ handler = [r \in Round |-> "none"]
    /\ held = [r \in Round |-> Nothing]
    /\ events = <<>>
    /\ packets = [r \in Round |-> <<>>]
    /\ measures = [m \in Meter |-> None]
    /\ sent = 0 /\ shot = 0
    /\ crossed = {} /\ displaced = {} /\ late = {}

-----------------------------------------------------------------------------
(* The maps.                                                               *)

(* resetMetering *)
Reset ==
    /\ flexToHamlib' = [m \in Meter |-> None]
    /\ hamlibToFlex' = [l \in Level |-> None]
    /\ meterVal' = [m \in Meter |-> None]

RemoveKeepsValue(m) ==
    LET rev == flexToHamlib[m]
    IN  IF rev = None
          THEN UNCHANGED maps
          ELSE /\ flexToHamlib' = [flexToHamlib EXCEPT ![m] = None]
               /\ hamlibToFlex' = [hamlibToFlex EXCEPT ![rev] = None]
               /\ UNCHANGED meterVal
RemoveOneWay(m) ==
    IF flexToHamlib[m] = None
      THEN UNCHANGED maps
      ELSE /\ flexToHamlib' = [flexToHamlib EXCEPT ![m] = None]
           /\ meterVal' = [meterVal EXCEPT ![m] = Zero]
           /\ UNCHANGED hamlibToFlex

(* meterUpdate with an empty object: only a mapped meter is forgotten.     *)
Remove(m) ==
    LET rev == flexToHamlib[m]
    IN  IF rev = None
          THEN UNCHANGED maps
          ELSE /\ flexToHamlib' = [flexToHamlib EXCEPT ![m] = None]
               /\ hamlibToFlex' = [hamlibToFlex EXCEPT ![rev] = None]
               /\ meterVal' = [meterVal EXCEPT ![m] = Zero]

MapKeepsOld(m, dest) ==
    /\ flexToHamlib' = [flexToHamlib EXCEPT ![m] = dest]
    /\ hamlibToFlex' = [hamlibToFlex EXCEPT ![dest] = m]
    /\ UNCHANGED meterVal

(* meterUpdate: a meter that measures dest takes it from another meter.    *)
Map(m, dest) ==
    LET old == hamlibToFlex[dest]
    IN  /\ flexToHamlib' =
             [n \in Meter |-> IF n = m THEN dest
                              ELSE IF n = old THEN None ELSE flexToHamlib[n]]
        /\ hamlibToFlex' = [hamlibToFlex EXCEPT ![dest] = m]
        /\ UNCHANGED meterVal

MeterUpdateSeenOnce(u) ==
    IF u.kind = None THEN Remove(u.meter)
    ELSE IF u.kind \in Level /\ meterVal[u.meter] = None THEN Map(u.meter, u.kind)
    ELSE UNCHANGED maps
MeterUpdate(u) ==
    \/ u.kind = None /\ Remove(u.meter)
    \/ u.kind \in Level /\ Map(u.meter, u.kind)
    \/ u.kind = Other /\ UNCHANGED maps

(* meterPacket: the values of the mapped meters, the others skipped.       *)
Written(p) == {m \in Meter : p[m] # None /\ flexToHamlib[m] # None}
MeterPacket(p) ==
    /\ meterVal' = [m \in Meter |-> IF m \in Written(p) THEN p[m] ELSE meterVal[m]]
    /\ UNCHANGED <<flexToHamlib, hamlibToFlex>>

(* get_level_metering, and the entries of handleAPIMeters. A value is named*)
(* after its level, whatever conv makes of it: so STRENGTH without one,    *)
(* which reads conv(0) = 73 (metering.go:25, 245-247), is Zero here too.   *)
Source(l) == IF l = Alias THEN AliasOf ELSE l
GetLevel(l) ==
    IF ~metering \/ hamlibToFlex[Source(l)] = None THEN "Error"
    ELSE IF meterVal[hamlibToFlex[Source(l)]] = None THEN Zero
    ELSE meterVal[hamlibToFlex[Source(l)]]
Page ==
    {e \in [level : Level, val : Level \cup {Zero, Other}] :
        hamlibToFlex[e.level] # None /\ meterVal[hamlibToFlex[e.level]] = e.val}

-----------------------------------------------------------------------------
(* handleMeters of round r. Both channels and ctx.Done may be ready at     *)
(* once; select then takes any of them. After fc.Close nobody sends on     *)
(* meterEvents, while what is in meterPackets can still be received.       *)

Cancelled(r) == r < round \/ phase # "up"

TakeUpdate(r) ==
    /\ handler[r] = "select" /\ r = round /\ events # <<>>
    /\ handler' = [handler EXCEPT ![r] = "update"]
    /\ held' = [held EXCEPT ![r] = Head(events)]
    /\ events' = Tail(events)
    /\ UNCHANGED <<maps, main, packets, radio, history>>

TakePacket(r) ==
    /\ handler[r] = "select" /\ packets[r] # <<>>
    /\ handler' = [handler EXCEPT ![r] = "packet"]
    /\ held' = [held EXCEPT ![r] = Head(packets[r])]
    /\ packets' = [packets EXCEPT ![r] = Tail(@)]
    /\ UNCHANGED <<maps, main, events, radio, history>>

HandlerDone(r) ==
    /\ handler[r] = "select" /\ Cancelled(r)
    /\ handler' = [handler EXCEPT ![r] = "none"]
    /\ packets' = [packets EXCEPT ![r] = <<>>]
    /\ UNCHANGED <<maps, main, held, events, radio, history>>

ApplyUpdate(r) ==
    /\ handler[r] = "update"
    /\ MeterUpdate(held[r])
    /\ handler' = [handler EXCEPT ![r] = "select"]
    /\ held' = [held EXCEPT ![r] = Nothing]
    /\ late' = IF r < round \/ phase = "idle" THEN late \cup {r} ELSE late
    /\ LET u == held[r]
           old == IF u.kind \in Level THEN hamlibToFlex[u.kind] ELSE None
       IN  /\ displaced' = IF old \notin {None, u.meter}
                             THEN displaced \cup {old} ELSE displaced
           /\ crossed' = IF flexToHamlib[u.meter] # None /\ u.kind = None
                           THEN crossed \ {u.meter} ELSE crossed
    /\ UNCHANGED <<main, events, packets, radio>>

ApplyPacket(r) ==
    /\ handler[r] = "packet"
    /\ MeterPacket(held[r])
    /\ handler' = [handler EXCEPT ![r] = "select"]
    /\ held' = [held EXCEPT ![r] = Nothing]
    /\ crossed' = (crossed \ Written(held[r])) \cup
                    {m \in Written(held[r]) : held[r][m] # flexToHamlib[m]}
    /\ displaced' = displaced \ Written(held[r])
    /\ UNCHANGED <<main, events, packets, radio, late>>

HandleMeters(r) ==
    TakeUpdate(r) \/ TakePacket(r) \/ ApplyUpdate(r) \/ ApplyPacket(r) \/ HandlerDone(r)

-----------------------------------------------------------------------------
(* runRadio, as far as it concerns the meters.                             *)

ClearHistory == crossed' = {} /\ displaced' = {}

StartRound ==
    /\ phase = "idle" /\ round < MaxRounds
    /\ round' = round + 1
    /\ phase' = "up"
    /\ IF metering
         THEN /\ Reset /\ ClearHistory
              /\ handler' = [handler EXCEPT ![round + 1] = "select"]
              /\ late' = {}
         ELSE UNCHANGED <<maps, handler, history>>
    /\ measures' = [m \in Meter |-> None]
    /\ UNCHANGED <<metering, held, events, packets, sent, shot>>

RoundCancelled ==
    /\ phase = "up"
    /\ phase' = "ending"
    /\ UNCHANGED <<maps, round, metering, handler, held, events, packets, radio, history>>

(* fc.Close and wg.Wait: the goroutine that sends the updates has gone.    *)
CloseClient ==
    /\ phase = "ending"
    /\ phase' = "closed"
    /\ events' = <<>>
    /\ UNCHANGED <<maps, round, metering, handler, held, packets, radio, history>>

EndRound ==
    /\ phase = "closed"
    /\ phase' = "idle"
    /\ Reset /\ ClearHistory
    /\ UNCHANGED <<round, metering, handler, held, events, packets, radio, late>>

(* POST /api/config writes cfg.Metering at any time.                       *)
SetMetering ==
    /\ metering' = ~metering
    /\ UNCHANGED <<maps, round, phase, handler, held, events, packets, radio, history>>

-----------------------------------------------------------------------------
(* The radio. A number is given to another meter only after its removal.   *)

Subscribed == phase \in {"up", "ending"} /\ round > 0 /\ handler[round] # "none"

Announce(m, k) ==
    /\ Subscribed /\ sent < MaxEvents
    /\ \/ k = None /\ measures[m] # None
       \/ k # None /\ measures[m] \in {None, k}
    /\ measures' = [measures EXCEPT ![m] = k]
    /\ events' = Append(events, [meter |-> m, kind |-> k])
    /\ sent' = sent + 1
    /\ UNCHANGED <<maps, main, handler, held, packets, shot, history>>

(* A packet with the meters of ms. One lost on the way, or for want of     *)
(* room in meterPackets, is one not sent.                                  *)
Transmit(ms) ==
    /\ Subscribed /\ shot < MaxPackets
    /\ ms # {} /\ \A m \in ms : measures[m] # None
    /\ Len(packets[round]) < PacketBuf
    /\ shot' = shot + 1
    /\ LET p == [m \in Meter |-> IF m \in ms THEN measures[m] ELSE None]
       IN  packets' = [packets EXCEPT ![round] = Append(@, p)]
    /\ UNCHANGED <<maps, main, handler, held, events, measures, sent, history>>

Next ==
    \/ StartRound \/ RoundCancelled \/ CloseClient \/ EndRound \/ SetMetering
    \/ \E r \in Round : HandleMeters(r)
    \/ \E m \in Meter, k \in Kind : Announce(m, k)
    \/ \E ms \in SUBSET Meter : Transmit(ms)

Spec == Init /\ [][Next]_vars

(* The goroutine of every round runs; a mutex it waits for is held for one *)
(* update or packet at a time.                                             *)
FairSpec == Spec /\ \A r \in Round : WF_vars(HandleMeters(r)) /\ SF_vars(TakeUpdate(r))

-----------------------------------------------------------------------------
TypeOK ==
    /\ flexToHamlib \in [Meter -> Level \cup {None}]
    /\ hamlibToFlex \in [Level -> Meter \cup {None}]
    /\ meterVal \in [Meter -> Kind \cup {Zero}]
    /\ round \in 0..MaxRounds
    /\ phase \in {"idle", "up", "ending", "closed"}
    /\ metering \in BOOLEAN
    /\ handler \in [Round -> {"none", "select", "update", "packet"}]
    /\ held \in [Round -> Update \cup Packet \cup {Nothing}]
    /\ \A r \in Round : /\ handler[r] = "update" => held[r] \in Update
                        /\ handler[r] = "packet" => held[r] \in Packet
    /\ events \in Seq(Update)
    /\ packets \in [Round -> Seq(Packet)]
    /\ measures \in [Meter -> Kind]
    /\ sent \in Nat /\ shot \in Nat
    /\ crossed \subseteq Meter /\ displaced \subseteq Meter
    /\ late \subseteq Round

(* No level is fed by a meter the reverse map gives to another one: what a *)
(* packet stores for a mapped meter is what its level reads, and two       *)
(* meters never feed one level (meterUpdate edits both maps in each case). *)
MapsAgree ==
    \A m \in Meter :
        flexToHamlib[m] # None => hamlibToFlex[flexToHamlib[m]] = m

(* Once every update of the round has been applied, the maps say what the  *)
(* radio says: a mapped meter measures its level and a level's meter       *)
(* measures it, whatever numbers were removed, displaced or used again. A  *)
(* handler left over from an earlier round that applies the update it had  *)
(* in hand after the new round's resetMetering is the one exception.       *)
Settled ==
    /\ Subscribed /\ late = {}
    /\ events = <<>> /\ handler[round] # "update"
MapFollowsRadio ==
    Settled => /\ \A m \in Meter : flexToHamlib[m] \in {None, measures[m]}
               /\ \A l \in Level : hamlibToFlex[l] # None =>
                                       measures[hamlibToFlex[l]] = l

(* What get_level and the status page give for a level was measured for    *)
(* that level, or is the 0 of a meter without a value. It can be another   *)
(* level's value only if a packet crossed the announcement of its meter,   *)
(* if the meter had lost a level to another meter (which keeps its value   *)
(* where a removal clears it), or if an earlier round's update came late.  *)
Excused(l) ==
    late # {} \/ hamlibToFlex[Source(l)] \in crossed \cup displaced
ValueOfLevel ==
    /\ \A l \in Level \cup {Alias} :
           GetLevel(l) \in {"Error", Zero, Source(l)} \/ Excused(l)
    /\ \A e \in Page : e.val \in {Zero, e.level} \/ Excused(e.level)

(* Between two rounds no level can be read: nothing of the old radio is    *)
(* left, unless the old round's handler still had an update in hand.       *)
NothingBetweenRounds ==
    phase = "idle" /\ late = {} =>
        /\ Page = {}
        /\ \A l \in Level \cup {Alias} : GetLevel(l) = "Error"

(* A level the radio has announced a meter for becomes readable, whatever  *)
(* else the radio announces, removes or measures meanwhile, unless the     *)
(* round ends, the radio removes the meter, another meter of the same      *)
(* level takes its place, or an earlier round's update comes late.         *)
Announced(l) == Subscribed /\ \E m \in Meter \ displaced : measures[m] = l
AnnouncedBecomesReadable ==
    \A l \in Level :
        Announced(l) ~> hamlibToFlex[l] # None \/ ~Announced(l) \/ phase # "up" \/ late # {}
=============================================================================
