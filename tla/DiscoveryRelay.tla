--------------------------- MODULE DiscoveryRelay ---------------------------
(***************************************************************************)
(* What a run that Startup got as far as serving tells SmartSDR clients    *)
(* about the radio: the discovery relay (startDiscoveryRelay,              *)
(* cmd/flexy/proxy.go), the proxy it advertises (startSmartSDRProxy), and  *)
(* the rebroadcaster of another site (cmd/flexy-discovery/main.go) that    *)
(* the relay reaches as a Tailscale peer.                                  *)
(*                                                                         *)
(* A packet stays on its network once sent, so that it may be received     *)
(* late, again and after others; that it may be lost needs no step.        *)
(***************************************************************************)
EXTENDS Startup

CONSTANTS
    RadioPackets,   \* packets the radios and others send on Flexy's network
    FarPackets,     \* packets that come to the other site by themselves
    FlexyLAN,       \* the address Flexy broadcasts from
    FlexyTailnet,   \* the address its unicasts to the peer come from
    FarLAN,         \* the address the rebroadcaster broadcasts from
    AllowFrom,      \* addresses the rebroadcaster trusts
    NServed,
    TTL             \* age at which the list of peers is asked for again

(* A packet as others send it: its sender, the radio it is about, the      *)
(* address and port to connect to, whether it has gui_client fields, its   *)
(* length, whether it has all the fields the relay asks for, and how often *)
(* the relay and the rebroadcaster have passed it on.                      *)
Fields == {"src", "radio", "ip", "port", "gui", "size", "fields", "marks", "copies"}

(* A rebroadcaster that trusts its own network would hear itself, and so   *)
(* would a relay whose radio is said to have Flexy's address.              *)
ASSUME RelayAssumption ==
    /\ FarLAN \notin AllowFrom
    /\ TTL \in Nat \ {0}
    /\ \A p \in RadioPackets \cup FarPackets :
          DOMAIN p = Fields /\ p.marks = 0 /\ p.copies = 0 /\ p.radio = p.src
    /\ \A f \in Files \cup CommandLines \cup Answers :
          "radio" \in DOMAIN f => f["radio"] # FlexyLAN
    /\ \A p \in Posts : p[1] = "radio" => p[2] # FlexyLAN
    /\ \A b \in Lists : \A i \in DOMAIN b : b[i] # FlexyLAN
    /\ FlexyLAN \notin {Defaults["radio"], Blank}

VARIABLES
    relay,      \* startDiscoveryRelay: "off", "on", "failed"
    proxyPort,  \* the port the proxy listens on, "" while or if it does not
    rc,         \* the RadioContext: "nil" or what SetDiscovery showed last
    air,        \* packets on Flexy's network
    far,        \* packets on the other site's
    online,     \* tailscale lists the peer as online
    peerCache,  \* the peer is in tsPeerCache
    age         \* how old that is

relayVars == <<relay, proxyPort, rc, air, far, online, peerCache, age>>
vars == <<startupVars, pickerVars, relayVars>>

RelayInit ==
    /\ Init
    /\ relay = "off" /\ proxyPort = Blank /\ rc = "nil"
    /\ air = {} /\ far = {}
    /\ online = FALSE /\ peerCache = FALSE /\ age = TTL

RelayGone ==
    /\ relay' = "off" /\ proxyPort' = Blank /\ rc' = "nil"
    /\ air' = {} /\ far' = {}
    /\ online' = FALSE /\ peerCache' = FALSE /\ age' = TTL

-----------------------------------------------------------------------------
(* Bound: the networks are followed in the first NServed runs.             *)
Serving == phase = "run" /\ proxyIP # Blank /\ runs <= NServed

(* startSmartSDRProxy: the context is there whether or not it can listen.  *)
ProxyListens ==
    /\ Serving /\ rc = "nil"
    /\ rc' = "set"
    /\ proxyPort' \in {Split[cfg["proxy"]][2], Blank}
    /\ UNCHANGED <<relay, air, far, online, peerCache, age>>

RelayListens ==
    /\ Serving /\ relay = "off"
    /\ relay' \in {"on", "failed"}
    /\ UNCHANGED <<proxyPort, rc, air, far, online, peerCache, age>>

(* tailscaleOnlinePeers: the list is asked for when it is TTL old.         *)
(* Mutant of AgeAfterUse: every use makes the list young again.            *)
AgeSliding(a) == 0
AgeAfterUse(a) == IF a < TTL THEN a ELSE 0
Peers == IF age < TTL THEN peerCache ELSE online

(* Mutant of Relayable: whoever sent it.                                   *)
RelayableFromAnyone(p) == p.size >= 12 /\ p.fields
Relayable(p) == p.src = cfg["radio"] /\ p.size >= 12 /\ p.fields

(* The radio's packet as the proxy's: address, port, nickname, and none of *)
(* the gui_client fields.                                                  *)
(* Mutant of Rewritten: the port is left as the radio gave it.             *)
RewrittenAddressOnly(p) ==
    [p EXCEPT !.src = FlexyLAN, !.ip = proxyIP, !.marks = @ + 1, !.gui = FALSE]
Rewritten(p) ==
    [p EXCEPT !.src = FlexyLAN, !.ip = proxyIP, !.marks = @ + 1, !.gui = FALSE,
              !.port = OrElse(Split[cfg["proxy"]][2], @)]

(* Bound: a packet is not followed further than its third mark.            *)
RelayPacket(p) ==
    /\ Serving /\ relay = "on" /\ p \in air /\ Relayable(p) /\ p.marks < 3
    /\ peerCache' = Peers
    /\ age' = AgeAfterUse(age)
    /\ rc' = IF rc = "nil" THEN rc ELSE IF Peers THEN "shows peer" ELSE "shows none"
    /\ air' = air \cup {Rewritten(p)}
    /\ far' = far \cup {[q EXCEPT !.src = FlexyTailnet] : q \in {x \in {Rewritten(p)} : Peers /\ online}}
    /\ UNCHANGED <<relay, proxyPort, online>>

(* flexy-discovery's run: to every broadcast address of its own networks,  *)
(* where its own socket hears it too.                                      *)
Rebroadcast(p) ==
    /\ p \in far /\ p.src \in AllowFrom /\ p.size >= 28 /\ p.copies < 3
    /\ far' = far \cup {[p EXCEPT !.src = FarLAN, !.copies = @ + 1]}
    /\ UNCHANGED <<relay, proxyPort, rc, air, online, peerCache, age>>

(* The networks.                                                           *)
Broadcasts(p) ==
    /\ Serving /\ p \notin air
    /\ air' = air \cup {p}
    /\ UNCHANGED <<relay, proxyPort, rc, far, online, peerCache, age>>
ComesByItself(p) ==
    /\ Serving /\ p \notin far
    /\ far' = far \cup {p}
    /\ UNCHANGED <<relay, proxyPort, rc, air, online, peerCache, age>>
Tick ==
    /\ Serving /\ age < TTL
    /\ age' = age + 1
    /\ UNCHANGED <<relay, proxyPort, rc, air, far, online, peerCache>>
PeerComesOrGoes ==
    /\ Serving
    /\ online' = ~online
    /\ UNCHANGED <<relay, proxyPort, rc, air, far, peerCache, age>>

RelayStep ==
    \/ ProxyListens \/ RelayListens
    \/ \E p \in air : RelayPacket(p)
    \/ \E p \in far : Rebroadcast(p)
    \/ \E p \in RadioPackets : Broadcasts(p)
    \/ \E p \in FarPackets : ComesByItself(p)
    \/ Tick \/ PeerComesOrGoes

Next ==
    \/ StartupStep /\ IF phase' = "run" THEN UNCHANGED relayVars ELSE RelayGone
    \/ RelayStep /\ UNCHANGED <<startupVars, pickerVars>>

(* The goroutines of the picker and the relay run, and time passes.        *)
Spec ==
    /\ RelayInit /\ [][Next]_vars
    /\ PickerFairness
    /\ WF_vars(Tick /\ UNCHANGED <<startupVars, pickerVars>>)
    /\ WF_vars((\E p \in air : RelayPacket(p)) /\ UNCHANGED <<startupVars, pickerVars>>)

-----------------------------------------------------------------------------
TypeOK ==
    /\ phase \in {"shell", "form", "write", "tui", "listen", "services", "run"}
    /\ \A c \in {cfg, settings} :
          DOMAIN c = Keys /\ {c["listen"], c["web"], c["proxy"]} \subseteq DOMAIN Split
    /\ DOMAIN file \subseteq Keys /\ DOMAIN flags \subseteq Keys
    /\ fc \in {"nil", "live", "closed"}
    /\ CursorInList
    /\ tui = "off" <=> phase # "tui"
    /\ relay \in {"off", "on", "failed"} /\ age \in 0..TTL
    /\ air \cup far # {} => Serving

(* What clients are told under Flexy's name is about the radio this run    *)
(* proxies, and where its proxy listens, if it could listen and nobody has *)
(* changed radio or port from the web since.                               *)
AdvertisedIsServed ==
    \A p \in air \cup far : p.marks > 0 =>
        /\ p.ip = proxyIP /\ ~p.gui
        /\ "radio" \notin posted => p.radio = cfg["radio"]
        /\ "proxy" \notin posted /\ proxyPort # Blank => p.port = proxyPort

(* No packet is relayed or rebroadcast twice: relay and rebroadcaster hear *)
(* what they send, and each of them must take it for somebody else's.      *)
NoEcho == \A p \in air \cup far : p.marks <= 1 /\ p.copies <= 1

(* A peer that has come online and stays is addressed from some time on,   *)
(* while the radio keeps broadcasting: the cached list does not outlive    *)
(* its ten seconds however often it is used.                               *)
Relaying == Serving /\ relay = "on" /\ \E p \in air : Relayable(p)
PeerIsReached == <>[](Relaying /\ online) => <>[]peerCache
=============================================================================
