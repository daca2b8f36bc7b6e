------------------------ MODULE DiscoveryRelayProofs ------------------------
(***************************************************************************)
(* Theorems about what a run of flexy starts with and what it tells the    *)
(* networks. RInv is the inductive invariant: the picker's lists are lists *)
(* that discovery reported, both configurations are complete and sound,    *)
(* the file holds what the last finished wizard run saved, and every       *)
(* packet on a network is somebody else's or one that was passed on once.  *)
(***************************************************************************)
EXTENDS DiscoveryRelay, SequenceTheorems, TLAPS

(* The lists of radios on their way, and the empty one the variables begin *)
(* with.                                                                   *)
Batch == Lists \cup {<<>>}
Address == {Blank} \cup UNION {{b[i] : i \in DOMAIN b} : b \in Lists}

PickerOK ==
    /\ tui \in {"off", "on", "done"}
    /\ raw \in Seq(Batch) /\ out \in Seq(Batch)
    /\ held \in Batch /\ msg \in Batch
    /\ ui \in [state : {"discovering", "select"}, radios : Batch, cursor : Nat \ {0}]
    /\ CursorInList
    /\ picked \in Address

(* A complete configuration, and what a file may hold.                     *)
Whole(c) ==
    /\ DOMAIN c = Keys
    /\ \A k \in Keys : Sound(k, c[k])
    /\ c["radio"] # FlexyLAN
Stored(f) ==
    /\ DOMAIN f \subseteq Keys
    /\ \A k \in DOMAIN f : Sound(k, f[k]) /\ f[k] # Blank
    /\ "radio" \in DOMAIN f => f["radio"] # FlexyLAN

SettingsOK ==
    /\ Stored(file) /\ Whole(settings) /\ Whole(cfg)
    /\ DOMAIN flags \subseteq Keys
    /\ phase = "form" => form = Proposed(settings) /\ settings["log_level"] # Blank
    /\ phase # "write" /\ wanted # Empty => file = Saved(wanted)

PhaseOK ==
    /\ phase \in {"shell", "form", "write", "tui", "listen", "services", "run"}
    /\ fc \in {"nil", "live", "closed"}
    /\ tui = "off" <=> phase # "tui"

(* What a packet marked as Flexy's says.                                   *)
Tells(p) ==
    /\ p.ip = proxyIP /\ ~p.gui
    /\ "radio" \notin posted => p.radio = cfg["radio"]
    /\ "proxy" \notin posted /\ Split[cfg["proxy"]][2] # Blank =>
           p.port = Split[cfg["proxy"]][2]

(* A packet on Flexy's network is one of others or a relayed one, which    *)
(* Flexy's own address keeps from being relayed again; on the other site's *)
(* a rebroadcast one is kept from it by the rebroadcaster's address.       *)
NetworksOK ==
    /\ relay \in {"off", "on", "failed"} /\ age \in 0..TTL
    /\ air \cup far # {} \/ proxyPort # Blank => Serving
    /\ \A p \in air : p \in RadioPackets \/ (p.src = FlexyLAN /\ p.marks = 1 /\ p.copies = 0)
    /\ \A p \in far : p.marks \in {0, 1} /\ (p.copies = 0 \/ (p.src = FarLAN /\ p.copies = 1))
    /\ \A p \in air \cup far : DOMAIN p = Fields /\ (p.marks > 0 => Tells(p))
    /\ proxyPort # Blank /\ "proxy" \notin posted => proxyPort = Split[cfg["proxy"]][2]

RInv == PickerOK /\ SettingsOK /\ PhaseOK /\ NetworksOK

-----------------------------------------------------------------------------
(* Settings.                                                               *)

LEMMA OverFacts ==
    ASSUME NEW f, NEW g
    PROVE  /\ DOMAIN Over(f, g) = DOMAIN f \cup DOMAIN g
           /\ \A k \in DOMAIN f \cup DOMAIN g :
                 Over(f, g)[k] = IF k \in DOMAIN f THEN f[k] ELSE g[k]
BY DEF Over

LEMMA DefaultsWhole == Whole(Defaults) /\ Defaults["log_level"] # Blank
<1>1. DOMAIN Defaults = Keys BY DEF Defaults, Over, Keys
<1>2. Defaults["radio"] # FlexyLAN BY RelayAssumption
<1>3. Defaults["log_level"] = "info" BY DEF Defaults, Over, Keys
<1>4. \A k \in Keys : Sound(k, Defaults[k]) BY InputAssumption
<1>5. "info" # Blank BY DEF Blank
<1> QED BY <1>1, <1>2, <1>3, <1>4, <1>5 DEF Whole

(* Load: what the file leaves out takes its default.                       *)
LEMMA LoadWhole ==
    ASSUME NEW f, Stored(f)
    PROVE  Whole(Load(f)) /\ Load(f)["log_level"] # Blank
<1>1. DOMAIN f \subseteq Keys /\ DOMAIN Defaults = Keys BY DefaultsWhole DEF Stored, Whole
<1>2. DOMAIN Load(f) = Keys BY <1>1, OverFacts DEF Load
<1>3. \A k \in Keys : Load(f)[k] = IF k \in DOMAIN f THEN f[k] ELSE Defaults[k]
  BY <1>1 DEF Load, Over
<1>4. \A k \in Keys : Sound(k, Load(f)[k]) BY <1>3, DefaultsWhole DEF Stored, Whole
<1>5. "radio" \in Keys /\ "log_level" \in Keys BY DEF Keys
<1>6. Load(f)["radio"] # FlexyLAN BY <1>3, <1>5, DefaultsWhole DEF Stored, Whole
<1>7. Load(f)["log_level"] # Blank BY <1>3, <1>5, DefaultsWhole DEF Stored
<1> QED BY <1>2, <1>4, <1>6, <1>7 DEF Whole

LEMMA SavedStored == ASSUME NEW c, Whole(c) PROVE Stored(Saved(c))
<1>1. DOMAIN Saved(c) = {k \in Keys : c[k] # Blank} BY DEF Saved
<1>2. \A k \in DOMAIN Saved(c) : Saved(c)[k] = c[k] BY DEF Saved
<1> HIDE DEF Saved
<1> QED BY <1>1, <1>2 DEF Stored, Whole

LEMMA SavedLost == Saved(Lost) = Empty
BY DEF Saved, Lost, Empty

LEMMA ApplyWhole ==
    ASSUME NEW c, Whole(c), NEW fl \in CommandLines
    PROVE  Whole(applyConfigFile(c, fl))
<1> DEFINE r == applyConfigFile(c, fl)
           d == Over(fl, Defaults)
<1>1. DOMAIN fl \subseteq Keys /\ \A k \in DOMAIN fl : Sound(k, fl[k])
  BY InputAssumption DEF SoundSettings
<1>2. "radio" \in DOMAIN fl => fl["radio"] # FlexyLAN BY RelayAssumption
<1>3. \A k \in Keys : d[k] = IF k \in DOMAIN fl THEN fl[k] ELSE Defaults[k]
  BY <1>1, DefaultsWhole DEF Whole, Over
<1>4. DOMAIN r = Keys /\ \A k \in Keys : r[k] = IF k \in DOMAIN fl \/ c[k] = Blank
                                                  THEN d[k] ELSE c[k]
  BY DEF applyConfigFile
<1> HIDE DEF d, r
<1>5. \A k \in Keys : r[k] \in {d[k], c[k]} BY <1>4
<1>6. \A k \in Keys : Sound(k, d[k]) BY <1>1, <1>3, DefaultsWhole DEF Whole
<1>7. "radio" \in Keys BY DEF Keys
<1>8. d["radio"] # FlexyLAN BY <1>2, <1>3, <1>7, DefaultsWhole DEF Whole
<1>9. \A k \in Keys : Sound(k, r[k]) BY <1>5, <1>6 DEF Whole
<1>10. r["radio"] # FlexyLAN BY <1>5, <1>7, <1>8 DEF Whole
<1>11. Whole(r) BY <1>4, <1>9, <1>10 DEF Whole
<1> QED BY <1>11 DEF r

FormFields == {"radio", "station", "slice", "catIP", "customCatIP", "catPort", "webIP",
               "customWebIP", "webPort", "proxyIP", "customProxyIP", "proxyPort", "advIP",
               "customAdvIP", "udpPort", "logLevel", "headless"}

(* The fields of the form that make up an address depend on that address.  *)
LEMMA ProposedFields ==
    ASSUME NEW c, NEW d
    PROVE  /\ DOMAIN Proposed(c) = FormFields
           /\ c["listen"] = d["listen"] =>
                 \A k \in {"catIP", "customCatIP", "catPort"} : Proposed(c)[k] = Proposed(d)[k]
           /\ c["web"] = d["web"] =>
                 \A k \in {"webIP", "customWebIP", "webPort"} : Proposed(c)[k] = Proposed(d)[k]
           /\ c["proxy"] = d["proxy"] =>
                 \A k \in {"proxyIP", "customProxyIP", "proxyPort"} :
                    Proposed(c)[k] = Proposed(d)[k]
           /\ Proposed(c)["radio"] = c["radio"]
<1>1. DOMAIN Proposed(c) = FormFields BY DEF Proposed, FormFields
<1>2. c["listen"] = d["listen"] =>
         \A k \in {"catIP", "customCatIP", "catPort"} : Proposed(c)[k] = Proposed(d)[k]
  BY DEF Proposed
<1>3. c["web"] = d["web"] =>
         \A k \in {"webIP", "customWebIP", "webPort"} : Proposed(c)[k] = Proposed(d)[k]
  BY DEF Proposed
<1>4. c["proxy"] = d["proxy"] =>
         \A k \in {"proxyIP", "customProxyIP", "proxyPort"} : Proposed(c)[k] = Proposed(d)[k]
  BY DEF Proposed
<1>5. Proposed(c)["radio"] = c["radio"] BY DEF Proposed
<1> QED BY <1>1, <1>2, <1>3, <1>4, <1>5

(* What the wizard makes of each setting.                                  *)
LEMMA ReassembledKeys ==
    ASSUME NEW c, DOMAIN c = Keys, NEW f
    PROVE  /\ DOMAIN Reassembled(c, f) = Keys
           /\ Reassembled(c, f)["radio"] = f["radio"]
           /\ Reassembled(c, f)["station"] = f["station"]
           /\ Reassembled(c, f)["slice"] = f["slice"]
           /\ Reassembled(c, f)["listen"] = Listen(f["catIP"], f["customCatIP"], f["catPort"])
           /\ Reassembled(c, f)["web"] = Service(f["webIP"], f["customWebIP"], f["webPort"])
           /\ Reassembled(c, f)["proxy"] =
                 Service(f["proxyIP"], f["customProxyIP"], f["proxyPort"])
           /\ Reassembled(c, f)["proxy_ip"] = Chosen(f["advIP"], f["customAdvIP"])
           /\ Reassembled(c, f)["udp_port"] = Atoi(f["udpPort"])
           /\ Reassembled(c, f)["log_level"] = f["logLevel"]
           /\ Reassembled(c, f)["headless"] =
                 IF f["headless"] = "headless" THEN "true" ELSE Blank
           /\ \A k \in Keys \ {"radio", "station", "slice", "listen", "web", "proxy",
                               "proxy_ip", "udp_port", "log_level", "headless"} :
                 Reassembled(c, f)[k] = c[k]
<1> DEFINE h == [radio |-> f["radio"], station |-> f["station"], slice |-> f["slice"],
          listen |-> Listen(f["catIP"], f["customCatIP"], f["catPort"]),
          web |-> Service(f["webIP"], f["customWebIP"], f["webPort"]),
          proxy |-> Service(f["proxyIP"], f["customProxyIP"], f["proxyPort"]),
          proxy_ip |-> Chosen(f["advIP"], f["customAdvIP"]),
          udp_port |-> Atoi(f["udpPort"]), log_level |-> f["logLevel"],
          headless |-> IF f["headless"] = "headless" THEN "true" ELSE Blank]
           Shown10 == {"radio", "station", "slice", "listen", "web", "proxy",
                       "proxy_ip", "udp_port", "log_level", "headless"}
<1>1. Reassembled(c, f) = Over(h, c) BY DEF Reassembled
<1>2. DOMAIN h = Shown10 OBVIOUS
<1>3. /\ h["radio"] = f["radio"] /\ h["station"] = f["station"] /\ h["slice"] = f["slice"]
      /\ h["listen"] = Listen(f["catIP"], f["customCatIP"], f["catPort"])
      /\ h["web"] = Service(f["webIP"], f["customWebIP"], f["webPort"])
      /\ h["proxy"] = Service(f["proxyIP"], f["customProxyIP"], f["proxyPort"])
      /\ h["proxy_ip"] = Chosen(f["advIP"], f["customAdvIP"])
      /\ h["udp_port"] = Atoi(f["udpPort"])
      /\ h["log_level"] = f["logLevel"]
      /\ h["headless"] = IF f["headless"] = "headless" THEN "true" ELSE Blank
  OBVIOUS
<1>4. Shown10 \subseteq Keys BY DEF Keys
<1> HIDE DEF h
<1>5. DOMAIN Reassembled(c, f) = Keys BY <1>1, <1>2, <1>4 DEF Over
<1>6. \A k \in Shown10 : Reassembled(c, f)[k] = h[k] BY <1>1, <1>2 DEF Over
<1>7. \A k \in Keys \ Shown10 : Reassembled(c, f)[k] = c[k] BY <1>1, <1>2 DEF Over
<1> QED BY <1>3, <1>5, <1>6, <1>7

(* Fill: whatever the user changes, the wizard makes a configuration.      *)
LEMMA ReassembledWhole ==
    ASSUME NEW c, Whole(c), NEW a \in Answers
    PROVE  Whole(Reassembled(c, Over(a, Proposed(c))))
<1> DEFINE f == Over(a, Proposed(c))
           r == Reassembled(c, f)
           Like(x) == Over(a, Proposed([k \in Keys |-> x]))
<1>1. DOMAIN c = Keys /\ c["listen"] \in DOMAIN Split /\ c["web"] \in DOMAIN Split
      /\ c["proxy"] \in DOMAIN Split /\ c["radio"] # FlexyLAN
  BY DEF Whole, Sound, Keys
<1>2. \A k \in FormFields : f[k] = IF k \in DOMAIN a THEN a[k] ELSE Proposed(c)[k]
  BY ProposedFields DEF Over
<1>3. \A x : \A k \in FormFields :
         Like(x)[k] = IF k \in DOMAIN a THEN a[k] ELSE Proposed([j \in Keys |-> x])[k]
  BY ProposedFields DEF Over
<1>4. \A x : \A k \in {"listen", "web", "proxy"} : [j \in Keys |-> x][k] = x BY DEF Keys
<1>5. \A k \in {"catIP", "customCatIP", "catPort"} : f[k] = Like(c["listen"])[k]
  <2>1. \A k \in {"catIP", "customCatIP", "catPort"} :
           Proposed(c)[k] = Proposed([j \in Keys |-> c["listen"]])[k]
    BY <1>4, ProposedFields
  <2>2. \A k \in {"catIP", "customCatIP", "catPort"} : k \in FormFields BY DEF FormFields
  <2> HIDE DEF f, Like
  <2> QED BY <1>2, <1>3, <2>1, <2>2
<1>6. \A k \in {"webIP", "customWebIP", "webPort"} : f[k] = Like(c["web"])[k]
  <2>1. \A k \in {"webIP", "customWebIP", "webPort"} :
           Proposed(c)[k] = Proposed([j \in Keys |-> c["web"]])[k]
    BY <1>4, ProposedFields
  <2>2. \A k \in {"webIP", "customWebIP", "webPort"} : k \in FormFields BY DEF FormFields
  <2> HIDE DEF f, Like
  <2> QED BY <1>2, <1>3, <2>1, <2>2
<1>7. \A k \in {"proxyIP", "customProxyIP", "proxyPort"} : f[k] = Like(c["proxy"])[k]
  <2>1. \A k \in {"proxyIP", "customProxyIP", "proxyPort"} :
           Proposed(c)[k] = Proposed([j \in Keys |-> c["proxy"]])[k]
    BY <1>4, ProposedFields
  <2>2. \A k \in {"proxyIP", "customProxyIP", "proxyPort"} : k \in FormFields BY DEF FormFields
  <2> HIDE DEF f, Like
  <2> QED BY <1>2, <1>3, <2>1, <2>2
<1>8. \A x \in DOMAIN Split :
         /\ Listen(Like(x)["catIP"], Like(x)["customCatIP"], Like(x)["catPort"]) \in DOMAIN Split
         /\ Service(Like(x)["webIP"], Like(x)["customWebIP"], Like(x)["webPort"]) \in DOMAIN Split
         /\ Service(Like(x)["proxyIP"], Like(x)["customProxyIP"], Like(x)["proxyPort"])
               \in DOMAIN Split
  BY SplitAssumption
<1>9. f["radio"] # FlexyLAN
  <2>1. "radio" \in FormFields BY DEF FormFields
  <2>2. "radio" \in DOMAIN a => a["radio"] # FlexyLAN BY RelayAssumption
  <2>3. Proposed(c)["radio"] = c["radio"] BY ProposedFields
  <2> QED BY <2>1, <2>2, <2>3, <1>1, <1>2
<1> HIDE DEF f, Like
<1>10. r["listen"] \in DOMAIN Split /\ r["web"] \in DOMAIN Split /\ r["proxy"] \in DOMAIN Split
  BY <1>1, <1>5, <1>6, <1>7, <1>8, ReassembledKeys
<1>11. r["udp_port"] \in UDPPorts \cup {Blank}
  <2>1. r["udp_port"] = Atoi(f["udpPort"]) BY <1>1, ReassembledKeys
  <2> QED BY <2>1 DEF Atoi
<1>12. r["headless"] \in {"true", Blank}
  <2>1. r["headless"] = IF f["headless"] = "headless" THEN "true" ELSE Blank
    BY <1>1, ReassembledKeys
  <2> HIDE DEF r
  <2> QED BY <2>1
<1>13. DOMAIN r = Keys /\ r["radio"] = f["radio"]
  <2>1. DOMAIN r = Keys BY <1>1, ReassembledKeys
  <2>2. r["radio"] = f["radio"] BY <1>1, ReassembledKeys
  <2> QED BY <2>1, <2>2
<1> HIDE DEF r
<1>14. \A k \in Keys : Sound(k, r[k]) BY <1>10, <1>11, <1>12 DEF Sound
<1>15. Whole(r) BY <1>9, <1>13, <1>14 DEF Whole
<1> QED BY <1>15 DEF r, f

-----------------------------------------------------------------------------
(* The picker.                                                             *)

LEMMA BatchFacts ==
    /\ \A b \in Batch : Len(b) \in Nat /\ DOMAIN b = 1..Len(b) /\ (b # <<>> => Len(b) > 0)
    /\ \A b \in Batch : \A i \in DOMAIN b : b[i] \in Address
<1>1. ASSUME NEW b \in Batch
      PROVE  Len(b) \in Nat /\ DOMAIN b = 1..Len(b) /\ (b # <<>> => Len(b) > 0)
  <2> DEFINE S == {b[i] : i \in DOMAIN b}
  <2>1. b \in Seq(S)
    <3>1. CASE b \in Lists BY <3>1, ListsAssumption
    <3>2. CASE b = <<>>
      <4> HIDE DEF S
      <4> QED BY <3>2, EmptySeq
    <3> QED BY <3>1, <3>2 DEF Batch
  <2> HIDE DEF S
  <2> QED BY <2>1, EmptySeq
<1>2. ASSUME NEW b \in Batch, NEW i \in DOMAIN b PROVE b[i] \in Address
  <2>1. CASE b \in Lists BY <2>1 DEF Address
  <2>2. CASE b = <<>> BY <2>2
  <2> QED BY <2>1, <2>2 DEF Batch
<1> QED BY <1>1, <1>2

(* newTUIModel: a picker that has seen nothing.                            *)
LEMMA FreshOK == ASSUME NEW r \in {"on", "off"}, Fresh(r) PROVE PickerOK' /\ tui' = r
<1> DEFINE u == [state |-> "discovering", radios |-> <<>>, cursor |-> 1]
<1>1. <<>> \in Batch /\ Blank \in Address BY DEF Batch, Address
<1>2. <<>> \in Seq(Batch) BY EmptySeq
<1>3. u \in [state : {"discovering", "select"}, radios : Batch, cursor : Nat \ {0}] BY <1>1
<1>4. u.radios = <<>> OBVIOUS
<1> HIDE DEF u
<1>5. ui' = u BY DEF Fresh, u
<1>6. CursorInList' BY <1>4, <1>5 DEF CursorInList
<1> QED BY <1>1, <1>2, <1>3, <1>5, <1>6 DEF Fresh, PickerOK

LEMMA PickerStepOK ==
    ASSUME PickerOK, PickerStep
    PROVE  PickerOK' /\ tui = "on" /\ tui' \in {"on", "done"}
<1>t. /\ raw \in Seq(Batch) /\ out \in Seq(Batch) /\ held \in Batch /\ msg \in Batch
      /\ ui \in [state : {"discovering", "select"}, radios : Batch, cursor : Nat \ {0}]
      /\ CursorInList /\ picked \in Address
  BY DEF PickerOK
<1>e. <<>> \in Seq(Batch) BY EmptySeq
<1>o. \A b \in Batch : <<b>> \in Seq(Batch) OBVIOUS
<1>f. \A q \in Seq(Batch) : q # <<>> => Head(q) \in Batch BY HeadTailProperties
<1>1. ASSUME NEW b \in Lists, Hear(b) PROVE PickerOK' /\ tui = "on" /\ tui' \in {"on", "done"}
  <2>1. b \in Batch BY DEF Batch
  <2>2. tui = "on" /\ raw' = <<b>>
        /\ UNCHANGED <<tui, scan, held, out, asking, msg, ui, cancelled, picked>>
    BY <1>1 DEF Hear
  <2>3. raw' \in Seq(Batch) BY <2>1, <2>2, <1>o
  <2> QED BY <2>2, <2>3, <1>t DEF PickerOK, CursorInList
<1>2. ASSUME TakeBatch PROVE PickerOK' /\ tui = "on" /\ tui' \in {"on", "done"}
  <2>1. tui = "on" /\ raw # <<>> /\ held' = Head(raw) /\ raw' = <<>>
        /\ UNCHANGED <<tui, out, asking, msg, ui, cancelled, picked, batches, latest>>
    BY <1>2 DEF TakeBatch
  <2>2. held' \in Batch /\ raw' \in Seq(Batch) BY <2>1, <1>t, <1>e, <1>f
  <2> QED BY <2>1, <2>2, <1>t DEF PickerOK, CursorInList
<1>3. ASSUME Offer \/ Drain \/ SendOut
      PROVE  PickerOK' /\ tui = "on" /\ tui' \in {"on", "done"}
  <2>1. /\ tui = "on" /\ out' \in {out, <<held>>, <<>>}
        /\ UNCHANGED <<tui, raw, held, asking, msg, ui, cancelled, picked, batches, latest>>
    BY <1>3 DEF Offer, Drain, SendOut
  <2>2. out' \in Seq(Batch) BY <2>1, <1>t, <1>e, <1>o
  <2> QED BY <2>1, <2>2, <1>t DEF PickerOK, CursorInList
<1>4. ASSUME WaitForRadios PROVE PickerOK' /\ tui = "on" /\ tui' \in {"on", "done"}
  <2>1. tui = "on" /\ out # <<>> /\ msg' = Head(out) /\ out' = <<>>
        /\ UNCHANGED <<tui, raw, scan, held, ui, cancelled, picked, batches, latest>>
    BY <1>4 DEF WaitForRadios
  <2>2. msg' \in Batch /\ out' \in Seq(Batch) BY <2>1, <1>t, <1>e, <1>f
  <2> QED BY <2>1, <2>2, <1>t DEF PickerOK, CursorInList
<1>5. ASSUME UpdateRadios PROVE PickerOK' /\ tui = "on" /\ tui' \in {"on", "done"}
  <2>1. tui = "on" /\ ui' = Shown(msg)
        /\ UNCHANGED <<tui, raw, scan, held, out, msg, cancelled, picked, batches, latest>>
    BY <1>5 DEF UpdateRadios
  <2> DEFINE n == IF msg # <<>> /\ ui.cursor > Len(msg) THEN 1 ELSE ui.cursor
             st == IF msg = <<>> THEN ui.state ELSE "select"
  <2>c. ui.cursor \in Nat \ {0} /\ ui.state \in {"discovering", "select"} BY <1>t
  <2>n. n \in Nat \ {0} BY <2>c
  <2>s. st \in {"discovering", "select"} BY <2>c
  <2>u. ui' = [ui EXCEPT !.radios = msg, !.state = st, !.cursor = n] BY <2>1 DEF Shown
  <2>3. msg # <<>> => n \in DOMAIN msg
    <3>1. Len(msg) \in Nat /\ DOMAIN msg = 1..Len(msg) /\ (msg # <<>> => Len(msg) > 0)
      BY <1>t, BatchFacts
    <3>2. ui.cursor \in Nat \ {0} BY <1>t
    <3> QED BY <3>1, <3>2
  <2> HIDE DEF n, st
  <2>2. /\ ui'.radios = msg /\ ui'.cursor = n
        /\ ui' \in [state : {"discovering", "select"}, radios : Batch, cursor : Nat \ {0}]
    BY <2>u, <2>n, <2>s, <1>t
  <2>4. CursorInList' BY <2>2, <2>3 DEF CursorInList
  <2> QED BY <2>1, <2>2, <2>4, <1>t DEF PickerOK
<1>6. ASSUME Move PROVE PickerOK' /\ tui = "on" /\ tui' \in {"on", "done"}
  <2>1. tui = "on"
        /\ UNCHANGED <<tui, raw, scan, held, out, asking, msg, cancelled, picked, batches, latest>>
    BY <1>6 DEF Move
  <2>2. \/ ui.cursor > 1 /\ ui' = [ui EXCEPT !.cursor = @ - 1]
        \/ ui.cursor < Len(ui.radios) /\ ui' = [ui EXCEPT !.cursor = @ + 1]
    BY <1>6 DEF Move
  <2>3. /\ ui.cursor \in Nat \ {0} /\ ui.radios \in Batch
        /\ ui.radios # <<>> => ui.cursor \in DOMAIN ui.radios
    BY <1>t DEF CursorInList
  <2>4. Len(ui.radios) \in Nat /\ DOMAIN ui.radios = 1..Len(ui.radios)
    BY <2>3, BatchFacts
  <2>5. PICK n \in Nat \ {0} : /\ ui' = [ui EXCEPT !.cursor = n]
                               /\ ui.radios # <<>> => n \in DOMAIN ui.radios
    <3>1. CASE ui.cursor > 1 /\ ui' = [ui EXCEPT !.cursor = @ - 1]
      <4>1. ui.cursor - 1 \in Nat \ {0} BY <2>3, <3>1
      <4>2. ui.radios # <<>> => ui.cursor - 1 \in DOMAIN ui.radios BY <2>3, <2>4, <4>1
      <4> QED BY <3>1, <4>1, <4>2
    <3>2. CASE ui.cursor < Len(ui.radios) /\ ui' = [ui EXCEPT !.cursor = @ + 1]
      <4>1. ui.cursor + 1 \in Nat \ {0} BY <2>3
      <4>2. ui.cursor + 1 \in DOMAIN ui.radios BY <2>3, <2>4, <4>1, <3>2
      <4> QED BY <3>2, <4>1, <4>2
    <3> QED BY <2>2, <3>1, <3>2
  <2>6. /\ ui' \in [state : {"discovering", "select"}, radios : Batch, cursor : Nat \ {0}]
        /\ ui'.radios = ui.radios /\ ui'.cursor = n
    BY <2>5, <1>t
  <2>7. CursorInList' BY <2>5, <2>6 DEF CursorInList
  <2> QED BY <2>1, <2>6, <2>7, <1>t DEF PickerOK
<1>7. ASSUME Enter PROVE PickerOK' /\ tui = "on" /\ tui' \in {"on", "done"}
  <2>1. /\ tui = "on" /\ tui' = "done" /\ ui.radios # <<>>
        /\ picked' = ui.radios[ui.cursor]
        /\ UNCHANGED <<raw, scan, held, out, asking, msg, ui, batches, latest>>
    BY <1>7 DEF Enter
  <2>2. ui.radios \in Batch /\ ui.cursor \in DOMAIN ui.radios BY <2>1, <1>t DEF CursorInList
  <2>3. picked' \in Address BY <2>1, <2>2, BatchFacts
  <2> QED BY <2>1, <2>3, <1>t DEF PickerOK, CursorInList
<1>8. ASSUME QuitPicker PROVE PickerOK' /\ tui = "on" /\ tui' \in {"on", "done"}
  <2>1. /\ tui = "on" /\ tui' = "done"
        /\ UNCHANGED <<raw, scan, held, out, asking, msg, ui, picked, batches, latest>>
    BY <1>8 DEF QuitPicker
  <2> QED BY <2>1, <1>t DEF PickerOK, CursorInList
<1> QED BY <1>1, <1>2, <1>3, <1>4, <1>5, <1>6, <1>7, <1>8 DEF PickerStep

LEMMA PickerFrame == ASSUME PickerOK, UNCHANGED pickerVars PROVE PickerOK'
BY DEF PickerOK, CursorInList, pickerVars

-----------------------------------------------------------------------------
(* The program, its configuration and its picker.                          *)

StartInv == PickerOK /\ SettingsOK /\ PhaseOK

LEMMA EmptyFacts == DOMAIN Empty = {} BY DEF Empty

LEMMA InitStartInv == Init => StartInv
<1> SUFFICES ASSUME Init PROVE StartInv OBVIOUS
<1>1. PickerOK
  <2> DEFINE u == [state |-> "discovering", radios |-> <<>>, cursor |-> 1]
  <2>1. <<>> \in Batch /\ Blank \in Address BY DEF Batch, Address
  <2>2. <<>> \in Seq(Batch) BY EmptySeq
  <2>3. u \in [state : {"discovering", "select"}, radios : Batch, cursor : Nat \ {0}] BY <2>1
  <2>4. u.radios = <<>> OBVIOUS
  <2> HIDE DEF u
  <2>5. ui = u BY DEF Init, PickerInit, u
  <2>6. CursorInList BY <2>4, <2>5 DEF CursorInList
  <2> QED BY <2>1, <2>2, <2>3, <2>5, <2>6 DEF Init, PickerInit, PickerOK
<1>2. SettingsOK
  <2>1. Stored(file) BY InputAssumption, RelayAssumption DEF Init, Stored, SoundSettings
  <2>2. DOMAIN flags \subseteq Keys BY EmptyFacts DEF Init
  <2> QED BY <2>1, <2>2, DefaultsWhole DEF Init, SettingsOK
<1>3. PhaseOK BY DEF Init, PickerInit, PhaseOK
<1> QED BY <1>1, <1>2, <1>3 DEF StartInv

(* The end of a run.                                                       *)
LEMMA EndsOK ==
    ASSUME StartInv, NEW r, Ends(r), phase \notin {"form", "write"}
    PROVE  StartInv' /\ phase' = "shell"
<1>w. /\ phase' = "shell" /\ flags' = Empty /\ cfg' = Defaults /\ fc' = "nil"
      /\ UNCHANGED <<file, form, settings, runs, wanted>>
      /\ Fresh("off")
  BY DEF Ends
<1>1. PickerOK' /\ tui' = "off" BY <1>w, FreshOK
<1>2. SettingsOK' BY <1>w, DefaultsWhole, EmptyFacts DEF StartInv, SettingsOK
<1>3. PhaseOK' BY <1>w, <1>1 DEF PhaseOK
<1> QED BY <1>1, <1>2, <1>3, <1>w DEF StartInv

(* A step that leaves all settings as they are, within a run.              *)
LEMMA RunFrame ==
    ASSUME StartInv, UNCHANGED <<file, form, settings, flags, cfg, wanted, pickerVars>>,
           {phase, phase'} \cap {"form", "write", "shell", "tui"} = {},
           phase' \in {"listen", "services", "run"}, fc' \in {"nil", "live", "closed"}
    PROVE  StartInv'
<1>1. PickerOK' BY PickerFrame DEF StartInv
<1>2. SettingsOK' BY DEF StartInv, SettingsOK
<1>3. PhaseOK' BY DEF StartInv, PhaseOK, pickerVars
<1> QED BY <1>1, <1>2, <1>3 DEF StartInv

(* The wizard.                                                             *)
LEMMA WizardOK ==
    ASSUME StartInv, RunSetup \/ Abort \/ Truncate \/ Killed \/ Save \/ \E a \in Answers : Fill(a)
    PROVE  StartInv' /\ phase' # "run"
<1>t. /\ Stored(file) /\ Whole(settings) /\ Whole(cfg) /\ DOMAIN flags \subseteq Keys
      /\ phase = "form" => form = Proposed(settings) /\ settings["log_level"] # Blank
      /\ phase # "write" /\ wanted # Empty => file = Saved(wanted)
      /\ fc \in {"nil", "live", "closed"} /\ (tui = "off" <=> phase # "tui")
  BY DEF StartInv, SettingsOK, PhaseOK
<1>1. UNCHANGED <<flags, cfg, fc, pickerVars>>
  BY DEF RunSetup, Abort, Truncate, Killed, Save, Fill, EndSetup
<1>2. PickerOK' /\ tui' = tui BY <1>1, PickerFrame DEF StartInv, pickerVars
<1>3. phase \in {"shell", "form", "write"} /\ phase' \in {"shell", "form", "write"}
  BY DEF RunSetup, Abort, Truncate, Killed, Save, Fill, EndSetup
<1>4. PhaseOK' BY <1>1, <1>2, <1>3, <1>t DEF PhaseOK
<1>5. SettingsOK'
  <2>1. CASE RunSetup
    <3>1. /\ phase = "shell" /\ phase' = "form"
          /\ settings' = Load(file) /\ form' = Proposed(Load(file))
          /\ UNCHANGED <<file, wanted>>
      BY <2>1 DEF RunSetup
    <3>2. Whole(settings') /\ settings'["log_level"] # Blank BY <3>1, <1>t, LoadWhole
    <3> QED BY <3>1, <3>2, <1>1, <1>t DEF SettingsOK
  <2>2. CASE Abort
    <3>1. phase = "form" /\ phase' = "shell" /\ settings' = Defaults /\ UNCHANGED <<file, wanted>>
      BY <2>2 DEF Abort, EndSetup
    <3> QED BY <3>1, <1>1, <1>t, DefaultsWhole DEF SettingsOK
  <2>3. CASE Truncate
    <3>1. phase' = "write" /\ file' = Empty /\ UNCHANGED <<settings, wanted>>
      BY <2>3 DEF Truncate
    <3>2. Stored(Empty) BY EmptyFacts DEF Stored
    <3> QED BY <3>1, <3>2, <1>1, <1>t DEF SettingsOK
  <2>4. CASE Killed
    <3>1. /\ phase' = "shell" /\ settings' = Defaults /\ file' = Empty /\ file' = file
          /\ wanted' = Lost
      BY <2>4 DEF Killed, EndSetup
    <3> QED BY <3>1, <1>1, <1>t, DefaultsWhole, SavedLost DEF SettingsOK
  <2>5. CASE Save
    <3>1. phase' = "shell" /\ settings' = Defaults /\ wanted' = settings /\ file' = Saved(settings)
      BY <2>5 DEF Save, EndSetup
    <3>2. Stored(file') BY <3>1, <1>t, SavedStored
    <3> QED BY <3>1, <3>2, <1>1, <1>t, DefaultsWhole DEF SettingsOK
  <2>6. ASSUME NEW a \in Answers, Fill(a) PROVE SettingsOK'
    <3>1. /\ phase = "form" /\ phase' = "write" /\ form' = Over(a, form)
          /\ settings' = Reassembled(settings, form') /\ UNCHANGED <<file, wanted>>
      BY <2>6 DEF Fill
    <3>2. settings' = Reassembled(settings, Over(a, Proposed(settings))) BY <3>1, <1>t
    <3>3. Whole(settings') BY <3>2, <1>t, ReassembledWhole
    <3> QED BY <3>1, <3>3, <1>1, <1>t DEF SettingsOK
  <2> QED BY <2>1, <2>2, <2>3, <2>4, <2>5, <2>6
<1> QED BY <1>2, <1>3, <1>4, <1>5 DEF StartInv

(* main, up to where it serves.                                            *)
LEMMA StartOK ==
    ASSUME StartInv, NEW fl \in CommandLines, NEW tty \in BOOLEAN, Start(fl, tty)
    PROVE  StartInv' /\ phase' # "run"
<1> DEFINE c == applyConfigFile(Load(file), fl)
           up == IF Interactive(c, tty) THEN "on" ELSE "off"
<1>t. /\ Stored(file) /\ Whole(settings) /\ Whole(cfg) /\ DOMAIN flags \subseteq Keys
      /\ phase # "write" /\ wanted # Empty => file = Saved(wanted)
      /\ fc \in {"nil", "live", "closed"} /\ (tui = "off" <=> phase # "tui")
  BY DEF StartInv, SettingsOK, PhaseOK
<1>1. phase = "shell" /\ UNCHANGED <<file, form, settings, fc, proxyIP, wanted, posted>>
  BY DEF Start
<1>2. \/ UNCHANGED <<phase, flags, cfg, pickerVars>>
      \/ /\ flags' = fl /\ cfg' = c
         /\ phase' = IF Interactive(c, tty) THEN "tui" ELSE "listen"
         /\ Fresh(up)
  BY DEF Start
<1>3. Whole(c) BY <1>t, LoadWhole, ApplyWhole
<1>4. DOMAIN fl \subseteq Keys BY InputAssumption DEF SoundSettings
<1> HIDE DEF c
<1>5. CASE UNCHANGED <<phase, flags, cfg, pickerVars>>
  <2>1. PickerOK' /\ tui' = tui BY <1>5, PickerFrame DEF StartInv, pickerVars
  <2>2. SettingsOK' BY <1>1, <1>5, <1>t DEF SettingsOK
  <2>3. PhaseOK' BY <1>1, <1>5, <1>t, <2>1 DEF PhaseOK
  <2> QED BY <2>1, <2>2, <2>3, <1>1, <1>5 DEF StartInv
<1>6. CASE /\ flags' = fl /\ cfg' = c
           /\ phase' = IF Interactive(c, tty) THEN "tui" ELSE "listen"
           /\ Fresh(up)
  <2>1. PickerOK' /\ tui' = up BY <1>6, FreshOK
  <2>2. phase' \in {"tui", "listen"} /\ (phase' = "tui" <=> tui' = "on") /\ tui' \in {"on", "off"}
    BY <1>6, <2>1
  <2>3. SettingsOK' BY <1>1, <1>6, <1>t, <1>3, <1>4, <2>2 DEF SettingsOK
  <2>4. PhaseOK' BY <1>1, <1>t, <2>2 DEF PhaseOK
  <2> QED BY <2>1, <2>2, <2>3, <2>4 DEF StartInv
<1> QED BY <1>2, <1>5, <1>6

LEMMA PickOK ==
    ASSUME StartInv, Picking \/ Picked PROVE StartInv' /\ phase' # "run"
<1>1. CASE Picking
  <2>1. phase = "tui" /\ PickerStep /\ UNCHANGED startupVars BY <1>1 DEF Picking
  <2>2. PickerOK' /\ tui' \in {"on", "done"} BY <2>1, PickerStepOK DEF StartInv
  <2>3. SettingsOK' BY <2>1 DEF StartInv, SettingsOK, startupVars
  <2>4. PhaseOK' BY <2>1, <2>2 DEF StartInv, PhaseOK, startupVars
  <2>5. phase' = "tui" BY <2>1 DEF startupVars
  <2> QED BY <2>2, <2>3, <2>4, <2>5 DEF StartInv
<1>2. CASE Picked
  <2>1. phase = "tui" BY <1>2 DEF Picked
  <2>2. CASE picked = Blank
    <3>1. Ends("exit") BY <1>2, <2>2 DEF Picked
    <3> QED BY <3>1, <2>1, EndsOK
  <2>3. CASE picked # Blank
    <3>1. /\ cfg' = [cfg EXCEPT !["radio"] = picked] /\ phase' = "listen" /\ Fresh("off")
          /\ UNCHANGED <<file, form, settings, flags, fc, proxyIP, why, runs, wanted, posted>>
      BY <1>2, <2>3 DEF Picked
    <3>2. PickerOK' /\ tui' = "off" BY <3>1, FreshOK
    <3>3. picked # FlexyLAN
      <4>1. picked \in Address BY DEF StartInv, PickerOK
      <4> QED BY <4>1, <2>3, RelayAssumption DEF Address
    <3>4. Whole(cfg')
      <4>1. Whole(cfg) /\ "radio" \in Keys BY DEF StartInv, SettingsOK, Keys
      <4>2. DOMAIN cfg' = Keys /\ cfg'["radio"] = picked
            /\ \A k \in Keys \ {"radio"} : cfg'[k] = cfg[k]
        BY <3>1, <4>1 DEF Whole
      <4>3. Sound("radio", picked) BY DEF Sound
      <4> QED BY <4>1, <4>2, <4>3, <3>3 DEF Whole
    <3>5. SettingsOK' BY <3>1, <3>4, <2>1 DEF StartInv, SettingsOK
    <3>6. PhaseOK' BY <3>1, <3>2 DEF StartInv, PhaseOK
    <3> QED BY <3>1, <3>2, <3>5, <3>6 DEF StartInv
  <2> QED BY <2>2, <2>3
<1> QED BY <1>1, <1>2

(* A POST may write any setting it is allowed to.                          *)
LEMMA PostOK ==
    ASSUME StartInv, NEW p \in Posts, Post(p[1], p[2])
    PROVE  StartInv' /\ phase' = phase
<1>1. /\ phase \in {"services", "run"} /\ cfg' = [cfg EXCEPT ![p[1]] = p[2]]
      /\ UNCHANGED <<phase, file, form, settings, flags, fc, wanted, pickerVars>>
  BY DEF Post
<1>2. Whole(cfg) BY DEF StartInv, SettingsOK
<1>3. p[1] \in Keys /\ Sound(p[1], p[2]) /\ (p[1] = "radio" => p[2] # FlexyLAN)
  BY InputAssumption, RelayAssumption
<1>4. DOMAIN cfg' = Keys /\ cfg'[p[1]] = p[2] /\ \A k \in Keys \ {p[1]} : cfg'[k] = cfg[k]
  BY <1>1, <1>2, <1>3 DEF Whole
<1>5. \A k \in Keys : Sound(k, cfg'[k]) BY <1>2, <1>3, <1>4 DEF Whole
<1>6. cfg'["radio"] # FlexyLAN
  <2>1. "radio" \in Keys BY DEF Keys
  <2> QED BY <2>1, <1>2, <1>3, <1>4 DEF Whole
<1>7. Whole(cfg') BY <1>4, <1>5, <1>6 DEF Whole
<1>8. SettingsOK' BY <1>1, <1>7 DEF StartInv, SettingsOK
<1>9. PickerOK' BY <1>1, PickerFrame DEF StartInv
<1>10. PhaseOK' BY <1>1 DEF StartInv, PhaseOK, pickerVars
<1> QED BY <1>1, <1>8, <1>9, <1>10 DEF StartInv

LEMMA ServeOK ==
    ASSUME StartInv, ListenHamlib \/ StartProxy \/ Connect \/ Disconnect \/ HamlibCommand \/ Interrupt
    PROVE  StartInv'
<1>1. CASE \E r : Ends(r) /\ phase \in {"listen", "services", "run"}
  BY <1>1, EndsOK
<1>2. ASSUME UNCHANGED <<file, form, settings, flags, cfg, wanted, pickerVars>>,
             phase \in {"listen", "services", "run"}, phase' \in {"listen", "services", "run"},
             fc' \in {"nil", "live", "closed"}
      PROVE  StartInv'
  BY <1>2, RunFrame
<1>3. fc \in {"nil", "live", "closed"} BY DEF StartInv, PhaseOK
<1>4. CASE ListenHamlib BY <1>1, <1>2, <1>3, <1>4 DEF ListenHamlib
<1>5. CASE StartProxy BY <1>1, <1>2, <1>3, <1>5 DEF StartProxy
<1>6. CASE Connect BY <1>2, <1>6 DEF Connect
<1>7. CASE Disconnect
  <2>1. /\ fc' = "closed" /\ phase' = phase
        /\ UNCHANGED <<file, form, settings, flags, cfg, wanted, pickerVars>>
    BY <1>7 DEF Disconnect
  <2>2. PickerOK' BY <2>1, PickerFrame DEF StartInv
  <2>3. SettingsOK' BY <2>1 DEF StartInv, SettingsOK
  <2>4. PhaseOK' BY <2>1 DEF StartInv, PhaseOK, pickerVars
  <2> QED BY <2>2, <2>3, <2>4 DEF StartInv
<1>8. CASE HamlibCommand BY <1>1, <1>8 DEF HamlibCommand
<1>9. CASE Interrupt BY <1>1, <1>9 DEF Interrupt
<1> QED BY <1>4, <1>5, <1>6, <1>7, <1>8, <1>9

LEMMA StartupOK == ASSUME StartInv, StartupStep PROVE StartInv'
<1>1. CASE RunSetup \/ Abort \/ Truncate \/ Killed \/ Save \/ \E a \in Answers : Fill(a)
  BY <1>1, WizardOK
<1>2. CASE \E fl \in CommandLines : \E tty \in BOOLEAN : Start(fl, tty) BY <1>2, StartOK
<1>3. CASE Picking \/ Picked BY <1>3, PickOK
<1>4. CASE ListenHamlib \/ StartProxy \/ Connect \/ Disconnect \/ HamlibCommand \/ Interrupt
  BY <1>4, ServeOK
<1>5. CASE \E p \in Posts : Post(p[1], p[2]) BY <1>5, PostOK
<1> QED BY <1>1, <1>2, <1>3, <1>4, <1>5 DEF StartupStep

-----------------------------------------------------------------------------
(* The networks.                                                           *)

(* What the relay and the rebroadcaster make of a packet.                  *)
LEMMA RewrittenFields ==
    ASSUME NEW p, DOMAIN p = Fields, p.marks = 0
    PROVE  /\ DOMAIN Rewritten(p) = Fields
           /\ Rewritten(p).src = FlexyLAN /\ Rewritten(p).ip = proxyIP
           /\ Rewritten(p).marks = 1 /\ Rewritten(p).copies = p.copies
           /\ Rewritten(p).gui = FALSE /\ Rewritten(p).radio = p.radio
           /\ Rewritten(p).port = OrElse(Split[cfg["proxy"]][2], p.port)
BY DEF Rewritten, Fields

LEMMA ResentFields ==
    ASSUME NEW p, DOMAIN p = Fields, NEW a
    PROVE  /\ DOMAIN [p EXCEPT !.src = a] = Fields
           /\ \A k \in Fields \ {"src"} : [p EXCEPT !.src = a][k] = p[k]
BY DEF Fields

(* What a packet tells is in four of its fields.                           *)
LEMMA TellsAlike ==
    ASSUME NEW p, NEW q, p.ip = q.ip, p.gui = q.gui, p.radio = q.radio, p.port = q.port, Tells(p)
    PROVE  Tells(q)
BY DEF Tells

(* A packet the relay takes is one of the radio's own: those it made carry *)
(* Flexy's address, which is not the radio's.                              *)
LEMMA RelayableIsOwn ==
    ASSUME RInv, NEW p \in air, Relayable(p)
    PROVE  /\ DOMAIN p = Fields /\ p.marks = 0 /\ p.copies = 0 /\ p.radio = cfg["radio"]
<1>1. p.src = cfg["radio"] BY DEF Relayable
<1>2. cfg["radio"] # FlexyLAN BY DEF RInv, SettingsOK, Whole
<1>3. p \in RadioPackets BY <1>1, <1>2 DEF RInv, NetworksOK
<1> QED BY <1>1, <1>3, RelayAssumption

(* A start that is over, and a run that has not begun, has no networks.    *)
LEMMA GoneOK == ASSUME RelayGone PROVE NetworksOK'
<1>1. relay' = "off" /\ proxyPort' = Blank /\ air' = {} /\ far' = {} /\ age' = TTL
  BY DEF RelayGone
<1>2. TTL \in 0..TTL BY RelayAssumption
<1> QED BY <1>1, <1>2 DEF NetworksOK

LEMMA NetworksFrame ==
    ASSUME NetworksOK, UNCHANGED relayVars, Serving' = Serving,
           UNCHANGED <<cfg, proxyIP, posted>>
    PROVE  NetworksOK'
<1>1. \A p : Tells(p) => Tells(p)' BY DEF Tells
<1> QED BY <1>1 DEF NetworksOK, relayVars

(* The relay outlives only steps of main that leave its run going: the     *)
(* start of the proxy, before which there is nothing, the radio's coming   *)
(* and going, and a POST, which AdvertisedIsServed excuses.                *)
LEMMA RunGoesOn ==
    ASSUME RInv, StartupStep, phase' = "run", UNCHANGED relayVars
    PROVE  NetworksOK'
<1>1. ~(RunSetup \/ Abort \/ Truncate \/ Killed \/ Save \/ \E a \in Answers : Fill(a))
  BY WizardOK DEF RInv, StartInv
<1>2. ~\E fl \in CommandLines : \E tty \in BOOLEAN : Start(fl, tty)
  BY StartOK DEF RInv, StartInv
<1>3. ~(Picking \/ Picked) BY PickOK DEF RInv, StartInv
<1>4. ~(ListenHamlib \/ HamlibCommand \/ Interrupt)
  BY DEF ListenHamlib, HamlibCommand, Interrupt, Ends
<1>5. CASE StartProxy
  <2>1. phase = "services" BY <1>5 DEF StartProxy
  <2>2. air \cup far = {} /\ proxyPort = Blank BY <2>1 DEF RInv, NetworksOK, Serving
  <2>3. air' = {} /\ far' = {} /\ proxyPort' = Blank /\ relay' = relay /\ age' = age
    BY <2>2 DEF relayVars
  <2> QED BY <2>3 DEF RInv, NetworksOK
<1>6. CASE Connect \/ Disconnect
  <2>1. UNCHANGED <<phase, proxyIP, runs, cfg, posted>> BY <1>6 DEF Connect, Disconnect
  <2>2. Serving' = Serving BY <2>1 DEF Serving
  <2> QED BY <2>1, <2>2, NetworksFrame DEF RInv
<1>7. ASSUME NEW m \in Posts, Post(m[1], m[2]) PROVE NetworksOK'
  <2>1. /\ cfg' = [cfg EXCEPT ![m[1]] = m[2]] /\ posted' = posted \cup {m[1]}
        /\ UNCHANGED <<phase, proxyIP, runs>>
    BY <1>7 DEF Post
  <2>2. Serving' = Serving BY <2>1 DEF Serving
  <2>3. DOMAIN cfg = Keys /\ "radio" \in Keys /\ "proxy" \in Keys
    BY DEF RInv, SettingsOK, Whole, Keys
  <2>4. "radio" \notin posted' => "radio" \notin posted /\ cfg'["radio"] = cfg["radio"]
    BY <2>1, <2>3
  <2>5. "proxy" \notin posted' => "proxy" \notin posted /\ cfg'["proxy"] = cfg["proxy"]
    BY <2>1, <2>3
  <2>6. \A p : Tells(p) => Tells(p)' BY <2>1, <2>4, <2>5 DEF Tells
  <2> QED BY <2>2, <2>5, <2>6 DEF RInv, NetworksOK, relayVars
<1> QED BY <1>1, <1>2, <1>3, <1>4, <1>5, <1>6, <1>7 DEF StartupStep

(* What a step of the networks leaves alone: the run it is part of.        *)
LEMMA SameRun ==
    ASSUME UNCHANGED <<startupVars, pickerVars>>
    PROVE  /\ Serving' = Serving /\ \A p : Tells(p)' <=> Tells(p)
           /\ UNCHANGED <<cfg, proxyIP, posted>>
BY DEF startupVars, Serving, Tells

(* The relay passes a packet of the radio on, to both networks.            *)
LEMMA RelayPacketOK ==
    ASSUME RInv, UNCHANGED <<startupVars, pickerVars>>, NEW p \in air, RelayPacket(p)
    PROVE  NetworksOK'
<1> DEFINE r == Rewritten(p)
           t == [r EXCEPT !.src = FlexyTailnet]
<1>1. /\ Serving /\ Relayable(p) /\ UNCHANGED <<relay, proxyPort>>
      /\ age' = AgeAfterUse(age) /\ air' = air \cup {r}
      /\ far' \subseteq far \cup {t}
  <2>1. \A q \in {[q EXCEPT !.src = FlexyTailnet] : q \in {x \in {r} : Peers /\ online}} : q = t
    OBVIOUS
  <2> HIDE DEF r, t
  <2> QED BY <2>1 DEF RelayPacket, r, t
<1>2. DOMAIN p = Fields /\ p.marks = 0 /\ p.copies = 0 /\ p.radio = cfg["radio"]
  BY <1>1, RelayableIsOwn
<1>3. /\ DOMAIN r = Fields /\ r.src = FlexyLAN /\ r.marks = 1 /\ r.copies = 0
      /\ r.ip = proxyIP /\ r.gui = FALSE /\ r.radio = cfg["radio"]
      /\ r.port = OrElse(Split[cfg["proxy"]][2], p.port)
  BY <1>2, RewrittenFields
<1> HIDE DEF r
<1>4. Tells(r) BY <1>3 DEF Tells, OrElse
<1>5. DOMAIN t = Fields /\ t.marks = 1 /\ t.copies = 0 /\ Tells(t)
  <2>1. DOMAIN t = Fields /\ \A k \in Fields \ {"src"} : t[k] = r[k] BY <1>3, ResentFields
  <2>2. t.marks = r.marks /\ t.copies = r.copies /\ r.ip = t.ip /\ r.gui = t.gui
        /\ r.radio = t.radio /\ r.port = t.port
    BY <2>1 DEF Fields
  <2> QED BY <2>1, <2>2, <1>3, <1>4, TellsAlike
<1> HIDE DEF t
<1>6. age' \in 0..TTL BY <1>1, RelayAssumption DEF AgeAfterUse, RInv, NetworksOK
<1>7. \A q \in air' : q \in RadioPackets \/ (q.src = FlexyLAN /\ q.marks = 1 /\ q.copies = 0)
  BY <1>1, <1>3 DEF RInv, NetworksOK
<1>8. \A q \in far' : q.marks \in {0, 1} /\ (q.copies = 0 \/ (q.src = FarLAN /\ q.copies = 1))
  BY <1>1, <1>5 DEF RInv, NetworksOK
<1>9. \A q \in air' \cup far' : DOMAIN q = Fields /\ (q.marks > 0 => Tells(q))
  BY <1>1, <1>3, <1>4, <1>5 DEF RInv, NetworksOK
<1> QED BY <1>1, <1>6, <1>7, <1>8, <1>9, SameRun DEF RInv, NetworksOK

(* The rebroadcaster sends on what does not come from itself.              *)
LEMMA RebroadcastOK ==
    ASSUME RInv, UNCHANGED <<startupVars, pickerVars>>, NEW p \in far, Rebroadcast(p)
    PROVE  NetworksOK'
<1> DEFINE c == [p EXCEPT !.src = FarLAN, !.copies = 1]
<1>1. /\ p.src \in AllowFrom /\ far' = far \cup {[p EXCEPT !.src = FarLAN, !.copies = @ + 1]}
      /\ UNCHANGED <<relay, proxyPort, air, age>>
  BY DEF Rebroadcast
<1>2. /\ DOMAIN p = Fields /\ p.marks \in {0, 1} /\ (p.marks > 0 => Tells(p))
      /\ (p.copies = 0 \/ p.src = FarLAN)
  BY DEF RInv, NetworksOK
<1>3. p.copies = 0 BY <1>1, <1>2, RelayAssumption
<1>4. far' = far \cup {c} BY <1>1, <1>3
<1>5. DOMAIN c = Fields /\ c.src = FarLAN /\ c.copies = 1
      /\ \A k \in Fields \ {"src", "copies"} : c[k] = p[k]
  BY <1>2 DEF Fields
<1> HIDE DEF c
<1>6. c.marks = p.marks /\ p.ip = c.ip /\ p.gui = c.gui /\ p.radio = c.radio /\ p.port = c.port
  BY <1>5 DEF Fields
<1>7. c.marks > 0 => Tells(c) BY <1>2, <1>6, TellsAlike
<1>8. \A q \in far' : q.marks \in {0, 1} /\ (q.copies = 0 \/ (q.src = FarLAN /\ q.copies = 1))
  BY <1>2, <1>4, <1>5, <1>6 DEF RInv, NetworksOK
<1>9. \A q \in air' \cup far' : DOMAIN q = Fields /\ (q.marks > 0 => Tells(q))
  BY <1>1, <1>4, <1>5, <1>7 DEF RInv, NetworksOK
<1>10. Serving BY DEF RInv, NetworksOK
<1> QED BY <1>1, <1>8, <1>9, <1>10, SameRun DEF RInv, NetworksOK

(* Packets of others.                                                      *)
LEMMA OthersOK ==
    ASSUME RInv, UNCHANGED <<startupVars, pickerVars>>,
           NEW p \in RadioPackets \cup FarPackets,
           (p \in RadioPackets /\ Broadcasts(p)) \/ ComesByItself(p)
    PROVE  NetworksOK'
<1>1. DOMAIN p = Fields /\ p.marks = 0 /\ p.copies = 0 BY RelayAssumption
<1>2. Serving /\ UNCHANGED <<relay, proxyPort, age>>
  BY DEF Broadcasts, ComesByItself
<1>3. \/ p \in RadioPackets /\ air' = air \cup {p} /\ far' = far
      \/ air' = air /\ far' = far \cup {p}
  BY DEF Broadcasts, ComesByItself
<1>4. \A q \in air' : q \in RadioPackets \/ (q.src = FlexyLAN /\ q.marks = 1 /\ q.copies = 0)
  BY <1>3 DEF RInv, NetworksOK
<1>5. \A q \in far' : q.marks \in {0, 1} /\ (q.copies = 0 \/ (q.src = FarLAN /\ q.copies = 1))
  BY <1>1, <1>3 DEF RInv, NetworksOK
<1>6. \A q \in air' \cup far' : DOMAIN q = Fields /\ (q.marks > 0 => Tells(q))
  BY <1>1, <1>3 DEF RInv, NetworksOK
<1> QED BY <1>2, <1>4, <1>5, <1>6, SameRun DEF RInv, NetworksOK

(* The listening sockets, the list of peers and its age.                   *)
LEMMA QuietOK ==
    ASSUME RInv, UNCHANGED <<startupVars, pickerVars>>,
           ProxyListens \/ RelayListens \/ Tick \/ PeerComesOrGoes
    PROVE  NetworksOK'
<1>1. Serving /\ UNCHANGED <<air, far>>
  BY DEF ProxyListens, RelayListens, Tick, PeerComesOrGoes
<1>2. relay' \in {"off", "on", "failed"}
  BY DEF ProxyListens, RelayListens, Tick, PeerComesOrGoes, RInv, NetworksOK
<1>3. age' \in 0..TTL
  <2>1. age \in 0..TTL BY DEF RInv, NetworksOK
  <2>2. age' = age \/ (age < TTL /\ age' = age + 1)
    BY DEF ProxyListens, RelayListens, Tick, PeerComesOrGoes
  <2> QED BY <2>1, <2>2, RelayAssumption
<1>4. proxyPort' \in {proxyPort, Split[cfg["proxy"]][2], Blank}
  BY DEF ProxyListens, RelayListens, Tick, PeerComesOrGoes
<1> QED BY <1>1, <1>2, <1>3, <1>4, SameRun DEF RInv, NetworksOK

LEMMA RelayOK ==
    ASSUME RInv, RelayStep, UNCHANGED <<startupVars, pickerVars>> PROVE RInv'
<1>1. NetworksOK'
  <2>1. CASE ProxyListens \/ RelayListens \/ Tick \/ PeerComesOrGoes BY <2>1, QuietOK
  <2>2. CASE \E p \in air : RelayPacket(p) BY <2>2, RelayPacketOK
  <2>3. CASE \E p \in far : Rebroadcast(p) BY <2>3, RebroadcastOK
  <2>4. CASE \E p \in RadioPackets : Broadcasts(p) BY <2>4, OthersOK
  <2>5. CASE \E p \in FarPackets : ComesByItself(p) BY <2>5, OthersOK
  <2> QED BY <2>1, <2>2, <2>3, <2>4, <2>5 DEF RelayStep
<1>2. PickerOK' BY PickerFrame DEF RInv
<1>3. SettingsOK' BY DEF RInv, SettingsOK, startupVars
<1>4. PhaseOK' BY DEF RInv, PhaseOK, startupVars, pickerVars
<1> QED BY <1>1, <1>2, <1>3, <1>4 DEF RInv

LEMMA InitRInv == RelayInit => RInv
<1> SUFFICES ASSUME RelayInit PROVE RInv OBVIOUS
<1>1. StartInv BY InitStartInv DEF RelayInit
<1>2. TTL \in 0..TTL BY RelayAssumption
<1>3. NetworksOK BY <1>2 DEF RelayInit, NetworksOK
<1> QED BY <1>1, <1>3 DEF RInv, StartInv

LEMMA StepRInv == RInv /\ [Next]_vars => RInv'
<1> SUFFICES ASSUME RInv, [Next]_vars PROVE RInv' OBVIOUS
<1>1. CASE StartupStep /\ IF phase' = "run" THEN UNCHANGED relayVars ELSE RelayGone
  <2>1. StartInv' BY <1>1, StartupOK DEF RInv, StartInv
  <2>2. CASE phase' = "run" BY <1>1, <2>1, <2>2, RunGoesOn DEF RInv, StartInv
  <2>3. CASE phase' # "run" BY <1>1, <2>1, <2>3, GoneOK DEF RInv, StartInv
  <2> QED BY <2>2, <2>3
<1>2. CASE RelayStep /\ UNCHANGED <<startupVars, pickerVars>> BY <1>2, RelayOK
<1>3. CASE UNCHANGED vars
  <2>1. UNCHANGED startupVars /\ UNCHANGED pickerVars /\ UNCHANGED relayVars BY <1>3 DEF vars
  <2>2. PickerOK' BY <2>1, PickerFrame DEF RInv
  <2>3. SettingsOK' BY <2>1 DEF RInv, SettingsOK, startupVars
  <2>4. PhaseOK' BY <2>1 DEF RInv, PhaseOK, startupVars, pickerVars
  <2>5. NetworksOK'
    <3>1. Serving' = Serving /\ UNCHANGED <<cfg, proxyIP, posted>> BY <2>1 DEF Serving, startupVars
    <3> QED BY <2>1, <3>1, NetworksFrame DEF RInv
  <2> QED BY <2>2, <2>3, <2>4, <2>5 DEF RInv
<1> QED BY <1>1, <1>2, <1>3 DEF Next

(* The inductive invariant.                                                *)
LEMMA SpecRInv == Spec => []RInv
BY InitRInv, StepRInv, PTL DEF Spec

-----------------------------------------------------------------------------
(* What the program does with its settings.                                *)

(* From the shell only a run of the program itself gets as far as the      *)
(* picker or the Hamlib port, and it does not touch the file on the way.   *)
LEMMA StartsFromFile ==
    ASSUME StartInv, StartupStep, phase = "shell", phase' \in {"tui", "listen"}
    PROVE  \E fl \in CommandLines : flags' = fl /\ cfg' = applyConfigFile(Load(file), fl)
<1>1. ~(RunSetup \/ Abort \/ Truncate \/ Killed \/ Save \/ \E a \in Answers : Fill(a))
  BY DEF RunSetup, Abort, Truncate, Killed, Save, Fill, EndSetup
<1>2. ~(Picking \/ Picked \/ ListenHamlib \/ StartProxy \/ Connect \/ Disconnect
        \/ HamlibCommand \/ Interrupt)
  BY DEF Picking, Picked, ListenHamlib, StartProxy, Connect, Disconnect, HamlibCommand,
         Interrupt
<1>3. ~\E p \in Posts : Post(p[1], p[2]) BY DEF Post
<1>4. PICK fl \in CommandLines, tty \in BOOLEAN : Start(fl, tty)
  BY <1>1, <1>2, <1>3 DEF StartupStep
<1>5. flags' = fl /\ cfg' = applyConfigFile(Load(file), fl) BY <1>4 DEF Start
<1> QED BY <1>5

(* What a file that Save wrote comes to under the flags of a command line. *)
LEMMA AppliedSaved ==
    ASSUME NEW w, NEW fl, DOMAIN fl \subseteq Keys, NEW k \in Keys
    PROVE  applyConfigFile(Load(Saved(w)), fl)[k] =
              IF k \in DOMAIN fl THEN fl[k] ELSE OrElse(w[k], Defaults[k])
<1> DEFINE s == Saved(w)
           c == Load(s)
<1>1. DOMAIN s = {x \in Keys : w[x] # Blank} /\ \A x \in DOMAIN s : s[x] = w[x] BY DEF Saved
<1> HIDE DEF s
<1>2. DOMAIN Defaults = Keys BY DefaultsWhole DEF Whole
<1>3. c[k] = OrElse(w[k], Defaults[k]) BY <1>1, <1>2 DEF Load, Over, OrElse
<1> HIDE DEF c
<1>4. Over(fl, Defaults)[k] = IF k \in DOMAIN fl THEN fl[k] ELSE Defaults[k]
  BY <1>2 DEF Over
<1>5. applyConfigFile(c, fl)[k] =
         IF k \in DOMAIN fl \/ c[k] = Blank THEN Over(fl, Defaults)[k] ELSE c[k]
  BY DEF applyConfigFile
<1>6. applyConfigFile(c, fl)[k] = IF k \in DOMAIN fl THEN fl[k] ELSE OrElse(w[k], Defaults[k])
  BY <1>3, <1>4, <1>5 DEF OrElse
<1> QED BY <1>6 DEF c, s

(* An address that is put back as the form proposes it.                    *)
LEMMA ChosenAgain == ASSUME NEW x PROVE Chosen(Selected(x), Custom(x)) = x
BY SplitAssumption DEF Chosen, Selected, Custom

(* A form that is left as it is proposed, field by field: each setting is  *)
(* made from its own fields again.                                         *)
LEMMA FormMakesSame ==
    ASSUME NEW c, Whole(c), c["log_level"] # Blank, NEW f,
           NEW k \in Keys, \A x \in FieldsOf[k] : f[x] = Proposed(c)[x],
           k \in {"listen", "web", "proxy"} => Split[c[k]][2] # Blank
    PROVE  Reassembled(c, f)[k] = c[k]
<1> DEFINE p == Proposed(c)
<1>c. DOMAIN c = Keys /\ \A j \in Keys : Sound(j, c[j]) BY DEF Whole
<1>1. /\ FieldsOf["listen"] = {"catIP", "customCatIP", "catPort"}
      /\ FieldsOf["web"] = {"webIP", "customWebIP", "webPort"}
      /\ FieldsOf["proxy"] = {"proxyIP", "customProxyIP", "proxyPort"}
      /\ FieldsOf["proxy_ip"] = {"advIP", "customAdvIP"}
      /\ FieldsOf["udp_port"] = {"udpPort"} /\ FieldsOf["log_level"] = {"logLevel"}
      /\ FieldsOf["radio"] = {"radio"} /\ FieldsOf["station"] = {"station"}
      /\ FieldsOf["slice"] = {"slice"} /\ FieldsOf["headless"] = {"headless"}
  BY DEF FieldsOf, Over
<1>2. /\ p["catIP"] = Selected(Split[c["listen"]][1])
      /\ p["customCatIP"] = Custom(Split[c["listen"]][1])
      /\ p["catPort"] = OrElse(Split[c["listen"]][2], "4532")
      /\ p["webIP"] = Selected(Split[c["web"]][1])
      /\ p["customWebIP"] = Custom(Split[c["web"]][1])
      /\ p["webPort"] = OrElse(Split[c["web"]][2], "8080")
      /\ p["proxyIP"] = Selected(Split[c["proxy"]][1])
      /\ p["customProxyIP"] = Custom(Split[c["proxy"]][1])
      /\ p["proxyPort"] = OrElse(Split[c["proxy"]][2], "4992")
      /\ p["advIP"] = Selected(c["proxy_ip"]) /\ p["customAdvIP"] = Custom(c["proxy_ip"])
      /\ p["udpPort"] = c["udp_port"] /\ p["logLevel"] = OrElse(c["log_level"], "info")
      /\ p["headless"] = (IF c["headless"] = Blank THEN "interactive" ELSE "headless")
      /\ p["radio"] = c["radio"] /\ p["station"] = c["station"] /\ p["slice"] = c["slice"]
  BY DEF Proposed
<1> HIDE DEF p
<1>3. \A x \in FieldsOf[k] : f[x] = p[x] BY DEF p
<1>4. \A x \in DOMAIN Split : Split[x][2] # Blank => JoinHostPort(Split[x][1], Split[x][2]) = x
  BY SplitAssumption
<1>5. CASE k = "listen"
  <2>1. c["listen"] \in DOMAIN Split /\ Split[c["listen"]][2] # Blank BY <1>5, <1>c DEF Sound
  <2>2. Listen(f["catIP"], f["customCatIP"], f["catPort"]) = c["listen"]
    BY <1>1, <1>2, <1>3, <1>4, <1>5, <2>1, ChosenAgain DEF Listen, OrElse
  <2> QED BY <1>5, <1>c, <2>2, ReassembledKeys
<1>6. CASE k = "web"
  <2>1. c["web"] \in DOMAIN Split /\ Split[c["web"]][2] # Blank BY <1>6, <1>c DEF Sound
  <2>2. Service(f["webIP"], f["customWebIP"], f["webPort"]) = c["web"]
    BY <1>1, <1>2, <1>3, <1>4, <1>6, <2>1, ChosenAgain DEF Service, Listen, OrElse
  <2> QED BY <1>6, <1>c, <2>2, ReassembledKeys
<1>7. CASE k = "proxy"
  <2>1. c["proxy"] \in DOMAIN Split /\ Split[c["proxy"]][2] # Blank BY <1>7, <1>c DEF Sound
  <2>2. Service(f["proxyIP"], f["customProxyIP"], f["proxyPort"]) = c["proxy"]
    BY <1>1, <1>2, <1>3, <1>4, <1>7, <2>1, ChosenAgain DEF Service, Listen, OrElse
  <2> QED BY <1>7, <1>c, <2>2, ReassembledKeys
<1>8. CASE k = "proxy_ip"
  <2>1. Chosen(f["advIP"], f["customAdvIP"]) = c["proxy_ip"]
    BY <1>1, <1>2, <1>3, <1>8, ChosenAgain
  <2> QED BY <1>8, <1>c, <2>1, ReassembledKeys
<1>9. CASE k = "udp_port"
  <2>1. Atoi(f["udpPort"]) = c["udp_port"] BY <1>1, <1>2, <1>3, <1>9, <1>c DEF Atoi, Sound
  <2> QED BY <1>9, <1>c, <2>1, ReassembledKeys
<1>10. CASE k = "log_level"
  <2>1. f["logLevel"] = c["log_level"] BY <1>1, <1>2, <1>3, <1>10 DEF OrElse
  <2>2. Reassembled(c, f)["log_level"] = f["logLevel"] BY <1>c, ReassembledKeys
  <2> QED BY <1>10, <2>1, <2>2
<1>11. CASE k = "headless"
  <2>1. (IF f["headless"] = "headless" THEN "true" ELSE Blank) = c["headless"]
    BY <1>1, <1>2, <1>3, <1>11, <1>c DEF Sound
  <2>2. Reassembled(c, f)["headless"] = IF f["headless"] = "headless" THEN "true" ELSE Blank
    BY <1>c, ReassembledKeys
  <2> QED BY <1>11, <2>1, <2>2
<1>12. CASE k \in {"radio", "station", "slice"}
  <2>1. f[k] = c[k] BY <1>1, <1>2, <1>3, <1>12
  <2>2. Reassembled(c, f)["radio"] = f["radio"] BY <1>c, ReassembledKeys
  <2>3. Reassembled(c, f)["station"] = f["station"] BY <1>c, ReassembledKeys
  <2>4. Reassembled(c, f)["slice"] = f["slice"] BY <1>c, ReassembledKeys
  <2> QED BY <1>12, <2>1, <2>2, <2>3, <2>4
<1>13. CASE k \notin {"radio", "station", "slice", "listen", "web", "proxy", "proxy_ip",
                      "udp_port", "log_level", "headless"}
  BY <1>13, <1>c, ReassembledKeys
<1> QED BY <1>5, <1>6, <1>7, <1>8, <1>9, <1>10, <1>11, <1>12, <1>13

(* The step that hands in the form is Fill.                                *)
LEMMA WrittenByFill ==
    ASSUME StartInv, StartupStep, phase = "form", phase' = "write"
    PROVE  settings' = Reassembled(settings, form')
<1>1. ~(RunSetup \/ Abort \/ Truncate \/ Killed \/ Save)
  BY DEF RunSetup, Abort, Truncate, Killed, Save, EndSetup
<1>2. ~\E fl \in CommandLines : \E tty \in BOOLEAN : Start(fl, tty) BY DEF Start
<1>3. ~(Picking \/ Picked \/ ListenHamlib \/ StartProxy \/ Connect \/ Disconnect
        \/ HamlibCommand \/ Interrupt)
  BY DEF Picking, Picked, ListenHamlib, StartProxy, Connect, Disconnect, HamlibCommand,
         Interrupt
<1>4. ~\E p \in Posts : Post(p[1], p[2]) BY DEF Post
<1> QED BY <1>1, <1>2, <1>3, <1>4 DEF StartupStep, Fill

(* A step that changes a variable of main is one of StartupStep.           *)
LEMMA MainSteps == ASSUME [Next]_vars PROVE StartupStep \/ UNCHANGED startupVars
BY DEF Next, vars

-----------------------------------------------------------------------------
(* Theorems.                                                               *)

(* Whatever runs of the wizard and of the program follow each other: both  *)
(* configurations are complete and their listen addresses can be taken     *)
(* apart, the picker's cursor is on a radio it shows (tui.go, Update), and *)
(* there is something on the networks only while a relay serves.           *)
THEOREM TypeCorrect == Spec => []TypeOK
<1>1. RInv => TypeOK
  <2> SUFFICES ASSUME RInv PROVE TypeOK OBVIOUS
  <2>1. \A c \in {cfg, settings} : Whole(c) BY DEF RInv, SettingsOK
  <2>2. \A c \in {cfg, settings} :
           DOMAIN c = Keys /\ {c["listen"], c["web"], c["proxy"]} \subseteq DOMAIN Split
    BY <2>1 DEF Whole, Sound, Keys
  <2> QED BY <2>2 DEF RInv, SettingsOK, Stored, PickerOK, PhaseOK, NetworksOK, TypeOK
<1> QED BY <1>1, SpecRInv, PTL

(* startDiscoveryRelay, rewriteDiscoveryPacket: what goes out under        *)
(* Flexy's name is about the radio of this run, unless a POST has changed  *)
(* the radio, and says where its proxy listens, unless a POST has changed  *)
(* the proxy or the proxy could not listen, for every radio, proxy, network*)
(* and start that went before.                                             *)
THEOREM AdvertisedCorrect == Spec => []AdvertisedIsServed
<1>1. RInv => AdvertisedIsServed BY DEF RInv, NetworksOK, Tells, AdvertisedIsServed
<1> QED BY <1>1, SpecRInv, PTL

(* The relay does not relay what it sent, nor the rebroadcaster of         *)
(* another site what it rebroadcast, however late and often they hear it.  *)
THEOREM NoEchoCorrect == Spec => []NoEcho
<1>1. RInv => NoEcho
  <2> SUFFICES ASSUME RInv, NEW p \in air \cup far PROVE p.marks <= 1 /\ p.copies <= 1
    BY DEF NoEcho
  <2>1. p.marks \in {0, 1} /\ p.copies \in {0, 1}
    <3>1. p \in RadioPackets => p.marks = 0 /\ p.copies = 0 BY RelayAssumption
    <3> QED BY <3>1 DEF RInv, NetworksOK
  <2> QED BY <2>1
<1> QED BY <1>1, SpecRInv, PTL

(* runSetup, config.Save, config.Load and applyConfigFile together: every  *)
(* setting the last wizard to write the file left is in force in later     *)
(* runs, unless a flag says otherwise, whatever other runs and aborted     *)
(* wizards were in between; and after one that was killed in its write,    *)
(* which loses what earlier ones left, runs use the flags and defaults.    *)
THEOREM SetupTakesEffectCorrect == Spec => SetupTakesEffect
<1>1. ASSUME RInv, [Next]_vars
      PROVE  [phase = "shell" /\ phase' \in {"tui", "listen"} /\ wanted # Empty =>
                \A k \in Keys :
                   cfg'[k] = IF k \in DOMAIN flags' THEN flags'[k]
                             ELSE OrElse(wanted[k], Defaults[k])]_startupVars
  <2> SUFFICES ASSUME StartupStep, phase = "shell", phase' \in {"tui", "listen"},
                      wanted # Empty, NEW k \in Keys
               PROVE  cfg'[k] = IF k \in DOMAIN flags' THEN flags'[k]
                                ELSE OrElse(wanted[k], Defaults[k])
    BY <1>1, MainSteps
  <2>1. StartInv BY <1>1 DEF RInv, StartInv
  <2>2. PICK fl \in CommandLines : flags' = fl /\ cfg' = applyConfigFile(Load(file), fl)
    BY <2>1, StartsFromFile
  <2>3. file = Saved(wanted) BY <1>1 DEF RInv, SettingsOK
  <2>4. DOMAIN fl \subseteq Keys BY InputAssumption DEF SoundSettings
  <2> QED BY <2>2, <2>3, <2>4, AppliedSaved
<1> QED BY <1>1, SpecRInv, PTL DEF Spec, SetupTakesEffect

(* runSetup: the wizard hands every setting back as it found it that its   *)
(* user did not change, for every file, address and network interface, but *)
(* a listen, web or proxy address without a port, for which it proposes one*)
(* (setup.go:119-176).                                                     *)
THEOREM WizardKeepsTheRestCorrect == Spec => WizardKeepsTheRest
<1>1. ASSUME RInv, [Next]_vars
      PROVE  [phase = "form" /\ phase' = "write" =>
                \A k \in Keys :
                   (\A f \in FieldsOf[k] : form'[f] = form[f]) /\ ~Reoffered(k) =>
                      settings'[k] = settings[k]]_startupVars
  <2> SUFFICES ASSUME StartupStep, phase = "form", phase' = "write", NEW k \in Keys,
                      \A f \in FieldsOf[k] : form'[f] = form[f], ~Reoffered(k)
               PROVE  settings'[k] = settings[k]
    BY <1>1, MainSteps
  <2>1. settings' = Reassembled(settings, form') BY <1>1, WrittenByFill DEF RInv, StartInv
  <2>2. Whole(settings) /\ settings["log_level"] # Blank /\ form = Proposed(settings)
    BY <1>1 DEF RInv, SettingsOK
  <2>3. k \in {"listen", "web", "proxy"} => Split[settings[k]][2] # Blank BY DEF Reoffered
  <2>4. \A f \in FieldsOf[k] : form'[f] = Proposed(settings)[f] BY <2>2
  <2> QED BY <2>1, <2>2, <2>3, <2>4, FormMakesSame
<1> QED BY <1>1, SpecRInv, PTL DEF Spec, WizardKeepsTheRest
=============================================================================
