----------------------------- MODULE RigControl -----------------------------
(***************************************************************************)
(* The Hamlib command handlers (freq.go, mode.go, ptt.go, vfo.go,          *)
(* audio.go, rfpower.go, preamp-att.go, tuner.go, rawcmd.go and the rest)  *)
(* between several Hamlib clients and the radio.                           *)
(*                                                                         *)
(* A get answers from the FlexClient's copy of the radio's state, which    *)
(* trails the radio. A set looks at that copy, sends one or two commands,  *)
(* waits for each to be answered, and may look again in between. Numbers   *)
(* are in thousandths, so that the roundings of the handlers show.         *)
(***************************************************************************)
EXTENDS HamlibDispatch

CONSTANTS
    Clients,
    Number,     \* Number[w]: the number the word w is, in thousandths
    Whole,      \* the words strconv.Atoi takes: 1 is one of them, 1.0 is not
    Sessions    \* by name, sets of lines clients send and the changes made at
                \* the radio meanwhile: [lines, changes]. Lines of different
                \* sessions work on different parts of the radio's state.

Lines == [ext : BOOLEAN, long : BOOLEAN, words : Seq(STRING)]
ASSUME LinesAssumption == \A s \in DOMAIN Sessions : Sessions[s].lines \subseteq Lines
ASSUME NumberAssumption == \A w \in DOMAIN Number : Number[w] \in Int
ASSUME RawAssumption ==
    \A s \in DOMAIN Sessions : \A l \in Sessions[s].lines :
        l.words # <<>> /\ Head(l.words) \in {"w", "send_cmd"} =>
            Tail(l.words) \in {<<>>, <<"xmit", "0">>, <<"xmit", "1">>, <<"info">>}
ASSUME WholeAssumption == \A w \in Whole : w \in DOMAIN Number /\ Number[w] % 1000 = 0

VARIABLES
    handlers,   \* the handler table
    loaded,     \* the handlers in it
    session,    \* the one being played
    radio,      \* the radio's state, key by key
    cache,      \* fc's copy of it
    slice,      \* the slice is in that copy
    fc,         \* a FlexClient was made: it stays, runRadio only replaces it
    at,         \* at[c]: "idle", "wait" for the radio, "go" on, "reply", "gone"
    line,       \* line[c]: the line being handled
    cmd,        \* cmd[c]: the command it sent, as what it sets
    next,       \* next[c]: where its handler goes on
    reply,      \* reply[c]: what it is about to send
    checked,    \* clients whose chkVFOexecuted is set
    crashed,    \* the program has panicked
    \* --- history ---
    clean,      \* clean[c]: c's line has had the radio to itself so far
    moved,      \* moved[c]: the TX flag moved away unseen since c looked
    asked       \* asked[i]: what the last set of item i asked for, <<>> if unknown

conn == <<at, line, cmd, next, reply, checked>>
history == <<clean, moved, asked>>
vars == <<handlers, loaded, session, radio, cache, slice, fc, conn, crashed, history>>

NoLine == [ext |-> FALSE, long |-> FALSE, words |-> <<>>]
Items == {"freq", "rit", "xit", "mode", "ptt", "AF", "RFPOWER", "RF", "PREAMP", "ATT",
          "TUNER"}
Forgotten == [i \in Items |-> <<>>]

(* A radio as it may be found, with a carrier-free transmitter.            *)
InitialState ==
    [freq |-> 7000, rit_on |-> 0, rit_freq |-> 0, xit_on |-> 0, xit_freq |-> 0,
     mode |-> "USB", filter |-> <<100, 2800>>, tx |-> 0, xmit |-> 0, af |-> 50,
     rfpower |-> 100, agc_mode |-> "med", agc_threshold |-> 65, agc_off_level |-> 10,
     rfgain |-> 0, tune |-> 0, atu |-> "BYPASS"]

(* A gain is a number, also when somebody else changes it.                 *)
ASSUME ChangesAssumption ==
    \A s \in DOMAIN Sessions : \A ch \in Sessions[s].changes :
        ch[1] = "rfgain" => ch[2] \in Int

(* What a command sets, as a function on what it names.                    *)
SetsNothing == [k \in {} |-> 0]
Over(f, g) ==
    [k \in DOMAIN f \cup DOMAIN g |-> IF k \in DOMAIN f THEN f[k] ELSE g[k]]

Init ==
    /\ handlers = NoTable /\ loaded = {}
    /\ session \in DOMAIN Sessions
    /\ radio = InitialState /\ cache = InitialState
    /\ slice = TRUE /\ fc = FALSE
    /\ at = [c \in Clients |-> "idle"]
    /\ line = [c \in Clients |-> NoLine]
    /\ cmd = [c \in Clients |-> SetsNothing]
    /\ next = [c \in Clients |-> "start"]
    /\ reply = [c \in Clients |-> <<>>]
    /\ checked = {} /\ crashed = FALSE
    /\ clean = [c \in Clients |-> FALSE]
    /\ moved = [c \in Clients |-> FALSE]
    /\ asked = Forgotten

-----------------------------------------------------------------------------
(* The words strconv accepts as numbers.                                   *)

IsFloat(w) == w \in DOMAIN Number
IsInt(w) == w \in Whole
Int_(w) == Number[w] \div 1000

(* n / d rounded to the nearest: math.Round away from zero at a half, and  *)
(* the %.0f of fmt to the even neighbour.                                  *)
Round(n, d) == IF n < 0 THEN -((-n + d \div 2) \div d) ELSE (n + d \div 2) \div d
RoundEven(n, d) ==
    LET r == Round(n, d) IN IF 2 * n = 2 * r * d - d /\ r % 2 = 1 THEN r - 1 ELSE r
Percent(w) == RoundEven(Number[w], 10)

-----------------------------------------------------------------------------
(* A handler, at the point where it is, says its reply or sends a command  *)
(* and names the point where the answer finds it.                          *)

Say(lines) == [do |-> SetsNothing, then |-> "reply", say |-> lines, failed |-> FALSE]
Do(sets, then) == [do |-> sets, then |-> then, say |-> <<>>, failed |-> FALSE]
FailsWith(lines) == [do |-> SetsNothing, then |-> "reply", say |-> lines, failed |-> TRUE]
Fails == FailsWith(Error)
SetsOne(key, val) == Do([k \in {key} |-> val], "success")
Value(v) == Say(<<Val(v)>>)
FromSlice(outcome) == IF slice THEN outcome ELSE Fails

get_freq == IF slice THEN Value(cache["freq"] * 1000) ELSE FailsWith(<<[err |-> "ERR"]>>)
set_freq(a) == IF IsFloat(a[1]) THEN SetsOne("freq", Round(Number[a[1]], 1000)) ELSE Fails

get_ritxit(on, freq) ==
    FromSlice(Value(IF cache[on] = 0 THEN 0 ELSE cache[freq]))

set_ritxit(on, freq, a) ==
    IF ~IsInt(a[1]) THEN Fails
    ELSE IF Int_(a[1]) = 0 THEN Do([k \in {on, freq} |-> 0], "success")
    ELSE Do([k \in {on, freq} |-> IF k = on THEN 1 ELSE Int_(a[1])], "success")

Mode(flex, width, center) == [flex |-> flex, width |-> width, center |-> center]
Modes ==
    [AM |-> Mode("AM", 6000, 0), AMS |-> Mode("SAM", 6000, 0),
     USB |-> Mode("USB", 2700, 1500), LSB |-> Mode("LSB", 2700, -1500),
     CW |-> Mode("CW", 500, 0), PKTUSB |-> Mode("DIGU", 3000, 1500),
     PKTLSB |-> Mode("DIGL", 3000, -1500), FM |-> Mode("FM", 0, 0),
     PKTFM |-> Mode("DFM", 12000, 0)]
FromFlex(flex) == {m \in DOMAIN Modes : Modes[m].flex = flex}

get_mode ==
    FromSlice(IF FromFlex(cache["mode"]) = {} THEN Fails
              ELSE Say(<<Word(CHOOSE m \in FromFlex(cache["mode"]) : TRUE),
                         Val(cache["filter"][2] - cache["filter"][1])>>))
set_mode(a, here) ==
    IF a[1] \notin DOMAIN Modes \/ ~IsInt(a[2]) THEN Fails
    ELSE LET mode == Modes[a[1]]
             width == IF Int_(a[2]) < 0 THEN mode.width ELSE Int_(a[2])
         IN  IF here = "start" THEN Do([mode |-> mode.flex], "filter")
             ELSE IF width = 0 THEN Say(Success)
             ELSE SetsOne("filter", <<mode.center - width \div 2, mode.center + width \div 2>>)

(* The transmit and the atu object are in fc's copy: their being missing,  *)
(* a plain error, is left out of this and of rfpower, rf and the tuner.    *)
get_ptt == Value(cache["xmit"])

(* Mutant of set_ptt: the TX flag is taken for granted.                    *)
SetPttBlind(a, here) == SetsOne("xmit", IF a[1] = "0" THEN 0 ELSE 1)
set_ptt(a, here) ==
    IF a[1] = "0" THEN SetsOne("xmit", 0)
    ELSE IF here = "xmit" THEN SetsOne("xmit", 1)
    ELSE FromSlice(IF cache["tx"] = 1 THEN SetsOne("xmit", 1) ELSE Do([tx |-> 1], "xmit"))

get_percent(key) == Value(cache[key] * 10)
set_percent(key, a) == IF IsFloat(a[1]) THEN SetsOne(key, Percent(a[1])) ELSE Fails
AgcKey == IF cache["agc_mode"] = "off" THEN "agc_off_level" ELSE "agc_threshold"
get_level_rf == FromSlice(get_percent(AgcKey))
set_level_rf(a) == FromSlice(set_percent(AgcKey, a))

get_level_preamp_att(a) ==
    FromSlice(Value(IF a[2] = "ATT" THEN IF cache["rfgain"] < 0 THEN 1 ELSE 0
                    ELSE IF cache["rfgain"] < 0 THEN 0 ELSE cache["rfgain"] \div 8))

SetsGain(level, gain) ==
    IF level = "ATT" THEN SetsOne("rfgain", IF gain = 0 THEN 0 ELSE -8)
    ELSE IF gain < 0 \/ gain > 24 THEN Fails
    ELSE SetsOne("rfgain", gain)

(* Mutant of set_level_preamp_att: a 0 is sent whatever the gain is.       *)
SetGainUncoupled(a) ==
    IF ~IsFloat(a[3]) THEN Fails
    ELSE LET level == 8 * Round(Number[a[3]], 1000)
         IN  SetsGain(a[2], level)
set_level_preamp_att(a) ==
    IF ~IsFloat(a[3]) THEN Fails
    ELSE LET level == 8 * Round(Number[a[3]], 1000)
             gain == cache["rfgain"]
             unneeded == level = 0 /\ IF a[2] = "ATT" THEN gain >= 0 ELSE gain <= 0
         IN  FromSlice(IF unneeded THEN Say(Success) ELSE SetsGain(a[2], level))

get_func_tuner ==
    Value(IF cache["tune"] # 0 THEN 2
          ELSE CASE cache["atu"] = "IN_PROGRESS" -> 3
                 [] cache["atu"] = "BYPASS" -> 0
                 [] OTHER -> 1)
Bypassed == cache["atu"] = "BYPASS"
set_func_tuner(a, here) ==
    CASE a[1] = "0" ->
             IF here = "start" /\ cache["tune"] # 0 THEN Do([tune |-> 0], "bypass")
             ELSE IF Bypassed THEN Say(Success) ELSE SetsOne("atu", "BYPASS")
      [] a[1] = "1" ->
             IF here = "start" /\ ~Bypassed THEN Do([atu |-> "BYPASS"], "tune")
             ELSE SetsOne("atu", "IN_PROGRESS")
      [] a[1] = "2" -> SetsOne("tune", 1)
      [] OTHER -> Fails

set_vfo(a) ==
    CASE a[1] = "?" -> Say(<<Word("VFOA")>>)
      [] a[1] \in {"VFOA", "Main", "TX", "RX"} -> Say(Success)
      [] OTHER -> Fails
set_split_vfo(a) == IF a[1] = "0" /\ a[2] = "VFOA" THEN Say(Success) ELSE Fails
dump_state(c) ==
    IF c \in checked THEN Say(<<Word("state"), Word("protocol1")>>) ELSE Say(<<Word("state")>>)

(* What the commands a client passes on with send_cmd set at the radio. It *)
(* passes on any line; the sessions keep to these (RawAssumption).         *)
RawSets(a) ==
    CASE a = <<"xmit", "0">> -> [xmit |-> 0]
      [] a = <<"xmit", "1">> -> [xmit |-> 1]
      [] OTHER -> SetsNothing

send_cmd(a, here) ==
    IF here = "start" THEN Do(RawSets(a), "answered")
    ELSE Value(IF here = "answered" THEN 0 ELSE 1)

Get_(c, h, a) ==
    CASE h.name = "get_freq" -> get_freq
      [] h.name = "get_rit" -> get_ritxit("rit_on", "rit_freq")
      [] h.name = "get_xit" -> get_ritxit("xit_on", "xit_freq")
      [] h.name = "get_mode" -> get_mode
      [] h.name = "get_ptt" -> get_ptt
      [] h.name = "get_level" ->
             CASE h.required = "AF" -> FromSlice(get_percent("af"))
               [] h.required = "RFPOWER" -> get_percent("rfpower")
               [] h.required = "RF" -> get_level_rf
               [] h.required \in {"PREAMP", "ATT"} -> get_level_preamp_att(a)
               [] OTHER -> Say(Error)      \* a meter nothing was heard of: MeterMap
      [] h.name = "get_func" -> get_func_tuner
      [] h.name = "chk_vfo" -> Value(0)
      [] h.name = "get_vfo" -> Say(<<Word("VFOA")>>)
      [] h.name = "get_split_vfo" -> Say(<<Word("0"), Word("VFOA")>>)
      [] h.name = "get_lock_mode" -> Value(0)
      [] h.name = "get_powerstat" -> Value(1)
      [] OTHER -> dump_state(c)

Set_(h, a, here) ==
    CASE h.name = "set_freq" -> set_freq(a)
      [] h.name = "set_rit" -> set_ritxit("rit_on", "rit_freq", a)
      [] h.name = "set_xit" -> set_ritxit("xit_on", "xit_freq", a)
      [] h.name = "set_mode" -> set_mode(a, here)
      [] h.name = "set_ptt" -> set_ptt(a, here)
      [] h.name = "set_level" ->
             CASE h.required = "AF" -> set_percent("af", a)
               [] h.required = "RFPOWER" -> set_percent("rfpower", a)
               [] h.required = "RF" -> set_level_rf(a)
               [] OTHER -> set_level_preamp_att(a)
      [] h.name = "set_func" -> set_func_tuner(a, here)
      [] h.name = "set_vfo" -> set_vfo(a)
      [] OTHER -> set_split_vfo(a)

Setters == {"set_freq", "set_rit", "set_xit", "set_mode", "set_ptt", "set_level",
            "set_func", "set_vfo", "set_split_vfo"}
Handle(c, h, a, here) ==
    IF here = "success" THEN Say(Success)
    ELSE IF h.name = "send_cmd" THEN send_cmd(a, here)
    ELSE IF h.name \in Setters THEN Set_(h, a, here)
    ELSE Get_(c, h, a)

(* Every handler but these calls a method of fc, which panics before there *)
(* is a FlexClient, as with -proxy-only there never is; a set parses its   *)
(* arguments first.                                                        *)
Answering == {"dump_state", "chk_vfo", "get_vfo", "set_vfo", "get_split_vfo", "set_split_vfo",
              "get_lock_mode", "get_powerstat"}
NeedsRadio(h) == h.name \notin Answering /\ ~(h.name = "get_level" /\ h.required \in Meters)
Parsed(h, a) ==
    CASE h.name = "set_freq" -> IsFloat(a[1])
      [] h.name \in {"set_rit", "set_xit"} -> IsInt(a[1])
      [] h.name = "set_mode" -> a[1] \in DOMAIN Modes /\ IsInt(a[2])
      [] h.name = "set_level" -> IsFloat(a[Len(a)])
      [] h.name = "set_func" -> a[1] \in {"0", "1", "2"}
      [] OTHER -> TRUE

(* What becomes of a line, a panic in its handler included.                *)
Found(l) ==
    LET d == Dispatch(handlers, l)
    IN  IF d.found = "handler" /\ ~fc /\ NeedsRadio(d.h) /\ Parsed(d.h, d.args)
          THEN [found |-> "nil"] ELSE d

-----------------------------------------------------------------------------
(* History: what the last set of each item asked for. PREAMP and ATT share *)
(* one gain, so a value other than 0 for one takes the other's away.       *)

ItemOf(h) ==
    CASE h.name \in {"set_freq"} -> "freq"
      [] h.name = "set_rit" -> "rit"
      [] h.name = "set_xit" -> "xit"
      [] h.name = "set_mode" -> "mode"
      [] h.name = "set_ptt" -> "ptt"
      [] h.name = "set_level" -> h.required
      [] h.name = "set_func" -> "TUNER"
      [] OTHER -> "none"
Wanted(a) == a[Len(a)]
Coupled(i, j) == {i, j} = {"PREAMP", "ATT"}
AskedFor(h, a) ==
    [i \in Items |->
        IF i = ItemOf(h) THEN a
        ELSE IF /\ Coupled(i, ItemOf(h)) /\ asked[i] # <<>>
                /\ Round(Number[Wanted(a)], 1000) # 0
                /\ Round(Number[Wanted(asked[i])], 1000) # 0
          THEN <<>> ELSE asked[i]]

AfterReply(h, a, r, alone) ==
    IF h.name \notin Setters \cup {"send_cmd"} \/ (alone /\ r.failed) THEN asked
    ELSE IF alone /\ r.say = Success THEN AskedFor(h, a)
    ELSE Forgotten

-----------------------------------------------------------------------------
(* The init functions, before main: one handler after the other.           *)

Load ==
    \E h \in Due(loaded) :
        /\ loaded' = loaded \cup {h}
        /\ handlers' = AddHandler(handlers, h)
        /\ UNCHANGED <<session, radio, cache, slice, fc, conn, crashed, history>>

(* The clients' goroutines.                                                *)

(* The handler of l runs from here until it waits for the radio or returns.*)
Run(c, l, d, here, alone) ==
    LET r == Handle(c, d.h, d.args, here)
        said == IF l.ext /\ ~r.failed THEN processExtendedResponse(l, r.say) ELSE r.say
    IN  IF r.then # "reply"
          THEN /\ at' = [at EXCEPT ![c] = "wait"]
               /\ cmd' = [cmd EXCEPT ![c] = r.do]
               /\ next' = [next EXCEPT ![c] = r.then]
               /\ clean' = [x \in Clients |-> x = c /\ alone]
               /\ UNCHANGED <<reply, asked>>
          ELSE /\ at' = [at EXCEPT ![c] = "reply"]
               /\ reply' = [reply EXCEPT ![c] = said]
               /\ asked' = AfterReply(d.h, d.args, r, alone)
               /\ clean' = [clean EXCEPT ![c] = FALSE]
               /\ next' = [next EXCEPT ![c] = "start"]
               /\ UNCHANGED cmd

Receive(c, l) ==
    LET d == Found(l)
    IN  /\ at[c] = "idle" /\ d.found # "silent"
        /\ line' = [line EXCEPT ![c] = l]
        /\ checked' = IF d.found = "handler" /\ d.h.name = "chk_vfo"
                        THEN checked \cup {c} ELSE checked
        /\ crashed' = (d.found \in {"panic", "nil"})
        /\ moved' = [moved EXCEPT ![c] = cache["tx"] # radio["tx"]]
        /\ CASE d.found = "handler" ->
                    Run(c, l, d, "start",
                        cache = radio /\ \A x \in Clients \ {c} : at[x] \in {"idle", "gone"})
             [] d.found = "error" ->
                    /\ at' = [at EXCEPT ![c] = "reply"]
                    /\ reply' = [reply EXCEPT ![c] = Error]
                    /\ UNCHANGED <<cmd, next, clean, asked>>
             [] OTHER ->
                    /\ at' = [at EXCEPT ![c] = "gone"]
                    /\ UNCHANGED <<cmd, next, reply, clean, asked>>
        /\ UNCHANGED <<handlers, loaded, session, radio, cache, slice, fc>>

Go(c) ==
    /\ at[c] = "go"
    /\ Run(c, line[c], Dispatch(handlers, line[c]), next[c], clean[c])
    /\ UNCHANGED <<handlers, loaded, session, radio, cache, slice, fc, line,
                   checked, crashed, moved>>

Write(c) ==
    /\ at[c] = "reply"
    /\ at' = [at EXCEPT ![c] = "idle"]
    /\ reply' = [reply EXCEPT ![c] = <<>>]
    /\ line' = [line EXCEPT ![c] = NoLine]
    /\ UNCHANGED <<handlers, loaded, session, radio, cache, slice, fc, cmd, next,
                   checked, crashed, history>>

-----------------------------------------------------------------------------
(* The radio. A new mode brings the filter the radio keeps for it.         *)

Executed(sets) ==
    {Over(sets, radio)} \cup
        IF "mode" \in DOMAIN sets
          THEN {Over(sets, Over([filter |-> <<300, 3300>>], radio))} ELSE {}

Accept(c) ==
    /\ at[c] = "wait"
    /\ radio' \in Executed(cmd[c])
    /\ at' = [at EXCEPT ![c] = "go"]
    /\ cmd' = [cmd EXCEPT ![c] = SetsNothing]
    /\ UNCHANGED <<handlers, loaded, session, cache, slice, fc, line, next,
                   reply, checked, crashed, history>>

(* An error code: send_cmd passes it on, set_mode tolerates one of them.   *)
Refuse(c) ==
    /\ at[c] = "wait"
    /\ clean' = [clean EXCEPT ![c] = FALSE]
    /\ \/ /\ next[c] \in {"answered", "filter"}
          /\ at' = [at EXCEPT ![c] = "go"]
          /\ next' = [next EXCEPT ![c] = IF @ = "answered" THEN "refused" ELSE @]
          /\ UNCHANGED <<reply, asked>>
       \/ /\ next[c] # "answered"
          /\ at' = [at EXCEPT ![c] = "reply"]
          /\ reply' = [reply EXCEPT ![c] = Error]
          /\ asked' = Forgotten
          /\ next' = [next EXCEPT ![c] = "start"]
    /\ cmd' = [cmd EXCEPT ![c] = SetsNothing]
    /\ UNCHANGED <<handlers, loaded, session, radio, cache, slice, fc, line,
                   checked, crashed, moved>>

(* The connection ends, or the context does, before the answer comes.      *)
Abandon(c) ==
    /\ at[c] = "wait"
    /\ radio' \in {radio} \cup Executed(cmd[c])
    /\ at' = [at EXCEPT ![c] = "reply"]
    /\ reply' = [reply EXCEPT ![c] = Error]
    /\ asked' = Forgotten
    /\ clean' = [clean EXCEPT ![c] = FALSE]
    /\ cmd' = [cmd EXCEPT ![c] = SetsNothing]
    /\ next' = [next EXCEPT ![c] = "start"]
    /\ UNCHANGED <<handlers, loaded, session, cache, slice, fc, line,
                   checked, crashed, moved>>

Deliver(k) ==
    /\ cache[k] # radio[k]
    /\ cache' = [cache EXCEPT ![k] = radio[k]]
    /\ UNCHANGED <<handlers, loaded, session, radio, slice, fc, conn, crashed, history>>

(* Somebody works at the radio or at another of its clients.               *)
Change(k, v) ==
    /\ radio[k] # v
    /\ radio' = [radio EXCEPT ![k] = v]
    /\ asked' = Forgotten
    /\ clean' = [c \in Clients |-> FALSE]
    /\ moved' = [c \in Clients |-> moved[c] \/ (k = "tx" /\ at[c] \in {"wait", "go"})]
    /\ UNCHANGED <<handlers, loaded, session, cache, slice, fc, conn, crashed>>

TunerFinishes ==
    /\ radio["atu"] = "IN_PROGRESS"
    /\ radio' = [radio EXCEPT !["atu"] = "SUCCESSFUL"]
    /\ UNCHANGED <<handlers, loaded, session, cache, slice, fc, conn, crashed, history>>

(* The slice goes from the FlexClient's copy, or comes back.               *)
SliceSeen ==
    /\ slice' = ~slice
    /\ UNCHANGED <<handlers, loaded, session, radio, cache, fc, conn, crashed, history>>

(* runRadio makes its first FlexClient.                                    *)
Connect ==
    /\ ~fc /\ fc' = TRUE
    /\ UNCHANGED <<handlers, loaded, session, radio, cache, slice, conn, crashed, history>>

Running == loaded = Handlers /\ ~crashed
Next ==
    \/ Load
    \/ /\ Running
       /\ \/ \E c \in Clients :
                \/ \E l \in Sessions[session].lines : Receive(c, l)
                \/ Go(c) \/ Write(c) \/ Accept(c) \/ Refuse(c) \/ Abandon(c)
          \/ Connect
          \/ fc /\ \/ \E k \in DOMAIN radio : Deliver(k)
                   \/ \E ch \in Sessions[session].changes : Change(ch[1], ch[2])
                   \/ TunerFinishes \/ SliceSeen

Spec == Init /\ [][Next]_vars

-----------------------------------------------------------------------------

(* Each handler an init function adds to the shared table leaves those of  *)
(* the files before it where they were, also where they share a first      *)
(* word: a line finds the one handler it begins a path of.                 *)
DispatchExact ==
    [][loaded' # loaded =>
          \A l \in UNION {Sessions[s].lines : s \in DOMAIN Sessions} : l.words # <<>> =>
              LET w == Walk(handlers', Parts(l))
                  known == Registered(loaded', Parts(l))
              IN  IF w.found = "handler" THEN known = {w.h} ELSE known = {}]_vars

(* A client's line makes the program panic in two ways only: it stops      *)
(* short of a handler's path (handleCmd), or it asks for the radio before  *)
(* the first FlexClient was made (the handlers' fc). So once there is one, *)
(* no complete line does, whatever its arguments are and whatever the radio*)
(* answers, and before that no line about anything but the radio.          *)
ForRadio(l) == l.words # <<>> /\ \E h \in Registered(Handlers, Parts(l)) : NeedsRadio(h)
CrashesTwoWays ==
    crashed => \E c \in Clients : Incomplete(line[c]) \/ (~fc /\ ForRadio(line[c]))

(* A reply is values without a code or one code; an extended one names its *)
(* command and ends with its only code, also when a handler answered with  *)
(* a code of its own (processExtendedResponse).                            *)
ReplyWellFormed ==
    \A c \in Clients : at[c] = "reply" =>
        LET r == reply[c]
        IN  IF "echo" \in DOMAIN r[1] THEN RprtsOf(r) = {Len(r)}
            ELSE RprtsOf(r) \in {{}, {1}} /\ (RprtsOf(r) = {1} => Len(r) = 1)

(* What a client set and was told RPRT 0 for is what everybody reads, as   *)
(* near as the radio keeps it, once the copy has caught up: if no other    *)
(* handler was under way beside its own, the copy was current when that one*)
(* began, and nobody else worked on the radio since. So it does not speak  *)
(* of an L ATT 0 right after an L ATT 1, answered RPRT 0 and dropped while *)
(* the copy does not show the 1 yet (preamp-att.go:88), nor of two M at a  *)
(* time.                                                                   *)
(* PREAMP and ATT, one gain to the radio, each keep what was asked of them *)
(* when the other is set to 0 (the note at preamp-att.go:84). U TUNER 1    *)
(* leaves the carrier of a U TUNER 2 on, and that is what is read then.    *)
Near(v, w, d) == v - w <= d /\ w - v <= d
Kept(i, a) ==
    LET wanted == Number[Wanted(a)]
        got(r) == r.say[1].value
        level == got(Get_(0, [name |-> "get_level", required |-> i], <<"l", i>>))
    IN  CASE i = "freq" -> Near(got(get_freq), wanted, 500)
          [] i = "rit" -> got(get_ritxit("rit_on", "rit_freq")) = Int_(Wanted(a))
          [] i = "xit" -> got(get_ritxit("xit_on", "xit_freq")) = Int_(Wanted(a))
          [] i = "ptt" -> got(get_ptt) = IF a[1] = "0" THEN 0 ELSE 1
          [] i = "mode" ->
                 LET width == IF wanted < 0 THEN Modes[a[1]].width ELSE Int_(Wanted(a))
                 IN  /\ get_mode.say[1].word = a[1]
                     /\ width # 0 => get_mode.say[2].value = width - (width % 2)
          [] i \in {"AF", "RFPOWER", "RF"} -> Near(level, wanted, 5)
          [] i = "PREAMP" -> level = Round(wanted, 1000)
          [] i = "ATT" -> level = IF Round(wanted, 1000) = 0 THEN 0 ELSE 1
          [] i = "TUNER" -> got(get_func_tuner) \in
                 CASE a[1] = "0" -> {0} [] a[1] = "2" -> {2}
                   [] OTHER -> IF radio["tune"] # 0 THEN {2} ELSE {1, 3}
Quiet == slice /\ cache = radio /\ \A c \in Clients : at[c] \in {"idle", "gone"}
ReadsBack == Quiet => \A i \in Items : asked[i] = <<>> \/ Kept(i, asked[i])

(* When set_ptt is about to key the transmitter, Flexy's slice has the TX  *)
(* flag, unless somebody moved the flag since set_ptt looked or the look   *)
(* did not yet show it.                                                    *)
KeysOwnSlice ==
    \A c \in Clients :
        at[c] = "wait" /\ Head(line[c].words) = "T" /\ cmd[c] = [xmit |-> 1] =>
            radio["tx"] = 1 \/ moved[c]
=============================================================================
