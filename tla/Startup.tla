------------------------------ MODULE Startup ------------------------------
(***************************************************************************)
(* How a run of flexy gets its configuration, and how far it gets with it: *)
(* the file (internal/config/config.go), the wizard that writes it         *)
(* (cmd/flexy/setup.go), the flags and the part of main before and around  *)
(* the connection loop (cmd/flexy/main.go).                                *)
(*                                                                         *)
(* A setting's zero value ("", 0, false, a nil pointer) is written "", and *)
(* a file is the function of the settings it mentions, so a missing file,  *)
(* a truncated one and one that is not JSON are all empty: Load returns    *)
(* the defaults for each. The program is started, ends and is started      *)
(* again; only the file outlives it.                                       *)
(***************************************************************************)
EXTENDS Picker

CONSTANTS
    Files,          \* what the file may hold at first
    CommandLines,   \* the flags set on a command line, with their values
    Answers,        \* what a user changes in the wizard's form
    LocalAddrs,     \* addresses of the machine's interfaces
    Route,          \* the address a radio's address is reached from
    Split,          \* host and port of the listen addresses in use
    UDPPorts,       \* texts that are numbers other than 0
    Posts,          \* <<setting, value>> a POST /api/config may write
    NRuns           \* bound: program starts, the wizard's included

VARIABLES
    phase,      \* "shell", "form", "write", "tui", "listen", "services", "run"
    file,       \* the config file
    form,       \* the wizard's fields
    settings,   \* the Config the wizard loaded
    flags,      \* this run's command line
    cfg,        \* the global cfg
    fc,         \* "nil", "live", "closed": the global FlexClient
    proxyIP,    \* what the discovery relay was started with, "" if it was not
    why,        \* why the last run ended: "", "exit", "level", "profile",
                \* "listen", "proxy ip", "panic"
    runs,
    \* --- history ---
    wanted,     \* what the last wizard run to write the file left in it:
                \* its settings, or Lost if it was killed half-way
    posted      \* the settings POSTs have changed in this run

startupVars ==
    <<phase, file, form, settings, flags, cfg, fc, proxyIP, why, runs, wanted, posted>>

Keys == {"radio", "udp_port", "station", "slice", "headless", "listen", "web", "proxy",
         "proxy_ip", "radio_bind_ip", "profile", "log_level", "chkvfo_mode", "metering",
         "log_pings", "proxy_only"}
Empty == [k \in {} |-> Blank]
NoForm == Empty

(* What f says, and g where f says nothing.                                *)
Over(f, g) ==
    [k \in DOMAIN f \cup DOMAIN g |-> IF k \in DOMAIN f THEN f[k] ELSE g[k]]

Defaults ==
    Over([radio |-> ":discover:", station |-> "Flex", slice |-> "A", listen |-> ":4532",
          log_level |-> "info", chkvfo_mode |-> "new", metering |-> "true"],
         [k \in Keys |-> Blank])

(* What a setting can hold: a listen address that can be taken apart, a    *)
(* number or none, a flag that is set or not.                              *)
Sound(k, v) ==
    /\ k \in {"listen", "web", "proxy"} => v \in DOMAIN Split
    /\ k = "udp_port" => v \in UDPPorts \cup {Blank}
    /\ k = "headless" => v \in {"true", Blank}
SoundSettings(f) == DOMAIN f \subseteq Keys /\ \A k \in DOMAIN f : Sound(k, f[k])

(* A file mentions no zero values, as Save leaves them out.                *)
ASSUME InputAssumption ==
    /\ \A f \in Files : SoundSettings(f) /\ \A k \in DOMAIN f : f[k] # Blank
    /\ \A fl \in CommandLines : SoundSettings(fl)
    /\ \A p \in Posts : p[1] \in Keys /\ Sound(p[1], p[2])
    /\ \A k \in Keys : Sound(k, Defaults[k])

Init ==
    /\ PickerInit
    /\ phase = "shell" /\ file \in Files
    /\ form = NoForm /\ settings = Defaults /\ flags = Empty /\ cfg = Defaults
    /\ fc = "nil" /\ proxyIP = Blank /\ why = Blank /\ runs = 0
    /\ wanted = Empty /\ posted = {}

-----------------------------------------------------------------------------
(* config.Load and config.Save: a zero value is left out of the file.      *)

Load(f) == Over(f, Defaults)
Saved(c) == [k \in {x \in Keys : c[x] # Blank} |-> c[k]]

(* applyConfigFile over what flag.Parse made of the command line.          *)
(* Mutant of applyConfigFile: the file wins over the flags.                *)
FileWins(c, fl) == [k \in Keys |-> IF c[k] = Blank THEN Over(fl, Defaults)[k] ELSE c[k]]
applyConfigFile(c, fl) ==
    [k \in Keys |-> IF k \in DOMAIN fl \/ c[k] = Blank THEN Over(fl, Defaults)[k] ELSE c[k]]

-----------------------------------------------------------------------------
(* The wizard.                                                             *)

Other == "__other__"
(* Of names and IPv4 addresses; an IPv6 one would be put in brackets.      *)
JoinHostPort(host, port) == host \o ":" \o port

(* listenIPOptions and advertiseIPOptions preselect the current address if *)
(* it is one of the machine's, and else offer it for editing.              *)
Selected(current) == IF current \in LocalAddrs \cup {Blank} THEN current ELSE Other
Custom(current) == IF Selected(current) = Other THEN current ELSE Blank
(* Mutant of Chosen: an address typed in by hand is not looked at.         *)
ChosenFromList(selected, custom) == IF selected = Other THEN Blank ELSE selected
Chosen(selected, custom) == IF selected = Other THEN custom ELSE selected

OrElse(port, default) == IF port = Blank THEN default ELSE port

(* A log level is one of the options of the form: "trace", which only a    *)
(* file written by hand can have, is not (setup.go:287-295) and left out.  *)
Proposed(c) ==
    LET host(k) == Split[c[k]][1]
        port(k) == Split[c[k]][2]
    IN  [radio |-> c["radio"], station |-> c["station"], slice |-> c["slice"],
         catIP |-> Selected(host("listen")), customCatIP |-> Custom(host("listen")),
         catPort |-> OrElse(port("listen"), "4532"),
         webIP |-> Selected(host("web")), customWebIP |-> Custom(host("web")),
         webPort |-> OrElse(port("web"), "8080"),
         proxyIP |-> Selected(host("proxy")), customProxyIP |-> Custom(host("proxy")),
         proxyPort |-> OrElse(port("proxy"), "4992"),
         advIP |-> Selected(c["proxy_ip"]), customAdvIP |-> Custom(c["proxy_ip"]),
         udpPort |-> c["udp_port"], logLevel |-> OrElse(c["log_level"], "info"),
         headless |-> IF c["headless"] = Blank THEN "interactive" ELSE "headless"]

Listen(selected, custom, port) == JoinHostPort(Chosen(selected, custom), port)
(* What is not a number becomes 0, with no word about it.                  *)
Atoi(text) == IF text \in UDPPorts THEN text ELSE Blank

Service(selected, custom, port) ==
    IF port = Blank THEN Blank ELSE Listen(selected, custom, port)
Reassembled(c, f) ==
    Over([radio |-> f["radio"], station |-> f["station"], slice |-> f["slice"],
          listen |-> Listen(f["catIP"], f["customCatIP"], f["catPort"]),
          web |-> Service(f["webIP"], f["customWebIP"], f["webPort"]),
          proxy |-> Service(f["proxyIP"], f["customProxyIP"], f["proxyPort"]),
          proxy_ip |-> Chosen(f["advIP"], f["customAdvIP"]),
          udp_port |-> Atoi(f["udpPort"]), log_level |-> f["logLevel"],
          headless |-> IF f["headless"] = "headless" THEN "true" ELSE Blank], c)

(* Split undoes JoinHostPort, and what the form makes of one address is    *)
(* another that it knows.                                                  *)
ASSUME SplitAssumption ==
    /\ Other \notin LocalAddrs \cup {Blank}
    /\ \A x \in DOMAIN Split :
          /\ Split[x][2] # Blank => JoinHostPort(Split[x][1], Split[x][2]) = x
          /\ \A a \in Answers :
                LET f == Over(a, Proposed([k \in Keys |-> x]))
                IN  /\ Listen(f["catIP"], f["customCatIP"], f["catPort"]) \in DOMAIN Split
                    /\ Service(f["webIP"], f["customWebIP"], f["webPort"]) \in DOMAIN Split
                    /\ Service(f["proxyIP"], f["customProxyIP"], f["proxyPort"])
                          \in DOMAIN Split

RunSetup ==
    /\ phase = "shell" /\ runs < NRuns
    /\ runs' = runs + 1
    /\ phase' = "form"
    /\ settings' = Load(file)
    /\ form' = Proposed(Load(file))
    /\ why' = Blank
    /\ UNCHANGED <<file, flags, cfg, fc, proxyIP, wanted, posted, pickerVars>>

Fill(a) ==
    /\ phase = "form"
    /\ form' = Over(a, form)
    /\ settings' = Reassembled(settings, form')
    /\ phase' = "write"
    /\ UNCHANGED <<file, flags, cfg, fc, proxyIP, why, runs, wanted, posted, pickerVars>>

EndSetup(reason) ==
    /\ phase' = "shell" /\ why' = reason
    /\ form' = NoForm /\ settings' = Defaults
    /\ UNCHANGED <<flags, cfg, fc, proxyIP, runs, posted, pickerVars>>

Abort == phase = "form" /\ EndSetup("exit") /\ UNCHANGED <<file, wanted>>

(* os.WriteFile truncates before it writes. A wizard killed in between     *)
(* loses every setting, those an earlier one had written included.         *)
Lost == [k \in Keys |-> Blank]
Truncate ==
    /\ phase = "write" /\ file # Empty
    /\ file' = Empty
    /\ UNCHANGED <<phase, form, settings, flags, cfg, fc, proxyIP, why, runs, wanted,
                   posted, pickerVars>>
Killed ==
    /\ phase = "write" /\ file = Empty
    /\ EndSetup("exit")
    /\ wanted' = Lost
    /\ UNCHANGED file
Save ==
    /\ phase = "write" /\ file = Empty
    /\ file' = Saved(settings)
    /\ wanted' = settings
    /\ EndSetup("exit")

-----------------------------------------------------------------------------
(* A run of the program.                                                   *)

Levels == {"trace", "debug", "info", "warn", "error"}
Interactive(c, tty) == c["headless"] = Blank /\ c["radio"] = ":discover:" /\ tty

Ends(reason) ==
    /\ phase' = "shell" /\ why' = reason
    /\ flags' = Empty /\ cfg' = Defaults /\ fc' = "nil" /\ proxyIP' = Blank
    /\ posted' = {}
    /\ Fresh("off")
    /\ UNCHANGED <<file, form, settings, runs, wanted>>

(* main, from flag.Parse to where it shows the picker or goes on.          *)
Start(fl, tty) ==
    LET c == applyConfigFile(Load(file), fl)
    IN  /\ phase = "shell" /\ runs < NRuns
        /\ runs' = runs + 1
        /\ \/ /\ c["log_level"] \notin Levels
              /\ why' = "level"
              /\ UNCHANGED <<phase, flags, cfg, pickerVars>>
           \/ /\ c["log_level"] \in Levels /\ c["profile"] # Blank /\ c["headless"] = Blank
              /\ why' = "profile"
              /\ UNCHANGED <<phase, flags, cfg, pickerVars>>
           \/ /\ c["log_level"] \in Levels
              /\ c["profile"] = Blank \/ c["headless"] # Blank
              /\ why' = Blank
              /\ flags' = fl /\ cfg' = c
              /\ phase' = IF Interactive(c, tty) THEN "tui" ELSE "listen"
              /\ Fresh(IF Interactive(c, tty) THEN "on" ELSE "off")
        /\ UNCHANGED <<file, form, settings, fc, proxyIP, wanted, posted>>

Picking ==
    /\ phase = "tui" /\ PickerStep
    /\ UNCHANGED startupVars

Picked ==
    /\ phase = "tui" /\ tui = "done"
    /\ IF picked = Blank THEN Ends("exit")
       ELSE /\ cfg' = [cfg EXCEPT !["radio"] = picked]
            /\ phase' = "listen"
            /\ Fresh("off")
            /\ UNCHANGED <<file, form, settings, flags, fc, proxyIP, why, runs, wanted,
                           posted>>

ListenHamlib ==
    /\ phase = "listen"
    /\ \/ Ends("listen")
       \/ /\ phase' = "services"
          /\ UNCHANGED <<file, form, settings, flags, cfg, fc, proxyIP, why, runs, wanted,
                         posted, pickerVars>>

(* net.Dial of the radio's address: ":discover:" and a serial number are   *)
(* none.                                                                   *)
getLocalIP == IF cfg["radio"] \in DOMAIN Route THEN Route[cfg["radio"]] ELSE Blank
AdvertisedIP == OrElse(cfg["proxy_ip"], getLocalIP)

StartProxy ==
    /\ phase = "services"
    /\ IF cfg["proxy"] # Blank /\ AdvertisedIP = Blank THEN Ends("proxy ip")
       ELSE /\ proxyIP' = IF cfg["proxy"] = Blank THEN Blank ELSE AdvertisedIP
            /\ phase' = "run"
            /\ UNCHANGED <<file, form, settings, flags, cfg, fc, why, runs, wanted,
                           posted, pickerVars>>

(* runRadio: fc is assigned when a dial succeeds, and never taken back.    *)
Connect ==
    /\ phase = "run" /\ cfg["proxy_only"] = Blank /\ fc # "live"
    /\ fc' = "live"
    /\ UNCHANGED <<phase, file, form, settings, flags, cfg, proxyIP, why, runs, wanted, posted,
                   pickerVars>>

Disconnect ==
    /\ fc = "live" /\ fc' = "closed"
    /\ UNCHANGED <<phase, file, form, settings, flags, cfg, proxyIP, why, runs, wanted,
                   posted, pickerVars>>

(* A Hamlib command that uses fc, from when the server listens.            *)
HamlibCommand ==
    /\ phase \in {"services", "run"} /\ fc = "nil"
    /\ Ends("panic")

Post(k, v) ==
    /\ phase \in {"services", "run"} /\ cfg["web"] # Blank /\ cfg[k] # v
    /\ cfg' = [cfg EXCEPT ![k] = v]
    /\ posted' = posted \cup {k}
    /\ UNCHANGED <<phase, file, form, settings, flags, fc, proxyIP, why, runs, wanted,
                   pickerVars>>

Interrupt == phase \in {"services", "run"} /\ Ends("exit")

StartupStep ==
    \/ RunSetup \/ Abort \/ Truncate \/ Killed \/ Save
    \/ \E a \in Answers : Fill(a)
    \/ \E fl \in CommandLines : \E tty \in BOOLEAN : Start(fl, tty)
    \/ Picking \/ Picked
    \/ ListenHamlib \/ StartProxy \/ Connect \/ Disconnect \/ HamlibCommand \/ Interrupt
    \/ \E p \in Posts : Post(p[1], p[2])

-----------------------------------------------------------------------------
(* Once a wizard has written the file, later runs use what the last one    *)
(* left: setting by setting what its user asked for, unless a flag says    *)
(* otherwise, and the default where the form was left blank (config.go:3,  *)
(* "CLI flags > config file > defaults"). If the last one was killed after *)
(* os.WriteFile had truncated the file (config.go:98), what an earlier one *)
(* left is lost as well: such runs use the default in every setting no     *)
(* flag gives, and never some settings of one wizard and some of another.  *)
SetupTakesEffect ==
    [][phase = "shell" /\ phase' \in {"tui", "listen"} /\ wanted # Empty =>
          \A k \in Keys :
              cfg'[k] = IF k \in DOMAIN flags' THEN flags'[k] ELSE OrElse(wanted[k], Defaults[k])
      ]_startupVars

(* The wizard leaves every setting as it found it that its user did not    *)
(* touch in the form or that the form does not show. A service without a   *)
(* port is the exception: the form proposes one and so turns it on.        *)
FieldsOf ==
    Over([listen |-> {"catIP", "customCatIP", "catPort"},
          web |-> {"webIP", "customWebIP", "webPort"},
          proxy |-> {"proxyIP", "customProxyIP", "proxyPort"},
          proxy_ip |-> {"advIP", "customAdvIP"},
          udp_port |-> {"udpPort"}, log_level |-> {"logLevel"},
          radio |-> {"radio"}, station |-> {"station"}, slice |-> {"slice"},
          headless |-> {"headless"}],
         [k \in Keys |-> {}])
Reoffered(k) == k \in {"listen", "web", "proxy"} /\ Split[settings[k]][2] = Blank
WizardKeepsTheRest ==
    [][phase = "form" /\ phase' = "write" =>
          \A k \in Keys : (\A f \in FieldsOf[k] : form'[f] = form[f]) /\ ~Reoffered(k) =>
              settings'[k] = settings[k]]_startupVars

(* The command of README.md:15 and of flexy.service, with no config file,  *)
(* gets as far as serving: what it needs it finds out itself (README.md:35,*)
(* proxy-ip "auto").                                                       *)
DocumentedCommand ==
    [radio |-> ":discover:", headless |-> "true", web |-> ":8080", proxy |-> ":4992"]
DocumentedCommandStarts == [][flags = DocumentedCommand => why' # "proxy ip"]_startupVars
=============================================================================
