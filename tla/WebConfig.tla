------------------------------ MODULE WebConfig ------------------------------
(***************************************************************************)
(* POST /api/config (handleAPIConfig, cmd/flexy/web.go): net/http runs     *)
(* each request in a goroutine of its own, and they share the global cfg   *)
(* without a lock.  A request copies cfg, decodes its body over the copy,  *)
(* validates, writes the copy back, sets the global log level and signals  *)
(* reconnectCh, whose reader is main's connection loop (RadioLifecycle).   *)
(*                                                                         *)
(* cfg is a struct of many words: neither the copy nor the write back is   *)
(* atomic, so both go field by field, in any order, for the three fields   *)
(* that differ in how the handler treats them.                             *)
(***************************************************************************)
EXTENDS Naturals, FiniteSets

CONSTANTS
    Requests,   \* POST requests, each sent at most once
    Radios,     \* values of cfg.RadioIP
    Levels,     \* log levels zerolog.ParseLevel accepts
    BadLevel,   \* a text it does not
    Listens,    \* values of cfg.Listen
    Omitted     \* a field the body does not mention

ASSUME WebAssumption ==
    /\ Omitted \notin Radios \cup Levels \cup Listens \cup {BadLevel}
    /\ BadLevel \notin Levels

VARIABLES
    cfg,        \* the global configuration
    level,      \* zerolog's global level
    channel,    \* the token in reconnectCh, 0 or 1
    pc,         \* pc[r]: where the handler of request r is
    body,       \* body[r]: what the request asks for
    incoming,   \* incoming[r]: the handler's copy
    todo,       \* todo[r]: fields yet to be copied, or written back
    parsed,     \* parsed[r]: the level about to be set
    status,     \* status[r]: the HTTP status answered, 0 before
    dirty       \* history: cfg has changed since the loop last read it

configVars == <<cfg, level, channel, pc, body, incoming, todo, parsed, status, dirty>>

Field == {"radio", "level", "listen"}
Config == [radio : Radios, level : Levels \cup {BadLevel}, listen : Listens]
Body == [radio : Radios \cup {Omitted},
         level : Levels \cup {BadLevel, Omitted},
         listen : Listens \cup {Omitted}]

(* Whatever the flags and the config file say; an invalid level does not   *)
(* get past main (main.go:359-363).                                        *)
ConfigInit ==
    /\ cfg \in [radio : Radios, level : Levels, listen : Listens]
    /\ level = cfg.level
    /\ channel = 0
    /\ pc = [r \in Requests |-> "unsent"]
    /\ body = [r \in Requests |-> [f \in Field |-> Omitted]]
    /\ incoming = [r \in Requests |-> cfg]
    /\ todo = [r \in Requests |-> {}]
    /\ parsed = [r \in Requests |-> cfg.level]
    /\ status = [r \in Requests |-> 0]
    /\ dirty = FALSE

-----------------------------------------------------------------------------
(* The handler of request r.                                               *)

ReceivePost(r, b) ==
    /\ pc[r] = "unsent"
    /\ body' = [body EXCEPT ![r] = b]
    /\ todo' = [todo EXCEPT ![r] = Field]
    /\ pc' = [pc EXCEPT ![r] = "copy"]
    /\ UNCHANGED <<cfg, level, channel, incoming, parsed, status, dirty>>

(* incoming := cfg                                                         *)
Copy(r, f) ==
    /\ pc[r] = "copy"
    /\ f \in todo[r]
    /\ incoming' = [incoming EXCEPT ![r][f] = cfg[f]]
    /\ todo' = [todo EXCEPT ![r] = @ \ {f}]
    /\ UNCHANGED <<cfg, level, channel, pc, body, parsed, status, dirty>>

Merge(c, b) == [f \in Field |-> IF b[f] = Omitted THEN c[f] ELSE b[f]]

(* The body is decoded over the copy, or does not decode: 400.             *)
Decode(r) ==
    /\ pc[r] = "copy"
    /\ todo[r] = {}
    /\ \/ /\ incoming' = [incoming EXCEPT ![r] = Merge(@, body[r])]
          /\ pc' = [pc EXCEPT ![r] = "validate"]
          /\ UNCHANGED status
       \/ /\ pc' = [pc EXCEPT ![r] = "done"]
          /\ status' = [status EXCEPT ![r] = 400]
          /\ UNCHANGED incoming
    /\ UNCHANGED <<cfg, level, channel, body, todo, parsed, dirty>>

(* Mutant of Validate: the level is not parsed.                            *)
ValidateListenOnly(r) ==
    /\ pc[r] = "validate"
    /\ IF incoming[r].listen # cfg.listen
       THEN /\ status' = [status EXCEPT ![r] = 422]
            /\ pc' = [pc EXCEPT ![r] = "done"]
            /\ UNCHANGED todo
       ELSE /\ pc' = [pc EXCEPT ![r] = "commit"]
            /\ todo' = [todo EXCEPT ![r] = Field]
            /\ UNCHANGED status
    /\ UNCHANGED <<cfg, level, channel, body, incoming, parsed, dirty>>

(* Mutant of Validate: the listen address is not compared.                 *)
ValidateLevelOnly(r) ==
    /\ pc[r] = "validate"
    /\ IF incoming[r].level \notin Levels
       THEN /\ status' = [status EXCEPT ![r] = 400]
            /\ pc' = [pc EXCEPT ![r] = "done"]
            /\ UNCHANGED todo
       ELSE /\ pc' = [pc EXCEPT ![r] = "commit"]
            /\ todo' = [todo EXCEPT ![r] = Field]
            /\ UNCHANGED status
    /\ UNCHANGED <<cfg, level, channel, body, incoming, parsed, dirty>>

(* The log level is parsed, then the listen address compared.              *)
Validate(r) ==
    /\ pc[r] = "validate"
    /\ IF incoming[r].level \notin Levels \/ incoming[r].listen # cfg.listen
       THEN /\ status' = [status EXCEPT
                  ![r] = IF incoming[r].level \notin Levels THEN 400 ELSE 422]
            /\ pc' = [pc EXCEPT ![r] = "done"]
            /\ UNCHANGED todo
       ELSE /\ pc' = [pc EXCEPT ![r] = "commit"]
            /\ todo' = [todo EXCEPT ![r] = Field]
            /\ UNCHANGED status
    /\ UNCHANGED <<cfg, level, channel, body, incoming, parsed, dirty>>

(* cfg = incoming, without a lock. (A string, two words, goes in one step: *)
(* what another goroutine would make of half a string is left out.)        *)
Commit(r, f) ==
    /\ pc[r] = "commit"
    /\ f \in todo[r]
    /\ cfg' = [cfg EXCEPT ![f] = incoming[r][f]]
    /\ dirty' = TRUE
    /\ todo' = [todo EXCEPT ![r] = @ \ {f}]
    /\ pc' = [pc EXCEPT ![r] = IF todo[r] = {f} THEN "parse" ELSE @]
    /\ UNCHANGED <<level, channel, body, incoming, parsed, status>>

(* zerolog.ParseLevel(cfg.LogLevel): of the global, not of the copy.       *)
ParseLevel(r) ==
    /\ pc[r] = "parse"
    /\ parsed' = [parsed EXCEPT ![r] = cfg.level]
    /\ pc' = [pc EXCEPT ![r] = IF cfg.level \in Levels THEN "setLevel" ELSE "signal"]
    /\ UNCHANGED <<cfg, level, channel, body, incoming, todo, status, dirty>>

SetGlobalLevel(r) ==
    /\ pc[r] = "setLevel"
    /\ level' = parsed[r]
    /\ pc' = [pc EXCEPT ![r] = "signal"]
    /\ UNCHANGED <<cfg, channel, body, incoming, todo, parsed, status, dirty>>

(* Mutant of Signal: a pending token is taken back.                        *)
SignalToggles(r) ==
    /\ pc[r] = "signal"
    /\ channel' = 1 - channel
    /\ pc' = [pc EXCEPT ![r] = "done"]
    /\ status' = [status EXCEPT ![r] = 200]
    /\ UNCHANGED <<cfg, level, body, incoming, todo, parsed, dirty>>

(* The non-blocking send, and the answer.                                  *)
Signal(r) ==
    /\ pc[r] = "signal"
    /\ channel' = 1
    /\ pc' = [pc EXCEPT ![r] = "done"]
    /\ status' = [status EXCEPT ![r] = 200]
    /\ UNCHANGED <<cfg, level, body, incoming, todo, parsed, dirty>>

(* The connection loop takes the token and reads cfg afresh.               *)
Reconnect ==
    /\ channel = 1
    /\ channel' = 0
    /\ dirty' = FALSE
    /\ UNCHANGED <<cfg, level, pc, body, incoming, todo, parsed, status>>

-----------------------------------------------------------------------------
Handler(r) ==
    \/ \E f \in Field : Copy(r, f) \/ Commit(r, f)
    \/ Decode(r) \/ Validate(r) \/ ParseLevel(r) \/ SetGlobalLevel(r) \/ Signal(r)

ConfigNext ==
    \/ \E r \in Requests : \/ \E b \in Body : ReceivePost(r, b)
                           \/ Handler(r)
    \/ Reconnect

ConfigSpec == ConfigInit /\ [][ConfigNext]_configVars

-----------------------------------------------------------------------------
ConfigTypeOK ==
    /\ cfg \in Config
    /\ level \in Levels
    /\ channel \in {0, 1}
    /\ pc \in [Requests -> {"unsent", "copy", "validate", "commit", "parse",
                            "setLevel", "signal", "done"}]
    /\ body \in [Requests -> Body]
    /\ incoming \in [Requests -> Config]
    /\ todo \in [Requests -> SUBSET Field]
    /\ parsed \in [Requests -> Levels \cup {BadLevel}]
    /\ status \in [Requests -> {0, 200, 400, 422}]
    /\ dirty \in BOOLEAN

(* No interleaving of requests, not even one that mixes their fields,      *)
(* makes a log level nobody could parse the running configuration.         *)
LevelStaysValid == cfg.level \in Levels

(* "changing the hamlib listen address requires restarting Flexy": the     *)
(* running configuration keeps the address the Hamlib server listens on,   *)
(* although each request compares a copy with a cfg others are writing.    *)
ListenNeverChanges == [][cfg'.listen = cfg.listen]_configVars

(* No change goes unsignalled: while the connection loop has not read what *)
(* a request wrote, its token is in the channel or on its way there, also  *)
(* for requests that find the channel full.                                *)
ChangeIsSignalled ==
    dirty => \/ channel = 1
             \/ \E r \in Requests : pc[r] \in {"commit", "parse", "setLevel", "signal"}
============================================================================
