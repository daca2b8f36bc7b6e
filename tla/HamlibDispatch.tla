--------------------------- MODULE HamlibDispatch ---------------------------
(***************************************************************************)
(* How cmd/flexy/hamlib.go finds the handler of a line: the nested table   *)
(* AddHandler builds, the walk handleCmd makes down that table, and the    *)
(* shape of what it sends back.                                            *)
(*                                                                         *)
(* A line is [ext, long, words]: whether it began with one of + ; | ,      *)
(* whether its command is written \name or as one letter, and its words,   *)
(* the command first. A reply is a sequence of lines, each a value, an     *)
(* RPRT code or the header of an extended reply.                           *)
(***************************************************************************)
EXTENDS Integers, Sequences, SequencesExt

NoLimit == 99        \* more words than a line has: no limit
None == "none"       \* of a handler: no short name, no required argument

(* No handler requires more than one argument to be a certain word.        *)
H(name, short, required, least, most, allArgs) ==
    [name |-> name, short |-> short, required |-> required,
     least |-> least, most |-> most, allArgs |-> allArgs]
Plain(name, short, n) == H(name, short, None, n, n, FALSE)
Get(level) == H("get_level", "l", level, 0, 0, FALSE)
Set(level) == H("set_level", "L", level, 1, 1, FALSE)
GetAll(level) == H("get_level", "l", level, 2, 2, TRUE)
SetAll(level) == H("set_level", "L", level, 3, 3, TRUE)

Meters == {"SWR", "ALC", "STRENGTH", "RFPOWER_METER", "COMP_METER", "VD_METER",
           "RFPOWER_METER_WATTS", "TEMP_METER"}

(* The handlers each file adds in its init function.                       *)
init_audio == {Get("AF"), Set("AF")}
init_dump_state == {Plain("dump_state", None, 0)}
init_freq ==
    {Plain("get_freq", "f", 0), Plain("set_freq", "F", 1), Plain("get_rit", "j", 0),
     Plain("set_rit", "J", 1), Plain("get_xit", "z", 0), Plain("set_xit", "Z", 1)}
init_metering == {GetAll(l) : l \in Meters}
init_mode == {Plain("get_mode", "m", 0), Plain("set_mode", "M", 2)}
init_powerstat == {Plain("get_powerstat", None, 0)}
init_preamp_att == {GetAll(l) : l \in {"PREAMP", "ATT"}} \cup {SetAll(l) : l \in {"PREAMP", "ATT"}}
init_ptt == {Plain("get_ptt", "t", 0), Plain("set_ptt", "T", 1)}
init_rawcmd == {H("send_cmd", "w", None, 0, NoLimit, FALSE)}
init_rfpower == {Get("RFPOWER"), Set("RFPOWER"), Get("RF"), Set("RF")}
init_tuner ==
    {H("get_func", "u", "TUNER", 0, 0, FALSE), H("set_func", "U", "TUNER", 1, 1, FALSE)}
init_vfo ==
    {Plain("chk_vfo", None, 0), Plain("get_vfo", "v", 0), Plain("set_vfo", "V", 1),
     Plain("get_split_vfo", "s", 0), Plain("set_split_vfo", "S", 2),
     Plain("get_lock_mode", None, 0)}

(* The init functions run in the order of the files' names; the meters'    *)
(* handlers are added in the order of a map, which is any.                 *)
HandlersOf ==
    <<init_audio, init_dump_state, init_freq, init_metering, init_mode, init_powerstat,
      init_preamp_att, init_ptt, init_rawcmd, init_rfpower, init_tuner, init_vfo>>
Files == DOMAIN HandlersOf
Handlers == UNION {HandlersOf[f] : f \in Files}
Due(added) ==
    {h \in Handlers \ added :
        \A f \in Files : HandlersOf[f] \subseteq added \/ \E g \in 1..f : h \in HandlersOf[g]}

(* The names AddHandler registers: the long one, and "short:" + the letter.*)
(* (No line is taken to spell a letter as the long command short:x.)       *)
Names(h) ==
    {<<"long", h.name>>} \cup IF h.short = None THEN {} ELSE {<<"short", h.short>>}
Paths(h) == {IF h.required = None THEN <<n>> ELSE <<n, h.required>> : n \in Names(h)}

-----------------------------------------------------------------------------
(* AddHandler: an entry of a table is a handler or a table of its own. No  *)
(* handler has more than one required word, so tables are two deep.        *)

Leaf(h) == [kind |-> "handler", val |-> h]
Branch(t) == [kind |-> "table", val |-> t]
Put(table, part, entry) ==
    [p \in DOMAIN table \cup {part} |-> IF p = part THEN entry ELSE table[p]]
NoTable == [p \in {} |-> <<>>]
Below(table, part) == IF part \in DOMAIN table THEN table[part].val ELSE NoTable

(* Mutant of AddAt: a table is made anew for each handler.                 *)
AddAtFresh(table, name, h) ==
    Put(table, name, IF h.required = None THEN Leaf(h)
                     ELSE Branch(Put(NoTable, h.required, Leaf(h))))
AddAt(table, name, h) ==
    Put(table, name, IF h.required = None THEN Leaf(h)
                     ELSE Branch(Put(Below(table, name), h.required, Leaf(h))))

AddHandler(table, h) ==
    LET long == AddAt(table, <<"long", h.name>>, h)
    IN  IF h.short = None THEN long ELSE AddAt(long, <<"short", h.short>>, h)

(* handleCmd's loop. It reads parts[i] without looking how many there are. *)
Panics == [found |-> "panic"]
Nothing == [found |-> "nothing"]
Reached(entry, rest) == [found |-> "handler", h |-> entry.val, rest |-> rest]
Walk(table, parts) ==
    LET first == table[parts[1]]
    IN  IF parts[1] \notin DOMAIN table THEN Nothing
        ELSE IF first.kind = "handler" THEN Reached(first, Tail(parts))
        ELSE IF Len(parts) = 1 THEN Panics
        ELSE IF parts[2] \notin DOMAIN first.val THEN Nothing
        ELSE Reached(first.val[parts[2]], Tail(Tail(parts)))

Parts(line) ==
    <<<<IF line.long THEN "long" ELSE "short", Head(line.words)>>>> \o Tail(line.words)

(* Mutant of Dispatch: the words are not counted before the handler is     *)
(* called, which indexes its arguments.                                    *)
DispatchUncounted(table, line) ==
    IF line.words = <<>> THEN IF line.ext THEN Panics ELSE [found |-> "silent"]
    ELSE IF ~line.long /\ Head(line.words) \in {"q", "Q"} THEN [found |-> "exit"]
    ELSE LET w == Walk(table, Parts(line))
         IN  IF w.found = "nothing" THEN [found |-> "error"]
             ELSE IF w.found = "panic" THEN Panics
             ELSE LET args == IF w.h.allArgs THEN Parts(line) ELSE w.rest
                  IN  IF Len(args) < w.h.least THEN Panics
                      ELSE [found |-> "handler", h |-> w.h, args |-> args]

(* What becomes of a line: "silent", "exit", "panic", "error" for an       *)
(* unknown command or a wrong number of arguments, or the handler to call. *)
Dispatch(table, line) ==
    IF line.words = <<>> THEN IF line.ext THEN Panics ELSE [found |-> "silent"]
    ELSE IF ~line.long /\ Head(line.words) \in {"q", "Q"} THEN [found |-> "exit"]
    ELSE LET w == Walk(table, Parts(line))
         IN  IF w.found = "nothing" THEN [found |-> "error"]
             ELSE IF w.found = "panic" THEN Panics
             ELSE LET args == IF w.h.allArgs THEN Parts(line) ELSE w.rest
                  IN  IF Len(args) < w.h.least \/ Len(args) > w.h.most
                        THEN [found |-> "error"]
                        ELSE [found |-> "handler", h |-> w.h, args |-> args]

-----------------------------------------------------------------------------
(* Replies.                                                                *)

Val(v) == [value |-> v]
Word(w) == [word |-> w]
Rprt(n) == [rprt |-> n]
Echo(line) == [echo |-> line.words]
Success == <<Rprt(0)>>
Error == <<Rprt(1)>>

RprtsOf(reply) == {i \in DOMAIN reply : "rprt" \in DOMAIN reply[i]}

(* Mutant of processExtendedResponse: the code it closes with is always 0. *)
ExtendedAlwaysZero(line, reply) == <<Echo(line)>> \o reply \o Success

processExtendedResponse(line, reply) ==
    <<Echo(line)>> \o reply \o (IF RprtsOf(reply) = {} THEN Success ELSE <<>>)

-----------------------------------------------------------------------------
(* What the table promises, said without the table: the handler one of     *)
(* whose paths the line begins with, and a line that stops short of a path *)
(* is incomplete.                                                          *)

Registered(added, parts) == {h \in added : \E p \in Paths(h) : IsPrefix(p, parts)}
Incomplete(line) ==
    IF line.words = <<>> THEN line.ext
    ELSE \E h \in Handlers : \E p \in Paths(h) : IsStrictPrefix(Parts(line), p)
=============================================================================
