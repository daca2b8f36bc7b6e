--------------------------- MODULE RigControlProofs ---------------------------
(* What HamlibDispatch and RigControl promise for any clients, any lines   *)
(* they send in any order, any numbers in them, and whatever happens at    *)
(* the radio meanwhile.                                                    *)
EXTENDS RigControl, SequenceTheorems, TLAPS

-----------------------------------------------------------------------------
(* The handlers.                                                           *)

LEMMA Listed ==
    Handlers = init_audio \cup init_dump_state \cup init_freq \cup init_metering
               \cup init_mode \cup init_powerstat \cup init_preamp_att \cup init_ptt
               \cup init_rawcmd \cup init_rfpower \cup init_tuner \cup init_vfo
<1>1. DOMAIN HandlersOf = 1..12
  BY DEF HandlersOf
<1>2. 1..12 = {1, 2, 3, 4, 5, 6, 7, 8, 9, 10, 11, 12}
  OBVIOUS
<1>. QED
  BY <1>1, <1>2 DEF Handlers, Files, HandlersOf

(* How many arguments a handler of this name takes, and of which.          *)
Direct == {"AF", "RFPOWER", "RF"}
Arity(name, required) ==
    CASE name = "get_level" -> IF required \in Direct THEN 0 ELSE 2
      [] name = "set_level" -> IF required \in Direct THEN 1 ELSE 3
      [] name \in {"set_freq", "set_rit", "set_xit", "set_ptt", "set_vfo", "set_func"} -> 1
      [] name \in {"set_mode", "set_split_vfo"} -> 2
      [] OTHER -> 0
All(h) == h.name \in {"get_level", "set_level"} /\ h.required \notin Direct

LEMMA KnownArgs == \A h \in Handlers : h.allArgs = IF All(h) THEN TRUE ELSE FALSE
<1>1. \A h \in init_audio \cup init_rfpower : ~All(h) /\ h.allArgs = FALSE
  BY DEF init_audio, init_rfpower, Get, Set, H, Direct, All
<1>2. \A h \in init_metering : All(h) /\ h.allArgs = TRUE
  BY DEF init_metering, GetAll, H, Meters, Direct, All
<1>3. \A h \in init_preamp_att : All(h) /\ h.allArgs = TRUE
  BY DEF init_preamp_att, GetAll, SetAll, H, Direct, All
<1>4. \A h \in init_dump_state \cup init_freq \cup init_mode \cup init_powerstat
              \cup init_ptt \cup init_vfo : ~All(h) /\ h.allArgs = FALSE
  BY DEF init_dump_state, init_freq, init_mode, init_powerstat, init_ptt, init_vfo,
         Plain, H, All
<1>5. \A h \in init_rawcmd \cup init_tuner : ~All(h) /\ h.allArgs = FALSE
  BY DEF init_rawcmd, init_tuner, H, All
<1>. QED
  BY <1>1, <1>2, <1>3, <1>4, <1>5, Listed

LEMMA Known ==
    \A h \in Handlers :
        /\ h = H(h.name, h.short, h.required, h.least, h.most, h.allArgs)
        /\ h.least = Arity(h.name, h.required)
        /\ h.most = IF h.name = "send_cmd" THEN NoLimit ELSE h.least
<1>. USE DEF init_audio, init_dump_state, init_freq, init_metering, init_mode,
             init_powerstat, init_preamp_att, init_ptt, init_rawcmd, init_rfpower,
             init_tuner, init_vfo, Plain, Get, Set, GetAll, SetAll, H, Meters, None
<1>1. \A h \in Handlers : h = H(h.name, h.short, h.required, h.least, h.most, h.allArgs)
  BY Listed, SMTT(60)
<1>2. \A h \in Handlers : h.least = Arity(h.name, h.required)
  BY Listed, SMTT(60) DEF Arity, Direct
<1>3. \A h \in Handlers : h.most = IF h.name = "send_cmd" THEN NoLimit ELSE h.least
  BY Listed, SMTT(60)
<1>. QED
  BY <1>1, <1>2, <1>3

Wordy == {"get_level", "set_level", "get_func", "set_func"}

(* Names and letters belong together, and two handlers that share one have *)
(* different required arguments.                                           *)
LEMMA Apart ==
    /\ \A h \in Handlers : h.name \in Wordy <=> h.required # None
    /\ \A g, h \in Handlers : g.name = h.name => g.short = h.short
    /\ \A g, h \in Handlers : g.short = h.short /\ g.short # None => g.name = h.name
    /\ \A g, h \in Handlers : g.name = h.name /\ g.required = h.required => g = h
<1>1. \A h \in Handlers : h.name \in Wordy <=> h.required # None
  BY Listed, SMTT(60)
     DEF init_audio, init_dump_state, init_freq, init_metering, init_mode,
         init_powerstat, init_preamp_att, init_ptt, init_rawcmd, init_rfpower,
         init_tuner, init_vfo, Plain, Get, Set, GetAll, SetAll, H, Meters, None, Wordy
<1>2. \A g, h \in Handlers : g.name = h.name => g.short = h.short
  BY Listed, SMTT(60)
     DEF init_audio, init_dump_state, init_freq, init_metering, init_mode,
         init_powerstat, init_preamp_att, init_ptt, init_rawcmd, init_rfpower,
         init_tuner, init_vfo, Plain, Get, Set, GetAll, SetAll, H, Meters, None
<1>3. \A g, h \in Handlers : g.short = h.short /\ g.short # None => g.name = h.name
  BY Listed, SMTT(60)
     DEF init_audio, init_dump_state, init_freq, init_metering, init_mode,
         init_powerstat, init_preamp_att, init_ptt, init_rawcmd, init_rfpower,
         init_tuner, init_vfo, Plain, Get, Set, GetAll, SetAll, H, Meters, None
<1>4. \A g, h \in Handlers : g.name = h.name /\ g.required = h.required => g = h
  <2>. SUFFICES ASSUME NEW g \in Handlers, NEW h \in Handlers,
                       g.name = h.name, g.required = h.required
                PROVE  g = h
    OBVIOUS
  <2>1. g.short = h.short
    BY <1>2
  <2>2. g.least = h.least
    BY Known
  <2>3. g.most = h.most
    BY Known, <2>2
  <2>4. g.allArgs = h.allArgs
    BY KnownArgs DEF All
  <2>5. /\ g = H(g.name, g.short, g.required, g.least, g.most, g.allArgs)
        /\ h = H(h.name, h.short, h.required, h.least, h.most, h.allArgs)
    BY Known
  <2>. QED
    BY <2>1, <2>2, <2>3, <2>4, <2>5
<1>. QED
  BY <1>1, <1>2, <1>3, <1>4

(* Two handlers of one name, long or short, are told apart by a word.      *)
LEMMA NoClash ==
    ASSUME NEW g \in Handlers, NEW h \in Handlers, g # h, NEW n \in Names(g), n \in Names(h)
    PROVE  g.required # None /\ h.required # None /\ g.required # h.required
<1>1. \A x \in Names(g) : x = <<"long", g.name>> \/ (g.short # None /\ x = <<"short", g.short>>)
  BY DEF Names
<1>2. \A x \in Names(h) : x = <<"long", h.name>> \/ (h.short # None /\ x = <<"short", h.short>>)
  BY DEF Names
<1>3. g.name = h.name
  <2>1. CASE n = <<"long", g.name>>
    BY <2>1, <1>2
  <2>2. CASE g.short # None /\ n = <<"short", g.short>>
    <3>1. h.short = g.short
      BY <2>2, <1>2
    <3>. QED
      BY <3>1, <2>2, Apart
  <2>. QED
    BY <1>1, <2>1, <2>2
<1>4. g.required # h.required
  BY <1>3, Apart
<1>. QED
  BY <1>3, <1>4, Apart

-----------------------------------------------------------------------------
(* The table.                                                              *)

AllNames == UNION {Names(h) : h \in Handlers}
Under(S, n) == {h \in S : n \in Names(h)}

(* What the table has under the name n is what the handlers S are.         *)
Shows(t, n, S) ==
    /\ n \in DOMAIN t <=> S # {}
    /\ \A h \in S : h.required = None => t[n] = Leaf(h)
    /\ \A h \in S : h.required # None => /\ t[n].kind = "table"
                                        /\ h.required \in DOMAIN t[n].val
                                        /\ t[n].val[h.required] = Leaf(h)
    /\ n \in DOMAIN t /\ t[n].kind = "table" =>
          \A w \in DOMAIN t[n].val : \E h \in S : h.required = w /\ w # None

Represents(t, S) ==
    /\ DOMAIN t \subseteq AllNames
    /\ \A n \in AllNames : Shows(t, n, Under(S, n))

LEMMA AddAtShows ==
    ASSUME NEW t, NEW n, NEW S, NEW h, Shows(t, n, S),
           \A g \in S : g.required # None /\ h.required # None /\ g.required # h.required
    PROVE  Shows(AddAt(t, n, h), n, S \cup {h})
<1>1. CASE h.required = None
  <2>1. S = {}
    BY <1>1
  <2>2. AddAt(t, n, h) = Put(t, n, Leaf(h))
    BY <1>1 DEF AddAt
  <2>3. n \in DOMAIN AddAt(t, n, h) /\ AddAt(t, n, h)[n] = Leaf(h)
    BY <2>2 DEF Put
  <2>. QED
    BY <1>1, <2>1, <2>3 DEF Shows, Leaf
<1>2. CASE h.required # None
  <2>. DEFINE old == Below(t, n)
              new == Put(old, h.required, Leaf(h))
  <2>1. AddAt(t, n, h) = Put(t, n, Branch(new))
    BY <1>2 DEF AddAt
  <2>2. n \in DOMAIN AddAt(t, n, h) /\ AddAt(t, n, h)[n] = Branch(new)
    BY <2>1 DEF Put
  <2>3. Branch(new).kind = "table" /\ Branch(new).val = new
    BY DEF Branch
  <2>4. /\ DOMAIN new = DOMAIN old \cup {h.required}
        /\ new[h.required] = Leaf(h)
        /\ \A q \in DOMAIN old : q # h.required => new[q] = old[q]
    BY DEF Put
  <2>5. \A g \in S : g.required \in DOMAIN old /\ old[g.required] = Leaf(g)
    <3>1. n \in DOMAIN t => old = t[n].val
      BY DEF Below
    <3>. QED
      BY <3>1 DEF Shows
  <2>6. \A w \in DOMAIN old : \E g \in S : g.required = w /\ w # None
    <3>1. CASE S = {}
      <4>1. n \notin DOMAIN t
        BY <3>1 DEF Shows
      <4>2. DOMAIN old = {}
        BY <4>1 DEF Below, NoTable
      <4>. QED
        BY <4>2
    <3>2. CASE S # {}
      <4>1. n \in DOMAIN t /\ t[n].kind = "table"
        BY <3>2 DEF Shows
      <4>2. old = t[n].val
        BY <4>1 DEF Below
      <4>. QED
        BY <4>1, <4>2 DEF Shows
    <3>. QED
      BY <3>1, <3>2
  <2>. HIDE DEF old, new
  <2>7. \A g \in S \cup {h} : g.required # None /\ g.required \in DOMAIN new
                              /\ new[g.required] = Leaf(g)
    BY <1>2, <2>4, <2>5
  <2>8. \A w \in DOMAIN new : \E g \in S \cup {h} : g.required = w /\ w # None
    BY <1>2, <2>4, <2>6
  <2>. QED
    BY <2>2, <2>3, <2>7, <2>8 DEF Shows
<1>. QED
  BY <1>1, <1>2

LEMMA AddAtOther ==
    ASSUME NEW t, NEW n, NEW h, NEW m, m # n, NEW S, Shows(t, m, S)
    PROVE  Shows(AddAt(t, n, h), m, S)
<1>. DEFINE e == IF h.required = None THEN Leaf(h)
                 ELSE Branch(Put(Below(t, n), h.required, Leaf(h)))
<1>1. AddAt(t, n, h) = Put(t, n, e)
  BY DEF AddAt
<1>. HIDE DEF e
<1>2. /\ m \in DOMAIN AddAt(t, n, h) <=> m \in DOMAIN t
      /\ m \in DOMAIN t => AddAt(t, n, h)[m] = t[m]
  BY <1>1 DEF Put
<1>3. S # {} => m \in DOMAIN t
  BY DEF Shows
<1>. QED
  BY <1>2, <1>3 DEF Shows

(* AddHandler adds its handler and leaves the others where they are.       *)
LEMMA AddHandlerRepresents ==
    ASSUME NEW t, NEW S \in SUBSET Handlers, NEW h \in Handlers \ S, Represents(t, S)
    PROVE  Represents(AddHandler(t, h), S \cup {h})
<1>. DEFINE long == <<"long", h.name>>
            short == <<"short", h.short>>
            t1 == AddAt(t, long, h)
<1>1. long # short
  OBVIOUS
<1>2. Names(h) = IF h.short = None THEN {long} ELSE {long, short}
  BY DEF Names
<1>3. AddHandler(t, h) = IF h.short = None THEN t1 ELSE AddAt(t1, short, h)
  BY DEF AddHandler
<1>4. \A n \in Names(h) : n \in AllNames
  BY DEF AllNames
<1>5. \A n \in Names(h) : \A g \in Under(S, n) :
          g.required # None /\ h.required # None /\ g.required # h.required
  <2>. SUFFICES ASSUME NEW n \in Names(h), NEW g \in Under(S, n)
                PROVE  g.required # None /\ h.required # None /\ g.required # h.required
    OBVIOUS
  <2>1. g \in Handlers /\ g # h /\ n \in Names(g)
    BY DEF Under
  <2>. QED
    BY <2>1, NoClash
<1>6. \A n \in AllNames : Under(S \cup {h}, n) = IF n \in Names(h) THEN Under(S, n) \cup {h}
                                                 ELSE Under(S, n)
  BY DEF Under
<1>. HIDE DEF long, short
<1>7. \A n \in AllNames : Shows(t1, n, IF n = long THEN Under(S, n) \cup {h} ELSE Under(S, n))
  <2>. SUFFICES ASSUME NEW n \in AllNames
                PROVE  Shows(t1, n, IF n = long THEN Under(S, n) \cup {h} ELSE Under(S, n))
    OBVIOUS
  <2>1. Shows(t, n, Under(S, n))
    BY DEF Represents
  <2>2. CASE n = long
    <3>1. n \in Names(h)
      BY <1>2, <2>2
    <3>. QED
      BY <2>1, <2>2, <3>1, <1>5, AddAtShows
  <2>3. CASE n # long
    BY <2>1, <2>3, AddAtOther
  <2>. QED
    BY <2>2, <2>3
<1>8. DOMAIN t1 \subseteq AllNames
  <2>1. DOMAIN t1 = DOMAIN t \cup {long}
    BY DEF t1, AddAt, Put
  <2>2. long \in AllNames
    BY <1>2, <1>4
  <2>. QED
    BY <2>1, <2>2 DEF Represents
<1>. HIDE DEF t1
<1>9. CASE h.short = None
  <2>1. \A n \in AllNames : Under(S \cup {h}, n)
                               = IF n = long THEN Under(S, n) \cup {h} ELSE Under(S, n)
    BY <1>2, <1>6, <1>9
  <2>. QED
    BY <1>3, <1>7, <1>8, <1>9, <2>1 DEF Represents
<1>10. CASE h.short # None
  <2>1. \A n \in AllNames : Shows(AddAt(t1, short, h), n, Under(S \cup {h}, n))
    <3>. SUFFICES ASSUME NEW n \in AllNames
                  PROVE  Shows(AddAt(t1, short, h), n, Under(S \cup {h}, n))
      OBVIOUS
    <3>1. CASE n = short
      <4>1. Shows(t1, n, Under(S, n)) /\ n \in Names(h)
        BY <1>1, <1>2, <1>7, <1>10, <3>1
      <4>2. Shows(AddAt(t1, n, h), n, Under(S, n) \cup {h})
        BY <4>1, <1>5, AddAtShows
      <4>. QED
        BY <4>1, <4>2, <1>6, <3>1
    <3>2. CASE n # short
      <4>1. Under(S \cup {h}, n) = IF n = long THEN Under(S, n) \cup {h} ELSE Under(S, n)
        BY <1>2, <1>6, <1>10, <3>2
      <4>2. Shows(t1, n, Under(S \cup {h}, n))
        BY <4>1, <1>7
      <4>. QED
        BY <4>2, <3>2, AddAtOther
    <3>. QED
      BY <3>1, <3>2
  <2>2. DOMAIN AddAt(t1, short, h) \subseteq AllNames
    <3>1. DOMAIN AddAt(t1, short, h) = DOMAIN t1 \cup {short}
      BY DEF AddAt, Put
    <3>2. short \in AllNames
      BY <1>2, <1>4, <1>10
    <3>. QED
      BY <3>1, <3>2, <1>8
  <2>. QED
    BY <1>3, <1>10, <2>1, <2>2 DEF Represents
<1>. QED
  BY <1>9, <1>10

-----------------------------------------------------------------------------
(* The walk.                                                               *)

LEMMA PrefixOne ==
    ASSUME NEW X, NEW q \in Seq(X), q # <<>>, NEW n
    PROVE  IsPrefix(<<n>>, q) <=> q[1] = n
<1>1. Len(q) \in Nat /\ Len(q) >= 1
  BY EmptySeq
<1>2. <<n>> \in Seq({n}) /\ Len(<<n>>) = 1 /\ <<n>>[1] = n
  OBVIOUS
<1>3. SubSeq(<<n>>, 1, 1) \in Seq({n}) /\ Len(SubSeq(<<n>>, 1, 1)) = 1
      /\ SubSeq(<<n>>, 1, 1)[1] = n
  BY <1>2, SubSeqProperties
<1>4. SubSeq(q, 1, 1) \in Seq(X) /\ Len(SubSeq(q, 1, 1)) = 1 /\ SubSeq(q, 1, 1)[1] = q[1]
  BY <1>1, SubSeqProperties
<1>5. q[1] = n => SubSeq(<<n>>, 1, 1) = SubSeq(q, 1, 1)
  <2>. SUFFICES ASSUME q[1] = n PROVE SubSeq(<<n>>, 1, 1) = SubSeq(q, 1, 1)
    OBVIOUS
  <2>1. SubSeq(<<n>>, 1, 1) \in Seq({n} \cup X) /\ SubSeq(q, 1, 1) \in Seq({n} \cup X)
    BY <1>3, <1>4
  <2>2. \A i \in 1..1 : SubSeq(<<n>>, 1, 1)[i] = SubSeq(q, 1, 1)[i]
    BY <1>3, <1>4
  <2>. QED
    BY <2>1, <2>2, <1>3, <1>4, SeqEqual
<1>. QED
  BY <1>1, <1>2, <1>3, <1>4, <1>5 DEF IsPrefix

LEMMA PrefixTwo ==
    ASSUME NEW X, NEW q \in Seq(X), q # <<>>, NEW n, NEW w
    PROVE  IsPrefix(<<n, w>>, q) <=> q[1] = n /\ Len(q) >= 2 /\ q[2] = w
<1>1. Len(q) \in Nat /\ Len(q) >= 1
  BY EmptySeq
<1>2. <<n, w>> \in Seq({n, w}) /\ Len(<<n, w>>) = 2 /\ <<n, w>>[1] = n /\ <<n, w>>[2] = w
  OBVIOUS
<1>3. SubSeq(<<n, w>>, 1, 2) \in Seq({n, w}) /\ Len(SubSeq(<<n, w>>, 1, 2)) = 2
      /\ SubSeq(<<n, w>>, 1, 2)[1] = n /\ SubSeq(<<n, w>>, 1, 2)[2] = w
  BY <1>2, SubSeqProperties
<1>4. CASE Len(q) >= 2
  <2>1. SubSeq(q, 1, 2) \in Seq(X) /\ Len(SubSeq(q, 1, 2)) = 2
        /\ SubSeq(q, 1, 2)[1] = q[1] /\ SubSeq(q, 1, 2)[2] = q[2]
    BY <1>1, <1>4, SubSeqProperties
  <2>2. ASSUME q[1] = n, q[2] = w PROVE SubSeq(<<n, w>>, 1, 2) = SubSeq(q, 1, 2)
    <3>1. SubSeq(<<n, w>>, 1, 2) \in Seq({n, w} \cup X) /\ SubSeq(q, 1, 2) \in Seq({n, w} \cup X)
      BY <1>3, <2>1
    <3>2. \A i \in 1..2 : SubSeq(<<n, w>>, 1, 2)[i] = SubSeq(q, 1, 2)[i]
      <4>1. 1..2 = {1, 2}
        OBVIOUS
      <4>. QED
        BY <4>1, <1>3, <2>1, <2>2
    <3>. QED
      BY <3>1, <3>2, <1>3, <2>1, SeqEqual
  <2>. QED
    BY <1>1, <1>2, <1>3, <1>4, <2>1, <2>2 DEF IsPrefix
<1>5. CASE ~(Len(q) >= 2)
  BY <1>1, <1>2, <1>5 DEF IsPrefix
<1>. QED
  BY <1>4, <1>5

(* Where the words of a line take a handler's path.                        *)
Reaches(h, q) ==
    /\ q[1] \in Names(h)
    /\ h.required = None \/ (Len(q) >= 2 /\ q[2] = h.required)

LEMMA PathBegins ==
    ASSUME NEW X, NEW q \in Seq(X), q # <<>>, NEW h
    PROVE  (\E p \in Paths(h) : IsPrefix(p, q)) <=> Reaches(h, q)
<1>1. CASE h.required = None
  <2>1. Paths(h) = {<<n>> : n \in Names(h)}
    BY <1>1 DEF Paths
  <2>2. (\E p \in Paths(h) : IsPrefix(p, q)) <=> \E n \in Names(h) : IsPrefix(<<n>>, q)
    BY <2>1
  <2>3. \A n : IsPrefix(<<n>>, q) <=> q[1] = n
    BY PrefixOne
  <2>. QED
    BY <1>1, <2>2, <2>3 DEF Reaches
<1>2. CASE h.required # None
  <2>1. Paths(h) = {<<n, h.required>> : n \in Names(h)}
    BY <1>2 DEF Paths
  <2>2. (\E p \in Paths(h) : IsPrefix(p, q)) <=> \E n \in Names(h) : IsPrefix(<<n, h.required>>, q)
    BY <2>1
  <2>3. \A n : IsPrefix(<<n, h.required>>, q) <=> q[1] = n /\ Len(q) >= 2 /\ q[2] = h.required
    BY PrefixTwo
  <2>. QED
    BY <1>2, <2>2, <2>3 DEF Reaches
<1>. QED
  BY <1>1, <1>2

(* The walk over a table finds the one handler whose path it takes, or the *)
(* words end where there is more than one way on.                          *)
LEMMA WalkFinds ==
    ASSUME NEW t, NEW S \in SUBSET Handlers, Represents(t, S),
           NEW X, NEW q \in Seq(X), q # <<>>
    PROVE  \/ /\ Walk(t, q).found = "handler"
              /\ Walk(t, q).h \in S
              /\ Reaches(Walk(t, q).h, q)
              /\ \A h \in S : Reaches(h, q) => h = Walk(t, q).h
           \/ /\ Walk(t, q) = Nothing
              /\ \A h \in S : ~Reaches(h, q)
           \/ /\ Walk(t, q) = Panics
              /\ Len(q) = 1
              /\ \E h \in S : q[1] \in Names(h) /\ h.required # None
              /\ \A h \in S : ~Reaches(h, q)
<1>. DEFINE n == q[1]
            w == Walk(t, q)
<1>0. Len(q) \in Nat /\ Len(q) >= 1
  BY EmptySeq
<1>1. CASE n \notin DOMAIN t
  <2>1. w = Nothing
    BY <1>1 DEF Walk
  <2>2. ASSUME NEW h \in S, n \in Names(h) PROVE FALSE
    <3>1. n \in AllNames
      BY <2>2 DEF AllNames
    <3>2. Shows(t, n, Under(S, n)) /\ h \in Under(S, n)
      BY <2>2, <3>1 DEF Represents, Under
    <3>. QED
      BY <1>1, <3>2 DEF Shows
  <2>. QED
    BY <2>1, <2>2 DEF Reaches
<1>2. CASE n \in DOMAIN t
  <2>1. Shows(t, n, Under(S, n))
    BY <1>2 DEF Represents
  <2>2. PICK f \in Under(S, n) : TRUE
    BY <1>2, <2>1 DEF Shows
  <2>3. \A h \in S : n \in Names(h) <=> h \in Under(S, n)
    BY DEF Under
  <2>4. \A h \in Under(S, n) : h \in S /\ h \in Handlers
    BY DEF Under
  <2>5. CASE f.required = None
    <3>1. t[n] = Leaf(f)
      BY <2>1, <2>5 DEF Shows
    <3>2. t[n].kind = "handler" /\ t[n].val = f
      BY <3>1 DEF Leaf
    <3>3. w = Reached(t[n], Tail(q))
      BY <1>2, <3>2 DEF Walk
    <3>4. w.found = "handler" /\ w.h = f
      BY <3>2, <3>3 DEF Reached
    <3>5. ASSUME NEW h \in S, n \in Names(h), h # f PROVE FALSE
      <4>1. n \in Names(f) /\ f \in Handlers
        BY <2>3, <2>4
      <4>. QED
        BY <2>5, <3>5, <4>1, NoClash
    <3>6. f \in S /\ Reaches(f, q)
      BY <2>3, <2>4, <2>5 DEF Reaches
    <3>7. \A h \in S : Reaches(h, q) => h = f
      BY <3>5 DEF Reaches
    <3>. QED
      BY <3>4, <3>6, <3>7
  <2>6. CASE f.required # None
    <3>1. t[n].kind = "table"
      BY <2>1, <2>6 DEF Shows
    <3>2. \A h \in Under(S, n) : /\ h.required # None
                                /\ h.required \in DOMAIN t[n].val
                                /\ t[n].val[h.required] = Leaf(h)
      <4>1. ASSUME NEW h \in Under(S, n), h.required = None PROVE FALSE
        <5>1. t[n] = Leaf(h)
          BY <2>1, <4>1 DEF Shows
        <5>. QED
          BY <3>1, <5>1 DEF Leaf
      <4>. QED
        BY <4>1, <2>1 DEF Shows
    <3>3. t[n].kind # "handler"
      BY <3>1
    <3>4. CASE Len(q) = 1
      <4>1. w = Panics
        BY <1>2, <3>3, <3>4 DEF Walk
      <4>2. \A h \in S : ~Reaches(h, q)
        BY <1>0, <2>3, <3>2, <3>4 DEF Reaches
      <4>3. f \in S /\ n \in Names(f)
        BY <2>3, <2>4
      <4>. QED
        BY <2>6, <3>4, <4>1, <4>2, <4>3
    <3>5. CASE Len(q) # 1 /\ q[2] \notin DOMAIN t[n].val
      <4>1. w = Nothing
        BY <1>2, <3>3, <3>5 DEF Walk
      <4>2. \A h \in S : ~Reaches(h, q)
        BY <2>3, <3>2, <3>5 DEF Reaches
      <4>. QED
        BY <4>1, <4>2
    <3>6. CASE Len(q) # 1 /\ q[2] \in DOMAIN t[n].val
      <4>1. w = Reached(t[n].val[q[2]], Tail(Tail(q)))
        BY <1>2, <3>3, <3>6 DEF Walk
      <4>2. PICK g \in Under(S, n) : g.required = q[2]
        BY <1>2, <2>1, <3>1, <3>6 DEF Shows
      <4>3. t[n].val[q[2]] = Leaf(g)
        BY <3>2, <4>2
      <4>4. w.found = "handler" /\ w.h = g
        BY <4>1, <4>3 DEF Reached, Leaf
      <4>5. Len(q) >= 2
        <5>1. \A k \in Nat : k >= 1 /\ k # 1 => k >= 2
          OBVIOUS
        <5>. QED
          BY <1>0, <3>6, <5>1, Zenon
      <4>6. g \in S /\ n \in Names(g) /\ g \in Handlers
        BY <2>3, <2>4
      <4>7. Reaches(g, q)
        BY <4>2, <4>5, <4>6 DEF Reaches
      <4>8. ASSUME NEW h \in S, Reaches(h, q), h # g PROVE FALSE
        <5>1. n \in Names(h) /\ h \in Handlers
          BY <4>8 DEF Reaches
        <5>2. h.required # None /\ h.required # g.required
          BY <4>6, <4>8, <5>1, NoClash
        <5>. QED
          BY <4>2, <4>8, <5>2 DEF Reaches
      <4>. QED
        BY <4>4, <4>6, <4>7, <4>8
    <3>. QED
      BY <3>4, <3>5, <3>6
  <2>. QED
    BY <2>5, <2>6
<1>. QED
  BY <1>1, <1>2

-----------------------------------------------------------------------------
(* A line and the table.                                                   *)

Parted == ({"long", "short"} \X STRING) \cup STRING

LEMMA PartsOf ==
    ASSUME NEW l \in Lines, l.words # <<>>
    PROVE  /\ Parts(l) \in Seq(Parted) /\ Parts(l) # <<>>
           /\ Parts(l)[1] = <<IF l.long THEN "long" ELSE "short", Head(l.words)>>
<1>. DEFINE first == <<IF l.long THEN "long" ELSE "short", Head(l.words)>>
<1>1. l.words \in Seq(STRING)
  BY DEF Lines
<1>2. Head(l.words) \in STRING /\ Tail(l.words) \in Seq(STRING)
  BY <1>1, HeadTailProperties
<1>3. first \in Parted /\ Tail(l.words) \in Seq(Parted)
  <2>1. (IF l.long THEN "long" ELSE "short") \in {"long", "short"}
    OBVIOUS
  <2>2. first \in {"long", "short"} \X STRING
    BY <1>2, <2>1
  <2>3. STRING \subseteq Parted /\ {"long", "short"} \X STRING \subseteq Parted
    BY DEF Parted
  <2>4. \A s \in Seq(STRING) : s \in Seq(Parted)
    BY <2>3, SeqMonotonic
  <2>. QED
    BY <1>2, <2>2, <2>3, <2>4
<1>. HIDE DEF first
<1>4. Parts(l) = <<first>> \o Tail(l.words)
  BY DEF Parts, first
<1>5. /\ <<first>> \in Seq(Parted) /\ Len(<<first>>) = 1 /\ <<first>>[1] = first
  BY <1>3
<1>6. /\ Parts(l) \in Seq(Parted)
      /\ Len(Parts(l)) = Len(<<first>>) + Len(Tail(l.words))
      /\ Parts(l)[1] = first
  BY <1>3, <1>4, <1>5, ConcatProperties
<1>7. Len(Tail(l.words)) \in Nat
  BY <1>2, LenProperties
<1>8. Len(Parts(l)) # 0
  BY <1>5, <1>6, <1>7
<1>. QED
  BY <1>6, <1>8 DEF first

(* The program panics only for an incomplete line.                         *)
LEMMA PanicIncomplete ==
    ASSUME NEW t, NEW S \in SUBSET Handlers, Represents(t, S),
           NEW l \in Lines, Dispatch(t, l).found = "panic"
    PROVE  Incomplete(l)
<1>1. CASE l.words = <<>>
  <2>1. CASE l.ext
    BY <1>1, <2>1 DEF Incomplete
  <2>2. CASE ~l.ext
    BY <1>1, <2>2 DEF Dispatch
  <2>. QED
    BY <2>1, <2>2
<1>2. CASE l.words # <<>>
  <2>. DEFINE q == Parts(l)
  <2>1. q \in Seq(Parted) /\ q # <<>>
    BY <1>2, PartsOf
  <2>2. Walk(t, q).found = "panic"
    BY <1>2 DEF Dispatch
  <2>. HIDE DEF q
  <2>3. Len(q) = 1 /\ \E h \in S : q[1] \in Names(h) /\ h.required # None
    BY <2>1, <2>2, WalkFinds DEF Nothing
  <2>4. PICK h \in Handlers : q[1] \in Names(h) /\ h.required # None
    BY <2>3
  <2>. DEFINE p == <<q[1], h.required>>
  <2>5. p \in Paths(h)
    BY <2>4 DEF Paths
  <2>6. IsStrictPrefix(q, p)
    <3>. DEFINE X == Parted \cup {q[1], h.required}
    <3>1. q \in Seq(X) /\ p \in Seq(X) /\ Len(p) = 2 /\ p[1] = q[1]
      BY <2>1
    <3>. HIDE DEF p, X
    <3>2. SubSeq(p, 1, 1) \in Seq(X) /\ Len(SubSeq(p, 1, 1)) = 1 /\ SubSeq(p, 1, 1)[1] = q[1]
      BY <3>1, SubSeqProperties
    <3>3. SubSeq(q, 1, 1) \in Seq(X) /\ Len(SubSeq(q, 1, 1)) = 1 /\ SubSeq(q, 1, 1)[1] = q[1]
      BY <3>1, <2>3, SubSeqProperties
    <3>4. \A i \in 1..1 : SubSeq(q, 1, 1)[i] = SubSeq(p, 1, 1)[i]
      BY <3>2, <3>3
    <3>5. SubSeq(q, 1, 1) = SubSeq(p, 1, 1)
      BY <3>2, <3>3, <3>4, SeqEqual
    <3>6. q # p
      <4>1. ASSUME q = p PROVE Len(q) = 2
        BY <3>1, <4>1
      <4>. QED
        BY <2>3, <4>1
    <3>. QED
      BY <2>3, <3>1, <3>5, <3>6 DEF IsStrictPrefix, IsPrefix
  <2>. QED
    BY <1>2, <2>5, <2>6 DEF Incomplete, q
<1>. QED
  BY <1>1, <1>2

(* T is set_ptt's letter and nobody's name.                                *)
LEMMA TheT ==
    ASSUME NEW t, NEW S \in SUBSET Handlers, Represents(t, S),
           NEW l \in Lines, Dispatch(t, l).found = "handler", Head(l.words) = "T"
    PROVE  Dispatch(t, l).h.name = "set_ptt"
<1>. DEFINE q == Parts(l)
<1>1. l.words # <<>>
  <2>. SUFFICES ASSUME l.words = <<>> PROVE FALSE
    OBVIOUS
  <2>1. Dispatch(t, l).found \in {"panic", "silent"}
    BY DEF Dispatch, Panics
  <2>. QED
    BY <2>1
<1>2. q \in Seq(Parted) /\ q # <<>> /\ q[1] \in {<<"long", "T">>, <<"short", "T">>}
  BY <1>1, PartsOf
<1>. HIDE DEF q
<1>3. Walk(t, q).found = "handler" /\ Dispatch(t, l).h = Walk(t, q).h
  <2>1. Walk(t, q).found \in {"handler", "panic", "nothing"}
    BY <1>2, WalkFinds DEF Nothing, Panics
  <2>. QED
    BY <1>1, <2>1 DEF Dispatch, Panics, q
<1>. DEFINE h == Walk(t, q).h
<1>4. h \in Handlers /\ q[1] \in Names(h)
  BY <1>2, <1>3, WalkFinds DEF Nothing, Panics, Reaches
<1>. HIDE DEF h
<1>5. h.name = "T" \/ h.short = "T"
  BY <1>2, <1>4 DEF Names
<1>6. h.name = "set_ptt"
  BY <1>4, <1>5, Listed, SMTT(60)
     DEF init_audio, init_dump_state, init_freq, init_metering, init_mode,
         init_powerstat, init_preamp_att, init_ptt, init_rawcmd, init_rfpower,
         init_tuner, init_vfo, Plain, Get, Set, GetAll, SetAll, H, Meters, None
<1>. QED
  BY <1>3, <1>6 DEF h

-----------------------------------------------------------------------------
(* What a handler says and sets.                                           *)

Codeless(x) == "rprt" \notin DOMAIN x /\ "echo" \notin DOMAIN x
Said(lines) ==
    \/ \E x : lines = <<x>> /\ Codeless(x)
    \/ \E x, y : lines = <<x, y>> /\ Codeless(x) /\ Codeless(y)
    \/ \E n : lines = <<Rprt(n)>>

(* An outcome is a reply of that form, or what it sets at the radio never  *)
(* takes the TX flag away.                                                 *)
Fair(r) ==
    \/ r.then = "reply" /\ Said(r.say)
    \/ r.then # "reply" /\ ("tx" \in DOMAIN r.do => r.do["tx"] = 1)

LEMMA SayFair == \A lines : Said(lines) => Fair(Say(lines)) /\ Fair(FailsWith(lines))
BY DEF Fair, Say, FailsWith

LEMMA Codeless_ ==
    /\ \A v : Codeless(Val(v)) /\ Codeless(Word(v))
    /\ Codeless([err |-> "ERR"])
BY DEF Codeless, Val, Word

LEMMA Fair_ ==
    /\ \A v : Fair(Value(v))
    /\ Fair(Fails) /\ Fair(Say(Success)) /\ Fair(Say(Error))
    /\ \A w : Fair(Say(<<Word(w)>>))
    /\ \A x, y : Codeless(x) /\ Codeless(y) => Fair(Say(<<x, y>>))
    /\ Fair(FailsWith(<<[err |-> "ERR"]>>))
<1>1. \A x : Codeless(x) => Said(<<x>>)
  BY DEF Said
<1>2. \A x, y : Codeless(x) /\ Codeless(y) => Said(<<x, y>>)
  BY DEF Said
<1>3. Said(Success) /\ Said(Error)
  BY DEF Said, Success, Error
<1>. QED
  BY <1>1, <1>2, <1>3, Codeless_, SayFair DEF Value, Fails

LEMMA DoFair ==
    ASSUME NEW sets, NEW then, then # "reply", "tx" \in DOMAIN sets => sets["tx"] = 1
    PROVE  Fair(Do(sets, then))
BY DEF Fair, Do

LEMMA SetsOneFair == \A key, val : key # "tx" => Fair(SetsOne(key, val))
<1>. SUFFICES ASSUME NEW key, NEW val, key # "tx" PROVE Fair(SetsOne(key, val))
  OBVIOUS
<1>1. "tx" \notin DOMAIN [k \in {key} |-> val]
  OBVIOUS
<1>. QED
  BY <1>1, DoFair DEF SetsOne

LEMMA FromSliceFair == \A r : Fair(r) => Fair(FromSlice(r))
BY Fair_ DEF FromSlice

LEMMA GetFair == \A c, h, a : Fair(Get_(c, h, a))
<1>. SUFFICES ASSUME NEW c, NEW h, NEW a PROVE Fair(Get_(c, h, a))
  OBVIOUS
<1>1. Fair(get_freq)
  BY Fair_ DEF get_freq
<1>2. \A on, freq : Fair(get_ritxit(on, freq))
  BY Fair_, FromSliceFair DEF get_ritxit
<1>3. Fair(get_mode)
  BY Fair_, Codeless_, FromSliceFair DEF get_mode
<1>4. Fair(get_ptt)
  BY Fair_ DEF get_ptt
<1>5. \A key : Fair(get_percent(key)) /\ Fair(FromSlice(get_percent(key)))
  BY Fair_, FromSliceFair DEF get_percent
<1>6. Fair(get_level_rf)
  BY <1>5 DEF get_level_rf
<1>7. Fair(get_level_preamp_att(a))
  BY Fair_, FromSliceFair DEF get_level_preamp_att
<1>8. Fair(get_func_tuner)
  BY Fair_ DEF get_func_tuner
<1>9. Fair(dump_state(c))
  BY Fair_, Codeless_ DEF dump_state
<1>10. Fair(Say(<<Word("0"), Word("VFOA")>>))
  BY Fair_, Codeless_
<1>. QED
  BY <1>1, <1>2, <1>3, <1>4, <1>5, <1>6, <1>7, <1>8, <1>9, <1>10, Fair_ DEF Get_

LEMMA SetFair == \A h, a, here : Fair(Set_(h, a, here))
<1>. SUFFICES ASSUME NEW h, NEW a, NEW here PROVE Fair(Set_(h, a, here))
  OBVIOUS
<1>1. Fair(set_freq(a))
  BY Fair_, SetsOneFair DEF set_freq
<1>2. Fair(set_ritxit("rit_on", "rit_freq", a)) /\ Fair(set_ritxit("xit_on", "xit_freq", a))
  <2>1. \A f : DOMAIN f \in {{"rit_on", "rit_freq"}, {"xit_on", "xit_freq"}} => Fair(Do(f, "success"))
    BY DoFair
  <2>. QED
    BY <2>1, Fair_ DEF set_ritxit
<1>3. Fair(set_mode(a, here))
  <2>1. \A m : Fair(Do([mode |-> m], "filter"))
    BY DoFair
  <2>. QED
    BY <2>1, Fair_, SetsOneFair DEF set_mode
<1>4. Fair(set_ptt(a, here))
  <2>1. Fair(Do([tx |-> 1], "xmit"))
    BY DoFair
  <2>. QED
    BY <2>1, FromSliceFair, SetsOneFair DEF set_ptt
<1>5. \A key : key # "tx" => Fair(set_percent(key, a)) /\ Fair(FromSlice(set_percent(key, a)))
  BY Fair_, FromSliceFair, SetsOneFair DEF set_percent
<1>6. Fair(set_level_rf(a))
  BY <1>5 DEF set_level_rf, AgcKey
<1>7. Fair(set_level_preamp_att(a))
  <2>1. \A l, g : Fair(SetsGain(l, g))
    BY Fair_, SetsOneFair DEF SetsGain
  <2>. QED
    BY <2>1, Fair_, FromSliceFair DEF set_level_preamp_att
<1>8. Fair(set_func_tuner(a, here))
  <2>1. Fair(Do([tune |-> 0], "bypass")) /\ Fair(Do([atu |-> "BYPASS"], "tune"))
    BY DoFair
  <2>. QED
    BY <2>1, Fair_, SetsOneFair DEF set_func_tuner
<1>9. Fair(set_vfo(a))
  BY Fair_ DEF set_vfo
<1>10. Fair(set_split_vfo(a))
  BY Fair_ DEF set_split_vfo
<1>. QED
  BY <1>1, <1>2, <1>3, <1>4, <1>5, <1>6, <1>7, <1>8, <1>9, <1>10 DEF Set_

LEMMA HandleFair == \A c, h, a, here : Fair(Handle(c, h, a, here))
<1>. SUFFICES ASSUME NEW c, NEW h, NEW a, NEW here PROVE Fair(Handle(c, h, a, here))
  OBVIOUS
<1>1. Fair(send_cmd(a, here))
  <2>1. Fair(Do(RawSets(a), "answered"))
    <3>1. "tx" \notin DOMAIN RawSets(a)
      BY DEF RawSets, SetsNothing
    <3>. QED
      BY <3>1, DoFair
  <2>. QED
    BY <2>1, Fair_ DEF send_cmd
<1>. QED
  BY <1>1, GetFair, SetFair, Fair_ DEF Handle

-----------------------------------------------------------------------------
(* What is sent back.                                                      *)

Formed(r) ==
    IF "echo" \in DOMAIN r[1] THEN RprtsOf(r) = {Len(r)}
    ELSE RprtsOf(r) \in {{}, {1}} /\ (RprtsOf(r) = {1} => Len(r) = 1)

LEMMA SaidFormed == \A lines : Said(lines) => Formed(lines)
<1>1. ASSUME NEW x, Codeless(x) PROVE Formed(<<x>>)
  BY <1>1 DEF Formed, RprtsOf, Codeless
<1>2. ASSUME NEW x, NEW y, Codeless(x), Codeless(y) PROVE Formed(<<x, y>>)
  <2>1. DOMAIN <<x, y>> = {1, 2}
    OBVIOUS
  <2>2. RprtsOf(<<x, y>>) = {}
    BY <1>2, <2>1 DEF RprtsOf, Codeless
  <2>. QED
    BY <1>2, <2>2 DEF Formed, Codeless
<1>3. ASSUME NEW n PROVE Formed(<<Rprt(n)>>)
  <2>1. DOMAIN <<Rprt(n)>> = {1} /\ Len(<<Rprt(n)>>) = 1
    OBVIOUS
  <2>2. "rprt" \in DOMAIN Rprt(n) /\ "echo" \notin DOMAIN Rprt(n)
    BY DEF Rprt
  <2>3. RprtsOf(<<Rprt(n)>>) = {1}
    BY <2>1, <2>2 DEF RprtsOf
  <2>. QED
    BY <2>1, <2>2, <2>3 DEF Formed
<1>. QED
  BY <1>1, <1>2, <1>3 DEF Said

(* A header, a reply and what closes it.                                   *)
Joint(p, e, s, r) ==
    /\ Len(p) = 1 + Len(s) + Len(r) /\ DOMAIN p = 1..Len(p)
    /\ p[1] = e
    /\ \A i \in 1..Len(s) : p[1 + i] = s[i]
    /\ \A i \in 1..Len(r) : p[1 + Len(s) + i] = r[i]

LEMMA Joined ==
    ASSUME NEW S, NEW e \in S, NEW s \in Seq(S), NEW r \in Seq(S), NEW p,
           p = (<<e>> \o s) \o r
    PROVE  Joint(p, e, s, r)
<1>. DEFINE h == <<e>>
            f == h \o s
<1>1. h \in Seq(S) /\ Len(h) = 1 /\ h[1] = e
  OBVIOUS
<1>2. Len(s) \in Nat /\ Len(r) \in Nat
  BY LenProperties
<1>. HIDE DEF h
<1>3. /\ f \in Seq(S)
      /\ Len(f) = 1 + Len(s)
      /\ \A i \in 1..(1 + Len(s)) : f[i] = IF i <= 1 THEN h[i] ELSE s[i - 1]
  <2>1. /\ f \in Seq(S)
        /\ Len(f) = Len(h) + Len(s)
        /\ \A i \in 1..(Len(h) + Len(s)) : f[i] = IF i <= Len(h) THEN h[i] ELSE s[i - Len(h)]
    BY <1>1, ConcatProperties
  <2>. HIDE DEF f
  <2>. QED
    BY <1>1, <2>1
<1>4. f[1] = e /\ \A i \in 1..Len(s) : f[1 + i] = s[i]
  BY <1>1, <1>2, <1>3
<1>. HIDE DEF f
<1>5. /\ p \in Seq(S)
      /\ Len(p) = Len(f) + Len(r)
      /\ \A i \in 1..(Len(f) + Len(r)) : p[i] = IF i <= Len(f) THEN f[i] ELSE r[i - Len(f)]
  <2>1. p = f \o r
    BY DEF f, h
  <2>. QED
    BY <1>3, <2>1, ConcatProperties
<1>6. p[1] = e
  BY <1>2, <1>3, <1>4, <1>5
<1>7. \A i \in 1..Len(s) : p[1 + i] = s[i]
  BY <1>2, <1>3, <1>4, <1>5
<1>8. \A i \in 1..Len(r) : p[1 + Len(s) + i] = r[i]
  <2>. SUFFICES ASSUME NEW i \in 1..Len(r) PROVE p[1 + Len(s) + i] = r[i]
    OBVIOUS
  <2>1. 1 + Len(s) + i \in 1..Len(p) /\ ~(1 + Len(s) + i <= Len(f))
        /\ 1 + Len(s) + i - Len(f) = i
    BY <1>2, <1>3, <1>5
  <2>. QED
    BY <2>1, <1>5
<1>9. DOMAIN p = 1..Len(p)
  BY <1>5, LenProperties
<1>10. Len(p) = 1 + Len(s) + Len(r)
  BY <1>3, <1>5
<1>. QED
  BY <1>6, <1>7, <1>8, <1>9, <1>10 DEF Joint

LEMMA ExtendedFormed == \A l, lines : Said(lines) => Formed(processExtendedResponse(l, lines))
<1>. SUFFICES ASSUME NEW l, NEW lines, Said(lines)
              PROVE  Formed(processExtendedResponse(l, lines))
  OBVIOUS
<1>. DEFINE e == Echo(l)
            z == Rprt(0)
            p == processExtendedResponse(l, lines)
<1>1. /\ "echo" \in DOMAIN e /\ "rprt" \notin DOMAIN e
      /\ \A n : "rprt" \in DOMAIN Rprt(n)
  BY DEF Echo, Rprt
<1>2. p = (<<e>> \o lines) \o (IF RprtsOf(lines) = {} THEN <<z>> ELSE <<>>)
  BY DEF processExtendedResponse, Success
<1>3. ASSUME NEW x, lines = <<x>>, Codeless(x) PROVE Formed(p)
  <2>1. RprtsOf(lines) = {}
    BY <1>3 DEF RprtsOf, Codeless
  <2>. HIDE DEF e, z, p
  <2>2. p = (<<e>> \o <<x>>) \o <<z>>
    BY <1>2, <1>3, <2>1
  <2>3. DOMAIN p = {1, 2, 3} /\ Len(p) = 3 /\ p[1] = e /\ p[2] = x /\ p[3] = z
    <3>. DEFINE S == {e, x, z}
                s == <<x>>
                r == <<z>>
    <3>1. /\ e \in S /\ s \in Seq(S) /\ Len(s) = 1 /\ s[1] = x
          /\ r \in Seq(S) /\ Len(r) = 1 /\ r[1] = z
      OBVIOUS
    <3>. HIDE DEF S, s, r
    <3>2. p = (<<e>> \o s) \o r
      BY <2>2 DEF s, r
    <3>3. Joint(p, e, s, r)
      <4>1. e \in S /\ s \in Seq(S) /\ r \in Seq(S)
        BY <3>1
      <4>. QED
        BY <3>2, <4>1, Joined, Zenon
    <3>. QED
      BY <3>1, <3>3 DEF Joint
  <2>4. "rprt" \in DOMAIN z
    BY <1>1 DEF z
  <2>5. RprtsOf(p) = {3}
    BY <1>1, <1>3, <2>3, <2>4 DEF RprtsOf, Codeless
  <2>. QED
    BY <1>1, <2>3, <2>5 DEF Formed
<1>4. ASSUME NEW x, NEW y, lines = <<x, y>>, Codeless(x), Codeless(y) PROVE Formed(p)
  <2>0. DOMAIN <<x, y>> = {1, 2}
    OBVIOUS
  <2>1. RprtsOf(lines) = {}
    BY <1>4, <2>0 DEF RprtsOf, Codeless
  <2>. HIDE DEF e, z, p
  <2>2. p = (<<e>> \o <<x, y>>) \o <<z>>
    BY <1>2, <1>4, <2>1
  <2>3. DOMAIN p = {1, 2, 3, 4} /\ Len(p) = 4 /\ p[1] = e /\ p[2] = x /\ p[3] = y /\ p[4] = z
    <3>. DEFINE S == {e, x, y, z}
                s == <<x, y>>
                r == <<z>>
    <3>1. /\ e \in S /\ s \in Seq(S) /\ Len(s) = 2 /\ s[1] = x /\ s[2] = y
          /\ r \in Seq(S) /\ Len(r) = 1 /\ r[1] = z
      OBVIOUS
    <3>. HIDE DEF S, s, r
    <3>2. p = (<<e>> \o s) \o r
      BY <2>2 DEF s, r
    <3>3. Joint(p, e, s, r)
      <4>1. e \in S /\ s \in Seq(S) /\ r \in Seq(S)
        BY <3>1
      <4>. QED
        BY <3>2, <4>1, Joined, Zenon
    <3>. QED
      BY <3>1, <3>3 DEF Joint
  <2>4. "rprt" \in DOMAIN z
    BY <1>1 DEF z
  <2>5. RprtsOf(p) = {4}
    BY <1>1, <1>4, <2>3, <2>4 DEF RprtsOf, Codeless
  <2>. QED
    BY <1>1, <2>3, <2>5 DEF Formed
<1>5. ASSUME NEW n, lines = <<Rprt(n)>> PROVE Formed(p)
  <2>. DEFINE x == Rprt(n)
  <2>0. "rprt" \in DOMAIN x
    BY <1>1
  <2>. HIDE DEF x, e, z, p
  <2>1. 1 \in RprtsOf(<<x>>)
    BY <2>0 DEF RprtsOf
  <2>2. p = (<<e>> \o <<x>>) \o <<>>
    BY <1>2, <1>5, <2>1 DEF x
  <2>4. DOMAIN p = {1, 2} /\ Len(p) = 2 /\ p[1] = e /\ p[2] = x
    <3>. DEFINE S == {e, x}
                s == <<x>>
                r == <<>>
    <3>1. /\ e \in S /\ s \in Seq(S) /\ Len(s) = 1 /\ s[1] = x
          /\ r \in Seq(S) /\ Len(r) = 0
      OBVIOUS
    <3>. HIDE DEF S, s, r
    <3>2. p = (<<e>> \o s) \o r
      BY <2>2 DEF s, r
    <3>3. Joint(p, e, s, r)
      <4>1. e \in S /\ s \in Seq(S) /\ r \in Seq(S)
        BY <3>1
      <4>. QED
        BY <3>2, <4>1, Joined, Zenon
    <3>. QED
      BY <3>1, <3>3 DEF Joint
  <2>5. RprtsOf(p) = {2}
    BY <1>1, <2>0, <2>4 DEF RprtsOf
  <2>. QED
    BY <1>1, <2>4, <2>5 DEF Formed
<1>. QED
  BY <1>3, <1>4, <1>5 DEF Said

-----------------------------------------------------------------------------
(* The invariants.                                                         *)

Types ==
    /\ session \in DOMAIN Sessions
    /\ loaded \in SUBSET Handlers
    /\ at \in [Clients -> {"idle", "wait", "go", "reply", "gone"}]
    /\ line \in [Clients -> Lines]
    /\ DOMAIN cmd = Clients /\ DOMAIN next = Clients /\ DOMAIN reply = Clients
    /\ DOMAIN moved = Clients
    /\ "tx" \in DOMAIN radio

(* Lines are served by the whole table.                                    *)
Table ==
    /\ Represents(handlers, loaded)
    /\ \A c \in Clients : at[c] # "idle" => loaded = Handlers
Busy(c) == at[c] \in {"wait", "go"}
Handled == \A c \in Clients : Busy(c) => Dispatch(handlers, line[c]).found = "handler"

RepliesFormed == \A c \in Clients : at[c] = "reply" => Formed(reply[c])

(* A command about the TX flag takes it; and set_ptt goes on to the key    *)
(* from where it has taken the flag, or found it taken.                    *)
TakesFlag(c) == at[c] = "wait" /\ "tx" \in DOMAIN cmd[c] => cmd[c]["tx"] = 1
HasFlag(c) == radio["tx"] = 1 \/ moved[c]
KeysAfter(c) ==
    Busy(c) /\ Head(line[c].words) = "T" =>
        /\ next[c] \in {"xmit", "success"}
        /\ at[c] = "wait" /\ next[c] = "xmit" => "tx" \in DOMAIN cmd[c]
        /\ at[c] = "go" /\ next[c] = "xmit" => HasFlag(c)
        /\ at[c] = "wait" /\ cmd[c] = [xmit |-> 1] => HasFlag(c)
Keying == \A c \in Clients : TakesFlag(c) /\ KeysAfter(c)

-----------------------------------------------------------------------------
(* What a step may do.                                                     *)

(* A handler ran from the point here.                                      *)
Ran(c, l, d, here) ==
    LET r == Handle(c, d.h, d.args, here)
    IN  \/ /\ r.then # "reply"
           /\ at' = [at EXCEPT ![c] = "wait"]
           /\ cmd' = [cmd EXCEPT ![c] = r.do]
           /\ next' = [next EXCEPT ![c] = r.then]
           /\ reply' = reply
        \/ /\ r.then = "reply"
           /\ at' = [at EXCEPT ![c] = "reply"]
           /\ next' = [next EXCEPT ![c] = "start"]
           /\ cmd' = cmd
           /\ reply' = [reply EXCEPT ![c] = IF l.ext /\ ~r.failed
                                              THEN processExtendedResponse(l, r.say) ELSE r.say]
Received(c, l) ==
    LET d == Dispatch(handlers, l)
    IN  /\ at[c] = "idle"
        /\ line' = [line EXCEPT ![c] = l]
        /\ crashed' => \/ d.found = "panic"
                       \/ d.found = "handler" /\ ~fc /\ NeedsRadio(d.h)
        /\ moved' = [moved EXCEPT ![c] = cache["tx"] # radio["tx"]]
        /\ UNCHANGED <<handlers, loaded, session, radio, cache, slice, fc>>
        /\ \/ d.found = "handler" /\ Ran(c, l, d, "start")
           \/ /\ d.found = "error"
              /\ at' = [at EXCEPT ![c] = "reply"]
              /\ reply' = [reply EXCEPT ![c] = Error]
              /\ UNCHANGED <<cmd, next>>
           \/ /\ at' = [at EXCEPT ![c] = "gone"]
              /\ UNCHANGED <<cmd, next, reply>>

(* Dispatch never says nil, the word for a panic in a handler.             *)
LEMMA DispatchFound == \A t, l : Dispatch(t, l).found # "nil"
BY DEF Dispatch, Panics, Nothing

LEMMA ReceiveReceived ==
    ASSUME NEW c \in Clients, NEW l, Receive(c, l)
    PROVE  Received(c, l)
<1>. DEFINE d == Found(l)
<1>0. \/ d = Dispatch(handlers, l) /\ d.found # "nil"
      \/ /\ d.found = "nil" /\ Dispatch(handlers, l).found = "handler"
         /\ ~fc /\ NeedsRadio(Dispatch(handlers, l).h)
  BY DispatchFound DEF Found
<1>1. /\ at[c] = "idle"
      /\ line' = [line EXCEPT ![c] = l]
      /\ crashed' = (d.found \in {"panic", "nil"})
      /\ moved' = [moved EXCEPT ![c] = cache["tx"] # radio["tx"]]
      /\ UNCHANGED <<handlers, loaded, session, radio, cache, slice, fc>>
  BY DEF Receive
<1>. HIDE DEF d
<1>2. CASE d.found = "handler"
  <2>1. Run(c, l, d, "start",
            cache = radio /\ \A x \in Clients \ {c} : at[x] \in {"idle", "gone"})
    BY <1>2 DEF Receive, d
  <2>2. Ran(c, l, d, "start")
    BY <2>1 DEF Run, Ran
  <2>. QED
    BY <1>0, <1>1, <1>2, <2>2 DEF Received
<1>3. CASE d.found = "error"
  <2>1. /\ at' = [at EXCEPT ![c] = "reply"]
        /\ reply' = [reply EXCEPT ![c] = Error]
        /\ UNCHANGED <<cmd, next>>
    BY <1>3 DEF Receive, d
  <2>. QED
    BY <1>0, <1>1, <1>3, <2>1 DEF Received
<1>4. CASE d.found \notin {"handler", "error"}
  <2>1. /\ at' = [at EXCEPT ![c] = "gone"]
        /\ UNCHANGED <<cmd, next, reply>>
    BY <1>4 DEF Receive, d
  <2>. QED
    BY <1>0, <1>1, <1>4, <2>1 DEF Received
<1>. QED
  BY <1>2, <1>3, <1>4

LEMMA GoRan ==
    ASSUME NEW c \in Clients, Go(c)
    PROVE  /\ at[c] = "go"
           /\ Ran(c, line[c], Dispatch(handlers, line[c]), next[c])
           /\ UNCHANGED <<handlers, loaded, session, radio, cache, slice, fc, line, checked,
                          crashed, moved>>
BY DEF Go, Run, Ran

LEMMA ExecutedTx ==
    ASSUME NEW sets, NEW r \in Executed(sets), "tx" \in DOMAIN radio
    PROVE  /\ "tx" \in DOMAIN r
           /\ "tx" \in DOMAIN sets => r["tx"] = sets["tx"]
           /\ "tx" \notin DOMAIN sets => r["tx"] = radio["tx"]
<1>. DEFINE base == Over([filter |-> <<300, 3300>>], radio)
<1>2. "tx" \in DOMAIN base /\ base["tx"] = radio["tx"]
  BY DEF Over
<1>. HIDE DEF base
<1>3. r = Over(sets, radio) \/ r = Over(sets, base)
  BY DEF Executed, base
<1>4. CASE r = Over(sets, radio)
  BY <1>4 DEF Over
<1>5. CASE r = Over(sets, base)
  <2>1. /\ "tx" \in DOMAIN r
        /\ "tx" \in DOMAIN sets => r["tx"] = sets["tx"]
        /\ "tx" \notin DOMAIN sets => r["tx"] = base["tx"]
    BY <1>2, <1>5 DEF Over
  <2>. QED
    BY <1>2, <2>1
<1>. QED
  BY <1>3, <1>4, <1>5

-----------------------------------------------------------------------------

LEMMA InitTypes == Init => Types
<1>. SUFFICES ASSUME Init PROVE Types
  OBVIOUS
<1>1. NoLine \in Lines
  BY EmptySeq DEF NoLine, Lines
<1>2. "tx" \in DOMAIN InitialState
  BY DEF InitialState
<1>. QED
  BY <1>1, <1>2 DEF Init, Types

LEMMA TypesStep == Types /\ [Next]_vars => Types'
<1>. SUFFICES ASSUME Types, [Next]_vars PROVE Types'
  OBVIOUS
<1>. USE DEF Types
<1>1. CASE UNCHANGED vars
  BY <1>1 DEF vars, conn, history
<1>2. CASE Load
  BY <1>2 DEF Load, Due, conn, history
<1>3. ASSUME NEW c \in Clients, NEW l \in Sessions[session].lines, Receive(c, l) PROVE Types'
  <2>1. Received(c, l)
    BY <1>3, ReceiveReceived
  <2>2. l \in Lines
    BY LinesAssumption
  <2>. QED
    BY <2>1, <2>2 DEF Received, Ran
<1>4. ASSUME NEW c \in Clients, Go(c) PROVE Types'
  BY <1>4, GoRan DEF Ran
<1>5. ASSUME NEW c \in Clients, Write(c) PROVE Types'
  <2>1. NoLine \in Lines
    BY EmptySeq DEF NoLine, Lines
  <2>. QED
    BY <1>5, <2>1 DEF Write, history
<1>6. ASSUME NEW c \in Clients, Accept(c) PROVE Types'
  <2>1. "tx" \in DOMAIN radio'
    BY <1>6, ExecutedTx DEF Accept
  <2>. QED
    BY <1>6, <2>1 DEF Accept, history
<1>7. ASSUME NEW c \in Clients, Refuse(c) PROVE Types'
  BY <1>7 DEF Refuse
<1>8. ASSUME NEW c \in Clients, Abandon(c) PROVE Types'
  <2>1. "tx" \in DOMAIN radio'
    BY <1>8, ExecutedTx DEF Abandon
  <2>. QED
    BY <1>8, <2>1 DEF Abandon
<1>9. ASSUME NEW k \in DOMAIN radio, Deliver(k) PROVE Types'
  BY <1>9 DEF Deliver, conn, history
<1>10. ASSUME NEW k, NEW v, Change(k, v) PROVE Types'
  BY <1>10 DEF Change, conn
<1>11. CASE TunerFinishes
  BY <1>11 DEF TunerFinishes, conn, history
<1>12. CASE SliceSeen \/ Connect
  BY <1>12 DEF SliceSeen, Connect, conn, history
<1>. QED
  BY <1>1, <1>2, <1>3, <1>4, <1>5, <1>6, <1>7, <1>8, <1>9, <1>10, <1>11, <1>12 DEF Next

LEMMA InitTable == Init => Table
<1>. SUFFICES ASSUME Init PROVE Table
  OBVIOUS
<1>1. \A n : Under({}, n) = {}
  BY DEF Under
<1>2. \A n : Shows(NoTable, n, {})
  BY DEF Shows, NoTable
<1>3. DOMAIN NoTable = {}
  BY DEF NoTable
<1>. QED
  BY <1>1, <1>2, <1>3 DEF Init, Table, Represents

LEMMA TableStep == Types /\ Table /\ [Next]_vars => Table'
<1>. SUFFICES ASSUME Types, Table, [Next]_vars PROVE Table'
  OBVIOUS
<1>1. CASE Load
  <2>1. PICK h \in Due(loaded) : /\ loaded' = loaded \cup {h}
                               /\ handlers' = AddHandler(handlers, h)
                               /\ UNCHANGED at
    BY <1>1 DEF Load, conn
  <2>2. h \in Handlers \ loaded
    BY DEF Due
  <2>3. Represents(AddHandler(handlers, h), loaded \cup {h})
    BY <2>2, AddHandlerRepresents DEF Table, Types
  <2>4. Represents(handlers', loaded')
    BY <2>1, <2>3
  <2>5. \A c \in Clients : at[c] = "idle"
    BY <2>2 DEF Table
  <2>. QED
    BY <2>1, <2>4, <2>5 DEF Table
<1>2. CASE UNCHANGED <<handlers, loaded>> /\ (loaded = Handlers \/ UNCHANGED at)
  BY <1>2 DEF Table, Represents
<1>3. CASE UNCHANGED vars
  BY <1>2, <1>3 DEF vars, conn
<1>4. ASSUME Running, NEW c \in Clients,
             \/ \E l \in Sessions[session].lines : Receive(c, l)
             \/ Go(c) \/ Write(c) \/ Accept(c) \/ Refuse(c) \/ Abandon(c)
      PROVE  Table'
  BY <1>2, <1>4 DEF Running, Receive, Go, Write, Accept, Refuse, Abandon
<1>5. ASSUME Running, \/ \E k \in DOMAIN radio : Deliver(k)
                      \/ \E ch \in Sessions[session].changes : Change(ch[1], ch[2])
                      \/ TunerFinishes \/ SliceSeen \/ Connect
      PROVE  Table'
  BY <1>2, <1>5 DEF Running, Deliver, Change, TunerFinishes, SliceSeen, Connect
<1>. QED
  BY <1>1, <1>3, <1>4, <1>5 DEF Next

(* While a line is handled the table stays, so it is found again.          *)
LEMMA HandledStep == Types /\ Table /\ Handled /\ [Next]_vars => Handled'
<1>. SUFFICES ASSUME Types, Table, Handled, [Next]_vars PROVE Handled'
  OBVIOUS
<1>1. CASE UNCHANGED <<handlers, line, at>>
  BY <1>1 DEF Handled, Busy
<1>2. CASE UNCHANGED vars
  BY <1>1, <1>2 DEF vars, conn
<1>3. CASE Load
  <2>1. loaded # Handlers /\ UNCHANGED at
    BY <1>3 DEF Load, Due, conn
  <2>. QED
    BY <2>1 DEF Table, Handled, Busy
<1>4. ASSUME NEW c \in Clients, NEW l \in Sessions[session].lines, Receive(c, l) PROVE Handled'
  <2>1. Received(c, l)
    BY <1>4, ReceiveReceived
  <2>2. /\ \A x \in Clients \ {c} : at'[x] = at[x] /\ line'[x] = line[x]
        /\ line'[c] = l /\ handlers' = handlers
        /\ Dispatch(handlers, l).found = "handler" \/ at'[c] \in {"reply", "gone"}
    BY <2>1 DEF Received, Ran, Types
  <2>3. Busy(c)' => Dispatch(handlers, l).found = "handler"
    BY <2>2 DEF Busy
  <2>. QED
    BY <2>2, <2>3 DEF Handled, Busy
<1>5. ASSUME NEW c \in Clients, Go(c) PROVE Handled'
  BY <1>5, GoRan DEF Ran, Types, Handled, Busy
<1>6. ASSUME NEW c \in Clients, Write(c) PROVE Handled'
  BY <1>6 DEF Write, Types, Handled, Busy
<1>7. ASSUME NEW c \in Clients, Accept(c) \/ Refuse(c) \/ Abandon(c) PROVE Handled'
  BY <1>7 DEF Accept, Refuse, Abandon, Types, Handled, Busy
<1>8. ASSUME NEW k, Deliver(k) PROVE Handled'
  BY <1>1, <1>8 DEF Deliver, conn
<1>9. ASSUME NEW k, NEW v, Change(k, v) PROVE Handled'
  BY <1>1, <1>9 DEF Change, conn
<1>10. CASE TunerFinishes \/ SliceSeen \/ Connect
  BY <1>1, <1>10 DEF TunerFinishes, SliceSeen, Connect, conn
<1>. QED
  BY <1>2, <1>3, <1>4, <1>5, <1>6, <1>7, <1>8, <1>9, <1>10 DEF Next

LEMMA RepliesStep == Types /\ RepliesFormed /\ [Next]_vars => RepliesFormed'
<1>. SUFFICES ASSUME Types, RepliesFormed, [Next]_vars PROVE RepliesFormed'
  OBVIOUS
<1>1. CASE UNCHANGED <<reply, at>>
  BY <1>1 DEF RepliesFormed
<1>2. CASE UNCHANGED vars \/ Load
  BY <1>1, <1>2 DEF vars, conn, Load
<1>3. Formed(Error)
  BY SaidFormed DEF Said, Error
<1>4. ASSUME NEW c \in Clients, NEW l, NEW d, NEW here, Ran(c, l, d, here)
      PROVE  /\ \A x \in Clients \ {c} : at'[x] = at[x] /\ reply'[x] = reply[x]
             /\ at'[c] = "reply" => Formed(reply'[c])
  <2>. DEFINE r == Handle(c, d.h, d.args, here)
  <2>1. r.then = "reply" => Formed(r.say) /\ Formed(processExtendedResponse(l, r.say))
    BY HandleFair, SaidFormed, ExtendedFormed DEF Fair
  <2>. QED
    BY <1>4, <2>1 DEF Ran, Types
<1>5. ASSUME NEW c \in Clients, NEW l \in Sessions[session].lines, Receive(c, l)
      PROVE  RepliesFormed'
  <2>1. Received(c, l)
    BY <1>5, ReceiveReceived
  <2>2. CASE Ran(c, l, Dispatch(handlers, l), "start")
    BY <1>4, <2>2 DEF RepliesFormed
  <2>3. CASE at' = [at EXCEPT ![c] = "reply"] /\ reply' = [reply EXCEPT ![c] = Error]
    BY <1>3, <2>3 DEF RepliesFormed, Types
  <2>4. CASE at' = [at EXCEPT ![c] = "gone"] /\ UNCHANGED reply
    BY <2>4 DEF RepliesFormed, Types
  <2>. QED
    BY <2>1, <2>2, <2>3, <2>4 DEF Received
<1>6. ASSUME NEW c \in Clients, Go(c) PROVE RepliesFormed'
  <2>1. Ran(c, line[c], Dispatch(handlers, line[c]), next[c])
    BY <1>6, GoRan
  <2>. QED
    BY <1>4, <2>1 DEF RepliesFormed
<1>7. ASSUME NEW c \in Clients, Write(c) \/ Accept(c) PROVE RepliesFormed'
  BY <1>7 DEF Write, Accept, RepliesFormed, Types
<1>8. ASSUME NEW c \in Clients, Refuse(c) \/ Abandon(c) PROVE RepliesFormed'
  BY <1>3, <1>8 DEF Refuse, Abandon, RepliesFormed, Types
<1>9. ASSUME NEW k, Deliver(k) PROVE RepliesFormed'
  BY <1>1, <1>9 DEF Deliver, conn
<1>10. ASSUME NEW k, NEW v, Change(k, v) PROVE RepliesFormed'
  BY <1>1, <1>10 DEF Change, conn
<1>11. CASE TunerFinishes \/ SliceSeen \/ Connect
  BY <1>1, <1>11 DEF TunerFinishes, SliceSeen, Connect, conn
<1>. QED
  BY <1>2, <1>5, <1>6, <1>7, <1>8, <1>9, <1>10, <1>11 DEF Next

LEMMA KeyingStep == Types /\ Table /\ Handled /\ Keying /\ [Next]_vars => Keying'
<1>. SUFFICES ASSUME Types, Table, Handled, Keying, [Next]_vars PROVE Keying'
  OBVIOUS
<1>1. CASE UNCHANGED <<at, line, cmd, next, moved>> /\ radio'["tx"] = radio["tx"]
  BY <1>1 DEF Keying, TakesFlag, KeysAfter, HasFlag, Busy
<1>2. CASE UNCHANGED vars \/ Load
  BY <1>1, <1>2 DEF vars, conn, history, Load
(* A handler that ran leaves its client's command and way on in order.     *)
<1>3. ASSUME NEW c \in Clients, NEW l \in Lines, NEW here,
             Dispatch(handlers, l).found = "handler",
             Ran(c, l, Dispatch(handlers, l), here), line'[c] = l,
             Head(l.words) = "T" /\ here = "start" /\ cache["tx"] = 1 => HasFlag(c)',
             Head(l.words) = "T" /\ here = "xmit" => HasFlag(c)',
             Head(l.words) = "T" => here \in {"start", "xmit", "success"}
      PROVE  TakesFlag(c)' /\ KeysAfter(c)'
  <2>. DEFINE d == Dispatch(handlers, l)
              r == Handle(c, d.h, d.args, here)
  <2>1. CASE r.then = "reply"
    <3>1. at'[c] = "reply"
      BY <1>3, <2>1 DEF Ran, Types
    <3>. QED
      BY <3>1 DEF TakesFlag, KeysAfter, Busy
  <2>2. CASE r.then # "reply"
    <3>1. /\ at'[c] = "wait" /\ cmd'[c] = r.do /\ next'[c] = r.then
      BY <1>3, <2>2 DEF Ran, Types
    <3>2. "tx" \in DOMAIN r.do => r.do["tx"] = 1
      BY <2>2, HandleFair DEF Fair
    <3>3. TakesFlag(c)'
      BY <3>1, <3>2 DEF TakesFlag
    <3>4. ASSUME Head(l.words) = "T"
          PROVE  \/ r.then = "xmit" /\ "tx" \in DOMAIN r.do /\ r.do # [xmit |-> 1]
                 \/ r.then = "success" /\ (r.do = [xmit |-> 1] => HasFlag(c)')
      <4>1. d.h.name = "set_ptt"
        BY <1>3, <3>4, TheT DEF Table, Types
      <4>2. CASE here = "success"
        BY <2>2, <4>2 DEF Handle, Say
      <4>3. CASE here \in {"start", "xmit"}
        <5>1. r = set_ptt(d.args, here)
          BY <4>1, <4>3 DEF Handle, Set_, Setters
        <5>2. CASE d.args[1] = "0"
          <6>1. r.then = "success" /\ r.do = [k \in {"xmit"} |-> 0]
            BY <5>1, <5>2 DEF set_ptt, SetsOne, Do
          <6>2. r.do # [xmit |-> 1]
            <7>1. r.do["xmit"] = 0
              BY <6>1
            <7>. QED
              BY <7>1
          <6>. QED
            BY <6>1, <6>2
        <5>3. CASE d.args[1] # "0" /\ here = "xmit"
          BY <1>3, <3>4, <5>1, <5>3 DEF set_ptt, SetsOne, Do
        <5>4. CASE d.args[1] # "0" /\ here = "start" /\ slice /\ cache["tx"] = 1
          BY <1>3, <3>4, <5>1, <5>4 DEF set_ptt, SetsOne, Do, FromSlice
        <5>5. CASE d.args[1] # "0" /\ here = "start" /\ slice /\ cache["tx"] # 1
          <6>1. r = Do([tx |-> 1], "xmit")
            BY <5>1, <5>5 DEF set_ptt, FromSlice
          <6>2. r.then = "xmit" /\ r.do = [tx |-> 1]
            BY <6>1 DEF Do
          <6>3. [tx |-> 1] # [xmit |-> 1]
            <7>1. DOMAIN [tx |-> 1] = {"tx"} /\ DOMAIN [xmit |-> 1] = {"xmit"}
              OBVIOUS
            <7>. QED
              BY <7>1
          <6>. QED
            BY <6>2, <6>3
        <5>6. CASE d.args[1] # "0" /\ here = "start" /\ ~slice
          BY <2>2, <5>1, <5>6 DEF set_ptt, FromSlice, Fails, FailsWith
        <5>. QED
          BY <4>3, <5>2, <5>3, <5>4, <5>5, <5>6
      <4>. QED
        BY <1>3, <3>4, <4>2, <4>3
    <3>5. KeysAfter(c)'
      BY <1>3, <3>1, <3>4 DEF KeysAfter, Busy
    <3>. QED
      BY <3>3, <3>5
  <2>. QED
    BY <2>1, <2>2
(* A client whose own state stays, while the flag only comes or is moved.  *)
<1>4. ASSUME NEW x \in Clients, at'[x] = at[x], line'[x] = line[x], cmd'[x] = cmd[x],
             next'[x] = next[x], moved[x] => moved'[x],
             radio["tx"] = 1 /\ Busy(x) => HasFlag(x)'
      PROVE  TakesFlag(x)' /\ KeysAfter(x)'
  <2>1. Busy(x) /\ HasFlag(x) => HasFlag(x)'
    BY <1>4 DEF HasFlag
  <2>2. TakesFlag(x) /\ KeysAfter(x)
    BY DEF Keying
  <2>3. TakesFlag(x)'
    BY <1>4, <2>2 DEF TakesFlag
  <2>4. KeysAfter(x)'
    BY <1>4, <2>1, <2>2 DEF KeysAfter, Busy
  <2>. QED
    BY <2>3, <2>4
<1>5. ASSUME NEW c \in Clients, TakesFlag(c)' /\ KeysAfter(c)',
             \A x \in Clients \ {c} :
                 /\ at'[x] = at[x] /\ line'[x] = line[x] /\ cmd'[x] = cmd[x]
                 /\ next'[x] = next[x] /\ (moved[x] => moved'[x])
                 /\ (radio["tx"] = 1 => radio'["tx"] = 1)
      PROVE  Keying'
  <2>1. ASSUME NEW x \in Clients \ {c} PROVE TakesFlag(x)' /\ KeysAfter(x)'
    BY <1>4, <1>5 DEF HasFlag
  <2>. QED
    BY <1>5, <2>1 DEF Keying
(* A client that waits no more and has no handler to go on.                *)
<1>6. ASSUME NEW c \in Clients, at'[c] \in {"idle", "reply", "gone"}
      PROVE  TakesFlag(c)' /\ KeysAfter(c)'
  BY <1>6 DEF TakesFlag, KeysAfter, Busy
<1>7. ASSUME NEW c \in Clients, NEW l \in Sessions[session].lines, Receive(c, l) PROVE Keying'
  <2>1. Received(c, l)
    BY <1>7, ReceiveReceived
  <2>2. l \in Lines
    BY LinesAssumption DEF Types
  <2>3. line'[c] = l /\ (cache["tx"] = 1 => HasFlag(c)')
    BY <2>1 DEF Received, Types, HasFlag
  <2>4. TakesFlag(c)' /\ KeysAfter(c)'
    <3>1. CASE Dispatch(handlers, l).found = "handler" /\ Ran(c, l, Dispatch(handlers, l), "start")
      BY <1>3, <2>2, <2>3, <3>1
    <3>2. CASE at' = [at EXCEPT ![c] = "reply"] \/ at' = [at EXCEPT ![c] = "gone"]
      BY <1>6, <3>2 DEF Types
    <3>. QED
      BY <2>1, <3>1, <3>2 DEF Received
  <2>5. \A x \in Clients \ {c} :
            /\ at'[x] = at[x] /\ line'[x] = line[x] /\ cmd'[x] = cmd[x]
            /\ next'[x] = next[x] /\ moved'[x] = moved[x] /\ radio' = radio
    BY <2>1 DEF Received, Ran, Types
  <2>. QED
    BY <1>5, <2>4, <2>5
<1>8. ASSUME NEW c \in Clients, Go(c) PROVE Keying'
  <2>1. /\ at[c] = "go"
        /\ Ran(c, line[c], Dispatch(handlers, line[c]), next[c])
        /\ UNCHANGED <<radio, line, moved>>
    BY <1>8, GoRan
  <2>2. line[c] \in Lines /\ line'[c] = line[c] /\ Dispatch(handlers, line[c]).found = "handler"
    BY <2>1 DEF Types, Handled, Busy
  <2>3. Head(line[c].words) = "T" => next[c] \in {"xmit", "success"}
    BY <2>1 DEF Keying, KeysAfter, Busy
  <2>4. TakesFlag(c)' /\ KeysAfter(c)'
    <3>1. ASSUME Head(line[c].words) = "T", next[c] = "start" PROVE FALSE
      BY <2>3, <3>1
    <3>2. Head(line[c].words) = "T" /\ next[c] = "xmit" => HasFlag(c)'
      BY <2>1 DEF Keying, KeysAfter, Busy, HasFlag
    <3>3. ASSUME Head(line[c].words) = "T" PROVE next[c] \in {"start", "xmit", "success"}
      BY <2>3, <3>3
    <3>. QED
      BY <1>3, <2>1, <2>2, <3>1, <3>2, <3>3, Zenon
  <2>5. \A x \in Clients \ {c} : at'[x] = at[x] /\ cmd'[x] = cmd[x] /\ next'[x] = next[x]
    BY <2>1 DEF Ran, Types
  <2>. QED
    BY <1>5, <2>1, <2>4, <2>5
<1>9. ASSUME NEW c \in Clients, Write(c) PROVE Keying'
  <2>1. at'[c] = "idle"
    BY <1>9 DEF Write, Types
  <2>2. TakesFlag(c)' /\ KeysAfter(c)'
    BY <1>6, <2>1
  <2>3. /\ UNCHANGED <<radio, cmd, next, moved>>
        /\ \A x \in Clients \ {c} : at'[x] = at[x] /\ line'[x] = line[x]
    BY <1>9 DEF Write, history, Types
  <2>. QED
    BY <1>5, <2>2, <2>3
<1>10. ASSUME NEW c \in Clients, Accept(c) PROVE Keying'
  <2>1. /\ at[c] = "wait" /\ at'[c] = "go"
        /\ radio' \in Executed(cmd[c])
        /\ UNCHANGED <<line, next, moved>>
        /\ \A x \in Clients \ {c} : at'[x] = at[x] /\ cmd'[x] = cmd[x]
    BY <1>10 DEF Accept, history, Types
  <2>2. /\ "tx" \in DOMAIN cmd[c] => radio'["tx"] = 1
        /\ radio["tx"] = 1 => radio'["tx"] = 1
    BY <2>1, ExecutedTx DEF Types, Keying, TakesFlag
  <2>3. TakesFlag(c)'
    BY <2>1 DEF TakesFlag
  <2>4. KeysAfter(c)'
    <3>1. KeysAfter(c)
      BY DEF Keying
    <3>. QED
      BY <2>1, <2>2, <3>1 DEF KeysAfter, Busy, HasFlag
  <2>. QED
    BY <1>5, <2>1, <2>2, <2>3, <2>4
<1>11. ASSUME NEW c \in Clients, Refuse(c) PROVE Keying'
  <2>1. /\ at[c] = "wait"
        /\ UNCHANGED <<radio, line, moved>>
        /\ \A x \in Clients \ {c} : at'[x] = at[x] /\ cmd'[x] = cmd[x] /\ next'[x] = next[x]
        /\ \/ /\ next[c] \in {"answered", "filter"} /\ at'[c] = "go"
              /\ next'[c] \in {"refused", "filter"}
           \/ at'[c] = "reply"
    BY <1>11 DEF Refuse, Types
  <2>2. KeysAfter(c)
    BY DEF Keying
  <2>3. TakesFlag(c)' /\ KeysAfter(c)'
    BY <2>1, <2>2 DEF TakesFlag, KeysAfter, Busy
  <2>. QED
    BY <1>5, <2>1, <2>3
<1>12. ASSUME NEW c \in Clients, Abandon(c) PROVE Keying'
  <2>1. /\ at'[c] = "reply"
        /\ radio' = radio \/ radio' \in Executed(cmd[c])
        /\ at[c] = "wait"
        /\ UNCHANGED <<line, moved>>
        /\ \A x \in Clients \ {c} : at'[x] = at[x] /\ cmd'[x] = cmd[x] /\ next'[x] = next[x]
    BY <1>12 DEF Abandon, Types
  <2>2. TakesFlag(c)' /\ KeysAfter(c)'
    BY <1>6, <2>1
  <2>3. radio["tx"] = 1 => radio'["tx"] = 1
    <3>1. CASE radio' = radio
      BY <3>1
    <3>2. CASE radio' \in Executed(cmd[c])
      BY <2>1, <3>2, ExecutedTx DEF Types, Keying, TakesFlag
    <3>. QED
      BY <2>1, <3>1, <3>2
  <2>. QED
    BY <1>5, <2>1, <2>2, <2>3
<1>13. ASSUME NEW k, Deliver(k) PROVE Keying'
  BY <1>1, <1>13 DEF Deliver, conn, history
<1>14. ASSUME NEW k, NEW v, Change(k, v) PROVE Keying'
  <2>1. /\ UNCHANGED <<at, line, cmd, next>>
        /\ \A x \in Clients : moved'[x] = (moved[x] \/ (k = "tx" /\ at[x] \in {"wait", "go"}))
        /\ k # "tx" => radio'["tx"] = radio["tx"]
    BY <1>14 DEF Change, conn, Types
  <2>2. ASSUME NEW x \in Clients PROVE TakesFlag(x)' /\ KeysAfter(x)'
    <3>1. moved[x] => moved'[x]
      BY <2>1
    <3>2. radio["tx"] = 1 /\ Busy(x) => HasFlag(x)'
      BY <2>1 DEF HasFlag, Busy
    <3>. QED
      BY <1>4, <2>1, <3>1, <3>2
  <2>. QED
    BY <2>2 DEF Keying
<1>15. CASE TunerFinishes \/ SliceSeen \/ Connect
  BY <1>1, <1>15 DEF TunerFinishes, SliceSeen, Connect, conn, history, Types
<1>. QED
  BY <1>2, <1>7, <1>8, <1>9, <1>10, <1>11, <1>12, <1>13, <1>14, <1>15 DEF Next

(* A handler found for a line is one the line begins a path of.            *)
LEMMA FoundRegistered ==
    ASSUME NEW t, Represents(t, Handlers),
           NEW l \in Lines, Dispatch(t, l).found = "handler"
    PROVE  l.words # <<>> /\ Dispatch(t, l).h \in Registered(Handlers, Parts(l))
<1>. DEFINE q == Parts(l)
<1>1. l.words # <<>>
  <2>. SUFFICES ASSUME l.words = <<>> PROVE FALSE
    OBVIOUS
  <2>1. Dispatch(t, l).found \in {"panic", "silent"}
    BY DEF Dispatch, Panics
  <2>. QED
    BY <2>1
<1>2. q \in Seq(Parted) /\ q # <<>>
  BY <1>1, PartsOf
<1>3. Walk(t, q).found = "handler" /\ Dispatch(t, l).h = Walk(t, q).h
  <2>1. Walk(t, q).found # "nothing" /\ Walk(t, q).found # "panic"
    BY <1>1 DEF Dispatch, Panics
  <2>2. Walk(t, q).found = "handler"
    <3>. HIDE DEF q
    <3>. QED
      BY <1>2, <2>1, WalkFinds DEF Nothing, Panics
  <2>. QED
    BY <1>1, <2>2 DEF Dispatch, Panics
<1>. HIDE DEF q
<1>4. Walk(t, q).h \in Handlers /\ Reaches(Walk(t, q).h, q)
  BY <1>2, <1>3, WalkFinds DEF Nothing, Panics
<1>5. \E p \in Paths(Walk(t, q).h) : IsPrefix(p, q)
  BY <1>2, <1>4, PathBegins
<1>. QED
  BY <1>1, <1>3, <1>4, <1>5 DEF Registered, q

LEMMA CrashStep == Types /\ Table /\ CrashesTwoWays /\ [Next]_vars => CrashesTwoWays'
<1>. DEFINE Way(l) == Incomplete(l) \/ (~fc' /\ ForRadio(l))
<1>. SUFFICES ASSUME Types, Table, CrashesTwoWays, [Next]_vars, crashed'
              PROVE  \E c \in Clients : Way(line'[c])
  BY DEF CrashesTwoWays
<1>1. CASE UNCHANGED <<crashed, line, fc>>
  BY <1>1 DEF CrashesTwoWays
<1>2. CASE UNCHANGED vars \/ Load
  BY <1>1, <1>2 DEF vars, conn, Load
<1>3. ASSUME Running, NEW c \in Clients, NEW l \in Sessions[session].lines, Receive(c, l)
      PROVE  Way(line'[c])
  <2>1. Received(c, l)
    BY <1>3, ReceiveReceived
  <2>2. l \in Lines
    BY LinesAssumption DEF Types
  <2>3. line'[c] = l /\ fc' = fc
    BY <2>1 DEF Received, Types
  <2>4. CASE Dispatch(handlers, l).found = "panic"
    <3>1. Incomplete(l)
      BY <2>2, <2>4, PanicIncomplete DEF Types, Table
    <3>. QED
      BY <2>3, <3>1
  <2>5. CASE /\ Dispatch(handlers, l).found = "handler"
             /\ ~fc /\ NeedsRadio(Dispatch(handlers, l).h)
    <3>1. ForRadio(l)
      BY <1>3, <2>2, <2>5, FoundRegistered DEF Running, Table, ForRadio
    <3>. QED
      BY <2>3, <2>5, <3>1
  <2>. QED
    BY <2>1, <2>4, <2>5 DEF Received
<1>4. ASSUME Running, UNCHANGED crashed PROVE FALSE
  BY <1>4 DEF Running
<1>5. ASSUME NEW c \in Clients, Go(c) \/ Write(c) \/ Accept(c) \/ Refuse(c) \/ Abandon(c)
      PROVE  UNCHANGED crashed
  BY <1>5 DEF Go, Write, Accept, Refuse, Abandon
<1>6. ASSUME \/ \E k \in DOMAIN radio : Deliver(k)
             \/ \E ch \in Sessions[session].changes : Change(ch[1], ch[2])
             \/ TunerFinishes \/ SliceSeen \/ Connect
      PROVE  UNCHANGED crashed
  BY <1>6 DEF Deliver, Change, TunerFinishes, SliceSeen, Connect
<1>. QED
  BY <1>2, <1>3, <1>4, <1>5, <1>6 DEF Next

-----------------------------------------------------------------------------
(* The theorems.                                                           *)

LEMMA TypesCorrect == Spec => []Types
BY InitTypes, TypesStep, PTL DEF Spec

LEMMA TableCorrect == Spec => []Table
BY InitTable, TableStep, TypesCorrect, PTL DEF Spec

LEMMA HandledCorrect == Spec => []Handled
<1>1. Init => Handled
  BY DEF Init, Handled, Busy
<1>. QED
  BY <1>1, HandledStep, TypesCorrect, TableCorrect, PTL DEF Spec

LEMMA KeyingCorrect == Spec => []Keying
<1>1. Init => Keying
  BY DEF Init, Keying, TakesFlag, KeysAfter, Busy
<1>. QED
  BY <1>1, KeyingStep, TypesCorrect, TableCorrect, HandledCorrect, PTL DEF Spec

(* The handlers added so far are found by the lines that begin with one of *)
(* their paths and by no others, whatever the lines are (AddHandler,       *)
(* handleCmd).                                                             *)
THEOREM DispatchCorrect == Spec => DispatchExact
<1>. DEFINE Exact == \A l \in UNION {Sessions[s].lines : s \in DOMAIN Sessions} : l.words # <<>> =>
                         LET w == Walk(handlers, Parts(l))
                             known == Registered(loaded, Parts(l))
                         IN  IF w.found = "handler" THEN known = {w.h} ELSE known = {}
<1>1. Types /\ Table => Exact
  <2>. SUFFICES ASSUME Types, Table,
                       NEW l \in UNION {Sessions[s].lines : s \in DOMAIN Sessions}, l.words # <<>>
                PROVE  LET w == Walk(handlers, Parts(l))
                           known == Registered(loaded, Parts(l))
                       IN  IF w.found = "handler" THEN known = {w.h} ELSE known = {}
    OBVIOUS
  <2>. DEFINE q == Parts(l)
  <2>1. l \in Lines
    BY LinesAssumption
  <2>2. q \in Seq(Parted) /\ q # <<>>
    BY <2>1, PartsOf
  <2>. HIDE DEF q
  <2>3. Registered(loaded, q) = {h \in loaded : Reaches(h, q)}
    BY <2>2, PathBegins DEF Registered
  <2>4. CASE Walk(handlers, q).found = "handler"
    <3>1. /\ Walk(handlers, q).h \in loaded
          /\ Reaches(Walk(handlers, q).h, q)
          /\ \A h \in loaded : Reaches(h, q) => h = Walk(handlers, q).h
      BY <2>2, <2>4, WalkFinds DEF Types, Table, Nothing, Panics
    <3>. QED
      BY <2>3, <2>4, <3>1 DEF q
  <2>5. CASE Walk(handlers, q).found # "handler"
    <3>1. \A h \in loaded : ~Reaches(h, q)
      BY <2>2, <2>5, WalkFinds DEF Types, Table
    <3>. QED
      BY <2>3, <2>5, <3>1 DEF q
  <2>. QED
    BY <2>4, <2>5
<1>2. Exact' => [loaded' # loaded =>
          \A l \in UNION {Sessions[s].lines : s \in DOMAIN Sessions} : l.words # <<>> =>
              LET w == Walk(handlers', Parts(l))
                  known == Registered(loaded', Parts(l))
              IN  IF w.found = "handler" THEN known = {w.h} ELSE known = {}]_vars
  BY DEF Registered
<1>. HIDE DEF Exact
<1>. QED
  BY <1>1, <1>2, TypesCorrect, TableCorrect, PTL DEF DispatchExact

(* Whatever the lines are, a line panics only because it stops short of a  *)
(* handler's path (handleCmd) or asks for the radio before there is a      *)
(* FlexClient (a handler's use of fc).                                     *)
THEOREM CrashCorrect == Spec => []CrashesTwoWays
<1>1. Init => CrashesTwoWays
  BY DEF Init, CrashesTwoWays
<1>. QED
  BY <1>1, CrashStep, TypesCorrect, TableCorrect, PTL DEF Spec

(* Every reply is whole: values without a code, or one code at the end     *)
(* (processExtendedResponse), whatever the handler and the radio answered. *)
THEOREM RepliesCorrect == Spec => []ReplyWellFormed
<1>1. Init => RepliesFormed
  BY DEF Init, RepliesFormed
<1>2. RepliesFormed => ReplyWellFormed
  BY DEF RepliesFormed, Formed, ReplyWellFormed
<1>. QED
  BY <1>1, <1>2, RepliesStep, TypesCorrect, PTL DEF Spec

(* Before set_ptt keys the transmitter, Flexy's slice has taken the TX     *)
(* flag, whatever other clients of Flexy and of the radio do meanwhile.    *)
THEOREM KeyingOwnSlice == Spec => []KeysOwnSlice
<1>1. Keying => KeysOwnSlice
  BY DEF Keying, KeysAfter, Busy, HasFlag, KeysOwnSlice
<1>. QED
  BY <1>1, KeyingCorrect, PTL

-----------------------------------------------------------------------------
(* Reading back what was set. A set that had the radio to itself from its  *)
(* first look on leaves the radio as its client asked (Own), and keeps     *)
(* what the sets before it asked for (Others).                             *)

(* What an item reads as once the copy has caught up with the state r, and *)
(* that it is what a asked for: Kept, said of the radio.                   *)

Shift(on, freq) == IF on = 0 THEN 0 ELSE freq
AgcLevel(r) == IF r["agc_mode"] = "off" THEN r["agc_off_level"] ELSE r["agc_threshold"]
Preamp(gain) == IF gain < 0 THEN 0 ELSE gain \div 8
Att(gain) == IF gain < 0 THEN 1 ELSE 0
Steps(w) == Round(Number[w], 1000)
Width(a) == IF Int_(a[2]) < 0 THEN Modes[a[1]].width ELSE Int_(a[2])

HoldsMode(r, a) ==
    /\ a[1] \in DOMAIN Modes /\ IsInt(a[2])
    /\ r["mode"] = Modes[a[1]].flex
    /\ Width(a) # 0 => r["filter"][2] - r["filter"][1] = Width(a) - (Width(a) % 2)
HoldsTuner(r, a) ==
    /\ a[1] = "0" => r["tune"] = 0 /\ r["atu"] = "BYPASS"
    /\ a[1] = "1" => r["tune"] # 0 \/ r["atu"] # "BYPASS"
    /\ a[1] = "2" => r["tune"] # 0
    /\ a[1] \in {"0", "1", "2"}
Holds(r, i, a) ==
    LET w == Wanted(a)
    IN  CASE i = "freq" -> IsFloat(w) /\ Near(r["freq"] * 1000, Number[w], 500)
          [] i = "rit" -> IsFloat(w) /\ Shift(r["rit_on"], r["rit_freq"]) = Int_(w)
          [] i = "xit" -> IsFloat(w) /\ Shift(r["xit_on"], r["xit_freq"]) = Int_(w)
          [] i = "mode" -> w = a[2] /\ HoldsMode(r, a)
          [] i = "ptt" -> r["xmit"] = IF a[1] = "0" THEN 0 ELSE 1
          [] i = "AF" -> IsFloat(w) /\ Near(r["af"] * 10, Number[w], 5)
          [] i = "RFPOWER" -> IsFloat(w) /\ Near(r["rfpower"] * 10, Number[w], 5)
          [] i = "RF" -> IsFloat(w) /\ Near(AgcLevel(r) * 10, Number[w], 5)
          [] i = "PREAMP" -> IsFloat(w) /\ Preamp(r["rfgain"]) = Steps(w)
          [] i = "ATT" -> IsFloat(w) /\ Att(r["rfgain"]) = IF Steps(w) = 0 THEN 0 ELSE 1
          [] i = "TUNER" -> HoldsTuner(r, a)

(* A success of h with the arguments a makes the item i forget what it was *)
(* asked for.                                                              *)
Drops(h, a, i) ==
    /\ Coupled(i, ItemOf(h))
    /\ Steps(Wanted(a)) # 0 /\ Steps(Wanted(asked[i])) # 0

(* What a handler relies on where it goes on.                              *)
Others(r, h, a) ==
    \A i \in Items \ {ItemOf(h)} : asked[i] = <<>> \/ Drops(h, a, i) \/ Holds(r, i, asked[i])
Own(r, h, a, here) ==
    \/ here = "success" /\ ItemOf(h) \in Items /\ Holds(r, ItemOf(h), a)
    \/ /\ here = "filter" /\ h.name = "set_mode"
       /\ a[1] \in DOMAIN Modes /\ IsInt(a[2]) /\ r["mode"] = Modes[a[1]].flex
    \/ here = "xmit" /\ h.name = "set_ptt" /\ a[1] # "0"
    \/ /\ here = "bypass" /\ h.name = "set_func" /\ a[1] = "0"
       /\ r["tune"] = 0 /\ (cache["atu"] = "BYPASS" => r["atu"] = "BYPASS")
    \/ here = "tune" /\ h.name = "set_func" /\ a[1] = "1"
Reliable(r, h, a, here) == Others(r, h, a) /\ Own(r, h, a, here)

Of(c) == Dispatch(handlers, line[c])
Keys == DOMAIN InitialState

(* The radio and the copy have what the handlers look at.                  *)
Seen ==
    /\ Keys \subseteq DOMAIN radio /\ Keys \subseteq DOMAIN cache
    /\ radio["rfgain"] \in Int

KeepsTypes ==
    /\ Seen
    /\ \A c \in Clients :
           at[c] = "wait" /\ "rfgain" \in DOMAIN cmd[c] => cmd[c]["rfgain"] \in Int
    /\ DOMAIN clean = Clients /\ DOMAIN asked = Items
Sends ==
    \A c \in Clients : Busy(c) =>
        /\ Of(c).h.name \in Setters \cup {"send_cmd"}
        /\ Of(c).h.name = "send_cmd" => next[c] # "success"
Sole == \A c \in Clients : clean[c] => Busy(c) /\ \A x \in Clients \ {c} : ~Busy(x)
Stage(c) ==
    clean[c] /\ Of(c).h.name \in Setters =>
        /\ at[c] = "wait" =>
               \A r \in Executed(cmd[c]) : Reliable(r, Of(c).h, Of(c).args, next[c])
        /\ at[c] = "wait" /\ next[c] = "bypass" => "atu" \notin DOMAIN cmd[c]
        /\ at[c] = "go" => Reliable(radio, Of(c).h, Of(c).args, next[c])
AllHeld == \A i \in Items : asked[i] = <<>> \/ Holds(radio, i, asked[i])
Remembered ==
    /\ Sole
    /\ \A c \in Clients : Stage(c)
    /\ (\A c \in Clients : ~Busy(c)) => AllHeld

-----------------------------------------------------------------------------
(* Numbers.                                                                *)

LEMMA Rounded == \A n \in Int :
    /\ Round(n, 1000) \in Int /\ RoundEven(n, 10) \in Int
    /\ Near(Round(n, 1000) * 1000, n, 500)
    /\ Near(RoundEven(n, 10) * 10, n, 5)
<1>. SUFFICES ASSUME NEW n \in Int
              PROVE  /\ Round(n, 1000) \in Int /\ RoundEven(n, 10) \in Int
                     /\ Near(Round(n, 1000) * 1000, n, 500)
                     /\ Near(RoundEven(n, 10) * 10, n, 5)
  OBVIOUS
<1>1. 1000 \div 2 = 500 /\ 10 \div 2 = 5
  OBVIOUS
<1>2. Round(n, 1000) \in Int /\ Near(Round(n, 1000) * 1000, n, 500)
  BY <1>1 DEF Round, Near
<1>3. Round(n, 10) \in Int /\ Near(Round(n, 10) * 10, n, 5)
  BY <1>1 DEF Round, Near
<1>4. RoundEven(n, 10) \in Int /\ Near(RoundEven(n, 10) * 10, n, 5)
  <2>. DEFINE r == Round(n, 10)
  <2>1. RoundEven(n, 10) = IF 2 * n = 2 * r * 10 - 10 /\ r % 2 = 1 THEN r - 1 ELSE r
    BY DEF RoundEven
  <2>. HIDE DEF r
  <2>2. r \in Int /\ Near(r * 10, n, 5)
    BY <1>3 DEF r
  <2>3. CASE RoundEven(n, 10) = r
    BY <2>2, <2>3
  <2>4. CASE 2 * n = 2 * r * 10 - 10 /\ RoundEven(n, 10) = r - 1
    BY <2>2, <2>4 DEF Near
  <2>. QED
    BY <2>1, <2>3, <2>4
<1>. QED
  BY <1>2, <1>4

LEMMA StepsInt == \A w \in DOMAIN Number : Number[w] \in Int /\ Steps(w) \in Int
BY NumberAssumption, Rounded DEF Steps

LEMMA Eighths == \A n \in Int : n >= 0 => (8 * n) \div 8 = n
OBVIOUS

(* The mode of a name is told by what the radio calls it.                  *)
LEMMA ModesApart ==
    /\ DOMAIN Modes = {"AM", "AMS", "USB", "LSB", "CW", "PKTUSB", "PKTLSB", "FM", "PKTFM"}
    /\ \A m \in DOMAIN Modes : Modes[m].width \in Int /\ Modes[m].center \in Int
    /\ \A m \in DOMAIN Modes : FromFlex(Modes[m].flex) = {m}
<1>1. DOMAIN Modes = {"AM", "AMS", "USB", "LSB", "CW", "PKTUSB", "PKTLSB", "FM", "PKTFM"}
  BY DEF Modes
<1>2. \A m \in DOMAIN Modes : Modes[m].width \in Int /\ Modes[m].center \in Int
  BY <1>1 DEF Modes, Mode
<1>3. \A m, n \in DOMAIN Modes : Modes[m].flex = Modes[n].flex => m = n
  BY <1>1 DEF Modes, Mode
<1>4. \A m \in DOMAIN Modes : FromFlex(Modes[m].flex) = {m}
  BY <1>3 DEF FromFlex
<1>. QED
  BY <1>1, <1>2, <1>4

-----------------------------------------------------------------------------
(* What the radio may be after a command.                                  *)

LEMMA ExecutedKeys ==
    ASSUME NEW sets, NEW s \in Executed(sets), Keys \subseteq DOMAIN radio
    PROVE  /\ Keys \subseteq DOMAIN s
           /\ \A k \in Keys : k \in DOMAIN sets => s[k] = sets[k]
           /\ \A k \in Keys : k \notin DOMAIN sets /\ (k # "filter" \/ "mode" \notin DOMAIN sets)
                  => s[k] = radio[k]
<1>. DEFINE base == Over([filter |-> <<300, 3300>>], radio)
<1>1. /\ Keys \subseteq DOMAIN base
      /\ \A k \in Keys : k # "filter" => base[k] = radio[k]
  BY DEF Over
<1>. HIDE DEF base
<1>2. s = Over(sets, radio) \/ (s = Over(sets, base) /\ "mode" \in DOMAIN sets)
  BY DEF Executed, base
<1>3. CASE s = Over(sets, radio)
  BY <1>3 DEF Over
<1>4. CASE s = Over(sets, base) /\ "mode" \in DOMAIN sets
  <2>1. /\ Keys \subseteq DOMAIN s
        /\ \A k \in Keys : k \in DOMAIN sets => s[k] = sets[k]
        /\ \A k \in Keys : k \notin DOMAIN sets => s[k] = base[k]
    BY <1>1, <1>4 DEF Over
  <2>. QED
    BY <1>1, <1>4, <2>1
<1>. QED
  BY <1>2, <1>3, <1>4

(* The keys an item is read from, or a set of it may touch.                *)
KeysOf(i) ==
    CASE i = "freq" -> {"freq"}
      [] i = "rit" -> {"rit_on", "rit_freq"}
      [] i = "xit" -> {"xit_on", "xit_freq"}
      [] i = "mode" -> {"mode", "filter"}
      [] i = "ptt" -> {"xmit", "tx"}
      [] i = "AF" -> {"af"}
      [] i = "RFPOWER" -> {"rfpower"}
      [] i = "RF" -> {"agc_mode", "agc_threshold", "agc_off_level"}
      [] i \in {"PREAMP", "ATT"} -> {"rfgain"}
      [] i = "TUNER" -> {"tune", "atu"}

LEMMA KeysKnown == \A i \in Items : KeysOf(i) \subseteq Keys
BY DEF Items, KeysOf, Keys, InitialState

LEMMA HoldsStays ==
    ASSUME NEW i \in Items, NEW r, NEW s, NEW b, Holds(r, i, b), \A k \in KeysOf(i) : s[k] = r[k]
    PROVE  Holds(s, i, b)
<1>1. CASE i = "freq"
  BY <1>1 DEF Holds, KeysOf
<1>2. CASE i \in {"rit", "xit"}
  BY <1>2 DEF Holds, KeysOf, Shift
<1>3. CASE i = "mode"
  BY <1>3 DEF Holds, KeysOf, HoldsMode
<1>4. CASE i = "ptt"
  BY <1>4 DEF Holds, KeysOf
<1>5. CASE i \in {"AF", "RFPOWER"}
  BY <1>5 DEF Holds, KeysOf
<1>6. CASE i = "RF"
  BY <1>6 DEF Holds, KeysOf, AgcLevel
<1>7. CASE i \in {"PREAMP", "ATT"}
  BY <1>7 DEF Holds, KeysOf
<1>8. CASE i = "TUNER"
  BY <1>8 DEF Holds, KeysOf, HoldsTuner
<1>. QED
  BY <1>1, <1>2, <1>3, <1>4, <1>5, <1>6, <1>7, <1>8 DEF Items

LEMMA KeysApart ==
    \A i, j \in Items : i # j /\ ~Coupled(i, j) => KeysOf(i) \cap KeysOf(j) = {}
<1>1. \A i, j \in Items : i # j /\ i \in {"PREAMP", "ATT"} /\ j \in {"PREAMP", "ATT"} => Coupled(i, j)
  BY DEF Coupled
<1>. QED
  BY <1>1 DEF Items, KeysOf

(* A step of h's handler that touches its own item's keys only.            *)
LEMMA OthersStay ==
    ASSUME NEW h, NEW a, ItemOf(h) \in Items \ {"PREAMP", "ATT"}, Others(radio, h, a),
           NEW s, \A k \in Keys \ KeysOf(ItemOf(h)) : s[k] = radio[k]
    PROVE  Others(s, h, a)
<1>. SUFFICES ASSUME NEW i \in Items \ {ItemOf(h)}, asked[i] # <<>>
              PROVE  Holds(s, i, asked[i])
  BY DEF Others
<1>1. ~Coupled(i, ItemOf(h))
  BY DEF Coupled
<1>2. Holds(radio, i, asked[i])
  BY <1>1 DEF Others, Drops
<1>3. \A k \in KeysOf(i) : s[k] = radio[k]
  BY <1>1, KeysApart, KeysKnown
<1>. QED
  BY <1>2, <1>3, HoldsStays

-----------------------------------------------------------------------------
(* What a handler is called with.                                          *)

Fits(h, a) ==
    /\ h \in Handlers
    /\ h.name # "send_cmd" => Len(a) = Arity(h.name, h.required)
    /\ h.name = "set_level" /\ h.required \notin Direct => a[2] = h.required

LEMMA DispatchFits ==
    ASSUME NEW t, NEW S \in SUBSET Handlers, Represents(t, S),
           NEW l \in Lines, Dispatch(t, l).found = "handler"
    PROVE  Fits(Dispatch(t, l).h, Dispatch(t, l).args)
<1>. DEFINE q == Parts(l)
            w == Walk(t, q)
            args == IF w.h.allArgs THEN q ELSE w.rest
<1>1. l.words # <<>>
  <2>. SUFFICES ASSUME l.words = <<>> PROVE FALSE
    OBVIOUS
  <2>1. Dispatch(t, l).found \in {"panic", "silent"}
    BY DEF Dispatch, Panics
  <2>. QED
    BY <2>1
<1>2. q \in Seq(Parted) /\ q # <<>>
  BY <1>1, PartsOf
<1>3. w.found = "handler" /\ w.h \in Handlers /\ Reaches(w.h, q)
  <2>1. w.found # "nothing" /\ w.found # "panic"
    BY <1>1 DEF Dispatch, Panics
  <2>. HIDE DEF q
  <2>. QED
    BY <1>2, <2>1, WalkFinds DEF Nothing, Panics
<1>4. /\ ~(Len(args) < w.h.least \/ Len(args) > w.h.most)
      /\ Dispatch(t, l) = [found |-> "handler", h |-> w.h, args |-> args]
  <2>1. Dispatch(t, l).found \in {"error", "panic"} => FALSE
    OBVIOUS
  <2>. QED
    BY <1>1, <1>3, <2>1 DEF Dispatch, Panics
<1>5. Len(args) \in Nat
  <2>. HIDE DEF q
  <2>0. Len(q) \in Nat /\ Len(q) >= 1
    BY <1>2, EmptySeq
  <2>1. w.rest = Tail(q) \/ (w.rest = Tail(Tail(q)) /\ Len(q) # 1)
    <3>1. w # Nothing /\ w # Panics
      BY <1>3 DEF Nothing, Panics
    <3>. QED
      BY <3>1 DEF Walk, Reached
  <2>2. Tail(q) \in Seq(Parted) /\ Len(Tail(q)) = Len(q) - 1
    BY <1>2, HeadTailProperties
  <2>3. CASE w.h.allArgs
    BY <2>0, <2>3
  <2>4. CASE ~w.h.allArgs /\ w.rest = Tail(q)
    BY <2>0, <2>2, <2>4
  <2>5. CASE ~w.h.allArgs /\ w.rest = Tail(Tail(q)) /\ Len(q) # 1
    <3>0. Len(Tail(q)) \in Nat /\ Len(Tail(q)) # 0
      <4>. HIDE DEF w, args
      <4>. QED
        BY <2>0, <2>2, <2>5
    <3>1. Tail(q) # <<>>
      BY <2>2, <3>0, EmptySeq
    <3>2. Tail(Tail(q)) \in Seq(Parted)
      BY <2>2, <3>1, HeadTailProperties
    <3>3. Len(Tail(Tail(q))) \in Nat
      BY <3>2, LenProperties
    <3>. QED
      BY <2>5, <3>3
  <2>. QED
    BY <2>1, <2>3, <2>4, <2>5
<1>6. w.h.name # "send_cmd" => Len(args) = Arity(w.h.name, w.h.required)
  <2>. HIDE DEF q, w, args
  <2>1. ASSUME w.h.name # "send_cmd"
        PROVE  w.h.least = Arity(w.h.name, w.h.required) /\ w.h.most = w.h.least
    BY <1>3, <2>1, Known
  <2>2. Arity(w.h.name, w.h.required) \in Nat
    BY DEF Arity
  <2>. QED
    BY <1>4, <1>5, <2>1, <2>2
<1>7. w.h.name = "set_level" /\ w.h.required \notin Direct => args[2] = w.h.required
  <2>. SUFFICES ASSUME w.h.name = "set_level", w.h.required \notin Direct
                PROVE  args[2] = w.h.required
    OBVIOUS
  <2>. HIDE DEF q, w
  <2>1. w.h.allArgs = TRUE /\ w.h.required # None
    BY <1>3, KnownArgs, Apart DEF All, Wordy
  <2>. QED
    BY <1>3, <2>1 DEF Reaches
<1>. HIDE DEF q, w, args
<1>. QED
  BY <1>3, <1>4, <1>6, <1>7 DEF Fits

-----------------------------------------------------------------------------
(* What a handler that found the radio to itself leaves to be relied on.   *)

Like(s, f) ==
    \A k \in Keys :
        /\ k \in DOMAIN f => s[k] = f[k]
        /\ k \notin DOMAIN f /\ (k # "filter" \/ "mode" \notin DOMAIN f) => s[k] = radio[k]

Achieved(s, h, a) == Others(s, h, a) /\ (ItemOf(h) \in Items => Holds(s, ItemOf(h), a))
Outcome(r, h, a) ==
    /\ r.then # "reply" => \A s \in Executed(r.do) : Reliable(s, h, a, r.then)
    /\ r.then = "reply" /\ r.say = Success => Achieved(radio, h, a)

LEMMA ExecutedLike ==
    ASSUME Keys \subseteq DOMAIN radio, NEW f, NEW s \in Executed(f) PROVE Like(s, f)
BY ExecutedKeys DEF Like

LEMMA DoOutcome ==
    ASSUME NEW h, NEW a, NEW f, NEW then, then # "reply",
           Keys \subseteq DOMAIN radio, Others(radio, h, a),
           ItemOf(h) \in Items \ {"PREAMP", "ATT"}, DOMAIN f \subseteq KeysOf(ItemOf(h)),
           \A s : Like(s, f) => Own(s, h, a, then)
    PROVE  Outcome(Do(f, then), h, a)
<1>1. Do(f, then).then = then /\ Do(f, then).do = f
  BY DEF Do
<1>2. \A i \in Items : "mode" \in KeysOf(i) => "filter" \in KeysOf(i)
  BY DEF KeysOf, Items
<1>3. ASSUME NEW s \in Executed(f) PROVE Reliable(s, h, a, then)
  <2>1. Like(s, f)
    BY ExecutedLike
  <2>2. \A k \in Keys \ KeysOf(ItemOf(h)) : s[k] = radio[k]
    BY <1>2, <2>1 DEF Like
  <2>3. Others(s, h, a)
    BY <2>2, OthersStay
  <2>. QED
    BY <2>1, <2>3 DEF Reliable
<1>. QED
  BY <1>1, <1>3 DEF Outcome

LEMMA SetsOneOutcome ==
    ASSUME NEW h, NEW a, NEW key, NEW val,
           Keys \subseteq DOMAIN radio, Others(radio, h, a),
           ItemOf(h) \in Items \ {"PREAMP", "ATT"}, key \in KeysOf(ItemOf(h)), key # "mode",
           \A s : s[key] = val /\ (\A k \in Keys \ {key} : s[k] = radio[k])
                      => Holds(s, ItemOf(h), a)
    PROVE  Outcome(SetsOne(key, val), h, a)
<1>. DEFINE f == [k \in {key} |-> val]
<1>1. DOMAIN f \subseteq KeysOf(ItemOf(h))
  OBVIOUS
<1>2. ASSUME NEW s, Like(s, f) PROVE Own(s, h, a, "success")
  <2>1. s[key] = val /\ \A k \in Keys \ {key} : s[k] = radio[k]
    <3>1. key \in Keys
      BY KeysKnown
    <3>. QED
      BY <1>2, <3>1 DEF Like
  <2>2. Holds(s, ItemOf(h), a)
    BY <2>1
  <2>. QED
    BY <2>2 DEF Own
<1>3. Outcome(Do(f, "success"), h, a)
  <2>. HIDE DEF f
  <2>. QED
    BY <1>1, <1>2, DoOutcome
<1>. QED
  BY <1>3 DEF SetsOne

LEMMA FailsOutcome ==
    ASSUME NEW h, NEW a PROVE Outcome(Fails, h, a)
<1>1. Fails.then = "reply" /\ Fails.say = Error
  BY DEF Fails, FailsWith
<1>2. Error # Success
  BY DEF Error, Success, Rprt
<1>. QED
  BY <1>1, <1>2 DEF Outcome

LEMMA FromSliceOutcome ==
    ASSUME NEW r, NEW h, NEW a, Outcome(r, h, a) PROVE Outcome(FromSlice(r), h, a)
BY FailsOutcome DEF FromSlice

LEMMA SuccessOutcome ==
    ASSUME NEW h, NEW a, Achieved(radio, h, a) PROVE Outcome(Say(Success), h, a)
BY DEF Outcome, Say

-----------------------------------------------------------------------------
(* The items of the handlers.                                              *)

LEMMA Settable ==
    ASSUME NEW h \in Handlers
    PROVE  /\ h.name = "set_level" => h.required \in {"AF", "RFPOWER", "RF", "PREAMP", "ATT"}
           /\ h.name = "set_func" => h.required = "TUNER"
BY Listed, SMTT(60)
   DEF init_audio, init_dump_state, init_freq, init_metering, init_mode,
       init_powerstat, init_preamp_att, init_ptt, init_rawcmd, init_rfpower,
       init_tuner, init_vfo, Plain, Get, Set, GetAll, SetAll, H, Meters, None

LEMMA Itemised ==
    ASSUME NEW h \in Handlers
    PROVE  /\ h.name = "set_freq" => ItemOf(h) = "freq"
           /\ h.name = "set_rit" => ItemOf(h) = "rit"
           /\ h.name = "set_xit" => ItemOf(h) = "xit"
           /\ h.name = "set_mode" => ItemOf(h) = "mode"
           /\ h.name = "set_ptt" => ItemOf(h) = "ptt"
           /\ h.name = "set_level" => ItemOf(h) = h.required
           /\ h.name = "set_func" => ItemOf(h) = "TUNER"
           /\ h.name \in {"set_vfo", "set_split_vfo"} => ItemOf(h) = "none"
BY DEF ItemOf

LEMMA FreqOutcome ==
    ASSUME Seen, NEW h, NEW a, Fits(h, a), h.name = "set_freq", Others(radio, h, a)
    PROVE  Outcome(set_freq(a), h, a)
<1>1. ItemOf(h) = "freq" /\ Len(a) = 1
  BY Itemised DEF Fits, Arity
<1>2. CASE IsFloat(a[1])
  <2>. DEFINE n == Number[a[1]]
  <2>1. n \in Int /\ Wanted(a) = a[1]
    BY <1>1, <1>2, NumberAssumption DEF IsFloat, Wanted
  <2>2. ASSUME NEW s, s["freq"] = Round(n, 1000) PROVE Holds(s, "freq", a)
    BY <1>2, <2>1, <2>2, Rounded DEF Holds
  <2>3. "freq" \in Items \ {"PREAMP", "ATT"} /\ "freq" \in KeysOf("freq")
    BY DEF Items, KeysOf
  <2>. HIDE DEF n
  <2>4. Outcome(SetsOne("freq", Round(n, 1000)), h, a)
    BY <1>1, <2>2, <2>3, SetsOneOutcome DEF Seen
  <2>. QED
    BY <1>2, <2>4 DEF set_freq, n
<1>3. CASE ~IsFloat(a[1])
  BY <1>3, FailsOutcome DEF set_freq
<1>. QED
  BY <1>2, <1>3

LEMMA ShiftOutcome ==
    ASSUME Seen, NEW h, NEW a, Fits(h, a), Others(radio, h, a),
           NEW on, NEW freq,
           \/ h.name = "set_rit" /\ on = "rit_on" /\ freq = "rit_freq"
           \/ h.name = "set_xit" /\ on = "xit_on" /\ freq = "xit_freq"
    PROVE  Outcome(set_ritxit(on, freq, a), h, a)
<1>. DEFINE n == Int_(a[1])
            f == IF n = 0 THEN [k \in {on, freq} |-> 0]
                 ELSE [k \in {on, freq} |-> IF k = on THEN 1 ELSE n]
<1>1. /\ ItemOf(h) \in {"rit", "xit"} /\ Len(a) = 1 /\ on # freq
      /\ {on, freq} = KeysOf(ItemOf(h)) /\ on # "mode" /\ freq # "mode"
      /\ \A s : Holds(s, ItemOf(h), a) <=> IsFloat(a[1]) /\ Shift(s[on], s[freq]) = n
  <2>1. /\ ItemOf(h) = IF h.name = "set_rit" THEN "rit" ELSE "xit"
        /\ Len(a) = 1
    BY Itemised DEF Fits, Arity
  <2>2. Wanted(a) = a[1]
    BY <2>1 DEF Wanted
  <2>. QED
    BY <2>1, <2>2 DEF Holds, KeysOf
<1>2. CASE IsInt(a[1])
  <2>1. set_ritxit(on, freq, a) = Do(f, "success")
    BY <1>2 DEF set_ritxit
  <2>2. /\ DOMAIN f = {on, freq}
        /\ f[on] = IF n = 0 THEN 0 ELSE 1
        /\ f[freq] = n
    BY <1>1
  <2>. HIDE DEF f
  <2>3. ASSUME NEW s, Like(s, f) PROVE Own(s, h, a, "success")
    <3>1. s[on] = f[on] /\ s[freq] = f[freq]
      BY <1>1, <2>2, <2>3, KeysKnown DEF Like, Items
    <3>2. Shift(s[on], s[freq]) = n
      <4>. HIDE DEF n
      <4>. QED
        BY <2>2, <3>1 DEF Shift
    <3>3. Holds(s, ItemOf(h), a)
      BY <1>1, <1>2, <3>2, WholeAssumption DEF IsInt, IsFloat
    <3>. QED
      BY <1>1, <3>3 DEF Own, Items
  <2>4. ItemOf(h) \in Items \ {"PREAMP", "ATT"} /\ DOMAIN f \subseteq KeysOf(ItemOf(h))
    BY <1>1, <2>2 DEF Items
  <2>5. Outcome(Do(f, "success"), h, a)
    BY <2>3, <2>4, DoOutcome DEF Seen
  <2>. QED
    BY <2>1, <2>5
<1>3. CASE ~IsInt(a[1])
  BY <1>3, FailsOutcome DEF set_ritxit
<1>. QED
  BY <1>2, <1>3

LEMMA ModeOutcome ==
    ASSUME Seen, NEW h, NEW a, Fits(h, a), h.name = "set_mode", Others(radio, h, a),
           NEW here, here = "start" \/ (here = "filter" /\ Own(radio, h, a, here))
    PROVE  /\ Outcome(set_mode(a, here), h, a)
           /\ here = "filter" /\ set_mode(a, here).then = "reply" => set_mode(a, here) = Say(Success)
<1>1. ItemOf(h) = "mode" /\ Len(a) = 2 /\ Wanted(a) = a[2]
  BY Itemised DEF Fits, Arity, Wanted
<1>2. "mode" \in Items \ {"PREAMP", "ATT"} /\ KeysOf("mode") = {"mode", "filter"}
  BY DEF Items, KeysOf
<1>3. here = "filter" => /\ a[1] \in DOMAIN Modes /\ IsInt(a[2])
                         /\ radio["mode"] = Modes[a[1]].flex
  BY DEF Own
<1>4. CASE a[1] \notin DOMAIN Modes \/ ~IsInt(a[2])
  BY <1>3, <1>4, FailsOutcome DEF set_mode
<1>5. CASE a[1] \in DOMAIN Modes /\ IsInt(a[2]) /\ here = "start"
  <2>. DEFINE f == [mode |-> Modes[a[1]].flex]
  <2>1. set_mode(a, here) = Do(f, "filter")
    BY <1>5 DEF set_mode
  <2>2. DOMAIN f = {"mode"} /\ f["mode"] = Modes[a[1]].flex
    OBVIOUS
  <2>. HIDE DEF f
  <2>3. ASSUME NEW s, Like(s, f) PROVE Own(s, h, a, "filter")
    <3>1. s["mode"] = Modes[a[1]].flex
      BY <1>2, <2>2, <2>3, KeysKnown DEF Like
    <3>. QED
      BY <1>5, <3>1 DEF Own
  <2>4. Outcome(Do(f, "filter"), h, a)
    BY <1>1, <1>2, <2>2, <2>3, DoOutcome DEF Seen
  <2>. QED
    BY <1>5, <2>1, <2>4
<1>6. CASE here = "filter"
  <2>. DEFINE mode == Modes[a[1]]
              w == Width(a)
              pass == <<mode.center - w \div 2, mode.center + w \div 2>>
  <2>1. set_mode(a, here) = IF w = 0 THEN Say(Success) ELSE SetsOne("filter", pass)
    BY <1>3, <1>6 DEF set_mode, Width
  <2>2. w \in Int /\ mode.center \in Int
    <3>1. Int_(a[2]) \in Int
      BY <1>3, <1>6, NumberAssumption, WholeAssumption DEF IsInt, IsFloat, Int_
    <3>. QED
      BY <1>3, <1>6, <3>1, ModesApart DEF Width
  <2>3. CASE w = 0
    <3>1. Holds(radio, "mode", a)
      BY <1>1, <1>3, <1>6, <2>3 DEF Holds, HoldsMode
    <3>2. Achieved(radio, h, a)
      BY <1>1, <3>1 DEF Achieved
    <3>. QED
      BY <2>1, <2>3, <3>2, SuccessOutcome
  <2>4. CASE w # 0
    <3>1. pass[2] - pass[1] = w - (w % 2)
      <4>1. (mode.center + w \div 2) - (mode.center - w \div 2) = 2 * (w \div 2)
        BY <2>2
      <4>2. 2 * (w \div 2) = w - (w % 2)
        <5>. HIDE DEF w
        <5>. QED
          BY <2>2
      <4>. QED
        BY <4>1, <4>2
    <3>. HIDE DEF pass
    <3>2. ASSUME NEW s, s["filter"] = pass, \A k \in Keys \ {"filter"} : s[k] = radio[k]
          PROVE  Holds(s, "mode", a)
      <4>1. s["mode"] = radio["mode"]
        BY <1>2, <3>2, KeysKnown
      <4>2. HoldsMode(s, a)
        BY <1>3, <1>6, <3>1, <3>2, <4>1 DEF HoldsMode
      <4>. QED
        BY <1>1, <4>2 DEF Holds
    <3>3. Outcome(SetsOne("filter", pass), h, a)
      BY <1>1, <1>2, <3>2, SetsOneOutcome DEF Seen
    <3>4. SetsOne("filter", pass).then # "reply"
      BY DEF SetsOne, Do
    <3>. QED
      BY <2>1, <2>4, <3>3, <3>4
  <2>. QED
    BY <2>3, <2>4
<1>. QED
  BY <1>3, <1>4, <1>5, <1>6

LEMMA PttOutcome ==
    ASSUME Seen, NEW h, NEW a, Fits(h, a), h.name = "set_ptt", Others(radio, h, a),
           NEW here, here = "start" \/ (here = "xmit" /\ Own(radio, h, a, here))
    PROVE  /\ Outcome(set_ptt(a, here), h, a)
           /\ here = "xmit" => set_ptt(a, here).then # "reply"
<1>1. ItemOf(h) = "ptt"
  BY Itemised DEF Fits
<1>2. "ptt" \in Items \ {"PREAMP", "ATT"} /\ KeysOf("ptt") = {"xmit", "tx"}
  BY DEF Items, KeysOf
<1>3. Outcome(SetsOne("xmit", IF a[1] = "0" THEN 0 ELSE 1), h, a)
  <2>. DEFINE v == IF a[1] = "0" THEN 0 ELSE 1
  <2>1. ASSUME NEW s, s["xmit"] = v PROVE Holds(s, "ptt", a)
    BY <2>1 DEF Holds
  <2>. HIDE DEF v
  <2>2. Outcome(SetsOne("xmit", v), h, a)
    BY <1>1, <1>2, <2>1, SetsOneOutcome DEF Seen
  <2>. QED
    BY <2>2 DEF v
<1>4. a[1] # "0" => Outcome(Do([tx |-> 1], "xmit"), h, a)
  <2>. SUFFICES ASSUME a[1] # "0" PROVE Outcome(Do([tx |-> 1], "xmit"), h, a)
    OBVIOUS
  <2>. DEFINE f == [tx |-> 1]
  <2>1. DOMAIN f \subseteq KeysOf("ptt")
    BY <1>2
  <2>2. ASSUME NEW s PROVE Own(s, h, a, "xmit")
    BY DEF Own
  <2>. HIDE DEF f
  <2>3. Outcome(Do(f, "xmit"), h, a)
    BY <1>1, <1>2, <2>1, <2>2, DoOutcome DEF Seen
  <2>. QED
    BY <2>3 DEF f
<1>5. here = "xmit" => a[1] # "0"
  BY DEF Own
<1>6. SetsOne("xmit", 1).then # "reply"
  BY DEF SetsOne, Do
<1>7. CASE a[1] = "0"
  BY <1>3, <1>5, <1>7 DEF set_ptt
<1>8. CASE a[1] # "0" /\ here = "xmit"
  BY <1>3, <1>6, <1>8 DEF set_ptt
<1>9. CASE a[1] # "0" /\ here = "start"
  <2>1. set_ptt(a, here) = FromSlice(IF cache["tx"] = 1 THEN SetsOne("xmit", 1)
                                      ELSE Do([tx |-> 1], "xmit"))
    BY <1>9 DEF set_ptt
  <2>. QED
    BY <1>3, <1>4, <1>9, <2>1, FromSliceOutcome
<1>. QED
  BY <1>7, <1>8, <1>9

LEMMA PercentOutcome ==
    ASSUME Seen, cache = radio, NEW h, NEW a, Fits(h, a), Others(radio, h, a),
           h.name = "set_level", h.required \in Direct, NEW key,
           key = CASE h.required = "AF" -> "af" [] h.required = "RFPOWER" -> "rfpower"
                   [] h.required = "RF" -> AgcKey
    PROVE  Outcome(set_percent(key, a), h, a)
<1>. DEFINE i == h.required
<1>1. /\ ItemOf(h) = i /\ Len(a) = 1 /\ Wanted(a) = a[1]
      /\ i \in {"AF", "RFPOWER", "RF"}
  BY Itemised DEF Fits, Arity, Wanted, Direct
<1>2. i \in Items \ {"PREAMP", "ATT"} /\ key \in KeysOf(i) /\ key # "mode"
  BY <1>1 DEF Items, KeysOf, AgcKey
<1>3. i = "RF" => /\ key = IF radio["agc_mode"] = "off" THEN "agc_off_level" ELSE "agc_threshold"
                  /\ "agc_mode" \in Keys
  BY KeysKnown DEF AgcKey, KeysOf, Items
<1>4. CASE IsFloat(a[1])
  <2>. DEFINE p == Percent(a[1])
  <2>1. Near(p * 10, Number[a[1]], 5)
    BY <1>4, NumberAssumption, Rounded DEF Percent, IsFloat
  <2>. HIDE DEF p
  <2>2. ASSUME NEW s, s[key] = p, \A k \in Keys \ {key} : s[k] = radio[k]
        PROVE  Holds(s, i, a)
    <3>1. CASE i = "AF"
      BY <1>1, <1>4, <2>1, <2>2, <3>1 DEF Holds
    <3>2. CASE i = "RFPOWER"
      BY <1>1, <1>4, <2>1, <2>2, <3>2 DEF Holds
    <3>3. CASE i = "RF"
      <4>1. s["agc_mode"] = radio["agc_mode"]
        BY <1>3, <2>2, <3>3
      <4>2. AgcLevel(s) = p
        BY <1>3, <2>2, <3>3, <4>1 DEF AgcLevel
      <4>. QED
        BY <1>1, <1>4, <2>1, <3>3, <4>2 DEF Holds
    <3>. QED
      BY <1>1, <3>1, <3>2, <3>3
  <2>3. Outcome(SetsOne(key, p), h, a)
    <3>. HIDE DEF i
    <3>. QED
      BY <1>1, <1>2, <2>2, SetsOneOutcome DEF Seen
  <2>. QED
    BY <1>4, <2>3 DEF set_percent, p
<1>5. CASE ~IsFloat(a[1])
  BY <1>5, FailsOutcome DEF set_percent
<1>. QED
  BY <1>4, <1>5

(* PREAMP and ATT: one gain. The one that is set leaves what the other is  *)
(* read as, or makes it forgotten.                                         *)
LEMMA GainOutcome ==
    ASSUME Seen, cache = radio, NEW h, NEW a, Fits(h, a), AllHeld,
           h.name = "set_level", h.required \in {"PREAMP", "ATT"}
    PROVE  Outcome(set_level_preamp_att(a), h, a)
<1>. DEFINE i == h.required
            j == IF i = "PREAMP" THEN "ATT" ELSE "PREAMP"
            w == a[3]
            level == 8 * Steps(w)
            gain == radio["rfgain"]
            unneeded == level = 0 /\ IF i = "ATT" THEN gain >= 0 ELSE gain <= 0
<1>1. /\ ItemOf(h) = i /\ Len(a) = 3 /\ Wanted(a) = w /\ a[2] = i
      /\ i \in {"PREAMP", "ATT"}
  BY Itemised DEF Fits, Arity, Wanted, Direct
<1>2. gain \in Int /\ "rfgain" \in Keys /\ {"PREAMP", "ATT"} \subseteq Items
  BY KeysKnown DEF Seen, Items, KeysOf
<1>3. CASE ~IsFloat(w)
  BY <1>3, FailsOutcome DEF set_level_preamp_att
<1>4. CASE IsFloat(w)
  <2>1. /\ Steps(w) \in Int
        /\ set_level_preamp_att(a)
             = FromSlice(IF unneeded THEN Say(Success) ELSE SetsGain(i, level))
    BY <1>1, <1>4, StepsInt DEF set_level_preamp_att, Steps, IsFloat
  <2>. HIDE DEF i
  <2>2. ASSUME unneeded PROVE Outcome(Say(Success), h, a)
    <3>1. Holds(radio, i, a)
      <4>1. Steps(w) = 0
        BY <2>1, <2>2
      <4>2. CASE i = "ATT"
        <5>1. Att(gain) = 0
          BY <1>2, <2>2, <4>2 DEF Att
        <5>. QED
          BY <1>1, <1>4, <4>1, <4>2, <5>1 DEF Holds
      <4>3. CASE i = "PREAMP"
        <5>1. 0 \div 8 = 0
          OBVIOUS
        <5>2. gain <= 0
          BY <2>2, <4>3
        <5>3. Preamp(gain) = 0
          BY <1>2, <5>1, <5>2 DEF Preamp
        <5>. QED
          BY <1>1, <1>4, <4>1, <4>3, <5>3 DEF Holds
      <4>. QED
        BY <1>1, <4>2, <4>3
    <3>2. Others(radio, h, a)
      BY DEF Others, AllHeld
    <3>. QED
      BY <1>1, <3>1, <3>2, SuccessOutcome DEF Achieved
  <2>3. ASSUME ~unneeded, NEW new \in Int,
               \/ i = "ATT" /\ new = IF level = 0 THEN 0 ELSE -8
               \/ i = "PREAMP" /\ level >= 0 /\ new = level
        PROVE  Outcome(SetsOne("rfgain", new), h, a)
    <3>. DEFINE f == [k \in {"rfgain"} |-> new]
    <3>1. ASSUME NEW s \in Executed(f) PROVE Reliable(s, h, a, "success")
      <4>1. s["rfgain"] = new /\ \A k \in Keys \ {"rfgain"} : s[k] = radio[k]
        BY <1>2, <3>1, ExecutedLike DEF Like, Seen
      <4>. HIDE DEF f
      <4>2. Holds(s, i, a)
        <5>1. CASE i = "ATT"
          BY <1>1, <1>4, <2>1, <2>3, <4>1, <5>1 DEF Holds, Att
        <5>2. CASE i = "PREAMP"
          <6>1. Preamp(new) = Steps(w)
            BY <2>1, <2>3, <5>2, Eighths DEF Preamp
          <6>. QED
            BY <1>1, <1>4, <4>1, <5>2, <6>1 DEF Holds
        <5>. QED
          BY <1>1, <5>1, <5>2
      <4>3. ASSUME asked[j] # <<>>, ~Drops(h, a, j) PROVE Holds(s, j, asked[j])
        <5>. DEFINE v == Wanted(asked[j])
        <5>1. Holds(radio, j, asked[j])
          BY <1>1, <1>2, <4>3 DEF AllHeld
        <5>2. IsFloat(v) /\ Steps(v) \in Int
          BY <5>1, StepsInt DEF Holds, IsFloat
        <5>3. Steps(w) = 0 \/ Steps(v) = 0
          BY <1>1, <4>3 DEF Drops, Coupled
        <5>. HIDE DEF v
        <5>4. CASE i = "ATT"
          <6>1. Preamp(gain) = Steps(v)
            BY <5>1, <5>4 DEF Holds, v
          <6>2. Preamp(new) = Steps(v)
            BY <1>2, <2>1, <2>3, <5>2, <5>3, <5>4, <6>1 DEF Preamp
          <6>. QED
            BY <4>1, <5>2, <5>4, <6>2 DEF Holds, v
        <5>5. CASE i = "PREAMP"
          <6>1. Att(gain) = IF Steps(v) = 0 THEN 0 ELSE 1
            BY <5>1, <5>5 DEF Holds, v
          <6>2. Att(new) = IF Steps(v) = 0 THEN 0 ELSE 1
            BY <1>2, <2>1, <2>3, <5>2, <5>3, <5>5, <6>1 DEF Att
          <6>. QED
            BY <4>1, <5>2, <5>5, <6>2 DEF Holds, v
        <5>. QED
          BY <1>1, <5>4, <5>5
      <4>4. ASSUME NEW n \in Items \ {"PREAMP", "ATT"}, asked[n] # <<>>
            PROVE  Holds(s, n, asked[n])
        <5>1. KeysOf(n) \subseteq Keys \ {"rfgain"}
          BY KeysKnown DEF KeysOf, Items
        <5>2. Holds(radio, n, asked[n])
          BY <4>4 DEF AllHeld
        <5>. QED
          BY <4>1, <5>1, <5>2, HoldsStays
      <4>5. Others(s, h, a)
        BY <1>1, <4>3, <4>4 DEF Others
      <4>. QED
        BY <1>1, <1>2, <4>2, <4>5 DEF Reliable, Own
    <3>. HIDE DEF f
    <3>2. SetsOne("rfgain", new).then = "success" /\ SetsOne("rfgain", new).do = f
      BY DEF SetsOne, Do, f
    <3>. QED
      BY <3>1, <3>2 DEF Outcome
  <2>4. ASSUME ~unneeded PROVE Outcome(SetsGain(i, level), h, a)
    <3>1. CASE i = "ATT"
      <4>1. (IF level = 0 THEN 0 ELSE -8) \in Int
        OBVIOUS
      <4>2. Outcome(SetsOne("rfgain", IF level = 0 THEN 0 ELSE -8), h, a)
        BY <2>3, <2>4, <3>1, <4>1
      <4>. QED
        BY <3>1, <4>2 DEF SetsGain
    <3>2. CASE i = "PREAMP" /\ level >= 0
      <4>1. level \in Int
        BY <2>1
      <4>2. Outcome(SetsOne("rfgain", level), h, a)
        BY <2>3, <2>4, <3>2, <4>1
      <4>. QED
        BY <3>2, <4>2, FailsOutcome DEF SetsGain
    <3>3. CASE i = "PREAMP" /\ ~(level >= 0)
      <4>1. level < 0
        BY <2>1, <3>3
      <4>. QED
        BY <3>3, <4>1, FailsOutcome DEF SetsGain
    <3>. QED
      BY <1>1, <3>1, <3>2, <3>3
  <2>. HIDE DEF unneeded, level
  <2>. QED
    BY <2>1, <2>2, <2>4, FromSliceOutcome
<1>. QED
  BY <1>3, <1>4

LEMMA TunerOutcome ==
    ASSUME Seen, NEW h, NEW a, Fits(h, a), h.name = "set_func", Others(radio, h, a),
           NEW here, \/ here = "start" /\ cache = radio
                     \/ here \in {"bypass", "tune"} /\ Own(radio, h, a, here)
    PROVE  /\ Outcome(set_func_tuner(a, here), h, a)
           /\ here # "start" /\ set_func_tuner(a, here).then = "reply"
                  => set_func_tuner(a, here) = Say(Success)
<1>1. ItemOf(h) = "TUNER" /\ "TUNER" \in Items \ {"PREAMP", "ATT"}
      /\ KeysOf("TUNER") = {"tune", "atu"} /\ "tune" \in Keys /\ "atu" \in Keys
  BY Itemised, KeysKnown DEF Fits, Items, KeysOf
<1>2. here \in {"bypass", "tune"} =>
          /\ here = "bypass" => /\ a[1] = "0" /\ radio["tune"] = 0
                                /\ cache["atu"] = "BYPASS" => radio["atu"] = "BYPASS"
          /\ here = "tune" => a[1] = "1"
  BY DEF Own
<1>3. \A s : Holds(s, "TUNER", a) <=> HoldsTuner(s, a)
  BY DEF Holds
<1>4. \A key, val : SetsOne(key, val).then # "reply"
  BY DEF SetsOne, Do
<1>5. CASE a[1] = "0" /\ here = "start" /\ cache["tune"] # 0
  <2>. DEFINE f == [tune |-> 0]
  <2>1. set_func_tuner(a, here) = Do(f, "bypass")
    BY <1>5 DEF set_func_tuner
  <2>2. DOMAIN f = {"tune"} /\ f["tune"] = 0
    OBVIOUS
  <2>. HIDE DEF f
  <2>3. ASSUME NEW s, Like(s, f) PROVE Own(s, h, a, "bypass")
    <3>1. s["tune"] = 0 /\ s["atu"] = radio["atu"]
      BY <1>1, <2>2, <2>3 DEF Like
    <3>. QED
      BY <1>5, <3>1 DEF Own
  <2>4. Outcome(Do(f, "bypass"), h, a)
    BY <1>1, <2>2, <2>3, DoOutcome DEF Seen
  <2>. QED
    BY <1>5, <2>1, <2>4
<1>6. CASE a[1] = "0" /\ ~(here = "start" /\ cache["tune"] # 0)
  <2>1. radio["tune"] = 0
    BY <1>2, <1>6
  <2>2. set_func_tuner(a, here) = IF Bypassed THEN Say(Success) ELSE SetsOne("atu", "BYPASS")
    BY <1>6 DEF set_func_tuner
  <2>3. ASSUME Bypassed PROVE Outcome(Say(Success), h, a)
    <3>1. radio["atu"] = "BYPASS"
      BY <1>2, <1>6, <2>3 DEF Bypassed
    <3>2. Holds(radio, "TUNER", a)
      BY <1>3, <1>6, <2>1, <3>1 DEF HoldsTuner
    <3>. QED
      BY <1>1, <3>2, SuccessOutcome DEF Achieved
  <2>4. Outcome(SetsOne("atu", "BYPASS"), h, a)
    <3>1. ASSUME NEW s, s["atu"] = "BYPASS", \A k \in Keys \ {"atu"} : s[k] = radio[k]
          PROVE  Holds(s, "TUNER", a)
      <4>1. s["tune"] = 0
        BY <1>1, <2>1, <3>1
      <4>. QED
        BY <1>3, <1>6, <3>1, <4>1 DEF HoldsTuner
    <3>. QED
      BY <1>1, <3>1, SetsOneOutcome DEF Seen
  <2>. QED
    BY <1>4, <2>2, <2>3, <2>4
<1>7. CASE a[1] = "1" /\ here = "start" /\ ~Bypassed
  <2>. DEFINE f == [atu |-> "BYPASS"]
  <2>1. set_func_tuner(a, here) = Do(f, "tune")
    BY <1>7 DEF set_func_tuner
  <2>2. DOMAIN f = {"atu"}
    OBVIOUS
  <2>. HIDE DEF f
  <2>3. ASSUME NEW s PROVE Own(s, h, a, "tune")
    BY <1>7 DEF Own
  <2>4. Outcome(Do(f, "tune"), h, a)
    BY <1>1, <2>2, <2>3, DoOutcome DEF Seen
  <2>. QED
    BY <1>7, <2>1, <2>4
<1>8. CASE a[1] = "1" /\ ~(here = "start" /\ ~Bypassed)
  <2>1. set_func_tuner(a, here) = SetsOne("atu", "IN_PROGRESS")
    BY <1>8 DEF set_func_tuner
  <2>2. ASSUME NEW s, s["atu"] = "IN_PROGRESS" PROVE Holds(s, "TUNER", a)
    BY <1>3, <1>8, <2>2 DEF HoldsTuner
  <2>3. Outcome(SetsOne("atu", "IN_PROGRESS"), h, a)
    BY <1>1, <2>2, SetsOneOutcome DEF Seen
  <2>. QED
    BY <1>4, <2>1, <2>3
<1>9. CASE a[1] = "2"
  <2>1. set_func_tuner(a, here) = SetsOne("tune", 1)
    BY <1>9 DEF set_func_tuner
  <2>2. ASSUME NEW s, s["tune"] = 1 PROVE Holds(s, "TUNER", a)
    BY <1>3, <1>9, <2>2 DEF HoldsTuner
  <2>3. Outcome(SetsOne("tune", 1), h, a)
    BY <1>1, <2>2, SetsOneOutcome DEF Seen
  <2>. QED
    BY <1>4, <2>1, <2>3
<1>10. CASE a[1] \notin {"0", "1", "2"}
  <2>1. set_func_tuner(a, here) = Fails
    BY <1>10 DEF set_func_tuner
  <2>2. here = "start"
    BY <1>2, <1>10
  <2>. QED
    BY <2>1, <2>2, FailsOutcome
<1>. QED
  BY <1>5, <1>6, <1>7, <1>8, <1>9, <1>10

(* A handler that begins while the radio is known and left alone.          *)
LEMMA StartOutcome ==
    ASSUME Seen, cache = radio, AllHeld, NEW c, NEW h, NEW a, Fits(h, a), h.name \in Setters
    PROVE  Outcome(Handle(c, h, a, "start"), h, a)
<1>. DEFINE r == Handle(c, h, a, "start")
<1>1. Others(radio, h, a) /\ h \in Handlers
  BY DEF Others, AllHeld, Fits
<1>2. r = Set_(h, a, "start") /\ h.name # "send_cmd"
  BY DEF Handle, Setters
<1>. HIDE DEF r
<1>3. CASE h.name = "set_freq"
  BY <1>1, <1>2, <1>3, FreqOutcome DEF Set_, r
<1>4. CASE h.name \in {"set_rit", "set_xit"}
  BY <1>1, <1>2, <1>4, ShiftOutcome DEF Set_, r
<1>5. CASE h.name = "set_mode"
  BY <1>1, <1>2, <1>5, ModeOutcome DEF Set_, r
<1>6. CASE h.name = "set_ptt"
  BY <1>1, <1>2, <1>6, PttOutcome DEF Set_, r
<1>7. CASE h.name = "set_func"
  BY <1>1, <1>2, <1>7, TunerOutcome DEF Set_, r
<1>8. CASE h.name = "set_level" /\ h.required \in Direct
  <2>. DEFINE key == CASE h.required = "AF" -> "af" [] h.required = "RFPOWER" -> "rfpower"
                       [] h.required = "RF" -> AgcKey
  <2>1. Outcome(set_percent(key, a), h, a)
    BY <1>1, <1>8, PercentOutcome
  <2>2. r = set_percent(key, a) \/ r = FromSlice(set_percent(key, a))
    BY <1>2, <1>8 DEF Set_, Direct, set_level_rf
  <2>. QED
    BY <2>1, <2>2, FromSliceOutcome DEF r
<1>9. CASE h.name = "set_level" /\ h.required \notin Direct
  <2>1. h.required \in {"PREAMP", "ATT"}
    BY <1>1, <1>9, Settable DEF Direct
  <2>2. r = set_level_preamp_att(a)
    BY <1>2, <2>1, <1>9 DEF Set_
  <2>. QED
    BY <1>9, <2>1, <2>2, GainOutcome DEF r
<1>10. CASE h.name \in {"set_vfo", "set_split_vfo"}
  <2>1. ItemOf(h) = "none" /\ "none" \notin Items
    BY <1>1, <1>10, Itemised DEF Items
  <2>2. Achieved(radio, h, a)
    BY <1>1, <2>1 DEF Achieved
  <2>3. r.then = "reply"
    BY <1>2, <1>10 DEF Set_, set_vfo, set_split_vfo, Say, Fails, FailsWith
  <2>. QED
    BY <2>2, <2>3 DEF Outcome, r
<1>. QED
  BY <1>3, <1>4, <1>5, <1>6, <1>7, <1>8, <1>9, <1>10 DEF Setters, r

(* A handler that goes on with what it relied on: it does not fail now.    *)
LEMMA LaterOutcome ==
    ASSUME Seen, NEW c, NEW h, NEW a, Fits(h, a), h.name \in Setters, NEW here,
           Reliable(radio, h, a, here)
    PROVE  /\ Outcome(Handle(c, h, a, here), h, a)
           /\ Handle(c, h, a, here).then = "reply" => Handle(c, h, a, here) = Say(Success)
<1>. DEFINE r == Handle(c, h, a, here)
<1>1. Others(radio, h, a) /\ Own(radio, h, a, here) /\ h.name # "send_cmd"
  BY DEF Reliable, Setters
<1>2. CASE here = "success"
  <2>1. Achieved(radio, h, a)
    BY <1>1, <1>2 DEF Own, Achieved
  <2>2. r = Say(Success)
    BY <1>2 DEF Handle
  <2>. QED
    BY <2>1, <2>2, SuccessOutcome
<1>3. CASE here # "success"
  <2>1. r = Set_(h, a, here)
    BY <1>1, <1>3 DEF Handle
  <2>2. \/ here = "filter" /\ h.name = "set_mode"
        \/ here = "xmit" /\ h.name = "set_ptt"
        \/ here \in {"bypass", "tune"} /\ h.name = "set_func"
    BY <1>1, <1>3 DEF Own
  <2>. HIDE DEF r
  <2>3. CASE here = "filter" /\ h.name = "set_mode"
    <3>1. r = set_mode(a, here)
      BY <2>1, <2>3 DEF Set_
    <3>. QED
      BY <1>1, <2>3, <3>1, ModeOutcome DEF r
  <2>4. CASE here = "xmit" /\ h.name = "set_ptt"
    <3>1. r = set_ptt(a, here)
      BY <2>1, <2>4 DEF Set_
    <3>. QED
      BY <1>1, <2>4, <3>1, PttOutcome DEF r
  <2>5. CASE here \in {"bypass", "tune"} /\ h.name = "set_func"
    <3>1. r = set_func_tuner(a, here)
      BY <2>1, <2>5 DEF Set_
    <3>. QED
      BY <1>1, <2>5, <3>1, TunerOutcome DEF r
  <2>. QED
    BY <2>2, <2>3, <2>4, <2>5
<1>. QED
  BY <1>2, <1>3

-----------------------------------------------------------------------------
(* What any handler sends.                                                 *)

Sober(r, h) ==
    r.then # "reply" =>
        /\ h.name \in Setters \cup {"send_cmd"}
        /\ h.name = "send_cmd" => r.then # "success"
        /\ "rfgain" \in DOMAIN r.do => r.do["rfgain"] \in Int
        /\ r.then = "bypass" => "atu" \notin DOMAIN r.do

LEMMA HandleSober == \A c, h, a, here : Sober(Handle(c, h, a, here), h)
<1>. SUFFICES ASSUME NEW c, NEW h, NEW a, NEW here PROVE Sober(Handle(c, h, a, here), h)
  OBVIOUS
<1>1. \A lines : Sober(Say(lines), h) /\ Sober(FailsWith(lines), h)
  BY DEF Sober, Say, FailsWith
<1>2. \A r : Sober(r, h) => Sober(FromSlice(r), h)
  BY <1>1 DEF FromSlice, Fails
<1>3. Sober(Get_(c, h, a), h)
  <2>1. /\ Sober(get_freq, h) /\ Sober(get_mode, h) /\ Sober(get_ptt, h)
        /\ Sober(get_level_preamp_att(a), h) /\ Sober(get_func_tuner, h)
        /\ Sober(dump_state(c), h)
    BY <1>1, <1>2
       DEF get_freq, get_mode, get_ptt, get_level_preamp_att, get_func_tuner, dump_state,
           Value, Fails
  <2>2. \A on, freq : Sober(get_ritxit(on, freq), h)
    BY <1>1, <1>2 DEF get_ritxit, Value
  <2>3. \A key : Sober(get_percent(key), h) /\ Sober(FromSlice(get_percent(key)), h)
    BY <1>1, <1>2 DEF get_percent, Value
  <2>4. Sober(get_level_rf, h)
    BY <2>3 DEF get_level_rf
  <2>5. \A v : Sober(Value(v), h)
    BY <1>1 DEF Value
  <2>. QED
    BY <1>1, <2>1, <2>2, <2>3, <2>4, <2>5 DEF Get_
<1>4. h.name \in Setters => Sober(Set_(h, a, here), h)
  <2>. SUFFICES ASSUME h.name \in Setters PROVE Sober(Set_(h, a, here), h)
    OBVIOUS
  <2>0. h.name # "send_cmd"
    BY DEF Setters
  <2>1. \A f, then : "rfgain" \notin DOMAIN f /\ "atu" \notin DOMAIN f => Sober(Do(f, then), h)
    BY <2>0 DEF Sober, Do
  <2>2. \A key, val : key # "rfgain" \/ val \in Int => Sober(SetsOne(key, val), h)
    BY <2>0 DEF Sober, SetsOne, Do
  <2>3. Sober(Fails, h)
    BY <1>1 DEF Fails
  <2>4. Sober(set_freq(a), h)
    BY <2>2, <2>3 DEF set_freq
  <2>5. Sober(set_ritxit("rit_on", "rit_freq", a), h) /\ Sober(set_ritxit("xit_on", "xit_freq", a), h)
    BY <2>1, <2>3 DEF set_ritxit
  <2>6. Sober(set_mode(a, here), h)
    BY <1>1, <2>1, <2>2, <2>3 DEF set_mode
  <2>7. Sober(set_ptt(a, here), h)
    BY <1>2, <2>1, <2>2 DEF set_ptt
  <2>8. \A key : key # "rfgain" =>
            Sober(set_percent(key, a), h) /\ Sober(FromSlice(set_percent(key, a)), h)
    BY <1>2, <2>2, <2>3 DEF set_percent
  <2>9. Sober(set_level_rf(a), h)
    BY <2>8 DEF set_level_rf, AgcKey
  <2>10. Sober(set_level_preamp_att(a), h)
    <3>1. \A l, g : g \in Int => Sober(SetsGain(l, g), h)
      BY <2>2, <2>3 DEF SetsGain
    <3>2. IsFloat(a[3]) => 8 * Round(Number[a[3]], 1000) \in Int
      BY NumberAssumption, Rounded DEF IsFloat
    <3>. QED
      BY <1>1, <1>2, <2>3, <3>1, <3>2 DEF set_level_preamp_att
  <2>11. Sober(set_func_tuner(a, here), h)
    <3>1. Sober(Do([tune |-> 0], "bypass"), h) /\ Sober(Do([atu |-> "BYPASS"], "tune"), h)
      BY <2>0, <2>1 DEF Sober, Do
    <3>. QED
      BY <1>1, <2>2, <2>3, <3>1 DEF set_func_tuner
  <2>12. Sober(set_vfo(a), h) /\ Sober(set_split_vfo(a), h)
    BY <1>1, <2>3 DEF set_vfo, set_split_vfo
  <2>. QED
    BY <2>4, <2>5, <2>6, <2>7, <2>8, <2>9, <2>10, <2>11, <2>12 DEF Set_
<1>5. h.name = "send_cmd" => Sober(send_cmd(a, here), h)
  <2>1. "rfgain" \notin DOMAIN RawSets(a)
    BY DEF RawSets, SetsNothing
  <2>. QED
    BY <1>1, <2>1 DEF send_cmd, Sober, Do, Value
<1>. QED
  BY <1>1, <1>3, <1>4, <1>5 DEF Handle

-----------------------------------------------------------------------------
(* The steps, with what they remember.                                     *)

RanAsked(c, d, here, alone) ==
    LET r == Handle(c, d.h, d.args, here)
    IN  /\ Ran(c, line'[c], d, here)
        /\ r.then # "reply" => /\ asked' = asked
                               /\ clean' = [x \in Clients |-> x = c /\ alone]
        /\ r.then = "reply" => /\ asked' = AfterReply(d.h, d.args, r, alone)
                               /\ clean' = [clean EXCEPT ![c] = FALSE]

Alone(c) == cache = radio /\ \A x \in Clients \ {c} : at[x] \in {"idle", "gone"}

LEMMA ReceiveAsked ==
    ASSUME Types, NEW c \in Clients, NEW l, Receive(c, l)
    PROVE  LET d == Dispatch(handlers, l)
           IN  \/ d.found = "handler" /\ RanAsked(c, d, "start", Alone(c))
               \/ /\ at'[c] \in {"reply", "gone"} /\ \A x \in Clients \ {c} : at'[x] = at[x]
                  /\ UNCHANGED <<cmd, next, clean, asked>>
<1>. DEFINE d == Found(l)
<1>0. d.found = "handler" => d = Dispatch(handlers, l)
  BY DEF Found
<1>1. line'[c] = l
  BY DEF Receive, Types
<1>. HIDE DEF d
<1>2. CASE d.found = "handler"
  <2>1. Run(c, l, d, "start", Alone(c))
    BY <1>2 DEF Receive, Alone, d
  <2>2. RanAsked(c, d, "start", Alone(c))
    BY <1>1, <2>1 DEF Run, Ran, RanAsked
  <2>. QED
    BY <1>0, <1>2, <2>2
<1>3. CASE d.found = "error"
  <2>1. at' = [at EXCEPT ![c] = "reply"] /\ UNCHANGED <<cmd, next, clean, asked>>
    BY <1>3 DEF Receive, d
  <2>. QED
    BY <2>1 DEF Types
<1>4. CASE d.found \notin {"handler", "error"}
  <2>1. at' = [at EXCEPT ![c] = "gone"] /\ UNCHANGED <<cmd, next, clean, asked>>
    BY <1>4 DEF Receive, d
  <2>. QED
    BY <2>1 DEF Types
<1>. QED
  BY <1>2, <1>3, <1>4

LEMMA GoAsked ==
    ASSUME Types, NEW c \in Clients, Go(c) PROVE RanAsked(c, Of(c), next[c], clean[c])
<1>1. line' = line /\ Run(c, line[c], Of(c), next[c], clean[c])
  BY DEF Go, Of
<1>. QED
  BY <1>1 DEF Run, Ran, RanAsked

LEMMA AskedDomain ==
    ASSUME KeepsTypes, NEW h, NEW a, NEW r, NEW alone
    PROVE  DOMAIN AfterReply(h, a, r, alone) = Items
BY DEF KeepsTypes, AfterReply, AskedFor, Forgotten

LEMMA InitKeeps == Init => KeepsTypes /\ Sends /\ Remembered
<1>. SUFFICES ASSUME Init PROVE KeepsTypes /\ Sends /\ Remembered
  OBVIOUS
<1>1. InitialState["rfgain"] \in Int
  BY DEF InitialState
<1>2. KeepsTypes
  BY <1>1 DEF Init, KeepsTypes, Seen, Keys, Forgotten
<1>3. Sends
  BY DEF Init, Sends, Busy
<1>4. \A c \in Clients : ~clean[c]
  BY DEF Init
<1>5. AllHeld
  BY DEF Init, AllHeld, Forgotten
<1>. QED
  BY <1>2, <1>3, <1>4, <1>5 DEF Remembered, Sole, Stage

(* A command a client waits for names a gain only as a number.             *)
LEMMA KeepsStep == Types /\ KeepsTypes /\ [Next]_vars => KeepsTypes'
<1>. SUFFICES ASSUME Types, KeepsTypes, [Next]_vars PROVE KeepsTypes'
  OBVIOUS
<1>. USE DEF KeepsTypes
<1>. DEFINE Gain(c) == at[c] = "wait" /\ "rfgain" \in DOMAIN cmd[c] => cmd[c]["rfgain"] \in Int
<1>1. CASE UNCHANGED vars
  BY <1>1 DEF vars, conn, history, Seen
<1>2. CASE Load
  BY <1>2 DEF Load, conn, history, Seen
<1>3. ASSUME NEW c \in Clients, NEW d, NEW here, NEW alone, RanAsked(c, d, here, alone)
      PROVE  /\ \A x \in Clients : Gain(x)'
             /\ DOMAIN clean' = Clients /\ DOMAIN asked' = Items
  <2>. DEFINE r == Handle(c, d.h, d.args, here)
  <2>1. Sober(r, d.h)
    BY HandleSober
  <2>. HIDE DEF r
  <2>2. CASE r.then # "reply"
    <3>1. /\ at' = [at EXCEPT ![c] = "wait"] /\ cmd' = [cmd EXCEPT ![c] = r.do]
          /\ asked' = asked /\ clean' = [x \in Clients |-> x = c /\ alone]
      BY <1>3, <2>2 DEF RanAsked, Ran, r
    <3>. QED
      BY <2>1, <2>2, <3>1 DEF Sober, Types
  <2>3. CASE r.then = "reply"
    <3>1. /\ at' = [at EXCEPT ![c] = "reply"] /\ cmd' = cmd
          /\ asked' = AfterReply(d.h, d.args, r, alone) /\ clean' = [clean EXCEPT ![c] = FALSE]
      BY <1>3, <2>3 DEF RanAsked, Ran, r
    <3>. QED
      BY <3>1, AskedDomain DEF Types
  <2>. QED
    BY <2>2, <2>3
<1>4. ASSUME NEW c \in Clients, NEW l, Receive(c, l) PROVE KeepsTypes'
  <2>1. UNCHANGED <<radio, cache>>
    BY <1>4 DEF Receive
  <2>2. CASE RanAsked(c, Dispatch(handlers, l), "start", Alone(c))
    BY <1>3, <2>1, <2>2 DEF Seen
  <2>3. CASE /\ at'[c] \in {"reply", "gone"} /\ \A x \in Clients \ {c} : at'[x] = at[x]
             /\ UNCHANGED <<cmd, next, clean, asked>>
    BY <2>1, <2>3 DEF Seen
  <2>. QED
    BY <1>4, <2>2, <2>3, ReceiveAsked
<1>5. ASSUME NEW c \in Clients, Go(c) PROVE KeepsTypes'
  <2>1. UNCHANGED <<radio, cache>>
    BY <1>5 DEF Go
  <2>. QED
    BY <1>3, <1>5, <2>1, GoAsked DEF Seen
<1>6. ASSUME NEW c \in Clients, Write(c) PROVE KeepsTypes'
  BY <1>6 DEF Write, history, Types, Seen
<1>7. ASSUME NEW c \in Clients, at[c] = "wait", NEW s \in Executed(cmd[c])
      PROVE  Keys \subseteq DOMAIN s /\ s["rfgain"] \in Int
  <2>1. "rfgain" \in Keys
    BY DEF Keys, InitialState
  <2>. QED
    BY <1>7, <2>1, ExecutedKeys DEF Seen
<1>8. ASSUME NEW c \in Clients, Accept(c) PROVE KeepsTypes'
  <2>1. at[c] = "wait" /\ radio' \in Executed(cmd[c])
    BY <1>8 DEF Accept
  <2>2. Keys \subseteq DOMAIN radio' /\ radio'["rfgain"] \in Int
    BY <1>7, <2>1
  <2>. QED
    BY <1>8, <2>2 DEF Accept, history, Types, Seen
<1>9. ASSUME NEW c \in Clients, Refuse(c) PROVE KeepsTypes'
  BY <1>9 DEF Refuse, Types, Seen, Forgotten
<1>10. ASSUME NEW c \in Clients, Abandon(c) PROVE KeepsTypes'
  <2>1. at[c] = "wait" /\ (radio' = radio \/ radio' \in Executed(cmd[c]))
    BY <1>10 DEF Abandon
  <2>2. Keys \subseteq DOMAIN radio' /\ radio'["rfgain"] \in Int
    BY <1>7, <2>1 DEF Seen
  <2>. QED
    BY <1>10, <2>2 DEF Abandon, Types, Seen, Forgotten
<1>11. ASSUME NEW k \in DOMAIN radio, Deliver(k) PROVE KeepsTypes'
  BY <1>11 DEF Deliver, conn, history, Seen
<1>12. ASSUME NEW ch \in Sessions[session].changes, Change(ch[1], ch[2]) PROVE KeepsTypes'
  <2>1. ch[1] = "rfgain" => ch[2] \in Int
    BY ChangesAssumption DEF Types
  <2>2. Seen'
    BY <1>12, <2>1 DEF Change, Seen, Keys
  <2>. QED
    BY <1>12, <2>2 DEF Change, conn, Forgotten
<1>13. CASE TunerFinishes
  BY <1>13 DEF TunerFinishes, conn, history, Seen
<1>14. CASE SliceSeen \/ Connect
  BY <1>14 DEF SliceSeen, Connect, conn, history, Seen
<1>. QED
  BY <1>1, <1>2, <1>4, <1>5, <1>6, <1>8, <1>9, <1>10, <1>11, <1>12, <1>13, <1>14 DEF Next

(* Only a set and send_cmd wait for the radio.                             *)
LEMMA SendsStep == Types /\ Table /\ Sends /\ [Next]_vars => Sends'
<1>. SUFFICES ASSUME Types, Table, Sends, [Next]_vars PROVE Sends'
  OBVIOUS
<1>1. CASE UNCHANGED <<at, line, next, handlers>>
  BY <1>1 DEF Sends, Busy, Of
<1>2. CASE UNCHANGED vars
  BY <1>1, <1>2 DEF vars, conn
<1>3. CASE Load
  <2>1. loaded # Handlers /\ UNCHANGED at
    BY <1>3 DEF Load, Due, conn
  <2>. QED
    BY <2>1 DEF Table, Sends, Busy
<1>4. ASSUME NEW c \in Clients, NEW l, NEW d, NEW here, Ran(c, l, d, here)
      PROVE  /\ \A x \in Clients \ {c} : at'[x] = at[x] /\ next'[x] = next[x]
             /\ Busy(c)' => /\ d.h.name \in Setters \cup {"send_cmd"}
                            /\ d.h.name = "send_cmd" => next'[c] # "success"
  <2>1. Sober(Handle(c, d.h, d.args, here), d.h)
    BY HandleSober
  <2>. QED
    BY <1>4, <2>1 DEF Ran, Sober, Busy, Types
<1>5. ASSUME NEW c \in Clients, NEW l \in Sessions[session].lines, Receive(c, l) PROVE Sends'
  <2>1. Received(c, l)
    BY <1>5, ReceiveReceived
  <2>2. /\ handlers' = handlers /\ line'[c] = l
        /\ \A x \in Clients \ {c} : line'[x] = line[x]
    BY <2>1 DEF Received, Types
  <2>3. /\ \A x \in Clients \ {c} : at'[x] = at[x] /\ next'[x] = next[x]
        /\ Busy(c)' => /\ Dispatch(handlers, l).h.name \in Setters \cup {"send_cmd"}
                       /\ Dispatch(handlers, l).h.name = "send_cmd" => next'[c] # "success"
    <3>1. CASE Ran(c, l, Dispatch(handlers, l), "start")
      BY <1>4, <3>1
    <3>2. CASE (at' = [at EXCEPT ![c] = "reply"] \/ at' = [at EXCEPT ![c] = "gone"])
               /\ UNCHANGED next
      BY <3>2 DEF Busy, Types
    <3>. QED
      BY <2>1, <3>1, <3>2 DEF Received
  <2>. QED
    BY <2>2, <2>3 DEF Sends, Of, Busy
<1>6. ASSUME NEW c \in Clients, Go(c) PROVE Sends'
  <2>1. /\ Ran(c, line[c], Of(c), next[c]) /\ UNCHANGED <<handlers, line>>
    BY <1>6, GoRan DEF Of
  <2>2. /\ \A x \in Clients \ {c} : at'[x] = at[x] /\ next'[x] = next[x]
        /\ Busy(c)' => /\ Of(c).h.name \in Setters \cup {"send_cmd"}
                       /\ Of(c).h.name = "send_cmd" => next'[c] # "success"
    BY <1>4, <2>1
  <2>. QED
    BY <2>1, <2>2 DEF Sends, Of, Busy
<1>7. ASSUME NEW c \in Clients, Write(c) PROVE Sends'
  BY <1>7 DEF Write, Types, Sends, Of, Busy
<1>8. ASSUME NEW c \in Clients, Accept(c) \/ Refuse(c) \/ Abandon(c) PROVE Sends'
  BY <1>8 DEF Accept, Refuse, Abandon, Types, Sends, Of, Busy
<1>9. ASSUME NEW k, Deliver(k) PROVE Sends'
  BY <1>1, <1>9 DEF Deliver, conn
<1>10. ASSUME NEW k, NEW v, Change(k, v) PROVE Sends'
  BY <1>1, <1>10 DEF Change, conn
<1>11. CASE TunerFinishes \/ SliceSeen \/ Connect
  BY <1>1, <1>11 DEF TunerFinishes, SliceSeen, Connect, conn
<1>. QED
  BY <1>2, <1>3, <1>5, <1>6, <1>7, <1>8, <1>9, <1>10, <1>11 DEF Next

-----------------------------------------------------------------------------
(* What was asked for is remembered as long as it holds.                   *)

LEMMA ForgottenHeld ==
    ASSUME asked' = Forgotten
    PROVE  AllHeld' /\ \A r, h, a : Others(r, h, a)'
BY DEF AllHeld, Others, Forgotten

LEMMA AskedForHeld ==
    ASSUME NEW h, NEW a, Achieved(radio, h, a), radio' = radio, asked' = AskedFor(h, a)
    PROVE  AllHeld'
<1>. SUFFICES ASSUME NEW i \in Items, asked'[i] # <<>> PROVE Holds(radio, i, asked'[i])
  BY DEF AllHeld
<1>1. CASE i = ItemOf(h)
  BY <1>1 DEF AskedFor, Achieved
<1>2. CASE i # ItemOf(h)
  <2>1. asked'[i] = asked[i] /\ asked[i] # <<>> /\ ~Drops(h, a, i)
    BY <1>2 DEF AskedFor, Drops, Steps
  <2>. QED
    BY <1>2, <2>1 DEF Achieved, Others
<1>. QED
  BY <1>1, <1>2

(* The end of a handler: what follows from how it ended.                   *)
LEMMA Ending ==
    ASSUME NEW h, NEW a, NEW r, NEW alone, radio' = radio,
           asked' = AfterReply(h, a, r, alone)
    PROVE  /\ h.name \notin Setters \cup {"send_cmd"} => asked' = asked
           /\ h.name \in Setters \cup {"send_cmd"} /\ ~alone => asked' = Forgotten
           /\ h.name \in Setters /\ alone /\ Outcome(r, h, a) /\ r.then = "reply"
                  => asked' = asked \/ AllHeld'
           /\ h.name \in Setters /\ alone /\ r = Say(Success) => asked' = AskedFor(h, a)
           /\ h.name = "send_cmd" /\ (\E v : r = Value(v)) => asked' = Forgotten
<1>1. h.name \notin Setters \cup {"send_cmd"} => asked' = asked
  BY DEF AfterReply
<1>2. h.name \in Setters \cup {"send_cmd"} /\ ~alone => asked' = Forgotten
  BY DEF AfterReply
<1>3. ASSUME h.name \in Setters, alone, Outcome(r, h, a), r.then = "reply"
      PROVE  asked' = asked \/ AllHeld'
  <2>1. asked' = asked \/ (r.say = Success /\ asked' = AskedFor(h, a)) \/ asked' = Forgotten
    BY <1>3 DEF AfterReply
  <2>2. r.say = Success => Achieved(radio, h, a)
    BY <1>3 DEF Outcome
  <2>. QED
    BY <2>1, <2>2, AskedForHeld, ForgottenHeld
<1>4. ASSUME h.name \in Setters, alone, r = Say(Success) PROVE asked' = AskedFor(h, a)
  <2>1. r.failed = FALSE /\ r.say = Success
    BY <1>4 DEF Say
  <2>. QED
    BY <1>4, <2>1 DEF AfterReply
<1>5. ASSUME h.name = "send_cmd", NEW v, r = Value(v) PROVE asked' = Forgotten
  <2>1. r.failed = FALSE /\ r.say = <<Val(v)>>
    BY <1>5 DEF Value, Say
  <2>2. <<Val(v)>> # Success
    <3>1. "value" \in DOMAIN Val(v) /\ "value" \notin DOMAIN Rprt(0)
      BY DEF Val, Rprt
    <3>2. Val(v) # Rprt(0)
      BY <3>1
    <3>3. <<Val(v)>>[1] = Val(v) /\ Success[1] = Rprt(0)
      BY DEF Success
    <3>. QED
      BY <3>2, <3>3
  <2>. QED
    BY <1>5, <2>1, <2>2 DEF AfterReply
<1>. QED
  BY <1>1, <1>2, <1>3, <1>4, <1>5

(* A client that nothing has disturbed, over a step that leaves it alone.  *)
LEMMA StageStays ==
    ASSUME NEW x, Stage(x), clean'[x] => clean[x],
           at'[x] = at[x], line'[x] = line[x], cmd'[x] = cmd[x], next'[x] = next[x],
           UNCHANGED <<handlers, radio, cache>>, asked' = asked \/ asked' = Forgotten
    PROVE  Stage(x)'
<1>. SUFFICES ASSUME clean[x], Of(x).h.name \in Setters,
                     NEW r, Reliable(r, Of(x).h, Of(x).args, next[x])
              PROVE  Reliable(r, Of(x).h, Of(x).args, next[x])'
  BY DEF Stage, Of, Executed
<1>1. Of(x)' = Of(x)
  BY DEF Of
<1>2. Own(r, Of(x).h, Of(x).args, next[x])'
  BY <1>1 DEF Reliable, Own
<1>3. Others(r, Of(x).h, Of(x).args)'
  BY <1>1, ForgottenHeld DEF Reliable, Others, Drops
<1>. QED
  BY <1>2, <1>3 DEF Reliable

(* Where a handler leaves its client.                                      *)
LEMMA StageSet ==
    ASSUME NEW c, NEW h, NEW a, NEW r, NEW here,
           Of(c)'.h = h, Of(c)'.args = a, at'[c] = "wait",
           cmd'[c] = r.do, next'[c] = r.then, r.then # "reply",
           UNCHANGED <<radio, cache, asked>>,
           Sober(r, h), h.name \in Setters => Outcome(r, h, a)
    PROVE  Stage(c)'
<1>1. Executed(cmd[c])' = Executed(r.do)
  BY DEF Executed
<1>2. ASSUME h.name \in Setters, NEW s \in Executed(r.do)
      PROVE  Reliable(s, Of(c).h, Of(c).args, next[c])'
  <2>1. Reliable(s, h, a, r.then)
    BY <1>2 DEF Outcome
  <2>2. Others(s, Of(c).h, Of(c).args)'
    BY <2>1 DEF Reliable, Others, Drops
  <2>3. Own(s, Of(c).h, Of(c).args, next[c])'
    BY <2>1 DEF Reliable, Own
  <2>. QED
    BY <2>2, <2>3 DEF Reliable
<1>3. next'[c] = "bypass" => "atu" \notin DOMAIN cmd'[c]
  BY DEF Sober
<1>4. at'[c] # "go"
  OBVIOUS
<1>5. ASSUME Of(c)'.h.name \in Setters, NEW s \in Executed(cmd[c])'
      PROVE  Reliable(s, Of(c).h, Of(c).args, next[c])'
  BY <1>1, <1>2, <1>5
<1>. QED
  BY <1>3, <1>4, <1>5 DEF Stage

(* The tuner finishes: what holds of the radio still does.                 *)
Turned(r, s) ==
    /\ \A k \in Keys \ {"atu"} : s[k] = r[k]
    /\ s["atu"] = r["atu"] \/ (r["atu"] = "IN_PROGRESS" /\ s["atu"] = "SUCCESSFUL")

LEMMA TurnedHolds ==
    ASSUME NEW i \in Items, NEW r, NEW s, NEW b, Turned(r, s), Holds(r, i, b)
    PROVE  Holds(s, i, b)
<1>1. CASE i = "TUNER"
  <2>1. s["tune"] = r["tune"]
    BY DEF Turned, Keys, InitialState
  <2>2. HoldsTuner(r, b)
    BY <1>1 DEF Holds
  <2>3. HoldsTuner(s, b)
    BY <2>1, <2>2 DEF HoldsTuner, Turned
  <2>. QED
    BY <1>1, <2>3 DEF Holds
<1>2. CASE i # "TUNER"
  <2>1. KeysOf(i) \subseteq Keys \ {"atu"}
    BY <1>2, KeysKnown DEF KeysOf, Items
  <2>. QED
    BY <2>1, HoldsStays DEF Turned
<1>. QED
  BY <1>1, <1>2

LEMMA TurnedReliable ==
    ASSUME NEW h, NEW a, NEW here, NEW r, NEW s, Turned(r, s), Reliable(r, h, a, here),
           UNCHANGED <<asked, cache>>
    PROVE  Reliable(s, h, a, here)'
<1>1. Others(s, h, a)'
  BY TurnedHolds DEF Reliable, Others, Drops
<1>2. s["tune"] = r["tune"] /\ s["mode"] = r["mode"]
  BY DEF Turned, Keys, InitialState
<1>3. Own(s, h, a, here)'
  <2>1. CASE here = "success"
    BY <2>1, TurnedHolds DEF Reliable, Own
  <2>2. CASE here # "success"
    <3>1. (cache["atu"] = "BYPASS" => r["atu"] = "BYPASS") =>
              (cache'["atu"] = "BYPASS" => s["atu"] = "BYPASS")
      BY DEF Turned
    <3>. QED
      BY <1>2, <2>2, <3>1 DEF Reliable, Own
  <2>. QED
    BY <2>1, <2>2
<1>. QED
  BY <1>1, <1>3 DEF Reliable

LEMMA TunerTurns ==
    ASSUME Seen, TunerFinishes
    PROVE  /\ Turned(radio, radio')
           /\ \A f : \A s \in Executed(f)' : \E r \in Executed(f) : Turned(r, s)
<1>1. /\ radio["atu"] = "IN_PROGRESS" /\ DOMAIN radio' = DOMAIN radio
      /\ radio'["atu"] = "SUCCESSFUL"
      /\ \A k \in DOMAIN radio \ {"atu"} : radio'[k] = radio[k]
  <2>1. "atu" \in DOMAIN radio
    BY DEF Seen, Keys, InitialState
  <2>. QED
    BY <2>1 DEF TunerFinishes
<1>2. Turned(radio, radio')
  BY <1>1 DEF Turned, Seen
<1>3. ASSUME NEW f, NEW r, NEW s, Turned(r, s), Keys \subseteq DOMAIN r, DOMAIN s = DOMAIN r
      PROVE  /\ Turned(Over(f, r), Over(f, s))
             /\ Keys \subseteq DOMAIN Over(f, r) /\ DOMAIN Over(f, s) = DOMAIN Over(f, r)
  <2>1. "atu" \in Keys
    BY DEF Keys, InitialState
  <2>2. /\ Keys \subseteq DOMAIN Over(f, r) /\ DOMAIN Over(f, s) = DOMAIN Over(f, r)
        /\ \A k \in Keys : Over(f, r)[k] = IF k \in DOMAIN f THEN f[k] ELSE r[k]
        /\ \A k \in Keys : Over(f, s)[k] = IF k \in DOMAIN f THEN f[k] ELSE s[k]
    BY <1>3 DEF Over
  <2>. QED
    BY <1>3, <2>1, <2>2 DEF Turned
<1>4. ASSUME NEW f, NEW s \in Executed(f)' PROVE \E r \in Executed(f) : Turned(r, s)
  <2>. DEFINE p == [filter |-> <<300, 3300>>]
  <2>1. Turned(Over(f, radio), Over(f, radio'))
    BY <1>1, <1>2, <1>3 DEF Seen
  <2>2. Turned(Over(f, Over(p, radio)), Over(f, Over(p, radio')))
    <3>. HIDE DEF p
    <3>1. /\ Turned(Over(p, radio), Over(p, radio')) /\ Keys \subseteq DOMAIN Over(p, radio)
          /\ DOMAIN Over(p, radio') = DOMAIN Over(p, radio)
      BY <1>1, <1>2, <1>3 DEF Seen
    <3>. QED
      BY <1>3, <3>1
  <2>. QED
    BY <2>1, <2>2 DEF Executed
<1>. QED
  BY <1>2, <1>4

(* The handler of a line runs from where it is to where it waits or ends.  *)
LEMMA RunRemembers ==
    ASSUME Types, KeepsTypes, Remembered,
           NEW c \in Clients, NEW d, NEW here, NEW alone, RanAsked(c, d, here, alone), Of(c)' = d,
           \A x \in Clients \ {c} : line'[x] = line[x],
           UNCHANGED <<handlers, radio, cache>>,
           alone => \A x \in Clients \ {c} : ~Busy(x),
           d.h.name = "send_cmd" => here # "success",
           alone /\ d.h.name \in Setters => Outcome(Handle(c, d.h, d.args, here), d.h, d.args),
           \/ here = "start" /\ ~Busy(c)
           \/ /\ Busy(c) /\ d.h.name \in Setters \cup {"send_cmd"}
              /\ alone /\ d.h.name \in Setters /\ Handle(c, d.h, d.args, here).then = "reply"
                     => Handle(c, d.h, d.args, here) = Say(Success)
    PROVE  Remembered'
<1>. DEFINE Quietly == (\A x \in Clients : ~Busy(x)) => AllHeld
<1>0. Sole /\ (\A x \in Clients : Stage(x)) /\ Quietly
  BY DEF Remembered
<1>. DEFINE h == d.h
            a == d.args
            r == Handle(c, h, a, here)
<1>2. Sober(r, h)
  BY HandleSober
<1>. HIDE DEF r
<1>3. CASE r.then # "reply"
  <2>1. /\ at' = [at EXCEPT ![c] = "wait"]
        /\ cmd' = [cmd EXCEPT ![c] = r.do]
        /\ next' = [next EXCEPT ![c] = r.then]
        /\ asked' = asked
        /\ clean' = [x \in Clients |-> x = c /\ alone]
    BY <1>3 DEF RanAsked, Ran, r
  <2>2. \A x \in Clients : clean'[x] => x = c /\ alone
    BY <2>1
  <2>3. Busy(c)' /\ \A x \in Clients \ {c} : Busy(x)' <=> Busy(x)
    BY <2>1 DEF Types, Busy
  <2>4. Sole'
    BY <2>2, <2>3 DEF Sole
  <2>5. ASSUME alone PROVE Stage(c)'
    <3>1. at'[c] = "wait" /\ cmd'[c] = r.do /\ next'[c] = r.then
      BY <2>1 DEF Types
    <3>2. h.name \in Setters => Outcome(r, h, a)
      BY <2>5 DEF r
    <3>. QED
      BY <1>2, <1>3, <2>1, <3>1, <3>2, StageSet
  <2>6. \A x \in Clients : Stage(x)'
    BY <2>2, <2>5 DEF Stage
  <2>. QED
    BY <2>3, <2>4, <2>6 DEF Remembered
<1>4. CASE r.then = "reply"
  <2>1. /\ at' = [at EXCEPT ![c] = "reply"]
        /\ cmd' = cmd
        /\ next' = [next EXCEPT ![c] = "start"]
        /\ asked' = AfterReply(h, a, r, alone)
        /\ clean' = [clean EXCEPT ![c] = FALSE]
    BY <1>4 DEF RanAsked, Ran, r
  <2>2. ~clean'[c] /\ \A x \in Clients \ {c} : clean'[x] => clean[x]
    BY <2>1 DEF KeepsTypes
  <2>3. ~Busy(c)' /\ \A x \in Clients \ {c} : at'[x] = at[x] /\ next'[x] = next[x]
    BY <2>1 DEF Types, Busy
  <2>4. h.name \in Setters \cup {"send_cmd"} /\ ~alone => asked' = Forgotten
    BY <2>1, Ending
  <2>5. h.name = "send_cmd" => asked' = Forgotten
    <3>. SUFFICES ASSUME h.name = "send_cmd" PROVE asked' = Forgotten
      OBVIOUS
    <3>1. r = send_cmd(a, here)
      BY DEF Handle, r
    <3>2. \E v : r = Value(v)
      BY <1>4, <3>1 DEF send_cmd, Do
    <3>. QED
      BY <2>1, <3>2, Ending
  <2>6. asked' = asked \/ asked' = Forgotten \/ (alone /\ AllHeld')
    <3>1. h.name \notin Setters \cup {"send_cmd"} => asked' = asked
      BY <2>1, Ending
    <3>2. ASSUME h.name \in Setters, alone PROVE asked' = asked \/ AllHeld'
      <4>1. Outcome(r, h, a)
        BY <3>2 DEF r
      <4>. QED
        BY <1>4, <2>1, <3>2, <4>1, Ending
    <3>. QED
      BY <2>4, <2>5, <3>1, <3>2
  <2>7. CASE \A x \in Clients : ~clean'[x]
    <3>1. (\A x \in Clients : ~Busy(x)') => AllHeld'
      <4>1. CASE Busy(c)
        <5>1. asked' = Forgotten \/ AllHeld'
          <6>1. CASE h.name \in Setters /\ alone
            <7>1. r = Say(Success) /\ Outcome(r, h, a)
              BY <1>4, <4>1, <6>1 DEF r
            <7>2. asked' = AskedFor(h, a)
              BY <2>1, <6>1, <7>1, Ending
            <7>3. Achieved(radio, h, a)
              BY <1>4, <7>1 DEF Outcome, Say
            <7>. QED
              BY <7>2, <7>3, AskedForHeld
          <6>2. CASE ~(h.name \in Setters /\ alone)
            <7>1. h.name \in Setters \cup {"send_cmd"} /\ (~alone \/ h.name = "send_cmd")
              BY <4>1, <6>2
            <7>. QED
              BY <7>1, <2>4, <2>5
          <6>. QED
            BY <6>1, <6>2
        <5>. QED
          BY <5>1, ForgottenHeld
      <4>2. CASE ~Busy(c)
        <5>1. ASSUME \A x \in Clients : ~Busy(x)' PROVE AllHeld
          BY <1>0, <2>3, <4>2, <5>1 DEF Busy
        <5>2. asked' = asked /\ AllHeld => AllHeld'
          BY DEF AllHeld
        <5>. QED
          BY <2>6, <5>1, <5>2, ForgottenHeld
      <4>. QED
        BY <4>1, <4>2
    <3>. QED
      BY <2>7, <3>1 DEF Remembered, Sole, Stage
  <2>8. CASE \E x \in Clients : clean'[x]
    <3>1. ~Busy(c) /\ ~alone
      BY <1>0, <2>2, <2>8 DEF Sole
    <3>2. asked' = asked \/ asked' = Forgotten
      BY <2>6, <3>1
    <3>3. Sole'
      BY <1>0, <2>2, <2>3 DEF Sole, Busy
    <3>4. \A x \in Clients \ {c} : cmd'[x] = cmd[x]
      BY <2>1
    <3>5. \A x \in Clients \ {c} : Stage(x)'
      BY <1>0, <2>2, <2>3, <3>2, <3>4, StageStays
    <3>6. Stage(c)'
      BY <2>2 DEF Stage
    <3>7. ~(\A x \in Clients : ~Busy(x)')
      BY <2>8, <3>3 DEF Sole
    <3>. QED
      BY <3>3, <3>5, <3>6, <3>7 DEF Remembered
  <2>. QED
    BY <2>7, <2>8
<1>. QED
  BY <1>3, <1>4

LEMMA RememberedStep ==
    ASSUME Types, Table, Handled, KeepsTypes, Sends, Remembered, [Next]_vars
    PROVE  Remembered'
<1>. DEFINE Quietly == (\A x \in Clients : ~Busy(x)) => AllHeld
<1>0. Seen /\ Sole /\ (\A x \in Clients : Stage(x)) /\ Quietly
  BY DEF Remembered, KeepsTypes
(* No handler has the radio to itself, and what is remembered holds.       *)
<1>1. ASSUME \A x \in Clients : ~clean'[x],
             (\A x \in Clients : ~Busy(x)') => AllHeld'
      PROVE  Remembered'
  BY <1>1 DEF Remembered, Sole, Stage
(* Nothing that is remembered or relied on is touched, but what is sent.   *)
<1>2. ASSUME \A x \in Clients : \/ at'[x] = at[x] /\ line'[x] = line[x]
                                \/ ~Busy(x) /\ ~Busy(x)',
             UNCHANGED <<handlers, cmd, next, radio, cache, clean, asked>>
      PROVE  Remembered'
  <2>1. \A x \in Clients : Busy(x)' <=> Busy(x)
    BY <1>2 DEF Busy
  <2>2. Sole' /\ Quietly'
    BY <1>0, <1>2, <2>1 DEF Sole, AllHeld
  <2>3. ASSUME NEW x \in Clients PROVE Stage(x)'
    <3>1. CASE Busy(x)
      BY <1>0, <1>2, <3>1, StageStays
    <3>2. CASE ~Busy(x)
      BY <2>2, <2>1, <3>2 DEF Sole, Stage
    <3>. QED
      BY <3>1, <3>2
  <2>. QED
    BY <2>2, <2>3 DEF Remembered
<1>3. CASE UNCHANGED vars \/ SliceSeen \/ Connect
  BY <1>2, <1>3 DEF vars, conn, history, SliceSeen, Connect
<1>4. CASE Load
  <2>1. loaded # Handlers /\ UNCHANGED <<at, radio, clean, asked>>
    BY <1>4 DEF Load, Due, conn, history
  <2>2. \A x \in Clients : ~Busy(x)
    BY <2>1 DEF Table, Busy
  <2>. QED
    BY <1>0, <1>1, <2>1, <2>2 DEF Sole, Busy, AllHeld
<1>5. ASSUME NEW c \in Clients, NEW l \in Sessions[session].lines, Receive(c, l)
      PROVE  Remembered'
  <2>. DEFINE d == Dispatch(handlers, l)
  <2>1. /\ at[c] = "idle" /\ line'[c] = l /\ UNCHANGED <<handlers, radio, cache>>
        /\ \A x \in Clients \ {c} : line'[x] = line[x]
    BY <1>5 DEF Receive, Types
  <2>2. ~Busy(c)
    BY <2>1 DEF Busy
  <2>3. CASE /\ at'[c] \in {"reply", "gone"} /\ \A x \in Clients \ {c} : at'[x] = at[x]
             /\ UNCHANGED <<cmd, next, clean, asked>>
    <3>1. ~Busy(c)'
      BY <2>3 DEF Busy
    <3>. QED
      BY <1>2, <2>1, <2>2, <2>3, <3>1
  <2>4. CASE d.found = "handler" /\ RanAsked(c, d, "start", Alone(c))
    <3>1. Of(c)' = d
      BY <2>1 DEF Of
    <3>2. Alone(c) => \A x \in Clients \ {c} : ~Busy(x)
      BY DEF Alone, Busy
    <3>3. ASSUME Alone(c), d.h.name \in Setters
          PROVE  Outcome(Handle(c, d.h, d.args, "start"), d.h, d.args)
      <4>1. l \in Lines /\ loaded \in SUBSET Handlers /\ Represents(handlers, loaded)
        BY LinesAssumption DEF Types, Table
      <4>2. Fits(d.h, d.args)
        BY <2>4, <4>1, DispatchFits
      <4>3. AllHeld
        BY <1>0, <2>2, <3>2, <3>3
      <4>4. cache = radio
        BY <3>3 DEF Alone
      <4>. QED
        BY <1>0, <3>3, <4>2, <4>3, <4>4, StartOutcome
    <3>. HIDE DEF d
    <3>. QED
      BY <2>1, <2>2, <2>4, <3>1, <3>2, <3>3, RunRemembers
  <2>. QED
    BY <1>5, <2>3, <2>4, ReceiveAsked
<1>6. ASSUME NEW c \in Clients, Go(c) PROVE Remembered'
  <2>. DEFINE d == Of(c)
  <2>1. at[c] = "go" /\ UNCHANGED <<handlers, radio, cache, line>>
    BY <1>6 DEF Go
  <2>2. Busy(c) /\ d.found = "handler" /\ d' = d
    BY <2>1 DEF Busy, Handled, Of
  <2>3. /\ d.h.name \in Setters \cup {"send_cmd"}
        /\ d.h.name = "send_cmd" => next[c] # "success"
    BY <2>2 DEF Sends
  <2>4. RanAsked(c, d, next[c], clean[c])
    BY <1>6, GoAsked
  <2>5. clean[c] => \A x \in Clients \ {c} : ~Busy(x)
    BY <1>0 DEF Sole
  <2>6. ASSUME clean[c], d.h.name \in Setters
        PROVE  /\ Outcome(Handle(c, d.h, d.args, next[c]), d.h, d.args)
               /\ Handle(c, d.h, d.args, next[c]).then = "reply"
                      => Handle(c, d.h, d.args, next[c]) = Say(Success)
    <3>1. line[c] \in Lines /\ loaded \in SUBSET Handlers /\ Represents(handlers, loaded)
      BY DEF Types, Table
    <3>2. Fits(d.h, d.args)
      BY <2>2, <3>1, DispatchFits DEF Of
    <3>3. Reliable(radio, d.h, d.args, next[c])
      BY <1>0, <2>1, <2>6 DEF Stage
    <3>. QED
      BY <1>0, <2>6, <3>2, <3>3, LaterOutcome
  <2>. HIDE DEF d
  <2>7. Of(c)' = d
    BY <2>2 DEF d
  <2>. QED
    BY <2>1, <2>2, <2>3, <2>4, <2>5, <2>6, <2>7, RunRemembers
<1>7. ASSUME NEW c \in Clients, Write(c) PROVE Remembered'
  <2>1. ~Busy(c) /\ ~Busy(c)' /\ \A x \in Clients \ {c} : at'[x] = at[x] /\ line'[x] = line[x]
    BY <1>7 DEF Write, Busy, Types
  <2>. QED
    BY <1>2, <1>7, <2>1 DEF Write, history
<1>8. ASSUME NEW c \in Clients, Accept(c) PROVE Remembered'
  <2>1. /\ at[c] = "wait" /\ radio' \in Executed(cmd[c])
        /\ UNCHANGED <<handlers, cache, line, next, clean, asked>>
        /\ at'[c] = "go" /\ \A x \in Clients \ {c} : at'[x] = at[x]
    BY <1>8 DEF Accept, history, Types
  <2>2. Sole' /\ Busy(c)'
    BY <1>0, <2>1 DEF Sole, Busy
  <2>3. ASSUME NEW x \in Clients, x # c PROVE Stage(x)'
    BY <2>2, <2>3 DEF Sole, Stage
  <2>4. Stage(c)'
    <3>. SUFFICES ASSUME clean[c], Of(c).h.name \in Setters, NEW r, r = radio'
                  PROVE  Reliable(r, Of(c).h, Of(c).args, next[c])'
      BY <2>1 DEF Stage, Of
    <3>1. Reliable(r, Of(c).h, Of(c).args, next[c])
      BY <1>0, <2>1 DEF Stage
    <3>2. Others(r, Of(c).h, Of(c).args)'
      BY <2>1, <3>1 DEF Reliable, Others, Drops, Of
    <3>3. Own(r, Of(c).h, Of(c).args, next[c])'
      BY <2>1, <3>1 DEF Reliable, Own, Of
    <3>. QED
      BY <3>2, <3>3 DEF Reliable
  <2>. QED
    BY <2>2, <2>3, <2>4 DEF Remembered
<1>9. ASSUME NEW c \in Clients, Refuse(c) \/ Abandon(c) PROVE Remembered'
  <2>1. /\ at[c] = "wait" /\ clean' = [clean EXCEPT ![c] = FALSE]
        /\ (asked' = Forgotten \/ at'[c] = "go")
    BY <1>9 DEF Refuse, Abandon, Types
  <2>2. \A x \in Clients : ~clean'[x]
    BY <1>0, <2>1 DEF Sole, Busy, KeepsTypes
  <2>. QED
    BY <1>1, <2>1, <2>2, ForgottenHeld DEF Busy
<1>10. ASSUME NEW k \in DOMAIN radio, Deliver(k) PROVE Remembered'
  <2>1. /\ cache' = [cache EXCEPT ![k] = radio[k]]
        /\ UNCHANGED <<handlers, radio, conn, clean, asked>>
    BY <1>10 DEF Deliver, history
  <2>2. Sole' /\ Quietly'
    BY <1>0, <2>1 DEF Sole, AllHeld, Busy, conn
  <2>3. cache'["atu"] = cache["atu"] \/ cache'["atu"] = radio["atu"]
    BY <1>0, <2>1 DEF Seen, Keys, InitialState
  <2>4. ASSUME NEW c \in Clients, clean[c], Of(c).h.name \in Setters,
               NEW r, Reliable(r, Of(c).h, Of(c).args, next[c]),
               next[c] = "bypass" => r["atu"] = radio["atu"]
        PROVE  Reliable(r, Of(c).h, Of(c).args, next[c])'
    <3>1. Others(r, Of(c).h, Of(c).args)'
      BY <2>1, <2>4 DEF Reliable, Others, Drops, Of, conn
    <3>2. Own(r, Of(c).h, Of(c).args, next[c])'
      BY <2>1, <2>3, <2>4 DEF Reliable, Own, Of, conn
    <3>. QED
      BY <3>1, <3>2 DEF Reliable
  <2>5. ASSUME NEW c \in Clients PROVE Stage(c)'
    <3>. SUFFICES ASSUME clean[c], Of(c).h.name \in Setters PROVE Stage(c)'
      BY <2>1 DEF Stage, Of, conn
    <3>1. ASSUME at[c] = "wait", NEW r \in Executed(cmd[c])
          PROVE  Reliable(r, Of(c).h, Of(c).args, next[c])'
      <4>1. next[c] = "bypass" => "atu" \notin DOMAIN cmd[c]
        BY <1>0, <3>1 DEF Stage
      <4>2. next[c] = "bypass" => r["atu"] = radio["atu"]
        <5>1. "atu" \in Keys /\ "atu" # "filter"
          BY DEF Keys, InitialState
        <5>. QED
          BY <1>0, <3>1, <4>1, <5>1, ExecutedKeys DEF Seen
      <4>3. Reliable(r, Of(c).h, Of(c).args, next[c])
        BY <1>0, <3>1 DEF Stage
      <4>. QED
        BY <2>4, <4>2, <4>3
    <3>2. at[c] = "wait" /\ next[c] = "bypass" => "atu" \notin DOMAIN cmd[c]
      BY <1>0 DEF Stage
    <3>3. ASSUME at[c] = "go", NEW r, r = radio
          PROVE  Reliable(r, Of(c).h, Of(c).args, next[c])'
      BY <1>0, <2>4, <3>3 DEF Stage
    <3>4. UNCHANGED <<at, cmd, next, radio>>
      BY <2>1 DEF conn
    <3>5. Executed(cmd[c])' = Executed(cmd[c])
      BY <3>4 DEF Executed
    <3>. QED
      BY <3>1, <3>2, <3>3, <3>4, <3>5 DEF Stage
  <2>. QED
    BY <2>2, <2>5 DEF Remembered
<1>11. ASSUME NEW k, NEW v, Change(k, v) PROVE Remembered'
  <2>1. asked' = Forgotten /\ \A x \in Clients : ~clean'[x]
    BY <1>11 DEF Change
  <2>. QED
    BY <1>1, <2>1, ForgottenHeld
<1>12. CASE TunerFinishes
  <2>1. UNCHANGED <<handlers, cache, conn, clean, asked>>
    BY <1>12 DEF TunerFinishes, history
  <2>2. /\ Turned(radio, radio')
        /\ \A f : \A s \in Executed(f)' : \E r \in Executed(f) : Turned(r, s)
    BY <1>0, <1>12, TunerTurns
  <2>3. Sole'
    BY <1>0, <2>1 DEF Sole, Busy, conn
  <2>4. Quietly'
    BY <1>0, <2>1, <2>2, TurnedHolds DEF AllHeld, Busy, conn
  <2>5. ASSUME NEW c \in Clients PROVE Stage(c)'
    <3>. SUFFICES ASSUME clean[c], Of(c).h.name \in Setters PROVE Stage(c)'
      BY <2>1 DEF Stage, Of, conn
    <3>0. UNCHANGED <<at, cmd, next, asked, cache>> /\ Of(c)' = Of(c)
      BY <2>1 DEF conn, Of
    <3>1. ASSUME NEW r, NEW s, Turned(r, s), Reliable(r, Of(c).h, Of(c).args, next[c])
          PROVE  Reliable(s, Of(c).h, Of(c).args, next[c])'
      <4>. DEFINE h == Of(c).h
                  a == Of(c).args
                  here == next[c]
      <4>. HIDE DEF h, a, here
      <4>1. Reliable(s, h, a, here)'
        BY <3>0, <3>1, TurnedReliable DEF h, a, here
      <4>. QED
        BY <3>0, <4>1 DEF h, a, here
    <3>2. ASSUME at[c] = "wait", NEW s \in Executed(cmd[c])'
          PROVE  Reliable(s, Of(c).h, Of(c).args, next[c])'
      <4>1. PICK r \in Executed(cmd[c]) : Turned(r, s)
        <5>. DEFINE f == cmd[c]
        <5>1. f' = f
          BY <3>0
        <5>2. s \in Executed(f)'
          OBVIOUS
        <5>. QED
          BY <2>2, <3>0, <3>2, <5>1
      <4>2. Reliable(r, Of(c).h, Of(c).args, next[c])
        BY <1>0, <3>2 DEF Stage
      <4>. QED
        BY <3>1, <4>1, <4>2
    <3>3. ASSUME at[c] = "go", NEW s, s = radio'
          PROVE  Reliable(s, Of(c).h, Of(c).args, next[c])'
      BY <1>0, <2>2, <3>1, <3>3 DEF Stage
    <3>4. at[c] = "wait" /\ next[c] = "bypass" => "atu" \notin DOMAIN cmd[c]
      BY <1>0 DEF Stage
    <3>. QED
      BY <3>0, <3>2, <3>3, <3>4 DEF Stage
  <2>. QED
    BY <2>3, <2>4, <2>5 DEF Remembered
<1>. QED
  BY <1>3, <1>4, <1>5, <1>6, <1>7, <1>8, <1>9, <1>10, <1>11, <1>12 DEF Next

-----------------------------------------------------------------------------
(* What holds of the radio is what a copy that has caught up shows.        *)

LEMMA ValueShown == \A v : Value(v).say[1].value = v
BY DEF Value, Say, Val

LEMMA LevelShown ==
    ASSUME NEW i, slice, cache = radio
    PROVE  LET r == Get_(0, [name |-> "get_level", required |-> i], <<"l", i>>)
           IN  /\ i = "AF" => r = Value(radio["af"] * 10)
               /\ i = "RFPOWER" => r = Value(radio["rfpower"] * 10)
               /\ i = "RF" => r = Value(AgcLevel(radio) * 10)
               /\ i = "PREAMP" => r = Value(Preamp(radio["rfgain"]))
               /\ i = "ATT" => r = Value(Att(radio["rfgain"]))
<1>. DEFINE h == [name |-> "get_level", required |-> i]
            a == <<"l", i>>
            r == Get_(0, h, a)
<1>1. h.name = "get_level" /\ h.required = i /\ a[2] = i
  OBVIOUS
<1>. HIDE DEF h, a
<1>2. i = "AF" => r = FromSlice(get_percent("af"))
  BY <1>1 DEF Get_
<1>3. i = "RFPOWER" => r = get_percent("rfpower")
  BY <1>1 DEF Get_
<1>4. i = "RF" => r = get_level_rf
  BY <1>1 DEF Get_
<1>5. i \in {"PREAMP", "ATT"} => r = get_level_preamp_att(a)
  BY <1>1 DEF Get_
<1>. HIDE DEF r
<1>6. \A key : get_percent(key) = Value(radio[key] * 10)
  BY DEF get_percent
<1>7. \A o : FromSlice(o) = o
  BY DEF FromSlice
<1>8. i = "RF" => r = Value(AgcLevel(radio) * 10)
  BY <1>4, <1>6, <1>7 DEF get_level_rf, AgcKey, AgcLevel
<1>9. /\ i = "PREAMP" => r = Value(Preamp(radio["rfgain"]))
      /\ i = "ATT" => r = Value(Att(radio["rfgain"]))
  BY <1>1, <1>5, <1>7 DEF get_level_preamp_att, Preamp, Att
<1>. QED
  BY <1>2, <1>3, <1>6, <1>7, <1>8, <1>9 DEF r, h, a

LEMMA ModeShown ==
    ASSUME slice, cache = radio, NEW a, HoldsMode(radio, a)
    PROVE  /\ get_mode.say[1].word = a[1]
           /\ get_mode.say[2].value = radio["filter"][2] - radio["filter"][1]
<1>1. FromFlex(radio["mode"]) = {a[1]}
  BY ModesApart DEF HoldsMode
<1>2. (CHOOSE m \in FromFlex(radio["mode"]) : TRUE) = a[1]
  BY <1>1
<1>3. get_mode = Say(<<Word(a[1]), Val(radio["filter"][2] - radio["filter"][1])>>)
  BY <1>1, <1>2 DEF get_mode, FromSlice
<1>. QED
  BY <1>3 DEF Say, Word, Val

LEMMA TunerShown ==
    ASSUME cache = radio, NEW a, HoldsTuner(radio, a)
    PROVE  get_func_tuner.say[1].value \in
               CASE a[1] = "0" -> {0} [] a[1] = "2" -> {2}
                 [] OTHER -> IF radio["tune"] # 0 THEN {2} ELSE {1, 3}
<1>. DEFINE shown == IF radio["tune"] # 0 THEN 2
                     ELSE CASE radio["atu"] = "IN_PROGRESS" -> 3
                            [] radio["atu"] = "BYPASS" -> 0
                            [] OTHER -> 1
<1>1. get_func_tuner.say[1].value = shown
  BY ValueShown DEF get_func_tuner
<1>. HIDE DEF get_func_tuner
<1>2. CASE a[1] = "0"
  BY <1>1, <1>2 DEF HoldsTuner
<1>3. CASE a[1] = "1"
  BY <1>1, <1>3 DEF HoldsTuner
<1>4. CASE a[1] = "2"
  BY <1>1, <1>4 DEF HoldsTuner
<1>. QED
  BY <1>2, <1>3, <1>4 DEF HoldsTuner

LEMMA HeldKept ==
    ASSUME slice, cache = radio, NEW i \in Items, NEW a, Holds(radio, i, a)
    PROVE  Kept(i, a)
<1>. DEFINE level == Get_(0, [name |-> "get_level", required |-> i], <<"l", i>>)
<1>1. CASE i = "freq"
  <2>1. get_freq = Value(radio["freq"] * 1000)
    BY DEF get_freq
  <2>. QED
    BY <1>1, <2>1, ValueShown DEF Kept, Holds
<1>2. CASE i \in {"rit", "xit"}
  <2>1. \A on, freq : get_ritxit(on, freq) = Value(Shift(radio[on], radio[freq]))
    BY DEF get_ritxit, FromSlice, Shift
  <2>. QED
    BY <1>2, <2>1, ValueShown DEF Kept, Holds
<1>3. CASE i = "mode"
  <2>. DEFINE width == IF Number[Wanted(a)] < 0 THEN Modes[a[1]].width ELSE Int_(Wanted(a))
  <2>1. Wanted(a) = a[2] /\ HoldsMode(radio, a)
    BY <1>3 DEF Holds
  <2>2. Number[a[2]] \in Int
    BY <2>1, NumberAssumption, WholeAssumption DEF HoldsMode, IsInt, IsFloat
  <2>3. width = Width(a)
    BY <2>1, <2>2 DEF Width, Int_
  <2>. HIDE DEF width
  <2>4. /\ get_mode.say[1].word = a[1]
        /\ width # 0 => get_mode.say[2].value = width - (width % 2)
    BY <2>1, <2>3, ModeShown DEF HoldsMode
  <2>. QED
    BY <1>3, <2>4 DEF Kept, width
<1>4. CASE i = "ptt"
  <2>1. get_ptt = Value(radio["xmit"])
    BY DEF get_ptt
  <2>. QED
    BY <1>4, <2>1, ValueShown DEF Kept, Holds
<1>5. CASE i \in {"AF", "RFPOWER", "RF", "PREAMP", "ATT"}
  <2>1. /\ i = "AF" => level.say[1].value = radio["af"] * 10
        /\ i = "RFPOWER" => level.say[1].value = radio["rfpower"] * 10
        /\ i = "RF" => level.say[1].value = AgcLevel(radio) * 10
        /\ i = "PREAMP" => level.say[1].value = Preamp(radio["rfgain"])
        /\ i = "ATT" => level.say[1].value = Att(radio["rfgain"])
    BY LevelShown, ValueShown
  <2>. HIDE DEF level
  <2>2. CASE i \in {"AF", "RFPOWER", "RF"}
    <3>1. Near(level.say[1].value, Number[Wanted(a)], 5)
      BY <2>1, <2>2 DEF Holds
    <3>. QED
      BY <2>2, <3>1 DEF Kept, level
  <2>3. CASE i = "PREAMP"
    <3>1. level.say[1].value = Round(Number[Wanted(a)], 1000)
      BY <2>1, <2>3 DEF Holds, Steps
    <3>. QED
      BY <2>3, <3>1 DEF Kept, level
  <2>4. CASE i = "ATT"
    <3>1. level.say[1].value = IF Round(Number[Wanted(a)], 1000) = 0 THEN 0 ELSE 1
      BY <2>1, <2>4 DEF Holds, Steps
    <3>. QED
      BY <2>4, <3>1 DEF Kept, level
  <2>. QED
    BY <1>5, <2>2, <2>3, <2>4
<1>6. CASE i = "TUNER"
  <2>1. HoldsTuner(radio, a)
    BY <1>6 DEF Holds
  <2>. QED
    BY <1>6, <2>1, TunerShown DEF Kept
<1>. QED
  BY <1>1, <1>2, <1>3, <1>4, <1>5, <1>6 DEF Items

LEMMA KeepsCorrect == Spec => []KeepsTypes
BY InitKeeps, KeepsStep, TypesCorrect, PTL DEF Spec

LEMMA SendsCorrect == Spec => []Sends
BY InitKeeps, SendsStep, TypesCorrect, TableCorrect, PTL DEF Spec

LEMMA RememberedCorrect == Spec => []Remembered
BY InitKeeps, RememberedStep, TypesCorrect, TableCorrect, HandledCorrect, KeepsCorrect,
   SendsCorrect, PTL DEF Spec

(* What a client set and was told RPRT 0 for is what everybody reads, once *)
(* the copy has caught up (freq.go, mode.go, ptt.go, audio.go, rfpower.go, *)
(* preamp-att.go, tuner.go), whatever numbers the clients send, as near as *)
(* the rounding of the handler and of the radio allows: if its handler had *)
(* the radio to itself from the line to the reply and looked at a current  *)
(* copy (clean), and nobody else worked on that item since.                *)
THEOREM ReadBackCorrect == Spec => []ReadsBack
<1>1. Types /\ Remembered => ReadsBack
  <2>. SUFFICES ASSUME Types, Remembered, Quiet, NEW i \in Items, asked[i] # <<>>
                PROVE  Kept(i, asked[i])
    BY DEF ReadsBack
  <2>1. \A c \in Clients : ~Busy(c)
    BY DEF Quiet, Busy
  <2>2. Holds(radio, i, asked[i])
    BY <2>1 DEF Remembered, AllHeld
  <2>. QED
    BY <2>2, HeldKept DEF Quiet
<1>. QED
  BY <1>1, TypesCorrect, RememberedCorrect, PTL
=============================================================================
