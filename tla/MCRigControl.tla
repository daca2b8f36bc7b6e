---------------------------- MODULE MCRigControl ----------------------------
(* RigControl with the lines its clients send in each session.             *)
EXTENDS RigControl

CONSTANTS a, b

Clients_ == {a, b}
ClientsAlike == Permutations(Clients_)

Numbers ==
    "0" :> 0 @@ "1" :> 1000 @@ "2" :> 2000 @@ "4" :> 4000 @@ "-1" :> -1000
    @@ "0.305" :> 305 @@ "0.4" :> 400 @@ "0.75" :> 750
    @@ "120" :> 120000 @@ "1.0" :> 1000 @@ "500" :> 500000 @@ "2701" :> 2701000 @@ "7074.4" :> 7074400
WholeNumbers == {"0", "1", "2", "4", "-1", "120", "500", "2701"}

Short(words) == [ext |-> FALSE, long |-> FALSE, words |-> words]
Long(words) == [ext |-> FALSE, long |-> TRUE, words |-> words]
Ext(words) == [ext |-> TRUE, long |-> FALSE, words |-> words]
Session(lines, changes) == [lines |-> lines, changes |-> changes]

Tuning == Session({Long(<<"set_freq", "7074.4">>), Short(<<"J", "120">>), Short(<<"J", "0">>), Short(<<"f">>)}, {})
Offset == Session({Short(<<"Z", "120">>), Short(<<"Z", "-1">>), Short(<<"Z", "0">>),
                   Short(<<"Z", "1.0">>), Ext(<<"z">>), Short(<<"F", "x">>)}, {<<"xit_on", 0>>})
ModeSet == Session({Short(<<"M", "USB", "2701">>), Short(<<"M", "CW", "-1">>),
                    Short(<<"M", "FM", "-1">>), Short(<<"M", "XX", "0">>), Ext(<<"m">>)},
                   {<<"mode", "LSB">>})
Keying == Session({Short(<<"T", "1">>), Short(<<"T", "0">>), Short(<<"t">>),
                   Short(<<"w", "xmit", "0">>), Short(<<"w", "xmit", "1">>)}, {<<"tx", 0>>})
Levels == Session({Short(<<"L", "RF", "0.305">>), Short(<<"L", "RF", "0.75">>), Short(<<"l", "RF">>)},
                  {<<"agc_mode", "off">>, <<"agc_mode", "med">>})
Power == Session({Short(<<"L", "RFPOWER", "0.305">>), Short(<<"L", "RFPOWER", "0.75">>),
                  Ext(<<"l", "RFPOWER">>),
                  Short(<<"L", "AF", "0.4">>), Short(<<"l", "AF">>), Short(<<"l", "SWR">>), Ext(<<"l", "SWR">>)}, {})
Gain == Session({Short(<<"L", "PREAMP", "1">>), Short(<<"L", "PREAMP", "0">>),
                 Short(<<"L", "PREAMP", "4">>), Short(<<"L", "ATT", "1">>),
                 Short(<<"L", "ATT", "0.4">>), Long(<<"get_level", "ATT">>)},
                {<<"rfgain", 16>>})
Tuner == Session({Short(<<"U", "TUNER", "0">>), Short(<<"U", "TUNER", "1">>),
                  Short(<<"U", "TUNER", "2">>), Short(<<"U", "TUNER", "x">>),
                  Ext(<<"u", "TUNER">>)}, {<<"tune", 0>>})
Formal == Session({Long(<<"chk_vfo">>), Long(<<"dump_state">>), Short(<<"v">>),
                   Short(<<"V", "?">>), Ext(<<"V", "VFOA">>), Short(<<"V", "VFOB">>),
                   Short(<<"S", "0", "VFOA">>), Ext(<<"s">>), Long(<<"get_lock_mode">>),
                   Long(<<"get_powerstat">>), Short(<<"q">>), Short(<<"y">>),
                   Short(<<"f", "x">>), Short(<<"S", "0">>), Short(<<"l">>), Short(<<"U">>), Short(<<>>), Ext(<<>>)}, {})

AllSessions ==
    "tuning" :> Tuning @@ "offset" :> Offset @@ "mode" :> ModeSet @@ "keying" :> Keying
    @@ "levels" :> Levels @@ "power" :> Power @@ "gain" :> Gain @@ "tuner" :> Tuner
    @@ "formal" :> Formal
=============================================================================
