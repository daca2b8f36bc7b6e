---------------------------- MODULE MCClientStream ----------------------------
(* ClientStream with its constants fixed for TLC.  Addresses are short      *)
(* strings of digits.                                                       *)
EXTENDS ClientStream

Radio == <<1>>
Proxy == <<2>>
ProxyLan == <<3>>
Client == <<4>>
Plain == {<<1>>, <<6>>}
Replies == {Bare(<<9>>), [form |-> "ip", text |-> <<1>>],
            [form |-> "more", text |-> <<1>>]}
=============================================================================
