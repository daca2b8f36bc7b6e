------------------------------ MODULE MCStartup ------------------------------
(* Startup, Picker and DiscoveryRelay with a few files, command lines and   *)
(* answers, two radios and one Tailscale peer.                              *)
EXTENDS DiscoveryRelay, TLC

R1 == "10.0.0.1"
R2 == "10.0.0.2"
LAN == "10.0.0.9"
VPN == "100.64.0.9"

Lists_ == {<<>>, <<R1>>, <<R1, R2>>}
Files_ == {Empty,
           "radio" :> R1 @@ "headless" :> "true" @@ "proxy" :> LAN \o ":4992"
               @@ "metering" :> "false" @@ "profile" :> "DX",
           "web" :> "1.2.3.4:80" @@ "proxy_ip" :> "1.2.3.4" @@ "listen" :> ":4532"}
CommandLines_ ==
    {Empty, "radio" :> R1 @@ "proxy" :> "" @@ "log_level" :> "warn", DocumentedCommand,
     "radio" :> R1 @@ "proxy" :> ":4993" @@ "web" :> ":8080",
     "log_level" :> "loud", "proxy_only" :> "true" @@ "radio" :> R2 @@ "headless" :> ""}
Answers_ == {Empty, "station" :> "" @@ "webPort" :> "" @@ "udpPort" :> "60000",
             "proxyPort" :> "" @@ "advIP" :> LAN @@ "udpPort" :> "many",
             "catIP" :> Other @@ "customCatIP" :> "1.2.3.4" @@ "headless" :> "headless"
                 @@ "radio" :> R2 @@ "logLevel" :> "debug"}
At(host, port) == (host \o ":" \o port) :> <<host, port>>
On(host) ==
    At(host, "80") @@ At(host, "4532") @@ At(host, "4992") @@ At(host, "4993")
    @@ At(host, "8080")
Split_ == "" :> <<"", "">> @@ On("") @@ On(LAN) @@ On("1.2.3.4")
Route_ == R1 :> LAN
Posts_ == {<<"radio", R2>>, <<"proxy", ":4992">>}

Packet(src, size, fields) ==
    [src |-> src, radio |-> src, ip |-> src, port |-> "4992", gui |-> TRUE,
     size |-> size, fields |-> fields, marks |-> 0, copies |-> 0]
RadioPackets_ == {Packet(R1, 200, TRUE), Packet(R2, 200, TRUE)}
FarPackets_ == {Packet("10.9.9.1", 200, TRUE)}
==============================================================================
