# Flexy in TLA+

Flexy (`src/`, Go) stands between a FlexRadio transceiver, SmartSDR clients
and Hamlib programs.  It keeps one API connection to the radio, serves
rigctld's protocol from it, proxies SmartSDR's TCP and UDP traffic, relays the
radio's discovery broadcasts and has a web page for status, configuration and
logs.  This directory models the parts of it whose correctness depends on
order and interleaving, checks them with TLC and proves some of it with TLAPS.

The repository pulls in `flexclient` (the radio API), `zerolog`, `net/http`
and a terminal UI library; they, the radio, the clients and Go's `sync` are
modelled from how `cmd/flexy` uses them and marked external in
`PROJECT.json`.

## Inventory

| Component | State | Operations | Interacts with | Hard |
|---|---|---|---|---|
| SmartSDR proxy session (`proxy.go`, `radio_context.go`) | handle, owned pans and slices, the numbers of pending `client ip` commands, relays | accept, dial, forward a line, read a line, clean up | radio and client over TCP, `RadioContext` shared by all sessions | two goroutines per session, either end may go at any moment, clean-up depends on who else is registered |
| UDP relay (`proxy.go:412-487`) | socket, counters | open, forward each way, keep-alive, close | session's `done` channel, radio, client | lifetime, teardown by a goroutine, a NAT that forgets |
| Discovery relay (`proxy.go:264-388`), rebroadcaster (`cmd/flexy-discovery`) | last packet, targets, cached peers | receive, filter, rewrite, resend | `RadioContext`, `cfg`, tailscale, UDP | both hear what they send, a cache, a port that changes |
| Radio connection (`main.go`, `connstate.go`) | `fc`, `SliceIdx`, `ClientID`, connection state, contexts | dial, set up, run, close, retry | reconnect channel, Hamlib handlers, metering | a dial that cannot be cancelled, goroutines of finished rounds |
| Web configuration (`web.go:68-112`) | `cfg`, global log level | POST | reconnect channel, everything that reads `cfg` | no lock |
| Hamlib server (`hamlib.go`) | clients, handler table, RWMutex | accept, command, leave, shut down | handlers, radio | commands wait for the radio under the read lock; the table is built by the init functions of eleven files |
| Hamlib handlers (`freq.go`, `mode.go`, `ptt.go`, ...) | none of their own | get and set one parameter each | `fc`, `SliceIdx` | several radio commands in one, values read from a copy that trails the radio |
| Metering (`metering.go`) | meter values, two inverse maps | update, packet, reset, read | radio's UDP stream, Hamlib, the page | late packets and updates, reuse of numbers |
| Log buffer and view (`logbuf.go`, `web.go`, `index.html`) | ring, next number; page: lines, last number | write, read since, poll, clear, restart | zerolog, HTTP | wrap-around, overlapping polls |
| Discovery scan (`internal/discovery`), terminal UI (`tui.go`) | a channel of one; list and cursor | publish, show, move, select | each other | a list replaced under the cursor |
| Configuration file, start-up, setup wizard (`config.go`, `main.go`, `setup.go`) | file, flags, `cfg` | load, merge, check, save, start services | all | precedence, what is left out of the file, a write cut short |
| Web pages, embedding, build, hooks, CI | - | - | - | presentation and I/O |

What makes each correct:

- *Proxy session*: a handle is listed while its session runs and never after;
  what a session takes for its own is what the radio announced for it; clean-up
  touches nothing it never held; a session ends when either end goes; no relay
  outlives it; lines reach the client unchanged but for the addresses that must
  be.
- *Radio connection*: one client runs at a time; "connected" is shown only with
  a client and slice that belong together; shutdown, reconnect and loss of the
  radio all lead on.
- *Web configuration*: no request slips an invalid value in, each is signalled.
- *Hamlib server and handlers*: every line finds the one handler it is for, and
  a reply a client can parse; commands are answered, the shutdown completes, the
  list of clients is exact; what was set is what is read.
- *Log buffer and view*: the ring holds the last lines, the page shows each
  once.
- *Metering*: the two maps stay inverse, a value belongs to the level it is
  shown for, nothing outlives its radio.
- *Start-up*: the wizard changes what its user changed, and what it wrote is
  what later runs use, unless a flag says otherwise.
- *Discovery*: the last list gets through and the cursor is in it; clients are
  told of this radio and of the port that is served; nothing is relayed twice.

`PROJECT.json` lists the hazards line by line.

## Modules

| Module | Models | Runs |
|---|---|---|
| `ClientRegistry` | what `RadioContext` promises: join under a fresh handle, leave | the abstract side of `RegistrySpec` |
| `SmartSDRProxy` | all sessions of the proxy, the registry, ownership, clean-up | `proxy_safety`, `proxy_live` |
| `SmartSDRProxyProofs` | theorems about it | |
| `ClientStream` | the lines, relays and datagrams of one session | `stream` |
| `ClientStreamProofs` | theorems about it | |
| `RadioLifecycle` | the connection loop, its goroutines and `runRadio` | `lifecycle`, `lifecycle_lost` |
| `RadioLifecycleProofs` | theorems about it | |
| `WebConfig` | concurrent `POST /api/config` | `config` |
| `HamlibServer` | accept loop, sessions, lock, shutdown | `hamlib` |
| `HamlibServerProofs` | theorems about it | |
| `HamlibDispatch` | the handler table, the walk over it, replies | with `RigControl` |
| `RigControl` | the command handlers, several clients, the radio | `rig` |
| `RigControlProofs` | theorems about both | |
| `MeterMap` | meters, levels and rounds | `meters` |
| `MeterMapProofs` | theorems about it | |
| `Picker` | discovery scan and radio picker | with `Startup` |
| `Startup` | file, wizard, flags, `main` around its loop | with `DiscoveryRelay` |
| `DiscoveryRelay` | relay, advertised proxy, rebroadcaster; the three modules composed | `startup`, `startup_documented` |
| `DiscoveryRelayProofs` | theorems about the three | |
| `LogBuffer`, `LogPoller` | the ring; the page that polls it | `log_view` |
| `WebProofs` | theorems about the ring, the view and `WebConfig` | |

`MC*` modules only fix constants.  A definition whose name repeats another's
with something added (`ReaderEOFNoDeadline`) is a mutant: the same operation
with a plausible mistake, kept to show that a property can fail.

### SmartSDRProxy

`phase[c]` is where the main goroutine of `handleSmartSDRClient` is: accepted
and dialling, the radio-to-client loop, then its deferred calls one by one,
`cleanupProxyClient` in three (unregister, look for others, write the
removals), because each takes or gives back the lock of `RadioContext`.
`reader[c]` is the client-to-radio goroutine.  Lines are kept in queues
(`c2p`, `p2r`, `r2p`), so status lines on the wire and commands the radio has
yet to execute are part of the state.  Of all lines only four kinds matter here:
the H-line, a status line that names an owner, a command that creates and one
that removes.  `owner` is the radio's own record.  `Direct` is a client
connected to the radio without Flexy.

Assumptions about the radio: it gives every connection a handle it has not
given before; it announces owners to every connection; it executes a removal
whoever sends it; what is written before a close still reaches it.  It is also
taken to accept the clean-up's lines, which carry no `C<seq>|` prefix where the
clients' commands do; if it does not, the clean-up has no effect at all.

`ReadLine` is one turn of the loop, `LearnHandle` and `TrackOwned` its two
effects on the session.  `ReaderEOF` forces the read deadline; a failed write
in `ForwardLine` does not.  `RegistrySpec` is the refinement: with
`served` standing for the sessions that have learnt a handle, the sessions
implement `ClientRegistry!Spec`.  `OwnedTracksGrants` says of the owned sets what
the code makes of them, all that was ever granted: they never shrink.  The clean-up
of a session whose writes to the radio block longer than the two seconds of
`cleanupWriteDeadline` is left out.

### ClientStream

One session at the level of what is in a line.  An address is a sequence of
characters, because the code replaces text.  Of a message one text is kept and
how it stands there: as the whole message, as the one word `ip=text`, or as a
field `ip=text` among other words.  That is what the two patterns tell apart:
`ip=<radio>` is replaced in every line, responses included (`Rewritten`), and the
answer to `client ip` is known by its being one word (`OneWord`).  `seqs`
is `clientIPSeqs`, `relays` maps each local port to the client port its relay
serves, and `udpDest` is what the radio was told last.  The relay of a
`client udpport` is opened (`StartRelay`) before the line is forwarded, and may
fail.  `hole[p]` says that a NAT between Flexy and the radio lets the radio's
datagrams to port p through: opening the relay makes the hole, idleness closes
it, the ticker of that relay opens it again.  `Carried` is where a relay sends a
datagram, which depends on nothing but the address and port it came from.  The
deferred calls are one action here, `EndSession`.

### RadioLifecycle

Rounds of the loop are numbered; contexts, goroutines and the `FlexClient` of
a round carry its number.  `pc` follows main through `runRadio`.  `fan[k]` is
the goroutine that waits for a reconnect token or for the end of round k,
`dial[k]` the one in `NewFlexClient`, `runner[k]` the one in `fc.Run`.
`cfgVer` counts accepted configurations, `dialCfg[k]` is the one dial k read.
`createClient`, `bindClient` and `findSlice` are a step each, with success,
failure and cancellation as outcomes.

`FanLag` says whether a fan-out goroutine may come to its select for the first
time after its round is over.  Go permits it.  Under `FanLag = FALSE`
`ConfigTakesEffect` holds; under `TRUE` it does not, which is what
`lifecycle_lost` shows: both cases of that select are ready then.  A goroutine
parked in its select is released by the first that becomes ready, at the end of
its round by `connCancel`, and takes no later token.  A failed `InitUDP`, which
ends the program, is left out.

### WebConfig

The handler step by step.  `cfg` is a struct that is copied and assigned
without a lock, so both go field by field in any order, for three fields that
the handler treats differently; within a field it is one step, though a string is
two words.  `dirty` is a history variable: a change the
connection loop has not read.  The names that `LogPoller` has too begin with
`Config`, as `WebProofs` extends both.

### HamlibServer

The server with its lock taken apart: a writer announces itself, new readers
wait behind it, it enters when the readers have gone, and on leaving lets the
waiting readers in.  A command is handled under the read lock, wait for the
radio and write of the reply included.  `conns` never shrinks when a client
leaves, as in the code, which compares a `*Conn` with the `Conn` values stored.

### LogBuffer, LogPoller

The ring with its head and wrap flag, and the page's `pollLogs`.  Requests and
answers may overlap, overtake and be lost, and Flexy may be restarted under an
open page: numbering begins at 0 again, the page goes on from its own number.
`displayed`, `missed`, `blind` and `overlapped` are history variables for the
properties; lines are told apart by `life` and number.  The loop of `Since` over
the slots is the recursive function in `Kept`, a turn of the loop per argument.

### MeterMap

`flexToHamlib`, `hamlibToFlex` and `meterVal` with the round of the connection
loop they belong to.  Updates come from the radio's TCP stream, packets by UDP;
`handleMeters` of a round selects among them and may hold one of either when
its round ends (`handler`, `held`).  A meter measures a level the code knows or
none, and a value is named after what was being measured when the packet was
sent, so that a property can say whose value is read.  `crossed`, `displaced`
and `late` are history variables: a packet or a handler that came too late, a
meter whose level was taken over.

### HamlibDispatch, RigControl

`HamlibDispatch` writes the handlers down file by file (`init_audio` to
`init_vfo`), builds the table the way `AddHandler` does, one handler after the other in the
order in which Go runs the files' init functions (`Due`; the meters' handlers are
added in the order of a Go map, which is any), and walks it the way `handleCmd`
does.  A table entry is a handler or another table; as no handler of the code
requires more than one of its arguments to be a certain word, tables are two deep
and `Walk` needs no recursion.  What a word selects, which argument counts pass,
when the walk runs past the end of the words and what an extended reply looks
like follow from it.

`RigControl` gives every handler its meaning.  `radio` is the radio's state,
`cache` the `FlexClient`'s copy the handlers read, which catches up key by key.
A set sends its commands one at a time, waits for each answer and may look at the
copy again before the next (`next`).  The radio accepts or refuses.  What words
are numbers, and which, is the constant `Number`, in thousandths, so that the
roundings of the handlers show; `Whole` are those among them that `strconv.Atoi`
takes too.  `fc` says whether `runRadio` has made a `FlexClient` yet: before that a
handler that calls one panics (`Found`), after parsing its arguments if it is a
set.  The radio commands a client passes on with `send_cmd` are three
(`RawAssumption`), though the code passes on any line; the errors for a missing
transmit or atu object are left out.  What clients send
comes in sessions (`MCRigControl`), each over a part of the radio's state that
the others do not touch; in every session any client may send any line at any
time while somebody at the radio changes what the session names.

### Picker, Startup, DiscoveryRelay

Three modules that extend each other, as what the first leaves is what the next
begins with.  `Picker` is the goroutine of `Scan`, its channel of one, the
command that waits for a list and the model's `Update`.  `Startup` is a sequence
of program runs over one configuration file; a run is the wizard (`form`, then a
`write` that may be cut short) or the program, which loads, merges, checks, may
show the picker, listens, starts its services and then serves until it ends.
Zero values are all written `Blank`, as the file leaves all of them out, and
`Over` is what a later source does to an earlier one key by key.  `wanted` is what
the last wizard to touch the file left there; one that is killed in its write
leaves nothing, and what an earlier one had written is gone.  What a model
instance supplies is named in assumptions: a file holds no zero value
(`InputAssumption`: it was written by `Save`, which leaves them out, or by hand
with values the form could have produced), an address that comes apart at its
colon comes together again (`SplitAssumption`: names and IPv4 addresses, as IPv6
ones would be put in brackets).  The log level `trace`, which the form has no
option for, is in no file of the model.
`DiscoveryRelay` is what a run that serves puts on the networks: `air` holds the
packets on Flexy's, `far` those on the network of a Tailscale peer with a
rebroadcaster.  A packet stays once sent, so that it may be received late, again
and out of order.

## Runs, bounds, fairness

| Run | Bounds | Why they are enough |
|---|---|---|
| `proxy_safety` | 2 sessions, 2 handles, 1 pan, 1 slice, 1 command each, 1 creation by the direct client; symmetry | another session to be counted, a resource of each kind, somebody to take a freed id |
| `proxy_live` | 2 sessions, 1 slice, 1 command each | both may go first; no symmetry, since the properties are temporal |
| `stream` | 2 commands, 1 status line, 3 messages of other responses, 2 relay ports, 2 client ports | a message of one word and of several beside an address, a second `udpport` while the first relay is open, an `ip` beside another command |
| `lifecycle` | 1 POST, 1 reconnect click, 1 fault, hence up to 5 rounds | each kind of end of a round, followed by each other; two requests for a channel of one |
| `lifecycle_lost` | 1 POST, 1 fault, `FanLag` | the fault ends the round whose goroutine takes the token |
| `config` | 2 requests, 2 values of each field and an invalid level; symmetry | lost updates and mixed fields need two writers |
| `hamlib` | 2 clients, 2 lines each | a reader, a writer that waits for it, and a reader behind the writer; Run and the closer are writers too |
| `meters` | 2 meters, 2 levels and one the code does not know, 2 rounds, 3 announcements, 1 packet | a number given another level and a level another number, a handler that is late for the second round |
| `rig` | 2 clients, 9 sessions of 3 to 18 lines; symmetry | two handlers at any of their steps beside each other; every handler is called, with valid, invalid and missing arguments |
| `startup`, `startup_documented` | 3 files, 6 command lines, 4 ways to fill the form, 2 runs (the first may serve), 3 lists of radios, 2 radios, 1 peer, packets up to a third mark | a wizard run and a run that uses it; lists that grow, shrink and are empty; a packet that would be relayed or copied again |
| `log_view` | ring of 3, 7 lines per life, 4 polls, 2 in flight, 1 restart | more than two wraps; an answer overtaken by the next; a restart between request and answer |

Fairness is that goroutines which can run do run (weak fairness per goroutine),
and nothing is asked of clients.  Two more assumptions: in
`SmartSDRProxy` the radio works off the commands it has been sent, which
`LastOneCleans` needs; in `HamlibServer` a writer gets its turn at the mutex
(strong fairness of the acquisitions: `sync.Mutex`, which orders the writers
of an `RWMutex`, turns starvation-free after a millisecond).
In `RadioLifecycle` a dial need never return, the station and slice waited for
need never appear, and the radio need never drop; main must get on all the
same.  In `HamlibServer` the radio need never answer.  In `ClientStream` the
tickers of the relays run, in `DiscoveryRelay` time passes, in `Picker` the
goroutines of the scan and the event loop run; no user, peer or radio has to do
anything.

`CHECK_DEADLOCK FALSE` is set where the system legitimately comes to rest:
`WebConfig` when all requests are answered, `HamlibServer` after the shutdown,
`LogPoller` when its bounded lines and polls are used up, `RigControl` when the
clients have left or a command has taken the program down, `DiscoveryRelay` when
its bounded runs are over.  The other modules
state their final states as a stuttering disjunct and leave the deadlock check
on.

What the properties say is in the comment above each.  The runs check few type
invariants: those of the modules with a proof module are theorems, and the one
of `DiscoveryRelay`, which is a theorem too, is also checked by `startup`, being
the one over the most loosely typed values.  The properties that carry most:
`RegistryExact`, `OwnedTracksGrants` and `LastOneCleans` (proxy);
`OwnAddressAnswered` and `RelaysEnd` (one session); `OneRunner`,
`ShutdownStops` and `ConfigTakesEffect` (connection); `ChangeIsSignalled`
(configuration); `ShutdownCompletes` and `CommandAnswered` (Hamlib);
`SlotsAreTheLast` and `NothingSkipped` (logs); `MapsAgree`, `MapFollowsRadio`
and `ValueOfLevel` (meters); `DispatchExact`, `ReadsBack` and `KeysOwnSlice`
(Hamlib handlers); `SetupTakesEffect` and `WizardKeepsTheRest` (configuration
file); `NoEcho` and `AdvertisedIsServed` (discovery).

## Where code and text disagree

- `lifecycle_lost`: a fan-out goroutine that was spawned but did not run during
  its round takes the reconnect token meant for the next one, and the new
  configuration is not used (`main.go:459`, against `web.go:101`).
- `startup_documented`: the README's first command, which is also the service
  file's, ends in `log.Fatal` unless the proxy's address is given: it is looked
  up by dialling `:discover:` before any radio has been discovered
  (`main.go:430`, against `README.md:15` and `README.md:35`).  The service is
  restarted and ends again.

Seen while modelling and not stated by a run, because the text makes no clear
promise or the models follow the code and say in a property what remains true:

- Proxy: owned sets only grow, so that the clean-up removes what has since
  become somebody else's (`proxy.go:512`, `672`); with another client registered
  the clean-up is skipped and nobody catches up on it (`proxy.go:502`); with the
  radio at 192.168.1.5, `ip=192.168.1.50` is changed too, and so is an
  `ip=192.168.1.5` in a response (`proxy.go:630`); a client that used a number
  again whose `client ip` had failed would have another response rewritten
  (`proxy.go:638`); a client that registers while the last one has decided to
  clean up is not counted (`proxy.go:501`);
  status lines unread when a client leaves are lost with what they announce
  (`proxy.go:616`); a datagram of the client from a port other than the one it
  named, as a NAT may choose, is taken for the radio's and sent back to the
  client (`proxy.go:454`).
- Connection: a client obtained by a dial whose round is over is never closed
  (`main.go:243`); `fc` and `SliceIdx` change at different moments
  (`main.go:251`).
- Web: overlapping requests undo each other's fields (`web.go:94`, against the
  comment at `web.go:76`) and can leave a log level applied that is not the
  configured one (`web.go:97`); a POST that changes the proxy's address makes the
  relay advertise a port nobody serves, and so does a proxy that failed to
  listen; an open page misses the lines after a restart whose numbers it has
  already had.
- Hamlib: `l` or `U` alone runs past the end of its words and takes the program
  down (`hamlib.go:258`), as does any command that needs the radio before the
  first connection, and with `-proxy-only` always (`main.go:409`); the
  `dump_state` text announces levels and functions without a handler
  (`dump_state.go:49-52`) and preamplifiers `0 8 16 24 32` where `set_level`
  takes 0 to 3; NaN passes every range check; `U TUNER 1` after `U TUNER 2`
  leaves the carrier on, the two helpers of `tuner.go:95` having each other's
  name; overlapping `M` commands may leave one's mode with the other's filter; an
  `L ATT 0` right after an `L ATT 1` may be answered `RPRT 0` and dropped because
  the copy of `rfgain` is stale (`preamp-att.go:88`); the TX flag may move away
  between the look and the keying (`ptt.go:57`).
- Meters: a level reads its meter's former value when a meter is displaced
  rather than removed, and becomes unreadable when the meter that displaced
  another is removed; `STRENGTH` reads 73 before the first packet
  (`metering.go:25`), which the model, naming values after their level, writes as
  the 0 of any other.
- Start-up: a wizard killed after `os.WriteFile` has truncated the file loses what
  an earlier one had written, and later runs use flags and defaults
  (`config.go:98`); the wizard turns a service without a port on again although its form
  says "Blank to disable"; a wizard run over a malformed file replaces it by the
  defaults; a profile in the file with "interactive" from the wizard makes the
  next start fatal; the address to advertise is computed separately in `main`
  and in `startSmartSDRProxy`.
- Rebroadcaster: with an `-allow-from` that covers its own network it hears
  itself.

## Proofs

`SmartSDRProxyProofs` is for any number of connections, handles, pans and
slices and any bounds.  Assumed: `NamesAssumption` and `BoundsAssumption`
(names are distinct, bounds are naturals).

- `TypeCorrect`: `Spec => []TypeOK`.
- `RegistryCorrect`: `Spec => []RegistryExact`.
- `ImplementsRegistry`: `Spec => RegistrySpec`.
- `OwnershipTracked`: `Spec => []OwnedTracksGrants`.

The invariant of the first three is `IInv == TypeOK /\ Greeted /\ OwnHandle /\ RegistryExact`.
`RegistryExact` alone is not inductive: that registering a session overwrites
nobody's entry needs to know that a session's handle is the one the radio gave
it (`OwnHandle`), and that the H-lines on the wire to a session are only its
own (`Greeted`).  From it the refinement follows
action by action: `ReadLine` is a `Join` when it learns the handle,
`Unregister` is a `Leave` when there is one, everything else stutters.

`OwnershipTracked` follows what the radio grants to what a session has in its
sets, which only grow.  `IInv /\ OInv` is inductive: a thing granted to a session's handle is in
its sets or on the wire to it (`NoneMissed`), and what is there was granted
(`OnlyOwn`).  That the session recognises its own needs it to have its handle by
then: the H-line is in front of every status line until it is scanned
(`HLineFirst`).  That a handle given out later was granted nothing before is
`GrantsGiven`; that a link the radio dropped creates nothing more, `DroppedDry`.

`WebProofs` is in two parts.  The first is for any capacity, texts, number of writes, polls, requests in
flight and restarts (`CapAssumption`, `MaxLinesAssumption`, `ViewAssumption`).

- `SlotsCorrect`: `PollSpec => []SlotsAreTheLast`, the arithmetic of head, wrap
  flag and modulus.
- `TypesCorrect`: `PollSpec => [](TypeOK /\ ViewTypeOK)`.
- `SinceCorrect`: `PollSpec => []SinceIsExact`: `Since` returns the kept lines
  whose number is not below the one asked for, all of them, in order.
- `ViewSkipsNothing`: `PollSpec => []NothingSkipped`.
- `ViewIsInOrder`: `PollSpec => []ShownInOrder`.

`IInv == TypeOK /\ Placed` is for the ring: `Placed` says where each of the last
lines lies in terms of `next`, which `SlotsAreTheLast` says in terms of the walk
`Since` makes.  On it rests that the numbers in the walk are consecutive, hence
that what `Since` keeps is a suffix of it, whatever number it is asked for.  What
the loop collects is found by minimal counterexample: of the arguments where it
could differ from the suffix there would be a least one (`LeastNat`).  `VInv` adds what is on its way: every line below the number of a request
or below the first line of an answer is accounted for (`Covered`), and as long as
no two polls have overlapped there is one request or one answer, which begins
where the view ends (`Alone`); that is why the order of what is shown needs
`~overlapped` and completeness does not.

The second part is about `WebConfig`, for any number of requests and any values
of the fields.

- `ConfigTypeCorrect`: `ConfigSpec => []ConfigTypeOK`.
- `LevelCorrect`: `ConfigSpec => []LevelStaysValid`.
- `ListenFixed`: `ConfigSpec => ListenNeverChanges`.
- `SignalCorrect`: `ConfigSpec => []ChangeIsSignalled`.

Checking a body and writing it back are separate steps of a handler, with others
in between.  The invariant carries what was checked over that gap: a request
that writes back holds a level that parses and the listen address that `cfg` still
has (`CommitChecked`), because nobody ever changes that address; the level a
request is about to set was parsed (`ParsedChecked`).

`MeterMapProofs` is for any meters, levels, number of rounds and bounds
(`MeterAssumption`).

- `TypeCorrect`: `Spec => []TypeOK`.
- `MapsAlwaysAgree`: `Spec => []MapsAgree`.  `TypeOK /\ MapsAgree` is inductive:
  an update that maps a meter first takes out whatever had its level, one that
  removes a meter takes out both directions.
- `NothingLeftBetweenRounds`: `Spec => []NothingBetweenRounds`, from
  `IdleIsEmpty`, which says that the maps themselves are empty between rounds:
  only a handler of the finished round could write there, and `late` says when
  one does.
- `MapsFollowTheRadio`: `Spec => []MapFollowsRadio`.
- `LevelsReadTheirOwn`: `Spec => []ValueOfLevel`.

`ValueOfLevel` leaves out the states in which a handler of an earlier round has
written late, and the meters that crossed an announcement or lost a level.

The last two are about the way of an update from the radio over the stream and
the handler's hand into the maps.  `Follows` says that the updates under way lead from
the map as it is to what the radio measures (`Orderly`): a meter is removed
before it is given another level, and the last word about each is right.  It
is stated for any queue and any map, so that appending at one end and taking from
the other are lemmas of their own.  `HeldFits` keeps the update in the handler's
hand applicable when the connection and with it the rest of the queue is gone,
`Drained` and `Unborn` say that nothing of one round reaches another, `Back` is
the converse of `MapsAgree`, and `Values` is `ValueOfLevel` for the meter instead
of the level, which is what a packet writes.

`ClientStreamProofs` is for any addresses, ports and bounds (`PortsAssumption`:
the sets of ports are disjoint; `BoundsAssumption`).

- `TypeCorrect`: `Spec => []TypeOK`.
- `OwnAddressCorrect`: `Spec => []OwnAddressAnswered` (`LanAssumption`: the
  proxy's address is not empty; `AnswersAssumption`: the forms of a message).
- `StreamCorrect`: `Spec => []StreamReachesClient`.
- `AddressHidden`: `Spec => []RadioAddressHidden`, if both addresses are texts of
  at least one character.  `RewriteRadio` is the lemma about text: replacing
  in the radio's address itself gives the proxy's and nothing else.

A command is in one place at a time: on the way from the client, in the reader,
on the way to the radio, or answered.  `InOrder` says so by the order of the
numbers along that way, `Numbered` that a number stands for the command the
client gave it to, `Remembered` that the number of a `client ip` is in
`clientIPSeqs` from the moment its line is scanned until its answer has passed.
That deleting a number never takes away another's needs all three.  `Rewired`
follows the port of a `client udpport` in the same way from the relay that
replaces it to the radio.

`RadioLifecycleProofs` is for any number of posts, clicks and faults and for both
values of `FanLag` (`LifecycleAssumption`).

- `TypeCorrect`: `Spec => []TypeOK`.
- `OneRunnerOnly`: `Spec => []OneRunner`.
- `ConnectedMeansConnected`: `Spec => []ConnectedIsConsistent`.

The invariant adds what main has set by the time it is where it is
(`MainHolds`), that `fc.Run` is started once per round (`StartedOnce`), and that
a dial which is ready has a connection nobody has closed (`ReadyIsUp`), as only a
dial that was taken is.  `Signalled` bounds the handlers that have yet to signal,
which the types need.

`HamlibServerProofs` is for any number of clients and lines (`ServerAssumption`).

- `TypeCorrect`: `Spec => []TypeOK`.
- `LockCorrect`: `Spec => []LockExact`: nobody but those whose code says so holds
  the RWMutex or waits for it, on any path, so that none keeps it or gives back
  what it does not hold.
- `ListCorrect`: `Spec => []ListedWhileServed`: the list of the web page is exact.
- `SweepCorrect`: `Spec => []SweepMissesAtMostOne`.

That the sweep misses one connection at most needs where each client is on its way
in (`Arriving`) and that every client with a goroutine is in `s.clients`
(`Swept`): all the sweep can leave open is what the accept loop holds.

`RigControlProofs` is for any clients, lines, numbers in them, and changes made at
the radio meanwhile.  Assumed: the words of a line are strings (`LinesAssumption`);
a word strconv takes for a number is a whole number of thousandths
(`NumberAssumption`, the model's unit, in which the roundings show), and one
`Atoi` takes for one of a whole number (`WholeAssumption`); a gain that
somebody else sets is a number (`ChangesAssumption`).  The handlers are the ones
the code has.

- `DispatchCorrect`: `Spec => DispatchExact`.
- `CrashCorrect`: `Spec => []CrashesTwoWays`.
- `RepliesCorrect`: `Spec => []ReplyWellFormed`.
- `KeyingOwnSlice`: `Spec => []KeysOwnSlice`.
- `ReadBackCorrect`: `Spec => []ReadsBack`.

The crash is one of two: the walk at the end of the words, or a handler that
needs `fc` before there is one; that it is no third is what `CrashesTwoWays`
says.  The first two rest on what the table holds: under each name what the handlers
added so far say should be there, and no more (`Represents`).  `AddHandler` keeps
that because two handlers that share a name, long or short, have different required
words (`NoClash`), which is the one thing that is read off the list of handlers;
`WalkFinds` is the walk over such a table.  For `ReplyWellFormed` every handler is
shown to answer with lines without a code or with one code, at whatever point it
goes on and whatever the copy shows (`HandleFair`).  `KeysOwnSlice` speaks of the
moment a command waits; `Keying` follows the handler there: it has found the flag,
or it sent for it first, went on only when the radio accepted, and nobody's command
takes the flag away (`TakesFlag`) but somebody at the radio, which `moved` records.
That the handler of a client's line is the same when it goes on needs that the table
is complete before the first line (`Table`).

`ReadsBack` speaks of sets whose handler had the radio to itself and looked at a
current copy, at moments when the program is quiet and the copy has caught up; its invariant,
`Remembered`, of the radio at every step.  `Holds(r, i, a)` says of a state `r` of
the radio that item `i` reads in it as the arguments `a` asked.  Whoever has the
radio to himself is the only one waiting for it (`Sole`); where he waits, every
state in which the radio may answer, and where he goes on, the state it is in, is
`Reliable`: the other items hold what they were asked for, or are about to forget
it (`Others`: a gain not 0 takes that of PREAMP or ATT away), and his own handler
finds what it counts on at that point (`Own`: the mode its filter is for, the
carrier off before the bypass).  While nobody waits, all items hold (`AllHeld`).
Each handler is shown to lead from one such point to the next (the `...Outcome`
lemmas), with its roundings (`Rounded`: half up and half to even both stay within
half a unit), and what holds of the radio is what the matching get answers once
the copy has caught up (`HeldKept`).  The copy may change between two looks of one
handler: only the bypass of the tuner looks twice, and it relies on the copy saying
`BYPASS` only if the radio does, which is why no command it waits for sets `atu`.

`DiscoveryRelayProofs` is for any files, command lines, answers, lists of radios,
packets and number of runs, and covers the three modules it composes.  Assumed:
`ListsAssumption`, `InputAssumption` and `SplitAssumption` (see above), and
`RelayAssumption`: a packet that others send is unmarked and about its sender,
Flexy's own address is not that of a radio, in no file, flag, answer or list, and
the rebroadcaster was not told to trust its own network.  Without the last,
`NoEcho` is false.

- `TypeCorrect`: `Spec => []TypeOK`.
- `AdvertisedCorrect`: `Spec => []AdvertisedIsServed`, which excepts a radio or
  proxy that was POSTed and a proxy that could not listen: what is advertised then
  is wrong in the code.
- `NoEchoCorrect`: `Spec => []NoEcho`.
- `SetupTakesEffectCorrect`: `Spec => SetupTakesEffect`; after a wizard that was
  killed in its write this says that flags and defaults are in force.
- `WizardKeepsTheRestCorrect`: `Spec => WizardKeepsTheRest`, which excepts a
  listen, web or proxy address without a port: the form proposes one.

The invariant is `RInv == PickerOK /\ SettingsOK /\ PhaseOK /\ NetworksOK`.
That a packet is not relayed again comes from the settings: the relay only takes
packets of the radio's address, which wherever it came from (file, flag, list,
POST) is not Flexy's (`SettingsOK`), and all that Flexy has sent has Flexy's
(`NetworksOK`).  That a packet is not copied again comes from the rebroadcaster's
`-allow-from`.  `AdvertisedIsServed` and `SetupTakesEffect` are about settings
read long after they were made: what a packet says is related to the `cfg` of the
run that serves, less what was POSTed to it, and between two writes the file
holds what the wizard's user asked for (`wanted`); `WizardKeepsTheRest` needs that
the form still shows what was loaded when it is submitted.

Each of these invariants was given to TLC on the instance of the module's run
before it was proved.

Only model-checked:

- all liveness, which is out of TLAPS's reach here: `LastOneCleans`,
  `EitherEndEnds`, `RelaysEnd`, `HoleReopens`, `ShutdownStops`,
  `ConfigTakesEffect`, `DropIsRetried`, `ShutdownCompletes`, `CommandAnswered`,
  `AnnouncedBecomesReadable`, `LatestListShown`, `PeerIsReached`.

Every safety invariant and every action property of a passing run is a theorem.

## Not modelled

- What a session records for display only (program, station, client id,
  counters) and the unlocked reads of it by the web page: a torn read there
  is of a string nothing decides on.
- Writes that block for ever because a peer does not read.  A Hamlib client
  that stops reading would hold the read lock, and with it the shutdown.
- The read-only handlers of the web server but the log and the meters, page
  rendering, embedding, socket options, the enumeration of interfaces, build and
  CI: presentation and I/O without state of their own.
- The widgets of the wizard's form and of the picker, which belong to libraries;
  the form is what it proposes and what it makes of the answers.
- `RewriteDiscoveryIPs` and `FindOne`, which nothing but tests calls.
- A change of `cfg.RadioIP` under a proxy session: the session keeps its
  connection to the old radio, and what it should rewrite then is not said
  anywhere.

## Plan

Written, in the order of importance: the proxy, the connection loop, the Hamlib
server, configuration, logs; then the meters, the handler table and the Hamlib
handlers, and the way from a configuration file to what the networks are told.
The project keeps to a dozen runs so that a full check stays short.

What is left: abstract specifications of the Hamlib server and of the connection
loop, of the kind `ClientRegistry` is of the proxy, with the detailed modules
shown to implement them, and shorter proofs where a lemma can serve two modules.
