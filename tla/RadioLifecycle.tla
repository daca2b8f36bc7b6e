--------------------------- MODULE RadioLifecycle ---------------------------
(***************************************************************************)
(* The radio connection of cmd/flexy/main.go: main's connection loop, the  *)
(* fan-out goroutine each round starts, runRadio with the two goroutines   *)
(* it starts (the dial and fc.Run), the connection state the web UI shows, *)
(* and the web handlers that request a reconnect through reconnectCh.      *)
(*                                                                         *)
(* Rounds of the loop are numbered; what belongs to a round (its contexts, *)
(* goroutines and FlexClient) is indexed by its number.                    *)
(***************************************************************************)
EXTENDS Naturals

CONSTANTS
    MaxPosts,    \* bound: accepted POST /api/config requests
    MaxClicks,   \* bound: POST /api/reconnect requests
    MaxFaults,   \* bound: failed dials and set-ups, connections dropped
    FanLag       \* may a fan-out goroutine first run after its round ended?

ASSUME LifecycleAssumption ==
    /\ MaxPosts \in Nat /\ MaxClicks \in Nat /\ MaxFaults \in Nat
    /\ FanLag \in BOOLEAN

(* A round ends for a request, a fault or the shutdown, so there are no    *)
(* more rounds than these: the bounds above are the only ones.             *)
Rounds == 1..(2 + MaxPosts + MaxClicks + MaxFaults)

VARIABLES
    \* --- main ---
    iter,        \* the round main is in
    pc,          \* where main is
    err,         \* what runRadio is about to return: "canceled", "failed"
    state,       \* connState
    fc,          \* the round whose FlexClient the global fc holds, 0 for nil
    sliceOf,     \* the round whose radio named SliceIdx, 0 for ""
    \* --- contexts and the reconnect channel ---
    cancelled,   \* rounds whose connCtx has been cancelled by connCancel
    rootDone,    \* rootCtx has been cancelled
    fan,         \* fan[k]: the fan-out goroutine of round k
    reconnect,   \* tokens in reconnectCh, which has room for one
    \* --- the round's connection ---
    dial,        \* dial[k]: the goroutine that calls NewFlexClient
    dialCfg,     \* dialCfg[k]: the configuration it read
    conn,        \* conn[k]: the TCP connection of round k's FlexClient
    runner,      \* runner[k]: the goroutine in fc.Run
    \* --- the web handlers ---
    cfgVer,      \* the configuration, counted by the POSTs accepted
    toSignal,    \* handlers that have yet to signal reconnectCh
    clicks,
    faults

mainVars == <<iter, pc, err, state, fc, sliceOf>>
ctxVars == <<cancelled, rootDone, fan, reconnect>>
connVars == <<dial, dialCfg, conn, runner>>
webVars == <<cfgVer, toSignal, clicks>>
vars == <<mainVars, ctxVars, connVars, webVars, faults>>

Init ==
    /\ iter = 0
    /\ pc = "loop"
    /\ err = "none"
    /\ state = "disconnected"
    /\ fc = 0
    /\ sliceOf = 0
    /\ cancelled = {}
    /\ rootDone = FALSE
    /\ fan = [k \in Rounds |-> "none"]
    /\ reconnect = 0
    /\ dial = [k \in Rounds |-> "none"]
    /\ dialCfg = [k \in Rounds |-> 0]
    /\ conn = [k \in Rounds |-> "none"]
    /\ runner = [k \in Rounds |-> "none"]
    /\ cfgVer = 1
    /\ toSignal = 0
    /\ clicks = 0
    /\ faults = 0

(* connCtx.Err() # nil, and runCtx.Err() # nil: runCtx ends with fc.Run.   *)
ConnDone(k) == rootDone \/ k \in cancelled
RunDone(k) == ConnDone(k) \/ runner[k] = "exited"

Fault == faults < MaxFaults /\ faults' = faults + 1

-----------------------------------------------------------------------------
(* The connection loop and runRadio, both on the main goroutine.           *)

(* A new round: connCtx and its fan-out goroutine, then runRadio with its  *)
(* first state and its dial goroutine.                                     *)
StartRound ==
    /\ pc = "loop"
    /\ iter + 1 \in Rounds
    /\ iter' = iter + 1
    /\ fan' = [fan EXCEPT ![iter + 1] = "spawned"]
    /\ dial' = [dial EXCEPT ![iter + 1] = "spawned"]
    /\ state' = "connecting"
    /\ pc' = "dial"
    /\ UNCHANGED <<err, fc, sliceOf, cancelled, rootDone, reconnect, dialCfg,
                   conn, runner, webVars, faults>>

(* The select of runRadio: either case may be taken when both are ready.   *)
DialCancelled ==
    /\ pc = "dial"
    /\ ConnDone(iter)
    /\ state' = "disconnected"
    /\ err' = "canceled"
    /\ pc' = "returned"
    /\ UNCHANGED <<iter, fc, sliceOf, ctxVars, connVars, webVars, faults>>

DialFailed ==
    /\ pc = "dial"
    /\ dial[iter] = "failed"
    /\ state' = "error"
    /\ err' = "failed"
    /\ pc' = "returned"
    /\ UNCHANGED <<iter, fc, sliceOf, ctxVars, connVars, webVars, faults>>

(* The new client becomes the global fc, and fc.Run is started.            *)
DialDone ==
    /\ pc = "dial"
    /\ dial[iter] = "ready"
    /\ dial' = [dial EXCEPT ![iter] = "taken"]
    /\ fc' = iter
    /\ runner' = [runner EXCEPT ![iter] = "run"]
    /\ pc' = "setup"
    /\ UNCHANGED <<iter, err, state, sliceOf, ctxVars, dialCfg, conn, webVars,
                   faults>>

(* createClient or bindClient.  Waiting for the station or for an answer   *)
(* ends with runCtx; the radio may refuse.                                 *)
SetupOk ==
    /\ pc = "setup"
    /\ pc' = "slice"
    /\ UNCHANGED <<iter, err, state, fc, sliceOf, ctxVars, connVars, webVars,
                   faults>>

SetupFails ==
    /\ pc = "setup"
    /\ \/ RunDone(iter) /\ err' = "canceled" /\ UNCHANGED faults
       \/ Fault /\ err' = "failed"
    /\ pc' = "abort"
    /\ UNCHANGED <<iter, state, fc, sliceOf, ctxVars, connVars, webVars>>

(* findSlice: SliceIdx is set when the slice is seen; only runCtx ends it. *)
SliceFound ==
    /\ pc = "slice"
    /\ sliceOf' = iter
    /\ pc' = "subscribe"
    /\ UNCHANGED <<iter, err, state, fc, ctxVars, connVars, webVars, faults>>

(* Mutant: the wait watches fc.Run but not the contexts.                   *)
SliceCancelledByDropOnly ==
    /\ pc = "slice"
    /\ runner[iter] = "exited"
    /\ err' = "canceled"
    /\ pc' = "abort"
    /\ UNCHANGED <<iter, state, fc, sliceOf, ctxVars, connVars, webVars, faults>>

(* Mutant: the wait watches the contexts but not fc.Run.                   *)
SliceCancelledByContextOnly ==
    /\ pc = "slice"
    /\ ConnDone(iter)
    /\ err' = "canceled"
    /\ pc' = "abort"
    /\ UNCHANGED <<iter, state, fc, sliceOf, ctxVars, connVars, webVars, faults>>

SliceCancelled ==
    /\ pc = "slice"
    /\ RunDone(iter)
    /\ err' = "canceled"
    /\ pc' = "abort"
    /\ UNCHANGED <<iter, state, fc, sliceOf, ctxVars, connVars, webVars, faults>>

(* The three subscriptions, whose errors are only logged, and metering. (A *)
(* failed InitUDP ends the program, metering.go:60: left out.)             *)
Connected ==
    /\ pc = "subscribe"
    /\ state' = "connected"
    /\ pc' = "connected"
    /\ UNCHANGED <<iter, err, fc, sliceOf, ctxVars, connVars, webVars, faults>>

(* Mutant of Disconnected: the state is left as it was.                    *)
DisconnectedUnseen ==
    /\ pc = "connected"
    /\ RunDone(iter)
    /\ err' = "canceled"
    /\ pc' = "close"
    /\ UNCHANGED <<iter, state, fc, sliceOf, ctxVars, connVars, webVars, faults>>

(* <-runCtx.Done()                                                         *)
Disconnected ==
    /\ pc = "connected"
    /\ RunDone(iter)
    /\ state' = "disconnected"
    /\ err' = "canceled"
    /\ pc' = "close"
    /\ UNCHANGED <<iter, fc, sliceOf, ctxVars, connVars, webVars, faults>>

(* Mutant of CloseClient: wg.Wait is left out.                             *)
CloseClientNoWait ==
    /\ pc \in {"close", "abort"}
    /\ conn' = [conn EXCEPT ![iter] = "closed"]
    /\ pc' = "returned"
    /\ UNCHANGED <<iter, err, state, fc, sliceOf, ctxVars, dial, dialCfg, runner,
                   webVars, faults>>

(* fc.Close, after which wg.Wait blocks until fc.Run has returned.         *)
CloseClient ==
    /\ pc \in {"close", "abort"}
    /\ conn' = [conn EXCEPT ![iter] = "closed"]
    /\ pc' = IF pc = "close" THEN "wait" ELSE "abortWait"
    /\ UNCHANGED <<iter, err, state, fc, sliceOf, ctxVars, dial, dialCfg, runner,
                   webVars, faults>>

(* wg.Wait is over.  A set-up that failed shows its error, unless the      *)
(* round was cancelled from outside.                                       *)
RunReturned ==
    /\ pc \in {"wait", "abortWait"}
    /\ runner[iter] = "exited"
    /\ state' = IF pc = "abortWait" /\ ~ConnDone(iter) THEN "error" ELSE state
    /\ pc' = "returned"
    /\ UNCHANGED <<iter, err, fc, sliceOf, ctxVars, connVars, webVars, faults>>

(* runRadio has returned: connCancel, then stop, wait or go round again.   *)
(* A fan-out goroutine parked in its select is released by connCancel.     *)
RoundOver ==
    /\ pc = "returned"
    /\ FanLag \/ fan[iter] # "spawned"
    /\ cancelled' = cancelled \cup {iter}
    /\ fan' = [fan EXCEPT ![iter] = IF @ = "parked" THEN "done" ELSE @]
    /\ pc' = IF rootDone THEN "stopped"
             ELSE IF err = "failed" THEN "delay" ELSE "loop"
    /\ UNCHANGED <<iter, err, state, fc, sliceOf, rootDone, reconnect, connVars,
                   webVars, faults>>

(* The 5 s wait, which rootCtx cuts short.  Whatever the scheduler does, a *)
(* goroutine that can run has run by then.                                 *)
DelayOver ==
    /\ pc = "delay"
    /\ fan[iter] # "spawned"
    /\ pc' = IF rootDone THEN "stopped" ELSE "loop"
    /\ UNCHANGED <<iter, err, state, fc, sliceOf, ctxVars, connVars, webVars,
                   faults>>

Main ==
    \/ StartRound \/ DialCancelled \/ DialFailed \/ DialDone
    \/ SetupOk \/ SetupFails \/ SliceFound \/ SliceCancelled
    \/ Connected \/ Disconnected \/ CloseClient \/ RunReturned
    \/ RoundOver \/ DelayOver

-----------------------------------------------------------------------------
(* The fan-out goroutine of round k.                                       *)

FanPark(k) ==
    /\ fan[k] = "spawned"
    /\ reconnect = 0
    /\ ~ConnDone(k)
    /\ fan' = [fan EXCEPT ![k] = "parked"]
    /\ UNCHANGED <<mainVars, cancelled, rootDone, reconnect, connVars, webVars,
                   faults>>

FanTakesToken(k) ==
    /\ fan[k] = "spawned"
    /\ reconnect = 1
    /\ reconnect' = 0
    /\ fan' = [fan EXCEPT ![k] = "token"]
    /\ UNCHANGED <<mainVars, cancelled, rootDone, connVars, webVars, faults>>

FanSeesDone(k) ==
    /\ fan[k] \in {"spawned", "parked"}
    /\ ConnDone(k)
    /\ fan' = [fan EXCEPT ![k] = "done"]
    /\ UNCHANGED <<mainVars, cancelled, rootDone, reconnect, connVars, webVars,
                   faults>>

(* connCancel(), called by the fan-out goroutine.                          *)
FanCancels(k) ==
    /\ fan[k] = "token"
    /\ fan' = [fan EXCEPT ![k] = "done"]
    /\ cancelled' = cancelled \cup {k}
    /\ UNCHANGED <<mainVars, rootDone, reconnect, connVars, webVars, faults>>

Fan(k) == FanPark(k) \/ FanTakesToken(k) \/ FanSeesDone(k) \/ FanCancels(k)

-----------------------------------------------------------------------------
(* The dial goroutine of round k and fc.Run.  Nothing interrupts either    *)
(* from outside: NewFlexClient ends when a radio answers or the dial fails. *)

DialReads(k) ==
    /\ dial[k] = "spawned"
    /\ dial' = [dial EXCEPT ![k] = "pending"]
    /\ dialCfg' = [dialCfg EXCEPT ![k] = cfgVer]
    /\ UNCHANGED <<mainVars, ctxVars, conn, runner, webVars, faults>>

DialReturns(k) ==
    /\ dial[k] = "pending"
    /\ \/ /\ dial' = [dial EXCEPT ![k] = "ready"]
          /\ conn' = [conn EXCEPT ![k] = "open"]
          /\ UNCHANGED faults
       \/ /\ Fault
          /\ dial' = [dial EXCEPT ![k] = "failed"]
          /\ UNCHANGED conn
    /\ UNCHANGED <<mainVars, ctxVars, dialCfg, runner, webVars>>

RunExits(k) ==
    /\ runner[k] = "run"
    /\ conn[k] \in {"closed", "dropped"}
    /\ runner' = [runner EXCEPT ![k] = "exited"]
    /\ UNCHANGED <<mainVars, ctxVars, dial, dialCfg, conn, webVars, faults>>

RadioDrops(k) ==
    /\ conn[k] = "open"
    /\ Fault
    /\ conn' = [conn EXCEPT ![k] = "dropped"]
    /\ UNCHANGED <<mainVars, ctxVars, dial, dialCfg, runner, webVars>>

-----------------------------------------------------------------------------
(* The web handlers and the signal handler.                                *)

(* cfg = incoming, in an accepted POST /api/config.                        *)
PostConfig ==
    /\ cfgVer <= MaxPosts
    /\ cfgVer' = cfgVer + 1
    /\ toSignal' = toSignal + 1
    /\ UNCHANGED <<mainVars, ctxVars, connVars, clicks, faults>>

PostReconnect ==
    /\ clicks < MaxClicks
    /\ clicks' = clicks + 1
    /\ toSignal' = toSignal + 1
    /\ UNCHANGED <<mainVars, ctxVars, connVars, cfgVer, faults>>

Parked == {k \in Rounds : fan[k] = "parked"}

(* Mutant of Signal: the token is not kept when nobody waits for it.       *)
SignalUnbuffered ==
    /\ toSignal > 0
    /\ toSignal' = toSignal - 1
    /\ IF Parked # {}
       THEN \E k \in Parked : fan' = [fan EXCEPT ![k] = "token"]
       ELSE UNCHANGED fan
    /\ UNCHANGED <<mainVars, cancelled, rootDone, reconnect, connVars, cfgVer,
                   clicks, faults>>

(* The non-blocking send: to a goroutine parked on the channel, else into  *)
(* its one place, else the token is dropped.                               *)
Signal ==
    /\ toSignal > 0
    /\ toSignal' = toSignal - 1
    /\ IF Parked # {}
       THEN /\ \E k \in Parked : fan' = [fan EXCEPT ![k] = "token"]
            /\ UNCHANGED reconnect
       ELSE /\ reconnect' = 1
            /\ UNCHANGED fan
    /\ UNCHANGED <<mainVars, cancelled, rootDone, connVars, cfgVer, clicks,
                   faults>>

(* SIGINT or SIGTERM.                                                      *)
Shutdown ==
    /\ ~rootDone
    /\ rootDone' = TRUE
    /\ UNCHANGED <<mainVars, cancelled, fan, reconnect, connVars, webVars, faults>>

-----------------------------------------------------------------------------
Next ==
    \/ Main
    \/ \E k \in Rounds : \/ Fan(k)
                         \/ DialReads(k) \/ DialReturns(k)
                         \/ RunExits(k) \/ RadioDrops(k)
    \/ PostConfig \/ PostReconnect \/ Signal
    \/ Shutdown
    \/ pc = "stopped" /\ UNCHANGED vars

Spec == Init /\ [][Next]_vars

(* The main goroutine advances whenever it can (the station and the slice  *)
(* it waits for may never come: SetupOk and SliceFound are not promised);  *)
(* goroutines run, handlers finish.  A dial may hang for ever.             *)
FairSpec ==
    /\ Spec
    /\ WF_vars(Main /\ pc \notin {"setup", "slice"})
    /\ WF_vars((SetupFails \/ SliceCancelled) /\ RunDone(iter))
    /\ WF_vars(Signal)
    /\ \A k \in Rounds : /\ WF_vars(Fan(k))
                         /\ WF_vars(DialReads(k))
                         /\ WF_vars(RunExits(k))

-----------------------------------------------------------------------------
TypeOK ==
    /\ iter \in Rounds \cup {0}
    /\ pc \in {"loop", "dial", "setup", "slice", "subscribe", "connected",
               "close", "wait", "abort", "abortWait", "returned", "delay",
               "stopped"}
    /\ err \in {"none", "canceled", "failed"}
    /\ state \in {"disconnected", "connecting", "connected", "error"}
    /\ fc \in Rounds \cup {0}
    /\ sliceOf \in Rounds \cup {0}
    /\ cancelled \subseteq Rounds
    /\ rootDone \in BOOLEAN
    /\ fan \in [Rounds -> {"none", "spawned", "parked", "token", "done"}]
    /\ reconnect \in 0..1
    /\ dial \in [Rounds -> {"none", "spawned", "pending", "ready", "failed",
                            "taken"}]
    /\ dialCfg \in [Rounds -> 0..(MaxPosts + 1)]
    /\ conn \in [Rounds -> {"none", "open", "dropped", "closed"}]
    /\ runner \in [Rounds -> {"none", "run", "exited"}]
    /\ cfgVer \in 1..(MaxPosts + 1)
    /\ toSignal \in 0..(MaxPosts + MaxClicks)
    /\ clicks \in 0..MaxClicks
    /\ faults \in 0..MaxFaults

(* Only the round main is in has a FlexClient running: its predecessors'   *)
(* fc.Run has returned before a new one starts, so the two never update    *)
(* the shared meter tables and the global fc side by side.                 *)
OneRunner ==
    \A k \in Rounds : runner[k] = "run" =>
        k = iter /\ pc \notin {"loop", "dial", "returned", "delay", "stopped"}

(* While the web UI is shown "connected", fc and SliceIdx, which the       *)
(* status handler combines, come from the same connection, and main has    *)
(* neither closed it nor replaced it.                                      *)
ConnectedIsConsistent ==
    state = "connected" =>
        /\ fc = iter
        /\ sliceOf = iter
        /\ conn[iter] \in {"open", "dropped"}

(* SIGTERM ends the connection loop whatever it waits for: a dial that     *)
(* hangs, a station or a slice that never appears, the radio, the delay.   *)
ShutdownStops == rootDone ~> pc = "stopped"

(* A configuration that was accepted is used: a dial that began after it   *)
(* follows, unless the daemon is told to stop.  Holds when the fan-out     *)
(* goroutine of a round has reached its select before the round is over:   *)
(* parked there, it is released by the token or by connCancel, whichever   *)
(* comes first.  One that was spawned and has not run until then may find  *)
(* both ready and take a token that was meant for the next round.          *)
ConfigTakesEffect ==
    \A v \in 1..(MaxPosts + 1) :
        cfgVer >= v ~> rootDone \/ \E k \in Rounds : dialCfg[k] >= v

(* A dropped connection is replaced, wherever main is with it: when it has *)
(* not taken it from the dial yet, in one of the waits of the set-up, whose*)
(* answers then never come, or connected. main leaves it and starts a new  *)
(* round unless it is told to stop.                                        *)
DropIsRetried ==
    \A k \in Rounds : (iter = k /\ conn[k] = "dropped") ~> (iter > k \/ rootDone)
=============================================================================
