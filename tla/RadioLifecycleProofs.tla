------------------------ MODULE RadioLifecycleProofs -------------------------
(* What RadioLifecycle promises for any number of posts, clicks and faults *)
(* and however late the fan-out goroutines run.                            *)
EXTENDS RadioLifecycle, TLAPS

(* A handler that has yet to signal belongs to a request that was made.    *)
Signalled == toSignal <= (cfgVer - 1) + clicks

(* Where runRadio has a FlexClient, and where it has not closed it.        *)
HasClient == {"setup", "slice", "subscribe", "connected", "close", "wait",
              "abort", "abortWait"}
HasOpen == HasClient \ {"wait", "abortWait"}

(* fc.Run is started once per round, after the dial.                       *)
StartedOnce ==
    \A k \in Rounds : runner[k] # "none" => k <= iter /\ (k = iter => pc # "dial")

(* A dial that is ready has a connection nobody has closed: only CloseClient *)
(* does, and it closes that of a dial that was taken.                      *)
ReadyIsUp == \A k \in Rounds : dial[k] = "ready" => conn[k] \in {"open", "dropped"}

(* What main has set by the time it is where it is.                        *)
MainHolds ==
    /\ pc # "loop" => iter \in Rounds
    /\ pc \in HasClient => fc = iter /\ dial[iter] = "taken"
    /\ pc \in HasOpen => conn[iter] \in {"open", "dropped"}
    /\ pc \in {"subscribe", "connected"} => sliceOf = iter
    /\ state = "connected" => pc = "connected"

IInv == TypeOK /\ Signalled /\ OneRunner /\ StartedOnce /\ ReadyIsUp /\ MainHolds

LEMMA RoundsType == \A k \in Rounds : k \in Nat /\ k >= 1
<1>1. 2 + MaxPosts + MaxClicks + MaxFaults \in Nat
  BY LifecycleAssumption
<1>. QED
  BY <1>1 DEF Rounds

LEMMA InitIInv == Init => IInv
<1>. SUFFICES ASSUME Init PROVE IInv
  OBVIOUS
<1>1. TypeOK
  <2>1. /\ 0 \in 0..(MaxPosts + 1) /\ 1 \in 1..(MaxPosts + 1)
        /\ 0 \in 0..(MaxPosts + MaxClicks) /\ 0 \in 0..MaxClicks
        /\ 0 \in 0..MaxFaults
    BY LifecycleAssumption
  <2>2. /\ fan \in [Rounds -> {"none", "spawned", "parked", "token", "done"}]
        /\ dial \in [Rounds -> {"none", "spawned", "pending", "ready", "failed",
                               "taken"}]
        /\ conn \in [Rounds -> {"none", "open", "dropped", "closed"}]
        /\ runner \in [Rounds -> {"none", "run", "exited"}]
    BY DEF Init
  <2>3. dialCfg \in [Rounds -> 0..(MaxPosts + 1)]
    BY <2>1 DEF Init
  <2>. QED
    <3>1. /\ iter \in Rounds \cup {0} /\ fc \in Rounds \cup {0} /\ sliceOf \in Rounds \cup {0}
          /\ cancelled \subseteq Rounds /\ rootDone \in BOOLEAN
      BY DEF Init
    <3>2. /\ pc \in {"loop", "dial", "setup", "slice", "subscribe", "connected",
                   "close", "wait", "abort", "abortWait", "returned", "delay",
                   "stopped"}
          /\ err \in {"none", "canceled", "failed"}
          /\ state \in {"disconnected", "connecting", "connected", "error"}
      BY DEF Init
    <3>3. reconnect \in 0..1
      BY DEF Init
    <3>4. cfgVer \in 1..(MaxPosts + 1) /\ toSignal \in 0..(MaxPosts + MaxClicks)
      BY <2>1 DEF Init
    <3>5. clicks \in 0..MaxClicks /\ faults \in 0..MaxFaults
      BY <2>1 DEF Init
    <3>. QED
      BY <2>2, <2>3, <3>1, <3>2, <3>3, <3>4, <3>5 DEF TypeOK
<1>2. Signalled /\ OneRunner /\ StartedOnce /\ ReadyIsUp /\ MainHolds
  BY DEF Init, Signalled, OneRunner, StartedOnce, ReadyIsUp, MainHolds, HasClient, HasOpen
<1>. QED
  BY <1>1, <1>2 DEF IInv

(* Rounds begin: nothing runs yet, and a new round's fc.Run comes later.   *)
LEMMA StartRoundStep == ASSUME IInv, StartRound PROVE IInv'
<1>. USE DEF IInv
<1>1. TypeOK' /\ Signalled'
  BY DEF StartRound, TypeOK, Signalled, webVars
<1>2. \A k \in Rounds : runner[k] # "run"
  BY DEF StartRound, OneRunner
<1>3. OneRunner'
  BY <1>2 DEF StartRound, OneRunner
<1>4. StartedOnce'
  BY RoundsType DEF StartRound, StartedOnce, TypeOK
<1>5. ReadyIsUp'
  BY DEF StartRound, ReadyIsUp, TypeOK
<1>6. MainHolds'
  BY DEF StartRound, MainHolds, HasClient, HasOpen
<1>. QED
  BY <1>1, <1>3, <1>4, <1>5, <1>6

LEMMA DialOutcomeStep == ASSUME IInv, DialCancelled \/ DialFailed PROVE IInv'
<1>. USE DEF IInv, ctxVars, connVars, webVars
<1>1. TypeOK' /\ Signalled'
  BY DEF DialCancelled, DialFailed, TypeOK, Signalled
<1>2. \A k \in Rounds : runner[k] # "run"
  BY DEF DialCancelled, DialFailed, OneRunner, StartedOnce
<1>3. OneRunner' /\ StartedOnce'
  BY <1>2 DEF DialCancelled, DialFailed, OneRunner, StartedOnce
<1>4. ReadyIsUp'
  BY DEF DialCancelled, DialFailed, ReadyIsUp
<1>5. MainHolds'
  BY DEF DialCancelled, DialFailed, MainHolds, HasClient, HasOpen
<1>. QED
  BY <1>1, <1>3, <1>4, <1>5

(* The dial of this round is taken, and its client run.                    *)
LEMMA DialDoneStep == ASSUME IInv, DialDone PROVE IInv'
<1>. USE DEF IInv, ctxVars, webVars
<1>1. iter \in Rounds /\ conn[iter] \in {"open", "dropped"}
  BY DEF DialDone, MainHolds, ReadyIsUp
<1>2. TypeOK' /\ Signalled'
  BY <1>1 DEF DialDone, TypeOK, Signalled
<1>3. OneRunner'
  BY <1>1 DEF DialDone, OneRunner, TypeOK
<1>4. StartedOnce'
  BY <1>1, RoundsType DEF DialDone, StartedOnce, TypeOK
<1>5. ReadyIsUp'
  BY DEF DialDone, ReadyIsUp, TypeOK
<1>6. MainHolds'
  BY <1>1 DEF DialDone, MainHolds, HasClient, HasOpen, TypeOK
<1>. QED
  BY <1>2, <1>3, <1>4, <1>5, <1>6

(* The steps of set-up and of the connected state: main moves on with the  *)
(* same client.                                                            *)
LEMMA SetupStep ==
    ASSUME IInv, SetupOk \/ SetupFails \/ SliceFound \/ SliceCancelled \/ Connected
                 \/ Disconnected
    PROVE  IInv'
<1>. USE DEF IInv, ctxVars, connVars, webVars, SetupOk, SetupFails, SliceFound,
             SliceCancelled, Connected, Disconnected, Fault
<1>1. TypeOK'
  BY LifecycleAssumption DEF TypeOK, MainHolds
<1>2. Signalled' /\ ReadyIsUp'
  BY DEF Signalled, ReadyIsUp
<1>3. OneRunner' /\ StartedOnce'
  BY DEF OneRunner, StartedOnce
<1>4. MainHolds'
  BY DEF MainHolds, HasClient, HasOpen
<1>. QED
  BY <1>1, <1>2, <1>3, <1>4

LEMMA CloseClientStep == ASSUME IInv, CloseClient PROVE IInv'
<1>. USE DEF IInv, ctxVars, webVars
<1>1. iter \in Rounds /\ dial[iter] = "taken"
  BY DEF CloseClient, MainHolds, HasClient
<1>2. TypeOK' /\ Signalled'
  BY <1>1 DEF CloseClient, TypeOK, Signalled
<1>3. OneRunner' /\ StartedOnce'
  BY DEF CloseClient, OneRunner, StartedOnce
<1>4. ReadyIsUp'
  BY <1>1 DEF CloseClient, ReadyIsUp, TypeOK
<1>5. MainHolds'
  BY DEF CloseClient, MainHolds, HasClient, HasOpen
<1>. QED
  BY <1>2, <1>3, <1>4, <1>5

(* wg.Wait is over: what ran has exited.                                   *)
LEMMA RunReturnedStep == ASSUME IInv, RunReturned PROVE IInv'
<1>. USE DEF IInv, ctxVars, connVars, webVars
<1>1. TypeOK' /\ Signalled' /\ ReadyIsUp'
  BY DEF RunReturned, TypeOK, Signalled, ReadyIsUp
<1>2. OneRunner' /\ StartedOnce'
  BY DEF RunReturned, OneRunner, StartedOnce
<1>3. MainHolds'
  BY DEF RunReturned, MainHolds, HasClient, HasOpen
<1>. QED
  BY <1>1, <1>2, <1>3

LEMMA RoundOverStep == ASSUME IInv, RoundOver \/ DelayOver PROVE IInv'
<1>. USE DEF IInv, ctxVars, connVars, webVars, RoundOver, DelayOver
<1>1. TypeOK'
  BY DEF TypeOK, MainHolds
<1>2. Signalled' /\ ReadyIsUp' /\ OneRunner' /\ StartedOnce'
  BY DEF Signalled, ReadyIsUp, OneRunner, StartedOnce
<1>3. MainHolds'
  BY DEF MainHolds, HasClient, HasOpen
<1>. QED
  BY <1>1, <1>2, <1>3

LEMMA MainStep == ASSUME IInv, Main PROVE IInv'
BY StartRoundStep, DialOutcomeStep, DialDoneStep, SetupStep, CloseClientStep,
   RunReturnedStep, RoundOverStep DEF Main

(* Contexts, the reconnect channel and the web handlers touch neither main *)
(* nor a connection.                                                       *)
LEMMA ContextStep ==
    ASSUME IInv, (\E k \in Rounds : Fan(k)) \/ PostConfig \/ PostReconnect \/ Signal
                 \/ Shutdown
    PROVE  IInv'
<1>. USE DEF IInv, mainVars, ctxVars, connVars
<1>1. UNCHANGED <<mainVars, connVars>>
  BY DEF Fan, FanPark, FanTakesToken, FanSeesDone, FanCancels, PostConfig,
         PostReconnect, Signal, Shutdown
<1>2. OneRunner' /\ StartedOnce' /\ ReadyIsUp' /\ MainHolds'
  BY <1>1 DEF OneRunner, StartedOnce, ReadyIsUp, MainHolds
<1>3. ASSUME NEW k \in Rounds, Fan(k) PROVE TypeOK' /\ Signalled'
  <2>. USE DEF TypeOK, Signalled, webVars
  <2>1. CASE FanPark(k)
    BY <2>1 DEF FanPark
  <2>2. CASE FanTakesToken(k)
    BY <2>2 DEF FanTakesToken
  <2>3. CASE FanSeesDone(k)
    BY <2>3 DEF FanSeesDone
  <2>4. CASE FanCancels(k)
    BY <2>4 DEF FanCancels
  <2>. QED
    BY <1>3, <2>1, <2>2, <2>3, <2>4 DEF Fan
<1>4. CASE PostConfig \/ PostReconnect
  <2>1. /\ MaxPosts \in Nat /\ MaxClicks \in Nat
        /\ cfgVer \in 1..(MaxPosts + 1) /\ clicks \in 0..MaxClicks
        /\ toSignal \in 0..(MaxPosts + MaxClicks)
        /\ toSignal <= (cfgVer - 1) + clicks
    BY LifecycleAssumption DEF TypeOK, Signalled
  <2>2. /\ cfgVer' \in 1..(MaxPosts + 1) /\ clicks' \in 0..MaxClicks
        /\ toSignal' \in 0..(MaxPosts + MaxClicks)
        /\ toSignal' <= (cfgVer' - 1) + clicks'
    <3>1. CASE PostConfig
      BY <2>1, <3>1 DEF PostConfig
    <3>2. CASE PostReconnect
      BY <2>1, <3>2 DEF PostReconnect
    <3>. QED
      BY <1>4, <3>1, <3>2
  <2>3. UNCHANGED <<mainVars, ctxVars, connVars, faults>>
    BY <1>4 DEF PostConfig, PostReconnect
  <2>4. TypeOK'
    BY <2>2, <2>3 DEF TypeOK
  <2>5. Signalled'
    BY <2>2 DEF Signalled
  <2>. QED
    BY <1>2, <2>4, <2>5
<1>5. CASE Signal
  <2>1. /\ toSignal' \in 0..(MaxPosts + MaxClicks)
        /\ toSignal' <= (cfgVer' - 1) + clicks'
    <3>1. /\ MaxPosts \in Nat /\ MaxClicks \in Nat
          /\ cfgVer \in 1..(MaxPosts + 1) /\ clicks \in 0..MaxClicks
          /\ toSignal \in 0..(MaxPosts + MaxClicks)
          /\ toSignal <= (cfgVer - 1) + clicks
      BY LifecycleAssumption DEF TypeOK, Signalled
    <3>2. toSignal > 0 /\ toSignal' = toSignal - 1 /\ cfgVer' = cfgVer /\ clicks' = clicks
      BY <1>5 DEF Signal
    <3>. QED
      BY <3>1, <3>2
  <2>2. fan' \in [Rounds -> {"none", "spawned", "parked", "token", "done"}]
    BY <1>5 DEF Signal, Parked, TypeOK
  <2>3. reconnect' \in 0..1
    <3>1. reconnect' = reconnect \/ reconnect' = 1
      BY <1>5 DEF Signal
    <3>. QED
      BY <3>1 DEF TypeOK
  <2>4. UNCHANGED <<mainVars, cancelled, rootDone, connVars, cfgVer, clicks, faults>>
    BY <1>5 DEF Signal
  <2>. QED
    BY <1>2, <2>1, <2>2, <2>3, <2>4 DEF TypeOK, Signalled
<1>6. CASE Shutdown
  BY <1>2, <1>6 DEF Shutdown, TypeOK, Signalled, webVars
<1>. QED
  BY <1>2, <1>3, <1>4, <1>5, <1>6

(* The dial goroutine, fc.Run and the radio.                               *)
LEMMA ConnectionStep ==
    ASSUME IInv, NEW k \in Rounds,
           DialReads(k) \/ DialReturns(k) \/ RunExits(k) \/ RadioDrops(k)
    PROVE  IInv'
<1>. USE DEF IInv, mainVars, ctxVars, webVars, Fault
<1>1. CASE DialReads(k)
  BY <1>1 DEF DialReads, TypeOK, Signalled, OneRunner, StartedOnce, ReadyIsUp,
              MainHolds, HasClient, HasOpen
<1>2. CASE DialReturns(k)
  <2>1. TypeOK' /\ Signalled'
    BY <1>2, LifecycleAssumption DEF DialReturns, TypeOK, Signalled
  <2>2. OneRunner' /\ StartedOnce' /\ ReadyIsUp'
    BY <1>2 DEF DialReturns, OneRunner, StartedOnce, ReadyIsUp, TypeOK
  <2>3. MainHolds'
    BY <1>2 DEF DialReturns, MainHolds, HasClient, HasOpen, TypeOK
  <2>. QED
    BY <2>1, <2>2, <2>3
<1>3. CASE RunExits(k)
  BY <1>3 DEF RunExits, TypeOK, Signalled, OneRunner, StartedOnce, ReadyIsUp, MainHolds
<1>4. CASE RadioDrops(k)
  <2>1. TypeOK' /\ Signalled'
    BY <1>4, LifecycleAssumption DEF RadioDrops, TypeOK, Signalled
  <2>2. OneRunner' /\ StartedOnce' /\ ReadyIsUp'
    BY <1>4 DEF RadioDrops, OneRunner, StartedOnce, ReadyIsUp, TypeOK
  <2>3. MainHolds'
    BY <1>4 DEF RadioDrops, MainHolds, TypeOK
  <2>. QED
    BY <2>1, <2>2, <2>3
<1>. QED
  BY <1>1, <1>2, <1>3, <1>4

LEMMA NextIInv == IInv /\ [Next]_vars => IInv'
<1>1. ASSUME IInv, UNCHANGED vars PROVE IInv'
  BY <1>1 DEF vars, mainVars, ctxVars, connVars, webVars, IInv, TypeOK, Signalled,
              OneRunner, StartedOnce, ReadyIsUp, MainHolds
<1>. QED
  BY <1>1, MainStep, ContextStep, ConnectionStep DEF Next

(* For any number of posts, clicks and faults: the daemon's shared         *)
(* variables, contexts and goroutines keep their types; reconnectCh never  *)
(* holds more than its one token.                                          *)
THEOREM TypeCorrect == Spec => []TypeOK
<1>1. IInv => TypeOK
  BY DEF IInv
<1>. QED
  BY InitIInv, NextIInv, <1>1, PTL DEF Spec

(* For any number of rounds: fc.Run of one round has returned before that  *)
(* of another starts, in whatever order dials, drops, requests and the     *)
(* shutdown come.                                                          *)
THEOREM OneRunnerOnly == Spec => []OneRunner
<1>1. IInv => OneRunner
  BY DEF IInv
<1>. QED
  BY InitIInv, NextIInv, <1>1, PTL DEF Spec

(* For any number of rounds: "connected" is shown only while fc, SliceIdx  *)
(* and the connection are those of the round main is in.                   *)
THEOREM ConnectedMeansConnected == Spec => []ConnectedIsConsistent
<1>1. IInv => ConnectedIsConsistent
  BY DEF IInv, MainHolds, HasClient, HasOpen, ConnectedIsConsistent
<1>. QED
  BY InitIInv, NextIInv, <1>1, PTL DEF Spec
=============================================================================
