------------------------------- MODULE Picker -------------------------------
(***************************************************************************)
(* The radio picker shown before anything else runs: discovery.Scan        *)
(* (internal/discovery/discovery.go), whose goroutine passes lists of      *)
(* radios on through a channel that keeps the latest, and the bubbletea    *)
(* program of cmd/flexy/tui.go, which asks for one list at a time, shows   *)
(* it and moves a cursor over it. Once the picker is left its context is   *)
(* cancelled and nobody sees what becomes of the goroutine.                *)
(***************************************************************************)
EXTENDS Naturals, Sequences

CONSTANTS
    Lists,      \* lists of radios discovery may report, as sequences of addresses
    NBatches    \* bound: lists reported while the picker is up

ASSUME ListsAssumption == \A b \in Lists : b \in Seq({b[i] : i \in DOMAIN b})

VARIABLES
    tui,        \* "off", "on", "done"
    raw,        \* the channel DiscoverAll writes to
    scan,       \* Scan's goroutine: "select", "offer", "drain", "send"
    held,       \* the list it has in hand
    out,        \* the channel Scan returns
    asking,     \* waitForRadios: "yes", "answered"
    msg,        \* the radiosMsg on its way to Update
    ui,         \* tuiModel: state, radios, cursor
    cancelled,  \* m.cancel has been called
    picked,     \* the address of the radio picked, "" for none
    batches,    \* lists reported so far
    latest      \* history: the last one

pickerVars ==
    <<tui, raw, scan, held, out, asking, msg, ui, cancelled, picked, batches, latest>>

Blank == ""        \* Go's empty string

(* newTUIModel, and the model's own Init.                                  *)
Fresh(running) ==
    /\ tui' = running
    /\ raw' = <<>> /\ scan' = "select" /\ held' = <<>> /\ out' = <<>>
    /\ asking' = "yes" /\ msg' = <<>>
    /\ ui' = [state |-> "discovering", radios |-> <<>>, cursor |-> 1]
    /\ cancelled' = FALSE /\ picked' = Blank /\ batches' = 0 /\ latest' = <<>>

PickerInit ==
    /\ tui = "off"
    /\ raw = <<>> /\ scan = "select" /\ held = <<>> /\ out = <<>>
    /\ asking = "yes" /\ msg = <<>>
    /\ ui = [state |-> "discovering", radios |-> <<>>, cursor |-> 1]
    /\ cancelled = FALSE /\ picked = Blank /\ batches = 0 /\ latest = <<>>

-----------------------------------------------------------------------------
(* Scan.                                                                   *)

Hear(b) ==
    /\ tui = "on" /\ raw = <<>> /\ batches < NBatches /\ ~cancelled
    /\ raw' = <<b>>
    /\ batches' = batches + 1
    /\ latest' = b
    /\ UNCHANGED <<tui, scan, held, out, asking, msg, ui, cancelled, picked>>

TakeBatch ==
    /\ tui = "on" /\ scan = "select" /\ raw # <<>>
    /\ held' = Head(raw) /\ raw' = <<>>
    /\ scan' = "offer"
    /\ UNCHANGED <<tui, out, asking, msg, ui, cancelled, picked, batches, latest>>

(* Mutant of Offer: a list the picker has not yet fetched stays, and the   *)
(* new one is dropped.                                                     *)
OfferDropsNewest ==
    /\ tui = "on" /\ scan = "offer"
    /\ out' = IF out = <<>> THEN <<held>> ELSE out
    /\ scan' = "select"
    /\ UNCHANGED <<tui, raw, held, asking, msg, ui, cancelled, picked, batches, latest>>
Offer ==
    /\ tui = "on" /\ scan = "offer"
    /\ out' = IF out = <<>> THEN <<held>> ELSE out
    /\ scan' = IF out = <<>> THEN "select" ELSE "drain"
    /\ UNCHANGED <<tui, raw, held, asking, msg, ui, cancelled, picked, batches, latest>>

(* The picker may have fetched the old list by now.                        *)
Drain ==
    /\ tui = "on" /\ scan = "drain"
    /\ out' = <<>>
    /\ scan' = "send"
    /\ UNCHANGED <<tui, raw, held, asking, msg, ui, cancelled, picked, batches, latest>>

SendOut ==
    /\ tui = "on" /\ scan = "send" /\ out = <<>>
    /\ out' = <<held>>
    /\ scan' = "select"
    /\ UNCHANGED <<tui, raw, held, asking, msg, ui, cancelled, picked, batches, latest>>

-----------------------------------------------------------------------------
(* The picker. ui.cursor counts from 1, m.cursor from 0.                   *)

WaitForRadios ==
    /\ tui = "on" /\ asking = "yes" /\ out # <<>>
    /\ msg' = Head(out) /\ out' = <<>>
    /\ asking' = "answered"
    /\ UNCHANGED <<tui, raw, scan, held, ui, cancelled, picked, batches, latest>>

(* Mutant of Shown: the cursor is left where it was.                       *)
ShownKeepsCursor(radios) ==
    [ui EXCEPT !.radios = radios, !.state = IF radios = <<>> THEN @ ELSE "select"]
Shown(radios) ==
    [ui EXCEPT !.radios = radios,
               !.state = IF radios = <<>> THEN @ ELSE "select",
               !.cursor = IF radios # <<>> /\ @ > Len(radios) THEN 1 ELSE @]

UpdateRadios ==
    /\ tui = "on" /\ asking = "answered"
    /\ ui' = Shown(msg)
    /\ asking' = "yes"
    /\ UNCHANGED <<tui, raw, scan, held, out, msg, cancelled, picked, batches, latest>>

Move ==
    /\ tui = "on" /\ ui.state = "select"
    /\ \/ ui.cursor > 1 /\ ui' = [ui EXCEPT !.cursor = @ - 1]
       \/ ui.cursor < Len(ui.radios) /\ ui' = [ui EXCEPT !.cursor = @ + 1]
    /\ UNCHANGED <<tui, raw, scan, held, out, asking, msg, cancelled, picked, batches, latest>>

Enter ==
    /\ tui = "on" /\ ui.state = "select" /\ ui.radios # <<>>
    /\ picked' = ui.radios[ui.cursor]
    /\ cancelled' = TRUE /\ tui' = "done"
    /\ UNCHANGED <<raw, scan, held, out, asking, msg, ui, batches, latest>>

QuitPicker ==
    /\ tui = "on"
    /\ cancelled' = TRUE /\ tui' = "done"
    /\ UNCHANGED <<raw, scan, held, out, asking, msg, ui, picked, batches, latest>>

PickerStep ==
    \/ \E b \in Lists : Hear(b)
    \/ TakeBatch \/ Offer \/ Drain \/ SendOut
    \/ WaitForRadios \/ UpdateRadios \/ Move \/ Enter \/ QuitPicker

(* The goroutines of Scan, of waitForRadios and of the event loop.         *)
PickerFairness ==
    /\ WF_pickerVars(TakeBatch) /\ WF_pickerVars(Offer)
    /\ WF_pickerVars(Drain) /\ WF_pickerVars(SendOut)
    /\ WF_pickerVars(WaitForRadios) /\ WF_pickerVars(UpdateRadios)

-----------------------------------------------------------------------------
(* The radio that enter would pick is one of those shown, whatever lists   *)
(* came and went under the cursor: longer, shorter or empty.               *)
CursorInList == ui.radios # <<>> => ui.cursor \in DOMAIN ui.radios

(* A picker that stays up shows the last list that was reported, although  *)
(* the channel between holds one and the lists before it are dropped.      *)
LatestListShown == <>[](tui = "on" => ui.radios = latest)
=============================================================================
