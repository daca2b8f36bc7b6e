------------------------------ MODULE LogBuffer ------------------------------
(***************************************************************************)
(* The ring of log lines of cmd/flexy/logbuf.go, which zerolog writes and  *)
(* GET /api/logs reads.  Both hold b.mu for the whole call, so each call   *)
(* is one step.  Indices into the ring start at 0, as in the code.         *)
(***************************************************************************)
EXTENDS Integers, Sequences

CONSTANTS
    Cap,       \* len(b.ring)
    Texts,     \* what can be written to the log
    Blank,     \* the text of a slot that was never written
    MaxLines   \* bound: lines written

ASSUME CapAssumption == Cap \in Nat \ {0}
ASSUME MaxLinesAssumption == MaxLines \in Nat

VARIABLES
    ring,      \* b.ring
    head,      \* b.head
    full,      \* b.full
    next,      \* b.next
    written    \* history: every text written, in order

logVars == <<ring, head, full, next, written>>

LogLine(s, t) == [seq |-> s, text |-> t]

Init ==
    /\ ring = [i \in 0..(Cap - 1) |-> LogLine(0, Blank)]
    /\ head = 0
    /\ full = FALSE
    /\ next = 0
    /\ written = <<>>

(* Mutant of Write: the ring counts as full one line early.                *)
WriteFullEarly(t) ==
    /\ next < MaxLines
    /\ ring' = [ring EXCEPT ![head] = LogLine(next, t)]
    /\ next' = next + 1
    /\ head' = IF head + 1 = Cap THEN 0 ELSE head + 1
    /\ full' = (full \/ head + 2 >= Cap)
    /\ written' = Append(written, t)

(* One line takes the slot at head; the first wrap makes the ring full.    *)
Write(t) ==
    /\ next < MaxLines
    /\ ring' = [ring EXCEPT ![head] = LogLine(next, t)]
    /\ next' = next + 1
    /\ head' = IF head + 1 = Cap THEN 0 ELSE head + 1
    /\ full' = (full \/ head + 1 = Cap)
    /\ written' = Append(written, t)

Next == \E t \in Texts : Write(t)

Spec == Init /\ [][Next]_logVars

-----------------------------------------------------------------------------
(* Since: the lines are taken from the oldest slot on, those that were     *)
(* asked for are kept, and the number of the newest line goes with them.   *)

Count == IF full THEN Cap ELSE head

Start == IF head - Count < 0 THEN head - Count + Cap ELSE head - Count

Slots == [i \in 1..Count |-> ring[(Start + i - 1) % Cap]]

(* out, when the walk over the slots keeps those at the places in P.       *)
Kept(P) ==
    LET out[n \in 0..Count] == IF n = 0 THEN <<>>
                               ELSE IF n \in P THEN Append(out[n - 1], Slots[n])
                               ELSE out[n - 1]
    IN  out[Count]

(* Mutant of SinceLines: the first line asked for is left out.             *)
SinceLinesStrict(since) == Kept({i \in 1..Count : Slots[i].seq > since})

SinceLines(since) == Kept({i \in 1..Count : Slots[i].seq >= since})

SinceLast == IF next - 1 < 0 THEN 0 ELSE next - 1

-----------------------------------------------------------------------------
TypeOK ==
    /\ ring \in [0..(Cap - 1) -> [seq : Nat, text : Texts \cup {Blank}]]
    /\ head \in 0..(Cap - 1)
    /\ full \in BOOLEAN
    /\ next \in Nat
    /\ written \in Seq(Texts)

(* However often the ring has wrapped, the slots read from the oldest on   *)
(* are the last lines written, complete, in order, each with its own       *)
(* number: what TestLogBufferOverflow samples once (logbuf_test.go:29-45). *)
SlotsAreTheLast ==
    /\ Count = IF next < Cap THEN next ELSE Cap
    /\ \A i \in 1..Count :
          Slots[i] = LogLine(next - Count + i - 1, written[next - Count + i])

=============================================================================
