------------------------------ MODULE LogPoller ------------------------------
(***************************************************************************)
(* The log view of the web UI (pollLogs in cmd/flexy/web/index.html)       *)
(* against the LogBuffer it polls through GET /api/logs.  setInterval      *)
(* starts a poll every second whether or not the last one was answered, so *)
(* requests may overlap, answers overtake each other, and any may be lost. *)
(* Flexy may be restarted under an open page: its numbers begin at 0 again *)
(* while the page goes on from its own.                                    *)
(***************************************************************************)
EXTENDS LogBuffer, FiniteSets

CONSTANTS
    Keep,      \* lines the view keeps (1000 in the code)
    MaxPolls,  \* bound: polls started
    InFlight,  \* requests and answers that can be under way at a time
    MaxRestarts \* bound: restarts of Flexy

ASSUME ViewAssumption == Keep \in Nat \ {0} /\ MaxPolls \in Nat /\ InFlight \in Nat
                      /\ MaxRestarts \in Nat

VARIABLES
    shown,      \* allLogLines
    lastLogSeq,
    requests,   \* polls the server has not served
    answers,    \* answers the view has not received
    polls,
    overlapped, \* history: a poll was started while another was under way
    life,       \* how often Flexy has been restarted
    displayed,  \* history: <<life, number>> of all lines that were ever shown
    missed,     \* history: those overwritten before the poll that wanted them
    blind       \* history: those the view takes for lines of an earlier life

viewVars == <<shown, lastLogSeq, requests, answers, polls, overlapped, life,
              displayed, missed, blind>>
vars == <<logVars, viewVars>>

PollInit ==
    /\ Init
    /\ shown = <<>>
    /\ lastLogSeq = 0
    /\ requests = {}
    /\ answers = {}
    /\ polls = 0
    /\ overlapped = FALSE
    /\ life = 0
    /\ displayed = {}
    /\ missed = {}
    /\ blind = {}

(* fetch('/api/logs?since=' + lastLogSeq)                                  *)
StartPoll ==
    /\ polls < MaxPolls
    /\ Cardinality(requests) + Cardinality(answers) < InFlight
    /\ polls' = polls + 1
    /\ overlapped' = (overlapped \/ requests \cup answers # {})
    /\ requests' = requests \cup {[poll |-> polls, since |-> lastLogSeq]}
    /\ UNCHANGED <<logVars, shown, lastLogSeq, answers, life, displayed, missed, blind>>

(* handleAPILogs                                                           *)
Serve(r) ==
    /\ requests' = requests \ {r}
    /\ answers' = answers \cup {[poll |-> r.poll, life |-> life,
                                 lines |-> SinceLines(r.since), last |-> SinceLast]}
    /\ missed' = missed \cup {<<life, k>> : k \in r.since..(next - Count - 1)}
    /\ UNCHANGED <<logVars, shown, lastLogSeq, polls, overlapped, life, displayed, blind>>

(* The last n lines of s.                                                  *)
LastOf(s, n) == SubSeq(s, (IF Len(s) > n THEN Len(s) - n ELSE 0) + 1, Len(s))

(* Mutant of Receive: the next poll asks for the last line again.          *)
ReceiveAskAgain(a) ==
    /\ answers' = answers \ {a}
    /\ IF a.lines = <<>>
       THEN UNCHANGED <<shown, lastLogSeq, displayed, blind>>
       ELSE /\ shown' = LastOf(shown \o a.lines, Keep)
            /\ displayed' = displayed \cup
                   {<<a.life, a.lines[i].seq>> : i \in 1..Len(a.lines)}
            /\ lastLogSeq' = a.last
            /\ blind' = IF a.life = life THEN blind
                        ELSE blind \cup {<<life, k>> : k \in 0..a.last}
    /\ UNCHANGED <<logVars, requests, polls, overlapped, life, missed>>

(* The answer's lines are appended to the view, which keeps the last ones; *)
(* an answer without lines changes nothing.                                *)
Receive(a) ==
    /\ answers' = answers \ {a}
    /\ IF a.lines = <<>>
       THEN UNCHANGED <<shown, lastLogSeq, displayed, blind>>
       ELSE /\ shown' = LastOf(shown \o a.lines, Keep)
            /\ displayed' = displayed \cup
                   {<<a.life, a.lines[i].seq>> : i \in 1..Len(a.lines)}
            /\ lastLogSeq' = a.last + 1
            /\ blind' = IF a.life = life THEN blind
                        ELSE blind \cup {<<life, k>> : k \in 0..a.last}
    /\ UNCHANGED <<logVars, requests, polls, overlapped, life, missed>>

(* fetch fails: catch(() => {})                                            *)
Lose ==
    /\ \/ \E r \in requests : requests' = requests \ {r} /\ UNCHANGED answers
       \/ \E a \in answers : answers' = answers \ {a} /\ UNCHANGED requests
    /\ UNCHANGED <<logVars, shown, lastLogSeq, polls, overlapped, life, displayed, missed,
                   blind>>

(* The "clear" button.                                                     *)
Clear ==
    /\ shown # <<>>
    /\ shown' = <<>>
    /\ UNCHANGED <<logVars, lastLogSeq, requests, answers, polls, overlapped, life,
                   displayed, missed, blind>>

(* Flexy ends and is started again: its log is empty, requests fail, and   *)
(* an answer that is on its way still arrives.                             *)
Restart ==
    /\ life < MaxRestarts
    /\ life' = life + 1
    /\ ring' = [i \in 0..(Cap - 1) |-> LogLine(0, Blank)]
    /\ head' = 0 /\ full' = FALSE /\ next' = 0 /\ written' = <<>>
    /\ requests' = {}
    /\ blind' = blind \cup {<<life', k>> : k \in 0..(lastLogSeq - 1)}
    /\ UNCHANGED <<shown, lastLogSeq, answers, polls, overlapped, displayed, missed>>

PollNext ==
    \/ Next /\ UNCHANGED viewVars
    \/ StartPoll
    \/ \E r \in requests : Serve(r)
    \/ \E a \in answers : Receive(a)
    \/ Lose
    \/ Clear
    \/ Restart

PollSpec == PollInit /\ [][PollNext]_vars

-----------------------------------------------------------------------------
(* However polls overlap, overtake each other or fail, the view never      *)
(* skips a line: one below lastLogSeq, for which it will not ask again,    *)
(* has been shown, unless the ring had overwritten it before it was asked  *)
(* or it took the number of a line the view had from an earlier life.      *)
NothingSkipped ==
    \A k \in 0..(lastLogSeq - 1) : <<life, k>> \in displayed \cup missed \cup blind

(* As long as no two polls have overlapped the view shows every line once  *)
(* and in order, whatever was overwritten, lost or cleared in between and  *)
(* although Flexy was restarted.                                           *)
ShownInOrder ==
    ~overlapped =>
        \A i \in 1..(Len(shown) - 1) :
            /\ shown[i].seq < shown[i + 1].seq
            /\ \A k \in (shown[i].seq + 1)..(shown[i + 1].seq - 1) :
                  \E n \in 0..life : <<n, k>> \in missed
=============================================================================
