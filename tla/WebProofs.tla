------------------------------- MODULE WebProofs -------------------------------
(***************************************************************************)
(* What the web server serves: the log, and the configuration.             *)
(*                                                                         *)
(* The ring of LogBuffer holds the last lines written, for every capacity  *)
(* and however often it has wrapped; Since answers with those of them that *)
(* were asked for; and the view of LogPoller skips and swaps none.         *)
(*                                                                         *)
(* SlotsAreTheLast speaks of the slots in the order Since reads them; it   *)
(* is not inductive.  Placed says where each line sits: the slots below    *)
(* head hold the newest lines, and once the ring has wrapped the slots     *)
(* from head on hold the ones just before them.                            *)
(*                                                                         *)
(* NothingSkipped and ShownInOrder speak of what the view has received.    *)
(* Covered adds what is under way: a request asks from a line below which  *)
(* nothing is open, and so does an answer begin.  Alone adds that, as long *)
(* as no two polls have overlapped, what is under way begins where the     *)
(* view ends.                                                              *)
(*                                                                         *)
(* The requests of WebConfig share one configuration, copied and written   *)
(* back field by field. CommitChecked and ParsedChecked say what a request *)
(* at each of its steps has been checked for.                              *)
(***************************************************************************)
EXTENDS LogPoller, WebConfig, SequenceTheorems, WellFoundedInduction, TLAPS

Placed ==
    /\ Len(written) = next
    /\ ~full => head = next
    /\ full => next >= head + Cap
    /\ \A i \in 0..(head - 1) :
          ring[i] = LogLine(next - head + i, written[next - head + i + 1])
    /\ full => \A i \in head..(Cap - 1) :
          ring[i] = LogLine(next - head - Cap + i,
                            written[next - head - Cap + i + 1])

IInv == TypeOK /\ Placed

(* Init: the empty log satisfies the invariant.                            *)
LEMMA InitHolds == Init => IInv
  <1> SUFFICES ASSUME Init PROVE IInv
    OBVIOUS
  <1> USE CapAssumption
  <1>1. TypeOK
    BY DEF Init, TypeOK, LogLine
  <1>2. Placed
    BY DEF Init, Placed
  <1> QED
    BY <1>1, <1>2 DEF IInv

(* Write: a line takes the slot at head, where the oldest line sat.        *)
LEMMA WriteKeeps == ASSUME IInv, NEW t \in Texts, Write(t) PROVE IInv'
  <1> USE CapAssumption
  <1>t. /\ ring \in [0..(Cap - 1) -> [seq : Nat, text : Texts \cup {Blank}]]
        /\ head \in 0..(Cap - 1) /\ full \in BOOLEAN /\ next \in Nat
        /\ written \in Seq(Texts)
    BY DEF IInv, TypeOK
  <1>p. Placed
    BY DEF IInv
  <1>w. /\ ring' = [ring EXCEPT ![head] = LogLine(next, t)]
        /\ next' = next + 1
        /\ head' = IF head + 1 = Cap THEN 0 ELSE head + 1
        /\ full' = (full \/ head + 1 = Cap)
        /\ written' = Append(written, t)
    BY DEF Write
  <1>0. LogLine(next, t) \in [seq : Nat, text : Texts \cup {Blank}]
    BY <1>t DEF LogLine
  <1>1. TypeOK'
    <2>1. ring' \in [0..(Cap - 1) -> [seq : Nat, text : Texts \cup {Blank}]]
      BY <1>t, <1>w, <1>0
    <2>2. head' \in 0..(Cap - 1) /\ next' \in Nat
      BY <1>t, <1>w
    <2>3. full' \in BOOLEAN
      BY <1>w
    <2>4. written' \in Seq(Texts)
      BY <1>t, <1>w
    <2> QED
      BY <2>1, <2>2, <2>3, <2>4 DEF TypeOK
  <1>n. Len(written) = next
    BY <1>p DEF Placed
  <1>a. /\ Len(written') = next + 1
        /\ written'[next + 1] = t
        /\ \A j \in 1..next : written'[j] = written[j]
    <2>1. Len(written') = next + 1
      BY <1>t, <1>w, <1>n
    <2>2. written'[next + 1] = t
      BY <1>t, <1>w, <1>n
    <2>3. ASSUME NEW j \in 1..next PROVE written'[j] = written[j]
      BY <1>t, <1>w, <1>n
    <2> QED
      BY <2>1, <2>2, <2>3
  <1>r. /\ ring'[head] = LogLine(next, t)
        /\ \A i \in 0..(Cap - 1) : i # head => ring'[i] = ring[i]
    BY <1>t, <1>w
  <1>f. /\ ~full => head = next
        /\ full => next >= head + Cap
    BY <1>p DEF Placed
  <1>2. CASE head + 1 = Cap
    <2>1. head' = 0 /\ full'
      BY <1>2, <1>w
    <2>2. next' >= head' + Cap
      BY <1>2, <1>t, <1>w, <1>f, <2>1
    <2>3. ASSUME NEW i \in 0..(Cap - 1)
          PROVE  ring'[i] = LogLine(next' - Cap + i, written'[next' - Cap + i + 1])
      <3>1. CASE i = head
        <4>1. next' - Cap + i = next
          BY <1>2, <1>t, <1>w, <3>1
        <4> QED
          BY <4>1, <3>1, <1>r, <1>a
      <3>2. CASE i # head
        <4>1. i \in 0..(head - 1)
          BY <3>2, <1>2, <1>t
        <4>2. ring[i] = LogLine(next - head + i, written[next - head + i + 1])
          BY <4>1, <1>p DEF Placed
        <4>3. next' - Cap + i = next - head + i
          BY <1>2, <1>t, <1>w, <4>1
        <4>4. next - head + i + 1 \in 1..next
          BY <4>1, <1>t, <1>f, <1>2
        <4>5. written'[next - head + i + 1] = written[next - head + i + 1]
          BY <4>4, <1>a
        <4> QED
          BY <4>2, <4>3, <4>5, <1>r, <3>2
      <3> QED
        BY <3>1, <3>2
    <2>4. Placed'
      <3>1. \A i \in 0..(head' - 1) : FALSE
        BY <2>1
      <3>2. \A i \in head'..(Cap - 1) :
               ring'[i] = LogLine(next' - head' - Cap + i,
                                  written'[next' - head' - Cap + i + 1])
        <4>1. next' - head' - Cap = next' - Cap
          BY <2>1, <1>t, <1>w
        <4> QED
          BY <4>1, <2>1, <2>3
      <3> QED
        BY <3>1, <3>2, <2>1, <2>2, <1>a, <1>w DEF Placed
    <2> QED
      BY <1>1, <2>4 DEF IInv
  <1>3. CASE head + 1 # Cap
    <2>1. head' = head + 1 /\ full' = full
      BY <1>3, <1>w, <1>t
    <2>2. /\ ~full' => head' = next'
          /\ full' => next' >= head' + Cap
      BY <1>t, <1>w, <1>f, <2>1
    <2>3. ASSUME NEW i \in 0..(head' - 1)
          PROVE  ring'[i] = LogLine(next' - head' + i, written'[next' - head' + i + 1])
      <3>0. next' - head' = next - head
        BY <1>t, <1>w, <2>1
      <3>1. CASE i = head
        <4>1. next' - head' + i = next
          BY <3>0, <3>1, <1>t
        <4> QED
          BY <4>1, <3>1, <1>r, <1>a
      <3>2. CASE i # head
        <4>1. i \in 0..(head - 1)
          BY <3>2, <2>1, <1>t
        <4>2. ring[i] = LogLine(next - head + i, written[next - head + i + 1])
          BY <4>1, <1>p DEF Placed
        <4>4. next - head + i + 1 \in 1..next
          BY <4>1, <1>t, <1>f
        <4>5. written'[next - head + i + 1] = written[next - head + i + 1]
          BY <4>4, <1>a
        <4> QED
          BY <4>1, <4>2, <4>5, <3>0, <1>r, <3>2, <1>t
      <3> QED
        BY <3>1, <3>2
    <2>4. ASSUME full', NEW i \in head'..(Cap - 1)
          PROVE  ring'[i] = LogLine(next' - head' - Cap + i,
                                    written'[next' - head' - Cap + i + 1])
      <3>0. next' - head' = next - head
        BY <1>t, <1>w, <2>1
      <3>1. i \in head..(Cap - 1) /\ i # head
        BY <2>1, <1>t
      <3>2. ring[i] = LogLine(next - head - Cap + i,
                              written[next - head - Cap + i + 1])
        BY <3>1, <2>1, <2>4, <1>p DEF Placed
      <3>3. next - head - Cap + i + 1 \in 1..next
        BY <3>1, <1>t, <1>f, <2>1, <2>4
      <3>4. written'[next - head - Cap + i + 1] = written[next - head - Cap + i + 1]
        BY <3>3, <1>a
      <3> QED
        BY <3>0, <3>1, <3>2, <3>4, <1>r, <1>t
    <2>5. Placed'
      BY <2>2, <2>3, <2>4, <1>a, <1>w DEF Placed
    <2> QED
      BY <1>1, <2>5 DEF IInv
  <1> QED
    BY <1>2, <1>3

LEMMA StutterKeeps == IInv /\ UNCHANGED logVars => IInv'
  BY DEF IInv, TypeOK, Placed, logVars


(* The remainder for the indices Since computes, which stay below 2 * Cap. *)
LEMMA ModBelowCap ==
    ASSUME NEW x \in 0..(Cap - 1) PROVE x % Cap = x
  BY CapAssumption, SMTT(60)

LEMMA ModFromCap ==
    ASSUME NEW x \in Cap..(2 * Cap - 1) PROVE x % Cap = x - Cap
  BY CapAssumption, SMTT(60)

(* The order in which Since reads the slots is the order of the lines.     *)
LEMMA PlacedInOrder == IInv => SlotsAreTheLast
  <1> SUFFICES ASSUME IInv PROVE SlotsAreTheLast
    OBVIOUS
  <1> USE CapAssumption
  <1>t. head \in 0..(Cap - 1) /\ full \in BOOLEAN /\ next \in Nat
    BY DEF IInv, TypeOK
  <1>p. Placed
    BY DEF IInv
  <1>f. /\ ~full => head = next
        /\ full => next >= head + Cap
    BY <1>p DEF Placed
  <1>1. Count = IF next < Cap THEN next ELSE Cap
    BY <1>t, <1>f DEF Count
  <1>2. ASSUME NEW i \in 1..Count
        PROVE  Slots[i] = LogLine(next - Count + i - 1, written[next - Count + i])
    <2>0. Count \in 0..Cap
      BY <1>t DEF Count
    <2>1. Slots[i] = ring[(Start + i - 1) % Cap]
      BY DEF Slots
    <2>2. CASE full
      <3>1. Count = Cap
        BY <2>2 DEF Count
      <3>2. Start = head
        BY <3>1, <1>t DEF Start
      <3>3. (Start + i - 1) \in 0..(2 * Cap - 1)
        BY <3>1, <3>2, <1>t
      <3>4. CASE Start + i - 1 < Cap
        <4>1. (Start + i - 1) % Cap = Start + i - 1
          <5>1. Start + i - 1 \in 0..(Cap - 1)
            BY <3>3, <3>4
          <5> QED
            BY <5>1, ModBelowCap
        <4>2. Start + i - 1 \in head..(Cap - 1)
          BY <3>1, <3>2, <3>4, <1>t
        <4>3. ring[Start + i - 1] = LogLine(next - head - Cap + (Start + i - 1),
                                written[next - head - Cap + (Start + i - 1) + 1])
          BY <4>2, <2>2, <1>p DEF Placed
        <4>4. /\ next - head - Cap + (Start + i - 1) = next - Count + i - 1
              /\ next - head - Cap + (Start + i - 1) + 1 = next - Count + i
          BY <3>1, <3>2, <1>t
        <4> QED
          BY <2>1, <4>1, <4>3, <4>4
      <3>5. CASE ~(Start + i - 1 < Cap)
        <4>1. (Start + i - 1) % Cap = Start + i - 1 - Cap
          <5>1. Start + i - 1 \in Cap..(2 * Cap - 1)
            BY <3>3, <3>5
          <5> DEFINE x == Start + i - 1
          <5>2. x \in Cap..(2 * Cap - 1)
            BY <5>1
          <5> HIDE DEF x
          <5>3. x % Cap = x - Cap
            BY <5>2, ModFromCap
          <5> QED
            BY <5>3, <3>1, <3>2, <1>t DEF x
        <4>2. Start + i - 1 - Cap \in 0..(head - 1)
          BY <3>1, <3>2, <3>5, <1>t
        <4>3. ring[Start + i - 1 - Cap] = LogLine(next - head + (Start + i - 1 - Cap),
                                written[next - head + (Start + i - 1 - Cap) + 1])
          BY <4>2, <1>p DEF Placed
        <4>4. /\ next - head + (Start + i - 1 - Cap) = next - Count + i - 1
              /\ next - head + (Start + i - 1 - Cap) + 1 = next - Count + i
          BY <3>1, <3>2, <1>t
        <4> QED
          BY <2>1, <4>1, <4>3, <4>4
      <3> QED
        BY <3>4, <3>5
    <2>3. CASE ~full
      <3>1. Count = head /\ next = head
        BY <2>3, <1>f DEF Count
      <3>2. Start = 0
        BY <3>1, <1>t DEF Start
      <3>3. (Start + i - 1) \in 0..(Cap - 1)
        BY <3>1, <3>2, <1>t
      <3>4. (Start + i - 1) % Cap = i - 1
        BY <3>2, <3>3, ModBelowCap
      <3>5. i - 1 \in 0..(head - 1)
        BY <3>1, <1>t
      <3>6. ring[i - 1] = LogLine(next - head + (i - 1), written[next - head + (i - 1) + 1])
        BY <3>5, <1>p DEF Placed
      <3>7. /\ next - head + (i - 1) = next - Count + i - 1
            /\ next - head + (i - 1) + 1 = next - Count + i
        BY <3>1, <1>t
      <3> QED
        BY <2>1, <3>4, <3>6, <3>7
    <2> QED
      BY <2>2, <2>3, <1>t
  <1> QED
    BY <1>1, <1>2 DEF SlotsAreTheLast

(* Every set of natural numbers with an element has a least one.           *)
LEMMA LeastNat ==
    ASSUME NEW T \in SUBSET Nat, T # {}
    PROVE  \E x \in T : \A y \in T : x <= y
<1> DEFINE R == OpToRel(<, Nat)
<1>1. IsWellFoundedOn(R, Nat) BY NatLessThanWellFounded
<1>2. \A x, y \in Nat : <<y, x>> \in R <=> y < x BY DEF OpToRel
<1> HIDE DEF R
<1>3. \E x \in T : \A y \in T : ~(<<y, x>> \in R) BY <1>1, WFMin
<1>4. PICK x \in T : \A y \in T : ~(<<y, x>> \in R) BY <1>3
<1>5. ASSUME NEW y \in T PROVE x <= y
  <2>1. x \in Nat /\ y \in Nat OBVIOUS
  <2>2. ~(y < x) BY <1>2, <1>4, <2>1
  <2> QED BY <2>1, <2>2
<1> QED BY <1>5

(* What Append does to a sequence given as a function.                     *)
LEMMA AppendOne ==
    ASSUME NEW S, NEW m \in Nat, NEW h \in [1..m -> S], NEW e \in S
    PROVE  Append(h, e) = [j \in 1..(m + 1) |-> IF j <= m THEN h[j] ELSE e]
<1> DEFINE u == [j \in 1..(m + 1) |-> IF j <= m THEN h[j] ELSE e]
<1>1. h \in Seq(S) /\ Len(h) = m OBVIOUS
<1>2. u \in Seq(S) /\ Len(u) = m + 1
  <2>1. \A j \in 1..(m + 1) : u[j] \in S OBVIOUS
  <2>2. u \in [1..(m + 1) -> S] BY <2>1
  <2> HIDE DEF u
  <2> QED BY <2>2
<1>3. Append(h, e) \in Seq(S) /\ Len(Append(h, e)) = m + 1 BY <1>1, AppendProperties
<1>4. ASSUME NEW j \in 1..(m + 1) PROVE Append(h, e)[j] = u[j]
  <2>1. CASE j <= m
    <3>1. j \in 1..Len(h) BY <2>1, <1>1
    <3>2. Append(h, e)[j] = h[j] BY <3>1, <1>1, AppendProperties
    <3> QED BY <3>2, <2>1
  <2>2. CASE ~(j <= m)
    <3>1. j = Len(h) + 1 BY <2>2, <1>1
    <3>2. Append(h, e)[j] = e BY <3>1, <1>1, AppendProperties
    <3> QED BY <3>2, <2>2
  <2> QED BY <2>1, <2>2
<1> HIDE DEF u
<1>5. Append(h, e) = u BY <1>2, <1>3, <1>4, SeqEqual
<1> QED BY <1>5 DEF u

KeptFrom(d) == [j \in 1..(Count - d) |-> Slots[d + j]]

(* A walk that keeps the places above d collects the slots there.          *)
LEMMA KeptIsRest ==
    ASSUME Count \in Nat, NEW d \in 0..Count
    PROVE  Kept((d + 1)..Count) = KeptFrom(d)
<1> DEFINE P == (d + 1)..Count
           Upto(n) == IF n <= d THEN <<>> ELSE [j \in 1..(n - d) |-> Slots[d + j]]
           Walk(out) == [n \in 0..Count |-> IF n = 0 THEN <<>>
                               ELSE IF n \in P THEN Append(out[n - 1], Slots[n])
                               ELSE out[n - 1]]
           g == [n \in 0..Count |-> Upto(n)]
<1>1. Kept(P) = (CHOOSE out : out = Walk(out))[Count] BY DEF Kept
<1>2. ASSUME NEW n \in 1..Count
      PROVE  Upto(n) = IF n \in P THEN Append(Upto(n - 1), Slots[n]) ELSE Upto(n - 1)
  <2>0. n \in Int /\ d \in Int OBVIOUS
  <2>1. CASE n <= d
    <3>1. n \notin P /\ n - 1 <= d BY <2>0, <2>1
    <3> QED BY <3>1, <2>1
  <2>2. CASE n = d + 1
    <3>1. n \in P /\ n - 1 <= d /\ ~(n <= d) BY <2>0, <2>2
    <3>2. Upto(n - 1) = <<>> BY <3>1
    <3>3. Append(<<>>, Slots[n]) = <<Slots[n]>> OBVIOUS
    <3>4. Upto(n) = [j \in 1..1 |-> Slots[d + j]] BY <3>1, <2>0, <2>2
    <3>5. [j \in 1..1 |-> Slots[d + j]] = <<Slots[n]>> BY <2>0, <2>2
    <3> QED BY <3>1, <3>2, <3>3, <3>4, <3>5
  <2>3. CASE n > d + 1
    <3>1. n \in P /\ ~(n - 1 <= d) /\ ~(n <= d) BY <2>0, <2>3
    <3> DEFINE m == n - 1 - d
               s == [j \in 1..m |-> Slots[d + j]]
    <3>2. Upto(n - 1) = s BY <3>1
    <3>3. m \in Nat /\ n - d = m + 1 BY <2>0, <2>3
    <3>4. Upto(n) = [j \in 1..(m + 1) |-> Slots[d + j]] BY <3>1, <3>3
    <3>5. n = d + (m + 1) BY <2>0
    <3> HIDE DEF m
    <3> DEFINE S == {Slots[d + j] : j \in 1..m} \cup {Slots[n]}
    <3>6. s \in [1..m -> S] /\ Slots[n] \in S OBVIOUS
    <3>7. Append(s, Slots[n]) = [j \in 1..(m + 1) |-> IF j <= m THEN s[j] ELSE Slots[n]]
      <4> HIDE DEF s, S
      <4> QED BY <3>6, <3>3, AppendOne
    <3>8. ASSUME NEW j \in 1..(m + 1)
          PROVE  (IF j <= m THEN s[j] ELSE Slots[n]) = Slots[d + j]
      <4>1. CASE j <= m BY <4>1, <3>3
      <4>2. CASE ~(j <= m)
        <5>1. j = m + 1 BY <4>2, <3>3
        <5> QED BY <5>1, <3>5, <4>2
      <4> QED BY <4>1, <4>2
    <3>9. Append(s, Slots[n]) = [j \in 1..(m + 1) |-> Slots[d + j]] BY <3>7, <3>8
    <3> QED BY <3>1, <3>2, <3>4, <3>9
  <2> QED BY <2>0, <2>1, <2>2, <2>3
<1>0. Upto(0) = <<>> OBVIOUS
<1> HIDE DEF Upto, P
<1>3. g = Walk(g)
  <2>1. ASSUME NEW n \in 0..Count
        PROVE  g[n] = Walk(g)[n]
    <3>1. CASE n = 0 BY <3>1, <1>0
    <3>2. CASE n # 0
      <4>1. n \in 1..Count /\ n - 1 \in 0..Count BY <3>2
      <4>2. g[n] = Upto(n) /\ g[n - 1] = Upto(n - 1) BY <4>1
      <4> QED BY <4>1, <4>2, <1>2, <3>2
    <3> QED BY <3>1, <3>2
  <2> QED BY <2>1
<1>4. ASSUME NEW f, f = Walk(f) PROVE f[Count] = g[Count]
  <2> DEFINE T == {n \in 0..Count : f[n] # g[n]}
  <2>1. SUFFICES ASSUME T # {} PROVE FALSE
    <3>1. Count \in 0..Count OBVIOUS
    <3> QED BY <3>1
  <2>2. T \in SUBSET Nat OBVIOUS
  <2>3. PICK n \in T : \A k \in T : n <= k
    <3> HIDE DEF T
    <3> QED BY <2>1, <2>2, LeastNat
  <2>4. n \in 0..Count /\ f[n] # g[n] OBVIOUS
  <2>5. f[n] = Walk(f)[n] /\ g[n] = Walk(g)[n] BY <1>3, <1>4
  <2>6. CASE n = 0 BY <2>4, <2>5, <2>6
  <2>7. CASE n # 0
    <3>1. n - 1 \in 0..Count /\ n - 1 < n BY <2>4, <2>7
    <3>2. f[n - 1] = g[n - 1] BY <3>1, <2>3, <2>4
    <3> QED BY <3>2, <2>4, <2>5, <2>7
  <2> QED BY <2>6, <2>7
<1>5. LET c == CHOOSE out : out = Walk(out) IN c = Walk(c) BY <1>3
<1>6. (CHOOSE out : out = Walk(out))[Count] = g[Count] BY <1>4, <1>5
<1>7. g[Count] = Upto(Count) OBVIOUS
<1>8. Upto(Count) = KeptFrom(d)
  <2>1. CASE d = Count
    <3>1. KeptFrom(d) = <<>> BY <2>1 DEF KeptFrom
    <3>2. Upto(Count) = <<>> BY <2>1 DEF Upto
    <3> QED BY <3>1, <3>2
  <2>2. CASE d # Count
    <3>1. ~(Count <= d) BY <2>2
    <3> QED BY <3>1 DEF KeptFrom, Upto
  <2> QED BY <2>1, <2>2
<1> QED BY <1>1, <1>6, <1>7, <1>8 DEF P

-----------------------------------------------------------------------------
(* The view.                                                               *)

Line == [seq : Nat, text : Texts \cup {Blank}]
Request == [poll : Nat, since : Nat]
Answer == [poll : Nat, life : Nat, lines : Seq(Line), last : Nat]

(* The view and what is under way have their types.                        *)
ViewTypeOK ==
    /\ shown \in Seq(Line)
    /\ lastLogSeq \in Nat
    /\ requests \in SUBSET Request
    /\ answers \in SUBSET Answer
    /\ polls \in Nat
    /\ overlapped \in BOOLEAN
    /\ life \in Nat

(* The view need not ask for line k again.                                 *)
Accounted(k) == <<life, k>> \in displayed \cup missed \cup blind

Covered ==
    /\ \A r \in requests : \A k \in 0..(r.since - 1) : Accounted(k)
    /\ \A a \in answers :
          /\ a.life <= life
          /\ a.lines # <<>> =>
                /\ a.last = a.lines[1].seq + Len(a.lines) - 1
                /\ \A i \in 1..Len(a.lines) : a.lines[i].seq = a.lines[1].seq + i - 1
                /\ a.life = life => \A k \in 0..(a.lines[1].seq - 1) : Accounted(k)

Alone ==
    /\ \A r \in requests :
          requests = {r} /\ answers = {} /\ r.since = lastLogSeq
    /\ \A a \in answers :
          /\ answers = {a} /\ requests = {}
          /\ a.lines # <<>> =>
                /\ lastLogSeq <= a.lines[1].seq
                /\ \A k \in lastLogSeq..(a.lines[1].seq - 1) : <<a.life, k>> \in missed
    /\ shown # <<>> => lastLogSeq = shown[Len(shown)].seq + 1

VInv == IInv /\ ViewTypeOK /\ NothingSkipped /\ Covered /\ ShownInOrder /\ (~overlapped => Alone)

LEMMA LineFields ==
    ASSUME NEW n, NEW t
    PROVE  /\ LogLine(n, t).seq = n
           /\ n \in Nat /\ t \in Texts => LogLine(n, t) \in Line
BY DEF LogLine, Line

(* What an answer to since must be: the lines from lo on, the first one    *)
(* asked for that the ring still holds.                                    *)
LEMMA SinceAnswers ==
    ASSUME IInv, NEW since \in Nat
    PROVE  LET base == next - Count
               lo == IF since < base THEN base ELSE since
           IN  /\ base \in 0..next
               /\ since >= next => SinceLines(since) = <<>>
               /\ since < next =>
                     /\ Len(SinceLines(since)) = next - lo
                     /\ \A i \in 1..(next - lo) :
                           SinceLines(since)[i] = LogLine(lo + i - 1, written[lo + i])
               /\ SinceLines(since) \in Seq(Line)
<1> DEFINE base == next - Count
           lo == IF since < base THEN base ELSE since
           d == IF since >= next THEN Count ELSE lo - base
<1>t. next \in Nat /\ Count \in Nat /\ Count <= next /\ written \in Seq(Texts) /\ Len(written) = next
  <2>1. next \in Nat /\ head \in 0..(Cap - 1) /\ full \in BOOLEAN /\ written \in Seq(Texts)
    BY DEF IInv, TypeOK
  <2>2. Len(written) = next /\ (~full => head = next) /\ (full => next >= head + Cap)
    BY DEF IInv, Placed
  <2> QED BY <2>1, <2>2, CapAssumption DEF Count
<1>s. \A i \in 1..Count : Slots[i] = LogLine(base + i - 1, written[base + i])
  BY PlacedInOrder DEF SlotsAreTheLast
<1>b. base \in 0..next BY <1>t
<1>d. d \in 0..Count BY <1>t
<1>p. {i \in 1..Count : Slots[i].seq >= since} = (d + 1)..Count
  <2>1. ASSUME NEW i \in 1..Count PROVE Slots[i].seq >= since <=> i > d
    <3> DEFINE n == base + i - 1
               x == written[base + i]
    <3>0. Slots[i] = LogLine(n, x) BY <1>s
    <3> HIDE DEF n, x
    <3>a. Slots[i].seq = n BY <3>0, LineFields
    <3>1. Slots[i].seq = base + i - 1 BY <3>a DEF n
    <3>2. i \in Int /\ i <= Count BY <1>t
    <3>3. base + i - 1 >= since <=> i > d BY <1>t, <3>2
    <3> QED BY <3>1, <3>3
  <2>2. ASSUME NEW i \in (d + 1)..Count PROVE i \in 1..Count /\ i > d BY <1>t, <1>d
  <2>3. ASSUME NEW i \in 1..Count, i > d PROVE i \in (d + 1)..Count BY <1>t, <1>d, <2>3
  <2> HIDE DEF d
  <2> QED BY <2>1, <2>2, <2>3
<1>l. SinceLines(since) = [j \in 1..(Count - d) |-> Slots[d + j]]
  <2>1. SinceLines(since) = Kept((d + 1)..Count) BY <1>p DEF SinceLines
  <2> HIDE DEF d
  <2> QED BY <2>1, <1>d, <1>t, KeptIsRest DEF KeptFrom
<1>e. ASSUME NEW j \in 1..(Count - d)
      PROVE  SinceLines(since)[j] = LogLine(base + d + j - 1, written[base + d + j])
  <2>1. d + j \in 1..Count BY <1>t, <1>d
  <2>2. base + (d + j) - 1 = base + d + j - 1 /\ base + (d + j) = base + d + j BY <1>t, <1>d
  <2> HIDE DEF d, base
  <2>3. Slots[d + j] = LogLine(base + (d + j) - 1, written[base + (d + j)]) BY <2>1, <1>s
  <2> QED BY <2>2, <2>3, <1>l
<1>n. /\ Len(SinceLines(since)) = Count - d
      /\ SinceLines(since) \in Seq(Line)
  <2>1. Count - d \in Nat BY <1>d, <1>t
  <2>2. ASSUME NEW j \in 1..(Count - d) PROVE SinceLines(since)[j] \in Line
    <3>1. base + d + j - 1 \in Nat /\ base + d + j \in 1..next BY <1>t, <1>d
    <3>2. written[base + d + j] \in Texts
      <4> HIDE DEF d, base
      <4> QED BY <3>1, <1>t
    <3> HIDE DEF d, base
    <3>3. LogLine(base + d + j - 1, written[base + d + j]) \in Line
      BY <3>1, <3>2, LineFields
    <3> QED BY <3>3, <1>e
  <2> HIDE DEF d
  <2>3. SinceLines(since) \in [1..(Count - d) -> Line] BY <2>2, <1>l
  <2> QED BY <2>1, <2>3
<1>1. ASSUME since >= next PROVE SinceLines(since) = <<>>
  <2>1. Count - d = 0 BY <1>1, <1>t
  <2> HIDE DEF d
  <2> QED BY <2>1, <1>n, EmptySeq
<1>2. ASSUME since < next
      PROVE  base + d = lo /\ Count - d = next - lo
  BY <1>2, <1>t
<1>3. ASSUME since < next, NEW i \in 1..(next - lo)
      PROVE  SinceLines(since)[i] = LogLine(lo + i - 1, written[lo + i])
  <2> HIDE DEF d, base, lo
  <2> QED BY <1>2, <1>3, <1>e
<1>4. since < next => Len(SinceLines(since)) = next - lo
  <2> HIDE DEF d, base, lo
  <2> QED BY <1>2, <1>n
<1> HIDE DEF d
<1> QED BY <1>1, <1>3, <1>4, <1>b, <1>n

(* What the view keeps of its lines.                                       *)
LEMMA LastOfFacts ==
    ASSUME NEW S, NEW s \in Seq(S), NEW n \in Nat \ {0}
    PROVE  LET m == IF Len(s) > n THEN Len(s) - n ELSE 0
           IN  /\ m \in 0..Len(s)
               /\ s # <<>> => m < Len(s)
               /\ LastOf(s, n) \in Seq(S)
               /\ Len(LastOf(s, n)) = Len(s) - m
               /\ \A i \in 1..(Len(s) - m) : LastOf(s, n)[i] = s[m + i]
<1> DEFINE m == IF Len(s) > n THEN Len(s) - n ELSE 0
<1>0. Len(s) \in Nat OBVIOUS
<1>1. m \in 0..Len(s) BY <1>0
<1>2. s # <<>> => m < Len(s)
  <2>1. s # <<>> => Len(s) > 0 BY EmptySeq
  <2> QED BY <2>1, <1>0
<1>3. LastOf(s, n) = SubSeq(s, m + 1, Len(s)) BY DEF LastOf
<1> HIDE DEF m
<1>4. \A i \in (m + 1)..Len(s) : s[i] \in S BY <1>0, <1>1
<1>5. m + 1 \in Int /\ Len(s) \in Int BY <1>0, <1>1
<1>6. /\ LastOf(s, n) \in Seq(S)
      /\ Len(LastOf(s, n)) = IF m + 1 <= Len(s) THEN Len(s) - (m + 1) + 1 ELSE 0
      /\ \A i \in 1..(Len(s) - (m + 1) + 1) : LastOf(s, n)[i] = s[(m + 1) + i - 1]
  BY <1>3, <1>4, <1>5, SubSeqProperties
<1>7. Len(LastOf(s, n)) = Len(s) - m BY <1>0, <1>1, <1>6
<1>8. ASSUME NEW i \in 1..(Len(s) - m) PROVE LastOf(s, n)[i] = s[m + i]
  <2>1. i \in 1..(Len(s) - (m + 1) + 1) /\ (m + 1) + i - 1 = m + i BY <1>0, <1>1
  <2> QED BY <2>1, <1>6
<1> QED BY <1>1, <1>2, <1>6, <1>7, <1>8 DEF m

(* The order of two lines of the view and what lies between them.          *)
InOrder(l, m, n, lost) ==
    /\ l.seq < m.seq
    /\ \A k \in (l.seq + 1)..(m.seq - 1) : \E i \in 0..n : <<i, k>> \in lost

LEMMA ShownOrder ==
    ShownInOrder <=> (~overlapped => \A i \in 1..(Len(shown) - 1) :
                                        InOrder(shown[i], shown[i + 1], life, missed))
BY DEF ShownInOrder, InOrder

(* What was accounted for stays so while Flexy lives.                      *)
LEMMA Widen ==
    ASSUME life' = life, displayed \subseteq displayed', missed \subseteq missed',
           blind \subseteq blind', NEW k, Accounted(k)
    PROVE  Accounted(k)'
BY DEF Accounted

LEMMA InitVInv == PollInit => VInv
<1> SUFFICES ASSUME PollInit PROVE VInv OBVIOUS
<1>1. IInv BY InitHolds DEF PollInit
<1>2. ViewTypeOK
  <2>1. <<>> \in Seq(Line) BY EmptySeq
  <2> QED BY <2>1 DEF PollInit, ViewTypeOK
<1>3. NothingSkipped BY DEF PollInit, NothingSkipped
<1>4. Covered BY DEF PollInit, Covered
<1>5. ShownInOrder BY DEF PollInit, ShownInOrder
<1>6. Alone BY DEF PollInit, Alone
<1> QED BY <1>1, <1>2, <1>3, <1>4, <1>5, <1>6 DEF VInv

(* Write: the view does not see it.                                        *)
LEMMA WriteVInv == ASSUME VInv, [Next]_logVars, UNCHANGED viewVars PROVE VInv'
<1>1. IInv'
  <2>1. ASSUME NEW t \in Texts, Write(t) PROVE IInv' BY <2>1, WriteKeeps DEF VInv
  <2> QED BY <2>1, StutterKeeps DEF Next, VInv
<1>2. ViewTypeOK' BY DEF VInv, ViewTypeOK, viewVars
<1>3. NothingSkipped' BY DEF VInv, NothingSkipped, viewVars
<1>4. Covered' BY DEF VInv, Covered, Accounted, viewVars
<1>5. ShownInOrder' BY DEF VInv, ShownInOrder, viewVars
<1>6. (~overlapped => Alone)' BY DEF VInv, Alone, viewVars
<1> QED BY <1>1, <1>2, <1>3, <1>4, <1>5, <1>6 DEF VInv

(* StartPoll: the request asks from where the view ends.                   *)
LEMMA StartPollVInv == ASSUME VInv, StartPoll PROVE VInv'
<1> DEFINE q == [poll |-> polls, since |-> lastLogSeq]
<1>t. ViewTypeOK BY DEF VInv
<1>w. /\ polls' = polls + 1
      /\ overlapped' = (overlapped \/ requests \cup answers # {})
      /\ requests' = requests \cup {q}
      /\ UNCHANGED logVars
      /\ UNCHANGED <<shown, lastLogSeq, answers, life, displayed, missed, blind>>
  BY DEF StartPoll
<1>1. IInv' BY <1>w, StutterKeeps DEF VInv
<1>2. ViewTypeOK'
  <2>0. polls \in Nat /\ lastLogSeq \in Nat BY <1>t DEF ViewTypeOK
  <2>1. q \in Request BY <2>0 DEF Request
  <2> HIDE DEF q
  <2>2. polls' \in Nat BY <1>t, <1>w DEF ViewTypeOK
  <2>3. overlapped' \in BOOLEAN BY <1>w
  <2> QED BY <2>1, <2>2, <2>3, <1>t, <1>w DEF ViewTypeOK
<1>3. NothingSkipped' BY <1>w DEF VInv, NothingSkipped
<1>a. \A k : Accounted(k)' <=> Accounted(k) BY <1>w DEF Accounted
<1>4. Covered'
  <2>1. ASSUME NEW r \in requests' PROVE \A k \in 0..(r.since - 1) : Accounted(k)'
    <3>1. CASE r = q
      <4>1. r.since = lastLogSeq BY <3>1
      <4>2. \A k \in 0..(lastLogSeq - 1) : Accounted(k) BY DEF VInv, NothingSkipped, Accounted
      <4> QED BY <4>1, <4>2, <1>a
    <3>2. CASE r \in requests
      <4>1. \A k \in 0..(r.since - 1) : Accounted(k) BY <3>2 DEF VInv, Covered
      <4> QED BY <4>1, <1>a
    <3> HIDE DEF q
    <3> QED BY <3>1, <3>2, <1>w
  <2>2. ASSUME NEW a \in answers'
        PROVE  /\ a.life <= life'
               /\ a.lines # <<>> =>
                     /\ a.last = a.lines[1].seq + Len(a.lines) - 1
                     /\ \A i \in 1..Len(a.lines) : a.lines[i].seq = a.lines[1].seq + i - 1
                     /\ a.life = life' => \A k \in 0..(a.lines[1].seq - 1) : Accounted(k)'
    <3> HIDE DEF q
    <3> QED BY <1>a, <1>w DEF VInv, Covered
  <2> QED BY <2>1, <2>2 DEF Covered
<1>5. ShownInOrder'
  <2> HIDE DEF q
  <2>1. overlapped => overlapped' BY <1>w
  <2> QED BY <2>1, <1>w DEF VInv, ShownInOrder
<1>6. (~overlapped => Alone)'
  <2>1. SUFFICES ASSUME ~overlapped' PROVE Alone' OBVIOUS
  <2>2. ~overlapped /\ requests = {} /\ answers = {} BY <2>1, <1>w
  <2>3. requests' = {q} /\ answers' = {} /\ q.since = lastLogSeq' BY <2>2, <1>w
  <2>4. shown # <<>> => lastLogSeq = shown[Len(shown)].seq + 1 BY <2>2 DEF VInv, Alone
  <2> HIDE DEF q
  <2> QED BY <2>3, <2>4, <1>w DEF Alone
<1> QED BY <1>1, <1>2, <1>3, <1>4, <1>5, <1>6 DEF VInv

(* Lose, Clear: nothing is added to the view or to what is under way.      *)
LEMMA DropVInv ==
    ASSUME VInv, requests' \subseteq requests, answers' \subseteq answers,
           shown' \in {shown, <<>>},
           UNCHANGED logVars,
           UNCHANGED <<lastLogSeq, polls, overlapped, life, displayed, missed, blind>>
    PROVE  VInv'
<1>t. ViewTypeOK BY DEF VInv
<1>1. IInv' BY StutterKeeps DEF VInv
<1>2. ViewTypeOK'
  <2>1. shown' \in Seq(Line) BY <1>t, EmptySeq DEF ViewTypeOK
  <2> QED BY <2>1, <1>t DEF ViewTypeOK
<1>3. NothingSkipped' BY DEF VInv, NothingSkipped
<1>4. Covered' BY DEF VInv, Covered, Accounted
<1>e. Len(<<>>) = 0 /\ ~(\E i \in 1..(0 - 1) : TRUE) BY EmptySeq
<1>5. ShownInOrder'
  <2>1. CASE shown' = shown BY <2>1 DEF VInv, ShownInOrder
  <2>2. CASE shown' = <<>>
    <3>1. \A i \in 1..(Len(shown') - 1) : FALSE BY <2>2, <1>e
    <3> QED BY <3>1 DEF ShownInOrder
  <2> QED BY <2>1, <2>2
<1>6. (~overlapped => Alone)'
  <2>1. SUFFICES ASSUME ~overlapped PROVE Alone' OBVIOUS
  <2>2. Alone BY <2>1 DEF VInv
  <2>3. shown' # <<>> => lastLogSeq' = shown'[Len(shown')].seq + 1 BY <2>2 DEF Alone
  <2>4. ASSUME NEW r \in requests'
        PROVE  requests' = {r} /\ answers' = {} /\ r.since = lastLogSeq'
    BY <2>2 DEF Alone
  <2>5. ASSUME NEW a \in answers'
        PROVE  /\ answers' = {a} /\ requests' = {}
               /\ a.lines # <<>> =>
                     /\ lastLogSeq' <= a.lines[1].seq
                     /\ \A k \in lastLogSeq'..(a.lines[1].seq - 1) : <<a.life, k>> \in missed'
    BY <2>2 DEF Alone
  <2> QED BY <2>3, <2>4, <2>5 DEF Alone
<1> QED BY <1>1, <1>2, <1>3, <1>4, <1>5, <1>6 DEF VInv

(* Restart: what the page had from the life before stays, the rest is      *)
(* blind to it.                                                            *)
LEMMA RestartVInv == ASSUME VInv, Restart PROVE VInv'
<1>t. ViewTypeOK BY DEF VInv
<1>w. /\ life' = life + 1
      /\ requests' = {}
      /\ blind' = blind \cup {<<life', k>> : k \in 0..(lastLogSeq - 1)}
      /\ UNCHANGED <<shown, lastLogSeq, answers, polls, overlapped, displayed, missed>>
  BY DEF Restart
<1>1. IInv'
  <2> USE CapAssumption
  <2>1. /\ ring' = [i \in 0..(Cap - 1) |-> LogLine(0, Blank)]
        /\ head' = 0 /\ full' = FALSE /\ next' = 0 /\ written' = <<>>
    BY DEF Restart
  <2>2. TypeOK' BY <2>1 DEF TypeOK, LogLine
  <2>3. Placed' BY <2>1 DEF Placed
  <2> QED BY <2>2, <2>3 DEF IInv
<1>2. ViewTypeOK' BY <1>t, <1>w DEF ViewTypeOK
<1>3. NothingSkipped' BY <1>w DEF NothingSkipped
<1>4. Covered'
  <2>1. ASSUME NEW a \in answers
        PROVE  a.life <= life' /\ a.life # life'
    <3>1. a.life \in Nat /\ life \in Nat BY <1>t DEF ViewTypeOK, Answer
    <3>2. a.life <= life BY DEF VInv, Covered
    <3> QED BY <3>1, <3>2, <1>w
  <2>2. Covered BY DEF VInv
  <2> QED BY <2>1, <2>2, <1>w DEF Covered
<1>5. ShownInOrder'
  <2>1. SUFFICES ASSUME ~overlapped, NEW i \in 1..(Len(shown) - 1)
                 PROVE  InOrder(shown[i], shown[i + 1], life', missed)
    <3>1. ~overlapped => \A i \in 1..(Len(shown) - 1) :
             InOrder(shown[i], shown[i + 1], life', missed) BY <2>1
    <3> QED BY <3>1, <1>w DEF ShownInOrder, InOrder
  <2>2. InOrder(shown[i], shown[i + 1], life, missed) BY <2>1, ShownOrder DEF VInv
  <2>3. \A n \in 0..life : n \in 0..life' BY <1>t, <1>w DEF ViewTypeOK
  <2> QED BY <2>2, <2>3 DEF InOrder
<1>6. (~overlapped => Alone)'
  <2>1. SUFFICES ASSUME ~overlapped PROVE Alone' BY <1>w
  <2>2. Alone BY <2>1 DEF VInv
  <2>5. ASSUME NEW a \in answers'
        PROVE  /\ answers' = {a} /\ requests' = {}
               /\ a.lines # <<>> =>
                     /\ lastLogSeq' <= a.lines[1].seq
                     /\ \A k \in lastLogSeq'..(a.lines[1].seq - 1) : <<a.life, k>> \in missed'
    BY <2>2, <1>w DEF Alone
  <2> QED BY <2>2, <2>5, <1>w DEF Alone
<1> QED BY <1>1, <1>2, <1>3, <1>4, <1>5, <1>6 DEF VInv

(* Serve: the answer begins where the request asked, or at the oldest line *)
(* the ring holds and then those before it are missed.                     *)
LEMMA ServeVInv == ASSUME VInv, NEW r \in requests, Serve(r) PROVE VInv'
<1> DEFINE b == [poll |-> r.poll, life |-> life, lines |-> SinceLines(r.since),
                 last |-> SinceLast]
           base == next - Count
           lo == IF r.since < base THEN base ELSE r.since
           gone == {<<life, k>> : k \in r.since..(base - 1)}
<1>t. ViewTypeOK /\ IInv BY DEF VInv
<1>w. /\ requests' = requests \ {r}
      /\ answers' = answers \cup {b}
      /\ missed' = missed \cup gone
      /\ UNCHANGED logVars
      /\ UNCHANGED <<shown, lastLogSeq, polls, overlapped, life, displayed, blind>>
  BY DEF Serve
<1>r. r.since \in Nat /\ r.poll \in Nat /\ life \in Nat /\ next \in Nat
  BY <1>t DEF ViewTypeOK, Request, IInv, TypeOK
<1>s. /\ base \in 0..next
      /\ r.since >= next => SinceLines(r.since) = <<>>
      /\ r.since < next =>
            /\ Len(SinceLines(r.since)) = next - lo
            /\ \A i \in 1..(next - lo) :
                  SinceLines(r.since)[i] = LogLine(lo + i - 1, written[lo + i])
      /\ SinceLines(r.since) \in Seq(Line)
  BY <1>r, <1>t, SinceAnswers
<1>b. b \in Answer
  <2>1. SinceLast \in Nat BY <1>r DEF SinceLast
  <2> QED BY <2>1, <1>r, <1>s DEF Answer
<1>f. b.life = life /\ b.lines = SinceLines(r.since) /\ b.last = SinceLast OBVIOUS
<1> HIDE DEF b
<1>l. ASSUME b.lines # <<>>
      PROVE  /\ r.since < next
             /\ b.lines[1].seq = lo
             /\ b.last = b.lines[1].seq + Len(b.lines) - 1
             /\ \A i \in 1..Len(b.lines) : b.lines[i].seq = b.lines[1].seq + i - 1
  <2>1. r.since < next BY <1>l, <1>f, <1>r, <1>s
  <2>3. Len(b.lines) = next - lo BY <2>1, <1>f, <1>s
  <2>9. Len(b.lines) > 0 BY <1>l, <1>f, <1>s, EmptySeq
  <2>2. lo \in Nat /\ lo < next
    <3>1. lo \in Nat BY <1>r, <1>s
    <3> HIDE DEF lo
    <3> QED BY <3>1, <2>3, <2>9, <1>r
  <2>4. ASSUME NEW i \in 1..(next - lo) PROVE b.lines[i].seq = lo + i - 1
    <3> HIDE DEF lo, base
    <3>1. b.lines[i] = LogLine(lo + i - 1, written[lo + i]) BY <2>1, <1>f, <1>s
    <3> DEFINE n == lo + i - 1
               x == written[lo + i]
    <3>2. b.lines[i] = LogLine(n, x) BY <3>1
    <3> HIDE DEF n, x
    <3>3. b.lines[i].seq = n BY <3>2, LineFields
    <3> QED BY <3>3 DEF n
  <2>5. b.last = next - 1 BY <2>1, <1>r, <1>f DEF SinceLast
  <2> HIDE DEF lo, base
  <2>6. 1 \in 1..(next - lo) BY <2>2, <1>r
  <2>7. b.lines[1].seq = lo BY <2>4, <2>6, <2>2
  <2>8. next - 1 = lo + (next - lo) - 1 BY <2>2, <1>r
  <2> QED BY <2>1, <2>3, <2>4, <2>5, <2>7, <2>8
<1>1. IInv' BY <1>w, StutterKeeps, <1>t
<1>2. ViewTypeOK'
  <2>1. answers' \in SUBSET Answer /\ requests' \in SUBSET Request
    BY <1>t, <1>b, <1>w DEF ViewTypeOK
  <2> HIDE DEF gone
  <2> QED BY <2>1, <1>t, <1>w DEF ViewTypeOK
<1>a. \A k : Accounted(k) => Accounted(k)' BY <1>w, Widen
<1>3. NothingSkipped' BY <1>w DEF VInv, NothingSkipped
<1>g. ASSUME NEW k \in r.since..(lo - 1) PROVE <<life, k>> \in missed'
  <2>1. k \in r.since..(base - 1) BY <1>r, <1>s
  <2> QED BY <2>1, <1>w
<1>4. Covered'
  <2>1. ASSUME NEW q \in requests' PROVE \A k \in 0..(q.since - 1) : Accounted(k)'
    <3>1. \A k \in 0..(q.since - 1) : Accounted(k) BY <2>1, <1>w DEF VInv, Covered
    <3> QED BY <3>1, <1>a
  <2>2. ASSUME NEW a \in answers'
        PROVE  /\ a.life <= life'
               /\ a.lines # <<>> =>
                     /\ a.last = a.lines[1].seq + Len(a.lines) - 1
                     /\ \A i \in 1..Len(a.lines) : a.lines[i].seq = a.lines[1].seq + i - 1
                     /\ a.life = life' => \A k \in 0..(a.lines[1].seq - 1) : Accounted(k)'
    <3>1. CASE a \in answers
      <4> HIDE DEF gone, lo
      <4> QED BY <3>1, <1>a, <1>w DEF VInv, Covered
    <3>2. CASE a = b
      <4>1. a.life <= life' BY <3>2, <1>f, <1>w, <1>r
      <4>2. ASSUME b.lines # <<>>, NEW k \in 0..(lo - 1) PROVE Accounted(k)'
        <5>1. CASE k < r.since
          <6>1. k \in 0..(r.since - 1) BY <5>1, <1>r
          <6>2. Accounted(k) BY <6>1, <1>t DEF VInv, Covered
          <6> QED BY <6>2, <1>a
        <5>2. CASE ~(k < r.since)
          <6>1. k \in r.since..(lo - 1) BY <5>2, <1>r, <1>s
          <6> HIDE DEF lo
          <6>2. <<life, k>> \in missed' BY <6>1, <1>g
          <6> QED BY <6>2, <1>w DEF Accounted
        <5> QED BY <5>1, <5>2
      <4> HIDE DEF lo, gone
      <4> QED BY <3>2, <4>1, <4>2, <1>l
    <3> QED BY <3>1, <3>2, <1>w
  <2> QED BY <2>1, <2>2 DEF Covered
<1>5. ShownInOrder'
  <2> HIDE DEF gone
  <2>1. missed \subseteq missed' BY <1>w
  <2> QED BY <2>1, <1>w DEF VInv, ShownInOrder
<1>6. (~overlapped => Alone)'
  <2>1. SUFFICES ASSUME ~overlapped PROVE Alone' BY <1>w
  <2>2. Alone BY <2>1 DEF VInv
  <2>3. requests = {r} /\ answers = {} /\ r.since = lastLogSeq BY <2>2 DEF Alone
  <2>4. requests' = {} /\ answers' = {b} BY <2>3, <1>w
  <2>5. ASSUME b.lines # <<>>
        PROVE  /\ lastLogSeq' <= b.lines[1].seq
               /\ \A k \in lastLogSeq'..(b.lines[1].seq - 1) : <<b.life, k>> \in missed'
    <3>1. b.lines[1].seq = lo /\ lastLogSeq' = r.since BY <2>5, <1>l, <2>3, <1>w
    <3>2. r.since <= lo BY <1>r, <1>s
    <3> HIDE DEF lo
    <3> QED BY <3>1, <3>2, <1>g, <1>f
  <2>6. shown' # <<>> => lastLogSeq' = shown'[Len(shown')].seq + 1
    <3>1. shown # <<>> => lastLogSeq = shown[Len(shown)].seq + 1 BY <2>2 DEF Alone
    <3> QED BY <3>1, <1>w
  <2> QED BY <2>4, <2>5, <2>6 DEF Alone
<1> QED BY <1>1, <1>2, <1>3, <1>4, <1>5, <1>6 DEF VInv

(* The lines of an answer, as the view appends them.                       *)
LEMMA ReceiveVInv == ASSUME VInv, NEW a \in answers, Receive(a) PROVE VInv'
<1>t. ViewTypeOK /\ IInv BY DEF VInv
<1>0. CASE a.lines = <<>>
  <2>1. /\ answers' = answers \ {a}
        /\ UNCHANGED <<shown, lastLogSeq, displayed, blind>>
        /\ UNCHANGED logVars
        /\ UNCHANGED <<requests, polls, overlapped, life, missed>>
    BY <1>0 DEF Receive
  <2> QED BY <2>1, DropVInv
<1>x. CASE a.lines # <<>>
  <2> DEFINE s == shown \o a.lines
             m == IF Len(s) > Keep THEN Len(s) - Keep ELSE 0
             L == Len(shown)
             N == Len(a.lines)
             f == a.lines[1].seq
  <2>w. /\ answers' = answers \ {a}
        /\ shown' = LastOf(s, Keep)
        /\ displayed' = displayed \cup {<<a.life, a.lines[i].seq>> : i \in 1..N}
        /\ lastLogSeq' = a.last + 1
        /\ blind' = IF a.life = life THEN blind
                    ELSE blind \cup {<<life, k>> : k \in 0..a.last}
        /\ UNCHANGED logVars
        /\ UNCHANGED <<requests, polls, overlapped, life, missed>>
    BY <1>x DEF Receive
  <2>t. /\ shown \in Seq(Line) /\ a.lines \in Seq(Line) /\ a.last \in Nat
        /\ a.life \in Nat /\ life \in Nat /\ lastLogSeq \in Nat
    BY <1>t DEF ViewTypeOK, Answer
  <2>a. /\ a.life <= life
        /\ a.last = f + N - 1
        /\ \A i \in 1..N : a.lines[i].seq = f + i - 1
        /\ a.life = life => \A k \in 0..(f - 1) : Accounted(k)
    BY <1>x DEF VInv, Covered
  <2>n. N \in Nat /\ N > 0 /\ L \in Nat BY <2>t, <1>x, EmptySeq
  <2>f. f \in Nat
    <3>1. a.lines[1] \in Line BY <2>n, <2>t, ElementOfSeq
    <3> QED BY <3>1 DEF Line
  <2>s. /\ s \in Seq(Line) /\ Len(s) = L + N
        /\ \A i \in 1..(L + N) : s[i] = IF i <= L THEN shown[i] ELSE a.lines[i - L]
    BY <2>t, ConcatProperties
  <2>l. /\ m \in 0..(L + N) /\ m < L + N
        /\ LastOf(s, Keep) \in Seq(Line)
        /\ Len(LastOf(s, Keep)) = L + N - m
        /\ \A i \in 1..(L + N - m) : LastOf(s, Keep)[i] = s[m + i]
    <3>1. s # <<>> BY <2>s, <2>n, EmptySeq
    <3>2. Keep \in Nat \ {0} BY ViewAssumption
    <3> HIDE DEF s
    <3>3. /\ m \in 0..Len(s)
          /\ m < Len(s)
          /\ LastOf(s, Keep) \in Seq(Line)
          /\ Len(LastOf(s, Keep)) = Len(s) - m
          /\ \A i \in 1..(Len(s) - m) : LastOf(s, Keep)[i] = s[m + i]
      <4>1. s \in Seq(Line) BY <2>s
      <4> QED BY <3>1, <3>2, <4>1, LastOfFacts
    <3> DEFINE k == L + N
    <3>4. Len(s) = k BY <2>s
    <3> HIDE DEF m, L, N, k
    <3>5. /\ m \in 0..k /\ m < k
          /\ LastOf(s, Keep) \in Seq(Line)
          /\ Len(LastOf(s, Keep)) = k - m
          /\ \A i \in 1..(k - m) : LastOf(s, Keep)[i] = s[m + i]
      BY <3>3, <3>4
    <3>6. k = L + N /\ L \in Nat /\ N \in Nat BY <2>n DEF k
    <3>7. k - m = L + N - m BY <3>5, <3>6
    <3> QED BY <3>5, <3>6, <3>7
  <2> HIDE DEF s, m, L, N, f
  <2>1. IInv' BY <2>w, StutterKeeps, <1>t
  <2>2. ViewTypeOK'
    <3>1. shown' \in Seq(Line) /\ lastLogSeq' \in Nat BY <2>w, <2>l, <2>t
    <3> QED BY <3>1, <2>w, <1>t DEF ViewTypeOK
  <2>v. \A k : Accounted(k) => Accounted(k)'
    <3>1. displayed \subseteq displayed' /\ blind \subseteq blind' BY <2>w
    <3> QED BY <3>1, <2>w, Widen
  <2>3. NothingSkipped'
    <3>1. ASSUME NEW k \in 0..a.last PROVE Accounted(k)'
      <4>1. CASE a.life # life
        <5>1. <<life, k>> \in blind' BY <4>1, <2>w
        <5> QED BY <5>1, <2>w DEF Accounted
      <4>2. CASE a.life = life /\ k < f
        <5>1. k \in 0..(f - 1) BY <4>2, <2>f
        <5>2. Accounted(k) BY <5>1, <4>2, <2>a
        <5> QED BY <5>2, <2>v
      <4>3. CASE a.life = life /\ ~(k < f)
        <5> DEFINE i == k - f + 1
        <5>1. i \in 1..N /\ f + i - 1 = k BY <4>3, <2>f, <2>a, <2>n, <2>t
        <5> HIDE DEF i
        <5>2. a.lines[i].seq = k BY <5>1, <2>a
        <5>3. <<life, k>> \in displayed' BY <5>1, <5>2, <4>3, <2>w
        <5> QED BY <5>3, <2>w DEF Accounted
      <4> QED BY <4>1, <4>2, <4>3
    <3>2. lastLogSeq' - 1 = a.last BY <2>w, <2>t
    <3> QED BY <3>1, <3>2 DEF NothingSkipped, Accounted
  <2>4. Covered'
    <3>1. ASSUME NEW q \in requests' PROVE \A k \in 0..(q.since - 1) : Accounted(k)'
      <4>1. \A k \in 0..(q.since - 1) : Accounted(k) BY <3>1, <2>w DEF VInv, Covered
      <4> QED BY <4>1, <2>v
    <3>2. ASSUME NEW b \in answers'
          PROVE  /\ b.life <= life'
                 /\ b.lines # <<>> =>
                       /\ b.last = b.lines[1].seq + Len(b.lines) - 1
                       /\ \A i \in 1..Len(b.lines) : b.lines[i].seq = b.lines[1].seq + i - 1
                       /\ b.life = life' => \A k \in 0..(b.lines[1].seq - 1) : Accounted(k)'
      <4>1. b \in answers /\ life' = life BY <2>w
      <4> QED BY <4>1, <2>v DEF VInv, Covered
    <3> QED BY <3>1, <3>2 DEF Covered
  <2>5. ASSUME ~overlapped
        PROVE  /\ ShownInOrder' /\ Alone'
    <3>0. Alone BY <2>5 DEF VInv
    <3>1. /\ answers = {a} /\ requests = {} /\ lastLogSeq <= f
          /\ \A k \in lastLogSeq..(f - 1) : <<a.life, k>> \in missed
      BY <3>0, <1>x DEF Alone, f
    <3>2. ASSUME NEW i \in 1..(L + N - 1)
          PROVE  InOrder(s[i], s[i + 1], life, missed)
      <4>0. i \in Nat /\ i >= 1 /\ i \in 1..(L + N) /\ i + 1 \in 1..(L + N) BY <2>n
      <4>1. CASE i + 1 <= L
        <5>1. s[i] = shown[i] /\ s[i + 1] = shown[i + 1] BY <4>0, <4>1, <2>s, <2>n
        <5>2. i \in 1..(L - 1) BY <4>0, <4>1, <2>n
        <5>3. InOrder(shown[i], shown[i + 1], life, missed)
          BY <5>2, <2>5, ShownOrder DEF VInv, L
        <5> QED BY <5>1, <5>3
      <4>2. CASE i > L
        <5> DEFINE j == i - L
        <5>1. s[i] = a.lines[j] /\ s[i + 1] = a.lines[i + 1 - L] BY <4>0, <4>2, <2>s, <2>n
        <5>2. i + 1 - L = j + 1 /\ j \in 1..N /\ j + 1 \in 1..N BY <4>0, <4>2, <2>n
        <5> HIDE DEF j
        <5>3. a.lines[j].seq = f + j - 1 /\ a.lines[j + 1].seq = f + (j + 1) - 1
          BY <5>2, <2>a
        <5>4. \A k \in ((f + j - 1) + 1)..((f + (j + 1) - 1) - 1) : FALSE
          BY <5>2, <2>f, <2>n
        <5>5. f + j - 1 < f + (j + 1) - 1 BY <5>2, <2>f
        <5> QED BY <5>1, <5>2, <5>3, <5>4, <5>5 DEF InOrder
      <4>3. CASE i = L
        <5>1. s[i] = shown[L] /\ s[i + 1] = a.lines[i + 1 - L] BY <4>0, <4>3, <2>s, <2>n
        <5>2. i + 1 - L = 1 BY <4>3, <2>n
        <5>3. shown # <<>> BY <4>0, <4>3, EmptySeq DEF L
        <5>4. lastLogSeq = shown[L].seq + 1 BY <5>3, <3>0 DEF Alone, L
        <5>5. shown[L] \in Line BY <4>0, <4>3, <2>t, ElementOfSeq DEF L
        <5>6. shown[L].seq \in Nat BY <5>5 DEF Line
        <5>7. s[i + 1].seq = f BY <5>1, <5>2 DEF f
        <5>8. shown[L].seq < f BY <5>4, <5>6, <3>1, <2>f
        <5>9. ASSUME NEW k \in (shown[L].seq + 1)..(f - 1)
              PROVE  \E n \in 0..life : <<n, k>> \in missed
          <6>1. <<a.life, k>> \in missed BY <5>4, <5>9, <3>1
          <6>2. a.life \in 0..life BY <2>a, <2>t
          <6> QED BY <6>1, <6>2
        <5> QED BY <5>1, <5>7, <5>8, <5>9 DEF InOrder
      <4> QED BY <4>0, <4>1, <4>2, <4>3, <2>n
    <3>3. Len(shown') = L + N - m BY <2>w, <2>l
    <3>4. ASSUME NEW i \in 1..(Len(shown') - 1)
          PROVE  InOrder(shown'[i], shown'[i + 1], life', missed')
      <4>0. m \in Nat /\ i \in Nat BY <2>l, <2>n
      <4>1. i \in 1..(L + N - m) /\ i + 1 \in 1..(L + N - m)
        BY <3>3, <4>0, <2>n
      <4>2. shown'[i] = s[m + i] /\ shown'[i + 1] = s[m + (i + 1)] BY <4>1, <2>w, <2>l
      <4>3. m + i \in 1..(L + N - 1) /\ m + (i + 1) = (m + i) + 1
        BY <3>3, <4>0, <2>n
      <4>4. InOrder(s[m + i], s[(m + i) + 1], life, missed) BY <4>3, <3>2
      <4> QED BY <4>2, <4>3, <4>4, <2>w
    <3>5. ShownInOrder' BY <3>4 DEF ShownInOrder, InOrder
    <3>6. shown'[Len(shown')].seq + 1 = lastLogSeq'
      <4>0. m \in Nat BY <2>l, <2>n
      <4>1. L + N - m \in 1..(L + N - m) /\ m + (L + N - m) = L + N
        BY <4>0, <2>l, <2>n
      <4>2. shown'[Len(shown')] = s[L + N] BY <4>1, <3>3, <2>w, <2>l
      <4>3. L + N \in 1..(L + N) BY <2>n
      <4>7. ~(L + N <= L) /\ L + N - L = N BY <2>n
      <4> DEFINE k == L + N
      <4>8. k \in 1..k /\ ~(k <= L) /\ k - L = N BY <2>n
      <4>9. \A i \in 1..k : s[i] = IF i <= L THEN shown[i] ELSE a.lines[i - L] BY <2>s
      <4>4. s[L + N] = a.lines[N]
        <5> HIDE DEF k
        <5>1. s[k] = a.lines[k - L] BY <4>8, <4>9
        <5>2. s[k] = a.lines[N] BY <5>1, <4>8
        <5> QED BY <5>2 DEF k
      <4>5. N \in 1..N BY <2>n
      <4>6. a.lines[N].seq = a.last BY <4>5, <2>a
      <4> QED BY <4>2, <4>4, <4>6, <2>w
    <3>7. answers' = {} /\ requests' = {} BY <3>1, <2>w
    <3>8. Alone' BY <3>6, <3>7 DEF Alone
    <3> QED BY <3>5, <3>8
  <2>6. CASE overlapped
    <3>1. overlapped' BY <2>6, <2>w
    <3>2. ShownInOrder' BY <3>1 DEF ShownInOrder
    <3> QED BY <3>1, <3>2, <2>1, <2>2, <2>3, <2>4 DEF VInv
  <2>7. CASE ~overlapped BY <2>7, <2>5, <2>1, <2>2, <2>3, <2>4 DEF VInv
  <2> QED BY <2>6, <2>7
<1> QED BY <1>0, <1>x

LEMMA StepVInv == VInv /\ [PollNext]_vars => VInv'
<1> SUFFICES ASSUME VInv, [PollNext]_vars PROVE VInv' OBVIOUS
<1>1. ASSUME Next, UNCHANGED viewVars PROVE VInv' BY <1>1, WriteVInv
<1>2. ASSUME StartPoll PROVE VInv' BY <1>2, StartPollVInv
<1>3. ASSUME NEW r \in requests, Serve(r) PROVE VInv' BY <1>3, ServeVInv
<1>4. ASSUME NEW a \in answers, Receive(a) PROVE VInv' BY <1>4, ReceiveVInv
<1>5. ASSUME Lose PROVE VInv'
  <2>1. /\ requests' \subseteq requests /\ answers' \subseteq answers
        /\ UNCHANGED logVars
        /\ UNCHANGED <<shown, lastLogSeq, polls, overlapped, life, displayed, missed, blind>>
    BY <1>5 DEF Lose
  <2> QED BY <2>1, DropVInv
<1>6. ASSUME Clear PROVE VInv'
  <2>1. /\ requests' = requests /\ answers' = answers /\ shown' = <<>>
        /\ UNCHANGED logVars
        /\ UNCHANGED <<lastLogSeq, polls, overlapped, life, displayed, missed, blind>>
    BY <1>6 DEF Clear
  <2> QED BY <2>1, DropVInv
<1>7. ASSUME Restart PROVE VInv' BY <1>7, RestartVInv
<1>8. ASSUME UNCHANGED vars PROVE VInv'
  <2>1. UNCHANGED logVars /\ UNCHANGED viewVars BY <1>8 DEF vars
  <2> QED BY <2>1, WriteVInv
<1> QED BY <1>1, <1>2, <1>3, <1>4, <1>5, <1>6, <1>7, <1>8 DEF PollNext

LEMMA PollInvariant == PollSpec => []VInv
BY InitVInv, StepVInv, PTL DEF PollSpec

(* Whatever the capacity, and over restarts, Since reads the last lines    *)
(* written, all that are left, in order: no wrap of the ring loses,        *)
(* doubles or swaps a line.                                                *)
THEOREM SlotsCorrect == PollSpec => []SlotsAreTheLast
<1>1. VInv => SlotsAreTheLast BY PlacedInOrder DEF VInv
<1> QED BY PollInvariant, <1>1, PTL

(* The ring's index never leaves the ring (b.ring[b.head] cannot panic),   *)
(* and the view's variables keep their types.                              *)
THEOREM TypesCorrect == PollSpec => [](TypeOK /\ ViewTypeOK)
<1>1. VInv => TypeOK /\ ViewTypeOK BY DEF VInv, IInv
<1> QED BY PollInvariant, <1>1, PTL

(* GET /api/logs answers with exactly the lines from since on that the     *)
(* ring still holds, each with its number and its text.                    *)
SinceIsExact ==
    \A since \in Nat :
        LET lo == IF since < next - Count THEN next - Count ELSE since
            n == IF since < next THEN next - lo ELSE 0
        IN  SinceLines(since) = [i \in 1..n |-> LogLine(lo + i - 1, written[lo + i])]

THEOREM SinceCorrect == PollSpec => []SinceIsExact
<1>1. ASSUME VInv PROVE SinceIsExact
  <2>1. SUFFICES ASSUME NEW since \in Nat
                 PROVE  LET lo == IF since < next - Count THEN next - Count ELSE since
                            n == IF since < next THEN next - lo ELSE 0
                        IN  SinceLines(since) =
                                [i \in 1..n |-> LogLine(lo + i - 1, written[lo + i])]
    BY DEF SinceIsExact
  <2> DEFINE lo == IF since < next - Count THEN next - Count ELSE since
             n == IF since < next THEN next - lo ELSE 0
  <2>2. next \in Nat BY <1>1 DEF VInv, IInv, TypeOK
  <2>3. /\ next - Count \in 0..next
        /\ since >= next => SinceLines(since) = <<>>
        /\ since < next =>
              /\ Len(SinceLines(since)) = next - lo
              /\ \A i \in 1..(next - lo) :
                    SinceLines(since)[i] = LogLine(lo + i - 1, written[lo + i])
        /\ SinceLines(since) \in Seq(Line)
    BY <1>1, SinceAnswers DEF VInv
  <2>4. CASE since < next
    <3>1. n = next - lo BY <2>4
    <3> HIDE DEF lo, n
    <3> DEFINE s == SinceLines(since)
    <3>2. s \in Seq(Line) /\ Len(s) = n BY <3>1, <2>3, <2>4
    <3>4. \A i \in 1..n : s[i] = LogLine(lo + i - 1, written[lo + i]) BY <3>1, <2>3, <2>4
    <3> HIDE DEF s
    <3>3. s = [i \in 1..n |-> s[i]] BY <3>2
    <3>5. s = [i \in 1..n |-> LogLine(lo + i - 1, written[lo + i])] BY <3>3, <3>4
    <3> QED BY <3>5 DEF s, n, lo
  <2>5. CASE ~(since < next)
    <3>1. n = 0 BY <2>5
    <3>2. SinceLines(since) = <<>> BY <2>2, <2>3, <2>5
    <3> HIDE DEF n
    <3>3. [i \in 1..n |-> LogLine(lo + i - 1, written[lo + i])] = <<>> BY <3>1
    <3> QED BY <3>2, <3>3 DEF n, lo
  <2> QED BY <2>4, <2>5
<1> QED BY PollInvariant, <1>1, PTL

(* For any number of polls, lost, overtaken or overlapping, and any number *)
(* of restarts, no line is skipped that the view could have had.           *)
THEOREM ViewSkipsNothing == PollSpec => []NothingSkipped
<1>1. VInv => NothingSkipped BY DEF VInv
<1> QED BY PollInvariant, <1>1, PTL

(* While no two polls overlap the view is in order and without a gap that  *)
(* the ring did not cause.                                                 *)
THEOREM ViewIsInOrder == PollSpec => []ShownInOrder
<1>1. VInv => ShownInOrder BY DEF VInv
<1> QED BY PollInvariant, <1>1, PTL

-----------------------------------------------------------------------------
(* The configuration, for any number of overlapping requests and any sets  *)
(* of field values.                                                        *)

(* What a request that writes its copy back, or is about to set the level, *)
(* has been checked for.  The listen address was compared with cfg before  *)
(* the write back begins, and must not have changed since.                 *)
CommitChecked ==
    \A r \in Requests : pc[r] = "commit" => /\ incoming[r].level \in Levels
                                            /\ incoming[r].listen = cfg.listen

ParsedChecked == \A r \in Requests : pc[r] = "setLevel" => parsed[r] \in Levels

ConfigInv == ConfigTypeOK /\ LevelStaysValid /\ CommitChecked /\ ParsedChecked

(* The record a body decoded over a configuration gives.                   *)
LEMMA MergeType ==
    ASSUME NEW c \in Config, NEW b \in Body
    PROVE  Merge(c, b) \in Config
<1>1. \A f \in Field : Merge(c, b)[f] = IF b[f] = Omitted THEN c[f] ELSE b[f]
  BY DEF Merge
<1>2. /\ Merge(c, b)["radio"] \in Radios
      /\ Merge(c, b)["level"] \in Levels \cup {BadLevel}
      /\ Merge(c, b)["listen"] \in Listens
  BY <1>1 DEF Config, Body, Field
<1>. QED
  BY <1>2 DEF Merge, Config, Field

(* A configuration with one field taken from another is a configuration.   *)
LEMMA FieldType ==
    ASSUME NEW c \in Config, NEW d \in Config, NEW f \in Field
    PROVE  [c EXCEPT ![f] = d[f]] \in Config
<1>1. CASE f = "radio"
  BY <1>1 DEF Config
<1>2. CASE f = "level"
  BY <1>2 DEF Config
<1>3. CASE f = "listen"
  BY <1>3 DEF Config
<1>. QED
  BY <1>1, <1>2, <1>3 DEF Field

LEMMA InitConfig == ConfigInit => ConfigInv
<1>. SUFFICES ASSUME ConfigInit PROVE ConfigInv
  OBVIOUS
<1>1. cfg \in Config /\ cfg.level \in Levels
  BY DEF ConfigInit, Config
<1>2. [f \in Field |-> Omitted] \in Body
  BY DEF Field, Body
<1>3. ConfigTypeOK
  BY <1>1, <1>2 DEF ConfigInit, ConfigTypeOK
<1>. QED
  BY <1>1, <1>3 DEF ConfigInit, ConfigInv, LevelStaysValid, CommitChecked, ParsedChecked

LEMMA ConfigReceiveStep ==
    ASSUME ConfigInv, NEW r \in Requests, NEW b \in Body, ReceivePost(r, b)
    PROVE  ConfigInv' /\ cfg'.listen = cfg.listen
  BY DEF ConfigInv, ConfigTypeOK, LevelStaysValid, CommitChecked, ParsedChecked, ReceivePost

LEMMA CopyStep ==
    ASSUME ConfigInv, NEW r \in Requests, NEW f \in Field, Copy(r, f)
    PROVE  ConfigInv' /\ cfg'.listen = cfg.listen
<1>. USE DEF ConfigInv
<1>1. incoming' = [incoming EXCEPT ![r] = [incoming[r] EXCEPT ![f] = cfg[f]]]
  BY DEF Copy
<1>2. [incoming[r] EXCEPT ![f] = cfg[f]] \in Config
  <2>1. incoming[r] \in Config /\ cfg \in Config
    BY DEF ConfigTypeOK
  <2>. QED
    BY <2>1, FieldType
<1>3. ConfigTypeOK'
  BY <1>1, <1>2 DEF ConfigTypeOK, Copy
<1>4. \A q \in Requests : q # r => incoming'[q] = incoming[q]
  BY <1>1 DEF ConfigTypeOK
<1>5. CommitChecked'
  BY <1>4 DEF CommitChecked, Copy
<1>. QED
  BY <1>3, <1>5 DEF LevelStaysValid, ParsedChecked, Copy

LEMMA DecodeStep ==
    ASSUME ConfigInv, NEW r \in Requests, Decode(r)
    PROVE  ConfigInv' /\ cfg'.listen = cfg.listen
<1>. USE DEF ConfigInv
<1>1. Merge(incoming[r], body[r]) \in Config
  BY MergeType DEF ConfigTypeOK
<1>2. ConfigTypeOK'
  BY <1>1 DEF ConfigTypeOK, Decode
<1>3. \A q \in Requests : pc'[q] = "commit" => pc[q] = "commit" /\ incoming'[q] = incoming[q]
  BY DEF ConfigTypeOK, Decode
<1>4. CommitChecked'
  BY <1>3 DEF CommitChecked, Decode
<1>. QED
  BY <1>2, <1>4 DEF LevelStaysValid, ParsedChecked, Decode, ConfigTypeOK

LEMMA ValidateStep ==
    ASSUME ConfigInv, NEW r \in Requests, Validate(r)
    PROVE  ConfigInv' /\ cfg'.listen = cfg.listen
<1>. USE DEF ConfigInv
<1>1. ConfigTypeOK'
  BY DEF ConfigTypeOK, Validate
<1>2. CommitChecked'
  BY DEF ConfigTypeOK, CommitChecked, Validate
<1>. QED
  BY <1>1, <1>2 DEF LevelStaysValid, ParsedChecked, Validate, ConfigTypeOK

(* The write back of one field: the level was parsed and the listen        *)
(* address is the one cfg has already.                                     *)
LEMMA CommitStep ==
    ASSUME ConfigInv, NEW r \in Requests, NEW f \in Field, Commit(r, f)
    PROVE  ConfigInv' /\ cfg'.listen = cfg.listen
<1>. USE DEF ConfigInv
<1>1. cfg' \in Config
  <2>1. incoming[r] \in Config /\ cfg \in Config
    BY DEF ConfigTypeOK
  <2>2. [cfg EXCEPT ![f] = incoming[r][f]] \in Config
    BY <2>1, FieldType
  <2>. QED
    BY <2>2 DEF Commit
<1>2. ConfigTypeOK'
  BY <1>1 DEF ConfigTypeOK, Commit
<1>3. incoming[r].level \in Levels /\ incoming[r].listen = cfg.listen
  BY DEF CommitChecked, Commit
<1>4. cfg'.listen = cfg.listen /\ cfg'.level \in Levels
  <2>1. CASE f = "radio"
    BY <2>1 DEF Commit, ConfigTypeOK, Config, LevelStaysValid
  <2>2. CASE f = "level"
    BY <2>2, <1>3 DEF Commit, ConfigTypeOK, Config
  <2>3. CASE f = "listen"
    BY <2>3, <1>3 DEF Commit, ConfigTypeOK, Config, LevelStaysValid
  <2>. QED
    BY <2>1, <2>2, <2>3 DEF Field
<1>5. CommitChecked'
  BY <1>4 DEF ConfigTypeOK, CommitChecked, Commit
<1>. QED
  BY <1>2, <1>4, <1>5 DEF LevelStaysValid, ParsedChecked, Commit, ConfigTypeOK

LEMMA LevelStep ==
    ASSUME ConfigInv, NEW r \in Requests, ParseLevel(r) \/ SetGlobalLevel(r)
    PROVE  ConfigInv' /\ cfg'.listen = cfg.listen
<1>. USE DEF ConfigInv
<1>1. CASE ParseLevel(r)
  BY <1>1 DEF ParseLevel, ConfigTypeOK, LevelStaysValid, CommitChecked, ParsedChecked
<1>2. CASE SetGlobalLevel(r)
  BY <1>2 DEF SetGlobalLevel, ConfigTypeOK, LevelStaysValid, CommitChecked, ParsedChecked
<1>. QED
  BY <1>1, <1>2

LEMMA SignalStep ==
    ASSUME ConfigInv, NEW r \in Requests, Signal(r) \/ Reconnect
    PROVE  ConfigInv' /\ cfg'.listen = cfg.listen
<1>. USE DEF ConfigInv
<1>1. CASE Signal(r)
  BY <1>1 DEF Signal, ConfigTypeOK, LevelStaysValid, CommitChecked, ParsedChecked
<1>2. CASE Reconnect
  BY <1>2 DEF Reconnect, ConfigTypeOK, LevelStaysValid, CommitChecked, ParsedChecked
<1>. QED
  BY <1>1, <1>2

LEMMA NextConfig == ConfigInv /\ [ConfigNext]_configVars => ConfigInv' /\ cfg'.listen = cfg.listen
<1>. SUFFICES ASSUME ConfigInv, [ConfigNext]_configVars PROVE ConfigInv' /\ cfg'.listen = cfg.listen
  OBVIOUS
<1>1. ASSUME NEW r \in Requests, NEW b \in Body, ReceivePost(r, b)
      PROVE  ConfigInv' /\ cfg'.listen = cfg.listen
  BY <1>1, ConfigReceiveStep
<1>2. ASSUME NEW r \in Requests, Handler(r)
      PROVE  ConfigInv' /\ cfg'.listen = cfg.listen
  BY <1>2, CopyStep, CommitStep, DecodeStep, ValidateStep, LevelStep, SignalStep
  DEF Handler
<1>3. CASE Reconnect
  BY <1>3 DEF Reconnect, ConfigInv, ConfigTypeOK, LevelStaysValid, CommitChecked, ParsedChecked
<1>4. CASE UNCHANGED configVars
  BY <1>4 DEF configVars, ConfigInv, ConfigTypeOK, LevelStaysValid, CommitChecked, ParsedChecked
<1>. QED
  BY <1>1, <1>2, <1>3, <1>4 DEF ConfigNext

(* For any requests and values: the shared configuration, though copied    *)
(* and written back field by field, keeps its types.                       *)
THEOREM ConfigTypeCorrect == ConfigSpec => []ConfigTypeOK
<1>1. ConfigInv => ConfigTypeOK
  BY DEF ConfigInv
<1>. QED
  BY InitConfig, NextConfig, <1>1, PTL DEF ConfigSpec

(* For any requests and values: what is written back was parsed first, so  *)
(* no mix of requests leaves a level nobody can parse.                     *)
THEOREM LevelCorrect == ConfigSpec => []LevelStaysValid
<1>1. ConfigInv => LevelStaysValid
  BY DEF ConfigInv
<1>. QED
  BY InitConfig, NextConfig, <1>1, PTL DEF ConfigSpec

(* For any requests and values: the address compared before the write back *)
(* is still cfg's while it is written, as no request can have changed it.  *)
THEOREM ListenFixed == ConfigSpec => ListenNeverChanges
<1>1. ConfigInv /\ [ConfigNext]_configVars => [cfg'.listen = cfg.listen]_configVars
  BY NextConfig
<1>. QED
  BY InitConfig, NextConfig, <1>1, PTL DEF ConfigSpec, ListenNeverChanges

-----------------------------------------------------------------------------
LEMMA NextSignalled ==
    ASSUME ConfigTypeOK, ChangeIsSignalled, [ConfigNext]_configVars
    PROVE  ChangeIsSignalled'
<1>. USE DEF ChangeIsSignalled
<1>1. ASSUME NEW r \in Requests, NEW b \in Body, ReceivePost(r, b)
      PROVE  ChangeIsSignalled'
  BY <1>1 DEF ReceivePost, ConfigTypeOK
<1>2. ASSUME NEW r \in Requests, NEW f \in Field, Copy(r, f)
      PROVE  ChangeIsSignalled'
  BY <1>2 DEF Copy, ConfigTypeOK
<1>3. ASSUME NEW r \in Requests, NEW f \in Field, Commit(r, f)
      PROVE  ChangeIsSignalled'
  <2>1. pc'[r] \in {"commit", "parse"}
    BY <1>3 DEF Commit, ConfigTypeOK
  <2>. QED
    BY <2>1
<1>4. ASSUME NEW r \in Requests,
             Decode(r) \/ Validate(r) \/ ParseLevel(r) \/ SetGlobalLevel(r)
      PROVE  ChangeIsSignalled'
  <2>1. dirty' = dirty /\ channel' = channel
    BY <1>4 DEF Decode, Validate, ParseLevel, SetGlobalLevel
  <2>2. \A q \in Requests : q # r => pc'[q] = pc[q]
    BY <1>4 DEF Decode, Validate, ParseLevel, SetGlobalLevel, ConfigTypeOK
  <2>3. CASE Decode(r) \/ Validate(r)
    BY <2>1, <2>2, <2>3 DEF Decode, Validate
  <2>4. CASE ParseLevel(r) \/ SetGlobalLevel(r)
    <3>1. pc'[r] \in {"setLevel", "signal"}
      BY <2>4 DEF ParseLevel, SetGlobalLevel, ConfigTypeOK
    <3>. QED
      BY <3>1
  <2>. QED
    BY <1>4, <2>3, <2>4
<1>5. ASSUME NEW r \in Requests, Signal(r)
      PROVE  ChangeIsSignalled'
  BY <1>5 DEF Signal
<1>6. CASE Reconnect
  BY <1>6 DEF Reconnect
<1>7. CASE UNCHANGED configVars
  BY <1>7 DEF configVars
<1>. QED
  BY <1>1, <1>2, <1>3, <1>4, <1>5, <1>6, <1>7 DEF ConfigNext, Handler

(* For any number of requests: the one token of reconnectCh stands for     *)
(* every change the connection loop has yet to read, or a request that     *)
(* will put it there is still under way.                                   *)
THEOREM SignalCorrect == ConfigSpec => []ChangeIsSignalled
<1>1. ConfigInit => ChangeIsSignalled
  BY DEF ConfigInit, ChangeIsSignalled
<1>2. ConfigTypeOK /\ ChangeIsSignalled /\ [ConfigNext]_configVars => ChangeIsSignalled'
  BY NextSignalled
<1>. QED
  BY ConfigTypeCorrect, <1>1, <1>2, PTL DEF ConfigSpec
=============================================================================
